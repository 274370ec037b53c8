# TLA+ models of the Xeros kernel

These modules model the process, messaging, sleep, signal, keyboard and heap
machinery of the Xeros teaching kernel (`src/c`, `src/h`), and the TLC configurations check it.
Each operator is translated from the C function it is named after. The
function and its lines are listed under `map` in `PROJECT.json`.

## The system

Xeros runs on one CPU. All of the kernel's concurrency comes from the
dispatcher loop in `disp.c`:

1. `contextswitch` (`ctsw.c`) enters a process.
2. The process runs in user mode until it makes a syscall (`int`) or the
   timer fires.
3. Control comes back to `dispatch`, which handles the request to completion
   and picks the next process.

Kernel code never runs concurrently with itself. The interleavings that
matter are the orders in which processes make their syscalls and in which
timer ticks fall between them.

The kernel parts:

- **PCB table and queues** (`pcb.c`, `pcbqueue.c`). A fixed array of PCBs is
  linked through a single `next` field into the ready, blocked and stopped
  FIFO queues. A slot's pid grows by `PCB_TABLE_SIZE` each time the slot is
  recycled, modulo `PID_MAX`. `pid_to_pcb` maps a pid to slot
  `(pid-1) % PCB_TABLE_SIZE`.
- **Messages** (`msg.c`, the `send`/`recv` cases of `disp.c`). These are
  synchronous. The party that arrives second finds its peer in the blocked
  queue and copies the message using the peer's saved syscall arguments.
- **Sleep** (`sleep.c`). This is a delta queue: each sleeper's `ret` holds
  the ticks it must wait after its predecessor. `tick` decrements the head
  and wakes the expired prefix.
- **Signals** (`signal.c` and the `kill`, `sighandler` and `sigreturn` cases).
  - Each PCB has a pending mask and an enabled mask.
  - `contextswitch` delivers the highest pending signal by pushing a frame
    for the trampoline `sigtramp`.
  - `sigtramp` calls the handler and then `syssigreturn`.
  - Signal `KILL_SIGNAL_NUM`'s handler is `sysstop`.
- **Creation** (`create.c`, `init.c`). `create` takes a PCB from the stopped
  queue and gives it a fresh signal table. It does not clear the fd table.
- **Heap** (`mem.c`). `kmeminit` builds a free list of two regions, one
  below the ISA hole and one above it. The list's `mem_header_t` headers lie in
  the memory they describe.
  - `kmalloc` is first fit in address order. It splits off the leftover
    and unlinks the chunk.
  - `kfree` checks `sanity_check`, inserts the chunk in address order and
    merges it with both neighbours (`coalesce_blocks`).
  - Boot allocates the keyboard's two control blocks, four PCB queues and the
    idle stack, and never frees them.
  - After boot, only `create` allocates (a stack, then a signal table) and
    only `cleanup_pcb` frees.
- **User programs** (`user.c`). `root` is the first process. It loops
  forever: open the keyboard, read a user name, turn echo off, read a
  password, close, and on a match create `shell` and wait for it. `shell`
  opens the keyboard, reads lines until EOF or `ex`, and creates one process
  per command: `t` (sleep forever, `&` runs it without waiting), `ps`
  (`sysgetcputimes`), `a <n>` (install a handler for signal 15, sleep,
  signal itself) and `k <pid>` (kill any pid with `KILL_SIGNAL_NUM`).
- **Devices** (`di_calls.c`, `kbd.c`).
  - Each PCB has `PCB_MAX_FDS` fds. Both entries of the device table are
    the keyboard, one without echo and one with it.
  - `kbd_read` registers a task in slot `pid % PCB_TABLE_SIZE` of the task
    list, then drains the 4-character buffer into it.
  - If the read is incomplete it returns `BLOCKERR`, and the dispatcher
    blocks the process with status `DEVICE`.
  - `keyboard_isr` (the `KEYBOARD_INT` case) decodes a scancode. It hands the
    character to every waiting task, or buffers it when no task waits.
  - A task is complete on a full buffer or a newline. The EOF character
    completes every task.

Not modelled (see `components` in `PROJECT.json`):

- `mem_dump`, which only prints the free list;
- keyboard echo (`kprintf`) and the port reads (`inb`, `outb`);
- the argument marshalling of the syscall stubs (`syscall.c`); `syscall()`'s
  trap and its result are modelled in `User`;
- the text the user programs print and the characters they compare: a line
  is abstracted to whether it holds text, and its parse to a choice of
  command.

## Modules

| module | models | contents |
|---|---|---|
| `XerosConst` | `xeroskernel.h` | constants, return codes, request ids, masks as sets |
| `Pcb` | `pcb.c`, `pcbqueue.c` | queue operations, `pid_to_pcb`, `cleanup_pcb`, peeks, `get_next_pcb` |
| `Sleep` | `sleep.c` | delta insertion (`SleepWalk`), `sleep`, `wake`, `tick` |
| `Signal` | `signal.c` | `set_pcb_signal` and its unblocking switch, `signal`, delivery |
| `Msg` | `msg.c` | `send`, `recv`, the copy (`Transfer`) |
| `Kbd` | `kbd.c`, `di_calls.c`, `mem.c` | scancode decoding, the driver's open/close/read/ioctl, the ISR, buffer flush, EOF, the `di_*` calls, `verify_sysptr` |
| `Kernel` | `disp.c`, `ctsw.c`, `create.c` | the variables, `Init`, one action per dispatcher case, the properties |
| `MCKernel` | — | the sets of calls and arguments the runs use, the frame bound |
| `MemConst` | `mem.c`, `xeroskernel.h` | the memory layout, `align_to_paragraph`, request sizes, the boot allocations |
| `Mem` | `mem.c`, `create.c`, `pcb.c` | the header fields, `kmeminit`, `kmalloc`, `kfree`, `coalesce_blocks`; `create` and `cleanup_pcb` as actions; the heap properties and the refinement mapping |
| `MemSpec` | `mem.c` | the abstract allocator: free memory as a set of paragraphs, first fit of the lowest free run |
| `MCMem` | — | the `VIEW` that drops stale header fields |
| `User` | `user.c`, `syscall.c` | a program counter per slot over `Kernel`; one action per stretch of a program up to its next syscall |
| `MCUser` | — | the calls the programs make, the keys typed, the line bound |

### Kernel state as variables

The variables are the PCB fields, as functions over the slots
`0..PCB_TABLE_SIZE-1`:

- `state`, `pid`, `blocked_status`, `blocked_id`, `ret` and `args`;
- `signal_table`, `signals_pending` and `signals_enabled`.

The kernel globals are variables too:

- the four queues;
- `process`, where the value `IDLE` is the idle process.

The device state:

- `fd_table`: one device number per fd, or `NODEV`;
- the driver's statics:
  - `kbd_task_list` (records of `pcb`, `bufflen`, the characters in `buff`,
    and `waiting_on_read`);
  - `kbd_task_refcount`, `kbd_refcount` and `kbd_current_type`;
  - `kbd_done`;
  - `keyboard_buffer`, a sequence standing for the circular buffer between
    tail and head;
  - `keyboard_keystate_flag`, a set of bits;
  - `keyboard_eof`;
  - `kbd_int`, the keyboard IRQ enable.

The remaining variables are:

- `frames[p]`: the signal frames on p's user stack. Each frame records the
  signal, the handler pointer and the saved `ret`.
- `in_user`: whether the current process is in user mode.
- `panic`: records a step after which the C program no longer behaves as the
  model can follow:
  - `"queue"`: `pcb_offer` of a PCB that is still linked, which cuts a list;
  - `"copy"`: `blkcopy` into the arguments of a peer that is not blocked in
    send or recv;
  - `"assert"`: an ASSERT failed (`set_pcb_signal`'s default case,
    `verify_sysptr`'s `len > 0`, `kbd_open`'s task check);
  - `"hang"`: `sigreturn`'s endless loop;
  - `"badcall"`: the trampoline calls a NULL or uninitialised handler.
  After a panic, only the stuttering `Halt` is enabled.
- `due` and `xfer` are ghosts:
  - `due` holds the ticks each sleeper is still owed under the spec;
  - `xfer` records the message transfer of the last step.

### How the operators are written

Every C function is an operator from the record `K` of all variables to the
record after the call. A function with a result returns `<<k', rv>>`.

A dispatcher case is the composition of the functions it calls, in the
code's order:

- `Enter` is the trap: `ret` gets the request id and `args` gets the
  arguments.
- The handler follows.
- The trailing `get_next_pcb` comes last.
- `Commit` makes the resulting record the next state.

`process->ret = handle_syscall_X()` is written `Assign`. The left operand's
`process` and the call are unsequenced in C (`disp.c:82,86`), so the result
is written either to the old process or to the new one (`AssignRet`).

User mode is left in one of four ways:

- a syscall action guarded by `UserRunning`, meaning the process runs `main`
  or an installed handler `H`;
- `Timer`;
- `KeyboardInt`, enabled while the keyboard IRQ is on;
- `KilledStop`, when the innermost frame's handler is `sysstop`;
- `Crash`, when the innermost frame's handler is NULL or junk.

`ContextSwitch` enters user mode, and delivers a signal first if one is
pending.

Function pointers are the model values:

- `NULLH` for NULL;
- `H` for an installed handler;
- `KILLSTUB` for `&sysstop`;
- `UNINIT` for the bytes `kmalloc` left in a table entry that `create` did
  not write (its `memset` clears only entry 0, `create.c:44`).

### The heap model

`Mem` is a model of its own, separate from `Kernel`. `Kernel` keeps `kmalloc`
failure as a nondeterministic choice in `create`.

- Addresses are bytes. Headers lie on 16-byte paragraphs.
- `size`, `prev`, `next` and `sanity_check` are functions over those
  paragraphs: `size[a]` is the field of a header at `a`.
- `kmalloc(h, sz)` and `kfree(h, ptr)` are operators on the heap record and
  return `<<h', result>>`. `Create` and `Stop` compose them in the code's
  order.
- `Put` writes a header field where the code has tested the pointer
  against NULL first.
- `StoreNextPrev` is the untested `curr->next->prev = curr->prev`
  (`mem.c:86`). On an exact fit of the last free block it stores through
  NULL, at address 4 below the heap. The model then sets the ghost
  `low_store` and leaves the heap unchanged.
- The ghost `allocated` holds the chunks `kmalloc` returned and `kfree` has
  not taken back.
- `Init` is the heap after the boot allocations (`Boot`, a fold of `kmalloc`
  over `BootSizes`) with every slot on the stopped queue.
- `Create`'s first action is `rootinit`'s `create`.

Sizes are scaled down so that two processes fill the heap:

- the heap is 288 bytes below the hole and 224 bytes above it;
- default stacks are 32 bytes; stacks of 0 or 64 bytes are requested;
- the idle stack is 16 bytes;
- the signal table has 3 entries.

The properties still separate the code's cases:

- an exact fit and a split;
- unlinking at the head of the list and after a predecessor;
- merging with the next block and with the previous one;
- both regions;
- create failing on the stack, failing on the table, and failing for want of a PCB.

`MemSpec` states what the allocator promises, without a list:

- free memory is a set of paragraphs;
- `Alloc` takes the lowest start of a free run that holds the request and
  its header, and fails only when no free run does;
- `Release` returns the chunk.

`Mem` maps onto it with `free <- FreeSet` (the paragraphs the free blocks
cover) and `chunks <- [c \in allocated |-> size[c]]`. `ImplementsMemSpec`
checks `MemSpec!Spec` as a property. A single free block equals a single free
run only if `kfree` merged every pair of adjacent blocks, so the refinement
checks the coalescing as well as first fit.

`MCMem`'s `VIEW HeapView` keeps only what the code can still read:

- the list;
- the header fields of free blocks;
- the size and sanity check of allocated chunks;
- the slots' pointers.

Fields of memory that was split away or merged are stale. `kmalloc` reads only
free headers, and `kfree` reads the header of the chunk it is given, so states
that differ only in stale fields behave alike.

### The user programs

`User` extends `Kernel`. The variable `pc` holds, for each slot, the point
in its program just after its last syscall. `awaiting` says the process is
trapped in a call and has not yet been resumed.

- An action such as `RootReadUser` is the code from one syscall to the
  next, made with the `Do*` action `Kernel` has for it: `At(l)` requires the
  running process to be back in user mode at `l`, and `Goto` records the trap
  (`syscall()`, `syscall.c:32-41`).
- `Resume` is a `ContextSwitch` that ends a call: it copies the kernel's
  `ret` into `rv`, the value `syscall()` returns. After a read it records in
  `buf` whether the task's buffer holds text before its newline
  (`filter_newline`).
- `Spawn` gives a created process its entry point; a program function that
  returns goes to `sysstop`, as `create` placed its address under the first
  frame (`Return`).
- A signal frame with handler `H` runs `command_a_handler` (`AlarmHandler`),
  whose `syssigreturn` comes from the trampoline.
- `sysputs` calls between two other syscalls only print and are merged into
  the step; `RootReject` keeps its `sysputs` because it is the only call on
  that path.
- `get_command` is abstracted: a line with text may parse to any command of
  `Commands`, an empty line to none.
- Signal 15 of `command_a` is `KILL_SIGNAL_NUM - 1` of the scaled signal
  table, and `t`'s 10000 ms sleep is `T_SLEEP_MS`.

`MCUser` instantiates three slots (root, the shell and one command), pids
without reuse, the keys Enter, Ctrl, a letter and d, and lines of at most
two characters in a task buffer (`LineBound`).

## Runs

`heap_allocator` runs `MCMem` and `login_sessions` runs `MCUser`. Every other run is an `MCKernel` cfg. `CONSTRAINT FrameBound` limits the signal
frames per process to `MaxFrames`. The cfgs choose which syscalls the running
process may make (`Calls`) and the argument sets.

### Passing runs

- `directed_messaging` (2 PCBs, `PID_MAX` 2, create/yield/stop/kill/send/recv/sleep/wait/getpid/puts/cputimes, recv with a named sender, sleeps of 1 tick, kills with signal 2 = `KILL_SIGNAL_NUM`): `TypeOK`, `QueuesWellFormed`, `NoLostRendezvous`, `KillStops`.
  - `QueuesWellFormed`: every live PCB is in exactly the queue its state says, and no list is ever cut.
  - `NoLostRendezvous`: a sender and a receiver that wait for each other are never both blocked.
  - The sleep delta queue is not checked here: with two slots no third process is awake to KILL a sleeper that has a successor, and `sleep(0)` is left out, so `DeltaQueueMatchesDue` could only pass for lack of the cases that break it. `sleep_delta` checks it.
  - `KillStops`: a live PCB with KILL pending is eventually stopped, under the fairness below.
  - Stale pids are the question of `pid_addressing`; here each slot keeps its pid.
- `heap_allocator` (`MCMem`, 2 slots): `TypeOK`, `FreeListWellFormed`, `HeapTiled`, `ImplementsMemSpec`.
  - `FreeListWellFormed`: the walk from `free_list` ends in NULL, every `prev` points back, and the blocks ascend with a gap between any two.
  - `HeapTiled`: free blocks and allocated chunks tile both regions without overlap; every allocated chunk keeps its sanity check; every live slot's stack and table are allocated, so `cleanup_pcb`'s `kfree` calls succeed.
  - `ImplementsMemSpec`: the refinement described above.
- `signal_queues` (2 PCBs, signals 0 and 1 with handlers installable, `VIEW NoGhostView`): `QueuesWellFormed` and `NoLostRendezvous` with signals interrupting blocked senders and receivers.
- `keyboard_reads`: `TypeOK`, `QueuesWellFormed`, `OpenCountMatchesFds`.
  - Two PCBs open, read one byte, write, ioctl (set EOF to newline, or an unknown command) and close the keyboard.
  - Meanwhile the keys Enter, Ctrl and d are typed, which gives Ctrl-D as EOF.
  - Whether every process blocked on the device has a waiting task (`DeviceReaderHasTask`) is not checked here: with reads of one byte the flush can never complete the caller's own task before it blocks. `kbd_lost_wakeup` reads two bytes and breaks it.
  - `OpenCountMatchesFds`: `kbd_refcount` is the number of open fds of all slots, every open fd has the driver's current type, and the IRQ is off when nothing is open.

### Violation runs

Each of these checks one property and finds it broken. See `findings`.

| run | property | what the code does |
|---|---|---|
| `recv_any_rendezvous` | `NoLostRendezvous` | a receive-any receiver and its sender both block (`msg.c:24`); the same path re-offers a still-linked PCB (`msg.c:25`), which breaks `QueuesWellFormed` too |
| `sleep_delta` | `DeltaQueueMatchesDue` | TLC's trace: `sleep(0)` puts a zero delta at the head; the tick takes it to -1 and wakes it, and the sleeper behind keeps its whole delta, so it wakes one tick late. A KILLed sleeper also takes its delta out of the queue without giving it to its successor (`sleep.c:92`), which then wakes early; that longer trace is in the same state space |
| `signal_delivery` | `SignalDelivery` | a handler is uninstalled while its signal is pending (`disp.c:342`), and contextswitch delivers into NULL |
| `heap_ownership` | `HeapOwned` | `create` returns when the table allocation fails and keeps the stack allocated with no PCB holding it (`create.c:41`) |
| `pid_addressing` | `ReachesAddressee` | kill of a pid that does not exist signals the slot's occupant (`pcb.c:170`) |
| `kbd_lost_wakeup` | `ReadersMatchTasks` | a read of 2 bytes after a buffered newline completes its own task in the flush, yet returns `BLOCKERR`; the process blocks on the device forever (`kbd.c:202`) |
| `kernel_hangs` | `KernelNeverHangs` | killing a process blocked in `sysread` reaches `ASSERT(0)` in `set_pcb_signal` (`signal.c:96`). The run allows only kill and 1-byte reads, so that this is its trace: `sysread` of length 0 (`mem.c:181`) and `syssigreturn` outside a handler (`disp.c:368`) also hang the kernel, but are not reached here |
| `login_sessions` | `LoginStartsFresh` | the shell's `k` kills the shell while it holds the keyboard open; `cleanup_pcb` closes nothing (`pcb.c:180`), so after a Ctrl-D the EOF state survives into root's next login |

`ReachesAddressee` is an action property covering every delivery by pid:
- a transferred message pairs a sender with a receiver and their pids;
- a new pending signal is set on the PCB whose pid was named;
- a recycled slot starts with no pending signals;
- a READY process's `ret` is not overwritten by another process's call;
- a new wait names a live process other than the waiter.

TLC's shortest counterexample is the stale kill. Each other conjunct is broken
by the code on its own:
- a message stolen by recv-any;
- the unsequenced `process->ret` at `disp.c:82`;
- a KILL inherited through `cleanup_pcb` (`pcb.c:180`);
- wait on one's own pid (`disp.c:197`).

`SignalDelivery` has three conjuncts:
- frames nest by priority;
- the enabled mask is the set of signals whose frames are on the stack;
- no pending signal has a NULL handler.

The shortest trace breaks the third. With `sighandler` limited to
installing `H`, the first two fail too: `pending > enabled` (`signal.c:116`)
delivers signal 0 on top of signal 1's frame.

`HeapOwned` says two things:
- every allocated chunk is a boot chunk or a live process's stack or table;
- no header store has gone through NULL (the ghost `low_store`).

Its shortest trace is the leak. The store through NULL at `mem.c:86` needs a
table that takes the exact size of the last free block, and it also happens on
the third create.

`LoginStartsFresh` is an action property: when root's `sysopen` at the top
of its loop succeeds, `kbd_done` is false, so the login's reads wait for
keys. In TLC's trace the shell reads a line ending in Ctrl-D, which
returns one byte and sets `kbd_done`; the command `k` with the shell's pid
stops the shell with its fd open, so `kbd_refcount` stays 1. Root's
`syswait` returns, its `sysopen` is not the first open and does not reset
the EOF state, and every later read returns 0 at once with the keyboard IRQ
off: nobody can log in again.

`ReadersMatchTasks` strengthens `DeviceReaderHasTask`: the waiting tasks are
exactly the processes blocked on the device, and `kbd_task_refcount` counts
them.

### Bounds

- Sleeps in `directed_messaging` are of one tick, which keeps the run within reach alongside every queue call; the sleep queue there only exercises the queue discipline. The delta arithmetic is the question of `sleep_delta`, with three slots and sleeps of 0, 1 and 2 ticks.
- Two PCBs suffice for every two-party protocol (rendezvous, wait, kill, a reader and a closer).
- Three PCBs are used where a third party matters: a receive-any taking another process's message.
- `PID_MAX` equal to twice `PCB_TABLE_SIZE` lets each slot be reused with a new pid, which is what makes pids stale. The keyboard runs use `PID_MAX` 2 to keep the driver's state space in reach.
- `MaxFrames` 1 allows one signal handler at a time. It is 2 or 3 where nesting is the question.
- The heap run's sizes are chosen so that, within two slots, the table allocation fails after the stack has succeeded, and a create finds no free PCB.
- Message lengths are `{1}`: the copy length does not affect control.
- The keyboard runs use:
  - one fd per PCB (`PCB_MAX_FDS` 1), so opens beyond the first fail;
  - reads of 1 byte, and of 2 bytes in `kbd_lost_wakeup`;
  - the keys Enter, Ctrl and d. These give newline completion, EOF, and the full 4-character buffer.
- `login_sessions` uses three slots, the least that holds root, a shell
  and a command, with every command and the pid arguments 0 to 3 for `k`.
  Lines are bounded to two characters, enough for a letter and a newline or
  Ctrl-D.
- `CONSTRAINT TaskRefBound` caps `kbd_task_refcount` at 2. Each read after EOF raises it and nothing lowers it (`kbd.c:181,198`).

## Fairness

`Fairness` has three parts, each justified by the code:

- **Weak fairness on `ContextSwitch`.** `dispatch` loops forever and always
  switches to the process it picked.
- **Strong fairness on `Timer`.** The timer interrupt fires whenever a
  process, including the idle one, stays in user mode. The model can leave
  user mode by a syscall first, so `Timer` is only repeatedly enabled, hence
  SF.
- **Strong fairness on `KilledStop`.** The trampoline reaches `sysstop` in a
  bounded number of instructions once the KILL frame is entered.

User processes themselves get no fairness: a process may never make another
syscall.

## Plan for later sittings

- Liveness of `wait` and of a device read under keyboard fairness.
- A run that types Shift, to check the decoding against a reference decoder. Releasing Ctrl clears Shift (`kbd.c:475`).
- The delta insertion `SleepWalk` checked against a reference definition
  over bounded queues.
- An abstract specification of a synchronous rendezvous, with `Msg` shown to
  refine it where recv names its sender.
