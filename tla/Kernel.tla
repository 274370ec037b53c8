------------------------------- MODULE Kernel -------------------------------
(***************************************************************************)
(* The dispatcher loop of c/disp.c and the context switch of c/ctsw.c.   *)
(*                                                                         *)
(* One iteration of dispatch() is two steps: ContextSwitch, which         *)
(* delivers the highest pending signal (contextswitch, ctsw.c:47-49) and  *)
(* enters user mode, and then the request the process makes: a syscall, *)
(* the timer interrupt, or (inside a signal handler) the call of the      *)
(* handler pointer.  The user program is the most general one: any        *)
(* syscall with any argument of the small sets below.                     *)
(*                                                                         *)
(* The variables are the fields of the PCBs (functions over Slots), the  *)
(* four queues, and `process`, the static of disp.c.  K is the record of *)
(* all of them on which the operators of Pcb, Sleep, Signal and Msg act. *)
(***************************************************************************)
EXTENDS Msg, Kbd

CONSTANTS
  Calls,          \* the syscalls the user program may make
  TargetPids,     \* pids passed to kill, wait and send
  FromPids,       \* values of *from_pid passed to recv (0: any sender)
  SigArgs,        \* signal numbers passed to kill and syssighandler
  Lens,           \* buffer lengths; 0 stands for every length or buffer
                  \* rejected by the handler (SYSERR_OTHER)
  SleepMs,        \* milliseconds passed to syssleep
  UninitHandlers, \* what the table entries create leaves unwritten hold
  DevArgs,        \* device numbers passed to sysopen
  FdArgs,         \* fds passed to sysclose, sysread, syswrite, sysioctl
  ReadLens,       \* buffer lengths passed to sysread and syswrite
  BufArgs,        \* "ok" or "bad": whether verify_sysptr accepts the buffer
  IoctlArgs,      \* <<command, argument>> pairs passed to sysioctl
  Scancodes       \* scancodes the keyboard sends

ASSUME Calls \subseteq {"create", "yield", "stop", "getpid", "puts", "kill",
                        "send", "recv", "sleep", "cputimes", "sighandler",
                        "sigreturn", "wait", "open", "close", "read",
                        "write", "ioctl"}
ASSUME UninitHandlers \subseteq Handlers /\ UninitHandlers # {}

VARIABLES
  process,          \* disp.c `process`: a slot or IDLE
  state, pid, blocked_status, blocked_id,
  ret,              \* pcb->ret: request id, result, delta or saved eax
  args,             \* pcb->args as far as another PCB reads it
  ready_queue, blocked_queue, sleep_queue, stopped_queue,
  signal_table, signals_pending, signals_enabled,
  frames,           \* the signal frames on each user stack
  in_user,          \* TRUE between contextswitch and the next request
  panic,            \* "none", or how the kernel stopped working
  due,              \* ghost: ticks each sleeper still has to sleep
  xfer,             \* ghost: the message transfer of the last step
  fd_table,         \* pcb->fd_table: a device number or NODEV per fd
  kbd_task_list, kbd_task_refcount, kbd_refcount, kbd_current_type,
  kbd_done, keyboard_buffer, keyboard_keystate_flag, keyboard_eof,
  kbd_int           \* the keyboard IRQ as setKbdInt last left it

vars == <<process, state, pid, blocked_status, blocked_id, ret, args,
          ready_queue, blocked_queue, sleep_queue, stopped_queue,
          signal_table, signals_pending, signals_enabled, frames,
          in_user, panic, due, xfer, fd_table, kbd_task_list,
          kbd_task_refcount, kbd_refcount, kbd_current_type, kbd_done,
          keyboard_buffer, keyboard_keystate_flag, keyboard_eof, kbd_int>>

K == [process |-> process, state |-> state, pid |-> pid,
      blocked_status |-> blocked_status, blocked_id |-> blocked_id,
      ret |-> ret, args |-> args, ready_queue |-> ready_queue,
      blocked_queue |-> blocked_queue, sleep_queue |-> sleep_queue,
      stopped_queue |-> stopped_queue, signal_table |-> signal_table,
      signals_pending |-> signals_pending,
      signals_enabled |-> signals_enabled, frames |-> frames,
      in_user |-> in_user, panic |-> panic, due |-> due, xfer |-> xfer,
      fd_table |-> fd_table, kbd_task_list |-> kbd_task_list,
      kbd_task_refcount |-> kbd_task_refcount, kbd_refcount |-> kbd_refcount,
      kbd_current_type |-> kbd_current_type, kbd_done |-> kbd_done,
      keyboard_buffer |-> keyboard_buffer,
      keyboard_keystate_flag |-> keyboard_keystate_flag,
      keyboard_eof |-> keyboard_eof, kbd_int |-> kbd_int]

\* The step to the kernel state r: every variable takes its field of r
\* (r is evaluated once, as the element of {r}).
Commit(r) ==
  \E c \in {r} :
    /\ process' = c.process /\ state' = c.state /\ pid' = c.pid
    /\ blocked_status' = c.blocked_status /\ blocked_id' = c.blocked_id
    /\ ret' = c.ret /\ args' = c.args
    /\ ready_queue' = c.ready_queue /\ blocked_queue' = c.blocked_queue
    /\ sleep_queue' = c.sleep_queue /\ stopped_queue' = c.stopped_queue
    /\ signal_table' = c.signal_table /\ signals_pending' = c.signals_pending
    /\ signals_enabled' = c.signals_enabled /\ frames' = c.frames
    /\ in_user' = c.in_user /\ panic' = c.panic /\ due' = c.due
    /\ xfer' = c.xfer /\ fd_table' = c.fd_table
    /\ kbd_task_list' = c.kbd_task_list
    /\ kbd_task_refcount' = c.kbd_task_refcount
    /\ kbd_refcount' = c.kbd_refcount
    /\ kbd_current_type' = c.kbd_current_type /\ kbd_done' = c.kbd_done
    /\ keyboard_buffer' = c.keyboard_buffer
    /\ keyboard_keystate_flag' = c.keyboard_keystate_flag
    /\ keyboard_eof' = c.keyboard_eof /\ kbd_int' = c.kbd_int

NoXfer == [sender |-> NIL]

-----------------------------------------------------------------------------
(* contextswitch(process): the idle process has no signals; a PCB with a  *)
(* pending signal gets deliver_highest_priority_signal.                   *)
ContextSwitch ==
  /\ panic = "none" /\ ~in_user
  /\ Commit([IF process # IDLE /\ signals_pending[process] # {}
             THEN deliver_highest_priority_signal(K, process)
             ELSE K
             EXCEPT !.in_user = TRUE, !.xfer = NoXfer])

\* The handler the current PCB is executing: the one of the innermost
\* signal frame, or none.
TopHandler(p) == IF frames[p] = <<>> THEN "main" ELSE Last(frames[p]).handler

\* The process is in user code that can make syscalls: its main program
\* or an installed handler function.
UserRunning ==
  /\ panic = "none" /\ in_user /\ process # IDLE
  /\ TopHandler(process) \in {"main", H}

\* The trap into the kernel for syscall `call` (ctsw.c:103-106): ret holds
\* the request id, args the arguments.
Enter(call, a) ==
  [K EXCEPT !.ret[process] = SYSCALL_ID[call], !.args[process] = a,
            !.in_user = FALSE, !.xfer = NoXfer]

\* `process->ret = handle_syscall_X()` (disp.c:82, 86) when the handler
\* has moved `process` to the next PCB: C leaves unsequenced the load of
\* `process` for the left operand and the call, so the result lands in
\* the PCB `process` names before or after the call (nothing, for IDLE).
AssignRet(k, old, v) ==
  {IF t = IDLE THEN k ELSE [k EXCEPT !.ret[t] = v] : t \in {old, k.process}}

\* The signal table create() gives a new process: memset clears 4 bytes,
\* that is entry 0; the KILL entry is &sysstop; the rest is what the
\* kmalloc'ed block held.
NewSignalTable(junk) ==
  [g \in Sigs |-> CASE g = 0 -> NULLH
                  [] g = KILL_SIGNAL_NUM -> KILLSTUB
                  [] OTHER -> junk[g]]

\* create(): kmalloc of the stack and the table may fail (ok = FALSE);
\* the PCB polled from the stopped queue keeps its ret, args, blocked_id
\* and signals_pending.  Returns <<k', rc>>.
create(k, ok, junk) ==
  IF ~ok \/ k.stopped_queue = <<>> THEN <<k, CREATE_FAILURE>>
  ELSE LET n == Head(k.stopped_queue)
           k1 == [k EXCEPT !.stopped_queue = Tail(@),
                           !.signal_table[n] = NewSignalTable(junk),
                           !.signals_enabled[n] = {}, !.frames[n] = <<>>]
       IN  <<add_pcb_to_ready_queue(k1, n), k.pid[n]>>

handle_syscall_kill(k, tp, sig) ==
  LET t == pid_to_pcb(k, tp)
  IN  IF t = NIL THEN <<k, SYSKILL_TARGET_DNE>> ELSE set_pcb_signal(k, t, sig)

handle_syscall_wait(k, tp) ==
  LET p == k.process
  IN  IF pid_to_pcb(k, tp) = NIL \/ tp = 0
      THEN [k EXCEPT !.ret[p] = SYSPID_DNE]
      ELSE get_next_pcb([BlockAs(k, p, "WAITING", tp) EXCEPT !.ret[p] = 0])

handle_syscall_send(k, dp, len) ==
  LET p == k.process
      d == pid_to_pcb(k, dp)
      r == send(k, p, d, len)
  IN  CASE d = NIL          -> <<k, SYSPID_DNE>>
        [] dp = k.pid[p]    -> <<k, SYSPID_SELF>>
        [] len <= 0         -> <<k, SYSERR_OTHER>>
        [] r[2] = BLOCKERR  -> <<get_next_pcb(r[1]), SYSPID_DNE>>
        [] OTHER            -> r

handle_syscall_recv(k, fp, len) ==
  LET p == k.process
      f == pid_to_pcb(k, fp)
      r == recv(k, f, p, len)
  IN  CASE fp # 0 /\ f = NIL -> <<k, SYSPID_DNE>>
        [] fp = k.pid[p]      -> <<k, SYSPID_SELF>>
        [] len <= 0           -> <<k, SYSERR_OTHER>>
        [] r[2] = BLOCKERR    -> <<get_next_pcb(r[1]), SYSPID_DNE>>
        [] OTHER              -> r

\* handle_syscall_sleep then the dispatcher's get_next_pcb.
handle_syscall_sleep(k, ms) ==
  get_next_pcb(sleep(IF ms = 0 THEN [k EXCEPT !.ret[k.process] = 0] ELSE k,
                     k.process, ms))

\* The address checks of cputimes: ps in the hole (-1), ps past the end
\* of memory (-2), or a good buffer.
handle_syscall_cputimes(k, where) ==
  CASE where = "hole"   -> -1
    [] where = "beyond" -> -2
    [] OTHER            -> fill_processStatus(k)

handle_syscall_sighandler(k, sig, h) ==
  IF sig \notin Sigs \/ sig = KILL_SIGNAL_NUM THEN <<k, INVALID_SIGNAL>>
  ELSE <<[k EXCEPT !.signal_table[k.process][sig] = h], 0>>

\* sigreturn from the trampoline: restore the ret saved in the innermost
\* frame, pop it, and clear the highest enabled bit; with no bit set the
\* search loop never ends.
handle_syscall_sigreturn(k) ==
  LET p  == k.process
      en == k.signals_enabled[p]
  IN  [k EXCEPT !.ret[p] = Last(k.frames[p]).ret, !.frames[p] = Front(@),
                !.signals_enabled[p] = IF en = {} THEN {} ELSE en \ {Max(en)},
                !.panic = IF en = {} THEN "hang" ELSE @]

\* Mutant: a read that blocks does not hand the CPU to the next PCB.
handle_syscall_read_stay(k, fd, len, where) ==
  LET p  == k.process
      v  == verify_sysptr(k, where, len)
      r  == di_read(k, p, fd, len)
      k1 == [r[1] EXCEPT !.ret[p] = r[2]]
  IN  CASE v[2] # OK    -> [v[1] EXCEPT !.ret[p] = SYSERR]
        [] r[2] = BLOCKERR ->
             [k1 EXCEPT !.state[p] = "BLOCKED", !.blocked_status[p] = "DEVICE"]
        [] OTHER -> k1

\* handle_syscall_read: a rejected buffer gives SYSERR; a read that would
\* block leaves the PCB BLOCKED on the device, in no queue, and the
\* dispatcher moves on.
handle_syscall_read(k, fd, len, where) ==
  LET p  == k.process
      v  == verify_sysptr(k, where, len)
      r  == di_read(k, p, fd, len)
      k1 == [r[1] EXCEPT !.ret[p] = r[2]]
  IN  CASE v[2] # OK    -> [v[1] EXCEPT !.ret[p] = SYSERR]
        [] r[2] = BLOCKERR ->
             get_next_pcb([k1 EXCEPT !.state[p] = "BLOCKED",
                                     !.blocked_status[p] = "DEVICE"])
        [] OTHER -> k1

handle_syscall_write(k, fd, len, where) ==
  LET p == k.process
      v == verify_sysptr(k, where, len)
  IN  [v[1] EXCEPT !.ret[p] = IF v[2] # OK THEN SYSERR ELSE di_write(k, p, fd)]

\* SYSCALL_STOP: cleanup_pcb then get_next_pcb.
Stop(k) == get_next_pcb(cleanup_pcb(k, k.process))
-----------------------------------------------------------------------------
\* A kbd_task_list entry as the static array and kbd_init leave it.
NoTask == [pcb |-> NIL, bufflen |-> 0, buff |-> <<>>, waiting_on_read |-> FALSE]

(* The state dispatch() starts from: initpcb, rootinit's create of the    *)
(* root process in slot 0 (pid 1), then get_next_pcb.  pcb_array is      *)
(* static, so every field create does not write is zero.                  *)
Init ==
  \E junk \in [Sigs -> UninitHandlers] :
    /\ process = 0
    /\ state = [s \in Slots |-> IF s = 0 THEN "RUNNING" ELSE "STOPPED"]
    /\ pid = [s \in Slots |-> s + 1]
    /\ blocked_status = [s \in Slots |-> "NONE"]
    /\ blocked_id = [s \in Slots |-> 0]
    /\ ret = [s \in Slots |-> 0]
    /\ args = [s \in Slots |-> NoArgs]
    /\ ready_queue = <<>> /\ blocked_queue = <<>> /\ sleep_queue = <<>>
    /\ stopped_queue = [i \in 1 .. PCB_TABLE_SIZE - 1 |-> i]
    /\ signal_table = [s \in Slots |->
                         IF s = 0 THEN NewSignalTable(junk) ELSE [g \in Sigs |-> NULLH]]
    /\ signals_pending = [s \in Slots |-> {}]
    /\ signals_enabled = [s \in Slots |-> {}]
    /\ frames = [s \in Slots |-> <<>>]
    /\ in_user = FALSE
    /\ panic = "none"
    /\ due = [s \in Slots |-> 0]
    /\ xfer = NoXfer
    /\ fd_table = [s \in Slots |-> [fd \in Fds |-> NODEV]]
    /\ kbd_task_list = [i \in 0 .. KBD_TASK_LIST_SIZE - 1 |-> NoTask]
    /\ kbd_task_refcount = 0 /\ kbd_refcount = 0 /\ kbd_current_type = 0
    /\ kbd_done = FALSE /\ keyboard_buffer = <<>>
    /\ keyboard_keystate_flag = {} /\ keyboard_eof = 0 /\ kbd_int = FALSE

\* One case of the dispatcher's switch per action.  A handler that returns
\* a value is written Assign(<<k', v>>): process->ret = v.
Assign(r) == \E k \in AssignRet(r[1], process, r[2]) : Commit(k)

DoCreate ==
  /\ "create" \in Calls /\ UserRunning
  /\ \E ok \in BOOLEAN, junk \in [Sigs -> UninitHandlers] :
       Assign(create(Enter("create", NoArgs), ok, junk))

DoYield ==
  /\ "yield" \in Calls /\ UserRunning
  /\ Commit(get_next_pcb(add_pcb_to_ready_queue(Enter("yield", NoArgs), process)))

DoStop ==
  /\ "stop" \in Calls /\ UserRunning
  /\ Commit(Stop(Enter("stop", NoArgs)))

\* The trampoline calls the KILL handler &sysstop: a STOP request.
KilledStop ==
  /\ panic = "none" /\ in_user /\ process # IDLE
  /\ TopHandler(process) = KILLSTUB
  /\ Commit(Stop(Enter("stop", NoArgs)))

DoGetpid ==
  /\ "getpid" \in Calls /\ UserRunning
  /\ Commit([Enter("getpid", NoArgs) EXCEPT !.ret[process] = pid[process]])

DoPuts ==
  /\ "puts" \in Calls /\ UserRunning
  /\ Commit([Enter("puts", NoArgs) EXCEPT !.ret[process] = 0])

DoKill(tp, sig) ==
  /\ "kill" \in Calls /\ UserRunning
  /\ Assign(handle_syscall_kill(
              Enter("kill", [call |-> "other", pid |-> tp, len |-> 0]), tp, sig))

DoWait(tp) ==
  /\ "wait" \in Calls /\ UserRunning
  /\ Commit(handle_syscall_wait(Enter("wait", NoArgs), tp))

DoSend(dp, len) ==
  /\ "send" \in Calls /\ UserRunning
  /\ Assign(handle_syscall_send(
              Enter("send", [call |-> "send", pid |-> dp, len |-> len]), dp, len))

DoRecv(fp, len) ==
  /\ "recv" \in Calls /\ UserRunning
  /\ Assign(handle_syscall_recv(
              Enter("recv", [call |-> "recv", pid |-> fp, len |-> len]), fp, len))

DoSleep(ms) ==
  /\ "sleep" \in Calls /\ UserRunning
  /\ Commit(handle_syscall_sleep(Enter("sleep", NoArgs), ms))

DoCputimes(where) ==
  /\ "cputimes" \in Calls /\ UserRunning
  /\ LET k == Enter("cputimes", NoArgs)
     IN  Commit([k EXCEPT !.ret[process] = handle_syscall_cputimes(k, where)])

DoSighandler(sig, h) ==
  /\ "sighandler" \in Calls /\ UserRunning
  /\ Assign(handle_syscall_sighandler(Enter("sighandler", NoArgs), sig, h))

\* sigtramp: the installed handler has returned and calls syssigreturn.
DoSigreturn ==
  /\ "sigreturn" \in Calls /\ UserRunning /\ frames[process] # <<>>
  /\ Commit(handle_syscall_sigreturn(Enter("sigreturn", NoArgs)))

\* TIMER_INT: the saved eax becomes pcb->ret, tick(), the PCB goes back to
\* the ready queue unless it is the idle process, get_next_pcb.
Timer ==
  /\ panic = "none" /\ in_user
  /\ LET k0 == IF process = IDLE THEN K ELSE [K EXCEPT !.ret[process] = USER_EAX]
         k1 == tick([k0 EXCEPT !.in_user = FALSE, !.xfer = NoXfer])
     IN  Commit(get_next_pcb(IF process = IDLE THEN k1
                             ELSE add_pcb_to_ready_queue(k1, process)))

DoOpen(dev) ==
  /\ "open" \in Calls /\ UserRunning
  /\ LET r == di_open(Enter("open", NoArgs), process, dev)
     IN  Commit([r[1] EXCEPT !.ret[process] = r[2]])

DoClose(fd) ==
  /\ "close" \in Calls /\ UserRunning
  /\ LET r == di_close(Enter("close", NoArgs), process, fd)
     IN  Commit([r[1] EXCEPT !.ret[process] = r[2]])

DoRead(fd, len, where) ==
  /\ "read" \in Calls /\ UserRunning
  /\ Commit(handle_syscall_read(Enter("read", NoArgs), fd, len, where))

DoWrite(fd, len, where) ==
  /\ "write" \in Calls /\ UserRunning
  /\ Commit(handle_syscall_write(Enter("write", NoArgs), fd, len, where))

DoIoctl(fd, cmd, arg) ==
  /\ "ioctl" \in Calls /\ UserRunning
  /\ LET r == di_ioctl(Enter("ioctl", NoArgs), process, fd, cmd, arg)
     IN  Commit([r[1] EXCEPT !.ret[process] = r[2]])

\* KEYBOARD_INT, while the IRQ is enabled: the saved eax becomes pcb->ret,
\* keyboard_isr reads one scancode; the process is not requeued and the
\* dispatcher switches back to it.
KeyboardInt(data) ==
  /\ panic = "none" /\ in_user /\ kbd_int
  /\ LET k0 == IF process = IDLE THEN K ELSE [K EXCEPT !.ret[process] = USER_EAX]
     IN  Commit(keyboard_isr([k0 EXCEPT !.in_user = FALSE, !.xfer = NoXfer], data))

\* The trampoline calls a NULL or never written handler pointer.
Crash ==
  /\ panic = "none" /\ in_user /\ process # IDLE
  /\ TopHandler(process) \in {NULLH, UNINIT}
  /\ panic' = "badcall"
  /\ UNCHANGED <<process, state, pid, blocked_status, blocked_id, ret, args,
                 ready_queue, blocked_queue, sleep_queue, stopped_queue,
                 signal_table, signals_pending, signals_enabled, frames,
                 in_user, due, xfer, fd_table, kbd_task_list,
                 kbd_task_refcount, kbd_refcount, kbd_current_type, kbd_done,
                 keyboard_buffer, keyboard_keystate_flag, keyboard_eof, kbd_int>>

\* A kernel that hit ASSERT or an endless loop stays there.
Halt == panic # "none" /\ UNCHANGED vars

Next ==
  \/ ContextSwitch \/ Timer \/ Crash \/ Halt
  \/ DoCreate \/ DoYield \/ DoStop \/ KilledStop \/ DoGetpid \/ DoPuts
  \/ DoSigreturn
  \/ \E tp \in TargetPids, sig \in SigArgs : DoKill(tp, sig)
  \/ \E tp \in TargetPids : DoWait(tp)
  \/ \E dp \in TargetPids, len \in Lens : DoSend(dp, len)
  \/ \E fp \in FromPids, len \in Lens : DoRecv(fp, len)
  \/ \E ms \in SleepMs : DoSleep(ms)
  \/ \E w \in {"ok", "hole", "beyond"} : DoCputimes(w)
  \/ \E sig \in SigArgs, h \in {NULLH, H} : DoSighandler(sig, h)
  \/ \E dev \in DevArgs : DoOpen(dev)
  \/ \E fd \in FdArgs : DoClose(fd)
  \/ \E fd \in FdArgs, len \in ReadLens, w \in BufArgs :
       DoRead(fd, len, w) \/ DoWrite(fd, len, w)
  \/ \E fd \in FdArgs, a \in IoctlArgs : DoIoctl(fd, a[1], a[2])
  \/ \E data \in Scancodes : KeyboardInt(data)

\* The kernel loop always goes on; the timer interrupts a process that
\* enters user mode again and again; the trampoline of a KILL frame
\* reaches sysstop in a bounded number of instructions.
Fairness == WF_vars(ContextSwitch) /\ SF_vars(Timer) /\ SF_vars(KilledStop)

Spec == Init /\ [][Next]_vars /\ Fairness

-----------------------------------------------------------------------------
ProcStates == {"RUNNING", "READY", "BLOCKED", "STOPPED"}
BlockedStatuses == {"NONE", "SEND", "RECEIVE", "SLEEP", "WAITING", "DEVICE"}
Panics == {"none", "queue", "copy", "assert", "hang", "badcall"}
Frame == [sig : Sigs, handler : Handlers, ret : Int]

TypeOK ==
  /\ process \in Slots \cup {IDLE}
  /\ state \in [Slots -> ProcStates]
  /\ pid \in [Slots -> Pids]
  /\ blocked_status \in [Slots -> BlockedStatuses]
  /\ blocked_id \in [Slots -> Int]
  /\ ret \in [Slots -> Int]
  /\ args \in [Slots -> [call : {"send", "recv", "other"}, pid : Int, len : Int]]
  /\ \A q \in QueueNames : K[q] \in Seq(Slots)
  /\ signal_table \in [Slots -> [Sigs -> Handlers]]
  /\ signals_pending \in [Slots -> SUBSET Sigs]
  /\ signals_enabled \in [Slots -> SUBSET Sigs]
  /\ frames \in [Slots -> Seq(Frame)]
  /\ in_user \in BOOLEAN
  /\ panic \in Panics
  /\ fd_table \in [Slots -> [Fds -> {NODEV} \cup 0 .. NUM_DEVICES - 1]]
  /\ kbd_task_list \in [0 .. KBD_TASK_LIST_SIZE - 1 ->
                         [pcb : Slots \cup {NIL}, bufflen : Int,
                          buff : Seq(Int), waiting_on_read : BOOLEAN]]
  /\ kbd_task_refcount \in Int /\ kbd_refcount \in Nat
  /\ kbd_current_type \in 0 .. NUM_DEVICES - 1 /\ kbd_done \in BOOLEAN
  /\ keyboard_buffer \in Seq(Int)
  /\ Len(keyboard_buffer) < KEYBOARD_BUFFER_SIZE
  /\ keyboard_keystate_flag \subseteq {SHIFT_BIT, CTRL_BIT, CAPLOCK_BIT}
  /\ keyboard_eof \in Int /\ kbd_int \in BOOLEAN

\* The queues a PCB in a given state and blocked_status must be linked in.
HomeQueues(s) ==
  CASE state[s] = "READY"   -> {"ready_queue"}
    [] state[s] = "STOPPED" -> {"stopped_queue"}
    [] state[s] = "BLOCKED" /\ blocked_status[s] = "SLEEP" -> {"sleep_queue"}
    [] state[s] = "BLOCKED" /\ blocked_status[s] \in {"SEND", "RECEIVE", "WAITING"}
                            -> {"blocked_queue"}
    [] OTHER -> {}

\* Queue discipline of pcb.c, pcbqueue.c and sleep.c: no handler ever
\* offers a PCB that is still linked (which cuts a list short), every PCB
\* is linked exactly once, in the queue its state and blocked_status name,
\* and the PCB in state RUNNING is the one `process` names.
QueuesWellFormed ==
  /\ panic # "queue"
  /\ \A q \in QueueNames : IsInjective(K[q])
  /\ \A s \in Slots :
       /\ {q \in QueueNames : InQueue(K, q, s)} = HomeQueues(s)
       /\ (state[s] = "RUNNING") <=> (s = process)

\* A sender and a receiver that name each other are never both blocked:
\* whichever of send() and recv() comes second completes the transfer.
NoLostRendezvous ==
  \A snd, rcv \in Slots :
    ~ /\ state[snd] = "BLOCKED" /\ blocked_status[snd] = "SEND"
      /\ state[rcv] = "BLOCKED" /\ blocked_status[rcv] = "RECEIVE"
      /\ blocked_id[snd] = pid[rcv]
      /\ blocked_id[rcv] \in {0, pid[snd]}

\* The delta queue of sleep.c: the deltas from the head up to a sleeper add
\* up to the ticks that sleeper still has to sleep, so every sleeper is
\* woken by the tick its syssleep asked for, whatever was inserted or
\* removed before it since.
DeltaQueueMatchesDue ==
  \A i \in 1 .. Len(sleep_queue) :
    FoldSeq(LAMBDA x, y : x + y, 0, [j \in 1 .. i |-> ret[sleep_queue[j]]])
      = due[sleep_queue[i]]

\* The signal numbers of the frames on the stack of s, innermost last.
FrameSigs(s) == [i \in DOMAIN frames[s] |-> frames[s][i].sig]

\* Signal delivery keeps its promises (deliver_highest_priority_signal,
\* sigreturn, and the table set_pcb_signal, create and sighandler keep):
\* the frames on a stack nest, each interrupting only lower-priority
\* handlers, and signals_enabled is the set of signals whose frames are on
\* the stack; and, spec section 3, a pending bit is never set for a signal
\* whose handler is NULL, so contextswitch never delivers into NULL.
SignalDelivery ==
  \A s \in Slots :
    state[s] # "STOPPED" =>
      /\ IsSorted(FrameSigs(s), LAMBDA a, b : a < b)
      /\ Range(FrameSigs(s)) = signals_enabled[s]
      /\ \A g \in signals_pending[s] : signal_table[s][g] \notin {NULLH, UNINIT}

\* What a pid names reaches the process that has that pid now, and only
\* that process (pid_to_pcb, send, recv, set_pcb_signal, wait, and the
\* dispatcher's `process->ret = handler()`):
\*  - a message transfer pairs a send with a recv, from the pid the
\*    receiver named or accepted to the pid the sender named;
\*  - syskill sets a pending bit only at the process whose pid it named,
\*    and a process create starts has no pending signal;
\*  - switching to a ready process leaves the result it resumes with
\*    unchanged;
\*  - syswait blocks a process only on the pid of another live process.
ReachesAddressee ==
  [][/\ xfer'.sender # NIL =>
          /\ xfer'.sargs.call = "send" /\ xfer'.rargs.call = "recv"
          /\ xfer'.sargs.pid = xfer'.rpid /\ xfer'.rargs.pid \in {0, xfer'.spid}
     /\ \A s \in Slots :
          /\ signals_pending'[s] \ signals_pending[s] # {} =>
               pid[s] = args'[process].pid
          /\ state[s] = "STOPPED" /\ state'[s] # "STOPPED" =>
               signals_pending'[s] = {}
          /\ s = process' /\ s # process /\ state[s] = "READY" =>
               ret'[s] = ret[s]
          /\ blocked_status[s] # "WAITING" /\ blocked_status'[s] = "WAITING" =>
               \E t \in Slots \ {s} :
                 state'[t] # "STOPPED" /\ pid'[t] = blocked_id'[s]]_vars

\* No sequence of syscalls and interrupts drives the kernel into a failed
\* ASSERT (a `while(1)` with interrupts off) or sigreturn's endless search.
KernelNeverHangs == panic \notin {"assert", "hang"}

\* Spec section 8: a process sent KILL is stopped after finitely many
\* dispatcher steps (or the kernel has halted).
KillStops ==
  \A s \in Slots :
    (KILL_SIGNAL_NUM \in signals_pending[s] /\ state[s] # "STOPPED")
      ~> (state[s] = "STOPPED" \/ panic # "none")

\* The reader slots of kbd_task_list: the waiting tasks.
Waiters == {i \in 0 .. KBD_TASK_LIST_SIZE - 1 : kbd_task_list[i].waiting_on_read}

\* Spec section 4.I: a read that returned BLOCKERR is woken by the lower
\* half, so every PCB blocked on the device is the pcb of a waiting task of
\* kbd_task_list (its own, pid mod KBD_TASK_LIST_SIZE), which the keyboard
\* ISR completes.
DeviceReaderHasTask ==
  \A s \in Slots :
    state[s] = "BLOCKED" /\ blocked_status[s] = "DEVICE" =>
      LET i == pid[s] % KBD_TASK_LIST_SIZE
      IN  i \in Waiters /\ kbd_task_list[i].pcb = s

\* kbd_open and kbd_close count the opens of the keyboard, di_open and
\* di_close record them in the caller's fd table: kbd_refcount is the
\* number of fd table entries that name the keyboard, over every slot
\* (cleanup_pcb closes nothing, and a PCB create recycles keeps its
\* table), so the IRQ is on while an fd is open and off after the last
\* close, and a close never finds the count at 0.
OpenCountMatchesFds ==
  /\ kbd_refcount = Cardinality({<<s, fd>> \in Slots \X Fds : fd_table[s][fd] # NODEV})
  /\ \A s \in Slots, fd \in Fds :
       fd_table[s][fd] # NODEV => fd_table[s][fd] = kbd_current_type
  /\ (kbd_refcount = 0 => ~kbd_int)

\* The waiting tasks of kbd_task_list are exactly the reads in progress:
\* every PCB blocked on the device has its task (DeviceReaderHasTask);
\* kbd.c:33, "using refcount to indicate when nobody is waiting": the
\* task refcount kbd_read raises and keyboard_unblock_proc and kbd_close
\* lower is the number of waiting tasks; and each waiting task belongs
\* to a PCB blocked on the device, so the ISR writes only into the
\* buffer and the ret of a read that has not returned.
ReadersMatchTasks ==
  /\ DeviceReaderHasTask
  /\ kbd_task_refcount = Cardinality(Waiters)
  /\ \A i \in Waiters :
       LET s == kbd_task_list[i].pcb
       IN  state[s] = "BLOCKED" /\ blocked_status[s] = "DEVICE"
=============================================================================
