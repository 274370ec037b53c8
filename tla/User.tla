-------------------------------- MODULE User --------------------------------
(***************************************************************************)
(* The user programs of c/user.c running on the kernel of module Kernel:  *)
(* root's login loop, the shell, and the processes its commands create.  *)
(*                                                                         *)
(* Each process in pcb_array runs one of these programs; pc[s] is the     *)
(* point of its program it has reached, always just after a syscall (or  *)
(* at its entry).  One action is the user code from there up to and      *)
(* including the next syscall, which is the Kernel action of that call   *)
(* (DoOpen, DoRead, ...).  The process returns from its function into     *)
(* sysstop, the return address create() leaves on its stack.             *)
(*                                                                         *)
(* sysputs only prints: it changes nothing another process reads, so a    *)
(* puts between two other syscalls is merged into the step of the next    *)
(* one; a puts that is the only syscall of a path is kept.               *)
(*                                                                         *)
(* What the keyboard delivered is abstracted to whether the line holds a *)
(* character before its newline: typed text can be any user name,        *)
(* password or command, and an empty line none.                          *)
(***************************************************************************)
EXTENDS Kernel

CONSTANTS
  Commands,     \* the shell commands a typed line can hold
  KillArgs,     \* atoi(arg) of a "k" line: the pid to kill
  AlarmArgs,    \* atoi(arg) of an "a" line: the ticks to sleep
  T_SLEEP_MS    \* the milliseconds command_t sleeps (10000 in the code)

ASSUME Commands \subseteq {"t", "t&", "ps", "a", "k", "ex", "bad"}

VARIABLES
  pc,           \* the program point each slot's process has reached
  hpc,          \* the point reached in command_a_handler, if it runs
  rv,           \* the eax the program reads: the last syscall's result
  awaiting,     \* "call" or "read": a syscall result the program has not
                \* read yet; "none" once it has
  buf,          \* the last read's buffer holds text before its newline
  fd,           \* root's or the shell's keyboard fd
  user_buf,     \* root: the user name line held text
  pid_to_kill,  \* user.c static: the pid command_k kills
  command_arg,  \* user.c static: atoi of the arg command_a reads
  sleeparg      \* command_a's local copy of it

uvars == <<pc, hpc, rv, awaiting, buf, fd, user_buf, pid_to_kill, command_arg,
           sleeparg>>
allvars == <<vars, uvars>>

\* Signal 15, which the "a" command installs a handler for and sends
\* itself; scaled with SIGNAL_TABLE_SIZE, it keeps its place just below KILL.
ALARM_SIG == KILL_SIGNAL_NUM - 1

\* DEV_ID_KEYBOARD, the echoing keyboard, which root and the shell open.
DEV_ID_KEYBOARD == 1

\* filter_newline then *buf != '\0': a character precedes the first newline.
HoldsText(b) == b # <<>> /\ b[1] # NL
-----------------------------------------------------------------------------
\* rootinit has created root in slot 0 (module Kernel's Init).
UserInit ==
  /\ Init
  /\ pc = [s \in Slots |-> IF s = 0 THEN "r_top" ELSE "none"]
  /\ hpc = [s \in Slots |-> "none"]
  /\ rv = [s \in Slots |-> 0]
  /\ awaiting = [s \in Slots |-> "none"]
  /\ buf = [s \in Slots |-> FALSE]
  /\ fd = [s \in Slots |-> 0]
  /\ user_buf = [s \in Slots |-> FALSE]
  /\ pid_to_kill = 0 /\ command_arg = 0
  /\ sleeparg = [s \in Slots |-> 0]

\* contextswitch into the process: when it is back in its own code (no
\* signal frame on top), the register it reads holds pcb->ret, and a read
\* that returned a count has left its characters in its buffer (a failed
\* one leaves the buffer as memset left it).
Resume ==
  /\ ContextSwitch
  /\ IF process # IDLE /\ awaiting[process] # "none" /\ frames'[process] = <<>>
     THEN /\ rv' = [rv EXCEPT ![process] = ret'[process]]
          /\ buf' = IF awaiting[process] = "read"
                    THEN [buf EXCEPT ![process] =
                            ret'[process] > 0
                            /\ HoldsText(kbd_task_list'[TaskOf(K, process)].buff)]
                    ELSE buf
          /\ awaiting' = [awaiting EXCEPT ![process] = "none"]
     ELSE UNCHANGED <<rv, buf, awaiting>>
  /\ hpc' = IF process # IDLE /\ frames'[process] # frames[process]
               /\ Last(frames'[process]).handler = H
            THEN [hpc EXCEPT ![process] = "ah"] ELSE hpc
  /\ UNCHANGED <<pc, fd, user_buf, pid_to_kill, command_arg, sleeparg>>

\* The main program (no signal frame on top) of the running process has
\* reached point l and read the result of its last syscall.
At(l) ==
  /\ process # IDLE /\ pc[process] = l
  /\ awaiting[process] = "none" /\ frames[process] = <<>>

\* The step makes a syscall: the program moves to point l and awaits its
\* result.
Goto(l) ==
  /\ pc' = [pc EXCEPT ![process] = l]
  /\ awaiting' = [awaiting EXCEPT ![process] = "call"]

\* The step makes a sysread: its result is a count and a buffer.
GotoRead(l) ==
  /\ pc' = [pc EXCEPT ![process] = l]
  /\ awaiting' = [awaiting EXCEPT ![process] = "read"]

\* syscreate(f): the caller moves to point l; when create took a PCB, the
\* new process starts at f's entry.
Spawn(l, entry) ==
  LET n == Head(stopped_queue)
  IN  IF stopped_queue # <<>> /\ stopped_queue' # stopped_queue
      THEN /\ pc' = [pc EXCEPT ![process] = l, ![n] = entry]
           /\ awaiting' = [awaiting EXCEPT ![process] = "call", ![n] = "none"]
           /\ hpc' = [hpc EXCEPT ![n] = "none"]
      ELSE /\ Goto(l) /\ UNCHANGED hpc

\* What the kernel leaves in the registers, which only Resume writes.
Regs == <<rv, buf>>
-----------------------------------------------------------------------------
(* root (user.c:35-69).  The welcome and prompt puts are merged into the *)
(* open and the reads.                                                     *)

\* The top of the loop: sysopen(DEV_ID_KEYBOARD).
RootOpen ==
  /\ At("r_top") /\ DoOpen(DEV_ID_KEYBOARD) /\ Goto("r_opened")
  /\ UNCHANGED <<Regs, hpc, fd, user_buf, pid_to_kill, command_arg, sleeparg>>

\* fd = the result; sysread(fd, user_buf, 20).
RootReadUser ==
  /\ At("r_opened")
  /\ fd' = [fd EXCEPT ![process] = rv[process]]
  /\ DoRead(rv[process], 20, "ok") /\ GotoRead("r_user_read")
  /\ UNCHANGED <<Regs, hpc, user_buf, pid_to_kill, command_arg, sleeparg>>

\* sysioctl(fd, KEYBOARD_IOCTL_DISABLE_ECHO).
RootIoctl ==
  /\ At("r_user_read")
  /\ user_buf' = [user_buf EXCEPT ![process] = buf[process]]
  /\ DoIoctl(fd[process], KEYBOARD_IOCTL_DISABLE_ECHO, 0) /\ Goto("r_ioctled")
  /\ UNCHANGED <<Regs, hpc, fd, pid_to_kill, command_arg, sleeparg>>

\* sysread(fd, pass_buf, 20).
RootReadPass ==
  /\ At("r_ioctled") /\ DoRead(fd[process], 20, "ok") /\ GotoRead("r_pass_read")
  /\ UNCHANGED <<Regs, hpc, fd, user_buf, pid_to_kill, command_arg, sleeparg>>

\* sysclose(fd); pass_buf stays in buf.
RootClose ==
  /\ At("r_pass_read") /\ DoClose(fd[process]) /\ Goto("r_closed")
  /\ UNCHANGED <<Regs, hpc, fd, user_buf, pid_to_kill, command_arg, sleeparg>>

\* Both strcmp match, which needs text in both lines: syscreate(&shell).
RootLogin ==
  /\ At("r_closed") /\ user_buf[process] /\ buf[process]
  /\ DoCreate /\ Spawn("r_created", "sh")
  /\ UNCHANGED <<Regs, fd, user_buf, pid_to_kill, command_arg, sleeparg>>

\* A mismatch: sysputs("Invalid username and/or password!"), loop.
RootReject ==
  /\ At("r_closed") /\ DoPuts /\ Goto("r_top")
  /\ UNCHANGED <<Regs, hpc, fd, user_buf, pid_to_kill, command_arg, sleeparg>>

\* syswait(shell_pid), then the loop.
RootWait ==
  /\ At("r_created") /\ DoWait(rv[process]) /\ Goto("r_top")
  /\ UNCHANGED <<Regs, hpc, fd, user_buf, pid_to_kill, command_arg, sleeparg>>
-----------------------------------------------------------------------------
(* shell (user.c:87-140) and get_command (148-197), whose parse is the    *)
(* choice of a command from Commands.                                      *)

\* sysopen(DEV_ID_KEYBOARD).
ShellOpen ==
  /\ At("sh") /\ DoOpen(DEV_ID_KEYBOARD) /\ Goto("sh_opened")
  /\ UNCHANGED <<Regs, hpc, fd, user_buf, pid_to_kill, command_arg, sleeparg>>

\* The top of the loop: sysread(fd, buf, 80), the first time with the fd
\* sysopen returned.
ShellRead ==
  /\ \/ At("sh_opened") /\ fd' = [fd EXCEPT ![process] = rv[process]]
     \/ At("sh_loop") /\ UNCHANGED fd
  /\ DoRead(fd'[process], 80, "ok") /\ GotoRead("sh_read")
  /\ UNCHANGED <<Regs, hpc, user_buf, pid_to_kill, command_arg, sleeparg>>

\* get_command: the commands a line read into buf can parse to. A line
\* with text parses to any of them (the model does not spell it out); an
\* empty one to the empty command, which no strcmp matches.
get_command(has_text) == IF has_text THEN Commands ELSE {"bad"}

\* bytes == 0 (EOF), or the line is "ex": leave the loop, sysclose(fd).
ShellLogout ==
  /\ At("sh_read")
  /\ rv[process] = 0 \/ "ex" \in get_command(buf[process])
  /\ DoClose(fd[process]) /\ Goto("sh_closed")
  /\ UNCHANGED <<Regs, hpc, fd, user_buf, pid_to_kill, command_arg, sleeparg>>

\* No command matches (an empty line always): "Invalid command!", then
\* syswait(0), as wait is still 1 and pid 0.
ShellInvalid ==
  /\ At("sh_read") /\ rv[process] # 0
  /\ "bad" \in get_command(buf[process])
  /\ DoWait(0) /\ Goto("sh_loop")
  /\ UNCHANGED <<Regs, hpc, fd, user_buf, pid_to_kill, command_arg, sleeparg>>

\* The program each command creates, and the point after syscreate: the
\* syswait, or the next read for a "t &".
CommandEntry(c) == IF c = "t&" THEN "t" ELSE c

\* "t", "t &", "ps", "a <n>" (command_arg = arg) or "k <pid>"
\* (pid_to_kill = atoi(arg)): syscreate(&command_x).
ShellCommand(c) ==
  /\ At("sh_read") /\ rv[process] # 0 /\ c \in get_command(buf[process])
  /\ \/ c \in {"t", "t&", "ps"} /\ UNCHANGED <<pid_to_kill, command_arg>>
     \/ c = "a" /\ command_arg' \in AlarmArgs /\ UNCHANGED pid_to_kill
     \/ c = "k" /\ pid_to_kill' \in KillArgs /\ UNCHANGED command_arg
  /\ DoCreate /\ Spawn(IF c = "t&" THEN "sh_loop" ELSE "sh_created", CommandEntry(c))
  /\ UNCHANGED <<Regs, fd, user_buf, sleeparg>>

\* if (wait) syswait(pid).
ShellWait ==
  /\ At("sh_created") /\ DoWait(rv[process]) /\ Goto("sh_loop")
  /\ UNCHANGED <<Regs, hpc, fd, user_buf, pid_to_kill, command_arg, sleeparg>>
-----------------------------------------------------------------------------
(* The command processes (user.c:202-267).                                *)

\* command_t: sysputs("T"), syssleep(10000), forever.
CommandT ==
  /\ At("t") /\ DoSleep(T_SLEEP_MS) /\ Goto("t")
  /\ UNCHANGED <<Regs, hpc, fd, user_buf, pid_to_kill, command_arg, sleeparg>>

\* command_ps: sysgetcputimes(&ps); printing the table only puts.
CommandPs ==
  /\ At("ps") /\ DoCputimes("ok") /\ Goto("ps_done")
  /\ UNCHANGED <<Regs, hpc, fd, user_buf, pid_to_kill, command_arg, sleeparg>>

\* command_a: sleeparg = atoi(command_arg) > 0, then
\* syssighandler(15, &command_a_handler).
CommandAInstall ==
  /\ At("a") /\ command_arg > 0
  /\ sleeparg' = [sleeparg EXCEPT ![process] = command_arg]
  /\ DoSighandler(ALARM_SIG, H) /\ Goto("a_installed")
  /\ UNCHANGED <<Regs, hpc, fd, user_buf, pid_to_kill, command_arg>>

\* syssleep(MS_PER_CLOCK_TICK * sleeparg).
CommandASleep ==
  /\ At("a_installed") /\ DoSleep(MS_PER_CLOCK_TICK * sleeparg[process])
  /\ Goto("a_slept")
  /\ UNCHANGED <<Regs, hpc, fd, user_buf, pid_to_kill, command_arg, sleeparg>>

\* syskill(sysgetpid(), 15): the getpid, then the kill.
CommandAGetpid ==
  /\ At("a_slept") /\ DoGetpid /\ Goto("a_pid")
  /\ UNCHANGED <<Regs, hpc, fd, user_buf, pid_to_kill, command_arg, sleeparg>>

CommandAKill ==
  /\ At("a_pid") /\ DoKill(rv[process], ALARM_SIG) /\ Goto("a_killed")
  /\ UNCHANGED <<Regs, hpc, fd, user_buf, pid_to_kill, command_arg, sleeparg>>

\* command_a_handler: sysputs, syssighandler(15, NULL); its return goes
\* to the trampoline's syssigreturn.
AlarmHandler ==
  /\ process # IDLE /\ TopHandler(process) = H
  /\ \/ hpc[process] = "ah" /\ DoSighandler(ALARM_SIG, NULLH)
        /\ hpc' = [hpc EXCEPT ![process] = "ah_ret"]
     \/ hpc[process] = "ah_ret" /\ DoSigreturn
        /\ hpc' = [hpc EXCEPT ![process] = "none"]
  /\ UNCHANGED <<Regs, pc, awaiting, fd, user_buf, pid_to_kill, command_arg,
                 sleeparg>>

\* command_k: pid_to_kill != 0: syskill(pid_to_kill, KILL_SIGNAL_NUM).
CommandK ==
  /\ At("k") /\ pid_to_kill # 0
  /\ DoKill(pid_to_kill, KILL_SIGNAL_NUM) /\ Goto("k_killed")
  /\ UNCHANGED <<Regs, hpc, fd, user_buf, pid_to_kill, command_arg, sleeparg>>

\* A program function returns into sysstop: the shell after its close,
\* ps, a and k at their end or their early return.
Return ==
  /\ \/ At("sh_closed") \/ At("ps_done") \/ At("a_killed") \/ At("k_killed")
     \/ At("a") /\ command_arg <= 0
     \/ At("k") /\ pid_to_kill = 0
  /\ DoStop /\ Goto("none")
  /\ UNCHANGED <<Regs, hpc, fd, user_buf, pid_to_kill, command_arg, sleeparg>>
-----------------------------------------------------------------------------
\* The steps no program takes: the timer, the keyboard, the trampoline
\* calling sysstop or a NULL handler, and a stopped kernel.
KernelStep ==
  /\ \/ Timer \/ Crash \/ Halt \/ KilledStop
     \/ \E data \in Scancodes : KeyboardInt(data)
  /\ UNCHANGED uvars

UserNext ==
  \/ Resume \/ KernelStep
  \/ RootOpen \/ RootReadUser \/ RootIoctl \/ RootReadPass \/ RootClose
  \/ RootLogin \/ RootReject \/ RootWait
  \/ ShellOpen \/ ShellRead \/ ShellLogout \/ ShellInvalid
  \/ \E c \in Commands : ShellCommand(c)
  \/ ShellWait
  \/ CommandT \/ CommandPs \/ CommandAInstall \/ CommandASleep
  \/ CommandAGetpid \/ CommandAKill \/ AlarmHandler \/ CommandK \/ Return

UserSpec == UserInit /\ [][UserNext]_allvars
-----------------------------------------------------------------------------
\* EOF ends a keyboard session (kbd_open resets kbd_done on the first open,
\* kbd.c:129-137): when root's sysopen at the top of its login loop
\* succeeds, the keyboard is not left at the EOF of an earlier session, so
\* its "Username:" read waits for what is typed.
LoginStartsFresh ==
  [][\A s \in Slots :
       pc[s] = "r_top" /\ pc'[s] = "r_opened" /\ ret'[s] # SYSERR
         => ~kbd_done']_allvars
=============================================================================
