------------------------------ MODULE MCKernel ------------------------------
(***************************************************************************)
(* Instances of Kernel for TLC: the argument sets of each run and the     *)
(* bound on nested signal frames.                                          *)
(***************************************************************************)
EXTENDS Kernel

CONSTANT MaxFrames   \* signal frames a user stack may hold in a run

\* Every syscall the model has.
AllCalls == {"create", "yield", "stop", "getpid", "puts", "kill", "send",
             "recv", "sleep", "cputimes", "sighandler", "sigreturn", "wait"}

\* The calls that move PCBs between queues.
QueueCalls == {"create", "yield", "stop", "kill", "send", "recv", "sleep", "wait"}

\* The queue calls and the calls that only read or print.
QueueSleepCalls == QueueCalls \cup {"getpid", "puts", "cputimes"}

\* The calls that make and end sleepers.
SleepCalls == {"create", "yield", "stop", "sleep", "getpid", "puts", "cputimes"}

\* Sleepers that a signal wakes early.
SleepKillCalls == {"create", "yield", "sleep", "kill"}

\* A process installing handlers and signalling itself.
SignalCalls == {"sighandler", "kill", "sigreturn", "yield"}

\* Everything that blocks, wakes or ends a process, and KILL.
KillCalls == {"create", "yield", "stop", "kill", "send", "recv", "sleep", "wait"}

\* Processes that only exchange messages.
MsgCalls == {"create", "yield", "send", "recv"}

\* Processes that come and go, and signal each other by pid.
LifeCalls == {"create", "yield", "stop", "kill"}

\* Every call that names a process by pid, and processes coming and going.
AddressCalls == {"create", "yield", "stop", "kill", "send", "recv", "wait"}

\* Handlers installed, run, returned from, and interrupting blocking calls.
HandlerCalls == {"create", "kill", "sighandler", "sigreturn", "send", "recv"}

\* Processes that open, read and close the keyboard.
KbdCalls == {"create", "yield", "stop", "open", "close", "read"}

\* All the device calls, and processes coming and going.
DeviceCalls == KbdCalls \cup {"write", "ioctl"}

\* A reader blocked on the keyboard, and a process that signals it.
ReadKillCalls == {"create", "yield", "kill", "open", "read"}

\* sysioctl: make Enter the EOF character, or an unknown command.
IoctlEofNl == {<<KEYBOARD_IOCTL_SET_EOF, NL>>, <<0, 0>>}

\* Scancodes: 'a', Enter, Ctrl press, 'd' (Ctrl-D is EOF), Ctrl release.
KeyAEnter == {\h1E, \h1C}
KeysEof == {\h1E, \h1C, \h1D, \h20, \h9D}

\* Scancodes: Enter, Ctrl press, 'd': a line, or Ctrl-D (EOF) once Ctrl is down.
KeysCtrlD == {\h1C, \h1D, \h20}

\* recv names a sender: recv from any (*from_pid = 0) is left out.
DirectedFromPids == {1, 2}
AnyFromPids == {0, 1, 2}

\* Every pid of a three-slot table with PID_MAX = 3, and 0.
AnyFromPids3 == {0, 1, 2, 3}

\* Signal numbers: 1, KILL, and -1, out of range.
SomeSigs == {-1, 1, KILL_SIGNAL_NUM}

\* The signals of lower priority than KILL.
UserSigs == {0, 1}

\* due and xfer are ghosts no action reads: runs whose properties do not
\* mention them tell states apart without them.
NoGhostView == <<process, state, pid, blocked_status, blocked_id, ret, args,
                 ready_queue, blocked_queue, sleep_queue, stopped_queue,
                 signal_table, signals_pending, signals_enabled, frames,
                 in_user, panic>>

FrameBound == \A s \in Slots : Len(frames[s]) <= MaxFrames

\* Reads after EOF raise kbd_task_refcount without bound (kbd.c:181):
\* runs that type EOF stop exploring beyond this many.
MaxTaskRefs == 2
TaskRefBound == kbd_task_refcount <= MaxTaskRefs
=============================================================================
