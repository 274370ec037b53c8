------------------------------- MODULE MCUser -------------------------------
(***************************************************************************)
(* Instances of User for TLC: the syscalls the programs make, the keys    *)
(* typed, and the bound on the length of a typed line.                    *)
(***************************************************************************)
EXTENDS User, MCKernel

\* Every syscall root, the shell and the commands make.
UserCalls == {"create", "stop", "getpid", "puts", "kill", "sleep", "cputimes",
              "sighandler", "sigreturn", "wait", "open", "close", "read",
              "ioctl"}

\* Scancodes: 'a', Enter, Ctrl press and 'd': text, a line end, and
\* Ctrl-D (EOF) once Ctrl is down.
UserKeys == {\h1E, \h1C, \h1D, \h20}

\* A line of text is one character: what it says is the choice of a
\* command or of a name, not its length.
MaxLine == 2
LineBound == \A i \in DOMAIN kbd_task_list : Len(kbd_task_list[i].buff) <= MaxLine
=============================================================================
