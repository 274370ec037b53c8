----------------------------- MODULE XerosConst -----------------------------
(***************************************************************************)
(* Constants shared by the modules of the Xeros kernel model: the sizes   *)
(* of h/xeroskernel.h scaled down for TLC, the request ids of             *)
(* syscall_request_t, the syscall return codes and the small sets of      *)
(* abstract values (handler pointers, idle process).                      *)
(***************************************************************************)
EXTENDS Integers, SequencesExt

CONSTANTS
  PCB_TABLE_SIZE,     \* slots in pcb_array (32 in the code)
  PID_MAX,            \* pids recycle modulo PID_MAX (32768 in the code)
  SIGNAL_TABLE_SIZE,  \* handler slots per process (32 in the code)
  IDLE,               \* the idle process, which lives outside pcb_array
  NULLH,              \* a NULL handler pointer
  H,                  \* a handler function installed by the user program
  KILLSTUB,           \* &sysstop, pre-installed in the KILL slot by create
  UNINIT              \* what kmalloc'ed memory holds before it is written

ASSUME PCB_TABLE_SIZE \in Nat \ {0}
\* pid_to_pcb maps pid to slot (pid-1) % PCB_TABLE_SIZE; this stays right
\* after the modulo wrap only because PID_MAX is a multiple of the table size.
ASSUME PID_MAX \in Nat /\ PID_MAX % PCB_TABLE_SIZE = 0 /\ PID_MAX >= PCB_TABLE_SIZE
ASSUME SIGNAL_TABLE_SIZE \in Nat /\ SIGNAL_TABLE_SIZE >= 2

Slots == 0 .. PCB_TABLE_SIZE - 1
Pids == 1 .. PID_MAX
Sigs == 0 .. SIGNAL_TABLE_SIZE - 1
KILL_SIGNAL_NUM == SIGNAL_TABLE_SIZE - 1
NIL == -1                       \* a NULL pcb_t pointer
Handlers == {NULLH, H, KILLSTUB, UNINIT}
MS_PER_CLOCK_TICK == 10

\* Return codes (h/xeroskernel.h).
OK == 1
SYSERR == -1
BLOCKERR == -5
CREATE_FAILURE == -1
SYSPID_DNE == -1
SYSPID_SELF == -2
SYSERR_OTHER == -3
INVALID_SIGNAL == -1
SYSKILL_TARGET_DNE == -512
SYSKILL_SIG_INVALID == -561
BLOCKED_PROC_SIGNALED == -99

\* Request ids of syscall_request_t, which contextswitch leaves in pcb->ret.
SYSCALL_ID ==
  [create |-> 0, yield |-> 1, stop |-> 2, getpid |-> 3, puts |-> 4,
   kill |-> 5, recv |-> 6, send |-> 7, sleep |-> 8, cputimes |-> 9,
   sighandler |-> 10, sigreturn |-> 11, wait |-> 12, open |-> 13,
   close |-> 14, write |-> 15, read |-> 16, ioctl |-> 17]

\* The user eax a timer interrupt saves into pcb->ret (any value that is
\* not a syscall result).
USER_EAX == 100

\* The numeric value of a signal bit mask (signals_pending, signals_enabled).
MaskValue(S) == MapThenSumSet(LAMBDA s: 2^s, S)

\* The syscall arguments a pcb keeps in pcb->args: only the three-argument
\* calls send and recv are ever read by another process.
NoArgs == [call |-> "other", pid |-> 0, len |-> 0]
=============================================================================
