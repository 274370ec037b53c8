\* Can syscalls of user processes drive the kernel into an ASSERT or an endless loop?
CONSTANTS
  PCB_TABLE_SIZE = 2
  PID_MAX = 2
  SIGNAL_TABLE_SIZE = 3
  IDLE = IDLE
  NULLH = NULLH
  H = H
  KILLSTUB = KILLSTUB
  UNINIT = UNINIT
  Calls <- ReadKillCalls
  TargetPids = {1, 2}
  FromPids = {}
  SigArgs = {2}
  Lens = {1}
  SleepMs = {}
  UninitHandlers = {NULLH}
  MaxFrames = 1
  PCB_MAX_FDS = 1
  DevArgs = {1}
  FdArgs = {0}
  ReadLens = {1}
  BufArgs = {"ok"}
  IoctlArgs = {}
  Scancodes = {}
INIT Init
NEXT Next
CONSTRAINT FrameBound
INVARIANT KernelNeverHangs
