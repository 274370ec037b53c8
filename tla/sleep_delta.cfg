\* Sleep delta queue when syssleep(0) is allowed and a KILL wakes a sleeper early.
CONSTANTS
  PCB_TABLE_SIZE = 3
  PID_MAX = 6
  SIGNAL_TABLE_SIZE = 3
  IDLE = IDLE
  NULLH = NULLH
  H = H
  KILLSTUB = KILLSTUB
  UNINIT = UNINIT
  Calls <- SleepKillCalls
  TargetPids = {1, 2, 3}
  FromPids <- DirectedFromPids
  SigArgs = {2}
  Lens = {1}
  SleepMs = {0, 10, 20}
  UninitHandlers = {NULLH}
  MaxFrames = 1
  PCB_MAX_FDS = 2
  DevArgs = {}
  FdArgs = {}
  ReadLens = {}
  BufArgs = {}
  IoctlArgs = {}
  Scancodes = {}
INIT Init
NEXT Next
CONSTRAINT FrameBound
INVARIANT DeltaQueueMatchesDue
