\* A recv-any receiver blocked first never gets the message sent to it.
CONSTANTS
  PCB_TABLE_SIZE = 2
  PID_MAX = 4
  SIGNAL_TABLE_SIZE = 3
  IDLE = IDLE
  NULLH = NULLH
  H = H
  KILLSTUB = KILLSTUB
  UNINIT = UNINIT
  Calls <- QueueCalls
  TargetPids = {1, 2, 3}
  FromPids <- AnyFromPids
  SigArgs = {2}
  Lens = {1}
  SleepMs = {10}
  UninitHandlers = {NULLH}
  MaxFrames = 1
  PCB_MAX_FDS = 2
  DevArgs = {}
  FdArgs = {}
  ReadLens = {}
  BufArgs = {}
  IoctlArgs = {}
  Scancodes = {}
INIT Init
NEXT Next
CONSTRAINT FrameBound
INVARIANT NoLostRendezvous
