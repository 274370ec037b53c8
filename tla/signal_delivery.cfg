\* Signal frames, the enabled mask and the handler table of one process signalling itself.
CONSTANTS
  PCB_TABLE_SIZE = 1
  PID_MAX = 1
  SIGNAL_TABLE_SIZE = 3
  IDLE = IDLE
  NULLH = NULLH
  H = H
  KILLSTUB = KILLSTUB
  UNINIT = UNINIT
  Calls <- SignalCalls
  TargetPids = {1}
  FromPids <- DirectedFromPids
  SigArgs <- UserSigs
  Lens = {1}
  SleepMs = {10}
  UninitHandlers = {NULLH}
  MaxFrames = 3
  PCB_MAX_FDS = 2
  DevArgs = {}
  FdArgs = {}
  ReadLens = {}
  BufArgs = {}
  IoctlArgs = {}
  Scancodes = {}
INIT Init
NEXT Next
CONSTRAINT FrameBound
INVARIANT SignalDelivery
