\* Queue discipline and rendezvous when signal handlers interrupt blocking calls.
CONSTANTS
  PCB_TABLE_SIZE = 2
  PID_MAX = 2
  SIGNAL_TABLE_SIZE = 2
  IDLE = IDLE
  NULLH = NULLH
  H = H
  KILLSTUB = KILLSTUB
  UNINIT = UNINIT
  Calls <- HandlerCalls
  TargetPids = {1, 2}
  FromPids <- DirectedFromPids
  SigArgs = {0, 1}
  Lens = {1}
  SleepMs = {10}
  UninitHandlers = {NULLH}
  MaxFrames = 1
  PCB_MAX_FDS = 2
  DevArgs = {}
  FdArgs = {}
  ReadLens = {}
  BufArgs = {}
  IoctlArgs = {}
  Scancodes = {}
INIT Init
NEXT Next
CONSTRAINT FrameBound
VIEW NoGhostView
INVARIANT QueuesWellFormed
INVARIANT NoLostRendezvous
