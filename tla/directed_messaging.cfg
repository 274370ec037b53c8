\* Queue discipline, rendezvous, and every process sent KILL stopping, with
\* every call but signal handlers, recv naming a sender.
CONSTANTS
  PCB_TABLE_SIZE = 2
  PID_MAX = 2
  SIGNAL_TABLE_SIZE = 3
  IDLE = IDLE
  NULLH = NULLH
  H = H
  KILLSTUB = KILLSTUB
  UNINIT = UNINIT
  Calls <- QueueSleepCalls
  TargetPids = {1, 2}
  FromPids <- DirectedFromPids
  SigArgs = {2}
  Lens = {1}
  SleepMs = {10}
  UninitHandlers = {NULLH}
  MaxFrames = 1
  PCB_MAX_FDS = 2
  DevArgs = {}
  FdArgs = {}
  ReadLens = {}
  BufArgs = {}
  IoctlArgs = {}
  Scancodes = {}
SPECIFICATION Spec
CONSTRAINT FrameBound
INVARIANT TypeOK
INVARIANT QueuesWellFormed
INVARIANT NoLostRendezvous
PROPERTY KillStops
