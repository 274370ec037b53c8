\* Two processes open, read and close the keyboard while lines and Ctrl-D are typed.
CONSTANTS
  PCB_TABLE_SIZE = 2
  PID_MAX = 2
  SIGNAL_TABLE_SIZE = 3
  IDLE = IDLE
  NULLH = NULLH
  H = H
  KILLSTUB = KILLSTUB
  UNINIT = UNINIT
  Calls <- DeviceCalls
  TargetPids = {}
  FromPids = {}
  SigArgs = {}
  Lens = {1}
  SleepMs = {}
  UninitHandlers = {NULLH}
  MaxFrames = 1
  PCB_MAX_FDS = 1
  DevArgs = {1}
  FdArgs = {0}
  ReadLens = {1}
  BufArgs = {"ok"}
  IoctlArgs <- IoctlEofNl
  Scancodes <- KeysCtrlD
INIT Init
NEXT Next
CONSTRAINT FrameBound
CONSTRAINT TaskRefBound
INVARIANT TypeOK
INVARIANT QueuesWellFormed
INVARIANT OpenCountMatchesFds
