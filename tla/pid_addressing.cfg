\* Where messages, signals, results and waits addressed by pid arrive once pids are recycled.
CONSTANTS
  PCB_TABLE_SIZE = 2
  PID_MAX = 4
  SIGNAL_TABLE_SIZE = 3
  IDLE = IDLE
  NULLH = NULLH
  H = H
  KILLSTUB = KILLSTUB
  UNINIT = UNINIT
  Calls <- AddressCalls
  TargetPids = {1, 2, 3, 4}
  FromPids = {0, 1, 2}
  SigArgs = {2}
  Lens = {1}
  SleepMs = {10}
  UninitHandlers = {NULLH}
  MaxFrames = 1
  PCB_MAX_FDS = 2
  DevArgs = {}
  FdArgs = {}
  ReadLens = {}
  BufArgs = {}
  IoctlArgs = {}
  Scancodes = {}
INIT Init
NEXT Next
CONSTRAINT FrameBound
PROPERTY ReachesAddressee
