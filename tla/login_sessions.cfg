\* Does every login that root starts begin a fresh keyboard session, with
\* the shell's commands killing processes and Ctrl-D logging out?
CONSTANTS
  PCB_TABLE_SIZE = 3
  PID_MAX = 3
  SIGNAL_TABLE_SIZE = 3
  IDLE = IDLE
  NULLH = NULLH
  H = H
  KILLSTUB = KILLSTUB
  UNINIT = UNINIT
  Calls <- UserCalls
  TargetPids = {}
  FromPids = {}
  SigArgs = {}
  Lens = {1}
  SleepMs = {}
  UninitHandlers = {NULLH}
  MaxFrames = 1
  PCB_MAX_FDS = 4
  DevArgs = {}
  FdArgs = {}
  ReadLens = {}
  BufArgs = {}
  IoctlArgs = {}
  Scancodes <- UserKeys
  Commands = {"t", "t&", "ps", "a", "k", "ex", "bad"}
  KillArgs = {0, 1, 2, 3}
  AlarmArgs = {0, 1}
  T_SLEEP_MS = 10
INIT UserInit
NEXT UserNext
CONSTRAINT FrameBound
CONSTRAINT LineBound
PROPERTY LoginStartsFresh
