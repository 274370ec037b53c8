\* Does every chunk the heap hands out stay owned, and every header store stay on the heap?
CONSTANTS
  PCB_TABLE_SIZE = 2
  PID_MAX = 2
  SIGNAL_TABLE_SIZE = 3
  IDLE = IDLE
  NULLH = NULLH
  H = H
  KILLSTUB = KILLSTUB
  UNINIT = UNINIT
  FREEMEM = 8
  HOLESTART = 304
  HOLEEND = 336
  MAXADDR = 560
  DEFAULT_STACK_SIZE = 32
  IDLE_PROC_STACK_SIZE = 16
  StackArgs = {0, 64}
SPECIFICATION Spec
VIEW HeapView
INVARIANT HeapOwned
