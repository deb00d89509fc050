CONSTANTS
  ClockMod = 16
  Cap = 2
  MaxAge = 3
  Inflight = 2
  Scan = 1
  Backoffs = {1, 2}
  Air = 1
  Duty = 25
  MinGap = 0
  IsMT = FALSE
  NodeInfoMs = 4
  MaxPkts = 1
  MaxRx = 0
  MaxNow = 9
SPECIFICATION Spec
PROPERTY HeldOnlyForCause
CHECK_DEADLOCK FALSE
