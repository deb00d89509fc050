CONSTANTS
  ClockMod = 16
  Cap = 2
  MaxAge = 3
  Inflight = 2
  Scan = 1
  Backoffs = {1, 2}
  Air = 1
  Duty = 25
  MinGap = 0
  IsMT = TRUE
  NodeInfoMs = 4
  MaxPkts = 3
  MaxRx = 2
  MaxNow = 7
SPECIFICATION Spec
INVARIANTS NeverDeaf FlagNotMistaken BusyBounded
PROPERTIES DutyHeld SentFresh HeldOnlyForCause
CHECK_DEADLOCK FALSE
