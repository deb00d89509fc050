CONSTANTS
  Cap = 3
  MaxAge = 2
  ClockMod = 8
  StartMs <- MCStartMs
  MaxPush = 5
  MaxNow = 10
SPECIFICATION Spec
INVARIANTS TypeOK FreshestKept Accounting
PROPERTIES DeliveredFresh ImplementsFifo
CHECK_DEADLOCK FALSE
