CONSTANTS
  RX_QUEUE_DEPTH = 2
  TX_Q_DEPTH = 1
  MaxLost = 1
  MaxPkts = 2
  MaxRx = 3
  MaxTraffic = 3
  MaxBoots = 2
SPECIFICATION FairSpec
INVARIANTS AirOnceInOrder AnsweredAtMostOnce NoMissedDone ReceivedInOrder
PROPERTIES GateOpens Heals
CHECK_DEADLOCK FALSE
