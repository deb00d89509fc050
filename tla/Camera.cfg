\* Commands one at a time, beside the stream, a recording and the radios.
SPECIFICATION FairSpec
CONSTANTS
  R = R
  V1 = V1
  V2 = V2
  Portal = Portal
  Stream = Stream
  Radio = Radio
  Nobody = Nobody
  Commanders <- MCCommanders
  Recorders <- MCRecorders
  FrameLens <- MCFrameLens
  REC_MAX_FRAMES = 2
  NULL_STREAK = 2
  Overlap = FALSE
  MaxOrders = 2
  MaxBoots = 2
INVARIANTS Playable OneRecorder BuffersReturned
PROPERTIES NeverOverwritten StopEnds
CHECK_DEADLOCK FALSE
