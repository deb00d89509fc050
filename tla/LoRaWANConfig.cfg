CONSTANTS
  A = A
  B = B
  X = X
  NoAddr = NoAddr
  Addrs <- MCAddrs
  Devices <- MCDevices
  Sources <- MCSources
  ExtAddr = X
  MAX_DEVICES = 2
  FCNT_RESERVE = 1
  UINT32_MAX = 5
  Tasks = {r1}
  LivePortal = FALSE
  SharedAddrs = FALSE
  MaxUplinks = 2
SPECIFICATION Spec
INVARIANTS TypeOK NoReplay Durable
PROPERTY HighWaterGrows
