\* A peer that a pairing form left in two slots.
SPECIFICATION Spec
CONSTANTS
  A = A
  B = B
  R = R
  NoId = NoId
  SeedId = A
  Portal = Portal
  Ids <- MCIds
  RadioTasks <- MCRadioTasks
  Seqs <- MCSeqs
  MAX_PEERS = 2
  SEQ_RESERVE = 1
  UINT32_MAX = 5
  Overlap = FALSE
  SharedIds = TRUE
  OpenRecovers = FALSE
  MaxDone = 2
  MaxSent = 2
INVARIANT NoReplay
