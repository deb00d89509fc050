\* One radio task and the portal, each request served before the next begins.
SPECIFICATION Spec
CONSTANTS
  A = A
  B = B
  R = R
  NoId = NoId
  SeedId = A
  Portal = Portal
  Ids <- MCIds
  RadioTasks <- MCRadioTasks
  Seqs <- MCSeqs
  MAX_PEERS = 2
  SEQ_RESERVE = 1
  UINT32_MAX = 5
  Overlap = FALSE
  SharedIds = FALSE
  OpenRecovers = FALSE
  MaxDone = 2
  MaxSent = 2
INVARIANTS NoReplay FloorAgrees FreshSeq
PROPERTY FloorGrows
