\* Three firmwares, three radios, two regions; two forms.
SPECIFICATION Spec
CONSTANTS
  NUM_RADIOS = 3
  Builds <- MCBuilds
  OldBlobs <- MCOldBlobs
  Rows <- MCRows
  Regions = {0, 1}
  Cap <- MCCap
  Ids = {"user", "old", "flag", "mac"}
  Rfs = {"a", "slow", "b"}
  Freq <- MCFreq
  Chans = {"none", "mt", "mc", "x", "y"}
  FormIds = {"user"}
  FlagId = "flag"
  MacId = "mac"
  NoChan = "none"
  FlagRf = "a"
  OpenRecovers = FALSE
  MaxForms = 2
INVARIANTS RunsSaved RunsLegal
PROPERTY OnlyFormsChange
