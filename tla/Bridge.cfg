CONSTANTS
  Plans <- AllPlans
  BRIDGE_RNS_MAX_FRAGS = 2
  MaxEmit = 8
SPECIFICATION Spec
INVARIANTS AtMostOnce NoReturn OwnEmissionDropped DropsOnlyDuplicates
CHECK_DEADLOCK FALSE
