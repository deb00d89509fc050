CONSTANTS
  h1 = h1
  h2 = h2
  h3 = h3
  Never = Never
  Hashes <- MCHashes
  N = 2
  TTL = 3
  ClockMod = 16
  StartMs = 13
  MaxNow = 19
  Tasks = {r1}
SPECIFICATION CacheSpec
INVARIANTS OneSlot
PROPERTIES NoFalseDrop CatchesDuplicate
CHECK_DEADLOCK FALSE
