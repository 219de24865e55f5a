CONSTANTS
  Calls <- MCCalls
  Said <- MCSaid
  Told <- MCTold
  MaxMessages = 5
SPECIFICATION StoredSpec
INVARIANTS
  FixedOnce
  CallsPaired
  UserAtBothEnds
CHECK_DEADLOCK FALSE
