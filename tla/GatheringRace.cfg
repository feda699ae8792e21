SPECIFICATION Spec
CONSTANTS
  Threads <- MCThreads
  Found <- MCFound
INVARIANTS
  ObtainsItsOwn
CHECK_DEADLOCK FALSE
