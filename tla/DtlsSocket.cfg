SPECIFICATION FairSpec
CONSTANTS
  Timers = {t1, t2, t3}
  Null = Null
  Flights = 3
  Settings <- AllSettings
INVARIANTS
  TypeOK
  NoDanglingTimer
  OldTimerIsInvalid
  WaitingIsArmed
PROPERTIES
  Ends
CHECK_DEADLOCK FALSE
