SPECIFICATION FairSpec
CONSTANTS
  Timers = {t1, t2, t3}
  Null = Null
  Flights = 3
  Settings <- Deployed
PROPERTIES
  LossIsRepaired
CHECK_DEADLOCK FALSE
