SPECIFICATION Spec
CONSTANTS
  Offers <- TwoTransports
  EarlyGathering = FALSE
INVARIANTS
  IceStateReflects
