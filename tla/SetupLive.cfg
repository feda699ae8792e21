SPECIFICATION FairSpec
CONSTANTS
  Offers <- LiveOffers
  EarlyGathering = FALSE
INVARIANTS
  NoLostStart
PROPERTIES
  ReadyIsStable
  Establishes
