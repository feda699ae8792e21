SPECIFICATION Spec
CONSTANTS
  Offers <- BundledDtls
  EarlyGathering = FALSE
PROPERTIES
  ReadyIsStable
