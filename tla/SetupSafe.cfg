SPECIFICATION Spec
CONSTANTS
  Offers <- SafeOffers
  EarlyGathering = TRUE
INVARIANTS
  TypeOK
  ReadyIsKeyed
  AnswerIsComplete
  NoLostReady
