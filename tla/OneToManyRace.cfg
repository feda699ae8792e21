SPECIFICATION Spec
CONSTANTS
  Peers = {1, 2, 3}
  Published <- OnePublisher
  Subscribed <- OneSubscriber
  Codecs = {"VP8"}
INVARIANTS
  EverySubscriber
CHECK_DEADLOCK FALSE
