SPECIFICATION Spec
CONSTANTS
  Peers = {1, 2}
  Published <- MixedPublishers
  Subscribed <- MixedSubscribers
  Codecs = {"VP8", "red", "opus"}
INVARIANTS
  OwnPayloadType
CHECK_DEADLOCK FALSE
