SPECIFICATION Spec
CONSTANTS
  Peers = {1, 2, 3}
  Published <- Publishers
  Subscribed <- Subscribers
  Codecs = {"VP8", "red", "opus"}
INVARIANTS
  TypeOK
  OwnPayloadType
  
  FeedbackIsRecognised
CHECK_DEADLOCK FALSE
