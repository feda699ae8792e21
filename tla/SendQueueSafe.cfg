SPECIFICATION FairTearSpec
CONSTANTS
  Packets = {v1, v2, a1}
  AudioPackets = {a1}
  Transports = {"video", "audio"}
  Mutexed = {"video", "audio"}
  Limit = 2
  NoPacket = nothing
  EarlyClose = FALSE
  Calls = 2
INVARIANTS
  TearTypeOK
  NobodyLeft
PROPERTIES
  KeepsPromise
  Leaves
  CloseReturns
CHECK_DEADLOCK FALSE
