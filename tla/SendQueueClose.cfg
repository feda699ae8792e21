SPECIFICATION TearSpec
CONSTANTS
  Packets = {v1}
  AudioPackets = {}
  Transports = {"video", "audio"}
  Mutexed = {"video"}
  Limit = 1
  NoPacket = nothing
  EarlyClose = FALSE
  Calls = 2
PROPERTIES
  UsesOnlyLive
CHECK_DEADLOCK FALSE
