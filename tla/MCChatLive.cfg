CONSTANTS
  Streams = {s1}
  Peers = {"modern", "legacy"}
  Closes = {"disconnected", "switched"}
  MaxSession = 0
  MaxAttempts = 2
  MaxLags = 1
  MaxBus = 1
SPECIFICATION FairSpec
PROPERTIES
  StreamsEnd
CHECK_DEADLOCK FALSE
