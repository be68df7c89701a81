CONSTANTS
  Streams = {s1}
  Peers = {"modern", "legacy"}
  Closes = {"disconnected", "switched"}
  MaxSession = 1
  MaxAttempts = 2
  MaxLags = 0
  MaxBus = 1
SPECIFICATION Spec
INVARIANTS
  OneTerminal
  NoLeftovers
PROPERTIES
  MissingIsTrue
  OwnEventsOnly
CHECK_DEADLOCK FALSE
