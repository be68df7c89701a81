CONSTANTS
  Commands = {c1}
  NoCommand = NoCommand
  Capacity = 1
  MaxRevision = 2
  MaxGeneration = 2
  Creator = k1
  Recovered = Recovered
  None = None
  Pass = p1
SPECIFICATION LiveSpec
PROPERTIES
  CommandsAreServed
  UndeliveredIsSettled
CHECK_DEADLOCK FALSE
