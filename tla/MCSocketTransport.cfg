CONSTANTS
  Commands = {c1, c2}
  NoCommand = NoCommand
  Capacity = 1
  MaxRevision = 2
  MaxGeneration = 2
  QueueTime = 2
  Budgets = {3}
SPECIFICATION MCSpec
SYMMETRY Symmetry
CHECK_DEADLOCK FALSE
INVARIANTS
  ReceiptsAreTrue
  OwnConnection
  InOrder
  ReportedConnectionIsLive
PROPERTIES
  Delivers
  NewAccountKeepsCommands
  WaitsAsAllowed
