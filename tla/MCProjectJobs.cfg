CONSTANTS
  Renders = {r1, r2}
  Nothing = Nothing
  IndexedFrames = {TRUE, FALSE}
  FirstPhases = {"Initiating", "Processing"}
  MaxAttempts = 2
  MaxAssigned = 3
  MaxStamp = 2
  MaxInbox = 1
  MaxLosses = 1
  MayCancel = TRUE
SPECIFICATION MCSpec
SYMMETRY Symmetry
INVARIANTS
  OneHandle
  TerminalIsTrue
  QueueNeverOlder
  ResultsAreCounted
PROPERTIES
  DeadlineFixed
  StaysFinished
CHECK_DEADLOCK FALSE
