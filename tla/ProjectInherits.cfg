CONSTANTS
  Renders = {r1}
  Nothing = Nothing
  IndexedFrames = {TRUE}
  FirstPhases = {"Initiating", "Processing"}
  MaxAttempts = 2
  MaxAssigned = 2
  MaxStamp = 0
  MaxInbox = 1
  MaxLosses = 0
  MayCancel = FALSE
SPECIFICATION Spec
PROPERTIES NothingInherited
CHECK_DEADLOCK FALSE
