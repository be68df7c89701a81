CONSTANTS
  None = None
  Recovered = Recovered
  Creators = {k1, k2}
  Passes = {p1, p2}
  MaxSession = 1
  MaxGeneration = 3
  HttpFails = TRUE
  Late = FALSE
SPECIFICATION MCSpec
SYMMETRY Symmetry
INVARIANTS
  AdmittedOnce
  LostIsTrue
  OwnAccountWire
PROPERTIES
  EndedAccountIsSilent
CHECK_DEADLOCK FALSE
