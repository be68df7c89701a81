CONSTANTS
  Creators = {k1}
  None = None
  Recovered = Recovered
  Passes = {p1}
  MaxSession = 0
  MaxGeneration = 2
  HttpFails = TRUE
  Late = TRUE
SPECIFICATION Spec
INVARIANT AdmittedOnce
