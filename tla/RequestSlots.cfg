CONSTANTS
  Workers = {w1, w2}
  Accounts = {a1, a2}
  NoAccount = NoAccount
  Kinds = {"Token", "ApiKey", "Cookies"}
  MaxRevision = 2
  Saves = {s1}
  Idler = Idler
SPECIFICATION ClientSpec
SYMMETRY Symmetry
CHECK_DEADLOCK FALSE
INVARIANTS
  NumberedAreAnnounced
