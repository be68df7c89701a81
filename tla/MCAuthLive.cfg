CONSTANTS
  Workers = {w1, w2}
  Accounts = {a1}
  NoAccount = NoAccount
  Kinds = {"Token"}
  MaxRevision = 1
SPECIFICATION FairSpec
CHECK_DEADLOCK FALSE
PROPERTIES
  OperationsEnd
