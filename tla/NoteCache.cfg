SPECIFICATION MCSpec
CONSTANTS
  q1 = q1
  q2 = q2
  Request <- TwoRequests
  Keep = 2
  MaxWrites = 5
  MaxFaults = 1
  Name <- OneName
  MaxAccounts = 2
  MaxChanges = 2
  MaxMishaps = 1
INVARIANTS
  TypeOK
  AccountsRight
  ClearedFresh
PROPERTIES
  HistoryKept
  ConcurrentEventuallyFresh
