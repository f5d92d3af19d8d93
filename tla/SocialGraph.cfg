SPECIFICATION MCSpec
CONSTANTS
  u1 = u1
  u2 = u2
  u3 = u3
  q1 = q1
  q2 = q2
  l1 = l1
  User <- ThreeUsers
  Request <- TwoRequests
  Lookup <- OneLookup
  MaxWrites = 4
  MaxFaults = 2
  Reporter <- OneReporter
  Target <- TwoTargets
  MaxDaily = 1
  MaxFilings = 2
  MaxWork = 2
SYMMETRY Alike
INVARIANTS
  TypeOK
  FollowsRight
  BlockEnforced
  ReportsRight
