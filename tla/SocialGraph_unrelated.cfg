SPECIFICATION Spec
CONSTANTS
  User = {u1, u2, u3}
  Request = {q1}
  Lookup = {}
  MaxWrites = 1
  MaxFaults = 0
INVARIANTS
  OnlyBlockedRefused
