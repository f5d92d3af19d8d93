SPECIFICATION FairSpec
CONSTANTS
  Note = {n1}
  Kind = {}
  User = {}
  Comment = {c1, c2}
  Request = {q1, q2}
  Admin = FALSE
  MaxEvent = 4
  MaxDup = 0
  BatchSize = 2
  Fault = {}
  MaxFaults = 0
PROPERTIES
  EventuallyExact
