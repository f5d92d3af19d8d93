SPECIFICATION MCSpec
CONSTANTS
  a = a
  b = b
  c = c
  k1 = k1
  k2 = k2
  q1 = q1
  q2 = q2
  Nobody = Nobody
  User <- ThreeUsers
  Blocked <- OneBlock
  Reader <- TwoRequests
  MaxMsg = 3
  BatchSize = 2
  MaxFaults = 1
  Draft <- ThreeDrafts
  Call <- TwoRequests
  MaxDeletes = 2
INVARIANTS
  TypeOK
  AllNotified
  NoSpurious
  CountedRight
  MessagesRight
PROPERTIES
  ImplementsDelivery
  EventuallyNotified
