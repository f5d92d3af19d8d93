SPECIFICATION FairSpec
CONSTANTS
  MaxMsg = 4
  BatchSize = 3
  ClaimCount = 2
  Poison = {}
  MaxFaults = 2
PROPERTIES
  ImplementsDelivery
  EventuallyHandled
