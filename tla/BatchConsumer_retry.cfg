SPECIFICATION FairSpec
CONSTANTS
  MaxMsg = 3
  BatchSize = 2
  MaxFaults = 1
PROPERTIES
  PendingRetried
