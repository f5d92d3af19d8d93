SPECIFICATION MCSpec
CONSTANTS
  n1 = n1
  n2 = n2
  Note <- TwoNotes
  Recent <- TwoNotes
  Beside <- Loop
  Tolerance = 0
  Matchless = TRUE
  MaxMsg = 3
  BatchSize = 2
  ClaimCount = 2
  MaxFaults = 1
INVARIANTS
  TypeOK
  NoneForgotten
  RemovedStaysOut
PROPERTIES
  RecoverAppears
