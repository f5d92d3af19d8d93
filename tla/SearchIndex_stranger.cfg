SPECIFICATION FairSpec
CONSTANTS
  Note = {n}
  Recovery = TRUE
  Moderation = FALSE
  MaxMsg = 2
  BatchSize = 1
  ClaimCount = 1
  MaxFaults = 0
INVARIANTS
  IndexAgrees
CHECK_DEADLOCK FALSE
