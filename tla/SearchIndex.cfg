SPECIFICATION MCSpec
CONSTANTS
  n1 = n1
  n2 = n2
  Note <- TwoNotes
  Recovery = TRUE
  Moderation = TRUE
  MaxMsg = 4
  BatchSize = 2
  ClaimCount = 2
  MaxFaults = 1
  Post <- ThreePosts
  Orders <- TwoOrders
  Dropped <- SomeDropped
  Tab <- TwoTabs
  PostsPerPage = 2
  MaxMoves = 2
  MaxFails = 1
  MaxRow = 4
  MaxKey = 4
  RowsPerPage = 2
  MaxChanges = 1
INVARIANTS
  TypesOK
  IndexConsistent
  HiddenStaysOut
  WalksExact
  RankedRight
PROPERTIES
  RecoverNoteIndexed
