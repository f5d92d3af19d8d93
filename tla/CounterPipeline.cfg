SPECIFICATION MCSpec
CONSTANTS
  n1 = n1
  n2 = n2
  u1 = u1
  c1 = c1
  q1 = q1
  q2 = q2
  Note <- OneNote
  Kind <- Likes
  User <- OneUser
  Comment <- OneComment
  Request <- TwoRequests
  Admin = TRUE
  MaxEvent = 3
  MaxDup = 1
  BatchSize = 2
  Fault <- AllFaults
  MaxFaults = 1
  Post <- TwoNotes
  Error <- AllErrors
  MaxReads = 3
  MaxErrors = 1
  Spelling <- Spellings
  Subject <- Languages
  SubjectOf <- LanguageOf
  MaxEdits = 3
  MaxLapses = 1
INVARIANTS
  TypeOK
  Conserved
  NoDoubleCount
  Accounted
  TopicsCounted
PROPERTIES
  RegularEventuallyExact
