SPECIFICATION FairSpec
CONSTANTS
  MaxEvent = 3
  Entity = {x, y}
  Relay = {r1, r2}
  BatchSize = 2
  MaxFaults = 1
INVARIANTS
  TypeOK
  PublishedOnStream
  EntityOrder
  NoDuplicateEntry
PROPERTIES
  ImplementsAtLeastOnce
  EventuallyDelivered
