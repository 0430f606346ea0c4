SPECIFICATION Spec
CONSTANTS
  Onward = FALSE
  MaxEvents = 2
  MaxMisses = 1
  MaxChunks = 3
  MaxTombstones = 5
CHECK_DEADLOCK FALSE
INVARIANTS
  TypeOK
  DeletionSticks
  DisksMeet
  SavedMatchesUnlessRaced
