SPECIFICATION Spec
CONSTANTS
  Onward = TRUE
  MaxEvents = 2
  MaxMisses = 0
  MaxChunks = 3
  MaxTombstones = 5
CHECK_DEADLOCK FALSE
INVARIANTS
  SavedMatchesFile
