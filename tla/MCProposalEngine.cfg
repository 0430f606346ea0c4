SPECIFICATION FairSpec
CONSTANTS
  p = p
  q = q
  Paths = {p, q}
  MaxWrites = 2
  MaxOps = 1
  MaxSurface = 1
  MaxEvents = 1
CHECK_DEADLOCK FALSE
INVARIANTS
  TypeOK
  NeverLossy
  ReviewGated
PROPERTIES
  AllRecorded
