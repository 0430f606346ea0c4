SPECIFICATION FairSpec
CONSTANTS
  x = x
  y = y
  z = z
  Agents = {x, y, z}
  Pool <- Three
  Start = 2
  MaxVoters = 3
  PostTries = 2
  MaxEntries = 4
  MaxRestarts = 1
CHECK_DEADLOCK FALSE
INVARIANTS
  AtMostOnePost
  TieBreakersOnlyConfirm
  TwoAgentsUnlessRetried
PROPERTIES
  NobodyStillVoting
  RoundsSettle
