SPECIFICATION FairSpec
CONSTANTS
  a = a
  m = m
  j = j
  Admin = a
  Member = m
  Joiner = j
  Settings <- Circumstances
  MaxGen = 2
CHECK_DEADLOCK FALSE
INVARIANTS
  TypeOK
  KeysReplaced
PROPERTIES
  ImplementsStanding
  LiveGroupKept
  ReadmittedComesBack
