SPECIFICATION FairSpec
CONSTANTS
  x = x
  y = y
  Listeners = {x, y}
  Spoke = {x}
  Responders = 2
  MaxAttempts = 2
  ExpiredLimit = 2
  MaxRestarts = 1
  MaxMishaps = 1
CHECK_DEADLOCK FALSE
INVARIANTS
  TypeOK
  TurnsBounded
PROPERTIES
  NoTurnAfterNotice
  NothingForgotten
