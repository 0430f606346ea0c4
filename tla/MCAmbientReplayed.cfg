SPECIFICATION Spec
CONSTANTS
  x = x
  y = y
  Listeners = {x, y}
  Spoke = {x}
  Responders = 2
  MaxAttempts = 2
  ExpiredLimit = 3
  MaxRestarts = 2
  MaxMishaps = 0
CHECK_DEADLOCK FALSE
PROPERTIES
  InterruptedNotRepeated
