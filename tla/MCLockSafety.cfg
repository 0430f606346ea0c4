SPECIFICATION Spec
CONSTANTS
  d1 = d1
  d2 = d2
  x = x
  f = f
  g = g
  Legacy = Legacy
  Devices = {d1, d2}
  Names = {x}
  Binders <- Namesakes
  Paths = {f, g}
  Inherited <- Old
  Ttls = {1}
  Service = 1
  Threshold = 2
  MaxTime = 1
  MaxLog = 3
  MaxRestarts = 1
SYMMETRY LockSymmetry
INVARIANTS
  TypeOK
  CompactionUnseen
  SoleDeviceAgrees
PROPERTIES
  BoundIsHeld
