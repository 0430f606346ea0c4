SPECIFICATION Spec
CONSTANTS
  m1 = m1
  m2 = m2
  a = a
  b = b
  root = root
  NoRoot = NoRoot
  Circles = {c1, c2}
  Messages = {m1, m2}
  Agents = {a, b}
  Roots = {root}
  Offers <- TwoCirclesOffers
  RelayTurns = {2}
  AgentLimits = {2}
  CircleLimit = 2
  DeviceLimit = 2
  Ceiling = 2
  MaxEntries = 2
INVARIANTS
  AggregateExact
  QueuesBounded
PROPERTIES
  AddressedSurvivesRestart
SYMMETRY CircleSymmetry
