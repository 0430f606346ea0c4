SPECIFICATION Spec
CONSTANTS
  m1 = m1
  m2 = m2
  a = a
  b = b
  root = root
  NoRoot = NoRoot
  Circles = {c1}
  Messages = {m1, m2}
  Agents = {a, b}
  Roots = {root}
  Offers <- OneCircleOffers
  RelayTurns = {3}
  AgentLimits = {1, 2}
  CircleLimit = 2
  DeviceLimit = 3
  Ceiling = 2
  MaxEntries = 4
INVARIANTS
  TypeOK
  AckedIsDurable
  OneLiveAttempt
  NeverReplayed
  CascadePaid
PROPERTIES
  SettledStays
  AddressedIsOwedItsTurn
