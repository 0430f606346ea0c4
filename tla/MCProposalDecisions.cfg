SPECIFICATION Spec
CONSTANTS
  Devices <- TwoDevices
  Links <- OneLink
  Author = 1
  Fast = 1
  Verdicts = {"Accepted", "Rejected", "Reverted"}
  MaxDecisions = 2
  MaxFaults = 0
CHECK_DEADLOCK FALSE
INVARIANTS
  TypeOK
  DecisionsStand
