SPECIFICATION FairSpec
CONSTANTS
  Devices <- TwoDevices
  Links <- OneLink
  Author = 1
  Fast = 1
  Verdicts = {"Accepted"}
  MaxDecisions = 1
  MaxFaults = 1
CHECK_DEADLOCK FALSE


PROPERTIES
  LogsMeet
INVARIANTS
  NoEventStranded
