SPECIFICATION FairSpec
CONSTANTS
  creator = creator
  a = a
  b = b
  Creator = creator
  Loaders <- One
  MaxBuffered = 1
  MaxEvents = 2
  MaxTimeouts = 1
  MaxErrors = 1
  MaxLeaves = 1
CHECK_DEADLOCK FALSE
PROPERTIES
  GateReopens
  LoadEnds
