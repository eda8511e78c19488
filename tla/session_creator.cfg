SPECIFICATION Spec
CONSTANTS
  creator = creator
  a = a
  b = b
  Creator = creator
  Loaders <- One
  MaxBuffered = 1
  MaxEvents = 2
  MaxTimeouts = 0
  MaxErrors = 0
  MaxLeaves = 0
CHECK_DEADLOCK FALSE
INVARIANTS
  CreatorReceivesAll
