SPECIFICATION Spec
CONSTANTS
  creator = creator
  a = a
  b = b
  Creator = creator
  Loaders <- Two
  MaxBuffered = 1
  MaxEvents = 2
  MaxTimeouts = 0
  MaxErrors = 0
  MaxLeaves = 1
CHECK_DEADLOCK FALSE
SYMMETRY Symmetry
INVARIANTS
  TypeOK
  ReplayIsPrefix
  ReplayBeforeLive
  LiveInOrder
  LoadTables
  MissesExplained
  TwiceExplained
