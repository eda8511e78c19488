SPECIFICATION Spec
CONSTANTS
  c1 = c1
  c2 = c2
  a = a
  b = b
  q1 = q1
  q2 = q2
  Clients <- TwoClients
  Root = Root
  Subagents <- TwoSubagents
  Interactions = {}
  Requests <- TwoRequests
  None = None
  MaxTimeouts = 0
  MaxStarted = 2
CHECK_DEADLOCK FALSE
SYMMETRY Symmetry
INVARIANTS
  TypeOK
  DrivenByViewer
  LoadedSeesSubagents
  DeadRoutesExplained
