SPECIFICATION Spec
CONSTANTS
  c1 = c1
  c2 = c2
  Clients <- ClientsC
  Leaders = {1, 2}
  Inodes = {1, 2, 3, 4}
  None = None
  ClientVersion <- Skewed
  Installed = 2
  Relaunchable = {2}
  MaxCrashes = 1
  MaxStalls = 1
  MaxShutdowns = 1
  Scenarios = {"fresh", "running", "crashed"}
CHECK_DEADLOCK FALSE
INVARIANTS
  TypeOK
  LivePidNamesHolder
  EvictionMeansOrphanedLock
  SingleLinkedLeader
