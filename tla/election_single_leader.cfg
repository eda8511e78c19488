SPECIFICATION Spec
CONSTANTS
  c1 = c1
  c2 = c2
  Clients <- ClientsC
  Leaders = {1, 2, 3}
  Inodes = {1, 2, 3, 4, 5}
  None = None
  ClientVersion <- Uniform
  Installed = 2
  Relaunchable = {2}
  MaxCrashes = 0
  MaxStalls = 0
  MaxShutdowns = 1
  Scenarios = {"running"}
CHECK_DEADLOCK FALSE
INVARIANT SingleLeader
