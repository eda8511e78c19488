SPECIFICATION FairSpec
CONSTANTS
  t1 = t1
  t2 = t2
  Threads <- Two
  MaxEntries = 1
  Window = 1
  MinSamples = 1
  OpenFor = 2
  MaxProbes = 1
  Wrap = 8
  MaxStall = 1
  MaxFaults = 2
  Regimes = {TRUE, FALSE}
CHECK_DEADLOCK FALSE
INVARIANTS
  TypeOK
  WindowCountsFailures
  SerialAgreement
  SerialProbeSlots
PROPERTY RecoversEventually
