SPECIFICATION Spec
CONSTANTS
  t1 = t1
  t2 = t2
  Threads <- Two
  MaxEntries = 2
  Window = 1
  MinSamples = 2
  OpenFor = 2
  MaxProbes = 1
  Wrap = 8
  MaxStall = 1
  MaxFaults = 2
  Regimes = {TRUE, FALSE}
CHECK_DEADLOCK FALSE
PROPERTY HalfOpenStartsWithoutProbes
