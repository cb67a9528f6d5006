CONSTANTS
  Jobs = {j1, j2}
  Workers = {w1}
  NoJob = NoJob
  Slots = 1
  MaxCrashes = 1
  MaxFaults = 0
  NonSuspending = TRUE
SPECIFICATION FairSpec
PROPERTY EveryJobSettles
