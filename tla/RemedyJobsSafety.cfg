CONSTANTS
  Jobs = {j1, j2}
  Workers = {w1, w2}
  NoJob = NoJob
  Slots = 1
  MaxCrashes = 1
  MaxFaults = 1
  NonSuspending = FALSE
SPECIFICATION Spec
SYMMETRY Symmetry
INVARIANTS
  OneOwner AtMostOneRun LiveRowsOwned DoneHasArtifacts
  ServedResultIsStable AcceptedIsComplete OrphansExplained
PROPERTY ImplementsLifecycle
