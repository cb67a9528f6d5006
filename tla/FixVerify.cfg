SPECIFICATION FairSpec
CONSTANTS
  FixCount = 1
  MaxCycles = 2
  Seen = {{}, {"source_font", "manual"}, {"blocking"}}
  MaxDiff = 2
  Recovery = 0
  Review = 1
INVARIANTS
  ReportDescribesServedPdf
  
  CleanVerdictIsReal
PROPERTIES
  NeverRevertsToWorse
  EveryFixEnds
CHECK_DEADLOCK FALSE
