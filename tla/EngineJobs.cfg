SPECIFICATION Spec
CONSTANTS
  Kinds <- EveryKind
  MaxFaults = 3
INVARIANTS
  OptInServesAccepted
  FormsNeverFlattened
  ReportDescribesServed
  OfficeKeepsOutput
  EndedRowsSettled
PROPERTIES
  Tier1Survives
  HandlerFollowsLifecycle
