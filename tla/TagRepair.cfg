SPECIFICATION Spec
CONSTANTS
  MaxSpan = 4
  Heights = {40}
  MaxNodes = 4
  MaxCells = 5
  MaxRounds = 4
CHECK_DEADLOCK FALSE
INVARIANTS
  ContentKept
  RepairConverges
  WidthsBounded
PROPERTY
  Settles
