SPECIFICATION Spec
CONSTANTS
  Used = {"BT", "ET", "BDC", "EMC", "Tm", "Td", "Tj", "'", "Tf", "g", "q"}
  MaxLength = 5
  Place = 100
  Move = 1
  Advance = 10
INVARIANTS
  OutputIsLegal
  SecondRunChangesNothing
  ContinuationStaysInPlace
CHECK_DEADLOCK FALSE
