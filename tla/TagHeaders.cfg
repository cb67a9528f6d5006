SPECIFICATION Spec
CONSTANTS
  MaxSpan = 4
  Heights = {40}
  MaxNodes = 1
  MaxCells = 3
  MaxRounds = 1
CHECK_DEADLOCK FALSE
INVARIANT HeadersAreKept
