SPECIFICATION Spec
CONSTANTS
  Kinds <- UncheckedKinds
  MaxFaults = 0
INVARIANT DoneAlwaysHasOutput
