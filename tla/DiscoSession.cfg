SPECIFICATION Spec
CONSTANTS
  NumWorkers = 5
  NumGroups = 2
  Undefined = Undefined
  Lengths = {4, 5}
  MaxRegisters = 2
  MaxCalls = 2
INVARIANTS ScatterGatherRoundTrip GroupIsolation ThrowIsClean
CHECK_DEADLOCK FALSE
