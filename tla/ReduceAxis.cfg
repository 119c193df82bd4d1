SPECIFICATION Spec
CONSTANTS
  Narrow = 5
  Wide = 8
  Programs <- MCMeanKept
  Graphs = {}
  DefaultBatch = 1
  MaxRelayPasses = 1
  MaxTirPasses = 1
INVARIANTS MeaningPreserved
CHECK_DEADLOCK FALSE
