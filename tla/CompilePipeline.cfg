SPECIFICATION Spec
CONSTANTS
  Narrow = 5
  Wide = 8
  Programs <- MCPrograms
  Graphs <- MCGraphs
  DefaultBatch = 1
  MaxRelayPasses = 3
  MaxTirPasses = 5
INVARIANTS ImportFaithful ShapesAgree MeaningPreserved CSourceAgrees
CHECK_DEADLOCK FALSE
