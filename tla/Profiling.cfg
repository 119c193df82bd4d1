SPECIFICATION Spec
CONSTANTS
  Clients = {c1, c2}
  Workers = {w1}
  Tasks = {t1}
  NoTask = NoTask
  MaxRuns = 2
  MaxSpans = 3
  MaxDepth = 4
SYMMETRY Symmetric
INVARIANTS StackMatchesScopes ParentInRun OutcomeAfterSubmission BundleComplete
PROPERTIES WaitAllFlushed
