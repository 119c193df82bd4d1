SPECIFICATION Spec
CONSTANTS
  Clients = {c1}
  Owner = owner
  Shapes <- MCTwo
  Hash <- MCHash
  DeclaredShape <- Large
  MaxRuns = 4
  MaxRecent = 1
INVARIANTS HotSwapSafe
