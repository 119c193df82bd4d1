SPECIFICATION FairSpec
CONSTANTS
  Clients = {c1, c2}
  Owner = owner
  Shapes <- MCTwo
  Hash <- MCHash
  DeclaredShape <- Large
  MaxRuns = 3
  MaxRecent = 1
PROPERTIES HotShapeServed
