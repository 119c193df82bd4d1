SPECIFICATION Spec
CONSTANTS
  Clients = {c1, c2}
  Owner = owner
  Shapes <- MCChain
  Hash <- MCHash
  DeclaredShape <- Large
  MaxRuns = 4
  MaxRecent = 1
SYMMETRY Symmetric
INVARIANTS Inductive OneTaskPerHash NoClaimLost TaskJustified KernelPointerValid SlotCoversInput CallbackTargetAlive
PROPERTIES WaitAllSettles FuzzyNearest
