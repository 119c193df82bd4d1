SPECIFICATION FairSpec
CONSTANTS
  NumWorkers = 3
  NumGroups = 1
  Undefined = Undefined
  NoVD = NoVD
  NoPlacement = NoPlacement
  NoContext = NoContext
  NoObject = NoObject
  NoPlan = NoPlan
  Null = Null
  Slices = 6
  Functions <- Lowered
  Ambient <- Contexts
  MaxScopes = 2
INVARIANTS KernelInputsLocal CopyFollowsPlan DefinedBeforeUse ScopesNest ContextReachesTIR PlanSurvivesJson OutputAtHome
PROPERTIES PlanCompletes
