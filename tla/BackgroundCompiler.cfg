SPECIFICATION FairSpec
CONSTANTS
  Workers = {w1, w2}
  Clients = {c1, c2}
  t1 = t1
  t2 = t2
  t3 = t3
  Tasks <- MCTasks
  Priority <- MCPriority
  NoThread = NoThread
  NoTask = NoTask
INVARIANTS TypeOK Inductive ShutdownDrains
PROPERTIES WaitAllComplete ImplementsQueue EveryTaskExecuted DestructorReturns
