SPECIFICATION FairSpec
CONSTANTS
  Workers = {w1, w2}
  Clients = {c1}
  t1 = t1
  t2 = t2
  t3 = t3
  Tasks <- MCTwoTasks
  Priority <- MCTwoPriority
  NoThread = NoThread
  NoTask = NoTask
PROPERTIES WaitAllReturns
