------------------------ MODULE MCBackgroundCompiler ------------------------
EXTENDS BackgroundCompiler, TLC

CONSTANTS t1, t2, t3

MCTasks == {t1, t2, t3}

\* Two tasks of equal priority and a more urgent one.
MCPriority == t1 :> 1 @@ t2 :> 1 @@ t3 :> 2

\* Two tasks are enough for WaitAll to sleep through the last notification.
MCTwoTasks == {t1, t2}

MCTwoPriority == t1 :> 1 @@ t2 :> 2
=============================================================================
