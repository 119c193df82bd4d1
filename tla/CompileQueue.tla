---------------------------- MODULE CompileQueue ----------------------------
(***************************************************************************)
(* What the background compiler promises to the rest of the runtime,       *)
(* whatever its threads, mutex and condition variables do: tasks handed    *)
(* over are started by decreasing priority, each is executed exactly once  *)
(* and ends in one of two outcomes, and a caller of WaitAll comes back     *)
(* only when nothing is outstanding.  BackgroundCompiler implements this   *)
(* specification (BackgroundCompiler!Queue).                               *)
(***************************************************************************)
EXTENDS Naturals

CONSTANTS Tasks,        \* identities of the CompileTask objects
          Callers,      \* threads that may call WaitAll
          Priority      \* CompileTask::priority of each task

VARIABLES pending,      \* queued, not yet taken by a thread
          executing,    \* taken by a thread, outcome still unknown
          outcome,      \* "none", "ok" or "error" for every task
          waiting       \* callers inside WaitAll

queueVars == <<pending, executing, outcome, waiting>>

Outcomes == {"ok", "error"}

Known == pending \cup executing \cup {t \in Tasks : outcome[t] # "none"}

MostUrgent(S) == {t \in S : \A u \in S : Priority[u] <= Priority[t]}

Init ==
    /\ pending = {}
    /\ executing = {}
    /\ outcome = [t \in Tasks |-> "none"]
    /\ waiting = {}

Submit(t) ==
    /\ t \notin Known
    /\ pending' = pending \cup {t}
    /\ UNCHANGED <<executing, outcome, waiting>>

Start(t) ==
    /\ t \in MostUrgent(pending)
    /\ pending' = pending \ {t}
    /\ executing' = executing \cup {t}
    /\ UNCHANGED <<outcome, waiting>>

Finish(t) ==
    /\ t \in executing
    /\ executing' = executing \ {t}
    /\ \E r \in Outcomes : outcome' = [outcome EXCEPT ![t] = r]
    /\ UNCHANGED <<pending, waiting>>

WaitCall(c) ==
    /\ c \notin waiting
    /\ waiting' = waiting \cup {c}
    /\ UNCHANGED <<pending, executing, outcome>>

WaitReturn(c) ==
    /\ c \in waiting
    /\ pending = {} /\ executing = {}
    /\ waiting' = waiting \ {c}
    /\ UNCHANGED <<pending, executing, outcome>>

Next ==
    \/ \E t \in Tasks : Submit(t) \/ Start(t) \/ Finish(t)
    \/ \E c \in Callers : WaitCall(c) \/ WaitReturn(c)

Spec == Init /\ [][Next]_queueVars
=============================================================================
