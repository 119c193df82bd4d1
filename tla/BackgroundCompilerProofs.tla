---------------------- MODULE BackgroundCompilerProofs ----------------------
(***************************************************************************)
(* Proofs about BackgroundCompiler for any number of workers, clients and  *)
(* tasks: the invariant Inductive is preserved by every step, and from it  *)
(* follow the accounting of active_tasks_, the conservation of tasks, what *)
(* WaitAll and the destructor guarantee when they return, and that the     *)
(* class implements CompileQueue.                                          *)
(***************************************************************************)
EXTENDS BackgroundCompiler, FiniteSetTheorems, TLAPS

\* The sets of workers that the invariant counts are finite: the constructor
\* starts finitely many threads.
LEMMA FiniteWorkerSets ==
    /\ IsFiniteSet(InFlight) /\ Cardinality(InFlight) \in Nat
    /\ IsFiniteSet(Counting) /\ Cardinality(Counting) \in Nat
<1>1. InFlight \in SUBSET Workers /\ Counting \in SUBSET Workers
  BY DEF InFlight, Counting
<1>2. IsFiniteSet(InFlight) /\ IsFiniteSet(Counting)
  BY <1>1, PoolAssumption, FS_Subset
<1> QED
  BY <1>2, FS_CardinalityType

\* Inductive holds when the constructor has started the threads.
LEMMA InitInductive == Init => Inductive
<1> SUFFICES ASSUME Init PROVE Inductive
  OBVIOUS
<1>1. TypeOK
  BY FS_EmptySet DEF Init, TypeOK, WorkerPoints, ClientPoints
<1>2. InFlight = {} /\ Executing = {} /\ Counting = {} /\ ExecutingTasks = {}
  BY DEF Init, InFlight, Executing, Counting, ExecutingTasks
<1>3. Succeeded = {} /\ Decided = {}
  BY DEF Init, Succeeded, Decided
<1>4. Accounting
  BY <1>2, FS_EmptySet DEF Init, Accounting
<1>5. Conservation
  BY <1>2, <1>3 DEF Init, Conservation
<1>6. SuccessesCounted
  BY <1>2, <1>3, FS_EmptySet DEF Init, SuccessesCounted
<1>7. LeavesDrained
  BY PoolAssumption DEF Init, LeavesDrained
<1> QED
  BY <1>1, <1>2, <1>4, <1>5, <1>6, <1>7 DEF Inductive

\* A step that moves no task and changes no counter: locking, waiting, waking,
\* notifying, returning and destroying are all of this kind.
LEMMA QuietStep ==
    ASSUME Inductive, TypeOK', LeavesDrained',
           queue' = queue, active_tasks' = active_tasks,
           completed_count' = completed_count, submitted' = submitted,
           outcome' = outcome, InFlight' = InFlight, Counting' = Counting,
           Executing' = Executing, \A w \in InFlight : task'[w] = task[w]
    PROVE  Inductive' /\ ExecutingTasks' = ExecutingTasks
<1>1. Executing \subseteq InFlight
  BY DEF Executing, InFlight
<1>2. ExecutingTasks' = ExecutingTasks
  BY <1>1 DEF ExecutingTasks
<1>3. Succeeded' = Succeeded /\ Decided' = Decided
  BY DEF Succeeded, Decided
<1>4. Accounting'
  BY DEF Inductive, Accounting
<1>5. Conservation'
  BY <1>1, <1>2, <1>3 DEF Inductive, Conservation
<1>6. SuccessesCounted'
  BY <1>3 DEF Inductive, SuccessesCounted
<1>7. \A w \in InFlight' : task'[w] \in Tasks
  BY DEF Inductive
<1> QED
  BY <1>2, <1>4, <1>5, <1>6, <1>7 DEF Inductive

\* Submit: one more task queued, one more counted.
LEMMA SubmitInductive ==
    ASSUME Inductive, NEW c \in Clients, NEW t \in Tasks, Submit(c, t)
    PROVE  Inductive' /\ ExecutingTasks' = ExecutingTasks
<1> USE DEF Submit, ClientGoTo
<1>1. TypeOK'
  BY FS_AddElement DEF Inductive, TypeOK, ClientPoints
<1>2. /\ InFlight' = InFlight /\ Executing' = Executing /\ Counting' = Counting
      /\ ExecutingTasks' = ExecutingTasks
  BY DEF InFlight, Executing, Counting, ExecutingTasks
<1>3. Succeeded' = Succeeded /\ Decided' = Decided
  BY DEF Succeeded, Decided
<1>4. t \notin queue
  BY DEF Inductive, Conservation
<1>5. Cardinality(queue') = Cardinality(queue) + 1 /\ Cardinality(queue) \in Nat
  BY <1>4, FS_AddElement, FS_CardinalityType DEF Inductive, TypeOK
<1>6. Accounting'
  BY <1>2, <1>5, FiniteWorkerSets DEF Inductive, Accounting, TypeOK
<1>7. Conservation'
  BY <1>2, <1>3 DEF Inductive, Conservation
<1>8. SuccessesCounted'
  BY <1>2, <1>3 DEF Inductive, SuccessesCounted
<1>9. LeavesDrained'
  BY DEF Inductive, LeavesDrained
<1>10. \A w \in InFlight' : task'[w] \in Tasks
  BY <1>2 DEF Inductive
<1> QED
  BY <1>1, <1>2, <1>6, <1>7, <1>8, <1>9, <1>10 DEF Inductive

\* WorkerPop: one queued task becomes the task of one more worker in flight.
LEMMA PopInductive ==
    ASSUME Inductive, NEW w \in Workers, WorkerPop(w)
    PROVE  /\ Inductive'
           /\ \E t \in Top : /\ queue' = queue \ {t}
                             /\ ExecutingTasks' = ExecutingTasks \cup {t}
<1> PICK t \in Top : task' = [task EXCEPT ![w] = t] /\ queue' = queue \ {t}
  BY DEF WorkerPop
<1> USE DEF WorkerPop, GoTo
<1>1. t \in queue /\ t \in Tasks
  BY DEF Top, Inductive, TypeOK
<1>2. TypeOK'
  BY <1>1, FS_RemoveElement DEF Inductive, TypeOK, WorkerPoints
<1>3. /\ InFlight' = InFlight \cup {w} /\ w \notin InFlight
      /\ Executing' = Executing \cup {w} /\ w \notin Executing
      /\ Counting' = Counting
  BY DEF InFlight, Executing, Counting, Inductive, TypeOK
<1>4. /\ \A v \in Workers \ {w} : task'[v] = task[v]
      /\ task'[w] = t
  BY DEF Inductive, TypeOK
<1>5. ExecutingTasks' = ExecutingTasks \cup {t}
  <2>1. ExecutingTasks' = {task'[v] : v \in Executing'}
    BY DEF ExecutingTasks
  <2>2. Executing \subseteq Workers \ {w}
    BY <1>3 DEF Executing
  <2> QED
    BY <2>1, <2>2, <1>3, <1>4 DEF ExecutingTasks
<1>6. Succeeded' = Succeeded /\ Decided' = Decided
  BY DEF Succeeded, Decided
<1>7. Accounting'
  <2>1. Cardinality(InFlight') = Cardinality(InFlight) + 1
    BY <1>3, FiniteWorkerSets, FS_AddElement
  <2>2. Cardinality(queue') = Cardinality(queue) - 1
    BY <1>1, FS_RemoveElement DEF Inductive, TypeOK
  <2>3. Cardinality(queue) \in Nat
    BY FS_CardinalityType DEF Inductive, TypeOK
  <2> QED
    BY <2>1, <2>2, <2>3, FiniteWorkerSets DEF Inductive, Accounting
<1>8. Conservation'
  <2>1. \A u, v \in Executing' : task'[u] = task'[v] => u = v
    <3>1. \A v \in Executing : task[v] # t
      BY <1>1 DEF Inductive, Conservation, ExecutingTasks
    <3>2. Executing \subseteq Workers \ {w}
      BY <1>3 DEF Executing
    <3> QED
      BY <3>1, <3>2, <1>3, <1>4 DEF Inductive, Conservation
  <2> QED
    BY <2>1, <1>1, <1>5, <1>6 DEF Inductive, Conservation
<1>9. SuccessesCounted'
  BY <1>3, <1>6 DEF Inductive, SuccessesCounted
<1>10. LeavesDrained'
  BY <1>1 DEF Inductive, LeavesDrained, TypeOK
<1>11. \A v \in InFlight' : task'[v] \in Tasks
  <2>1. InFlight \subseteq Workers \ {w}
    BY <1>3 DEF InFlight
  <2> QED
    BY <2>1, <1>1, <1>3, <1>4 DEF Inductive
<1> QED
  BY <1>2, <1>5, <1>7, <1>8, <1>9, <1>10, <1>11 DEF Inductive

\* WorkerThrow and WorkerCallback: the task of an executing worker gets its
\* outcome; a success leaves one more worker about to count it.
LEMMA OutcomeInductive ==
    ASSUME Inductive, NEW w \in Workers, WorkerThrow(w) \/ WorkerCallback(w)
    PROVE  /\ Inductive'
           /\ w \in Executing
           /\ ExecutingTasks' = ExecutingTasks \ {task[w]}
           /\ \E r \in {"ok", "error"} :
                 outcome' = [outcome EXCEPT ![task[w]] = r]
<1> DEFINE t == task[w]
<1>1. PICK r \in {"ok", "error"} :
        /\ outcome' = [outcome EXCEPT ![t] = r]
        /\ wpc' = [wpc EXCEPT ![w] = IF r = "ok" THEN "count" ELSE "dec"]
  BY DEF WorkerThrow, WorkerCallback, GoTo
<1>2. /\ wpc[w] \in {"compile", "callback"}
      /\ UNCHANGED <<queue, active_tasks, completed_count, shutdown, mu, task,
                     cpc, dpc, submitted>>
  BY DEF WorkerThrow, WorkerCallback
<1>3. w \in Executing /\ w \in InFlight
  BY <1>2 DEF Executing, InFlight
<1>4. t \in Tasks /\ t \in ExecutingTasks /\ t \notin Decided
  BY <1>3 DEF Inductive, Conservation, ExecutingTasks
<1>5. TypeOK'
  BY <1>1, <1>2, <1>4 DEF Inductive, TypeOK, WorkerPoints
<1>6. InFlight' = InFlight /\ Executing' = Executing \ {w}
  BY <1>1, <1>2 DEF InFlight, Executing, Inductive, TypeOK
<1>7. Counting' = IF r = "ok" THEN Counting \cup {w} ELSE Counting
  BY <1>1, <1>2 DEF Counting, Inductive, TypeOK
<1>8. w \notin Counting
  BY <1>2 DEF Counting
<1>9. ExecutingTasks' = ExecutingTasks \ {t}
  BY <1>2, <1>3, <1>6 DEF ExecutingTasks, Inductive, Conservation
<1>10. Decided' = Decided \cup {t}
  BY <1>1, <1>4 DEF Decided, Inductive, TypeOK
<1>11. Succeeded' = IF r = "ok" THEN Succeeded \cup {t} ELSE Succeeded
  BY <1>1, <1>4 DEF Succeeded, Decided, Inductive, TypeOK
<1>12. t \notin Succeeded
  BY <1>4 DEF Succeeded, Decided
<1>13. Accounting'
  BY <1>2, <1>6 DEF Inductive, Accounting
<1>14. Conservation'
  BY <1>2, <1>4, <1>6, <1>9, <1>10 DEF Inductive, Conservation
<1>15. SuccessesCounted'
  <2>1. CASE r = "error"
    BY <2>1, <1>2, <1>7, <1>11 DEF Inductive, SuccessesCounted
  <2>2. CASE r = "ok"
    <3>1. Cardinality(Counting') = Cardinality(Counting) + 1
      BY <2>2, <1>7, <1>8, FiniteWorkerSets, FS_AddElement
    <3>2. IsFiniteSet(Succeeded') /\ Cardinality(Succeeded') = Cardinality(Succeeded) + 1
      BY <2>2, <1>11, <1>12, FS_AddElement DEF Inductive, SuccessesCounted
    <3>3. Cardinality(Succeeded) \in Nat
      BY FS_CardinalityType DEF Inductive, SuccessesCounted
    <3> QED
      BY <3>1, <3>2, <3>3, <1>2, FiniteWorkerSets
      DEF Inductive, SuccessesCounted, TypeOK
  <2> QED
    BY <2>1, <2>2
<1>16. LeavesDrained'
  BY <1>1, <1>2 DEF Inductive, LeavesDrained, TypeOK
<1>17. \A v \in InFlight' : task'[v] \in Tasks
  BY <1>2, <1>6 DEF Inductive
<1> QED
  BY <1>1, <1>3, <1>5, <1>9, <1>13, <1>14, <1>15, <1>16, <1>17 DEF Inductive

\* WorkerCount: the success of one worker moves into completed_count_.
LEMMA CountInductive ==
    ASSUME Inductive, NEW w \in Workers, WorkerCount(w)
    PROVE  Inductive' /\ ExecutingTasks' = ExecutingTasks
<1> USE DEF WorkerCount, GoTo
<1>1. TypeOK'
  BY DEF Inductive, TypeOK, WorkerPoints
<1>2. /\ InFlight' = InFlight /\ Executing' = Executing
      /\ Counting' = Counting \ {w} /\ w \in Counting
  BY DEF InFlight, Executing, Counting, Inductive, TypeOK
<1>3. ExecutingTasks' = ExecutingTasks
  BY <1>2 DEF ExecutingTasks
<1>4. Succeeded' = Succeeded /\ Decided' = Decided
  BY DEF Succeeded, Decided
<1>5. Accounting' /\ Conservation'
  BY <1>2, <1>3, <1>4 DEF Inductive, Accounting, Conservation
<1>6. SuccessesCounted'
  <2>1. Cardinality(Counting') = Cardinality(Counting) - 1
    BY <1>2, FiniteWorkerSets, FS_RemoveElement
  <2> QED
    BY <2>1, <1>4, FiniteWorkerSets DEF Inductive, SuccessesCounted, TypeOK
<1>7. LeavesDrained'
  BY DEF Inductive, LeavesDrained, TypeOK
<1>8. \A v \in InFlight' : task'[v] \in Tasks
  BY <1>2 DEF Inductive
<1> QED
  BY <1>1, <1>3, <1>5, <1>6, <1>7, <1>8 DEF Inductive

\* WorkerDec: active_tasks_ drops with the worker that leaves InFlight, so it
\* never underflows.
LEMMA DecInductive ==
    ASSUME Inductive, NEW w \in Workers, WorkerDec(w)
    PROVE  Inductive' /\ ExecutingTasks' = ExecutingTasks
<1> USE DEF WorkerDec, GoTo
<1>1. /\ InFlight' = InFlight \ {w} /\ w \in InFlight
      /\ Executing' = Executing /\ Counting' = Counting
  BY DEF InFlight, Executing, Counting, Inductive, TypeOK
<1>2. ExecutingTasks' = ExecutingTasks
  BY <1>1 DEF ExecutingTasks
<1>3. Succeeded' = Succeeded /\ Decided' = Decided
  BY DEF Succeeded, Decided
<1>4. /\ Cardinality(InFlight') = Cardinality(InFlight) - 1
      /\ Cardinality(InFlight') \in Nat
  <2>1. IsFiniteSet(InFlight')
    BY <1>1, FiniteWorkerSets, FS_RemoveElement
  <2> QED
    BY <2>1, <1>1, FiniteWorkerSets, FS_RemoveElement, FS_CardinalityType
<1>5. Cardinality(queue) \in Nat
  BY FS_CardinalityType DEF Inductive, TypeOK
<1>6. Accounting' /\ active_tasks' \in Nat
  BY <1>4, <1>5, FiniteWorkerSets DEF Inductive, Accounting
<1>7. TypeOK'
  BY <1>6 DEF Inductive, TypeOK, WorkerPoints
<1>8. Conservation' /\ SuccessesCounted'
  BY <1>1, <1>2, <1>3 DEF Inductive, Conservation, SuccessesCounted
<1>9. LeavesDrained'
  BY DEF Inductive, LeavesDrained, TypeOK
<1>10. \A v \in InFlight' : task'[v] \in Tasks
  BY <1>1 DEF Inductive
<1> QED
  BY <1>2, <1>6, <1>7, <1>8, <1>9, <1>10 DEF Inductive

\* The steps of a worker that only move it around its loop.
LEMMA QuietWorker ==
    ASSUME Inductive, NEW w \in Workers,
           \/ WorkerLock(w) \/ WorkerDecideToWait(w) \/ WorkerBlock(w)
           \/ WorkerSpuriousWake(w) \/ WorkerReturn(w) \/ WorkerCompile(w)
           \/ WorkerNotify(w)
    PROVE  Inductive' /\ ExecutingTasks' = ExecutingTasks
<1> USE DEF WorkerLock, WorkerDecideToWait, WorkerBlock, WorkerSpuriousWake,
            WorkerReturn, WorkerCompile, WorkerNotify, GoTo
<1>1. TypeOK'
  BY DEF Inductive, TypeOK, WorkerPoints, ClientPoints
<1>2. /\ InFlight' = InFlight /\ Executing' = Executing
      /\ Counting' = Counting
  BY DEF InFlight, Executing, Counting, Inductive, TypeOK
<1>3. \A v \in InFlight : task'[v] = task[v]
  BY DEF InFlight, Inductive, TypeOK
<1>4. LeavesDrained'
  BY DEF Inductive, LeavesDrained, TypeOK
<1> QED
  BY <1>1, <1>2, <1>3, <1>4, QuietStep

\* The steps of a client other than Submit's critical section.
LEMMA QuietClient ==
    ASSUME Inductive, NEW c \in Clients,
           \/ SubmitNotify(c) \/ WaitAllCall(c) \/ WaitAllLock(c)
           \/ WaitAllDecideToWait(c) \/ WaitAllBlock(c) \/ WaitAllReturn(c)
           \/ WaitAllSpuriousWake(c)
    PROVE  Inductive' /\ ExecutingTasks' = ExecutingTasks
<1> USE DEF SubmitNotify, WaitAllCall, WaitAllLock, WaitAllDecideToWait,
            WaitAllBlock, WaitAllReturn, WaitAllSpuriousWake, ClientGoTo, GoTo
<1>1. TypeOK'
  BY DEF Inductive, TypeOK, WorkerPoints, ClientPoints
<1>2. /\ InFlight' = InFlight /\ Executing' = Executing
      /\ Counting' = Counting
  BY DEF InFlight, Executing, Counting, Inductive, TypeOK
<1>3. \A v \in InFlight : task'[v] = task[v]
  OBVIOUS
<1>4. LeavesDrained'
  BY DEF Inductive, LeavesDrained, TypeOK
<1> QED
  BY <1>1, <1>2, <1>3, <1>4, QuietStep

\* The destructor's steps.
LEMMA QuietDestroy ==
    ASSUME Inductive, DestroyStep
    PROVE  Inductive' /\ ExecutingTasks' = ExecutingTasks
<1> USE DEF DestroyStep, DestroyBegin, DestroyNotify, DestroyJoin
<1>1. TypeOK'
  BY DEF Inductive, TypeOK, WorkerPoints
<1>2. /\ InFlight' = InFlight /\ Executing' = Executing
      /\ Counting' = Counting
  BY DEF InFlight, Executing, Counting, Inductive, TypeOK
<1>3. \A v \in InFlight : task'[v] = task[v]
  OBVIOUS
<1>4. LeavesDrained'
  BY PoolAssumption DEF Inductive, LeavesDrained, TypeOK
<1> QED
  BY <1>1, <1>2, <1>3, <1>4, QuietStep

\* A stuttering step.
LEMMA QuietStutter ==
    ASSUME Inductive, UNCHANGED vars
    PROVE  Inductive' /\ ExecutingTasks' = ExecutingTasks
<1> USE DEF vars
<1>1. TypeOK' /\ LeavesDrained'
  BY DEF Inductive, TypeOK, LeavesDrained
<1>2. /\ InFlight' = InFlight /\ Executing' = Executing
      /\ Counting' = Counting
  BY DEF InFlight, Executing, Counting
<1> QED
  BY <1>1, <1>2, QuietStep

\* Every step of every thread preserves Inductive.
LEMMA NextInductive == Inductive /\ [Next]_vars => Inductive'
<1> SUFFICES ASSUME Inductive, [Next]_vars PROVE Inductive'
  OBVIOUS
<1>1. ASSUME NEW w \in Workers, WorkerStep(w) \/ WorkerSpuriousWake(w)
      PROVE  Inductive'
  BY <1>1, PopInductive, OutcomeInductive, CountInductive, DecInductive,
     QuietWorker DEF WorkerStep
<1>2. ASSUME NEW c \in Clients, NEW t \in Tasks, Submit(c, t)
      PROVE  Inductive'
  BY <1>2, SubmitInductive
<1>3. ASSUME NEW c \in Clients,
             \/ SubmitNotify(c) \/ WaitAllCall(c) \/ WaitAllStep(c)
             \/ WaitAllSpuriousWake(c)
      PROVE  Inductive'
  BY <1>3, QuietClient DEF WaitAllStep
<1>4. CASE DestroyStep
  BY <1>4, QuietDestroy
<1>5. CASE Gone
  BY <1>5, QuietStutter DEF Gone
<1>6. CASE UNCHANGED vars
  BY <1>6, QuietStutter
<1> QED
  BY <1>1, <1>2, <1>3, <1>4, <1>5, <1>6 DEF Next

\* The invariant holds in every reachable state of a pool of any size.
THEOREM Invariance == Spec => []Inductive
  BY InitInductive, NextInductive, PTL DEF Spec

\* active_tasks_ is exact and of the right type at every moment; in
\* particular the decrement outside mu_ never wraps around.
THEOREM AccountingHolds == Spec => [](TypeOK /\ Accounting)
<1>1. Inductive => TypeOK /\ Accounting
  BY DEF Inductive
<1> QED
  BY <1>1, Invariance, PTL

\* No task is lost or executed twice.
THEOREM ConservationHolds == Spec => []Conservation
<1>1. Inductive => Conservation
  BY DEF Inductive
<1> QED
  BY <1>1, Invariance, PTL

\* With no worker in flight and an empty queue every submitted task is over
\* and every success is counted: what both WaitAll and join() rely on.
LEMMA IdleMeansDecided ==
    ASSUME Inductive, queue = {}, InFlight = {}
    PROVE  /\ ExecutingTasks = {}
           /\ submitted = Decided
           /\ completed_count = Cardinality(Succeeded)
<1>1. Executing = {} /\ Counting = {}
  BY DEF InFlight, Executing, Counting
<1>2. ExecutingTasks = {}
  BY <1>1 DEF ExecutingTasks
<1>3. Cardinality(Counting) = 0
  BY <1>1, FS_EmptySet
<1> QED
  BY <1>2, <1>3 DEF Inductive, Conservation, SuccessesCounted, TypeOK

\* The predicate of done_cv_.wait is exact: it is true only when no worker is
\* in flight.
LEMMA NothingOutstandingMeansIdle ==
    ASSUME Inductive, NothingOutstanding
    PROVE  queue = {} /\ InFlight = {}
<1>1. Cardinality(InFlight) = 0
  BY FiniteWorkerSets, FS_EmptySet
  DEF Inductive, Accounting, NothingOutstanding
<1> QED
  BY <1>1, FiniteWorkerSets, FS_EmptySet DEF NothingOutstanding

\* The destructor returns only when every submitted task has been executed.
THEOREM ShutdownDrainsHolds == Spec => []ShutdownDrains
<1>1. Inductive => ShutdownDrains
  <2> SUFFICES ASSUME Inductive, dpc = "destroyed"
               PROVE  queue = {} /\ submitted = Decided
    BY DEF ShutdownDrains
  <2>1. \A w \in Workers : wpc[w] = "done"
    BY DEF Inductive, LeavesDrained
  <2>2. queue = {} /\ InFlight = {}
    BY <2>1, PoolAssumption DEF Inductive, LeavesDrained, InFlight
  <2> QED
    BY <2>2, IdleMeansDecided
<1> QED
  BY <1>1, Invariance, PTL

\* WaitAll returns only when every submitted task is over and counted.
THEOREM WaitAllCompleteHolds == Spec => WaitAllComplete
<1> DEFINE Complete ==
      \A c \in Clients : cpc[c] = "check" /\ cpc'[c] = "idle" =>
          /\ submitted = Decided
          /\ completed_count = Cardinality(Succeeded)
<1>1. Inductive /\ [Next]_vars => [Complete]_vars
  <2> SUFFICES ASSUME Inductive, Next, NEW c \in Clients,
                      cpc[c] = "check", cpc'[c] = "idle"
               PROVE  /\ submitted = Decided
                      /\ completed_count = Cardinality(Succeeded)
    OBVIOUS
  <2>1. \E d \in Clients : WaitAllReturn(d)
    <3> USE DEF Inductive, TypeOK
    <3>1. ASSUME NEW w \in Workers, WorkerStep(w) \/ WorkerSpuriousWake(w)
          PROVE  FALSE
      BY <3>1 DEF WorkerStep, WorkerSpuriousWake, WorkerLock,
         WorkerDecideToWait, WorkerBlock, WorkerReturn, WorkerPop,
         WorkerCompile, WorkerThrow, WorkerCallback, WorkerCount, WorkerDec,
         WorkerNotify
    <3>2. ASSUME NEW d \in Clients, NEW t \in Tasks, Submit(d, t)
          PROVE  FALSE
      BY <3>2 DEF Submit, ClientGoTo
    <3>3. ASSUME NEW d \in Clients,
                 \/ SubmitNotify(d) \/ WaitAllCall(d) \/ WaitAllLock(d)
                 \/ WaitAllDecideToWait(d) \/ WaitAllBlock(d)
                 \/ WaitAllSpuriousWake(d)
          PROVE  FALSE
      BY <3>3 DEF SubmitNotify, WaitAllCall, WaitAllLock,
         WaitAllDecideToWait, WaitAllBlock, WaitAllSpuriousWake, ClientGoTo
    <3>4. ~DestroyStep /\ ~Gone
      BY DEF DestroyStep, DestroyBegin, DestroyNotify, DestroyJoin, Gone, vars
    <3> QED
      BY <3>1, <3>2, <3>3, <3>4 DEF Next, WaitAllStep
  <2>2. NothingOutstanding
    BY <2>1 DEF WaitAllReturn
  <2> QED
    BY <2>2, NothingOutstandingMeansIdle, IdleMeansDecided
<1> QED
  BY <1>1, Invariance, PTL DEF Spec, WaitAllComplete

\* The refinement's view of the clients inside WaitAll.
InWaitAll == {c \in Clients : cpc[c] \notin {"idle", "notify"}}

\* Under Inductive, what CompileQueue knows of is what was submitted.
LEMMA KnownIsSubmitted ==
    ASSUME Inductive PROVE Queue!Known = submitted
  BY DEF Inductive, Conservation, Queue!Known, Decided

\* Every step of the pool is a step of CompileQueue or changes nothing that
\* CompileQueue sees.
LEMMA StepRefines ==
    Inductive /\ [Next]_vars => [Queue!Next]_(Queue!queueVars)
<1> SUFFICES ASSUME Inductive, [Next]_vars
             PROVE  \/ Queue!Next
                    \/ UNCHANGED <<queue, ExecutingTasks, outcome, InWaitAll>>
  BY DEF Queue!queueVars, InWaitAll
<1>1. ASSUME NEW w \in Workers, WorkerPop(w) PROVE Queue!Next
  <2>1. PICK t \in Top : /\ queue' = queue \ {t}
                         /\ ExecutingTasks' = ExecutingTasks \cup {t}
    BY <1>1, PopInductive
  <2>2. t \in Queue!MostUrgent(queue) /\ t \in Tasks
    BY <2>1 DEF Top, Queue!MostUrgent, Inductive, TypeOK
  <2>3. UNCHANGED <<outcome, InWaitAll>>
    BY <1>1 DEF WorkerPop, InWaitAll
  <2>4. Queue!Start(t)
    BY <2>1, <2>2, <2>3 DEF Queue!Start, InWaitAll
  <2> QED
    BY <2>2, <2>4 DEF Queue!Next
<1>2. ASSUME NEW w \in Workers, WorkerThrow(w) \/ WorkerCallback(w)
      PROVE  Queue!Next
  <2>1. /\ w \in Executing
        /\ ExecutingTasks' = ExecutingTasks \ {task[w]}
        /\ \E r \in {"ok", "error"} :
              outcome' = [outcome EXCEPT ![task[w]] = r]
    BY <1>2, OutcomeInductive
  <2>2. task[w] \in ExecutingTasks /\ task[w] \in Tasks
    BY <2>1 DEF ExecutingTasks, Executing, InFlight, Inductive
  <2>3. UNCHANGED <<queue, InWaitAll>>
    BY <1>2 DEF WorkerThrow, WorkerCallback, InWaitAll
  <2>4. Queue!Finish(task[w])
    BY <2>1, <2>2, <2>3 DEF Queue!Finish, Queue!Outcomes, InWaitAll
  <2> QED
    BY <2>2, <2>4 DEF Queue!Next
<1>3. ASSUME NEW c \in Clients, NEW t \in Tasks, Submit(c, t)
      PROVE  Queue!Next
  <2>1. ExecutingTasks' = ExecutingTasks
    BY <1>3, SubmitInductive
  <2>2. InWaitAll' = InWaitAll
    BY <1>3 DEF Submit, ClientGoTo, InWaitAll, Inductive, TypeOK
  <2>3. t \notin Queue!Known
    BY <1>3, KnownIsSubmitted DEF Submit
  <2>4. Queue!Submit(t)
    BY <1>3, <2>1, <2>2, <2>3 DEF Queue!Submit, Submit, InWaitAll
  <2> QED
    BY <2>4 DEF Queue!Next
<1>4. ASSUME NEW c \in Clients, WaitAllCall(c) PROVE Queue!Next
  <2>1. ExecutingTasks' = ExecutingTasks
    BY <1>4, QuietClient
  <2>2. c \notin InWaitAll /\ InWaitAll' = InWaitAll \cup {c}
    BY <1>4 DEF WaitAllCall, ClientGoTo, InWaitAll, Inductive, TypeOK
  <2>3. Queue!WaitCall(c)
    BY <1>4, <2>1, <2>2 DEF Queue!WaitCall, WaitAllCall, InWaitAll
  <2> QED
    BY <2>3 DEF Queue!Next
<1>5. ASSUME NEW c \in Clients, WaitAllReturn(c) PROVE Queue!Next
  <2>1. ExecutingTasks' = ExecutingTasks
    BY <1>5, QuietClient
  <2>2. c \in InWaitAll /\ InWaitAll' = InWaitAll \ {c}
    BY <1>5 DEF WaitAllReturn, ClientGoTo, InWaitAll, Inductive, TypeOK
  <2>3. queue = {} /\ ExecutingTasks = {}
    BY <1>5, NothingOutstandingMeansIdle, IdleMeansDecided DEF WaitAllReturn
  <2>4. Queue!WaitReturn(c)
    BY <1>5, <2>1, <2>2, <2>3 DEF Queue!WaitReturn, WaitAllReturn, InWaitAll
  <2> QED
    BY <2>4 DEF Queue!Next
<1>6. ASSUME NEW w \in Workers,
             \/ WorkerLock(w) \/ WorkerDecideToWait(w) \/ WorkerBlock(w)
             \/ WorkerSpuriousWake(w) \/ WorkerReturn(w) \/ WorkerCompile(w)
             \/ WorkerNotify(w) \/ WorkerCount(w) \/ WorkerDec(w)
      PROVE  UNCHANGED <<queue, ExecutingTasks, outcome, InWaitAll>>
  <2>1. ExecutingTasks' = ExecutingTasks
    BY <1>6, QuietWorker, CountInductive, DecInductive
  <2>2. UNCHANGED <<queue, outcome, InWaitAll>>
    BY <1>6 DEF WorkerLock, WorkerDecideToWait, WorkerBlock,
       WorkerSpuriousWake, WorkerReturn, WorkerCompile, WorkerNotify,
       WorkerCount, WorkerDec, InWaitAll, Inductive, TypeOK
  <2> QED
    BY <2>1, <2>2
<1>7. ASSUME NEW c \in Clients,
             \/ SubmitNotify(c) \/ WaitAllLock(c) \/ WaitAllDecideToWait(c)
             \/ WaitAllBlock(c) \/ WaitAllSpuriousWake(c)
      PROVE  UNCHANGED <<queue, ExecutingTasks, outcome, InWaitAll>>
  <2>1. ExecutingTasks' = ExecutingTasks
    BY <1>7, QuietClient
  <2>2. UNCHANGED <<queue, outcome, InWaitAll>>
    BY <1>7 DEF SubmitNotify, WaitAllLock, WaitAllDecideToWait, WaitAllBlock,
       WaitAllSpuriousWake, ClientGoTo, InWaitAll, Inductive, TypeOK
  <2> QED
    BY <2>1, <2>2
<1>8. CASE DestroyStep
  <2>1. ExecutingTasks' = ExecutingTasks
    BY <1>8, QuietDestroy
  <2> QED
    BY <1>8, <2>1 DEF DestroyStep, DestroyBegin, DestroyNotify, DestroyJoin,
       InWaitAll
<1>9. CASE UNCHANGED vars
  BY <1>9, QuietStutter DEF vars, InWaitAll
<1> QED
  BY <1>1, <1>2, <1>3, <1>4, <1>5, <1>6, <1>7, <1>8, <1>9
  DEF Next, WorkerStep, WaitAllStep, Gone

\* The thread pool implements its abstract promise, whatever the number of
\* threads and tasks: by priority, exactly once, and WaitAll only returns when
\* nothing is outstanding.
THEOREM Refinement == Spec => ImplementsQueue
<1>1. Init => Queue!Init
  BY DEF Init, Queue!Init, ExecutingTasks, Executing
<1> QED
  BY <1>1, StepRefines, Invariance, PTL DEF Spec, ImplementsQueue, Queue!Spec
=============================================================================
