------------------------- MODULE BackgroundCompiler -------------------------
(***************************************************************************)
(* runtime::BackgroundCompiler: a priority queue of CompileTasks and the   *)
(* threads that consume it.  One mutex (mu_) guards the queue, cv_ wakes   *)
(* the workers, done_cv_ wakes the callers of WaitAll.  active_tasks_,     *)
(* completed_count_ and shutdown_ are atomics that the code also changes   *)
(* WITHOUT holding mu_, so a thread that holds mu_ between evaluating a    *)
(* wait predicate and blocking can still be overtaken by those changes:    *)
(* "check" and "block" are two steps of every waiting thread here.         *)
(*                                                                         *)
(* A critical section that evaluates no wait predicate is one step, which  *)
(* needs mu_ to be free.  Everything the code does to a task's profiling   *)
(* span is left out: it changes none of this state.                        *)
(***************************************************************************)
EXTENDS Naturals, FiniteSets

CONSTANTS Workers,      \* the threads of workers_
          Clients,      \* threads that call Submit and WaitAll
          Tasks,        \* one element per CompileTask handed to Submit
          Priority,     \* CompileTask::priority of each task
          NoThread,     \* mu_ is free
          NoTask        \* a worker outside an iteration has no local `task`

ASSUME PoolAssumption ==
    /\ IsFiniteSet(Workers) /\ Workers # {}
    /\ Priority \in [Tasks -> Nat]
    /\ Workers \cap Clients = {}
    /\ NoThread \notin Workers \cup Clients
    /\ NoTask \notin Tasks

VARIABLES queue,            \* queue_
          active_tasks,     \* active_tasks_
          completed_count,  \* completed_count_
          shutdown,         \* shutdown_
          mu,               \* the thread that holds mu_, or NoThread
          wpc, task,        \* control point and local `task` of every worker
          cpc,              \* control point of every client
          dpc,              \* control point of the destructor
          submitted,        \* history: tasks ever handed to Submit
          outcome           \* history: how the execution of a task ended

vars == <<queue, active_tasks, completed_count, shutdown, mu,
          wpc, task, cpc, dpc, submitted, outcome>>

WorkerPoints == {"lock", "check", "block", "waiting", "compile", "callback",
                 "count", "dec", "notify", "done"}
ClientPoints == {"idle", "notify", "lock", "check", "block", "waiting"}

TypeOK ==
    /\ queue \subseteq Tasks /\ IsFiniteSet(queue)
    /\ active_tasks \in Nat
    /\ completed_count \in Nat
    /\ shutdown \in BOOLEAN
    /\ mu \in Workers \cup Clients \cup {NoThread}
    /\ wpc \in [Workers -> WorkerPoints]
    /\ task \in [Workers -> Tasks \cup {NoTask}]
    /\ cpc \in [Clients -> ClientPoints]
    /\ dpc \in {"alive", "notify", "join", "destroyed"}
    /\ submitted \subseteq Tasks
    /\ outcome \in [Tasks -> {"none", "ok", "error"}]

Init ==
    /\ queue = {}
    /\ active_tasks = 0
    /\ completed_count = 0
    /\ shutdown = FALSE
    /\ mu = NoThread
    /\ wpc = [w \in Workers |-> "lock"]
    /\ task = [w \in Workers |-> NoTask]
    /\ cpc = [c \in Clients |-> "idle"]
    /\ dpc = "alive"
    /\ submitted = {}
    /\ outcome = [t \in Tasks |-> "none"]

-----------------------------------------------------------------------------
(* WorkerLoop *)

\* Mutant of Top: operator< turned round, the least urgent task comes first.
TopLeastUrgent == {t \in queue : \A u \in queue : Priority[t] <= Priority[u]}

\* std::priority_queue::top under CompileTask::operator<: a task of maximal
\* priority; which one of several is left open by the heap.
Top == {t \in queue : \A u \in queue : Priority[u] <= Priority[t]}

\* The predicate of cv_.wait.
WorkAvailable == queue # {} \/ shutdown

GoTo(w, point) == wpc' = [wpc EXCEPT ![w] = point]

WorkerLock(w) ==
    /\ wpc[w] = "lock" /\ mu = NoThread
    /\ mu' = w
    /\ GoTo(w, "check")
    /\ UNCHANGED <<queue, active_tasks, completed_count, shutdown, task, cpc,
                   dpc, submitted, outcome>>

\* The predicate is false; mu_ is still held.
WorkerDecideToWait(w) ==
    /\ wpc[w] = "check" /\ ~WorkAvailable
    /\ GoTo(w, "block")
    /\ UNCHANGED <<queue, active_tasks, completed_count, shutdown, mu, task,
                   cpc, dpc, submitted, outcome>>

\* cv_.wait releases mu_ and blocks in one step.
WorkerBlock(w) ==
    /\ wpc[w] = "block"
    /\ mu' = NoThread
    /\ GoTo(w, "waiting")
    /\ UNCHANGED <<queue, active_tasks, completed_count, shutdown, task, cpc,
                   dpc, submitted, outcome>>

WorkerSpuriousWake(w) ==
    /\ wpc[w] = "waiting"
    /\ GoTo(w, "lock")
    /\ UNCHANGED <<queue, active_tasks, completed_count, shutdown, mu, task,
                   cpc, dpc, submitted, outcome>>

\* Mutant of WorkerReturn: leaves on shutdown_ without looking at the queue.
WorkerReturnAtOnce(w) ==
    /\ wpc[w] = "check" /\ shutdown
    /\ mu' = NoThread
    /\ GoTo(w, "done")
    /\ UNCHANGED <<queue, active_tasks, completed_count, shutdown, task, cpc,
                   dpc, submitted, outcome>>

WorkerReturn(w) ==
    /\ wpc[w] = "check" /\ WorkAvailable
    /\ shutdown /\ queue = {}
    /\ mu' = NoThread
    /\ GoTo(w, "done")
    /\ UNCHANGED <<queue, active_tasks, completed_count, shutdown, task, cpc,
                   dpc, submitted, outcome>>

WorkerPop(w) ==
    /\ wpc[w] = "check" /\ WorkAvailable
    /\ ~(shutdown /\ queue = {})
    /\ \E t \in Top :
          /\ task' = [task EXCEPT ![w] = t]
          /\ queue' = queue \ {t}
    /\ mu' = NoThread
    /\ GoTo(w, "compile")
    /\ UNCHANGED <<active_tasks, completed_count, shutdown, cpc, dpc,
                   submitted, outcome>>

\* api::Compiler::Compile returned a module: on_complete is called next.
WorkerCompile(w) ==
    /\ wpc[w] = "compile"
    /\ GoTo(w, "callback")
    /\ UNCHANGED <<queue, active_tasks, completed_count, shutdown, mu, task,
                   cpc, dpc, submitted, outcome>>

\* Mutant of WorkerThrow: the handler continues the loop past active_tasks_--.
WorkerThrowSkipsDec(w) ==
    /\ wpc[w] \in {"compile", "callback"}
    /\ outcome' = [outcome EXCEPT ![task[w]] = "error"]
    /\ GoTo(w, "notify")
    /\ UNCHANGED <<queue, active_tasks, completed_count, shutdown, mu, task,
                   cpc, dpc, submitted>>

\* Compile or on_complete threw: the handler logs it, the task is over.
WorkerThrow(w) ==
    /\ wpc[w] \in {"compile", "callback"}
    /\ outcome' = [outcome EXCEPT ![task[w]] = "error"]
    /\ GoTo(w, "dec")
    /\ UNCHANGED <<queue, active_tasks, completed_count, shutdown, mu, task,
                   cpc, dpc, submitted>>

WorkerCallback(w) ==
    /\ wpc[w] = "callback"
    /\ outcome' = [outcome EXCEPT ![task[w]] = "ok"]
    /\ GoTo(w, "count")
    /\ UNCHANGED <<queue, active_tasks, completed_count, shutdown, mu, task,
                   cpc, dpc, submitted>>

WorkerCount(w) ==
    /\ wpc[w] = "count"
    /\ completed_count' = completed_count + 1
    /\ GoTo(w, "dec")
    /\ UNCHANGED <<queue, active_tasks, shutdown, mu, task, cpc, dpc,
                   submitted, outcome>>

\* active_tasks_-- without mu_.
WorkerDec(w) ==
    /\ wpc[w] = "dec"
    /\ active_tasks' = active_tasks - 1
    /\ GoTo(w, "notify")
    /\ UNCHANGED <<queue, completed_count, shutdown, mu, task, cpc, dpc,
                   submitted, outcome>>

\* done_cv_.notify_all without mu_: reaches only clients already blocked.
\* The iteration ends here and its local `task` with it.
WorkerNotify(w) ==
    /\ wpc[w] = "notify"
    /\ task' = [task EXCEPT ![w] = NoTask]
    /\ cpc' = [c \in Clients |-> IF cpc[c] = "waiting" THEN "lock" ELSE cpc[c]]
    /\ GoTo(w, "lock")
    /\ UNCHANGED <<queue, active_tasks, completed_count, shutdown, mu, dpc,
                   submitted, outcome>>

-----------------------------------------------------------------------------
(* Submit and WaitAll, called by the clients while the object is alive *)

ClientGoTo(c, point) == cpc' = [cpc EXCEPT ![c] = point]

\* Mutant of Submit: pushes the task and does not count it.
SubmitUncounted(c, t) ==
    /\ cpc[c] = "idle" /\ dpc = "alive" /\ t \notin submitted
    /\ mu = NoThread
    /\ queue' = queue \cup {t}
    /\ submitted' = submitted \cup {t}
    /\ ClientGoTo(c, "notify")
    /\ UNCHANGED <<active_tasks, completed_count, shutdown, mu, wpc, task, dpc,
                   outcome>>

\* The critical section of Submit: push, then count.
Submit(c, t) ==
    /\ cpc[c] = "idle" /\ dpc = "alive" /\ t \notin submitted
    /\ mu = NoThread
    /\ queue' = queue \cup {t}
    /\ active_tasks' = active_tasks + 1
    /\ submitted' = submitted \cup {t}
    /\ ClientGoTo(c, "notify")
    /\ UNCHANGED <<completed_count, shutdown, mu, wpc, task, dpc, outcome>>

\* Mutant of SubmitNotify: the notification is forgotten.
SubmitNoNotify(c) ==
    /\ cpc[c] = "notify"
    /\ ClientGoTo(c, "idle")
    /\ UNCHANGED <<queue, active_tasks, completed_count, shutdown, mu, wpc,
                   task, dpc, submitted, outcome>>

\* cv_.notify_one after mu_ is released: some blocked worker, if there is one.
SubmitNotify(c) ==
    /\ cpc[c] = "notify"
    /\ IF \E w \in Workers : wpc[w] = "waiting"
       THEN \E w \in Workers : wpc[w] = "waiting" /\ GoTo(w, "lock")
       ELSE wpc' = wpc
    /\ ClientGoTo(c, "idle")
    /\ UNCHANGED <<queue, active_tasks, completed_count, shutdown, mu, task,
                   dpc, submitted, outcome>>

\* Mutant of NothingOutstanding: forgets the tasks taken off the queue.
NothingQueued == queue = {}

\* The predicate of done_cv_.wait.
NothingOutstanding == active_tasks = 0 /\ queue = {}

WaitAllCall(c) ==
    /\ cpc[c] = "idle" /\ dpc = "alive"
    /\ ClientGoTo(c, "lock")
    /\ UNCHANGED <<queue, active_tasks, completed_count, shutdown, mu, wpc,
                   task, dpc, submitted, outcome>>

WaitAllLock(c) ==
    /\ cpc[c] = "lock" /\ mu = NoThread
    /\ mu' = c
    /\ ClientGoTo(c, "check")
    /\ UNCHANGED <<queue, active_tasks, completed_count, shutdown, wpc, task,
                   dpc, submitted, outcome>>

WaitAllDecideToWait(c) ==
    /\ cpc[c] = "check" /\ ~NothingOutstanding
    /\ ClientGoTo(c, "block")
    /\ UNCHANGED <<queue, active_tasks, completed_count, shutdown, mu, wpc,
                   task, dpc, submitted, outcome>>

WaitAllBlock(c) ==
    /\ cpc[c] = "block"
    /\ mu' = NoThread
    /\ ClientGoTo(c, "waiting")
    /\ UNCHANGED <<queue, active_tasks, completed_count, shutdown, wpc, task,
                   dpc, submitted, outcome>>

WaitAllSpuriousWake(c) ==
    /\ cpc[c] = "waiting"
    /\ ClientGoTo(c, "lock")
    /\ UNCHANGED <<queue, active_tasks, completed_count, shutdown, mu, wpc,
                   task, dpc, submitted, outcome>>

WaitAllReturn(c) ==
    /\ cpc[c] = "check" /\ NothingOutstanding
    /\ mu' = NoThread
    /\ ClientGoTo(c, "idle")
    /\ UNCHANGED <<queue, active_tasks, completed_count, shutdown, wpc, task,
                   dpc, submitted, outcome>>

-----------------------------------------------------------------------------
(* ~BackgroundCompiler, once no client uses the object any more *)

\* shutdown_.store(true) without mu_.
DestroyBegin ==
    /\ dpc = "alive" /\ \A c \in Clients : cpc[c] = "idle"
    /\ shutdown' = TRUE
    /\ dpc' = "notify"
    /\ UNCHANGED <<queue, active_tasks, completed_count, mu, wpc, task, cpc,
                   submitted, outcome>>

\* Mutant of DestroyNotify: wakes one worker only.
DestroyNotifyOne ==
    /\ dpc = "notify"
    /\ IF \E w \in Workers : wpc[w] = "waiting"
       THEN \E w \in Workers : wpc[w] = "waiting" /\ GoTo(w, "lock")
       ELSE wpc' = wpc
    /\ dpc' = "join"
    /\ UNCHANGED <<queue, active_tasks, completed_count, shutdown, mu, task,
                   cpc, submitted, outcome>>

\* cv_.notify_all reaches only the workers already blocked.
DestroyNotify ==
    /\ dpc = "notify"
    /\ wpc' = [w \in Workers |-> IF wpc[w] = "waiting" THEN "lock" ELSE wpc[w]]
    /\ dpc' = "join"
    /\ UNCHANGED <<queue, active_tasks, completed_count, shutdown, mu, task,
                   cpc, submitted, outcome>>

DestroyJoin ==
    /\ dpc = "join" /\ \A w \in Workers : wpc[w] = "done"
    /\ dpc' = "destroyed"
    /\ UNCHANGED <<queue, active_tasks, completed_count, shutdown, mu, wpc,
                   task, cpc, submitted, outcome>>

\* The object is gone: nothing happens any more.
Gone == dpc = "destroyed" /\ UNCHANGED vars

-----------------------------------------------------------------------------

WorkerStep(w) ==
    \/ WorkerLock(w) \/ WorkerDecideToWait(w) \/ WorkerBlock(w)
    \/ WorkerReturn(w) \/ WorkerPop(w) \/ WorkerCompile(w) \/ WorkerThrow(w)
    \/ WorkerCallback(w) \/ WorkerCount(w) \/ WorkerDec(w) \/ WorkerNotify(w)

WaitAllStep(c) ==
    \/ WaitAllLock(c) \/ WaitAllDecideToWait(c) \/ WaitAllBlock(c)
    \/ WaitAllReturn(c)

DestroyStep == DestroyBegin \/ DestroyNotify \/ DestroyJoin

Next ==
    \/ \E w \in Workers : WorkerStep(w) \/ WorkerSpuriousWake(w)
    \/ \E c \in Clients :
          \/ \E t \in Tasks : Submit(c, t)
          \/ SubmitNotify(c) \/ WaitAllCall(c)
          \/ WaitAllStep(c) \/ WaitAllSpuriousWake(c)
    \/ DestroyStep
    \/ Gone

Spec == Init /\ [][Next]_vars

\* A running thread keeps running, and a thread that keeps asking for mu_
\* while others release it gets it in the end.  No caller has to make a call,
\* no blocked thread is woken for free.
Fairness ==
    /\ \A w \in Workers : WF_vars(WorkerStep(w)) /\ SF_vars(WorkerLock(w))
    /\ \A c \in Clients :
          /\ WF_vars(SubmitNotify(c))
          /\ WF_vars(WaitAllStep(c)) /\ SF_vars(WaitAllLock(c))
    /\ WF_vars(DestroyNotify) /\ WF_vars(DestroyJoin)

FairSpec == Spec /\ Fairness

-----------------------------------------------------------------------------
(* Properties *)

\* Workers between queue_.pop() and active_tasks_--.
InFlight == {w \in Workers : wpc[w] \in {"compile", "callback", "count", "dec"}}

\* Workers whose task has no outcome yet.
Executing == {w \in Workers : wpc[w] \in {"compile", "callback"}}

\* Workers whose success is not in completed_count_ yet.
Counting == {w \in Workers : wpc[w] = "count"}

ExecutingTasks == {task[w] : w \in Executing}

Succeeded == {t \in Tasks : outcome[t] = "ok"}

Decided == {t \in Tasks : outcome[t] # "none"}

\* active_tasks_, changed by Submit under mu_ and by the workers without it, is
\* always the number of tasks queued plus the number taken and not yet given
\* up, on the exception path too: it is what WaitAll relies on.
Accounting == active_tasks = Cardinality(queue) + Cardinality(InFlight)

\* A task handed to Submit is in one place only: queued, executed by exactly
\* one worker, or over.  No task is lost or executed twice, through shutdown.
Conservation ==
    /\ submitted = queue \cup ExecutingTasks \cup Decided
    /\ queue \cap ExecutingTasks = {}
    /\ queue \cap Decided = {}
    /\ ExecutingTasks \cap Decided = {}
    /\ \A v, w \in Executing : task[v] = task[w] => v = w

\* WaitAll comes back only when every task ever submitted has run its callback
\* or failed, and by then completed_count_ has counted all the successes: a
\* GetStatus after WaitAll is exact.
WaitAllComplete ==
    [][\A c \in Clients : cpc[c] = "check" /\ cpc'[c] = "idle" =>
          /\ submitted = Decided
          /\ completed_count = Cardinality(Succeeded)]_vars

\* The destructor drains the queue: once the threads are joined every task
\* that was submitted has been executed.
ShutdownDrains == dpc = "destroyed" => queue = {} /\ submitted = Decided

\* Every success has been counted or is about to be by the worker that had it.
SuccessesCounted ==
    /\ IsFiniteSet(Succeeded)
    /\ completed_count + Cardinality(Counting) = Cardinality(Succeeded)

\* A thread leaves WorkerLoop only after shutdown_, on an empty queue, and the
\* destructor gets past join() only when all of them have.
LeavesDrained ==
    /\ shutdown <=> dpc # "alive"
    /\ (\E w \in Workers : wpc[w] = "done") => shutdown /\ queue = {}
    /\ dpc = "destroyed" => \A w \in Workers : wpc[w] = "done"

\* The inductive invariant behind the safety theorems: the accounting of
\* active_tasks_ and completed_count_ holds at every point of every thread,
\* and each task taken by a worker is accounted for until its outcome.
Inductive ==
    /\ TypeOK
    /\ \A w \in InFlight : task[w] \in Tasks
    /\ Accounting
    /\ Conservation
    /\ SuccessesCounted
    /\ LeavesDrained

\* Submit pushes under mu_ and notifies after it, so a worker that found the
\* queue empty cannot sleep through it: every submitted task is executed.
EveryTaskExecuted ==
    \A t \in Tasks : t \in submitted ~> outcome[t] # "none"

\* The destructor sets shutdown_ and notifies without mu_, so it can overtake a
\* worker that has found nothing to do and has not blocked yet.  That window
\* is the only obstacle: outside it the joined threads all leave WorkerLoop.
DestructorReturns ==
    (dpc = "notify" /\ \A w \in Workers : wpc[w] # "block")
    ~> dpc = "destroyed"

\* The class implements its promise to the runtime.
Queue == INSTANCE CompileQueue WITH
            Callers <- Clients,
            pending <- queue,
            executing <- ExecutingTasks,
            waiting <- {c \in Clients : cpc[c] \notin {"idle", "notify"}}

ImplementsQueue == Queue!Spec

\* background_compiler.h says of WaitAll that it waits until the queue and the
\* running tasks are all finished: with finitely many tasks it comes back.
WaitAllReturns ==
    \A c \in Clients : cpc[c] = "lock" ~> cpc[c] = "idle"
=============================================================================
