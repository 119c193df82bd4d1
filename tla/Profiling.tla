------------------------------ MODULE Profiling ------------------------------
(***************************************************************************)
(* profiling::ProfileContext and the scopes that feed it: CompiledModule's *)
(* calls on client threads, and WorkerLoop on the background compiler's    *)
(* threads, which continue the run a task was submitted from.  There is    *)
(* one context, which a module, its session and every scope share.         *)
(*                                                                         *)
(* A thread is a stack of C++ scopes (ActivationScope, ScopedSpan), so it  *)
(* closes the innermost one first, by returning or by an exception.  What  *)
(* the code between two scopes computes is left out: at any point inside a *)
(* span a client may open another one, record an instant, enter a nested   *)
(* call, flush or submit a task.  Every acquisition of the context's mutex *)
(* is a step of its own.                                                   *)
(***************************************************************************)
EXTENDS Naturals, Sequences, SequencesExt

CONSTANTS Clients, Workers,
          Tasks,        \* background tasks, each submitted at most once
          NoTask,
          MaxRuns,      \* bound: runs the clients begin
          MaxSpans,     \* bound: ids after which nothing optional is opened
          MaxDepth      \* bound: scopes open on a thread

ASSUME ProfilingAssumption ==
    /\ Clients \cap Workers = {} /\ NoTask \notin Tasks
    /\ MaxRuns \in Nat /\ MaxSpans \in Nat /\ MaxDepth \in Nat

VARIABLES tls,          \* tls_run_id and tls_span_stack of every thread
          scopes,       \* the scopes open on every thread, innermost last
          phase,        \* what a worker still has to do for its task
          run_counter, span_counter,    \* run_counter_, span_counter_
          events,       \* serialized_events_
          bundle,       \* events.jsonl as last written
          queue,        \* submitted tasks with the ids they carry
          settled,      \* tasks whose active_tasks_-- is done
          life          \* the module and its context

vars == <<tls, scopes, phase, run_counter, span_counter, events, bundle,
          queue, settled, life>>

Threads == Clients \cup Workers

\* Ids count from 1; 0 is the empty string.
Unset == 0

NoTls == [run |-> Unset, stack |-> <<>>]

Scope(kind, id, run, parent, task) ==
    [kind |-> kind, id |-> id, run |-> run, parent |-> parent, task |-> task,
     saved |-> NoTls]

Innermost(t) == IF scopes[t] = <<>> THEN "none" ELSE Last(scopes[t]).kind

\* CurrentSpanId
CurrentSpanId(t) == IF tls[t].stack = <<>> THEN Unset ELSE Last(tls[t].stack)

Init ==
    /\ tls = [t \in Threads |-> NoTls]
    /\ scopes = [t \in Threads |-> <<>>]
    /\ phase = [w \in Workers |-> "idle"]
    /\ run_counter = 0 /\ span_counter = 0
    /\ events = <<>> /\ bundle = <<>>
    /\ queue = {} /\ settled = {}
    /\ life = "alive"

-----------------------------------------------------------------------------
(* The scopes *)

Open(t, scope) == scopes' = [scopes EXCEPT ![t] = Append(@, scope)]

Close(t) == scopes' = [scopes EXCEPT ![t] = Front(@)]

\* Mutant of Activated: the enclosing activation's spans stay on the stack.
ActivatedOnTop(t, run) == [tls[t] EXCEPT !.run = run]

\* The thread's state inside a new ActivationScope, which keeps the old one.
Activated(t, run) == [run |-> run, stack |-> <<>>]

\* An ActivationScope and the ScopedSpan every caller opens inside it.  Without
\* an explicit parent it is the top of the stack the activation has emptied.
Enter(t, run, parent, task) ==
    LET active == Activated(t, run)
        top == IF active.stack = <<>> THEN Unset ELSE Last(active.stack)
        id == span_counter + 1
    IN  /\ span_counter' = id
        /\ tls' = [tls EXCEPT ![t] = [active EXCEPT !.stack = Append(@, id)]]
        /\ scopes' = [scopes EXCEPT ![t] = @ \o
              <<[Scope("activation", Unset, run, Unset, task)
                   EXCEPT !.saved = tls[t]],
                Scope("span", id, run, IF parent # Unset THEN parent ELSE top, task)>>]

\* A line of events.jsonl, in the order of the critical sections of
\* RecordCompletedSpan and RecordInstant.
Record(scope) ==
    events' = Append(events, [event |-> scope.kind, span |-> scope.id,
                              run |-> scope.run, parent |-> scope.parent,
                              task |-> scope.task])

\* The first half of RecordInstant: an id, before the mutex is taken again.
TakeInstantId(t, event, run, parent, task) ==
    /\ span_counter' = span_counter + 1
    /\ Open(t, Scope(event, span_counter + 1, run, parent, task))

\* A worker's outermost two scopes are WorkerLoop's own.
InsideCall(t) == t \in Clients \/ Len(scopes[t]) > 2

MayOpen(t) ==
    /\ Innermost(t) = "span" /\ InsideCall(t)
    /\ span_counter < MaxSpans /\ Len(scopes[t]) < MaxDepth

\* ScopedSpan(CurrentContext(), spec): run and parent are the thread's.
OpenSpan(t) ==
    /\ MayOpen(t)
    /\ span_counter' = span_counter + 1
    /\ Open(t, Scope("span", span_counter + 1, tls[t].run, CurrentSpanId(t), NoTask))
    /\ tls' = [tls EXCEPT ![t].stack = Append(@, span_counter + 1)]
    /\ UNCHANGED <<phase, run_counter, events, bundle, queue, settled, life>>

RecordInstant(t) ==
    /\ MayOpen(t)
    /\ TakeInstantId(t, "instant", tls[t].run, CurrentSpanId(t), NoTask)
    /\ UNCHANGED <<tls, phase, run_counter, events, bundle, queue, settled,
                   life>>

\* The second half of RecordInstant.
AppendInstant(t) ==
    /\ Innermost(t) = "instant"
    /\ Record(Last(scopes[t]))
    /\ Close(t)
    /\ UNCHANGED <<tls, phase, run_counter, span_counter, bundle, queue,
                   settled, life>>

\* ScopedSpan::Close: the id leaves the stack if it is on top of it.
CloseSpan(t) ==
    /\ Innermost(t) = "span"
    /\ ~InsideCall(t) => phase[t] = "close"
    /\ tls' = [tls EXCEPT ![t].stack =
                  IF @ # <<>> /\ Last(@) = Last(scopes[t]).id THEN Front(@) ELSE @]
    /\ Record(Last(scopes[t]))
    /\ Close(t)
    /\ UNCHANGED <<phase, run_counter, span_counter, bundle, queue, settled,
                   life>>

\* Mutant of CloseActivation: the span stack is not put back.
CloseActivationClears(t) ==
    /\ Innermost(t) = "activation"
    /\ tls' = [tls EXCEPT ![t].run = Last(scopes[t]).saved.run]
    /\ Close(t)
    /\ phase' = IF Len(scopes[t]) = 1 /\ t \in Workers
                THEN [phase EXCEPT ![t] = "idle"] ELSE phase
    /\ UNCHANGED <<run_counter, span_counter, events, bundle, queue, settled,
                   life>>

\* The destructor of ActivationScope; a worker's iteration ends with it.
CloseActivation(t) ==
    /\ Innermost(t) = "activation"
    /\ tls' = [tls EXCEPT ![t] = Last(scopes[t]).saved]
    /\ Close(t)
    /\ phase' = IF Len(scopes[t]) = 1 /\ t \in Workers
                THEN [phase EXCEPT ![t] = "idle"] ELSE phase
    /\ UNCHANGED <<run_counter, span_counter, events, bundle, queue, settled,
                   life>>

\* ProfileContext::Flush: the bundle becomes a snapshot of all the events.
Flush(t) ==
    /\ Innermost(t) = "span" /\ InsideCall(t)
    /\ bundle' = events
    /\ UNCHANGED <<tls, scopes, phase, run_counter, span_counter, events,
                   queue, settled, life>>

-----------------------------------------------------------------------------
(* Clients: Compile and CompiledModule's Run, WarmUp and WaitAll *)

\* NextRunId, then an activation and the call's span.  A call of Run that misses
\* nests Compile, and Run of the kernel's module.
BeginCall(c) ==
    /\ life = "alive" /\ run_counter < MaxRuns
    /\ scopes[c] = <<>> \/ MayOpen(c)
    /\ run_counter' = run_counter + 1
    /\ Enter(c, run_counter + 1, Unset, NoTask)
    /\ UNCHANGED <<phase, events, bundle, queue, settled, life>>

Carried(scope) == [task |-> scope.task, run |-> scope.run, parent |-> scope.parent]

\* Tasks submitted, or about to be.
Announced ==
    {e.task : e \in {events[i] : i \in DOMAIN events}} \cup
    {Last(scopes[c]).task : c \in {d \in Clients : scopes[d] # <<>>}}

\* MaybeScheduleOptimization: the task carries the caller's run and span, and
\* its submission is recorded before Submit.
AnnounceTask(c, task) ==
    /\ Innermost(c) = "span" /\ task \notin Announced
    /\ TakeInstantId(c, "submitted", tls[c].run, CurrentSpanId(c), task)
    /\ UNCHANGED <<tls, phase, run_counter, events, bundle, queue, settled,
                   life>>

\* Mutant of AppendSubmitted: the task is handed over before it is recorded.
SubmitFirst(c) ==
    /\ Innermost(c) = "submitted"
    /\ queue' = queue \cup {Carried(Last(scopes[c]))}
    /\ scopes' = [scopes EXCEPT ![c] = Append(Front(@), [Last(@) EXCEPT !.kind = "instant"])]
    /\ UNCHANGED <<tls, phase, run_counter, span_counter, events, bundle,
                   settled, life>>

AppendSubmitted(c) ==
    /\ Innermost(c) = "submitted"
    /\ Record(Last(scopes[c]))
    /\ scopes' = [scopes EXCEPT ![c] = Append(Front(@), [Last(@) EXCEPT !.kind = "submit"])]
    /\ UNCHANGED <<tls, phase, run_counter, span_counter, bundle, queue,
                   settled, life>>

Submit(c) ==
    /\ Innermost(c) = "submit"
    /\ queue' = queue \cup {Carried(Last(scopes[c]))}
    /\ Close(c)
    /\ UNCHANGED <<tls, phase, run_counter, span_counter, events, bundle,
                   settled, life>>

\* Tasks in the queue or with a worker, as active_tasks_ counts them.
Outstanding ==
    ({q.task : q \in queue} \cup
     {scopes[w][1].task : w \in {v \in Workers : scopes[v] # <<>>}}) \ settled

\* RuntimeSession::WaitAll returns; CompiledModule::WaitAll flushes next.
WaitAllReturn(c) ==
    /\ Innermost(c) = "span" /\ Outstanding = {}
    /\ Open(c, Scope("flush", Unset, Unset, Unset, NoTask))
    /\ UNCHANGED <<tls, phase, run_counter, span_counter, events, bundle,
                   queue, settled, life>>

WaitAllFlush(c) ==
    /\ Innermost(c) = "flush"
    /\ bundle' = events
    /\ Close(c)
    /\ UNCHANGED <<tls, phase, run_counter, span_counter, events, queue,
                   settled, life>>

-----------------------------------------------------------------------------
(* WorkerLoop *)

\* The task is taken; its span continues the run and the span it was
\* submitted from.
StartTask(w, q) ==
    /\ phase[w] = "idle" /\ q \in queue
    /\ queue' = queue \ {q}
    /\ Enter(w, q.run, q.parent, q.task)
    /\ phase' = [phase EXCEPT ![w] = "compile"]
    /\ UNCHANGED <<run_counter, events, bundle, settled, life>>

\* api::Compiler::Compile begins a run of its own.
BeginCompile(w) ==
    /\ phase[w] = "compile"
    /\ run_counter' = run_counter + 1
    /\ Enter(w, run_counter + 1, Unset, NoTask)
    /\ phase' = [phase EXCEPT ![w] = "compiling"]
    /\ UNCHANGED <<events, bundle, queue, settled, life>>

\* Compile has returned or thrown: on_complete records with the ids it
\* captured, the handler with the worker's own span as parent.
EndCompile(w) ==
    /\ phase[w] = "compiling" /\ Len(scopes[w]) = 2
    /\ LET own == Last(scopes[w])
       IN  \/ TakeInstantId(w, "completed", own.run, own.parent, own.task)
           \/ TakeInstantId(w, "error", own.run, CurrentSpanId(w), own.task)
    /\ UNCHANGED <<tls, phase, run_counter, events, bundle, queue, settled,
                   life>>

AppendOutcome(w) ==
    /\ Innermost(w) \in {"completed", "error"}
    /\ Record(Last(scopes[w]))
    /\ Close(w)
    /\ phase' = [phase EXCEPT ![w] = "settle"]
    /\ UNCHANGED <<tls, run_counter, span_counter, bundle, queue, settled,
                   life>>

\* Mutant of Settle: active_tasks_-- comes before the outcome is recorded.
SettleEarly(w) ==
    /\ phase[w] \in {"compiling", "settle"}
    /\ settled' = settled \cup {scopes[w][1].task}
    /\ phase' = [phase EXCEPT ![w] = IF @ = "settle" THEN "close" ELSE @]
    /\ UNCHANGED <<tls, scopes, run_counter, span_counter, events, bundle,
                   queue, life>>

\* active_tasks_--: the worker's span is still open.
Settle(w) ==
    /\ phase[w] = "settle"
    /\ settled' = settled \cup {Last(scopes[w]).task}
    /\ phase' = [phase EXCEPT ![w] = "close"]
    /\ UNCHANGED <<tls, scopes, run_counter, span_counter, events, bundle,
                   queue, life>>

-----------------------------------------------------------------------------
(* The end: ~RuntimeSession waits for the tasks, ~BackgroundCompiler joins *)
(* the workers, then the last reference to the context goes.               *)

DestroySession ==
    /\ life = "alive" /\ \A c \in Clients : scopes[c] = <<>>
    /\ Outstanding = {}
    /\ life' = "joining"
    /\ UNCHANGED <<tls, scopes, phase, run_counter, span_counter, events,
                   bundle, queue, settled>>

\* Mutant of DestroyContext: the final flush does not wait for the join.
DestroyContextAtOnce ==
    /\ life = "joining"
    /\ bundle' = events
    /\ life' = "destroyed"
    /\ UNCHANGED <<tls, scopes, phase, run_counter, span_counter, events,
                   queue, settled>>

\* ~ProfileContext flushes.
DestroyContext ==
    /\ life = "joining" /\ \A w \in Workers : phase[w] = "idle"
    /\ bundle' = events
    /\ life' = "destroyed"
    /\ UNCHANGED <<tls, scopes, phase, run_counter, span_counter, events,
                   queue, settled>>

Destroyed == life = "destroyed" /\ UNCHANGED vars

Next ==
    \/ \E t \in Threads :
          \/ OpenSpan(t) \/ RecordInstant(t) \/ AppendInstant(t)
          \/ CloseSpan(t) \/ CloseActivation(t) \/ Flush(t)
    \/ \E c \in Clients :
          \/ BeginCall(c) \/ \E task \in Tasks : AnnounceTask(c, task)
          \/ AppendSubmitted(c) \/ Submit(c)
          \/ WaitAllReturn(c) \/ WaitAllFlush(c)
    \/ \E w \in Workers :
          \/ \E q \in queue : StartTask(w, q)
          \/ BeginCompile(w) \/ EndCompile(w) \/ AppendOutcome(w) \/ Settle(w)
    \/ DestroySession \/ DestroyContext \/ Destroyed

Spec == Init /\ [][Next]_vars

-----------------------------------------------------------------------------
(* Properties *)

Events == ToSet(events)

OpenScopes(t) == ToSet(scopes[t])

\* Spans and instants that have an id: recorded, or still open somewhere.
Known ==
    {[span |-> e.span, run |-> e.run, parent |-> e.parent] : e \in Events} \cup
    {[span |-> s.id, run |-> s.run, parent |-> s.parent] :
        s \in {r \in UNION {OpenScopes(t) : t \in Threads} : r.id # Unset}}

\* A thread with the scopes s[1..n], s[from] its innermost activation, has this
\* tls: the spans opened since lie directly above it, tls_span_stack holds
\* their ids in that order, and they and tls_run_id are of its run.
MatchesSince(s, n, state, from) ==
    /\ from = 0 \/ s[from].kind = "activation"
    /\ from + Len(state.stack) <= n
    /\ \A i \in from + 1 .. n :
          /\ s[i].kind # "activation"
          /\ s[i].kind = "span" <=> i <= from + Len(state.stack)
          /\ s[i].kind = "span" => s[i].id = state.stack[i - from] /\ s[i].run = state.run
    /\ state.run = IF from = 0 THEN Unset ELSE s[from].run

Matches(s, n, state) == \E from \in 0 .. n : MatchesSince(s, n, state, from)

\* What ScopedSpan::Close finds on top of tls_span_stack is its own id, at any
\* depth of nested calls, and a thread that has left its outermost scope has
\* left nothing behind.
StackMatchesScopes ==
    \A t \in Threads : Matches(scopes[t], Len(scopes[t]), tls[t])

\* The events of one run form trees: the parent of a span or instant is an
\* earlier span of the SAME run, on another thread where a background task
\* continues the run it was submitted from.
ParentInRun ==
    \A k \in Known : k.parent # Unset =>
        \E p \in Known : p.span = k.parent /\ p.run = k.run /\ p.span < k.span

\* The agent compares the numbers of submitted and completed tasks: in every
\* bundle ever written an outcome comes after the submission it belongs to,
\* with the same run.
OutcomeAfterSubmission ==
    \A i \in DOMAIN bundle : bundle[i].event \in {"completed", "error"} =>
        \E j \in 1 .. i - 1 : /\ bundle[j].event = "submitted"
                              /\ bundle[j].task = bundle[i].task
                              /\ bundle[j].run = bundle[i].run

\* The bundle CompiledModule::WaitAll writes shows the outcome of every task
\* that active_tasks_ no longer counts, so of every task WaitAll waited for; the
\* worker's own span may still be missing, as it closes after active_tasks_--.
WaitAllFlushed ==
    [][\A c \in Clients : Innermost(c) = "flush" /\ Innermost(c)' # "flush" =>
          \A task \in settled :
             \E i \in DOMAIN bundle' : /\ bundle'[i].task = task
                                       /\ bundle'[i].event \in {"completed", "error"}]_vars

\* The final bundle is complete: every span and instant that ever got an id is
\* in it, once.
BundleComplete ==
    life = "destroyed" =>
        /\ Len(bundle) = span_counter
        /\ {e.span : e \in ToSet(bundle)} = 1..span_counter
=============================================================================
