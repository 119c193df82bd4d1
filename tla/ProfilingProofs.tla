--------------------------- MODULE ProfilingProofs ---------------------------
(***************************************************************************)
(* Proofs about Profiling for any number of clients, workers, tasks and    *)
(* any depth of nesting: the thread-local stack, the span trees of a run,  *)
(* the order of submissions and outcomes, and the completeness of bundles. *)
(***************************************************************************)
EXTENDS Profiling, FiniteSetTheorems, SequenceTheorems, TLAPS

Kinds == {"activation", "span", "instant", "submitted", "submit", "flush",
          "completed", "error"}
Outcomes == {"completed", "error"}
Phases == {"idle", "compile", "compiling", "settle", "close"}

ThreadStates == [run : Nat, stack : Seq(Nat)]
ScopeRecords == [kind : Kinds, id : Nat, run : Nat, parent : Nat,
                 task : Tasks \cup {NoTask}, saved : ThreadStates]
EventRecords == [event : Kinds, span : Nat, run : Nat, parent : Nat,
                 task : Tasks \cup {NoTask}]
Requests == [task : Tasks, run : Nat, parent : Nat]

TypeOK ==
    /\ tls \in [Threads -> ThreadStates]
    /\ scopes \in [Threads -> Seq(ScopeRecords)]
    /\ phase \in [Workers -> Phases]
    /\ run_counter \in Nat /\ span_counter \in Nat
    /\ events \in Seq(EventRecords) /\ bundle \in Seq(EventRecords)
    /\ queue \subseteq Requests /\ settled \subseteq Tasks
    /\ life \in {"alive", "joining", "destroyed"}

\* Only the innermost scope is anything but an activation or a span, and an
\* activation has saved what the thread had when it was opened.
NestedIn(s, state) ==
    /\ Matches(s, Len(s), state)
    /\ \A i \in DOMAIN s :
          /\ s[i].kind \notin {"activation", "span"} => i = Len(s)
          /\ s[i].kind = "activation" => Matches(s, i - 1, s[i].saved)

Nested == \A t \in Threads : NestedIn(scopes[t], tls[t])

\* A scope whose event is still to be recorded.
Pending(t, i) ==
    i \in DOMAIN scopes[t] /\ scopes[t][i].kind \notin {"activation", "flush", "submit"}

\* Activations and flushes have no id, the others have one that was handed out.
IdsKnown ==
    \A t \in Threads : \A i \in DOMAIN scopes[t] :
        /\ scopes[t][i].id <= span_counter
        /\ scopes[t][i].id = Unset <=> scopes[t][i].kind \in {"activation", "flush"}

\* Every id handed out is in one event or in one pending scope.
IdsOnce ==
    /\ \A i \in DOMAIN events : events[i].span \in 1 .. span_counter
    /\ \A i, j \in DOMAIN events : events[i].span = events[j].span => i = j
    /\ \A t, u \in Threads : \A i \in DOMAIN scopes[t], j \in DOMAIN scopes[u] :
          Pending(t, i) /\ Pending(u, j) /\ scopes[t][i].id = scopes[u][j].id
             => t = u /\ i = j
    /\ \A t \in Threads : \A i \in DOMAIN scopes[t], j \in DOMAIN events :
          Pending(t, i) => scopes[t][i].id # events[j].span
    /\ \A n \in 1 .. span_counter :
          \/ \E j \in DOMAIN events : events[j].span = n
          \/ \E t \in Threads : \E i \in DOMAIN scopes[t] :
                Pending(t, i) /\ scopes[t][i].id = n

\* Span n of run r has been opened.
Opened(n, r) == \E p \in Known : p.span = n /\ p.run = r

\* What a task carries, and what a recorded submission still holds, is known.
Lineage ==
    /\ ParentInRun
    /\ \A q \in queue : q.parent # Unset => Opened(q.parent, q.run)
    /\ \A t \in Threads : \A i \in DOMAIN scopes[t] : scopes[t][i].kind = "submit" =>
          \E j \in DOMAIN events : /\ events[j].span = scopes[t][i].id
                                   /\ events[j].run = scopes[t][i].run
                                   /\ events[j].parent = scopes[t][i].parent

\* The two scopes of WorkerLoop, and what may be above them.
WorkerStack(s, at) ==
    /\ at = "idle" <=> s = <<>>
    /\ s # <<>> => s[1].kind = "activation" /\ s[1].task \in Tasks
    /\ Len(s) > 1 => s[2].kind = "span" /\ s[2].task = s[1].task /\ s[2].run = s[1].run
    /\ at \in {"compile", "settle"} => Len(s) = 2
    /\ at = "compiling" => Len(s) >= 2
    /\ at = "close" => Len(s) \in {1, 2}
    /\ \A i \in DOMAIN s : s[i].kind \in Outcomes =>
          i = 3 /\ at = "compiling" /\ s[i].task = s[1].task /\ s[i].run = s[1].run
    /\ \A i \in DOMAIN s : s[i].kind \notin {"submitted", "submit", "flush"}

WorkerAt(w) == WorkerStack(scopes[w], phase[w])

\* A client's scopes carry a task only on its way to Submit.
ClientStack(s) ==
    \A i \in DOMAIN s : /\ s[i].kind \notin Outcomes
                        /\ s[i].task # NoTask <=> s[i].kind \in {"submitted", "submit"}

ClientAt(c) == ClientStack(scopes[c])

\* Where a task is.
WithClient(c, task) == scopes[c] # <<>> /\ Last(scopes[c]).task = task
WithWorker(w, task) == scopes[w] # <<>> /\ scopes[w][1].task = task

Submitted(task, run) ==
    \E j \in DOMAIN events : /\ events[j].event = "submitted"
                             /\ events[j].task = task /\ events[j].run = run

Settling(task) ==
    \E j \in DOMAIN events : events[j].event \in Outcomes /\ events[j].task = task

\* A task is in one place: with one client, in the queue, with one worker or
\* settled; only a settled one may still be with a worker, who is leaving.
InOnePlace ==
    \A task \in Tasks :
        /\ \A c, d \in Clients : WithClient(c, task) /\ WithClient(d, task) => c = d
        /\ \A c \in Clients : WithClient(c, task) =>
              /\ task \notin settled /\ \A q \in queue : q.task # task
              /\ \A w \in Workers : ~WithWorker(w, task)
        /\ \A q \in queue : q.task = task =>
              /\ task \notin settled /\ \A p \in queue : p.task = task => p = q
              /\ \A w \in Workers : ~WithWorker(w, task)
        /\ \A v, w \in Workers : WithWorker(v, task) /\ WithWorker(w, task) => v = w
        /\ \A w \in Workers : WithWorker(w, task) =>
              (task \in settled <=> phase[w] = "close")

\* Outcomes follow submissions in a file of events.
InOrder(file) ==
    \A i \in DOMAIN file : file[i].event \in Outcomes =>
        \E j \in 1 .. i - 1 : /\ file[j].event = "submitted"
                              /\ file[j].task = file[i].task
                              /\ file[j].run = file[i].run

\* What has been recorded of the tasks that have left their client.
Recorded ==
    /\ InOrder(events) /\ InOrder(bundle)
    /\ \A c \in Clients : \A i \in DOMAIN scopes[c] : scopes[c][i].kind = "submit" =>
          Submitted(scopes[c][i].task, scopes[c][i].run)
    /\ \A q \in queue : Submitted(q.task, q.run)
    /\ \A w \in Workers : scopes[w] # <<>> => Submitted(scopes[w][1].task, scopes[w][1].run)
    /\ \A w \in Workers : phase[w] = "settle" => Settling(scopes[w][1].task)
    /\ \A task \in settled : Settling(task)

\* After DestroySession only workers that have settled are left.
Ending ==
    /\ life # "alive" =>
          /\ queue = {} /\ \A c \in Clients : scopes[c] = <<>>
          /\ \A w \in Workers : phase[w] \in {"idle", "close"}
    /\ life = "destroyed" => bundle = events /\ \A w \in Workers : phase[w] = "idle"

Inductive ==
    /\ TypeOK /\ Nested /\ IdsKnown /\ IdsOnce /\ Lineage
    /\ (\A w \in Workers : WorkerAt(w)) /\ (\A c \in Clients : ClientAt(c))
    /\ InOnePlace /\ Recorded /\ Ending

-----------------------------------------------------------------------------
(* Sequences *)

\* What Append does, element by element.
LEMMA Pushed ==
    ASSUME NEW S, NEW s \in Seq(S), NEW e \in S
    PROVE  /\ Append(s, e) \in Seq(S) /\ Len(Append(s, e)) = Len(s) + 1
           /\ DOMAIN Append(s, e) = 1 .. Len(s) + 1 /\ DOMAIN s = 1 .. Len(s)
           /\ Len(s) \in Nat /\ Append(s, e)[Len(s) + 1] = e
           /\ \A i \in 1 .. Len(s) : Append(s, e)[i] = s[i]
  OBVIOUS

\* What Front and Last do, element by element.
LEMMA Popped ==
    ASSUME NEW S, NEW s \in Seq(S), s # <<>>
    PROVE  /\ Front(s) \in Seq(S) /\ Len(Front(s)) = Len(s) - 1
           /\ DOMAIN Front(s) = 1 .. Len(s) - 1 /\ DOMAIN s = 1 .. Len(s)
           /\ Len(s) \in Nat \ {0} /\ Last(s) = s[Len(s)] /\ Last(s) \in S
           /\ \A i \in 1 .. Len(s) - 1 : Front(s)[i] = s[i]
<1>1. Len(s) \in Nat \ {0} /\ DOMAIN s = 1 .. Len(s) /\ \A i \in 1 .. Len(s) : s[i] \in S
  OBVIOUS
<1>2. /\ Len(Front(s)) = Len(s) - 1 /\ Front(s) \in Seq(S)
      /\ \A i \in 1 .. Len(s) - 1 : Front(s)[i] = s[i]
  BY <1>1 DEF Front
<1> QED
  BY <1>1, <1>2 DEF Last

-----------------------------------------------------------------------------
(* What the thread has when scopes are opened and closed *)

\* Matches looks at the first n scopes only.
LEMMA MatchesPrefix ==
    ASSUME NEW s, NEW r, NEW n \in Nat, NEW state \in ThreadStates,
           Matches(s, n, state), \A i \in 1 .. n : r[i] = s[i]
    PROVE  Matches(r, n, state)
<1>1. PICK from \in 0 .. n : MatchesSince(s, n, state, from)
  BY DEF Matches
<1>2. Len(state.stack) \in Nat
  BY DEF ThreadStates
<1>3. (from = 0 \/ r[from] = s[from]) /\ \A i \in from + 1 .. n : r[i] = s[i]
  OBVIOUS
<1>4. MatchesSince(r, n, state, from)
  BY <1>1, <1>3 DEF MatchesSince
<1> QED
  BY <1>4 DEF Matches

\* Any scope but a span or an activation leaves the thread's state alone ...
LEMMA MatchesPush ==
    ASSUME NEW s, NEW r, NEW n \in Nat, NEW state \in ThreadStates,
           Matches(s, n, state), \A i \in 1 .. n : r[i] = s[i],
           r[n + 1].kind \notin {"activation", "span"}
    PROVE  Matches(r, n + 1, state)
<1>1. PICK from \in 0 .. n : MatchesSince(s, n, state, from)
  BY DEF Matches
<1>2. Len(state.stack) \in Nat
  BY DEF ThreadStates
<1>3. MatchesSince(r, n + 1, state, from)
  BY <1>1, <1>2 DEF MatchesSince
<1> QED
  BY <1>3 DEF Matches

\* ... when it is opened and when it is closed.
LEMMA MatchesPop ==
    ASSUME NEW s, NEW n \in Nat, NEW state \in ThreadStates,
           Matches(s, n + 1, state), s[n + 1].kind \notin {"activation", "span"}
    PROVE  Matches(s, n, state)
<1>1. PICK from \in 0 .. n + 1 : MatchesSince(s, n + 1, state, from)
  BY DEF Matches
<1>2. Len(state.stack) \in Nat
  BY DEF ThreadStates
<1>3. from # n + 1
  BY <1>1 DEF MatchesSince
<1>4. MatchesSince(s, n, state, from)
  BY <1>1, <1>2, <1>3 DEF MatchesSince
<1> QED
  BY <1>3, <1>4 DEF Matches

\* The innermost span is on top of the stack ...
LEMMA SpanOnTop ==
    ASSUME NEW s, NEW n \in Nat \ {0}, NEW state \in ThreadStates,
           NEW from \in 0 .. n, MatchesSince(s, n, state, from), s[n].kind = "span"
    PROVE  /\ Len(state.stack) \in Nat \ {0} /\ n = from + Len(state.stack)
           /\ state.stack # <<>> /\ Last(state.stack) = s[n].id /\ s[n].run = state.run
<1>1. Len(state.stack) \in Nat /\ state.stack \in Seq(Nat)
  BY DEF ThreadStates
<1>2. from # n
  BY DEF MatchesSince
<1>3. n \in from + 1 .. n
  BY <1>2
<1>4. n = from + Len(state.stack)
  BY <1>1, <1>3 DEF MatchesSince
<1>5. s[n].id = state.stack[n - from] /\ s[n].run = state.run
  BY <1>3 DEF MatchesSince
<1>6. n - from = Len(state.stack)
  BY <1>1, <1>4
<1> QED
  BY <1>1, <1>2, <1>4, <1>5, <1>6 DEF Last

\* ... and another one goes on top of it ...
LEMMA MatchesSpan ==
    ASSUME NEW s, NEW r, NEW n \in Nat \ {0}, NEW state \in ThreadStates, NEW id \in Nat,
           Matches(s, n, state), \A i \in 1 .. n : r[i] = s[i],
           s[n].kind = "span", r[n + 1].kind = "span", r[n + 1].id = id,
           r[n + 1].run = state.run
    PROVE  Matches(r, n + 1, [state EXCEPT !.stack = Append(@, id)])
<1>1. PICK from \in 0 .. n : MatchesSince(s, n, state, from)
  BY DEF Matches
<1>2. state.stack \in Seq(Nat) /\ Len(state.stack) \in Nat \ {0}
      /\ n = from + Len(state.stack)
  BY <1>1, SpanOnTop DEF ThreadStates
<1>3. PICK m \in Nat \ {0} : m = Len(state.stack) /\ n = from + m
  BY <1>2
<1>4. PICK new : new = [state EXCEPT !.stack = Append(@, id)]
  OBVIOUS
<1>5. new.run = state.run /\ new.stack = Append(state.stack, id)
  BY <1>4 DEF ThreadStates
<1>6. /\ Len(new.stack) = m + 1 /\ new.stack[m + 1] = id
      /\ \A k \in 1 .. m : new.stack[k] = state.stack[k]
  BY <1>2, <1>3, <1>5
<1>7. ASSUME NEW i \in from + 1 .. n + 1
      PROVE  /\ r[i].kind = "span" /\ i <= from + (m + 1)
             /\ r[i].id = new.stack[i - from] /\ r[i].run = new.run
  <2>1. CASE i = n + 1
    <3>1. i - from = m + 1 /\ i <= from + (m + 1)
      BY <1>3, <2>1
    <3> QED
      BY <1>5, <1>6, <2>1, <3>1
  <2>2. CASE i # n + 1
    <3>1. /\ i \in from + 1 .. n /\ i \in 1 .. n /\ i - from \in 1 .. m
          /\ i <= from + m /\ i <= from + (m + 1)
      BY <1>3, <2>2
    <3>2. s[i].kind = "span" /\ s[i].id = state.stack[i - from] /\ s[i].run = state.run
      BY <1>1, <1>3, <3>1 DEF MatchesSince
    <3> QED
      BY <1>5, <1>6, <3>1, <3>2
  <2> QED
    BY <2>1, <2>2
<1>8. MatchesSince(r, n + 1, new, from)
  <2>1. (from = 0 \/ r[from].kind = "activation")
        /\ new.run = IF from = 0 THEN Unset ELSE r[from].run
    BY <1>1, <1>5 DEF MatchesSince
  <2>2. from + (m + 1) <= n + 1
    BY <1>3
  <2> QED
    BY <1>6, <1>7, <2>1, <2>2 DEF MatchesSince
<1> QED
  BY <1>4, <1>8 DEF Matches

\* ... until it goes from there.
LEMMA MatchesClose ==
    ASSUME NEW s, NEW n \in Nat, NEW state \in ThreadStates, NEW new,
           Matches(s, n + 1, state), s[n + 1].kind = "span",
           new.run = state.run, new.stack = Front(state.stack)
    PROVE  Matches(s, n, new)
<1>1. PICK from \in 0 .. n + 1 : MatchesSince(s, n + 1, state, from)
  BY DEF Matches
<1>2. /\ Len(state.stack) \in Nat \ {0} /\ state.stack \in Seq(Nat)
      /\ n + 1 = from + Len(state.stack) /\ state.stack # <<>>
  <2>1. state.stack \in Seq(Nat)
    BY DEF ThreadStates
  <2>2. n + 1 \in Nat \ {0}
    OBVIOUS
  <2>3. Len(state.stack) \in Nat \ {0} /\ n + 1 = from + Len(state.stack)
    BY <1>1, <2>2, SpanOnTop
  <2>4. state.stack # <<>>
    BY <2>1, <2>3
  <2> QED
    BY <2>1, <2>3, <2>4
<1>3. PICK m \in Nat : m + 1 = Len(state.stack) /\ n = from + m
  <2>1. PICK l \in Nat \ {0} : l = Len(state.stack) /\ n + 1 = from + l
    BY <1>2
  <2>2. l - 1 \in Nat /\ (l - 1) + 1 = l /\ n = from + (l - 1)
    BY <2>1
  <2> QED
    BY <2>1, <2>2
<1>4. Len(new.stack) = m /\ \A k \in 1 .. m : new.stack[k] = state.stack[k]
  <2>1. /\ Len(Front(state.stack)) = Len(state.stack) - 1
        /\ \A k \in 1 .. Len(state.stack) - 1 : Front(state.stack)[k] = state.stack[k]
    BY <1>2, Popped
  <2>2. Len(state.stack) - 1 = m
    BY <1>3
  <2> QED
    BY <2>1, <2>2
<1>5. ASSUME NEW i \in from + 1 .. n
      PROVE  /\ s[i].kind = "span" /\ i <= from + m
             /\ s[i].id = new.stack[i - from] /\ s[i].run = new.run
  <2>1. /\ i \in from + 1 .. n + 1 /\ i - from \in 1 .. m
        /\ i <= from + m /\ i <= from + (m + 1)
    BY <1>3
  <2>2. s[i].kind = "span" /\ s[i].id = state.stack[i - from] /\ s[i].run = state.run
    BY <1>1, <1>3, <2>1 DEF MatchesSince
  <2> QED
    BY <1>4, <2>1, <2>2
<1>6. MatchesSince(s, n, new, from)
  <2>1. (from = 0 \/ s[from].kind = "activation")
        /\ new.run = IF from = 0 THEN Unset ELSE s[from].run
    BY <1>1 DEF MatchesSince
  <2>2. from + m <= n
    BY <1>3
  <2> QED
    BY <1>4, <1>5, <2>1, <2>2 DEF MatchesSince
<1>7. from \in 0 .. n
  BY <1>3
<1> QED
  BY <1>6, <1>7 DEF Matches

\* An activation and the span inside it start over with that span.
LEMMA MatchesEnter ==
    ASSUME NEW r, NEW n \in Nat, NEW run \in Nat, NEW id \in Nat,
           r[n + 1].kind = "activation", r[n + 1].run = run,
           r[n + 2].kind = "span", r[n + 2].run = run, r[n + 2].id = id
    PROVE  Matches(r, n + 2, [run |-> run, stack |-> <<id>>])
<1>1. PICK state : state = [run |-> run, stack |-> <<id>>]
  OBVIOUS
<1>2. state.run = run /\ Len(state.stack) = 1 /\ state.stack[1] = id
  BY <1>1
<1>3. MatchesSince(r, n + 2, state, n + 1)
  <2>1. ASSUME NEW i \in n + 1 + 1 .. n + 2 PROVE i = n + 2 /\ i - (n + 1) = 1
    OBVIOUS
  <2> QED
    BY <1>2, <2>1 DEF MatchesSince
<1> QED
  BY <1>1, <1>3 DEF Matches

-----------------------------------------------------------------------------
(* What a step does to the scopes of its thread, element by element *)

\* A scope record is one.
LEMMA ScopeTyped ==
    ASSUME NEW kind \in Kinds, NEW id \in Nat, NEW run \in Nat, NEW parent \in Nat,
           NEW task \in Tasks \cup {NoTask}
    PROVE  /\ Scope(kind, id, run, parent, task) \in ScopeRecords
           /\ Scope(kind, id, run, parent, task).kind = kind
           /\ Scope(kind, id, run, parent, task).id = id
           /\ Scope(kind, id, run, parent, task).run = run
           /\ Scope(kind, id, run, parent, task).parent = parent
           /\ Scope(kind, id, run, parent, task).task = task
  BY DEF Scope, ScopeRecords, ThreadStates, NoTls, Unset

\* A thread that has an innermost scope has scopes.
LEMMA InnermostIs ==
    ASSUME TypeOK, NEW t \in Threads, Innermost(t) \in Kinds
    PROVE  /\ scopes[t] \in Seq(ScopeRecords) /\ scopes[t] # <<>>
           /\ Last(scopes[t]) \in ScopeRecords /\ Last(scopes[t]).kind = Innermost(t)
           /\ Len(scopes[t]) \in Nat \ {0} /\ Last(scopes[t]) = scopes[t][Len(scopes[t])]
<1>1. scopes[t] \in Seq(ScopeRecords)
  BY DEF TypeOK
<1>2. scopes[t] # <<>> /\ Last(scopes[t]).kind = Innermost(t)
  BY DEF Innermost, Kinds
<1> QED
  BY <1>1, <1>2, Popped

\* CurrentSpanId is an id.
LEMMA CurrentTyped ==
    ASSUME TypeOK, NEW t \in Threads
    PROVE  CurrentSpanId(t) \in Nat /\ tls[t].run \in Nat
<1>1. tls[t].run \in Nat /\ tls[t].stack \in Seq(Nat)
  BY DEF TypeOK, ThreadStates
<1>2. CASE tls[t].stack = <<>>
  BY <1>1, <1>2 DEF CurrentSpanId, Unset
<1>3. CASE tls[t].stack # <<>>
  <2>1. Last(tls[t].stack) \in Nat
    BY <1>1, <1>3, Popped
  <2> QED
    BY <1>1, <1>3, <2>1 DEF CurrentSpanId
<1> QED
  BY <1>2, <1>3

\* A scope is opened.
LEMMA OpenFacts ==
    ASSUME TypeOK, NEW t \in Threads, NEW e \in ScopeRecords, Open(t, e)
    PROVE  /\ scopes' \in [Threads -> Seq(ScopeRecords)]
           /\ \A u \in Threads \ {t} : scopes'[u] = scopes[u]
           /\ DOMAIN scopes[t] = 1 .. Len(scopes[t]) /\ Len(scopes[t]) \in Nat
           /\ DOMAIN scopes'[t] = 1 .. Len(scopes[t]) + 1
           /\ Len(scopes'[t]) = Len(scopes[t]) + 1 /\ Last(scopes'[t]) = e
           /\ scopes'[t][Len(scopes[t]) + 1] = e /\ scopes'[t] # <<>>
           /\ \A i \in 1 .. Len(scopes[t]) : scopes'[t][i] = scopes[t][i]
<1>1. scopes \in [Threads -> Seq(ScopeRecords)]
  BY DEF TypeOK
<1>2. scopes'[t] = Append(scopes[t], e) /\ \A u \in Threads \ {t} : scopes'[u] = scopes[u]
  BY <1>1 DEF Open
<1>3. PICK s \in Seq(ScopeRecords) : s = scopes[t]
  BY <1>1
<1>4. PICK r : r = Append(s, e)
  OBVIOUS
<1>5. /\ r \in Seq(ScopeRecords) /\ Len(r) = Len(s) + 1 /\ DOMAIN r = 1 .. Len(s) + 1
      /\ DOMAIN s = 1 .. Len(s) /\ Len(s) \in Nat /\ r[Len(s) + 1] = e
      /\ \A i \in 1 .. Len(s) : r[i] = s[i]
  BY <1>4, Pushed
<1>6. scopes' \in [Threads -> Seq(ScopeRecords)]
  BY <1>1, <1>3, <1>4, <1>5 DEF Open
<1>7. Last(r) = e /\ r # <<>>
  BY <1>5 DEF Last
<1> QED
  BY <1>2, <1>3, <1>4, <1>5, <1>6, <1>7

\* The innermost scope is closed.
LEMMA CloseFacts ==
    ASSUME TypeOK, NEW t \in Threads, scopes[t] # <<>>, Close(t)
    PROVE  /\ scopes' \in [Threads -> Seq(ScopeRecords)]
           /\ \A u \in Threads \ {t} : scopes'[u] = scopes[u]
           /\ DOMAIN scopes[t] = 1 .. Len(scopes[t]) /\ Len(scopes[t]) \in Nat \ {0}
           /\ DOMAIN scopes'[t] = 1 .. Len(scopes[t]) - 1
           /\ Len(scopes'[t]) = Len(scopes[t]) - 1
           /\ \A i \in 1 .. Len(scopes[t]) - 1 : scopes'[t][i] = scopes[t][i]
<1>1. scopes \in [Threads -> Seq(ScopeRecords)]
  BY DEF TypeOK
<1>2. scopes'[t] = Front(scopes[t]) /\ \A u \in Threads \ {t} : scopes'[u] = scopes[u]
  BY <1>1 DEF Close
<1>3. PICK s \in Seq(ScopeRecords) : s = scopes[t]
  BY <1>1
<1>4. PICK r : r = Front(s)
  OBVIOUS
<1>5. /\ r \in Seq(ScopeRecords) /\ Len(r) = Len(s) - 1 /\ DOMAIN r = 1 .. Len(s) - 1
      /\ DOMAIN s = 1 .. Len(s) /\ Len(s) \in Nat \ {0}
      /\ \A i \in 1 .. Len(s) - 1 : r[i] = s[i]
  BY <1>3, <1>4, Popped
<1>6. scopes' \in [Threads -> Seq(ScopeRecords)]
  BY <1>1, <1>3, <1>4, <1>5 DEF Close
<1> QED
  BY <1>2, <1>3, <1>4, <1>5, <1>6

\* An event is recorded.
LEMMA RecordFacts ==
    ASSUME TypeOK, NEW e \in ScopeRecords, Record(e)
    PROVE  /\ events' \in Seq(EventRecords) /\ Len(events') = Len(events) + 1
           /\ DOMAIN events = 1 .. Len(events) /\ Len(events) \in Nat
           /\ DOMAIN events' = 1 .. Len(events) + 1
           /\ \A i \in 1 .. Len(events) : events'[i] = events[i]
           /\ events'[Len(events) + 1].event = e.kind /\ events'[Len(events) + 1].span = e.id
           /\ events'[Len(events) + 1].run = e.run /\ events'[Len(events) + 1].task = e.task
           /\ events'[Len(events) + 1].parent = e.parent
<1>1. PICK ev \in EventRecords :
        ev = [event |-> e.kind, span |-> e.id, run |-> e.run, parent |-> e.parent,
              task |-> e.task]
  BY DEF EventRecords, ScopeRecords
<1>2. events' = Append(events, ev) /\ events \in Seq(EventRecords)
  BY <1>1 DEF Record, TypeOK
<1>3. /\ ev.event = e.kind /\ ev.span = e.id /\ ev.run = e.run /\ ev.parent = e.parent
      /\ ev.task = e.task
  BY <1>1
<1> QED
  BY <1>2, <1>3, Pushed

\* An activation and the span inside it are opened.
LEMMA EnterFacts ==
    ASSUME TypeOK, NEW t \in Threads, NEW run \in Nat, NEW parent \in Nat,
           NEW task \in Tasks \cup {NoTask}, Enter(t, run, parent, task)
    PROVE  /\ scopes' \in [Threads -> Seq(ScopeRecords)]
           /\ \A u \in Threads \ {t} : scopes'[u] = scopes[u]
           /\ DOMAIN scopes[t] = 1 .. Len(scopes[t]) /\ Len(scopes[t]) \in Nat
           /\ DOMAIN scopes'[t] = 1 .. Len(scopes[t]) + 2
           /\ Len(scopes'[t]) = Len(scopes[t]) + 2
           /\ \A i \in 1 .. Len(scopes[t]) : scopes'[t][i] = scopes[t][i]
           /\ scopes'[t][Len(scopes[t]) + 1].kind = "activation"
           /\ scopes'[t][Len(scopes[t]) + 1].id = Unset
           /\ scopes'[t][Len(scopes[t]) + 1].run = run
           /\ scopes'[t][Len(scopes[t]) + 1].task = task
           /\ scopes'[t][Len(scopes[t]) + 1].saved = tls[t]
           /\ scopes'[t][Len(scopes[t]) + 2].kind = "span"
           /\ scopes'[t][Len(scopes[t]) + 2].id = span_counter + 1
           /\ scopes'[t][Len(scopes[t]) + 2].run = run
           /\ scopes'[t][Len(scopes[t]) + 2].parent = parent
           /\ scopes'[t][Len(scopes[t]) + 2].task = task
           /\ span_counter' = span_counter + 1
           /\ tls' = [tls EXCEPT ![t] = [run |-> run, stack |-> <<span_counter + 1>>]]
<1>1. /\ scopes \in [Threads -> Seq(ScopeRecords)] /\ span_counter \in Nat
      /\ tls[t] \in ThreadStates
  BY DEF TypeOK
<1>2. PICK a : a = [Scope("activation", Unset, run, Unset, task) EXCEPT !.saved = tls[t]]
  OBVIOUS
<1>3. a \in ScopeRecords
  BY <1>1, <1>2 DEF Scope, ScopeRecords, Kinds, Unset
<1>4. PICK b \in ScopeRecords : b = Scope("span", span_counter + 1, run, parent, task)
  BY <1>1, ScopeTyped DEF Kinds
<1>5. /\ span_counter' = span_counter + 1
      /\ scopes' = [scopes EXCEPT ![t] = @ \o <<a, b>>]
  BY <1>2, <1>4 DEF Enter, Activated, Unset
<1>6. tls' = [tls EXCEPT ![t] = [run |-> run, stack |-> <<span_counter + 1>>]]
  <2>1. [[run |-> run, stack |-> <<>>] EXCEPT !.stack = Append(@, span_counter + 1)]
          = [run |-> run, stack |-> <<span_counter + 1>>]
    OBVIOUS
  <2> QED
    BY <2>1 DEF Enter, Activated
<1>7. PICK s \in Seq(ScopeRecords) : s = scopes[t]
  BY <1>1
<1>8. PICK r : r = s \o <<a, b>>
  OBVIOUS
<1>9. /\ r \in Seq(ScopeRecords) /\ Len(r) = Len(s) + 2 /\ DOMAIN r = 1 .. Len(s) + 2
      /\ DOMAIN s = 1 .. Len(s) /\ Len(s) \in Nat
      /\ r[Len(s) + 1] = a /\ r[Len(s) + 2] = b
      /\ \A i \in 1 .. Len(s) : r[i] = s[i]
  BY <1>3, <1>4, <1>8
<1>10. scopes'[t] = r /\ \A u \in Threads \ {t} : scopes'[u] = scopes[u]
  BY <1>1, <1>5, <1>7, <1>8
<1>11. scopes' \in [Threads -> Seq(ScopeRecords)]
  BY <1>1, <1>5, <1>7, <1>8, <1>9
<1>12. /\ a.kind = "activation" /\ a.id = Unset /\ a.run = run /\ a.task = task
       /\ a.saved = tls[t]
  BY <1>2 DEF Scope
<1>13. /\ b.kind = "span" /\ b.id = span_counter + 1 /\ b.run = run
       /\ b.parent = parent /\ b.task = task
  BY <1>4 DEF Scope
<1> QED
  BY <1>5, <1>6, <1>7, <1>9, <1>10, <1>11, <1>12, <1>13

\* The innermost scope, a submission, has been recorded and is handed over next.
LEMMA AppendSubmittedFacts ==
    ASSUME TypeOK, NEW t \in Threads, AppendSubmitted(t)
    PROVE  /\ scopes' \in [Threads -> Seq(ScopeRecords)]
           /\ \A u \in Threads \ {t} : scopes'[u] = scopes[u]
           /\ DOMAIN scopes[t] = 1 .. Len(scopes[t]) /\ Len(scopes[t]) \in Nat \ {0}
           /\ DOMAIN scopes'[t] = 1 .. Len(scopes[t]) /\ Len(scopes'[t]) = Len(scopes[t])
           /\ \A i \in 1 .. Len(scopes[t]) - 1 : scopes'[t][i] = scopes[t][i]
           /\ scopes[t][Len(scopes[t])].kind = "submitted"
           /\ scopes'[t][Len(scopes[t])] =
                [scopes[t][Len(scopes[t])] EXCEPT !.kind = "submit"]
           /\ scopes[t] # <<>> /\ scopes'[t] # <<>> /\ Record(Last(scopes[t]))
           /\ Last(scopes[t]) \in ScopeRecords
           /\ Last(scopes[t]) = scopes[t][Len(scopes[t])]
           /\ Last(scopes'[t]) = scopes'[t][Len(scopes[t])]
<1>1. scopes \in [Threads -> Seq(ScopeRecords)]
  BY DEF TypeOK
<1>2. /\ scopes[t] # <<>> /\ Last(scopes[t]).kind = "submitted" /\ Last(scopes[t]) \in ScopeRecords
      /\ Last(scopes[t]) = scopes[t][Len(scopes[t])]
  BY InnermostIs DEF AppendSubmitted, Kinds
<1>3. PICK s \in Seq(ScopeRecords) : s = scopes[t]
  BY <1>1
<1>4. PICK e : e = [Last(s) EXCEPT !.kind = "submit"]
  OBVIOUS
<1>5. e \in ScopeRecords
  BY <1>2, <1>3, <1>4 DEF ScopeRecords, Kinds
<1>6. PICK f \in Seq(ScopeRecords) : f = Front(s)
  BY <1>2, <1>3, Popped
<1>7. PICK r : r = Append(f, e)
  OBVIOUS
<1>8. /\ Len(s) \in Nat \ {0} /\ DOMAIN s = 1 .. Len(s)
      /\ Len(f) = Len(s) - 1 /\ \A i \in 1 .. Len(s) - 1 : f[i] = s[i]
  BY <1>2, <1>3, <1>6, Popped
<1>9. /\ r \in Seq(ScopeRecords) /\ Len(r) = Len(f) + 1 /\ DOMAIN r = 1 .. Len(f) + 1
      /\ r[Len(f) + 1] = e /\ \A i \in 1 .. Len(f) : r[i] = f[i]
  BY <1>5, <1>7, Pushed
<1>10. Len(f) + 1 = Len(s)
  BY <1>8
<1>11. /\ DOMAIN r = 1 .. Len(s) /\ Len(r) = Len(s) /\ r[Len(s)] = e
       /\ \A i \in 1 .. Len(s) - 1 : r[i] = s[i]
  BY <1>8, <1>9, <1>10
<1>12. scopes' = [scopes EXCEPT ![t] = r] /\ Record(Last(scopes[t]))
  BY <1>3, <1>4, <1>6, <1>7 DEF AppendSubmitted
<1>13. scopes' \in [Threads -> Seq(ScopeRecords)]
  BY <1>1, <1>9, <1>12
<1>14. scopes'[t] = r /\ \A u \in Threads \ {t} : scopes'[u] = scopes[u]
  BY <1>1, <1>12
<1>15. r # <<>> /\ Last(r) = r[Len(s)]
  BY <1>8, <1>9, <1>11 DEF Last
<1> QED
  BY <1>2, <1>3, <1>4, <1>8, <1>11, <1>12, <1>13, <1>14, <1>15

-----------------------------------------------------------------------------
(* The steps, by what they do to scopes and events *)

\* A parent that a new span or instant may have.
Rooted(parent, run) == parent # Unset => Opened(parent, run)

Enters(t) ==
    /\ scopes[t] = <<>> \/ Innermost(t) = "span"
    /\ \E run, parent \in Nat, task \in Tasks \cup {NoTask} :
          Enter(t, run, parent, task) /\ Rooted(parent, run) /\ UNCHANGED events

\* An instant's id has been taken.
OpensTop(t, e) ==
    /\ Innermost(t) = "span"
    /\ e.kind \in {"instant", "submitted", "completed", "error"}
    /\ e.id = span_counter + 1 /\ Rooted(e.parent, e.run)
    /\ Open(t, e) /\ span_counter' = span_counter + 1
    /\ UNCHANGED <<tls, events>>

RecordsTop(t) ==
    /\ Innermost(t) \in {"instant", "completed", "error"}
    /\ Record(Last(scopes[t])) /\ Close(t)
    /\ UNCHANGED <<tls, span_counter>>

DropsTop(t) ==
    /\ Innermost(t) \in {"submit", "flush"}
    /\ Close(t)
    /\ UNCHANGED <<tls, span_counter, events>>

Rests == UNCHANGED <<tls, scopes, span_counter, events>>

StepShape ==
    \/ \E t \in Threads :
          \/ Enters(t) \/ \E e \in ScopeRecords : OpensTop(t, e)
          \/ OpenSpan(t) /\ Rooted(CurrentSpanId(t), tls[t].run)
          \/ RecordsTop(t) \/ CloseSpan(t) \/ CloseActivation(t) \/ DropsTop(t)
    \/ \E c \in Clients : AppendSubmitted(c) \/ WaitAllReturn(c)
    \/ Rests

\* A span that is open has been opened.
LEMMA OpenIsOpened ==
    ASSUME NEW t \in Threads, NEW i \in DOMAIN scopes[t], scopes[t][i].id # Unset
    PROVE  /\ [span |-> scopes[t][i].id, run |-> scopes[t][i].run,
               parent |-> scopes[t][i].parent] \in Known
           /\ Opened(scopes[t][i].id, scopes[t][i].run)
<1>1. scopes[t][i] \in {r \in UNION {OpenScopes(u) : u \in Threads} : r.id # Unset}
  BY DEF OpenScopes, ToSet
<1>2. [span |-> scopes[t][i].id, run |-> scopes[t][i].run,
       parent |-> scopes[t][i].parent] \in Known
  BY <1>1 DEF Known
<1> QED
  BY <1>2 DEF Opened

\* What CurrentSpanId returns under an innermost span is that span, of the
\* thread's run.
LEMMA CurrentIsInnermost ==
    ASSUME Inductive, NEW t \in Threads, Innermost(t) = "span"
    PROVE  /\ CurrentSpanId(t) = Last(scopes[t]).id /\ Last(scopes[t]).run = tls[t].run
           /\ Opened(CurrentSpanId(t), tls[t].run)
<1>1. TypeOK /\ Nested /\ IdsKnown
  BY DEF Inductive
<1>2. /\ Len(scopes[t]) \in Nat \ {0} /\ Last(scopes[t]).kind = "span"
      /\ Last(scopes[t]) = scopes[t][Len(scopes[t])] /\ scopes[t] \in Seq(ScopeRecords)
  BY <1>1, InnermostIs DEF Kinds
<1>3. PICK from \in 0 .. Len(scopes[t]) :
        MatchesSince(scopes[t], Len(scopes[t]), tls[t], from)
  BY <1>1 DEF Nested, NestedIn, Matches
<1>4. tls[t] \in ThreadStates
  BY <1>1 DEF TypeOK
<1>5. /\ tls[t].stack # <<>> /\ Last(tls[t].stack) = scopes[t][Len(scopes[t])].id
      /\ scopes[t][Len(scopes[t])].run = tls[t].run
  BY <1>2, <1>3, <1>4, SpanOnTop
<1>6. Len(scopes[t]) \in DOMAIN scopes[t]
  BY <1>2
<1>7. scopes[t][Len(scopes[t])].id # Unset
  BY <1>1, <1>2, <1>6 DEF IdsKnown
<1> QED
  BY <1>2, <1>5, <1>6, <1>7, OpenIsOpened DEF CurrentSpanId

\* Every step has one of these shapes.
LEMMA NextShape ==
    ASSUME Inductive, [Next]_vars
    PROVE  StepShape
<1> USE DEF Threads
<1>1. TypeOK
  BY DEF Inductive
<1>2. span_counter + 1 \in Nat /\ run_counter + 1 \in Nat /\ Unset \in Nat
  BY <1>1 DEF TypeOK, Unset
<1>3. ASSUME NEW t \in Threads, NEW kind \in {"instant", "submitted", "completed", "error"},
             NEW run \in Nat, NEW parent \in Nat, NEW task \in Tasks \cup {NoTask},
             TakeInstantId(t, kind, run, parent, task), Rooted(parent, run),
             Innermost(t) = "span",
             UNCHANGED <<tls, events>>
      PROVE  \E e \in ScopeRecords : OpensTop(t, e)
  <2>1. PICK e : e = Scope(kind, span_counter + 1, run, parent, task)
    OBVIOUS
  <2>2. /\ e \in ScopeRecords /\ e.kind = kind /\ e.id = span_counter + 1
        /\ e.run = run /\ e.parent = parent
    <3>1. kind \in Kinds /\ span_counter + 1 \in Nat
      BY <1>2 DEF Kinds
    <3> QED
      BY <2>1, <3>1, ScopeTyped
  <2> QED
    BY <1>3, <2>1, <2>2 DEF OpensTop, TakeInstantId
<1>4. ASSUME NEW t \in Threads, OpenSpan(t)
      PROVE  Rooted(CurrentSpanId(t), tls[t].run)
  BY <1>4, CurrentIsInnermost DEF OpenSpan, MayOpen, Rooted
<1>5. ASSUME NEW t \in Threads, RecordInstant(t)
      PROVE  \E e \in ScopeRecords : OpensTop(t, e)
  <2>1. Rooted(CurrentSpanId(t), tls[t].run)
    BY <1>5, CurrentIsInnermost DEF RecordInstant, MayOpen, Rooted
  <2>2. CurrentSpanId(t) \in Nat /\ tls[t].run \in Nat
    BY <1>1, CurrentTyped
  <2>3. /\ TakeInstantId(t, "instant", tls[t].run, CurrentSpanId(t), NoTask)
        /\ Innermost(t) = "span" /\ UNCHANGED <<tls, events>>
    BY <1>5 DEF RecordInstant, MayOpen
  <2> QED
    BY <1>3, <2>1, <2>2, <2>3
<1>6. ASSUME NEW c \in Clients, NEW task \in Tasks, AnnounceTask(c, task)
      PROVE  \E e \in ScopeRecords : OpensTop(c, e)
  <2>1. Rooted(CurrentSpanId(c), tls[c].run)
    BY <1>6, CurrentIsInnermost DEF AnnounceTask, Rooted
  <2>2. CurrentSpanId(c) \in Nat /\ tls[c].run \in Nat
    BY <1>1, CurrentTyped
  <2>3. /\ TakeInstantId(c, "submitted", tls[c].run, CurrentSpanId(c), task)
        /\ Innermost(c) = "span" /\ UNCHANGED <<tls, events>>
    BY <1>6 DEF AnnounceTask
  <2> QED
    BY <1>3, <2>1, <2>2, <2>3
<1>7. ASSUME NEW w \in Workers, EndCompile(w)
      PROVE  \E e \in ScopeRecords : OpensTop(w, e)
  <2>1. WorkerAt(w) /\ scopes[w] \in Seq(ScopeRecords) /\ Len(scopes[w]) = 2
    BY <1>1, <1>7 DEF Inductive, TypeOK, EndCompile
  <2>2. 2 \in DOMAIN scopes[w] /\ Last(scopes[w]) = scopes[w][2] /\ scopes[w] # <<>>
    BY <2>1 DEF Last
  <2>3. scopes[w][2].kind = "span" /\ scopes[w][2] \in ScopeRecords
    BY <2>1, <2>2 DEF WorkerAt, WorkerStack
  <2>4. Innermost(w) = "span"
    BY <2>2, <2>3 DEF Innermost
  <2>5. PICK own \in ScopeRecords : own = Last(scopes[w])
    BY <2>2, <2>3
  <2>6. own.id # Unset
    BY <2>2, <2>3, <2>5 DEF Inductive, IdsKnown
  <2>7. [span |-> own.id, run |-> own.run, parent |-> own.parent] \in Known
    BY <2>2, <2>5, <2>6, OpenIsOpened
  <2>8. Rooted(own.parent, own.run)
    <3> DEFINE k == [span |-> own.id, run |-> own.run, parent |-> own.parent]
    <3>1. k \in Known /\ k.parent = own.parent /\ k.run = own.run
      BY <2>7
    <3> HIDE DEF k
    <3> QED
      BY <3>1 DEF Inductive, Lineage, ParentInRun, Rooted, Opened
  <2>9. Rooted(CurrentSpanId(w), own.run) /\ CurrentSpanId(w) \in Nat
    BY <1>1, <2>4, <2>5, CurrentIsInnermost, CurrentTyped DEF Rooted
  <2>10. own.run \in Nat /\ own.parent \in Nat /\ own.task \in Tasks \cup {NoTask}
    BY DEF ScopeRecords
  <2>11. /\ \/ TakeInstantId(w, "completed", own.run, own.parent, own.task)
            \/ TakeInstantId(w, "error", own.run, CurrentSpanId(w), own.task)
         /\ UNCHANGED <<tls, events>>
    BY <1>7, <2>5 DEF EndCompile
  <2> QED
    BY <1>3, <2>4, <2>8, <2>9, <2>10, <2>11
<1>8. ASSUME NEW t \in Clients, BeginCall(t) PROVE Enters(t)
  BY <1>2, <1>8 DEF BeginCall, Enters, Rooted, MayOpen
<1>9. ASSUME NEW w \in Workers, BeginCompile(w) PROVE Enters(w)
  <2>1. WorkerAt(w) /\ phase[w] = "compile" /\ scopes[w] \in Seq(ScopeRecords)
    BY <1>1, <1>9 DEF Inductive, BeginCompile, TypeOK
  <2>2. Len(scopes[w]) = 2 /\ scopes[w] # <<>>
    BY <2>1 DEF WorkerAt, WorkerStack
  <2>3. scopes[w][2].kind = "span"
    BY <2>1, <2>2 DEF WorkerAt, WorkerStack
  <2>4. Innermost(w) = "span"
    BY <2>2, <2>3 DEF Innermost, Last
  <2> QED
    BY <1>2, <1>9, <2>4 DEF BeginCompile, Enters, Rooted
<1>10. ASSUME NEW w \in Workers, NEW q \in queue, StartTask(w, q) PROVE Enters(w)
  <2>1. q.run \in Nat /\ q.parent \in Nat /\ q.task \in Tasks \cup {NoTask}
    BY <1>1 DEF TypeOK, Requests
  <2>2. Rooted(q.parent, q.run)
    BY DEF Inductive, Lineage, Rooted
  <2> QED
    BY <1>10, <2>1, <2>2 DEF StartTask, Enters, Inductive, WorkerAt, WorkerStack
<1>11. ASSUME NEW t \in Threads, AppendInstant(t) PROVE RecordsTop(t)
  BY <1>11 DEF AppendInstant, RecordsTop
<1>12. ASSUME NEW t \in Workers, AppendOutcome(t) PROVE RecordsTop(t)
  BY <1>12 DEF AppendOutcome, RecordsTop
<1>13. ASSUME NEW t \in Clients, Submit(t) \/ WaitAllFlush(t) PROVE DropsTop(t)
  BY <1>13 DEF Submit, WaitAllFlush, DropsTop
<1>14. ASSUME \/ \E t \in Threads : Flush(t)
              \/ \E w \in Workers : Settle(w)
              \/ DestroySession \/ DestroyContext \/ Destroyed \/ UNCHANGED vars
       PROVE  Rests
  BY <1>14 DEF Flush, Settle, DestroySession, DestroyContext, Destroyed, vars, Rests
<1> QED
  BY <1>4, <1>5, <1>6, <1>7, <1>8, <1>9, <1>10, <1>11, <1>12, <1>13, <1>14
     DEF Next, StepShape

\* Every step keeps the types.
LEMMA ShapeTyped ==
    ASSUME TypeOK, StepShape
    PROVE  /\ scopes' \in [Threads -> Seq(ScopeRecords)]
           /\ tls' \in [Threads -> ThreadStates]
           /\ span_counter' \in Nat /\ events' \in Seq(EventRecords)
<1> USE DEF Threads
<1> DEFINE Goal == /\ scopes' \in [Threads -> Seq(ScopeRecords)]
                   /\ tls' \in [Threads -> ThreadStates]
                   /\ span_counter' \in Nat /\ events' \in Seq(EventRecords)
<1>1. /\ span_counter \in Nat /\ span_counter + 1 \in Nat /\ events \in Seq(EventRecords)
      /\ tls \in [Threads -> ThreadStates] /\ scopes \in [Threads -> Seq(ScopeRecords)]
  BY DEF TypeOK
<1>2. ASSUME NEW t \in Threads, Enters(t) PROVE Goal
  <2>1. PICK run \in Nat, parent \in Nat, task \in Tasks \cup {NoTask} :
          Enter(t, run, parent, task) /\ UNCHANGED events
    BY <1>2 DEF Enters
  <2>2. [run |-> run, stack |-> <<span_counter + 1>>] \in ThreadStates
    BY <1>1 DEF ThreadStates
  <2>3. /\ scopes' \in [Threads -> Seq(ScopeRecords)] /\ span_counter' = span_counter + 1
        /\ tls' = [tls EXCEPT ![t] = [run |-> run, stack |-> <<span_counter + 1>>]]
    BY <2>1, EnterFacts
  <2> QED
    BY <1>1, <2>1, <2>2, <2>3
<1>3. ASSUME NEW t \in Threads, NEW e \in ScopeRecords, OpensTop(t, e) PROVE Goal
  <2>1. /\ Open(t, e) /\ span_counter' = span_counter + 1 /\ tls' = tls /\ events' = events
    BY <1>3 DEF OpensTop
  <2>2. scopes' \in [Threads -> Seq(ScopeRecords)]
    BY <2>1, OpenFacts
  <2> QED
    BY <1>1, <2>1, <2>2
<1>4. ASSUME NEW t \in Threads, OpenSpan(t) PROVE Goal
  <2>1. PICK e : e = Scope("span", span_counter + 1, tls[t].run, CurrentSpanId(t), NoTask)
    OBVIOUS
  <2>2. e \in ScopeRecords
    BY <1>1, <2>1, ScopeTyped, CurrentTyped DEF Kinds
  <2>3. scopes' \in [Threads -> Seq(ScopeRecords)]
    BY <1>4, <2>1, <2>2, OpenFacts DEF OpenSpan
  <2>4. /\ span_counter' = span_counter + 1 /\ events' = events
        /\ tls' = [tls EXCEPT ![t].stack = Append(@, span_counter + 1)]
    BY <1>4 DEF OpenSpan
  <2>5. tls[t] \in ThreadStates /\ Append(tls[t].stack, span_counter + 1) \in Seq(Nat)
    BY <1>1 DEF ThreadStates
  <2>6. tls' \in [Threads -> ThreadStates]
    BY <1>1, <2>4, <2>5 DEF ThreadStates
  <2> QED
    BY <1>1, <2>3, <2>4, <2>6
<1>5. ASSUME NEW t \in Threads, RecordsTop(t) PROVE Goal
  <2>1. /\ Record(Last(scopes[t])) /\ Close(t) /\ tls' = tls /\ span_counter' = span_counter
        /\ Innermost(t) \in Kinds
    BY <1>5 DEF RecordsTop, Kinds
  <2>2. scopes[t] # <<>> /\ Last(scopes[t]) \in ScopeRecords
    BY <2>1, InnermostIs
  <2> QED
    BY <1>1, <2>1, <2>2, CloseFacts, RecordFacts
<1>6. ASSUME NEW t \in Threads, CloseSpan(t) PROVE Goal
  <2>1. /\ Record(Last(scopes[t])) /\ Close(t) /\ span_counter' = span_counter
        /\ Innermost(t) \in Kinds
    BY <1>6 DEF CloseSpan, Kinds
  <2>2. scopes[t] # <<>> /\ Last(scopes[t]) \in ScopeRecords
    BY <2>1, InnermostIs
  <2>3. tls[t] \in ThreadStates /\ tls[t].stack \in Seq(Nat)
    BY <1>1 DEF ThreadStates
  <2>4. PICK stack \in Seq(Nat) :
          stack = IF tls[t].stack # <<>> /\ Last(tls[t].stack) = Last(scopes[t]).id
                  THEN Front(tls[t].stack) ELSE tls[t].stack
    BY <2>3, Popped
  <2>5. tls' = [tls EXCEPT ![t].stack = stack]
    BY <1>6, <2>4 DEF CloseSpan
  <2>6. tls' \in [Threads -> ThreadStates]
    BY <1>1, <2>3, <2>5 DEF ThreadStates
  <2> QED
    BY <1>1, <2>1, <2>2, <2>6, CloseFacts, RecordFacts
<1>7. ASSUME NEW t \in Threads, CloseActivation(t) PROVE Goal
  <2>1. /\ Close(t) /\ span_counter' = span_counter /\ events' = events
        /\ Innermost(t) \in Kinds /\ tls' = [tls EXCEPT ![t] = Last(scopes[t]).saved]
    BY <1>7 DEF CloseActivation, Kinds
  <2>2. scopes[t] # <<>> /\ Last(scopes[t]).saved \in ThreadStates
    BY <2>1, InnermostIs DEF ScopeRecords
  <2> QED
    BY <1>1, <2>1, <2>2, CloseFacts
<1>8. ASSUME NEW t \in Threads, DropsTop(t) PROVE Goal
  <2>1. /\ Close(t) /\ span_counter' = span_counter /\ events' = events
        /\ Innermost(t) \in Kinds /\ tls' = tls
    BY <1>8 DEF DropsTop, Kinds
  <2> QED
    BY <1>1, <2>1, InnermostIs, CloseFacts
<1>9. ASSUME NEW c \in Clients, AppendSubmitted(c) PROVE Goal
  <2>1. /\ scopes' \in [Threads -> Seq(ScopeRecords)] /\ Record(Last(scopes[c]))
        /\ Last(scopes[c]) \in ScopeRecords
    BY <1>9, AppendSubmittedFacts
  <2>2. tls' = tls /\ span_counter' = span_counter
    BY <1>9 DEF AppendSubmitted
  <2> QED
    BY <1>1, <2>1, <2>2, RecordFacts
<1>10. ASSUME NEW c \in Clients, WaitAllReturn(c) PROVE Goal
  <2>1. PICK e \in ScopeRecords : e = Scope("flush", Unset, Unset, Unset, NoTask)
    BY ScopeTyped DEF Kinds, Unset
  <2>2. Open(c, e) /\ tls' = tls /\ span_counter' = span_counter /\ events' = events
    BY <1>10, <2>1 DEF WaitAllReturn
  <2> QED
    BY <1>1, <2>2, OpenFacts
<1>11. ASSUME Rests PROVE Goal
  BY <1>1, <1>11 DEF Rests
<1> QED
  BY <1>2, <1>3, <1>4, <1>5, <1>6, <1>7, <1>8, <1>9, <1>10, <1>11 DEF StepShape

\* A step of the system keeps the types of the other variables as well.
LEMMA TypeNext ==
    ASSUME Inductive, [Next]_vars
    PROVE  TypeOK'
<1> USE DEF Threads
<1>1. TypeOK
  BY DEF Inductive
<1>2. /\ scopes' \in [Threads -> Seq(ScopeRecords)] /\ tls' \in [Threads -> ThreadStates]
      /\ span_counter' \in Nat /\ events' \in Seq(EventRecords)
  BY <1>1, NextShape, ShapeTyped
<1> DEFINE Goal == /\ phase' \in [Workers -> Phases] /\ run_counter' \in Nat
                   /\ bundle' \in Seq(EventRecords) /\ queue' \subseteq Requests
                   /\ settled' \subseteq Tasks /\ life' \in {"alive", "joining", "destroyed"}
<1>3. /\ phase \in [Workers -> Phases] /\ run_counter \in Nat /\ run_counter + 1 \in Nat
      /\ bundle \in Seq(EventRecords) /\ events \in Seq(EventRecords)
      /\ queue \subseteq Requests
      /\ settled \subseteq Tasks /\ life \in {"alive", "joining", "destroyed"}
  BY <1>1 DEF TypeOK
<1>4. ASSUME NEW t \in Threads,
             OpenSpan(t) \/ RecordInstant(t) \/ AppendInstant(t) \/ CloseSpan(t) \/ Flush(t)
      PROVE  Goal
  BY <1>3, <1>4 DEF OpenSpan, RecordInstant, AppendInstant, CloseSpan, Flush
<1>5. ASSUME NEW t \in Threads, CloseActivation(t) PROVE Goal
  BY <1>3, <1>5 DEF CloseActivation, Phases
<1>6. ASSUME NEW c \in Clients,
             \/ BeginCall(c) \/ (\E task \in Tasks : AnnounceTask(c, task))
             \/ AppendSubmitted(c) \/ WaitAllReturn(c) \/ WaitAllFlush(c)
      PROVE  Goal
  BY <1>3, <1>6 DEF BeginCall, AnnounceTask, AppendSubmitted, WaitAllReturn, WaitAllFlush
<1>7. ASSUME NEW c \in Clients, Submit(c) PROVE Goal
  <2>1. Innermost(c) = "submit" /\ queue' = queue \cup {Carried(Last(scopes[c]))}
    BY <1>7 DEF Submit
  <2>2. PICK n \in DOMAIN scopes[c] : Last(scopes[c]) = scopes[c][n] /\ scopes[c][n].kind = "submit"
                                      /\ scopes[c][n] \in ScopeRecords
    BY <1>1, <2>1, InnermostIs DEF Kinds
  <2>3. ClientAt(c)
    BY DEF Inductive
  <2>4. scopes[c][n].task \in Tasks
    BY <2>2, <2>3 DEF ClientAt, ClientStack, ScopeRecords
  <2>5. Carried(Last(scopes[c])) \in Requests
    BY <2>2, <2>4 DEF Carried, Requests, ScopeRecords
  <2> QED
    BY <1>3, <1>7, <2>1, <2>5 DEF Submit
<1>8. ASSUME NEW w \in Workers,
             \/ (\E q \in queue : StartTask(w, q)) \/ BeginCompile(w) \/ EndCompile(w)
             \/ AppendOutcome(w)
      PROVE  Goal
  BY <1>3, <1>8 DEF StartTask, BeginCompile, EndCompile, AppendOutcome, Phases
<1>9. ASSUME NEW w \in Workers, Settle(w) PROVE Goal
  <2>1. WorkerAt(w) /\ phase[w] = "settle" /\ scopes[w] \in Seq(ScopeRecords)
    BY <1>1, <1>9 DEF Inductive, Settle, TypeOK
  <2>2. Last(scopes[w]).task \in Tasks
    BY <2>1 DEF WorkerAt, WorkerStack, Last
  <2> QED
    BY <1>3, <1>9, <2>2 DEF Settle, Phases
<1>10. ASSUME DestroySession \/ DestroyContext \/ Destroyed \/ UNCHANGED vars
       PROVE  Goal
  BY <1>3, <1>10 DEF DestroySession, DestroyContext, Destroyed, vars
<1>11. Goal
  BY <1>4, <1>5, <1>6, <1>7, <1>8, <1>9, <1>10 DEF Next
<1> QED
  BY <1>2, <1>11 DEF TypeOK

-----------------------------------------------------------------------------
(* Nested *)

\* What is common to two stacks of scopes stays nested.
LEMMA NestedPrefix ==
    ASSUME NEW s \in Seq(ScopeRecords), NEW r \in Seq(ScopeRecords), NEW state,
           NestedIn(s, state), NEW m \in 0 .. Len(s), \A i \in 1 .. m : r[i] = s[i]
    PROVE  \A i \in 1 .. m :
              /\ r[i].kind \notin {"activation", "span"} => i = Len(s)
              /\ r[i].kind = "activation" => Matches(r, i - 1, r[i].saved)
<1> SUFFICES ASSUME NEW i \in 1 .. m
             PROVE  /\ r[i].kind \notin {"activation", "span"} => i = Len(s)
                    /\ r[i].kind = "activation" => Matches(r, i - 1, r[i].saved)
  OBVIOUS
<1>1. i \in DOMAIN s /\ i - 1 \in Nat /\ r[i] = s[i] /\ s[i] \in ScopeRecords
  OBVIOUS
<1>2. ASSUME s[i].kind = "activation" PROVE Matches(r, i - 1, s[i].saved)
  <2>1. Matches(s, i - 1, s[i].saved)
    BY <1>1, <1>2 DEF NestedIn
  <2>2. s[i].saved \in ThreadStates /\ \A j \in 1 .. i - 1 : r[j] = s[j]
    BY <1>1 DEF ScopeRecords
  <2> QED
    BY <1>1, <2>1, <2>2, MatchesPrefix
<1> QED
  BY <1>1, <1>2 DEF NestedIn

\* Scopes other than activations and spans come and go on top of a span.
LEMMA NestedPush ==
    ASSUME NEW s \in Seq(ScopeRecords), NEW r \in Seq(ScopeRecords),
           NEW state \in ThreadStates, NestedIn(s, state), s # <<>>,
           s[Len(s)].kind = "span", Len(r) = Len(s) + 1,
           \A i \in 1 .. Len(s) : r[i] = s[i],
           r[Len(s) + 1].kind \notin {"activation", "span"}
    PROVE  NestedIn(r, state)
<1>1. PICK n \in Nat \ {0} : n = Len(s) /\ DOMAIN r = 1 .. n + 1
  OBVIOUS
<1>2. Matches(r, n + 1, state)
  BY <1>1, MatchesPush DEF NestedIn
<1>3. \A i \in 1 .. n : r[i].kind = "activation" => Matches(r, i - 1, r[i].saved)
  <2>1. n \in 0 .. Len(s) /\ \A i \in 1 .. n : r[i] = s[i]
    BY <1>1
  <2> QED
    BY <2>1, NestedPrefix
<1>4. \A i \in 1 .. n + 1 : i \in 1 .. n \/ i = n + 1
  OBVIOUS
<1>5. \A i \in 1 .. n : r[i].kind \in {"activation", "span"}
  BY <1>1 DEF NestedIn
<1> QED
  BY <1>1, <1>2, <1>3, <1>4, <1>5 DEF NestedIn

\* The reverse of it.
LEMMA NestedPop ==
    ASSUME NEW s \in Seq(ScopeRecords), NEW r \in Seq(ScopeRecords),
           NEW state \in ThreadStates, NestedIn(s, state), s # <<>>,
           s[Len(s)].kind \notin {"activation", "span"}, Len(r) = Len(s) - 1,
           \A i \in 1 .. Len(s) - 1 : r[i] = s[i]
    PROVE  NestedIn(r, state)
<1>1. PICK n \in Nat : n + 1 = Len(s) /\ DOMAIN r = 1 .. n /\ n = Len(r)
  <2>1. Len(s) \in Nat \ {0}
    OBVIOUS
  <2>2. Len(s) - 1 \in Nat /\ (Len(s) - 1) + 1 = Len(s)
    BY <2>1
  <2> QED
    BY <2>2
<1>2. n = Len(s) - 1 /\ n \in 0 .. Len(s)
  BY <1>1
<1>3. Matches(s, n, state)
  BY <1>1, MatchesPop DEF NestedIn
<1>4. Matches(r, n, state)
  BY <1>2, <1>3, MatchesPrefix
<1>5. \A i \in 1 .. n : /\ r[i].kind \notin {"activation", "span"} => i = Len(s)
                        /\ r[i].kind = "activation" => Matches(r, i - 1, r[i].saved)
  BY <1>2, NestedPrefix
<1>6. \A i \in 1 .. n : i # Len(s)
  BY <1>1
<1> QED
  BY <1>1, <1>4, <1>5, <1>6 DEF NestedIn

\* A submission that has been recorded is still on top.
LEMMA NestedRename ==
    ASSUME NEW s \in Seq(ScopeRecords), NEW r \in Seq(ScopeRecords),
           NEW state \in ThreadStates, NestedIn(s, state), s # <<>>,
           s[Len(s)].kind = "submitted", r[Len(s)].kind = "submit",
           Len(r) = Len(s), \A i \in 1 .. Len(s) - 1 : r[i] = s[i]
    PROVE  NestedIn(r, state)
<1>1. PICK n \in Nat : n + 1 = Len(s) /\ DOMAIN r = 1 .. n + 1 /\ n + 1 = Len(r)
  <2>1. Len(s) \in Nat \ {0}
    OBVIOUS
  <2>2. Len(s) - 1 \in Nat /\ (Len(s) - 1) + 1 = Len(s)
    BY <2>1
  <2> QED
    BY <2>2
<1>2. n = Len(s) - 1 /\ n \in 0 .. Len(s)
  BY <1>1
<1>3. Matches(s, n, state)
  BY <1>1, MatchesPop DEF NestedIn
<1>4. Matches(r, n + 1, state)
  BY <1>1, <1>2, <1>3, MatchesPush
<1>5. \A i \in 1 .. n : /\ r[i].kind \notin {"activation", "span"} => i = Len(s)
                        /\ r[i].kind = "activation" => Matches(r, i - 1, r[i].saved)
  BY <1>2, NestedPrefix
<1>6. \A i \in 1 .. n + 1 : i \in 1 .. n \/ i = n + 1
  OBVIOUS
<1> QED
  BY <1>1, <1>4, <1>5, <1>6 DEF NestedIn

\* A span inside a span.
LEMMA NestedSpan ==
    ASSUME NEW s \in Seq(ScopeRecords), NEW r \in Seq(ScopeRecords),
           NEW state \in ThreadStates, NestedIn(s, state), s # <<>>, NEW id \in Nat,
           s[Len(s)].kind = "span", Len(r) = Len(s) + 1,
           \A i \in 1 .. Len(s) : r[i] = s[i],
           r[Len(s) + 1].kind = "span", r[Len(s) + 1].id = id,
           r[Len(s) + 1].run = state.run
    PROVE  NestedIn(r, [state EXCEPT !.stack = Append(@, id)])
<1>1. PICK n \in Nat \ {0} : n = Len(s) /\ DOMAIN r = 1 .. n + 1
  OBVIOUS
<1>2. Matches(r, n + 1, [state EXCEPT !.stack = Append(@, id)])
  BY <1>1, MatchesSpan DEF NestedIn
<1>3. \A i \in 1 .. n : r[i].kind = "activation" => Matches(r, i - 1, r[i].saved)
  <2>1. n \in 0 .. Len(s) /\ \A i \in 1 .. n : r[i] = s[i]
    BY <1>1
  <2> QED
    BY <2>1, NestedPrefix
<1>4. \A i \in 1 .. n + 1 : i \in 1 .. n \/ i = n + 1
  OBVIOUS
<1>5. \A i \in 1 .. n : r[i].kind \in {"activation", "span"}
  BY <1>1 DEF NestedIn
<1> QED
  BY <1>1, <1>2, <1>3, <1>4, <1>5 DEF NestedIn

\* An activation with its span, in a thread without scopes or inside a span.
LEMMA NestedEnter ==
    ASSUME NEW s \in Seq(ScopeRecords), NEW r \in Seq(ScopeRecords),
           NEW state \in ThreadStates, NestedIn(s, state), NEW id \in Nat, NEW run \in Nat,
           s = <<>> \/ s[Len(s)].kind = "span", Len(r) = Len(s) + 2,
           \A i \in 1 .. Len(s) : r[i] = s[i],
           r[Len(s) + 1].kind = "activation", r[Len(s) + 1].run = run,
           r[Len(s) + 1].saved = state,
           r[Len(s) + 2].kind = "span", r[Len(s) + 2].id = id, r[Len(s) + 2].run = run
    PROVE  NestedIn(r, [run |-> run, stack |-> <<id>>])
<1>1. PICK n \in Nat : n = Len(s) /\ DOMAIN r = 1 .. n + 2
  OBVIOUS
<1>2. Matches(r, n + 2, [run |-> run, stack |-> <<id>>])
  BY <1>1, MatchesEnter
<1>3. \A i \in 1 .. n : r[i].kind = "activation" => Matches(r, i - 1, r[i].saved)
  <2>1. n \in 0 .. Len(s) /\ \A i \in 1 .. n : r[i] = s[i]
    BY <1>1
  <2> QED
    BY <2>1, NestedPrefix
<1>4. Matches(r, (n + 1) - 1, r[n + 1].saved)
  <2>1. Matches(s, n, state)
    BY <1>1 DEF NestedIn
  <2>2. Matches(r, n, state)
    BY <1>1, <2>1, MatchesPrefix
  <2>3. (n + 1) - 1 = n
    OBVIOUS
  <2> QED
    BY <1>1, <2>2, <2>3
<1>5. \A i \in 1 .. n + 2 : i \in 1 .. n \/ i = n + 1 \/ i = n + 2
  OBVIOUS
<1>6. \A i \in 1 .. n : r[i].kind \in {"activation", "span"}
  <2>1. \A i \in 1 .. n : s[i].kind \notin {"activation", "span"} => i = n
    BY <1>1 DEF NestedIn
  <2> QED
    BY <1>1, <2>1
<1> QED
  BY <1>1, <1>2, <1>3, <1>4, <1>5, <1>6 DEF NestedIn

\* The innermost span goes.
LEMMA NestedClose ==
    ASSUME NEW s \in Seq(ScopeRecords), NEW r \in Seq(ScopeRecords),
           NEW state \in ThreadStates, NestedIn(s, state), s # <<>>,
           s[Len(s)].kind = "span", Len(r) = Len(s) - 1,
           \A i \in 1 .. Len(s) - 1 : r[i] = s[i]
    PROVE  /\ state.stack # <<>> /\ Last(state.stack) = s[Len(s)].id
           /\ \A new \in ThreadStates :
                 new.run = state.run /\ new.stack = Front(state.stack) => NestedIn(r, new)
<1>1. PICK n \in Nat : n + 1 = Len(s) /\ DOMAIN r = 1 .. n /\ n = Len(r)
  <2>1. Len(s) \in Nat \ {0}
    OBVIOUS
  <2>2. Len(s) - 1 \in Nat /\ (Len(s) - 1) + 1 = Len(s)
    BY <2>1
  <2> QED
    BY <2>2
<1>2. n = Len(s) - 1 /\ n \in 0 .. Len(s)
  BY <1>1
<1>3. Matches(s, n + 1, state) /\ s[n + 1].kind = "span" /\ s[n + 1] = s[Len(s)]
  BY <1>1 DEF NestedIn
<1>4. state.stack # <<>> /\ Last(state.stack) = s[Len(s)].id
  <2>1. PICK from \in 0 .. n + 1 : MatchesSince(s, n + 1, state, from)
    BY <1>3 DEF Matches
  <2> QED
    BY <1>3, <2>1, SpanOnTop
<1>5. ASSUME NEW new \in ThreadStates, new.run = state.run, new.stack = Front(state.stack)
      PROVE  NestedIn(r, new)
  <2>1. Matches(s, n, new)
    BY <1>3, <1>5, MatchesClose
  <2>2. Matches(r, n, new)
    BY <1>2, <2>1, MatchesPrefix
  <2>3. \A i \in 1 .. n : /\ r[i].kind \notin {"activation", "span"} => i = Len(s)
                          /\ r[i].kind = "activation" => Matches(r, i - 1, r[i].saved)
    BY <1>2, NestedPrefix
  <2>4. \A i \in 1 .. n : i # Len(s)
    BY <1>1
  <2> QED
    BY <1>1, <2>2, <2>3, <2>4 DEF NestedIn
<1> QED
  BY <1>4, <1>5

\* The innermost activation goes, and gives back what it saved.
LEMMA NestedLeave ==
    ASSUME NEW s \in Seq(ScopeRecords), NEW r \in Seq(ScopeRecords),
           NEW state, NestedIn(s, state), s # <<>>,
           s[Len(s)].kind = "activation", Len(r) = Len(s) - 1,
           \A i \in 1 .. Len(s) - 1 : r[i] = s[i]
    PROVE  NestedIn(r, s[Len(s)].saved)
<1>1. PICK n \in Nat : n + 1 = Len(s) /\ DOMAIN r = 1 .. n /\ n = Len(r)
  <2>1. Len(s) \in Nat \ {0}
    OBVIOUS
  <2>2. Len(s) - 1 \in Nat /\ (Len(s) - 1) + 1 = Len(s)
    BY <2>1
  <2> QED
    BY <2>2
<1>2. n = Len(s) - 1 /\ n \in 0 .. Len(s)
  BY <1>1
<1>3. s[Len(s)].saved \in ThreadStates /\ Len(s) \in DOMAIN s
  <2>1. Len(s) \in DOMAIN s /\ s[Len(s)] \in ScopeRecords
    OBVIOUS
  <2> QED
    BY <2>1 DEF ScopeRecords
<1>4. Matches(s, n, s[Len(s)].saved)
  BY <1>2, <1>3 DEF NestedIn
<1>5. Matches(r, n, s[Len(s)].saved)
  BY <1>2, <1>3, <1>4, MatchesPrefix
<1>6. \A i \in 1 .. n : /\ r[i].kind \notin {"activation", "span"} => i = Len(s)
                        /\ r[i].kind = "activation" => Matches(r, i - 1, r[i].saved)
  BY <1>2, NestedPrefix
<1>7. \A i \in 1 .. n : i # Len(s)
  BY <1>1
<1> QED
  BY <1>1, <1>5, <1>6, <1>7 DEF NestedIn

\* Every step keeps the scopes of every thread nested.
LEMMA NestedNext ==
    ASSUME Inductive, StepShape
    PROVE  Nested'
<1> USE DEF Threads
<1>1. TypeOK /\ Nested /\ tls \in [Threads -> ThreadStates] /\ span_counter + 1 \in Nat
      /\ \A t \in Threads : scopes[t] \in Seq(ScopeRecords)
  BY DEF Inductive, TypeOK
<1>2. scopes' \in [Threads -> Seq(ScopeRecords)]
  BY <1>1, ShapeTyped
<1>3. ASSUME NEW t \in Threads, NestedIn(scopes'[t], tls'[t]),
             \A u \in Threads \ {t} : scopes'[u] = scopes[u] /\ tls'[u] = tls[u]
      PROVE  Nested'
  BY <1>1, <1>3 DEF Nested
<1>4. ASSUME NEW t \in Threads, Innermost(t) \in Kinds
      PROVE  /\ scopes[t] # <<>> /\ scopes[t][Len(scopes[t])].kind = Innermost(t)
             /\ Last(scopes[t]) = scopes[t][Len(scopes[t])]
  BY <1>1, <1>4, InnermostIs
<1>5. ASSUME NEW t \in Threads, Enters(t) PROVE Nested'
  <2>1. PICK run \in Nat, parent \in Nat, task \in Tasks \cup {NoTask} :
          Enter(t, run, parent, task)
    BY <1>5 DEF Enters
  <2>2. scopes[t] = <<>> \/ scopes[t][Len(scopes[t])].kind = "span"
    BY <1>4, <1>5 DEF Enters, Kinds
  <2>3. /\ \A u \in Threads \ {t} : scopes'[u] = scopes[u]
        /\ Len(scopes'[t]) = Len(scopes[t]) + 2
        /\ \A i \in 1 .. Len(scopes[t]) : scopes'[t][i] = scopes[t][i]
        /\ tls' = [tls EXCEPT ![t] = [run |-> run, stack |-> <<span_counter + 1>>]]
    BY <1>1, <2>1, EnterFacts
  <2>4. /\ tls'[t] = [run |-> run, stack |-> <<span_counter + 1>>]
        /\ \A u \in Threads \ {t} : tls'[u] = tls[u]
    BY <1>1, <2>3
  <2>5. /\ scopes'[t][Len(scopes[t]) + 1].kind = "activation"
        /\ scopes'[t][Len(scopes[t]) + 1].run = run
        /\ scopes'[t][Len(scopes[t]) + 1].saved = tls[t]
        /\ scopes'[t][Len(scopes[t]) + 2].kind = "span"
        /\ scopes'[t][Len(scopes[t]) + 2].id = span_counter + 1
        /\ scopes'[t][Len(scopes[t]) + 2].run = run
    BY <1>1, <2>1, EnterFacts
  <2>6. NestedIn(scopes[t], tls[t]) /\ tls[t] \in ThreadStates
    BY <1>1 DEF Nested
  <2>7. NestedIn(scopes'[t], [run |-> run, stack |-> <<span_counter + 1>>])
    BY <1>1, <1>2, <2>2, <2>3, <2>5, <2>6, NestedEnter
  <2> QED
    BY <1>3, <2>3, <2>4, <2>7
<1>6. ASSUME NEW t \in Threads, NEW e \in ScopeRecords, Open(t, e), UNCHANGED tls,
             Innermost(t) = "span", e.kind \notin {"activation", "span"}
      PROVE  Nested'
  <2>1. scopes[t] # <<>> /\ scopes[t][Len(scopes[t])].kind = "span"
    BY <1>4, <1>6 DEF Kinds
  <2>2. /\ \A u \in Threads \ {t} : scopes'[u] = scopes[u]
        /\ Len(scopes'[t]) = Len(scopes[t]) + 1
        /\ \A i \in 1 .. Len(scopes[t]) : scopes'[t][i] = scopes[t][i]
        /\ scopes'[t][Len(scopes[t]) + 1].kind \notin {"activation", "span"}
    BY <1>1, <1>6, OpenFacts
  <2>3. NestedIn(scopes[t], tls[t]) /\ tls[t] \in ThreadStates
    BY <1>1 DEF Nested
  <2>4. NestedIn(scopes'[t], tls[t])
    BY <1>1, <1>2, <2>1, <2>2, <2>3, NestedPush
  <2> QED
    BY <1>3, <1>6, <2>2, <2>4
<1>7. ASSUME NEW t \in Threads, OpenSpan(t) PROVE Nested'
  <2>1. scopes[t] # <<>> /\ scopes[t][Len(scopes[t])].kind = "span"
    BY <1>4, <1>7 DEF OpenSpan, MayOpen, Kinds
  <2>2. PICK e : e = Scope("span", span_counter + 1, tls[t].run, CurrentSpanId(t), NoTask)
    OBVIOUS
  <2>3. /\ e \in ScopeRecords /\ e.kind = "span" /\ e.id = span_counter + 1
        /\ e.run = tls[t].run
    BY <1>1, <2>2, ScopeTyped, CurrentTyped DEF Kinds
  <2>4. /\ \A u \in Threads \ {t} : scopes'[u] = scopes[u]
        /\ Len(scopes'[t]) = Len(scopes[t]) + 1
        /\ \A i \in 1 .. Len(scopes[t]) : scopes'[t][i] = scopes[t][i]
        /\ scopes'[t][Len(scopes[t]) + 1] = e
    BY <1>1, <1>7, <2>2, <2>3, OpenFacts DEF OpenSpan
  <2>5. /\ tls'[t] = [tls[t] EXCEPT !.stack = Append(@, span_counter + 1)]
        /\ \A u \in Threads \ {t} : tls'[u] = tls[u]
    BY <1>1, <1>7 DEF OpenSpan
  <2>6. NestedIn(scopes[t], tls[t]) /\ tls[t] \in ThreadStates
    BY <1>1 DEF Nested
  <2>7. NestedIn(scopes'[t], [tls[t] EXCEPT !.stack = Append(@, span_counter + 1)])
    BY <1>1, <1>2, <2>1, <2>3, <2>4, <2>6, NestedSpan
  <2> QED
    BY <1>3, <2>4, <2>5, <2>7
<1>8. ASSUME NEW t \in Threads, Close(t), UNCHANGED tls,
             Innermost(t) \in Kinds \ {"activation", "span"}
      PROVE  Nested'
  <2>1. scopes[t] # <<>> /\ scopes[t][Len(scopes[t])].kind \notin {"activation", "span"}
    BY <1>4, <1>8
  <2>2. /\ \A u \in Threads \ {t} : scopes'[u] = scopes[u]
        /\ Len(scopes'[t]) = Len(scopes[t]) - 1
        /\ \A i \in 1 .. Len(scopes[t]) - 1 : scopes'[t][i] = scopes[t][i]
    BY <1>1, <1>8, <2>1, CloseFacts
  <2>3. NestedIn(scopes[t], tls[t]) /\ tls[t] \in ThreadStates
    BY <1>1 DEF Nested
  <2>4. NestedIn(scopes'[t], tls[t])
    BY <1>1, <1>2, <2>1, <2>2, <2>3, NestedPop
  <2> QED
    BY <1>3, <1>8, <2>2, <2>4
<1>9. ASSUME NEW t \in Threads, CloseSpan(t) PROVE Nested'
  <2>1. /\ scopes[t] # <<>> /\ scopes[t][Len(scopes[t])].kind = "span"
        /\ Last(scopes[t]) = scopes[t][Len(scopes[t])]
    BY <1>4, <1>9 DEF CloseSpan, Kinds
  <2>2. /\ \A u \in Threads \ {t} : scopes'[u] = scopes[u]
        /\ Len(scopes'[t]) = Len(scopes[t]) - 1
        /\ \A i \in 1 .. Len(scopes[t]) - 1 : scopes'[t][i] = scopes[t][i]
    BY <1>1, <1>9, <2>1, CloseFacts DEF CloseSpan
  <2>3. NestedIn(scopes[t], tls[t]) /\ tls[t] \in ThreadStates
    BY <1>1 DEF Nested
  <2>4. /\ tls[t].stack # <<>> /\ Last(tls[t].stack) = scopes[t][Len(scopes[t])].id
        /\ \A new \in ThreadStates : new.run = tls[t].run /\ new.stack = Front(tls[t].stack)
              => NestedIn(scopes'[t], new)
    <3>1. PICK s \in Seq(ScopeRecords), r \in Seq(ScopeRecords), state \in ThreadStates :
            s = scopes[t] /\ r = scopes'[t] /\ state = tls[t]
      BY <1>1, <1>2
    <3>2. /\ NestedIn(s, state) /\ s # <<>> /\ s[Len(s)].kind = "span"
          /\ Len(r) = Len(s) - 1 /\ \A i \in 1 .. Len(s) - 1 : r[i] = s[i]
      BY <2>1, <2>2, <2>3, <3>1
    <3>3. /\ state.stack # <<>> /\ Last(state.stack) = s[Len(s)].id
          /\ \A new \in ThreadStates :
                new.run = state.run /\ new.stack = Front(state.stack) => NestedIn(r, new)
      BY <3>2, NestedClose
    <3> QED
      BY <3>1, <3>3
  <2>5. tls' = [tls EXCEPT ![t].stack = Front(@)]
    BY <1>9, <2>1, <2>4 DEF CloseSpan
  <2>6. /\ tls'[t].run = tls[t].run /\ tls'[t].stack = Front(tls[t].stack)
        /\ \A u \in Threads \ {t} : tls'[u] = tls[u]
    BY <1>1, <2>3, <2>5 DEF ThreadStates
  <2>7. tls'[t] \in ThreadStates
    BY <1>1, ShapeTyped
  <2> QED
    BY <1>3, <2>2, <2>4, <2>6, <2>7
<1>10. ASSUME NEW t \in Threads, CloseActivation(t) PROVE Nested'
  <2>1. /\ scopes[t] # <<>> /\ scopes[t][Len(scopes[t])].kind = "activation"
        /\ Last(scopes[t]) = scopes[t][Len(scopes[t])]
    BY <1>4, <1>10 DEF CloseActivation, Kinds
  <2>2. /\ \A u \in Threads \ {t} : scopes'[u] = scopes[u]
        /\ Len(scopes'[t]) = Len(scopes[t]) - 1
        /\ \A i \in 1 .. Len(scopes[t]) - 1 : scopes'[t][i] = scopes[t][i]
    BY <1>1, <1>10, <2>1, CloseFacts DEF CloseActivation
  <2>3. NestedIn(scopes[t], tls[t])
    BY <1>1 DEF Nested
  <2>4. NestedIn(scopes'[t], scopes[t][Len(scopes[t])].saved)
    BY <1>1, <1>2, <2>1, <2>2, <2>3, NestedLeave
  <2>5. /\ tls'[t] = scopes[t][Len(scopes[t])].saved
        /\ \A u \in Threads \ {t} : tls'[u] = tls[u]
    BY <1>1, <1>10, <2>1 DEF CloseActivation
  <2> QED
    BY <1>3, <2>2, <2>4, <2>5
<1>11. ASSUME NEW c \in Clients, AppendSubmitted(c) PROVE Nested'
  <2>1. /\ \A u \in Threads \ {c} : scopes'[u] = scopes[u]
        /\ Len(scopes'[c]) = Len(scopes[c]) /\ scopes[c] # <<>>
        /\ \A i \in 1 .. Len(scopes[c]) - 1 : scopes'[c][i] = scopes[c][i]
        /\ scopes[c][Len(scopes[c])].kind = "submitted"
        /\ scopes'[c][Len(scopes[c])].kind = "submit"
    <3>1. /\ scopes[c][Len(scopes[c])] \in ScopeRecords
          /\ scopes'[c][Len(scopes[c])] = [scopes[c][Len(scopes[c])] EXCEPT !.kind = "submit"]
      BY <1>1, <1>11, AppendSubmittedFacts
    <3>2. scopes'[c][Len(scopes[c])].kind = "submit"
      BY <3>1 DEF ScopeRecords
    <3> QED
      BY <1>1, <1>11, <3>2, AppendSubmittedFacts
  <2>2. NestedIn(scopes[c], tls[c]) /\ tls[c] \in ThreadStates /\ tls' = tls
    BY <1>1, <1>11 DEF Nested, AppendSubmitted
  <2>3. NestedIn(scopes'[c], tls[c])
    BY <1>1, <1>2, <2>1, <2>2, NestedRename
  <2> QED
    BY <1>3, <2>1, <2>2, <2>3
<1>12. ASSUME NEW c \in Clients, WaitAllReturn(c) PROVE Nested'
  <2>1. PICK e : e = Scope("flush", Unset, Unset, Unset, NoTask)
    OBVIOUS
  <2>2. e \in ScopeRecords /\ e.kind = "flush"
    BY <2>1, ScopeTyped DEF Kinds, Unset
  <2> QED
    BY <1>6, <1>12, <2>1, <2>2 DEF WaitAllReturn
<1>13. ASSUME NEW t \in Threads, RecordsTop(t) \/ DropsTop(t) PROVE Nested'
  BY <1>8, <1>13 DEF RecordsTop, DropsTop, Kinds
<1>14. ASSUME NEW t \in Threads, NEW e \in ScopeRecords, OpensTop(t, e) PROVE Nested'
  BY <1>6, <1>14 DEF OpensTop
<1>15. ASSUME Rests PROVE Nested'
  BY <1>1, <1>15 DEF Rests, Nested
<1> QED
  BY <1>5, <1>7, <1>9, <1>10, <1>11, <1>12, <1>13, <1>14, <1>15 DEF StepShape

-----------------------------------------------------------------------------
(* The shapes again, element by element *)

\* The other threads' scopes and the n outermost of this one stay.
Kept(t, n) ==
    /\ \A u \in Threads \ {t} : scopes'[u] = scopes[u]
    /\ \A i \in 1 .. n : i \in DOMAIN scopes[t] /\ scopes'[t][i] = scopes[t][i]

Grows(t, n, m) ==
    /\ DOMAIN scopes[t] = 1 .. n /\ DOMAIN scopes'[t] = 1 .. m /\ Kept(t, n)
    /\ m = n + 1 \/ (m = n + 2 /\ scopes'[t][n + 1].kind = "activation"
                               /\ scopes'[t][n + 1].id = Unset)
    /\ scopes'[t][m].kind \notin {"activation", "flush", "submit"}
    /\ scopes'[t][m].id = span_counter + 1
    /\ Rooted(scopes'[t][m].parent, scopes'[t][m].run)
    /\ span_counter' = span_counter + 1 /\ events' = events

\* The innermost scope becomes the event e; a submission is still to be made.
Records(t, n, e) ==
    /\ DOMAIN scopes[t] = 1 .. n /\ n \in Nat \ {0} /\ Kept(t, n - 1)
    /\ scopes[t][n].kind \notin {"activation", "flush", "submit"}
    /\ \/ DOMAIN scopes'[t] = 1 .. n - 1
       \/ /\ DOMAIN scopes'[t] = 1 .. n /\ scopes'[t][n].kind = "submit"
          /\ scopes'[t][n].id = scopes[t][n].id /\ scopes'[t][n].run = scopes[t][n].run
          /\ scopes'[t][n].parent = scopes[t][n].parent
          /\ scopes'[t][n].task = scopes[t][n].task /\ scopes[t][n].kind = "submitted"
    /\ DOMAIN events' = DOMAIN events \cup {e} /\ e \notin DOMAIN events
    /\ \A j \in DOMAIN events : events'[j] = events[j] /\ j \in 1 .. e - 1
    /\ events'[e].span = scopes[t][n].id /\ events'[e].run = scopes[t][n].run
    /\ events'[e].parent = scopes[t][n].parent
    /\ events'[e].event = scopes[t][n].kind /\ events'[e].task = scopes[t][n].task
    /\ span_counter' = span_counter

Drops(t, n) ==
    /\ DOMAIN scopes[t] = 1 .. n /\ n \in Nat \ {0} /\ Kept(t, n - 1)
    /\ scopes[t][n].kind \in {"activation", "flush", "submit"}
    /\ DOMAIN scopes'[t] = 1 .. n - 1
    /\ span_counter' = span_counter /\ events' = events

Waits(t, n) ==
    /\ DOMAIN scopes[t] = 1 .. n /\ DOMAIN scopes'[t] = 1 .. n + 1 /\ Kept(t, n)
    /\ scopes'[t][n + 1].kind = "flush" /\ scopes'[t][n + 1].id = Unset
    /\ span_counter' = span_counter /\ events' = events

Form ==
    \/ \E t \in Threads, n, m \in Nat : Grows(t, n, m)
    \/ \E t \in Threads, n, e \in Nat : Records(t, n, e)
    \/ \E t \in Threads, n \in Nat : Drops(t, n) \/ Waits(t, n)
    \/ Rests

\* Every step has one of these forms.
LEMMA ShapeForm ==
    ASSUME TypeOK, StepShape
    PROVE  Form
<1> USE DEF Threads
<1>1. /\ span_counter \in Nat /\ \A t \in Threads : scopes[t] \in Seq(ScopeRecords)
      /\ DOMAIN events = 1 .. Len(events) /\ Len(events) \in Nat
  BY DEF TypeOK
<1>2. ASSUME NEW t \in Threads, Enters(t) PROVE Form
  <2>1. PICK run \in Nat, parent \in Nat, task \in Tasks \cup {NoTask} :
          Enter(t, run, parent, task) /\ events' = events /\ Rooted(parent, run)
    BY <1>2 DEF Enters
  <2>2. PICK n \in Nat : n = Len(scopes[t]) /\ DOMAIN scopes[t] = 1 .. n
    BY <1>1
  <2>3. /\ DOMAIN scopes'[t] = 1 .. n + 2 /\ span_counter' = span_counter + 1
        /\ \A i \in 1 .. n : scopes'[t][i] = scopes[t][i]
        /\ \A u \in Threads \ {t} : scopes'[u] = scopes[u]
        /\ scopes'[t][n + 1].kind = "activation" /\ scopes'[t][n + 1].id = Unset
        /\ scopes'[t][n + 2].kind = "span" /\ scopes'[t][n + 2].id = span_counter + 1
        /\ scopes'[t][n + 2].run = run /\ scopes'[t][n + 2].parent = parent
    BY <2>1, <2>2, EnterFacts
  <2>4. Grows(t, n, n + 2)
    BY <2>1, <2>2, <2>3 DEF Grows, Kept
  <2>5. n + 2 \in Nat
    OBVIOUS
  <2> QED
    BY <2>4, <2>5 DEF Form
<1>3. ASSUME NEW t \in Threads, NEW e \in ScopeRecords, Open(t, e), e.id = span_counter + 1,
             e.kind \notin {"activation", "flush", "submit"}, Rooted(e.parent, e.run),
             span_counter' = span_counter + 1, events' = events
      PROVE  Form
  <2>1. PICK n \in Nat : n = Len(scopes[t]) /\ DOMAIN scopes[t] = 1 .. n
    BY <1>1
  <2>2. /\ DOMAIN scopes'[t] = 1 .. n + 1 /\ scopes'[t][n + 1] = e
        /\ \A i \in 1 .. n : scopes'[t][i] = scopes[t][i]
        /\ \A u \in Threads \ {t} : scopes'[u] = scopes[u]
    BY <1>3, <2>1, OpenFacts
  <2>3. Grows(t, n, n + 1)
    BY <1>3, <2>1, <2>2 DEF Grows, Kept
  <2>4. n + 1 \in Nat
    OBVIOUS
  <2> QED
    BY <2>3, <2>4 DEF Form
<1>4. ASSUME NEW t \in Threads, OpenSpan(t), Rooted(CurrentSpanId(t), tls[t].run) PROVE Form
  <2>1. PICK e : e = Scope("span", span_counter + 1, tls[t].run, CurrentSpanId(t), NoTask)
    OBVIOUS
  <2>2. /\ e \in ScopeRecords /\ e.kind = "span" /\ e.id = span_counter + 1
        /\ e.parent = CurrentSpanId(t) /\ e.run = tls[t].run
    BY <1>1, <2>1, ScopeTyped, CurrentTyped DEF Kinds
  <2>3. Open(t, e) /\ span_counter' = span_counter + 1 /\ events' = events
    BY <1>4, <2>1 DEF OpenSpan
  <2> QED
    BY <1>3, <1>4, <2>2, <2>3
<1>5. ASSUME NEW e \in ScopeRecords, Record(e)
      PROVE  \E l \in Nat : /\ DOMAIN events' = DOMAIN events \cup {l} /\ l \notin DOMAIN events
                            /\ \A j \in DOMAIN events : events'[j] = events[j] /\ j \in 1 .. l - 1
                            /\ events'[l].span = e.id /\ events'[l].run = e.run
                            /\ events'[l].parent = e.parent /\ events'[l].event = e.kind
                            /\ events'[l].task = e.task
  <2>1. PICK k \in Nat : k = Len(events)
    BY <1>1
  <2>2. /\ DOMAIN events = 1 .. k /\ DOMAIN events' = 1 .. k + 1
        /\ \A j \in 1 .. k : events'[j] = events[j]
        /\ events'[k + 1].span = e.id /\ events'[k + 1].run = e.run
        /\ events'[k + 1].parent = e.parent /\ events'[k + 1].event = e.kind
        /\ events'[k + 1].task = e.task
    BY <1>5, <2>1, RecordFacts
  <2>3. 1 .. k + 1 = 1 .. k \cup {k + 1} /\ k + 1 \in Nat /\ k + 1 \notin 1 .. k
        /\ (k + 1) - 1 = k
    OBVIOUS
  <2> QED
    BY <2>2, <2>3
<1>6. ASSUME NEW t \in Threads, Innermost(t) \in {"span", "instant", "completed", "error"},
             Record(Last(scopes[t])), Close(t), span_counter' = span_counter
      PROVE  Form
  <2>1. /\ scopes[t] # <<>> /\ Last(scopes[t]) \in ScopeRecords
        /\ Last(scopes[t]) = scopes[t][Len(scopes[t])]
        /\ Last(scopes[t]).kind \in {"span", "instant", "completed", "error"}
    BY <1>6, InnermostIs DEF Kinds
  <2>2. PICK n \in Nat \ {0} : n = Len(scopes[t]) /\ DOMAIN scopes[t] = 1 .. n
    BY <1>1, <2>1
  <2>3. /\ DOMAIN scopes'[t] = 1 .. n - 1
        /\ \A i \in 1 .. n - 1 : i \in 1 .. n /\ scopes'[t][i] = scopes[t][i]
        /\ \A u \in Threads \ {t} : scopes'[u] = scopes[u]
    BY <1>6, <2>1, <2>2, CloseFacts
  <2>4. PICK l \in Nat : /\ DOMAIN events' = DOMAIN events \cup {l} /\ l \notin DOMAIN events
                         /\ \A j \in DOMAIN events : events'[j] = events[j] /\ j \in 1 .. l - 1
                         /\ events'[l].span = Last(scopes[t]).id
                         /\ events'[l].run = Last(scopes[t]).run
                         /\ events'[l].parent = Last(scopes[t]).parent
                         /\ events'[l].event = Last(scopes[t]).kind
                         /\ events'[l].task = Last(scopes[t]).task
    BY <1>5, <1>6, <2>1
  <2>5. Records(t, n, l)
    BY <1>6, <2>1, <2>2, <2>3, <2>4 DEF Records, Kept
  <2> QED
    BY <2>5 DEF Form
<1>7. ASSUME NEW c \in Clients, AppendSubmitted(c) PROVE Form
  <2>1. /\ scopes[c] # <<>> /\ Last(scopes[c]) \in ScopeRecords
        /\ Last(scopes[c]) = scopes[c][Len(scopes[c])] /\ Record(Last(scopes[c]))
        /\ scopes[c][Len(scopes[c])].kind = "submitted" /\ span_counter' = span_counter
    BY <1>7, AppendSubmittedFacts DEF AppendSubmitted
  <2>2. PICK n \in Nat \ {0} : n = Len(scopes[c]) /\ DOMAIN scopes[c] = 1 .. n
    BY <1>1, <2>1
  <2>3. /\ DOMAIN scopes'[c] = 1 .. n
        /\ \A i \in 1 .. n - 1 : i \in 1 .. n /\ scopes'[c][i] = scopes[c][i]
        /\ \A u \in Threads \ {c} : scopes'[u] = scopes[u]
        /\ scopes'[c][n] = [scopes[c][n] EXCEPT !.kind = "submit"]
    BY <1>7, <2>2, AppendSubmittedFacts
  <2>4. /\ scopes'[c][n].kind = "submit" /\ scopes'[c][n].id = scopes[c][n].id
        /\ scopes'[c][n].run = scopes[c][n].run /\ scopes'[c][n].parent = scopes[c][n].parent
        /\ scopes'[c][n].task = scopes[c][n].task
    BY <2>1, <2>2, <2>3 DEF ScopeRecords
  <2>5. PICK l \in Nat : /\ DOMAIN events' = DOMAIN events \cup {l} /\ l \notin DOMAIN events
                         /\ \A j \in DOMAIN events : events'[j] = events[j] /\ j \in 1 .. l - 1
                         /\ events'[l].span = Last(scopes[c]).id
                         /\ events'[l].run = Last(scopes[c]).run
                         /\ events'[l].parent = Last(scopes[c]).parent
                         /\ events'[l].event = Last(scopes[c]).kind
                         /\ events'[l].task = Last(scopes[c]).task
    BY <1>5, <2>1
  <2>6. Records(c, n, l)
    BY <2>1, <2>2, <2>3, <2>4, <2>5 DEF Records, Kept
  <2> QED
    BY <2>6 DEF Form
<1>8. ASSUME NEW t \in Threads, Innermost(t) \in {"activation", "submit", "flush"},
             Close(t), span_counter' = span_counter, events' = events
      PROVE  Form
  <2>1. /\ scopes[t] # <<>>
        /\ scopes[t][Len(scopes[t])].kind \in {"activation", "submit", "flush"}
    BY <1>8, InnermostIs DEF Kinds
  <2>2. PICK n \in Nat \ {0} : n = Len(scopes[t]) /\ DOMAIN scopes[t] = 1 .. n
    BY <1>1, <2>1
  <2>3. /\ DOMAIN scopes'[t] = 1 .. n - 1
        /\ \A i \in 1 .. n - 1 : i \in 1 .. n /\ scopes'[t][i] = scopes[t][i]
        /\ \A u \in Threads \ {t} : scopes'[u] = scopes[u]
    BY <1>8, <2>1, <2>2, CloseFacts
  <2>4. Drops(t, n)
    BY <1>8, <2>1, <2>2, <2>3 DEF Drops, Kept
  <2> QED
    BY <2>4 DEF Form
<1>9. ASSUME NEW c \in Clients, WaitAllReturn(c) PROVE Form
  <2>1. PICK e : e = Scope("flush", Unset, Unset, Unset, NoTask)
    OBVIOUS
  <2>2. e \in ScopeRecords /\ e.kind = "flush" /\ e.id = Unset
    BY <2>1, ScopeTyped DEF Kinds, Unset
  <2>3. PICK n \in Nat : n = Len(scopes[c]) /\ DOMAIN scopes[c] = 1 .. n
    BY <1>1
  <2>4. Open(c, e) /\ span_counter' = span_counter /\ events' = events
    BY <1>9, <2>1 DEF WaitAllReturn
  <2>5. /\ DOMAIN scopes'[c] = 1 .. n + 1 /\ scopes'[c][n + 1] = e
        /\ \A i \in 1 .. n : scopes'[c][i] = scopes[c][i]
        /\ \A u \in Threads \ {c} : scopes'[u] = scopes[u]
    BY <2>2, <2>3, <2>4, OpenFacts
  <2>6. Waits(c, n)
    BY <2>2, <2>3, <2>4, <2>5 DEF Waits, Kept
  <2> QED
    BY <2>6 DEF Form
<1>10. ASSUME NEW t \in Threads, RecordsTop(t) \/ CloseSpan(t) PROVE Form
  BY <1>6, <1>10 DEF RecordsTop, CloseSpan
<1>11. ASSUME NEW t \in Threads, DropsTop(t) \/ CloseActivation(t) PROVE Form
  BY <1>8, <1>11 DEF DropsTop, CloseActivation
<1>12. ASSUME NEW t \in Threads, NEW e \in ScopeRecords, OpensTop(t, e) PROVE Form
  BY <1>3, <1>12 DEF OpensTop
<1>13. ASSUME Rests PROVE Form
  BY <1>13 DEF Form
<1> QED
  BY <1>2, <1>4, <1>7, <1>9, <1>10, <1>11, <1>12, <1>13 DEF StepShape

\* No event is lost.
LEMMA EventsKept ==
    ASSUME Form
    PROVE  \A j \in DOMAIN events : j \in DOMAIN events' /\ events'[j] = events[j]
<1>1. ASSUME NEW t \in Threads, NEW n \in Nat, NEW e \in Nat, Records(t, n, e)
      PROVE  \A j \in DOMAIN events : j \in DOMAIN events' /\ events'[j] = events[j]
  BY <1>1 DEF Records
<1>2. events' = events \/ \E t \in Threads, n, e \in Nat : Records(t, n, e)
  BY DEF Form, Grows, Drops, Waits, Rests
<1> QED
  BY <1>1, <1>2

-----------------------------------------------------------------------------
(* IdsKnown and IdsOnce *)

\* A new id is handed out to one new scope.
LEMMA IdAdded ==
    ASSUME TypeOK, IdsKnown, IdsOnce, NEW t \in Threads, NEW m,
           span_counter' = span_counter + 1, events' = events,
           \A u \in Threads : \A i : Pending(u, i)' <=> Pending(u, i) \/ (u = t /\ i = m),
           \A u \in Threads : \A i : Pending(u, i) => scopes'[u][i].id = scopes[u][i].id,
           ~Pending(t, m), scopes'[t][m].id = span_counter + 1
    PROVE  IdsOnce'
<1>1. span_counter \in Nat
  BY DEF TypeOK
<1>2. \A u \in Threads : \A i : Pending(u, i) => scopes[u][i].id <= span_counter
  BY DEF Pending, IdsKnown
<1>3. \A i \in DOMAIN events' : events'[i].span \in 1 .. span_counter'
  BY <1>1 DEF IdsOnce
<1>4. \A i, j \in DOMAIN events' : events'[i].span = events'[j].span => i = j
  BY DEF IdsOnce
<1>5. \A u, v \in Threads : \A i, j : Pending(u, i) /\ Pending(v, j) /\ scopes[u][i].id = scopes[v][j].id
             => u = v /\ i = j
  BY DEF IdsOnce, Pending
<1>6. \A u \in Threads : \A i : Pending(u, i) => scopes'[u][i].id # span_counter + 1
  <2> SUFFICES ASSUME NEW u \in Threads, NEW i, Pending(u, i)
               PROVE  scopes[u][i].id # span_counter + 1
    OBVIOUS
  <2>1. scopes[u][i].id \in Nat /\ scopes[u][i].id <= span_counter
    <3>1. i \in DOMAIN scopes[u] /\ scopes[u] \in Seq(ScopeRecords)
      BY DEF Pending, TypeOK
    <3>2. scopes[u][i] \in ScopeRecords
      BY <3>1
    <3> QED
      BY <1>2, <3>2 DEF ScopeRecords
  <2> QED
    BY <1>1, <2>1
<1>7. ASSUME NEW u \in Threads, NEW v \in Threads, NEW i, NEW j, Pending(u, i)', Pending(v, j)',
             scopes'[u][i].id = scopes'[v][j].id
      PROVE  u = v /\ i = j
  BY <1>5, <1>6, <1>7
<1>8. \A u \in Threads : \A i, j : Pending(u, i) /\ j \in DOMAIN events => scopes[u][i].id # events[j].span
  BY DEF IdsOnce, Pending
<1>9. \A j \in DOMAIN events : events[j].span # span_counter + 1
  BY <1>1 DEF IdsOnce
<1>10. ASSUME NEW u \in Threads, NEW i, NEW j \in DOMAIN events', Pending(u, i)'
       PROVE  scopes'[u][i].id # events'[j].span
  BY <1>8, <1>9, <1>10
<1>11. ASSUME NEW n \in 1 .. span_counter'
       PROVE  \/ \E j \in DOMAIN events' : events'[j].span = n
              \/ \E u \in Threads : \E i \in DOMAIN scopes'[u] :
                    Pending(u, i)' /\ scopes'[u][i].id = n
  <2>1. CASE n = span_counter + 1
    <3>1. Pending(t, m)'
      OBVIOUS
    <3>2. m \in DOMAIN scopes'[t]
      BY <3>1 DEF Pending
    <3> QED
      BY <2>1, <3>1, <3>2
  <2>2. CASE n # span_counter + 1
    <3>1. n \in 1 .. span_counter
      BY <1>1, <2>2
    <3>2. CASE \E j \in DOMAIN events : events[j].span = n
      BY <3>2
    <3>3. CASE \E u \in Threads : \E i \in DOMAIN scopes[u] : Pending(u, i) /\ scopes[u][i].id = n
      <4>0. PICK u \in Threads : \E i \in DOMAIN scopes[u] : Pending(u, i) /\ scopes[u][i].id = n
        BY <3>3
      <4>1. PICK i \in DOMAIN scopes[u] : Pending(u, i) /\ scopes[u][i].id = n
        BY <4>0
      <4>2. Pending(u, i)' /\ scopes'[u][i].id = n
        BY <4>1
      <4>3. i \in DOMAIN scopes'[u]
        BY <4>2 DEF Pending
      <4> QED
        BY <4>2, <4>3
    <3> QED
      BY <3>1, <3>2, <3>3 DEF IdsOnce
  <2> QED
    BY <2>1, <2>2
<1> QED
  BY <1>3, <1>4, <1>7, <1>10, <1>11 DEF IdsOnce

\* A pending scope becomes an event.
LEMMA IdRecorded ==
    ASSUME TypeOK, IdsKnown, IdsOnce, NEW t \in Threads, NEW m, Pending(t, m),
           span_counter' = span_counter,
           NEW e, e \notin DOMAIN events, DOMAIN events' = DOMAIN events \cup {e},
           \A j \in DOMAIN events : events'[j] = events[j],
           events'[e].span = scopes[t][m].id,
           \A u \in Threads : \A i : Pending(u, i)' <=> Pending(u, i) /\ ~(u = t /\ i = m),
           \A u \in Threads : \A i : Pending(u, i)' => scopes'[u][i].id = scopes[u][i].id
    PROVE  IdsOnce'
<1>1. span_counter \in Nat
  BY DEF TypeOK
<1>2. scopes[t][m].id \in 1 .. span_counter
  <2>1. m \in DOMAIN scopes[t] /\ scopes[t] \in Seq(ScopeRecords)
    BY DEF Pending, TypeOK
  <2>2. scopes[t][m].id \in Nat
    <3>1. scopes[t][m] \in ScopeRecords
      BY <2>1
    <3> QED
      BY <3>1 DEF ScopeRecords
  <2>3. scopes[t][m].id <= span_counter /\ scopes[t][m].id # 0
    BY <2>1 DEF Pending, IdsKnown, Unset
  <2> QED
    BY <1>1, <2>2, <2>3
<1>3. \A j \in DOMAIN events' : events'[j].span \in 1 .. span_counter'
  BY <1>2 DEF IdsOnce
<1>4. \A j \in DOMAIN events : events[j].span # scopes[t][m].id
  BY DEF IdsOnce, Pending
<1>5. \A i, j \in DOMAIN events' : events'[i].span = events'[j].span => i = j
  BY <1>4 DEF IdsOnce
<1>6. \A u, v \in Threads : \A i, j : Pending(u, i) /\ Pending(v, j) /\ scopes[u][i].id = scopes[v][j].id
             => u = v /\ i = j
  BY DEF IdsOnce, Pending
<1>7. ASSUME NEW u \in Threads, NEW v \in Threads, NEW i, NEW j, Pending(u, i)', Pending(v, j)',
             scopes'[u][i].id = scopes'[v][j].id
      PROVE  u = v /\ i = j
  BY <1>6, <1>7
<1>8. \A u \in Threads : \A i, j : Pending(u, i) /\ j \in DOMAIN events => scopes[u][i].id # events[j].span
  BY DEF IdsOnce, Pending
<1>9. ASSUME NEW u \in Threads, NEW i, NEW j \in DOMAIN events', Pending(u, i)'
       PROVE  scopes'[u][i].id # events'[j].span
  <2>1. Pending(u, i) /\ ~(u = t /\ i = m) /\ scopes'[u][i].id = scopes[u][i].id
    BY <1>9
  <2>2. scopes[u][i].id # scopes[t][m].id
    BY <1>6, <2>1
  <2> QED
    BY <1>8, <2>1, <2>2
<1>10. ASSUME NEW n \in 1 .. span_counter'
       PROVE  \/ \E j \in DOMAIN events' : events'[j].span = n
              \/ \E u \in Threads : \E i \in DOMAIN scopes'[u] :
                    Pending(u, i)' /\ scopes'[u][i].id = n
  <2>1. CASE \E j \in DOMAIN events : events[j].span = n
    BY <2>1
  <2>2. CASE \E u \in Threads : \E i \in DOMAIN scopes[u] : Pending(u, i) /\ scopes[u][i].id = n
    <3>0. PICK u \in Threads : \E i \in DOMAIN scopes[u] : Pending(u, i) /\ scopes[u][i].id = n
      BY <2>2
    <3>1. PICK i \in DOMAIN scopes[u] : Pending(u, i) /\ scopes[u][i].id = n
      BY <3>0
    <3>2. CASE u = t /\ i = m
      BY <3>1, <3>2
    <3>3. CASE ~(u = t /\ i = m)
      <4>1. Pending(u, i)' /\ scopes'[u][i].id = n
        BY <3>1, <3>3
      <4>2. i \in DOMAIN scopes'[u]
        BY <4>1 DEF Pending
      <4> QED
        BY <4>1, <4>2
    <3> QED
      BY <3>2, <3>3
  <2> QED
    BY <2>1, <2>2 DEF IdsOnce
<1> QED
  BY <1>3, <1>5, <1>7, <1>9, <1>10 DEF IdsOnce

\* Nothing that has an event to come changes.
LEMMA IdsKept ==
    ASSUME IdsOnce, span_counter' = span_counter, events' = events,
           \A u \in Threads : \A i : Pending(u, i)' <=> Pending(u, i),
           \A u \in Threads : \A i : Pending(u, i) => scopes'[u][i].id = scopes[u][i].id
    PROVE  IdsOnce'
<1>1. \A u \in Threads : \A i : /\ Pending(u, i) => i \in DOMAIN scopes[u]
                                /\ Pending(u, i)' => i \in DOMAIN scopes'[u]
  BY DEF Pending
<1> QED
  BY <1>1 DEF IdsOnce

\* Every id handed out stays in one event or in one pending scope.
LEMMA IdsNext ==
    ASSUME TypeOK, IdsKnown, IdsOnce, Form
    PROVE  IdsOnce'
<1>1. ASSUME NEW t \in Threads, NEW n \in Nat, NEW m \in Nat, Grows(t, n, m) PROVE IdsOnce'
  <2>1. /\ DOMAIN scopes[t] = 1 .. n /\ DOMAIN scopes'[t] = 1 .. m /\ Kept(t, n)
        /\ events' = events /\ span_counter' = span_counter + 1
        /\ scopes'[t][m].id = span_counter + 1
        /\ scopes'[t][m].kind \notin {"activation", "flush", "submit"}
    BY <1>1 DEF Grows
  <2>2. /\ \A i : i \in 1 .. m <=> i \in 1 .. n \/ i = m
                                   \/ (i = n + 1 /\ m = n + 2)
        /\ m \notin 1 .. n /\ n + 1 \notin 1 .. n
    BY <1>1 DEF Grows
  <2>3. m = n + 2 => scopes'[t][n + 1].kind = "activation" /\ n + 1 # m
    BY <1>1 DEF Grows
  <2>4. \A u \in Threads : \A i : Pending(u, i)' <=> Pending(u, i) \/ (u = t /\ i = m)
    BY <2>1, <2>2, <2>3 DEF Pending, Kept
  <2>5. \A u \in Threads : \A i : Pending(u, i) => scopes'[u][i].id = scopes[u][i].id
    BY <2>1 DEF Pending, Kept
  <2>6. ~Pending(t, m)
    BY <2>1, <2>2 DEF Pending
  <2> QED
    BY <2>1, <2>4, <2>5, <2>6, IdAdded
<1>2. ASSUME NEW t \in Threads, NEW n \in Nat, NEW e \in Nat, Records(t, n, e) PROVE IdsOnce'
  <2>1. /\ DOMAIN scopes[t] = 1 .. n /\ n \in Nat \ {0} /\ Kept(t, n - 1)
        /\ scopes[t][n].kind \notin {"activation", "flush", "submit"}
        /\ DOMAIN events' = DOMAIN events \cup {e} /\ e \notin DOMAIN events
        /\ \A j \in DOMAIN events : events'[j] = events[j]
        /\ events'[e].span = scopes[t][n].id /\ span_counter' = span_counter
    BY <1>2 DEF Records
  <2>2. /\ \A i : i \in 1 .. n - 1 <=> i \in 1 .. n /\ i # n
        /\ Pending(t, n)
    BY <2>1 DEF Pending
  <2>3. \/ DOMAIN scopes'[t] = 1 .. n - 1
        \/ DOMAIN scopes'[t] = 1 .. n /\ scopes'[t][n].kind = "submit"
    BY <1>2 DEF Records
  <2>4. \A u \in Threads : \A i : Pending(u, i)' <=> Pending(u, i) /\ ~(u = t /\ i = n)
    BY <2>1, <2>2, <2>3 DEF Pending, Kept
  <2>5. \A u \in Threads : \A i : Pending(u, i)' => scopes'[u][i].id = scopes[u][i].id
    <3> SUFFICES ASSUME NEW u \in Threads, NEW i, Pending(u, i)'
                 PROVE  scopes'[u][i].id = scopes[u][i].id
      OBVIOUS
    <3>1. Pending(u, i) /\ ~(u = t /\ i = n)
      BY <2>4
    <3>2. i \in DOMAIN scopes[u]
      BY <3>1 DEF Pending
    <3> QED
      BY <2>1, <2>2, <3>1, <3>2 DEF Kept
  <2> QED
    BY <2>1, <2>2, <2>4, <2>5, IdRecorded
<1>3. ASSUME NEW t \in Threads, NEW n \in Nat, Drops(t, n) PROVE IdsOnce'
  <2>1. /\ DOMAIN scopes[t] = 1 .. n /\ n \in Nat \ {0} /\ Kept(t, n - 1)
        /\ scopes[t][n].kind \in {"activation", "flush", "submit"}
        /\ DOMAIN scopes'[t] = 1 .. n - 1
        /\ events' = events /\ span_counter' = span_counter
    BY <1>3 DEF Drops
  <2>2. /\ \A i : i \in 1 .. n - 1 <=> i \in 1 .. n /\ i # n
        /\ ~Pending(t, n)
    BY <2>1 DEF Pending
  <2>3. \A u \in Threads : \A i : Pending(u, i)' <=> Pending(u, i)
    BY <2>1, <2>2 DEF Pending, Kept
  <2>4. \A u \in Threads : \A i : Pending(u, i) => scopes'[u][i].id = scopes[u][i].id
    BY <2>1, <2>2 DEF Pending, Kept
  <2> QED
    BY <2>1, <2>3, <2>4, IdsKept
<1>4. ASSUME NEW t \in Threads, NEW n \in Nat, Waits(t, n) PROVE IdsOnce'
  <2>1. /\ DOMAIN scopes[t] = 1 .. n /\ DOMAIN scopes'[t] = 1 .. n + 1 /\ Kept(t, n)
        /\ scopes'[t][n + 1].kind = "flush"
        /\ events' = events /\ span_counter' = span_counter
    BY <1>4 DEF Waits
  <2>2. \A i : i \in 1 .. n + 1 <=> i \in 1 .. n \/ i = n + 1
    OBVIOUS
  <2>3. \A u \in Threads : \A i : Pending(u, i)' <=> Pending(u, i)
    BY <2>1, <2>2 DEF Pending, Kept
  <2>4. \A u \in Threads : \A i : Pending(u, i) => scopes'[u][i].id = scopes[u][i].id
    BY <2>1 DEF Pending, Kept
  <2> QED
    BY <2>1, <2>3, <2>4, IdsKept
<1>5. ASSUME Rests PROVE IdsOnce'
  BY <1>5, IdsKept DEF Rests, Pending
<1> QED
  BY <1>1, <1>2, <1>3, <1>4, <1>5 DEF Form

\* A scope has an id if its kind has one.
LEMMA IdsKnownNext ==
    ASSUME TypeOK, IdsKnown, TypeOK', Form
    PROVE  IdsKnown'
<1>1. span_counter \in Nat /\ span_counter' \in Nat /\ span_counter <= span_counter'
  <2>1. span_counter' = span_counter \/ span_counter' = span_counter + 1
    <3>1. ASSUME NEW t, NEW n, NEW m, Grows(t, n, m) PROVE span_counter' = span_counter + 1
      BY <3>1 DEF Grows
    <3>2. ASSUME NEW t, NEW n, NEW e, Records(t, n, e) PROVE span_counter' = span_counter
      BY <3>2 DEF Records
    <3>3. ASSUME NEW t, NEW n, Drops(t, n) \/ Waits(t, n) PROVE span_counter' = span_counter
      BY <3>3 DEF Drops, Waits
    <3>4. ASSUME Rests PROVE span_counter' = span_counter
      BY <3>4 DEF Rests
    <3> QED
      BY <3>1, <3>2, <3>3, <3>4 DEF Form
  <2> QED
    BY <2>1 DEF TypeOK
<1> DEFINE Good(u, i) == /\ scopes'[u][i].id <= span_counter'
                         /\ scopes'[u][i].id = Unset
                              <=> scopes'[u][i].kind \in {"activation", "flush"}
<1>2. ASSUME NEW u \in Threads, NEW i \in DOMAIN scopes[u], scopes'[u][i] = scopes[u][i]
      PROVE  Good(u, i)
  <2>1. scopes[u][i].id \in Nat
    <3>1. scopes[u] \in Seq(ScopeRecords)
      BY DEF TypeOK
    <3>2. scopes[u][i] \in ScopeRecords
      BY <3>1
    <3> QED
      BY <3>2 DEF ScopeRecords
  <2> QED
    BY <1>1, <1>2, <2>1 DEF IdsKnown
<1>3. ASSUME NEW t \in Threads, \A u \in Threads \ {t} : scopes'[u] = scopes[u],
             \A i \in DOMAIN scopes'[t] : Good(t, i)
      PROVE  IdsKnown'
  BY <1>2, <1>3 DEF IdsKnown
<1> HIDE DEF Good
<1>4. ASSUME NEW t \in Threads, NEW n \in Nat, NEW m \in Nat, Grows(t, n, m) PROVE IdsKnown'
  <2>1. /\ DOMAIN scopes'[t] = 1 .. m /\ Kept(t, n) /\ scopes'[t][m].id = span_counter + 1
        /\ span_counter' = span_counter + 1
        /\ scopes'[t][m].kind \notin {"activation", "flush", "submit"}
        /\ m = n + 2 => scopes'[t][n + 1].kind = "activation" /\ scopes'[t][n + 1].id = Unset
    BY <1>4 DEF Grows
  <2>2. \A i : i \in 1 .. m => i \in 1 .. n \/ i = m \/ (i = n + 1 /\ m = n + 2)
    BY <1>4 DEF Grows
  <2>3. \A i \in 1 .. n : Good(t, i)
    BY <1>2, <2>1 DEF Kept
  <2>4. Good(t, m)
    BY <1>1, <2>1 DEF Good, Unset
  <2>5. m = n + 2 => Good(t, n + 1)
    BY <1>1, <2>1 DEF Good, Unset
  <2> QED
    BY <1>3, <2>1, <2>2, <2>3, <2>4, <2>5 DEF Kept
<1>5. ASSUME NEW t \in Threads, NEW n \in Nat, NEW e \in Nat, Records(t, n, e) PROVE IdsKnown'
  <2>1. DOMAIN scopes[t] = 1 .. n /\ n \in Nat \ {0} /\ Kept(t, n - 1)
    BY <1>5 DEF Records
  <2>2. /\ \A i \in 1 .. n - 1 : Good(t, i)
        /\ \A i : i \in 1 .. n => i \in 1 .. n - 1 \/ i = n
    BY <1>2, <2>1 DEF Kept
  <2>3. CASE DOMAIN scopes'[t] = 1 .. n - 1
    BY <1>3, <2>1, <2>2, <2>3 DEF Kept
  <2>4. CASE DOMAIN scopes'[t] = 1 .. n /\ scopes'[t][n].kind = "submit"
             /\ scopes'[t][n].id = scopes[t][n].id
    <3>1. /\ scopes[t][n].kind \notin {"activation", "flush", "submit"} /\ n \in DOMAIN scopes[t]
          /\ span_counter' = span_counter
      BY <1>5, <2>1 DEF Records
    <3>2. Good(t, n)
      BY <2>4, <3>1 DEF Good, IdsKnown
    <3> QED
      BY <1>3, <2>1, <2>2, <2>4, <3>2 DEF Kept
  <2> QED
    BY <1>5, <2>3, <2>4 DEF Records
<1>6. ASSUME NEW t \in Threads, NEW n \in Nat, Drops(t, n) PROVE IdsKnown'
  <2>1. DOMAIN scopes'[t] = 1 .. n - 1 /\ Kept(t, n - 1)
    BY <1>6 DEF Drops
  <2> QED
    BY <1>2, <1>3, <2>1 DEF Kept
<1>7. ASSUME NEW t \in Threads, NEW n \in Nat, Waits(t, n) PROVE IdsKnown'
  <2>1. /\ DOMAIN scopes'[t] = 1 .. n + 1 /\ Kept(t, n)
        /\ scopes'[t][n + 1].kind = "flush" /\ scopes'[t][n + 1].id = Unset
    BY <1>7 DEF Waits
  <2>2. \A i : i \in 1 .. n + 1 => i \in 1 .. n \/ i = n + 1
    OBVIOUS
  <2>3. Good(t, n + 1)
    BY <1>1, <2>1 DEF Good, Unset
  <2> QED
    BY <1>2, <1>3, <2>1, <2>2, <2>3 DEF Kept
<1>8. ASSUME Rests PROVE IdsKnown'
  BY <1>8 DEF Rests, IdsKnown
<1> QED
  BY <1>4, <1>5, <1>6, <1>7, <1>8 DEF Form
-----------------------------------------------------------------------------
(* Lineage *)

\* Known, element by element, before and after a step.
LEMMA KnownIs ==
    /\ \A k : k \in Known <=>
          \/ \E j \in DOMAIN events :
                k = [span |-> events[j].span, run |-> events[j].run, parent |-> events[j].parent]
          \/ \E t \in Threads : \E i \in DOMAIN scopes[t] : /\ scopes[t][i].id # Unset
                /\ k = [span |-> scopes[t][i].id, run |-> scopes[t][i].run,
                        parent |-> scopes[t][i].parent]
    /\ \A k : k \in Known' <=>
          \/ \E j \in DOMAIN events' :
                k = [span |-> events'[j].span, run |-> events'[j].run, parent |-> events'[j].parent]
          \/ \E t \in Threads : \E i \in DOMAIN scopes'[t] : /\ scopes'[t][i].id # Unset
                /\ k = [span |-> scopes'[t][i].id, run |-> scopes'[t][i].run,
                        parent |-> scopes'[t][i].parent]
  BY DEF Known, Events, OpenScopes, ToSet

\* What is known has an id that was handed out.
LEMMA KnownIds ==
    ASSUME TypeOK, IdsKnown, IdsOnce, NEW k \in Known
    PROVE  k.span \in Nat /\ k.span <= span_counter
<1>1. span_counter \in Nat
  BY DEF TypeOK
<1>2. ASSUME NEW j \in DOMAIN events,
             k = [span |-> events[j].span, run |-> events[j].run, parent |-> events[j].parent]
      PROVE  k.span \in Nat /\ k.span <= span_counter
  <2>1. events[j].span \in 1 .. span_counter
    BY DEF IdsOnce
  <2> QED
    BY <1>1, <1>2, <2>1
<1>3. ASSUME NEW t \in Threads, NEW i \in DOMAIN scopes[t],
             k = [span |-> scopes[t][i].id, run |-> scopes[t][i].run,
                  parent |-> scopes[t][i].parent]
      PROVE  k.span \in Nat /\ k.span <= span_counter
  <2>1. scopes[t] \in Seq(ScopeRecords)
    BY DEF TypeOK
  <2>2. scopes[t][i] \in ScopeRecords
    BY <2>1
  <2>3. scopes[t][i].id \in Nat /\ scopes[t][i].id <= span_counter
    BY <2>2 DEF ScopeRecords, IdsKnown
  <2> QED
    BY <1>3, <2>3
<1> QED
  BY <1>2, <1>3, KnownIs

\* Nothing that is known is forgotten.
LEMMA KnownKept ==
    ASSUME IdsKnown, Lineage, Form
    PROVE  Known \subseteq Known'
<1>1. \A j \in DOMAIN events : j \in DOMAIN events' /\ events'[j] = events[j]
  BY EventsKept
<1>2. ASSUME NEW t \in Threads, NEW i \in DOMAIN scopes[t], scopes[t][i].id # Unset
      PROVE  \/ /\ i \in DOMAIN scopes'[t] /\ scopes'[t][i].id = scopes[t][i].id
                /\ scopes'[t][i].run = scopes[t][i].run
                /\ scopes'[t][i].parent = scopes[t][i].parent
             \/ \E j \in DOMAIN events' :
                   /\ events'[j].span = scopes[t][i].id /\ events'[j].run = scopes[t][i].run
                   /\ events'[j].parent = scopes[t][i].parent
  <2>1. CASE Rests
    BY <2>1 DEF Rests
  <2>2. ASSUME NEW u \in Threads, NEW n \in Nat, NEW m \in Nat, Grows(u, n, m)
        PROVE  i \in DOMAIN scopes'[t] /\ scopes'[t][i] = scopes[t][i]
    <3>1. 1 .. n \subseteq 1 .. m
      BY <2>2 DEF Grows
    <3> QED
      BY <2>2, <3>1 DEF Grows, Kept
  <2>3. ASSUME NEW u \in Threads, NEW n \in Nat, Waits(u, n)
        PROVE  i \in DOMAIN scopes'[t] /\ scopes'[t][i] = scopes[t][i]
    <3>1. 1 .. n \subseteq 1 .. n + 1
      OBVIOUS
    <3> QED
      BY <2>3, <3>1 DEF Waits, Kept
  <2>4. ASSUME NEW u \in Threads, NEW n \in Nat, NEW e \in Nat, Records(u, n, e)
        PROVE  \/ i \in DOMAIN scopes'[t] /\ scopes'[t][i] = scopes[t][i]
               \/ /\ e \in DOMAIN events' /\ events'[e].span = scopes[t][i].id
                  /\ events'[e].run = scopes[t][i].run /\ events'[e].parent = scopes[t][i].parent
    <3>1. CASE u = t /\ i = n
      BY <2>4, <3>1 DEF Records
    <3>2. CASE u = t /\ i # n
      <4>1. i \in 1 .. n - 1 /\ 1 .. n - 1 \subseteq 1 .. n
        BY <2>4, <3>2 DEF Records
      <4> QED
        BY <2>4, <3>2, <4>1 DEF Records, Kept
    <3>3. CASE u # t
      BY <2>4, <3>3 DEF Records, Kept
    <3> QED
      BY <3>1, <3>2, <3>3
  <2>5. ASSUME NEW u \in Threads, NEW n \in Nat, Drops(u, n)
        PROVE  \/ i \in DOMAIN scopes'[t] /\ scopes'[t][i] = scopes[t][i]
               \/ \E j \in DOMAIN events' :
                   /\ events'[j].span = scopes[t][i].id /\ events'[j].run = scopes[t][i].run
                   /\ events'[j].parent = scopes[t][i].parent
    <3>1. CASE u = t /\ i = n
      <4>1. scopes[t][i].kind \in {"activation", "flush", "submit"}
        BY <2>5, <3>1 DEF Drops
      <4>2. scopes[t][i].kind = "submit"
        BY <1>2, <4>1 DEF IdsKnown
      <4> QED
        BY <1>1, <4>2 DEF Lineage
    <3>2. CASE u = t /\ i # n
      <4>1. i \in 1 .. n - 1
        BY <2>5, <3>2 DEF Drops
      <4> QED
        BY <2>5, <3>2, <4>1 DEF Drops, Kept
    <3>3. CASE u # t
      BY <2>5, <3>3 DEF Drops, Kept
    <3> QED
      BY <3>1, <3>2, <3>3
  <2> QED
    BY <2>1, <2>2, <2>3, <2>4, <2>5 DEF Form
<1>3. ASSUME NEW k \in Known PROVE k \in Known'
  <2>1. CASE \E j \in DOMAIN events :
               k = [span |-> events[j].span, run |-> events[j].run, parent |-> events[j].parent]
    BY <1>1, <2>1, KnownIs
  <2>2. ASSUME NEW t \in Threads, NEW i \in DOMAIN scopes[t], scopes[t][i].id # Unset,
               k = [span |-> scopes[t][i].id, run |-> scopes[t][i].run,
                    parent |-> scopes[t][i].parent]
        PROVE  k \in Known'
    BY <1>2, <2>2, KnownIs
  <2> QED
    BY <2>1, <2>2, KnownIs
<1> QED
  BY <1>3

\* What becomes known has a new id and a parent that is known.
LEMMA KnownAdded ==
    ASSUME IdsKnown, Form, NEW k \in Known'
    PROVE  \/ k \in Known
           \/ /\ k.span = span_counter + 1 /\ span_counter' = span_counter + 1
              /\ Rooted(k.parent, k.run)
<1>1. ASSUME NEW t \in Threads, NEW i \in DOMAIN scopes[t], scopes[t][i].id # Unset,
             k = [span |-> scopes[t][i].id, run |-> scopes[t][i].run,
                  parent |-> scopes[t][i].parent]
      PROVE  k \in Known
  BY <1>1, KnownIs
<1>2. ASSUME NEW j \in DOMAIN events',
             k = [span |-> events'[j].span, run |-> events'[j].run, parent |-> events'[j].parent]
      PROVE  k \in Known
  <2>1. CASE j \in DOMAIN events /\ events'[j] = events[j]
    BY <1>2, <2>1, KnownIs
  <2>2. ASSUME NEW u \in Threads, NEW n \in Nat, NEW e \in Nat, Records(u, n, e), j = e
        PROVE  k \in Known
    <3>1. /\ n \in DOMAIN scopes[u] /\ scopes[u][n].kind \notin {"activation", "flush"}
          /\ events'[j].span = scopes[u][n].id /\ events'[j].run = scopes[u][n].run
          /\ events'[j].parent = scopes[u][n].parent
      BY <2>2 DEF Records
    <3>2. scopes[u][n].id # Unset
      BY <3>1 DEF IdsKnown
    <3> QED
      BY <1>1, <1>2, <3>1, <3>2
  <2>3. ASSUME NEW u \in Threads, NEW n \in Nat, NEW e \in Nat, Records(u, n, e)
        PROVE  j = e \/ (j \in DOMAIN events /\ events'[j] = events[j])
    BY <2>3 DEF Records
  <2>4. CASE events' = events
    BY <2>1, <2>4
  <2>5. events' = events \/ \E u \in Threads, n, e \in Nat : Records(u, n, e)
    BY DEF Form, Grows, Drops, Waits, Rests
  <2> QED
    BY <2>1, <2>2, <2>3, <2>4, <2>5
<1>3. ASSUME NEW t \in Threads, NEW i \in DOMAIN scopes'[t], scopes'[t][i].id # Unset
      PROVE  \/ /\ i \in DOMAIN scopes[t] /\ scopes[t][i].id = scopes'[t][i].id
                /\ scopes'[t][i].run = scopes[t][i].run
                /\ scopes'[t][i].parent = scopes[t][i].parent
             \/ /\ scopes'[t][i].id = span_counter + 1 /\ span_counter' = span_counter + 1
                /\ Rooted(scopes'[t][i].parent, scopes'[t][i].run)
  <2>1. CASE Rests
    BY <2>1 DEF Rests
  <2>2. ASSUME NEW u \in Threads, NEW n \in Nat, NEW m \in Nat, Grows(u, n, m)
        PROVE  \/ i \in DOMAIN scopes[t] /\ scopes'[t][i] = scopes[t][i]
               \/ /\ scopes'[t][i].id = span_counter + 1 /\ span_counter' = span_counter + 1
                  /\ Rooted(scopes'[t][i].parent, scopes'[t][i].run)
    <3>1. CASE u # t
      BY <2>2, <3>1 DEF Grows, Kept
    <3>2. CASE u = t
      <4>1. i \in 1 .. n \/ i = m \/ (i = n + 1 /\ m = n + 2)
        BY <2>2, <3>2 DEF Grows
      <4>2. ~(i = n + 1 /\ m = n + 2)
        BY <1>3, <2>2, <3>2 DEF Grows
      <4> QED
        BY <2>2, <3>2, <4>1, <4>2 DEF Grows, Kept
    <3> QED
      BY <3>1, <3>2
  <2>3. ASSUME NEW u \in Threads, NEW n \in Nat, Waits(u, n)
        PROVE  i \in DOMAIN scopes[t] /\ scopes'[t][i] = scopes[t][i]
    <3>1. CASE u # t
      BY <2>3, <3>1 DEF Waits, Kept
    <3>2. CASE u = t
      <4>1. i \in 1 .. n \/ i = n + 1
        BY <2>3, <3>2 DEF Waits
      <4> QED
        BY <1>3, <2>3, <3>2, <4>1 DEF Waits, Kept
    <3> QED
      BY <3>1, <3>2
  <2>4. ASSUME NEW u \in Threads, NEW n \in Nat, NEW e \in Nat, Records(u, n, e)
        PROVE  /\ i \in DOMAIN scopes[t] /\ scopes'[t][i].id = scopes[t][i].id
               /\ scopes'[t][i].run = scopes[t][i].run
               /\ scopes'[t][i].parent = scopes[t][i].parent
    <3>1. CASE u = t /\ i = n
      BY <2>4, <3>1 DEF Records
    <3>2. CASE u = t /\ i # n
      <4>1. i \in 1 .. n - 1
        BY <2>4, <3>2 DEF Records
      <4> QED
        BY <2>4, <3>2, <4>1 DEF Records, Kept
    <3>3. CASE u # t
      BY <2>4, <3>3 DEF Records, Kept
    <3> QED
      BY <3>1, <3>2, <3>3
  <2>5. ASSUME NEW u \in Threads, NEW n \in Nat, Drops(u, n)
        PROVE  i \in DOMAIN scopes[t] /\ scopes'[t][i] = scopes[t][i]
    <3>1. CASE u = t
      BY <2>5, <3>1 DEF Drops, Kept
    <3>2. CASE u # t
      BY <2>5, <3>2 DEF Drops, Kept
    <3> QED
      BY <3>1, <3>2
  <2> QED
    BY <2>1, <2>2, <2>3, <2>4, <2>5 DEF Form
<1>4. ASSUME NEW t \in Threads, NEW i \in DOMAIN scopes'[t], scopes'[t][i].id # Unset,
             k = [span |-> scopes'[t][i].id, run |-> scopes'[t][i].run,
                  parent |-> scopes'[t][i].parent]
      PROVE  \/ k \in Known
             \/ /\ k.span = span_counter + 1 /\ span_counter' = span_counter + 1
                /\ Rooted(k.parent, k.run)
  <2>1. CASE /\ i \in DOMAIN scopes[t] /\ scopes[t][i].id = scopes'[t][i].id
             /\ scopes'[t][i].run = scopes[t][i].run
             /\ scopes'[t][i].parent = scopes[t][i].parent
    BY <1>1, <1>4, <2>1
  <2>2. CASE /\ scopes'[t][i].id = span_counter + 1 /\ span_counter' = span_counter + 1
             /\ Rooted(scopes'[t][i].parent, scopes'[t][i].run)
    <3>1. k.span = scopes'[t][i].id /\ k.parent = scopes'[t][i].parent /\ k.run = scopes'[t][i].run
      BY <1>4
    <3> QED
      BY <2>2, <3>1
  <2> QED
    BY <1>3, <1>4, <2>1, <2>2
<1> QED
  BY <1>2, <1>4, KnownIs

\* A step keeps the span trees, also across the queue.
LEMMA LineageNext ==
    ASSUME Inductive, [Next]_vars
    PROVE  Lineage'
<1> USE DEF Threads
<1>1. TypeOK /\ IdsKnown /\ IdsOnce /\ Lineage /\ span_counter \in Nat
  BY DEF Inductive, TypeOK
<1>2. Form
  BY <1>1, NextShape, ShapeForm
<1>3. Known \subseteq Known'
  BY <1>1, <1>2, KnownKept
<1>4. ParentInRun'
  <2> SUFFICES ASSUME NEW k \in Known', k.parent # Unset
               PROVE  \E p \in Known' : p.span = k.parent /\ p.run = k.run /\ p.span < k.span
    BY DEF ParentInRun, Unset
  <2>1. CASE k \in Known
    BY <1>1, <1>3, <2>1 DEF Lineage, ParentInRun
  <2>2. CASE k.span = span_counter + 1 /\ Rooted(k.parent, k.run)
    <3>1. PICK p \in Known : p.span = k.parent /\ p.run = k.run
      BY <2>2 DEF Rooted, Opened
    <3>2. p.span \in Nat /\ p.span <= span_counter
      BY <1>1, KnownIds
    <3>3. p.span < k.span
      BY <1>1, <2>2, <3>2
    <3> QED
      BY <1>3, <3>1, <3>3
  <2> QED
    BY <1>1, <1>2, <2>1, <2>2, KnownAdded
<1>5. \A n, r : Opened(n, r) => Opened(n, r)'
  BY <1>3 DEF Opened
<1>6. \A q \in queue' : q.parent # Unset => Opened(q.parent, q.run)'
  <2>1. ASSUME NEW c \in Clients, Submit(c), NEW q \in queue' PROVE q.parent # Unset => Opened(q.parent, q.run)'
    <3>1. q \in queue \/ q = Carried(Last(scopes[c]))
      BY <2>1 DEF Submit
    <3>2. PICK n \in DOMAIN scopes[c] : Last(scopes[c]) = scopes[c][n] /\ scopes[c][n].kind = "submit"
      BY <1>1, <2>1, InnermostIs DEF Kinds, Submit
    <3>3. scopes[c][n].id # Unset
      BY <1>1, <3>2 DEF IdsKnown
    <3>4. PICK k \in Known : k = [span |-> scopes[c][n].id, run |-> scopes[c][n].run,
                                  parent |-> scopes[c][n].parent]
      BY <3>2, <3>3, OpenIsOpened
    <3>5. k.parent # Unset => Opened(k.parent, k.run)
      BY <1>1 DEF Lineage, ParentInRun, Opened
    <3>6. q = Carried(Last(scopes[c])) => q.parent = k.parent /\ q.run = k.run
      BY <3>2, <3>4 DEF Carried
    <3> QED
      BY <1>1, <1>5, <3>1, <3>5, <3>6 DEF Lineage
  <2>2. (\A c \in Clients : ~Submit(c)) => queue' \subseteq queue
    BY DEF Next, vars, OpenSpan, RecordInstant, AppendInstant, CloseSpan, CloseActivation, Flush,
           BeginCall, AnnounceTask, AppendSubmitted, WaitAllReturn, WaitAllFlush, StartTask,
           BeginCompile, EndCompile, AppendOutcome, Settle, DestroySession, DestroyContext,
           Destroyed
  <2> QED
    BY <1>1, <1>5, <2>1, <2>2 DEF Lineage
<1>7. ASSUME NEW t \in Threads, NEW i \in DOMAIN scopes'[t], scopes'[t][i].kind = "submit"
      PROVE  \E j \in DOMAIN events' : /\ events'[j].span = scopes'[t][i].id
                                       /\ events'[j].run = scopes'[t][i].run
                                       /\ events'[j].parent = scopes'[t][i].parent
  <2>1. \A j \in DOMAIN events : j \in DOMAIN events' /\ events'[j] = events[j]
    BY <1>2, EventsKept
  <2>2. CASE i \in DOMAIN scopes[t] /\ scopes'[t][i] = scopes[t][i]
    BY <1>1, <1>7, <2>1, <2>2 DEF Lineage
  <2>3. CASE Rests
    BY <2>2, <2>3 DEF Rests
  <2>4. ASSUME NEW u \in Threads, NEW n \in Nat, NEW m \in Nat, Grows(u, n, m)
        PROVE  i \in DOMAIN scopes[t] /\ scopes'[t][i] = scopes[t][i]
    <3>1. CASE u # t
      BY <2>4, <3>1 DEF Grows, Kept
    <3>2. CASE u = t
      <4>1. i \in 1 .. n \/ i = m \/ (i = n + 1 /\ m = n + 2)
        BY <2>4, <3>2 DEF Grows
      <4> QED
        BY <1>7, <2>4, <3>2, <4>1 DEF Grows, Kept
    <3> QED
      BY <3>1, <3>2
  <2>5. ASSUME NEW u \in Threads, NEW n \in Nat, Waits(u, n)
        PROVE  i \in DOMAIN scopes[t] /\ scopes'[t][i] = scopes[t][i]
    <3>1. CASE u # t
      BY <2>5, <3>1 DEF Waits, Kept
    <3>2. CASE u = t
      <4>1. i \in 1 .. n \/ i = n + 1
        BY <2>5, <3>2 DEF Waits
      <4> QED
        BY <1>7, <2>5, <3>2, <4>1 DEF Waits, Kept
    <3> QED
      BY <3>1, <3>2
  <2>6. ASSUME NEW u \in Threads, NEW n \in Nat, NEW e \in Nat, Records(u, n, e)
        PROVE  \/ i \in DOMAIN scopes[t] /\ scopes'[t][i] = scopes[t][i]
               \/ /\ e \in DOMAIN events' /\ events'[e].span = scopes'[t][i].id
                  /\ events'[e].run = scopes'[t][i].run
                  /\ events'[e].parent = scopes'[t][i].parent
    <3>1. CASE u = t /\ i = n
      BY <2>6, <3>1 DEF Records
    <3>2. CASE u = t /\ i # n
      <4>1. i \in 1 .. n - 1
        BY <2>6, <3>2 DEF Records
      <4> QED
        BY <2>6, <3>2, <4>1 DEF Records, Kept
    <3>3. CASE u # t
      BY <2>6, <3>3 DEF Records, Kept
    <3> QED
      BY <3>1, <3>2, <3>3
  <2>7. ASSUME NEW u \in Threads, NEW n \in Nat, Drops(u, n)
        PROVE  i \in DOMAIN scopes[t] /\ scopes'[t][i] = scopes[t][i]
    <3>1. CASE u = t
      BY <2>7, <3>1 DEF Drops, Kept
    <3>2. CASE u # t
      BY <2>7, <3>2 DEF Drops, Kept
    <3> QED
      BY <3>1, <3>2
  <2> QED
    BY <1>2, <2>2, <2>3, <2>4, <2>5, <2>6, <2>7 DEF Form
<1> QED
  BY <1>4, <1>6, <1>7 DEF Lineage
-----------------------------------------------------------------------------
(* WorkerAt and ClientAt *)

\* The steps of one thread.
ClientActs(c) ==
    \/ BeginCall(c) \/ \E task \in Tasks : AnnounceTask(c, task)
    \/ AppendSubmitted(c) \/ Submit(c) \/ WaitAllReturn(c) \/ WaitAllFlush(c)

WorkerActs(w) ==
    \/ \E q \in queue : StartTask(w, q)
    \/ BeginCompile(w) \/ EndCompile(w) \/ AppendOutcome(w) \/ Settle(w)

ThreadActs(t) ==
    \/ OpenSpan(t) \/ RecordInstant(t) \/ AppendInstant(t)
    \/ CloseSpan(t) \/ CloseActivation(t) \/ Flush(t)

Acts(t) ==
    \/ ThreadActs(t) \/ (t \in Clients /\ ClientActs(t)) \/ (t \in Workers /\ WorkerActs(t))

\* A thread steps, or none does.
LEMMA NextActs ==
    ASSUME [Next]_vars
    PROVE  \/ \E t \in Threads : Acts(t)
           \/ /\ DestroySession \/ DestroyContext \/ Destroyed \/ UNCHANGED vars
              /\ UNCHANGED <<scopes, phase, queue, settled, events>>
<1>1. ASSUME DestroySession \/ DestroyContext \/ Destroyed \/ UNCHANGED vars
      PROVE  UNCHANGED <<scopes, phase, queue, settled, events>>
  BY <1>1 DEF DestroySession, DestroyContext, Destroyed, vars
<1> QED
  BY <1>1 DEF Next, Acts, ThreadActs, ClientActs, WorkerActs, Threads

\* A step of one thread leaves the others where they are.
LEMMA Alone ==
    ASSUME TypeOK, NEW t \in Threads, Acts(t)
    PROVE  /\ \A u \in Threads \ {t} : scopes'[u] = scopes[u]
           /\ \A w \in Workers \ {t} : phase'[w] = phase[w]
<1>1. scopes \in [Threads -> Seq(ScopeRecords)] /\ phase \in [Workers -> Phases]
  BY DEF TypeOK
<1>2. CASE ThreadActs(t)
  BY <1>1, <1>2 DEF ThreadActs, OpenSpan, RecordInstant, AppendInstant, CloseSpan,
                    CloseActivation, Flush, Open, Close, TakeInstantId
<1>3. CASE ClientActs(t)
  BY <1>1, <1>3 DEF ClientActs, BeginCall, AnnounceTask, AppendSubmitted, Submit, WaitAllReturn,
                    WaitAllFlush, Open, Close, TakeInstantId, Enter
<1>4. CASE WorkerActs(t)
  BY <1>1, <1>4 DEF WorkerActs, StartTask, BeginCompile, EndCompile, AppendOutcome, Settle,
                    Open, Close, TakeInstantId, Enter
<1> QED
  BY <1>2, <1>3, <1>4 DEF Acts

\* Inside the compilation a worker opens ...
LEMMA WorkerPush ==
    ASSUME NEW s \in Seq(ScopeRecords), NEW r \in Seq(ScopeRecords), NEW at \in Phases,
           WorkerStack(s, at), Len(s) > 2, Len(r) = Len(s) + 1,
           \A i \in 1 .. Len(s) : r[i] = s[i], r[Len(s) + 1].kind \in {"span", "instant"}
    PROVE  WorkerStack(r, at)
<1>1. PICK n \in Nat : n = Len(s) /\ n > 2 /\ DOMAIN s = 1 .. n /\ DOMAIN r = 1 .. n + 1
  OBVIOUS
<1>2. at = "compiling" /\ s # <<>> /\ r # <<>>
  BY <1>1 DEF WorkerStack, Phases
<1>3. r[1] = s[1] /\ r[2] = s[2] /\ r[3] = s[3] /\ Len(r) > 1 /\ Len(r) >= 2 /\ Len(s) > 1
  BY <1>1
<1>4. \A i \in 1 .. n + 1 : (i \in 1 .. n /\ r[i] = s[i]) \/ i = n + 1
  BY <1>1
<1>5. \A i \in DOMAIN r : /\ r[i].kind \notin {"submitted", "submit", "flush"}
                          /\ r[i].kind \in Outcomes =>
                               i = 3 /\ r[i].task = r[1].task /\ r[i].run = r[1].run
  BY <1>1, <1>3, <1>4 DEF WorkerStack, Outcomes
<1> QED
  BY <1>2, <1>3, <1>5 DEF WorkerStack

\* ... and closes scopes.
LEMMA WorkerPop ==
    ASSUME NEW s \in Seq(ScopeRecords), NEW r \in Seq(ScopeRecords), NEW at \in Phases,
           WorkerStack(s, at), Len(s) > 2, Len(r) = Len(s) - 1,
           \A i \in 1 .. Len(s) - 1 : r[i] = s[i]
    PROVE  /\ at = "compiling" /\ WorkerStack(r, at)
           /\ s[Len(s)].kind \in Outcomes => WorkerStack(r, "settle")
<1>1. PICK n \in Nat : n = Len(s) /\ n > 2 /\ DOMAIN s = 1 .. n /\ DOMAIN r = 1 .. n - 1
  OBVIOUS
<1>2. at = "compiling" /\ s # <<>> /\ r # <<>>
  BY <1>1 DEF WorkerStack, Phases
<1>3. r[1] = s[1] /\ r[2] = s[2] /\ Len(r) > 1 /\ Len(r) >= 2 /\ Len(s) > 1
  BY <1>1
<1>4. \A i \in 1 .. n - 1 : i \in 1 .. n /\ r[i] = s[i]
  BY <1>1
<1>5. \A i \in DOMAIN r : /\ r[i].kind \notin {"submitted", "submit", "flush"}
                          /\ r[i].kind \in Outcomes =>
                               i = 3 /\ r[i].task = r[1].task /\ r[i].run = r[1].run
  <2> SUFFICES ASSUME NEW i \in DOMAIN r
               PROVE  /\ r[i].kind \notin {"submitted", "submit", "flush"}
                      /\ r[i].kind \in Outcomes =>
                           i = 3 /\ r[i].task = r[1].task /\ r[i].run = r[1].run
    OBVIOUS
  <2>1. i \in DOMAIN s /\ r[i] = s[i] /\ r[1] = s[1]
    BY <1>1, <1>3, <1>4
  <2> QED
    BY <2>1 DEF WorkerStack
<1>6. WorkerStack(r, at)
  BY <1>2, <1>3, <1>5 DEF WorkerStack
<1>7. ASSUME s[n].kind \in Outcomes PROVE WorkerStack(r, "settle")
  <2>1. n = 3
    BY <1>1, <1>7 DEF WorkerStack
  <2>2. Len(r) = 2 /\ DOMAIN r = {1, 2}
    BY <1>1, <2>1
  <2>3. \A i \in DOMAIN r : r[i].kind \notin Outcomes
    BY <1>5, <2>2
  <2> QED
    BY <1>2, <1>3, <1>5, <2>2, <2>3 DEF WorkerStack
<1> QED
  BY <1>1, <1>2, <1>6, <1>7
\* A worker's step leaves it at a point of WorkerLoop.
LEMMA WorkerNext ==
    ASSUME Inductive, [Next]_vars
    PROVE  \A w \in Workers : WorkerAt(w)'
<1> USE DEF Threads
<1>1. /\ TypeOK /\ TypeOK' /\ Nested /\ phase \in [Workers -> Phases]
      /\ \A t \in Threads : scopes[t] \in Seq(ScopeRecords) /\ scopes'[t] \in Seq(ScopeRecords)
      /\ \A w \in Workers : WorkerStack(scopes[w], phase[w])
  BY TypeNext DEF Inductive, TypeOK, WorkerAt
<1> SUFFICES ASSUME NEW w \in Workers PROVE WorkerStack(scopes'[w], phase'[w])
  BY DEF WorkerAt
<1>2. CASE scopes'[w] = scopes[w] /\ phase'[w] = phase[w]
  BY <1>1, <1>2
<1>3. w \notin Clients /\ phase[w] \in Phases
  BY <1>1, ProfilingAssumption
<1>4. ASSUME NEW e \in ScopeRecords, Open(w, e), InsideCall(w), phase' = phase,
             e.kind \in {"span", "instant"}
      PROVE  WorkerStack(scopes'[w], phase'[w])
  <2>1. Len(scopes[w]) > 2
    BY <1>3, <1>4 DEF InsideCall
  <2>2. /\ Len(scopes'[w]) = Len(scopes[w]) + 1
        /\ \A i \in 1 .. Len(scopes[w]) : scopes'[w][i] = scopes[w][i]
        /\ scopes'[w][Len(scopes[w]) + 1] = e
    BY <1>1, <1>4, OpenFacts
  <2> QED
    BY <1>1, <1>3, <1>4, <2>1, <2>2, WorkerPush
<1>5. ASSUME Close(w), scopes[w] # <<>>
      PROVE  /\ Len(scopes'[w]) = Len(scopes[w]) - 1
             /\ \A i \in 1 .. Len(scopes[w]) - 1 : scopes'[w][i] = scopes[w][i]
             /\ Len(scopes[w]) \in Nat \ {0}
  BY <1>1, <1>5, CloseFacts
<1>6. CASE OpenSpan(w) \/ RecordInstant(w)
  <2>1. PICK kind \in {"span", "instant"} :
          /\ Open(w, Scope(kind, span_counter + 1, tls[w].run, CurrentSpanId(w), NoTask))
          /\ InsideCall(w) /\ phase' = phase
    BY <1>6 DEF OpenSpan, RecordInstant, TakeInstantId, MayOpen
  <2>2. PICK e : e = Scope(kind, span_counter + 1, tls[w].run, CurrentSpanId(w), NoTask)
    OBVIOUS
  <2>3. kind \in Kinds /\ span_counter + 1 \in Nat
    BY <1>1 DEF Kinds, TypeOK
  <2>4. e \in ScopeRecords /\ e.kind = kind
    BY <1>1, <2>2, <2>3, ScopeTyped, CurrentTyped
  <2> QED
    BY <1>4, <2>1, <2>2, <2>4
<1>7. ASSUME Innermost(w) \in Kinds
      PROVE  /\ scopes[w] # <<>> /\ scopes[w][Len(scopes[w])].kind = Innermost(w)
             /\ Len(scopes[w]) \in Nat \ {0} /\ Len(scopes[w]) \in DOMAIN scopes[w]
             /\ Last(scopes[w]) = scopes[w][Len(scopes[w])]
             /\ Innermost(w) # "activation" => Len(scopes[w]) # 1
             /\ Innermost(w) # "span" => Len(scopes[w]) # 2
  <2>1. /\ scopes[w] # <<>> /\ scopes[w][Len(scopes[w])].kind = Innermost(w)
        /\ Len(scopes[w]) \in Nat \ {0} /\ Last(scopes[w]) = scopes[w][Len(scopes[w])]
    BY <1>1, <1>7, InnermostIs
  <2> QED
    BY <1>1, <2>1 DEF WorkerStack
<1>8. CASE AppendInstant(w) \/ AppendOutcome(w)
  <2>1. Innermost(w) \in {"instant", "completed", "error"} /\ Close(w)
    BY <1>8 DEF AppendInstant, AppendOutcome
  <2>2. /\ scopes[w] # <<>> /\ scopes[w][Len(scopes[w])].kind = Innermost(w)
        /\ Len(scopes[w]) > 2
    <3>1. Innermost(w) \in Kinds /\ Innermost(w) # "activation" /\ Innermost(w) # "span"
      BY <2>1 DEF Kinds
    <3>2. PICK n : n = Len(scopes[w])
      OBVIOUS
    <3>3. n \in Nat \ {0} /\ n # 1 /\ n # 2
      BY <1>7, <3>1, <3>2
    <3>4. n > 2
      BY <3>3
    <3> QED
      BY <1>7, <3>1, <3>2, <3>4
  <2>3. /\ phase[w] = "compiling" /\ WorkerStack(scopes'[w], phase[w])
        /\ scopes[w][Len(scopes[w])].kind \in Outcomes => WorkerStack(scopes'[w], "settle")
    <3>1. PICK s \in Seq(ScopeRecords), r \in Seq(ScopeRecords), at \in Phases :
            s = scopes[w] /\ r = scopes'[w] /\ at = phase[w]
      BY <1>1, <1>3
    <3>2. WorkerStack(s, at) /\ Len(s) > 2 /\ Len(r) = Len(s) - 1
          /\ \A i \in 1 .. Len(s) - 1 : r[i] = s[i]
      BY <1>1, <1>5, <2>1, <2>2, <3>1
    <3>3. /\ at = "compiling" /\ WorkerStack(r, at)
          /\ s[Len(s)].kind \in Outcomes => WorkerStack(r, "settle")
      BY <3>2, WorkerPop
    <3> QED
      BY <3>1, <3>3
  <2>4. CASE AppendInstant(w)
    BY <2>3, <2>4 DEF AppendInstant
  <2>5. CASE AppendOutcome(w)
    <3>1. Innermost(w) \in Outcomes /\ phase'[w] = "settle"
      BY <1>1, <2>5 DEF AppendOutcome, Outcomes
    <3> QED
      BY <2>2, <2>3, <3>1
  <2> QED
    BY <1>8, <2>4, <2>5
<1>9. ASSUME Close(w), Len(scopes[w]) > 2, scopes[w] # <<>>
      PROVE  phase[w] = "compiling" /\ WorkerStack(scopes'[w], phase[w])
  <2>1. PICK s \in Seq(ScopeRecords), r \in Seq(ScopeRecords), at \in Phases :
          s = scopes[w] /\ r = scopes'[w] /\ at = phase[w]
    BY <1>1, <1>3
  <2>2. WorkerStack(s, at) /\ Len(s) > 2 /\ Len(r) = Len(s) - 1
        /\ \A i \in 1 .. Len(s) - 1 : r[i] = s[i]
    BY <1>1, <1>5, <1>9, <2>1
  <2>3. at = "compiling" /\ WorkerStack(r, at)
    BY <2>2, WorkerPop
  <2> QED
    BY <2>1, <2>3
<1>10. CASE CloseSpan(w)
  <2>1. /\ scopes[w] # <<>> /\ Close(w) /\ phase' = phase /\ Len(scopes[w]) \in Nat \ {0, 1}
        /\ (~InsideCall(w) => phase[w] = "close")
    BY <1>7, <1>10 DEF CloseSpan, Kinds
  <2>2. CASE Len(scopes[w]) > 2
    BY <1>9, <2>1, <2>2
  <2>3. CASE Len(scopes[w]) = 2
    <3>1. phase[w] = "close" /\ phase'[w] = "close"
      BY <1>3, <2>1, <2>3 DEF InsideCall
    <3>2. Len(scopes'[w]) = 1 /\ scopes'[w][1] = scopes[w][1]
      BY <1>5, <2>1, <2>3
    <3>3. PICK r \in Seq(ScopeRecords), one \in ScopeRecords :
            /\ r = scopes'[w] /\ r[1] = one /\ Len(r) = 1
            /\ one.kind = "activation" /\ one.task \in Tasks
      BY <1>1, <2>1, <3>2 DEF WorkerStack
    <3>4. DOMAIN r = {1} /\ r # <<>>
      BY <3>3
    <3>5. WorkerStack(r, "close")
      BY <3>3, <3>4 DEF WorkerStack, Outcomes
    <3> QED
      BY <3>1, <3>3, <3>5
  <2>4. \A n \in Nat \ {0, 1} : n > 2 \/ n = 2
    OBVIOUS
  <2> QED
    BY <2>1, <2>2, <2>3, <2>4
<1>11. CASE CloseActivation(w)
  <2>1. /\ scopes[w] # <<>> /\ Close(w) /\ Len(scopes[w]) \in Nat \ {0, 2}
        /\ phase' = IF Len(scopes[w]) = 1 THEN [phase EXCEPT ![w] = "idle"] ELSE phase
    BY <1>7, <1>11 DEF CloseActivation, Kinds
  <2>2. CASE Len(scopes[w]) > 2
    <3>1. PICK n \in Nat : n = Len(scopes[w])
      BY <2>1
    <3>2. n > 2
      BY <2>2, <3>1
    <3>3. n # 1
      BY <3>2
    <3> QED
      BY <1>9, <2>1, <2>2, <3>1, <3>3
  <2>3. CASE Len(scopes[w]) = 1
    <3>1. phase'[w] = "idle" /\ scopes'[w] = <<>>
      BY <1>1, <1>5, <2>1, <2>3
    <3> QED
      BY <3>1 DEF WorkerStack
  <2>4. \A n \in Nat \ {0, 2} : n > 2 \/ n = 1
    OBVIOUS
  <2> QED
    BY <2>1, <2>2, <2>3, <2>4
<1>12. CASE Flush(w)
  BY <1>2, <1>12 DEF Flush
<1>13. ASSUME NEW q \in queue, StartTask(w, q) PROVE WorkerStack(scopes'[w], phase'[w])
  <2>1. q.run \in Nat /\ q.parent \in Nat /\ q.task \in Tasks
    BY <1>1 DEF TypeOK, Requests
  <2>2. phase'[w] = "compile" /\ phase[w] = "idle" /\ Enter(w, q.run, q.parent, q.task)
    BY <1>1, <1>13 DEF StartTask
  <2>3. scopes[w] = <<>> /\ Len(scopes[w]) = 0
    BY <1>1, <2>2 DEF WorkerStack
  <2>4. /\ Len(scopes'[w]) = 2 /\ DOMAIN scopes'[w] = 1 .. 2
        /\ scopes'[w][1].kind = "activation" /\ scopes'[w][1].run = q.run
        /\ scopes'[w][1].task = q.task
        /\ scopes'[w][2].kind = "span" /\ scopes'[w][2].run = q.run
        /\ scopes'[w][2].task = q.task
    <3>1. PICK n \in Nat : n = Len(scopes[w]) /\ n + 1 = 1 /\ n + 2 = 2
      BY <2>3
    <3>2. /\ Len(scopes'[w]) = n + 2 /\ DOMAIN scopes'[w] = 1 .. n + 2
          /\ scopes'[w][n + 1].kind = "activation" /\ scopes'[w][n + 1].run = q.run
          /\ scopes'[w][n + 1].task = q.task
          /\ scopes'[w][n + 2].kind = "span" /\ scopes'[w][n + 2].run = q.run
          /\ scopes'[w][n + 2].task = q.task
      BY <1>1, <2>1, <2>2, <3>1, EnterFacts
    <3> QED
      BY <3>1, <3>2
  <2>5. DOMAIN scopes'[w] = {1, 2} /\ scopes'[w] # <<>>
    BY <2>4
  <2> QED
    BY <2>1, <2>2, <2>4, <2>5 DEF WorkerStack, Outcomes
<1>14. CASE BeginCompile(w)
  <2>1. /\ phase'[w] = "compiling" /\ phase[w] = "compile"
        /\ Enter(w, run_counter + 1, Unset, NoTask)
    BY <1>1, <1>14 DEF BeginCompile
  <2>2. run_counter + 1 \in Nat /\ Unset \in Nat
    BY <1>1 DEF TypeOK, Unset
  <2>3. Len(scopes[w]) = 2 /\ scopes[w] # <<>>
    BY <1>1, <2>1 DEF WorkerStack
  <2>4. /\ Len(scopes'[w]) = 4 /\ DOMAIN scopes'[w] = 1 .. 4
        /\ scopes'[w][1] = scopes[w][1] /\ scopes'[w][2] = scopes[w][2]
        /\ scopes'[w][3].kind = "activation" /\ scopes'[w][4].kind = "span"
    <3>1. PICK n \in Nat : n = Len(scopes[w])
      BY <2>3
    <3>2. /\ Len(scopes'[w]) = n + 2 /\ DOMAIN scopes'[w] = 1 .. n + 2
          /\ \A i \in 1 .. n : scopes'[w][i] = scopes[w][i]
          /\ scopes'[w][n + 1].kind = "activation" /\ scopes'[w][n + 2].kind = "span"
      BY <1>1, <2>1, <2>2, <3>1, EnterFacts
    <3>3. n = 2 /\ n + 1 = 3 /\ n + 2 = 4 /\ 1 \in 1 .. n /\ 2 \in 1 .. n
      BY <2>3, <3>1
    <3> QED
      BY <3>2, <3>3
  <2>5. DOMAIN scopes'[w] = {1, 2, 3, 4} /\ scopes'[w] # <<>>
    BY <2>4
  <2>6. /\ scopes[w][1].kind = "activation" /\ scopes[w][1].task \in Tasks
        /\ scopes[w][2].kind = "span" /\ scopes[w][2].task = scopes[w][1].task
        /\ scopes[w][2].run = scopes[w][1].run
    BY <1>1, <2>3 DEF WorkerStack
  <2> QED
    BY <2>1, <2>4, <2>5, <2>6 DEF WorkerStack, Outcomes
<1>15. CASE EndCompile(w)
  <2>1. phase' = phase /\ phase[w] = "compiling" /\ Len(scopes[w]) = 2 /\ scopes[w] # <<>>
    BY <1>1, <1>15 DEF EndCompile, WorkerStack
  <2>2. /\ scopes[w][1].kind = "activation" /\ scopes[w][1].task \in Tasks
        /\ scopes[w][2].kind = "span" /\ scopes[w][2].task = scopes[w][1].task
        /\ scopes[w][2].run = scopes[w][1].run
    BY <1>1, <2>1 DEF WorkerStack
  <2>3. PICK own \in ScopeRecords : own = Last(scopes[w]) /\ own = scopes[w][2]
    BY <1>1, <2>1 DEF Last
  <2>4. PICK kind \in Outcomes, parent \in Nat :
          Open(w, Scope(kind, span_counter + 1, own.run, parent, own.task))
    <3>1. own.parent \in Nat /\ CurrentSpanId(w) \in Nat
      BY <1>1, CurrentTyped DEF ScopeRecords
    <3> QED
      BY <1>15, <2>3, <3>1 DEF EndCompile, TakeInstantId, Outcomes
  <2>5. PICK e : e = Scope(kind, span_counter + 1, own.run, parent, own.task)
    OBVIOUS
  <2>6. /\ own.run \in Nat /\ own.task \in Tasks \cup {NoTask} /\ kind \in Kinds
        /\ span_counter + 1 \in Nat
    BY <1>1 DEF ScopeRecords, Outcomes, Kinds, TypeOK
  <2>7. e \in ScopeRecords /\ e.kind = kind /\ e.run = own.run /\ e.task = own.task
    BY <2>5, <2>6, ScopeTyped
  <2>8. /\ Len(scopes'[w]) = 3 /\ DOMAIN scopes'[w] = 1 .. 3
        /\ scopes'[w][1] = scopes[w][1] /\ scopes'[w][2] = scopes[w][2]
        /\ scopes'[w][3] = e
    <3>1. PICK n \in Nat : n = Len(scopes[w])
      BY <2>1
    <3>2. /\ Len(scopes'[w]) = n + 1 /\ DOMAIN scopes'[w] = 1 .. n + 1
          /\ \A i \in 1 .. n : scopes'[w][i] = scopes[w][i]
          /\ scopes'[w][n + 1] = e
      BY <1>1, <2>4, <2>5, <2>7, <3>1, OpenFacts
    <3>3. n = 2 /\ n + 1 = 3 /\ 1 \in 1 .. n /\ 2 \in 1 .. n
      BY <2>1, <3>1
    <3> QED
      BY <3>2, <3>3
  <2>9. DOMAIN scopes'[w] = {1, 2, 3} /\ scopes'[w] # <<>>
    BY <2>8
  <2>10. \A i \in DOMAIN scopes'[w] : scopes'[w][i].kind \notin {"submitted", "submit", "flush"}
    BY <2>2, <2>7, <2>8, <2>9 DEF Outcomes
  <2>11. \A i \in DOMAIN scopes'[w] : scopes'[w][i].kind \in Outcomes =>
           /\ i = 3 /\ scopes'[w][i].task = scopes'[w][1].task
           /\ scopes'[w][i].run = scopes'[w][1].run
    BY <2>2, <2>3, <2>7, <2>8, <2>9 DEF Outcomes
  <2> QED
    BY <2>1, <2>2, <2>8, <2>9, <2>10, <2>11 DEF WorkerStack
<1>16. CASE Settle(w)
  <2>1. phase[w] = "settle" /\ phase'[w] = "close" /\ scopes'[w] = scopes[w]
    BY <1>1, <1>16 DEF Settle
  <2>2. Len(scopes[w]) = 2 /\ scopes[w] # <<>>
    BY <1>1, <2>1 DEF WorkerStack
  <2> QED
    BY <1>1, <2>1, <2>2 DEF WorkerStack
<1>17. CASE Acts(w)
  BY <1>3, <1>6, <1>8, <1>10, <1>11, <1>12, <1>13, <1>14, <1>15, <1>16, <1>17
     DEF Acts, ThreadActs, WorkerActs
<1>18. ASSUME NEW t \in Threads, Acts(t), t # w PROVE WorkerStack(scopes'[w], phase'[w])
  BY <1>1, <1>2, <1>18, Alone
<1> QED
  BY <1>2, <1>17, <1>18, NextActs
\* A client's step leaves a task only at its innermost scope.
LEMMA ClientNext ==
    ASSUME Inductive, [Next]_vars
    PROVE  \A c \in Clients : ClientAt(c)'
<1> USE DEF Threads
<1>1. /\ TypeOK /\ \A t \in Threads : scopes[t] \in Seq(ScopeRecords)
      /\ \A c \in Clients : ClientStack(scopes[c])
  BY DEF Inductive, TypeOK, ClientAt
<1> SUFFICES ASSUME NEW c \in Clients PROVE ClientStack(scopes'[c])
  BY DEF ClientAt
<1>2. CASE scopes'[c] = scopes[c]
  BY <1>1, <1>2
<1>3. c \notin Workers /\ NoTask \notin Tasks
  BY ProfilingAssumption
<1>4. ASSUME NEW e \in ScopeRecords, Open(c, e), e.kind \notin Outcomes,
             e.task # NoTask <=> e.kind \in {"submitted", "submit"}
      PROVE  ClientStack(scopes'[c])
  <2>1. PICK n \in Nat : n = Len(scopes[c])
    BY <1>1
  <2>2. /\ DOMAIN scopes[c] = 1 .. n /\ DOMAIN scopes'[c] = 1 .. n + 1
        /\ \A i \in 1 .. n : scopes'[c][i] = scopes[c][i]
        /\ scopes'[c][n + 1] = e
    BY <1>1, <1>4, <2>1, OpenFacts
  <2>3. \A i \in 1 .. n + 1 : i \in 1 .. n \/ i = n + 1
    OBVIOUS
  <2> QED
    BY <1>1, <1>4, <2>2, <2>3 DEF ClientStack
<1>5. ASSUME Close(c), Innermost(c) \in Kinds PROVE ClientStack(scopes'[c])
  <2>1. scopes[c] # <<>>
    BY <1>1, <1>5, InnermostIs
  <2>2. PICK n \in Nat \ {0} : n = Len(scopes[c])
    BY <1>1, <2>1
  <2>3. /\ DOMAIN scopes[c] = 1 .. n /\ DOMAIN scopes'[c] = 1 .. n - 1
        /\ \A i \in 1 .. n - 1 : scopes'[c][i] = scopes[c][i]
    BY <1>1, <1>5, <2>1, <2>2, CloseFacts
  <2>4. \A i \in 1 .. n - 1 : i \in 1 .. n
    OBVIOUS
  <2> QED
    BY <1>1, <2>3, <2>4 DEF ClientStack
<1>6. CASE OpenSpan(c) \/ RecordInstant(c)
  <2>1. PICK kind \in {"span", "instant"} :
          Open(c, Scope(kind, span_counter + 1, tls[c].run, CurrentSpanId(c), NoTask))
    BY <1>6 DEF OpenSpan, RecordInstant, TakeInstantId
  <2>2. PICK e : e = Scope(kind, span_counter + 1, tls[c].run, CurrentSpanId(c), NoTask)
    OBVIOUS
  <2>3. kind \in Kinds /\ span_counter + 1 \in Nat
    BY <1>1 DEF Kinds, TypeOK
  <2>4. e \in ScopeRecords /\ e.kind = kind /\ e.task = NoTask
    BY <1>1, <2>2, <2>3, ScopeTyped, CurrentTyped
  <2>5. e.kind \notin Outcomes /\ e.kind \notin {"submitted", "submit"}
    BY <2>4 DEF Outcomes
  <2> QED
    BY <1>4, <2>1, <2>2, <2>4, <2>5
<1>7. CASE AppendInstant(c) \/ CloseSpan(c) \/ CloseActivation(c) \/ Submit(c) \/ WaitAllFlush(c)
  BY <1>5, <1>7 DEF AppendInstant, CloseSpan, CloseActivation, Submit, WaitAllFlush, Kinds
<1>8. CASE Flush(c)
  BY <1>2, <1>8 DEF Flush
<1>9. CASE BeginCall(c)
  <2>1. Enter(c, run_counter + 1, Unset, NoTask) /\ run_counter + 1 \in Nat /\ Unset \in Nat
    BY <1>1, <1>9 DEF BeginCall, TypeOK, Unset
  <2>2. PICK n \in Nat : n = Len(scopes[c])
    BY <1>1
  <2>3. /\ DOMAIN scopes[c] = 1 .. n /\ DOMAIN scopes'[c] = 1 .. n + 2
        /\ \A i \in 1 .. n : scopes'[c][i] = scopes[c][i]
        /\ scopes'[c][n + 1].kind = "activation" /\ scopes'[c][n + 1].task = NoTask
        /\ scopes'[c][n + 2].kind = "span" /\ scopes'[c][n + 2].task = NoTask
    BY <1>1, <2>1, <2>2, EnterFacts
  <2>4. \A i \in 1 .. n + 2 : i \in 1 .. n \/ i = n + 1 \/ i = n + 2
    OBVIOUS
  <2> QED
    BY <1>1, <2>3, <2>4 DEF ClientStack, Outcomes
<1>10. ASSUME NEW task \in Tasks, AnnounceTask(c, task) PROVE ClientStack(scopes'[c])
  <2>1. PICK e : e = Scope("submitted", span_counter + 1, tls[c].run, CurrentSpanId(c), task)
    OBVIOUS
  <2>2. span_counter + 1 \in Nat /\ "submitted" \in Kinds
    BY <1>1 DEF TypeOK, Kinds
  <2>3. e \in ScopeRecords /\ e.kind = "submitted" /\ e.task = task
    BY <1>1, <2>1, <2>2, ScopeTyped, CurrentTyped
  <2>4. e.kind \notin Outcomes /\ e.task # NoTask /\ Open(c, e)
    BY <1>3, <1>10, <2>1, <2>3 DEF Outcomes, AnnounceTask, TakeInstantId
  <2> QED
    BY <1>4, <2>3, <2>4
<1>11. CASE AppendSubmitted(c)
  <2>1. PICK n \in Nat \ {0} : n = Len(scopes[c])
    BY <1>1, <1>11, AppendSubmittedFacts
  <2>2. /\ DOMAIN scopes[c] = 1 .. n /\ DOMAIN scopes'[c] = 1 .. n
        /\ \A i \in 1 .. n - 1 : scopes'[c][i] = scopes[c][i]
        /\ scopes[c][n].kind = "submitted"
        /\ scopes'[c][n] = [scopes[c][n] EXCEPT !.kind = "submit"]
    BY <1>1, <1>11, <2>1, AppendSubmittedFacts
  <2>3. n \in DOMAIN scopes[c] /\ scopes[c][n] \in ScopeRecords
    BY <1>1, <2>2
  <2>4. scopes'[c][n].kind = "submit" /\ scopes'[c][n].task = scopes[c][n].task
    BY <2>2, <2>3 DEF ScopeRecords
  <2>5. \A i \in 1 .. n : i \in 1 .. n - 1 \/ i = n
    OBVIOUS
  <2>6. scopes'[c][n].task # NoTask /\ scopes'[c][n].kind \notin Outcomes
    BY <1>1, <2>2, <2>3, <2>4 DEF ClientStack, Outcomes
  <2>7. ASSUME NEW i \in 1 .. n - 1
        PROVE  /\ scopes'[c][i].kind \notin Outcomes
               /\ scopes'[c][i].task # NoTask <=> scopes'[c][i].kind \in {"submitted", "submit"}
    <3>1. i \in DOMAIN scopes[c] /\ scopes'[c][i] = scopes[c][i]
      BY <2>2
    <3> QED
      BY <1>1, <3>1 DEF ClientStack
  <2> QED
    BY <2>2, <2>4, <2>5, <2>6, <2>7 DEF ClientStack
<1>12. CASE WaitAllReturn(c)
  <2>1. PICK e : e = Scope("flush", Unset, Unset, Unset, NoTask)
    OBVIOUS
  <2>2. e \in ScopeRecords /\ e.kind = "flush" /\ e.task = NoTask
    BY <2>1, ScopeTyped DEF Kinds, Unset
  <2> QED
    BY <1>4, <1>12, <2>1, <2>2 DEF WaitAllReturn, Outcomes
<1>13. CASE Acts(c)
  BY <1>3, <1>6, <1>7, <1>8, <1>9, <1>10, <1>11, <1>12, <1>13 DEF Acts, ThreadActs, ClientActs
<1>14. ASSUME NEW t \in Threads, Acts(t), t # c PROVE ClientStack(scopes'[c])
  BY <1>1, <1>2, <1>14, Alone
<1> QED
  BY <1>2, <1>13, <1>14, NextActs
-----------------------------------------------------------------------------
(* InOnePlace *)

\* A client that holds a task is submitting it.
LEMMA HolderSubmits ==
    ASSUME NEW s \in Seq(ScopeRecords), ClientStack(s), s # <<>>, Last(s).task \in Tasks
    PROVE  Last(s).kind \in {"submitted", "submit"}
<1>1. Last(s) = s[Len(s)] /\ Len(s) \in DOMAIN s
  BY DEF Last
<1> QED
  BY <1>1, ProfilingAssumption DEF ClientStack

\* Under the innermost scope a client holds no task.
LEMMA ClosedHoldsNone ==
    ASSUME Inductive, NEW c \in Clients, Innermost(c) \in Kinds, Close(c)
    PROVE  \A task \in Tasks : ~WithClient(c, task)'
<1>1. /\ TypeOK /\ c \in Threads /\ scopes[c] \in Seq(ScopeRecords)
      /\ NestedIn(scopes[c], tls[c]) /\ ClientStack(scopes[c])
  BY DEF Inductive, TypeOK, Threads, Nested, ClientAt
<1>2. scopes[c] # <<>>
  BY <1>1, InnermostIs
<1>3. PICK n \in Nat \ {0} : n = Len(scopes[c])
  BY <1>1, <1>2
<1>4. /\ DOMAIN scopes[c] = 1 .. n /\ Len(scopes'[c]) = n - 1
      /\ \A i \in 1 .. n - 1 : scopes'[c][i] = scopes[c][i]
  BY <1>1, <1>2, <1>3, CloseFacts
<1>5. ASSUME scopes'[c] # <<>>, Last(scopes'[c]).task \in Tasks PROVE FALSE
  <2>1. scopes' \in [Threads -> Seq(ScopeRecords)]
    BY <1>1, <1>2, CloseFacts
  <2>2. n - 1 # 0
    BY <1>1, <1>4, <1>5, <2>1
  <2>3. n - 1 \in 1 .. n - 1 /\ n - 1 \in 1 .. n /\ n - 1 # n
    BY <2>2
  <2>4. Last(scopes'[c]) = scopes[c][n - 1]
    BY <1>4, <2>3 DEF Last
  <2>5. scopes[c][n - 1].kind \in {"activation", "span"}
    BY <1>1, <1>3, <1>4, <2>3 DEF NestedIn
  <2>6. scopes[c][n - 1].task = NoTask
    BY <1>1, <1>4, <2>3, <2>5 DEF ClientStack
  <2> QED
    BY <1>5, <2>4, <2>6, ProfilingAssumption
<1> QED
  BY <1>5 DEF WithClient

\* A task moves only with these steps.
Moves(t) ==
    \/ t \in Clients /\ ((\E task \in Tasks : AnnounceTask(t, task)) \/ Submit(t))
    \/ t \in Workers /\ ((\E q \in queue : StartTask(t, q)) \/ Settle(t)
                         \/ (CloseActivation(t) /\ Len(scopes[t]) = 1))

\* Any other step of a client leaves what it holds.
LEMMA ClientQuiet ==
    ASSUME Inductive, NEW c \in Clients, Acts(c), ~Moves(c)
    PROVE  \A task \in Tasks : WithClient(c, task)' <=> WithClient(c, task)
<1>1. /\ TypeOK /\ c \in Threads /\ c \notin Workers /\ scopes[c] \in Seq(ScopeRecords)
      /\ ClientStack(scopes[c])
  BY ProfilingAssumption DEF Inductive, TypeOK, Threads, ClientAt
<1>2. ASSUME Innermost(c) \notin {"submitted", "submit"}, NEW task \in Tasks
      PROVE  ~WithClient(c, task)
  BY <1>1, <1>2, HolderSubmits DEF WithClient, Innermost
<1>3. ASSUME NEW e \in ScopeRecords, Open(c, e), e.task = NoTask, NEW task \in Tasks
      PROVE  ~WithClient(c, task)'
  BY <1>1, <1>3, OpenFacts, ProfilingAssumption DEF WithClient
<1>4. CASE OpenSpan(c) \/ RecordInstant(c)
  <2>1. PICK kind \in {"span", "instant"} :
          /\ Open(c, Scope(kind, span_counter + 1, tls[c].run, CurrentSpanId(c), NoTask))
          /\ Innermost(c) = "span"
    BY <1>4 DEF OpenSpan, RecordInstant, TakeInstantId, MayOpen
  <2>2. PICK e : e = Scope(kind, span_counter + 1, tls[c].run, CurrentSpanId(c), NoTask)
    OBVIOUS
  <2>3. kind \in Kinds /\ span_counter + 1 \in Nat
    BY <1>1 DEF Kinds, TypeOK
  <2>4. e \in ScopeRecords /\ e.task = NoTask
    BY <1>1, <2>2, <2>3, ScopeTyped, CurrentTyped
  <2> QED
    BY <1>2, <1>3, <2>1, <2>2, <2>4
<1>5. CASE AppendInstant(c) \/ CloseSpan(c) \/ CloseActivation(c) \/ WaitAllFlush(c)
  <2>1. Innermost(c) \in {"instant", "span", "activation", "flush"} /\ Close(c)
    BY <1>5 DEF AppendInstant, CloseSpan, CloseActivation, WaitAllFlush
  <2>2. Innermost(c) \in Kinds
    BY <2>1 DEF Kinds
  <2> QED
    BY <1>2, <2>1, <2>2, ClosedHoldsNone
<1>6. CASE Flush(c)
  BY <1>6 DEF Flush, WithClient
<1>7. CASE BeginCall(c)
  <2>1. Enter(c, run_counter + 1, Unset, NoTask) /\ run_counter + 1 \in Nat /\ Unset \in Nat
    BY <1>1, <1>7 DEF BeginCall, TypeOK, Unset
  <2>2. Innermost(c) \notin {"submitted", "submit"}
    BY <1>7 DEF BeginCall, MayOpen, Innermost
  <2>3. Last(scopes'[c]).task = NoTask
    <3>1. PICK n \in Nat : n = Len(scopes[c])
      BY <1>1
    <3>2. Len(scopes'[c]) = n + 2 /\ scopes'[c][n + 2].task = NoTask
      BY <1>1, <2>1, <3>1, EnterFacts
    <3> QED
      BY <3>2 DEF Last
  <2> QED
    BY <1>2, <2>2, <2>3, ProfilingAssumption DEF WithClient
<1>8. CASE AppendSubmitted(c)
  <2>1. PICK n : n = Len(scopes[c])
    OBVIOUS
  <2>2. /\ scopes[c] # <<>> /\ scopes'[c] # <<>> /\ Last(scopes[c]) \in ScopeRecords
        /\ Last(scopes[c]) = scopes[c][n] /\ Last(scopes'[c]) = scopes'[c][n]
        /\ scopes'[c][n] = [scopes[c][n] EXCEPT !.kind = "submit"]
    BY <1>1, <1>8, <2>1, AppendSubmittedFacts
  <2>3. Last(scopes'[c]).task = Last(scopes[c]).task
    BY <2>2 DEF ScopeRecords
  <2> QED
    BY <2>2, <2>3 DEF WithClient
<1>9. CASE WaitAllReturn(c)
  <2>1. PICK e : e = Scope("flush", Unset, Unset, Unset, NoTask)
    OBVIOUS
  <2>2. e \in ScopeRecords /\ e.task = NoTask
    BY <2>1, ScopeTyped DEF Kinds, Unset
  <2>3. Open(c, e) /\ Innermost(c) = "span"
    BY <1>9, <2>1 DEF WaitAllReturn
  <2> QED
    BY <1>2, <1>3, <2>2, <2>3
<1> QED
  BY <1>1, <1>4, <1>5, <1>6, <1>7, <1>8, <1>9 DEF Acts, ThreadActs, ClientActs, Moves

\* A worker's activation carries its task until the worker is idle again.
LEMMA WorkerFirst ==
    ASSUME TypeOK, Form, NEW w \in Workers, WorkerAt(w), scopes[w] # <<>>, scopes'[w] # <<>>,
           scopes'[w] \in Seq(ScopeRecords)
    PROVE  scopes'[w][1] = scopes[w][1]
<1>1. scopes[w] \in Seq(ScopeRecords) /\ scopes[w][1].kind = "activation" /\ w \in Threads
  BY DEF WorkerAt, WorkerStack, TypeOK, Threads
<1>2. 1 \in DOMAIN scopes[w] /\ 1 \in DOMAIN scopes'[w]
  BY <1>1
<1>3. ASSUME NEW t \in Threads, NEW n \in Nat, NEW m \in Nat, Grows(t, n, m)
      PROVE  scopes'[w][1] = scopes[w][1]
  BY <1>1, <1>2, <1>3 DEF Grows, Kept
<1>4. ASSUME NEW t \in Threads, NEW n \in Nat, Waits(t, n)
      PROVE  scopes'[w][1] = scopes[w][1]
  BY <1>1, <1>2, <1>4 DEF Waits, Kept
<1>5. ASSUME NEW t \in Threads, NEW n \in Nat, Drops(t, n)
      PROVE  scopes'[w][1] = scopes[w][1]
  BY <1>1, <1>2, <1>5 DEF Drops, Kept
<1>6. ASSUME NEW t \in Threads, NEW n \in Nat, NEW e \in Nat, Records(t, n, e)
      PROVE  scopes'[w][1] = scopes[w][1]
  <2>1. CASE t # w
    BY <1>1, <1>6, <2>1 DEF Records, Kept
  <2>2. CASE t = w
    <3>1. n # 1 /\ n \in Nat \ {0} /\ Kept(w, n - 1)
      BY <1>1, <1>6, <2>2 DEF Records
    <3>2. 1 \in 1 .. n - 1
      BY <3>1
    <3> QED
      BY <3>1, <3>2 DEF Kept
  <2> QED
    BY <2>1, <2>2
<1>7. CASE Rests
  BY <1>7 DEF Rests
<1> QED
  BY <1>3, <1>4, <1>5, <1>6, <1>7 DEF Form

\* A worker that has a task before and after a step has the same one.
LEMMA WorkerKeeps ==
    ASSUME Inductive, [Next]_vars, NEW w \in Workers
    PROVE  /\ \A task : WithWorker(w, task) => phase[w] # "idle"
           /\ \A task : WithWorker(w, task)' => phase'[w] # "idle"
           /\ phase[w] # "idle" /\ phase'[w] # "idle" =>
                 /\ scopes'[w][1] = scopes[w][1]
                 /\ \A task : WithWorker(w, task)' <=> WithWorker(w, task)
<1>1. TypeOK /\ TypeOK' /\ WorkerAt(w) /\ WorkerAt(w)'
  BY TypeNext, WorkerNext DEF Inductive
<1>2. (phase[w] = "idle" <=> scopes[w] = <<>>) /\ (phase'[w] = "idle" <=> scopes'[w] = <<>>)
  BY <1>1 DEF WorkerAt, WorkerStack
<1>3. Form /\ scopes'[w] \in Seq(ScopeRecords)
  BY <1>1, NextShape, ShapeForm DEF TypeOK, Threads
<1> QED
  BY <1>1, <1>2, <1>3, WorkerFirst DEF WithWorker
\* No place changes.
Still ==
    /\ queue' = queue /\ settled' = settled
    /\ \A c \in Clients, task \in Tasks : WithClient(c, task)' <=> WithClient(c, task)
    /\ \A w \in Workers : /\ phase'[w] = "idle" <=> phase[w] = "idle"
                          /\ phase'[w] = "close" <=> phase[w] = "close"

\* A task moves, or every task stays where it is.
LEMMA MovesOrStill ==
    ASSUME Inductive, [Next]_vars
    PROVE  Still \/ \E t \in Threads : Acts(t) /\ Moves(t)
<1> USE DEF Threads
<1>1. TypeOK /\ phase \in [Workers -> Phases] /\ Clients \cap Workers = {}
  BY ProfilingAssumption DEF Inductive, TypeOK
<1>2. ASSUME NEW c \in Clients, Acts(c), ~Moves(c) PROVE Still
  <2>1. /\ \A u \in Threads \ {c} : scopes'[u] = scopes[u]
        /\ \A w \in Workers : phase'[w] = phase[w]
    BY <1>1, <1>2, Alone
  <2>2. \A d \in Clients, task \in Tasks : WithClient(d, task)' <=> WithClient(d, task)
    BY <1>2, <2>1, ClientQuiet DEF WithClient
  <2>3. queue' = queue /\ settled' = settled
    BY <1>1, <1>2 DEF Acts, Moves, ThreadActs, ClientActs, OpenSpan, RecordInstant, AppendInstant,
                      CloseSpan, CloseActivation, Flush, BeginCall, AppendSubmitted,
                      WaitAllReturn, WaitAllFlush
  <2> QED
    BY <2>1, <2>2, <2>3 DEF Still
<1>3. ASSUME NEW w \in Workers, Acts(w), ~Moves(w) PROVE Still
  <2>1. /\ \A u \in Clients : scopes'[u] = scopes[u]
        /\ \A v \in Workers \ {w} : phase'[v] = phase[v]
    BY <1>1, <1>3, Alone
  <2>2. \A d \in Clients, task \in Tasks : WithClient(d, task)' <=> WithClient(d, task)
    BY <2>1 DEF WithClient
  <2>3. \/ ThreadActs(w) /\ ~(CloseActivation(w) /\ Len(scopes[w]) = 1)
        \/ BeginCompile(w) \/ EndCompile(w) \/ AppendOutcome(w)
    BY <1>1, <1>3 DEF Acts, Moves, WorkerActs
  <2>4. queue' = queue /\ settled' = settled
    BY <2>3 DEF ThreadActs, OpenSpan, RecordInstant, AppendInstant, CloseSpan, CloseActivation,
                Flush, BeginCompile, EndCompile, AppendOutcome
  <2>5. CASE phase' = phase
    BY <2>2, <2>4, <2>5 DEF Still
  <2>6. CASE BeginCompile(w)
    <3>1. phase[w] = "compile" /\ phase'[w] = "compiling"
      BY <1>1, <2>6 DEF BeginCompile
    <3> QED
      BY <2>1, <2>2, <2>4, <3>1 DEF Still
  <2>7. CASE AppendOutcome(w)
    <3>1. phase'[w] = "settle" /\ Innermost(w) \in {"completed", "error"}
      BY <1>1, <2>7 DEF AppendOutcome
    <3>2. PICK n \in DOMAIN scopes[w] : scopes[w][n].kind \in Outcomes
      BY <1>1, <3>1, InnermostIs DEF Kinds, Outcomes
    <3>3. phase[w] = "compiling"
      BY <3>2 DEF Inductive, WorkerAt, WorkerStack
    <3> QED
      BY <2>1, <2>2, <2>4, <3>1, <3>3 DEF Still
  <2> QED
    BY <2>3, <2>5, <2>6, <2>7 DEF ThreadActs, OpenSpan, RecordInstant, AppendInstant, CloseSpan,
                CloseActivation, Flush, EndCompile
<1>4. CASE UNCHANGED <<scopes, phase, queue, settled, events>>
  BY <1>4 DEF Still, WithClient
<1> QED
  BY <1>2, <1>3, <1>4, NextActs

\* A task that has been recorded, or that a client holds, has been announced.
LEMMA AnnouncedIs ==
    ASSUME NEW task, task \notin Announced
    PROVE  /\ \A j \in DOMAIN events : events[j].task # task
           /\ \A c \in Clients : ~WithClient(c, task)
  BY DEF Announced, WithClient

\* Every task stays in one place.
LEMMA PlaceNext ==
    ASSUME Inductive, [Next]_vars
    PROVE  InOnePlace'
<1> USE DEF Threads
<1>1. /\ TypeOK /\ TypeOK' /\ InOnePlace /\ Recorded /\ Clients \cap Workers = {}
      /\ phase \in [Workers -> Phases] /\ \A t \in Threads : scopes[t] \in Seq(ScopeRecords)
      /\ queue \subseteq Requests
  BY ProfilingAssumption, TypeNext DEF Inductive, TypeOK
<1>2. \A w \in Workers : /\ \A task : WithWorker(w, task) => phase[w] # "idle"
                         /\ \A task : WithWorker(w, task)' => phase'[w] # "idle"
                         /\ phase[w] # "idle" /\ phase'[w] # "idle" =>
                              \A task : WithWorker(w, task)' <=> WithWorker(w, task)
  BY WorkerKeeps
<1>3. CASE Still
  <2>1. \A w \in Workers, task \in Tasks : WithWorker(w, task)' <=> WithWorker(w, task)
    BY <1>2, <1>3 DEF Still
  <2> QED
    BY <1>1, <1>3, <2>1 DEF Still, InOnePlace
<1>4. ASSUME NEW c \in Clients, Acts(c)
      PROVE  /\ \A d \in Clients \ {c} : \A task : WithClient(d, task)' <=> WithClient(d, task)
             /\ \A w \in Workers : \A task : WithWorker(w, task)' <=> WithWorker(w, task)
             /\ \A w \in Workers : phase'[w] = phase[w]
  BY <1>1, <1>4, Alone DEF WithClient, WithWorker
<1>5. ASSUME NEW w \in Workers, Acts(w)
      PROVE  /\ \A c \in Clients : \A task : WithClient(c, task)' <=> WithClient(c, task)
             /\ \A v \in Workers \ {w} : \A task : WithWorker(v, task)' <=> WithWorker(v, task)
             /\ \A v \in Workers \ {w} : phase'[v] = phase[v]
  BY <1>1, <1>5, Alone DEF WithClient, WithWorker
<1>6. ASSUME NEW c \in Clients, NEW new \in Tasks, Acts(c), AnnounceTask(c, new) PROVE InOnePlace'
  <2>1. queue' = queue /\ settled' = settled /\ new \notin Announced /\ Innermost(c) = "span"
    BY <1>6 DEF AnnounceTask
  <2>2. /\ \A j \in DOMAIN events : events[j].task # new
        /\ \A d \in Clients : ~WithClient(d, new)
    BY <2>1, AnnouncedIs
  <2>3. new \notin settled /\ \A q \in queue : q.task # new
    BY <1>1, <2>2 DEF Recorded, Submitted, Settling
  <2>4. \A w \in Workers : ~WithWorker(w, new)
    BY <1>1, <2>2 DEF Recorded, Submitted, WithWorker
  <2>5. \A task \in Tasks : WithClient(c, task)' <=> task = new
    <3>1. PICK e : e = Scope("submitted", span_counter + 1, tls[c].run, CurrentSpanId(c), new)
      OBVIOUS
    <3>2. span_counter + 1 \in Nat /\ "submitted" \in Kinds
      BY <1>1 DEF TypeOK, Kinds
    <3>3. e \in ScopeRecords /\ e.task = new
      BY <1>1, <3>1, <3>2, ScopeTyped, CurrentTyped
    <3>4. Open(c, e)
      BY <1>6, <3>1 DEF AnnounceTask, TakeInstantId
    <3>5. scopes'[c] # <<>> /\ Last(scopes'[c]) = e
      BY <1>1, <3>3, <3>4, OpenFacts
    <3> QED
      BY <3>3, <3>5 DEF WithClient
  <2> QED
    BY <1>1, <1>4, <1>6, <2>1, <2>2, <2>3, <2>4, <2>5 DEF InOnePlace
<1>7. ASSUME NEW c \in Clients, Acts(c), Submit(c) PROVE InOnePlace'
  <2>1. /\ queue' = queue \cup {Carried(Last(scopes[c]))} /\ settled' = settled
        /\ Innermost(c) = "submit" /\ Innermost(c) \in Kinds /\ Close(c)
    BY <1>7 DEF Submit, Kinds
  <2>2. PICK n \in DOMAIN scopes[c] : Last(scopes[c]) = scopes[c][n] /\ scopes[c][n].kind = "submit"
                                      /\ scopes[c] # <<>> /\ scopes[c][n] \in ScopeRecords
    BY <1>1, <2>1, InnermostIs
  <2>3. scopes[c][n].task \in Tasks
    BY <2>2 DEF Inductive, ClientAt, ClientStack, ScopeRecords
  <2>4. PICK q : q = Carried(Last(scopes[c]))
    OBVIOUS
  <2>5. q.task \in Tasks /\ WithClient(c, q.task) /\ queue' = queue \cup {q}
    BY <2>1, <2>2, <2>3, <2>4 DEF Carried, WithClient
  <2>6. \A task \in Tasks : ~WithClient(c, task)'
    BY <2>1, ClosedHoldsNone
  <2>7. /\ q.task \notin settled /\ (\A p \in queue : p.task # q.task)
        /\ \A w \in Workers : ~WithWorker(w, q.task)
        /\ \A d \in Clients : WithClient(d, q.task) => d = c
    BY <1>1, <2>5 DEF InOnePlace
  <2> QED
    BY <1>1, <1>4, <1>7, <2>1, <2>5, <2>6, <2>7 DEF InOnePlace
<1>8. ASSUME NEW w \in Workers, NEW q \in queue, Acts(w), StartTask(w, q) PROVE InOnePlace'
  <2>1. queue' = queue \ {q} /\ settled' = settled /\ phase'[w] = "compile" /\ phase[w] = "idle"
    BY <1>1, <1>8 DEF StartTask
  <2>2. q.task \in Tasks /\ q.run \in Nat /\ q.parent \in Nat
    BY <1>1 DEF Requests
  <2>3. /\ q.task \notin settled /\ (\A p \in queue : p.task = q.task => p = q)
        /\ \A v \in Workers : ~WithWorker(v, q.task)
        /\ \A c \in Clients : ~WithClient(c, q.task)
    BY <1>1, <2>2 DEF InOnePlace
  <2>4. \A task : ~WithWorker(w, task)
    BY <1>2, <2>1
  <2>5. \A task : WithWorker(w, task)' <=> task = q.task
    <3>1. PICK n \in Nat : n = Len(scopes[w])
      BY <1>1
    <3>2. n + 1 = 1
      BY <2>1, <3>1 DEF Inductive, WorkerAt, WorkerStack
    <3>3. Enter(w, q.run, q.parent, q.task)
      BY <1>8 DEF StartTask
    <3>4. Len(scopes'[w]) = n + 2 /\ scopes'[w][n + 1].task = q.task
      BY <1>1, <2>2, <3>1, <3>3, EnterFacts
    <3>5. scopes'[w] # <<>> /\ scopes'[w][1].task = q.task
      <4>1. Len(scopes'[w]) # 0 /\ scopes'[w][1].task = q.task
        BY <3>2, <3>4
      <4>2. Len(<<>>) = 0
        OBVIOUS
      <4> QED
        BY <4>1, <4>2
    <3> QED
      BY <3>5 DEF WithWorker
  <2>6. /\ \A c \in Clients : \A task : WithClient(c, task)' <=> WithClient(c, task)
        /\ \A v \in Workers \ {w} : \A task : WithWorker(v, task)' <=> WithWorker(v, task)
        /\ \A v \in Workers \ {w} : phase'[v] = phase[v]
    BY <1>5, <1>8
  <2>7. \A p \in queue' : p \in queue /\ p.task # q.task
    BY <2>1, <2>3
  <2>8. \A v \in Workers : WithWorker(v, q.task)' => v = w
    BY <2>3, <2>6
  <2>9. \A v \in Workers, task \in Tasks \ {q.task} :
           WithWorker(v, task)' <=> WithWorker(v, task) /\ v # w
    BY <2>4, <2>5, <2>6
  <2>10. ASSUME NEW task \in Tasks
         PROVE  /\ \A v, u \in Workers : WithWorker(v, task)' /\ WithWorker(u, task)' => v = u
                /\ \A v \in Workers : WithWorker(v, task)' =>
                      (task \in settled' <=> phase'[v] = "close")
    BY <1>1, <2>1, <2>3, <2>6, <2>8, <2>9 DEF InOnePlace
  <2>11. ASSUME NEW task \in Tasks
         PROVE  /\ \A c, d \in Clients : WithClient(c, task)' /\ WithClient(d, task)' => c = d
                /\ \A c \in Clients : WithClient(c, task)' =>
                      /\ task \notin settled' /\ \A p \in queue' : p.task # task
                      /\ \A v \in Workers : ~WithWorker(v, task)'
    BY <1>1, <2>1, <2>3, <2>6, <2>7, <2>9 DEF InOnePlace
  <2>12. ASSUME NEW task \in Tasks, NEW p \in queue', p.task = task
         PROVE  /\ task \notin settled' /\ \A o \in queue' : o.task = task => o = p
                /\ \A v \in Workers : ~WithWorker(v, task)'
    BY <1>1, <2>1, <2>7, <2>9, <2>12 DEF InOnePlace
  <2> QED
    BY <2>10, <2>11, <2>12 DEF InOnePlace
<1>9. ASSUME NEW w \in Workers, Acts(w), Settle(w) PROVE InOnePlace'
  <2>1. /\ phase[w] = "settle" /\ phase'[w] = "close" /\ queue' = queue
        /\ settled' = settled \cup {Last(scopes[w]).task} /\ scopes' = scopes
    BY <1>1, <1>9 DEF Settle
  <2>2. PICK done \in Tasks : WithWorker(w, done) /\ Last(scopes[w]).task = done
    <3>1. WorkerStack(scopes[w], phase[w]) /\ scopes[w] \in Seq(ScopeRecords)
      BY <1>1 DEF Inductive, WorkerAt
    <3>2. Len(scopes[w]) = 2 /\ scopes[w] # <<>>
      BY <2>1, <3>1 DEF WorkerStack
    <3>3. Last(scopes[w]) = scopes[w][2] /\ scopes[w][2].task = scopes[w][1].task
          /\ scopes[w][1].task \in Tasks
      BY <3>1, <3>2 DEF Last, WorkerStack
    <3> QED
      BY <3>2, <3>3 DEF WithWorker
  <2>3. settled' = settled \cup {done}
    BY <2>1, <2>2
  <2>4. \A task : WithWorker(w, task)' <=> WithWorker(w, task)
    BY <2>1 DEF WithWorker
  <2>5. \A task : WithWorker(w, task) => task = done
    BY <2>2 DEF WithWorker
  <2>6. /\ \A c \in Clients : ~WithClient(c, done)
        /\ \A q \in queue : q.task # done
        /\ \A v \in Workers : WithWorker(v, done) => v = w
    BY <1>1, <2>2 DEF InOnePlace
  <2> QED
    BY <1>1, <1>5, <1>9, <2>1, <2>3, <2>4, <2>5, <2>6 DEF InOnePlace
<1>10. ASSUME NEW w \in Workers, Acts(w), CloseActivation(w), Len(scopes[w]) = 1
       PROVE  InOnePlace'
  <2>1. phase'[w] = "idle" /\ queue' = queue /\ settled' = settled
    BY <1>1, <1>10 DEF CloseActivation
  <2>2. \A task : ~WithWorker(w, task)'
    BY <1>2, <2>1
  <2> QED
    BY <1>1, <1>5, <1>10, <2>1, <2>2 DEF InOnePlace
<1> QED
  BY <1>3, <1>6, <1>7, <1>8, <1>9, <1>10, MovesOrStill DEF Moves
-----------------------------------------------------------------------------
(* Recorded *)

\* What a worker's phase may become.
LEMMA PhaseStep ==
    ASSUME TypeOK, [Next]_vars, NEW w \in Workers
    PROVE  \/ phase'[w] = phase[w] \/ phase'[w] = "idle"
           \/ phase'[w] = "compile" /\ \E q \in queue : StartTask(w, q)
           \/ phase'[w] = "compiling" /\ BeginCompile(w)
           \/ phase'[w] = "settle" /\ AppendOutcome(w)
           \/ phase'[w] = "close" /\ Settle(w)
<1>1. phase \in [Workers -> Phases] /\ w \notin Clients
  BY ProfilingAssumption DEF TypeOK
<1>2. ASSUME NEW t \in Threads, Acts(t), t # w PROVE phase'[w] = phase[w]
  BY <1>2, Alone
<1>3. CASE Acts(w)
  BY <1>1, <1>3 DEF Acts, ThreadActs, WorkerActs, OpenSpan, RecordInstant, AppendInstant,
                    CloseSpan, CloseActivation, Flush, StartTask, BeginCompile, EndCompile,
                    AppendOutcome, Settle
<1> QED
  BY <1>2, <1>3, NextActs

\* A submission that is recorded stays recorded, and so does an outcome.
LEMMA RecordedStays ==
    ASSUME Form
    PROVE  /\ \A task, run : Submitted(task, run) => Submitted(task, run)'
           /\ \A task : Settling(task) => Settling(task)'
  BY EventsKept DEF Submitted, Settling

\* Outcomes are recorded after submissions, and settled tasks have outcomes.
LEMMA RecordedNext ==
    ASSUME Inductive, [Next]_vars
    PROVE  Recorded'
<1> USE DEF Threads
<1>1. /\ TypeOK /\ TypeOK' /\ Recorded /\ Clients \cap Workers = {}
      /\ \A t \in Threads : scopes[t] \in Seq(ScopeRecords) /\ scopes'[t] \in Seq(ScopeRecords)
      /\ \A w \in Workers : WorkerStack(scopes[w], phase[w]) /\ WorkerStack(scopes'[w], phase'[w])
      /\ \A c \in Clients : ClientStack(scopes[c])
  BY ProfilingAssumption, TypeNext, WorkerNext DEF Inductive, TypeOK, WorkerAt, ClientAt
<1>2. Form
  BY <1>1, NextShape, ShapeForm
<1>3. /\ \A task, run : Submitted(task, run) => Submitted(task, run)'
      /\ \A task : Settling(task) => Settling(task)'
  BY <1>2, RecordedStays
<1>4. InOrder(events')
  <2>1. CASE events' = events
    BY <1>1, <2>1 DEF Recorded
  <2>2. ASSUME NEW t \in Threads, NEW n \in Nat, NEW e \in Nat, Records(t, n, e)
        PROVE  InOrder(events')
    <3>1. /\ n \in DOMAIN scopes[t] /\ DOMAIN events' = DOMAIN events \cup {e}
          /\ \A j \in DOMAIN events : events'[j] = events[j] /\ j \in 1 .. e - 1
          /\ events'[e].event = scopes[t][n].kind /\ events'[e].task = scopes[t][n].task
          /\ events'[e].run = scopes[t][n].run
      BY <2>2 DEF Records
    <3>2. ASSUME scopes[t][n].kind \in Outcomes
          PROVE  Submitted(scopes[t][n].task, scopes[t][n].run)
      <4>1. t \in Workers
        BY <1>1, <3>1, <3>2 DEF ClientStack
      <4>2. /\ scopes[t] # <<>> /\ scopes[t][n].task = scopes[t][1].task
            /\ scopes[t][n].run = scopes[t][1].run
        BY <1>1, <3>1, <3>2, <4>1 DEF WorkerStack
      <4> QED
        BY <1>1, <4>1, <4>2 DEF Recorded
    <3>3. ASSUME scopes[t][n].kind \in Outcomes
          PROVE  \E j \in 1 .. e - 1 : /\ events'[j].event = "submitted"
                                       /\ events'[j].task = events'[e].task
                                       /\ events'[j].run = events'[e].run
      BY <3>1, <3>2, <3>3 DEF Submitted
    <3>4. DOMAIN events = 1 .. Len(events) /\ Len(events) \in Nat
      BY <1>1 DEF TypeOK
    <3>5. ASSUME NEW i \in DOMAIN events, events[i].event \in Outcomes
          PROVE  \E j \in 1 .. i - 1 : /\ events'[j].event = "submitted"
                                       /\ events'[j].task = events'[i].task
                                       /\ events'[j].run = events'[i].run
      <4>1. PICK j \in 1 .. i - 1 : /\ events[j].event = "submitted"
                                    /\ events[j].task = events[i].task
                                    /\ events[j].run = events[i].run
        BY <1>1, <3>5 DEF Recorded, InOrder
      <4>2. j \in DOMAIN events
        BY <3>4
      <4> QED
        BY <3>1, <4>1, <4>2
    <3> QED
      BY <3>1, <3>3, <3>5 DEF InOrder
  <2>3. events' = events \/ \E t \in Threads, n, e \in Nat : Records(t, n, e)
    BY <1>2 DEF Form, Grows, Drops, Waits, Rests
  <2> QED
    BY <2>1, <2>2, <2>3
<1>5. InOrder(bundle')
  <2>1. bundle' = bundle \/ bundle' = events
    BY DEF Next, vars, OpenSpan, RecordInstant, AppendInstant, CloseSpan, CloseActivation, Flush,
           BeginCall, AnnounceTask, AppendSubmitted, Submit, WaitAllReturn, WaitAllFlush,
           StartTask, BeginCompile, EndCompile, AppendOutcome, Settle, DestroySession,
           DestroyContext, Destroyed
  <2> QED
    BY <1>1, <2>1 DEF Recorded
<1>6. ASSUME NEW c \in Clients, NEW i \in DOMAIN scopes'[c], scopes'[c][i].kind = "submit"
      PROVE  Submitted(scopes[c][i].task, scopes[c][i].run)'
  <2>1. CASE i \in DOMAIN scopes[c] /\ scopes'[c][i] = scopes[c][i]
    BY <1>1, <1>3, <1>6, <2>1 DEF Recorded
  <2>2. CASE Rests
    BY <2>1, <2>2 DEF Rests
  <2>3. ASSUME NEW t \in Threads, t # c, \A u \in Threads \ {t} : scopes'[u] = scopes[u]
        PROVE  i \in DOMAIN scopes[c] /\ scopes'[c][i] = scopes[c][i]
    BY <2>3
  <2>4. ASSUME NEW t \in Threads, NEW n \in Nat, NEW m \in Nat, Grows(t, n, m)
        PROVE  i \in DOMAIN scopes[c] /\ scopes'[c][i] = scopes[c][i]
    <3>1. CASE t # c
      BY <2>3, <2>4, <3>1 DEF Grows, Kept
    <3>2. CASE t = c
      <4>1. i \in 1 .. n \/ i = m \/ (i = n + 1 /\ m = n + 2)
        BY <2>4, <3>2 DEF Grows
      <4> QED
        BY <1>6, <2>4, <3>2, <4>1 DEF Grows, Kept
    <3> QED
      BY <3>1, <3>2
  <2>5. ASSUME NEW t \in Threads, NEW n \in Nat, Waits(t, n)
        PROVE  i \in DOMAIN scopes[c] /\ scopes'[c][i] = scopes[c][i]
    <3>1. CASE t # c
      BY <2>3, <2>5, <3>1 DEF Waits, Kept
    <3>2. CASE t = c
      <4>1. i \in 1 .. n \/ i = n + 1
        BY <2>5, <3>2 DEF Waits
      <4> QED
        BY <1>6, <2>5, <3>2, <4>1 DEF Waits, Kept
    <3> QED
      BY <3>1, <3>2
  <2>6. ASSUME NEW t \in Threads, NEW n \in Nat, NEW e \in Nat, Records(t, n, e)
        PROVE  \/ i \in DOMAIN scopes[c] /\ scopes'[c][i] = scopes[c][i]
               \/ /\ e \in DOMAIN events' /\ events'[e].event = "submitted"
                  /\ events'[e].task = scopes'[c][i].task /\ events'[e].run = scopes'[c][i].run
    <3>1. CASE t = c /\ i = n
      <4>1. i \notin 1 .. n - 1
        BY <3>1
      <4> QED
        BY <2>6, <3>1, <4>1 DEF Records
    <3>2. CASE t = c /\ i # n
      <4>1. i \in 1 .. n - 1
        BY <2>6, <3>2 DEF Records
      <4> QED
        BY <2>6, <3>2, <4>1 DEF Records, Kept
    <3>3. CASE t # c
      BY <2>3, <2>6, <3>3 DEF Records, Kept
    <3> QED
      BY <3>1, <3>2, <3>3
  <2>7. ASSUME NEW t \in Threads, NEW n \in Nat, Drops(t, n)
        PROVE  i \in DOMAIN scopes[c] /\ scopes'[c][i] = scopes[c][i]
    <3>1. CASE t = c
      BY <2>7, <3>1 DEF Drops, Kept
    <3>2. CASE t # c
      BY <2>3, <2>7, <3>2 DEF Drops, Kept
    <3> QED
      BY <3>1, <3>2
  <2>8. CASE \E e \in DOMAIN events' :
               /\ events'[e].event = "submitted"
               /\ events'[e].task = scopes'[c][i].task /\ events'[e].run = scopes'[c][i].run
    BY <2>8 DEF Submitted
  <2> QED
    BY <1>2, <2>1, <2>2, <2>4, <2>5, <2>6, <2>7, <2>8 DEF Form
<1>7. \A q \in queue' : Submitted(q.task, q.run)'
  <2>1. ASSUME NEW c \in Clients, Submit(c), NEW q \in queue' PROVE Submitted(q.task, q.run)'
    <3>1. q \in queue \/ q = Carried(Last(scopes[c]))
      BY <2>1 DEF Submit
    <3>2. PICK n \in DOMAIN scopes[c] : Last(scopes[c]) = scopes[c][n] /\ scopes[c][n].kind = "submit"
      BY <1>1, <2>1, InnermostIs DEF Kinds, Submit
    <3>3. Submitted(scopes[c][n].task, scopes[c][n].run)
      BY <1>1, <3>2 DEF Recorded
    <3>4. q = Carried(Last(scopes[c])) => q.task = scopes[c][n].task /\ q.run = scopes[c][n].run
      BY <3>2 DEF Carried
    <3> QED
      BY <1>1, <1>3, <3>1, <3>3, <3>4 DEF Recorded
  <2>2. (\A c \in Clients : ~Submit(c)) => queue' \subseteq queue
    BY DEF Next, vars, OpenSpan, RecordInstant, AppendInstant, CloseSpan, CloseActivation, Flush,
           BeginCall, AnnounceTask, AppendSubmitted, WaitAllReturn, WaitAllFlush, StartTask,
           BeginCompile, EndCompile, AppendOutcome, Settle, DestroySession, DestroyContext,
           Destroyed
  <2> QED
    BY <1>1, <1>3, <2>1, <2>2 DEF Recorded
<1>8. \A w \in Workers :
         /\ (phase[w] = "idle" <=> scopes[w] = <<>>) /\ (phase'[w] = "idle" <=> scopes'[w] = <<>>)
         /\ phase[w] # "idle" /\ phase'[w] # "idle" => scopes'[w][1] = scopes[w][1]
  BY <1>1, WorkerKeeps DEF WorkerStack
<1>9. ASSUME NEW w \in Workers, scopes'[w] # <<>>
      PROVE  Submitted(scopes[w][1].task, scopes[w][1].run)'
  <2>1. CASE phase[w] # "idle"
    BY <1>1, <1>3, <1>8, <1>9, <2>1 DEF Recorded
  <2>2. ASSUME NEW q \in queue, StartTask(w, q), phase[w] = "idle"
        PROVE  scopes'[w][1].task = q.task /\ scopes'[w][1].run = q.run
    <3>1. q.task \in Tasks /\ q.run \in Nat /\ q.parent \in Nat
      BY <1>1 DEF TypeOK, Requests
    <3>2. PICK n \in Nat : n = Len(scopes[w])
      BY <1>1
    <3>3. n + 1 = 1
      BY <1>8, <2>2, <3>2
    <3>4. Enter(w, q.run, q.parent, q.task)
      BY <2>2 DEF StartTask
    <3>5. scopes'[w][n + 1].task = q.task /\ scopes'[w][n + 1].run = q.run
      BY <1>1, <3>1, <3>2, <3>4, EnterFacts
    <3> QED
      BY <3>3, <3>5
  <2>3. CASE phase[w] = "idle"
    <3>1. phase'[w] # "idle"
      BY <1>8, <1>9
    <3>2. \E q \in queue : StartTask(w, q)
      BY <1>1, <2>3, <3>1, PhaseStep DEF BeginCompile, Settle, AppendOutcome, Innermost, WorkerStack
    <3> QED
      BY <1>1, <1>3, <2>2, <2>3, <3>2 DEF Recorded
  <2> QED
    BY <2>1, <2>3
<1>10. ASSUME NEW w \in Workers, phase'[w] = "settle" PROVE Settling(scopes[w][1].task)'
  <2>1. CASE phase[w] = "settle"
    BY <1>1, <1>3, <1>8, <1>10, <2>1 DEF Recorded
  <2>2. CASE AppendOutcome(w)
    <3>1. /\ Innermost(w) \in Outcomes /\ Innermost(w) \in Kinds /\ Record(Last(scopes[w]))
      BY <2>2 DEF AppendOutcome, Outcomes, Kinds
    <3>2. /\ Last(scopes[w]) \in ScopeRecords /\ Last(scopes[w]) = scopes[w][Len(scopes[w])]
          /\ Last(scopes[w]).kind = Innermost(w) /\ Len(scopes[w]) \in DOMAIN scopes[w]
      BY <1>1, <3>1, InnermostIs
    <3>3. Last(scopes[w]).task = scopes[w][1].task /\ phase[w] = "compiling"
      BY <1>1, <3>1, <3>2 DEF WorkerStack
    <3>4. PICK k \in Nat : k = Len(events)
      BY <1>1 DEF TypeOK
    <3>5. /\ DOMAIN events' = 1 .. k + 1 /\ events'[k + 1].event = Last(scopes[w]).kind
          /\ events'[k + 1].task = Last(scopes[w]).task
      BY <1>1, <3>1, <3>2, <3>4, RecordFacts
    <3>6. k + 1 \in DOMAIN events'
      BY <3>5
    <3>7. scopes'[w][1] = scopes[w][1]
      BY <1>8, <1>10, <3>3
    <3> QED
      BY <3>1, <3>2, <3>3, <3>5, <3>6, <3>7 DEF Settling
  <2> QED
    BY <1>1, <1>10, <2>1, <2>2, PhaseStep
<1>11. \A task \in settled' : Settling(task)'
  <2>1. ASSUME NEW w \in Workers, Settle(w), NEW task \in settled' PROVE Settling(task)'
    <3>1. phase[w] = "settle" /\ settled' = settled \cup {Last(scopes[w]).task}
      BY <2>1 DEF Settle
    <3>2. Len(scopes[w]) = 2
      BY <1>1, <3>1 DEF WorkerStack
    <3>3. Last(scopes[w]).task = scopes[w][1].task
      BY <1>1, <3>2 DEF WorkerStack, Last
    <3> QED
      BY <1>1, <1>3, <3>1, <3>3 DEF Recorded
  <2>2. (\A w \in Workers : ~Settle(w)) => settled' = settled
    BY DEF Next, vars, OpenSpan, RecordInstant, AppendInstant, CloseSpan, CloseActivation, Flush,
           BeginCall, AnnounceTask, AppendSubmitted, Submit, WaitAllReturn, WaitAllFlush,
           StartTask, BeginCompile, EndCompile, AppendOutcome, DestroySession, DestroyContext,
           Destroyed
  <2> QED
    BY <1>1, <1>3, <2>1, <2>2 DEF Recorded
<1> QED
  BY <1>4, <1>5, <1>6, <1>7, <1>9, <1>10, <1>11 DEF Recorded
-----------------------------------------------------------------------------
(* Ending *)

\* Without an open scope a client can only begin a call.
LEMMA ClientRests ==
    ASSUME TypeOK, NEW c \in Clients, scopes[c] = <<>>, life # "alive"
    PROVE  ~Acts(c)
<1>1. Innermost(c) = "none" /\ c \notin Workers
  BY ProfilingAssumption DEF Innermost
<1> QED
  BY <1>1 DEF Acts, ThreadActs, ClientActs, OpenSpan, RecordInstant, AppendInstant, CloseSpan,
              CloseActivation, Flush, MayOpen, BeginCall, AnnounceTask, AppendSubmitted, Submit,
              WaitAllReturn, WaitAllFlush

\* A worker that is leaving only closes its two scopes.
LEMMA WorkerLeaves ==
    ASSUME TypeOK, NEW w \in Workers, WorkerAt(w), queue = {},
           phase[w] \in {"idle", "close"}, Acts(w)
    PROVE  /\ phase[w] = "close" /\ phase'[w] \in {"idle", "close"}
           /\ queue' = queue /\ life' = life /\ bundle' = bundle
<1>1. /\ w \in Threads /\ w \notin Clients /\ phase \in [Workers -> Phases]
      /\ scopes[w] \in Seq(ScopeRecords)
  BY ProfilingAssumption DEF TypeOK, Threads
<1>2. phase[w] = "idle" => scopes[w] = <<>>
  BY DEF WorkerAt, WorkerStack
<1>3. ~(Len(scopes[w]) > 2)
  <2>1. CASE phase[w] = "idle"
    BY <1>2, <2>1
  <2>2. CASE phase[w] = "close"
    <3>1. PICK n \in {1, 2} : n = Len(scopes[w])
      BY <2>2 DEF WorkerAt, WorkerStack
    <3>2. ~(n > 2)
      OBVIOUS
    <3> QED
      BY <3>1, <3>2
  <2> QED
    BY <2>1, <2>2
<1>4. ~InsideCall(w)
  BY <1>1, <1>3 DEF InsideCall
<1>5. Innermost(w) \in {"none", "activation", "span"}
  <2>1. CASE phase[w] = "idle"
    BY <1>2, <2>1 DEF Innermost
  <2>2. CASE phase[w] = "close"
    <3>1. Len(scopes[w]) \in {1, 2} /\ scopes[w] # <<>>
      BY <2>2 DEF WorkerAt, WorkerStack
    <3>2. CASE Len(scopes[w]) = 1
      BY <1>1, <3>1, <3>2 DEF WorkerAt, WorkerStack, Innermost, Last
    <3>3. CASE Len(scopes[w]) = 2
      BY <1>1, <3>1, <3>3 DEF WorkerAt, WorkerStack, Innermost, Last
    <3> QED
      BY <3>1, <3>2, <3>3
  <2> QED
    BY <2>1, <2>2
<1>6. CloseSpan(w) \/ CloseActivation(w)
  <2>1. ~OpenSpan(w) /\ ~RecordInstant(w) /\ ~AppendInstant(w) /\ ~Flush(w)
    BY <1>4, <1>5 DEF OpenSpan, RecordInstant, MayOpen, AppendInstant, Flush
  <2>2. ~WorkerActs(w)
    BY <1>5 DEF WorkerActs, StartTask, BeginCompile, EndCompile, AppendOutcome, Settle
  <2> QED
    BY <1>1, <2>1, <2>2 DEF Acts, ThreadActs
<1>7. phase[w] = "close"
  BY <1>2, <1>6 DEF CloseSpan, CloseActivation, Innermost
<1>8. CASE CloseSpan(w)
  BY <1>7, <1>8 DEF CloseSpan
<1>9. CASE CloseActivation(w)
  BY <1>1, <1>7, <1>9 DEF CloseActivation
<1> QED
  BY <1>6, <1>7, <1>8, <1>9

\* Tasks that nobody counts any more are settled or were never handed over.
LEMMA NoneOutstanding ==
    ASSUME Inductive, Outstanding = {}
    PROVE  queue = {} /\ \A w \in Workers : phase[w] \in {"idle", "close"}
<1>1. TypeOK /\ InOnePlace
  BY DEF Inductive
<1>2. ASSUME NEW q \in queue PROVE FALSE
  <2>1. q.task \in Tasks
    BY <1>1 DEF TypeOK, Requests
  <2>2. q.task \notin settled
    BY <1>1, <2>1 DEF InOnePlace
  <2> QED
    BY <2>2 DEF Outstanding
<1>3. ASSUME NEW w \in Workers, phase[w] # "idle" PROVE phase[w] = "close"
  <2>1. scopes[w] # <<>> /\ scopes[w][1].task \in Tasks
    BY <1>3 DEF Inductive, WorkerAt, WorkerStack
  <2>2. scopes[w][1].task \in settled
    BY <2>1 DEF Outstanding
  <2> QED
    BY <1>1, <2>1, <2>2 DEF InOnePlace, WithWorker
<1> QED
  BY <1>2, <1>3

\* Once the session is being destroyed only leaving workers step.
LEMMA EndingNext ==
    ASSUME Inductive, [Next]_vars
    PROVE  Ending'
<1> USE DEF Threads
<1>1. TypeOK /\ Ending /\ phase \in [Workers -> Phases] /\ \A w \in Workers : WorkerAt(w)
      /\ Clients \cap Workers = {}
  BY ProfilingAssumption DEF Inductive, TypeOK
<1>2. ASSUME NEW t \in Threads, Acts(t) PROVE Ending'
  <2>1. life' = life
    BY <1>2 DEF Acts, ThreadActs, ClientActs, WorkerActs, OpenSpan, RecordInstant, AppendInstant,
                CloseSpan, CloseActivation, Flush, BeginCall, AnnounceTask, AppendSubmitted,
                Submit, WaitAllReturn, WaitAllFlush, StartTask, BeginCompile, EndCompile,
                AppendOutcome, Settle
  <2>2. CASE life = "alive"
    BY <2>1, <2>2 DEF Ending
  <2>3. CASE life # "alive"
    <3>1. /\ queue = {} /\ \A c \in Clients : scopes[c] = <<>>
          /\ \A w \in Workers : phase[w] \in {"idle", "close"}
      BY <1>1, <2>3 DEF Ending
    <3>2. t \in Workers
      BY <1>1, <1>2, <2>3, <3>1, ClientRests
    <3>3. /\ phase[t] = "close" /\ phase'[t] \in {"idle", "close"} /\ queue' = queue
      BY <1>1, <1>2, <3>1, <3>2, WorkerLeaves
    <3>4. life # "destroyed"
      BY <1>1, <3>2, <3>3 DEF Ending
    <3>5. /\ \A c \in Clients : scopes'[c] = scopes[c]
          /\ \A w \in Workers \ {t} : phase'[w] = phase[w]
      BY <1>1, <1>2, <3>2, Alone
    <3> QED
      BY <2>1, <3>1, <3>3, <3>4, <3>5 DEF Ending
  <2> QED
    BY <2>2, <2>3
<1>3. CASE DestroySession
  <2>1. queue = {} /\ \A w \in Workers : phase[w] \in {"idle", "close"}
    BY <1>3, NoneOutstanding DEF DestroySession
  <2> QED
    BY <1>3, <2>1 DEF DestroySession, Ending
<1>4. CASE DestroyContext
  BY <1>1, <1>4 DEF DestroyContext, Ending
<1>5. CASE Destroyed \/ UNCHANGED vars
  BY <1>1, <1>5 DEF Destroyed, vars, Ending
<1> QED
  BY <1>2, <1>3, <1>4, <1>5, NextActs

-----------------------------------------------------------------------------
(* The inductive invariant and what follows from it *)

\* At the start no thread has a scope and nothing is recorded.
LEMMA InitInductive ==
    ASSUME Init
    PROVE  Inductive
<1>1. NoTls \in ThreadStates /\ NoTls.run = 0 /\ NoTls.stack = <<>>
  BY DEF NoTls, ThreadStates, Unset
<1>2. TypeOK
  BY <1>1 DEF Init, TypeOK, Phases
<1>3. \A t \in Threads : scopes[t] = <<>> /\ tls[t] = NoTls
  BY DEF Init
<1>4. Nested
  <2>1. PICK state \in ThreadStates : state = NoTls
    BY <1>1
  <2>2. Len(state.stack) = 0 /\ state.run = 0
    BY <1>1, <2>1
  <2>3. MatchesSince(<<>>, 0, state, 0)
    BY <2>2 DEF MatchesSince, Unset
  <2>4. Matches(<<>>, 0, state)
    BY <2>3 DEF Matches
  <2>5. NestedIn(<<>>, state)
    BY <2>4 DEF NestedIn
  <2> QED
    BY <1>3, <2>1, <2>5 DEF Nested
<1>5. DOMAIN events = {} /\ \A t \in Threads : DOMAIN scopes[t] = {}
  BY <1>3 DEF Init
<1>6. IdsKnown /\ IdsOnce
  BY <1>5 DEF IdsKnown, IdsOnce, Init
<1>7. Known = {}
  BY <1>5, KnownIs
<1>8. Lineage
  BY <1>5, <1>7 DEF Lineage, ParentInRun, Init
<1>9. \A w \in Workers : WorkerAt(w)
  <2>1. WorkerStack(<<>>, "idle")
    BY DEF WorkerStack
  <2> QED
    BY <1>3, <2>1 DEF WorkerAt, Init, Threads
<1>10. \A c \in Clients : ClientAt(c)
  BY <1>5 DEF ClientAt, ClientStack, Threads
<1>11. InOnePlace
  BY <1>3 DEF InOnePlace, WithClient, WithWorker, Init, Threads
<1>12. Recorded
  BY <1>3, <1>5 DEF Recorded, InOrder, Init, Threads
<1>13. Ending
  BY DEF Ending, Init
<1> QED
  BY <1>2, <1>4, <1>6, <1>8, <1>9, <1>10, <1>11, <1>12, <1>13 DEF Inductive

\* Every step keeps the invariant.
LEMMA NextInductive ==
    ASSUME Inductive, [Next]_vars
    PROVE  Inductive'
<1>1. TypeOK /\ IdsKnown /\ IdsOnce /\ TypeOK'
  BY TypeNext DEF Inductive
<1>2. StepShape
  BY NextShape
<1>3. Form
  BY <1>1, <1>2, ShapeForm
<1>4. Nested'
  BY <1>2, NestedNext
<1>5. IdsKnown' /\ IdsOnce'
  BY <1>1, <1>3, IdsKnownNext, IdsNext
<1>6. Lineage'
  BY LineageNext
<1>7. (\A w \in Workers : WorkerAt(w)') /\ (\A c \in Clients : ClientAt(c)')
  BY WorkerNext, ClientNext
<1>8. InOnePlace' /\ Recorded' /\ Ending'
  BY PlaceNext, RecordedNext, EndingNext
<1> QED
  BY <1>1, <1>4, <1>5, <1>6, <1>7, <1>8 DEF Inductive

\* Scopes, ids, span trees, tasks and events stay consistent for any number of
\* clients, workers and tasks and any depth of nested calls.
THEOREM ProfilingInvariance == Spec => []Inductive
<1>1. Init => Inductive
  BY InitInductive
<1>2. Inductive /\ [Next]_vars => Inductive'
  BY NextInductive
<1> QED
  BY <1>1, <1>2, PTL DEF Spec

\* ScopedSpan::Close and ~ActivationScope leave tls_run_id and tls_span_stack as
\* the enclosing scopes need them: what lies on the stack are the spans of the
\* innermost activation, in order and of its run.
THEOREM StackMatchesScopesHolds == Spec => []StackMatchesScopes
<1>1. Inductive => StackMatchesScopes
  BY DEF Inductive, Nested, NestedIn, StackMatchesScopes
<1> QED
  BY <1>1, ProfilingInvariance, PTL

\* Every parent in events.jsonl is an earlier span of the same run, also where a
\* worker continues the run a task was submitted from.
THEOREM ParentInRunHolds == Spec => []ParentInRun
<1>1. Inductive => ParentInRun
  BY DEF Inductive, Lineage
<1> QED
  BY <1>1, ProfilingInvariance, PTL

\* In every bundle that Flush ever writes an outcome follows its submission.
THEOREM OutcomeAfterSubmissionHolds == Spec => []OutcomeAfterSubmission
<1>1. Inductive => OutcomeAfterSubmission
  BY DEF Inductive, Recorded, InOrder, OutcomeAfterSubmission, Outcomes
<1> QED
  BY <1>1, ProfilingInvariance, PTL

\* The bundle of WaitAll shows the outcome of every task it waited for.
THEOREM WaitAllFlushedHolds == Spec => WaitAllFlushed
<1> DEFINE Flushed ==
      \A c \in Clients : Innermost(c) = "flush" /\ Innermost(c)' # "flush" =>
          \A task \in settled :
             \E i \in DOMAIN bundle' : /\ bundle'[i].task = task
                                       /\ bundle'[i].event \in {"completed", "error"}
<1>1. ASSUME Inductive, [Next]_vars PROVE Flushed
  <2> SUFFICES ASSUME NEW c \in Clients, Innermost(c) = "flush", Innermost(c)' # "flush",
                      NEW task \in settled
               PROVE  \E i \in DOMAIN bundle' : /\ bundle'[i].task = task
                                                /\ bundle'[i].event \in {"completed", "error"}
    OBVIOUS
  <2>1. TypeOK /\ c \notin Workers /\ c \in Threads
    BY <1>1, ProfilingAssumption DEF Inductive, Threads
  <2>2. scopes'[c] # scopes[c]
    BY DEF Innermost
  <2>3. Acts(c)
    BY <1>1, <2>1, <2>2, NextActs, Alone
  <2>4. WaitAllFlush(c)
    BY <2>1, <2>2, <2>3
       DEF Acts, ThreadActs, ClientActs, OpenSpan, RecordInstant, AppendInstant, CloseSpan,
           CloseActivation, Flush, MayOpen, BeginCall, AnnounceTask, AppendSubmitted, Submit,
           WaitAllReturn, Innermost
  <2>5. bundle' = events
    BY <2>4 DEF WaitAllFlush
  <2> QED
    BY <1>1, <2>5 DEF Inductive, Recorded, Settling, Outcomes
<1>2. Inductive /\ [Next]_vars => [Flushed]_vars
  BY <1>1
<1> QED
  BY <1>2, ProfilingInvariance, PTL DEF Spec, WaitAllFlushed

\* As many events as ids, each once, are as many events as there are ids.
LEMMA EventsCounted ==
    ASSUME TypeOK, IdsOnce,
           \A n \in 1 .. span_counter : \E j \in DOMAIN events : events[j].span = n
    PROVE  /\ Len(events) = span_counter
           /\ {e.span : e \in ToSet(events)} = 1 .. span_counter
<1>1. span_counter \in Nat /\ Len(events) \in Nat /\ DOMAIN events = 1 .. Len(events)
  BY DEF TypeOK
<1>2. {e.span : e \in ToSet(events)} = 1 .. span_counter
  BY DEF ToSet, IdsOnce
<1> DEFINE f == [j \in 1 .. Len(events) |-> events[j].span]
<1>3. f \in Bijection(1 .. Len(events), 1 .. span_counter)
  <2>1. f \in [1 .. Len(events) -> 1 .. span_counter]
    BY <1>1 DEF IdsOnce
  <2>2. \A i, j \in 1 .. Len(events) : f[i] = f[j] => i = j
    BY <1>1 DEF IdsOnce
  <2>3. \A n \in 1 .. span_counter : \E j \in 1 .. Len(events) : f[j] = n
    BY <1>1
  <2> HIDE DEF f
  <2> QED
    BY <2>1, <2>2, <2>3 DEF Bijection, Injection, Surjection, IsInjective
<1>4. \A n \in Nat : IsFiniteSet(1 .. n) /\ Cardinality(1 .. n) = n
  <2> SUFFICES ASSUME NEW n \in Nat PROVE IsFiniteSet(1 .. n) /\ Cardinality(1 .. n) = n
    OBVIOUS
  <2>1. /\ IsFiniteSet(1 .. n)
        /\ Cardinality(1 .. n) = IF 1 > n THEN 0 ELSE n - 1 + 1
    BY FS_Interval
  <2>2. (IF 1 > n THEN 0 ELSE n - 1 + 1) = n
    OBVIOUS
  <2> QED
    BY <2>1, <2>2
<1>5. Cardinality(1 .. Len(events)) = Cardinality(1 .. span_counter)
  <2> HIDE DEF f
  <2> QED
    BY <1>1, <1>3, <1>4, FS_Bijection DEF ExistsBijection
<1> QED
  BY <1>1, <1>2, <1>4, <1>5

\* The last bundle has every id that was ever handed out, once.
THEOREM BundleCompleteHolds == Spec => []BundleComplete
<1>1. ASSUME Inductive, life = "destroyed"
      PROVE  /\ Len(bundle) = span_counter
             /\ {e.span : e \in ToSet(bundle)} = 1 .. span_counter
  <2>1. TypeOK /\ IdsOnce /\ Ending /\ \A w \in Workers : WorkerAt(w)
    BY <1>1 DEF Inductive
  <2>2. /\ bundle = events /\ \A c \in Clients : scopes[c] = <<>>
        /\ \A w \in Workers : phase[w] = "idle"
    BY <1>1, <2>1 DEF Ending
  <2>3. \A t \in Threads : scopes[t] = <<>>
    BY <2>1, <2>2 DEF WorkerAt, WorkerStack, Threads
  <2>4. \A t \in Threads : DOMAIN scopes[t] = {}
    BY <2>3
  <2>5. \A n \in 1 .. span_counter : \E j \in DOMAIN events : events[j].span = n
    BY <2>1, <2>4 DEF IdsOnce
  <2> QED
    BY <2>1, <2>2, <2>5, EventsCounted
<1>2. Inductive => BundleComplete
  BY <1>1 DEF BundleComplete
<1> QED
  BY <1>2, ProfilingInvariance, PTL
=============================================================================
