--------------------------- MODULE RuntimeSession ---------------------------
(***************************************************************************)
(* runtime::RuntimeSession: the adaptive execution path.  Client threads   *)
(* call Run, WarmUp and WaitAll on one session; the session composes the   *)
(* shape statistics (ShapePredictor), the kernel cache (KernelCache) and   *)
(* the background compiler, of which it relies on no more than the promise *)
(* CompileQueue states.  One step of a client is one critical section of a *)
(* component, or one call that takes time (a compilation, a kernel run).   *)
(* runner_ and config_ are never used after construction; profiling spans  *)
(* change none of this state.                                              *)
(***************************************************************************)
EXTENDS KernelCache, ShapePredictor, FiniteSets

CONSTANTS Clients,        \* threads that use the session
          Owner,          \* the thread that destroys it
          Hash,           \* ShapeSignature::Hash, which is not injective
          DeclaredShape,  \* the input shapes relay_func_ is typed with
          MaxRuns         \* bound: calls of Run, so that TLC terminates

ASSUME SessionAssumption ==
    /\ Owner \notin Clients
    /\ DOMAIN Hash = Shapes
    /\ Shapes \subseteq Seq(Seq(Int))
    /\ MaxRuns \in Nat /\ MaxRecent \in Nat

VARIABLES frame,            \* every client's control point and local variables
          submitted_shapes, \* submitted_shapes_: hashes, not signatures
          overwritten,      \* clients whose kernel was assigned over in a run
          life,             \* the session's lifetime
          pending, executing, outcome, waiting  \* the background compiler

bgVars == <<pending, executing, outcome, waiting>>
vars == <<cache, predictorVars, frame, submitted_shapes, overwritten, life,
          bgVars>>

\* CompileTask: the fields that matter to the queue and to on_complete.
CompileTasks == [shape : Shapes, priority : 1..MaxRuns]

Bg == INSTANCE CompileQueue WITH
         Tasks <- CompileTasks, Callers <- Clients \cup {Owner},
         Priority <- [t \in CompileTasks |-> t.priority]

\* api::Compiler::Compile(relay_func_, internal_config_): the shape a module is
\* lowered for is the one relay_func_ declares; the caller's is not passed on.
Compile == DeclaredShape

RunPoints == {"run_exact", "run_fuzzy", "run_new"}

Points == RunPoints \cup
    {"idle", "exact", "fuzzy", "compile", "put", "reget", "count", "should",
     "claim", "submit", "warm_has", "warm_compile", "warm_put"}

\* Outside a call a client has no local variables.
Idle == [at |-> "idle", sig |-> DeclaredShape, slot |-> DeclaredShape,
         observed_count |-> 0]

TypeOK ==
    /\ DOMAIN cache \subseteq Shapes
    /\ \A s \in DOMAIN cache : cache[s] = Compile
    /\ freq \in [Shapes -> 0..MaxRuns]
    /\ recent \in Seq(Shapes) /\ Len(recent) <= MaxRecent
    /\ total_count \in 0..MaxRuns
    /\ frame \in [Clients -> [at : Points, sig : Shapes \cup {DeclaredShape},
                              slot : Shapes \cup {DeclaredShape},
                              observed_count : 0..MaxRuns]]
    /\ submitted_shapes \subseteq {Hash[s] : s \in Shapes}
    /\ overwritten \subseteq Clients
    /\ life \in {"alive", "draining", "destroyed"}
    /\ pending \subseteq CompileTasks
    /\ executing \subseteq CompileTasks
    /\ outcome \in [CompileTasks -> {"none"} \cup Bg!Outcomes]
    /\ waiting \subseteq Clients \cup {Owner}

Init ==
    /\ cache = [s \in {} |-> Compile]
    /\ PredictorInit
    /\ frame = [c \in Clients |-> Idle]
    /\ submitted_shapes = {}
    /\ overwritten = {}
    /\ life = "alive"
    /\ Bg!Init

-----------------------------------------------------------------------------

GoTo(c, point) == frame' = [frame EXCEPT ![c].at = point]

Return(c) == frame' = [frame EXCEPT ![c] = Idle]

CallWith(c, sig, point) ==
    frame' = [frame EXCEPT ![c].sig = sig, ![c].at = point]

RunKernel(c, s, point) ==
    frame' = [frame EXCEPT ![c].slot = s, ![c].at = point]

\* A module stored in slot s is assigned over the module a client runs from.
RunsFrom(s) == {c \in Clients : frame[c].at \in RunPoints /\ frame[c].slot = s}

StoreModule(sig) ==
    /\ Put(sig, Compile)
    /\ overwritten' = overwritten \cup RunsFrom(sig)

(* Run *)

RunCall(c, sig) ==
    /\ frame[c].at = "idle" /\ c \notin waiting /\ life = "alive"
    /\ total_count < MaxRuns
    /\ Record(sig)
    /\ CallWith(c, sig, "exact")
    /\ UNCHANGED <<cache, submitted_shapes, overwritten, life, bgVars>>

GetExact(c) ==
    /\ frame[c].at = "exact"
    /\ IF Has(frame[c].sig)
       THEN RunKernel(c, frame[c].sig, "run_exact")
       ELSE GoTo(c, "fuzzy")
    /\ UNCHANGED <<cache, predictorVars, submitted_shapes, overwritten, life,
                   bgVars>>

LookupFuzzy(c) ==
    /\ frame[c].at = "fuzzy"
    /\ IF GetFuzzy(frame[c].sig) # {}
       THEN \E s \in GetFuzzy(frame[c].sig) : RunKernel(c, s, "run_fuzzy")
       ELSE GoTo(c, "compile")
    /\ UNCHANGED <<cache, predictorVars, submitted_shapes, overwritten, life,
                   bgVars>>

\* The synchronous compilation of a miss ends, or its exception leaves Run.
CompileMiss(c) ==
    /\ frame[c].at = "compile"
    /\ GoTo(c, "put") \/ Return(c)
    /\ UNCHANGED <<cache, predictorVars, submitted_shapes, overwritten, life,
                   bgVars>>

PutMiss(c) ==
    /\ frame[c].at = "put"
    /\ StoreModule(frame[c].sig)
    /\ GoTo(c, "reget")
    /\ UNCHANGED <<predictorVars, submitted_shapes, life, bgVars>>

\* cache_.GetExact(sig) again; its result is dereferenced unchecked.
ReGetExact(c) ==
    /\ frame[c].at = "reget"
    /\ RunKernel(c, frame[c].sig, "run_new")
    /\ UNCHANGED <<cache, predictorVars, submitted_shapes, overwritten, life,
                   bgVars>>

\* The kernel returns; only a fuzzy hit and a miss go on to
\* MaybeScheduleOptimization.  An exception leaves Run at once.
KernelReturns(c) ==
    /\ frame[c].at \in RunPoints
    /\ \/ frame[c].at # "run_exact" /\ GoTo(c, "count")
       \/ Return(c)
    /\ overwritten' = overwritten \ {c}
    /\ UNCHANGED <<cache, predictorVars, submitted_shapes, life, bgVars>>

(* MaybeScheduleOptimization *)

ReadCount(c) ==
    /\ frame[c].at = "count"
    /\ frame' = [frame EXCEPT ![c].observed_count = GetCount(frame[c].sig),
                              ![c].at = "should"]
    /\ UNCHANGED <<cache, predictorVars, submitted_shapes, overwritten, life,
                   bgVars>>

AskPredictor(c) ==
    /\ frame[c].at = "should"
    /\ IF ShouldCompile(frame[c].sig) THEN GoTo(c, "claim") ELSE Return(c)
    /\ UNCHANGED <<cache, predictorVars, submitted_shapes, overwritten, life,
                   bgVars>>

\* Mutant of Claim: the test under schedule_mu_ is dropped.
ClaimAlways(c) ==
    /\ frame[c].at = "claim"
    /\ submitted_shapes' = submitted_shapes \cup {Hash[frame[c].sig]}
    /\ GoTo(c, "submit")
    /\ UNCHANGED <<cache, predictorVars, overwritten, life, bgVars>>

\* Mutant of Claim: the hash is inserted, but the caller turns back.
ClaimAndLeave(c) ==
    /\ frame[c].at = "claim"
    /\ submitted_shapes' = submitted_shapes \cup {Hash[frame[c].sig]}
    /\ IF Has(frame[c].sig) THEN Return(c) ELSE GoTo(c, "submit")
    /\ UNCHANGED <<cache, predictorVars, overwritten, life, bgVars>>

\* Under schedule_mu_: the first client with this hash goes on to Submit.
Claim(c) ==
    /\ frame[c].at = "claim"
    /\ IF Hash[frame[c].sig] \in submitted_shapes
       THEN Return(c) /\ UNCHANGED submitted_shapes
       ELSE /\ submitted_shapes' = submitted_shapes \cup {Hash[frame[c].sig]}
            /\ GoTo(c, "submit")
    /\ UNCHANGED <<cache, predictorVars, overwritten, life, bgVars>>

SubmitTask(c) ==
    /\ frame[c].at = "submit"
    /\ Bg!Submit([shape |-> frame[c].sig, priority |-> frame[c].observed_count])
    /\ Return(c)
    /\ UNCHANGED <<cache, predictorVars, submitted_shapes, overwritten, life>>

-----------------------------------------------------------------------------
(* WarmUp *)

WarmUpCall(c, sig) ==
    /\ frame[c].at = "idle" /\ c \notin waiting /\ life = "alive"
    /\ CallWith(c, sig, "warm_has")
    /\ UNCHANGED <<cache, predictorVars, submitted_shapes, overwritten, life,
                   bgVars>>

WarmUpHas(c) ==
    /\ frame[c].at = "warm_has"
    /\ IF Has(frame[c].sig) THEN Return(c) ELSE GoTo(c, "warm_compile")
    /\ UNCHANGED <<cache, predictorVars, submitted_shapes, overwritten, life,
                   bgVars>>

WarmUpCompile(c) ==
    /\ frame[c].at = "warm_compile"
    /\ GoTo(c, "warm_put") \/ Return(c)
    /\ UNCHANGED <<cache, predictorVars, submitted_shapes, overwritten, life,
                   bgVars>>

WarmUpPut(c) ==
    /\ frame[c].at = "warm_put"
    /\ StoreModule(frame[c].sig)
    /\ Return(c)
    /\ UNCHANGED <<predictorVars, submitted_shapes, life, bgVars>>

(* WaitAll and the destructor *)

WaitAllCall(c) ==
    /\ frame[c].at = "idle" /\ life = "alive"
    /\ Bg!WaitCall(c)
    /\ UNCHANGED <<cache, predictorVars, frame, submitted_shapes, overwritten,
                   life>>

\* Mutant of WaitAllReturn: does not wait for the tasks being executed.
WaitAllReturnEarly(c) ==
    /\ c \in waiting /\ pending = {}
    /\ waiting' = waiting \ {c}
    /\ UNCHANGED <<pending, executing, outcome>>
    /\ UNCHANGED <<cache, predictorVars, frame, submitted_shapes, overwritten,
                   life>>

WaitAllReturn(c) ==
    /\ Bg!WaitReturn(c)
    /\ UNCHANGED <<cache, predictorVars, frame, submitted_shapes, overwritten,
                   life>>

\* ~RuntimeSession starts once no client is inside a call.
Destroy ==
    /\ life = "alive"
    /\ \A c \in Clients : frame[c].at = "idle" /\ c \notin waiting
    /\ Bg!WaitCall(Owner)
    /\ life' = "draining"
    /\ UNCHANGED <<cache, predictorVars, frame, submitted_shapes,
                   overwritten>>

\* Mutant of DestroyMembers: the cache goes without waiting for the tasks.
DestroyMembersAtOnce ==
    /\ life = "draining"
    /\ life' = "destroyed"
    /\ UNCHANGED <<cache, predictorVars, frame, submitted_shapes, overwritten,
                   bgVars>>

\* WaitAll is over; the members, the cache among them, are destroyed.
DestroyMembers ==
    /\ life = "draining"
    /\ Bg!WaitReturn(Owner)
    /\ life' = "destroyed"
    /\ UNCHANGED <<cache, predictorVars, frame, submitted_shapes,
                   overwritten>>

Destroyed == life = "destroyed" /\ UNCHANGED vars

-----------------------------------------------------------------------------
(* The background compiler at work *)

StartTask(t) ==
    /\ Bg!Start(t)
    /\ UNCHANGED <<cache, predictorVars, frame, submitted_shapes, overwritten,
                   life>>

\* A successful compilation ends with on_complete, which fills the cache.
FinishTask(t) ==
    /\ Bg!Finish(t)
    /\ IF outcome'[t] = "ok"
       THEN StoreModule(t.shape)
       ELSE UNCHANGED <<cache, overwritten>>
    /\ UNCHANGED <<predictorVars, frame, submitted_shapes, life>>

RunStep(c) ==
    \/ GetExact(c) \/ LookupFuzzy(c) \/ CompileMiss(c) \/ PutMiss(c)
    \/ ReGetExact(c) \/ KernelReturns(c) \/ ReadCount(c) \/ AskPredictor(c)
    \/ Claim(c) \/ SubmitTask(c)

WarmUpStep(c) == WarmUpHas(c) \/ WarmUpCompile(c) \/ WarmUpPut(c)

Next ==
    \/ \E c \in Clients :
          \/ \E s \in Shapes : RunCall(c, s) \/ WarmUpCall(c, s)
          \/ RunStep(c) \/ WarmUpStep(c)
          \/ WaitAllCall(c) \/ WaitAllReturn(c)
    \/ \E t \in pending : StartTask(t)
    \/ \E t \in executing : FinishTask(t)
    \/ Destroy \/ DestroyMembers \/ Destroyed

Spec == Init /\ [][Next]_vars

\* A client inside Run goes on, and the background compiler executes what it
\* was given (BackgroundCompiler!EveryTaskExecuted).  Nobody has to call.
Fairness ==
    /\ \A c \in Clients : WF_vars(RunStep(c))
    /\ WF_vars(\E t \in pending : StartTask(t))
    /\ \A t \in CompileTasks : WF_vars(FinishTask(t))

FairSpec == Spec /\ Fairness

-----------------------------------------------------------------------------
(* Properties *)

Submitting == {c \in Clients : frame[c].at = "submit"}

Running == {c \in Clients : frame[c].at \in RunPoints}

\* From Record to the end of MaybeScheduleOptimization.
InRun == Points \ {"idle", "warm_has", "warm_compile", "warm_put"}

\* MaybeScheduleOptimization claims a hash under schedule_mu_ and submits after
\* releasing it: whatever the clients interleave, one hash yields one task.
OneTaskPerHash ==
    /\ \A t, u \in Bg!Known : Hash[t.shape] = Hash[u.shape] => t = u
    /\ \A c, d \in Submitting : Hash[frame[c].sig] = Hash[frame[d].sig] => c = d
    /\ \A t \in Bg!Known, c \in Submitting : Hash[t.shape] # Hash[frame[c].sig]

\* submitted_shapes_ is never cleaned up, so a claim without a task would bar
\* the shape for good: every claimed hash has its task, or a client about to
\* submit it.
NoClaimLost ==
    submitted_shapes = {Hash[t.shape] : t \in Bg!Known}
                       \cup {Hash[frame[c].sig] : c \in Submitting}

\* GetCount and ShouldCompile take the predictor's mutex separately; still a
\* task is only made for a shape seen twice, and its priority, read before,
\* is never more than the number of times the shape was seen.
TaskJustified ==
    \A t \in Bg!Known : freq[t.shape] >= 2 /\ t.priority <= freq[t.shape]

\* The pointer GetExact and GetFuzzy hand out is used after the mutex is
\* released, and the second GetExact of a miss is dereferenced unchecked: the
\* slot is there, whatever other threads put into the cache meanwhile.
KernelPointerValid ==
    /\ \A c \in Running : frame[c].slot \in DOMAIN cache
    /\ \A c \in Clients : frame[c].at = "reget" => frame[c].sig \in DOMAIN cache

\* A run never uses a slot whose signature is smaller than its input's in some
\* dimension, or has another rank.
SlotCoversInput == \A c \in Running : Covers(frame[c].slot, frame[c].sig)

\* A fuzzy hit never skips a cached signature that lies between the input's
\* and the chosen one.
FuzzyNearest ==
    [][\A c \in Clients : frame[c].at = "fuzzy" /\ frame'[c].at = "run_fuzzy" =>
          \A s \in DOMAIN cache :
             Covers(s, frame[c].sig) /\ Covers(frame'[c].slot, s) => s = frame'[c].slot]_vars

\* When WaitAll returns, every claimed shape has been compiled or has failed,
\* except one that another client has claimed and not yet submitted.
WaitAllSettles ==
    [][\A c \in waiting : c \notin waiting' =>
          \A h \in submitted_shapes :
             \/ \E t \in CompileTasks : Hash[t.shape] = h /\ outcome[t] # "none"
             \/ \E d \in Submitting : Hash[frame[d].sig] = h]_vars

\* on_complete writes to cache_ through the captured session: no task is left
\* when the members are destroyed.
CallbackTargetAlive == life = "destroyed" => pending \cup executing = {}

\* What a client's local variables still say about the shared state, which
\* other clients change meanwhile: the count it read is not more than the
\* shape's count now, and is not 0, because Run records before it looks up.
CountsCurrent ==
    /\ \A s \in Shapes : freq[s] <= total_count
    /\ \A c \in Clients :
          /\ frame[c].at # "idle" => frame[c].sig \in Shapes
          /\ frame[c].at \in InRun => freq[frame[c].sig] >= 1
          /\ frame[c].at \in {"should", "claim", "submit"} =>
                frame[c].observed_count \in 1..freq[frame[c].sig]
          /\ frame[c].at \in {"claim", "submit"} => freq[frame[c].sig] >= CountThreshold

\* The destructor runs alone: no client is inside a call any more.
QuietWhenDestroyed ==
    life # "alive" => \A c \in Clients : frame[c].at = "idle" /\ c \notin waiting

\* The invariant every step preserves, from which the others follow.
Inductive ==
    /\ TypeOK /\ CountsCurrent /\ QuietWhenDestroyed
    /\ OneTaskPerHash /\ NoClaimLost /\ TaskJustified
    /\ KernelPointerValid /\ SlotCoversInput /\ CallbackTargetAlive

\* The claim is only the promise of a task: a shape that ShouldCompile accepts
\* gets the task of its hash executed, and when that succeeds the cache holds
\* the task's shape (its own, unless the hashes of two shapes are equal).
HotShapeServed ==
    \A s \in Shapes :
        (freq[s] >= 2 /\ \E c \in Clients : frame[c].at = "should" /\ frame[c].sig = s)
        ~> \E t \in CompileTasks :
              /\ Hash[t.shape] = Hash[s]
              /\ outcome[t] # "none"
              /\ outcome[t] = "ok" => Has(t.shape)

\* compile_config.h describes the adaptive mode as "run first, compile in the
\* background, hot-swap": a swap never hits a kernel that is running.
HotSwapSafe == overwritten = {}

\* compiler.h says that WarmUp compiles for the shape it is given: what runs
\* was lowered for a shape that covers the input.
KernelFitsInput == \A c \in Running : Covers(cache[frame[c].slot], frame[c].sig)
=============================================================================
