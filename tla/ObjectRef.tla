------------------------------ MODULE ObjectRef ------------------------------
(***************************************************************************)
(* Object's atomic reference count and ObjectRef's copy, move and release, *)
(* instruction by instruction, in the one place where handles meet several *)
(* threads: every compilation of a session's function holds a handle to    *)
(* the function, and InferTypePass writes the types it finds into the      *)
(* function's own nodes (SetCheckedType), where later passes read them.    *)
(* checked_type_ of one node stands for all of them.                       *)
(*                                                                         *)
(* The count is atomic, the pointer inside a handle is not.  A handle of a *)
(* thread is used by that thread only; checked_type_ and the session's     *)
(* relay_func_ are reached by all, and nothing orders the accesses of two  *)
(* compilations to checked_type_.  The history variable overlapped records *)
(* that two of them met there; no guard reads it.  Memory comes from the   *)
(* global heap: no code installs an Arena.                                 *)
(***************************************************************************)
EXTENDS Integers, FiniteSets

CONSTANTS Threads,      \* threads that run or submit compilations
          Compilers,    \* those that run InferTypePass on the function
          Owner,        \* the session
          Func,         \* the object relay_func_ refers to
          Types,        \* type objects that may be made
          Null

ASSUME ObjectAssumption ==
    /\ IsFiniteSet(Threads)
    /\ Compilers \subseteq Threads /\ Owner \notin Threads
    /\ Func \notin Types /\ Null \notin Types \cup {Func}

VARIABLES refcount,     \* _refCount of every object
          made,         \* objects allocated so far
          freed,        \* objects deleted
          field,        \* checked_type_ of the shared node
          handles,      \* what each thread's own ObjectRefs refer to
          pc, after,    \* control point, and where to go on after a DecRef
          reg,          \* the pointer a thread has loaded
          overlapped    \* history: a thread replaced checked_type_ while
                        \* another was copying or replacing it

vars == <<refcount, made, freed, field, handles, pc, after, reg, overlapped>>

Holders == Threads \cup {Owner}
Objects == Types \cup {Func}

Init ==
    /\ refcount = [o \in Objects |-> IF o = Func THEN 1 ELSE 0]
    /\ made = {Func} /\ freed = {}
    /\ field = Null
    /\ handles = [t \in Holders |-> IF t = Owner THEN {Func} ELSE {}]
    /\ pc = [t \in Holders |-> IF t = Owner THEN "held" ELSE "idle"]
    /\ after = [t \in Holders |-> "idle"]
    /\ reg = [t \in Holders |-> Null]
    /\ overlapped = FALSE

TypeHandles(t) == handles[t] \cap Types

GoTo(t, point) == pc' = [pc EXCEPT ![t] = point]

Load(t, pointer) == reg' = [reg EXCEPT ![t] = pointer]

\* Threads inside the assignment of SetCheckedType, from its load to its store.
Replacing ==
    {t \in Threads : after[t] = "store" /\ pc[t] \in {"dec", "delete", "store"}}

\* Threads that have loaded checked_type_ and not yet counted their copy.
Reading == {t \in Threads : pc[t] = "inc" /\ reg[t] \in Types}

-----------------------------------------------------------------------------
(* Copies *)

\* The copy constructor of a task's or a pass's handle loads relay_func_.
CopyFunc(t) ==
    /\ pc[t] = "idle" /\ pc[Owner] = "held"
    /\ Load(t, Func)
    /\ GoTo(t, "inc")
    /\ UNCHANGED <<refcount, made, freed, field, handles, after, overlapped>>

\* Expr::checked_type() returns a copy of the field.
CopyType(t) ==
    /\ pc[t] = "held" /\ t \in Compilers
    /\ TypeHandles(t) = {} /\ field # Null
    /\ Load(t, field)
    /\ GoTo(t, "inc")
    /\ overlapped' = (overlapped \/ Replacing # {})
    /\ UNCHANGED <<refcount, made, freed, field, handles, after>>

IncRef(t) ==
    /\ pc[t] = "inc"
    /\ refcount' = [refcount EXCEPT ![reg[t]] = @ + 1]
    /\ handles' = [handles EXCEPT ![t] = @ \cup {reg[t]}]
    /\ GoTo(t, "held")
    /\ UNCHANGED <<made, freed, field, after, reg, overlapped>>

-----------------------------------------------------------------------------
(* Releases *)

Release(t, o, point) ==
    /\ handles' = [handles EXCEPT ![t] = @ \ {o}]
    /\ Load(t, o)
    /\ GoTo(t, "dec")
    /\ after' = [after EXCEPT ![t] = point]
    /\ UNCHANGED <<refcount, made, freed, field, overlapped>>

\* The pass is over, its results go.
ReleaseType(t) ==
    /\ pc[t] = "held"
    /\ \E o \in TypeHandles(t) : Release(t, o, "held")

\* The compilation is over; the session lets go of its own handle when nobody
\* is copying from it.
ReleaseFunc(t) ==
    /\ pc[t] = "held" /\ TypeHandles(t) = {}
    /\ t = Owner => \A u \in Threads : ~(pc[u] = "inc" /\ reg[u] = Func)
    /\ Release(t, Func, "idle")

\* Mutant of DecRef: off by one, the last but one reference deletes.
DecRefEarly(t) ==
    /\ pc[t] = "dec"
    /\ refcount' = [refcount EXCEPT ![reg[t]] = @ - 1]
    /\ GoTo(t, IF refcount[reg[t]] = 2 THEN "delete" ELSE after[t])
    /\ UNCHANGED <<made, freed, field, handles, after, reg, overlapped>>

\* fetch_sub: the one that takes the count from 1 to 0 deletes.
DecRef(t) ==
    /\ pc[t] = "dec"
    /\ refcount' = [refcount EXCEPT ![reg[t]] = @ - 1]
    /\ GoTo(t, IF refcount[reg[t]] = 1 THEN "delete" ELSE after[t])
    /\ UNCHANGED <<made, freed, field, handles, after, reg, overlapped>>

\* Mutant of Delete: the node's own references are not released.
DeleteShallow(t) ==
    /\ pc[t] = "delete"
    /\ freed' = freed \cup {reg[t]}
    /\ GoTo(t, after[t])
    /\ UNCHANGED <<refcount, made, field, handles, after, reg, overlapped>>

\* The destructor of a node releases the handles inside it.
Delete(t) ==
    /\ pc[t] = "delete"
    /\ freed' = freed \cup {reg[t]}
    /\ IF reg[t] = Func /\ field # Null
       THEN Load(t, field) /\ GoTo(t, "dec") /\ field' = Null
       ELSE GoTo(t, after[t]) /\ UNCHANGED <<reg, field>>
    /\ UNCHANGED <<refcount, made, handles, after, overlapped>>

-----------------------------------------------------------------------------
(* SetCheckedType *)

\* A pass makes a type: its result, and the parameter of SetCheckedType.
InferType(t) ==
    /\ pc[t] = "held" /\ t \in Compilers /\ TypeHandles(t) = {}
    /\ \E o \in Types \ made :
          /\ made' = made \cup {o}
          /\ refcount' = [refcount EXCEPT ![o] = 2]
          /\ handles' = [handles EXCEPT ![t] = @ \cup {o}]
    /\ GoTo(t, "assign")
    /\ UNCHANGED <<freed, field, after, reg, overlapped>>

\* Mutant of AssignLoad: the old type is not released.
AssignLoadOnly(t) ==
    /\ pc[t] = "assign"
    /\ GoTo(t, "store")
    /\ after' = [after EXCEPT ![t] = "store"]
    /\ overlapped' = (overlapped \/ Replacing \cup Reading # {})
    /\ UNCHANGED <<refcount, made, freed, field, handles, reg>>

\* operator=(ObjectRef&&): the old pointer is loaded, released, replaced.
AssignLoad(t) ==
    /\ pc[t] = "assign"
    /\ Load(t, field)
    /\ GoTo(t, IF field = Null THEN "store" ELSE "dec")
    /\ after' = [after EXCEPT ![t] = "store"]
    /\ overlapped' = (overlapped \/ Replacing \cup Reading # {})
    /\ UNCHANGED <<refcount, made, freed, field, handles>>

AssignStore(t) ==
    /\ pc[t] = "store"
    /\ \E o \in TypeHandles(t) : field' = o
    /\ GoTo(t, "held")
    /\ UNCHANGED <<refcount, made, freed, handles, after, reg, overlapped>>

Next ==
    \/ \E t \in Threads :
          \/ CopyFunc(t) \/ CopyType(t) \/ IncRef(t) \/ ReleaseType(t)
          \/ InferType(t) \/ AssignLoad(t) \/ AssignStore(t)
    \/ \E t \in Holders : ReleaseFunc(t) \/ DecRef(t) \/ Delete(t)

Spec == Init /\ [][Next]_vars

-----------------------------------------------------------------------------
(* Properties *)

\* Threads inside SetCheckedType: its parameter refers to the new type too.
Assigning(o) ==
    {t \in Threads : /\ o \in TypeHandles(t)
                     /\ \/ pc[t] \in {"assign", "store"}
                        \/ pc[t] \in {"dec", "delete"} /\ after[t] = "store"}

\* A reference given up and not yet counted down.
Leaving(o) == {t \in Holders : pc[t] = "dec" /\ reg[t] = o}

HoldersOf(o) == {t \in Holders : o \in handles[t]}

\* The field's own reference: until the new type is stored, the old one is
\* being given up.
Stored(o) == IF field = o /\ Replacing = {} THEN 1 ELSE 0

\* The count is the number of references there are: the threads' handles, the
\* parameter on its way into the field, the field, and references being given
\* up.
ExactCounts ==
    \A o \in made \ freed :
        refcount[o] = Cardinality(HoldersOf(o)) + Cardinality(Assigning(o))
                      + Cardinality(Leaving(o)) + Stored(o)

\* The atomic counter suffices for handles of different threads: at every
\* instruction the counts are exact, however many threads copy, release and
\* compile, until two of them meet inside checked_type_.
CountExact == ~overlapped => ExactCounts

\* docs/SUMMARY.md calls the reference counts thread-safe: nobody copies,
\* releases or deletes an object that has been deleted, and no handle refers
\* to one.
NoUseAfterFree ==
    /\ \A t \in Holders : pc[t] \in {"inc", "dec", "delete"} => reg[t] \notin freed
    /\ \A t \in Holders : handles[t] \cap freed = {}

\* Two threads inside checked_type_ at once, one of them in SetCheckedType, are
\* the only cause of a use after free: compilations that overlap anywhere else
\* never touch a deleted object.
FreedOnlyByOverlap == ~overlapped => NoUseAfterFree

\* When the last handle is gone so is everything that was made.
NoLeak == ~overlapped /\ (\A t \in Holders : pc[t] = "idle") => freed = made
=============================================================================
