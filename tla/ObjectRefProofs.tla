--------------------------- MODULE ObjectRefProofs ---------------------------
(***************************************************************************)
(* Proofs about ObjectRef for any number of threads, compilations and      *)
(* objects: until two threads meet inside checked_type_ the reference      *)
(* count is exact at every instruction, nothing is used after it was freed *)
(* and nothing leaks.                                                      *)
(***************************************************************************)
EXTENDS ObjectRef, FiniteSetTheorems, TLAPS

Live == made \ freed

Points == {"idle", "inc", "held", "dec", "delete", "assign", "store"}

TypeOK ==
    /\ refcount \in [Objects -> Int]
    /\ made \subseteq Objects /\ Func \in made /\ freed \subseteq made
    /\ field \in Types \cup {Null}
    /\ handles \in [Holders -> SUBSET Objects]
    /\ pc \in [Holders -> Points]
    /\ after \in [Holders -> {"idle", "held", "store"}]
    /\ reg \in [Holders -> Objects \cup {Null}]

\* A compilation's handles: the function and one type that neither the field
\* nor another thread refers to.
HoldsNewType(t) ==
    /\ t \in Compilers
    /\ \E o \in Types \ {field} :
          /\ handles[t] = {Func, o}
          /\ \A u \in Holders \ {t} : o \notin handles[u]

\* At most one thread is replacing the field, and none is copying it meanwhile.
FieldInOrder ==
    /\ \A t, u \in Replacing : t = u
    /\ Replacing = {} \/ Reading = {}

\* What a thread holds at each of its instructions.
ThreadAt(t) ==
    /\ pc[t] = "idle" => handles[t] = {}
    /\ pc[t] = "inc" =>
          \/ reg[t] = Func /\ handles[t] = {} /\ pc[Owner] = "held"
          \/ /\ reg[t] = field /\ field # Null
             /\ t \in Compilers /\ handles[t] = {Func}
    /\ pc[t] = "held" =>
          \/ handles[t] = {Func}
          \/ t \in Compilers /\ \E o \in Types : handles[t] = {Func, o}
    /\ pc[t] = "assign" => HoldsNewType(t)
    /\ pc[t] = "store" => after[t] = "store" /\ HoldsNewType(t)
    /\ pc[t] \in {"dec", "delete"} =>
          \/ after[t] = "idle" /\ handles[t] = {}
          \/ /\ after[t] = "held" /\ t \in Compilers
             /\ handles[t] = {Func} /\ reg[t] \in Types
          \/ after[t] = "store" /\ reg[t] = field /\ HoldsNewType(t)

OwnerAt ==
    /\ pc[Owner] \in {"held", "dec", "delete", "idle"} /\ after[Owner] = "idle"
    /\ handles[Owner] = IF pc[Owner] = "held" THEN {Func} ELSE {}

\* Every pointer that will still be used refers to an object that is there.
PointersLive ==
    /\ \A t \in Holders : handles[t] \subseteq Live
    /\ \A t \in Holders : pc[t] \in {"inc", "dec", "delete"} => reg[t] \in Live
    /\ field \in made \cup {Null}
    /\ field # Null /\ Replacing = {} => field \in Live
    /\ Func \in freed => field = Null

\* An object whose count is 0 has one thread that is about to delete it.
Dying ==
    /\ \A t \in Holders : pc[t] = "delete" => refcount[reg[t]] = 0
    /\ \A t, u \in Holders :
          pc[t] = "delete" /\ pc[u] = "delete" /\ reg[t] = reg[u] => t = u
    /\ \A o \in Live : refcount[o] = 0 =>
          \E t \in Holders : pc[t] = "delete" /\ reg[t] = o

Inductive ==
    /\ TypeOK /\ OwnerAt /\ (\A t \in Threads : ThreadAt(t))
    /\ FieldInOrder /\ PointersLive /\ Dying /\ ExactCounts

\* SetCheckedType has no lock: what holds until two threads meet in the field.
InductiveUntilOverlap == ~overlapped => Inductive

\* ExactCounts of one object.
CountOf(o) ==
    refcount[o] = Cardinality(HoldersOf(o)) + Cardinality(Assigning(o))
                  + Cardinality(Leaving(o)) + Stored(o)

\* The sets of references that the count counts are finite.
LEMMA FiniteReferences ==
    ASSUME NEW o
    PROVE  /\ IsFiniteSet(HoldersOf(o)) /\ Cardinality(HoldersOf(o)) \in Nat
           /\ IsFiniteSet(Assigning(o)) /\ Cardinality(Assigning(o)) \in Nat
           /\ IsFiniteSet(Leaving(o)) /\ Cardinality(Leaving(o)) \in Nat
<1>1. IsFiniteSet(Holders)
  BY ObjectAssumption, FS_AddElement DEF Holders
<1>2. /\ HoldersOf(o) \in SUBSET Holders /\ Assigning(o) \in SUBSET Holders
      /\ Leaving(o) \in SUBSET Holders
  BY DEF HoldersOf, Assigning, Leaving, Holders
<1>3. /\ IsFiniteSet(HoldersOf(o)) /\ IsFiniteSet(Assigning(o))
      /\ IsFiniteSet(Leaving(o))
  BY <1>1, <1>2, FS_Subset
<1> QED
  BY <1>3, FS_CardinalityType

\* An object whose count is 0 has no reference of any kind.
LEMMA ZeroMeansUnreferenced ==
    ASSUME Inductive, NEW o \in Live, refcount[o] = 0
    PROVE  /\ HoldersOf(o) = {} /\ Assigning(o) = {} /\ Leaving(o) = {}
           /\ field = o => Replacing # {}
<1>1. /\ Cardinality(HoldersOf(o)) \in Nat /\ Cardinality(Assigning(o)) \in Nat
      /\ Cardinality(Leaving(o)) \in Nat /\ Stored(o) \in Nat
  BY FiniteReferences DEF Stored
<1>2. 0 = Cardinality(HoldersOf(o)) + Cardinality(Assigning(o))
          + Cardinality(Leaving(o)) + Stored(o)
  BY DEF Inductive, ExactCounts, Live
<1>3. /\ Cardinality(HoldersOf(o)) = 0 /\ Cardinality(Assigning(o)) = 0
      /\ Cardinality(Leaving(o)) = 0 /\ Stored(o) = 0
  BY <1>1, <1>2
<1> QED
  BY <1>3, FiniteReferences, FS_EmptySet DEF Stored

\* Inductive holds when the session has been given its function.
LEMMA InitInductive == Init => Inductive
<1> SUFFICES ASSUME Init PROVE Inductive
  OBVIOUS
<1> USE ObjectAssumption DEF Init, Holders, Objects
<1>1. TypeOK
  BY DEF TypeOK, Points
<1>2. OwnerAt /\ \A t \in Threads : ThreadAt(t)
  BY DEF OwnerAt, ThreadAt
<1>3. PointersLive
  BY DEF PointersLive, Live
<1>4. Dying
  BY DEF Dying, Live
<1>5. /\ HoldersOf(Func) = {Owner} /\ Assigning(Func) = {}
      /\ Leaving(Func) = {} /\ Stored(Func) = 0
  BY DEF HoldersOf, Assigning, Leaving, Stored, TypeHandles
<1>6. ExactCounts
  <2>1. Cardinality({Owner}) = 1 /\ Cardinality({}) = 0
    BY FS_EmptySet, FS_Singleton
  <2>2. refcount[Func] = 1 /\ made \ freed = {Func}
    OBVIOUS
  <2>3. CountOf(Func)
    BY <1>5, <2>1, <2>2 DEF CountOf
  <2> QED
    BY <2>2, <2>3 DEF ExactCounts, CountOf
<1>7. FieldInOrder
  BY DEF FieldInOrder, Replacing
<1> QED
  BY <1>1, <1>2, <1>3, <1>4, <1>6, <1>7 DEF Inductive

\* Where no set of references changes, the count stays exact.
LEMMA CountKept ==
    ASSUME Inductive, refcount' = refcount, made' = made, freed \subseteq freed',
           \A o \in Live : /\ HoldersOf(o)' = HoldersOf(o)
                           /\ Assigning(o)' = Assigning(o)
                           /\ Leaving(o)' = Leaving(o)
                           /\ Stored(o)' = Stored(o)
    PROVE  ExactCounts'
  BY DEF Inductive, ExactCounts, Live

\* A copy constructor has loaded the pointer it is going to count up.
LEMMA CopyInductive ==
    ASSUME Inductive, NEW t \in Threads, CopyFunc(t) \/ CopyType(t), ~overlapped'
    PROVE  Inductive'
<1> USE ObjectAssumption DEF Holders, Objects
<1>1. /\ pc[t] \in {"idle", "held"} /\ t # Owner
      /\ pc' = [pc EXCEPT ![t] = "inc"] /\ reg' = [reg EXCEPT ![t] = reg'[t]]
      /\ UNCHANGED <<refcount, made, freed, field, handles, after>>
  BY DEF CopyFunc, CopyType, Load, GoTo, Inductive, TypeOK
<1>2. /\ pc \in [Holders -> Points] /\ reg \in [Holders -> Objects \cup {Null}]
      /\ field \in Types \cup {Null}
  BY DEF Inductive, TypeOK
<1>3. /\ pc'[t] = "inc" /\ \A u \in Holders \ {t} : pc'[u] = pc[u] /\ reg'[u] = reg[u]
      /\ pc[Owner] = pc'[Owner]
  BY <1>1, <1>2
<1>4. /\ reg'[t] \in Live
      /\ \/ reg'[t] = Func /\ handles[t] = {} /\ pc[Owner] = "held"
         \/ /\ reg'[t] = field /\ field # Null
            /\ t \in Compilers /\ handles[t] = {Func} /\ Replacing = {}
  <2>1. CASE CopyFunc(t)
    <3>1. reg'[t] = Func /\ pc[t] = "idle" /\ pc[Owner] = "held"
      BY <2>1, <1>2 DEF CopyFunc, Load
    <3>2. Func \in Live
      BY <3>1 DEF Inductive, OwnerAt, PointersLive
    <3> QED
      BY <3>1, <3>2 DEF Inductive, ThreadAt
  <2>2. CASE CopyType(t)
    <3>1. reg'[t] = field /\ field # Null /\ pc[t] = "held" /\ t \in Compilers
      BY <2>2, <1>2 DEF CopyType, Load
    <3>2. handles[t] = {Func}
      BY <2>2, <3>1 DEF CopyType, TypeHandles, Inductive, ThreadAt
    <3>3. Replacing = {}
      BY <2>2 DEF CopyType
    <3> QED
      BY <3>1, <3>2, <3>3 DEF Inductive, PointersLive
  <2> QED
    BY <2>1, <2>2
<1>5. TypeOK'
  BY <1>1, <1>2, <1>3, <1>4 DEF Inductive, TypeOK, Points, Live
<1>6. OwnerAt'
  BY <1>1, <1>3 DEF Inductive, OwnerAt
<1>7. \A u \in Threads : ThreadAt(u)'
  <2>1. ThreadAt(t)'
    BY <1>1, <1>3, <1>4 DEF ThreadAt
  <2>2. ASSUME NEW u \in Threads \ {t} PROVE ThreadAt(u)'
    BY <1>1, <1>3 DEF Inductive, ThreadAt, HoldsNewType
  <2> QED
    BY <2>1, <2>2
<1>8. Replacing' = Replacing
  BY <1>1, <1>3 DEF Replacing
<1>9. PointersLive'
  BY <1>1, <1>3, <1>4, <1>8 DEF Inductive, PointersLive, Live
<1>10. Dying'
  BY <1>1, <1>3 DEF Inductive, Dying, Live
<1>11. ExactCounts'
  <2>1. ASSUME NEW o \in Live
        PROVE  /\ HoldersOf(o)' = HoldersOf(o) /\ Assigning(o)' = Assigning(o)
               /\ Leaving(o)' = Leaving(o) /\ Stored(o)' = Stored(o)
    BY <1>1, <1>3, <1>8 DEF HoldersOf, Assigning, Leaving, Stored, TypeHandles
  <2> QED
    BY <1>1, <2>1, CountKept
<1>12. FieldInOrder'
  <2>1. Reading' \subseteq Reading \cup (IF reg'[t] = Func THEN {} ELSE {t})
    BY <1>3 DEF Reading
  <2> QED
    BY <1>4, <1>8, <2>1 DEF Inductive, FieldInOrder
<1> QED
  BY <1>5, <1>6, <1>7, <1>9, <1>10, <1>11, <1>12 DEF Inductive

\* Where one object's references change, the others' counts stay exact.
LEMMA CountMoves ==
    ASSUME Inductive, NEW o, o \in Live' => CountOf(o)',
           made' = made, freed \subseteq freed',
           \A x \in Live \ {o} : /\ refcount'[x] = refcount[x]
                                 /\ HoldersOf(x)' = HoldersOf(x)
                                 /\ Assigning(x)' = Assigning(x)
                                 /\ Leaving(x)' = Leaving(x)
                                 /\ Stored(x)' = Stored(x)
    PROVE  ExactCounts'
  BY DEF Inductive, ExactCounts, CountOf, Live

\* IncRef: the copy becomes one more handle and is counted.  The object is
\* there, because the field or the session refers to it until then.
LEMMA IncInductive ==
    ASSUME Inductive, NEW t \in Threads, IncRef(t)
    PROVE  Inductive'
<1> USE ObjectAssumption DEF Holders, Objects
<1>0. PICK o : o = reg[t]
  OBVIOUS
<1>1. /\ pc[t] = "inc" /\ t # Owner /\ t \in Holders
      /\ refcount' = [refcount EXCEPT ![o] = @ + 1]
      /\ handles' = [handles EXCEPT ![t] = @ \cup {o}]
      /\ pc' = [pc EXCEPT ![t] = "held"]
      /\ UNCHANGED <<made, freed, field, after, reg>>
  BY <1>0 DEF IncRef, GoTo
<1>2. TypeOK /\ OwnerAt /\ ThreadAt(t) /\ PointersLive /\ Dying
  BY DEF Inductive
<1>3. o \in Live /\ o \in Objects
  BY <1>0, <1>1, <1>2 DEF PointersLive, TypeOK, Live
<1>4. /\ pc'[t] = "held" /\ handles'[t] = handles[t] \cup {o}
      /\ \A u \in Holders \ {t} : pc'[u] = pc[u] /\ handles'[u] = handles[u]
      /\ refcount'[o] = refcount[o] + 1 /\ refcount[o] \in Int
      /\ \A x \in Objects \ {o} : refcount'[x] = refcount[x]
  BY <1>1, <1>2, <1>3 DEF TypeOK
<1>5. \/ o = Func /\ handles[t] = {} /\ pc[Owner] = "held"
      \/ /\ o = field /\ o \in Types /\ Replacing = {}
         /\ t \in Compilers /\ handles[t] = {Func}
  <2>1. o \in Types => Replacing = {}
    BY <1>0, <1>1 DEF Inductive, FieldInOrder, Reading
  <2> QED
    BY <1>0, <1>1, <1>2, <2>1 DEF ThreadAt, TypeOK
<1>6. refcount[o] # 0
  <2>1. HoldersOf(o) # {} \/ (field = o /\ Replacing = {})
    BY <1>2, <1>5 DEF OwnerAt, HoldersOf
  <2> QED
    BY <1>3, <2>1, ZeroMeansUnreferenced
<1>7. refcount[o] >= 0
  <2>1. CountOf(o)
    BY <1>3 DEF Inductive, ExactCounts, CountOf, Live
  <2> QED
    BY <2>1, FiniteReferences DEF CountOf, Stored
<1>8. TypeOK'
  BY <1>1, <1>2, <1>3, <1>4 DEF TypeOK, Points
<1>9. OwnerAt'
  BY <1>1, <1>2, <1>4 DEF OwnerAt
<1>10. \A u \in Threads : ThreadAt(u)'
  <2>1. ThreadAt(t)'
    BY <1>4, <1>5, <1>1 DEF ThreadAt
  <2>2. ASSUME NEW u \in Threads \ {t} PROVE ThreadAt(u)'
    <3>1. ThreadAt(u) /\ (HoldsNewType(u) => HoldsNewType(u)')
      BY <1>1, <1>4, <1>5 DEF Inductive, HoldsNewType
    <3> QED
      BY <1>1, <1>4, <3>1 DEF ThreadAt
  <2> QED
    BY <2>1, <2>2
<1>11. Replacing' = Replacing
  BY <1>1, <1>4 DEF Replacing
<1>12. PointersLive'
  BY <1>1, <1>2, <1>3, <1>4, <1>11 DEF PointersLive, Live
<1>13. Dying'
  <2>1. \A u \in Holders : pc[u] = "delete" => reg[u] # o
    BY <1>2, <1>6 DEF Dying
  <2>2. \A u \in Holders : pc'[u] = "delete" <=> pc[u] = "delete"
    BY <1>1, <1>4
  <2>3. Live' = Live /\ Live \subseteq Objects
    BY <1>1, <1>2 DEF Live, TypeOK
  <2>4. \A u \in Holders : pc[u] = "delete" => reg[u] \in Live
    BY <1>2 DEF PointersLive
  <2> QED
    BY <1>1, <1>2, <1>4, <1>6, <1>7, <2>1, <2>2, <2>3, <2>4 DEF Dying
<1>14. ExactCounts'
  <2>1. /\ HoldersOf(o)' = HoldersOf(o) \cup {t} /\ t \notin HoldersOf(o)
        /\ \A x \in Objects \ {o} : HoldersOf(x)' = HoldersOf(x)
    BY <1>1, <1>4, <1>5 DEF HoldersOf
  <2>2. \A x \in Objects : /\ Assigning(x)' = Assigning(x)
                            /\ Leaving(x)' = Leaving(x)
                            /\ Stored(x)' = Stored(x)
    BY <1>1, <1>4, <1>11 DEF Assigning, Leaving, Stored, TypeHandles
  <2>3. Cardinality(HoldersOf(o)') = Cardinality(HoldersOf(o)) + 1
    <3>1. IsFiniteSet(HoldersOf(o))
      BY FiniteReferences
    <3> QED
      BY <2>1, <3>1, FS_AddElement
  <2>4. CountOf(o)
    BY <1>3 DEF Inductive, ExactCounts, CountOf, Live
  <2>5. CountOf(o)'
    BY <1>1, <1>3, <1>4, <2>2, <2>3, <2>4, FiniteReferences DEF CountOf, Stored
  <2> QED
    BY <1>1, <1>2, <1>4, <2>1, <2>2, <2>5, CountMoves DEF Live, TypeOK
<1>15. FieldInOrder'
  <2>1. Reading' \subseteq Reading
    BY <1>1, <1>4 DEF Reading
  <2> QED
    BY <1>11, <2>1 DEF Inductive, FieldInOrder
<1> QED
  BY <1>8, <1>9, <1>10, <1>12, <1>13, <1>14, <1>15 DEF Inductive

\* A handle is given up: its reference is now one on its way to DecRef.  The
\* session gives up its own only when nobody is copying from it.
LEMMA ReleaseInductive ==
    ASSUME Inductive, NEW t \in Holders,
           (t \in Threads /\ ReleaseType(t)) \/ ReleaseFunc(t)
    PROVE  Inductive'
<1> USE ObjectAssumption DEF Holders, Objects
<1>1. PICK o \in Objects, point \in {"held", "idle"} :
        /\ pc[t] = "held" /\ Release(t, o, point)
        /\ \/ /\ o \in Types /\ point = "held" /\ t \in Threads
              /\ o \in handles[t]
           \/ /\ o = Func /\ point = "idle" /\ TypeHandles(t) = {}
              /\ t = Owner => \A u \in Threads : ~(pc[u] = "inc" /\ reg[u] = Func)
  BY DEF ReleaseType, ReleaseFunc, TypeHandles
<1>2. /\ handles' = [handles EXCEPT ![t] = @ \ {o}]
      /\ reg' = [reg EXCEPT ![t] = o] /\ pc' = [pc EXCEPT ![t] = "dec"]
      /\ after' = [after EXCEPT ![t] = point]
      /\ UNCHANGED <<refcount, made, freed, field>>
  BY <1>1 DEF Release, Load, GoTo
<1>3. TypeOK /\ OwnerAt /\ PointersLive /\ Dying /\ (t \in Threads => ThreadAt(t))
  BY DEF Inductive
<1>4. /\ pc'[t] = "dec" /\ reg'[t] = o /\ after'[t] = point
      /\ handles'[t] = handles[t] \ {o}
      /\ \A u \in Holders \ {t} : /\ pc'[u] = pc[u] /\ handles'[u] = handles[u]
                                  /\ reg'[u] = reg[u] /\ after'[u] = after[u]
  BY <1>2, <1>3 DEF TypeOK
<1>5. /\ o \in handles[t] /\ o \in Live
      /\ IF o = Func THEN handles'[t] = {} ELSE handles'[t] = {Func} /\ t \in Compilers
      /\ t = Owner => o = Func
  BY <1>1, <1>3, <1>4 DEF TypeHandles, ThreadAt, OwnerAt, PointersLive
<1>6. TypeOK'
  BY <1>2, <1>3, <1>4 DEF TypeOK, Points
<1>7. OwnerAt'
  BY <1>1, <1>3, <1>4, <1>5 DEF OwnerAt
<1>8. \A u \in Threads : ThreadAt(u)'
  <2>1. t \in Threads => ThreadAt(t)'
    BY <1>1, <1>4, <1>5 DEF ThreadAt
  <2>2. ASSUME NEW u \in Threads \ {t} PROVE ThreadAt(u)'
    <3>1. ThreadAt(u)
      BY DEF Inductive
    <3>2. pc[u] = "inc" /\ reg[u] = Func => pc'[Owner] = pc[Owner]
      BY <1>1, <1>4
    <3> QED
      BY <1>2, <1>3, <1>4, <3>1, <3>2 DEF ThreadAt, HoldsNewType, TypeOK
  <2> QED
    BY <2>1, <2>2
<1>9. Replacing' = Replacing
  BY <1>1, <1>4 DEF Replacing
<1>10. PointersLive'
  BY <1>2, <1>3, <1>4, <1>5, <1>9 DEF PointersLive, Live
<1>11. Dying'
  BY <1>1, <1>2, <1>3, <1>4 DEF Dying, Live
<1>12. ExactCounts'
  <2>1. /\ HoldersOf(o)' = HoldersOf(o) \ {t} /\ t \in HoldersOf(o)
        /\ \A x \in Objects \ {o} : HoldersOf(x)' = HoldersOf(x)
    BY <1>4, <1>5 DEF HoldersOf
  <2>2. /\ Leaving(o)' = Leaving(o) \cup {t} /\ t \notin Leaving(o)
        /\ \A x \in Objects \ {o} : Leaving(x)' = Leaving(x)
    BY <1>1, <1>4 DEF Leaving
  <2>3. \A x \in Objects : Assigning(x)' = Assigning(x) /\ Stored(x)' = Stored(x)
    BY <1>1, <1>2, <1>4, <1>9 DEF Assigning, Stored, TypeHandles
  <2>4. Cardinality(HoldersOf(o)') = Cardinality(HoldersOf(o)) - 1
    <3>1. IsFiniteSet(HoldersOf(o))
      BY FiniteReferences
    <3> QED
      BY <2>1, <3>1, FS_RemoveElement
  <2>5. Cardinality(Leaving(o)') = Cardinality(Leaving(o)) + 1
    <3>1. IsFiniteSet(Leaving(o))
      BY FiniteReferences
    <3> QED
      BY <2>2, <3>1, FS_AddElement
  <2>6. CountOf(o)
    BY <1>5 DEF Inductive, ExactCounts, CountOf, Live
  <2>7. CountOf(o)'
    BY <1>2, <2>3, <2>4, <2>5, <2>6, FiniteReferences DEF CountOf, Stored
  <2> QED
    BY <1>2, <1>3, <2>1, <2>2, <2>3, <2>7, CountMoves DEF Live, TypeOK
<1>13. FieldInOrder'
  <2>1. Reading' \subseteq Reading
    BY <1>4 DEF Reading
  <2> QED
    BY <1>9, <2>1 DEF Inductive, FieldInOrder
<1> QED
  BY <1>6, <1>7, <1>8, <1>10, <1>11, <1>12, <1>13 DEF Inductive

\* DecRef: the reference is gone; whoever takes the count to 0 is the only one
\* to delete.
LEMMA DecInductive ==
    ASSUME Inductive, NEW t \in Holders, DecRef(t)
    PROVE  Inductive'
<1> USE ObjectAssumption DEF Holders, Objects
<1>0. PICK o : o = reg[t]
  OBVIOUS
<1>1. /\ pc[t] = "dec"
      /\ refcount' = [refcount EXCEPT ![o] = @ - 1]
      /\ pc' = [pc EXCEPT ![t] = IF refcount[o] = 1 THEN "delete" ELSE after[t]]
      /\ UNCHANGED <<made, freed, field, handles, after, reg>>
  BY <1>0 DEF DecRef, GoTo
<1>2. TypeOK /\ OwnerAt /\ PointersLive /\ Dying /\ (t \in Threads => ThreadAt(t))
  BY DEF Inductive
<1>3. o \in Live /\ o \in Objects
  BY <1>0, <1>1, <1>2 DEF PointersLive, TypeOK, Live
<1>4. /\ pc'[t] = IF refcount[o] = 1 THEN "delete" ELSE after[t]
      /\ \A u \in Holders \ {t} : pc'[u] = pc[u]
      /\ refcount'[o] = refcount[o] - 1 /\ refcount[o] \in Int
      /\ \A x \in Objects \ {o} : refcount'[x] = refcount[x]
  BY <1>1, <1>2, <1>3 DEF TypeOK
<1>5. t \in Leaving(o)
  BY <1>0, <1>1 DEF Leaving
<1>6. CountOf(o)
  BY <1>3 DEF Inductive, ExactCounts, CountOf, Live
<1>7. refcount[o] >= 1
  <2>1. refcount[o] # 0
    BY <1>3, <1>5, ZeroMeansUnreferenced
  <2>2. refcount[o] >= 0
    BY <1>6, FiniteReferences DEF CountOf, Stored
  <2> QED
    BY <1>4, <2>1, <2>2
<1>8. after[t] \in {"idle", "held", "store"} /\ (t = Owner => after[t] = "idle")
  BY <1>2 DEF TypeOK, OwnerAt
<1>9. TypeOK'
  BY <1>1, <1>2, <1>4, <1>8 DEF TypeOK, Points
<1>10. OwnerAt'
  BY <1>1, <1>2, <1>4, <1>8 DEF OwnerAt
<1>11. \A u \in Threads : ThreadAt(u)'
  <2>1. t \in Threads => ThreadAt(t)'
    BY <1>1, <1>2, <1>4, <1>8 DEF ThreadAt, HoldsNewType
  <2>2. ASSUME NEW u \in Threads \ {t} PROVE ThreadAt(u)'
    <3>1. ThreadAt(u)
      BY DEF Inductive
    <3>2. pc[Owner] = "held" => pc'[Owner] = "held"
      BY <1>1, <1>4
    <3> QED
      BY <1>1, <1>4, <3>1, <3>2 DEF ThreadAt, HoldsNewType
  <2> QED
    BY <2>1, <2>2
<1>12. Replacing' = Replacing
  BY <1>1, <1>4, <1>8 DEF Replacing
<1>13. PointersLive'
  BY <1>0, <1>1, <1>2, <1>3, <1>4, <1>8, <1>12 DEF PointersLive, Live
<1>14. Dying'
  <2>1. \A u \in Holders : pc[u] = "delete" => reg[u] # o /\ reg[u] \in Objects
    BY <1>2, <1>7 DEF Dying, PointersLive, Live, TypeOK
  <2>2. Live' = Live /\ Live \subseteq Objects
    BY <1>1, <1>2 DEF Live, TypeOK
  <2>3. \A u \in Holders : pc'[u] = "delete" <=>
             pc[u] = "delete" \/ (u = t /\ refcount[o] = 1)
    BY <1>1, <1>4, <1>8
  <2>4. refcount'[o] = 0 <=> refcount[o] = 1
    BY <1>4
  <2>5. \A u \in Holders : pc'[u] = "delete" => refcount'[reg'[u]] = 0
    BY <1>0, <1>1, <1>2, <1>4, <2>1, <2>3, <2>4 DEF Dying
  <2>6. \A u, v \in Holders :
          pc'[u] = "delete" /\ pc'[v] = "delete" /\ reg'[u] = reg'[v] => u = v
    BY <1>0, <1>1, <1>2, <2>1, <2>3 DEF Dying
  <2>7. \A x \in Live' : refcount'[x] = 0 =>
          \E u \in Holders : pc'[u] = "delete" /\ reg'[u] = x
    BY <1>0, <1>1, <1>2, <1>4, <2>2, <2>3, <2>4 DEF Dying
  <2> QED
    BY <2>5, <2>6, <2>7 DEF Dying
<1>15. ExactCounts'
  <2>1. /\ Leaving(o)' = Leaving(o) \ {t}
        /\ \A x \in Objects \ {o} : Leaving(x)' = Leaving(x)
    BY <1>0, <1>1, <1>4, <1>8 DEF Leaving
  <2>2. \A x \in Objects : /\ HoldersOf(x)' = HoldersOf(x)
                            /\ Assigning(x)' = Assigning(x)
                            /\ Stored(x)' = Stored(x)
    BY <1>1, <1>4, <1>8, <1>12 DEF HoldersOf, Assigning, Stored, TypeHandles
  <2>3. Cardinality(Leaving(o)') = Cardinality(Leaving(o)) - 1
    BY <1>5, <2>1, FiniteReferences, FS_RemoveElement
  <2>4. CountOf(o)'
    BY <1>3, <1>4, <1>6, <2>2, <2>3, FiniteReferences DEF CountOf, Stored
  <2> QED
    BY <1>1, <1>2, <1>4, <2>1, <2>2, <2>4, CountMoves DEF Live, TypeOK
<1>16. FieldInOrder'
  <2>1. Reading' \subseteq Reading
    BY <1>1, <1>4, <1>8 DEF Reading
  <2> QED
    BY <1>12, <2>1 DEF Inductive, FieldInOrder
<1> QED
  BY <1>9, <1>10, <1>11, <1>13, <1>14, <1>15, <1>16 DEF Inductive

\* Delete of a type, or of the function before it was typed: nobody refers to
\* the object any more.
LEMMA DeleteInductive ==
    ASSUME Inductive, NEW t \in Holders, Delete(t),
           reg[t] # Func \/ field = Null
    PROVE  Inductive'
<1> USE ObjectAssumption DEF Holders, Objects
<1>0. PICK o : o = reg[t]
  OBVIOUS
<1>1. /\ pc[t] = "delete" /\ freed' = freed \cup {o}
      /\ pc' = [pc EXCEPT ![t] = after[t]]
      /\ UNCHANGED <<refcount, made, field, handles, after, reg>>
  BY <1>0 DEF Delete, GoTo
<1>2. TypeOK /\ OwnerAt /\ PointersLive /\ Dying /\ (t \in Threads => ThreadAt(t))
  BY DEF Inductive
<1>3. /\ pc'[t] = after[t] /\ after[t] \in {"idle", "held", "store"}
      /\ \A u \in Holders \ {t} : pc'[u] = pc[u]
      /\ (t = Owner => after[t] = "idle")
  BY <1>1, <1>2 DEF TypeOK, OwnerAt
<1>4. o \in Live /\ refcount[o] = 0
  BY <1>0, <1>1, <1>2 DEF PointersLive, Dying
<1>5. /\ HoldersOf(o) = {} /\ Assigning(o) = {} /\ Leaving(o) = {}
      /\ field = o => Replacing # {}
  BY <1>4, ZeroMeansUnreferenced
<1>6. Live' = Live \ {o} /\ Live \subseteq Objects
  BY <1>1, <1>2 DEF Live, TypeOK
<1>7. TypeOK'
  BY <1>1, <1>2, <1>3, <1>4 DEF TypeOK, Points, Live
<1>8. OwnerAt'
  BY <1>1, <1>2, <1>3 DEF OwnerAt
<1>9. \A u \in Threads : ThreadAt(u)'
  <2>1. t \in Threads => ThreadAt(t)'
    BY <1>1, <1>2, <1>3 DEF ThreadAt, HoldsNewType
  <2>2. ASSUME NEW u \in Threads \ {t} PROVE ThreadAt(u)'
    <3>1. ThreadAt(u)
      BY DEF Inductive
    <3>2. pc[Owner] = "held" => pc'[Owner] = "held"
      BY <1>1, <1>3
    <3> QED
      BY <1>1, <1>3, <3>1, <3>2 DEF ThreadAt, HoldsNewType
  <2> QED
    BY <2>1, <2>2
<1>10. Replacing' = Replacing
  BY <1>1, <1>3 DEF Replacing
<1>11. PointersLive'
  <2>1. \A u \in Holders : handles'[u] \subseteq Live'
    BY <1>1, <1>2, <1>5, <1>6 DEF PointersLive, HoldersOf
  <2>2. ASSUME NEW u \in Holders, pc'[u] \in {"inc", "dec", "delete"}
        PROVE  reg'[u] \in Live'
    <3>1. u # t /\ pc'[u] = pc[u] /\ reg'[u] = reg[u]
      BY <1>1, <1>3, <2>2
    <3>2. reg[u] \in Live
      BY <1>2, <2>2, <3>1 DEF PointersLive
    <3>3. CASE pc[u] = "inc"
      <4>1. u \in Threads /\ ThreadAt(u)
        BY <1>2, <3>3 DEF OwnerAt, Inductive
      <4>2. reg[u] \in Types => Replacing = {}
        BY <3>3, <4>1 DEF Inductive, FieldInOrder, Reading
      <4>3. reg[u] # o
        BY <1>2, <1>5, <3>3, <4>1, <4>2 DEF ThreadAt, OwnerAt, HoldersOf, TypeOK
      <4> QED
        BY <1>6, <3>1, <3>2, <4>3
    <3>4. CASE pc[u] = "dec"
      BY <1>5, <1>6, <3>1, <3>2, <3>4 DEF Leaving
    <3>5. CASE pc[u] = "delete"
      BY <1>0, <1>1, <1>2, <1>6, <3>1, <3>2, <3>5 DEF Dying
    <3> QED
      BY <2>2, <3>1, <3>3, <3>4, <3>5
  <2>3. field' # Null /\ Replacing' = {} => field' \in Live'
    BY <1>1, <1>2, <1>5, <1>6, <1>10 DEF PointersLive
  <2>4. field' \in made' \cup {Null} /\ (Func \in freed' => field' = Null)
    BY <1>0, <1>1, <1>2 DEF PointersLive
  <2> QED
    BY <2>1, <2>2, <2>3, <2>4 DEF PointersLive
<1>12. Dying'
  <2>1. \A u \in Holders : pc'[u] = "delete" <=> pc[u] = "delete" /\ u # t
    BY <1>1, <1>3
  <2>2. \A x \in Live' : refcount'[x] = 0 =>
          \E u \in Holders : pc'[u] = "delete" /\ reg'[u] = x
    BY <1>0, <1>1, <1>2, <1>6, <2>1 DEF Dying
  <2> QED
    BY <1>1, <1>2, <2>1, <2>2 DEF Dying
<1>13. ExactCounts'
  <2>1. ASSUME NEW x \in Live
        PROVE  /\ HoldersOf(x)' = HoldersOf(x) /\ Assigning(x)' = Assigning(x)
               /\ Leaving(x)' = Leaving(x) /\ Stored(x)' = Stored(x)
    BY <1>1, <1>3, <1>10 DEF HoldersOf, Assigning, Leaving, Stored, TypeHandles
  <2> QED
    BY <1>1, <2>1, CountKept
<1>14. FieldInOrder'
  <2>1. Reading' \subseteq Reading
    BY <1>1, <1>3 DEF Reading
  <2> QED
    BY <1>10, <2>1 DEF Inductive, FieldInOrder
<1> QED
  BY <1>7, <1>8, <1>9, <1>11, <1>12, <1>13, <1>14 DEF Inductive

\* Delete of the function: the reference inside it goes on to DecRef.
LEMMA DeleteFuncInductive ==
    ASSUME Inductive, NEW t \in Holders, Delete(t), reg[t] = Func, field # Null
    PROVE  Inductive'
<1> USE ObjectAssumption DEF Holders, Objects
<1>0. PICK o : o = field
  OBVIOUS
<1>1. /\ pc[t] = "delete" /\ freed' = freed \cup {Func}
      /\ reg' = [reg EXCEPT ![t] = o] /\ pc' = [pc EXCEPT ![t] = "dec"]
      /\ field' = Null
      /\ UNCHANGED <<refcount, made, handles, after>>
  BY <1>0 DEF Delete, GoTo, Load
<1>2. TypeOK /\ OwnerAt /\ PointersLive /\ Dying /\ (t \in Threads => ThreadAt(t))
  BY DEF Inductive
<1>3. /\ pc'[t] = "dec" /\ reg'[t] = o /\ o \in Types
      /\ \A u \in Holders \ {t} : pc'[u] = pc[u] /\ reg'[u] = reg[u]
  BY <1>0, <1>1, <1>2 DEF TypeOK
<1>4. Func \in Live /\ refcount[Func] = 0
  BY <1>1, <1>2 DEF PointersLive, Dying
<1>5. HoldersOf(Func) = {} /\ Leaving(Func) = {}
  BY <1>4, ZeroMeansUnreferenced
<1>6. \A u \in Holders : Func \notin handles[u]
  BY <1>5 DEF HoldersOf
<1>7. pc[Owner] # "held"
  BY <1>2, <1>6 DEF OwnerAt
<1>8. \A u \in Threads :
        /\ pc[u] \in {"idle", "dec", "delete"} /\ handles[u] = {}
        /\ pc[u] # "idle" => after[u] = "idle"
  <2> SUFFICES ASSUME NEW u \in Threads
               PROVE  /\ pc[u] \in {"idle", "dec", "delete"} /\ handles[u] = {}
                      /\ pc[u] # "idle" => after[u] = "idle"
    OBVIOUS
  <2>1. ThreadAt(u) /\ pc[u] \in Points /\ Func \notin handles[u]
    BY <1>2, <1>6 DEF Inductive, TypeOK
  <2> QED
    BY <1>7, <2>1 DEF ThreadAt, HoldsNewType, Points
<1>9. Replacing = {} /\ Replacing' = {}
  BY <1>1, <1>3, <1>8 DEF Replacing
<1>10. o \in Live /\ o # Func
  BY <1>0, <1>2, <1>3, <1>9 DEF PointersLive
<1>11. Live' = Live \ {Func} /\ Live \subseteq Objects
  BY <1>1, <1>2 DEF Live, TypeOK
<1>12. TypeOK'
  BY <1>1, <1>2, <1>3, <1>4 DEF TypeOK, Points, Live
<1>13. OwnerAt'
  BY <1>1, <1>2, <1>3, <1>7 DEF OwnerAt
<1>14. \A u \in Threads : ThreadAt(u)'
  BY <1>1, <1>3, <1>8 DEF ThreadAt
<1>15. PointersLive'
  <2>1. \A u \in Holders : handles'[u] \subseteq Live'
    BY <1>1, <1>2, <1>6, <1>11 DEF PointersLive
  <2>2. ASSUME NEW u \in Holders, pc'[u] \in {"inc", "dec", "delete"}
        PROVE  reg'[u] \in Live'
    <3>1. CASE u = t
      BY <1>3, <1>10, <1>11, <3>1
    <3>2. CASE u # t
      <4>1. pc'[u] = pc[u] /\ reg'[u] = reg[u] /\ reg[u] \in Live
        BY <1>2, <1>3, <2>2, <3>2 DEF PointersLive
      <4>2. pc[u] \in {"dec", "delete"}
        BY <1>2, <1>8, <2>2, <4>1 DEF OwnerAt
      <4>3. reg[u] # Func
        BY <1>1, <1>2, <1>5, <3>2, <4>2 DEF Leaving, Dying
      <4> QED
        BY <1>11, <4>1, <4>3
    <3> QED
      BY <3>1, <3>2
  <2> QED
    BY <1>1, <2>1, <2>2 DEF PointersLive
<1>16. Dying'
  <2>1. \A u \in Holders : pc'[u] = "delete" <=> pc[u] = "delete" /\ u # t
    BY <1>1, <1>3
  <2>2. \A u \in Holders : pc'[u] = "delete" => reg'[u] = reg[u]
    BY <1>3, <2>1
  <2>3. \A x \in Live' : refcount'[x] = 0 =>
          \E u \in Holders : pc'[u] = "delete" /\ reg'[u] = x
    BY <1>1, <1>2, <1>3, <1>11, <2>1 DEF Dying
  <2> QED
    BY <1>1, <1>2, <2>1, <2>2, <2>3 DEF Dying
<1>17. ExactCounts'
  <2>1. /\ Leaving(o)' = Leaving(o) \cup {t} /\ t \notin Leaving(o)
        /\ \A x \in Live' \ {o} : Leaving(x)' = Leaving(x)
    BY <1>1, <1>3, <1>11 DEF Leaving
  <2>2. \A x \in Objects : HoldersOf(x)' = HoldersOf(x) /\ Assigning(x)' = Assigning(x)
    BY <1>1, <1>3, <1>8 DEF HoldersOf, Assigning, TypeHandles
  <2>3. /\ Stored(o) = 1 /\ Stored(o)' = 0
        /\ \A x \in Objects \ {o} : Stored(x) = 0 /\ Stored(x)' = 0
    BY <1>0, <1>1, <1>3, <1>9 DEF Stored
  <2>4. Cardinality(Leaving(o)') = Cardinality(Leaving(o)) + 1
    <3>1. IsFiniteSet(Leaving(o))
      BY FiniteReferences
    <3> QED
      BY <2>1, <3>1, FS_AddElement
  <2>5. CountOf(o)
    BY <1>10 DEF Inductive, ExactCounts, CountOf, Live
  <2>6. CountOf(o)'
    BY <1>1, <1>3, <2>2, <2>3, <2>4, <2>5, FiniteReferences DEF CountOf
  <2>7. ASSUME NEW x \in Live' PROVE CountOf(x)'
    <3>1. CASE x = o
      BY <2>6, <3>1
    <3>2. CASE x # o
      <4>1. CountOf(x) /\ x \in Objects
        BY <1>11, <2>7 DEF Inductive, ExactCounts, CountOf, Live
      <4> QED
        BY <1>1, <2>1, <2>2, <2>3, <2>7, <3>2, <4>1 DEF CountOf
    <3> QED
      BY <3>1, <3>2
  <2> QED
    BY <2>7 DEF ExactCounts, CountOf, Live
<1>18. FieldInOrder'
  BY <1>9 DEF FieldInOrder
<1> QED
  BY <1>12, <1>13, <1>14, <1>15, <1>16, <1>17, <1>18 DEF Inductive

\* A fresh type: two references, the pass's result and the parameter of
\* SetCheckedType.
LEMMA InferTypeInductive ==
    ASSUME Inductive, NEW t \in Threads, InferType(t)
    PROVE  Inductive'
<1> USE ObjectAssumption DEF Holders, Objects
<1>1. PICK o \in Types \ made :
        /\ made' = made \cup {o} /\ refcount' = [refcount EXCEPT ![o] = 2]
        /\ handles' = [handles EXCEPT ![t] = @ \cup {o}]
  BY DEF InferType
<1>2. /\ pc[t] = "held" /\ t \in Compilers /\ TypeHandles(t) = {}
      /\ pc' = [pc EXCEPT ![t] = "assign"] /\ UNCHANGED <<freed, field, after, reg>>
  BY DEF InferType, GoTo
<1>3. TypeOK /\ OwnerAt /\ PointersLive /\ Dying /\ ThreadAt(t)
  BY DEF Inductive
<1>4. /\ pc'[t] = "assign" /\ handles'[t] = handles[t] \cup {o}
      /\ \A u \in Holders \ {t} : pc'[u] = pc[u] /\ handles'[u] = handles[u]
      /\ refcount'[o] = 2 /\ \A x \in Objects \ {o} : refcount'[x] = refcount[x]
  BY <1>1, <1>2, <1>3 DEF TypeOK
<1>5. /\ handles[t] = {Func} /\ t # Owner /\ o # Func /\ field # o
      /\ \A u \in Holders : o \notin handles[u]
  BY <1>1, <1>2, <1>3 DEF ThreadAt, TypeHandles, PointersLive, Live
<1>6. \A u \in Holders : pc[u] \in {"inc", "dec", "delete"} => reg[u] # o
  BY <1>1, <1>3 DEF PointersLive, Live
<1>7. /\ Live' = Live \cup {o} /\ o \notin Live /\ Live \subseteq Objects
  BY <1>1, <1>2, <1>3 DEF Live, TypeOK
<1>8. TypeOK'
  BY <1>1, <1>2, <1>3, <1>4 DEF TypeOK, Points
<1>9. OwnerAt'
  BY <1>2, <1>3, <1>4, <1>5 DEF OwnerAt
<1>10. \A u \in Threads : ThreadAt(u)'
  <2>1. ThreadAt(t)'
    BY <1>1, <1>2, <1>4, <1>5 DEF ThreadAt, HoldsNewType
  <2>2. ASSUME NEW u \in Threads \ {t} PROVE ThreadAt(u)'
    <3>1. ThreadAt(u) /\ pc'[Owner] = pc[Owner]
      BY <1>4, <1>5 DEF Inductive
    <3>2. HoldsNewType(u) => HoldsNewType(u)'
      BY <1>2, <1>4, <1>5 DEF HoldsNewType
    <3> QED
      BY <1>2, <1>4, <3>1, <3>2 DEF ThreadAt
  <2> QED
    BY <2>1, <2>2
<1>11. Replacing' = Replacing
  BY <1>2, <1>4 DEF Replacing
<1>12. PointersLive'
  BY <1>1, <1>2, <1>3, <1>4, <1>7, <1>11 DEF PointersLive
<1>13. Dying'
  <2>1. \A u \in Holders : pc'[u] = "delete" <=> pc[u] = "delete"
    BY <1>2, <1>4
  <2>2. \A u \in Holders : pc[u] = "delete" => refcount'[reg[u]] = refcount[reg[u]]
    BY <1>3, <1>4, <1>6, <1>7 DEF PointersLive
  <2>3. \A x \in Live' : refcount'[x] = 0 => x \in Live /\ refcount[x] = 0
    BY <1>4, <1>7
  <2> QED
    BY <1>2, <1>3, <2>1, <2>2, <2>3 DEF Dying
<1>14. ExactCounts'
  <2>1. /\ HoldersOf(o)' = {t}
        /\ \A x \in Objects \ {o} : HoldersOf(x)' = HoldersOf(x)
    BY <1>4, <1>5 DEF HoldersOf
  <2>2. Assigning(o)' = {t}
    BY <1>4, <1>5 DEF Assigning, TypeHandles
  <2>3. ASSUME NEW x \in Objects \ {o} PROVE Assigning(x)' = Assigning(x)
    BY <1>2, <1>4, <1>5 DEF Assigning, TypeHandles
  <2>4. \A x \in Objects : Leaving(x)' = Leaving(x) /\ Stored(x)' = Stored(x)
    BY <1>2, <1>4, <1>11 DEF Leaving, Stored
  <2>5. Leaving(o)' = {} /\ Stored(o)' = 0
    BY <1>2, <1>4, <1>5, <1>6 DEF Leaving, Stored
  <2>6. Cardinality({t}) = 1 /\ Cardinality({}) = 0
    BY FS_Singleton, FS_EmptySet
  <2>7. CountOf(o)'
    BY <1>4, <2>1, <2>2, <2>5, <2>6 DEF CountOf
  <2>8. ASSUME NEW x \in Live' PROVE CountOf(x)'
    <3>1. CASE x = o
      BY <2>7, <3>1
    <3>2. CASE x # o
      <4>1. CountOf(x) /\ x \in Objects
        BY <1>7, <2>8, <3>2 DEF Inductive, ExactCounts, CountOf, Live
      <4> QED
        BY <1>4, <2>1, <2>3, <2>4, <3>2, <4>1 DEF CountOf
    <3> QED
      BY <3>1, <3>2
  <2> QED
    BY <2>8 DEF ExactCounts, CountOf, Live
<1>15. FieldInOrder'
  <2>1. Reading' \subseteq Reading
    BY <1>2, <1>4 DEF Reading
  <2> QED
    BY <1>11, <2>1 DEF Inductive, FieldInOrder
<1> QED
  BY <1>8, <1>9, <1>10, <1>12, <1>13, <1>14, <1>15 DEF Inductive

\* operator= loads the old type: the field's reference is now on its way to
\* DecRef, though the field still shows the pointer.
LEMMA AssignLoadInductive ==
    ASSUME Inductive, NEW t \in Threads, AssignLoad(t), ~overlapped'
    PROVE  Inductive'
<1> USE ObjectAssumption DEF Holders, Objects
<1>0. PICK o : o = field
  OBVIOUS
<1>1. /\ pc[t] = "assign" /\ reg' = [reg EXCEPT ![t] = o]
      /\ pc' = [pc EXCEPT ![t] = IF o = Null THEN "store" ELSE "dec"]
      /\ after' = [after EXCEPT ![t] = "store"]
      /\ UNCHANGED <<refcount, made, freed, field, handles>>
  BY <1>0 DEF AssignLoad, Load, GoTo
<1>2. TypeOK /\ OwnerAt /\ PointersLive /\ Dying /\ ThreadAt(t)
  BY DEF Inductive
<1>3. /\ pc'[t] = IF o = Null THEN "store" ELSE "dec"
      /\ reg'[t] = o /\ after'[t] = "store" /\ t # Owner
      /\ \A u \in Holders \ {t} : /\ pc'[u] = pc[u] /\ reg'[u] = reg[u]
                                  /\ after'[u] = after[u]
  BY <1>1, <1>2 DEF TypeOK
<1>4. HoldsNewType(t) /\ t \in Compilers /\ o \in Types \cup {Null}
  BY <1>0, <1>1, <1>2 DEF ThreadAt, HoldsNewType, TypeOK
<1>5. Replacing = {} /\ Reading = {}
  BY DEF AssignLoad
<1>6. Replacing' = {t}
  <2>1. t \in Replacing'
    BY <1>3 DEF Replacing
  <2>2. ASSUME NEW u \in Threads \ {t} PROVE u \notin Replacing'
    BY <1>3, <1>5 DEF Replacing
  <2> QED
    BY <2>1, <2>2 DEF Replacing
<1>7. o # Null => o \in Live
  BY <1>0, <1>2, <1>5 DEF PointersLive
<1>8. TypeOK'
  BY <1>1, <1>2, <1>3, <1>4 DEF TypeOK, Points
<1>9. OwnerAt'
  BY <1>1, <1>2, <1>3 DEF OwnerAt
<1>10. \A u \in Threads : ThreadAt(u)'
  <2>1. ThreadAt(t)'
    BY <1>0, <1>1, <1>3, <1>4 DEF ThreadAt, HoldsNewType
  <2>2. ASSUME NEW u \in Threads \ {t} PROVE ThreadAt(u)'
    <3>1. ThreadAt(u) /\ pc'[Owner] = pc[Owner]
      BY <1>3 DEF Inductive
    <3> QED
      BY <1>1, <1>3, <3>1 DEF ThreadAt, HoldsNewType
  <2> QED
    BY <2>1, <2>2
<1>11. PointersLive'
  BY <1>1, <1>2, <1>3, <1>6, <1>7 DEF PointersLive, Live
<1>12. Dying'
  BY <1>1, <1>2, <1>3 DEF Dying, Live
<1>13. ExactCounts'
  <2>1. \A x \in Objects : HoldersOf(x)' = HoldersOf(x) /\ Assigning(x)' = Assigning(x)
    BY <1>1, <1>3 DEF HoldersOf, Assigning, TypeHandles
  <2>2. \A x \in Objects \ {o} : /\ Leaving(x)' = Leaving(x)
                                 /\ Stored(x)' = 0 /\ Stored(x) = 0
    BY <1>0, <1>1, <1>3 DEF Leaving, Stored
  <2>3. o \in Live => CountOf(o)'
    <3> SUFFICES ASSUME o \in Live PROVE CountOf(o)'
      OBVIOUS
    <3>1. o \in Objects /\ o # Null
      BY <1>2 DEF Live, TypeOK
    <3>2. Leaving(o)' = Leaving(o) \cup {t} /\ t \notin Leaving(o)
      BY <1>1, <1>3, <3>1 DEF Leaving
    <3>3. Cardinality(Leaving(o)') = Cardinality(Leaving(o)) + 1
      BY <3>2, FiniteReferences, FS_AddElement
    <3>4. Stored(o) = 1 /\ Stored(o)' = 0
      BY <1>0, <1>5, <1>6 DEF Stored
    <3>5. CountOf(o)
      BY DEF Inductive, ExactCounts, CountOf, Live
    <3> QED
      BY <1>1, <2>1, <3>1, <3>3, <3>4, <3>5, FiniteReferences DEF CountOf
  <2> QED
    BY <1>1, <1>2, <2>1, <2>2, <2>3, CountMoves DEF Live, TypeOK
<1>14. FieldInOrder'
  <2>1. Reading' = {}
    BY <1>3, <1>5 DEF Reading
  <2> QED
    BY <1>6, <2>1 DEF FieldInOrder
<1> QED
  BY <1>8, <1>9, <1>10, <1>11, <1>12, <1>13, <1>14 DEF Inductive

\* operator= stores the new type: the parameter's reference is the field's now.
LEMMA AssignStoreInductive ==
    ASSUME Inductive, NEW t \in Threads, AssignStore(t)
    PROVE  Inductive'
<1> USE ObjectAssumption DEF Holders, Objects
<1>1. PICK o \in TypeHandles(t) : field' = o
  BY DEF AssignStore
<1>2. /\ pc[t] = "store" /\ pc' = [pc EXCEPT ![t] = "held"]
      /\ UNCHANGED <<refcount, made, freed, handles, after, reg>>
  BY DEF AssignStore, GoTo
<1>3. TypeOK /\ OwnerAt /\ PointersLive /\ Dying /\ ThreadAt(t)
  BY DEF Inductive
<1>4. /\ pc'[t] = "held" /\ t # Owner
      /\ \A u \in Holders \ {t} : pc'[u] = pc[u]
  BY <1>2, <1>3 DEF TypeOK
<1>5. /\ after[t] = "store" /\ t \in Compilers /\ o \in Types /\ o # field
      /\ handles[t] = {Func, o} /\ \A u \in Holders \ {t} : o \notin handles[u]
  BY <1>1, <1>2, <1>3 DEF ThreadAt, HoldsNewType, TypeHandles
<1>6. /\ o \in Live /\ Func \in Live
  BY <1>3, <1>5 DEF PointersLive
<1>7. Reading = {} /\ \A u \in Threads \ {t} : u \notin Replacing
  <2>1. t \in Replacing
    BY <1>2, <1>5 DEF Replacing
  <2> QED
    BY <2>1 DEF Inductive, FieldInOrder
<1>8. Replacing = {t} /\ Replacing' = {}
  <2>1. t \in Replacing /\ t \notin Replacing'
    BY <1>2, <1>4, <1>5 DEF Replacing
  <2>2. \A u \in Threads \ {t} : u \notin Replacing'
    BY <1>2, <1>4, <1>7 DEF Replacing
  <2> QED
    BY <1>7, <2>1, <2>2 DEF Replacing
<1>9. TypeOK'
  BY <1>1, <1>2, <1>3, <1>4, <1>5 DEF TypeOK, Points
<1>10. OwnerAt'
  BY <1>2, <1>3, <1>4 DEF OwnerAt
<1>11. \A u \in Threads : ThreadAt(u)'
  <2>1. ThreadAt(t)'
    BY <1>2, <1>4, <1>5 DEF ThreadAt
  <2>2. ASSUME NEW u \in Threads \ {t} PROVE ThreadAt(u)'
    <3>1. ThreadAt(u) /\ pc'[Owner] = pc[Owner] /\ pc'[u] = pc[u]
      BY <1>4 DEF Inductive
    <3>2. HoldsNewType(u) => HoldsNewType(u)'
      BY <1>1, <1>2, <1>5 DEF HoldsNewType
    <3>3. pc[u] = "inc" => reg[u] \notin Types
      BY <1>7 DEF Reading
    <3>4. pc[u] \in {"dec", "delete"} => after[u] # "store"
      BY <1>7 DEF Replacing
    <3> QED
      BY <1>2, <1>3, <3>1, <3>2, <3>3, <3>4 DEF ThreadAt, TypeOK
  <2> QED
    BY <2>1, <2>2
<1>12. PointersLive'
  BY <1>1, <1>2, <1>3, <1>4, <1>6 DEF PointersLive, Live
<1>13. Dying'
  BY <1>2, <1>3, <1>4 DEF Dying, Live
<1>14. ExactCounts'
  <2>1. \A x \in Objects : HoldersOf(x)' = HoldersOf(x) /\ Leaving(x)' = Leaving(x)
    BY <1>2, <1>4 DEF HoldersOf, Leaving
  <2>2. ASSUME NEW x \in Objects \ {o}
        PROVE  Assigning(x)' = Assigning(x) /\ Stored(x)' = 0 /\ Stored(x) = 0
    BY <1>1, <1>2, <1>4, <1>5, <1>8 DEF Assigning, Stored, TypeHandles
  <2>3. Assigning(o)' = Assigning(o) \ {t} /\ t \in Assigning(o)
    BY <1>2, <1>4, <1>5 DEF Assigning, TypeHandles
  <2>4. Cardinality(Assigning(o)') = Cardinality(Assigning(o)) - 1
    <3>1. IsFiniteSet(Assigning(o))
      BY FiniteReferences
    <3> QED
      BY <2>3, <3>1, FS_RemoveElement
  <2>5. Stored(o) = 0 /\ Stored(o)' = 1
    BY <1>1, <1>5, <1>8 DEF Stored
  <2>6. CountOf(o)
    BY <1>6 DEF Inductive, ExactCounts, CountOf, Live
  <2>7. CountOf(o)'
    BY <1>2, <1>5, <2>1, <2>4, <2>5, <2>6, FiniteReferences DEF CountOf
  <2> QED
    BY <1>2, <1>3, <2>1, <2>2, <2>7, CountMoves DEF Live, TypeOK
<1>15. FieldInOrder'
  BY <1>8 DEF FieldInOrder
<1> QED
  BY <1>9, <1>10, <1>11, <1>12, <1>13, <1>14, <1>15 DEF Inductive

\* Every instruction of every thread keeps Inductive, unless it is one at which
\* two threads meet in the field.
LEMMA NextInductive ==
    ASSUME Inductive, [Next]_vars, ~overlapped'
    PROVE  Inductive'
<1>1. CASE UNCHANGED vars
  BY <1>1 DEF vars, Inductive, TypeOK, OwnerAt, ThreadAt, HoldsNewType, PointersLive,
     Live, FieldInOrder, Replacing, Reading, Dying, ExactCounts, HoldersOf, Assigning, TypeHandles, Leaving,
     Stored
<1>2. ASSUME NEW t \in Threads, CopyFunc(t) \/ CopyType(t) PROVE Inductive'
  BY <1>2, CopyInductive
<1>3. ASSUME NEW t \in Threads, IncRef(t) PROVE Inductive'
  BY <1>3, IncInductive
<1>4. ASSUME NEW t \in Threads, ReleaseType(t) PROVE Inductive'
  BY <1>4, ReleaseInductive DEF Holders
<1>5. ASSUME NEW t \in Threads, InferType(t) PROVE Inductive'
  BY <1>5, InferTypeInductive
<1>6. ASSUME NEW t \in Threads, AssignLoad(t) PROVE Inductive'
  BY <1>6, AssignLoadInductive
<1>7. ASSUME NEW t \in Threads, AssignStore(t) PROVE Inductive'
  BY <1>7, AssignStoreInductive
<1>8. ASSUME NEW t \in Holders, ReleaseFunc(t) PROVE Inductive'
  BY <1>8, ReleaseInductive
<1>9. ASSUME NEW t \in Holders, DecRef(t) PROVE Inductive'
  BY <1>9, DecInductive
<1>10. ASSUME NEW t \in Holders, Delete(t) PROVE Inductive'
  BY <1>10, DeleteInductive, DeleteFuncInductive
<1> QED
  BY <1>1, <1>2, <1>3, <1>4, <1>5, <1>6, <1>7, <1>8, <1>9, <1>10 DEF Next

\* An overlap is never forgotten.
LEMMA OverlapStays ==
    ASSUME [Next]_vars, ~overlapped'
    PROVE  ~overlapped
BY DEF Next, vars, CopyFunc, CopyType, IncRef, ReleaseType, ReleaseFunc, Release,
   DecRef, Delete, InferType, AssignLoad, AssignStore

\* Inductive holds in every schedule of any number of compilations until two of
\* them meet inside checked_type_.
THEOREM ObjectInvariance == Spec => []InductiveUntilOverlap
<1>1. Init => InductiveUntilOverlap
  BY InitInductive DEF InductiveUntilOverlap
<1>2. InductiveUntilOverlap /\ [Next]_vars => InductiveUntilOverlap'
  BY NextInductive, OverlapStays DEF InductiveUntilOverlap
<1> QED
  BY <1>1, <1>2, PTL DEF Spec

\* IncRef, DecRef and operator= keep _refCount equal to the number of
\* references there are, for any number of threads that copy, release and
\* compile, until two of them meet inside checked_type_.
THEOREM CountExactHolds == Spec => []CountExact
<1>1. InductiveUntilOverlap => CountExact
  BY DEF InductiveUntilOverlap, Inductive, CountExact
<1> QED
  BY <1>1, ObjectInvariance, PTL

\* Whenever a thread counts up, counts down, deletes or holds a deleted object,
\* two threads have met inside checked_type_ before.
THEOREM FreedOnlyByOverlapHolds == Spec => []FreedOnlyByOverlap
<1>1. InductiveUntilOverlap => FreedOnlyByOverlap
  BY DEF InductiveUntilOverlap, Inductive, PointersLive, NoUseAfterFree,
     FreedOnlyByOverlap, Live
<1> QED
  BY <1>1, ObjectInvariance, PTL

\* Once every handle is gone the function and all its types are deleted: DecRef
\* deletes at 0, and Delete of the function releases the field.
THEOREM NoLeakHolds == Spec => []NoLeak
<1>1. InductiveUntilOverlap => NoLeak
  <2> SUFFICES ASSUME Inductive, \A t \in Holders : pc[t] = "idle"
               PROVE  Live = {} /\ freed \subseteq made
    BY DEF InductiveUntilOverlap, NoLeak, Live
  <2>1. TypeOK /\ OwnerAt /\ PointersLive /\ Dying
    BY DEF Inductive
  <2>2. \A t \in Holders : handles[t] = {}
    BY ObjectAssumption DEF Inductive, ThreadAt, OwnerAt, Holders
  <2>3. \A o : HoldersOf(o) = {} /\ Assigning(o) = {} /\ Leaving(o) = {}
    BY <2>2 DEF HoldersOf, Assigning, Leaving, TypeHandles, Holders
  <2>4. \A o \in Live : refcount[o] # 0
    BY <2>1 DEF Dying
  <2>5. \A o \in Live : refcount[o] = Stored(o)
    <3> SUFFICES ASSUME NEW o \in Live PROVE refcount[o] = Stored(o)
      OBVIOUS
    <3>1. CountOf(o)
      BY DEF Inductive, ExactCounts, CountOf, Live
    <3>2. Cardinality({}) = 0
      BY FS_EmptySet
    <3> QED
      BY <2>3, <3>1, <3>2 DEF CountOf, Stored
  <2>6. \A o \in Live : o = field
    BY <2>4, <2>5 DEF Stored
  <2>7. Func \in freed
    BY <2>1, <2>6, ObjectAssumption DEF Live, TypeOK
  <2>8. field = Null
    BY <2>1, <2>7 DEF PointersLive
  <2> QED
    BY <2>1, <2>6, <2>8, ObjectAssumption DEF Live, TypeOK, Objects
<1> QED
  BY <1>1, ObjectInvariance, PTL
=============================================================================
