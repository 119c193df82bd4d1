---------------------------- MODULE SetInduction ----------------------------
(***************************************************************************)
(* Induction over the natural numbers for the proofs about recursively     *)
(* defined data.  The property is given as the SET of the numbers that     *)
(* have it, so that the theorems take no operator as a parameter.  With    *)
(* it, what MapThenSumSet computes, a sum over a finite set, and what      *)
(* FlattenSeq computes, a concatenation of any number of sequences.        *)
(***************************************************************************)
EXTENDS Integers, SequencesExt, FiniteSetTheorems, WellFoundedInduction, TLAPS

\* Every non-empty set of natural numbers has a least element.
LEMMA LeastNatural ==
    ASSUME NEW T, T \subseteq Nat, T # {}
    PROVE  \E x \in T : \A y \in T : x <= y
<1> DEFINE less == {ss \in Nat \X Nat : ss[1] < ss[2]}
<1>1. IsWellFoundedOn(less, Nat)
  BY NatLessThanWellFounded DEF OpToRel
<1> HIDE DEF less
<1>2. PICK x \in T : \A y \in T : ~(<<y, x>> \in less)
  BY <1>1, WFMin
<1>3. \A y \in T : ~(y < x)
  BY <1>2 DEF less
<1> QED
  BY <1>2, <1>3

\* A set with 0 and the successors of its members contains every number.
LEMMA NatSetInduction ==
    ASSUME NEW S, 0 \in S, \A n \in Nat : n \in S => n + 1 \in S
    PROVE  Nat \subseteq S
<1> SUFFICES ASSUME Nat \ S # {} PROVE FALSE
  OBVIOUS
<1>1. PICK x \in Nat \ S : \A y \in Nat \ S : x <= y
  BY LeastNatural
<1>2. x - 1 \in Nat /\ x - 1 \notin Nat \ S
  BY <1>1
<1> QED
  BY <1>1, <1>2

\* G[n] gives the value at n from a function with values in V that has those
\* before n, and looks at no others.
LooksBack(G, N, V) ==
    /\ G \in [1..N -> [[1..N -> V] -> V]]
    /\ \A n \in 1..N : \A f, h \in [1..N -> V] :
          (\A m \in 1 .. n - 1 : f[m] = h[m]) => G[n][f] = G[n][h]

\* A recursive definition over 1..N that looks back exists.
LEMMA RecursionExists ==
    ASSUME NEW N \in Nat, NEW V, NEW d \in V, NEW G, LooksBack(G, N, V)
    PROVE  \E f \in [1..N -> V] : \A n \in 1..N : f[n] = G[n][f]
<1> USE DEF LooksBack
<1> DEFINE Built == {k \in Nat : k <= N =>
                       \E f \in [1..N -> V] : \A n \in 1..k : f[n] = G[n][f]}
<1>1. 0 \in Built
  <2> DEFINE f == [n \in 1..N |-> d]
  <2>1. f \in [1..N -> V] /\ \A n \in 1..0 : f[n] = G[n][f]
    OBVIOUS
  <2> HIDE DEF f
  <2> QED
    BY <2>1
<1>2. ASSUME NEW k \in Nat, k \in Built PROVE k + 1 \in Built
  <2>1. SUFFICES ASSUME k + 1 <= N
        PROVE  \E f \in [1..N -> V] : \A n \in 1 .. k + 1 : f[n] = G[n][f]
    OBVIOUS
  <2>2. PICK f \in [1..N -> V] : \A n \in 1..k : f[n] = G[n][f]
    BY <1>2, <2>1
  <2> DEFINE h == [n \in 1..N |-> IF n = k + 1 THEN G[k + 1][f] ELSE f[n]]
  <2>3. h \in [1..N -> V] /\ \A n \in 1..k : h[n] = f[n]
    BY <2>1
  <2>4. h[k + 1] = G[k + 1][f]
    BY <2>1
  <2> HIDE DEF h
  <2>5. ASSUME NEW n \in 1 .. k + 1 PROVE h[n] = G[n][h]
    <3>1. n \in 1..N /\ \A m \in 1 .. n - 1 : f[m] = h[m]
      BY <2>1, <2>3
    <3>2. G[n][f] = G[n][h]
      BY <2>3, <3>1
    <3>3. h[n] = G[n][f]
      <4>1. CASE n = k + 1
        BY <2>4, <4>1
      <4>2. CASE n # k + 1
        <5>1. n \in 1..k
          BY <4>2
        <5> QED
          BY <2>2, <2>3, <5>1
      <4> QED
        BY <4>1, <4>2
    <3> QED
      BY <3>2, <3>3
  <2> QED
    BY <2>3, <2>5
<1>3. Nat \subseteq Built
  BY <1>1, <1>2, NatSetInduction
<1> HIDE DEF Built
<1>4. N \in Built /\ N <= N
  BY <1>3
<1> QED
  BY <1>4, Zenon DEF Built

\* Strong induction: a set has every number up to N when it has each one whose
\* predecessors it has.
LEMMA UpTo ==
    ASSUME NEW N \in Nat, NEW S,
           \A n \in 1..N : (\A m \in 1 .. n - 1 : m \in S) => n \in S
    PROVE  1..N \subseteq S
<1> DEFINE Good == {k \in Nat : \A n \in 1..k : n <= N => n \in S}
<1>1. 0 \in Good
  OBVIOUS
<1>2. ASSUME NEW k \in Nat, k \in Good PROVE k + 1 \in Good
  <2>1. k + 1 <= N => k + 1 \in S
    BY <1>2
  <2> QED
    BY <1>2, <2>1
<1>3. Nat \subseteq Good
  BY <1>1, <1>2, NatSetInduction
<1> QED
  BY <1>3
-----------------------------------------------------------------------------

\* The element the sum takes next.
Pick(s) == CHOOSE x \in s : TRUE

\* g gives the sum of w over every subset of S.
IsSum(g, w, S) ==
    g = [s \in SUBSET S |-> IF s = {} THEN 0 ELSE w[Pick(s)] + g[s \ {Pick(s)}]]

\* The members of a finite set can be counted down by what Pick takes.
LEMMA PickRemoves ==
    ASSUME NEW S, IsFiniteSet(S), NEW s \in SUBSET S, s # {}
    PROVE  /\ Pick(s) \in s /\ Pick(s) \in S
           /\ s \ {Pick(s)} \in SUBSET S
           /\ IsFiniteSet(s) /\ Cardinality(s) \in Nat /\ Cardinality(s) > 0
           /\ Cardinality(s \ {Pick(s)}) = Cardinality(s) - 1
<1>1. Pick(s) \in s
  BY DEF Pick
<1>2. IsFiniteSet(s)
  BY FS_Subset
<1>3. Cardinality(s) \in Nat /\ Cardinality(s) # 0
  BY <1>2, FS_CardinalityType, FS_EmptySet
<1>4. Cardinality(s \ {Pick(s)}) = Cardinality(s) - 1
  BY <1>1, <1>2, FS_RemoveElement
<1> QED
  BY <1>1, <1>2, <1>3, <1>4

\* The sum over a finite set exists: it is built up by the size of subsets.
LEMMA SumExists ==
    ASSUME NEW S, IsFiniteSet(S), NEW w \in [S -> Int]
    PROVE  \E g : IsSum(g, w, S)
<1> DEFINE Small(n) == {s \in SUBSET S : Cardinality(s) <= n}
           Value(g, s) == IF s = {} THEN 0 ELSE w[Pick(s)] + g[s \ {Pick(s)}]
           Built == {n \in Nat : \E g : g = [s \in Small(n) |-> Value(g, s)]}
<1>1. 0 \in Built
  <2> DEFINE g == [s \in Small(0) |-> 0]
  <2>1. ASSUME NEW s \in Small(0), s # {} PROVE FALSE
    <3>1. Cardinality(s) \in Nat /\ Cardinality(s) > 0
      BY <2>1, PickRemoves
    <3> QED
      BY <3>1
  <2>2. g = [s \in Small(0) |-> Value(g, s)]
    BY <2>1
  <2> QED
    BY <2>2
<1>2. ASSUME NEW n \in Nat, n \in Built PROVE n + 1 \in Built
  <2>1. PICK g : g = [s \in Small(n) |-> Value(g, s)]
    BY <1>2
  <2> DEFINE h == [s \in Small(n + 1) |->
                     IF s \in Small(n) THEN g[s] ELSE Value(g, s)]
  <2>2. ASSUME NEW s \in Small(n + 1), s # {}
        PROVE  s \ {Pick(s)} \in Small(n) /\ s \ {Pick(s)} \in Small(n + 1)
    BY <2>2, PickRemoves
  <2>3. ASSUME NEW s \in Small(n + 1) PROVE h[s] = Value(h, s)
    <3>1. h[s] = Value(g, s)
      BY <2>1, <2>3
    <3>2. s # {} => h[s \ {Pick(s)}] = g[s \ {Pick(s)}]
      BY <2>2, <2>3
    <3> QED
      BY <3>1, <3>2
  <2>4. h = [s \in Small(n + 1) |-> Value(h, s)]
    BY <2>3
  <2> HIDE DEF h
  <2>5. \E k : k = [s \in Small(n + 1) |-> Value(k, s)]
    BY <2>4, Zenon
  <2>6. n + 1 \in Nat
    OBVIOUS
  <2> QED
    BY <2>5, <2>6, Zenon
<1>3. Nat \subseteq Built
  BY <1>1, <1>2, NatSetInduction
<1>4. Cardinality(S) \in Nat /\ Small(Cardinality(S)) = SUBSET S
  BY FS_CardinalityType, FS_Subset
<1>5. PICK g : g = [s \in Small(Cardinality(S)) |-> Value(g, s)]
  BY <1>3, <1>4
<1> QED
  BY <1>4, <1>5 DEF IsSum

\* Sums grow with their terms, and equal sums of ordered terms have equal
\* terms.
LEMMA SumMonotone ==
    ASSUME NEW S, IsFiniteSet(S), NEW u \in [S -> Int], NEW w \in [S -> Int],
           \A p \in S : u[p] <= w[p],
           NEW g, IsSum(g, u, S), NEW h, IsSum(h, w, S)
    PROVE  /\ g[S] \in Int /\ h[S] \in Int /\ g[S] <= h[S]
           /\ g[S] = h[S] => \A p \in S : u[p] = w[p]
<1> DEFINE Ordered(s) == /\ g[s] \in Int /\ h[s] \in Int /\ g[s] <= h[s]
                         /\ g[s] = h[s] => \A p \in s : u[p] = w[p]
           Good == {n \in Nat : \A s \in SUBSET S : Cardinality(s) = n => Ordered(s)}
<1>1. \A s \in SUBSET S :
        /\ g[s] = IF s = {} THEN 0 ELSE u[Pick(s)] + g[s \ {Pick(s)}]
        /\ h[s] = IF s = {} THEN 0 ELSE w[Pick(s)] + h[s \ {Pick(s)}]
  BY DEF IsSum
<1>2. 0 \in Good
  <2>1. ASSUME NEW s \in SUBSET S, Cardinality(s) = 0 PROVE Ordered(s)
    <3>1. s = {}
      BY <2>1, FS_Subset, FS_EmptySet
    <3>2. g[s] = 0 /\ h[s] = 0
      BY <1>1, <3>1
    <3> QED
      BY <3>1, <3>2
  <2> QED
    BY <2>1
<1>3. ASSUME NEW n \in Nat, n \in Good PROVE n + 1 \in Good
  <2>1. ASSUME NEW s \in SUBSET S, Cardinality(s) = n + 1 PROVE Ordered(s)
    <3> DEFINE x == Pick(s)
               r == s \ {x}
    <3>1. s # {}
      BY <2>1, FS_EmptySet
    <3>2. x \in s /\ x \in S /\ r \in SUBSET S /\ Cardinality(r) = n
      BY <2>1, <3>1, PickRemoves
    <3>3. Ordered(r)
      BY <1>3, <3>2
    <3>4. g[s] = u[x] + g[r] /\ h[s] = w[x] + h[r]
      BY <1>1, <3>1
    <3>5. u[x] \in Int /\ w[x] \in Int /\ u[x] <= w[x]
      BY <3>2
    <3>6. \A p \in s : p = x \/ p \in r
      OBVIOUS
    <3> HIDE DEF x, r
    <3>7. g[s] \in Int /\ h[s] \in Int /\ g[s] <= h[s]
      BY <3>3, <3>4, <3>5
    <3>8. g[s] = h[s] => u[x] = w[x] /\ g[r] = h[r]
      <4>1. g[r] \in Int /\ h[r] \in Int /\ g[r] <= h[r]
        BY <3>3
      <4>2. \A a, b, c, d \in Int :
              a <= b /\ c <= d /\ a + c = b + d => a = b /\ c = d
        OBVIOUS
      <4> QED
        BY <3>4, <3>5, <4>1, <4>2
    <3>9. ASSUME g[s] = h[s], NEW p \in s PROVE u[p] = w[p]
      BY <3>3, <3>6, <3>8, <3>9
    <3> QED
      BY <3>7, <3>9
  <2> QED
    BY <2>1
<1>4. Nat \subseteq Good
  BY <1>2, <1>3, NatSetInduction
<1>5. Cardinality(S) \in Nat /\ S \in SUBSET S
  BY FS_CardinalityType
<1> QED
  BY <1>4, <1>5

-----------------------------------------------------------------------------
(* Concatenation *)

\* f[i] is the concatenation of the first i sequences of seqs.
IsFlatten(f, seqs, n) ==
    f = [i \in 1..n |-> IF i = 1 THEN seqs[i] ELSE f[i - 1] \o seqs[i]]

\* It is extended by one sequence at a time.
LEMMA FlattenStep ==
    ASSUME NEW f, NEW seqs, NEW n \in Nat, IsFlatten(f, seqs, n),
           NEW k \in Nat, k + 1 \in 1..n
    PROVE  f[k + 1] = IF k = 0 THEN seqs[k + 1] ELSE f[k] \o seqs[k + 1]
<1> DEFINE Value(i) == IF i = 1 THEN seqs[i] ELSE f[i - 1] \o seqs[i]
<1>0. \A i \in 1..n : f[i] = Value(i)
  <2>1. f = [i \in 1..n |-> Value(i)]
    BY DEF IsFlatten
  <2> HIDE DEF Value
  <2> QED
    BY <2>1
<1>1. f[k + 1] = Value(k + 1)
  BY <1>0, Zenon
<1>2. k + 1 - 1 = k /\ (k + 1 = 1 <=> k = 0)
  OBVIOUS
<1> QED
  BY <1>1, <1>2

\* It exists, by induction over the number of sequences.
LEMMA FlattenExists ==
    ASSUME NEW seqs, NEW n \in Nat
    PROVE  \E f : IsFlatten(f, seqs, n)
<1> DEFINE Built == {k \in Nat : \E f : IsFlatten(f, seqs, k)}
<1>1. 0 \in Built
  <2>1. IsFlatten([i \in 1..0 |-> i], seqs, 0)
    BY DEF IsFlatten
  <2> QED
    BY <2>1
<1>2. ASSUME NEW k \in Nat, k \in Built PROVE k + 1 \in Built
  <2>1. PICK f : IsFlatten(f, seqs, k)
    BY <1>2
  <2> DEFINE h == [i \in 1 .. k + 1 |->
                     IF i = k + 1 THEN IF i = 1 THEN seqs[i] ELSE f[k] \o seqs[i]
                     ELSE f[i]]
  <2>2. ASSUME NEW i \in 1 .. k + 1
        PROVE  h[i] = IF i = 1 THEN seqs[i] ELSE h[i - 1] \o seqs[i]
    <3>1. CASE i = k + 1
      BY <3>1
    <3>2. CASE i # k + 1
      <4>1. i \in 1..k /\ (i # 1 => i - 1 \in 1..k)
        BY <3>2
      <4>2. f[i] = IF i = 1 THEN seqs[i] ELSE f[i - 1] \o seqs[i]
        BY <2>1, <4>1 DEF IsFlatten
      <4> QED
        BY <4>1, <4>2
    <3> QED
      BY <3>1, <3>2
  <2>3. IsFlatten(h, seqs, k + 1)
    BY <2>2 DEF IsFlatten
  <2> HIDE DEF h
  <2>4. k + 1 \in Nat
    OBVIOUS
  <2> QED
    BY <2>3, <2>4, Zenon
<1>3. Nat \subseteq Built
  BY <1>1, <1>2, NatSetInduction
<1> QED
  BY <1>3

\* FlattenSeq is its last value.
LEMMA FlattenSeqIs ==
    ASSUME NEW seqs, Len(seqs) \in Nat \ {0}
    PROVE  \E f : IsFlatten(f, seqs, Len(seqs)) /\ FlattenSeq(seqs) = f[Len(seqs)]
<1> DEFINE n == Len(seqs)
           Flat(f) == f = [i \in 1..n |-> IF i = 1 THEN seqs[i] ELSE f[i - 1] \o seqs[i]]
<1>1. FlattenSeq(seqs) = (CHOOSE f : Flat(f))[n]
  BY Zenon DEF FlattenSeq
<1>2. \E f : Flat(f)
  BY FlattenExists DEF IsFlatten
<1> HIDE DEF Flat, n
<1>3. Flat(CHOOSE f : Flat(f))
  BY <1>2, Zenon
<1> QED
  BY <1>1, <1>3 DEF Flat, n, IsFlatten

\* The concatenation of sequences over S is a sequence over S.
LEMMA FlattenType ==
    ASSUME NEW S, NEW n \in Nat \ {0}, NEW seqs, Len(seqs) = n,
           \A i \in 1..n : seqs[i] \in Seq(S)
    PROVE  FlattenSeq(seqs) \in Seq(S)
<1>1. PICK f : IsFlatten(f, seqs, n) /\ FlattenSeq(seqs) = f[n]
  BY FlattenSeqIs
<1> DEFINE Good == {k \in Nat : k \in 1..n => f[k] \in Seq(S)}
<1>2. 0 \in Good
  OBVIOUS
<1>3. ASSUME NEW k \in Nat, k \in Good PROVE k + 1 \in Good
  <2>1. SUFFICES ASSUME k + 1 \in 1..n PROVE f[k + 1] \in Seq(S)
    OBVIOUS
  <2>2. f[k + 1] = IF k = 0 THEN seqs[k + 1] ELSE f[k] \o seqs[k + 1]
    BY <1>1, <2>1, FlattenStep, ZenonT(30)
  <2>3. k # 0 => f[k] \in Seq(S)
    BY <1>3, <2>1
  <2>4. seqs[k + 1] \in Seq(S)
    BY <2>1
  <2> QED
    BY <2>2, <2>3, <2>4
<1>4. Nat \subseteq Good
  BY <1>2, <1>3, NatSetInduction
<1> QED
  BY <1>1, <1>4
=============================================================================
