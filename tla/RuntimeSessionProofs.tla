------------------------ MODULE RuntimeSessionProofs ------------------------
(***************************************************************************)
(* Proofs about RuntimeSession for any number of clients, any shapes and   *)
(* any hash function: the invariant Inductive is preserved by every step   *)
(* of every client, of the background compiler and of the destructor, and  *)
(* from it follow the deduplication of tasks, the validity of the cache's  *)
(* pointers and what WaitAll and the destructor find when they return.     *)
(***************************************************************************)
EXTENDS RuntimeSession, SequenceTheorems, SetInduction

-----------------------------------------------------------------------------
(* KernelCache::ShapeDistance is a sum over the dimensions: it is defined  *)
(* for every signature, never negative, and grows strictly with every      *)
(* dimension.  Hence the nearest slot is one that no other usable slot     *)
(* lies below.                                                             *)

Signatures == Seq(Seq(Int))

\* A position of a signature names one of its dimensions.
LEMMA PositionsOf ==
    ASSUME NEW q \in Signatures
    PROVE  /\ \A p \in Positions(q) :
                 /\ p[1] \in 1..Len(q) /\ p[2] \in 1..Len(q[p[1]])
                 /\ q[p[1]][p[2]] \in Int
           /\ \A i \in 1..Len(q) : q[i] \in Seq(Int)
           /\ \A i \in 1..Len(q) : \A d \in 1..Len(q[i]) : <<i, d>> \in Positions(q)
<1>1. \A i \in 1..Len(q) : q[i] \in Seq(Int)
  BY DEF Signatures
<1>2. ASSUME NEW p \in Positions(q)
      PROVE  /\ p[1] \in 1..Len(q) /\ p[2] \in 1..Len(q[p[1]])
             /\ q[p[1]][p[2]] \in Int
  <2>1. PICK i \in 1..Len(q) : p \in {<<i, d>> : d \in 1..Len(q[i])}
    BY DEF Positions
  <2>2. p[1] = i /\ p[2] \in 1..Len(q[i])
    BY <2>1
  <2> QED
    BY <1>1, <2>2
<1>3. ASSUME NEW i \in 1..Len(q), NEW d \in 1..Len(q[i])
      PROVE  <<i, d>> \in Positions(q)
  BY DEF Positions
<1> QED
  BY <1>1, <1>2, <1>3

\* A signature has finitely many dimensions.
LEMMA PositionsFinite ==
    ASSUME NEW q \in Signatures
    PROVE  IsFiniteSet(Positions(q))
<1> DEFINE row == [i \in 1..Len(q) |-> {<<i, d>> : d \in 1..Len(q[i])}]
           rows == {{<<i, d>> : d \in 1..Len(q[i])} : i \in 1..Len(q)}
<1>1. Len(q) \in Nat /\ \A i \in 1..Len(q) : Len(q[i]) \in Nat
  BY PositionsOf DEF Signatures
<1>2. row \in Surjection(1..Len(q), rows)
  BY DEF Surjection
<1>3. IsFiniteSet(rows)
  BY <1>1, <1>2, FS_Interval, FS_Surjection
<1>4. ASSUME NEW i \in 1..Len(q)
      PROVE  IsFiniteSet({<<i, d>> : d \in 1..Len(q[i])})
  <2>1. IsFiniteSet({i} \X (1..Len(q[i])))
    <3>1. IsFiniteSet({i})
      BY FS_Singleton
    <3>2. 1 \in Int /\ Len(q[i]) \in Int
      BY <1>1
    <3>3. IsFiniteSet(1..Len(q[i]))
      BY <3>2, FS_Interval
    <3> QED
      BY <3>1, <3>3, FS_Product
  <2>2. {<<i, d>> : d \in 1..Len(q[i])} \in SUBSET ({i} \X (1..Len(q[i])))
    OBVIOUS
  <2> QED
    BY <2>1, <2>2, FS_Subset
<1>5. \A T \in rows : IsFiniteSet(T)
  BY <1>4
<1> QED
  BY <1>3, <1>5, FS_UNION DEF Positions

\* The terms of TotalExcess.
Excess(big, small) ==
    [p \in Positions(small) |-> big[p[1]][p[2]] - small[p[1]][p[2]]]

\* TotalExcess is the sum of its terms.
LEMMA TotalExcessIsSum ==
    ASSUME NEW big, NEW small \in Signatures,
           Excess(big, small) \in [Positions(small) -> Int]
    PROVE  \E g : /\ IsSum(g, Excess(big, small), Positions(small))
                  /\ TotalExcess(big, small) = g[Positions(small)]
<1> DEFINE P == Positions(small)
           w == Excess(big, small)
           Term(s) == big[Pick(s)[1]][Pick(s)[2]] - small[Pick(s)[1]][Pick(s)[2]]
           Sums(h) == h = [s \in SUBSET P |->
                             IF s = {} THEN 0 ELSE Term(s) + h[s \ {Pick(s)}]]
<1>1. TotalExcess(big, small) = (CHOOSE h : Sums(h))[P]
  BY Zenon DEF TotalExcess, MapThenSumSet, MapThenFoldSet, Pick
<1>2. IsFiniteSet(P)
  BY PositionsFinite
<1>3. ASSUME NEW s \in SUBSET P, s # {} PROVE Term(s) = w[Pick(s)]
  BY <1>2, <1>3, PickRemoves DEF Excess
<1>4. ASSUME NEW h PROVE Sums(h) <=> IsSum(h, w, P)
  BY <1>3 DEF IsSum
<1>5. \E h : Sums(h)
  BY <1>2, <1>4, SumExists
<1> HIDE DEF Sums, w, P
<1>6. Sums(CHOOSE h : Sums(h))
  BY <1>5, Zenon
<1> QED
  BY <1>1, <1>4, <1>6 DEF w, P

\* Where one signature covers another, the terms are numbers and none is
\* negative.
LEMMA ExcessOfCovering ==
    ASSUME NEW big \in Signatures, NEW small \in Signatures, Covers(big, small)
    PROVE  /\ Positions(big) = Positions(small)
           /\ \A p \in Positions(small) :
                 /\ big[p[1]][p[2]] \in Int /\ small[p[1]][p[2]] \in Int
                 /\ small[p[1]][p[2]] <= big[p[1]][p[2]]
           /\ Excess(big, small) \in [Positions(small) -> Int]
           /\ \A p \in Positions(small) : Excess(big, small)[p] >= 0
<1>1. Len(big) = Len(small) /\ \A i \in 1..Len(small) : Len(big[i]) = Len(small[i])
  BY DEF Covers, SameRank
<1>2. Positions(big) = Positions(small)
  BY <1>1 DEF Positions
<1>3. \A p \in Positions(small) :
        /\ big[p[1]][p[2]] \in Int /\ small[p[1]][p[2]] \in Int
        /\ small[p[1]][p[2]] <= big[p[1]][p[2]]
  BY <1>2, PositionsOf DEF Covers
<1> QED
  BY <1>2, <1>3 DEF Excess

\* Two signatures with the same dimensions are the same.
LEMMA SameDimensions ==
    ASSUME NEW a \in Signatures, NEW b \in Signatures, SameRank(a, b),
           \A p \in Positions(a) : a[p[1]][p[2]] = b[p[1]][p[2]]
    PROVE  a = b
<1>1. Len(a) = Len(b) /\ \A i \in 1..Len(a) : Len(a[i]) = Len(b[i])
  BY DEF SameRank
<1>2. ASSUME NEW i \in 1..Len(a) PROVE a[i] = b[i]
  <2>1. a[i] \in Seq(Int) /\ b[i] \in Seq(Int) /\ Len(a[i]) = Len(b[i])
    BY <1>1, PositionsOf
  <2>2. ASSUME NEW d \in 1..Len(a[i]) PROVE a[i][d] = b[i][d]
    <3>1. <<i, d>> \in Positions(a)
      BY PositionsOf
    <3>2. \A p \in Positions(a) : p = <<i, d>> => a[i][d] = b[i][d]
      OBVIOUS
    <3> QED
      BY <3>1, <3>2
  <2> QED
    BY <2>1, <2>2, SeqEqual
<1> QED
  BY <1>1, <1>2, SeqEqual DEF Signatures

\* ShapeDistance of a slot that covers the query is not negative; it grows with
\* the slot, strictly.
LEMMA DistanceOrdered ==
    ASSUME NEW q \in Signatures, NEW s \in Signatures, NEW c \in Signatures,
           Covers(s, q), Covers(c, s)
    PROVE  /\ ShapeDistance(q, s) \in Nat
           /\ ShapeDistance(q, c) <= ShapeDistance(q, s) => s = c
<1> DEFINE P == Positions(q)
           u == Excess(s, q)
           w == Excess(c, q)
<1>1. Positions(s) = P /\ u \in [P -> Int] /\ \A p \in P : u[p] >= 0
  BY ExcessOfCovering
<1>2. \A p \in P : /\ q[p[1]][p[2]] \in Int /\ s[p[1]][p[2]] \in Int
                   /\ c[p[1]][p[2]] \in Int
                   /\ q[p[1]][p[2]] <= s[p[1]][p[2]]
                   /\ s[p[1]][p[2]] <= c[p[1]][p[2]]
  BY <1>1, ExcessOfCovering
<1>3. SameRank(q, s) /\ SameRank(s, c) /\ SameRank(q, c)
  BY DEF Covers, SameRank
<1>4. \A p \in P : q[p[1]][p[2]] <= c[p[1]][p[2]]
  BY <1>2
<1>5. w \in [P -> Int] /\ \A p \in P : u[p] <= w[p]
  BY <1>2 DEF Excess
<1>6. IsFiniteSet(P)
  BY PositionsFinite
<1>7. PICK g : IsSum(g, u, P) /\ TotalExcess(s, q) = g[P]
  BY <1>1, TotalExcessIsSum
<1>8. PICK h : IsSum(h, w, P) /\ TotalExcess(c, q) = h[P]
  BY <1>5, TotalExcessIsSum
<1>9. /\ g[P] \in Int /\ h[P] \in Int /\ g[P] <= h[P]
      /\ g[P] = h[P] => \A p \in P : u[p] = w[p]
  <2> HIDE DEF P, u, w
  <2> QED
    BY <1>1, <1>5, <1>6, <1>7, <1>8, SumMonotone
<1>10. g[P] >= 0
  <2> DEFINE zero == [p \in P |-> 0]
             none == [t \in SUBSET P |-> 0]
  <2>1. zero \in [P -> Int] /\ \A p \in P : zero[p] <= u[p]
    BY <1>1
  <2>2. IsSum(none, zero, P)
    <3>1. ASSUME NEW t \in SUBSET P, t # {}
          PROVE  zero[Pick(t)] = 0 /\ none[t \ {Pick(t)}] = 0
      BY <3>1, <1>6, PickRemoves
    <3>2. ASSUME NEW t \in SUBSET P
          PROVE  0 = IF t = {} THEN 0 ELSE zero[Pick(t)] + none[t \ {Pick(t)}]
      BY <3>1
    <3> QED
      BY <3>2, Zenon DEF IsSum
  <2>3. none[P] = 0
    OBVIOUS
  <2> HIDE DEF P, u, zero, none
  <2>4. none[P] <= g[P]
    BY <1>1, <1>6, <1>7, <2>1, <2>2, SumMonotone
  <2> QED
    BY <2>3, <2>4
<1>11. ShapeDistance(q, s) = g[P] /\ ShapeDistance(q, c) = h[P]
  BY <1>2, <1>3, <1>4, <1>7, <1>8 DEF ShapeDistance
<1>12. ASSUME h[P] <= g[P] PROVE s = c
  <2>1. \A p \in P : u[p] = w[p]
    BY <1>9, <1>12
  <2>2. \A p \in P : s[p[1]][p[2]] = c[p[1]][p[2]]
    BY <1>2, <2>1 DEF Excess
  <2> QED
    BY <1>1, <1>3, <2>2, SameDimensions
<1> QED
  BY <1>9, <1>10, <1>11, <1>12

\* GetFuzzy never passes over a slot: if it returns c for the query q, a cached
\* signature that serves q and is itself covered by c is c.
THEOREM GetFuzzyMinimal ==
    ASSUME DOMAIN cache \subseteq Signatures, NEW q \in Signatures,
           NEW c \in GetFuzzy(q), NEW s \in DOMAIN cache,
           Covers(s, q), Covers(c, s)
    PROVE  s = c
<1>1. c \in DOMAIN cache
  BY DEF GetFuzzy, Candidates
<1>2. /\ ShapeDistance(q, s) \in Nat
      /\ ShapeDistance(q, c) <= ShapeDistance(q, s) => s = c
  BY <1>1, DistanceOrdered
<1>3. s \in Candidates(q)
  BY <1>2 DEF Candidates
<1> QED
  BY <1>2, <1>3 DEF GetFuzzy

-----------------------------------------------------------------------------
(* The session *)

Frames == [at : Points, sig : Shapes \cup {DeclaredShape},
           slot : Shapes \cup {DeclaredShape}, observed_count : 0..MaxRuns]

\* What Inductive says of one client's frame, given the shared state.
FrameHolds(f) ==
    /\ f.at # "idle" => f.sig \in Shapes
    /\ f.at \in InRun => freq[f.sig] >= 1
    /\ f.at \in {"should", "claim", "submit"} => f.observed_count \in 1..freq[f.sig]
    /\ f.at \in {"claim", "submit"} => freq[f.sig] >= CountThreshold
    /\ f.at \in RunPoints => f.slot \in DOMAIN cache /\ Covers(f.slot, f.sig)
    /\ f.at = "reget" => f.sig \in DOMAIN cache

\* The conjuncts of Inductive that speak of the clients' frames.
LEMMA FrameParts ==
    ASSUME TypeOK
    PROVE  CountsCurrent /\ KernelPointerValid /\ SlotCoversInput
           <=> /\ \A s \in Shapes : freq[s] <= total_count
               /\ \A c \in Clients : FrameHolds(frame[c])
  BY DEF CountsCurrent, KernelPointerValid, SlotCoversInput, Running, FrameHolds

\* The same of the next state.
LEMMA FramePartsNext ==
    ASSUME TypeOK', \A s \in Shapes : freq'[s] <= total_count',
           \A c \in Clients : FrameHolds(frame[c])'
    PROVE  CountsCurrent' /\ KernelPointerValid' /\ SlotCoversInput'
  BY DEF CountsCurrent, KernelPointerValid, SlotCoversInput, Running, FrameHolds

\* A signature covers itself: what GetExact returns serves the input.
LEMMA CoversReflexive == ASSUME NEW s \in Shapes PROVE Covers(s, s)
<1>1. s \in Signatures
  BY SessionAssumption DEF Signatures
<1>2. \A p \in Positions(s) : s[p[1]][p[2]] \in Int
  BY <1>1, PositionsOf
<1> QED
  BY <1>2 DEF Covers, SameRank

\* What GetFuzzy may return is in the cache and covers the query: only a slot
\* at a distance of 0 or more is a candidate, and ShapeDistance is -1 unless
\* every dimension is large enough.
LEMMA FuzzyCovers ==
    ASSUME NEW q, NEW s \in GetFuzzy(q)
    PROVE  s \in DOMAIN cache /\ Covers(s, q)
<1>1. s \in DOMAIN cache /\ ShapeDistance(q, s) >= 0
  BY DEF GetFuzzy, Candidates
<1>2. /\ SameRank(q, s)
      /\ \A p \in Positions(q) : s[p[1]][p[2]] >= q[p[1]][p[2]]
  BY <1>1 DEF ShapeDistance
<1> QED
  BY <1>1, <1>2 DEF Covers

\* Inductive holds when the session has been constructed.
LEMMA InitInductive == Init => Inductive
<1> SUFFICES ASSUME Init PROVE Inductive
  OBVIOUS
<1> USE DEF Init, Bg!Init, PredictorInit, Idle
<1>1. TypeOK
  BY SessionAssumption DEF TypeOK, Points
<1>2. Bg!Known = {} /\ Submitting = {} /\ Running = {}
  BY DEF Bg!Known, Submitting, Running, RunPoints
<1>3. OneTaskPerHash /\ NoClaimLost /\ TaskJustified
  BY <1>2 DEF OneTaskPerHash, NoClaimLost, TaskJustified
<1>4. CountsCurrent
  BY DEF CountsCurrent, InRun
<1>5. KernelPointerValid /\ SlotCoversInput
  BY <1>2 DEF KernelPointerValid, SlotCoversInput
<1>6. QuietWhenDestroyed /\ CallbackTargetAlive
  BY DEF QuietWhenDestroyed, CallbackTargetAlive
<1> QED
  BY <1>1, <1>3, <1>4, <1>5, <1>6 DEF Inductive

\* A step that claims nothing and submits nothing: what is known of tasks and
\* claims stays, as the counts of the predictor never go down.
LEMMA TasksKept ==
    ASSUME Inductive, Bg!Known' = Bg!Known, Submitting' = Submitting,
           submitted_shapes' = submitted_shapes,
           \A c \in Submitting : frame'[c].sig = frame[c].sig,
           \A s \in Shapes : freq'[s] \in Nat /\ freq'[s] >= freq[s]
    PROVE  OneTaskPerHash' /\ NoClaimLost' /\ TaskJustified'
<1>1. OneTaskPerHash'
  BY DEF Inductive, OneTaskPerHash
<1>2. NoClaimLost'
  BY DEF Inductive, NoClaimLost
<1>3. \A t \in Bg!Known : t.shape \in Shapes /\ t.priority \in 1..MaxRuns
  BY DEF Inductive, TypeOK, Bg!Known, CompileTasks
<1>4. TaskJustified'
  BY <1>3, SessionAssumption DEF Inductive, TaskJustified, TypeOK
<1> QED
  BY <1>1, <1>2, <1>4

\* A step inside a call of c that changes its frame and at most ends its run.
OnlyFrame(c) ==
    /\ frame[c].at # "idle"
    /\ frame' = [frame EXCEPT ![c] = frame'[c]]
    /\ overwritten' \subseteq overwritten
    /\ UNCHANGED <<cache, predictorVars, submitted_shapes, life, bgVars>>

\* A client takes a step that neither begins nor ends a submission and touches
\* no more than its own frame: Run's look-ups, compilations, the return of the
\* kernel, WarmUp's test, every return.
LEMMA FrameStep ==
    ASSUME Inductive, NEW c \in Clients, OnlyFrame(c),
           frame[c].at # "submit", frame'[c].at # "submit",
           frame'[c] \in Frames, FrameHolds(frame'[c])
    PROVE  Inductive'
<1> DEFINE f == frame'[c]
<1> USE DEF predictorVars, bgVars, OnlyFrame
<1>1. TypeOK'
  BY DEF Inductive, TypeOK, Frames
<1>2. \A d \in Clients : frame'[d] = IF d = c THEN f ELSE frame[d]
  BY DEF Inductive, TypeOK
<1>3. Bg!Known' = Bg!Known /\ Submitting' = Submitting
  BY <1>2 DEF Bg!Known, Submitting
<1>4. \A d \in Submitting : frame'[d].sig = frame[d].sig
  BY <1>2 DEF Submitting
<1>5. \A s \in Shapes : freq'[s] \in Nat /\ freq'[s] >= freq[s]
  BY SessionAssumption DEF Inductive, TypeOK
<1>6. OneTaskPerHash' /\ NoClaimLost' /\ TaskJustified'
  BY <1>3, <1>4, <1>5, TasksKept
<1>7. \A d \in Clients : FrameHolds(frame[d])
  BY FrameParts DEF Inductive
<1>8. \A d \in Clients : FrameHolds(frame[d])'
  BY <1>2, <1>7 DEF FrameHolds
<1>9. CountsCurrent' /\ KernelPointerValid' /\ SlotCoversInput'
  BY <1>1, <1>8, FramePartsNext DEF Inductive, CountsCurrent
<1>10. QuietWhenDestroyed' /\ CallbackTargetAlive'
  BY DEF Inductive, QuietWhenDestroyed, CallbackTargetAlive
<1> QED
  BY <1>1, <1>6, <1>9, <1>10 DEF Inductive

\* A call that returns leaves no trace in its frame.
LEMMA IdleFrame == Idle \in Frames /\ FrameHolds(Idle)
  BY SessionAssumption DEF Idle, Frames, Points, FrameHolds, InRun, RunPoints

\* Moving on to another point of Run or WarmUp keeps the local variables.
LEMMA FrameMoves ==
    ASSUME Inductive, NEW c \in Clients, NEW point \in Points, GoTo(c, point)
    PROVE  /\ frame'[c] \in Frames
           /\ frame'[c].at = point /\ frame'[c].sig = frame[c].sig
           /\ frame'[c].slot = frame[c].slot
           /\ frame'[c].observed_count = frame[c].observed_count
  BY DEF GoTo, Inductive, TypeOK, Frames

\* A kernel starts from slot s: the slot is the only local variable to change.
LEMMA KernelStarts ==
    ASSUME Inductive, NEW c \in Clients, NEW s \in Shapes,
           NEW point \in RunPoints, RunKernel(c, s, point)
    PROVE  /\ frame'[c] \in Frames
           /\ frame'[c].at = point /\ frame'[c].sig = frame[c].sig
           /\ frame'[c].slot = s
  BY DEF RunKernel, Inductive, TypeOK, Frames, Points

\* The critical sections of Run that change nothing but the caller's frame.
LEMMA LookupInductive ==
    ASSUME Inductive, NEW c \in Clients,
           \/ GetExact(c) \/ LookupFuzzy(c) \/ CompileMiss(c) \/ ReGetExact(c)
           \/ KernelReturns(c) \/ ReadCount(c) \/ AskPredictor(c)
           \/ WarmUpHas(c) \/ WarmUpCompile(c)
    PROVE  Inductive'
<1> DEFINE f == frame[c]
           g == frame'[c]
<1>1. f \in Frames /\ FrameHolds(f) /\ frame \in [Clients -> Frames]
  BY FrameParts DEF Inductive, TypeOK, Frames
<1>2. OnlyFrame(c) /\ f.at # "submit"
  BY <1>1
  DEF OnlyFrame, GoTo, Return, RunKernel, GetExact, LookupFuzzy, CompileMiss, ReGetExact,
      KernelReturns, ReadCount, AskPredictor, WarmUpHas, WarmUpCompile,
      RunPoints
<1> SUFFICES g \in Frames /\ FrameHolds(g) /\ g.at # "submit"
  BY <1>2, FrameStep
<1>3. CASE Return(c)
  BY <1>1, <1>3, IdleFrame DEF Idle, Return
<1>4. CASE GetExact(c)
  <2>1. f.sig \in Shapes /\ f.at = "exact"
    BY <1>1, <1>4 DEF FrameHolds, GetExact
  <2>2. CASE Has(f.sig)
    <3>1. RunKernel(c, f.sig, "run_exact")
      BY <1>4, <2>2 DEF GetExact
    <3>2. /\ g \in Frames
          /\ g.at = "run_exact" /\ g.sig = f.sig /\ g.slot = f.sig
      BY <2>1, <3>1, KernelStarts DEF RunPoints
    <3> QED
      BY <1>1, <2>1, <2>2, <3>2, CoversReflexive
      DEF FrameHolds, Has, RunPoints, InRun, Points
  <2>3. CASE ~Has(f.sig)
    <3>1. GoTo(c, "fuzzy")
      BY <1>4, <2>3 DEF GetExact
    <3> QED
      BY <1>1, <2>1, <3>1, FrameMoves DEF FrameHolds, RunPoints, InRun, Points
  <2> QED
    BY <2>2, <2>3
<1>5. CASE LookupFuzzy(c)
  <2>1. f.sig \in Shapes /\ f.at = "fuzzy"
    BY <1>1, <1>5 DEF FrameHolds, LookupFuzzy
  <2>2. ASSUME NEW s \in GetFuzzy(f.sig), RunKernel(c, s, "run_fuzzy")
        PROVE  g \in Frames /\ FrameHolds(g) /\ g.at # "submit"
    <3>1. s \in DOMAIN cache /\ Covers(s, f.sig) /\ s \in Shapes
      BY FuzzyCovers DEF Inductive, TypeOK
    <3>2. /\ g \in Frames
          /\ g.at = "run_fuzzy" /\ g.sig = f.sig /\ g.slot = s
      BY <2>2, <3>1, KernelStarts DEF RunPoints
    <3> QED
      BY <1>1, <2>1, <3>1, <3>2 DEF FrameHolds, RunPoints, InRun, Points
  <2>3. ASSUME GoTo(c, "compile")
        PROVE  g \in Frames /\ FrameHolds(g) /\ g.at # "submit"
    BY <1>1, <2>1, <2>3, FrameMoves DEF FrameHolds, RunPoints, InRun, Points
  <2> QED
    BY <1>5, <2>2, <2>3 DEF LookupFuzzy
<1>6. CASE CompileMiss(c) /\ GoTo(c, "put")
  BY <1>1, <1>6, FrameMoves
  DEF CompileMiss, FrameHolds, RunPoints, InRun, Points
<1>7. CASE ReGetExact(c)
  <2>1. f.sig \in Shapes /\ f.sig \in DOMAIN cache /\ f.at = "reget"
    BY <1>1, <1>7 DEF FrameHolds, ReGetExact
  <2>2. /\ g \in Frames
        /\ g.at = "run_new" /\ g.sig = f.sig /\ g.slot = f.sig
    BY <1>7, <2>1, KernelStarts DEF ReGetExact, RunPoints
  <2> QED
    BY <1>1, <2>1, <2>2, CoversReflexive
    DEF FrameHolds, RunPoints, InRun, Points
<1>8. CASE KernelReturns(c) /\ GoTo(c, "count")
  BY <1>1, <1>8, FrameMoves
  DEF KernelReturns, FrameHolds, RunPoints, InRun, Points
<1>9. CASE ReadCount(c)
  <2>1. /\ f.at = "count" /\ f.sig \in Shapes
        /\ freq[f.sig] >= 1 /\ freq[f.sig] \in 0..MaxRuns
    BY <1>1, <1>9 DEF FrameHolds, ReadCount, InRun, Points, Inductive, TypeOK
  <2>2. /\ g \in Frames
        /\ g.at = "should" /\ g.sig = f.sig /\ g.observed_count = freq[f.sig]
    BY <1>1, <1>9, <2>1 DEF ReadCount, GetCount, Frames, Points
  <2> QED
    BY <1>1, <2>1, <2>2, SessionAssumption
    DEF FrameHolds, RunPoints, InRun, Points
<1>10. CASE AskPredictor(c) /\ ShouldCompile(f.sig)
  <2>1. GoTo(c, "claim") /\ freq[f.sig] >= CountThreshold
    BY <1>10 DEF AskPredictor, ShouldCompile
  <2> QED
    BY <1>1, <1>10, <2>1, FrameMoves
    DEF AskPredictor, FrameHolds, RunPoints, InRun, Points
<1>11. CASE WarmUpHas(c) /\ ~Has(f.sig)
  <2>1. GoTo(c, "warm_compile")
    BY <1>11 DEF WarmUpHas
  <2> QED
    BY <1>1, <1>11, <2>1, FrameMoves
    DEF WarmUpHas, FrameHolds, RunPoints, InRun, Points
<1>12. CASE WarmUpCompile(c) /\ GoTo(c, "warm_put")
  BY <1>1, <1>12, FrameMoves
  DEF WarmUpCompile, FrameHolds, RunPoints, InRun, Points
<1> QED
  BY <1>3, <1>4, <1>5, <1>6, <1>7, <1>8, <1>9, <1>10, <1>11, <1>12
  DEF CompileMiss, KernelReturns, AskPredictor, WarmUpHas, WarmUpCompile

\* ShapePredictor::Record: one count goes up by one, no other changes, and
\* recent_ stays within kMaxRecent.
LEMMA RecordCounts ==
    ASSUME Inductive, NEW sig \in Shapes, Record(sig), total_count < MaxRuns
    PROVE  /\ freq' \in [Shapes -> 0..MaxRuns]
           /\ freq'[sig] = freq[sig] + 1
           /\ \A s \in Shapes : freq'[s] \in Nat /\ freq'[s] >= freq[s]
           /\ total_count' \in 0..MaxRuns
           /\ \A s \in Shapes : freq'[s] <= total_count'
           /\ recent' \in Seq(Shapes) /\ Len(recent') <= MaxRecent
<1> USE SessionAssumption DEF Inductive, TypeOK, CountsCurrent
<1>1. /\ freq \in [Shapes -> 0..MaxRuns] /\ total_count \in 0..MaxRuns
      /\ \A s \in Shapes : freq[s] <= total_count
  OBVIOUS
<1>2. /\ freq' = [freq EXCEPT ![sig] = @ + 1]
      /\ total_count' = total_count + 1
  BY DEF Record
<1>3. /\ freq'[sig] = freq[sig] + 1
      /\ \A s \in Shapes : s # sig => freq'[s] = freq[s]
  BY <1>1, <1>2
<1>4. \A s \in Shapes : freq'[s] \in 0..MaxRuns /\ freq'[s] >= freq[s]
                           /\ freq'[s] <= total_count'
  BY <1>1, <1>2, <1>3
<1>5. freq' \in [Shapes -> 0..MaxRuns]
  BY <1>1, <1>2, <1>4
<1> DEFINE longer == Append(recent, sig)
<1>6. longer \in Seq(Shapes) /\ Len(longer) = Len(recent) + 1
  OBVIOUS
<1>7. recent' = IF Len(longer) > MaxRecent THEN Tail(longer) ELSE longer
  BY DEF Record
<1> HIDE DEF longer
<1>8. longer # <<>> /\ Len(recent) \in Nat /\ Len(recent) <= MaxRecent
  BY <1>6
<1>9. Tail(longer) \in Seq(Shapes) /\ Len(Tail(longer)) = Len(longer) - 1
  BY <1>6, <1>8
<1>10. recent' \in Seq(Shapes) /\ Len(recent') <= MaxRecent
  BY <1>6, <1>7, <1>8, <1>9
<1> QED
  BY <1>2, <1>3, <1>4, <1>5, <1>10

\* Run begins: the shape is recorded before it is looked up.
LEMMA RunCallInductive ==
    ASSUME Inductive, NEW c \in Clients, NEW sig \in Shapes, RunCall(c, sig)
    PROVE  Inductive'
<1> USE DEF bgVars
<1>1. /\ freq' \in [Shapes -> 0..MaxRuns]
      /\ freq'[sig] = freq[sig] + 1
      /\ \A s \in Shapes : freq'[s] \in Nat /\ freq'[s] >= freq[s]
      /\ total_count' \in 0..MaxRuns
      /\ \A s \in Shapes : freq'[s] <= total_count'
      /\ recent' \in Seq(Shapes) /\ Len(recent') <= MaxRecent
  BY RecordCounts DEF RunCall
<1>2. /\ frame[c].at = "idle" /\ life = "alive"
      /\ frame' = [frame EXCEPT ![c].sig = sig, ![c].at = "exact"]
      /\ UNCHANGED <<cache, submitted_shapes, overwritten, life, pending,
                     executing, outcome, waiting>>
  BY DEF RunCall, CallWith
<1>3. frame \in [Clients -> Frames] /\ \A d \in Clients : FrameHolds(frame[d])
  BY FrameParts DEF Inductive, TypeOK, Frames
<1>4. /\ frame' \in [Clients -> Frames]
      /\ frame'[c].at = "exact" /\ frame'[c].sig = sig
      /\ \A d \in Clients \ {c} : frame'[d] = frame[d]
  BY <1>2, <1>3 DEF Frames, Points
<1>5. TypeOK'
  BY <1>1, <1>2, <1>4 DEF Inductive, TypeOK, Frames
<1>6. Bg!Known' = Bg!Known /\ Submitting' = Submitting
  BY <1>2, <1>4 DEF Bg!Known, Submitting
<1>7. \A d \in Submitting : frame'[d].sig = frame[d].sig
  BY <1>2, <1>4 DEF Submitting
<1>8. OneTaskPerHash' /\ NoClaimLost' /\ TaskJustified'
  BY <1>1, <1>2, <1>6, <1>7, TasksKept
<1>9. FrameHolds(frame[c])'
  <2>1. freq[sig] \in Nat
    BY SessionAssumption DEF Inductive, TypeOK
  <2> QED
    BY <1>1, <1>4, <2>1 DEF FrameHolds, RunPoints
<1>10. ASSUME NEW d \in Clients \ {c} PROVE FrameHolds(frame[d])'
  <2>1. frame[d].at # "idle" => frame[d].sig \in Shapes
    BY <1>3 DEF FrameHolds
  <2>2. \A s \in Shapes : freq[s] \in Nat
    BY SessionAssumption DEF Inductive, TypeOK
  <2>3. frame[d].observed_count \in Nat
    BY <1>3, SessionAssumption DEF Frames
  <2> QED
    BY <1>1, <1>2, <1>3, <1>4, <2>1, <2>2, <2>3
    DEF FrameHolds, InRun, CountThreshold
<1>11. CountsCurrent' /\ KernelPointerValid' /\ SlotCoversInput'
  BY <1>1, <1>5, <1>9, <1>10, FramePartsNext
<1>12. QuietWhenDestroyed' /\ CallbackTargetAlive'
  BY <1>2 DEF QuietWhenDestroyed, CallbackTargetAlive
<1> QED
  BY <1>5, <1>8, <1>11, <1>12 DEF Inductive

\* WarmUp begins: nothing is recorded.
LEMMA WarmUpCallInductive ==
    ASSUME Inductive, NEW c \in Clients, NEW sig \in Shapes, WarmUpCall(c, sig)
    PROVE  Inductive'
<1> USE DEF bgVars, predictorVars
<1>1. /\ frame[c].at = "idle" /\ life = "alive"
      /\ frame' = [frame EXCEPT ![c].sig = sig, ![c].at = "warm_has"]
      /\ UNCHANGED <<cache, freq, recent, total_count, submitted_shapes,
                     overwritten, life, pending, executing, outcome, waiting>>
  BY DEF WarmUpCall, CallWith
<1>2. frame \in [Clients -> Frames] /\ \A d \in Clients : FrameHolds(frame[d])
  BY FrameParts DEF Inductive, TypeOK, Frames
<1>3. /\ frame' \in [Clients -> Frames]
      /\ frame'[c].at = "warm_has" /\ frame'[c].sig = sig
      /\ \A d \in Clients \ {c} : frame'[d] = frame[d]
  BY <1>1, <1>2 DEF Frames, Points
<1>4. TypeOK'
  BY <1>1, <1>3 DEF Inductive, TypeOK, Frames
<1>5. Bg!Known' = Bg!Known /\ Submitting' = Submitting
  BY <1>1, <1>3 DEF Bg!Known, Submitting
<1>6. \A d \in Submitting : frame'[d].sig = frame[d].sig
  BY <1>1, <1>3 DEF Submitting
<1>7. \A s \in Shapes : freq'[s] \in Nat /\ freq'[s] >= freq[s]
  BY <1>1, SessionAssumption DEF Inductive, TypeOK
<1>8. OneTaskPerHash' /\ NoClaimLost' /\ TaskJustified'
  BY <1>1, <1>5, <1>6, <1>7, TasksKept
<1>9. \A d \in Clients : FrameHolds(frame[d])'
  BY <1>1, <1>2, <1>3 DEF FrameHolds, InRun, RunPoints
<1>10. CountsCurrent' /\ KernelPointerValid' /\ SlotCoversInput'
  BY <1>1, <1>4, <1>9, FramePartsNext DEF Inductive, CountsCurrent
<1>11. QuietWhenDestroyed' /\ CallbackTargetAlive'
  BY <1>1 DEF QuietWhenDestroyed, CallbackTargetAlive
<1> QED
  BY <1>4, <1>8, <1>10, <1>11 DEF Inductive

\* KernelCache::Put never removes a slot: a pointer handed out stays valid.
LEMMA StoreGrows ==
    ASSUME Inductive, NEW sig \in Shapes, StoreModule(sig)
    PROVE  /\ DOMAIN cache' = DOMAIN cache \cup {sig}
           /\ DOMAIN cache' \subseteq Shapes
           /\ \A s \in DOMAIN cache' : cache'[s] = Compile
           /\ overwritten' \subseteq Clients
  BY DEF Inductive, TypeOK, StoreModule, Put, RunsFrom

\* The two Puts on a client's thread: after the compilation of a miss, and in
\* WarmUp.
LEMMA PutInductive ==
    ASSUME Inductive, NEW c \in Clients, PutMiss(c) \/ WarmUpPut(c)
    PROVE  Inductive'
<1> USE DEF bgVars, predictorVars
<1> DEFINE f == frame[c]
<1>1. frame \in [Clients -> Frames] /\ \A d \in Clients : FrameHolds(frame[d])
  BY FrameParts DEF Inductive, TypeOK, Frames
<1>2. f.at \in {"put", "warm_put"} /\ f.sig \in Shapes /\ StoreModule(f.sig)
  BY <1>1 DEF PutMiss, WarmUpPut, FrameHolds
<1>3. UNCHANGED <<freq, recent, total_count, submitted_shapes, life, pending,
                  executing, outcome, waiting>>
  BY DEF PutMiss, WarmUpPut
<1>4. /\ DOMAIN cache' = DOMAIN cache \cup {f.sig}
      /\ DOMAIN cache' \subseteq Shapes
      /\ \A s \in DOMAIN cache' : cache'[s] = Compile
      /\ overwritten' \subseteq Clients
  BY <1>2, StoreGrows
<1>5. /\ frame' = [frame EXCEPT ![c] = frame'[c]]
      /\ \A d \in Clients \ {c} : frame'[d] = frame[d]
  BY <1>1 DEF PutMiss, WarmUpPut, GoTo, Return
<1>6. /\ frame'[c] \in Frames /\ frame'[c].at # "submit"
      /\ FrameHolds(frame[c])'
  <2>1. CASE PutMiss(c)
    <3>1. GoTo(c, "reget") /\ f.at = "put"
      BY <2>1 DEF PutMiss
    <3>2. /\ frame'[c] \in Frames
          /\ frame'[c].at = "reget" /\ frame'[c].sig = f.sig
      BY <3>1, FrameMoves DEF Points
    <3>3. freq[f.sig] >= 1
      BY <1>1, <3>1 DEF FrameHolds, InRun, Points
    <3> QED
      BY <1>2, <1>3, <1>4, <3>2, <3>3 DEF FrameHolds, RunPoints
  <2>2. CASE WarmUpPut(c)
    <3>1. frame'[c] = Idle
      BY <1>1, <2>2 DEF WarmUpPut, Return
    <3> QED
      BY <3>1, IdleFrame DEF Idle, FrameHolds, InRun, RunPoints
  <2> QED
    BY <2>1, <2>2
<1>7. TypeOK'
  BY <1>1, <1>3, <1>4, <1>5, <1>6 DEF Inductive, TypeOK, Frames
<1>8. Bg!Known' = Bg!Known /\ Submitting' = Submitting
  BY <1>2, <1>3, <1>5, <1>6 DEF Bg!Known, Submitting
<1>9. \A d \in Submitting : frame'[d].sig = frame[d].sig
  BY <1>2, <1>5 DEF Submitting
<1>10. \A s \in Shapes : freq'[s] \in Nat /\ freq'[s] >= freq[s]
  BY <1>3, SessionAssumption DEF Inductive, TypeOK
<1>11. OneTaskPerHash' /\ NoClaimLost' /\ TaskJustified'
  BY <1>3, <1>8, <1>9, <1>10, TasksKept
<1>12. \A d \in Clients \ {c} : FrameHolds(frame[d])'
  BY <1>1, <1>3, <1>4, <1>5 DEF FrameHolds
<1>13. CountsCurrent' /\ KernelPointerValid' /\ SlotCoversInput'
  BY <1>3, <1>6, <1>7, <1>12, FramePartsNext DEF Inductive, CountsCurrent
<1>14. QuietWhenDestroyed' /\ CallbackTargetAlive'
  BY <1>2, <1>3 DEF Inductive, QuietWhenDestroyed, CallbackTargetAlive
<1> QED
  BY <1>7, <1>11, <1>13, <1>14 DEF Inductive

\* Claim: under schedule_mu_ a hash enters submitted_shapes_ with the client
\* that is going to submit it, or the client turns back.
LEMMA ClaimInductive ==
    ASSUME Inductive, NEW c \in Clients, Claim(c)
    PROVE  Inductive'
<1> USE DEF bgVars, predictorVars
<1> DEFINE f == frame[c]
           h == Hash[f.sig]
<1>1. frame \in [Clients -> Frames] /\ \A d \in Clients : FrameHolds(frame[d])
  BY FrameParts DEF Inductive, TypeOK, Frames
<1>2. f.at = "claim" /\ f.sig \in Shapes
  BY <1>1 DEF Claim, FrameHolds
<1>3. UNCHANGED <<cache, freq, recent, total_count, overwritten, life, pending,
                  executing, outcome, waiting>>
  BY DEF Claim
<1>4. CASE h \in submitted_shapes
  <2>1. Return(c) /\ submitted_shapes' = submitted_shapes
    BY <1>4 DEF Claim
  <2>2. OnlyFrame(c) /\ frame'[c] = Idle
    BY <1>1, <1>2, <1>3, <2>1 DEF OnlyFrame, Return
  <2> QED
    BY <1>2, <2>2, IdleFrame, FrameStep DEF Idle
<1>5. CASE h \notin submitted_shapes
  <2>1. GoTo(c, "submit") /\ submitted_shapes' = submitted_shapes \cup {h}
    BY <1>5 DEF Claim
  <2>2. /\ frame'[c] \in Frames
        /\ frame'[c].at = "submit" /\ frame'[c].sig = f.sig
        /\ frame'[c].observed_count = f.observed_count
    BY <2>1, FrameMoves DEF Points
  <2>3. /\ frame' = [frame EXCEPT ![c] = frame'[c]]
        /\ \A d \in Clients \ {c} : frame'[d] = frame[d]
    BY <1>1, <2>1 DEF GoTo
  <2>4. TypeOK'
    BY <1>1, <1>2, <1>3, <2>1, <2>2, <2>3 DEF Inductive, TypeOK, Frames
  <2>5. /\ Bg!Known' = Bg!Known
        /\ Submitting' = Submitting \cup {c} /\ c \notin Submitting
    BY <1>2, <1>3, <2>2, <2>3 DEF Bg!Known, Submitting
  <2>6. \A d \in Submitting : frame'[d] = frame[d]
    BY <2>3, <2>5 DEF Submitting
  <2>7. /\ \A t \in Bg!Known : Hash[t.shape] # h
        /\ \A d \in Submitting : Hash[frame[d].sig] # h
    BY <1>5 DEF Inductive, NoClaimLost
  <2>8. OneTaskPerHash'
    BY <2>2, <2>5, <2>6, <2>7 DEF Inductive, OneTaskPerHash
  <2>9. NoClaimLost'
    BY <2>1, <2>2, <2>5, <2>6 DEF Inductive, NoClaimLost
  <2>10. TaskJustified'
    BY <1>3, <2>5 DEF Inductive, TaskJustified
  <2>11. FrameHolds(frame[c])'
    BY <1>1, <1>2, <1>3, <2>2 DEF FrameHolds, InRun, RunPoints, Points
  <2>12. \A d \in Clients \ {c} : FrameHolds(frame[d])'
    BY <1>1, <1>3, <2>3 DEF FrameHolds
  <2>13. CountsCurrent' /\ KernelPointerValid' /\ SlotCoversInput'
    BY <1>3, <2>4, <2>11, <2>12, FramePartsNext DEF Inductive, CountsCurrent
  <2>14. QuietWhenDestroyed' /\ CallbackTargetAlive'
    BY <1>2, <1>3 DEF Inductive, QuietWhenDestroyed, CallbackTargetAlive
  <2> QED
    BY <2>4, <2>8, <2>9, <2>10, <2>13, <2>14 DEF Inductive
<1> QED
  BY <1>4, <1>5

\* Submit: the claim becomes a task, with the count read before as priority.
LEMMA SubmitInductive ==
    ASSUME Inductive, NEW c \in Clients, SubmitTask(c)
    PROVE  Inductive'
<1> USE DEF predictorVars
<1> DEFINE f == frame[c]
           t == [shape |-> f.sig, priority |-> f.observed_count]
<1>1. frame \in [Clients -> Frames] /\ \A d \in Clients : FrameHolds(frame[d])
  BY FrameParts DEF Inductive, TypeOK, Frames
<1>2. /\ f.at = "submit" /\ f.sig \in Shapes
      /\ f.observed_count \in 1..freq[f.sig] /\ freq[f.sig] >= CountThreshold
  BY <1>1 DEF SubmitTask, FrameHolds
<1>3. t \in CompileTasks
  BY <1>2, SessionAssumption DEF CompileTasks, Inductive, TypeOK
<1>4. /\ frame' = [frame EXCEPT ![c] = Idle] /\ pending' = pending \cup {t}
      /\ UNCHANGED <<cache, freq, recent, total_count, submitted_shapes,
                     overwritten, life, executing, outcome, waiting>>
  BY DEF SubmitTask, Return, Bg!Submit
<1> HIDE DEF t
<1>5. /\ frame' \in [Clients -> Frames] /\ frame'[c] = Idle
      /\ \A d \in Clients \ {c} : frame'[d] = frame[d]
  BY <1>1, <1>4, IdleFrame
<1>6. TypeOK'
  BY <1>3, <1>4, <1>5 DEF Inductive, TypeOK, Frames
<1>7. Bg!Known' = Bg!Known \cup {t}
  BY <1>4 DEF Bg!Known
<1>8. Submitting' = Submitting \ {c} /\ c \in Submitting
  BY <1>2, <1>5 DEF Submitting, Idle
<1>9. \A d \in Submitting' : frame'[d] = frame[d]
  BY <1>5, <1>8 DEF Submitting
<1>10. t.shape = f.sig /\ t.priority = f.observed_count
  BY DEF t
<1>11. OneTaskPerHash'
  BY <1>7, <1>8, <1>9, <1>10 DEF Inductive, OneTaskPerHash
<1>12. NoClaimLost'
  BY <1>4, <1>7, <1>8, <1>9, <1>10 DEF Inductive, NoClaimLost
<1>13. TaskJustified'
  BY <1>2, <1>4, <1>7, <1>10 DEF Inductive, TaskJustified, CountThreshold
<1>14. \A d \in Clients \ {c} : FrameHolds(frame[d])'
  BY <1>1, <1>4, <1>5 DEF FrameHolds
<1>15. FrameHolds(frame[c])'
  BY <1>5 DEF FrameHolds, Idle, InRun, RunPoints
<1>16. CountsCurrent' /\ KernelPointerValid' /\ SlotCoversInput'
  BY <1>4, <1>6, <1>14, <1>15, FramePartsNext DEF Inductive, CountsCurrent
<1>17. life = "alive"
  BY <1>2 DEF Inductive, QuietWhenDestroyed
<1>18. QuietWhenDestroyed' /\ CallbackTargetAlive'
  BY <1>4, <1>17 DEF QuietWhenDestroyed, CallbackTargetAlive
<1> QED
  BY <1>6, <1>11, <1>12, <1>13, <1>16, <1>18 DEF Inductive

\* Steps that leave frames, claims and counts alone: WaitAll, the destructor
\* and the background compiler's threads.  The tasks known stay the same.
LEMMA BackgroundStep ==
    ASSUME Inductive, TypeOK', Bg!Known' = Bg!Known,
           QuietWhenDestroyed', CallbackTargetAlive',
           DOMAIN cache \subseteq DOMAIN cache',
           UNCHANGED <<frame, predictorVars, submitted_shapes>>
    PROVE  Inductive'
<1> USE DEF predictorVars
<1>1. \A d \in Clients : FrameHolds(frame[d])
  BY FrameParts DEF Inductive
<1>2. \A d \in Clients : FrameHolds(frame[d])'
  BY <1>1 DEF FrameHolds
<1>3. CountsCurrent' /\ KernelPointerValid' /\ SlotCoversInput'
  BY <1>2, FramePartsNext DEF Inductive, CountsCurrent
<1>4. Submitting' = Submitting
  BY DEF Submitting
<1>5. \A s \in Shapes : freq'[s] \in Nat /\ freq'[s] >= freq[s]
  BY SessionAssumption DEF Inductive, TypeOK
<1>6. OneTaskPerHash' /\ NoClaimLost' /\ TaskJustified'
  BY <1>4, <1>5, TasksKept
<1> QED
  BY <1>3, <1>6 DEF Inductive

\* WaitAll is called and returns; the destructor begins.
LEMMA WaitInductive ==
    ASSUME Inductive,
           \/ \E c \in Clients : WaitAllCall(c) \/ WaitAllReturn(c)
           \/ Destroy
    PROVE  Inductive'
<1> USE DEF WaitAllCall, WaitAllReturn, Destroy, Bg!WaitCall, Bg!WaitReturn,
            predictorVars
<1>1. TypeOK'
  BY DEF Inductive, TypeOK
<1>2. Bg!Known' = Bg!Known
  BY DEF Bg!Known
<1>3. QuietWhenDestroyed'
  BY SessionAssumption DEF Inductive, QuietWhenDestroyed
<1>4. CallbackTargetAlive'
  BY DEF Inductive, CallbackTargetAlive
<1> QED
  BY <1>1, <1>2, <1>3, <1>4, BackgroundStep

\* The members are destroyed only after WaitAll has found nothing outstanding.
LEMMA DestroyMembersInductive ==
    ASSUME Inductive, DestroyMembers
    PROVE  Inductive'
<1> USE DEF DestroyMembers, Bg!WaitReturn, predictorVars
<1>1. TypeOK'
  BY DEF Inductive, TypeOK
<1>2. Bg!Known' = Bg!Known
  BY DEF Bg!Known
<1>3. QuietWhenDestroyed'
  BY DEF Inductive, QuietWhenDestroyed
<1>4. CallbackTargetAlive'
  BY DEF CallbackTargetAlive
<1> QED
  BY <1>1, <1>2, <1>3, <1>4, BackgroundStep

\* A thread of the background compiler takes a task.
LEMMA StartInductive ==
    ASSUME Inductive, NEW t \in pending, StartTask(t)
    PROVE  Inductive'
<1> USE DEF StartTask, Bg!Start, predictorVars
<1>1. TypeOK'
  BY DEF Inductive, TypeOK
<1>2. Bg!Known' = Bg!Known
  BY DEF Bg!Known
<1>3. QuietWhenDestroyed'
  BY DEF Inductive, QuietWhenDestroyed
<1>4. CallbackTargetAlive'
  BY DEF Inductive, CallbackTargetAlive
<1> QED
  BY <1>1, <1>2, <1>3, <1>4, BackgroundStep

\* A task ends; on_complete fills the cache while the session is alive.
LEMMA FinishInductive ==
    ASSUME Inductive, NEW t \in executing, FinishTask(t)
    PROVE  Inductive'
<1> USE DEF predictorVars
<1>1. t \in CompileTasks /\ t.shape \in Shapes
  BY DEF Inductive, TypeOK, CompileTasks
<1>2. PICK r \in Bg!Outcomes : outcome' = [outcome EXCEPT ![t] = r]
  BY DEF FinishTask, Bg!Finish
<1>3. /\ executing' = executing \ {t}
      /\ UNCHANGED <<pending, waiting, freq, recent, total_count, frame,
                     submitted_shapes, life>>
  BY DEF FinishTask, Bg!Finish
<1>4. /\ DOMAIN cache \subseteq DOMAIN cache' /\ DOMAIN cache' \subseteq Shapes
      /\ \A s \in DOMAIN cache' : cache'[s] = Compile
      /\ overwritten' \subseteq Clients
  <2>1. CASE StoreModule(t.shape)
    BY <1>1, <2>1, StoreGrows
  <2>2. CASE UNCHANGED <<cache, overwritten>>
    BY <2>2 DEF Inductive, TypeOK
  <2> QED
    BY <2>1, <2>2 DEF FinishTask
<1>5. outcome' \in [CompileTasks -> {"none"} \cup Bg!Outcomes]
  BY <1>2 DEF Inductive, TypeOK
<1>6. TypeOK'
  BY <1>3, <1>4, <1>5 DEF Inductive, TypeOK
<1>7. outcome \in [CompileTasks -> {"none"} \cup Bg!Outcomes] /\ r # "none"
  BY <1>2 DEF Inductive, TypeOK, Bg!Outcomes
<1>8. Bg!Known' = Bg!Known
  BY <1>1, <1>2, <1>3, <1>7 DEF Bg!Known
<1>9. QuietWhenDestroyed' /\ CallbackTargetAlive'
  BY <1>3 DEF Inductive, QuietWhenDestroyed, CallbackTargetAlive
<1> QED
  BY <1>3, <1>4, <1>6, <1>8, <1>9, BackgroundStep

\* A stuttering step.
LEMMA StutterInductive == ASSUME Inductive, UNCHANGED vars PROVE Inductive'
<1> USE DEF vars, bgVars, predictorVars
<1>1. TypeOK' /\ QuietWhenDestroyed' /\ CallbackTargetAlive'
  BY DEF Inductive, TypeOK, QuietWhenDestroyed, CallbackTargetAlive
<1>2. Bg!Known' = Bg!Known
  BY DEF Bg!Known
<1> QED
  BY <1>1, <1>2, BackgroundStep

\* Every step of every thread preserves Inductive.
LEMMA NextInductive == Inductive /\ [Next]_vars => Inductive'
<1> SUFFICES ASSUME Inductive, [Next]_vars PROVE Inductive'
  OBVIOUS
<1>1. ASSUME NEW c \in Clients, NEW s \in Shapes, RunCall(c, s) \/ WarmUpCall(c, s)
      PROVE  Inductive'
  BY <1>1, RunCallInductive, WarmUpCallInductive
<1>2. ASSUME NEW c \in Clients, RunStep(c) \/ WarmUpStep(c)
      PROVE  Inductive'
  BY <1>2, LookupInductive, PutInductive, ClaimInductive, SubmitInductive
  DEF RunStep, WarmUpStep
<1>3. ASSUME NEW c \in Clients, WaitAllCall(c) \/ WaitAllReturn(c)
      PROVE  Inductive'
  BY <1>3, WaitInductive
<1>4. ASSUME NEW t \in pending, StartTask(t) PROVE Inductive'
  BY <1>4, StartInductive
<1>5. ASSUME NEW t \in executing, FinishTask(t) PROVE Inductive'
  BY <1>5, FinishInductive
<1>6. CASE Destroy
  BY <1>6, WaitInductive
<1>7. CASE DestroyMembers
  BY <1>7, DestroyMembersInductive
<1>8. CASE Destroyed \/ UNCHANGED vars
  BY <1>8, StutterInductive DEF Destroyed
<1> QED
  BY <1>1, <1>2, <1>3, <1>4, <1>5, <1>6, <1>7, <1>8 DEF Next

\* The invariant holds in every reachable state of a session, whatever the
\* clients, the shapes they use and the hash function.
THEOREM SessionInvariance == Spec => []Inductive
  BY InitInductive, NextInductive, PTL DEF Spec

\* MaybeScheduleOptimization deduplicates: one hash yields one task, however
\* the clients interleave.
THEOREM OneTaskPerHashHolds == Spec => []OneTaskPerHash
<1>1. Inductive => OneTaskPerHash
  BY DEF Inductive
<1> QED
  BY <1>1, SessionInvariance, PTL

\* A claim on a hash is never left without its task: the client that made it
\* is on its way to Submit, or the task exists.
THEOREM NoClaimLostHolds == Spec => []NoClaimLost
<1>1. Inductive => NoClaimLost
  BY DEF Inductive
<1> QED
  BY <1>1, SessionInvariance, PTL

\* A task is only made for a shape seen twice, with a priority that was a
\* count of that shape.
THEOREM TaskJustifiedHolds == Spec => []TaskJustified
<1>1. Inductive => TaskJustified
  BY DEF Inductive
<1> QED
  BY <1>1, SessionInvariance, PTL

\* The slot a kernel runs from is there while it runs, and the unchecked
\* second GetExact of a miss finds one.
THEOREM KernelPointerValidHolds == Spec => []KernelPointerValid
<1>1. Inductive => KernelPointerValid
  BY DEF Inductive
<1> QED
  BY <1>1, SessionInvariance, PTL

\* A run never uses a slot too small for its input.
THEOREM SlotCoversInputHolds == Spec => []SlotCoversInput
<1>1. Inductive => SlotCoversInput
  BY DEF Inductive
<1> QED
  BY <1>1, SessionInvariance, PTL

\* No on_complete is outstanding when the members it writes to are gone.
THEOREM CallbackTargetAliveHolds == Spec => []CallbackTargetAlive
<1>1. Inductive => CallbackTargetAlive
  BY DEF Inductive
<1> QED
  BY <1>1, SessionInvariance, PTL

\* WaitAll returns only when every claim is settled, or another client has not
\* submitted it yet.
THEOREM WaitAllSettlesHolds == Spec => WaitAllSettles
<1> DEFINE Settled(h) ==
      \/ \E t \in CompileTasks : Hash[t.shape] = h /\ outcome[t] # "none"
      \/ \E d \in Submitting : Hash[frame[d].sig] = h
    Settles == \A c \in waiting : c \notin waiting' =>
                  \A h \in submitted_shapes : Settled(h)
<1>1. Inductive /\ [Next]_vars => [Settles]_vars
  <2> SUFFICES ASSUME Inductive, Next, NEW c \in waiting, c \notin waiting',
                      NEW h \in submitted_shapes
               PROVE  Settled(h)
    OBVIOUS
  <2>1. pending = {} /\ executing = {}
    <3>1. \A d \in Clients, s \in Shapes : ~RunCall(d, s) /\ ~WarmUpCall(d, s)
      BY DEF RunCall, WarmUpCall, bgVars
    <3>2. \A d \in Clients : ~RunStep(d) /\ ~WarmUpStep(d)
      BY DEF RunStep, WarmUpStep, GetExact, LookupFuzzy, CompileMiss, PutMiss,
         ReGetExact, KernelReturns, ReadCount, AskPredictor, Claim,
         SubmitTask, Bg!Submit, WarmUpHas, WarmUpCompile, WarmUpPut, bgVars
    <3>3. /\ \A d \in Clients : ~WaitAllCall(d)
          /\ \A t \in pending : ~StartTask(t)
          /\ \A t \in executing : ~FinishTask(t)
          /\ ~Destroy /\ ~Destroyed
      BY DEF WaitAllCall, Bg!WaitCall, StartTask, Bg!Start, FinishTask,
         Bg!Finish, Destroy, Destroyed, vars, bgVars
    <3> QED
      BY <3>1, <3>2, <3>3
      DEF Next, WaitAllReturn, DestroyMembers, Bg!WaitReturn
  <2>2. Bg!Known = {t \in CompileTasks : outcome[t] # "none"}
    BY <2>1 DEF Bg!Known
  <2> QED
    BY <2>2 DEF Inductive, NoClaimLost
<1> QED
  BY <1>1, SessionInvariance, PTL DEF Spec, WaitAllSettles

\* GetFuzzy's result never passes over a cached signature that lies between
\* the input's and the chosen one, whatever signatures the callers use.
THEOREM FuzzyNearestHolds == Spec => FuzzyNearest
<1> DEFINE Nearest ==
      \A c \in Clients : frame[c].at = "fuzzy" /\ frame'[c].at = "run_fuzzy" =>
          \A s \in DOMAIN cache :
             Covers(s, frame[c].sig) /\ Covers(frame'[c].slot, s) => s = frame'[c].slot
<1>1. Inductive /\ [Next]_vars => [Nearest]_vars
  <2> SUFFICES ASSUME Inductive, Next, NEW c \in Clients,
                      frame[c].at = "fuzzy", frame'[c].at = "run_fuzzy",
                      NEW s \in DOMAIN cache,
                      Covers(s, frame[c].sig), Covers(frame'[c].slot, s)
               PROVE  s = frame'[c].slot
    OBVIOUS
  <2>1. frame \in [Clients -> Frames] /\ FrameHolds(frame[c])
    BY FrameParts DEF Inductive, TypeOK, Frames
  <2>2. LookupFuzzy(c)
    <3> USE <2>1
    <3>1. ASSUME NEW d \in Clients, NEW q \in Shapes, RunCall(d, q) \/ WarmUpCall(d, q)
          PROVE  FALSE
      BY <3>1 DEF RunCall, WarmUpCall, CallWith, Frames
    <3>2. ASSUME NEW d \in Clients, RunStep(d) \/ WarmUpStep(d), d # c
          PROVE  FALSE
      BY <3>2
      DEF RunStep, WarmUpStep, GetExact, LookupFuzzy, CompileMiss, PutMiss,
          ReGetExact, KernelReturns, ReadCount, AskPredictor, Claim,
          SubmitTask, WarmUpHas, WarmUpCompile, WarmUpPut, GoTo, Return,
          RunKernel
    <3>3. ASSUME RunStep(c) \/ WarmUpStep(c) PROVE LookupFuzzy(c)
      BY <3>3
      DEF RunStep, WarmUpStep, GetExact, CompileMiss, PutMiss, ReGetExact,
          KernelReturns, ReadCount, AskPredictor, Claim, SubmitTask,
          WarmUpHas, WarmUpCompile, WarmUpPut, RunPoints
    <3>4. /\ \A d \in Clients : ~WaitAllCall(d) /\ ~WaitAllReturn(d)
          /\ \A t \in pending : ~StartTask(t)
          /\ \A t \in executing : ~FinishTask(t)
          /\ ~Destroy /\ ~DestroyMembers /\ ~Destroyed
      BY DEF WaitAllCall, WaitAllReturn, StartTask, FinishTask, Destroy,
         DestroyMembers, Destroyed, vars
    <3> QED
      BY <3>1, <3>2, <3>3, <3>4 DEF Next
  <2>3. ~GoTo(c, "compile")
    BY <2>1 DEF GoTo, Frames
  <2>4. PICK r \in GetFuzzy(frame[c].sig) : RunKernel(c, r, "run_fuzzy")
    BY <2>2, <2>3 DEF LookupFuzzy
  <2>5. frame'[c].slot = r
    BY <2>1, <2>4 DEF RunKernel, Frames
  <2>6. frame[c].sig \in Signatures /\ DOMAIN cache \subseteq Signatures
    BY <2>1, SessionAssumption DEF FrameHolds, Signatures, Inductive, TypeOK
  <2> QED
    BY <2>4, <2>5, <2>6, GetFuzzyMinimal
<1> QED
  BY <1>1, SessionInvariance, PTL DEF Spec, FuzzyNearest
=============================================================================
