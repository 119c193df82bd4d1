------------------------- MODULE DiscoExecutorProofs -------------------------
(***************************************************************************)
(* The lowering of a function to a plan, the plan's way through JSON and   *)
(* its execution, for every well-formed function, any contexts a caller    *)
(* opens scopes for and any depth of scopes: the innermost scope's context *)
(* is the one in force and reaches the TIR passes; the plan is in order,   *)
(* and JSON keeps what it leads to (PlanInv); where the virtual devices    *)
(* are placed and annotations agree (Deployed), copies run between the     *)
(* workers their nodes name, kernels find their inputs (LocalInv) and,     *)
(* without collectives, nodes leave what their expressions denote and      *)
(* nothing throws (RunInv).                                                *)
(***************************************************************************)
EXTENDS DiscoExecutor, CpuCCLProofs

-----------------------------------------------------------------------------
(* Scopes *)

Current == Ambient \cup {NoContext}

ScopeRecords == [ctx : Current, previous : Current, active : BOOLEAN]

ThreadStates == [current : Current, scopes : Seq(ScopeRecords)]

\* Every open scope has kept what was in force when it was opened.
Nested(t) ==
    /\ InForce(t.scopes, Len(t.scopes), t.current)
    /\ \A i \in DOMAIN t.scopes :
          /\ t.scopes[i].active <=> t.scopes[i].ctx # NoContext
          /\ InForce(t.scopes, i - 1, t.scopes[i].previous)

\* Which context is in force depends on the scopes counted only.
LEMMA InForceCongruent ==
    ASSUME NEW s, NEW r, NEW n \in Int, NEW c,
           \A i \in 1..n : s[i] = r[i], InForce(s, n, c)
    PROVE  InForce(r, n, c)
  BY DEF InForce

\* What Append does, element by element.
LEMMA Pushed ==
    ASSUME NEW S, NEW s \in Seq(S), NEW e \in S
    PROVE  /\ Append(s, e) \in Seq(S) /\ Len(Append(s, e)) = Len(s) + 1
           /\ DOMAIN Append(s, e) = 1 .. Len(s) + 1 /\ DOMAIN s = 1 .. Len(s)
           /\ Len(s) \in Nat /\ Append(s, e)[Len(s) + 1] = e
           /\ \A i \in 1 .. Len(s) : Append(s, e)[i] = s[i]
  OBVIOUS

\* What Front and Last do, element by element.
LEMMA Popped ==
    ASSUME NEW S, NEW s \in Seq(S), s # <<>>
    PROVE  /\ Front(s) \in Seq(S) /\ Len(Front(s)) = Len(s) - 1
           /\ DOMAIN Front(s) = 1 .. Len(s) - 1 /\ DOMAIN s = 1 .. Len(s)
           /\ Len(s) \in Nat \ {0} /\ Last(s) = s[Len(s)] /\ Last(s) \in S
           /\ \A i \in 1 .. Len(s) - 1 : Front(s)[i] = s[i]
  BY DEF Front, Last

\* The constructor of Scope.
LEMMA EnterNested ==
    ASSUME NEW t \in ThreadStates, Nested(t), NEW c \in Current
    PROVE  Enter(t, c) \in ThreadStates /\ Nested(Enter(t, c))
<1> DEFINE e == [ctx |-> c, previous |-> t.current, active |-> c # NoContext]
           s == t.scopes
           r == Append(s, e)
           n == Len(s)
           u == Enter(t, c)
<1>1. s \in Seq(ScopeRecords) /\ t.current \in Current /\ e \in ScopeRecords
  BY DEF ThreadStates, ScopeRecords
<1>2. /\ r \in Seq(ScopeRecords) /\ Len(r) = n + 1 /\ DOMAIN r = 1 .. n + 1
      /\ DOMAIN s = 1 .. n /\ n \in Nat /\ r[n + 1] = e
      /\ \A i \in 1..n : r[i] = s[i]
  BY <1>1, Pushed
<1>3. u.scopes = r /\ u.current = IF c = NoContext THEN t.current ELSE c
  BY DEF Enter
<1>4. u \in ThreadStates
  BY <1>1, <1>2 DEF Enter, ThreadStates
<1>5. e.ctx = c /\ e.previous = t.current /\ (e.active <=> c # NoContext)
  OBVIOUS
<1> HIDE DEF e, r, u
<1>6. InForce(r, n, t.current)
  <2>1. InForce(s, n, t.current)
    BY DEF Nested
  <2>2. n \in Int /\ \A i \in 1..n : s[i] = r[i]
    BY <1>2
  <2> HIDE DEF s, n
  <2> QED
    BY <2>1, <2>2, InForceCongruent
<1>7. InForce(r, n + 1, u.current)
  <2>1. n \in Nat /\ r[n + 1].ctx = c
    BY <1>2, <1>5
  <2>2. CASE c = NoContext
    <3>1. u.current = t.current
      BY <1>3, <2>2
    <3> HIDE DEF n
    <3>2. InForce(r, n + 1, t.current)
      BY <1>6, <2>1, <2>2 DEF InForce
    <3> QED
      BY <3>1, <3>2
  <2>3. CASE c # NoContext
    <3>1. u.current = c
      BY <1>3, <2>3
    <3> HIDE DEF n
    <3>2. InForce(r, n + 1, c)
      BY <2>1, <2>3 DEF InForce
    <3> QED
      BY <3>1, <3>2
  <2> QED
    BY <2>2, <2>3
<1>8. ASSUME NEW i \in 1 .. n + 1
      PROVE  (r[i].active <=> r[i].ctx # NoContext) /\ InForce(r, i - 1, r[i].previous)
  <2>1. CASE i = n + 1
    BY <1>2, <1>5, <1>6, <2>1
  <2>2. CASE i # n + 1
    <3>1. i \in 1..n /\ i - 1 \in Int /\ r[i] = s[i]
      BY <1>2, <2>2
    <3>2. (s[i].active <=> s[i].ctx # NoContext) /\ InForce(s, i - 1, s[i].previous)
      BY <1>2, <3>1 DEF Nested
    <3>3. \A j \in 1 .. i - 1 : s[j] = r[j]
      BY <1>2, <3>1
    <3> QED
      BY <3>1, <3>2, <3>3, InForceCongruent
  <2> QED
    BY <2>1, <2>2
<1> QED
  BY <1>2, <1>3, <1>4, <1>7, <1>8 DEF Nested, u

\* The destructor of Scope.
LEMMA LeaveNested ==
    ASSUME NEW t \in ThreadStates, Nested(t), t.scopes # <<>>
    PROVE  Leave(t) \in ThreadStates /\ Nested(Leave(t))
<1> DEFINE s == t.scopes
           r == Front(s)
           n == Len(s)
           u == Leave(t)
<1>1. s \in Seq(ScopeRecords) /\ t.current \in Current
  BY DEF ThreadStates
<1>2. /\ r \in Seq(ScopeRecords) /\ Len(r) = n - 1 /\ DOMAIN r = 1 .. n - 1
      /\ DOMAIN s = 1 .. n /\ n \in Nat \ {0} /\ Last(s) = s[n] /\ s[n] \in ScopeRecords
      /\ \A i \in 1 .. n - 1 : r[i] = s[i]
  BY <1>1, Popped
<1>3. u.scopes = r /\ u.current = IF s[n].active THEN s[n].previous ELSE t.current
  BY <1>2 DEF Leave
<1>4. u \in ThreadStates
  BY <1>1, <1>2 DEF Leave, ThreadStates, ScopeRecords
<1>5. /\ InForce(s, n, t.current)
      /\ \A i \in 1..n : /\ s[i].active <=> s[i].ctx # NoContext
                         /\ InForce(s, i - 1, s[i].previous)
  BY <1>2 DEF Nested
<1> HIDE DEF s, r, u, n
<1>6. InForce(s, n - 1, u.current)
  <2>1. CASE s[n].ctx # NoContext
    BY <1>2, <1>3, <1>5, <2>1
  <2>2. CASE s[n].ctx = NoContext
    <3>1. u.current = t.current
      BY <1>2, <1>3, <1>5, <2>2
    <3>2. InForce(s, n - 1, t.current)
      BY <1>2, <1>5, <2>2 DEF InForce
    <3> QED
      BY <3>1, <3>2
  <2> QED
    BY <2>1, <2>2
<1>7. InForce(r, n - 1, u.current)
  <2>1. n - 1 \in Int /\ \A i \in 1 .. n - 1 : s[i] = r[i]
    BY <1>2
  <2> QED
    BY <1>6, <2>1, InForceCongruent
<1>8. ASSUME NEW i \in 1 .. n - 1
      PROVE  (r[i].active <=> r[i].ctx # NoContext) /\ InForce(r, i - 1, r[i].previous)
  <2>1. i \in 1..n /\ i - 1 \in Int /\ r[i] = s[i] /\ \A j \in 1 .. i - 1 : s[j] = r[j]
    BY <1>2
  <2> QED
    BY <1>5, <2>1, InForceCongruent
<1> QED
  BY <1>2, <1>3, <1>4, <1>7, <1>8 DEF Nested, u

\* A scope that is opened and closed, for any context, leaves the thread as it
\* was.
LEMMA LeaveEnter ==
    ASSUME NEW t \in ThreadStates, NEW c
    PROVE  Leave(Enter(t, c)) = t
<1> DEFINE e == [ctx |-> c, previous |-> t.current, active |-> c # NoContext]
           S == ScopeRecords \cup {e}
           s == t.scopes
           r == Append(s, e)
<1>1. s \in Seq(S) /\ e \in S /\ t = [current |-> t.current, scopes |-> s]
  BY DEF ThreadStates
<1>2. /\ r \in Seq(S) /\ r # <<>> /\ Last(r) = e /\ Front(r) = s
  <2> HIDE DEF S, e
  <2> QED
    BY <1>1 DEF Front, Last
<1>3. Enter(t, c) = [current |-> IF c = NoContext THEN t.current ELSE c, scopes |-> r]
  BY DEF Enter
<1>4. e.active = (c # NoContext) /\ e.previous = t.current
  OBVIOUS
<1> DEFINE u == Enter(t, c)
<1> HIDE DEF e, r, u
<1>5. u.scopes = r /\ u.current = IF c = NoContext THEN t.current ELSE c
  BY <1>3 DEF u
<1>6. Leave(u) = [current |-> t.current, scopes |-> s]
  BY <1>2, <1>4, <1>5 DEF Leave
<1> QED
  BY <1>1, <1>6 DEF u

-----------------------------------------------------------------------------
(* Contexts *)

\* BuildTarget and the device of a virtual device are ids.
LEMMA DeviceTypes ==
    ASSUME NEW vd \in VirtualDevices
    PROVE  /\ vd.dev \in Int /\ TargetOf(vd) \in Int /\ vd # NoVD
  BY ContextAssumption DEF VirtualDevices, TargetOf

\* Distinct keeps every virtual device, and no two that are the same.
LEMMA DistinctIs ==
    ASSUME NEW vds \in Seq(VirtualDevices)
    PROVE  LET d == Distinct(vds)
           IN  /\ d \in Seq(VirtualDevices)
               /\ \A k, l \in DOMAIN d : d[k] = d[l] => k = l
               /\ \A i \in DOMAIN vds : \E k \in DOMAIN d : d[k] = vds[i]
<1> DEFINE n == Len(vds)
           once == [i \in DOMAIN vds |-> IF \E j \in 1 .. i - 1 : vds[j] = vds[i]
                                         THEN <<>> ELSE <<vds[i]>>]
           Good(d, m) == /\ d \in Seq(VirtualDevices)
                         /\ \A k, l \in DOMAIN d : d[k] = d[l] => k = l
                         /\ \A i \in 1..m : \E k \in DOMAIN d : d[k] = vds[i]
                         /\ \A k \in DOMAIN d : \E i \in 1..m : d[k] = vds[i]
<1>1. n \in Nat /\ DOMAIN vds = 1..n /\ \A i \in 1..n : vds[i] \in VirtualDevices
  OBVIOUS
<1>2. /\ Len(once) = n /\ Distinct(vds) = FlattenSeq(once)
      /\ \A i \in 1..n : once[i] = IF \E j \in 1 .. i - 1 : vds[j] = vds[i]
                                    THEN <<>> ELSE <<vds[i]>>
  BY <1>1 DEF Distinct
<1> HIDE DEF once, n
<1>3. ASSUME NEW m \in Nat, m + 1 \in 1..n, NEW d, Good(d, m) PROVE Good(d \o once[m + 1], m + 1)
  <2> DEFINE v == vds[m + 1]
  <2>1. v \in VirtualDevices /\ (m + 1) - 1 = m /\ \A i \in 1 .. m + 1 : i \in 1..m \/ i = m + 1
    BY <1>1, <1>3
  <2>2. CASE \E j \in 1..m : vds[j] = v
    <3>1. once[m + 1] = <<>>
      BY <1>2, <1>3, <2>1, <2>2
    <3>2. d \o once[m + 1] = d
      BY <1>3, <3>1
    <3> HIDE DEF v
    <3>3. \A i \in 1 .. m + 1 : \E k \in DOMAIN d : d[k] = vds[i]
      BY <1>3, <2>1, <2>2 DEF v
    <3>4. \A k \in DOMAIN d : \E i \in 1 .. m + 1 : d[k] = vds[i]
      BY <1>3
    <3> QED
      BY <1>3, <3>2, <3>3, <3>4
  <2>3. CASE ~\E j \in 1..m : vds[j] = v
    <3> DEFINE L == Len(d)
               r == d \o <<v>>
    <3>1. once[m + 1] = <<v>>
      BY <1>2, <1>3, <2>1, <2>3
    <3> HIDE DEF v
    <3>2. /\ r \in Seq(VirtualDevices) /\ L \in Nat /\ DOMAIN d = 1..L /\ DOMAIN r = 1 .. L + 1
          /\ r[L + 1] = v /\ \A k \in 1..L : r[k] = d[k]
          /\ \A k \in 1 .. L + 1 : k \in 1..L \/ k = L + 1
      BY <1>3, <2>1
    <3>0. /\ \A k, l \in 1..L : d[k] = d[l] => k = l
          /\ \A i \in 1..m : \E k \in 1..L : d[k] = vds[i]
          /\ \A k \in 1..L : \E i \in 1..m : d[k] = vds[i]
      BY <1>3, <3>2
    <3>3. \A k \in 1..L : d[k] # v
      BY <2>3, <3>0
    <3> HIDE DEF r, L, Good
    <3>4. ASSUME NEW k \in DOMAIN r, NEW l \in DOMAIN r, r[k] = r[l] PROVE k = l
      <4>1. CASE k \in 1..L /\ l \in 1..L
        BY <3>0, <3>2, <3>4, <4>1
      <4>2. CASE k = L + 1 /\ l \in 1..L
        BY <3>2, <3>3, <3>4, <4>2
      <4>3. CASE k \in 1..L /\ l = L + 1
        BY <3>2, <3>3, <3>4, <4>3
      <4> QED
        BY <3>2, <4>1, <4>2, <4>3
    <3>5. ASSUME NEW i \in 1 .. m + 1 PROVE \E k \in DOMAIN r : r[k] = vds[i]
      <4>1. CASE i = m + 1
        <5>1. L + 1 \in DOMAIN r /\ r[L + 1] = vds[i]
          BY <3>2, <4>1 DEF v
        <5> QED
          BY <5>1
      <4>2. CASE i \in 1..m
        <5>1. PICK k \in 1..L : d[k] = vds[i]
          BY <3>0, <4>2
        <5>2. k \in DOMAIN r /\ r[k] = vds[i]
          BY <3>2, <5>1
        <5> QED
          BY <5>2
      <4> QED
        BY <2>1, <4>1, <4>2
    <3>6. ASSUME NEW k \in DOMAIN r PROVE \E i \in 1 .. m + 1 : r[k] = vds[i]
      <4>1. CASE k = L + 1
        <5>1. m + 1 \in 1 .. m + 1 /\ r[k] = vds[m + 1]
          BY <3>2, <4>1 DEF v
        <5> QED
          BY <5>1
      <4>2. CASE k \in 1..L
        <5>1. PICK i \in 1..m : d[k] = vds[i]
          BY <3>0, <4>2
        <5>2. i \in 1 .. m + 1 /\ r[k] = vds[i]
          BY <3>2, <4>2, <5>1
        <5> QED
          BY <5>2
      <4> QED
        BY <3>2, <4>1, <4>2
    <3> QED
      <4>1. Good(r, m + 1)
        BY <3>2, <3>4, <3>5, <3>6 DEF Good
      <4> QED
        BY <3>1, <4>1 DEF r
  <2> QED
    BY <2>2, <2>3
<1>4. Good(<<>>, 0)
  OBVIOUS
<1>5. \A i \in 1..n : <<>> \o once[i] = once[i]
  BY <1>1, <1>2
<1> HIDE DEF Good
<1>6. Good(FlattenSeq(once), n)
  <2>1. CASE n = 0
    <3>1. FlattenSeq(once) = <<>>
      <4>1. once = <<>>
        BY <1>1, <2>1 DEF once, n
      <4> QED
        BY <1>2, <2>1, <4>1 DEF FlattenSeq
    <3> QED
      BY <1>4, <2>1, <3>1
  <2>2. CASE n # 0
    <3>0. Len(once) \in Nat \ {0} /\ n \in Nat \ {0}
      BY <1>1, <1>2, <2>2
    <3>1. PICK f : IsFlatten(f, once, n) /\ FlattenSeq(once) = f[n]
      BY <1>2, <3>0, FlattenSeqIs
    <3> DEFINE S == {k \in 1..n : Good(f[k], k)}
    <3>2. ASSUME NEW k \in Nat, k + 1 \in 1..n PROVE (k = 0 \/ k \in S) => k + 1 \in S
      <4>1. f[k + 1] = IF k = 0 THEN once[k + 1] ELSE f[k] \o once[k + 1]
        BY <3>0, <3>1, <3>2, FlattenStep
      <4>2. CASE k = 0
        <5>1. Good(<<>> \o once[k + 1], k + 1)
          BY <1>3, <1>4, <3>2, <4>2
        <5> QED
          BY <1>5, <3>2, <4>1, <4>2, <5>1
      <4>3. CASE k # 0
        BY <1>3, <3>2, <4>1, <4>3
      <4> QED
        BY <4>2, <4>3
    <3>3. ASSUME NEW k \in 1..n, \A m \in 1 .. k - 1 : m \in S PROVE k \in S
      <4>1. k - 1 \in Nat /\ (k - 1) + 1 = k /\ (k - 1 = 0 \/ k - 1 \in 1 .. k - 1)
        BY <1>1
      <4> HIDE DEF S
      <4>2. k - 1 = 0 \/ k - 1 \in S
        BY <3>3, <4>1
      <4> QED
        BY <3>2, <4>1, <4>2
    <3> HIDE DEF S
    <3>4. 1..n \subseteq S
      BY <1>1, <3>3, UpTo
    <3> QED
      BY <3>0, <3>1, <3>4 DEF S
  <2> QED
    BY <2>1, <2>2
<1> QED
  BY <1>1, <1>2, <1>6 DEF Good

\* Any sequence of virtual devices gives a placement, also the empty one; it
\* has one worker for each of them.
LEMMA PlacementType ==
    ASSUME NEW vds \in Seq(VirtualDevices), NEW num_groups \in Int
    PROVE  LET p == BuildDiscoPlacement(vds, num_groups)
           IN  /\ p \in Placements /\ OneWorkerEach(p)
               /\ \A i \in DOMAIN vds : \E k \in DOMAIN p.workers : p.workers[k].vd = vds[i]
<1> DEFINE distinct == Distinct(vds)
           placed == [k \in DOMAIN distinct |->
                        WorkerPlacement(k - 1, 0, k - 1, distinct[k].dev,
                                        TargetOf(distinct[k]), distinct[k])]
           p == BuildDiscoPlacement(vds, num_groups)
           W == [worker_id : Int, group_id : Int, local_rank : Int,
                 dev : Int, target : Int, vd : VirtualDevices]
<1>1. p = [workers |-> placed, num_groups |-> IF num_groups > 0 THEN num_groups ELSE 1]
  BY Zenon DEF BuildDiscoPlacement
<1>2. /\ distinct \in Seq(VirtualDevices)
      /\ \A k, l \in DOMAIN distinct : distinct[k] = distinct[l] => k = l
      /\ \A i \in DOMAIN vds : \E k \in DOMAIN distinct : distinct[k] = vds[i]
  BY DistinctIs
<1> HIDE DEF distinct, p
<1>3. Len(distinct) \in Nat /\ DOMAIN distinct = 1 .. Len(distinct)
  BY <1>2
<1>4. ASSUME NEW k \in DOMAIN distinct PROVE placed[k] \in W /\ placed[k].vd = distinct[k]
  <2>1. distinct[k] \in VirtualDevices /\ k \in Int
    BY <1>2, <1>3
  <2>2. distinct[k].dev \in Int /\ TargetOf(distinct[k]) \in Int
    BY <2>1, DeviceTypes
  <2> QED
    BY <2>1, <2>2 DEF WorkerPlacement
<1>5. placed \in Seq(W) /\ DOMAIN placed = DOMAIN distinct
  <2>1. placed \in [1 .. Len(distinct) -> W] /\ DOMAIN placed = DOMAIN distinct
    BY <1>3, <1>4
  <2> HIDE DEF placed, W
  <2> QED
    BY <1>3, <2>1
<1> HIDE DEF placed
<1>6. p.workers = placed
  BY <1>1
<1>7. OneWorkerEach(p)
  BY <1>2, <1>4, <1>5, <1>6 DEF OneWorkerEach
<1>8. \A i \in DOMAIN vds : \E k \in DOMAIN p.workers : p.workers[k].vd = vds[i]
  BY <1>2, <1>4, <1>5, <1>6
<1>9. p \in Placements
  BY <1>1, <1>5 DEF Placements
<1> QED
  BY <1>7, <1>8, <1>9 DEF p

\* A context made from virtual devices is well built.
LEMMA BuildWellBuilt ==
    ASSUME NEW vds \in Seq(VirtualDevices), vds # <<>>
    PROVE  WellBuilt(BuildFromVirtualDevices(vds)) /\ vds[1] \in VirtualDevices
<1>1. vds[1] \in VirtualDevices
  OBVIOUS
<1>2. vds[1].dev \in Int /\ TargetOf(vds[1]) \in Int /\ vds[1] # NoVD
  BY <1>1, DeviceTypes
<1>3. BuildDiscoPlacement(vds, 1) \in Placements /\ OneWorkerEach(BuildDiscoPlacement(vds, 1))
  BY PlacementType
<1>4. BuildDiscoPlacement(vds, 1) # NoPlacement
  BY <1>3, ContextAssumption
<1> QED
  BY <1>1, <1>2, <1>3, <1>4 DEF BuildFromVirtualDevices, WellBuilt, PassContexts

Fields == {"primary", "target", "device", "multi", "placement"}

\* The attributes of a PrimFunc give back the context they were made from: what
\* AttachPassContextAttrs leaves out is what FromTIR infers.
LEMMA AttributesRoundTrip ==
    ASSUME NEW c, c = NoContext \/ WellBuilt(c)
    PROVE  FromTIR(AttachPassContextAttrs(c)) = c
<1>1. CASE c = NoContext
  <2>1. AttachPassContextAttrs(c) = <<>>
    BY <1>1 DEF AttachPassContextAttrs
  <2>2. DOMAIN <<>> = {}
    OBVIOUS
  <2> QED
    BY <1>1, <2>1, <2>2 DEF FromTIR
<1>2. CASE WellBuilt(c)
  <2> DEFINE given == {a \in {"primary", "target", "device", "placement"} :
                          c[a] # CASE a = "primary" -> NoVD
                                   [] a = "placement" -> NoPlacement
                                   [] OTHER -> None}
             attrs1 == [a \in given \cup {"multi"} |-> c[a]]
             base == IF "primary" \in DOMAIN attrs1
                     THEN BuildFromVirtualDevices(<<attrs1["primary"]>>) ELSE Blank
             read == [a \in DOMAIN base |->
                        IF a \in DOMAIN attrs1 /\ a # "primary" THEN attrs1[a] ELSE base[a]]
  <2>1. c # NoContext /\ c \in PassContexts
    BY <1>2, ContextAssumption DEF WellBuilt
  <2>2. AttachPassContextAttrs(c) = attrs1
    BY <2>1, Zenon DEF AttachPassContextAttrs
  <2>3. FromTIR(attrs1) = IF DOMAIN attrs1 = {} THEN NoContext ELSE read
    BY Zenon DEF FromTIR
  <2>4. /\ "primary" \in given <=> c.primary # NoVD
        /\ "target" \in given <=> c.target # None
        /\ "device" \in given <=> c.device # None
        /\ "placement" \in given <=> c.placement # NoPlacement
        /\ "multi" \notin given
    OBVIOUS
  <2>5. DOMAIN attrs1 = given \cup {"multi"} /\ \A a \in DOMAIN attrs1 : attrs1[a] = c[a]
    OBVIOUS
  <2> HIDE DEF given, attrs1
  <2>6. c = [a \in Fields |-> c[a]]
    BY <2>1 DEF PassContexts, Fields
  <2>7. /\ DOMAIN base = Fields /\ base["primary"] = c["primary"]
        /\ \A a \in Fields : a \notin DOMAIN attrs1 => base[a] = c[a]
    <3>1. CASE c.primary = NoVD
      <4>1. base = Blank
        BY <2>4, <2>5, <3>1
      <4> QED
        BY <2>4, <2>5, <3>1, <4>1 DEF Blank, Fields
    <3>2. CASE c.primary # NoVD
      <4>1. base = BuildFromVirtualDevices(<<c.primary>>)
        BY <2>4, <2>5, <3>2
      <4>2. /\ DOMAIN base = Fields /\ base["primary"] = c.primary
            /\ base["target"] = TargetOf(c.primary) /\ base["device"] = c.primary.dev
        BY <4>1 DEF BuildFromVirtualDevices, Fields
      <4> HIDE DEF base
      <4>3. c.placement # NoPlacement /\ c.target = TargetOf(c.primary) /\ c.device = c.primary.dev
        BY <1>2, <3>2 DEF WellBuilt
      <4> QED
        BY <2>4, <2>5, <3>2, <4>2, <4>3 DEF Fields
    <3> QED
      BY <3>1, <3>2
  <2> HIDE DEF base
  <2>8. read = [a \in Fields |-> c[a]]
    BY <2>5, <2>7
  <2> HIDE DEF read
  <2> QED
    BY <2>2, <2>3, <2>5, <2>6, <2>8
<1> QED
  BY <1>1, <1>2

-----------------------------------------------------------------------------
(* CollectFrom *)

\* What is collected at expression n, when f is what is collected below it.
CollectedAt(fun, f, n) ==
    (IF fun[n].vd = NoVD THEN <<>> ELSE <<fun[n].vd>>)
    \o FlattenSeq([i \in DOMAIN Children(fun[n]) |-> f[Children(fun[n])[i]]])

IsCollect(f, fun, k) == f = [n \in 1..k |-> CollectedAt(fun, f, n)]

\* An expression uses expressions before it.
LEMMA ChildrenBefore ==
    ASSUME NEW fun \in Functions, NEW n \in 1 .. Len(fun)
    PROVE  /\ Len(fun) \in Nat \ {0} /\ DOMAIN fun = 1 .. Len(fun)
           /\ fun[n].vd \in VirtualDevices \cup {NoVD}
           /\ Children(fun[n]) \in Seq(1 .. n - 1)
<1>1. /\ Len(fun) \in Nat \ {0} /\ DOMAIN fun = 1 .. Len(fun)
      /\ fun[n].vd \in VirtualDevices \cup {NoVD} /\ fun[n].args \in Seq(1 .. n - 1)
  BY FunctionsAssumption
<1>2. Children(fun[n]) = <<>> \/ Children(fun[n]) = fun[n].args
  BY DEF Children
<1> DEFINE before == 1 .. n - 1
<1>3. <<>> \in Seq(before)
  OBVIOUS
<1>4. Children(fun[n]) \in Seq(before)
  BY <1>1, <1>2, <1>3, Zenon
<1> QED
  BY <1>1, <1>4

\* What is collected depends on the expressions below only.
LEMMA CollectedCongruent ==
    ASSUME NEW fun \in Functions, NEW n \in 1 .. Len(fun), NEW f, NEW h,
           \A m \in 1 .. n - 1 : f[m] = h[m]
    PROVE  CollectedAt(fun, f, n) = CollectedAt(fun, h, n)
<1> DEFINE c == Children(fun[n])
<1>1. c \in Seq(1 .. n - 1)
  BY ChildrenBefore
<1>2. \A i \in DOMAIN c : f[c[i]] = h[c[i]]
  <2> HIDE DEF c
  <2>1. \A i \in DOMAIN c : c[i] \in 1 .. n - 1
    BY <1>1
  <2> QED
    BY <2>1
<1>3. [i \in DOMAIN c |-> f[c[i]]] = [i \in DOMAIN c |-> h[c[i]]]
  BY <1>2
<1> QED
  BY <1>3, Zenon DEF CollectedAt

\* The recursion of CollectRelayVirtualDevices is well founded.
LEMMA CollectExists ==
    ASSUME NEW fun \in Functions
    PROVE  \E f : IsCollect(f, fun, Len(fun))
<1> DEFINE N == Len(fun)
           Built == {k \in Nat : k <= N => \E f : IsCollect(f, fun, k)}
<1>0. N \in Nat
  BY FunctionsAssumption
<1>1. 0 \in Built
  <2>1. IsCollect([n \in 1..0 |-> n], fun, 0)
    BY DEF IsCollect
  <2> QED
    BY <2>1
<1>2. ASSUME NEW k \in Nat, k \in Built PROVE k + 1 \in Built
  <2>1. SUFFICES ASSUME k + 1 <= N PROVE \E f : IsCollect(f, fun, k + 1)
    OBVIOUS
  <2>2. PICK f : IsCollect(f, fun, k)
    BY <1>0, <1>2, <2>1
  <2> DEFINE h == [n \in 1 .. k + 1 |-> IF n = k + 1 THEN CollectedAt(fun, f, k + 1) ELSE f[n]]
  <2>3. \A n \in 1..k : h[n] = f[n]
    OBVIOUS
  <2>4. ASSUME NEW n \in 1 .. k + 1 PROVE h[n] = CollectedAt(fun, h, n)
    <3>1. n \in 1 .. N /\ \A m \in 1 .. n - 1 : f[m] = h[m]
      BY <1>0, <2>1, <2>3
    <3> HIDE DEF N
    <3>2. h[n] = CollectedAt(fun, f, n)
      <4>1. CASE n = k + 1
        BY <4>1
      <4>2. CASE n # k + 1
        <5>1. n \in 1..k
          BY <4>2
        <5>2. f[n] = CollectedAt(fun, f, n)
          BY <2>2, <5>1 DEF IsCollect
        <5> QED
          BY <2>3, <5>1, <5>2
      <4> QED
        BY <4>1, <4>2
    <3> HIDE DEF h
    <3>3. CollectedAt(fun, f, n) = CollectedAt(fun, h, n)
      BY <3>1, CollectedCongruent DEF N
    <3> QED
      BY <3>2, <3>3
  <2>5. h = [n \in 1 .. k + 1 |-> CollectedAt(fun, h, n)]
    <3> DEFINE v(n) == CollectedAt(fun, h, n)
    <3>1. \A n \in 1 .. k + 1 : h[n] = v(n)
      BY <2>4
    <3>2. h = [n \in 1 .. k + 1 |-> h[n]]
      OBVIOUS
    <3> HIDE DEF h, v
    <3>3. h = [n \in 1 .. k + 1 |-> v(n)]
      BY <3>1, <3>2
    <3> QED
      BY <3>3 DEF v
  <2> HIDE DEF h
  <2> QED
    BY <2>5 DEF IsCollect
<1>3. Nat \subseteq Built
  BY <1>1, <1>2, NatSetInduction
<1> QED
  BY <1>0, <1>3

\* The concatenation of what is collected, or emitted, at several places.
LEMMA Joined ==
    ASSUME NEW S, NEW k \in Nat, NEW seqs, seqs \in [1..k -> Seq(S)]
    PROVE  FlattenSeq(seqs) \in Seq(S)
<1>1. Len(seqs) = k /\ \A i \in 1..k : seqs[i] \in Seq(S)
  OBVIOUS
<1>2. CASE k = 0
  BY <1>1, <1>2 DEF FlattenSeq
<1>3. CASE k # 0
  BY <1>1, <1>3, FlattenType
<1> QED
  BY <1>2, <1>3

\* Only defined virtual devices are collected.
LEMMA CollectedType ==
    ASSUME NEW fun \in Functions, NEW f, IsCollect(f, fun, Len(fun))
    PROVE  \A n \in 1 .. Len(fun) : f[n] \in Seq(VirtualDevices)
<1> DEFINE N == Len(fun)
           Good == {k \in Nat : \A n \in 1..k : n <= N => f[n] \in Seq(VirtualDevices)}
<1>0. N \in Nat
  BY FunctionsAssumption
<1>1. 0 \in Good
  OBVIOUS
<1>2. ASSUME NEW k \in Nat, k \in Good PROVE k + 1 \in Good
  <2>0. \A n \in 1 .. k + 1 : n \in 1..k \/ n = k + 1
    OBVIOUS
  <2>1. SUFFICES ASSUME k + 1 <= N PROVE f[k + 1] \in Seq(VirtualDevices)
    <3> HIDE DEF N
    <3>1. SUFFICES ASSUME NEW n \in 1 .. k + 1, n <= N PROVE f[n] \in Seq(VirtualDevices)
      OBVIOUS
    <3> QED
      BY <1>2, <2>0, <3>1
  <2> DEFINE c == Children(fun[k + 1])
             below == [i \in DOMAIN c |-> f[c[i]]]
             own == IF fun[k + 1].vd = NoVD THEN <<>> ELSE <<fun[k + 1].vd>>
  <2>2. k + 1 \in 1..N
    BY <1>0, <2>1
  <2>3. c \in Seq(1..k) /\ fun[k + 1].vd \in VirtualDevices \cup {NoVD}
    <3>1. k + 1 - 1 = k
      OBVIOUS
    <3> QED
      BY <2>2, <3>1, ChildrenBefore
  <2>4. f[k + 1] = own \o FlattenSeq(below)
    <3>1. f[k + 1] = CollectedAt(fun, f, k + 1)
      BY <2>2 DEF IsCollect
    <3> QED
      BY <3>1, Zenon DEF CollectedAt
  <2>5. own \in Seq(VirtualDevices)
    BY <2>3
  <2> HIDE DEF c, own
  <2>6. Len(c) \in Nat /\ below \in [1 .. Len(c) -> Seq(VirtualDevices)]
    <3>1. Len(c) \in Nat /\ DOMAIN c = 1 .. Len(c) /\ \A i \in DOMAIN c : c[i] \in 1..k
      BY <2>3
    <3>2. \A n \in 1..k : f[n] \in Seq(VirtualDevices)
      BY <1>0, <1>2, <2>1
    <3> QED
      BY <3>1, <3>2
  <2> HIDE DEF below
  <2>7. FlattenSeq(below) \in Seq(VirtualDevices)
    BY <2>6, Joined
  <2> QED
    BY <2>4, <2>5, <2>7
<1>3. Nat \subseteq Good
  BY <1>1, <1>2, NatSetInduction
<1> QED
  BY <1>0, <1>3

\* The virtual devices of a function, as BuildFromVirtualDevices gets them.
LEMMA CollectFromType ==
    ASSUME NEW fun \in Functions
    PROVE  CollectFrom(fun) \in Seq(VirtualDevices)
<1> DEFINE N == Len(fun)
           Collects(f) == f = [n \in DOMAIN fun |->
                (IF fun[n].vd = NoVD THEN <<>> ELSE <<fun[n].vd>>)
                \o FlattenSeq([i \in DOMAIN Children(fun[n]) |-> f[Children(fun[n])[i]]])]
           Params(f) == [n \in DOMAIN fun |-> IF fun[n].kind = "param" THEN f[n] ELSE <<>>]
<1>1. CollectFrom(fun) = FlattenSeq(Params(CHOOSE f : Collects(f)))
                         \o (CHOOSE f : Collects(f))[N]
  BY Zenon DEF CollectFrom
<1>2. N \in Nat \ {0} /\ DOMAIN fun = 1..N
  BY FunctionsAssumption
<1>3. \A f : Collects(f) <=> IsCollect(f, fun, N)
  BY <1>2, Zenon DEF IsCollect, CollectedAt
<1> HIDE DEF Collects
<1>4. \E f : Collects(f)
  BY <1>3, CollectExists, Zenon
<1>5. PICK f : f = CHOOSE g : Collects(g)
  OBVIOUS
<1>6. IsCollect(f, fun, N)
  BY <1>3, <1>4, <1>5, Zenon
<1>7. \A n \in 1..N : f[n] \in Seq(VirtualDevices)
  BY <1>6, CollectedType
<1>8. Params(f) \in [1..N -> Seq(VirtualDevices)]
  BY <1>2, <1>7
<1> HIDE DEF Params
<1>9. CollectFrom(fun) = FlattenSeq(Params(f)) \o f[N]
  BY <1>1, <1>5
<1>10. FlattenSeq(Params(f)) \in Seq(VirtualDevices)
  BY <1>2, <1>8, Joined
<1> QED
  BY <1>2, <1>7, <1>9, <1>10

\* The context FromRelay infers.
LEMMA FromRelayWellBuilt ==
    ASSUME NEW fun \in Functions
    PROVE  FromRelay(fun) = NoContext \/ WellBuilt(FromRelay(fun))
<1>1. CollectFrom(fun) \in Seq(VirtualDevices)
  BY CollectFromType
<1>2. CASE CollectFrom(fun) = <<>>
  BY <1>2 DEF FromRelay, BuildFromVirtualDevices
<1>3. CASE CollectFrom(fun) # <<>>
  BY <1>1, <1>3, BuildWellBuilt DEF FromRelay
<1> QED
  BY <1>2, <1>3

-----------------------------------------------------------------------------
(* The lowering *)

\* A context in a scope or of a lowering.
Sound(c) == c = NoContext \/ WellBuilt(c)

ContextInv ==
    /\ func \in Functions
    /\ thread \in ThreadStates /\ Nested(thread)
    /\ status = "tir" => Sound(ctx) /\ attrs = AttachPassContextAttrs(ctx)

\* What OpenScope and CloseScope leave is a thread with nested scopes.
LEMMA ScopeStep ==
    ASSUME ContextInv, thread' \in ThreadStates, Nested(thread'),
           UNCHANGED <<func, ctx, attrs, status>>
    PROVE  ContextInv'
  BY DEF ContextInv, Sound

\* The context a lowering runs in: that of the innermost scope, or the
\* function's own.
LEMMA InScopeIs ==
    ASSUME ContextInv, NEW own
    PROVE  /\ Leave(InScope(own)) = thread
           /\ InScope(own).current = thread.current \/ InScope(own).current = own
           /\ InScope(own).current \in (Ambient \ {NoContext}) \cup {own}
           /\ thread.current = NoContext \/ WellBuilt(thread.current)
<1>1. thread \in ThreadStates
  BY DEF ContextInv
<1>2. Leave(InScope(own)) = thread
  BY <1>1, LeaveEnter DEF InScope
<1>3. InScope(own).current = thread.current \/ InScope(own).current = own
  BY DEF InScope, Enter
<1>4. thread.current \in Current
  BY <1>1 DEF ThreadStates
<1>5. InScope(own).current \in (Ambient \ {NoContext}) \cup {own}
  BY <1>4 DEF Current, InScope, Enter
<1> QED
  BY <1>2, <1>3, <1>4, <1>5, AmbientAssumption DEF Current

\* Every step keeps the invariant.
LEMMA ContextStep == ContextInv /\ [Next]_vars => ContextInv'
<1> SUFFICES ASSUME ContextInv, [Next]_vars PROVE ContextInv'
  OBVIOUS
<1>0. func \in Functions /\ thread \in ThreadStates /\ Nested(thread)
  BY DEF ContextInv
<1>1. ASSUME NEW c \in Ambient, OpenScope(c) PROVE ContextInv'
  <2>1. c \in Current
    BY DEF Current
  <2>2. Enter(thread, c) \in ThreadStates /\ Nested(Enter(thread, c))
    BY <1>0, <2>1, EnterNested
  <2> QED
    BY <1>1, <2>2, ScopeStep DEF OpenScope
<1>2. CASE CloseScope
  <2>1. Leave(thread) \in ThreadStates /\ Nested(Leave(thread))
    BY <1>0, <1>2, LeaveNested DEF CloseScope
  <2> QED
    BY <1>2, <2>1, ScopeStep DEF CloseScope
<1>3. CASE Lower
  <2>1. thread' = thread
    BY <1>3, InScopeIs DEF Lower
  <2>2. func' = func /\ status' # "tir"
    BY <1>3 DEF Lower
  <2> QED
    BY <1>0, <2>1, <2>2 DEF ContextInv
<1>4. CASE LowerCompute
  <2> DEFINE own == FromRelay(func)
             inner == InScope(own)
  <2>1. /\ thread' = Leave(inner) /\ ctx' = inner.current /\ func' = func
        /\ status' = "tir" => attrs' = AttachPassContextAttrs(inner.current)
    BY <1>4 DEF LowerCompute
  <2>2. Sound(own)
    BY <1>0, FromRelayWellBuilt DEF Sound
  <2> HIDE DEF own
  <2>3. thread' = thread /\ Sound(inner.current)
    BY <2>1, <2>2, InScopeIs DEF Sound
  <2> HIDE DEF inner
  <2> QED
    BY <1>0, <2>1, <2>3 DEF ContextInv, Sound
<1>5. CASE \/ ThroughJson \/ ExecuteCall \/ ExecutePlanEntryPoint \/ Step
           \/ Over \/ UNCHANGED vars
  <2>1. UNCHANGED <<func, thread, ctx, attrs>> /\ (status' = "tir" => status = "tir")
    BY <1>5 DEF ThroughJson, ExecuteCall, ExecutePlanEntryPoint, Step, InputMissing,
                ExecuteSource, ExecuteKernel, ExecuteComm, ReturnOutput, Ends, Over, vars
  <2> QED
    BY <1>0, <2>1 DEF ContextInv, Sound
<1> QED
  BY <1>1, <1>2, <1>3, <1>4, <1>5 DEF Next

\* The states the lowering starts in.
LEMMA ContextInit == Init => ContextInv
<1> SUFFICES ASSUME Init PROVE ContextInv
  OBVIOUS
<1>1. func \in Functions /\ status # "tir" /\ thread = Thread
  BY DEF Init
<1>2. Thread \in ThreadStates /\ Nested(Thread)
  BY DEF Thread, ThreadStates, Nested, InForce, Current
<1> QED
  BY <1>1, <1>2 DEF ContextInv

\* Every function, scope and PrimFunc has a context that the code could build.
THEOREM ContextInvariance == Spec => []ContextInv
  BY ContextInit, ContextStep, PTL DEF Spec

\* PassContext::Scope: at any depth, and whichever passes ran in between, the
\* current context is the innermost scope's.
THEOREM ScopesNestHolds == Spec => []ScopesNest
<1>1. ContextInv => ScopesNest
  BY DEF ContextInv, Nested, ScopesNest
<1> QED
  BY <1>1, ContextInvariance, PTL

\* AttachPassContextAttrs and FromTIR: a TIR pass works in the context the
\* Relay function was lowered in, however many virtual devices it names.
THEOREM ContextReachesTIRHolds == Spec => []ContextReachesTIR
<1>1. ContextInv => ContextReachesTIR
  BY AttributesRoundTrip DEF ContextInv, Sound, ContextReachesTIR
<1> QED
  BY <1>1, ContextInvariance, PTL

-----------------------------------------------------------------------------
(* Values *)

\* The value of expression n, when f has the values of those before it.
ValueAt(fun, f, n) ==
    CASE fun[n].kind = "var" -> f[fun[n].args[1]]
      [] fun[n].kind = "let" -> f[fun[n].args[3]]
      [] OTHER -> <<n, 0>>

\* The arguments of an expression; a variable has one and a let three.
LEMMA ArgsBefore ==
    ASSUME NEW fun \in Functions, NEW n \in 1 .. Len(fun)
    PROVE  /\ Len(fun) \in Nat \ {0} /\ DOMAIN fun = 1 .. Len(fun)
           /\ fun[n].args \in Seq(1 .. n - 1)
           /\ Len(fun[n].args) \in Nat /\ DOMAIN fun[n].args = 1 .. Len(fun[n].args)
           /\ \A i \in 1 .. Len(fun[n].args) : /\ fun[n].args[i] \in 1 .. n - 1
                                               /\ fun[n].args[i] \in 1 .. Len(fun)
           /\ fun[n].kind = "var" => Len(fun[n].args) = 1
           /\ fun[n].kind = "let" => /\ Len(fun[n].args) = 3
                                     /\ fun[fun[n].args[1]].kind = "var"
                                     /\ fun[fun[n].args[1]].args[1] = fun[n].args[2]
<1>1. /\ Len(fun) \in Nat \ {0} /\ DOMAIN fun = 1 .. Len(fun)
      /\ fun[n].args \in Seq(1 .. n - 1)
  BY FunctionsAssumption
<1>2. IsBinding(fun, n)
  BY <1>1, TreeAssumption DEF WellFormed
<1> DEFINE a == fun[n].args
<1>3. Len(a) \in Nat /\ DOMAIN a = 1 .. Len(a) /\ \A i \in 1 .. Len(a) : a[i] \in 1 .. n - 1
  <2> HIDE DEF a
  <2>1. a \in Seq(1 .. n - 1)
    BY <1>1 DEF a
  <2> QED
    BY <2>1
<1>4. \A i \in 1 .. Len(a) : a[i] \in 1 .. Len(fun)
  <2> HIDE DEF a
  <2> QED
    BY <1>1, <1>3
<1> QED
  BY <1>1, <1>2, <1>3, <1>4 DEF IsBinding

\* The recursion over what a variable or a let stands for is well founded.
LEMMA ValueIs ==
    ASSUME NEW fun \in Functions
    PROVE  \A n \in 1 .. Len(fun) :
              /\ ValueOf(fun)[n] = ValueAt(fun, ValueOf(fun), n)
              /\ ValueOf(fun)[n] \in (1..n) \X {0}
<1> DEFINE N == Len(fun)
           V == (1..N) \X {0}
           Is(f) == f = [n \in DOMAIN fun |->
                            CASE fun[n].kind = "var" -> f[fun[n].args[1]]
                              [] fun[n].kind = "let" -> f[fun[n].args[3]]
                              [] OTHER -> <<n, 0>>]
           G == [n \in 1..N |-> [f \in [1..N -> V] |-> ValueAt(fun, f, n)]]
<1>0. N \in Nat \ {0} /\ DOMAIN fun = 1..N
  BY FunctionsAssumption
<1>1. ASSUME NEW n \in 1..N
      PROVE  /\ fun[n].kind = "var" => fun[n].args[1] \in 1 .. n - 1
             /\ fun[n].kind = "let" => fun[n].args[3] \in 1 .. n - 1
             /\ 1 .. n - 1 \subseteq 1..N
  <2>1. /\ Len(fun[n].args) \in Nat
        /\ \A i \in 1 .. Len(fun[n].args) : fun[n].args[i] \in 1 .. n - 1
        /\ fun[n].kind = "var" => Len(fun[n].args) = 1
        /\ fun[n].kind = "let" => Len(fun[n].args) = 3
    BY ArgsBefore
  <2>2. 1 .. n - 1 \subseteq 1..N
    BY <1>0
  <2> QED
    BY <2>1, <2>2
<1>2. ValueOf(fun) = CHOOSE f : Is(f)
  BY Zenon DEF ValueOf
<1>3. \E f : Is(f)
  <2>1. <<1, 0>> \in V
    BY <1>0
  <2>2. ASSUME NEW n \in 1..N, NEW f \in [1..N -> V]
        PROVE  G[n][f] = ValueAt(fun, f, n) /\ ValueAt(fun, f, n) \in V
    <3>1. \A m \in 1..N : f[m] \in V
      OBVIOUS
    <3>2. <<n, 0>> \in V
      OBVIOUS
    <3> HIDE DEF V
    <3> QED
      BY <1>1, <3>1, <3>2 DEF ValueAt
  <2>3. G \in [1..N -> [[1..N -> V] -> V]]
    <3> HIDE DEF V, N
    <3> QED
      BY <2>2
  <2>4. ASSUME NEW n \in 1..N, NEW f \in [1..N -> V], NEW h \in [1..N -> V],
               \A m \in 1 .. n - 1 : f[m] = h[m]
        PROVE  G[n][f] = G[n][h]
    <3>1. ValueAt(fun, f, n) = ValueAt(fun, h, n)
      BY <1>1, <2>4 DEF ValueAt
    <3> HIDE DEF G, V
    <3> QED
      BY <2>2, <3>1
  <2> HIDE DEF G, V, N
  <2>5. PICK f \in [1..N -> V] : \A n \in 1..N : f[n] = G[n][f]
    <3>1. \A n \in 1..N : \A f, h \in [1..N -> V] :
             (\A m \in 1 .. n - 1 : f[m] = h[m]) => G[n][f] = G[n][h]
      BY <2>4, Zenon
    <3>2. N \in Nat
      BY <1>0
    <3>3. LooksBack(G, N, V)
      BY <2>3, <3>1, Zenon DEF LooksBack
    <3> QED
      BY <2>1, <3>2, <3>3, RecursionExists
  <2>6. f = [n \in 1..N |-> ValueAt(fun, f, n)]
    BY <2>2, <2>5
  <2>7. Is(f)
    BY <1>0, <2>6, Zenon DEF ValueAt
  <2> QED
    BY <2>7, Zenon
<1>4. PICK g : g = ValueOf(fun) /\ Is(g)
  <2> HIDE DEF Is
  <2> QED
    BY <1>2, <1>3, Zenon
<1>5. g = [n \in 1..N |-> ValueAt(fun, g, n)]
  BY <1>0, <1>4, Zenon DEF ValueAt
<1>6. \A n \in 1..N : g[n] = ValueAt(fun, g, n)
  <2> DEFINE v(n) == ValueAt(fun, g, n)
  <2>1. g = [n \in 1..N |-> v(n)]
    BY <1>5
  <2> HIDE DEF v
  <2>2. \A n \in 1..N : g[n] = v(n)
    BY <2>1
  <2> QED
    BY <2>2 DEF v
<1> DEFINE S == {n \in 1..N : g[n] \in (1..n) \X {0}}
<1>7. ASSUME NEW n \in 1..N, \A m \in 1 .. n - 1 : m \in S PROVE n \in S
  <2> HIDE DEF Is, V, N
  <2>1. \A m \in 1 .. n - 1 : g[m] \in (1..n) \X {0}
    BY <1>7
  <2>2. <<n, 0>> \in (1..n) \X {0}
    BY <1>0
  <2>3. ValueAt(fun, g, n) \in (1..n) \X {0}
    BY <1>1, <2>1, <2>2 DEF ValueAt
  <2> QED
    BY <1>6, <2>3
<1>8. 1..N \subseteq S
  <2> HIDE DEF S
  <2> QED
    BY <1>0, <1>7, UpTo
<1> QED
  BY <1>4, <1>6, <1>8

-----------------------------------------------------------------------------
(* Emission *)

\* What the builder appends for argument i of expression n, when e has what it
\* appends for the expressions before.
ArgumentAt(c, fun, e, n, i) ==
    e[fun[n].args[i]] \o IF NeedsCopy(fun, n, i) THEN <<InsertedCopy(c, fun, n, i)>> ELSE <<>>

ArgumentsAt(c, fun, e, n) ==
    FlattenSeq([i \in DOMAIN fun[n].args |-> ArgumentAt(c, fun, e, n, i)])

EmittedAt(c, fun, e, n) ==
    CASE fun[n].kind \in Leaves -> <<>>
      [] fun[n].kind = "let" -> e[fun[n].args[2]] \o e[fun[n].args[3]]
      [] fun[n].kind \in CommunicationOps ->
            ArgumentsAt(c, fun, e, n) \o <<Communication(c, fun, n)>>
      [] OTHER -> ArgumentsAt(c, fun, e, n) \o <<Kernel(c, fun, n)>>

\* The node of an expression that has one.
OwnNode(c, fun, n) ==
    IF fun[n].kind \in CommunicationOps THEN Communication(c, fun, n) ELSE Kernel(c, fun, n)

\* The nodes a plan can have.
Copied(fun) ==
    {p \in (1 .. Len(fun)) \X Nat : p[2] \in 1 .. Len(fun[p[1]].args) /\ NeedsCopy(fun, p[1], p[2])}

Copies(c, fun) == {InsertedCopy(c, fun, p[1], p[2]) : p \in Copied(fun)}

Emitting(fun) == {n \in 1 .. Len(fun) : fun[n].kind \notin Leaves \cup {"let"}}

PlanNodes(c, fun) == {OwnNode(c, fun, n) : n \in Emitting(fun)} \cup Copies(c, fun)

\* The node of an expression and the copies of its arguments are among them.
LEMMA PlanNodesAre ==
    ASSUME NEW c, NEW fun, NEW n \in 1 .. Len(fun)
    PROVE  /\ fun[n].kind \notin Leaves \cup {"let"} => OwnNode(c, fun, n) \in PlanNodes(c, fun)
           /\ \A i \in 1 .. Len(fun[n].args) : i \in Nat /\ NeedsCopy(fun, n, i) =>
                 InsertedCopy(c, fun, n, i) \in PlanNodes(c, fun)
<1>1. ASSUME NEW i \in Nat, i \in 1 .. Len(fun[n].args), NeedsCopy(fun, n, i)
      PROVE  InsertedCopy(c, fun, n, i) \in Copies(c, fun)
  <2>1. <<n, i>>[1] = n /\ <<n, i>>[2] = i /\ <<n, i>> \in (1 .. Len(fun)) \X Nat
    OBVIOUS
  <2>2. <<n, i>> \in Copied(fun)
    BY <1>1, <2>1, Zenon DEF Copied
  <2>3. InsertedCopy(c, fun, <<n, i>>[1], <<n, i>>[2]) \in Copies(c, fun)
    BY <2>2, Zenon DEF Copies
  <2> QED
    BY <2>1, <2>3
<1>2. fun[n].kind \notin Leaves \cup {"let"} => n \in Emitting(fun)
  BY DEF Emitting
<1> QED
  BY <1>1, <1>2, Zenon DEF PlanNodes

\* A stretch of nodes that are appended.
LEMMA ArgumentType ==
    ASSUME NEW c, NEW fun \in Functions, NEW n \in 1 .. Len(fun), NEW e,
           \A m \in 1 .. n - 1 : e[m] \in Seq(PlanNodes(c, fun)),
           NEW i \in 1 .. Len(fun[n].args)
    PROVE  ArgumentAt(c, fun, e, n, i) \in Seq(PlanNodes(c, fun))
<1> DEFINE P == PlanNodes(c, fun)
           own == IF NeedsCopy(fun, n, i) THEN <<InsertedCopy(c, fun, n, i)>> ELSE <<>>
<1>1. i \in Nat /\ fun[n].args[i] \in 1 .. n - 1
  BY ArgsBefore
<1>2. e[fun[n].args[i]] \in Seq(P)
  BY <1>1
<1>3. NeedsCopy(fun, n, i) => InsertedCopy(c, fun, n, i) \in P
  BY <1>1, PlanNodesAre
<1>4. ArgumentAt(c, fun, e, n, i) = e[fun[n].args[i]] \o own
  BY DEF ArgumentAt
<1> HIDE DEF P
<1>5. own \in Seq(P)
  BY <1>3
<1> HIDE DEF own
<1>6. e[fun[n].args[i]] \o own \in Seq(P)
  BY <1>2, <1>5
<1> QED
  BY <1>4, <1>6 DEF P

\* What is appended for an expression, by its kind.
LEMMA EmittedForms ==
    ASSUME NEW c, NEW fun, NEW n, NEW e
    PROVE  /\ fun[n].kind \in Leaves => EmittedAt(c, fun, e, n) = <<>>
           /\ fun[n].kind = "let" =>
                 EmittedAt(c, fun, e, n) = e[fun[n].args[2]] \o e[fun[n].args[3]]
           /\ fun[n].kind \notin Leaves \cup {"let"} =>
                 EmittedAt(c, fun, e, n) = ArgumentsAt(c, fun, e, n) \o <<OwnNode(c, fun, n)>>
<1> DEFINE a == ArgumentsAt(c, fun, e, n)
           x == e[fun[n].args[2]] \o e[fun[n].args[3]]
           v == a \o <<Communication(c, fun, n)>>
           w == a \o <<Kernel(c, fun, n)>>
           E == EmittedAt(c, fun, e, n)
           k == fun[n].kind
<1>1. E = CASE k \in Leaves -> <<>> [] k = "let" -> x
            [] k \in CommunicationOps -> v [] OTHER -> w
  BY Zenon DEF EmittedAt
<1>2. a \o <<OwnNode(c, fun, n)>> = IF k \in CommunicationOps THEN v ELSE w
  BY DEF OwnNode
<1> HIDE DEF a, x, v, w, E, k
<1>3. /\ k \in Leaves => k # "let" /\ k \notin CommunicationOps
      /\ k = "let" => k \notin Leaves /\ k \notin CommunicationOps
  BY DEF Leaves, CommunicationOps, CopyOp, Collectives, PointToPoint
<1>4. /\ k \in Leaves => E = <<>>
      /\ k = "let" => E = x
      /\ k \notin Leaves \cup {"let"} => E = IF k \in CommunicationOps THEN v ELSE w
  BY <1>1, <1>3
<1> QED
  BY <1>2, <1>4 DEF x, E, k, a

\* It is a stretch of nodes.
LEMMA EmittedType ==
    ASSUME NEW c, NEW fun \in Functions, NEW n \in 1 .. Len(fun), NEW e,
           \A m \in 1 .. n - 1 : e[m] \in Seq(PlanNodes(c, fun))
    PROVE  /\ ArgumentsAt(c, fun, e, n) \in Seq(PlanNodes(c, fun))
           /\ EmittedAt(c, fun, e, n) \in Seq(PlanNodes(c, fun))
<1> DEFINE P == PlanNodes(c, fun)
           k == Len(fun[n].args)
           seqs == [i \in DOMAIN fun[n].args |-> ArgumentAt(c, fun, e, n, i)]
<1>1. k \in Nat /\ DOMAIN fun[n].args = 1..k
  BY ArgsBefore
<1>2. seqs \in [1..k -> Seq(P)]
  <2>1. \A i \in 1..k : ArgumentAt(c, fun, e, n, i) \in Seq(P)
    BY ArgumentType
  <2> HIDE DEF P, k
  <2> QED
    BY <1>1, <2>1
<1>3. ArgumentsAt(c, fun, e, n) \in Seq(P)
  <2> HIDE DEF P, k, seqs
  <2>1. FlattenSeq(seqs) \in Seq(P)
    BY <1>1, <1>2, Joined
  <2> QED
    BY <2>1 DEF ArgumentsAt, seqs
<1>4. fun[n].kind \notin Leaves \cup {"let"} => OwnNode(c, fun, n) \in P
  BY PlanNodesAre
<1>5. fun[n].kind = "let" => e[fun[n].args[2]] \in Seq(P) /\ e[fun[n].args[3]] \in Seq(P)
  <2>1. fun[n].kind = "let" => fun[n].args[2] \in 1 .. n - 1 /\ fun[n].args[3] \in 1 .. n - 1
    BY ArgsBefore
  <2> QED
    BY <2>1
<1> DEFINE a == ArgumentsAt(c, fun, e, n)
           x == e[fun[n].args[2]]
           y == e[fun[n].args[3]]
           K == OwnNode(c, fun, n)
<1>6. a \in Seq(P) /\ (fun[n].kind \notin Leaves \cup {"let"} => K \in P)
  BY <1>3, <1>4
<1>7. /\ fun[n].kind \in Leaves => EmittedAt(c, fun, e, n) = <<>>
      /\ fun[n].kind = "let" => EmittedAt(c, fun, e, n) = x \o y
      /\ fun[n].kind \notin Leaves \cup {"let"} => EmittedAt(c, fun, e, n) = a \o <<K>>
  BY EmittedForms
<1>8. fun[n].kind = "let" => x \in Seq(P) /\ y \in Seq(P)
  BY <1>5
<1> HIDE DEF P, a, x, y, K
<1>9. (fun[n].kind \notin Leaves \cup {"let"} => a \o <<K>> \in Seq(P)) /\ <<>> \in Seq(P)
  BY <1>6
<1>10. x \in Seq(P) /\ y \in Seq(P) => x \o y \in Seq(P)
  OBVIOUS
<1>11. EmittedAt(c, fun, e, n) \in Seq(P)
  BY <1>7, <1>8, <1>9, <1>10
<1> QED
  BY <1>3, <1>11 DEF P

\* What is appended for an expression depends on those before it only.
LEMMA EmittedCongruent ==
    ASSUME NEW c, NEW fun \in Functions, NEW n \in 1 .. Len(fun), NEW e, NEW h,
           \A m \in 1 .. n - 1 : e[m] = h[m]
    PROVE  EmittedAt(c, fun, e, n) = EmittedAt(c, fun, h, n)
<1> DEFINE a == fun[n].args
<1>1. /\ DOMAIN a = 1 .. Len(a) /\ \A i \in 1 .. Len(a) : a[i] \in 1 .. n - 1
      /\ fun[n].kind = "let" => Len(a) = 3
  BY ArgsBefore
<1>2. \A i \in DOMAIN a : ArgumentAt(c, fun, e, n, i) = ArgumentAt(c, fun, h, n, i)
  <2>1. \A i \in DOMAIN a : e[a[i]] = h[a[i]]
    BY <1>1
  <2> QED
    BY <2>1, Zenon DEF ArgumentAt
<1>3. [i \in DOMAIN a |-> ArgumentAt(c, fun, e, n, i)]
        = [i \in DOMAIN a |-> ArgumentAt(c, fun, h, n, i)]
  BY <1>2
<1>4. ArgumentsAt(c, fun, e, n) = ArgumentsAt(c, fun, h, n)
  BY <1>3, Zenon DEF ArgumentsAt
<1>5. fun[n].kind = "let" => e[a[2]] = h[a[2]] /\ e[a[3]] = h[a[3]]
  <2> HIDE DEF a
  <2>1. fun[n].kind = "let" => 2 \in 1 .. Len(a) /\ 3 \in 1 .. Len(a)
    BY <1>1
  <2>2. fun[n].kind = "let" => a[2] \in 1 .. n - 1 /\ a[3] \in 1 .. n - 1
    BY <1>1, <2>1
  <2> QED
    BY <2>2
<1> QED
  BY <1>4, <1>5 DEF EmittedAt

IsEmit(e, c, fun) ==
    /\ e \in [1 .. Len(fun) -> Seq(PlanNodes(c, fun))]
    /\ \A n \in 1 .. Len(fun) : e[n] = EmittedAt(c, fun, e, n)

\* The builder's visit of a function ends: what it appends is defined for every
\* expression.
LEMMA NodesAre ==
    ASSUME NEW c, NEW fun \in Functions
    PROVE  \E e : IsEmit(e, c, fun) /\ Nodes(c, fun) = e[Len(fun)]
<1> DEFINE N == Len(fun)
           V == Seq(PlanNodes(c, fun))
           Is(f) == f = [n \in DOMAIN fun |->
               CASE fun[n].kind \in Leaves -> <<>>
                 [] fun[n].kind = "let" -> f[fun[n].args[2]] \o f[fun[n].args[3]]
                 [] fun[n].kind \in CommunicationOps ->
                       FlattenSeq([i \in DOMAIN fun[n].args |->
                          f[fun[n].args[i]] \o IF NeedsCopy(fun, n, i)
                                               THEN <<InsertedCopy(c, fun, n, i)>> ELSE <<>>])
                       \o <<Communication(c, fun, n)>>
                 [] OTHER ->
                       FlattenSeq([i \in DOMAIN fun[n].args |->
                          f[fun[n].args[i]] \o IF NeedsCopy(fun, n, i)
                                               THEN <<InsertedCopy(c, fun, n, i)>> ELSE <<>>])
                       \o <<Kernel(c, fun, n)>>]
           G == [n \in 1..N |-> [f \in [1..N -> V] |-> EmittedAt(c, fun, f, n)]]
<1>0. N \in Nat \ {0} /\ DOMAIN fun = 1..N
  BY FunctionsAssumption
<1>1. Nodes(c, fun) = (CHOOSE f : Is(f))[N]
  BY Zenon DEF Nodes
<1>2. ASSUME NEW f PROVE Is(f) <=> f = [n \in 1..N |-> EmittedAt(c, fun, f, n)]
  BY <1>0, Zenon DEF EmittedAt, ArgumentsAt, ArgumentAt
<1> HIDE DEF Is
<1>3. \E f : Is(f)
  <2>1. <<>> \in V
    OBVIOUS
  <2>2. ASSUME NEW n \in 1..N, NEW f \in [1..N -> V]
        PROVE  G[n][f] = EmittedAt(c, fun, f, n) /\ EmittedAt(c, fun, f, n) \in V
    <3>1. \A m \in 1 .. n - 1 : f[m] \in V
      BY <1>0
    <3>2. EmittedAt(c, fun, f, n) \in V
      BY <3>1, EmittedType
    <3> HIDE DEF V
    <3> QED
      BY <3>2
  <2>3. G \in [1..N -> [[1..N -> V] -> V]]
    <3> HIDE DEF V, N
    <3> QED
      BY <2>2
  <2>4. ASSUME NEW n \in 1..N, NEW f \in [1..N -> V], NEW h \in [1..N -> V],
               \A m \in 1 .. n - 1 : f[m] = h[m]
        PROVE  G[n][f] = G[n][h]
    <3>1. EmittedAt(c, fun, f, n) = EmittedAt(c, fun, h, n)
      BY <2>4, EmittedCongruent
    <3> HIDE DEF G, V
    <3> QED
      BY <2>2, <3>1
  <2> HIDE DEF G, V, N
  <2>5. PICK f \in [1..N -> V] : \A n \in 1..N : f[n] = G[n][f]
    <3>1. LooksBack(G, N, V)
      BY <2>3, <2>4, Zenon DEF LooksBack
    <3>2. N \in Nat
      BY <1>0
    <3> QED
      BY <2>1, <3>1, <3>2, RecursionExists
  <2>6. f = [n \in 1..N |-> EmittedAt(c, fun, f, n)]
    BY <2>2, <2>5
  <2> QED
    BY <1>2, <2>6, Zenon
<1>4. PICK g : Nodes(c, fun) = g[N] /\ Is(g)
  BY <1>1, <1>3, Zenon
<1>5. g = [n \in 1..N |-> EmittedAt(c, fun, g, n)]
  BY <1>2, <1>4, Zenon
<1>6. \A n \in 1..N : g[n] = EmittedAt(c, fun, g, n)
  <2> DEFINE v(n) == EmittedAt(c, fun, g, n)
  <2>1. g = [n \in 1..N |-> v(n)]
    BY <1>5
  <2> HIDE DEF v
  <2>2. \A n \in 1..N : g[n] = v(n)
    BY <2>1
  <2> QED
    BY <2>2 DEF v
<1> DEFINE S == {n \in 1..N : g[n] \in V}
<1>7. ASSUME NEW n \in 1..N, \A m \in 1 .. n - 1 : m \in S PROVE n \in S
  <2>1. \A m \in 1 .. n - 1 : g[m] \in V
    BY <1>7
  <2>2. EmittedAt(c, fun, g, n) \in V
    BY <2>1, EmittedType
  <2> HIDE DEF V
  <2> QED
    BY <1>6, <2>2
<1>8. 1..N \subseteq S
  <2> HIDE DEF S
  <2> QED
    BY <1>0, <1>7, UpTo
<1>9. g \in [1..N -> V]
  <2> HIDE DEF V, N
  <2>1. g = [n \in 1..N |-> g[n]]
    BY <1>5
  <2>2. \A n \in 1..N : g[n] \in V
    BY <1>8
  <2> QED
    BY <2>1, <2>2
<1>10. IsEmit(g, c, fun)
  BY <1>6, <1>9 DEF IsEmit
<1> QED
  BY <1>4, <1>10

-----------------------------------------------------------------------------
(* The expressions below an expression *)

Closed(fun, S) ==
    \A p \in S : \A i \in DOMAIN Children(fun[p]) :
        fun[Children(fun[p])[i]].kind \notin Leaves => Children(fun[p])[i] \in S

\* Expression n and what it uses, directly or not, other than leaves.
Under(fun, n) ==
    {m \in 1 .. Len(fun) : \A S \in SUBSET (1 .. Len(fun)) :
                              n \in S /\ Closed(fun, S) => m \in S}

\* The children of an expression that has a node or is a let.
LEMMA ChildrenAre ==
    ASSUME NEW fun \in Functions, NEW n \in 1 .. Len(fun)
    PROVE  /\ DOMAIN Children(fun[n]) \in {{}, 1 .. Len(fun[n].args)}
           /\ \A i \in DOMAIN Children(fun[n]) :
                 /\ i \in 1 .. Len(fun[n].args)
                 /\ Children(fun[n])[i] = fun[n].args[i]
                 /\ Children(fun[n])[i] \in 1 .. n - 1
                 /\ Children(fun[n])[i] \in 1 .. Len(fun)
           /\ fun[n].kind \notin Leaves => /\ Children(fun[n]) = fun[n].args
                                           /\ DOMAIN Children(fun[n]) = 1 .. Len(fun[n].args)
<1>1. /\ DOMAIN fun[n].args = 1 .. Len(fun[n].args)
      /\ \A i \in 1 .. Len(fun[n].args) : /\ fun[n].args[i] \in 1 .. n - 1
                                          /\ fun[n].args[i] \in 1 .. Len(fun)
  BY ArgsBefore
<1>2. CASE fun[n].kind \in Leaves
  <2>1. Children(fun[n]) = <<>>
    BY <1>2 DEF Children
  <2>2. DOMAIN Children(fun[n]) = {}
    BY <2>1
  <2> QED
    BY <1>2, <2>2
<1>3. CASE fun[n].kind \notin Leaves
  <2>1. Children(fun[n]) = fun[n].args
    BY <1>3 DEF Children
  <2> QED
    BY <1>1, <1>3, <2>1
<1> QED
  BY <1>2, <1>3

\* They are closed, and none of them comes after n.
LEMMA UnderClosed ==
    ASSUME NEW fun \in Functions, NEW n \in 1 .. Len(fun)
    PROVE  n \in Under(fun, n) /\ Closed(fun, Under(fun, n)) /\ Under(fun, n) \subseteq 1..n
<1> DEFINE N == Len(fun)
<1>0. N \in Nat
  BY FunctionsAssumption
<1>1. n \in Under(fun, n)
  BY DEF Under
<1>2. Closed(fun, Under(fun, n))
  <2> SUFFICES ASSUME NEW p \in Under(fun, n), NEW i \in DOMAIN Children(fun[p]),
                      fun[Children(fun[p])[i]].kind \notin Leaves
               PROVE  Children(fun[p])[i] \in Under(fun, n)
    BY DEF Closed
  <2>1. p \in 1..N
    BY DEF Under
  <2>2. Children(fun[p])[i] \in 1..N
    BY <2>1, ChildrenAre
  <2>3. ASSUME NEW S \in SUBSET (1..N), n \in S, Closed(fun, S) PROVE Children(fun[p])[i] \in S
    <3>1. p \in S
      BY <2>3 DEF Under
    <3> QED
      BY <2>3, <3>1 DEF Closed
  <2> QED
    BY <2>2, <2>3 DEF Under
<1>3. Closed(fun, 1..n)
  <2> SUFFICES ASSUME NEW p \in 1..n, NEW i \in DOMAIN Children(fun[p])
               PROVE  Children(fun[p])[i] \in 1..n
    BY DEF Closed
  <2>1. p \in 1..N
    BY <1>0
  <2>2. Children(fun[p])[i] \in 1 .. p - 1
    BY <2>1, ChildrenAre
  <2> QED
    BY <2>2
<1>4. 1..n \in SUBSET (1..N) /\ n \in 1..n
  BY <1>0
<1>5. Under(fun, n) \subseteq 1..n
  BY <1>3, <1>4 DEF Under
<1> QED
  BY <1>1, <1>2, <1>5

\* Each of them other than n is used by one of them.
LEMMA UnderUsed ==
    ASSUME NEW fun \in Functions, NEW n \in 1 .. Len(fun), NEW x \in Under(fun, n), x # n
    PROVE  \E p \in Under(fun, n) : \E i \in DOMAIN Children(fun[p]) :
              Children(fun[p])[i] = x /\ fun[x].kind \notin Leaves
<1> SUFFICES ASSUME \A p \in Under(fun, n) : \A i \in DOMAIN Children(fun[p]) :
                       ~(Children(fun[p])[i] = x /\ fun[x].kind \notin Leaves)
             PROVE  FALSE
  OBVIOUS
<1> DEFINE S == Under(fun, n) \ {x}
<1>1. n \in Under(fun, n) /\ Closed(fun, Under(fun, n))
  BY UnderClosed
<1>2. Closed(fun, S)
  <2> SUFFICES ASSUME NEW p \in S, NEW i \in DOMAIN Children(fun[p]),
                      fun[Children(fun[p])[i]].kind \notin Leaves
               PROVE  Children(fun[p])[i] \in S
    BY DEF Closed
  <2>1. Children(fun[p])[i] \in Under(fun, n)
    BY <1>1 DEF Closed
  <2>2. Children(fun[p])[i] # x
    OBVIOUS
  <2> QED
    BY <2>1, <2>2
<1>3. S \in SUBSET (1 .. Len(fun)) /\ n \in S
  BY <1>1 DEF Under
<1>4. x \in S
  BY <1>2, <1>3 DEF Under
<1> QED
  BY <1>4

\* What an argument uses is used by the expression.
LEMMA UnderChild ==
    ASSUME NEW fun \in Functions, NEW n \in 1 .. Len(fun), NEW i \in DOMAIN Children(fun[n]),
           fun[Children(fun[n])[i]].kind \notin Leaves
    PROVE  Under(fun, Children(fun[n])[i]) \subseteq Under(fun, n)
<1>1. n \in Under(fun, n) /\ Closed(fun, Under(fun, n))
  BY UnderClosed
<1>2. Children(fun[n])[i] \in Under(fun, n)
  BY <1>1 DEF Closed
<1>3. Under(fun, n) \in SUBSET (1 .. Len(fun))
  BY DEF Under
<1> QED
  BY <1>1, <1>2, <1>3 DEF Under

\* Two arguments of an expression share no expressions: the function is a tree.
LEMMA UnderApart ==
    ASSUME NEW fun \in Functions, NEW n \in 1 .. Len(fun),
           NEW i \in DOMAIN Children(fun[n]), NEW j \in DOMAIN Children(fun[n]), i # j,
           fun[Children(fun[n])[i]].kind \notin Leaves,
           fun[Children(fun[n])[j]].kind \notin Leaves
    PROVE  Under(fun, Children(fun[n])[i]) \cap Under(fun, Children(fun[n])[j]) = {}
<1> DEFINE x == Children(fun[n])[i]
           y == Children(fun[n])[j]
           S == Under(fun, x) \ Under(fun, y)
<1>1. x \in 1 .. n - 1 /\ y \in 1 .. n - 1 /\ x \in 1 .. Len(fun) /\ y \in 1 .. Len(fun)
  BY ChildrenAre
<1>2. IsTree(fun) /\ DOMAIN fun = 1 .. Len(fun)
  BY TreeAssumption, FunctionsAssumption DEF WellFormed
<1>3. ASSUME NEW p \in 1 .. Len(fun), NEW k \in DOMAIN Children(fun[p]),
             NEW q \in 1 .. Len(fun), NEW l \in DOMAIN Children(fun[q]),
             Children(fun[p])[k] = Children(fun[q])[l],
             fun[Children(fun[p])[k]].kind \notin Leaves
      PROVE  p = q /\ k = l
  BY <1>2, <1>3 DEF IsTree
<1>4. n \notin Under(fun, x) /\ n \notin Under(fun, y)
  <2>1. Under(fun, x) \subseteq 1..x /\ Under(fun, y) \subseteq 1..y
    BY <1>1, UnderClosed
  <2> HIDE DEF x, y
  <2> QED
    BY <1>1, <2>1
<1>5. x \in Under(fun, x) /\ Closed(fun, Under(fun, x)) /\ Under(fun, x) \subseteq 1 .. Len(fun)
  BY <1>1, UnderClosed DEF Under
<1>6. ASSUME NEW p \in 1 .. Len(fun), p \notin Under(fun, y), NEW k \in DOMAIN Children(fun[p]),
             Children(fun[p])[k] \in Under(fun, y), fun[Children(fun[p])[k]].kind \notin Leaves
      PROVE  p = n /\ k = j
  <2>1. CASE Children(fun[p])[k] = y
    BY <1>3, <1>6, <2>1
  <2>2. CASE Children(fun[p])[k] # y
    <3> DEFINE z == Children(fun[p])[k]
    <3>0. y \in 1 .. Len(fun) /\ z \in Under(fun, y) /\ z # y
      BY <1>1, <1>6, <2>2
    <3> HIDE DEF y, z
    <3>1. PICK q \in Under(fun, y) : \E l \in DOMAIN Children(fun[q]) :
             Children(fun[q])[l] = z /\ fun[z].kind \notin Leaves
      BY <3>0, UnderUsed, Zenon
    <3>2. q \in 1 .. Len(fun)
      BY DEF Under
    <3>3. p = q
      BY <1>3, <1>6, <3>1, <3>2 DEF z
    <3> QED
      BY <1>6, <3>3
  <2> QED
    BY <2>1, <2>2
<1>7. x \notin Under(fun, y)
  <2>1. SUFFICES ASSUME x \in Under(fun, y) PROVE FALSE
    OBVIOUS
  <2>2. n = n /\ i = j
    BY <1>4, <1>6, <2>1
  <2> QED
    BY <2>2
<1>8. Closed(fun, S)
  <2> SUFFICES ASSUME NEW p \in S, NEW k \in DOMAIN Children(fun[p]),
                      fun[Children(fun[p])[k]].kind \notin Leaves
               PROVE  Children(fun[p])[k] \in S
    BY DEF Closed
  <2>1. Children(fun[p])[k] \in Under(fun, x)
    BY <1>5 DEF Closed
  <2>2. p \in 1 .. Len(fun) /\ p \notin Under(fun, y) /\ p # n
    BY <1>4, <1>5
  <2> QED
    BY <1>6, <2>1, <2>2
<1>9. S \in SUBSET (1 .. Len(fun)) /\ x \in S
  BY <1>5, <1>7
<1>10. Under(fun, x) \subseteq S
  <2> HIDE DEF S, x
  <2> QED
    BY <1>8, <1>9 DEF Under
<1> QED
  BY <1>10

-----------------------------------------------------------------------------
(* Stretches of nodes *)

Outs(s) == {s[k].output : k \in DOMAIN s}

\* The stretch is in single-assignment form and reads only values of E and
\* results of its own earlier nodes.
Runs(s, E) ==
    \A j \in DOMAIN s :
        /\ \A k \in DOMAIN s : s[k].output = s[j].output => k = j
        /\ \A i \in DOMAIN s[j].inputs :
              \/ s[j].inputs[i] \in E
              \/ \E k \in 1 .. j - 1 : s[k].output = s[j].inputs[i]

\* No nodes at all.
LEMMA RunsNone == ASSUME NEW E PROVE Runs(<<>>, E) /\ Outs(<<>>) = {}
  BY DEF Runs, Outs

\* One node.
LEMMA RunsOne ==
    ASSUME NEW E, NEW node, \A i \in DOMAIN node.inputs : node.inputs[i] \in E
    PROVE  Runs(<<node>>, E) /\ Outs(<<node>>) = {node.output}
  BY DEF Runs, Outs

\* More values are known.
LEMMA RunsWeaker ==
    ASSUME NEW E, NEW F, E \subseteq F, NEW s, Runs(s, E)
    PROVE  Runs(s, F)
  BY DEF Runs

\* Two stretches one after the other.
LEMMA RunsJoined ==
    ASSUME NEW P, NEW s \in Seq(P), NEW t \in Seq(P), NEW E,
           Runs(s, E), Runs(t, E \cup Outs(s)), Outs(s) \cap Outs(t) = {}
    PROVE  Runs(s \o t, E) /\ Outs(s \o t) = Outs(s) \cup Outs(t)
<1> DEFINE r == s \o t
           a == Len(s)
           b == Len(t)
<1>1. /\ a \in Nat /\ b \in Nat /\ DOMAIN s = 1..a /\ DOMAIN t = 1..b /\ DOMAIN r = 1 .. a + b
      /\ \A k \in 1..a : r[k] = s[k]
      /\ \A k \in 1..b : r[a + k] = t[k]
      /\ \A k \in 1 .. a + b : k \in 1..a \/ k - a \in 1..b
      /\ \A k \in 1 .. a + b : k \notin 1..a => r[k] = t[k - a]
  OBVIOUS
<1> HIDE DEF r, a, b
<1>2. Outs(r) = Outs(s) \cup Outs(t)
  <2>1. ASSUME NEW k \in 1 .. a + b PROVE r[k].output \in Outs(s) \cup Outs(t)
    BY <1>1 DEF Outs
  <2>2. ASSUME NEW k \in 1..a PROVE s[k].output \in Outs(r)
    <3>1. k \in 1 .. a + b
      BY <1>1
    <3> QED
      BY <1>1, <3>1 DEF Outs
  <2>3. ASSUME NEW k \in 1..b PROVE t[k].output \in Outs(r)
    <3>1. a + k \in 1 .. a + b
      BY <1>1
    <3> QED
      BY <1>1, <3>1 DEF Outs
  <2>4. Outs(s) = {s[k].output : k \in 1..a} /\ Outs(t) = {t[k].output : k \in 1..b}
        /\ Outs(r) = {r[k].output : k \in 1 .. a + b}
    BY <1>1, Zenon DEF Outs
  <2>5. Outs(s) \subseteq Outs(r) /\ Outs(t) \subseteq Outs(r)
    BY <2>2, <2>3, <2>4
  <2>6. Outs(r) \subseteq Outs(s) \cup Outs(t)
    <3> DEFINE U == Outs(s) \cup Outs(t)
    <3>1. \A k \in 1 .. a + b : r[k].output \in U
      BY <2>1
    <3> HIDE DEF U
    <3>2. Outs(r) \subseteq U
      BY <2>4, <3>1
    <3> QED
      BY <3>2 DEF U
  <2> QED
    BY <2>5, <2>6
<1>3. ASSUME NEW k \in 1..a, NEW l \in 1..b PROVE s[k].output # t[l].output
  BY <1>1 DEF Outs
<1>7. /\ \A j, k \in 1..a : s[k].output = s[j].output => k = j
      /\ \A j, k \in 1..b : t[k].output = t[j].output => k = j
  BY <1>1, Zenon DEF Runs
<1>4. ASSUME NEW j \in 1 .. a + b, NEW k \in 1 .. a + b, r[k].output = r[j].output
      PROVE  k = j
  <2>1. CASE j \in 1..a /\ k \in 1..a
    BY <1>1, <1>4, <1>7, <2>1
  <2>2. CASE j \notin 1..a /\ k \notin 1..a
    <3>1. j - a \in 1..b /\ k - a \in 1..b /\ r[j] = t[j - a] /\ r[k] = t[k - a]
      BY <1>1, <2>2
    <3>2. k - a = j - a
      BY <1>4, <1>7, <3>1
    <3> QED
      BY <1>1, <3>2
  <2>3. CASE j \in 1..a /\ k \notin 1..a
    <3>1. k - a \in 1..b /\ r[k] = t[k - a] /\ r[j] = s[j]
      BY <1>1, <2>3
    <3> QED
      BY <1>3, <1>4, <2>3, <3>1
  <2>4. CASE j \notin 1..a /\ k \in 1..a
    <3>1. j - a \in 1..b /\ r[j] = t[j - a] /\ r[k] = s[k]
      BY <1>1, <2>4
    <3> QED
      BY <1>3, <1>4, <2>4, <3>1
  <2> QED
    BY <2>1, <2>2, <2>3, <2>4
<1>5. ASSUME NEW j \in 1 .. a + b, NEW i \in DOMAIN r[j].inputs
      PROVE  r[j].inputs[i] \in E \/ \E k \in 1 .. j - 1 : r[k].output = r[j].inputs[i]
  <2>1. CASE j \in 1..a
    <3>1. s[j].inputs[i] \in E \/ \E k \in 1 .. j - 1 : s[k].output = s[j].inputs[i]
      BY <1>1, <2>1 DEF Runs
    <3>2. \A k \in 1 .. j - 1 : r[k] = s[k]
      BY <1>1, <2>1
    <3> QED
      BY <1>1, <2>1, <3>1, <3>2
  <2>2. CASE j \notin 1..a
    <3>1. j - a \in 1..b /\ r[j] = t[j - a]
      BY <1>1, <2>2
    <3>2. \/ r[j].inputs[i] \in E \cup Outs(s)
          \/ \E k \in 1 .. (j - a) - 1 : t[k].output = r[j].inputs[i]
      BY <1>1, <3>1 DEF Runs
    <3>3. CASE r[j].inputs[i] \in E
      BY <3>3
    <3>4. CASE r[j].inputs[i] \in Outs(s)
      <4>1. PICK k \in 1..a : s[k].output = r[j].inputs[i]
        BY <1>1, <3>4 DEF Outs
      <4>2. k \in 1 .. j - 1 /\ r[k] = s[k]
        BY <1>1, <2>2
      <4> QED
        BY <4>1, <4>2
    <3>5. CASE \E k \in 1 .. (j - a) - 1 : t[k].output = r[j].inputs[i]
      <4>1. PICK k \in 1 .. (j - a) - 1 : t[k].output = r[j].inputs[i]
        BY <3>5
      <4>2. a + k \in 1 .. j - 1 /\ r[a + k] = t[k]
        BY <1>1, <3>1
      <4> QED
        BY <4>1, <4>2
    <3> QED
      BY <3>2, <3>3, <3>4, <3>5
  <2> QED
    BY <2>1, <2>2
<1>6. Runs(r, E)
  BY <1>1, <1>4, <1>5 DEF Runs
<1> QED
  BY <1>2, <1>6 DEF r

-----------------------------------------------------------------------------
(* Nodes run in the order they are appended *)

GivenIds(fun) == {<<m, 0>> : m \in {m \in 1 .. Len(fun) : fun[m].kind \in {"param", "const"}}}

\* The values there are where the variables vs are in scope.
Known(fun, vs) == GivenIds(fun) \cup {ValueOf(fun)[v] : v \in vs}

\* What is appended for expression n runs where its variables are in scope, has
\* results for expressions below n only, and gives n its value.
Emits(fun, env, e, n) ==
    /\ Runs(e[n], Known(fun, env[n]))
    /\ \A o \in Outs(e[n]) : o[1] \in Under(fun, n)
    /\ fun[n].kind # "var" => ValueOf(fun)[n] \in Known(fun, env[n]) \cup Outs(e[n])
    /\ fun[n].kind \in Leaves => e[n] = <<>>

\* What the node of an expression reads and writes.
LEMMA OwnNodeFields ==
    ASSUME NEW c, NEW fun, NEW n
    PROVE  /\ OwnNode(c, fun, n).inputs = Inputs(fun, n)
           /\ OwnNode(c, fun, n).output = <<n, 0>>
<1>1. /\ Kernel(c, fun, n).inputs = Inputs(fun, n) /\ Kernel(c, fun, n).output = <<n, 0>>
  BY DEF Kernel
<1>2. /\ Communication(c, fun, n).inputs = Inputs(fun, n)
      /\ Communication(c, fun, n).output = <<n, 0>>
  BY DEF Communication, CommExec
<1> QED
  BY <1>1, <1>2 DEF OwnNode

\* What a copy reads and writes.
LEMMA CopyFields ==
    ASSUME NEW c, NEW fun, NEW n, NEW i
    PROVE  /\ InsertedCopy(c, fun, n, i).inputs = <<ValueOf(fun)[fun[n].args[i]]>>
           /\ InsertedCopy(c, fun, n, i).output = <<n, i>>
  BY DEF InsertedCopy, CommExec

\* What is known to an argument of a call is known to the call.
LEMMA ArgumentScope ==
    ASSUME NEW fun \in Functions, NEW env, IsScoped(fun, env),
           NEW n \in 1 .. Len(fun), fun[n].kind \notin Leaves \cup {"let"},
           NEW i \in 1 .. Len(fun[n].args)
    PROVE  /\ Known(fun, env[fun[n].args[i]]) \subseteq Known(fun, env[n])
           /\ fun[fun[n].args[i]].kind = "var" =>
                 ValueOf(fun)[fun[n].args[i]] \in Known(fun, env[n])
<1>1. DOMAIN fun = 1 .. Len(fun)
  BY FunctionsAssumption
<1>2. i \in DOMAIN Children(fun[n]) /\ Children(fun[n])[i] = fun[n].args[i]
  BY ChildrenAre
<1>3. ScopeOf(fun, env, n, i) = env[n]
  BY DEF ScopeOf
<1>4. /\ env[fun[n].args[i]] \subseteq env[n]
      /\ fun[fun[n].args[i]].kind = "var" => fun[n].args[i] \in env[n]
  BY <1>1, <1>2, <1>3 DEF IsScoped
<1> QED
  BY <1>4 DEF Known

\* What is known to the value and to the body of a let.
LEMMA LetScope ==
    ASSUME NEW fun \in Functions, NEW env, IsScoped(fun, env),
           NEW n \in 1 .. Len(fun), fun[n].kind = "let"
    PROVE  LET a == fun[n].args
           IN  /\ Known(fun, env[a[2]]) \subseteq Known(fun, env[n])
               /\ fun[a[2]].kind = "var" => ValueOf(fun)[a[2]] \in Known(fun, env[n])
               /\ Known(fun, env[a[3]]) \subseteq Known(fun, env[n]) \cup {ValueOf(fun)[a[2]]}
               /\ fun[a[3]].kind = "var" =>
                     ValueOf(fun)[a[3]] \in Known(fun, env[n]) \cup {ValueOf(fun)[a[2]]}
<1> DEFINE a == fun[n].args
           v == ValueOf(fun)
<1>1. DOMAIN fun = 1 .. Len(fun)
  BY FunctionsAssumption
<1>2. /\ Len(a) = 3 /\ fun[a[1]].kind = "var" /\ fun[a[1]].args[1] = a[2]
      /\ a[1] \in 1 .. Len(fun)
  BY ArgsBefore
<1>3. fun[n].kind \notin Leaves
  BY DEF Leaves
<1>4. /\ 2 \in DOMAIN Children(fun[n]) /\ Children(fun[n])[2] = a[2]
      /\ 3 \in DOMAIN Children(fun[n]) /\ Children(fun[n])[3] = a[3]
  BY <1>2, <1>3, ChildrenAre
<1>5. ScopeOf(fun, env, n, 2) = env[n] /\ ScopeOf(fun, env, n, 3) = env[n] \cup {a[1]}
  BY DEF ScopeOf
<1>6. /\ env[a[2]] \subseteq env[n] /\ (fun[a[2]].kind = "var" => a[2] \in env[n])
      /\ env[a[3]] \subseteq env[n] \cup {a[1]}
      /\ fun[a[3]].kind = "var" => a[3] \in env[n] \cup {a[1]}
  BY <1>1, <1>4, <1>5 DEF IsScoped
<1>7. v[a[1]] = v[a[2]]
  <2>1. v[a[1]] = ValueAt(fun, v, a[1])
    BY <1>2, ValueIs
  <2>2. ValueAt(fun, v, a[1]) = v[fun[a[1]].args[1]]
    BY <1>2 DEF ValueAt
  <2> QED
    BY <1>2, <2>1, <2>2
<1> HIDE DEF a, v
<1>8. /\ Known(fun, env[a[2]]) \subseteq Known(fun, env[n])
      /\ fun[a[2]].kind = "var" => v[a[2]] \in Known(fun, env[n])
      /\ Known(fun, env[a[3]]) \subseteq Known(fun, env[n]) \cup {v[a[2]]}
      /\ fun[a[3]].kind = "var" => v[a[3]] \in Known(fun, env[n]) \cup {v[a[2]]}
  BY <1>6, <1>7 DEF Known, v
<1> QED
  BY <1>8 DEF a, v

\* An argument and its copy.
LEMMA ArgumentRuns ==
    ASSUME NEW c, NEW fun \in Functions, NEW env, IsScoped(fun, env),
           NEW e, IsEmit(e, c, fun), NEW n \in 1 .. Len(fun), fun[n].kind \notin Leaves \cup {"let"},
           NEW i \in 1 .. Len(fun[n].args), Emits(fun, env, e, fun[n].args[i])
    PROVE  LET s == ArgumentAt(c, fun, e, n, i)
           IN  /\ Runs(s, Known(fun, env[n]))
               /\ \A o \in Outs(s) : \/ o = <<n, i>>
                                     \/ /\ o[1] \in Under(fun, fun[n].args[i])
                                        /\ fun[fun[n].args[i]].kind \notin Leaves
               /\ InputOf(fun, n, i) \in Known(fun, env[n]) \cup Outs(s)
<1> DEFINE a == fun[n].args[i]
           K == Known(fun, env[n])
           P == PlanNodes(c, fun)
           s == ArgumentAt(c, fun, e, n, i)
           v == ValueOf(fun)[a]
           copy == InsertedCopy(c, fun, n, i)
<1>1. a \in 1 .. n - 1 /\ a \in 1 .. Len(fun) /\ i \in Nat
  BY ArgsBefore
<1>2. e[a] \in Seq(P) /\ (NeedsCopy(fun, n, i) => copy \in P)
  BY <1>1, PlanNodesAre DEF IsEmit
<1>3. Known(fun, env[a]) \subseteq K /\ (fun[a].kind = "var" => v \in K)
  BY ArgumentScope
<1>4. /\ Runs(e[a], Known(fun, env[a])) /\ \A o \in Outs(e[a]) : o[1] \in Under(fun, a)
      /\ fun[a].kind # "var" => v \in Known(fun, env[a]) \cup Outs(e[a])
      /\ fun[a].kind \in Leaves => e[a] = <<>>
  BY DEF Emits
<1>5. copy.inputs = <<v>> /\ copy.output = <<n, i>>
  BY CopyFields
<1>6. s = e[a] \o IF NeedsCopy(fun, n, i) THEN <<copy>> ELSE <<>>
  BY DEF ArgumentAt
<1>7. InputOf(fun, n, i) = IF NeedsCopy(fun, n, i) THEN <<n, i>> ELSE v
  BY DEF InputOf
<1>8. Under(fun, a) \subseteq 1..a
  BY <1>1, UnderClosed
<1> HIDE DEF a, K, P, s, v, copy
<1>9. Runs(e[a], K) /\ v \in K \cup Outs(e[a])
  BY <1>3, <1>4, RunsWeaker
<1>10. \A o \in Outs(e[a]) : o[1] \in Under(fun, a) /\ fun[a].kind \notin Leaves /\ o[1] # n
  <2>1. fun[a].kind \in Leaves => Outs(e[a]) = {}
    BY <1>4, RunsNone
  <2>2. \A x \in Under(fun, a) : x # n
    BY <1>1, <1>8
  <2> QED
    BY <1>4, <2>1, <2>2
<1>11. CASE ~NeedsCopy(fun, n, i)
  <2>1. s = e[a]
    BY <1>2, <1>6, <1>11
  <2> QED
    BY <1>7, <1>9, <1>10, <1>11, <2>1 DEF a, K, s
<1>12. CASE NeedsCopy(fun, n, i)
  <2>1. s = e[a] \o <<copy>> /\ <<copy>> \in Seq(P)
    BY <1>2, <1>6, <1>12
  <2>2. Runs(<<copy>>, K \cup Outs(e[a])) /\ Outs(<<copy>>) = {<<n, i>>}
    <3>1. \A j \in DOMAIN copy.inputs : copy.inputs[j] \in K \cup Outs(e[a])
      BY <1>5, <1>9
    <3> QED
      BY <1>5, <3>1, RunsOne
  <2>3. Outs(e[a]) \cap Outs(<<copy>>) = {}
    <3>1. <<n, i>>[1] = n
      OBVIOUS
    <3> QED
      BY <1>10, <2>2, <3>1
  <2>4. Runs(s, K) /\ Outs(s) = Outs(e[a]) \cup {<<n, i>>}
    <3> DEFINE x == e[a]
               y == <<copy>>
    <3>1. x \in Seq(P) /\ y \in Seq(P) /\ Runs(x, K) /\ Runs(y, K \cup Outs(x))
          /\ Outs(x) \cap Outs(y) = {}
      BY <1>2, <1>9, <2>1, <2>2, <2>3
    <3> HIDE DEF x, y
    <3>2. Runs(x \o y, K) /\ Outs(x \o y) = Outs(x) \cup Outs(y)
      BY <3>1, RunsJoined
    <3> QED
      BY <2>1, <2>2, <3>2 DEF x, y
  <2> QED
    BY <1>7, <1>10, <1>12, <2>4 DEF a, K, s
<1> QED
  BY <1>11, <1>12

\* The results of the first k arguments of n and of their copies.
From(fun, n, k, o) ==
    \/ \E j \in 1..k : o = <<n, j>>
    \/ \E j \in 1..k : /\ o[1] \in Under(fun, fun[n].args[j])
                       /\ fun[fun[n].args[j]].kind \notin Leaves

\* Arguments do not write each other's results.
LEMMA ArgumentsApart ==
    ASSUME NEW fun \in Functions, NEW n \in 1 .. Len(fun), fun[n].kind \notin Leaves,
           NEW k \in Nat, k + 1 \in 1 .. Len(fun[n].args), NEW o, From(fun, n, k, o)
    PROVE  /\ o # <<n, k + 1>>
           /\ ~(/\ o[1] \in Under(fun, fun[n].args[k + 1])
                /\ fun[fun[n].args[k + 1]].kind \notin Leaves)
<1> DEFINE a == fun[n].args
<1>1. ASSUME NEW j \in 1 .. Len(a)
      PROVE  /\ j \in DOMAIN Children(fun[n]) /\ Children(fun[n])[j] = a[j] /\ a[j] \in 1 .. Len(fun)
             /\ n \notin Under(fun, a[j])
  <2>1. j \in DOMAIN Children(fun[n]) /\ Children(fun[n])[j] = a[j]
    BY ChildrenAre
  <2>2. a[j] \in 1 .. n - 1 /\ a[j] \in 1 .. Len(fun)
    BY ArgsBefore
  <2>3. Under(fun, a[j]) \subseteq 1 .. a[j]
    BY <2>2, UnderClosed
  <2> HIDE DEF a
  <2> QED
    BY <2>1, <2>2, <2>3
<1>2. \A j \in 1..k : j \in 1 .. Len(a) /\ j # k + 1
  <2>1. Len(a) \in Nat
    BY ArgsBefore
  <2> HIDE DEF a
  <2>2. k + 1 \in 1 .. Len(a)
    BY DEF a
  <2> QED
    BY <2>1, <2>2
<1>3. CASE \E j \in 1..k : o = <<n, j>>
  <2>1. PICK j \in 1..k : o = <<n, j>>
    BY <1>3
  <2>2. o[1] = n /\ o[2] = j /\ <<n, k + 1>>[2] = k + 1
    BY <2>1
  <2> QED
    BY <1>1, <1>2, <2>2
<1>4. CASE \E j \in 1..k : o[1] \in Under(fun, a[j]) /\ fun[a[j]].kind \notin Leaves
  <2>1. PICK j \in 1..k : o[1] \in Under(fun, a[j]) /\ fun[a[j]].kind \notin Leaves
    BY <1>4
  <2>2. o # <<n, k + 1>>
    <3>1. <<n, k + 1>>[1] = n
      OBVIOUS
    <3> QED
      BY <1>1, <1>2, <2>1, <3>1
  <2>3. ASSUME fun[a[k + 1]].kind \notin Leaves
        PROVE  Under(fun, a[j]) \cap Under(fun, a[k + 1]) = {}
    <3> DEFINE l == k + 1
    <3>1. j \in DOMAIN Children(fun[n]) /\ l \in DOMAIN Children(fun[n]) /\ j # l
      BY <1>1, <1>2
    <3>2. Children(fun[n])[j] = a[j] /\ Children(fun[n])[l] = a[l]
      BY <1>1, <1>2
    <3> HIDE DEF l
    <3>3. Under(fun, a[j]) \cap Under(fun, a[l]) = {}
      BY <2>1, <2>3, <3>1, <3>2, UnderApart DEF l
    <3> QED
      BY <3>3 DEF l
  <2> QED
    BY <2>1, <2>2, <2>3
<1> QED
  BY <1>3, <1>4 DEF From

\* All the arguments of a call, one after the other.
LEMMA ArgumentsRun ==
    ASSUME NEW c, NEW fun \in Functions, NEW env, IsScoped(fun, env),
           NEW e, IsEmit(e, c, fun), NEW n \in 1 .. Len(fun), fun[n].kind \notin Leaves \cup {"let"},
           \A m \in 1 .. n - 1 : Emits(fun, env, e, m)
    PROVE  LET s == ArgumentsAt(c, fun, e, n)
           IN  /\ Runs(s, Known(fun, env[n]))
               /\ \A o \in Outs(s) : From(fun, n, Len(fun[n].args), o)
               /\ \A i \in 1 .. Len(fun[n].args) :
                     InputOf(fun, n, i) \in Known(fun, env[n]) \cup Outs(s)
<1> DEFINE L == Len(fun[n].args)
           K == Known(fun, env[n])
           P == PlanNodes(c, fun)
           seqs == [i \in DOMAIN fun[n].args |-> ArgumentAt(c, fun, e, n, i)]
           Good(s, k) == /\ s \in Seq(P) /\ Runs(s, K)
                         /\ \A o \in Outs(s) : From(fun, n, k, o)
                         /\ \A i \in 1..k : InputOf(fun, n, i) \in K \cup Outs(s)
<1>1. L \in Nat /\ DOMAIN fun[n].args = 1..L
  BY ArgsBefore
<1>2. ASSUME NEW i \in 1..L
      PROVE  /\ seqs[i] \in Seq(P) /\ Runs(seqs[i], K)
             /\ \A o \in Outs(seqs[i]) : \/ o = <<n, i>>
                                         \/ /\ o[1] \in Under(fun, fun[n].args[i])
                                            /\ fun[fun[n].args[i]].kind \notin Leaves
             /\ InputOf(fun, n, i) \in K \cup Outs(seqs[i])
  <2>1. seqs[i] = ArgumentAt(c, fun, e, n, i)
    BY <1>1
  <2>2. fun[n].args[i] \in 1 .. n - 1
    BY ArgsBefore
  <2>3. Emits(fun, env, e, fun[n].args[i])
    BY <2>2
  <2>4. \A m \in 1 .. n - 1 : e[m] \in Seq(P)
    <3>1. \A m \in 1 .. n - 1 : m \in 1 .. Len(fun)
      BY FunctionsAssumption
    <3> QED
      BY <3>1 DEF IsEmit
  <2>5. seqs[i] \in Seq(P)
    BY <2>1, <2>4, ArgumentType
  <2> HIDE DEF seqs
  <2> QED
    BY <2>1, <2>3, <2>5, ArgumentRuns
<1>3. Len(seqs) = L /\ ArgumentsAt(c, fun, e, n) = FlattenSeq(seqs)
  BY <1>1 DEF ArgumentsAt
<1> HIDE DEF seqs, P, K, L
<1>4. ASSUME NEW k \in Nat, k + 1 \in 1..L, NEW s, Good(s, k) PROVE Good(s \o seqs[k + 1], k + 1)
  <2> DEFINE t == seqs[k + 1]
  <2>0. \A j \in 1..k : j \in 1 .. k + 1
    OBVIOUS
  <2>1. /\ t \in Seq(P) /\ Runs(t, K) /\ s \in Seq(P) /\ Runs(s, K)
        /\ InputOf(fun, n, k + 1) \in K \cup Outs(t)
    BY <1>2, <1>4
  <2>2. \A o \in Outs(t) : \/ o = <<n, k + 1>>
                           \/ /\ o[1] \in Under(fun, fun[n].args[k + 1])
                              /\ fun[fun[n].args[k + 1]].kind \notin Leaves
    BY <1>2, <1>4
  <2> HIDE DEF t
  <2>3. Outs(s) \cap Outs(t) = {}
    <3>1. \A o \in Outs(s) :
             /\ o # <<n, k + 1>>
             /\ ~(/\ o[1] \in Under(fun, fun[n].args[k + 1])
                  /\ fun[fun[n].args[k + 1]].kind \notin Leaves)
      BY <1>4, ArgumentsApart DEF L
    <3> QED
      BY <2>2, <3>1
  <2>4. Runs(t, K \cup Outs(s))
    <3>1. K \subseteq K \cup Outs(s)
      OBVIOUS
    <3> QED
      BY <2>1, <3>1, RunsWeaker
  <2>5. Runs(s \o t, K) /\ Outs(s \o t) = Outs(s) \cup Outs(t)
    BY <2>1, <2>3, <2>4, RunsJoined
  <2>6. s \o t \in Seq(P)
    BY <2>1
  <2>7. \A o \in Outs(s \o t) : From(fun, n, k + 1, o)
    <3>1. \A o \in Outs(s) : From(fun, n, k + 1, o)
      BY <1>4, <2>0 DEF From
    <3>2. k + 1 \in 1 .. k + 1
      OBVIOUS
    <3>3. \A o \in Outs(t) : From(fun, n, k + 1, o)
      BY <2>2, <3>2 DEF From
    <3> QED
      BY <2>5, <3>1, <3>3
  <2>8. \A i \in 1 .. k + 1 : InputOf(fun, n, i) \in K \cup Outs(s \o t)
    <3>1. \A i \in 1 .. k + 1 : i \in 1..k \/ i = k + 1
      OBVIOUS
    <3> QED
      BY <1>4, <2>1, <2>5, <3>1
  <2> QED
    BY <2>5, <2>6, <2>7, <2>8 DEF t
<1>5. Good(<<>>, 0)
  BY RunsNone
<1> HIDE DEF Good
<1>6. Good(FlattenSeq(seqs), L)
  <2>1. CASE L = 0
    <3>1. FlattenSeq(seqs) = <<>>
      <4>1. seqs = <<>>
        BY <1>1, <1>3, <2>1 DEF seqs, L
      <4> QED
        BY <1>3, <2>1, <4>1 DEF FlattenSeq
    <3> QED
      BY <1>5, <2>1, <3>1
  <2>2. CASE L # 0
    <3>0. Len(seqs) \in Nat \ {0} /\ L \in Nat \ {0}
      BY <1>1, <1>3, <2>2
    <3>1. PICK f : IsFlatten(f, seqs, L) /\ FlattenSeq(seqs) = f[L]
      BY <1>3, <3>0, FlattenSeqIs
    <3> DEFINE S == {k \in 1..L : Good(f[k], k)}
    <3>2. ASSUME NEW k \in Nat, k + 1 \in 1..L PROVE (k = 0 \/ k \in S) => k + 1 \in S
      <4>1. f[k + 1] = IF k = 0 THEN seqs[k + 1] ELSE f[k] \o seqs[k + 1]
        BY <3>0, <3>1, <3>2, FlattenStep
      <4>2. CASE k = 0
        <5>1. Good(<<>> \o seqs[k + 1], k + 1)
          BY <1>4, <1>5, <3>2, <4>2
        <5>2. <<>> \o seqs[k + 1] = seqs[k + 1]
          BY <1>2, <3>2
        <5> QED
          BY <3>2, <4>1, <4>2, <5>1, <5>2
      <4>3. CASE k # 0
        BY <1>4, <3>2, <4>1, <4>3
      <4> QED
        BY <4>2, <4>3
    <3>3. ASSUME NEW k \in 1..L, \A m \in 1 .. k - 1 : m \in S PROVE k \in S
      <4>1. k - 1 \in Nat /\ (k - 1) + 1 = k /\ (k - 1 = 0 \/ k - 1 \in 1 .. k - 1)
        OBVIOUS
      <4> HIDE DEF S
      <4>2. k - 1 = 0 \/ k - 1 \in S
        BY <3>3, <4>1
      <4> QED
        BY <3>2, <4>1, <4>2
    <3> HIDE DEF S
    <3>4. 1..L \subseteq S
      BY <1>1, <3>3, UpTo
    <3> QED
      BY <3>0, <3>1, <3>4 DEF S
  <2> QED
    BY <2>1, <2>2
<1> QED
  BY <1>3, <1>6 DEF Good, K, L

\* What is appended for any expression of a function runs.
LEMMA EmitsAll ==
    ASSUME NEW c, NEW fun \in Functions, NEW env, IsScoped(fun, env), NEW e, IsEmit(e, c, fun)
    PROVE  \A n \in 1 .. Len(fun) : Emits(fun, env, e, n)
<1> DEFINE N == Len(fun)
           S == {n \in 1..N : Emits(fun, env, e, n)}
           P == PlanNodes(c, fun)
<1>0. N \in Nat /\ DOMAIN fun = 1..N
  BY FunctionsAssumption
<1>1. ASSUME NEW n \in 1..N, \A m \in 1 .. n - 1 : m \in S PROVE n \in S
  <2> DEFINE K == Known(fun, env[n])
             a == fun[n].args
             v == ValueOf(fun)
  <2>1. \A m \in 1 .. n - 1 : Emits(fun, env, e, m)
    BY <1>1
  <2>2. e[n] = EmittedAt(c, fun, e, n) /\ \A m \in 1..N : e[m] \in Seq(P)
    BY DEF IsEmit
  <2>3. v[n] = ValueAt(fun, v, n)
    BY ValueIs
  <2>4. SUFFICES Emits(fun, env, e, n)
    OBVIOUS
  <2>5. CASE fun[n].kind \in Leaves
    <3>1. e[n] = <<>>
      BY <2>2, <2>5, EmittedForms
    <3>2. fun[n].kind # "var" => v[n] = <<n, 0>> /\ fun[n].kind \in {"param", "const"}
      BY <2>3, <2>5 DEF ValueAt, Leaves
    <3>3. fun[n].kind # "var" => v[n] \in K
      BY <3>2 DEF Known, GivenIds
    <3> QED
      BY <3>1, <3>3, RunsNone DEF Emits
  <2>6. CASE fun[n].kind = "let"
    <3>1. /\ Len(a) = 3 /\ a[2] \in 1 .. n - 1 /\ a[3] \in 1 .. n - 1
          /\ a[2] \in 1..N /\ a[3] \in 1..N
      BY <2>6, ArgsBefore
    <3>2. Emits(fun, env, e, a[2]) /\ Emits(fun, env, e, a[3])
      BY <2>1, <3>1
    <3>3. /\ Known(fun, env[a[2]]) \subseteq K
          /\ fun[a[2]].kind = "var" => v[a[2]] \in K
          /\ Known(fun, env[a[3]]) \subseteq K \cup {v[a[2]]}
          /\ fun[a[3]].kind = "var" => v[a[3]] \in K \cup {v[a[2]]}
      BY <2>6, LetScope
    <3> DEFINE x == e[a[2]]
               y == e[a[3]]
    <3>4. e[n] = x \o y /\ x \in Seq(P) /\ y \in Seq(P)
      <4>1. EmittedAt(c, fun, e, n) = x \o y
        BY <2>6, EmittedForms, Zenon
      <4> HIDE DEF P
      <4>2. x \in Seq(P) /\ y \in Seq(P)
        BY <2>2, <3>1
      <4> QED
        BY <2>2, <4>1, <4>2
    <3>5. Runs(x, K) /\ v[a[2]] \in K \cup Outs(x)
      <4>0. /\ Runs(x, Known(fun, env[a[2]]))
            /\ fun[a[2]].kind # "var" => v[a[2]] \in Known(fun, env[a[2]]) \cup Outs(x)
        BY <3>2 DEF Emits
      <4> HIDE DEF K, x, y, v, a
      <4> QED
        BY <3>3, <4>0, RunsWeaker
    <3>6. Runs(y, K \cup Outs(x)) /\ v[a[3]] \in (K \cup Outs(x)) \cup Outs(y)
      <4>0. /\ Runs(y, Known(fun, env[a[3]]))
            /\ fun[a[3]].kind # "var" => v[a[3]] \in Known(fun, env[a[3]]) \cup Outs(y)
        BY <3>2 DEF Emits
      <4> HIDE DEF K, x, y, v, a
      <4>1. Known(fun, env[a[3]]) \subseteq K \cup Outs(x)
        BY <3>3, <3>5
      <4> QED
        BY <3>3, <3>5, <4>0, <4>1, RunsWeaker
    <3>7. fun[n].kind \notin Leaves /\ v[n] = v[a[3]]
      BY <2>3, <2>6 DEF Leaves, ValueAt
    <3>8. /\ \A o \in Outs(x) : o[1] \in Under(fun, a[2]) /\ fun[a[2]].kind \notin Leaves
          /\ \A o \in Outs(y) : o[1] \in Under(fun, a[3]) /\ fun[a[3]].kind \notin Leaves
      BY <3>2, RunsNone DEF Emits
    <3>9. /\ 2 \in DOMAIN Children(fun[n]) /\ Children(fun[n])[2] = a[2]
          /\ 3 \in DOMAIN Children(fun[n]) /\ Children(fun[n])[3] = a[3]
      BY <3>1, <3>7, ChildrenAre
    <3>10. Outs(x) \cap Outs(y) = {}
      <4>1. ASSUME NEW o, o \in Outs(x), o \in Outs(y) PROVE FALSE
        <5>0. fun[a[2]].kind \notin Leaves /\ fun[a[3]].kind \notin Leaves /\ 2 # 3
          BY <3>8, <4>1
        <5>1. Under(fun, Children(fun[n])[2]) \cap Under(fun, Children(fun[n])[3]) = {}
          <6> HIDE DEF a, x, y, K, v
          <6> QED
            BY <3>9, <5>0, UnderApart
        <5> QED
          BY <3>8, <3>9, <4>1, <5>1
      <4> QED
        BY <4>1
    <3>11. \A o \in Outs(x) \cup Outs(y) : o[1] \in Under(fun, n)
      <4>1. fun[a[2]].kind \notin Leaves => Under(fun, a[2]) \subseteq Under(fun, n)
        BY <3>9, UnderChild
      <4>2. fun[a[3]].kind \notin Leaves => Under(fun, a[3]) \subseteq Under(fun, n)
        BY <3>9, UnderChild
      <4> QED
        BY <3>8, <4>1, <4>2
    <3> HIDE DEF x, y, K, a, v
    <3>12. Runs(x \o y, K) /\ Outs(x \o y) = Outs(x) \cup Outs(y)
      BY <3>4, <3>5, <3>6, <3>10, RunsJoined
    <3> QED
      BY <3>4, <3>6, <3>7, <3>11, <3>12 DEF Emits, K, v
  <2>7. CASE fun[n].kind \notin Leaves \cup {"let"}
    <3> DEFINE s == ArgumentsAt(c, fun, e, n)
               node == OwnNode(c, fun, n)
               L == Len(a)
    <3>1. e[n] = s \o <<node>>
      BY <2>2, <2>7, EmittedForms
    <3>2. /\ Runs(s, K) /\ \A o \in Outs(s) : From(fun, n, L, o)
          /\ \A i \in 1..L : InputOf(fun, n, i) \in K \cup Outs(s)
      BY <2>1, <2>7, ArgumentsRun
    <3>3. s \in Seq(P) /\ node \in P
      <4>1. \A m \in 1 .. n - 1 : e[m] \in Seq(P)
        BY <1>0, <2>2
      <4> QED
        BY <2>7, <4>1, EmittedType, PlanNodesAre
    <3>4. node.inputs = Inputs(fun, n) /\ node.output = <<n, 0>>
      BY OwnNodeFields
    <3>5. L \in Nat /\ DOMAIN a = 1..L /\ \A j \in 1..L : a[j] \in 1 .. n - 1 /\ a[j] \in 1..N
      BY ArgsBefore
    <3>6. \A j \in DOMAIN node.inputs : node.inputs[j] \in K \cup Outs(s)
      <4>1. DOMAIN Inputs(fun, n) = 1..L /\ \A j \in 1..L : Inputs(fun, n)[j] = InputOf(fun, n, j)
        BY <3>5 DEF Inputs
      <4> QED
        BY <3>2, <3>4, <4>1
    <3>7. fun[n].kind # "var" /\ v[n] = <<n, 0>>
      BY <2>3, <2>7 DEF ValueAt, Leaves
    <3>8. ASSUME NEW j \in 1..L, fun[a[j]].kind \notin Leaves
          PROVE  Under(fun, a[j]) \subseteq Under(fun, n) /\ n \notin Under(fun, a[j])
      <4>1. j \in DOMAIN Children(fun[n]) /\ Children(fun[n])[j] = a[j]
        BY <2>7, ChildrenAre
      <4>2. Under(fun, a[j]) \subseteq 1 .. a[j]
        BY <3>5, UnderClosed
      <4>3. n \notin 1 .. a[j]
        BY <3>5
      <4> QED
        BY <3>8, <4>1, <4>2, <4>3, UnderChild
    <3>9. n \in Under(fun, n)
      BY UnderClosed
    <3>10. \A o \in Outs(s) : o[1] \in Under(fun, n) /\ o # <<n, 0>>
      <4> SUFFICES ASSUME NEW o \in Outs(s) PROVE o[1] \in Under(fun, n) /\ o # <<n, 0>>
        OBVIOUS
      <4>1. CASE \E j \in 1..L : o = <<n, j>>
        <5>1. PICK j \in 1..L : o = <<n, j>>
          BY <4>1
        <5>2. o[1] = n /\ o[2] = j /\ j # 0 /\ <<n, 0>>[2] = 0
          BY <5>1
        <5> QED
          BY <3>9, <5>2
      <4>2. CASE \E j \in 1..L : o[1] \in Under(fun, a[j]) /\ fun[a[j]].kind \notin Leaves
        <5>1. <<n, 0>>[1] = n
          OBVIOUS
        <5> QED
          BY <3>8, <4>2, <5>1
      <4> QED
        BY <3>2, <4>1, <4>2 DEF From
    <3> HIDE DEF s, node, K, a, v, L
    <3>11. Runs(<<node>>, K \cup Outs(s)) /\ Outs(<<node>>) = {<<n, 0>>}
      BY <3>4, <3>6, RunsOne
    <3>12. Outs(s) \cap Outs(<<node>>) = {} /\ <<node>> \in Seq(P)
      BY <3>3, <3>10, <3>11
    <3> DEFINE t == <<node>>
    <3> HIDE DEF t
    <3>13. Runs(s \o t, K) /\ Outs(s \o t) = Outs(s) \cup Outs(t)
      <4>1. Runs(t, K \cup Outs(s)) /\ Outs(s) \cap Outs(t) = {} /\ t \in Seq(P)
        BY <3>11, <3>12 DEF t
      <4> QED
        BY <3>2, <3>3, <4>1, RunsJoined
    <3>14. Outs(e[n]) = Outs(s) \cup {<<n, 0>>} /\ Runs(e[n], K)
      BY <3>1, <3>11, <3>13 DEF t
    <3>15. \A o \in Outs(e[n]) : o[1] \in Under(fun, n)
      <4>1. <<n, 0>>[1] = n
        OBVIOUS
      <4> QED
        BY <3>9, <3>10, <3>14, <4>1
    <3> QED
      BY <2>7, <3>7, <3>14, <3>15 DEF Emits, K, v
  <2> QED
    BY <2>5, <2>6, <2>7
<1> HIDE DEF S
<1>2. 1..N \subseteq S
  BY <1>0, <1>1, UpTo
<1> QED
  BY <1>2 DEF S

\* The nodes the builder appends read only the function's inputs and results of
\* earlier nodes, and no two write the same value.
LEMMA NodesRun ==
    ASSUME NEW c, NEW fun \in Functions
    PROVE  Runs(Nodes(c, fun), GivenIds(fun))
<1>1. Len(fun) \in Nat \ {0}
  BY FunctionsAssumption
<1>2. PICK env : IsScoped(fun, env)
  BY TreeAssumption DEF WellFormed
<1>3. PICK e : IsEmit(e, c, fun) /\ Nodes(c, fun) = e[Len(fun)]
  BY NodesAre
<1>4. Emits(fun, env, e, Len(fun))
  BY <1>1, <1>2, <1>3, EmitsAll
<1>5. Known(fun, env[Len(fun)]) = GivenIds(fun)
  BY <1>2 DEF IsScoped, Known
<1> QED
  BY <1>3, <1>4, <1>5 DEF Emits

-----------------------------------------------------------------------------
(* The JSON form *)

\* A virtual device or none.
AnyVD == VirtualDevices \cup {NoVD}

\* A device that is written is read back, and what is written may be null.
LEMMA DeviceSurvives ==
    ASSUME NEW d \in Int
    PROVE  /\ WriteDeviceObj(d) \in DeviceObjs \cup {Null}
           /\ ParseDeviceObj(WriteDeviceObj(d)) = d
           /\ WriteTargetObj(d) \in DeviceObjs \cup {Null}
           /\ ParseTargetObj(WriteTargetObj(d)) = d
<1>1. [device_id |-> d] \in DeviceObjs
  BY DEF DeviceObjs
<1>2. [device_id |-> d] # Null /\ d # Null
  BY <1>1, JsonAssumption
<1>3. "device_id" \in DOMAIN [device_id |-> d] /\ [device_id |-> d].device_id = d
  OBVIOUS
<1> QED
  BY <1>1, <1>2, <1>3
     DEF WriteDeviceObj, ParseDeviceObj, WriteTargetObj, ParseTargetObj, Field, None

\* A field that is there is found, null or not.
LEMMA LookupIs ==
    ASSUME NEW j, NEW key, key \in DOMAIN j
    PROVE  Lookup(j, key) = j[key] /\ \A d : j[key] # Null => Field(j, key, d) = j[key]
  BY DEF Lookup, Field

\* A virtual device that is written is read back, its id as well.
LEMMA VDSurvives ==
    ASSUME NEW vd \in AnyVD
    PROVE  WriteVD(vd) \in VDObjs \cup {Null} /\ ParseVD(WriteVD(vd)) = vd
           /\ (vd # NoVD => WriteVD(vd) # Null)
<1>1. CASE vd = NoVD
  BY <1>1 DEF WriteVD, ParseVD
<1>2. CASE vd # NoVD
  <2> DEFINE j == WriteVD(vd)
  <2>1. /\ vd.dev \in Int /\ vd.target \in Int /\ vd.scope \in STRING /\ vd.id \in Int
        /\ vd = VirtualDevice(vd.dev, vd.target, vd.scope, vd.id)
    BY <1>2 DEF AnyVD, VirtualDevices
  <2>2. j = [virtual_device_id |-> vd.id, memory_scope |-> vd.scope,
             device |-> WriteDeviceObj(vd.dev), target |-> WriteTargetObj(vd.target)]
    BY <1>2 DEF WriteVD
  <2>3. j \in VDObjs
    BY <2>1, <2>2, DeviceSurvives DEF VDObjs
  <2>4. j # Null /\ vd.scope # Null /\ vd.id # Null
    BY <2>1, <2>3, JsonAssumption
  <2>5. /\ Lookup(j, "device") = WriteDeviceObj(vd.dev)
        /\ Lookup(j, "target") = WriteTargetObj(vd.target)
        /\ Field(j, "memory_scope", "") = vd.scope
        /\ Field(j, "virtual_device_id", None) = vd.id
    BY <2>2, <2>4 DEF Lookup, Field
  <2>6. ParseVD(j) = VirtualDevice(vd.dev, vd.target, vd.scope, vd.id)
    BY <2>1, <2>4, <2>5, DeviceSurvives DEF ParseVD
  <2> QED
    BY <2>1, <2>3, <2>4, <2>6
<1> QED
  BY <1>1, <1>2

\* The attributes of a communication node are read back as they were.
LEMMA AttrsSurvive ==
    ASSUME NEW op \in CommunicationOps, NEW a \in AttrsOf(op)
    PROVE  WriteCommAttrs(a) # Null /\ ParseCommAttrs(op, WriteCommAttrs(a)) = a
<1> DEFINE j == WriteCommAttrs(a)
<1>0. FALSE # Null /\ TRUE # Null /\ \A b \in BOOLEAN : b # Null
  BY JsonAssumption
<1>1. CASE op = CopyOp
  <2>1. /\ a = [src |-> a.src, dst |-> a.dst, async |-> a.async, in_group |-> a.in_group]
        /\ a.src \in AnyVD /\ a.dst \in AnyVD /\ a.async \in BOOLEAN /\ a.in_group \in BOOLEAN
        /\ "src" \in DOMAIN a
    BY <1>1 DEF AttrsOf, AnyVD
  <2>2. j = [src_virtual_device |-> WriteVD(a.src), dst_virtual_device |-> WriteVD(a.dst),
             async |-> a.async, in_group |-> a.in_group]
    BY <2>1 DEF WriteCommAttrs
  <2>3. j \in AttrsObjs
    BY <2>1, <2>2, VDSurvives DEF AttrsObjs
  <2>4. j # Null /\ a.async # Null /\ a.in_group # Null
    BY <1>0, <2>1, <2>3, JsonAssumption
  <2>5. /\ Lookup(j, "src_virtual_device") = WriteVD(a.src)
        /\ Lookup(j, "dst_virtual_device") = WriteVD(a.dst)
        /\ Field(j, "async", FALSE) = a.async
        /\ Field(j, "in_group", TRUE) = a.in_group
    BY <2>2, <2>4 DEF Lookup, Field
  <2>6. ParseCommAttrs(op, j) = DeviceCopyAttrs(a.src, a.dst, a.async, a.in_group)
    BY <1>1, <2>1, <2>4, <2>5, VDSurvives DEF ParseCommAttrs
  <2> QED
    BY <2>1, <2>4, <2>6 DEF DeviceCopyAttrs
<1>2. CASE op # CopyOp
  <2>1. /\ a = [kind |-> a.kind, reduce_kind |-> a.reduce_kind, in_group |-> a.in_group,
                group_id |-> a.group_id, root_worker |-> a.root_worker]
        /\ a.kind \in STRING /\ a.reduce_kind \in STRING /\ a.in_group \in BOOLEAN
        /\ a.group_id \in Int /\ a.root_worker \in Int
        /\ "src" \notin DOMAIN a
    BY <1>2 DEF AttrsOf
  <2>2. j = a
    BY <2>1 DEF WriteCommAttrs
  <2>3. j \in AttrsObjs
    BY <2>1, <2>2 DEF AttrsObjs
  <2>4. /\ j # Null /\ a.kind # Null /\ a.reduce_kind # Null /\ a.in_group # Null
        /\ a.group_id # Null /\ a.root_worker # Null
    BY <1>0, <2>1, <2>3, JsonAssumption
  <2>5. /\ Field(j, "kind", op) = a.kind
        /\ Field(j, "reduce_kind", "sum") = a.reduce_kind
        /\ Field(j, "in_group", TRUE) = a.in_group
        /\ Field(j, "group_id", 0) = a.group_id
        /\ Field(j, "root_worker", 0) = a.root_worker
    BY <2>1, <2>2, <2>4 DEF Field
  <2>6. ParseCommAttrs(op, j) = CollectiveAttrs(a.kind, a.reduce_kind, a.in_group,
                                                a.group_id, a.root_worker)
    BY <1>2, <2>4, <2>5 DEF ParseCommAttrs
  <2> QED
    BY <2>1, <2>4, <2>6 DEF CollectiveAttrs
<1> QED
  BY <1>1, <1>2

\* The virtual device an expression has after the pass.
LEMMA VDOfType ==
    ASSUME NEW fun \in Functions, NEW n \in 1 .. Len(fun)
    PROVE  fun[n].vd \in AnyVD /\ VDOf(fun, n) \in AnyVD
<1>1. /\ DOMAIN fun = 1 .. Len(fun) /\ fun[n].vd \in AnyVD
      /\ fun[n].kind \in CommunicationOps =>
            fun[n].attrs \in AttrsOf(fun[n].kind) \cup {NoObject}
  BY FunctionsAssumption DEF AnyVD
<1>2. fun[n].kind = CopyOp /\ fun[n].attrs # NoObject => fun[n].attrs.dst \in AnyVD
  BY <1>1 DEF CommunicationOps, AttrsOf, AnyVD
<1> QED
  BY <1>1, <1>2 DEF VDOf

\* The attributes the pass leaves a communication call with.
LEMMA NormalizedType ==
    ASSUME NEW fun \in Functions, NEW n \in 1 .. Len(fun), fun[n].kind \in CommunicationOps
    PROVE  NormalizedAttrs(fun, n) \in AttrsOf(fun[n].kind)
<1> DEFINE a == fun[n].attrs
           op == fun[n].kind
<1>1. DOMAIN fun = 1 .. Len(fun) /\ a \in AttrsOf(op) \cup {NoObject}
  BY FunctionsAssumption
<1>2. fun[n].vd \in AnyVD
  BY VDOfType
<1>3. CASE op = CopyOp
  <2> DEFINE given == IF a # NoObject THEN a ELSE DeviceCopyAttrs(NoVD, NoVD, FALSE, TRUE)
             producer == IF fun[n].args = <<>> THEN NoVD ELSE VDOf(fun, fun[n].args[1])
             x == [given EXCEPT !.src = IF @ # NoVD THEN @ ELSE producer,
                                !.dst = IF @ # NoVD THEN @ ELSE fun[n].vd]
  <2>1. AttrsOf(op) = [src : AnyVD, dst : AnyVD, async : BOOLEAN, in_group : BOOLEAN]
    BY <1>3 DEF AttrsOf, AnyVD
  <2>2. given \in AttrsOf(op)
    BY <1>1, <2>1 DEF DeviceCopyAttrs, AnyVD
  <2>3. producer \in AnyVD
    <3>1. fun[n].args # <<>> => fun[n].args[1] \in 1 .. Len(fun)
      <4> DEFINE s == fun[n].args
      <4>1. /\ s \in Seq(1 .. n - 1)
            /\ \A i \in 1 .. Len(s) : s[i] \in 1 .. Len(fun)
        BY ArgsBefore
      <4> HIDE DEF s
      <4>2. s # <<>> => 1 \in 1 .. Len(s)
        BY <4>1
      <4> QED
        BY <4>1, <4>2 DEF s
    <3> QED
      BY <3>1, VDOfType DEF AnyVD
  <2>4. NormalizedAttrs(fun, n) = x
    BY <1>3 DEF NormalizedAttrs, CopyAttrs
  <2> HIDE DEF given, producer
  <2>5. x \in [src : AnyVD, dst : AnyVD, async : BOOLEAN, in_group : BOOLEAN]
    BY <1>2, <2>1, <2>2, <2>3
  <2> QED
    BY <2>1, <2>4, <2>5
<1>4. CASE op # CopyOp
  <2>1. AttrsOf(op) = [kind : STRING, reduce_kind : STRING, in_group : BOOLEAN,
                       group_id : Int, root_worker : Int]
    BY <1>4 DEF AttrsOf
  <2>2. op \in STRING /\ "sum" \in STRING
    BY TextAssumption
  <2>3. NormalizedAttrs(fun, n)
          = IF a = NoObject THEN CollectiveAttrs(op, "sum", TRUE, 0, 0)
            ELSE [a EXCEPT !.kind = IF @ = "" THEN op ELSE @]
    BY <1>4, Zenon DEF NormalizedAttrs
  <2> HIDE DEF a, op
  <2>4. CollectiveAttrs(op, "sum", TRUE, 0, 0) \in AttrsOf(op)
    BY <2>1, <2>2 DEF CollectiveAttrs
  <2>5. a # NoObject => [a EXCEPT !.kind = IF @ = "" THEN op ELSE @] \in AttrsOf(op)
    <3> DEFINE k == IF a.kind = "" THEN op ELSE a.kind
    <3>1. a # NoObject => k \in STRING
      BY <1>1, <2>1, <2>2
    <3> HIDE DEF k
    <3>2. a # NoObject => [a EXCEPT !.kind = k] \in AttrsOf(op)
      BY <1>1, <2>1, <3>1
    <3> QED
      BY <3>2 DEF k
  <2> QED
    BY <2>3, <2>4, <2>5 DEF op
<1> QED
  BY <1>3, <1>4

\* The two forms a node has.
KernelForm(x) ==
    \E op, i, o, w :
        x = [kind |-> "kernel", op_name |-> op, kernel_symbol |-> "",
             inputs |-> i, output |-> o, worker_set |-> w]

CommForm(x) ==
    \E op \in CommunicationOps : \E a \in AttrsOf(op) : \E i, o, w :
        x = [kind |-> "comm", op_name |-> op, attrs |-> a,
             inputs |-> i, output |-> o, worker_set |-> w]

\* Every node of a plan has one of them.
LEMMA NodeForms ==
    ASSUME NEW c, NEW fun \in Functions, NEW x \in PlanNodes(c, fun)
    PROVE  KernelForm(x) \/ CommForm(x)
<1>1. ASSUME NEW op \in CommunicationOps, NEW a \in AttrsOf(op), NEW vd, NEW i, NEW iv, NEW o
      PROVE  CommForm(CommExec(c, op, a, vd, i, iv, o))
  BY <1>1 DEF CommForm, CommExec
<1>2. CASE x \in Copies(c, fun)
  <2>1. PICK p \in (1 .. Len(fun)) \X Nat :
            /\ p[2] \in 1 .. Len(fun[p[1]].args)
            /\ x = InsertedCopy(c, fun, p[1], p[2])
    BY <1>2, Zenon DEF Copies, Copied
  <2>2. PICK n \in 1 .. Len(fun), i \in Nat : i \in 1 .. Len(fun[n].args)
                                              /\ x = InsertedCopy(c, fun, n, i)
    BY <2>1
  <2> DEFINE a == DeviceCopyAttrs(VDOf(fun, fun[n].args[i]), fun[n].vd, FALSE, TRUE)
             v == ValueOf(fun)[fun[n].args[i]]
  <2>3. fun[n].args[i] \in 1 .. Len(fun)
    BY <2>2, ArgsBefore
  <2>4. a \in AttrsOf(CopyOp)
    BY <2>3, VDOfType DEF AttrsOf, DeviceCopyAttrs, AnyVD
  <2>5. x = CommExec(c, CopyOp, a, fun[n].vd, <<v>>, Defined(<<ValueVD(fun, v)>>), <<n, i>>)
    BY <2>2 DEF InsertedCopy
  <2>6. CopyOp \in CommunicationOps
    BY DEF CommunicationOps
  <2> QED
    BY <1>1, <2>4, <2>5, <2>6
<1>3. CASE x \notin Copies(c, fun)
  <2>1. PICK n \in 1 .. Len(fun) : x = OwnNode(c, fun, n)
    BY <1>3 DEF PlanNodes, Emitting
  <2>2. CASE fun[n].kind \in CommunicationOps
    <3>1. x = Communication(c, fun, n)
      BY <2>1, <2>2 DEF OwnNode
    <3>2. NormalizedAttrs(fun, n) \in AttrsOf(fun[n].kind)
      BY <2>2, NormalizedType
    <3> QED
      BY <1>1, <2>2, <3>1, <3>2 DEF Communication
  <2>3. CASE fun[n].kind \notin CommunicationOps
    <3>1. x = Kernel(c, fun, n)
      BY <2>1, <2>3 DEF OwnNode
    <3> QED
      BY <3>1 DEF Kernel, KernelForm
  <2> QED
    BY <2>2, <2>3
<1> QED
  BY <1>2, <1>3

\* A node that is written is read back.
LEMMA NodeSurvives ==
    ASSUME NEW x, KernelForm(x) \/ CommForm(x)
    PROVE  ParseNode(WriteNode(x)) = x
<1> DEFINE j == WriteNode(x)
<1>1. CASE KernelForm(x)
  <2>1. PICK op, i, o, w : x = [kind |-> "kernel", op_name |-> op, kernel_symbol |-> "",
                                inputs |-> i, output |-> o, worker_set |-> w]
    BY <1>1 DEF KernelForm
  <2>2. j = [kind |-> "kernel", input_values |-> i, output_values |-> <<o>>,
             worker_set |-> w, op_name |-> op, kernel_symbol |-> ""]
    BY <2>1 DEF WriteNode
  <2> HIDE DEF j
  <2>3. Field(j, "kernel_symbol", "") = ""
    BY <2>2 DEF Field
  <2>4. ParseNode(j) = [kind |-> "kernel", op_name |-> op, inputs |-> i, output |-> o,
                        worker_set |-> w, kernel_symbol |-> ""]
    BY <2>2, <2>3 DEF ParseNode
  <2> QED
    BY <2>1, <2>4 DEF j
<1>2. CASE CommForm(x)
  <2>1. PICK op \in CommunicationOps : \E a \in AttrsOf(op) : \E i, o, w :
            x = [kind |-> "comm", op_name |-> op, attrs |-> a,
                 inputs |-> i, output |-> o, worker_set |-> w]
    BY <1>2 DEF CommForm
  <2>2. PICK a \in AttrsOf(op) : \E i, o, w :
            x = [kind |-> "comm", op_name |-> op, attrs |-> a,
                 inputs |-> i, output |-> o, worker_set |-> w]
    BY <2>1
  <2>3. PICK i, o, w : x = [kind |-> "comm", op_name |-> op, attrs |-> a,
                            inputs |-> i, output |-> o, worker_set |-> w]
    BY <2>2
  <2>4. j = [kind |-> "comm", input_values |-> i, output_values |-> <<o>>,
             worker_set |-> w, op_name |-> op, attrs |-> WriteCommAttrs(a)]
    BY <2>3 DEF WriteNode
  <2> HIDE DEF j
  <2>5. Lookup(j, "attrs") = WriteCommAttrs(a)
    BY <2>4 DEF Lookup, Field
  <2>6. ParseCommAttrs(op, WriteCommAttrs(a)) = a
    BY AttrsSurvive
  <2>7. ParseNode(j) = [kind |-> "comm", op_name |-> op, inputs |-> i, output |-> o,
                        worker_set |-> w, attrs |-> a]
    BY <2>4, <2>5, <2>6 DEF ParseNode
  <2> QED
    BY <2>3, <2>7 DEF j
<1> QED
  BY <1>1, <1>2

-----------------------------------------------------------------------------
(* The placement in its JSON form *)

WorkerRecords == [worker_id : Int, group_id : Int, local_rank : Int,
                  dev : Int, target : Int, vd : VirtualDevices]

\* A placement that is well built finds, for a virtual device of a worker, that
\* worker's id, and -1 for one no worker has.
LEMMA FindWorkerIs ==
    ASSUME NEW p \in Placements, OneWorkerEach(p), NEW vd \in AnyVD
    PROVE  /\ \A i \in DOMAIN p.workers :
                 p.workers[i].vd = vd => FindWorker(p, vd) = p.workers[i].worker_id
           /\ (\A i \in DOMAIN p.workers : p.workers[i].vd # vd) => FindWorker(p, vd) = -1
<1> DEFINE s == p.workers
           I == {i \in 1 .. Len(s) : s[i].vd = vd}
           k == SelectInSeq(s, LAMBDA w : w.vd = vd)
<1>1. s \in Seq(WorkerRecords)
  BY DEF Placements, WorkerRecords
<1>2. Len(s) \in Nat /\ DOMAIN s = 1 .. Len(s)
  BY <1>1
<1>3. k = IF I # {} THEN Min(I) ELSE 0
  BY Zenon DEF SelectInSeq
<1>4. FindWorker(p, vd) = IF vd = NoVD \/ k = 0 THEN -1 ELSE s[k].worker_id
  BY Zenon DEF FindWorker
<1>5. ASSUME NEW i \in DOMAIN s, s[i].vd = vd PROVE FindWorker(p, vd) = s[i].worker_id
  <2>1. i \in I /\ I \subseteq Nat
    BY <1>2, <1>5
  <2>2. PICK m \in I : \A y \in I : m <= y
    BY <2>1, LeastNatural
  <2>3. k \in I
    <3>1. Min(I) = CHOOSE x \in I : \A y \in I : x =< y
      BY DEF Min
    <3> HIDE DEF I, k
    <3>2. Min(I) \in I
      BY <2>2, <3>1
    <3> QED
      BY <1>3, <2>1, <3>2
  <2>4. vd # NoVD
    <3>1. s[i] \in WorkerRecords
      BY <1>1, <1>5
    <3>2. vd \in VirtualDevices
      BY <1>5, <3>1 DEF WorkerRecords
    <3> QED
      BY <3>2, ContextAssumption
  <2> HIDE DEF k
  <2>5. k # 0 /\ k \in DOMAIN s /\ s[k].vd = vd
    BY <1>2, <2>3
  <2>6. s[k].worker_id = s[i].worker_id
    BY <1>5, <2>5 DEF OneWorkerEach
  <2> QED
    BY <1>4, <2>4, <2>5, <2>6
<1>6. ASSUME \A i \in DOMAIN s : s[i].vd # vd PROVE FindWorker(p, vd) = -1
  <2>1. I = {}
    BY <1>2, <1>6
  <2> HIDE DEF I, k
  <2> QED
    BY <1>3, <1>4, <2>1
<1> QED
  BY <1>5, <1>6

\* Two placements with the same workers, in whatever order, find the same ones.
LEMMA SameWorkersFound ==
    ASSUME NEW p \in Placements, OneWorkerEach(p), NEW q \in Placements, OneWorkerEach(q),
           \A i \in DOMAIN p.workers : \E j \in DOMAIN q.workers : q.workers[j] = p.workers[i],
           \A j \in DOMAIN q.workers : \E i \in DOMAIN p.workers : p.workers[i] = q.workers[j],
           NEW vd \in AnyVD
    PROVE  FindWorker(p, vd) = FindWorker(q, vd)
<1>1. CASE \E i \in DOMAIN p.workers : p.workers[i].vd = vd
  <2>1. PICK i \in DOMAIN p.workers : p.workers[i].vd = vd
    BY <1>1
  <2>2. PICK j \in DOMAIN q.workers : q.workers[j] = p.workers[i]
    OBVIOUS
  <2> QED
    BY <2>1, <2>2, FindWorkerIs
<1>2. CASE \A i \in DOMAIN p.workers : p.workers[i].vd # vd
  <2>1. \A j \in DOMAIN q.workers : q.workers[j].vd # vd
    BY <1>2
  <2> QED
    BY <1>2, <2>1, FindWorkerIs
<1> QED
  BY <1>1, <1>2

\* A worker that is written is read back.
LEMMA WorkerSurvives ==
    ASSUME NEW w \in WorkerRecords
    PROVE  ParseWorker(WriteWorker(w)) = w /\ WriteWorker(w) \in WorkerObjs
<1> DEFINE j == WriteWorker(w)
<1>1. /\ w = [worker_id |-> w.worker_id, group_id |-> w.group_id, local_rank |-> w.local_rank,
              dev |-> w.dev, target |-> w.target, vd |-> w.vd]
      /\ w.worker_id \in Int /\ w.group_id \in Int /\ w.local_rank \in Int
      /\ w.dev \in Int /\ w.target \in Int /\ w.vd \in AnyVD
  BY DEF WorkerRecords, AnyVD
<1>2. j = [worker_id |-> w.worker_id, group_id |-> w.group_id, local_rank |-> w.local_rank,
           device |-> WriteDeviceObj(w.dev), target |-> WriteTargetObj(w.target),
           virtual_device |-> WriteVD(w.vd)]
  BY DEF WriteWorker
<1>3. w.group_id # Null /\ w.local_rank # Null
  BY <1>1, JsonAssumption
<1>4. j \in WorkerObjs
  BY <1>1, <1>2, DeviceSurvives, VDSurvives DEF WorkerObjs
<1> HIDE DEF j
<1>5. /\ Field(j, "group_id", 0) = w.group_id
      /\ Field(j, "local_rank", j.worker_id) = w.local_rank
      /\ Lookup(j, "device") = WriteDeviceObj(w.dev)
      /\ Lookup(j, "target") = WriteTargetObj(w.target)
      /\ j.worker_id = w.worker_id /\ "virtual_device" \in DOMAIN j
      /\ j.virtual_device = WriteVD(w.vd)
  BY <1>2, <1>3 DEF Lookup, Field
<1>6. WorkerVD(j) = w.vd
  BY <1>1, <1>5, VDSurvives DEF WorkerVD
<1>7. ParseWorker(j) = WorkerPlacement(w.worker_id, w.group_id, w.local_rank,
                                       w.dev, w.target, w.vd)
  BY <1>1, <1>5, <1>6, DeviceSurvives DEF ParseWorker
<1> QED
  BY <1>1, <1>4, <1>7 DEF WorkerPlacement, j

\* The places of the workers are those of a sorted sequence: each is taken once.
LEMMA RankOnto ==
    ASSUME NEW s \in Seq(WorkerRecords)
    PROVE  /\ \A k \in DOMAIN s : Rank(s, k) \in DOMAIN s
           /\ \A k, l \in DOMAIN s : Rank(s, k) = Rank(s, l) => k = l
           /\ \A r \in DOMAIN s : \E k \in DOMAIN s : Rank(s, k) = r
<1> DEFINE n == Len(s)
           D == 1..n
           Upto(k) == {j \in D : \/ s[j].worker_id < s[k].worker_id
                                 \/ s[j].worker_id = s[k].worker_id /\ j <= k}
           f == [k \in D |-> Rank(s, k)]
<1>1. n \in Nat /\ DOMAIN s = D /\ \A k \in D : s[k].worker_id \in Int
  <2>1. \A k \in 1 .. Len(s) : s[k] \in WorkerRecords
    OBVIOUS
  <2> QED
    BY <2>1 DEF WorkerRecords
<1>2. IsFiniteSet(D) /\ Cardinality(D) = n
  BY <1>1, FS_Interval
<1>3. \A k \in D : Rank(s, k) = Cardinality(Upto(k))
  BY <1>1 DEF Rank
<1>4. ASSUME NEW k \in D
      PROVE  /\ k \in Upto(k) /\ Upto(k) \in SUBSET D /\ IsFiniteSet(Upto(k))
             /\ Rank(s, k) \in D
  <2>1. k \in Upto(k) /\ Upto(k) \in SUBSET D
    BY <1>1
  <2>2. IsFiniteSet(Upto(k)) /\ Cardinality(Upto(k)) <= n
    BY <1>2, <2>1, FS_Subset
  <2>3. Cardinality(Upto(k)) \in Nat /\ Cardinality(Upto(k)) # 0
    BY <2>1, <2>2, FS_CardinalityType, FS_EmptySet
  <2>4. Rank(s, k) = Cardinality(Upto(k))
    BY <1>3
  <2> HIDE DEF Upto
  <2>5. Rank(s, k) \in D
    BY <1>1, <2>2, <2>3, <2>4
  <2> QED
    BY <2>1, <2>2, <2>5
<1>5. ASSUME NEW k \in D, NEW l \in D, Rank(s, k) = Rank(s, l),
             Upto(k) \subseteq Upto(l)
      PROVE  k = l
  <2>1. IsFiniteSet(Upto(l)) /\ Upto(k) \in SUBSET Upto(l)
    BY <1>4, <1>5
  <2>2. Cardinality(Upto(l)) = Cardinality(Upto(k))
    BY <1>3, <1>5
  <2>3. Upto(l) = Upto(k)
    <3> HIDE DEF Upto
    <3> QED
      BY <2>1, <2>2, FS_Subset
  <2>4. l \in Upto(k) /\ k \in Upto(l)
    BY <1>4, <2>3
  <2> QED
    BY <1>1, <2>4
<1>6. \A k, l \in D : Upto(k) \subseteq Upto(l) \/ Upto(l) \subseteq Upto(k)
  BY <1>1
<1>7. \A k, l \in D : Rank(s, k) = Rank(s, l) => k = l
  <2> HIDE DEF Upto, D
  <2> QED
    BY <1>5, <1>6
<1>8. f \in Injection(D, D)
  <2>1. f \in [D -> D]
    BY <1>4
  <2>2. ASSUME NEW k \in D, NEW l \in D, f[k] = f[l] PROVE k = l
    BY <1>7, <2>2
  <2> HIDE DEF f, D
  <2> QED
    BY <2>1, <2>2 DEF Injection, IsInjective
<1>9. f \in Surjection(D, D)
  <2> HIDE DEF f, D
  <2> QED
    BY <1>2, <1>8, FS_Injection
<1>10. \A r \in D : \E k \in D : Rank(s, k) = r
  <2>1. \A r \in D : \E k \in D : f[k] = r
    <3> HIDE DEF f, D
    <3> QED
      BY <1>9 DEF Surjection
  <2> QED
    BY <2>1
<1> QED
  BY <1>1, <1>4, <1>10, <1>7

\* The same virtual devices lead to the same workers.
Agree(c, d) ==
    /\ HasPlacement(c) <=> HasPlacement(d)
    /\ HasPlacement(c) => \A vd \in AnyVD :
                             FindWorker(c.placement, vd) = FindWorker(d.placement, vd)

\* The workers in the order of their ids are those there were.
LEMMA SortedIs ==
    ASSUME NEW s \in Seq(WorkerRecords)
    PROVE  /\ DOMAIN Sorted(s) = DOMAIN s
           /\ \A r \in DOMAIN s : Sorted(s)[r] \in WorkerRecords
           /\ \A r \in DOMAIN s : \E k \in DOMAIN s : Sorted(s)[r] = s[k]
           /\ \A k \in DOMAIN s : \E r \in DOMAIN s : Sorted(s)[r] = s[k]
<1> DEFINE At(r) == CHOOSE k \in DOMAIN s : Rank(s, k) = r
           t == [r \in DOMAIN s |-> s[At(r)]]
           n == Len(s)
<1>1. Sorted(s) = t
  BY DEF Sorted
<1>2. n \in Nat /\ DOMAIN s = 1..n /\ \A k \in 1..n : s[k] \in WorkerRecords
  OBVIOUS
<1>3. ASSUME NEW r \in DOMAIN s PROVE At(r) \in DOMAIN s /\ Rank(s, At(r)) = r
  <2>1. \E k \in DOMAIN s : Rank(s, k) = r
    BY RankOnto
  <2> QED
    BY <2>1
<1>4. ASSUME NEW k \in DOMAIN s PROVE Rank(s, k) \in DOMAIN s /\ s[At(Rank(s, k))] = s[k]
  <2>1. Rank(s, k) \in DOMAIN s
    BY RankOnto
  <2>2. At(Rank(s, k)) \in DOMAIN s /\ Rank(s, At(Rank(s, k))) = Rank(s, k)
    BY <1>3, <2>1
  <2>3. ASSUME NEW l \in DOMAIN s, Rank(s, l) = Rank(s, k) PROVE l = k
    BY <2>3, RankOnto
  <2> QED
    BY <2>1, <2>2, <2>3
<1> HIDE DEF At
<1>5. \A r \in DOMAIN s : t[r] = s[At(r)]
  OBVIOUS
<1> QED
  BY <1>1, <1>2, <1>3, <1>4, <1>5

\* A placement that is written and read back has the same workers, sorted.
LEMMA PlacementSurvives ==
    ASSUME NEW c, Sound(c)
    PROVE  LET d == WithDiscoPlacement(NoContext, ParsePlacement(WritePlacement(c)))
           IN  Sound(d) /\ Agree(c, d)
<1> DEFINE j == WritePlacement(c)
           q == ParsePlacement(j)
           d == WithDiscoPlacement(NoContext, q)
<1>1. CASE ~HasPlacement(c)
  <2>1. q = NoPlacement
    BY <1>1 DEF WritePlacement, ParsePlacement
  <2>2. d = NoContext
    BY <2>1 DEF WithDiscoPlacement
  <2> QED
    BY <1>1, <2>2 DEF Sound, Agree, HasPlacement
<1>2. CASE HasPlacement(c)
  <2> DEFINE p == c.placement
             s == p.workers
             n == Len(s)
             g == p.num_groups
             R == [num_groups : Int, workers : Seq(WorkerObjs)]
             written == [k \in DOMAIN s |-> WriteWorker(Sorted(s)[k])]
             read == [k \in DOMAIN s |-> Sorted(s)[k]]
  <2>1. p \in Placements /\ OneWorkerEach(p)
    BY <1>2 DEF HasPlacement, Sound, WellBuilt, PassContexts
  <2>2. s \in Seq(WorkerRecords) /\ g \in Int
    BY <2>1 DEF Placements, WorkerRecords
  <2>3. n \in Nat /\ DOMAIN s = 1..n
    BY <2>2
  <2>4. /\ \A r \in DOMAIN s : Sorted(s)[r] \in WorkerRecords
        /\ \A r \in DOMAIN s : \E k \in DOMAIN s : Sorted(s)[r] = s[k]
        /\ \A k \in DOMAIN s : \E r \in DOMAIN s : Sorted(s)[r] = s[k]
    BY <2>2, SortedIs
  <2>5. /\ \A k \in DOMAIN s : ParseWorker(WriteWorker(Sorted(s)[k])) = Sorted(s)[k]
        /\ \A k \in DOMAIN s : WriteWorker(Sorted(s)[k]) \in WorkerObjs
    BY <2>4, WorkerSurvives
  <2>6. j = [num_groups |-> g, workers |-> written]
    BY <1>2 DEF WritePlacement
  <2>7. written \in Seq(WorkerObjs)
    <3> HIDE DEF s, n
    <3> QED
      BY <2>3, <2>5
  <2>8. j # Null /\ g # Null
    <3> HIDE DEF j, g, written
    <3> QED
      BY <2>2, <2>6, <2>7, JsonAssumption
  <2>9. Field(j, "num_groups", 1) = g
    <3> HIDE DEF g, written
    <3> QED
      BY <2>6, <2>8 DEF Field
  <2>10. q = [workers |-> read, num_groups |-> IF g > 0 THEN g ELSE 1]
    <3>1. q = [workers |-> [k \in DOMAIN j.workers |-> ParseWorker(j.workers[k])],
               num_groups |-> IF g > 0 THEN g ELSE 1]
      BY <2>8, <2>9 DEF ParsePlacement
    <3>2. j.workers = written /\ DOMAIN written = DOMAIN s
      BY <2>6
    <3>3. \A k \in DOMAIN s : ParseWorker(written[k]) = Sorted(s)[k]
      BY <2>5
    <3> HIDE DEF j, q, g, written, s
    <3>4. [k \in DOMAIN j.workers |-> ParseWorker(j.workers[k])] = read
      BY <3>2, <3>3
    <3> QED
      BY <3>1, <3>4
  <2>11. read \in Seq(WorkerRecords) /\ DOMAIN read = DOMAIN s
    <3> HIDE DEF s, n
    <3> QED
      BY <2>3, <2>4
  <2>12. /\ \A i \in DOMAIN s : \E k \in DOMAIN read : read[k] = s[i]
         /\ \A k \in DOMAIN read : \E i \in DOMAIN s : s[i] = read[k]
    <3>1. \A k \in DOMAIN s : read[k] = Sorted(s)[k]
      OBVIOUS
    <3> HIDE DEF read
    <3> QED
      BY <2>4, <2>11, <3>1
  <2>13. q \in Placements /\ q.workers = read
    <3> HIDE DEF q, g, read
    <3> QED
      BY <2>2, <2>10, <2>11 DEF Placements, WorkerRecords
  <2> HIDE DEF q, read, written, j, g
  <2>14. OneWorkerEach(q)
    <3> SUFFICES ASSUME NEW k \in DOMAIN read, NEW l \in DOMAIN read, read[k].vd = read[l].vd
                 PROVE  read[k].worker_id = read[l].worker_id
      BY <2>13 DEF OneWorkerEach
    <3>1. PICK i \in DOMAIN s : s[i] = read[k]
      BY <2>12
    <3>2. PICK m \in DOMAIN s : s[m] = read[l]
      BY <2>12
    <3> QED
      BY <2>1, <3>1, <3>2 DEF OneWorkerEach
  <2>15. \A vd \in AnyVD : FindWorker(p, vd) = FindWorker(q, vd)
    BY <2>1, <2>12, <2>13, <2>14, SameWorkersFound
  <2>16. q # NoPlacement
    BY <2>13, ContextAssumption
  <2>17. d = [primary |-> NoVD, target |-> None, device |-> None, multi |-> FALSE,
              placement |-> q]
    BY <2>16 DEF WithDiscoPlacement, Blank
  <2> HIDE DEF d
  <2>18. /\ d \in PassContexts /\ d.primary = NoVD /\ d.placement = q
    BY <2>13, <2>17 DEF PassContexts, None
  <2>19. d # NoContext
    BY <2>18, ContextAssumption
  <2>20. WellBuilt(d)
    BY <2>14, <2>18 DEF WellBuilt
  <2>21. HasPlacement(d)
    BY <2>16, <2>18, <2>19 DEF HasPlacement
  <2>22. Agree(c, d)
    BY <1>2, <2>15, <2>18, <2>21 DEF Agree
  <2> QED
    BY <2>20, <2>22 DEF Sound, d, q, j
<1> QED
  BY <1>1, <1>2

\* The empty sequence is one of anything.
LEMMA EmptyIsSeq == ASSUME NEW S PROVE <<>> \in Seq(S)
  OBVIOUS

\* The pass gives every function a context with a placement, if only an empty one.
LEMMA PassSound ==
    ASSUME NEW fun \in Functions
    PROVE  Sound(BuildDiscoPlacementPass(fun))
<1> DEFINE own == FromRelay(fun)
           empty == BuildDiscoPlacement(<<>>, 1)
           d == WithDiscoPlacement(own, empty)
<1>1. Sound(own)
  BY FromRelayWellBuilt DEF Sound
<1>2. CASE HasPlacement(own)
  BY <1>1, <1>2 DEF BuildDiscoPlacementPass
<1>3. CASE ~HasPlacement(own)
  <2>1. empty \in Placements /\ OneWorkerEach(empty)
    <3>1. <<>> \in Seq(VirtualDevices)
      BY EmptyIsSeq
    <3>2. \A vds \in Seq(VirtualDevices) : /\ BuildDiscoPlacement(vds, 1) \in Placements
                                            /\ OneWorkerEach(BuildDiscoPlacement(vds, 1))
      BY PlacementType
    <3> QED
      BY <3>1, <3>2, Zenon
  <2>2. empty # NoPlacement
    BY <2>1, ContextAssumption
  <2>3. BuildDiscoPlacementPass(fun) = d
    BY <1>3 DEF BuildDiscoPlacementPass
  <2> DEFINE base == IF own = NoContext THEN Blank ELSE own
  <2>4. base \in PassContexts /\ base.primary = NoVD
    <3>1. Blank \in PassContexts /\ Blank.primary = NoVD
      BY DEF Blank, PassContexts, None
    <3> QED
      BY <1>1, <1>3, <3>1 DEF Sound, WellBuilt, HasPlacement
  <2>5. d = [base EXCEPT !.placement = empty]
    BY <2>2 DEF WithDiscoPlacement
  <2> HIDE DEF base, empty, d
  <2>6. d \in PassContexts /\ d.primary = NoVD /\ d.placement = empty
    BY <2>1, <2>4, <2>5 DEF PassContexts
  <2> QED
    BY <2>1, <2>3, <2>6 DEF Sound, WellBuilt
<1> QED
  BY <1>2, <1>3

-----------------------------------------------------------------------------
(* A plan in its JSON form *)

\* The plan of a function in context c, with d for the context it carries.
PlanWith(c, d, fun) ==
    [nodes                 |-> Nodes(c, fun),
     value_virtual_devices |-> [v \in {v \in Values(fun) : ValueVD(fun, v) # NoVD} |->
                                   ValueVD(fun, v)],
     input_value_ids       |-> IdsOf(fun, "param"),
     constant_value_ids    |-> IdsOf(fun, "const"),
     value_shapes          |-> Captured(fun, "shape"),
     value_dtypes          |-> Captured(fun, "dtype"),
     num_values            |-> Cardinality(Values(fun)),
     pass_ctx              |-> d,
     output_value          |-> ValueOf(fun)[Len(fun)]]

\* What the items of an array say of the ids of D, when they agree with g.
LEMMA MapOfIs ==
    ASSUME NEW items, NEW field, NEW D, NEW g, g = [v \in D |-> g[v]],
           \A item \in items : item.value_id \in D /\ item[field] = g[item.value_id],
           \A v \in D : \E item \in items : item.value_id = v
    PROVE  MapOf(items, field) = g
<1> DEFINE At(v) == (CHOOSE item \in items : item.value_id = v)[field]
<1>1. {item.value_id : item \in items} = D
  OBVIOUS
<1>2. \A v \in D : At(v) = g[v]
  <2> SUFFICES ASSUME NEW v \in D PROVE At(v) = g[v]
    OBVIOUS
  <2> DEFINE x == CHOOSE item \in items : item.value_id = v
  <2>1. x \in items /\ x.value_id = v
    OBVIOUS
  <2> HIDE DEF x
  <2>2. x[field] = g[v]
    BY <2>1
  <2> QED
    BY <2>2 DEF x
<1>3. MapOf(items, field) = [v \in D |-> At(v)]
  BY <1>1, Zenon DEF MapOf
<1> HIDE DEF At
<1> QED
  BY <1>2, <1>3

\* The virtual devices of values are read back.
LEMMA VDsSurvive ==
    ASSUME NEW D, NEW g \in [D -> VirtualDevices]
    PROVE  ParseVDs({[value_id |-> v, virtual_device |-> WriteVD(g[v])] : v \in D}) = g
<1> DEFINE k == "virtual_device"
           items == {[value_id |-> v, virtual_device |-> WriteVD(g[v])] : v \in D}
           defined == {item \in items : item.virtual_device # Null}
           texts == MapOf(defined, k)
           w == [v \in D |-> WriteVD(g[v])]
<1>1. \A v \in D : g[v] \in AnyVD /\ g[v] # NoVD
  BY ContextAssumption DEF AnyVD
<1>2. \A v \in D : WriteVD(g[v]) # Null /\ ParseVD(WriteVD(g[v])) = g[v]
  BY <1>1, VDSurvives
<1>3. \A item \in defined : item.value_id \in D /\ item[k] = w[item.value_id]
  OBVIOUS
<1>4. \A v \in D : \E item \in defined : item.value_id = v
  <2> SUFFICES ASSUME NEW v \in D PROVE \E item \in defined : item.value_id = v
    OBVIOUS
  <2> DEFINE item == [value_id |-> v, virtual_device |-> WriteVD(g[v])]
  <2>1. item \in items /\ item.virtual_device # Null /\ item.value_id = v
    BY <1>2
  <2> QED
    BY <2>1
<1> HIDE DEF k, items, defined, w
<1>5. MapOf(defined, k) = w
  <2>1. w = [v \in D |-> w[v]]
    BY DEF w
  <2> QED
    BY <1>3, <1>4, <2>1, MapOfIs
<1>6. DOMAIN texts = D /\ \A v \in D : texts[v] = WriteVD(g[v])
  BY <1>5 DEF w
<1>7. ParseVDs(items) = [v \in DOMAIN texts |-> ParseVD(texts[v])]
  BY Zenon DEF ParseVDs, defined, k
<1> HIDE DEF texts
<1>8. ParseVDs(items) = [v \in D |-> g[v]]
  BY <1>2, <1>6, <1>7
<1> QED
  BY <1>8 DEF items

\* The items of value_info, with o and e for what is missing.
InfoItems(f, g, o, e) ==
    {[value_id |-> v,
      shape |-> IF v \in DOMAIN f THEN f[v] ELSE o,
      dtype |-> IF v \in DOMAIN g THEN g[v] ELSE e] : v \in DOMAIN f \cup DOMAIN g}

\* The shapes and dtypes are read back, those of the same values.
LEMMA InfoSurvives ==
    ASSUME NEW D, NEW f, NEW g, f = [v \in D |-> f[v]], g = [v \in D |-> g[v]],
           NEW o, NEW e
    PROVE  /\ MapOf(InfoItems(f, g, o, e), "shape") = f
           /\ MapOf(InfoItems(f, g, o, e), "dtype") = g
<1> DEFINE ks == "shape"
           kd == "dtype"
           Item(v) == [value_id |-> v,
                       shape |-> IF v \in DOMAIN f THEN f[v] ELSE o,
                       dtype |-> IF v \in DOMAIN g THEN g[v] ELSE e]
           info == {Item(v) : v \in DOMAIN f \cup DOMAIN g}
<1>1. DOMAIN f = D /\ DOMAIN g = D
  OBVIOUS
<1>2. \A v \in D : Item(v).value_id = v /\ Item(v)[ks] = f[v] /\ Item(v)[kd] = g[v]
  BY <1>1
<1> HIDE DEF ks, kd
<1>3. \A item \in info : /\ item.value_id \in D
                         /\ item[ks] = f[item.value_id]
                         /\ item[kd] = g[item.value_id]
  <2> SUFFICES ASSUME NEW v \in D
               PROVE  /\ Item(v).value_id \in D
                      /\ Item(v)[ks] = f[Item(v).value_id]
                      /\ Item(v)[kd] = g[Item(v).value_id]
    BY <1>1
  <2> HIDE DEF Item
  <2> QED
    BY <1>2
<1>4. \A v \in D : \E item \in info : item.value_id = v
  <2> SUFFICES ASSUME NEW v \in D PROVE \E item \in info : item.value_id = v
    OBVIOUS
  <2>1. Item(v) \in info
    BY <1>1
  <2> HIDE DEF info, Item
  <2> QED
    BY <1>2, <2>1
<1> HIDE DEF info
<1>5. MapOf(info, ks) = f
  BY <1>3, <1>4, MapOfIs
<1>6. MapOf(info, kd) = g
  BY <1>3, <1>4, MapOfIs
<1> QED
  BY <1>5, <1>6, Zenon DEF InfoItems, info, Item, ks, kd

\* A value has the virtual device of its expression or of its copy's consumer.
LEMMA ValueVDType ==
    ASSUME NEW fun \in Functions, NEW v \in Values(fun)
    PROVE  ValueVD(fun, v) \in AnyVD
<1>1. DOMAIN fun = 1 .. Len(fun)
  BY FunctionsAssumption
<1>2. PICK n \in 1 .. Len(fun) : v[1] = n
  BY <1>1 DEF Values
<1> QED
  BY <1>2, VDOfType DEF ValueVD

\* A plan has nodes of the two forms only.
LEMMA NodesType ==
    ASSUME NEW c, NEW fun \in Functions
    PROVE  /\ Nodes(c, fun) \in Seq(PlanNodes(c, fun))
           /\ \A k \in DOMAIN Nodes(c, fun) : Nodes(c, fun)[k] \in PlanNodes(c, fun)
<1>1. PICK e : IsEmit(e, c, fun) /\ Nodes(c, fun) = e[Len(fun)]
  BY NodesAre
<1>2. Len(fun) \in 1 .. Len(fun)
  BY FunctionsAssumption
<1>3. Nodes(c, fun) \in Seq(PlanNodes(c, fun))
  BY <1>1, <1>2 DEF IsEmit
<1> DEFINE s == Nodes(c, fun)
<1>4. \A k \in DOMAIN s : s[k] \in PlanNodes(c, fun)
  <2> HIDE DEF s
  <2>1. s \in Seq(PlanNodes(c, fun))
    BY <1>3 DEF s
  <2> QED
    BY <2>1
<1> QED
  BY <1>3, <1>4

\* A plan that is written to JSON and read back is the same but for the context
\* it carries, which keeps the workers of the virtual devices.
LEMMA PlanSurvives ==
    ASSUME NEW c, NEW d, Sound(d), NEW fun \in Functions
    PROVE  LET p == PlanWith(c, d, fun)
               e == WithDiscoPlacement(NoContext, ParsePlacement(WritePlacement(d)))
           IN  DeserializeExecutionPlanFromJson(SerializeExecutionPlanToJson(p))
                 = PlanWith(c, e, fun)
<1> DEFINE p == PlanWith(c, d, fun)
           e == WithDiscoPlacement(NoContext, ParsePlacement(WritePlacement(d)))
           nodes == Nodes(c, fun)
           D == {v \in Values(fun) : ValueVD(fun, v) # NoVD}
           vds == [v \in D |-> ValueVD(fun, v)]
           shapes == Captured(fun, "shape")
           dtypes == Captured(fun, "dtype")
           items == {[value_id |-> v, virtual_device |-> WriteVD(vds[v])] : v \in DOMAIN vds}
           info == {[value_id |-> v,
                     shape |-> IF v \in DOMAIN shapes THEN shapes[v] ELSE <<>>,
                     dtype |-> IF v \in DOMAIN dtypes THEN dtypes[v] ELSE ""] :
                       v \in DOMAIN shapes \cup DOMAIN dtypes}
           texts == [k \in DOMAIN nodes |-> WriteNode(nodes[k])]
           root == SerializeExecutionPlanToJson(p)
<1>1. nodes = [k \in DOMAIN texts |-> ParseNode(texts[k])]
  <2>1. /\ nodes \in Seq(PlanNodes(c, fun))
        /\ \A k \in DOMAIN nodes : nodes[k] \in PlanNodes(c, fun)
    BY NodesType
  <2> HIDE DEF nodes
  <2>2. \A k \in DOMAIN nodes : ParseNode(WriteNode(nodes[k])) = nodes[k]
    BY <2>1, NodeForms, NodeSurvives
  <2>3. nodes = [k \in DOMAIN nodes |-> nodes[k]]
    BY <2>1
  <2> QED
    BY <2>2, <2>3
<1>2. ParseVDs(items) = vds
  <2>1. vds \in [D -> VirtualDevices] /\ DOMAIN vds = D
    <3>1. \A v \in D : ValueVD(fun, v) \in VirtualDevices
      BY ValueVDType DEF AnyVD
    <3> QED
      BY <3>1
  <2> HIDE DEF D, vds
  <2> QED
    BY <2>1, VDsSurvive
<1>3. MapOf(info, "shape") = shapes /\ MapOf(info, "dtype") = dtypes
  <2> DEFINE X == {<<n, 0>> : n \in {m \in DOMAIN fun : fun[m].type # NoObject}}
  <2>1. shapes = [v \in X |-> shapes[v]] /\ dtypes = [v \in X |-> dtypes[v]]
    BY DEF Captured
  <2>2. info = InfoItems(shapes, dtypes, <<>>, "")
    BY Zenon DEF InfoItems
  <2> HIDE DEF shapes, dtypes, X, info
  <2>3. \A o, x : /\ MapOf(InfoItems(shapes, dtypes, o, x), "shape") = shapes
                  /\ MapOf(InfoItems(shapes, dtypes, o, x), "dtype") = dtypes
    BY <2>1, InfoSurvives
  <2> QED
    BY <2>3, <2>2
<1> DEFINE S(r) == /\ r.schema_version = 1
                   /\ r.num_values = Cardinality(Values(fun))
                   /\ r.output_value = ValueOf(fun)[Len(fun)]
                   /\ r.nodes = texts
                   /\ r.value_virtual_devices = items
                   /\ r.input_value_ids = IdsOf(fun, "param")
                   /\ r.constant_value_ids = IdsOf(fun, "const")
                   /\ r.value_info = info
                   /\ r.disco_placement = WritePlacement(d)
<1>4. S(root)
  <2>1. /\ p.nodes = nodes /\ p.value_virtual_devices = vds
        /\ p.input_value_ids = IdsOf(fun, "param") /\ p.constant_value_ids = IdsOf(fun, "const")
        /\ p.value_shapes = shapes /\ p.value_dtypes = dtypes
        /\ p.num_values = Cardinality(Values(fun)) /\ p.pass_ctx = d
        /\ p.output_value = ValueOf(fun)[Len(fun)]
    BY DEF PlanWith
  <2>2. root = [schema_version        |-> 1,
                num_values            |-> p.num_values,
                output_value          |-> p.output_value,
                nodes                 |-> [k \in DOMAIN p.nodes |-> WriteNode(p.nodes[k])],
                value_virtual_devices |->
                   {[value_id |-> v, virtual_device |-> WriteVD(p.value_virtual_devices[v])] :
                       v \in DOMAIN p.value_virtual_devices},
                input_value_ids       |-> p.input_value_ids,
                constant_value_ids    |-> p.constant_value_ids,
                value_info            |->
                   {[value_id |-> v,
                     shape |-> IF v \in DOMAIN p.value_shapes THEN p.value_shapes[v] ELSE <<>>,
                     dtype |-> IF v \in DOMAIN p.value_dtypes THEN p.value_dtypes[v] ELSE ""] :
                        v \in DOMAIN p.value_shapes \cup DOMAIN p.value_dtypes},
                disco_placement       |-> WritePlacement(p.pass_ctx)]
    BY Zenon DEF SerializeExecutionPlanToJson
  <2> HIDE DEF p, nodes, vds, shapes, dtypes, root
  <2>3. root = [schema_version |-> 1, num_values |-> Cardinality(Values(fun)),
                output_value |-> ValueOf(fun)[Len(fun)], nodes |-> texts,
                value_virtual_devices |-> items, input_value_ids |-> IdsOf(fun, "param"),
                constant_value_ids |-> IdsOf(fun, "const"), value_info |-> info,
                disco_placement |-> WritePlacement(d)]
    BY <2>1, <2>2, Zenon
  <2> HIDE DEF texts, items, info
  <2> QED
    BY <2>3
<1> HIDE DEF root, texts, items, info, nodes, vds, shapes, dtypes
<1>5. DeserializeExecutionPlanFromJson(root)
        = [nodes |-> nodes, value_virtual_devices |-> vds,
           input_value_ids |-> IdsOf(fun, "param"), constant_value_ids |-> IdsOf(fun, "const"),
           value_shapes |-> shapes, value_dtypes |-> dtypes,
           num_values |-> Cardinality(Values(fun)), pass_ctx |-> e,
           output_value |-> ValueOf(fun)[Len(fun)]]
  BY <1>1, <1>2, <1>3, <1>4 DEF DeserializeExecutionPlanFromJson
<1> QED
  BY <1>5, Zenon DEF PlanWith, root, nodes, vds, shapes, dtypes

\* The plan is the one the builder made of the function in its context, as it
\* was or as it came back from JSON.
IsPlan == \E d : Sound(d) /\ Agree(ctx, d) /\ plan = PlanWith(ctx, d, func)

\* The state before, during and after a lowering, and the plan it has made.
PlanInv ==
    /\ ContextInv
    /\ next \in Nat \ {0}
    /\ status = "lower" => plan = NoPlan
    /\ plan # NoPlan \/ status \in {"execute", "run", "done"} =>
          /\ Sound(ctx) /\ ctx \in LoweringContexts(func) /\ IsPlan
          /\ \A n \in DOMAIN func : func[n].kind # "if"

\* What is read back once may be written again.
LEMMA ThroughJsonKeeps ==
    ASSUME ContextInv, Sound(ctx), IsPlan, ThroughJson
    PROVE  IsPlan'
<1>1. PICK d : Sound(d) /\ Agree(ctx, d) /\ plan = PlanWith(ctx, d, func)
  BY DEF IsPlan
<1> DEFINE e == WithDiscoPlacement(NoContext, ParsePlacement(WritePlacement(d)))
<1>2. func \in Functions /\ ctx' = ctx /\ func' = func
      /\ plan' = DeserializeExecutionPlanFromJson(SerializeExecutionPlanToJson(plan))
  BY DEF ContextInv, ThroughJson
<1>3. plan' = PlanWith(ctx, e, func)
  BY <1>1, <1>2, PlanSurvives
<1>4. Sound(e) /\ Agree(d, e)
  BY <1>1, PlacementSurvives
<1> HIDE DEF e
<1>5. Agree(ctx, e)
  BY <1>1, <1>4 DEF Agree
<1> QED
  BY <1>2, <1>3, <1>4, <1>5 DEF IsPlan, Sound, Agree

\* Every step keeps the invariant.
LEMMA PlanStep == PlanInv /\ [Next]_vars => PlanInv'
<1> SUFFICES ASSUME PlanInv, [Next]_vars PROVE PlanInv'
  OBVIOUS
<1>0. ContextInv /\ ContextInv' /\ func \in Functions
  BY ContextStep DEF PlanInv, ContextInv
<1>1. ASSUME UNCHANGED <<func, ctx, plan>>, status' = "lower" => status = "lower",
             status' \in {"execute", "run", "done"} => status \in {"execute", "run", "done"},
             next' \in Nat \ {0}
      PROVE  PlanInv'
  <2>1. IsPlan => IsPlan'
    BY <1>1 DEF IsPlan
  <2> QED
    BY <1>0, <1>1, <2>1 DEF PlanInv, Sound
<1>2. CASE Lower
  <2> DEFINE inner == InScope(BuildDiscoPlacementPass(func))
             c == inner.current
  <2>1. /\ ctx' = c /\ plan' = PlanOf(c, func) /\ func' = func /\ status' # "lower"
        /\ status' # "throw" => plan' # NoPlan
        /\ status' \in {"throw", "execute"} /\ next' = next
    BY <1>2 DEF Lower
  <2>2. Sound(c) /\ c \in LoweringContexts(func)
    BY <1>0, PassSound, InScopeIs DEF Sound, LoweringContexts
  <2> HIDE DEF inner
  <2>3. ASSUME plan' # NoPlan
        PROVE  (\A n \in DOMAIN func : func[n].kind # "if") /\ plan' = PlanWith(c, c, func)
    BY <2>1, <2>3, Zenon DEF PlanOf, PlanWith
  <2>4. plan' # NoPlan => IsPlan'
    BY <2>1, <2>2, <2>3 DEF IsPlan, Agree, Sound
  <2>5. ctx' \in LoweringContexts(func')
    BY <2>1, <2>2
  <2> QED
    BY <1>0, <2>1, <2>2, <2>3, <2>4, <2>5 DEF PlanInv, Sound
<1>3. CASE LowerCompute
  <2>1. next' = next /\ plan' = plan /\ status = "lower" /\ status' \in {"throw", "tir"}
    BY <1>3 DEF LowerCompute
  <2> QED
    BY <1>0, <2>1 DEF PlanInv
<1>4. CASE ThroughJson
  <2>1. status = "execute" /\ UNCHANGED <<func, ctx, next, status>>
    BY <1>4 DEF ThroughJson
  <2>2. IsPlan'
    BY <1>0, <1>4, <2>1, ThroughJsonKeeps DEF PlanInv
  <2> QED
    BY <1>0, <2>1, <2>2 DEF PlanInv, Sound, LoweringContexts
<1>5. CASE \/ \E c \in Ambient : OpenScope(c)
           \/ CloseScope \/ ExecuteCall \/ ExecutePlanEntryPoint \/ Step
           \/ Over \/ UNCHANGED vars
  <2>1. /\ UNCHANGED <<func, ctx, plan>>
        /\ status' = "lower" => status = "lower"
        /\ status' \in {"execute", "run", "done"} => status \in {"execute", "run", "done"}
        /\ next' = next \/ next' = next + 1
    BY <1>5 DEF OpenScope, CloseScope, ExecuteCall, ExecutePlanEntryPoint, Step, InputMissing,
                ExecuteSource, ExecuteKernel, ExecuteComm, ReturnOutput, Ends, Over, vars
  <2>2. next' \in Nat \ {0}
    BY <2>1 DEF PlanInv
  <2> QED
    BY <1>1, <2>1, <2>2
<1> QED
  BY <1>2, <1>3, <1>4, <1>5 DEF Next

\* No plan has been made at first.
LEMMA PlanInit == Init => PlanInv
<1> SUFFICES ASSUME Init PROVE PlanInv
  OBVIOUS
<1>1. ContextInv
  BY ContextInit
<1> QED
  BY <1>1 DEF Init, PlanInv

\* A plan is always that of the function it was lowered from.
THEOREM PlanInvariance == Spec => []PlanInv
  BY PlanInit, PlanStep, PTL DEF Spec

\* RelayToExecPlanBuilder: whatever lets, shared leaves and inserted copies a
\* function has, its plan is in single-assignment form and in dependency order,
\* also after its way through JSON.
THEOREM DefinedBeforeUseHolds == Spec => []DefinedBeforeUse
<1>1. PlanInv => DefinedBeforeUse
  <2> SUFFICES ASSUME PlanInv, plan # NoPlan
               PROVE  DefinedBeforeUse
    BY DEF DefinedBeforeUse
  <2>1. func \in Functions /\ IsPlan
    BY DEF PlanInv, ContextInv
  <2>2. plan.nodes = Nodes(ctx, func)
    BY <2>1 DEF IsPlan, PlanWith
  <2>3. Runs(plan.nodes, GivenIds(func))
    BY <2>1, <2>2, NodesRun
  <2>4. GivenIds(func) = {<<n, 0>> : n \in GivenValues}
    BY <2>1, FunctionsAssumption DEF GivenIds, GivenValues
  <2> QED
    BY <2>3, <2>4 DEF Runs, DefinedBeforeUse
<1> QED
  BY <1>1, PlanInvariance, PTL

\* The executor resolves a virtual device alike with contexts that agree.
LEMMA AgreeingWorkers ==
    ASSUME NEW p, NEW q, Agree(p.pass_ctx, q.pass_ctx), NEW vd \in AnyVD
    PROVE  ExecWorker(p, vd) = ExecWorker(q, vd)
  BY DEF ExecWorker, Agree

\* The virtual devices a node names are such devices.
LEMMA NamedDevices ==
    ASSUME NEW x, KernelForm(x) \/ CommForm(x), "attrs" \in DOMAIN x,
           NEW end \in {"src", "dst"} \cap DOMAIN x.attrs
    PROVE  x.attrs[end] \in AnyVD
<1>1. CASE KernelForm(x)
  <2>1. PICK op, i, o, w : x = [kind |-> "kernel", op_name |-> op, kernel_symbol |-> "",
                                inputs |-> i, output |-> o, worker_set |-> w]
    BY <1>1 DEF KernelForm
  <2>2. DOMAIN x = {"kind", "op_name", "kernel_symbol", "inputs", "output", "worker_set"}
    BY <2>1
  <2> QED
    BY <2>2
<1>2. CASE CommForm(x)
  <2>1. PICK op \in CommunicationOps : x.attrs \in AttrsOf(op)
    BY <1>2 DEF CommForm
  <2>2. CASE op = CopyOp
    BY <2>1, <2>2 DEF AttrsOf, AnyVD
  <2>3. CASE op # CopyOp
    BY <2>1, <2>3 DEF AttrsOf
  <2> QED
    BY <2>2, <2>3
<1> QED
  BY <1>1, <1>2

\* SerializeExecutionPlanToJson and DeserializeExecutionPlanFromJson, however
\* often a plan is written and read: it is the plan the builder made, and its
\* virtual devices lead to the same workers.
THEOREM PlanSurvivesJsonHolds == Spec => []PlanSurvivesJson
<1>1. PlanInv => PlanSurvivesJson
  <2> SUFFICES ASSUME PlanInv, status = "execute" PROVE PlanSurvivesJson
    BY DEF PlanSurvivesJson
  <2> DEFINE built == PlanOf(ctx, func)
  <2>1. func \in Functions /\ IsPlan /\ \A n \in DOMAIN func : func[n].kind # "if"
    BY DEF PlanInv, ContextInv
  <2>2. PICK d : Agree(ctx, d) /\ plan = PlanWith(ctx, d, func)
    BY <2>1 DEF IsPlan
  <2>3. built = PlanWith(ctx, ctx, func)
    BY <2>1, Zenon DEF PlanOf, PlanWith
  <2> HIDE DEF built
  <2>4. \A f \in DOMAIN built \ {"pass_ctx"} : plan[f] = built[f]
    BY <2>2, <2>3 DEF PlanWith
  <2>5. /\ plan.nodes = Nodes(ctx, func) /\ built.nodes = Nodes(ctx, func)
        /\ plan.value_virtual_devices = built.value_virtual_devices
        /\ plan.value_virtual_devices
             = [v \in {v \in Values(func) : ValueVD(func, v) # NoVD} |-> ValueVD(func, v)]
        /\ plan.pass_ctx = d /\ built.pass_ctx = ctx
    BY <2>2, <2>3 DEF PlanWith
  <2>6. \A vd \in AnyVD : ExecWorker(plan, vd) = ExecWorker(built, vd)
    <3>1. Agree(plan.pass_ctx, built.pass_ctx)
      BY <2>2, <2>5 DEF Agree
    <3> QED
      BY <3>1, AgreeingWorkers
  <2>7. \A v \in Values(func) : WorkerOf(plan, v) = WorkerOf(built, v)
    <3>1. \A v \in DOMAIN plan.value_virtual_devices : plan.value_virtual_devices[v] \in AnyVD
      BY <2>1, <2>5, ValueVDType
    <3> QED
      BY <2>5, <2>6, <3>1 DEF WorkerOf
  <2>8. ASSUME NEW n \in DOMAIN plan.nodes, "attrs" \in DOMAIN plan.nodes[n],
               NEW end \in {"src", "dst"} \cap DOMAIN plan.nodes[n].attrs
        PROVE  ExecWorker(plan, plan.nodes[n].attrs[end])
                 = ExecWorker(built, built.nodes[n].attrs[end])
    <3>1. plan.nodes[n] \in PlanNodes(ctx, func)
      BY <2>1, <2>5, NodesType
    <3>2. plan.nodes[n].attrs[end] \in AnyVD
      BY <2>1, <2>8, <3>1, NodeForms, NamedDevices
    <3> QED
      BY <2>5, <2>6, <3>2
  <2> QED
    BY <2>4, <2>7, <2>8 DEF PlanSurvivesJson, built
<1> QED
  BY <1>1, PlanInvariance, PTL

-----------------------------------------------------------------------------
(* Executions: the workers a plan runs on *)

\* What each node of a plan is.
LEMMA NodeIs ==
    ASSUME NEW c, NEW fun, NEW x \in PlanNodes(c, fun)
    PROVE  \/ \E n \in Emitting(fun) : fun[n].kind \notin CommunicationOps /\ x = Kernel(c, fun, n)
           \/ \E n \in Emitting(fun) : fun[n].kind \in CommunicationOps
                                       /\ x = Communication(c, fun, n)
           \/ \E n \in 1 .. Len(fun) : \E i \in 1 .. Len(fun[n].args) :
                 i \in Nat /\ NeedsCopy(fun, n, i) /\ x = InsertedCopy(c, fun, n, i)
<1>1. CASE x \in Copies(c, fun)
  <2>1. PICK p \in Copied(fun) : x = InsertedCopy(c, fun, p[1], p[2])
    BY <1>1, Zenon DEF Copies
  <2>2. p[1] \in 1 .. Len(fun) /\ p[2] \in Nat /\ p[2] \in 1 .. Len(fun[p[1]].args)
        /\ NeedsCopy(fun, p[1], p[2])
    BY DEF Copied
  <2> QED
    BY <2>1, <2>2
<1>2. CASE x \notin Copies(c, fun)
  <2>1. PICK n \in Emitting(fun) : x = OwnNode(c, fun, n)
    BY <1>2, Zenon DEF PlanNodes
  <2> QED
    BY <2>1, Zenon DEF OwnNode
<1> QED
  BY <1>1, <1>2

\* The fields of a kernel node.
LEMMA KernelFields ==
    ASSUME NEW c, NEW fun, NEW n, NEW x, x = Kernel(c, fun, n)
    PROVE  /\ x.kind = "kernel" /\ x.kind # "comm"
           /\ x.inputs = Inputs(fun, n) /\ x.output = <<n, 0>>
           /\ x.worker_set = ComputeWorkers(c, fun, n)
  BY DEF Kernel

\* Those of the node of a communication call.
LEMMA CommFields ==
    ASSUME NEW c, NEW fun, NEW n, NEW x, x = Communication(c, fun, n)
    PROVE  /\ x.kind = "comm" /\ x.inputs = Inputs(fun, n) /\ x.output = <<n, 0>>
           /\ x.op_name = fun[n].kind /\ x.attrs = NormalizedAttrs(fun, n)
           /\ x.worker_set = CommWorkers(c, fun[n].kind, NormalizedAttrs(fun, n),
                                         VDOf(fun, n), InputVDs(fun, n))
  BY DEF Communication, CommExec

\* Those of the node of a copy that was inserted.
LEMMA InsertedFields ==
    ASSUME NEW c, NEW fun, NEW n, NEW i, NEW x, x = InsertedCopy(c, fun, n, i)
    PROVE  /\ x.kind = "comm" /\ x.inputs = <<ValueOf(fun)[fun[n].args[i]]>>
           /\ x.output = <<n, i>> /\ x.op_name = CopyOp
           /\ x.attrs.src = VDOf(fun, fun[n].args[i]) /\ x.attrs.dst = fun[n].vd
           /\ \E ivs : x.worker_set = CommWorkers(c, CopyOp, x.attrs, fun[n].vd, ivs)
<1> DEFINE ivs == Defined(<<ValueVD(fun, ValueOf(fun)[fun[n].args[i]])>>)
<1>1. /\ x.kind = "comm" /\ x.inputs = <<ValueOf(fun)[fun[n].args[i]]>>
      /\ x.output = <<n, i>> /\ x.op_name = CopyOp
      /\ x.attrs.src = VDOf(fun, fun[n].args[i]) /\ x.attrs.dst = fun[n].vd
      /\ x.worker_set = CommWorkers(c, CopyOp, x.attrs, fun[n].vd, ivs)
  BY DEF InsertedCopy, CommExec, DeviceCopyAttrs
<1> QED
  BY <1>1

\* The virtual devices of expressions and of the ends of copies.
LEMMA NamedAre ==
    ASSUME NEW fun \in Functions
    PROVE  /\ NamedVDs(fun) \subseteq VirtualDevices
           /\ \A n \in 1 .. Len(fun) :
                 /\ fun[n].vd # NoVD => fun[n].vd \in NamedVDs(fun)
                 /\ VDOf(fun, n) # NoVD => VDOf(fun, n) \in NamedVDs(fun)
                 /\ fun[n].kind = CopyOp /\ CopyAttrs(fun, n).src # NoVD
                       => CopyAttrs(fun, n).src \in NamedVDs(fun)
<1>1. DOMAIN fun = 1 .. Len(fun)
  BY FunctionsAssumption
<1>2. \A n \in 1 .. Len(fun) : fun[n].vd \in AnyVD /\ VDOf(fun, n) \in AnyVD
  BY VDOfType
<1>3. ASSUME NEW n \in 1 .. Len(fun), fun[n].kind = CopyOp
      PROVE  CopyAttrs(fun, n).src \in AnyVD
  <2>1. NormalizedAttrs(fun, n) \in AttrsOf(CopyOp)
    BY <1>3, NormalizedType DEF CommunicationOps
  <2>2. NormalizedAttrs(fun, n) = CopyAttrs(fun, n)
    BY <1>3 DEF NormalizedAttrs
  <2> HIDE DEF CopyAttrs
  <2> QED
    BY <2>1, <2>2 DEF AttrsOf, AnyVD
<1>4. NamedVDs(fun) \subseteq VirtualDevices
  BY <1>1, <1>2, <1>3 DEF NamedVDs, AnyVD
<1> QED
  BY <1>1, <1>4 DEF NamedVDs

\* Builder and executor resolve a virtual device to the same worker, if it is
\* placed.
LEMMA Resolves ==
    ASSUME NEW fun \in Functions, PlacedEverywhere(fun), NEW c \in LoweringContexts(fun),
           NEW p, Agree(c, p.pass_ctx), NEW vd \in NamedVDs(fun)
    PROVE  PlanWorker(c, vd) = ExecWorker(p, vd) /\ ExecWorker(p, vd) \in Workers
<1>1. vd \in VirtualDevices /\ vd # NoVD /\ vd \in AnyVD
  BY NamedAre, ContextAssumption DEF AnyVD
<1>2. HasPlacement(c) /\ FindWorker(c.placement, vd) \in Workers
  BY DEF PlacedEverywhere
<1>3. \A w \in Workers : w \in Int /\ w >= 0
  BY SessionSize DEF Workers
<1>4. HasPlacement(p.pass_ctx)
      /\ FindWorker(p.pass_ctx.placement, vd) = FindWorker(c.placement, vd)
  BY <1>1, <1>2 DEF Agree
<1> QED
  BY <1>1, <1>2, <1>3, <1>4 DEF PlanWorker, ExecWorker

\* The ids the builder hands out.
LEMMA ValuesAre ==
    ASSUME NEW fun \in Functions, NEW n \in 1 .. Len(fun)
    PROVE  /\ fun[n].kind \notin {"var", "let"} => <<n, 0>> \in Values(fun)
           /\ \A i \in 1 .. Len(fun[n].args) : NeedsCopy(fun, n, i) => <<n, i>> \in Values(fun)
<1>1. DOMAIN fun = 1 .. Len(fun) /\ DOMAIN fun[n].args = 1 .. Len(fun[n].args)
  BY ArgsBefore
<1> QED
  BY <1>1 DEF Values

\* The worker of a value, as the executor finds it in a plan.
LEMMA HomeIs ==
    ASSUME NEW fun \in Functions, PlacedEverywhere(fun), NEW c \in LoweringContexts(fun),
           NEW d, Agree(c, d), NEW v \in Values(fun)
    PROVE  LET p == PlanWith(c, d, fun)
               vd == ValueVD(fun, v)
           IN  /\ WorkerOf(p, v) = IF vd = NoVD THEN 0 ELSE PlanWorker(c, vd)
               /\ WorkerOf(p, v) \in Workers
<1> DEFINE p == PlanWith(c, d, fun)
           vd == ValueVD(fun, v)
<1>1. /\ p.value_virtual_devices
           = [x \in {y \in Values(fun) : ValueVD(fun, y) # NoVD} |-> ValueVD(fun, x)]
      /\ p.pass_ctx = d
  BY DEF PlanWith
<1> HIDE DEF p
<1>2. 0 \in Workers
  BY SessionSize DEF Workers
<1>3. CASE vd = NoVD
  <2>1. WorkerOf(p, v) = 0
    BY <1>1, <1>3 DEF WorkerOf
  <2> QED
    BY <1>2, <1>3, <2>1 DEF p
<1>4. CASE vd # NoVD
  <2>1. WorkerOf(p, v) = ExecWorker(p, vd)
    BY <1>1, <1>4 DEF WorkerOf
  <2>2. vd \in NamedVDs(fun)
    <3>1. DOMAIN fun = 1 .. Len(fun)
      BY FunctionsAssumption
    <3>2. PICK n \in 1 .. Len(fun) : v[1] = n
      BY <3>1 DEF Values
    <3> QED
      BY <1>4, <3>2, NamedAre DEF ValueVD
  <2> QED
    BY <1>1, <1>4, <2>1, <2>2, Resolves DEF p
<1> QED
  BY <1>3, <1>4

\* A device.copy moves to the virtual device its result has.
LEMMA CopyTarget ==
    ASSUME NEW fun \in Functions, NEW n \in 1 .. Len(fun), fun[n].kind = CopyOp
    PROVE  CopyAttrs(fun, n).dst = VDOf(fun, n)
<1> DEFINE g == IF fun[n].attrs # NoObject THEN fun[n].attrs
                ELSE DeviceCopyAttrs(NoVD, NoVD, FALSE, TRUE)
<1>1. g \in AttrsOf(CopyOp)
  <2>1. fun[n].attrs \in AttrsOf(CopyOp) \cup {NoObject}
    BY FunctionsAssumption DEF CommunicationOps
  <2> QED
    BY <2>1 DEF AttrsOf, DeviceCopyAttrs
<1>2. DOMAIN g = {"src", "dst", "async", "in_group"}
  BY <1>1 DEF AttrsOf
<1>3. fun[n].attrs = NoObject => g.dst = NoVD
  BY DEF DeviceCopyAttrs
<1>4. CopyAttrs(fun, n).dst = IF g.dst # NoVD THEN g.dst ELSE fun[n].vd
  <2> HIDE DEF g
  <2> QED
    BY <1>2 DEF CopyAttrs, g
<1> QED
  BY <1>3, <1>4 DEF VDOf

\* The ends of the copies of a plan are virtual devices of the function.
LEMMA CopyEnds ==
    ASSUME NEW fun \in Functions, CopiesHaveEnds(fun), NEW c, NEW x \in PlanNodes(c, fun),
           x.kind = "comm", x.op_name = CopyOp
    PROVE  /\ x.attrs.src \in NamedVDs(fun) /\ x.attrs.dst \in NamedVDs(fun)
           /\ \E vd, ivs : x.worker_set = CommWorkers(c, CopyOp, x.attrs, vd, ivs)
<1>0. DOMAIN fun = 1 .. Len(fun)
  BY FunctionsAssumption
<1>1. ~ \E n \in Emitting(fun) : fun[n].kind \notin CommunicationOps /\ x = Kernel(c, fun, n)
  BY KernelFields
<1>2. ASSUME NEW n \in Emitting(fun), x = Communication(c, fun, n)
      PROVE  /\ x.attrs.src \in NamedVDs(fun) /\ x.attrs.dst \in NamedVDs(fun)
             /\ \E vd, ivs : x.worker_set = CommWorkers(c, CopyOp, x.attrs, vd, ivs)
  <2>1. fun[n].kind = CopyOp /\ n \in 1 .. Len(fun)
    BY <1>2, CommFields DEF Emitting
  <2>2. x.attrs = CopyAttrs(fun, n)
    <3>1. x.attrs = NormalizedAttrs(fun, n)
      BY <1>2, CommFields
    <3> QED
      BY <2>1, <3>1 DEF NormalizedAttrs
  <2>3. CopyAttrs(fun, n).src # NoVD /\ CopyAttrs(fun, n).dst # NoVD
    BY <1>0, <2>1 DEF CopiesHaveEnds
  <2>4. CopyAttrs(fun, n).dst = VDOf(fun, n)
    BY <2>1, CopyTarget
  <2> QED
    BY <1>2, <2>1, <2>2, <2>3, <2>4, NamedAre, CommFields
<1>3. ASSUME NEW n \in 1 .. Len(fun), NEW i \in 1 .. Len(fun[n].args),
             NeedsCopy(fun, n, i), x = InsertedCopy(c, fun, n, i)
      PROVE  /\ x.attrs.src \in NamedVDs(fun) /\ x.attrs.dst \in NamedVDs(fun)
             /\ \E vd, ivs : x.worker_set = CommWorkers(c, CopyOp, x.attrs, vd, ivs)
  <2>1. fun[n].vd # NoVD /\ VDOf(fun, fun[n].args[i]) # NoVD
    BY <1>3 DEF NeedsCopy
  <2>2. fun[n].args[i] \in 1 .. Len(fun)
    BY ArgsBefore
  <2> QED
    BY <1>3, <2>1, <2>2, NamedAre, InsertedFields
<1> QED
  BY <1>1, <1>2, <1>3, NodeIs

\* What is known of the plan that is executed, and of its next node.
LEMMA AtNode ==
    ASSUME PlanInv, status \in {"run", "done"}
    PROVE  /\ func \in Functions /\ ctx \in LoweringContexts(func)
           /\ \E d : Agree(ctx, d) /\ plan = PlanWith(ctx, d, func)
           /\ plan.nodes = Nodes(ctx, func) /\ Agree(ctx, plan.pass_ctx)
           /\ Len(plan.nodes) \in Nat /\ DOMAIN plan.nodes = 1 .. Len(plan.nodes)
           /\ next \in Nat \ {0}
           /\ next <= Len(plan.nodes) => Node \in PlanNodes(ctx, func)
<1>1. func \in Functions /\ IsPlan /\ ctx \in LoweringContexts(func) /\ next \in Nat \ {0}
  BY DEF PlanInv, ContextInv
<1>2. plan.nodes = Nodes(ctx, func) /\ Agree(ctx, plan.pass_ctx)
  BY <1>1 DEF IsPlan, PlanWith
<1> DEFINE s == Nodes(ctx, func)
<1>3. s \in Seq(PlanNodes(ctx, func)) /\ \A k \in DOMAIN s : s[k] \in PlanNodes(ctx, func)
  BY <1>1, NodesType
<1> HIDE DEF s
<1>4. Len(s) \in Nat /\ DOMAIN s = 1 .. Len(s)
  BY <1>3
<1>5. next <= Len(s) => s[next] \in PlanNodes(ctx, func)
  BY <1>1, <1>3, <1>4
<1> QED
  BY <1>1, <1>2, <1>4, <1>5 DEF s, Node, IsPlan

\* Every device.copy of a plan, written or inserted, was given its workers by
\* the two ends its attributes name.
LEMMA CopyNames ==
    ASSUME NEW fun \in Functions, NEW c, NEW x \in PlanNodes(c, fun),
           x.kind = "comm", x.op_name = CopyOp
    PROVE  /\ x.attrs.src \in AnyVD /\ x.attrs.dst \in AnyVD
           /\ \E vd, ivs : x.worker_set = CommWorkers(c, CopyOp, x.attrs, vd, ivs)
<1>1. ~ \E n \in Emitting(fun) : fun[n].kind \notin CommunicationOps /\ x = Kernel(c, fun, n)
  BY KernelFields
<1>2. ASSUME NEW n \in Emitting(fun), x = Communication(c, fun, n)
      PROVE  /\ x.attrs.src \in AnyVD /\ x.attrs.dst \in AnyVD
             /\ \E vd, ivs : x.worker_set = CommWorkers(c, CopyOp, x.attrs, vd, ivs)
  <2>1. fun[n].kind = CopyOp /\ n \in 1 .. Len(fun)
    BY <1>2, CommFields DEF Emitting
  <2>2. x.attrs \in AttrsOf(CopyOp)
    BY <1>2, <2>1, CommFields, NormalizedType DEF CommunicationOps
  <2>3. x.attrs.src \in AnyVD /\ x.attrs.dst \in AnyVD
    BY <2>2 DEF AttrsOf, AnyVD
  <2> QED
    BY <1>2, <2>1, <2>3, CommFields
<1>3. ASSUME NEW n \in 1 .. Len(fun), NEW i \in 1 .. Len(fun[n].args),
             x = InsertedCopy(c, fun, n, i)
      PROVE  /\ x.attrs.src \in AnyVD /\ x.attrs.dst \in AnyVD
             /\ \E vd, ivs : x.worker_set = CommWorkers(c, CopyOp, x.attrs, vd, ivs)
  <2>1. fun[n].args[i] \in 1 .. Len(fun)
    BY ArgsBefore
  <2> QED
    BY <1>3, <2>1, VDOfType, InsertedFields
<1> QED
  BY <1>1, <1>2, <1>3, NodeIs

\* A builder that finds an end of a copy in its placement puts the end's worker
\* in the node, and no other but that of the other end.
LEMMA PlacedEnds ==
    ASSUME NEW c, NEW a, NEW vd, NEW ivs, NEW e \in {a.src, a.dst}, PlanWorker(c, e) # None
    PROVE  /\ PlanWorker(c, e) \in CommWorkers(c, CopyOp, a, vd, ivs)
           /\ PlanWorker(c, a.src) # None /\ PlanWorker(c, a.dst) # None =>
                 CommWorkers(c, CopyOp, a, vd, ivs)
                    = {PlanWorker(c, a.src), PlanWorker(c, a.dst)}
<1> DEFINE W(v) == PlanWorker(c, v)
           named == Placed(c, {a.src, a.dst})
<1>1. named = {W(a.src), W(a.dst)} \ {None}
  <2>1. {W(v) : v \in {a.src, a.dst}} = {W(a.src), W(a.dst)}
    OBVIOUS
  <2> QED
    BY <2>1 DEF Placed
<1>2. W(e) \in named
  BY <1>1
<1>3. CommWorkers(c, CopyOp, a, vd, ivs) = named
  <2>1. CopyOp \notin Collectives /\ CopyOp \notin PointToPoint
    BY DEF CopyOp, Collectives, PointToPoint
  <2> HIDE DEF W
  <2> QED
    BY <1>2, <2>1 DEF CommWorkers
<1> QED
  BY <1>1, <1>2, <1>3

\* RelayToExecPlanBuilder and ExecutionPlanExecutor, each with its own
\* ResolveWorkerForVirtualDevice: a device.copy uses a worker its node does not
\* name only for an end that the plan's placement lacks.  That is so for any
\* functions and annotations, in whatever context the function was lowered, one
\* made for another function included, and however often the plan went through
\* JSON.
THEOREM CopyFollowsPlanHolds == Spec => []CopyFollowsPlan
<1>1. PlanInv => CopyFollowsPlan
  <2> DEFINE a == Node.attrs
             W(e) == PlanWorker(ctx, e)
  <2> SUFFICES ASSUME PlanInv, status = "run", next <= Len(plan.nodes), Node.kind = "comm",
                      Node.op_name = CopyOp
               PROVE  /\ InPlacement(a.src) => SourceWorker \in Node.worker_set
                      /\ InPlacement(a.dst) => DestinationWorker \in Node.worker_set
                      /\ InPlacement(a.src) /\ InPlacement(a.dst) =>
                            Node.worker_set = {SourceWorker, DestinationWorker}
    BY DEF CopyFollowsPlan
  <2>1. /\ func \in Functions /\ Agree(ctx, plan.pass_ctx)
        /\ Node \in PlanNodes(ctx, func)
    BY AtNode
  <2>2. PICK vd, ivs : /\ a.src \in AnyVD /\ a.dst \in AnyVD
                       /\ Node.worker_set = CommWorkers(ctx, CopyOp, a, vd, ivs)
    BY <2>1, CopyNames
  <2>3. ASSUME NEW e \in {a.src, a.dst}, InPlacement(e)
        PROVE  W(e) # None /\ W(e) = ExecWorker(plan, e) /\ e # NoVD
    <3>1. /\ HasPlacement(plan.pass_ctx) /\ e # NoVD /\ e \in AnyVD
          /\ FindWorker(plan.pass_ctx.placement, e) >= 0
      BY <2>2, <2>3 DEF InPlacement
    <3>2. /\ HasPlacement(ctx)
          /\ FindWorker(ctx.placement, e) = FindWorker(plan.pass_ctx.placement, e)
      BY <2>1, <3>1 DEF Agree
    <3>3. W(e) = FindWorker(ctx.placement, e)
      BY <3>1, <3>2 DEF PlanWorker
    <3>4. ExecWorker(plan, e) = FindWorker(plan.pass_ctx.placement, e)
      BY <3>1 DEF ExecWorker
    <3>5. W(e) # None
      BY <3>1, <3>2, <3>3 DEF None
    <3> QED
      BY <3>1, <3>2, <3>3, <3>4, <3>5
  <2>4. /\ InPlacement(a.src) => SourceWorker = W(a.src)
        /\ InPlacement(a.dst) => DestinationWorker = W(a.dst)
    BY <2>3 DEF SourceWorker, DestinationWorker
  <2>5. ASSUME NEW e \in {a.src, a.dst}, InPlacement(e) PROVE W(e) \in Node.worker_set
    BY <2>2, <2>3, <2>5, PlacedEnds
  <2>6. InPlacement(a.src) /\ InPlacement(a.dst) => Node.worker_set = {W(a.src), W(a.dst)}
    BY <2>2, <2>3, PlacedEnds
  <2> HIDE DEF W
  <2> QED
    BY <2>4, <2>5, <2>6
<1> QED
  BY <1>1, PlanInvariance, PTL

\* Sequences over nothing are empty.
LEMMA NothingJoined ==
    ASSUME NEW k \in Nat, NEW vds, DOMAIN vds = 1..k, \A i \in 1..k : vds[i] = NoVD
    PROVE  Defined(vds) = <<>>
<1> DEFINE seqs == [i \in DOMAIN vds |-> IF vds[i] = NoVD THEN <<>> ELSE <<vds[i]>>]
<1>1. seqs \in [1..k -> Seq({})]
  OBVIOUS
<1>2. Defined(vds) = FlattenSeq(seqs)
  BY Zenon DEF Defined
<1> HIDE DEF seqs
<1>3. FlattenSeq(seqs) \in Seq({})
  BY <1>1, Joined
<1> DEFINE s == FlattenSeq(seqs)
<1> HIDE DEF s
<1>4. s \in Seq({}) => s = <<>>
  OBVIOUS
<1> QED
  BY <1>2, <1>3, <1>4 DEF s

\* A kernel runs on the worker of its result.
LEMMA KernelHome ==
    ASSUME NEW fun \in Functions, PlacedEverywhere(fun), KernelsAnnotated(fun),
           NEW c \in LoweringContexts(fun), NEW d, Agree(c, d),
           NEW n \in Emitting(fun), fun[n].kind \notin CommunicationOps
    PROVE  /\ <<n, 0>> \in Values(fun)
           /\ ComputeWorkers(c, fun, n) = {WorkerOf(PlanWith(c, d, fun), <<n, 0>>)}
<1> DEFINE p == PlanWith(c, d, fun)
           v == <<n, 0>>
<1>1. n \in 1 .. Len(fun) /\ fun[n].kind \notin Leaves \cup {"let"} /\ fun[n].kind # CopyOp
  BY DEF Emitting, CommunicationOps
<1>2. v \in Values(fun)
  BY <1>1, ValuesAre DEF Leaves
<1>3. ValueVD(fun, v) = fun[n].vd
  BY <1>1 DEF ValueVD, VDOf
<1> HIDE DEF v, p
<1>4. /\ WorkerOf(p, v) = IF fun[n].vd = NoVD THEN 0 ELSE PlanWorker(c, fun[n].vd)
      /\ WorkerOf(p, v) \in Workers
  BY <1>2, <1>3, HomeIs DEF p
<1>5. \A w \in Workers : w \in Int /\ ~(w < 0)
  BY SessionSize DEF Workers
<1>6. CASE fun[n].vd # NoVD
  <2>1. ComputeWorkers(c, fun, n)
          = {IF PlanWorker(c, fun[n].vd) < 0 THEN 0 ELSE PlanWorker(c, fun[n].vd)}
    BY <1>6 DEF ComputeWorkers
  <2> QED
    BY <1>2, <1>4, <1>5, <1>6, <2>1 DEF p, v
<1>7. CASE fun[n].vd = NoVD
  <2> DEFINE a == fun[n].args
             vds == [i \in DOMAIN a |-> ValueVD(fun, InputOf(fun, n, i))]
  <2>1. DOMAIN fun = 1 .. Len(fun) /\ Len(a) \in Nat /\ DOMAIN a = 1 .. Len(a)
    BY <1>1, ArgsBefore
  <2>2. \A i \in DOMAIN a : ValueVD(fun, InputOf(fun, n, i)) = NoVD
    BY <1>1, <1>7, <2>1 DEF KernelsAnnotated
  <2>3. DOMAIN vds = 1 .. Len(a) /\ \A i \in 1 .. Len(a) : vds[i] = NoVD
    BY <2>1, <2>2
  <2> HIDE DEF vds
  <2>4. Defined(vds) = <<>>
    BY <2>1, <2>3, NothingJoined
  <2>5. InputVDs(fun, n) = <<>>
    BY <2>4 DEF InputVDs, vds
  <2>6. ComputeWorkers(c, fun, n) = {IF PlanWorker(c, NoVD) < 0 THEN 0 ELSE PlanWorker(c, NoVD)}
    BY <1>7, <2>5 DEF ComputeWorkers
  <2>7. PlanWorker(c, NoVD) = -1
    BY DEF PlanWorker, None
  <2> QED
    BY <1>2, <1>4, <1>7, <2>6, <2>7 DEF p, v
<1> QED
  BY <1>6, <1>7

-----------------------------------------------------------------------------
(* What expressions denote *)

DenotesAt(f, g, n) ==
    IF f[n].kind \in {"param", "const"} THEN TensorOf(n)
    ELSE IF f[n].args = <<>> THEN <<0>>
    ELSE g[f[n].args[IF f[n].kind = "let" THEN 3 ELSE 1]]

\* The argument whose value an expression has.
LEMMA PassedOn ==
    ASSUME NEW fun \in Functions, NEW n \in 1 .. Len(fun)
    PROVE  /\ TensorOf(n) \in Tensors /\ <<0>> \in Tensors
           /\ fun[n].args # <<>> =>
                 fun[n].args[IF fun[n].kind = "let" THEN 3 ELSE 1] \in 1 .. n - 1
<1>1. TensorOf(n) \in Tensors
  <2>1. TensorOf(n) \in [1 .. Slices -> Int]
    BY SlicesAssumption DEF TensorOf
  <2> QED
    BY <2>1, SlicesAssumption DEF Tensors
<1>2. <<0>> \in Tensors
  BY DEF Tensors
<1> DEFINE a == fun[n].args
<1>3. a \in Seq(1 .. n - 1) /\ Len(a) \in Nat /\ \A i \in 1 .. Len(a) : a[i] \in 1 .. n - 1
  BY ArgsBefore
<1>4. fun[n].kind = "let" => Len(a) = 3
  BY ArgsBefore
<1> HIDE DEF a
<1>5. a # <<>> => 1 \in 1 .. Len(a)
  BY <1>3
<1>6. fun[n].kind = "let" => 3 \in 1 .. Len(a)
  BY <1>4
<1>7. a # <<>> => a[IF fun[n].kind = "let" THEN 3 ELSE 1] \in 1 .. n - 1
  BY <1>3, <1>5, <1>6
<1> QED
  BY <1>1, <1>2, <1>7 DEF a

\* The recursion of Denotes is well founded.
LEMMA DenotesIs ==
    ASSUME NEW fun \in Functions
    PROVE  \A n \in 1 .. Len(fun) :
              /\ Denotes(fun)[n] = DenotesAt(fun, Denotes(fun), n)
              /\ Denotes(fun)[n] \in Tensors
<1> DEFINE N == Len(fun)
           V == Tensors
           Is(f) == f = [n \in DOMAIN fun |->
                            IF fun[n].kind \in {"param", "const"} THEN TensorOf(n)
                            ELSE IF fun[n].args = <<>> THEN <<0>>
                            ELSE f[fun[n].args[IF fun[n].kind = "let" THEN 3 ELSE 1]]]
           G == [n \in 1..N |-> [f \in [1..N -> V] |-> DenotesAt(fun, f, n)]]
<1>0. N \in Nat \ {0} /\ DOMAIN fun = 1..N
  BY FunctionsAssumption
<1>1. ASSUME NEW n \in 1..N
      PROVE  /\ TensorOf(n) \in V /\ <<0>> \in V
             /\ fun[n].args # <<>> =>
                   fun[n].args[IF fun[n].kind = "let" THEN 3 ELSE 1] \in 1 .. n - 1
             /\ 1 .. n - 1 \subseteq 1..N
  <2>1. 1 .. n - 1 \subseteq 1..N
    BY <1>0
  <2> QED
    BY <2>1, PassedOn
<1>2. Denotes(fun) = CHOOSE f : Is(f)
  BY Zenon DEF Denotes
<1>3. \E f : Is(f)
  <2>1. <<0>> \in V
    BY <1>0, <1>1
  <2>2. ASSUME NEW n \in 1..N, NEW f \in [1..N -> V]
        PROVE  G[n][f] = DenotesAt(fun, f, n) /\ DenotesAt(fun, f, n) \in V
    <3> HIDE DEF V
    <3>1. \A m \in 1..N : f[m] \in V
      OBVIOUS
    <3> QED
      BY <1>1, <3>1 DEF DenotesAt
  <2>3. G \in [1..N -> [[1..N -> V] -> V]]
    <3> HIDE DEF V, N
    <3> QED
      BY <2>2
  <2>4. ASSUME NEW n \in 1..N, NEW f \in [1..N -> V], NEW h \in [1..N -> V],
               \A m \in 1 .. n - 1 : f[m] = h[m]
        PROVE  G[n][f] = G[n][h]
    <3>1. DenotesAt(fun, f, n) = DenotesAt(fun, h, n)
      BY <1>1, <2>4 DEF DenotesAt
    <3> HIDE DEF G, V
    <3> QED
      BY <2>2, <3>1
  <2> HIDE DEF G, V, N
  <2>5. PICK f \in [1..N -> V] : \A n \in 1..N : f[n] = G[n][f]
    <3>1. LooksBack(G, N, V)
      BY <2>3, <2>4, Zenon DEF LooksBack
    <3>2. N \in Nat
      BY <1>0
    <3> QED
      BY <2>1, <3>1, <3>2, RecursionExists
  <2>6. f = [n \in 1..N |-> DenotesAt(fun, f, n)]
    BY <2>2, <2>5
  <2>7. Is(f)
    BY <1>0, <2>6, Zenon DEF DenotesAt
  <2> QED
    BY <2>7, Zenon
<1>4. PICK g : g = Denotes(fun) /\ Is(g)
  <2> HIDE DEF Is
  <2> QED
    BY <1>2, <1>3, Zenon
<1>5. g = [n \in 1..N |-> DenotesAt(fun, g, n)]
  BY <1>0, <1>4, Zenon DEF DenotesAt
<1>6. \A n \in 1..N : g[n] = DenotesAt(fun, g, n)
  <2> DEFINE v(n) == DenotesAt(fun, g, n)
  <2>1. g = [n \in 1..N |-> v(n)]
    BY <1>5
  <2> HIDE DEF v
  <2>2. \A n \in 1..N : g[n] = v(n)
    BY <2>1
  <2> QED
    BY <2>2 DEF v
<1> DEFINE S == {n \in 1..N : g[n] \in V}
<1>7. ASSUME NEW n \in 1..N, \A m \in 1 .. n - 1 : m \in S PROVE n \in S
  <2> HIDE DEF Is, V, N
  <2>1. \A m \in 1 .. n - 1 : g[m] \in V
    BY <1>7
  <2>2. DenotesAt(fun, g, n) \in V
    BY <1>1, <2>1 DEF DenotesAt
  <2> QED
    BY <1>6, <2>2
<1>8. 1..N \subseteq S
  <2> HIDE DEF S
  <2> QED
    BY <1>0, <1>7, UpTo
<1> QED
  BY <1>4, <1>6, <1>8

\* An expression denotes what the expression with its value does, and that has
\* a value of its own.
LEMMA DenotesValue ==
    ASSUME NEW fun \in Functions
    PROVE  \A n \in 1 .. Len(fun) :
              /\ Denotes(fun)[ValueOf(fun)[n][1]] = Denotes(fun)[n]
              /\ ValueOf(fun)[n] \in Values(fun)
<1> DEFINE N == Len(fun)
           g == Denotes(fun)
           v == ValueOf(fun)
           S == {n \in 1..N : g[v[n][1]] = g[n] /\ v[n] \in Values(fun)}
<1>0. N \in Nat
  BY FunctionsAssumption
<1>1. ASSUME NEW n \in 1..N, \A m \in 1 .. n - 1 : m \in S PROVE n \in S
  <2>1. /\ v[n] = ValueAt(fun, v, n)
        /\ g[n] = DenotesAt(fun, g, n)
    BY ValueIs, DenotesIs
  <2>2. /\ fun[n].kind = "var" => Len(fun[n].args) = 1 /\ fun[n].args[1] \in 1 .. n - 1
        /\ fun[n].kind = "let" => Len(fun[n].args) = 3 /\ fun[n].args[3] \in 1 .. n - 1
    BY ArgsBefore
  <2>3. fun[n].kind \in {"var", "let"} => fun[n].args # <<>>
    BY <2>2
  <2> HIDE DEF g, v, N
  <2>4. CASE fun[n].kind = "var"
    <3>1. v[n] = v[fun[n].args[1]] /\ g[n] = g[fun[n].args[1]]
      BY <2>1, <2>3, <2>4 DEF ValueAt, DenotesAt
    <3> QED
      BY <1>1, <2>2, <2>4, <3>1
  <2>5. CASE fun[n].kind = "let"
    <3>1. v[n] = v[fun[n].args[3]] /\ g[n] = g[fun[n].args[3]]
      BY <2>1, <2>3, <2>5 DEF ValueAt, DenotesAt
    <3> QED
      BY <1>1, <2>2, <2>5, <3>1
  <2>6. CASE fun[n].kind \notin {"var", "let"}
    <3>1. v[n] = <<n, 0>>
      BY <2>1, <2>6 DEF ValueAt
    <3>2. <<n, 0>> \in Values(fun)
      BY <2>6, ValuesAre DEF N
    <3> QED
      BY <3>1, <3>2
  <2> QED
    BY <2>4, <2>5, <2>6
<1>2. 1..N \subseteq S
  <2> HIDE DEF S
  <2> QED
    BY <1>0, <1>1, UpTo
<1> QED
  BY <1>2

\* The tensor of a value: its expression's, or that of the argument it copies.
TensorAt(fun, v) ==
    IF v[2] = 0 THEN Denotes(fun)[v[1]] ELSE Denotes(fun)[fun[v[1]].args[v[2]]]

\* An input has the tensor of the argument it stands for.
LEMMA InputIs ==
    ASSUME NEW fun \in Functions, NEW n \in 1 .. Len(fun), NEW i \in 1 .. Len(fun[n].args)
    PROVE  /\ InputOf(fun, n, i) \in Values(fun)
           /\ TensorAt(fun, InputOf(fun, n, i)) = Denotes(fun)[fun[n].args[i]]
           /\ TensorAt(fun, ValueOf(fun)[fun[n].args[i]]) = Denotes(fun)[fun[n].args[i]]
           /\ TensorAt(fun, <<n, i>>) = Denotes(fun)[fun[n].args[i]]
<1> DEFINE a == fun[n].args[i]
           v == ValueOf(fun)[a]
<1>1. a \in 1 .. Len(fun) /\ Len(fun[n].args) \in Nat
  BY ArgsBefore
<1>2. v \in (1..a) \X {0} /\ Denotes(fun)[v[1]] = Denotes(fun)[a] /\ v \in Values(fun)
  BY <1>1, ValueIs, DenotesValue
<1>3. i # 0
  BY <1>1
<1>4. InputOf(fun, n, i) = IF NeedsCopy(fun, n, i) THEN <<n, i>> ELSE v
  BY DEF InputOf
<1>5. NeedsCopy(fun, n, i) => <<n, i>> \in Values(fun)
  BY ValuesAre
<1> HIDE DEF v
<1>6. v[2] = 0
  BY <1>2
<1>7. TensorAt(fun, v) = Denotes(fun)[a]
  BY <1>2, <1>6 DEF TensorAt
<1>8. TensorAt(fun, <<n, i>>) = Denotes(fun)[a]
  BY <1>3 DEF TensorAt
<1> QED
  BY <1>2, <1>4, <1>5, <1>7, <1>8 DEF v

-----------------------------------------------------------------------------
(* Executions: the values *)

\* The row of value v, executed by plan p: where it has a tensor that is v's,
\* and it has it on the worker of v's virtual device.
RightAt(fun, p, v, row) ==
    /\ row \in [Workers -> {TensorAt(fun, v), Undefined}]
    /\ WorkerOf(p, v) \in Workers
    /\ row[WorkerOf(p, v)] = TensorAt(fun, v)

\* What has been executed so far is right: without collectives every register has
\* its value at home and nothing else anywhere, and every node so far its result.
RunInv ==
    /\ PlanInv
    /\ status \in {"lower", "tir", "execute"} => next = 1
    /\ status \in {"run", "done"} =>
          /\ NoCollectives(func) => \A v \in DOMAIN values : RightAt(func, plan, v, values[v])
          /\ \A k \in DOMAIN plan.nodes : k < next => plan.nodes[k].output \in DOMAIN values
    /\ status = "done" => plan.output_value \in DOMAIN values

\* Of Deployed, what the values and where the result is depend on.
Runnable == \A f \in Functions : PlacedEverywhere(f) /\ KernelsAnnotated(f)

\* What the caller supplies is right.
LEMMA SuppliedRight ==
    ASSUME Runnable, PlanInv, status = "execute", NEW n \in GivenValues
    PROVE  RightAt(func, plan, <<n, 0>>, HomeRow(n))
<1>1. func \in Functions /\ ctx \in LoweringContexts(func) /\ IsPlan
  BY DEF PlanInv, ContextInv
<1>2. PICK d : Agree(ctx, d) /\ plan = PlanWith(ctx, d, func)
  BY <1>1 DEF IsPlan
<1>3. n \in 1 .. Len(func) /\ func[n].kind \in {"param", "const"}
  BY <1>1, FunctionsAssumption DEF GivenValues
<1> DEFINE v == <<n, 0>>
<1>4. v \in Values(func)
  BY <1>1, <1>3, ValuesAre
<1>5. TensorAt(func, v) = TensorOf(n)
  BY <1>1, <1>3, DenotesIs DEF TensorAt, DenotesAt
<1> HIDE DEF v
<1>6. WorkerOf(plan, v) \in Workers
  BY <1>1, <1>2, <1>4, HomeIs DEF Runnable
<1>7. HomeRow(n) = [w \in Workers |-> IF w = WorkerOf(plan, v) THEN TensorOf(n) ELSE Undefined]
  BY DEF HomeRow, v
<1> QED
  BY <1>5, <1>6, <1>7 DEF RightAt, v

\* The first input of the node of an expression, if it has inputs.
LEMMA FirstInput ==
    ASSUME NEW fun \in Functions, NEW n \in 1 .. Len(fun)
    PROVE  /\ Inputs(fun, n) = <<>> <=> fun[n].args = <<>>
           /\ fun[n].args # <<>> => 1 \in 1 .. Len(fun[n].args)
                                    /\ Inputs(fun, n)[1] = InputOf(fun, n, 1)
<1> DEFINE a == fun[n].args
           s == Inputs(fun, n)
<1>1. a \in Seq(1 .. n - 1) /\ Len(a) \in Nat /\ DOMAIN a = 1 .. Len(a)
  BY ArgsBefore
<1>2. s = [i \in 1 .. Len(a) |-> InputOf(fun, n, i)]
  BY <1>1 DEF Inputs
<1> HIDE DEF a, s
<1>3. a # <<>> => 1 \in 1 .. Len(a)
  BY <1>1
<1>4. DOMAIN s = 1 .. Len(a)
  BY <1>2
<1>5. a # <<>> => s # <<>>
  BY <1>3, <1>4
<1>6. a = <<>> => s = <<>>
  <2>1. SUFFICES ASSUME a = <<>> PROVE s = <<>>
    OBVIOUS
  <2>2. Len(a) = 0
    BY <2>1
  <2> QED
    BY <1>2, <2>2
<1> QED
  BY <1>2, <1>3, <1>5, <1>6 DEF a, s

\* The node of an expression with inputs passes the first one on.
LEMMA PassesOn ==
    ASSUME NEW fun \in Functions, NEW n \in Emitting(fun), Inputs(fun, n) # <<>>
    PROVE  TensorAt(fun, <<n, 0>>) = TensorAt(fun, Inputs(fun, n)[1])
<1>1. n \in 1 .. Len(fun) /\ fun[n].kind \notin {"param", "const", "let"}
  BY DEF Emitting, Leaves
<1>2. fun[n].args # <<>> /\ 1 \in 1 .. Len(fun[n].args) /\ Inputs(fun, n)[1] = InputOf(fun, n, 1)
  BY <1>1, FirstInput
<1>3. Denotes(fun)[n] = Denotes(fun)[fun[n].args[1]]
  BY <1>1, <1>2, DenotesIs DEF DenotesAt
<1>4. TensorAt(fun, <<n, 0>>) = Denotes(fun)[n]
  BY DEF TensorAt
<1> QED
  BY <1>1, <1>2, <1>3, <1>4, InputIs

\* A kernel makes a right result, of nothing or of its first input.
LEMMA KernelRight ==
    ASSUME Runnable, PlanInv, status = "run", next <= Len(plan.nodes), Node.kind = "kernel",
           Node.worker_set \subseteq Workers
    PROVE  /\ Node.inputs = <<>> =>
                 RightAt(func, plan, Node.output,
                         [w \in Workers |-> IF w \in Node.worker_set THEN <<0>> ELSE Undefined])
           /\ \A row : /\ Node.inputs # <<>>
                       /\ RightAt(func, plan, Node.inputs[1], row)
                       /\ \A w \in Node.worker_set : row[w] # Undefined
                       => RightAt(func, plan, Node.output, row)
<1>1. /\ func \in Functions /\ ctx \in LoweringContexts(func)
      /\ \E d : Agree(ctx, d) /\ plan = PlanWith(ctx, d, func)
      /\ Node \in PlanNodes(ctx, func)
  BY AtNode
<1>2. PlacedEverywhere(func) /\ KernelsAnnotated(func)
  BY <1>1 DEF Runnable
<1>3. PICK d : Agree(ctx, d) /\ plan = PlanWith(ctx, d, func)
  BY <1>1
<1>4. Node.kind # "comm"
  OBVIOUS
<1>5. PICK n \in Emitting(func) : func[n].kind \notin CommunicationOps /\ Node = Kernel(ctx, func, n)
  <2> DEFINE x == Node
  <2> HIDE DEF x
  <2>1. x \in PlanNodes(ctx, func) /\ x.kind # "comm"
    BY <1>1, <1>4 DEF x
  <2>2. \E n \in Emitting(func) : func[n].kind \notin CommunicationOps /\ x = Kernel(ctx, func, n)
    BY <2>1, NodeIs, CommFields, InsertedFields
  <2> QED
    BY <2>2 DEF x
<1> DEFINE v == <<n, 0>>
           h == WorkerOf(plan, v)
<1>6. Node.inputs = Inputs(func, n) /\ Node.output = v
      /\ Node.worker_set = ComputeWorkers(ctx, func, n)
  BY <1>5, KernelFields
<1>7. v \in Values(func) /\ Node.worker_set = {h}
  BY <1>1, <1>2, <1>3, <1>5, <1>6, KernelHome
<1>8. h \in Workers
  BY <1>7
<1>9. ASSUME Node.inputs = <<>>
      PROVE  RightAt(func, plan, v,
                     [w \in Workers |-> IF w \in Node.worker_set THEN <<0>> ELSE Undefined])
  <2>1. n \in 1 .. Len(func) /\ func[n].kind \notin {"param", "const"}
    BY DEF Emitting, Leaves
  <2>2. func[n].args = <<>>
    BY <1>1, <1>6, <1>9, <2>1, FirstInput
  <2>3. Denotes(func)[n] = <<0>>
    BY <1>1, <2>1, <2>2, DenotesIs DEF DenotesAt
  <2>4. TensorAt(func, v) = <<0>>
    BY <2>3 DEF TensorAt
  <2> HIDE DEF v, h
  <2> QED
    BY <1>7, <1>8, <2>4 DEF RightAt, h
<1>10. ASSUME NEW row, Node.inputs # <<>>, RightAt(func, plan, Node.inputs[1], row),
              \A w \in Node.worker_set : row[w] # Undefined
       PROVE  RightAt(func, plan, v, row)
  <2>1. TensorAt(func, v) = TensorAt(func, Node.inputs[1])
    BY <1>1, <1>5, <1>6, <1>10, PassesOn
  <2> HIDE DEF v, h
  <2> QED
    BY <1>7, <1>8, <1>10, <2>1 DEF RightAt, h
<1> QED
  BY <1>6, <1>9, <1>10

\* A copy goes to the worker of its result.
LEMMA CopyHome ==
    ASSUME Runnable, PlanInv, status = "run", next <= Len(plan.nodes), Node.kind = "comm",
           Node.op_name = CopyOp, Node.inputs # <<>>
    PROVE  /\ DestinationWorker = WorkerOf(plan, Node.output)
           /\ TensorAt(func, Node.output) = TensorAt(func, Node.inputs[1])
<1>1. /\ func \in Functions /\ ctx \in LoweringContexts(func)
      /\ \E d : Agree(ctx, d) /\ plan = PlanWith(ctx, d, func)
      /\ Agree(ctx, plan.pass_ctx) /\ Node \in PlanNodes(ctx, func)
  BY AtNode
<1>2. PlacedEverywhere(func)
  BY <1>1 DEF Runnable
<1>3. PICK d : Agree(ctx, d) /\ plan = PlanWith(ctx, d, func)
  BY <1>1
<1> DEFINE x == Node
<1>4. DestinationWorker = IF x.attrs.dst # NoVD THEN ExecWorker(plan, x.attrs.dst)
                          ELSE WorkerOf(plan, x.output)
  BY DEF DestinationWorker
<1>5. ASSUME NEW v \in Values(func), ValueVD(func, v) \in NamedVDs(func)
      PROVE  ExecWorker(plan, ValueVD(func, v)) = WorkerOf(plan, v)
  <2>1. ValueVD(func, v) # NoVD
    BY <1>1, <1>5, NamedAre, ContextAssumption
  <2>2. WorkerOf(plan, v) = PlanWorker(ctx, ValueVD(func, v))
    BY <1>1, <1>2, <1>3, <2>1, HomeIs
  <2> QED
    BY <1>1, <1>2, <1>5, <2>2, Resolves
<1> HIDE DEF x
<1>6. ASSUME NEW n \in Emitting(func), x = Communication(ctx, func, n)
      PROVE  /\ DestinationWorker = WorkerOf(plan, x.output)
             /\ TensorAt(func, x.output) = TensorAt(func, x.inputs[1])
  <2>1. /\ x.inputs = Inputs(func, n) /\ x.output = <<n, 0>> /\ x.op_name = func[n].kind
        /\ x.attrs = NormalizedAttrs(func, n)
    BY <1>6, CommFields
  <2>2. n \in 1 .. Len(func) /\ func[n].kind = CopyOp /\ CopyOp \notin {"var", "let"}
    BY <2>1 DEF Emitting, CopyOp, x
  <2>3. x.attrs.dst = VDOf(func, n)
    <3>1. x.attrs = CopyAttrs(func, n)
      BY <2>1, <2>2 DEF NormalizedAttrs
    <3> QED
      BY <1>1, <2>2, <3>1, CopyTarget
  <2>4. <<n, 0>> \in Values(func)
    BY <1>1, <2>2, ValuesAre
  <2>5. ValueVD(func, <<n, 0>>) = VDOf(func, n)
    BY DEF ValueVD
  <2>6. VDOf(func, n) # NoVD => ExecWorker(plan, VDOf(func, n)) = WorkerOf(plan, <<n, 0>>)
    BY <1>1, <1>5, <2>2, <2>4, <2>5, NamedAre
  <2>7. TensorAt(func, <<n, 0>>) = TensorAt(func, Inputs(func, n)[1])
    <3>1. Inputs(func, n) # <<>>
      BY <2>1 DEF x
    <3> QED
      BY <1>1, <3>1, PassesOn
  <2> QED
    BY <1>4, <2>1, <2>3, <2>6, <2>7
<1>7. ASSUME NEW n \in 1 .. Len(func), NEW i \in 1 .. Len(func[n].args),
             NeedsCopy(func, n, i), x = InsertedCopy(ctx, func, n, i)
      PROVE  /\ DestinationWorker = WorkerOf(plan, x.output)
             /\ TensorAt(func, x.output) = TensorAt(func, x.inputs[1])
  <2>1. /\ x.inputs = <<ValueOf(func)[func[n].args[i]]>> /\ x.output = <<n, i>>
        /\ x.attrs.dst = func[n].vd
    BY <1>7, InsertedFields
  <2>2. func[n].vd # NoVD
    BY <1>7 DEF NeedsCopy
  <2>3. <<n, i>> \in Values(func) /\ func[n].vd \in NamedVDs(func)
    BY <1>1, <1>7, <2>2, ValuesAre, NamedAre
  <2>4. ValueVD(func, <<n, i>>) = func[n].vd
    <3>1. Len(func[n].args) \in Nat
      BY <1>1, ArgsBefore
    <3>2. i # 0
      BY <3>1
    <3> QED
      BY <3>2 DEF ValueVD
  <2>5. ExecWorker(plan, func[n].vd) = WorkerOf(plan, <<n, i>>)
    BY <1>5, <2>3, <2>4
  <2>6. TensorAt(func, <<n, i>>) = TensorAt(func, ValueOf(func)[func[n].args[i]])
    BY <1>1, InputIs
  <2>7. x.inputs[1] = ValueOf(func)[func[n].args[i]]
    BY <2>1
  <2> QED
    BY <1>4, <2>1, <2>2, <2>5, <2>6, <2>7
<1>8. x \in PlanNodes(ctx, func) /\ x.kind = "comm"
  BY <1>1 DEF x
<1>9. ~ \E n \in Emitting(func) : func[n].kind \notin CommunicationOps /\ x = Kernel(ctx, func, n)
  BY <1>8, KernelFields
<1> QED
  BY <1>6, <1>7, <1>8, <1>9, NodeIs DEF x

\* It makes a right result of a right input.
LEMMA CopyRight ==
    ASSUME Runnable, PlanInv, status = "run", next <= Len(plan.nodes), Node.kind = "comm",
           Node.op_name = CopyOp, Node.inputs # <<>>,
           NEW row, RightAt(func, plan, Node.inputs[1], row),
           Copy(row, row, SourceWorker, DestinationWorker).status = "ok"
    PROVE  RightAt(func, plan, Node.output,
                   Copy(row, row, SourceWorker, DestinationWorker).row)
<1> DEFINE s == SourceWorker
           t == DestinationWorker
           T == TensorAt(func, Node.output)
           c == Copy(row, row, s, t)
<1>1. t = WorkerOf(plan, Node.output) /\ T = TensorAt(func, Node.inputs[1])
  BY CopyHome
<1>2. row \in [Workers -> {T, Undefined}]
  BY <1>1 DEF RightAt
<1> HIDE DEF s, t, T
<1>3. s \in Workers /\ t \in Workers /\ row[s] # Undefined
      /\ c = Result("ok", [row EXCEPT ![t] = row[s]])
  <2>1. c.status = "ok" /\ "throw" # "ok"
    BY DEF s, t
  <2> QED
    BY <2>1 DEF Copy, Result
<1>4. c.row = [row EXCEPT ![t] = row[s]]
  BY <1>3 DEF Result
<1>5. row[s] = T
  BY <1>2, <1>3
<1>6. c.row \in [Workers -> {T, Undefined}] /\ c.row[t] = T
  BY <1>2, <1>3, <1>4, <1>5
<1> QED
  BY <1>1, <1>3, <1>6 DEF RightAt, T, s, t

\* A function without collectives has no nodes for them.
LEMMA OnlyCopies ==
    ASSUME PlanInv, status = "run", next <= Len(plan.nodes), Node.kind = "comm",
           NoCollectives(func)
    PROVE  Node.op_name = CopyOp
<1>1. func \in Functions /\ Node \in PlanNodes(ctx, func)
  BY AtNode
<1>2. DOMAIN func = 1 .. Len(func)
  BY <1>1, FunctionsAssumption
<1> DEFINE x == Node
<1>3. x \in PlanNodes(ctx, func) /\ x.kind = "comm"
  BY <1>1
<1> HIDE DEF x
<1>4. ~ \E n \in Emitting(func) : func[n].kind \notin CommunicationOps /\ x = Kernel(ctx, func, n)
  BY <1>3, KernelFields
<1>5. ASSUME NEW n \in Emitting(func), func[n].kind \in CommunicationOps,
             x = Communication(ctx, func, n)
      PROVE  x.op_name = CopyOp
  <2>1. x.op_name = func[n].kind /\ n \in DOMAIN func
    BY <1>2, <1>5, CommFields DEF Emitting
  <2> QED
    BY <1>5, <2>1 DEF NoCollectives
<1>6. ASSUME NEW n, NEW i, x = InsertedCopy(ctx, func, n, i) PROVE x.op_name = CopyOp
  BY <1>6, InsertedFields
<1> QED
  BY <1>3, <1>4, <1>5, <1>6, NodeIs DEF x

\* A node that has ended.
LEMMA EndsKeeps ==
    ASSUME RunInv, PlanInv', status = "run", next <= Len(plan.nodes), NEW result, Ends(result),
           result.status = "ok" /\ NoCollectives(func)
              => RightAt(func, plan, Node.output, result.row)
    PROVE  RunInv'
<1>1. /\ values' = [v \in DOMAIN values \cup {Node.output} |->
                       IF v = Node.output THEN result.row ELSE values[v]]
      /\ func' = func /\ plan' = plan
      /\ IF result.status = "ok" THEN next' = next + 1 /\ status' = status
         ELSE next' = next /\ status' = "throw"
  BY DEF Ends, Store
<1>2. CASE result.status # "ok"
  <2>1. status' = "throw"
    BY <1>1, <1>2
  <2> QED
    BY <2>1 DEF RunInv
<1>3. CASE result.status = "ok"
  <2>1. next' = next + 1 /\ status' = "run"
    BY <1>1, <1>3
  <2>2. ASSUME NoCollectives(func), NEW v \in DOMAIN values'
        PROVE  RightAt(func, plan, v, values'[v])
    <3>1. v = Node.output => values'[v] = result.row
      BY <1>1
    <3>2. v # Node.output => v \in DOMAIN values /\ values'[v] = values[v]
      BY <1>1, <2>2
    <3>3. v # Node.output => RightAt(func, plan, v, values[v])
      BY <2>2, <3>2 DEF RunInv
    <3> QED
      BY <1>3, <2>2, <3>1, <3>2, <3>3
  <2>3. ASSUME NEW k \in DOMAIN plan.nodes, k < next + 1
        PROVE  plan.nodes[k].output \in DOMAIN values'
    <3>1. /\ DOMAIN plan.nodes = 1 .. Len(plan.nodes) /\ Len(plan.nodes) \in Nat
          /\ next \in Nat \ {0}
      BY AtNode DEF RunInv
    <3>2. k < next \/ k = next
      BY <2>3, <3>1
    <3>3. k < next => plan.nodes[k].output \in DOMAIN values
      BY DEF RunInv
    <3>4. k = next => plan.nodes[k].output = Node.output
      BY DEF Node
    <3> QED
      BY <1>1, <3>2, <3>3, <3>4
  <2> QED
    BY <1>1, <2>1, <2>2, <2>3 DEF RunInv
<1> QED
  BY <1>2, <1>3

\* Every step keeps the invariant.
LEMMA RunStep ==
    ASSUME Runnable
    PROVE  RunInv /\ [Next]_vars => RunInv'
<1> SUFFICES ASSUME RunInv, [Next]_vars PROVE RunInv'
  OBVIOUS
<1>0. PlanInv /\ PlanInv'
  BY PlanStep DEF RunInv
<1>1. CASE \/ \E c \in Ambient : OpenScope(c)
           \/ CloseScope \/ Lower \/ LowerCompute \/ ThroughJson
  <2>1. /\ status \in {"lower", "tir", "execute"} /\ next' = next
        /\ status' \in {"lower", "tir", "execute", "throw"}
    BY <1>1 DEF OpenScope, CloseScope, Lower, LowerCompute, ThroughJson
  <2> QED
    BY <1>0, <2>1 DEF RunInv
<1>2. CASE ExecuteCall \/ ExecutePlanEntryPoint
  <2>1. /\ status = "execute" /\ status' = "run" /\ UNCHANGED <<func, plan, next>>
        /\ next = 1
    BY <1>2 DEF ExecuteCall, ExecutePlanEntryPoint, RunInv
  <2>2. ASSUME NEW v \in DOMAIN values' PROVE RightAt(func, plan, v, values'[v])
    <3>1. ExecuteCall
      BY <1>2, <2>2 DEF ExecutePlanEntryPoint
    <3>2. values' = [x \in {<<n, 0>> : n \in GivenValues} |-> HomeRow(x[1])]
      BY <3>1 DEF ExecuteCall
    <3>3. PICK n \in GivenValues : v = <<n, 0>>
      BY <2>2, <3>2
    <3>4. values'[v] = HomeRow(n)
      BY <3>2, <3>3
    <3> QED
      BY <1>0, <2>1, <3>3, <3>4, SuppliedRight
  <2>3. \A k \in DOMAIN plan.nodes : ~(k < next)
    <3>1. /\ DOMAIN plan'.nodes = 1 .. Len(plan'.nodes)
      BY <1>0, <2>1, AtNode
    <3> QED
      BY <2>1, <3>1
  <2> QED
    BY <1>0, <2>1, <2>2, <2>3 DEF RunInv
<1>3. CASE InputMissing
  <2>1. status' = "throw"
    BY <1>3 DEF InputMissing
  <2> QED
    BY <1>0, <2>1 DEF RunInv
<1>4. CASE ExecuteSource
  <2> DEFINE ok == Node.worker_set \subseteq Workers
             row == [w \in Workers |-> IF w \in Node.worker_set THEN <<0>> ELSE Undefined]
             result == IF ok THEN Result("ok", row)
                       ELSE Result("throw", [w \in Workers |-> Undefined])
  <2>1. /\ status = "run" /\ next <= Len(plan.nodes) /\ Node.kind = "kernel"
        /\ Node.inputs = <<>> /\ Ends(result)
    BY <1>4 DEF ExecuteSource
  <2>2. ok => RightAt(func, plan, Node.output, row)
    BY <1>0, <2>1, KernelRight
  <2> HIDE DEF ok, row
  <2>3. result.status = "ok" => ok /\ result.row = row
    BY DEF Result
  <2> HIDE DEF result
  <2> QED
    BY <1>0, <2>1, <2>2, <2>3, EndsKeeps
<1>5. CASE ExecuteKernel
  <2> DEFINE input == values[Node.inputs[1]]
             ok == Node.worker_set \subseteq Workers
                   /\ \A w \in Node.worker_set : input[w] # Undefined
             result == Result(IF ok THEN "ok" ELSE "throw", input)
  <2>1. /\ status = "run" /\ next <= Len(plan.nodes) /\ Node.kind = "kernel"
        /\ Node.inputs # <<>> /\ Node.inputs[1] \in DOMAIN values /\ Ends(result)
    BY <1>5 DEF ExecuteKernel
  <2>2. NoCollectives(func) => RightAt(func, plan, Node.inputs[1], input)
    BY <2>1 DEF RunInv
  <2>3. ok /\ NoCollectives(func) => RightAt(func, plan, Node.output, input)
    BY <1>0, <2>1, <2>2, KernelRight
  <2> HIDE DEF ok, input
  <2>4. result.status = "ok" => ok /\ result.row = input
    BY DEF Result
  <2> HIDE DEF result
  <2> QED
    BY <1>0, <2>1, <2>3, <2>4, EndsKeeps
<1>6. CASE ExecuteComm
  <2> DEFINE input == values[Node.inputs[1]]
  <2>1. /\ status = "run" /\ next <= Len(plan.nodes) /\ Node.kind = "comm"
        /\ Node.inputs # <<>> /\ Node.inputs[1] \in DOMAIN values
    BY <1>6 DEF ExecuteComm
  <2>2. PICK result : Ends(result) /\ (Node.op_name = CopyOp =>
            result = Copy(input, input, SourceWorker, DestinationWorker))
    BY <1>6 DEF ExecuteComm, CopyOp
  <2>3. ASSUME result.status = "ok", NoCollectives(func)
        PROVE  RightAt(func, plan, Node.output, result.row)
    <3>1. RightAt(func, plan, Node.inputs[1], input)
      BY <2>1, <2>3 DEF RunInv
    <3>2. Node.op_name = CopyOp
      BY <1>0, <2>1, <2>3, OnlyCopies
    <3> QED
      BY <1>0, <2>1, <2>2, <2>3, <3>1, <3>2, CopyRight
  <2> QED
    BY <1>0, <2>1, <2>2, <2>3, EndsKeeps
<1>7. CASE ReturnOutput
  <2>1. /\ UNCHANGED <<func, plan, next, values>> /\ status = "run"
        /\ status' \in {"done", "throw"}
        /\ status' = "done" => plan.output_value \in DOMAIN values
    BY <1>7 DEF ReturnOutput
  <2> QED
    BY <1>0, <2>1 DEF RunInv
<1>8. CASE Over \/ UNCHANGED vars
  <2>1. UNCHANGED <<func, plan, next, values, status>>
    BY <1>8 DEF Over, vars
  <2> QED
    BY <1>0, <2>1 DEF RunInv
<1> QED
  BY <1>1, <1>2, <1>3, <1>4, <1>5, <1>6, <1>7, <1>8 DEF Next, Step

\* Execution keeps every value, where it is, that of its expression, and on the
\* worker of its virtual device.
THEOREM RunInvariance ==
    ASSUME Runnable
    PROVE  Spec => []RunInv
<1>1. Init => RunInv
  <2> SUFFICES ASSUME Init PROVE RunInv
    OBVIOUS
  <2>1. PlanInv
    BY PlanInit
  <2> QED
    BY <2>1 DEF Init, RunInv
<1>2. RunInv /\ [Next]_vars => RunInv'
  BY RunStep
<1> QED
  BY <1>1, <1>2, PTL DEF Spec

\* ExecutionPlanExecutor: where the functions' virtual devices are placed and
\* kernels are annotated with their inputs, an execution of a function without
\* collectives that returns has the function's value on the output's worker.
THEOREM OutputAtHomeHolds ==
    ASSUME Runnable
    PROVE  Spec => []OutputAtHome
<1>1. RunInv => OutputAtHome
  <2> SUFFICES ASSUME RunInv, status = "done", NoCollectives(func)
               PROVE  values[plan.output_value][WorkerOf(plan, plan.output_value)]
                        = Denotes(func)[Len(func)]
    BY DEF OutputAtHome
  <2> DEFINE v == plan.output_value
  <2>1. /\ func \in Functions
        /\ \E d : Agree(ctx, d) /\ plan = PlanWith(ctx, d, func)
    BY AtNode DEF RunInv
  <2>2. v = ValueOf(func)[Len(func)]
    BY <2>1 DEF PlanWith
  <2>3. Len(func) \in 1 .. Len(func)
    BY <2>1, FunctionsAssumption
  <2>4. v \in (1 .. Len(func)) \X {0} /\ Denotes(func)[v[1]] = Denotes(func)[Len(func)]
    BY <2>1, <2>2, <2>3, ValueIs, DenotesValue
  <2>5. TensorAt(func, v) = Denotes(func)[Len(func)]
    <3>1. v[2] = 0
      BY <2>4
    <3> QED
      BY <2>4, <3>1 DEF TensorAt
  <2>6. RightAt(func, plan, v, values[v])
    BY DEF RunInv
  <2> QED
    BY <2>5, <2>6 DEF RightAt
<1> QED
  BY <1>1, RunInvariance, PTL

-----------------------------------------------------------------------------
(* Executions: where there are tensors *)

\* Every worker has a tensor of value v.
Spread(fun, v) == v[2] = 0 /\ Spreads(fun, v[1])

\* A row of value v: there is a tensor on the worker of v's virtual device, or
\* with everybody.
Held(fun, p, v, row) ==
    /\ v \in Values(fun) /\ row \in Rows
    /\ row[WorkerOf(p, v)] # Undefined
    /\ Spread(fun, v) => \A w \in Workers : row[w] # Undefined

\* Whatever tensors collectives make of it, every value is where it is looked for.
LocalInv ==
    /\ RunInv
    /\ status \in {"run", "done"} => \A v \in DOMAIN values : Held(func, plan, v, values[v])

\* What the caller supplies is held.
LEMMA SuppliedHeld ==
    ASSUME Runnable, PlanInv, status = "execute", NEW n \in GivenValues
    PROVE  Held(func, plan, <<n, 0>>, HomeRow(n))
<1>1. func \in Functions /\ n \in 1 .. Len(func) /\ func[n].kind \in {"param", "const"}
  BY FunctionsAssumption DEF PlanInv, ContextInv, GivenValues
<1> DEFINE v == <<n, 0>>
<1>2. v \in Values(func)
  BY <1>1, ValuesAre
<1>3. ~Spread(func, v)
  BY <1>1 DEF Spread, Spreads
<1>4. TensorAt(func, v) = Denotes(func)[n] /\ Denotes(func)[n] \in Tensors
  BY <1>1, DenotesIs DEF TensorAt
<1>5. RightAt(func, plan, v, HomeRow(n))
  BY SuppliedRight
<1> HIDE DEF v
<1> QED
  BY <1>2, <1>3, <1>4, <1>5, UndefinedAssumption DEF Held, RightAt, Rows, v

\* So is what a kernel makes, of nothing or of an input its workers have.
LEMMA KernelHeld ==
    ASSUME Runnable, PlanInv, status = "run", next <= Len(plan.nodes), Node.kind = "kernel",
           Node.worker_set \subseteq Workers
    PROVE  /\ Held(func, plan, Node.output,
                   [w \in Workers |-> IF w \in Node.worker_set THEN <<0>> ELSE Undefined])
           /\ \A row \in Rows : (\A w \in Node.worker_set : row[w] # Undefined)
                                => Held(func, plan, Node.output, row)
<1>1. /\ func \in Functions /\ ctx \in LoweringContexts(func)
      /\ \E d : Agree(ctx, d) /\ plan = PlanWith(ctx, d, func)
      /\ Node \in PlanNodes(ctx, func)
  BY AtNode
<1>2. PlacedEverywhere(func) /\ KernelsAnnotated(func)
  BY <1>1 DEF Runnable
<1>3. PICK d : Agree(ctx, d) /\ plan = PlanWith(ctx, d, func)
  BY <1>1
<1>4. PICK n \in Emitting(func) : func[n].kind \notin CommunicationOps /\ Node = Kernel(ctx, func, n)
  <2> DEFINE x == Node
  <2>1. x \in PlanNodes(ctx, func) /\ x.kind = "kernel"
    BY <1>1
  <2> HIDE DEF x
  <2>2. x.kind # "comm"
    BY <2>1
  <2>3. \E n \in Emitting(func) : func[n].kind \notin CommunicationOps /\ x = Kernel(ctx, func, n)
    BY <2>1, <2>2, NodeIs, CommFields, InsertedFields
  <2> QED
    BY <2>3 DEF x
<1> DEFINE v == <<n, 0>>
           h == WorkerOf(plan, v)
<1>5. Node.output = v /\ Node.worker_set = ComputeWorkers(ctx, func, n)
  BY <1>4, KernelFields
<1>6. v \in Values(func) /\ Node.worker_set = {h}
  BY <1>1, <1>2, <1>3, <1>4, <1>5, KernelHome
<1>7. ~Spread(func, v)
  BY <1>4 DEF Spread, Spreads, CommunicationOps, Collectives
<1>8. <<0>> \in Tensors
  BY DEF Tensors
<1>9. [w \in Workers |-> IF w \in Node.worker_set THEN <<0>> ELSE Undefined] \in Rows
  BY <1>8 DEF Rows
<1> HIDE DEF v, h
<1>10. ASSUME NEW row \in Rows, row[h] # Undefined PROVE Held(func, plan, v, row)
  BY <1>6, <1>7, <1>10 DEF Held, h
<1>11. h \in Workers
  BY <1>6
<1>12. Held(func, plan, v, [w \in Workers |-> IF w \in Node.worker_set THEN <<0>> ELSE Undefined])
  BY <1>6, <1>8, <1>9, <1>10, <1>11, UndefinedAssumption
<1> QED
  BY <1>5, <1>6, <1>10, <1>12

\* A communication node copies, or is that of a call of a collective.
LEMMA CommIs ==
    ASSUME PlanInv, status = "run", next <= Len(plan.nodes), Node.kind = "comm"
    PROVE  /\ Node.output \in Values(func)
           /\ \/ Node.op_name = CopyOp /\ ~Spread(func, Node.output)
              \/ \E n \in 1 .. Len(func) : /\ func[n].kind \in CommunicationOps \ {CopyOp}
                                           /\ Node = Communication(ctx, func, n)
<1>1. func \in Functions /\ Node \in PlanNodes(ctx, func)
  BY AtNode
<1> DEFINE x == Node
<1>2. x \in PlanNodes(ctx, func) /\ x.kind = "comm"
  BY <1>1
<1> HIDE DEF x
<1>3. ~ \E n \in Emitting(func) : func[n].kind \notin CommunicationOps /\ x = Kernel(ctx, func, n)
  BY <1>2, KernelFields
<1>4. ASSUME NEW n \in Emitting(func), func[n].kind \in CommunicationOps,
             x = Communication(ctx, func, n)
      PROVE  /\ x.output \in Values(func)
             /\ \/ x.op_name = CopyOp /\ ~Spread(func, x.output)
                \/ func[n].kind # CopyOp /\ n \in 1 .. Len(func)
  <2>1. n \in 1 .. Len(func) /\ func[n].kind \notin {"var", "let"}
    BY DEF Emitting, Leaves
  <2>2. x.output = <<n, 0>> /\ x.op_name = func[n].kind
    BY <1>4, CommFields
  <2>3. func[n].kind = CopyOp => ~Spread(func, <<n, 0>>)
    BY DEF Spread, Spreads, CopyOp
  <2> QED
    BY <1>1, <2>1, <2>2, <2>3, ValuesAre
<1>5. ASSUME NEW n \in 1 .. Len(func), NEW i \in 1 .. Len(func[n].args),
             NeedsCopy(func, n, i), x = InsertedCopy(ctx, func, n, i)
      PROVE  x.output \in Values(func) /\ x.op_name = CopyOp /\ ~Spread(func, x.output)
  <2>1. x.output = <<n, i>> /\ x.op_name = CopyOp
    BY <1>5, InsertedFields
  <2>2. Len(func[n].args) \in Nat
    BY <1>1, ArgsBefore
  <2>3. <<n, i>>[2] # 0
    BY <2>2
  <2> QED
    BY <1>1, <1>5, <2>1, <2>3, ValuesAre DEF Spread
<1> QED
  BY <1>2, <1>3, <1>4, <1>5, NodeIs DEF x

\* What a copy brings to the worker of its result is held.
LEMMA CopyHeld ==
    ASSUME Runnable, PlanInv, status = "run", next <= Len(plan.nodes), Node.kind = "comm",
           Node.op_name = CopyOp, Node.inputs # <<>>, NEW row \in Rows,
           Copy(row, row, SourceWorker, DestinationWorker).status = "ok"
    PROVE  Held(func, plan, Node.output,
                Copy(row, row, SourceWorker, DestinationWorker).row)
<1> DEFINE s == SourceWorker
           t == DestinationWorker
           c == Copy(row, row, s, t)
<1>1. t = WorkerOf(plan, Node.output)
  BY CopyHome
<1>2. Node.output \in Values(func) /\ ~Spread(func, Node.output)
  <2>1. ASSUME NEW n, func[n].kind # CopyOp, Node = Communication(ctx, func, n)
        PROVE  Node.op_name # CopyOp
    BY <2>1, CommFields
  <2> QED
    BY <2>1, CommIs
<1> HIDE DEF s, t
<1>3. s \in Workers /\ t \in Workers /\ row[s] # Undefined
      /\ c = Result("ok", [row EXCEPT ![t] = row[s]])
  <2>1. c.status = "ok" /\ "throw" # "ok"
    BY DEF s, t
  <2> QED
    BY <2>1 DEF Copy, Result
<1>4. c.row \in Rows
  BY CopyRow
<1>5. c.row[t] # Undefined
  BY <1>3 DEF Result, Rows
<1> HIDE DEF c
<1>6. Held(func, plan, Node.output, c.row)
  BY <1>1, <1>2, <1>4, <1>5 DEF Held
<1> QED
  BY <1>6 DEF c, s, t

\* Where a call of SendToWorker or RecvFromWorker with attributes a leaves a tensor.
Receiver(op, a) == IF op = "device.send_to_worker" THEN a.root_worker ELSE 0

\* A collective of the executor, from a register into itself.
LEMMA CollectiveKeeps ==
    ASSUME NEW op \in CommunicationOps \ {CopyOp}, NEW a \in AttrsOf(op), NEW row \in Rows,
           op = "device.gather_to_worker0" /\ a.in_group => WorkersPerGroup > 0, NEW result,
           result = CASE op = "device.allreduce" -> AllReduce(row, row, a.reduce_kind)
                      [] op = "device.broadcast_from_worker0" ->
                           BroadcastFromWorker0(row, row, a.in_group)
                      [] op = "device.scatter_from_worker0" ->
                           ScatterFromWorker0(row, row, a.in_group)
                      [] op = "device.gather_to_worker0" ->
                           GatherToWorker0(row, row, a.in_group)
                      [] op = "device.send_to_worker" -> SendToWorker(row, row, a.root_worker)
                      [] op = "device.recv_from_worker" -> RecvFromWorker(row, row, a.root_worker)
    PROVE  /\ Keeps(row, result)
           /\ result.status = "ok"
              /\ (\/ op = "device.allreduce"
                  \/ /\ op \in {"device.broadcast_from_worker0", "device.scatter_from_worker0"}
                     /\ a.in_group => Grouped = Workers) =>
                 \A w \in Workers : result.row[w] # Undefined
           /\ result.status = "ok" /\ op \in PointToPoint =>
                 result.row[Receiver(op, a)] # Undefined
<1>1. a.in_group \in BOOLEAN
  BY DEF AttrsOf
<1>2. CASE op = "device.allreduce"
  BY <1>2, AllReduceKeeps DEF PointToPoint
<1>3. CASE op = "device.broadcast_from_worker0"
  BY <1>1, <1>3, BroadcastKeeps DEF PointToPoint
<1>4. CASE op = "device.scatter_from_worker0"
  BY <1>1, <1>4, ScatterKeeps DEF PointToPoint
<1>5. CASE op = "device.gather_to_worker0"
  <2>1. Receivers(a.in_group) > 0
    BY <1>5, SessionSize DEF Receivers
  <2> QED
    BY <1>1, <1>5, <2>1, GatherKeeps DEF PointToPoint
<1>6. CASE op \in PointToPoint
  <2>1. CASE op = "device.send_to_worker"
    <3>1. result = Copy(row, row, 0, a.root_worker)
      BY <2>1 DEF SendToWorker
    <3> QED
      BY <2>1, <3>1, CopyKeeps DEF Receiver
  <2>2. CASE op = "device.recv_from_worker"
    <3>1. result = Copy(row, row, a.root_worker, 0)
      BY <2>2 DEF RecvFromWorker
    <3> QED
      BY <2>2, <3>1, CopyKeeps DEF Receiver
  <2> QED
    BY <1>6, <2>1, <2>2 DEF PointToPoint
<1>7. op \in PointToPoint => op \notin Collectives
  BY DEF PointToPoint, Collectives
<1> QED
  BY <1>2, <1>3, <1>4, <1>5, <1>6, <1>7 DEF CommunicationOps, Collectives

\* It leaves a tensor where its result is looked for.
LEMMA CollectiveHeld ==
    ASSUME Deployed, PlanInv, status = "run", next <= Len(plan.nodes), Node.kind = "comm",
           Node.inputs # <<>>, NEW n \in 1 .. Len(func),
           func[n].kind \in CommunicationOps \ {CopyOp}, Node = Communication(ctx, func, n),
           NEW row, Held(func, plan, Node.inputs[1], row),
           NEW result, result.status = "ok", Keeps(row, result),
           Spreads(func, n) => \A w \in Workers : result.row[w] # Undefined,
           func[n].kind \in PointToPoint =>
              result.row[Receiver(func[n].kind, NormalizedAttrs(func, n))] # Undefined
    PROVE  Held(func, plan, Node.output, result.row)
<1>1. /\ func \in Functions /\ ctx \in LoweringContexts(func)
      /\ \E d : Agree(ctx, d) /\ plan = PlanWith(ctx, d, func)
  BY AtNode
<1>2. PICK d : Agree(ctx, d) /\ plan = PlanWith(ctx, d, func)
  BY <1>1
<1>3. PlacedEverywhere(func) /\ CollectivesReach(func) /\ DOMAIN func = 1 .. Len(func)
  BY <1>1, FunctionsAssumption DEF Deployed
<1> DEFINE v == <<n, 0>>
           u == ValueOf(func)[func[n].args[1]]
<1>4. Node.inputs = Inputs(func, n) /\ Node.output = v
  BY CommFields
<1>5. func[n].args # <<>> /\ Node.inputs[1] = u
  <2>1. func[n].args # <<>> /\ Node.inputs[1] = InputOf(func, n, 1)
    BY <1>1, <1>4, FirstInput
  <2>2. func[n].kind # "call"
    BY DEF CommunicationOps, CopyOp, Collectives, PointToPoint
  <2> QED
    BY <2>1, <2>2 DEF InputOf, NeedsCopy
<1>6. u[2] = 0
  <2>1. func[n].args[1] \in 1 .. Len(func)
    BY <1>1, <1>5, FirstInput, ArgsBefore
  <2> QED
    BY <1>1, <2>1, ValueIs
<1>7. v \in Values(func) /\ ValueVD(func, v) = VDOf(func, n)
  <2>1. func[n].kind \notin {"var", "let"}
    BY DEF CommunicationOps, CopyOp, Collectives, PointToPoint
  <2> QED
    BY <1>1, <2>1, ValuesAre DEF ValueVD
<1>8. ~Spreads(func, n) /\ ~Delivers(func, n) => ValueVD(func, u) = VDOf(func, n) \/ Spreads(func, u[1])
  BY <1>3, <1>5 DEF CollectivesReach
<1>9. Spread(func, v) => Spreads(func, n)
  BY DEF Spread
<1> HIDE DEF u, v
<1>10. /\ u \in Values(func) /\ row \in Rows /\ row[WorkerOf(plan, u)] # Undefined
       /\ Spreads(func, u[1]) => \A w \in Workers : row[w] # Undefined
  BY <1>5, <1>6 DEF Held, Spread
<1>11. WorkerOf(plan, v) \in Workers
  BY <1>1, <1>2, <1>3, <1>7, HomeIs
<1>12. ValueVD(func, u) = VDOf(func, n) => WorkerOf(plan, u) = WorkerOf(plan, v)
  BY <1>1, <1>2, <1>3, <1>7, <1>10, HomeIs
<1>13. result.row \in Rows /\ \A w \in Workers : row[w] # Undefined => result.row[w] # Undefined
  BY DEF Keeps
<1>14. Delivers(func, n) => /\ func[n].kind \in PointToPoint
                            /\ WorkerOf(plan, v) = Receiver(func[n].kind, NormalizedAttrs(func, n))
  <2>1. WorkerOf(plan, v) = IF VDOf(func, n) = NoVD THEN 0 ELSE PlanWorker(ctx, VDOf(func, n))
    BY <1>1, <1>2, <1>3, <1>7, HomeIs
  <2> QED
    BY <1>1, <2>1 DEF Delivers, Receiver
<1>15. result.row[WorkerOf(plan, v)] # Undefined
  BY <1>8, <1>10, <1>11, <1>12, <1>13, <1>14
<1> QED
  BY <1>4, <1>7, <1>9, <1>13, <1>15 DEF Held

\* A node that has ended leaves what is held.
LEMMA EndsHeld ==
    ASSUME LocalInv, RunInv', status = "run", NEW result, Ends(result),
           result.status = "ok" => Held(func, plan, Node.output, result.row)
    PROVE  LocalInv'
<1>1. /\ values' = [v \in DOMAIN values \cup {Node.output} |->
                       IF v = Node.output THEN result.row ELSE values[v]]
      /\ func' = func /\ plan' = plan
      /\ result.status # "ok" => status' = "throw"
  BY DEF Ends, Store
<1>2. ASSUME result.status = "ok", NEW v \in DOMAIN values'
      PROVE  Held(func, plan, v, values'[v])
  <2>1. v = Node.output => values'[v] = result.row
    BY <1>1
  <2>2. v # Node.output => v \in DOMAIN values /\ values'[v] = values[v]
    BY <1>1, <1>2
  <2>3. v # Node.output => Held(func, plan, v, values[v])
    BY <2>2 DEF LocalInv
  <2> QED
    BY <1>2, <2>1, <2>2, <2>3
<1> QED
  BY <1>1, <1>2 DEF LocalInv

\* Every step keeps tensors where they are looked for.
LEMMA LocalStep ==
    ASSUME Deployed
    PROVE  LocalInv /\ [Next]_vars => LocalInv'
<1> SUFFICES ASSUME LocalInv, [Next]_vars PROVE LocalInv'
  OBVIOUS
<1>0. Runnable /\ RunInv /\ RunInv' /\ PlanInv
  <2>1. Runnable
    BY DEF Deployed, Runnable
  <2> QED
    BY <2>1, RunStep DEF LocalInv, RunInv
<1>1. CASE \/ \E c \in Ambient : OpenScope(c)
           \/ CloseScope \/ Lower \/ LowerCompute \/ ThroughJson \/ InputMissing
  <2>1. status' \in {"lower", "tir", "execute", "throw"}
    BY <1>1 DEF OpenScope, CloseScope, Lower, LowerCompute, ThroughJson, InputMissing
  <2> QED
    BY <1>0, <2>1 DEF LocalInv
<1>2. CASE ExecuteCall \/ ExecutePlanEntryPoint
  <2>1. status = "execute" /\ UNCHANGED <<func, plan>>
    BY <1>2 DEF ExecuteCall, ExecutePlanEntryPoint
  <2>2. ASSUME NEW v \in DOMAIN values' PROVE Held(func, plan, v, values'[v])
    <3>1. ExecuteCall
      BY <1>2, <2>2 DEF ExecutePlanEntryPoint
    <3>2. values' = [x \in {<<n, 0>> : n \in GivenValues} |-> HomeRow(x[1])]
      BY <3>1 DEF ExecuteCall
    <3>3. PICK n \in GivenValues : v = <<n, 0>>
      BY <2>2, <3>2
    <3>4. values'[v] = HomeRow(n)
      BY <3>2, <3>3
    <3> QED
      BY <1>0, <2>1, <3>3, <3>4, SuppliedHeld
  <2> QED
    BY <1>0, <2>1, <2>2 DEF LocalInv
<1>3. CASE ExecuteSource
  <2> DEFINE ok == Node.worker_set \subseteq Workers
             row == [w \in Workers |-> IF w \in Node.worker_set THEN <<0>> ELSE Undefined]
             result == IF ok THEN Result("ok", row)
                       ELSE Result("throw", [w \in Workers |-> Undefined])
  <2>1. /\ status = "run" /\ next <= Len(plan.nodes) /\ Node.kind = "kernel" /\ Ends(result)
    BY <1>3 DEF ExecuteSource
  <2>2. ok => Held(func, plan, Node.output, row)
    BY <1>0, <2>1, KernelHeld
  <2> HIDE DEF ok, row
  <2>3. result.status = "ok" => ok /\ result.row = row
    BY DEF Result
  <2> HIDE DEF result
  <2> QED
    BY <1>0, <2>1, <2>2, <2>3, EndsHeld
<1>4. CASE ExecuteKernel
  <2> DEFINE input == values[Node.inputs[1]]
             ok == Node.worker_set \subseteq Workers
                   /\ \A w \in Node.worker_set : input[w] # Undefined
             result == Result(IF ok THEN "ok" ELSE "throw", input)
  <2>1. /\ status = "run" /\ next <= Len(plan.nodes) /\ Node.kind = "kernel"
        /\ Node.inputs[1] \in DOMAIN values /\ Ends(result)
    BY <1>4 DEF ExecuteKernel
  <2>2. input \in Rows
    BY <2>1 DEF LocalInv, Held
  <2>3. ok => Held(func, plan, Node.output, input)
    BY <1>0, <2>1, <2>2, KernelHeld
  <2> HIDE DEF ok, input
  <2>4. result.status = "ok" => ok /\ result.row = input
    BY DEF Result
  <2> HIDE DEF result
  <2> QED
    BY <1>0, <2>1, <2>3, <2>4, EndsHeld
<1>5. CASE ExecuteComm
  <2> DEFINE input == values[Node.inputs[1]]
  <2>1. /\ status = "run" /\ next <= Len(plan.nodes) /\ Node.kind = "comm"
        /\ Node.inputs # <<>> /\ Node.inputs[1] \in DOMAIN values
    BY <1>5 DEF ExecuteComm
  <2>2. Held(func, plan, Node.inputs[1], input) /\ input \in Rows
    BY <2>1 DEF LocalInv, Held
  <2>3. CASE Node.op_name = CopyOp
    <3>1. Ends(Copy(input, input, SourceWorker, DestinationWorker))
      BY <1>5, <2>3 DEF ExecuteComm, CopyOp
    <3> QED
      BY <1>0, <2>1, <2>2, <2>3, <3>1, CopyHeld, EndsHeld
  <2>4. CASE Node.op_name # CopyOp
    <3>1. PICK n \in 1 .. Len(func) : /\ func[n].kind \in CommunicationOps \ {CopyOp}
                                      /\ Node = Communication(ctx, func, n)
      BY <1>0, <2>1, <2>4, CommIs
    <3>2. Node.op_name = func[n].kind /\ Node.attrs = NormalizedAttrs(func, n)
      BY <3>1, CommFields
    <3>3. func \in Functions /\ DOMAIN func = 1 .. Len(func)
      BY <1>0, FunctionsAssumption DEF PlanInv, ContextInv
    <3>4. Node.attrs \in AttrsOf(func[n].kind)
      BY <3>1, <3>2, <3>3, NormalizedType
    <3>5. func[n].kind = "device.gather_to_worker0" /\ Node.attrs.in_group
             => WorkersPerGroup > 0
      BY <3>1, <3>2, <3>3 DEF Deployed, CollectivesReach
    <3> DEFINE op == func[n].kind
    <3>6. PICK result :
            /\ Ends(result)
            /\ result = CASE op = "device.allreduce" -> AllReduce(input, input, Node.attrs.reduce_kind)
                 [] op = "device.broadcast_from_worker0" ->
                      BroadcastFromWorker0(input, input, Node.attrs.in_group)
                 [] op = "device.scatter_from_worker0" ->
                      ScatterFromWorker0(input, input, Node.attrs.in_group)
                 [] op = "device.gather_to_worker0" ->
                      GatherToWorker0(input, input, Node.attrs.in_group)
                 [] op = "device.send_to_worker" -> SendToWorker(input, input, Node.attrs.root_worker)
                 [] op = "device.recv_from_worker" ->
                      RecvFromWorker(input, input, Node.attrs.root_worker)
      <4>1. op # CopyOp /\ op \in CommunicationOps /\ Node.op_name = op
        BY <3>1, <3>2
      <4> HIDE DEF op, input
      <4> QED
        BY <1>5, <4>1 DEF ExecuteComm, input, CopyOp, CommunicationOps, Collectives, PointToPoint
    <3> HIDE DEF input
    <3>7. Keeps(input, result)
          /\ (result.status = "ok" /\ Spreads(func, n)
                => \A w \in Workers : result.row[w] # Undefined)
          /\ (result.status = "ok" /\ func[n].kind \in PointToPoint
                => result.row[Receiver(func[n].kind, NormalizedAttrs(func, n))] # Undefined)
      BY <2>2, <3>1, <3>2, <3>4, <3>5, <3>6, CollectiveKeeps DEF Spreads
    <3>8. result.status = "ok" => Held(func, plan, Node.output, result.row)
      BY <1>0, <2>1, <2>2, <3>1, <3>7, CollectiveHeld DEF input
    <3> QED
      BY <1>0, <2>1, <3>6, <3>8, EndsHeld
  <2> QED
    BY <2>3, <2>4
<1>6. CASE ReturnOutput \/ Over \/ UNCHANGED vars
  <2>1. /\ UNCHANGED <<func, plan, values>>
        /\ status' \in {"run", "done"} => status \in {"run", "done"}
    BY <1>6 DEF ReturnOutput, Over, vars
  <2> QED
    BY <1>0, <2>1 DEF LocalInv
<1> QED
  BY <1>1, <1>2, <1>3, <1>4, <1>5, <1>6 DEF Next, Step

\* ExecutionPlanExecutor and the collectives of CpuCCLBackend: in a deployment as
\* described, every value an execution has so far, of a collective too, has a
\* tensor on the worker of its virtual device.
THEOREM LocalInvariance ==
    ASSUME Deployed
    PROVE  Spec => []LocalInv
<1>1. Runnable
  BY DEF Deployed, Runnable
<1>2. Init => LocalInv
  <2> SUFFICES ASSUME Init PROVE LocalInv
    OBVIOUS
  <2>1. PlanInv
    BY PlanInit
  <2> QED
    BY <2>1 DEF Init, RunInv, LocalInv
<1>3. LocalInv /\ [Next]_vars => LocalInv'
  BY LocalStep
<1> QED
  BY <1>2, <1>3, PTL DEF Spec

-----------------------------------------------------------------------------
(* Executions: what nodes find *)

\* A variable or a let has the virtual device of its value.
LEMMA SameDevice ==
    ASSUME NEW fun \in Functions, DevicesAgree(fun), NEW n \in 1 .. Len(fun)
    PROVE  ValueVD(fun, ValueOf(fun)[n]) = VDOf(fun, n)
<1>1. DOMAIN fun = 1 .. Len(fun) /\ ValueOf(fun)[n] = ValueAt(fun, ValueOf(fun), n)
  BY FunctionsAssumption, ValueIs
<1>2. CASE fun[n].kind \in {"var", "let"}
  <2>1. VDOf(fun, n) = fun[n].vd
    BY <1>2 DEF VDOf, CopyOp
  <2> QED
    BY <1>1, <1>2, <2>1 DEF DevicesAgree
<1>3. CASE fun[n].kind \notin {"var", "let"}
  <2>1. ValueOf(fun)[n] = <<n, 0>>
    BY <1>1, <1>3 DEF ValueAt
  <2> QED
    BY <2>1 DEF ValueVD
<1> QED
  BY <1>2, <1>3

\* What a kernel reads has the kernel's virtual device: it is annotated alike, or
\* is a copy.
LEMMA InputDevice ==
    ASSUME NEW fun \in Functions, KernelsAnnotated(fun), DevicesAgree(fun),
           NEW n \in 1 .. Len(fun), fun[n].kind \in {"call", "tuple", "get"},
           NEW i \in 1 .. Len(fun[n].args),
           fun[n].kind \in {"tuple", "get"} =>
              SameVirtualDevice(VDOf(fun, fun[n].args[i]), fun[n].vd)
    PROVE  ValueVD(fun, InputOf(fun, n, i)) = fun[n].vd
<1> DEFINE a == fun[n].args[i]
           v == ValueOf(fun)[a]
<1>1. /\ DOMAIN fun = 1 .. Len(fun) /\ DOMAIN fun[n].args = 1 .. Len(fun[n].args)
      /\ Len(fun[n].args) \in Nat /\ a \in 1 .. Len(fun)
  BY ArgsBefore
<1>2. fun[n].kind \notin Leaves \cup CommunicationOps \cup {"let"}
  BY DEF Leaves, CommunicationOps, CopyOp, Collectives, PointToPoint
<1>3. (ValueVD(fun, InputOf(fun, n, i)) = NoVD) = (fun[n].vd = NoVD)
  BY <1>1, <1>2 DEF KernelsAnnotated
<1>4. CASE NeedsCopy(fun, n, i)
  <2>1. InputOf(fun, n, i) = <<n, i>> /\ i # 0
    BY <1>1, <1>4 DEF InputOf
  <2> QED
    BY <2>1 DEF ValueVD
<1>5. CASE ~NeedsCopy(fun, n, i) /\ fun[n].vd # NoVD
  <2>1. InputOf(fun, n, i) = v
    BY <1>5 DEF InputOf
  <2>2. ValueVD(fun, v) = VDOf(fun, a)
    BY <1>1, SameDevice
  <2>3. VDOf(fun, a) # NoVD
    BY <1>3, <1>5, <2>1, <2>2
  <2>4. SameVirtualDevice(VDOf(fun, a), fun[n].vd)
    BY <1>5, <2>3 DEF NeedsCopy
  <2>5. VDOf(fun, a) \in NamedVDs(fun) /\ fun[n].vd \in NamedVDs(fun)
    BY <1>1, <1>5, <2>3, NamedAre
  <2>6. VDOf(fun, a) = fun[n].vd
    BY <2>4, <2>5 DEF DevicesAgree
  <2> QED
    BY <2>1, <2>2, <2>6
<1>6. CASE fun[n].vd = NoVD
  BY <1>3, <1>6
<1> QED
  BY <1>4, <1>5, <1>6

\* The inputs of a node have been computed or supplied.
LEMMA InputThere ==
    ASSUME RunInv, status = "run", next <= Len(plan.nodes), Supplied,
           NEW i \in DOMAIN Node.inputs
    PROVE  Node.inputs[i] \in DOMAIN values
<1>1. /\ func \in Functions /\ plan.nodes = Nodes(ctx, func) /\ next \in Nat \ {0}
      /\ DOMAIN plan.nodes = 1 .. Len(plan.nodes) /\ Len(plan.nodes) \in Nat
  BY AtNode DEF RunInv
<1>2. DOMAIN func = 1 .. Len(func)
  BY <1>1, FunctionsAssumption
<1> DEFINE v == Node.inputs[i]
<1>3. Runs(plan.nodes, GivenIds(func))
  BY <1>1, NodesRun
<1>4. next \in DOMAIN plan.nodes /\ Node = plan.nodes[next]
  BY <1>1 DEF Node
<1>5. v \in GivenIds(func) \/ \E k \in 1 .. next - 1 : plan.nodes[k].output = v
  BY <1>3, <1>4 DEF Runs
<1>6. v \in GivenIds(func) => v \in DOMAIN values
  BY <1>2 DEF Supplied, GivenIds, GivenValues
<1>7. \A k \in 1 .. next - 1 : k \in DOMAIN plan.nodes /\ k < next
  BY <1>1
<1>8. \A k \in 1 .. next - 1 : plan.nodes[k].output \in DOMAIN values
  BY <1>7 DEF RunInv
<1> QED
  BY <1>5, <1>6, <1>8

\* The inputs of a kernel are on its workers.
LEMMA KernelInputs ==
    ASSUME Deployed, LocalInv, status = "run", next <= Len(plan.nodes),
           Node.kind = "kernel", Supplied, ~CrossesInTuple,
           NEW i \in DOMAIN Node.inputs, NEW w \in Node.worker_set
    PROVE  /\ Node.inputs[i] \in DOMAIN values
           /\ values[Node.inputs[i]][w] # Undefined
<1>1. /\ func \in Functions /\ ctx \in LoweringContexts(func)
      /\ \E d : Agree(ctx, d) /\ plan = PlanWith(ctx, d, func)
      /\ plan.nodes = Nodes(ctx, func) /\ Node \in PlanNodes(ctx, func)
      /\ DOMAIN plan.nodes = 1 .. Len(plan.nodes) /\ Len(plan.nodes) \in Nat
      /\ next \in Nat \ {0}
  BY AtNode DEF LocalInv, RunInv
<1>2. PICK d : Agree(ctx, d) /\ plan = PlanWith(ctx, d, func)
  BY <1>1
<1>3. PlacedEverywhere(func) /\ KernelsAnnotated(func) /\ DevicesAgree(func)
  BY <1>1 DEF Deployed
<1>4. DOMAIN func = 1 .. Len(func)
  BY <1>1, FunctionsAssumption
<1> DEFINE x == Node
           v == x.inputs[i]
<1>5. v \in DOMAIN values
  BY InputThere DEF LocalInv
<1>6. PICK n \in Emitting(func) : func[n].kind \notin CommunicationOps
                                  /\ x = Kernel(ctx, func, n)
  <2> HIDE DEF x
  <2>1. x \in PlanNodes(ctx, func) /\ x.kind = "kernel"
    BY <1>1 DEF x
  <2>2. x.kind # "comm"
    BY <2>1
  <2> QED
    BY <2>1, <2>2, NodeIs, CommFields, InsertedFields
<1>7. x.inputs = Inputs(func, n) /\ x.worker_set = ComputeWorkers(ctx, func, n)
  BY <1>6, KernelFields
<1>8. <<n, 0>> \in Values(func) /\ w = WorkerOf(plan, <<n, 0>>)
  BY <1>1, <1>2, <1>3, <1>6, <1>7, KernelHome
<1>9. n \in 1 .. Len(func) /\ func[n].kind \in {"call", "tuple", "get"}
  <2>1. func[n].kind # "if"
    BY <1>4 DEF LocalInv, RunInv, PlanInv, Emitting
  <2>2. func[n].kind \in Leaves \cup CommunicationOps \cup {"call", "tuple", "get", "let", "if"}
    BY <1>1, <1>4, FunctionsAssumption DEF Emitting
  <2> QED
    BY <1>6, <2>1, <2>2 DEF Emitting
<1>10. DOMAIN func[n].args = 1 .. Len(func[n].args)
  BY <1>1, <1>9, ArgsBefore
<1>11. i \in 1 .. Len(func[n].args) /\ v = InputOf(func, n, i)
  BY <1>7, <1>10 DEF Inputs
<1>12. ValueVD(func, v) = func[n].vd
  <2>1. func[n].kind \in {"tuple", "get"} =>
           SameVirtualDevice(VDOf(func, func[n].args[i]), func[n].vd)
    BY <1>4, <1>9, <1>10, <1>11 DEF CrossesInTuple
  <2> QED
    BY <1>1, <1>3, <1>9, <1>11, <2>1, InputDevice
<1>13. ValueVD(func, <<n, 0>>) = func[n].vd
  BY <1>6 DEF ValueVD, VDOf, CommunicationOps
<1>14. v \in Values(func) /\ values[v][WorkerOf(plan, v)] # Undefined
  BY <1>5 DEF LocalInv, Held
<1>15. WorkerOf(plan, v) = w
  <2> HIDE DEF v
  <2> QED
    BY <1>1, <1>2, <1>3, <1>8, <1>12, <1>13, <1>14, HomeIs
<1> QED
  BY <1>5, <1>14, <1>15 DEF v, x

\* RelayToExecPlanBuilder, DeviceCommunicationInserter and ExecutionPlanExecutor:
\* in a deployment as described, when a kernel starts, every one of its inputs,
\* what collectives made included, has been computed or supplied, and is on each
\* of the kernel's workers.
THEOREM KernelInputsLocalHolds ==
    ASSUME Deployed
    PROVE  Spec => []KernelInputsLocal
<1>1. LocalInv => KernelInputsLocal
  BY KernelInputs DEF KernelInputsLocal
<1> QED
  BY <1>1, LocalInvariance, PTL

\* The value of a function is supplied or is the result of a node.
LEMMA OutputMade ==
    ASSUME NEW c, NEW fun \in Functions
    PROVE  ValueOf(fun)[Len(fun)] \in GivenIds(fun) \cup Outs(Nodes(c, fun))
<1>1. Len(fun) \in Nat \ {0}
  BY FunctionsAssumption
<1>2. PICK env : IsScoped(fun, env)
  BY TreeAssumption DEF WellFormed
<1>3. PICK e : IsEmit(e, c, fun) /\ Nodes(c, fun) = e[Len(fun)]
  BY NodesAre
<1>4. Emits(fun, env, e, Len(fun))
  BY <1>1, <1>2, <1>3, EmitsAll
<1>5. Known(fun, env[Len(fun)]) = GivenIds(fun) /\ fun[Len(fun)].kind # "var"
  BY <1>2 DEF IsScoped, Known
<1> QED
  BY <1>3, <1>4, <1>5 DEF Emits

\* A copy finds its input where it starts.
LEMMA CopyStarts ==
    ASSUME Deployed, RunInv, NoCollectives(func), status = "run", next <= Len(plan.nodes),
           Node.kind = "comm", Supplied
    PROVE  /\ Node.inputs # <<>> /\ Node.inputs[1] \in DOMAIN values
           /\ SourceWorker \in Workers /\ DestinationWorker \in Workers
           /\ values[Node.inputs[1]][SourceWorker] # Undefined
<1>1. /\ PlanInv /\ func \in Functions /\ ctx \in LoweringContexts(func)
      /\ \E d : Agree(ctx, d) /\ plan = PlanWith(ctx, d, func)
      /\ Agree(ctx, plan.pass_ctx) /\ Node \in PlanNodes(ctx, func)
  BY AtNode DEF RunInv
<1>2. PICK d : Agree(ctx, d) /\ plan = PlanWith(ctx, d, func)
  BY <1>1
<1>3. /\ PlacedEverywhere(func) /\ CopiesHaveEnds(func) /\ CopiesStartAtHome(func)
      /\ DevicesAgree(func)
  BY <1>1 DEF Deployed
<1>4. Node.op_name = CopyOp
  BY <1>1, OnlyCopies
<1> DEFINE x == Node
<1>5. x \in PlanNodes(ctx, func) /\ x.kind = "comm" /\ x.op_name = CopyOp
  BY <1>1, <1>4
<1>6. x.inputs # <<>> => 1 \in DOMAIN x.inputs
  <2> HIDE DEF x
  <2>1. ASSUME NEW n \in 1 .. Len(func), x.inputs = Inputs(func, n), x.inputs # <<>>
        PROVE  1 \in DOMAIN x.inputs
    <3>1. func[n].args # <<>> => 1 \in 1 .. Len(func[n].args)
      BY <1>1, FirstInput
    <3>2. func[n].args # <<>> /\ DOMAIN func[n].args = 1 .. Len(func[n].args)
      BY <1>1, <2>1, FirstInput, ArgsBefore
    <3> QED
      BY <2>1, <3>1, <3>2 DEF Inputs
  <2>2. ASSUME NEW v, x.inputs = <<v>> PROVE 1 \in DOMAIN x.inputs
    BY <2>2
  <2> QED
    BY <1>5, <2>1, <2>2, NodeIs, KernelFields, CommFields, InsertedFields DEF Emitting
\* The input is the value of an expression a that is where the copy starts.
<1>7. \E a \in 1 .. Len(func) :
         /\ x.inputs # <<>> /\ x.inputs[1] = ValueOf(func)[a] /\ x.attrs.src = VDOf(func, a)
  <2> HIDE DEF x
  <2>1. ASSUME NEW n \in Emitting(func), x = Communication(ctx, func, n)
        PROVE  \E a \in 1 .. Len(func) :
                  /\ x.inputs # <<>> /\ x.inputs[1] = ValueOf(func)[a]
                  /\ x.attrs.src = VDOf(func, a)
    <3>1. /\ x.inputs = Inputs(func, n) /\ x.op_name = func[n].kind
          /\ x.attrs = NormalizedAttrs(func, n)
      BY <2>1, CommFields
    <3>2. n \in 1 .. Len(func) /\ func[n].kind = CopyOp /\ CopyOp # "call"
      BY <1>5, <3>1 DEF Emitting, CopyOp
    <3>3. x.attrs = CopyAttrs(func, n)
      BY <3>1, <3>2 DEF NormalizedAttrs
    <3>4. DOMAIN func = 1 .. Len(func)
      BY <1>1, FunctionsAssumption
    <3>5. func[n].args # <<>> /\ CopyAttrs(func, n).src = VDOf(func, func[n].args[1])
      BY <1>3, <3>2, <3>4 DEF CopiesStartAtHome
    <3>6. 1 \in 1 .. Len(func[n].args) /\ Inputs(func, n)[1] = InputOf(func, n, 1)
          /\ Inputs(func, n) # <<>>
      BY <1>1, <3>2, <3>5, FirstInput
    <3>7. InputOf(func, n, 1) = ValueOf(func)[func[n].args[1]]
      BY <3>2 DEF InputOf, NeedsCopy
    <3>8. func[n].args[1] \in 1 .. Len(func)
      BY <1>1, <3>2, <3>6, ArgsBefore
    <3> QED
      BY <3>1, <3>3, <3>5, <3>6, <3>7, <3>8
  <2>2. ASSUME NEW n \in 1 .. Len(func), NEW i \in 1 .. Len(func[n].args),
               x = InsertedCopy(ctx, func, n, i)
        PROVE  \E a \in 1 .. Len(func) :
                  /\ x.inputs # <<>> /\ x.inputs[1] = ValueOf(func)[a]
                  /\ x.attrs.src = VDOf(func, a)
    <3>1. x.inputs = <<ValueOf(func)[func[n].args[i]]>>
          /\ x.attrs.src = VDOf(func, func[n].args[i])
      BY <2>2, InsertedFields
    <3>2. func[n].args[i] \in 1 .. Len(func)
      BY <1>1, ArgsBefore
    <3>3. x.inputs # <<>> /\ x.inputs[1] = ValueOf(func)[func[n].args[i]]
      BY <3>1
    <3> QED
      BY <3>1, <3>2, <3>3
  <2> QED
    BY <1>5, <2>1, <2>2, NodeIs, KernelFields
<1>8. PICK a \in 1 .. Len(func) :
         /\ x.inputs # <<>> /\ x.inputs[1] = ValueOf(func)[a] /\ x.attrs.src = VDOf(func, a)
  BY <1>7
<1> DEFINE v == x.inputs[1]
<1>9. v \in DOMAIN values
  BY <1>6, <1>8, InputThere
<1>10. x.attrs.src \in NamedVDs(func) /\ x.attrs.dst \in NamedVDs(func)
  BY <1>1, <1>3, <1>5, CopyEnds
<1>11. /\ SourceWorker = ExecWorker(plan, x.attrs.src)
       /\ DestinationWorker = ExecWorker(plan, x.attrs.dst)
  <2>1. NoVD \notin NamedVDs(func)
    BY DEF NamedVDs
  <2> QED
    BY <1>10, <2>1 DEF SourceWorker, DestinationWorker
<1>12. /\ SourceWorker \in Workers /\ DestinationWorker \in Workers
       /\ SourceWorker = PlanWorker(ctx, x.attrs.src)
  BY <1>1, <1>3, <1>10, <1>11, Resolves
<1>13. v \in Values(func) /\ TensorAt(func, v) \in Tensors /\ ValueVD(func, v) = x.attrs.src
  <2>1. /\ ValueOf(func)[a] \in Values(func)
        /\ ValueOf(func)[a] \in (1..a) \X {0}
        /\ Denotes(func)[ValueOf(func)[a][1]] = Denotes(func)[a] /\ Denotes(func)[a] \in Tensors
    BY <1>1, ValueIs, DenotesValue, DenotesIs
  <2>2. ValueVD(func, ValueOf(func)[a]) = VDOf(func, a)
    BY <1>1, <1>3, SameDevice
  <2>3. ValueOf(func)[a][2] = 0
    BY <2>1
  <2>4. TensorAt(func, ValueOf(func)[a]) = Denotes(func)[a]
    BY <2>1, <2>3 DEF TensorAt
  <2> QED
    BY <1>8, <2>1, <2>2, <2>4
<1>14. WorkerOf(plan, v) = SourceWorker
  <2>1. ValueVD(func, v) # NoVD
    BY <1>10, <1>13 DEF NamedVDs
  <2> HIDE DEF v
  <2> QED
    BY <1>1, <1>2, <1>3, <1>12, <1>13, <2>1, HomeIs
<1>15. RightAt(func, plan, v, values[v])
  BY <1>9 DEF RunInv
<1>16. values[v][SourceWorker] # Undefined
  <2> HIDE DEF v, x
  <2> QED
    BY <1>13, <1>14, <1>15, UndefinedAssumption DEF RightAt
<1> QED
  BY <1>8, <1>9, <1>12, <1>16

\* An execution with its inputs supplied never throws.
NeverThrows ==
    [][status = "run" /\ Supplied /\ ~CrossesInTuple /\ NoCollectives(func)
       => status' # "throw"]_vars

\* No step of an execution is an exception.
LEMMA NoThrow ==
    ASSUME Deployed, LocalInv, NoCollectives(func), status = "run", Supplied, ~CrossesInTuple,
           [Next]_vars
    PROVE  status' # "throw"
<1>0. RunInv
  BY DEF LocalInv
<1>1. /\ PlanInv /\ func \in Functions /\ ctx \in LoweringContexts(func)
      /\ \E d : Agree(ctx, d) /\ plan = PlanWith(ctx, d, func)
      /\ plan.nodes = Nodes(ctx, func)
      /\ DOMAIN plan.nodes = 1 .. Len(plan.nodes) /\ Len(plan.nodes) \in Nat
      /\ next \in Nat \ {0}
      /\ next <= Len(plan.nodes) => Node \in PlanNodes(ctx, func)
  BY <1>0, AtNode DEF RunInv
<1>2. PICK d : Agree(ctx, d) /\ plan = PlanWith(ctx, d, func)
  BY <1>1
<1>3. PlacedEverywhere(func) /\ KernelsAnnotated(func)
  BY <1>1 DEF Deployed
<1>4. ASSUME next <= Len(plan.nodes), Node.kind = "kernel"
      PROVE  /\ Node.worker_set \subseteq Workers
             /\ Node.inputs # <<>> => 1 \in DOMAIN Node.inputs
  <2> DEFINE x == Node
  <2>1. x \in PlanNodes(ctx, func) /\ x.kind # "comm"
    BY <1>1, <1>4
  <2> HIDE DEF x
  <2>2. PICK n \in Emitting(func) : func[n].kind \notin CommunicationOps
                                    /\ x = Kernel(ctx, func, n)
    BY <2>1, NodeIs, CommFields, InsertedFields
  <2>3. x.inputs = Inputs(func, n) /\ x.worker_set = ComputeWorkers(ctx, func, n)
    BY <2>2, KernelFields
  <2>4. <<n, 0>> \in Values(func) /\ x.worker_set = {WorkerOf(plan, <<n, 0>>)}
    BY <1>1, <1>2, <1>3, <2>2, <2>3, KernelHome
  <2>5. WorkerOf(plan, <<n, 0>>) \in Workers
    BY <1>1, <1>2, <1>3, <2>4, HomeIs
  <2>6. Inputs(func, n) # <<>> => 1 \in DOMAIN Inputs(func, n)
    <3>1. n \in 1 .. Len(func)
      BY DEF Emitting
    <3>2. DOMAIN func[n].args = 1 .. Len(func[n].args)
      BY <1>1, <3>1, ArgsBefore
    <3> QED
      BY <1>1, <3>1, <3>2, FirstInput DEF Inputs
  <2> QED
    BY <2>3, <2>4, <2>5, <2>6 DEF x
<1>5. CASE InputMissing
  <2>1. /\ next <= Len(plan.nodes)
        /\ IF Node.inputs = <<>> THEN Node.kind = "comm" ELSE Node.inputs[1] \notin DOMAIN values
    BY <1>5 DEF InputMissing
  <2>2. CASE Node.kind = "comm"
    BY <1>0, <2>1, <2>2, CopyStarts
  <2>3. CASE Node.kind # "comm"
    <3>1. Node.kind = "kernel"
      <4> DEFINE x == Node
      <4>1. x \in PlanNodes(ctx, func) /\ x.kind # "comm"
        BY <1>1, <2>1, <2>3
      <4> HIDE DEF x
      <4> QED
        BY <4>1, NodeIs, KernelFields, CommFields, InsertedFields DEF x
    <3>2. Node.inputs # <<>>
      BY <2>1, <2>3
    <3>3. 1 \in DOMAIN Node.inputs
      BY <1>4, <2>1, <3>1, <3>2
    <3>4. Node.inputs[1] \in DOMAIN values
      BY <1>0, <2>1, <3>3, InputThere
    <3> QED
      BY <2>1, <3>2, <3>4
  <2> QED
    BY <2>2, <2>3
<1>6. ASSUME NEW result, Ends(result), result.status = "ok" PROVE status' # "throw"
  BY <1>6 DEF Ends
<1>7. CASE ExecuteSource
  <2>1. /\ next <= Len(plan.nodes) /\ Node.kind = "kernel"
    BY <1>7 DEF ExecuteSource
  <2>2. Node.worker_set \subseteq Workers
    BY <1>4, <2>1
  <2>3. PICK row : Ends(Result("ok", row))
    BY <1>7, <2>2 DEF ExecuteSource
  <2> QED
    BY <1>6, <2>3 DEF Result
<1>8. CASE ExecuteKernel
  <2>1. /\ next <= Len(plan.nodes) /\ Node.kind = "kernel" /\ Node.inputs # <<>>
    BY <1>8 DEF ExecuteKernel
  <2>2. Node.worker_set \subseteq Workers /\ 1 \in DOMAIN Node.inputs
    BY <1>4, <2>1
  <2>3. \A w \in Node.worker_set : values[Node.inputs[1]][w] # Undefined
    BY <2>1, <2>2, KernelInputs
  <2>4. PICK row : Ends(Result("ok", row))
    BY <1>8, <2>2, <2>3 DEF ExecuteKernel
  <2> QED
    BY <1>6, <2>4 DEF Result
<1>9. CASE ExecuteComm
  <2> DEFINE input == values[Node.inputs[1]]
  <2>1. /\ next <= Len(plan.nodes) /\ Node.kind = "comm"
    BY <1>9 DEF ExecuteComm
  <2>2. /\ SourceWorker \in Workers /\ DestinationWorker \in Workers
        /\ input[SourceWorker] # Undefined
    BY <1>0, <2>1, CopyStarts
  <2>3. Node.op_name = CopyOp
    BY <1>1, <2>1, OnlyCopies
  <2>4. PICK result : /\ Ends(result)
                      /\ result = Copy(input, input, SourceWorker, DestinationWorker)
    BY <1>9, <2>3 DEF ExecuteComm, CopyOp
  <2> HIDE DEF input
  <2>5. result.status = "ok"
    BY <2>2, <2>4 DEF Copy, Result
  <2> QED
    BY <1>6, <2>4, <2>5
<1>10. CASE ReturnOutput
  <2> DEFINE v == plan.output_value
  <2>1. v \in GivenIds(func) \cup Outs(plan.nodes)
    <3>1. v = ValueOf(func)[Len(func)]
      BY <1>2 DEF PlanWith
    <3> QED
      BY <1>1, <3>1, OutputMade
  <2>2. v \in GivenIds(func) => v \in DOMAIN values
    <3>1. DOMAIN func = 1 .. Len(func)
      BY <1>1, FunctionsAssumption
    <3> QED
      BY <3>1 DEF Supplied, GivenIds, GivenValues
  <2>3. v \in Outs(plan.nodes) => v \in DOMAIN values
    <3>1. next > Len(plan.nodes)
      BY <1>10 DEF ReturnOutput
    <3>2. \A k \in DOMAIN plan.nodes : k < next
      BY <1>1, <3>1
    <3>3. \A k \in DOMAIN plan.nodes : plan.nodes[k].output \in DOMAIN values
      BY <1>0, <3>2 DEF RunInv
    <3> QED
      BY <3>3 DEF Outs
  <2> QED
    BY <1>10, <2>1, <2>2, <2>3 DEF ReturnOutput
<1>11. CASE \/ \E c \in Ambient : OpenScope(c)
            \/ CloseScope \/ Lower \/ LowerCompute \/ ThroughJson
            \/ ExecuteCall \/ ExecutePlanEntryPoint \/ Over \/ UNCHANGED vars
  BY <1>11 DEF OpenScope, CloseScope, Lower, LowerCompute, ThroughJson, ExecuteCall,
               ExecutePlanEntryPoint, Over, vars
<1> QED
  BY <1>5, <1>7, <1>8, <1>9, <1>10, <1>11 DEF Next, Step

\* ExecutionPlanExecutor: in a deployment as described, an execution of a function
\* without collectives whose inputs are supplied never throws: no input is missing,
\* no worker id is out of range, no tensor is missing on a worker, and in the end
\* the output is there.  It is what is left of PlanCompletes without fairness.
THEOREM NeverThrowsHolds ==
    ASSUME Deployed
    PROVE  Spec => NeverThrows
<1>1. LocalInv /\ [Next]_vars =>
         [status = "run" /\ Supplied /\ ~CrossesInTuple /\ NoCollectives(func)
          => status' # "throw"]_vars
  BY NoThrow
<1> QED
  BY <1>1, LocalInvariance, PTL DEF Spec, NeverThrows
=============================================================================
