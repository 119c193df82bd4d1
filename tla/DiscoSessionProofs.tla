-------------------------- MODULE DiscoSessionProofs --------------------------
(***************************************************************************)
(* The collectives of CpuCCLBackend in a session of any size: for every    *)
(* number of workers, every number of groups (also one that does not       *)
(* divide it, or exceeds it) and tensors of any length.                    *)
(***************************************************************************)
EXTENDS DiscoSession, CpuCCLProofs

\* The register file is a sequence of rows, whatever a controller does.
RowsTyped == register_file \in Seq(Rows)

\* Every registry entry point leaves rows in the registers: in particular a
\* collective that throws or finds undefined tensors writes nothing but tensors.
THEOREM RowsTypedHolds == Spec => []RowsTyped
<1>1. Init => RowsTyped
  BY DEF Init, RowsTyped
<1>2. RowsTyped /\ [Next]_vars => RowsTyped'
  <2> SUFFICES ASSUME RowsTyped, [Next]_vars PROVE RowsTyped'
    OBVIOUS
  <2> USE DEF RowsTyped
  <2>1. \A r \in Registers : register_file[r] \in Rows
    BY DEF Registers
  <2>2. ASSUME NEW row \in Rows, NewDRef(row) PROVE RowsTyped'
    BY <2>2 DEF NewDRef
  <2>3. ASSUME NEW dst \in Registers, NEW result, result.row \in Rows,
               Perform(dst, result)
        PROVE  RowsTyped'
    BY <2>3 DEF Perform, Registers
  <2>4. CASE AllocateRegister
    <3>1. [w \in Workers |-> Undefined] \in Rows
      BY DEF Rows
    <3> QED
      BY <2>2, <2>4, <3>1 DEF AllocateRegister
  <2>5. ASSUME NEW n \in Lengths, NEW only0 \in BOOLEAN, NEW in_group \in BOOLEAN,
               Empty(n, only0, in_group)
        PROVE  RowsTyped'
    <3> DEFINE zeros == [i \in 1..n |-> 0]
    <3>1. zeros \in Tensors
      BY LengthsAssumption DEF Tensors
    <3> HIDE DEF zeros
    <3>2. ASSUME NEW owners PROVE
             [w \in Workers |-> IF w \in owners THEN zeros ELSE Undefined] \in Rows
      BY <3>1 DEF Rows
    <3> QED
      BY <2>2, <2>5, <3>2 DEF Empty, zeros
  <2>6. ASSUME NEW w \in Workers, NEW r \in Registers, NEW n \in Lengths,
               SetRegister(w, r, n)
        PROVE  RowsTyped'
    <3>1. TensorOf(w, n) \in Tensors
      BY LengthsAssumption, SessionSize DEF TensorOf, Tensors, Workers
    <3>2. [register_file[r] EXCEPT ![w] = TensorOf(w, n)] \in Rows
      BY <2>1, <3>1 DEF Rows
    <3>3. register_file' = [register_file EXCEPT ![r] =
                              [register_file[r] EXCEPT ![w] = TensorOf(w, n)]]
      BY <2>6 DEF SetRegister
    <3> QED
      BY <3>2, <3>3 DEF Registers
  <2>7. ASSUME NEW src \in Registers, NEW dst \in Registers
        PROVE  /\ \A v, w : CallCopy(src, dst, v, w) => RowsTyped'
               /\ \A kind : CallAllReduce(src, dst, kind) => RowsTyped'
               /\ \A in_group \in BOOLEAN :
                     /\ CallBroadcast(src, dst, in_group) => RowsTyped'
                     /\ CallScatter(src, dst, in_group) => RowsTyped'
                     /\ CallGather(src, dst, in_group) => RowsTyped'
               /\ \A w : CallSend(src, dst, w) \/ CallRecv(src, dst, w) => RowsTyped'
    <3>1. register_file[src] \in Rows /\ register_file[dst] \in Rows
      BY <2>1
    <3>2. ASSUME NEW v, NEW w, CallCopy(src, dst, v, w) PROVE RowsTyped'
      BY <2>3, <3>1, <3>2, CopyRow DEF CallCopy
    <3>3. ASSUME NEW kind, CallAllReduce(src, dst, kind) PROVE RowsTyped'
      BY <2>3, <3>1, <3>3, AllReduceRow DEF CallAllReduce
    <3>4. ASSUME NEW in_group \in BOOLEAN, CallBroadcast(src, dst, in_group)
          PROVE  RowsTyped'
      BY <2>3, <3>1, <3>4, BroadcastRow DEF CallBroadcast
    <3>5. ASSUME NEW in_group \in BOOLEAN, CallScatter(src, dst, in_group)
          PROVE  RowsTyped'
      BY <2>3, <3>1, <3>5, ScatterRow DEF CallScatter
    <3>6. ASSUME NEW in_group \in BOOLEAN, CallGather(src, dst, in_group)
          PROVE  RowsTyped'
      BY <2>3, <3>1, <3>6, GatherRow DEF CallGather
    <3>7. ASSUME NEW w, CallSend(src, dst, w) \/ CallRecv(src, dst, w)
          PROVE  RowsTyped'
      BY <2>3, <3>1, <3>7, CopyRow DEF CallSend, CallRecv, SendToWorker, RecvFromWorker
    <3> QED
      BY <3>2, <3>3, <3>4, <3>5, <3>6, <3>7
  <2>8. CASE UNCHANGED vars
    BY <2>8 DEF vars
  <2> QED
    BY <2>4, <2>5, <2>6, <2>7, <2>8 DEF Next
<1> QED
  BY <1>1, <1>2, PTL DEF Spec

\* A collective over all workers, a copy or a broadcast that throws has left the
\* registers as they were, also where source and destination are one register.
THEOREM ThrowIsCleanHolds == Spec => []ThrowIsClean
<1>1. RowsTyped => ThrowIsClean
  <2> SUFFICES ASSUME RowsTyped, NEW src \in Registers, NEW dst \in Registers
               PROVE  LET from == register_file[src]
                          to == register_file[dst]
                          clean(result) == result.status = "throw" => result.row = to
                      IN  /\ \A v, w \in -1 .. NumWorkers : clean(Copy(from, to, v, w))
                          /\ clean(AllReduce(from, to, "sum"))
                          /\ clean(BroadcastFromWorker0(from, to, TRUE))
                          /\ clean(ScatterFromWorker0(from, to, FALSE))
                          /\ clean(GatherToWorker0(from, to, FALSE))
    BY DEF ThrowIsClean
  <2> DEFINE from == register_file[src]
             to == register_file[dst]
  <2>1. from \in Rows /\ to \in Rows
    BY DEF RowsTyped, Registers
  <2> HIDE DEF from, to
  <2> DEFINE clean(result) == result.status = "throw" => result.row = to
  <2>2. \A v, w \in -1 .. NumWorkers : clean(Copy(from, to, v, w))
    BY DEF Copy, Result
  <2>3. clean(AllReduce(from, to, "sum"))
    BY DEF AllReduce, Result
  <2>4. clean(BroadcastFromWorker0(from, to, TRUE))
    BY DEF BroadcastFromWorker0, Result
  <2>5. clean(ScatterFromWorker0(from, to, FALSE))
    BY DEF ScatterFromWorker0, Result
  <2>6. clean(GatherToWorker0(from, to, FALSE))
    BY <2>1, GatherThrows
  <2> QED
    BY <2>2, <2>3, <2>4, <2>5, <2>6 DEF from, to
<1> QED
  BY <1>1, RowsTypedHolds, PTL

\* A tensor with its slices in S is a sequence over S, and conversely.
LEMMA SlicesOver ==
    ASSUME NEW S
    PROVE  /\ \A t \in Tensors : ToSet(t) \subseteq S => t \in Seq(S)
           /\ \A t \in Seq(S) : ToSet(t) \subseteq S
<1>1. ASSUME NEW t \in Tensors, ToSet(t) \subseteq S PROVE t \in Seq(S)
  <2>1. Len(t) \in Nat /\ DOMAIN t = 1..Len(t) /\ t = [i \in 1..Len(t) |-> t[i]]
    BY DEF Tensors
  <2>2. \A i \in 1..Len(t) : t[i] \in S
    BY <1>1, <2>1 DEF ToSet
  <2> QED
    BY <2>1, <2>2
<1>2. ASSUME NEW t \in Seq(S) PROVE ToSet(t) \subseteq S
  BY DEF ToSet
<1> QED
  BY <1>1, <1>2

\* Whatever a controller does, a group collective on a register whose group roots
\* all hold a tensor brings no slice of one group into another.
THEOREM GroupIsolationHolds == Spec => []GroupIsolation
<1>1. RowsTyped => GroupIsolation
  <2> SUFFICES ASSUME RowsTyped, NEW r \in Registers, WorkersPerGroup > 0,
                      \A g \in Groups : register_file[r][Root(g)] # Undefined
               PROVE  LET src == register_file[r]
                          members(w) == {v \in Grouped : GroupOf(v) = GroupOf(w)}
                          stays(result) == \A w \in Grouped :
                             Slices(result.row, {w}) \subseteq Slices(src, members(w))
                      IN  /\ stays(BroadcastFromWorker0(src, Blank, TRUE))
                          /\ stays(ScatterFromWorker0(src, Blank, TRUE))
                          /\ stays(GatherToWorker0(src, Blank, TRUE))
    BY DEF GroupIsolation
  <2> DEFINE src == register_file[r]
             members(w) == {v \in Grouped : GroupOf(v) = GroupOf(w)}
             Own(w) == Slices(src, members(w))
             stays(result) == \A w \in Grouped : Slices(result.row, {w}) \subseteq Own(w)
  <2>1. src \in Rows /\ Blank \in Rows
    BY DEF RowsTyped, Registers, Blank, Rows
  <2>2. \A g \in Groups : src[Root(g)] # Undefined
    OBVIOUS
  <2> HIDE DEF src
  <2>3. src[0] # Undefined
    <3>1. 0 \in Groups /\ Root(0) = 0
      BY SessionSize, GroupsAreBlocks DEF Groups, Root
    <3> QED
      BY <2>2, <3>1
  <2>4. \A w \in Workers : Blank[w] = Undefined
    BY DEF Blank
  <2>5. ASSUME NEW v \in Grouped, NEW w \in Grouped, GroupOf(v) = GroupOf(w),
               src[v] # Undefined
        PROVE  ToSet(src[v]) \subseteq Own(w)
    BY <2>5 DEF Slices
  <2>6. ASSUME NEW row, NEW w, row[w] = Undefined \/ ToSet(row[w]) \subseteq Own(w)
        PROVE  Slices(row, {w}) \subseteq Own(w)
    <3> HIDE DEF Own
    <3> QED
      BY <2>6 DEF Slices
  <2>7. ASSUME NEW w \in Grouped
        PROVE  /\ Source(src, w) \in Tensors
               /\ ToSet(Source(src, w)) \subseteq Own(w)
               /\ Offset(w) \in Nat /\ w \in Workers
    <3>1. GroupOf(w) \in Groups /\ w \in Workers
      BY GroupsAreBlocks
    <3>2. /\ Source(src, w) \in Tensors /\ Root(GroupOf(w)) \in Grouped
          /\ Offset(w) \in Nat
      BY <2>1, <2>3, SourceIsTensor, GroupsAreBlocks
    <3>3. Source(src, w) = src[Root(GroupOf(w))] /\ src[Root(GroupOf(w))] # Undefined
      BY <2>2, <3>1 DEF Source, GroupValue
    <3>4. GroupOf(Root(GroupOf(w))) = GroupOf(w)
      <4>1. 0 \in 0 .. WorkersPerGroup - 1 /\ Root(GroupOf(w)) + 0 = Root(GroupOf(w))
        BY <3>2, GroupsAreBlocks DEF Grouped
      <4> QED
        BY <3>1, <4>1, GroupsAreBlocks
    <3> HIDE DEF Own
    <3> QED
      BY <2>5, <3>1, <3>2, <3>3, <3>4
  <2> HIDE DEF Own
  <2>8. stays(BroadcastFromWorker0(src, Blank, TRUE))
    <3>1. ASSUME NEW w \in Grouped
          PROVE  BroadcastFromWorker0(src, Blank, TRUE).row[w] = Source(src, w)
      BY <2>3, <2>7 DEF BroadcastFromWorker0, Result, Source, GroupOf
    <3> QED
      BY <2>6, <2>7, <3>1
  <2>9. stays(ScatterFromWorker0(src, Blank, TRUE))
    <3> DEFINE shard == Len(src[0]) \div WorkersPerGroup
               result == ScatterFromWorker0(src, Blank, TRUE)
    <3>1. result.row = Blank \/ result = GroupScatter(src, Blank, shard)
      BY DEF ScatterFromWorker0, Result
    <3>2. shard \in Nat
      <4>1. Len(src[0]) \in Nat
        BY <2>1, <2>3, GroupsAreBlocks DEF Rows, Tensors
      <4>2. WorkersPerGroup \in Nat \ {0}
        BY GroupsAreBlocks
      <4> QED
        BY <4>1, <4>2, Division
    <3> HIDE DEF shard, result
    <3>3. ASSUME NEW w \in Grouped, Fits(src, w, shard)
          PROVE  ToSet(Piece(src, w, shard)) \subseteq Own(w)
      <4>1. ToSet(Piece(src, w, shard)) \subseteq ToSet(Source(src, w))
        BY <2>7, <3>2, <3>3, PartOfTensor DEF Piece, Fits
      <4> QED
        BY <2>7, <4>1
    <3>4. ASSUME NEW w \in Grouped
          PROVE  result.row[w] = Undefined \/ ToSet(result.row[w]) \subseteq Own(w)
      <4>1. CASE result.row = Blank
        BY <2>4, <2>7, <4>1
      <4>2. CASE result = GroupScatter(src, Blank, shard)
        <5>1. \/ result.row[w] = Blank[w]
              \/ Fits(src, w, shard) /\ result.row[w] = Piece(src, w, shard)
          BY <2>1, <2>7, <4>2, GroupScatterIs
        <5> QED
          BY <2>4, <2>7, <3>3, <5>1
      <4> QED
        BY <3>1, <4>1, <4>2
    <3> QED
      BY <2>6, <3>4 DEF result
  <2>10. stays(GatherToWorker0(src, Blank, TRUE))
    <3> DEFINE result == GatherToWorker0(src, Blank, TRUE)
    <3>1. ASSUME NEW w \in Grouped, w \in Roots(TRUE), ~Gap(src, w, TRUE)
          PROVE  Whole(src, w, TRUE) \in Seq(Own(w)) \cup {Undefined}
      <4>1. PICK g \in Groups : w = Root(g)
        BY <3>1 DEF Roots
      <4>2. ASSUME NEW i \in 1 .. Receivers(TRUE), src[w + i - 1] # Undefined
            PROVE  src[w + i - 1] \in Seq(Own(w))
        <5>1. WorkersPerGroup \in Nat /\ i \in 1 .. WorkersPerGroup
          BY GroupsAreBlocks DEF Receivers
        <5>2. i - 1 \in 0 .. WorkersPerGroup - 1 /\ 0 \in 0 .. WorkersPerGroup - 1
          BY <5>1
        <5>3. w \in Int /\ w + 0 = w /\ w + i - 1 = w + (i - 1)
          BY <5>1 DEF Grouped
        <5>4. /\ w + i - 1 \in Grouped /\ w + i - 1 \in Workers
              /\ GroupOf(w + i - 1) = g /\ GroupOf(w) = g
          BY <4>1, <5>2, <5>3, GroupsAreBlocks
        <5>5. src[w + i - 1] \in Tensors
          BY <2>1, <4>2, <5>4 DEF Rows
        <5>6. ToSet(src[w + i - 1]) \subseteq Own(w)
          BY <2>5, <4>2, <5>4
        <5> QED
          BY <5>5, <5>6, SlicesOver
      <4> QED
        BY <2>1, <3>1, <4>2, WholeOver
    <3>2. ASSUME NEW w \in Grouped
          PROVE  result.row[w] = Undefined \/ ToSet(result.row[w]) \subseteq Own(w)
      <4>1. \/ result.row[w] = Blank[w]
            \/ /\ w \in Roots(TRUE) /\ ~Gap(src, w, TRUE)
               /\ result.row[w] = Whole(src, w, TRUE)
        <5>1. w \in Workers /\ TRUE \in BOOLEAN
          BY <2>7
        <5> HIDE DEF src
        <5> QED
          BY <2>1, <5>1, GatherWrites, ZenonT(30)
      <4> HIDE DEF result
      <4> QED
        BY <2>4, <2>7, <3>1, <4>1, SlicesOver
    <3> QED
      BY <2>6, <3>2
  <2> QED
    BY <2>8, <2>9, <2>10 DEF Own, src
<1> QED
  BY <1>1, RowsTypedHolds, PTL

\* Gathering the shards of a tensor gives the tensor.
LEMMA WholeOfShards ==
    ASSUME NEW row, NEW in_group \in BOOLEAN, NEW r \in Roots(in_group),
           Receivers(in_group) # 0, NEW t \in Tensors, NEW k \in Nat,
           Len(t) = Receivers(in_group) * k,
           \A i \in 1 .. Receivers(in_group) :
               /\ row[r + i - 1] = SubSeq(t, (i - 1) * k + 1, (i - 1) * k + k)
               /\ row[r + i - 1] # Undefined
    PROVE  Whole(row, r, in_group) = t
<1> DEFINE n == Receivers(in_group)
           shards == ShardsAt(row, r, n)
<1>1. n \in Nat \ {0}
  BY RootsHaveReceivers
<1>2. DOMAIN shards = 1..n /\ \A i \in 1..n : shards[i] = row[r + i - 1]
  BY DEF ShardsAt
<1>3. Len(shards) = n
  BY <1>1 DEF ShardsAt
<1>4. shards # <<>> /\ shards[1] # Undefined
  BY <1>1, <1>2, <1>3
<1>5. Whole(row, r, in_group) = FlattenSeq(shards)
  BY <1>4 DEF Whole, ConcatFirstDim
<1>6. \A i \in 1..n : shards[i] = SubSeq(t, (i - 1) * k + 1, (i - 1) * k + k)
  BY <1>2
<1>7. Len(t) = n * k
  OBVIOUS
<1> HIDE DEF n, shards
<1> QED
  BY <1>1, <1>3, <1>5, <1>6, <1>7, FlattenShards

\* A root whose receivers all hold a tensor has no gap.
LEMMA NoGap ==
    ASSUME NEW row, NEW in_group \in BOOLEAN, NEW r \in Roots(in_group),
           \A i \in 1 .. Receivers(in_group) : row[r + i - 1] # Undefined
    PROVE  ~Gap(row, r, in_group)
  BY RootsHaveReceivers DEF Gap, HasGap, ShardsAt

\* In a session of any size: scattering a tensor and gathering the shards gives the
\* tensor back, in each group and over all workers.
THEOREM ScatterGatherRoundTripHolds == Spec => []ScatterGatherRoundTrip
<1>1. RowsTyped => ScatterGatherRoundTrip
  <2> SUFFICES ASSUME RowsTyped, NEW reg \in Registers, NEW in_group \in BOOLEAN
               PROVE  LET src == register_file[reg]
                          roots == IF in_group THEN {Root(g) : g \in Groups} ELSE {0}
                          shared(w) == IF src[w] = Undefined THEN src[0] ELSE src[w]
                          scattered == ScatterFromWorker0(src, Blank, in_group)
                          gathered == GatherToWorker0(scattered.row, Blank, in_group)
                      IN  scattered.status = "ok" =>
                             /\ gathered.status = "ok"
                             /\ \A w \in roots : Len(shared(w)) = Len(src[0]) =>
                                   gathered.row[w] = shared(w)
    BY DEF ScatterGatherRoundTrip
  <2> DEFINE src == register_file[reg]
             shared(w) == IF src[w] = Undefined THEN src[0] ELSE src[w]
             scattered == ScatterFromWorker0(src, Blank, in_group)
             row == scattered.row
             gathered == GatherToWorker0(row, Blank, in_group)
             n == Receivers(in_group)
             k == Len(src[0]) \div n
  <2>1. src \in Rows /\ Blank \in Rows /\ 0 \in Workers
    BY GroupsAreBlocks DEF RowsTyped, Registers, Blank, Rows
  <2> HIDE DEF src
  <2>2. SUFFICES ASSUME scattered.status = "ok"
                 PROVE  /\ gathered.status = "ok"
                        /\ \A r \in Roots(in_group) : Len(shared(r)) = Len(src[0]) =>
                              gathered.row[r] = shared(r)
    BY DEF src, Roots
  <2>3. src[0] # Undefined /\ n # 0 /\ Len(src[0]) % n = 0
    BY <2>2 DEF ScatterFromWorker0, Receivers, Result
  <2>4. src[0] \in Tensors /\ Len(src[0]) \in Nat /\ n \in Nat \ {0}
    BY <2>1, <2>3, SessionSize, GroupsAreBlocks DEF Rows, Tensors, Receivers
  <2>5. k \in Nat /\ Len(src[0]) = n * k
    <3> DEFINE l == Len(src[0])
    <3> HIDE DEF l, n
    <3>1. k \in Nat /\ l = k * n + 0
      BY <2>3, <2>4, Division DEF l
    <3> HIDE DEF k
    <3> QED
      BY <2>4, <3>1 DEF l
  <2>6. ASSUME NEW r \in Roots(in_group), NEW i \in 1..n
        PROVE  /\ shared(r) \in Tensors
               /\ row[r + i - 1] = SubSeq(shared(r), (i - 1) * k + 1, (i - 1) * k + k)
               /\ row[r + i - 1] # Undefined
    <3>1. CASE ~in_group
      <4>1. r = 0 /\ n = NumWorkers /\ NumWorkers \in Nat
        BY <3>1, SessionSize DEF Roots, Receivers
      <4>2. i - 1 \in Workers /\ r + i - 1 = i - 1
        BY <4>1 DEF Workers
      <4>3. row = [w \in Workers |-> Shard(src[0], 0, w, k)]
        BY <2>3, <3>1, <4>1 DEF ScatterFromWorker0, Receivers, Result
      <4>4. /\ Shard(src[0], 0, i - 1, k)
                 = SubSeq(src[0], (i - 1) * k + 1, (i - 1) * k + k)
            /\ Shard(src[0], 0, i - 1, k) \in Tensors
        BY <2>3, <2>4, <4>1, <4>2, ShardsOfAll
      <4>5. shared(r) = src[0]
        BY <4>1
      <4>6. row[r + i - 1] = Shard(src[0], 0, i - 1, k)
        BY <4>2, <4>3
      <4> HIDE DEF row, k, shared
      <4> QED
        BY <2>4, <4>4, <4>5, <4>6, UndefinedAssumption
    <3>2. CASE in_group
      <4>1. n = WorkersPerGroup
        BY <3>2 DEF Receivers
      <4>2. PICK g \in Groups : r = Root(g)
        BY <3>2 DEF Roots
      <4> DEFINE w == r + i - 1
      <4>3. /\ Root(g) \in Int /\ i - 1 \in 0 .. WorkersPerGroup - 1
            /\ w = Root(g) + (i - 1)
        BY <2>4, <4>1, <4>2, GroupsAreBlocks DEF Root, Groups
      <4>4. w \in Grouped /\ GroupOf(w) = g
        BY <2>4, <4>1, <4>3, GroupsAreBlocks
      <4>5. Offset(w) = i - 1 /\ Source(src, w) = shared(r)
        BY <4>2, <4>3, <4>4 DEF Offset, Source, GroupValue
      <4>6. scattered = GroupScatter(src, Blank, k)
        BY <2>3, <3>2 DEF ScatterFromWorker0, Receivers
      <4> HIDE DEF k, scattered, shared, w
      <4>7. Fits(src, w, k) /\ row[w] = Piece(src, w, k)
        BY <2>1, <2>2, <4>4, <4>6, GroupScatterIs
      <4>8. Source(src, w) \in Tensors
        BY <2>1, <2>3, <2>4, <4>1, <4>4, SourceIsTensor
      <4>9. Piece(src, w, k) \in Tensors
        <5>1. Offset(w) \in Nat /\ k \in Nat
          BY <2>5, <4>3, <4>5, GroupsAreBlocks
        <5>2. (Offset(w) + 1) * k <= Len(Source(src, w))
          BY <4>7 DEF Fits
        <5> QED
          BY <4>8, <5>1, <5>2, PartOfTensor DEF Piece
      <4>10. row[w] = SubSeq(shared(r), (i - 1) * k + 1, (i - 1) * k + k)
        BY <4>5, <4>7 DEF Piece
      <4> QED
        BY <4>5, <4>7, <4>8, <4>9, <4>10, UndefinedAssumption DEF w
    <3> QED
      BY <3>1, <3>2
  <2> HIDE DEF k, row, n, shared
  <2>7. ASSUME NEW r \in Roots(in_group) PROVE ~Gap(row, r, in_group)
    BY <2>6, NoGap DEF n
  <2>8. /\ gathered.status = "ok"
        /\ \A r \in Roots(in_group) : gathered.row[r] = Whole(row, r, in_group)
    <3>1. row \in Rows
      BY <2>1, ScatterRow DEF row
    <3> QED
      BY <2>1, <2>7, <3>1, GatherSucceeds
  <2>9. ASSUME NEW r \in Roots(in_group), Len(shared(r)) = Len(src[0])
        PROVE  Whole(row, r, in_group) = shared(r)
    <3>1. 1 \in 1..n
      BY <2>4
    <3>2. shared(r) \in Tensors
      BY <2>6, <3>1
    <3> QED
      <4>1. Receivers(in_group) # 0 /\ Len(shared(r)) = Receivers(in_group) * k
        BY <2>3, <2>5, <2>9 DEF n
      <4>2. \A i \in 1 .. Receivers(in_group) :
              /\ row[r + i - 1] = SubSeq(shared(r), (i - 1) * k + 1, (i - 1) * k + k)
              /\ row[r + i - 1] # Undefined
        BY <2>6 DEF n
      <4> QED
        BY <2>5, <3>2, <4>1, <4>2, WholeOfShards
  <2> QED
    BY <2>8, <2>9
<1> QED
  BY <1>1, RowsTypedHolds, PTL
=============================================================================
