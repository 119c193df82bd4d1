------------------------------- MODULE CpuCCL -------------------------------
(***************************************************************************)
(* disco::CpuCCLBackend: the collectives of the CPU backend, as operators  *)
(* on what a register holds.  A register is a row: one slot per worker,    *)
(* with a tensor or Undefined in it.  A tensor is the sequence of its      *)
(* slices along the first dimension (rank at least one, one element type), *)
(* a slice an integer.  A collective reads the row src and writes the row  *)
(* dst worker by worker; it yields the row it leaves behind and how it     *)
(* ended: "ok", "throw" (with the writes made before the exception) or     *)
(* "trap" (the integer division by zero, which the code does not guard).   *)
(* src and dst may be the same register.                                   *)
(***************************************************************************)
EXTENDS Integers, Sequences, SequencesExt, FiniteSetsExt

CONSTANTS NumWorkers,   \* num_workers_
          NumGroups,    \* num_groups_, which may exceed num_workers_
          Undefined     \* an NDArray that is not defined

\* The session's constructor raises both numbers to at least one.
ASSUME SessionSize == NumWorkers \in Nat \ {0} /\ NumGroups \in Nat \ {0}

Tensors == Seq(Int)

\* NDArray::defined() tells an array from none.
ASSUME UndefinedAssumption == Undefined \notin Tensors

Workers == 0 .. NumWorkers - 1

Groups == 0 .. NumGroups - 1

WorkersPerGroup == NumWorkers \div NumGroups

\* Workers that belong to a group; the last NumWorkers % NumGroups do not.
Grouped == 0 .. NumGroups * WorkersPerGroup - 1

Root(g) == g * WorkersPerGroup

\* The group of a worker that belongs to one.
GroupOf(w) == w \div WorkersPerGroup

Result(status, row) == [status |-> status, row |-> row]

\* A group's value: its root's, or worker 0's where the root has none.
GroupValue(src, g) ==
    IF src[Root(g)] = Undefined THEN src[0] ELSE src[Root(g)]

\* Mutant of Copy: the destination is released before the source is tested.
CopyClearsFirst(src, dst, src_worker, dst_worker) ==
    IF src_worker \notin Workers \/ dst_worker \notin Workers
    THEN Result("throw", dst)
    ELSE Result(IF src[src_worker] = Undefined THEN "throw" ELSE "ok",
                [dst EXCEPT ![dst_worker] = src[src_worker]])

Copy(src, dst, src_worker, dst_worker) ==
    IF src_worker \notin Workers \/ dst_worker \notin Workers
    THEN Result("throw", dst)
    ELSE IF src[src_worker] = Undefined
         THEN Result("throw", dst)
         ELSE Result("ok", [dst EXCEPT ![dst_worker] = src[src_worker]])

Holders(src) == {w \in Workers : src[w] # Undefined}

\* Elementwise sum over the workers that hold a tensor.
Sum(src) ==
    LET first == Min(Holders(src))
    IN  [i \in DOMAIN src[first] |->
            MapThenSumSet(LAMBDA w : src[w][i], Holders(src))]

\* in_group is ignored: the sum is always over all workers.
AllReduce(src, dst, reduce_kind) ==
    IF \/ reduce_kind # "sum"
       \/ Holders(src) = {}
       \/ \E v, w \in Holders(src) : Len(src[v]) # Len(src[w])
    THEN Result("throw", dst)
    ELSE Result("ok", [w \in Workers |-> Sum(src)])

\* Mutant of BroadcastFromWorker0: a group whose root holds its own value gets
\* worker 0's all the same.
BroadcastRootOnly(src, dst, in_group) ==
    IF src[0] = Undefined
    THEN Result("throw", dst)
    ELSE Result("ok", [w \in Workers |-> src[0]])

BroadcastFromWorker0(src, dst, in_group) ==
    IF src[0] = Undefined
    THEN Result("throw", dst)
    ELSE Result("ok", [w \in Workers |->
            IF ~in_group THEN src[0]
            ELSE IF w \in Grouped THEN GroupValue(src, GroupOf(w))
            ELSE dst[w]])

SliceFirstDim(tensor, start, len) == SubSeq(tensor, start + 1, start + len)

\* The shards of one tensor, worker `first` receiving the first of them.
Shard(tensor, first, w, shard) ==
    SliceFirstDim(tensor, (w - first) * shard, shard)

\* In groups the shard size comes from worker 0's tensor, whatever the length
\* of the tensor the group shares out: a shorter one runs out of bounds at
\* some worker, and the shards before it have been written.
GroupScatter(src, dst, shard) ==
    LET first(w) == Root(GroupOf(w))
        source(w) == GroupValue(src, GroupOf(w))
        fits(w) == (w - first(w) + 1) * shard <= Len(source(w))
        written == {w \in Grouped : \A v \in 0..w : fits(v)}
    IN  Result(IF written = Grouped THEN "ok" ELSE "throw",
               [w \in Workers |-> IF w \in written
                                  THEN Shard(source(w), first(w), w, shard)
                                  ELSE dst[w]])

\* Mutant of ScatterFromWorker0: the divisibility test is dropped.
ScatterUneven(src, dst, in_group) ==
    LET receivers == IF in_group THEN WorkersPerGroup ELSE NumWorkers
        shard == Len(src[0]) \div receivers
    IN  IF src[0] = Undefined THEN Result("throw", dst)
        ELSE IF receivers = 0 THEN Result("trap", dst)
        ELSE IF in_group THEN GroupScatter(src, dst, shard)
        ELSE Result("ok", [w \in Workers |-> Shard(src[0], 0, w, shard)])

ScatterFromWorker0(src, dst, in_group) ==
    LET receivers == IF in_group THEN WorkersPerGroup ELSE NumWorkers
        shard == Len(src[0]) \div receivers
    IN  IF src[0] = Undefined THEN Result("throw", dst)
        ELSE IF receivers = 0 THEN Result("trap", dst)
        ELSE IF Len(src[0]) % receivers # 0 THEN Result("throw", dst)
        ELSE IF in_group THEN GroupScatter(src, dst, shard)
        ELSE Result("ok", [w \in Workers |-> Shard(src[0], 0, w, shard)])

\* ConcatFirstDim throws when a shard other than the first is undefined, and
\* yields an undefined tensor when the first one is.
HasGap(shards) ==
    /\ shards # <<>> /\ shards[1] # Undefined
    /\ \E i \in DOMAIN shards : shards[i] = Undefined

ConcatFirstDim(shards) ==
    IF shards = <<>> \/ shards[1] = Undefined
    THEN Undefined ELSE FlattenSeq(shards)

ShardsAt(src, root, n) == [i \in 1..n |-> src[root + i - 1]]

GatherToWorker0(src, dst, in_group) ==
    LET receivers == IF in_group THEN WorkersPerGroup ELSE NumWorkers
        roots == IF in_group THEN {Root(g) : g \in Groups} ELSE {0}
        gap(r) == HasGap(ShardsAt(src, r, receivers))
        written == {r \in roots : \A q \in roots : q <= r => ~gap(q)}
    IN  Result(IF written = roots THEN "ok" ELSE "throw",
               [w \in Workers |-> IF w \in written
                                  THEN ConcatFirstDim(ShardsAt(src, w, receivers))
                                  ELSE dst[w]])

SendToWorker(src, dst, receiver_worker) == Copy(src, dst, 0, receiver_worker)

RecvFromWorker(src, dst, sender_worker) == Copy(src, dst, sender_worker, 0)
=============================================================================
