---------------------------- MODULE CpuCCLProofs ----------------------------
(***************************************************************************)
(* The collectives of CpuCCLBackend as operators, for any number of        *)
(* workers, any number of groups (also one that does not divide it, or     *)
(* exceeds it) and tensors of any length: how workers divide into groups   *)
(* and tensors into shards, and what each collective leaves in a row.      *)
(***************************************************************************)
EXTENDS CpuCCL, SequenceTheorems, SetInduction

-----------------------------------------------------------------------------
(* Dividing workers into groups *)

\* Integer division of natural numbers: the quotient and the rest.
LEMMA Division ==
    ASSUME NEW a \in Nat, NEW b \in Nat \ {0}
    PROVE  /\ a \div b \in Nat /\ a % b \in Nat /\ a % b < b
           /\ a = (a \div b) * b + (a % b)
  OBVIOUS

\* The quotient is the only number with that rest.
LEMMA Quotient ==
    ASSUME NEW q \in Nat, NEW b \in Nat \ {0}, NEW r \in Nat, r < b
    PROVE  (q * b + r) \div b = q
<1> DEFINE a == q * b + r
           p == a \div b
<1>1. a \in Nat
  OBVIOUS
<1>2. p \in Nat /\ a % b \in Nat /\ a % b < b /\ a = p * b + (a % b)
  BY <1>1, Division
<1>3. p * b \in Nat /\ q * b \in Nat
  BY <1>2
<1>4. CASE p < q
  <2>1. q - p - 1 \in Nat
    BY <1>2, <1>4
  <2>2. (q - p - 1) * b >= 0 /\ (q - p - 1) * b = q * b - p * b - b
    BY <1>2, <2>1
  <2> QED
    BY <1>2, <1>3, <2>2
<1>5. CASE q < p
  <2>1. p - q - 1 \in Nat
    BY <1>2, <1>5
  <2>2. (p - q - 1) * b >= 0 /\ (p - q - 1) * b = p * b - q * b - b
    BY <1>2, <2>1
  <2> QED
    BY <1>2, <1>3, <2>2
<1> QED
  BY <1>2, <1>4, <1>5

\* Groups are blocks of WorkersPerGroup workers, each starting at its root.
LEMMA GroupsAreBlocks ==
    /\ WorkersPerGroup \in Nat
    /\ Grouped \subseteq Workers
    /\ 0 \in Workers
    /\ WorkersPerGroup = 0 => \A g \in Groups : Root(g) = 0
    /\ WorkersPerGroup > 0 =>
         /\ \A g \in Groups, i \in 0 .. WorkersPerGroup - 1 :
               Root(g) + i \in Grouped /\ GroupOf(Root(g) + i) = g
         /\ \A w \in Grouped :
               /\ GroupOf(w) \in Groups
               /\ w - Root(GroupOf(w)) \in 0 .. WorkersPerGroup - 1
<1> DEFINE n == WorkersPerGroup
<1>1. /\ n \in Nat /\ NumGroups * n <= NumWorkers
      /\ NumGroups \in Nat \ {0} /\ NumWorkers \in Nat \ {0}
  BY SessionSize, Division DEF WorkersPerGroup
<1>2. NumGroups * n \in Nat
  BY <1>1
<1>3. Grouped \subseteq Workers /\ 0 \in Workers
  BY <1>1, <1>2 DEF Grouped, Workers
<1>4. ASSUME n = 0, NEW g \in Groups PROVE Root(g) = 0
  BY <1>1, <1>4 DEF Root, Groups
<1>5. ASSUME n > 0, NEW g \in Groups, NEW i \in 0 .. n - 1
      PROVE  Root(g) + i \in Grouped /\ GroupOf(Root(g) + i) = g
  <2>1. g \in Nat /\ g <= NumGroups - 1 /\ i \in Nat /\ i < n /\ n \in Nat \ {0}
    BY <1>1, <1>5 DEF Groups
  <2>2. GroupOf(g * n + i) = g
    BY <2>1, Quotient DEF GroupOf
  <2>3. NumGroups - 1 - g \in Nat
    BY <1>1, <2>1
  <2>4. (NumGroups - 1 - g) * n >= 0
    BY <1>1, <2>3
  <2>5. (NumGroups - 1 - g) * n = NumGroups * n - n - g * n
    BY <1>1, <2>1
  <2>6. g * n \in Nat
    BY <1>1, <2>1
  <2>7. g * n + i \in 0 .. NumGroups * n - 1
    BY <1>2, <2>1, <2>4, <2>5, <2>6
  <2> QED
    BY <2>2, <2>7 DEF Root, Grouped
<1>6. ASSUME n > 0, NEW w \in Grouped
      PROVE  GroupOf(w) \in Groups /\ w - Root(GroupOf(w)) \in 0 .. n - 1
  <2> DEFINE g == w \div n
  <2>1. w \in Nat /\ w < NumGroups * n /\ n \in Nat \ {0}
    BY <1>1, <1>2, <1>6 DEF Grouped
  <2>2. g \in Nat /\ w % n \in Nat /\ w % n < n /\ w = g * n + (w % n)
    BY <2>1, Division
  <2>3. ASSUME g >= NumGroups PROVE FALSE
    <3>1. g - NumGroups \in Nat
      BY <1>1, <2>2, <2>3
    <3>2. (g - NumGroups) * n >= 0
      BY <2>1, <3>1
    <3>3. (g - NumGroups) * n = g * n - NumGroups * n /\ g * n \in Nat
      BY <1>1, <2>1, <2>2
    <3> QED
      BY <1>2, <2>1, <2>2, <3>2, <3>3
  <2>4. g \in Groups
    <3>1. g \in Nat /\ ~(g >= NumGroups)
      BY <2>2, <2>3
    <3> HIDE DEF g
    <3> QED
      BY <3>1, SessionSize DEF Groups
  <2>5. w - g * n \in 0 .. n - 1
    <3>1. g * n \in Nat
      BY <2>1, <2>2
    <3> QED
      BY <2>1, <2>2, <3>1
  <2> QED
    BY <2>4, <2>5 DEF GroupOf, Root
<1> QED
  BY <1>1, <1>3, <1>4, <1>5, <1>6

-----------------------------------------------------------------------------
(* Concatenation *)

\* Concatenating the shards of a tensor gives the tensor.
LEMMA FlattenShards ==
    ASSUME NEW t \in Tensors, NEW n \in Nat \ {0}, NEW k \in Nat, Len(t) = n * k,
           NEW seqs, Len(seqs) = n,
           \A i \in 1..n : seqs[i] = SubSeq(t, (i - 1) * k + 1, (i - 1) * k + k)
    PROVE  FlattenSeq(seqs) = t
<1>1. PICK f : IsFlatten(f, seqs, n) /\ FlattenSeq(seqs) = f[n]
  BY FlattenSeqIs
<1> DEFINE Good == {j \in Nat : j \in 1..n => f[j] = SubSeq(t, 1, j * k)}
<1>2. 0 \in Good
  OBVIOUS
<1>3. ASSUME NEW j \in Nat, j \in Good PROVE j + 1 \in Good
  <2>1. SUFFICES ASSUME j + 1 \in 1..n PROVE f[j + 1] = SubSeq(t, 1, (j + 1) * k)
    OBVIOUS
  <2>2. f[j + 1] = IF j = 0 THEN seqs[j + 1] ELSE f[j] \o seqs[j + 1]
    BY <1>1, <2>1, FlattenStep, ZenonT(30)
  <2>3. j # 0 => f[j] = SubSeq(t, 1, j * k)
    BY <1>3, <2>1
  <2> DEFINE m == j * k
  <2>4. m \in Nat /\ (j + 1) * k = m + k
    OBVIOUS
  <2>5. m + k <= Len(t)
    <3>1. n - (j + 1) \in Nat
      BY <2>1
    <3>2. (n - (j + 1)) * k >= 0 /\ (n - (j + 1)) * k = n * k - (j + 1) * k
      BY <3>1
    <3> QED
      BY <2>4, <3>2
  <2>6. seqs[j + 1] = SubSeq(t, m + 1, m + k)
    BY <2>1
  <2>7. j = 0 => m = 0
    OBVIOUS
  <2> HIDE DEF m
  <2>8. CASE j = 0
    BY <2>2, <2>4, <2>6, <2>7, <2>8
  <2>9. CASE j # 0
    <3> DEFINE a == SubSeq(t, 1, m)
               b == SubSeq(t, m + 1, m + k)
               c == SubSeq(t, 1, m + k)
    <3>1. a \in Seq(Int) /\ b \in Seq(Int) /\ c \in Seq(Int)
      BY <2>4, <2>5 DEF Tensors
    <3>2. Len(a) = m /\ Len(b) = k /\ Len(c) = m + k
      BY <2>4, <2>5 DEF Tensors
    <3>3. \A i \in 1..m : a[i] = t[i]
      BY <2>4, <2>5 DEF Tensors
    <3>4. \A i \in 1..k : b[i] = t[m + i]
      BY <2>4, <2>5 DEF Tensors
    <3>5. \A i \in 1 .. m + k : c[i] = t[i]
      BY <2>4, <2>5 DEF Tensors
    <3> HIDE DEF a, b, c
    <3>6. a \o b \in Seq(Int) /\ Len(a \o b) = m + k
      BY <2>4, <3>1, <3>2
    <3>7. ASSUME NEW i \in 1 .. m + k PROVE (a \o b)[i] = c[i]
      <4>1. (a \o b)[i] = IF i <= m THEN a[i] ELSE b[i - m]
        BY <2>4, <3>1, <3>2, ConcatProperties
      <4> QED
        BY <2>4, <3>3, <3>4, <3>5, <4>1
    <3>8. a \o b = c
      BY <3>1, <3>2, <3>6, <3>7, SeqEqual
    <3> QED
      BY <2>2, <2>3, <2>4, <2>6, <2>9, <3>8 DEF a, b, c, m
  <2> QED
    BY <2>8, <2>9
<1>4. Nat \subseteq Good
  BY <1>2, <1>3, NatSetInduction
<1>5. f[n] = SubSeq(t, 1, Len(t))
  BY <1>4
<1>6. SubSeq(t, 1, Len(t)) = t
  BY DEF Tensors
<1> QED
  BY <1>1, <1>5, <1>6

-----------------------------------------------------------------------------
(* Rows: what a register holds *)

Rows == [Workers -> Tensors \cup {Undefined}]

\* A part of a tensor is a tensor of that many slices, all of them its own.
LEMMA PartOfTensor ==
    ASSUME NEW t \in Tensors, NEW i \in Nat, NEW k \in Nat, (i + 1) * k <= Len(t)
    PROVE  /\ SubSeq(t, i * k + 1, i * k + k) \in Tensors
           /\ ToSet(SubSeq(t, i * k + 1, i * k + k)) \subseteq ToSet(t)
<1> DEFINE m == i * k
<1>1. m \in Nat /\ m + k <= Len(t)
  OBVIOUS
<1> HIDE DEF m
<1> DEFINE p == SubSeq(t, m + 1, m + k)
<1>2. p \in Seq(Int) /\ Len(p) = k /\ \A j \in 1..k : p[j] = t[m + j]
  <2>1. p \in Seq(Int)
    BY <1>1 DEF Tensors
  <2>2. Len(p) = k
    BY <1>1 DEF Tensors
  <2>3. \A j \in 1..k : p[j] = t[m + j]
    BY <1>1 DEF Tensors
  <2> QED
    BY <2>1, <2>2, <2>3
<1>3. \A j \in 1..k : m + j \in 1..Len(t)
  BY <1>1 DEF Tensors
<1>4. DOMAIN p = 1..k /\ DOMAIN t = 1..Len(t)
  BY <1>2 DEF Tensors
<1> HIDE DEF p
<1>5. ToSet(p) \subseteq ToSet(t)
  BY <1>2, <1>3, <1>4 DEF ToSet
<1> QED
  BY <1>2, <1>5 DEF p, m, Tensors

\* What worker w gets in a group scatter, and whether there is enough of it.
Source(src, w) == GroupValue(src, GroupOf(w))

Offset(w) == w - Root(GroupOf(w))

Fits(src, w, shard) == (Offset(w) + 1) * shard <= Len(Source(src, w))

Piece(src, w, shard) ==
    SubSeq(Source(src, w), Offset(w) * shard + 1, Offset(w) * shard + shard)

\* A group's value is a tensor where worker 0 holds one.
LEMMA SourceIsTensor ==
    ASSUME NEW src \in Rows, src[0] # Undefined, WorkersPerGroup > 0, NEW w \in Grouped
    PROVE  /\ Source(src, w) \in Tensors
           /\ Offset(w) \in 0 .. WorkersPerGroup - 1
           /\ Root(GroupOf(w)) \in Grouped
<1>1. GroupOf(w) \in Groups /\ Offset(w) \in 0 .. WorkersPerGroup - 1
  BY GroupsAreBlocks DEF Offset
<1>2. Root(GroupOf(w)) + 0 \in Grouped
  <2>1. 0 \in 0 .. WorkersPerGroup - 1
    BY GroupsAreBlocks
  <2> QED
    BY <1>1, <2>1, GroupsAreBlocks
<1>3. Root(GroupOf(w)) \in Int
  BY <1>1, GroupsAreBlocks DEF Root, Groups
<1>4. Root(GroupOf(w)) \in Grouped /\ Root(GroupOf(w)) \in Workers /\ 0 \in Workers
  BY <1>2, <1>3, GroupsAreBlocks
<1> QED
  BY <1>1, <1>4 DEF Source, GroupValue, Rows

\* GroupScatter gives a worker its piece or leaves it alone, and succeeds only
\* when every worker of a group got its piece.
LEMMA GroupScatterIs ==
    ASSUME NEW src, NEW dst \in Rows, NEW shard
    PROVE  LET result == GroupScatter(src, dst, shard)
           IN  /\ DOMAIN result.row = Workers
               /\ \A w \in Workers :
                     \/ result.row[w] = dst[w]
                     \/ /\ w \in Grouped /\ Fits(src, w, shard)
                        /\ result.row[w] = Piece(src, w, shard)
               /\ result.status = "ok" =>
                     \A w \in Grouped : /\ Fits(src, w, shard)
                                        /\ result.row[w] = Piece(src, w, shard)
<1> DEFINE written == {w \in Grouped : \A v \in 0..w : Fits(src, v, shard)}
           row == [w \in Workers |-> IF w \in written THEN Piece(src, w, shard)
                                     ELSE dst[w]]
<1>1. GroupScatter(src, dst, shard)
        = Result(IF written = Grouped THEN "ok" ELSE "throw", row)
  BY DEF GroupScatter, Fits, Piece, Source, Offset, GroupOf, Shard, SliceFirstDim
<1>2. ASSUME NEW w \in written PROVE Fits(src, w, shard)
  <2>1. w \in 0..w
    BY GroupsAreBlocks DEF Grouped
  <2> QED
    BY <2>1
<1>3. Grouped \subseteq Workers
  BY GroupsAreBlocks
<1> HIDE DEF written
<1>4. /\ DOMAIN row = Workers
      /\ \A w \in Workers :
            row[w] = IF w \in written THEN Piece(src, w, shard) ELSE dst[w]
  OBVIOUS
<1> HIDE DEF row
<1>5. /\ GroupScatter(src, dst, shard).row = row
      /\ GroupScatter(src, dst, shard).status = "ok" => written = Grouped
  BY <1>1 DEF Result
<1>6. written \subseteq Grouped
  BY DEF written
<1> QED
  BY <1>2, <1>3, <1>4, <1>5, <1>6

\* A piece that fits is a tensor.
LEMMA PieceIsTensor ==
    ASSUME NEW src \in Rows, src[0] # Undefined, WorkersPerGroup > 0, NEW shard \in Nat,
           NEW w \in Grouped, Fits(src, w, shard)
    PROVE  Piece(src, w, shard) \in Tensors
<1>1. Source(src, w) \in Tensors /\ Offset(w) \in Nat
  BY SourceIsTensor, GroupsAreBlocks
<1> QED
  BY <1>1, PartOfTensor DEF Fits, Piece

\* GroupScatter leaves a row behind, however it ends.
LEMMA GroupScatterRow ==
    ASSUME NEW src \in Rows, NEW dst \in Rows, src[0] # Undefined,
           WorkersPerGroup > 0, NEW shard \in Nat
    PROVE  GroupScatter(src, dst, shard).row \in Rows
<1> DEFINE row == GroupScatter(src, dst, shard).row
<1>1. \A w \in Grouped : Fits(src, w, shard) => Piece(src, w, shard) \in Tensors
  BY PieceIsTensor
<1>2. ASSUME NEW w \in Workers PROVE row[w] \in Tensors \cup {Undefined}
  BY <1>1, GroupScatterIs DEF Rows
<1>3. DOMAIN row = Workers /\ row = [w \in DOMAIN row |-> row[w]]
  BY GroupScatterIs DEF GroupScatter, Result
<1> QED
  BY <1>2, <1>3 DEF Rows

-----------------------------------------------------------------------------
(* Gathering *)

Receivers(in_group) == IF in_group THEN WorkersPerGroup ELSE NumWorkers

Roots(in_group) == IF in_group THEN {Root(g) : g \in Groups} ELSE {0}

Gap(src, r, in_group) == HasGap(ShardsAt(src, r, Receivers(in_group)))

Whole(src, r, in_group) == ConcatFirstDim(ShardsAt(src, r, Receivers(in_group)))

\* Every root has its receivers beside it.
LEMMA RootsHaveReceivers ==
    ASSUME NEW in_group \in BOOLEAN, NEW r \in Roots(in_group)
    PROVE  /\ r \in Workers /\ Receivers(in_group) \in Nat
           /\ \A i \in 1 .. Receivers(in_group) : r + i - 1 \in Workers
<1>1. CASE ~in_group
  BY <1>1, SessionSize DEF Roots, Receivers, Workers
<1>2. CASE in_group
  <2>1. PICK g \in Groups : r = Root(g)
    BY <1>2 DEF Roots
  <2>2. Receivers(in_group) = WorkersPerGroup /\ WorkersPerGroup \in Nat
    BY <1>2, GroupsAreBlocks DEF Receivers
  <2>3. Root(g) \in Int
    BY <2>2, SessionSize DEF Root, Groups
  <2>4. ASSUME NEW i \in 1 .. WorkersPerGroup PROVE r + i - 1 \in Workers
    <3>1. i - 1 \in 0 .. WorkersPerGroup - 1 /\ WorkersPerGroup > 0
      BY <2>2
    <3>2. Root(g) + (i - 1) \in Workers
      BY <3>1, GroupsAreBlocks
    <3> QED
      BY <2>1, <2>3, <3>2
  <2>5. r \in Workers
    <3>1. CASE WorkersPerGroup = 0
      BY <2>1, <3>1, GroupsAreBlocks
    <3>2. CASE WorkersPerGroup # 0
      <4>1. 1 \in 1 .. WorkersPerGroup /\ r + 1 - 1 = r
        BY <2>1, <2>2, <2>3, <3>2
      <4> QED
        BY <2>4, <4>1
    <3> QED
      BY <3>1, <3>2
  <2> QED
    BY <2>2, <2>4, <2>5
<1> QED
  BY <1>1, <1>2

\* The roots that are written: those before the first gap.
Written(src, in_group) ==
    {r \in Roots(in_group) : \A q \in Roots(in_group) : q <= r => ~Gap(src, q, in_group)}

\* GatherToWorker0 in these terms.
LEMMA GatherIs ==
    ASSUME NEW src, NEW dst, NEW in_group
    PROVE  GatherToWorker0(src, dst, in_group)
             = Result(IF Written(src, in_group) = Roots(in_group) THEN "ok" ELSE "throw",
                      [w \in Workers |-> IF w \in Written(src, in_group)
                                         THEN Whole(src, w, in_group) ELSE dst[w]])
  BY DEF GatherToWorker0, Written, Gap, Whole, Roots, Receivers

\* A root without a gap is given the whole, any other worker is left alone.
LEMMA GatherWrites ==
    ASSUME NEW src \in Rows, NEW dst \in Rows, NEW in_group \in BOOLEAN,
           NEW row, row = GatherToWorker0(src, dst, in_group).row
    PROVE  /\ row = [w \in Workers |-> row[w]]
           /\ \A w \in Workers :
                 \/ row[w] = dst[w]
                 \/ /\ w \in Roots(in_group) /\ ~Gap(src, w, in_group)
                    /\ row[w] = Whole(src, w, in_group)
<1>1. row = [w \in Workers |-> IF w \in Written(src, in_group)
                               THEN Whole(src, w, in_group) ELSE dst[w]]
  BY GatherIs DEF Result
<1>2. ASSUME NEW r \in Written(src, in_group)
      PROVE  r \in Roots(in_group) /\ ~Gap(src, r, in_group)
  <2>1. r \in Roots(in_group) /\ r <= r
    BY RootsHaveReceivers DEF Written, Workers
  <2> QED
    BY <2>1 DEF Written
<1> QED
  BY <1>1, <1>2

\* Where no root has a gap it succeeds and writes all of them.
LEMMA GatherSucceeds ==
    ASSUME NEW src \in Rows, NEW dst \in Rows, NEW in_group \in BOOLEAN,
           \A r \in Roots(in_group) : ~Gap(src, r, in_group)
    PROVE  /\ GatherToWorker0(src, dst, in_group).status = "ok"
           /\ \A w \in Roots(in_group) :
                 GatherToWorker0(src, dst, in_group).row[w] = Whole(src, w, in_group)
<1>1. Written(src, in_group) = Roots(in_group)
  BY DEF Written
<1>2. Roots(in_group) \subseteq Workers
  BY RootsHaveReceivers
<1> QED
  BY <1>1, <1>2, GatherIs DEF Result

\* Without groups there is one root, and nothing is written when it throws.
LEMMA GatherThrows ==
    ASSUME NEW src, NEW dst \in Rows, GatherToWorker0(src, dst, FALSE).status = "throw"
    PROVE  GatherToWorker0(src, dst, FALSE).row = dst
<1>1. Written(src, FALSE) # Roots(FALSE)
  BY GatherIs DEF Result
<1>2. Written(src, FALSE) = {}
  BY <1>1 DEF Written, Roots
<1>3. dst = [w \in Workers |-> dst[w]]
  BY DEF Rows
<1> QED
  BY <1>2, <1>3, GatherIs DEF Result

\* Shards over S, none of them missing, make a whole over S, or none at all.
LEMMA WholeOver ==
    ASSUME NEW src \in Rows, NEW in_group \in BOOLEAN, NEW r \in Roots(in_group),
           ~Gap(src, r, in_group), NEW S,
           \A i \in 1 .. Receivers(in_group) :
               src[r + i - 1] # Undefined => src[r + i - 1] \in Seq(S)
    PROVE  Whole(src, r, in_group) \in Seq(S) \cup {Undefined}
<1> DEFINE n == Receivers(in_group)
           shards == ShardsAt(src, r, n)
<1>1. n \in Nat
  BY RootsHaveReceivers
<1>2. DOMAIN shards = 1..n /\ \A i \in 1..n : shards[i] = src[r + i - 1]
  BY DEF ShardsAt
<1>3. Len(shards) = n
  BY <1>1 DEF ShardsAt
<1>4. CASE shards = <<>> \/ shards[1] = Undefined
  BY <1>4 DEF Whole, ConcatFirstDim
<1>5. CASE shards # <<>> /\ shards[1] # Undefined
  <2>1. n \in Nat \ {0}
    <3>1. n = 0 => shards = <<>>
      BY DEF ShardsAt
    <3> QED
      BY <1>1, <1>5, <3>1
  <2>2. \A i \in 1..n : shards[i] # Undefined
    BY <1>2, <1>5 DEF Gap, HasGap
  <2>3. \A i \in 1..n : shards[i] \in Seq(S)
    BY <1>2, <2>2
  <2>4. Whole(src, r, in_group) = FlattenSeq(shards)
    BY <1>5 DEF Whole, ConcatFirstDim
  <2> HIDE DEF n, shards
  <2> QED
    BY <1>3, <2>1, <2>3, <2>4, FlattenType
<1> QED
  BY <1>4, <1>5

-----------------------------------------------------------------------------
(* Every collective leaves a row behind *)

\* Copy, and with it SendToWorker and RecvFromWorker.
LEMMA CopyRow ==
    ASSUME NEW src \in Rows, NEW dst \in Rows, NEW v, NEW w
    PROVE  Copy(src, dst, v, w).row \in Rows
<1>1. ASSUME v \in Workers, w \in Workers
      PROVE  [dst EXCEPT ![w] = src[v]] \in Rows
  BY <1>1 DEF Rows
<1> QED
  BY <1>1 DEF Copy, Result

\* The sum of the workers' slices i.
SliceSum(src, i, H) == MapThenSumSet(LAMBDA w : src[w][i], H)

\* The sum of integers over a finite set of workers is an integer.
LEMMA SliceSumType ==
    ASSUME NEW src, NEW i, NEW H, IsFiniteSet(H), \A w \in H : src[w][i] \in Int
    PROVE  SliceSum(src, i, H) \in Int
<1> DEFINE u == [w \in H |-> src[w][i]]
           Sums(h) == h = [s \in SUBSET H |->
                             IF s = {} THEN 0 ELSE src[Pick(s)][i] + h[s \ {Pick(s)}]]
<1>1. SliceSum(src, i, H) = (CHOOSE h : Sums(h))[H]
  BY Zenon DEF SliceSum, MapThenSumSet, MapThenFoldSet, Pick
<1>2. ASSUME NEW s \in SUBSET H, s # {} PROVE src[Pick(s)][i] = u[Pick(s)]
  BY <1>2, PickRemoves
<1>3. ASSUME NEW h PROVE Sums(h) <=> IsSum(h, u, H)
  BY <1>2 DEF IsSum
<1>4. u \in [H -> Int]
  OBVIOUS
<1> HIDE DEF u
<1>5. \E h : Sums(h)
  BY <1>3, <1>4, SumExists
<1> HIDE DEF Sums
<1>6. Sums(CHOOSE h : Sums(h))
  BY <1>5, Zenon
<1> DEFINE g == CHOOSE h : Sums(h)
<1>7. IsSum(g, u, H)
  BY <1>3, <1>6
<1> HIDE DEF g
<1>8. g[H] \in Int
  <2>1. \A w \in H : u[w] <= u[w]
    BY <1>4
  <2> QED
    BY <1>4, <1>7, <2>1, SumMonotone
<1> QED
  BY <1>1, <1>8 DEF g

\* The elementwise sum of tensors of one length is a tensor.
LEMMA SumIsTensor ==
    ASSUME NEW src \in Rows, Holders(src) # {},
           \A v, w \in Holders(src) : Len(src[v]) = Len(src[w])
    PROVE  Sum(src) \in Tensors
<1> DEFINE H == Holders(src)
<1>1. H # {} /\ \A v, w \in H : Len(src[v]) = Len(src[w])
  OBVIOUS
<1>2. H \subseteq Workers /\ IsFiniteSet(H)
  <2>1. IsFiniteSet(Workers)
    BY FS_Interval, SessionSize DEF Workers
  <2> QED
    BY <2>1, FS_Subset DEF Holders
<1>3. \A w \in H : src[w] \in Tensors
  BY DEF Holders, Rows
<1>4. Min(H) \in H
  <2>1. \E x \in H : \A y \in H : x <= y
    BY <1>1, <1>2, LeastNatural DEF Workers
  <2> QED
    BY <2>1 DEF Min
<1> DEFINE first == Min(H)
           l == Len(src[first])
<1>5. l \in Nat /\ DOMAIN src[first] = 1..l
  BY <1>3, <1>4 DEF Tensors
<1>6. ASSUME NEW i \in 1..l
      PROVE  SliceSum(src, i, H) \in Int
  <2>1. ASSUME NEW w \in H PROVE src[w][i] \in Int
    <3>1. Len(src[w]) = l /\ src[w] \in Seq(Int)
      BY <1>1, <1>3, <1>4 DEF Tensors
    <3> QED
      BY <1>6, <3>1
  <2> QED
    BY <1>2, <2>1, SliceSumType
<1> DEFINE term == [i \in 1..l |-> SliceSum(src, i, H)]
<1>7. Sum(src) = term
  BY <1>5 DEF Sum, SliceSum
<1>8. term \in [1..l -> Int]
  BY <1>6
<1> HIDE DEF term, l, first
<1> QED
  BY <1>5, <1>7, <1>8 DEF Tensors

\* AllReduce.
LEMMA AllReduceRow ==
    ASSUME NEW src \in Rows, NEW dst \in Rows, NEW kind
    PROVE  AllReduce(src, dst, kind).row \in Rows
  BY SumIsTensor DEF AllReduce, Result, Rows

\* BroadcastFromWorker0.
LEMMA BroadcastRow ==
    ASSUME NEW src \in Rows, NEW dst \in Rows, NEW in_group \in BOOLEAN
    PROVE  BroadcastFromWorker0(src, dst, in_group).row \in Rows
<1>1. 0 \in Workers
  BY GroupsAreBlocks
<1>2. ASSUME src[0] # Undefined, NEW w \in Grouped
      PROVE  GroupValue(src, GroupOf(w)) \in Tensors
  <2>1. WorkersPerGroup > 0
    BY GroupsAreBlocks, SessionSize DEF Grouped
  <2> QED
    BY <1>2, <2>1, SourceIsTensor DEF Source
<1> QED
  BY <1>1, <1>2 DEF BroadcastFromWorker0, Result, Rows

\* The shards of a tensor whose length the number of workers divides.
LEMMA ShardsOfAll ==
    ASSUME NEW t \in Tensors, Len(t) % NumWorkers = 0
    PROVE  LET shard == Len(t) \div NumWorkers
           IN  /\ shard \in Nat /\ Len(t) = NumWorkers * shard
               /\ \A w \in Workers :
                     /\ Shard(t, 0, w, shard) = SubSeq(t, w * shard + 1, w * shard + shard)
                     /\ Shard(t, 0, w, shard) \in Tensors
<1> DEFINE shard == Len(t) \div NumWorkers
<1>1. NumWorkers \in Nat \ {0} /\ Len(t) \in Nat
  BY SessionSize DEF Tensors
<1>2. shard \in Nat /\ Len(t) = shard * NumWorkers + 0
  BY <1>1, Division
<1>3. Len(t) = NumWorkers * shard
  BY <1>1, <1>2
<1> HIDE DEF shard
<1>4. ASSUME NEW w \in Workers PROVE
        /\ Shard(t, 0, w, shard) = SubSeq(t, w * shard + 1, w * shard + shard)
        /\ Shard(t, 0, w, shard) \in Tensors
  <2>1. w \in Nat /\ NumWorkers - (w + 1) \in Nat /\ w - 0 = w
    BY <1>1 DEF Workers
  <2>2. (NumWorkers - (w + 1)) * shard >= 0
    BY <1>2, <2>1
  <2>3. (NumWorkers - (w + 1)) * shard = NumWorkers * shard - (w + 1) * shard
    BY <1>1, <1>2, <2>1
  <2>4. (w + 1) * shard \in Nat /\ NumWorkers * shard \in Nat
    BY <1>1, <1>2, <2>1
  <2>5. (w + 1) * shard <= Len(t)
    BY <1>3, <2>2, <2>3, <2>4
  <2> QED
    BY <1>2, <2>1, <2>5, PartOfTensor DEF Shard, SliceFirstDim
<1> QED
  BY <1>2, <1>3, <1>4 DEF shard

\* ScatterFromWorker0.
LEMMA ScatterRow ==
    ASSUME NEW src \in Rows, NEW dst \in Rows, NEW in_group \in BOOLEAN
    PROVE  ScatterFromWorker0(src, dst, in_group).row \in Rows
<1>1. SUFFICES ASSUME src[0] # Undefined, Receivers(in_group) # 0,
                      Len(src[0]) % Receivers(in_group) = 0
               PROVE  ScatterFromWorker0(src, dst, in_group).row \in Rows
  BY DEF ScatterFromWorker0, Receivers, Result
<1>2. src[0] \in Tensors
  BY <1>1, GroupsAreBlocks DEF Rows
<1>3. CASE in_group
  <2>1. WorkersPerGroup \in Nat \ {0}
    BY <1>1, <1>3, GroupsAreBlocks DEF Receivers
  <2> DEFINE l == Len(src[0])
             shard == l \div WorkersPerGroup
  <2>2. l \in Nat
    BY <1>2 DEF Tensors
  <2>3. ScatterFromWorker0(src, dst, in_group) = GroupScatter(src, dst, shard)
    BY <1>1, <1>3 DEF ScatterFromWorker0, Receivers
  <2> HIDE DEF l
  <2>4. shard \in Nat
    BY <2>1, <2>2, Division
  <2> HIDE DEF shard
  <2>5. GroupScatter(src, dst, shard).row \in Rows
    BY <1>1, <2>1, <2>4, GroupScatterRow
  <2> QED
    BY <2>3, <2>5
<1>4. CASE ~in_group
  <2> DEFINE shard == Len(src[0]) \div NumWorkers
  <2>1. ScatterFromWorker0(src, dst, in_group).row
          = [w \in Workers |-> Shard(src[0], 0, w, shard)]
    BY <1>1, <1>4 DEF ScatterFromWorker0, Receivers, Result
  <2>2. \A w \in Workers : Shard(src[0], 0, w, shard) \in Tensors
    BY <1>1, <1>2, <1>4, ShardsOfAll DEF Receivers
  <2> HIDE DEF shard
  <2> QED
    BY <2>1, <2>2 DEF Rows
<1> QED
  BY <1>3, <1>4

\* GatherToWorker0.
LEMMA GatherRow ==
    ASSUME NEW src \in Rows, NEW dst \in Rows, NEW in_group \in BOOLEAN
    PROVE  GatherToWorker0(src, dst, in_group).row \in Rows
<1> DEFINE row == GatherToWorker0(src, dst, in_group).row
<1>1. ASSUME NEW r \in Roots(in_group), ~Gap(src, r, in_group)
      PROVE  Whole(src, r, in_group) \in Seq(Int) \cup {Undefined}
  <2>1. \A i \in 1 .. Receivers(in_group) :
           src[r + i - 1] # Undefined => src[r + i - 1] \in Seq(Int)
    BY RootsHaveReceivers DEF Rows, Tensors
  <2> QED
    BY <1>1, <2>1, WholeOver
<1>2. ASSUME NEW w \in Workers PROVE row[w] \in Tensors \cup {Undefined}
  <2>1. \/ row[w] = dst[w]
        \/ /\ w \in Roots(in_group) /\ ~Gap(src, w, in_group)
           /\ row[w] = Whole(src, w, in_group)
    BY GatherWrites
  <2>2. dst[w] \in Tensors \cup {Undefined}
    BY DEF Rows
  <2> HIDE DEF row
  <2> QED
    BY <1>1, <2>1, <2>2 DEF Tensors
<1>3. row = [w \in Workers |-> row[w]]
  BY GatherWrites
<1> HIDE DEF row
<1>4. row \in Rows
  BY <1>2, <1>3 DEF Rows
<1> QED
  BY <1>4 DEF row

-----------------------------------------------------------------------------
(* A collective from a register into itself *)

\* It takes no worker's tensor away.
Keeps(src, result) ==
    result.status = "ok" =>
        result.row \in Rows /\ \A w \in Workers : src[w] # Undefined => result.row[w] # Undefined

\* Copy, and with it SendToWorker and RecvFromWorker; it leaves a tensor at the
\* destination.
LEMMA CopyKeeps ==
    ASSUME NEW src \in Rows, NEW v, NEW w
    PROVE  LET result == Copy(src, src, v, w)
           IN  /\ Keeps(src, result)
               /\ result.status = "ok" => w \in Workers /\ result.row[w] # Undefined
<1> DEFINE result == Copy(src, src, v, w)
<1>1. result.row \in Rows
  BY CopyRow
<1>2. CASE v \in Workers /\ w \in Workers /\ src[v] # Undefined
  <2>1. result.row = [src EXCEPT ![w] = src[v]]
    BY <1>2 DEF Copy, Result
  <2>2. \A x \in Workers : result.row[x] = IF x = w THEN src[v] ELSE src[x]
    BY <2>1 DEF Rows
  <2> HIDE DEF result
  <2> QED
    BY <1>1, <1>2, <2>2 DEF Keeps, result
<1>3. CASE ~(v \in Workers /\ w \in Workers /\ src[v] # Undefined)
  <2>1. result.status = "throw"
    BY <1>3 DEF Copy, Result
  <2> HIDE DEF result
  <2> QED
    BY <2>1 DEF Keeps, result
<1> QED
  BY <1>2, <1>3

\* AllReduce; it leaves a tensor with everybody.
LEMMA AllReduceKeeps ==
    ASSUME NEW src \in Rows, NEW kind
    PROVE  LET result == AllReduce(src, src, kind)
           IN  /\ Keeps(src, result)
               /\ result.status = "ok" => \A w \in Workers : result.row[w] # Undefined
<1> DEFINE result == AllReduce(src, src, kind)
<1>1. result.row \in Rows
  BY AllReduceRow
<1>2. result.status = "ok" => \A w \in Workers : result.row[w] = Sum(src) /\ Sum(src) \in Tensors
  BY SumIsTensor DEF AllReduce, Result
<1> HIDE DEF result
<1>3. result.status = "ok" => \A w \in Workers : result.row[w] # Undefined
  BY <1>2, UndefinedAssumption
<1> QED
  BY <1>1, <1>3 DEF Keeps, result

\* BroadcastFromWorker0; over all workers, or where all are in groups, so does it.
LEMMA BroadcastKeeps ==
    ASSUME NEW src \in Rows, NEW in_group \in BOOLEAN
    PROVE  LET result == BroadcastFromWorker0(src, src, in_group)
           IN  /\ Keeps(src, result)
               /\ result.status = "ok" /\ (in_group => Grouped = Workers) =>
                     \A w \in Workers : result.row[w] # Undefined
<1> DEFINE result == BroadcastFromWorker0(src, src, in_group)
<1>1. result.row \in Rows
  BY BroadcastRow
<1>2. 0 \in Workers
  BY GroupsAreBlocks
<1>3. result.status = "ok" =>
         /\ src[0] # Undefined
         /\ \A w \in Workers : result.row[w] = IF ~in_group THEN src[0]
                                              ELSE IF w \in Grouped THEN GroupValue(src, GroupOf(w))
                                              ELSE src[w]
  BY DEF BroadcastFromWorker0, Result
<1>4. src[0] # Undefined => \A w \in Grouped : GroupValue(src, GroupOf(w)) # Undefined
  BY DEF GroupValue
<1> HIDE DEF result
<1> QED
  BY <1>1, <1>3, <1>4 DEF Keeps, result

\* ScatterFromWorker0: shards are tensors, and where all workers get one all
\* have a tensor.
LEMMA ScatterKeeps ==
    ASSUME NEW src \in Rows, NEW in_group \in BOOLEAN
    PROVE  LET result == ScatterFromWorker0(src, src, in_group)
           IN  /\ Keeps(src, result)
               /\ result.status = "ok" /\ (in_group => Grouped = Workers) =>
                     \A w \in Workers : result.row[w] # Undefined
<1> DEFINE result == ScatterFromWorker0(src, src, in_group)
<1>1. result.row \in Rows
  BY ScatterRow
<1>2. SUFFICES ASSUME src[0] # Undefined, Receivers(in_group) # 0,
                      Len(src[0]) % Receivers(in_group) = 0
               PROVE  /\ \A w \in Workers : src[w] # Undefined => result.row[w] # Undefined
                      /\ result.status = "ok" /\ (in_group => Grouped = Workers) =>
                            \A w \in Workers : result.row[w] # Undefined
  <2>1. result.status = "ok" =>
           /\ src[0] # Undefined /\ Receivers(in_group) # 0
           /\ Len(src[0]) % Receivers(in_group) = 0
    BY DEF ScatterFromWorker0, Receivers, Result
  <2> HIDE DEF result
  <2> QED
    BY <1>1, <2>1 DEF Keeps, result
<1>3. src[0] \in Tensors
  BY <1>2, GroupsAreBlocks DEF Rows
<1>4. CASE in_group
  <2>1. WorkersPerGroup \in Nat \ {0}
    BY <1>2, <1>4, GroupsAreBlocks DEF Receivers
  <2> DEFINE l == Len(src[0])
             shard == l \div WorkersPerGroup
  <2>2. l \in Nat
    BY <1>3 DEF Tensors
  <2>3. result = GroupScatter(src, src, shard)
    BY <1>2, <1>4 DEF ScatterFromWorker0, Receivers
  <2> HIDE DEF l
  <2>4. shard \in Nat
    BY <2>1, <2>2, Division
  <2> HIDE DEF shard, result
  <2>5. \A w \in Workers : \/ result.row[w] = src[w]
                          \/ /\ w \in Grouped /\ Fits(src, w, shard)
                             /\ result.row[w] = Piece(src, w, shard)
    BY <2>3, GroupScatterIs
  <2>7. result.status = "ok" =>
           \A w \in Grouped : /\ Fits(src, w, shard)
                              /\ result.row[w] = Piece(src, w, shard)
    BY <2>3, GroupScatterIs
  <2>6. \A w \in Grouped : Fits(src, w, shard) => Piece(src, w, shard) # Undefined
    BY <1>2, <2>1, <2>4, PieceIsTensor, UndefinedAssumption
  <2> QED
    BY <1>4, <2>5, <2>6, <2>7 DEF result
<1>5. CASE ~in_group
  <2> DEFINE shard == Len(src[0]) \div NumWorkers
  <2>1. result.row = [w \in Workers |-> Shard(src[0], 0, w, shard)]
    BY <1>2, <1>5 DEF ScatterFromWorker0, Receivers, Result
  <2>2. \A w \in Workers : Shard(src[0], 0, w, shard) \in Tensors
    BY <1>2, <1>3, <1>5, ShardsOfAll DEF Receivers
  <2> HIDE DEF shard, result
  <2> QED
    BY <2>1, <2>2, UndefinedAssumption DEF result
<1> QED
  BY <1>4, <1>5

\* GatherToWorker0, unless groups are empty: what a root gathers begins with
\* its own shard.
LEMMA GatherKeeps ==
    ASSUME NEW src \in Rows, NEW in_group \in BOOLEAN, Receivers(in_group) > 0
    PROVE  Keeps(src, GatherToWorker0(src, src, in_group))
<1> DEFINE row == GatherToWorker0(src, src, in_group).row
           n == Receivers(in_group)
<1>1. row \in Rows
  BY GatherRow
<1>2. ASSUME NEW r \in Roots(in_group), ~Gap(src, r, in_group), src[r] # Undefined
      PROVE  Whole(src, r, in_group) \in Tensors
  <2> DEFINE shards == ShardsAt(src, r, n)
  <2>1. n \in Nat \ {0} /\ r \in Int /\ \A i \in 1..n : src[r + i - 1] \in Tensors \cup {Undefined}
    BY RootsHaveReceivers DEF Rows, Workers
  <2>2. DOMAIN shards = 1..n /\ \A i \in 1..n : shards[i] = src[r + i - 1]
    BY DEF ShardsAt
  <2>3. Len(shards) = n
    BY <2>1 DEF ShardsAt
  <2>4. r + 1 - 1 = r /\ 1 \in 1..n
    BY <2>1
  <2>5. shards[1] # Undefined /\ shards # <<>>
    BY <1>2, <2>2, <2>3, <2>4
  <2>6. \A i \in 1..n : shards[i] \in Seq(Int)
    BY <1>2, <2>1, <2>2, <2>5 DEF Gap, HasGap, Tensors
  <2>7. Whole(src, r, in_group) = FlattenSeq(shards)
    BY <2>5 DEF Whole, ConcatFirstDim
  <2> HIDE DEF shards, n
  <2> QED
    BY <2>1, <2>3, <2>6, <2>7, FlattenType DEF Tensors
<1>3. \A w \in Workers : \/ row[w] = src[w]
                        \/ /\ w \in Roots(in_group) /\ ~Gap(src, w, in_group)
                           /\ row[w] = Whole(src, w, in_group)
  BY GatherWrites
<1> HIDE DEF row
<1>4. \A w \in Workers : src[w] # Undefined => row[w] # Undefined
  BY <1>2, <1>3, UndefinedAssumption
<1> QED
  BY <1>1, <1>4 DEF Keeps, row
=============================================================================
