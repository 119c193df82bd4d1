----------------------------- MODULE RelayTypes -----------------------------
(***************************************************************************)
(* The type rules of the Relay operators (src/relay/type_infer.cc) that    *)
(* are registered with a lowering, over programs given as the sequence of  *)
(* their nodes in post-order: an argument is the position of an earlier    *)
(* node, so sharing is sharing of positions.                               *)
(*                                                                         *)
(* A tensor type is [shape, t]; a negative dimension is unknown.  Throw    *)
(* stands for every std::runtime_error.  The attributes of a call are a    *)
(* record with the fields the program sets; <<>> is no attributes at all.  *)
(***************************************************************************)
EXTENDS Integers, Sequences, SequencesExt

TensorType(shape, t) == [shape |-> shape, t |-> t]

TupleType(fields) == [fields |-> fields, t |-> "tuple"]

Throw == TensorType(<<>>, "error")

(* A field of the attributes, or the default its reader falls back on. *)
Attr(attrs, field, default) == IF field \in DOMAIN attrs THEN attrs[field] ELSE default

Require(ok, type) == IF ok THEN type ELSE Throw

SameDType(types) == \A i \in DOMAIN types : types[i].t = types[1].t

IsKnown(dim) == dim >= 0

SameOrUnknown(l, r) == ~IsKnown(l) \/ ~IsKnown(r) \/ l = r

Product(s) == FoldLeft(LAMBDA p, d : p * d, 1, s)

KnownProduct(s) == IF \A i \in DOMAIN s : IsKnown(s[i]) THEN Product(s) ELSE -1

----------------------------------------------------------------------------
(* Shapes aligned at their last dimension, missing ones being 1. *)
Dim(s, rank, i) == IF i + Len(s) > rank THEN s[i + Len(s) - rank] ELSE 1

LargerRank(l, r) == IF Len(l) > Len(r) THEN Len(l) ELSE Len(r)

Broadcastable(l, r) ==
    \A i \in 1..LargerRank(l, r) :
        LET a == Dim(l, LargerRank(l, r), i)
            b == Dim(r, LargerRank(l, r), i)
        IN  a = b \/ 1 \in {a, b} \/ ~IsKnown(a) \/ ~IsKnown(b)

BroadcastShape(l, r) ==
    [i \in 1..LargerRank(l, r) |->
        LET a == Dim(l, LargerRank(l, r), i)
            b == Dim(r, LargerRank(l, r), i)
        IN  CASE a = b -> a [] a = 1 -> b [] b = 1 -> a [] OTHER -> -1]

AxisInRange(axis, upper, rank) ==
    LET a == IF axis < 0 THEN axis + rank ELSE axis IN a >= 0 /\ a <= upper

NormalizeAxis(axis, rank) == IF axis < 0 THEN axis + rank ELSE axis

(* No axes means all of them, in order. *)
NormalizeAxes(axes, rank) ==
    IF axes = <<>> THEN [i \in 1..rank |-> i - 1]
    ELSE [i \in DOMAIN axes |-> NormalizeAxis(axes[i], rank)]

AxesValid(axes, rank) ==
    /\ \A i \in DOMAIN axes : AxisInRange(axes[i], rank - 1, rank)
    /\ LET n == NormalizeAxes(axes, rank)
       IN  \A i, j \in DOMAIN n : n[i] = n[j] => i = j

ReadPair(v, default) ==
    CASE Len(v) = 0 -> <<default, default>>
      [] Len(v) = 1 -> <<v[1], v[1]>>
      [] OTHER      -> <<v[1], v[2]>>

ReadPadding(v) ==
    CASE Len(v) = 0 -> <<0, 0, 0, 0>>
      [] Len(v) = 1 -> <<v[1], v[1], v[1], v[1]>>
      [] Len(v) = 2 -> <<v[1], v[2], v[1], v[2]>>
      [] OTHER      -> <<v[1], v[2], v[3], v[4]>>

(* The window's numerator; the rule throws when it is negative. *)
Numerator(input, kernel, before, after, dilation) ==
    input + before + after - (dilation * (kernel - 1) + 1)

WindowFits(input, kernel, before, after, stride, dilation) ==
    /\ stride > 0 /\ dilation > 0
    /\ IsKnown(input) /\ IsKnown(kernel) => Numerator(input, kernel, before, after, dilation) >= 0

WindowOutputDim(input, kernel, before, after, stride, dilation, ceil) ==
    IF ~IsKnown(input) \/ ~IsKnown(kernel) THEN -1
    ELSE LET n == Numerator(input, kernel, before, after, dilation)
         IN  (IF ceil THEN (n + stride - 1) \div stride ELSE n \div stride) + 1

----------------------------------------------------------------------------
(* One rule per operator; in is the sequence of argument types. *)

BinaryBroadcastInferType(in) ==
    Require(/\ Len(in) = 2 /\ SameDType(in)
            /\ Broadcastable(in[1].shape, in[2].shape),
            TensorType(BroadcastShape(in[1].shape, in[2].shape), in[1].t))

UnarySameInferType(in) == Require(Len(in) = 1, in[1])

CastInferType(attrs, in) ==
    Require(Len(in) = 1, TensorType(in[1].shape, Attr(attrs, "to", in[1].t)))

MatMulInferType(in) ==
    Require(/\ Len(in) = 2 /\ SameDType(in)
            /\ Len(in[1].shape) = 2 /\ Len(in[2].shape) = 2
            /\ SameOrUnknown(in[1].shape[2], in[2].shape[1]),
            TensorType(<<in[1].shape[1], in[2].shape[2]>>, in[1].t))

DenseInferType(attrs, in) ==
    LET units == Attr(attrs, "units", 0)
    IN  Require(/\ Len(in) = 2 /\ SameDType(in)
                /\ Len(in[1].shape) = 2 /\ Len(in[2].shape) = 2
                /\ SameOrUnknown(in[1].shape[2], in[2].shape[2]),
                TensorType(<<in[1].shape[1], IF units > 0 THEN units ELSE in[2].shape[1]>>,
                           Attr(attrs, "out_dtype", in[1].t)))

GemmInferType(attrs, in) ==
    LET Swap(s, trans) == IF trans # 0 THEN <<s[2], s[1]>> ELSE s
        a   == Swap(in[1].shape, Attr(attrs, "transA", 0))
        b   == Swap(in[2].shape, Attr(attrs, "transB", 0))
        out == <<a[1], b[2]>>
    IN  Require(/\ Len(in) = 3 /\ SameDType(in)
                /\ Len(in[1].shape) = 2 /\ Len(in[2].shape) = 2
                /\ SameOrUnknown(a[2], b[1])
                /\ Broadcastable(in[3].shape, out),
                TensorType(out, in[1].t))

Conv2DInferType(attrs, in) ==
    LET x == in[1].shape
        w == in[2].shape
        strides  == ReadPair(Attr(attrs, "strides", <<>>), 1)
        dilation == ReadPair(Attr(attrs, "dilation", <<>>), 1)
        pad      == ReadPadding(Attr(attrs, "padding", <<>>))
        groups   == Attr(attrs, "groups", 1)
        size     == Attr(attrs, "kernel_size", <<>>)
        kernel   == [i \in 1..2 |-> IF i \in DOMAIN size THEN size[i] ELSE w[i + 2]]
        channels == IF Attr(attrs, "channels", 0) > 0 THEN attrs.channels ELSE w[1]
    IN  Require(/\ Len(in) \in {2, 3} /\ SameDType(in)
                /\ Len(x) = 4 /\ Len(w) = 4
                /\ Attr(attrs, "data_layout", "") \in {"", "NCHW"}
                /\ Attr(attrs, "kernel_layout", "") \in {"", "OIHW"}
                /\ SameOrUnknown(x[2], w[2] * IF groups > 1 THEN groups ELSE 1)
                /\ \A i \in 1..2 : SameOrUnknown(kernel[i], w[i + 2])
                /\ Len(in) = 3 => /\ Len(in[3].shape) = 1
                                  /\ SameOrUnknown(in[3].shape[1], channels)
                /\ \A i \in 1..2 : WindowFits(x[i + 2], kernel[i], pad[i], pad[i + 2],
                                              strides[i], dilation[i]),
                TensorType(<<x[1], channels>> \o
                           [i \in 1..2 |-> WindowOutputDim(x[i + 2], kernel[i], pad[i], pad[i + 2],
                                                           strides[i], dilation[i], FALSE)],
                           Attr(attrs, "out_dtype", in[1].t)))

Pool2DInferType(attrs, in) ==
    LET x == in[1].shape
        size     == ReadPair(Attr(attrs, "pool_size", <<>>), 1)
        strides  == ReadPair(Attr(attrs, "strides", <<>>), 1)
        dilation == ReadPair(Attr(attrs, "dilation", <<>>), 1)
        pad      == ReadPadding(Attr(attrs, "padding", <<>>))
    IN  Require(/\ Len(in) = 1 /\ Len(x) = 4
                /\ Attr(attrs, "layout", "") \in {"", "NCHW"}
                /\ \A i \in 1..2 : WindowFits(x[i + 2], size[i], pad[i], pad[i + 2],
                                              strides[i], dilation[i]),
                TensorType(<<x[1], x[2]>> \o
                           [i \in 1..2 |-> WindowOutputDim(x[i + 2], size[i], pad[i], pad[i + 2],
                                                           strides[i], dilation[i],
                                                           Attr(attrs, "ceil_mode", FALSE))],
                           in[1].t))

GlobalAvgPool2DInferType(in) ==
    Require(Len(in) = 1 /\ Len(in[1].shape) = 4,
            TensorType(<<in[1].shape[1], in[1].shape[2], 1, 1>>, in[1].t))

FlattenInferType(attrs, in) ==
    LET s    == in[1].shape
        axis == NormalizeAxis(Attr(attrs, "axis", 1), Len(s))
    IN  Require(/\ Len(in) = 1 /\ s # <<>>
                /\ AxisInRange(Attr(attrs, "axis", 1), Len(s), Len(s)),
                TensorType(<<KnownProduct(SubSeq(s, 1, axis)),
                             KnownProduct(SubSeq(s, axis + 1, Len(s)))>>, in[1].t))

(* newshape: a positive dimension is itself, 0 copies the input's (or is   *)
(* an empty dimension under allowzero), one -1 is what is left.            *)
ReshapeInferType(attrs, in) ==
    LET s == in[1].shape
        new == attrs.newshape
        zero == Attr(attrs, "allowzero", FALSE)
        out == [i \in DOMAIN new |->
                   IF new[i] = 0 /\ ~zero THEN s[i] ELSE new[i]]
        holes == {i \in DOMAIN new : new[i] = -1}
        rest  == [i \in DOMAIN new |-> IF i \in holes THEN 1 ELSE out[i]]
        total == KnownProduct(s)
        known == KnownProduct(rest)
        Sized == holes # {} /\ total >= 0 /\ known > 0
    IN  Require(/\ Len(in) \in {1, 2}
                /\ "newshape" \in DOMAIN attrs
                /\ \A i \in DOMAIN new : new[i] >= -1
                /\ \A i \in DOMAIN new : new[i] = 0 /\ ~zero => i <= Len(s)
                /\ \A i, j \in holes : i = j
                /\ Sized => total % known = 0
                /\ (holes = {} /\ total >= 0 /\ known >= 0) => total = known,
                TensorType([i \in DOMAIN new |->
                               IF i \in holes /\ Sized THEN total \div known ELSE out[i]],
                           in[1].t))

TransposeInferType(attrs, in) ==
    LET s    == in[1].shape
        perm == Attr(attrs, "perm", <<>>)
        axes == IF perm = <<>> THEN [i \in 1..Len(s) |-> Len(s) - i]
                ELSE NormalizeAxes(perm, Len(s))
    IN  Require(/\ Len(in) = 1 /\ Len(axes) = Len(s) /\ AxesValid(axes, Len(s)),
                TensorType([i \in DOMAIN axes |-> s[axes[i] + 1]], in[1].t))

ReduceMeanInferType(attrs, in) ==
    LET s    == in[1].shape
        axes == Attr(attrs, "axes", <<>>)
        red  == {i \in 1..Len(s) : i - 1 \in ToSet(NormalizeAxes(axes, Len(s)))}
        kept == IF Attr(attrs, "keepdims", 1) # 0 THEN 1..Len(s) ELSE (1..Len(s)) \ red
    IN  Require(Len(in) = 1 /\ AxesValid(axes, Len(s)),
                TensorType(FoldLeft(LAMBDA out, i : IF i \notin kept THEN out
                                                    ELSE Append(out, IF i \in red THEN 1 ELSE s[i]),
                                    <<>>, [i \in 1..Len(s) |-> i]),
                           in[1].t))

SoftmaxInferType(attrs, in) ==
    Require(/\ Len(in) = 1
            /\ in[1].shape # <<>> => AxisInRange(Attr(attrs, "axis", -1), Len(in[1].shape) - 1,
                                                 Len(in[1].shape)),
            in[1])

----------------------------------------------------------------------------
(* FInferType of the registered operators.  An argument that failed to     *)
(* type means inference has thrown already; every rule wants tensors.      *)
InferCall(op, attrs, in) ==
    IF \E i \in DOMAIN in : in[i].t \in {"error", "tuple"} THEN Throw
    ELSE CASE op \in {"add", "subtract", "mul", "divide"} -> BinaryBroadcastInferType(in)
           [] op \in {"sqrt", "nn_relu"}                  -> UnarySameInferType(in)
           [] op = "cast"                                 -> CastInferType(attrs, in)
           [] op = "matmul"                               -> MatMulInferType(in)
           [] op = "nn_dense"                             -> DenseInferType(attrs, in)
           [] op = "nn_gemm"                              -> GemmInferType(attrs, in)
           [] op = "nn_conv2d"                            -> Conv2DInferType(attrs, in)
           [] op \in {"nn_max_pool2d", "nn_avg_pool2d"}   -> Pool2DInferType(attrs, in)
           [] op = "nn_global_avg_pool2d"                 -> GlobalAvgPool2DInferType(in)
           [] op = "nn_flatten"                           -> FlattenInferType(attrs, in)
           [] op = "reshape"                              -> ReshapeInferType(attrs, in)
           [] op = "transpose"                            -> TransposeInferType(attrs, in)
           [] op = "reduce_mean"                          -> ReduceMeanInferType(attrs, in)
           [] op = "softmax"                              -> SoftmaxInferType(attrs, in)
           [] OTHER                                       -> Throw

(* Nodes: a variable (a parameter or bound by a let) and a constant carry  *)
(* their type, the operands of the others are positions.                   *)
Param(type) == [k |-> "Var", type |-> type]

Constant(type, data) == [k |-> "Constant", type |-> type, data |-> data]

CallNode(op, args, attrs) == [k |-> "Call", op |-> op, args |-> args, attrs |-> attrs]

Tuple(fields) == [k |-> "Tuple", fields |-> fields]

TupleGetItem(tuple, index) == [k |-> "TupleGetItem", tuple |-> tuple, index |-> index]

Let(var, value, body) == [k |-> "Let", var |-> var, value |-> value, body |-> body]

Operands(n) ==
    CASE n.k = "Call"         -> n.args
      [] n.k = "Tuple"        -> n.fields
      [] n.k = "TupleGetItem" -> <<n.tuple>>
      [] n.k = "Let"          -> <<n.var, n.value, n.body>>
      [] OTHER                -> <<>>

(* TypeInferencer::Visit on one node, its operands typed by types. *)
InferNode(n, types) ==
    CASE n.k \in {"Var", "Constant"} -> n.type
      [] n.k = "Call"  -> InferCall(n.op, n.attrs, [i \in DOMAIN n.args |-> types[n.args[i]]])
      [] n.k = "Tuple" ->
            LET fields == [i \in DOMAIN n.fields |-> types[n.fields[i]]]
            IN  IF Throw \in ToSet(fields) THEN Throw ELSE TupleType(fields)
      [] n.k = "TupleGetItem" ->
            LET tuple == types[n.tuple]
            IN  IF tuple.t = "tuple" /\ n.index \in 0..(Len(tuple.fields) - 1)
                THEN tuple.fields[n.index + 1] ELSE Throw
      [] n.k = "Let" -> Require(types[n.var] = types[n.value], types[n.body])

(* The checked_type_ the pass leaves on each node. *)
RECURSIVE InferType(_)
InferType(nodes) ==
    IF nodes = <<>> THEN <<>>
    ELSE LET types == InferType(Front(nodes))
         IN  Append(types, InferNode(Last(nodes), types))
=============================================================================
