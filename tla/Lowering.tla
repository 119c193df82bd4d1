------------------------------- MODULE Lowering -------------------------------
(***************************************************************************)
(* LowerToTIR (src/relay/backend/lower.cc): a typed Relay program becomes  *)
(* a graph of TE tensors, one operator at a time (src/relay/op/, with the  *)
(* helpers of include/te/topi/), and the graph one PrimFunc.               *)
(*                                                                         *)
(* A TE tensor has a name n = <<"b", node, k>> (the k-th tensor made for a *)
(* Relay node), a dtype, a shape of TIR expressions and, unless it is a    *)
(* placeholder, the axes, reduce axes and body of its ComputeOp.  Reading  *)
(* a tensor gives at once the Load that ExprLowerer turns a ProducerLoad   *)
(* into.  The conversion throws where a sequence of tensors is empty.      *)
(***************************************************************************)
EXTENDS TirPasses, RelayTypes

I(v) == IntImm(v, "i32")        \* PrimExpr(int32_t)

Imm64(v) == IntImm(v, "i64")

a ++ b == Binary("Add", a, b)
a -- b == Binary("Sub", a, b)
a ** b == Binary("Mul", a, b)
a // b == Binary("Div", a, b)
a %% b == Binary("Mod", a, b)
a && b == Binary("And", a, b)
Less(a, b) == Binary("LT", a, b)

make_const(t, v) == IF IsInt(t) THEN IntImm(v, t) ELSE FloatImm(v, t)

ShapeFromTensorType(type) == [i \in DOMAIN type.shape |-> Imm64(type.shape[i])]

FlattenIndex(is, shape) ==
    IF shape = <<>> THEN I(0)
    ELSE FoldLeft(LAMBDA linear, i : (linear ** shape[i]) ++ is[i], is[1],
                  [i \in 1..(Len(shape) - 1) |-> i + 1])

----------------------------------------------------------------------------
(* TE (src/te/te.cc). *)

placeholder(n, t, shape) == [n |-> n, t |-> t, shape |-> shape, kind |-> "placeholder"]

At(tensor, is) == Load(tensor, FlattenIndex(is, tensor.shape))

Axes(n, rank) == [i \in 1..rank |-> Var(<<"ax", n[2], n[3], i>>, "i32")]

reduce_axis(n, i, ext) == [var |-> Var(<<"r", n[2], n[3], i>>, "i32"), ext |-> ext]

Reduction(n, shape, red, type, Body(_)) ==
    LET axis == Axes(n, Len(shape))
        body == Body(axis)
    IN  [n |-> n, t |-> body.t, shape |-> shape, kind |-> type,
         axis |-> axis, red |-> red, body |-> body]

compute(n, shape, Body(_)) == Reduction(n, shape, <<>>, "compute", Body)

(* The name of the next tensor of the same node. *)
Next3(n) == <<n[1], n[2], n[3] + 1>>

----------------------------------------------------------------------------
(* include/te/topi/broadcast.h: a dimension is only known when it is an    *)
(* immediate.                                                              *)

IsOne(dim) == dim.k = "IntImm" /\ dim.v = 1

GetBroadcastIndices(axis, shape) ==
    [i \in DOMAIN shape |-> IF IsOne(shape[i]) THEN I(0) ELSE axis[i + Len(axis) - Len(shape)]]

InferBroadcastShape(s1, s2) ==
    LET rank == LargerRank(s1, s2)
        At1(s, i) == IF i + Len(s) > rank THEN s[i + Len(s) - rank] ELSE I(1)
    IN  [i \in 1..rank |->
            LET d1 == At1(s1, i)
                d2 == At1(s2, i)
            IN  CASE d1.k # "IntImm" \/ d2.k # "IntImm" -> d1
                  [] d1.v = 1     -> d2
                  [] d2.v = 1     -> d1
                  [] d1.v >= d2.v -> d1
                  [] OTHER        -> d2]

BinaryBroadcast(n, op, x, y) ==
    compute(n, InferBroadcastShape(x.shape, y.shape),
            LAMBDA ax : Binary(op, At(x, GetBroadcastIndices(ax, x.shape)),
                                   At(y, GetBroadcastIndices(ax, y.shape))))

Elemwise(n, x, F(_)) == compute(n, x.shape, LAMBDA ax : F(At(x, ax)))

----------------------------------------------------------------------------
(* include/te/topi/nn.h and the operators of src/relay/op/nn/.  Each gives *)
(* the tensors it makes, its result last.                                  *)

dense(n, x, y) ==
    LET k == reduce_axis(n, 1, x.shape[2])
    IN  Reduction(n, <<x.shape[1], y.shape[1]>>, <<k>>, "sum",
                  LAMBDA ax : At(x, <<ax[1], k.var>>) ** At(y, <<ax[2], k.var>>))

matmul(n, x, y) ==
    LET k == reduce_axis(n, 1, x.shape[2])
    IN  Reduction(n, <<x.shape[1], y.shape[2]>>, <<k>>, "sum",
                  LAMBDA ax : At(x, <<ax[1], k.var>>) ** At(y, <<k.var, ax[2]>>))

ScaleTensor(n, x, scale) == Elemwise(n, x, LAMBDA e : e ** make_const(x.t, scale))

(* A scale of 1 makes no tensor. *)
GemmCompute(n, attrs, in) ==
    LET alpha == Attr(attrs, "alpha", 1)
        beta  == Attr(attrs, "beta", 1)
        prod  == IF Attr(attrs, "transB", 0) = 1 THEN dense(n, in[1], in[2])
                 ELSE matmul(n, in[1], in[2])
        out   == IF alpha = 1 THEN <<prod>>
                 ELSE <<prod, ScaleTensor(Next3(n), prod, alpha)>>
        m     == Next3(Last(out).n)
        bias  == IF beta = 1 THEN <<>> ELSE <<ScaleTensor(m, in[3], beta)>>
        addend == IF beta = 1 THEN in[3] ELSE bias[1]
        sum   == BinaryBroadcast(IF beta = 1 THEN m ELSE Next3(m), "Add", Last(out), addend)
    IN  IF Attr(attrs, "transA", 0) # 0 THEN <<>> ELSE out \o bias \o <<sum>>

(* A window reads its padding as the value pad. *)
Window(x, ax, h, w, pad) ==
    Select(((Not(Less(h, I(0))) && Less(h, x.shape[3])) && Not(Less(w, I(0)))) && Less(w, x.shape[4]),
           At(x, <<ax[1], ax[2], h, w>>), make_const(x.t, pad))

Read2DValue(v, i, default) == IF i \in DOMAIN v THEN v[i] ELSE default

(* Padding is symmetric: the first two values serve both sides. *)
conv2d_nchw(n, attrs, x, w) ==
    LET Read(field, i, default) == Read2DValue(Attr(attrs, field, <<>>), i, default)
        S(i) == I(Read("strides", i, 1))
        P(i) == I(Read("padding", i, 0))
        D(i) == I(Read("dilation", i, 1))
        rc == reduce_axis(n, 1, x.shape[2])
        rk == [i \in 1..2 |-> reduce_axis(n, i + 1, w.shape[i + 2])]
        Dilated(i) == ((w.shape[i + 2] -- I(1)) ** D(i)) ++ I(1)
        Out(i) == (((x.shape[i + 2] ++ I(2 * P(i).v)) -- Dilated(i)) // S(i)) ++ I(1)
        In(ax, i) == ((ax[i + 2] ** S(i)) ++ (rk[i].var ** D(i))) -- P(i)
    IN  Reduction(n, <<x.shape[1], w.shape[1], Out(1), Out(2)>>, <<rc>> \o rk, "sum",
                  LAMBDA ax : Window(x, <<ax[1], rc.var>>, In(ax, 1), In(ax, 2), 0)
                              ** At(w, <<ax[2], rc.var, rk[1].var, rk[2].var>>))

Conv2DCompute(n, attrs, in) ==
    LET conv == conv2d_nchw(n, attrs, in[1], in[2])
    IN  IF Len(in) = 2 THEN <<conv>>
        ELSE <<conv, compute(Next3(n), conv.shape, LAMBDA ax : At(conv, ax) ++ At(in[3], <<ax[2]>>))>>

(* Lowest stands for -1e30, the padding of a maximum. *)
Lowest == -100000

Read2DPair(v) == IF Len(v) >= 2 THEN <<v[1], v[2]>> ELSE <<1, 1>>

PoolPadding(v) ==
    CASE Len(v) >= 4 -> v
      [] Len(v) >= 2 -> <<v[1], v[2], v[1], v[2]>>
      [] OTHER       -> <<0, 0, 0, 0>>

Pool2DCompute(n, attrs, x, type) ==
    LET size == Read2DPair(Attr(attrs, "pool_size", <<>>))
        step == Read2DPair(Attr(attrs, "strides", <<>>))
        pad  == PoolPadding(Attr(attrs, "padding", <<>>))
        rk   == [i \in 1..2 |-> reduce_axis(n, i, I(size[i]))]
        Numer(i) == ((x.shape[i + 2] ++ I(pad[i])) ++ I(pad[i + 2])) -- I(size[i])
        Out(i) == (IF Attr(attrs, "ceil_mode", FALSE)
                   THEN ((Numer(i) ++ I(step[i])) -- I(1)) // I(step[i])
                   ELSE Numer(i) // I(step[i])) ++ I(1)
        In(ax, i) == ((ax[i + 2] ** I(step[i])) ++ rk[i].var) -- I(pad[i])
        Pooled(combine, value) ==
            Reduction(n, <<x.shape[1], x.shape[2], Out(1), Out(2)>>, rk, combine,
                      LAMBDA ax : Window(x, ax, In(ax, 1), In(ax, 2), value))
        sum  == Pooled("sum", 0)
        count == make_const(sum.t, size[1] * size[2])
    IN  IF type = "max" THEN <<Pooled("max", Lowest)>>
        ELSE <<sum, Elemwise(Next3(n), sum, LAMBDA e : e // count)>>

GlobalAvgPool2DCompute(n, x) ==
    LET rk  == [i \in 1..2 |-> reduce_axis(n, i, x.shape[i + 2])]
        sum == Reduction(n, <<x.shape[1], x.shape[2], I(1), I(1)>>, rk, "sum",
                         LAMBDA ax : At(x, <<ax[1], ax[2], rk[1].var, rk[2].var>>))
    IN  <<sum, Elemwise(Next3(n), sum, LAMBDA e : e // (x.shape[3] ** x.shape[4]))>>

----------------------------------------------------------------------------
(* src/relay/op/tensor/. *)

UnflattenIndex(flat, dims) ==
    LET Cur(i) == FoldLeft(LAMBDA cur, j : cur // dims[Len(dims) + 1 - j], flat,
                           [j \in 1..(Len(dims) - i) |-> j])
    IN  [i \in DOMAIN dims |-> Cur(i) %% dims[i]]

FlattenCompute(n, attrs, x) ==
    LET axis  == NormalizeAxis(Attr(attrs, "axis", 1), Len(x.shape))
        outer == SubSeq(x.shape, 1, axis)
        inner == SubSeq(x.shape, axis + 1, Len(x.shape))
        Size(dims) == FoldLeft(LAMBDA size, d : size ** d, I(1), dims)
    IN  compute(n, <<Size(outer), Size(inner)>>,
                LAMBDA ax : At(x, UnflattenIndex(ax[1], outer) \o UnflattenIndex(ax[2], inner)))

(* LinearIndex is FlattenIndex with an int64 zero for a scalar. *)
ReshapeCompute(n, x, type) ==
    LET out == ShapeFromTensorType(type)
    IN  compute(n, out,
                LAMBDA ax : At(x, UnflattenIndex(IF out = <<>> THEN Imm64(0) ELSE FlattenIndex(ax, out),
                                                 x.shape)))

TransposeCompute(n, attrs, x) ==
    LET rank == Len(x.shape)
        perm == Attr(attrs, "perm", <<>>)
        axes == IF perm = <<>> THEN [i \in 1..rank |-> rank - i] ELSE NormalizeAxes(perm, rank)
    IN  compute(n, [i \in 1..rank |-> x.shape[axes[i] + 1]],
                LAMBDA ax : At(x, [j \in 1..rank |-> ax[CHOOSE i \in 1..rank : axes[i] = j - 1]]))

(* comm_reduce takes the next output axis for each dimension it keeps,     *)
(* and, with keepdims, the output has an axis for the others as well.      *)
comm_reduce(n, x, axes, keepdims) ==
    LET rank == Len(x.shape)
        gone == {i \in 1..rank : i - 1 \in ToSet(axes)}
        Before(S, i) == Cardinality({j \in S : j < i})
        kept == SelectSeq([i \in 1..rank |-> i], LAMBDA i : keepdims \/ i \notin gone)
        red  == [j \in 1..Cardinality(gone) |->
                    reduce_axis(n, j, x.shape[CHOOSE i \in gone : Before(gone, i) = j - 1])]
    IN  Reduction(n, [j \in DOMAIN kept |-> IF kept[j] \in gone THEN I(1) ELSE x.shape[kept[j]]],
                  red, "sum",
                  LAMBDA ax : At(x, [i \in 1..rank |->
                                        IF i \in gone THEN red[Before(gone, i) + 1].var
                                        ELSE ax[Before((1..rank) \ gone, i) + 1]]))

ReduceMeanCompute(n, attrs, x) ==
    LET axes == NormalizeAxes(Attr(attrs, "axes", <<>>), Len(x.shape))
        dims == [i \in DOMAIN axes |-> x.shape[axes[i] + 1]]
        sum  == comm_reduce(n, x, axes, Attr(attrs, "keepdims", 1) # 0)
        count == make_const(sum.t, Product([i \in DOMAIN dims |-> dims[i].v]))
    IN  IF \E i \in DOMAIN dims : dims[i].k # "IntImm" THEN <<>>
        ELSE <<sum, Elemwise(Next3(n), sum, LAMBDA e : e // count)>>

BinaryOp == [add |-> "Add", subtract |-> "Sub", mul |-> "Mul", divide |-> "Div"]

(* What a lowering demands beyond the type rule. *)
Lowerable(op, attrs, in, type) ==
    /\ op \in {"nn_gemm", "nn_conv2d", "nn_max_pool2d", "nn_avg_pool2d", "cast"} => DOMAIN attrs # {}
    /\ op = "reshape" => Len(in) = 1 /\ \A i \in DOMAIN type.shape : IsKnown(type.shape[i])

(* FRelayToTE of the operators; type is the checked type of the call. *)
InvokeRelayToTE(n, op, attrs, in, type) ==
    CASE ~Lowerable(op, attrs, in, type) -> <<>>
      [] op \in DOMAIN BinaryOp      -> <<BinaryBroadcast(n, BinaryOp[op], in[1], in[2])>>
      [] op = "sqrt"                 -> <<Elemwise(n, in[1], LAMBDA e : Call(e.t, "sqrt", e))>>
      [] op = "nn_relu"              -> <<Elemwise(n, in[1], LAMBDA e : Binary("Max", e, make_const(in[1].t, 0)))>>
      [] op = "cast"                 -> <<Elemwise(n, in[1], LAMBDA e : Call(attrs.to, "cast", e))>>
      [] op = "matmul"               -> <<matmul(n, in[1], in[2])>>
      [] op = "nn_dense"             -> <<dense(n, in[1], in[2])>>
      [] op = "nn_gemm"              -> GemmCompute(n, attrs, in)
      [] op = "nn_conv2d"            -> Conv2DCompute(n, attrs, in)
      [] op = "nn_max_pool2d"        -> Pool2DCompute(n, attrs, in[1], "max")
      [] op = "nn_avg_pool2d"        -> Pool2DCompute(n, attrs, in[1], "avg")
      [] op = "nn_global_avg_pool2d" -> GlobalAvgPool2DCompute(n, in[1])
      [] op = "nn_flatten"           -> <<FlattenCompute(n, attrs, in[1])>>
      [] op = "reshape"              -> <<ReshapeCompute(n, in[1], type)>>
      [] op = "transpose"            -> <<TransposeCompute(n, attrs, in[1])>>
      [] op = "reduce_mean"          -> ReduceMeanCompute(n, attrs, in[1])
      [] OTHER                       -> <<>>

----------------------------------------------------------------------------
(* RelayToTEConverter: st.memo holds the tensors of each visited node,     *)
(* st.made every tensor by name and st.consts the constants in the order   *)
(* they were met.  A program has its parameters first in nodes; body is    *)
(* the position of the function's body.                                    *)

ByName(tensors) == [n \in {x.n : x \in ToSet(tensors)} |-> CHOOSE x \in ToSet(tensors) : x.n = n]

NodeTensors(node, p, type, in) ==
    LET arg == FlattenSeq(in)
    IN  CASE node.k \in {"Var", "Constant"} ->
                <<placeholder(<<"b", p, 0>>, type.t, ShapeFromTensorType(type))>>
          [] node.k = "Call" -> InvokeRelayToTE(<<"b", p, 0>>, node.op, node.attrs, arg, type)
          [] OTHER -> <<>>

(* What the node is to its users; nested tuples throw, as does a           *)
(* projection past the end.                                                *)
NodeResult(node, made, in) ==
    CASE node.k = "Tuple" ->
            IF \A i \in DOMAIN in : Len(in[i]) = 1 THEN FlattenSeq(in) ELSE <<>>
      [] node.k = "TupleGetItem" ->
            IF node.index \in 0..(Len(in[1]) - 1) THEN <<in[1][node.index + 1]>> ELSE <<>>
      [] OTHER -> IF made = <<>> THEN <<>> ELSE <<Last(made)>>

Memoize(st, node, p, in, made) ==
    [memo   |-> p :> NodeResult(node, made, in) @@ st.memo,
     made   |-> ByName(made) @@ st.made,
     consts |-> IF node.k = "Constant" THEN Append(st.consts, p) ELSE st.consts]

(* A throw below the node is its own. *)
ConvertNode(st, node, p, type, in) ==
    IF \E i \in DOMAIN in : in[i] = <<>> THEN [st EXCEPT !.memo = p :> <<>> @@ @]
    ELSE Memoize(st, node, p, in, NodeTensors(node, p, type, in))

ArgTensors(st, node) == [i \in DOMAIN Operands(node) |-> st.memo[Operands(node)[i]]]

ConvertAfter(st, node, p, type) == ConvertNode(st, node, p, type, ArgTensors(st, node))

RECURSIVE VisitNode(_, _, _, _)
VisitNode(nodes, types, st, p) ==
    IF p \in DOMAIN st.memo THEN st
    ELSE ConvertAfter(FoldLeft(LAMBDA s, q : VisitNode(nodes, types, s, q), st, Operands(nodes[p])),
                      nodes[p], p, types[p])

Convert(prog, types) ==
    VisitNode(prog.nodes, types, [memo |-> <<>>, made |-> <<>>, consts |-> <<>>], prog.body)

----------------------------------------------------------------------------
(* FindProducerLoads: the buffers an expression reads, in order. *)
RECURSIVE FindProducerLoads(_)
FindProducerLoads(e) ==
    CASE e.k = "Load"           -> <<e.buf>> \o FindProducerLoads(e.i)
      [] e.k = "Binary"         -> FindProducerLoads(e.a) \o FindProducerLoads(e.b)
      [] e.k \in {"Not", "Call"} -> FindProducerLoads(e.a)
      [] e.k = "Select"         -> FindProducerLoads(e.c) \o FindProducerLoads(e.a)
                                   \o FindProducerLoads(e.b)
      [] OTHER                  -> <<>>

(* The compute tensors a tensor needs and itself, in topological order. *)
RECURSIVE CollectOpsDFS(_, _, _)
CollectOpsDFS(made, topo, n) ==
    IF n \in ToSet(topo) \/ made[n].kind = "placeholder" THEN topo
    ELSE Append(FoldLeft(LAMBDA t, d : CollectOpsDFS(made, t, d), topo,
                         FindProducerLoads(made[n].body)), n)

MakeIdentityForReduce(type, t) ==
    CASE type = "sum"  -> make_const(t, 0)
      [] t = "f32"     -> FloatImm(NegInf, t)
      [] OTHER         -> IntImm(MinOf("i64"), t)

Nest(vars, exts, body) ==
    FoldRight(LAMBDA i, b : For(vars[i], I(0), exts[i], "Serial", b),
              [i \in DOMAIN vars |-> i], body)

LowerComputeStmt(x) ==
    LET at     == FlattenIndex(x.axis, x.shape)
        update == Binary(IF x.kind = "sum" THEN "Add" ELSE "Max", Load(x, at), x.body)
        reduce == Nest([i \in DOMAIN x.red |-> x.red[i].var],
                       [i \in DOMAIN x.red |-> x.red[i].ext], Store(x, update, at))
    IN  Nest(x.axis, x.shape,
             IF x.kind = "compute" THEN Store(x, x.body, at)
             ELSE SeqStmt(<<Store(x, MakeIdentityForReduce(x.kind, x.t), at), reduce>>))

NoFunc == PrimFunc(<<>>, Undef)

(* Every tensor that has a ComputeOp and is reachable from out. *)
TopoOrder(st, out) == FoldLeft(LAMBDA t, x : CollectOpsDFS(st.made, t, x.n), <<>>, out)

(* The statements in order, inside the allocations of the tensors that are *)
(* no outputs.                                                             *)
FuncBody(made, out, topo) ==
    FoldRight(LAMBDA n, b : Allocate(made[n], made[n].shape, b),
              SelectSeq(topo, LAMBDA n : \A i \in DOMAIN out : out[i].n # n),
              IF Len(topo) = 1 THEN LowerComputeStmt(made[topo[1]])
              ELSE SeqStmt([i \in DOMAIN topo |-> LowerComputeStmt(made[topo[i]])]))

Buffer(x) == [n |-> x.n, t |-> x.t, shape |-> x.shape]

GivenBuffers(types, ps) ==
    [i \in DOMAIN ps |-> Buffer(placeholder(<<"b", ps[i], 0>>, types[ps[i]].t,
                                            ShapeFromTensorType(types[ps[i]])))]

(* The PrimFunc of a program: its parameters are the inputs, the constants *)
(* and the outputs, which must be distinct and computed.                   *)
MakePrimFunc(params, types, st, out) ==
    IF \/ out = <<>>
       \/ \E i, j \in DOMAIN out : i # j /\ out[i].n = out[j].n
       \/ \E i \in DOMAIN out : out[i].kind = "placeholder"
    THEN NoFunc
    ELSE PrimFunc(GivenBuffers(types, params \o st.consts) \o [i \in DOMAIN out |-> Buffer(out[i])],
                  FuncBody(st.made, out, TopoOrder(st, out)))

LowerConverted(prog, types, st) == MakePrimFunc(prog.params, types, st, st.memo[prog.body])

LowerTyped(prog, types) ==
    IF types[prog.body] = Throw THEN NoFunc
    ELSE LowerConverted(prog, types, Convert(prog, types))

LowerToTIR(prog) == LowerTyped(prog, InferType(prog.nodes))
===============================================================================
