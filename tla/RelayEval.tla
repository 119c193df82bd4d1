------------------------------ MODULE RelayEval ------------------------------
(***************************************************************************)
(* What a Relay program means: the reference the compiled kernel is        *)
(* compared with.  The operators are given by their descriptions           *)
(* (.describe(...) in src/relay/op/), point by point on whole tensors,     *)
(* independently of how they are lowered.                                  *)
(*                                                                         *)
(* A tensor is [shape, at]: at maps an index, a sequence of numbers from   *)
(* 0, to a scalar of Tir.  The value of a tuple is the sequence of its     *)
(* fields.                                                                 *)
(***************************************************************************)
EXTENDS Tir, RelayTypes

Indices(shape) ==
    LET bound == FoldLeft(LAMBDA m, d : IF d > m THEN d ELSE m, 1, shape)
    IN  {ix \in [1..Len(shape) -> 0..(bound - 1)] : \A i \in DOMAIN shape : ix[i] < shape[i]}

(* The row-major position of an index. *)
Position(shape, ix) == FoldLeft(LAMBDA n, i : n * shape[i] + ix[i], 0, [i \in DOMAIN shape |-> i])

(* Built point by point, so that its values are computed once. *)
Tensor(shape, F(_)) ==
    [shape |-> shape, at |-> FoldSet(LAMBDA ix, at : (ix :> F(ix)) @@ at, <<>>, Indices(shape))]

Cells(x) ==
    LET where == [ix \in DOMAIN x.at |-> Position(x.shape, ix)]
    IN  [n \in 1..Product(x.shape) |-> x.at[CHOOSE ix \in DOMAIN x.at : where[ix] = n - 1]]

FromCells(shape, cells) == Tensor(shape, LAMBDA ix : cells[Position(shape, ix) + 1])

Sum(t, S, F(_)) == FoldSet(LAMBDA i, acc : GenBinaryOp("Add", acc, F(i)), [t |-> t, v |-> 0], S)

Times(x, y) == GenBinaryOp("Mul", x, y)

(* An index of the result read by an operand that is broadcast to it. *)
Aligned(ix, shape) ==
    [i \in DOMAIN shape |-> IF shape[i] = 1 THEN 0 ELSE ix[i + Len(ix) - Len(shape)]]

Broadcasted(type, op, x, y) ==
    Tensor(type.shape, LAMBDA ix : GenBinaryOp(op, x.at[Aligned(ix, x.shape)],
                                                   y.at[Aligned(ix, y.shape)]))

Mean(t, S, F(_)) == GenBinaryOp("Div", Sum(t, S, F), [t |-> t, v |-> Cardinality(S)])

----------------------------------------------------------------------------
(* The windows of a convolution or a pooling: the input index under        *)
(* element k of the window of output index ix, and whether it is inside.   *)

Windows(attrs) ==
    [stride   |-> ReadPair(Attr(attrs, "strides", <<>>), 1),
     dilation |-> ReadPair(Attr(attrs, "dilation", <<>>), 1),
     pad      |-> ReadPadding(Attr(attrs, "padding", <<>>))]

Under(w, ix, k) == [i \in 1..2 |-> ix[i + 2] * w.stride[i] + k[i] * w.dilation[i] - w.pad[i]]

Inside(x, h) == \A i \in 1..2 : h[i] \in 0..(x.shape[i + 2] - 1)

Conv2D(type, attrs, in) ==
    LET x == in[1]
        w == in[2]
        win == Windows(attrs)
        Taps(ix) == {<<c, h, v>> \in (0..(w.shape[2] - 1)) \X (0..(w.shape[3] - 1))
                                     \X (0..(w.shape[4] - 1)) : Inside(x, Under(win, ix, <<h, v>>))}
        At(ix, tap) == LET u == Under(win, ix, <<tap[2], tap[3]>>)
                       IN  Times(x.at[<<ix[1], tap[1], u[1], u[2]>>],
                                 w.at[<<ix[2], tap[1], tap[2], tap[3]>>])
        Bias(ix) == IF Len(in) = 3 THEN in[3].at[<<ix[2]>>] ELSE [t |-> type.t, v |-> 0]
    IN  Tensor(type.shape, LAMBDA ix : GenBinaryOp("Add", Sum(type.t, Taps(ix), LAMBDA tap : At(ix, tap)),
                                                   Bias(ix)))

Largest(t, S, F(_)) == FoldSet(LAMBDA i, acc : GenBinaryOp("Max", acc, F(i)), [t |-> t, v |-> NegInf], S)

Pool2D(type, attrs, x, max) ==
    LET win  == Windows(attrs)
        size == ReadPair(Attr(attrs, "pool_size", <<>>), 1)
        Taps(ix) == {k \in (0..(size[1] - 1)) \X (0..(size[2] - 1)) : Inside(x, Under(win, ix, k))}
        At(ix, k) == x.at[<<ix[1], ix[2]>> \o Under(win, ix, k)]
    IN  Tensor(type.shape, LAMBDA ix : IF max THEN Largest(type.t, Taps(ix), LAMBDA k : At(ix, k))
                                   ELSE Mean(type.t, Taps(ix), LAMBDA k : At(ix, k)))

----------------------------------------------------------------------------
Gemm(type, attrs, in) ==
    LET t == type.t
        a == in[1]
        b == in[2]
        A(i, k) == IF Attr(attrs, "transA", 0) # 0 THEN a.at[<<k, i>>] ELSE a.at[<<i, k>>]
        B(k, j) == IF Attr(attrs, "transB", 0) # 0 THEN b.at[<<j, k>>] ELSE b.at[<<k, j>>]
        inner == a.shape[IF Attr(attrs, "transA", 0) # 0 THEN 1 ELSE 2]
        Scaled(field, x) == Times([t |-> t, v |-> Attr(attrs, field, 1)], x)
        Prod(i, j) == Sum(t, 0..(inner - 1), LAMBDA k : Times(A(i, k), B(k, j)))
    IN  Tensor(type.shape, LAMBDA ix :
            GenBinaryOp("Add", Scaled("alpha", Prod(ix[1], ix[2])),
                        IF Len(in) = 3 THEN Scaled("beta", in[3].at[Aligned(ix, in[3].shape)])
                        ELSE [t |-> t, v |-> 0]))

(* The elements that agree with ix outside the reduced axes are averaged. *)
ReduceMean(type, attrs, x) ==
    LET axes == NormalizeAxes(Attr(attrs, "axes", <<>>), Len(x.shape))
        kept == SelectSeq([i \in DOMAIN x.shape |-> i],
                          LAMBDA i : Attr(attrs, "keepdims", 1) # 0 \/ i - 1 \notin ToSet(axes))
        Over(ix) == {jx \in DOMAIN x.at :
                        \A i \in DOMAIN kept : kept[i] - 1 \in ToSet(axes) \/ jx[kept[i]] = ix[i]}
    IN  Tensor(type.shape, LAMBDA ix : Mean(type.t, Over(ix), LAMBDA jx : x.at[jx]))

Transpose(type, attrs, x) ==
    LET rank == Len(x.shape)
        perm == Attr(attrs, "perm", <<>>)
        axes == IF perm = <<>> THEN [i \in 1..rank |-> rank - i] ELSE NormalizeAxes(perm, rank)
    IN  Tensor(type.shape, LAMBDA ix :
            x.at[[j \in 1..rank |-> ix[CHOOSE i \in 1..rank : axes[i] = j - 1]]])

Each(x, F(_)) == Tensor(x.shape, LAMBDA ix : F(x.at[ix]))

EvalCall(op, attrs, in, type) ==
    LET t == type.t
    IN  CASE op = "add"      -> Broadcasted(type, "Add", in[1], in[2])
          [] op = "subtract" -> Broadcasted(type, "Sub", in[1], in[2])
          [] op = "mul"      -> Broadcasted(type, "Mul", in[1], in[2])
          [] op = "divide"   -> Broadcasted(type, "Div", in[1], in[2])
          [] op = "sqrt"     -> Each(in[1], LAMBDA e : GenCall(Call(t, "sqrt", e), e))
          [] op = "nn_relu"  -> Each(in[1], LAMBDA e : GenBinaryOp("Max", e, [t |-> t, v |-> 0]))
          [] op = "cast"     -> Each(in[1], LAMBDA e : CastValue(e, t))
          [] op \in {"matmul", "nn_gemm"} -> Gemm(type, attrs, in)
          [] op = "nn_dense" -> Gemm(type, [transB |-> 1], in)
          [] op = "nn_conv2d"     -> Conv2D(type, attrs, in)
          [] op = "nn_max_pool2d" -> Pool2D(type, attrs, in[1], TRUE)
          [] op = "nn_avg_pool2d" -> Pool2D(type, attrs, in[1], FALSE)
          [] op = "nn_global_avg_pool2d" -> ReduceMean(type, [axes |-> <<2, 3>>], in[1])
          [] op \in {"nn_flatten", "reshape"} -> FromCells(type.shape, Cells(in[1]))
          [] op = "transpose"   -> Transpose(type, attrs, in[1])
          [] op = "reduce_mean" -> ReduceMean(type, attrs, in[1])

(* env gives the variables their values. *)
RECURSIVE Eval(_, _, _, _)
Eval(nodes, types, env, p) ==
    LET n == nodes[p]
        V(q) == Eval(nodes, types, env, q)
    IN  CASE n.k = "Var"          -> env[p]
          [] n.k = "Constant"     -> FromCells(n.type.shape, n.data)
          [] n.k = "Call"         -> EvalCall(n.op, n.attrs, [i \in DOMAIN n.args |-> V(n.args[i])], types[p])
          [] n.k = "Tuple"        -> [i \in DOMAIN n.fields |-> V(n.fields[i])]
          [] n.k = "TupleGetItem" -> V(n.tuple)[n.index + 1]
          [] n.k = "Let"          -> Eval(nodes, types, n.var :> V(n.value) @@ env, n.body)
==============================================================================
