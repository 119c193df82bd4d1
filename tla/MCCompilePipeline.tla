------------------------ MODULE MCCompilePipeline ------------------------
(* The functions compiled by the runs of CompilePipeline. *)
EXTENDS CompilePipeline

F(shape) == Param(TensorType(shape, "f32"))
Ints(shape) == Param(TensorType(shape, "i32"))

Values(t, s) == [i \in DOMAIN s |-> [t |-> t, v |-> s[i]]]
Floats(s) == Values("f32", s)

FloatConst(shape, s) == Constant(TensorType(shape, "f32"), Floats(s))

Op(op, args) == CallNode(op, args, <<>>)

(* n parameters first, the body last. *)
Prog(n, nodes, data) ==
    [params |-> [i \in 1..n |-> i], nodes |-> nodes, body |-> Len(nodes), data |-> data]

UpTo(n) == Floats([i \in 1..n |-> i])

Broadcast == Prog(2, <<F(<<2, 3>>), F(<<3>>), Op("add", <<1, 2>>)>>, <<UpTo(6), UpTo(3)>>)

(* relu((x + (3 - 3)) * (4 / 4)): folding leads to simplification. *)
Folding ==
    Prog(1, <<F(<<5>>), FloatConst(<<>>, <<3>>), FloatConst(<<>>, <<4>>),
              Op("subtract", <<2, 2>>), Op("add", <<1, 4>>), Op("divide", <<3, 3>>),
              Op("mul", <<5, 6>>), Op("nn_relu", <<7>>)>>,
         <<Floats(<<-2, -1, 0, 1, 2>>)>>)

(* A shared product that folding rebuilds for each of its users. *)
Shared ==
    Prog(1, <<F(<<9>>), FloatConst(<<>>, <<1>>), Op("add", <<2, 2>>), Op("mul", <<1, 3>>),
              Op("nn_relu", <<4>>), Op("subtract", <<4, 5>>)>>,
         <<Floats([i \in 1..9 |-> i - 5])>>)

Constants ==
    Prog(1, <<F(<<2, 2>>), FloatConst(<<2>>, <<5, 7>>), FloatConst(<<2, 1>>, <<2, 3>>),
              Op("mul", <<1, 3>>), Op("add", <<4, 2>>)>>, <<UpTo(4)>>)

MatMul == Prog(2, <<F(<<2, 3>>), F(<<3, 2>>), Op("matmul", <<1, 2>>), Op("nn_relu", <<3>>)>>,
               <<Floats(<<1, -2, 3, -4, 5, -6>>), UpTo(6)>>)

Dense == Prog(2, <<F(<<2, 5>>), F(<<2, 5>>), Op("nn_dense", <<1, 2>>)>>, <<UpTo(10), UpTo(10)>>)

GemmScaled ==
    Prog(3, <<F(<<2, 2>>), F(<<3, 2>>), F(<<3>>),
              CallNode("nn_gemm", <<1, 2, 3>>, [transB |-> 1, alpha |-> 2, beta |-> 3])>>,
         <<UpTo(4), UpTo(6), UpTo(3)>>)

Conv ==
    Prog(3, <<F(<<1, 2, 3, 3>>), F(<<2, 2, 2, 2>>), F(<<2>>),
              CallNode("nn_conv2d", <<1, 2, 3>>, [strides |-> <<2, 2>>, padding |-> <<1, 1>>])>>,
         <<UpTo(18), UpTo(16), Floats(<<100, 200>>)>>)

MaxPool ==
    Prog(1, <<F(<<1, 1, 3, 4>>),
              CallNode("nn_max_pool2d", <<1>>, [pool_size |-> <<2, 2>>, strides |-> <<2, 1>>,
                                                padding |-> <<1, 0>>])>>,
         <<Floats(<<-5, 7, -3, 2, 9, -8, 6, -1, 4, 3, -7, 5>>)>>)

AvgPool ==
    Prog(1, <<F(<<1, 2, 2, 4>>),
              CallNode("nn_avg_pool2d", <<1>>, [pool_size |-> <<2, 2>>, strides |-> <<2, 2>>]),
              Op("nn_global_avg_pool2d", <<2>>)>>,
         <<Floats(<<1, 3, 5, 7, 5, 7, 9, 11, 2, 2, 4, 4, 6, 6, 8, 8>>)>>)

(* A symbolic output shape, which fold_constant narrows. *)
Flatten ==
    Prog(1, <<F(<<2, 2, 3>>), CallNode("nn_flatten", <<1>>, <<>>)>>, <<UpTo(12)>>)

Reshapes ==
    Prog(1, <<F(<<2, 3>>), CallNode("reshape", <<1>>, [newshape |-> <<6>>]),
              CallNode("reshape", <<2>>, [newshape |-> <<3, -1>>]),
              CallNode("transpose", <<3>>, [perm |-> <<1, 0>>])>>, <<UpTo(6)>>)

MeanRows ==
    Prog(1, <<F(<<2, 3>>), CallNode("reduce_mean", <<1>>, [axes |-> <<1>>, keepdims |-> 0]),
              CallNode("reduce_mean", <<2>>, [axes |-> <<0>>, keepdims |-> 0])>>,
         <<Floats(<<1, 2, 3, 4, 6, 8>>)>>)

Casts ==
    Prog(1, <<F(<<3>>), CallNode("cast", <<1>>, [to |-> "i32"]), CallNode("cast", <<2>>, [to |-> "i32"]),
              CallNode("cast", <<3>>, [to |-> "f32"]), Op("mul", <<4, 4>>), Op("sqrt", <<5>>)>>,
         <<Floats(<<-2, 0, 3>>)>>)

(* Sums that wrap around. *)
Wraps == Prog(2, <<Ints(<<4>>), Ints(<<4>>), Op("add", <<1, 2>>), Op("nn_relu", <<3>>)>>,
              <<Values("i32", <<15, -16, 7, 8>>), Values("i32", <<1, -1, 8, 8>>)>>)

(* Two outputs, one of them projected from a tuple. *)
Tuples ==
    Prog(2, <<F(<<2>>), F(<<2>>), Op("mul", <<1, 2>>), Op("nn_relu", <<1>>), Tuple(<<3, 4>>),
              TupleGetItem(5, 1), Op("add", <<6, 3>>), Tuple(<<4, 7>>)>>,
         <<Floats(<<-3, 4>>), Floats(<<5, 6>>)>>)

(* let a = x * y in let b = x * y in let c = y + y in a + b. *)
Lets ==
    Prog(2, <<F(<<3>>), F(<<3>>), F(<<3>>), F(<<3>>), F(<<3>>),
              Op("mul", <<1, 2>>), Op("mul", <<1, 2>>), Op("add", <<2, 2>>), Op("add", <<3, 4>>),
              Let(5, 8, 9), Let(4, 7, 10), Let(3, 6, 11)>>,
         <<UpTo(3), UpTo(3)>>)

(* Rejected by type inference. *)
IllTyped == Prog(2, <<F(<<2, 3>>), F(<<2>>), Op("mul", <<1, 2>>)>>, <<UpTo(6), UpTo(2)>>)

(* The mean over the first axis, which keeps its place. *)
MeanKept ==
    Prog(1, <<F(<<2, 3>>), CallNode("reduce_mean", <<1>>, [axes |-> <<0>>])>>,
         <<Floats(<<1, 2, 3, 3, 6, 9>>)>>)

MCPrograms == {Broadcast, Folding, Shared, Constants, MatMul, Dense, GemmScaled, Conv, MaxPool, AvgPool,
               Flatten, Reshapes, MeanRows, Casts, Wraps, Tuples, Lets, IllTyped}

MCMeanKept == {MeanKept}

----------------------------------------------------------------------------
(* The ONNX graphs. *)

Init0(name, shape, s) == [name |-> name, shape |-> shape, t |-> "f32", cells |-> Floats(s)]

Info(name, shape) == [name |-> name, shape |-> shape, t |-> "f32"]

Node(op_type, input, output, attrs) ==
    [op_type |-> op_type, input |-> input, output |-> <<output>>, attrs |-> attrs]

Graph(initializer, input, node, output, feed) ==
    [initializer |-> initializer, input |-> input, node |-> node, output |-> output, feed |-> feed]

(* The operators of a residual network, the parameters in another order    *)
(* than their uses.                                                        *)
Residual ==
    Graph(<<Init0("fc.weight", <<2, 1>>, <<3, -2>>), Init0("conv.weight", <<1, 1, 2, 2>>, <<1, 2, -1, 1>>),
            Init0("fc.bias", <<2>>, <<5, 7>>), Init0("conv.bias", <<1>>, <<1>>)>>,
          <<Info("x", <<-1, 1, 2, 2>>)>>,
          <<Node("Conv", <<"x", "conv.weight", "conv.bias">>, "c", [pads |-> <<1, 1, 1, 1>>]),
            Node("Relu", <<"c">>, "r", <<>>),
            Node("MaxPool", <<"r">>, "p", [kernel_shape |-> <<2, 2>>]),
            Node("Add", <<"p", "x">>, "s", <<>>),
            Node("GlobalAveragePool", <<"s">>, "g", <<>>),
            Node("Flatten", <<"g">>, "f", <<>>),
            Node("Gemm", <<"f", "fc.weight", "fc.bias">>, "y", [transB |-> 1, alpha |-> 2])>>,
          <<Info("y", <<-1, 2>>)>>,
          [x |-> Floats(<<4, -2, 3, 0>>)])

(* An initializer that is also listed as an input, an absent bias, an      *)
(* unknown dimension, a parameter nobody uses and two outputs.             *)
TwoOutputs ==
    Graph(<<Init0("unused", <<2>>, <<8, 9>>), Init0("w", <<2, 1, 1, 1>>, <<2, -3>>), Init0("b", <<1>>, <<4>>)>>,
          <<Info("w", <<2, 1, 1, 1>>), Info("y", <<1, -1, 1, 2>>), Info("x", <<1, 1, 1, 2>>)>>,
          <<Node("Add", <<"x", "y">>, "s", <<>>),
            Node("Conv", <<"s", "w", "">>, "c", [strides |-> <<1, 2>>]),
            Node("Add", <<"b", "s">>, "d", <<>>)>>,
          <<Info("d", <<1, 1, 1, 2>>), Info("c", <<1, 2, 1, 1>>)>>,
          [x |-> Floats(<<1, 2>>), y |-> Floats(<<10, 20>>)])

Relu(input) == Node("Relu", <<input>>, "y", <<>>)

OneNode(initializer, node) ==
    Graph(initializer, <<Info("x", <<2>>)>>, <<node>>, <<Info("y", <<2>>)>>, [x |-> UpTo(2)])

(* Refused by the importer, by the loader or by type inference. *)
Refused ==
    {OneNode(<<>>, Node("Identity", <<"x">>, "y", <<>>)),
     OneNode(<<>>, Relu("z")),
     OneNode(<<>>, [Relu("x") EXCEPT !.output = <<"y", "z">>]),
     OneNode(<<>>, Node("Conv", <<"x", "x">>, "y", <<>>)),
     OneNode(<<Init0("e", <<0>>, <<>>)>>, Relu("x")),
     OneNode(<<>>, Node("Gemm", <<"x", "x">>, "y", <<>>))}

MCGraphs == {Residual, TwoOutputs} \cup Refused
==========================================================================
