----------------------------- MODULE RelayPasses -----------------------------
(***************************************************************************)
(* The Relay passes (src/relay/transforms/) and the pipeline that runs     *)
(* them.  A pass p is named as in GetRelayPassTable.                       *)
(*                                                                         *)
(* RelayPass (src/base/pass.cc) has no memo: it visits a shared node once  *)
(* per use, and builds a new node each time something below it changed.    *)
(* Nodes are immutable here, so a pass appends the nodes it builds to      *)
(* st.nodes and leaves in st.at the position of the result; st.cse is      *)
(* cse_table_.  What CopyVirtualDevice copies on top (the device, and a    *)
(* type that the next InferType sets again) is left out.  A constant's     *)
(* data is the sequence of its scalars.                                    *)
(***************************************************************************)
EXTENDS Tir, RelayTypes

----------------------------------------------------------------------------
(* src/relay/pass_utils.cc *)

(* One element is enough, whatever the rank. *)
TryGetScalarConstantValue(node) ==
    node.k = "Constant" /\ Product(node.type.shape) = 1

IsConst(node, v) == TryGetScalarConstantValue(node) /\ node.data[1].v = v

(* The folded value is a double converted to the element type: beyond an   *)
(* integer's range that is undefined.                                      *)
MakeScalarConstant(v, t) ==
    Constant(TensorType(<<>>, t),
             <<IF IsInt(t) /\ v \notin MinOf(t)..MaxOf(t) THEN Bad ELSE [t |-> t, v |-> v]>>)

(* A quotient of floats that is no integer is outside the model. *)
Undefined(t) == Constant(TensorType(<<>>, t), <<Bad>>)

GetCallOpName(node) == IF node.k = "Call" THEN node.op ELSE ""

(* The printed text: no attributes, no constant data, but every type. *)
RECURSIVE ExprStructuralKey(_, _, _)
ExprStructuralKey(nodes, types, p) ==
    LET node == nodes[p]
        sub  == [i \in DOMAIN Operands(node) |-> ExprStructuralKey(nodes, types, Operands(node)[i])]
    IN  <<node.k, types[p],
          CASE node.k \in {"Var", "Constant"} -> IF node.k = "Var" THEN <<p>> ELSE <<>>
            [] node.k = "Call"                -> <<node.op, sub>>
            [] node.k = "TupleGetItem"        -> <<node.index, sub>>
            [] OTHER                          -> sub>>

(* The bound variable of a let is no use of it. *)
RECURSIVE CountVarUses(_, _, _)
CountVarUses(nodes, p, var) ==
    LET node == nodes[p]
        in   == IF node.k = "Let" THEN <<node.value, node.body>> ELSE Operands(node)
    IN  IF p = var THEN 1
        ELSE FoldLeft(LAMBDA n, q : n + CountVarUses(nodes, q, var), 0, in)

----------------------------------------------------------------------------
(* What a pass makes of the rebuilt node st.at. *)

Emit(st, node) == [st EXCEPT !.nodes = Append(@, node), !.at = Len(st.nodes) + 1]

Become(st, p) == [st EXCEPT !.at = p]

FoldTupleGetItem(st) ==
    LET node  == st.nodes[st.at]
        tuple == st.nodes[node.tuple]
    IN  IF tuple.k = "Tuple" /\ node.index \in 0..(Len(tuple.fields) - 1)
        THEN Become(st, tuple.fields[node.index + 1]) ELSE st

(* Division by a constant zero is left alone. *)
FoldConstant(st) ==
    LET node == st.nodes[st.at]
        l == st.nodes[node.args[1]]
        r == st.nodes[node.args[2]]
        x == l.data[1].v
        y == r.data[1].v
        t == l.type.t
    IN  IF /\ Len(node.args) = 2
           /\ TryGetScalarConstantValue(l) /\ TryGetScalarConstantValue(r)
           /\ node.op \in {"add", "subtract", "mul", "divide"}
           /\ node.op = "divide" => y # 0
        THEN Emit(st, CASE node.op = "add"      -> MakeScalarConstant(x + y, t)
                        [] node.op = "subtract" -> MakeScalarConstant(x - y, t)
                        [] node.op = "mul"      -> MakeScalarConstant(x * y, t)
                        [] node.op = "divide"   ->
                              IF t = "f32" /\ x % Abs(y) # 0 THEN Undefined(t)
                              ELSE MakeScalarConstant(TruncDiv(x, y), t))
        ELSE st

SimplifyExpr(st) ==
    LET node == st.nodes[st.at]
        Is(i, v) == IsConst(st.nodes[node.args[i]], v)
    IN  CASE Len(node.args) # 2                                -> st
          [] node.op \in {"add", "subtract"} /\ Is(2, 0)       -> Become(st, node.args[1])
          [] node.op = "add" /\ Is(1, 0)                       -> Become(st, node.args[2])
          [] node.op \in {"mul", "divide"} /\ Is(2, 1)         -> Become(st, node.args[1])
          [] node.op = "mul" /\ Is(1, 1)                       -> Become(st, node.args[2])
          [] OTHER                                             -> st

(* A cast of a cast to the same type, and a reshape of a reshape, skip the *)
(* inner call.                                                             *)
SkipInner(st, op, Same(_, _)) ==
    LET node  == st.nodes[st.at]
        inner == st.nodes[node.args[1]]
    IN  IF node.op = op /\ GetCallOpName(inner) = op /\ Same(node.attrs, inner.attrs)
        THEN Emit(st, CallNode(op, <<inner.args[1]>> \o Tail(node.args), node.attrs)) ELSE st

CanonicalizeCast(st) ==
    SkipInner(st, "cast", LAMBDA a, b : /\ "to" \in DOMAIN a /\ "to" \in DOMAIN b
                                        /\ a.to = b.to)

(* Mutant: the call that stays has the attributes of the one skipped. *)
RemoveStandaloneReshapesOuter(st) ==
    LET node  == st.nodes[st.at]
        inner == st.nodes[node.args[1]]
    IN  IF node.op = "reshape" /\ GetCallOpName(inner) = "reshape"
        THEN Emit(st, CallNode("reshape", <<inner.args[1]>> \o Tail(node.args), inner.attrs)) ELSE st

RemoveStandaloneReshapes(st) == SkipInner(st, "reshape", LAMBDA a, b : TRUE)

(* None of the operators in scope has a side effect. *)
EliminateDeadLet(st) ==
    LET node == st.nodes[st.at]
    IN  IF CountVarUses(st.nodes, node.body, node.var) = 0 THEN Become(st, node.body) ELSE st

Rewrite(p, st) ==
    LET k == st.nodes[st.at].k
    IN  CASE p = "fold_tuple_get_item" /\ k = "TupleGetItem" -> FoldTupleGetItem(st)
          [] p = "fold_constant" /\ k = "Call"               -> FoldConstant(st)
          [] p = "simplify_expr" /\ k = "Call"               -> SimplifyExpr(st)
          [] p = "canonicalize_cast" /\ k = "Call"           -> CanonicalizeCast(st)
          [] p = "remove_standalone_reshapes" /\ k = "Call"  -> RemoveStandaloneReshapes(st)
          [] p = "eliminate_dead_let" /\ k = "Let"           -> EliminateDeadLet(st)
          [] OTHER                                           -> st

----------------------------------------------------------------------------
(* The traversal. *)

WithOperands(node, ps) ==
    CASE node.k = "Call"         -> [node EXCEPT !.args = ps]
      [] node.k = "Tuple"        -> [node EXCEPT !.fields = ps]
      [] node.k = "TupleGetItem" -> [node EXCEPT !.tuple = ps[1]]
      [] node.k = "Let"          -> [node EXCEPT !.var = ps[1], !.value = ps[2], !.body = ps[3]]

(* A node whose operands stayed is itself. *)
Rebuild(st, p, ps) ==
    IF ps = Operands(st.nodes[p]) THEN Become(st, p)
    ELSE Emit(st, WithOperands(st.nodes[p], ps))

(* Visit each position of ps in turn. *)
MutateEach(Visit(_, _), st, ps) ==
    FoldLeft(LAMBDA acc, q : LET s == Visit(acc.st, q) IN [st |-> s, out |-> Append(acc.out, s.at)],
             [st |-> st, out |-> <<>>], ps)

(* SubstituteVar stops at a let that binds the variable again. *)
RECURSIVE SubstituteVar(_, _, _, _)
SubstituteVar(st, p, var, by) ==
    LET node == st.nodes[p]
        Sub(s, q) == SubstituteVar(s, q, var, by)
        value == Sub(st, node.value)
        body  == Sub(value, node.body)
        in    == MutateEach(Sub, st, Operands(node))
    IN  CASE p = var -> Become(st, by)
          [] node.k = "Let" /\ node.var = var ->
                Rebuild(value, p, <<var, value.at, node.body>>)
          [] node.k = "Let" -> Rebuild(body, p, <<node.var, value.at, body.at>>)
          [] OTHER          -> Rebuild(in.st, p, in.out)

(* The visit of a let's body is over: its key leaves the table. *)
LeaveLet(st, p, value, key) ==
    Rebuild([st EXCEPT !.cse = [x \in DOMAIN @ \ {key} |-> @[x]]], p,
            <<st.nodes[p].var, value, st.at>>)

RECURSIVE Mutate(_, _, _)

(* eliminate_common_subexpr, once the value of the let p is at st.at: a    *)
(* let whose value has the key of an enclosing one is replaced by its body *)
(* over the earlier variable.                                              *)
CommonSubexpr(p, node, st, key) ==
    IF key \in DOMAIN st.cse
    THEN LET sub == SubstituteVar(st, node.body, node.var, st.cse[key])
         IN  Mutate("eliminate_common_subexpr", sub, sub.at)
    ELSE LeaveLet(Mutate("eliminate_common_subexpr", [st EXCEPT !.cse = key :> node.var @@ @], node.body),
                  p, st.at, key)

EliminateCommonSubexpr(p, node, st) ==
    CommonSubexpr(p, node, st, ExprStructuralKey(st.nodes, InferType(st.nodes), st.at))

Mutate(p, st, q) ==
    LET node == st.nodes[q]
        in   == MutateEach(LAMBDA s, r : Mutate(p, s, r), st, Operands(node))
    IN  IF p = "eliminate_common_subexpr" /\ node.k = "Let"
        THEN EliminateCommonSubexpr(q, node, Mutate(p, st, node.value))
        ELSE Rewrite(p, Rebuild(in.st, q, in.out))

(* annotate_memory_scope and capture_post_dfs_index_in_spans only touch    *)
(* devices and spans, infer_type only types.                               *)
RunSinglePass(p, prog) ==
    LET st == Mutate(p, [nodes |-> prog.nodes, at |-> prog.body, cse |-> <<>>], prog.body)
    IN  [prog EXCEPT !.nodes = st.nodes, !.body = st.at]

GetDefaultPassOrder ==
    <<"fold_tuple_get_item", "fold_constant", "simplify_expr", "canonicalize_cast",
      "remove_standalone_reshapes", "eliminate_common_subexpr", "eliminate_dead_let",
      "annotate_memory_scope", "capture_post_dfs_index_in_spans", "infer_type">>
==============================================================================
