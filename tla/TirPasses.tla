------------------------------ MODULE TirPasses ------------------------------
(***************************************************************************)
(* The TIR passes (src/tir/transforms/) on the programs of Tir, and the    *)
(* pipeline that runs them.  A pass p is named as in GetTIRPassTable.      *)
(*                                                                         *)
(* Every pass subclasses TIRPass (src/base/pass.cc): the traversal         *)
(* rebuilds a node from its rewritten children and the pass rewrites the   *)
(* result.  A node that did not change is kept by pointer in the code,     *)
(* which no later step can tell from the equal node built here.            *)
(***************************************************************************)
EXTENDS Tir

IsImm(e) == e.k \in {"IntImm", "FloatImm"}

IsConstZero(e) == IsImm(e) /\ e.v = 0

IsConstOne(e) == IsImm(e) /\ e.v = 1

----------------------------------------------------------------------------
(* fold_constant.  A fold whose result the dtype of the node cannot hold,  *)
(* or that is undefined, is left to the generated code.                    *)

FitsInDType(v, t) == v \in MinOf(t)..MaxOf(t)

BothAre(e, k) == e.a.k = k /\ e.b.k = k

(* The value of a foldable operation; the integer folds are exact, and the *)
(* float ones refuse what is not finite.                                   *)
TryFoldArithmetic(e) ==
    LET x == e.a.v
        y == e.b.v
        Divided == e.op \in {"Div", "Mod"}
        v == CASE e.op = "Add" -> x + y
               [] e.op = "Sub" -> x - y
               [] e.op = "Mul" -> x * y
               [] e.op = "Div" -> TruncDiv(x, y)
               [] e.op = "Mod" -> TruncMod(x, y)
               [] e.op = "Min" -> IF x < y THEN x ELSE y
               [] e.op = "Max" -> IF x > y THEN x ELSE y
    IN  CASE IsInt(e.t) /\ BothAre(e, "IntImm") ->
                IF (Divided => y # 0) /\ FitsInDType(v, e.t) THEN IntImm(v, e.t) ELSE e
          [] e.t = "f32" /\ BothAre(e, "FloatImm") ->
                IF (Divided => Divides("f32", x, y)) /\ v > NegInf THEN FloatImm(v, e.t) ELSE e
          [] OTHER -> e

BoolImm(b) == IntImm(IF b THEN 1 ELSE 0, "bool")

FoldBinary(e) ==
    CASE e.op \in Arithmetic -> TryFoldArithmetic(e)
      [] e.op \in {"EQ", "LT"} /\ IsImm(e.a) /\ IsImm(e.b) ->
            BoolImm(IF e.op = "EQ" THEN e.a.v = e.b.v ELSE e.a.v < e.b.v)
      [] e.op \in {"And", "Or"} /\ BothAre(e, "IntImm") ->
            BoolImm(IF e.op = "And" THEN e.a.v # 0 /\ e.b.v # 0 ELSE e.a.v # 0 \/ e.b.v # 0)
      [] OTHER -> e

FoldConstant(e) ==
    CASE e.k = "Binary"                         -> FoldBinary(e)
      [] e.k = "Not" /\ e.a.k = "IntImm"        -> BoolImm(e.a.v = 0)
      [] e.k = "Select" /\ e.c.k = "IntImm"     -> IF e.c.v # 0 THEN e.a ELSE e.b
      [] OTHER                                  -> e

----------------------------------------------------------------------------
(* simplify_expr: x + 0, 0 + x, x - 0, x * 1, 1 * x, x / 1. *)
SimplifyExpr(e) ==
    CASE e.k # "Binary" -> e
      [] e.op \in {"Add", "Sub"} /\ IsConstZero(e.b) -> e.a
      [] e.op = "Add" /\ IsConstZero(e.a)            -> e.b
      [] e.op \in {"Mul", "Div"} /\ IsConstOne(e.b)  -> e.a
      [] e.op = "Mul" /\ IsConstOne(e.a)             -> e.b
      [] OTHER -> e

(* force_narrow_index_to_i32 narrows an index, a loop bound or a buffer    *)
(* dimension that is itself an int64 immediate, never one inside an        *)
(* expression.                                                             *)
NarrowIntImmToInt32IfPossible(e) ==
    IF e.k = "IntImm" /\ e.t = "i64" /\ FitsInDType(e.v, "i32") THEN IntImm(e.v, "i32") ELSE e

----------------------------------------------------------------------------
(* Statements (src/tir/pass_utils.cc). *)

RECURSIVE IsNoOpStmt(_)
IsNoOpStmt(s) ==
    CASE s.k = "Undef"    -> TRUE
      [] s.k = "Evaluate" -> IsConstZero(s.val)
      [] s.k = "Seq"      -> \A i \in DOMAIN s.seq : IsNoOpStmt(s.seq[i])
      [] OTHER            -> FALSE

RECURSIVE ContainsFor(_)
ContainsFor(s) ==
    CASE s.k = "For"                 -> TRUE
      [] s.k \in {"Let", "Allocate"} -> ContainsFor(s.body)
      [] s.k = "If"                  -> ContainsFor(s.a) \/ ContainsFor(s.b)
      [] s.k = "Seq"                 -> \E i \in DOMAIN s.seq : ContainsFor(s.seq[i])
      [] OTHER                       -> FALSE

RECURSIVE IsSimpleStraightLineStmt(_)
IsSimpleStraightLineStmt(s) ==
    CASE s.k = "Let" -> IsSimpleStraightLineStmt(s.body)
      [] s.k = "Seq" -> \A i \in DOMAIN s.seq : IsSimpleStraightLineStmt(s.seq[i])
      [] OTHER       -> s.k \in {"Undef", "Evaluate", "Store"}

RECURSIVE AppendFlattenedStmt(_, _)
AppendFlattenedStmt(out, s) ==
    CASE s.k = "Seq"   -> FoldLeft(AppendFlattenedStmt, out, s.seq)
      [] IsNoOpStmt(s) -> out
      [] OTHER         -> Append(out, s)

MakeSeqStmtOrUnit(seq) ==
    LET flat == FoldLeft(AppendFlattenedStmt, <<>>, seq)
    IN  CASE Len(flat) = 0 -> Undef
          [] Len(flat) = 1 -> flat[1]
          [] OTHER         -> SeqStmt(flat)

----------------------------------------------------------------------------
(* loop_partition: an innermost loop of more than Factor iterations becomes *)
(* a nest of Factor-sized blocks and the rest.                             *)
Factor == 4

CanonicalAdd(l, r, t) ==
    CASE IsConstZero(l) -> r
      [] IsConstZero(r) -> l
      [] l.k = "IntImm" /\ r.k = "IntImm" -> IntImm(l.v + r.v, t)
      [] OTHER -> Binary("Add", l, r)

LoopPartition(s) ==
    LET t     == s.var.t
        main  == s.ext.v \div Factor
        tail  == s.ext.v % Factor
        New(part) == Var(<<s.var.n, part>>, t)
        Loop(var, n, body) == For(var, IntImm(0, t), IntImm(n, t), "Serial", body)
        Bound(base, var)   == LetStmt(s.var, CanonicalAdd(base, var, t), s.body)
        block == CanonicalAdd(s.min, Binary("Mul", New("outer"), IntImm(Factor, t)), t)
        rest  == CanonicalAdd(s.min, IntImm(main * Factor, t), t)
        blocks == Loop(New("outer"), main, Loop(New("inner"), Factor, Bound(block, New("inner"))))
    IN  IF s.ext.k # "IntImm" \/ ContainsFor(s.body) THEN s
        ELSE IF s.ext.v <= Factor THEN s
        ELSE MakeSeqStmtOrUnit(
                 <<blocks>> \o IF tail = 0 THEN <<>>
                               ELSE <<Loop(New("tail"), tail, Bound(rest, New("tail")))>>)

(* unroll_loop: a loop of at most MaxUnroll iterations, nested or not. *)
MaxUnroll == 8

(* Mutant: the first copy of the body already steps. *)
BuildUnrolledIterValueNext(min, step, t) ==
    IF min.k = "IntImm" THEN IntImm(min.v + step + 1, t)
    ELSE Binary("Add", min, IntImm(step + 1, t))

BuildUnrolledIterValue(min, step, t) ==
    CASE step = 0         -> min
      [] min.k = "IntImm" -> IntImm(min.v + step, t)
      [] IsConstZero(min) -> IntImm(step, t)
      [] OTHER            -> Binary("Add", min, IntImm(step, t))

UnrollLoop(s) ==
    IF s.ext.k # "IntImm" THEN s
    ELSE CASE s.ext.v \notin 0..MaxUnroll -> s
           [] s.ext.v = 0 -> Undef
           [] OTHER ->
                MakeSeqStmtOrUnit([i \in 1..s.ext.v |->
                    LetStmt(s.var, BuildUnrolledIterValue(s.min, i - 1, s.var.t), s.body)])

VectorizeLoop(s) ==
    IF s.ext.k = "IntImm" /\ s.ext.v > 0 /\ s.ext.v % Factor = 0
       /\ ~ContainsFor(s.body) /\ IsSimpleStraightLineStmt(s.body)
    THEN [s EXCEPT !.ft = "Vectorized"] ELSE s

----------------------------------------------------------------------------
(* The traversal: VisitX rebuilds, RewriteX is what the pass overrides. *)

RewriteExpr(p, e) ==
    CASE p = "fold_constant" -> FoldConstant(e)
      [] p = "simplify_expr" -> SimplifyExpr(e)
      [] p = "force_narrow_index_to_i32" /\ e.k = "Load" ->
            [e EXCEPT !.i = NarrowIntImmToInt32IfPossible(@)]
      [] OTHER -> e

RECURSIVE VisitExpr(_, _)
VisitExpr(p, e) ==
    CASE e.k = "Binary" -> RewriteExpr(p, Binary(e.op, VisitExpr(p, e.a), VisitExpr(p, e.b)))
      [] e.k = "Not"    -> RewriteExpr(p, Not(VisitExpr(p, e.a)))
      [] e.k = "Load"   -> RewriteExpr(p, [e EXCEPT !.i = VisitExpr(p, @)])
      [] e.k = "Call"   -> [e EXCEPT !.a = VisitExpr(p, @)]
      [] e.k = "Select" -> RewriteExpr(p, Select(VisitExpr(p, e.c), VisitExpr(p, e.a),
                                                 VisitExpr(p, e.b)))
      [] OTHER          -> e

RewriteFor(p, s) ==
    CASE p = "force_narrow_index_to_i32" ->
            [s EXCEPT !.min = NarrowIntImmToInt32IfPossible(@),
                      !.ext = NarrowIntImmToInt32IfPossible(@)]
      [] p = "convert_for_loops_serial"               -> [s EXCEPT !.ft = "Serial"]
      [] p = "loop_partition" /\ s.ft = "Serial"      -> LoopPartition(s)
      [] p = "unroll_loop" /\ s.ft = "Serial"         -> UnrollLoop(s)
      [] p = "vectorize_loop" /\ s.ft = "Serial"      -> VectorizeLoop(s)
      [] p = "remove_no_op" /\ IsNoOpStmt(s.body)     -> Undef
      [] OTHER -> s

RewriteStmt(p, s) ==
    CASE s.k = "For" -> RewriteFor(p, s)
      [] s.k = "Store" /\ p = "force_narrow_index_to_i32" ->
            [s EXCEPT !.i = NarrowIntImmToInt32IfPossible(@)]
      [] s.k = "Evaluate" /\ p = "remove_no_op" /\ IsConstZero(s.val) -> Undef
      [] s.k = "Seq" /\ p = "remove_no_op" -> MakeSeqStmtOrUnit(s.seq)
      [] OTHER -> s

RECURSIVE VisitStmt(_, _)
VisitStmt(p, s) ==
    RewriteStmt(p,
        CASE s.k = "Let"      -> [s EXCEPT !.val = VisitExpr(p, @), !.body = VisitStmt(p, @)]
          [] s.k = "Store"    -> [s EXCEPT !.val = VisitExpr(p, @), !.i = VisitExpr(p, @)]
          [] s.k = "For"      -> [s EXCEPT !.min = VisitExpr(p, @), !.ext = VisitExpr(p, @),
                                           !.body = VisitStmt(p, @)]
          [] s.k = "If"       -> [s EXCEPT !.c = VisitExpr(p, @), !.a = VisitStmt(p, @),
                                           !.b = VisitStmt(p, @)]
          [] s.k = "Allocate" -> [s EXCEPT !.exts = [i \in DOMAIN @ |-> VisitExpr(p, @[i])],
                                           !.body = VisitStmt(p, @)]
          [] s.k = "Seq"      -> [s EXCEPT !.seq = [i \in DOMAIN @ |-> VisitStmt(p, @[i])]]
          [] s.k = "Evaluate" -> [s EXCEPT !.val = VisitExpr(p, @)]
          [] OTHER            -> s)

(* The shapes of buffer_map are rewritten with the body. *)
RunSinglePass(p, func) ==
    LET Shape(e) == IF p = "force_narrow_index_to_i32"
                    THEN NarrowIntImmToInt32IfPossible(VisitExpr(p, e)) ELSE VisitExpr(p, e)
    IN  [params |-> [i \in DOMAIN func.params |->
                        [func.params[i] EXCEPT !.shape = [j \in DOMAIN @ |-> Shape(@[j])]]],
         body   |-> VisitStmt(p, func.body)]

GetDefaultPassOrder ==
    <<"fold_constant", "simplify_expr", "force_narrow_index_to_i32",
      "convert_for_loops_serial", "loop_partition", "unroll_loop",
      "vectorize_loop", "remove_no_op">>
==============================================================================
