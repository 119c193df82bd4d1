------------------------------ MODULE CodeGenC ------------------------------
(***************************************************************************)
(* The C source CodeGenC (src/codegen/codegen_c.cc) prints for a PrimFunc  *)
(* and CompiledModule::SaveCSource hands out: which declarations it makes, *)
(* and what a C23 compiler makes of it.                                    *)
(*                                                                         *)
(* The generator names variables by their hints, so the machine of a call  *)
(* is [env, mem, names, fault]: scalars and arrays by NAME, the name of    *)
(* each buffer variable, and what has stopped the program, if anything:    *)
(* "overflow" of a signed integer, or something else that is "undefined".  *)
(* Names are [base, i, suffix].  Parameters are taken to have distinct     *)
(* names that no other variable has.                                       *)
(***************************************************************************)
EXTENDS Lowering

Name(base, i, suffix) == [base |-> base, i |-> i, suffix |-> suffix]

(* The name hints of the tensors an operator makes, in order. *)
TensorNames(node) ==
    CASE node.op = "nn_conv2d"            -> <<"T_conv2d", "T_conv2d_bias_add">>
      [] node.op = "nn_gemm"              ->
            <<IF Attr(node.attrs, "transB", 0) = 1 THEN "T_gemm_dense" ELSE "T_gemm_matmul">>
            \o (IF Attr(node.attrs, "alpha", 1) = 1 THEN <<>> ELSE <<"T_gemm_alpha">>)
            \o (IF Attr(node.attrs, "beta", 1) = 1 THEN <<>> ELSE <<"T_gemm_beta">>)
            \o <<"T_gemm_out">>
      [] node.op = "nn_avg_pool2d"        -> <<"T_avg_pool2d_sum", "T_avg_pool2d">>
      [] node.op = "nn_global_avg_pool2d" -> <<"T_global_avg_pool2d_sum", "T_global_avg_pool2d">>
      [] node.op = "reduce_mean"          -> <<"T_reduce_mean_sum", "T_reduce_mean">>
      [] OTHER                            -> <<node.op>>

(* A parameter's own name, const_<i>, or MakeOutputVarName; the names of   *)
(* intermediate tensors are their hints as they are.                       *)
ParamName(nodes, func, i) ==
    LET n == func.params[i].n
    IN  CASE nodes[n[2]].k = "Call"     -> Name(TensorNames(nodes[n[2]])[n[3] + 1], i, <<"out">>)
          [] nodes[n[2]].k = "Constant" -> Name("const", i, <<>>)
          [] OTHER                      -> Name("param", n[2], <<>>)

LocalName(nodes, n) == Name(TensorNames(nodes[n[2]])[n[3] + 1], 0, <<>>)

(* Mutant of LoopVarName: the loops a loop is split into have one name. *)
LoopVarNamePart(n) == IF Len(n) = 4 THEN Name(n[1], n[4], <<>>) ELSE Name("part", 0, <<>>)

(* Loop variables are named ax<i>, or by the place of their reduce axis;   *)
(* loop_partition adds a suffix to the name of the loop it splits.         *)
RECURSIVE LoopVarName(_)
LoopVarName(n) ==
    IF Len(n) = 4 THEN Name(n[1], n[4], <<>>)
    ELSE [LoopVarName(n[1]) EXCEPT !.suffix = Append(@, n[2])]

(* var_name_map_: names has the names of the parameters, by variable, and  *)
(* the nodes of the function.                                              *)
ParamNames(nodes, func) ==
    [nodes |-> nodes,
     params |-> FoldLeft(LAMBDA f, i : func.params[i].n :> ParamName(nodes, func, i) @@ f,
                         <<>>, [i \in DOMAIN func.params |-> i])]

VarName(names, n) ==
    CASE n \in DOMAIN names.params -> names.params[n]
      [] Len(n) = 3                -> LocalName(names.nodes, n)
      [] OTHER                     -> LoopVarName(n)

----------------------------------------------------------------------------
(* What does not compile: a name declared twice in one block, a call of a  *)
(* function that <math.h> does not have, a remainder of floats.            *)

RECURSIVE PrintsC(_)
PrintsC(e) ==
    CASE e.k = "Binary" -> PrintsC(e.a) /\ PrintsC(e.b) /\ ~(e.op = "Mod" /\ "f32" \in {e.a.t, e.b.t})
      [] e.k = "Not"    -> PrintsC(e.a)
      [] e.k = "Load"   -> PrintsC(e.i)
      [] e.k = "Call"   -> e.name # "cast" /\ PrintsC(e.a)
      [] e.k = "Select" -> PrintsC(e.c) /\ PrintsC(e.a) /\ PrintsC(e.b)
      [] OTHER          -> TRUE

(* A block so far: the names it declares, and whether all is well. *)
Block(seen, ok) == [seen |-> seen, ok |-> ok]

Declare(block, name) == Block(block.seen \cup {name}, block.ok /\ name \notin block.seen)

Demand(block, ok) == Block(block.seen, block.ok /\ ok)

(* A loop and a branch open a block of their own; an allocation, a let and *)
(* a sequence do not.                                                      *)
RECURSIVE Compile(_, _, _)
Compile(names, block, s) ==
    LET Inner(body) == Compile(names, Block({}, TRUE), body).ok
    IN  CASE ~block.ok        -> block
          [] s.k = "For"      -> Demand(block, PrintsC(s.min) /\ PrintsC(s.ext) /\ Inner(s.body))
          [] s.k = "If"       -> Demand(block, PrintsC(s.c) /\ Inner(s.a) /\ Inner(s.b))
          [] s.k = "Store"    -> Demand(block, PrintsC(s.i) /\ PrintsC(s.val))
          [] s.k = "Evaluate" -> Demand(block, PrintsC(s.val))
          [] s.k = "Allocate" -> Compile(names, Demand(Declare(block, VarName(names, s.buf)),
                                                        \A i \in DOMAIN s.exts : PrintsC(s.exts[i])), s.body)
          [] s.k = "Let"      -> Compile(names, Demand(Declare(block, VarName(names, s.var.n)),
                                                        PrintsC(s.val)), s.body)
          [] s.k = "Seq"      -> FoldLeft(LAMBDA b, c : Compile(names, b, c), block, s.seq)
          [] OTHER            -> block

Compiles(names, func) ==
    Compile(names,
            FoldLeft(LAMBDA b, p : Declare(b, VarName(names, p.n)), Block({}, TRUE), func.params),
            func.body).ok

----------------------------------------------------------------------------
(* The arithmetic of C: bool becomes int, the operands get a common type,  *)
(* and nothing wraps around.                                               *)

Overflow == [t |-> "overflow", v |-> 0]

IsFault(x) == x.t \in {"bad", "overflow"}

Promote(t) == IF t = "bool" THEN "i32" ELSE t

Converted(x, t) ==
    CASE IsFault(x)  -> x
      [] t = "bool"  -> CastToBool(x)
      [] OTHER       -> CastValue(x, t)

Truth(b) == [t |-> "i32", v |-> IF b THEN 1 ELSE 0]

CArithmetic(op, t, a, b) ==
    LET Num(v) == IF IsInt(t) /\ v \notin MinOf(t)..MaxOf(t) THEN Overflow ELSE [t |-> t, v |-> v]
    IN  CASE op = "Add" -> Num(a + b)
          [] op = "Sub" -> Num(a - b)
          [] op = "Mul" -> Num(a * b)
          [] op = "Div" -> IF Divides(t, a, b) THEN Num(TruncDiv(a, b)) ELSE Bad
          [] op = "Mod" -> IF Divides(t, a, b) THEN Num(TruncMod(a, b)) ELSE Bad
          [] op = "Min" -> Num(IF a < b THEN a ELSE b)
          [] op = "Max" -> Num(IF a > b THEN a ELSE b)
          [] op = "EQ"  -> Truth(a = b)
          [] op = "LT"  -> Truth(a < b)

CBinary(op, x, y) ==
    LET t == CommonNumericType(Promote(x.t), Promote(y.t))
    IN  CASE IsFault(x) -> x
          [] IsFault(y) -> y
          [] OTHER      -> CArithmetic(op, t, CastValue(x, t).v, CastValue(y, t).v)

(* An immediate without the suffix LL is an int, a bool's as well. *)
CImm(e) ==
    LET t == Promote(e.t)
    IN  IF e.v \in MinOf(t)..MaxOf(t) THEN [t |-> t, v |-> e.v] ELSE Bad

(* sqrt is that of <math.h>: the hints it is compared with (tir.sqrt, ...) *)
(* are not the ones the operators use.                                     *)
CCall(name, x) == IF IsFault(x) THEN x ELSE GenCall([name |-> name], CastValue(x, "f32"))

(* A subscript reads an array that no scalar hides. *)
InArray(m, name, x) ==
    /\ name \notin DOMAIN m.env
    /\ name \in DOMAIN m.mem
    /\ x.t \in {"bool", "i32", "i64"}
    /\ x.v \in 0..(Len(m.mem[name].cells) - 1)

CLoad(m, name, x) ==
    CASE IsFault(x)          -> x
      [] InArray(m, name, x) -> m.mem[name].cells[x.v + 1]
      [] OTHER               -> Bad

RECURSIVE CType(_, _)
CType(e, m) ==
    CASE e.k = "Var"    -> m.env[VarName(m.names, e.n)].t
      [] e.k = "Binary" -> IF e.op \in Logic THEN "i32" ELSE CommonNumericType(CType(e.a, m), CType(e.b, m))
      [] e.k = "Not"    -> "i32"
      [] e.k = "Select" -> CommonNumericType(CType(e.a, m), CType(e.b, m))
      [] OTHER          -> Promote(e.t)

(* && and || stop at the operand that decides, ?: computes one branch: an  *)
(* argument that is not looked at here is not evaluated there.             *)
CLogic(op, x, y) ==
    CASE IsFault(x)              -> x
      [] (x.v # 0) = (op = "Or") -> Truth(op = "Or")
      [] IsFault(y)              -> y
      [] OTHER                   -> Truth(y.v # 0)

CChoice(c, x, y, t) == IF IsFault(c) THEN c ELSE IF c.v # 0 THEN Converted(x, t) ELSE Converted(y, t)

RECURSIVE CExpr(_, _)
CExpr(e, m) ==
    CASE e.k = "IntImm"   -> CImm(e)
      [] e.k = "FloatImm" -> [t |-> e.t, v |-> e.v]
      [] e.k = "Var"      -> IF VarName(m.names, e.n) \in DOMAIN m.env THEN m.env[VarName(m.names, e.n)] ELSE Bad
      [] e.k = "Binary" /\ e.op \in {"And", "Or"} ->
            CLogic(e.op, CExpr(e.a, m), CExpr(e.b, m))
      [] e.k = "Binary"   -> CBinary(e.op, CExpr(e.a, m), CExpr(e.b, m))
      [] e.k = "Not"      -> CBinary("EQ", CExpr(e.a, m), Truth(FALSE))
      [] e.k = "Load"     -> CLoad(m, VarName(m.names, e.buf), CExpr(e.i, m))
      [] e.k = "Call"     -> CCall(e.name, CExpr(e.a, m))
      [] e.k = "Select"   -> CChoice(CExpr(e.c, m), CExpr(e.a, m), CExpr(e.b, m), CType(e, m))

----------------------------------------------------------------------------
(* Statements. *)

Stop(m, x) == [m EXCEPT !.fault = IF x = Overflow THEN "overflow" ELSE "undefined"]

(* The value is converted to the type of the array's elements. *)
CStore(m, name, x, i) ==
    CASE IsFault(x) -> Stop(m, x)
      [] IsFault(i) -> Stop(m, i)
      [] InArray(m, name, i) ->
            LET stored == Converted(x, m.mem[name].t)
            IN  IF IsFault(stored) THEN Stop(m, stored)
                ELSE [m EXCEPT !.mem[name].cells[i.v + 1] = stored]
      [] OTHER -> Stop(m, Bad)

(* The end of a block: its scalars are gone, and what they hid is back;    *)
(* arrays are declared in the block of the function only.                  *)
EndBlock(outer, m) == [m EXCEPT !.env = outer.env]

RECURSIVE CStmt(_, _)
RECURSIVE CFor(_, _, _)

LoopEnd(s, m) == CBinary("Add", CExpr(s.min, m), CExpr(s.ext, m))

CBlock(s, m) == EndBlock(m, CStmt(s, m))

CNext(s, v, m, b, more) ==
    CASE IsFault(more) -> Stop(m, more)
      [] more.v = 0    -> m
      [] OTHER         -> CFor(s, CBinary("Add", v, Truth(TRUE)), [CBlock(s.body, b) EXCEPT !.env = m.env])

CRound(s, v, m, b) == CNext(s, v, m, b, CBinary("LT", v, LoopEnd(s, b)))

(* for (int32_t v = min; v < (min + extent); ++v): the bound is evaluated  *)
(* in each round, with v in scope.                                         *)
CFor(s, v, m) ==
    IF m.fault # "none" THEN m
    ELSE CRound(s, v, m, [m EXCEPT !.env = VarName(m.names, s.var.n) :> v @@ @])

(* An array of no elements is undefined. *)
CAllocate(s, m) ==
    LET size == FoldLeft(LAMBDA n, e : CBinary("Mul", n, CExpr(e, m)), Truth(TRUE), s.exts)
        buf  == [t |-> s.t, cells |-> [i \in 1..size.v |-> Bad]]
    IN  IF IsFault(size) \/ size.v < 1 THEN Stop(m, size)
        ELSE CStmt(s.body, [m EXCEPT !.mem = VarName(m.names, s.buf) :> buf @@ @])

CIf(s, c, m) == IF IsFault(c) THEN Stop(m, c) ELSE CBlock(IF c.v # 0 THEN s.a ELSE s.b, m)

CLet(s, x, m) ==
    IF IsFault(x) THEN Stop(m, x)
    ELSE CStmt(s.body, [m EXCEPT !.env = VarName(m.names, s.var.n) :> x @@ @])

CStmt(s, m) ==
    CASE m.fault # "none" -> m
      [] s.k = "For"      -> LET v == Converted(CExpr(s.min, m), "i32")
                             IN  IF IsFault(v) THEN Stop(m, v) ELSE CFor(s, v, m)
      [] s.k = "Store"    -> CStore(m, VarName(m.names, s.buf), CExpr(s.val, m), CExpr(s.i, m))
      [] s.k = "Allocate" -> CAllocate(s, m)
      [] s.k = "If"       -> CIf(s, CExpr(s.c, m), m)
      [] s.k = "Let"      -> CLet(s, Converted(CExpr(s.val, m), s.var.t), m)
      [] s.k = "Seq"      -> FoldLeft(LAMBDA n, c : CStmt(c, n), m, s.seq)
      [] OTHER            -> m

(* A call of the compiled source: each parameter is a slot of packed_args. *)
CallC(func, names, args) ==
    CStmt(func.body,
          [env |-> <<>>, names |-> names, fault |-> "none",
           mem |-> FoldLeft(LAMBDA f, i : VarName(names, func.params[i].n) :> args[i] @@ f, <<>>,
                            [i \in DOMAIN func.params |-> i])])
=============================================================================
