-------------------------------- MODULE Tir --------------------------------
(***************************************************************************)
(* The tensor-level IR (src/tir/expr.cc, src/tir/stmt.cc) and what its     *)
(* programs compute: the LLVM code CodeGenLLVM emits for them, run on the  *)
(* buffers of a call.                                                      *)
(*                                                                         *)
(* Expressions and statements are records whose field k is the node kind   *)
(* and, for expressions, t the dtype the constructor gives the node.  The  *)
(* dtypes are bool (the only unsigned one), i32 and i64, whose widths are  *)
(* scaled down to Narrow and Wide bits so that overflow is within reach,   *)
(* and f32, whose values are integers without bound: rounding is left out, *)
(* and a quotient that is not an integer is undefined.  Nodes that carry   *)
(* no predicate and no allocation condition (none of the code that builds  *)
(* TIR passes one) omit the field; AttrStmt and Block, which the code      *)
(* generator rejects, are left out.                                        *)
(***************************************************************************)
EXTENDS Integers, Sequences, SequencesExt, TLC

CONSTANTS Narrow,   \* the width of int32
          Wide      \* the width of int64

ASSUME WidthAssumption == /\ Narrow \in Nat /\ Wide \in Nat
                          /\ 1 < Narrow /\ Narrow < Wide

----------------------------------------------------------------------------
(* Expression constructors. *)

IntImm(v, t) == [k |-> "IntImm", t |-> t, v |-> v]

FloatImm(v, t) == [k |-> "FloatImm", t |-> t, v |-> v]

Var(n, t) == [k |-> "Var", t |-> t, n |-> n]

Arithmetic == {"Add", "Sub", "Mul", "Div", "Mod", "Min", "Max"}
Logic      == {"EQ", "LT", "And", "Or"}

Binary(op, a, b) ==
    [k |-> "Binary", op |-> op, a |-> a, b |-> b,
     t |-> IF op \in Logic THEN "bool" ELSE a.t]

Not(a) == [k |-> "Not", t |-> "bool", a |-> a]

Load(buf, i) == [k |-> "Load", t |-> buf.t, buf |-> buf.n, i |-> i]

Call(t, name, a) == [k |-> "Call", t |-> t, name |-> name, a |-> a]

Select(c, a, b) == [k |-> "Select", t |-> a.t, c |-> c, a |-> a, b |-> b]

----------------------------------------------------------------------------
(* Statement constructors; Undef is the null Stmt(). *)

Undef == [k |-> "Undef"]

LetStmt(var, val, body) == [k |-> "Let", var |-> var, val |-> val, body |-> body]

Store(buf, val, i) == [k |-> "Store", buf |-> buf.n, val |-> val, i |-> i]

For(var, min, ext, ft, body) ==
    [k |-> "For", var |-> var, min |-> min, ext |-> ext, ft |-> ft, body |-> body]

IfThenElse(c, a, b) == [k |-> "If", c |-> c, a |-> a, b |-> b]

Allocate(buf, exts, body) ==
    [k |-> "Allocate", buf |-> buf.n, t |-> buf.t, exts |-> exts, body |-> body]

SeqStmt(seq) == [k |-> "Seq", seq |-> seq]

Evaluate(val) == [k |-> "Evaluate", val |-> val]

(* A parameter is a buffer variable with the shape buffer_map gives it. *)
PrimFunc(params, body) == [params |-> params, body |-> body]

----------------------------------------------------------------------------
(* Scalars: an LLVM value is [t, v]; Bad is poison, an undefined variable  *)
(* or a cell nobody wrote.                                                 *)

Bad == [t |-> "bad", v |-> 0]

(* The float below every other: minus infinity, the identity of max. *)
NegInf == -1000000

IsInt(t) == t \in {"bool", "i32", "i64"}

Bits(t) == CASE t = "bool" -> 1 [] t = "i32" -> Narrow [] t = "i64" -> Wide

MinOf(t) == IF t = "bool" THEN 0 ELSE -(2 ^ (Bits(t) - 1))
MaxOf(t) == IF t = "bool" THEN 1 ELSE (2 ^ (Bits(t) - 1)) - 1

Wrap(t, x) == IF IsInt(t) THEN ((x - MinOf(t)) % (2 ^ Bits(t))) + MinOf(t) ELSE x

CommonNumericType(s, t) ==
    CASE "bad" \in {s, t} -> "bad"
      [] s = t            -> s
      [] "f32" \in {s, t} -> "f32"
      [] "i64" \in {s, t} -> "i64"
      [] OTHER            -> "i32"

(* A float that its integer target cannot hold gives poison. *)
CastValue(x, t) ==
    CASE x.t = t                  -> x
      [] "bad" \in {x.t, t}       -> Bad
      [] t = "f32"                -> [t |-> t, v |-> x.v]
      [] x.t = "f32"              -> IF x.v \in MinOf(t)..MaxOf(t) THEN [t |-> t, v |-> x.v] ELSE Bad
      [] OTHER                    -> [t |-> t, v |-> Wrap(t, x.v)]

BoolValue(b) == [t |-> "bool", v |-> IF b THEN 1 ELSE 0]

CastToBool(x) == IF x.t = "bad" THEN Bad ELSE BoolValue(x.v # 0)

(* Division truncates towards zero (SDiv, SRem and their C++ namesakes). *)
Abs(x) == IF x < 0 THEN -x ELSE x
TruncDiv(x, y) == IF (x < 0) = (y < 0) THEN Abs(x) \div Abs(y) ELSE -(Abs(x) \div Abs(y))
TruncMod(x, y) == x - TruncDiv(x, y) * y

(* SDiv and SRem by zero, and of the least integer by -1, are undefined. *)
Divides(t, x, y) ==
    /\ y # 0
    /\ IF t = "f32" THEN x % Abs(y) = 0
       ELSE ~(t # "bool" /\ x = MinOf(t) /\ y = -1)

GenBinaryOp(op, x, y) ==
    LET t == CommonNumericType(x.t, y.t)
        a == CastValue(x, t).v
        b == CastValue(y, t).v
        Num(v) == [t |-> t, v |-> Wrap(t, v)]
    IN  CASE t = "bad"   -> Bad
          [] op = "And"  -> BoolValue(x.v # 0 /\ y.v # 0)
          [] op = "Or"   -> BoolValue(x.v # 0 \/ y.v # 0)
          [] op = "Add"  -> Num(a + b)
          [] op = "Sub"  -> Num(a - b)
          [] op = "Mul"  -> Num(a * b)
          [] op = "Div"  -> IF Divides(t, a, b) THEN Num(TruncDiv(a, b)) ELSE Bad
          [] op = "Mod"  -> IF Divides(t, a, b) THEN Num(TruncMod(a, b)) ELSE Bad
          [] op = "Min"  -> Num(IF a < b THEN a ELSE b)
          [] op = "Max"  -> Num(IF a > b THEN a ELSE b)
          [] op = "EQ"   -> BoolValue(a = b)
          [] op = "LT"   -> BoolValue(a < b)

----------------------------------------------------------------------------
(* The machine of one call: env is var_map_ (an entry survives the scope   *)
(* that made it), mem the buffers with their element type and cells, bad   *)
(* whether something undefined has been executed.                          *)

Machine(env, mem, bad) == [env |-> env, mem |-> mem, bad |-> bad]

ElemAt(m, buf, t, x) ==
    /\ buf \in DOMAIN m.mem
    /\ m.mem[buf].t = t
    /\ x.t \in {"i32", "i64"}
    /\ x.v \in 0..(Len(m.mem[buf].cells) - 1)

RECURSIVE LLVMType(_, _)
LLVMType(e, m) ==
    CASE e.k = "Var"    -> IF e.n \in DOMAIN m.env THEN m.env[e.n].t ELSE "bad"
      [] e.k = "Binary" -> IF e.op \in Logic THEN "bool"
                           ELSE CommonNumericType(LLVMType(e.a, m), LLVMType(e.b, m))
      [] e.k = "Select" -> CommonNumericType(LLVMType(e.a, m), LLVMType(e.b, m))
      [] OTHER          -> e.t

(* cast converts its argument; sqrt, the one intrinsic the operators below *)
(* call besides exp, is a float operation, here on perfect squares only.   *)
GenCall(e, x) ==
    LET roots == {r \in 0..x.v : r * r = x.v}
    IN  CASE e.name = "cast" -> x
          [] e.name = "sqrt" /\ x.t = "f32" /\ roots # {} -> [x EXCEPT !.v = CHOOSE r \in roots : TRUE]
          [] OTHER -> Bad

(* GenSelect branches, so only the chosen value is computed; the PHI has   *)
(* the common type of both.                                                *)
RECURSIVE GenExpr(_, _)
GenExpr(e, m) ==
    CASE e.k = "IntImm"   -> [t |-> e.t, v |-> Wrap(e.t, e.v)]
      [] e.k = "FloatImm" -> [t |-> e.t, v |-> e.v]
      [] e.k = "Var"      -> IF e.n \in DOMAIN m.env THEN m.env[e.n] ELSE Bad
      [] e.k = "Binary"   -> GenBinaryOp(e.op, GenExpr(e.a, m), GenExpr(e.b, m))
      [] e.k = "Not"      -> LET x == CastToBool(GenExpr(e.a, m))
                             IN  IF x = Bad THEN Bad ELSE BoolValue(x.v = 0)
      [] e.k = "Load"     -> LET x == GenExpr(e.i, m)
                             IN  IF ElemAt(m, e.buf, e.t, x)
                                 THEN m.mem[e.buf].cells[x.v + 1] ELSE Bad
      [] e.k = "Call"     -> GenCall(e, CastValue(GenExpr(e.a, m), e.t))
      [] e.k = "Select"   -> LET c == CastToBool(GenExpr(e.c, m))
                             IN  IF c = Bad THEN Bad
                                 ELSE CastValue(GenExpr(IF c.v = 1 THEN e.a ELSE e.b, m),
                                                LLVMType(e, m))

GenStore(s, m) ==
    LET x == GenExpr(s.val, m)
        i == GenExpr(s.i, m)
    IN  IF x # Bad /\ ElemAt(m, s.buf, x.t, i)
        THEN [m EXCEPT !.mem[s.buf].cells[i.v + 1] = x]
        ELSE [m EXCEPT !.bad = TRUE]

Bind(m, n, x) == [m EXCEPT !.env = n :> x @@ @]

RECURSIVE GenStmt(_, _)
RECURSIVE GenForHeader(_, _, _, _)

(* for.header: the comparison with end, the body, next = phi + 1. *)
GenForHeader(s, i, end, m) ==
    LET b == Bind(m, s.var.n, i)
    IN  IF m.bad \/ i.v >= end.v THEN b
        ELSE GenForHeader(s, GenBinaryOp("Add", i, [t |-> i.t, v |-> 1]), end,
                          GenStmt(s.body, b))

GenFor(s, m) ==
    LET init == GenExpr(s.min, m)
        ext  == GenExpr(s.ext, m)
        t    == CommonNumericType(CommonNumericType(init.t, ext.t), s.var.t)
    IN  IF t \notin {"i32", "i64"} THEN [m EXCEPT !.bad = TRUE]
        ELSE GenForHeader(s, CastValue(init, t),
                          GenBinaryOp("Add", CastValue(init, t), CastValue(ext, t)), m)

GenAllocate(s, m) ==
    LET size == FoldLeft(LAMBDA n, e : GenBinaryOp("Mul", n, CastValue(GenExpr(e, m), "i64")),
                         [t |-> "i64", v |-> 1], s.exts)
        buf  == [t |-> s.t, cells |-> [i \in 1..size.v |-> Bad]]
        done == GenStmt(s.body, [m EXCEPT !.mem = s.buf :> buf @@ @])
    IN  IF size = Bad THEN [m EXCEPT !.bad = TRUE]
        ELSE [done EXCEPT !.mem = [n \in DOMAIN @ \ {s.buf} |-> @[n]]]

GenIfThenElse(s, m) ==
    LET c == CastToBool(GenExpr(s.c, m))
    IN  IF c = Bad THEN [m EXCEPT !.bad = TRUE]
        ELSE GenStmt(IF c.v = 1 THEN s.a ELSE s.b, m)

GenStmt(s, m) ==
    CASE m.bad            -> m
      [] s.k = "Undef"    -> m
      [] s.k = "For"      -> GenFor(s, m)
      [] s.k = "Store"    -> GenStore(s, m)
      [] s.k = "Allocate" -> GenAllocate(s, m)
      [] s.k = "If"       -> GenIfThenElse(s, m)
      [] s.k = "Let"      -> GenStmt(s.body, Bind(m, s.var.n, GenExpr(s.val, m)))
      [] s.k = "Seq"      -> FoldLeft(LAMBDA n, c : GenStmt(c, n), m, s.seq)
      [] s.k = "Evaluate" -> m

(* AddFunction binds each parameter to a slot of packed_args, in order;    *)
(* args are the typed buffers the caller packs.                            *)
AddFunction(func, args) ==
    GenStmt(func.body,
            Machine(<<>>,
                    [b \in {func.params[i].n : i \in DOMAIN func.params} |->
                        args[CHOOSE i \in DOMAIN func.params : func.params[i].n = b]],
                    FALSE))
=============================================================================
