-------------------------- MODULE CompilePipeline --------------------------
(***************************************************************************)
(* Compiler::Compile (src/api/compiler.cc) from a Relay function to the    *)
(* kernel: type inference, the Relay passes, LowerToTIR, the TIR passes    *)
(* and the code generated for the result.  The AOT and JIT modes run their *)
(* fixed pass lists; the Custom mode stands for callers of the             *)
(* run_pipeline functions both pipelines register, which take any list.    *)
(*                                                                         *)
(* A program is [params, nodes, body, data]: the positions of its          *)
(* parameters, its nodes, the position of its body and the cells a caller  *)
(* packs for each parameter.                                               *)
(***************************************************************************)
EXTENDS CodeGenC, OnnxImport

CONSTANTS Programs,          \* the functions that are compiled
          Graphs,            \* the ONNX graphs that are imported and compiled
          DefaultBatch,      \* the --batch of the import
          MaxRelayPasses,    \* the length of a Custom Relay pass list
          MaxTirPasses       \* the length of a Custom TIR pass list

VARIABLES graph,      \* the ONNX graph the function comes from
          files,      \* the two files of the import
          program,    \* the function given to Compile
          mode,       \* AOT, JIT or Custom
          stage,      \* import, load, infer, relay, tir or failed: what is held
          relay,      \* the Relay function
          func,       \* the PrimFunc
          todo,       \* the sets the next passes are taken from
          meant       \* history: what the function means, once it has a type

vars == <<graph, files, program, mode, stage, relay, func, todo, meant>>

Relay == INSTANCE RelayPasses

(* A fixed list of passes. *)
List(passes) == [i \in DOMAIN passes |-> {passes[i]}]

AnyList(order, n) == [i \in 1..n |-> ToSet(order)]

RelayPassList(m) ==
    CASE m = "AOT"    -> List(Relay!GetDefaultPassOrder)
      [] m = "JIT"    -> List(<<"fold_constant", "simplify_expr">>)
      [] m = "Custom" -> AnyList(Relay!GetDefaultPassOrder, MaxRelayPasses)

TirPassList(m) ==
    CASE m = "AOT"    -> List(GetDefaultPassOrder)
      [] m = "JIT"    -> List(<<"fold_constant", "simplify_expr">>)
      [] m = "Custom" -> AnyList(GetDefaultPassOrder, MaxTirPasses)

NoGraph == [node |-> <<>>]

NoFiles == [params |-> <<>>]

Init ==
    /\ \/ program \in Programs /\ graph = NoGraph /\ stage = "infer"
       \/ graph \in Graphs /\ program = NoProgram /\ stage = "import"
    /\ files = NoFiles
    /\ mode \in {"AOT", "JIT", "Custom"}
    /\ relay = program
    /\ func = NoFunc
    /\ todo = <<>>
    /\ meant = <<>>

OutputType(prog) == InferType(prog.nodes)[prog.body]

(* The outputs of a type: its fields, or the one tensor. *)
Outputs(type) == IF type.t = "tuple" THEN type.fields ELSE <<type>>

(* The value a caller passes for parameter p. *)
ParamValue(prog, types, p) ==
    LET i == CHOOSE i \in DOMAIN prog.params : prog.params[i] = p
    IN  FromCells(types[p].shape, prog.data[i])

OutputCells(type, value) ==
    IF type.t = "tuple" THEN [i \in DOMAIN value |-> Cells(value[i])]
    ELSE <<Cells(value)>>

TypedMeaning(prog, types) ==
    OutputCells(types[prog.body],
                Eval(prog.nodes, types,
                     [p \in ToSet(prog.params) |-> ParamValue(prog, types, p)], prog.body))

(* The meaning of a Relay function on its data: the cells of each output. *)
Meaning(prog) == TypedMeaning(prog, InferType(prog.nodes))

(* A throw in any stage ends the compilation. *)
Fail == /\ stage' = "failed"
        /\ todo' = <<>>
        /\ UNCHANGED <<graph, files, program, mode, relay, func, meant>>

(* python -m kxc_onnx *)
ImportGraph ==
    /\ stage = "import"
    /\ \E imported \in {import_onnx_model(graph, DefaultBatch)} :
          IF imported = NoImport THEN Fail
          ELSE /\ files' = save_imported_model(imported)
               /\ stage' = "load"
               /\ UNCHANGED <<graph, program, mode, relay, func, todo, meant>>

LoadSpec ==
    /\ stage = "load"
    /\ \E loaded \in {LoadONNXImportSpec(files, graph.feed)} :
          IF loaded = NoProgram THEN Fail
          ELSE /\ program' = loaded
               /\ relay' = loaded
               /\ stage' = "infer"
               /\ UNCHANGED <<graph, files, mode, func, todo, meant>>

InferTypePass ==
    /\ stage = "infer"
    /\ IF OutputType(relay) = Throw THEN Fail
       ELSE /\ stage' = "relay"
            /\ todo' = RelayPassList(mode)
            /\ meant' = Meaning(relay)
            /\ UNCHANGED <<graph, files, program, mode, relay, func>>

RunRelayPass ==
    /\ stage = "relay" /\ todo # <<>>
    /\ \E p \in Head(todo) : relay' = Relay!RunSinglePass(p, relay)
    /\ todo' = Tail(todo)
    /\ UNCHANGED <<graph, files, program, mode, stage, func, meant>>

LowerRelay ==
    /\ stage = "relay" /\ todo = <<>>
    /\ \E lowered \in {LowerToTIR(relay)} :
          IF lowered = NoFunc THEN Fail
          ELSE /\ func' = lowered
               /\ stage' = "tir"
               /\ todo' = TirPassList(mode)
               /\ UNCHANGED <<graph, files, program, mode, relay, meant>>

RunTirPass ==
    /\ stage = "tir" /\ todo # <<>>
    /\ \E p \in Head(todo) : func' = RunSinglePass(p, func)
    /\ todo' = Tail(todo)
    /\ UNCHANGED <<graph, files, program, mode, stage, relay, meant>>

Next == ImportGraph \/ LoadSpec \/ InferTypePass \/ RunRelayPass \/ LowerRelay \/ RunTirPass

Spec == Init /\ [][Next]_vars

----------------------------------------------------------------------------
(* What a caller sees. *)

(* A call of the kernel: the caller packs the parameters' data, the        *)
(* constants in the order LowerToTIR met them, and outputs sized by their  *)
(* inferred types.                                                         *)
PackedArgs(prog, types, consts, out) ==
    [i \in DOMAIN prog.params |-> [t |-> types[prog.params[i]].t, cells |-> prog.data[i]]]
    \o [i \in DOMAIN consts |-> [t |-> types[consts[i]].t, cells |-> prog.nodes[consts[i]].data]]
    \o [i \in DOMAIN out |-> [t |-> out[i].t, cells |-> [n \in 1..Product(out[i].shape) |-> Bad]]]

Args(prog, types) ==
    PackedArgs(prog, types, Convert(prog, types).consts, Outputs(types[prog.body]))

(* The kernel f left its machine m without a fault, and its outputs hold   *)
(* the cells.                                                              *)
Leaves(f, m, cells) ==
    /\ ~m.bad
    /\ \A i \in DOMAIN cells :
          m.mem[f.params[Len(f.params) - Len(cells) + i].n].cells = cells[i]

KernelComputes(f, prog, cells) ==
    Leaves(f, AddFunction(f, Args(prog, InferType(prog.nodes))), cells)

----------------------------------------------------------------------------
(* Properties *)

(* Whatever passes have run, in whatever order, the Relay function         *)
(* (RunRelayPassPipeline) and the kernel generated from the PrimFunc       *)
(* (RunTIRPassPipeline, CodeGenLLVM) compute what the function given to    *)
(* Compile means, and the kernel touches no memory but its buffers'.       *)
MeaningPreserved ==
    /\ stage = "relay" => Meaning(relay) = meant
    /\ stage = "tir"   => KernelComputes(func, relay, meant)

(* The call of the C source leaves the cells in the outputs. *)
LeavesInC(f, names, m, cells) ==
    /\ m.fault = "none"
    /\ \A i \in DOMAIN cells :
          m.mem[VarName(names, f.params[Len(f.params) - Len(cells) + i].n)].cells = cells[i]

SourceComputes(f, names, prog, cells) ==
    \E m \in {CallC(f, names, Args(prog, InferType(prog.nodes)))} :
       m.fault = "overflow" \/ LeavesInC(f, names, m, cells)

(* Of one PrimFunc there are two translations.  The C source CodeGenC      *)
(* prints of it, if a C compiler accepts it and no signed integer          *)
(* overflows, computes what the function given to Compile means, too,      *)
(* whatever passes have run: no variable hides one with the same name, and *)
(* C's types, evaluation order and scopes make no difference.              *)
CSourceAgrees ==
    stage = "tir" =>
        \E names \in {ParamNames(relay.nodes, func)} :
           Compiles(names, func) => SourceComputes(func, names, relay, meant)

(* Node n of the graph may use the name. *)
Defined(g, n, name) ==
    \/ name = ""
    \/ \E i \in DOMAIN g.input : g.input[i].name = name
    \/ \E i \in DOMAIN g.initializer : g.initializer[i].name = name
    \/ \E m \in 1..(n - 1) : g.node[m].output = <<name>>

(* The graph stays within what docs/ONNX_IMPORTER.md lists: the operators, *)
(* one output each, convolutions with constant weights, values defined     *)
(* before they are used; and no tensor is empty.                           *)
Supported(g) ==
    /\ \A n \in DOMAIN g.node :
          /\ g.node[n].op_type \in DOMAIN ONNX_TO_RELAY
          /\ Len(g.node[n].output) = 1
          /\ g.node[n].op_type = "Conv" =>
                \E i \in DOMAIN g.initializer : g.initializer[i].name = g.node[n].input[2]
          /\ \A i \in DOMAIN g.node[n].input : Defined(g, n, g.node[n].input[i])
    /\ \A i \in DOMAIN g.initializer : g.initializer[i].cells # <<>>

(* What the two halves of the importer (import_onnx_model with             *)
(* save_imported_model, LoadONNXImportSpec) make of a graph is a function  *)
(* that means what the graph means: every name leads to the value it       *)
(* stands for, every parameter to its own bytes, every attribute left out  *)
(* to its default; and they refuse no graph they claim to support.         *)
ImportFaithful ==
    /\ stage = "infer" /\ graph # NoGraph /\ OutputType(program) # Throw =>
          Meaning(program) = OnnxMeaning(graph, DefaultBatch)
    /\ stage = "failed" /\ program = NoProgram => ~Supported(graph)

(* The shape of a PrimFunc's buffer, which a pass may have left symbolic. *)
BufferShape(f, i) ==
    [j \in DOMAIN f.params[i].shape |-> GenExpr(f.params[i].shape[j], Machine(<<>>, <<>>, FALSE)).v]

(* The last parameters of f are buffers of the types out. *)
BuffersHaveTypes(f, out) ==
    \A i \in DOMAIN out :
       LET j == Len(f.params) - Len(out) + i
       IN  f.params[j].t = out[i].t /\ BufferShape(f, j) = out[i].shape

RECURSIVE HasLet(_, _)
HasLet(nodes, p) ==
    \/ nodes[p].k = "Let"
    \/ \E i \in DOMAIN Operands(nodes[p]) : HasLet(nodes, Operands(nodes[p])[i])

(* What the type rules (type_infer.cc) promise about a function is what    *)
(* its lowering (topi and the FRelayToTE functions) builds: no pass        *)
(* changes its type, LowerToTIR rejects a function only for a let, and the *)
(* output buffers have the inferred shapes and dtypes.  The functions of   *)
(* the run are those of which this can be said: their scalar constants     *)
(* have rank 0, no list of passes reduces one to a parameter (LowerToTIR   *)
(* rejects that as well), and their attributes are among those that the    *)
(* rules and topi read alike (README, section 3).                          *)
ShapesAgree ==
    /\ stage = "relay"  => OutputType(relay) = OutputType(program)
    /\ stage = "failed" /\ program # NoProgram =>
          OutputType(program) = Throw \/ HasLet(relay.nodes, relay.body)
    /\ stage = "tir"    => BuffersHaveTypes(func, Outputs(OutputType(program)))
=============================================================================
