------------------------------ MODULE DiscoPlan ------------------------------
(***************************************************************************)
(* From an annotated Relay function to an ExecutionPlan: the placement of  *)
(* virtual devices on workers (disco_placement.cc), the insertion of       *)
(* device.copy calls (DeviceCommunicationInserter) and the lowering to a   *)
(* list of kernel and communication nodes (RelayToExecPlanBuilder).        *)
(*                                                                         *)
(* A function is the sequence of its expressions, arguments before their   *)
(* users, the body last.  It is a tree but for parameters, constants and   *)
(* variables: the rewriting in the code duplicates a shared call that it   *)
(* changes.                                                                *)
(***************************************************************************)
EXTENDS PassContext

CONSTANTS NoObject,     \* attributes or a type that are not defined
          NoPlan        \* LowerRelayToExecPlanPass has thrown

-----------------------------------------------------------------------------
(* The functions the pass gets *)

\* Parameters, constants and variables may be used several times, every other
\* expression once.
IsTree(func) ==
    \A n, m \in DOMAIN func :
        \A i \in DOMAIN Children(func[n]), j \in DOMAIN Children(func[m]) :
            /\ Children(func[n])[i] = Children(func[m])[j]
            /\ func[Children(func[n])[i]].kind \notin Leaves
            => n = m /\ i = j

\* A let is its variable, the value and the body; a variable stands for the
\* value of its let.
IsBinding(func, n) ==
    /\ func[n].kind = "var" => Len(func[n].args) = 1
    /\ func[n].kind = "let" => /\ Len(func[n].args) = 3
                               /\ func[func[n].args[1]].kind = "var"
                               /\ func[func[n].args[1]].args[1] = func[n].args[2]

\* The variables an expression may use, given those its user may.
ScopeOf(func, env, n, i) ==
    env[n] \cup IF func[n].kind = "let" /\ i = 3 THEN {func[n].args[1]} ELSE {}

\* Every use of a variable is in the body of its let.
IsScoped(func, env) ==
    /\ env[Len(func)] = {} /\ func[Len(func)].kind # "var"
    /\ \A n \in DOMAIN func : \A i \in DOMAIN Children(func[n]) :
          LET c == Children(func[n])[i]
          IN  ~(func[n].kind = "let" /\ i = 1) =>
                 /\ env[c] \subseteq ScopeOf(func, env, n, i)
                 /\ func[c].kind = "var" => c \in ScopeOf(func, env, n, i)

WellFormed(func) ==
    /\ IsTree(func)
    /\ \A n \in DOMAIN func : IsBinding(func, n)
    /\ \E env \in [DOMAIN func -> SUBSET {v \in DOMAIN func : func[v].kind = "var"}] :
          IsScoped(func, env)

-----------------------------------------------------------------------------

CopyOp == "device.copy"

Collectives == {"device.allreduce", "device.broadcast_from_worker0",
                "device.scatter_from_worker0", "device.gather_to_worker0"}

PointToPoint == {"device.send_to_worker", "device.recv_from_worker"}

CommunicationOps == {CopyOp} \cup Collectives \cup PointToPoint

\* ResolveWorkerForVirtualDevice of the builder.
PlanWorker(ctx, vd) ==
    IF vd = NoVD THEN None
    ELSE IF HasPlacement(ctx) THEN FindWorker(ctx.placement, vd)
    ELSE IF ctx # NoContext /\ ctx.device # None THEN ctx.device ELSE 0

-----------------------------------------------------------------------------
(* InsertDeviceCommunicationPass *)

\* Device or else target, scope and id: coarser than a placement's identity.
SameVirtualDevice(a, b) ==
    IF a = NoVD \/ b = NoVD THEN a = b
    ELSE DeviceOf(a) = DeviceOf(b) /\ a.scope = b.scope /\ a.id = b.id

DeviceCopyAttrs(src, dst, async, in_group) ==
    [src |-> src, dst |-> dst, async |-> async, in_group |-> in_group]

CollectiveAttrs(kind, reduce_kind, in_group, group_id, root_worker) ==
    [kind |-> kind, reduce_kind |-> reduce_kind, in_group |-> in_group,
     group_id |-> group_id, root_worker |-> root_worker]

\* The attributes an operator's call may have.
AttrsOf(op_name) ==
    IF op_name = CopyOp
    THEN [src : VirtualDevices \cup {NoVD}, dst : VirtualDevices \cup {NoVD},
          async : BOOLEAN, in_group : BOOLEAN]
    ELSE [kind : STRING, reduce_kind : STRING, in_group : BOOLEAN,
          group_id : Int, root_worker : Int]

\* The texts the pass itself writes are strings, a fact no prover knows.
ASSUME TextAssumption == CommunicationOps \cup {"sum"} \subseteq STRING

\* The virtual device of an expression after the pass: a device.copy moves to
\* the destination its attributes name.
VDOf(func, n) ==
    IF func[n].kind = CopyOp /\ func[n].attrs # NoObject /\ func[n].attrs.dst # NoVD
    THEN func[n].attrs.dst ELSE func[n].vd

\* NormalizeCommunicationCall completes the attributes from the annotations.
CopyAttrs(func, n) ==
    LET given == IF func[n].attrs # NoObject THEN func[n].attrs
                 ELSE DeviceCopyAttrs(NoVD, NoVD, FALSE, TRUE)
        producer == IF func[n].args = <<>> THEN NoVD ELSE VDOf(func, func[n].args[1])
    IN  [given EXCEPT !.src = IF @ # NoVD THEN @ ELSE producer,
                      !.dst = IF @ # NoVD THEN @ ELSE func[n].vd]

NormalizedAttrs(func, n) ==
    IF func[n].kind = CopyOp THEN CopyAttrs(func, n)
    ELSE IF func[n].attrs = NoObject
         THEN CollectiveAttrs(func[n].kind, "sum", TRUE, 0, 0)
    ELSE [func[n].attrs EXCEPT !.kind = IF @ = "" THEN func[n].kind ELSE @]

\* Mutant of NeedsCopy: only the first argument is looked at.
NeedsCopyFirst(func, n, i) ==
    LET producer == VDOf(func, func[n].args[i])
    IN  /\ i = 1
        /\ func[n].kind = "call" /\ func[n].vd # NoVD /\ producer # NoVD
        /\ ~SameVirtualDevice(producer, func[n].vd)

\* Argument i of a call is wrapped in a device.copy.
NeedsCopy(func, n, i) ==
    LET producer == VDOf(func, func[n].args[i])
    IN  /\ func[n].kind = "call" /\ func[n].vd # NoVD /\ producer # NoVD
        /\ ~SameVirtualDevice(producer, func[n].vd)

-----------------------------------------------------------------------------
(* RelayToExecPlanBuilder *)

\* The id of an expression's value; a variable and a let have that of what
\* they stand for.  The copy of argument i of expression n has id <<n, i>>.
ValueOf(func) ==
    LET value[n \in DOMAIN func] ==
            CASE func[n].kind = "var" -> value[func[n].args[1]]
              [] func[n].kind = "let" -> value[func[n].args[3]]
              [] OTHER -> <<n, 0>>
    IN  value

\* Mutant of InputOf: every argument is read through a copy.
InputOfCopy(func, n, i) == <<n, i>>

InputOf(func, n, i) ==
    IF NeedsCopy(func, n, i) THEN <<n, i>> ELSE ValueOf(func)[func[n].args[i]]

Inputs(func, n) == [i \in DOMAIN func[n].args |-> InputOf(func, n, i)]

\* value_virtual_devices_; NoVD stands for "no entry".
ValueVD(func, value) ==
    IF value[2] = 0 THEN VDOf(func, value[1]) ELSE func[value[1]].vd

\* The virtual devices of the inputs that have one.
Defined(vds) ==
    FlattenSeq([i \in DOMAIN vds |-> IF vds[i] = NoVD THEN <<>> ELSE <<vds[i]>>])

InputVDs(func, n) ==
    Defined([i \in DOMAIN func[n].args |-> ValueVD(func, InputOf(func, n, i))])

\* ResolveComputeWorkerSet and WorkerSetFromVirtualDevice: the call's own
\* device, else the first input's, else worker 0; so too if it is not placed.
ComputeWorkers(ctx, func, n) ==
    LET vd == IF func[n].vd # NoVD THEN func[n].vd
              ELSE IF InputVDs(func, n) # <<>> THEN Head(InputVDs(func, n))
              ELSE NoVD
    IN  {IF PlanWorker(ctx, vd) < 0 THEN 0 ELSE PlanWorker(ctx, vd)}

Kernel(ctx, func, n) ==
    [kind |-> "kernel", op_name |-> func[n].kind, kernel_symbol |-> "",
     inputs |-> Inputs(func, n), output |-> <<n, 0>>,
     worker_set |-> ComputeWorkers(ctx, func, n)]

Placed(ctx, vds) == {PlanWorker(ctx, vd) : vd \in vds} \ {None}

\* ResolveCommunicationWorkerSet, with its two fallbacks.
CommWorkers(ctx, op_name, attrs, vd, input_vds) ==
    LET named == CASE op_name = CopyOp -> Placed(ctx, {attrs.src, attrs.dst})
                   [] op_name \in Collectives ->
                        IF HasPlacement(ctx)
                        THEN {w.worker_id : w \in ToSet(ctx.placement.workers)} ELSE {}
                   [] op_name \in PointToPoint -> Placed(ctx, {vd})
        fallback == Placed(ctx, ToSet(input_vds))
    IN  IF named # {} THEN named ELSE IF fallback # {} THEN fallback ELSE {0}

CommExec(ctx, op_name, attrs, vd, inputs, input_vds, output) ==
    [kind |-> "comm", op_name |-> op_name, attrs |-> attrs, inputs |-> inputs,
     output |-> output, worker_set |-> CommWorkers(ctx, op_name, attrs, vd, input_vds)]

\* The device.copy the pass wraps around argument i of call n.
InsertedCopy(ctx, func, n, i) ==
    LET value == ValueOf(func)[func[n].args[i]]
    IN  CommExec(ctx, CopyOp,
                 DeviceCopyAttrs(VDOf(func, func[n].args[i]), func[n].vd, FALSE, TRUE),
                 func[n].vd, <<value>>, Defined(<<ValueVD(func, value)>>), <<n, i>>)

\* A communication call of the function.
Communication(ctx, func, n) ==
    CommExec(ctx, func[n].kind, NormalizedAttrs(func, n), VDOf(func, n),
             Inputs(func, n), InputVDs(func, n), <<n, 0>>)

\* The nodes in the order the builder appends them: post-order, each argument
\* followed by its copy.  A let emits its value, then its body.
Nodes(ctx, func) ==
    LET emit[n \in DOMAIN func] ==
            LET e == func[n]
                argument(i) == emit[e.args[i]] \o
                               IF NeedsCopy(func, n, i)
                               THEN <<InsertedCopy(ctx, func, n, i)>> ELSE <<>>
                arguments == FlattenSeq([i \in DOMAIN e.args |-> argument(i)])
            IN  CASE e.kind \in Leaves -> <<>>
                  [] e.kind = "let" -> emit[e.args[2]] \o emit[e.args[3]]
                  [] e.kind \in CommunicationOps ->
                        arguments \o <<Communication(ctx, func, n)>>
                  [] OTHER -> arguments \o <<Kernel(ctx, func, n)>>
    IN  emit[Len(func)]

\* The ids AllocateValue hands out.
Values(func) ==
    {<<n, 0>> : n \in {m \in DOMAIN func : func[m].kind \notin {"var", "let"}}}
    \cup UNION {{<<n, i>> : i \in {j \in DOMAIN func[n].args : NeedsCopy(func, n, j)}} :
                    n \in DOMAIN func}

\* The ids of the expressions of a kind, in their order.
IdsOf(func, kind) ==
    LET of == SelectSeq([n \in DOMAIN func |-> n], LAMBDA n : func[n].kind = kind)
    IN  [k \in DOMAIN of |-> <<of[k], 0>>]

\* Parameters with a tensor type and constants: their shapes or dtypes.
Captured(func, what) ==
    [v \in {<<n, 0>> : n \in {m \in DOMAIN func : func[m].type # NoObject}} |->
        func[v[1]].type[what]]

\* Build; it throws when it meets an If.
PlanOf(ctx, func) ==
    IF \E n \in DOMAIN func : func[n].kind = "if" THEN NoPlan
    ELSE [nodes                 |-> Nodes(ctx, func),
          value_virtual_devices |-> [v \in {v \in Values(func) : ValueVD(func, v) # NoVD} |->
                                        ValueVD(func, v)],
          input_value_ids       |-> IdsOf(func, "param"),
          constant_value_ids    |-> IdsOf(func, "const"),
          value_shapes          |-> Captured(func, "shape"),
          value_dtypes          |-> Captured(func, "dtype"),
          num_values            |-> Cardinality(Values(func)),
          pass_ctx              |-> ctx,
          output_value          |-> ValueOf(func)[Len(func)]]
=============================================================================
