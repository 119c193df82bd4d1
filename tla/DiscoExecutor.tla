---------------------------- MODULE DiscoExecutor ----------------------------
(***************************************************************************)
(* LowerRelayToExecPlanPass followed by ExecutionPlanExecutor on a         *)
(* session: the PassContext scopes of the calling thread, the placement,   *)
(* the inserted copies, the worker sets of the plan, its way through JSON  *)
(* and the executor's own resolution of workers, put together.  The        *)
(* executor runs no kernels yet: a kernel copies its first input on its    *)
(* workers.  values_ maps a value to its register, here to the register's  *)
(* row.  An exception ends the execution.                                  *)
(***************************************************************************)
EXTENDS CpuCCL, PlanJson

CONSTANTS Functions,    \* the annotated functions to lower
          Ambient,      \* contexts a caller opens scopes for
          MaxScopes,    \* bound: scopes a caller has open
          Slices        \* first dimension of every input

\* Arguments come before their users, the body is last.
ASSUME FunctionsAssumption ==
    \A f \in Functions :
        /\ Len(f) \in Nat \ {0} /\ DOMAIN f = 1 .. Len(f)
        /\ \A n \in DOMAIN f :
              /\ f[n].vd \in VirtualDevices \cup {NoVD}
              /\ f[n].args \in Seq(1 .. n - 1)
              /\ f[n].kind \in Leaves \cup CommunicationOps
                               \cup {"call", "tuple", "get", "let", "if"}
              /\ f[n].kind \in CommunicationOps =>
                    f[n].attrs \in AttrsOf(f[n].kind) \cup {NoObject}

ASSUME TreeAssumption == \A f \in Functions : WellFormed(f)

ASSUME SlicesAssumption == Slices \in Nat \ {0}

ASSUME AmbientAssumption == \A c \in Ambient : c = NoContext \/ WellBuilt(c)

VARIABLES func,         \* the function
          thread,       \* the thread's current PassContext and open scopes
          ctx,          \* the PassContext the function was lowered with
          attrs,        \* the attributes LowerToTIR gave its PrimFunc
          plan,         \* ExecutionPlan
          next,         \* index of the node to execute
          values,       \* values_: rows by value id
          status        \* "lower", "tir", "execute", "run", "done" or "throw"

vars == <<func, thread, ctx, attrs, plan, next, values, status>>

GivenValues == {n \in DOMAIN func : func[n].kind \in {"param", "const"}}

\* The tensor the caller supplies for expression n.
TensorOf(n) == [i \in 1..Slices |-> 10 * n + i]

Init ==
    /\ func \in Functions
    /\ thread = Thread
    /\ ctx = NoContext
    /\ attrs = <<>>
    /\ plan = NoPlan /\ next = 1
    /\ values = [v \in {} |-> Undefined]
    /\ status = "lower"

\* A caller's own scopes, around the lowering or within.
OpenScope(c) ==
    /\ status = "lower" /\ Len(thread.scopes) < MaxScopes
    /\ thread' = Enter(thread, c)
    /\ UNCHANGED <<func, ctx, attrs, plan, next, values, status>>

CloseScope ==
    /\ status \in {"lower", "tir", "execute"} /\ thread.scopes # <<>>
    /\ thread' = Leave(thread)
    /\ UNCHANGED <<func, ctx, attrs, plan, next, values, status>>

\* The current PassContext, whatever function it was made for, goes before the
\* function's own.
InScope(own) == Enter(thread, IF thread.current # NoContext THEN thread.current ELSE own)

\* LowerRelayToExecPlanPass; its scope ends by an exception too.
Lower ==
    /\ status = "lower"
    /\ \E inner \in {InScope(BuildDiscoPlacementPass(func))} :
          /\ ctx' = inner.current
          /\ plan' = PlanOf(inner.current, func)
          /\ thread' = Leave(inner)
    /\ status' = IF plan' = NoPlan THEN "throw" ELSE "execute"
    /\ UNCHANGED <<func, attrs, next, values>>

\* LowerRelayComputeToTIRPass, as far as contexts go; LowerToTIR throws when it
\* meets what has no lowering.
LowerCompute ==
    /\ status = "lower"
    /\ \E inner \in {InScope(FromRelay(func))} :
          /\ thread' = Leave(inner)
          /\ ctx' = inner.current
          /\ IF \E n \in DOMAIN func : func[n].kind \in {"if", "let"} \cup CommunicationOps
             THEN status' = "throw" /\ attrs' = attrs
             ELSE status' = "tir" /\ attrs' = AttachPassContextAttrs(inner.current)
    /\ UNCHANGED <<func, plan, next, values>>

\* SerializeExecutionPlanToJson in the compiler, DeserializeExecutionPlanFromJson
\* where the plan is executed.
ThroughJson ==
    /\ status = "execute"
    /\ plan' = DeserializeExecutionPlanFromJson(SerializeExecutionPlanToJson(plan))
    /\ UNCHANGED <<func, thread, ctx, attrs, next, values, status>>

\* Mutant of ExecWorker: the device id goes before the placement.
ExecWorkerByDevice(p, vd) ==
    IF vd = NoVD THEN 0 ELSE IF DeviceOf(vd) # None THEN DeviceOf(vd) ELSE 0

\* ResolveWorkerForVirtualDevice of the executor: it falls back to the id of
\* the device, where the builder falls back to worker 0.
ExecWorker(p, vd) ==
    IF vd = NoVD THEN 0
    ELSE IF HasPlacement(p.pass_ctx) /\ FindWorker(p.pass_ctx.placement, vd) >= 0
         THEN FindWorker(p.pass_ctx.placement, vd)
    ELSE IF DeviceOf(vd) # None THEN DeviceOf(vd) ELSE 0

\* ResolveWorkerForValue
WorkerOf(p, value) ==
    IF value \in DOMAIN p.value_virtual_devices
    THEN ExecWorker(p, p.value_virtual_devices[value]) ELSE 0

\* The caller's initial values: every input on the worker of its device.
HomeRow(n) == [w \in Workers |->
                 IF w = WorkerOf(plan, <<n, 0>>) THEN TensorOf(n) ELSE Undefined]

\* Execute with the inputs supplied; the registry's kxc.disco.execute_plan
\* supplies none.
ExecuteCall ==
    /\ status = "execute"
    /\ values' = [v \in {<<n, 0>> : n \in GivenValues} |-> HomeRow(v[1])]
    /\ status' = "run"
    /\ UNCHANGED <<func, thread, ctx, attrs, plan, next>>

ExecutePlanEntryPoint ==
    /\ status = "execute"
    /\ values' = [v \in {} |-> Undefined]
    /\ status' = "run"
    /\ UNCHANGED <<func, thread, ctx, attrs, plan, next>>

Node == plan.nodes[next]

Store(value, row) ==
    values' = [v \in DOMAIN values \cup {value} |->
                  IF v = value THEN row ELSE values[v]]

\* The node is over: on to the next, or the exception leaves Execute.
Ends(result) ==
    /\ Store(Node.output, result.row)
    /\ IF result.status = "ok"
       THEN next' = next + 1 /\ status' = status
       ELSE next' = next /\ status' = "throw"
    /\ UNCHANGED <<func, thread, ctx, attrs, plan>>

\* The value a node needs is not there: "... input value is not available"; a
\* communication node needs one.
InputMissing ==
    /\ status = "run" /\ next <= Len(plan.nodes)
    /\ IF Node.inputs = <<>> THEN Node.kind = "comm" ELSE Node.inputs[1] \notin DOMAIN values
    /\ status' = "throw"
    /\ UNCHANGED <<func, thread, ctx, attrs, plan, next, values>>

\* A kernel without inputs makes a scalar on its workers.
ExecuteSource ==
    /\ status = "run" /\ next <= Len(plan.nodes)
    /\ Node.kind = "kernel" /\ Node.inputs = <<>>
    /\ Ends(IF Node.worker_set \subseteq Workers
            THEN Result("ok", [w \in Workers |-> IF w \in Node.worker_set
                                                 THEN <<0>> ELSE Undefined])
            ELSE Result("throw", [w \in Workers |-> Undefined]))

\* Mutant of ExecuteKernel: takes the last input for the first.
ExecuteKernelLast ==
    /\ status = "run" /\ next <= Len(plan.nodes)
    /\ Node.kind = "kernel" /\ Node.inputs # <<>>
    /\ Node.inputs[1] \in DOMAIN values
    /\ Ends(Result("ok", values[Node.inputs[Len(Node.inputs)]]))

\* EnsureValue copies the input wherever it is defined; the kernel's copy on
\* each of its workers then needs it to be defined there.
ExecuteKernel ==
    /\ status = "run" /\ next <= Len(plan.nodes)
    /\ Node.kind = "kernel" /\ Node.inputs # <<>>
    /\ Node.inputs[1] \in DOMAIN values
    /\ LET input == values[Node.inputs[1]]
       IN  Ends(Result(IF /\ Node.worker_set \subseteq Workers
                          /\ \A w \in Node.worker_set : input[w] # Undefined
                       THEN "ok" ELSE "throw", input))

\* Mutant of SourceWorker: the attributes of the copy are not consulted.
SourceWorkerOfValue == WorkerOf(plan, Node.output)

SourceWorker ==
    IF Node.attrs.src # NoVD THEN ExecWorker(plan, Node.attrs.src)
    ELSE WorkerOf(plan, Node.inputs[1])

DestinationWorker ==
    IF Node.attrs.dst # NoVD THEN ExecWorker(plan, Node.attrs.dst)
    ELSE WorkerOf(plan, Node.output)

\* ExecuteComm: EnsureValue first, so dst starts as a copy of src.
ExecuteComm ==
    /\ status = "run" /\ next <= Len(plan.nodes)
    /\ Node.kind = "comm" /\ Node.inputs # <<>>
    /\ Node.inputs[1] \in DOMAIN values
    /\ LET src == values[Node.inputs[1]]
       IN  Ends(CASE Node.op_name = CopyOp ->
                       Copy(src, src, SourceWorker, DestinationWorker)
                  [] Node.op_name = "device.allreduce" -> AllReduce(src, src, Node.attrs.reduce_kind)
                  [] Node.op_name = "device.broadcast_from_worker0" ->
                       BroadcastFromWorker0(src, src, Node.attrs.in_group)
                  [] Node.op_name = "device.scatter_from_worker0" ->
                       ScatterFromWorker0(src, src, Node.attrs.in_group)
                  [] Node.op_name = "device.gather_to_worker0" ->
                       GatherToWorker0(src, src, Node.attrs.in_group)
                  [] Node.op_name = "device.send_to_worker" ->
                       SendToWorker(src, src, Node.attrs.root_worker)
                  [] Node.op_name = "device.recv_from_worker" ->
                       RecvFromWorker(src, src, Node.attrs.root_worker))

\* The end of ExecuteForOutput.
ReturnOutput ==
    /\ status = "run" /\ next > Len(plan.nodes)
    /\ status' = IF plan.output_value \in DOMAIN values THEN "done" ELSE "throw"
    /\ UNCHANGED <<func, thread, ctx, attrs, plan, next, values>>

Over == status \in {"tir", "done", "throw"} /\ UNCHANGED vars

\* Execute, once called, runs to its end; nobody has to lower, save or call.
Step ==
    \/ InputMissing \/ ExecuteSource \/ ExecuteKernel \/ ExecuteComm \/ ReturnOutput

Next ==
    \/ \E c \in Ambient : OpenScope(c)
    \/ CloseScope \/ Lower \/ LowerCompute \/ ThroughJson
    \/ ExecuteCall \/ ExecutePlanEntryPoint \/ Step \/ Over

Spec == Init /\ [][Next]_vars

FairSpec == Spec /\ WF_vars(Step)

-----------------------------------------------------------------------------
(* What the theorems about executions ask of a deployment.  Nothing in the  *)
(* code enforces it; where it does not hold, builder and executor differ.   *)

\* The contexts f may be lowered in: that of an enclosing scope, or its own.
LoweringContexts(f) == (Ambient \ {NoContext}) \cup {BuildDiscoPlacementPass(f)}

\* The virtual devices its plan may name.
NamedVDs(f) ==
    ({f[n].vd : n \in DOMAIN f} \cup {VDOf(f, n) : n \in DOMAIN f}
     \cup {CopyAttrs(f, n).src : n \in {m \in DOMAIN f : f[m].kind = CopyOp}}) \ {NoVD}

\* Whatever context f is lowered in, all of them are placed on workers of the
\* session.
PlacedEverywhere(f) ==
    \A c \in LoweringContexts(f) :
        /\ HasPlacement(c)
        /\ \A vd \in NamedVDs(f) : FindWorker(c.placement, vd) \in Workers

\* A copy knows its two ends.
CopiesHaveEnds(f) ==
    \A n \in DOMAIN f : f[n].kind = CopyOp =>
        CopyAttrs(f, n).src # NoVD /\ CopyAttrs(f, n).dst # NoVD

\* It copies something, from where that is.
CopiesStartAtHome(f) ==
    \A n \in DOMAIN f : f[n].kind = CopyOp =>
        f[n].args # <<>> /\ CopyAttrs(f, n).src = VDOf(f, f[n].args[1])

\* What a kernel reads has a virtual device if and only if the kernel has one.
KernelsAnnotated(f) ==
    \A n \in DOMAIN f : f[n].kind \notin Leaves \cup CommunicationOps \cup {"let"} =>
        \A i \in DOMAIN f[n].args :
            (ValueVD(f, InputOf(f, n, i)) = NoVD) = (f[n].vd = NoVD)

\* A variable and a let have the virtual device of the value they stand for, and
\* virtual devices that are the same for the insertion of copies are so for the
\* placement.
DevicesAgree(f) ==
    /\ \A n \in DOMAIN f : f[n].kind \in {"var", "let"} =>
          f[n].vd = ValueVD(f, ValueOf(f)[n])
    /\ \A a, b \in NamedVDs(f) : SameVirtualDevice(a, b) => a = b

\* A collective that leaves every worker a tensor.
Spreads(f, n) ==
    \/ f[n].kind = "device.allreduce"
    \/ /\ f[n].kind \in {"device.broadcast_from_worker0", "device.scatter_from_worker0"}
       /\ NormalizedAttrs(f, n).in_group => Grouped = Workers

\* One that leaves it to a single worker, placed there in every context.
Delivers(f, n) ==
    /\ f[n].kind \in PointToPoint
    /\ \A c \in LoweringContexts(f) :
          (IF VDOf(f, n) = NoVD THEN 0 ELSE PlanWorker(c, VDOf(f, n)))
             = IF f[n].kind = "device.send_to_worker"
               THEN NormalizedAttrs(f, n).root_worker ELSE 0

\* Any other one is placed where its argument is, or its argument is with every
\* worker; and groups that are gathered have workers.
CollectivesReach(f) ==
    \A n \in DOMAIN f : f[n].kind \in CommunicationOps \ {CopyOp} =>
        /\ f[n].args # <<>> /\ ~Spreads(f, n) /\ ~Delivers(f, n) =>
              LET input == ValueOf(f)[f[n].args[1]]
              IN  ValueVD(f, input) = VDOf(f, n) \/ Spreads(f, input[1])
        /\ f[n].kind = "device.gather_to_worker0" /\ NormalizedAttrs(f, n).in_group
              => WorkersPerGroup > 0

Deployed ==
    \A f \in Functions : /\ PlacedEverywhere(f) /\ CopiesHaveEnds(f) /\ CopiesStartAtHome(f)
                         /\ KernelsAnnotated(f) /\ DevicesAgree(f) /\ CollectivesReach(f)

-----------------------------------------------------------------------------
(* Properties *)

\* The caller of Execute has given it the function's inputs.
Supplied == \A n \in GivenValues : <<n, 0>> \in DOMAIN values

\* A tuple or a projection on another device than what it uses: only the
\* arguments of calls are copied.
CrossesInTuple ==
    \E n \in DOMAIN func : \E i \in DOMAIN func[n].args :
        /\ func[n].kind \in {"tuple", "get"}
        /\ ~SameVirtualDevice(VDOf(func, func[n].args[i]), func[n].vd)

\* When a kernel starts, EVERY input has been brought to each of its workers
\* (the executor itself only touches the first): placement, inserted copies,
\* worker sets and the copies made so far agree.
KernelInputsLocal ==
    (status = "run" /\ next <= Len(plan.nodes) /\ Node.kind = "kernel"
       /\ Supplied /\ ~CrossesInTuple) =>
        \A i \in DOMAIN Node.inputs, w \in Node.worker_set :
            /\ Node.inputs[i] \in DOMAIN values
            /\ values[Node.inputs[i]][w] # Undefined

\* A worker of the placement the plan was made in stands for the device.
InPlacement(vd) ==
    /\ vd # NoVD /\ HasPlacement(plan.pass_ctx)
    /\ FindWorker(plan.pass_ctx.placement, vd) >= 0

\* The builder and the executor resolve virtual devices by different code with
\* different fallbacks.  Only for an end that the plan's placement lacks, or
\* that is not annotated, may a device.copy use a worker its plan node does not
\* name; and two ends that are placed are all the node names.
CopyFollowsPlan ==
    (status = "run" /\ next <= Len(plan.nodes) /\ Node.kind = "comm"
       /\ Node.op_name = CopyOp) =>
        /\ InPlacement(Node.attrs.src) => SourceWorker \in Node.worker_set
        /\ InPlacement(Node.attrs.dst) => DestinationWorker \in Node.worker_set
        /\ InPlacement(Node.attrs.src) /\ InPlacement(Node.attrs.dst) =>
              Node.worker_set = {SourceWorker, DestinationWorker}

\* The plan is in single-assignment form and in dependency order: a node reads
\* only inputs of the function and results of earlier nodes.
DefinedBeforeUse ==
    plan # NoPlan =>
    \A j \in DOMAIN plan.nodes :
        /\ \A k \in DOMAIN plan.nodes : plan.nodes[k].output = plan.nodes[j].output => k = j
        /\ \A i \in DOMAIN plan.nodes[j].inputs :
              \/ plan.nodes[j].inputs[i] \in {<<n, 0>> : n \in GivenValues}
              \/ \E k \in 1 .. j - 1 : plan.nodes[k].output = plan.nodes[j].inputs[i]

\* Whoever opens and closes PassContext::Scopes around a lowering, the lowering
\* works in the context of the innermost one that has one, also if that was
\* closed and reopened, and LowerRelayToExecPlanPass leaves it as it was.
ScopesNest == InForce(thread.scopes, Len(thread.scopes), thread.current)

\* A TIR pass outside of all scopes (TIRPass::Mutate) finds in the attributes
\* of the PrimFunc the context the function was lowered in: its primary
\* device, target, whether it is for several devices, and its whole placement.
ContextReachesTIR ==
    status = "tir" => FromTIR(attrs) = ctx

\* A plan that has been written to JSON and read back is executed like the one
\* RelayToExecPlanBuilder made: the same nodes, inputs, constants and output,
\* and every virtual device, of a value or of a copy, leads to the same worker.
PlanSurvivesJson ==
    status = "execute" =>
        LET built == PlanOf(ctx, func)
        IN  /\ \A f \in DOMAIN built \ {"pass_ctx"} : plan[f] = built[f]
            /\ \A v \in Values(func) : WorkerOf(plan, v) = WorkerOf(built, v)
            /\ \A n \in DOMAIN plan.nodes : "attrs" \in DOMAIN plan.nodes[n] =>
                  \A end \in {"src", "dst"} \cap DOMAIN plan.nodes[n].attrs :
                     ExecWorker(plan, plan.nodes[n].attrs[end])
                       = ExecWorker(built, built.nodes[n].attrs[end])

\* The tensors expressions denote: kernels and copies pass their first input on.
Denotes(f) ==
    LET denotes[n \in DOMAIN f] ==
            IF f[n].kind \in {"param", "const"} THEN TensorOf(n)
            ELSE IF f[n].args = <<>> THEN <<0>>
            ELSE denotes[f[n].args[IF f[n].kind = "let" THEN 3 ELSE 1]]
    IN  denotes

\* The functions whose value collectives have no part in.
NoCollectives(f) == \A n \in DOMAIN f : f[n].kind \notin CommunicationOps \ {CopyOp}

\* A finished execution has left the function's value on the output's worker.
\* A tuple whose fields are elsewhere is not copied together; its execution
\* throws, or the value is right all the same.
OutputAtHome ==
    (status = "done" /\ NoCollectives(func)) =>
        values[plan.output_value][WorkerOf(plan, plan.output_value)]
          = Denotes(func)[Len(func)]

\* A plan whose inputs are supplied is executed to its end: no worker misses a
\* tensor, no worker id is out of range.
PlanCompletes ==
    (status = "run" /\ Supplied /\ ~CrossesInTuple)
    ~> status = "done"
=============================================================================
