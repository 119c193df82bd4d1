------------------------------ MODULE PlanJson ------------------------------
(***************************************************************************)
(* The JSON form of an ExecutionPlan (execution_plan.cc).  A JSON text is  *)
(* the value it parses to: objects are records, null is Null; an array     *)
(* whose order the reader does not use is a set.  Text and numbers come    *)
(* back as they were written.                                              *)
(***************************************************************************)
EXTENDS DiscoPlan

CONSTANT Null

\* The JSON objects that may be null where they stand.
DeviceObjs == [device_id : Int]

VDObjs ==
    [virtual_device_id : Int, memory_scope : STRING,
     device : DeviceObjs \cup {Null}, target : DeviceObjs \cup {Null}]

WorkerObjs ==
    [worker_id : Int, group_id : Int, local_rank : Int, device : DeviceObjs \cup {Null},
     target : DeviceObjs \cup {Null}, virtual_device : VDObjs \cup {Null}]

AttrsObjs ==
    [src_virtual_device : VDObjs \cup {Null}, dst_virtual_device : VDObjs \cup {Null},
     async : BOOLEAN, in_group : BOOLEAN]
    \cup [kind : STRING, reduce_kind : STRING, in_group : BOOLEAN, group_id : Int,
          root_worker : Int]

ASSUME JsonAssumption ==
    /\ Null \notin Int /\ Null \notin STRING /\ Null \notin BOOLEAN
    /\ Null \notin DeviceObjs /\ Null \notin VDObjs /\ Null \notin AttrsObjs
    /\ Null \notin [num_groups : Int, workers : Seq(WorkerObjs)]

\* OI, OB and OS: an absent or null field has the default.
Field(j, key, default) ==
    IF key \in DOMAIN j /\ j[key] # Null THEN j[key] ELSE default

\* FF: the field itself; one that is absent is handled like a null.
Lookup(j, key) == Field(j, key, Null)

-----------------------------------------------------------------------------
(* Devices *)

WriteDeviceObj(dev) == IF dev = None THEN Null ELSE [device_id |-> dev]

ParseDeviceObj(j) == IF j = Null THEN None ELSE j.device_id

WriteTargetObj(target) == IF target = None THEN Null ELSE [device_id |-> target]

ParseTargetObj(j) == IF j = Null THEN None ELSE Field(j, "device_id", None)

\* Mutant of WriteVD: the memory scope is left to its default.
WriteVDWithoutScope(vd) ==
    IF vd = NoVD THEN Null
    ELSE [virtual_device_id |-> vd.id, device |-> WriteDeviceObj(vd.dev),
          target |-> WriteTargetObj(vd.target)]

WriteVD(vd) ==
    IF vd = NoVD THEN Null
    ELSE [virtual_device_id |-> vd.id, memory_scope |-> vd.scope,
          device |-> WriteDeviceObj(vd.dev), target |-> WriteTargetObj(vd.target)]

ParseVD(j) ==
    IF j = Null THEN NoVD
    ELSE VirtualDevice(ParseDeviceObj(Lookup(j, "device")), ParseTargetObj(Lookup(j, "target")),
                       Field(j, "memory_scope", ""), Field(j, "virtual_device_id", None))

-----------------------------------------------------------------------------
(* The placement; of the rest of the PassContext nothing is written. *)

WriteWorker(w) ==
    [worker_id |-> w.worker_id, group_id |-> w.group_id, local_rank |-> w.local_rank,
     device |-> WriteDeviceObj(w.dev), target |-> WriteTargetObj(w.target),
     virtual_device |-> WriteVD(w.vd)]

\* The place of worker k in the order of worker ids.
Rank(workers, k) ==
    Cardinality({j \in DOMAIN workers :
                    \/ workers[j].worker_id < workers[k].worker_id
                    \/ workers[j].worker_id = workers[k].worker_id /\ j <= k})

\* std::sort; it may put workers with the same id in another order.
Sorted(workers) ==
    [r \in DOMAIN workers |-> workers[CHOOSE k \in DOMAIN workers : Rank(workers, k) = r]]

WritePlacement(ctx) ==
    IF ~HasPlacement(ctx) THEN Null
    ELSE [num_groups |-> ctx.placement.num_groups,
          workers    |-> [k \in DOMAIN ctx.placement.workers |->
                             WriteWorker(Sorted(ctx.placement.workers)[k])]]

\* A worker without the field for its virtual device gets that of its device.
WorkerVD(j) ==
    LET dev    == ParseDeviceObj(Lookup(j, "device"))
        target == ParseTargetObj(Lookup(j, "target"))
    IN  IF "virtual_device" \in DOMAIN j THEN ParseVD(j.virtual_device)
        ELSE IF dev = None /\ target = None THEN NoVD
        ELSE VirtualDevice(dev, target, "", None)

ParseWorker(j) ==
    WorkerPlacement(j.worker_id, Field(j, "group_id", 0), Field(j, "local_rank", j.worker_id),
                    ParseDeviceObj(Lookup(j, "device")), ParseTargetObj(Lookup(j, "target")),
                    WorkerVD(j))

ParsePlacement(j) ==
    IF j = Null THEN NoPlacement
    ELSE [workers    |-> [k \in DOMAIN j.workers |-> ParseWorker(j.workers[k])],
          num_groups |-> IF Field(j, "num_groups", 1) > 0 THEN Field(j, "num_groups", 1) ELSE 1]

-----------------------------------------------------------------------------
(* Nodes *)

WriteCommAttrs(attrs) ==
    IF "src" \in DOMAIN attrs
    THEN [src_virtual_device |-> WriteVD(attrs.src), dst_virtual_device |-> WriteVD(attrs.dst),
          async |-> attrs.async, in_group |-> attrs.in_group]
    ELSE [kind |-> attrs.kind, reduce_kind |-> attrs.reduce_kind, in_group |-> attrs.in_group,
          group_id |-> attrs.group_id, root_worker |-> attrs.root_worker]

\* Attributes that are null are handled like an object without fields.
ParseCommAttrs(op_name, json) ==
    LET j == IF json = Null THEN <<>> ELSE json
    IN  IF op_name = CopyOp
        THEN DeviceCopyAttrs(ParseVD(Lookup(j, "src_virtual_device")),
                             ParseVD(Lookup(j, "dst_virtual_device")),
                             Field(j, "async", FALSE), Field(j, "in_group", TRUE))
        ELSE CollectiveAttrs(Field(j, "kind", op_name), Field(j, "reduce_kind", "sum"),
                             Field(j, "in_group", TRUE), Field(j, "group_id", 0),
                             Field(j, "root_worker", 0))

WriteNode(node) ==
    IF node.kind = "kernel"
    THEN [kind |-> node.kind, input_values |-> node.inputs,
          output_values |-> <<node.output>>, worker_set |-> node.worker_set,
          op_name |-> node.op_name, kernel_symbol |-> node.kernel_symbol]
    ELSE [kind |-> node.kind, input_values |-> node.inputs,
          output_values |-> <<node.output>>, worker_set |-> node.worker_set,
          op_name |-> node.op_name, attrs |-> WriteCommAttrs(node.attrs)]

ParseNode(j) ==
    IF j.kind = "kernel"
    THEN [kind |-> j.kind, op_name |-> j.op_name, inputs |-> j.input_values,
          output |-> j.output_values[1], worker_set |-> j.worker_set,
          kernel_symbol |-> Field(j, "kernel_symbol", "")]
    ELSE [kind |-> j.kind, op_name |-> j.op_name, inputs |-> j.input_values,
          output |-> j.output_values[1], worker_set |-> j.worker_set,
          attrs |-> ParseCommAttrs(j.op_name, Lookup(j, "attrs"))]

-----------------------------------------------------------------------------
(* The plan *)

SerializeExecutionPlanToJson(plan) ==
    [schema_version        |-> 1,
     num_values            |-> plan.num_values,
     output_value          |-> plan.output_value,
     nodes                 |-> [k \in DOMAIN plan.nodes |-> WriteNode(plan.nodes[k])],
     value_virtual_devices |->
        {[value_id |-> v, virtual_device |-> WriteVD(plan.value_virtual_devices[v])] :
            v \in DOMAIN plan.value_virtual_devices},
     input_value_ids       |-> plan.input_value_ids,
     constant_value_ids    |-> plan.constant_value_ids,
     value_info            |->
        {[value_id |-> v,
          shape    |-> IF v \in DOMAIN plan.value_shapes THEN plan.value_shapes[v] ELSE <<>>,
          dtype    |-> IF v \in DOMAIN plan.value_dtypes THEN plan.value_dtypes[v] ELSE ""] :
            v \in DOMAIN plan.value_shapes \cup DOMAIN plan.value_dtypes},
     disco_placement       |-> WritePlacement(plan.pass_ctx)]

\* A map read from the items of an array, whose ids are all different.
MapOf(items, field) ==
    [v \in {item.value_id : item \in items} |->
        (CHOOSE item \in items : item.value_id = v)[field]]

\* A virtual device that is null gets no entry.
ParseVDs(items) ==
    LET texts == MapOf({item \in items : item.virtual_device # Null}, "virtual_device")
    IN  [v \in DOMAIN texts |-> ParseVD(texts[v])]

DeserializeExecutionPlanFromJson(root) ==
    IF root.schema_version # 1 THEN NoPlan
    ELSE [nodes                 |-> [k \in DOMAIN root.nodes |-> ParseNode(root.nodes[k])],
          value_virtual_devices |-> ParseVDs(root.value_virtual_devices),
          input_value_ids       |-> root.input_value_ids,
          constant_value_ids    |-> root.constant_value_ids,
          value_shapes          |-> MapOf(root.value_info, "shape"),
          value_dtypes          |-> MapOf(root.value_info, "dtype"),
          num_values            |-> root.num_values,
          pass_ctx              |-> WithDiscoPlacement(NoContext,
                                                       ParsePlacement(root.disco_placement)),
          output_value          |-> root.output_value]
=============================================================================
