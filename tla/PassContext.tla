----------------------------- MODULE PassContext -----------------------------
(***************************************************************************)
(* Virtual devices (virtual_device.cc), their placement on workers         *)
(* (disco_placement.cc) and the PassContext that carries both through the  *)
(* passes (pass.cc): inferred from an annotated Relay function, made the   *)
(* thread's current one for the length of a Scope, written into the        *)
(* attributes of a PrimFunc and read back from them.                       *)
(*                                                                         *)
(* A function is the sequence of its expressions, arguments before their   *)
(* users, the body last.  Devices are all of one type and a target is the  *)
(* id of its device: BuildTarget takes the rest from the device.           *)
(***************************************************************************)
EXTENDS Integers, Sequences, SequencesExt, FiniteSetsExt

CONSTANTS NoVD,         \* a VirtualDevice that is not defined
          NoPlacement,  \* a DiscoPlacement that is not defined
          NoContext     \* a PassContext that is not defined

\* A device or target that is absent; also kInvalidVirtualDeviceId.
None == -1

\* The constructors: without an id of its own a virtual device has that of its
\* device or target.  A device and a target that differ are refused; here they
\* never do.
VirtualDevice(dev, target, scope, id) ==
    [dev |-> dev, target |-> target, scope |-> scope,
     id |-> IF id # None THEN id ELSE IF dev # None THEN dev ELSE target]

DeviceOf(vd) == IF vd.dev # None THEN vd.dev ELSE vd.target

\* Its target, or the one BuildTarget makes of its device.
TargetOf(vd) == IF vd.target # None THEN vd.target ELSE vd.dev

\* What the constructors make.
VirtualDevices ==
    {vd \in [dev : Int, target : Int, scope : STRING, id : Int] :
        vd = VirtualDevice(vd.dev, vd.target, vd.scope, vd.id)}

-----------------------------------------------------------------------------
(* Placement *)

\* Expressions without a value of their own, or whose value is given.
Leaves == {"param", "const", "var"}

Children(e) == IF e.kind \in Leaves THEN <<>> ELSE e.args

\* CollectRelayVirtualDevices: an expression before what it uses; attributes
\* are not looked into.
CollectFrom(func) ==
    LET collect[n \in DOMAIN func] ==
            (IF func[n].vd = NoVD THEN <<>> ELSE <<func[n].vd>>)
            \o FlattenSeq([i \in DOMAIN Children(func[n]) |->
                             collect[Children(func[n])[i]]])
    IN  FlattenSeq([n \in DOMAIN func |->
                      IF func[n].kind = "param" THEN collect[n] ELSE <<>>])
        \o collect[Len(func)]

WorkerPlacement(worker_id, group_id, local_rank, dev, target, vd) ==
    [worker_id |-> worker_id, group_id |-> group_id, local_rank |-> local_rank,
     dev |-> dev, target |-> target, vd |-> vd]

Placements ==
    [workers : Seq([worker_id : Int, group_id : Int, local_rank : Int,
                    dev : Int, target : Int, vd : VirtualDevices]),
     num_groups : Int]

\* vd_to_worker is a map: virtual devices that are the same have one worker.
OneWorkerEach(placement) ==
    \A i, j \in DOMAIN placement.workers :
        placement.workers[i].vd = placement.workers[j].vd
        => placement.workers[i].worker_id = placement.workers[j].worker_id

\* The virtual devices in order of appearance, each once.  Its identity is all
\* of device, target, scope and id: it is the record itself.
Distinct(vds) ==
    FlattenSeq([i \in DOMAIN vds |-> IF \E j \in 1 .. i - 1 : vds[j] = vds[i]
                                     THEN <<>> ELSE <<vds[i]>>])

\* BuildDiscoPlacement: one worker per identity.
BuildDiscoPlacement(vds, num_groups) ==
    LET distinct == Distinct(vds)
    IN  [workers |-> [k \in DOMAIN distinct |->
                        WorkerPlacement(k - 1, 0, k - 1, distinct[k].dev,
                                        TargetOf(distinct[k]), distinct[k])],
         num_groups |-> IF num_groups > 0 THEN num_groups ELSE 1]

\* The worker of a virtual device, or -1.
FindWorker(placement, vd) ==
    LET k == SelectInSeq(placement.workers, LAMBDA w : w.vd = vd)
    IN  IF vd = NoVD \/ k = 0 THEN -1 ELSE placement.workers[k].worker_id

-----------------------------------------------------------------------------
(* The context *)

PassContexts ==
    [primary : VirtualDevices \cup {NoVD}, target : Int, device : Int,
     multi : BOOLEAN, placement : Placements \cup {NoPlacement}]

ASSUME ContextAssumption ==
    /\ NoVD \notin VirtualDevices
    /\ NoPlacement \notin Placements
    /\ NoContext \notin PassContexts

\* What every context is that BuildFromVirtualDevices made, with its own or
\* another placement, or WithDiscoPlacement without a context to start from.
WellBuilt(ctx) ==
    /\ ctx \in PassContexts
    /\ ctx.placement # NoPlacement => OneWorkerEach(ctx.placement)
    /\ ctx.primary # NoVD => /\ ctx.target = TargetOf(ctx.primary)
                             /\ ctx.device = ctx.primary.dev
                             /\ ctx.placement # NoPlacement

\* A context that is defined and has nothing in it.
Blank == [primary |-> NoVD, target |-> None, device |-> None, multi |-> FALSE,
          placement |-> NoPlacement]

\* The first device is the primary one; a context is for several devices when
\* their ids differ.
BuildFromVirtualDevices(vds) ==
    IF vds = <<>> THEN NoContext
    ELSE [primary   |-> vds[1],
          target    |-> TargetOf(vds[1]),
          device    |-> vds[1].dev,
          multi     |-> Cardinality({DeviceOf(vds[i]) : i \in DOMAIN vds}) > 1,
          placement |-> BuildDiscoPlacement(vds, 1)]

FromRelay(func) == BuildFromVirtualDevices(CollectFrom(func))

WithDiscoPlacement(ctx, placement) ==
    IF ctx = NoContext /\ placement = NoPlacement THEN NoContext
    ELSE [(IF ctx = NoContext THEN Blank ELSE ctx) EXCEPT !.placement = placement]

HasPlacement(ctx) == ctx # NoContext /\ ctx.placement # NoPlacement

\* A function without annotations gets a placement without workers.
BuildDiscoPlacementPass(func) ==
    IF HasPlacement(FromRelay(func)) THEN FromRelay(func)
    ELSE WithDiscoPlacement(FromRelay(func), BuildDiscoPlacement(<<>>, 1))

-----------------------------------------------------------------------------
(* The attributes of a PrimFunc *)

\* Mutant of AttachPassContextAttrs: the placement is taken to follow from the
\* primary device.
AttachPrimaryOnly(ctx) ==
    IF ctx = NoContext THEN <<>>
    ELSE LET given == {a \in {"primary", "target", "device"} :
                          ctx[a] # IF a = "primary" THEN NoVD ELSE None}
         IN  [a \in given \cup {"multi"} |-> ctx[a]]

\* A field that is not set gets no attribute; is_multi_device always has one.
AttachPassContextAttrs(ctx) ==
    IF ctx = NoContext THEN <<>>
    ELSE LET given == {a \in {"primary", "target", "device", "placement"} :
                          ctx[a] # CASE a = "primary" -> NoVD
                                     [] a = "placement" -> NoPlacement
                                     [] OTHER -> None}
         IN  [a \in given \cup {"multi"} |-> ctx[a]]

\* The primary device gives a context, which the other attributes correct.
FromTIR(attrs) ==
    LET base == IF "primary" \in DOMAIN attrs
                THEN BuildFromVirtualDevices(<<attrs["primary"]>>) ELSE Blank
    IN  IF DOMAIN attrs = {} THEN NoContext
        ELSE [a \in DOMAIN base |->
                 IF a \in DOMAIN attrs /\ a # "primary" THEN attrs[a] ELSE base[a]]

-----------------------------------------------------------------------------
(* PassContext::Scope.  thread = [current, scopes]: the thread's context and *)
(* its open scopes, each with the context it was opened for, the one it     *)
(* found, and whether it is active.                                         *)

Thread == [current |-> NoContext, scopes |-> <<>>]

\* A scope for an undefined context changes nothing.
Enter(thread, ctx) ==
    [current |-> IF ctx = NoContext THEN thread.current ELSE ctx,
     scopes  |-> Append(thread.scopes, [ctx |-> ctx, previous |-> thread.current,
                                        active |-> ctx # NoContext])]

\* Mutant of Leave: the destructor clears the context.
LeaveClears(thread) ==
    [current |-> IF Last(thread.scopes).active THEN NoContext ELSE thread.current,
     scopes  |-> Front(thread.scopes)]

Leave(thread) ==
    [current |-> IF Last(thread.scopes).active THEN Last(thread.scopes).previous
                 ELSE thread.current,
     scopes  |-> Front(thread.scopes)]

\* c is the context of the innermost of the first n scopes that has one.
InForce(scopes, n, c) ==
    \/ c = NoContext /\ \A i \in 1..n : scopes[i].ctx = NoContext
    \/ \E i \in 1..n : /\ c # NoContext /\ scopes[i].ctx = c
                       /\ \A j \in i + 1 .. n : scopes[j].ctx = NoContext
=============================================================================
