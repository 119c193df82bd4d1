--------------------------- MODULE MCDiscoExecutor ---------------------------
EXTENDS DiscoExecutor

\* VirtualDevice::ForDevice and ForTarget, and one with a memory scope.
ForDevice(d) == VirtualDevice(d, None, "", None)
ForTarget(d) == VirtualDevice(None, d, "", None)
Shared(d) == VirtualDevice(d, d, "shared", 1)

Devices == {ForDevice(5), Shared(5), ForTarget(7)}

\* Parameters and constants have a tensor type, calls get theirs elsewhere.
Expr(kind, args, vd) ==
    [kind |-> kind, args |-> args, vd |-> vd, attrs |-> NoObject,
     type |-> IF kind \in {"param", "const"} THEN [shape |-> <<Slices>>, dtype |-> "float32"]
              ELSE NoObject]

\* f(p, g(q)), h(f(p, c)) and let x = g(p) in f(x, p).
Calls(a, b, c, d) ==
    << Expr("param", <<>>, a), Expr("param", <<>>, b),
       Expr("call", <<2>>, c), Expr("call", <<1, 3>>, d) >>

WithConstant(a, b, c, d) ==
    << Expr("param", <<>>, a), Expr("const", <<>>, b),
       Expr("call", <<1, 2>>, c), Expr("call", <<3>>, d) >>

WithLet(a, b, c) ==
    << Expr("param", <<>>, a), Expr("call", <<1>>, b), Expr("var", <<2>>, b),
       Expr("call", <<3, 1>>, c), Expr("let", <<3, 2, 4>>, c) >>

\* f(device.copy(g(p))) with the attributes given or left to the annotations.
WithCopy(a, b, c, src, dst) ==
    << Expr("param", <<>>, a), Expr("call", <<1>>, a),
       [Expr(CopyOp, <<2>>, b) EXCEPT !.attrs = DeviceCopyAttrs(src, dst, FALSE, TRUE)],
       Expr("call", <<3>>, c) >>

\* A kernel without inputs feeding another one.
Source(a, b) == << Expr("call", <<>>, a), Expr("call", <<1>>, b) >>

Annotated ==
    {Calls(a, b, c, d) : a, b, c, d \in Devices}
    \cup {WithConstant(a, b, c, d) : a, b, c, d \in Devices}
    \cup {WithLet(a, b, c) : a, b, c \in Devices}
    \cup {Source(a, b) : a, b \in Devices}
    \cup UNION {{WithCopy(a, b, c, src, dst) : src \in {NoVD, a}, dst \in {NoVD, b, c}} :
                    a, b, c \in Devices}
    \cup {Calls(NoVD, NoVD, NoVD, NoVD), WithLet(NoVD, NoVD, NoVD)}

\* p on worker 0, broadcast, then a second collective, then a kernel anywhere.
WithCollectives(op, b, c, in_group) ==
    LET home == ForDevice(5)
    IN  << Expr("param", <<>>, home),
           Expr("device.broadcast_from_worker0", <<1>>, home),
           [Expr(op, <<2>>, b) EXCEPT !.attrs = CollectiveAttrs("", "sum", in_group, 0, 1)],
           Expr("call", <<3>>, c) >>

Collected ==
    {WithCollectives(op, b, c, g) :
        op \in Collectives \cup PointToPoint, b, c \in Devices, g \in BOOLEAN}

\* What worker 0 holds sent to worker 1 or shared out, or what worker 1 holds
\* received; the result used on any worker.
Moved(op, from, b, c) ==
    << Expr("param", <<>>, ForDevice(5)), Expr("param", <<>>, ForTarget(7)),
       [Expr(op, <<from>>, b) EXCEPT !.attrs = CollectiveAttrs("", "sum", TRUE, 0, 1)],
       Expr("call", <<3 - from, 3>>, c) >>

Delivered ==
    UNION {{Moved("device.send_to_worker", 1, ForTarget(7), c),
            Moved("device.recv_from_worker", 2, ForDevice(5), c)} : c \in Devices}
    \cup {Moved("device.scatter_from_worker0", 1, b, c) : b, c \in Devices}

\* f(tuple(p, q).0), the tuple and its element on any device.
WithTuple(a, b, c) ==
    << Expr("param", <<>>, a), Expr("param", <<>>, b),
       Expr("tuple", <<1, 2>>, c), Expr("get", <<3>>, c), Expr("call", <<4>>, b) >>

Tuples == {WithTuple(a, b, c) : a, b, c \in Devices}

\* if p then f(p) else q
WithIf(a, b) ==
    << Expr("param", <<>>, a), Expr("param", <<>>, b), Expr("call", <<1>>, b),
       Expr("if", <<1, 3, 2>>, b) >>

Branches == {WithIf(a, b) : a, b \in Devices}

\* A context made for a function that uses all the devices and meets them in
\* another order, and one whose workers are numbered by hand.
Enclosing == BuildFromVirtualDevices(<<ForDevice(5), ForTarget(7), Shared(5)>>)

ByHand ==
    LET worker(id, vd) == WorkerPlacement(id, 0, id, vd.dev, TargetOf(vd), vd)
    IN  WithDiscoPlacement(NoContext,
            [workers |-> <<worker(2, Shared(5)), worker(0, ForDevice(5)), worker(1, ForTarget(7))>>,
             num_groups |-> 1])

Contexts == {NoContext, Enclosing, ByHand}

Lowered == Annotated \cup Collected \cup Delivered \cup Tuples \cup Branches

\* The instance is one of the deployments the theorems are about.
ASSUME InstanceDeployed == Deployed
=============================================================================
