---------------------------- MODULE DiscoSession ----------------------------
(***************************************************************************)
(* disco::ThreadedDiscoSession driven through its registry entry points by *)
(* one controller: a file of registers, each a row with a slot per worker, *)
(* and the collectives of CpuCCL on them.  Registers are allocated and     *)
(* never released; SyncWorker and Shutdown change nothing a call observes. *)
(***************************************************************************)
EXTENDS CpuCCL

CONSTANTS Lengths,        \* first dimensions the controller uses
          MaxRegisters,   \* bound: registers allocated
          MaxCalls        \* bound: calls that write registers

ASSUME LengthsAssumption == Lengths \subseteq Nat

VARIABLES register_file,  \* register_file_: a sequence of rows
          ended,          \* how the last call ended
          calls           \* number of writing calls, for the bound

vars == <<register_file, ended, calls>>

\* A tensor of n slices that only worker w can have made.
TensorOf(w, n) == [i \in 1..n |-> 10 * (w + 1) + i]

Registers == DOMAIN register_file

Init == register_file = <<>> /\ ended = "ok" /\ calls = 0

\* AllocateRegister: the rows of all workers grow together.
NewDRef(row) ==
    /\ Len(register_file) < MaxRegisters /\ ended # "trap"
    /\ register_file' = Append(register_file, row)
    /\ ended' = "ok"
    /\ UNCHANGED calls

AllocateRegister == NewDRef([w \in Workers |-> Undefined])

\* Zero-filled tensors on all workers, on worker 0, or on every group's root.
Empty(n, worker0_only, in_group) ==
    LET zeros == [i \in 1..n |-> 0]
        owners == IF ~worker0_only THEN Workers
                  ELSE IF ~in_group THEN {0}
                  ELSE {Root(g) : g \in Groups}
    IN  NewDRef([w \in Workers |-> IF w \in owners THEN zeros ELSE Undefined])

SetRegister(w, r, n) ==
    /\ calls < MaxCalls /\ ended # "trap"
    /\ register_file' = [register_file EXCEPT ![r][w] = TensorOf(w, n)]
    /\ ended' = "ok"
    /\ calls' = calls + 1

\* A collective leaves its result's row in dst.  After a trap there is no
\* process left.
Perform(dst, result) ==
    /\ calls < MaxCalls /\ ended # "trap"
    /\ register_file' = [register_file EXCEPT ![dst] = result.row]
    /\ ended' = result.status
    /\ calls' = calls + 1

CallCopy(src, dst, v, w) ==
    Perform(dst, Copy(register_file[src], register_file[dst], v, w))

CallAllReduce(src, dst, kind) ==
    Perform(dst, AllReduce(register_file[src], register_file[dst], kind))

CallBroadcast(src, dst, in_group) ==
    Perform(dst, BroadcastFromWorker0(register_file[src], register_file[dst],
                                      in_group))

CallScatter(src, dst, in_group) ==
    Perform(dst, ScatterFromWorker0(register_file[src], register_file[dst],
                                    in_group))

CallGather(src, dst, in_group) ==
    Perform(dst, GatherToWorker0(register_file[src], register_file[dst],
                                 in_group))

CallSend(src, dst, w) ==
    Perform(dst, SendToWorker(register_file[src], register_file[dst], w))

CallRecv(src, dst, w) ==
    Perform(dst, RecvFromWorker(register_file[src], register_file[dst], w))

Next ==
    \/ AllocateRegister
    \/ \E n \in Lengths, only0, in_group \in BOOLEAN : Empty(n, only0, in_group)
    \/ \E w \in Workers, r \in Registers, n \in Lengths : SetRegister(w, r, n)
    \/ \E src, dst \in Registers :
          \/ \E v, w \in -1 .. NumWorkers : CallCopy(src, dst, v, w)
          \/ \E kind \in {"sum", "max"} : CallAllReduce(src, dst, kind)
          \/ \E in_group \in BOOLEAN :
                \/ CallBroadcast(src, dst, in_group)
                \/ CallScatter(src, dst, in_group)
                \/ CallGather(src, dst, in_group)
          \/ \E w \in -1 .. NumWorkers : CallSend(src, dst, w) \/ CallRecv(src, dst, w)

Spec == Init /\ [][Next]_vars

-----------------------------------------------------------------------------
(* Properties *)

Blank == [w \in Workers |-> Undefined]

\* The slices found in a set of workers of a row.
Slices(row, S) == UNION {ToSet(row[w]) : w \in {v \in S : row[v] # Undefined}}

\* Gathering undoes scattering, in groups and without them: whatever earlier
\* calls left in a register, the tensor a root shared out is back at the root,
\* with no slice lost, repeated or moved.  In groups this needs the roots'
\* tensors to have the length of worker 0's, which the code does not test.
ScatterGatherRoundTrip ==
    \A r \in Registers, in_group \in BOOLEAN :
        LET src == register_file[r]
            roots == IF in_group THEN {Root(g) : g \in Groups} ELSE {0}
            shared(w) == IF src[w] = Undefined THEN src[0] ELSE src[w]
            scattered == ScatterFromWorker0(src, Blank, in_group)
            gathered == GatherToWorker0(scattered.row, Blank, in_group)
        IN  scattered.status = "ok" =>
               /\ gathered.status = "ok"
               /\ \A w \in roots : Len(shared(w)) = Len(src[0]) =>
                     gathered.row[w] = shared(w)

\* Where every group's root holds its own tensor, no group collective carries
\* a slice from one group into another.
GroupIsolation ==
    \A r \in Registers :
        LET src == register_file[r]
            members(w) == {v \in Grouped : GroupOf(v) = GroupOf(w)}
            stays(result) == \A w \in Grouped :
                                Slices(result.row, {w}) \subseteq Slices(src, members(w))
        IN  (WorkersPerGroup > 0 /\ \A g \in Groups : src[Root(g)] # Undefined) =>
               /\ stays(BroadcastFromWorker0(src, Blank, TRUE))
               /\ stays(ScatterFromWorker0(src, Blank, TRUE))
               /\ stays(GatherToWorker0(src, Blank, TRUE))

\* Copy, send, receive, all-reduce and the collectives over all workers either
\* succeed or change nothing, in place as well: a controller that catches the
\* exception can go on.  The group forms of scatter and gather do not have
\* this property.
ThrowIsClean ==
    \A src, dst \in Registers :
        LET from == register_file[src]
            to == register_file[dst]
            clean(result) == result.status = "throw" => result.row = to
        IN  /\ \A v, w \in -1 .. NumWorkers : clean(Copy(from, to, v, w))
            /\ clean(AllReduce(from, to, "sum"))
            /\ clean(BroadcastFromWorker0(from, to, TRUE))
            /\ clean(ScatterFromWorker0(from, to, FALSE))
            /\ clean(GatherToWorker0(from, to, FALSE))
=============================================================================
