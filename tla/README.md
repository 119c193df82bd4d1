# A TLA+ verification of the KXC compiler and its runtime

KXC compiles ONNX models through Relay and TIR to native kernels, runs them
adaptively (run first, compile for the hot shapes in the background) and places
annotated Relay functions on several workers.  This directory holds TLA+ models
of the parts of it where order, interleaving and failure matter and of the
compilation itself from the ONNX graph to the kernel and the C source, the TLC
configurations that check them on small instances, and TLAPS proofs that hold
for every number of threads, clients, tasks and workers, every nesting of scopes
and tensors of every length.

`PROJECT.json` lists the components, the runs, the source lines behind every
definition (`map`), the hazards the properties are aimed at, the disagreements
between code and text that were met (`findings`) and the theorems.

    tlc -workers 2 -config RuntimeSession.cfg MCRuntimeSession    # one run
    tlapm RuntimeSessionProofs.tla                                # one module's proofs

## 1. Inventory

Paths are those of the repository (`src/` its C++ sources, `include/` its
headers).

| Component | State it keeps | Operations | Interacts with |
|---|---|---|---|
| BackgroundCompiler (`runtime/background_compiler`) | priority queue, `active_tasks_`, `completed_count_`, `shutdown_`, one mutex, two condition variables, worker threads | Submit, WaitAll, WorkerLoop, destructor | runs `Compiler::Compile` and the task's `on_complete` on its threads |
| RuntimeSession (`runtime/runtime_session`) | cache, predictor, `submitted_shapes_`, background compiler | Run, WarmUp, WaitAll, GetStatus, destructor, the completion callback | all of the runtime, from any number of client threads |
| KernelCache (`runtime/kernel_cache`) | map from shape signature to module | GetExact, GetFuzzy, Put, Has, Clear | hands out pointers into the map |
| ShapePredictor (`runtime/shape_predictor`) | frequencies, window of recent shapes, total | Record, ShouldCompile, GetCount, PredictTopK | asked by RuntimeSession |
| Disco session (`base/disco`) | register file: one slot per worker and register | AllocateRegister, NewDRef, Empty, Get, Set, SyncWorker | driven by a controller through registry functions |
| CPU collectives (`base/disco/ccl_cpu.cc`) | none of their own | Copy, AllReduce, Broadcast, Scatter, Gather, Send, Recv, with and without groups | read and write registers worker by worker |
| Placement and communication passes (`base/disco_placement.cc`, `relay/transforms/multi_device.cc`, `base/pass.cc`) | PassContext (placement, default device), value ids, nodes | BuildDiscoPlacement, InsertDeviceCommunication, LowerRelayToExecPlan | plan handed to the executor |
| Plan executor (`base/disco/executor.cc`) | values by id | Execute, ExecuteKernel, ExecuteComm, ExecuteForOutput | session, collectives, placement |
| ExecutionPlan (`base/execution_plan.cc`) | nodes; JSON form | builders, validation, ToJSON and FromJSON | passes, executor |
| Object, ObjectRef, Arena (`include/base/object.h`, `arena.h`) | reference counts, type index, thread-local current arena | retain, release, move, downcast, arena scopes | every IR class |
| Profiling (`base/profiling.cc`) | thread-local context, run and span stack; buffered events | ActivationScope, ScopedSpan, Flush, sinks | opened by the compiler, the runtime and the background threads |
| Pass infrastructure (`base/pass.cc`) | the thread's current PassContext, registered passes | FromRelay, FromTIR, AttachPassContextAttrs, Scope, traversals | all pipelines |
| Device API, NDArray (`base/device_api.cc`, `base/device`) | table of device APIs, allocations, streams | Get, Alloc, Free, Copy, Sync | NDArray, profiling |
| Type inference (`relay/type_infer.cc`, `transforms/infer_type.cc`) | types of expressions | type rules, broadcasting | lowering, which trusts the types |
| Relay passes (`relay/transforms`, `relay/pass_utils.cc`) | the function; a table of common subexpressions | ten passes, run in any order by name | Compiler::Compile, registry |
| Operators and lowering (`relay/op`, `relay/backend/lower.cc`, `te/`, `include/te/topi`) | TE tensors by node, buffers | one FRelayToTE function per operator, LowerToTIR | Compiler::Compile |
| TIR passes (`tir/transforms`, `tir/pass_utils.cc`) | the PrimFunc | eight passes, run in any order by name | Compiler::Compile, registry |
| Code generation (`codegen/`) | variables and buffers of a function | one method per node kind | the kernel, called with packed buffers |
| Compiler (`api/compiler.cc`) | none | Compile in three modes | all of the above |
| ONNX importer (`python/kxc_onnx`, `frontend/onnx_importer.cc`) | two files, a JSON text and the bytes of the parameters | import_onnx_model, save_imported_model, LoadONNXImportSpec | Python writes, C++ reads; the result goes to the compiler |
| Python agent and tools (`python/kxc_agent`) | an index of analysed bundles | load, analyse, report | reads profiling bundles after the run |

What is hard here, and what should hold:

* **Background compiler.**  `active_tasks_`, `completed_count_` and `shutdown_`
  change without the mutex while waiters test them under it; compilations
  throw; the destructor runs with tasks queued.  Every task is executed
  once, most urgent first; WaitAll returns only when all are over, and then it
  does return; the destructor drains the queue and comes back.
* **Runtime session.**  Run is a chain of short critical sections of different
  components with a compilation or a kernel in between; pointers outlive
  the lock they were obtained under; a claim on a shape outlives the failure of
  its compilation; shapes are claimed by hash.  One hash gives one
  task, no claim is without a task, the pointer in use stays valid, a kernel
  serves the input it is run on, callbacks never find the session gone.
* **Disco.**  Collectives write slot by slot and throw in the middle; groups may
  leave workers over; the pass that places devices, the pass that inserts
  copies, the plan builder and the executor each resolve a virtual device by
  code of their own; the context they work in is the innermost of nested scopes,
  travels in the attributes of a PrimFunc and, as part of a plan, through JSON.
  Gather undoes scatter, groups do not leak, an
  exception leaves registers as they were, every kernel finds every input on its
  worker, plans run to their end, and neither scopes, attributes nor JSON change
  what they carry.
* **Profiling.**  The span stack is thread-local and is saved and restored by
  nested activations; a background task continues the run of its submitter on a
  thread with a stack of its own; recording an instant takes the mutex twice;
  flushes come at any time and the last one must see everything.  Parents
  lie in the same run, outcomes follow submissions, the final bundle has every
  event once.
* **ObjectRef.**  Counts are atomic, the pointers in handles are not, and type
  inference writes into nodes that several compilations share, without a lock.
  The count is the number of references, nothing is used after its deletion and
  nothing leaks, until two compilations meet in one such field.

* **Compilation.**  Two sets of rules say what shape a call has, the type rules
  and the topi functions; passes meet what other passes produced, in any order;
  indices, extents and constants change width on the way; a pass that compares
  expressions compares their text.  The shapes agree, and the kernel computes
  what the Relay function means, whatever passes ran.  The C source that is
  printed of the same TIR has C's scopes, types and conversions, and names
  instead of variables; it computes the same.
* **ONNX import.**  Two programs in two languages agree on byte offsets, element
  sizes, defaults and names through two files.  The function that is loaded means
  what the graph means, and no supported graph is refused.

The full list of hazards, each at its line, is in `PROJECT.json`.

## 2. Modules

| Module | Models | State and actions |
|---|---|---|
| `CompileQueue` | the promise of the background compiler (abstract) | `pending`, `executing`, `outcome`, `waiting`; Submit, Start, Finish, WaitCall, WaitReturn |
| `BackgroundCompiler` | the class, thread by thread | the members by their names; one control point per worker, client and for the destructor. Each unlocked atomic update is a step of its own, and evaluating a wait predicate and blocking are two steps |
| `BackgroundCompilerProofs`, `RuntimeSessionProofs`, `CpuCCLProofs`, `DiscoSessionProofs`, `DiscoExecutorProofs`, `ProfilingProofs`, `ObjectRefProofs` | | the theorems of section 5, and their lemmas, about the module of that name; those about KernelCache are with the session's, those about the collectives serve both the session and the executor |
| `SetInduction` | | induction over the natural numbers, and what it gives about recursive functions, sums over finite sets and `FlattenSeq`; used by the proofs |
| `KernelCache`, `ShapePredictor` | the two classes | operators and actions used by RuntimeSession, one per method (each method is one critical section) |
| `RuntimeSession` | the session on top of them | `frame` holds every client's control point and local variables; the background compiler appears as an instance of `CompileQueue` |
| `CpuCCL` | the collectives | operators from the source and destination rows to the row left behind and how the call ended: `ok`, `throw`, `trap` |
| `DiscoSession` | register file and registry entry points | one action per entry point |
| `PassContext` | virtual devices, DiscoPlacement, PassContext | how a context is built from a function, attached to a PrimFunc and read back; the thread's current context and its stack of scopes |
| `DiscoPlan` | copy insertion, plan building | operators on annotated functions, tuples and projections included |
| `PlanJson` | the writer and the reader of a plan's JSON form | one `Write...` and one `Parse...` operator per function, null and absent fields with the reader's defaults |
| `DiscoExecutor` | scopes, lowering, JSON, execution | OpenScope, CloseScope, Lower, LowerCompute (the way to a PrimFunc), ThroughJson, Execute with and without inputs, one action per kind of node |
| `Profiling` | ProfileContext, ActivationScope, ScopedSpan and their use by CompiledModule, RuntimeSession and WorkerLoop | `tls` (run id and span stack per thread), `scopes` (the C++ scopes open on a thread, innermost last), the counters, `events`, the `bundle` on disk; one action per constructor, destructor and critical section |
| `ObjectRef` | Object's counter, handles, SetCheckedType | `refcount`, `handles`, the shared field `checked_type_`; loading a pointer, the atomic update, the deletion and the store are separate steps; `overlapped` is a history variable, read by properties only |
| `Tir` | TIR nodes, and the code CodeGenLLVM generates for them | operators: one constructor per node, one `Gen...` operator per method of the generator, run on a machine of variables and typed buffers that records whether something undefined was executed |
| `TirPasses` | the eight TIR passes | a traversal (TIRPass) and what each pass makes of a rebuilt node |
| `RelayTypes` | Relay nodes and the type rules | one operator per FInferType function, `InferType` over a function |
| `RelayPasses` | the ten Relay passes | as TirPasses, on a function given by the sequence of its nodes |
| `Lowering` | the FRelayToTE functions, topi, TE and LowerToTIR | tensors by name, the loop nests made of them |
| `RelayEval` | what Relay operators mean (reference, not from the code) | multi-dimensional arrays as functions from index tuples |
| `OnnxImport` | both halves of the ONNX importer | operators by the names of the Python and C++ functions, the JSON value and the bytes between them; what ONNX operators mean is marked external |
| `CodeGenC` | the C source of a PrimFunc | whether it compiles (declarations per block, functions of `<math.h>`), and what it computes, on scalars and arrays by name |
| `CompilePipeline` | import and Compiler::Compile | `graph`, `files`, `relay`, `func`, `stage`, the passes still to come; ImportGraph, LoadSpec, InferTypePass, RunRelayPass, LowerRelay, RunTirPass |
| `MC*` | instances for TLC | values for the constants |

Composition: `RuntimeSession` uses only `CompileQueue`, and
`BackgroundCompiler` is shown to implement `CompileQueue` (checked by TLC as
`ImplementsQueue`, proved as theorem `Refinement`).  So what is checked of the
session over one step per compilation holds over the real threads, for safety;
for liveness the session assumes `EveryTaskExecuted`, which is checked of the
detailed model.  `DiscoExecutor` composes `PassContext`, `DiscoPlan` and
`PlanJson` with `CpuCCL`.  `CompilePipeline` composes the import, type
inference, the Relay passes, lowering, the TIR passes and the two code
generators; `RelayEval`, and `OnnxMeaning` on top of it, are the abstract side
they are compared with.  `meant` is a history variable: what the function given
to Compile means, evaluated once.

Abstractions.

* A `CompileTask` is its priority, and in the session its shape as well; a compiled
  module is the shape it was lowered for.  Two submissions are told apart as
  elements of `Tasks`.
* A shape signature is a sequence of shapes, a shape a sequence of dimensions:
  the distances of GetFuzzy are computed as the code computes them.  The hash is
  a constant function; `MCHash` uses a real collision of
  `ShapeSignature::Hash`, `{{3,87}}` and `{{14,87}}`.
* A tensor is the sequence of its slices along the first dimension; one element
  type.  An annotated function is a sequence of expressions in dependency order.
* A virtual device is its device, target, memory scope and id; a device and a
  target are their device id, the only field that differs between the ones in use.
* JSON text is the value it parses to; escapes and the digits of numbers are left
  out.  The bytes of a parameter are its elements, each repeated for its element
  size with the number of the byte, so that a wrong offset or size is visible.
* In `CodeGenC` a name is its base, number and suffixes; parameters are taken to
  have names of their own, as the importer's and the tests' do.
* Numbers in the compile pipeline: int32 and int64 are scaled to 5 and 8 bits
  and wrap; f32 values are integers without rounding, and what would not be an
  integer (a quotient, a root) is undefined, so the programs avoid it.  Division by zero, an index
  outside a buffer, a read of a cell nobody wrote and a float that does not fit
  its integer are undefined, and a kernel that meets one is wrong.
* A Relay function is the sequence of its nodes, so that sharing is visible;
  attributes are records with the fields that are set; variables have distinct
  names.  Devices, spans and the text of dumps are left out.
* Profiling appears in `Profiling` only: no state of the other modules depends on
  it.  There an id is its number, an event its kind, ids and task; NVTX and CUPTI
  adapters, artifacts and diagnostics are left out.
* In `ObjectRef` the field `checked_type_` of one node stands for all, and the
  memo table and the locals of one inference for one handle.

## 3. Runs

Passing runs:

| Run | Instance | What it shows |
|---|---|---|
| `background_compiler` | 2 workers, 2 clients, 3 tasks, two of equal priority | under `FairSpec`: the inductive invariant, ShutdownDrains, WaitAllComplete, the refinement of CompileQueue, every task executed, the destructor returning unless it falls into the window described below |
| `runtime_session` | 2 clients, 3 nested batch sizes, 4 calls of Run, a hash collision | the inductive invariant of section 5, in which the properties of claims, tasks, cache and destruction are conjuncts; what WaitAll and a fuzzy lookup find |
| `runtime_session_live` | 2 clients, 2 shapes with equal hashes, 3 calls of Run | a hot shape gets the task of its hash executed |
| `disco_session` | 5 workers in 2 groups (one left over), 2 registers, tensors of 4 and 5 slices, 2 writing calls | round trip, isolation, clean exceptions |
| `disco_executor` | 3 workers, every annotation of small functions with three virtual devices (one named through a Target, two on one device with different memory scopes), with tuples, an If and every collective, lowered on their own and inside nested scopes of no context, one made for another function and one numbered by hand; to a plan, which may go through JSON, or to a PrimFunc | scopes nest, the context reaches the PrimFunc, the plan survives JSON, is in order, its copies run between the workers it names, inputs of kernels are local; it runs to its end and leaves the right value at its home, and a plan with a tuple across devices does so or throws |
| `profiling` | 2 clients (symmetric), 1 background thread, 1 task, 2 client runs, 3 ids before the optional events stop, 4 scopes deep | the stack matches the open scopes, parents lie in the run, outcomes follow submissions in every bundle, WaitAll's bundle has the outcomes, the final bundle has everything |
| `compile_pipeline` | 18 functions: broadcasting, folding that enables simplification, shared nodes, constants, matmul, dense, gemm with scales, conv2d with stride, padding and bias, pools, flatten, reshapes, means, casts, integers that wrap, tuples, lets, an ill-typed call; 8 ONNX graphs: a residual block with all seven operators, two outputs, and six to be refused; AOT, JIT and every list of 3 Relay and 5 TIR passes | the loaded function means what the graph means; the function keeps its type and meaning through every Relay pass, the output buffers have the inferred shapes, the kernel computes the meaning and touches its buffers only, and so does the C source where it compiles |
| `object_ref` | 3 threads and the session, 2 of the threads inferring types, 3 type objects | in every schedule, until two threads are inside `checked_type_` at once with one of them replacing it: counts are exact at every instruction, no use after deletion, no leak |

Why these bounds are enough for the cases at stake.  Two workers and two
clients give every pair of threads that can race on `mu_`, a notification and a
counter; a third task keeps the queue non-empty while both workers are busy.
Three nested shapes are the fewest with a nearer and a farther fuzzy candidate;
four calls of Run let two clients reach the threshold of two for different shapes;
`MaxRecent = 1` (200 in the code) makes the window overflow.  Five workers
in two groups is the smallest session with a group of more than one worker, a
second root and a worker outside the groups; one of the lengths 4 and 5
divides each number of receivers and the other does not.  Functions with
up to five expressions contain a tuple, a join of two devices, a constant, a let, a source and
an explicit copy; three devices are the fewest for which order of
appearance and order of an enclosing placement differ in a way that matters.
Four scopes are a call inside a call; three ids, and those the mandatory steps
add, let a task be submitted from a nested span, executed, recorded and waited
for while the other client flushes.  Three types let the field be replaced twice.
In the compile pipeline every operator with a lowering except softmax occurs,
every Relay pass that rewrites has a function it rewrites, loops have extents
below, at and above the partition factor 4 and the unroll limit 8; three Relay
passes are enough for folding, simplification and a pass over the result, five
TIR passes for partition, unrolling, narrowing and folding what they leave.
`MaxRuns`, `MaxRegisters`, `MaxCalls` and `MaxSpans` only make the state space
finite.  `DiscoSession.cfg` says CHECK_DEADLOCK FALSE because a controller may
stop calling, `ObjectRef.cfg` and `ObjectRefRace.cfg` because the last handle may be gone,
`CompilePipeline.cfg` because a compilation ends; every other
model has an explicit final step.

Runs that TLC refutes, each against a sentence of the repository:

| Run | Text | What happens |
|---|---|---|
| `wait_all_lost_wakeup` | background_compiler.h:48, WaitAll waits until all tasks are finished | the decrement and the notification both fall between the waiter's test and its blocking; it sleeps on an idle compiler |
| `hot_swap` | compile_config.h:25, hot swap | `Put` assigns over the module another call of Run executes through its pointer |
| `object_race` | docs/SUMMARY.md:202, reference counts are thread-safe | a miss and a background task compile one function: while one copies a type out of `checked_type_`, `SetCheckedType` of the other releases and deletes it |
| `reduce_axis` | relay/op/tensor/reduce.cc:102, reduce_mean computes the mean across given dimensions | with keepdims the axes after a reduced one are indexed by the wrong output axis, and every output is the mean of the first column |

Further observations, of which no run is made:

* The destructor of BackgroundCompiler sets `shutdown_` and notifies without the
  mutex.  A worker that has found nothing to do and has not blocked yet sleeps
  through it, and `join()` waits for ever.  `DestructorReturns` states
  exactly this: outside that window the destructor returns.
* `PendingCount` counts queued tasks only; background_compiler.h:51 speaks of
  queued and running ones.
* A shape that is only ever hit exactly is never scheduled, since only a fuzzy hit and a
  miss reach MaybeScheduleOptimization; a comment in
  test/codegen_llvm_test.cpp:377 expects repeated calls to schedule it.
* A claim does not look at the cache, and is not withdrawn when the compilation
  fails.  Two shapes of equal hash share one claim.
* WarmUp, a miss and the background task compile the function for the shapes it
  declares and store the module under the caller's; compiler.h:73 says that WarmUp
  compiles for the given shape.  An input larger than the declared shape then runs a
  kernel that was not lowered for it: `RuntimeSession` with
  `DeclaredShape <- Small` and `Shapes <- MCTwo` violates `KernelFitsInput`.
* A tuple whose fields live on another device reads them without a copy;
  docs/MULTI_DEVICE_COMM_IR_PLAN.md:13 and 43 want communication explicit.  The
  execution then throws, or the value is right because the executor looks at the
  first field only (`OutputAtHome`; `PlanCompletes` excludes these functions).
* A lowering takes the thread's current context even if its placement lacks some of
  the function's devices.  The builder then falls back to the other worker or to
  worker 0 and the executor to the number of the device, so that copies run between
  other workers than the plan names, or throw.  The contexts of the run place every
  device; with one that does not, `KernelInputsLocal` fails.  `CopyFollowsPlan` says
  that such a device, or one that is not annotated, is the only reason for a copy to
  use a worker its node does not name, and is proved of any contexts.
* A PassContext keeps the primary device and the placement, not the list of virtual
  devices it was built from.  The JSON form of a plan keeps its placement only, drops
  the PrimFunc of a kernel, and is written without a check for errors of the stream.
* The maps of device APIs and of devices are changed without a lock
  (DeviceAPIManager, DeviceManager).
* A device named through `Device` in one annotation and through `Target` in
  another gets two workers, while the copy-inserting pass takes the two for one
  device and inserts no copy.
* The bundle written after WaitAll may lack the span of the last background
  task, which closes after `active_tasks_--`; and a call's own span is never in
  the bundle that call writes, since Flush comes before the span's destructor.
* DecRef decrements with memory_order_relaxed and fences with acquire only when it
  reaches zero; the release half is missing.  The model's memory is sequentially
  consistent, so this is not visible in it.
* AllReduce on the CPU ignores `in_group` and sums over all workers.
* eliminate_common_subexpr compares printed text, which has no constant data and
  no attributes: `let a = x * 2 in let b = x * 3 in a + b` becomes `a + a`.  A let
  cannot be lowered, so no kernel is affected yet.
* The topi functions and the type rules differ for conv2d with four paddings
  (the first two serve both sides), with groups, channels or a stride of one
  value, for dense with units and for pools with dilation;
  docs/ISSUE_2_RELAY_OP_NAME_CANONICALIZATION.md:296 demands that they agree.  A
  broadcast against a tensor whose shape is still an expression (the output of
  conv2d or a pool) takes the first operand's dimension, whatever the second's.
* `x + 0` simplifies to the parameter `x` itself, and LowerToTIR rejects a
  function whose body is a parameter.
* A constant of one element and higher rank counts as a scalar for fold_constant and
  simplify_expr (IsScalarShape in relay/pass_utils.cc).  Folding two of them gives a
  constant of rank 0, and `x + c` with c a zero of shape [1, 1] becomes `x`: where the
  rank of the result came from the constant, the pass changes the function's type.
  The scalar constants of the run have rank 0.
* Integer max pools start from constants that int32 cannot hold (lower.cc:85,
  -1e30 in nn.h) and come out wrong; tensors of more than 2^31 elements overflow
  after fold_constant or loop_partition made an extent an int32.
* The idempotence test of test/pass_pipeline_test.cpp:602 depends on its
  extent: partitioning again splits what 48 iterations leave.
* The C source of most tensor programs does not compile: temporaries have the
  hint of their operator, so that two of one operator are declared twice in a
  block; unroll_loop leaves several lets of one variable in one sequence, which
  C does not scope; `cast(` is no C function.  Of the 1,905 kernels of the run 746
  compile, and `CSourceAgrees` is about these.  The math functions it renames
  (`tir.sqrt`) are not the names the operators use, and a signed overflow, which
  LLVM wraps, is undefined in C.  compiler.cc:125 calls the backend not fully
  implemented, so no run is made of this.
* docs/ONNX_IMPORTER.md says that tensors of unsupported element types are refused.
  The types of initializers are never looked at: uint32 is read as float32, and
  float16 is caught by its size only.  `auto_pad` is ignored, Gemm without C is
  refused by type inference, and the graphs of the run avoid asymmetric pads, groups,
  dilated pools and transA, where topi differs (above).
* save_imported_model writes the parameters before the JSON text: an interrupted
  second export leaves an old description of new bytes.
* The group forms of scatter and gather may throw after they have written some
  workers' slots; a session with more groups than workers divides by
  zero in scatter.

## 4. Fairness

`BackgroundCompiler!FairSpec`: weak fairness of every thread that is running
(the operating system schedules runnable threads, and no step of WorkerLoop
waits for anything but the mutex), strong fairness of acquiring `mu_` (held for
finitely many steps, and the pthread mutexes beneath std::mutex do not starve a
thread for ever), none for spurious wake-ups, calls of Submit and WaitAll, or
the start of the destructor.  A compilation is assumed to end, by returning or
by throwing.

`RuntimeSession!FairSpec`: weak fairness of a client inside Run and of the
background compiler starting and finishing tasks, which is what
`EveryTaskExecuted` gives.  Nobody has to call anything.

`DiscoExecutor!FairSpec`: the executor is one thread; weak fairness of its next
step.

## 5. Proofs

Eight modules hold theorems; none takes anything on trust beyond the named
assumptions on constants, each of which TLC evaluates on the instances.

### Background compiler

For every finite non-empty set of workers, every set of clients and tasks and
every priority function (`PoolAssumption`):

| Theorem | Statement |
|---|---|
| `Invariance` | `Spec => []Inductive` |
| `AccountingHolds` | types, and `active_tasks_` = queued tasks + tasks taken and not given up |
| `ConservationHolds` | a submitted task is queued, with exactly one worker, or over |
| `ShutdownDrainsHolds` | after `join()` every submitted task has been executed |
| `WaitAllCompleteHolds` | WaitAll returns only when every submitted task is over and every success counted |
| `Refinement` | the class implements `CompileQueue` |

The argument.  WaitAll tests a counter and the queue, so that it is right needs
`Accounting`; `Accounting` alone is not inductive, since the decrement of a
worker says nothing unless that worker is known to hold a task.  `Inductive` is therefore
the conjunction of the types, "a worker in flight has a task", `Accounting`
(over the control points from pop to the decrement, the exception path
included), `Conservation` (where each task is), `SuccessesCounted` (the
counter lags behind the outcomes by the workers between callback and count)
and `LeavesDrained` (a thread leaves only on an empty queue after shutdown, when
no client can submit any more).  Each disturbing action has a lemma
(`SubmitInductive`, `PopInductive`, `OutcomeInductive`, `CountInductive`,
`DecInductive`); the others leave all five quantities alone and share
`QuietStep`.  `Refinement` maps `pending` to the queue, `executing` to the tasks
of the workers between pop and outcome, `waiting` to the clients inside WaitAll;
the step to prove with care is the return of WaitAll, which needs
`NothingOutstandingMeansIdle`.

### Runtime session and kernel cache

For every set of clients, every set of shapes (signatures of any rank
and any dimensions), every hash function, any bound on the number of calls and
any length of the predictor's window (`SessionAssumption`):

| Theorem | Statement |
|---|---|
| `SessionInvariance` | `Spec => []Inductive` |
| `OneTaskPerHashHolds` | two tasks never have shapes of one hash |
| `NoClaimLostHolds` | a claimed hash has its task, or the client that claimed it is about to submit it |
| `TaskJustifiedHolds` | every task's shape was counted twice or more, and its priority is at most its count |
| `KernelPointerValidHolds` | the slot a call of Run runs through its pointer is in the cache |
| `SlotCoversInputHolds` | that slot is at least as large as the input in every dimension |
| `CallbackTargetAliveHolds` | once the session is destroyed no task is left that could call back |
| `WaitAllSettlesHolds` | when WaitAll returns every claimed hash's task is over, save one another client has claimed and not submitted |
| `FuzzyNearestHolds` | no other slot that covers the input lies below the one a fuzzy lookup picks |
| `GetFuzzyMinimal` | of the slots that cover a query, one of least `ShapeDistance` has no other covering slot below it in every dimension |

`Inductive` adds to the properties themselves `CountsCurrent` (the count a client
carries from Record to ShouldCompile to its claim is at most the current one: it
was read under a lock that has been released since, and `TaskJustified` rests on
it) and `QuietWhenDestroyed` (the destructor starts only when no client is inside,
and ends when the queue has drained).  Each action of a client is shown to keep
`FrameHolds` of its own frame and not to disturb the others': `freq` only grows,
`DOMAIN cache` only grows.  `FuzzyNearest` needs that `ShapeDistance`, a sum over the
dimensions, grows strictly with the slot.  The sum is the community modules'
fold over a set; `SetInduction` proves that a function with the fold's recursion
exists (`SumExists`) and is monotone (`SumMonotone`).

### Disco session and collectives

For every number of workers and groups, also where the groups do not divide the
workers or outnumber them, and tensors of any length over the integers
(`SessionSize`, `UndefinedAssumption`: an empty slot is no tensor,
`LengthsAssumption`):

| Theorem | Statement |
|---|---|
| `RowsTypedHolds` | registers hold tensors and empty slots only, also after a call that threw half way |
| `ThrowIsCleanHolds` | the calls that promise it change nothing when they throw |
| `GroupIsolationHolds` | where every root holds a tensor no group collective carries a slice into another group |
| `ScatterGatherRoundTripHolds` | gather after scatter restores every root's tensor |

`RowsTyped` is the invariant the others need.  The rest is about the operators
(`CpuCCLProofs`):
that worker ids divide into groups and ranks (`Division`, `Quotient`), that the
chunks of a scatter are consecutive blocks that tile the tensor, and that
`FlattenSeq` of blocks that tile a sequence is that sequence, by induction on
their number.

### Plan lowering, plans in JSON, and their execution

Assumed of the constants, and evaluated on the instance: a function is in
dependency order, and its virtual devices, kinds and attributes are such
(`FunctionsAssumption`); it is a tree above parameters, constants and variables, a
let binds a variable of its own to its value, and a variable is used in
the body of its let only (`TreeAssumption`; of shared calls, see section 6); contexts
of enclosing scopes are built as the code builds them: the target and device are
the primary device's, a primary device comes with a placement, and a placement
gives a virtual device one worker (`AmbientAssumption`); `null` is none of the JSON
values it stands in for (`JsonAssumption`); operator names are texts
(`TextAssumption`); tensors are not empty (`SlicesAssumption`).  The number of
functions, expressions, devices, contexts and open scopes is arbitrary.

| Theorem | Statement |
|---|---|
| `ContextInvariance` | `Spec => []ContextInv` |
| `ScopesNestHolds` | the current context is that of the innermost scope that has one |
| `ContextReachesTIRHolds` | FromTIR gives back the context AttachPassContextAttrs wrote |
| `PlanInvariance` | `Spec => []PlanInv` |
| `DefinedBeforeUseHolds` | every value is made once and before its use, in every plan |
| `PlanSurvivesJsonHolds` | a plan that went through JSON resolves every value and every end of a copy to the same worker, and is the same otherwise |
| `CopyFollowsPlanHolds` | a device.copy uses a worker its node does not name only for an end the plan's placement lacks; with both ends placed the node names these two workers and no other |
| `RunInvariance` | `Spec => []RunInv` |
| `OutputAtHomeHolds` | without collectives the result is what the body denotes, and is on the body's worker |
| `LocalInvariance` | `Spec => []LocalInv` |
| `KernelInputsLocalHolds` | a kernel finds every input on each of its workers |
| `NeverThrowsHolds` | an execution of a function without collectives whose inputs are supplied does not throw: the safety half of `PlanCompletes` |

*Contexts.*  A destructor restores what its scope saved, so `ContextInv` says of every open
scope that it saved what the scopes below it put in force.  FromTIR infers from the
primary device what the attributes leave out, which is right only for a context
that agrees with its primary device; FromRelay makes such contexts, because
CollectFrom collects defined devices only (`CollectFromType`, an induction along
the arguments of expressions that first shows the recursion to be well founded).

*Plans.*  `PlanInv` says that the plan is the one the builder makes of the function
in the context of its lowering, carrying that context or one that `Agree`s with it,
that is, leads every virtual device to the same worker: this is what JSON
preserves.  Reading back what was written is the identity on all
else (`NodeSurvives`, `PlanSurvives`), and of the placement it returns the workers
in the order of their ids, which finds the same worker because no virtual device
has two (`OneWorkerEach`, kept by `Distinct`).  The order of a plan follows by an
induction along the function (`EmitsAll`): what an expression appends reads values
known where its variables are in scope and results of its own earlier nodes
(`Runs`), and makes values of expressions below it only (`Under`), which for two
arguments of one expression are disjoint, since the function is a tree.

*Executions.*  `RunInv` adds that every node before `next` has its result and that,
in a function without collectives, every register holds the tensor its expression
denotes (`TensorAt`), on the worker of its virtual device, and elsewhere
that tensor or nothing (`RightAt`).  A step keeps it because a copy ends where its
result lives (`CopyHome`), a kernel runs where its result lives (`KernelHome`), and
its first input has a virtual device when it has.

*Where the values are.*  What a collective makes depends on what every worker holds, so
`LocalInv` says nothing of contents: every value, of whatever node, has a
tensor on the worker of its virtual device, and on every worker if it is the
result of an all-reduce or of a broadcast or scatter that reaches everybody (`Held`).
The executor runs a collective from a register into a copy of it, and there none
takes a worker's tensor away (`Keeps`, one lemma per collective in `CpuCCLProofs`):
a scatter leaves shards, and what a root gathers begins with its own.  So a
result is at home when its input was there, or was everywhere, or the collective
spreads it or delivers it there.  `KernelInputs` then goes through all inputs of a kernel: one
that was not copied is on the same device, which the placement leads to the same
worker.

The theorems about where values are have hypotheses that the code does not enforce, and
`Deployed` collects them.  Each is needed; without it builder and executor, or the
copy-inserting pass and the placement, do disagree (section 3):

| Hypothesis | Where it fails |
|---|---|
| `PlacedEverywhere`: a context the function may be lowered in places each virtual device it names, on a worker of the session | an enclosing scope made for another function; fallbacks differ |
| `CopiesHaveEnds`, `CopiesStartAtHome`: an explicit device.copy names its ends, has an argument and starts where that is | a copy written by hand; the executor obeys its attributes |
| `KernelsAnnotated`: the inputs of a kernel have virtual devices if and only if it has | partial annotation: no copy is inserted, and the kernel runs on worker 0 or on those of its inputs |
| `DevicesAgree`: a variable and a let have the device of their value; what counts as one device for the copies does so for the placement | a device named through `Device` here and `Target` there has two workers and no copy |
| `CollectivesReach`: a send or receive is annotated with the worker it delivers to; otherwise it, like a gather, and a broadcast or scatter in groups that some workers are not in, is annotated like its argument or has one that every worker holds; groups that are gathered have workers | no copy is inserted before a collective: a send annotated with neither end leaves nothing where its result is looked for.  With more groups than workers a gather in groups clears worker 0 |

`CopyFollowsPlanHolds` and the theorems above it in the table use none of them:
what `CopyFollowsPlan` says of an end depends on whether the plan at hand places it.
`RunInvariance` and `OutputAtHomeHolds` use `PlacedEverywhere` and `KernelsAnnotated` (together
`Runnable`), `LocalInvariance`, `KernelInputsLocalHolds` and `NeverThrowsHolds` all of
them.  The functions and contexts of the run satisfy all of it: TLC evaluates
`InstanceDeployed`, so the hypotheses are not empty; the functions have every
collective, in groups and not, after a broadcast and, where it delivers or shares out,
on its own.

### Profiling

For all sets of clients, workers and tasks, any number of runs, ids and any
depth of nesting (`ProfilingAssumption`):

| Theorem | Statement |
|---|---|
| `ProfilingInvariance` | `Spec => []Inductive` |
| `StackMatchesScopesHolds` | a thread's run and span stack are those of its open scopes |
| `ParentInRunHolds` | the parent of every event, open or recorded, is an earlier event of the same run |
| `OutcomeAfterSubmissionHolds` | in every bundle an outcome follows the submission it belongs to |
| `WaitAllFlushedHolds` | WaitAll's bundle has the outcome of every task that was over |
| `BundleCompleteHolds` | the final bundle has every id exactly once |

The stack is right only if what an activation saved is right, for every
activation that is still open: `Nested` says of each open activation that the
state it saved matches the scopes below it.  `IdsOnce` says that every id is in
one event or in one scope still to be recorded, which is what makes the last
bundle complete; `Lineage` carries the run and parent of a request from the
submitting thread through the queue to the worker's activation; `InOnePlace`
and `Recorded` say where a task is and which of its events have been recorded
by then, `WorkerAt` and `ClientAt` which scopes a thread has open at each of its
control points, `Ending` what the destructor has waited for.

### Object references

For every finite set of threads, any number of them compiling at once, and every set
of type objects (`ObjectAssumption`):

| Theorem | Statement |
|---|---|
| `ObjectInvariance` | `Spec => []InductiveUntilOverlap` |
| `CountExactHolds` | until an overlap the count of an object is at every instruction the number of references to it, those being moved included |
| `FreedOnlyByOverlapHolds` | a thread counts, deletes or holds a deleted object only after an overlap |
| `NoLeakHolds` | when all are done and there was no overlap, everything that was made is deleted |

`SetCheckedType` has no lock, and two compilations may meet in it: the run
`object_race` ends in a use after free, so without an exception the statements are
false.  An overlap (`overlapped`, set by the step that makes it one and never reset)
is that a thread starts to copy `checked_type_` while another is replacing it, or
starts to replace it while another is copying or replacing it.  The theorems say
that this is the only way for things to go wrong: compilations that interleave
anywhere else, with any number of threads copying and releasing, are safe.
`Inductive` says what each thread holds at each of its instructions, that every
pointer still to be used is live, and that an object of count 0 has exactly one
thread about to delete it; `FieldInOrder` that one thread at most is replacing
the field and none copies it meanwhile, and `HoldsNewType` that nobody else refers
to a type on its way there.  `ExactCounts` counts four disjoint kinds of references,
and each action moves at most one of them.

### Only model-checked

* Everything under fairness (`EveryTaskExecuted`, `DestructorReturns`,
  `HotShapeServed`, `PlanCompletes`): the prover has no rules for it.
* The compile pipeline (`ImportFaithful`, `ShapesAgree`, `MeaningPreserved`,
  `CSourceAgrees`): passes and evaluators are RECURSIVE operators, which the
  prover's SMT backend does not take, and the statements are inductions over programs.
* That functions with collectives run to their end (`PlanCompletes` on the instance).
  Whether a collective throws depends on the lengths of the tensors it meets and on
  gaps between them, and `LocalInv` has neither; nor is there a denotation to compare
  their results with.

## 6. Not modelled, and the plan

Not modelled, and why:

* TE schedules (`Stage`, `Schedule`: split, fuse, reorder): nothing in the
  repository lowers a schedule, so there is no meaning to compare them with.
* The device APIs, CUDA, NVTX and CUPTI adapters, NCCL: thin wrappers whose state
  is in libraries outside the repository.  Of NDArray the bytes are in `OnnxImport`.
* The Python agent: reports over recorded events, without state that anybody else
  uses.
* Relay `If` beyond its rejection, nested functions, and the operators that have a
  type rule and no lowering: no path leads from them to a kernel or a plan.
* In `DiscoPlan`, functions that share a call: the copy-inserting pass makes one call
  per use of a shared call it changes, which the model's trees are; one that nothing
  below changes stays shared and gets one node, which the model has not.
* softmax and floating-point rounding: TLC has no real numbers.
* Arena (nothing installs one), the `KernelRunner` the session owns and does not use,
  `KernelCache::Clear` (no caller; with one, `KernelPointerValid` would fail), barrier
  nodes (no pass emits them), vector lanes and predicates (nothing makes them).

What a continuation would take up: a denotation for functions with collectives, as a
row for every expression, and with it `NeverThrows` and `OutputAtHome`; evaluators of the
compile pipeline written as recursive functions over a bounded syntax, of which
single passes could then be proved to keep the meaning.
