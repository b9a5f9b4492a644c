# manifesto, modelled in TLA+

manifesto compiles machine-learning models that are described as manifests
(YAML topologies of operations) into `ir.Topology` values: a list of nodes in
execution order, one byte offset per value in a shared workspace, and a hardware
stream with synchronisation events for every node. A host session then runs
the topology, and a small step language (loops, state, paged key-value caches)
runs around it. This directory holds TLA+ models of that code, the TLC
configurations that check them, and proofs that TLAPS checks.

Paths are relative to the repository root; `plan.go:247` style references are to
the Go sources.

## 1. Inventory

### 1.1 The pipeline and its components

```
 manifest --parse/catalog/resolve--> ast.Program
   ast.Topology --expand/lower--> ast.Graph --weights--> typer --> optimizer --> typer
       --> codegen --> BuildDAGFromGraph --> TopologyLayers --> ExecutionPlan
   ast.Graph --PlanGraph--> NormalizeGraph --> planning topology
       --> PlanWorkspace --> offsets --> ScheduleStreams --> ir.Topology
   ir.Topology + ast.Program --Session/Executor--> host, StateStore, paged caches
   tensor.Arena / slabs / HostTensor / autograd : host memory under all of it
```

| Component | State it keeps | Operations | Hard behaviour | What makes it correct |
|---|---|---|---|---|
| ast, types (`ast/`, `types/`) | graphs, programs, operation registry | data only | one graph is mutated in place by every stage | registry lookups match the manifests |
| parse, registry, catalog, resolve, asset | decoded documents, caches of files | parse, include, resolve references | file and hub I/O | a reference resolves to the document it names |
| topology lowering (`compiler/topology_*.go`) | name bindings, node list | expand repeats, bind outputs, lower nodes | rebinding of output names, eight index forms | every input resolves to the producer that was last bound when it was read |
| port types (`ir/port_type.go`, `ir/unify.go`) | symbol bindings, equalities, constraints | Unify | symbols that meet before either is bound | unification accepts what has a common instance, and describes all of them |
| operation contracts (`typer/op_spec*.go`, `deriver_*.go`) | table of contracts | look up, derive an output type | registry schemas, contracts registered at run time | each consumer states the types it takes |
| typer (`typer/`) | port types, symbol bindings, adaptors | infer, synthesise adaptors, repeat | state carried from round to round, insertion into the list that is walked | it ends, adaptors precede their readers, no dtype mismatch is left |
| graph compilation (`compiler/graph_pipeline.go`, `program.go`) | options, merged bindings | lower, bind, type, optimise, type again, validate | the typer runs twice on one graph | the second run changes nothing |
| optimizer (`optimizer/`) | the graph, redirections, clusters | fold, rewrite, fuse, tile | passes that mutate the list they walk | outputs keep their meaning; the order stays valid |
| codegen (`codegen/`) | kernels | emit LLVM and MSL, JIT | native compilers | kernel equals the reference evaluator |
| weights (`weights/`) | open checkpoint readers | bind tensors to nodes | I/O | a node gets the tensor its name maps to |
| graph order (`compiler/graph_order.go`) | ID index, in-degrees, ready queue | NormalizeGraph | repeated and hidden inputs, cycles, being called twice | topological and stable order; cycles reported exactly |
| compute DAG and plan (`compiler/graph_dag.go`, `ir/dag/`, `runtime/plan.go`) | DAG, layers, execution plan | build, layer, plan | layers are documented to run concurrently | a layer depends on earlier layers only; each node once |
| workspace planner (`ir/planner.go`) | port IDs, intervals, live blocks, offsets | AssignPortIDs, AnalyzeLiveness, AllocateOffsets | inclusive ranges, eviction, first-fit search, aliases | values that live together never share a byte |
| stream scheduler (`ir/stream_scheduler.go`) | stream IDs, newest node per stream, events | ScheduleStreams | cross-stream waits, caps, aliases | data edges are ordered, and nothing waits for ever |
| graph planning (`compiler/plan.go`) | shared port pointers, published offsets | PlanGraph | failing stages, aliases, int32 offsets | what the host reads and writes is what the plan assumed |
| execution (`ir/topology.go` and the host) | workspace bytes, running nodes | copy inputs, dispatch, signal | real concurrency | the run is equal to a dataflow evaluation |
| program executor (`runtime/executor*.go`) | value table, loop frames | steps, loops, until-EOF, call graph | tensor ownership under rebinding, errors inside loops | a tensor is closed once, and only when no name holds it |
| state store (`runtime/state*.go`) | named state, mutex | read, write, append, reset | read and commit in separate critical sections | no committed update is lost |
| paged cache (`runtime/paged_*.go`) | page tables, positions | plan pages, call, commit | failed graph calls, capacity, int32 positions | tables and positions move together |
| session, orchestrator (`runtime/session*.go`, `orchestrator*.go`) | compiled graph cache, host handle | compile, call | wiring | a cached graph is the requested one |
| tensor allocator (`tensor/slab.go`, `mmap_*.go`) | free lists, shards, regions | acquire, release | concurrent callers, routing by capacity | a block is handed to one holder at a time and goes back where it came from |
| arena and host tensors (`tensor/arena.go`, `host_tensor.go`) | offset, epoch, open views | alloc, view, Close, Reset | Reset racing allocation, stale views | no view reads bytes that were given out again |
| autograd (`tensor/autograd.go`) | tape, gradients | record, backward | shared deltas, in-place accumulation | gradients add up once per path |
| element types (`dtype/`) | packed pairs of 4-bit integers | widen, narrow, pack | rounding at the ends of binades, NaN payloads, shared bytes | widening is exact, narrowing is nearest-even, halves are independent |
| sparse tensors (`tensor/sparse*.go`) | three dense vectors | validate, convert | none | indices are in bounds |
| ir fusion clusters (`ir/fusion.go`) | none | not called by the pipeline | - | - |

How they interact: compiler stages hand one mutable `ast.Graph` along, each
mutating it in place; `PlanGraph` normalises the same graph a second time and
turns names into shared `*ir.Port` pointers; the planner and the scheduler both
read the resulting nodes and both rely on the index of a node being its time.
The session copies graph inputs to the offsets in `Topology.InputPorts`, streams
run nodes and exchange events, and the host reads `Topology.OutputPorts`.

### 1.2 Hazards

PROJECT.json lists each at its line. The ones this sits on are: the two sorts of
one graph; edges counted once per repeat; liveness that is inclusive at both
ends; a conflict check that looks only at what eviction has left; a search that
jumps; alias nodes that list as output a port another node (or the host) owns;
graph outputs that are also read inside the graph; serial liveness under
parallel streams; FIFO streams waiting for each other; optimizer passes that
remove nodes other nodes and outputs still name; free lists shared by goroutines
and filed by capacity; arena bytes that are given out again while tensors still
point at them; a cache that is written in place by calls that may fail; state
that outlives the run that wrote it; a loop that ends by looking at the size of
a table; names that are rebound while they are being read; adaptors inserted into
a list while its errors are walked; a symbol bound twice; a carry out of a
mantissa; two numbers in one byte.

## 2. Plan

| # | Modules | Contents | State |
|---|---|---|---|
| 1 | `GraphOrder`, `GraphLayers` | NormalizeGraph, DAG, layers, execution plan | done |
| 2 | `PlanTopology`, `WorkspacePlanner` | the three planner passes | done |
| 3 | `StreamScheduler`, `PlanGraph` | scheduler; bridge that composes 1, 2 and 3 | done |
| 4 | `Dataflow`, `PlannedExecution` | abstract specification; session running a plan; refinement | done |
| 5 | `Optimizer` | folding, identity removal, fusion; outputs keep their meaning | done |
| 6 | `TensorAllocator`, `HostTensors` | free lists of three tiers; tensors, arena, Close, Reset | done |
| 7 | `StateStore`, `ProgramExecutor`, `RuntimePrograms` | steps, loops, ownership, paged cache, failed calls, reruns | done |
| 8 | `PortTypes`, `OpSpecs`, `OpDerivers` | port types, unification, contracts and output types | done |
| 9 | `ComputeGraph`, `TopologyLowering`, `Typer`, `FrontEnd` | expansion, lowering, weights, typer rounds; their composition | done |
| 10 | `NumberFormats`, `NumberCasts` | element types and their conversions | done |
| 11 | `GraphOrderProofs`, `NumberProofs`, `HostTensorProofs` | theorems on 1, 10 and 6 | done |
| 12 | `OrderLemmas`, `PlannedExecutionProofs` | lemmas on lists that 11, 12, 13 and 15 share; theorems on 2 and 4 | done |
| 13 | `Lists`, `FrontEndProofs` | the filters of 1 and 9; theorems on the lowering and the typer rounds of 9 | done |
| 14 | `ProgramExecutorProofs` | theorems on 7 | done |
| 15 | `OptimizerProofs` | theorems on 5 | done |

Abstract specifications: `Dataflow` for a planned graph, which the session is
shown to implement; blocks with one holder each for the allocator (the
invariant `EveryBlockHasOneHolder`); a sequence of tokens for the paged cache
(the invariant `CallsSeeTheConversation`); integer evaluation of a graph for the
optimizer (`Meaning`); the nearest element for the conversions (`IsNearest`).

## 3. Modules

### 3.1 `GraphOrder` and `GraphLayers`

`GraphOrder` is `NormalizeGraph`. Its variables are the graph itself (with the
node list the code reorders in place), the in-degree map, the ready queue and
the output list. Actions: `IndexGraphNodes` (blank or duplicate IDs),
`ValidateGraphEdges`, `StartSort`, `PopReady` (one
iteration of the queue loop) and `FinishSort` (order or cycle error). `Kept`, in
`Lists`, is the loop that filters a slice, stated by ranks so that it can be proved
about; the lowering and the typer filter with it too. A name that
is both a boundary and a node is hidden: the code counts no edge for it, and
neither does the model; an input that repeats is one edge per slot.

`GraphLayers` continues with `BuildDAG` (which also refuses blank and duplicate
boundaries), one `PeelLayer` per layer of
`TopologyLayers`, `BuildPlan`, and `Renormalize`, the second call that
`PlanGraph` makes.

### 3.2 `PlanTopology` and `WorkspacePlanner`

A node is its lists of input and output ports; a port stands for its `*ir.Port`
pointer. One action is one loop iteration of `AssignPortIDs`, `AnalyzeLiveness`
and `AllocateOffsets`; the offset search has an action per jump
(`JumpPastBlock`) and one for the hit (`PlaceInterval`). Steps count from 1.
`PortByteSize` is data: `bytes` gives each port a size or `Unsized` (its error).

### 3.3 `StreamScheduler` and `PlanGraph`

`ScheduleNode` is one iteration of `ScheduleStreams`: predecessor streams,
`pickStream`, waits on the consumer and signals on the producer. An event is
named by its waiter and the stream waited on; the code's numbers follow a map
iteration and only their being distinct matters.

`PlanGraph` composes `GraphOrder`, `WorkspacePlanner` and `StreamScheduler`:
`Normalize`, `BridgeNode` (a node's input names resolve to shared ports; an
alias operation, `shape.view_as_heads` or `shape.merge_heads`, passes its first
input's port on as its output), `Plan`, `AttachGraphIOPorts` (with the
truncation of an offset to int32), `Schedule`, and the failures of each.

### 3.4 `PlannedExecution` and `Dataflow`

`PlannedExecution` adds a session that runs the planned topology. The executor
is not in this repository; it is modelled from the contract in `ir/sync_event.go`,
`ir/node.go` and `ir/topology.go` and marked external in the map: the host copies
the inputs in, each stream is first in first out, a node starts when the events
it waits for are signalled, and signals its own when it is done. `contents`
remembers which value each byte of the workspace holds. An alias node is a view
and touches no memory.

`Dataflow` is what a planned graph promises: steps complete in an order that
respects their data dependencies, and all of them complete. `ImplementsDataflow`
maps `deps` to the data producers of each node once the plan is complete, and
`done` to the finished nodes (`PublishedDeps`).

Graphs in which an alias views a graph input are planned and run like the others.
Two exceptions are named for them, since the planner and the scheduler go wrong there
(section 4). The scheduler takes the first such alias for the producer of the input's
port, and so for its own predecessor: it and the nodes that read the input before it
`ReadsAhead`, and a graph where one of them waits (`Misled`) is not said to reach its
end. The planner lets the interval of the input begin at the alias, if nothing read
the input before; `InputsLiveFromStart` fails, and then nothing is said of the bytes
of graph inputs.

### 3.5 `Optimizer`

`Optimizer` is `optimizer.Run` on one graph: `FoldNode` (one node of
`ConstantFold`), `RewriteIdentities` and `FlagScaleFolds` (the two halves of
`Rewrite`), `FuseCluster` (one root of `Fuse`, from the last node to the first) and
`EndFuse`, which takes the absorbed nodes out of the list. The graph is the
node list `order` with `op`, `inputs`, `value` (the literal of a constant), `expr`
(the tree of a fused node) and `outputs`; `source` is the graph as it was handed
over. A node type stands for the elementwise operations that behave alike.

`Meaning` evaluates a graph over the integers, so `OutputsKeepMeaning` compares
the graph after each step with `source` for all inputs tried. Nothing is read
twice in a cluster, so the tree of a fused node is a table from the nodes of the
cluster to their type and operands; `Fused` evaluates it. `Target`, `Cluster` and
`Leaves` are the recursions of `rewriteIdentities` and `buildOperand`, as recursive
functions. Operations are exact on integers: the rounding of float32 is not part
of the question. `Expressible` leaves out the graphs of which the node types
cannot keep the meaning (section 4, `math.sign`; section 6, scales).

### 3.6 `TensorAllocator` and `HostTensors`

`TensorAllocator` is `Allocate` and `Release` of `tensor/slab.go` with the two
mmap pools. A free list belongs to a class, a shard and a tier; the shard is
chosen by one ticket counter that all calls share. A call is several critical
sections, and each is an action, so the goroutines interleave between them:
`BeginAllocate`, `PopBlock`, `FreshBlock` or `MapFails`, `HandOver` and
`PushBlock`. A block keeps its capacity, by which `Release` files it: a request
just below a tier's limit is rounded up to a block the next tier claims.

`HostTensors` puts the host backend, the tensors and the arena on top:
`BeginUpload`/`FinishUpload`, `Derive` (Slice and Reshape), `BeginClose` and
`FinishClose` (compare and swap, then release), `BeginArena`, `FinishArena`,
`ArenaAllocate`, `ArenaTensor`, `BeginReset`, `FinishReset` and `CloseArena`. `New`
on an arena is two sections, allocation and the reading of the epoch, and so is
`Reset`, the bump pointer and the epoch. Nothing is assumed of the callers: any
goroutine may reset or close the arena at any moment, between the two sections of
another one's `New` too, and leave its tensors behind. `alone` is history that no step
reads: it is false for a tensor whose `New` overlapped a `Reset` (`Interrupted`).

### 3.7 `StateStore`, `ProgramExecutor`, `RuntimePrograms`

`StateStore` has the value table of a run and the slots of the session, with
what `SetReference`, `setRuntimeValue` and `closeRuntimeValues` close, and the
arithmetic of `BuildPagedPlan`. `ProgramExecutor` interprets a program with a
stack of frames: an action is one operation (`Encode`, `Sample`, `PagedPlan`,
`Axpy`, ...), a loop's entry (`EnterLoop`), or the end of an iteration
(`EndCountedIteration`, `EndEachIteration`, `EndUntilEOFIteration`). `StepFails`
ends the run at any operation that can return an error, `CallModelFails` after any
part of the writes to the cache, and `StartRun` runs the session again over the
slots as they are. `ReadEOF` returns through the frames to the nearest until-EOF
loop. `RuntimePrograms` holds the two programs the repository ships,
`chat.yml` and `diffusion.yml`, with fewer iterations. The key and value halves of
the cache are one, because the programs pass and plan them together.

`history` is not state of the code. It records the tokens that the position
counts, and those of a call that has not been counted yet; the cache, the page
table and the position are compared with it.

The graph backend is external: it returns fresh tensors, writes the cache where
the plan says, and refuses writes behind the end of the storage.

### 3.8 `PortTypes`, `OpSpecs`, `OpDerivers`

These have no state. `PortTypes` is `ir/port_type.go` and `ir/unify.go`: a port type
is a dtype, a list of dimensions (a size or a symbol), a layout, a semantic kind and
a set of constraints, and `Unify` runs its four checks in the order of the code with
the bindings and symbol equalities it collects on the way. `OpSpecs` is the table of
contracts, with the ones made from registry schemas and those registered at run
time; `OpDerivers` the functions that give an operation's output type.

### 3.9 `ComputeGraph`, `TopologyLowering`, `Typer`, `FrontEnd`

`ComputeGraph` declares the graph all stages share: nodes, boundary, outputs,
bindings, dtype of the activations, and the stage it is in. `TopologyLowering` has
`ExpandTopology` (repeats and their index forms), one `LowerNode` per node,
`ResolveOutputs` and `BindWeights`, each with its refusal. A name is a stem with an
optional number, so that `h_${i+1}` is a form of a stem and not a string.

`Typer` is `typer.Run`: `BeginInfer`, then per node `KeepTyped`, `PassThrough`,
`TypeNode` or `RefuseNode`, then `FinishInfer`, and per failed edge `InsertAdaptor`
or `LeaveUnresolved`, until `FinishSynthesis` starts the next round or gives up.
`FrontEnd` is `CompileGraph`: the typer runs, the optimizer hands the graph back,
the typer runs again, `ValidateOps` looks every operation up and `MergeBindings` adds
the caller's sizes. What the optimizer rewrites is `Optimizer`'s subject.

`ExtensionsAssumption` says that a contract registered at run time is made of port
types and does not replace the two adaptor operations; `SourcesAssumption` that a
topology is one the parser returns: a list of nodes whose names are not the IDs the
typer makes (`adaptor.` and three parts) and whose `dtype` attributes are strings,
not dtypes.

### 3.10 `NumberFormats`, `NumberCasts`

A float32 is its sign, exponent and significand; an element of a narrow format is
its bit pattern. `NumberFormats` has the widening and the narrowing of binary16,
bfloat16 and the two 8-bit floats, computed on those fields the way the code does
with its shifts and masks. `NumberCasts` casts numbers and elements in any order and
writes both halves of packed pairs of 4-bit integers; the reference is `IsNearest`,
which compares a number with the elements on either side of it and knows nothing of bits.

## 4. What is checked

| Run | Instance | Properties |
|---|---|---|
| `layers` | all graphs of three nodes with up to two reads each (repeats, self reads, cycles, hidden boundaries), all of four nodes with two-element read sets, and graphs that validation or the DAG builder refuses | `OrderedIsTopological`, `CycleReportIsExact`, `LayersAreDepths`, `PlanRunsEachNodeOnce`, `NormalizeIsStable`, `PassesEnd` |
| `planner` | three nodes, four ports, two-output nodes, aliases, inputs nobody produces; sizes 0, below, at and above the alignment, or none | `PlannerTypeOK`, `NoSharedBytes`, `OffsetIsLowest`, `EveryUseIsLive`, `LayoutIsTight`, `PlannerEnds` |
| `execution` | four nodes over one boundary, every shape with at most two reads, two size layouts, an alias of a node, of the graph input or none, stream caps 0 (unlimited), 1 and 2, and graphs to refuse | `RefusalsAreExact`, `ProducersFinishFirst`, `SerialReadsAreFresh`, `SignalsComeFromEarlierNodes`, `ImplementsDataflow`, `RunsToCompletion` |
| `optimizer` | graphs of four nodes over two inputs, two list orders (one not in dependency order), one or two outputs: constants, zero, unreadable constants, identity chains, shared and repeated reads, opaque operations between elementwise ones | `OutputsKeepMeaning`, `NothingDangles`, `OutputsStayMaterialized`, `StaysOrdered` |
| `tensors` | two goroutines, two shards, three blocks, three handles, sizes 1, 2, 3 and 5 over tiers that end at 3 and 5, an arena of 4 units that is reset once and closed | `EveryBlockHasOneHolder`, `BlocksFitTheirRequest`, `ViewableBytesAreDisjoint` |
| `runtime` | the chat and the diffusion program, with memory that can and cannot axpy in place; up to three lines, three runs, prompts of 0 to 2 tokens, two decode steps, pages of two tokens, ten places | `NamesHoldOpenTensors`, `CallsSeeTheConversation`, `ImagesUseTheWholeSchedule` |
| `frontend` | decoders of zero to three layers with and without a checkpoint, every wiring of three nodes over a few shared names, every edge from 19 declared types to 22 consumers, every pair of such edges into five two-operand consumers, and chains of three operations over layouts and dtypes that do not fit | `ReadsSeeTheLatestBinding`, `StaysTopological`, `NoDTypeMismatchSurvives`, `ThreeRoundsSuffice`, `UnifierIsMostGeneral`, `LayersReadTheirPredecessor`, `RerunChangesNothing` |
| `numbers` | every element of the 8-bit formats, the 16-bit ones at the ends and in the middle of binades (every exponent of binary16), and around each the numbers on it, next to it and halfway to the next; float32 exponents 0 to 255 | `NarrowingIsNearest`, `WideningIsExact`, `SpecialsSurvive`, `PrecisionIsHonest`, `NibblesAreIndependent` |
| `middle_output` | a chain whose middle value is an output | finds `OutputsSurvive` violated |
| `parallel_branches` | two branches of two nodes | finds `NoWorkspaceRace` violated |
| `until_eof` | the chat program | finds `ConversationsEndWithTheInput` violated |
| `float8` | the elements of the 8-bit float with four exponent bits, widened and narrowed back | finds `RepresentableNumbersSurvive` violated |

`OperandsAreDisjoint` is not in a run: it is proved (5.1) from what `NoSharedBytes` and
`EveryUseIsLive` check.

Type invariants are kept where a proof uses them; the others said nothing the
remaining properties do not imply by evaluating at all.

The bounds. Three nodes are enough for a cycle through every node, a repeat and
a hidden name; the fourth gives diamonds and two layers of two. In the planner a
conflict needs a live block below and one above the candidate, which three nodes
with up to two outputs reach; alignment 2 with sizes 0 to 7 gives rounded and
exact blocks. In the execution four nodes give a fork, a join and two chains, and
two streams give every case of `pickStream` (root, chain, branch, merge, cap).
For the optimizer four
nodes give a cluster of three with an external operand, a chain of two identities
that ends at an output, a fold that feeds a fold, and a value read twice.
For these modules all counters are bounded by the graph; no bound is hidden in a
guard. In `tensors` the limits of the tiers are scaled, 1 MiB to 3 and 1 GiB to 5: a
request of 2 needs a block as large as the first limit and the arena's 4 one as large
as the second, 1 is below and 3 at the first limit, and 5 is large. One reset
(`MaxEpoch`) is enough for it to overlap a `New` and to leave a tensor stale. Two goroutines and three blocks give every race between a search, a
release and a second close; goroutines, blocks and handles are symmetric.
In `runtime` a second line, a
second page and a third run are the cases of interest: a run after a failed one
and a run after a complete one. `Positions` ends the cache, `MaxRuns` and `MaxLines`
end a session.
In `frontend` two layers are needed for a layer to read another one's output and a
third to see an offset counted wrongly; an edge can differ in dtype, in layout, in
both, or in neither but shape, and the types include each with free, shared and
bound symbols; three operations in a chain are the least in which a node is typed
after the one that reads it. `MaxRounds` is the default of three. In `numbers` an error of rounding
shows on an element, beside it, at the tie, or beside the tie, and each
position is tried with an even and an odd element at both ends of a binade.

Fairness. `GraphLayers` and `WorkspacePlanner` are sequential Go calls, so one
weak fairness of the whole next-state relation says that the call keeps running.
In `PlannedExecution` weak fairness of every `Start` says that a stream
dispatches what it may, of `Finish` that kernels terminate, of `CopyInput` that
the host copies its inputs. Nothing is strongly fair: no action that matters is
disabled again once it is enabled.

`FrontEndSpec` and `CastSpec` have no fairness; only safety is claimed of them.

`CHECK_DEADLOCK` is off (`FrontEnd` stutters at its ends instead) because every behaviour ends: a compilation
returns, a graph finishes, a bounded session has had its runs, all goroutines are
idle over exhausted bounds. The liveness properties say that it ends well.

### What the violations show

Each is a disagreement between the code and its own comments, tests or programs.

1. `middle_output`. A port dies at its last reader, and `graph.Outputs` is never
   consulted; an output that another node reads is overwritten before the host
   reads it.
2. `parallel_branches`. Liveness is computed for the serial order while two
   streams may run at once; only data edges get events, so two branches can use
   the same bytes at the same time.
3. `until_eof`. The loop also ends when an iteration adds no name to the value
   table, which the second iteration of the chat program never does: `repeat:
   until_eof` stops after two lines.
4. `float8`. The shift of a subnormal is one bit short, so the least element of
   the format is narrowed to another one; and a number in the top binade saturates
   whole, so 256 becomes 448.

### What the passing runs except

Where the code fails on a case that is in the model, the property of the passing run
names the case; the freshness of reads is claimed for a single stream because of
`parallel_branches`. Without the other exceptions TLC finds these.

- A view of a graph input (`SerialReadsAreFresh`, `InputsLiveFromStart`).
  `planner.go:178-181` says that such inputs are live from step 0 and stay pinned. An alias lists the
  input's port among its outputs, and outputs are registered first (`planner.go:251-255`), so an
  input that nothing read before is live from the alias on: a constant, then a view of
  the input and its reader, and on one stream the constant is written over the input
  that the host has copied in.
- The same graph on two streams (`SignalsComeFromEarlierNodes`, `RunsToCompletion`, and the
  fair half of `ImplementsDataflow`; `ReadsAhead`, `Misled`). The alias is the
  producer of the port in `buildProducerIndex` (`stream_scheduler.go:163`), where `:47-49`
  speaks of an earlier node. While it is scheduled it still has stream 0, so it counts
  as its own predecessor there, goes to another stream, and waits for an event that only
  it signals.
- `ViewableBytesAreDisjoint` (`Claims`). `Arena.Close` (`arena.go:110-120`) gives the block
  back and changes neither the epoch nor any tensor: New, Close, Upload, and two tensors
  that pass `acquireView` have the same bytes, against `state.go:12-13`. A slice never
  looks at its parent, against `tensor.go:74-76`: Upload, Slice, Close, Upload does the
  same. And a tensor whose `New` read the epoch after a `Reset` bumped it has bytes the
  arena gives out again; `arena.go:13-14` puts `Reset` between forward passes, which nothing
  enforces. So the property speaks of roots, and of the tensors of an arena that is still
  open, when no `Reset` overlapped their `New`.

### Other disagreements met while modelling

No run is kept for these; the models have them as the code does.

- `typer/run.go:36-41`, `infer.go:96`: an edge that differs in dtype and layout gets
  a cast, and since a typed node is skipped in the next round, the layout is never
  looked at again. (No layout but the contiguous one is in the shipped contracts;
  `typer_test.go:990-1008` registers others.) For the same reason a dtype mismatch
  survives when the source waited a round for its own type: the reader took the untyped source for a
  wildcard and is not asked again. `NoDTypeMismatchSurvives` names this case
  (`IsTypedLate`) and the proof shows that it is the only one.
- `infer.go:196`: each edge unifies with bindings of its own that overwrite the
  graph's, so `math.matmul` of a 2x4 and an 8x16 tensor types, although
  `unify.go:273-278` names that as the error it is there to find.
- An edge without a dtype whose layout differs gets a transpose that is typed
  Float32 (`unify.go:148-158`). An unknown operation fed by an untyped tensor stays
  untyped, against `infer.go:107-113`. The synthesised transpose keeps its input's
  shape, `deriveTransposeOutput` swaps two axes. Symbols made equal through a third
  one are not rechecked when that one is bound (`unify.go:351-352`).
- `deriver_core.go:45`: the width of a token embedding is whatever norm last bound
  `D`. `deriver_convolution.go:84`: a kernel too large by less than the stride gives
  size 1. The fallback of `derivePageGatherOutput` is never reached.
- `weights/binder.go`: the weight map is not consulted for the six operations that
  have a default weight; a slice does not change the bound shape.
- `topology_expand.go`: a negative repeat count panics, a nested repeat is only
  refused when the count is positive, and `${i-1}` of the first layer is -1.
- `optimizer`: `math.sign` shares its node type with `math.neg` (its comment calls
  the entry a placeholder), so a sign that is fused computes the negation.
- `tensor/slab.go`: allocation is documented to fall back to other shards and tries
  one; a goroutine that alternates allocation and release never finds what it
  freed.
- `dtype`: NaN loses its sign in the 8-bit formats (`fp8.go:16-17` says 0xff); values
  between 57344 and 61440 become infinite in the other one; `bfloat16.go` says that
  subnormals flush to zero and rounds them. `float32VectorBytes` (`axpy.go:171-193`)
  and `Float32AsDTypeBytes` (`session.go:437-458`) write Float32 bytes for every
  storage dtype they do not know. An odd count of 4-bit integers has a phantom
  last element.
- `runtime`: tokens and page tables uploaded for a graph call (`state_inputs.go`) are
  never closed; `CommitGraphStateOutput` replaces a paged handle's storage without
  closing the old one; an initial value that the program overwrites is closed
  although its caller owns it.

Three things the runtime model shows that contradict no comment. `loop_count`
forgets an old break, so a stop token sampled right after the prompt is fed to the
model like any other. With `append_to`, the second line's batch repeats the first
line's tokens behind a position that already counts them, so the model sees the
first prompt twice; `CallsSeeTheConversation` takes the batches as they are.
A session's step counter is not reset, so a diffusion session completes at most
one image; `ImagesUseTheWholeSchedule` says that it never completes a wrong one.

## 5. What is proved

The theorems hold for every value of the constants, under the assumptions
each module names in an `ASSUME`. They are grouped by module.

### 5.1 `PlannedExecutionProofs`: the workspace planner

For every topology, port size and alignment:

| Theorem | Property | Invariant behind it |
|---|---|---|
| `PlannerTyping` | `PlannerTypeOK` | inductive as it stands |
| `WorkspaceIsSafe` | `NoSharedBytes` | `SafetyInv` |
| `WorkspaceIsTight` | `LayoutIsTight` | `LayoutInv` |
| `SearchIsFirstFit` | `OffsetIsLowest` | `LayoutInv` |
| `IntervalsCoverUses` | `EveryUseIsLive` | `CoverInv` |
| `OperandsNeverOverlap` | `OperandsAreDisjoint` | `CoverInv` and `LayoutInv` |

Assumptions: `NoPort` is not a port, `Unsized` is not a number, the alignment is
a positive natural number, and the topology is one the bridge can build (a node
that lists a known port as output also reads it: `AliasesReadTheirPort`).

`NoSharedBytes` is not inductive: a new block is compared only with the live
list, so nothing in the property says why a block that eviction has dropped cannot
overlap the new one in time. `SafetyInv` adds the reasons: `Unplaced` (pending
intervals have no offset), `Partitioned` (every interval is pending, current or
placed), `StartsInOrder` (what is placed starts no later than what is
not) and `EvictedIsOver` (a placed block missing from the live list ended before
every interval still to come starts). `LayoutInv` adds that placed blocks are
aligned and inside the high-water mark, and `OffsetIsLowest`: a jump goes to the
aligned end of a block, and since sizes and offsets are multiples of the
alignment, rounding skips nothing. `CoverInv` adds that a port the liveness pass
knows has been used, so that an alias keeps the interval of the port it views.

### 5.2 `GraphOrderProofs`

| Theorem | Property |
|---|---|
| `OrderInvIsInvariant` | `OrderInv` |
| `OrderIsTopological` | `OrderedIsTopological` |
| `CycleReports` | `CycleReportIsExact` |
| `NodesAreKept` | `[][ToSet(graph'.nodes) = ToSet(graph.nodes)]_vars` |
| `OrderIsStable` | `NormalizeIsStable` |
| `LayersAreDepthsHolds` | `LayersAreDepths` |
| `PlanRunsOnce` | `PlanRunsEachNodeOnce` |

Assumption: `Graphs` are graphs (`GraphsAssumption`). Neither property says
anything of the middle of the sort. `OrderInv` does: the in-degree of a node is the
number of its open edges, one per slot that reads a node not yet sorted; the
nodes without an open edge are exactly those queued or sorted, and each once;
what is sorted has its producers before it. When the queue is empty every
unsorted node has an unsorted producer. If all edges could be numbered upwards,
the unsorted node with the least number would contradict that, so a report
means a cycle; in the other direction an order of all nodes is such a numbering.
The filter that removes blank and duplicate IDs is stated by ranks (`Kept`),
because nothing can be proved by induction about a recursive filter here. What these
proofs need of lists (`KeptSelects`, `AppendedOnce`, `TailWithoutHead`, ...) is in
`OrderLemmas`, which `PlannedExecutionProofs` and `FrontEndProofs` use too.

The second sort returns the list of the first for a reason that is not local to a
step. `StableInv`: sorted and queued nodes together are in the order of their last
producers (`ByLastProducer`: if a later name has a producer, no earlier one has a
producer behind it), because a node is released by the last of its producers. An
ordered list has that order, so while it is sorted again the queue is a prefix of
it: were the next node released some other one, the order of last producers would
put that one first.

`PipelineInv` is about the layers: those peeled so far are disjoint, a node reads
earlier layers only and one of its inputs is in the layer just before its own; what
the last layer left out waits for something in that layer or still to come. `LayersAreDepths`
follows by well-founded descent on layer numbers, and with every node in some layer
when the walk ends, so does `PlanRunsEachNodeOnce`.

### 5.3 `NumberProofs`

`PairsKeepBothHalves` (`NibblesAreIndependent`): for all integers and every order of
writes each half of a packed pair holds what was written to it last, clamped.
`PairInv`: the byte is the sum of the two encodings, the second one shifted by four
bits, so writing one half leaves the quotient or the remainder alone.

| Theorem | Property |
|---|---|
| `CodesWidenExactly` | `WideningIsExact` |
| `NumbersNarrowToNearest` | `NarrowingIsNearest` |
| `SpecialsStaySpecial` | `SpecialsSurvive` |
| `FilterTellsTheTruth` | `PrecisionIsHonest` |

These four hold for every float32 and every code of the four float formats, in any
order of conversions, where the run tries the ends and the middle of each binade;
assumptions `NumbersAssumption` and `StoredAssumption` (what a run begins with are
float32 values and codes). Behind all four is `NumberInv`: a number that was widened is
the exact value of the code beside it, and a code that was narrowed is what the
narrowing makes of the number beside it. The rest is arithmetic on one element:

- Widening (`WidenIsExact`): the loop that shifts a subnormal ends with the leading bit
  in place (`ShiftsAre`), which is where the definition of the value puts it
  (`SubnormalValue`); the other codes only move their fields (`NormalValue`).
- Narrowing: each of the three ways the code rounds, a test of three bits in binary16,
  an addition before the cut in bfloat16, a comparison with half a unit in the 8-bit
  formats, is the same function of the part cut off (`Rounded`; `RoundsUpIs`, `RoundedBy`),
  and that function chooses the nearer of two adjacent codes (`NearestIs`), also where the
  upper one is in the next binade, is the least normal value, or is infinity.
- The filter: an exact number has nothing to cut off, and what comes back from binary16
  always has its low bits zero and is never below the least subnormal
  (`Float16Widens`), so nothing the filter calls inexact or an underflow can be it.

For the 8-bit formats `NarrowingIsNearest` speaks of the range in which they round as
documented; what they do below and above it is the finding of `float8`.

### 5.4 `HostTensorProofs`

| Theorem | Property | Invariant behind it |
|---|---|---|
| `StorageHasOneHolder` | `EveryBlockHasOneHolder` | `TypeInv`, `CallInv`, `CloseInv`, `OwnInv` |
| `RequestsFit` | `BlocksFitTheirRequest` | these and `FitInv` |
| `UsableTensorsAreDisjoint` | `ViewableBytesAreDisjoint` | the first four and `ViewInv` |

For any number of goroutines, blocks, tensors, shards and size classes, any tier
limits and any sizes; assumptions `AllocatorAssumption` and `TensorAssumption`.

- `CloseInv`: a closed tensor keeps its bytes until the one call that closes it has
  dropped them. Without the compare and swap two calls could drop them.
- `CallInv`: a call that searches a list is at a list of its size; at most one
  call makes the arena, and none once there is one.
- `OwnInv`: there is a map from blocks to places such that a block is where the map
  says and nowhere else, and no free list repeats a block. The map is quantified
  rather than written down, so each action only says where the block it moves
  goes.
- `FitInv`: below the large tier capacities are size classes, and a block is filed
  under its own class. That is what makes routing by capacity on release agree with
  routing by size on allocation.
- `ViewInv`: while the arena is open, the tensors of its present epoch, and the views
  still being made, are disjoint parts of it below its offset, as far as no `Reset`
  overlapped their `New`; while a reset is between its two sections every view being
  made has met it. So when bytes are given out again, a tensor that had them is stale,
  or is one the property leaves out.

`UsableTensorsAreDisjoint` covers the roots at all times and the arena's tensors while it
is open, and leaves out the tensors and slices that section 4 names.

### 5.5 `PlannedExecutionProofs`: the session

| Theorem | Property |
|---|---|
| `ReadersWaitForProducers` | `ProducersFinishFirst` |
| `SignalsAreEarlier` | `SignalsComeFromEarlierNodes` |
| `StepsAreDataflow` | the safety half of `ImplementsDataflow`: `Flow!Init` and `[][Flow!Next]` |
| `PlannedTopologiesAreSafe` | `NoSharedBytes` and `EveryUseIsLive` of the planner as it is composed |
| `SerialReadsStayFresh` | `SerialReadsAreFresh` |

For every graph, those with views of graph inputs included, and every cap on streams.
The assumptions only say what things are: `PortsAssumption` (the port pointers of a
topology), `PlanGraphsAssumption` (graphs are graphs). Two of the properties name
exceptions, which section 4 shows to be real:
`SignalsComeFromEarlierNodes` the nodes that read ahead, `SerialReadsAreFresh` the graph
inputs when one of them starts to live late. The other three have none. The
invariant `Inv` follows the pipeline:

- `GraphInv`: normalisation leaves a list without repetition; `SortInv` says why in
  the middle of the sort (what is queued or sorted has no edge left to release it
  again).
- `BridgeInv`: every port a node reads is a graph input's or is put out by an
  earlier node that is no alias, and so is every port an alias lists
  (`PortsInv`). Hence two nodes that write share no port (`PortsAreOwn`), the first node
  that lists a port some node writes is that node (`OwnerIsFirst`), and what data needs is among
  what the scheduler takes for producers, and earlier (`DataIsProduced`). The
  scheduler's producers may be more: an alias of a graph input writes nothing.
- `SchedulerInv`: the scheduler starts without events; `EventsInv` says that each
  node whose value a scheduled node needs is on its stream or on one it waits for, that
  each wait of a node that does not read ahead has an earlier signal on the stream it
  names, and that who signals an event is the waiting node itself, which then never
  starts, or no older than any node there whose value is needed (`Covers`). The last part is the reason why waiting for the
  newest producer of a stream covers the others.
- `ExecInv`: what has started had every node before it on its stream finished, and
  all its producers. A producer on another stream has finished because the node
  that gave the event is no older and on the same stream.

`SessionInv` joins this with the planner. `PlannerInv`: the topology the bridge
builds is one that 5.1 assumes (its proof shows `AliasesReadTheirPort` for it), so
`LayoutInv` and `CoverInv` hold of the composed planner. `SerialInv` and `HostInv`: with one stream the nodes run in the
order of the list, after every input was copied. `FreshInv`: a value that was
delivered and that a node still to finish may read is in its bytes, of graph inputs only
if all are live from the first step (`Protected`). Writing another
value does not disturb it because both are live at that step, and values live at a
common step share no byte. `SerialReadsStayFresh` has the hypothesis `OffsetsFitInt32`
(twice the workspace is below the number of int32 values): beyond it the offset of an
input that `PlanGraph` publishes is another one than the plan's, which the model has
and the run's sizes do not reach.

### 5.6 `FrontEndProofs`

| Theorem | Property | Invariant behind it |
|---|---|---|
| `ReadsResolveToLatest` | `ReadsAreResolved` | `LoweringInv` |
| `TyperInvIsInvariant` | `TyperInv` | inductive |
| `GraphStaysTopological` | `StaysTopological` | `TyperInv` |
| `ReadsKeepTheirMeaning` | `ReadsSeeTheLatestBinding` | `TyperInv` |
| `DTypesAreMended` | `NoDTypeMismatchSurvives` | `TyperInv` and `MendedInv` |

For every set of topologies, checkpoints, extensions of the contract table and every
number of rounds, under `ExtensionsAssumption`, `SourcesAssumption` and
`MaxRoundsAssumption`.

- `LoweringInv`: the table of producers is the latest binders at the node reached, and
  each node lowered so far has the reads the manifest means. It carries from lowering
  until the typer starts. The expansion of repeats is a flattening by folds and is not
  reasoned about: the topology is whatever it returns.
- `GraphInv`: IDs do not repeat and every node comes after what it reads; an edge of
  the manifest is plain, or goes through one adaptor, or through two of different
  kinds (`Chained`), each with the ID made from its consumer and slot. That an
  inserted ID is new follows from where the errors come from, not from the graph.
- `WalkInv`: each error a round has collected names an edge of the graph as it is now,
  no two the same, and what the adaptor will be called is not there yet
  (`ErrorsOf`, `EdgesDiffer`). During the walk the errors are about the nodes passed;
  during the synthesis about those not yet served. A transpose is asked for only
  when the edge carries no other dtype than the one wanted, and what an adaptor
  delivers is what was asked for, so an edge never gets the same kind twice.
- `ReadsInv` and `FrontInv`: what `LoweringInv` gives, for reads taken through their
  chains (`SourceIs`). An insertion lengthens one chain and leaves its source alone.
- `MendedInv`: of each edge whose consumer the first round has passed, the dtype
  agrees, or a cast is pending among the errors, or the source is weak: without a
  dtype, of an operation without contract, or with a transpose on its first input.
  `NoDTypeMismatchSurvives` alone is not inductive, since in the middle of a round
  mismatches are everywhere; and when the typer accepts a graph no error is pending,
  so the first or the last alternative is left. A round with an error that has no hint
  is exempt, as it ends the typer (`Doomed`).

What an operation derives enters through `IsDerivedType`: which dtype and layout each
deriver answers. Shapes and their bindings do not matter to these theorems.

### 5.7 `ProgramExecutorProofs`

| Theorem | Property | Invariant behind it |
|---|---|---|
| `TensorsStayOpen` | `NamesHoldOpenTensors` | `RunInv` |
| `ConversationIsCached` | `CallsSeeTheConversation` | `RunInv` and `ChatInv` |
| `ImagesAreComplete` | `ImagesUseTheWholeSchedule` | `RunInv` and `DiffusionInv` |

The first for every program that `IsProgram` admits: bodies nest at most twice, a step
writes as many names as its operation does, in place only onto the name it read, and
what is taken for state is declared as state. The other two for sessions of the two
shipped programs, with any page size, cache, prompts, decode and inference steps,
lines and runs. Further assumptions: there are more tensors than names
(`TensorIdsAssumption`), and a prompt is a sequence.

- `Owns` (part of `RunInv`): no tensor has two names, neither two values, nor two
  slots, nor a value and a slot, and no closed tensor has one. `NamesHoldOpenTensors`
  alone is not inductive: overwriting one of two names closes what the other holds. An
  upload is a tensor without a name, an in-place update stores what its target
  held, and everything else is moved, not shared.
- `Nested` (the other part): each frame runs a body of the program, and the frame
  below stands at the loop that has this body. The current step is a step of the program
  for this reason, and leaving a loop goes on behind it.
- `ChatInv` follows a turn. `ChatData`: the position counts the tokens that were done,
  the pages hold them at their positions, and the table lists the pages in order as far
  as they are needed. `ChatPhase`: at the call the slots hold the plan for the
  tokens the call reads, and until the position advances what it will be advanced by
  is as long as what the call wrote. A call that fails half way writes behind the tokens the position
  counts, so what is counted is untouched, and the next plan starts over the same places.
- `DiffusionInv`: at each place of the program (`Place`) what the latents and the
  schedule hold. In the loop `Denoised`: after n iterations at step counter s, the
  latents are the n deltas that end with the one at s, and n is at most s. A session
  whose counter is above 0 at the start has s above n throughout; its schedule
  ends before the loop does and the run fails. So a run that succeeds has both equal
  to the number of steps.

### 5.8 `OptimizerProofs`

| Theorem | Property |
|---|---|
| `GraphStaysWhole` | the inductive invariant `StructureInv` |
| `NothingEverDangles` | `NothingDangles` |
| `OutputsStayInTheGraph` | `OutputsStayMaterialized` |
| `OrderSurvivesThePasses` | `StaysOrdered` |
| `OutputsKeepTheirMeaning` | `OutputsKeepMeaning`, for graphs that are `Expressible` |

For every finite set of names and every graph. `OptGraphsAssumption` says what a
graph is that `CompileGraph` hands over: IDs of their own, no fused node yet, and
nodes that do not wait for each other.

That last part, stated over sets of nodes, gives every graph a rank in which reads
fall (`GraphsHaveRanks`, by taking one node after the other), and with a rank the
three recursions are defined: `RankedRecursion` shows that a function whose value
at a name only depends on lower ranks exists, once, for all of `Target` (towards
the reads), `Cluster` and `Leaves` (where only live nodes have ranks of their own,
`Lifted`). What they return follows by taking the name of least rank for which it
would not hold, for example that a cluster is live, that only its root is read
from outside, and that its leaves are what it reads from outside
(`ClusterIsClosed`).

`NothingDangles` is not inductive: the fuser takes nodes out for a count of
consumers that was taken before the first cluster. `StructureInv` has the reason,
`Counted`: a count of one is still a sole reference, from one operand of one live
node or from one output, although earlier clusters have moved references since. A
fused node reads each leaf of its cluster once, in place of a read that the cluster
had; a name whose only read was by an absorbed node is read by the fused one, and
a name with an output besides has a count of two. `Connected` says that live nodes
and outputs refer to live nodes and graph inputs, `Materialized` that an output
keeps its name unless it named an identity, and `StillFalls` and `StillRises` that
every rank of the graph that was handed over is a rank of the graph now, and every
rank that rises along its list rises along the list now. A list in dependency order
has its positions for such a rank. `Anchored` covers the absorbed nodes, which stay
in the list until `EndFuse`.

`OutputsKeepTheirMeaning` has a hypothesis besides, `Expressible` of each graph,
which is the condition on the run's graphs too. Its invariant `ValuesInv` does not
compare two evaluations. It takes the values W of the graph that was handed over
(`SourceIsComputed`: they exist, rank by rank, without a set they would be in) and
says of the graph now that they still fit (`Agrees`): every node has the value its
operation gives from W, every member of a fused node's table too, and an output has
the value of the name it had at first. A fold replaces an equation by the number it
gives; a rewrite replaces names by names of the same value, as W has one value along
a chain of identities; a fusion moves the equations of its cluster into the table. No
step has to evaluate anything. At the end values that fit are the meaning
(`AgreeingIsMeaning`, and `FusedFits` for a table). `Scales` keeps the part of
`Expressible` that the fuser needs, through identities that come to be removed: no
cluster takes a scale, since what reads one is linear and what one reads is not
elementwise. `Tables` says that an expression reads its own nodes, in the order of the
ranks, and the inputs of the fused node.

### 5.9 Model-checked only

`RefusalsAreExact`, where three stages have to agree on which graphs are faulty.
Liveness (`PlannerEnds`, `PassesEnd`, `RunsToCompletion`, and the fair half of
`ImplementsDataflow`), because TLAPS has no rule here for ENABLED. `UnifierIsMostGeneral`, whose folds
over shapes nothing can be proved about by induction. `ThreeRoundsSuffice`: three
rounds are enough for the table of contracts the code has, and are not for every
extension of it. `LayersReadTheirPredecessor`, a statement about the manifests of
the run, and `RerunChangesNothing`, for which the symbols bound by the end of
one run would have to be compared with those bound at each node of the next.

## 6. What is not modelled

- Nil nodes and ports, and messages of errors: each stage rejects nil first.
- `newPlanningNode`'s operation lookup (its error ends the compilation like the
  others; the operations are data).
- `PortByteSize`: the product of dimensions, symbol lookup and its int64
  overflow are data behind `bytes`.
- The session's cache and call interface around the execution.
- `codegen`, `parse`, `catalog`, `resolve`, `asset`, the readers of `weights`: emission of
  source text, YAML, files, the hub and native compilers. They keep no state that
  a protocol depends on.
- The autograd tape (`tensor/autograd.go`) and the fusion clusters (`ir/fusion.go`): only
  their own tests call them. `accumulateGrad` keeps the first delta by reference and
  adds into it in place, where its comment speaks of allocating one; no kernel in the
  repository exists that could share one.
- Sparse tensors: a container and bounds checks.
- Of the element types: the wider integers, float64, and the parsing of names.
- Of the front end: the walk over templates and includes, and the wording of errors.
  The checkpoint is a map from names to shapes and dtypes.
- One run over the whole pipeline: each stage's run starts from the graphs the stage
  before may hand it, in place of what one stage made of one manifest.
- Of the optimizer: tiling (it attaches attributes that nothing reads), and a
  scale by an attribute that is fused with its reader (the tree is a product of
  one operand, which has no value); graphs whose identities form a cycle.
- Of the tensors: zero-byte tensors, the closed flag of the backend, the states
  pending and mutating (nothing enters them), and tensors over bytes the caller
  owns. Slices and reshapes are made, but no
  property claims anything of their bytes. The contents of tensors are not in the model, so neither is
  what `Reset` discards when it advises the arena's pages away (`arena.go:103`).
- Of the runtime: `value.assign` and `value.append` (no shipped program has
  them), bodies without a loop, initial values, the stdin fallback, concurrent
  runs of one session, and the truncation of a position to int32.
