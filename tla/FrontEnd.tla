------------------------------ MODULE FrontEnd ------------------------------
(****************************************************************************)
(* The compilation of one topology up to the planner: CompileGraph of       *)
(* src/compiler/graph_pipeline.go and its callers in program.go. A topology *)
(* is lowered, its weights are bound, the typer runs, the optimizer runs    *)
(* and the typer again, the operations are checked against the registry and *)
(* the caller's bindings are merged in. What the optimizer rewrites is the  *)
(* subject of Optimizer; here it hands the graph back as it was, and the    *)
(* second run of the typer has to leave it so. Kernels are attached to      *)
(* nodes without touching what is modelled.                                 *)
(****************************************************************************)
EXTENDS TopologyLowering, Typer

CONSTANTS Sources,          \* [topology, checkpoint, disableSynthesis]
          PlannerBindings   \* the caller's sizes for symbols

IsAdaptor(name) == Len(name) = 4 /\ name[1] = "adaptor"

\* An expanded manifest is a list of nodes. No name in it is the ID of an
\* adaptor, and what a manifest writes under dtype is a string, not a dtype.
IsManifest(list) ==
  /\ list \in Seq(NamesOf(list))
  /\ \A i \in DOMAIN list : /\ list[i].in \in Seq(NamesOf(list[i].in))
                            /\ ~IsAdaptor(list[i].id)
                            /\ "dtype" \notin DOMAIN list[i].config

ASSUME SourcesAssumption ==
  \A source \in Sources :
    LET top == source.topology IN
    /\ DOMAIN top = {"inputs", "outputs", "nodes", "bindings"}
    /\ top.inputs \in Seq(NamesOf(top.inputs))
    /\ \A name \in NamesOf(top.inputs) : ~IsAdaptor(name)
    /\ (\A i \in DOMAIN top.nodes :
          IsRepeat(top.nodes[i]) => RepeatIsWellFormed(top.nodes[i]))
         => IsManifest(Expand(top.nodes))

VARIABLES runs   \* calls of typer.Run begun

frontEndVars == <<graphVars, stage, position, loweringVars, disableSynthesis,
                  round, inferVars, unresolved, runs>>

FrontEndInit ==
  /\ \E source \in Sources : /\ topology = source.topology
                             /\ checkpoint = source.checkpoint
                             /\ disableSynthesis = source.disableSynthesis
  /\ nodes = <<>> /\ boundary = <<>> /\ outputs = <<>>
  /\ executionDType = "Invalid" /\ bindings = NoBindings
  /\ stage = "expand" /\ position = 1
  /\ producers = <<>> /\ dag = <<>>
  /\ round = 0 /\ producerTypes = <<>> /\ scratch = NoBindings
  /\ edgeErrors = <<>> /\ unresolved = <<>> /\ runs = 0

------------------------------------------------------------------------------
\* SkipTyper is an option of the caller; so is SkipOptimizer.
RunTyper == /\ stage = "bound"
            /\ StartRun
            /\ runs' = 1
            /\ UNCHANGED loweringVars

SkipTyper == /\ stage = "bound"
             /\ stage' = "checked"
             /\ UNCHANGED <<graphVars, position, loweringVars, disableSynthesis,
                            round, inferVars, unresolved, runs>>

OptimizeAndRetype == /\ stage = "typed" /\ runs = 1
                     /\ StartRun
                     /\ runs' = 2
                     /\ UNCHANGED loweringVars

SkipOptimizer == /\ stage = "typed"
                 /\ stage' = "checked"
                 /\ UNCHANGED <<graphVars, position, loweringVars,
                                disableSynthesis, round, inferVars, unresolved,
                                runs>>

\* validateOneGraphOp: a registered operation needs a binding for its number
\* of inputs; an operation outside the registry needs a contract of the typer.
IsSupported(node) ==
  \/ node.op = "value.assign"
  \/ node.op \in DOMAIN Registry
       /\ Len(node.inputs) \in Registry[node.op].binds
  \/ node.op \notin DOMAIN Registry /\ HasSpec(node.op)

ValidateOps ==
  /\ stage = "checked"
  /\ stage' = IF \A i \in DOMAIN nodes : IsSupported(nodes[i])
              THEN "valid" ELSE "unsupported"
  /\ UNCHANGED <<graphVars, position, loweringVars, disableSynthesis, round,
                 inferVars, unresolved, runs>>

\* runPlanner, mergeSymbolMaps: the caller may add sizes, not change them. A
\* graph that was not typed is not planned.
MergeBindings ==
  /\ stage = "valid" /\ runs > 0
  /\ IF \E s \in DOMAIN bindings \cap DOMAIN PlannerBindings :
          bindings[s] # PlannerBindings[s]
     THEN stage' = "conflict" /\ UNCHANGED bindings
     ELSE stage' = "planned" /\ bindings' = Overlay(bindings, PlannerBindings)
  /\ UNCHANGED <<nodes, boundary, outputs, executionDType, position,
                 loweringVars, disableSynthesis, round, inferVars, unresolved,
                 runs>>

FinalStages ==
  {"not expanded", "not lowered", "not bound", "refused", "hard failure",
   "unconverged", "unsupported", "conflict", "planned"}

Compiled == /\ stage \in FinalStages \/ (stage = "valid" /\ runs = 0)
            /\ UNCHANGED frontEndVars

FrontEndNext ==
  \/ LoweringNext /\ UNCHANGED <<disableSynthesis, round, inferVars, unresolved,
                                 runs>>
  \/ RunTyper \/ SkipTyper \/ OptimizeAndRetype \/ SkipOptimizer
  \/ TyperNext /\ UNCHANGED <<loweringVars, runs>>
  \/ ValidateOps \/ MergeBindings
  \/ Compiled

FrontEndSpec == FrontEndInit /\ [][FrontEndNext]_frontEndVars

------------------------------------------------------------------------------
Lowered == stage \notin {"expand", "lower", "not expanded", "not lowered"}

NodeCalled(name) == nodes[CHOOSE i \in DOMAIN nodes : nodes[i].id = name]

\* What an edge reads when the adaptors on it are looked through: there are at
\* most two of them, one for the dtype and one for the layout.
BehindAdaptor(name) ==
  IF IsAdaptor(name) THEN NodeCalled(name).inputs[1] ELSE name
Origin(name) == BehindAdaptor(BehindAdaptor(name))

\* The producer a manifest means by a name at its node i: the last node before
\* i that declares the name as its ID or as an output, else the graph input.
LatestBinder(name, i) ==
  LET binders == {j \in 1 .. i - 1 : name \in Binds(topology.nodes[j])}
  IN  IF binders = {} THEN name
      ELSE topology.nodes[CHOOSE j \in binders :
                            \A k \in binders : k <= j].id

\* Every read of a manifest, and every output, is served by the producer that
\* bound the name last before it, whatever was rebound later and however many
\* adaptors the typer put on the edge (topology_lower.go:182-184, in-place
\* state updates are written this way).
ReadsSeeTheLatestBinding ==
  Lowered =>
    /\ \A i \in DOMAIN topology.nodes : \E n \in DOMAIN nodes :
         /\ nodes[n].id = topology.nodes[i].id
         /\ [k \in DOMAIN nodes[n].inputs |-> Origin(nodes[n].inputs[k])]
              = [k \in DOMAIN Reads(topology.nodes[i]) |->
                   LatestBinder(Reads(topology.nodes[i])[k], i)]
    /\ \A name \in DOMAIN outputs :
         outputs[name] = LatestBinder(OutputRef(name), Len(topology.nodes) + 1)

\* At every moment each node comes after everything it reads and no ID occurs
\* twice: the typer walks the list once, and an adaptor inserted at a stale
\* index would be typed after the node it feeds (adaptor.go:77-99).
StaysTopological ==
  /\ \A i, j \in DOMAIN nodes : i # j => nodes[i].id # nodes[j].id
  /\ Lowered =>
       \A i \in DOMAIN nodes : \A k \in DOMAIN nodes[i].inputs :
         \/ nodes[i].inputs[k] \in NamesOf(boundary)
         \/ \E j \in 1 .. i - 1 : nodes[j].id = nodes[i].inputs[k]

\* The type an edge carries in a finished graph.
CarriedType(name) ==
  IF name \in IDs THEN NodeCalled(name).outputType ELSE GraphInputPortType(name)

WellTyped == stage \in {"typed", "planned"} /\ runs > 0 /\ ~disableSynthesis

\* A transpose is on the edge, next to its source or behind a cast.
IsTransposed(read) ==
  \E name \in {read, BehindAdaptor(read)} :
    IsAdaptor(name) /\ name[2] = "transpose"

\* A node that may have been without a type when the nodes reading it were
\* typed: its first input had to be transposed before it got one, or its
\* operation has no contract.
IsTypedLate(node) ==
  \/ ~HasSpec(node.op)
  \/ node.inputs # <<>> /\ IsTransposed(node.inputs[1])

\* In a graph the typer accepted no operation reads a dtype it does not take:
\* casts are explicit (unify.go:38-40), so one must have been inserted. A
\* source without a dtype is a wildcard, and what reads it keeps the type it
\* got from it (infer.go:91-100): the edge is not looked at again when the
\* source gets its type a round later (unify.go:148-158).
NoDTypeMismatchSurvives ==
  WellTyped =>
    \A i \in DOMAIN nodes : HasSpec(nodes[i].op) =>
      \A k \in DOMAIN nodes[i].inputs :
        LET read == nodes[i].inputs[k]
            carried == CarriedType(read)
        IN  \/ CarriedType(Origin(read)).dtype = "Invalid"
            \/ Origin(read) \in IDs /\ IsTypedLate(NodeCalled(Origin(read)))
            \/ DTypesAgree(carried,
                           ExpectedType(LookupSpec(nodes[i].op), k, carried))

\* The sizes a shape takes when its symbols have the values v.
Instance(shape, v) ==
  [i \in DOMAIN shape |->
     IF IsSymbolic(shape[i]) THEN v[shape[i].symbol] ELSE shape[i].static]
SymbolsOf(shape) ==
  {shape[i].symbol : i \in {k \in DOMAIN shape : IsSymbolic(shape[k])}}

\* Unify of two shapes finds the most general unifier: it succeeds just when
\* some sizes of the symbols make both shapes the same, and the bindings and
\* equalities it returns describe exactly those sizes (unify.go:47-51,
\* :186-189). Constraints, dtypes, layouts and kinds are kept out of the way.
UnifierIsMostGeneral ==
  stage = "nodes" /\ position \in DOMAIN nodes =>
    LET node == nodes[position] IN
    HasSpec(node.op) => \A slot \in DOMAIN node.inputs :
      LET produced == ProducerType(node.inputs[slot]).shape
          expected == ExpectedType(LookupSpec(node.op), slot,
                                   ProducerType(node.inputs[slot])).shape
          unified == Unify(Reshaped(AnyTensor, produced),
                           Reshaped(AnyTensor, expected))
          Same(v) == Instance(produced, v) = Instance(expected, v)
          Valuations == [SymbolsOf(produced) \cup SymbolsOf(expected)
                           -> {1, 2} \cup {d.static : d \in NamesOf(produced)
                                                      \cup NamesOf(expected)}]
      IN  /\ unified.ok <=> \E v \in Valuations : Same(v)
          /\ unified.ok => \A v \in Valuations :
               Same(v) <=>
                 /\ \A s \in DOMAIN unified.bindings : v[s] = unified.bindings[s]
                 /\ \A c \in unified.type.constraints : v[c.left] = v[c.right]
                 /\ Instance(unified.type.shape, v) = Instance(produced, v)

\* Three rounds are enough for every graph: an edge needs at most one cast and
\* one transpose, and the default of three leaves a round to see that it is
\* mended (run.go:13-18, :107).
ThreeRoundsSuffice == MaxRounds >= 3 => stage # "unconverged"

\* Running the typer again on a graph it accepted inserts nothing and changes
\* no type (adaptor.go:24-26).
RerunChangesNothing == [][runs = 2 => nodes' = nodes]_frontEndVars
==============================================================================
