---------------------------- MODULE FrontEndProofs ----------------------------
(****************************************************************************)
(* Theorems about FrontEnd: what the lowering of src/compiler resolves each *)
(* read of a manifest to, and what the typer of src/typer does to the graph *)
(* afterwards, at every moment of a compilation, for every topology,        *)
(* checkpoint, registry and number of rounds.                               *)
(*                                                                          *)
(* LoweringInv is the invariant until the typer takes the graph over: the   *)
(* graph holds the nodes lowered so far, each reading what the name meant   *)
(* at its place, and the table of producers the latest binders.             *)
(*                                                                          *)
(* TyperInv is the inductive invariant. Its first part is about the graph:  *)
(* IDs do not repeat, every node comes after what it reads, and every edge  *)
(* of the manifest is still one edge behind a chain of adaptors, at most    *)
(* one cast and one transpose, whose last link delivers what the consumer   *)
(* expects as far as adaptors for it were inserted. The second part is      *)
(* about the errors a round collects: each names an edge of the graph as it *)
(* is now, no two name the same one, and the adaptor a hint asks for is not *)
(* on the edge yet, which is why its ID is new. Without the second part the *)
(* first is not inductive: two errors with one hint for one edge, or an     *)
(* error that survived a change of its edge, would insert an ID twice.      *)
(*                                                                          *)
(* MendedInv is about dtypes. What ends up on an edge is decided in the     *)
(* first round that types its producer: a typed node is never looked at     *)
(* again. So from the moment the walk has come by a node each of its edges  *)
(* agrees, or the round has an error that will put a cast on it, or what    *)
(* the edge starts at is weak: it has no dtype now and possibly never, or   *)
(* is typed in a later round than its consumer. The exceptions are the      *)
(* nodes the first round has not come to, and a round one of whose errors   *)
(* has no hint: such a round ends the typer with an error.                  *)
(****************************************************************************)
EXTENDS FrontEnd, OrderLemmas, SequenceTheorems, TLAPS
------------------------------------------------------------------------------
(* The lowering.                                                            *)

\* What node i of the topology reads, by the latest binding before it.
LatestReads(i) ==
  [k \in DOMAIN Reads(topology.nodes[i]) |->
     LatestBinder(Reads(topology.nodes[i])[k], i)]

LoweredNode(i) ==
  GraphNode(topology.nodes[i].id, topology.nodes[i].op, LatestReads(i),
            topology.nodes[i].config, RequestedWeights(topology.nodes[i]))

\* Until the typer starts each node of the graph reads what the manifest means,
\* and each output is the one the manifest means after its last node.
ReadsAreResolved ==
  stage \in {"bind", "bound"} =>
    /\ \A i \in DOMAIN nodes : /\ nodes[i].id = topology.nodes[i].id
                               /\ nodes[i].inputs = LatestReads(i)
    /\ \A name \in DOMAIN outputs :
         outputs[name] = LatestBinder(OutputRef(name), Len(nodes) + 1)

\* The inductive invariant: the graph holds the first position - 1 nodes, and
\* the producers are the latest binders at the position.
LoweringInv ==
  /\ stage \in {"lower", "bind", "bound"} =>
       /\ position \in Nat \ {0}
       /\ \E S : nodes \in Seq(S)
       /\ Len(nodes) = position - 1
       /\ stage \in {"lower", "bind"} =>
            \A i \in 1 .. position - 1 : nodes[i] = LoweredNode(i)
       /\ \A i \in 1 .. position - 1 : /\ nodes[i].id = topology.nodes[i].id
                                       /\ nodes[i].inputs = LatestReads(i)
       /\ \A name \in DOMAIN producers :
            producers[name] = LatestBinder(name, position)
  /\ stage \in {"bind", "bound"} =>
       \A name \in DOMAIN outputs :
         outputs[name] = LatestBinder(OutputRef(name), position)
  /\ stage = "expand" => nodes = <<>>

------------------------------------------------------------------------------
BindersBefore(name, i) == {j \in 1 .. i - 1 : name \in Binds(topology.nodes[j])}
Latest(binders) == CHOOSE j \in binders : \A k \in binders : k <= j

LEMMA LatestBinderIs ==
  ASSUME NEW name, NEW i
  PROVE  LatestBinder(name, i)
           = IF BindersBefore(name, i) = {} THEN name
             ELSE topology.nodes[Latest(BindersBefore(name, i))].id
BY DEF LatestBinder, BindersBefore, Latest

\* A node rebinds the names it binds and leaves the others as they were.
LEMMA LatestBinderStep ==
  ASSUME NEW i \in Nat \ {0}, NEW name
  PROVE  LatestBinder(name, i + 1)
           = IF name \in Binds(topology.nodes[i]) THEN topology.nodes[i].id
             ELSE LatestBinder(name, i)
<1>1. \A j \in 1 .. i : j \in 1 .. i - 1 \/ j = i
  OBVIOUS
<1>2. CASE name \in Binds(topology.nodes[i])
  <2>1. /\ i \in BindersBefore(name, i + 1)
        /\ \A k \in BindersBefore(name, i + 1) : k \in 1 .. i
    BY <1>2 DEF BindersBefore
  <2>2. \A j \in BindersBefore(name, i + 1) :
           (\A k \in BindersBefore(name, i + 1) : k <= j) => j = i
    BY <2>1
  <2>3. Latest(BindersBefore(name, i + 1)) = i
    BY <2>1, <2>2 DEF Latest
  <2> QED
    BY <1>2, <2>1, <2>3, LatestBinderIs
<1>3. CASE name \notin Binds(topology.nodes[i])
  <2>1. BindersBefore(name, i + 1) = BindersBefore(name, i)
    BY <1>1, <1>3 DEF BindersBefore
  <2> QED
    BY <1>3, <2>1, LatestBinderIs
<1> QED
  BY <1>2, <1>3

LEMMA NothingBoundFirst ==
  ASSUME NEW name
  PROVE  LatestBinder(name, 1) = name
BY DEF LatestBinder

LEMMA ExpandEstablishes ==
  ASSUME LoweringInv, ExpandTopology
  PROVE  LoweringInv'
<1>1. /\ stage = "expand" /\ stage' = "lower" /\ position' = 1
      /\ nodes' = nodes /\ nodes = <<>>
  BY DEF ExpandTopology, LoweringInv
<1>2. \A name \in DOMAIN producers' : producers'[name] = name
  BY DEF ExpandTopology
<1>3. \A name : LatestBinder(name, position)' = name
  <2>1. \A name : LatestBinder(name, 1)' = name
    BY DEF LatestBinder
  <2> QED
    BY <1>1, <2>1 DEF LatestBinder
<1>4. nodes' \in Seq({}) /\ Len(nodes') = 0
  BY <1>1
<1> QED
  BY <1>1, <1>2, <1>3, <1>4 DEF LoweringInv

LEMMA LowerNodePreserves ==
  ASSUME LoweringInv, LowerNode
  PROVE  LoweringInv'
<1> DEFINE node == topology.nodes[position]
           added == GraphNode(node.id, node.op, ResolvedInputs(node), node.config,
                              RequestedWeights(node))
<1>1. /\ stage = "lower" /\ stage' = "lower" /\ position' = position + 1
      /\ topology' = topology /\ CanLower(node)
      /\ nodes' = Append(nodes, added)
      /\ producers' = Overlay(producers, [name \in Binds(node) |-> node.id])
  BY DEF LowerNode
<1>2. /\ position \in Nat \ {0} /\ Len(nodes) = position - 1
      /\ \A i \in 1 .. position - 1 : nodes[i] = LoweredNode(i)
      /\ \A name \in DOMAIN producers : producers[name] = LatestBinder(name, position)
  BY <1>1 DEF LoweringInv
<1>3. PICK S : nodes \in Seq(S)
  BY <1>1 DEF LoweringInv
<1> HIDE DEF added
<1>4. /\ nodes' \in Seq(S \cup {added}) /\ Len(nodes') = position
      /\ \A i \in 1 .. position - 1 : nodes'[i] = nodes[i]
      /\ nodes'[position] = added
  <2>1. nodes \in Seq(S \cup {added})
    BY <1>3, LenProperties, SeqDef
  <2> QED
    BY <1>1, <1>2, <2>1, AppendProperties
<1>5. ResolvedInputs(node) = LatestReads(position)
  <2>1. \A k \in DOMAIN Reads(node) : Reads(node)[k] \in DOMAIN producers
    BY <1>1 DEF CanLower, NamesOf
  <2> QED
    BY <1>2, <2>1 DEF ResolvedInputs, LatestReads
<1>6. added = LoweredNode(position)
  BY <1>5 DEF added, LoweredNode
<1>7. /\ \A name, i : LatestBinder(name, i)' = LatestBinder(name, i)
      /\ \A i : LatestReads(i)' = LatestReads(i) /\ LoweredNode(i)' = LoweredNode(i)
  BY <1>1 DEF LatestBinder, LatestReads, LoweredNode
<1>8. \A i \in 1 .. position : nodes'[i] = LoweredNode(i)
  <2>1. \A i \in 1 .. position : i \in 1 .. position - 1 \/ i = position
    BY <1>2
  <2> QED
    BY <1>2, <1>4, <1>6, <2>1
<1>9. \A i \in 1 .. position : /\ nodes'[i].id = topology.nodes[i].id
                               /\ nodes'[i].inputs = LatestReads(i)
  <2> SUFFICES ASSUME NEW i \in 1 .. position
               PROVE  nodes'[i].id = topology.nodes[i].id /\ nodes'[i].inputs = LatestReads(i)
    OBVIOUS
  <2>1. nodes'[i] = GraphNode(topology.nodes[i].id, topology.nodes[i].op, LatestReads(i),
                              topology.nodes[i].config,
                              RequestedWeights(topology.nodes[i]))
    BY <1>8 DEF LoweredNode
  <2> QED
    BY <2>1 DEF GraphNode
<1>10. \A name \in DOMAIN producers' : producers'[name] = LatestBinder(name, position + 1)
  <2> SUFFICES ASSUME NEW name \in DOMAIN producers'
               PROVE  producers'[name] = LatestBinder(name, position + 1)
    OBVIOUS
  <2>1. /\ name \in DOMAIN producers \cup Binds(node)
        /\ producers'[name] = IF name \in Binds(node) THEN node.id ELSE producers[name]
    BY <1>1 DEF Overlay
  <2> QED
    BY <1>2, <2>1, LatestBinderStep
<1>11. \A name \in DOMAIN producers' : producers'[name] = LatestBinder(name, position)'
  <2>1. \A name : BindersBefore(name, position)' = BindersBefore(name, position + 1)
    BY <1>1 DEF BindersBefore
  <2>2. \A name : LatestBinder(name, position)'
                    = IF BindersBefore(name, position)' = {} THEN name
                      ELSE topology'.nodes[Latest(BindersBefore(name, position)')].id
    BY DEF LatestBinder, BindersBefore, Latest
  <2>3. \A name : LatestBinder(name, position)' = LatestBinder(name, position + 1)
    BY <1>1, <2>1, <2>2, LatestBinderIs
  <2> QED
    BY <1>10, <2>3
<1> QED
  BY <1>1, <1>2, <1>4, <1>7, <1>8, <1>9, <1>11 DEF LoweringInv

\* Binding the weights fills in two fields of a node and keeps its edges.
LEMMA BindWeightsPreserves ==
  ASSUME LoweringInv, BindWeights
  PROVE  LoweringInv'
<1>1. /\ stage = "bind" /\ stage' = "bound" /\ position' = position
      /\ topology' = topology /\ producers' = producers /\ outputs' = outputs
  BY DEF BindWeights, loweringVars
<1>2. PICK dtype :
        nodes' = [i \in DOMAIN nodes |->
                    [Bind1(nodes[i], checkpoint[1]) EXCEPT !.valueType = dtype]]
  BY DEF BindWeights
<1>3. /\ position \in Nat \ {0} /\ Len(nodes) = position - 1
      /\ \A i \in 1 .. position - 1 : nodes[i] = LoweredNode(i)
  BY <1>1 DEF LoweringInv
<1>4. DOMAIN nodes = 1 .. position - 1
  BY <1>1, <1>3, LenProperties DEF LoweringInv
<1>5. \A i \in 1 .. position - 1 : /\ nodes'[i].id = nodes[i].id
                                   /\ nodes'[i].inputs = nodes[i].inputs
  <2> SUFFICES ASSUME NEW i \in 1 .. position - 1
               PROVE  nodes'[i].id = nodes[i].id /\ nodes'[i].inputs = nodes[i].inputs
    OBVIOUS
  <2>1. nodes[i] = GraphNode(topology.nodes[i].id, topology.nodes[i].op, LatestReads(i),
                             topology.nodes[i].config,
                             RequestedWeights(topology.nodes[i]))
    BY <1>3 DEF LoweredNode
  <2>2. nodes'[i] = [Bind1(nodes[i], checkpoint[1]) EXCEPT !.valueType = dtype]
    BY <1>2, <1>4
  <2>3. \/ Bind1(nodes[i], checkpoint[1]) = nodes[i]
        \/ \E w : Bind1(nodes[i], checkpoint[1]) = [nodes[i] EXCEPT !.weights = w]
    BY DEF Bind1
  <2>4. PICK w : Bind1(nodes[i], checkpoint[1])
                   = GraphNode(topology.nodes[i].id, topology.nodes[i].op,
                               LatestReads(i), topology.nodes[i].config, w)
    <3>1. CASE Bind1(nodes[i], checkpoint[1]) = nodes[i]
      BY <2>1, <3>1
    <3>2. ASSUME NEW w, Bind1(nodes[i], checkpoint[1]) = [nodes[i] EXCEPT !.weights = w]
          PROVE  Bind1(nodes[i], checkpoint[1])
                   = GraphNode(topology.nodes[i].id, topology.nodes[i].op,
                               LatestReads(i), topology.nodes[i].config, w)
      BY <2>1, <3>2 DEF GraphNode
    <3> QED
      BY <2>3, <3>1, <3>2
  <2>5. /\ nodes[i].id = topology.nodes[i].id
        /\ nodes[i].inputs = LatestReads(i)
    BY <2>1 DEF GraphNode
  <2> QED
    BY <2>2, <2>4, <2>5 DEF GraphNode
<1>6. nodes' \in Seq({nodes'[i] : i \in 1 .. position - 1}) /\ Len(nodes') = position - 1
  <2> DEFINE T == {nodes'[i] : i \in 1 .. position - 1}
  <2>1. nodes' \in [1 .. position - 1 -> T]
    BY <1>2, <1>4
  <2> QED
    BY <1>3, <2>1, SeqDef, LenProperties
<1>7. /\ \A name, i : LatestBinder(name, i)' = LatestBinder(name, i)
      /\ \A i : LatestReads(i)' = LatestReads(i)
      /\ \A name : OutputRef(name)' = OutputRef(name)
  BY <1>1 DEF LatestBinder, LatestReads, OutputRef
<1>8. /\ \A name \in DOMAIN producers : producers[name] = LatestBinder(name, position)
      /\ \A name \in DOMAIN outputs : outputs[name] = LatestBinder(OutputRef(name), position)
  BY <1>1 DEF LoweringInv
<1>9. /\ \A name : LatestBinder(name, position)' = LatestBinder(name, position)
      /\ \A name : LatestBinder(OutputRef(name), position)'
                     = LatestBinder(OutputRef(name), position)
  BY <1>1 DEF LatestBinder, OutputRef
<1>10. \A i \in 1 .. position - 1 : /\ nodes'[i].id = topology.nodes[i].id
                                    /\ nodes'[i].inputs = LatestReads(i)
  BY <1>1, <1>5 DEF LoweringInv
<1> QED
  BY <1>1, <1>3, <1>6, <1>7, <1>8, <1>9, <1>10 DEF LoweringInv

LEMMA ResolveOutputsPreserves ==
  ASSUME LoweringInv, ResolveOutputs
  PROVE  LoweringInv'
<1>1. /\ stage = "lower" /\ stage' = "bind" /\ position' = position /\ nodes' = nodes
      /\ topology' = topology /\ producers' = producers
      /\ \A name \in OutputNames : OutputRef(name) \in DOMAIN producers
      /\ outputs' = [name \in OutputNames |-> producers[OutputRef(name)]]
  BY DEF ResolveOutputs, loweringVars
<1>2. \A name \in DOMAIN outputs' : outputs'[name] = LatestBinder(OutputRef(name), position)
  BY <1>1 DEF LoweringInv
<1>3. /\ \A name, i : LatestBinder(name, i)' = LatestBinder(name, i)
      /\ \A i : LatestReads(i)' = LatestReads(i) /\ LoweredNode(i)' = LoweredNode(i)
      /\ \A name : LatestBinder(name, position)' = LatestBinder(name, position)
      /\ \A name : LatestBinder(OutputRef(name), position)'
                     = LatestBinder(OutputRef(name), position)
  BY <1>1 DEF LatestBinder, LatestReads, LoweredNode, OutputRef
<1> QED
  BY <1>1, <1>2, <1>3 DEF LoweringInv

\* A step that ends the lowering, or comes before or after it.
LEMMA OutsideLowering ==
  ASSUME stage' \notin {"expand", "lower", "bind", "bound"}
  PROVE  LoweringInv'
BY DEF LoweringInv

LEMMA UnchangedPreserves ==
  ASSUME LoweringInv, UNCHANGED <<nodes, outputs, position, topology, producers>>,
         stage' = stage \/ (stage = "bind" /\ stage' = "bound")
  PROVE  LoweringInv'
<1>1. /\ \A name, i : LatestBinder(name, i)' = LatestBinder(name, i)
      /\ \A i : LatestReads(i)' = LatestReads(i) /\ LoweredNode(i)' = LoweredNode(i)
      /\ \A name : LatestBinder(name, position)' = LatestBinder(name, position)
      /\ \A name : LatestBinder(OutputRef(name), position)'
                     = LatestBinder(OutputRef(name), position)
  BY DEF LatestBinder, LatestReads, LoweredNode, OutputRef
<1> QED
  BY <1>1 DEF LoweringInv

\* Until the typer takes the graph over, each lowered node reads what the manifest
\* means at its place (topology_lower.go:36-191).
THEOREM LoweringInvIsInvariant == FrontEndSpec => []LoweringInv
<1>1. FrontEndInit => LoweringInv
  BY DEF FrontEndInit, LoweringInv
<1>2. LoweringInv /\ [FrontEndNext]_frontEndVars => LoweringInv'
  <2> SUFFICES ASSUME LoweringInv, [FrontEndNext]_frontEndVars
               PROVE  LoweringInv'
    OBVIOUS
  <2>1. CASE LoweringNext
    <3>1. CASE ExpandTopology
      BY <3>1, ExpandEstablishes
    <3>2. CASE LowerNode
      BY <3>2, LowerNodePreserves
    <3>3. CASE ResolveOutputs
      BY <3>3, ResolveOutputsPreserves
    <3>4. CASE BindWeights
      BY <3>4, BindWeightsPreserves
    <3>5. CASE SkipBinding
      BY <3>5, UnchangedPreserves DEF SkipBinding, graphVars, loweringVars
    <3>6. CASE RefuseTopology \/ RefuseToLower \/ RefuseOutputs \/ RefuseToBind
      BY <3>6, OutsideLowering DEF RefuseTopology, RefuseToLower, RefuseOutputs,
                                   RefuseToBind, Fail
    <3> QED
      BY <2>1, <3>1, <3>2, <3>3, <3>4, <3>5, <3>6 DEF LoweringNext
  <2>2. CASE RunTyper \/ SkipTyper \/ OptimizeAndRetype \/ SkipOptimizer
    BY <2>2, OutsideLowering DEF RunTyper, SkipTyper, OptimizeAndRetype, SkipOptimizer,
                                 StartRun
  <2>3. CASE TyperNext
    <3>1. stage' \notin {"expand", "lower", "bind", "bound"}
      BY <2>3 DEF TyperNext, BeginInfer, KeepTyped, PassThrough, TypeNode, RefuseNode,
                  FinishInfer, InsertAdaptor, LeaveUnresolved, FinishSynthesis
    <3> QED
      BY <3>1, OutsideLowering
  <2>4. CASE ValidateOps \/ MergeBindings
    BY <2>4, OutsideLowering DEF ValidateOps, MergeBindings
  <2>5. CASE Compiled \/ UNCHANGED frontEndVars
    BY <2>5, UnchangedPreserves DEF Compiled, frontEndVars, graphVars, loweringVars
  <2> QED
    BY <2>1, <2>2, <2>3, <2>4, <2>5 DEF FrontEndNext
<1> QED
  BY <1>1, <1>2, PTL DEF FrontEndSpec

\* Every read and every output of a lowered manifest is served by the producer
\* that bound the name last before it, for every topology that lowers.
THEOREM ReadsResolveToLatest == FrontEndSpec => []ReadsAreResolved
<1>1. LoweringInv => ReadsAreResolved
  <2> SUFFICES ASSUME LoweringInv, stage \in {"bind", "bound"}
               PROVE  /\ \A i \in DOMAIN nodes : /\ nodes[i].id = topology.nodes[i].id
                                                 /\ nodes[i].inputs = LatestReads(i)
                      /\ \A name \in DOMAIN outputs :
                           outputs[name] = LatestBinder(OutputRef(name), Len(nodes) + 1)
    BY DEF ReadsAreResolved
  <2>1. position \in Nat \ {0} /\ Len(nodes) = position - 1
    BY DEF LoweringInv
  <2>2. DOMAIN nodes = 1 .. position - 1 /\ Len(nodes) + 1 = position
    BY <2>1, LenProperties DEF LoweringInv
  <2> QED
    BY <2>2 DEF LoweringInv
<1> QED
  BY <1>1, LoweringInvIsInvariant, PTL

------------------------------------------------------------------------------
\* Contracts: what the table holds, what Unify and the derivers answer.

\* A port built from its parts is one.
LEMMA PortIsPort ==
  \A dtype, shape, layout, kind : IsPort(Port(dtype, shape, layout, kind))
BY DEF Port, IsPort

\* The ports the contracts are written with are ports.
LEMMA CommonPorts ==
  /\ IsPort(AnyTensor) /\ IsPort(ActivationTensor) /\ IsPort(Untyped) /\ IsPort(Indices)
  /\ \A dtype, symbols, kind : IsPort(Contiguous(dtype, symbols, kind))
BY PortIsPort DEF AnyTensor, ActivationTensor, Untyped, Indices, Contiguous

\* A new shape leaves the rest of a port alone.
LEMMA ReshapedPort ==
  ASSUME NEW type, IsPort(type), NEW shape
  PROVE  /\ IsPort(Reshaped(type, shape))
         /\ Reshaped(type, shape).dtype = type.dtype
         /\ Reshaped(type, shape).layout = type.layout
         /\ Reshaped(type, shape).kind = type.kind
         /\ Reshaped(type, shape).shape = shape
         /\ Reshaped(type, shape).constraints = type.constraints
BY DEF Reshaped, IsPort

\* A contract with a deriver is well formed when its inputs are ports.
LEMMA SpecIsSpec ==
  ASSUME NEW inputs, NEW deriver \in Derivers \ {"none"}, NEW kind,
         \A slot \in DOMAIN inputs : IsPort(inputs[slot])
  PROVE  IsSpec(Spec(inputs, deriver, kind))
BY DEF IsSpec, Spec

\* Inputs that take any tensor are ports.
LEMMA TensorsArePorts ==
  \A count : \A slot \in DOMAIN Tensors(count) : IsPort(Tensors(count)[slot])
BY CommonPorts DEF Tensors

\* Contracts that only shape their input are well formed.
LEMMA ShapingIsSpec ==
  \A count : \A deriver \in Derivers \ {"none"} : IsSpec(Shaping(count, deriver))
BY TensorsArePorts, SpecIsSpec DEF Shaping

\* The groups of the table have no operation in common.
LEMMA TableSpecIs ==
  ASSUME NEW op \in TableOps
  PROVE  /\ op \in EmbeddingOps => TableSpec(op) = EmbeddingSpec(op)
         /\ op \in NormOps => TableSpec(op) = NormSpec(op)
         /\ op \in ContractionOps => TableSpec(op) = ContractionSpec(op)
         /\ op \in ElementwiseOps => TableSpec(op) = ElementwiseSpec(op)
         /\ op \in DOMAIN ShapeDerivers => TableSpec(op) = ShapeSpec(op)
         /\ op \in PositionalOps => TableSpec(op) = PositionalSpec(op)
         /\ op \in StateOps => TableSpec(op) = StateSpec(op)
         /\ op \in AttentionOps => TableSpec(op) = AttentionSpec(op)
         /\ op \in UpdateOps => TableSpec(op) = UpdateSpec(op)
         /\ op \in AdaptorOps => TableSpec(op) = AdaptorSpec(op)
<1>1. ASSUME op \in EmbeddingOps PROVE TableSpec(op) = EmbeddingSpec(op)
  <2>1. op \notin NormOps /\ op \notin ContractionOps /\ op \notin ElementwiseOps /\ op \notin DOMAIN ShapeDerivers /\ op \notin PositionalOps /\ op \notin StateOps /\ op \notin AttentionOps /\ op \notin UpdateOps /\ op \notin AdaptorOps
    BY <1>1 DEF EmbeddingOps, NormOps, ContractionOps, ElementwiseOps, ShapeDerivers, PositionalOps,
              StateOps, AttentionOps, UpdateOps, AdaptorOps, BinaryOps, UnaryOps
  <2> QED
    BY <1>1, <2>1, Zenon DEF TableSpec
<1>2. ASSUME op \in NormOps PROVE TableSpec(op) = NormSpec(op)
  <2>1. op \notin EmbeddingOps /\ op \notin ContractionOps /\ op \notin ElementwiseOps /\ op \notin DOMAIN ShapeDerivers /\ op \notin PositionalOps /\ op \notin StateOps /\ op \notin AttentionOps /\ op \notin UpdateOps /\ op \notin AdaptorOps
    BY <1>2 DEF EmbeddingOps, NormOps, ContractionOps, ElementwiseOps, ShapeDerivers, PositionalOps,
              StateOps, AttentionOps, UpdateOps, AdaptorOps, BinaryOps, UnaryOps
  <2> QED
    BY <1>2, <2>1, Zenon DEF TableSpec
<1>3. ASSUME op \in ContractionOps PROVE TableSpec(op) = ContractionSpec(op)
  <2>1. op \notin EmbeddingOps /\ op \notin NormOps /\ op \notin ElementwiseOps /\ op \notin DOMAIN ShapeDerivers /\ op \notin PositionalOps /\ op \notin StateOps /\ op \notin AttentionOps /\ op \notin UpdateOps /\ op \notin AdaptorOps
    BY <1>3 DEF EmbeddingOps, NormOps, ContractionOps, ElementwiseOps, ShapeDerivers, PositionalOps,
              StateOps, AttentionOps, UpdateOps, AdaptorOps, BinaryOps, UnaryOps
  <2> QED
    BY <1>3, <2>1, Zenon DEF TableSpec
<1>4. ASSUME op \in ElementwiseOps PROVE TableSpec(op) = ElementwiseSpec(op)
  <2>1. op \notin EmbeddingOps /\ op \notin NormOps /\ op \notin ContractionOps /\ op \notin DOMAIN ShapeDerivers /\ op \notin PositionalOps /\ op \notin StateOps /\ op \notin AttentionOps /\ op \notin UpdateOps /\ op \notin AdaptorOps
    BY <1>4 DEF EmbeddingOps, NormOps, ContractionOps, ElementwiseOps, ShapeDerivers, PositionalOps,
              StateOps, AttentionOps, UpdateOps, AdaptorOps, BinaryOps, UnaryOps
  <2> QED
    BY <1>4, <2>1, Zenon DEF TableSpec
<1>5. ASSUME op \in DOMAIN ShapeDerivers PROVE TableSpec(op) = ShapeSpec(op)
  <2>1. op \notin EmbeddingOps /\ op \notin NormOps /\ op \notin ContractionOps /\ op \notin ElementwiseOps /\ op \notin PositionalOps /\ op \notin StateOps /\ op \notin AttentionOps /\ op \notin UpdateOps /\ op \notin AdaptorOps
    BY <1>5 DEF EmbeddingOps, NormOps, ContractionOps, ElementwiseOps, ShapeDerivers, PositionalOps,
              StateOps, AttentionOps, UpdateOps, AdaptorOps, BinaryOps, UnaryOps
  <2> QED
    BY <1>5, <2>1, Zenon DEF TableSpec
<1>6. ASSUME op \in PositionalOps PROVE TableSpec(op) = PositionalSpec(op)
  <2>1. op \notin EmbeddingOps /\ op \notin NormOps /\ op \notin ContractionOps /\ op \notin ElementwiseOps /\ op \notin DOMAIN ShapeDerivers /\ op \notin StateOps /\ op \notin AttentionOps /\ op \notin UpdateOps /\ op \notin AdaptorOps
    BY <1>6 DEF EmbeddingOps, NormOps, ContractionOps, ElementwiseOps, ShapeDerivers, PositionalOps,
              StateOps, AttentionOps, UpdateOps, AdaptorOps, BinaryOps, UnaryOps
  <2> QED
    BY <1>6, <2>1, Zenon DEF TableSpec
<1>7. ASSUME op \in StateOps PROVE TableSpec(op) = StateSpec(op)
  <2>1. op \notin EmbeddingOps /\ op \notin NormOps /\ op \notin ContractionOps /\ op \notin ElementwiseOps /\ op \notin DOMAIN ShapeDerivers /\ op \notin PositionalOps /\ op \notin AttentionOps /\ op \notin UpdateOps /\ op \notin AdaptorOps
    BY <1>7 DEF EmbeddingOps, NormOps, ContractionOps, ElementwiseOps, ShapeDerivers, PositionalOps,
              StateOps, AttentionOps, UpdateOps, AdaptorOps, BinaryOps, UnaryOps
  <2> QED
    BY <1>7, <2>1, Zenon DEF TableSpec
<1>8. ASSUME op \in AttentionOps PROVE TableSpec(op) = AttentionSpec(op)
  <2>1. op \notin EmbeddingOps /\ op \notin NormOps /\ op \notin ContractionOps /\ op \notin ElementwiseOps /\ op \notin DOMAIN ShapeDerivers /\ op \notin PositionalOps /\ op \notin StateOps /\ op \notin UpdateOps /\ op \notin AdaptorOps
    BY <1>8 DEF EmbeddingOps, NormOps, ContractionOps, ElementwiseOps, ShapeDerivers, PositionalOps,
              StateOps, AttentionOps, UpdateOps, AdaptorOps, BinaryOps, UnaryOps
  <2> QED
    BY <1>8, <2>1, Zenon DEF TableSpec
<1>9. ASSUME op \in UpdateOps PROVE TableSpec(op) = UpdateSpec(op)
  <2>1. op \notin EmbeddingOps /\ op \notin NormOps /\ op \notin ContractionOps /\ op \notin ElementwiseOps /\ op \notin DOMAIN ShapeDerivers /\ op \notin PositionalOps /\ op \notin StateOps /\ op \notin AttentionOps /\ op \notin AdaptorOps
    BY <1>9 DEF EmbeddingOps, NormOps, ContractionOps, ElementwiseOps, ShapeDerivers, PositionalOps,
              StateOps, AttentionOps, UpdateOps, AdaptorOps, BinaryOps, UnaryOps
  <2> QED
    BY <1>9, <2>1, Zenon DEF TableSpec
<1>10. ASSUME op \in AdaptorOps PROVE TableSpec(op) = AdaptorSpec(op)
  <2>1. op \notin EmbeddingOps /\ op \notin NormOps /\ op \notin ContractionOps /\ op \notin ElementwiseOps /\ op \notin DOMAIN ShapeDerivers /\ op \notin PositionalOps /\ op \notin StateOps /\ op \notin AttentionOps /\ op \notin UpdateOps
    BY <1>10 DEF EmbeddingOps, NormOps, ContractionOps, ElementwiseOps, ShapeDerivers, PositionalOps,
              StateOps, AttentionOps, UpdateOps, AdaptorOps, BinaryOps, UnaryOps
  <2> QED
    BY <1>10, <2>1, Zenon DEF TableSpec
<1> QED
  BY <1>1, <1>2, <1>3, <1>4, <1>5, <1>6, <1>7, <1>8, <1>9, <1>10

\* Every contract of the table is well formed.
LEMMA TableIsSpecs ==
  ASSUME NEW op \in TableOps
  PROVE  IsSpec(TableSpec(op))
<1>1. ASSUME NEW count, NEW deriver \in Derivers \ {"none"}
      PROVE  IsSpec(Shaping(count, deriver))
  BY <1>1, ShapingIsSpec
<1>2. \A count : \A slot \in DOMAIN Tensors(count) : IsPort(Tensors(count)[slot])
  BY TensorsArePorts
<1>3. op \in EmbeddingOps => IsSpec(EmbeddingSpec(op))
  <2> SUFFICES ASSUME op \in EmbeddingOps PROVE IsSpec(EmbeddingSpec(op))
    OBVIOUS
  <2>1. \/ EmbeddingSpec(op) = Spec(<<Contiguous("Int32", <<"N">>, "TokenIndex")>>, "embedding", "Generic")
        \/ EmbeddingSpec(op) = Spec(<<Contiguous("Float32", <<"B">>, "Generic")>>, "timestep", "Generic")
    BY DEF EmbeddingSpec, EmbeddingOps
  <2> QED
    BY <2>1, SpecIsSpec, CommonPorts DEF Derivers
<1>4. op \in NormOps => IsSpec(NormSpec(op))
  <2> SUFFICES ASSUME op \in NormOps PROVE IsSpec(NormSpec(op))
    OBVIOUS
  <2>1. \/ NormSpec(op) = Spec(<<ActivationTensor>>, "norm", "HiddenState")
        \/ NormSpec(op) = Spec(<<ActivationTensor, AnyTensor>>, "same", "HiddenState")
        \/ NormSpec(op) = Spec(Tensors(1), "same", "HiddenState")
        \/ NormSpec(op) = Shaping(3, "gated")
    BY DEF NormSpec, NormOps
  <2> QED
    BY <1>1, <1>2, <2>1, SpecIsSpec, CommonPorts DEF Derivers
<1>5. op \in ContractionOps => IsSpec(ContractionSpec(op))
  <2> SUFFICES ASSUME op \in ContractionOps PROVE IsSpec(ContractionSpec(op))
    OBVIOUS
  <2>1. \/ ContractionSpec(op) = Spec(<<ActivationTensor>>, "linear", "Generic")
        \/ ContractionSpec(op) = Spec(<<Contiguous("Invalid", <<"M", "K">>, "Generic"),
                                       Contiguous("Invalid", <<"K", "N">>, "Generic")>>,
                                     "matmul", "Generic")
        \/ ContractionSpec(op) = Shaping(1, "conv2d")
    BY DEF ContractionSpec, ContractionOps
  <2> QED
    BY <1>1, <2>1, SpecIsSpec, CommonPorts DEF Derivers
<1>6. IsSpec(ElementwiseSpec(op))
  BY SpecIsSpec, CommonPorts DEF Derivers, ElementwiseSpec, Binary, Unary
<1>7. op \in DOMAIN ShapeDerivers => IsSpec(ShapeSpec(op))
  <2> SUFFICES ASSUME op \in DOMAIN ShapeDerivers PROVE IsSpec(ShapeSpec(op))
    OBVIOUS
  <2>1. ShapeDerivers[op] \in Derivers \ {"none"}
    BY DEF ShapeDerivers, Derivers
  <2> QED
    BY <1>1, <2>1 DEF ShapeSpec
<1>8. IsSpec(PositionalSpec(op))
  BY <1>2, SpecIsSpec, CommonPorts DEF Derivers, PositionalSpec
<1>9. IsSpec(StateSpec(op))
  <2> DEFINE list == Tensors(2) \o <<Indices, Indices>>
  <2>1. /\ Tensors(2) \in Seq({AnyTensor, Indices}) /\ Len(Tensors(2)) = 2
        /\ <<Indices, Indices>> \in Seq({AnyTensor, Indices})
    BY SeqDef DEF Tensors
  <2>2. \A slot \in DOMAIN list : list[slot] \in {AnyTensor, Indices}
    BY <2>1, ConcatProperties, ElementOfSeq, LenProperties
  <2>5. \A slot \in DOMAIN list : IsPort(list[slot])
    BY <2>2, CommonPorts
  <2>3. IsSpec(Spec(list, "same", "Generic"))
    BY <2>5, SpecIsSpec DEF Derivers
  <2> HIDE DEF list
  <2>4. IsSpec(Spec(<<AnyTensor, Contiguous("Int32", <<"P">>, "Generic")>>, "page_gather", "Generic"))
    BY SpecIsSpec, CommonPorts DEF Derivers
  <2> QED
    BY <2>3, <2>4 DEF StateSpec, list
<1>10. IsSpec(AttentionSpec(op))
  BY <1>2, SpecIsSpec, CommonPorts DEF Derivers, AttentionSpec
<1>11. IsSpec(UpdateSpec(op))
  BY <1>2, SpecIsSpec DEF Derivers, UpdateSpec
<1>12. op \in AdaptorOps => IsSpec(AdaptorSpec(op))
  <2> SUFFICES ASSUME op \in AdaptorOps PROVE IsSpec(AdaptorSpec(op))
    OBVIOUS
  <2>1. \/ AdaptorSpec(op) = Shaping(1, "cast")
        \/ AdaptorSpec(op) = Shaping(1, "transpose")
        \/ AdaptorSpec(op) = Shaping(1, "reshape")
    BY DEF AdaptorSpec, AdaptorOps
  <2> QED
    BY <1>1, <2>1 DEF Derivers
<1> QED
  BY <1>3, <1>4, <1>5, <1>6, <1>7, <1>8, <1>9, <1>10, <1>11, <1>12, TableSpecIs DEF TableOps

\* Every contract an operation is looked up to is well formed.
LEMMA SpecsAreSpecs ==
  ASSUME NEW op, HasSpec(op)
  PROVE  IsSpec(LookupSpec(op))
<1>1. \A count : IsSpec(SchemaSpec(count))
  BY ShapingIsSpec DEF SchemaSpec, Derivers
<1> QED
  BY <1>1, TableIsSpecs, ExtensionsAssumption DEF HasSpec, LookupSpec

\* What an adaptor's operation expects, and how its output is derived.
LEMMA AdaptorSpecs ==
  ASSUME NEW op \in {"shape.cast", "shape.transpose"}
  PROVE  /\ HasSpec(op) /\ DOMAIN LookupSpec(op).inputs = 1 .. 1
         /\ LookupSpec(op).inputs[1] = AnyTensor
         /\ LookupSpec(op).deriver = IF op = "shape.cast" THEN "cast" ELSE "transpose"
<1>1. op \in AdaptorOps /\ op \in TableOps /\ op \notin DOMAIN Extensions
  BY ExtensionsAssumption DEF AdaptorOps, TableOps
<1>2. LookupSpec(op) = AdaptorSpec(op) /\ HasSpec(op)
  BY <1>1, TableSpecIs DEF LookupSpec, HasSpec
<1>3. AdaptorSpec(op) = Shaping(1, IF op = "shape.cast" THEN "cast" ELSE "transpose")
  BY DEF AdaptorSpec
<1> QED
  BY <1>2, <1>3 DEF Shaping, Spec, Tensors

------------------------------------------------------------------------------
\* What a deriver answers for the input types ts: it refuses a node without
\* inputs, it makes a port, and a first input with a dtype gives a dtype.
IsDerived(ts, derived) ==
  derived.ok => /\ ts # <<>>
                /\ IsPort(derived.type)
                /\ ts[1].dtype # "Invalid" => derived.type.dtype # "Invalid"

\* The dtype of a bound weight, or of activations, is always a real one.
LEMMA OwnDTypes ==
  ASSUME NEW node
  PROVE  BoundWeightDType(node) # "Invalid" /\ NodeActivationDType(node) # "Invalid"
BY DEF BoundWeightDType, NodeActivationDType, FloatTypes

\* Every deriver but the cast and the transpose.
LEMMA DeriversDerive ==
  ASSUME NEW node, NEW kind, NEW b, NEW ts, ts # <<>> => IsPort(ts[1])
  PROVE  /\ IsDerived(ts, SameAsFirst(node, kind, ts, b))
         /\ IsDerived(ts, EmbeddingOutput(node, ts, b))
         /\ IsDerived(ts, TimestepEmbeddingOutput(node, ts, b))
         /\ IsDerived(ts, NormOutput(node, ts, b))
         /\ IsDerived(ts, GatedResidualOutput(node, ts, b))
         /\ IsDerived(ts, LinearOutput(node, ts, b))
         /\ IsDerived(ts, PageGatherOutput(node, ts, b))
         /\ IsDerived(ts, MatmulOutput(node, ts, b))
         /\ IsDerived(ts, SwiGLUOutput(node, ts, b))
         /\ IsDerived(ts, ViewAsHeadsOutput(node, ts, b))
         /\ IsDerived(ts, MergeHeadsOutput(node, ts, b))
         /\ IsDerived(ts, ConcatOutput(node, ts, b))
         /\ IsDerived(ts, SliceOutput(node, ts, b))
         /\ IsDerived(ts, UpsampleNearest2DOutput(node, ts, b))
         /\ IsDerived(ts, LastTokenOutput(node, ts, b))
         /\ IsDerived(ts, ReshapeOutput(node, ts, b))
         /\ IsDerived(ts, Conv2DOutput(node, ts, b))
<1>1. \A shape, k : ts # <<>> =>
        /\ IsPort([Reshaped(ts[1], shape) EXCEPT !.kind = k])
        /\ [Reshaped(ts[1], shape) EXCEPT !.kind = k].dtype = ts[1].dtype
  <2>1. \A shape : ts # <<>> => /\ IsPort(Reshaped(ts[1], shape))
                                /\ Reshaped(ts[1], shape).dtype = ts[1].dtype
    BY DEF IsPort, Reshaped
  <2> SUFFICES ASSUME ts # <<>>, NEW shape, NEW k
               PROVE  /\ IsPort([Reshaped(ts[1], shape) EXCEPT !.kind = k])
                      /\ [Reshaped(ts[1], shape) EXCEPT !.kind = k].dtype = ts[1].dtype
    OBVIOUS
  <2> PICK r : r = Reshaped(ts[1], shape)
    OBVIOUS
  <2>2. IsPort(r) /\ r.dtype = ts[1].dtype
    BY <2>1
  <2>3. IsPort([r EXCEPT !.kind = k]) /\ [r EXCEPT !.kind = k].dtype = ts[1].dtype
    BY <2>2 DEF IsPort
  <2> QED
    BY <2>3, Zenon
<1>2. \A type : ts # <<>> /\ (\E k : type = [ts[1] EXCEPT !.kind = k])
                 => IsPort(type) /\ type.dtype = ts[1].dtype
  BY DEF IsPort
<1>3. \A shape : ts # <<>> => /\ IsPort(Reshaped(ts[1], shape))
                              /\ Reshaped(ts[1], shape).dtype = ts[1].dtype
  BY DEF IsPort, Reshaped
<1>4. \A dtype, shape, layout, k : /\ IsPort(Port(dtype, shape, layout, k))
                                   /\ Port(dtype, shape, layout, k).dtype = dtype
  BY DEF Port, IsPort
<1>5. Len(ts) >= 1 => ts # <<>>
  OBVIOUS
<1>6. IsDerived(ts, SameAsFirst(node, kind, ts, b))
  BY <1>2 DEF SameAsFirst, DerivedIf, Derived, Refused, IsDerived
<1>7. IsDerived(ts, EmbeddingOutput(node, ts, b))
  BY <1>4, OwnDTypes DEF EmbeddingOutput, DerivedIf, Derived, Refused, IsDerived
<1>8. IsDerived(ts, TimestepEmbeddingOutput(node, ts, b))
  BY <1>4, OwnDTypes DEF TimestepEmbeddingOutput, DerivedIf, Derived, Refused, IsDerived
<1>9. IsDerived(ts, NormOutput(node, ts, b))
  BY <1>2 DEF NormOutput, DerivedIf, Derived, Refused, IsDerived
<1>10. IsDerived(ts, GatedResidualOutput(node, ts, b))
  BY <1>2, <1>5 DEF GatedResidualOutput, DerivedIf, Derived, Refused, IsDerived
<1>11. IsDerived(ts, LinearOutput(node, ts, b))
  BY <1>4, OwnDTypes DEF LinearOutput, DerivedIf, Derived, Refused, IsDerived
<1>12. IsDerived(ts, PageGatherOutput(node, ts, b))
  BY <1>4, OwnDTypes DEF PageGatherOutput, DerivedIf, Derived, Refused, IsDerived
<1>13. IsDerived(ts, MatmulOutput(node, ts, b))
  BY <1>4, <1>5 DEF MatmulOutput, DerivedIf, Derived, Refused, IsDerived
<1>14. IsDerived(ts, SwiGLUOutput(node, ts, b))
  BY <1>1, <1>2, <1>5 DEF SwiGLUOutput, DerivedIf, Derived, Refused, IsDerived, SameAsFirst
<1>15. IsDerived(ts, ViewAsHeadsOutput(node, ts, b))
  BY <1>3 DEF ViewAsHeadsOutput, DerivedIf, Derived, Refused, IsDerived
<1>16. IsDerived(ts, MergeHeadsOutput(node, ts, b))
  BY <1>3 DEF MergeHeadsOutput, DerivedIf, Derived, Refused, IsDerived
<1>17. IsDerived(ts, ConcatOutput(node, ts, b))
  BY <1>3, <1>5 DEF ConcatOutput, DerivedIf, Derived, Refused, IsDerived
<1>18. IsDerived(ts, SliceOutput(node, ts, b))
  BY <1>3 DEF SliceOutput, DerivedIf, Derived, Refused, IsDerived
<1>19. IsDerived(ts, UpsampleNearest2DOutput(node, ts, b))
  BY <1>3 DEF UpsampleNearest2DOutput, DerivedIf, Derived, Refused, IsDerived
<1>20. IsDerived(ts, LastTokenOutput(node, ts, b))
  BY <1>3 DEF LastTokenOutput, DerivedIf, Derived, Refused, IsDerived
<1>21. IsDerived(ts, ReshapeOutput(node, ts, b))
  BY <1>3 DEF ReshapeOutput, DerivedIf, Derived, Refused, IsDerived
<1>22. IsDerived(ts, Conv2DOutput(node, ts, b))
  <2>1. Conv2DOutput(node, ts, b).ok =>
          /\ ts # <<>>
          /\ \E shape : Conv2DOutput(node, ts, b).type =
                          [Reshaped(ts[1], shape) EXCEPT !.kind = "HiddenState"]
    BY DEF Conv2DOutput, DerivedIf, Derived, Refused
  <2>2. PICK out : out = Conv2DOutput(node, ts, b)
    OBVIOUS
  <2>3. ASSUME out.ok
        PROVE  ts # <<>> /\ IsPort(out.type) /\ out.type.dtype = ts[1].dtype
    <3>1. ts # <<>> /\ \E shape : out.type = [Reshaped(ts[1], shape) EXCEPT !.kind = "HiddenState"]
      BY <2>1, <2>2, <2>3
    <3>2. PICK shape : out.type = [Reshaped(ts[1], shape) EXCEPT !.kind = "HiddenState"]
      BY <3>1
    <3>3. PICK type : type = [Reshaped(ts[1], shape) EXCEPT !.kind = "HiddenState"]
      OBVIOUS
    <3>4. IsPort(type) /\ type.dtype = ts[1].dtype
      BY <1>1, <3>1, <3>3
    <3> QED
      BY <3>1, <3>2, <3>3, <3>4
  <2>4. IsDerived(ts, out)
    BY <2>3 DEF IsDerived
  <2> QED
    BY <2>2, <2>4
<1> QED
  BY <1>6, <1>7, <1>8, <1>9, <1>10, <1>11, <1>12, <1>13, <1>14, <1>15, <1>16, <1>17, <1>18,
     <1>19, <1>20, <1>21, <1>22

\* The arm of DeriveOutput that a spec selects.
LEMMA DeriveOutputSelects ==
  ASSUME NEW node, NEW spec, NEW ts, NEW b
  PROVE  /\ spec.deriver = "none" => DeriveOutput(node, spec, ts, b) = Derived(spec.output, b)
         /\ spec.deriver = "same" => DeriveOutput(node, spec, ts, b) = SameAsFirst(node, spec.kind, ts, b)
         /\ spec.deriver = "embedding" => DeriveOutput(node, spec, ts, b) = EmbeddingOutput(node, ts, b)
         /\ spec.deriver = "timestep" => DeriveOutput(node, spec, ts, b) = TimestepEmbeddingOutput(node, ts, b)
         /\ spec.deriver = "norm" => DeriveOutput(node, spec, ts, b) = NormOutput(node, ts, b)
         /\ spec.deriver = "gated" => DeriveOutput(node, spec, ts, b) = GatedResidualOutput(node, ts, b)
         /\ spec.deriver = "linear" => DeriveOutput(node, spec, ts, b) = LinearOutput(node, ts, b)
         /\ spec.deriver = "page_gather" => DeriveOutput(node, spec, ts, b) = PageGatherOutput(node, ts, b)
         /\ spec.deriver = "matmul" => DeriveOutput(node, spec, ts, b) = MatmulOutput(node, ts, b)
         /\ spec.deriver = "swiglu" => DeriveOutput(node, spec, ts, b) = SwiGLUOutput(node, ts, b)
         /\ spec.deriver = "view_as_heads" => DeriveOutput(node, spec, ts, b) = ViewAsHeadsOutput(node, ts, b)
         /\ spec.deriver = "merge_heads" => DeriveOutput(node, spec, ts, b) = MergeHeadsOutput(node, ts, b)
         /\ spec.deriver = "concat" => DeriveOutput(node, spec, ts, b) = ConcatOutput(node, ts, b)
         /\ spec.deriver = "slice" => DeriveOutput(node, spec, ts, b) = SliceOutput(node, ts, b)
         /\ spec.deriver = "upsample" => DeriveOutput(node, spec, ts, b) = UpsampleNearest2DOutput(node, ts, b)
         /\ spec.deriver = "last_token" => DeriveOutput(node, spec, ts, b) = LastTokenOutput(node, ts, b)
         /\ spec.deriver = "cast" => DeriveOutput(node, spec, ts, b) = CastOutput(node, ts, b)
         /\ spec.deriver = "transpose" => DeriveOutput(node, spec, ts, b) = TransposeOutput(node, ts, b)
         /\ spec.deriver = "reshape" => DeriveOutput(node, spec, ts, b) = ReshapeOutput(node, ts, b)
         /\ spec.deriver = "conv2d" => DeriveOutput(node, spec, ts, b) = Conv2DOutput(node, ts, b)
<1>1. spec.deriver = "none" => DeriveOutput(node, spec, ts, b) = Derived(spec.output, b)
  BY Zenon DEF DeriveOutput
<1>2. spec.deriver = "same" => DeriveOutput(node, spec, ts, b) = SameAsFirst(node, spec.kind, ts, b)
  BY Zenon DEF DeriveOutput
<1>3. spec.deriver = "embedding" => DeriveOutput(node, spec, ts, b) = EmbeddingOutput(node, ts, b)
  BY Zenon DEF DeriveOutput
<1>4. spec.deriver = "timestep" => DeriveOutput(node, spec, ts, b) = TimestepEmbeddingOutput(node, ts, b)
  BY Zenon DEF DeriveOutput
<1>5. spec.deriver = "norm" => DeriveOutput(node, spec, ts, b) = NormOutput(node, ts, b)
  BY Zenon DEF DeriveOutput
<1>6. spec.deriver = "gated" => DeriveOutput(node, spec, ts, b) = GatedResidualOutput(node, ts, b)
  BY Zenon DEF DeriveOutput
<1>7. spec.deriver = "linear" => DeriveOutput(node, spec, ts, b) = LinearOutput(node, ts, b)
  BY Zenon DEF DeriveOutput
<1>8. spec.deriver = "page_gather" => DeriveOutput(node, spec, ts, b) = PageGatherOutput(node, ts, b)
  BY Zenon DEF DeriveOutput
<1>9. spec.deriver = "matmul" => DeriveOutput(node, spec, ts, b) = MatmulOutput(node, ts, b)
  BY Zenon DEF DeriveOutput
<1>10. spec.deriver = "swiglu" => DeriveOutput(node, spec, ts, b) = SwiGLUOutput(node, ts, b)
  BY Zenon DEF DeriveOutput
<1>11. spec.deriver = "view_as_heads" => DeriveOutput(node, spec, ts, b) = ViewAsHeadsOutput(node, ts, b)
  BY Zenon DEF DeriveOutput
<1>12. spec.deriver = "merge_heads" => DeriveOutput(node, spec, ts, b) = MergeHeadsOutput(node, ts, b)
  BY Zenon DEF DeriveOutput
<1>13. spec.deriver = "concat" => DeriveOutput(node, spec, ts, b) = ConcatOutput(node, ts, b)
  BY Zenon DEF DeriveOutput
<1>14. spec.deriver = "slice" => DeriveOutput(node, spec, ts, b) = SliceOutput(node, ts, b)
  BY Zenon DEF DeriveOutput
<1>15. spec.deriver = "upsample" => DeriveOutput(node, spec, ts, b) = UpsampleNearest2DOutput(node, ts, b)
  BY Zenon DEF DeriveOutput
<1>16. spec.deriver = "last_token" => DeriveOutput(node, spec, ts, b) = LastTokenOutput(node, ts, b)
  BY Zenon DEF DeriveOutput
<1>17. spec.deriver = "cast" => DeriveOutput(node, spec, ts, b) = CastOutput(node, ts, b)
  BY Zenon DEF DeriveOutput
<1>18. spec.deriver = "transpose" => DeriveOutput(node, spec, ts, b) = TransposeOutput(node, ts, b)
  BY Zenon DEF DeriveOutput
<1>19. spec.deriver = "reshape" => DeriveOutput(node, spec, ts, b) = ReshapeOutput(node, ts, b)
  BY Zenon DEF DeriveOutput
<1>20. spec.deriver = "conv2d" => DeriveOutput(node, spec, ts, b) = Conv2DOutput(node, ts, b)
  BY Zenon DEF DeriveOutput
<1> QED
  BY <1>1, <1>2, <1>3, <1>4, <1>5, <1>6, <1>7, <1>8, <1>9, <1>10, <1>11, <1>12, <1>13, <1>14, <1>15, <1>16, <1>17, <1>18, <1>19, <1>20

\* The cast takes the dtype its node is configured with.
LEMMA CastDerives ==
  ASSUME NEW node, NEW b, NEW ts, ts # <<>> => IsPort(ts[1])
  PROVE  LET derived == CastOutput(node, ts, b) IN
         derived.ok =>
           /\ ts # <<>>
           /\ IsPort(derived.type)
           /\ "dtype" \notin DOMAIN node.config => derived.type.dtype = ts[1].dtype
           /\ "dtype" \in DOMAIN node.config => derived.type.dtype = node.config["dtype"]
BY DEF CastOutput, DerivedIf, Derived, Refused, IsPort

\* The transpose keeps the dtype and takes the configured layout.
LEMMA TransposeDerives ==
  ASSUME NEW node, NEW b, NEW ts, ts # <<>> => IsPort(ts[1])
  PROVE  LET derived == TransposeOutput(node, ts, b) IN
         derived.ok =>
           /\ ts # <<>>
           /\ IsPort(derived.type)
           /\ derived.type.dtype = ts[1].dtype
           /\ "layout" \in DOMAIN node.config => derived.type.layout = node.config["layout"]
<1>1. \A shape, layout : ts # <<>> =>
        /\ IsPort([Reshaped(ts[1], shape) EXCEPT !.layout = layout])
        /\ [Reshaped(ts[1], shape) EXCEPT !.layout = layout].dtype = ts[1].dtype
        /\ [Reshaped(ts[1], shape) EXCEPT !.layout = layout].layout = layout
  <2> SUFFICES ASSUME ts # <<>>, NEW shape, NEW layout
               PROVE  /\ IsPort([Reshaped(ts[1], shape) EXCEPT !.layout = layout])
                      /\ [Reshaped(ts[1], shape) EXCEPT !.layout = layout].dtype
                           = ts[1].dtype
                      /\ [Reshaped(ts[1], shape) EXCEPT !.layout = layout].layout = layout
    OBVIOUS
  <2> PICK r : r = Reshaped(ts[1], shape)
    OBVIOUS
  <2>1. IsPort(r) /\ r.dtype = ts[1].dtype
    BY DEF IsPort, Reshaped
  <2>2. /\ IsPort([r EXCEPT !.layout = layout])
        /\ [r EXCEPT !.layout = layout].dtype = ts[1].dtype
        /\ [r EXCEPT !.layout = layout].layout = layout
    BY <2>1 DEF IsPort
  <2> QED
    BY <2>2, Zenon
<1> DEFINE rank == Len(ts[1].shape)
           dim1 == IF "dim1" \in DOMAIN node.config THEN node.config["dim1"] ELSE 1
           i == CanonicalAxis(Config(node, "dim0"), rank) + 1
           j == CanonicalAxis(dim1, rank) + 1
           swapped == [ts[1].shape EXCEPT ![i] = ts[1].shape[j], ![j] = ts[1].shape[i]]
           layout == IF "layout" \in DOMAIN node.config THEN node.config["layout"]
                     ELSE ts[1].layout
           type == [Reshaped(ts[1], swapped) EXCEPT !.layout = layout]
           guard == /\ ts # <<>>
                    /\ IsAxis(Config(node, "dim0"), rank) /\ IsAxis(dim1, rank)
<1>2. TransposeOutput(node, ts, b) = DerivedIf(guard, type, b)
  BY Zenon DEF TransposeOutput
<1>3. "layout" \in DOMAIN node.config => layout = node.config["layout"]
  OBVIOUS
<1>4. guard => ts # <<>>
  OBVIOUS
<1> HIDE DEF guard, swapped, layout
<1>5. ts # <<>> => IsPort(type) /\ type.dtype = ts[1].dtype /\ type.layout = layout
  BY <1>1, Zenon
<1> HIDE DEF type
<1> QED
  BY <1>2, <1>3, <1>4, <1>5 DEF DerivedIf, Derived, Refused

\* Whatever the operation: a derived type is a port; a deriver refuses a node
\* without inputs; and a first input with a dtype makes an output with one.
IsDerivedType(node, spec, ts, type) ==
  /\ IsPort(type)
  /\ spec.deriver = "none" => type = spec.output
  /\ spec.deriver # "none" =>
       /\ ts # <<>>
       /\ "dtype" \notin DOMAIN node.config /\ ts[1].dtype # "Invalid"
            => type.dtype # "Invalid"
  /\ spec.deriver = "transpose" /\ "layout" \in DOMAIN node.config
       => type.layout = node.config["layout"]
\* What DeriveOutput answers, by IsDerivedType.
LEMMA DeriveOutputIs ==
  ASSUME NEW node, NEW spec, IsSpec(spec), NEW b,
         NEW ts, ts # <<>> => IsPort(ts[1]), DeriveOutput(node, spec, ts, b).ok
  PROVE  IsDerivedType(node, spec, ts, DeriveOutput(node, spec, ts, b).type)
<1> DEFINE derived == DeriveOutput(node, spec, ts, b)
<1>1. CASE spec.deriver = "none"
  <2>1. derived = Derived(spec.output, b)
    BY <1>1, DeriveOutputSelects
  <2> QED
    BY <1>1, <2>1 DEF IsSpec, Derived, IsDerivedType
<1>2. CASE spec.deriver = "cast"
  <2>1. derived = CastOutput(node, ts, b)
    BY <1>2, DeriveOutputSelects
  <2> QED
    BY <1>2, <2>1, CastDerives DEF IsDerivedType
<1>3. CASE spec.deriver = "transpose"
  <2>1. derived = TransposeOutput(node, ts, b)
    BY <1>3, DeriveOutputSelects
  <2> QED
    BY <1>3, <2>1, TransposeDerives DEF IsDerivedType
<1>4. CASE spec.deriver \notin {"none", "cast", "transpose"}
  <2>1. spec.deriver \in Derivers
    BY DEF IsSpec
  <2>2. \/ derived = SameAsFirst(node, spec.kind, ts, b)
        \/ derived \in {EmbeddingOutput(node, ts, b), TimestepEmbeddingOutput(node, ts, b),
                       NormOutput(node, ts, b), GatedResidualOutput(node, ts, b),
                       LinearOutput(node, ts, b), PageGatherOutput(node, ts, b),
                       MatmulOutput(node, ts, b), SwiGLUOutput(node, ts, b),
                       ViewAsHeadsOutput(node, ts, b), MergeHeadsOutput(node, ts, b),
                       ConcatOutput(node, ts, b), SliceOutput(node, ts, b),
                       UpsampleNearest2DOutput(node, ts, b), LastTokenOutput(node, ts, b),
                       ReshapeOutput(node, ts, b), Conv2DOutput(node, ts, b)}
    BY <1>4, <2>1, DeriveOutputSelects DEF Derivers
  <2>3. IsDerived(ts, derived)
    BY <2>2, DeriversDerive
  <2> QED
    BY <1>4, <2>3 DEF IsDerived, IsDerivedType
<1> QED
  BY <1>1, <1>2, <1>3, <1>4

------------------------------------------------------------------------------
\* What Unify answers, as far as the adaptors depend on it.
LEMMA UnifyAnswers ==
  ASSUME NEW producer, NEW consumer
  PROVE  LET unified == Unify(producer, consumer) IN
         /\ unified.hint \in {"", "cast", "transpose"}
         /\ unified.hint = "cast" => ~DTypesAgree(producer, consumer)
         /\ unified.hint = "transpose" => /\ DTypesAgree(producer, consumer)
                                          /\ ~LayoutsAgree(producer, consumer)
         /\ unified.ok => /\ IsPort(unified.type)
                          /\ DTypesAgree(producer, consumer)
                          /\ LayoutsAgree(producer, consumer)
                          /\ unified.type.dtype # "Invalid"
                          /\ unified.hint = ""
BY DEF Unify, Rejected, IsPort, UnifiedDType

\* A slot without a contract takes what is produced; the others keep their
\* dtype and layout when placeholders of the shape are filled in.
LEMMA ExpectedIs ==
  ASSUME NEW spec, NEW slot, NEW producer
  PROVE  LET expected == ExpectedType(spec, slot, producer) IN
         /\ slot \notin DOMAIN spec.inputs =>
              DTypesAgree(producer, expected) /\ LayoutsAgree(producer, expected)
         /\ slot \in DOMAIN spec.inputs /\ IsPort(spec.inputs[slot]) =>
              /\ expected.dtype = spec.inputs[slot].dtype
              /\ expected.layout = spec.inputs[slot].layout
BY DEF ExpectedType, DTypesAgree, LayoutsAgree, Reshaped, IsPort

------------------------------------------------------------------------------
\* Graphs and the adaptors on their edges.

CastID(c, s) == <<"adaptor", "cast", c.id, s>>
TransposeID(c, s) == <<"adaptor", "transpose", c.id, s>>
Expected(c, s) == LookupSpec(c.op).inputs[s]
HasExpectation(c, s) == HasSpec(c.op) /\ s \in DOMAIN LookupSpec(c.op).inputs
IdsIn(N) == {n.id : n \in N}

\* A node of a graph. An adaptor has one input, and without a type it is a
\* transpose that already shows the layout it will have.
IsNode(n) ==
  /\ n = [id |-> n.id, op |-> n.op, inputs |-> n.inputs, config |-> n.config,
          weights |-> n.weights, valueType |-> n.valueType,
          inputTypes |-> n.inputTypes, outputType |-> n.outputType]
  /\ IsPort(n.outputType)
  /\ n.inputs \in Seq(NamesOf(n.inputs))
  /\ IsAdaptor(n.id) =>
       /\ n.op \in {"shape.cast", "shape.transpose"}
       /\ DOMAIN n.inputs = {1}
       /\ ~IsTyped(n) => /\ n.op = "shape.transpose"
                         /\ "layout" \in DOMAIN n.config
                         /\ n.config["layout"] = n.outputType.layout
                         /\ "dtype" \notin DOMAIN n.config

IsOrdered(list, inputs) ==
  \A i \in DOMAIN list : \A k \in DOMAIN list[i].inputs :
    \/ list[i].inputs[k] \in NamesOf(inputs)
    \/ \E j \in 1 .. i - 1 : list[j].id = list[i].inputs[k]

IsGraph(list, inputs) ==
  /\ list \in Seq(NamesOf(list))
  /\ \A i \in DOMAIN list : IsNode(list[i])
  /\ \A i, j \in DOMAIN list : list[i].id = list[j].id => i = j
  /\ IsOrdered(list, inputs)
  /\ \A name \in NamesOf(inputs) : ~IsAdaptor(name) /\ name \notin IdsIn(NamesOf(list))

\* The adaptor a, the last on the edge into slot s of c, delivers what c
\* expects there as far as an adaptor for it was inserted.
Mends(N, c, s, a) ==
  /\ HasExpectation(c, s)
  /\ a.id \in {CastID(c, s), TransposeID(c, s)}
  /\ CastID(c, s) \in IdsIn(N) => /\ a.outputType.dtype = Expected(c, s).dtype
                                  /\ Expected(c, s).dtype # "Invalid"
  /\ TransposeID(c, s) \in IdsIn(N) => a.outputType.layout = Expected(c, s).layout

\* The adaptors of the edge into slot s of c: none, one, or one of each kind.
IsPlain(N, c, s) == /\ ~IsAdaptor(c.inputs[s])
                    /\ CastID(c, s) \notin IdsIn(N)
                    /\ TransposeID(c, s) \notin IdsIn(N)
IsMended(N, c, s, a) ==
  /\ a.id = c.inputs[s] /\ Mends(N, c, s, a)
  /\ ~IsAdaptor(a.inputs[1])
  /\ CastID(c, s) \notin IdsIn(N) \/ TransposeID(c, s) \notin IdsIn(N)
IsMendedTwice(N, c, s, a, b) ==
  /\ a.id = c.inputs[s] /\ Mends(N, c, s, a)
  /\ b.id = a.inputs[1] /\ ~IsAdaptor(b.inputs[1])
  /\ b.id \in {CastID(c, s), TransposeID(c, s)} \ {a.id}

Chain(N, c, s) ==
  \/ IsPlain(N, c, s)
  \/ \E a \in N : IsMended(N, c, s, a)
  \/ \E a, b \in N : IsMendedTwice(N, c, s, a, b)
Chained(N) ==
  \A c \in N : ~IsAdaptor(c.id) => \A s \in DOMAIN c.inputs : Chain(N, c, s)

\* Behind its adaptors the edge into slot s of c starts at p.
SourceIs(N, c, s, p) ==
  /\ ~IsAdaptor(p)
  /\ \/ c.inputs[s] = p
     \/ \E a \in N :
          /\ a.id = c.inputs[s] /\ IsAdaptor(a.id)
          /\ \/ a.inputs[1] = p
             \/ \E b \in N : /\ b.id = a.inputs[1] /\ IsAdaptor(b.id)
                             /\ b.inputs[1] = p

------------------------------------------------------------------------------
\* m is n with another type, unless n had one.
Same(n, m) ==
  /\ m.id = n.id /\ m.op = n.op /\ m.inputs = n.inputs /\ m.config = n.config
  /\ IsTyped(n) => m.outputType = n.outputType
  /\ IsAdaptor(n.id) => m.outputType.layout = n.outputType.layout

Retypes(old, new) ==
  /\ new \in Seq(NamesOf(new)) /\ Len(new) = Len(old)
  /\ \A i \in DOMAIN old : IsNode(new[i]) /\ Same(old[i], new[i])

\* A retyped list is as long as it was.
LEMMA DomainsAgree ==
  ASSUME NEW old, NEW new, NEW inputs, IsGraph(old, inputs), Retypes(old, new)
  PROVE  DOMAIN new = DOMAIN old /\ DOMAIN old = 1 .. Len(old) /\ Len(old) \in Nat
BY LenProperties DEF IsGraph, Retypes

\* A graph whose types change is still a graph.
LEMMA RetypedGraph ==
  ASSUME NEW old, NEW new, NEW inputs, IsGraph(old, inputs), Retypes(old, new)
  PROVE  IsGraph(new, inputs)
<1>1. DOMAIN new = DOMAIN old /\ DOMAIN old = 1 .. Len(old) /\ Len(old) \in Nat
  BY DomainsAgree
<1>2. \A i \in DOMAIN old : /\ new[i].id = old[i].id /\ new[i].inputs = old[i].inputs
                            /\ IsNode(new[i])
  BY DEF Retypes, Same
<1>3. IsOrdered(new, inputs)
  <2> SUFFICES ASSUME NEW i \in DOMAIN new, NEW k \in DOMAIN new[i].inputs,
                      new[i].inputs[k] \notin NamesOf(inputs)
               PROVE  \E j \in 1 .. i - 1 : new[j].id = new[i].inputs[k]
    BY DEF IsOrdered
  <2>1. PICK j \in 1 .. i - 1 : old[j].id = old[i].inputs[k]
    BY <1>1, <1>2 DEF IsGraph, IsOrdered
  <2>2. j \in DOMAIN old
    BY <1>1
  <2> QED
    BY <1>1, <1>2, <2>1, <2>2
<1>4. IdsIn(NamesOf(new)) = IdsIn(NamesOf(old))
  BY <1>1, <1>2 DEF IdsIn, NamesOf
<1> QED
  BY <1>1, <1>2, <1>3, <1>4 DEF IsGraph, Retypes

\* The same for the set of nodes.
SameNodes(N, M) == /\ \A n \in N : \E m \in M : Same(n, m)
                   /\ \A m \in M : \E n \in N : Same(n, m)

\* A retyped list has the same nodes.
LEMMA RetypedNodes ==
  ASSUME NEW old, NEW new, NEW inputs, IsGraph(old, inputs), Retypes(old, new)
  PROVE  SameNodes(NamesOf(old), NamesOf(new))
<1>1. DOMAIN new = DOMAIN old
  BY DomainsAgree
<1> QED
  BY <1>1 DEF SameNodes, NamesOf, Retypes

\* The same nodes have the same IDs.
LEMMA SameIds ==
  ASSUME NEW N, NEW M, SameNodes(N, M)
  PROVE  IdsIn(M) = IdsIn(N)
BY DEF SameNodes, Same, IdsIn

\* Types may change without breaking a chain.
LEMMA RetypedChains ==
  ASSUME NEW N, NEW M, SameNodes(N, M), Chained(N)
  PROVE  Chained(M)
<1> SUFFICES ASSUME NEW d \in M, ~IsAdaptor(d.id), NEW s \in DOMAIN d.inputs
             PROVE  Chain(M, d, s)
  BY DEF Chained
<1>1. PICK c \in N : Same(c, d)
  BY DEF SameNodes
<1>2. c.id = d.id /\ c.op = d.op /\ c.inputs = d.inputs
  BY <1>1 DEF Same
<1>3. /\ CastID(d, s) = CastID(c, s) /\ TransposeID(d, s) = TransposeID(c, s)
      /\ Expected(d, s) = Expected(c, s) /\ HasExpectation(d, s) = HasExpectation(c, s)
  BY <1>2 DEF CastID, TransposeID, Expected, HasExpectation
<1>4. IdsIn(M) = IdsIn(N)
  BY SameIds
<1>5. \A a \in N : \A m \in M : Same(a, m) /\ Mends(N, c, s, a) => Mends(M, d, s, m)
  <2> SUFFICES ASSUME NEW a \in N, NEW m \in M, Same(a, m), Mends(N, c, s, a)
               PROVE  Mends(M, d, s, m)
    OBVIOUS
  <2>1. IsAdaptor(a.id)
    BY DEF Mends, CastID, TransposeID, IsAdaptor
  <2> QED
    BY <1>3, <1>4, <2>1 DEF Mends, Same, IsTyped
<1>6. Chain(N, c, s)
  BY <1>2 DEF Chained
<1>7. CASE IsPlain(N, c, s)
  BY <1>2, <1>3, <1>4, <1>7 DEF Chain, IsPlain
<1>8. ASSUME NEW a \in N, IsMended(N, c, s, a)
      PROVE  \E m \in M : IsMended(M, d, s, m)
  <2>1. PICK m \in M : Same(a, m)
    BY DEF SameNodes
  <2> QED
    BY <1>2, <1>3, <1>4, <1>5, <1>8, <2>1 DEF IsMended, Same
<1>9. ASSUME NEW a \in N, NEW b \in N, IsMendedTwice(N, c, s, a, b)
      PROVE  \E m, o \in M : IsMendedTwice(M, d, s, m, o)
  <2>1. PICK m \in M, o \in M : Same(a, m) /\ Same(b, o)
    BY DEF SameNodes
  <2> QED
    BY <1>2, <1>3, <1>4, <1>5, <1>9, <2>1 DEF IsMendedTwice, Same
<1> QED
  BY <1>6, <1>7, <1>8, <1>9 DEF Chain

\* The source of an edge does not depend on types.
LEMMA RetypedSource ==
  ASSUME NEW N, NEW M, SameNodes(N, M), NEW c, NEW d, Same(c, d), NEW s, NEW p,
         SourceIs(N, c, s, p)
  PROVE  SourceIs(M, d, s, p)
BY DEF SameNodes, Same, SourceIs

------------------------------------------------------------------------------
\* Putting an adaptor on an edge: the list of nodes.

\* new is list with e put in at position i.
IsInserted(S, list, i, e, new) ==
  /\ new \in Seq(S) /\ Len(new) = Len(list) + 1
  /\ \A j \in 1 .. i - 1 : new[j] = list[j]
  /\ new[i] = e
  /\ \A j \in i .. Len(list) : new[j + 1] = list[j]

\* InsertAt puts its element in and moves the rest up.
LEMMA InsertAtIs ==
  ASSUME NEW S, NEW list \in Seq(S), NEW i \in 1 .. Len(list), NEW e \in S
  PROVE  IsInserted(S, list, i, e, InsertAt(list, i, e))
<1> DEFINE front == SubSeq(list, 1, i - 1)
           back == SubSeq(list, i, Len(list))
<1>1. Len(list) \in Nat
  BY LenProperties
<1>2. /\ front \in Seq(S) /\ Len(front) = i - 1
      /\ \A j \in 1 .. i - 1 : front[j] = list[j]
  BY <1>1, SubSeqProperties
<1>3. /\ back \in Seq(S) /\ Len(back) = Len(list) - i + 1
      /\ \A j \in 1 .. Len(list) - i + 1 : back[j] = list[i + j - 1]
  BY <1>1, SubSeqProperties
<1> HIDE DEF front, back
<1>4. /\ <<e>> \in Seq(S) /\ Len(<<e>>) = 1 /\ <<e>>[1] = e
  OBVIOUS
<1>5. /\ front \o <<e>> \in Seq(S) /\ Len(front \o <<e>>) = i
      /\ \A j \in 1 .. i - 1 : (front \o <<e>>)[j] = list[j]
      /\ (front \o <<e>>)[i] = e
  BY <1>1, <1>2, <1>4, ConcatProperties
<1>6. PICK first : first = front \o <<e>>
  OBVIOUS
<1>7. InsertAt(list, i, e) = first \o back
  BY <1>6 DEF InsertAt, front, back
<1>8. /\ first \o back \in Seq(S) /\ Len(first \o back) = Len(list) + 1
      /\ \A j \in 1 .. i : (first \o back)[j] = first[j]
      /\ \A j \in 1 .. Len(list) - i + 1 : (first \o back)[i + j] = back[j]
  <2>1. /\ first \in Seq(S) /\ Len(first) = i
        /\ i + Len(back) = Len(list) + 1
    BY <1>1, <1>3, <1>5, <1>6
  <2>2. /\ first \o back \in Seq(S)
        /\ Len(first \o back) = Len(first) + Len(back)
        /\ \A j \in 1 .. Len(first) : (first \o back)[j] = first[j]
        /\ \A j \in 1 .. Len(back) : (first \o back)[Len(first) + j] = back[j]
    <3>1. /\ first \o back \in Seq(S)
          /\ Len(first \o back) = Len(first) + Len(back)
          /\ \A j \in 1 .. Len(first) + Len(back) :
               (first \o back)[j] = IF j <= Len(first) THEN first[j]
                                    ELSE back[j - Len(first)]
      BY <1>3, <2>1, ConcatProperties
    <3>2. Len(first) \in Nat /\ Len(back) \in Nat
      BY <1>1, <1>3, <2>1
    <3> QED
      BY <3>1, <3>2
  <2> QED
    BY <1>3, <2>1, <2>2
<1>9. \A j \in i .. Len(list) : (first \o back)[j + 1] = list[j]
  <2> SUFFICES ASSUME NEW j \in i .. Len(list) PROVE (first \o back)[j + 1] = list[j]
    OBVIOUS
  <2>1. j - i + 1 \in 1 .. Len(list) - i + 1 /\ i + (j - i + 1) = j + 1 /\ i + (j - i + 1) - 1 = j
    BY <1>1
  <2> QED
    BY <1>3, <1>8, <2>1
<1>10. /\ \A j \in 1 .. i - 1 : (first \o back)[j] = list[j]
       /\ (first \o back)[i] = e
  BY <1>1, <1>5, <1>6, <1>8
<1> QED
  BY <1>7, <1>8, <1>9, <1>10 DEF IsInserted

\* The adaptor a that is put on the edge into slot s of c.
Adapts(N, c, s, a) ==
  /\ IsNode(a) /\ HasExpectation(c, s)
  /\ a.id \in {CastID(c, s), TransposeID(c, s)} /\ a.id \notin IdsIn(N)
  /\ a.inputs = <<c.inputs[s]>>
  /\ a.id = CastID(c, s) =>
       /\ a.outputType.dtype = Expected(c, s).dtype /\ Expected(c, s).dtype # "Invalid"
       /\ \A n \in N : n.id = c.inputs[s] => a.outputType.layout = n.outputType.layout
  /\ a.id = TransposeID(c, s) =>
       /\ a.outputType.layout = Expected(c, s).layout
       /\ \A n \in N : n.id = c.inputs[s] => a.outputType.dtype = n.outputType.dtype

Rewired(c, s, a) == [c EXCEPT !.inputs[s] = a.id]

\* The consumer reads the adaptor at the slot and is otherwise what it was.
LEMMA RewiredIs ==
  ASSUME NEW c, IsNode(c), ~IsAdaptor(c.id), NEW s \in DOMAIN c.inputs, NEW a
  PROVE  LET d == Rewired(c, s, a) IN
         /\ IsNode(d) /\ d.id = c.id /\ d.op = c.op /\ d.outputType = c.outputType
         /\ DOMAIN d.inputs = DOMAIN c.inputs
         /\ d.inputs[s] = a.id
         /\ \A k \in DOMAIN c.inputs : k # s => d.inputs[k] = c.inputs[k]
         /\ d.config = c.config
<1> DEFINE ins == [c.inputs EXCEPT ![s] = a.id]
<1>1. Rewired(c, s, a) = [c EXCEPT !.inputs = ins]
  BY DEF Rewired
<1>2. /\ c.inputs \in Seq(NamesOf(c.inputs))
      /\ DOMAIN c.inputs = 1 .. Len(c.inputs) /\ Len(c.inputs) \in Nat
      /\ c.inputs \in [DOMAIN c.inputs -> NamesOf(c.inputs)]
  BY LenProperties DEF IsNode
<1>3. /\ DOMAIN ins = DOMAIN c.inputs /\ ins[s] = a.id
      /\ \A k \in DOMAIN c.inputs : k # s => ins[k] = c.inputs[k]
  BY <1>2
<1>4. ins \in [1 .. Len(c.inputs) -> NamesOf(ins)]
  BY <1>2 DEF NamesOf
<1> HIDE DEF ins
<1>5. ins \in Seq(NamesOf(ins))
  BY <1>2, <1>4, SeqDef
<1>6. PICK d : d = [c EXCEPT !.inputs = ins]
  OBVIOUS
<1>7. /\ d = [id |-> d.id, op |-> d.op, inputs |-> d.inputs, config |-> d.config,
              weights |-> d.weights, valueType |-> d.valueType,
              inputTypes |-> d.inputTypes, outputType |-> d.outputType]
      /\ d.id = c.id /\ d.op = c.op /\ d.outputType = c.outputType /\ d.config = c.config
      /\ d.inputs = ins
  BY <1>6 DEF IsNode
<1>8. IsNode(d)
  BY <1>5, <1>7 DEF IsNode
<1> QED
  BY <1>1, <1>3, <1>6, <1>7, <1>8

\* new is old with the adaptor a before its consumer, at position i.
Inserts(old, new, i, s, a) ==
  /\ new \in Seq(NamesOf(new)) /\ Len(new) = Len(old) + 1
  /\ \A j \in 1 .. i - 1 : new[j] = old[j]
  /\ new[i] = a
  /\ new[i + 1] = Rewired(old[i], s, a)
  /\ \A j \in i + 1 .. Len(old) : new[j + 1] = old[j]

\* Rewiring the consumer and putting the adaptor in front of it, as lists.
LEMMA InsertedBefore ==
  ASSUME NEW old, NEW inputs, IsGraph(old, inputs), NEW i \in 1 .. Len(old),
         NEW s \in DOMAIN old[i].inputs, NEW a
  PROVE  Inserts(old, InsertAt([old EXCEPT ![i].inputs[s] = a.id], i, a), i, s, a)
<1> DEFINE rewired == [old EXCEPT ![i] = Rewired(old[i], s, a)]
           S == NamesOf(old) \cup {a, Rewired(old[i], s, a)}
           new == InsertAt(rewired, i, a)
<1>1. rewired = [old EXCEPT ![i].inputs[s] = a.id]
  BY DEF Rewired
<1>2. DOMAIN old = 1 .. Len(old) /\ Len(old) \in Nat /\ old \in [1 .. Len(old) -> NamesOf(old)]
  BY LenProperties DEF IsGraph
<1>3. /\ rewired \in [1 .. Len(old) -> S] /\ rewired[i] = Rewired(old[i], s, a)
      /\ \A j \in 1 .. Len(old) : j # i => rewired[j] = old[j]
  BY <1>2
<1>4. a \in S
  OBVIOUS
<1> HIDE DEF rewired, S
<1>5. rewired \in Seq(S) /\ Len(rewired) = Len(old)
  BY <1>2, <1>3, SeqDef, LenProperties
<1>6. /\ new \in Seq(S) /\ Len(new) = Len(old) + 1
      /\ \A j \in 1 .. i - 1 : new[j] = rewired[j]
      /\ new[i] = a
      /\ \A j \in i .. Len(old) : new[j + 1] = rewired[j]
  <2>1. i \in 1 .. Len(rewired)
    BY <1>2, <1>5
  <2>2. IsInserted(S, rewired, i, a, new)
    BY <1>4, <1>5, <2>1, InsertAtIs
  <2> QED
    BY <1>5, <2>2 DEF IsInserted
<1> HIDE DEF new
<1>7. new \in Seq(NamesOf(new))
  <2>1. new \in [1 .. Len(new) -> NamesOf(new)]
    BY <1>6, LenProperties DEF NamesOf
  <2> QED
    <3>1. Len(new) \in Nat
      BY <1>2, <1>6
    <3> QED
      BY <2>1, <3>1, SeqDef
<1>8. Inserts(old, new, i, s, a)
  BY <1>2, <1>3, <1>6, <1>7 DEF Inserts
<1> QED
  BY <1>1, <1>8 DEF new

\* The nodes of the longer list.
LEMMA InsertedNodes ==
  ASSUME NEW old, NEW new, NEW inputs, IsGraph(old, inputs), NEW i \in DOMAIN old,
         NEW s, NEW a, Inserts(old, new, i, s, a)
  PROVE  NamesOf(new) = (NamesOf(old) \ {old[i]}) \cup {Rewired(old[i], s, a), a}
<1>1. /\ DOMAIN old = 1 .. Len(old) /\ Len(old) \in Nat
      /\ DOMAIN new = 1 .. Len(old) + 1
  BY LenProperties DEF IsGraph, Inserts
<1>2. \A j \in DOMAIN old : j # i => old[j] # old[i]
  BY DEF IsGraph
<1>3. \A j \in DOMAIN new : \/ j \in 1 .. i - 1 \/ j = i \/ j = i + 1
                            \/ j - 1 \in i + 1 .. Len(old) /\ (j - 1) + 1 = j
  BY <1>1
<1>4. \A j \in DOMAIN new :
        \/ new[j] = a \/ new[j] = Rewired(old[i], s, a)
        \/ \E k \in DOMAIN old : k # i /\ new[j] = old[k]
  <2> TAKE j \in DOMAIN new
  <2>1. CASE j \in 1 .. i - 1
    BY <1>1, <2>1 DEF Inserts
  <2>2. CASE j = i \/ j = i + 1
    BY <2>2 DEF Inserts
  <2>3. CASE j - 1 \in i + 1 .. Len(old) /\ (j - 1) + 1 = j
    <3>1. new[(j - 1) + 1] = old[j - 1]
      BY <2>3 DEF Inserts
    <3> QED
      BY <1>1, <2>3, <3>1
  <2> QED
    BY <1>3, <2>1, <2>2, <2>3
<1>5. \A k \in DOMAIN old : k # i => \E j \in DOMAIN new : new[j] = old[k]
  <2> SUFFICES ASSUME NEW k \in DOMAIN old, k # i
               PROVE  \E j \in DOMAIN new : new[j] = old[k]
    OBVIOUS
  <2>1. CASE k < i
    <3>1. new[k] = old[k] /\ k \in DOMAIN new
      BY <1>1, <2>1 DEF Inserts
    <3> QED
      BY <3>1
  <2>2. CASE k > i
    <3>1. new[k + 1] = old[k] /\ k + 1 \in DOMAIN new
      BY <1>1, <2>2 DEF Inserts
    <3> QED
      BY <3>1
  <2> QED
    BY <1>1, <2>1, <2>2
<1>6. i \in DOMAIN new /\ i + 1 \in DOMAIN new
  BY <1>1
<1>7. \A n \in NamesOf(new) : n \in (NamesOf(old) \ {old[i]}) \cup {Rewired(old[i], s, a), a}
  BY <1>2, <1>4 DEF NamesOf
<1>8. \A n \in NamesOf(old) \ {old[i]} : n \in NamesOf(new)
  BY <1>5 DEF NamesOf
<1>9. a \in NamesOf(new) /\ Rewired(old[i], s, a) \in NamesOf(new)
  BY <1>6 DEF NamesOf, Inserts
<1> QED
  BY <1>7, <1>8, <1>9

\* An adaptor in front of its consumer keeps the graph a graph.
LEMMA InsertedGraph ==
  ASSUME NEW old, NEW new, NEW inputs, IsGraph(old, inputs), NEW i \in DOMAIN old,
         ~IsAdaptor(old[i].id), NEW s \in DOMAIN old[i].inputs, NEW a,
         Inserts(old, new, i, s, a), Adapts(NamesOf(old), old[i], s, a)
  PROVE  IsGraph(new, inputs)
<1> DEFINE at(j) == IF j < i THEN j ELSE j - 1
           d == Rewired(old[i], s, a)
<1>1. /\ DOMAIN old = 1 .. Len(old) /\ Len(old) \in Nat
      /\ DOMAIN new = 1 .. Len(old) + 1 /\ new \in Seq(NamesOf(new))
  BY LenProperties DEF IsGraph, Inserts
<1>2. /\ \A j \in DOMAIN old : IsNode(old[j])
      /\ \A j, k \in DOMAIN old : old[j].id = old[k].id => j = k
      /\ \A name \in NamesOf(inputs) : ~IsAdaptor(name) /\ \A j \in DOMAIN old : old[j].id # name
  BY DEF IsGraph, IdsIn, NamesOf
<1>3. /\ IsNode(d) /\ d.id = old[i].id
      /\ DOMAIN d.inputs = DOMAIN old[i].inputs /\ d.inputs[s] = a.id
      /\ \A k \in DOMAIN old[i].inputs : k # s => d.inputs[k] = old[i].inputs[k]
  BY <1>2, RewiredIs
<1>4. /\ IsNode(a) /\ IsAdaptor(a.id) /\ a.inputs = <<old[i].inputs[s]>>
      /\ \A j \in DOMAIN old : old[j].id # a.id
  BY DEF Adapts, CastID, TransposeID, IsAdaptor, IdsIn, NamesOf
<1>5. /\ new[i] = a /\ new[i + 1] = d
      /\ \A j \in DOMAIN new : j < i => new[j] = old[j]
      /\ \A j \in DOMAIN new : j > i + 1 => new[j] = old[j - 1]
  <2>1. \A j \in DOMAIN new : j > i + 1 => new[j] = old[j - 1]
    <3> SUFFICES ASSUME NEW j \in DOMAIN new, j > i + 1 PROVE new[j] = old[j - 1]
      OBVIOUS
    <3>1. j - 1 \in i + 1 .. Len(old) /\ (j - 1) + 1 = j
      BY <1>1
    <3>2. new[(j - 1) + 1] = old[j - 1]
      BY <3>1 DEF Inserts
    <3> QED
      BY <3>1, <3>2
  <2> QED
    BY <1>1, <2>1 DEF Inserts
<1> HIDE DEF d
<1>6. \A j \in DOMAIN new : j # i => at(j) \in DOMAIN old /\ new[j].id = old[at(j)].id
  BY <1>1, <1>3, <1>5
<1>7. \A j \in DOMAIN new : IsNode(new[j])
  BY <1>1, <1>2, <1>3, <1>4, <1>5
<1>8. \A j, k \in DOMAIN new : new[j].id = new[k].id => j = k
  <2> SUFFICES ASSUME NEW j \in DOMAIN new, NEW k \in DOMAIN new, new[j].id = new[k].id
               PROVE  j = k
    OBVIOUS
  <2>1. CASE j = i \/ k = i
    BY <1>4, <1>5, <1>6, <2>1
  <2>2. CASE j # i /\ k # i
    <3>1. at(j) = at(k)
      BY <1>2, <1>6, <2>2
    <3> QED
      BY <1>1, <2>2, <3>1
  <2> QED
    BY <2>1, <2>2
<1>9. \A m \in DOMAIN old : \A j \in DOMAIN new :
        (IF m < i THEN m < j ELSE m + 1 < j)
          => \E k \in 1 .. j - 1 : new[k].id = old[m].id
  <2> SUFFICES ASSUME NEW m \in DOMAIN old, NEW j \in DOMAIN new,
                      IF m < i THEN m < j ELSE m + 1 < j
               PROVE  \E k \in 1 .. j - 1 : new[k].id = old[m].id
    OBVIOUS
  <2>1. CASE m < i
    <3>1. m \in 1 .. j - 1 /\ m \in DOMAIN new /\ at(m) = m /\ m # i
      BY <1>1, <2>1
    <3> QED
      BY <1>6, <3>1
  <2>2. CASE ~(m < i)
    <3>1. m + 1 \in 1 .. j - 1 /\ m + 1 \in DOMAIN new /\ at(m + 1) = m /\ m + 1 # i
      BY <1>1, <2>2
    <3> QED
      BY <1>6, <3>1
  <2> QED
    BY <2>1, <2>2
<1> HIDE DEF at
<1>10. \A j \in DOMAIN old : \A k \in DOMAIN old[j].inputs :
         \/ old[j].inputs[k] \in NamesOf(inputs)
         \/ \E m \in DOMAIN old : m < j /\ old[m].id = old[j].inputs[k]
  <2> SUFFICES ASSUME NEW j \in DOMAIN old, NEW k \in DOMAIN old[j].inputs,
                      old[j].inputs[k] \notin NamesOf(inputs)
               PROVE  \E m \in DOMAIN old : m < j /\ old[m].id = old[j].inputs[k]
    OBVIOUS
  <2>1. PICK m \in 1 .. j - 1 : old[m].id = old[j].inputs[k]
    BY DEF IsGraph, IsOrdered
  <2>2. m \in DOMAIN old /\ m < j
    BY <1>1
  <2> QED
    BY <2>1, <2>2
<1>11. IsOrdered(new, inputs)
  <2> SUFFICES ASSUME NEW j \in DOMAIN new, NEW k \in DOMAIN new[j].inputs,
                      new[j].inputs[k] \notin NamesOf(inputs)
               PROVE  \E m \in 1 .. j - 1 : new[m].id = new[j].inputs[k]
    BY DEF IsOrdered
  <2>1. CASE j < i
    <3>1. j \in DOMAIN old /\ new[j] = old[j]
      BY <1>1, <1>5, <2>1
    <3>2. PICK m \in DOMAIN old : m < j /\ old[m].id = new[j].inputs[k]
      BY <1>10, <3>1
    <3>3. m < i
      BY <1>1, <2>1, <3>2
    <3> QED
      BY <1>9, <3>2, <3>3
  <2>2. CASE j = i
    <3>1. new[j].inputs[k] = old[i].inputs[s]
      BY <1>4, <1>5, <2>2
    <3>2. PICK m \in DOMAIN old : m < i /\ old[m].id = new[j].inputs[k]
      BY <1>10, <3>1
    <3> QED
      BY <1>9, <2>2, <3>2
  <2>3. CASE j = i + 1
    <3>1. CASE k = s
      <4>1. new[j].inputs[k] = new[i].id /\ i \in 1 .. j - 1
        BY <1>1, <1>3, <1>5, <2>3, <3>1
      <4> QED
        BY <4>1
    <3>2. CASE k # s
      <4>1. k \in DOMAIN old[i].inputs /\ new[j].inputs[k] = old[i].inputs[k]
        BY <1>3, <1>5, <2>3, <3>2
      <4>2. PICK m \in DOMAIN old : m < i /\ old[m].id = new[j].inputs[k]
        BY <1>10, <4>1
      <4>3. m < j
        BY <1>1, <2>3, <4>2
      <4> QED
        BY <1>9, <4>2, <4>3
    <3> QED
      BY <3>1, <3>2
  <2>4. CASE j > i + 1
    <3>1. j - 1 \in DOMAIN old /\ new[j] = old[j - 1]
      BY <1>1, <1>5, <2>4
    <3>2. PICK m \in DOMAIN old : m < j - 1 /\ old[m].id = new[j].inputs[k]
      BY <1>10, <3>1
    <3>3. IF m < i THEN m < j ELSE m + 1 < j
      BY <1>1, <2>4, <3>2
    <3> QED
      BY <1>9, <3>2, <3>3
  <2> QED
    BY <1>1, <2>1, <2>2, <2>3, <2>4
<1>12. \A name \in NamesOf(inputs) : ~IsAdaptor(name) /\ name \notin IdsIn(NamesOf(new))
  <2>1. \A j \in DOMAIN new : new[j].id = a.id \/ \E m \in DOMAIN old : new[j].id = old[m].id
    BY <1>5, <1>6
  <2> QED
    BY <1>2, <1>4, <2>1 DEF IdsIn, NamesOf
<1> QED
  BY <1>1, <1>7, <1>8, <1>11, <1>12 DEF IsGraph

------------------------------------------------------------------------------
\* Putting an adaptor on an edge: the chains of adaptors.

\* Nodes that their IDs tell apart.
IsNodes(N) == /\ \A n \in N : IsNode(n)
              /\ \A m, n \in N : m.id = n.id => m = n

\* The nodes of a graph are a set of nodes.
LEMMA GraphNodes ==
  ASSUME NEW list, NEW inputs, IsGraph(list, inputs)
  PROVE  IsNodes(NamesOf(list))
BY DEF IsGraph, IsNodes, NamesOf

\* The two adaptors of an edge have different IDs.
LEMMA AdaptorIDs ==
  \A c, s : IsAdaptor(CastID(c, s)) /\ IsAdaptor(TransposeID(c, s))
            /\ CastID(c, s) # TransposeID(c, s)
BY DEF CastID, TransposeID, IsAdaptor

\* The IDs of the adaptors tell the edges apart.
LEMMA AdaptorIDsDiffer ==
  \A c, s, d, t : c.id # d.id \/ s # t =>
    {CastID(c, s), TransposeID(c, s)} \cap {CastID(d, t), TransposeID(d, t)} = {}
BY DEF CastID, TransposeID

\* The nodes after the adaptor a was put on the edge into slot s of c.
Adapted(N, c, s, a) == (N \ {c}) \cup {Rewired(c, s, a), a}

\* One ID is new, and the adaptors that were there are still there.
LEMMA AdaptedIds ==
  ASSUME NEW N, IsNodes(N), NEW c \in N, ~IsAdaptor(c.id), NEW s \in DOMAIN c.inputs, NEW a
  PROVE  /\ IdsIn(Adapted(N, c, s, a)) = IdsIn(N) \cup {a.id}
         /\ \A n \in N : IsAdaptor(n.id) => n \in Adapted(N, c, s, a)
<1>1. Rewired(c, s, a).id = c.id
  BY RewiredIs DEF IsNodes
<1> QED
  BY <1>1 DEF IdsIn, Adapted

\* An edge without the new adaptor keeps its chain.
LEMMA OtherChains ==
  ASSUME NEW N, IsNodes(N), NEW c \in N, ~IsAdaptor(c.id), NEW s \in DOMAIN c.inputs,
         NEW a, Adapts(N, c, s, a),
         NEW e, NEW t, Chain(N, e, t), e.id # c.id \/ t # s,
         NEW f, f.id = e.id, f.op = e.op, f.inputs[t] = e.inputs[t]
  PROVE  Chain(Adapted(N, c, s, a), f, t)
<1> DEFINE M == Adapted(N, c, s, a)
<1>1. /\ IdsIn(M) = IdsIn(N) \cup {a.id}
      /\ \A n \in N : IsAdaptor(n.id) => n \in M
  BY AdaptedIds
<1>2. /\ CastID(f, t) = CastID(e, t) /\ TransposeID(f, t) = TransposeID(e, t)
      /\ Expected(f, t) = Expected(e, t) /\ HasExpectation(f, t) = HasExpectation(e, t)
  BY DEF CastID, TransposeID, Expected, HasExpectation
<1>3. a.id # CastID(e, t) /\ a.id # TransposeID(e, t)
  BY AdaptorIDsDiffer DEF Adapts
<1>4. /\ CastID(f, t) \in IdsIn(M) <=> CastID(e, t) \in IdsIn(N)
      /\ TransposeID(f, t) \in IdsIn(M) <=> TransposeID(e, t) \in IdsIn(N)
  BY <1>1, <1>2, <1>3
<1> HIDE DEF M
<1>5. \A n \in N : Mends(N, e, t, n) => n \in M /\ Mends(M, f, t, n)
  <2> SUFFICES ASSUME NEW n \in N, Mends(N, e, t, n)
               PROVE  n \in M /\ Mends(M, f, t, n)
    OBVIOUS
  <2>1. IsAdaptor(n.id)
    BY AdaptorIDs DEF Mends
  <2> QED
    BY <1>1, <1>2, <1>4, <2>1 DEF Mends
<1>6. ASSUME IsPlain(N, e, t) PROVE Chain(M, f, t)
  BY <1>4, <1>6 DEF Chain, IsPlain
<1>7. ASSUME NEW n \in N, IsMended(N, e, t, n) PROVE Chain(M, f, t)
  <2>1. n \in M /\ IsMended(M, f, t, n)
    BY <1>4, <1>5, <1>7 DEF IsMended
  <2> QED
    BY <2>1 DEF Chain
<1>8. ASSUME NEW m \in N, NEW n \in N, IsMendedTwice(N, e, t, m, n) PROVE Chain(M, f, t)
  <2>1. n \in M
    BY <1>1, <1>8, AdaptorIDs DEF IsMendedTwice
  <2>2. m \in M /\ IsMendedTwice(M, f, t, m, n)
    BY <1>2, <1>5, <1>8, <2>1 DEF IsMendedTwice
  <2> QED
    BY <2>1, <2>2 DEF Chain
<1>9. Chain(M, f, t)
  BY <1>6, <1>7, <1>8 DEF Chain
<1> QED
  BY <1>9 DEF M

\* The edge with the new adaptor: it had none, or one of the other kind.
LEMMA NewChain ==
  ASSUME NEW N, IsNodes(N), NEW c \in N, ~IsAdaptor(c.id), NEW s \in DOMAIN c.inputs,
         NEW a, Adapts(N, c, s, a), Chain(N, c, s)
  PROVE  Chain(Adapted(N, c, s, a), Rewired(c, s, a), s)
<1> DEFINE M == Adapted(N, c, s, a)
           d == Rewired(c, s, a)
<1>1. /\ IdsIn(M) = IdsIn(N) \cup {a.id}
      /\ \A n \in N : IsAdaptor(n.id) => n \in M
  BY AdaptedIds
<1>2. d.id = c.id /\ d.op = c.op /\ d.inputs[s] = a.id
  BY RewiredIs DEF IsNodes
<1>3. /\ CastID(d, s) = CastID(c, s) /\ TransposeID(d, s) = TransposeID(c, s)
      /\ Expected(d, s) = Expected(c, s) /\ HasExpectation(d, s) = HasExpectation(c, s)
  BY <1>2 DEF CastID, TransposeID, Expected, HasExpectation
<1>4. a \in M
  BY DEF Adapted
<1>5. /\ a.id \in {CastID(c, s), TransposeID(c, s)} /\ a.id \notin IdsIn(N)
      /\ a.inputs[1] = c.inputs[s] /\ HasExpectation(c, s)
  BY DEF Adapts
<1>6. CastID(c, s) # TransposeID(c, s) /\ IsAdaptor(CastID(c, s)) /\ IsAdaptor(TransposeID(c, s))
  BY AdaptorIDs
<1> HIDE DEF M, d
<1>7. CASE IsPlain(N, c, s)
  <2>1. /\ CastID(c, s) \in IdsIn(M) => a.id = CastID(c, s)
        /\ TransposeID(c, s) \in IdsIn(M) => a.id = TransposeID(c, s)
    BY <1>1, <1>7 DEF IsPlain
  <2>2. Mends(M, d, s, a)
    BY <1>3, <1>5, <2>1 DEF Mends, Adapts
  <2>3. IsMended(M, d, s, a)
    BY <1>2, <1>3, <1>5, <1>6, <1>7, <2>1, <2>2 DEF IsMended, IsPlain
  <2> QED
    BY <1>4, <2>3 DEF Chain, M, d
<1>8. ASSUME NEW b \in N, IsMended(N, c, s, b)
      PROVE  Chain(M, d, s)
  <2>1. /\ b.id = c.inputs[s] /\ Mends(N, c, s, b) /\ ~IsAdaptor(b.inputs[1])
        /\ b.id \in {CastID(c, s), TransposeID(c, s)} /\ b.id \in IdsIn(N)
    BY <1>8 DEF IsMended, Mends, IdsIn
  <2>2. a.id # b.id /\ b \in M
    BY <1>1, <1>5, <1>6, <2>1
  <2>3. /\ a.id = CastID(c, s) => b.id = TransposeID(c, s)
        /\ a.id = TransposeID(c, s) => b.id = CastID(c, s)
    BY <1>5, <2>1, <2>2
  <2>4. /\ a.id = CastID(c, s) => a.outputType.layout = Expected(c, s).layout
        /\ a.id = TransposeID(c, s) => /\ a.outputType.dtype = Expected(c, s).dtype
                                       /\ Expected(c, s).dtype # "Invalid"
    BY <2>1, <2>3 DEF Adapts, Mends
  <2>5. /\ a.id = CastID(c, s) => /\ a.outputType.dtype = Expected(c, s).dtype
                                  /\ Expected(c, s).dtype # "Invalid"
        /\ a.id = TransposeID(c, s) => a.outputType.layout = Expected(c, s).layout
    BY DEF Adapts
  <2>6. Mends(M, d, s, a)
    BY <1>3, <1>5, <2>4, <2>5 DEF Mends
  <2>7. IsMendedTwice(M, d, s, a, b)
    BY <1>2, <1>3, <1>5, <2>1, <2>2, <2>6 DEF IsMendedTwice
  <2> QED
    BY <1>4, <2>2, <2>7 DEF Chain
<1>9. ASSUME NEW b \in N, NEW b2 \in N, IsMendedTwice(N, c, s, b, b2)
      PROVE  FALSE
  <2>1. /\ b.id \in {CastID(c, s), TransposeID(c, s)}
        /\ b2.id \in {CastID(c, s), TransposeID(c, s)} \ {b.id}
        /\ b.id \in IdsIn(N) /\ b2.id \in IdsIn(N)
    BY <1>9 DEF IsMendedTwice, Mends, IdsIn
  <2> QED
    BY <1>5, <2>1
<1> QED
  BY <1>7, <1>8, <1>9 DEF Chain, M, d

\* An adaptor lengthens the chain of its own edge and leaves the others.
LEMMA InsertedChains ==
  ASSUME NEW N, IsNodes(N), Chained(N), NEW c \in N, ~IsAdaptor(c.id),
         NEW s \in DOMAIN c.inputs, NEW a, Adapts(N, c, s, a)
  PROVE  Chained(Adapted(N, c, s, a))
<1> DEFINE M == Adapted(N, c, s, a)
<1> SUFFICES ASSUME NEW f \in M, ~IsAdaptor(f.id), NEW t \in DOMAIN f.inputs
             PROVE  Chain(M, f, t)
  BY DEF Chained
<1>1. LET d == Rewired(c, s, a) IN
      /\ d.id = c.id /\ d.op = c.op /\ DOMAIN d.inputs = DOMAIN c.inputs
      /\ \A k \in DOMAIN c.inputs : k # s => d.inputs[k] = c.inputs[k]
  BY RewiredIs DEF IsNodes
<1>2. CASE f \in N \ {c}
  <2>1. Chain(N, f, t) /\ f.id # c.id
    BY <1>2 DEF Chained, IsNodes
  <2> QED
    BY <2>1, OtherChains
<1>3. CASE f = Rewired(c, s, a) /\ t # s
  <2>1. Chain(N, c, t) /\ f.id = c.id /\ f.op = c.op /\ f.inputs[t] = c.inputs[t]
    BY <1>1, <1>3 DEF Chained
  <2> QED
    BY <1>3, <2>1, OtherChains
<1>4. CASE f = Rewired(c, s, a) /\ t = s
  BY <1>4, NewChain DEF Chained
<1>5. f # a
  BY AdaptorIDs DEF Adapts
<1> QED
  BY <1>2, <1>3, <1>4, <1>5 DEF Adapted

\* The source of an edge stays what it was.
LEMMA InsertedSource ==
  ASSUME NEW N, IsNodes(N), Chained(N), NEW c \in N, ~IsAdaptor(c.id),
         NEW s \in DOMAIN c.inputs, NEW a, Adapts(N, c, s, a),
         NEW e \in N, ~IsAdaptor(e.id), NEW t \in DOMAIN e.inputs, NEW p, SourceIs(N, e, t, p)
  PROVE  SourceIs(Adapted(N, c, s, a), IF e = c THEN Rewired(c, s, a) ELSE e, t, p)
<1> DEFINE M == Adapted(N, c, s, a)
           d == Rewired(c, s, a)
<1>1. \A n \in N : IsAdaptor(n.id) => n \in M
  BY AdaptedIds
<1>2. /\ d.inputs[s] = a.id
      /\ \A k \in DOMAIN c.inputs : k # s => d.inputs[k] = c.inputs[k]
  BY RewiredIs DEF IsNodes
<1>3. a \in M
  BY DEF Adapted
<1>4. IsAdaptor(a.id) /\ a.inputs[1] = c.inputs[s] /\ a.id \notin IdsIn(N)
      /\ a.id \in {CastID(c, s), TransposeID(c, s)}
  BY AdaptorIDs DEF Adapts
<1> HIDE DEF M, d
<1>5. CASE e # c \/ t # s
  <2>1. (IF e = c THEN d ELSE e).inputs[t] = e.inputs[t]
    BY <1>2, <1>5
  <2> QED
    BY <1>1, <2>1 DEF SourceIs, M, d
<1>6. CASE e = c /\ t = s
  <2>1. Chain(N, c, s)
    BY DEF Chained
  <2>2. CASE IsPlain(N, c, s)
    <3>1. c.inputs[s] = p
      <4>1. ~IsAdaptor(c.inputs[s])
        BY <2>2 DEF IsPlain
      <4> QED
        BY <1>6, <4>1 DEF SourceIs
    <3> QED
      BY <1>2, <1>3, <1>4, <1>6, <3>1 DEF SourceIs, M, d
  <2>3. ASSUME NEW b \in N, IsMended(N, c, s, b)
        PROVE  SourceIs(M, d, s, p)
    <3>1. /\ b.id = c.inputs[s] /\ IsAdaptor(b.id) /\ ~IsAdaptor(b.inputs[1])
      BY <2>3, AdaptorIDs DEF IsMended, Mends
    <3>2. b.inputs[1] = p
      BY <1>6, <3>1 DEF SourceIs, IsNodes
    <3> QED
      BY <1>1, <1>2, <1>3, <1>4, <1>6, <3>1, <3>2 DEF SourceIs
  <2>4. ASSUME NEW b \in N, NEW b2 \in N, IsMendedTwice(N, c, s, b, b2)
        PROVE  FALSE
    <3>1. /\ b.id \in {CastID(c, s), TransposeID(c, s)}
          /\ b2.id \in {CastID(c, s), TransposeID(c, s)} \ {b.id}
          /\ b.id \in IdsIn(N) /\ b2.id \in IdsIn(N)
      BY <2>4 DEF IsMendedTwice, Mends, IdsIn
    <3> QED
      BY <1>4, <3>1
  <2> QED
    BY <1>6, <2>1, <2>2, <2>3, <2>4 DEF Chain, M, d
<1> QED
  BY <1>5, <1>6

------------------------------------------------------------------------------
\* Giving a node its type.

\* m is the node n after it was given the output type out.
IsTypedAs(n, m, out) == IsNode(m) /\ Same(n, m) /\ m.outputType = out

\* Setting the types of a node leaves its name, operation and reads.
LEMMA TypedNode ==
  ASSUME NEW n, IsNode(n), NEW ins, NEW out, IsPort(out),
         IsAdaptor(n.id) => out.layout = n.outputType.layout,
         IsTyped(n) => out = n.outputType,
         NEW m, m = [n EXCEPT !.inputTypes = ins, !.outputType = out]
  PROVE  IsTypedAs(n, m, out)
<1>1. PICK r : r = [n EXCEPT !.inputTypes = ins]
  OBVIOUS
<1>2. m = [r EXCEPT !.outputType = out]
  BY <1>1, Zenon
<1>4. r = [id |-> n.id, op |-> n.op, inputs |-> n.inputs, config |-> n.config,
           weights |-> n.weights, valueType |-> n.valueType,
           inputTypes |-> ins, outputType |-> n.outputType]
  BY <1>1 DEF IsNode
<1>5. m = [id |-> n.id, op |-> n.op, inputs |-> n.inputs, config |-> n.config,
           weights |-> n.weights, valueType |-> n.valueType,
           inputTypes |-> ins, outputType |-> out]
  BY <1>2, <1>4
<1>6. /\ m.id = n.id /\ m.op = n.op /\ m.inputs = n.inputs /\ m.config = n.config
      /\ m.outputType = out
      /\ m = [id |-> m.id, op |-> m.op, inputs |-> m.inputs, config |-> m.config,
              weights |-> m.weights, valueType |-> m.valueType,
              inputTypes |-> m.inputTypes, outputType |-> m.outputType]
  BY <1>5
<1>7. IsNode(m) /\ Same(n, m)
  BY <1>6 DEF IsNode, Same, IsTyped
<1> QED
  BY <1>6, <1>7 DEF IsTypedAs

\* A function on 1 .. k is a sequence of length k.
LEMMA FunctionIsSequence ==
  ASSUME NEW S, NEW k \in Nat, NEW f \in [1 .. k -> S]
  PROVE  f \in Seq(S) /\ Len(f) = k
<1>1. f \in Seq(S)
  BY SeqDef
<1> QED
  BY <1>1, LenProperties

\* Only the node at position p is replaced, by m.
LEMMA ReplacedAt ==
  ASSUME NEW list, NEW inputs, IsGraph(list, inputs), NEW p \in DOMAIN list,
         NEW m, IsNode(m), Same(list[p], m),
         NEW new, new = [list EXCEPT ![p] = m]
  PROVE  /\ Retypes(list, new)
         /\ DOMAIN new = DOMAIN list
         /\ \A i \in DOMAIN list : i # p => new[i] = list[i]
         /\ new[p] = m
<1>2. \A i \in DOMAIN list : IsNode(list[i])
  BY DEF IsGraph
<1>4. DOMAIN list = 1 .. Len(list) /\ Len(list) \in Nat /\ list \in [1 .. Len(list) -> NamesOf(list)]
  BY LenProperties DEF IsGraph
<1>5. /\ DOMAIN new = DOMAIN list /\ new[p] = m
      /\ \A i \in DOMAIN list : i # p => new[i] = list[i]
  BY <1>4
<1>6. new \in [1 .. Len(list) -> NamesOf(new)]
  BY <1>4, <1>5 DEF NamesOf
<1>7. new \in Seq(NamesOf(new)) /\ Len(new) = Len(list)
  BY <1>4, <1>6, FunctionIsSequence
<1>8. \A i \in DOMAIN list : Same(list[i], list[i])
  BY DEF Same
<1>9. \A i \in DOMAIN list : IsNode(new[i]) /\ Same(list[i], new[i])
  BY <1>2, <1>5, <1>8
<1> QED
  BY <1>5, <1>7, <1>9 DEF Retypes

\* Only the node at position p is typed.
IsAssigned(list, p, out, new) ==
  /\ Retypes(list, new)
  /\ DOMAIN new = DOMAIN list
  /\ \A i \in DOMAIN list : i # p => new[i] = list[i]
  /\ new[p].outputType = out
\* Assign types the node at the position of the walk and no other.
LEMMA AssignedAt ==
  ASSUME NEW list, NEW inputs, IsGraph(list, inputs), NEW p \in DOMAIN list,
         NEW ins, NEW out, IsPort(out),
         IsAdaptor(list[p].id) => out.layout = list[p].outputType.layout,
         IsTyped(list[p]) => out = list[p].outputType
  PROVE  IsAssigned(list, p, out,
                    [list EXCEPT ![p].inputTypes = ins, ![p].outputType = out])
<1>1. PICK n : n = list[p]
  OBVIOUS
<1>2. PICK m : m = [n EXCEPT !.inputTypes = ins, !.outputType = out]
  OBVIOUS
<1>3. PICK new : new = [list EXCEPT ![p].inputTypes = ins, ![p].outputType = out]
  OBVIOUS
<1>4. new = [list EXCEPT ![p] = m]
  BY <1>1, <1>2, <1>3
<1>5. IsNode(n)
  BY <1>1 DEF IsGraph
<1>6. /\ IsAdaptor(n.id) => out.layout = n.outputType.layout
      /\ IsTyped(n) => out = n.outputType
  BY <1>1
<1>7. IsTypedAs(n, m, out)
  BY <1>2, <1>5, <1>6, TypedNode
<1>8. IsNode(m) /\ Same(list[p], m) /\ m.outputType = out
  BY <1>1, <1>7 DEF IsTypedAs
<1>9. /\ Retypes(list, new)
      /\ DOMAIN new = DOMAIN list
      /\ \A i \in DOMAIN list : i # p => new[i] = list[i]
      /\ new[p] = m
  BY <1>4, <1>8, ReplacedAt
<1> QED
  BY <1>3, <1>8, <1>9 DEF IsAssigned

------------------------------------------------------------------------------
\* The invariant, and the lowering that establishes it.

\* What is known while the topology is lowered: nothing is typed, no ID is
\* that of an adaptor, and what a name is bound to can be read.
IsFresh(n) == ~IsTyped(n) /\ ~IsAdaptor(n.id)
PlainConfigs(N) == \A n \in N : ~IsAdaptor(n.id) => "dtype" \notin DOMAIN n.config
FrontInv ==
  /\ stage = "expand" => /\ nodes = <<>> /\ boundary = <<>>
                         /\ \E source \in Sources : topology = source.topology
  /\ stage = "lower" =>
       /\ IsManifest(topology.nodes)
       /\ position \in 1 .. Len(topology.nodes) + 1
       /\ IdsIn(NamesOf(nodes)) \cup (NamesOf(boundary) \ {Blank}) \subseteq DOMAIN producers
       /\ \A name \in DOMAIN producers :
            producers[name] \in NamesOf(boundary) \cup IdsIn(NamesOf(nodes))
  /\ stage \in {"expand", "lower", "bind", "bound"} =>
       \A n \in NamesOf(nodes) : IsFresh(n)
  /\ PlainConfigs(NamesOf(nodes))

\* The node that came from a manifest node still reads what that one meant.
Serves(N, id, reads) ==
  \E c \in N : /\ c.id = id /\ ~IsAdaptor(c.id)
               /\ DOMAIN c.inputs = DOMAIN reads
               /\ \A k \in DOMAIN reads : SourceIs(N, c, k, reads[k])
ReadsInv ==
  Lowered =>
    /\ \A i \in DOMAIN topology.nodes :
         Serves(NamesOf(nodes), topology.nodes[i].id, LatestReads(i))
    /\ \A name \in DOMAIN outputs :
         outputs[name] = LatestBinder(OutputRef(name), Len(topology.nodes) + 1)

------------------------------------------------------------------------------
\* The walk of Infer has seen the nodes before p with these types.
Seen(list, p, types) ==
  /\ \A i \in DOMAIN list : i < p => /\ list[i].id \in DOMAIN types
                                     /\ types[list[i].id] = list[i].outputType
  /\ \A name \in DOMAIN types : IsPort(types[name])

\* e is about the edge it names, and an adaptor is still missing on it.
Misses(N, c, e) ==
  /\ ~IsAdaptor(c.id) /\ HasExpectation(c, e.slot)
  /\ e.expectedType.dtype = Expected(c, e.slot).dtype
  /\ e.expectedType.layout = Expected(c, e.slot).layout
  /\ AdaptorID(e) \notin IdsIn(N)
  /\ e.hint = "cast" => Expected(c, e.slot).dtype # "Invalid"
  /\ e.hint = "transpose" => DTypesAgree(e.producerType, Expected(c, e.slot))
ErrorOf(N, c, e) ==
  /\ c.id = e.consumer /\ e.slot \in DOMAIN c.inputs
  /\ e.producer = c.inputs[e.slot]
  /\ IsPort(e.producerType)
  /\ \A n \in N : n.id = e.producer => e.producerType = n.outputType
  /\ e.hint \in {"", "cast", "transpose"}
  /\ e.hint # "" => Misses(N, c, e)
ErrorsOf(list, p, errors, from) ==
  \A j \in DOMAIN errors : j >= from =>
    \E i \in DOMAIN list : i < p /\ ErrorOf(NamesOf(list), list[i], errors[j])
EdgesDiffer(errors) ==
  \A j, k \in DOMAIN errors :
    j # k => errors[j].consumer # errors[k].consumer \/ errors[j].slot # errors[k].slot
WalkInv ==
  /\ stage \in {"nodes", "synthesis"} =>
       /\ position \in Nat \ {0}
       /\ edgeErrors \in Seq(NamesOf(edgeErrors))
       /\ EdgesDiffer(edgeErrors)
  /\ stage = "nodes" => /\ Seen(nodes, position, producerTypes)
                        /\ NamesOf(boundary) \subseteq DOMAIN producerTypes
                        /\ ErrorsOf(nodes, position, edgeErrors, 1)
  /\ stage = "synthesis" => ErrorsOf(nodes, Len(nodes) + 1, edgeErrors, position)

GraphInv == IsGraph(nodes, boundary) /\ Chained(NamesOf(nodes))
TyperInv == GraphInv /\ FrontInv /\ WalkInv /\ ReadsInv

------------------------------------------------------------------------------
\* The invariant holds before a topology is lowered.
LEMMA InitTyperInv ==
  ASSUME FrontEndInit
  PROVE  TyperInv
<1>1. nodes = <<>> /\ boundary = <<>> /\ stage = "expand"
      /\ \E source \in Sources : topology = source.topology
  BY DEF FrontEndInit
<1>2. NamesOf(nodes) = {} /\ NamesOf(boundary) = {} /\ DOMAIN nodes = {}
  BY <1>1 DEF NamesOf
<1>3. nodes \in Seq(NamesOf(nodes))
  BY <1>1
<1>4. GraphInv
  BY <1>2, <1>3 DEF GraphInv, IsGraph, IsOrdered, Chained
<1>5. FrontInv
  BY <1>1, <1>2 DEF FrontInv, PlainConfigs
<1>6. WalkInv /\ ReadsInv
  BY <1>1 DEF WalkInv, ReadsInv, Lowered
<1> QED
  BY <1>4, <1>5, <1>6 DEF TyperInv

\* Expanding a topology preserves the invariant: the names of its inputs are
\* read by nothing yet.
LEMMA ExpandPreserves ==
  ASSUME TyperInv, ExpandTopology
  PROVE  TyperInv'
<1>1. /\ stage = "expand" /\ stage' = "lower" /\ position' = 1 /\ nodes' = nodes
      /\ boundary' = topology.inputs
      /\ topology' = [topology EXCEPT !.nodes = Expand(topology.nodes)]
  BY DEF ExpandTopology
<1>2. nodes = <<>> /\ \E source \in Sources : topology = source.topology
  BY <1>1 DEF TyperInv, FrontInv
<1>3. /\ "nodes" \in DOMAIN topology
      /\ topology.inputs \in Seq(NamesOf(topology.inputs))
      /\ \A name \in NamesOf(topology.inputs) : ~IsAdaptor(name)
      /\ IsManifest(Expand(topology.nodes))
  BY <1>2, SourcesAssumption DEF ExpandTopology
<1>4. topology'.nodes = Expand(topology.nodes)
  BY <1>1, <1>3, Zenon
<1>5. NamesOf(nodes') = {} /\ DOMAIN nodes' = {} /\ nodes' \in Seq(NamesOf(nodes'))
  BY <1>1, <1>2 DEF NamesOf
<1>6. IsGraph(nodes', boundary')
  BY <1>1, <1>3, <1>5 DEF IsGraph, IsOrdered, IdsIn
<1>7. Chained(NamesOf(nodes'))
  BY <1>5 DEF Chained
<1>8. NamesOf(boundary') \ {Blank} \subseteq DOMAIN producers'
  <2>1. DOMAIN producers' = NamesOf(Without(topology.inputs, Blank))
    BY DEF ExpandTopology
  <2> DEFINE list == topology.inputs
             S == ToSet(list) \ {Blank}
  <2>2. list \in Seq(NamesOf(list)) /\ Without(list, Blank) = Kept(list, S)
    BY <1>3 DEF Without
  <2> HIDE DEF list, S
  <2>3. \A i \in DOMAIN list : list[i] \in S => \E j \in DOMAIN Kept(list, S) : Kept(list, S)[j] = list[i]
    BY <2>2, KeptInOrder
  <2>4. \A name \in NamesOf(list) \ {Blank} : name \in NamesOf(Kept(list, S))
    BY <2>3 DEF NamesOf, ToSet, S
  <2> QED
    BY <1>1, <2>1, <2>2, <2>4 DEF list
<1>9. \A name \in DOMAIN producers' : producers'[name] \in NamesOf(boundary')
  <2> DEFINE list == topology.inputs
             S == ToSet(list) \ {Blank}
  <2>2. list \in Seq(NamesOf(list)) /\ Without(list, Blank) = Kept(list, S)
    BY <1>3 DEF Without
  <2>3. producers' = [name \in NamesOf(Kept(list, S)) |-> name]
    BY <2>2 DEF ExpandTopology
  <2> HIDE DEF list, S
  <2>4. \A j \in DOMAIN Kept(list, S) : \E i \in DOMAIN list : Kept(list, S)[j] = list[i]
    BY <2>2, KeptInOrder
  <2> QED
    BY <1>1, <2>3, <2>4 DEF NamesOf, list
<1>10. FrontInv'
  BY <1>1, <1>3, <1>4, <1>5, <1>8, <1>9 DEF FrontInv, IsManifest, IdsIn, PlainConfigs
<1>11. WalkInv' /\ ReadsInv'
  BY <1>1 DEF WalkInv, ReadsInv, Lowered
<1> QED
  BY <1>6, <1>7, <1>10, <1>11 DEF TyperInv, GraphInv

\* Where both maps have a name the added one counts.
LEMMA OverlayIs ==
  ASSUME NEW base, NEW added
  PROVE  /\ DOMAIN Overlay(base, added) = DOMAIN base \cup DOMAIN added
         /\ \A k \in DOMAIN added : Overlay(base, added)[k] = added[k]
         /\ \A k \in DOMAIN base \ DOMAIN added : Overlay(base, added)[k] = base[k]
BY DEF Overlay

\* A node that comes last and whose ID is new keeps the graph a graph.
LEMMA AppendedGraph ==
  ASSUME NEW list, NEW inputs, IsGraph(list, inputs), NEW n, IsNode(n), ~IsAdaptor(n.id),
         n.id \notin IdsIn(NamesOf(list)) \cup NamesOf(inputs),
         \A k \in DOMAIN n.inputs : n.inputs[k] \in NamesOf(inputs) \cup IdsIn(NamesOf(list))
  PROVE  /\ IsGraph(Append(list, n), inputs)
         /\ NamesOf(Append(list, n)) = NamesOf(list) \cup {n}
<1> DEFINE new == Append(list, n)
<1>1. /\ list \in Seq(NamesOf(list) \cup {n}) /\ DOMAIN list = 1 .. Len(list) /\ Len(list) \in Nat
  <2>1. NamesOf(list) \subseteq NamesOf(list) \cup {n} /\ list \in Seq(NamesOf(list))
    BY DEF IsGraph
  <2> QED
    BY <2>1, LenProperties, SeqDef
<1>2. /\ new \in Seq(NamesOf(list) \cup {n}) /\ Len(new) = Len(list) + 1
      /\ \A i \in 1 .. Len(list) : new[i] = list[i]
      /\ new[Len(list) + 1] = n
  BY <1>1, AppendProperties
<1>3. DOMAIN new = 1 .. Len(list) + 1
  BY <1>1, <1>2, LenProperties
<1> HIDE DEF new
<1>4. NamesOf(new) = NamesOf(list) \cup {n}
  <2>1. \A i \in 1 .. Len(list) + 1 : i \in 1 .. Len(list) \/ i = Len(list) + 1
    BY <1>1
  <2>2. \A i \in 1 .. Len(list) : i \in 1 .. Len(list) + 1
    BY <1>1
  <2>3. Len(list) + 1 \in 1 .. Len(list) + 1
    BY <1>1
  <2> QED
    BY <1>1, <1>2, <1>3, <2>1, <2>2, <2>3 DEF NamesOf
<1>5. \A i \in DOMAIN new : \/ i \in DOMAIN list /\ new[i] = list[i]
                            \/ i = Len(list) + 1 /\ new[i] = n
  BY <1>1, <1>2, <1>3
<1>6. \A i \in DOMAIN list : list[i].id # n.id /\ IsNode(list[i])
  BY DEF IsGraph, IdsIn, NamesOf
<1>7. \A i, j \in DOMAIN new : new[i].id = new[j].id => i = j
  BY <1>5, <1>6 DEF IsGraph
<1>8. IsOrdered(new, inputs)
  <2> SUFFICES ASSUME NEW i \in DOMAIN new, NEW k \in DOMAIN new[i].inputs,
                      new[i].inputs[k] \notin NamesOf(inputs)
               PROVE  \E j \in 1 .. i - 1 : new[j].id = new[i].inputs[k]
    BY DEF IsOrdered
  <2>1. CASE i \in DOMAIN list /\ new[i] = list[i]
    <3>1. PICK j \in 1 .. i - 1 : list[j].id = list[i].inputs[k]
      BY <2>1 DEF IsGraph, IsOrdered
    <3>2. j \in 1 .. Len(list)
      BY <1>1, <2>1
    <3> QED
      BY <1>2, <2>1, <3>1, <3>2
  <2>2. CASE i = Len(list) + 1 /\ new[i] = n
    <3>1. PICK j \in DOMAIN list : list[j].id = n.inputs[k]
      BY <2>2 DEF IdsIn, NamesOf
    <3>2. j \in 1 .. i - 1
      BY <1>1, <2>2
    <3> QED
      BY <1>1, <1>2, <2>2, <3>1, <3>2
  <2> QED
    BY <1>5, <2>1, <2>2
<1>9. \A i \in DOMAIN new : IsNode(new[i])
  BY <1>5, <1>6
<1>10. \A name \in NamesOf(inputs) : ~IsAdaptor(name) /\ name \notin IdsIn(NamesOf(new))
  BY <1>4 DEF IsGraph, IdsIn
<1>11. new \in Seq(NamesOf(new))
  BY <1>2, <1>4
<1>12. IsGraph(new, inputs)
  BY <1>7, <1>8, <1>9, <1>10, <1>11 DEF IsGraph
<1> QED
  BY <1>4, <1>12 DEF new

\* Without adaptors in it a graph has nothing but plain edges.
LEMMA FreshChains ==
  ASSUME NEW list, NEW inputs, IsGraph(list, inputs),
         \A n \in NamesOf(list) : ~IsAdaptor(n.id)
  PROVE  /\ Chained(NamesOf(list))
         /\ \A c \in NamesOf(list) : \A s \in DOMAIN c.inputs : ~IsAdaptor(c.inputs[s])
<1>1. \A c \in NamesOf(list) : \A s \in DOMAIN c.inputs :
        c.inputs[s] \in NamesOf(inputs) \/ \E n \in NamesOf(list) : c.inputs[s] = n.id
  <2> SUFFICES ASSUME NEW i \in DOMAIN list, NEW s \in DOMAIN list[i].inputs,
                      list[i].inputs[s] \notin NamesOf(inputs)
               PROVE  \E n \in NamesOf(list) : list[i].inputs[s] = n.id
    BY DEF NamesOf
  <2>1. PICK j \in 1 .. i - 1 : list[j].id = list[i].inputs[s]
    BY DEF IsGraph, IsOrdered
  <2>2. j \in DOMAIN list
    BY LenProperties DEF IsGraph
  <2> QED
    BY <2>1, <2>2 DEF NamesOf
<1>2. \A c \in NamesOf(list) : \A s \in DOMAIN c.inputs : ~IsAdaptor(c.inputs[s])
  BY <1>1 DEF IsGraph
<1>3. \A c, s : CastID(c, s) \notin IdsIn(NamesOf(list)) /\ TransposeID(c, s) \notin IdsIn(NamesOf(list))
  BY AdaptorIDs DEF IdsIn
<1> QED
  BY <1>2, <1>3 DEF Chained, Chain, IsPlain

\* What a manifest node becomes.
LEMMA NewNode ==
  ASSUME NEW id, ~IsAdaptor(id), NEW op, NEW inputs, inputs \in Seq(NamesOf(inputs)),
         NEW config, NEW weights
  PROVE  LET n == GraphNode(id, op, inputs, config, weights) IN
         /\ IsNode(n) /\ IsFresh(n)
         /\ n.id = id /\ n.inputs = inputs /\ n.config = config
BY CommonPorts, PortIsPort DEF GraphNode, IsNode, IsFresh, IsTyped, Untyped, Port

\* What a node reads is a list of names without the blank one.
LEMMA ReadsAre ==
  ASSUME NEW node, node.in \in Seq(NamesOf(node.in))
  PROVE  Reads(node) \in Seq(NamesOf(node.in))
BY KeptInOrder DEF Reads, Without

\* Lowering a node preserves the invariant: its reads are resolved to producers
\* that are there, so it comes after all of them.
LEMMA LowerPreserves ==
  ASSUME TyperInv, LowerNode
  PROVE  TyperInv'
<1> DEFINE node == topology.nodes[position]
           added == GraphNode(node.id, node.op, ResolvedInputs(node), node.config,
                              RequestedWeights(node))
<1>1. /\ stage = "lower" /\ stage' = "lower" /\ position' = position + 1
      /\ position \in DOMAIN topology.nodes
      /\ topology' = topology /\ boundary' = boundary /\ CanLower(node)
      /\ nodes' = Append(nodes, added)
      /\ producers' = Overlay(producers, [name \in Binds(node) |-> node.id])
  BY DEF LowerNode
<1>2. /\ IsManifest(topology.nodes)
      /\ position \in 1 .. Len(topology.nodes) + 1
      /\ IdsIn(NamesOf(nodes)) \cup (NamesOf(boundary) \ {Blank}) \subseteq DOMAIN producers
      /\ \A name \in DOMAIN producers :
           producers[name] \in NamesOf(boundary) \cup IdsIn(NamesOf(nodes))
      /\ \A n \in NamesOf(nodes) : IsFresh(n)
      /\ PlainConfigs(NamesOf(nodes))
      /\ IsGraph(nodes, boundary)
  BY <1>1 DEF TyperInv, FrontInv, GraphInv
<1>3. /\ node.in \in Seq(NamesOf(node.in)) /\ ~IsAdaptor(node.id)
      /\ "dtype" \notin DOMAIN node.config
  BY <1>1, <1>2 DEF IsManifest
<1>4. /\ node.id # Blank /\ node.id \notin DOMAIN producers
      /\ NamesOf(Reads(node)) \subseteq DOMAIN producers
  BY <1>1 DEF CanLower
<1>5. Reads(node) \in Seq(NamesOf(node.in))
  BY <1>3, ReadsAre
<1>6. /\ ResolvedInputs(node) \in Seq(NamesOf(ResolvedInputs(node)))
      /\ \A k \in DOMAIN ResolvedInputs(node) :
           ResolvedInputs(node)[k] \in NamesOf(boundary) \cup IdsIn(NamesOf(nodes))
  <2> DEFINE ins == ResolvedInputs(node)
  <2>1. DOMAIN Reads(node) = 1 .. Len(Reads(node)) /\ Len(Reads(node)) \in Nat
    BY <1>5, LenProperties
  <2>2. ins = [i \in 1 .. Len(Reads(node)) |-> producers[Reads(node)[i]]]
    BY <2>1 DEF ResolvedInputs
  <2>3. ins \in [1 .. Len(Reads(node)) -> NamesOf(ins)]
    BY <2>2 DEF NamesOf
  <2>4. ins \in Seq(NamesOf(ins))
    BY <2>1, <2>3, FunctionIsSequence
  <2>5. \A k \in DOMAIN ins : ins[k] = producers[Reads(node)[k]] /\ k \in DOMAIN Reads(node)
    BY <2>1, <2>2
  <2> QED
    BY <1>2, <1>4, <2>4, <2>5 DEF NamesOf
<1>7. /\ IsNode(added) /\ IsFresh(added) /\ added.id = node.id
      /\ added.inputs = ResolvedInputs(node) /\ added.config = node.config
  BY <1>3, <1>6, NewNode
<1> HIDE DEF added
<1>8. added.id \notin IdsIn(NamesOf(nodes)) \cup NamesOf(boundary)
  BY <1>2, <1>4, <1>7
<1>9. /\ IsGraph(nodes', boundary')
      /\ NamesOf(nodes') = NamesOf(nodes) \cup {added}
  <2>1. ~IsAdaptor(added.id)
    BY <1>3, <1>7
  <2> QED
    BY <1>1, <1>2, <1>6, <1>7, <1>8, <2>1, AppendedGraph
<1>10. \A n \in NamesOf(nodes') : IsFresh(n)
  BY <1>2, <1>7, <1>9
<1>11. Chained(NamesOf(nodes'))
  BY <1>9, <1>10, FreshChains DEF IsFresh
<1>12. IdsIn(NamesOf(nodes')) = IdsIn(NamesOf(nodes)) \cup {node.id}
  BY <1>7, <1>9 DEF IdsIn
<1>13. /\ DOMAIN producers' = DOMAIN producers \cup Binds(node) /\ node.id \in Binds(node)
       /\ \A name \in DOMAIN producers' :
            producers'[name] = node.id \/ (name \in DOMAIN producers /\ producers'[name] = producers[name])
  <2> PICK m : m = [name \in Binds(node) |-> node.id]
    OBVIOUS
  <2>1. DOMAIN m = Binds(node) /\ \A name \in Binds(node) : m[name] = node.id
    OBVIOUS
  <2>2. producers' = Overlay(producers, m)
    BY <1>1
  <2>3. /\ DOMAIN producers' = DOMAIN producers \cup DOMAIN m
        /\ \A k \in DOMAIN m : producers'[k] = m[k]
        /\ \A k \in DOMAIN producers \ DOMAIN m : producers'[k] = producers[k]
    BY <2>2 DEF Overlay
  <2>4. node.id \in Binds(node)
    BY DEF Binds
  <2>5. DOMAIN producers' = DOMAIN producers \cup Binds(node)
    BY <2>1, <2>3, Zenon
  <2>6. ASSUME NEW name \in DOMAIN producers'
        PROVE  producers'[name] = node.id \/ (name \in DOMAIN producers /\ producers'[name] = producers[name])
    BY <2>1, <2>3
  <2> QED
    BY <2>4, <2>5, <2>6
<1>14. position' \in 1 .. Len(topology.nodes) + 1
  <2>1. DOMAIN topology.nodes = 1 .. Len(topology.nodes) /\ Len(topology.nodes) \in Nat
    BY <1>2, LenProperties DEF IsManifest
  <2> QED
    BY <1>1, <2>1
<1>15. PlainConfigs(NamesOf(nodes'))
  BY <1>2, <1>3, <1>7, <1>9 DEF PlainConfigs
<1>16. FrontInv'
  <2>1. IdsIn(NamesOf(nodes')) \cup (NamesOf(boundary') \ {Blank}) \subseteq DOMAIN producers'
    BY <1>1, <1>2, <1>12, <1>13
  <2>2. \A name \in DOMAIN producers' : producers'[name] \in NamesOf(boundary') \cup IdsIn(NamesOf(nodes'))
    BY <1>1, <1>2, <1>12, <1>13
  <2> QED
    BY <1>1, <1>2, <1>10, <1>14, <1>15, <2>1, <2>2 DEF FrontInv
<1>17. WalkInv' /\ ReadsInv'
  BY <1>1 DEF WalkInv, ReadsInv, Lowered
<1> QED
  BY <1>9, <1>11, <1>16, <1>17 DEF TyperInv, GraphInv

\* Types do not matter for what an edge reads.
LEMMA RetypedServes ==
  ASSUME NEW N, NEW M, SameNodes(N, M), NEW id, NEW reads, Serves(N, id, reads)
  PROVE  Serves(M, id, reads)
<1>1. PICK c \in N : /\ c.id = id /\ ~IsAdaptor(c.id) /\ DOMAIN c.inputs = DOMAIN reads
                     /\ \A k \in DOMAIN reads : SourceIs(N, c, k, reads[k])
  BY DEF Serves
<1>2. PICK d \in M : Same(c, d)
  BY DEF SameNodes
<1>3. \A k \in DOMAIN reads : SourceIs(M, d, k, reads[k])
  BY <1>1, <1>2, RetypedSource
<1> QED
  BY <1>1, <1>2, <1>3 DEF Serves, Same

\* What an edge reads does not depend on types.
LEMMA RetypedReads ==
  ASSUME ReadsInv, SameNodes(NamesOf(nodes), NamesOf(nodes')),
         topology' = topology, outputs' = outputs, Lowered
  PROVE  ReadsInv'
<1>1. /\ \A i : LatestReads(i)' = LatestReads(i)
      /\ \A name : LatestBinder(OutputRef(name), Len(topology.nodes) + 1)'
                     = LatestBinder(OutputRef(name), Len(topology.nodes) + 1)
  BY DEF LatestReads, LatestBinder, OutputRef
<1>2. \A i \in DOMAIN topology.nodes :
        Serves(NamesOf(nodes'), topology.nodes[i].id, LatestReads(i))
  BY RetypedServes DEF ReadsInv
<1> QED
  BY <1>1, <1>2 DEF ReadsInv

\* Binding the weights retypes nothing.
LEMMA BindPreserves ==
  ASSUME TyperInv, BindWeights
  PROVE  TyperInv'
<1>1. /\ stage = "bind" /\ stage' = "bound" /\ boundary' = boundary /\ outputs' = outputs
      /\ topology' = topology
  BY DEF BindWeights, loweringVars
<1>2. PICK dtype :
        nodes' = [i \in DOMAIN nodes |->
                    [Bind1(nodes[i], checkpoint[1]) EXCEPT !.valueType = dtype]]
  BY DEF BindWeights
<1>3. /\ IsGraph(nodes, boundary) /\ Chained(NamesOf(nodes))
      /\ \A n \in NamesOf(nodes) : IsFresh(n)
      /\ PlainConfigs(NamesOf(nodes))
  BY <1>1 DEF TyperInv, FrontInv, GraphInv
<1>4. \A i \in DOMAIN nodes : /\ IsNode(nodes'[i]) /\ Same(nodes[i], nodes'[i])
                              /\ nodes'[i].outputType = nodes[i].outputType
  <2> SUFFICES ASSUME NEW i \in DOMAIN nodes
               PROVE  /\ IsNode(nodes'[i]) /\ Same(nodes[i], nodes'[i])
                      /\ nodes'[i].outputType = nodes[i].outputType
    OBVIOUS
  <2> PICK n : n = nodes[i]
    OBVIOUS
  <2> PICK b : b = Bind1(n, checkpoint[1])
    OBVIOUS
  <2>1. IsNode(n)
    BY <1>3 DEF IsGraph
  <2>2. b = n \/ \E w : b = [n EXCEPT !.weights = w]
    BY DEF Bind1
  <2>3. PICK w : b = [id |-> n.id, op |-> n.op, inputs |-> n.inputs, config |-> n.config,
                      weights |-> w, valueType |-> n.valueType,
                      inputTypes |-> n.inputTypes, outputType |-> n.outputType]
    BY <2>1, <2>2 DEF IsNode
  <2>4. nodes'[i] = [b EXCEPT !.valueType = dtype]
    BY <1>2
  <2>5. nodes'[i] = [id |-> n.id, op |-> n.op, inputs |-> n.inputs, config |-> n.config,
                     weights |-> w, valueType |-> dtype,
                     inputTypes |-> n.inputTypes, outputType |-> n.outputType]
    BY <2>3, <2>4
  <2> QED
    BY <2>1, <2>5 DEF IsNode, Same, IsTyped
<1>5. Retypes(nodes, nodes')
  <2>1. DOMAIN nodes = 1 .. Len(nodes) /\ Len(nodes) \in Nat
    BY <1>3, LenProperties DEF IsGraph
  <2>2. nodes' \in [1 .. Len(nodes) -> NamesOf(nodes')]
    BY <1>2, <2>1 DEF NamesOf
  <2>3. nodes' \in Seq(NamesOf(nodes')) /\ Len(nodes') = Len(nodes)
    BY <2>1, <2>2, FunctionIsSequence
  <2> QED
    BY <1>4, <2>3 DEF Retypes
<1>6. /\ IsGraph(nodes', boundary') /\ Chained(NamesOf(nodes'))
      /\ SameNodes(NamesOf(nodes), NamesOf(nodes'))
  BY <1>1, <1>3, <1>5, RetypedGraph, RetypedNodes, RetypedChains
<1>7. \A n \in NamesOf(nodes') : IsFresh(n) /\ "dtype" \notin DOMAIN n.config
  <2>1. \A i \in DOMAIN nodes' : i \in DOMAIN nodes
    BY <1>2
  <2>2. \A i \in DOMAIN nodes : /\ nodes'[i].id = nodes[i].id /\ nodes'[i].config = nodes[i].config
                                /\ nodes'[i].outputType = nodes[i].outputType
    BY <1>4 DEF Same
  <2> QED
    BY <1>3, <2>1, <2>2 DEF NamesOf, IsFresh, IsTyped, PlainConfigs
<1>8. FrontInv'
  BY <1>1, <1>7 DEF FrontInv, PlainConfigs
<1>9. WalkInv'
  BY <1>1 DEF WalkInv
<1>10. ReadsInv'
  BY <1>1, <1>6, RetypedReads DEF TyperInv, Lowered
<1> QED
  BY <1>6, <1>8, <1>9, <1>10 DEF TyperInv, GraphInv

------------------------------------------------------------------------------
\* Resolving the outputs preserves the invariant.
LEMMA ResolvePreserves ==
  ASSUME TyperInv, LoweringInv', ResolveOutputs
  PROVE  TyperInv'
<1>1. /\ stage = "lower" /\ stage' = "bind" /\ nodes' = nodes /\ boundary' = boundary
      /\ position > Len(topology.nodes) /\ position' = position /\ topology' = topology
  BY DEF ResolveOutputs, loweringVars
<1>2. /\ IsManifest(topology.nodes) /\ position \in 1 .. Len(topology.nodes) + 1
      /\ \A n \in NamesOf(nodes) : IsFresh(n)
      /\ IsGraph(nodes, boundary) /\ Chained(NamesOf(nodes))
      /\ PlainConfigs(NamesOf(nodes))
  BY <1>1 DEF TyperInv, FrontInv, GraphInv
<1>3. /\ DOMAIN topology.nodes = 1 .. Len(topology.nodes) /\ Len(topology.nodes) \in Nat
      /\ DOMAIN nodes = 1 .. Len(nodes)
  BY <1>2, LenProperties DEF IsManifest, IsGraph
<1>4. position = Len(topology.nodes) + 1
  BY <1>1, <1>2, <1>3
<1>5. /\ Len(nodes') = position' - 1
      /\ \A i \in 1 .. position' - 1 : /\ nodes'[i].id = topology'.nodes[i].id
                                       /\ nodes'[i].inputs = LatestReads(i)'
      /\ \A name \in DOMAIN outputs' :
           outputs'[name] = LatestBinder(OutputRef(name), position)'
  BY <1>1 DEF LoweringInv
<1>6. /\ \A i : LatestReads(i)' = LatestReads(i)
      /\ \A name : LatestBinder(OutputRef(name), position)' = LatestBinder(OutputRef(name), position)
  BY <1>1 DEF LatestReads, LatestBinder, OutputRef
<1>7. /\ Len(nodes) = Len(topology.nodes)
      /\ \A i \in DOMAIN topology.nodes : /\ i \in DOMAIN nodes
                                          /\ nodes[i].id = topology.nodes[i].id
                                          /\ nodes[i].inputs = LatestReads(i)
  BY <1>1, <1>3, <1>4, <1>5, <1>6
<1>8. \A c \in NamesOf(nodes) : /\ ~IsAdaptor(c.id)
                                /\ \A s \in DOMAIN c.inputs : ~IsAdaptor(c.inputs[s])
  BY <1>2, FreshChains DEF IsFresh
<1>9. \A i \in DOMAIN topology.nodes :
        Serves(NamesOf(nodes), topology.nodes[i].id, LatestReads(i))
  BY <1>7, <1>8 DEF Serves, SourceIs, NamesOf
<1>10. \A name \in DOMAIN outputs' :
         outputs'[name] = LatestBinder(OutputRef(name), Len(topology.nodes) + 1)'
  <2>1. \A name : LatestBinder(OutputRef(name), Len(topology.nodes) + 1)'
                    = LatestBinder(OutputRef(name), position)
    BY <1>1, <1>4 DEF LatestBinder, OutputRef
  <2> QED
    BY <1>5, <1>6, <2>1
<1>11. ReadsInv'
  BY <1>1, <1>6, <1>9, <1>10 DEF ReadsInv
<1>12. FrontInv'
  BY <1>1, <1>2 DEF FrontInv
<1> QED
  BY <1>1, <1>2, <1>11, <1>12 DEF TyperInv, GraphInv, WalkInv

\* A step that leaves the graph alone.
LEMMA UnchangedGraph ==
  ASSUME TyperInv, UNCHANGED <<nodes, boundary, topology, outputs>>,
         stage' \notin {"expand", "lower"}, Lowered' => Lowered,
         stage' = "bind" => stage = "bind", stage' = "bound" => stage \in {"bind", "bound"}
  PROVE  GraphInv' /\ FrontInv' /\ ReadsInv'
<1>1. GraphInv' /\ FrontInv'
  BY DEF TyperInv, GraphInv, FrontInv
<1>2. /\ \A i : LatestReads(i)' = LatestReads(i)
      /\ \A name : LatestBinder(OutputRef(name), Len(topology.nodes) + 1)'
                     = LatestBinder(OutputRef(name), Len(topology.nodes) + 1)
  BY DEF LatestReads, LatestBinder, OutputRef
<1> QED
  BY <1>1, <1>2 DEF TyperInv, ReadsInv

\* A step that neither changes the graph nor walks it preserves the invariant.
LEMMA OutsideTyper ==
  ASSUME TyperInv, UNCHANGED <<nodes, boundary, topology, outputs>>,
         stage' \notin {"expand", "lower", "nodes", "synthesis"}, Lowered' => Lowered,
         stage' = "bind" => stage = "bind", stage' = "bound" => stage \in {"bind", "bound"}
  PROVE  TyperInv'
<1>1. GraphInv' /\ FrontInv' /\ ReadsInv'
  BY UnchangedGraph
<1> QED
  BY <1>1 DEF TyperInv, WalkInv

\* A step that changes nothing preserves the invariant.
LEMMA StutterPreserves ==
  ASSUME TyperInv, UNCHANGED frontEndVars
  PROVE  TyperInv'
<1>1. /\ UNCHANGED <<nodes, boundary, topology, outputs>>
      /\ UNCHANGED <<stage, position, producers, producerTypes, edgeErrors>>
  BY DEF frontEndVars, graphVars, loweringVars, inferVars
<1>2. /\ \A i : LatestReads(i)' = LatestReads(i)
      /\ \A name : LatestBinder(OutputRef(name), Len(topology.nodes) + 1)'
                     = LatestBinder(OutputRef(name), Len(topology.nodes) + 1)
  BY <1>1 DEF LatestReads, LatestBinder, OutputRef
<1> QED
  BY <1>1, <1>2 DEF TyperInv, GraphInv, FrontInv, WalkInv, ReadsInv, Lowered

------------------------------------------------------------------------------
\* The type of a graph input is a port.
LEMMA GraphInputPorts ==
  ASSUME NEW name
  PROVE  IsPort(GraphInputPortType(name))
BY CommonPorts, PortIsPort, Zenon DEF GraphInputPortType

\* A round starts without errors and with the types of the inputs.
LEMMA BeginInferPreserves ==
  ASSUME TyperInv, BeginInfer, UNCHANGED topology
  PROVE  TyperInv'
<1>1. /\ stage = "infer" /\ stage' = "nodes" /\ position' = 1
      /\ producerTypes' = [name \in NamesOf(boundary) |-> GraphInputPortType(name)]
      /\ edgeErrors' = <<>>
      /\ UNCHANGED <<nodes, boundary, topology, outputs>>
  BY DEF BeginInfer, graphVars
<1>2. GraphInv' /\ FrontInv' /\ ReadsInv'
  BY <1>1, UnchangedGraph DEF Lowered
<1>3. Seen(nodes', position', producerTypes')
  <2>1. \A i \in DOMAIN nodes : i \in Nat /\ i >= 1
    BY LenProperties DEF TyperInv, GraphInv, IsGraph
  <2> QED
    BY <1>1, <2>1, GraphInputPorts DEF Seen
<1>4. edgeErrors' \in Seq(NamesOf(edgeErrors')) /\ DOMAIN edgeErrors' = {}
  BY <1>1 DEF NamesOf
<1> QED
  BY <1>1, <1>2, <1>3, <1>4 DEF TyperInv, WalkInv, ErrorsOf, EdgesDiffer

------------------------------------------------------------------------------
\* Nothing reads a node that comes after it.
LEMMA ReadsComeFirst ==
  ASSUME NEW list, NEW inputs, IsGraph(list, inputs), NEW i \in DOMAIN list,
         NEW s \in DOMAIN list[i].inputs, NEW j \in DOMAIN list,
         list[j].id = list[i].inputs[s]
  PROVE  j < i
<1>1. list[i].inputs[s] \notin NamesOf(inputs)
  BY DEF IsGraph, IdsIn, NamesOf
<1>2. PICK k \in 1 .. i - 1 : list[k].id = list[i].inputs[s]
  BY <1>1 DEF IsGraph, IsOrdered
<1>3. DOMAIN list = 1 .. Len(list) /\ Len(list) \in Nat
  BY LenProperties DEF IsGraph
<1>4. k \in DOMAIN list
  BY <1>2, <1>3
<1>5. k = j
  BY <1>2, <1>4 DEF IsGraph
<1> QED
  BY <1>2, <1>3, <1>5

\* A node that is typed later leaves the errors of the nodes before it.
LEMMA ErrorRetyped ==
  ASSUME NEW old, NEW new, NEW inputs, IsGraph(old, inputs), NEW p \in DOMAIN old,
         NEW out, IsAssigned(old, p, out, new), NEW i \in DOMAIN old, i <= p,
         NEW e, ErrorOf(NamesOf(old), old[i], e)
  PROVE  ErrorOf(NamesOf(new), new[i], e)
<1>1. /\ Retypes(old, new) /\ DOMAIN new = DOMAIN old
      /\ \A j \in DOMAIN old : j # p => new[j] = old[j]
      /\ DOMAIN old = 1 .. Len(old)
  BY LenProperties DEF IsAssigned, IsGraph
<1>2. \A j \in DOMAIN old : /\ new[j].id = old[j].id /\ new[j].op = old[j].op
                            /\ new[j].inputs = old[j].inputs
  BY <1>1 DEF Retypes, Same
<1>3. IdsIn(NamesOf(new)) = IdsIn(NamesOf(old))
  BY <1>1, RetypedNodes, SameIds
<1>4. ASSUME NEW n \in NamesOf(new), n.id = e.producer
      PROVE  e.producerType = n.outputType
  <2>1. PICK j \in DOMAIN old : n = new[j]
    BY <1>1, <1>4 DEF NamesOf
  <2>2. old[j].id = old[i].inputs[e.slot] /\ e.slot \in DOMAIN old[i].inputs
    BY <1>2, <1>4, <2>1 DEF ErrorOf
  <2>3. j < i
    BY <2>2, ReadsComeFirst
  <2>4. n = old[j] /\ n \in NamesOf(old)
    BY <1>1, <2>1, <2>3 DEF NamesOf
  <2> QED
    BY <1>4, <2>4 DEF ErrorOf
<1> QED
  BY <1>2, <1>3, <1>4 DEF ErrorOf, Misses, HasExpectation, Expected

\* The same for all errors of the nodes before it.
LEMMA ErrorsRetyped ==
  ASSUME NEW old, NEW new, NEW inputs, IsGraph(old, inputs), NEW p \in DOMAIN old,
         NEW out, IsAssigned(old, p, out, new), NEW errors, ErrorsOf(old, p, errors, 1)
  PROVE  ErrorsOf(new, p + 1, errors, 1)
<1>1. DOMAIN new = DOMAIN old /\ DOMAIN old = 1 .. Len(old) /\ Len(old) \in Nat
  BY LenProperties DEF IsAssigned, IsGraph
<1> SUFFICES ASSUME NEW j \in DOMAIN errors, j >= 1
             PROVE  \E i \in DOMAIN new : i < p + 1 /\ ErrorOf(NamesOf(new), new[i], errors[j])
  BY DEF ErrorsOf
<1>2. PICK i \in DOMAIN old : i < p /\ ErrorOf(NamesOf(old), old[i], errors[j])
  BY DEF ErrorsOf
<1>3. ErrorOf(NamesOf(new), new[i], errors[j])
  <2>1. i <= p
    BY <1>1, <1>2
  <2> QED
    BY <1>2, <2>1, ErrorRetyped
<1> QED
  BY <1>1, <1>2, <1>3

\* The walk goes on behind the node at p with its type.
LEMMA SeenNext ==
  ASSUME NEW old, NEW new, NEW inputs, IsGraph(old, inputs), NEW p \in DOMAIN old,
         NEW out, IsPort(out), IsAssigned(old, p, out, new),
         NEW types, Seen(old, p, types), NEW m, m = [n \in {old[p].id} |-> out]
  PROVE  Seen(new, p + 1, Overlay(types, m))
<1>1. /\ DOMAIN new = DOMAIN old
      /\ \A j \in DOMAIN old : j # p => new[j] = old[j]
      /\ \A j \in DOMAIN old : new[j].id = old[j].id
      /\ new[p].outputType = out
      /\ DOMAIN old = 1 .. Len(old)
  BY LenProperties DEF IsAssigned, Retypes, Same, IsGraph
<1> PICK seen : seen = Overlay(types, m)
  OBVIOUS
<1>2. DOMAIN m = {old[p].id} /\ m[old[p].id] = out
  OBVIOUS
<1>3. /\ DOMAIN seen = DOMAIN types \cup DOMAIN m
      /\ \A k \in DOMAIN m : seen[k] = m[k]
      /\ \A k \in DOMAIN types \ DOMAIN m : seen[k] = types[k]
  BY DEF Overlay
<1>4. ASSUME NEW i \in DOMAIN new, i < p + 1
      PROVE  new[i].id \in DOMAIN seen /\ seen[new[i].id] = new[i].outputType
  <2>1. CASE i = p
    BY <1>1, <1>2, <1>3, <2>1
  <2>2. CASE i # p
    <3>1. i < p /\ new[i] = old[i] /\ i \in DOMAIN old
      BY <1>1, <1>4, <2>2
    <3>2. old[i].id # old[p].id
      BY <1>1, <2>2 DEF IsGraph
    <3>3. old[i].id \in DOMAIN types /\ types[old[i].id] = old[i].outputType
      BY <3>1 DEF Seen
    <3> QED
      BY <1>2, <1>3, <3>1, <3>2, <3>3
  <2> QED
    BY <2>1, <2>2
<1>5. ASSUME NEW name \in DOMAIN seen
      PROVE  IsPort(seen[name])
  BY <1>2, <1>3, <1>5 DEF Seen
<1> QED
  BY <1>4, <1>5 DEF Seen

\* What every step of the walk has in common.
LEMMA AssignPreserves ==
  ASSUME TyperInv, stage = "nodes", position \in DOMAIN nodes,
         NEW ins, NEW out, Assign(ins, out), UNCHANGED <<boundary, topology, outputs, stage>>,
         IsPort(out),
         IsAdaptor(nodes[position].id) => out.layout = nodes[position].outputType.layout,
         IsTyped(nodes[position]) => out = nodes[position].outputType
  PROVE  /\ IsAssigned(nodes, position, out, nodes')
         /\ position' = position + 1 /\ position' \in Nat \ {0}
         /\ GraphInv' /\ FrontInv' /\ ReadsInv'
         /\ Seen(nodes', position', producerTypes')
         /\ NamesOf(boundary') \subseteq DOMAIN producerTypes'
         /\ ErrorsOf(nodes', position', edgeErrors, 1)
<1>1. /\ IsGraph(nodes, boundary) /\ Chained(NamesOf(nodes)) /\ PlainConfigs(NamesOf(nodes))
      /\ Seen(nodes, position, producerTypes) /\ position \in Nat \ {0}
      /\ NamesOf(boundary) \subseteq DOMAIN producerTypes
      /\ ErrorsOf(nodes, position, edgeErrors, 1)
  BY DEF TyperInv, GraphInv, FrontInv, WalkInv
<1>2. /\ nodes' = [nodes EXCEPT ![position].inputTypes = ins, ![position].outputType = out]
      /\ producerTypes' = Overlay(producerTypes, [n \in {nodes[position].id} |-> out])
      /\ position' = position + 1
  BY DEF Assign
<1>3. IsAssigned(nodes, position, out, nodes')
  BY <1>1, <1>2, AssignedAt
<1>4. Retypes(nodes, nodes')
  BY <1>3 DEF IsAssigned
<1>5. SameNodes(NamesOf(nodes), NamesOf(nodes'))
  BY <1>1, <1>4, RetypedNodes
<1>6. GraphInv'
  BY <1>1, <1>4, <1>5, RetypedGraph, RetypedChains DEF GraphInv
<1>7. FrontInv'
  BY <1>1, <1>5 DEF FrontInv, PlainConfigs, SameNodes, Same
<1>8. ReadsInv'
  BY <1>5, RetypedReads DEF TyperInv, Lowered
<1>9. Seen(nodes', position', producerTypes')
  <2> PICK m : m = [n \in {nodes[position].id} |-> out]
    OBVIOUS
  <2>1. Seen(nodes', position + 1, Overlay(producerTypes, m))
    BY <1>1, <1>3, SeenNext
  <2> QED
    BY <1>2, <2>1
<1>10. NamesOf(boundary') \subseteq DOMAIN producerTypes'
  BY <1>1, <1>2 DEF Overlay
<1>11. ErrorsOf(nodes', position', edgeErrors, 1)
  BY <1>1, <1>2, <1>3, ErrorsRetyped
<1>12. position' \in Nat \ {0}
  BY <1>1, <1>2
<1> QED
  BY <1>2, <1>3, <1>6, <1>7, <1>8, <1>9, <1>10, <1>11, <1>12

\* A typed node is kept; the walk goes on.
LEMMA KeepTypedPreserves ==
  ASSUME TyperInv, KeepTyped, UNCHANGED topology
  PROVE  TyperInv'
<1>1. /\ stage = "nodes" /\ position \in DOMAIN nodes /\ IsTyped(nodes[position])
      /\ Assign(nodes[position].inputTypes, nodes[position].outputType)
      /\ UNCHANGED <<boundary, topology, outputs, stage, edgeErrors>>
  BY DEF KeepTyped
<1>2. IsPort(nodes[position].outputType)
  BY <1>1 DEF TyperInv, GraphInv, IsGraph, IsNode
<1>3. /\ position' \in Nat \ {0} /\ GraphInv' /\ FrontInv' /\ ReadsInv'
      /\ Seen(nodes', position', producerTypes')
      /\ NamesOf(boundary') \subseteq DOMAIN producerTypes'
      /\ ErrorsOf(nodes', position', edgeErrors, 1)
  BY <1>1, <1>2, AssignPreserves
<1> QED
  BY <1>1, <1>3 DEF TyperInv, WalkInv

\* A node without a contract takes the type of its first input.
LEMMA PassThroughPreserves ==
  ASSUME TyperInv, PassThrough, UNCHANGED topology
  PROVE  TyperInv'
<1> DEFINE node == nodes[position]
           known == Kept(node.inputs, DOMAIN producerTypes)
           out == IF known = <<>> THEN AnyTensor ELSE producerTypes[known[1]]
<1>1. /\ stage = "nodes" /\ position \in DOMAIN nodes /\ ~IsTyped(node) /\ ~HasSpec(node.op)
      /\ Assign([slot \in DOMAIN node.inputs |-> ProducerType(node.inputs[slot])], out)
      /\ UNCHANGED <<boundary, topology, outputs, stage, edgeErrors>>
  BY DEF PassThrough
<1>2. IsNode(node) /\ Seen(nodes, position, producerTypes)
  BY <1>1 DEF TyperInv, GraphInv, IsGraph, WalkInv
<1>3. IsPort(out)
  <2>1. CASE known = <<>>
    BY <2>1, CommonPorts
  <2>2. CASE known # <<>>
    <3>1. known \in Seq(NamesOf(node.inputs))
          /\ \A j \in DOMAIN known : known[j] \in DOMAIN producerTypes
      BY <1>2, KeptInOrder DEF IsNode
    <3>2. 1 \in DOMAIN known
      BY <2>2, <3>1, LenProperties, EmptySeq
    <3> QED
      BY <1>2, <2>2, <3>1, <3>2 DEF Seen
  <2> QED
    BY <2>1, <2>2
<1>4. ~IsAdaptor(node.id)
  BY <1>1, <1>2, AdaptorSpecs DEF IsNode
<1> HIDE DEF out
<1>5. /\ position' \in Nat \ {0} /\ GraphInv' /\ FrontInv' /\ ReadsInv'
      /\ Seen(nodes', position', producerTypes')
      /\ NamesOf(boundary') \subseteq DOMAIN producerTypes'
      /\ ErrorsOf(nodes', position', edgeErrors, 1)
  BY <1>1, <1>3, <1>4, AssignPreserves
<1> QED
  BY <1>1, <1>5 DEF TyperInv, WalkInv

------------------------------------------------------------------------------
\* What the walk knows about the inputs of the node it stands at.
LEMMA ProducerTypes ==
  ASSUME TyperInv, stage = "nodes", position \in DOMAIN nodes,
         NEW s \in DOMAIN nodes[position].inputs
  PROVE  /\ IsPort(ProducerType(nodes[position].inputs[s]))
         /\ \A n \in NamesOf(nodes) : n.id = nodes[position].inputs[s] =>
              ProducerType(nodes[position].inputs[s]) = n.outputType
<1>1. IsGraph(nodes, boundary) /\ Seen(nodes, position, producerTypes)
  BY DEF TyperInv, GraphInv, WalkInv
<1>2. ASSUME NEW j \in DOMAIN nodes, nodes[j].id = nodes[position].inputs[s]
      PROVE  ProducerType(nodes[position].inputs[s]) = nodes[j].outputType
  <2>1. j < position
    BY <1>1, <1>2, ReadsComeFirst
  <2> QED
    BY <1>1, <1>2, <2>1 DEF Seen, ProducerType
<1>3. IsPort(ProducerType(nodes[position].inputs[s]))
  BY <1>1, CommonPorts DEF Seen, ProducerType
<1> QED
  BY <1>2, <1>3 DEF NamesOf

\* An edge that does not unify, as Infer reports it.
LEMMA NewError ==
  ASSUME TyperInv, stage = "nodes", position \in DOMAIN nodes,
         HasSpec(nodes[position].op), NEW s \in DOMAIN nodes[position].inputs
  PROVE  LET node == nodes[position]
             spec == LookupSpec(node.op)
         IN  ErrorOf(NamesOf(nodes), node, EdgeError(node, spec, UnifiedSlots(node, spec), s))
<1> DEFINE N == NamesOf(nodes)
<1> PICK c : c = nodes[position]
  OBVIOUS
<1> PICK spec : spec = LookupSpec(c.op)
  OBVIOUS
<1> PICK type : type = ProducerType(c.inputs[s])
  OBVIOUS
<1> PICK expected : expected = ExpectedType(spec, s, type)
  OBVIOUS
<1> PICK hint : hint = Unify(type, expected).hint
  OBVIOUS
<1> PICK e : e = [producer |-> c.inputs[s], consumer |-> c.id, slot |-> s,
                  producerType |-> type, expectedType |-> expected, hint |-> hint]
  OBVIOUS
<1>1. e = EdgeError(c, spec, UnifiedSlots(c, spec), s)
  BY DEF EdgeError, UnifiedSlots
<1>2. /\ e.producer = c.inputs[s] /\ e.consumer = c.id /\ e.slot = s
      /\ e.producerType = type /\ e.expectedType = expected /\ e.hint = hint
  OBVIOUS
<1>3. /\ IsPort(type)
      /\ \A n \in N : n.id = c.inputs[s] => type = n.outputType
  BY ProducerTypes
<1>4. /\ IsGraph(nodes, boundary) /\ Chained(N) /\ c \in N /\ s \in DOMAIN c.inputs
      /\ IsNode(c)
  BY DEF TyperInv, GraphInv, IsGraph, NamesOf
<1>5. IsSpec(spec)
  BY SpecsAreSpecs
<1>6. /\ hint \in {"", "cast", "transpose"}
      /\ hint = "cast" => ~DTypesAgree(type, expected)
      /\ hint = "transpose" => DTypesAgree(type, expected) /\ ~LayoutsAgree(type, expected)
  BY UnifyAnswers
<1>7. /\ s \notin DOMAIN spec.inputs =>
           DTypesAgree(type, expected) /\ LayoutsAgree(type, expected)
      /\ s \in DOMAIN spec.inputs => /\ expected.dtype = spec.inputs[s].dtype
                                     /\ expected.layout = spec.inputs[s].layout
  BY <1>5, ExpectedIs DEF IsSpec
<1>8. ASSUME hint # ""
      PROVE  Misses(N, c, e)
  <2>1. s \in DOMAIN spec.inputs
    BY <1>6, <1>7, <1>8
  <2>2. HasExpectation(c, s) /\ Expected(c, s) = spec.inputs[s]
    BY <2>1 DEF HasExpectation, Expected
  <2>3. expected.dtype = Expected(c, s).dtype /\ expected.layout = Expected(c, s).layout
    BY <1>7, <2>1, <2>2
  <2>4. ~IsAdaptor(c.id)
    <3>1. SUFFICES ASSUME IsAdaptor(c.id)
                   PROVE  FALSE
      OBVIOUS
    <3>2. c.op \in {"shape.cast", "shape.transpose"} /\ s = 1
      BY <1>4, <3>1 DEF IsNode
    <3>3. spec.inputs[s] = AnyTensor
      BY <3>2, AdaptorSpecs
    <3>4. expected.dtype = "Invalid" /\ expected.layout = "Unspecified"
      BY <1>7, <2>1, <3>3 DEF AnyTensor, Port
    <3> QED
      BY <1>6, <1>8, <3>4 DEF DTypesAgree, LayoutsAgree
  <2>5. /\ hint = "cast" => Expected(c, s).dtype # "Invalid"
        /\ hint = "transpose" => DTypesAgree(type, Expected(c, s))
    BY <1>6, <2>3 DEF DTypesAgree
  <2>6. AdaptorID(e) \notin IdsIn(N)
    <3>1. Chain(N, c, s)
      BY <1>4, <2>4 DEF Chained
    <3>2. \/ AdaptorID(e) = CastID(c, s) /\ hint = "cast"
          \/ AdaptorID(e) = TransposeID(c, s) /\ hint = "transpose"
      BY <1>2, <1>6, <1>8 DEF AdaptorID, CastID, TransposeID
    <3>3. CASE IsPlain(N, c, s)
      BY <3>2, <3>3 DEF IsPlain
    <3>4. ASSUME NEW a \in N, a.id = c.inputs[s], Mends(N, c, s, a)
          PROVE  AdaptorID(e) \notin IdsIn(N)
      <4>1. type = a.outputType
        BY <1>3, <3>4
      <4> QED
        BY <1>6, <2>3, <3>2, <3>4, <4>1 DEF Mends, DTypesAgree, LayoutsAgree
    <3> QED
      BY <3>1, <3>3, <3>4 DEF Chain, IsMended, IsMendedTwice
  <2> QED
    BY <1>2, <2>2, <2>3, <2>4, <2>5, <2>6 DEF Misses
<1>9. ErrorOf(N, c, e)
  BY <1>2, <1>3, <1>4, <1>6, <1>8 DEF ErrorOf
<1> QED
  BY <1>1, <1>9

\* A function on 1 .. k is a list of length k.
LEMMA FunctionAsList ==
  ASSUME NEW k \in Nat, NEW f, f = [i \in 1 .. k |-> f[i]]
  PROVE  f \in Seq(NamesOf(f)) /\ Len(f) = k
<1>1. f \in [1 .. k -> NamesOf(f)]
  BY DEF NamesOf
<1> QED
  BY <1>1, FunctionIsSequence

\* The errors of one node, as a list.
IsErrorList(node, spec, slots, errors) ==
  /\ errors \in Seq(NamesOf(errors))
  /\ \A i \in DOMAIN errors : \E s \in DOMAIN node.inputs :
       errors[i] = EdgeError(node, spec, slots, s) /\ ~slots[s].ok
  /\ EdgesDiffer(errors)
  /\ \A s \in DOMAIN slots : ~slots[s].ok =>
       \E i \in DOMAIN errors : errors[i] = EdgeError(node, spec, slots, s)
\* A slot that does not unify has its error in the list.
LEMMA ErrorOfSlot ==
  ASSUME NEW node, NEW spec, NEW slots, NEW errors, IsErrorList(node, spec, slots, errors),
         NEW s \in DOMAIN slots, ~slots[s].ok
  PROVE  EdgeError(node, spec, slots, s) \in NamesOf(errors)
<1>1. PICK i \in DOMAIN errors : errors[i] = EdgeError(node, spec, slots, s)
  BY DEF IsErrorList
<1> QED
  BY <1>1 DEF NamesOf

\* The errors of one node are one for each slot that does not unify.
LEMMA SlotErrorsAre ==
  ASSUME NEW node, NEW spec, NEW slots, NEW S, node.inputs \in Seq(S),
         DOMAIN slots = DOMAIN node.inputs
  PROVE  IsErrorList(node, spec, slots, SlotErrors(node, spec, slots))
<1>a. PICK all : all = [i \in DOMAIN slots |-> i]
  OBVIOUS
<1>b. PICK bad : bad = {i \in DOMAIN slots : ~slots[i].ok}
  OBVIOUS
<1>f. PICK failed : failed = Kept(all, bad)
  OBVIOUS
<1>e. PICK edge : edge = [k \in DOMAIN slots |-> EdgeError(node, spec, slots, k)]
  OBVIOUS
<1>r. PICK errors : errors = [i \in DOMAIN failed |-> EdgeError(node, spec, slots, failed[i])]
  OBVIOUS
<1>1. DOMAIN slots = 1 .. Len(node.inputs) /\ Len(node.inputs) \in Nat
  BY LenProperties
<1>2. all \in Seq(Nat) /\ DOMAIN all = DOMAIN slots /\ \A i \in DOMAIN slots : all[i] = i
  <2>1. DOMAIN all = DOMAIN slots /\ \A i \in DOMAIN slots : all[i] = i
    BY <1>a
  <2>2. all \in [1 .. Len(node.inputs) -> Nat]
    BY <1>1, <1>a
  <2> QED
    BY <1>1, <2>1, <2>2, FunctionIsSequence
<1>3. IsInjective(all) /\ ToSet(all) = DOMAIN slots
  BY <1>2 DEF IsInjective, ToSet
<1>c. \A k : k \in bad <=> k \in DOMAIN slots /\ ~slots[k].ok
  BY <1>b
<1>4. /\ failed \in Seq(Nat) /\ IsInjective(failed) /\ ToSet(failed) = bad
  <2>1. ToSet(all) \cap bad = bad
    BY <1>3, <1>c
  <2> QED
    BY <1>2, <1>3, <1>f, <2>1, KeptSelects
<1>5. /\ DOMAIN failed = 1 .. Len(failed) /\ Len(failed) \in Nat
      /\ \A i \in DOMAIN failed : failed[i] \in bad
      /\ \A i, j \in DOMAIN failed : i # j => failed[i] # failed[j]
      /\ \A s \in bad : \E i \in DOMAIN failed : failed[i] = s
  BY <1>4, LenProperties DEF IsInjective, ToSet
<1>8. \A k \in DOMAIN slots : edge[k].slot = k /\ edge[k] = EdgeError(node, spec, slots, k)
  BY <1>e DEF EdgeError
<1>7. DOMAIN errors = DOMAIN failed
      /\ \A i \in DOMAIN failed : errors[i] = EdgeError(node, spec, slots, failed[i])
  BY <1>r
<1>6. errors \in Seq(NamesOf(errors))
  <2>1. errors = [i \in DOMAIN errors |-> errors[i]]
    BY <1>r
  <2>2. DOMAIN errors = 1 .. Len(failed) /\ Len(failed) \in Nat
    BY <1>5, <1>7
  <2> QED
    BY <2>1, <2>2, FunctionAsList
<1>d. \A i \in DOMAIN errors : /\ i \in DOMAIN failed /\ failed[i] \in bad
                               /\ errors[i] = EdgeError(node, spec, slots, failed[i])
  BY <1>5, <1>7
<1>9. EdgesDiffer(errors)
  <2>1. \A i \in DOMAIN errors : errors[i].slot = failed[i] /\ i \in DOMAIN failed
    BY <1>8, <1>c, <1>d
  <2>2. \A i, j \in DOMAIN failed : i # j => failed[i] # failed[j]
    BY <1>5
  <2>3. \A j, k \in DOMAIN errors : j # k => errors[j].slot # errors[k].slot
    BY <2>1, <2>2
  <2> QED
    BY <2>3 DEF EdgesDiffer
<1>10. errors = SlotErrors(node, spec, slots)
  BY <1>a, <1>b, <1>f, <1>r DEF SlotErrors
<1>11. \A i \in DOMAIN errors : \E s \in DOMAIN node.inputs :
         errors[i] = EdgeError(node, spec, slots, s) /\ ~slots[s].ok
  BY <1>c, <1>d
<1>12. \A s \in DOMAIN slots : ~slots[s].ok =>
              \E i \in DOMAIN errors : errors[i] = EdgeError(node, spec, slots, s)
  <2> SUFFICES ASSUME NEW k \in DOMAIN slots, ~slots[k].ok
               PROVE  \E i \in DOMAIN errors : errors[i] = EdgeError(node, spec, slots, k)
    OBVIOUS
  <2>1. PICK i \in DOMAIN failed : failed[i] = k
    BY <1>5, <1>c
  <2> QED
    BY <1>7, <2>1
<1>13. IsErrorList(node, spec, slots, errors)
  BY <1>6, <1>9, <1>11, <1>12 DEF IsErrorList
<1> QED
  BY <1>10, <1>13

------------------------------------------------------------------------------
\* The types the inputs of a node are bound to.
LEMMA BoundPorts ==
  ASSUME TyperInv, stage = "nodes", position \in DOMAIN nodes
  PROVE  LET node == nodes[position]
             slots == UnifiedSlots(node, LookupSpec(node.op))
             bound == BoundInputs(node, slots)
         IN  /\ DOMAIN slots = DOMAIN node.inputs
             /\ DOMAIN bound = DOMAIN node.inputs
             /\ \A s \in DOMAIN node.inputs : IsPort(bound[s])
             /\ bound # <<>> => 1 \in DOMAIN node.inputs
<1> PICK node : node = nodes[position]
  OBVIOUS
<1> PICK slots : slots = UnifiedSlots(node, LookupSpec(node.op))
  OBVIOUS
<1> PICK bound : bound = BoundInputs(node, slots)
  OBVIOUS
<1>1. /\ DOMAIN slots = DOMAIN node.inputs
      /\ DOMAIN bound = DOMAIN slots
      /\ \A s \in DOMAIN slots :
           bound[s] = IF slots[s].ok THEN slots[s].type ELSE ProducerType(node.inputs[s])
  BY DEF UnifiedSlots, BoundInputs
<1>2. \A s \in DOMAIN slots : slots[s].ok => IsPort(slots[s].type)
  BY UnifyAnswers DEF UnifiedSlots
<1>3. \A s \in DOMAIN slots : IsPort(ProducerType(node.inputs[s]))
  BY <1>1, ProducerTypes
<1>4. node.inputs \in Seq(NamesOf(node.inputs))
  BY DEF TyperInv, GraphInv, IsGraph, IsNode
<1>5. bound # <<>> => 1 \in DOMAIN node.inputs
  <2>1. DOMAIN node.inputs = 1 .. Len(node.inputs) /\ Len(node.inputs) \in Nat
    BY <1>4, LenProperties
  <2>2. bound = [i \in 1 .. Len(node.inputs) |-> bound[i]]
    BY <2>1 DEF UnifiedSlots, BoundInputs
  <2>3. bound \in Seq(NamesOf(bound)) /\ Len(bound) = Len(node.inputs)
    BY <2>1, <2>2, FunctionAsList
  <2> QED
    BY <2>1, <2>3, EmptySeq
<1>6. \A s \in DOMAIN node.inputs : IsPort(bound[s])
  BY <1>1, <1>2, <1>3
<1> QED
  BY <1>1, <1>5, <1>6

\* The type a contract derives fits the node.
LEMMA DerivedFits ==
  ASSUME TyperInv, stage = "nodes", position \in DOMAIN nodes, ~IsTyped(nodes[position]),
         HasSpec(nodes[position].op), NEW b,
         NEW bound, bound = BoundInputs(nodes[position],
                       UnifiedSlots(nodes[position], LookupSpec(nodes[position].op))),
         DeriveOutput(nodes[position], LookupSpec(nodes[position].op), bound, b).ok
  PROVE  LET type == DeriveOutput(nodes[position], LookupSpec(nodes[position].op), bound, b).type
         IN  /\ IsPort(type)
             /\ IsAdaptor(nodes[position].id) => type.layout = nodes[position].outputType.layout
<1> PICK node : node = nodes[position]
  OBVIOUS
<1> PICK spec : spec = LookupSpec(node.op)
  OBVIOUS
<1> PICK type : type = DeriveOutput(node, spec, bound, b).type
  OBVIOUS
<1>1. bound # <<>> => IsPort(bound[1])
  BY BoundPorts
<1>2. IsSpec(spec)
  BY SpecsAreSpecs
<1>3. /\ IsPort(type)
      /\ spec.deriver = "transpose" /\ "layout" \in DOMAIN node.config
           => type.layout = node.config["layout"]
  <2>1. IsDerivedType(node, spec, bound, type)
    BY <1>1, <1>2, DeriveOutputIs
  <2> QED
    BY <2>1 DEF IsDerivedType
<1>4. IsNode(node) /\ ~IsTyped(node)
  BY DEF TyperInv, GraphInv, IsGraph
<1>5. IsAdaptor(node.id) => type.layout = node.outputType.layout
  <2> SUFFICES ASSUME IsAdaptor(node.id)
               PROVE  type.layout = node.outputType.layout
    OBVIOUS
  <2>1. /\ node.op = "shape.transpose" /\ "layout" \in DOMAIN node.config
        /\ node.config["layout"] = node.outputType.layout
    BY <1>4 DEF IsNode
  <2>2. spec.deriver = "transpose"
    BY <2>1, AdaptorSpecs
  <2> QED
    BY <1>3, <2>1, <2>2
<1> QED
  BY <1>3, <1>5

\* The errors of the node just typed come after those of the nodes before it.
IsWalked(list, p, errors) ==
  /\ errors \in Seq(NamesOf(errors)) /\ EdgesDiffer(errors)
  /\ ErrorsOf(list, p, errors, 1)
\* The errors of a node continue those of the nodes before it.
LEMMA ErrorsJoined ==
  ASSUME NEW old, NEW new, NEW inputs, IsGraph(old, inputs), NEW p \in DOMAIN old,
         NEW out, IsAssigned(old, p, out, new),
         NEW errors, errors \in Seq(NamesOf(errors)), ErrorsOf(old, p, errors, 1),
         EdgesDiffer(errors),
         NEW more, more \in Seq(NamesOf(more)), EdgesDiffer(more),
         \A i \in DOMAIN more : ErrorOf(NamesOf(old), old[p], more[i])
  PROVE  IsWalked(new, p + 1, errors \o more)
<1> PICK S : S = NamesOf(errors) \cup NamesOf(more)
  OBVIOUS
<1> PICK all : all = errors \o more
  OBVIOUS
<1>1. errors \in Seq(S) /\ more \in Seq(S)
  BY LenProperties, SeqDef
<1>2. /\ all \in Seq(S)
      /\ DOMAIN errors = 1 .. Len(errors) /\ Len(errors) \in Nat
      /\ DOMAIN all = 1 .. Len(errors) + Len(more) /\ Len(more) \in Nat
      /\ \A i \in 1 .. Len(errors) : all[i] = errors[i]
      /\ \A i \in DOMAIN all : i > Len(errors) => /\ i - Len(errors) \in DOMAIN more
                                                  /\ all[i] = more[i - Len(errors)]
  BY <1>1, JoinedPositions
<1>3. \A i \in DOMAIN all : \/ i \in DOMAIN errors /\ all[i] = errors[i]
                            \/ /\ i > Len(errors) /\ i - Len(errors) \in DOMAIN more
                               /\ all[i] = more[i - Len(errors)]
  BY <1>2
<1>4. all \in Seq(NamesOf(all))
  <2>1. all = [i \in 1 .. Len(errors) + Len(more) |-> all[i]]
    <3>1. all \in [1 .. Len(all) -> S] /\ DOMAIN all = 1 .. Len(all)
      BY <1>2, SeqDef, LenProperties
    <3> QED
      BY <1>2, <3>1
  <2> PICK k \in Nat : k = Len(errors) + Len(more)
    BY <1>2
  <2>2. all = [i \in 1 .. k |-> all[i]]
    BY <2>1
  <2> QED
    BY <2>2, FunctionAsList
<1>5. \A i \in DOMAIN errors : i >= 1 /\ \E k \in DOMAIN old :
         k < p /\ ErrorOf(NamesOf(old), old[k], errors[i])
  BY <1>2 DEF ErrorsOf
<1>6. DOMAIN old = 1 .. Len(old) /\ Len(old) \in Nat /\ DOMAIN new = DOMAIN old
  BY LenProperties DEF IsGraph, IsAssigned
<1>7. ErrorsOf(new, p + 1, all, 1)
  <2> SUFFICES ASSUME NEW i \in DOMAIN all
               PROVE  \E k \in DOMAIN new : k < p + 1 /\ ErrorOf(NamesOf(new), new[k], all[i])
    BY DEF ErrorsOf
  <2>1. CASE i \in DOMAIN errors /\ all[i] = errors[i]
    <3>1. PICK k \in DOMAIN old : k < p /\ ErrorOf(NamesOf(old), old[k], errors[i])
      BY <1>5, <2>1
    <3>2. k <= p
      BY <1>6, <3>1
    <3>3. ErrorOf(NamesOf(new), new[k], errors[i])
      BY <3>1, <3>2, ErrorRetyped
    <3>4. k \in DOMAIN new /\ k < p + 1
      BY <1>6, <3>1
    <3>5. ErrorOf(NamesOf(new), new[k], all[i])
      BY <2>1, <3>3
    <3> QED
      BY <3>4, <3>5
  <2>2. CASE i - Len(errors) \in DOMAIN more /\ all[i] = more[i - Len(errors)]
    <3>1. ErrorOf(NamesOf(old), old[p], all[i])
      BY <2>2
    <3>2. p <= p
      BY <1>6
    <3>3. ErrorOf(NamesOf(new), new[p], all[i])
      BY <3>1, <3>2, ErrorRetyped
    <3>4. p \in DOMAIN new /\ p < p + 1
      BY <1>6
    <3> QED
      BY <3>3, <3>4
  <2> QED
    BY <1>3, <2>1, <2>2
<1>8. EdgesDiffer(all)
  <2>1. \A i \in DOMAIN errors : errors[i].consumer # old[p].id
    <3> SUFFICES ASSUME NEW i \in DOMAIN errors
                 PROVE  errors[i].consumer # old[p].id
      OBVIOUS
    <3>1. PICK k \in DOMAIN old : k < p /\ ErrorOf(NamesOf(old), old[k], errors[i])
      BY <1>5
    <3>2. old[k].id = errors[i].consumer
      BY <3>1 DEF ErrorOf
    <3>3. k # p
      BY <1>6, <3>1
    <3> QED
      BY <3>2, <3>3 DEF IsGraph
  <2>2. \A i \in DOMAIN more : more[i].consumer = old[p].id
    BY DEF ErrorOf
  <2> SUFFICES ASSUME NEW j \in DOMAIN all, NEW k \in DOMAIN all, j # k,
                      all[j].consumer = all[k].consumer
               PROVE  all[j].slot # all[k].slot
    BY DEF EdgesDiffer
  <2>3. CASE j \in DOMAIN errors /\ all[j] = errors[j]
    <3>1. k \in DOMAIN errors /\ all[k] = errors[k]
      BY <1>3, <2>1, <2>2, <2>3
    <3> QED
      BY <2>3, <3>1 DEF EdgesDiffer
  <2>4. CASE j > Len(errors) /\ j - Len(errors) \in DOMAIN more /\ all[j] = more[j - Len(errors)]
    <3>1. k > Len(errors) /\ k - Len(errors) \in DOMAIN more /\ all[k] = more[k - Len(errors)]
      BY <1>3, <2>1, <2>2, <2>4
    <3>2. j - Len(errors) # k - Len(errors)
      BY <1>2
    <3> QED
      BY <2>4, <3>1, <3>2 DEF EdgesDiffer
  <2> QED
    BY <1>3, <2>3, <2>4
<1> QED
  BY <1>4, <1>7, <1>8 DEF IsWalked

\* Typing a node by its contract preserves the invariant: its errors are about
\* its own edges and come after those of the nodes before it.
LEMMA TypeNodePreserves ==
  ASSUME TyperInv, TypeNode, UNCHANGED topology
  PROVE  TyperInv'
<1> PICK node : node = nodes[position]
  OBVIOUS
<1> PICK spec : spec = LookupSpec(node.op)
  OBVIOUS
<1> PICK slots : slots = UnifiedSlots(node, spec)
  OBVIOUS
<1> PICK bound : bound = BoundInputs(node, slots)
  OBVIOUS
<1> PICK b : b = MergedBindings(slots)
  OBVIOUS
<1> PICK out : out = DeriveOutput(node, spec, bound, b).type
  OBVIOUS
<1> PICK more : more = SlotErrors(node, spec, slots)
  OBVIOUS
<1>1. /\ stage = "nodes" /\ position \in DOMAIN nodes /\ ~IsTyped(node) /\ HasSpec(node.op)
      /\ DeriveOutput(node, spec, bound, b).ok
      /\ Assign(bound, out)
      /\ edgeErrors' = edgeErrors \o more
      /\ UNCHANGED <<boundary, topology, outputs, stage>>
  BY DEF TypeNode
<1>2. IsPort(out) /\ (IsAdaptor(node.id) => out.layout = node.outputType.layout)
  BY <1>1, DerivedFits
<1>3. /\ IsAssigned(nodes, position, out, nodes')
      /\ position' = position + 1
      /\ position' \in Nat \ {0} /\ GraphInv' /\ FrontInv' /\ ReadsInv'
      /\ Seen(nodes', position', producerTypes')
      /\ NamesOf(boundary') \subseteq DOMAIN producerTypes'
  BY <1>1, <1>2, AssignPreserves
<1>4. /\ IsGraph(nodes, boundary) /\ IsNode(node)
      /\ edgeErrors \in Seq(NamesOf(edgeErrors)) /\ EdgesDiffer(edgeErrors)
      /\ ErrorsOf(nodes, position, edgeErrors, 1)
  BY <1>1 DEF TyperInv, GraphInv, WalkInv, IsGraph
<1>5. /\ more \in Seq(NamesOf(more)) /\ EdgesDiffer(more)
      /\ \A i \in DOMAIN more : \E s \in DOMAIN node.inputs :
           more[i] = EdgeError(node, spec, slots, s)
  <2>1. DOMAIN slots = DOMAIN node.inputs
    BY <1>1, BoundPorts
  <2>2. node.inputs \in Seq(NamesOf(node.inputs))
    BY <1>4 DEF IsNode
  <2>3. IsErrorList(node, spec, slots, more)
    BY <2>1, <2>2, SlotErrorsAre
  <2> QED
    BY <2>3 DEF IsErrorList
<1>6. \A i \in DOMAIN more : ErrorOf(NamesOf(nodes), nodes[position], more[i])
  <2>1. \A s \in DOMAIN node.inputs : ErrorOf(NamesOf(nodes), node, EdgeError(node, spec, slots, s))
    BY <1>1, NewError
  <2> QED
    BY <1>5, <2>1
<1>7. /\ edgeErrors' \in Seq(NamesOf(edgeErrors')) /\ EdgesDiffer(edgeErrors')
      /\ ErrorsOf(nodes', position', edgeErrors', 1)
  <2>1. IsWalked(nodes', position + 1, edgeErrors \o more)
    BY <1>1, <1>3, <1>4, <1>5, <1>6, ErrorsJoined
  <2> QED
    BY <1>1, <1>3, <2>1 DEF IsWalked
<1> QED
  BY <1>1, <1>3, <1>7 DEF TyperInv, WalkInv

------------------------------------------------------------------------------
\* A node that is refused ends the run.
LEMMA RefuseNodePreserves ==
  ASSUME TyperInv, RefuseNode, UNCHANGED topology
  PROVE  TyperInv'
<1>1. /\ stage = "nodes" /\ stage' = "refused" /\ position \in DOMAIN nodes
      /\ UNCHANGED <<boundary, topology, outputs>>
  BY DEF RefuseNode
<1>2. PICK bound : nodes' = [nodes EXCEPT ![position].inputTypes = bound]
  BY DEF RefuseNode
<1> PICK n : n = nodes[position]
  OBVIOUS
<1> PICK m : m = [n EXCEPT !.inputTypes = bound]
  OBVIOUS
<1>3. nodes' = [nodes EXCEPT ![position] = m]
  BY <1>2
<1>4. IsNode(n) /\ IsGraph(nodes, boundary) /\ Chained(NamesOf(nodes)) /\ PlainConfigs(NamesOf(nodes))
  BY <1>1 DEF TyperInv, GraphInv, FrontInv, IsGraph
<1>5. m = [id |-> n.id, op |-> n.op, inputs |-> n.inputs, config |-> n.config,
           weights |-> n.weights, valueType |-> n.valueType,
           inputTypes |-> bound, outputType |-> n.outputType]
  BY <1>4 DEF IsNode
<1>6. IsNode(m) /\ Same(n, m)
  BY <1>4, <1>5 DEF IsNode, Same, IsTyped
<1>7. Retypes(nodes, nodes')
  BY <1>1, <1>3, <1>4, <1>6, ReplacedAt
<1>8. SameNodes(NamesOf(nodes), NamesOf(nodes'))
  BY <1>4, <1>7, RetypedNodes
<1>9. GraphInv'
  BY <1>1, <1>4, <1>7, <1>8, RetypedGraph, RetypedChains DEF GraphInv
<1>10. FrontInv'
  BY <1>1, <1>4, <1>8 DEF FrontInv, PlainConfigs, SameNodes, Same
<1>11. ReadsInv'
  BY <1>1, <1>8, RetypedReads DEF TyperInv, Lowered
<1> QED
  BY <1>1, <1>9, <1>10, <1>11 DEF TyperInv, WalkInv

\* At the end of the list the errors are handed to the synthesis.
LEMMA FinishInferPreserves ==
  ASSUME TyperInv, FinishInfer, UNCHANGED topology
  PROVE  TyperInv'
<1>1. /\ stage = "nodes" /\ stage' \in {"typed", "synthesis"} /\ position > Len(nodes)
      /\ position' = 1 /\ edgeErrors' = edgeErrors
      /\ UNCHANGED <<nodes, boundary, topology, outputs>>
  BY DEF FinishInfer, inferVars
<1>2. GraphInv' /\ FrontInv' /\ ReadsInv'
  BY <1>1, UnchangedGraph DEF Lowered
<1>3. /\ edgeErrors \in Seq(NamesOf(edgeErrors)) /\ EdgesDiffer(edgeErrors)
      /\ ErrorsOf(nodes, position, edgeErrors, 1)
      /\ DOMAIN nodes = 1 .. Len(nodes) /\ Len(nodes) \in Nat
  BY <1>1, LenProperties DEF TyperInv, GraphInv, WalkInv, IsGraph
<1>4. ErrorsOf(nodes, Len(nodes) + 1, edgeErrors, 1)
  <2>1. \A i \in DOMAIN nodes : i < Len(nodes) + 1
    BY <1>3
  <2> QED
    BY <1>3, <2>1 DEF ErrorsOf
<1> QED
  BY <1>1, <1>2, <1>3, <1>4 DEF TyperInv, WalkInv

\* An error that is left unresolved leaves the others.
LEMMA LeaveUnresolvedPreserves ==
  ASSUME TyperInv, LeaveUnresolved, UNCHANGED topology
  PROVE  TyperInv'
<1>1. /\ stage = "synthesis" /\ stage' = stage /\ position' = position + 1
      /\ edgeErrors' = edgeErrors
      /\ UNCHANGED <<nodes, boundary, topology, outputs>>
  BY DEF LeaveUnresolved, inferVars, graphVars
<1>2. GraphInv' /\ FrontInv' /\ ReadsInv'
  BY <1>1, UnchangedGraph DEF Lowered
<1>3. /\ edgeErrors \in Seq(NamesOf(edgeErrors)) /\ EdgesDiffer(edgeErrors)
      /\ ErrorsOf(nodes, Len(nodes) + 1, edgeErrors, position)
      /\ position \in Nat \ {0}
  BY <1>1 DEF TyperInv, WalkInv
<1>4. ErrorsOf(nodes, Len(nodes) + 1, edgeErrors, position + 1)
  <2>1. \A j \in DOMAIN edgeErrors : j >= position + 1 => j >= position
    BY <1>3, LenProperties
  <2> QED
    BY <1>3, <2>1 DEF ErrorsOf
<1> QED
  BY <1>1, <1>2, <1>3, <1>4 DEF TyperInv, WalkInv

------------------------------------------------------------------------------
\* The adaptor built for an edge that failed.
IsAdaptorFor(e, a) ==
  /\ IsNode(a) /\ a.id = AdaptorID(e) /\ a.inputs = <<e.producer>>
  /\ e.hint = "cast" => /\ a.outputType.dtype = e.expectedType.dtype
                        /\ a.outputType.layout = e.producerType.layout
  /\ e.hint = "transpose" => /\ a.outputType.layout = e.expectedType.layout
                             /\ a.outputType.dtype = e.producerType.dtype
\* The node buildAdaptorNode makes for an error.
LEMMA AdaptorNodeIs ==
  ASSUME NEW e, IsPort(e.producerType), e.hint \in {"cast", "transpose"},
         e.hint = "cast" => e.expectedType.dtype # "Invalid"
  PROVE  IsAdaptorFor(e, AdaptorNode(e))
<1> PICK a : a = AdaptorNode(e)
  OBVIOUS
<1> PICK type : type = e.producerType
  OBVIOUS
<1>1. IsAdaptor(AdaptorID(e))
  BY DEF AdaptorID, IsAdaptor
<1>2. <<e.producer>> \in Seq(NamesOf(<<e.producer>>)) /\ DOMAIN <<e.producer>> = {1}
  <2>1. <<e.producer>> \in Seq({e.producer}) /\ DOMAIN <<e.producer>> = {1}
    OBVIOUS
  <2>2. NamesOf(<<e.producer>>) = {e.producer}
    BY <2>1 DEF NamesOf
  <2> QED
    BY <2>1, <2>2
<1>3. CASE e.hint = "cast"
  <2> PICK to : to = [type EXCEPT !["dtype"] = e.expectedType["dtype"]]
    OBVIOUS
  <2> PICK plain : plain = GraphNode(AdaptorID(e), "shape.cast", <<e.producer>>,
                                     [k \in {"dtype"} |-> e.expectedType[k]], NoWeights)
    OBVIOUS
  <2>1. a = [plain EXCEPT !.inputTypes = <<type>>, !.outputType = to]
    BY <1>3 DEF AdaptorNode
  <2>2. /\ to = [dtype |-> e.expectedType.dtype, shape |-> type.shape,
                 layout |-> type.layout, kind |-> type.kind,
                 constraints |-> type.constraints]
    BY DEF IsPort
  <2>3. PICK r : r = [plain EXCEPT !.inputTypes = <<type>>]
    OBVIOUS
  <2>4. a = [r EXCEPT !.outputType = to]
    BY <2>1, <2>3, Zenon
  <2>5. r = [id |-> AdaptorID(e), op |-> "shape.cast", inputs |-> <<e.producer>>,
             config |-> [k \in {"dtype"} |-> e.expectedType[k]],
             weights |-> NoWeights, valueType |-> "Invalid",
             inputTypes |-> <<type>>, outputType |-> Untyped]
    BY <2>3 DEF GraphNode
  <2>6. a = [id |-> AdaptorID(e), op |-> "shape.cast", inputs |-> <<e.producer>>,
             config |-> [k \in {"dtype"} |-> e.expectedType[k]],
             weights |-> NoWeights, valueType |-> "Invalid",
             inputTypes |-> <<type>>, outputType |-> to]
    BY <2>4, <2>5
  <2>7. IsPort(to) /\ to.dtype = e.expectedType.dtype /\ to.layout = type.layout
    BY <2>2 DEF IsPort
  <2> QED
    BY <1>1, <1>2, <1>3, <2>6, <2>7 DEF IsAdaptorFor, IsNode, IsTyped
<1>4. CASE e.hint = "transpose"
  <2> PICK to : to = [type EXCEPT !["layout"] = e.expectedType["layout"]]
    OBVIOUS
  <2> PICK config : config = [k \in {"layout"} |-> e.expectedType[k]]
    OBVIOUS
  <2> PICK plain : plain = GraphNode(AdaptorID(e), "shape.transpose", <<e.producer>>,
                                     config, NoWeights)
    OBVIOUS
  <2>1. a = [plain EXCEPT !.inputTypes = <<type>>, !.outputType = to]
    BY <1>4 DEF AdaptorNode
  <2>2. /\ to = [dtype |-> type.dtype, shape |-> type.shape,
                 layout |-> e.expectedType.layout, kind |-> type.kind,
                 constraints |-> type.constraints]
    BY DEF IsPort
  <2>3. PICK r : r = [plain EXCEPT !.inputTypes = <<type>>]
    OBVIOUS
  <2>4. a = [r EXCEPT !.outputType = to]
    BY <2>1, <2>3, Zenon
  <2>5. r = [id |-> AdaptorID(e), op |-> "shape.transpose", inputs |-> <<e.producer>>,
             config |-> config, weights |-> NoWeights, valueType |-> "Invalid",
             inputTypes |-> <<type>>, outputType |-> Untyped]
    BY <2>3 DEF GraphNode
  <2>6. a = [id |-> AdaptorID(e), op |-> "shape.transpose", inputs |-> <<e.producer>>,
             config |-> config, weights |-> NoWeights, valueType |-> "Invalid",
             inputTypes |-> <<type>>, outputType |-> to]
    BY <2>4, <2>5
  <2>7. /\ IsPort(to) /\ to.dtype = type.dtype /\ to.layout = e.expectedType.layout
        /\ DOMAIN config = {"layout"} /\ config["layout"] = to.layout
    BY <2>2 DEF IsPort
  <2> QED
    BY <1>1, <1>2, <1>4, <2>6, <2>7 DEF IsAdaptorFor, IsNode, IsTyped
<1> QED
  BY <1>3, <1>4

\* The errors of the other edges stay what they are.
LEMMA ErrorAdapted ==
  ASSUME NEW N, IsNodes(N), NEW c \in N, ~IsAdaptor(c.id), NEW s \in DOMAIN c.inputs,
         NEW a, Adapts(N, c, s, a),
         NEW d \in N, NEW f, ErrorOf(N, d, f), d.id # c.id \/ f.slot # s,
         f.producer # a.id
  PROVE  \E n \in Adapted(N, c, s, a) : ErrorOf(Adapted(N, c, s, a), n, f)
<1> PICK r : r = Rewired(c, s, a)
  OBVIOUS
<1> PICK M : M = Adapted(N, c, s, a)
  OBVIOUS
<1>1. /\ r.id = c.id /\ r.op = c.op /\ r.outputType = c.outputType
      /\ DOMAIN r.inputs = DOMAIN c.inputs
      /\ \A k \in DOMAIN c.inputs : k # s => r.inputs[k] = c.inputs[k]
  BY RewiredIs DEF IsNodes
<1>2. M = (N \ {c}) \cup {r, a}
  BY DEF Adapted
<1>3. IdsIn(M) = IdsIn(N) \cup {a.id}
  BY AdaptedIds
<1> PICK n : n = IF d = c THEN r ELSE d
  OBVIOUS
<1>4. /\ n \in M /\ n.id = d.id /\ n.op = d.op /\ DOMAIN n.inputs = DOMAIN d.inputs
      /\ n.inputs[f.slot] = d.inputs[f.slot]
  <2>1. CASE d = c
    BY <1>1, <1>2, <2>1 DEF ErrorOf
  <2>2. CASE d # c
    BY <1>2, <2>2
  <2> QED
    BY <2>1, <2>2
<1>5. \A m \in M : m.id = f.producer => f.producerType = m.outputType
  <2> SUFFICES ASSUME NEW m \in M, m.id = f.producer
               PROVE  f.producerType = m.outputType
    OBVIOUS
  <2>1. CASE m = r
    BY <1>1, <2>1 DEF ErrorOf
  <2>2. CASE m \in N
    BY <2>2 DEF ErrorOf
  <2> QED
    BY <1>2, <2>1, <2>2
<1>6. ASSUME f.hint # ""
      PROVE  Misses(M, n, f)
  <2>1. Misses(N, d, f) /\ f.hint \in {"cast", "transpose"} /\ d.id = f.consumer
    BY <1>6 DEF ErrorOf
  <2>2. AdaptorID(f) \in {CastID(d, f.slot), TransposeID(d, f.slot)}
    BY <2>1 DEF AdaptorID, CastID, TransposeID
  <2>3. AdaptorID(f) # a.id
    BY <2>2, AdaptorIDsDiffer DEF Adapts
  <2>4. AdaptorID(f) \notin IdsIn(M)
    BY <1>3, <2>1, <2>3 DEF Misses
  <2>5. HasExpectation(n, f.slot) = HasExpectation(d, f.slot) /\ Expected(n, f.slot) = Expected(d, f.slot)
    BY <1>4 DEF HasExpectation, Expected
  <2> QED
    BY <1>4, <2>1, <2>4, <2>5 DEF Misses
<1>7. ErrorOf(M, n, f)
  BY <1>4, <1>5, <1>6 DEF ErrorOf
<1> QED
  BY <1>4, <1>7

\* An adaptor on any edge leaves what the edges of a node start at.
LEMMA AdaptedServes ==
  ASSUME NEW N, IsNodes(N), Chained(N), NEW c \in N, ~IsAdaptor(c.id),
         NEW s \in DOMAIN c.inputs, NEW a, Adapts(N, c, s, a),
         NEW id, NEW reads, Serves(N, id, reads)
  PROVE  Serves(Adapted(N, c, s, a), id, reads)
<1> PICK r : r = Rewired(c, s, a)
  OBVIOUS
<1> PICK M : M = Adapted(N, c, s, a)
  OBVIOUS
<1>1. r.id = c.id /\ DOMAIN r.inputs = DOMAIN c.inputs
  BY RewiredIs DEF IsNodes
<1>2. M = (N \ {c}) \cup {r, a}
  BY DEF Adapted
<1>3. PICK e \in N : /\ e.id = id /\ ~IsAdaptor(e.id) /\ DOMAIN e.inputs = DOMAIN reads
                     /\ \A k \in DOMAIN reads : SourceIs(N, e, k, reads[k])
  BY DEF Serves
<1> PICK n : n = IF e = c THEN r ELSE e
  OBVIOUS
<1>4. n \in M /\ n.id = e.id /\ DOMAIN n.inputs = DOMAIN e.inputs
  BY <1>1, <1>2
<1>5. \A k \in DOMAIN reads : SourceIs(M, n, k, reads[k])
  BY <1>3, InsertedSource
<1> QED
  BY <1>3, <1>4, <1>5 DEF Serves

\* An adaptor goes on the edge of the error at the position of the walk.
IsMending(c, i, s, a) ==
  /\ i \in DOMAIN nodes /\ c = nodes[i] /\ ~IsAdaptor(c.id) /\ s \in DOMAIN c.inputs
  /\ c.id = edgeErrors[position].consumer /\ s = edgeErrors[position].slot
  /\ IsAdaptorFor(edgeErrors[position], a)
  /\ Adapts(NamesOf(nodes), c, s, a)
  /\ Inserts(nodes, nodes', i, s, a)
  /\ NamesOf(nodes') = Adapted(NamesOf(nodes), c, s, a)
\* InsertAdaptor finds the consumer of the error at its position and puts an
\* adaptor with a new ID on the edge the error is about.
LEMMA InsertAdaptorMends ==
  ASSUME TyperInv, InsertAdaptor
  PROVE  \E c, i, s, a : IsMending(c, i, s, a)
<1> PICK N : N = NamesOf(nodes)
  OBVIOUS
<1> PICK e : e = edgeErrors[position]
  OBVIOUS
<1> PICK s : s = e.slot
  OBVIOUS
<1> PICK a : a = AdaptorNode(e)
  OBVIOUS
<1>1. /\ stage = "synthesis" /\ position \in DOMAIN edgeErrors /\ e.hint # ""
      /\ nodes' = InsertAt([nodes EXCEPT ![ConsumerIndex(e)].inputs[e.slot] = AdaptorID(e)],
                           ConsumerIndex(e), a)
  BY DEF InsertAdaptor
<1>2. /\ IsGraph(nodes, boundary) /\ ErrorsOf(nodes, Len(nodes) + 1, edgeErrors, position)
      /\ position \in Nat
  BY <1>1 DEF TyperInv, GraphInv, WalkInv
<1>3. PICK i \in DOMAIN nodes : ErrorOf(N, nodes[i], e)
  <2>1. position >= position
    BY <1>2
  <2> QED
    BY <1>1, <1>2, <2>1 DEF ErrorsOf
<1> PICK c : c = nodes[i]
  OBVIOUS
<1>4. ConsumerIndex(e) = i
  BY <1>2, <1>3 DEF ConsumerIndex, IsGraph, ErrorOf
<1>5. /\ c.id = e.consumer /\ s \in DOMAIN c.inputs /\ e.producer = c.inputs[s]
      /\ IsPort(e.producerType)
      /\ \A n \in N : n.id = e.producer => e.producerType = n.outputType
      /\ e.hint \in {"cast", "transpose"}
      /\ Misses(N, c, e)
  BY <1>1, <1>3 DEF ErrorOf
<1>6. /\ ~IsAdaptor(c.id) /\ HasExpectation(c, s)
      /\ e.expectedType.dtype = Expected(c, s).dtype
      /\ e.expectedType.layout = Expected(c, s).layout
      /\ AdaptorID(e) \notin IdsIn(N)
      /\ e.hint = "cast" => Expected(c, s).dtype # "Invalid"
  BY <1>5 DEF Misses
<1>7. IsAdaptorFor(e, a)
  BY <1>5, <1>6, AdaptorNodeIs
<1>8. AdaptorID(e) = IF e.hint = "cast" THEN CastID(c, s) ELSE TransposeID(c, s)
  BY <1>5 DEF AdaptorID, CastID, TransposeID
<1>9. Adapts(N, c, s, a)
  <2>1. /\ IsNode(a) /\ a.id = AdaptorID(e) /\ a.inputs = <<c.inputs[s]>>
        /\ e.hint = "cast" => /\ a.outputType.dtype = Expected(c, s).dtype
                              /\ a.outputType.layout = e.producerType.layout
        /\ e.hint = "transpose" => /\ a.outputType.layout = Expected(c, s).layout
                                   /\ a.outputType.dtype = e.producerType.dtype
    BY <1>5, <1>6, <1>7 DEF IsAdaptorFor
  <2>2. a.id = CastID(c, s) => e.hint = "cast"
    BY <1>8, <2>1, AdaptorIDs
  <2>3. a.id = TransposeID(c, s) => e.hint = "transpose"
    BY <1>5, <1>8, <2>1, AdaptorIDs
  <2> QED
    BY <1>5, <1>6, <1>8, <2>1, <2>2, <2>3 DEF Adapts
<1>10. Inserts(nodes, nodes', i, s, a)
  <2>1. i \in 1 .. Len(nodes) /\ s \in DOMAIN nodes[i].inputs /\ a.id = AdaptorID(e)
    BY <1>2, <1>5, <1>7, LenProperties DEF IsGraph, IsAdaptorFor
  <2>2. nodes' = InsertAt([nodes EXCEPT ![i].inputs[s] = a.id], i, a)
    BY <1>1, <1>4, <2>1
  <2> QED
    BY <1>2, <2>1, <2>2, InsertedBefore
<1>11. NamesOf(nodes') = Adapted(N, c, s, a)
  BY <1>2, <1>10, InsertedNodes DEF Adapted
<1> QED
  BY <1>5, <1>6, <1>7, <1>9, <1>10, <1>11 DEF IsMending

\* Inserting an adaptor preserves the invariant.
LEMMA InsertAdaptorPreserves ==
  ASSUME TyperInv, InsertAdaptor, UNCHANGED topology
  PROVE  TyperInv'
<1> PICK N : N = NamesOf(nodes)
  OBVIOUS
<1>1. /\ stage = "synthesis" /\ stage' = stage /\ position' = position + 1
      /\ position \in DOMAIN edgeErrors
      /\ edgeErrors' = edgeErrors
      /\ UNCHANGED <<boundary, topology, outputs>>
  BY DEF InsertAdaptor, inferVars
<1>2. PICK c, i, s, a : IsMending(c, i, s, a)
  BY InsertAdaptorMends
<1>3. /\ i \in DOMAIN nodes /\ c = nodes[i] /\ c \in N /\ ~IsAdaptor(c.id) /\ s \in DOMAIN c.inputs
      /\ c.id = edgeErrors[position].consumer /\ s = edgeErrors[position].slot
      /\ Adapts(N, c, s, a) /\ Inserts(nodes, nodes', i, s, a)
      /\ NamesOf(nodes') = Adapted(N, c, s, a)
  BY <1>2 DEF IsMending, NamesOf
<1>4. /\ IsGraph(nodes, boundary) /\ Chained(N) /\ IsNodes(N) /\ PlainConfigs(N)
      /\ position \in Nat \ {0}
      /\ edgeErrors \in Seq(NamesOf(edgeErrors)) /\ EdgesDiffer(edgeErrors)
      /\ ErrorsOf(nodes, Len(nodes) + 1, edgeErrors, position)
  BY <1>1, GraphNodes DEF TyperInv, GraphInv, FrontInv, WalkInv
<1>5. GraphInv'
  <2>1. IsGraph(nodes', boundary')
    BY <1>1, <1>3, <1>4, InsertedGraph
  <2>2. Chained(NamesOf(nodes'))
    BY <1>3, <1>4, InsertedChains
  <2> QED
    BY <2>1, <2>2 DEF GraphInv
<1>6. FrontInv'
  <2> PICK r : r = Rewired(c, s, a)
    OBVIOUS
  <2>1. r.id = c.id /\ r.config = c.config
    BY <1>3, <1>4, RewiredIs DEF IsNodes
  <2>2. NamesOf(nodes') = (N \ {c}) \cup {r, a} /\ IsAdaptor(a.id)
    BY <1>3, AdaptorIDs DEF Adapted, Adapts
  <2>3. PlainConfigs(NamesOf(nodes'))
    BY <1>3, <1>4, <2>1, <2>2 DEF PlainConfigs
  <2> QED
    BY <1>1, <2>3 DEF FrontInv
<1>7. ReadsInv'
  <2>1. /\ \A k : LatestReads(k)' = LatestReads(k)
        /\ \A name : LatestBinder(OutputRef(name), Len(topology.nodes) + 1)'
                       = LatestBinder(OutputRef(name), Len(topology.nodes) + 1)
    BY <1>1 DEF LatestReads, LatestBinder, OutputRef
  <2>2. /\ \A k \in DOMAIN topology.nodes : Serves(N, topology.nodes[k].id, LatestReads(k))
        /\ \A name \in DOMAIN outputs :
             outputs[name] = LatestBinder(OutputRef(name), Len(topology.nodes) + 1)
    BY <1>1 DEF TyperInv, ReadsInv, Lowered
  <2>3. \A k \in DOMAIN topology.nodes :
          Serves(NamesOf(nodes'), topology.nodes[k].id, LatestReads(k))
    BY <1>3, <1>4, <2>2, AdaptedServes
  <2> QED
    BY <1>1, <2>1, <2>2, <2>3 DEF ReadsInv
<1>8. ErrorsOf(nodes', Len(nodes') + 1, edgeErrors, position + 1)
  <2> SUFFICES ASSUME NEW j \in DOMAIN edgeErrors, j >= position + 1
               PROVE  \E k \in DOMAIN nodes' : k < Len(nodes') + 1 /\
                        ErrorOf(NamesOf(nodes'), nodes'[k], edgeErrors[j])
    BY DEF ErrorsOf
  <2> PICK f : f = edgeErrors[j]
    OBVIOUS
  <2>1. j >= position /\ j # position
    BY <1>4, LenProperties
  <2>2. PICK k \in DOMAIN nodes : ErrorOf(N, nodes[k], f)
    BY <1>4, <2>1 DEF ErrorsOf
  <2> PICK d : d = nodes[k]
    OBVIOUS
  <2>3. d \in N /\ d.id = f.consumer /\ f.slot \in DOMAIN d.inputs /\ f.producer = d.inputs[f.slot]
    BY <2>2 DEF ErrorOf, NamesOf
  <2>4. d.id # c.id \/ f.slot # s
    BY <1>1, <1>3, <1>4, <2>1, <2>3 DEF EdgesDiffer
  <2>5. f.producer # a.id
    <3>1. a.id \notin IdsIn(N) /\ IsAdaptor(a.id)
      BY <1>3, AdaptorIDs DEF Adapts
    <3>2. f.producer \in NamesOf(boundary) \/ f.producer \in IdsIn(N)
      <4>1. \/ nodes[k].inputs[f.slot] \in NamesOf(boundary)
            \/ \E m \in 1 .. k - 1 : nodes[m].id = nodes[k].inputs[f.slot]
        BY <1>4, <2>3 DEF IsGraph, IsOrdered
      <4>2. \A m \in 1 .. k - 1 : m \in DOMAIN nodes
        BY <1>4, LenProperties DEF IsGraph
      <4> QED
        BY <2>3, <4>1, <4>2 DEF IdsIn, NamesOf
    <3> QED
      BY <1>4, <3>1, <3>2 DEF IsGraph
  <2>6. PICK n \in NamesOf(nodes') : ErrorOf(NamesOf(nodes'), n, f)
    BY <1>3, <1>4, <2>2, <2>3, <2>4, <2>5, ErrorAdapted
  <2>7. PICK m \in DOMAIN nodes' : n = nodes'[m]
    BY DEF NamesOf
  <2>8. DOMAIN nodes' = 1 .. Len(nodes') /\ Len(nodes') \in Nat
    BY <1>3, LenProperties DEF Inserts
  <2> QED
    BY <2>6, <2>7, <2>8
<1>9. WalkInv'
  BY <1>1, <1>4, <1>8 DEF WalkInv
<1> QED
  BY <1>5, <1>6, <1>7, <1>9 DEF TyperInv

------------------------------------------------------------------------------
\* The steps of the lowering.
LEMMA LoweringPreserves ==
  ASSUME TyperInv, LoweringInv', LoweringNext
  PROVE  TyperInv'
<1>1. CASE ExpandTopology
  BY <1>1, ExpandPreserves
<1>2. CASE LowerNode
  BY <1>2, LowerPreserves
<1>3. CASE ResolveOutputs
  BY <1>3, ResolvePreserves
<1>4. CASE BindWeights
  BY <1>4, BindPreserves
<1>5. CASE SkipBinding
  <2>1. /\ UNCHANGED <<nodes, boundary, topology, outputs>> /\ stage = "bind" /\ stage' = "bound"
    BY <1>5 DEF SkipBinding, graphVars, loweringVars
  <2> QED
    BY <2>1, OutsideTyper DEF Lowered
<1>6. CASE RefuseTopology \/ RefuseToLower \/ RefuseOutputs \/ RefuseToBind
  <2>1. /\ UNCHANGED <<nodes, boundary, topology, outputs>>
        /\ stage' \in {"not expanded", "not lowered", "not bound"}
        /\ stage' = "not bound" => stage = "bind"
    BY <1>6 DEF RefuseTopology, RefuseToLower, RefuseOutputs, RefuseToBind, Fail,
                graphVars, loweringVars
  <2> QED
    BY <2>1, OutsideTyper DEF Lowered
<1> QED
  BY <1>1, <1>2, <1>3, <1>4, <1>5, <1>6 DEF LoweringNext

\* The steps of the typer.
LEMMA TyperPreserves ==
  ASSUME TyperInv, TyperNext, UNCHANGED loweringVars
  PROVE  TyperInv'
<1>1. topology' = topology
  BY DEF loweringVars
<1>2. CASE BeginInfer
  BY <1>1, <1>2, BeginInferPreserves
<1>3. CASE KeepTyped
  BY <1>1, <1>3, KeepTypedPreserves
<1>4. CASE PassThrough
  BY <1>1, <1>4, PassThroughPreserves
<1>5. CASE TypeNode
  BY <1>1, <1>5, TypeNodePreserves
<1>6. CASE RefuseNode
  BY <1>1, <1>6, RefuseNodePreserves
<1>7. CASE FinishInfer
  BY <1>1, <1>7, FinishInferPreserves
<1>8. CASE InsertAdaptor
  BY <1>1, <1>8, InsertAdaptorPreserves
<1>9. CASE LeaveUnresolved
  BY <1>1, <1>9, LeaveUnresolvedPreserves
<1>10. CASE FinishSynthesis
  <2>1. /\ UNCHANGED <<nodes, boundary, topology, outputs>> /\ stage = "synthesis"
        /\ stage' \in {"hard failure", "unconverged", "infer"}
    BY <1>1, <1>10 DEF FinishSynthesis, graphVars
  <2> QED
    BY <2>1, OutsideTyper DEF Lowered
<1> QED
  BY <1>2, <1>3, <1>4, <1>5, <1>6, <1>7, <1>8, <1>9, <1>10 DEF TyperNext

\* The steps between the runs of the typer and after them.
LEMMA BetweenPreserves ==
  ASSUME TyperInv,
         RunTyper \/ SkipTyper \/ OptimizeAndRetype \/ SkipOptimizer \/ ValidateOps \/ MergeBindings
  PROVE  TyperInv'
<1>1. UNCHANGED <<nodes, boundary, topology, outputs>>
  BY DEF RunTyper, SkipTyper, OptimizeAndRetype, SkipOptimizer, ValidateOps, MergeBindings,
         StartRun, graphVars, loweringVars
<1>2. /\ stage \in {"bound", "typed", "checked", "valid"}
      /\ stage' \in {"infer", "checked", "valid", "unsupported", "conflict", "planned"}
  BY DEF RunTyper, SkipTyper, OptimizeAndRetype, SkipOptimizer, ValidateOps, MergeBindings,
         StartRun
<1> QED
  BY <1>1, <1>2, OutsideTyper DEF Lowered

\* Every step of a compilation preserves the invariant.
LEMMA NextPreserves ==
  ASSUME TyperInv, LoweringInv', [FrontEndNext]_frontEndVars
  PROVE  TyperInv'
<1>1. CASE LoweringNext
  BY <1>1, LoweringPreserves
<1>2. CASE TyperNext /\ UNCHANGED loweringVars
  BY <1>2, TyperPreserves
<1>3. CASE RunTyper \/ SkipTyper \/ OptimizeAndRetype \/ SkipOptimizer \/ ValidateOps \/ MergeBindings
  BY <1>3, BetweenPreserves
<1>4. CASE UNCHANGED frontEndVars
  BY <1>4, StutterPreserves
<1> QED
  BY <1>1, <1>2, <1>3, <1>4 DEF FrontEndNext, Compiled

\* At every moment of a compilation the graph is well formed, every edge is a
\* chain of at most one cast and one transpose, and the errors a round has
\* collected are about edges that are there.
THEOREM TyperInvIsInvariant == FrontEndSpec => []TyperInv
<1>1. FrontEndInit => TyperInv
  BY InitTyperInv
<1>2. TyperInv /\ LoweringInv' /\ [FrontEndNext]_frontEndVars => TyperInv'
  BY NextPreserves
<1> QED
  BY <1>1, <1>2, LoweringInvIsInvariant, PTL DEF FrontEndSpec

\* No ID occurs twice and every node comes after everything it reads, also
\* between the insertions of a round, for every topology (adaptor.go:77-99).
THEOREM GraphStaysTopological == FrontEndSpec => []StaysTopological
<1>1. TyperInv => StaysTopological
  <2> SUFFICES ASSUME TyperInv
               PROVE  StaysTopological
    OBVIOUS
  <2>1. IsGraph(nodes, boundary)
    BY DEF TyperInv, GraphInv
  <2> QED
    BY <2>1 DEF StaysTopological, IsGraph, IsOrdered
<1> QED
  BY <1>1, TyperInvIsInvariant, PTL

\* Looking through the adaptors finds the start of the edge.
LEMMA OriginIsSource ==
  ASSUME IsNodes(NamesOf(nodes)), NEW c \in NamesOf(nodes), NEW s, NEW p,
         SourceIs(NamesOf(nodes), c, s, p)
  PROVE  Origin(c.inputs[s]) = p
<1>1. \A n \in NamesOf(nodes) : NodeCalled(n.id) = n
  <2> SUFFICES ASSUME NEW n \in NamesOf(nodes)
               PROVE  NodeCalled(n.id) = n
    OBVIOUS
  <2>1. PICK i \in DOMAIN nodes : nodes[i].id = n.id /\ nodes[i] = n
    BY DEF NamesOf
  <2>2. PICK k : k = CHOOSE j \in DOMAIN nodes : nodes[j].id = n.id
    OBVIOUS
  <2>3. k \in DOMAIN nodes /\ nodes[k].id = n.id
    BY <2>1, <2>2
  <2>4. nodes[k] = n
    BY <2>3 DEF IsNodes, NamesOf
  <2> QED
    BY <2>2, <2>4 DEF NodeCalled
<1>2. BehindAdaptor(p) = p
  BY DEF SourceIs, BehindAdaptor
<1>3. \A a \in NamesOf(nodes) : IsAdaptor(a.id) => BehindAdaptor(a.id) = a.inputs[1]
  BY <1>1 DEF BehindAdaptor
<1> QED
  BY <1>2, <1>3 DEF SourceIs, Origin

\* Looked through its adaptors, every read of the manifest is served by the
\* producer that bound the name last before it, and so is every output
\* (topology_lower.go:182-184), whatever was rebound later.
THEOREM ReadsKeepTheirMeaning == FrontEndSpec => []ReadsSeeTheLatestBinding
<1>1. TyperInv => ReadsSeeTheLatestBinding
  <2> SUFFICES ASSUME TyperInv, Lowered
               PROVE  ReadsSeeTheLatestBinding
    BY DEF ReadsSeeTheLatestBinding
  <2>1. /\ IsNodes(NamesOf(nodes))
        /\ \A i \in DOMAIN topology.nodes :
             Serves(NamesOf(nodes), topology.nodes[i].id, LatestReads(i))
        /\ \A name \in DOMAIN outputs :
             outputs[name] = LatestBinder(OutputRef(name), Len(topology.nodes) + 1)
    BY GraphNodes DEF TyperInv, GraphInv, ReadsInv
  <2>2. ASSUME NEW i \in DOMAIN topology.nodes
        PROVE  \E n \in DOMAIN nodes :
                 /\ nodes[n].id = topology.nodes[i].id
                 /\ [k \in DOMAIN nodes[n].inputs |-> Origin(nodes[n].inputs[k])]
                      = [k \in DOMAIN Reads(topology.nodes[i]) |->
                           LatestBinder(Reads(topology.nodes[i])[k], i)]
    <3>1. PICK c \in NamesOf(nodes) :
            /\ c.id = topology.nodes[i].id
            /\ DOMAIN c.inputs = DOMAIN LatestReads(i)
            /\ \A k \in DOMAIN LatestReads(i) : SourceIs(NamesOf(nodes), c, k, LatestReads(i)[k])
      BY <2>1 DEF Serves
    <3>2. PICK n \in DOMAIN nodes : c = nodes[n]
      BY DEF NamesOf
    <3>3. \A k \in DOMAIN c.inputs : Origin(c.inputs[k]) = LatestReads(i)[k]
      BY <2>1, <3>1, OriginIsSource
    <3>4. /\ DOMAIN LatestReads(i) = DOMAIN Reads(topology.nodes[i])
          /\ \A k \in DOMAIN Reads(topology.nodes[i]) :
               LatestReads(i)[k] = LatestBinder(Reads(topology.nodes[i])[k], i)
      BY DEF LatestReads
    <3> QED
      BY <3>1, <3>2, <3>3, <3>4
  <2> QED
    BY <2>1, <2>2 DEF ReadsSeeTheLatestBinding
<1> QED
  BY <1>1, TyperInvIsInvariant, PTL

------------------------------------------------------------------------------
\* What a mismatch of dtypes can be excused by, and that an excuse lasts.

\* The types of the graph's inputs.
InputPorts == [name \in NamesOf(boundary) |-> GraphInputPortType(name)]

\* The errors of the round that are still to be looked at.
Pend == IF stage = "nodes" THEN NamesOf(edgeErrors)
        ELSE IF stage = "synthesis"
        THEN {edgeErrors[j] : j \in {k \in DOMAIN edgeErrors : k >= position}}
        ELSE {}

\* The typer will stop with an error that no adaptor can mend.
Doomed == unresolved # <<>> \/ \E e \in Pend : e.hint = ""

\* The nodes the first round of the first run has not come to.
Unseen == IF runs = 1 /\ round = 0 THEN IdsIn(NamesOf(nodes))
          ELSE IF runs = 1 /\ round = 1 /\ stage = "nodes"
          THEN {nodes[i].id : i \in {k \in DOMAIN nodes : k >= position}}
          ELSE {}

\* A node whose contract gives it no dtype, a node that may get its type after
\* the nodes reading it, and a source for which one of the two holds or that
\* has no dtype.
Forever(n) == /\ HasSpec(n.op) /\ LookupSpec(n.op).deriver = "none"
              /\ LookupSpec(n.op).output.dtype = "Invalid"
Late(N, n) == \/ ~HasSpec(n.op)
              \/ 1 \in DOMAIN n.inputs /\ TransposeID(n, 1) \in IdsIn(N)
Weak(N, ports, p) ==
  \/ p \in DOMAIN ports /\ ports[p].dtype = "Invalid"
  \/ \E n \in N : n.id = p /\ (Late(N, n) \/ Forever(n))

IsPending(E, c, s, hint) ==
  \E e \in E : e.hint = hint /\ e.consumer = c.id /\ e.slot = s
WeakSoon(N, ports, E, p) ==
  \/ Weak(N, ports, p)
  \/ \E n \in N : n.id = p /\ 1 \in DOMAIN n.inputs /\ IsPending(E, n, 1, "transpose")

\* What is wrong with the dtype of an edge is being mended or can be excused.
AgreesAt(N, ports, c, s) ==
  /\ \A n \in N : n.id = c.inputs[s] => DTypesAgree(n.outputType, Expected(c, s))
  /\ c.inputs[s] \in DOMAIN ports => DTypesAgree(ports[c.inputs[s]], Expected(c, s))
EdgeIsFine(N, ports, E, c, s) ==
  \/ AgreesAt(N, ports, c, s)
  \/ IsPending(E, c, s, "cast")
  \/ \E p \in DOMAIN ports \cup IdsIn(N) : SourceIs(N, c, s, p) /\ WeakSoon(N, ports, E, p)
NodeIsFine(N, unseen, ports, E, n) ==
  /\ Forever(n) => ~IsTyped(n)
  /\ n.id \in unseen => ~IsTyped(n) /\ ~IsAdaptor(n.id)
  /\ IsAdaptor(n.id) /\ ~IsTyped(n) =>
       ~IsAdaptor(n.inputs[1]) /\ WeakSoon(N, ports, E, n.inputs[1])
  /\ n.id \notin unseen /\ ~IsAdaptor(n.id) =>
       /\ ~IsTyped(n) => WeakSoon(N, ports, E, n.id)
       /\ \A s \in DOMAIN n.inputs : HasExpectation(n, s) => EdgeIsFine(N, ports, E, n, s)
AllFine(N, unseen, ports, E) == \A n \in N : NodeIsFine(N, unseen, ports, E, n)

MendedInv ==
  /\ stage = "nodes" => \A name \in NamesOf(boundary) :
                          producerTypes[name] = InputPorts[name]
  /\ \A e \in Pend : e.producer \in NamesOf(boundary) =>
                       e.producerType = InputPorts[e.producer]
  /\ runs \in Nat /\ round \in Nat
  /\ stage \in {"expand", "lower", "bind", "bound"} => runs = 0
  /\ runs > 0 /\ stage \in {"nodes", "synthesis", "typed", "checked", "valid", "planned"} => round > 0
  /\ stage \in {"infer", "nodes", "synthesis", "typed"} => runs > 0
  /\ stage \in {"infer", "nodes", "synthesis", "typed", "checked", "valid", "planned"}
     /\ runs > 0 /\ ~disableSynthesis =>
       /\ stage # "synthesis" => unresolved = <<>>
       /\ Doomed \/ AllFine(NamesOf(nodes), Unseen, InputPorts, Pend)

------------------------------------------------------------------------------
\* The types of the inputs depend on the topology and its dtype alone.
LEMMA InputPortsUnchanged ==
  ASSUME UNCHANGED <<boundary, executionDType>>
  PROVE  InputPorts' = InputPorts
<1>1. \A name : GraphInputPortType(name)' = GraphInputPortType(name)
  BY Zenon DEF GraphInputPortType, ActivationDType
<1> QED
  BY <1>1 DEF InputPorts

\* A graph that goes on from N to M, and the open errors from E to F, so that
\* no excuse gets lost.
Outlasts(N, M, E, F) ==
  /\ \A n \in N : \E m \in M : /\ m.id = n.id /\ m.op = n.op
                               /\ DOMAIN m.inputs = DOMAIN n.inputs
  /\ IdsIn(N) \subseteq IdsIn(M)
  /\ \A n \in N : IsPending(E, n, 1, "transpose") =>
                    IsPending(F, n, 1, "transpose") \/ TransposeID(n, 1) \in IdsIn(M)
\* A weak source stays weak as long as no excuse gets lost.
LEMMA WeakLasts ==
  ASSUME NEW N, NEW M, NEW E, NEW F, Outlasts(N, M, E, F), NEW ports, NEW p,
         WeakSoon(N, ports, E, p)
  PROVE  WeakSoon(M, ports, F, p)
<1>1. CASE p \in DOMAIN ports /\ ports[p].dtype = "Invalid"
  BY <1>1 DEF WeakSoon, Weak
<1>2. ASSUME NEW n \in N, n.id = p, Late(N, n) \/ Forever(n)
      PROVE  WeakSoon(M, ports, F, p)
  <2>1. PICK m \in M : m.id = n.id /\ m.op = n.op /\ DOMAIN m.inputs = DOMAIN n.inputs
    BY DEF Outlasts
  <2>2. TransposeID(m, 1) = TransposeID(n, 1)
    BY <2>1 DEF TransposeID
  <2>3. IdsIn(N) \subseteq IdsIn(M)
    BY DEF Outlasts
  <2>4. Late(M, m) \/ Forever(m)
    BY <1>2, <2>1, <2>2, <2>3 DEF Late, Forever
  <2> QED
    BY <1>2, <2>1, <2>4 DEF WeakSoon, Weak
<1>3. ASSUME NEW n \in N, n.id = p, 1 \in DOMAIN n.inputs, IsPending(E, n, 1, "transpose")
      PROVE  WeakSoon(M, ports, F, p)
  <2>1. PICK m \in M : m.id = n.id /\ m.op = n.op /\ DOMAIN m.inputs = DOMAIN n.inputs
    BY DEF Outlasts
  <2>2. TransposeID(m, 1) = TransposeID(n, 1)
    BY <2>1 DEF TransposeID
  <2>3. IsPending(F, n, 1, "transpose") \/ TransposeID(n, 1) \in IdsIn(M)
    BY <1>3 DEF Outlasts
  <2>4. CASE IsPending(F, n, 1, "transpose")
    BY <1>3, <2>1, <2>4 DEF WeakSoon, IsPending
  <2>5. CASE TransposeID(n, 1) \in IdsIn(M)
    BY <1>3, <2>1, <2>2, <2>5 DEF WeakSoon, Weak, Late
  <2> QED
    BY <2>3, <2>4, <2>5
<1> QED
  BY <1>1, <1>2, <1>3 DEF WeakSoon, Weak

\* What is weak is an input or a node.
LEMMA WeakIsThere ==
  ASSUME NEW N, NEW ports, NEW E, NEW p, WeakSoon(N, ports, E, p)
  PROVE  p \in DOMAIN ports \cup IdsIn(N)
BY DEF WeakSoon, Weak, IdsIn

\* Typing the node at p takes the graph old to new and the errors E to F.
Types(old, p, out, new, inputs, E, F, unseen) ==
  /\ IsGraph(old, inputs) /\ p \in DOMAIN old /\ IsAssigned(old, p, out, new)
  /\ E \subseteq F
  /\ \A i \in DOMAIN old : old[i].id \notin unseen =>
       \A s \in DOMAIN old[i].inputs : old[i].inputs[s] \notin unseen

\* Typing a node loses no excuse: the nodes keep their names, operations and
\* reads and errors are only added.
LEMMA TypesOutlasts ==
  ASSUME NEW old, NEW p, NEW out, NEW new, NEW inputs, NEW E, NEW F, NEW unseen,
         Types(old, p, out, new, inputs, E, F, unseen)
  PROVE  Outlasts(NamesOf(old), NamesOf(new), E, F) /\ SameNodes(NamesOf(old), NamesOf(new))
<1>1. SameNodes(NamesOf(old), NamesOf(new))
  BY RetypedNodes DEF Types, IsAssigned
<1>2. IdsIn(NamesOf(new)) = IdsIn(NamesOf(old))
  BY <1>1, SameIds
<1>3. \A n : IsPending(E, n, 1, "transpose") => IsPending(F, n, 1, "transpose")
  BY DEF Types, IsPending
<1> QED
  BY <1>1, <1>2, <1>3 DEF Outlasts, SameNodes, Same

\* A node that is not the typed one stays fine.
LEMMA NodeKept ==
  ASSUME NEW old, NEW p, NEW out, NEW new, NEW inputs, NEW E, NEW F, NEW unseen,
         Types(old, p, out, new, inputs, E, F, unseen),
         NEW ports, AllFine(NamesOf(old), unseen, ports, E),
         NEW i \in DOMAIN old, new[i].outputType = old[i].outputType,
         NEW less, old[i].id \in less <=> old[i].id \in unseen
  PROVE  NodeIsFine(NamesOf(new), less, ports, F, new[i])
<1> PICK N : N = NamesOf(old)
  OBVIOUS
<1> PICK M : M = NamesOf(new)
  OBVIOUS
<1> PICK n : n = old[i]
  OBVIOUS
<1> PICK m : m = new[i]
  OBVIOUS
<1>1. /\ IsGraph(old, inputs) /\ p \in DOMAIN old
      /\ \A j \in DOMAIN old : j # p => new[j] = old[j]
      /\ DOMAIN new = DOMAIN old
      /\ \A j \in DOMAIN old : Same(old[j], new[j])
  BY DEF Types, IsAssigned, Retypes
<1>2. m.id = n.id /\ m.op = n.op /\ m.inputs = n.inputs /\ m.outputType = n.outputType
  BY <1>1 DEF Same
<1>3. NodeIsFine(N, unseen, ports, E, n)
  BY DEF AllFine, NamesOf
<1>4. SameNodes(N, M) /\ \A q : WeakSoon(N, ports, E, q) => WeakSoon(M, ports, F, q)
  BY TypesOutlasts, WeakLasts
<1>5. /\ Forever(m) <=> Forever(n)
      /\ IsTyped(m) <=> IsTyped(n)
      /\ \A s : HasExpectation(m, s) <=> HasExpectation(n, s)
      /\ \A s : Expected(m, s) = Expected(n, s)
  BY <1>2 DEF Forever, IsTyped, HasExpectation, Expected
<1>6. ASSUME NEW q, NEW s, SourceIs(N, n, s, q), WeakSoon(N, ports, E, q)
      PROVE  EdgeIsFine(M, ports, F, m, s)
  <2>1. Same(n, m)
    BY <1>1
  <2>2. SourceIs(M, m, s, q)
    BY <1>4, <1>6, <2>1, RetypedSource
  <2>3. WeakSoon(M, ports, F, q)
    BY <1>4, <1>6
  <2> QED
    BY <2>2, <2>3, WeakIsThere DEF EdgeIsFine
<1>7. ASSUME n.id \notin unseen, ~IsAdaptor(n.id), NEW s \in DOMAIN n.inputs, HasExpectation(n, s)
      PROVE  EdgeIsFine(M, ports, F, m, s)
  <2>1. EdgeIsFine(N, ports, E, n, s)
    BY <1>3, <1>7 DEF NodeIsFine
  <2>2. CASE IsPending(E, n, s, "cast")
    BY <1>2, <2>2 DEF EdgeIsFine, IsPending, Types
  <2>3. CASE \E q : SourceIs(N, n, s, q) /\ WeakSoon(N, ports, E, q)
    BY <1>6, <2>3
  <2>4. CASE AgreesAt(N, ports, n, s)
    <3>1. CASE old[p].id = n.inputs[s] /\ ~IsTyped(old[p])
      <4>1. old[p].id \notin unseen /\ old[p] \in N
        BY <1>1, <1>7, <3>1 DEF Types, NamesOf
      <4>2. NodeIsFine(N, unseen, ports, E, old[p])
        BY <4>1 DEF AllFine
      <4>3. CASE IsAdaptor(old[p].id)
        <5>1. ~IsAdaptor(old[p].inputs[1]) /\ WeakSoon(N, ports, E, old[p].inputs[1])
          BY <3>1, <4>2, <4>3 DEF NodeIsFine
        <5>2. SourceIs(N, n, s, old[p].inputs[1])
          BY <3>1, <4>1, <4>3, <5>1 DEF SourceIs
        <5> QED
          BY <1>6, <5>1, <5>2
      <4>4. CASE ~IsAdaptor(old[p].id)
        <5>1. WeakSoon(N, ports, E, old[p].id)
          BY <3>1, <4>1, <4>2, <4>4 DEF NodeIsFine
        <5>2. SourceIs(N, n, s, old[p].id)
          BY <3>1, <4>4 DEF SourceIs
        <5> QED
          BY <1>6, <5>1, <5>2
      <4> QED
        BY <4>3, <4>4
    <3>2. CASE ~(old[p].id = n.inputs[s] /\ ~IsTyped(old[p]))
      <4>1. ASSUME NEW o \in M, o.id = m.inputs[s]
            PROVE  DTypesAgree(o.outputType, Expected(m, s))
        <5>1. PICK j \in DOMAIN old : o = new[j]
          BY <1>1 DEF NamesOf
        <5>2. old[j].id = n.inputs[s] /\ old[j] \in N
          BY <1>1, <1>2, <4>1, <5>1 DEF Same, NamesOf
        <5>3. o.outputType = old[j].outputType
          BY <1>1, <3>2, <5>1, <5>2 DEF Same
        <5> QED
          BY <1>5, <2>4, <5>2, <5>3 DEF AgreesAt
      <4>2. AgreesAt(M, ports, m, s)
        BY <1>2, <1>5, <2>4, <4>1 DEF AgreesAt
      <4> QED
        BY <4>2 DEF EdgeIsFine
    <3> QED
      BY <3>1, <3>2
  <2> QED
    BY <2>1, <2>2, <2>3, <2>4 DEF EdgeIsFine
<1>8. /\ IsAdaptor(n.id) /\ ~IsTyped(n) =>
           ~IsAdaptor(n.inputs[1]) /\ WeakSoon(M, ports, F, n.inputs[1])
      /\ n.id \notin unseen /\ ~IsAdaptor(n.id) /\ ~IsTyped(n) => WeakSoon(M, ports, F, n.id)
  BY <1>3, <1>4 DEF NodeIsFine
<1>9. /\ Forever(n) => ~IsTyped(n)
      /\ n.id \in unseen => ~IsTyped(n) /\ ~IsAdaptor(n.id)
  BY <1>3 DEF NodeIsFine
<1> QED
  BY <1>2, <1>5, <1>7, <1>8, <1>9 DEF NodeIsFine

\* When the typed node is fine and the others were, all are.
LEMMA TypedFine ==
  ASSUME NEW old, NEW p, NEW out, NEW new, NEW inputs, NEW E, NEW F, NEW unseen,
         Types(old, p, out, new, inputs, E, F, unseen),
         NEW ports, AllFine(NamesOf(old), unseen, ports, E),
         NodeIsFine(NamesOf(new), unseen \ {old[p].id}, ports, F, new[p])
  PROVE  AllFine(NamesOf(new), unseen \ {old[p].id}, ports, F)
<1>1. /\ IsGraph(old, inputs)
      /\ \A j \in DOMAIN old : j # p => new[j] = old[j]
      /\ DOMAIN new = DOMAIN old /\ p \in DOMAIN old
  BY DEF Types, IsAssigned
<1> SUFFICES ASSUME NEW i \in DOMAIN old, i # p
             PROVE  NodeIsFine(NamesOf(new), unseen \ {old[p].id}, ports, F, new[i])
  BY <1>1 DEF AllFine, NamesOf
<1>2. old[i].id # old[p].id
  BY <1>1 DEF IsGraph
<1>3. old[i].id \in unseen \ {old[p].id} <=> old[i].id \in unseen
  BY <1>2
<1>4. new[i].outputType = old[i].outputType
  BY <1>1
<1> QED
  BY <1>3, <1>4, NodeKept

------------------------------------------------------------------------------
\* The dtypes as the walk comes by a node that is typed or has no contract.

\* What a node read that the walk has come by, it has come by as well.
LEMMA SeenReadsSeen ==
  ASSUME TyperInv, stage = "nodes", runs > 0 => round > 0,
         NEW i \in DOMAIN nodes, nodes[i].id \notin Unseen,
         NEW s \in DOMAIN nodes[i].inputs
  PROVE  nodes[i].inputs[s] \notin Unseen
<1>1. IsGraph(nodes, boundary) /\ DOMAIN nodes = 1 .. Len(nodes) /\ Len(nodes) \in Nat
      /\ position \in Nat
  BY LenProperties DEF TyperInv, GraphInv, IsGraph, WalkInv
<1> SUFFICES ASSUME NEW k \in DOMAIN nodes, k >= position, nodes[k].id = nodes[i].inputs[s],
                    Unseen = {nodes[j].id : j \in {j \in DOMAIN nodes : j >= position}}
             PROVE  FALSE
  BY DEF Unseen
<1>2. k < i
  BY <1>1, ReadsComeFirst
<1>3. i >= position
  BY <1>1, <1>2
<1> QED
  BY <1>3

\* The walk takes the node at its position out of those it has not come to.
LEMMA UnseenShrinks ==
  ASSUME TyperInv, stage = "nodes", runs > 0 => round > 0, position \in DOMAIN nodes,
         NEW out, IsAssigned(nodes, position, out, nodes'), position' = position + 1,
         UNCHANGED <<stage, runs, round>>, round \in Nat, runs \in Nat
  PROVE  Unseen' = Unseen \ {nodes[position].id}
<1>1. IsGraph(nodes, boundary) /\ DOMAIN nodes = 1 .. Len(nodes) /\ Len(nodes) \in Nat
      /\ position \in Nat
  BY LenProperties DEF TyperInv, GraphInv, IsGraph, WalkInv
<1>2. DOMAIN nodes' = DOMAIN nodes /\ \A j \in DOMAIN nodes : nodes'[j].id = nodes[j].id
  BY DEF IsAssigned, Retypes, Same
<1>3. CASE runs = 1 /\ round = 1
  <2>1. Unseen = {nodes[j].id : j \in {j \in DOMAIN nodes : j >= position}}
    BY <1>3 DEF Unseen
  <2>2. Unseen' = {nodes'[j].id : j \in {j \in DOMAIN nodes' : j >= position'}}
    BY <1>3 DEF Unseen
  <2>3. \A j \in DOMAIN nodes : j >= position + 1 <=> (j >= position /\ j # position)
    BY <1>1
  <2>4. \A j \in DOMAIN nodes : j # position => nodes[j].id # nodes[position].id
    BY <1>1 DEF IsGraph
  <2>5. \A x : x \in Unseen' <=> x \in Unseen /\ x # nodes[position].id
    BY <1>2, <2>1, <2>2, <2>3, <2>4
  <2> QED
    BY <2>5
<1>4. CASE ~(runs = 1 /\ round = 1)
  <2>1. Unseen = {} /\ Unseen' = {}
    BY <1>4 DEF Unseen
  <2> QED
    BY <2>1
<1> QED
  BY <1>3, <1>4

\* What the steps of the walk have in common.
FineWalk(new) ==
  ~Doomed' => NodeIsFine(NamesOf(nodes'), Unseen \ {nodes[position].id}, InputPorts, Pend', new)
\* A step of the walk preserves the invariant if the node it types is fine.
LEMMA WalkKeepsFine ==
  ASSUME TyperInv, MendedInv, stage = "nodes", position \in DOMAIN nodes,
         NEW out, IsAssigned(nodes, position, out, nodes'), position' = position + 1,
         producerTypes' = Overlay(producerTypes, [n \in {nodes[position].id} |-> out]),
         UNCHANGED <<stage, runs, round, boundary, executionDType, unresolved, disableSynthesis>>,
         NamesOf(edgeErrors) \subseteq NamesOf(edgeErrors'),
         \A e \in NamesOf(edgeErrors') : e \in NamesOf(edgeErrors)
           \/ (e.producer \in NamesOf(boundary) => e.producerType = InputPorts[e.producer]),
         runs > 0 /\ ~disableSynthesis /\ ~Doomed
           /\ AllFine(NamesOf(nodes), Unseen, InputPorts, Pend) => FineWalk(nodes'[position])
  PROVE  MendedInv'
<1>1. IsGraph(nodes, boundary)
  BY DEF TyperInv, GraphInv
<1>2. InputPorts' = InputPorts
  BY InputPortsUnchanged
<1>3. /\ runs \in Nat /\ round \in Nat /\ runs > 0 /\ round > 0
      /\ \A name \in NamesOf(boundary) : producerTypes[name] = InputPorts[name]
      /\ \A e \in Pend : e.producer \in NamesOf(boundary) => e.producerType = InputPorts[e.producer]
  BY DEF MendedInv
<1>4. Pend = NamesOf(edgeErrors) /\ Pend' = NamesOf(edgeErrors')
  BY DEF Pend
<1>5. \A name \in NamesOf(boundary) : producerTypes'[name] = InputPorts[name]
  <2> PICK m : m = [n \in {nodes[position].id} |-> out]
    OBVIOUS
  <2>1. NamesOf(boundary) \subseteq DOMAIN producerTypes
    BY DEF TyperInv, WalkInv
  <2>2. \A name \in NamesOf(boundary) : name \notin DOMAIN m
    <3>1. nodes[position].id \in IdsIn(NamesOf(nodes))
      BY DEF IdsIn, NamesOf
    <3> QED
      BY <1>1, <3>1 DEF IsGraph
  <2>3. \A k \in DOMAIN producerTypes \ DOMAIN m : Overlay(producerTypes, m)[k] = producerTypes[k]
    BY DEF Overlay
  <2> QED
    BY <1>3, <2>1, <2>2, <2>3
<1>6. \A e \in Pend' : e.producer \in NamesOf(boundary) => e.producerType = InputPorts[e.producer]
  BY <1>3, <1>4
<1>7. Unseen' = Unseen \ {nodes[position].id}
  BY <1>3, UnseenShrinks
<1>8. ASSUME ~disableSynthesis, ~Doomed'
      PROVE  AllFine(NamesOf(nodes'), Unseen', InputPorts, Pend')
  <2>1. ~Doomed
    BY <1>4, <1>8 DEF Doomed
  <2>2. AllFine(NamesOf(nodes), Unseen, InputPorts, Pend)
    BY <1>3, <1>8, <2>1 DEF MendedInv
  <2>3. \A i \in DOMAIN nodes : nodes[i].id \notin Unseen =>
          \A s \in DOMAIN nodes[i].inputs : nodes[i].inputs[s] \notin Unseen
    BY <1>3, SeenReadsSeen
  <2>4. Types(nodes, position, out, nodes', boundary, Pend, Pend', Unseen)
    BY <1>1, <1>4, <2>3 DEF Types
  <2>5. NodeIsFine(NamesOf(nodes'), Unseen \ {nodes[position].id}, InputPorts, Pend', nodes'[position])
    BY <1>3, <1>8, <2>1, <2>2 DEF FineWalk
  <2> QED
    BY <1>7, <2>2, <2>4, <2>5, TypedFine
<1> QED
  BY <1>2, <1>3, <1>5, <1>6, <1>8 DEF MendedInv

\* A typed node keeps its type, and its edges what is said of them.
LEMMA KeepTypedMends ==
  ASSUME TyperInv, MendedInv, KeepTyped, UNCHANGED runs
  PROVE  MendedInv'
<1> PICK out : out = nodes[position].outputType
  OBVIOUS
<1>1. /\ stage = "nodes" /\ position \in DOMAIN nodes /\ IsTyped(nodes[position])
      /\ nodes' = [nodes EXCEPT ![position].inputTypes = nodes[position].inputTypes,
                                ![position].outputType = out]
      /\ producerTypes' = Overlay(producerTypes, [n \in {nodes[position].id} |-> out])
      /\ position' = position + 1
      /\ UNCHANGED <<stage, round, boundary, executionDType, unresolved, disableSynthesis, edgeErrors>>
  BY DEF KeepTyped, Assign
<1>2. IsGraph(nodes, boundary) /\ IsPort(out)
  BY <1>1 DEF TyperInv, GraphInv, IsGraph, IsNode
<1>3. IsAssigned(nodes, position, out, nodes')
  BY <1>1, <1>2, AssignedAt
<1>4. runs > 0 /\ round > 0
  BY <1>1 DEF MendedInv
<1>5. Pend = NamesOf(edgeErrors) /\ Pend' = NamesOf(edgeErrors)
  BY <1>1 DEF Pend
<1>6. ASSUME AllFine(NamesOf(nodes), Unseen, InputPorts, Pend)
      PROVE  FineWalk(nodes'[position])
  <2>1. \A i \in DOMAIN nodes : nodes[i].id \notin Unseen =>
          \A s \in DOMAIN nodes[i].inputs : nodes[i].inputs[s] \notin Unseen
    BY <1>1, <1>4, SeenReadsSeen
  <2>2. Types(nodes, position, out, nodes', boundary, Pend, Pend', Unseen)
    BY <1>1, <1>2, <1>3, <1>5, <2>1 DEF Types
  <2>3. nodes'[position].outputType = nodes[position].outputType
    BY <1>3 DEF IsAssigned
  <2>4. nodes[position].id \notin Unseen
    BY <1>1, <1>6 DEF AllFine, NodeIsFine, NamesOf
  <2> PICK less : less = Unseen \ {nodes[position].id}
    OBVIOUS
  <2>5. nodes[position].id \in less <=> nodes[position].id \in Unseen
    BY <2>4
  <2>7. position \in DOMAIN nodes
    BY <1>1
  <2>6. NodeIsFine(NamesOf(nodes'), less, InputPorts, Pend', nodes'[position])
    BY <1>6, <2>2, <2>3, <2>5, <2>7, NodeKept
  <2> QED
    BY <2>6 DEF FineWalk
<1> QED
  BY <1>1, <1>3, <1>6, WalkKeepsFine

\* A node without a contract is weak, whatever it is typed with.
LEMMA PassThroughMends ==
  ASSUME TyperInv, MendedInv, PassThrough, UNCHANGED runs
  PROVE  MendedInv'
<1> DEFINE node == nodes[position]
           known == Kept(node.inputs, DOMAIN producerTypes)
           ins == [slot \in DOMAIN node.inputs |-> ProducerType(node.inputs[slot])]
           out == IF known = <<>> THEN AnyTensor ELSE producerTypes[known[1]]
<1>1. /\ stage = "nodes" /\ position \in DOMAIN nodes /\ ~IsTyped(node) /\ ~HasSpec(node.op)
      /\ nodes' = [nodes EXCEPT ![position].inputTypes = ins, ![position].outputType = out]
      /\ producerTypes' = Overlay(producerTypes, [n \in {node.id} |-> out])
      /\ position' = position + 1
      /\ UNCHANGED <<stage, round, boundary, executionDType, unresolved, disableSynthesis, edgeErrors>>
  BY DEF PassThrough, Assign
<1>2. IsGraph(nodes, boundary) /\ IsNode(node) /\ Seen(nodes, position, producerTypes)
  BY <1>1 DEF TyperInv, GraphInv, IsGraph, WalkInv
<1>3. IsPort(out)
  <2>1. CASE known = <<>>
    BY <2>1, CommonPorts
  <2>2. CASE known # <<>>
    <3>1. known \in Seq(NamesOf(node.inputs))
          /\ \A j \in DOMAIN known : known[j] \in DOMAIN producerTypes
      BY <1>2, KeptInOrder DEF IsNode
    <3>2. 1 \in DOMAIN known
      BY <2>2, <3>1, LenProperties, EmptySeq
    <3> QED
      BY <1>2, <2>2, <3>1, <3>2 DEF Seen
  <2> QED
    BY <2>1, <2>2
<1>4. ~IsAdaptor(node.id)
  BY <1>1, <1>2, AdaptorSpecs DEF IsNode
<1> HIDE DEF out, ins
<1>5. IsAssigned(nodes, position, out, nodes')
  BY <1>1, <1>2, <1>3, <1>4, AssignedAt
<1>6. FineWalk(nodes'[position])
  <2>1. nodes'[position].id = node.id /\ nodes'[position].op = node.op
    BY <1>1, <1>5 DEF IsAssigned, Retypes, Same
  <2>2. nodes'[position] \in NamesOf(nodes')
    BY <1>1, <1>5 DEF IsAssigned, NamesOf
  <2>3. WeakSoon(NamesOf(nodes'), InputPorts, Pend', nodes'[position].id)
    BY <1>1, <2>1, <2>2 DEF WeakSoon, Weak, Late
  <2> QED
    BY <1>1, <1>4, <2>1, <2>3 DEF FineWalk, NodeIsFine, Forever, HasExpectation
<1> QED
  BY <1>1, <1>5, <1>6, WalkKeepsFine

------------------------------------------------------------------------------
\* The dtypes as the walk types a node by its contract.

\* What an input of the node to be typed is bound to, and the error its slot
\* leaves when it does not fit.
SlotIs(n, spec, x, bound, E) ==
  LET type == ProducerType(n.inputs[x]) IN
  \/ /\ DTypesAgree(type, ExpectedType(spec, x, type))
     /\ bound[x].dtype # "Invalid"
  \/ /\ bound[x] = type
     /\ \E e \in E : e.hint = "" /\ e.slot = x
  \/ /\ bound[x] = type /\ DTypesAgree(type, ExpectedType(spec, x, type))
     /\ IsPending(E, n, x, "transpose")
  \/ /\ bound[x] = type /\ type.dtype # "Invalid"
     /\ IsPending(E, n, x, "cast")
\* What a slot is bound to once its contract was unified: what its source
\* delivers, or a type whose dtype a pending cast will supply.
LEMMA SlotsAre ==
  ASSUME TyperInv, stage = "nodes", position \in DOMAIN nodes,
         NEW n, n = nodes[position], HasSpec(n.op),
         NEW spec, spec = LookupSpec(n.op),
         NEW slots, slots = UnifiedSlots(n, spec),
         NEW bound, bound = BoundInputs(n, slots),
         NEW E, \A s \in DOMAIN slots : ~slots[s].ok => EdgeError(n, spec, slots, s) \in E,
         NEW x \in DOMAIN n.inputs
  PROVE  SlotIs(n, spec, x, bound, E)
<1> PICK type : type = ProducerType(n.inputs[x])
  OBVIOUS
<1> PICK expected : expected = ExpectedType(spec, x, type)
  OBVIOUS
<1> PICK e : e = EdgeError(n, spec, slots, x)
  OBVIOUS
<1>1. /\ DOMAIN slots = DOMAIN n.inputs
      /\ slots[x] = Unify(type, expected)
      /\ bound[x] = IF slots[x].ok THEN slots[x].type ELSE type
  BY DEF UnifiedSlots, BoundInputs
<1>2. e.consumer = n.id /\ e.slot = x /\ e.hint = slots[x].hint
  BY DEF EdgeError
<1>3. CASE slots[x].ok
  <2>0. slots[x] = Unify(type, expected)
    BY <1>1
  <2>u. Unify(type, expected).ok
    BY <1>3, <2>0
  <2>v. DTypesAgree(type, expected) /\ Unify(type, expected).type.dtype # "Invalid"
    BY <2>u, UnifyAnswers
  <2>1. DTypesAgree(type, expected) /\ slots[x].type.dtype # "Invalid"
    BY <2>0, <2>v
  <2> QED
    BY <1>1, <1>3, <2>1 DEF SlotIs
<1>4. CASE ~slots[x].ok
  <2>1. bound[x] = type /\ e \in E
    BY <1>1, <1>4
  <2>2. /\ slots[x].hint \in {"", "cast", "transpose"}
        /\ slots[x].hint = "cast" => ~DTypesAgree(type, expected)
        /\ slots[x].hint = "transpose" => DTypesAgree(type, expected)
    BY <1>1, UnifyAnswers
  <2>3. CASE slots[x].hint = ""
    BY <1>2, <2>1, <2>3 DEF SlotIs
  <2>4. CASE slots[x].hint = "cast"
    <3>1. type.dtype # "Invalid"
      BY <2>2, <2>4 DEF DTypesAgree
    <3>2. IsPending(E, n, x, "cast")
      BY <1>2, <2>1, <2>4 DEF IsPending
    <3> QED
      BY <2>1, <3>1, <3>2 DEF SlotIs
  <2>5. CASE slots[x].hint = "transpose"
    <3>1. IsPending(E, n, x, "transpose")
      BY <1>2, <2>1, <2>5 DEF IsPending
    <3> QED
      BY <2>1, <2>2, <2>5, <3>1 DEF SlotIs
  <2> QED
    BY <2>2, <2>3, <2>4, <2>5
<1> QED
  BY <1>3, <1>4

\* A node typed by its contract is fine: each of its slots agrees, is bound to
\* a cast, or starts at a weak source.
LEMMA TypeNodeMends ==
  ASSUME TyperInv, MendedInv, TypeNode, UNCHANGED runs
  PROVE  MendedInv'
<1> PICK node : node = nodes[position]
  OBVIOUS
<1> PICK spec : spec = LookupSpec(node.op)
  OBVIOUS
<1> PICK slots : slots = UnifiedSlots(node, spec)
  OBVIOUS
<1> PICK bound : bound = BoundInputs(node, slots)
  OBVIOUS
<1> PICK b : b = MergedBindings(slots)
  OBVIOUS
<1> PICK out : out = DeriveOutput(node, spec, bound, b).type
  OBVIOUS
<1> PICK more : more = SlotErrors(node, spec, slots)
  OBVIOUS
<1> PICK m : m = nodes'[position]
  OBVIOUS
<1> PICK F : F = NamesOf(edgeErrors')
  OBVIOUS
<1>1. /\ stage = "nodes" /\ position \in DOMAIN nodes /\ ~IsTyped(node) /\ HasSpec(node.op)
      /\ DeriveOutput(node, spec, bound, b).ok
      /\ nodes' = [nodes EXCEPT ![position].inputTypes = bound, ![position].outputType = out]
      /\ producerTypes' = Overlay(producerTypes, [n \in {nodes[position].id} |-> out])
      /\ position' = position + 1
      /\ edgeErrors' = edgeErrors \o more
      /\ UNCHANGED <<stage, round, boundary, executionDType, unresolved, disableSynthesis>>
  BY DEF TypeNode, Assign
<1>2. IsPort(out) /\ (IsAdaptor(node.id) => out.layout = node.outputType.layout)
  BY <1>1, DerivedFits
<1>3. /\ IsGraph(nodes, boundary) /\ IsNode(node) /\ PlainConfigs(NamesOf(nodes))
      /\ edgeErrors \in Seq(NamesOf(edgeErrors))
      /\ \A name \in NamesOf(boundary) : producerTypes[name] = InputPorts[name]
      /\ NamesOf(boundary) \subseteq DOMAIN producerTypes
      /\ runs > 0 /\ round > 0
  BY <1>1 DEF TyperInv, GraphInv, WalkInv, IsGraph, FrontInv, MendedInv
<1>4. IsAssigned(nodes, position, out, nodes')
  BY <1>1, <1>2, <1>3, AssignedAt
<1>5. /\ m.id = node.id /\ m.op = node.op /\ m.inputs = node.inputs /\ m.config = node.config
      /\ m.outputType = out /\ m \in NamesOf(nodes') /\ node \in NamesOf(nodes)
      /\ \A j \in DOMAIN nodes : j # position => nodes'[j] = nodes[j]
      /\ DOMAIN nodes' = DOMAIN nodes
  <2>0. Same(node, m)
    BY <1>1, <1>4 DEF IsAssigned, Retypes
  <2>1. /\ m.id = node.id /\ m.op = node.op /\ m.inputs = node.inputs /\ m.config = node.config
        /\ m.outputType = out /\ DOMAIN nodes' = DOMAIN nodes
        /\ \A j \in DOMAIN nodes : j # position => nodes'[j] = nodes[j]
    BY <1>4, <2>0 DEF IsAssigned, Same
  <2>2. m \in NamesOf(nodes') /\ node \in NamesOf(nodes)
    BY <1>1, <2>1 DEF NamesOf
  <2> QED
    BY <2>1, <2>2
<1>6. DOMAIN slots = DOMAIN node.inputs /\ DOMAIN bound = DOMAIN node.inputs
      /\ (bound # <<>> => IsPort(bound[1]) /\ 1 \in DOMAIN node.inputs)
  BY <1>1, BoundPorts
<1>7. IsErrorList(node, spec, slots, more)
  <2>1. node.inputs \in Seq(NamesOf(node.inputs))
    BY <1>3 DEF IsNode
  <2> QED
    BY <1>6, <2>1, SlotErrorsAre
<1>8. F = NamesOf(edgeErrors) \cup NamesOf(more)
  <2> PICK S : S = NamesOf(edgeErrors) \cup NamesOf(more)
    OBVIOUS
  <2> PICK all : all = edgeErrors \o more
    OBVIOUS
  <2>1. more \in Seq(NamesOf(more))
    BY <1>7 DEF IsErrorList
  <2>2. edgeErrors \in Seq(S) /\ more \in Seq(S)
    BY <1>3, <2>1, LenProperties, SeqDef
  <2>3. /\ DOMAIN edgeErrors = 1 .. Len(edgeErrors) /\ Len(edgeErrors) \in Nat
        /\ DOMAIN more = 1 .. Len(more) /\ Len(more) \in Nat
        /\ DOMAIN all = 1 .. Len(edgeErrors) + Len(more)
        /\ \A i \in 1 .. Len(edgeErrors) : all[i] = edgeErrors[i]
        /\ \A i \in DOMAIN all : i > Len(edgeErrors) => /\ i - Len(edgeErrors) \in DOMAIN more
                                                        /\ all[i] = more[i - Len(edgeErrors)]
    <3>1. /\ DOMAIN edgeErrors = 1 .. Len(edgeErrors) /\ Len(edgeErrors) \in Nat
          /\ DOMAIN more = 1 .. Len(more) /\ Len(more) \in Nat
      BY <2>2, LenProperties
    <3>2. /\ DOMAIN all = 1 .. Len(edgeErrors) + Len(more)
          /\ \A i \in 1 .. Len(edgeErrors) : all[i] = edgeErrors[i]
          /\ \A i \in DOMAIN all : i > Len(edgeErrors) => /\ i - Len(edgeErrors) \in DOMAIN more
                                                          /\ all[i] = more[i - Len(edgeErrors)]
      BY <2>2, JoinedPositions
    <3> QED
      BY <3>1, <3>2
  <2>4. \A i \in DOMAIN edgeErrors : i \in DOMAIN all /\ all[i] = edgeErrors[i]
    BY <2>3
  <2>5. \A i \in DOMAIN more : /\ Len(edgeErrors) + i \in DOMAIN all
                               /\ all[Len(edgeErrors) + i] = more[i]
    <3> SUFFICES ASSUME NEW i \in DOMAIN more
                 PROVE  /\ Len(edgeErrors) + i \in DOMAIN all
                        /\ all[Len(edgeErrors) + i] = more[i]
      OBVIOUS
    <3>1. /\ Len(edgeErrors) + i \in DOMAIN all /\ Len(edgeErrors) + i > Len(edgeErrors)
          /\ (Len(edgeErrors) + i) - Len(edgeErrors) = i
      BY <2>3
    <3>2. PICK k : k = Len(edgeErrors) + i
      OBVIOUS
    <3>3. k \in DOMAIN all /\ k > Len(edgeErrors) /\ k - Len(edgeErrors) = i
      BY <3>1, <3>2
    <3>4. all[k] = more[k - Len(edgeErrors)]
      BY <2>3, <3>3
    <3> QED
      BY <3>2, <3>3, <3>4
  <2>6. \A i \in DOMAIN all : \/ i \in DOMAIN edgeErrors /\ all[i] = edgeErrors[i]
                              \/ /\ i - Len(edgeErrors) \in DOMAIN more
                                 /\ all[i] = more[i - Len(edgeErrors)]
    BY <2>3
  <2>7. NamesOf(all) \subseteq S
    BY <2>6 DEF NamesOf
  <2>8. NamesOf(edgeErrors) \subseteq NamesOf(all)
    BY <2>4 DEF NamesOf
  <2>9. NamesOf(more) \subseteq NamesOf(all)
    <3> SUFFICES ASSUME NEW i \in DOMAIN more
                 PROVE  \E k \in DOMAIN all : all[k] = more[i]
      BY DEF NamesOf
    <3> PICK k : k = Len(edgeErrors) + i
      OBVIOUS
    <3> QED
      BY <2>5
  <2> QED
    BY <1>1, <2>7, <2>8, <2>9
<1>9. \A s \in DOMAIN slots : ~slots[s].ok => EdgeError(node, spec, slots, s) \in F
  <2> SUFFICES ASSUME NEW s \in DOMAIN slots, ~slots[s].ok
               PROVE  EdgeError(node, spec, slots, s) \in F
    OBVIOUS
  <2>1. EdgeError(node, spec, slots, s) \in NamesOf(more)
    BY <1>7, ErrorOfSlot
  <2> QED
    BY <1>8, <2>1
<1>10. \A x \in DOMAIN node.inputs : SlotIs(node, spec, x, bound, F)
  BY <1>1, <1>9, SlotsAre
<1>11. \A e \in F : e \in NamesOf(edgeErrors)
          \/ (e.producer \in NamesOf(boundary) => e.producerType = InputPorts[e.producer])
  <2> SUFFICES ASSUME NEW e \in NamesOf(more), e.producer \in NamesOf(boundary)
               PROVE  e.producerType = InputPorts[e.producer]
    BY <1>8
  <2>1. PICK s \in DOMAIN node.inputs : e = EdgeError(node, spec, slots, s)
    BY <1>7 DEF IsErrorList, NamesOf
  <2>2. e.producerType = ProducerType(e.producer)
    BY <2>1 DEF EdgeError
  <2> QED
    BY <1>3, <2>2 DEF ProducerType
<1>12. Pend = NamesOf(edgeErrors) /\ Pend' = F
  BY <1>1 DEF Pend
<1>13. ASSUME AllFine(NamesOf(nodes), Unseen, InputPorts, Pend), ~Doomed'
       PROVE  NodeIsFine(NamesOf(nodes'), Unseen \ {node.id}, InputPorts, F, m)
  <2> PICK M : M = NamesOf(nodes')
    OBVIOUS
  <2>1. \A e \in F : e.hint # ""
    BY <1>12, <1>13 DEF Doomed
  <2>2. IsDerivedType(node, spec, bound, out)
    BY <1>1, <1>6, SpecsAreSpecs, DeriveOutputIs
  <2>3. Forever(m) => ~IsTyped(m)
    BY <1>5, <2>2 DEF Forever, IsTyped, IsDerivedType
  <2>4. m.id \notin Unseen \ {node.id}
    BY <1>5
  <2>5. ASSUME IsAdaptor(m.id)
        PROVE  ~IsAdaptor(m.inputs[1]) /\ WeakSoon(M, InputPorts, F, m.inputs[1])
    <3>1. NodeIsFine(NamesOf(nodes), Unseen, InputPorts, Pend, node)
      BY <1>5, <1>13 DEF AllFine
    <3>2. ~IsAdaptor(node.inputs[1]) /\ WeakSoon(NamesOf(nodes), InputPorts, Pend, node.inputs[1])
      BY <1>1, <1>5, <2>5, <3>1 DEF NodeIsFine
    <3>3. \A i \in DOMAIN nodes : nodes[i].id \notin Unseen =>
            \A s \in DOMAIN nodes[i].inputs : nodes[i].inputs[s] \notin Unseen
      BY <1>1, <1>3, SeenReadsSeen
    <3>4. Types(nodes, position, out, nodes', boundary, Pend, F, Unseen)
      BY <1>1, <1>3, <1>4, <1>8, <1>12, <3>3 DEF Types
    <3>5. Outlasts(NamesOf(nodes), M, Pend, F)
      BY <3>4, TypesOutlasts
    <3>6. WeakSoon(M, InputPorts, F, node.inputs[1])
      BY <3>2, <3>5, WeakLasts
    <3> QED
      BY <1>5, <3>2, <3>6
  <2>6. ASSUME ~IsAdaptor(m.id), ~IsTyped(m)
        PROVE  WeakSoon(M, InputPorts, F, m.id)
    <3>1. "dtype" \notin DOMAIN node.config
      BY <1>3, <1>5, <2>6 DEF PlainConfigs
    <3>3. out.dtype = "Invalid"
      BY <1>5, <2>6 DEF IsTyped
    <3>4. \/ spec.deriver = "none" /\ spec.output.dtype = "Invalid"
          \/ bound # <<>> /\ bound[1].dtype = "Invalid"
      BY <2>2, <3>1, <3>3 DEF IsDerivedType
    <3>5. CASE spec.deriver = "none" /\ spec.output.dtype = "Invalid"
      <4>1. Forever(m)
        BY <1>1, <1>5, <3>5 DEF Forever
      <4> QED
        BY <1>5, <4>1 DEF WeakSoon, Weak
    <3>6. CASE bound # <<>> /\ bound[1].dtype = "Invalid"
      <4>1. 1 \in DOMAIN node.inputs /\ SlotIs(node, spec, 1, bound, F)
        BY <1>6, <1>10, <3>6
      <4>2. IsPending(F, node, 1, "transpose")
        BY <2>1, <3>6, <4>1 DEF SlotIs
      <4> QED
        BY <1>5, <4>1, <4>2 DEF WeakSoon, IsPending
    <3> QED
      BY <3>4, <3>5, <3>6
  <2>7. ASSUME NEW s \in DOMAIN m.inputs, HasExpectation(m, s)
        PROVE  EdgeIsFine(M, InputPorts, F, m, s)
    <3> PICK type : type = ProducerType(node.inputs[s])
      OBVIOUS
    <3>1. SlotIs(node, spec, s, bound, F)
      BY <1>5, <1>10, <2>7
    <3>2. CASE IsPending(F, node, s, "cast")
      BY <1>5, <3>2 DEF EdgeIsFine, IsPending
    <3>3. CASE DTypesAgree(type, ExpectedType(spec, s, type))
      <4>1. spec.inputs[s] = Expected(m, s) /\ s \in DOMAIN spec.inputs /\ IsPort(spec.inputs[s])
        BY <1>1, <1>5, <2>7, SpecsAreSpecs DEF Expected, HasExpectation, IsSpec
      <4>2. ExpectedType(spec, s, type).dtype = Expected(m, s).dtype
        BY <4>1, ExpectedIs
      <4>3. DTypesAgree(type, Expected(m, s))
        BY <3>3, <4>2 DEF DTypesAgree
      <4>4. ASSUME NEW n \in M, n.id = m.inputs[s]
            PROVE  DTypesAgree(n.outputType, Expected(m, s))
        <5>1. PICK j \in DOMAIN nodes : n = nodes'[j]
          BY <1>5 DEF NamesOf
        <5>2. nodes[j].id = node.inputs[s]
          BY <1>4, <1>5, <4>4, <5>1 DEF IsAssigned, Retypes, Same
        <5>a. /\ position \in DOMAIN nodes /\ node = nodes[position]
              /\ j \in DOMAIN nodes /\ s \in DOMAIN node.inputs
              /\ stage = "nodes" /\ TyperInv
          BY <1>1, <1>5, <2>7
        <5>b. IsGraph(nodes, boundary)
          BY <1>3
        <5>3. j < position
          BY <5>2, <5>a, <5>b, ReadsComeFirst
        <5>p. j \in Nat /\ position \in Nat
          <6>1. DOMAIN nodes = 1 .. Len(nodes) /\ Len(nodes) \in Nat
            BY <5>b, LenProperties DEF IsGraph
          <6> QED
            BY <5>a, <6>1
        <5>4. j # position
          BY <5>3, <5>p
        <5>5. n = nodes[j] /\ n \in NamesOf(nodes)
          BY <1>5, <5>1, <5>4 DEF NamesOf
        <5>6. n.outputType = type
          <6>1. n.id = node.inputs[s]
            BY <1>5, <4>4
          <6> QED
            BY <5>5, <5>a, <6>1, ProducerTypes
        <5> QED
          BY <4>3, <5>6
      <4>5. ASSUME m.inputs[s] \in DOMAIN InputPorts
            PROVE  DTypesAgree(InputPorts[m.inputs[s]], Expected(m, s))
        <5>1. DOMAIN InputPorts = NamesOf(boundary)
          BY DEF InputPorts
        <5>2. type = InputPorts[node.inputs[s]]
          BY <1>3, <1>5, <4>5, <5>1 DEF ProducerType
        <5> QED
          BY <1>5, <4>3, <5>2
      <4> QED
        BY <4>4, <4>5 DEF EdgeIsFine, AgreesAt
    <3> QED
      BY <2>1, <3>1, <3>2, <3>3 DEF SlotIs
  <2> QED
    BY <2>3, <2>4, <2>5, <2>6, <2>7 DEF NodeIsFine
<1>14. AllFine(NamesOf(nodes), Unseen, InputPorts, Pend) => FineWalk(nodes'[position])
  BY <1>12, <1>13 DEF FineWalk
<1> QED
  BY <1>1, <1>4, <1>8, <1>11, <1>14, WalkKeepsFine

------------------------------------------------------------------------------
\* The dtypes as an adaptor is put on an edge.

\* The adaptor a was put on the edge into slot s of c; the errors E that were
\* open are now F: the error of that edge is gone.
MendsEdge(N, c, s, a, E, F, ports) ==
  /\ IsNodes(N) /\ Chained(N) /\ c \in N /\ ~IsAdaptor(c.id) /\ s \in DOMAIN c.inputs
  /\ Adapts(N, c, s, a)
  /\ \A p \in DOMAIN ports : ~IsAdaptor(p)
  /\ \A n \in N : \A k \in DOMAIN n.inputs : n.inputs[k] \in DOMAIN ports \cup IdsIn(N)
  /\ \A e \in E : e \in F \/ (e.consumer = c.id /\ e.slot = s /\ AdaptorID(e) = a.id)
  /\ DTypesAgree(a.outputType, Expected(c, s))
  /\ ~IsTyped(a) => /\ a.id = TransposeID(c, s)
                    /\ c.inputs[s] \in DOMAIN ports => ports[c.inputs[s]].dtype = "Invalid"

\* An adaptor on an edge loses no excuse: the error it answers is gone and its
\* ID is there instead.
LEMMA AdaptedOutlasts ==
  ASSUME NEW N, NEW c, NEW s, NEW a, NEW E, NEW F, NEW ports, MendsEdge(N, c, s, a, E, F, ports)
  PROVE  Outlasts(N, Adapted(N, c, s, a), E, F)
<1> PICK M : M = Adapted(N, c, s, a)
  OBVIOUS
<1> PICK r : r = Rewired(c, s, a)
  OBVIOUS
<1>1. /\ r.id = c.id /\ r.op = c.op /\ DOMAIN r.inputs = DOMAIN c.inputs
  BY RewiredIs DEF MendsEdge, IsNodes
<1>2. M = (N \ {c}) \cup {r, a}
  BY DEF Adapted
<1>3. IdsIn(M) = IdsIn(N) \cup {a.id}
  BY AdaptedIds DEF MendsEdge
<1>4. \A n \in N : \E m \in M : m.id = n.id /\ m.op = n.op /\ DOMAIN m.inputs = DOMAIN n.inputs
  BY <1>1, <1>2
<1>5. ASSUME NEW n \in N, IsPending(E, n, 1, "transpose")
      PROVE  IsPending(F, n, 1, "transpose") \/ TransposeID(n, 1) \in IdsIn(M)
  <2>1. PICK e \in E : e.hint = "transpose" /\ e.consumer = n.id /\ e.slot = 1
    BY <1>5 DEF IsPending
  <2>2. CASE e \in F
    BY <2>1, <2>2 DEF IsPending
  <2>3. CASE AdaptorID(e) = a.id
    <3>1. AdaptorID(e) = TransposeID(n, 1)
      BY <2>1 DEF AdaptorID, TransposeID
    <3> QED
      BY <1>3, <2>3, <3>1
  <2> QED
    BY <2>2, <2>3 DEF MendsEdge
<1> QED
  BY <1>3, <1>4, <1>5 DEF Outlasts

\* The other edges of non-adaptors.
LEMMA EdgeAdapted ==
  ASSUME NEW N, NEW c, NEW s, NEW a, NEW E, NEW F, NEW ports, MendsEdge(N, c, s, a, E, F, ports),
         NEW d \in N, ~IsAdaptor(d.id), NEW k \in DOMAIN d.inputs, d # c \/ k # s,
         EdgeIsFine(N, ports, E, d, k)
  PROVE  EdgeIsFine(Adapted(N, c, s, a), ports, F, IF d = c THEN Rewired(c, s, a) ELSE d, k)
<1> PICK M : M = Adapted(N, c, s, a)
  OBVIOUS
<1> PICK r : r = Rewired(c, s, a)
  OBVIOUS
<1> PICK n : n = IF d = c THEN r ELSE d
  OBVIOUS
<1>1. /\ r.id = c.id /\ r.op = c.op /\ r.outputType = c.outputType
      /\ DOMAIN r.inputs = DOMAIN c.inputs
      /\ \A j \in DOMAIN c.inputs : j # s => r.inputs[j] = c.inputs[j]
  BY RewiredIs DEF MendsEdge, IsNodes
<1>2. M = (N \ {c}) \cup {r, a}
  BY DEF Adapted
<1>3. n.id = d.id /\ n.op = d.op /\ n.inputs[k] = d.inputs[k]
  BY <1>1
<1>4. d.id # c.id \/ k # s
  BY DEF MendsEdge, IsNodes
<1>5. Expected(n, k) = Expected(d, k)
  BY <1>3 DEF Expected
<1>6. CASE AgreesAt(N, ports, d, k)
  <2>1. d.inputs[k] # a.id
    <3>1. d.inputs[k] \in DOMAIN ports \cup IdsIn(N) /\ a.id \notin IdsIn(N) /\ IsAdaptor(a.id)
      BY AdaptorIDs DEF MendsEdge, Adapts
    <3> QED
      BY <3>1 DEF MendsEdge
  <2>2. \A o \in M : o.id = d.inputs[k] => DTypesAgree(o.outputType, Expected(d, k))
    <3> SUFFICES ASSUME NEW o \in M, o.id = d.inputs[k]
                 PROVE  DTypesAgree(o.outputType, Expected(d, k))
      OBVIOUS
    <3>1. CASE o = r
      <4>1. c \in N /\ c.id = d.inputs[k]
        BY <1>1, <3>1 DEF MendsEdge
      <4> QED
        BY <1>1, <1>6, <3>1, <4>1 DEF AgreesAt
    <3>2. CASE o \in N
      BY <1>6, <3>2 DEF AgreesAt
    <3> QED
      BY <1>2, <2>1, <3>1, <3>2
  <2>3. AgreesAt(M, ports, n, k)
    BY <1>3, <1>5, <1>6, <2>2 DEF AgreesAt
  <2> QED
    BY <2>3 DEF EdgeIsFine
<1>7. CASE IsPending(E, d, k, "cast")
  <2>1. PICK e \in E : e.hint = "cast" /\ e.consumer = d.id /\ e.slot = k
    BY <1>7 DEF IsPending
  <2>2. e \in F
    BY <1>4, <2>1 DEF MendsEdge
  <2>3. IsPending(F, n, k, "cast")
    BY <1>3, <2>1, <2>2 DEF IsPending
  <2> QED
    BY <2>3 DEF EdgeIsFine
<1>8. ASSUME NEW p, SourceIs(N, d, k, p), WeakSoon(N, ports, E, p)
      PROVE  EdgeIsFine(M, ports, F, n, k)
  <2>1. SourceIs(M, n, k, p)
    BY <1>8, InsertedSource DEF MendsEdge
  <2>2. WeakSoon(M, ports, F, p)
    BY <1>8, AdaptedOutlasts, WeakLasts
  <2> QED
    BY <2>1, <2>2, WeakIsThere DEF EdgeIsFine
<1> QED
  BY <1>6, <1>7, <1>8 DEF EdgeIsFine

\* An adaptor on an edge leaves all nodes fine.
LEMMA AdaptedFine ==
  ASSUME NEW N, NEW c, NEW s, NEW a, NEW E, NEW F, NEW ports, MendsEdge(N, c, s, a, E, F, ports),
         AllFine(N, {}, ports, E)
  PROVE  AllFine(Adapted(N, c, s, a), {}, ports, F)
<1> PICK M : M = Adapted(N, c, s, a)
  OBVIOUS
<1> PICK r : r = Rewired(c, s, a)
  OBVIOUS
<1>1. /\ r.id = c.id /\ r.op = c.op /\ r.outputType = c.outputType
      /\ DOMAIN r.inputs = DOMAIN c.inputs /\ r.inputs[s] = a.id
  BY RewiredIs DEF MendsEdge, IsNodes
<1>2. M = (N \ {c}) \cup {r, a}
  BY DEF Adapted
<1>3. \A p : WeakSoon(N, ports, E, p) => WeakSoon(M, ports, F, p)
  BY AdaptedOutlasts, WeakLasts
<1>4. \A n \in N : NodeIsFine(N, {}, ports, E, n)
  BY DEF AllFine
<1>5. /\ IsNodes(N) /\ c \in N /\ ~IsAdaptor(c.id) /\ s \in DOMAIN c.inputs
      /\ IsNode(a) /\ HasExpectation(c, s) /\ a.id \in {CastID(c, s), TransposeID(c, s)}
      /\ a.id \notin IdsIn(N) /\ IsAdaptor(a.id) /\ a.inputs = <<c.inputs[s]>>
      /\ \A p \in DOMAIN ports : ~IsAdaptor(p)
      /\ c.inputs[s] \in DOMAIN ports \cup IdsIn(N)
      /\ Chain(N, c, s)
  BY AdaptorIDs DEF MendsEdge, Adapts, Chained
<1>6. NodeIsFine(M, {}, ports, F, a)
  <2>1. ~Forever(a)
    <3>1. a.op \in {"shape.cast", "shape.transpose"}
      BY <1>5 DEF IsNode
    <3>2. LookupSpec(a.op).deriver # "none"
      BY <3>1, AdaptorSpecs
    <3> QED
      BY <3>2 DEF Forever
  <2>2. ASSUME ~IsTyped(a)
        PROVE  ~IsAdaptor(a.inputs[1]) /\ WeakSoon(M, ports, F, a.inputs[1])
    <3> PICK q : q = c.inputs[s]
      OBVIOUS
    <3>1. a.inputs[1] = q /\ a.id = TransposeID(c, s)
      BY <1>5, <2>2 DEF MendsEdge
    <3>2. CASE q \in DOMAIN ports
      <4>1. ports[q].dtype = "Invalid"
        BY <2>2, <3>2 DEF MendsEdge
      <4> QED
        BY <1>5, <3>1, <3>2, <4>1 DEF WeakSoon, Weak
    <3>3. ASSUME NEW n \in N, n.id = q
          PROVE  ~IsAdaptor(q) /\ WeakSoon(M, ports, F, q)
      <4>1. a.outputType.dtype = n.outputType.dtype
        BY <3>1, <3>3 DEF MendsEdge, Adapts
      <4>2. ~IsTyped(n)
        BY <2>2, <4>1 DEF IsTyped
      <4>3. ~IsAdaptor(n.id)
        <5> SUFFICES ASSUME IsAdaptor(n.id)
                     PROVE  FALSE
          OBVIOUS
        <5>1. Mends(N, c, s, n)
          <6>1. ~IsPlain(N, c, s)
            BY <3>3 DEF IsPlain
          <6>2. PICK o \in N : o.id = c.inputs[s] /\ Mends(N, c, s, o)
            BY <1>5, <6>1 DEF Chain, IsMended, IsMendedTwice
          <6>3. o = n
            BY <1>5, <3>3, <6>2 DEF IsNodes
          <6> QED
            BY <6>2, <6>3
        <5>2. n.id = CastID(c, s)
          BY <1>5, <3>1, <5>1 DEF Mends, IdsIn
        <5>3. CastID(c, s) \in IdsIn(N)
          BY <5>2 DEF IdsIn
        <5> QED
          BY <4>2, <5>1, <5>3 DEF Mends, IsTyped
      <4>4. WeakSoon(N, ports, E, n.id)
        BY <1>4, <4>2, <4>3 DEF NodeIsFine
      <4> QED
        BY <1>3, <3>3, <4>3, <4>4
    <3> QED
      BY <1>5, <3>1, <3>2, <3>3 DEF IdsIn
  <2> QED
    BY <1>5, <2>1, <2>2 DEF NodeIsFine
<1>7. ASSUME NEW d \in N
      PROVE  NodeIsFine(M, {}, ports, F, IF d = c THEN r ELSE d)
  <2> PICK n : n = IF d = c THEN r ELSE d
    OBVIOUS
  <2>1. /\ n.id = d.id /\ n.op = d.op /\ n.outputType = d.outputType
        /\ DOMAIN n.inputs = DOMAIN d.inputs
        /\ IsAdaptor(d.id) => n.inputs = d.inputs
    BY <1>1, <1>5
  <2>2. /\ Forever(n) <=> Forever(d)
        /\ IsTyped(n) <=> IsTyped(d)
        /\ \A x : HasExpectation(n, x) <=> HasExpectation(d, x)
    BY <2>1 DEF Forever, IsTyped, HasExpectation
  <2>3. NodeIsFine(N, {}, ports, E, d)
    BY <1>4
  <2>4. ASSUME ~IsAdaptor(d.id), NEW k \in DOMAIN d.inputs, HasExpectation(d, k)
        PROVE  EdgeIsFine(M, ports, F, n, k)
    <3>1. EdgeIsFine(N, ports, E, d, k)
      BY <2>3, <2>4 DEF NodeIsFine
    <3>2. CASE d # c \/ k # s
      BY <2>4, <3>1, <3>2, EdgeAdapted
    <3>3. CASE d = c /\ k = s
      <4>1. n = r /\ Expected(r, s) = Expected(c, s)
        BY <1>1, <3>3 DEF Expected
      <4>2. \A o \in M : o.id = a.id => o = a
        BY <1>1, <1>2, <1>5 DEF IdsIn
      <4>3. AgreesAt(M, ports, r, s)
        BY <1>1, <1>5, <4>1, <4>2 DEF AgreesAt, MendsEdge
      <4> QED
        BY <3>3, <4>1, <4>3 DEF EdgeIsFine
    <3> QED
      BY <3>2, <3>3
  <2>5. /\ Forever(d) => ~IsTyped(d)
        /\ IsAdaptor(d.id) /\ ~IsTyped(d) =>
             ~IsAdaptor(d.inputs[1]) /\ WeakSoon(M, ports, F, d.inputs[1])
        /\ ~IsAdaptor(d.id) /\ ~IsTyped(d) => WeakSoon(M, ports, F, d.id)
    BY <1>3, <2>3 DEF NodeIsFine
  <2>6. NodeIsFine(M, {}, ports, F, n)
    BY <2>1, <2>2, <2>4, <2>5 DEF NodeIsFine
  <2> QED
    BY <2>6
<1>8. \A m \in M : m = a \/ \E d \in N : m = IF d = c THEN r ELSE d
  BY <1>2, <1>5
<1> QED
  BY <1>6, <1>7, <1>8 DEF AllFine

------------------------------------------------------------------------------
\* The dtypes in the other steps.

\* Inserting an adaptor preserves the invariant.
LEMMA AdaptorMends ==
  ASSUME TyperInv, MendedInv, InsertAdaptor, UNCHANGED runs
  PROVE  MendedInv'
<1> PICK N : N = NamesOf(nodes)
  OBVIOUS
<1> PICK e : e = edgeErrors[position]
  OBVIOUS
<1>1. /\ stage = "synthesis" /\ stage' = stage /\ position' = position + 1
      /\ position \in DOMAIN edgeErrors /\ e.hint # ""
      /\ edgeErrors' = edgeErrors
      /\ UNCHANGED <<boundary, executionDType, disableSynthesis, round, unresolved, runs>>
  BY DEF InsertAdaptor, inferVars
<1>2. PICK c, i, s, a : IsMending(c, i, s, a)
  BY InsertAdaptorMends
<1>3. /\ i \in DOMAIN nodes /\ c = nodes[i] /\ c \in N /\ ~IsAdaptor(c.id) /\ s \in DOMAIN c.inputs
      /\ c.id = e.consumer /\ s = e.slot
      /\ IsAdaptorFor(e, a)
      /\ Adapts(N, c, s, a)
      /\ NamesOf(nodes') = Adapted(N, c, s, a)
  BY <1>2 DEF IsMending, NamesOf
<1>4. /\ IsGraph(nodes, boundary) /\ Chained(N) /\ IsNodes(N)
      /\ position \in Nat \ {0}
      /\ edgeErrors \in Seq(NamesOf(edgeErrors)) /\ EdgesDiffer(edgeErrors)
      /\ ErrorsOf(nodes, Len(nodes) + 1, edgeErrors, position)
      /\ DOMAIN edgeErrors = 1 .. Len(edgeErrors) /\ Len(edgeErrors) \in Nat
  BY <1>1, GraphNodes, LenProperties DEF TyperInv, GraphInv, WalkInv
<1>5. ErrorOf(N, c, e)
  <2>1. position >= position
    BY <1>4
  <2>2. PICK k \in DOMAIN nodes : ErrorOf(N, nodes[k], e)
    BY <1>1, <1>4, <2>1 DEF ErrorsOf
  <2>3. k = i
    BY <1>3, <1>4, <2>2 DEF ErrorOf, IsGraph
  <2> QED
    BY <1>3, <2>2, <2>3
<1>6. /\ e.producer = c.inputs[s] /\ e.hint \in {"cast", "transpose"}
      /\ e.expectedType.dtype = Expected(c, s).dtype
      /\ e.hint = "cast" => Expected(c, s).dtype # "Invalid"
      /\ e.hint = "transpose" => DTypesAgree(e.producerType, Expected(c, s))
  BY <1>1, <1>3, <1>5 DEF ErrorOf, Misses
<1>7. /\ InputPorts' = InputPorts /\ DOMAIN InputPorts = NamesOf(boundary)
      /\ runs \in Nat /\ round \in Nat /\ runs > 0 /\ round > 0
      /\ \A f \in Pend : f.producer \in NamesOf(boundary) => f.producerType = InputPorts[f.producer]
  BY <1>1, InputPortsUnchanged DEF MendedInv, InputPorts
<1>8. Unseen = {} /\ Unseen' = {}
  <2>1. round \in Nat /\ round > 0
    BY <1>7
  <2>2. round # 0
    BY <2>1
  <2> QED
    BY <1>1, <2>2 DEF Unseen
<1>9. /\ e \in Pend /\ Pend' \subseteq Pend
      /\ \A f \in Pend : f \in Pend' \/ f = e
  <2>1. Pend = {edgeErrors[j] : j \in {k \in DOMAIN edgeErrors : k >= position}}
    BY <1>1 DEF Pend
  <2>2. Pend' = {edgeErrors[j] : j \in {k \in DOMAIN edgeErrors : k >= position + 1}}
    BY <1>1 DEF Pend
  <2>3. \A k \in DOMAIN edgeErrors : k >= position <=> (k >= position + 1 \/ k = position)
    BY <1>4
  <2> QED
    BY <1>1, <2>1, <2>2, <2>3
<1>10. Doomed => Doomed'
  BY <1>1, <1>9 DEF Doomed
<1>11. MendsEdge(N, c, s, a, Pend, Pend', InputPorts)
  <2>1. \A n \in N : \A k \in DOMAIN n.inputs : n.inputs[k] \in DOMAIN InputPorts \cup IdsIn(N)
    <3> SUFFICES ASSUME NEW j \in DOMAIN nodes, NEW k \in DOMAIN nodes[j].inputs
                 PROVE  nodes[j].inputs[k] \in NamesOf(boundary) \cup IdsIn(N)
      BY <1>7 DEF NamesOf
    <3>1. \/ nodes[j].inputs[k] \in NamesOf(boundary)
          \/ \E m \in 1 .. j - 1 : nodes[m].id = nodes[j].inputs[k]
      BY <1>4 DEF IsGraph, IsOrdered
    <3>2. \A m \in 1 .. j - 1 : m \in DOMAIN nodes
      BY <1>4, LenProperties DEF IsGraph
    <3> QED
      BY <3>1, <3>2 DEF IdsIn, NamesOf
  <2>2. \A p \in DOMAIN InputPorts : ~IsAdaptor(p)
    BY <1>4, <1>7 DEF IsGraph
  <2>3. \A f \in Pend : f \in Pend' \/ (f.consumer = c.id /\ f.slot = s /\ AdaptorID(f) = a.id)
    BY <1>3, <1>9 DEF IsAdaptorFor
  <2>4. DTypesAgree(a.outputType, Expected(c, s))
    BY <1>3, <1>6 DEF IsAdaptorFor, DTypesAgree
  <2>5. ~IsTyped(a) => /\ a.id = TransposeID(c, s)
                       /\ c.inputs[s] \in DOMAIN InputPorts =>
                            InputPorts[c.inputs[s]].dtype = "Invalid"
    <3> SUFFICES ASSUME ~IsTyped(a)
                 PROVE  /\ a.id = TransposeID(c, s)
                        /\ c.inputs[s] \in DOMAIN InputPorts =>
                            InputPorts[c.inputs[s]].dtype = "Invalid"
      OBVIOUS
    <3>1. e.hint = "transpose"
      BY <1>3, <1>6 DEF IsAdaptorFor, IsTyped
    <3>2. a.id = TransposeID(c, s)
      BY <1>3, <3>1 DEF IsAdaptorFor, AdaptorID, TransposeID
    <3>3. e.producerType.dtype = "Invalid"
      BY <1>3, <3>1 DEF IsAdaptorFor, IsTyped
    <3> QED
      BY <1>6, <1>7, <1>9, <3>2, <3>3
  <2> QED
    BY <1>3, <1>4, <2>1, <2>2, <2>3, <2>4, <2>5 DEF MendsEdge
<1>12. ASSUME ~disableSynthesis, ~Doomed'
       PROVE  AllFine(NamesOf(nodes'), Unseen', InputPorts, Pend')
  <2>1. AllFine(N, {}, InputPorts, Pend)
    BY <1>1, <1>7, <1>8, <1>10, <1>12 DEF MendedInv
  <2> QED
    BY <1>3, <1>8, <1>11, <2>1, AdaptedFine
<1> QED
  BY <1>1, <1>7, <1>9, <1>12 DEF MendedInv

\* A round starts with what the earlier ones left behind.
LEMMA BeginInferMends ==
  ASSUME TyperInv, MendedInv, BeginInfer, UNCHANGED runs
  PROVE  MendedInv'
<1>1. /\ stage = "infer" /\ stage' = "nodes" /\ position' = 1 /\ round' = round + 1
      /\ producerTypes' = [name \in NamesOf(boundary) |-> GraphInputPortType(name)]
      /\ edgeErrors' = <<>> /\ unresolved' = unresolved
      /\ UNCHANGED <<nodes, boundary, executionDType, disableSynthesis, runs>>
  BY DEF BeginInfer, graphVars
<1>2. InputPorts' = InputPorts /\ \A name \in NamesOf(boundary) : producerTypes'[name] = InputPorts[name]
  BY <1>1, InputPortsUnchanged DEF InputPorts
<1>3. runs \in Nat /\ round \in Nat /\ runs > 0
  BY <1>1 DEF MendedInv
<1>4. Pend = {} /\ Pend' = {}
  BY <1>1 DEF Pend, NamesOf
<1>5. Unseen' = Unseen
  <2>1. CASE runs = 1 /\ round = 0
    <3>1. Unseen' = {nodes[i].id : i \in {k \in DOMAIN nodes : k >= 1}}
      BY <1>1, <2>1 DEF Unseen
    <3>2. \A k \in DOMAIN nodes : k >= 1
      BY LenProperties DEF TyperInv, GraphInv, IsGraph
    <3>3. Unseen = IdsIn(NamesOf(nodes))
      BY <2>1 DEF Unseen
    <3> QED
      BY <3>1, <3>2, <3>3 DEF IdsIn, NamesOf
  <2>2. CASE ~(runs = 1 /\ round = 0)
    <3>1. ~(runs = 1 /\ round' = 1) /\ ~(runs = 1 /\ round' = 0)
      BY <1>1, <1>3, <2>2 DEF MendedInv
    <3> QED
      BY <1>1, <2>2, <3>1 DEF Unseen
  <2> QED
    BY <2>1, <2>2
<1> QED
  BY <1>1, <1>2, <1>3, <1>4, <1>5 DEF MendedInv, Doomed

\* At the end of the first round every node was seen, and its errors are open.
LEMMA FinishInferMends ==
  ASSUME TyperInv, MendedInv, FinishInfer, UNCHANGED runs
  PROVE  MendedInv'
<1>1. /\ stage = "nodes" /\ position > Len(nodes) /\ position' = 1
      /\ stage' = IF edgeErrors = <<>> \/ disableSynthesis THEN "typed" ELSE "synthesis"
      /\ unresolved' = IF disableSynthesis THEN edgeErrors ELSE <<>>
      /\ UNCHANGED <<nodes, boundary, executionDType, disableSynthesis, round, edgeErrors, runs>>
  BY DEF FinishInfer, inferVars
<1>2. InputPorts' = InputPorts
  BY <1>1, InputPortsUnchanged
<1>3. /\ runs \in Nat /\ round \in Nat /\ runs > 0 /\ round > 0
      /\ \A e \in Pend : e.producer \in NamesOf(boundary) => e.producerType = InputPorts[e.producer]
  BY <1>1 DEF MendedInv
<1>4. /\ DOMAIN nodes = 1 .. Len(nodes) /\ Len(nodes) \in Nat /\ position \in Nat
      /\ DOMAIN edgeErrors = 1 .. Len(edgeErrors) /\ Len(edgeErrors) \in Nat
  BY <1>1, LenProperties DEF TyperInv, GraphInv, IsGraph, WalkInv
<1>5. Unseen = {} /\ Unseen' = {}
  <2>1. {k \in DOMAIN nodes : k >= position} = {}
    BY <1>1, <1>4
  <2> QED
    BY <1>1, <1>3, <2>1 DEF Unseen
<1>6. Pend = NamesOf(edgeErrors) /\ Pend' \subseteq Pend /\ (~disableSynthesis => Pend' = Pend)
  <2>1. Pend = NamesOf(edgeErrors)
    BY <1>1 DEF Pend
  <2>2. CASE stage' = "synthesis"
    <3>1. \A k \in DOMAIN edgeErrors : k >= 1
      BY <1>4
    <3>2. Pend' = {edgeErrors[j] : j \in {k \in DOMAIN edgeErrors : k >= 1}}
      BY <1>1, <2>2 DEF Pend
    <3> QED
      BY <2>1, <3>1, <3>2 DEF NamesOf
  <2>3. CASE stage' = "typed"
    <3>1. Pend' = {} /\ (~disableSynthesis => edgeErrors = <<>>)
      BY <1>1, <2>3 DEF Pend
    <3> QED
      BY <2>1, <3>1 DEF NamesOf
  <2> QED
    BY <1>1, <2>1, <2>2, <2>3
<1> QED
  BY <1>1, <1>2, <1>3, <1>5, <1>6 DEF MendedInv, Doomed

\* An error that is left unresolved has no hint, so the typer will stop.
LEMMA SynthesisMends ==
  ASSUME TyperInv, MendedInv, LeaveUnresolved \/ FinishSynthesis, UNCHANGED runs
  PROVE  MendedInv'
<1>1. /\ stage = "synthesis"
      /\ UNCHANGED <<nodes, boundary, executionDType, disableSynthesis, round, edgeErrors, runs>>
  BY DEF LeaveUnresolved, FinishSynthesis, inferVars, graphVars
<1>2. InputPorts' = InputPorts
  BY <1>1, InputPortsUnchanged
<1>3. /\ runs \in Nat /\ round \in Nat /\ runs > 0 /\ round > 0
      /\ \A e \in Pend : e.producer \in NamesOf(boundary) => e.producerType = InputPorts[e.producer]
  BY <1>1 DEF MendedInv
<1>4. /\ edgeErrors \in Seq(NamesOf(edgeErrors)) /\ position \in Nat
      /\ DOMAIN edgeErrors = 1 .. Len(edgeErrors) /\ Len(edgeErrors) \in Nat
  BY <1>1, LenProperties DEF TyperInv, WalkInv
<1>5. Pend = {edgeErrors[j] : j \in {k \in DOMAIN edgeErrors : k >= position}}
  BY <1>1 DEF Pend
<1>6. Unseen = {}
  BY <1>1, <1>3 DEF Unseen
<1>7. CASE LeaveUnresolved
  <2>1. /\ stage' = "synthesis" /\ position' = position + 1
        /\ unresolved' = Append(unresolved, edgeErrors[position])
    BY <1>1, <1>7 DEF LeaveUnresolved
  <2>2. Pend' = {edgeErrors[j] : j \in {k \in DOMAIN edgeErrors : k >= position + 1}}
    BY <1>1, <2>1 DEF Pend
  <2>3. Pend' \subseteq Pend
    BY <1>4, <1>5, <2>2
  <2>4. unresolved' # <<>>
    BY <2>1
  <2> QED
    BY <1>1, <1>2, <1>3, <2>1, <2>3, <2>4 DEF MendedInv, Doomed
<1>8. CASE FinishSynthesis
  <2>1. /\ stage' \in {"hard failure", "unconverged", "infer"}
        /\ unresolved' = unresolved /\ position > Len(edgeErrors)
        /\ stage' = "infer" => unresolved = <<>>
    BY <1>8 DEF FinishSynthesis
  <2>2. Pend = {} /\ Pend' = {}
    <3> PICK last \in Nat : last = Len(edgeErrors)
      BY <1>4
    <3>0. position > last /\ position \in Nat /\ DOMAIN edgeErrors = 1 .. last
      BY <1>4, <2>1
    <3>1. \A k \in DOMAIN edgeErrors : ~(k >= position)
      BY <3>0
    <3> QED
      BY <1>5, <2>1, <3>1 DEF Pend
  <2>3. Unseen' = {}
    <3>1. round \in Nat /\ round > 0
      BY <1>3
    <3>2. round # 0
      BY <3>1
    <3> QED
      BY <1>1, <2>1, <3>2 DEF Unseen
  <2>4. stage' = "infer" /\ ~disableSynthesis => AllFine(NamesOf(nodes), {}, InputPorts, {})
    BY <1>1, <1>3, <1>6, <2>1, <2>2 DEF MendedInv, Doomed
  <2> QED
    BY <1>1, <1>2, <1>3, <2>1, <2>2, <2>3, <2>4 DEF MendedInv
<1> QED
  BY <1>7, <1>8

\* A second run of the typer starts with a graph the first one has typed.
LEMMA BetweenMends ==
  ASSUME TyperInv, MendedInv,
         RunTyper \/ SkipTyper \/ OptimizeAndRetype \/ SkipOptimizer \/ ValidateOps \/ MergeBindings
  PROVE  MendedInv'
<1>1. UNCHANGED <<nodes, boundary, executionDType, disableSynthesis>>
  BY DEF RunTyper, SkipTyper, OptimizeAndRetype, SkipOptimizer, ValidateOps, MergeBindings,
         StartRun, graphVars, loweringVars
<1>2. /\ stage \in {"bound", "typed", "checked", "valid"}
      /\ stage' \in {"infer", "checked", "valid", "unsupported", "conflict", "planned"}
  BY DEF RunTyper, SkipTyper, OptimizeAndRetype, SkipOptimizer, ValidateOps, MergeBindings,
         StartRun
<1>3. InputPorts' = InputPorts
  BY <1>1, InputPortsUnchanged
<1>4. Pend = {} /\ Pend' = {}
  BY <1>2 DEF Pend
<1>5. runs \in Nat /\ round \in Nat
  BY DEF MendedInv
<1>6. CASE RunTyper
  <2>1. stage = "bound" /\ stage' = "infer" /\ runs' = 1 /\ round' = 0 /\ unresolved' = <<>>
    BY <1>6 DEF RunTyper, StartRun
  <2>2. \A n \in NamesOf(nodes) : IsFresh(n)
    BY <2>1 DEF TyperInv, FrontInv
  <2>3. Unseen' = IdsIn(NamesOf(nodes))
    BY <1>1, <2>1 DEF Unseen
  <2>4. AllFine(NamesOf(nodes), Unseen', InputPorts, {})
    <3> SUFFICES ASSUME NEW n \in NamesOf(nodes)
                 PROVE  NodeIsFine(NamesOf(nodes), Unseen', InputPorts, {}, n)
      BY DEF AllFine
    <3>1. n.id \in Unseen' /\ ~IsTyped(n) /\ ~IsAdaptor(n.id)
      BY <2>2, <2>3 DEF IsFresh, IdsIn
    <3> QED
      BY <3>1 DEF NodeIsFine
  <2> QED
    BY <1>1, <1>3, <1>4, <2>1, <2>4 DEF MendedInv
<1>7. CASE OptimizeAndRetype
  <2>1. stage = "typed" /\ runs = 1 /\ stage' = "infer" /\ runs' = 2 /\ round' = 0 /\ unresolved' = <<>>
    BY <1>7 DEF OptimizeAndRetype, StartRun
  <2>2. Unseen' = {}
    BY <2>1 DEF Unseen
  <2>3. round > 0 /\ Unseen = {}
    BY <2>1 DEF MendedInv, Unseen
  <2>4. ~disableSynthesis => AllFine(NamesOf(nodes), {}, InputPorts, {})
    BY <1>4, <2>1, <2>3 DEF MendedInv, Doomed
  <2> QED
    BY <1>1, <1>3, <1>4, <2>1, <2>2, <2>4 DEF MendedInv
<1>8. CASE SkipTyper
  <2>1. stage = "bound" /\ stage' = "checked" /\ runs' = runs /\ round' = round
    BY <1>8 DEF SkipTyper
  <2>2. runs = 0
    BY <2>1 DEF MendedInv
  <2> QED
    BY <1>4, <1>5, <2>1, <2>2 DEF MendedInv
<1>9. CASE SkipOptimizer \/ ValidateOps \/ MergeBindings
  <2>1. /\ stage \in {"typed", "checked", "valid"}
        /\ stage' \in {"checked", "valid", "unsupported", "conflict", "planned"}
        /\ UNCHANGED <<runs, round, unresolved>>
        /\ stage = "typed" => runs > 0
    BY <1>9 DEF SkipOptimizer, ValidateOps, MergeBindings, MendedInv
  <2>2. runs > 0 => round > 0
    BY <2>1 DEF MendedInv
  <2>3. runs > 0 => Unseen = {} /\ Unseen' = {}
    BY <1>1, <1>5, <2>1, <2>2 DEF Unseen
  <2>4. runs > 0 /\ ~disableSynthesis =>
          unresolved = <<>> /\ AllFine(NamesOf(nodes), {}, InputPorts, {})
    BY <1>4, <2>1, <2>3 DEF MendedInv, Doomed
  <2> QED
    BY <1>1, <1>3, <1>4, <1>5, <2>1, <2>2, <2>3, <2>4 DEF MendedInv
<1> QED
  BY <1>6, <1>7, <1>8, <1>9

\* Before the typer runs there is nothing to show.
LEMMA LoweringMends ==
  ASSUME MendedInv, LoweringNext, UNCHANGED <<runs, round>>
  PROVE  MendedInv'
<1>1. /\ stage \in {"expand", "lower", "bind"}
      /\ stage' \in {"expand", "lower", "bind", "bound", "not expanded", "not lowered", "not bound"}
  BY DEF LoweringNext, ExpandTopology, RefuseTopology, LowerNode, RefuseToLower, ResolveOutputs,
         RefuseOutputs, BindWeights, RefuseToBind, SkipBinding, Fail
<1>2. runs = 0 /\ runs \in Nat /\ round \in Nat
  BY <1>1 DEF MendedInv
<1>3. Pend' = {}
  BY <1>1 DEF Pend
<1> QED
  BY <1>1, <1>2, <1>3 DEF MendedInv

\* A step that changes nothing preserves the invariant.
LEMMA StutterMends ==
  ASSUME MendedInv, UNCHANGED frontEndVars
  PROVE  MendedInv'
<1>1. /\ UNCHANGED <<nodes, boundary, executionDType, stage, position, runs, round>>
      /\ UNCHANGED <<producerTypes, edgeErrors, unresolved, disableSynthesis>>
  BY DEF frontEndVars, graphVars, loweringVars, inferVars
<1>2. InputPorts' = InputPorts
  BY <1>1, InputPortsUnchanged
<1>3. Pend' = Pend /\ Unseen' = Unseen
  BY <1>1 DEF Pend, Unseen
<1> QED
  BY <1>1, <1>2, <1>3 DEF MendedInv, Doomed

\* Every step of a compilation preserves the invariant.
LEMMA NextMends ==
  ASSUME TyperInv, MendedInv, [FrontEndNext]_frontEndVars
  PROVE  MendedInv'
<1>1. CASE LoweringNext /\ UNCHANGED <<runs, round>>
  BY <1>1, LoweringMends
<1>2. CASE TyperNext /\ UNCHANGED runs
  <2>1. CASE RefuseNode
    <3>1. stage = "nodes" /\ stage' = "refused" /\ round' = round
      BY <2>1 DEF RefuseNode
    <3>2. Pend' = {}
      BY <3>1 DEF Pend
    <3> QED
      BY <1>2, <3>1, <3>2 DEF MendedInv
  <2> QED
    BY <1>2, <2>1, BeginInferMends, KeepTypedMends, PassThroughMends, TypeNodeMends,
       FinishInferMends, AdaptorMends, SynthesisMends DEF TyperNext
<1>3. CASE RunTyper \/ SkipTyper \/ OptimizeAndRetype \/ SkipOptimizer \/ ValidateOps \/ MergeBindings
  BY <1>3, BetweenMends
<1>4. CASE UNCHANGED frontEndVars
  BY <1>4, StutterMends
<1> QED
  BY <1>1, <1>2, <1>3, <1>4 DEF FrontEndNext, Compiled

\* At every moment of a compilation a mismatch of dtypes is unseen, pending or
\* excused.
LEMMA MendedInvIsInvariant == FrontEndSpec => [](TyperInv /\ MendedInv)
<1>1. FrontEndInit => MendedInv
  <2> SUFFICES ASSUME FrontEndInit
               PROVE  MendedInv
    OBVIOUS
  <2>1. stage = "expand" /\ runs = 0 /\ round = 0
    BY DEF FrontEndInit
  <2>2. Pend = {}
    BY <2>1 DEF Pend
  <2> QED
    BY <2>1, <2>2 DEF MendedInv
<1>2. TyperInv /\ MendedInv /\ [FrontEndNext]_frontEndVars => MendedInv'
  BY NextMends
<1> QED
  BY <1>1, <1>2, TyperInvIsInvariant, PTL DEF FrontEndSpec

------------------------------------------------------------------------------
\* What remains when the typer is done.

\* An ID finds its node.
LEMMA CalledIs ==
  ASSUME IsNodes(NamesOf(nodes)), NEW n \in NamesOf(nodes)
  PROVE  NodeCalled(n.id) = n
<1>1. PICK i \in DOMAIN nodes : nodes[i] = n
  BY DEF NamesOf
<1> PICK k : k = CHOOSE j \in DOMAIN nodes : nodes[j].id = n.id
  OBVIOUS
<1>2. k \in DOMAIN nodes /\ nodes[k].id = n.id
  BY <1>1
<1>3. nodes[k] = n
  BY <1>2 DEF IsNodes, NamesOf
<1> QED
  BY <1>3 DEF NodeCalled

\* A node whose first input was given a transpose has it on that input.
LEMMA TransposeIsThere ==
  ASSUME IsNodes(NamesOf(nodes)), Chained(NamesOf(nodes)), NEW q \in NamesOf(nodes),
         ~IsAdaptor(q.id), 1 \in DOMAIN q.inputs, TransposeID(q, 1) \in IdsIn(NamesOf(nodes))
  PROVE  IsTransposed(q.inputs[1])
<1> PICK N : N = NamesOf(nodes)
  OBVIOUS
<1>1. Chain(N, q, 1)
  BY DEF Chained
<1>2. IsAdaptor(TransposeID(q, 1)) /\ TransposeID(q, 1)[2] = "transpose" /\ IsAdaptor(CastID(q, 1))
  BY DEF IsAdaptor, TransposeID, CastID
<1>3. TransposeID(q, 1) \in {q.inputs[1], BehindAdaptor(q.inputs[1])}
  <2>1. ~IsPlain(N, q, 1)
    BY DEF IsPlain
  <2>2. ASSUME NEW a \in N, IsMended(N, q, 1, a)
        PROVE  TransposeID(q, 1) = q.inputs[1]
    <3>1. a.id = q.inputs[1] /\ a.id \in {CastID(q, 1), TransposeID(q, 1)} /\ CastID(q, 1) \notin IdsIn(N)
      BY <2>2 DEF IsMended, Mends
    <3>2. a.id \in IdsIn(N)
      BY DEF IdsIn
    <3> QED
      BY <3>1, <3>2
  <2>3. ASSUME NEW a \in N, NEW b \in N, IsMendedTwice(N, q, 1, a, b)
        PROVE  TransposeID(q, 1) \in {q.inputs[1], BehindAdaptor(q.inputs[1])}
    <3>1. /\ a.id = q.inputs[1] /\ a.id \in {CastID(q, 1), TransposeID(q, 1)}
          /\ b.id = a.inputs[1] /\ b.id \in {CastID(q, 1), TransposeID(q, 1)} \ {a.id}
      BY <2>3 DEF IsMendedTwice, Mends
    <3>2. BehindAdaptor(q.inputs[1]) = b.id
      BY <1>2, <3>1, CalledIs DEF BehindAdaptor
    <3> QED
      BY <3>1, <3>2
  <2> QED
    BY <1>1, <2>1, <2>2, <2>3 DEF Chain
<1> QED
  BY <1>2, <1>3 DEF IsTransposed

\* When the typer says a graph is well typed, every edge delivers the dtype its
\* consumer expects, unless its source has none or was typed in a later round
\* than its consumer (infer.go:93-99, adaptor.go:35-75).
THEOREM DTypesAreMended == FrontEndSpec => []NoDTypeMismatchSurvives
<1>1. TyperInv /\ MendedInv => NoDTypeMismatchSurvives
  <2> SUFFICES ASSUME TyperInv, MendedInv, WellTyped,
                      NEW i \in DOMAIN nodes, HasSpec(nodes[i].op), NEW k \in DOMAIN nodes[i].inputs
               PROVE  LET read == nodes[i].inputs[k]
                          carried == CarriedType(read)
                      IN  \/ CarriedType(Origin(read)).dtype = "Invalid"
                          \/ Origin(read) \in IDs /\ IsTypedLate(NodeCalled(Origin(read)))
                          \/ DTypesAgree(carried, ExpectedType(LookupSpec(nodes[i].op), k, carried))
    BY DEF NoDTypeMismatchSurvives
  <2> PICK N : N = NamesOf(nodes)
    OBVIOUS
  <2> PICK n : n = nodes[i]
    OBVIOUS
  <2> PICK read : read = n.inputs[k]
    OBVIOUS
  <2> PICK carried : carried = CarriedType(read)
    OBVIOUS
  <2> PICK spec : spec = LookupSpec(n.op)
    OBVIOUS
  <2>1. /\ IsGraph(nodes, boundary) /\ IsNodes(N) /\ Chained(N) /\ n \in N /\ IsNode(n)
        /\ \A m \in N : NodeCalled(m.id) = m
        /\ IDs = IdsIn(N)
    BY GraphNodes, CalledIs DEF TyperInv, GraphInv, IsGraph, IDs, IdsIn, NamesOf
  <2>2. /\ stage \in {"typed", "planned"} /\ runs > 0 /\ ~disableSynthesis /\ round > 0
        /\ round \in Nat
    BY DEF WellTyped, MendedInv
  <2>3. Pend = {} /\ Unseen = {} /\ unresolved = <<>>
    <3>1. round # 0
      BY <2>2
    <3> QED
      BY <2>2, <3>1 DEF Pend, Unseen, MendedInv
  <2>4. AllFine(N, {}, InputPorts, {})
    BY <2>2, <2>3 DEF MendedInv, Doomed
  <2>5. /\ DOMAIN InputPorts = NamesOf(boundary)
        /\ \A p \in NamesOf(boundary) : InputPorts[p] = GraphInputPortType(p)
        /\ \A p \in NamesOf(boundary) : ~IsAdaptor(p) /\ p \notin IDs
    BY <2>1 DEF InputPorts, IsGraph
  <2>6. read \in NamesOf(boundary) \/ read \in IDs
    <3>1. \/ nodes[i].inputs[k] \in NamesOf(boundary)
          \/ \E m \in 1 .. i - 1 : nodes[m].id = nodes[i].inputs[k]
      BY <2>1 DEF IsGraph, IsOrdered
    <3>2. \A m \in 1 .. i - 1 : m \in DOMAIN nodes
      BY <2>1, LenProperties DEF IsGraph
    <3> QED
      BY <2>1, <3>1, <3>2 DEF IdsIn, NamesOf
  <2>7. IsSpec(spec)
    BY SpecsAreSpecs
  <2>8. CASE IsAdaptor(n.id)
    <3>1. n.op \in {"shape.cast", "shape.transpose"} /\ k = 1
      BY <2>1, <2>8 DEF IsNode
    <3>2. 1 \in DOMAIN spec.inputs /\ spec.inputs[1] = AnyTensor
      BY <3>1, AdaptorSpecs
    <3>3. ExpectedType(spec, 1, carried).dtype = "Invalid"
      BY <3>2, CommonPorts, ExpectedIs DEF AnyTensor, Port
    <3> QED
      BY <3>1, <3>3 DEF DTypesAgree
  <2>9. CASE k \notin DOMAIN spec.inputs
    BY <2>9, ExpectedIs
  <2>10. CASE ~IsAdaptor(n.id) /\ k \in DOMAIN spec.inputs
    <3>1. HasExpectation(n, k) /\ Expected(n, k) = spec.inputs[k]
      BY <2>10 DEF HasExpectation, Expected
    <3>2. ExpectedType(spec, k, carried).dtype = Expected(n, k).dtype
      BY <2>7, <2>10, <3>1, ExpectedIs DEF IsSpec
    <3>3. EdgeIsFine(N, InputPorts, {}, n, k)
      BY <2>1, <2>4, <2>10, <3>1 DEF AllFine, NodeIsFine
    <3>4. CASE AgreesAt(N, InputPorts, n, k)
      <4>1. DTypesAgree(carried, Expected(n, k))
        <5>1. CASE read \in IDs
          <6>1. PICK m \in N : m.id = read
            BY <2>1, <5>1 DEF IdsIn
          <6>2. carried = m.outputType
            BY <2>1, <5>1, <6>1 DEF CarriedType
          <6> QED
            BY <3>4, <6>1, <6>2 DEF AgreesAt
        <5>2. CASE read \in NamesOf(boundary)
          <6>1. carried = InputPorts[read]
            BY <2>5, <5>2 DEF CarriedType
          <6> QED
            BY <2>5, <3>4, <5>2, <6>1 DEF AgreesAt
        <5> QED
          BY <2>6, <5>1, <5>2
      <4> QED
        BY <3>2, <4>1 DEF DTypesAgree
    <3>5. CASE IsPending({}, n, k, "cast")
      BY <3>5 DEF IsPending
    <3>6. ASSUME NEW p, SourceIs(N, n, k, p), WeakSoon(N, InputPorts, {}, p)
          PROVE  \/ CarriedType(Origin(read)).dtype = "Invalid"
                 \/ Origin(read) \in IDs /\ IsTypedLate(NodeCalled(Origin(read)))
      <4>1. Origin(read) = p
        BY <2>1, <3>6, OriginIsSource
      <4>2. Weak(N, InputPorts, p) /\ ~IsAdaptor(p)
        BY <3>6 DEF WeakSoon, IsPending, SourceIs
      <4>3. CASE p \in DOMAIN InputPorts /\ InputPorts[p].dtype = "Invalid"
        <5>1. CarriedType(p) = InputPorts[p]
          BY <2>5, <4>3 DEF CarriedType
        <5> QED
          BY <4>1, <4>3, <5>1
      <4>4. ASSUME NEW q \in N, q.id = p, Late(N, q)
            PROVE  p \in IDs /\ IsTypedLate(NodeCalled(p))
        <5>1. p \in IDs /\ NodeCalled(p) = q
          BY <2>1, <4>4 DEF IdsIn
        <5>2. IsTypedLate(q)
          <6>1. CASE ~HasSpec(q.op)
            BY <6>1 DEF IsTypedLate
          <6>2. CASE 1 \in DOMAIN q.inputs /\ TransposeID(q, 1) \in IdsIn(N)
            <7>1. IsTransposed(q.inputs[1])
              BY <2>1, <4>2, <4>4, <6>2, TransposeIsThere
            <7>2. q.inputs # <<>>
              BY <6>2
            <7> QED
              BY <7>1, <7>2 DEF IsTypedLate
          <6> QED
            BY <4>4, <6>1, <6>2 DEF Late
        <5> QED
          BY <5>1, <5>2
      <4>5. ASSUME NEW q \in N, q.id = p, Forever(q)
            PROVE  CarriedType(p).dtype = "Invalid"
        <5>1. ~IsTyped(q)
          BY <2>4, <4>5 DEF AllFine, NodeIsFine
        <5>2. CarriedType(p) = q.outputType
          BY <2>1, <4>5 DEF CarriedType, IdsIn
        <5> QED
          BY <5>1, <5>2 DEF IsTyped
      <4> QED
        BY <4>1, <4>2, <4>3, <4>4, <4>5 DEF Weak
    <3> QED
      BY <3>3, <3>4, <3>5, <3>6 DEF EdgeIsFine
  <2> QED
    BY <2>8, <2>9, <2>10
<1> QED
  BY <1>1, MendedInvIsInvariant, PTL
==============================================================================
