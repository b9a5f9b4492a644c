-------------------------- MODULE TopologyLowering --------------------------
(****************************************************************************)
(* From a manifest topology to a graph with its weights bound:              *)
(* src/compiler/topology_expand.go, topology_lower.go and weights/binder.go.*)
(* The repeats are materialised first, in one step; lowering is one node at *)
(* a time, because a node reads the names as the nodes before it left them; *)
(* the outputs are resolved after the last one.                             *)
(*                                                                          *)
(* A topology node is [id, op, in, out, config, indexed, weights,           *)
(* safetensors, repeat, template]: indexed maps a config key to the index   *)
(* form its string holds; weights and safetensors are <<>> or <<spec>>;     *)
(* repeat is <<>> for an ordinary node, <<{}>> when the count or the offset *)
(* does not parse, and <<{[count, offset]}>> otherwise. Inside a template a *)
(* name is [stem, form], h_${i+1} being [stem |-> "h", form |-> "next"].    *)
(****************************************************************************)
EXTENDS ComputeGraph

CONSTANTS WeightMap   \* node ID |-> tensor name, as the caller configured it

VARIABLES topology,    \* the topology, then its expansion
          producers,   \* name |-> ID of the node that bound it last
          dag,         \* the scheduling DAG: [id, input, inputs] per node
          checkpoint   \* <<>>, or <<tensor name |-> [shape, dtype]>>

loweringVars == <<topology, producers, dag, checkpoint>>

------------------------------------------------------------------------------
\* Fault: layers with an offset are counted from one.
IndexValueFromOne(form, index, offset) ==
  CASE form = "i" -> index
    [] form = "next" -> index + 1
    [] form = "prev" -> index - 1
    [] form = "offset" -> index + offset + 1
    [] form = "next_offset" -> index + offset + 2
    [] form = "prev_offset" -> index + offset

\* The number an index form of newIndexReplacer stands for.
IndexValue(form, index, offset) ==
  CASE form = "i" -> index
    [] form = "next" -> index + 1
    [] form = "prev" -> index - 1
    [] form = "offset" -> index + offset
    [] form = "next_offset" -> index + offset + 1
    [] form = "prev_offset" -> index + offset - 1

Substituted(name, index, offset) ==
  IF name.form = "plain" THEN <<name.stem>>
  ELSE <<name.stem, IndexValue(name.form, index, offset)>>

SubstitutedTensors(tensors, index, offset) ==
  [i \in DOMAIN tensors |->
     [of |-> Substituted(tensors[i].of, index, offset),
      part |-> tensors[i].part]]

SubstitutedWeights(specs, index, offset) ==
  [i \in DOMAIN specs |->
     [tensor |-> SubstitutedTensors(specs[i].tensor, index, offset),
      bias |-> SubstitutedTensors(specs[i].bias, index, offset),
      slice |-> specs[i].slice]]

\* A config string that holds an index form becomes a number.
SubstituteNode(node, index, offset) ==
  LET Names(list) == [k \in DOMAIN list |-> Substituted(list[k], index, offset)]
      numbers == [key \in DOMAIN node.indexed |->
                    IndexValue(node.indexed[key], index, offset)]
  IN  [node EXCEPT
         !.id = Substituted(node.id, index, offset),
         !.in = Names(node.in),
         !.out = Names(node.out),
         !.config = Overlay(node.config, numbers),
         !.weights = SubstitutedWeights(node.weights, index, offset),
         !.safetensors = SubstitutedWeights(node.safetensors, index, offset)]

IsRepeat(node) == node.repeat # <<>>

\* A nested repeat is only met when the loop runs at all.
RepeatIsWellFormed(node) ==
  \E loop \in node.repeat[1] :
    /\ loop.count >= 0
    /\ node.template # <<>>
    /\ loop.count > 0
         => \A i \in DOMAIN node.template : ~IsRepeat(node.template[i])

ExpandRepeat(node) ==
  LET loop == CHOOSE loop \in node.repeat[1] : TRUE
  IN  FlattenSeq([k \in 1 .. loop.count |->
        [i \in DOMAIN node.template |->
           SubstituteNode(node.template[i], k - 1, loop.offset)]])

Expand(list) ==
  FlattenSeq([k \in DOMAIN list |->
    IF IsRepeat(list[k]) THEN ExpandRepeat(list[k]) ELSE <<list[k]>>])

------------------------------------------------------------------------------
DefaultWeightOps == {"convolution.conv2d", "embedding.token", "math.groupnorm",
                     "math.layernorm", "math.rmsnorm", "projection.linear"}

\* weightSpecForNode: the weights section, from_safetensors, the convention.
WeightSpec(node) ==
  IF node.weights # <<>> THEN node.weights
  ELSE IF node.safetensors # <<>> THEN node.safetensors
  ELSE IF node.op \in DefaultWeightOps
       THEN <<[tensor |-> <<[of |-> node.id, part |-> "weight"]>>,
               bias |-> <<>>, slice |-> "none"]>>
  ELSE <<>>

\* from_safetensors must name a weight, and a slice index must be a number.
WeightSpecIsValid(node) ==
  LET spec == WeightSpec(node)
  IN  /\ node.weights = <<>> /\ node.safetensors # <<>>
           => node.safetensors[1].tensor # <<>>
      /\ spec # <<>> => spec[1].slice # "malformed"

RequestedWeights(node) ==
  LET spec == WeightSpec(node)
  IN  IF spec = <<>> THEN NoWeights
      ELSE Weights(spec[1].tensor, spec[1].bias, spec[1].slice, <<>>, "Invalid")

Reads(node) == Without(node.in, Blank)
Binds(node) == {node.id} \cup (NamesOf(node.out) \ {Blank})

\* Fault: the names of the manifest go into the graph as they are.
ResolvedInputsByName(node) == Reads(node)

ResolvedInputs(node) ==
  [i \in DOMAIN Reads(node) |-> producers[Reads(node)[i]]]

CanLower(node) ==
  /\ node.id # Blank
  /\ node.id \notin DOMAIN producers
  /\ NamesOf(Reads(node)) \subseteq DOMAIN producers
  /\ WeightSpecIsValid(node)

IsInputOp(op) == op \in {"input", "io.input"}

------------------------------------------------------------------------------
\* Any error ends the compilation and the half-made graph is dropped.
Fail(reason) == /\ stage' = reason
                /\ UNCHANGED <<graphVars, position, loweringVars>>

\* The inputs are the first producers; a negative count panics in make, which
\* ends the compilation just as an error does.
ExpandTopology ==
  LET expanded == Expand(topology.nodes)
      names == Without(topology.inputs, Blank)
  IN  /\ stage = "expand"
      /\ \A i \in DOMAIN topology.nodes :
           IsRepeat(topology.nodes[i]) => RepeatIsWellFormed(topology.nodes[i])
      /\ IsInjective(names)
      /\ topology' = [topology EXCEPT !.nodes = expanded]
      /\ producers' = [name \in NamesOf(names) |-> name]
      /\ dag' = [i \in DOMAIN names |->
                   [id |-> names[i], input |-> TRUE, inputs |-> <<>>]]
      /\ boundary' = topology.inputs
      /\ bindings' = topology.bindings
      /\ stage' = "lower"
      /\ position' = 1
      /\ UNCHANGED <<nodes, outputs, executionDType, checkpoint>>

RefuseTopology ==
  /\ stage = "expand"
  /\ \/ \E i \in DOMAIN topology.nodes :
          IsRepeat(topology.nodes[i]) /\ ~RepeatIsWellFormed(topology.nodes[i])
     \/ ~IsInjective(Without(topology.inputs, Blank))
  /\ Fail("not expanded")

\* A read is resolved to the producer bound last; only then does the node bind
\* its own ID and out names, so that what it rebinds it still reads as before.
LowerNode ==
  LET node == topology.nodes[position]
  IN  /\ stage = "lower" /\ position \in DOMAIN topology.nodes
      /\ CanLower(node)
      /\ nodes' = Append(nodes, GraphNode(node.id, node.op, ResolvedInputs(node),
                                          node.config, RequestedWeights(node)))
      /\ dag' = Append(dag, [id |-> node.id, input |-> IsInputOp(node.op),
                             inputs |-> ResolvedInputs(node)])
      /\ producers' = Overlay(producers, [name \in Binds(node) |-> node.id])
      /\ position' = position + 1
      /\ UNCHANGED <<boundary, outputs, executionDType, bindings, stage,
                     topology, checkpoint>>

RefuseToLower ==
  /\ stage = "lower" /\ position \in DOMAIN topology.nodes
  /\ ~CanLower(topology.nodes[position])
  /\ Fail("not lowered")

\* An output without a reference refers to the value of its own name.
OutputRef(name) ==
  IF topology.outputs[name] = Blank THEN name ELSE topology.outputs[name]
OutputNames == DOMAIN topology.outputs \ {Blank}

ResolveOutputs ==
  /\ stage = "lower" /\ position > Len(topology.nodes)
  /\ \A name \in OutputNames : OutputRef(name) \in DOMAIN producers
  /\ outputs' = [name \in OutputNames |-> producers[OutputRef(name)]]
  /\ stage' = "bind"
  /\ UNCHANGED <<nodes, boundary, executionDType, bindings, position,
                 loweringVars>>

RefuseOutputs ==
  /\ stage = "lower" /\ position > Len(topology.nodes)
  /\ \E name \in OutputNames : OutputRef(name) \notin DOMAIN producers
  /\ Fail("not lowered")

------------------------------------------------------------------------------
\* resolveTensorName: what the manifest asked for, else the caller's map, else
\* the convention.
TensorName(node) ==
  IF node.weights.tensor # <<>> THEN node.weights.tensor[1]
  ELSE IF node.id \in DOMAIN WeightMap THEN WeightMap[node.id]
  ELSE [of |-> node.id, part |-> "weight"]

\* The bias is optional unless the manifest names it.
BiasIsBindable(node, index) ==
  node.weights.bias # <<>> => node.weights.bias[1] \in DOMAIN index
BiasName(node, index) ==
  LET sibling == [of |-> TensorName(node).of, part |-> "bias"]
  IN  IF node.weights.bias # <<>> THEN node.weights.bias
      ELSE IF sibling \in DOMAIN index THEN <<sibling>> ELSE <<>>

IsBindable(node, index) ==
  IF TensorName(node) \in DOMAIN index THEN BiasIsBindable(node, index)
  ELSE node.weights.shape # <<>> \/ node.weights.tensor = <<>>

\* The bound shape is that of the whole tensor, also under a slice.
Bind1(node, index) ==
  LET name == TensorName(node)
  IN  IF name \notin DOMAIN index THEN node
      ELSE [node EXCEPT !.weights =
              Weights(<<name>>, BiasName(node, index), node.weights.slice,
                      index[name].shape, index[name].dtype)]

\* executionDTypeFromGraph: the first node with a floating-point weight.
ExecutionDTypeOf(list) ==
  LET floats == SelectSeq(list, LAMBDA node : node.weights.dtype \in FloatTypes)
  IN  IF floats = <<>> THEN "Float32" ELSE floats[1].weights.dtype

\* binder.Bind and ApplyExecutionDType. Without a checkpoint neither runs.
BindWeights ==
  LET index == checkpoint[1]
      bound == [i \in DOMAIN nodes |-> Bind1(nodes[i], index)]
      dtype == ExecutionDTypeOf(bound)
  IN  /\ stage = "bind" /\ checkpoint # <<>>
      /\ \A i \in DOMAIN nodes : IsBindable(nodes[i], index)
      /\ nodes' = [i \in DOMAIN bound |-> [bound[i] EXCEPT !.valueType = dtype]]
      /\ executionDType' = dtype
      /\ stage' = "bound"
      /\ UNCHANGED <<boundary, outputs, bindings, position, loweringVars>>

RefuseToBind ==
  /\ stage = "bind" /\ checkpoint # <<>>
  /\ \E i \in DOMAIN nodes : ~IsBindable(nodes[i], checkpoint[1])
  /\ Fail("not bound")

SkipBinding ==
  /\ stage = "bind" /\ checkpoint = <<>>
  /\ stage' = "bound"
  /\ UNCHANGED <<graphVars, position, loweringVars>>

LoweringNext == \/ ExpandTopology \/ RefuseTopology
                \/ LowerNode \/ RefuseToLower
                \/ ResolveOutputs \/ RefuseOutputs
                \/ BindWeights \/ RefuseToBind \/ SkipBinding
==============================================================================
