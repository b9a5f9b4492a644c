-------------------------------- MODULE Typer --------------------------------
(****************************************************************************)
(* The typer, src/typer/infer.go, adaptor.go and run.go: Infer walks the    *)
(* nodes in graph order, unifies every edge with what the consumer expects  *)
(* and derives the type of every output; SynthesizeAdaptors then rewires    *)
(* the edges that failed through a cast or a transpose; Run repeats both    *)
(* until no edge fails. One action is one node of Infer, one failed edge of *)
(* SynthesizeAdaptors, or the decision between two of them.                 *)
(*                                                                          *)
(* Slots count from 1. The ID of an adaptor, built from the hint, the       *)
(* consumer and the slot, is taken to differ from every name of a manifest. *)
(* The hint "reshape" has a case in the code and no source:                 *)
(* Unify never gives it. So does the stop for a round without insertions:   *)
(* every error either has a hint and inserts, or is unresolved.             *)
(****************************************************************************)
EXTENDS ComputeGraph

CONSTANTS MaxRounds   \* Options.MaxAdaptorRounds, 3 by default

ASSUME MaxRoundsAssumption == MaxRounds \in Nat \ {0}

VARIABLES disableSynthesis,  \* Options.DisableSynthesis
          round,             \* rounds begun
          producerTypes,     \* Infer: name |-> type, of what was seen
          scratch,           \* Infer: the bindings found so far
          edgeErrors,        \* the edges that failed in this round
          unresolved         \* those no adaptor can mend

inferVars == <<producerTypes, scratch, edgeErrors>>
typerVars == <<graphVars, disableSynthesis, stage, round, position, inferVars,
               unresolved>>

------------------------------------------------------------------------------
ActivationDType == IF executionDType \in FloatTypes THEN executionDType
                   ELSE "Float32"

GraphInputPortType(name) ==
  CASE name = <<"input_ids">> -> Contiguous("Int32", <<"N">>, "TokenIndex")
    [] name \in {<<"hidden_states">>, <<"latents">>} ->
         Contiguous(ActivationDType, <<"B", "T", "D">>, "HiddenState")
    [] name \in {<<"encoder_hidden_states">>, <<"text_embedding">>} ->
         Contiguous(ActivationDType, <<"B", "C", "E">>, "HiddenState")
    [] name = <<"timestep">> -> Contiguous("Float32", <<"B">>, "Generic")
    [] name \in {<<"key_pages">>, <<"value_pages">>} ->
         Contiguous("Invalid", <<"L", "P", "S", "KVH", "HD">>, "Generic")
    [] name \in {<<"write_page_ids">>, <<"write_offsets">>} ->
         Contiguous("Int32", <<"N">>, "Generic")
    [] name \in {<<"key_page_table">>, <<"value_page_table">>} ->
         Contiguous("Int32", <<"P">>, "Generic")
    [] name = <<"position_offset">> ->
         Port("Int32", <<Static(1)>>, "Contiguous", "Generic")
    [] OTHER -> AnyTensor

ProducerType(name) ==
  IF name \in DOMAIN producerTypes THEN producerTypes[name] ELSE AnyTensor

\* [N] stands for any shape, so that one spec serves every rank.
IsWildcardShape(shape) == shape = <<Symbolic("N")>>

ExpectedType(spec, slot, producer) ==
  LET expected == IF slot \in DOMAIN spec.inputs THEN spec.inputs[slot]
                  ELSE producer
  IN  IF IsWildcardShape(expected.shape)
      THEN Reshaped(expected, producer.shape) ELSE expected

\* unifyNodeInputs: every slot is unified with bindings of its own.
UnifiedSlots(node, spec) ==
  [slot \in DOMAIN node.inputs |->
     LET producer == ProducerType(node.inputs[slot])
     IN  Unify(producer, ExpectedType(spec, slot, producer))]

BoundInputs(node, slots) ==
  [slot \in DOMAIN slots |-> IF slots[slot].ok THEN slots[slot].type
                             ELSE ProducerType(node.inputs[slot])]

MergedBindings(slots) ==
  FoldLeft(LAMBDA merged, result :
             IF result.ok THEN Overlay(merged, result.bindings) ELSE merged,
           scratch, slots)

EdgeError(node, spec, slots, slot) ==
  LET producer == ProducerType(node.inputs[slot])
  IN  [producer |-> node.inputs[slot], consumer |-> node.id, slot |-> slot,
       producerType |-> producer,
       expectedType |-> ExpectedType(spec, slot, producer),
       hint |-> slots[slot].hint]

SlotErrors(node, spec, slots) ==
  LET failed == Kept([i \in DOMAIN slots |-> i],
                     {i \in DOMAIN slots : ~slots[i].ok})
  IN  [i \in DOMAIN failed |-> EdgeError(node, spec, slots, failed[i])]

------------------------------------------------------------------------------
\* typer.Run begins, with a graph that was lowered or typed before.
StartRun == /\ stage' = "infer"
            /\ round' = 0
            /\ position' = 1
            /\ unresolved' = <<>>
            /\ UNCHANGED <<graphVars, disableSynthesis, inferVars>>

BeginInfer ==
  /\ stage = "infer"
  /\ stage' = "nodes"
  /\ round' = round + 1
  /\ position' = 1
  /\ producerTypes' = [name \in NamesOf(boundary) |-> GraphInputPortType(name)]
  /\ scratch' = bindings
  /\ edgeErrors' = <<>>
  /\ UNCHANGED <<graphVars, disableSynthesis, unresolved>>

\* The node Infer stands at is typed, with these inputs and this output.
Assign(inputTypes, outputType) ==
  /\ nodes' = [nodes EXCEPT ![position].inputTypes = inputTypes,
                            ![position].outputType = outputType]
  /\ producerTypes' = Overlay(producerTypes,
                              [n \in {nodes[position].id} |-> outputType])
  /\ position' = position + 1

\* A node with a type keeps it: an adaptor, or a node of an earlier round.
KeepTyped ==
  /\ stage = "nodes" /\ position \in DOMAIN nodes
  /\ IsTyped(nodes[position])
  /\ Assign(nodes[position].inputTypes, nodes[position].outputType)
  /\ UNCHANGED <<boundary, outputs, executionDType, bindings, disableSynthesis, stage,
                 round, scratch, edgeErrors, unresolved>>

\* An op without a spec takes the type of its first input that has one.
PassThrough ==
  LET node == nodes[position]
      known == Kept(node.inputs, DOMAIN producerTypes)
  IN  /\ stage = "nodes" /\ position \in DOMAIN nodes
      /\ ~IsTyped(node) /\ ~HasSpec(node.op)
      /\ Assign([slot \in DOMAIN node.inputs |-> ProducerType(node.inputs[slot])],
                IF known = <<>> THEN AnyTensor ELSE producerTypes[known[1]])
      /\ UNCHANGED <<boundary, outputs, executionDType, bindings, disableSynthesis,
                     stage, round, scratch, edgeErrors, unresolved>>

TypeNode ==
  LET node == nodes[position]
      spec == LookupSpec(node.op)
      slots == UnifiedSlots(node, spec)
      bound == BoundInputs(node, slots)
      derived == DeriveOutput(node, spec, bound, MergedBindings(slots))
  IN  /\ stage = "nodes" /\ position \in DOMAIN nodes
      /\ ~IsTyped(node) /\ HasSpec(node.op)
      /\ derived.ok
      /\ Assign(bound, derived.type)
      /\ scratch' = derived.bindings
      /\ edgeErrors' = edgeErrors \o SlotErrors(node, spec, slots)
      /\ UNCHANGED <<boundary, outputs, executionDType, bindings, disableSynthesis,
                     stage, round, unresolved>>

\* The deriver refuses: Infer and Run return its error, with the bindings of
\* the graph as they were and the nodes before this one typed.
RefuseNode ==
  LET node == nodes[position]
      spec == LookupSpec(node.op)
      slots == UnifiedSlots(node, spec)
      bound == BoundInputs(node, slots)
  IN  /\ stage = "nodes" /\ position \in DOMAIN nodes
      /\ ~IsTyped(node) /\ HasSpec(node.op)
      /\ ~DeriveOutput(node, spec, bound, MergedBindings(slots)).ok
      /\ nodes' = [nodes EXCEPT ![position].inputTypes = bound]
      /\ stage' = "refused"
      /\ UNCHANGED <<boundary, outputs, executionDType, bindings, disableSynthesis,
                     round, position, inferVars, unresolved>>

FinishInfer ==
  /\ stage = "nodes" /\ position > Len(nodes)
  /\ bindings' = scratch
  /\ position' = 1
  /\ stage' = IF edgeErrors = <<>> \/ disableSynthesis THEN "typed"
              ELSE "synthesis"
  /\ unresolved' = IF disableSynthesis THEN edgeErrors ELSE <<>>
  /\ UNCHANGED <<nodes, boundary, outputs, executionDType, disableSynthesis, round,
                 inferVars>>

------------------------------------------------------------------------------
AdaptorID(error) == <<"adaptor", error.hint, error.consumer, error.slot>>

\* Fault: the adaptor takes over what it was to convert.
AdaptorNodeUnconverted(error) ==
  LET op == IF error.hint = "cast" THEN "shape.cast" ELSE "shape.transpose"
      plain == GraphNode(AdaptorID(error), op, <<error.producer>>,
                         [k \in {} |-> ""], NoWeights)
  IN  [plain EXCEPT !.inputTypes = <<error.producerType>>,
                    !.outputType = error.producerType]

\* buildAdaptorNode: only the dtype, or only the layout, becomes the expected.
AdaptorNode(error) ==
  LET key == IF error.hint = "cast" THEN "dtype" ELSE "layout"
      op == IF error.hint = "cast" THEN "shape.cast" ELSE "shape.transpose"
      plain == GraphNode(AdaptorID(error), op, <<error.producer>>,
                         [k \in {key} |-> error.expectedType[key]], NoWeights)
  IN  [plain EXCEPT !.inputTypes = <<error.producerType>>,
                    !.outputType = [error.producerType EXCEPT
                                      ![key] = error.expectedType[key]]]

ConsumerIndex(error) ==
  CHOOSE i \in DOMAIN nodes : nodes[i].id = error.consumer

\* Fault: the adaptor goes after its consumer.
InsertAdaptorBehind ==
  LET error == edgeErrors[position]
      index == ConsumerIndex(error)
      rewired == [nodes EXCEPT ![index].inputs[error.slot] = AdaptorID(error)]
  IN  /\ stage = "synthesis" /\ position \in DOMAIN edgeErrors
      /\ error.hint # ""
      /\ nodes' = InsertAt(rewired, index + 1, AdaptorNode(error))
      /\ position' = position + 1
      /\ UNCHANGED <<boundary, outputs, executionDType, bindings, disableSynthesis,
                     stage, round, inferVars, unresolved>>

\* The adaptor goes right before its consumer, so the order stays topological.
InsertAdaptor ==
  LET error == edgeErrors[position]
      index == ConsumerIndex(error)
      rewired == [nodes EXCEPT ![index].inputs[error.slot] = AdaptorID(error)]
  IN  /\ stage = "synthesis" /\ position \in DOMAIN edgeErrors
      /\ error.hint # ""
      /\ nodes' = InsertAt(rewired, index, AdaptorNode(error))
      /\ position' = position + 1
      /\ UNCHANGED <<boundary, outputs, executionDType, bindings, disableSynthesis,
                     stage, round, inferVars, unresolved>>

LeaveUnresolved ==
  /\ stage = "synthesis" /\ position \in DOMAIN edgeErrors
  /\ edgeErrors[position].hint = ""
  /\ unresolved' = Append(unresolved, edgeErrors[position])
  /\ position' = position + 1
  /\ UNCHANGED <<graphVars, disableSynthesis, stage, round, inferVars>>

\* Fault: one round too few.
FinishSynthesisEarly ==
  /\ stage = "synthesis" /\ position > Len(edgeErrors)
  /\ stage' = IF unresolved # <<>> THEN "hard failure"
              ELSE IF round >= MaxRounds - 1 THEN "unconverged" ELSE "infer"
  /\ UNCHANGED <<graphVars, disableSynthesis, round, position, inferVars,
                 unresolved>>

FinishSynthesis ==
  /\ stage = "synthesis" /\ position > Len(edgeErrors)
  /\ stage' = IF unresolved # <<>> THEN "hard failure"
              ELSE IF round = MaxRounds THEN "unconverged" ELSE "infer"
  /\ UNCHANGED <<graphVars, disableSynthesis, round, position, inferVars,
                 unresolved>>

TyperNext == \/ BeginInfer \/ KeepTyped \/ PassThrough \/ TypeNode
             \/ RefuseNode \/ FinishInfer
             \/ InsertAdaptor \/ LeaveUnresolved \/ FinishSynthesis
==============================================================================
