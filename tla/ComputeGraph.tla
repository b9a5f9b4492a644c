---------------------------- MODULE ComputeGraph ----------------------------
(****************************************************************************)
(* ast.Graph, src/ast/graph.go: the semantic graph that the lowering makes, *)
(* the binder and the typer fill in, and the planner reads. One list of     *)
(* nodes is mutated in place by every pass.                                 *)
(*                                                                          *)
(* A name is a tuple: <<"x">> is x, <<"h", 3>> is h_3, and an adaptor's ID  *)
(* is built from its edge. Blank is the empty string. A tensor of the       *)
(* checkpoint is named [of, part]: l_0.weight is                            *)
(* [of |-> <<"l", 0>>, part |-> "weight"].                                  *)
(****************************************************************************)
EXTENDS OpDerivers

VARIABLES nodes,           \* graph.Nodes, in graph order
          boundary,        \* graph.Inputs
          outputs,         \* graph.Outputs: output name |-> producer
          executionDType,  \* graph.ExecutionDType
          bindings,        \* graph.Bindings
          stage,           \* where the compilation of the graph stands
          position         \* next element of the list the stage walks

graphVars == <<nodes, boundary, outputs, executionDType, bindings>>

Blank == <<>>

\* A BoundWeight: the tensors asked for, or found, and what was found. The nil
\* pointer and a spec without a tensor behave alike.
Weights(tensor, bias, slice, shape, dtype) ==
  [tensor |-> tensor, bias |-> bias, slice |-> slice,
   shape |-> shape, dtype |-> dtype]
NoWeights == Weights(<<>>, <<>>, "none", <<>>, "Invalid")

GraphNode(id, op, inputs, config, weights) ==
  [id |-> id, op |-> op, inputs |-> inputs, config |-> config,
   weights |-> weights, valueType |-> "Invalid",
   inputTypes |-> <<>>, outputType |-> Untyped]

NamesOf(sequence) == {sequence[i] : i \in DOMAIN sequence}
IDs == {nodes[i].id : i \in DOMAIN nodes}

\* Fault: every round derives every node again.
IsTypedNever(node) == FALSE

IsTyped(node) == node.outputType.dtype # "Invalid"

\* Later entries win, as when Go copies one map into another.
Overlay(base, added) ==
  [k \in DOMAIN base \cup DOMAIN added |->
     IF k \in DOMAIN added THEN added[k] ELSE base[k]]
==============================================================================
