---------------------------- MODULE PlanTopology ----------------------------
(***************************************************************************)
(* The planning topology that the passes of PlanGraph share: the nodes in  *)
(* execution order, each with the ports it reads and produces.  Two nodes  *)
(* are connected when they list the same port (ir.Topology, ir.Node and    *)
(* ir.Port; edges are shared *ir.Port pointers).                           *)
(***************************************************************************)
EXTENDS Naturals, Sequences

VARIABLE nodes    \* topology.Nodes: [inputs, outputs, alias] each

InputsOf(k)  == {nodes[k].inputs[i] : i \in DOMAIN nodes[k].inputs}
OutputsOf(k) == {nodes[k].outputs[i] : i \in DOMAIN nodes[k].outputs}
=============================================================================
