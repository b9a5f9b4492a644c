------------------------- MODULE MCWorkspacePlanner -------------------------
(***************************************************************************)
(* Topologies of three nodes over four ports: nodes with two outputs,      *)
(* alias outputs, inputs nobody produces, inputs produced only later, and  *)
(* sizes of zero, below, at and above the alignment, or none.              *)
(***************************************************************************)
EXTENDS WorkspacePlanner

CONSTANTS p1, p2, p3, p4

MCPorts == {p1, p2, p3, p4}

Reads == {<<>>} \cup {<<a>> : a \in MCPorts} \cup
         {<<p1, p2>>, <<p1, p3>>, <<p1, p4>>, <<p2, p3>>, <<p2, p4>>, <<p3, p4>>}

Node(in, out) == [inputs |-> in, outputs |-> out, alias |-> FALSE]

MCTopologies ==
    {<<Node(i1, o1), Node(i2, o2), Node(i3, o3)>> :
       i1 \in {<<>>, <<p3>>, <<p4>>, <<p3, p4>>}, i2 \in Reads, i3 \in Reads,
       o1 \in {<<p1>>, <<p1, p2>>}, o2 \in {<<p2>>, <<p3>>, <<p1>>},
       o3 \in {<<p4>>, <<p3>>, <<p2>>}}

Size(a, b, c, d) ==
    [p \in MCPorts |-> CASE p = p1 -> a [] p = p2 -> b [] p = p3 -> c [] p = p4 -> d]

MCBytes == {Size(2, 2, 2, 2), Size(1, 3, 6, 4), Size(4, 1, 5, 7), Size(0, 2, 3, 0),
            Size(3, 2, Unsized, 1)}

MCInit ==
    /\ nodes \in MCTopologies \cup {<<>>}
    /\ AliasesReadTheirPort
    /\ bytes \in MCBytes
    /\ PlannerStart

MCSpec == MCInit /\ [][PlanWorkspace]_plannerVars /\ WF_plannerVars(PlanWorkspace)
=============================================================================
