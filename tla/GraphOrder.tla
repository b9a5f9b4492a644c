----------------------------- MODULE GraphOrder -----------------------------
(***************************************************************************)
(* NormalizeGraph of compiler/graph_order.go: the pass that validates the  *)
(* edges of one ast.Graph and reorders its nodes into execution order with *)
(* Kahn's algorithm over a FIFO queue.  The graph is drawn from Graphs;    *)
(* one action is one stage of the pass, or one iteration of the sort loop. *)
(*                                                                         *)
(* A node is known by its ID.  Graph boundaries (graph.Inputs) and node    *)
(* IDs share one name space, as they do in the code, where both are plain  *)
(* strings that node.Inputs refers to.                                     *)
(***************************************************************************)
EXTENDS Lists

CONSTANTS Names,    \* node IDs and boundary names
          Blank,    \* the empty string
          Graphs    \* the graphs a lowering or an earlier pass may hand over

ASSUME BlankAssumption == Blank \notin Names

(***************************************************************************)
(* ast.Graph: nodes is the list of node IDs in its current order, inputs   *)
(* the list of names each node reads, boundary graph.Inputs, outputs the   *)
(* producers named by graph.Outputs, inputOps the nodes whose op is        *)
(* "input" or "io.input".                                                  *)
(***************************************************************************)
GraphType ==
    [nodes    : Seq(Names \cup {Blank}),
     inputs   : [Names -> Seq(Names \cup {Blank})],
     boundary : Seq(Names \cup {Blank}),
     outputs  : SUBSET (Names \cup {Blank}),
     inputOps : SUBSET Names]

VARIABLES graph,     \* the ast.Graph the passes mutate in place
          phase,     \* where the pass stands
          inDegree,  \* topologicalSort: inputs not yet sorted, per node
          ready,     \* topologicalSort: the FIFO queue
          sorted,    \* topologicalSort: the order found so far
          passes     \* how many calls of NormalizeGraph have succeeded

orderVars == <<graph, phase, inDegree, ready, sorted, passes>>

NodeIDs     == ToSet(graph.nodes)
BoundarySet == ToSet(graph.boundary) \ {Blank}
Reads(n)    == ToSet(graph.inputs[n])

(***************************************************************************)
(* A boundary name hides a node of the same name: such an input is no      *)
(* edge.  A node that lists one producer twice has two edges from it.      *)
(***************************************************************************)
IsEdge(p)         == p \in NodeIDs \ (BoundarySet \cup {Blank})
EdgeSlots(n)      == {i \in DOMAIN graph.inputs[n] : IsEdge(graph.inputs[n][i])}

\* Fault: a repeated producer is listed once among the successors, although
\* each repetition was counted as an edge.
SlotsReadingOnce(n, p) ==
    {i \in EdgeSlots(n) : /\ graph.inputs[n][i] = p
                          /\ \A j \in 1..(i - 1) : graph.inputs[n][j] # p}

SlotsReading(n, p) == {i \in EdgeSlots(n) : graph.inputs[n][i] = p}

OrderInit ==
    /\ graph \in Graphs
    /\ phase = "index"
    /\ inDegree = [n \in {} |-> 0]
    /\ ready = <<>>
    /\ sorted = <<>>
    /\ passes = 0

\* indexGraphNodes: no node without an ID, no ID twice.
IndexGraphNodes ==
    /\ phase = "index"
    /\ phase' = IF Blank \notin NodeIDs /\ IsInjective(graph.nodes)
                THEN "edges" ELSE "invalid"
    /\ UNCHANGED <<graph, inDegree, ready, sorted, passes>>

\* validateGraphEdges: every input and every output producer is known.
EdgesKnown ==
    /\ \A n \in NodeIDs : Reads(n) \ {Blank} \subseteq BoundarySet \cup NodeIDs
    /\ graph.outputs \subseteq BoundarySet \cup NodeIDs

ValidateGraphEdges ==
    /\ phase = "edges"
    /\ phase' = IF EdgesKnown THEN "sort" ELSE "invalid"
    /\ UNCHANGED <<graph, inDegree, ready, sorted, passes>>

\* Fault: the roots are collected by ranging over the in-degree map.
StartSortFromMap ==
    /\ phase = "sort"
    /\ inDegree' = [n \in NodeIDs |-> Cardinality(EdgeSlots(n))]
    /\ ready' \in SetToSeqs({n \in NodeIDs : EdgeSlots(n) = {}})
    /\ sorted' = <<>>
    /\ phase' = "pop"
    /\ UNCHANGED <<graph, passes>>

\* topologicalSort up to its loop: count the edges, queue the roots in order.
StartSort ==
    /\ phase = "sort"
    /\ inDegree' = [n \in NodeIDs |-> Cardinality(EdgeSlots(n))]
    /\ ready' = Kept(graph.nodes, {n \in NodeIDs : EdgeSlots(n) = {}})
    /\ sorted' = <<>>
    /\ phase' = "pop"
    /\ UNCHANGED <<graph, passes>>

\* Fault: a successor is queued as soon as one of its producers is sorted.
ReleasedOnTouch(n) ==
    Kept(graph.nodes, {m \in NodeIDs : /\ SlotsReading(m, n) # {}
                                      /\ m \notin ToSet(sorted) \cup ToSet(ready)})

\* The nodes whose last open edge comes from n, in the order the successor
\* list of n names them, which is the order of graph.nodes.
Released(n) ==
    Kept(graph.nodes, {m \in NodeIDs : /\ SlotsReading(m, n) # {}
                                      /\ inDegree[m] = Cardinality(SlotsReading(m, n))})

\* One iteration of the loop: take the head of the queue, release successors.
PopReady ==
    /\ phase = "pop"
    /\ ready # <<>>
    /\ LET current == Head(ready) IN
       /\ sorted' = Append(sorted, current)
       /\ inDegree' = [m \in NodeIDs |->
                         inDegree[m] - Cardinality(SlotsReading(m, current))]
       /\ ready' = Tail(ready) \o Released(current)
    /\ UNCHANGED <<graph, phase, passes>>

\* Fault: the pass waits for all nodes instead of reporting a cycle.
FinishSortUnchecked ==
    /\ phase = "pop"
    /\ ready = <<>>
    /\ Len(sorted) = Len(graph.nodes)
    /\ graph' = [graph EXCEPT !.nodes = sorted]
    /\ phase' = "ordered"
    /\ passes' = passes + 1
    /\ UNCHANGED <<inDegree, ready, sorted>>

\* The queue is empty: a node left over means a cycle, and then graph.Nodes
\* keeps its order.
FinishSort ==
    /\ phase = "pop"
    /\ ready = <<>>
    /\ IF Len(sorted) = Len(graph.nodes)
       THEN /\ graph' = [graph EXCEPT !.nodes = sorted]
            /\ phase' = "ordered"
            /\ passes' = passes + 1
       ELSE /\ phase' = "cycle"
            /\ UNCHANGED <<graph, passes>>
    /\ UNCHANGED <<inDegree, ready, sorted>>

NormalizeGraph ==
    \/ IndexGraphNodes
    \/ ValidateGraphEdges
    \/ StartSort
    \/ PopReady
    \/ FinishSort
=============================================================================
