---------------------------- MODULE GraphLayers ----------------------------
(***************************************************************************)
(* The scheduling side of one compiled graph, in the order the pipeline    *)
(* runs it: BuildDAGFromGraph (compiler/graph_dag.go) normalises the graph *)
(* and copies it into a dag.Graph, TopologyLayers (ir/dag/graph.go) peels  *)
(* that DAG into layers, NewExecutionPlan (runtime/plan.go) drops the      *)
(* input nodes, and PlanGraph (compiler/plan.go) normalises the same       *)
(* ast.Graph once more before it numbers execution steps.                  *)
(***************************************************************************)
EXTENDS GraphOrder

ASSUME GraphsAssumption == Graphs \subseteq GraphType

VARIABLES remaining,  \* TopologyLayers: unscheduled DAG nodes, open inputs
          dagLayers,  \* TopologyLayers: the layers peeled so far
          plan        \* ExecutionPlan.Layers

vars == <<orderVars, remaining, dagLayers, plan>>

Init ==
    /\ OrderInit
    /\ remaining = [n \in {} |-> 0]
    /\ dagLayers = <<>>
    /\ plan = <<>>

\* NormalizeGraph, called by BuildDAGFromGraph and again by PlanGraph.
Normalize == NormalizeGraph /\ UNCHANGED <<remaining, dagLayers, plan>>

DagNodes      == BoundarySet \cup NodeIDs
DagInputNodes == BoundarySet \cup (NodeIDs \cap graph.inputOps)
DagInputs(n)  == IF n \in BoundarySet
                 THEN <<>>
                 ELSE Without(graph.inputs[n], Blank)

\* BuildDAGFromGraph after NormalizeGraph.  A boundary named twice, or named
\* like a node, has no DAG.
BuildDAG ==
    /\ phase = "ordered"
    /\ passes = 1
    /\ IF /\ IsInjective(Without(graph.boundary, Blank))
          /\ BoundarySet \cap NodeIDs = {}
       THEN /\ remaining' = [n \in DagNodes |-> Len(DagInputs(n))]
            /\ phase' = "layers"
       ELSE /\ phase' = "duplicate"
            /\ UNCHANGED remaining
    /\ UNCHANGED <<graph, inDegree, ready, sorted, passes, dagLayers, plan>>

\* Fault: a node is scheduled while it waits for one more input.
UnblockedEarly == {n \in DOMAIN remaining : remaining[n] <= 1}

Unblocked == {n \in DOMAIN remaining : remaining[n] = 0}

\* One iteration of TopologyLayers: schedule every node with no open input.
PeelLayer ==
    /\ phase = "layers"
    /\ remaining # <<>>
    /\ IF Unblocked = {}
       THEN /\ phase' = "dagCycle"
            /\ UNCHANGED <<remaining, dagLayers>>
       ELSE /\ dagLayers' = Append(dagLayers, Unblocked)
            /\ remaining' = [n \in DOMAIN remaining \ Unblocked |->
                               remaining[n] - Cardinality(
                                 {i \in DOMAIN DagInputs(n) :
                                    DagInputs(n)[i] \in Unblocked})]
            /\ UNCHANGED phase
    /\ UNCHANGED <<graph, inDegree, ready, sorted, passes, plan>>

\* Fault: a layer with an input node in it is dropped as a whole.
BuildPlanDropping ==
    /\ phase = "layers"
    /\ remaining = <<>>
    /\ plan' = SelectSeq(dagLayers, LAMBDA layer : layer \cap DagInputNodes = {})
    /\ phase' = "planned"
    /\ UNCHANGED <<graph, inDegree, ready, sorted, passes, remaining, dagLayers>>

\* NewExecutionPlan: without the input nodes, and without emptied layers.
BuildPlan ==
    /\ phase = "layers"
    /\ remaining = <<>>
    /\ plan' = Without([i \in DOMAIN dagLayers |-> dagLayers[i] \ DagInputNodes], {})
    /\ phase' = "planned"
    /\ UNCHANGED <<graph, inDegree, ready, sorted, passes, remaining, dagLayers>>

\* PlanGraph calls NormalizeGraph again on the graph the DAG was built from.
Renormalize ==
    /\ phase = "planned"
    /\ phase' = "index"
    /\ UNCHANGED <<graph, inDegree, ready, sorted, passes, remaining, dagLayers, plan>>

Next ==
    \/ Normalize
    \/ BuildDAG
    \/ PeelLayer
    \/ BuildPlan
    \/ Renormalize

Spec == Init /\ [][Next]_vars /\ WF_vars(Next)

-----------------------------------------------------------------------------
Finished == \/ phase \in {"invalid", "cycle", "duplicate", "dagCycle"}
            \/ phase = "ordered" /\ passes = 2

Position(s, n) == CHOOSE i \in DOMAIN s : s[i] = n

\* The order NormalizeGraph installs: a permutation of the nodes in which
\* every producer that is not hidden by a boundary precedes its readers
\* ("a node that appears earlier after sorting", graph_order.go).
OrderedIsTopological ==
    passes > 0 =>
      /\ IsInjective(graph.nodes)
      /\ \A n \in NodeIDs : \A p \in Reads(n) :
           IsEdge(p) => Position(graph.nodes, p) < Position(graph.nodes, n)

\* A set of nodes each of which waits for another of the set.
Cyclic == \E S \in SUBSET NodeIDs :
             /\ S # {}
             /\ \A n \in S : \E p \in Reads(n) \cap S : IsEdge(p)

\* The leftover count reports a cycle exactly when the edges have one: an
\* acyclic graph is never refused, whatever inputs are repeated or hidden.
CycleReportIsExact ==
    /\ phase = "cycle" => Cyclic
    /\ passes > 0 => ~Cyclic

\* A layer's number is the length of the longest chain of inputs below it,
\* so a node waits for all it reads and for nothing else, and nodes of one
\* layer are independent ("may run concurrently").
LayerOf(n) == CHOOSE i \in DOMAIN dagLayers : n \in dagLayers[i]

LayersAreDepths ==
    phase = "planned" =>
      /\ UNION ToSet(dagLayers) = DagNodes
      /\ \A n \in DagNodes :
           LayerOf(n) = IF DagInputs(n) = <<>> THEN 1
                        ELSE 1 + Max({LayerOf(p) : p \in ToSet(DagInputs(n))})

\* The execution plan runs every node that is not an input in exactly one
\* layer, and an input that is itself planned in an earlier one.
PlanRunsEachNodeOnce ==
    phase = "planned" =>
      \A n \in DagNodes \ DagInputNodes :
        \E i \in DOMAIN plan :
          /\ n \in plan[i]
          /\ \A j \in DOMAIN plan \ {i} : n \notin plan[j]
          /\ \A p \in Reads(n) \ DagInputNodes :
               p # Blank => \E j \in 1..(i - 1) : p \in plan[j]

\* A graph that was normalised once is not reordered by a later call: the
\* step indices PlanGraph numbers are those of the DAG built before it.
NormalizeIsStable == [][passes > 0 => graph'.nodes = graph.nodes]_vars

\* The passes end for every graph.
PassesEnd == <>Finished
=============================================================================
