--------------------------- MODULE GraphOrderProofs ---------------------------
(***************************************************************************)
(* Proofs about NormalizeGraph for every graph: the order it installs is   *)
(* topological, and it reports a cycle exactly when the edges have one;    *)
(* called again on the graph it has ordered it changes nothing. And about  *)
(* the layers of the DAG built from that graph: they are the depths of the *)
(* nodes, and the execution plan made of them runs each node once.         *)
(***************************************************************************)
EXTENDS GraphLayers, OrderLemmas, WellFoundedInduction

-----------------------------------------------------------------------------
(* The inductive invariant.                                                *)

\* The edges of n that come from a node not yet sorted.
OpenSlots(n) == {i \in EdgeSlots(n) : graph.inputs[n][i] \notin ToSet(sorted)}

\* indexGraphNodes has accepted the graph.
NodesIndexed == Blank \notin NodeIDs /\ IsInjective(graph.nodes)

\* Each name of the list s comes after the producers of its edges.
ProducersFirst(s) ==
  \A j \in DOMAIN s : \A p \in Reads(s[j]) :
    IsEdge(p) => \E i \in 1..(j - 1) : s[i] = p

\* The in-degrees count the open edges, and the nodes without one are queued
\* or sorted, each once.
SortInv ==
  /\ inDegree = [n \in NodeIDs |-> Cardinality(OpenSlots(n))]
  /\ ready \in Seq(NodeIDs) /\ IsInjective(ready)
  /\ sorted \in Seq(NodeIDs) /\ IsInjective(sorted)
  /\ ToSet(ready) \cap ToSet(sorted) = {}
  /\ ToSet(ready) \cup ToSet(sorted) = {n \in NodeIDs : OpenSlots(n) = {}}
  /\ ProducersFirst(sorted)

OrderInv ==
  /\ graph \in GraphType
  /\ passes \in Nat
  /\ phase \in {"edges", "sort", "pop", "cycle"} => NodesIndexed
  /\ phase \in {"pop", "cycle"} => SortInv
  /\ phase = "cycle" => ready = <<>> /\ Len(sorted) # Len(graph.nodes)
  /\ passes > 0 => NodesIndexed /\ ProducersFirst(graph.nodes)

-----------------------------------------------------------------------------
(* Edges of an indexed graph.                                              *)

LEMMA IndexedNodes ==
  ASSUME graph \in GraphType, NodesIndexed
  PROVE  /\ graph.nodes \in Seq(NodeIDs)
         /\ NodeIDs \subseteq Names /\ IsFiniteSet(NodeIDs)
         /\ Cardinality(NodeIDs) = Len(graph.nodes)
<1>1. graph.nodes \in Seq(Names \cup {Blank})
  BY DEF GraphType
<1>2. DOMAIN graph.nodes = 1..Len(graph.nodes) /\ Len(graph.nodes) \in Nat
  BY <1>1, LenProperties
<1>3. graph.nodes \in [1..Len(graph.nodes) -> NodeIDs]
  BY <1>1, <1>2, LenProperties DEF NodeIDs, ToSet
<1>4. graph.nodes \in Seq(NodeIDs)
  BY <1>2, <1>3, SeqDef
<1>5. \A i \in DOMAIN graph.nodes : graph.nodes[i] \in Names \cup {Blank}
  BY <1>1, <1>2, LenProperties
<1>6. NodeIDs \subseteq Names
  BY <1>5 DEF NodeIDs, ToSet, NodesIndexed
<1> QED
  BY <1>1, <1>4, <1>6, LengthIsCardinality DEF NodeIDs, NodesIndexed

LEMMA FiniteSlots ==
  ASSUME graph \in GraphType, NEW n \in Names
  PROVE  IsFiniteSet(EdgeSlots(n)) /\ EdgeSlots(n) \subseteq DOMAIN graph.inputs[n]
<1>1. graph.inputs[n] \in Seq(Names \cup {Blank})
  BY DEF GraphType
<1>2. DOMAIN graph.inputs[n] = 1..Len(graph.inputs[n]) /\ Len(graph.inputs[n]) \in Nat
  BY <1>1, LenProperties
<1>3. IsFiniteSet(DOMAIN graph.inputs[n])
  BY <1>2, FS_Interval
<1>4. EdgeSlots(n) \in SUBSET (DOMAIN graph.inputs[n])
  BY DEF EdgeSlots
<1> QED
  BY <1>3, <1>4, FS_Subset

\* An edge of n is one of its slots.
LEMMA EdgeHasSlot ==
  ASSUME NEW n, NEW p \in Reads(n), IsEdge(p)
  PROVE  \E i \in EdgeSlots(n) : graph.inputs[n][i] = p
<1>1. PICK i \in DOMAIN graph.inputs[n] : graph.inputs[n][i] = p
  BY DEF Reads, ToSet
<1> QED
  BY <1>1 DEF EdgeSlots

\* A node without an open edge reads sorted nodes only.
LEMMA ClosedReadsSorted ==
  ASSUME NEW n, OpenSlots(n) = {}, NEW p \in Reads(n), IsEdge(p)
  PROVE  p \in ToSet(sorted)
BY EdgeHasSlot DEF OpenSlots

-----------------------------------------------------------------------------
(* The steps of the sort.                                                  *)

\* Before anything is sorted every edge is open.
LEMMA StartSortEstablishes ==
  ASSUME OrderInv, StartSort
  PROVE  OrderInv'
<1>1. /\ graph' = graph /\ passes' = passes /\ phase' = "pop" /\ sorted' = <<>>
      /\ inDegree' = [n \in NodeIDs |-> Cardinality(EdgeSlots(n))]
      /\ ready' = Kept(graph.nodes, {n \in NodeIDs : EdgeSlots(n) = {}})
      /\ graph \in GraphType /\ NodesIndexed
  BY DEF StartSort, OrderInv
<1>2. /\ NodeIDs' = NodeIDs /\ (NodesIndexed)' = NodesIndexed
      /\ \A n : EdgeSlots(n)' = EdgeSlots(n)
  BY <1>1 DEF NodeIDs, NodesIndexed, EdgeSlots, IsEdge, BoundarySet
<1>3. ToSet(sorted)' = {} /\ IsInjective(sorted)' /\ sorted' \in Seq(NodeIDs)
  BY <1>1 DEF ToSet, IsInjective
<1>4. \A n : OpenSlots(n)' = EdgeSlots(n)
  BY <1>1, <1>2, <1>3 DEF OpenSlots, EdgeSlots
<1>5. /\ ready' \in Seq(NodeIDs) /\ IsInjective(ready')
      /\ ToSet(ready') = {n \in NodeIDs : EdgeSlots(n) = {}}
  <2>1. graph.nodes \in Seq(NodeIDs) /\ IsInjective(graph.nodes)
        /\ ToSet(graph.nodes) = NodeIDs
    BY <1>1, IndexedNodes DEF NodesIndexed, NodeIDs
  <2> DEFINE roots == {n \in NodeIDs : EdgeSlots(n) = {}}
  <2>2. /\ Kept(graph.nodes, roots) \in Seq(NodeIDs)
        /\ IsInjective(Kept(graph.nodes, roots))
        /\ ToSet(Kept(graph.nodes, roots)) = NodeIDs \cap roots
    BY <2>1, KeptSelects
  <2>3. NodeIDs \cap roots = roots
    OBVIOUS
  <2> QED
    BY <1>1, <2>2, <2>3
<1>6. ProducersFirst(sorted)'
  BY <1>1 DEF ProducersFirst
<1>7. SortInv'
  BY <1>1, <1>2, <1>3, <1>4, <1>5, <1>6 DEF SortInv
<1>8. passes > 0 => ProducersFirst(graph.nodes)'
  BY <1>1 DEF OrderInv, ProducersFirst, Reads, IsEdge, NodeIDs, BoundarySet
<1> QED
  BY <1>1, <1>2, <1>7, <1>8 DEF OrderInv

\* Sorting c closes the edges that come from it, and no others.
LEMMA ClosingEdges ==
  ASSUME graph \in GraphType, NEW m \in Names, NEW c, c \notin ToSet(sorted),
         NEW rest, rest = OpenSlots(m) \ SlotsReading(m, c)
  PROVE  /\ Cardinality(rest)
              = Cardinality(OpenSlots(m)) - Cardinality(SlotsReading(m, c))
         /\ Cardinality(OpenSlots(m)) = Cardinality(SlotsReading(m, c))
              <=> rest = {}
<1>1. SlotsReading(m, c) \subseteq OpenSlots(m)
  BY DEF SlotsReading, OpenSlots
<1>2. OpenSlots(m) \in SUBSET EdgeSlots(m)
  BY DEF OpenSlots
<1>3. IsFiniteSet(OpenSlots(m)) /\ IsFiniteSet(SlotsReading(m, c)) /\ IsFiniteSet(rest)
  BY <1>1, <1>2, FiniteSlots, FS_Subset
<1>4. /\ Cardinality(rest) \in Nat /\ Cardinality(OpenSlots(m)) \in Nat
      /\ Cardinality(SlotsReading(m, c)) \in Nat
      /\ Cardinality(rest) = 0 <=> rest = {}
  BY <1>3, FS_CardinalityType, FS_EmptySet
<1>5. /\ rest \cup SlotsReading(m, c) = OpenSlots(m)
      /\ rest \cap SlotsReading(m, c) = {}
  BY <1>1
<1>6. Cardinality(OpenSlots(m)) = Cardinality(rest) + Cardinality(SlotsReading(m, c)) - 0
  BY <1>3, <1>5, FS_Union, FS_EmptySet
<1> QED
  BY <1>4, <1>6

\* Taking c from the queue closes edges only, and what it releases are the
\* nodes whose last open edge came from c.
LEMMA PopReadyCloses ==
  ASSUME OrderInv, PopReady, NEW c, c = Head(ready)
  PROVE  /\ c \in ToSet(ready) /\ c \notin ToSet(sorted)
         /\ c \in NodeIDs /\ OpenSlots(c) = {}
         /\ IsInjective(sorted') /\ sorted' \in Seq(NodeIDs)
         /\ ToSet(sorted') = ToSet(sorted) \cup {c}
         /\ \A m : OpenSlots(m)' = OpenSlots(m) \ SlotsReading(m, c)
         /\ inDegree' = [m \in NodeIDs |-> Cardinality(OpenSlots(m)')]
         /\ Released(c) = Kept(graph.nodes, {m \in NodeIDs : /\ OpenSlots(m) # {}
                                                            /\ OpenSlots(m)' = {}})
<1>1. /\ graph' = graph /\ phase = "pop" /\ ready # <<>> /\ sorted' = Append(sorted, c)
      /\ inDegree' = [m \in NodeIDs |-> inDegree[m] - Cardinality(SlotsReading(m, c))]
  BY DEF PopReady
<1>2. graph \in GraphType /\ NodesIndexed /\ SortInv
  BY <1>1 DEF OrderInv
<1>3. \A n : EdgeSlots(n)' = EdgeSlots(n)
  BY <1>1 DEF NodeIDs, EdgeSlots, IsEdge, BoundarySet
<1>4. NodeIDs \subseteq Names
  BY <1>2, IndexedNodes
<1>5. c \in ToSet(ready)
  BY <1>1, <1>2, TailWithoutHead DEF SortInv
<1>6. c \notin ToSet(sorted) /\ c \in NodeIDs /\ OpenSlots(c) = {}
  BY <1>2, <1>5 DEF SortInv
<1>7. /\ IsInjective(sorted') /\ sorted' \in Seq(NodeIDs)
      /\ ToSet(sorted') = ToSet(sorted) \cup {c}
  BY <1>1, <1>2, <1>6, AppendedOnce, AppendProperties DEF SortInv
<1>8. \A m : OpenSlots(m)' = OpenSlots(m) \ SlotsReading(m, c)
  BY <1>1, <1>3, <1>7 DEF OpenSlots, SlotsReading
<1>9. \A m \in NodeIDs :
         /\ inDegree[m] = Cardinality(OpenSlots(m))
         /\ Cardinality(OpenSlots(m)') = inDegree[m] - Cardinality(SlotsReading(m, c))
         /\ inDegree[m] = Cardinality(SlotsReading(m, c)) <=> OpenSlots(m)' = {}
  <2> SUFFICES ASSUME NEW m \in NodeIDs
               PROVE  /\ inDegree[m] = Cardinality(OpenSlots(m))
                      /\ Cardinality(OpenSlots(m)')
                           = inDegree[m] - Cardinality(SlotsReading(m, c))
                      /\ inDegree[m] = Cardinality(SlotsReading(m, c))
                           <=> OpenSlots(m)' = {}
    OBVIOUS
  <2>1. inDegree[m] = Cardinality(OpenSlots(m))
    BY <1>2 DEF SortInv
  <2> QED
    BY <2>1, <1>2, <1>4, <1>6, <1>8, ClosingEdges
<1>10. inDegree' = [m \in NodeIDs |-> Cardinality(OpenSlots(m)')]
  BY <1>1, <1>9
<1>11. {m \in NodeIDs : /\ SlotsReading(m, c) # {}
                        /\ inDegree[m] = Cardinality(SlotsReading(m, c))}
         = {m \in NodeIDs : OpenSlots(m) # {} /\ OpenSlots(m)' = {}}
  <2>1. \A m \in NodeIDs : SlotsReading(m, c) \subseteq OpenSlots(m)
    BY <1>6 DEF SlotsReading, OpenSlots
  <2>2. \A m \in NodeIDs :
           (SlotsReading(m, c) # {} /\ inDegree[m] = Cardinality(SlotsReading(m, c)))
             <=> (OpenSlots(m) # {} /\ OpenSlots(m)' = {})
    BY <1>8, <1>9, <2>1
  <2> QED
    BY <2>2
<1>12. Released(c) = Kept(graph.nodes, {m \in NodeIDs : /\ OpenSlots(m) # {}
                                                        /\ OpenSlots(m)' = {}})
  BY <1>11 DEF Released
<1> QED
  BY <1>5, <1>6, <1>7, <1>8, <1>10, <1>12

LEMMA PopReadyPreserves ==
  ASSUME OrderInv, PopReady
  PROVE  OrderInv'
<1> DEFINE c == Head(ready)
<1>1. /\ graph' = graph /\ passes' = passes /\ phase' = phase /\ phase = "pop"
      /\ ready # <<>> /\ sorted' = Append(sorted, c)
      /\ ready' = Tail(ready) \o Released(c)
  BY DEF PopReady
<1>2. graph \in GraphType /\ NodesIndexed /\ SortInv
  BY <1>1 DEF OrderInv
<1>3. /\ NodeIDs' = NodeIDs /\ (NodesIndexed)' = NodesIndexed
      /\ \A n : EdgeSlots(n)' = EdgeSlots(n) /\ Reads(n)' = Reads(n)
      /\ \A p : IsEdge(p)' = IsEdge(p)
  BY <1>1 DEF NodeIDs, NodesIndexed, EdgeSlots, IsEdge, BoundarySet, Reads
<1>4. /\ Tail(ready) \in Seq(NodeIDs)
      /\ IsInjective(Tail(ready)) /\ ToSet(Tail(ready)) = ToSet(ready) \ {c}
  BY <1>1, <1>2, TailWithoutHead DEF SortInv
<1> DEFINE closed == {m \in NodeIDs : OpenSlots(m) # {} /\ OpenSlots(m)' = {}}
<1>5. /\ c \notin ToSet(sorted) /\ c \in NodeIDs /\ OpenSlots(c) = {}
      /\ c \in ToSet(ready)
  BY PopReadyCloses
<1>6. /\ IsInjective(sorted') /\ sorted' \in Seq(NodeIDs)
      /\ ToSet(sorted') = ToSet(sorted) \cup {c}
  BY PopReadyCloses
<1>7. \A m : OpenSlots(m)' = OpenSlots(m) \ SlotsReading(m, c)
  BY PopReadyCloses
<1>8. inDegree' = [m \in NodeIDs' |-> Cardinality(OpenSlots(m)')]
  BY <1>3, PopReadyCloses
<1>9. Released(c) = Kept(graph.nodes, closed)
  BY PopReadyCloses
<1> HIDE DEF c
<1>10. /\ Released(c) \in Seq(NodeIDs) /\ IsInjective(Released(c))
       /\ ToSet(Released(c)) = closed
  <2>1. graph.nodes \in Seq(NodeIDs) /\ IsInjective(graph.nodes)
        /\ ToSet(graph.nodes) = NodeIDs
    BY <1>2, IndexedNodes DEF NodesIndexed, NodeIDs
  <2>2. /\ Kept(graph.nodes, closed) \in Seq(NodeIDs)
        /\ IsInjective(Kept(graph.nodes, closed))
        /\ ToSet(Kept(graph.nodes, closed)) = NodeIDs \cap closed
    BY <2>1, KeptSelects
  <2>3. NodeIDs \cap closed = closed
    OBVIOUS
  <2> QED
    BY <1>9, <2>2, <2>3
<1>11. \A m \in ToSet(ready) \cup ToSet(sorted) : m \in NodeIDs /\ OpenSlots(m) = {}
  BY <1>2 DEF SortInv
<1>12. ToSet(Tail(ready)) \cap closed = {}
  BY <1>4, <1>11
<1>13. /\ ready' \in Seq(NodeIDs) /\ IsInjective(ready')
       /\ ToSet(ready') = (ToSet(ready) \ {c}) \cup closed
  <2> DEFINE joined == Tail(ready) \o Released(c)
  <2> HIDE DEF closed
  <2>1. ToSet(Tail(ready)) \cap ToSet(Released(c)) = {}
    BY <1>10, <1>12
  <2>2. /\ joined \in Seq(NodeIDs) /\ IsInjective(joined)
        /\ ToSet(joined) = ToSet(Tail(ready)) \cup ToSet(Released(c))
    <3>1. \A s, t \in Seq(NodeIDs) :
             IsInjective(s) /\ IsInjective(t) /\ ToSet(s) \cap ToSet(t) = {}
               => /\ s \o t \in Seq(NodeIDs) /\ IsInjective(s \o t)
                  /\ ToSet(s \o t) = ToSet(s) \cup ToSet(t)
      BY JoinedOnce
    <3> QED
      BY <1>4, <1>10, <2>1, <3>1
  <2>3. ready' = joined
    BY <1>1
  <2> HIDE DEF joined
  <2>4. ToSet(joined) = (ToSet(ready) \ {c}) \cup closed
    BY <1>4, <1>10, <2>2
  <2> QED
    BY <2>2, <2>3, <2>4
<1>14. ToSet(ready') \cap ToSet(sorted') = {}
  BY <1>2, <1>5, <1>6, <1>11, <1>13 DEF SortInv
<1>15. ToSet(ready') \cup ToSet(sorted') = {n \in NodeIDs : OpenSlots(n)' = {}}
  <2>1. ToSet(ready') \cup ToSet(sorted') = {n \in NodeIDs : OpenSlots(n) = {}} \cup closed
    BY <1>2, <1>5, <1>6, <1>13 DEF SortInv
  <2>2. \A n \in NodeIDs : OpenSlots(n) = {} => OpenSlots(n)' = {}
    BY <1>7
  <2>3. {n \in NodeIDs : OpenSlots(n) = {}} \cup closed
          = {n \in NodeIDs : OpenSlots(n)' = {}}
    BY <2>2
  <2> QED
    BY <2>1, <2>3
<1>16. ProducersFirst(sorted)'
  <2> SUFFICES ASSUME NEW j \in DOMAIN sorted', NEW p \in Reads(sorted'[j]), IsEdge(p)
               PROVE  \E i \in 1..(j - 1) : sorted'[i] = p
    BY <1>3 DEF ProducersFirst
  <2>1. /\ DOMAIN sorted = 1..Len(sorted) /\ Len(sorted) \in Nat
        /\ DOMAIN sorted' = 1..(Len(sorted) + 1)
        /\ \A i \in 1..Len(sorted) : sorted'[i] = sorted[i]
        /\ sorted'[Len(sorted) + 1] = c
    BY <1>1, <1>2, <1>5, AppendProperties, LenProperties DEF SortInv
  <2>2. CASE j \in DOMAIN sorted
    <3>1. p \in Reads(sorted[j])
      BY <2>1, <2>2
    <3>2. PICK i \in 1..(j - 1) : sorted[i] = p
      BY <1>2, <2>2, <3>1 DEF SortInv, ProducersFirst
    <3> QED
      BY <2>1, <2>2, <3>2
  <2>3. CASE j = Len(sorted) + 1
    <3>1. p \in ToSet(sorted)
      BY <1>5, <2>1, <2>3, ClosedReadsSorted
    <3>2. PICK i \in DOMAIN sorted : sorted[i] = p
      BY <3>1 DEF ToSet
    <3> QED
      BY <2>1, <2>3, <3>2
  <2> QED
    BY <2>1, <2>2, <2>3
<1>17. SortInv'
  BY <1>3, <1>6, <1>8, <1>13, <1>14, <1>15, <1>16 DEF SortInv
<1>18. passes > 0 => ProducersFirst(graph.nodes)'
  BY <1>1, <1>3 DEF OrderInv, ProducersFirst
<1> QED
  BY <1>1, <1>2, <1>3, <1>17, <1>18 DEF OrderInv

\* All nodes sorted: the order found becomes the order of the graph.
LEMMA FinishSortPreserves ==
  ASSUME OrderInv, FinishSort
  PROVE  OrderInv'
<1>1. /\ graph \in GraphType /\ NodesIndexed /\ SortInv /\ phase = "pop" /\ ready = <<>>
      /\ inDegree' = inDegree /\ ready' = ready /\ sorted' = sorted
      /\ passes \in Nat
  BY DEF FinishSort, OrderInv
<1>2. CASE Len(sorted) # Len(graph.nodes)
  <2>1. graph' = graph /\ passes' = passes /\ phase' = "cycle"
    BY <1>1, <1>2 DEF FinishSort
  <2>2. (NodesIndexed)'
    BY <1>1, <2>1 DEF NodesIndexed, NodeIDs
  <2>3. SortInv'
    <3>1. SortInv /\ sorted' = sorted /\ inDegree' = inDegree /\ ready' = ready /\ graph' = graph
      BY <1>1, <2>1
    <3> QED
      BY <3>1 DEF SortInv, ProducersFirst, NodeIDs, Reads, IsEdge, BoundarySet, OpenSlots,
                  EdgeSlots
  <2>4. (passes > 0 => ProducersFirst(graph.nodes))'
    <3>1. (passes > 0 => ProducersFirst(graph.nodes)) /\ passes' = passes /\ graph' = graph
      BY <2>1 DEF OrderInv
    <3> QED
      BY <3>1 DEF ProducersFirst, NodeIDs, Reads, IsEdge, BoundarySet
  <2> QED
    BY <1>1, <1>2, <2>1, <2>2, <2>3, <2>4 DEF OrderInv
<1>3. CASE Len(sorted) = Len(graph.nodes)
  <2>1. /\ graph' = [graph EXCEPT !.nodes = sorted]
        /\ passes' = passes + 1 /\ phase' = "ordered"
    BY <1>1, <1>3 DEF FinishSort
  <2>2. sorted \in Seq(NodeIDs) /\ IsInjective(sorted) /\ ProducersFirst(sorted)
    BY <1>1 DEF SortInv
  <2>3. NodeIDs \subseteq Names
    BY <1>1, IndexedNodes
  <2>4. sorted \in Seq(Names \cup {Blank})
    BY <2>2, <2>3, LenProperties, SeqDef
  <2>5. /\ graph'.nodes = sorted /\ graph'.inputs = graph.inputs
        /\ graph'.boundary = graph.boundary /\ graph' \in GraphType
    BY <1>1, <2>1, <2>4 DEF GraphType
  <2>6. NodeIDs' \subseteq NodeIDs
    <3>1. \A i \in DOMAIN sorted : sorted[i] \in NodeIDs
      BY <2>2, LenProperties
    <3> QED
      BY <2>5, <3>1 DEF NodeIDs, ToSet
  <2>7. (NodesIndexed)'
    BY <1>1, <2>2, <2>5, <2>6 DEF NodesIndexed
  <2>8. ProducersFirst(graph.nodes)'
    <3> SUFFICES ASSUME NEW j \in DOMAIN sorted, NEW p \in Reads(sorted[j]), IsEdge(p)'
                 PROVE  \E i \in 1..(j - 1) : sorted[i] = p
      BY <2>5 DEF ProducersFirst, Reads
    <3>1. IsEdge(p)
      BY <2>5, <2>6 DEF IsEdge, BoundarySet
    <3> QED
      BY <2>2, <3>1 DEF ProducersFirst
  <2> QED
    BY <1>1, <2>1, <2>5, <2>7, <2>8 DEF OrderInv
<1> QED
  BY <1>2, <1>3

\* The order found names every node: none is lost.
LEMMA CompleteSortKeepsNodes ==
  ASSUME graph \in GraphType, NodesIndexed, SortInv, Len(sorted) = Len(graph.nodes)
  PROVE  ToSet(sorted) = NodeIDs
<1>1. sorted \in Seq(NodeIDs) /\ IsInjective(sorted)
  BY DEF SortInv
<1>2. Cardinality(ToSet(sorted)) = Len(sorted)
  BY <1>1, LengthIsCardinality
<1>3. ToSet(sorted) \in SUBSET NodeIDs
  BY <1>1, LenProperties DEF ToSet
<1> QED
  BY <1>2, <1>3, IndexedNodes, FS_Subset

\* Every other step leaves the graph, the sort and the passes alone.
LEMMA OtherStepsPreserve ==
  ASSUME OrderInv, UNCHANGED <<graph, inDegree, ready, sorted, passes>>,
         \/ IndexGraphNodes
         \/ ValidateGraphEdges
         \/ phase' \notin {"edges", "sort", "pop", "cycle"}
         \/ phase' = phase
  PROVE  OrderInv'
<1>1. /\ NodeIDs' = NodeIDs /\ (NodesIndexed)' = NodesIndexed
      /\ \A n : EdgeSlots(n)' = EdgeSlots(n) /\ Reads(n)' = Reads(n)
      /\ \A p : IsEdge(p)' = IsEdge(p)
      /\ \A n : OpenSlots(n)' = OpenSlots(n)
  BY DEF NodeIDs, NodesIndexed, EdgeSlots, IsEdge, BoundarySet, Reads, OpenSlots
<1>2. ProducersFirst(graph.nodes)' = ProducersFirst(graph.nodes)
  BY <1>1 DEF ProducersFirst
<1>3. ProducersFirst(sorted)' = ProducersFirst(sorted)
  BY <1>1 DEF ProducersFirst
<1>4. SortInv' = SortInv
  BY <1>1, <1>3 DEF SortInv
<1>5. phase' \in {"edges", "sort", "pop", "cycle"} => NodesIndexed
  <2>1. CASE IndexGraphNodes
    BY <2>1 DEF IndexGraphNodes, NodesIndexed
  <2>2. CASE ValidateGraphEdges
    BY <2>2 DEF ValidateGraphEdges, OrderInv
  <2>3. CASE phase' = phase
    BY <2>3 DEF OrderInv
  <2> QED
    BY <2>1, <2>2, <2>3
<1>6. phase' \in {"pop", "cycle"} => phase' = phase
  BY DEF IndexGraphNodes, ValidateGraphEdges
<1> QED
  BY <1>1, <1>2, <1>4, <1>5, <1>6 DEF OrderInv

-----------------------------------------------------------------------------
(* The invariant of the pipeline of one graph.                             *)

\* The inductive invariant holds in every reachable state.
THEOREM OrderInvIsInvariant == Spec => []OrderInv
<1>1. Init => OrderInv
  BY GraphsAssumption DEF Init, OrderInit, OrderInv
<1>2. OrderInv /\ [Next]_vars => OrderInv'
  <2> SUFFICES ASSUME OrderInv, [Next]_vars
               PROVE  OrderInv'
    OBVIOUS
  <2>1. CASE Normalize
    <3>1. CASE IndexGraphNodes
      BY <3>1, OtherStepsPreserve DEF IndexGraphNodes
    <3>2. CASE ValidateGraphEdges
      BY <3>2, OtherStepsPreserve DEF ValidateGraphEdges
    <3>3. CASE StartSort
      BY <3>3, StartSortEstablishes
    <3>4. CASE PopReady
      BY <3>4, PopReadyPreserves
    <3>5. CASE FinishSort
      BY <3>5, FinishSortPreserves
    <3> QED
      BY <2>1, <3>1, <3>2, <3>3, <3>4, <3>5 DEF Normalize, NormalizeGraph
  <2>2. CASE BuildDAG
    BY <2>2, OtherStepsPreserve DEF BuildDAG
  <2>3. CASE PeelLayer
    <3>1. phase' \in {"dagCycle", "layers"}
      BY <2>3 DEF PeelLayer
    <3> QED
      BY <2>3, <3>1, OtherStepsPreserve DEF PeelLayer
  <2>4. CASE BuildPlan
    BY <2>4, OtherStepsPreserve DEF BuildPlan
  <2>5. CASE Renormalize
    BY <2>5, OtherStepsPreserve DEF Renormalize
  <2>6. CASE UNCHANGED vars
    BY <2>6, OtherStepsPreserve DEF vars, orderVars
  <2> QED
    BY <2>1, <2>2, <2>3, <2>4, <2>5, <2>6 DEF Next
<1> QED
  BY <1>1, <1>2, PTL DEF Spec

-----------------------------------------------------------------------------
(* What the order is worth.                                                *)

LEMMA PositionInList ==
  ASSUME NEW s, IsInjective(s), NEW i \in DOMAIN s
  PROVE  Position(s, s[i]) = i
<1>1. Position(s, s[i]) \in DOMAIN s /\ s[Position(s, s[i])] = s[i]
  BY DEF Position
<1> QED
  BY <1>1 DEF IsInjective

LEMMA TopologicalFromInv ==
  ASSUME OrderInv
  PROVE  OrderedIsTopological
<1> SUFFICES ASSUME passes > 0, NEW n \in NodeIDs, NEW p \in Reads(n), IsEdge(p)
             PROVE  Position(graph.nodes, p) < Position(graph.nodes, n)
  BY DEF OrderInv, OrderedIsTopological, NodesIndexed
<1>1. IsInjective(graph.nodes) /\ ProducersFirst(graph.nodes)
  BY DEF OrderInv, NodesIndexed
<1>2. PICK j \in DOMAIN graph.nodes : graph.nodes[j] = n
  BY DEF NodeIDs, ToSet
<1>3. DOMAIN graph.nodes = 1..Len(graph.nodes) /\ Len(graph.nodes) \in Nat
  BY LenProperties DEF OrderInv, GraphType
<1>4. PICK i \in 1..(j - 1) : graph.nodes[i] = p
  BY <1>1, <1>2 DEF ProducersFirst
<1>5. i \in DOMAIN graph.nodes /\ i < j
  BY <1>2, <1>3, <1>4
<1>6. Position(graph.nodes, p) = i /\ Position(graph.nodes, n) = j
  BY <1>1, <1>2, <1>4, <1>5, PositionInList
<1> QED
  BY <1>5, <1>6

\* Nodes left unsorted when the queue runs empty wait for one another.
LEMMA LeftoverIsCyclic ==
  ASSUME OrderInv, phase = "cycle"
  PROVE  Cyclic
<1> DEFINE S == NodeIDs \ ToSet(sorted)
<1>1. /\ graph \in GraphType /\ NodesIndexed /\ SortInv
      /\ ready = <<>> /\ Len(sorted) # Len(graph.nodes)
  BY DEF OrderInv
<1>2. S # {}
  <2>1. sorted \in Seq(NodeIDs) /\ IsInjective(sorted)
    BY <1>1 DEF SortInv
  <2>2. ToSet(sorted) \subseteq NodeIDs
    BY <2>1, LenProperties DEF ToSet
  <2>3. Cardinality(ToSet(sorted)) = Len(sorted)
    BY <2>1, LengthIsCardinality
  <2>4. Cardinality(NodeIDs) = Len(graph.nodes)
    BY <1>1, IndexedNodes
  <2> QED
    <3> SUFFICES ASSUME S = {}
                 PROVE  FALSE
      OBVIOUS
    <3>1. ToSet(sorted) = NodeIDs
      BY <2>2
    <3> QED
      BY <1>1, <2>3, <2>4, <3>1
<1>3. \A n \in S : \E p \in Reads(n) \cap S : IsEdge(p)
  <2> SUFFICES ASSUME NEW n \in S
               PROVE  \E p \in Reads(n) \cap S : IsEdge(p)
    OBVIOUS
  <2>1. ToSet(ready) = {}
    BY <1>1 DEF ToSet
  <2>2. OpenSlots(n) # {}
    BY <1>1, <2>1 DEF SortInv
  <2>3. PICK i \in EdgeSlots(n) : graph.inputs[n][i] \notin ToSet(sorted)
    BY <2>2 DEF OpenSlots
  <2>4. IsEdge(graph.inputs[n][i]) /\ graph.inputs[n][i] \in Reads(n)
    BY <2>3 DEF EdgeSlots, Reads, ToSet
  <2>5. graph.inputs[n][i] \in S
    BY <2>3, <2>4 DEF IsEdge
  <2> QED
    BY <2>4, <2>5
<1> QED
  BY <1>2, <1>3 DEF Cyclic

\* A list with the producers first has no cycle: take its earliest member.
LEMMA OrderedIsAcyclic ==
  ASSUME OrderInv, passes > 0
  PROVE  ~Cyclic
<1> SUFFICES ASSUME NEW S \in SUBSET NodeIDs, S # {},
                    \A n \in S : \E p \in Reads(n) \cap S : IsEdge(p)
             PROVE  FALSE
  BY DEF Cyclic
<1> DEFINE K == {i \in DOMAIN graph.nodes : graph.nodes[i] \in S}
<1>1. DOMAIN graph.nodes = 1..Len(graph.nodes) /\ Len(graph.nodes) \in Nat
  BY LenProperties DEF OrderInv, GraphType
<1>2. K \subseteq Nat /\ K # {}
  BY <1>1 DEF NodeIDs, ToSet
<1>3. PICK m \in K : \A k \in K : ~(k < m)
  <2>1. PICK m \in K : \A k \in K : ~(<<k, m>> \in OpToRel(<, Nat))
    BY <1>2, NatLessThanWellFounded, WFMin
  <2> QED
    BY <1>2, <2>1 DEF OpToRel
<1>4. PICK p \in Reads(graph.nodes[m]) \cap S : IsEdge(p)
  OBVIOUS
<1>5. PICK i \in 1..(m - 1) : graph.nodes[i] = p
  BY <1>4 DEF OrderInv, ProducersFirst
<1>6. i \in K /\ i < m
  BY <1>1, <1>4, <1>5
<1> QED
  BY <1>3, <1>6

-----------------------------------------------------------------------------

\* NormalizeGraph installs an order in which producers precede their readers.
THEOREM OrderIsTopological == Spec => []OrderedIsTopological
<1>1. OrderInv => OrderedIsTopological
  BY TopologicalFromInv
<1> QED
  BY <1>1, OrderInvIsInvariant, PTL

\* NormalizeGraph reports a cycle when the edges have one, and only then.
THEOREM CycleReports == Spec => []CycleReportIsExact
<1>1. OrderInv => CycleReportIsExact
  BY LeftoverIsCyclic, OrderedIsAcyclic DEF CycleReportIsExact
<1> QED
  BY <1>1, OrderInvIsInvariant, PTL

\* No step adds a node to the graph or loses one.
THEOREM NodesAreKept == Spec => [][ToSet(graph'.nodes) = ToSet(graph.nodes)]_vars
<1>1. OrderInv /\ [Next]_vars => [ToSet(graph'.nodes) = ToSet(graph.nodes)]_vars
  <2> SUFFICES ASSUME OrderInv, Next
               PROVE  ToSet(graph'.nodes) = ToSet(graph.nodes)
    OBVIOUS
  <2>1. CASE FinishSort /\ Len(sorted) = Len(graph.nodes)
    <3>1. graph \in GraphType /\ NodesIndexed /\ SortInv
      BY <2>1 DEF OrderInv, FinishSort
    <3>2. graph'.nodes = sorted
      BY <2>1, <3>1 DEF FinishSort, GraphType
    <3> QED
      BY <2>1, <3>1, <3>2, CompleteSortKeepsNodes DEF NodeIDs
  <2>2. CASE ~(FinishSort /\ Len(sorted) = Len(graph.nodes))
    <3>1. graph' = graph
      BY <2>2 DEF Next, Normalize, NormalizeGraph, IndexGraphNodes, ValidateGraphEdges,
                  StartSort, PopReady, FinishSort, BuildDAG, PeelLayer, BuildPlan,
                  Renormalize
    <3> QED
      BY <3>1
  <2> QED
    BY <2>1, <2>2
<1> QED
  BY <1>1, OrderInvIsInvariant, PTL DEF Spec

-----------------------------------------------------------------------------
(* A second sort finds the order it is given.                              *)

Edge(p, n) == p \in Reads(n) /\ IsEdge(p)

\* A name of the list s reads nothing behind the last producer of a later one.
ByLastProducer(s) ==
  \A j \in DOMAIN s : \A i \in 1..(j - 1) : \A a \in DOMAIN s :
    Edge(s[a], s[i]) => \E b \in DOMAIN s : a <= b /\ Edge(s[b], s[j])

Queue == sorted \o ready

\* The queue grows in the order of last producers, and follows the list of an
\* ordered graph.
StableInv ==
  /\ phase = "pop" => ByLastProducer(Queue)
  /\ passes > 0 => ByLastProducer(graph.nodes)
  /\ phase = "pop" /\ passes > 0 =>
       /\ Len(Queue) <= Len(graph.nodes)
       /\ \A i \in 1..Len(Queue) : Queue[i] = graph.nodes[i]

LEMMA OpenEdges ==
  ASSUME NEW n
  PROVE  OpenSlots(n) = {} <=> \A p : Edge(p, n) => p \in ToSet(sorted)
<1>1. ASSUME NEW p, Edge(p, n), OpenSlots(n) = {}
      PROVE  p \in ToSet(sorted)
  BY <1>1, ClosedReadsSorted DEF Edge
<1>2. ASSUME NEW i \in OpenSlots(n)
      PROVE  Edge(graph.inputs[n][i], n) /\ graph.inputs[n][i] \notin ToSet(sorted)
  BY <1>2 DEF OpenSlots, EdgeSlots, Edge, Reads, ToSet
<1> QED
  BY <1>1, <1>2

LEMMA QueueParts ==
  ASSUME SortInv
  PROVE  /\ Queue \in Seq(NodeIDs) /\ IsInjective(Queue)
         /\ ToSet(Queue) = {n \in NodeIDs : OpenSlots(n) = {}}
         /\ Len(sorted) \in Nat /\ Len(ready) \in Nat
         /\ Len(Queue) = Len(sorted) + Len(ready)
         /\ DOMAIN Queue = 1..Len(Queue)
         /\ DOMAIN sorted = 1..Len(sorted)
         /\ \A i \in 1..Len(sorted) : Queue[i] = sorted[i]
         /\ \A i \in 1..Len(ready) : Queue[Len(sorted) + i] = ready[i]
         /\ \A i \in DOMAIN Queue : Queue[i] \in ToSet(sorted) => i <= Len(sorted)
<1>1. /\ ready \in Seq(NodeIDs) /\ IsInjective(ready)
      /\ sorted \in Seq(NodeIDs) /\ IsInjective(sorted)
      /\ ToSet(ready) \cap ToSet(sorted) = {}
      /\ ToSet(ready) \cup ToSet(sorted) = {n \in NodeIDs : OpenSlots(n) = {}}
  BY DEF SortInv
<1>2. /\ Queue \in Seq(NodeIDs) /\ IsInjective(Queue)
      /\ ToSet(Queue) = ToSet(sorted) \cup ToSet(ready)
  <2>1. \A s, t \in Seq(NodeIDs) :
           IsInjective(s) /\ IsInjective(t) /\ ToSet(s) \cap ToSet(t) = {}
             => /\ s \o t \in Seq(NodeIDs) /\ IsInjective(s \o t)
                /\ ToSet(s \o t) = ToSet(s) \cup ToSet(t)
    BY JoinedOnce
  <2>2. ToSet(sorted) \cap ToSet(ready) = {}
    BY <1>1
  <2> QED
    BY <1>1, <2>1, <2>2 DEF Queue
<1>3. /\ Len(sorted) \in Nat /\ Len(ready) \in Nat
      /\ DOMAIN sorted = 1..Len(sorted) /\ DOMAIN Queue = 1..Len(Queue)
      /\ Len(Queue) = Len(sorted) + Len(ready)
      /\ \A i \in 1..Len(sorted) : Queue[i] = sorted[i]
      /\ \A i \in 1..Len(ready) : Queue[Len(sorted) + i] = ready[i]
      /\ \A i \in DOMAIN Queue : i <= Len(sorted) \/ Queue[i] \in ToSet(ready)
  <2>1. \A i \in DOMAIN ready : ready[i] \in ToSet(ready)
    BY DEF ToSet
  <2> QED
    BY <1>1, <2>1, JoinedPositions DEF Queue
<1> QED
  BY <1>1, <1>2, <1>3

\* What reads only the first k of a list in the order of last producers is
\* itself an initial part of the list.
LEMMA ReadyIsPrefix ==
  ASSUME graph \in GraphType, NodesIndexed, ByLastProducer(graph.nodes),
         NEW k \in 0..Len(graph.nodes)
  PROVE  \E m \in 0..Len(graph.nodes) : \A i \in DOMAIN graph.nodes :
            (\A p : Edge(p, graph.nodes[i]) => \E a \in 1..k : graph.nodes[a] = p)
               <=> i <= m
<1> DEFINE Closed(i) == \A p : Edge(p, graph.nodes[i]) =>
                                  \E a \in 1..k : graph.nodes[a] = p
           K == {i \in DOMAIN graph.nodes : Closed(i)}
<1>1. DOMAIN graph.nodes = 1..Len(graph.nodes) /\ Len(graph.nodes) \in Nat
  BY LenProperties DEF GraphType
<1>2. ASSUME NEW j \in K, NEW i \in 1..(j - 1)
      PROVE  i \in K
  <2> SUFFICES ASSUME NEW p, Edge(p, graph.nodes[i])
               PROVE  \E a \in 1..k : graph.nodes[a] = p
    BY <1>1
  <2>1. PICK a \in DOMAIN graph.nodes : graph.nodes[a] = p
    BY DEF Edge, IsEdge, NodeIDs, ToSet
  <2>2. PICK b \in DOMAIN graph.nodes : a <= b /\ Edge(graph.nodes[b], graph.nodes[j])
    BY <1>1, <2>1 DEF ByLastProducer
  <2>3. PICK d \in 1..k : graph.nodes[d] = graph.nodes[b]
    BY <2>2
  <2>4. d \in DOMAIN graph.nodes
    BY <1>1
  <2>5. d = b
    BY <2>3, <2>4 DEF NodesIndexed, IsInjective
  <2>6. a \in 1..k
    BY <1>1, <2>2, <2>5
  <2> QED
    BY <2>1, <2>6
<1> HIDE DEF Closed
<1>3. PICK m \in 0..Len(graph.nodes) : K = 1..m
  <2>1. \A n \in Nat : \A S \in SUBSET (1..n) :
          (\A j \in S : \A i \in 1..(j - 1) : i \in S) => \E m \in 0..n : S = 1..m
    BY InitialSegment
  <2>2. K \in SUBSET (1..Len(graph.nodes))
    BY <1>1
  <2> HIDE DEF K
  <2> QED
    BY <1>1, <1>2, <2>1, <2>2
<1>4. \A i \in DOMAIN graph.nodes : Closed(i) <=> i <= m
  BY <1>1, <1>3
<1> QED
  BY <1>4 DEF Closed

LEMMA StartSortKeepsStable ==
  ASSUME OrderInv, StableInv, StartSort
  PROVE  StableInv'
<1>1. /\ graph' = graph /\ passes' = passes /\ phase' = "pop" /\ sorted' = <<>>
      /\ ready' = Kept(graph.nodes, {n \in NodeIDs : EdgeSlots(n) = {}})
      /\ graph \in GraphType /\ NodesIndexed
      /\ passes > 0 => ByLastProducer(graph.nodes)
  BY DEF StartSort, OrderInv, StableInv
<1> DEFINE roots == {n \in NodeIDs : EdgeSlots(n) = {}}
<1>2. \A p, n : Edge(p, n)' = Edge(p, n)
  BY <1>1 DEF Edge, Reads, IsEdge, NodeIDs, BoundarySet
<1>3. graph.nodes \in Seq(NodeIDs) /\ NodeIDs = ToSet(graph.nodes)
      /\ DOMAIN graph.nodes = 1..Len(graph.nodes) /\ Len(graph.nodes) \in Nat
  BY <1>1, IndexedNodes, LenProperties DEF NodeIDs
<1>4. /\ ready' \in Seq(NodeIDs)
      /\ \A j \in DOMAIN ready' : ready'[j] \in roots
  <2>1. \A list \in Seq(NodeIDs) : \A S :
          /\ Kept(list, S) \in Seq(NodeIDs)
          /\ \A j \in DOMAIN Kept(list, S) : Kept(list, S)[j] \in S
    <3> SUFFICES ASSUME NEW list \in Seq(NodeIDs), NEW S
                 PROVE  /\ Kept(list, S) \in Seq(NodeIDs)
                        /\ \A j \in DOMAIN Kept(list, S) : Kept(list, S)[j] \in S
      OBVIOUS
    <3> QED
      BY KeptInOrder
  <2>2. ready' = Kept(graph.nodes, roots)
    BY <1>1
  <2> HIDE DEF roots
  <2> QED
    BY <1>3, <2>1, <2>2
<1>5. Queue' = ready'
  <2>1. \A s \in Seq(NodeIDs) : <<>> \o s = s
    BY ConcatEmptySeq
  <2> QED
    BY <1>1, <1>4, <2>1 DEF Queue
<1>6. \A n : EdgeSlots(n) = {} <=> \A p : ~Edge(p, n)
  BY EdgeHasSlot DEF Edge, EdgeSlots, Reads, ToSet
<1>7. ByLastProducer(Queue)'
  <2>1. \A i \in DOMAIN ready' : \A p : ~Edge(p, ready'[i])
    BY <1>4, <1>6
  <2>2. \A j \in DOMAIN ready' : 1..(j - 1) \subseteq DOMAIN ready'
    <3>1. DOMAIN ready' = 1..Len(ready') /\ Len(ready') \in Nat
      BY <1>4, LenProperties
    <3> QED
      BY <3>1
  <2> QED
    BY <1>2, <1>5, <2>1, <2>2 DEF ByLastProducer
<1>8. ASSUME passes > 0
      PROVE  /\ Len(ready') <= Len(graph.nodes)
             /\ \A i \in 1..Len(ready') : ready'[i] = graph.nodes[i]
  <2>1. PICK m \in 0..Len(graph.nodes) : \A i \in DOMAIN graph.nodes :
            (\A p : Edge(p, graph.nodes[i]) => \E a \in 1..0 : graph.nodes[a] = p)
               <=> i <= m
    <3>1. ByLastProducer(graph.nodes) /\ 0 \in 0..Len(graph.nodes)
      BY <1>1, <1>3, <1>8
    <3> QED
      BY <1>1, <3>1, ReadyIsPrefix
  <2>2. \A i \in DOMAIN graph.nodes : graph.nodes[i] \in roots <=> 0 < i /\ i <= m
    <3>1. \A i \in DOMAIN graph.nodes : graph.nodes[i] \in NodeIDs /\ 0 < i
      BY <1>3 DEF ToSet
    <3>2. \A p : ~\E a \in 1..0 : graph.nodes[a] = p
      OBVIOUS
    <3>3. \A i \in DOMAIN graph.nodes : (\A p : ~Edge(p, graph.nodes[i])) <=> i <= m
      BY <2>1, <3>2, Zenon
    <3>4. \A i \in DOMAIN graph.nodes : EdgeSlots(graph.nodes[i]) = {} <=> i <= m
      BY <1>6, <3>3, Zenon
    <3> QED
      BY <3>1, <3>4
  <2> HIDE DEF roots
  <2>3. 0 \in Nat /\ m \in Nat /\ 0 <= m /\ m <= Len(graph.nodes)
    BY <1>3
  <2>4. /\ Len(Kept(graph.nodes, roots)) = m - 0
        /\ \A j \in 1..(m - 0) : Kept(graph.nodes, roots)[j] = graph.nodes[0 + j]
    <3>1. IsBlock(graph.nodes, roots, 0, m)
      BY <2>2, <2>3 DEF IsBlock
    <3> QED
      BY <1>3, <2>3, <3>1, KeptBlock
  <2>5. ready' = Kept(graph.nodes, roots)
    BY <1>1 DEF roots
  <2>6. m - 0 = m /\ \A j \in 1..m : 0 + j = j
    BY <2>3
  <2> QED
    BY <2>3, <2>4, <2>5, <2>6
<1>9. passes > 0 => ByLastProducer(graph.nodes)'
  BY <1>1, <1>2 DEF ByLastProducer
<1> QED
  BY <1>1, <1>5, <1>7, <1>8, <1>9 DEF StableInv

\* The producers of a queued node are sorted, so their positions in the queue
\* are too; a released node reads the last of them.
LEMMA PopReadyKeepsOrder ==
  ASSUME OrderInv, StableInv, PopReady
  PROVE  /\ ByLastProducer(Queue)'
         /\ Queue' = Queue \o Released(Head(ready))
         /\ Queue[Len(sorted) + 1] = Head(ready) /\ Len(sorted) + 1 <= Len(Queue)
<1> DEFINE c == Head(ready)
           freed == Released(c)
           here == Len(sorted) + 1
<1>1. /\ graph' = graph /\ phase = "pop" /\ ready # <<>>
      /\ sorted' = Append(sorted, c) /\ ready' = Tail(ready) \o freed
      /\ SortInv /\ ByLastProducer(Queue)
  BY DEF PopReady, OrderInv, StableInv
<1>2. SortInv'
  BY <1>1, PopReadyPreserves DEF OrderInv, PopReady
<1>3. \A p, n : Edge(p, n)' = Edge(p, n)
  BY <1>1 DEF Edge, Reads, IsEdge, NodeIDs, BoundarySet
<1>4. /\ Queue \in Seq(NodeIDs) /\ DOMAIN Queue = 1..Len(Queue)
      /\ Len(sorted) \in Nat /\ Len(ready) \in Nat
      /\ Len(Queue) = Len(sorted) + Len(ready)
      /\ \A i \in DOMAIN Queue : OpenSlots(Queue[i]) = {}
      /\ \A i \in DOMAIN Queue : Queue[i] \in ToSet(sorted) => i <= Len(sorted)
      /\ \A i \in 1..Len(sorted) : Queue[i] = sorted[i]
      /\ \A i \in 1..Len(ready) : Queue[Len(sorted) + i] = ready[i]
  BY <1>1, QueueParts DEF ToSet
<1>5. /\ Queue' \in Seq(NodeIDs') /\ DOMAIN Queue' = 1..Len(Queue')
      /\ \A i \in DOMAIN Queue' : i > Len(sorted') => Queue'[i] \in ToSet(ready')
      /\ \A i \in DOMAIN Queue' : Queue'[i] \in ToSet(sorted') \cup ToSet(ready')
  <2>1. ready' \in Seq(NodeIDs') /\ sorted' \in Seq(NodeIDs')
    BY <1>2 DEF SortInv
  <2>2. /\ \A i \in DOMAIN ready' : ready'[i] \in ToSet(ready')
        /\ \A i \in DOMAIN sorted' : sorted'[i] \in ToSet(sorted')
    BY DEF ToSet
  <2> QED
    BY <2>1, <2>2, JoinedPositions DEF Queue
<1>6. /\ ready \in Seq(NodeIDs) /\ sorted \in Seq(NodeIDs) /\ Len(ready) # 0
      /\ c = ready[1] /\ c \in NodeIDs /\ c \notin ToSet(sorted)
  <2>1. c \in NodeIDs /\ c \notin ToSet(sorted)
    BY PopReadyCloses
  <2> QED
    BY <1>1, <2>1, EmptySeq DEF SortInv
<1>7. freed \in Seq(NodeIDs)
  <2>1. NodeIDs = ToSet(graph.nodes) /\ graph.nodes \in Seq(NodeIDs)
    BY <1>1, IndexedNodes DEF NodeIDs, OrderInv
  <2>2. \A S : Kept(graph.nodes, S) \in Seq(NodeIDs)
    BY <2>1, KeptInOrder
  <2> QED
    BY <2>2 DEF Released
<1>8. Queue[here] = c /\ here \in DOMAIN Queue /\ here <= Len(Queue)
  BY <1>4, <1>6
<1>9. Queue' = Queue \o freed
  <2> HIDE DEF c, freed
  <2>1. Queue' = (sorted \o <<c>>) \o (Tail(ready) \o freed)
    BY <1>1, <1>6, AppendIsConcat DEF Queue
  <2>2. /\ <<c>> \in Seq(NodeIDs) /\ Tail(ready) \in Seq(NodeIDs)
        /\ ready = <<c>> \o Tail(ready)
    BY <1>1, <1>6 DEF c
  <2>3. \A s, t, u \in Seq(NodeIDs) :
          s \o t \in Seq(NodeIDs) /\ (s \o t) \o u = s \o (t \o u)
    <3>1. \A s, t \in Seq(NodeIDs) : s \o t \in Seq(NodeIDs)
      BY ConcatProperties
    <3>2. \A s, t, u \in Seq(NodeIDs) : (s \o t) \o u = s \o (t \o u)
      BY ConcatAssociative
    <3> QED
      BY <3>1, <3>2
  <2>4. Queue' = sorted \o (<<c>> \o (Tail(ready) \o freed))
    <3>1. Tail(ready) \o freed \in Seq(NodeIDs)
      BY <1>7, <2>2, <2>3
    <3>2. sorted \in Seq(NodeIDs)
      BY <1>6
    <3> QED
      BY <2>1, <2>2, <2>3, <3>1, <3>2
  <2>5. <<c>> \o (Tail(ready) \o freed) = ready \o freed
    BY <1>7, <2>2, <2>3
  <2>6. sorted \o (ready \o freed) = Queue \o freed
    BY <1>6, <1>7, <2>3 DEF Queue
  <2> QED
    BY <2>4, <2>5, <2>6
<1>10. /\ Len(Queue') = Len(Queue) + Len(freed) /\ Len(freed) \in Nat
       /\ \A i \in 1..Len(Queue) : Queue'[i] = Queue[i]
       /\ \A i \in DOMAIN Queue' : i > Len(Queue) =>
            i - Len(Queue) \in DOMAIN freed /\ Queue'[i] = freed[i - Len(Queue)]
  <2> SUFFICES ASSUME NEW q, q = Queue, NEW f, f = freed
               PROVE  /\ Len(q \o f) = Len(q) + Len(f) /\ Len(f) \in Nat
                      /\ \A i \in 1..Len(q) : (q \o f)[i] = q[i]
                      /\ \A i \in DOMAIN (q \o f) : i > Len(q) =>
                           i - Len(q) \in DOMAIN f /\ (q \o f)[i] = f[i - Len(q)]
    BY <1>9, Zenon
  <2> HIDE DEF c, freed
  <2>1. q \in Seq(NodeIDs) /\ f \in Seq(NodeIDs)
    BY <1>4, <1>7
  <2> QED
    BY <2>1, JoinedPositions
<1>11. Len(sorted') = here
  BY <1>1, <1>6
<1>12. \A i \in DOMAIN Queue : i \in DOMAIN Queue' /\ Queue'[i] = Queue[i]
  BY <1>4, <1>5, <1>10
<1>13. \A i, a \in DOMAIN Queue' : Edge(Queue'[a], Queue'[i]) => a <= here
  <2> SUFFICES ASSUME NEW i \in DOMAIN Queue', NEW a \in DOMAIN Queue',
                      Edge(Queue'[a], Queue'[i])
               PROVE  a <= here
    OBVIOUS
  <2>1. PICK n : n = Queue'[i]
    OBVIOUS
  <2>2. OpenSlots(n)' = {}
    BY <1>2, <1>5, <2>1 DEF SortInv
  <2>3. PICK k \in EdgeSlots(n) : graph.inputs[n][k] = Queue'[a]
    BY <2>1, EdgeHasSlot DEF Edge
  <2>4. EdgeSlots(n)' = EdgeSlots(n)
    BY <1>1 DEF EdgeSlots, IsEdge, NodeIDs, BoundarySet
  <2>5. Queue'[a] \in ToSet(sorted')
    BY <1>1, <2>2, <2>3, <2>4 DEF OpenSlots
  <2> QED
    BY <1>2, <1>4, <1>5, <1>11, <2>5 DEF SortInv
<1>14. \A i, a \in DOMAIN Queue : Edge(Queue[a], Queue[i]) => a <= Len(sorted)
  BY <1>4, OpenEdges
<1>15. \A j \in DOMAIN Queue' : j \notin DOMAIN Queue => Edge(c, Queue'[j])
  <2> SUFFICES ASSUME NEW j \in DOMAIN Queue', j \notin DOMAIN Queue
               PROVE  Edge(c, Queue'[j])
    OBVIOUS
  <2>1. j - Len(Queue) \in DOMAIN freed /\ Queue'[j] = freed[j - Len(Queue)]
    BY <1>4, <1>5, <1>7, <1>10, LenProperties
  <2>2. freed[j - Len(Queue)] \in {m \in NodeIDs : OpenSlots(m) # {} /\ OpenSlots(m)' = {}}
    <3>1. freed = Kept(graph.nodes, {m \in NodeIDs : /\ OpenSlots(m) # {}
                                                     /\ OpenSlots(m)' = {}})
      BY PopReadyCloses
    <3>2. graph.nodes \in Seq(Names \cup {Blank})
      BY <1>1 DEF OrderInv, GraphType
    <3>3. \A S : \A k \in DOMAIN Kept(graph.nodes, S) : Kept(graph.nodes, S)[k] \in S
      <4> SUFFICES ASSUME NEW S
                   PROVE  \A k \in DOMAIN Kept(graph.nodes, S) : Kept(graph.nodes, S)[k] \in S
        OBVIOUS
      <4> QED
        BY <3>2, KeptInOrder
    <3> HIDE DEF freed
    <3> QED
      BY <2>1, <3>1, <3>3
  <2>3. PICK m : m = freed[j - Len(Queue)] /\ OpenSlots(m) # {} /\ OpenSlots(m)' = {}
    BY <2>2
  <2>4. OpenSlots(m)' = OpenSlots(m) \ SlotsReading(m, c)
    BY PopReadyCloses
  <2>5. PICK i : i \in SlotsReading(m, c)
    BY <2>3, <2>4
  <2> QED
    BY <2>1, <2>3, <2>5 DEF SlotsReading, EdgeSlots, Edge, Reads, ToSet
<1> HIDE DEF c, freed
<1>16. ByLastProducer(Queue)'
  <2> SUFFICES ASSUME NEW j \in DOMAIN Queue', NEW i \in 1..(j - 1),
                      NEW a \in DOMAIN Queue', Edge(Queue'[a], Queue'[i])
               PROVE  \E b \in DOMAIN Queue' : a <= b /\ Edge(Queue'[b], Queue'[j])
    BY <1>3 DEF ByLastProducer
  <2>1. i \in DOMAIN Queue' /\ a <= here
    BY <1>5, <1>13
  <2>2. CASE j \in DOMAIN Queue
    <3>1. i \in DOMAIN Queue /\ a \in DOMAIN Queue
      BY <1>4, <1>5, <1>8, <2>1, <2>2
    <3>2. Edge(Queue[a], Queue[i])
      BY <1>12, <3>1
    <3>3. PICK b \in DOMAIN Queue : a <= b /\ Edge(Queue[b], Queue[j])
      BY <1>1, <2>2, <3>1, <3>2 DEF ByLastProducer
    <3> QED
      BY <1>12, <2>2, <3>3
  <2>3. CASE j \notin DOMAIN Queue
    <3>1. here \in DOMAIN Queue' /\ Queue'[here] = c
      BY <1>8, <1>12
    <3> QED
      BY <1>15, <2>1, <2>3, <3>1
  <2> QED
    BY <2>2, <2>3
<1> QED
  BY <1>8, <1>9, <1>16 DEF c, freed

\* The nodes a sort of an ordered graph releases are the next of its list.
LEMMA PopReadyKeepsPrefix ==
  ASSUME OrderInv, StableInv, PopReady, passes > 0
  PROVE  /\ Len(Queue') <= Len(graph.nodes)
         /\ \A i \in 1..Len(Queue') : Queue'[i] = graph.nodes[i]
<1> DEFINE c == Head(ready)
           freed == Released(c)
           here == Len(sorted) + 1
           closed == {m \in NodeIDs : OpenSlots(m) # {} /\ OpenSlots(m)' = {}}
<1>1. /\ graph' = graph /\ phase = "pop" /\ graph \in GraphType /\ NodesIndexed
      /\ SortInv /\ ByLastProducer(graph.nodes)
      /\ Len(Queue) <= Len(graph.nodes)
      /\ \A i \in 1..Len(Queue) : Queue[i] = graph.nodes[i]
  BY DEF PopReady, OrderInv, StableInv
<1>2. /\ graph.nodes \in Seq(NodeIDs) /\ NodeIDs = ToSet(graph.nodes)
      /\ DOMAIN graph.nodes = 1..Len(graph.nodes) /\ Len(graph.nodes) \in Nat
      /\ \A i, j \in DOMAIN graph.nodes : graph.nodes[i] = graph.nodes[j] => i = j
  BY <1>1, IndexedNodes, LenProperties DEF NodeIDs, NodesIndexed, IsInjective
<1>3. /\ Queue \in Seq(NodeIDs) /\ DOMAIN Queue = 1..Len(Queue) /\ Len(Queue) \in Nat
      /\ ToSet(Queue) = {n \in NodeIDs : OpenSlots(n) = {}}
      /\ Len(sorted) \in Nat
      /\ \A i \in 1..Len(sorted) : Queue[i] = sorted[i]
      /\ DOMAIN sorted = 1..Len(sorted)
  BY <1>1, QueueParts, LenProperties
<1>4. /\ Queue' = Queue \o freed /\ Queue[here] = c /\ here <= Len(Queue)
  BY PopReadyKeepsOrder
<1>5. /\ ToSet(sorted') = ToSet(sorted) \cup {c}
      /\ freed = Kept(graph.nodes, closed)
      /\ \A m : OpenSlots(m) = {} => OpenSlots(m)' = {}
  <2>1. ToSet(sorted') = ToSet(sorted) \cup {c} /\ freed = Kept(graph.nodes, closed)
    BY PopReadyCloses
  <2>2. \A m : OpenSlots(m)' = OpenSlots(m) \ SlotsReading(m, c)
    BY PopReadyCloses
  <2>3. \A m : OpenSlots(m) = {} => OpenSlots(m)' = {}
    BY <2>2
  <2> QED
    BY <2>1, <2>3
<1> HIDE DEF c, freed, closed
<1>6. ToSet(sorted') = {graph.nodes[a] : a \in 1..here}
  <2>1. \A a \in 1..Len(sorted) : graph.nodes[a] = sorted[a]
    BY <1>1, <1>3, <1>4
  <2>2. graph.nodes[here] = c
    BY <1>1, <1>3, <1>4
  <2>3. ToSet(sorted) = {graph.nodes[a] : a \in 1..Len(sorted)}
    BY <1>3, <2>1 DEF ToSet
  <2>4. 1..here = 1..Len(sorted) \cup {here}
    BY <1>3
  <2> HIDE DEF here
  <2> QED
    BY <1>5, <2>2, <2>3, <2>4
<1>7. PICK m \in 0..Len(graph.nodes) : \A i \in DOMAIN graph.nodes :
        (\A p : Edge(p, graph.nodes[i]) => \E a \in 1..here : graph.nodes[a] = p)
           <=> i <= m
  <2>1. here \in 0..Len(graph.nodes)
    BY <1>1, <1>2, <1>3, <1>4
  <2> HIDE DEF here
  <2> QED
    BY <1>1, <2>1, ReadyIsPrefix
<1>8. \A n : \A i \in DOMAIN graph.nodes :
         graph.nodes[i] = n => (OpenSlots(n)' = {} <=> i <= m)
  <2> SUFFICES ASSUME NEW n, NEW i \in DOMAIN graph.nodes, n = graph.nodes[i]
               PROVE  OpenSlots(n)' = {} <=> i <= m
    OBVIOUS
  <2>1. OpenSlots(n)' = {k \in EdgeSlots(n) : graph.inputs[n][k] \notin ToSet(sorted')}
    BY <1>1 DEF OpenSlots, EdgeSlots, IsEdge, NodeIDs, BoundarySet
  <2>2. OpenSlots(n)' = {} <=> \A p : Edge(p, n) => p \in ToSet(sorted')
    <3>1. \A k \in EdgeSlots(n) : Edge(graph.inputs[n][k], n)
      BY DEF EdgeSlots, Edge, Reads, ToSet
    <3>2. \A p : Edge(p, n) => \E k \in EdgeSlots(n) : graph.inputs[n][k] = p
      BY EdgeHasSlot DEF Edge
    <3> QED
      BY <2>1, <3>1, <3>2
  <2>3. \A p : p \in ToSet(sorted') <=> \E a \in 1..here : graph.nodes[a] = p
    BY <1>6
  <2>4. (\A p : Edge(p, n) => \E a \in 1..here : graph.nodes[a] = p) <=> i <= m
    BY <1>7
  <2> QED
    BY <2>2, <2>3, <2>4, Zenon
<1>9. \A n : \A i \in DOMAIN graph.nodes :
         graph.nodes[i] = n => (OpenSlots(n) = {} <=> i <= Len(Queue))
  <2> SUFFICES ASSUME NEW i \in DOMAIN graph.nodes
               PROVE  OpenSlots(graph.nodes[i]) = {} <=> i <= Len(Queue)
    OBVIOUS
  <2>1. graph.nodes[i] \in NodeIDs
    BY <1>2 DEF ToSet
  <2>2. OpenSlots(graph.nodes[i]) = {} <=> graph.nodes[i] \in ToSet(Queue)
    BY <1>3, <2>1
  <2>3. ASSUME i <= Len(Queue) PROVE graph.nodes[i] \in ToSet(Queue)
    <3>1. i \in DOMAIN Queue /\ Queue[i] = graph.nodes[i]
      BY <1>1, <1>2, <1>3, <2>3
    <3> QED
      BY <3>1 DEF ToSet
  <2>4. ASSUME graph.nodes[i] \in ToSet(Queue) PROVE i <= Len(Queue)
    <3>1. PICK k \in DOMAIN Queue : Queue[k] = graph.nodes[i]
      BY <2>4 DEF ToSet
    <3>2. k \in DOMAIN graph.nodes /\ graph.nodes[k] = graph.nodes[i]
      BY <1>1, <1>2, <1>3, <3>1
    <3>3. k = i
      BY <1>2, <3>2
    <3> QED
      BY <1>3, <3>1, <3>3
  <2> QED
    BY <2>2, <2>3, <2>4
<1>10. Len(Queue) <= m /\ m \in Nat /\ m <= Len(graph.nodes)
  <2>1. m \in Nat /\ m <= Len(graph.nodes)
    BY <1>2
  <2>2. CASE Len(Queue) = 0
    BY <2>1, <2>2
  <2>3. CASE Len(Queue) # 0
    <3>1. Len(Queue) \in DOMAIN graph.nodes
      BY <1>1, <1>2, <1>3, <2>3
    <3>2. PICK n : n = graph.nodes[Len(Queue)]
      OBVIOUS
    <3>3. Len(Queue) <= Len(Queue)
      BY <1>3
    <3>4. OpenSlots(n) = {}
      BY <1>9, <3>1, <3>2, <3>3, Zenon
    <3>5. OpenSlots(n)' = {}
      BY <1>5, <3>4
    <3>6. Len(Queue) <= m
      BY <1>8, <3>1, <3>2, <3>5, Zenon
    <3> QED
      BY <2>1, <3>6
  <2> QED
    BY <2>2, <2>3
<1>11. IsBlock(graph.nodes, closed, Len(Queue), m)
  <2>1. \A i \in DOMAIN graph.nodes :
          graph.nodes[i] \in closed <=> Len(Queue) < i /\ i <= m
    <3> SUFFICES ASSUME NEW i \in DOMAIN graph.nodes, NEW n, n = graph.nodes[i]
                 PROVE  n \in closed <=> Len(Queue) < i /\ i <= m
      OBVIOUS
    <3>1. n \in NodeIDs
      BY <1>2 DEF ToSet
    <3>2. n \in closed <=> OpenSlots(n) # {} /\ OpenSlots(n)' = {}
      BY <3>1 DEF closed
    <3>3. OpenSlots(n) = {} <=> i <= Len(Queue)
      BY <1>9
    <3>4. OpenSlots(n)' = {} <=> i <= m
      BY <1>8
    <3>5. i \in Nat /\ Len(Queue) \in Nat
      BY <1>2, <1>3
    <3> QED
      BY <3>2, <3>3, <3>4, <3>5
  <2> QED
    BY <1>10, <2>1 DEF IsBlock
<1>12. /\ freed \in Seq(NodeIDs) /\ Len(freed) = m - Len(Queue)
       /\ \A j \in 1..(m - Len(Queue)) : freed[j] = graph.nodes[Len(Queue) + j]
  <2>1. Kept(graph.nodes, closed) \in Seq(NodeIDs)
    BY <1>2, KeptInOrder
  <2>2. /\ Len(Kept(graph.nodes, closed)) = m - Len(Queue)
        /\ \A j \in 1..(m - Len(Queue)) :
             Kept(graph.nodes, closed)[j] = graph.nodes[Len(Queue) + j]
    BY <1>2, <1>3, <1>10, <1>11, KeptBlock
  <2> QED
    BY <1>5, <2>1, <2>2
<1>13. /\ Len(Queue') = m /\ DOMAIN Queue' = 1..m
       /\ \A i \in 1..Len(Queue) : Queue'[i] = Queue[i]
       /\ \A i \in DOMAIN Queue' : i > Len(Queue) => Queue'[i] = freed[i - Len(Queue)]
  <2> SUFFICES ASSUME NEW q, q = Queue, NEW f, f = freed
               PROVE  /\ Len(q \o f) = m /\ DOMAIN (q \o f) = 1..m
                      /\ \A i \in 1..Len(q) : (q \o f)[i] = q[i]
                      /\ \A i \in DOMAIN (q \o f) :
                           i > Len(q) => (q \o f)[i] = f[i - Len(q)]
    BY <1>4, Zenon
  <2>1. q \in Seq(NodeIDs) /\ f \in Seq(NodeIDs)
    BY <1>3, <1>12
  <2>2. Len(q) + Len(f) = m
    BY <1>3, <1>10, <1>12
  <2> QED
    BY <2>1, <2>2, JoinedPositions
<1> QED
  <2> SUFFICES ASSUME NEW i \in 1..m PROVE Queue'[i] = graph.nodes[i]
    BY <1>10, <1>13
  <2>1. CASE i <= Len(Queue)
    BY <1>1, <1>3, <1>13, <2>1
  <2>2. CASE i > Len(Queue)
    <3>1. i - Len(Queue) \in 1..(m - Len(Queue)) /\ Len(Queue) + (i - Len(Queue)) = i
      BY <1>3, <1>10, <2>2
    <3> QED
      BY <1>12, <1>13, <2>2, <3>1
  <2> QED
    BY <1>3, <1>10, <2>1, <2>2

LEMMA FinishSortKeepsStable ==
  ASSUME OrderInv, StableInv, FinishSort
  PROVE  /\ StableInv'
         /\ passes > 0 => graph'.nodes = graph.nodes
<1>1. /\ graph \in GraphType /\ NodesIndexed /\ SortInv /\ phase = "pop" /\ ready = <<>>
      /\ passes \in Nat /\ ByLastProducer(Queue)
      /\ passes > 0 => /\ ByLastProducer(graph.nodes)
                       /\ Len(Queue) <= Len(graph.nodes)
                       /\ \A i \in 1..Len(Queue) : Queue[i] = graph.nodes[i]
  BY DEF FinishSort, OrderInv, StableInv
<1>2. sorted \in Seq(NodeIDs) /\ Queue = sorted
  <2>1. \A s \in Seq(NodeIDs) : s \o <<>> = s
    BY ConcatEmptySeq
  <2> QED
    BY <1>1, <2>1 DEF SortInv, Queue
<1>3. CASE Len(sorted) # Len(graph.nodes)
  <2>1. graph' = graph /\ passes' = passes /\ phase' = "cycle"
    BY <1>1, <1>3 DEF FinishSort
  <2>2. ByLastProducer(graph.nodes)' = ByLastProducer(graph.nodes)
    BY <2>1 DEF ByLastProducer, Edge, Reads, IsEdge, NodeIDs, BoundarySet
  <2> QED
    BY <1>1, <2>1, <2>2 DEF StableInv
<1>4. CASE Len(sorted) = Len(graph.nodes)
  <2>1. /\ graph' = [graph EXCEPT !.nodes = sorted]
        /\ passes' = passes + 1 /\ phase' = "ordered"
    BY <1>1, <1>4 DEF FinishSort
  <2>2. /\ graph'.nodes = sorted /\ graph'.inputs = graph.inputs
        /\ graph'.boundary = graph.boundary
    BY <1>1, <2>1 DEF GraphType
  <2>3. NodeIDs' = NodeIDs
    <3>1. ToSet(sorted) = NodeIDs
      BY <1>1, <1>4, CompleteSortKeepsNodes
    <3> QED
      BY <2>2, <3>1 DEF NodeIDs
  <2>4. \A p, n : Edge(p, n)' = Edge(p, n)
    BY <2>2, <2>3 DEF Edge, Reads, IsEdge, BoundarySet
  <2>5. ByLastProducer(graph.nodes)'
    BY <1>1, <1>2, <2>2, <2>4 DEF ByLastProducer
  <2>6. ASSUME passes > 0 PROVE sorted = graph.nodes
    <3>1. DOMAIN sorted = 1..Len(sorted) /\ DOMAIN graph.nodes = 1..Len(graph.nodes)
      BY <1>1, <1>2, LenProperties DEF GraphType
    <3>2. \A i \in DOMAIN sorted : sorted[i] = graph.nodes[i]
      BY <1>1, <1>2, <2>6, <3>1
    <3>3. graph.nodes \in Seq(NodeIDs)
      BY <1>1, IndexedNodes
    <3> QED
      BY <1>2, <1>4, <3>1, <3>2, <3>3, SeqEqual
  <2> QED
    BY <2>1, <2>2, <2>5, <2>6 DEF StableInv
<1> QED
  BY <1>3, <1>4

\* The sort follows the order of last producers in every reachable state.
THEOREM StableInvIsInvariant == Spec => []StableInv
<1>1. Init => StableInv
  BY DEF Init, OrderInit, StableInv
<1>2. OrderInv /\ StableInv /\ [Next]_vars => StableInv'
  <2> SUFFICES ASSUME OrderInv, StableInv, [Next]_vars
               PROVE  StableInv'
    OBVIOUS
  <2>1. CASE StartSort
    BY <2>1, StartSortKeepsStable
  <2>2. CASE PopReady
    <3>1. /\ ByLastProducer(Queue)' /\ passes' = passes /\ graph' = graph
      BY <2>2, PopReadyKeepsOrder DEF PopReady
    <3>2. passes > 0 => /\ Len(Queue') <= Len(graph.nodes)
                        /\ \A i \in 1..Len(Queue') : Queue'[i] = graph.nodes[i]
      BY <2>2, PopReadyKeepsPrefix
    <3>3. passes > 0 => ByLastProducer(graph.nodes)'
      BY <3>1 DEF StableInv, ByLastProducer, Edge, Reads, IsEdge, NodeIDs, BoundarySet
    <3> QED
      BY <3>1, <3>2, <3>3 DEF StableInv
  <2>3. CASE FinishSort
    BY <2>3, FinishSortKeepsStable
  <2>4. CASE ~(StartSort \/ PopReady \/ FinishSort)
    <3>1. /\ UNCHANGED <<graph, ready, sorted, passes>>
          /\ phase' = "pop" => phase = "pop"
      BY <2>4 DEF Next, Normalize, NormalizeGraph, IndexGraphNodes, ValidateGraphEdges,
                  BuildDAG, PeelLayer, BuildPlan, Renormalize, vars, orderVars
    <3>2. \A p, n : Edge(p, n)' = Edge(p, n)
      BY <3>1 DEF Edge, Reads, IsEdge, NodeIDs, BoundarySet
    <3>3. /\ ByLastProducer(Queue)' = ByLastProducer(Queue)
          /\ ByLastProducer(graph.nodes)' = ByLastProducer(graph.nodes)
      BY <3>1, <3>2 DEF ByLastProducer, Queue
    <3> QED
      BY <3>1, <3>3 DEF StableInv, Queue
  <2> QED
    BY <2>1, <2>2, <2>3, <2>4
<1> QED
  BY <1>1, <1>2, OrderInvIsInvariant, PTL DEF Spec

\* NormalizeGraph leaves the list of a graph it has ordered as it is.
THEOREM OrderIsStable == Spec => NormalizeIsStable
<1>1. OrderInv /\ StableInv /\ [Next]_vars
        => [passes > 0 => graph'.nodes = graph.nodes]_vars
  <2> SUFFICES ASSUME OrderInv, StableInv, Next, passes > 0
               PROVE  graph'.nodes = graph.nodes
    OBVIOUS
  <2>1. CASE FinishSort
    BY <2>1, FinishSortKeepsStable
  <2>2. CASE ~FinishSort
    BY <2>2 DEF Next, Normalize, NormalizeGraph, IndexGraphNodes, ValidateGraphEdges,
                StartSort, PopReady, BuildDAG, PeelLayer, BuildPlan, Renormalize
  <2> QED
    BY <2>1, <2>2
<1> QED
  BY <1>1, OrderInvIsInvariant, StableInvIsInvariant, PTL DEF Spec, NormalizeIsStable

-----------------------------------------------------------------------------
(* The layers of the DAG.                                                  *)

\* The DAG nodes a layer holds, and the inputs of n that none holds.
Placed == {n \in DagNodes : \E i \in DOMAIN dagLayers : n \in dagLayers[i]}
OpenInputs(n) == {i \in DOMAIN DagInputs(n) : DagInputs(n)[i] \notin Placed}

\* The layers are disjoint; a node's inputs are in earlier ones, and one of
\* them in the layer just before its own.
LayersInOrder ==
  /\ \A i, j \in DOMAIN dagLayers : i # j => dagLayers[i] \cap dagLayers[j] = {}
  /\ \A i \in DOMAIN dagLayers : \A n \in dagLayers[i] :
       /\ \A p \in ToSet(DagInputs(n)) : \E j \in 1..(i - 1) : p \in dagLayers[j]
       /\ i > 1 => \E p \in ToSet(DagInputs(n)) : p \in dagLayers[i - 1]

\* A node left out by the last layer waits for it or for what it left out.
LeftOutWaits ==
  \A n \in DagNodes \ Placed : dagLayers # <<>> =>
    \E p \in ToSet(DagInputs(n)) : \A j \in 1..(Len(dagLayers) - 1) : p \notin dagLayers[j]

LayerInv ==
  /\ dagLayers \in Seq(SUBSET DagNodes)
  /\ remaining = [n \in DagNodes \ Placed |-> Cardinality(OpenInputs(n))]
  /\ LayersInOrder
  /\ LeftOutWaits

PipelineInv ==
  /\ phase \in {"layers", "planned"} => passes = 1 /\ LayerInv
  /\ passes = 0 \/ (passes = 1 /\ phase = "ordered") => dagLayers = <<>>
  /\ phase = "planned" =>
       /\ remaining = <<>>
       /\ plan = Without([i \in DOMAIN dagLayers |-> dagLayers[i] \ DagInputNodes], {})

LEMMA DagInputList ==
  ASSUME graph \in GraphType, NodesIndexed, NEW n \in DagNodes
  PROVE  /\ DagInputs(n) \in Seq(Names \cup {Blank})
         /\ DOMAIN DagInputs(n) = 1..Len(DagInputs(n)) /\ Len(DagInputs(n)) \in Nat
         /\ n \notin BoundarySet => Reads(n) \ {Blank} \subseteq ToSet(DagInputs(n))
<1>1. CASE n \in BoundarySet
  <2>1. DagInputs(n) = <<>>
    BY <1>1 DEF DagInputs
  <2> QED
    BY <1>1, <2>1, LenProperties
<1>2. CASE n \notin BoundarySet
  <2>1. n \in Names
    BY <1>2, IndexedNodes DEF DagNodes
  <2>2. graph.inputs[n] \in Seq(Names \cup {Blank})
    BY <2>1 DEF GraphType
  <2> DEFINE listed == ToSet(graph.inputs[n]) \ {Blank}
  <2>3. DagInputs(n) = Kept(graph.inputs[n], listed) /\ Reads(n) \ {Blank} = listed
    BY <1>2 DEF DagInputs, Without, Reads
  <2>4. listed \subseteq ToSet(Kept(graph.inputs[n], listed))
    <3> SUFFICES ASSUME NEW p \in listed
                 PROVE  p \in ToSet(Kept(graph.inputs[n], listed))
      OBVIOUS
    <3>1. PICK i \in DOMAIN graph.inputs[n] : graph.inputs[n][i] = p
      BY DEF ToSet
    <3> HIDE DEF listed
    <3>2. PICK j \in DOMAIN Kept(graph.inputs[n], listed) :
            Kept(graph.inputs[n], listed)[j] = p
      BY <2>2, <3>1, KeptInOrder
    <3> QED
      BY <3>2 DEF ToSet
  <2>5. Kept(graph.inputs[n], listed) \in Seq(Names \cup {Blank})
    BY <2>2, KeptInOrder
  <2> HIDE DEF listed
  <2> QED
    BY <2>3, <2>4, <2>5, LenProperties
<1> QED
  BY <1>1, <1>2

LEMMA FiniteOpenInputs ==
  ASSUME graph \in GraphType, NodesIndexed, NEW n \in DagNodes,
         NEW S, S \subseteq DOMAIN DagInputs(n)
  PROVE  /\ IsFiniteSet(S) /\ Cardinality(S) \in Nat
         /\ Cardinality(S) = 0 <=> S = {}
<1>1. IsFiniteSet(DOMAIN DagInputs(n))
  BY DagInputList, FS_Interval
<1> QED
  BY <1>1, FS_Subset, FS_CardinalityType, FS_EmptySet

\* Before the first layer every input is open.
LEMMA BuildDAGStarts ==
  ASSUME OrderInv, PipelineInv, BuildDAG
  PROVE  PipelineInv'
<1>1. /\ graph' = graph /\ passes' = passes /\ passes = 1 /\ dagLayers' = <<>>
      /\ graph \in GraphType /\ NodesIndexed /\ phase' \in {"layers", "duplicate"}
      /\ phase' = "layers" => remaining' = [n \in DagNodes |-> Len(DagInputs(n))]
  BY DEF BuildDAG, PipelineInv, OrderInv
<1>2. /\ DagNodes' = DagNodes /\ \A n : DagInputs(n)' = DagInputs(n)
      /\ Placed' = {}
  BY <1>1 DEF DagNodes, DagInputs, Placed, BoundarySet, NodeIDs, Without, Kept
<1>3. \A n : OpenInputs(n)' = DOMAIN DagInputs(n)
  BY <1>2 DEF OpenInputs
<1>4. \A n \in DagNodes : Len(DagInputs(n)) = Cardinality(DOMAIN DagInputs(n))
  <2> SUFFICES ASSUME NEW n \in DagNodes
               PROVE  Len(DagInputs(n)) = Cardinality(DOMAIN DagInputs(n))
    OBVIOUS
  <2>1. DOMAIN DagInputs(n) = 1..Len(DagInputs(n)) /\ Len(DagInputs(n)) \in Nat
    BY <1>1, DagInputList
  <2>2. Cardinality(1..Len(DagInputs(n)))
          = IF 1 > Len(DagInputs(n)) THEN 0 ELSE Len(DagInputs(n)) - 1 + 1
    BY <2>1, FS_Interval
  <2> QED
    BY <2>1, <2>2
<1>5. ASSUME phase' = "layers" PROVE LayerInv'
  <2>1. remaining' = [n \in DagNodes' \ Placed' |-> Cardinality(OpenInputs(n)')]
    BY <1>1, <1>2, <1>3, <1>4, <1>5
  <2>2. dagLayers' \in Seq(SUBSET DagNodes')
    BY <1>1
  <2>3. LayersInOrder' /\ LeftOutWaits'
    BY <1>1 DEF LayersInOrder, LeftOutWaits
  <2> QED
    BY <2>1, <2>2, <2>3 DEF LayerInv
<1> QED
  BY <1>1, <1>5 DEF PipelineInv

\* A layer takes exactly the nodes whose inputs all stand in earlier ones.
LEMMA PeelLayerKeeps ==
  ASSUME OrderInv, PipelineInv, PeelLayer, phase' = "layers"
  PROVE  LayerInv'
<1> DEFINE L == Unblocked
           k == Len(dagLayers)
<1>1. /\ graph' = graph /\ graph \in GraphType /\ NodesIndexed /\ LayerInv
      /\ dagLayers' = Append(dagLayers, L)
      /\ remaining' = [n \in DOMAIN remaining \ L |->
                         remaining[n] - Cardinality({i \in DOMAIN DagInputs(n) :
                                                       DagInputs(n)[i] \in L})]
  BY DEF PeelLayer, PipelineInv, OrderInv
<1>2. DagNodes' = DagNodes /\ \A n : DagInputs(n)' = DagInputs(n)
  BY <1>1 DEF DagNodes, DagInputs, BoundarySet, NodeIDs, Without, Kept
<1>3. /\ dagLayers \in Seq(SUBSET DagNodes) /\ k \in Nat /\ DOMAIN dagLayers = 1..k
      /\ \A i \in DOMAIN dagLayers : dagLayers[i] \in SUBSET DagNodes
      /\ remaining = [n \in DagNodes \ Placed |-> Cardinality(OpenInputs(n))]
      /\ LayersInOrder /\ LeftOutWaits
  BY <1>1, LenProperties, ElementOfSeq DEF LayerInv
<1>4. \A n \in DagNodes : /\ IsFiniteSet(OpenInputs(n)) /\ Cardinality(OpenInputs(n)) \in Nat
                          /\ Cardinality(OpenInputs(n)) = 0 <=> OpenInputs(n) = {}
  <2> SUFFICES ASSUME NEW n \in DagNodes
               PROVE  /\ IsFiniteSet(OpenInputs(n)) /\ Cardinality(OpenInputs(n)) \in Nat
                      /\ Cardinality(OpenInputs(n)) = 0 <=> OpenInputs(n) = {}
    OBVIOUS
  <2>1. OpenInputs(n) \subseteq DOMAIN DagInputs(n)
    BY DEF OpenInputs
  <2> QED
    BY <1>1, <2>1, FiniteOpenInputs
<1>5. /\ L \subseteq DagNodes \ Placed /\ DOMAIN remaining = DagNodes \ Placed
      /\ \A n \in DagNodes \ Placed : n \in L <=> OpenInputs(n) = {}
  BY <1>3, <1>4 DEF Unblocked
<1> HIDE DEF L
<1>6. /\ dagLayers' \in Seq(SUBSET DagNodes) /\ DOMAIN dagLayers' = 1..(k + 1)
      /\ Len(dagLayers') = k + 1
      /\ \A i \in 1..k : dagLayers'[i] = dagLayers[i]
      /\ dagLayers'[k + 1] = L
  <2>1. L \in SUBSET DagNodes
    BY <1>5
  <2> QED
    BY <1>1, <1>3, <2>1, AppendProperties, LenProperties
<1>7. \A n : n \in Placed <=> \E i \in 1..k : n \in dagLayers[i]
  BY <1>3 DEF Placed
<1>8. Placed' = Placed \cup L
  <2>1. \A n : n \in Placed' <=> n \in DagNodes /\ \E i \in 1..(k + 1) : n \in dagLayers'[i]
    BY <1>2, <1>6 DEF Placed
  <2>2. \A n : (\E i \in 1..(k + 1) : n \in dagLayers'[i])
                  <=> (\E i \in 1..k : n \in dagLayers[i]) \/ n \in L
    BY <1>3, <1>6
  <2>3. Placed \cup L \subseteq DagNodes
    BY <1>5 DEF Placed
  <2> QED
    BY <1>7, <2>1, <2>2, <2>3
<1>9. \A n : OpenInputs(n)' = OpenInputs(n) \ {i \in DOMAIN DagInputs(n) : DagInputs(n)[i] \in L}
  BY <1>2, <1>8 DEF OpenInputs
<1>10. remaining' = [n \in DagNodes' \ Placed' |-> Cardinality(OpenInputs(n)')]
  <2>1. DOMAIN remaining \ L = DagNodes' \ Placed'
    BY <1>2, <1>5, <1>8
  <2>2. ASSUME NEW n \in DagNodes \ Placed,
               NEW closed, closed = {i \in DOMAIN DagInputs(n) : DagInputs(n)[i] \in L}
        PROVE  remaining[n] - Cardinality(closed) = Cardinality(OpenInputs(n)')
    <3> DEFINE rest == OpenInputs(n) \ closed
    <3>1. OpenInputs(n)' = rest
      BY <1>9, <2>2
    <3>2. closed \subseteq OpenInputs(n)
      BY <1>5, <2>2 DEF OpenInputs
    <3>3. IsFiniteSet(closed) /\ IsFiniteSet(rest)
      BY <1>4, <3>2, FS_Subset
    <3>4. rest \cup closed = OpenInputs(n) /\ rest \cap closed = {}
      BY <3>2
    <3>5. /\ Cardinality(rest) \in Nat /\ Cardinality(closed) \in Nat
          /\ Cardinality({}) = 0
      BY <3>3, FS_CardinalityType, FS_EmptySet
    <3> HIDE DEF rest
    <3>6. Cardinality(OpenInputs(n)) = Cardinality(rest) + Cardinality(closed) - 0
      BY <3>3, <3>4, <3>5, FS_Union
    <3>7. remaining[n] = Cardinality(OpenInputs(n))
      BY <1>3
    <3> QED
      BY <3>1, <3>5, <3>6, <3>7
  <2>3. \A n \in DOMAIN remaining \ L :
          remaining[n] - Cardinality({i \in DOMAIN DagInputs(n) : DagInputs(n)[i] \in L})
            = Cardinality(OpenInputs(n)')
    BY <1>5, <2>2
  <2> QED
    BY <1>1, <2>1, <2>3
<1>11. ASSUME NEW n \in L
       PROVE  /\ \A p \in ToSet(DagInputs(n)) : \E j \in 1..k : p \in dagLayers[j]
              /\ k > 0 => \E p \in ToSet(DagInputs(n)) : p \in dagLayers[k]
  <2>1. n \in DagNodes \ Placed /\ OpenInputs(n) = {}
    BY <1>5
  <2>2. \A p \in ToSet(DagInputs(n)) : \E j \in 1..k : p \in dagLayers[j]
    BY <1>7, <2>1 DEF OpenInputs, ToSet
  <2>3. ASSUME k > 0 PROVE \E p \in ToSet(DagInputs(n)) : p \in dagLayers[k]
    <3>1. dagLayers # <<>>
      BY <1>3, <2>3, EmptySeq
    <3>2. PICK p \in ToSet(DagInputs(n)) : \A j \in 1..(k - 1) : p \notin dagLayers[j]
      BY <1>3, <2>1, <3>1 DEF LeftOutWaits
    <3>3. PICK j \in 1..k : p \in dagLayers[j]
      BY <2>2
    <3>4. j \notin 1..(k - 1) /\ k \in Nat
      BY <1>3, <3>2, <3>3
    <3>5. j = k
      BY <3>4
    <3> QED
      BY <3>3, <3>5
  <2> QED
    BY <2>2, <2>3
<1>12. LayersInOrder'
  <2>1. ASSUME NEW i \in DOMAIN dagLayers', NEW j \in DOMAIN dagLayers', i # j
        PROVE  dagLayers'[i] \cap dagLayers'[j] = {}
    <3>1. CASE i \in 1..k /\ j \in 1..k
      BY <1>3, <1>6, <2>1, <3>1 DEF LayersInOrder
    <3>2. CASE i = k + 1 \/ j = k + 1
      BY <1>3, <1>5, <1>6, <1>7, <2>1, <3>2
    <3> QED
      BY <1>3, <1>6, <3>1, <3>2
  <2>2. ASSUME NEW i \in DOMAIN dagLayers', NEW n \in dagLayers'[i]
        PROVE  /\ \A p \in ToSet(DagInputs(n)) : \E j \in 1..(i - 1) : p \in dagLayers'[j]
               /\ i > 1 => \E p \in ToSet(DagInputs(n)) : p \in dagLayers'[i - 1]
    <3>1. CASE i \in 1..k
      <4>1. \A j \in 1..(i - 1) : j \in 1..k
        BY <1>3, <3>1
      <4>2. i > 1 => i - 1 \in 1..k
        BY <1>3, <3>1
      <4>3. i \in DOMAIN dagLayers /\ n \in dagLayers[i]
        BY <1>3, <1>6, <2>2, <3>1
      <4>4. /\ \A p \in ToSet(DagInputs(n)) : \E j \in 1..(i - 1) : p \in dagLayers[j]
            /\ i > 1 => \E p \in ToSet(DagInputs(n)) : p \in dagLayers[i - 1]
        BY <1>3, <4>3 DEF LayersInOrder
      <4> QED
        BY <1>6, <4>1, <4>2, <4>4
    <3>2. CASE i = k + 1
      <4>1. n \in L /\ i - 1 = k
        BY <1>3, <1>6, <2>2, <3>2
      <4>2. i > 1 => k > 0 /\ k \in 1..k
        BY <1>3, <3>2
      <4> QED
        BY <1>6, <1>11, <4>1, <4>2
    <3> QED
      BY <1>3, <1>6, <3>1, <3>2
  <2> QED
    BY <1>2, <2>1, <2>2 DEF LayersInOrder
<1>13. LeftOutWaits'
  <2> SUFFICES ASSUME NEW n \in DagNodes \ Placed'
               PROVE  \E p \in ToSet(DagInputs(n)) :
                        \A j \in 1..k : p \notin dagLayers'[j]
    <3>1. Len(dagLayers') - 1 = k
      BY <1>3, <1>6
    <3> QED
      BY <1>2, <3>1 DEF LeftOutWaits
  <2>1. n \in DagNodes \ Placed /\ OpenInputs(n) # {}
    BY <1>5, <1>8
  <2>2. PICK i \in DOMAIN DagInputs(n) : DagInputs(n)[i] \notin Placed
    BY <2>1 DEF OpenInputs
  <2>3. DagInputs(n)[i] \in ToSet(DagInputs(n))
    BY <2>2 DEF ToSet
  <2> QED
    BY <1>6, <1>7, <2>2, <2>3
<1> QED
  BY <1>2, <1>6, <1>10, <1>12, <1>13 DEF LayerInv

LEMMA PipelineStep ==
  ASSUME OrderInv, PipelineInv, [Next]_vars
  PROVE  PipelineInv'
<1>1. CASE BuildDAG
  BY <1>1, BuildDAGStarts
<1>2. CASE PeelLayer
  <2>1. /\ graph' = graph /\ passes' = passes /\ passes = 1 /\ phase = "layers"
        /\ phase' \in {"layers", "dagCycle"}
    BY <1>2 DEF PeelLayer, PipelineInv
  <2>2. phase' = "layers" => LayerInv'
    BY <1>2, PeelLayerKeeps
  <2> QED
    BY <2>1, <2>2 DEF PipelineInv
<1>3. CASE ~(BuildDAG \/ PeelLayer \/ FinishSort)
  <2>1. /\ graph' = graph /\ passes' = passes /\ dagLayers' = dagLayers
        /\ remaining' = remaining
        /\ phase' \in {"layers", "planned", "ordered"} =>
             phase' = phase \/ (phase' = "planned" /\ phase = "layers" /\ BuildPlan)
        /\ phase' = phase => plan' = plan
    BY <1>3 DEF Next, Normalize, NormalizeGraph, IndexGraphNodes, ValidateGraphEdges,
                StartSort, PopReady, BuildPlan, Renormalize, vars, orderVars
  <2>2. LayerInv' = LayerInv
    BY <2>1 DEF LayerInv, LayersInOrder, LeftOutWaits, Placed, OpenInputs, DagInputs,
                DagNodes, BoundarySet, NodeIDs, Without, Kept
  <2>3. DagInputNodes' = DagInputNodes
    BY <2>1 DEF DagInputNodes, BoundarySet, NodeIDs
  <2>4. CASE phase' = phase
    <3>1. (plan = Without([i \in DOMAIN dagLayers |-> dagLayers[i] \ DagInputNodes], {}))'
            <=> plan = Without([i \in DOMAIN dagLayers |-> dagLayers[i] \ DagInputNodes], {})
      BY <2>1, <2>3, <2>4 DEF Without, Kept
    <3> QED
      BY <2>1, <2>2, <2>4, <3>1 DEF PipelineInv
  <2>5. CASE BuildPlan /\ phase = "layers"
    <3>1. passes = 1 /\ LayerInv
      BY <2>5 DEF PipelineInv
    <3>2. remaining = <<>> /\ phase' = "planned"
      BY <2>5 DEF BuildPlan
    <3>3. plan' = Without([i \in DOMAIN dagLayers |-> dagLayers[i] \ DagInputNodes], {})
      BY <2>5 DEF BuildPlan
    <3>4. (plan = Without([i \in DOMAIN dagLayers |-> dagLayers[i] \ DagInputNodes], {}))'
      BY <2>1, <2>3, <3>3 DEF Without, Kept
    <3> QED
      BY <2>1, <2>2, <3>1, <3>2, <3>4 DEF PipelineInv
  <2>6. CASE phase' \notin {"layers", "planned", "ordered"}
    BY <2>1, <2>6 DEF PipelineInv
  <2> QED
    BY <2>1, <2>4, <2>5, <2>6
<1>4. CASE FinishSort
  <2>1. dagLayers' = dagLayers
    BY <1>4 DEF FinishSort, Next, Normalize, BuildDAG, PeelLayer, BuildPlan, Renormalize,
                vars
  <2>2. CASE Len(sorted) = Len(graph.nodes)
    <3>1. phase' = "ordered" /\ passes' = passes + 1 /\ passes \in Nat
      BY <1>4, <2>2 DEF FinishSort, OrderInv
    <3>2. passes' = 1 => passes = 0
      BY <3>1
    <3>3. passes' # 0
      BY <3>1
    <3> QED
      BY <2>1, <3>1, <3>2, <3>3 DEF PipelineInv
  <2>3. CASE Len(sorted) # Len(graph.nodes)
    <3>1. phase' = "cycle" /\ passes' = passes
      BY <1>4, <2>3 DEF FinishSort
    <3> QED
      BY <2>1, <3>1 DEF PipelineInv
  <2> QED
    BY <2>2, <2>3
<1> QED
  BY <1>1, <1>2, <1>3, <1>4

\* The layers peeled so far are in order in every reachable state.
THEOREM PipelineInvIsInvariant == Spec => []PipelineInv
<1>1. Init => PipelineInv
  BY DEF Init, OrderInit, PipelineInv
<1>2. OrderInv /\ PipelineInv /\ [Next]_vars => PipelineInv'
  BY PipelineStep
<1> QED
  BY <1>1, <1>2, OrderInvIsInvariant, PTL DEF Spec

\* Each node is in one layer, which LayerOf finds.
LEMMA LayerOfNode ==
  ASSUME LayersInOrder, NEW i \in DOMAIN dagLayers, NEW n \in dagLayers[i]
  PROVE  LayerOf(n) = i
<1>1. LayerOf(n) \in DOMAIN dagLayers /\ n \in dagLayers[LayerOf(n)]
  BY DEF LayerOf
<1>2. \A j \in DOMAIN dagLayers : n \in dagLayers[j] => j = i
  BY DEF LayersInOrder
<1> QED
  BY <1>1, <1>2

LEMMA PlannedLayers ==
  ASSUME OrderInv, PipelineInv, phase = "planned"
  PROVE  /\ graph \in GraphType /\ NodesIndexed /\ LayersInOrder
         /\ dagLayers \in Seq(SUBSET DagNodes)
         /\ DOMAIN dagLayers = 1..Len(dagLayers) /\ Len(dagLayers) \in Nat
         /\ \A i \in DOMAIN dagLayers : dagLayers[i] \subseteq DagNodes
         /\ \A n \in DagNodes : \E i \in DOMAIN dagLayers : n \in dagLayers[i]
<1>1. /\ graph \in GraphType /\ NodesIndexed /\ LayerInv /\ remaining = <<>>
  BY DEF OrderInv, PipelineInv
<1>2. /\ LayersInOrder /\ dagLayers \in Seq(SUBSET DagNodes)
      /\ DOMAIN remaining = DagNodes \ Placed
  BY <1>1 DEF LayerInv
<1>3. DOMAIN remaining = {}
  BY <1>1
<1>4. /\ DOMAIN dagLayers = 1..Len(dagLayers) /\ Len(dagLayers) \in Nat
      /\ \A i \in DOMAIN dagLayers : dagLayers[i] \in SUBSET DagNodes
  BY <1>2, LenProperties, ElementOfSeq
<1> QED
  BY <1>1, <1>2, <1>3, <1>4 DEF Placed

LEMMA DepthsFromInv ==
  ASSUME OrderInv, PipelineInv
  PROVE  LayersAreDepths
<1> SUFFICES ASSUME phase = "planned"
             PROVE  /\ UNION ToSet(dagLayers) = DagNodes
                    /\ \A n \in DagNodes :
                         LayerOf(n) = IF DagInputs(n) = <<>> THEN 1
                           ELSE 1 + Max({LayerOf(p) : p \in ToSet(DagInputs(n))})
  BY DEF LayersAreDepths
<1>1. /\ graph \in GraphType /\ NodesIndexed /\ LayersInOrder
      /\ DOMAIN dagLayers = 1..Len(dagLayers) /\ Len(dagLayers) \in Nat
      /\ \A i \in DOMAIN dagLayers : dagLayers[i] \subseteq DagNodes
      /\ \A n \in DagNodes : \E i \in DOMAIN dagLayers : n \in dagLayers[i]
  BY PlannedLayers
<1>2. UNION ToSet(dagLayers) = DagNodes
  <2>1. ToSet(dagLayers) = {dagLayers[i] : i \in DOMAIN dagLayers}
    BY DEF ToSet
  <2> QED
    BY <1>1, <2>1
<1>3. ASSUME NEW n \in DagNodes
      PROVE  LayerOf(n) = IF DagInputs(n) = <<>> THEN 1
                          ELSE 1 + Max({LayerOf(p) : p \in ToSet(DagInputs(n))})
  <2>1. PICK i \in DOMAIN dagLayers : n \in dagLayers[i]
    BY <1>1
  <2>2. LayerOf(n) = i /\ i \in Nat /\ i >= 1
    BY <1>1, <2>1, LayerOfNode
  <2>3. /\ \A p \in ToSet(DagInputs(n)) : \E j \in 1..(i - 1) : p \in dagLayers[j]
        /\ i > 1 => \E p \in ToSet(DagInputs(n)) : p \in dagLayers[i - 1]
    BY <1>1, <2>1 DEF LayersInOrder
  <2>4. \A p \in ToSet(DagInputs(n)) : LayerOf(p) \in 1..(i - 1)
    <3> SUFFICES ASSUME NEW p \in ToSet(DagInputs(n))
                 PROVE  LayerOf(p) \in 1..(i - 1)
      OBVIOUS
    <3>1. PICK j \in 1..(i - 1) : p \in dagLayers[j]
      BY <2>3
    <3>2. j \in DOMAIN dagLayers
      BY <1>1, <2>2, <2>1, <3>1
    <3>3. LayerOf(p) = j
      BY <1>1, <3>1, <3>2, LayerOfNode
    <3> QED
      BY <3>3
  <2>5. CASE DagInputs(n) = <<>>
    <3>1. ToSet(DagInputs(n)) = {}
      BY <2>5 DEF ToSet
    <3>2. i = 1
      BY <2>2, <2>3, <3>1
    <3> QED
      BY <2>2, <2>5, <3>2
  <2>6. CASE DagInputs(n) # <<>>
    <3>1. \E p \in ToSet(DagInputs(n)) : TRUE
      <4>1. /\ DagInputs(n) \in Seq(Names \cup {Blank})
            /\ DOMAIN DagInputs(n) = 1..Len(DagInputs(n)) /\ Len(DagInputs(n)) \in Nat
        BY <1>1, DagInputList
      <4>2. 1 \in DOMAIN DagInputs(n)
        BY <2>6, <4>1, EmptySeq
      <4> QED
        BY <4>2 DEF ToSet
    <3>2. i > 1
      BY <2>2, <2>3, <3>1
    <3>3. PICK q \in ToSet(DagInputs(n)) : q \in dagLayers[i - 1]
      BY <2>3, <3>2
    <3>4. LayerOf(q) = i - 1
      <4>1. i - 1 \in DOMAIN dagLayers
        BY <1>1, <2>1, <2>2, <3>2
      <4> QED
        BY <1>1, <3>3, <4>1, LayerOfNode
    <3>5. PICK S : S = {LayerOf(p) : p \in ToSet(DagInputs(n))}
      OBVIOUS
    <3>6. i - 1 \in S /\ \A x \in S : x \in Nat /\ x <= i - 1
      BY <2>2, <2>4, <3>3, <3>4, <3>5
    <3>7. \A x \in S : (\A y \in S : x >= y) <=> x = i - 1
      BY <2>2, <3>6
    <3>8. Max(S) = i - 1
      BY <3>6, <3>7 DEF Max
    <3> QED
      BY <2>2, <2>6, <3>5, <3>8
  <2> QED
    BY <2>5, <2>6
<1> QED
  BY <1>2, <1>3

\* A layer's number is the length of the longest chain of inputs below it.
THEOREM LayersAreDepthsHolds == Spec => []LayersAreDepths
<1>1. OrderInv /\ PipelineInv => LayersAreDepths
  BY DepthsFromInv
<1> QED
  BY <1>1, OrderInvIsInvariant, PipelineInvIsInvariant, PTL

\* The plan is the layers without their input nodes, empty ones left out: a
\* computed node keeps its one layer, and the order of two layers is kept.
LEMMA PlanFromInv ==
  ASSUME OrderInv, PipelineInv
  PROVE  PlanRunsEachNodeOnce
<1> DEFINE computed == [i \in DOMAIN dagLayers |-> dagLayers[i] \ DagInputNodes]
           full == ToSet(computed) \ {{}}
<1> SUFFICES ASSUME phase = "planned", NEW n \in DagNodes \ DagInputNodes
             PROVE  \E i \in DOMAIN plan :
                      /\ n \in plan[i]
                      /\ \A j \in DOMAIN plan \ {i} : n \notin plan[j]
                      /\ \A p \in Reads(n) \ DagInputNodes :
                           p # Blank => \E j \in 1..(i - 1) : p \in plan[j]
  BY DEF PlanRunsEachNodeOnce
<1>1. /\ graph \in GraphType /\ NodesIndexed /\ LayersInOrder
      /\ dagLayers \in Seq(SUBSET DagNodes)
      /\ DOMAIN dagLayers = 1..Len(dagLayers) /\ Len(dagLayers) \in Nat
      /\ \A i \in DOMAIN dagLayers : dagLayers[i] \subseteq DagNodes
      /\ \A m \in DagNodes : \E i \in DOMAIN dagLayers : m \in dagLayers[i]
  BY PlannedLayers
<1>2. plan = Kept(computed, full)
  BY DEF PipelineInv, Without
<1>3. computed \in Seq(SUBSET DagNodes) /\ DOMAIN computed = DOMAIN dagLayers
      /\ \A i \in DOMAIN dagLayers : computed[i] = dagLayers[i] \ DagInputNodes
  <2>1. computed \in [1..Len(dagLayers) -> SUBSET DagNodes]
    BY <1>1
  <2>2. computed \in Seq(SUBSET DagNodes)
    <3> HIDE DEF computed
    <3> QED
      BY <1>1, <2>1, SeqDef
  <2> QED
    BY <2>2
<1>4. \A i \in DOMAIN computed : computed[i] \in full <=> computed[i] # {}
  BY DEF ToSet
<1> HIDE DEF computed, full
<1>5. PICK at \in [DOMAIN plan -> DOMAIN computed] :
        /\ \A j \in DOMAIN plan : plan[j] = computed[at[j]] /\ computed[at[j]] \in full
        /\ \A i \in DOMAIN computed : computed[i] \in full =>
             \E j \in DOMAIN plan : at[j] = i
        /\ \A j, k \in DOMAIN plan : j < k => at[j] < at[k]
  BY <1>2, <1>3, KeptInOrder
<1>6. DOMAIN plan = 1..Len(plan) /\ Len(plan) \in Nat
  BY <1>2, <1>3, KeptInOrder, LenProperties
<1>7. ASSUME NEW i \in DOMAIN dagLayers, NEW m \in dagLayers[i] \ DagInputNodes
      PROVE  \E j \in DOMAIN plan : at[j] = i /\ m \in plan[j]
  <2>1. computed[i] \in full /\ m \in computed[i] /\ i \in DOMAIN computed
    BY <1>3, <1>4
  <2>2. PICK j \in DOMAIN plan : at[j] = i
    BY <1>5, <2>1
  <2> QED
    BY <1>5, <2>1, <2>2
<1>8. PICK i \in DOMAIN dagLayers : n \in dagLayers[i]
  BY <1>1
<1>9. PICK k \in DOMAIN plan : at[k] = i /\ n \in plan[k]
  BY <1>7, <1>8
<1>10. ASSUME NEW j \in DOMAIN plan, n \in plan[j]
       PROVE  j = k
  <2>1. at[j] \in DOMAIN dagLayers /\ n \in dagLayers[at[j]]
    BY <1>3, <1>5, <1>10
  <2>2. at[j] = i
    BY <1>1, <1>8, <2>1 DEF LayersInOrder
  <2>3. ~(j < k) /\ ~(k < j)
    BY <1>1, <1>5, <1>9, <2>2
  <2> QED
    BY <1>6, <2>3
<1>11. ASSUME NEW p \in Reads(n) \ DagInputNodes, p # Blank
       PROVE  \E j \in 1..(k - 1) : p \in plan[j]
  <2>1. p \in ToSet(DagInputs(n))
    <3>1. n \notin BoundarySet
      BY DEF DagInputNodes
    <3> QED
      BY <1>1, <1>11, <3>1, DagInputList
  <2>2. PICK d \in 1..(i - 1) : p \in dagLayers[d]
    BY <1>1, <1>8, <2>1 DEF LayersInOrder
  <2>3. d \in DOMAIN dagLayers /\ d < i
    BY <1>1, <2>2
  <2>4. PICK j \in DOMAIN plan : at[j] = d /\ p \in plan[j]
    BY <1>7, <2>2, <2>3
  <2>5. ~(k < j) /\ j # k
    BY <1>1, <1>5, <1>9, <2>3, <2>4
  <2>6. j \in 1..(k - 1)
    BY <1>6, <2>5
  <2> QED
    BY <2>4, <2>6
<1> QED
  BY <1>9, <1>10, <1>11

\* The execution plan runs every computed node once, after what it reads.
THEOREM PlanRunsOnce == Spec => []PlanRunsEachNodeOnce
<1>1. OrderInv /\ PipelineInv => PlanRunsEachNodeOnce
  BY PlanFromInv
<1> QED
  BY <1>1, OrderInvIsInvariant, PipelineInvIsInvariant, PTL
=============================================================================
