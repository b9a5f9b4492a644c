--------------------------- MODULE PlannedExecution ---------------------------
(***************************************************************************)
(* A session that runs one planned topology.  The executor is not in this  *)
(* repository; it is modelled from the contract that ir/sync_event.go,     *)
(* ir/node.go and ir/topology.go state for it: the host copies the graph   *)
(* inputs to their published offsets, every stream runs its nodes first in *)
(* first out, a node is dispatched once the events it waits for have been  *)
(* signalled, and signals its own events after it has run.  A node reads   *)
(* its inputs and writes its output somewhere between its start and its    *)
(* finish; an alias node is a view and touches no memory.                  *)
(***************************************************************************)
EXTENDS PlanGraph

VARIABLES copied,    \* the graph inputs the host has copied in
          running,   \* the nodes that have started and not finished
          finished,  \* the nodes that have finished
          contents   \* the port whose value each workspace byte holds

execVars == <<copied, running, finished, contents>>
vars     == <<planVars, execVars>>

Nothing == NoPort

Init ==
    /\ PlanGraphInit
    /\ copied = {}
    /\ running = {}
    /\ finished = {}
    /\ contents = <<>>

Compile == PlanGraphNext /\ UNCHANGED execVars

\* The bytes of a port's value when it is stored at base.
BytesAt(base, p) == base..(base + bytes[p] - 1)
BytesOf(p)       == BytesAt(offset[p], p)

Store(cs, base, p) ==
    [u \in DOMAIN cs \cup BytesAt(base, p) |->
       IF u \in BytesAt(base, p) THEN p ELSE cs[u]]

CopyInput(b) ==
    /\ Planned
    /\ b \in BoundarySet \ copied
    /\ contents' = Store(contents, inputPorts[b], BoundaryPort(b))
    /\ copied' = copied \cup {b}
    /\ UNCHANGED <<planVars, running, finished>>

Signalled(e) == \E j \in finished : e \in signals[j]

Start(k) ==
    /\ Planned
    /\ copied = BoundarySet
    /\ k \in DOMAIN nodes \ (running \cup finished)
    /\ \A j \in 1..(k - 1) : streamOf[j] = streamOf[k] => j \in finished
    /\ \A e \in waits[k] : Signalled(e)
    /\ running' = running \cup {k}
    /\ UNCHANGED <<planVars, copied, finished, contents>>

Written(k) == IF nodes[k].alias THEN {} ELSE OutputsOf(k)
Read(k)    == IF nodes[k].alias THEN {} ELSE InputsOf(k)

Finish(k) ==
    /\ k \in running
    /\ running' = running \ {k}
    /\ finished' = finished \cup {k}
    /\ contents' = IF nodes[k].alias THEN contents
                   ELSE Store(contents, offset[nodes[k].outputs[1]],
                              nodes[k].outputs[1])
    /\ UNCHANGED <<planVars, copied>>

Steps == 1..Cardinality(Names)

Execute ==
    \/ \E b \in Names : CopyInput(b)
    \/ \E k \in Steps : Start(k)
    \/ \E k \in Steps : Finish(k)

Next == Compile \/ Execute

\* The compiler is one sequential call; the host copies every input, a
\* stream dispatches what it may dispatch, and every kernel terminates.
Fairness ==
    /\ WF_vars(Compile)
    /\ \A b \in Names : WF_vars(CopyInput(b))
    /\ \A k \in Steps : WF_vars(Start(k)) /\ WF_vars(Finish(k))

Spec == Init /\ [][Next]_vars /\ Fairness

-----------------------------------------------------------------------------
\* The nodes whose values a node needs; an alias passes on another's.
DataProducers(k) == {j \in DOMAIN nodes : Written(j) \cap InputsOf(k) # {}}

\* Streams and events order data: a node runs only after every node whose
\* value it reads has finished, on whichever streams they are.
ProducersFinishFirst ==
    \A k \in running : DataProducers(k) \subseteq finished

Holds(p) == \A u \in BytesOf(p) : contents[u] = p

\* What makes a graph that is in order unplannable: a node reads a name that
\* stands for nothing yet, no node reads some graph input (a node bridged before
\* hides an input of its name), an output is no node, or a port has no size.
NodesBefore(i) == {graph.nodes[j] : j \in 1..(i - 1)}
NamesReadAt(i) == ToSet(graph.inputs[graph.nodes[i]])
InputsReadAt(i) == (NamesReadAt(i) \cap BoundarySet) \ NodesBefore(i)
OwnsPort(n)    == n \notin graph.aliases \/ graph.inputs[n] = <<>>

Unplannable ==
    \/ \E i \in DOMAIN graph.nodes : ~(NamesReadAt(i) \subseteq NodesBefore(i) \cup BoundarySet)
    \/ \E b \in BoundarySet : \A i \in DOMAIN graph.nodes : b \notin InputsReadAt(i)
    \/ ~(graph.outputs \subseteq ToSet(graph.nodes))
    \/ \E n \in ToSet(graph.nodes) : OwnsPort(n) /\ graph.outputBytes[n] = Unsized
    \/ \E b \in BoundarySet : graph.boundaryBytes[b] = Unsized

\* The bridge, the planner and the publication of the offsets each refuse on
\* their own, the last one after all the planning.  Between them they refuse
\* the graphs that have a fault and no other, and none of those is published.
RefusalsAreExact ==
    /\ stage = "failed" \/ bridge = "failed" => Unplannable
    /\ Planned => ~Unplannable

BoundaryPorts == {BoundaryPort(b) : b \in BoundarySet}

\* The planner starts the interval of a graph input at the first alias that
\* views it, if no node has read it before.  The host copies all inputs first,
\* so an input that starts late shares bytes with what is live until then.
InputsLiveFromStart ==
    \A p \in BoundaryPorts \cap DOMAIN intervals : intervals[p].start = 1

\* On a single stream, the shared offsets are invisible: while a node runs,
\* the nodes' outputs it reads are intact in the workspace, and so are the
\* graph inputs it reads unless an input starts late.
SerialReadsAreFresh ==
    maxStreams = 1 =>
      \A k \in running : \A p \in Read(k) :
         p \notin BoundaryPorts \/ InputsLiveFromStart => Holds(p)

\* The scheduler takes the first alias that views a graph input for the
\* producer of its port: so that alias, and each node that reads the input
\* before it, has a predecessor that is not an earlier node.
ReadsAhead(k) == ~(Producers(k) \subseteq 1..(k - 1))

SignalledEarlier(k) ==
    \A e \in waits[k] : \E j \in 1..(k - 1) : e \in signals[j] /\ streamOf[j] = e[2]

\* Every wait of a node that does not read ahead has a matching signal, which
\* an earlier node gives on the very stream the wait names.
SignalsComeFromEarlierNodes ==
    Planned => \A k \in DOMAIN nodes : ReadsAhead(k) \/ SignalledEarlier(k)

\* "independent subgraphs can run concurrently": two nodes that run at the
\* same time do not write what the other reads or writes.
NoWorkspaceRace ==
    \A j, k \in running : j # k =>
      \A p \in Written(j) : \A q \in Read(k) \cup Written(k) :
         BytesOf(p) \cap BytesOf(q) = {}

\* The host reads every graph output at its published offset once the graph
\* has run.
AllRan == Planned /\ finished = DOMAIN nodes

OutputsSurvive ==
    AllRan => \A n \in graph.outputs :
                \A u \in BytesAt(outputPorts[n], producerPort[n]) :
                   contents[u] = producerPort[n]

\* A compiled graph runs to its end, on any number of streams: the waits of
\* the streams never form a cycle.  The exception is a graph with a node that
\* reads ahead and waits: nothing before it may give the event it waits for.
Stopped == phase \in {"invalid", "cycle"} \/ stage = "failed" \/ bridge = "failed"

Misled == Planned /\ \E k \in DOMAIN nodes : ReadsAhead(k) /\ waits[k] # {}

RunsToCompletion == <>(Stopped \/ AllRan \/ Misled)

\* The session implements Dataflow: steps complete in an order the data
\* dependencies allow, for every graph; and all of them complete, unless a
\* node of the graph reads ahead and waits.
PublishedDeps ==
    IF Planned THEN [k \in DOMAIN nodes |-> DataProducers(k)] ELSE <<>>

Flow == INSTANCE Dataflow WITH deps <- PublishedDeps, done <- finished
ImplementsDataflow ==
    /\ Flow!Init
    /\ [][Flow!Next]_<<PublishedDeps, finished>>
    /\ <>Misled \/ Flow!Progress
=============================================================================
