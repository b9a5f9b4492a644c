--------------------------- MODULE StreamScheduler ---------------------------
(***************************************************************************)
(* ScheduleStreams of ir/stream_scheduler.go: partition the nodes of a     *)
(* planned topology into hardware streams and attach the events that order *)
(* nodes of different streams.  One action schedules one node.             *)
(*                                                                         *)
(* A node is known by its index, counted from 1, which is the Node.ID it    *)
(* gets when it is scheduled.  An event is named by the node that waits for *)
(* it and the stream it waits on: the code numbers the events in the order  *)
(* of a map iteration, and only their being distinct matters.               *)
(***************************************************************************)
EXTENDS PlanTopology

CONSTANT StreamCaps    \* the values of options.MaxStreams to consider

ASSUME StreamCapsAssumption == StreamCaps \subseteq Nat

VARIABLES maxStreams,   \* options.MaxStreams
          scheduled,    \* how many nodes have been scheduled
          streamOf,     \* Node.StreamID, 0 until the node is scheduled
          lastOn,       \* streamLastNode: the newest node of each stream
          nextStream,   \* nextStreamID
          waits,        \* Node.SyncBarriers with Wait = true
          signals       \* Node.SyncBarriers with Wait = false

schedulerVars == <<maxStreams, scheduled, streamOf, lastOn, nextStream, waits,
                   signals>>

StreamCap == IF maxStreams < 1 THEN Len(nodes) ELSE maxStreams

\* buildProducerIndex: the first node with the port among its outputs.
Producers(k) ==
    {j \in DOMAIN nodes :
       \E p \in InputsOf(k) \cap OutputsOf(j) : \A i \in 1..(j - 1) : p \notin OutputsOf(i)}

\* Node.ID of node j while node k is scheduled: 0 until it is j's turn.
IDAt(k, j) == IF j <= k THEN j ELSE 0

\* The IDs of the producers of node k that are on stream s, or would be: a
\* node that has not been scheduled still has StreamID 0.
ProducerIDs(k, s) == {IDAt(k, j) : j \in {i \in Producers(k) : streamOf[i] = s}}

\* Fault: the oldest producer on a stream is kept.
PredecessorStreamsOldest(k) ==
    [s \in {streamOf[j] : j \in Producers(k)} |->
       CHOOSE n \in ProducerIDs(k, s) : \A m \in ProducerIDs(k, s) : m >= n]

\* collectPredecessorStreams: for each stream a producer is on, the ID of the
\* newest producer on it.
PredecessorStreams(k) ==
    [s \in {streamOf[j] : j \in Producers(k)} |->
       CHOOSE n \in ProducerIDs(k, s) : \A m \in ProducerIDs(k, s) : m <= n]

(***************************************************************************)
(* pickStream: a root opens a stream, a chain continues on the stream whose *)
(* newest node it reads, a branch opens a stream, and a merge takes the    *)
(* lowest of its producers' streams.  At the cap a root takes stream 0 and *)
(* a branch its producer's stream.                                         *)
(***************************************************************************)
Fresh(otherwise) == IF nextStream < StreamCap THEN nextStream ELSE otherwise

\* A stream without a node yet reads as one whose newest node has ID 0.
Continues(s, j) == j = IF s \in DOMAIN lastOn THEN lastOn[s] ELSE 0

PickStream(preds) ==
    LET streams == DOMAIN preds
        lowest  == CHOOSE s \in streams : \A t \in streams : s <= t
    IN  IF streams = {} THEN Fresh(0)
        ELSE IF streams # {lowest} \/ Continues(lowest, preds[lowest]) THEN lowest
        ELSE Fresh(lowest)

OpensStream(preds) ==
    /\ nextStream < StreamCap
    /\ \/ DOMAIN preds = {}
       \/ \E s \in DOMAIN preds : DOMAIN preds = {s} /\ ~Continues(s, preds[s])

\* Fault: only the signals are recorded.
NoWaits(k, foreign) == waits

\* The events node k waits for: one on every other stream it depends on.
WaitsAfter(k, foreign) == [waits EXCEPT ![k] = @ \cup {<<k, t>> : t \in DOMAIN foreign}]

\* Fault: only the waits are recorded.
NoSignals(k, foreign) == signals

\* Fault: the signal is recorded on the consumer.
SignalsOnConsumer(k, foreign) ==
    [signals EXCEPT ![k] = @ \cup {<<k, t>> : t \in DOMAIN foreign}]

\* findNodeByID while node k is scheduled: ID 0 finds the next node.
NodeWithID(k, n) == IF n = 0 THEN k + 1 ELSE n

\* Each of those events is signalled by the producer on that stream.
SignalsAfter(k, foreign) ==
    [j \in DOMAIN signals |->
       signals[j] \cup
          {<<k, t>> : t \in {u \in DOMAIN foreign : NodeWithID(k, foreign[u]) = j}}]

\* One iteration: the node joins its stream, waits for an event on every
\* other stream it depends on, and the producer there signals that event.
ScheduleNode ==
    /\ scheduled < Len(nodes)
    /\ LET k       == scheduled + 1
           preds   == PredecessorStreams(k)
           s       == PickStream(preds)
           foreign == [t \in DOMAIN preds \ {s} |-> preds[t]]
       IN  /\ streamOf' = [streamOf EXCEPT ![k] = s]
           /\ lastOn' = [t \in DOMAIN lastOn \cup {s} |->
                           IF t = s THEN k ELSE lastOn[t]]
           /\ nextStream' = IF OpensStream(preds) THEN nextStream + 1 ELSE nextStream
           /\ waits' = WaitsAfter(k, foreign)
           /\ signals' = SignalsAfter(k, foreign)
    /\ scheduled' = scheduled + 1
    /\ UNCHANGED <<nodes, maxStreams>>
=============================================================================
