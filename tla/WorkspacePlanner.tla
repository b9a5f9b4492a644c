-------------------------- MODULE WorkspacePlanner --------------------------
(***************************************************************************)
(* PlanWorkspace of ir/planner.go: AssignPortIDs, AnalyzeLiveness and the  *)
(* interval-coloring allocator AllocateOffsets, over the nodes of one      *)
(* planning topology in execution order.  One action is one iteration of   *)
(* a loop: a node of the first two passes, an interval or one jump of the  *)
(* offset search in the third.                                             *)
(*                                                                         *)
(* A port stands for its *ir.Port pointer.  The code keys its maps by      *)
(* Port.ID; the IDs that AssignPortIDs hands out are distinct, so intervals*)
(* and allocations are keyed by the port itself.  Steps count from 1 (the  *)
(* code's step index plus one).                                            *)
(***************************************************************************)
EXTENDS PlanTopology, FiniteSets

CONSTANTS Ports,    \* the port pointers of the topology
          NoPort,   \* no interval is being placed
          Unsized,  \* PortByteSize fails: unbound symbol, or no dtype
          Align     \* options.Align

ASSUME NoPortAssumption  == NoPort \notin Ports
ASSUME UnsizedAssumption == Unsized \notin Nat
ASSUME AlignAssumption   == Align \in Nat \ {0}

VARIABLES bytes,      \* PortByteSize of each port
          stage,      \* the pass that is running
          step,       \* the node the pass is at
          portID,     \* Port.ID, 0 before planning
          nextID,     \* AssignPortIDs: the next free ID
          intervals,  \* liveness interval of each port that has one
          pending,    \* AllocateOffsets: intervals not reached yet
          current,    \* AllocateOffsets: the port being placed
          candidate,  \* chooseLowestNonConflictingOffset: offset on trial
          live,       \* AllocateOffsets: ports whose blocks are live
          offset,     \* Interval.Offset of the ports placed so far
          highWater,  \* AllocateOffsets: end of the highest block
          workspace   \* topology.Workspace.Size

topologyVars == <<nodes, bytes>>
allocVars    == <<pending, current, candidate, live, offset, highWater>>
plannerVars  == <<topologyVars, stage, step, portID, nextID, intervals,
                  allocVars, workspace>>

-----------------------------------------------------------------------------
(* AssignPortIDs: the ports of each node, outputs first, in slot order.    *)

Slots(k)        == nodes[k].outputs \o nodes[k].inputs
Unnumbered(k)   == {p \in OutputsOf(k) \cup InputsOf(k) : portID[p] = 0}
FirstSlot(k, p) == CHOOSE i \in DOMAIN Slots(k) :
                      Slots(k)[i] = p /\ \A j \in 1..(i - 1) : Slots(k)[j] # p
EarlierIn(k, p) == {q \in Unnumbered(k) : FirstSlot(k, q) < FirstSlot(k, p)}

AssignPortIDs ==
    /\ stage = "ids"
    /\ step <= Len(nodes)
    /\ portID' = [p \in Ports |->
                    IF p \in Unnumbered(step)
                    THEN nextID + Cardinality(EarlierIn(step, p))
                    ELSE portID[p]]
    /\ nextID' = nextID + Cardinality(Unnumbered(step))
    /\ step' = step + 1
    /\ UNCHANGED <<topologyVars, stage, intervals, allocVars, workspace>>

StartLiveness ==
    /\ stage = "ids"
    /\ step > Len(nodes)
    /\ stage' = "liveness"
    /\ step' = 1
    /\ UNCHANGED <<topologyVars, portID, nextID, intervals, allocVars, workspace>>

-----------------------------------------------------------------------------
(* AnalyzeLiveness                                                         *)

Known       == DOMAIN intervals
NewPorts(k) == (OutputsOf(k) \cup InputsOf(k)) \ Known

\* Fault: a consumer does not extend the interval of a port it reads.
IntervalAfterProducer(k, p) ==
    IF p \in Known
    THEN intervals[p]
    ELSE [start |-> IF p \in OutputsOf(k) THEN k ELSE 1,
          end   |-> k,
          size  |-> bytes[p]]

\* registerOutput for every output, then extendForConsumer for every input:
\* an input nothing has produced or registered yet is live from the start.
IntervalAfter(k, p) ==
    IF p \in Known
    THEN [intervals[p] EXCEPT !.end = IF p \in InputsOf(k) /\ k > @ THEN k ELSE @]
    ELSE [start |-> IF p \in OutputsOf(k) THEN k ELSE 1,
          end   |-> k,
          size  |-> bytes[p]]

\* Fault: the error of PortByteSize is dropped.
AnalyzeLivenessUnchecked ==
    /\ stage = "liveness"
    /\ step <= Len(nodes)
    /\ intervals' = [p \in Known \cup NewPorts(step) |-> IntervalAfter(step, p)]
    /\ step' = step + 1
    /\ UNCHANGED <<topologyVars, stage, portID, nextID, allocVars, workspace>>

AnalyzeLiveness ==
    /\ stage = "liveness"
    /\ step <= Len(nodes)
    /\ \A p \in NewPorts(step) : bytes[p] # Unsized
    /\ intervals' = [p \in Known \cup NewPorts(step) |-> IntervalAfter(step, p)]
    /\ step' = step + 1
    /\ UNCHANGED <<topologyVars, stage, portID, nextID, allocVars, workspace>>

LivenessFails ==
    /\ stage = "liveness"
    /\ step <= Len(nodes)
    /\ \E p \in NewPorts(step) : bytes[p] = Unsized
    /\ stage' = "failed"
    /\ UNCHANGED <<topologyVars, step, portID, nextID, intervals, allocVars,
                   workspace>>

StartAllocation ==
    /\ stage = "liveness"
    /\ step > Len(nodes)
    /\ stage' = "allocate"
    /\ pending' = Known
    /\ UNCHANGED <<topologyVars, step, portID, nextID, intervals, current,
                   candidate, live, offset, highWater, workspace>>

-----------------------------------------------------------------------------
(* AllocateOffsets                                                         *)

AlignUp(v) == ((v + Align - 1) \div Align) * Align

BlockEnd(p) == offset[p] + intervals[p].size

\* The sort key of the intervals: Start, then PortID.
Precedes(p, q) ==
    \/ intervals[p].start < intervals[q].start
    \/ intervals[p].start = intervals[q].start /\ portID[p] < portID[q]

\* The blocks that a block of p at offset c would overlap.
Conflicts(p, c) ==
    {b \in live : c < BlockEnd(b) /\ offset[b] < c + intervals[p].size}

\* Fault: a block is evicted at the step its interval ends.
NextIntervalTouching ==
    /\ stage = "allocate"
    /\ current = NoPort
    /\ \E p \in pending :
         /\ \A q \in pending \ {p} : Precedes(p, q)
         /\ current' = p
         /\ pending' = pending \ {p}
         /\ live' = {b \in live : intervals[b].end > intervals[p].start}
         /\ intervals' = [intervals EXCEPT ![p].size = AlignUp(@)]
    /\ candidate' = 0
    /\ UNCHANGED <<topologyVars, stage, step, portID, nextID, offset,
                   highWater, workspace>>

\* The next interval in sorted order: evict the blocks that ended before its
\* start, round its size up, and start the offset search at zero.
NextInterval ==
    /\ stage = "allocate"
    /\ current = NoPort
    /\ \E p \in pending :
         /\ \A q \in pending \ {p} : Precedes(p, q)
         /\ current' = p
         /\ pending' = pending \ {p}
         /\ live' = {b \in live : intervals[b].end >= intervals[p].start}
         /\ intervals' = [intervals EXCEPT ![p].size = AlignUp(@)]
    /\ candidate' = 0
    /\ UNCHANGED <<topologyVars, stage, step, portID, nextID, offset,
                   highWater, workspace>>

\* Fault: a block that does not fit at once goes behind all others.
JumpToHighWater ==
    /\ stage = "allocate"
    /\ current # NoPort
    /\ Conflicts(current, candidate) # {}
    /\ candidate' = AlignUp(highWater)
    /\ UNCHANGED <<topologyVars, stage, step, portID, nextID, intervals, pending,
                   current, live, offset, highWater, workspace>>

\* Fault: the search moves to the block it collided with, not past it.
JumpToBlock ==
    /\ stage = "allocate"
    /\ current # NoPort
    /\ \E b \in Conflicts(current, candidate) : candidate' = AlignUp(offset[b])
    /\ UNCHANGED <<topologyVars, stage, step, portID, nextID, intervals, pending,
                   current, live, offset, highWater, workspace>>

\* The candidate overlaps a block: try again right after the lowest such.
JumpPastBlock ==
    /\ stage = "allocate"
    /\ current # NoPort
    /\ \E b \in Conflicts(current, candidate) :
         /\ \A c \in Conflicts(current, candidate) : offset[b] <= offset[c]
         /\ candidate' = AlignUp(BlockEnd(b))
    /\ UNCHANGED <<topologyVars, stage, step, portID, nextID, intervals, pending,
                   current, live, offset, highWater, workspace>>

\* Fault: the high-water mark follows the newest block.
PlaceIntervalNewest ==
    /\ stage = "allocate"
    /\ current # NoPort
    /\ Conflicts(current, candidate) = {}
    /\ offset' = [p \in DOMAIN offset \cup {current} |->
                    IF p = current THEN candidate ELSE offset[p]]
    /\ live' = live \cup {current}
    /\ highWater' = candidate + intervals[current].size
    /\ current' = NoPort
    /\ UNCHANGED <<topologyVars, stage, step, portID, nextID, intervals, pending,
                   candidate, workspace>>

\* The candidate fits: it becomes the offset, and the block is live.
PlaceInterval ==
    /\ stage = "allocate"
    /\ current # NoPort
    /\ Conflicts(current, candidate) = {}
    /\ offset' = [p \in DOMAIN offset \cup {current} |->
                    IF p = current THEN candidate ELSE offset[p]]
    /\ live' = live \cup {current}
    /\ highWater' = IF highWater < candidate + intervals[current].size
                    THEN candidate + intervals[current].size
                    ELSE highWater
    /\ current' = NoPort
    /\ UNCHANGED <<topologyVars, stage, step, portID, nextID, intervals, pending,
                   candidate, workspace>>

\* All intervals have offsets: publish topology.Workspace, and the offsets
\* as Port.Allocation.
FinishAllocation ==
    /\ stage = "allocate"
    /\ current = NoPort
    /\ pending = {}
    /\ workspace' = AlignUp(highWater)
    /\ stage' = "planned"
    /\ UNCHANGED <<topologyVars, step, portID, nextID, intervals, allocVars>>

PlanWorkspace ==
    \/ AssignPortIDs
    \/ StartLiveness
    \/ AnalyzeLiveness
    \/ LivenessFails
    \/ StartAllocation
    \/ NextInterval
    \/ JumpPastBlock
    \/ PlaceInterval
    \/ FinishAllocation

-----------------------------------------------------------------------------
(* The planner on its own: any topology, any port sizes.                   *)

NodeType == [inputs : Seq(Ports), outputs : Seq(Ports), alias : BOOLEAN]

\* buildPlanningTopology gives a node a port of its own, or, for an alias
\* operation, one it reads: a known port is never an output only.
AliasesReadTheirPort ==
    \A k \in DOMAIN nodes : \A p \in OutputsOf(k) \ InputsOf(k) :
       \A j \in 1..(k - 1) : p \notin OutputsOf(j) \cup InputsOf(j)

\* What PlanWorkspace starts from, whatever the topology.
PlannerStart ==
    /\ stage = "ids"
    /\ step = 1
    /\ portID = [p \in Ports |-> 0]
    /\ nextID = 1
    /\ intervals = [p \in {} |-> 0]
    /\ pending = {}
    /\ current = NoPort
    /\ candidate = 0
    /\ live = {}
    /\ offset = [p \in {} |-> 0]
    /\ highWater = 0
    /\ workspace = 0

PlannerInit ==
    /\ nodes \in Seq(NodeType)
    /\ AliasesReadTheirPort
    /\ bytes \in [Ports -> Nat \cup {Unsized}]
    /\ PlannerStart

PlannerSpec == PlannerInit /\ [][PlanWorkspace]_plannerVars

-----------------------------------------------------------------------------
IntervalType == [start : Nat, end : Nat, size : Nat]

\* Every variable keeps the type the Go structures give it.
PlannerTypeOK ==
    /\ nodes \in Seq(NodeType)
    /\ bytes \in [Ports -> Nat \cup {Unsized}]
    /\ stage \in {"ids", "liveness", "allocate", "planned", "failed"}
    /\ step \in Nat \ {0}
    /\ portID \in [Ports -> Nat]
    /\ nextID \in Nat
    /\ Known \subseteq Ports
    /\ intervals \in [Known -> IntervalType]
    /\ pending \subseteq Known
    /\ current \in Known \cup {NoPort}
    /\ candidate \in Nat
    /\ live \subseteq DOMAIN offset
    /\ DOMAIN offset \subseteq Known
    /\ offset \in [DOMAIN offset -> Nat]
    /\ highWater \in Nat
    /\ workspace \in Nat

\* Interval.Overlaps of ir/workspace.go: inclusive at both ends.
Overlaps(p, q) ==
    /\ intervals[p].end >= intervals[q].start
    /\ intervals[q].end >= intervals[p].start

\* Two ports that are live at a common step never share a byte ("intervals
\* that do overlap get distinct Offsets"), although a block is compared only
\* with those the eviction has left in the live list.
NoSharedBytes ==
    \A p, q \in DOMAIN offset :
       p # q /\ Overlaps(p, q) =>
          BlockEnd(p) <= offset[q] \/ BlockEnd(q) <= offset[p]

\* The search returns the smallest offset at which the block fits, as its
\* comment says: every offset it jumps over overlaps a live block.
OffsetIsLowest ==
    current # NoPort =>
       \A c \in 0..(candidate - 1) : Conflicts(current, c) # {}

\* A port is inside its interval at every step that produces or reads it,
\* also when an alias node lists as output a port that was known before.
Passed(k) == stage \in {"allocate", "planned"} \/ (stage = "liveness" /\ k < step)

EveryUseIsLive ==
    \A k \in DOMAIN nodes :
       Passed(k) =>
         \A p \in InputsOf(k) \cup OutputsOf(k) :
            /\ p \in Known
            /\ intervals[p].start <= k
            /\ intervals[p].end >= k

\* A kernel never finds its output, or another input, on an input's bytes:
\* the ports of one node have disjoint blocks.
OperandsAreDisjoint ==
    stage = "planned" =>
      \A k \in DOMAIN nodes : \A p, q \in InputsOf(k) \cup OutputsOf(k) :
         p # q => BlockEnd(p) <= offset[q] \/ BlockEnd(q) <= offset[p]

\* The published layout: every block aligned, all inside the workspace, and
\* the workspace no larger than its highest block.
LayoutIsTight ==
    stage = "planned" =>
      /\ DOMAIN offset = Known
      /\ \A p \in Known : /\ offset[p] % Align = 0
                          /\ intervals[p].size >= bytes[p]
                          /\ BlockEnd(p) <= workspace
      /\ workspace = 0 \/ \E p \in Known : BlockEnd(p) = workspace

\* The pass ends on every topology: the offset search always finds a gap.
PlannerEnds == <>(stage \in {"planned", "failed"})
=============================================================================
