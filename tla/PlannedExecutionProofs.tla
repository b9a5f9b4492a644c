------------------------ MODULE PlannedExecutionProofs ------------------------
(***************************************************************************)
(* Proofs about the workspace planner, for every topology, size and        *)
(* alignment: its types, the memory-safety invariant NoSharedBytes and     *)
(* what it rests on, and the coverage of every use by an interval.  Then   *)
(* about a session that runs a planned graph, for every graph and every    *)
(* cap on the number of streams: no node starts before the nodes it takes  *)
(* values from have finished, every wait has an earlier signal, and no     *)
(* step does what Dataflow does not allow. The planner keeps its promises  *)
(* in this composition, and on one stream each node reads its inputs as    *)
(* they were written.                                                      *)
(***************************************************************************)
EXTENDS PlannedExecution, OrderLemmas, FunctionTheorems, WellFoundedInduction

-----------------------------------------------------------------------------
(* THE WORKSPACE PLANNER                                                   *)

-----------------------------------------------------------------------------
(* Arithmetic of AlignUp.                                                  *)

\* Two remainders of the same number are equal.
LEMMA OneRemainder ==
  ASSUME NEW n \in Nat \ {0}, NEW q \in Int, NEW p \in Int, NEW r \in Nat, NEW s \in Nat,
         r < n, s < n, q * n + r = p * n + s
  PROVE  r = s
<1>1. CASE p = q
  BY <1>1
<1>2. ASSUME NEW d \in Nat, p = q + 1 + d PROVE FALSE
  <2>1. p * n = q * n + n + d * n /\ d * n >= 0
    BY <1>2
  <2> QED
    BY <2>1
<1>3. ASSUME NEW d \in Nat, q = p + 1 + d PROVE FALSE
  <2>1. q * n = p * n + n + d * n /\ d * n >= 0
    BY <1>3
  <2> QED
    BY <2>1
<1>4. p = q \/ (\E d \in Nat : p = q + 1 + d) \/ (\E d \in Nat : q = p + 1 + d)
  <2>1. CASE p > q
    <3>1. p - q - 1 \in Nat /\ p = q + 1 + (p - q - 1)
      BY <2>1
    <3> QED
      BY <3>1
  <2>2. CASE q > p
    <3>1. q - p - 1 \in Nat /\ q = p + 1 + (q - p - 1)
      BY <2>2
    <3> QED
      BY <3>1
  <2> QED
    BY <2>1, <2>2
<1> QED
  BY <1>1, <1>2, <1>3, <1>4

\* A multiple leaves no remainder.
LEMMA MultipleIsAligned ==
  ASSUME NEW n \in Nat \ {0}, NEW q \in Nat
  PROVE  q * n \in Nat /\ (q * n) % n = 0
<1>1. q * n \in Nat
  OBVIOUS
<1>2. PICK m : m = q * n
  OBVIOUS
<1>3. PICK p, s : p = m \div n /\ s = m % n
  OBVIOUS
<1>4. p \in Int /\ s \in Nat /\ s < n /\ m = p * n + s
  BY <1>1, <1>2, <1>3
<1>5. 0 \in Nat /\ 0 < n /\ q * n + 0 = p * n + s
  BY <1>1, <1>2, <1>4
<1>6. 0 = s
  BY <1>4, <1>5, OneRemainder
<1> QED
  BY <1>1, <1>2, <1>3, <1>6

\* Rounding up yields a multiple of the alignment that is no smaller.
LEMMA AlignUpRounds ==
  ASSUME NEW v \in Nat
  PROVE  /\ AlignUp(v) \in Nat
         /\ AlignUp(v) >= v
         /\ AlignUp(v) % Align = 0
<1> DEFINE q == (v + Align - 1) \div Align
           r == (v + Align - 1) % Align
<1>1. q \in Nat /\ r \in 0..(Align - 1) /\ v + Align - 1 = Align * q + r
  BY AlignAssumption
<1>2. AlignUp(v) = q * Align
  BY DEF AlignUp
<1> HIDE DEF q, r
<1>3. q * Align \in Nat /\ (q * Align) % Align = 0
  <2>1. q \in Nat
    BY <1>1
  <2> QED
    BY <2>1, AlignAssumption, MultipleIsAligned
<1>4. q * Align >= v
  BY <1>1, AlignAssumption
<1> QED
  BY <1>2, <1>3, <1>4

\* A multiple of the alignment is not moved.
LEMMA AlignUpFixesAligned ==
  ASSUME NEW v \in Nat, v % Align = 0
  PROVE  AlignUp(v) = v
<1> DEFINE k == v \div Align
<1>1. k \in Nat /\ v = k * Align
  BY AlignAssumption
<1> HIDE DEF k
<1>2. (k * Align + Align - 1) \div Align = k
  BY <1>1, AlignAssumption
<1> QED
  BY <1>1, <1>2 DEF AlignUp

\* The sum of two multiples of the alignment is one.
LEMMA AlignedSum ==
  ASSUME NEW v \in Nat, NEW w \in Nat, v % Align = 0, w % Align = 0
  PROVE  (v + w) % Align = 0
<1> DEFINE j == v \div Align
           k == w \div Align
<1>1. /\ j \in Nat /\ v = j * Align
      /\ k \in Nat /\ w = k * Align
  BY AlignAssumption
<1> HIDE DEF j, k
<1>2. v + w = (j + k) * Align
  BY <1>1, AlignAssumption
<1>3. ((j + k) * Align) % Align = 0
  BY <1>1, AlignAssumption
<1> QED
  BY <1>2, <1>3

-----------------------------------------------------------------------------
(* Types.                                                                  *)

\* The elements of a finite sequence are finitely many.
LEMMA RangeIsFinite ==
  ASSUME NEW S, NEW s \in Seq(S)
  PROVE  /\ {s[i] : i \in DOMAIN s} \subseteq S
         /\ IsFiniteSet({s[i] : i \in DOMAIN s})
<1>1. s \in [1..Len(s) -> S] /\ DOMAIN s = 1..Len(s) /\ Len(s) \in Nat
  BY LenProperties
<1>2. s \in Surjection(DOMAIN s, {s[i] : i \in DOMAIN s})
  BY <1>1 DEF Surjection
<1>3. IsFiniteSet(DOMAIN s)
  BY <1>1, FS_Interval
<1>4. IsFiniteSet({s[i] : i \in DOMAIN s})
  BY <1>2, <1>3, FS_Surjection
<1> QED
  BY <1>1, <1>4

\* A node's ports are ports, and finitely many.
LEMMA NodePorts ==
  ASSUME nodes \in Seq(NodeType), NEW k \in 1..Len(nodes)
  PROVE  /\ InputsOf(k) \subseteq Ports /\ IsFiniteSet(InputsOf(k))
         /\ OutputsOf(k) \subseteq Ports /\ IsFiniteSet(OutputsOf(k))
<1>1. nodes[k] \in NodeType
  BY ElementOfSeq
<1>2. nodes[k].inputs \in Seq(Ports) /\ nodes[k].outputs \in Seq(Ports)
  BY <1>1 DEF NodeType
<1> QED
  BY <1>2, RangeIsFinite DEF InputsOf, OutputsOf

\* AnalyzeLiveness makes intervals, for a node's ports that have a size.
LEMMA IntervalTyping ==
  ASSUME PlannerTypeOK, step <= Len(nodes),
         \A p \in NewPorts(step) : bytes[p] # Unsized,
         NEW p \in Known \cup NewPorts(step)
  PROVE  p \in Ports /\ IntervalAfter(step, p) \in IntervalType
<1>1. step \in 1..Len(nodes)
  BY LenProperties DEF PlannerTypeOK
<1>2. p \in Ports
  BY <1>1, NodePorts DEF PlannerTypeOK, NewPorts
<1>3. CASE p \in Known
  <2>1. intervals[p] \in IntervalType
    BY <1>3 DEF PlannerTypeOK
  <2> QED
    BY <1>2, <1>3, <2>1 DEF IntervalAfter, IntervalType, PlannerTypeOK
<1>4. CASE p \notin Known
  <2>1. bytes[p] \in Nat
    BY <1>2, <1>4 DEF PlannerTypeOK
  <2> QED
    BY <1>2, <1>4, <2>1 DEF IntervalAfter, IntervalType, PlannerTypeOK
<1> QED
  BY <1>3, <1>4

\* AssignPortIDs counts finitely many ports.
LEMMA NumberingTyping ==
  ASSUME PlannerTypeOK, step <= Len(nodes)
  PROVE  /\ Cardinality(Unnumbered(step)) \in Nat
         /\ \A p : Cardinality(EarlierIn(step, p)) \in Nat
<1>1. step \in 1..Len(nodes)
  BY LenProperties DEF PlannerTypeOK
<1>2. IsFiniteSet(OutputsOf(step)) /\ IsFiniteSet(InputsOf(step))
  BY <1>1, NodePorts DEF PlannerTypeOK
<1>3. IsFiniteSet(OutputsOf(step) \cup InputsOf(step))
  BY <1>2, FS_Union
<1>4. Unnumbered(step) \in SUBSET (OutputsOf(step) \cup InputsOf(step))
  BY DEF Unnumbered
<1>5. IsFiniteSet(Unnumbered(step))
  BY <1>3, <1>4, FS_Subset
<1>6. \A p : EarlierIn(step, p) \in SUBSET Unnumbered(step)
  BY DEF EarlierIn
<1>7. \A p : IsFiniteSet(EarlierIn(step, p))
  BY <1>5, <1>6, FS_Subset
<1> QED
  BY <1>5, <1>7, FS_CardinalityType

\* Every step of the planner keeps the types.
LEMMA TypingStep ==
  ASSUME PlannerTypeOK, [PlanWorkspace]_plannerVars
  PROVE  PlannerTypeOK'
<1> USE DEF PlannerTypeOK, topologyVars, allocVars, Known
<1>1. CASE AssignPortIDs
  <2>1. \A p \in Ports : portID'[p] \in Nat
    BY <1>1, NumberingTyping DEF AssignPortIDs
  <2>2. portID' \in [Ports -> Nat]
    BY <1>1, <2>1 DEF AssignPortIDs
  <2>3. nextID' \in Nat
    BY <1>1, NumberingTyping DEF AssignPortIDs
  <2> QED
    BY <1>1, <2>2, <2>3 DEF AssignPortIDs
<1>2. CASE StartLiveness
  BY <1>2 DEF StartLiveness
<1>3. CASE AnalyzeLiveness
  <2>1. \A p \in Known \cup NewPorts(step) :
           p \in Ports /\ IntervalAfter(step, p) \in IntervalType
    BY <1>3, IntervalTyping DEF AnalyzeLiveness
  <2>2. /\ Known' = Known \cup NewPorts(step)
        /\ intervals' \in [Known \cup NewPorts(step) -> IntervalType]
    BY <1>3, <2>1 DEF AnalyzeLiveness
  <2> QED
    BY <1>3, <2>1, <2>2 DEF AnalyzeLiveness
<1>4. CASE LivenessFails
  BY <1>4 DEF LivenessFails
<1>5. CASE StartAllocation
  BY <1>5 DEF StartAllocation
<1>6. CASE NextInterval
  <2>1. PICK p \in pending :
          /\ current' = p
          /\ pending' = pending \ {p}
          /\ live' = {b \in live : intervals[b].end >= intervals[p].start}
          /\ intervals' = [intervals EXCEPT ![p].size = AlignUp(@)]
    BY <1>6 DEF NextInterval
  <2>2. AlignUp(intervals[p].size) \in Nat
    BY AlignUpRounds DEF IntervalType
  <2>3. Known' = Known /\ intervals' \in [Known -> IntervalType]
    BY <2>1, <2>2 DEF IntervalType
  <2> QED
    BY <1>6, <2>1, <2>3 DEF NextInterval
<1>7. CASE JumpPastBlock
  <2>1. PICK b \in Conflicts(current, candidate) :
          candidate' = AlignUp(BlockEnd(b))
    BY <1>7 DEF JumpPastBlock
  <2>2. BlockEnd(b) \in Nat
    <3>1. b \in DOMAIN offset
      BY <2>1 DEF Conflicts
    <3>2. offset[b] \in Nat
      BY <3>1
    <3>3. intervals[b] \in IntervalType
      BY <3>1
    <3>4. intervals[b].size \in Nat
      BY <3>3 DEF IntervalType
    <3> QED
      BY <3>2, <3>4 DEF BlockEnd
  <2>3. candidate' \in Nat
    BY <2>1, <2>2, AlignUpRounds
  <2> QED
    BY <1>7, <2>3 DEF JumpPastBlock
<1>8. CASE PlaceInterval
  <2>1. current \in Known /\ intervals[current].size \in Nat
    BY <1>8 DEF PlaceInterval, IntervalType
  <2>2. /\ DOMAIN offset' = DOMAIN offset \cup {current}
        /\ offset' \in [DOMAIN offset' -> Nat]
    BY <1>8, <2>1 DEF PlaceInterval
  <2>3. highWater' \in Nat
    BY <1>8, <2>1 DEF PlaceInterval
  <2> QED
    BY <1>8, <2>1, <2>2, <2>3 DEF PlaceInterval
<1>9. CASE FinishAllocation
  BY <1>9, AlignUpRounds DEF FinishAllocation
<1>10. CASE UNCHANGED plannerVars
  BY <1>10 DEF plannerVars
<1> QED
  BY <1>1, <1>2, <1>3, <1>4, <1>5, <1>6, <1>7, <1>8, <1>9, <1>10
     DEF PlanWorkspace

\* The planner keeps the types of its variables, for every topology.
THEOREM PlannerTyping == PlannerSpec => []PlannerTypeOK
<1>1. PlannerInit => PlannerTypeOK
  BY DEF PlannerInit, PlannerStart, PlannerTypeOK, Known
<1>2. PlannerTypeOK /\ [PlanWorkspace]_plannerVars => PlannerTypeOK'
  BY TypingStep
<1> QED
  BY <1>1, <1>2, PTL DEF PlannerSpec

-----------------------------------------------------------------------------
(* The inductive invariant of the allocator.                               *)

\* Before the third pass nothing is placed, and a failed plan stays so.
Unplaced ==
    stage \in {"ids", "liveness", "failed"} =>
       /\ pending = {} /\ current = NoPort
       /\ live = {} /\ DOMAIN offset = {} /\ highWater = 0

\* An interval is either ahead, being placed, or placed.
Partitioned ==
    /\ stage \in {"allocate", "planned"} =>
         Known = pending \cup DOMAIN offset \cup ({current} \ {NoPort})
    /\ pending \cap DOMAIN offset = {}
    /\ current \notin pending \cup DOMAIN offset

\* The intervals ahead start no earlier than the one being placed.
StartsInOrder ==
    current # NoPort =>
       \A p \in pending : intervals[current].start <= intervals[p].start

\* A block leaves the live list only when its interval ends before every
\* interval that is still to be placed: it cannot overlap any of them.
EvictedIsOver ==
    \A b \in DOMAIN offset \ live :
       /\ \A p \in pending : intervals[b].end < intervals[p].start
       /\ current # NoPort => intervals[b].end < intervals[current].start

SafetyInv ==
    /\ PlannerTypeOK
    /\ Unplaced
    /\ Partitioned
    /\ StartsInOrder
    /\ EvictedIsOver
    /\ NoSharedBytes

\* Sizes reach the bytes asked for; blocks and candidates are aligned.
Aligned ==
    /\ \A p \in Known : bytes[p] \in Nat /\ intervals[p].size >= bytes[p]
    /\ \A p \in DOMAIN offset : /\ offset[p] % Align = 0
                                /\ intervals[p].size % Align = 0
    /\ candidate % Align = 0
    /\ current # NoPort => intervals[current].size % Align = 0

\* highWater is the end of the highest block placed so far.
HighWaterIsHighest ==
    /\ \A p \in DOMAIN offset : BlockEnd(p) <= highWater
    /\ highWater = 0 \/ \E p \in DOMAIN offset : BlockEnd(p) = highWater
    /\ highWater % Align = 0

Published ==
    stage = "planned" =>
       current = NoPort /\ pending = {} /\ workspace = highWater

LayoutInv ==
    /\ SafetyInv
    /\ Aligned
    /\ HighWaterIsHighest
    /\ OffsetIsLowest
    /\ Published

-----------------------------------------------------------------------------
(* Memory safety: no two ports that are live together share a byte.        *)

\* The passes before the allocator leave everything unplaced.
LEMMA EarlyStepsKeepSafety ==
  ASSUME SafetyInv,
         AssignPortIDs \/ StartLiveness \/ AnalyzeLiveness \/ LivenessFails
           \/ StartAllocation
  PROVE  SafetyInv'
<1> USE DEF SafetyInv, topologyVars, allocVars
<1>1. PlannerTypeOK'
  BY TypingStep DEF PlanWorkspace
<1>2. /\ pending = {} /\ current = NoPort /\ live = {} /\ DOMAIN offset = {}
      /\ highWater = 0
  BY DEF Unplaced, AssignPortIDs, StartLiveness, AnalyzeLiveness, LivenessFails,
         StartAllocation
<1>3. /\ current' = NoPort /\ live' = {} /\ DOMAIN offset' = {} /\ highWater' = 0
  BY <1>2 DEF AssignPortIDs, StartLiveness, AnalyzeLiveness, LivenessFails,
              StartAllocation
<1>4. Unplaced' /\ Partitioned'
  <2>1. CASE StartAllocation
    BY <1>2, <1>3, <2>1, NoPortAssumption
       DEF StartAllocation, Unplaced, Partitioned, Known, PlannerTypeOK
  <2>2. CASE AssignPortIDs \/ StartLiveness \/ AnalyzeLiveness \/ LivenessFails
    BY <1>2, <1>3, <2>2
       DEF AssignPortIDs, StartLiveness, AnalyzeLiveness, LivenessFails, Unplaced,
           Partitioned
  <2> QED
    BY <2>1, <2>2
<1>5. StartsInOrder' /\ EvictedIsOver' /\ NoSharedBytes'
  BY <1>3 DEF StartsInOrder, EvictedIsOver, NoSharedBytes
<1> QED
  BY <1>1, <1>4, <1>5

\* Taking the next interval evicts only what ends before its start, and
\* the intervals behind it start no earlier.
LEMMA NextIntervalKeepsSafety ==
  ASSUME SafetyInv, NextInterval
  PROVE  SafetyInv'
<1> USE DEF SafetyInv
<1>1. PlannerTypeOK'
  BY TypingStep DEF PlanWorkspace
<1>2. PICK p \in pending :
        /\ \A q \in pending \ {p} : Precedes(p, q)
        /\ current' = p
        /\ pending' = pending \ {p}
        /\ live' = {b \in live : intervals[b].end >= intervals[p].start}
        /\ intervals' = [intervals EXCEPT ![p].size = AlignUp(@)]
  BY DEF NextInterval
<1>3. /\ stage' = stage /\ stage = "allocate" /\ current = NoPort
      /\ offset' = offset /\ highWater' = highWater
  BY DEF NextInterval
<1>4. p \in Ports /\ p # NoPort /\ p \in Known
  BY <1>2, NoPortAssumption DEF PlannerTypeOK
<1>5. /\ Known' = Known
      /\ \A q \in Known : /\ intervals'[q].start = intervals[q].start
                          /\ intervals'[q].end = intervals[q].end
                          /\ q # p => intervals'[q] = intervals[q]
  BY <1>2 DEF PlannerTypeOK, Known, IntervalType
<1>6. \A q \in Known : intervals[q].start \in Nat /\ intervals[q].end \in Nat
  BY DEF PlannerTypeOK, IntervalType
<1>7. Unplaced'
  BY <1>3 DEF Unplaced
<1>8. Partitioned'
  BY <1>2, <1>3, <1>4, <1>5 DEF Partitioned
<1>9. \A q \in pending' : intervals[p].start <= intervals[q].start
  <2>1. \A q \in pending : q \in Known
    BY DEF PlannerTypeOK
  <2> QED
    BY <1>2, <1>4, <1>6, <2>1 DEF Precedes
<1>10. StartsInOrder'
  BY <1>2, <1>4, <1>5, <1>9 DEF StartsInOrder, PlannerTypeOK
<1>11. EvictedIsOver'
  <2> SUFFICES ASSUME NEW b \in DOMAIN offset, b \notin live'
               PROVE  /\ intervals[b].end < intervals[p].start
                      /\ \A q \in pending' : intervals[b].end < intervals[q].start
    BY <1>2, <1>3, <1>4, <1>5 DEF EvictedIsOver, PlannerTypeOK
  <2>1. b \in Known
    BY DEF PlannerTypeOK
  <2>2. intervals[b].end < intervals[p].start
    <3>1. CASE b \in live
      BY <1>2, <1>4, <1>6, <2>1, <3>1
    <3>2. CASE b \notin live
      BY <1>2, <3>2 DEF EvictedIsOver
    <3> QED
      BY <3>1, <3>2
  <2> QED
    <3>1. \A q \in pending' : q \in Known
      BY <1>2 DEF PlannerTypeOK
    <3>2. intervals[b].end \in Nat /\ intervals[p].start \in Nat
      BY <1>4, <1>6, <2>1
    <3>3. \A q \in pending' : intervals[q].start \in Nat
      BY <1>6, <3>1
    <3> QED
      BY <1>9, <2>2, <3>2, <3>3
<1>12. NoSharedBytes'
  <2>1. \A q \in DOMAIN offset : q \in Known /\ q # p
    BY <1>2 DEF Partitioned, PlannerTypeOK
  <2>2. \A q \in DOMAIN offset : BlockEnd(q)' = BlockEnd(q)
    BY <1>3, <1>5, <2>1 DEF BlockEnd
  <2>3. \A q, r \in DOMAIN offset : Overlaps(q, r)' = Overlaps(q, r)
    BY <1>5, <2>1 DEF Overlaps
  <2> QED
    BY <1>3, <2>2, <2>3 DEF NoSharedBytes
<1> QED
  BY <1>1, <1>7, <1>8, <1>10, <1>11, <1>12

\* A block is placed where it overlaps no live block; the evicted ones it
\* may share bytes with ended before it starts.
LEMMA PlaceIntervalKeepsSafety ==
  ASSUME SafetyInv, PlaceInterval
  PROVE  SafetyInv'
<1> SUFFICES ASSUME NEW c, c = current PROVE SafetyInv'
  OBVIOUS
<1> USE DEF SafetyInv
<1>1. PlannerTypeOK'
  BY TypingStep DEF PlanWorkspace
<1>2. /\ stage' = stage /\ stage = "allocate" /\ intervals' = intervals
      /\ pending' = pending /\ current' = NoPort /\ current # NoPort
      /\ live' = live \cup {current}
      /\ Conflicts(current, candidate) = {}
  BY DEF PlaceInterval
<1>3. /\ DOMAIN offset' = DOMAIN offset \cup {c}
      /\ offset'[c] = candidate
      /\ \A q \in DOMAIN offset : offset'[q] = offset[q]
  BY DEF PlaceInterval, Partitioned
<1>4. c \in Known /\ c \notin DOMAIN offset \cup pending
  BY <1>2 DEF PlannerTypeOK, Partitioned
<1>5. Unplaced'
  BY <1>2 DEF Unplaced
<1>6. Partitioned'
  BY <1>2, <1>3, <1>4, NoPortAssumption DEF Partitioned, Known, PlannerTypeOK
<1>7. StartsInOrder' /\ EvictedIsOver'
  BY <1>2, <1>3, <1>4 DEF StartsInOrder, EvictedIsOver
<1>8. /\ BlockEnd(c)' = candidate + intervals[c].size
      /\ \A q \in DOMAIN offset : BlockEnd(q)' = BlockEnd(q)
  BY <1>2, <1>3 DEF BlockEnd
<1>9. \A q \in DOMAIN offset :
         Overlaps(c, q) =>
            BlockEnd(c)' <= offset[q] \/ BlockEnd(q) <= candidate
  <2> SUFFICES ASSUME NEW q \in DOMAIN offset, Overlaps(c, q)
               PROVE  BlockEnd(c)' <= offset[q] \/ BlockEnd(q) <= candidate
    OBVIOUS
  <2>1. /\ q \in Known /\ offset[q] \in Nat /\ candidate \in Nat
        /\ intervals[q] \in IntervalType /\ intervals[c] \in IntervalType
    BY <1>4 DEF PlannerTypeOK
  <2>2. CASE q \in live
    <3>1. ~(candidate < BlockEnd(q) /\ offset[q] < candidate + intervals[c].size)
      BY <1>2, <2>2 DEF Conflicts
    <3> QED
      BY <1>8, <2>1, <3>1 DEF BlockEnd, IntervalType
  <2>3. CASE q \notin live
    <3>1. intervals[q].end < intervals[c].start
      BY <1>2, <2>3 DEF EvictedIsOver
    <3> QED
      BY <2>1, <3>1 DEF Overlaps, IntervalType
  <2> QED
    BY <2>2, <2>3
<1>10. NoSharedBytes'
  <2> SUFFICES ASSUME NEW p \in DOMAIN offset', NEW q \in DOMAIN offset',
                      p # q, Overlaps(p, q)
               PROVE  BlockEnd(p)' <= offset'[q] \/ BlockEnd(q)' <= offset'[p]
    BY <1>2 DEF NoSharedBytes, Overlaps
  <2>1. CASE p = c
    BY <1>3, <1>8, <1>9, <2>1
  <2>2. CASE q = c
    <3>1. Overlaps(c, p)
      BY <2>2 DEF Overlaps
    <3> QED
      BY <1>3, <1>8, <1>9, <2>2, <3>1
  <2>3. CASE p # c /\ q # c
    BY <1>3, <1>8, <2>3 DEF NoSharedBytes
  <2> QED
    BY <2>1, <2>2, <2>3
<1> QED
  BY <1>1, <1>5, <1>6, <1>7, <1>10

\* The remaining steps of the allocator place nothing.
LEMMA OtherStepsKeepSafety ==
  ASSUME SafetyInv, JumpPastBlock \/ FinishAllocation \/ UNCHANGED plannerVars
  PROVE  SafetyInv'
<1>1. PlannerTypeOK'
  BY TypingStep DEF PlanWorkspace, SafetyInv
<1>2. /\ intervals' = intervals /\ pending' = pending /\ current' = current
      /\ live' = live /\ offset' = offset /\ highWater' = highWater
      /\ stage' = stage \/ (stage = "allocate" /\ stage' = "planned")
  BY DEF JumpPastBlock, FinishAllocation, plannerVars, allocVars
<1> QED
  BY <1>1, <1>2
     DEF SafetyInv, Unplaced, Partitioned, StartsInOrder, EvictedIsOver,
         NoSharedBytes, Overlaps, BlockEnd, Known

\* The allocator's memory safety, for every topology, size and alignment.
THEOREM WorkspaceIsSafe == PlannerSpec => []NoSharedBytes
<1>1. PlannerInit => SafetyInv
  BY DEF PlannerInit, PlannerStart, SafetyInv, PlannerTypeOK, Unplaced,
         Partitioned, StartsInOrder, EvictedIsOver, NoSharedBytes, Known
<1>2. SafetyInv /\ [PlanWorkspace]_plannerVars => SafetyInv'
  BY EarlyStepsKeepSafety, NextIntervalKeepsSafety, PlaceIntervalKeepsSafety,
     OtherStepsKeepSafety DEF PlanWorkspace
<1>3. SafetyInv => NoSharedBytes
  BY DEF SafetyInv
<1> QED
  BY <1>1, <1>2, <1>3, PTL DEF PlannerSpec

-----------------------------------------------------------------------------
(* The layout: aligned, tight, and found at the lowest offsets.            *)

\* The offset search starts on a multiple of the alignment.
LEMMA ZeroIsAligned == 0 % Align = 0
  BY AlignAssumption

\* Every step keeps SafetyInv: the steps of the theorem above, as a fact.
LEMMA SafetyStep ==
  ASSUME SafetyInv, [PlanWorkspace]_plannerVars
  PROVE  SafetyInv'
  BY EarlyStepsKeepSafety, NextIntervalKeepsSafety, PlaceIntervalKeepsSafety,
     OtherStepsKeepSafety DEF PlanWorkspace

\* The passes before the allocator keep the layout invariant: nothing is placed.
LEMMA EarlyStepsKeepLayout ==
  ASSUME LayoutInv,
         AssignPortIDs \/ StartLiveness \/ AnalyzeLiveness \/ LivenessFails
           \/ StartAllocation
  PROVE  LayoutInv'
<1>1. SafetyInv'
  BY EarlyStepsKeepSafety DEF LayoutInv
<1>2. DOMAIN offset = {} /\ current = NoPort /\ highWater = 0
  BY DEF LayoutInv, SafetyInv, Unplaced, AssignPortIDs, StartLiveness,
         AnalyzeLiveness, LivenessFails, StartAllocation
<1>3. /\ offset' = offset /\ current' = current /\ highWater' = highWater
      /\ candidate' = candidate /\ bytes' = bytes /\ stage' # "planned"
  BY DEF AssignPortIDs, StartLiveness, AnalyzeLiveness, LivenessFails,
         StartAllocation, topologyVars, allocVars, LayoutInv, SafetyInv,
         PlannerTypeOK
<1>4. \A p \in Known' : bytes[p] \in Nat /\ intervals'[p].size >= bytes[p]
  <2>1. CASE AnalyzeLiveness
    <3> SUFFICES ASSUME NEW p \in Known'
                 PROVE  bytes[p] \in Nat /\ intervals'[p].size >= bytes[p]
      OBVIOUS
    <3>1. /\ p \in Known \cup NewPorts(step)
          /\ intervals'[p] = IntervalAfter(step, p)
      BY <2>1 DEF AnalyzeLiveness, Known
    <3>2. CASE p \in Known
      <4>1. intervals[p] \in IntervalType
        BY <3>2 DEF LayoutInv, SafetyInv, PlannerTypeOK
      <4>2. intervals'[p].size = intervals[p].size
        BY <3>1, <3>2, <4>1 DEF IntervalAfter, IntervalType
      <4> QED
        BY <3>2, <4>2 DEF LayoutInv, Aligned
    <3>3. CASE p \notin Known
      <4>1. p \in Ports /\ bytes[p] # Unsized
        BY <2>1, <3>1, <3>3, IntervalTyping
           DEF AnalyzeLiveness, LayoutInv, SafetyInv
      <4>2. bytes[p] \in Nat
        BY <4>1 DEF LayoutInv, SafetyInv, PlannerTypeOK
      <4>3. intervals'[p].size = bytes[p]
        BY <3>1, <3>3 DEF IntervalAfter
      <4> QED
        BY <4>2, <4>3
    <3> QED
      BY <3>2, <3>3
  <2>2. CASE AssignPortIDs \/ StartLiveness \/ LivenessFails \/ StartAllocation
    BY <2>2 DEF AssignPortIDs, StartLiveness, LivenessFails, StartAllocation,
                Known, LayoutInv, Aligned
  <2> QED
    BY <2>1, <2>2
<1>5. Aligned' /\ HighWaterIsHighest'
  BY <1>2, <1>3, <1>4, ZeroIsAligned DEF LayoutInv, Aligned, HighWaterIsHighest
<1> QED
  BY <1>1, <1>2, <1>3, <1>5 DEF LayoutInv, OffsetIsLowest, Published

\* Taking up an interval and evicting what ended before it keeps the layout
\* invariant: the search restarts at zero, with every lower offset untried.
LEMMA NextIntervalKeepsLayout ==
  ASSUME LayoutInv, NextInterval
  PROVE  LayoutInv'
<1>1. SafetyInv'
  BY NextIntervalKeepsSafety DEF LayoutInv
<1>2. PICK p \in pending :
        /\ current' = p
        /\ intervals' = [intervals EXCEPT ![p].size = AlignUp(@)]
  BY DEF NextInterval
<1>3. /\ stage' = stage /\ stage = "allocate" /\ candidate' = 0
      /\ offset' = offset /\ highWater' = highWater /\ bytes' = bytes
  BY DEF NextInterval, topologyVars
<1>4. p \in Known /\ p \notin DOMAIN offset /\ intervals[p] \in IntervalType
  BY DEF LayoutInv, SafetyInv, Partitioned, PlannerTypeOK
<1>5. /\ Known' = Known
      /\ intervals'[p].size = AlignUp(intervals[p].size)
      /\ \A q \in Known \ {p} : intervals'[q] = intervals[q]
  BY <1>2, <1>4 DEF Known, IntervalType
<1>6. /\ intervals'[p].size >= intervals[p].size
      /\ intervals'[p].size \in Nat
      /\ intervals'[p].size % Align = 0
  BY <1>4, <1>5, AlignUpRounds DEF IntervalType
<1>7. DOMAIN offset \subseteq Known
  BY DEF LayoutInv, SafetyInv, PlannerTypeOK
<1>8. Aligned'
  <2>1. \A q \in Known : bytes[q] \in Nat /\ intervals'[q].size >= bytes[q]
    BY <1>4, <1>5, <1>6 DEF LayoutInv, Aligned, IntervalType
  <2> QED
    BY <1>2, <1>3, <1>4, <1>5, <1>6, <1>7, <2>1, ZeroIsAligned
       DEF LayoutInv, Aligned
<1>9. HighWaterIsHighest'
  BY <1>3, <1>4, <1>5, <1>7 DEF LayoutInv, HighWaterIsHighest, BlockEnd
<1>10. OffsetIsLowest' /\ Published'
  BY <1>3 DEF OffsetIsLowest, Published
<1> QED
  BY <1>1, <1>8, <1>9, <1>10 DEF LayoutInv

\* Every offset up to the end of an aligned block that overlaps the
\* candidate overlaps that block too.
LEMMA JumpPastBlockKeepsLayout ==
  ASSUME LayoutInv, JumpPastBlock
  PROVE  LayoutInv'
<1>1. SafetyInv'
  BY SafetyStep DEF LayoutInv, PlanWorkspace
<1>2. PICK b \in Conflicts(current, candidate) : candidate' = AlignUp(BlockEnd(b))
  BY DEF JumpPastBlock
<1>3. /\ stage' = stage /\ stage = "allocate" /\ current' = current
      /\ intervals' = intervals /\ live' = live /\ offset' = offset
      /\ highWater' = highWater /\ bytes' = bytes /\ current # NoPort
  BY DEF JumpPastBlock, topologyVars
<1>4. /\ b \in live /\ b \in DOMAIN offset /\ offset[b] \in Nat
      /\ intervals[b] \in IntervalType
      /\ current \in Known /\ intervals[current] \in IntervalType
      /\ candidate \in Nat
  BY <1>2, <1>3 DEF Conflicts, LayoutInv, SafetyInv, PlannerTypeOK
<1>5. BlockEnd(b) \in Nat /\ BlockEnd(b) % Align = 0
  BY <1>4, AlignedSum DEF BlockEnd, LayoutInv, Aligned, IntervalType
<1>6. candidate' = BlockEnd(b)
  BY <1>2, <1>5, AlignUpFixesAligned
<1>7. Aligned' /\ HighWaterIsHighest' /\ Published'
  BY <1>3, <1>5, <1>6
     DEF LayoutInv, Aligned, HighWaterIsHighest, Published, BlockEnd, Known
<1>8. OffsetIsLowest'
  <2> SUFFICES ASSUME NEW c \in 0..(candidate' - 1)
               PROVE  Conflicts(current, c) # {}
    BY <1>3 DEF OffsetIsLowest, Conflicts, BlockEnd
  <2>1. CASE c < candidate
    BY <1>3, <1>4, <2>1 DEF LayoutInv, OffsetIsLowest
  <2>2. CASE c >= candidate
    <3>1. offset[b] < candidate + intervals[current].size
      BY <1>2 DEF Conflicts
    <3>2. c < BlockEnd(b) /\ offset[b] < c + intervals[current].size
      BY <1>4, <1>5, <1>6, <2>2, <3>1 DEF IntervalType
    <3> QED
      BY <1>4, <3>2 DEF Conflicts
  <2> QED
    BY <1>4, <1>5, <1>6, <2>1, <2>2
<1> QED
  BY <1>1, <1>7, <1>8 DEF LayoutInv

\* Placing a block where the search stopped keeps the layout invariant: the
\* high-water mark follows the highest block.
LEMMA PlaceIntervalKeepsLayout ==
  ASSUME LayoutInv, PlaceInterval
  PROVE  LayoutInv'
<1> SUFFICES ASSUME NEW c, c = current PROVE LayoutInv'
  OBVIOUS
<1>1. SafetyInv'
  BY PlaceIntervalKeepsSafety DEF LayoutInv
<1>2. /\ stage' = stage /\ stage = "allocate" /\ intervals' = intervals
      /\ candidate' = candidate /\ bytes' = bytes
      /\ current' = NoPort /\ c # NoPort
      /\ highWater' = IF highWater < candidate + intervals[c].size
                      THEN candidate + intervals[c].size ELSE highWater
  BY DEF PlaceInterval, topologyVars
<1>3. c \in Known /\ c \notin DOMAIN offset
  BY <1>2 DEF LayoutInv, SafetyInv, PlannerTypeOK, Partitioned
<1>4. /\ DOMAIN offset' = DOMAIN offset \cup {c}
      /\ offset'[c] = candidate
      /\ \A q \in DOMAIN offset : offset'[q] = offset[q]
  BY <1>3 DEF PlaceInterval
<1>5. /\ BlockEnd(c)' = candidate + intervals[c].size
      /\ \A q \in DOMAIN offset : BlockEnd(q)' = BlockEnd(q)
  BY <1>2, <1>4 DEF BlockEnd
<1>6. /\ candidate \in Nat /\ highWater \in Nat /\ intervals[c].size \in Nat
      /\ \A q \in DOMAIN offset : BlockEnd(q) \in Nat
  BY <1>3 DEF LayoutInv, SafetyInv, PlannerTypeOK, IntervalType, BlockEnd
<1>7. Aligned'
  BY <1>2, <1>3, <1>4 DEF LayoutInv, Aligned, Known
<1>8. (candidate + intervals[c].size) % Align = 0
  BY <1>2, <1>6, AlignedSum DEF LayoutInv, Aligned
<1>9. HighWaterIsHighest'
  <2>1. \A q \in DOMAIN offset' : BlockEnd(q)' <= highWater'
    BY <1>2, <1>4, <1>5, <1>6 DEF LayoutInv, HighWaterIsHighest
  <2>2. highWater' = 0 \/ \E q \in DOMAIN offset' : BlockEnd(q)' = highWater'
    BY <1>2, <1>4, <1>5, <1>6 DEF LayoutInv, HighWaterIsHighest
  <2>3. highWater' % Align = 0
    BY <1>2, <1>8 DEF LayoutInv, HighWaterIsHighest
  <2> QED
    BY <2>1, <2>2, <2>3 DEF HighWaterIsHighest
<1>10. OffsetIsLowest' /\ Published'
  BY <1>2 DEF OffsetIsLowest, Published
<1> QED
  BY <1>1, <1>7, <1>9, <1>10 DEF LayoutInv

\* The remaining steps of the allocator keep the layout invariant: publishing
\* the layout rounds the high-water mark up once.
LEMMA OtherStepsKeepLayout ==
  ASSUME LayoutInv, FinishAllocation \/ UNCHANGED plannerVars
  PROVE  LayoutInv'
<1>1. SafetyInv'
  BY SafetyStep DEF LayoutInv, PlanWorkspace
<1>2. /\ intervals' = intervals /\ pending' = pending /\ current' = current
      /\ live' = live /\ offset' = offset /\ highWater' = highWater
      /\ candidate' = candidate /\ bytes' = bytes
  BY DEF FinishAllocation, plannerVars, allocVars, topologyVars
<1>3. Aligned' /\ HighWaterIsHighest' /\ OffsetIsLowest'
  BY <1>2 DEF LayoutInv, Aligned, HighWaterIsHighest, OffsetIsLowest, Conflicts,
              BlockEnd, Known
<1>4. AlignUp(highWater) = highWater
  BY AlignUpFixesAligned
     DEF LayoutInv, SafetyInv, PlannerTypeOK, HighWaterIsHighest
<1>5. Published'
  BY <1>2, <1>4 DEF FinishAllocation, plannerVars, LayoutInv, Published
<1> QED
  BY <1>1, <1>3, <1>5 DEF LayoutInv

\* The layout invariant holds throughout the planner's run.
LEMMA LayoutInvariant == PlannerSpec => []LayoutInv
<1>1. PlannerInit => LayoutInv
  BY ZeroIsAligned
     DEF PlannerInit, PlannerStart, LayoutInv, SafetyInv, PlannerTypeOK, Unplaced,
         Partitioned, StartsInOrder, EvictedIsOver, NoSharedBytes, Known, Aligned,
         HighWaterIsHighest, OffsetIsLowest, Published
<1>2. LayoutInv /\ [PlanWorkspace]_plannerVars => LayoutInv'
  BY EarlyStepsKeepLayout, NextIntervalKeepsLayout, JumpPastBlockKeepsLayout,
     PlaceIntervalKeepsLayout, OtherStepsKeepLayout DEF PlanWorkspace
<1> QED
  BY <1>1, <1>2, PTL DEF PlannerSpec

\* Every published block is aligned and inside the workspace, which ends with
\* its highest block.
THEOREM WorkspaceIsTight == PlannerSpec => []LayoutIsTight
<1>1. LayoutInv => LayoutIsTight
  <2> SUFFICES ASSUME LayoutInv, stage = "planned" PROVE LayoutIsTight
    BY DEF LayoutIsTight
  <2>1. DOMAIN offset = Known /\ workspace = highWater
    BY DEF LayoutInv, SafetyInv, Partitioned, Published
  <2> QED
    BY <2>1 DEF LayoutIsTight, LayoutInv, Aligned, HighWaterIsHighest
<1> QED
  BY <1>1, LayoutInvariant, PTL

\* The offset search never skips an offset at which the block would fit.
THEOREM SearchIsFirstFit == PlannerSpec => []OffsetIsLowest
<1>1. LayoutInv => OffsetIsLowest
  BY DEF LayoutInv
<1> QED
  BY <1>1, LayoutInvariant, PTL

-----------------------------------------------------------------------------
(* Liveness intervals cover every use.                                     *)

\* While the pass runs, a known port was used by a node it has passed.
KnownWasUsed ==
    /\ stage = "ids" => Known = {}
    /\ stage = "liveness" =>
         \A p \in Known : \E j \in 1..(step - 1) : p \in OutputsOf(j) \cup InputsOf(j)

CoverInv ==
    /\ PlannerTypeOK
    /\ AliasesReadTheirPort
    /\ KnownWasUsed
    /\ EveryUseIsLive

\* One node of liveness analysis keeps every port known so far covered at its
\* uses: the intervals the node extends only grow.
LEMMA AnalyzeLivenessCovers ==
  ASSUME CoverInv, AnalyzeLiveness
  PROVE  CoverInv'
<1> SUFFICES ASSUME NEW s, s = step PROVE CoverInv'
  OBVIOUS
<1>1. PlannerTypeOK'
  BY TypingStep DEF CoverInv, PlanWorkspace
<1>2. /\ nodes' = nodes /\ stage' = stage /\ stage = "liveness"
      /\ step' = s + 1 /\ s <= Len(nodes)
      /\ intervals' = [p \in Known \cup NewPorts(s) |-> IntervalAfter(s, p)]
      /\ Known' = Known \cup NewPorts(s)
  BY DEF AnalyzeLiveness, topologyVars, Known
<1>3. /\ DOMAIN nodes = 1..Len(nodes) /\ Len(nodes) \in Nat
      /\ s \in 1..Len(nodes)
  BY <1>2, LenProperties DEF CoverInv, PlannerTypeOK
<1>4. \A k : InputsOf(k)' = InputsOf(k) /\ OutputsOf(k)' = OutputsOf(k)
  BY <1>2 DEF InputsOf, OutputsOf
<1>5. AliasesReadTheirPort'
  BY <1>2, <1>4 DEF CoverInv, AliasesReadTheirPort
<1>6. KnownWasUsed'
  <2>1. \A p \in Known : \E j \in 1..(s - 1) : p \in OutputsOf(j) \cup InputsOf(j)
    BY <1>2 DEF CoverInv, KnownWasUsed
  <2>2. \A p \in NewPorts(s) : p \in OutputsOf(s) \cup InputsOf(s)
    BY DEF NewPorts
  <2>3. s \in 1..s /\ (s + 1) - 1 = s /\ \A j \in 1..(s - 1) : j \in 1..s
    BY <1>3
  <2>4. \A p \in Known' : \E j \in 1..s : p \in OutputsOf(j) \cup InputsOf(j)
    BY <1>2, <2>1, <2>2, <2>3
  <2> QED
    BY <1>2, <1>4, <2>3, <2>4 DEF KnownWasUsed
<1>7. \A p \in Known : /\ intervals[p].start \in Nat /\ intervals[p].end \in Nat
                       /\ intervals'[p].end \in Nat
                       /\ intervals'[p].start = intervals[p].start
                       /\ intervals'[p].end >= intervals[p].end
                       /\ p \in InputsOf(s) => intervals'[p].end >= s
  <2> SUFFICES ASSUME NEW p \in Known
               PROVE  /\ intervals[p].start \in Nat /\ intervals[p].end \in Nat
                      /\ intervals'[p].end \in Nat
                      /\ intervals'[p].start = intervals[p].start
                      /\ intervals'[p].end >= intervals[p].end
                      /\ p \in InputsOf(s) => intervals'[p].end >= s
    OBVIOUS
  <2>1. intervals[p] \in IntervalType
    BY DEF CoverInv, PlannerTypeOK
  <2>2. intervals'[p] = [intervals[p] EXCEPT !.end =
                           IF p \in InputsOf(s) /\ s > @ THEN s ELSE @]
    BY <1>2 DEF IntervalAfter
  <2> QED
    BY <1>3, <2>1, <2>2 DEF IntervalType
<1>8. ASSUME NEW k \in 1..Len(nodes), k <= s, NEW p \in InputsOf(k) \cup OutputsOf(k)
      PROVE  p \in Known' /\ intervals'[p].start <= k /\ intervals'[p].end >= k
  <2>1. CASE k < s
    <3>1. p \in Known /\ intervals[p].start <= k /\ intervals[p].end >= k
      BY <1>2, <1>3, <2>1 DEF CoverInv, EveryUseIsLive, Passed
    <3>2. k \in Nat
      BY <1>3
    <3> QED
      BY <1>2, <1>7, <3>1, <3>2
  <2>2. CASE k = s /\ p \in Known
    <3>1. PICK j \in 1..(s - 1) : p \in OutputsOf(j) \cup InputsOf(j)
      BY <1>2, <2>2 DEF CoverInv, KnownWasUsed
    <3>2. intervals[p].start <= j
      BY <1>2, <1>3, <3>1 DEF CoverInv, EveryUseIsLive, Passed
    <3>3. p \in InputsOf(s)
      BY <1>3, <1>8, <2>2, <3>1 DEF CoverInv, AliasesReadTheirPort
    <3> QED
      BY <1>2, <1>3, <1>7, <2>2, <3>1, <3>2, <3>3
  <2>3. CASE k = s /\ p \notin Known
    <3>1. p \in NewPorts(s)
      BY <1>8, <2>3 DEF NewPorts
    <3>2. /\ intervals'[p].end = s
          /\ intervals'[p].start = IF p \in OutputsOf(s) THEN s ELSE 1
      BY <1>2, <2>3, <3>1 DEF IntervalAfter
    <3> QED
      BY <1>2, <1>3, <2>3, <3>1, <3>2
  <2> QED
    BY <1>3, <1>8, <2>1, <2>2, <2>3
<1>9. EveryUseIsLive'
  <2>1. \A k \in 1..Len(nodes) : Passed(k)' => k <= s
    BY <1>2, <1>3 DEF Passed
  <2>2. \A k \in 1..Len(nodes) : k <= s =>
          \A p \in InputsOf(k) \cup OutputsOf(k) :
             p \in Known' /\ intervals'[p].start <= k /\ intervals'[p].end >= k
    BY <1>8
  <2> QED
    BY <1>2, <1>3, <1>4, <2>1, <2>2 DEF EveryUseIsLive
<1> QED
  BY <1>1, <1>5, <1>6, <1>9 DEF CoverInv

\* No step but liveness analysis touches an interval's range.
LEMMA OtherStepsCover ==
  ASSUME CoverInv,
         [PlanWorkspace]_plannerVars, ~AnalyzeLiveness
  PROVE  CoverInv'
<1>1. PlannerTypeOK'
  BY TypingStep DEF CoverInv
<1>2. nodes' = nodes
  BY DEF PlanWorkspace, plannerVars, topologyVars, AssignPortIDs, StartLiveness,
         LivenessFails, StartAllocation, NextInterval, JumpPastBlock,
         PlaceInterval, FinishAllocation
<1>3. \A k : InputsOf(k)' = InputsOf(k) /\ OutputsOf(k)' = OutputsOf(k)
  BY <1>2 DEF InputsOf, OutputsOf
<1>4. AliasesReadTheirPort'
  BY <1>2, <1>3 DEF CoverInv, AliasesReadTheirPort
<1>5. /\ Known' = Known
      /\ \A p \in Known : /\ intervals'[p].start = intervals[p].start
                          /\ intervals'[p].end = intervals[p].end
  <2>1. CASE NextInterval
    BY <2>1 DEF NextInterval, CoverInv, PlannerTypeOK, Known, IntervalType
  <2>2. CASE ~NextInterval
    BY <2>2 DEF PlanWorkspace, plannerVars, AssignPortIDs, StartLiveness,
                LivenessFails, StartAllocation, JumpPastBlock, PlaceInterval,
                FinishAllocation, Known
  <2> QED
    BY <2>1, <2>2
<1>6. /\ stage' = "ids" => stage = "ids"
      /\ stage' = "liveness" =>
           (stage = "liveness" /\ step' = step) \/ Known = {}
      /\ \A k \in DOMAIN nodes : Passed(k)' => Passed(k)
  <2>1. DOMAIN nodes = 1..Len(nodes) /\ Len(nodes) \in Nat /\ step \in Nat
    BY LenProperties DEF CoverInv, PlannerTypeOK
  <2>2. CASE StartLiveness
    BY <1>2, <2>1, <2>2 DEF StartLiveness, CoverInv, KnownWasUsed, Passed
  <2>3. CASE StartAllocation
    BY <1>2, <2>1, <2>3 DEF StartAllocation, Passed
  <2>4. CASE FinishAllocation
    BY <2>4 DEF FinishAllocation, Passed
  <2>5. CASE AssignPortIDs \/ LivenessFails
    BY <2>5 DEF AssignPortIDs, LivenessFails, Passed
  <2>6. CASE NextInterval \/ JumpPastBlock \/ PlaceInterval \/ UNCHANGED plannerVars
    <3>1. stage' = stage /\ step' = step
      BY <2>6 DEF NextInterval, JumpPastBlock, PlaceInterval, plannerVars
    <3> QED
      BY <3>1 DEF Passed
  <2> QED
    BY <2>2, <2>3, <2>4, <2>5, <2>6 DEF PlanWorkspace
<1>7. KnownWasUsed'
  BY <1>3, <1>5, <1>6 DEF CoverInv, KnownWasUsed
<1>8. EveryUseIsLive'
  BY <1>2, <1>3, <1>5, <1>6 DEF CoverInv, EveryUseIsLive
<1> QED
  BY <1>1, <1>4, <1>7, <1>8 DEF CoverInv

\* The coverage invariant holds throughout the planner's run.
LEMMA CoverInvariant == PlannerSpec => []CoverInv
<1>1. PlannerInit => CoverInv
  BY DEF PlannerInit, PlannerStart, CoverInv, PlannerTypeOK, KnownWasUsed,
         EveryUseIsLive, Passed, Known
<1>2. CoverInv /\ [PlanWorkspace]_plannerVars => CoverInv'
  BY AnalyzeLivenessCovers, OtherStepsCover
<1> QED
  BY <1>1, <1>2, PTL DEF PlannerSpec

\* Every use of a port lies inside its interval, for every topology in which
\* an alias node reads the port it passes on.
THEOREM IntervalsCoverUses == PlannerSpec => []EveryUseIsLive
<1>1. CoverInv => EveryUseIsLive
  BY DEF CoverInv
<1> QED
  BY <1>1, CoverInvariant, PTL

\* No node's operands overlap in the workspace, whatever the topology: an
\* output never lands on an input of the same kernel.
THEOREM OperandsNeverOverlap == PlannerSpec => []OperandsAreDisjoint
<1>1. LayoutInv /\ CoverInv => OperandsAreDisjoint
  <2> SUFFICES ASSUME LayoutInv, CoverInv, stage = "planned", NEW k \in DOMAIN nodes,
                      NEW p \in InputsOf(k) \cup OutputsOf(k),
                      NEW q \in InputsOf(k) \cup OutputsOf(k), p # q
               PROVE  BlockEnd(p) <= offset[q] \/ BlockEnd(q) <= offset[p]
    BY DEF OperandsAreDisjoint
  <2>1. DOMAIN offset = Known
    BY DEF LayoutInv, SafetyInv, Partitioned, Published
  <2>2. /\ p \in Known /\ intervals[p].start <= k /\ intervals[p].end >= k
        /\ q \in Known /\ intervals[q].start <= k /\ intervals[q].end >= k
    BY DEF CoverInv, EveryUseIsLive, Passed
  <2>3. intervals[p] \in IntervalType /\ intervals[q] \in IntervalType /\ k \in Nat
    BY <2>2, LenProperties DEF CoverInv, PlannerTypeOK
  <2>4. Overlaps(p, q)
    BY <2>2, <2>3 DEF Overlaps, IntervalType
  <2> QED
    BY <2>1, <2>2, <2>4 DEF LayoutInv, SafetyInv, NoSharedBytes
<1>2. PlannerSpec => []CoverInv
  BY CoverInvariant
<1> QED
  BY <1>1, <1>2, LayoutInvariant, PTL

-----------------------------------------------------------------------------
(* THE SESSION                                                             *)

-----------------------------------------------------------------------------
(* NormalizeGraph leaves a list of nodes without repetition.               *)

\* The nodes that are queued or sorted have no edge left to count, so none of
\* them is released again.
SortInv ==
  /\ inDegree \in [NodeIDs -> Int]
  /\ ready \in Seq(NodeIDs) /\ IsInjective(ready)
  /\ sorted \in Seq(NodeIDs) /\ IsInjective(sorted)
  /\ ToSet(ready) \cap ToSet(sorted) = {}
  /\ \A n \in ToSet(ready) \cup ToSet(sorted) : inDegree[n] <= 0

GraphInv ==
  /\ graph \in PlanGraphType
  /\ phase \in {"edges", "sort", "pop", "ordered"} =>
       Blank \notin NodeIDs /\ IsInjective(graph.nodes)
  /\ phase = "pop" => SortInv
  /\ bridge # "normalize" => phase = "ordered"

LEMMA EdgesAreCounted ==
  ASSUME GraphInv, Blank \notin NodeIDs, NEW n \in NodeIDs
  PROVE  /\ Cardinality(EdgeSlots(n)) \in Nat
         /\ EdgeSlots(n) = {} => Cardinality(EdgeSlots(n)) = 0
         /\ \A p : /\ Cardinality(SlotsReading(n, p)) \in Nat
                   /\ SlotsReading(n, p) # {} => Cardinality(SlotsReading(n, p)) # 0
<1>1. NodeIDs \subseteq Names
  <2>1. graph.nodes \in Seq(Names \cup {Blank})
    BY DEF GraphInv, PlanGraphType
  <2>2. \A i \in DOMAIN graph.nodes : graph.nodes[i] \in Names \cup {Blank}
    BY <2>1
  <2> QED
    BY <2>2 DEF NodeIDs, ToSet
<1>2. graph.inputs[n] \in Seq(Names \cup {Blank})
  BY <1>1 DEF GraphInv, PlanGraphType
<1>3. DOMAIN graph.inputs[n] = 1..Len(graph.inputs[n]) /\ Len(graph.inputs[n]) \in Nat
  BY <1>2, LenProperties
<1>4. IsFiniteSet(DOMAIN graph.inputs[n])
  BY <1>3, FS_Interval
<1>5. EdgeSlots(n) \subseteq DOMAIN graph.inputs[n]
  BY DEF EdgeSlots
<1>6. IsFiniteSet(EdgeSlots(n))
  BY <1>4, <1>5, FS_Subset
<1>7. \A p : IsFiniteSet(SlotsReading(n, p))
  BY <1>6, FS_Subset DEF SlotsReading
<1> QED
  BY <1>6, <1>7, FS_CardinalityType, FS_EmptySet

LEMMA StartSortKeeps ==
  ASSUME GraphInv, StartSort
  PROVE  SortInv'
<1> DEFINE roots == {n \in NodeIDs : EdgeSlots(n) = {}}
<1>1. /\ UNCHANGED graph /\ phase = "sort"
      /\ inDegree' = [n \in NodeIDs |-> Cardinality(EdgeSlots(n))]
      /\ ready' = Kept(graph.nodes, roots)
      /\ sorted' = <<>>
  BY DEF StartSort
<1>2. NodeIDs' = NodeIDs /\ Blank \notin NodeIDs /\ IsInjective(graph.nodes)
  BY <1>1 DEF NodeIDs, GraphInv
<1>3. graph.nodes \in Seq(NodeIDs)
  <2>1. graph.nodes \in Seq(Names \cup {Blank})
    BY DEF GraphInv, PlanGraphType
  <2> QED
    BY <2>1 DEF NodeIDs, ToSet
<1>4. /\ ready' \in Seq(NodeIDs) /\ IsInjective(ready')
      /\ ToSet(ready') = NodeIDs \cap roots
  BY <1>1, <1>2, <1>3, KeptSelects DEF NodeIDs
<1>5. sorted' \in Seq(NodeIDs) /\ IsInjective(sorted') /\ ToSet(sorted') = {}
  BY <1>1 DEF IsInjective, ToSet
<1>6. \A n \in NodeIDs : inDegree'[n] \in Int /\ (n \in roots => inDegree'[n] = 0)
  BY <1>1, <1>2, EdgesAreCounted
<1>7. inDegree' \in [NodeIDs -> Int]
  BY <1>1, <1>6
<1> QED
  BY <1>2, <1>4, <1>5, <1>6, <1>7 DEF SortInv

LEMMA PopReadyKeeps ==
  ASSUME GraphInv, PopReady
  PROVE  SortInv'
<1> DEFINE head == Head(ready)
           kept == {m \in NodeIDs : /\ SlotsReading(m, head) # {}
                                    /\ inDegree[m] = Cardinality(SlotsReading(m, head))}
<1>1. /\ UNCHANGED graph /\ phase = "pop" /\ ready # <<>>
      /\ sorted' = Append(sorted, head)
      /\ inDegree' = [m \in NodeIDs |->
                        inDegree[m] - Cardinality(SlotsReading(m, head))]
      /\ ready' = Tail(ready) \o Kept(graph.nodes, kept)
  BY DEF PopReady, Released
<1>2. NodeIDs' = NodeIDs /\ Blank \notin NodeIDs /\ IsInjective(graph.nodes) /\ SortInv
  BY <1>1 DEF NodeIDs, GraphInv
<1>3. graph.nodes \in Seq(NodeIDs)
  <2>1. graph.nodes \in Seq(Names \cup {Blank})
    BY DEF GraphInv, PlanGraphType
  <2> QED
    BY <2>1 DEF NodeIDs, ToSet
<1>4. /\ Kept(graph.nodes, kept) \in Seq(NodeIDs)
      /\ IsInjective(Kept(graph.nodes, kept))
      /\ ToSet(Kept(graph.nodes, kept)) = NodeIDs \cap kept
  BY <1>2, <1>3, KeptSelects DEF NodeIDs
<1>5. /\ head \in ToSet(ready) /\ head \in NodeIDs
      /\ Tail(ready) \in Seq(NodeIDs) /\ IsInjective(Tail(ready))
      /\ ToSet(Tail(ready)) = ToSet(ready) \ {head}
  <2>1. /\ head \in ToSet(ready)
        /\ Tail(ready) \in Seq(NodeIDs) /\ IsInjective(Tail(ready))
        /\ ToSet(Tail(ready)) = ToSet(ready) \ {head}
    BY <1>1, <1>2, TailWithoutHead DEF SortInv
  <2>2. \A i \in DOMAIN ready : ready[i] \in NodeIDs
    BY <1>2 DEF SortInv
  <2>3. head \in NodeIDs
    BY <2>1, <2>2 DEF ToSet
  <2> QED
    BY <2>1, <2>3
<1>6. \A m \in NodeIDs : /\ inDegree[m] \in Int
                         /\ Cardinality(SlotsReading(m, head)) \in Nat
                         /\ SlotsReading(m, head) # {}
                              => Cardinality(SlotsReading(m, head)) # 0
  BY <1>2, EdgesAreCounted DEF SortInv
<1> HIDE DEF head
<1>7. \A m \in kept : inDegree[m] > 0 /\ inDegree[m] - Cardinality(SlotsReading(m, head)) = 0
  BY <1>6
<1>8. kept \cap (ToSet(ready) \cup ToSet(sorted)) = {}
  <2>1. \A m \in ToSet(ready) \cup ToSet(sorted) : inDegree[m] <= 0
    BY <1>2 DEF SortInv
  <2>2. \A m \in kept : m \notin ToSet(ready) \cup ToSet(sorted)
    BY <1>6, <1>7, <2>1
  <2> QED
    BY <2>2
<1> HIDE DEF kept
<1>9. /\ ready' \in Seq(NodeIDs) /\ IsInjective(ready')
      /\ ToSet(ready') = ToSet(Tail(ready)) \cup (NodeIDs \cap kept)
  <2>1. ToSet(Tail(ready)) \cap ToSet(Kept(graph.nodes, kept)) = {}
    BY <1>4, <1>5, <1>8
  <2> QED
    <3>1. PICK s \in Seq(NodeIDs), t \in Seq(NodeIDs) :
                 s = Tail(ready) /\ t = Kept(graph.nodes, kept)
      BY <1>4, <1>5
    <3>2. IsInjective(s) /\ IsInjective(t) /\ ToSet(s) \cap ToSet(t) = {}
      BY <1>4, <1>5, <2>1, <3>1
    <3>3. s \o t \in Seq(NodeIDs) /\ IsInjective(s \o t) /\ ToSet(s \o t) = ToSet(s) \cup ToSet(t)
      BY <3>2, JoinedOnce
    <3> QED
      BY <1>1, <1>4, <3>1, <3>3
<1>10. /\ sorted' \in Seq(NodeIDs) /\ IsInjective(sorted')
       /\ ToSet(sorted') = ToSet(sorted) \cup {head}
  <2>1. head \notin ToSet(sorted) /\ sorted \in Seq(NodeIDs) /\ IsInjective(sorted)
    BY <1>2, <1>5 DEF SortInv
  <2>2. Append(sorted, head) \in Seq(NodeIDs)
    BY <2>1, <1>5
  <2> QED
    BY <1>1, <1>5, <2>1, <2>2, AppendedOnce
<1>11. ToSet(ready') \cap ToSet(sorted') = {}
  BY <1>2, <1>5, <1>8, <1>9, <1>10 DEF SortInv
<1>12. inDegree' \in [NodeIDs -> Int]
  BY <1>1, <1>6
<1>13. \A m \in ToSet(ready') \cup ToSet(sorted') : inDegree'[m] <= 0
  <2>1. ToSet(ready') \cup ToSet(sorted') \subseteq NodeIDs
    <3>1. \A i \in DOMAIN ready' : ready'[i] \in NodeIDs
      BY <1>9
    <3>2. \A i \in DOMAIN sorted' : sorted'[i] \in NodeIDs
      BY <1>10
    <3> QED
      BY <3>1, <3>2 DEF ToSet
  <2> SUFFICES ASSUME NEW m \in ToSet(ready') \cup ToSet(sorted')
               PROVE  inDegree'[m] <= 0
    OBVIOUS
  <2>2. m \in NodeIDs /\ inDegree'[m] = inDegree[m] - Cardinality(SlotsReading(m, head))
    BY <1>1, <2>1
  <2>3. CASE m \in kept
    BY <1>7, <2>2, <2>3 DEF kept
  <2>4. CASE m \notin kept
    <3>1. m \in ToSet(ready) \cup ToSet(sorted)
      BY <1>5, <1>9, <1>10, <2>4
    <3>2. inDegree[m] <= 0
      BY <1>2, <3>1 DEF SortInv
    <3> QED
      BY <1>6, <2>2, <3>2
  <2> QED
    BY <2>3, <2>4
<1> QED
  BY <1>2, <1>9, <1>10, <1>11, <1>12, <1>13 DEF SortInv

LEMMA FinishSortKeeps ==
  ASSUME GraphInv, FinishSort
  PROVE  /\ graph' \in PlanGraphType
         /\ UNCHANGED <<graph.aliases, graph.inputs, graph.boundary>>
         /\ phase' = "ordered" => Blank \notin NodeIDs' /\ IsInjective(graph'.nodes)
<1>1. CASE Len(sorted) = Len(graph.nodes)
  <2>1. graph' = [graph EXCEPT !.nodes = sorted] /\ phase = "pop"
    BY <1>1 DEF FinishSort
  <2>2. graph \in PlanGraphType /\ Blank \notin NodeIDs /\ SortInv
    BY <2>1 DEF GraphInv
  <2>3. sorted \in Seq(NodeIDs) /\ IsInjective(sorted)
    BY <2>2 DEF SortInv
  <2>4. NodeIDs \subseteq Names
    <3>1. graph.nodes \in Seq(Names \cup {Blank})
      BY <2>2 DEF PlanGraphType
    <3>2. \A i \in DOMAIN graph.nodes : graph.nodes[i] \in Names \cup {Blank}
      BY <3>1
    <3> QED
      BY <2>2, <3>2 DEF NodeIDs, ToSet
  <2>5. sorted \in Seq(Names \cup {Blank})
    BY <2>3, <2>4
  <2>6. /\ graph'.nodes = sorted
        /\ graph' \in PlanGraphType
        /\ UNCHANGED <<graph.aliases, graph.inputs, graph.boundary>>
    BY <2>1, <2>2, <2>5 DEF PlanGraphType
  <2>7. \A i \in DOMAIN sorted : sorted[i] \in NodeIDs
    BY <2>3
  <2>8. Blank \notin NodeIDs'
    BY <2>2, <2>6, <2>7 DEF NodeIDs, ToSet
  <2> QED
    BY <2>3, <2>6, <2>8
<1>2. CASE Len(sorted) # Len(graph.nodes)
  BY <1>2 DEF FinishSort, GraphInv
<1> QED
  BY <1>1, <1>2

-----------------------------------------------------------------------------
(* What a step may be.                                                     *)

\* The steps between the loops of PlanGraph: none of them touches a node, a
\* stream or an event.
BridgeMoves ==
  /\ UNCHANGED <<orderVars, nodes, producerPort, schedulerVars, execVars>>
  /\ \/ bridge = "normalize" /\ phase = "ordered" /\ bridge' = "nodes"
     \/ bridge = "nodes" /\ bridge' = "failed"
     \/ bridge = "nodes" /\ bridge' = "workspace"
     \/ bridge = "workspace" /\ bridge' \in {"workspace", "streams", "failed"}

LEMMA PlannerKeepsNodes == PlanWorkspace => UNCHANGED nodes
<1> SUFFICES ASSUME PlanWorkspace PROVE nodes' = nodes
  OBVIOUS
<1>1. CASE AssignPortIDs \/ StartLiveness \/ AnalyzeLiveness
  BY <1>1 DEF AssignPortIDs, StartLiveness, AnalyzeLiveness, topologyVars
<1>2. CASE LivenessFails \/ StartAllocation \/ NextInterval
  BY <1>2 DEF LivenessFails, StartAllocation, NextInterval, topologyVars
<1>3. CASE JumpPastBlock \/ PlaceInterval \/ FinishAllocation
  BY <1>3 DEF JumpPastBlock, PlaceInterval, FinishAllocation, topologyVars
<1> QED
  BY <1>1, <1>2, <1>3 DEF PlanWorkspace

LEMMA StepIsOneOf ==
  ASSUME [Next]_vars
  PROVE  \/ Normalize /\ UNCHANGED <<nodes, producerPort, schedulerVars, bridge, execVars>>
         \/ BridgeNode /\ UNCHANGED <<orderVars, bridge, execVars>>
         \/ Schedule /\ UNCHANGED <<orderVars, nodes, producerPort, bridge, execVars>>
         \/ BridgeMoves
         \/ Execute /\ UNCHANGED <<orderVars, nodes, producerPort, schedulerVars, bridge>>
         \/ UNCHANGED <<orderVars, nodes, producerPort, schedulerVars, bridge, execVars>>
<1>1. CASE Compile /\ Normalize
  BY <1>1 DEF Compile, Normalize, plannerVars, topologyVars, bridgeVars
<1>2. CASE Compile /\ BridgeNode
  BY <1>2 DEF Compile, BridgeNode
<1>3. CASE Compile /\ Schedule
  BY <1>3 DEF Compile, Schedule, ScheduleNode, bridgeVars
<1>4. CASE Compile /\ StartBridge
  BY <1>4 DEF Compile, StartBridge, BridgeMoves, plannerVars, topologyVars
<1>5. CASE Compile /\ BridgeFails
  BY <1>5 DEF Compile, BridgeFails, BridgeMoves, plannerVars, topologyVars
<1>6. CASE Compile /\ StartPlanner
  BY <1>6 DEF Compile, StartPlanner, BridgeMoves, plannerVars, topologyVars
<1>7. CASE Compile /\ Plan
  BY <1>7, PlannerKeepsNodes DEF Compile, Plan, BridgeMoves, bridgeVars
<1>8. CASE Compile /\ AttachGraphIOPorts
  <2>1. /\ UNCHANGED <<orderVars, nodes, producerPort, schedulerVars, execVars>>
        /\ bridge = "workspace"
    BY <1>8 DEF Compile, AttachGraphIOPorts, plannerVars, topologyVars
  <2>2. bridge' \in {"streams", "failed"}
    BY <1>8 DEF AttachGraphIOPorts
  <2> QED
    BY <2>1, <2>2 DEF BridgeMoves
<1>9. CASE Execute
  BY <1>9 DEF Execute, CopyInput, Start, Finish, planVars, plannerVars, topologyVars,
              bridgeVars
<1>10. CASE UNCHANGED vars
  BY <1>10 DEF vars, planVars, plannerVars, topologyVars, bridgeVars
<1>11. Compile => \/ Normalize \/ StartBridge \/ BridgeNode \/ BridgeFails \/ StartPlanner
                  \/ Plan \/ AttachGraphIOPorts \/ Schedule
  BY DEF Compile, PlanGraphNext
<1> QED
  BY <1>1, <1>2, <1>3, <1>4, <1>5, <1>6, <1>7, <1>8, <1>9, <1>10, <1>11 DEF Next

LEMMA GraphStep == GraphInv /\ [Next]_vars => GraphInv'
<1> SUFFICES ASSUME GraphInv, [Next]_vars PROVE GraphInv'
  OBVIOUS
<1>a. ASSUME UNCHANGED orderVars, bridge' # "normalize" => phase = "ordered"
      PROVE  GraphInv'
  BY <1>a DEF GraphInv, SortInv, orderVars, NodeIDs
<1>1. CASE Normalize /\ UNCHANGED <<nodes, producerPort, schedulerVars, bridge, execVars>>
  <2>0. bridge' = "normalize" /\ NormalizeGraph
    BY <1>1 DEF Normalize
  <2>1. CASE IndexGraphNodes \/ ValidateGraphEdges
    BY <2>0, <2>1 DEF GraphInv, IndexGraphNodes, ValidateGraphEdges, NodeIDs
  <2>2. CASE StartSort
    BY <2>0, <2>2, StartSortKeeps DEF GraphInv, StartSort, NodeIDs
  <2>3. CASE PopReady
    BY <2>0, <2>3, PopReadyKeeps DEF GraphInv, PopReady, NodeIDs
  <2>4. CASE FinishSort
    <3>1. phase' \in {"ordered", "cycle"}
      BY <2>4 DEF FinishSort
    <3> QED
      BY <2>0, <2>4, <3>1, FinishSortKeeps DEF GraphInv
  <2> QED
    BY <2>0, <2>1, <2>2, <2>3, <2>4 DEF NormalizeGraph
<1>2. CASE BridgeMoves
  BY <1>2, <1>a DEF BridgeMoves, GraphInv
<1>3. CASE UNCHANGED <<orderVars, bridge>>
  BY <1>3, <1>a DEF GraphInv
<1> QED
  BY <1>1, <1>2, <1>3, StepIsOneOf

-----------------------------------------------------------------------------
(* The bridge: who puts out which port.                                    *)

BridgedNodes == [inputs : Seq(Ports), outputs : {<<p>> : p \in Ports}, alias : BOOLEAN]

\* A node before k that is no alias puts out p.
MadeBefore(p, k) == \E j \in 1..(k - 1) : ~nodes[j].alias /\ nodes[j].outputs = <<p>>

\* A node has a port of its own, which only alias nodes after it that read it
\* list as well; what a node reads is such a port or that of a graph input.
PortsOf(k) ==
  /\ \A p : p \in InputsOf(k) => p \in BoundaryPorts \/ MadeBefore(p, k)
  /\ nodes[k].alias => \E p : p \in InputsOf(k) /\ nodes[k].outputs = <<p>>
  /\ ~nodes[k].alias => nodes[k].outputs = <<OutputPort(graph.nodes[k])>>

PortsInv == \A k \in 1..Len(nodes) : PortsOf(k)

BridgeInv ==
  /\ nodes \in Seq(BridgedNodes)
  /\ Len(nodes) <= Len(graph.nodes)
  /\ bridge = "normalize" => nodes = <<>>
  /\ producerPort \in [{graph.nodes[i] : i \in 1..Len(nodes)} -> Ports]
  /\ \A i \in 1..Len(nodes) : nodes[i].outputs = <<producerPort[graph.nodes[i]]>>
  /\ PortsInv

\* The port a bridged name stands for is that of a graph input, or put out by a
\* node that is no alias.
LEMMA NamesAreMade ==
  ASSUME BridgeInv, NEW name \in DOMAIN producerPort
  PROVE  \/ producerPort[name] \in BoundaryPorts
         \/ MadeBefore(producerPort[name], Len(nodes) + 1)
<1>1. Len(nodes) \in Nat
  BY DEF BridgeInv
<1>2. PICK i \in 1..Len(nodes) : graph.nodes[i] = name
  BY DEF BridgeInv
<1>3. nodes[i].outputs = <<producerPort[name]>>
  BY <1>2 DEF BridgeInv
<1>4. CASE ~nodes[i].alias
  BY <1>1, <1>3, <1>4 DEF MadeBefore
<1>5. CASE nodes[i].alias
  <2>1. PICK p : p \in InputsOf(i) /\ nodes[i].outputs = <<p>>
    BY <1>5 DEF BridgeInv, PortsInv, PortsOf
  <2>2. p = producerPort[name]
    BY <1>3, <2>1
  <2>3. p \in BoundaryPorts \/ MadeBefore(p, i)
    BY <2>1 DEF BridgeInv, PortsInv, PortsOf
  <2> QED
    BY <1>1, <2>2, <2>3 DEF MadeBefore
<1> QED
  BY <1>4, <1>5

LEMMA BoundaryIsNamed == GraphInv => BoundarySet \subseteq Names
<1> SUFFICES ASSUME GraphInv PROVE BoundarySet \subseteq Names
  OBVIOUS
<1>1. graph.boundary \in Seq(Names \cup {Blank})
  BY DEF GraphInv, PlanGraphType
<1>2. \A i \in DOMAIN graph.boundary : graph.boundary[i] \in Names \cup {Blank}
  BY <1>1
<1> QED
  BY <1>2 DEF BoundarySet, ToSet

LEMMA ResolvedPorts ==
  ASSUME GraphInv, BridgeInv, NEW name, Resolvable(name)
  PROVE  /\ ResolvePort(name) \in Ports
         /\ ResolvePort(name) \in BoundaryPorts \/ MadeBefore(ResolvePort(name), Len(nodes) + 1)
<1>1. CASE name \in DOMAIN producerPort
  BY <1>1, NamesAreMade DEF ResolvePort, BridgeInv
<1>2. CASE name \notin DOMAIN producerPort
  <2>1. name \in BoundarySet /\ ResolvePort(name) = BoundaryPort(name)
    BY <1>2 DEF Resolvable, ResolvePort
  <2>2. BoundaryPort(name) \in BoundaryPorts /\ BoundaryPort(name) \in Ports
    BY <2>1, BoundaryIsNamed, PortsAssumption DEF BoundaryPorts
  <2> QED
    BY <2>1, <2>2
<1> QED
  BY <1>1, <1>2

\* What is said of a node depends on no later one.
LEMMA AppendedNode ==
  ASSUME nodes \in Seq(BridgedNodes), NEW x \in BridgedNodes, nodes' = Append(nodes, x)
  PROVE  /\ nodes' \in Seq(BridgedNodes) /\ Len(nodes) \in Nat /\ Len(nodes') = Len(nodes) + 1
         /\ \A i \in 1..Len(nodes) : nodes'[i] = nodes[i]
         /\ nodes'[Len(nodes) + 1] = x
         /\ \A k \in 1..Len(nodes) : InputsOf(k)' = InputsOf(k)
         /\ \A p : \A k \in 1..(Len(nodes) + 1) : MadeBefore(p, k) => MadeBefore(p, k)'
<1>1. /\ nodes' \in Seq(BridgedNodes) /\ Len(nodes) \in Nat
      /\ Len(nodes') = Len(nodes) + 1
      /\ \A i \in 1..Len(nodes) : nodes'[i] = nodes[i]
      /\ nodes'[Len(nodes) + 1] = x
  BY AppendProperties
<1>2. \A k \in 1..Len(nodes) : InputsOf(k)' = InputsOf(k)
  BY <1>1 DEF InputsOf
<1>3. \A p : \A k \in 1..(Len(nodes) + 1) : MadeBefore(p, k) => MadeBefore(p, k)'
  BY <1>1 DEF MadeBefore
<1> QED
  BY <1>1, <1>2, <1>3

LEMMA BridgeNodeKeeps ==
  ASSUME GraphInv, BridgeInv, BridgeNode
  PROVE  BridgeInv'
<1> SUFFICES ASSUME NEW k, k = Len(nodes) + 1, NEW n, n = graph.nodes[k]
             PROVE  BridgeInv'
  OBVIOUS
<1> DEFINE ins == graph.inputs[n]
           x == [inputs  |-> [i \in DOMAIN ins |-> ResolvePort(ins[i])],
                 outputs |-> <<PlannedOutput(n)>>,
                 alias   |-> n \in graph.aliases /\ ins # <<>>]
<1>1. /\ bridge = "nodes" /\ Len(nodes) < Len(graph.nodes)
      /\ \A i \in DOMAIN ins : Resolvable(ins[i])
      /\ nodes' = Append(nodes, x)
      /\ producerPort' = [m \in DOMAIN producerPort \cup {n} |->
                            IF m = n THEN PlannedOutput(n) ELSE producerPort[m]]
      /\ UNCHANGED <<graph, bridge>>
  BY DEF BridgeNode, orderVars
<1>2. /\ nodes \in Seq(BridgedNodes) /\ Len(nodes) \in Nat
      /\ graph.nodes \in Seq(Names \cup {Blank}) /\ Len(graph.nodes) \in Nat
      /\ DOMAIN graph.nodes = 1..Len(graph.nodes)
  BY LenProperties DEF BridgeInv, GraphInv, PlanGraphType
<1>3. /\ k \in 1..Len(graph.nodes)
      /\ Blank \notin NodeIDs /\ IsInjective(graph.nodes)
  <2>1. Len(nodes) < Len(graph.nodes) /\ Len(nodes) \in Nat /\ Len(graph.nodes) \in Nat
    BY <1>1, <1>2
  <2>2. k \in 1..Len(graph.nodes)
    BY <2>1
  <2>b. bridge = "nodes"
    BY <1>1
  <2>3. Blank \notin NodeIDs /\ IsInjective(graph.nodes)
    BY <2>b DEF GraphInv
  <2> QED
    BY <2>2, <2>3
<1>4. n \in Names
  <2>1. n \in NodeIDs
    BY <1>2, <1>3 DEF NodeIDs, ToSet
  <2>2. n \in Names \cup {Blank}
    BY <1>2, <1>3
  <2> QED
    BY <1>3, <2>1, <2>2
<1>5. ins \in Seq(Names \cup {Blank}) /\ DOMAIN ins = 1..Len(ins) /\ Len(ins) \in Nat
  <2>1. ins \in Seq(Names \cup {Blank})
    BY <1>4 DEF GraphInv, PlanGraphType
  <2> QED
    BY <2>1, LenProperties
<1>6. \A i \in DOMAIN ins :
        /\ ResolvePort(ins[i]) \in Ports
        /\ ResolvePort(ins[i]) \in BoundaryPorts \/ MadeBefore(ResolvePort(ins[i]), k)
  BY <1>1, ResolvedPorts
<1>7. /\ PlannedOutput(n) \in Ports
      /\ x.alias => \E i \in DOMAIN ins : PlannedOutput(n) = ResolvePort(ins[i])
      /\ ~x.alias => PlannedOutput(n) = OutputPort(n)
  <2>1. CASE n \in graph.aliases /\ ins # <<>>
    <3>1. 1 \in DOMAIN ins
      BY <1>5, <2>1, EmptySeq
    <3> QED
      BY <1>6, <2>1, <3>1 DEF PlannedOutput
  <2>2. CASE ~(n \in graph.aliases /\ ins # <<>>)
    BY <1>4, <2>2, PortsAssumption DEF PlannedOutput
  <2> QED
    BY <2>1, <2>2
<1>8. x \in BridgedNodes
  <2>1. [i \in DOMAIN ins |-> ResolvePort(ins[i])] \in [1..Len(ins) -> Ports]
    BY <1>5, <1>6
  <2>2. [i \in DOMAIN ins |-> ResolvePort(ins[i])] \in Seq(Ports)
    BY <1>5, <2>1, SeqDef
  <2> QED
    BY <1>7, <2>2 DEF BridgedNodes
<1>9. /\ x.outputs = <<PlannedOutput(n)>>
      /\ \A p : p \in {x.inputs[i] : i \in DOMAIN x.inputs} <=>
           \E i \in DOMAIN ins : p = ResolvePort(ins[i])
  OBVIOUS
<1> HIDE DEF x
<1>10. /\ nodes' \in Seq(BridgedNodes) /\ Len(nodes') = k
       /\ \A i \in 1..Len(nodes) : nodes'[i] = nodes[i]
       /\ nodes'[k] = x
       /\ \A i \in 1..Len(nodes) : InputsOf(i)' = InputsOf(i)
       /\ \A p : \A i \in 1..k : MadeBefore(p, i) => MadeBefore(p, i)'
  BY <1>1, <1>2, <1>8, AppendedNode
<1>11. /\ DOMAIN producerPort = {graph.nodes[i] : i \in 1..Len(nodes)}
       /\ n \notin DOMAIN producerPort
  <2>1. DOMAIN producerPort = {graph.nodes[i] : i \in 1..Len(nodes)}
    BY DEF BridgeInv
  <2>2. \A i \in 1..Len(nodes) : i \in DOMAIN graph.nodes /\ i # k
    BY <1>1, <1>2
  <2>3. \A i \in 1..Len(nodes) : graph.nodes[i] # n
    BY <1>2, <1>3, <2>2 DEF IsInjective
  <2> QED
    BY <2>1, <2>3
<1>12. producerPort' \in [{graph.nodes[i] : i \in 1..k} -> Ports]
  <2>1. {graph.nodes[i] : i \in 1..k} = DOMAIN producerPort \cup {n}
    <3>1. \A i \in 1..k : i \in 1..Len(nodes) \/ i = k
      BY <1>2
    <3> QED
      BY <1>2, <1>11, <3>1
  <2>2. \A m \in DOMAIN producerPort : producerPort[m] \in Ports
    BY DEF BridgeInv
  <2> QED
    BY <1>1, <1>7, <2>1, <2>2
<1>13. \A i \in 1..k : nodes'[i].outputs = <<producerPort'[graph.nodes[i]]>>
  <2> SUFFICES ASSUME NEW i \in 1..k
               PROVE  nodes'[i].outputs = <<producerPort'[graph.nodes[i]]>>
    OBVIOUS
  <2>1. CASE i = k
    BY <1>1, <1>9, <1>10, <2>1
  <2>2. CASE i # k
    <3>1. i \in 1..Len(nodes)
      BY <1>2, <2>2
    <3>2. graph.nodes[i] \in DOMAIN producerPort /\ graph.nodes[i] # n
      BY <1>11, <3>1
    <3>3. producerPort'[graph.nodes[i]] = producerPort[graph.nodes[i]]
      BY <1>1, <3>2
    <3>4. nodes[i].outputs = <<producerPort[graph.nodes[i]]>>
      BY <3>1 DEF BridgeInv
    <3> QED
      BY <1>10, <3>1, <3>3, <3>4
  <2> QED
    BY <2>1, <2>2
<1>14. PortsInv'
  <2>0. BoundaryPorts' = BoundaryPorts
    BY <1>1 DEF BoundaryPorts, BoundarySet
  <2>1. PortsOf(k)'
    <3>0. InputsOf(k)' = {x.inputs[i] : i \in DOMAIN x.inputs}
      BY <1>10 DEF InputsOf
    <3>1. \A p : p \in InputsOf(k)' <=> \E j \in DOMAIN ins : p = ResolvePort(ins[j])
      BY <1>9, <3>0
    <3>2. k \in 1..k
      BY <1>2
    <3>3. \A p : p \in InputsOf(k)' => p \in BoundaryPorts \/ MadeBefore(p, k)'
      BY <1>6, <1>10, <3>1, <3>2
    <3>4. x.alias => PlannedOutput(n) \in InputsOf(k)'
      BY <1>7, <3>1
    <3>5. x.alias => \E p : p \in InputsOf(k)' /\ x.outputs = <<p>>
      BY <1>9, <3>4
    <3>6. ~x.alias => x.outputs = <<OutputPort(n)>>
      BY <1>7, <1>9
    <3> HIDE DEF ins
    <3> QED
      BY <1>1, <1>10, <2>0, <3>3, <3>5, <3>6 DEF PortsOf
  <2>2. ASSUME NEW i \in 1..Len(nodes)
        PROVE  PortsOf(i)'
    <3>1. PortsOf(i) /\ i \in 1..k
      BY <1>2 DEF BridgeInv, PortsInv
    <3>2. nodes'[i] = nodes[i] /\ InputsOf(i)' = InputsOf(i)
      BY <1>10
    <3>3. \A p : MadeBefore(p, i) => MadeBefore(p, i)'
      BY <1>10, <3>1
    <3> QED
      BY <1>1, <2>0, <3>1, <3>2, <3>3 DEF PortsOf
  <2>3. \A i \in 1..Len(nodes') : i \in 1..Len(nodes) \/ i = k
    BY <1>2, <1>10
  <2> QED
    BY <2>1, <2>2, <2>3 DEF PortsInv
<1> QED
  <2>1. Len(nodes') <= Len(graph'.nodes)
    BY <1>1, <1>2, <1>10
  <2>2. bridge' # "normalize"
    BY <1>1
  <2>3. {graph'.nodes[i] : i \in 1..Len(nodes')} = {graph.nodes[i] : i \in 1..k}
    BY <1>1, <1>10
  <2>4. producerPort' \in [{graph'.nodes[i] : i \in 1..Len(nodes')} -> Ports]
    BY <1>12, <2>3
  <2>5. \A i \in 1..Len(nodes') : nodes'[i].outputs = <<producerPort'[graph'.nodes[i]]>>
    BY <1>1, <1>10, <1>13
  <2> QED
    BY <1>10, <1>14, <2>1, <2>2, <2>4, <2>5 DEF BridgeInv

LEMMA BridgeStep == GraphInv /\ BridgeInv /\ [Next]_vars => BridgeInv'
<1> SUFFICES ASSUME GraphInv, BridgeInv, [Next]_vars PROVE BridgeInv'
  OBVIOUS
<1>a. ASSUME UNCHANGED <<orderVars, nodes, producerPort>>, bridge' = "normalize" => nodes = <<>>
      PROVE  BridgeInv'
  <2>1. UNCHANGED <<graph, nodes, producerPort>>
    BY <1>a DEF orderVars
  <2>2. \A p, k : MadeBefore(p, k) <=> MadeBefore(p, k)'
    BY <2>1 DEF MadeBefore
  <2>3. \A k : InputsOf(k)' = InputsOf(k)
    BY <2>1 DEF InputsOf
  <2>4. BoundaryPorts' = BoundaryPorts
    BY <2>1 DEF BoundaryPorts, BoundarySet
  <2>5. PortsInv'
    <3>1. \A k : PortsOf(k) => PortsOf(k)'
      BY <2>1, <2>2, <2>3, <2>4 DEF PortsOf
    <3> QED
      BY <2>1, <3>1 DEF BridgeInv, PortsInv
  <2>6. {graph'.nodes[i] : i \in 1..Len(nodes')} = {graph.nodes[i] : i \in 1..Len(nodes)}
    BY <2>1
  <2> QED
    BY <1>a, <2>1, <2>5, <2>6 DEF BridgeInv
<1>1. CASE Normalize /\ UNCHANGED <<nodes, producerPort, schedulerVars, bridge, execVars>>
  <2>1. /\ nodes = <<>> /\ nodes' = <<>> /\ bridge' = bridge /\ producerPort' = producerPort
    BY <1>1 DEF Normalize, BridgeInv
  <2>2. Len(nodes) = 0 /\ 1..Len(nodes) = {} /\ Len(nodes') = 0
    BY <2>1
  <2>3. Len(nodes') <= Len(graph'.nodes)
    <3>1. GraphInv'
      BY GraphStep
    <3>2. graph'.nodes \in Seq(Names \cup {Blank})
      BY <3>1 DEF GraphInv, PlanGraphType
    <3>3. Len(graph'.nodes) \in Nat
      BY <3>2, LenProperties
    <3> QED
      BY <2>2, <3>3
  <2>4. producerPort' \in [{graph'.nodes[i] : i \in 1..Len(nodes')} -> Ports]
    <3>1. /\ {graph.nodes[i] : i \in 1..Len(nodes)} = {}
          /\ {graph'.nodes[i] : i \in 1..Len(nodes')} = {}
      BY <2>2
    <3> QED
      BY <2>1, <3>1 DEF BridgeInv
  <2> QED
    BY <2>1, <2>2, <2>3, <2>4 DEF BridgeInv, PortsInv
<1>2. CASE BridgeNode /\ UNCHANGED <<orderVars, bridge, execVars>>
  BY <1>2, BridgeNodeKeeps
<1>3. CASE BridgeMoves
  BY <1>3, <1>a DEF BridgeMoves, BridgeInv
<1>4. CASE UNCHANGED <<orderVars, nodes, producerPort, bridge>>
  BY <1>4, <1>a DEF BridgeInv
<1> QED
  BY <1>1, <1>2, <1>3, <1>4, StepIsOneOf

-----------------------------------------------------------------------------
(* The nodes whose values a node needs are among its producers.            *)

LEMMA NodesAreTyped ==
  ASSUME BridgeInv
  PROVE  /\ Len(nodes) \in Nat /\ DOMAIN nodes = 1..Len(nodes)
         /\ \A k \in 1..Len(nodes) : /\ nodes[k].alias \in BOOLEAN
                                     /\ \E p \in Ports : nodes[k].outputs = <<p>>
                                     /\ \A p : p \in OutputsOf(k) <=> nodes[k].outputs = <<p>>
<1>1. nodes \in Seq(BridgedNodes)
  BY DEF BridgeInv
<1>2. Len(nodes) \in Nat /\ DOMAIN nodes = 1..Len(nodes)
  BY <1>1, LenProperties
<1>3. \A k \in 1..Len(nodes) : nodes[k] \in BridgedNodes
  BY <1>1, <1>2
<1>4. \A k \in 1..Len(nodes) : nodes[k].alias \in BOOLEAN
                               /\ \E p \in Ports : nodes[k].outputs = <<p>>
  BY <1>3 DEF BridgedNodes
<1>5. ASSUME NEW k \in 1..Len(nodes), NEW q
      PROVE  q \in OutputsOf(k) <=> nodes[k].outputs = <<q>>
  <2>1. PICK p \in Ports : nodes[k].outputs = <<p>>
    BY <1>4
  <2>2. OutputsOf(k) = {p}
    BY <2>1 DEF OutputsOf
  <2> QED
    BY <2>1, <2>2
<1> QED
  BY <1>2, <1>4, <1>5

\* A node that is no alias puts out no port of a graph input, and no port that
\* another such node puts out.
LEMMA OwnIsNoBoundary ==
  ASSUME BridgeInv, NEW i \in 1..Len(nodes), NEW p, ~nodes[i].alias, nodes[i].outputs = <<p>>
  PROVE  p \notin BoundaryPorts
<1>1. p = OutputPort(graph.nodes[i])
  BY DEF BridgeInv, PortsInv, PortsOf
<1> QED
  BY <1>1 DEF BoundaryPorts, BoundaryPort, OutputPort

LEMMA PortsAreOwn ==
  ASSUME GraphInv, BridgeInv, NEW i \in 1..Len(nodes), NEW j \in 1..Len(nodes), NEW p,
         ~nodes[i].alias, nodes[i].outputs = <<p>>,
         ~nodes[j].alias, nodes[j].outputs = <<p>>
  PROVE  i = j
<1>1. Len(nodes) \in Nat
  BY NodesAreTyped
<1>2. nodes # <<>>
  BY <1>1
<1>3. IsInjective(graph.nodes)
  BY <1>2 DEF GraphInv, BridgeInv
<1>4. OutputPort(graph.nodes[i]) = p /\ OutputPort(graph.nodes[j]) = p
  BY DEF BridgeInv, PortsInv, PortsOf
<1>5. graph.nodes[i] = graph.nodes[j]
  BY <1>4 DEF OutputPort
<1>6. i \in DOMAIN graph.nodes /\ j \in DOMAIN graph.nodes
  <2>1. graph.nodes \in Seq(Names \cup {Blank})
    BY DEF GraphInv, PlanGraphType
  <2>2. DOMAIN graph.nodes = 1..Len(graph.nodes) /\ Len(graph.nodes) \in Nat
    BY <2>1, LenProperties
  <2>3. Len(nodes) <= Len(graph.nodes)
    BY DEF BridgeInv
  <2> QED
    BY <1>1, <2>2, <2>3
<1> QED
  BY <1>3, <1>5, <1>6 DEF IsInjective

\* The node that owns a port is the first to list it as output.
LEMMA OwnerIsFirst ==
  ASSUME GraphInv, BridgeInv, NEW j \in 1..Len(nodes), NEW p,
         ~nodes[j].alias, nodes[j].outputs = <<p>>,
         NEW i \in 1..Len(nodes), p \in OutputsOf(i)
  PROVE  j <= i /\ (i = j \/ nodes[i].alias)
<1>1. Len(nodes) \in Nat /\ nodes[i].outputs = <<p>>
  BY NodesAreTyped
<1>2. CASE ~nodes[i].alias
  BY <1>1, <1>2, PortsAreOwn
<1>3. CASE nodes[i].alias
  <2>1. PICK q \in InputsOf(i) : nodes[i].outputs = <<q>>
    BY <1>3 DEF BridgeInv, PortsInv, PortsOf
  <2>2. q = p /\ p \notin BoundaryPorts
    BY <1>1, <2>1, OwnIsNoBoundary
  <2>6. MadeBefore(p, i)
    BY <2>1, <2>2 DEF BridgeInv, PortsInv, PortsOf
  <2>3. PICK m \in 1..(i - 1) : ~nodes[m].alias /\ nodes[m].outputs = <<p>>
    BY <2>6 DEF MadeBefore
  <2>4. m \in 1..Len(nodes)
    BY <1>1, <2>3
  <2>5. m = j
    BY <2>3, <2>4, PortsAreOwn
  <2> QED
    BY <1>1, <1>3, <2>3, <2>5
<1> QED
  BY <1>2, <1>3

LEMMA DataIsProduced ==
  ASSUME GraphInv, BridgeInv, NEW k \in 1..Len(nodes)
  PROVE  DataProducers(k) \subseteq Producers(k) \cap 1..(k - 1)
<1>1. /\ Len(nodes) \in Nat /\ DOMAIN nodes = 1..Len(nodes)
      /\ \A i \in 1..Len(nodes) : \A p : p \in OutputsOf(i) <=> nodes[i].outputs = <<p>>
  BY NodesAreTyped
<1>2. \A j : j \in DataProducers(k) <=>
               /\ j \in 1..Len(nodes) /\ ~nodes[j].alias
               /\ \E p : p \in InputsOf(k) /\ nodes[j].outputs = <<p>>
  BY <1>1 DEF DataProducers, Written
<1>4. DataProducers(k) \subseteq 1..(k - 1)
  <2> SUFFICES ASSUME NEW j \in DataProducers(k) PROVE j \in 1..(k - 1)
    OBVIOUS
  <2>1. PICK p : p \in InputsOf(k) /\ nodes[j].outputs = <<p>>
    BY <1>2
  <2>2. j \in 1..Len(nodes) /\ ~nodes[j].alias
    BY <1>2
  <2>3. MadeBefore(p, k)
    BY <2>1, <2>2, OwnIsNoBoundary DEF BridgeInv, PortsInv, PortsOf
  <2>4. PICK m \in 1..(k - 1) : ~nodes[m].alias /\ nodes[m].outputs = <<p>>
    BY <2>3 DEF MadeBefore
  <2>5. m \in 1..Len(nodes)
    BY <1>1, <2>4
  <2>6. m = j
    BY <2>1, <2>2, <2>4, <2>5, PortsAreOwn
  <2> QED
    BY <2>4, <2>6
<1>6. DataProducers(k) \subseteq Producers(k)
  <2> SUFFICES ASSUME NEW j \in DataProducers(k) PROVE j \in Producers(k)
    OBVIOUS
  <2>1. PICK p : p \in InputsOf(k) /\ nodes[j].outputs = <<p>>
    BY <1>2
  <2>2. j \in 1..Len(nodes) /\ ~nodes[j].alias /\ p \in OutputsOf(j)
    BY <1>1, <1>2, <2>1
  <2>3. ASSUME NEW i \in 1..(j - 1), p \in OutputsOf(i)
        PROVE  FALSE
    <3>1. i \in 1..Len(nodes)
      BY <1>1, <2>2
    <3>2. j <= i
      BY <2>1, <2>2, <2>3, <3>1, OwnerIsFirst
    <3> QED
      BY <2>2, <3>1, <3>2
  <2> QED
    BY <1>1, <2>1, <2>2, <2>3 DEF Producers
<1> QED
  BY <1>4, <1>6

-----------------------------------------------------------------------------
(* Streams and events.                                                     *)

\* Node k gives the signal for <<k, t>> itself, or an earlier node gives it that
\* is on stream t and no older than any node on t whose value k needs.
Covers(j, k, t) ==
  \/ j = k
  \/ \A m \in DataProducers(k) : streamOf[m] = t => m <= j /\ j < k /\ streamOf[j] = t

\* Every node whose value a scheduled node needs is on its stream, or on one it
\* waits for; the waits of a node that does not read ahead have earlier signals;
\* and a signal covers the nodes it stands for.
EventsInv ==
  /\ \A k \in 1..scheduled : \A j \in DataProducers(k) :
       streamOf[j] = streamOf[k] \/ <<k, streamOf[j]>> \in waits[k]
  /\ \A k \in 1..scheduled : ReadsAhead(k) \/ SignalledEarlier(k)
  /\ \A j \in 1..Len(nodes) : \A e \in signals[j] : \E k \in 1..scheduled : \E t :
       e = <<k, t>> /\ Covers(j, k, t)

SchedulerInv ==
  /\ bridge \in {"normalize", "nodes", "workspace"} =>
       /\ scheduled = 0
       /\ streamOf = [i \in 1..Len(nodes) |-> 0]
       /\ waits = [i \in 1..Len(nodes) |-> {}]
       /\ signals = [i \in 1..Len(nodes) |-> {}]
  /\ bridge = "streams" =>
       /\ scheduled \in 0..Len(nodes)
       /\ DOMAIN streamOf = 1..Len(nodes)
       /\ DOMAIN waits = 1..Len(nodes)
       /\ DOMAIN signals = 1..Len(nodes)
       /\ \A k \in 1..Len(nodes) : k > scheduled => waits[k] = {}
       /\ EventsInv

LEMMA AppendedConstant ==
  ASSUME NEW n \in Nat, NEW v
  PROVE  Append([i \in 1..n |-> v], v) = [i \in 1..(n + 1) |-> v]
<1> DEFINE f == [i \in 1..n |-> v]
           g == [i \in 1..(n + 1) |-> v]
<1>1. f \in Seq({v}) /\ g \in Seq({v}) /\ Len(f) = n /\ Len(g) = n + 1
  BY SeqDef, LenProperties
<1>2. /\ Append(f, v) \in Seq({v}) /\ Len(Append(f, v)) = n + 1
      /\ \A i \in 1..n : Append(f, v)[i] = f[i]
      /\ Append(f, v)[n + 1] = v
  BY <1>1, AppendProperties
<1>3. \A i \in 1..(n + 1) : i \in 1..n \/ i = n + 1
  OBVIOUS
<1>4. \A i \in 1..(n + 1) : Append(f, v)[i] = g[i]
  BY <1>2, <1>3
<1> HIDE DEF f, g
<1>5. Append(f, v) = g
  BY <1>1, <1>2, <1>4, SeqEqual
<1> QED
  BY <1>5 DEF f, g

LEMMA NewestExists ==
  ASSUME NEW n \in Nat, NEW K \in SUBSET (0..n), K # {}
  PROVE  \E j \in K : \A i \in K : i <= j
<1> DEFINE T == {n - j : j \in K}
<1>1. T \in SUBSET Nat /\ T # {}
  <2>1. \A j \in K : j \in 0..n
    OBVIOUS
  <2>2. \A j \in K : n - j \in Nat
    BY <2>1
  <2>3. PICK j : j \in K
    OBVIOUS
  <2>4. n - j \in T
    BY <2>3
  <2> QED
    BY <2>2, <2>4
<1>2. PICK x \in T : \A y \in T : ~(<<y, x>> \in OpToRel(<, Nat))
  BY <1>1, NatLessThanWellFounded, WFMin
<1>3. \A y \in T : ~(y < x)
  BY <1>1, <1>2 DEF OpToRel
<1>4. PICK j \in K : x = n - j
  OBVIOUS
<1>5. \A i \in K : ~(n - i < n - j)
  BY <1>3, <1>4
<1> QED
  BY <1>5

LEMMA DependenciesKeep ==
  ASSUME UNCHANGED nodes
  PROVE  \A k : /\ DataProducers(k)' = DataProducers(k)
                /\ Producers(k)' = Producers(k)
                /\ ReadsAhead(k)' = ReadsAhead(k)
<1>1. \A k : InputsOf(k)' = InputsOf(k) /\ OutputsOf(k)' = OutputsOf(k)
  BY DEF InputsOf, OutputsOf
<1>2. \A k : Written(k)' = Written(k)
  BY <1>1 DEF Written
<1>3. \A k : Producers(k)' = Producers(k)
  BY <1>1 DEF Producers
<1> QED
  BY <1>1, <1>2, <1>3 DEF DataProducers, ReadsAhead

LEMMA ScheduleKeeps ==
  ASSUME GraphInv, BridgeInv, SchedulerInv, bridge = "streams", ScheduleNode,
         UNCHANGED <<nodes, bridge>>
  PROVE  SchedulerInv'
<1> SUFFICES ASSUME NEW k, k = scheduled + 1,
                    NEW preds, preds = PredecessorStreams(k),
                    NEW s, s = PickStream(preds),
                    NEW foreign, foreign = [t \in DOMAIN preds \ {s} |-> preds[t]]
             PROVE  SchedulerInv'
  OBVIOUS
<1>1. /\ scheduled < Len(nodes)
      /\ streamOf' = [streamOf EXCEPT ![k] = s]
      /\ waits' = WaitsAfter(k, foreign)
      /\ signals' = SignalsAfter(k, foreign)
      /\ scheduled' = k
  BY DEF ScheduleNode
<1>2. /\ Len(nodes) \in Nat /\ scheduled \in 0..Len(nodes)
      /\ DOMAIN streamOf = 1..Len(nodes)
      /\ DOMAIN waits = 1..Len(nodes)
      /\ DOMAIN signals = 1..Len(nodes)
      /\ \A i \in 1..Len(nodes) : i > scheduled => waits[i] = {}
      /\ EventsInv
  BY NodesAreTyped DEF SchedulerInv
<1>3. k \in 1..Len(nodes) /\ k \in Nat /\ k - 1 = scheduled
  BY <1>1, <1>2
<1>4. /\ DataProducers(k) \subseteq Producers(k) \cap 1..(k - 1)
      /\ Producers(k) \subseteq 1..Len(nodes)
  <2>1. Producers(k) \subseteq DOMAIN nodes
    BY DEF Producers
  <2> QED
    BY <1>3, <2>1, DataIsProduced, NodesAreTyped
<1>5. \A i : DataProducers(i)' = DataProducers(i) /\ ReadsAhead(i)' = ReadsAhead(i)
  BY DependenciesKeep
<1>6. \A m \in DataProducers(k) : streamOf[m] \in DOMAIN preds
  BY <1>4 DEF PredecessorStreams
<1>20. ASSUME NEW t \in DOMAIN preds
       PROVE  /\ preds[t] \in ProducerIDs(k, t)
              /\ \A n \in ProducerIDs(k, t) : n <= preds[t]
  <2>1. PICK j \in Producers(k) : streamOf[j] = t
    BY <1>20 DEF PredecessorStreams
  <2>2. IDAt(k, j) \in ProducerIDs(k, t)
    BY <2>1 DEF ProducerIDs
  <2>3. \A n \in ProducerIDs(k, t) : n \in 0..k
    BY <1>3, <1>4 DEF ProducerIDs, IDAt
  <2>4. \E n \in ProducerIDs(k, t) : \A m \in ProducerIDs(k, t) : m <= n
    BY <1>3, <2>2, <2>3, NewestExists
  <2>5. preds[t] = CHOOSE n \in ProducerIDs(k, t) : \A m \in ProducerIDs(k, t) : m <= n
    BY <1>20 DEF PredecessorStreams
  <2> QED
    BY <2>4, <2>5
<1>21. ASSUME NEW t \in DOMAIN preds
       PROVE  /\ \/ ReadsAhead(k)
                 \/ /\ NodeWithID(k, preds[t]) \in 1..(k - 1)
                    /\ streamOf[NodeWithID(k, preds[t])] = t
              /\ Covers(NodeWithID(k, preds[t]), k, t)
  <2>1. PICK i \in Producers(k) : streamOf[i] = t /\ preds[t] = IDAt(k, i)
    BY <1>20 DEF ProducerIDs
  <2>2. i \in 1..Len(nodes) /\ i \in Nat
    BY <1>2, <1>4
  <2>3. i <= k => NodeWithID(k, preds[t]) = i /\ preds[t] = i
    BY <2>1, <2>2 DEF IDAt, NodeWithID
  <2>4. ReadsAhead(k) \/ i \in 1..(k - 1)
    BY DEF ReadsAhead
  <2>5. ASSUME NEW m \in DataProducers(k), streamOf[m] = t
        PROVE  i <= k /\ m <= i
    <3>1. m \in Producers(k) /\ m \in 1..(k - 1)
      BY <1>4
    <3>2. IDAt(k, m) = m
      BY <1>3, <3>1 DEF IDAt
    <3>3. m \in ProducerIDs(k, t)
      BY <2>5, <3>1, <3>2 DEF ProducerIDs
    <3>4. m <= preds[t]
      BY <1>20, <3>3
    <3>5. i <= k
      BY <1>3, <2>1, <2>2, <3>1, <3>4 DEF IDAt
    <3> QED
      BY <2>3, <3>4, <3>5
  <2>6. Covers(NodeWithID(k, preds[t]), k, t)
    <3>1. CASE NodeWithID(k, preds[t]) = k
      BY <3>1 DEF Covers
    <3>2. ASSUME NodeWithID(k, preds[t]) # k,
                 NEW m \in DataProducers(k), streamOf[m] = t
          PROVE  /\ m <= NodeWithID(k, preds[t]) /\ NodeWithID(k, preds[t]) < k
                 /\ streamOf[NodeWithID(k, preds[t])] = t
      BY <1>3, <2>1, <2>2, <2>3, <2>5, <3>2
    <3> QED
      BY <3>1, <3>2 DEF Covers
  <2> QED
    BY <1>3, <2>1, <2>3, <2>4, <2>6
<1>7. /\ DOMAIN foreign = DOMAIN preds \ {s}
      /\ \A t \in DOMAIN foreign : foreign[t] = preds[t]
  OBVIOUS
<1>8. /\ DOMAIN streamOf' = 1..Len(nodes)
      /\ streamOf'[k] = s
      /\ \A j \in 1..Len(nodes) : j # k => streamOf'[j] = streamOf[j]
  BY <1>1, <1>2, <1>3
<1>9. /\ DOMAIN waits' = 1..Len(nodes)
      /\ waits'[k] = {<<k, t>> : t \in DOMAIN foreign}
      /\ \A j \in 1..Len(nodes) : j # k => waits'[j] = waits[j]
  <2>1. waits[k] = {}
    BY <1>2, <1>3
  <2> QED
    BY <1>1, <1>2, <1>3, <2>1 DEF WaitsAfter
<1>10. /\ DOMAIN signals' = 1..Len(nodes)
       /\ \A j \in 1..Len(nodes) : \A e :
            e \in signals'[j] <=> \/ e \in signals[j]
                                  \/ \E t \in DOMAIN foreign :
                                        NodeWithID(k, foreign[t]) = j /\ e = <<k, t>>
  BY <1>1, <1>2 DEF SignalsAfter
<1>11. \A i \in 1..scheduled' : i \in 1..scheduled \/ i = k
  BY <1>1, <1>2, <1>3
<1>12. \A i \in 1..scheduled : i \in 1..Len(nodes) /\ i # k
  BY <1>2, <1>3
<1>13. \A i \in 1..scheduled : \A j \in DataProducers(i) : j \in 1..scheduled
  <2> SUFFICES ASSUME NEW i \in 1..scheduled, NEW j \in DataProducers(i)
               PROVE  j \in 1..scheduled
    OBVIOUS
  <2>1. j \in 1..(i - 1)
    BY <1>12, DataIsProduced
  <2> QED
    BY <1>2, <2>1
<1>14. ASSUME NEW i \in 1..scheduled', NEW j \in DataProducers(i)
       PROVE  streamOf'[j] = streamOf'[i] \/ <<i, streamOf'[j]>> \in waits'[i]
  <2>1. CASE i \in 1..scheduled
    <3>1. streamOf[j] = streamOf[i] \/ <<i, streamOf[j]>> \in waits[i]
      BY <1>2, <2>1 DEF EventsInv
    <3> QED
      BY <1>8, <1>9, <1>12, <1>13, <2>1, <3>1
  <2>2. CASE i = k
    <3>0. j \in 1..scheduled
      BY <1>3, <1>4, <2>2
    <3>1. streamOf'[j] = streamOf[j] /\ streamOf[j] \in DOMAIN preds
      BY <1>6, <1>8, <1>12, <2>2, <3>0
    <3>2. streamOf[j] = s \/ streamOf[j] \in DOMAIN foreign
      BY <1>7, <3>1
    <3> QED
      BY <1>8, <1>9, <2>2, <3>1, <3>2
  <2> QED
    BY <1>11, <2>1, <2>2
<1>15. ASSUME NEW i \in 1..scheduled', ~ReadsAhead(i), NEW e \in waits'[i]
       PROVE  \E j \in 1..(i - 1) : e \in signals'[j] /\ streamOf'[j] = e[2]
  <2>1. CASE i \in 1..scheduled
    <3>1. e \in waits[i]
      BY <1>9, <1>12, <2>1
    <3>2. PICK j \in 1..(i - 1) : e \in signals[j] /\ streamOf[j] = e[2]
      BY <1>2, <1>15, <2>1, <3>1 DEF EventsInv, SignalledEarlier
    <3>3. j \in 1..scheduled
      BY <1>2, <2>1, <3>2
    <3> QED
      BY <1>8, <1>10, <1>12, <3>2, <3>3
  <2>2. CASE i = k
    <3>1. PICK t \in DOMAIN foreign : e = <<k, t>>
      BY <1>9, <2>2
    <3> DEFINE j == NodeWithID(k, foreign[t])
    <3>2. j \in 1..(k - 1) /\ streamOf[j] = t
      BY <1>7, <1>15, <1>21, <2>2, <3>1
    <3>3. j \in 1..Len(nodes) /\ j # k
      BY <1>2, <1>3, <3>2
    <3>4. e \in signals'[j] /\ streamOf'[j] = t /\ e[2] = t
      BY <1>8, <1>10, <3>1, <3>2, <3>3
    <3> QED
      BY <2>2, <3>2, <3>4
  <2> QED
    BY <1>11, <2>1, <2>2
<1>22. \A i \in 1..scheduled' : ReadsAhead(i)' \/ SignalledEarlier(i)'
  BY <1>5, <1>15 DEF SignalledEarlier
<1>23. ASSUME NEW i \in 1..k, NEW j \in 1..Len(nodes), NEW t, Covers(j, i, t)
       PROVE  Covers(j, i, t)'
  <2>1. \A m \in DataProducers(i) : m \in 1..scheduled
    <3>1. i \in 1..Len(nodes)
      BY <1>2, <1>3
    <3>2. DataProducers(i) \subseteq 1..(i - 1)
      BY <3>1, DataIsProduced
    <3> QED
      BY <1>2, <1>3, <3>2
  <2>2. \A m \in DataProducers(i) : streamOf'[m] = streamOf[m]
    BY <1>8, <1>12, <2>1
  <2>3. j < i => streamOf'[j] = streamOf[j]
    BY <1>3, <1>8
  <2> QED
    BY <1>5, <1>23, <2>2, <2>3 DEF Covers
<1>16. ASSUME NEW j \in 1..Len(nodes), NEW e \in signals'[j]
       PROVE  \E i \in 1..scheduled' : \E t : e = <<i, t>> /\ Covers(j, i, t)'
  <2>1. CASE e \in signals[j]
    <3>1. PICK i \in 1..scheduled : \E t : e = <<i, t>> /\ Covers(j, i, t)
      BY <1>2, <2>1 DEF EventsInv
    <3>2. i \in 1..scheduled' /\ i \in 1..k
      BY <1>1, <1>2, <1>3
    <3> QED
      BY <1>23, <3>1, <3>2
  <2>2. CASE e \notin signals[j]
    <3>1. PICK t \in DOMAIN foreign : NodeWithID(k, foreign[t]) = j /\ e = <<k, t>>
      BY <1>10, <2>2
    <3>2. Covers(j, k, t)
      BY <1>7, <1>21, <3>1
    <3>3. k \in 1..scheduled' /\ k \in 1..k
      BY <1>1, <1>3
    <3> QED
      BY <1>23, <3>1, <3>2, <3>3
  <2> QED
    BY <2>1, <2>2
<1>17. EventsInv'
  BY <1>5, <1>14, <1>16, <1>22 DEF EventsInv
<1>18. ASSUME NEW i \in 1..Len(nodes), i > scheduled'
       PROVE  waits'[i] = {}
  <2>1. i # k /\ i > scheduled
    BY <1>1, <1>2, <1>3, <1>18
  <2> QED
    BY <1>2, <1>9, <2>1
<1>19. /\ nodes' = nodes /\ bridge' = "streams" /\ scheduled' \in 0..Len(nodes)
  BY <1>1, <1>2, <1>3
<1> QED
  BY <1>8, <1>9, <1>10, <1>17, <1>18, <1>19 DEF SchedulerInv

LEMMA AppendedLength ==
  ASSUME NEW S, NEW q \in Seq(S), NEW x
  PROVE  Len(Append(q, x)) = Len(q) + 1
<1>1. q \in Seq(S \cup {x})
  OBVIOUS
<1> QED
  BY <1>1, AppendProperties

\* A step that changes no node keeps the events of the nodes it leaves alone.
LEMMA EventsKept ==
  ASSUME EventsInv, UNCHANGED <<nodes, scheduled, streamOf, waits, signals>>
  PROVE  EventsInv'
<1>1. \A k : DataProducers(k)' = DataProducers(k) /\ ReadsAhead(k)' = ReadsAhead(k)
  BY DependenciesKeep
<1>2. /\ nodes' = nodes /\ scheduled' = scheduled /\ streamOf' = streamOf
      /\ waits' = waits /\ signals' = signals
  OBVIOUS
<1>3. (\A k \in 1..scheduled : \A j \in DataProducers(k) :
         streamOf[j] = streamOf[k] \/ <<k, streamOf[j]>> \in waits[k])'
  BY <1>1, <1>2 DEF EventsInv
<1>4. \A k : SignalledEarlier(k)' <=> SignalledEarlier(k)
  BY <1>2 DEF SignalledEarlier
<1>5. \A j, k, t : Covers(j, k, t)' <=> Covers(j, k, t)
  BY <1>1, <1>2 DEF Covers
<1>6. (\A j \in 1..Len(nodes) : \A e \in signals[j] : \E k \in 1..scheduled : \E t :
         e = <<k, t>> /\ Covers(j, k, t))'
  BY <1>2, <1>5 DEF EventsInv
<1>7. (\A k \in 1..scheduled : ReadsAhead(k) \/ SignalledEarlier(k))'
  BY <1>1, <1>2, <1>4 DEF EventsInv
<1> QED
  BY <1>3, <1>6, <1>7 DEF EventsInv

LEMMA SchedulerKept ==
  ASSUME SchedulerInv, UNCHANGED <<nodes, schedulerVars, bridge>>
  PROVE  SchedulerInv'
<1>1. UNCHANGED <<scheduled, streamOf, waits, signals>>
  BY DEF schedulerVars
<1>2. bridge = "streams" => EventsInv'
  BY <1>1, EventsKept DEF SchedulerInv
<1> QED
  BY <1>1, <1>2 DEF SchedulerInv

\* The scheduler starts with no event at all.
LEMMA SchedulerStarts ==
  ASSUME BridgeInv, SchedulerInv, bridge \in {"normalize", "nodes", "workspace"},
         UNCHANGED <<nodes, schedulerVars>>
  PROVE  SchedulerInv'
<1>1. /\ scheduled' = 0
      /\ Len(nodes') = Len(nodes)
      /\ streamOf' = [i \in 1..Len(nodes) |-> 0]
      /\ waits' = [i \in 1..Len(nodes) |-> {}]
      /\ signals' = [i \in 1..Len(nodes) |-> {}]
  BY DEF SchedulerInv, schedulerVars
<1>2. Len(nodes) \in Nat /\ 1..0 = {}
  BY NodesAreTyped
<1>3. EventsInv'
  BY <1>1, <1>2 DEF EventsInv
<1> QED
  BY <1>1, <1>2, <1>3 DEF SchedulerInv

LEMMA SchedulerStep == GraphInv /\ BridgeInv /\ SchedulerInv /\ [Next]_vars => SchedulerInv'
<1> SUFFICES ASSUME GraphInv, BridgeInv, SchedulerInv, [Next]_vars PROVE SchedulerInv'
  OBVIOUS
<1>1. CASE Normalize /\ UNCHANGED <<nodes, producerPort, schedulerVars, bridge, execVars>>
  BY <1>1, SchedulerKept
<1>2. CASE BridgeNode /\ UNCHANGED <<orderVars, bridge, execVars>>
  <2>1. /\ bridge = "nodes" /\ bridge' = "nodes" /\ scheduled' = scheduled
        /\ streamOf' = Append(streamOf, 0)
        /\ waits' = Append(waits, {})
        /\ signals' = Append(signals, {})
        /\ \E r : nodes' = Append(nodes, r)
    BY <1>2 DEF BridgeNode
  <2>2. Len(nodes) \in Nat /\ Len(nodes') = Len(nodes) + 1
    BY <2>1, AppendedLength, NodesAreTyped DEF BridgeInv
  <2>3. /\ scheduled = 0
        /\ streamOf = [i \in 1..Len(nodes) |-> 0]
        /\ waits = [i \in 1..Len(nodes) |-> {}]
        /\ signals = [i \in 1..Len(nodes) |-> {}]
    BY <2>1 DEF SchedulerInv
  <2>4. /\ streamOf' = [i \in 1..Len(nodes') |-> 0]
        /\ waits' = [i \in 1..Len(nodes') |-> {}]
        /\ signals' = [i \in 1..Len(nodes') |-> {}]
    BY <2>1, <2>2, <2>3, AppendedConstant
  <2> QED
    BY <2>1, <2>3, <2>4 DEF SchedulerInv
<1>3. CASE Schedule /\ UNCHANGED <<orderVars, nodes, producerPort, bridge, execVars>>
  BY <1>3, ScheduleKeeps DEF Schedule
<1>4. CASE BridgeMoves
  <2>1. UNCHANGED <<nodes, schedulerVars>> /\ bridge \in {"normalize", "nodes", "workspace"}
    BY <1>4 DEF BridgeMoves
  <2> QED
    BY <2>1, SchedulerStarts
<1>5. CASE UNCHANGED <<orderVars, nodes, producerPort, schedulerVars, bridge>>
  BY <1>5, SchedulerKept
<1> QED
  BY <1>1, <1>2, <1>3, <1>4, <1>5, StepIsOneOf

-----------------------------------------------------------------------------
(* Running the plan.                                                       *)

\* Nothing runs before the plan is there; what has started had all nodes before
\* it on its stream finished, and all nodes whose values it takes.
ExecInv ==
  /\ ~Planned => running = {} /\ finished = {}
  /\ running \cup finished \subseteq 1..Len(nodes)
  /\ \A k \in running \cup finished :
       /\ \A j \in 1..(k - 1) : streamOf[j] = streamOf[k] => j \in finished
       /\ DataProducers(k) \subseteq finished

Inv == GraphInv /\ BridgeInv /\ SchedulerInv /\ ExecInv

LEMMA PlanIsFinal ==
  ASSUME BridgeInv, ExecInv, [Next]_vars
  PROVE  \/ ~Planned /\ UNCHANGED <<running, finished>>
         \/ UNCHANGED <<nodes, schedulerVars, bridge, running, finished>>
         \/ /\ Planned /\ UNCHANGED <<nodes, schedulerVars, bridge>>
            /\ (\E k : Start(k)) \/ (\E k : Finish(k))
<1>0. Len(nodes) \in Nat
  BY NodesAreTyped
<1>1. CASE Normalize /\ UNCHANGED <<nodes, producerPort, schedulerVars, bridge, execVars>>
  BY <1>1 DEF Normalize, Planned, execVars
<1>2. CASE BridgeNode /\ UNCHANGED <<orderVars, bridge, execVars>>
  BY <1>2 DEF BridgeNode, Planned, execVars
<1>3. CASE Schedule /\ UNCHANGED <<orderVars, nodes, producerPort, bridge, execVars>>
  <2>1. scheduled < Len(nodes) /\ UNCHANGED <<running, finished>>
    BY <1>3 DEF Schedule, ScheduleNode, execVars
  <2> QED
    BY <1>0, <2>1 DEF Planned
<1>4. CASE BridgeMoves
  BY <1>4 DEF BridgeMoves, Planned, execVars
<1>5. CASE Execute /\ UNCHANGED <<orderVars, nodes, producerPort, schedulerVars, bridge>>
  <2>1. CASE \E b \in Names : CopyInput(b)
    BY <1>5, <2>1 DEF CopyInput
  <2>2. CASE \E k \in Steps : Start(k)
    BY <1>5, <2>2 DEF Start
  <2>3. ASSUME NEW k \in Steps, Finish(k), ~Planned
        PROVE  FALSE
    BY <2>3 DEF Finish, ExecInv
  <2> QED
    BY <1>5, <2>1, <2>2, <2>3 DEF Execute
<1>6. CASE UNCHANGED <<orderVars, nodes, producerPort, schedulerVars, bridge, execVars>>
  BY <1>6 DEF execVars
<1> QED
  BY <1>1, <1>2, <1>3, <1>4, <1>5, <1>6, StepIsOneOf

\* The guards of Start are enough: a producer on the node's own stream has
\* finished, and one on another stream is no younger than the node there that
\* has given the event the started node waits for, for that node is finished
\* and so not the started node itself.
LEMMA ProducersHaveFinished ==
  ASSUME Inv, NEW k, Start(k)
  PROVE  DataProducers(k) \subseteq finished
<1>1. /\ Planned /\ scheduled = Len(nodes) /\ bridge = "streams"
      /\ k \in 1..Len(nodes)
      /\ \A j \in 1..(k - 1) : streamOf[j] = streamOf[k] => j \in finished
      /\ \A e \in waits[k] : \E i \in finished : e \in signals[i]
  BY NodesAreTyped DEF Inv, Start, Signalled, Planned
<1>2. EventsInv
  BY <1>1 DEF Inv, SchedulerInv
<1>3. DataProducers(k) \subseteq 1..(k - 1) /\ k \notin finished
  BY <1>1, DataIsProduced DEF Inv, Start
<1> SUFFICES ASSUME NEW j \in DataProducers(k), streamOf[j] # streamOf[k]
             PROVE  j \in finished
  BY <1>1, <1>3
<1>4. <<k, streamOf[j]>> \in waits[k]
  BY <1>1, <1>2 DEF EventsInv
<1>5. PICK i \in finished : <<k, streamOf[j]>> \in signals[i]
  BY <1>1, <1>4
<1>6. i \in 1..Len(nodes)
  BY DEF Inv, ExecInv
<1>7. Covers(i, k, streamOf[j])
  <2>1. PICK m \in 1..scheduled : \E t : <<k, streamOf[j]>> = <<m, t>> /\ Covers(i, m, t)
    BY <1>2, <1>5, <1>6 DEF EventsInv
  <2> QED
    BY <2>1
<1>8. streamOf[i] = streamOf[j] /\ j <= i
  BY <1>3, <1>5, <1>7 DEF Covers
<1>9. j = i \/ j \in 1..(i - 1)
  BY <1>1, <1>3, <1>6, <1>8
<1> QED
  BY <1>5, <1>8, <1>9 DEF Inv, ExecInv

LEMMA ExecStep == Inv /\ [Next]_vars => ExecInv'
<1> SUFFICES ASSUME Inv, [Next]_vars PROVE ExecInv'
  OBVIOUS
<1>1. CASE ~Planned /\ UNCHANGED <<running, finished>>
  <2>1. running' = {} /\ finished' = {}
    BY <1>1 DEF Inv, ExecInv
  <2> QED
    BY <2>1 DEF ExecInv
<1>a. ASSUME UNCHANGED <<nodes, schedulerVars, bridge>>
      PROVE  /\ Planned' = Planned /\ nodes' = nodes /\ streamOf' = streamOf
             /\ \A k : DataProducers(k)' = DataProducers(k)
  BY <1>a, DependenciesKeep DEF Planned, schedulerVars
<1>2. CASE UNCHANGED <<nodes, schedulerVars, bridge, running, finished>>
  BY <1>2, <1>a DEF Inv, ExecInv
<1>3. ASSUME NEW k, Start(k), Planned, UNCHANGED <<nodes, schedulerVars, bridge>>
      PROVE  ExecInv'
  <2>1. DataProducers(k) \subseteq finished
    BY <1>3, ProducersHaveFinished
  <2>2. /\ k \in 1..Len(nodes)
        /\ \A j \in 1..(k - 1) : streamOf[j] = streamOf[k] => j \in finished
        /\ running' = running \cup {k} /\ finished' = finished
    BY <1>3, NodesAreTyped DEF Start, Inv
  <2> QED
    BY <1>3, <1>a, <2>1, <2>2 DEF Inv, ExecInv
<1>4. ASSUME NEW k, Finish(k), Planned, UNCHANGED <<nodes, schedulerVars, bridge>>
      PROVE  ExecInv'
  <2>1. /\ k \in running
        /\ running' = running \ {k} /\ finished' = finished \cup {k}
    BY <1>4 DEF Finish
  <2>2. running' \cup finished' = running \cup finished
    BY <2>1
  <2> QED
    BY <1>4, <1>a, <2>1, <2>2 DEF Inv, ExecInv
<1> QED
  BY <1>1, <1>2, <1>3, <1>4, PlanIsFinal DEF Inv

LEMMA InvStarts == Init => Inv
<1> SUFFICES ASSUME Init PROVE Inv
  OBVIOUS
<1>1. /\ nodes = <<>> /\ bridge = "normalize" /\ scheduled = 0
      /\ streamOf = <<>> /\ waits = <<>> /\ signals = <<>>
      /\ producerPort = [n \in {} |-> 0] /\ running = {} /\ finished = {}
      /\ OrderInit
  BY DEF Init, PlanGraphInit
<1>2. GraphInv
  BY <1>1, PlanGraphsAssumption DEF OrderInit, GraphInv
<1>3. Len(nodes) = 0 /\ 1..0 = {} /\ nodes \in Seq(BridgedNodes)
  BY <1>1
<1>4. graph.nodes \in Seq(Names \cup {Blank})
  BY <1>2 DEF GraphInv, PlanGraphType
<1>5. Len(graph.nodes) \in Nat
  BY <1>4, LenProperties
<1>6. BridgeInv
  BY <1>1, <1>3, <1>5 DEF BridgeInv, PortsInv
<1>7. SchedulerInv
  BY <1>1, <1>3 DEF SchedulerInv
<1>8. ExecInv
  BY <1>1 DEF ExecInv
<1> QED
  BY <1>2, <1>6, <1>7, <1>8 DEF Inv

THEOREM PlanAlwaysHolds == Spec => []Inv
<1>1. Inv /\ [Next]_vars => Inv'
  BY GraphStep, BridgeStep, SchedulerStep, ExecStep DEF Inv
<1> QED
  BY <1>1, InvStarts, PTL DEF Spec

\* Streams and events order data: a node runs only after every node whose value
\* it reads has finished, whatever the graph and the number of streams.
THEOREM ReadersWaitForProducers == Spec => []ProducersFinishFirst
<1>1. Inv => ProducersFinishFirst
  BY DEF Inv, ExecInv, ProducersFinishFirst
<1> QED
  BY <1>1, PlanAlwaysHolds, PTL

\* ScheduleStreams leaves no wait without a signal from an earlier node of the
\* stream the wait names, except on nodes that read ahead: the first view of a
\* graph input, and the nodes that read that input before it.
THEOREM SignalsAreEarlier == Spec => []SignalsComeFromEarlierNodes
<1>1. Inv => SignalsComeFromEarlierNodes
  <2> SUFFICES ASSUME Inv, Planned PROVE SignalsComeFromEarlierNodes
    BY DEF SignalsComeFromEarlierNodes
  <2>1. scheduled = Len(nodes) /\ EventsInv
    BY DEF Inv, SchedulerInv, Planned
  <2>2. DOMAIN nodes = 1..Len(nodes)
    BY NodesAreTyped DEF Inv
  <2> QED
    BY <2>1, <2>2 DEF EventsInv, SignalsComeFromEarlierNodes
<1> QED
  BY <1>1, PlanAlwaysHolds, PTL

ProducersComeBefore == \A k : k \in DOMAIN nodes => DataProducers(k) \subseteq 1..(k - 1)

LEMMA StepsAreOrdered == Inv => ProducersComeBefore
BY NodesAreTyped, DataIsProduced DEF Inv, ProducersComeBefore

LEMMA DataflowStep == Inv /\ Inv' /\ [Next]_vars => [Flow!Next]_<<PublishedDeps, finished>>
<1> SUFFICES ASSUME Inv, Inv', [Next]_vars
             PROVE  [Flow!Next]_<<PublishedDeps, finished>>
  OBVIOUS
<1>1. CASE ~Planned /\ UNCHANGED <<running, finished>>
  <2>1. PublishedDeps = <<>> /\ finished' = finished
    BY <1>1 DEF PublishedDeps
  <2>2. CASE PublishedDeps' = <<>>
    BY <2>1, <2>2
  <2>3. CASE PublishedDeps' # <<>>
    <3>1. PublishedDeps' = [k \in DOMAIN nodes' |-> DataProducers(k)']
      BY <2>3 DEF PublishedDeps
    <3>2. ProducersComeBefore'
      BY StepsAreOrdered, PTL
    <3>3. \A k \in DOMAIN PublishedDeps' : PublishedDeps'[k] \subseteq 1..(k - 1)
      BY <3>1, <3>2 DEF ProducersComeBefore
    <3> QED
      BY <2>1, <2>3, <3>3 DEF Flow!Next, Flow!Publish
  <2> QED
    BY <2>2, <2>3
<1>a. ASSUME UNCHANGED <<nodes, schedulerVars, bridge>>
      PROVE  PublishedDeps' = PublishedDeps
  <2>1. Planned' = Planned /\ \A k : DataProducers(k)' = DataProducers(k)
    BY <1>a, DependenciesKeep DEF Planned, schedulerVars
  <2> QED
    BY <1>a, <2>1 DEF PublishedDeps
<1>2. CASE UNCHANGED <<nodes, schedulerVars, bridge, running, finished>>
  BY <1>2, <1>a
<1>3. ASSUME NEW k, Start(k), UNCHANGED <<nodes, schedulerVars, bridge>>
      PROVE  UNCHANGED <<PublishedDeps, finished>>
  BY <1>3, <1>a DEF Start
<1>4. ASSUME NEW k, Finish(k), Planned, UNCHANGED <<nodes, schedulerVars, bridge>>
      PROVE  [Flow!Next]_<<PublishedDeps, finished>>
  <2>1. /\ PublishedDeps' = PublishedDeps
        /\ PublishedDeps = [i \in DOMAIN nodes |-> DataProducers(i)]
        /\ k \in running /\ finished' = finished \cup {k}
    BY <1>4, <1>a DEF PublishedDeps, Finish
  <2>2. k \in DOMAIN nodes /\ DataProducers(k) \subseteq finished
    BY <2>1, NodesAreTyped DEF Inv, ExecInv
  <2>3. CASE k \in finished
    BY <2>1, <2>3
  <2>4. CASE k \notin finished
    <3>1. k \in DOMAIN PublishedDeps \ finished /\ PublishedDeps[k] \subseteq finished
      BY <2>1, <2>2, <2>4
    <3>2. Flow!Complete
      BY <2>1, <3>1 DEF Flow!Complete
    <3> QED
      BY <3>2 DEF Flow!Next
  <2> QED
    BY <2>3, <2>4
<1> QED
  BY <1>1, <1>2, <1>3, <1>4, PlanIsFinal DEF Inv

\* Every step of a session is one that Dataflow allows: the plan is published
\* once, and nodes complete in an order their dependencies allow.
THEOREM StepsAreDataflow ==
  Spec => Flow!Init /\ [][Flow!Next]_<<PublishedDeps, finished>>
<1>1. Init => Flow!Init
  BY DEF Init, PlanGraphInit, Flow!Init, PublishedDeps, Planned
<1> QED
  BY <1>1, DataflowStep, PlanAlwaysHolds, PTL DEF Spec

-----------------------------------------------------------------------------
(* On a single stream, the shared offsets are invisible.                   *)

\* Every byte offset of the workspace is an int32, as PlanGraph publishes it.
OffsetsFitInt32 == 2 * workspace < Int32Range

\* The interval of a known port ends at a step.
EndsAreSteps == \A p \in Known : intervals[p].end >= 1

\* The planner starts on the bridged topology, and its layout is final once
\* the offsets are published.
PlannerInv ==
  /\ bridge \in {"normalize", "nodes"} =>
       PlannerStart /\ bytes \in [Ports -> Nat \cup {Unsized}]
  /\ bridge \in {"workspace", "streams"} => LayoutInv /\ CoverInv /\ EndsAreSteps
  /\ bridge = "streams" =>
       /\ stage = "planned" /\ InputsPlanned
       /\ inputPorts = [b \in BoundarySet |-> Int32(offset[BoundaryPort(b)])]

LEMMA BridgeReadsItsAliases ==
  ASSUME GraphInv, BridgeInv
  PROVE  nodes \in Seq(NodeType) /\ AliasesReadTheirPort
<1>1. BridgedNodes \subseteq NodeType
  <2>1. \A p \in Ports : <<p>> \in Seq(Ports)
    OBVIOUS
  <2>2. {<<p>> : p \in Ports} \subseteq Seq(Ports)
    BY <2>1
  <2> QED
    BY <2>2 DEF BridgedNodes, NodeType
<1>2. nodes \in Seq(NodeType)
  BY <1>1 DEF BridgeInv
<1>3. Len(nodes) \in Nat /\ DOMAIN nodes = 1..Len(nodes)
  BY NodesAreTyped
<1> SUFFICES ASSUME NEW k \in 1..Len(nodes), NEW p \in OutputsOf(k) \ InputsOf(k),
                    NEW j \in 1..(k - 1), p \in OutputsOf(j) \cup InputsOf(j)
             PROVE  FALSE
  BY <1>2, <1>3 DEF AliasesReadTheirPort
<1>4. nodes[k].outputs = <<p>> /\ j \in 1..Len(nodes) /\ j < k
  BY <1>3, NodesAreTyped
<1>5. ~nodes[k].alias
  BY <1>4 DEF BridgeInv, PortsInv, PortsOf
<1>6. CASE p \in OutputsOf(j)
  <2>1. k <= j
    BY <1>4, <1>5, <1>6, OwnerIsFirst
  <2> QED
    BY <1>3, <1>4, <2>1
<1>7. CASE p \in InputsOf(j)
  <2>1. p \notin BoundaryPorts
    BY <1>4, <1>5, OwnIsNoBoundary
  <2>a. MadeBefore(p, j)
    BY <1>4, <1>7, <2>1 DEF BridgeInv, PortsInv, PortsOf
  <2>2. PICK i \in 1..(j - 1) : ~nodes[i].alias /\ nodes[i].outputs = <<p>>
    BY <2>a DEF MadeBefore
  <2>3. i \in 1..Len(nodes)
    BY <1>3, <2>2
  <2>4. i = k
    BY <1>4, <1>5, <2>2, <2>3, PortsAreOwn
  <2> QED
    BY <1>3, <1>4, <2>2, <2>4
<1> QED
  BY <1>6, <1>7

\* The planner starts with its invariants.
LEMMA PlannerStarts ==
  ASSUME GraphInv, BridgeInv, PlannerStart, bytes \in [Ports -> Nat \cup {Unsized}]
  PROVE  LayoutInv /\ CoverInv /\ EndsAreSteps
<1>1. nodes \in Seq(NodeType) /\ AliasesReadTheirPort
  BY BridgeReadsItsAliases
<1>2. LayoutInv
  BY <1>1, ZeroIsAligned
     DEF PlannerStart, LayoutInv, SafetyInv, PlannerTypeOK, Unplaced,
         Partitioned, StartsInOrder, EvictedIsOver, NoSharedBytes, Known, Aligned,
         HighWaterIsHighest, OffsetIsLowest, Published
<1>3. CoverInv
  BY <1>1 DEF PlannerStart, CoverInv, PlannerTypeOK, KnownWasUsed,
              EveryUseIsLive, Passed, Known
<1>4. EndsAreSteps
  BY DEF PlannerStart, EndsAreSteps, Known
<1> QED
  BY <1>2, <1>3, <1>4

LEMMA PlanningKeepsEnds ==
  ASSUME GraphInv, BridgeInv, LayoutInv, CoverInv, EndsAreSteps,
         [PlanWorkspace]_plannerVars, UNCHANGED graph
  PROVE  EndsAreSteps'
<1>2. CASE AnalyzeLiveness
  <2> SUFFICES ASSUME NEW s, s = step, NEW p \in Known'
               PROVE  intervals'[p].end >= 1
    BY DEF EndsAreSteps
  <2>1. /\ s \in Nat \ {0}
        /\ intervals' = [q \in Known \cup NewPorts(s) |-> IntervalAfter(s, q)]
    BY <1>2 DEF AnalyzeLiveness, CoverInv, PlannerTypeOK
  <2>2. p \in Known \cup NewPorts(s) /\ intervals'[p] = IntervalAfter(s, p)
    BY <2>1 DEF Known
  <2>4. CASE p \in Known
    <3>1. intervals[p] \in IntervalType
      BY <2>4 DEF CoverInv, PlannerTypeOK
    <3>2. intervals[p].end >= 1
      BY <2>4 DEF EndsAreSteps
    <3>3. intervals'[p] = [intervals[p] EXCEPT !.end =
                             IF p \in InputsOf(s) /\ s > @ THEN s ELSE @]
      BY <2>2, <2>4 DEF IntervalAfter
    <3> QED
      BY <2>1, <3>1, <3>2, <3>3 DEF IntervalType
  <2>5. CASE p \notin Known
    <3>1. intervals'[p].end = s
      BY <2>2, <2>5 DEF IntervalAfter
    <3> QED
      BY <2>1, <3>1
  <2> QED
    BY <2>4, <2>5
<1>3. CASE ~AnalyzeLiveness
  <2>1. Known' = Known /\ \A p \in Known : intervals'[p].end = intervals[p].end
    <3>1. CASE NextInterval
      BY <3>1 DEF NextInterval, CoverInv, PlannerTypeOK, Known, IntervalType
    <3>2. CASE ~NextInterval
      BY <1>3, <3>2 DEF PlanWorkspace, plannerVars, AssignPortIDs, StartLiveness,
                        LivenessFails, StartAllocation, JumpPastBlock, PlaceInterval,
                        FinishAllocation, Known
    <3> QED
      BY <3>1, <3>2
  <2> QED
    BY <2>1 DEF EndsAreSteps
<1> QED
  BY <1>2, <1>3

\* Every step of the planner keeps its invariants, in a session as on its own.
LEMMA PlanningKeeps ==
  ASSUME GraphInv, BridgeInv, LayoutInv, CoverInv, EndsAreSteps,
         [PlanWorkspace]_plannerVars, UNCHANGED graph
  PROVE  LayoutInv' /\ CoverInv' /\ EndsAreSteps'
<1>1. LayoutInv'
  BY EarlyStepsKeepLayout, NextIntervalKeepsLayout, JumpPastBlockKeepsLayout,
     PlaceIntervalKeepsLayout, OtherStepsKeepLayout DEF PlanWorkspace
<1>2. CoverInv'
  BY AnalyzeLivenessCovers, OtherStepsCover
<1> QED
  BY <1>1, <1>2, PlanningKeepsEnds

\* The sizes are of ports the bridge has allocated.
LEMMA BridgedBytes ==
  ASSUME GraphInv, BridgeInv, BridgeNode, bytes \in [Ports -> Nat \cup {Unsized}]
  PROVE  bytes' \in [Ports -> Nat \cup {Unsized}]
<1> SUFFICES ASSUME NEW n, n = graph.nodes[Len(nodes) + 1],
                    NEW ins, ins = graph.inputs[n]
             PROVE  bytes' \in [Ports -> Nat \cup {Unsized}]
  OBVIOUS
<1>1. /\ Len(nodes) < Len(graph.nodes)
      /\ bytes' = [q \in Ports |->
                     IF q = OutputPort(n) THEN graph.outputBytes[n]
                     ELSE IF \E i \in DOMAIN ins : FirstTyped(ins[i], q)
                     THEN graph.boundaryBytes[q[2]]
                     ELSE bytes[q]]
      /\ bridge = "nodes"
      /\ \A i \in DOMAIN ins : Resolvable(ins[i])
  BY DEF BridgeNode
<1>2. /\ graph.nodes \in Seq(Names \cup {Blank})
      /\ graph.outputBytes \in [Names -> Nat \cup {Unsized}]
      /\ graph.boundaryBytes \in [Names -> Nat \cup {Unsized}]
  BY DEF GraphInv, PlanGraphType
<1>3. n \in Names
  <2>1. Len(nodes) + 1 \in DOMAIN graph.nodes
    BY <1>1, <1>2, NodesAreTyped, LenProperties
  <2>2. n \in Names \cup {Blank} /\ n \in NodeIDs
    BY <1>2, <2>1 DEF NodeIDs, ToSet
  <2> QED
    BY <1>1, <2>2 DEF GraphInv
<1>4. ASSUME NEW p \in Ports, NEW i \in DOMAIN ins, FirstTyped(ins[i], p)
      PROVE  graph.boundaryBytes[p[2]] \in Nat \cup {Unsized}
  <2>1. ins[i] \in BoundarySet /\ p = BoundaryPort(ins[i])
    BY <1>1, <1>4 DEF FirstTyped, Resolvable
  <2>2. p[2] \in Names
    BY <2>1, BoundaryIsNamed DEF BoundaryPort
  <2> QED
    BY <1>2, <2>2
<1>5. graph.outputBytes[n] \in Nat \cup {Unsized}
  BY <1>2, <1>3
<1> QED
  BY <1>1, <1>4, <1>5

LEMMA PlannerKept ==
  ASSUME GraphInv, BridgeInv, PlannerInv, UNCHANGED <<plannerVars, inputPorts>>,
         UNCHANGED <<graph, bridge>>
  PROVE  PlannerInv'
<1>1. /\ PlannerStart => PlannerStart'
      /\ UNCHANGED <<bytes, stage, offset>>
  BY DEF plannerVars, topologyVars, allocVars, PlannerStart
<1>2. bridge \in {"workspace", "streams"} => LayoutInv' /\ CoverInv' /\ EndsAreSteps'
  BY PlanningKeeps DEF PlannerInv
<1>3. BoundarySet' = BoundarySet /\ (InputsPlanned => InputsPlanned')
  BY <1>1 DEF BoundarySet, InputsPlanned
<1>4. bridge = "streams" => /\ stage' = "planned" /\ InputsPlanned'
                            /\ inputPorts' = [b \in BoundarySet' |-> Int32(offset'[BoundaryPort(b)])]
  BY <1>1, <1>3 DEF PlannerInv
<1>5. bridge \in {"normalize", "nodes"} =>
        PlannerStart' /\ bytes' \in [Ports -> Nat \cup {Unsized}]
  BY <1>1 DEF PlannerInv
<1> QED
  BY <1>2, <1>4, <1>5 DEF PlannerInv

LEMMA PlannerStep == GraphInv /\ BridgeInv /\ PlannerInv /\ [Next]_vars => PlannerInv'
<1> SUFFICES ASSUME GraphInv, BridgeInv, PlannerInv, [Next]_vars PROVE PlannerInv'
  OBVIOUS
<1>1. CASE Normalize
  <2>1. /\ bridge' = "normalize" /\ bridge = "normalize" /\ UNCHANGED plannerVars
    BY <1>1 DEF Normalize, bridgeVars
  <2>2. PlannerStart' /\ bytes' = bytes
    BY <2>1 DEF PlannerInv, PlannerStart, plannerVars, topologyVars, allocVars
  <2> QED
    BY <2>1, <2>2 DEF PlannerInv
<1>2. CASE StartBridge
  <2>1. /\ bridge' = "nodes" /\ bridge = "normalize" /\ UNCHANGED plannerVars
    BY <1>2 DEF StartBridge
  <2>2. PlannerStart' /\ bytes' = bytes
    BY <2>1 DEF PlannerInv, PlannerStart, plannerVars, topologyVars, allocVars
  <2> QED
    BY <2>1, <2>2 DEF PlannerInv
<1>3. CASE BridgeNode
  <2>1. /\ bridge' = "nodes" /\ bridge = "nodes"
        /\ UNCHANGED <<stage, step, portID, nextID, intervals, allocVars, workspace>>
    BY <1>3 DEF BridgeNode
  <2>2. PlannerStart'
    BY <2>1 DEF PlannerInv, PlannerStart, allocVars
  <2>3. bytes' \in [Ports -> Nat \cup {Unsized}]
    BY <1>3, <2>1, BridgedBytes DEF PlannerInv
  <2> QED
    BY <2>1, <2>2, <2>3 DEF PlannerInv
<1>4. CASE BridgeFails
  BY <1>4 DEF BridgeFails, PlannerInv
<1>5. CASE StartPlanner
  <2>1. /\ bridge' = "workspace" /\ bridge = "nodes"
        /\ UNCHANGED <<plannerVars, orderVars>>
    BY <1>5 DEF StartPlanner
  <2>2. LayoutInv /\ CoverInv /\ EndsAreSteps
    BY <2>1, PlannerStarts DEF PlannerInv
  <2>3. LayoutInv' /\ CoverInv' /\ EndsAreSteps'
    BY <2>1, <2>2, PlanningKeeps DEF orderVars
  <2> QED
    BY <2>1, <2>3 DEF PlannerInv
<1>6. CASE Plan
  <2>1. /\ bridge' = "workspace" /\ bridge = "workspace" /\ PlanWorkspace
        /\ UNCHANGED graph
    BY <1>6 DEF Plan, bridgeVars, orderVars
  <2>2. LayoutInv' /\ CoverInv' /\ EndsAreSteps'
    BY <2>1, PlanningKeeps DEF PlannerInv
  <2> QED
    BY <2>1, <2>2 DEF PlannerInv
<1>7. CASE AttachGraphIOPorts
  <2>1. /\ bridge = "workspace" /\ stage = "planned"
        /\ UNCHANGED <<plannerVars, graph>>
    BY <1>7 DEF AttachGraphIOPorts, orderVars
  <2>2. LayoutInv' /\ CoverInv' /\ EndsAreSteps'
    BY <2>1, PlanningKeeps DEF PlannerInv
  <2>3. CASE InputsPlanned /\ OutputsPlanned
    <3>1. /\ inputPorts' = [b \in BoundarySet |-> Int32(offset[BoundaryPort(b)])]
          /\ bridge' = "streams"
      BY <1>7, <2>3 DEF AttachGraphIOPorts
    <3>2. UNCHANGED <<stage, offset>>
      BY <2>1 DEF plannerVars, allocVars
    <3>3. BoundarySet' = BoundarySet /\ InputsPlanned'
      BY <2>1, <2>3, <3>2 DEF BoundarySet, InputsPlanned
    <3> QED
      BY <2>1, <2>2, <3>1, <3>2, <3>3 DEF PlannerInv
  <2>4. CASE ~(InputsPlanned /\ OutputsPlanned)
    BY <1>7, <2>4 DEF AttachGraphIOPorts, PlannerInv
  <2> QED
    BY <2>3, <2>4
<1>8. CASE Schedule
  <2>1. UNCHANGED <<plannerVars, inputPorts, graph, bridge>>
    BY <1>8 DEF Schedule, ScheduleNode, plannerVars, topologyVars, bridgeVars, orderVars
  <2> QED
    BY <2>1, PlannerKept
<1>9. CASE Execute \/ UNCHANGED vars
  <2>1. UNCHANGED <<plannerVars, inputPorts, graph, bridge>>
    BY <1>9 DEF Execute, CopyInput, Start, Finish, vars, planVars, bridgeVars, orderVars
  <2> QED
    BY <2>1, PlannerKept
<1> QED
  BY <1>1, <1>2, <1>3, <1>4, <1>5, <1>6, <1>7, <1>8, <1>9
     DEF Next, Compile, PlanGraphNext

-----------------------------------------------------------------------------
(* One stream.                                                             *)

\* With one stream, no node is on another.
SerialInv ==
  maxStreams = 1 => /\ nextStream \in {0, 1}
                    /\ \A k \in 1..Len(nodes) : streamOf[k] = 0

\* The host has copied every input before the first node starts.
HostInv ==
  /\ running \cap finished = {}
  /\ copied \subseteq BoundarySet
  /\ running \cup finished # {} => copied = BoundarySet
  /\ ~Planned => copied = {}

LEMMA SerialStep == BridgeInv /\ SchedulerInv /\ SerialInv /\ [Next]_vars => SerialInv'
<1> SUFFICES ASSUME BridgeInv, SchedulerInv, SerialInv, [Next]_vars, maxStreams' = 1
             PROVE  SerialInv'
  BY DEF SerialInv
<1>0. Len(nodes) \in Nat
  BY NodesAreTyped
<1>1. CASE BridgeNode /\ UNCHANGED <<orderVars, bridge, execVars>>
  <2>1. /\ bridge = "nodes" /\ maxStreams' = maxStreams /\ nextStream' = nextStream
        /\ streamOf' = Append(streamOf, 0)
        /\ \E r : nodes' = Append(nodes, r)
    BY <1>1 DEF BridgeNode
  <2>2. Len(nodes') = Len(nodes) + 1
    BY <2>1, AppendedLength DEF BridgeInv
  <2>3. streamOf = [i \in 1..Len(nodes) |-> 0]
    BY <2>1 DEF SchedulerInv
  <2>4. streamOf' = [i \in 1..Len(nodes') |-> 0]
    BY <1>0, <2>1, <2>2, <2>3, AppendedConstant
  <2> QED
    BY <2>1, <2>4 DEF SerialInv
<1>2. CASE Schedule /\ UNCHANGED <<orderVars, nodes, producerPort, bridge, execVars>>
  <2> SUFFICES ASSUME NEW k, k = scheduled + 1,
                      NEW preds, preds = PredecessorStreams(k),
                      NEW s, s = PickStream(preds)
               PROVE  SerialInv'
    OBVIOUS
  <2>1. /\ bridge = "streams" /\ scheduled < Len(nodes) /\ nodes' = nodes
        /\ maxStreams' = maxStreams
        /\ streamOf' = [streamOf EXCEPT ![k] = s]
        /\ nextStream' = IF OpensStream(preds) THEN nextStream + 1 ELSE nextStream
    BY <1>2 DEF Schedule, ScheduleNode
  <2>2. /\ maxStreams = 1 /\ StreamCap = 1 /\ nextStream \in {0, 1}
        /\ \A j \in 1..Len(nodes) : streamOf[j] = 0
        /\ DOMAIN streamOf = 1..Len(nodes)
    BY <2>1 DEF SerialInv, SchedulerInv, StreamCap
  <2>3. DOMAIN preds \subseteq {0}
    <3>1. Producers(k) \subseteq 1..Len(nodes)
      BY NodesAreTyped DEF Producers
    <3>2. DOMAIN preds = {streamOf[j] : j \in Producers(k)}
      BY DEF PredecessorStreams
    <3> QED
      BY <2>2, <3>1, <3>2
  <2>4. s = 0
    <3>1. Fresh(0) = 0
      BY <2>2 DEF Fresh
    <3>2. CASE DOMAIN preds = {}
      BY <3>1, <3>2 DEF PickStream
    <3>3. CASE DOMAIN preds = {0}
      <4>1. (CHOOSE t \in DOMAIN preds : \A u \in DOMAIN preds : t <= u) = 0
        BY <3>3
      <4> QED
        BY <3>1, <3>3, <4>1 DEF PickStream
    <3> QED
      BY <2>3, <3>2, <3>3
  <2>5. nextStream' \in {0, 1}
    BY <2>1, <2>2 DEF OpensStream
  <2> QED
    BY <2>1, <2>2, <2>4, <2>5 DEF SerialInv
<1>3. CASE UNCHANGED <<nodes, schedulerVars>>
  BY <1>3 DEF SerialInv, schedulerVars
<1>4. CASE Normalize /\ UNCHANGED <<nodes, producerPort, schedulerVars, bridge, execVars>>
  BY <1>3, <1>4
<1>5. CASE BridgeMoves
  BY <1>3, <1>5 DEF BridgeMoves
<1> QED
  BY <1>1, <1>2, <1>3, <1>4, <1>5, StepIsOneOf

\* A plan that is complete stays as it is; nothing runs before.
LEMMA SessionStep ==
  ASSUME BridgeInv, ExecInv, [Next]_vars
  PROVE  \/ ~Planned /\ UNCHANGED execVars
         \/ Planned /\ UNCHANGED planVars /\ UNCHANGED execVars
         \/ /\ Planned /\ UNCHANGED planVars
            /\ (\E b : CopyInput(b)) \/ (\E k : Start(k)) \/ (\E k : Finish(k))
<1>0. Len(nodes) \in Nat
  BY NodesAreTyped
<1>1. CASE Compile
  <2>1. UNCHANGED execVars /\ PlanGraphNext
    BY <1>1 DEF Compile
  <2>2. ASSUME Planned PROVE FALSE
    <3>1. bridge = "streams" /\ scheduled = Len(nodes)
      BY <2>2 DEF Planned
    <3>2. Schedule
      BY <2>1, <3>1 DEF PlanGraphNext, Normalize, StartBridge, BridgeNode, BridgeFails,
                        StartPlanner, Plan, AttachGraphIOPorts
    <3> QED
      BY <1>0, <3>1, <3>2 DEF Schedule, ScheduleNode
  <2> QED
    BY <2>1, <2>2
<1>2. CASE Execute
  <2>1. \A k : Finish(k) => Planned
    BY DEF Finish, ExecInv
  <2> QED
    BY <1>2, <2>1 DEF Execute, CopyInput, Start, Finish
<1>3. CASE UNCHANGED vars
  BY <1>3 DEF vars
<1> QED
  BY <1>1, <1>2, <1>3 DEF Next

\* Nothing is said of the graph inputs when one of them starts to live late.
Protected(p) == p \notin BoundaryPorts \/ InputsLiveFromStart

LEMMA PlanVarsKeep ==
  ASSUME UNCHANGED planVars
  PROVE  /\ UNCHANGED <<graph, nodes, bridge, scheduled, streamOf, maxStreams, bytes,
                        stage, intervals, offset, workspace, inputPorts>>
         /\ Planned' = Planned /\ BoundarySet' = BoundarySet /\ Known' = Known
         /\ \A p : Protected(p)' <=> Protected(p)
<1>1. UNCHANGED <<graph, nodes, bridge, scheduled, streamOf, maxStreams, bytes,
                  stage, intervals, offset, workspace, inputPorts>>
  BY DEF planVars, orderVars, plannerVars, topologyVars, allocVars, schedulerVars,
         bridgeVars
<1>2. BoundarySet' = BoundarySet
  BY <1>1 DEF BoundarySet
<1>3. \A p : Protected(p)' <=> Protected(p)
  BY <1>1, <1>2 DEF Protected, InputsLiveFromStart, BoundaryPorts
<1> QED
  BY <1>1, <1>2, <1>3 DEF Planned, Known

LEMMA HostStep == BridgeInv /\ ExecInv /\ HostInv /\ [Next]_vars => HostInv'
<1> SUFFICES ASSUME BridgeInv, ExecInv, HostInv, [Next]_vars PROVE HostInv'
  OBVIOUS
<1>1. CASE ~Planned /\ UNCHANGED execVars
  <2>1. copied' = {} /\ running' = {} /\ finished' = {}
    BY <1>1 DEF execVars, HostInv, ExecInv
  <2> QED
    BY <2>1 DEF HostInv
<1>2. CASE Planned /\ UNCHANGED planVars /\ UNCHANGED execVars
  BY <1>2, PlanVarsKeep DEF execVars, HostInv
<1>3. ASSUME NEW b, CopyInput(b), UNCHANGED planVars PROVE HostInv'
  BY <1>3, PlanVarsKeep DEF CopyInput, HostInv
<1>4. ASSUME NEW k, Start(k), UNCHANGED planVars PROVE HostInv'
  BY <1>4, PlanVarsKeep DEF Start, HostInv
<1>5. ASSUME NEW k, Finish(k), UNCHANGED planVars, Planned PROVE HostInv'
  <2>1. /\ k \in running /\ running' = running \ {k} /\ finished' = finished \cup {k}
        /\ copied' = copied
    BY <1>5 DEF Finish
  <2> QED
    BY <1>5, <2>1, PlanVarsKeep DEF HostInv
<1> QED
  BY <1>1, <1>2, <1>3, <1>4, <1>5, SessionStep

\* A value a node that has not finished may still read is in its bytes: the
\* host has copied it in, or the node that makes it has finished.
Delivered(p) ==
  \/ \E b \in copied : p = BoundaryPort(b)
  \/ \E j \in finished : ~nodes[j].alias /\ nodes[j].outputs = <<p>>

StillNeeded(p) ==
  \E j \in 1..Len(nodes) : j \notin finished /\ j <= intervals[p].end

Intact(p) == \A u \in BytesOf(p) : u \in DOMAIN contents /\ contents[u] = p

FreshInv ==
  maxStreams = 1 /\ OffsetsFitInt32 /\ Planned =>
    \A p \in Known : Protected(p) /\ Delivered(p) /\ StillNeeded(p) => Intact(p)

PlanInv    == Inv /\ PlannerInv /\ SerialInv /\ HostInv
SessionInv == PlanInv /\ FreshInv

\* A planned port has a size, and a place for that many bytes.
LEMMA PlannedPort ==
  ASSUME PlannerInv, Planned, NEW p \in Known
  PROVE  /\ p \in DOMAIN offset /\ offset[p] \in Nat /\ bytes[p] \in Nat
         /\ intervals[p] \in IntervalType /\ bytes[p] <= intervals[p].size
         /\ BlockEnd(p) <= workspace /\ workspace \in Nat
<1>1. LayoutInv /\ stage = "planned"
  BY DEF PlannerInv, Planned
<1>2. DOMAIN offset = Known /\ workspace = highWater
  BY <1>1 DEF LayoutInv, SafetyInv, Partitioned, Published
<1>3. /\ offset[p] \in Nat /\ intervals[p] \in IntervalType /\ workspace \in Nat
  BY <1>1, <1>2 DEF LayoutInv, SafetyInv, PlannerTypeOK
<1>4. bytes[p] \in Nat /\ bytes[p] <= intervals[p].size
  BY <1>1, <1>3 DEF LayoutInv, Aligned, IntervalType
<1>5. BlockEnd(p) <= workspace
  BY <1>1, <1>2 DEF LayoutInv, HighWaterIsHighest
<1> QED
  BY <1>2, <1>3, <1>4, <1>5

\* Ports that are live at a common step have no byte in common.
LEMMA LiveBytesAreApart ==
  ASSUME PlannerInv, Planned, NEW p \in Known, NEW q \in Known, p # q, Overlaps(p, q)
  PROVE  BytesOf(p) \cap BytesOf(q) = {}
<1>1. NoSharedBytes
  BY DEF PlannerInv, Planned, LayoutInv, SafetyInv
<1>2. /\ p \in DOMAIN offset /\ offset[p] \in Nat /\ bytes[p] \in Nat
      /\ intervals[p].size \in Nat /\ bytes[p] <= intervals[p].size
      /\ q \in DOMAIN offset /\ offset[q] \in Nat /\ bytes[q] \in Nat
      /\ intervals[q].size \in Nat /\ bytes[q] <= intervals[q].size
  BY PlannedPort DEF IntervalType
<1>3. \/ offset[p] + intervals[p].size <= offset[q]
      \/ offset[q] + intervals[q].size <= offset[p]
  BY <1>1, <1>2 DEF NoSharedBytes, BlockEnd
<1> SUFFICES ASSUME NEW u \in offset[p]..(offset[p] + bytes[p] - 1),
                    u \in offset[q]..(offset[q] + bytes[q] - 1)
             PROVE  FALSE
  BY DEF BytesOf, BytesAt
<1>4. /\ u \in Int /\ offset[p] <= u /\ u < offset[p] + bytes[p]
      /\ offset[q] <= u /\ u < offset[q] + bytes[q]
  BY <1>2
<1> QED
  BY <1>2, <1>3, <1>4

\* Storing a value makes it intact and leaves intact what lies elsewhere.
LEMMA StoredIsIntact ==
  ASSUME NEW q, UNCHANGED <<offset, bytes>>, contents' = Store(contents, offset[q], q)
  PROVE  /\ Intact(q)'
         /\ \A p : Intact(p) /\ BytesOf(p) \cap BytesOf(q) = {} => Intact(p)'
<1>1. \A p : BytesOf(p)' = BytesOf(p)
  BY DEF BytesOf, BytesAt
<1>2. /\ DOMAIN contents' = DOMAIN contents \cup BytesOf(q)
      /\ \A u \in DOMAIN contents \cup BytesOf(q) :
           contents'[u] = IF u \in BytesOf(q) THEN q ELSE contents[u]
  BY DEF Store, BytesOf
<1> QED
  BY <1>1, <1>2 DEF Intact

\* The host copies an input to the very bytes the planner gave it.
LEMMA PublishedOffset ==
  ASSUME PlannerInv, Planned, OffsetsFitInt32, NEW b \in BoundarySet
  PROVE  /\ BoundaryPort(b) \in Known
         /\ inputPorts[b] = offset[BoundaryPort(b)]
<1>1. /\ InputsPlanned
      /\ inputPorts = [c \in BoundarySet |-> Int32(offset[BoundaryPort(c)])]
      /\ LayoutInv
  BY DEF PlannerInv, Planned
<1>2. BoundaryPort(b) \in Known
  BY <1>1 DEF InputsPlanned, LayoutInv, SafetyInv, PlannerTypeOK
<1> DEFINE o == offset[BoundaryPort(b)]
<1>3. o \in Nat /\ o <= workspace /\ workspace \in Nat
  <2>1. /\ o \in Nat /\ intervals[BoundaryPort(b)].size \in Nat
        /\ o + intervals[BoundaryPort(b)].size <= workspace /\ workspace \in Nat
    BY <1>2, PlannedPort DEF BlockEnd, IntervalType
  <2> QED
    BY <2>1
<1> HIDE DEF o
<1>4. 2 * o < Int32Range /\ o < Int32Range
  BY <1>3, Int32RangeAssumption DEF OffsetsFitInt32
<1>5. o % Int32Range = o
  BY <1>3, <1>4, Int32RangeAssumption
<1>6. Int32(o) = o
  BY <1>3, <1>4, <1>5, Int32RangeAssumption DEF Int32
<1> QED
  BY <1>1, <1>2, <1>6 DEF o

\* On one stream the nodes run one after the other.
LEMMA OneAfterTheOther ==
  ASSUME PlanInv, Planned, maxStreams = 1, NEW k \in running
  PROVE  /\ k \in 1..Len(nodes) /\ Len(nodes) \in Nat
         /\ finished = 1..(k - 1)
         /\ copied = BoundarySet
<1>1. /\ Len(nodes) \in Nat /\ k \in 1..Len(nodes) /\ k \notin finished
      /\ finished \subseteq 1..Len(nodes)
      /\ \A j \in 1..Len(nodes) : streamOf[j] = 0
  BY NodesAreTyped DEF PlanInv, Inv, ExecInv, HostInv, SerialInv
<1>2. \A i \in running \cup finished : \A j \in 1..(i - 1) :
        streamOf[j] = streamOf[i] => j \in finished
  BY DEF PlanInv, Inv, ExecInv
<1>3. \A i \in running \cup finished : \A j \in 1..(i - 1) : j \in finished
  <2> SUFFICES ASSUME NEW i \in running \cup finished, NEW j \in 1..(i - 1)
               PROVE  j \in finished
    OBVIOUS
  <2>1. i \in 1..Len(nodes) /\ j \in 1..Len(nodes)
    BY <1>1 DEF PlanInv, Inv, ExecInv
  <2> QED
    BY <1>1, <1>2, <2>1
<1>4. \A i \in finished : i \in 1..(k - 1)
  <2> SUFFICES ASSUME NEW i \in finished, i \notin 1..(k - 1)
               PROVE  FALSE
    OBVIOUS
  <2>1. i = k \/ k \in 1..(i - 1)
    BY <1>1
  <2> QED
    BY <1>1, <1>3, <2>1
<1>5. copied = BoundarySet
  BY DEF PlanInv, HostInv
<1> QED
  BY <1>1, <1>3, <1>4, <1>5

\* The output of a node is live while it runs, and so is whatever has been
\* delivered and is needed after it.
LEMMA OutputOverlaps ==
  ASSUME PlanInv, Planned, NEW k \in 1..Len(nodes), NEW q, nodes[k].outputs = <<q>>,
         NEW p \in Known, intervals[p].end >= k,
         \/ p \in BoundaryPorts /\ Protected(p)
         \/ \E j \in 1..k : nodes[j].outputs = <<p>>
  PROVE  q \in Known /\ Overlaps(p, q)
<1>1. /\ Len(nodes) \in Nat /\ DOMAIN nodes = 1..Len(nodes)
      /\ \A j \in 1..Len(nodes) : \A r : r \in OutputsOf(j) <=> nodes[j].outputs = <<r>>
  BY NodesAreTyped DEF PlanInv, Inv
<1>2. EveryUseIsLive /\ stage = "planned"
  BY DEF PlanInv, PlannerInv, Planned, CoverInv
<1>3. \A j \in 1..Len(nodes) : \A r : nodes[j].outputs = <<r>> =>
        r \in Known /\ intervals[r].start <= j /\ intervals[r].end >= j
  BY <1>1, <1>2 DEF EveryUseIsLive, Passed
<1>4. q \in Known /\ intervals[q].start <= k /\ intervals[q].end >= k
  BY <1>3
<1>5. /\ intervals[p].start \in Nat /\ intervals[p].end \in Nat
      /\ intervals[q].start \in Nat /\ intervals[q].end \in Nat
  BY <1>4, PlannedPort DEF PlanInv, IntervalType
<1>6. intervals[p].start <= k
  <2>1. CASE p \in BoundaryPorts /\ Protected(p)
    <3>1. intervals[p].start = 1
      BY <2>1 DEF Protected, InputsLiveFromStart, Known
    <3> QED
      BY <1>1, <3>1
  <2>2. ASSUME NEW j \in 1..k, nodes[j].outputs = <<p>>
        PROVE  intervals[p].start <= k
    <3>1. j \in 1..Len(nodes) /\ j <= k
      BY <1>1
    <3>2. intervals[p].start <= j
      BY <1>3, <2>2, <3>1
    <3> QED
      BY <1>1, <1>5, <3>1, <3>2
  <2> QED
    BY <2>1, <2>2
<1> QED
  BY <1>1, <1>4, <1>5, <1>6 DEF Overlaps

LEMMA FinishKeepsFresh ==
  ASSUME PlanInv, FreshInv, NEW k, Finish(k), UNCHANGED planVars,
         Planned, maxStreams = 1, OffsetsFitInt32,
         NEW p \in Known, Protected(p), Delivered(p)', StillNeeded(p)'
  PROVE  Intact(p)'
<1>1. /\ k \in running /\ finished' = finished \cup {k} /\ copied' = copied
      /\ UNCHANGED <<nodes, intervals, offset, bytes>>
      /\ contents' = IF nodes[k].alias THEN contents
                     ELSE Store(contents, offset[nodes[k].outputs[1]],
                                nodes[k].outputs[1])
  BY PlanVarsKeep DEF Finish
<1>2. /\ k \in 1..Len(nodes) /\ Len(nodes) \in Nat /\ finished = 1..(k - 1)
      /\ copied = BoundarySet
  BY <1>1, OneAfterTheOther
<1>3. intervals[p].end \in Nat
  BY PlannedPort DEF PlanInv, IntervalType
<1>4. intervals[p].end >= k + 1 /\ StillNeeded(p)
  <2>1. PICK j \in 1..Len(nodes) : j \notin finished' /\ j <= intervals[p].end
    BY <1>1 DEF StillNeeded
  <2>2. j >= k + 1 /\ j \notin finished
    BY <1>1, <1>2, <2>1
  <2> QED
    BY <1>2, <1>3, <2>1, <2>2 DEF StillNeeded
<1>5. CASE nodes[k].alias
  <2>1. Delivered(p)
    BY <1>1, <1>5 DEF Delivered
  <2>2. Intact(p)
    BY <1>4, <2>1 DEF FreshInv
  <2> QED
    BY <1>1, <1>5, <2>2 DEF Intact, BytesOf, BytesAt
<1>6. CASE ~nodes[k].alias
  <2>1. PICK q : nodes[k].outputs = <<q>>
    BY <1>2, NodesAreTyped DEF PlanInv, Inv
  <2>2. contents' = Store(contents, offset[q], q)
    BY <1>1, <1>6, <2>1
  <2>3. CASE p = q
    BY <1>1, <2>2, <2>3, StoredIsIntact
  <2>4. CASE p # q
    <3>1. Delivered(p)
      BY <1>1, <2>1, <2>4 DEF Delivered
    <3>2. Intact(p)
      BY <1>4, <3>1 DEF FreshInv
    <3>3. \/ p \in BoundaryPorts /\ Protected(p)
          \/ \E j \in 1..k : nodes[j].outputs = <<p>>
      BY <1>2, <3>1 DEF Delivered, BoundaryPorts
    <3>4. q \in Known /\ Overlaps(p, q)
      BY <1>2, <1>3, <1>4, <2>1, <3>3, OutputOverlaps
    <3>5. BytesOf(p) \cap BytesOf(q) = {}
      BY <2>4, <3>4, LiveBytesAreApart DEF PlanInv
    <3> QED
      BY <1>1, <2>2, <3>2, <3>5, StoredIsIntact
  <2> QED
    BY <2>3, <2>4
<1> QED
  BY <1>5, <1>6

LEMMA CopyKeepsFresh ==
  ASSUME PlanInv, FreshInv, NEW b, CopyInput(b), UNCHANGED planVars,
         Planned, maxStreams = 1, OffsetsFitInt32,
         NEW p \in Known, Protected(p), Delivered(p)', StillNeeded(p)'
  PROVE  Intact(p)'
<1> SUFFICES ASSUME NEW q, q = BoundaryPort(b) PROVE Intact(p)'
  OBVIOUS
<1>1. /\ b \in BoundarySet /\ b \notin copied /\ copied' = copied \cup {b}
      /\ UNCHANGED <<nodes, intervals, offset, bytes, finished>>
      /\ contents' = Store(contents, inputPorts[b], q)
  BY PlanVarsKeep DEF CopyInput
<1>2. finished = {} /\ copied \subseteq BoundarySet
  BY <1>1 DEF PlanInv, HostInv
<1>3. /\ q \in Known /\ q \in BoundaryPorts
      /\ contents' = Store(contents, offset[q], q)
  BY <1>1, PublishedOffset DEF PlanInv, BoundaryPorts
<1>4. p \in BoundaryPorts
  BY <1>1, <1>2 DEF Delivered, BoundaryPorts
<1>5. CASE p = q
  BY <1>1, <1>3, <1>5, StoredIsIntact
<1>6. CASE p # q
  <2>1. Delivered(p) /\ StillNeeded(p)
    BY <1>1, <1>2, <1>6 DEF Delivered, StillNeeded
  <2>2. Intact(p)
    BY <2>1 DEF FreshInv
  <2>3. Overlaps(p, q)
    <3>1. /\ intervals[p].end >= 1 /\ intervals[p].start = 1
          /\ intervals[q].end >= 1 /\ intervals[q].start = 1
      BY <1>3, <1>4 DEF PlanInv, PlannerInv, Planned, EndsAreSteps, Protected,
                        InputsLiveFromStart, Known
    <3> QED
      BY <3>1 DEF Overlaps
  <2>4. BytesOf(p) \cap BytesOf(q) = {}
    BY <1>3, <1>6, <2>3, LiveBytesAreApart DEF PlanInv
  <2> QED
    BY <1>1, <1>3, <2>2, <2>4, StoredIsIntact
<1> QED
  BY <1>5, <1>6

LEMMA FreshStep == PlanInv /\ FreshInv /\ [Next]_vars => FreshInv'
<1> SUFFICES ASSUME PlanInv, FreshInv, [Next]_vars,
                    (maxStreams = 1 /\ OffsetsFitInt32 /\ Planned)',
                    NEW p \in Known', Protected(p)', Delivered(p)', StillNeeded(p)'
             PROVE  Intact(p)'
  BY DEF FreshInv
<1>1. CASE ~Planned /\ UNCHANGED execVars
  <2>1. copied' = {} /\ finished' = {}
    BY <1>1 DEF execVars, PlanInv, HostInv, Inv, ExecInv
  <2> QED
    BY <2>1 DEF Delivered
<1>a. ASSUME UNCHANGED planVars, Planned
      PROVE  /\ maxStreams = 1 /\ OffsetsFitInt32 /\ p \in Known /\ Protected(p)
             /\ UNCHANGED <<nodes, intervals, offset, bytes>>
  BY <1>a, PlanVarsKeep DEF OffsetsFitInt32
<1>b. ASSUME UNCHANGED planVars, Planned, UNCHANGED <<copied, finished, contents>>
      PROVE  Intact(p)'
  <2>1. Delivered(p) /\ StillNeeded(p)
    BY <1>a, <1>b DEF Delivered, StillNeeded
  <2>2. Intact(p)
    BY <1>a, <1>b, <2>1 DEF FreshInv
  <2> QED
    BY <1>a, <1>b, <2>2 DEF Intact, BytesOf, BytesAt
<1>2. CASE Planned /\ UNCHANGED planVars /\ UNCHANGED execVars
  BY <1>2, <1>b DEF execVars
<1>3. ASSUME NEW b, CopyInput(b), UNCHANGED planVars, Planned PROVE Intact(p)'
  BY <1>3, <1>a, CopyKeepsFresh
<1>4. ASSUME NEW k, Start(k), UNCHANGED planVars, Planned PROVE Intact(p)'
  BY <1>4, <1>b DEF Start
<1>5. ASSUME NEW k, Finish(k), UNCHANGED planVars, Planned PROVE Intact(p)'
  BY <1>5, <1>a, FinishKeepsFresh
<1> QED
  BY <1>1, <1>2, <1>3, <1>4, <1>5, SessionStep DEF PlanInv, Inv

LEMMA SessionInvStarts == Init => SessionInv
<1> SUFFICES ASSUME Init PROVE SessionInv
  OBVIOUS
<1>1. /\ nodes = <<>> /\ bridge = "normalize" /\ nextStream = 0 /\ PlannerStart
      /\ bytes = [p \in Ports |-> Unsized]
      /\ copied = {} /\ running = {} /\ finished = {}
  BY DEF Init, PlanGraphInit
<1>2. PlannerInv
  BY <1>1 DEF PlannerInv
<1>3. SerialInv
  BY <1>1 DEF SerialInv
<1>4. HostInv
  BY <1>1 DEF HostInv
<1>5. FreshInv
  BY <1>1 DEF FreshInv, Planned
<1> QED
  BY <1>2, <1>3, <1>4, <1>5, InvStarts DEF SessionInv, PlanInv

LEMMA SessionInvariant == Spec => []SessionInv
<1>1. SessionInv /\ [Next]_vars => SessionInv'
  <2> SUFFICES ASSUME SessionInv, [Next]_vars PROVE SessionInv'
    OBVIOUS
  <2>1. Inv'
    BY GraphStep, BridgeStep, SchedulerStep, ExecStep DEF SessionInv, PlanInv, Inv
  <2> QED
    BY <2>1, PlannerStep, SerialStep, HostStep, FreshStep DEF SessionInv, PlanInv, Inv
<1> QED
  BY <1>1, SessionInvStarts, PTL DEF Spec

\* The composed planner keeps what it keeps on its own, from the topologies
\* that PlanGraph bridges: ports live at a common step share no byte, and
\* every use lies inside its interval.
THEOREM PlannedTopologiesAreSafe == Spec => [](Planned => NoSharedBytes /\ EveryUseIsLive)
<1>1. SessionInv => (Planned => NoSharedBytes /\ EveryUseIsLive)
  BY DEF SessionInv, PlanInv, PlannerInv, Planned, LayoutInv, SafetyInv, CoverInv
<1> QED
  BY <1>1, SessionInvariant, PTL

\* On a single stream a running node finds each node's output that it reads
\* intact, whatever the graph and the sizes, when the offsets of the workspace
\* fit in the int32 that PlanGraph publishes them as; and the graph inputs too,
\* unless an alias is the first to read one of them, behind the first step.
THEOREM SerialReadsStayFresh == Spec => [](OffsetsFitInt32 => SerialReadsAreFresh)
<1>1. SessionInv => (OffsetsFitInt32 => SerialReadsAreFresh)
  <2> SUFFICES ASSUME SessionInv, OffsetsFitInt32, maxStreams = 1,
                      NEW k \in running, NEW p \in Read(k), Protected(p)
               PROVE  Holds(p)
    BY DEF SerialReadsAreFresh, Protected
  <2>1. Planned /\ PlanInv
    BY DEF SessionInv, PlanInv, Inv, ExecInv
  <2>2. /\ k \in 1..Len(nodes) /\ Len(nodes) \in Nat /\ finished = 1..(k - 1)
        /\ copied = BoundarySet
    BY <2>1, OneAfterTheOther
  <2>3. p \in InputsOf(k)
    BY DEF Read
  <2>4. p \in Known /\ intervals[p].end >= k
    <3>1. k \in DOMAIN nodes
      BY <2>1, <2>2, NodesAreTyped DEF PlanInv, Inv
    <3> QED
      BY <2>1, <2>3, <3>1 DEF PlanInv, PlannerInv, Planned, CoverInv, EveryUseIsLive, Passed
  <2>5. StillNeeded(p)
    <3>1. intervals[p].end \in Nat
      BY <2>1, <2>4, PlannedPort DEF PlanInv, IntervalType
    <3> QED
      BY <2>2, <2>4, <3>1 DEF StillNeeded
  <2>6. Delivered(p)
    <3>1. p \in BoundaryPorts \/ MadeBefore(p, k)
      BY <2>1, <2>2, <2>3 DEF PlanInv, Inv, BridgeInv, PortsInv, PortsOf
    <3> QED
      BY <2>2, <3>1 DEF BoundaryPorts, MadeBefore, Delivered
  <2>7. Intact(p)
    BY <2>1, <2>4, <2>5, <2>6 DEF SessionInv, FreshInv
  <2> QED
    BY <2>7 DEF Intact, Holds
<1> QED
  BY <1>1, SessionInvariant, PTL
==============================================================================
