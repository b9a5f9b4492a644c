--------------------------- MODULE TensorAllocator ---------------------------
(***************************************************************************)
(* tensor.Allocate and tensor.Release: three tiers of free lists that any  *)
(* number of goroutines use at once.  A slab list belongs to a size class  *)
(* and a shard, a medium list to a size class, and there is one large      *)
(* list.  Every list has its own mutex, so an action is one critical       *)
(* section or what a goroutine does between two of them.                   *)
(*                                                                         *)
(* Byte counts are scaled: only their order and the tier limits matter.    *)
(* A caller of Allocate finds its block in call[t] (at = "got"), a caller  *)
(* of Release hands its block over there.                                  *)
(***************************************************************************)
EXTENDS Integers, Sequences, SequencesExt, FiniteSets, FiniteSetsExt

CONSTANTS Threads,   \* goroutines
          Blocks,    \* the storage that can ever be taken from the heap or mapped
          Shards,    \* slabShardCount
          Classes,   \* the size classes of both tiers, powers of two
          SlabMax,   \* slabMaxBytes, 1 MiB
          MediumMax, \* 1 GiB, where the large tier begins
          HugePage,  \* large mappings are multiples of this
          NoBlock

ASSUME AllocatorAssumption ==
    /\ Shards \in Nat \ {0}
    /\ Classes \subseteq Nat \ {0}
    /\ {SlabMax, MediumMax} \subseteq Classes
    /\ SlabMax < MediumMax
    /\ HugePage \in Nat \ {0}
    /\ NoBlock \notin Blocks

VARIABLES lists,    \* the free lists, the last block freed first
          capacity, \* cap of a block; 0 for storage not yet acquired
          ticket,   \* slabShardCounter
          call      \* what each goroutine is doing

allocatorVars == <<lists, capacity, ticket, call>>

\* Fault: the class is rounded down.
SizeClassBelow(n) == Max({c \in Classes : c <= n} \cup {Min(Classes)})

\* The smallest size class that holds n bytes.
SizeClass(n) == Min({c \in Classes : c >= n})

SlabList(c, shard) == <<"slab", c, shard>>
MediumList(c)      == <<"medium", c>>
LargeList          == <<"large">>

Lists == {SlabList(c, s) : c \in {k \in Classes : k <= SlabMax}, s \in 0..(Shards - 1)}
         \cup {MediumList(c) : c \in {k \in Classes : SlabMax <= k /\ k <= MediumMax}}
         \cup {LargeList}

Idle == [at |-> "idle"]

AllocatorInit ==
    /\ lists = [l \in Lists |-> <<>>]
    /\ capacity = [b \in Blocks |-> 0]
    /\ ticket = 0
    /\ call = [t \in Threads |-> Idle]

\* slabShardIndex: the counter modulo the number of shards is all that is used.
NextTicket == (ticket + 1) % Shards

\* The list for n bytes: a request below a limit may need a block of that size.
Tier(n) ==
    IF n < SlabMax THEN SlabList(SizeClass(n), NextTicket)
    ELSE IF n < MediumMax THEN MediumList(SizeClass(n))
    ELSE LargeList

\* Allocate for a purpose of the caller: the tier, and a shard for a slab.
BeginAllocate(t, n, purpose) ==
    /\ call[t] = Idle
    /\ call' = [call EXCEPT ![t] = [at |-> "pop", for |-> purpose, size |-> n,
                                    list |-> Tier(n)]]
    /\ ticket' = IF n < SlabMax THEN NextTicket ELSE ticket
    /\ UNCHANGED <<lists, capacity>>

\* The positions of the blocks a list can offer: the head, or large enough ones.
Offers(list, n) ==
    {i \in DOMAIN lists[list] :
        IF list = LargeList THEN capacity[lists[list][i]] >= n ELSE i = 1}

Got(c, b) == [at |-> "got", for |-> c.for, size |-> c.size, block |-> b]

\* The critical section of an allocation.
PopBlock(t) ==
    /\ call[t].at = "pop"
    /\ LET c == call[t]
           i == Min(Offers(c.list, c.size))
       IN  IF Offers(c.list, c.size) = {}
           THEN /\ call' = [call EXCEPT ![t].at = "fresh"]
                /\ UNCHANGED lists
           ELSE /\ call' = [call EXCEPT ![t] = Got(c, lists[c.list][i])]
                /\ lists' = [lists EXCEPT ![c.list] = RemoveAt(@, i)]
    /\ UNCHANGED <<capacity, ticket>>

\* The allocation unit of new storage: a size class, or whole huge pages.
Unit(list, n) ==
    IF list = LargeList THEN ((n + HugePage - 1) \div HugePage) * HugePage
    ELSE list[2]

\* allocateAligned or mmapAlloc, with no lock held.
FreshBlock(t) ==
    /\ call[t].at = "fresh"
    /\ \E b \in Blocks :
         /\ capacity[b] = 0
         /\ capacity' = [capacity EXCEPT ![b] = Unit(call[t].list, call[t].size)]
         /\ call' = [call EXCEPT ![t] = Got(call[t], b)]
    /\ UNCHANGED <<lists, ticket>>

\* mmap fails, and with it the operation that asked for storage.
MapFails(t) ==
    /\ call[t].at = "fresh"
    /\ call[t].list[1] \in {"medium", "large"}
    /\ call' = [call EXCEPT ![t] = Idle]
    /\ UNCHANGED <<lists, capacity, ticket>>

\* Release, for a goroutine that is in the middle of an operation.
HandOver(t, b) ==
    /\ call' = [call EXCEPT ![t] = [at |-> "push", block |-> b,
                                    list |-> Tier(capacity[b])]]
    /\ ticket' = IF capacity[b] < SlabMax THEN NextTicket ELSE ticket
    /\ UNCHANGED <<lists, capacity>>

\* The critical section of a release.
PushBlock(t) ==
    /\ call[t].at = "push"
    /\ lists' = [lists EXCEPT ![call[t].list] = <<call[t].block>> \o @]
    /\ call' = [call EXCEPT ![t] = Idle]
    /\ UNCHANGED <<capacity, ticket>>

AllocatorStep(t) == PopBlock(t) \/ FreshBlock(t) \/ MapFails(t) \/ PushBlock(t)
=============================================================================
