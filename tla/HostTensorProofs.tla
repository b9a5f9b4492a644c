--------------------------- MODULE HostTensorProofs ---------------------------
(***************************************************************************)
(* Proofs about the allocator, the host tensors and the arena, for any     *)
(* number of goroutines, blocks, tensors, shards and size classes: storage *)
(* has one owner, it is as large as its request, and two usable tensors    *)
(* with bytes of their own share none of them.                             *)
(***************************************************************************)
EXTENDS HostTensors, FiniteSetTheorems, SequenceTheorems,
        WellFoundedInduction, TLAPS

-----------------------------------------------------------------------------
(* Types.                                                                  *)

Purposes == {"tensor", "arena"}
Regions  == [block : Blocks, from : Nat, to : Nat]

PopCalls   == [at : {"pop", "fresh"}, for : Purposes, size : Nat, list : Lists]
GotCalls   == [at : {"got"}, for : Purposes, size : Nat, block : Blocks]
PushCalls  == [at : {"push"}, block : Blocks, list : Lists]
CloseCalls == [at : {"close"}, handle : Handles, bytes : Regions \cup {NoBytes}]
ViewCalls  == [at : {"view"}, alone : BOOLEAN, bytes : Regions]
ResetCalls == [at : {"reset"}]
Calls == {Idle} \cup PopCalls \cup GotCalls \cup PushCalls \cup CloseCalls
         \cup ViewCalls \cup ResetCalls

Tensors == [kind : {"root", "arena", "derived"}, bytes : Regions \cup {NoBytes},
            epoch : Nat, alone : BOOLEAN, closed : BOOLEAN, ready : BOOLEAN]

TypeInv ==
  /\ lists \in [Lists -> Seq(Blocks)]
  /\ capacity \in [Blocks -> Nat]
  /\ ticket \in Nat
  /\ call \in [Threads -> Calls]
  /\ handle \in [Handles -> {Unused} \cup Tensors]
  /\ arena \in [storage : Blocks \cup {NoBlock}, length : Nat, offset : Nat,
                epoch : Nat, made : BOOLEAN]

\* The field "at" tells the records of the calls apart.
LEMMA CallShapes ==
  ASSUME NEW c \in Calls
  PROVE  /\ c.at \in {"pop", "fresh"} => c \in PopCalls
         /\ c.at = "got" => c \in GotCalls
         /\ c.at = "push" => c \in PushCalls
         /\ c.at = "close" => c \in CloseCalls
         /\ c.at = "view" => c \in ViewCalls
BY DEF Calls, Idle, PopCalls, GotCalls, PushCalls, CloseCalls, ViewCalls, ResetCalls

\* What a step may put into call[t] is a call.
LEMMA CallForms ==
  /\ Idle \in Calls
  /\ \A p \in Purposes, n \in Nat, l \in Lists, at \in {"pop", "fresh"} :
       [at |-> at, for |-> p, size |-> n, list |-> l] \in Calls
  /\ \A p \in Purposes, n \in Nat, b \in Blocks :
       [at |-> "got", for |-> p, size |-> n, block |-> b] \in Calls
  /\ \A b \in Blocks, l \in Lists : [at |-> "push", block |-> b, list |-> l] \in Calls
  /\ \A h \in Handles, r \in Regions \cup {NoBytes} :
       [at |-> "close", handle |-> h, bytes |-> r] \in Calls
  /\ \A a \in BOOLEAN, r \in Regions : [at |-> "view", alone |-> a, bytes |-> r] \in Calls
  /\ [at |-> "reset"] \in Calls
BY DEF Calls, PopCalls, GotCalls, PushCalls, CloseCalls, ViewCalls, ResetCalls

LEMMA UnusedIsNoTensor == Unused \notin Tensors
BY DEF Unused, Tensors

-----------------------------------------------------------------------------
(* Size classes and tiers.                                                 *)

\* A set of numbers has a minimum.
LEMMA MinExists ==
  ASSUME NEW S \in SUBSET Nat, S # {}
  PROVE  Min(S) \in S /\ \A y \in S : Min(S) <= y
<1>1. PICK x \in S : \A y \in S : ~(<<y, x>> \in OpToRel(<, Nat))
  BY NatLessThanWellFounded, WFMin
<1>2. \A y \in S : x <= y
  <2>1. \A y \in S : ~(y < x)
    BY <1>1 DEF OpToRel
  <2> QED
    BY <2>1
<1> QED
  BY <1>2 DEF Min

LEMMA SizeClassHolds ==
  ASSUME NEW n \in Nat, NEW m \in Classes, n <= m
  PROVE  /\ SizeClass(n) \in Classes
         /\ n <= SizeClass(n) /\ SizeClass(n) <= m
         /\ n \in Classes => SizeClass(n) = n
<1> DEFINE S == {c \in Classes : c >= n}
<1>1. S \in SUBSET Nat /\ S # {} /\ m \in S
  BY AllocatorAssumption
<1>2. Min(S) \in S /\ \A y \in S : Min(S) <= y
  BY <1>1, MinExists
<1>3. n \in Classes => n \in S
  OBVIOUS
<1>4. SizeClass(n) = Min(S)
  BY DEF SizeClass
<1> HIDE DEF S
<1>5. Min(S) \in Nat /\ Min(S) \in Classes /\ Min(S) >= n
  BY <1>2, AllocatorAssumption DEF S
<1>6. Min(S) <= m /\ (n \in Classes => Min(S) <= n)
  BY <1>1, <1>2, <1>3
<1> QED
  BY <1>4, <1>5, <1>6

LEMMA ListShapes ==
  ASSUME NEW l \in Lists, l # LargeList
  PROVE  l[2] \in Classes
BY DEF Lists, SlabList, MediumList, LargeList

\* A tier is a list that exists; its blocks are large enough, and a block of a
\* class is filed under that class.
LEMMA TierFits ==
  ASSUME NEW n \in Nat, ticket \in Nat
  PROVE  /\ Tier(n) \in Lists
         /\ Tier(n) = LargeList => n >= MediumMax
         /\ Tier(n) # LargeList => /\ Tier(n)[2] \in Classes
                                   /\ n <= Tier(n)[2]
                                   /\ n \in Classes => Tier(n)[2] = n
<1>1. /\ NextTicket \in 0..(Shards - 1)
      /\ SlabMax \in Classes /\ MediumMax \in Classes
      /\ SlabMax \in Nat /\ MediumMax \in Nat /\ Classes \subseteq Nat
  <2>1. Shards \in Nat \ {0}
    BY AllocatorAssumption
  <2>2. (ticket + 1) % Shards \in 0..(Shards - 1)
    BY <2>1
  <2> QED
    BY <2>2, AllocatorAssumption DEF NextTicket
<1>2. CASE n < SlabMax
  <2>1. /\ SizeClass(n) \in Classes /\ n <= SizeClass(n) /\ SizeClass(n) <= SlabMax
        /\ n \in Classes => SizeClass(n) = n
    BY <1>1, <1>2, SizeClassHolds
  <2>2. Tier(n) = <<"slab", SizeClass(n), NextTicket>>
    BY <1>2 DEF Tier, SlabList
  <2>3. Tier(n) \in Lists
    <3>1. SizeClass(n) \in {k \in Classes : k <= SlabMax}
      BY <2>1
    <3> DEFINE C == {k \in Classes : k <= SlabMax}
               R == 0..(Shards - 1)
    <3>2. SizeClass(n) \in C /\ NextTicket \in R
      BY <1>1, <3>1
    <3>3. {<<"slab", c, s>> : c \in C, s \in R} \subseteq Lists
      BY DEF Lists, SlabList
    <3> HIDE DEF C, R
    <3>4. <<"slab", SizeClass(n), NextTicket>> \in {<<"slab", c, s>> : c \in C, s \in R}
      BY <3>2
    <3> QED
      BY <2>2, <3>3, <3>4
  <2>4. Tier(n)[2] = SizeClass(n) /\ Tier(n) # LargeList
    BY <2>2 DEF LargeList
  <2> QED
    BY <2>1, <2>3, <2>4
<1>3. CASE ~(n < SlabMax) /\ n < MediumMax
  <2>1. /\ SizeClass(n) \in Classes /\ n <= SizeClass(n) /\ SizeClass(n) <= MediumMax
        /\ n \in Classes => SizeClass(n) = n
    BY <1>1, <1>3, SizeClassHolds
  <2>2. Tier(n) = <<"medium", SizeClass(n)>>
    BY <1>3 DEF Tier, MediumList
  <2>3. SlabMax <= SizeClass(n) /\ SizeClass(n) \in Nat
    <3>1. SizeClass(n) \in Nat
      BY <1>1, <2>1
    <3> QED
      BY <1>1, <1>3, <2>1, <3>1
  <2>4. Tier(n) \in Lists
    BY <1>1, <2>1, <2>2, <2>3 DEF Lists, MediumList
  <2>5. Tier(n)[2] = SizeClass(n) /\ Tier(n) # LargeList
    BY <2>2 DEF LargeList
  <2> QED
    BY <2>1, <2>4, <2>5
<1>4. CASE ~(n < SlabMax) /\ ~(n < MediumMax)
  <2>1. Tier(n) = LargeList
    BY <1>4 DEF Tier
  <2> QED
    BY <1>1, <1>4, <2>1 DEF Lists
<1> QED
  BY <1>2, <1>3, <1>4

\* Rounding up to a multiple makes nothing smaller.
LEMMA RoundUp ==
  ASSUME NEW n \in Nat, NEW m \in Nat \ {0}
  PROVE  /\ ((n + m - 1) \div m) * m \in Nat
         /\ ((n + m - 1) \div m) * m >= n
<1> DEFINE q == (n + m - 1) \div m
           r == (n + m - 1) % m
<1>1. q \in Nat /\ r \in 0..(m - 1) /\ n + m - 1 = m * q + r
  OBVIOUS
<1> HIDE DEF q, r
<1>2. q * m \in Nat /\ q * m >= n
  BY <1>1
<1> QED
  BY <1>2 DEF q

\* New storage is as large as the request, and of the class of its list.
LEMMA UnitFits ==
  ASSUME NEW n \in Nat, NEW l \in Lists,
         l = LargeList => n >= MediumMax,
         l # LargeList => n <= l[2]
  PROVE  /\ Unit(l, n) \in Nat /\ Unit(l, n) > 0 /\ Unit(l, n) >= n
         /\ l # LargeList => Unit(l, n) = l[2]
         /\ Unit(l, n) < MediumMax => Unit(l, n) \in Classes
<1>1. SlabMax \in Nat /\ MediumMax \in Nat /\ SlabMax < MediumMax /\ HugePage \in Nat \ {0}
  BY AllocatorAssumption
<1>2. CASE l = LargeList
  <2>1. Unit(l, n) = ((n + HugePage - 1) \div HugePage) * HugePage
    BY <1>2 DEF Unit
  <2>2. Unit(l, n) \in Nat /\ Unit(l, n) >= n
    BY <1>1, <2>1, RoundUp
  <2> QED
    BY <1>1, <1>2, <2>2
<1>3. CASE l # LargeList
  <2>1. l[2] \in Classes
    BY <1>3, ListShapes
  <2>2. Unit(l, n) = l[2]
    BY <1>3 DEF Unit
  <2>3. l[2] \in Nat \ {0}
    BY <2>1, AllocatorAssumption
  <2>4. n <= l[2]
    BY <1>3
  <2> QED
    BY <1>3, <2>1, <2>2, <2>3, <2>4
<1> QED
  BY <1>2, <1>3

-----------------------------------------------------------------------------
(* Free lists.                                                             *)

\* Without position i, what came later moves down by one.
LEMMA RemoveAtShifts ==
  ASSUME NEW S, NEW s \in Seq(S), NEW i \in 1..Len(s)
  PROVE  /\ RemoveAt(s, i) \in Seq(S)
         /\ Len(RemoveAt(s, i)) = Len(s) - 1
         /\ \A k \in 1..(Len(s) - 1) :
              RemoveAt(s, i)[k] = IF k < i THEN s[k] ELSE s[k + 1]
<1> DEFINE f == SubSeq(s, 1, i - 1)
           g == SubSeq(s, i + 1, Len(s))
<1>1. Len(s) \in Nat /\ i \in Nat /\ 1 <= i /\ i <= Len(s)
  OBVIOUS
<1>2. /\ f \in Seq(S) /\ Len(f) = i - 1
      /\ \A k \in 1..(i - 1) : f[k] = s[k]
  BY <1>1
<1>3. /\ g \in Seq(S) /\ Len(g) = Len(s) - i
      /\ \A k \in 1..(Len(s) - i) : g[k] = s[k + i]
  BY <1>1
<1>4. RemoveAt(s, i) = f \o g
  BY DEF RemoveAt
<1> HIDE DEF f, g
<1>5. /\ f \o g \in Seq(S) /\ Len(f \o g) = Len(s) - 1
      /\ \A k \in 1..(Len(s) - 1) : (f \o g)[k] = IF k <= i - 1 THEN f[k] ELSE g[k - (i - 1)]
  <2>1. /\ f \o g \in Seq(S) /\ Len(f \o g) = Len(f) + Len(g)
        /\ \A k \in 1..(Len(f) + Len(g)) :
             (f \o g)[k] = IF k <= Len(f) THEN f[k] ELSE g[k - Len(f)]
    BY <1>2, <1>3, ConcatProperties
  <2>2. Len(f) + Len(g) = Len(s) - 1
    BY <1>1, <1>2, <1>3
  <2> QED
    BY <1>2, <2>1, <2>2
<1>6. \A k \in 1..(Len(s) - 1) : (f \o g)[k] = IF k < i THEN s[k] ELSE s[k + 1]
  <2> SUFFICES ASSUME NEW k \in 1..(Len(s) - 1)
               PROVE  (f \o g)[k] = IF k < i THEN s[k] ELSE s[k + 1]
    OBVIOUS
  <2>1. CASE k < i
    BY <1>1, <1>2, <1>5, <2>1
  <2>2. CASE ~(k < i)
    <3>1. k - (i - 1) \in 1..(Len(s) - i) /\ (k - (i - 1)) + i = k + 1
      BY <1>1, <2>2
    <3>2. g[k - (i - 1)] = s[k + 1]
      BY <1>3, <3>1
    <3>3. ~(k <= i - 1)
      BY <1>1, <2>2
    <3>4. (f \o g)[k] = g[k - (i - 1)]
      BY <1>5, <3>3
    <3> QED
      BY <2>2, <3>2, <3>4
  <2> QED
    BY <2>1, <2>2
<1> QED
  BY <1>4, <1>5, <1>6

\* In front of a list, everything moves up by one.
LEMMA ConsShifts ==
  ASSUME NEW S, NEW s \in Seq(S), NEW b \in S
  PROVE  /\ <<b>> \o s \in Seq(S)
         /\ Len(<<b>> \o s) = Len(s) + 1
         /\ (<<b>> \o s)[1] = b
         /\ \A k \in 1..Len(s) : (<<b>> \o s)[k + 1] = s[k]
OBVIOUS

\* What a list offers is on the list, and large enough.
LEMMA OfferIsListed ==
  ASSUME TypeInv, NEW l \in Lists, NEW n \in Nat, Offers(l, n) # {}
  PROVE  /\ Min(Offers(l, n)) \in 1..Len(lists[l])
         /\ lists[l][Min(Offers(l, n))] \in Blocks
         /\ l = LargeList => capacity[lists[l][Min(Offers(l, n))]] >= n
<1>1. lists[l] \in Seq(Blocks) /\ DOMAIN lists[l] = 1..Len(lists[l]) /\ Len(lists[l]) \in Nat
  BY DEF TypeInv
<1>2. Offers(l, n) \in SUBSET Nat
  BY <1>1 DEF Offers
<1>3. Min(Offers(l, n)) \in Offers(l, n)
  BY <1>2, MinExists
<1>4. PICK i \in Offers(l, n) : i = Min(Offers(l, n))
  BY <1>3
<1>5. i \in 1..Len(lists[l]) /\ (l = LargeList => capacity[lists[l][i]] >= n)
  BY <1>1 DEF Offers
<1>6. lists[l][i] \in Blocks
  BY <1>1, <1>5
<1> QED
  BY <1>4, <1>5, <1>6

-----------------------------------------------------------------------------
(* The types are invariant.                                                *)

LEMMA TypeInit == Init => TypeInv
<1> SUFFICES ASSUME Init PROVE TypeInv
  OBVIOUS
<1> QED
  BY CallForms DEF Init, AllocatorInit, TypeInv

\* Tensors that a constructor makes, and closed ones.
LEMMA TensorForms ==
  /\ \A k \in {"root", "arena", "derived"}, r \in Regions, e \in Nat, a \in BOOLEAN :
       NewTensor(k, r, e, a) \in Tensors
  /\ \A x \in Tensors : /\ [x EXCEPT !.closed = TRUE] \in Tensors
                        /\ [x EXCEPT !.closed = TRUE, !.ready = FALSE, !.bytes = NoBytes] \in Tensors
BY DEF NewTensor, Tensors

\* Release makes a call that pushes.
LEMMA HandOverForms ==
  ASSUME TypeInv, NEW t \in Threads, NEW b \in Blocks, HandOver(t, b)
  PROVE  /\ call' \in [Threads -> Calls] /\ ticket' \in Nat
         /\ UNCHANGED <<lists, capacity>>
<1>1. capacity[b] \in Nat /\ Tier(capacity[b]) \in Lists
  BY TierFits DEF TypeInv
<1>2. [at |-> "push", block |-> b, list |-> Tier(capacity[b])] \in Calls
  BY <1>1, CallForms
<1>3. NextTicket \in Nat
  BY AllocatorAssumption DEF NextTicket, TypeInv
<1> QED
  BY <1>2, <1>3 DEF HandOver, TypeInv

\* A Reset marks the calls that are in the middle of an Arena.New, and leaves
\* all others as they are.
LEMMA ResetMarks ==
  ASSUME TypeInv, NEW t \in Threads, BeginReset(t)
  PROVE  /\ call' \in [Threads -> Calls]
         /\ call'[t].at = "reset" /\ call[t].at = "idle"
         /\ \A u \in Threads \ {t} :
              /\ call'[u].at = call[u].at
              /\ call[u].at # "view" => call'[u] = call[u]
              /\ call[u].at = "view" => ~call'[u].alone
<1>1. /\ call' = [u \in Threads |-> IF u = t THEN [at |-> "reset"] ELSE Interrupted(call[u])]
      /\ call[t] = Idle
  BY DEF BeginReset
<1>2. \A u \in Threads : call'[u] = IF u = t THEN [at |-> "reset"] ELSE Interrupted(call[u])
  BY <1>1
<1>3. ASSUME NEW u \in Threads
      PROVE  /\ Interrupted(call[u]) \in Calls
             /\ Interrupted(call[u]).at = call[u].at
             /\ call[u].at # "view" => Interrupted(call[u]) = call[u]
             /\ call[u].at = "view" => ~Interrupted(call[u]).alone
  <2>1. call[u] \in Calls
    BY DEF TypeInv
  <2>2. CASE call[u].at # "view"
    BY <2>1, <2>2 DEF Interrupted
  <2>3. CASE call[u].at = "view"
    <3>1. call[u] \in ViewCalls
      BY <2>1, <2>3, CallShapes
    <3>2. Interrupted(call[u]) = [at |-> "view", alone |-> FALSE, bytes |-> call[u].bytes]
      BY <2>3, <3>1 DEF Interrupted, ViewCalls
    <3>3. call[u].bytes \in Regions
      BY <3>1 DEF ViewCalls
    <3>4. [at |-> "view", alone |-> FALSE, bytes |-> call[u].bytes] \in Calls
      BY <3>3, CallForms
    <3> QED
      BY <2>3, <3>2, <3>4
  <2> QED
    BY <2>2, <2>3
<1>4. call' \in [Threads -> Calls]
  BY <1>1, <1>3, CallForms
<1> QED
  BY <1>1, <1>2, <1>3, <1>4 DEF Idle

LEMMA TypeStep == TypeInv /\ [Next]_vars => TypeInv'
<1> SUFFICES ASSUME TypeInv, [Next]_vars PROVE TypeInv'
  OBVIOUS
<1> USE DEF TypeInv
<1>0. /\ \A n \in Nat : Tier(n) \in Lists
      /\ NextTicket \in Nat
  <2>1. \A n \in Nat : Tier(n) \in Lists
    BY TierFits
  <2> QED
    BY <2>1, AllocatorAssumption DEF NextTicket
<1>1. ASSUME NEW t \in Threads, PopBlock(t), UNCHANGED <<handle, arena>>
      PROVE  TypeInv'
  <2>1. call[t] \in PopCalls
    BY <1>1, CallShapes DEF PopBlock
  <2>2. CASE Offers(call[t].list, call[t].size) = {}
    <3>1. [call[t] EXCEPT !.at = "fresh"] \in Calls
      BY <2>1 DEF Calls, PopCalls
    <3> QED
      BY <1>1, <2>2, <3>1 DEF PopBlock
  <2>3. CASE Offers(call[t].list, call[t].size) # {}
    <3> DEFINE l == call[t].list
               i == Min(Offers(l, call[t].size))
    <3>1. l \in Lists /\ call[t].size \in Nat /\ call[t].for \in Purposes
      BY <2>1 DEF PopCalls
    <3>2. i \in 1..Len(lists[l]) /\ lists[l][i] \in Blocks
      BY <2>3, <3>1, OfferIsListed
    <3>3. RemoveAt(lists[l], i) \in Seq(Blocks)
      BY <3>1, <3>2, RemoveAtShifts
    <3>4. Got(call[t], lists[l][i]) \in Calls
      BY <3>1, <3>2, CallForms DEF Got
    <3> QED
      BY <1>1, <2>3, <3>1, <3>3, <3>4 DEF PopBlock
  <2> QED
    BY <2>2, <2>3
<1>2. ASSUME NEW t \in Threads, FreshBlock(t), UNCHANGED <<handle, arena>>
      PROVE  TypeInv'
  <2>1. call[t] \in PopCalls
    BY <1>2, CallShapes DEF FreshBlock
  <2>2. Unit(call[t].list, call[t].size) \in Nat
    <3>1. call[t].list \in Lists /\ call[t].size \in Nat
      BY <2>1 DEF PopCalls
    <3>2. CASE call[t].list = LargeList
      BY <3>1, <3>2, AllocatorAssumption, RoundUp DEF Unit
    <3>3. CASE call[t].list # LargeList
      BY <3>1, <3>3, ListShapes, AllocatorAssumption DEF Unit
    <3> QED
      BY <3>2, <3>3
  <2>3. \A b \in Blocks : Got(call[t], b) \in Calls
    BY <2>1, CallForms DEF Got, PopCalls
  <2> QED
    BY <1>2, <2>2, <2>3 DEF FreshBlock
<1>3. ASSUME NEW t \in Threads, MapFails(t), UNCHANGED <<handle, arena>>
      PROVE  TypeInv'
  BY <1>3, CallForms DEF MapFails
<1>4. ASSUME NEW t \in Threads, PushBlock(t), UNCHANGED <<handle, arena>>
      PROVE  TypeInv'
  <2>1. call[t].list \in Lists /\ call[t].block \in Blocks
    BY <1>4, CallShapes DEF PushBlock, PushCalls
  <2>2. <<call[t].block>> \o lists[call[t].list] \in Seq(Blocks)
    BY <2>1
  <2> QED
    BY <1>4, <2>1, <2>2, CallForms DEF PushBlock
<1>5. ASSUME NEW t \in Threads, BeginUpload(t)
      PROVE  TypeInv'
  <2>1. \A n \in UploadSizes :
          [at |-> "pop", for |-> "tensor", size |-> n, list |-> Tier(n)] \in Calls
    BY <1>0, CallForms, TensorAssumption DEF Purposes
  <2> QED
    BY <1>0, <1>5, <2>1 DEF BeginUpload, BeginAllocate
<1>6. ASSUME NEW t \in Threads, FinishUpload(t)
      PROVE  TypeInv'
  <2>1. call[t].block \in Blocks /\ call[t].size \in Nat
    BY <1>6, CallShapes DEF FinishUpload, GotCalls
  <2>2. NewTensor("root", Region(call[t].block, 0, call[t].size), 0, TRUE) \in Tensors
    BY <2>1, TensorForms DEF Region, Regions
  <2> QED
    BY <1>6, <2>2, CallForms DEF FinishUpload, MakeHandle
<1>7. ASSUME NEW t \in Threads, NEW h \in Handles, Derive(t, h)
      PROVE  TypeInv'
  <2>1. handle[h].bytes \in Regions
    BY <1>7 DEF Derive, Tensors
  <2>2. \A to \in (handle[h].bytes.from + 1)..handle[h].bytes.to :
          NewTensor("derived", Region(handle[h].bytes.block, handle[h].bytes.from, to), 0, TRUE)
            \in Tensors
    <3> SUFFICES ASSUME NEW to \in (handle[h].bytes.from + 1)..handle[h].bytes.to
                 PROVE  NewTensor("derived", Region(handle[h].bytes.block,
                                  handle[h].bytes.from, to), 0, TRUE) \in Tensors
      OBVIOUS
    <3>1. to \in Nat /\ handle[h].bytes.from \in Nat /\ handle[h].bytes.block \in Blocks
      BY <2>1 DEF Regions
    <3>2. Region(handle[h].bytes.block, handle[h].bytes.from, to) \in Regions
      BY <3>1 DEF Region, Regions
    <3> QED
      BY <3>2, TensorForms
  <2> QED
    BY <1>7, <2>2 DEF Derive, MakeHandle, allocatorVars
<1>8. ASSUME NEW t \in Threads, NEW h \in Handles, BeginClose(t, h)
      PROVE  TypeInv'
  <2>1. handle[h] \in Tensors
    BY <1>8 DEF BeginClose
  <2>2. [at |-> "close", handle |-> h, bytes |-> handle[h].bytes] \in Calls
    BY <2>1, CallForms DEF Tensors
  <2>3. [handle[h] EXCEPT !.closed = TRUE] \in Tensors
    BY <2>1, TensorForms
  <2> QED
    BY <1>8, <2>2, <2>3 DEF BeginClose
<1>9. ASSUME NEW t \in Threads, FinishClose(t)
      PROVE  TypeInv'
  <2>1. call[t].handle \in Handles /\ call[t].bytes \in Regions \cup {NoBytes}
    BY <1>9, CallShapes DEF FinishClose, CloseCalls
  <2>2. handle' \in [Handles -> {Unused} \cup Tensors]
    <3>1. CASE handle[call[t].handle] \in Tensors
      BY <1>9, <2>1, <3>1, TensorForms DEF FinishClose, Shut
    <3>2. CASE handle[call[t].handle] = Unused
      <4>1. [Unused EXCEPT !.closed = TRUE, !.ready = FALSE, !.bytes = NoBytes] = Unused
        BY DEF Unused
      <4> QED
        BY <1>9, <2>1, <3>2, <4>1 DEF FinishClose, Shut
    <3> QED
      BY <2>1, <3>1, <3>2
  <2>3. CASE handle[call[t].handle].kind = "root" /\ call[t].bytes # NoBytes
    <3>1. call[t].bytes.block \in Blocks
      BY <2>1, <2>3 DEF Regions
    <3>2. HandOver(t, call[t].bytes.block) /\ UNCHANGED arena
      BY <1>9, <2>3 DEF FinishClose
    <3> QED
      BY <2>2, <3>1, <3>2, HandOverForms
  <2>4. CASE ~(handle[call[t].handle].kind = "root" /\ call[t].bytes # NoBytes)
    BY <1>9, <2>2, <2>4, CallForms DEF FinishClose
  <2> QED
    BY <2>3, <2>4
<1>10. ASSUME NEW t \in Threads, BeginArena(t)
       PROVE  TypeInv'
  <2>1. \A n \in ArenaSizes :
          [at |-> "pop", for |-> "arena", size |-> n, list |-> Tier(n)] \in Calls
    BY <1>0, CallForms, TensorAssumption DEF Purposes
  <2> QED
    BY <1>0, <1>10, <2>1 DEF BeginArena, BeginAllocate
<1>11. ASSUME NEW t \in Threads, FinishArena(t)
       PROVE  TypeInv'
  <2>1. call[t].block \in Blocks /\ call[t].size \in Nat
    BY <1>11, CallShapes DEF FinishArena, GotCalls
  <2> QED
    BY <1>11, <2>1, CallForms DEF FinishArena
<1>12. ASSUME NEW t \in Threads, NEW n \in ArenaUses, ArenaAllocate(t, n)
       PROVE  TypeInv'
  <2>1. Aligned \in Nat /\ n \in Nat
    BY TensorAssumption, RoundUp DEF Aligned
  <2>2. arena.storage \in Blocks
    BY <1>12 DEF ArenaAllocate
  <2>3. Region(arena.storage, Aligned, Aligned + n) \in Regions
    BY <2>1, <2>2 DEF Region, Regions
  <2>4. [at |-> "view", alone |-> ~Resetting,
          bytes |-> Region(arena.storage, Aligned, Aligned + n)] \in Calls
    BY <2>3, CallForms
  <2>5. call' \in [Threads -> Calls]
    BY <1>12, <2>4 DEF ArenaAllocate
  <2>6. arena' = [arena EXCEPT !.offset = Aligned + n]
    BY <1>12 DEF ArenaAllocate
  <2>7. Aligned + n \in Nat
    BY <2>1
  <2> QED
    BY <1>12, <2>5, <2>6, <2>7 DEF ArenaAllocate
<1>13. ASSUME NEW t \in Threads, ArenaTensor(t)
       PROVE  TypeInv'
  <2>1. call[t].bytes \in Regions /\ call[t].alone \in BOOLEAN
    BY <1>13, CallShapes DEF ArenaTensor, ViewCalls
  <2>2. NewTensor("arena", call[t].bytes, arena.epoch, call[t].alone) \in Tensors
    BY <2>1, TensorForms
  <2> QED
    BY <1>13, <2>2, CallForms DEF ArenaTensor, MakeHandle
<1>14. ASSUME NEW t \in Threads, BeginReset(t) \/ FinishReset(t)
       PROVE  TypeInv'
  <2>1. CASE BeginReset(t)
    <3>1. call' \in [Threads -> Calls]
      BY <2>1, ResetMarks
    <3> QED
      BY <2>1, <3>1 DEF BeginReset
  <2>2. CASE FinishReset(t)
    <3>1. arena' = [arena EXCEPT !.epoch = arena.epoch + 1] /\ arena.epoch + 1 \in Nat
      BY <2>2 DEF FinishReset
    <3>2. call' \in [Threads -> Calls]
      BY <2>2, CallForms DEF FinishReset
    <3> QED
      BY <2>2, <3>1, <3>2 DEF FinishReset
  <2> QED
    BY <1>14, <2>1, <2>2
<1>15. ASSUME NEW t \in Threads, CloseArena(t)
       PROVE  TypeInv'
  <2>1. arena.storage \in Blocks
    BY <1>15 DEF CloseArena
  <2>2. /\ call' \in [Threads -> Calls] /\ ticket' \in Nat
        /\ UNCHANGED <<lists, capacity>>
    BY <1>15, <2>1, HandOverForms DEF CloseArena
  <2> QED
    BY <1>15, <2>2 DEF CloseArena
<1>16. CASE UNCHANGED vars
  BY <1>16 DEF vars, allocatorVars
<1> QED
  BY <1>1, <1>2, <1>3, <1>4, <1>5, <1>6, <1>7, <1>8, <1>9, <1>10, <1>11, <1>12, <1>13,
     <1>14, <1>15, <1>16 DEF Next, AllocatorStep

-----------------------------------------------------------------------------
(* Calls, closed tensors and the one arena.                                *)

Suits(l, n) == IF l = LargeList THEN n >= MediumMax ELSE n <= l[2]

\* A call that wants storage asks a list of its tier; one call at most makes the
\* arena, and none after it exists.
CallInv ==
  /\ \A t \in Threads : call[t].at \in {"pop", "fresh"} => Suits(call[t].list, call[t].size)
  /\ \A t \in Threads : ForArena(t) => ~arena.made
  /\ \A t, u \in Threads : ForArena(t) /\ ForArena(u) => t = u
  /\ ~arena.made => arena.storage = NoBlock

\* A tensor has its bytes until the one call that closes it drops them.
CloseInv ==
  /\ \A t \in Threads : call[t].at = "close" =>
       /\ handle[call[t].handle] # Unused
       /\ handle[call[t].handle].closed
       /\ call[t].bytes = handle[call[t].handle].bytes
       /\ call[t].bytes # NoBytes
  /\ \A t, u \in Threads : call[t].at = "close" /\ call[u].at = "close"
                           /\ call[t].handle = call[u].handle => t = u
  /\ \A h \in Handles : handle[h] # Unused /\ (~handle[h].closed \/ handle[h].ready)
                         => handle[h].bytes # NoBytes

\* The records the steps write, field by field.
LEMMA TierSuits ==
  ASSUME NEW n \in Nat, ticket \in Nat
  PROVE  Suits(Tier(n), n)
BY TierFits DEF Suits

LEMMA CallInit == Init => CallInv /\ CloseInv
BY DEF Init, AllocatorInit, CallInv, CloseInv, ForArena, Idle, Unused

LEMMA CallStep == TypeInv /\ CallInv /\ [Next]_vars => CallInv'
<1> SUFFICES ASSUME TypeInv, CallInv, [Next]_vars PROVE CallInv'
  OBVIOUS
<1> USE DEF CallInv, ForArena, Suits
<1>0. \A u \in Threads : call[u] \in Calls
  BY DEF TypeInv
<1>1. ASSUME NEW t \in Threads, PopBlock(t), UNCHANGED <<handle, arena>>
      PROVE  CallInv'
  <2>1. call[t] \in PopCalls
    BY <1>0, <1>1, CallShapes DEF PopBlock
  <2>2. CASE call' = [call EXCEPT ![t].at = "fresh"]
    BY <1>0, <1>1, <2>1, <2>2 DEF PopBlock, PopCalls, TypeInv
  <2>3. ASSUME NEW b, call' = [call EXCEPT ![t] = Got(call[t], b)]
        PROVE  CallInv'
    BY <1>0, <1>1, <2>1, <2>3 DEF PopBlock, PopCalls, Got, TypeInv
  <2> QED
    BY <1>1, <2>2, <2>3 DEF PopBlock
<1>2. ASSUME NEW t \in Threads, FreshBlock(t), UNCHANGED <<handle, arena>>
      PROVE  CallInv'
  <2>1. call[t] \in PopCalls
    BY <1>0, <1>2, CallShapes DEF FreshBlock
  <2>2. PICK b \in Blocks : call' = [call EXCEPT ![t] = Got(call[t], b)]
    BY <1>2 DEF FreshBlock
  <2> QED
    BY <1>0, <1>2, <2>1, <2>2 DEF FreshBlock, PopCalls, Got, TypeInv
<1>3. ASSUME NEW t \in Threads, MapFails(t) \/ PushBlock(t), UNCHANGED <<handle, arena>>
      PROVE  CallInv'
  <2>1. call' = [call EXCEPT ![t] = Idle]
    BY <1>3 DEF MapFails, PushBlock
  <2> QED
    BY <1>0, <1>3, <2>1 DEF Idle, TypeInv
<1>4. ASSUME NEW t \in Threads, BeginUpload(t)
      PROVE  CallInv'
  <2>1. PICK n \in UploadSizes : BeginAllocate(t, n, "tensor") /\ UNCHANGED arena
    BY <1>4 DEF BeginUpload
  <2>2. Suits(Tier(n), n)
    BY TierSuits, TensorAssumption DEF TypeInv
  <2> QED
    BY <1>0, <2>1, <2>2 DEF BeginAllocate, TypeInv
<1>5. ASSUME NEW t \in Threads, BeginArena(t)
      PROVE  CallInv'
  <2>1. PICK n \in ArenaSizes : BeginAllocate(t, n, "arena")
    BY <1>5 DEF BeginArena
  <2>2. Suits(Tier(n), n)
    BY TierSuits, TensorAssumption DEF TypeInv
  <2>3. \A u \in Threads : ~ForArena(u)
    BY <1>5 DEF BeginArena
  <2>4. ~arena'.made /\ arena'.storage = NoBlock
    BY <1>5 DEF BeginArena
  <2>5. \A u \in Threads \ {t} : call'[u] = call[u]
    BY <2>1 DEF BeginAllocate, TypeInv
  <2>6. call'[t].at = "pop" /\ call'[t].size = n /\ call'[t].list = Tier(n)
    BY <2>1 DEF BeginAllocate, TypeInv
  <2> QED
    BY <2>2, <2>3, <2>4, <2>5, <2>6
<1>6. ASSUME NEW t \in Threads,
             FinishUpload(t) \/ \E h \in Handles : Derive(t, h) \/ BeginClose(t, h)
      PROVE  CallInv'
  <2>1. CASE FinishUpload(t)
    BY <1>0, <2>1 DEF FinishUpload, Idle, TypeInv
  <2>2. ASSUME NEW h \in Handles, Derive(t, h)
        PROVE  CallInv'
    BY <2>2 DEF Derive, allocatorVars
  <2>3. ASSUME NEW h \in Handles, BeginClose(t, h)
        PROVE  CallInv'
    BY <1>0, <2>3 DEF BeginClose, TypeInv
  <2> QED
    BY <1>6, <2>1, <2>2, <2>3
<1>7. ASSUME NEW t \in Threads, FinishClose(t)
      PROVE  CallInv'
  <2>1. PICK x : UNCHANGED arena /\ call' = [call EXCEPT ![t] = x] /\ x.at \in {"idle", "push"}
    <3> DEFINE c == [at |-> "push", block |-> call[t].bytes.block,
                     list |-> Tier(capacity[call[t].bytes.block])]
    <3>1. c.at = "push" /\ Idle.at = "idle"
      BY DEF Idle
    <3>2. /\ UNCHANGED arena
          /\ call' = [call EXCEPT ![t] = Idle] \/ call' = [call EXCEPT ![t] = c]
      BY <1>7 DEF FinishClose, HandOver
    <3> HIDE DEF c
    <3> QED
      BY <3>1, <3>2
  <2>2. \A u \in Threads : call'[u] = IF u = t THEN x ELSE call[u]
    BY <2>1 DEF TypeInv
  <2> QED
    BY <2>1, <2>2
<1>8. ASSUME NEW t \in Threads, FinishArena(t)
      PROVE  CallInv'
  <2>1. \A u \in Threads : ForArena(u) => u = t
    BY <1>8 DEF FinishArena
  <2>2. arena'.made
    BY <1>8 DEF FinishArena, TypeInv
  <2>3. \A u \in Threads \ {t} : call'[u] = call[u]
    BY <1>8 DEF FinishArena, TypeInv
  <2>4. call'[t] = Idle
    BY <1>8 DEF FinishArena, TypeInv
  <2> QED
    BY <2>1, <2>2, <2>3, <2>4 DEF Idle
<1>9. ASSUME NEW t \in Threads, NEW n \in ArenaUses, ArenaAllocate(t, n)
      PROVE  CallInv'
  <2>1. arena'.made = arena.made /\ arena'.storage = arena.storage
    BY <1>9 DEF ArenaAllocate, TypeInv
  <2> DEFINE x == [at |-> "view", alone |-> ~Resetting,
             bytes |-> Region(arena.storage, Aligned, Aligned + n)]
  <2>2. call' = [call EXCEPT ![t] = x] /\ x.at = "view"
    BY <1>9 DEF ArenaAllocate
  <2> HIDE DEF x
  <2> QED
    BY <1>0, <2>1, <2>2 DEF TypeInv
<1>10. ASSUME NEW t \in Threads, ArenaTensor(t)
       PROVE  CallInv'
  BY <1>0, <1>10 DEF ArenaTensor, Idle, TypeInv
<1>11. ASSUME NEW t \in Threads, BeginReset(t) \/ FinishReset(t)
       PROVE  CallInv'
  <2>1. arena'.made = arena.made /\ arena'.storage = arena.storage
    BY <1>11 DEF BeginReset, FinishReset, TypeInv
  <2>2. /\ call'[t].at \in {"idle", "reset"}
        /\ \A u \in Threads \ {t} : call'[u].at \in {"pop", "fresh", "got"} => call'[u] = call[u]
    <3>1. CASE BeginReset(t)
      BY <3>1, ResetMarks
    <3>2. CASE FinishReset(t)
      BY <3>2 DEF FinishReset, Idle, TypeInv
    <3> QED
      BY <1>11, <3>1, <3>2
  <2> QED
    BY <1>0, <2>1, <2>2
<1>12. ASSUME NEW t \in Threads, CloseArena(t)
       PROVE  CallInv'
  <2>1. arena'.made = arena.made /\ arena'.storage = NoBlock /\ arena.storage # NoBlock
    BY <1>12 DEF CloseArena, TypeInv
  <2> DEFINE x == [at |-> "push", block |-> arena.storage, list |-> Tier(capacity[arena.storage])]
  <2>2. call' = [call EXCEPT ![t] = x] /\ x.at = "push"
    BY <1>12 DEF CloseArena, HandOver
  <2> HIDE DEF x
  <2> QED
    BY <1>0, <2>1, <2>2 DEF TypeInv
<1>13. CASE UNCHANGED vars
  BY <1>13 DEF vars, allocatorVars
<1> QED
  BY <1>1, <1>2, <1>3, <1>4, <1>5, <1>6, <1>7, <1>8, <1>9, <1>10, <1>11, <1>12, <1>13
  DEF Next, AllocatorStep

LEMMA CloseStep == TypeInv /\ CloseInv /\ [Next]_vars => CloseInv'
<1> SUFFICES ASSUME TypeInv, CloseInv, [Next]_vars PROVE CloseInv'
  OBVIOUS
<1> USE DEF CloseInv
<1>0. \A u \in Threads : call[u] \in Calls
  BY DEF TypeInv
\* Most steps leave the tensors alone and put no closing call in place.
<1>a. ASSUME NEW t \in Threads, NEW x, call' = [call EXCEPT ![t] = x], x.at # "close",
             UNCHANGED handle
      PROVE  CloseInv'
  BY <1>0, <1>a DEF TypeInv
<1>1. ASSUME NEW t \in Threads, AllocatorStep(t), UNCHANGED <<handle, arena>>
      PROVE  CloseInv'
  <2>1. CASE PopBlock(t)
    <3>1. call[t] \in PopCalls
      BY <1>0, <2>1, CallShapes DEF PopBlock
    <3>2. [call[t] EXCEPT !.at = "fresh"].at = "fresh"
      BY <3>1 DEF PopCalls
    <3>3. \A b : Got(call[t], b).at = "got"
      BY DEF Got
    <3>4. \/ call' = [call EXCEPT ![t] = [call[t] EXCEPT !.at = "fresh"]]
          \/ \E b : call' = [call EXCEPT ![t] = Got(call[t], b)]
      BY <2>1 DEF PopBlock
    <3> QED
      BY <1>a, <1>1, <3>2, <3>3, <3>4
  <2>2. CASE FreshBlock(t)
    <3>1. \A b : Got(call[t], b).at = "got"
      BY DEF Got
    <3> QED
      BY <1>a, <1>1, <2>2, <3>1 DEF FreshBlock
  <2>3. CASE MapFails(t) \/ PushBlock(t)
    <3>1. call' = [call EXCEPT ![t] = Idle]
      BY <2>3 DEF MapFails, PushBlock
    <3>2. Idle.at = "idle"
      BY DEF Idle
    <3> QED
      BY <1>a, <1>1, <3>1, <3>2
  <2> QED
    BY <1>1, <2>1, <2>2, <2>3 DEF AllocatorStep
<1>2. ASSUME NEW t \in Threads, BeginUpload(t) \/ BeginArena(t)
      PROVE  CloseInv'
  <2>1. \A n, p, l : [at |-> "pop", for |-> p, size |-> n, list |-> l].at # "close"
    OBVIOUS
  <2>2. UNCHANGED handle /\ \E n, p, l :
          call' = [call EXCEPT ![t] = [at |-> "pop", for |-> p, size |-> n, list |-> l]]
    BY <1>2 DEF BeginUpload, BeginArena, BeginAllocate
  <2> QED
    BY <1>a, <2>1, <2>2
<1>3. ASSUME NEW t \in Threads, FinishUpload(t)
      PROVE  CloseInv'
  <2>1. PICK h \in Handles : /\ handle[h] = Unused
                             /\ handle' = [handle EXCEPT ![h] =
                                  NewTensor("root", Region(call[t].block, 0, call[t].size), 0, TRUE)]
    BY <1>3 DEF FinishUpload, MakeHandle
  <2>2. call[t].block \in Blocks /\ call[t].size \in Nat
    BY <1>0, <1>3, CallShapes DEF FinishUpload, GotCalls
  <2>3. Region(call[t].block, 0, call[t].size) # NoBytes
    BY <2>2, TensorAssumption DEF Region
  <2> DEFINE x == NewTensor("root", Region(call[t].block, 0, call[t].size), 0, TRUE)
  <2>4. x # Unused /\ x.bytes # NoBytes
    BY <2>3 DEF NewTensor, Unused
  <2>5. handle' = [handle EXCEPT ![h] = x]
    BY <2>1
  <2> HIDE DEF x
  <2>6. /\ \A u \in Threads : call'[u] = IF u = t THEN Idle ELSE call[u]
        /\ \A k \in Handles : handle'[k] = IF k = h THEN x ELSE handle[k]
    BY <1>3, <2>5 DEF FinishUpload, TypeInv
  <2>7. \A u \in Threads : call[u].at = "close" => call[u].handle \in Handles \ {h}
    BY <1>0, <2>1, CallShapes DEF CloseCalls
  <2> QED
    BY <2>4, <2>6, <2>7 DEF Idle
<1>4. ASSUME NEW t \in Threads, NEW h \in Handles, Derive(t, h)
      PROVE  CloseInv'
  <2>1. PICK to \in (handle[h].bytes.from + 1)..handle[h].bytes.to, g \in Handles :
          /\ handle[g] = Unused
          /\ handle' = [handle EXCEPT ![g] =
               NewTensor("derived", Region(handle[h].bytes.block, handle[h].bytes.from, to), 0, TRUE)]
    BY <1>4 DEF Derive, MakeHandle
  <2>2. handle[h].bytes \in Regions
    BY <1>4 DEF Derive, Tensors, TypeInv
  <2> DEFINE r == Region(handle[h].bytes.block, handle[h].bytes.from, to)
             x == NewTensor("derived", r, 0, TRUE)
  <2>3. r # NoBytes
    <3>1. /\ handle[h].bytes.block \in Blocks /\ handle[h].bytes.from \in Nat /\ to \in Nat
      BY <2>2 DEF Regions
    <3> QED
      BY <3>1, TensorAssumption DEF Region
  <2>4. x # Unused /\ x.bytes # NoBytes
    BY <2>3 DEF NewTensor, Unused
  <2>5. handle' = [handle EXCEPT ![g] = x] /\ UNCHANGED call
    BY <1>4, <2>1 DEF Derive, allocatorVars
  <2> HIDE DEF r, x
  <2>6. \A k \in Handles : handle'[k] = IF k = g THEN x ELSE handle[k]
    BY <2>5 DEF TypeInv
  <2>7. \A u \in Threads : call[u].at = "close" => call[u].handle \in Handles \ {g}
    BY <1>0, <2>1, CallShapes DEF CloseCalls
  <2> QED
    BY <2>4, <2>5, <2>6, <2>7
<1>5. ASSUME NEW t \in Threads, NEW h \in Handles, BeginClose(t, h)
      PROVE  CloseInv'
  <2>1. handle[h] \in Tensors /\ ~handle[h].closed /\ handle[h].bytes # NoBytes
    BY <1>5 DEF BeginClose, TypeInv
  <2> DEFINE x == [handle[h] EXCEPT !.closed = TRUE]
             c == [at |-> "close", handle |-> h, bytes |-> handle[h].bytes]
  <2>2. x # Unused /\ x.closed /\ x.bytes = handle[h].bytes
    BY <2>1 DEF Tensors, Unused
  <2>3. c.at = "close" /\ c.handle = h /\ c.bytes = handle[h].bytes
    OBVIOUS
  <2>4. handle' = [handle EXCEPT ![h] = x] /\ call' = [call EXCEPT ![t] = c]
    BY <1>5 DEF BeginClose
  <2>5. \A u \in Threads : call[u].at = "close" => call[u].handle # h
    BY <2>1
  <2> HIDE DEF x, c
  <2> QED
    BY <1>0, <2>1, <2>2, <2>3, <2>4, <2>5 DEF TypeInv
<1>6. ASSUME NEW t \in Threads, FinishClose(t)
      PROVE  CloseInv'
  <2> DEFINE h == call[t].handle
             x == [handle[h] EXCEPT !.closed = TRUE, !.ready = FALSE, !.bytes = NoBytes]
  <2>1. call[t].at = "close" /\ h \in Handles
    BY <1>0, <1>6, CallShapes DEF FinishClose, CloseCalls
  <2>2. handle[h] \in Tensors
    BY <2>1 DEF TypeInv
  <2>3. x # Unused /\ x.closed /\ ~x.ready
    BY <2>2 DEF Tensors, Unused
  <2>4. handle' = [handle EXCEPT ![h] = x]
    BY <1>6 DEF FinishClose, Shut
  <2>5. PICK c : call' = [call EXCEPT ![t] = c] /\ c.at \in {"idle", "push"}
    <3> DEFINE c == [at |-> "push", block |-> call[t].bytes.block,
                     list |-> Tier(capacity[call[t].bytes.block])]
    <3>1. c.at = "push" /\ Idle.at = "idle"
      BY DEF Idle
    <3>2. call' = [call EXCEPT ![t] = Idle] \/ call' = [call EXCEPT ![t] = c]
      BY <1>6 DEF FinishClose, HandOver
    <3> HIDE DEF c
    <3> QED
      BY <3>1, <3>2
  <2>6. \A u \in Threads : u # t /\ call[u].at = "close" => call[u].handle # h
    BY <2>1
  <2> HIDE DEF h, x
  <2> QED
    BY <1>0, <2>1, <2>2, <2>3, <2>4, <2>5, <2>6 DEF TypeInv
<1>7. ASSUME NEW t \in Threads, FinishArena(t) \/ BeginReset(t) \/ FinishReset(t)
      PROVE  CloseInv'
  <2>1. CASE FinishArena(t) \/ FinishReset(t)
    BY <1>a, <2>1 DEF FinishArena, FinishReset, Idle
  <2>2. CASE BeginReset(t)
    <3>1. UNCHANGED handle /\ \A u \in Threads :
            call'[u].at = "close" => call[u].at = "close" /\ call'[u] = call[u]
      BY <2>2, ResetMarks DEF BeginReset
    <3> QED
      BY <3>1
  <2> QED
    BY <1>7, <2>1, <2>2
<1>8. ASSUME NEW t \in Threads, NEW n \in ArenaUses, ArenaAllocate(t, n)
      PROVE  CloseInv'
  <2> DEFINE x == [at |-> "view", alone |-> ~Resetting,
             bytes |-> Region(arena.storage, Aligned, Aligned + n)]
  <2>1. call' = [call EXCEPT ![t] = x] /\ x.at = "view" /\ UNCHANGED handle
    BY <1>8 DEF ArenaAllocate
  <2> HIDE DEF x
  <2> QED
    BY <1>a, <2>1
<1>9. ASSUME NEW t \in Threads, ArenaTensor(t)
      PROVE  CloseInv'
  <2> DEFINE x == NewTensor("arena", call[t].bytes, arena.epoch, call[t].alone)
  <2>1. PICK h \in Handles : handle[h] = Unused /\ handle' = [handle EXCEPT ![h] = x]
    BY <1>9 DEF ArenaTensor, MakeHandle
  <2>2. call[t].bytes \in Regions
    BY <1>0, <1>9, CallShapes DEF ArenaTensor, ViewCalls
  <2>3. x # Unused /\ x.bytes # NoBytes
    BY <2>2, TensorAssumption DEF NewTensor, Unused, Regions
  <2>4. call' = [call EXCEPT ![t] = Idle]
    BY <1>9 DEF ArenaTensor
  <2> HIDE DEF x
  <2> QED
    BY <1>0, <2>1, <2>3, <2>4 DEF Idle, TypeInv
<1>10. ASSUME NEW t \in Threads, CloseArena(t)
       PROVE  CloseInv'
  <2> DEFINE x == [at |-> "push", block |-> arena.storage, list |-> Tier(capacity[arena.storage])]
  <2>1. call' = [call EXCEPT ![t] = x] /\ x.at = "push" /\ UNCHANGED handle
    BY <1>10 DEF CloseArena, HandOver
  <2> HIDE DEF x
  <2> QED
    BY <1>a, <2>1
<1>11. CASE UNCHANGED vars
  BY <1>11 DEF vars, allocatorVars
<1> QED
  BY <1>1, <1>2, <1>3, <1>4, <1>5, <1>6, <1>7, <1>8, <1>9, <1>10, <1>11 DEF Next

-----------------------------------------------------------------------------
(* One holder.                                                             *)

\* Where a block can be; nowhere is where storage not yet acquired is.
Places == ({"list"} \X Lists) \cup ({"call"} \X Threads) \cup ({"tensor"} \X Handles)
          \cup {<<"arena">>, <<"nowhere">>}

Listed(l, b) == \E i \in 1..Len(lists[l]) : lists[l][i] = b

\* at tells for each block the one place that has it.
Where(at) ==
  /\ at \in [Blocks -> Places]
  /\ \A b \in Blocks :
       /\ \A l \in Lists : Listed(l, b) <=> at[b] = <<"list", l>>
       /\ \A t \in Threads : Carries(t, b) <=> at[b] = <<"call", t>>
       /\ \A h \in Handles : Owns(h, b) <=> at[b] = <<"tensor", h>>
       /\ arena.storage = b <=> at[b] = <<"arena">>
       /\ capacity[b] = 0 <=> at[b] = <<"nowhere">>

NoRepeats == \A l \in Lists : \A i, j \in 1..Len(lists[l]) : lists[l][i] = lists[l][j] => i = j

OwnInv == NoRepeats /\ \E at : Where(at)

LEMMA OwnInit == Init => OwnInv
<1> SUFFICES ASSUME Init PROVE OwnInv
  OBVIOUS
<1> DEFINE at == [b \in Blocks |-> <<"nowhere">>]
<1>1. \A l \in Lists : Len(lists[l]) = 0
  BY DEF Init, AllocatorInit
<1>2. Where(at)
  <2>1. at \in [Blocks -> Places]
    BY DEF Places
  <2> SUFFICES ASSUME NEW b \in Blocks
               PROVE  /\ \A l \in Lists : ~Listed(l, b)
                      /\ \A t \in Threads : ~Carries(t, b)
                      /\ \A h \in Handles : ~Owns(h, b)
                      /\ arena.storage # b
                      /\ capacity[b] = 0
    BY <2>1 DEF Where
  <2> QED
    BY <1>1, AllocatorAssumption
    DEF Init, AllocatorInit, Listed, Carries, Owns, Idle
<1> QED
  BY <1>1, <1>2 DEF OwnInv, NoRepeats

\* Block b moves to place q, and all others stay.
LEMMA BlockMoves ==
  ASSUME NEW at, Where(at), NEW b \in Blocks, NEW q \in Places,
         \A c \in Blocks, l \in Lists :
            Listed(l, c)' <=> IF c = b THEN q = <<"list", l>> ELSE Listed(l, c),
         \A c \in Blocks, t \in Threads :
            Carries(t, c)' <=> IF c = b THEN q = <<"call", t>> ELSE Carries(t, c),
         \A c \in Blocks, h \in Handles :
            Owns(h, c)' <=> IF c = b THEN q = <<"tensor", h>> ELSE Owns(h, c),
         \A c \in Blocks :
            arena'.storage = c <=> IF c = b THEN q = <<"arena">> ELSE arena.storage = c,
         \A c \in Blocks :
            capacity'[c] = 0 <=> IF c = b THEN q = <<"nowhere">> ELSE capacity[c] = 0
  PROVE  \E w : Where(w)'
<1> DEFINE w == [at EXCEPT ![b] = q]
<1>1. w \in [Blocks -> Places] /\ \A c \in Blocks : w[c] = IF c = b THEN q ELSE at[c]
  BY DEF Where
<1> HIDE DEF w
<1>2. \A c \in Blocks :
        /\ \A l \in Lists : Listed(l, c)' <=> w[c] = <<"list", l>>
        /\ \A t \in Threads : Carries(t, c)' <=> w[c] = <<"call", t>>
        /\ \A h \in Handles : Owns(h, c)' <=> w[c] = <<"tensor", h>>
        /\ arena'.storage = c <=> w[c] = <<"arena">>
        /\ capacity'[c] = 0 <=> w[c] = <<"nowhere">>
  <2> SUFFICES ASSUME NEW c \in Blocks
               PROVE  /\ \A l \in Lists : Listed(l, c)' <=> w[c] = <<"list", l>>
                      /\ \A t \in Threads : Carries(t, c)' <=> w[c] = <<"call", t>>
                      /\ \A h \in Handles : Owns(h, c)' <=> w[c] = <<"tensor", h>>
                      /\ arena'.storage = c <=> w[c] = <<"arena">>
                      /\ capacity'[c] = 0 <=> w[c] = <<"nowhere">>
    OBVIOUS
  <2>1. CASE c = b
    BY <1>1, <2>1
  <2>2. CASE c # b
    <3>1. w[c] = at[c]
      BY <1>1, <2>2
    <3>2. /\ \A l \in Lists : Listed(l, c) <=> at[c] = <<"list", l>>
          /\ \A t \in Threads : Carries(t, c) <=> at[c] = <<"call", t>>
          /\ \A h \in Handles : Owns(h, c) <=> at[c] = <<"tensor", h>>
          /\ arena.storage = c <=> at[c] = <<"arena">>
          /\ capacity[c] = 0 <=> at[c] = <<"nowhere">>
      BY DEF Where
    <3> QED
      BY <2>2, <3>1, <3>2
  <2> QED
    BY <2>1, <2>2
<1>3. Where(w)'
  BY <1>1, <1>2 DEF Where
<1> QED
  BY <1>3

\* No block moves.
LEMMA BlocksStay ==
  ASSUME NEW at, Where(at), NoRepeats, UNCHANGED <<lists, capacity>>,
         \A c \in Blocks :
            /\ \A t \in Threads : Carries(t, c)' <=> Carries(t, c)
            /\ \A h \in Handles : Owns(h, c)' <=> Owns(h, c)
            /\ arena'.storage = c <=> arena.storage = c
  PROVE  OwnInv'
<1>1. Where(at)'
  BY DEF Where, Listed
<1> QED
  BY <1>1 DEF OwnInv, NoRepeats

\* What is left of a list without repeats when one element is taken.
LEMMA RemovedListing ==
  ASSUME NEW S, NEW s \in Seq(S), NEW i \in 1..Len(s),
         \A j, k \in 1..Len(s) : s[j] = s[k] => j = k
  PROVE  /\ \A c : (\E k \in 1..Len(RemoveAt(s, i)) : RemoveAt(s, i)[k] = c)
                    <=> c # s[i] /\ \E k \in 1..Len(s) : s[k] = c
         /\ \A j, k \in 1..Len(RemoveAt(s, i)) :
              RemoveAt(s, i)[j] = RemoveAt(s, i)[k] => j = k
<1> DEFINE r == RemoveAt(s, i)
           from(k) == IF k < i THEN k ELSE k + 1
<1>1. /\ Len(s) \in Nat /\ Len(r) = Len(s) - 1
      /\ \A k \in 1..Len(r) : r[k] = s[from(k)]
  <2>1. /\ Len(s) \in Nat /\ Len(r) = Len(s) - 1
        /\ \A k \in 1..(Len(s) - 1) : r[k] = IF k < i THEN s[k] ELSE s[k + 1]
    BY RemoveAtShifts
  <2> HIDE DEF r
  <2> QED
    BY <2>1
<1>2. \A k \in 1..Len(r) : from(k) \in 1..Len(s) /\ from(k) # i
  BY <1>1
<1>3. \A m \in 1..Len(s) : m # i => \E k \in 1..Len(r) : from(k) = m
  <2> SUFFICES ASSUME NEW m \in 1..Len(s), m # i
               PROVE  \E k \in 1..Len(r) : from(k) = m
    OBVIOUS
  <2>1. CASE m < i
    <3>1. m \in 1..Len(r) /\ from(m) = m
      BY <1>1, <2>1
    <3> QED
      BY <3>1
  <2>2. CASE ~(m < i)
    <3>1. m - 1 \in 1..Len(r) /\ from(m - 1) = m
      BY <1>1, <2>2
    <3> QED
      BY <3>1
  <2> QED
    BY <2>1, <2>2
<1>4. \A j, k \in 1..Len(r) : from(j) = from(k) => j = k
  BY <1>1
<1> HIDE DEF r, from
<1>5. \A j, k \in 1..Len(r) : r[j] = r[k] => j = k
  BY <1>1, <1>2, <1>4
<1>6. \A c : (\E k \in 1..Len(r) : r[k] = c) <=> c # s[i] /\ \E k \in 1..Len(s) : s[k] = c
  <2> SUFFICES ASSUME NEW c
               PROVE  (\E k \in 1..Len(r) : r[k] = c)
                        <=> c # s[i] /\ \E k \in 1..Len(s) : s[k] = c
    OBVIOUS
  <2>1. ASSUME NEW k \in 1..Len(r), r[k] = c
        PROVE  c # s[i] /\ \E m \in 1..Len(s) : s[m] = c
    BY <1>1, <1>2, <2>1
  <2>2. ASSUME NEW m \in 1..Len(s), s[m] = c, c # s[i]
        PROVE  \E k \in 1..Len(r) : r[k] = c
    BY <1>1, <1>3, <2>2
  <2> QED
    BY <2>1, <2>2
<1> QED
  BY <1>5, <1>6 DEF r

\* What is on a list when a block that was not on it is put in front.
LEMMA ConsListing ==
  ASSUME NEW S, NEW s \in Seq(S), NEW b \in S,
         \A j, k \in 1..Len(s) : s[j] = s[k] => j = k,
         ~ \E k \in 1..Len(s) : s[k] = b
  PROVE  /\ \A c : (\E k \in 1..Len(<<b>> \o s) : (<<b>> \o s)[k] = c)
                    <=> c = b \/ \E k \in 1..Len(s) : s[k] = c
         /\ \A j, k \in 1..Len(<<b>> \o s) : (<<b>> \o s)[j] = (<<b>> \o s)[k] => j = k
<1> DEFINE r == <<b>> \o s
<1>1. /\ Len(s) \in Nat /\ Len(r) = Len(s) + 1 /\ r[1] = b
      /\ \A k \in 1..Len(s) : r[k + 1] = s[k]
  BY ConsShifts
<1> HIDE DEF r
<1>2. \A k \in 1..Len(r) : k # 1 => k - 1 \in 1..Len(s) /\ r[k] = s[k - 1]
  BY <1>1
<1>3. \A j, k \in 1..Len(r) : r[j] = r[k] => j = k
  <2> SUFFICES ASSUME NEW j \in 1..Len(r), NEW k \in 1..Len(r), r[j] = r[k]
               PROVE  j = k
    OBVIOUS
  <2>1. CASE j # 1 /\ k # 1
    <3>1. j - 1 = k - 1
      BY <1>2, <2>1
    <3> QED
      BY <3>1
  <2>2. CASE j = 1 \/ k = 1
    BY <1>1, <1>2, <2>2
  <2> QED
    BY <2>1, <2>2
<1>4. \A c : (\E k \in 1..Len(r) : r[k] = c) <=> c = b \/ \E k \in 1..Len(s) : s[k] = c
  <2> SUFFICES ASSUME NEW c
               PROVE  (\E k \in 1..Len(r) : r[k] = c) <=> c = b \/ \E k \in 1..Len(s) : s[k] = c
    OBVIOUS
  <2>1. ASSUME NEW k \in 1..Len(r), r[k] = c
        PROVE  c = b \/ \E m \in 1..Len(s) : s[m] = c
    BY <1>1, <1>2, <2>1
  <2>2. ASSUME NEW m \in 1..Len(s), s[m] = c
        PROVE  \E k \in 1..Len(r) : r[k] = c
    <3>1. m + 1 \in 1..Len(r)
      BY <1>1
    <3> QED
      BY <1>1, <2>2, <3>1
  <2>3. 1 \in 1..Len(r)
    BY <1>1
  <2> QED
    BY <1>1, <2>1, <2>2, <2>3
<1> QED
  BY <1>3, <1>4 DEF r

\* The fields of the records that steps put in place.
LEMMA PushedCarries ==
  ASSUME TypeInv, NEW t \in Threads, NEW b \in Blocks, HandOver(t, b)
  PROVE  \A u \in Threads, c \in Blocks :
           Carries(u, c)' <=> IF u = t THEN c = b ELSE Carries(u, c)
<1> DEFINE x == [at |-> "push", block |-> b, list |-> Tier(capacity[b])]
<1>1. call' = [call EXCEPT ![t] = x] /\ x.at = "push" /\ x.block = b
  BY DEF HandOver
<1> HIDE DEF x
<1> QED
  BY <1>1 DEF Carries, TypeInv

LEMMA OwnStep ==
  TypeInv /\ CallInv /\ CloseInv /\ OwnInv /\ [Next]_vars => OwnInv'
<1> SUFFICES ASSUME TypeInv, CallInv, CloseInv, OwnInv, [Next]_vars PROVE OwnInv'
  OBVIOUS
<1>0. PICK at : Where(at)
  BY DEF OwnInv
<1>a. NoRepeats
  BY DEF OwnInv
<1>b. \A u \in Threads : call[u] \in Calls
  BY DEF TypeInv
\* A call that carries no block, before or after, and nothing else.
<1>c. ASSUME NEW t \in Threads, NEW x, call' = [call EXCEPT ![t] = x],
             x.at \notin {"got", "push"}, call[t].at \notin {"got", "push"},
             UNCHANGED <<lists, capacity>>, arena'.storage = arena.storage,
             \A h \in Handles, c \in Blocks : Owns(h, c)' <=> Owns(h, c)
      PROVE  OwnInv'
  <2>1. \A u \in Threads, c \in Blocks : Carries(u, c)' <=> Carries(u, c)
    BY <1>c DEF Carries, TypeInv
  <2> QED
    BY <1>0, <1>a, <1>c, <2>1, BlocksStay
<1>1. ASSUME NEW t \in Threads, PopBlock(t), UNCHANGED <<handle, arena>>
      PROVE  OwnInv'
  <2>1. call[t] \in PopCalls /\ call[t].at = "pop"
    BY <1>b, <1>1, CallShapes DEF PopBlock
  <2>2. CASE Offers(call[t].list, call[t].size) = {}
    <3>1. [call[t] EXCEPT !.at = "fresh"].at = "fresh"
      BY <2>1 DEF PopCalls
    <3>2. \A h \in Handles, c \in Blocks : Owns(h, c)' <=> Owns(h, c)
      BY <1>1 DEF Owns
    <3>3. /\ call' = [call EXCEPT ![t] = [call[t] EXCEPT !.at = "fresh"]]
          /\ UNCHANGED <<lists, capacity, arena>>
      BY <1>1, <2>2 DEF PopBlock
    <3> QED
      BY <1>c, <2>1, <3>1, <3>2, <3>3
  <2>3. CASE Offers(call[t].list, call[t].size) # {}
    <3>0. PICK l \in Lists : l = call[t].list
      BY <2>1 DEF PopCalls
    <3>1. PICK i \in 1..Len(lists[l]) :
            i = Min(Offers(l, call[t].size)) /\ lists[l][i] \in Blocks
      BY <2>1, <2>3, <3>0, OfferIsListed DEF PopCalls
    <3>2. PICK b \in Blocks : b = lists[l][i]
      BY <3>1
    <3>3. /\ lists' = [lists EXCEPT ![l] = RemoveAt(lists[l], i)]
          /\ call' = [call EXCEPT ![t] = Got(call[t], b)]
          /\ UNCHANGED <<capacity, handle, arena>>
      BY <1>1, <2>3, <3>0, <3>1, <3>2 DEF PopBlock
    <3>4. /\ \A c : (\E k \in 1..Len(RemoveAt(lists[l], i)) : RemoveAt(lists[l], i)[k] = c)
                     <=> c # b /\ \E k \in 1..Len(lists[l]) : lists[l][k] = c
          /\ \A j, k \in 1..Len(RemoveAt(lists[l], i)) :
               RemoveAt(lists[l], i)[j] = RemoveAt(lists[l], i)[k] => j = k
      <4>1. PICK s \in Seq(Blocks) : s = lists[l]
        BY DEF TypeInv
      <4>2. \A j, k \in 1..Len(s) : s[j] = s[k] => j = k
        BY <1>a, <4>1 DEF NoRepeats
      <4>3. /\ \A c : (\E k \in 1..Len(RemoveAt(s, i)) : RemoveAt(s, i)[k] = c)
                       <=> c # s[i] /\ \E k \in 1..Len(s) : s[k] = c
            /\ \A j, k \in 1..Len(RemoveAt(s, i)) : RemoveAt(s, i)[j] = RemoveAt(s, i)[k] => j = k
        <5>1. i \in 1..Len(s)
          BY <4>1
        <5> QED
          BY <4>2, <5>1, RemovedListing
      <4> QED
        BY <3>2, <4>1, <4>3
    <3>5. \A m \in Lists : lists'[m] = IF m = l THEN RemoveAt(lists[l], i) ELSE lists[m]
      BY <3>3 DEF TypeInv
    <3>6. \A m \in Lists, c \in Blocks :
            Listed(m, c)' <=> IF m = l THEN c # b /\ Listed(l, c) ELSE Listed(m, c)
      BY <3>4, <3>5 DEF Listed
    <3>7. \A u \in Threads, c \in Blocks :
            Carries(u, c)' <=> IF u = t THEN c = b ELSE Carries(u, c)
      BY <3>3 DEF Carries, Got, TypeInv
    <3>8. \A c \in Blocks : ~Carries(t, c)
      BY <2>1 DEF Carries
    <3>9. at[b] = <<"list", l>>
      BY <1>0, <3>2 DEF Where, Listed
    <3>10. \E w : Where(w)'
      <4> DEFINE q == <<"call", t>>
      <4>1. q \in Places /\ (\A m \in Lists : q # <<"list", m>>)
            /\ (\A u \in Threads : q = <<"call", u>> <=> u = t)
            /\ (\A h \in Handles : q # <<"tensor", h>>)
            /\ q # <<"arena">> /\ q # <<"nowhere">>
        BY DEF Places
      <4>2. /\ \A m \in Lists : m # l => ~Listed(m, b)
            /\ \A u \in Threads : ~Carries(u, b)
            /\ \A h \in Handles : ~Owns(h, b)
            /\ arena.storage # b /\ capacity[b] # 0
        BY <1>0, <3>9 DEF Where
      <4> HIDE DEF q
      <4>3. \A c \in Blocks, m \in Lists :
              Listed(m, c)' <=> IF c = b THEN q = <<"list", m>> ELSE Listed(m, c)
        BY <3>6, <4>1, <4>2
      <4>4. \A c \in Blocks, u \in Threads :
              Carries(u, c)' <=> IF c = b THEN q = <<"call", u>> ELSE Carries(u, c)
        BY <3>7, <3>8, <4>1, <4>2
      <4>5. \A c \in Blocks, h \in Handles :
              Owns(h, c)' <=> IF c = b THEN q = <<"tensor", h>> ELSE Owns(h, c)
        BY <3>3, <4>1, <4>2 DEF Owns
      <4> QED
        BY <1>0, <3>3, <4>1, <4>2, <4>3, <4>4, <4>5, BlockMoves
    <3>11. NoRepeats'
      BY <1>a, <3>4, <3>5 DEF NoRepeats
    <3> QED
      BY <3>10, <3>11 DEF OwnInv
  <2> QED
    BY <2>2, <2>3
<1>2. ASSUME NEW t \in Threads, FreshBlock(t), UNCHANGED <<handle, arena>>
      PROVE  OwnInv'
  <2>1. call[t] \in PopCalls /\ call[t].at = "fresh"
    BY <1>b, <1>2, CallShapes DEF FreshBlock
  <2>2. PICK b \in Blocks : /\ capacity[b] = 0
                            /\ capacity' = [capacity EXCEPT ![b] = Unit(call[t].list, call[t].size)]
                            /\ call' = [call EXCEPT ![t] = Got(call[t], b)]
                            /\ UNCHANGED <<lists, handle, arena>>
    BY <1>2 DEF FreshBlock
  <2>3. Unit(call[t].list, call[t].size) \in Nat /\ Unit(call[t].list, call[t].size) > 0
    <3>1. call[t].list \in Lists /\ call[t].size \in Nat /\ Suits(call[t].list, call[t].size)
      BY <2>1 DEF PopCalls, CallInv
    <3> QED
      BY <3>1, UnitFits DEF Suits
  <2> DEFINE q == <<"call", t>>
  <2>4. q \in Places /\ (\A m \in Lists : q # <<"list", m>>)
        /\ (\A u \in Threads : q = <<"call", u>> <=> u = t)
        /\ (\A h \in Handles : q # <<"tensor", h>>)
        /\ q # <<"arena">> /\ q # <<"nowhere">>
    BY DEF Places
  <2> HIDE DEF q
  <2>5. at[b] = <<"nowhere">>
    BY <1>0, <2>2 DEF Where
  <2>6. /\ \A m \in Lists : ~Listed(m, b)
        /\ \A u \in Threads : ~Carries(u, b)
        /\ \A h \in Handles : ~Owns(h, b)
        /\ arena.storage # b
    BY <1>0, <2>5 DEF Where
  <2>7. \A c \in Blocks, m \in Lists :
          Listed(m, c)' <=> IF c = b THEN q = <<"list", m>> ELSE Listed(m, c)
    BY <2>2, <2>4, <2>6 DEF Listed
  <2>8. \A c \in Blocks, u \in Threads :
          Carries(u, c)' <=> IF c = b THEN q = <<"call", u>> ELSE Carries(u, c)
    <3>1. \A u \in Threads, c \in Blocks :
            Carries(u, c)' <=> IF u = t THEN c = b ELSE Carries(u, c)
      BY <2>2 DEF Carries, Got, TypeInv
    <3>2. \A c \in Blocks : ~Carries(t, c)
      BY <2>1 DEF Carries
    <3> QED
      BY <2>4, <2>6, <3>1, <3>2
  <2>9. \A c \in Blocks, h \in Handles :
          Owns(h, c)' <=> IF c = b THEN q = <<"tensor", h>> ELSE Owns(h, c)
    BY <2>2, <2>4, <2>6 DEF Owns
  <2>10. \A c \in Blocks : capacity'[c] = 0 <=> IF c = b THEN q = <<"nowhere">> ELSE capacity[c] = 0
    BY <2>2, <2>3, <2>4 DEF TypeInv
  <2>11. \A c \in Blocks : arena'.storage = c <=> IF c = b THEN q = <<"arena">> ELSE arena.storage = c
    BY <2>2, <2>4, <2>6
  <2>12. \E w : Where(w)'
    BY <1>0, <2>4, <2>7, <2>8, <2>9, <2>10, <2>11, BlockMoves
  <2> QED
    BY <1>a, <2>2, <2>12 DEF OwnInv, NoRepeats
<1>3. ASSUME NEW t \in Threads, MapFails(t), UNCHANGED <<handle, arena>>
      PROVE  OwnInv'
  <2>1. \A h \in Handles, c \in Blocks : Owns(h, c)' <=> Owns(h, c)
    BY <1>3 DEF Owns
  <2> QED
    BY <1>c, <1>3, <2>1 DEF MapFails, Idle
<1>4. ASSUME NEW t \in Threads, PushBlock(t), UNCHANGED <<handle, arena>>
      PROVE  OwnInv'
  <2>1. PICK b \in Blocks, l \in Lists : b = call[t].block /\ l = call[t].list
    BY <1>b, <1>4, CallShapes DEF PushBlock, PushCalls
  <2>2. /\ lists' = [lists EXCEPT ![l] = <<b>> \o lists[l]]
        /\ call' = [call EXCEPT ![t] = Idle]
        /\ UNCHANGED <<capacity, handle, arena>>
    BY <1>4, <2>1 DEF PushBlock
  <2>3. \A c \in Blocks : Carries(t, c) <=> c = b
    BY <1>4, <2>1 DEF PushBlock, Carries
  <2>4. at[b] = <<"call", t>>
    BY <1>0, <2>3 DEF Where
  <2> DEFINE q == <<"list", l>>
  <2>5. q \in Places /\ (\A m \in Lists : q = <<"list", m>> <=> m = l)
        /\ (\A u \in Threads : q # <<"call", u>>)
        /\ (\A h \in Handles : q # <<"tensor", h>>)
        /\ q # <<"arena">> /\ q # <<"nowhere">>
    BY DEF Places
  <2> HIDE DEF q
  <2>6. /\ \A m \in Lists : ~Listed(m, b)
        /\ \A u \in Threads : u # t => ~Carries(u, b)
        /\ \A h \in Handles : ~Owns(h, b)
        /\ arena.storage # b /\ capacity[b] # 0
    BY <1>0, <2>4 DEF Where
  <2>7. /\ \A c : (\E k \in 1..Len(<<b>> \o lists[l]) : (<<b>> \o lists[l])[k] = c)
                   <=> c = b \/ \E k \in 1..Len(lists[l]) : lists[l][k] = c
        /\ \A j, k \in 1..Len(<<b>> \o lists[l]) :
             (<<b>> \o lists[l])[j] = (<<b>> \o lists[l])[k] => j = k
    <3>1. PICK s \in Seq(Blocks) : s = lists[l]
      BY DEF TypeInv
    <3>2. /\ \A j, k \in 1..Len(s) : s[j] = s[k] => j = k
          /\ ~ \E k \in 1..Len(s) : s[k] = b
      BY <1>a, <2>6, <3>1 DEF NoRepeats, Listed
    <3>3. /\ \A c : (\E k \in 1..Len(<<b>> \o s) : (<<b>> \o s)[k] = c)
                     <=> c = b \/ \E k \in 1..Len(s) : s[k] = c
          /\ \A j, k \in 1..Len(<<b>> \o s) : (<<b>> \o s)[j] = (<<b>> \o s)[k] => j = k
      BY <3>2, ConsListing
    <3> QED
      BY <3>1, <3>3
  <2>8. \A m \in Lists : lists'[m] = IF m = l THEN <<b>> \o lists[l] ELSE lists[m]
    BY <2>2 DEF TypeInv
  <2>9. \A c \in Blocks, m \in Lists :
          Listed(m, c)' <=> IF c = b THEN q = <<"list", m>> ELSE Listed(m, c)
    <3>1. \A m \in Lists, c \in Blocks :
            Listed(m, c)' <=> (m = l /\ c = b) \/ Listed(m, c)
      BY <2>7, <2>8 DEF Listed
    <3> QED
      BY <2>5, <2>6, <3>1
  <2>10. \A c \in Blocks, u \in Threads :
           Carries(u, c)' <=> IF c = b THEN q = <<"call", u>> ELSE Carries(u, c)
    <3>1. \A u \in Threads, c \in Blocks : Carries(u, c)' <=> u # t /\ Carries(u, c)
      BY <2>2 DEF Carries, Idle, TypeInv
    <3> QED
      BY <2>3, <2>5, <2>6, <3>1
  <2>11. \A c \in Blocks, h \in Handles :
           Owns(h, c)' <=> IF c = b THEN q = <<"tensor", h>> ELSE Owns(h, c)
    BY <2>2, <2>5, <2>6 DEF Owns
  <2>12. \E w : Where(w)'
    BY <1>0, <2>2, <2>5, <2>6, <2>9, <2>10, <2>11, BlockMoves
  <2>13. NoRepeats'
    BY <1>a, <2>7, <2>8 DEF NoRepeats
  <2> QED
    BY <2>12, <2>13 DEF OwnInv
<1>5. ASSUME NEW t \in Threads, BeginUpload(t) \/ BeginArena(t)
      PROVE  OwnInv'
  <2>1. PICK n, p : BeginAllocate(t, n, p) /\ UNCHANGED handle /\ arena'.storage = arena.storage
    BY <1>5 DEF BeginUpload, BeginArena, TypeInv
  <2> DEFINE x == [at |-> "pop", for |-> p, size |-> n, list |-> Tier(n)]
  <2>2. call' = [call EXCEPT ![t] = x] /\ x.at = "pop" /\ UNCHANGED <<lists, capacity>>
    BY <2>1 DEF BeginAllocate
  <2>3. call[t].at = "idle"
    BY <2>1 DEF BeginAllocate, Idle
  <2>4. \A h \in Handles, c \in Blocks : Owns(h, c)' <=> Owns(h, c)
    BY <2>1 DEF Owns
  <2> HIDE DEF x
  <2> QED
    BY <1>c, <2>1, <2>2, <2>3, <2>4
<1>6. ASSUME NEW t \in Threads, FinishUpload(t)
      PROVE  OwnInv'
  <2>1. PICK b \in Blocks : b = call[t].block
    BY <1>b, <1>6, CallShapes DEF FinishUpload, GotCalls
  <2> DEFINE x == NewTensor("root", Region(b, 0, call[t].size), 0, TRUE)
  <2>2. PICK h \in Handles : handle[h] = Unused /\ handle' = [handle EXCEPT ![h] = x]
    BY <1>6, <2>1 DEF FinishUpload, MakeHandle
  <2>3. x # Unused /\ x.kind = "root" /\ x.bytes # NoBytes /\ x.bytes.block = b
    <3>1. call[t].size \in Nat
      BY <1>b, <1>6, CallShapes DEF FinishUpload, GotCalls
    <3> QED
      BY <3>1, TensorAssumption DEF NewTensor, Region, Unused
  <2> HIDE DEF x
  <2>4. call' = [call EXCEPT ![t] = Idle] /\ UNCHANGED <<lists, capacity, arena>>
    BY <1>6 DEF FinishUpload
  <2>5. \A c \in Blocks : Carries(t, c) <=> c = b
    BY <1>6, <2>1 DEF FinishUpload, Carries
  <2>6. at[b] = <<"call", t>>
    BY <1>0, <2>5 DEF Where
  <2> DEFINE q == <<"tensor", h>>
  <2>7. q \in Places /\ (\A m \in Lists : q # <<"list", m>>)
        /\ (\A u \in Threads : q # <<"call", u>>)
        /\ (\A g \in Handles : q = <<"tensor", g>> <=> g = h)
        /\ q # <<"arena">> /\ q # <<"nowhere">>
    BY DEF Places
  <2> HIDE DEF q
  <2>8. /\ \A m \in Lists : ~Listed(m, b)
        /\ \A u \in Threads : u # t => ~Carries(u, b)
        /\ \A g \in Handles : ~Owns(g, b)
        /\ arena.storage # b /\ capacity[b] # 0
    BY <1>0, <2>6 DEF Where
  <2>9. \A c \in Blocks, m \in Lists :
          Listed(m, c)' <=> IF c = b THEN q = <<"list", m>> ELSE Listed(m, c)
    BY <2>4, <2>7, <2>8 DEF Listed
  <2>10. \A c \in Blocks, u \in Threads :
           Carries(u, c)' <=> IF c = b THEN q = <<"call", u>> ELSE Carries(u, c)
    <3>1. \A u \in Threads, c \in Blocks : Carries(u, c)' <=> u # t /\ Carries(u, c)
      BY <2>4 DEF Carries, Idle, TypeInv
    <3> QED
      BY <2>5, <2>7, <2>8, <3>1
  <2>11. \A c \in Blocks, g \in Handles :
           Owns(g, c)' <=> IF c = b THEN q = <<"tensor", g>> ELSE Owns(g, c)
    <3>1. \A g \in Handles, c \in Blocks : Owns(g, c)' <=> IF g = h THEN c = b ELSE Owns(g, c)
      BY <2>2, <2>3 DEF Owns, TypeInv
    <3>2. \A c \in Blocks : ~Owns(h, c)
      BY <2>2 DEF Owns
    <3> QED
      BY <2>7, <2>8, <3>1, <3>2
  <2>12. \E w : Where(w)'
    BY <1>0, <2>4, <2>7, <2>8, <2>9, <2>10, <2>11, BlockMoves
  <2> QED
    BY <1>a, <2>4, <2>12 DEF OwnInv, NoRepeats
<1>7. ASSUME NEW t \in Threads, NEW h \in Handles, Derive(t, h)
      PROVE  OwnInv'
  <2>1. UNCHANGED <<lists, capacity, call, arena>>
    BY <1>7 DEF Derive, allocatorVars
  <2> DEFINE x(to) == NewTensor("derived", Region(handle[h].bytes.block, handle[h].bytes.from, to), 0, TRUE)
  <2>2. PICK to \in (handle[h].bytes.from + 1)..handle[h].bytes.to, g \in Handles :
          handle[g] = Unused /\ handle' = [handle EXCEPT ![g] = x(to)]
    BY <1>7 DEF Derive, MakeHandle
  <2>3. x(to).kind = "derived"
    BY DEF NewTensor
  <2> HIDE DEF x
  <2>4. \A k \in Handles, c \in Blocks : Owns(k, c)' <=> Owns(k, c)
    BY <2>2, <2>3 DEF Owns, TypeInv
  <2>5. \A u \in Threads, c \in Blocks : Carries(u, c)' <=> Carries(u, c)
    BY <2>1 DEF Carries
  <2> QED
    BY <1>0, <1>a, <2>1, <2>4, <2>5, BlocksStay
<1>8. ASSUME NEW t \in Threads, NEW h \in Handles, BeginClose(t, h)
      PROVE  OwnInv'
  <2> DEFINE x == [at |-> "close", handle |-> h, bytes |-> handle[h].bytes]
             y == [handle[h] EXCEPT !.closed = TRUE]
  <2>1. /\ call' = [call EXCEPT ![t] = x] /\ x.at = "close" /\ call[t].at = "idle"
        /\ handle' = [handle EXCEPT ![h] = y]
        /\ UNCHANGED <<lists, capacity, arena>>
    BY <1>8 DEF BeginClose, Idle
  <2>2. handle[h] # Unused /\ y # Unused /\ y.kind = handle[h].kind /\ y.bytes = handle[h].bytes
    BY <1>8 DEF BeginClose, Tensors, Unused, TypeInv
  <2> HIDE DEF x, y
  <2>3. \A k \in Handles, c \in Blocks : Owns(k, c)' <=> Owns(k, c)
    BY <2>1, <2>2 DEF Owns, TypeInv
  <2> QED
    BY <1>c, <2>1, <2>3
<1>9. ASSUME NEW t \in Threads, FinishClose(t)
      PROVE  OwnInv'
  <2>1. PICK h \in Handles : h = call[t].handle
    BY <1>b, <1>9, CallShapes DEF FinishClose, CloseCalls
  <2>2. /\ call[t].at = "close" /\ handle[h] \in Tensors /\ handle[h] # Unused
        /\ call[t].bytes = handle[h].bytes /\ handle[h].bytes \in Regions
    BY <1>9, <2>1 DEF FinishClose, CloseInv, TypeInv, Tensors
  <2> DEFINE y == [handle[h] EXCEPT !.closed = TRUE, !.ready = FALSE, !.bytes = NoBytes]
  <2>3. handle' = [handle EXCEPT ![h] = y] /\ UNCHANGED <<lists, capacity, arena>>
    BY <1>9, <2>1 DEF FinishClose, Shut, HandOver
  <2>4. y.bytes = NoBytes
    BY <2>2 DEF Tensors
  <2> HIDE DEF y
  <2>5. \A k \in Handles, c \in Blocks : Owns(k, c)' <=> k # h /\ Owns(k, c)
    BY <2>3, <2>4 DEF Owns, TypeInv
  <2>6. CASE handle[h].kind # "root"
    <3>1. call' = [call EXCEPT ![t] = Idle]
      BY <1>9, <2>1, <2>6 DEF FinishClose
    <3>2. \A k \in Handles, c \in Blocks : Owns(k, c)' <=> Owns(k, c)
      BY <2>5, <2>6 DEF Owns
    <3> QED
      BY <1>c, <2>2, <2>3, <3>1, <3>2 DEF Idle
  <2>7. CASE handle[h].kind = "root"
    <3>1. PICK b \in Blocks : b = handle[h].bytes.block
      BY <2>2 DEF Regions
    <3>2. handle[h].bytes # NoBytes
      BY <2>2, TensorAssumption DEF Regions
    <3>3. HandOver(t, b)
      BY <1>9, <2>1, <2>2, <2>7, <3>1, <3>2 DEF FinishClose
    <3>4. \A c \in Blocks : Owns(h, c) <=> c = b
      BY <2>2, <2>7, <3>1, <3>2 DEF Owns
    <3>5. at[b] = <<"tensor", h>>
      BY <1>0, <3>4 DEF Where
    <3> DEFINE q == <<"call", t>>
    <3>6. q \in Places /\ (\A m \in Lists : q # <<"list", m>>)
          /\ (\A u \in Threads : q = <<"call", u>> <=> u = t)
          /\ (\A k \in Handles : q # <<"tensor", k>>)
          /\ q # <<"arena">> /\ q # <<"nowhere">>
      BY DEF Places
    <3> HIDE DEF q
    <3>7. /\ \A m \in Lists : ~Listed(m, b)
          /\ \A u \in Threads : ~Carries(u, b)
          /\ \A k \in Handles : k # h => ~Owns(k, b)
          /\ arena.storage # b /\ capacity[b] # 0
      BY <1>0, <3>5 DEF Where
    <3>8. \A c \in Blocks, m \in Lists :
            Listed(m, c)' <=> IF c = b THEN q = <<"list", m>> ELSE Listed(m, c)
      BY <2>3, <3>6, <3>7 DEF Listed
    <3>9. \A c \in Blocks, u \in Threads :
            Carries(u, c)' <=> IF c = b THEN q = <<"call", u>> ELSE Carries(u, c)
      <4>1. \A c \in Blocks : ~Carries(t, c)
        BY <2>2 DEF Carries
      <4>2. \A u \in Threads, c \in Blocks :
              Carries(u, c)' <=> IF u = t THEN c = b ELSE Carries(u, c)
        BY <3>3, PushedCarries
      <4> QED
        BY <3>6, <3>7, <4>1, <4>2
    <3>10. \A c \in Blocks, k \in Handles :
             Owns(k, c)' <=> IF c = b THEN q = <<"tensor", k>> ELSE Owns(k, c)
      BY <2>5, <3>4, <3>6, <3>7
    <3>11. \E w : Where(w)'
      BY <1>0, <2>3, <3>6, <3>7, <3>8, <3>9, <3>10, BlockMoves
    <3> QED
      BY <1>a, <2>3, <3>11 DEF OwnInv, NoRepeats
  <2> QED
    BY <2>6, <2>7
<1>10. ASSUME NEW t \in Threads, FinishArena(t)
       PROVE  OwnInv'
  <2>1. PICK b \in Blocks : b = call[t].block
    BY <1>b, <1>10, CallShapes DEF FinishArena, GotCalls
  <2>2. arena.storage = NoBlock
    BY <1>10 DEF FinishArena, CallInv, ForArena
  <2>3. /\ arena'.storage = b /\ call' = [call EXCEPT ![t] = Idle]
        /\ UNCHANGED <<lists, capacity, handle>>
    BY <1>10, <2>1 DEF FinishArena, TypeInv
  <2>4. \A c \in Blocks : Carries(t, c) <=> c = b
    BY <1>10, <2>1 DEF FinishArena, Carries
  <2>5. at[b] = <<"call", t>>
    BY <1>0, <2>4 DEF Where
  <2> DEFINE q == <<"arena">>
  <2>6. q \in Places /\ (\A m \in Lists : q # <<"list", m>>)
        /\ (\A u \in Threads : q # <<"call", u>>)
        /\ (\A h \in Handles : q # <<"tensor", h>>)
        /\ q = <<"arena">> /\ q # <<"nowhere">>
    BY DEF Places
  <2> HIDE DEF q
  <2>7. /\ \A m \in Lists : ~Listed(m, b)
        /\ \A u \in Threads : u # t => ~Carries(u, b)
        /\ \A h \in Handles : ~Owns(h, b)
        /\ capacity[b] # 0
    BY <1>0, <2>5 DEF Where
  <2>8. \A c \in Blocks, m \in Lists :
          Listed(m, c)' <=> IF c = b THEN q = <<"list", m>> ELSE Listed(m, c)
    BY <2>3, <2>6, <2>7 DEF Listed
  <2>9. \A c \in Blocks, u \in Threads :
          Carries(u, c)' <=> IF c = b THEN q = <<"call", u>> ELSE Carries(u, c)
    <3>1. \A u \in Threads, c \in Blocks : Carries(u, c)' <=> u # t /\ Carries(u, c)
      BY <2>3 DEF Carries, Idle, TypeInv
    <3> QED
      BY <2>4, <2>6, <2>7, <3>1
  <2>10. \A c \in Blocks, h \in Handles :
           Owns(h, c)' <=> IF c = b THEN q = <<"tensor", h>> ELSE Owns(h, c)
    BY <2>3, <2>6, <2>7 DEF Owns
  <2>11. \A c \in Blocks : arena'.storage = c <=> IF c = b THEN q = <<"arena">> ELSE arena.storage = c
    BY <2>2, <2>3, <2>6, AllocatorAssumption
  <2>12. \E w : Where(w)'
    BY <1>0, <2>3, <2>6, <2>7, <2>8, <2>9, <2>10, <2>11, BlockMoves
  <2> QED
    BY <1>a, <2>3, <2>12 DEF OwnInv, NoRepeats
<1>11. ASSUME NEW t \in Threads, NEW n \in ArenaUses, ArenaAllocate(t, n)
       PROVE  OwnInv'
  <2> DEFINE x == [at |-> "view", alone |-> ~Resetting,
             bytes |-> Region(arena.storage, Aligned, Aligned + n)]
  <2>1. /\ call' = [call EXCEPT ![t] = x] /\ x.at = "view" /\ call[t].at = "idle"
        /\ UNCHANGED <<lists, capacity, handle>> /\ arena'.storage = arena.storage
    BY <1>11 DEF ArenaAllocate, Idle, TypeInv
  <2> HIDE DEF x
  <2>2. \A h \in Handles, c \in Blocks : Owns(h, c)' <=> Owns(h, c)
    BY <2>1 DEF Owns
  <2> QED
    BY <1>c, <2>1, <2>2
<1>12. ASSUME NEW t \in Threads, ArenaTensor(t)
       PROVE  OwnInv'
  <2> DEFINE x == NewTensor("arena", call[t].bytes, arena.epoch, call[t].alone)
  <2>1. PICK h \in Handles : handle[h] = Unused /\ handle' = [handle EXCEPT ![h] = x]
    BY <1>12 DEF ArenaTensor, MakeHandle
  <2>2. x.kind = "arena"
    BY DEF NewTensor
  <2> HIDE DEF x
  <2>3. \A k \in Handles, c \in Blocks : Owns(k, c)' <=> Owns(k, c)
    BY <2>1, <2>2 DEF Owns, TypeInv
  <2> QED
    BY <1>c, <1>12, <2>3 DEF ArenaTensor, Idle
<1>13. ASSUME NEW t \in Threads, BeginReset(t) \/ FinishReset(t)
       PROVE  OwnInv'
  <2>1. UNCHANGED <<lists, capacity, handle>> /\ arena'.storage = arena.storage
    BY <1>13 DEF BeginReset, FinishReset, TypeInv
  <2>2. \A h \in Handles, c \in Blocks : Owns(h, c)' <=> Owns(h, c)
    BY <2>1 DEF Owns
  <2>3. CASE BeginReset(t)
    <3>1. \A u \in Threads, c \in Blocks : Carries(u, c)' <=> Carries(u, c)
      BY <2>3, ResetMarks DEF Carries
    <3> QED
      BY <1>0, <1>a, <2>1, <2>2, <3>1, BlocksStay
  <2>4. CASE FinishReset(t)
    BY <1>c, <2>1, <2>2, <2>4 DEF FinishReset, Idle
  <2> QED
    BY <1>13, <2>3, <2>4
<1>14. ASSUME NEW t \in Threads, CloseArena(t)
       PROVE  OwnInv'
  <2>1. PICK b \in Blocks : b = arena.storage
    BY <1>14 DEF CloseArena, TypeInv
  <2>2. /\ HandOver(t, b) /\ arena'.storage = NoBlock /\ call[t].at = "idle"
        /\ UNCHANGED <<lists, capacity, handle>>
    BY <1>14, <2>1 DEF CloseArena, HandOver, Idle, TypeInv
  <2>3. at[b] = <<"arena">>
    BY <1>0, <2>1 DEF Where
  <2> DEFINE q == <<"call", t>>
  <2>4. q \in Places /\ (\A m \in Lists : q # <<"list", m>>)
        /\ (\A u \in Threads : q = <<"call", u>> <=> u = t)
        /\ (\A h \in Handles : q # <<"tensor", h>>)
        /\ q # <<"arena">> /\ q # <<"nowhere">>
    BY DEF Places
  <2> HIDE DEF q
  <2>5. /\ \A m \in Lists : ~Listed(m, b)
        /\ \A u \in Threads : ~Carries(u, b)
        /\ \A h \in Handles : ~Owns(h, b)
        /\ capacity[b] # 0
    BY <1>0, <2>3 DEF Where
  <2>6. \A c \in Blocks, m \in Lists :
          Listed(m, c)' <=> IF c = b THEN q = <<"list", m>> ELSE Listed(m, c)
    BY <2>2, <2>4, <2>5 DEF Listed
  <2>7. \A c \in Blocks, u \in Threads :
          Carries(u, c)' <=> IF c = b THEN q = <<"call", u>> ELSE Carries(u, c)
    <3>1. \A c \in Blocks : ~Carries(t, c)
      BY <2>2 DEF Carries
    <3>2. \A u \in Threads, c \in Blocks :
            Carries(u, c)' <=> IF u = t THEN c = b ELSE Carries(u, c)
      BY <2>2, PushedCarries
    <3> QED
      BY <2>4, <2>5, <3>1, <3>2
  <2>8. \A c \in Blocks, h \in Handles :
          Owns(h, c)' <=> IF c = b THEN q = <<"tensor", h>> ELSE Owns(h, c)
    BY <2>2, <2>4, <2>5 DEF Owns
  <2>9. \A c \in Blocks : arena'.storage = c <=> IF c = b THEN q = <<"arena">> ELSE arena.storage = c
    BY <2>1, <2>2, <2>4, AllocatorAssumption
  <2>10. \E w : Where(w)'
    BY <1>0, <2>2, <2>4, <2>5, <2>6, <2>7, <2>8, <2>9, BlockMoves
  <2> QED
    BY <1>a, <2>2, <2>10 DEF OwnInv, NoRepeats
<1>15. CASE UNCHANGED vars
  <2>1. \A u \in Threads, c \in Blocks : Carries(u, c)' <=> Carries(u, c)
    BY <1>15 DEF vars, allocatorVars, Carries
  <2>2. \A h \in Handles, c \in Blocks : Owns(h, c)' <=> Owns(h, c)
    BY <1>15 DEF vars, Owns
  <2>3. UNCHANGED <<lists, capacity, arena>>
    BY <1>15 DEF vars, allocatorVars
  <2> QED
    BY <1>0, <1>a, <2>1, <2>2, <2>3, BlocksStay
<1> QED
  BY <1>1, <1>2, <1>3, <1>4, <1>5, <1>6, <1>7, <1>8, <1>9, <1>10, <1>11, <1>12, <1>13,
     <1>14, <1>15 DEF Next, AllocatorStep

\* A place is one holder, and nowhere none.
LEMMA PlaceIsHolder ==
  ASSUME TypeInv, OwnInv, NEW b \in Blocks, capacity[b] > 0
  PROVE  \E p : Holders(b) = {p}
<1>1. PICK at : Where(at)
  BY DEF OwnInv
<1>2. NoRepeats /\ \A l \in Lists : DOMAIN lists[l] = 1..Len(lists[l])
  BY DEF OwnInv, TypeInv
<1>3. \A p : p \in Holders(b) <=>
        \/ \E l \in Lists : \E i \in 1..Len(lists[l]) : lists[l][i] = b /\ p = <<"list", l, i>>
        \/ \E t \in Threads : Carries(t, b) /\ p = <<"call", t>>
        \/ \E h \in Handles : Owns(h, b) /\ p = <<"tensor", h>>
        \/ arena.storage = b /\ p = <<"arena">>
  <2> DEFINE L == UNION {{<<"list", l, i>> : i \in {k \in DOMAIN lists[l] : lists[l][k] = b}} :
                        l \in Lists}
             C == {<<"call", t>> : t \in {u \in Threads : Carries(u, b)}}
             T == {<<"tensor", h>> : h \in {g \in Handles : Owns(g, b)}}
             A == {a \in {<<"arena">>} : arena.storage = b}
  <2>1. Holders(b) = L \cup C \cup T \cup A
    BY DEF Holders
  <2>2. \A p : p \in L <=> \E l \in Lists : \E i \in 1..Len(lists[l]) :
                              lists[l][i] = b /\ p = <<"list", l, i>>
    <3>1. \A l \in Lists : \A p : p \in {<<"list", l, i>> : i \in {k \in DOMAIN lists[l] : lists[l][k] = b}}
                           <=> \E i \in 1..Len(lists[l]) : lists[l][i] = b /\ p = <<"list", l, i>>
      BY <1>2
    <3> QED
      BY <3>1
  <2>3. \A p : p \in C <=> \E t \in Threads : Carries(t, b) /\ p = <<"call", t>>
    OBVIOUS
  <2>4. \A p : p \in T <=> \E h \in Handles : Owns(h, b) /\ p = <<"tensor", h>>
    OBVIOUS
  <2>5. \A p : p \in A <=> arena.storage = b /\ p = <<"arena">>
    OBVIOUS
  <2> HIDE DEF L, C, T, A
  <2> QED
    BY <2>1, <2>2, <2>3, <2>4, <2>5
<1>4. at[b] \in Places /\ at[b] # <<"nowhere">>
  <2>1. capacity[b] # 0
    BY DEF TypeInv
  <2> QED
    BY <1>1, <2>1 DEF Where
<1>5. ASSUME NEW l \in Lists, at[b] = <<"list", l>>
      PROVE  \E p : Holders(b) = {p}
  <2>1. PICK i \in 1..Len(lists[l]) : lists[l][i] = b
    BY <1>1, <1>5 DEF Where, Listed
  <2>2. \A m \in Lists : \A j \in 1..Len(lists[m]) : lists[m][j] = b => m = l /\ j = i
    BY <1>1, <1>2, <1>5, <2>1 DEF Where, Listed, NoRepeats
  <2>3. \A p : p \in Holders(b) <=> p = <<"list", l, i>>
    BY <1>1, <1>3, <1>5, <2>1, <2>2 DEF Where
  <2>4. Holders(b) = {<<"list", l, i>>}
    BY <2>3
  <2> QED
    BY <2>4
<1>6. ASSUME NEW t \in Threads, at[b] = <<"call", t>>
      PROVE  \E p : Holders(b) = {p}
  <2>1. \A p : p \in Holders(b) <=> p = <<"call", t>>
    BY <1>1, <1>3, <1>6 DEF Where, Listed
  <2>2. Holders(b) = {<<"call", t>>}
    BY <2>1
  <2> QED
    BY <2>2
<1>7. ASSUME NEW h \in Handles, at[b] = <<"tensor", h>>
      PROVE  \E p : Holders(b) = {p}
  <2>1. \A p : p \in Holders(b) <=> p = <<"tensor", h>>
    BY <1>1, <1>3, <1>7 DEF Where, Listed
  <2>2. Holders(b) = {<<"tensor", h>>}
    BY <2>1
  <2> QED
    BY <2>2
<1>8. CASE at[b] = <<"arena">>
  <2>1. \A p : p \in Holders(b) <=> p = <<"arena">>
    BY <1>1, <1>3, <1>8 DEF Where, Listed
  <2>2. Holders(b) = {<<"arena">>}
    BY <2>1
  <2> QED
    BY <2>2
<1>9. \/ \E l \in Lists : at[b] = <<"list", l>>
      \/ \E t \in Threads : at[b] = <<"call", t>>
      \/ \E h \in Handles : at[b] = <<"tensor", h>>
      \/ at[b] = <<"arena">>
  BY <1>4 DEF Places
<1> QED
  BY <1>5, <1>6, <1>7, <1>8, <1>9

\* Every block that was acquired has exactly one holder, in every state of every
\* run: what Allocate and Release promise their callers.
THEOREM StorageHasOneHolder == Spec => []EveryBlockHasOneHolder
<1> DEFINE IInv == TypeInv /\ CallInv /\ CloseInv /\ OwnInv
<1>1. Init => IInv
  BY TypeInit, CallInit, OwnInit
<1>2. IInv /\ [Next]_vars => IInv'
  BY TypeStep, CallStep, CloseStep, OwnStep
<1>3. IInv => EveryBlockHasOneHolder
  BY PlaceIsHolder, FS_Singleton DEF EveryBlockHasOneHolder
<1> QED
  BY <1>1, <1>2, <1>3, PTL DEF Spec

-----------------------------------------------------------------------------
(* Capacities.                                                             *)

\* A capacity below the large tier is a class, and a block is filed, or on its
\* way to be filed, under its class.
FitInv ==
  /\ \A b \in Blocks : capacity[b] < MediumMax => capacity[b] = 0 \/ capacity[b] \in Classes
  /\ \A t \in Threads : call[t].at = "push" /\ call[t].list # LargeList
                           => capacity[call[t].block] = call[t].list[2]
  /\ \A t \in Threads : call[t].at = "got" => call[t].size <= capacity[call[t].block]
  /\ \A l \in Lists \ {LargeList}, b \in Blocks : Listed(l, b) => capacity[b] = l[2]

LEMMA FitInit == Init => FitInv
<1> SUFFICES ASSUME Init PROVE FitInv
  OBVIOUS
<1>1. \A l \in Lists : Len(lists[l]) = 0
  BY DEF Init, AllocatorInit
<1> QED
  BY <1>1 DEF Init, AllocatorInit, FitInv, Listed, Idle

\* Release files a block under its class.
LEMMA HandOverFits ==
  ASSUME TypeInv, FitInv, NEW t \in Threads, NEW b \in Blocks, capacity[b] # 0, HandOver(t, b)
  PROVE  FitInv'
<1> DEFINE x == [at |-> "push", block |-> b, list |-> Tier(capacity[b])]
<1>1. /\ call' = [call EXCEPT ![t] = x] /\ UNCHANGED <<lists, capacity>>
      /\ x.at = "push" /\ x.block = b /\ x.list = Tier(capacity[b])
  BY DEF HandOver
<1>2. x.list # LargeList => x.list[2] = capacity[b]
  <2> SUFFICES ASSUME x.list # LargeList PROVE x.list[2] = capacity[b]
    OBVIOUS
  <2>1. capacity[b] \in Nat /\ ticket \in Nat
    BY DEF TypeInv
  <2>2. capacity[b] < MediumMax
    <3>1. SlabMax \in Nat /\ MediumMax \in Nat /\ SlabMax < MediumMax
      BY AllocatorAssumption
    <3>2. ~(capacity[b] < SlabMax) /\ ~(capacity[b] < MediumMax) => Tier(capacity[b]) = LargeList
      BY DEF Tier
    <3>3. Tier(capacity[b]) # LargeList
      BY <1>1
    <3> HIDE DEF x
    <3> QED
      BY <2>1, <3>1, <3>2, <3>3
  <2>3. capacity[b] \in Classes
    BY <2>2 DEF FitInv
  <2> QED
    BY <1>1, <2>1, <2>3, TierFits
<1> HIDE DEF x
<1>3. \A u \in Threads : call'[u] = IF u = t THEN x ELSE call[u]
  BY <1>1 DEF TypeInv
<1>4. \A l \in Lists, c \in Blocks : Listed(l, c)' <=> Listed(l, c)
  BY <1>1 DEF Listed
<1> QED
  BY <1>1, <1>2, <1>3, <1>4 DEF FitInv

LEMMA FitStep ==
  TypeInv /\ CallInv /\ CloseInv /\ OwnInv /\ FitInv /\ [Next]_vars => FitInv'
<1> SUFFICES ASSUME TypeInv, CallInv, CloseInv, OwnInv, FitInv, [Next]_vars PROVE FitInv'
  OBVIOUS
<1>0. PICK at : Where(at)
  BY DEF OwnInv
<1>a. \A u \in Threads : call[u] \in Calls
  BY DEF TypeInv
\* A call that neither got a block nor hands one back.
<1>b. ASSUME NEW t \in Threads, NEW x, call' = [call EXCEPT ![t] = x],
             x.at \notin {"got", "push"}, UNCHANGED <<lists, capacity>>
      PROVE  FitInv'
  <2>1. \A u \in Threads : call'[u] = IF u = t THEN x ELSE call[u]
    BY <1>b DEF TypeInv
  <2>2. \A l \in Lists, c \in Blocks : Listed(l, c)' <=> Listed(l, c)
    BY <1>b DEF Listed
  <2> QED
    BY <1>b, <2>1, <2>2 DEF FitInv
<1>1. ASSUME NEW t \in Threads, PopBlock(t)
      PROVE  FitInv'
  <2>1. call[t] \in PopCalls /\ call[t].at = "pop"
    BY <1>a, <1>1, CallShapes DEF PopBlock
  <2>2. CASE Offers(call[t].list, call[t].size) = {}
    <3>1. [call[t] EXCEPT !.at = "fresh"].at = "fresh"
      BY <2>1 DEF PopCalls
    <3> QED
      BY <1>1, <1>b, <2>2, <3>1 DEF PopBlock
  <2>3. CASE Offers(call[t].list, call[t].size) # {}
    <3>1. PICK l \in Lists, n \in Nat : l = call[t].list /\ n = call[t].size
      BY <2>1 DEF PopCalls
    <3>2. PICK i \in 1..Len(lists[l]) :
            /\ i = Min(Offers(l, n)) /\ lists[l][i] \in Blocks
            /\ l = LargeList => capacity[lists[l][i]] >= n
      BY <2>3, <3>1, OfferIsListed
    <3>3. PICK b \in Blocks : b = lists[l][i]
      BY <3>2
    <3> DEFINE x == Got(call[t], b)
    <3>4. /\ lists' = [lists EXCEPT ![l] = RemoveAt(lists[l], i)]
          /\ call' = [call EXCEPT ![t] = x] /\ x.at = "got" /\ x.size = n /\ x.block = b
          /\ UNCHANGED capacity
      BY <1>1, <2>3, <3>1, <3>2, <3>3 DEF PopBlock, Got
    <3> HIDE DEF x
    <3>5. n <= capacity[b]
      <4>1. CASE l = LargeList
        BY <3>2, <3>3, <4>1 DEF TypeInv
      <4>2. CASE l # LargeList
        <5>1. n <= l[2]
          BY <2>1, <3>1, <4>2 DEF CallInv, Suits
        <5>2. capacity[b] = l[2]
          BY <3>3, <4>2 DEF FitInv, Listed
        <5> QED
          BY <5>1, <5>2
      <4> QED
        BY <4>1, <4>2
    <3>6. \A m \in Lists, c \in Blocks : Listed(m, c)' => Listed(m, c)
      <4>1. \A k \in 1..Len(RemoveAt(lists[l], i)) :
              \E j \in 1..Len(lists[l]) : RemoveAt(lists[l], i)[k] = lists[l][j]
        <5>1. PICK s \in Seq(Blocks) : s = lists[l]
          BY DEF TypeInv
        <5>2. i \in 1..Len(s) /\ Len(s) \in Nat
          BY <5>1
        <5>3. /\ Len(RemoveAt(s, i)) = Len(s) - 1
              /\ \A k \in 1..(Len(s) - 1) : RemoveAt(s, i)[k] = IF k < i THEN s[k] ELSE s[k + 1]
          BY <5>2, RemoveAtShifts
        <5>4. \A k \in 1..(Len(s) - 1) : k \in 1..Len(s) /\ k + 1 \in 1..Len(s)
          BY <5>2
        <5> QED
          BY <5>1, <5>3, <5>4
      <4>2. \A m \in Lists : lists'[m] = IF m = l THEN RemoveAt(lists[l], i) ELSE lists[m]
        BY <3>4 DEF TypeInv
      <4> SUFFICES ASSUME NEW m \in Lists, NEW c \in Blocks, Listed(m, c)'
                   PROVE  Listed(m, c)
        OBVIOUS
      <4>3. PICK k \in 1..Len(lists'[m]) : lists'[m][k] = c
        BY DEF Listed
      <4> QED
        BY <4>1, <4>2, <4>3 DEF Listed
    <3>7. \A u \in Threads : call'[u] = IF u = t THEN x ELSE call[u]
      BY <3>4 DEF TypeInv
    <3> QED
      BY <3>4, <3>5, <3>6, <3>7 DEF FitInv
  <2> QED
    BY <2>2, <2>3
<1>2. ASSUME NEW t \in Threads, FreshBlock(t)
      PROVE  FitInv'
  <2>1. call[t] \in PopCalls
    BY <1>a, <1>2, CallShapes DEF FreshBlock
  <2>2. PICK l \in Lists, n \in Nat : l = call[t].list /\ n = call[t].size
    BY <2>1 DEF PopCalls
  <2>3. Suits(l, n)
    BY <2>1, <2>2 DEF CallInv, PopCalls
  <2> DEFINE x(b) == Got(call[t], b)
  <2>4. PICK b \in Blocks : /\ capacity[b] = 0
                            /\ capacity' = [capacity EXCEPT ![b] = Unit(l, n)]
                            /\ call' = [call EXCEPT ![t] = x(b)]
                            /\ UNCHANGED lists
    BY <1>2, <2>2 DEF FreshBlock
  <2>5. x(b).at = "got" /\ x(b).size = n /\ x(b).block = b
    BY <2>2 DEF Got
  <2> HIDE DEF x
  <2>6. /\ Unit(l, n) \in Nat /\ n <= Unit(l, n)
        /\ Unit(l, n) < MediumMax => Unit(l, n) \in Classes
    BY <2>3, UnitFits DEF Suits
  <2>7. \A u \in Threads : call'[u] = IF u = t THEN x(b) ELSE call[u]
    BY <2>4 DEF TypeInv
  <2>8. \A c \in Blocks : capacity'[c] = IF c = b THEN Unit(l, n) ELSE capacity[c]
    BY <2>4 DEF TypeInv
  <2>9. /\ \A m \in Lists : ~Listed(m, b)
        /\ \A u \in Threads : ~Carries(u, b)
    BY <1>0, <2>4 DEF Where
  <2>10. \A m \in Lists, c \in Blocks : Listed(m, c)' <=> Listed(m, c)
    BY <2>4 DEF Listed
  <2>11. \A u \in Threads : call[u].at \in {"got", "push"} =>
           call[u].block \in Blocks /\ call[u].block # b
    <3>1. \A u \in Threads : call[u].at \in {"got", "push"} => call[u].block \in Blocks
      BY <1>a, CallShapes DEF GotCalls, PushCalls
    <3> QED
      BY <2>9, <3>1 DEF Carries
  <2> QED
    BY <2>5, <2>6, <2>7, <2>8, <2>9, <2>10, <2>11 DEF FitInv
<1>3. ASSUME NEW t \in Threads, MapFails(t)
      PROVE  FitInv'
  BY <1>3, <1>b DEF MapFails, Idle
<1>4. ASSUME NEW t \in Threads, PushBlock(t)
      PROVE  FitInv'
  <2>1. PICK b \in Blocks, l \in Lists : b = call[t].block /\ l = call[t].list
    BY <1>a, <1>4, CallShapes DEF PushBlock, PushCalls
  <2>2. /\ lists' = [lists EXCEPT ![l] = <<b>> \o lists[l]]
        /\ call' = [call EXCEPT ![t] = Idle] /\ UNCHANGED capacity
    BY <1>4, <2>1 DEF PushBlock
  <2>3. l # LargeList => capacity[b] = l[2]
    BY <1>4, <2>1 DEF PushBlock, FitInv
  <2>4. \A m \in Lists, c \in Blocks : Listed(m, c)' => (m = l /\ c = b) \/ Listed(m, c)
    <3>1. \A k \in 1..Len(<<b>> \o lists[l]) :
            \/ (<<b>> \o lists[l])[k] = b
            \/ \E j \in 1..Len(lists[l]) : (<<b>> \o lists[l])[k] = lists[l][j]
      <4>1. PICK s \in Seq(Blocks) : s = lists[l]
        BY DEF TypeInv
      <4>2. /\ Len(s) \in Nat /\ Len(<<b>> \o s) = Len(s) + 1 /\ (<<b>> \o s)[1] = b
            /\ \A k \in 1..Len(s) : (<<b>> \o s)[k + 1] = s[k]
        BY ConsShifts
      <4>3. \A k \in 1..(Len(s) + 1) : k = 1 \/ (k - 1 \in 1..Len(s) /\ (k - 1) + 1 = k)
        BY <4>2
      <4> QED
        BY <4>1, <4>2, <4>3
    <3>2. \A m \in Lists : lists'[m] = IF m = l THEN <<b>> \o lists[l] ELSE lists[m]
      BY <2>2 DEF TypeInv
    <3> SUFFICES ASSUME NEW m \in Lists, NEW c \in Blocks, Listed(m, c)'
                 PROVE  (m = l /\ c = b) \/ Listed(m, c)
      OBVIOUS
    <3>3. PICK k \in 1..Len(lists'[m]) : lists'[m][k] = c
      BY DEF Listed
    <3> QED
      BY <3>1, <3>2, <3>3 DEF Listed
  <2>5. \A u \in Threads : call'[u] = IF u = t THEN Idle ELSE call[u]
    BY <2>2 DEF TypeInv
  <2> QED
    BY <2>2, <2>3, <2>4, <2>5 DEF FitInv, Idle
<1>5. ASSUME NEW t \in Threads, BeginUpload(t) \/ BeginArena(t)
      PROVE  FitInv'
  <2>1. PICK n, p : BeginAllocate(t, n, p)
    BY <1>5 DEF BeginUpload, BeginArena
  <2> DEFINE x == [at |-> "pop", for |-> p, size |-> n, list |-> Tier(n)]
  <2>2. call' = [call EXCEPT ![t] = x] /\ x.at = "pop" /\ UNCHANGED <<lists, capacity>>
    BY <2>1 DEF BeginAllocate
  <2> HIDE DEF x
  <2> QED
    BY <1>b, <2>2
<1>6. ASSUME NEW t \in Threads,
             FinishUpload(t) \/ FinishArena(t) \/ ArenaTensor(t) \/ FinishReset(t)
      PROVE  FitInv'
  BY <1>6, <1>b DEF FinishUpload, FinishArena, ArenaTensor, FinishReset, Idle
<1>7. ASSUME NEW t \in Threads, NEW h \in Handles, Derive(t, h)
      PROVE  FitInv'
  BY <1>7 DEF Derive, allocatorVars, FitInv, Listed
<1>8. ASSUME NEW t \in Threads, NEW h \in Handles, BeginClose(t, h)
      PROVE  FitInv'
  <2> DEFINE x == [at |-> "close", handle |-> h, bytes |-> handle[h].bytes]
  <2>1. call' = [call EXCEPT ![t] = x] /\ x.at = "close" /\ UNCHANGED <<lists, capacity>>
    BY <1>8 DEF BeginClose
  <2> HIDE DEF x
  <2> QED
    BY <1>b, <2>1
<1>9. ASSUME NEW t \in Threads, FinishClose(t)
      PROVE  FitInv'
  <2>1. PICK h \in Handles : h = call[t].handle
    BY <1>a, <1>9, CallShapes DEF FinishClose, CloseCalls
  <2>2. CASE handle[h].kind = "root" /\ call[t].bytes # NoBytes
    <3>1. /\ handle[h] # Unused /\ handle[h].bytes = call[t].bytes
          /\ HandOver(t, call[t].bytes.block)
      BY <1>9, <2>1, <2>2 DEF FinishClose, CloseInv
    <3>2. PICK b \in Blocks : b = call[t].bytes.block
      BY <1>a, <1>9, <2>2, CallShapes DEF FinishClose, CloseCalls, Regions
    <3>3. Owns(h, b)
      BY <2>2, <3>1, <3>2 DEF Owns
    <3>4. capacity[b] # 0
      BY <1>0, <3>3 DEF Where
    <3> QED
      BY <3>1, <3>2, <3>4, HandOverFits
  <2>3. CASE ~(handle[h].kind = "root" /\ call[t].bytes # NoBytes)
    BY <1>9, <1>b, <2>1, <2>3 DEF FinishClose, Idle
  <2> QED
    BY <2>2, <2>3
<1>10. ASSUME NEW t \in Threads, NEW n \in ArenaUses, ArenaAllocate(t, n)
       PROVE  FitInv'
  <2> DEFINE x == [at |-> "view", alone |-> ~Resetting,
             bytes |-> Region(arena.storage, Aligned, Aligned + n)]
  <2>1. call' = [call EXCEPT ![t] = x] /\ x.at = "view" /\ UNCHANGED <<lists, capacity>>
    BY <1>10 DEF ArenaAllocate
  <2> HIDE DEF x
  <2> QED
    BY <1>b, <2>1
<1>11. ASSUME NEW t \in Threads, BeginReset(t)
       PROVE  FitInv'
  <2>1. \A u \in Threads : call'[u].at \in {"got", "push"} => call'[u] = call[u]
    BY <1>11, ResetMarks
  <2>2. UNCHANGED <<lists, capacity>>
    BY <1>11 DEF BeginReset
  <2>3. \A l \in Lists, c \in Blocks : Listed(l, c)' <=> Listed(l, c)
    BY <2>2 DEF Listed
  <2> QED
    BY <2>1, <2>2, <2>3 DEF FitInv
<1>12. ASSUME NEW t \in Threads, CloseArena(t)
       PROVE  FitInv'
  <2>1. PICK b \in Blocks : b = arena.storage
    BY <1>12 DEF CloseArena, TypeInv
  <2>2. capacity[b] # 0
    BY <1>0, <2>1 DEF Where
  <2> QED
    BY <1>12, <2>1, <2>2, HandOverFits DEF CloseArena
<1>13. CASE UNCHANGED vars
  BY <1>13 DEF vars, allocatorVars, FitInv, Listed
<1> QED
  BY <1>1, <1>2, <1>3, <1>4, <1>5, <1>6, <1>7, <1>8, <1>9, <1>10, <1>11, <1>12, <1>13
  DEF Next, AllocatorStep

\* Storage is never smaller than the request it is handed out for, and a list
\* of a class holds blocks of exactly that size, although blocks are filed by
\* their capacity and requests by their size.
THEOREM RequestsFit == Spec => []BlocksFitTheirRequest
<1> DEFINE IInv == TypeInv /\ CallInv /\ CloseInv /\ OwnInv /\ FitInv
<1>1. Init => IInv
  BY TypeInit, CallInit, OwnInit, FitInit
<1>2. IInv /\ [Next]_vars => IInv'
  BY TypeStep, CallStep, CloseStep, OwnStep, FitStep
<1>3. IInv => BlocksFitTheirRequest
  <2> SUFFICES ASSUME IInv PROVE BlocksFitTheirRequest
    OBVIOUS
  <2>1. \A l \in Lists : \A i \in DOMAIN lists[l] : lists[l][i] \in Blocks /\ Listed(l, lists[l][i])
    BY DEF TypeInv, Listed
  <2> QED
    BY <2>1 DEF FitInv, BlocksFitTheirRequest
<1> QED
  BY <1>1, <1>2, <1>3, PTL DEF Spec

-----------------------------------------------------------------------------
(* The arena.                                                              *)

\* The arena tensors of the present epoch, and the calls that make one, whose New
\* no Reset overlapped.
Live(h) == /\ handle[h] # Unused /\ handle[h].kind = "arena" /\ handle[h].alone
           /\ handle[h].ready /\ handle[h].epoch = arena.epoch

Alone(t) == call[t].at = "view" /\ call[t].alone

IsArenaTensor(h) == handle[h] # Unused /\ handle[h].kind = "arena"

\* The bytes of the live tensors, and those that a call has been given for the
\* next one, are different parts of the arena below its offset, as long as the
\* arena is open; while a reset is between its halves no New is alone.
ViewInv ==
  /\ \A h \in Handles : IsArenaTensor(h) => handle[h].epoch <= arena.epoch
  /\ ~arena.made => /\ \A h \in Handles : ~IsArenaTensor(h)
                    /\ \A t \in Threads : call[t].at # "view"
  /\ arena.storage # NoBlock => \A h \in Handles : Live(h) =>
       /\ handle[h].bytes.block = arena.storage
       /\ Resetting \/ handle[h].bytes.to <= arena.offset
  /\ arena.storage # NoBlock => \A t \in Threads : Alone(t) =>
       /\ call[t].bytes.block = arena.storage
       /\ call[t].bytes.to <= arena.offset
  /\ \A t, u \in Threads : t # u /\ Alone(t) /\ Alone(u)
                           => ~Overlap(call[t].bytes, call[u].bytes)
  /\ \A t \in Threads, h \in Handles : Alone(t) /\ Live(h)
                                       => ~Overlap(call[t].bytes, handle[h].bytes)
  /\ \A g, h \in Handles : g # h /\ Live(g) /\ Live(h)
                           => ~Overlap(handle[g].bytes, handle[h].bytes)
  /\ Resetting => \A t \in Threads : ~Alone(t)

LEMMA OverlapIsSymmetric == \A r, s : Overlap(r, s) <=> Overlap(s, r)
BY DEF Overlap

LEMMA ViewInit == Init => ViewInv
BY DEF Init, AllocatorInit, ViewInv, Live, Alone, IsArenaTensor, Resetting, Idle, Unused

LEMMA ViewStep == TypeInv /\ CallInv /\ CloseInv /\ ViewInv /\ [Next]_vars => ViewInv'
<1> SUFFICES ASSUME TypeInv, CallInv, CloseInv, ViewInv, [Next]_vars PROVE ViewInv'
  OBVIOUS
<1>0. \A u \in Threads : call[u] \in Calls
  BY DEF TypeInv
\* A step that neither views nor resets, and leaves the live tensors alone.
<1>a. ASSUME NEW t \in Threads, NEW x, call' = [call EXCEPT ![t] = x],
             x.at \notin {"view", "reset"}, call[t].at \notin {"view", "reset"},
             \/ arena'.storage = NoBlock
             \/ arena'.storage = arena.storage /\ arena'.offset = arena.offset,
             arena'.epoch = arena.epoch, arena'.made = arena.made,
             \A h \in Handles : handle'[h] # Unused /\ handle'[h].kind = "arena" =>
                /\ handle[h] # Unused /\ handle[h].kind = "arena"
                /\ handle'[h].epoch = handle[h].epoch /\ handle'[h].alone = handle[h].alone
                /\ handle'[h].ready => handle[h].ready /\ handle'[h].bytes = handle[h].bytes
      PROVE  ViewInv'
  <2>1. \A u \in Threads : call'[u] = IF u = t THEN x ELSE call[u]
    BY <1>a DEF TypeInv
  <2>2. \A h \in Handles :
          /\ Live(h)' => Live(h) /\ handle'[h].bytes = handle[h].bytes
          /\ IsArenaTensor(h)' => IsArenaTensor(h) /\ handle'[h].epoch = handle[h].epoch
    BY <1>a DEF Live, IsArenaTensor
  <2>3. Resetting' <=> Resetting
    BY <1>a, <2>1 DEF Resetting
  <2>4. \A u \in Threads :
          /\ Alone(u)' => Alone(u) /\ call'[u] = call[u]
          /\ call'[u].at = "view" => call[u].at = "view"
    BY <1>a, <2>1 DEF Alone
  <2> QED
    BY <1>a, <2>2, <2>3, <2>4 DEF ViewInv, Overlap
<1>1. ASSUME NEW t \in Threads, AllocatorStep(t), UNCHANGED <<handle, arena>>
      PROVE  ViewInv'
  <2>1. CASE PopBlock(t)
    <3>1. call[t] \in PopCalls /\ call[t].at = "pop"
      BY <1>0, <2>1, CallShapes DEF PopBlock
    <3>2. [call[t] EXCEPT !.at = "fresh"].at = "fresh"
      BY <3>1 DEF PopCalls
    <3>3. \A b : Got(call[t], b).at = "got"
      BY DEF Got
    <3>4. \/ call' = [call EXCEPT ![t] = [call[t] EXCEPT !.at = "fresh"]]
          \/ \E b : call' = [call EXCEPT ![t] = Got(call[t], b)]
      BY <2>1 DEF PopBlock
    <3> QED
      BY <1>a, <1>1, <3>1, <3>2, <3>3, <3>4
  <2>2. CASE FreshBlock(t)
    <3>1. \A b : Got(call[t], b).at = "got"
      BY DEF Got
    <3> QED
      BY <1>a, <1>1, <2>2, <3>1 DEF FreshBlock
  <2>3. CASE MapFails(t) \/ PushBlock(t)
    <3>1. call' = [call EXCEPT ![t] = Idle]
      BY <2>3 DEF MapFails, PushBlock
    <3>2. Idle.at \notin {"view", "reset"}
      BY DEF Idle
    <3>3. call[t].at \notin {"view", "reset"}
      BY <2>3 DEF MapFails, PushBlock
    <3>4. PICK x : x = Idle
      OBVIOUS
    <3>5. call' = [call EXCEPT ![t] = x] /\ x.at \notin {"view", "reset"}
      BY <3>1, <3>2, <3>4
    <3>6. arena' = arena /\ handle' = handle
      BY <1>1
    <3> QED
      BY <1>a, <3>3, <3>5, <3>6
  <2> QED
    BY <1>1, <2>1, <2>2, <2>3 DEF AllocatorStep
<1>2. ASSUME NEW t \in Threads, BeginUpload(t) \/ BeginArena(t)
      PROVE  ViewInv'
  <2>1. PICK n, p : /\ BeginAllocate(t, n, p) /\ UNCHANGED handle
                    /\ arena'.storage = arena.storage /\ arena'.offset = arena.offset
                    /\ arena'.epoch = arena.epoch /\ arena'.made = arena.made
    BY <1>2 DEF BeginUpload, BeginArena, TypeInv
  <2> DEFINE x == [at |-> "pop", for |-> p, size |-> n, list |-> Tier(n)]
  <2>2. call' = [call EXCEPT ![t] = x] /\ x.at = "pop" /\ call[t].at = "idle"
    BY <2>1 DEF BeginAllocate, Idle
  <2> HIDE DEF x
  <2> QED
    BY <1>a, <2>1, <2>2
<1>3. ASSUME NEW t \in Threads, FinishUpload(t)
      PROVE  ViewInv'
  <2> DEFINE x == NewTensor("root", Region(call[t].block, 0, call[t].size), 0, TRUE)
  <2>1. PICK h \in Handles : handle[h] = Unused /\ handle' = [handle EXCEPT ![h] = x]
    BY <1>3 DEF FinishUpload, MakeHandle
  <2>2. x.kind = "root"
    BY DEF NewTensor
  <2> HIDE DEF x
  <2>3. \A k \in Handles : handle'[k] = IF k = h THEN x ELSE handle[k]
    BY <2>1 DEF TypeInv
  <2> QED
    BY <1>3, <1>a, <2>2, <2>3 DEF FinishUpload, Idle
<1>4. ASSUME NEW t \in Threads, NEW h \in Handles, Derive(t, h)
      PROVE  ViewInv'
  <2> DEFINE x(to) == NewTensor("derived", Region(handle[h].bytes.block, handle[h].bytes.from, to), 0, TRUE)
  <2>1. PICK to \in (handle[h].bytes.from + 1)..handle[h].bytes.to, g \in Handles :
          handle[g] = Unused /\ handle' = [handle EXCEPT ![g] = x(to)]
    BY <1>4 DEF Derive, MakeHandle
  <2>2. x(to).kind = "derived"
    BY DEF NewTensor
  <2> HIDE DEF x
  <2>3. \A k \in Handles : handle'[k] = IF k = g THEN x(to) ELSE handle[k]
    BY <2>1 DEF TypeInv
  <2>4. call' = [call EXCEPT ![t] = Idle]
    BY <1>4 DEF Derive, allocatorVars, TypeInv
  <2>5. UNCHANGED arena /\ call[t].at = "idle" /\ Idle.at = "idle"
    BY <1>4 DEF Derive, Idle
  <2>6. \A k \in Handles : handle'[k] # Unused /\ handle'[k].kind = "arena" =>
           /\ handle[k] # Unused /\ handle[k].kind = "arena"
           /\ handle'[k].epoch = handle[k].epoch /\ handle'[k].alone = handle[k].alone
           /\ handle'[k].ready => handle[k].ready /\ handle'[k].bytes = handle[k].bytes
    BY <2>2, <2>3
  <2> QED
    BY <1>a, <2>4, <2>5, <2>6
<1>5. ASSUME NEW t \in Threads, NEW h \in Handles, BeginClose(t, h)
      PROVE  ViewInv'
  <2> DEFINE x == [at |-> "close", handle |-> h, bytes |-> handle[h].bytes]
             y == [handle[h] EXCEPT !.closed = TRUE]
  <2>1. /\ call' = [call EXCEPT ![t] = x] /\ x.at = "close" /\ call[t].at = "idle"
        /\ handle' = [handle EXCEPT ![h] = y] /\ UNCHANGED arena
    BY <1>5 DEF BeginClose, Idle
  <2>2. /\ handle[h] # Unused /\ y.kind = handle[h].kind /\ y.bytes = handle[h].bytes
        /\ y.ready = handle[h].ready /\ y.epoch = handle[h].epoch /\ y.alone = handle[h].alone
    BY <1>5 DEF BeginClose, Tensors, TypeInv
  <2> HIDE DEF x, y
  <2>3. \A k \in Handles : handle'[k] = IF k = h THEN y ELSE handle[k]
    BY <2>1 DEF TypeInv
  <2>4. \A k \in Handles : handle'[k] # Unused /\ handle'[k].kind = "arena" =>
           /\ handle[k] # Unused /\ handle[k].kind = "arena"
           /\ handle'[k].epoch = handle[k].epoch /\ handle'[k].alone = handle[k].alone
           /\ handle'[k].ready => handle[k].ready /\ handle'[k].bytes = handle[k].bytes
    BY <2>2, <2>3
  <2>5. /\ call' = [call EXCEPT ![t] = x] /\ UNCHANGED arena
        /\ x.at \notin {"view", "reset"} /\ call[t].at \notin {"view", "reset"}
    BY <2>1
  <2> QED
    BY <1>a, <2>4, <2>5
<1>6. ASSUME NEW t \in Threads, FinishClose(t)
      PROVE  ViewInv'
  <2>1. PICK h \in Handles : h = call[t].handle
    BY <1>0, <1>6, CallShapes DEF FinishClose, CloseCalls
  <2>2. call[t].at = "close" /\ handle[h] \in Tensors /\ handle[h] # Unused
    BY <1>6, <2>1 DEF FinishClose, CloseInv, TypeInv
  <2> DEFINE y == [handle[h] EXCEPT !.closed = TRUE, !.ready = FALSE, !.bytes = NoBytes]
             x == [at |-> "push", block |-> call[t].bytes.block,
                   list |-> Tier(capacity[call[t].bytes.block])]
  <2>3. /\ handle' = [handle EXCEPT ![h] = y] /\ UNCHANGED arena
        /\ call' = [call EXCEPT ![t] = Idle] \/ call' = [call EXCEPT ![t] = x]
    BY <1>6, <2>1 DEF FinishClose, Shut, HandOver
  <2>4. /\ x.at = "push" /\ Idle.at = "idle"
        /\ y.kind = handle[h].kind /\ ~y.ready /\ y.epoch = handle[h].epoch
        /\ y.alone = handle[h].alone
    BY <2>2 DEF Tensors, Idle
  <2> HIDE DEF x, y
  <2>5. \A k \in Handles : handle'[k] = IF k = h THEN y ELSE handle[k]
    BY <2>3 DEF TypeInv
  <2>6. \A k \in Handles : handle'[k] # Unused /\ handle'[k].kind = "arena" =>
           /\ handle[k] # Unused /\ handle[k].kind = "arena"
           /\ handle'[k].epoch = handle[k].epoch /\ handle'[k].alone = handle[k].alone
           /\ handle'[k].ready => handle[k].ready /\ handle'[k].bytes = handle[k].bytes
    BY <2>2, <2>4, <2>5
  <2>7. CASE call' = [call EXCEPT ![t] = Idle]
    BY <1>a, <2>2, <2>3, <2>4, <2>6, <2>7
  <2>8. CASE call' = [call EXCEPT ![t] = x]
    BY <1>a, <2>2, <2>3, <2>4, <2>6, <2>8
  <2> QED
    BY <2>3, <2>7, <2>8
<1>7. ASSUME NEW t \in Threads, FinishArena(t)
      PROVE  ViewInv'
  <2>1. ~arena.made
    BY <1>7 DEF FinishArena, CallInv, ForArena
  <2>2. /\ \A u \in Threads : call'[u] = IF u = t THEN Idle ELSE call[u]
        /\ UNCHANGED handle
    BY <1>7 DEF FinishArena, TypeInv
  <2>3. /\ \A h \in Handles : ~IsArenaTensor(h)' /\ ~Live(h)'
        /\ \A u \in Threads : call'[u].at # "view" /\ ~Alone(u)'
    BY <2>1, <2>2 DEF ViewInv, IsArenaTensor, Live, Alone, Idle
  <2> QED
    BY <2>3 DEF ViewInv
<1>8. ASSUME NEW t \in Threads, NEW n \in ArenaUses, ArenaAllocate(t, n)
      PROVE  ViewInv'
  <2> DEFINE r == Region(arena.storage, Aligned, Aligned + n)
             x == [at |-> "view", alone |-> ~Resetting, bytes |-> r]
  <2>1. /\ call[t].at = "idle" /\ arena.storage # NoBlock /\ arena.made
        /\ call' = [call EXCEPT ![t] = x] /\ UNCHANGED handle
        /\ arena' = [arena EXCEPT !.offset = Aligned + n]
    BY <1>8 DEF ArenaAllocate, Idle, CallInv
  <2>2. /\ arena'.storage = arena.storage /\ arena'.epoch = arena.epoch
        /\ arena'.offset = Aligned + n /\ arena'.made
    BY <2>1 DEF TypeInv
  <2>3. /\ Aligned \in Nat /\ Aligned >= arena.offset /\ n \in Nat
        /\ arena.offset \in Nat
    BY TensorAssumption, RoundUp DEF Aligned, TypeInv
  <2>4. /\ x.at = "view" /\ x.bytes = r /\ x.alone = ~Resetting
        /\ r.block = arena.storage /\ r.from = Aligned /\ r.to = Aligned + n
    BY DEF Region
  <2> HIDE DEF r, x
  <2>5. \A u \in Threads : call'[u] = IF u = t THEN x ELSE call[u]
    BY <2>1 DEF TypeInv
  <2>6. \A h \in Handles : /\ Live(h)' <=> Live(h)
                           /\ IsArenaTensor(h)' <=> IsArenaTensor(h)
                           /\ handle'[h] = handle[h]
    BY <2>1, <2>2 DEF Live, IsArenaTensor
  <2>7. Resetting' <=> Resetting
    BY <2>1, <2>4, <2>5 DEF Resetting
  <2>8. \A u \in Threads : Alone(u)' => ~Resetting /\ (u = t \/ Alone(u))
    BY <2>4, <2>5 DEF Alone, ViewInv
  <2>9. \A h \in Handles : Live(h) => /\ handle[h].bytes \in Regions
                                      /\ Resetting \/ handle[h].bytes.to <= arena.offset
    BY <2>1 DEF Live, ViewInv, CloseInv, TypeInv, Tensors
  <2>10. \A u \in Threads : Alone(u) => /\ call[u].bytes \in Regions
                                        /\ call[u].bytes.to <= arena.offset
    BY <1>0, <2>1, CallShapes DEF ViewInv, ViewCalls, Alone
  \* What starts at the aligned offset overlaps nothing below it.
  <2>11. \A s \in Regions : s.to <= arena.offset => ~Overlap(r, s) /\ ~Overlap(s, r)
    BY <2>3, <2>4 DEF Overlap, Regions
  <2>12. \A s \in Regions : s.to <= arena.offset => s.to <= Aligned + n
    BY <2>3 DEF Regions
  <2>13. \A h \in Handles : IsArenaTensor(h)' => handle'[h].epoch <= arena'.epoch
    BY <2>2, <2>6 DEF ViewInv
  <2>14. \A h \in Handles : Live(h)' => /\ handle'[h].bytes.block = arena'.storage
                                        /\ Resetting' \/ handle'[h].bytes.to <= arena'.offset
    BY <2>1, <2>2, <2>6, <2>7, <2>9, <2>12 DEF ViewInv
  <2>15. \A u \in Threads : Alone(u)' => /\ call'[u].bytes.block = arena'.storage
                                         /\ call'[u].bytes.to <= arena'.offset
    <3>1. Aligned + n <= Aligned + n
      BY <2>3
    <3> QED
      BY <2>1, <2>2, <2>4, <2>5, <2>8, <2>10, <2>12, <3>1 DEF ViewInv
  <2>16. \A u, v \in Threads : u # v /\ Alone(u)' /\ Alone(v)'
                              => ~Overlap(call'[u].bytes, call'[v].bytes)
    BY <2>4, <2>5, <2>8, <2>10, <2>11 DEF ViewInv
  <2>17. \A u \in Threads, h \in Handles : Alone(u)' /\ Live(h)'
                                          => ~Overlap(call'[u].bytes, handle'[h].bytes)
    BY <2>4, <2>5, <2>6, <2>8, <2>9, <2>11 DEF ViewInv
  <2>18. \A g, h \in Handles : g # h /\ Live(g)' /\ Live(h)'
                              => ~Overlap(handle'[g].bytes, handle'[h].bytes)
    BY <2>6 DEF ViewInv
  <2> QED
    BY <2>2, <2>7, <2>8, <2>13, <2>14, <2>15, <2>16, <2>17, <2>18 DEF ViewInv, Overlap
<1>9. ASSUME NEW t \in Threads, ArenaTensor(t)
      PROVE  ViewInv'
  <2> DEFINE x == NewTensor("arena", call[t].bytes, arena.epoch, call[t].alone)
  <2>1. PICK h \in Handles : handle[h] = Unused /\ handle' = [handle EXCEPT ![h] = x]
    BY <1>9 DEF ArenaTensor, MakeHandle
  <2>2. /\ x # Unused /\ x.kind = "arena" /\ x.bytes = call[t].bytes /\ x.epoch = arena.epoch
        /\ x.ready /\ x.alone = call[t].alone
    BY DEF NewTensor, Unused
  <2> HIDE DEF x
  <2>3. /\ \A k \in Handles : handle'[k] = IF k = h THEN x ELSE handle[k]
        /\ \A u \in Threads : call'[u] = IF u = t THEN Idle ELSE call[u]
        /\ UNCHANGED arena /\ call[t].at = "view" /\ Idle.at = "idle"
    BY <1>9, <2>1 DEF ArenaTensor, TypeInv, Idle
  <2>4. \A k \in Handles : Live(k)' => (k = h /\ Alone(t)) \/ (k # h /\ Live(k))
    BY <2>2, <2>3 DEF Live, Alone
  <2>5. (Resetting' <=> Resetting) /\ arena.made
    BY <2>3 DEF Resetting, ViewInv
  <2>6. \A u \in Threads : Alone(u)' => u # t /\ Alone(u) /\ call'[u] = call[u]
    BY <2>3 DEF Alone
  <2>7. \A k \in Handles : IsArenaTensor(k)' => handle'[k].epoch <= arena'.epoch
    <3>1. arena.epoch <= arena.epoch
      BY DEF TypeInv
    <3> QED
      BY <2>2, <2>3, <3>1 DEF ViewInv, IsArenaTensor
  <2>8. arena'.storage # NoBlock => \A k \in Handles : Live(k)' =>
          /\ handle'[k].bytes.block = arena'.storage
          /\ Resetting' \/ handle'[k].bytes.to <= arena'.offset
    BY <2>2, <2>3, <2>4, <2>5 DEF ViewInv
  <2>9. arena'.storage # NoBlock => \A u \in Threads : Alone(u)' =>
          /\ call'[u].bytes.block = arena'.storage
          /\ call'[u].bytes.to <= arena'.offset
    BY <2>3, <2>6 DEF ViewInv
  <2>10. \A u, v \in Threads : u # v /\ Alone(u)' /\ Alone(v)'
                              => ~Overlap(call'[u].bytes, call'[v].bytes)
    BY <2>6 DEF ViewInv
  <2>11. \A u \in Threads, k \in Handles : Alone(u)' /\ Live(k)'
                                          => ~Overlap(call'[u].bytes, handle'[k].bytes)
    BY <2>2, <2>3, <2>4, <2>6 DEF ViewInv
  <2>12. \A g, k \in Handles : g # k /\ Live(g)' /\ Live(k)'
                              => ~Overlap(handle'[g].bytes, handle'[k].bytes)
    BY <2>2, <2>3, <2>4, OverlapIsSymmetric DEF ViewInv
  <2>13. Resetting' => \A u \in Threads : ~Alone(u)'
    BY <2>5, <2>6 DEF ViewInv
  <2> QED
    BY <2>3, <2>5, <2>7, <2>8, <2>9, <2>10, <2>11, <2>12, <2>13 DEF ViewInv, Overlap
<1>10. ASSUME NEW t \in Threads, BeginReset(t)
       PROVE  ViewInv'
  <2>1. /\ UNCHANGED handle /\ arena.made /\ arena'.made
        /\ arena'.storage = arena.storage /\ arena'.epoch = arena.epoch
    BY <1>10 DEF BeginReset, TypeInv
  <2>2. Resetting' /\ \A u \in Threads : ~Alone(u)'
    BY <1>10, ResetMarks DEF Resetting, Alone
  <2>3. \A h \in Handles : /\ Live(h)' <=> Live(h)
                           /\ IsArenaTensor(h)' <=> IsArenaTensor(h)
                           /\ handle'[h] = handle[h]
    BY <2>1 DEF Live, IsArenaTensor
  <2> QED
    BY <2>1, <2>2, <2>3 DEF ViewInv, Overlap
<1>11. ASSUME NEW t \in Threads, FinishReset(t)
       PROVE  ViewInv'
  <2>1. /\ \A u \in Threads : call'[u] = IF u = t THEN Idle ELSE call[u]
        /\ UNCHANGED handle /\ arena'.epoch = arena.epoch + 1 /\ arena.epoch \in Nat
        /\ arena'.made = arena.made /\ call[t].at = "reset" /\ Idle.at = "idle"
    BY <1>11 DEF FinishReset, TypeInv, Idle
  <2>2. \A h \in Handles : IsArenaTensor(h)
           => handle[h].epoch \in Nat /\ handle[h].epoch <= arena.epoch
    BY DEF ViewInv, TypeInv, Tensors, IsArenaTensor
  <2>3. \A h \in Handles : IsArenaTensor(h)' =>
           /\ IsArenaTensor(h)
           /\ handle'[h].epoch <= arena'.epoch /\ handle'[h].epoch # arena'.epoch
    BY <2>1, <2>2 DEF IsArenaTensor
  <2>4. \A h \in Handles : ~Live(h)'
    BY <2>3 DEF Live, IsArenaTensor
  <2>5. \A u \in Threads : ~Alone(u)' /\ (call'[u].at = "view" => call[u].at = "view")
    BY <2>1 DEF ViewInv, Resetting, Alone
  <2> QED
    BY <2>1, <2>3, <2>4, <2>5 DEF ViewInv
<1>12. ASSUME NEW t \in Threads, CloseArena(t)
       PROVE  ViewInv'
  <2> DEFINE x == [at |-> "push", block |-> arena.storage, list |-> Tier(capacity[arena.storage])]
  <2>1. call' = [call EXCEPT ![t] = x] /\ x.at = "push" /\ call[t].at = "idle"
    BY <1>12 DEF CloseArena, HandOver, Idle
  <2> HIDE DEF x
  <2>2. /\ UNCHANGED handle /\ arena'.storage = NoBlock
        /\ arena'.epoch = arena.epoch /\ arena'.made = arena.made
    BY <1>12 DEF CloseArena, TypeInv
  <2> QED
    BY <1>a, <2>1, <2>2
<1>13. CASE UNCHANGED vars
  <2>1. UNCHANGED <<call, handle, arena>>
    BY <1>13 DEF vars, allocatorVars
  <2> QED
    BY <2>1 DEF ViewInv, Live, Alone, IsArenaTensor, Resetting, Overlap
<1> QED
  BY <1>1, <1>2, <1>3, <1>4, <1>5, <1>6, <1>7, <1>8, <1>9, <1>10, <1>11, <1>12, <1>13 DEF Next

\* Two tensors that pass acquireView, roots or from an open arena and made with no
\* Reset in between, share no byte, whatever else is closed or reset meanwhile:
\* two roots have blocks of their own, a root's block is not the arena's, and the
\* arena hands bytes out again only when the tensors that had them are stale.
THEOREM UsableTensorsAreDisjoint == Spec => []ViewableBytesAreDisjoint
<1> DEFINE IInv == TypeInv /\ CallInv /\ CloseInv /\ OwnInv /\ ViewInv
<1>1. Init => IInv
  BY TypeInit, CallInit, OwnInit, ViewInit
<1>2. IInv /\ [Next]_vars => IInv'
  BY TypeStep, CallStep, CloseStep, OwnStep, ViewStep
<1>3. IInv => ViewableBytesAreDisjoint
  <2> SUFFICES ASSUME IInv, NEW g \in Handles, NEW h \in Handles, g # h,
                      Claims(g), Claims(h),
                      Overlap(handle[g].bytes, handle[h].bytes)
               PROVE  FALSE
    BY DEF ViewableBytesAreDisjoint
  <2>1. PICK at : Where(at)
    BY DEF OwnInv
  <2>2. \A k \in {g, h} : /\ handle[k].bytes \in Regions /\ handle[k].bytes # NoBytes
                          /\ handle[k] # Unused /\ handle[k].kind \in {"root", "arena"}
    BY DEF Claims, Viewable, CloseInv, TypeInv, Tensors
  <2>3. PICK b \in Blocks : b = handle[g].bytes.block /\ b = handle[h].bytes.block
    BY <2>2 DEF Overlap, Regions
  <2>4. ASSUME NEW k \in {g, h}, handle[k].kind = "root"
        PROVE  at[b] = <<"tensor", k>>
    <3>1. Owns(k, b)
      BY <2>2, <2>3, <2>4 DEF Owns
    <3> QED
      BY <2>1, <3>1 DEF Where
  <2>5. ASSUME NEW k \in {g, h}, handle[k].kind = "arena"
        PROVE  Live(k) /\ at[b] = <<"arena">>
    <3>1. Live(k) /\ arena.storage # NoBlock
      BY <2>2, <2>5 DEF Claims, Viewable, Live
    <3>2. arena.storage = b
      BY <2>3, <3>1 DEF ViewInv
    <3> QED
      BY <2>1, <3>1, <3>2 DEF Where
  <2>6. handle[g].kind = "arena" /\ handle[h].kind = "arena" => FALSE
    BY <2>5 DEF ViewInv
  <2> QED
    BY <2>2, <2>4, <2>5, <2>6
<1> QED
  BY <1>1, <1>2, <1>3, PTL DEF Spec
=============================================================================
