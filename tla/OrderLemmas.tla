----------------------------- MODULE OrderLemmas -----------------------------
(***************************************************************************)
(* Facts about lists that the proofs share: what the filter Kept selects,  *)
(* and how lists without repetition grow, shrink and join.                 *)
(***************************************************************************)
EXTENDS Lists, FiniteSetTheorems, SequenceTheorems, WellFoundedInduction,
        TLAPS

-----------------------------------------------------------------------------
(* Kept.                                                                   *)

\* Counting the kept positions up to each of them numbers them from 1 on.
LEMMA RankIsBijective ==
  ASSUME NEW n \in Nat, NEW K \in SUBSET (1..n)
  PROVE  /\ IsFiniteSet(K) /\ Cardinality(K) \in Nat
         /\ \A i \in K : Cardinality({k \in K : k <= i}) \in 1..Cardinality(K)
         /\ \A i, j \in K : i < j => Cardinality({k \in K : k <= i})
                                         < Cardinality({k \in K : k <= j})
         /\ \A c \in 1..Cardinality(K) :
              \E i \in K : Cardinality({k \in K : k <= i}) = c
<1> DEFINE Upto(i) == {k \in K : k <= i}
           rank == [i \in K |-> Cardinality(Upto(i))]
<1>1. IsFiniteSet(K) /\ Cardinality(K) \in Nat
  <2>1. IsFiniteSet(1..n)
    BY FS_Interval
  <2>2. IsFiniteSet(K)
    BY <2>1, FS_Subset
  <2> QED
    BY <2>2, FS_CardinalityType
<1>2. \A i \in K : /\ IsFiniteSet(Upto(i)) /\ Cardinality(Upto(i)) \in Nat
                   /\ Cardinality(Upto(i)) <= Cardinality(K)
                   /\ Cardinality(Upto(i)) # 0
  <2> SUFFICES ASSUME NEW i \in K
               PROVE  /\ IsFiniteSet(Upto(i)) /\ Cardinality(Upto(i)) \in Nat
                      /\ Cardinality(Upto(i)) <= Cardinality(K)
                      /\ Cardinality(Upto(i)) # 0
    OBVIOUS
  <2>1. Upto(i) \in SUBSET K /\ i \in Upto(i)
    OBVIOUS
  <2>2. IsFiniteSet(Upto(i)) /\ Cardinality(Upto(i)) <= Cardinality(K)
    BY <1>1, <2>1, FS_Subset
  <2> QED
    BY <2>1, <2>2, FS_CardinalityType, FS_EmptySet
<1>3. \A i, j \in K : i < j => Cardinality(Upto(i)) < Cardinality(Upto(j))
  <2> SUFFICES ASSUME NEW i \in K, NEW j \in K, i < j
               PROVE  Cardinality(Upto(i)) < Cardinality(Upto(j))
    OBVIOUS
  <2>1. Upto(i) \in SUBSET Upto(j)
    <3>1. \A k \in Upto(i) : k \in K /\ k <= j
      OBVIOUS
    <3> QED
      BY <3>1
  <2>2. j \in Upto(j) /\ j \notin Upto(i)
    OBVIOUS
  <2>3. /\ Cardinality(Upto(i)) <= Cardinality(Upto(j))
        /\ Cardinality(Upto(i)) # Cardinality(Upto(j))
    BY <1>2, <2>1, <2>2, FS_Subset
  <2> QED
    BY <1>2, <2>3
<1>4. \A i, j \in K : Cardinality(Upto(i)) = Cardinality(Upto(j)) => i = j
  BY <1>2, <1>3
<1>5. rank \in Injection(K, 1..Cardinality(K))
  <2>1. rank \in [K -> 1..Cardinality(K)]
    BY <1>1, <1>2
  <2>2. \A i, j \in K : rank[i] = rank[j] => i = j
    BY <1>4
  <2> HIDE DEF rank
  <2> QED
    BY <2>1, <2>2 DEF Injection, IsInjective
<1>6. Cardinality(1..Cardinality(K)) = Cardinality(K) /\ IsFiniteSet(1..Cardinality(K))
  BY <1>1, FS_Interval
<1>7. rank \in Surjection(K, 1..Cardinality(K))
  BY <1>5, <1>6, FS_Injection
<1>8. \A c \in 1..Cardinality(K) : \E i \in K : rank[i] = c
  BY <1>7 DEF Surjection
<1> QED
  BY <1>1, <1>2, <1>3, <1>8

\* Selected picks the positions it is given, in their order.
LEMMA SelectedInOrder ==
  ASSUME NEW T, NEW list \in Seq(T), NEW kept \in SUBSET DOMAIN list
  PROVE  /\ Selected(list, kept) \in Seq(T)
         /\ \E at \in [DOMAIN Selected(list, kept) -> DOMAIN list] :
              /\ \A j \in DOMAIN Selected(list, kept) :
                   Selected(list, kept)[j] = list[at[j]] /\ at[j] \in kept
              /\ \A i \in kept : \E j \in DOMAIN Selected(list, kept) : at[j] = i
              /\ \A j, k \in DOMAIN Selected(list, kept) : j < k => at[j] < at[k]
<1> DEFINE Rank(i) == Cardinality({k \in kept : k <= i})
           Pick(j) == CHOOSE i \in kept : Rank(i) = j
           n == Cardinality(kept)
           picked == [j \in 1..n |-> list[Pick(j)]]
<1>1. DOMAIN list = 1..Len(list) /\ Len(list) \in Nat /\ list \in [1..Len(list) -> T]
  BY LenProperties
<1>2. kept \in SUBSET (1..Len(list))
  BY <1>1
<1>3. /\ n \in Nat
      /\ \A i \in kept : Rank(i) \in 1..n
      /\ \A i, j \in kept : i < j => Rank(i) < Rank(j)
      /\ \A c \in 1..n : \E i \in kept : Rank(i) = c
  BY <1>1, <1>2, RankIsBijective
<1>4. Selected(list, kept) = picked
  BY DEF Selected
<1> HIDE DEF Rank
<1>5. \A j \in 1..n : Pick(j) \in kept /\ Rank(Pick(j)) = j
  BY <1>3
<1> HIDE DEF Pick, n
<1>6. \A j, k \in 1..n : j < k => Pick(j) < Pick(k)
  <2> SUFFICES ASSUME NEW j \in 1..n, NEW k \in 1..n, j < k, ~(Pick(j) < Pick(k))
               PROVE  FALSE
    OBVIOUS
  <2>1. Pick(j) = Pick(k) \/ Pick(k) < Pick(j)
    BY <1>1, <1>5
  <2>2. Rank(Pick(j)) = j /\ Rank(Pick(k)) = k /\ Pick(j) \in kept /\ Pick(k) \in kept
    BY <1>5
  <2>3. k < j \/ k = j
    BY <1>3, <2>1, <2>2
  <2> QED
    BY <1>3, <2>3
<1>7. \A i \in kept : \E j \in 1..n : Pick(j) = i
  <2> SUFFICES ASSUME NEW i \in kept PROVE \E j \in 1..n : Pick(j) = i
    OBVIOUS
  <2>1. Rank(i) \in 1..n /\ Pick(Rank(i)) \in kept /\ Rank(Pick(Rank(i))) = Rank(i)
    BY <1>3, <1>5
  <2>2. ~(Pick(Rank(i)) < i) /\ ~(i < Pick(Rank(i)))
    BY <1>3, <2>1
  <2> QED
    BY <1>1, <2>1, <2>2
<1>8. \A j \in 1..n : list[Pick(j)] \in T /\ Pick(j) \in kept /\ Pick(j) \in DOMAIN list
  BY <1>1, <1>5
<1>9. picked \in [1..n -> T] /\ DOMAIN picked = 1..n
  BY <1>8
<1>10. picked \in Seq(T)
  BY <1>3, <1>9, SeqDef
<1> DEFINE at == [j \in 1..n |-> Pick(j)]
<1>11. at \in [1..n -> DOMAIN list]
  BY <1>8
<1>12. /\ \A j \in 1..n : picked[j] = list[at[j]] /\ at[j] \in kept
       /\ \A i \in kept : \E j \in 1..n : at[j] = i
       /\ \A j, k \in 1..n : j < k => at[j] < at[k]
  BY <1>6, <1>7, <1>8
<1> HIDE DEF at, picked
<1> QED
  BY <1>4, <1>9, <1>10, <1>11, <1>12

\* Kept picks the positions whose elements are in S, in their order.
LEMMA KeptInOrder ==
  ASSUME NEW T, NEW list \in Seq(T), NEW S
  PROVE  /\ Kept(list, S) \in Seq(T)
         /\ \E at \in [DOMAIN Kept(list, S) -> DOMAIN list] :
              /\ \A j \in DOMAIN Kept(list, S) :
                   Kept(list, S)[j] = list[at[j]] /\ list[at[j]] \in S
              /\ \A i \in DOMAIN list : list[i] \in S =>
                   \E j \in DOMAIN Kept(list, S) : at[j] = i
              /\ \A j, k \in DOMAIN Kept(list, S) : j < k => at[j] < at[k]
<1> SUFFICES ASSUME NEW t, t = Kept(list, S)
             PROVE  /\ t \in Seq(T)
                    /\ \E at \in [DOMAIN t -> DOMAIN list] :
                         /\ \A j \in DOMAIN t : t[j] = list[at[j]] /\ list[at[j]] \in S
                         /\ \A i \in DOMAIN list : list[i] \in S =>
                              \E j \in DOMAIN t : at[j] = i
                         /\ \A j, k \in DOMAIN t : j < k => at[j] < at[k]
  OBVIOUS
<1> DEFINE kept == {i \in DOMAIN list : list[i] \in S}
<1>1. t = Selected(list, kept)
  BY DEF Kept
<1>2. kept \in SUBSET DOMAIN list /\ \A i \in DOMAIN list : i \in kept <=> list[i] \in S
  OBVIOUS
<1> HIDE DEF kept
<1>3. /\ Selected(list, kept) \in Seq(T)
      /\ \E at \in [DOMAIN Selected(list, kept) -> DOMAIN list] :
           /\ \A j \in DOMAIN Selected(list, kept) :
                Selected(list, kept)[j] = list[at[j]] /\ at[j] \in kept
           /\ \A i \in kept : \E j \in DOMAIN Selected(list, kept) : at[j] = i
           /\ \A j, k \in DOMAIN Selected(list, kept) : j < k => at[j] < at[k]
  BY <1>2, SelectedInOrder
<1>5. PICK at \in [DOMAIN t -> DOMAIN list] :
        /\ \A j \in DOMAIN t : t[j] = list[at[j]] /\ at[j] \in kept
        /\ \A i \in kept : \E j \in DOMAIN t : at[j] = i
        /\ \A j, k \in DOMAIN t : j < k => at[j] < at[k]
  BY <1>1, <1>3
<1>6. /\ \A j \in DOMAIN t : t[j] = list[at[j]] /\ list[at[j]] \in S
      /\ \A i \in DOMAIN list : list[i] \in S => \E j \in DOMAIN t : at[j] = i
      /\ \A j, k \in DOMAIN t : j < k => at[j] < at[k]
  BY <1>2, <1>5
<1> QED
  BY <1>1, <1>3, <1>5, <1>6

\* Of a list without repetition it picks each element that is in S once.
LEMMA KeptSelects ==
  ASSUME NEW T, NEW list \in Seq(T), IsInjective(list), NEW S
  PROVE  /\ Kept(list, S) \in Seq(T)
         /\ IsInjective(Kept(list, S))
         /\ ToSet(Kept(list, S)) = ToSet(list) \cap S
<1> SUFFICES ASSUME NEW kept, kept = Kept(list, S)
             PROVE  /\ kept \in Seq(T) /\ IsInjective(kept)
                    /\ ToSet(kept) = ToSet(list) \cap S
  OBVIOUS
<1>1. /\ kept \in Seq(T)
      /\ DOMAIN kept = 1..Len(kept) /\ Len(kept) \in Nat
  BY KeptInOrder, LenProperties
<1>2. PICK at \in [DOMAIN kept -> DOMAIN list] :
        /\ \A j \in DOMAIN kept : kept[j] = list[at[j]] /\ list[at[j]] \in S
        /\ \A i \in DOMAIN list : list[i] \in S => \E j \in DOMAIN kept : at[j] = i
        /\ \A j, k \in DOMAIN kept : j < k => at[j] < at[k]
  BY KeptInOrder
<1>3. DOMAIN list = 1..Len(list) /\ Len(list) \in Nat
  BY LenProperties
<1>4. ASSUME NEW a \in DOMAIN kept, NEW b \in DOMAIN kept, kept[a] = kept[b]
      PROVE  a = b
  <2>1. at[a] \in DOMAIN list /\ at[b] \in DOMAIN list /\ list[at[a]] = list[at[b]]
    BY <1>2, <1>4
  <2>2. at[a] = at[b]
    BY <2>1 DEF IsInjective
  <2>3. ~(a < b) /\ ~(b < a)
    BY <1>2, <1>3, <2>1, <2>2
  <2> QED
    BY <1>1, <2>3
<1>5. ToSet(kept) = ToSet(list) \cap S
  <2>1. \A j \in DOMAIN kept : kept[j] \in ToSet(list) \cap S
    BY <1>2 DEF ToSet
  <2>2. \A e \in ToSet(list) \cap S : \E j \in DOMAIN kept : kept[j] = e
    BY <1>2 DEF ToSet
  <2> QED
    BY <2>1, <2>2 DEF ToSet
<1> QED
  BY <1>1, <1>4, <1>5 DEF IsInjective

\* The members of S are at the positions from + 1 to to of the list.
IsBlock(list, S, from, to) ==
  /\ from <= to /\ to <= Len(list)
  /\ \A i \in DOMAIN list : list[i] \in S <=> from < i /\ i <= to

\* Where the members of S are a block of the list, Kept copies the block.
LEMMA KeptBlock ==
  ASSUME NEW T, NEW list \in Seq(T), NEW S,
         NEW from \in Nat, NEW to \in Nat, IsBlock(list, S, from, to)
  PROVE  /\ Len(Kept(list, S)) = to - from
         /\ \A j \in 1..(to - from) : Kept(list, S)[j] = list[from + j]
<1> DEFINE kept == {i \in DOMAIN list : list[i] \in S}
           Rank(i) == Cardinality({k \in kept : k <= i})
           n == Cardinality(kept)
<1>1. DOMAIN list = 1..Len(list) /\ Len(list) \in Nat
  BY LenProperties
<1>2. kept = (from + 1)..to /\ from <= to
  BY <1>1 DEF IsBlock
<1>3. Kept(list, S) = [j \in 1..n |-> list[CHOOSE i \in kept : Rank(i) = j]]
  BY DEF Kept, Selected
<1> HIDE DEF kept
<1>4. n = to - from
  <2>1. Cardinality((from + 1)..to)
          = IF from + 1 > to THEN 0 ELSE to - (from + 1) + 1
    BY FS_Interval
  <2> QED
    BY <1>2, <2>1
<1>5. \A i \in kept : Rank(i) = i - from
  <2> SUFFICES ASSUME NEW i \in kept PROVE Rank(i) = i - from
    OBVIOUS
  <2>1. i \in Nat /\ from + 1 <= i /\ i <= to
    BY <1>2
  <2>2. {k \in kept : k <= i} = (from + 1)..i
    BY <1>2, <2>1
  <2>3. Cardinality((from + 1)..i) = IF from + 1 > i THEN 0 ELSE i - (from + 1) + 1
    BY <2>1, FS_Interval
  <2>4. Rank(i) = Cardinality((from + 1)..i)
    BY <2>2
  <2> HIDE DEF Rank
  <2> QED
    BY <2>1, <2>3, <2>4
<1> HIDE DEF Rank
<1>6. \A j \in 1..n : (CHOOSE i \in kept : Rank(i) = j) = from + j
  <2> SUFFICES ASSUME NEW j \in 1..n
               PROVE  (CHOOSE i \in kept : Rank(i) = j) = from + j
    OBVIOUS
  <2>1. from + j \in kept
    BY <1>2, <1>4
  <2>2. \A i \in kept : i \in Nat /\ Rank(i) = i - from
    BY <1>2, <1>5
  <2>3. \A i \in kept : Rank(i) = j <=> i = from + j
    BY <1>4, <2>2
  <2> QED
    BY <2>1, <2>3
<1>7. \A j \in 1..(to - from) : Kept(list, S)[j] = list[from + j]
  BY <1>3, <1>4, <1>6
<1>8. DOMAIN Kept(list, S) = 1..(to - from) /\ Kept(list, S) \in Seq(T)
  BY <1>3, <1>4, KeptInOrder
<1>9. to - from \in Nat
  BY <1>2
<1>10. Len(Kept(list, S)) = to - from
  BY <1>8, <1>9, LenProperties
<1> QED
  BY <1>7, <1>10

\* A set of natural numbers that is not empty has a least member.
LEMMA LeastMember ==
  ASSUME NEW S \in SUBSET Nat, S # {}
  PROVE  \E l \in S : \A k \in S : l <= k
<1>1. PICK l \in S : \A k \in S : ~(<<k, l>> \in OpToRel(<, Nat))
  BY NatLessThanWellFounded, WFMin
<1>2. \A k \in S : ~(k < l)
  BY <1>1 DEF OpToRel
<1>3. l \in Nat /\ \A k \in S : k \in Nat
  OBVIOUS
<1> QED
  BY <1>2, <1>3

\* A set of positions that holds those before each of its own is 1..m.
LEMMA InitialSegment ==
  ASSUME NEW n \in Nat, NEW K \in SUBSET (1..n),
         \A j \in K : \A i \in 1..(j - 1) : i \in K
  PROVE  \E m \in 0..n : K = 1..m
<1> DEFINE missing == {i \in 1..(n + 1) : i \notin K}
<1>1. missing \subseteq Nat /\ n + 1 \in missing
  OBVIOUS
<1>2. PICK l \in missing : \A k \in missing : ~(k < l)
  <2> HIDE DEF missing
  <2>1. missing \in SUBSET Nat /\ missing # {}
    BY <1>1
  <2>2. PICK l \in missing : \A k \in missing : l <= k
    BY <2>1, LeastMember
  <2> QED
    BY <2>1, <2>2
<1>3. \A i \in 1..(l - 1) : i \in K
  BY <1>2
<1>4. \A i \in K : i < l
  <2> SUFFICES ASSUME NEW i \in K, ~(i < l) PROVE FALSE
    OBVIOUS
  <2>1. i # l
    BY <1>2
  <2>2. l \in 1..(i - 1)
    BY <1>2, <2>1
  <2> QED
    BY <1>2, <2>2
<1>5. K = 1..(l - 1)
  <2>1. l \in Nat /\ \A i \in K : i \in Nat /\ 1 <= i
    BY <1>2
  <2>2. \A i \in K : i \in 1..(l - 1)
    BY <1>4, <2>1
  <2> QED
    BY <1>3, <2>2, Zenon
<1> QED
  BY <1>2, <1>5

-----------------------------------------------------------------------------
(* Lists without repetition.                                               *)

LEMMA AppendedOnce ==
  ASSUME NEW T, NEW s \in Seq(T), NEW e \in T, IsInjective(s), e \notin ToSet(s)
  PROVE  /\ IsInjective(Append(s, e))
         /\ ToSet(Append(s, e)) = ToSet(s) \cup {e}
<1>1. DOMAIN s = 1..Len(s) /\ Len(s) \in Nat
  BY LenProperties
<1>2. /\ Append(s, e) \in Seq(T)
      /\ Len(Append(s, e)) = Len(s) + 1
      /\ \A i \in 1..Len(s) : Append(s, e)[i] = s[i]
      /\ Append(s, e)[Len(s) + 1] = e
  BY AppendProperties
<1>3. DOMAIN Append(s, e) = 1..(Len(s) + 1)
  BY <1>2, LenProperties
<1>4. \A i \in 1..Len(s) : s[i] \in ToSet(s)
  BY <1>1 DEF ToSet
<1>5. IsInjective(Append(s, e))
  <2> SUFFICES ASSUME NEW a \in 1..(Len(s) + 1), NEW b \in 1..(Len(s) + 1),
                      Append(s, e)[a] = Append(s, e)[b]
               PROVE  a = b
    BY <1>3 DEF IsInjective
  <2>1. CASE a \in 1..Len(s) /\ b \in 1..Len(s)
    BY <1>1, <1>2, <2>1 DEF IsInjective
  <2>2. CASE a = Len(s) + 1 \/ b = Len(s) + 1
    BY <1>1, <1>2, <1>4, <2>2
  <2> QED
    BY <1>1, <2>1, <2>2
<1>6. \A x \in ToSet(Append(s, e)) : x \in ToSet(s) \cup {e}
  <2> SUFFICES ASSUME NEW i \in 1..(Len(s) + 1)
               PROVE  Append(s, e)[i] \in ToSet(s) \cup {e}
    BY <1>3 DEF ToSet
  <2> QED
    BY <1>1, <1>2, <1>4
<1>7. \A x \in ToSet(s) \cup {e} : x \in ToSet(Append(s, e))
  <2>1. \A i \in 1..(Len(s) + 1) : Append(s, e)[i] \in ToSet(Append(s, e))
    BY <1>3 DEF ToSet
  <2>2. e \in ToSet(Append(s, e))
    BY <1>1, <1>2, <2>1
  <2>3. \A i \in 1..Len(s) : s[i] \in ToSet(Append(s, e))
    BY <1>1, <1>2, <2>1
  <2> QED
    BY <1>1, <2>2, <2>3 DEF ToSet
<1> QED
  BY <1>5, <1>6, <1>7

LEMMA TailWithoutHead ==
  ASSUME NEW T, NEW s \in Seq(T), IsInjective(s), s # <<>>
  PROVE  /\ Head(s) \in ToSet(s)
         /\ Tail(s) \in Seq(T) /\ IsInjective(Tail(s))
         /\ ToSet(Tail(s)) = ToSet(s) \ {Head(s)}
<1>1. DOMAIN s = 1..Len(s) /\ Len(s) \in Nat /\ Len(s) # 0
  BY LenProperties, EmptySeq
<1>2. /\ Tail(s) \in Seq(T)
      /\ Len(Tail(s)) = Len(s) - 1
      /\ \A i \in 1..(Len(s) - 1) : Tail(s)[i] = s[i + 1]
  BY HeadTailProperties
<1>3. DOMAIN Tail(s) = 1..(Len(s) - 1)
  BY <1>2, LenProperties
<1>4. Head(s) = s[1]
  OBVIOUS
<1>5. IsInjective(Tail(s))
  <2> SUFFICES ASSUME NEW a \in 1..(Len(s) - 1), NEW b \in 1..(Len(s) - 1),
                      Tail(s)[a] = Tail(s)[b]
               PROVE  a = b
    BY <1>3 DEF IsInjective
  <2>1. a + 1 \in DOMAIN s /\ b + 1 \in DOMAIN s /\ s[a + 1] = s[b + 1]
    BY <1>1, <1>2
  <2>2. a + 1 = b + 1
    BY <2>1 DEF IsInjective
  <2> QED
    BY <2>2, <1>1
<1>6. \A x \in ToSet(Tail(s)) : x \in ToSet(s) /\ x # Head(s)
  <2> SUFFICES ASSUME NEW i \in 1..(Len(s) - 1)
               PROVE  Tail(s)[i] \in ToSet(s) /\ Tail(s)[i] # s[1]
    BY <1>3, <1>4 DEF ToSet
  <2>1. i + 1 \in DOMAIN s /\ 1 \in DOMAIN s /\ i + 1 # 1 /\ Tail(s)[i] = s[i + 1]
    BY <1>1, <1>2
  <2> QED
    BY <2>1 DEF ToSet, IsInjective
<1>7. \A x \in ToSet(s) \ {Head(s)} : x \in ToSet(Tail(s))
  <2> SUFFICES ASSUME NEW i \in DOMAIN s, s[i] # s[1]
               PROVE  s[i] \in ToSet(Tail(s))
    BY <1>4 DEF ToSet
  <2>1. i - 1 \in DOMAIN Tail(s) /\ Tail(s)[i - 1] = s[i]
    BY <1>1, <1>2, <1>3
  <2> QED
    BY <2>1 DEF ToSet
<1>8. Head(s) \in ToSet(s)
  BY <1>1, <1>4 DEF ToSet
<1> QED
  BY <1>2, <1>5, <1>6, <1>7, <1>8

LEMMA JoinedOnce ==
  ASSUME NEW T, NEW s \in Seq(T), NEW t \in Seq(T), IsInjective(s), IsInjective(t),
         ToSet(s) \cap ToSet(t) = {}
  PROVE  /\ s \o t \in Seq(T) /\ IsInjective(s \o t)
         /\ ToSet(s \o t) = ToSet(s) \cup ToSet(t)
<1>1. /\ DOMAIN s = 1..Len(s) /\ Len(s) \in Nat
      /\ DOMAIN t = 1..Len(t) /\ Len(t) \in Nat
  BY LenProperties
<1>2. /\ s \o t \in Seq(T)
      /\ Len(s \o t) = Len(s) + Len(t)
      /\ \A i \in 1..(Len(s) + Len(t)) :
           (s \o t)[i] = IF i <= Len(s) THEN s[i] ELSE t[i - Len(s)]
  BY ConcatProperties
<1>3. DOMAIN (s \o t) = 1..(Len(s) + Len(t))
  BY <1>2, LenProperties
<1>4. \A i \in 1..(Len(s) + Len(t)) :
         \/ i \in DOMAIN s /\ (s \o t)[i] = s[i] /\ s[i] \in ToSet(s)
         \/ i - Len(s) \in DOMAIN t /\ (s \o t)[i] = t[i - Len(s)]
              /\ t[i - Len(s)] \in ToSet(t)
  <2> SUFFICES ASSUME NEW i \in 1..(Len(s) + Len(t))
               PROVE  \/ i \in DOMAIN s /\ (s \o t)[i] = s[i] /\ s[i] \in ToSet(s)
                      \/ i - Len(s) \in DOMAIN t /\ (s \o t)[i] = t[i - Len(s)]
                           /\ t[i - Len(s)] \in ToSet(t)
    OBVIOUS
  <2>1. CASE i <= Len(s)
    BY <1>1, <1>2, <2>1 DEF ToSet
  <2>2. CASE ~(i <= Len(s))
    <3>1. i - Len(s) \in DOMAIN t
      BY <1>1, <2>2
    <3> QED
      BY <1>2, <2>2, <3>1 DEF ToSet
  <2> QED
    BY <2>1, <2>2
<1>5. IsInjective(s \o t)
  <2> SUFFICES ASSUME NEW a \in 1..(Len(s) + Len(t)), NEW b \in 1..(Len(s) + Len(t)),
                      (s \o t)[a] = (s \o t)[b]
               PROVE  a = b
    BY <1>3 DEF IsInjective
  <2>1. CASE a \in DOMAIN s /\ b \in DOMAIN s
    BY <1>1, <1>2, <2>1 DEF IsInjective
  <2>2. CASE a \notin DOMAIN s /\ b \notin DOMAIN s
    <3>1. /\ a - Len(s) \in DOMAIN t /\ b - Len(s) \in DOMAIN t
          /\ t[a - Len(s)] = t[b - Len(s)]
      BY <1>4, <2>2
    <3>2. a - Len(s) = b - Len(s)
      BY <3>1 DEF IsInjective
    <3> QED
      BY <3>2, <1>1
  <2>3. CASE (a \in DOMAIN s) # (b \in DOMAIN s)
    <3>1. \/ (s \o t)[a] \in ToSet(s) /\ (s \o t)[b] \in ToSet(t)
          \/ (s \o t)[a] \in ToSet(t) /\ (s \o t)[b] \in ToSet(s)
      <4>1. CASE a \in DOMAIN s /\ b \notin DOMAIN s
        BY <4>1, <1>1, <1>4, <1>2 DEF ToSet
      <4>2. CASE a \notin DOMAIN s /\ b \in DOMAIN s
        BY <4>2, <1>1, <1>4, <1>2 DEF ToSet
      <4> QED
        BY <2>3, <4>1, <4>2
    <3> QED
      BY <3>1
  <2> QED
    BY <2>1, <2>2, <2>3
<1>6. \A x \in ToSet(s \o t) : x \in ToSet(s) \cup ToSet(t)
  <2> SUFFICES ASSUME NEW i \in 1..(Len(s) + Len(t))
               PROVE  (s \o t)[i] \in ToSet(s) \cup ToSet(t)
    BY <1>3 DEF ToSet
  <2> QED
    BY <1>4
<1>7. \A i \in DOMAIN s : s[i] \in ToSet(s \o t)
  <2> SUFFICES ASSUME NEW i \in DOMAIN s
               PROVE  s[i] \in ToSet(s \o t)
    OBVIOUS
  <2>1. i \in DOMAIN (s \o t) /\ (s \o t)[i] = s[i]
    BY <1>1, <1>2, <1>3
  <2> QED
    BY <2>1 DEF ToSet
<1>8. \A i \in DOMAIN t : t[i] \in ToSet(s \o t)
  <2> SUFFICES ASSUME NEW i \in DOMAIN t
               PROVE  t[i] \in ToSet(s \o t)
    OBVIOUS
  <2>1. i + Len(s) \in DOMAIN (s \o t) /\ (s \o t)[i + Len(s)] = t[i]
    BY <1>1, <1>2, <1>3
  <2> QED
    BY <2>1 DEF ToSet
<1>9. \A x \in ToSet(s) \cup ToSet(t) : x \in ToSet(s \o t)
  BY <1>7, <1>8 DEF ToSet
<1> QED
  BY <1>2, <1>5, <1>6, <1>9

\* Where the elements of a concatenation stand.
LEMMA JoinedPositions ==
  ASSUME NEW T
  PROVE  \A s, t \in Seq(T) :
           /\ s \o t \in Seq(T)
           /\ Len(s) \in Nat /\ Len(t) \in Nat
           /\ DOMAIN s = 1..Len(s) /\ DOMAIN t = 1..Len(t)
           /\ Len(s \o t) = Len(s) + Len(t)
           /\ DOMAIN (s \o t) = 1..(Len(s) + Len(t))
           /\ \A i \in 1..Len(s) : (s \o t)[i] = s[i]
           /\ \A i \in 1..Len(t) : (s \o t)[Len(s) + i] = t[i]
           /\ \A i \in DOMAIN (s \o t) :
                i > Len(s) => i - Len(s) \in DOMAIN t /\ (s \o t)[i] = t[i - Len(s)]
<1> SUFFICES ASSUME NEW s \in Seq(T), NEW t \in Seq(T)
             PROVE  /\ s \o t \in Seq(T)
                    /\ Len(s) \in Nat /\ Len(t) \in Nat
                    /\ DOMAIN s = 1..Len(s) /\ DOMAIN t = 1..Len(t)
                    /\ Len(s \o t) = Len(s) + Len(t)
                    /\ DOMAIN (s \o t) = 1..(Len(s) + Len(t))
                    /\ \A i \in 1..Len(s) : (s \o t)[i] = s[i]
                    /\ \A i \in 1..Len(t) : (s \o t)[Len(s) + i] = t[i]
                    /\ \A i \in DOMAIN (s \o t) :
                         i > Len(s) => i - Len(s) \in DOMAIN t /\ (s \o t)[i] = t[i - Len(s)]
  OBVIOUS
<1>1. /\ Len(s) \in Nat /\ Len(t) \in Nat
      /\ DOMAIN s = 1..Len(s) /\ DOMAIN t = 1..Len(t)
  BY LenProperties
<1>2. /\ s \o t \in Seq(T)
      /\ Len(s \o t) = Len(s) + Len(t)
      /\ \A i \in 1..(Len(s) + Len(t)) :
           (s \o t)[i] = IF i <= Len(s) THEN s[i] ELSE t[i - Len(s)]
  BY ConcatProperties
<1>3. DOMAIN (s \o t) = 1..(Len(s) + Len(t))
  BY <1>2, LenProperties
<1>4. /\ \A i \in 1..Len(s) : (s \o t)[i] = s[i]
      /\ \A i \in 1..Len(t) : (s \o t)[Len(s) + i] = t[i]
  BY <1>1, <1>2
<1>5. \A i \in DOMAIN (s \o t) :
        i > Len(s) => i - Len(s) \in DOMAIN t /\ (s \o t)[i] = t[i - Len(s)]
  BY <1>1, <1>2, <1>3
<1> QED
  BY <1>1, <1>2, <1>3, <1>4, <1>5

LEMMA LengthIsCardinality ==
  ASSUME NEW T, NEW s \in Seq(T), IsInjective(s)
  PROVE  IsFiniteSet(ToSet(s)) /\ Cardinality(ToSet(s)) = Len(s)
<1>1. DOMAIN s = 1..Len(s) /\ Len(s) \in Nat /\ s \in [1..Len(s) -> T]
  BY LenProperties
<1>2. s \in [1..Len(s) -> ToSet(s)]
  BY <1>1 DEF ToSet
<1>3. s \in Surjection(1..Len(s), ToSet(s))
  BY <1>1, <1>2 DEF Surjection, ToSet
<1>4. s \in Injection(1..Len(s), ToSet(s))
  BY <1>2 DEF Injection
<1>5. IsFiniteSet(1..Len(s)) /\ Cardinality(1..Len(s)) = Len(s)
  BY <1>1, FS_Interval
<1> QED
  BY <1>3, <1>4, <1>5, FS_Surjection
==============================================================================
