--------------------------- MODULE OptimizerProofs ---------------------------
(***************************************************************************)
(* Proofs about the optimizer, for every graph whose nodes do not wait for *)
(* each other: no pass leaves a reference behind, takes away a node that   *)
(* an output names or breaks the order of the list, and, where the node    *)
(* types can express the graph, every output keeps its value after every   *)
(* single rewrite.                                                         *)
(***************************************************************************)
EXTENDS Optimizer, OrderLemmas

-----------------------------------------------------------------------------
(* Lists and recursive functions.                                          *)

\* FirstMentions has the elements of the list, each once.
LEMMA FirstMentionsOnce ==
  ASSUME NEW T, NEW list \in Seq(T)
  PROVE  /\ FirstMentions(list) \in Seq(T)
         /\ IsInjective(FirstMentions(list))
         /\ ToSet(FirstMentions(list)) = ToSet(list)
<1> SUFFICES ASSUME NEW t, t = FirstMentions(list)
             PROVE  t \in Seq(T) /\ IsInjective(t) /\ ToSet(t) = ToSet(list)
  OBVIOUS
<1> DEFINE first == {i \in DOMAIN list : \A k \in 1..(i - 1) : list[k] # list[i]}
<1>1. t = Selected(list, first) /\ first \in SUBSET DOMAIN list
  BY DEF FirstMentions
<1>2. DOMAIN list = 1..Len(list) /\ Len(list) \in Nat
  BY LenProperties
<1>3. \A i \in first : i \in DOMAIN list /\ \A k \in 1..(i - 1) : list[k] # list[i]
  OBVIOUS
<1>4. \A i \in DOMAIN list : \E k \in first : list[k] = list[i]
  <2> SUFFICES ASSUME NEW i \in DOMAIN list PROVE \E k \in first : list[k] = list[i]
    OBVIOUS
  <2> DEFINE same == {k \in DOMAIN list : list[k] = list[i]}
  <2>1. same \in SUBSET Nat /\ i \in same
    BY <1>2
  <2>2. PICK l \in same : \A k \in same : l <= k
    BY <2>1, LeastMember
  <2>3. \A k \in 1..(l - 1) : k \in DOMAIN list /\ ~(l <= k)
    BY <1>2
  <2>4. \A k \in 1..(l - 1) : list[k] # list[l]
    BY <2>2, <2>3
  <2> QED
    BY <2>4
<1> HIDE DEF first
<1>5. /\ t \in Seq(T)
      /\ \E at \in [DOMAIN t -> DOMAIN list] :
           /\ \A j \in DOMAIN t : t[j] = list[at[j]] /\ at[j] \in first
           /\ \A i \in first : \E j \in DOMAIN t : at[j] = i
           /\ \A j, k \in DOMAIN t : j < k => at[j] < at[k]
  BY <1>1, SelectedInOrder
<1>6. PICK at \in [DOMAIN t -> DOMAIN list] :
        /\ \A j \in DOMAIN t : t[j] = list[at[j]] /\ at[j] \in first
        /\ \A i \in first : \E j \in DOMAIN t : at[j] = i
        /\ \A j, k \in DOMAIN t : j < k => at[j] < at[k]
  BY <1>5
<1>7. DOMAIN t = 1..Len(t) /\ Len(t) \in Nat
  BY <1>5, LenProperties
<1>8. \A j, k \in DOMAIN t : j < k => t[j] # t[k]
  <2> SUFFICES ASSUME NEW j \in DOMAIN t, NEW k \in DOMAIN t, j < k
               PROVE  t[j] # t[k]
    OBVIOUS
  <2>1. at[j] < at[k] /\ at[j] \in DOMAIN list /\ at[k] \in first
    BY <1>6
  <2>2. at[j] \in 1..(at[k] - 1)
    BY <1>2, <1>3, <2>1
  <2>3. list[at[j]] # list[at[k]]
    BY <1>3, <2>1, <2>2
  <2> QED
    BY <1>6, <2>3
<1>9. \A j, k \in DOMAIN t : t[j] = t[k] => j = k
  BY <1>7, <1>8
<1>10. IsInjective(t)
  BY <1>9 DEF IsInjective
<1>11. \A j \in DOMAIN t : t[j] \in {list[i] : i \in DOMAIN list}
  BY <1>6
<1>12. \A i \in DOMAIN list : \E j \in DOMAIN t : t[j] = list[i]
  BY <1>4, <1>6
<1>13. ToSet(t) = ToSet(list)
  BY <1>11, <1>12 DEF ToSet
<1> QED
  BY <1>5, <1>10, <1>13

LEMMA OneBelow ==
  \A r, l \in Nat : r < l => r < l - 1 \/ r = l - 1
  OBVIOUS

\* G gives the value at n from the values at lower ranks, which are below B.
LooksDown(N, V, B, rank, G) ==
  /\ V # {} /\ B \in Nat /\ rank \in [N -> Nat] /\ \A n \in N : rank[n] < B
  /\ G \in [N \X [N -> V] -> V]
  /\ \A n \in N : \A f, h \in [N -> V] :
       (\A m \in N : rank[m] < rank[n] => f[m] = h[m]) => G[<<n, f>>] = G[<<n, h>>]

\* A function has the values that G gives.
Solves(N, V, G) == \E f \in [N -> V] : \A n \in N : f[n] = G[<<n, f>>]

\* A function whose value at n is given by its values at lower ranks exists. The
\* ranks are bounded, so that it is reached rank by rank.
LEMMA RankedRecursion ==
  ASSUME NEW N, NEW V, NEW B, NEW rank, NEW G, LooksDown(N, V, B, rank, G)
  PROVE  Solves(N, V, G)
<1> SUFFICES \E f \in [N -> V] : \A n \in N : f[n] = G[<<n, f>>]
  BY DEF Solves
<1>0. /\ V # {} /\ B \in Nat /\ rank \in [N -> Nat] /\ \A n \in N : rank[n] < B
      /\ G \in [N \X [N -> V] -> V]
      /\ \A n \in N : \A f, h \in [N -> V] :
           (\A m \in N : rank[m] < rank[n] => f[m] = h[m]) => G[<<n, f>>] = G[<<n, h>>]
  BY DEF LooksDown
<1> DEFINE Upto(f, k) == \A n \in N : rank[n] < k => f[n] = G[<<n, f>>]
           stuck == {k \in Nat : ~ \E f \in [N -> V] : Upto(f, k)}
<1>1. stuck = {}
  <2> SUFFICES ASSUME stuck # {} PROVE FALSE
    OBVIOUS
  <2>1. PICK l \in stuck : \A k \in stuck : l <= k
    <3>1. stuck \in SUBSET Nat
      OBVIOUS
    <3> HIDE DEF stuck
    <3> QED
      BY <3>1, LeastMember
  <2>2. l # 0
    <3> PICK v0 \in V : TRUE
      BY <1>0
    <3>1. [n \in N |-> v0] \in [N -> V]
      OBVIOUS
    <3>2. Upto([n \in N |-> v0], 0)
      BY <1>0
    <3> QED
      BY <3>1, <3>2
  <2>3. l - 1 \in Nat /\ ~(l <= l - 1)
    BY <2>2
  <2>4. l - 1 \notin stuck
    BY <2>1, <2>3
  <2>5. PICK f \in [N -> V] : Upto(f, l - 1)
    BY <2>3, <2>4
  <2> DEFINE h == [n \in N |-> IF rank[n] = l - 1 THEN G[<<n, f>>] ELSE f[n]]
  <2>6. h \in [N -> V]
    <3>1. \A n \in N : G[<<n, f>>] \in V
      BY <1>0
    <3> QED
      BY <3>1
  <2>7. \A n \in N : rank[n] < l - 1 => h[n] = f[n]
    OBVIOUS
  <2>8. \A n \in N : rank[n] = l - 1 => h[n] = G[<<n, f>>]
    OBVIOUS
  <2> HIDE DEF h
  <2>9. \A n \in N : rank[n] < l => G[<<n, f>>] = G[<<n, h>>]
    <3> SUFFICES ASSUME NEW n \in N, rank[n] < l PROVE G[<<n, f>>] = G[<<n, h>>]
      OBVIOUS
    <3>1. \A m \in N : rank[m] < rank[n] => rank[m] < l - 1
      <4>1. l \in Nat /\ rank[n] \in Nat /\ \A m \in N : rank[m] \in Nat
        BY <1>0
      <4> QED
        BY <4>1
    <3>2. \A m \in N : rank[m] < rank[n] => f[m] = h[m]
      BY <2>7, <3>1
    <3> QED
      BY <1>0, <2>6, <3>2
  <2>10. \A n \in N : rank[n] < l => rank[n] < l - 1 \/ rank[n] = l - 1
    <3>1. l \in Nat /\ \A n \in N : rank[n] \in Nat
      BY <1>0
    <3> QED
      BY <3>1, OneBelow, Zenon
  <2>11. Upto(h, l)
    BY <2>5, <2>7, <2>8, <2>9, <2>10
  <2>12. l \in stuck /\ l \in Nat
    OBVIOUS
  <2> QED
    BY <2>6, <2>11, <2>12
<1>2. PICK f \in [N -> V] : Upto(f, B)
  BY <1>0, <1>1
<1> QED
  BY <1>0, <1>2

\* A joined list has the elements of both.
LEMMA JoinedElements ==
  ASSUME NEW T
  PROVE  \A s, t \in Seq(T) : s \o t \in Seq(T) /\ ToSet(s \o t) = ToSet(s) \cup ToSet(t)
<1> SUFFICES ASSUME NEW s \in Seq(T), NEW t \in Seq(T)
             PROVE  s \o t \in Seq(T) /\ ToSet(s \o t) = ToSet(s) \cup ToSet(t)
  OBVIOUS
<1>1. PICK j : j = s \o t
  OBVIOUS
<1>2. /\ j \in Seq(T) /\ Len(s) \in Nat /\ Len(t) \in Nat
      /\ DOMAIN s = 1..Len(s) /\ DOMAIN t = 1..Len(t)
      /\ DOMAIN j = 1..(Len(s) + Len(t))
      /\ \A i \in 1..Len(s) : j[i] = s[i]
      /\ \A i \in 1..Len(t) : j[Len(s) + i] = t[i]
      /\ \A i \in DOMAIN j : i > Len(s) => i - Len(s) \in DOMAIN t /\ j[i] = t[i - Len(s)]
  BY <1>1, JoinedPositions
<1>3. \A i \in DOMAIN s : i \in DOMAIN j /\ j[i] = s[i]
  BY <1>2
<1>4. \A i \in DOMAIN t : Len(s) + i \in DOMAIN j /\ j[Len(s) + i] = t[i]
  BY <1>2
<1>5. \A i \in DOMAIN j : \/ i \in DOMAIN s /\ j[i] = s[i]
                          \/ \E k \in DOMAIN t : j[i] = t[k]
  BY <1>2
<1>6. ToSet(j) = ToSet(s) \cup ToSet(t)
  <2>1. \A e \in ToSet(s) \cup ToSet(t) : e \in ToSet(j)
    BY <1>3, <1>4 DEF ToSet
  <2>2. \A e \in ToSet(j) : e \in ToSet(s) \cup ToSet(t)
    BY <1>5 DEF ToSet
  <2> QED
    BY <2>1, <2>2
<1> QED
  BY <1>1, <1>2, <1>6

\* A flattened list has the elements of its lists.
LEMMA FlattenedElements ==
  ASSUME NEW T, NEW ss \in Seq(Seq(T))
  PROVE  /\ FlattenSeq(ss) \in Seq(T)
         /\ ToSet(FlattenSeq(ss)) = UNION {ToSet(ss[i]) : i \in DOMAIN ss}
<1>1. DOMAIN ss = 1..Len(ss) /\ Len(ss) \in Nat /\ \A i \in 1..Len(ss) : ss[i] \in Seq(T)
  BY LenProperties, ElementOfSeq
<1>2. CASE Len(ss) = 0
  <2>1. FlattenSeq(ss) = <<>> /\ ss = <<>>
    BY <1>2, EmptySeq DEF FlattenSeq
  <2> QED
    BY <1>1, <1>2, <2>1 DEF ToSet
<1>3. CASE Len(ss) # 0
  <2> DEFINE N == 1..Len(ss)
             Step(i, f) == IF i = 1 THEN ss[i] ELSE f[i - 1] \o ss[i]
             G == [p \in N \X [N -> Seq(T)] |-> Step(p[1], p[2])]
             flatten == CHOOSE f : f = [i \in N |-> Step(i, f)]
  <2>1. FlattenSeq(ss) = flatten[Len(ss)]
    BY <1>3 DEF FlattenSeq
  <2>2. \A i \in N : i # 1 => i - 1 \in N
    BY <1>1
  <2>3. \A s, t \in Seq(T) : s \o t \in Seq(T)
    BY ConcatProperties
  <2>4. \A i \in N, f \in [N -> Seq(T)] : Step(i, f) \in Seq(T)
    BY <1>1, <2>2, <2>3
  <2>5. \E f \in [N -> Seq(T)] : \A i \in N : f[i] = Step(i, f)
    <3> DEFINE rank == [i \in N |-> i]
    <3>1. rank \in [N -> Nat] /\ Len(ss) + 1 \in Nat /\ \A i \in N : rank[i] < Len(ss) + 1
      BY <1>1
    <3>2. G \in [N \X [N -> Seq(T)] -> Seq(T)]
      BY <2>4
    <3>3. \A i \in N : \A f, h \in [N -> Seq(T)] :
            (\A m \in N : rank[m] < rank[i] => f[m] = h[m]) => Step(i, f) = Step(i, h)
      <4> SUFFICES ASSUME NEW i \in N, NEW f \in [N -> Seq(T)], NEW h \in [N -> Seq(T)],
                          \A m \in N : rank[m] < rank[i] => f[m] = h[m]
                   PROVE  Step(i, f) = Step(i, h)
        OBVIOUS
      <4>1. CASE i = 1
        BY <4>1
      <4>2. CASE i # 1
        <5>1. i - 1 \in N /\ rank[i - 1] < rank[i]
          BY <1>1, <2>2, <4>2
        <5> QED
          BY <4>2, <5>1
      <4> QED
        BY <4>1, <4>2
    <3>4. \A i \in N : \A f \in [N -> Seq(T)] : G[<<i, f>>] = Step(i, f)
      OBVIOUS
    <3> HIDE DEF Step, G, rank
    <3>5. <<>> \in Seq(T)
      OBVIOUS
    <3>6. \A i \in N : \A f, h \in [N -> Seq(T)] :
            (\A m \in N : rank[m] < rank[i] => f[m] = h[m]) => G[<<i, f>>] = G[<<i, h>>]
      <4> SUFFICES ASSUME NEW i \in N, NEW f \in [N -> Seq(T)], NEW h \in [N -> Seq(T)],
                          \A m \in N : rank[m] < rank[i] => f[m] = h[m]
                   PROVE  G[<<i, f>>] = G[<<i, h>>]
        OBVIOUS
      <4>1. G[<<i, f>>] = Step(i, f) /\ G[<<i, h>>] = Step(i, h)
        BY <3>4
      <4> QED
        BY <3>3, <4>1
    <3> DEFINE B == Len(ss) + 1
    <3>7. LooksDown(N, Seq(T), B, rank, G)
      BY <3>1, <3>2, <3>5, <3>6 DEF LooksDown
    <3>8. Solves(N, Seq(T), G)
      BY <3>7, RankedRecursion
    <3> HIDE DEF N
    <3> QED
      BY <3>4, <3>8 DEF Solves
  <2>6. flatten = [i \in N |-> Step(i, flatten)]
    <3>1. PICK f \in [N -> Seq(T)] : \A i \in N : f[i] = Step(i, f)
      BY <2>5
    <3> HIDE DEF N, Step
    <3>2. f = [i \in N |-> Step(i, f)]
      BY <3>1
    <3> QED
      BY <3>2
  <2> HIDE DEF flatten
  <2>7. flatten[1] = ss[1] /\ \A i \in N : i # 1 => flatten[i] = flatten[i - 1] \o ss[i]
    <3> HIDE DEF Step
    <3>1. \A i \in N : flatten[i] = Step(i, flatten)
      BY <2>6
    <3>2. 1 \in N
      BY <1>1, <1>3
    <3>3. \A i \in N : flatten[i] = IF i = 1 THEN ss[i] ELSE flatten[i - 1] \o ss[i]
      BY <3>1 DEF Step
    <3> HIDE DEF N
    <3> QED
      BY <3>2, <3>3
  <2> DEFINE Right(i) == /\ flatten[i] \in Seq(T)
                         /\ ToSet(flatten[i]) = UNION {ToSet(ss[k]) : k \in 1..i}
             wrong == {i \in N : ~Right(i)}
  <2>8. wrong = {}
    <3> SUFFICES ASSUME wrong # {} PROVE FALSE
      OBVIOUS
    <3>1. wrong \in SUBSET Nat
      BY <1>1
    <3>2. PICK l \in wrong : \A k \in wrong : l <= k
      <4> HIDE DEF wrong
      <4> QED
        BY <3>1, LeastMember
    <3>3. l \in N /\ ~Right(l)
      OBVIOUS
    <3>4. l # 1
      <4>1. 1..1 = {1}
        OBVIOUS
      <4>2. UNION {ToSet(ss[k]) : k \in 1..1} = ToSet(ss[1])
        BY <4>1
      <4> QED
        BY <1>1, <2>7, <3>3, <4>2
    <3>5. l - 1 \in N /\ ~(l <= l - 1) /\ 1..l = (1..(l - 1)) \cup {l}
      BY <1>1, <2>2, <3>3, <3>4
    <3>6. Right(l - 1)
      BY <3>2, <3>5
    <3>7. flatten[l] = flatten[l - 1] \o ss[l] /\ ss[l] \in Seq(T)
      BY <1>1, <2>7, <3>3, <3>4
    <3>8. \A s, t \in Seq(T) : s \o t \in Seq(T) /\ ToSet(s \o t) = ToSet(s) \cup ToSet(t)
      BY JoinedElements
    <3>9. flatten[l] \in Seq(T) /\ ToSet(flatten[l]) = ToSet(flatten[l - 1]) \cup ToSet(ss[l])
      BY <3>6, <3>7, <3>8
    <3>10. UNION {ToSet(ss[k]) : k \in 1..l} = (UNION {ToSet(ss[k]) : k \in 1..(l - 1)}) \cup ToSet(ss[l])
      BY <3>5
    <3> QED
      BY <3>3, <3>6, <3>9, <3>10
  <2>9. Right(Len(ss))
    <3>1. Len(ss) \in N
      BY <1>1, <1>3
    <3>2. \A i \in N : i \notin wrong => Right(i)
      OBVIOUS
    <3> HIDE DEF Right, wrong, N
    <3> QED
      BY <2>8, <3>1, <3>2
  <2> QED
    BY <1>1, <2>1, <2>9
<1> QED
  BY <1>2, <1>3

-----------------------------------------------------------------------------
(* Ranks.                                                                  *)

\* A rank under which every node of ids comes after what it reads.
FallsIn(rank, ids, ins) ==
  \A m \in ids : \A i \in DOMAIN ins[m] : rank[ins[m][i]] < rank[m]

\* Ranks of the first nodes of a graph, none above their number: the ranked
\* ones read each other and graph inputs only.
RankedPart(g, S, rank) ==
  /\ S \subseteq ToSet(g.nodes) /\ rank \in [Names -> Nat]
  /\ \A n \in Names : rank[n] <= Cardinality(S)
  /\ \A n \in Names : n \notin S => rank[n] = 0
  /\ \A m \in S : \A i \in DOMAIN g.inputs[m] :
       g.inputs[m][i] \notin ToSet(g.nodes) \ S /\ rank[g.inputs[m][i]] < rank[m]

\* As long as a node is not ranked, one of them can be.
LEMMA OneMoreRank ==
  ASSUME NEW g \in OptGraphs, NEW S, NEW rank, RankedPart(g, S, rank),
         S # ToSet(g.nodes)
  PROVE  \E n \in ToSet(g.nodes) \ S, r \in [Names -> Nat] : RankedPart(g, S \cup {n}, r)
<1> DEFINE ids == ToSet(g.nodes)
<1>1. /\ g.nodes \in Seq(Names) /\ IsInjective(g.nodes) /\ g.inputs \in [Names -> Seq(Names)]
      /\ \A U \in SUBSET ids : U # {} => \E n \in U : ToSet(g.inputs[n]) \cap U = {}
  BY OptGraphsAssumption
<1>2. IsFiniteSet(ids) /\ ids \subseteq Names
  <2>1. \A i \in DOMAIN g.nodes : g.nodes[i] \in Names
    BY <1>1, LenProperties
  <2>2. IsFiniteSet(ids)
    BY <1>1, LengthIsCardinality
  <2> QED
    BY <2>1, <2>2 DEF ToSet
<1>3. /\ S \subseteq ids /\ rank \in [Names -> Nat]
      /\ \A n \in Names : rank[n] <= Cardinality(S)
      /\ \A n \in Names : n \notin S => rank[n] = 0
      /\ \A m \in S : \A i \in DOMAIN g.inputs[m] :
           g.inputs[m][i] \notin ids \ S /\ rank[g.inputs[m][i]] < rank[m]
  BY DEF RankedPart
<1>4. PICK n \in ids \ S : ToSet(g.inputs[n]) \cap (ids \ S) = {}
  BY <1>1, <1>3
<1>5. \A m \in ids : \A i \in DOMAIN g.inputs[m] : g.inputs[m][i] \in Names
  BY <1>1, <1>2, LenProperties
<1>6. \A i \in DOMAIN g.inputs[n] : g.inputs[n][i] \notin ids \ S
  BY <1>4 DEF ToSet
<1> HIDE DEF ids
<1>7. IsFiniteSet(S) /\ Cardinality(S) \in Nat /\ Cardinality(S \cup {n}) = Cardinality(S) + 1
  BY <1>2, <1>3, <1>4, FS_Subset, FS_CardinalityType, FS_AddElement
<1> DEFINE r == [m \in Names |-> IF m = n THEN Cardinality(S) + 1 ELSE rank[m]]
           c == Cardinality(S)
<1>8. r \in [Names -> Nat]
  BY <1>3, <1>7
<1>9. n \in Names /\ r[n] = c + 1 /\ \A m \in Names : m # n => r[m] = rank[m]
  BY <1>2, <1>4
<1> HIDE DEF r, c
<1>10. c \in Nat /\ Cardinality(S \cup {n}) = c + 1 /\ \A m \in Names : rank[m] <= c
  BY <1>3, <1>7 DEF c
<1>11. \A m \in Names : rank[m] \in Nat
  BY <1>3
<1>12. \A m \in Names : r[m] <= c + 1
  BY <1>9, <1>10, <1>11
<1>13. \A m \in Names : m \notin S \cup {n} => r[m] = 0
  BY <1>3, <1>9
<1>14. \A m \in S \cup {n} : \A i \in DOMAIN g.inputs[m] :
         g.inputs[m][i] \notin ids \ (S \cup {n}) /\ r[g.inputs[m][i]] < r[m]
  <2> SUFFICES ASSUME NEW m \in S \cup {n}, NEW i \in DOMAIN g.inputs[m]
               PROVE  g.inputs[m][i] \notin ids \ (S \cup {n}) /\ r[g.inputs[m][i]] < r[m]
    OBVIOUS
  <2> PICK y : y = g.inputs[m][i]
    OBVIOUS
  <2>1. y \in Names /\ m \in Names /\ y \notin ids \ S /\ y # n
    BY <1>2, <1>3, <1>4, <1>5, <1>6
  <2>2. r[y] = rank[y] /\ rank[y] \in Nat /\ rank[y] <= c
    BY <1>9, <1>10, <1>11, <2>1
  <2>3. CASE m = n
    BY <1>9, <1>10, <2>1, <2>2, <2>3
  <2>4. CASE m # n
    <3>1. m \in S /\ rank[y] < rank[m] /\ r[m] = rank[m]
      BY <1>3, <1>9, <2>1, <2>4
    <3> QED
      BY <2>1, <2>2, <3>1
  <2> QED
    BY <2>3, <2>4
<1>15. S \cup {n} \subseteq ids
  BY <1>3, <1>4
<1>16. RankedPart(g, S \cup {n}, r)
  BY <1>8, <1>10, <1>12, <1>13, <1>14, <1>15 DEF RankedPart, ids
<1> QED
  BY <1>4, <1>8, <1>16 DEF ids

\* The nodes of a graph that do not wait for each other can be ranked.
LEMMA GraphsHaveRanks ==
  ASSUME NEW g \in OptGraphs
  PROVE  \E rank \in [Names -> Nat] :
           /\ \A n \in Names : rank[n] < Cardinality(ToSet(g.nodes)) + 1
           /\ FallsIn(rank, ToSet(g.nodes), g.inputs)
           /\ Cardinality(ToSet(g.nodes)) \in Nat
<1> DEFINE ids == ToSet(g.nodes)
           left == {c \in Nat : \E S \in SUBSET ids : \E r \in [Names -> Nat] :
                                  RankedPart(g, S, r) /\ c = Cardinality(ids \ S)}
<1>1. IsFiniteSet(ids) /\ Cardinality(ids) \in Nat
  BY OptGraphsAssumption, LengthIsCardinality, FS_CardinalityType
<1>2. \A S \in SUBSET ids : IsFiniteSet(ids \ S) /\ Cardinality(ids \ S) \in Nat
  BY <1>1, FS_Difference, FS_CardinalityType, FS_Subset
<1>3. RankedPart(g, {}, [n \in Names |-> 0])
  BY FS_EmptySet DEF RankedPart
<1>4. Cardinality(ids) \in left
  <2>1. [n \in Names |-> 0] \in [Names -> Nat] /\ {} \in SUBSET ids /\ ids \ {} = ids
    OBVIOUS
  <2> HIDE DEF ids
  <2> QED
    BY <1>1, <1>3, <2>1
<1>5. PICK l \in left : \A c \in left : l <= c
  <2>1. left \in SUBSET Nat /\ left # {}
    BY <1>4
  <2> HIDE DEF left
  <2> QED
    BY <2>1, LeastMember
<1>6. PICK S \in SUBSET ids, r \in [Names -> Nat] : RankedPart(g, S, r) /\ l = Cardinality(ids \ S)
  OBVIOUS
<1>7. S = ids
  <2> SUFFICES ASSUME S # ids PROVE FALSE
    OBVIOUS
  <2>1. PICK n \in ids \ S, s \in [Names -> Nat] : RankedPart(g, S \cup {n}, s)
    BY <1>6, OneMoreRank
  <2> HIDE DEF ids
  <2>2. ids \ (S \cup {n}) = (ids \ S) \ {n} /\ S \cup {n} \in SUBSET ids
    BY <2>1
  <2>3. Cardinality(ids \ (S \cup {n})) = l - 1
    <3> PICK rest : rest = ids \ S
      OBVIOUS
    <3>1. IsFiniteSet(rest) /\ n \in rest /\ Cardinality(rest) = l
      BY <1>2, <1>6, <2>1
    <3>2. Cardinality(rest \ {n}) = Cardinality(rest) - 1
      BY <3>1, FS_RemoveElement
    <3> QED
      BY <2>2, <3>1, <3>2
  <2>4. Cardinality(ids \ (S \cup {n})) \in Nat
    BY <1>2, <2>2
  <2>5. l - 1 \in left
    BY <2>1, <2>2, <2>3, <2>4
  <2>6. l \in Nat
    OBVIOUS
  <2> HIDE DEF left
  <2> QED
    BY <1>5, <2>5, <2>6
<1>8. /\ \A n \in Names : r[n] <= Cardinality(ids)
      /\ \A m \in ids : \A i \in DOMAIN g.inputs[m] : r[g.inputs[m][i]] < r[m]
  BY <1>6, <1>7 DEF RankedPart
<1>9. \A n \in Names : r[n] < Cardinality(ids) + 1
  <2>1. \A n \in Names : r[n] \in Nat /\ r[n] <= Cardinality(ids)
    BY <1>6, <1>8
  <2> QED
    BY <1>1, <2>1
<1>10. FallsIn(r, ids, g.inputs)
  BY <1>8 DEF FallsIn
<1> QED
  BY <1>1, <1>6, <1>9, <1>10

-----------------------------------------------------------------------------
(* Redirections.                                                           *)

\* A bounded rank of the graph as it is now.
CanRank(rank, B) ==
  /\ rank \in [Names -> Nat] /\ B \in Nat /\ \A n \in Names : rank[n] < B
  /\ FallsIn(rank, Nodes, inputs)
  /\ Nodes \subseteq Names /\ inputs \in [Names -> Seq(Names)]

\* What a node reads are names, and they have lower ranks.
LEMMA ReadsAreLower ==
  ASSUME NEW rank, NEW B, CanRank(rank, B)
  PROVE  /\ \A n \in Names : DOMAIN inputs[n] = 1..Len(inputs[n]) /\ Len(inputs[n]) \in Nat
         /\ \A n \in Names : \A i \in DOMAIN inputs[n] : inputs[n][i] \in Names
         /\ \A n \in Nodes : \A i \in DOMAIN inputs[n] : rank[inputs[n][i]] < rank[n]
         /\ \A n \in Nodes : n \in Names
         /\ \A n \in Names : rank[n] \in Nat
<1>1. \A n \in Names : inputs[n] \in Seq(Names)
  BY DEF CanRank
<1>2. \A n \in Names : DOMAIN inputs[n] = 1..Len(inputs[n]) /\ Len(inputs[n]) \in Nat
                       /\ \A i \in DOMAIN inputs[n] : inputs[n][i] \in Names
  BY <1>1, LenProperties
<1>3. \A n \in Nodes : \A i \in DOMAIN inputs[n] : rank[inputs[n][i]] < rank[n]
  BY DEF CanRank, FallsIn
<1> QED
  BY <1>2, <1>3 DEF CanRank

TargetLaw ==
  \A n \in Names :
    /\ Target[n] \in Names
    /\ n \in Redirected => Target[n] = Target[inputs[n][1]]
    /\ n \notin Redirected => Target[n] = n

\* A redirected node is a node with one operand.
LEMMA RedirectedNodes ==
  ASSUME NEW rank, NEW B, CanRank(rank, B)
  PROVE  \A n \in Redirected : /\ n \in Nodes /\ op[n] = "identity"
                               /\ Len(inputs[n]) = 1 /\ DOMAIN inputs[n] = {1}
                               /\ inputs[n][1] \in Names /\ rank[inputs[n][1]] < rank[n]
<1> SUFFICES ASSUME NEW n \in Redirected
             PROVE  /\ n \in Nodes /\ op[n] = "identity"
                    /\ Len(inputs[n]) = 1 /\ DOMAIN inputs[n] = {1}
                    /\ inputs[n][1] \in Names /\ rank[inputs[n][1]] < rank[n]
  OBVIOUS
<1>1. n \in Nodes /\ op[n] = "identity" /\ Len(inputs[n]) = 1
  BY DEF Redirected
<1>2. DOMAIN inputs[n] = 1..1
  BY <1>1, ReadsAreLower
<1>3. DOMAIN inputs[n] = {1} /\ 1 \in DOMAIN inputs[n]
  BY <1>2
<1> QED
  BY <1>1, <1>3, ReadsAreLower

\* Redirections end, as each leads to a lower rank.
LEMMA TargetIsDefined ==
  ASSUME NEW rank, NEW B, CanRank(rank, B)
  PROVE  TargetLaw
<1> DEFINE Step(n, f) == IF n \in Redirected THEN f[inputs[n][1]] ELSE n
           G == [p \in Names \X [Names -> Names] |-> Step(p[1], p[2])]
<1>1. \A n \in Redirected : n \in Names /\ inputs[n][1] \in Names /\ rank[inputs[n][1]] < rank[n]
  BY RedirectedNodes, ReadsAreLower
<1>2. \A n \in Names : \A f \in [Names -> Names] : Step(n, f) \in Names
  BY <1>1
<1>3. \A n \in Names : \A f, h \in [Names -> Names] :
        (\A m \in Names : rank[m] < rank[n] => f[m] = h[m]) => Step(n, f) = Step(n, h)
  BY <1>1
<1>4. Target = CHOOSE f : f = [n \in Names |-> Step(n, f)]
  BY DEF Target
<1>5. \A n \in Names : \A f \in [Names -> Names] : G[<<n, f>>] = Step(n, f)
  OBVIOUS
<1> HIDE DEF Step
<1>6. G \in [Names \X [Names -> Names] -> Names]
  BY <1>2
<1> HIDE DEF G
<1>7. \A n \in Names : \A f, h \in [Names -> Names] :
        (\A m \in Names : rank[m] < rank[n] => f[m] = h[m]) => G[<<n, f>>] = G[<<n, h>>]
  <2> SUFFICES ASSUME NEW n \in Names, NEW f \in [Names -> Names], NEW h \in [Names -> Names],
                      \A m \in Names : rank[m] < rank[n] => f[m] = h[m]
               PROVE  G[<<n, f>>] = G[<<n, h>>]
    OBVIOUS
  <2>1. G[<<n, f>>] = Step(n, f) /\ G[<<n, h>>] = Step(n, h)
    BY <1>5
  <2> QED
    BY <1>3, <2>1
<1>8. \E f \in [Names -> Names] : \A n \in Names : f[n] = Step(n, f)
  <2>1. CASE Names = {}
    <3>1. [n \in Names |-> n] \in [Names -> Names]
      OBVIOUS
    <3> QED
      BY <2>1, <3>1
  <2>2. CASE Names # {}
    <3>1. LooksDown(Names, Names, B, rank, G)
      BY <1>6, <1>7, <2>2 DEF LooksDown, CanRank
    <3>2. Solves(Names, Names, G)
      BY <3>1, RankedRecursion
    <3> QED
      BY <1>5, <3>2 DEF Solves
  <2> QED
    BY <2>1, <2>2
<1>9. PICK f \in [Names -> Names] : \A n \in Names : f[n] = Step(n, f)
  BY <1>8
<1>10. f = [n \in Names |-> Step(n, f)]
  BY <1>9
<1>11. Target = [n \in Names |-> Step(n, Target)]
  BY <1>4, <1>10
<1>12. \A n \in Names : Target[n] = Step(n, Target)
  BY <1>11
<1>13. \A n \in Names : /\ n \in Redirected => Target[n] = Target[inputs[n][1]]
                        /\ n \notin Redirected => Target[n] = n
  BY <1>12 DEF Step
<1> DEFINE astray == {n \in Names : Target[n] \notin Names}
           ranks == {rank[n] : n \in astray}
<1>14. astray = {}
  <2> SUFFICES ASSUME astray # {} PROVE FALSE
    OBVIOUS
  <2>1. ranks \in SUBSET Nat /\ ranks # {}
    BY ReadsAreLower
  <2>2. PICK l \in ranks : \A k \in ranks : l <= k
    <3> HIDE DEF ranks
    <3> QED
      BY <2>1, LeastMember
  <2>3. PICK n \in astray : l = rank[n]
    OBVIOUS
  <2>4. n \in Names /\ Target[n] \notin Names
    OBVIOUS
  <2>5. n \in Redirected
    BY <1>13, <2>4
  <2>6. inputs[n][1] \in astray
    BY <1>1, <1>13, <2>4, <2>5
  <2> PICK r : r = rank[inputs[n][1]]
    OBVIOUS
  <2>7. r \in ranks /\ r < l
    BY <1>1, <2>3, <2>5, <2>6
  <2> HIDE DEF astray, ranks
  <2>8. r \in Nat /\ l \in Nat /\ l <= r
    BY <2>1, <2>2, <2>7
  <2> QED
    BY <2>7, <2>8
<1> QED
  BY <1>13, <1>14 DEF TargetLaw

\* A target is not redirected, has no higher rank, and is the name itself or the
\* operand of a redirected node.
LEMMA TargetsEndTheChain ==
  ASSUME NEW rank, NEW B, CanRank(rank, B)
  PROVE  \A n \in Names : /\ Target[n] \in Names \ Redirected
                          /\ rank[Target[n]] <= rank[n]
                          /\ Target[n] = n \/ \E k \in Redirected : Target[n] = inputs[k][1]
<1> DEFINE Good(n) == /\ Target[n] \in Names \ Redirected
                      /\ rank[Target[n]] <= rank[n]
                      /\ Target[n] = n \/ \E k \in Redirected : Target[n] = inputs[k][1]
           bad == {n \in Names : ~Good(n)}
           ranks == {rank[n] : n \in bad}
<1>1. TargetLaw
  BY TargetIsDefined
<1>2. \A n \in Names : rank[n] \in Nat
  BY ReadsAreLower
<1>3. bad = {}
  <2> SUFFICES ASSUME bad # {} PROVE FALSE
    OBVIOUS
  <2>1. ranks \in SUBSET Nat /\ ranks # {}
    BY <1>2
  <2>2. PICK l \in ranks : \A k \in ranks : l <= k
    <3> HIDE DEF ranks
    <3> QED
      BY <2>1, LeastMember
  <2>3. PICK n \in bad : l = rank[n]
    OBVIOUS
  <2>4. n \in Names /\ ~Good(n)
    OBVIOUS
  <2>5. \A m \in Names : rank[m] < rank[n] => Good(m)
    <3> SUFFICES ASSUME NEW m \in Names, rank[m] < rank[n], ~Good(m) PROVE FALSE
      OBVIOUS
    <3>1. rank[m] \in ranks
      OBVIOUS
    <3>2. l <= rank[m] /\ rank[m] \in Nat /\ rank[n] \in Nat
      BY <1>2, <2>2, <2>4, <3>1
    <3> QED
      BY <2>3, <3>2
  <2>6. CASE n \notin Redirected
    <3>1. Target[n] = n
      BY <1>1, <2>4, <2>6 DEF TargetLaw
    <3>2. rank[n] <= rank[n]
      BY <1>2, <2>4
    <3> QED
      BY <2>4, <2>6, <3>1, <3>2
  <2>7. CASE n \in Redirected
    <3> PICK m : m = inputs[n][1]
      OBVIOUS
    <3>1. m \in Names /\ rank[m] < rank[n] /\ Target[n] = Target[m]
      BY <1>1, <2>4, <2>7, RedirectedNodes DEF TargetLaw
    <3>2. Good(m)
      BY <2>5, <3>1
    <3>3. Target[n] \in Names \ Redirected
      BY <3>1, <3>2
    <3>4. rank[Target[n]] <= rank[n]
      <4>1. rank[Target[n]] \in Nat /\ rank[m] \in Nat /\ rank[n] \in Nat /\ rank[Target[n]] <= rank[m]
        BY <1>2, <2>4, <3>1, <3>2
      <4> QED
        BY <3>1, <4>1
    <3>5. \E k \in Redirected : Target[n] = inputs[k][1]
      BY <2>7, <3>1, <3>2
    <3> QED
      BY <2>4, <3>3, <3>4, <3>5
  <2> QED
    BY <2>6, <2>7
<1> QED
  BY <1>3

\* What holds of a redirected name's operand whenever it holds of the name holds of
\* the target of every name it holds of.
LEMMA TargetsKeep ==
  ASSUME NEW rank, NEW B, CanRank(rank, B), NEW S,
         \A n \in Redirected \cap S : inputs[n][1] \in S
  PROVE  \A n \in Names \cap S : Target[n] \in S
<1> DEFINE bad == {n \in Names \cap S : Target[n] \notin S}
           ranks == {rank[n] : n \in bad}
<1>1. TargetLaw
  BY TargetIsDefined
<1>2. \A n \in Names : rank[n] \in Nat
  BY ReadsAreLower
<1>3. bad = {}
  <2> SUFFICES ASSUME bad # {} PROVE FALSE
    OBVIOUS
  <2>1. ranks \in SUBSET Nat /\ ranks # {}
    BY <1>2
  <2>2. PICK l \in ranks : \A k \in ranks : l <= k
    <3> HIDE DEF ranks
    <3> QED
      BY <2>1, LeastMember
  <2>3. PICK n \in bad : l = rank[n]
    OBVIOUS
  <2>4. n \in Names \cap S /\ Target[n] \notin S
    OBVIOUS
  <2>5. n \in Redirected
    BY <1>1, <2>4 DEF TargetLaw
  <2> PICK m : m = inputs[n][1]
    OBVIOUS
  <2>6. m \in Names \cap S /\ rank[m] < rank[n] /\ Target[n] = Target[m]
    BY <1>1, <2>4, <2>5, RedirectedNodes DEF TargetLaw
  <2>7. m \in bad
    BY <2>4, <2>6
  <2>8. rank[m] \in ranks /\ rank[m] \in Nat /\ rank[n] \in Nat
    BY <1>2, <2>4, <2>6, <2>7
  <2> QED
    BY <2>2, <2>3, <2>6, <2>8
<1> QED
  BY <1>3

-----------------------------------------------------------------------------
(* Clusters.                                                               *)

InlinedReads(n) == {k \in ToSet(inputs[n]) : Inlined(k)}

\* The ranks with every name that is not a node above the nodes: what is inlined
\* is a node, so that the recursion goes down from any name.
Lifted(rank, B) == [n \in Names |-> IF n \in Nodes THEN rank[n] ELSE B]

LEMMA InlinedReadsAreLower ==
  ASSUME NEW rank, NEW B, CanRank(rank, B)
  PROVE  /\ Lifted(rank, B) \in [Names -> Nat] /\ B + 1 \in Nat
         /\ \A n \in Names : Lifted(rank, B)[n] < B + 1
         /\ \A n \in Names : \A m \in InlinedReads(n) :
              m \in Nodes /\ m \in Names /\ Lifted(rank, B)[m] < Lifted(rank, B)[n]
<1>1. /\ B \in Nat /\ \A n \in Names : rank[n] \in Nat /\ rank[n] < B
  BY DEF CanRank
<1>2. \A n \in Names : Lifted(rank, B)[n] = IF n \in Nodes THEN rank[n] ELSE B
  BY DEF Lifted
<1>3. \A n \in Names : Lifted(rank, B)[n] \in Nat /\ Lifted(rank, B)[n] < B + 1
  BY <1>1, <1>2
<1>4. Lifted(rank, B) \in [Names -> Nat]
  BY <1>1 DEF Lifted
<1>5. \A n \in Names : \A m \in InlinedReads(n) :
        m \in Nodes /\ m \in Names /\ Lifted(rank, B)[m] < Lifted(rank, B)[n]
  <2> SUFFICES ASSUME NEW n \in Names, NEW m \in InlinedReads(n)
               PROVE  m \in Nodes /\ m \in Names /\ Lifted(rank, B)[m] < Lifted(rank, B)[n]
    OBVIOUS
  <2>1. m \in Nodes /\ m \in ToSet(inputs[n])
    BY DEF InlinedReads, Inlined
  <2>2. PICK i \in DOMAIN inputs[n] : m = inputs[n][i]
    BY <2>1 DEF ToSet
  <2>3. m \in Names /\ (n \in Nodes => rank[m] < rank[n])
    BY <2>2, ReadsAreLower
  <2> QED
    BY <1>1, <1>2, <2>1, <2>3
<1> QED
  BY <1>1, <1>3, <1>4, <1>5

ClusterLaw ==
  \A n \in Names : /\ Cluster[n] \subseteq Names
                   /\ Cluster[n] = {n} \cup UNION {Cluster[m] : m \in InlinedReads(n)}

LEMMA ClusterIsDefined ==
  ASSUME NEW rank, NEW B, CanRank(rank, B)
  PROVE  ClusterLaw
<1> DEFINE V == SUBSET Names
           Step(n, f) == {n} \cup UNION {f[m] : m \in InlinedReads(n)}
           G == [p \in Names \X [Names -> V] |-> Step(p[1], p[2])]
           up == Lifted(rank, B)
<1>1. /\ up \in [Names -> Nat] /\ B + 1 \in Nat /\ \A n \in Names : up[n] < B + 1
      /\ \A n \in Names : \A m \in InlinedReads(n) : m \in Names /\ up[m] < up[n]
  BY InlinedReadsAreLower
<1> HIDE DEF up
<1>2. \A n \in Names : \A f \in [Names -> V] : Step(n, f) \in V
  BY <1>1
<1>3. \A n \in Names : \A f, h \in [Names -> V] :
        (\A m \in Names : up[m] < up[n] => f[m] = h[m]) => Step(n, f) = Step(n, h)
  <2> SUFFICES ASSUME NEW n \in Names, NEW f \in [Names -> V], NEW h \in [Names -> V],
                      \A m \in Names : up[m] < up[n] => f[m] = h[m]
               PROVE  Step(n, f) = Step(n, h)
    OBVIOUS
  <2>1. \A m \in InlinedReads(n) : f[m] = h[m]
    BY <1>1
  <2>2. {f[m] : m \in InlinedReads(n)} = {h[m] : m \in InlinedReads(n)}
    BY <2>1
  <2> QED
    BY <2>2
<1>4. Cluster = CHOOSE f : f = [n \in Names |-> Step(n, f)]
  BY DEF Cluster, InlinedReads
<1>5. \A n \in Names : \A f \in [Names -> V] : G[<<n, f>>] = Step(n, f)
  OBVIOUS
<1> HIDE DEF Step
<1>6. G \in [Names \X [Names -> V] -> V]
  BY <1>2
<1> HIDE DEF G
<1>7. \A n \in Names : \A f, h \in [Names -> V] :
        (\A m \in Names : up[m] < up[n] => f[m] = h[m]) => G[<<n, f>>] = G[<<n, h>>]
  <2> SUFFICES ASSUME NEW n \in Names, NEW f \in [Names -> V], NEW h \in [Names -> V],
                      \A m \in Names : up[m] < up[n] => f[m] = h[m]
               PROVE  G[<<n, f>>] = G[<<n, h>>]
    OBVIOUS
  <2>1. G[<<n, f>>] = Step(n, f) /\ G[<<n, h>>] = Step(n, h)
    BY <1>5
  <2> QED
    BY <1>3, <2>1
<1>8. V # {}
  OBVIOUS
<1> HIDE DEF V
<1>9. LooksDown(Names, V, B + 1, up, G)
  BY <1>1, <1>6, <1>7, <1>8 DEF LooksDown
<1>10. PICK f \in [Names -> V] : \A n \in Names : f[n] = Step(n, f)
  <2>1. Solves(Names, V, G)
    BY <1>9, RankedRecursion
  <2> QED
    BY <1>5, <2>1 DEF Solves
<1>11. f = [n \in Names |-> Step(n, f)]
  BY <1>10
<1>12. Cluster = [n \in Names |-> Step(n, Cluster)]
  BY <1>4, <1>11
<1>13. \A n \in Names : Cluster[n] = {n} \cup UNION {Cluster[m] : m \in InlinedReads(n)}
  BY <1>12 DEF Step
<1> DEFINE astray == {n \in Names : ~(Cluster[n] \subseteq Names)}
           ranks == {up[n] : n \in astray}
<1>14. astray = {}
  <2> SUFFICES ASSUME astray # {} PROVE FALSE
    OBVIOUS
  <2>1. ranks \in SUBSET Nat /\ ranks # {}
    BY <1>1
  <2>2. PICK l \in ranks : \A k \in ranks : l <= k
    <3> HIDE DEF ranks
    <3> QED
      BY <2>1, LeastMember
  <2>3. PICK n \in astray : l = up[n]
    OBVIOUS
  <2>4. n \in Names /\ ~(Cluster[n] \subseteq Names)
    OBVIOUS
  <2>5. PICK m \in InlinedReads(n) : ~(Cluster[m] \subseteq Names)
    BY <1>13, <2>4
  <2>6. m \in Names /\ up[m] < up[n] /\ up[m] \in Nat /\ up[n] \in Nat
    BY <1>1, <2>4
  <2>7. up[m] \in ranks
    BY <2>5, <2>6
  <2> QED
    BY <2>2, <2>3, <2>6, <2>7
<1> QED
  BY <1>13, <1>14 DEF ClusterLaw

\* A cluster is its root and what the members read and may inline; below the root,
\* each member is inlined, read by a member and of a lower rank.
LEMMA ClusterMembers ==
  ASSUME NEW rank, NEW B, CanRank(rank, B)
  PROVE  \A n \in Nodes :
           /\ n \in Cluster[n] /\ Cluster[n] \subseteq Nodes
           /\ \A k \in Cluster[n] : \A m \in InlinedReads(k) : m \in Cluster[n]
           /\ \A m \in Cluster[n] \ {n} : /\ Inlined(m) /\ rank[m] < rank[n]
                                          /\ \E k \in Cluster[n] : m \in InlinedReads(k)
<1> DEFINE Good(n) == /\ n \in Cluster[n] /\ Cluster[n] \subseteq Nodes
                      /\ \A k \in Cluster[n] : \A m \in InlinedReads(k) : m \in Cluster[n]
                      /\ \A m \in Cluster[n] \ {n} :
                           /\ Inlined(m) /\ rank[m] < rank[n]
                           /\ \E k \in Cluster[n] : m \in InlinedReads(k)
           bad == {n \in Nodes : ~Good(n)}
           ranks == {rank[n] : n \in bad}
<1>1. /\ \A n \in Names : Cluster[n] = {n} \cup UNION {Cluster[m] : m \in InlinedReads(n)}
      /\ \A n \in Nodes : n \in Names /\ rank[n] \in Nat
  BY ClusterIsDefined, ReadsAreLower DEF ClusterLaw
<1>2. \A n \in Nodes : \A m \in InlinedReads(n) : m \in Nodes /\ Inlined(m) /\ rank[m] < rank[n]
  <2> SUFFICES ASSUME NEW n \in Nodes, NEW m \in InlinedReads(n)
               PROVE  m \in Nodes /\ Inlined(m) /\ rank[m] < rank[n]
    OBVIOUS
  <2>1. Inlined(m) /\ m \in Nodes /\ m \in ToSet(inputs[n])
    BY DEF InlinedReads, Inlined
  <2>2. PICK i \in DOMAIN inputs[n] : m = inputs[n][i]
    BY <2>1 DEF ToSet
  <2> QED
    BY <2>1, <2>2, ReadsAreLower
<1>3. bad = {}
  <2> SUFFICES ASSUME bad # {} PROVE FALSE
    OBVIOUS
  <2>1. ranks \in SUBSET Nat /\ ranks # {}
    BY <1>1
  <2>2. PICK l \in ranks : \A k \in ranks : l <= k
    <3> HIDE DEF ranks
    <3> QED
      BY <2>1, LeastMember
  <2>3. PICK n \in bad : l = rank[n]
    OBVIOUS
  <2>4. n \in Nodes /\ ~Good(n)
    OBVIOUS
  <2>5. \A m \in InlinedReads(n) : Good(m)
    <3> SUFFICES ASSUME NEW m \in InlinedReads(n), ~Good(m) PROVE FALSE
      OBVIOUS
    <3>1. m \in Nodes /\ rank[m] < rank[n] /\ rank[m] \in Nat /\ rank[n] \in Nat
      BY <1>1, <1>2, <2>4
    <3>2. rank[m] \in ranks
      BY <3>1
    <3> QED
      BY <2>2, <2>3, <3>1, <3>2
  <2>6. Cluster[n] = {n} \cup UNION {Cluster[m] : m \in InlinedReads(n)}
    BY <1>1, <2>4
  <2>7. n \in Cluster[n] /\ \A m \in InlinedReads(n) : Cluster[m] \subseteq Cluster[n]
    BY <2>6
  <2>8. Cluster[n] \subseteq Nodes
    BY <2>4, <2>5, <2>6
  <2>9. \A k \in Cluster[n] : \A m \in InlinedReads(k) : m \in Cluster[n]
    <3> SUFFICES ASSUME NEW k \in Cluster[n], NEW m \in InlinedReads(k) PROVE m \in Cluster[n]
      OBVIOUS
    <3>1. CASE k = n
      BY <2>5, <2>7, <3>1
    <3>2. CASE k # n
      <4>1. PICK j \in InlinedReads(n) : k \in Cluster[j]
        BY <2>6, <3>2
      <4>2. m \in Cluster[j]
        BY <2>5, <4>1
      <4> QED
        BY <2>7, <4>2
    <3> QED
      BY <3>1, <3>2
  <2>10. \A m \in Cluster[n] \ {n} : /\ Inlined(m) /\ rank[m] < rank[n]
                                     /\ \E k \in Cluster[n] : m \in InlinedReads(k)
    <3> SUFFICES ASSUME NEW m \in Cluster[n] \ {n}
                 PROVE  /\ Inlined(m) /\ rank[m] < rank[n]
                        /\ \E k \in Cluster[n] : m \in InlinedReads(k)
      OBVIOUS
    <3>1. PICK j \in InlinedReads(n) : m \in Cluster[j]
      BY <2>6
    <3>2. j \in Nodes /\ Inlined(j) /\ rank[j] < rank[n]
      BY <1>2, <2>4
    <3>3. CASE m = j
      BY <2>7, <3>2, <3>3
    <3>4. CASE m # j
      <4>1. /\ Inlined(m) /\ rank[m] < rank[j]
            /\ \E k \in Cluster[j] : m \in InlinedReads(k)
        BY <2>5, <3>1, <3>4
      <4>2. m \in Nodes
        BY <4>1 DEF Inlined
      <4>3. rank[m] \in Nat /\ rank[j] \in Nat /\ rank[n] \in Nat
        BY <1>1, <2>4, <3>2, <4>2
      <4>4. rank[m] < rank[n]
        BY <3>2, <4>1, <4>3
      <4> QED
        BY <2>7, <4>1, <4>4
    <3> QED
      BY <3>3, <3>4
  <2>11. Good(n)
    BY <2>7, <2>8, <2>9, <2>10
  <2> QED
    BY <2>4, <2>11
<1> QED
  BY <1>3

LeavesLaw ==
  \A n \in Names :
    /\ Leaves[n] \in Seq(Names)
    /\ \A x \in ToSet(Leaves[n]) : \/ x \in ToSet(inputs[n]) /\ ~Inlined(x)
                                   \/ \E m \in InlinedReads(n) : x \in ToSet(Leaves[m])
    /\ \A x \in ToSet(inputs[n]) : ~Inlined(x) => x \in ToSet(Leaves[n])
    /\ \A m \in InlinedReads(n) : ToSet(Leaves[m]) \subseteq ToSet(Leaves[n])

LEMMA LeavesAreDefined ==
  ASSUME NEW rank, NEW B, CanRank(rank, B)
  PROVE  LeavesLaw
<1> DEFINE V == Seq(Names)
           Part(n, i, f) == IF Inlined(inputs[n][i]) THEN f[inputs[n][i]] ELSE <<inputs[n][i]>>
           Parts(n, f) == [i \in DOMAIN inputs[n] |-> Part(n, i, f)]
           Step(n, f) == FlattenSeq(Parts(n, f))
           G == [p \in Names \X [Names -> V] |-> Step(p[1], p[2])]
           up == Lifted(rank, B)
<1>1. /\ up \in [Names -> Nat] /\ B + 1 \in Nat /\ \A n \in Names : up[n] < B + 1
      /\ \A n \in Names : \A m \in InlinedReads(n) : m \in Names /\ up[m] < up[n]
  BY InlinedReadsAreLower
<1> HIDE DEF up
<1>2. \A n \in Names : /\ DOMAIN inputs[n] = 1..Len(inputs[n]) /\ Len(inputs[n]) \in Nat
                       /\ \A i \in DOMAIN inputs[n] : inputs[n][i] \in Names
  BY ReadsAreLower
<1>3. \A n \in Names : \A i \in DOMAIN inputs[n] :
        Inlined(inputs[n][i]) => inputs[n][i] \in InlinedReads(n)
  BY DEF InlinedReads, ToSet
<1>4. \A n \in Names : \A f \in [Names -> V] : Parts(n, f) \in Seq(V)
  <2> SUFFICES ASSUME NEW n \in Names, NEW f \in [Names -> V] PROVE Parts(n, f) \in Seq(V)
    OBVIOUS
  <2>1. \A i \in DOMAIN inputs[n] : Part(n, i, f) \in V
    BY <1>2
  <2>2. DOMAIN inputs[n] = 1..Len(inputs[n]) /\ Len(inputs[n]) \in Nat
    BY <1>2
  <2> HIDE DEF Part, V
  <2>3. Parts(n, f) \in [1..Len(inputs[n]) -> V]
    BY <2>1, <2>2
  <2> QED
    BY <2>2, <2>3, SeqDef
<1>5. \A n \in Names : \A f \in [Names -> V] : Step(n, f) \in V
  <2> HIDE DEF Parts
  <2>1. \A ss \in Seq(V) : FlattenSeq(ss) \in V
    BY FlattenedElements
  <2> QED
    BY <1>4, <2>1
<1>6. \A n \in Names : \A f, h \in [Names -> V] :
        (\A m \in Names : up[m] < up[n] => f[m] = h[m]) => Step(n, f) = Step(n, h)
  <2> SUFFICES ASSUME NEW n \in Names, NEW f \in [Names -> V], NEW h \in [Names -> V],
                      \A m \in Names : up[m] < up[n] => f[m] = h[m]
               PROVE  Step(n, f) = Step(n, h)
    OBVIOUS
  <2>1. \A i \in DOMAIN inputs[n] : Part(n, i, f) = Part(n, i, h)
    <3>1. \A i \in DOMAIN inputs[n] : Inlined(inputs[n][i]) => f[inputs[n][i]] = h[inputs[n][i]]
      BY <1>1, <1>3
    <3> QED
      BY <3>1
  <2> HIDE DEF Part
  <2>2. Parts(n, f) = Parts(n, h)
    BY <2>1
  <2> QED
    BY <2>2
<1>7. Leaves = CHOOSE f : f = [n \in Names |-> Step(n, f)]
  BY DEF Leaves
<1>8. \A n \in Names : \A f \in [Names -> V] : G[<<n, f>>] = Step(n, f)
  OBVIOUS
<1> HIDE DEF Step
<1>9. G \in [Names \X [Names -> V] -> V]
  BY <1>5
<1> HIDE DEF G
<1>10. \A n \in Names : \A f, h \in [Names -> V] :
        (\A m \in Names : up[m] < up[n] => f[m] = h[m]) => G[<<n, f>>] = G[<<n, h>>]
  <2> SUFFICES ASSUME NEW n \in Names, NEW f \in [Names -> V], NEW h \in [Names -> V],
                      \A m \in Names : up[m] < up[n] => f[m] = h[m]
               PROVE  G[<<n, f>>] = G[<<n, h>>]
    OBVIOUS
  <2>1. G[<<n, f>>] = Step(n, f) /\ G[<<n, h>>] = Step(n, h)
    BY <1>8
  <2> QED
    BY <1>6, <2>1
<1>11. <<>> \in V
  OBVIOUS
<1> HIDE DEF V
<1>12. LooksDown(Names, V, B + 1, up, G)
  BY <1>1, <1>9, <1>10, <1>11 DEF LooksDown
<1>13. PICK f \in [Names -> V] : \A n \in Names : f[n] = Step(n, f)
  <2>1. Solves(Names, V, G)
    BY <1>12, RankedRecursion
  <2> QED
    BY <1>8, <2>1 DEF Solves
<1>14. f = [n \in Names |-> Step(n, f)]
  BY <1>13
<1>15. Leaves = [n \in Names |-> Step(n, Leaves)]
  BY <1>7, <1>14
<1>16. \A n \in Names : Leaves[n] = Step(n, Leaves)
  BY <1>15
<1> DEFINE astray == {n \in Names : Leaves[n] \notin V}
           ranks == {up[n] : n \in astray}
<1>17. \A n \in Names : (\A m \in InlinedReads(n) : Leaves[m] \in V) =>
         Parts(n, Leaves) \in Seq(V)
  <2> SUFFICES ASSUME NEW n \in Names, \A m \in InlinedReads(n) : Leaves[m] \in V
               PROVE  Parts(n, Leaves) \in Seq(V)
    OBVIOUS
  <2>1. \A i \in DOMAIN inputs[n] : Part(n, i, Leaves) \in V
    BY <1>2, <1>3 DEF V
  <2>2. DOMAIN inputs[n] = 1..Len(inputs[n]) /\ Len(inputs[n]) \in Nat
    BY <1>2
  <2> HIDE DEF Part, V
  <2>3. Parts(n, Leaves) \in [1..Len(inputs[n]) -> V]
    BY <2>1, <2>2
  <2> QED
    BY <2>2, <2>3, SeqDef
<1>18. astray = {}
  <2> SUFFICES ASSUME astray # {} PROVE FALSE
    OBVIOUS
  <2>1. ranks \in SUBSET Nat /\ ranks # {}
    BY <1>1
  <2>2. PICK l \in ranks : \A k \in ranks : l <= k
    <3> HIDE DEF ranks
    <3> QED
      BY <2>1, LeastMember
  <2>3. PICK n \in astray : l = up[n]
    OBVIOUS
  <2>4. n \in Names /\ Leaves[n] \notin V
    OBVIOUS
  <2>5. \A m \in InlinedReads(n) : Leaves[m] \in V
    <3> SUFFICES ASSUME NEW m \in InlinedReads(n), Leaves[m] \notin V PROVE FALSE
      OBVIOUS
    <3>1. m \in Names /\ up[m] < up[n] /\ up[m] \in Nat /\ up[n] \in Nat
      BY <1>1, <2>4
    <3>2. up[m] \in ranks
      BY <3>1
    <3> QED
      BY <2>2, <2>3, <3>1, <3>2
  <2> HIDE DEF Parts
  <2>6. Parts(n, Leaves) \in Seq(V)
    BY <1>17, <2>4, <2>5
  <2>7. \A ss \in Seq(V) : FlattenSeq(ss) \in V
    BY FlattenedElements DEF V
  <2>8. Step(n, Leaves) \in V
    BY <2>6, <2>7 DEF Step
  <2> QED
    BY <1>16, <2>4, <2>8
<1>19. \A n \in Names : Leaves[n] \in V
  BY <1>18
<1> SUFFICES ASSUME NEW n \in Names
             PROVE  /\ \A x \in ToSet(Leaves[n]) :
                         \/ x \in ToSet(inputs[n]) /\ ~Inlined(x)
                         \/ \E m \in InlinedReads(n) : x \in ToSet(Leaves[m])
                    /\ \A x \in ToSet(inputs[n]) : ~Inlined(x) => x \in ToSet(Leaves[n])
                    /\ \A m \in InlinedReads(n) : ToSet(Leaves[m]) \subseteq ToSet(Leaves[n])
  BY <1>19 DEF LeavesLaw, V
<1>20. \A m \in InlinedReads(n) : Leaves[m] \in V
  BY <1>1, <1>19
<1>21. ToSet(Leaves[n]) = UNION {ToSet(Parts(n, Leaves)[i]) : i \in DOMAIN Parts(n, Leaves)}
  <2> HIDE DEF Parts
  <2>1. Parts(n, Leaves) \in Seq(V)
    BY <1>17, <1>20
  <2>2. \A ss \in Seq(V) :
          ToSet(FlattenSeq(ss)) = UNION {ToSet(ss[i]) : i \in DOMAIN ss}
    BY FlattenedElements DEF V
  <2>3. Leaves[n] = FlattenSeq(Parts(n, Leaves))
    BY <1>16 DEF Step
  <2> QED
    BY <2>1, <2>2, <2>3
<1>22. ToSet(Leaves[n]) = UNION {ToSet(Part(n, i, Leaves)) : i \in DOMAIN inputs[n]}
  <2> HIDE DEF Part
  <2>1. DOMAIN Parts(n, Leaves) = DOMAIN inputs[n]
    OBVIOUS
  <2>2. \A i \in DOMAIN inputs[n] : Parts(n, Leaves)[i] = Part(n, i, Leaves)
    OBVIOUS
  <2> HIDE DEF Parts
  <2> QED
    BY <1>21, <2>1, <2>2
<1>23. \A i \in DOMAIN inputs[n] :
         /\ Inlined(inputs[n][i]) => ToSet(Part(n, i, Leaves)) = ToSet(Leaves[inputs[n][i]])
         /\ ~Inlined(inputs[n][i]) => ToSet(Part(n, i, Leaves)) = {inputs[n][i]}
  <2>1. \A x : ToSet(<<x>>) = {x}
    BY DEF ToSet
  <2> QED
    BY <2>1
<1> HIDE DEF Part
<1>24. \A x \in ToSet(Leaves[n]) : \/ x \in ToSet(inputs[n]) /\ ~Inlined(x)
                                   \/ \E m \in InlinedReads(n) : x \in ToSet(Leaves[m])
  <2> SUFFICES ASSUME NEW x \in ToSet(Leaves[n])
               PROVE  \/ x \in ToSet(inputs[n]) /\ ~Inlined(x)
                      \/ \E m \in InlinedReads(n) : x \in ToSet(Leaves[m])
    OBVIOUS
  <2>1. PICK i \in DOMAIN inputs[n] : x \in ToSet(Part(n, i, Leaves))
    BY <1>22
  <2>2. CASE Inlined(inputs[n][i])
    BY <1>3, <1>23, <2>1, <2>2
  <2>3. CASE ~Inlined(inputs[n][i])
    <3>1. x = inputs[n][i]
      BY <1>23, <2>1, <2>3
    <3> QED
      BY <2>3, <3>1 DEF ToSet
  <2> QED
    BY <2>2, <2>3
<1>25. \A x \in ToSet(inputs[n]) : ~Inlined(x) => x \in ToSet(Leaves[n])
  <2> SUFFICES ASSUME NEW x \in ToSet(inputs[n]), ~Inlined(x) PROVE x \in ToSet(Leaves[n])
    OBVIOUS
  <2>1. PICK i \in DOMAIN inputs[n] : x = inputs[n][i]
    BY DEF ToSet
  <2> QED
    BY <1>22, <1>23, <2>1
<1>26. \A m \in InlinedReads(n) : ToSet(Leaves[m]) \subseteq ToSet(Leaves[n])
  <2> SUFFICES ASSUME NEW m \in InlinedReads(n) PROVE ToSet(Leaves[m]) \subseteq ToSet(Leaves[n])
    OBVIOUS
  <2>1. m \in ToSet(inputs[n]) /\ Inlined(m)
    BY DEF InlinedReads
  <2>2. PICK i \in DOMAIN inputs[n] : m = inputs[n][i]
    BY <2>1 DEF ToSet
  <2>3. ToSet(Part(n, i, Leaves)) = ToSet(Leaves[m])
    BY <1>23, <2>1, <2>2
  <2> QED
    BY <1>22, <2>3
<1> QED
  BY <1>24, <1>25, <1>26

\* The leaves of a root are what the members of its cluster read from outside.
LEMMA LeavesAreReads ==
  ASSUME NEW rank, NEW B, CanRank(rank, B)
  PROVE  \A n \in Nodes :
           /\ Leaves[n] \in Seq(Names)
           /\ \A x \in ToSet(Leaves[n]) : ~Inlined(x) /\ \E k \in Cluster[n] : x \in ToSet(inputs[k])
           /\ \A k \in Cluster[n] : \A x \in ToSet(inputs[k]) :
                ~Inlined(x) => x \in ToSet(Leaves[n])
<1> DEFINE Good(n) == /\ \A x \in ToSet(Leaves[n]) :
                           ~Inlined(x) /\ \E k \in Cluster[n] : x \in ToSet(inputs[k])
                      /\ \A k \in Cluster[n] : \A x \in ToSet(inputs[k]) :
                           ~Inlined(x) => x \in ToSet(Leaves[n])
           bad == {n \in Nodes : ~Good(n)}
           ranks == {rank[n] : n \in bad}
<1>1. /\ \A n \in Names : Cluster[n] = {n} \cup UNION {Cluster[m] : m \in InlinedReads(n)}
      /\ \A n \in Nodes : n \in Names /\ rank[n] \in Nat
  BY ClusterIsDefined, ReadsAreLower DEF ClusterLaw
<1>2. \A n \in Nodes : \A m \in InlinedReads(n) : m \in Nodes /\ rank[m] < rank[n]
  <2> SUFFICES ASSUME NEW n \in Nodes, NEW m \in InlinedReads(n)
               PROVE  m \in Nodes /\ rank[m] < rank[n]
    OBVIOUS
  <2>1. m \in Nodes /\ m \in ToSet(inputs[n])
    BY DEF InlinedReads, Inlined
  <2>2. PICK i \in DOMAIN inputs[n] : m = inputs[n][i]
    BY <2>1 DEF ToSet
  <2> QED
    BY <2>1, <2>2, ReadsAreLower
<1>3. \A n \in Nodes : 
        /\ Leaves[n] \in Seq(Names)
        /\ \A x \in ToSet(Leaves[n]) : \/ x \in ToSet(inputs[n]) /\ ~Inlined(x)
                                       \/ \E m \in InlinedReads(n) : x \in ToSet(Leaves[m])
        /\ \A x \in ToSet(inputs[n]) : ~Inlined(x) => x \in ToSet(Leaves[n])
        /\ \A m \in InlinedReads(n) : ToSet(Leaves[m]) \subseteq ToSet(Leaves[n])
  BY <1>1, LeavesAreDefined DEF LeavesLaw
<1>4. bad = {}
  <2> SUFFICES ASSUME bad # {} PROVE FALSE
    OBVIOUS
  <2>1. ranks \in SUBSET Nat /\ ranks # {}
    BY <1>1
  <2>2. PICK l \in ranks : \A k \in ranks : l <= k
    <3> HIDE DEF ranks
    <3> QED
      BY <2>1, LeastMember
  <2>3. PICK n \in bad : l = rank[n]
    OBVIOUS
  <2>4. n \in Nodes /\ ~Good(n)
    OBVIOUS
  <2>5. \A m \in InlinedReads(n) : Good(m)
    <3> SUFFICES ASSUME NEW m \in InlinedReads(n), ~Good(m) PROVE FALSE
      OBVIOUS
    <3>1. m \in Nodes /\ rank[m] < rank[n] /\ rank[m] \in Nat /\ rank[n] \in Nat
      BY <1>1, <1>2, <2>4
    <3>2. rank[m] \in ranks
      BY <3>1
    <3> QED
      BY <2>2, <2>3, <3>1, <3>2
  <2>6. Cluster[n] = {n} \cup UNION {Cluster[m] : m \in InlinedReads(n)}
    BY <1>1, <2>4
  <2>7. \A x \in ToSet(Leaves[n]) : ~Inlined(x) /\ \E k \in Cluster[n] : x \in ToSet(inputs[k])
    <3> SUFFICES ASSUME NEW x \in ToSet(Leaves[n])
                 PROVE  ~Inlined(x) /\ \E k \in Cluster[n] : x \in ToSet(inputs[k])
      OBVIOUS
    <3>1. CASE x \in ToSet(inputs[n]) /\ ~Inlined(x)
      BY <2>6, <3>1
    <3>2. CASE \E m \in InlinedReads(n) : x \in ToSet(Leaves[m])
      <4>1. PICK m \in InlinedReads(n) : x \in ToSet(Leaves[m])
        BY <3>2
      <4>2. ~Inlined(x) /\ \E k \in Cluster[m] : x \in ToSet(inputs[k])
        BY <2>5, <4>1
      <4> QED
        BY <2>6, <4>2
    <3> QED
      BY <1>3, <2>4, <3>1, <3>2
  <2>8. \A k \in Cluster[n] : \A x \in ToSet(inputs[k]) : ~Inlined(x) => x \in ToSet(Leaves[n])
    <3> SUFFICES ASSUME NEW k \in Cluster[n], NEW x \in ToSet(inputs[k]), ~Inlined(x)
                 PROVE  x \in ToSet(Leaves[n])
      OBVIOUS
    <3>1. CASE k = n
      BY <1>3, <2>4, <3>1
    <3>2. CASE k # n
      <4>1. PICK m \in InlinedReads(n) : k \in Cluster[m]
        BY <2>6, <3>2
      <4>2. x \in ToSet(Leaves[m])
        BY <2>5, <4>1
      <4> QED
        BY <1>3, <2>4, <4>1, <4>2
    <3> QED
      BY <3>1, <3>2
  <2> QED
    BY <2>4, <2>7, <2>8
<1> QED
  BY <1>3, <1>4

-----------------------------------------------------------------------------
(* The shape of the graph: what is live is connected and in order.         *)

External == Names \ ToSet(source.nodes)

Live == Nodes \ absorbed

Shape ==
  /\ source \in OptGraphs
  /\ order \in Seq(Names) /\ IsInjective(order) /\ Nodes \subseteq ToSet(source.nodes)
  /\ op \in [Names -> Operations] /\ inputs \in [Names -> Seq(Names)]
  /\ value \in [Names -> Int \cup {NoValue}]
  /\ outputs \in [DOMAIN source.outputs -> Names]
  /\ pass \in {"fold", "rewrite", "scales", "fuse", "done"}
  /\ cursor \in Nat
  /\ pass = "fold" => cursor > 0
  /\ pass \in {"fold", "rewrite", "scales"} => absorbed = {}
  /\ pass = "fuse" => cursor <= Len(order)
  /\ pass = "done" => Nodes \cap absorbed = {}

\* Live nodes and outputs refer to live nodes and graph inputs.
Connected ==
  /\ \A m \in Live : \A i \in DOMAIN inputs[m] : inputs[m][i] \in Live \cup External
  /\ \A o \in DOMAIN outputs : outputs[o] \in Live \cup External

\* At most one reference to a name is live.
Sole(x) ==
  /\ \A m, k \in Live : \A i \in DOMAIN inputs[m], j \in DOMAIN inputs[k] :
       inputs[m][i] = x /\ inputs[k][j] = x => m = k /\ i = j
  /\ \A m \in Live : \A i \in DOMAIN inputs[m] : \A o \in DOMAIN outputs :
       ~(inputs[m][i] = x /\ outputs[o] = x)

\* While the fuser runs, a count of one still means a sole reference.
Counted == pass = "fuse" => \A x \in Names : consumers[x] = 1 => Sole(x)

Kinds ==
  /\ \A n \in Names : op[n] = "identity" => source.op[n] = "identity"
  /\ pass \in {"fold", "rewrite"} => outputs = source.outputs

Materialized ==
  \A o \in DOMAIN outputs :
    /\ source.outputs[o] \in ToSet(source.nodes)
    /\ source.op[source.outputs[o]] # "identity"
    => outputs[o] = source.outputs[o]

Ranks == [Names -> 0..Cardinality(Names)]

RisesIn(rank, list) == \A i, j \in DOMAIN list : i < j => rank[list[i]] < rank[list[j]]

\* Whatever ranks the graph that was handed over ranks the graph as it is.
StillFalls ==
  \A rank \in Ranks : FallsIn(rank, ToSet(source.nodes), source.inputs)
                        => FallsIn(rank, Nodes, inputs)

StillRises ==
  \A rank \in Ranks : RisesIn(rank, source.nodes) => RisesIn(rank, order)

StructureInv ==
  Shape /\ Connected /\ Counted /\ Kinds /\ Materialized /\ StillFalls /\ StillRises

-----------------------------------------------------------------------------

LEMMA NamesAreCounted ==
  /\ Cardinality(Names) \in Nat
  /\ \A g \in OptGraphs : /\ ToSet(g.nodes) \subseteq Names
                          /\ DOMAIN g.nodes = 1..Len(g.nodes)
                          /\ Len(g.nodes) \in Nat /\ Len(g.nodes) <= Cardinality(Names)
                          /\ Cardinality(ToSet(g.nodes)) = Len(g.nodes)
<1>1. IsFiniteSet(Names) /\ Cardinality(Names) \in Nat
  BY InputValuesAssumption, FS_CardinalityType
<1> SUFFICES ASSUME NEW g \in OptGraphs
             PROVE  /\ ToSet(g.nodes) \subseteq Names
                    /\ DOMAIN g.nodes = 1..Len(g.nodes)
                    /\ Len(g.nodes) \in Nat /\ Len(g.nodes) <= Cardinality(Names)
                    /\ Cardinality(ToSet(g.nodes)) = Len(g.nodes)
  BY <1>1
<1>2. g.nodes \in Seq(Names) /\ IsInjective(g.nodes)
  BY OptGraphsAssumption
<1>3. /\ DOMAIN g.nodes = 1..Len(g.nodes) /\ Len(g.nodes) \in Nat
      /\ \A i \in DOMAIN g.nodes : g.nodes[i] \in Names
  BY <1>2, LenProperties
<1>4. ToSet(g.nodes) \subseteq Names
  BY <1>3 DEF ToSet
<1>5. Cardinality(ToSet(g.nodes)) = Len(g.nodes)
  BY <1>2, LengthIsCardinality
<1>6. Cardinality(ToSet(g.nodes)) <= Cardinality(Names)
  BY <1>1, <1>4, FS_Subset
<1> QED
  BY <1>3, <1>4, <1>5, <1>6

\* What ranks the graph that was handed over is a bounded rank of the graph now.
LEMMA RanksOfNow ==
  ASSUME StructureInv
  PROVE  /\ \A rank \in Ranks : FallsIn(rank, ToSet(source.nodes), source.inputs)
                                  => CanRank(rank, Cardinality(Names) + 1)
         /\ \E rank \in Ranks : FallsIn(rank, ToSet(source.nodes), source.inputs)
<1>1. Shape /\ StillFalls /\ source \in OptGraphs /\ inputs \in [Names -> Seq(Names)]
  BY DEF StructureInv, Shape
<1>2. Nodes \subseteq Names /\ Cardinality(Names) \in Nat
  BY <1>1, NamesAreCounted DEF Shape
<1>3. ASSUME NEW rank \in Ranks, FallsIn(rank, ToSet(source.nodes), source.inputs)
      PROVE  CanRank(rank, Cardinality(Names) + 1)
  <2>1. rank \in [Names -> 0..Cardinality(Names)]
    BY DEF Ranks
  <2> PICK c : c = Cardinality(Names)
    OBVIOUS
  <2>2. c \in Nat /\ \A n \in Names : rank[n] \in 0..c
    BY <1>2, <2>1
  <2>3. rank \in [Names -> Nat] /\ c + 1 \in Nat /\ \A n \in Names : rank[n] < c + 1
    BY <2>1, <2>2
  <2>4. FallsIn(rank, Nodes, inputs)
    BY <1>1, <1>3 DEF StillFalls
  <2> QED
    BY <1>1, <1>2, <2>3, <2>4 DEF CanRank
<1>4. \E rank \in Ranks : FallsIn(rank, ToSet(source.nodes), source.inputs)
  <2>1. PICK rank \in [Names -> Nat] :
          /\ \A n \in Names : rank[n] < Cardinality(ToSet(source.nodes)) + 1
          /\ FallsIn(rank, ToSet(source.nodes), source.inputs)
    BY <1>1, GraphsHaveRanks
  <2>2. /\ Cardinality(ToSet(source.nodes)) \in Nat
        /\ Cardinality(ToSet(source.nodes)) <= Cardinality(Names)
    BY <1>1, NamesAreCounted
  <2> PICK c, d : c = Cardinality(Names) /\ d = Cardinality(ToSet(source.nodes))
    OBVIOUS
  <2>3. \A n \in Names : rank[n] \in 0..c
    <3>1. c \in Nat /\ d \in Nat /\ d <= c
      BY <1>2, <2>2
    <3>2. \A n \in Names : rank[n] \in Nat /\ rank[n] < d + 1
      BY <2>1
    <3> QED
      BY <3>1, <3>2
  <2>4. rank \in Ranks
    BY <2>3 DEF Ranks
  <2> QED
    BY <2>1, <2>4
<1> QED
  BY <1>3, <1>4

LEMMA StructureInit == Init => StructureInv
<1> SUFFICES ASSUME Init PROVE StructureInv
  OBVIOUS
<1>1. /\ source \in OptGraphs /\ order = source.nodes /\ op = source.op
      /\ inputs = source.inputs /\ value = source.value /\ outputs = source.outputs
      /\ absorbed = {} /\ pass = "fold" /\ cursor = 1
  BY DEF Init
<1>2. /\ source.nodes \in Seq(Names) /\ IsInjective(source.nodes)
      /\ source.op \in [Names -> Operations \ {"fusion"}] /\ source.inputs \in [Names -> Seq(Names)]
      /\ source.value \in [Names -> Int \cup {NoValue}]
      /\ source.outputs \in [DOMAIN source.outputs -> Names]
  BY <1>1, OptGraphsAssumption
<1>3. Nodes = ToSet(source.nodes) /\ Nodes \subseteq Names /\ Live = Nodes
  BY <1>1, NamesAreCounted DEF Nodes, Live
<1>4. Shape
  <2>1. op \in [Names -> Operations]
    BY <1>1, <1>2
  <2> QED
    BY <2>1, <1>1, <1>2, <1>3 DEF Shape
<1>5. Connected
  <2>1. Live \cup External = Names
    BY <1>3 DEF External
  <2>2. \A m \in Live : inputs[m] \in Seq(Names)
    BY <1>1, <1>2, <1>3
  <2>3. \A m \in Live : \A i \in DOMAIN inputs[m] : inputs[m][i] \in Names
    BY <2>2, LenProperties
  <2>4. \A o \in DOMAIN outputs : outputs[o] \in Names
    BY <1>1, <1>2
  <2> QED
    BY <2>1, <2>3, <2>4 DEF Connected
<1>6. Counted
  BY <1>1 DEF Counted
<1>7. Kinds /\ Materialized
  BY <1>1 DEF Kinds, Materialized
<1>8. StillFalls /\ StillRises
  BY <1>1, <1>3 DEF StillFalls, StillRises
<1> QED
  BY <1>4, <1>5, <1>6, <1>7, <1>8 DEF StructureInv

\* The list without some of its nodes is a list of the others, and whatever rises
\* along it still does.
LEMMA KeptList ==
  ASSUME Shape, NEW S
  PROVE  /\ Kept(order, S) \in Seq(Names) /\ IsInjective(Kept(order, S))
         /\ ToSet(Kept(order, S)) = Nodes \cap S
         /\ \A rank : RisesIn(rank, order) => RisesIn(rank, Kept(order, S))
<1>1. order \in Seq(Names) /\ IsInjective(order) /\ Nodes = ToSet(order)
  BY DEF Shape, Nodes
<1>2. /\ Kept(order, S) \in Seq(Names) /\ IsInjective(Kept(order, S))
      /\ ToSet(Kept(order, S)) = Nodes \cap S
  BY <1>1, KeptSelects
<1> PICK t : t = Kept(order, S)
  OBVIOUS
<1>3. PICK at \in [DOMAIN t -> DOMAIN order] :
        /\ \A j \in DOMAIN t : t[j] = order[at[j]]
        /\ \A j, k \in DOMAIN t : j < k => at[j] < at[k]
  BY <1>1, KeptInOrder
<1>4. \A rank : RisesIn(rank, order) => RisesIn(rank, t)
  BY <1>3 DEF RisesIn
<1> QED
  BY <1>2, <1>4

-----------------------------------------------------------------------------
(* What is computed.                                                       *)

LEMMA ComputedTypes ==
  ASSUME NEW args
  PROVE  /\ Compute("sub", args) = args[1] - args[2]
         /\ Compute("div", args) = IF args[2] = 0 THEN 100
                                   ELSE IF args[2] > 0 THEN args[1] \div args[2]
                                   ELSE (-args[1]) \div (-args[2])
         /\ Compute("mul", args) = args[1] * args[2]
         /\ Compute("max", args) = IF args[1] < args[2] THEN args[2] ELSE args[1]
         /\ Compute("neg", args) = -args[1]
         /\ Compute("relu", args) = IF args[1] > 0 THEN args[1] ELSE 0
<1>1. Compute("sub", args) = args[1] - args[2]
  BY Zenon DEF Compute
<1>2. Compute("div", args) = IF args[2] = 0 THEN 100
                                   ELSE IF args[2] > 0 THEN args[1] \div args[2]
                                   ELSE (-args[1]) \div (-args[2])
  BY Zenon DEF Compute
<1>3. Compute("mul", args) = args[1] * args[2]
  BY Zenon DEF Compute
<1>4. Compute("max", args) = IF args[1] < args[2] THEN args[2] ELSE args[1]
  BY Zenon DEF Compute
<1>5. Compute("neg", args) = -args[1]
  BY Zenon DEF Compute
<1>6. Compute("relu", args) = IF args[1] > 0 THEN args[1] ELSE 0
  BY Zenon DEF Compute
<1> QED
  BY <1>1, <1>2, <1>3, <1>4, <1>5, <1>6

\* The node types of the elementwise operations.
LEMMA NodeTypes ==
  /\ DOMAIN NodeType = {"sub", "div", "mul", "max", "neg", "relu", "sign", "scale"}
  /\ \A o \in DOMAIN NodeType :
       NodeType[o] = IF o = "sign" THEN "neg" ELSE IF o = "scale" THEN "mul" ELSE o
<1>1. DOMAIN NodeType = {"sub", "div", "mul", "max", "neg", "relu", "sign", "scale"}
  BY Zenon DEF NodeType
<1>2. \A o \in {"sub", "div", "mul", "max", "neg", "relu", "sign", "scale"} :
        NodeType[o] = CASE o = "sign" -> "neg" [] o = "scale" -> "mul" [] OTHER -> o
  BY Zenon DEF NodeType
<1>3. \A o : (CASE o = "sign" -> "neg" [] o = "scale" -> "mul" [] OTHER -> o)
             = IF o = "sign" THEN "neg" ELSE IF o = "scale" THEN "mul" ELSE o
  <2> TAKE o
  <2>1. CASE o = "sign"
    BY <2>1, Zenon
  <2>2. CASE o # "sign" /\ o = "scale"
    BY <2>2, Zenon
  <2>3. CASE o # "sign" /\ o # "scale"
    BY <2>3, Zenon
  <2> QED
    BY <2>1, <2>2, <2>3
<1> QED
  BY <1>1, <1>2, <1>3, Zenon

\* A node is folded to a number.
LEMMA FoldsToNumber ==
  ASSUME Shape, NEW n \in Nodes, Foldable(n)
  PROVE  FoldedValue(n) \in Int /\ op[n] \in DOMAIN NodeType
<1>1. /\ op[n] \in DOMAIN NodeType
      /\ \A i \in DOMAIN inputs[n] : Constant(inputs[n][i])
      /\ Len(inputs[n]) = Arity(NodeType[op[n]])
      /\ NodeType[op[n]] = "div" => value[inputs[n][2]] # 0
  BY DEF Foldable, Elementwise, Evaluable
<1> DEFINE args == [i \in DOMAIN inputs[n] |-> value[inputs[n][i]]]
<1>2. /\ n \in Names /\ inputs[n] \in Seq(Names) /\ value \in [Names -> Int \cup {NoValue}]
      /\ Nodes \subseteq Names
  BY NamesAreCounted DEF Shape
<1>3. DOMAIN inputs[n] = 1..Len(inputs[n]) /\ Len(inputs[n]) \in Nat
  BY <1>2, LenProperties
<1>4. \A i \in DOMAIN inputs[n] : args[i] \in Int
  <2> SUFFICES ASSUME NEW i \in DOMAIN inputs[n] PROVE args[i] \in Int
    OBVIOUS
  <2>1. inputs[n][i] \in Nodes /\ value[inputs[n][i]] # NoValue
    BY <1>1 DEF Constant
  <2>2. value[inputs[n][i]] \in Int \cup {NoValue}
    BY <1>2, <2>1
  <2> QED
    BY <2>1, <2>2
<1>5. FoldedValue(n) = Compute(NodeType[op[n]], args)
  BY DEF FoldedValue
<1>6. NodeType[op[n]] \in {"sub", "div", "mul", "max", "neg", "relu"}
  BY <1>1, NodeTypes
<1> HIDE DEF args
<1>7. CASE NodeType[op[n]] \in {"neg", "relu"}
  <2>1. Arity(NodeType[op[n]]) = 1
    BY <1>7 DEF Arity
  <2>2. args[1] \in Int
    BY <1>1, <1>3, <1>4, <2>1
  <2>3. CASE NodeType[op[n]] = "neg"
    BY <1>1, <1>5, <2>2, <2>3, ComputedTypes
  <2>4. CASE NodeType[op[n]] = "relu"
    BY <1>1, <1>5, <2>2, <2>4, ComputedTypes
  <2> QED
    BY <1>7, <2>3, <2>4
<1>8. CASE NodeType[op[n]] \in {"sub", "div", "mul", "max"}
  <2>1. Arity(NodeType[op[n]]) = 2
    BY <1>8 DEF Arity
  <2>2. args[1] \in Int /\ args[2] \in Int
    BY <1>1, <1>3, <1>4, <2>1
  <2> PICK a, b : a = args[1] /\ b = args[2]
    OBVIOUS
  <2>3. CASE NodeType[op[n]] = "sub"
    BY <1>1, <1>5, <2>2, <2>3, ComputedTypes
  <2>4. CASE NodeType[op[n]] = "div"
    <3>1. FoldedValue(n) = IF b = 0 THEN 100 ELSE IF b > 0 THEN a \div b ELSE (-a) \div (-b)
      BY <1>5, <2>4, ComputedTypes
    <3>2. a \in Int /\ b \in Int
      BY <2>2
    <3> QED
      BY <1>1, <3>1, <3>2
  <2>5. CASE NodeType[op[n]] = "mul"
    <3>1. FoldedValue(n) = a * b
      BY <1>5, <2>5, ComputedTypes
    <3> QED
      BY <1>1, <2>2, <3>1
  <2>6. CASE NodeType[op[n]] = "max"
    BY <1>1, <1>5, <2>2, <2>6, ComputedTypes
  <2> QED
    BY <1>8, <2>3, <2>4, <2>5, <2>6
<1> QED
  BY <1>6, <1>7, <1>8

-----------------------------------------------------------------------------
(* Every step keeps the shape.                                             *)

\* The node a pass is at.
LEMMA AtCursor ==
  ASSUME Shape, cursor > 0, cursor <= Len(order)
  PROVE  order[cursor] \in Nodes /\ order[cursor] \in Names
<1>1. order \in Seq(Names) /\ cursor \in Nat
  BY DEF Shape
<1>2. DOMAIN order = 1..Len(order) /\ Len(order) \in Nat /\ \A i \in DOMAIN order : order[i] \in Names
  BY <1>1, LenProperties
<1>3. cursor \in DOMAIN order
  BY <1>1, <1>2
<1> QED
  BY <1>2, <1>3 DEF Nodes, ToSet

LEMMA FoldKeepsStructure == StructureInv /\ FoldNode => StructureInv'
<1> SUFFICES ASSUME StructureInv, FoldNode PROVE StructureInv'
  OBVIOUS
<1> PICK n : n = order[cursor]
  OBVIOUS
<1>1. /\ pass = "fold" /\ cursor <= Len(order) /\ cursor' = cursor + 1
      /\ pass' = pass /\ order' = order /\ outputs' = outputs /\ absorbed' = absorbed
      /\ source' = source
  BY DEF FoldNode
<1>2. Shape /\ Connected /\ Kinds /\ Materialized /\ StillFalls /\ StillRises
  BY DEF StructureInv
<1>3. /\ source \in OptGraphs
      /\ order \in Seq(Names) /\ IsInjective(order) /\ Nodes \subseteq ToSet(source.nodes)
      /\ op \in [Names -> Operations] /\ inputs \in [Names -> Seq(Names)]
      /\ value \in [Names -> Int \cup {NoValue}]
      /\ outputs \in [DOMAIN source.outputs -> Names]
      /\ cursor \in Nat /\ cursor > 0 /\ absorbed = {}
  BY <1>1, <1>2 DEF Shape
<1>4. n \in Nodes /\ n \in Names
  BY <1>1, <1>2, <1>3, AtCursor
<1>5. /\ op' \in [Names -> Operations] /\ inputs' \in [Names -> Seq(Names)]
      /\ value' \in [Names -> Int \cup {NoValue}]
      /\ \A m \in Names : op'[m] = op[m] \/ op'[m] = "constant"
      /\ \A m \in Names : inputs'[m] = inputs[m] \/ inputs'[m] = <<>>
  <2>1. CASE Foldable(n)
    <3>1. /\ op' = [op EXCEPT ![n] = "constant"]
          /\ inputs' = [inputs EXCEPT ![n] = <<>>]
          /\ value' = [value EXCEPT ![n] = FoldedValue(n)]
      BY <2>1 DEF FoldNode
    <3>2. FoldedValue(n) \in Int
      BY <1>2, <1>4, <2>1, FoldsToNumber
    <3>3. <<>> \in Seq(Names)
      OBVIOUS
    <3>4. op' \in [Names -> Operations] /\ \A m \in Names : op'[m] = op[m] \/ op'[m] = "constant"
      <4>1. "constant" \in Operations
        BY DEF Operations
      <4> PICK c : c = "constant"
        OBVIOUS
      <4>2. op' = [op EXCEPT ![n] = c] /\ c \in Operations
        BY <3>1, <4>1
      <4>3. op' \in [Names -> Operations] /\ \A m \in Names : op'[m] = op[m] \/ op'[m] = c
        BY <1>3, <4>2
      <4> QED
        BY <4>3
    <3>5. inputs' \in [Names -> Seq(Names)]
          /\ \A m \in Names : inputs'[m] = inputs[m] \/ inputs'[m] = <<>>
      BY <1>3, <3>1, <3>3
    <3>6. value' \in [Names -> Int \cup {NoValue}]
      BY <1>3, <3>1, <3>2
    <3> QED
      BY <3>4, <3>5, <3>6
  <2>2. CASE ~Foldable(n)
    BY <1>3, <2>2 DEF FoldNode
  <2> QED
    BY <2>1, <2>2
<1>6. \A m \in Names : \A i \in DOMAIN inputs'[m] :
        i \in DOMAIN inputs[m] /\ inputs'[m][i] = inputs[m][i]
  BY <1>5
<1>7. Nodes' = Nodes /\ Live' = Live /\ External' = External /\ Nodes \subseteq Names
  BY <1>1, <1>3, NamesAreCounted DEF Nodes, Live, External
<1>8. Shape'
  BY <1>1, <1>3, <1>5, <1>7 DEF Shape
<1>9. Connected'
  <2>1. \A m \in Live : m \in Names
    BY <1>7 DEF Live
  <2>2. \A m \in Live : \A i \in DOMAIN inputs'[m] : inputs'[m][i] \in Live \cup External
    BY <1>2, <1>6, <2>1 DEF Connected
  <2>3. \A o \in DOMAIN outputs' : outputs'[o] \in Live \cup External
    BY <1>1, <1>2 DEF Connected
  <2> QED
    BY <1>7, <2>2, <2>3 DEF Connected
<1>10. Counted'
  BY <1>1 DEF Counted
<1>11. Kinds'
  BY <1>1, <1>2, <1>5 DEF Kinds
<1>12. Materialized'
  BY <1>1, <1>2 DEF Materialized
<1>13. StillFalls'
  <2> SUFFICES ASSUME NEW rank \in Ranks, FallsIn(rank, ToSet(source.nodes), source.inputs)
               PROVE  FallsIn(rank, Nodes, inputs')
    BY <1>1, <1>7 DEF StillFalls
  <2>1. FallsIn(rank, Nodes, inputs)
    BY <1>2 DEF StillFalls
  <2> QED
    BY <1>6, <1>7, <2>1 DEF FallsIn
<1>14. StillRises'
  BY <1>1, <1>2 DEF StillRises
<1> QED
  BY <1>8, <1>9, <1>10, <1>11, <1>12, <1>13, <1>14 DEF StructureInv

LEMMA RewriteKeepsStructure == StructureInv /\ RewriteIdentities => StructureInv'
<1> SUFFICES ASSUME StructureInv, RewriteIdentities PROVE StructureInv'
  OBVIOUS
<1>1. /\ pass = "rewrite" /\ pass' = "scales" /\ cursor' = cursor /\ op' = op /\ value' = value
      /\ absorbed' = absorbed /\ source' = source
      /\ order' = Kept(order, Nodes \ Redirected)
      /\ inputs' = [n \in Names |->
                      IF n \in Nodes \ Redirected
                      THEN [i \in DOMAIN inputs[n] |-> Target[inputs[n][i]]]
                      ELSE inputs[n]]
      /\ outputs' = [o \in DOMAIN outputs |-> Target[outputs[o]]]
  BY DEF RewriteIdentities
<1>2. Shape /\ Connected /\ Kinds /\ Materialized /\ StillFalls /\ StillRises
  BY DEF StructureInv
<1>3. /\ source \in OptGraphs
      /\ order \in Seq(Names) /\ IsInjective(order) /\ Nodes \subseteq ToSet(source.nodes)
      /\ op \in [Names -> Operations] /\ inputs \in [Names -> Seq(Names)]
      /\ value \in [Names -> Int \cup {NoValue}]
      /\ outputs \in [DOMAIN source.outputs -> Names]
      /\ cursor \in Nat /\ absorbed = {}
  BY <1>1, <1>2 DEF Shape
<1>4. PICK base : CanRank(base, Cardinality(Names) + 1)
  BY RanksOfNow
<1>5. /\ \A n \in Names : Target[n] \in Names \ Redirected
      /\ \A n \in Names : n \notin Redirected => Target[n] = n
  BY <1>4, TargetsEndTheChain, TargetIsDefined DEF TargetLaw
<1>6. /\ order' \in Seq(Names) /\ IsInjective(order')
      /\ Nodes' = Nodes \ Redirected
      /\ \A rank : RisesIn(rank, order) => RisesIn(rank, order')
  <2>1. /\ order' \in Seq(Names) /\ IsInjective(order')
        /\ ToSet(order') = Nodes \cap (Nodes \ Redirected)
        /\ \A rank : RisesIn(rank, order) => RisesIn(rank, order')
    BY <1>1, <1>2, KeptList
  <2>2. Nodes' = ToSet(order')
    BY DEF Nodes
  <2> QED
    BY <2>1, <2>2
<1>7. Nodes \subseteq Names /\ Live = Nodes /\ Live' = Nodes \ Redirected /\ External' = External
  BY <1>1, <1>3, <1>6, NamesAreCounted DEF Live, External
<1>8. \A n \in Names : /\ DOMAIN inputs[n] = 1..Len(inputs[n]) /\ Len(inputs[n]) \in Nat
                       /\ \A i \in DOMAIN inputs[n] : inputs[n][i] \in Names
  BY <1>4, ReadsAreLower
<1>9. \A n \in Nodes \ Redirected :
        /\ DOMAIN inputs'[n] = DOMAIN inputs[n]
        /\ \A i \in DOMAIN inputs[n] : inputs'[n][i] = Target[inputs[n][i]]
  BY <1>1, <1>7
<1>10. inputs' \in [Names -> Seq(Names)]
  <2>1. \A n \in Names : [i \in DOMAIN inputs[n] |-> Target[inputs[n][i]]] \in Seq(Names)
    <3> SUFFICES ASSUME NEW n \in Names
                 PROVE  [i \in DOMAIN inputs[n] |-> Target[inputs[n][i]]] \in Seq(Names)
      OBVIOUS
    <3>1. [i \in DOMAIN inputs[n] |-> Target[inputs[n][i]]] \in [1..Len(inputs[n]) -> Names]
      BY <1>5, <1>8
    <3> QED
      BY <1>8, <3>1, SeqDef
  <2>2. \A n \in Names : inputs[n] \in Seq(Names)
    BY <1>3
  <2> QED
    BY <1>1, <2>1, <2>2
<1>11. outputs' \in [DOMAIN source.outputs -> Names] /\ DOMAIN outputs' = DOMAIN outputs
  BY <1>1, <1>3, <1>5
<1>12. Shape'
  <2>1. Nodes' \subseteq ToSet(source.nodes)
    BY <1>3, <1>6
  <2> QED
    BY <1>1, <1>3, <1>6, <1>10, <1>11, <2>1 DEF Shape
<1>13. \A n \in Names \cap (Nodes \cup External) : Target[n] \in (Nodes \ Redirected) \cup External
  <2> DEFINE S == Nodes \cup External
  <2>1. \A n \in Redirected \cap S : inputs[n][1] \in S
    <3> SUFFICES ASSUME NEW n \in Redirected PROVE inputs[n][1] \in S
      OBVIOUS
    <3>1. n \in Nodes /\ 1 \in DOMAIN inputs[n]
      BY <1>4, RedirectedNodes
    <3> QED
      BY <1>2, <1>7, <3>1 DEF Connected
  <2> HIDE DEF S
  <2>2. \A n \in Names \cap S : Target[n] \in S
    BY <1>4, <2>1, TargetsKeep
  <2> QED
    BY <1>5, <2>2 DEF S
<1>14. Connected'
  <2>1. \A m \in Nodes \ Redirected : \A i \in DOMAIN inputs'[m] :
          inputs'[m][i] \in (Nodes \ Redirected) \cup External
    <3> SUFFICES ASSUME NEW m \in Nodes \ Redirected, NEW i \in DOMAIN inputs'[m]
                 PROVE  inputs'[m][i] \in (Nodes \ Redirected) \cup External
      OBVIOUS
    <3>1. i \in DOMAIN inputs[m] /\ inputs'[m][i] = Target[inputs[m][i]]
      BY <1>9
    <3>2. inputs[m][i] \in Names \cap (Nodes \cup External)
      BY <1>2, <1>7, <1>8, <3>1 DEF Connected
    <3> QED
      BY <1>13, <3>1, <3>2
  <2>2. \A o \in DOMAIN outputs' : outputs'[o] \in (Nodes \ Redirected) \cup External
    <3> SUFFICES ASSUME NEW o \in DOMAIN outputs'
                 PROVE  outputs'[o] \in (Nodes \ Redirected) \cup External
      OBVIOUS
    <3>1. o \in DOMAIN outputs /\ outputs'[o] = Target[outputs[o]]
      BY <1>1
    <3>2. outputs[o] \in Names \cap (Nodes \cup External)
      BY <1>2, <1>3, <1>7, <3>1 DEF Connected
    <3> QED
      BY <1>13, <3>1, <3>2
  <2> QED
    BY <1>7, <2>1, <2>2 DEF Connected
<1>15. Counted'
  BY <1>1 DEF Counted
<1>16. Kinds'
  BY <1>1, <1>2 DEF Kinds
<1>17. Materialized'
  <2> SUFFICES ASSUME NEW o \in DOMAIN outputs',
                      source.outputs[o] \in ToSet(source.nodes),
                      source.op[source.outputs[o]] # "identity"
               PROVE  outputs'[o] = source.outputs[o]
    BY <1>1 DEF Materialized
  <2> PICK n : n = source.outputs[o]
    OBVIOUS
  <2>1. outputs = source.outputs /\ o \in DOMAIN outputs /\ outputs'[o] = Target[n]
    BY <1>1, <1>2 DEF Kinds
  <2>2. n \in Names /\ op[n] # "identity"
    BY <1>2, <1>3, <2>1 DEF Kinds
  <2>3. n \notin Redirected
    BY <2>2 DEF Redirected
  <2> QED
    BY <1>5, <2>1, <2>2, <2>3
<1>18. StillFalls'
  <2> SUFFICES ASSUME NEW rank \in Ranks, FallsIn(rank, ToSet(source.nodes), source.inputs)
               PROVE  FallsIn(rank, Nodes \ Redirected, inputs')
    BY <1>1, <1>6 DEF StillFalls
  <2>1. CanRank(rank, Cardinality(Names) + 1)
    BY RanksOfNow
  <2>2. \A n \in Names : rank[n] \in Nat /\ rank[Target[n]] <= rank[n] /\ Target[n] \in Names
    BY <2>1, TargetsEndTheChain, ReadsAreLower
  <2> SUFFICES ASSUME NEW m \in Nodes \ Redirected, NEW i \in DOMAIN inputs'[m]
               PROVE  rank[inputs'[m][i]] < rank[m]
    BY DEF FallsIn
  <2> PICK y : y = inputs[m][i]
    OBVIOUS
  <2>3. i \in DOMAIN inputs[m] /\ inputs'[m][i] = Target[y] /\ y \in Names /\ m \in Names
    BY <1>7, <1>8, <1>9
  <2>4. rank[y] < rank[m]
    BY <2>1, <2>3, ReadsAreLower
  <2>5. rank[Target[y]] \in Nat /\ rank[y] \in Nat /\ rank[m] \in Nat /\ rank[Target[y]] <= rank[y]
    BY <2>2, <2>3
  <2> QED
    BY <2>3, <2>4, <2>5
<1>19. StillRises'
  BY <1>1, <1>2, <1>6 DEF StillRises
<1> QED
  BY <1>12, <1>14, <1>15, <1>16, <1>17, <1>18, <1>19 DEF StructureInv

LEMMA EndFoldKeepsStructure == StructureInv /\ EndFold => StructureInv'
<1> SUFFICES ASSUME StructureInv, EndFold PROVE StructureInv'
  OBVIOUS
<1>1. /\ pass = "fold" /\ pass' = "rewrite" /\ cursor' = cursor
      /\ order' = order /\ op' = op /\ inputs' = inputs /\ value' = value
      /\ outputs' = outputs /\ absorbed' = absorbed /\ source' = source
  BY DEF EndFold, graphVars
<1>2. Shape' /\ Connected' /\ Counted' /\ Kinds' /\ Materialized'
  BY <1>1 DEF StructureInv, Shape, Connected, Counted, Kinds, Materialized, Nodes, Live, External
<1>3. StillFalls' /\ StillRises'
  BY <1>1 DEF StructureInv, StillFalls, StillRises, Nodes
<1> QED
  BY <1>2, <1>3 DEF StructureInv

\* The references to a name: from a node, and from an output.
ReadsOf(x) == {e \in UNION {{m} \X DOMAIN inputs[m] : m \in Nodes} : inputs[e[1]][e[2]] = x}
OutputsOf(x) == {o \in DOMAIN outputs : outputs[o] = x}

\* A count of one is one reference.
LEMMA CountedOnce ==
  ASSUME Shape, absorbed = {}, NEW x \in Names, ConsumerCount(x) = 1
  PROVE  Sole(x)
<1>1. /\ source \in OptGraphs /\ inputs \in [Names -> Seq(Names)]
      /\ outputs \in [DOMAIN source.outputs -> Names]
      /\ Nodes \subseteq Names /\ Live = Nodes
  BY NamesAreCounted DEF Shape, Live
<1>2. \A m \in Nodes : DOMAIN inputs[m] = 1..Len(inputs[m]) /\ Len(inputs[m]) \in Nat
  <2>1. \A m \in Nodes : inputs[m] \in Seq(Names)
    BY <1>1
  <2> QED
    BY <2>1, LenProperties
<1> DEFINE edges == [m \in Nodes |-> {m} \X DOMAIN inputs[m]]
<1>3. IsFiniteSet(ReadsOf(x))
  <2>1. IsFiniteSet(Nodes)
    BY <1>1, InputValuesAssumption, FS_Subset
  <2>2. \A m \in Nodes : IsFiniteSet(edges[m])
    <3> SUFFICES ASSUME NEW m \in Nodes PROVE IsFiniteSet({m} \X DOMAIN inputs[m])
      OBVIOUS
    <3>1. IsFiniteSet({m}) /\ IsFiniteSet(DOMAIN inputs[m])
      <4> PICK c : c = Len(inputs[m])
        OBVIOUS
      <4>1. c \in Nat /\ DOMAIN inputs[m] = 1..c
        BY <1>2
      <4>2. IsFiniteSet(1..c)
        BY <4>1, FS_Interval
      <4> QED
        BY <4>1, <4>2, FS_Singleton
    <3> QED
      BY <3>1, FS_Product
  <2> HIDE DEF edges
  <2>3. IsFiniteSet({edges[m] : m \in Nodes})
    <3> DEFINE image == {edges[m] : m \in Nodes}
    <3>1. edges \in Surjection(Nodes, image)
      <4>1. DOMAIN edges = Nodes /\ edges \in [Nodes -> image]
        BY DEF edges
      <4> QED
        BY <4>1 DEF Surjection
    <3> HIDE DEF image
    <3>2. IsFiniteSet(image)
      BY <2>1, <3>1, FS_Surjection
    <3> QED
      BY <3>2 DEF image
  <2>4. IsFiniteSet(UNION {edges[m] : m \in Nodes})
    BY <2>2, <2>3, FS_UNION
  <2>5. {edges[m] : m \in Nodes} = {{m} \X DOMAIN inputs[m] : m \in Nodes}
    BY DEF edges
  <2>6. ReadsOf(x) \subseteq UNION {edges[m] : m \in Nodes}
    BY <2>5 DEF ReadsOf
  <2> QED
    BY <2>4, <2>6, FS_Subset
<1>4. IsFiniteSet(OutputsOf(x))
  <2>1. IsFiniteSet(DOMAIN outputs)
    BY <1>1, OptGraphsAssumption
  <2> QED
    BY <2>1, FS_Subset DEF OutputsOf
<1>5. Cardinality(ReadsOf(x)) + Cardinality(OutputsOf(x)) = 1
  BY DEF ConsumerCount, ReadCount, ReadsOf, OutputsOf
<1>6. Cardinality(ReadsOf(x)) \in Nat /\ Cardinality(OutputsOf(x)) \in Nat
  BY <1>3, <1>4, FS_CardinalityType
<1>7. \A m \in Nodes : \A i \in DOMAIN inputs[m] : inputs[m][i] = x => <<m, i>> \in ReadsOf(x)
  BY DEF ReadsOf
<1>8. \A o \in DOMAIN outputs : outputs[o] = x => o \in OutputsOf(x)
  BY DEF OutputsOf
<1>9. ASSUME NEW m \in Nodes, NEW k \in Nodes, NEW i \in DOMAIN inputs[m], NEW j \in DOMAIN inputs[k],
             inputs[m][i] = x, inputs[k][j] = x
      PROVE  m = k /\ i = j
  <2>1. <<m, i>> \in ReadsOf(x) /\ <<k, j>> \in ReadsOf(x)
    BY <1>7, <1>9
  <2>2. Cardinality(ReadsOf(x)) # 0
    BY <1>3, <2>1, FS_EmptySet
  <2>3. Cardinality(ReadsOf(x)) = 1
    BY <1>5, <1>6, <2>2
  <2>4. PICK e : ReadsOf(x) = {e}
    BY <1>3, <2>3, FS_Singleton
  <2> QED
    BY <2>1, <2>4
<1>10. ASSUME NEW m \in Nodes, NEW i \in DOMAIN inputs[m], NEW o \in DOMAIN outputs,
              inputs[m][i] = x, outputs[o] = x
       PROVE  FALSE
  <2>1. <<m, i>> \in ReadsOf(x) /\ o \in OutputsOf(x)
    BY <1>7, <1>8, <1>10
  <2>2. Cardinality(ReadsOf(x)) # 0 /\ Cardinality(OutputsOf(x)) # 0
    BY <1>3, <1>4, <2>1, FS_EmptySet
  <2> QED
    BY <1>5, <1>6, <2>2
<1> QED
  BY <1>1, <1>9, <1>10 DEF Sole

LEMMA FlagKeepsStructure == StructureInv /\ FlagScaleFolds => StructureInv'
<1> SUFFICES ASSUME StructureInv, FlagScaleFolds PROVE StructureInv'
  OBVIOUS
<1>1. /\ pass = "scales" /\ pass' = "fuse" /\ cursor' = Len(order)
      /\ consumers' = [n \in Names |-> ConsumerCount(n)]
      /\ order' = order /\ op' = op /\ inputs' = inputs /\ value' = value
      /\ outputs' = outputs /\ absorbed' = absorbed /\ source' = source
  BY DEF FlagScaleFolds
<1>2. Shape /\ absorbed = {} /\ Len(order) \in Nat /\ Len(order) <= Len(order)
  <2>1. Shape /\ absorbed = {} /\ order \in Seq(Names)
    BY <1>1 DEF StructureInv, Shape
  <2>2. Len(order) \in Nat
    BY <2>1, LenProperties
  <2> QED
    BY <2>1, <2>2
<1>3. Nodes' = Nodes /\ Live' = Live /\ External' = External
  BY <1>1 DEF Nodes, Live, External
<1>4. Shape'
  BY <1>1, <1>2, <1>3 DEF Shape
<1>5. Connected' /\ Kinds' /\ Materialized'
  BY <1>1, <1>3 DEF StructureInv, Connected, Kinds, Materialized
<1>6. Counted'
  <2> SUFFICES ASSUME NEW x \in Names, consumers'[x] = 1 PROVE Sole(x)'
    BY DEF Counted
  <2>1. Sole(x)
    BY <1>1, <1>2, CountedOnce
  <2> QED
    BY <1>1, <1>3, <2>1 DEF Sole
<1>7. StillFalls' /\ StillRises'
  BY <1>1, <1>3 DEF StructureInv, StillFalls, StillRises
<1> QED
  BY <1>4, <1>5, <1>6, <1>7 DEF StructureInv

LEMMA EndFuseKeepsStructure == StructureInv /\ EndFuse => StructureInv'
<1> SUFFICES ASSUME StructureInv, EndFuse PROVE StructureInv'
  OBVIOUS
<1>1. /\ pass = "fuse" /\ pass' = "done" /\ cursor' = cursor
      /\ order' = Kept(order, Nodes \ absorbed)
      /\ op' = op /\ inputs' = inputs /\ value' = value
      /\ outputs' = outputs /\ absorbed' = absorbed /\ source' = source
  BY DEF EndFuse
<1>2. Shape
  BY DEF StructureInv
<1>3. /\ order' \in Seq(Names) /\ IsInjective(order') /\ Nodes' = Live
      /\ \A rank : RisesIn(rank, order) => RisesIn(rank, order')
  <2>1. /\ order' \in Seq(Names) /\ IsInjective(order')
        /\ ToSet(order') = Nodes \cap (Nodes \ absorbed)
        /\ \A rank : RisesIn(rank, order) => RisesIn(rank, order')
    BY <1>1, <1>2, KeptList
  <2>2. Nodes' = ToSet(order')
    BY DEF Nodes
  <2> QED
    BY <2>1, <2>2 DEF Live
<1>4. Live' = Live /\ External' = External /\ Nodes' \subseteq Nodes /\ Nodes' \cap absorbed = {}
  BY <1>1, <1>3 DEF Live, External
<1>5. Shape'
  BY <1>1, <1>2, <1>3, <1>4 DEF Shape
<1>6. Connected' /\ Kinds' /\ Materialized'
  BY <1>1, <1>4 DEF StructureInv, Connected, Kinds, Materialized
<1>7. Counted'
  BY <1>1 DEF Counted
<1>8. StillFalls'
  BY <1>1, <1>4 DEF StructureInv, StillFalls, FallsIn
<1>9. StillRises'
  BY <1>1, <1>3 DEF StructureInv, StillRises
<1> QED
  BY <1>5, <1>6, <1>7, <1>8, <1>9 DEF StructureInv

\* The fuser turns the node at the cursor into a fused node, or passes it by.
FusesAt(n) ==
  /\ n \in Live /\ Elementwise(n)
  /\ op' = [op EXCEPT ![n] = "fusion"]
  /\ expr' = [m \in DOMAIN expr \cup {n} |-> IF m = n THEN Tree(n) ELSE expr[m]]
  /\ inputs' = [inputs EXCEPT ![n] = FirstMentions(Leaves[n])]
  /\ absorbed' = absorbed \cup (Cluster[n] \ {n})
  /\ Cardinality(Cluster[n]) > 1

LEMMA FuserSteps ==
  ASSUME StructureInv, FuseCluster
  PROVE  /\ pass = "fuse" /\ pass' = "fuse" /\ order' = order /\ outputs' = outputs
         /\ value' = value /\ source' = source /\ consumers' = consumers
         /\ cursor' = cursor - 1 /\ cursor > 0 /\ cursor \in Nat /\ cursor <= Len(order)
         /\ \/ UNCHANGED <<op, expr, inputs, absorbed>>
            \/ \E n \in Nodes : FusesAt(n)
<1>1. Shape
  BY DEF StructureInv
<1>2. /\ pass = "fuse" /\ pass' = "fuse" /\ order' = order /\ outputs' = outputs
      /\ value' = value /\ source' = source /\ consumers' = consumers
      /\ cursor' = cursor - 1 /\ cursor > 0
  BY DEF FuseCluster
<1>3. cursor \in Nat /\ cursor <= Len(order)
  BY <1>1, <1>2 DEF Shape
<1> PICK n : n = order[cursor]
  OBVIOUS
<1>4. n \in Nodes
  BY <1>1, <1>2, <1>3, AtCursor
<1>5. CASE n \notin absorbed /\ Elementwise(n) /\ Cardinality(Cluster[n]) > 1
  <2>1. FusesAt(n)
    BY <1>4, <1>5 DEF FuseCluster, FusesAt, Live
  <2> QED
    BY <1>2, <1>3, <1>4, <2>1
<1>6. CASE ~(n \notin absorbed /\ Elementwise(n) /\ Cardinality(Cluster[n]) > 1)
  <2>1. UNCHANGED <<op, expr, inputs, absorbed>>
    BY <1>6 DEF FuseCluster
  <2> QED
    BY <1>2, <1>3, <2>1
<1> QED
  BY <1>5, <1>6

\* What a cluster is made of: live nodes of which only the root is referred to from
\* outside, and what it reads from outside is not in it.
LEMMA ClusterIsClosed ==
  ASSUME StructureInv, pass = "fuse", NEW n \in Live
  PROVE  /\ n \in Cluster[n] /\ Cluster[n] \subseteq Live
         /\ \A m \in Cluster[n] \ {n} : Elementwise(m) /\ Sole(m)
         /\ \A m \in Cluster[n] \ {n} : \E k \in Cluster[n] : m \in ToSet(inputs[k])
         /\ \A k \in Cluster[n] : \A x \in ToSet(inputs[k]) :
              \/ x \in Cluster[n] \ {n}
              \/ x \in ToSet(Leaves[n])
         /\ Leaves[n] \in Seq(Names)
         /\ \A x \in ToSet(Leaves[n]) : /\ x \in Names /\ x \notin Cluster[n]
                                        /\ \E k \in Cluster[n] : x \in ToSet(inputs[k])
<1>1. PICK base \in Ranks : CanRank(base, Cardinality(Names) + 1)
  BY RanksOfNow
<1>2. n \in Nodes
  BY DEF Live
<1>3. /\ n \in Cluster[n] /\ Cluster[n] \subseteq Nodes
      /\ \A k \in Cluster[n] : \A m \in InlinedReads(k) : m \in Cluster[n]
      /\ \A m \in Cluster[n] \ {n} : /\ Inlined(m) /\ base[m] < base[n]
                                     /\ \E k \in Cluster[n] : m \in InlinedReads(k)
  BY <1>1, <1>2, ClusterMembers
<1>4. /\ Leaves[n] \in Seq(Names)
      /\ \A x \in ToSet(Leaves[n]) : ~Inlined(x) /\ \E k \in Cluster[n] : x \in ToSet(inputs[k])
      /\ \A k \in Cluster[n] : \A x \in ToSet(inputs[k]) : ~Inlined(x) => x \in ToSet(Leaves[n])
  BY <1>1, <1>2, LeavesAreReads
<1>5. \A m : Inlined(m) => m \in Live /\ Elementwise(m) /\ consumers[m] = 1
  BY DEF Inlined, Live
<1>6. Cluster[n] \subseteq Live
  BY <1>3, <1>5
<1>7. \A m \in Nodes : m \in Names /\ base[m] \in Nat
  BY <1>1, ReadsAreLower
<1>8. \A m \in Cluster[n] \ {n} : Elementwise(m) /\ Sole(m)
  <2> SUFFICES ASSUME NEW m \in Cluster[n] \ {n} PROVE Elementwise(m) /\ Sole(m)
    OBVIOUS
  <2>1. Elementwise(m) /\ consumers[m] = 1 /\ m \in Names
    BY <1>3, <1>5, <1>7
  <2> QED
    BY <2>1 DEF StructureInv, Counted
<1>9. \A m \in Cluster[n] \ {n} : \E k \in Cluster[n] : m \in ToSet(inputs[k])
  BY <1>3 DEF InlinedReads
<1>10. \A k \in Cluster[n] : \A x \in ToSet(inputs[k]) : x # n
  <2> SUFFICES ASSUME NEW k \in Cluster[n], n \in ToSet(inputs[k]) PROVE FALSE
    OBVIOUS
  <2>1. PICK i \in DOMAIN inputs[k] : n = inputs[k][i]
    BY DEF ToSet
  <2>2. k \in Nodes /\ base[n] < base[k] /\ base[n] \in Nat /\ base[k] \in Nat
    BY <1>1, <1>2, <1>3, <1>7, <2>1, ReadsAreLower
  <2>3. k = n \/ base[k] < base[n]
    BY <1>3
  <2> QED
    BY <2>2, <2>3
<1>11. \A k \in Cluster[n] : \A x \in ToSet(inputs[k]) :
         x \in Cluster[n] \ {n} \/ x \in ToSet(Leaves[n])
  <2> SUFFICES ASSUME NEW k \in Cluster[n], NEW x \in ToSet(inputs[k])
               PROVE  x \in Cluster[n] \ {n} \/ x \in ToSet(Leaves[n])
    OBVIOUS
  <2>1. CASE Inlined(x)
    <3>1. x \in InlinedReads(k)
      BY <2>1 DEF InlinedReads
    <3> QED
      BY <1>3, <1>10, <3>1
  <2>2. CASE ~Inlined(x)
    BY <1>4, <2>2
  <2> QED
    BY <2>1, <2>2
<1>12. \A x \in ToSet(Leaves[n]) : x \in Names /\ x \notin Cluster[n]
  <2> SUFFICES ASSUME NEW x \in ToSet(Leaves[n]) PROVE x \in Names /\ x \notin Cluster[n]
    OBVIOUS
  <2>1. PICK k \in Cluster[n] : x \in ToSet(inputs[k])
    BY <1>4
  <2>2. PICK i \in DOMAIN inputs[k] : x = inputs[k][i]
    BY <2>1 DEF ToSet
  <2>3. x \in Names
    BY <1>1, <1>3, <1>7, <2>2, ReadsAreLower
  <2>4. x # n /\ ~Inlined(x)
    BY <1>4, <1>10, <2>1
  <2> QED
    BY <1>3, <2>3, <2>4
<1> QED
  BY <1>3, <1>4, <1>6, <1>8, <1>9, <1>11, <1>12

\* A fused node reads what its cluster read from outside, each name once; nobody
\* refers to what it absorbs any more.
LEMMA FusedNodeStaysConnected ==
  ASSUME StructureInv, pass = "fuse", NEW n \in Nodes, FusesAt(n), outputs' = outputs,
         order' = order, source' = source, consumers' = consumers
  PROVE  Connected' /\ Counted'
<1> DEFINE C == Cluster[n]
           F == FirstMentions(Leaves[n])
<1>1. /\ n \in Live /\ inputs' = [inputs EXCEPT ![n] = F] /\ absorbed' = absorbed \cup (C \ {n})
  BY DEF FusesAt
<1>2. /\ n \in C /\ C \subseteq Live
      /\ \A m \in C \ {n} : Sole(m)
      /\ \A m \in C \ {n} : \E k \in C : m \in ToSet(inputs[k])
      /\ Leaves[n] \in Seq(Names)
      /\ \A x \in ToSet(Leaves[n]) : x \in Names /\ x \notin C /\ \E k \in C : x \in ToSet(inputs[k])
  BY <1>1, ClusterIsClosed
<1>3. F \in Seq(Names) /\ IsInjective(F) /\ ToSet(F) = ToSet(Leaves[n])
  BY <1>2, FirstMentionsOnce
<1> HIDE DEF C, F
<1>4. Shape /\ Connected /\ Counted /\ source \in OptGraphs
  BY DEF StructureInv, Shape
<1>5. inputs \in [Names -> Seq(Names)] /\ Nodes \subseteq Names /\ n \in Names
  BY <1>4, NamesAreCounted DEF Shape
<1>6. Nodes' = Nodes /\ Live' = Live \ (C \ {n}) /\ External' = External
  BY <1>1 DEF Nodes, Live, External
<1>7. inputs'[n] = F /\ \A m \in Names : m # n => inputs'[m] = inputs[m]
  BY <1>1, <1>5
<1>8. \A m \in Live : m \in Names
  BY <1>5 DEF Live
<1>9. \A x \in ToSet(F) : x \in Live \cup External /\ x \notin C
                          /\ \E k \in C : \E p \in DOMAIN inputs[k] : inputs[k][p] = x
  <2> SUFFICES ASSUME NEW x \in ToSet(F)
               PROVE  x \in Live \cup External /\ x \notin C
                      /\ \E k \in C : \E p \in DOMAIN inputs[k] : inputs[k][p] = x
    OBVIOUS
  <2>1. x \notin C /\ \E k \in C : x \in ToSet(inputs[k])
    BY <1>2, <1>3
  <2>2. PICK k \in C : x \in ToSet(inputs[k])
    BY <2>1
  <2>3. PICK p \in DOMAIN inputs[k] : x = inputs[k][p]
    BY <2>2 DEF ToSet
  <2>4. x \in Live \cup External
    BY <1>2, <1>4, <2>3 DEF Connected
  <2> QED
    BY <2>1, <2>3, <2>4
<1>10. \A y \in C \ {n} : \E k \in C : \E p \in DOMAIN inputs[k] : inputs[k][p] = y
  BY <1>2 DEF ToSet
<1>11. \A i \in DOMAIN F : F[i] \in ToSet(F)
  BY DEF ToSet
<1>12. Connected'
  <2>1. ASSUME NEW m \in Live \ (C \ {n}), NEW i \in DOMAIN inputs'[m]
        PROVE  inputs'[m][i] \in (Live \ (C \ {n})) \cup External
    <3>1. CASE m = n
      BY <1>7, <1>9, <1>11, <2>1, <3>1
    <3>2. CASE m # n
      <4> PICK y : y = inputs[m][i]
        OBVIOUS
      <4>1. m \in Live /\ m \notin C /\ i \in DOMAIN inputs[m] /\ inputs'[m][i] = y
        BY <1>7, <1>8, <2>1, <3>2
      <4>2. y \in Live \cup External
        BY <1>4, <4>1 DEF Connected
      <4>3. y \notin C \ {n}
        <5> SUFFICES ASSUME y \in C \ {n} PROVE FALSE
          OBVIOUS
        <5>10. PICK k \in C : \E p \in DOMAIN inputs[k] : inputs[k][p] = y
          BY <1>10
        <5>1. PICK p \in DOMAIN inputs[k] : inputs[k][p] = y
          BY <5>10
        <5>2. Sole(y) /\ k \in Live
          BY <1>2
        <5>3. m = k
          BY <4>1, <5>1, <5>2 DEF Sole
        <5> QED
          BY <4>1, <5>3
      <4> QED
        BY <4>1, <4>2, <4>3
    <3> QED
      BY <3>1, <3>2
  <2>2. ASSUME NEW o \in DOMAIN outputs
        PROVE  outputs[o] \in (Live \ (C \ {n})) \cup External
    <3> PICK y : y = outputs[o]
      OBVIOUS
    <3>1. y \in Live \cup External
      BY <1>4 DEF Connected
    <3>2. y \notin C \ {n}
      <4> SUFFICES ASSUME y \in C \ {n} PROVE FALSE
        OBVIOUS
      <4>10. PICK k \in C : \E p \in DOMAIN inputs[k] : inputs[k][p] = y
        BY <1>10
      <4>1. PICK p \in DOMAIN inputs[k] : inputs[k][p] = y
        BY <4>10
      <4>2. Sole(y) /\ k \in Live
        BY <1>2
      <4> QED
        BY <4>1, <4>2 DEF Sole
    <3> QED
      BY <3>1, <3>2
  <2> QED
    BY <1>6, <2>1, <2>2 DEF Connected
<1>13. Counted'
  <2> SUFFICES ASSUME NEW x \in Names, consumers[x] = 1 PROVE Sole(x)'
    BY DEF Counted
  <2>1. Sole(x)
    BY <1>4 DEF Counted
  <2>2. ASSUME NEW m \in Live \ (C \ {n}), NEW k \in Live \ (C \ {n}),
               NEW i \in DOMAIN inputs'[m], NEW j \in DOMAIN inputs'[k],
               inputs'[m][i] = x, inputs'[k][j] = x
        PROVE  m = k /\ i = j
    <3>1. CASE m # n /\ k # n
      <4>1. inputs'[m] = inputs[m] /\ inputs'[k] = inputs[k]
        BY <1>7, <1>8, <3>1
      <4> QED
        BY <2>1, <2>2, <4>1 DEF Sole
    <3>2. CASE m = n /\ k = n
      BY <1>3, <1>7, <2>2, <3>2 DEF IsInjective
    <3>3. ASSUME NEW u \in Live \ (C \ {n}), u # n, NEW p \in DOMAIN inputs'[u], inputs'[u][p] = x,
                 x \in ToSet(F)
          PROVE  FALSE
      <4>10. PICK c \in C : \E q \in DOMAIN inputs[c] : inputs[c][q] = x
        BY <1>9, <3>3
      <4>1. PICK q \in DOMAIN inputs[c] : inputs[c][q] = x
        BY <4>10
      <4>2. inputs'[u] = inputs[u] /\ u \notin C /\ u \in Live /\ c \in Live
        BY <1>2, <1>7, <1>8, <3>3
      <4>3. u = c
        BY <2>1, <3>3, <4>1, <4>2 DEF Sole
      <4> QED
        BY <4>2, <4>3
    <3>4. CASE m = n /\ k # n
      BY <1>7, <1>11, <2>2, <3>3, <3>4
    <3>5. CASE m # n /\ k = n
      BY <1>7, <1>11, <2>2, <3>3, <3>5
    <3> QED
      BY <3>1, <3>2, <3>4, <3>5
  <2>3. ASSUME NEW m \in Live \ (C \ {n}), NEW i \in DOMAIN inputs'[m], NEW o \in DOMAIN outputs,
               inputs'[m][i] = x, outputs[o] = x
        PROVE  FALSE
    <3>1. CASE m # n
      <4>1. inputs'[m] = inputs[m]
        BY <1>7, <1>8, <3>1
      <4> QED
        BY <2>1, <2>3, <4>1 DEF Sole
    <3>2. CASE m = n
      <4>1. x \in ToSet(F)
        BY <1>7, <1>11, <2>3, <3>2
      <4>20. PICK c \in C : \E q \in DOMAIN inputs[c] : inputs[c][q] = x
        BY <1>9, <4>1
      <4>2. PICK q \in DOMAIN inputs[c] : inputs[c][q] = x
        BY <4>20
      <4> QED
        BY <1>2, <2>1, <2>3, <4>2 DEF Sole
    <3> QED
      BY <3>1, <3>2
  <2> QED
    BY <1>6, <2>2, <2>3 DEF Sole
<1> QED
  BY <1>12, <1>13

LEMMA FuseKeepsStructure == StructureInv /\ FuseCluster => StructureInv'
<1> SUFFICES ASSUME StructureInv, FuseCluster PROVE StructureInv'
  OBVIOUS
<1>1. /\ pass = "fuse" /\ pass' = "fuse" /\ order' = order /\ outputs' = outputs
      /\ value' = value /\ source' = source /\ consumers' = consumers
      /\ cursor' = cursor - 1 /\ cursor > 0 /\ cursor \in Nat /\ cursor <= Len(order)
  BY FuserSteps
<1>2. Shape /\ Connected /\ Counted /\ Kinds /\ Materialized /\ StillFalls /\ StillRises
  BY DEF StructureInv
<1>3. /\ source \in OptGraphs
      /\ order \in Seq(Names) /\ IsInjective(order) /\ Nodes \subseteq ToSet(source.nodes)
      /\ op \in [Names -> Operations] /\ inputs \in [Names -> Seq(Names)]
      /\ value \in [Names -> Int \cup {NoValue}]
      /\ outputs \in [DOMAIN source.outputs -> Names]
  BY <1>2 DEF Shape
<1>4. cursor' \in Nat /\ cursor' <= Len(order)
  <2>1. Len(order) \in Nat
    BY <1>3, LenProperties
  <2> PICK c, l : c = cursor /\ l = Len(order)
    OBVIOUS
  <2>2. c \in Nat /\ c > 0 /\ l \in Nat /\ c <= l
    BY <1>1, <2>1
  <2> QED
    BY <1>1, <2>2
<1>5. Nodes' = Nodes /\ External' = External /\ Nodes \subseteq Names
  BY <1>1, <1>3, NamesAreCounted DEF Nodes, External
<1>6. Materialized' /\ StillRises'
  BY <1>1, <1>2 DEF Materialized, StillRises
<1>7. CASE UNCHANGED <<op, expr, inputs, absorbed>>
  <2>1. Shape'
    BY <1>1, <1>3, <1>4, <1>5, <1>7 DEF Shape
  <2>2. Live' = Live
    BY <1>5, <1>7 DEF Live
  <2>3. Connected' /\ Kinds'
    BY <1>1, <1>2, <1>5, <1>7, <2>2 DEF Connected, Kinds
  <2>4. Counted'
    <3> SUFFICES ASSUME NEW x \in Names, consumers[x] = 1 PROVE Sole(x)'
      BY <1>1 DEF Counted
    <3>1. Sole(x)
      BY <1>1, <1>2 DEF Counted
    <3> QED
      BY <1>1, <1>7, <2>2, <3>1 DEF Sole
  <2>5. StillFalls'
    BY <1>1, <1>2, <1>5, <1>7 DEF StillFalls
  <2> QED
    BY <1>6, <2>1, <2>3, <2>4, <2>5 DEF StructureInv
<1>8. CASE \E n \in Nodes : FusesAt(n)
  <2> PICK n \in Nodes : FusesAt(n)
    BY <1>8
  <2>1. /\ n \in Live /\ n \in Names
        /\ op' = [op EXCEPT ![n] = "fusion"]
        /\ inputs' = [inputs EXCEPT ![n] = FirstMentions(Leaves[n])]
    BY <1>5 DEF FusesAt
  <2>2. Connected' /\ Counted'
    BY <1>1, FusedNodeStaysConnected
  <2>3. /\ Leaves[n] \in Seq(Names) /\ Cluster[n] \subseteq Live
        /\ \A x \in ToSet(Leaves[n]) : \E k \in Cluster[n] : x \in ToSet(inputs[k])
    BY <1>1, <2>1, ClusterIsClosed
  <2> PICK t : t = FirstMentions(Leaves[n])
    OBVIOUS
  <2>4. t \in Seq(Names) /\ ToSet(t) = ToSet(Leaves[n])
    BY <2>3, FirstMentionsOnce
  <2>5. inputs' \in [Names -> Seq(Names)] /\ inputs'[n] = t
        /\ \A m \in Names : m # n => inputs'[m] = inputs[m]
    BY <1>3, <2>1, <2>4
  <2>6. op' \in [Names -> Operations]
        /\ \A m \in Names : op'[m] = op[m] \/ op'[m] = "fusion"
    <3> PICK c : c = "fusion"
      OBVIOUS
    <3>1. c \in Operations /\ op' = [op EXCEPT ![n] = c]
      BY <2>1 DEF Operations
    <3>2. op' \in [Names -> Operations] /\ \A m \in Names : op'[m] = op[m] \/ op'[m] = c
      BY <1>3, <2>1, <3>1
    <3> QED
      BY <3>2
  <2>7. Shape'
    BY <1>1, <1>3, <1>4, <1>5, <2>5, <2>6 DEF Shape
  <2>8. Kinds'
    BY <1>1, <1>2, <2>6 DEF Kinds
  <2>9. StillFalls'
    <3> SUFFICES ASSUME NEW rank \in Ranks, FallsIn(rank, ToSet(source.nodes), source.inputs)
                 PROVE  FallsIn(rank, Nodes, inputs')
      BY <1>1, <1>5 DEF StillFalls
    <3>1. CanRank(rank, Cardinality(Names) + 1)
      BY RanksOfNow
    <3> SUFFICES ASSUME NEW m \in Nodes, NEW i \in DOMAIN inputs'[m]
                 PROVE  rank[inputs'[m][i]] < rank[m]
      BY DEF FallsIn
    <3>2. CASE m # n
      BY <1>5, <2>5, <3>1, <3>2, ReadsAreLower
    <3>3. CASE m = n
      <4> PICK x : x = inputs'[m][i]
        OBVIOUS
      <4>1. x \in ToSet(Leaves[n])
        BY <2>4, <2>5, <3>3 DEF ToSet
      <4>2. PICK k \in Cluster[n] : x \in ToSet(inputs[k])
        BY <2>3, <4>1
      <4>3. PICK p \in DOMAIN inputs[k] : x = inputs[k][p]
        BY <4>2 DEF ToSet
      <4>4. k \in Nodes /\ (k = n \/ rank[k] < rank[n])
        BY <2>3, <3>1, ClusterMembers
      <4>5. rank[x] < rank[k] /\ x \in Names /\ k \in Names
        BY <3>1, <4>3, <4>4, ReadsAreLower
      <4>6. rank[x] \in Nat /\ rank[k] \in Nat /\ rank[n] \in Nat
        BY <2>1, <3>1, <4>5, ReadsAreLower
      <4> QED
        BY <3>3, <4>4, <4>5, <4>6
    <3> QED
      BY <3>2, <3>3
  <2> QED
    BY <1>6, <2>2, <2>7, <2>8, <2>9 DEF StructureInv
<1> QED
  BY <1>7, <1>8, FuserSteps

\* The pieces of the invariant do not look at anything else.
LEMMA StutterKeepsStructure == StructureInv /\ UNCHANGED vars => StructureInv'
<1> SUFFICES ASSUME StructureInv, UNCHANGED vars PROVE StructureInv'
  OBVIOUS
<1>1. /\ pass' = pass /\ cursor' = cursor /\ order' = order /\ op' = op /\ inputs' = inputs
      /\ value' = value /\ outputs' = outputs /\ absorbed' = absorbed /\ source' = source
      /\ consumers' = consumers
  BY DEF vars, graphVars
<1>2. Nodes' = Nodes /\ Live' = Live /\ External' = External
  BY <1>1 DEF Nodes, Live, External
<1>3. Shape' /\ Connected' /\ Kinds' /\ Materialized'
  BY <1>1, <1>2 DEF StructureInv, Shape, Connected, Kinds, Materialized
<1>4. Counted'
  BY <1>1, <1>2 DEF StructureInv, Counted, Sole
<1>5. StillFalls' /\ StillRises'
  BY <1>1, <1>2 DEF StructureInv, StillFalls, StillRises
<1> QED
  BY <1>3, <1>4, <1>5 DEF StructureInv

\* No pass tears the graph: what is live refers to live nodes and graph inputs,
\* a consumer count of one is a sole reference while clusters form, outputs keep
\* their names unless an identity stood there, and reads keep falling in whatever
\* ranks the graph that was handed over.
THEOREM GraphStaysWhole == Spec => []StructureInv
<1>1. Init => StructureInv
  BY StructureInit
<1>2. StructureInv /\ [Next]_vars => StructureInv'
  BY FoldKeepsStructure, EndFoldKeepsStructure, RewriteKeepsStructure, FlagKeepsStructure,
     FuseKeepsStructure, EndFuseKeepsStructure, StutterKeepsStructure DEF Next
<1> QED
  BY <1>1, <1>2, PTL DEF Spec

-----------------------------------------------------------------------------
(* What the runs check.                                                    *)

\* While clusters form, an absorbed node is still in the list, with its reads.
Anchored == \A m \in Nodes : \A i \in DOMAIN inputs[m] : inputs[m][i] \in Nodes \cup External

AnchoredInv == StructureInv /\ Anchored

\* Without absorbed nodes in the list, what is live is all there is.
LEMMA WholeGraph == Connected /\ Nodes \cap absorbed = {} => Anchored
<1> SUFFICES ASSUME Connected, Nodes \cap absorbed = {} PROVE Anchored
  OBVIOUS
<1>1. Live = Nodes
  BY DEF Live
<1> QED
  BY <1>1 DEF Connected, Anchored

LEMMA WholeInShape == Shape /\ pass # "fuse" => Nodes \cap absorbed = {}
  BY DEF Shape

LEMMA AnchoredStep == AnchoredInv /\ [Next]_vars => AnchoredInv'
<1> SUFFICES ASSUME AnchoredInv, [Next]_vars PROVE AnchoredInv'
  OBVIOUS
<1>1. StructureInv /\ Anchored
  BY DEF AnchoredInv
<1>2. StructureInv'
  BY <1>1, FoldKeepsStructure, EndFoldKeepsStructure, RewriteKeepsStructure, FlagKeepsStructure,
     FuseKeepsStructure, EndFuseKeepsStructure, StutterKeepsStructure DEF Next
<1>3. Connected' /\ Shape'
  BY <1>2 DEF StructureInv
<1>4. (Nodes \cap absorbed)' = {} => Anchored'
  <2>1. (Connected /\ Nodes \cap absorbed = {} => Anchored)'
    BY WholeGraph, PTL
  <2> QED
    BY <1>3, <2>1
<1>5. CASE pass' # "fuse"
  <2>1. (Shape /\ pass # "fuse" => Nodes \cap absorbed = {})'
    BY WholeInShape, PTL
  <2> QED
    BY <1>2, <1>3, <1>4, <1>5, <2>1 DEF AnchoredInv
<1>6. CASE FlagScaleFolds
  <2>1. absorbed' = {}
    BY <1>1, <1>6 DEF FlagScaleFolds, StructureInv, Shape
  <2> QED
    BY <1>2, <1>4, <2>1 DEF AnchoredInv
<1>7. CASE FuseCluster
  <2>1. /\ order' = order /\ source' = source /\ outputs' = outputs /\ consumers' = consumers
        /\ pass = "fuse"
        /\ UNCHANGED <<op, expr, inputs, absorbed>> \/ \E n \in Nodes : FusesAt(n)
    BY <1>1, <1>7, FuserSteps
  <2>2. Nodes' = Nodes /\ External' = External
    BY <2>1 DEF Nodes, External
  <2>3. CASE UNCHANGED <<op, expr, inputs, absorbed>>
    BY <1>1, <1>2, <2>2, <2>3 DEF AnchoredInv, Anchored
  <2>4. CASE \E n \in Nodes : FusesAt(n)
    <3> PICK n \in Nodes : FusesAt(n)
      BY <2>4
    <3>1. n \in Live' /\ inputs' = [inputs EXCEPT ![n] = FirstMentions(Leaves[n])]
      <4>1. n \in Live /\ absorbed' = absorbed \cup (Cluster[n] \ {n})
        BY DEF FusesAt
      <4> QED
        BY <2>2, <4>1 DEF Live, FusesAt
    <3>2. DOMAIN inputs = Names /\ Nodes \subseteq Names
      BY <1>1, NamesAreCounted DEF StructureInv, Shape
    <3>3. \A i \in DOMAIN inputs'[n] : inputs'[n][i] \in Nodes \cup External
      BY <1>3, <2>2, <3>1 DEF Connected, Live
    <3>4. \A m \in Nodes : m # n => inputs'[m] = inputs[m]
      BY <3>1, <3>2
    <3>5. Anchored'
      BY <1>1, <2>2, <3>3, <3>4 DEF Anchored
    <3> QED
      BY <1>2, <3>5 DEF AnchoredInv
  <2> QED
    BY <2>1, <2>3, <2>4
<1>8. CASE UNCHANGED vars
  BY <1>1, <1>2, <1>8 DEF AnchoredInv, Anchored, vars, graphVars, Nodes, External
<1>9. CASE FoldNode \/ EndFold \/ RewriteIdentities \/ EndFuse
  <2>1. pass' # "fuse"
    BY <1>9 DEF FoldNode, EndFold, RewriteIdentities, EndFuse
  <2> QED
    BY <1>5, <2>1
<1> QED
  BY <1>6, <1>7, <1>8, <1>9 DEF Next

\* NothingDangles, for every graph: a name that a node or an output refers to is
\* a node still or was a graph input from the start, after every step of every pass.
THEOREM NothingEverDangles == Spec => []NothingDangles
<1>1. Init => AnchoredInv
  <2> SUFFICES ASSUME Init PROVE AnchoredInv
    OBVIOUS
  <2>1. StructureInv /\ absorbed = {}
    BY StructureInit DEF Init
  <2> QED
    BY <2>1, WholeGraph DEF AnchoredInv, StructureInv
<1>2. AnchoredInv /\ [Next]_vars => AnchoredInv'
  BY AnchoredStep
<1>3. AnchoredInv => NothingDangles
  <2> SUFFICES ASSUME AnchoredInv,
                      NEW n \in (UNION {ToSet(inputs[m]) : m \in Nodes})
                                 \cup {outputs[o] : o \in DOMAIN outputs}
               PROVE  n \in Nodes \/ n \notin ToSet(source.nodes)
    BY DEF NothingDangles
  <2>1. Connected /\ Anchored
    BY DEF AnchoredInv, StructureInv
  <2>2. CASE \E m \in Nodes : n \in ToSet(inputs[m])
    <3>1. PICK m \in Nodes : n \in ToSet(inputs[m])
      BY <2>2
    <3>2. PICK i \in DOMAIN inputs[m] : n = inputs[m][i]
      BY <3>1 DEF ToSet
    <3> QED
      BY <2>1, <3>2 DEF Anchored, External
  <2>3. CASE \E o \in DOMAIN outputs : n = outputs[o]
    BY <2>1, <2>3 DEF Connected, Live, External
  <2> QED
    BY <2>2, <2>3
<1> QED
  BY <1>1, <1>2, <1>3, PTL DEF Spec

\* OutputsStayMaterialized, for every graph: the node an output named at the start
\* is in the graph under its name after every step, unless it was an identity.
THEOREM OutputsStayInTheGraph == Spec => []OutputsStayMaterialized
<1>1. StructureInv => OutputsStayMaterialized
  <2> SUFFICES ASSUME StructureInv, NEW o \in DOMAIN outputs,
                      source.outputs[o] \in ToSet(source.nodes),
                      source.op[source.outputs[o]] # "identity"
               PROVE  outputs[o] = source.outputs[o] /\ source.outputs[o] \in Nodes
    BY DEF OutputsStayMaterialized
  <2>1. outputs[o] = source.outputs[o]
    BY DEF StructureInv, Materialized
  <2>2. outputs[o] \in Live \cup External
    BY DEF StructureInv, Connected
  <2> QED
    BY <2>1, <2>2 DEF Live, External
<1> QED
  BY <1>1, GraphStaysWhole, PTL

\* A list in dependency order has its positions for ranks.
LEMMA PositionsRank ==
  ASSUME NEW g \in OptGraphs, Ordered(g.nodes, g.inputs)
  PROVE  \E rank \in Ranks : FallsIn(rank, ToSet(g.nodes), g.inputs) /\ RisesIn(rank, g.nodes)
<1> DEFINE list == g.nodes
           at == [n \in ToSet(list) |-> CHOOSE i \in DOMAIN list : list[i] = n]
           pos == [n \in Names |-> IF n \in ToSet(list) THEN at[n] ELSE 0]
<1>1. /\ list \in Seq(Names) /\ IsInjective(list) /\ g.inputs \in [Names -> Seq(Names)]
      /\ Cardinality(Names) \in Nat /\ ToSet(list) \subseteq Names
      /\ DOMAIN list = 1..Len(list) /\ Len(list) \in Nat /\ Len(list) <= Cardinality(Names)
  BY OptGraphsAssumption, NamesAreCounted
<1>2. \A n \in ToSet(list) : at[n] \in DOMAIN list /\ list[at[n]] = n
  BY DEF ToSet
<1>3. \A i \in DOMAIN list : list[i] \in ToSet(list) /\ at[list[i]] = i
  <2> SUFFICES ASSUME NEW i \in DOMAIN list PROVE list[i] \in ToSet(list) /\ at[list[i]] = i
    OBVIOUS
  <2>1. list[i] \in ToSet(list)
    BY DEF ToSet
  <2>2. at[list[i]] \in DOMAIN list /\ list[at[list[i]]] = list[i]
    BY <1>2, <2>1
  <2> QED
    BY <1>1, <2>1, <2>2 DEF IsInjective
<1> HIDE DEF at
<1>4. pos \in Ranks
  <2> PICK c, l : c = Cardinality(Names) /\ l = Len(list)
    OBVIOUS
  <2>1. c \in Nat /\ l \in Nat /\ l <= c
    BY <1>1
  <2>2. \A n \in ToSet(list) : at[n] \in 1..l
    BY <1>1, <1>2
  <2>3. \A n \in Names : pos[n] \in 0..c
    BY <2>1, <2>2
  <2> QED
    BY <2>3 DEF Ranks
<1>5. FallsIn(pos, ToSet(list), g.inputs)
  <2> SUFFICES ASSUME NEW n \in ToSet(list), NEW p \in DOMAIN g.inputs[n]
               PROVE  pos[g.inputs[n][p]] < pos[n]
    BY DEF FallsIn
  <2> PICK x : x = g.inputs[n][p]
    OBVIOUS
  <2>1. n \in Names /\ x \in Names
    <3>1. n \in Names /\ g.inputs[n] \in Seq(Names)
      BY <1>1
    <3> QED
      BY <3>1, LenProperties
  <2>2. at[n] \in DOMAIN list /\ list[at[n]] = n /\ pos[n] = at[n]
    BY <1>2, <2>1
  <2>3. CASE x \in ToSet(list)
    <3>1. PICK j \in 1..(at[n] - 1) : list[j] = x
      BY <2>2, <2>3 DEF Ordered
    <3>2. at[n] \in 1..Len(list) /\ j \in 1..(at[n] - 1)
      BY <1>1, <2>2
    <3> PICK b, l : b = at[n] /\ l = Len(list)
      OBVIOUS
    <3>3. b \in 1..l /\ l \in Nat /\ j \in 1..(b - 1)
      BY <1>1, <3>2
    <3>4. j \in 1..l /\ j < b
      BY <3>3
    <3>5. j \in DOMAIN list
      BY <1>1, <3>4
    <3>6. at[x] = j
      BY <1>3, <3>1, <3>5
    <3> QED
      BY <2>1, <2>2, <2>3, <3>4, <3>6
  <2>4. CASE x \notin ToSet(list)
    <3>1. pos[x] = 0
      BY <2>1, <2>4
    <3>2. pos[n] \in 1..Len(list)
      BY <1>1, <2>2
    <3> QED
      BY <1>1, <3>1, <3>2
  <2> QED
    BY <2>3, <2>4
<1>6. RisesIn(pos, list)
  <2> SUFFICES ASSUME NEW i \in DOMAIN list, NEW j \in DOMAIN list, i < j
               PROVE  pos[list[i]] < pos[list[j]]
    BY DEF RisesIn
  <2>1. pos[list[i]] = i /\ pos[list[j]] = j
    BY <1>1, <1>3
  <2> QED
    BY <2>1
<1> QED
  BY <1>4, <1>5, <1>6

\* StaysOrdered, for every graph: a list in dependency order is in dependency order
\* after every step of every pass.
THEOREM OrderSurvivesThePasses == Spec => []StaysOrdered
<1>1. StructureInv => StaysOrdered
  <2> SUFFICES ASSUME StructureInv, Ordered(source.nodes, source.inputs),
                      NEW k \in DOMAIN order, NEW i \in DOMAIN inputs[order[k]],
                      inputs[order[k]][i] \in ToSet(order)
               PROVE  \E j \in 1..(k - 1) : order[j] = inputs[order[k]][i]
    BY DEF StaysOrdered, Ordered
  <2>1. Shape /\ StillFalls /\ StillRises /\ source \in OptGraphs /\ order \in Seq(Names)
    BY DEF StructureInv, Shape
  <2>2. PICK rank \in Ranks : /\ FallsIn(rank, ToSet(source.nodes), source.inputs)
                              /\ RisesIn(rank, source.nodes)
    BY <2>1, PositionsRank
  <2>3. FallsIn(rank, Nodes, inputs) /\ RisesIn(rank, order)
    BY <2>1, <2>2 DEF StillFalls, StillRises
  <2>4. PICK j \in DOMAIN order : order[j] = inputs[order[k]][i]
    BY DEF ToSet
  <2>5. order[k] \in Nodes /\ DOMAIN order = 1..Len(order) /\ Len(order) \in Nat
        /\ \A p \in DOMAIN order : order[p] \in Names
    BY <2>1, LenProperties DEF Nodes, ToSet
  <2>6. rank[order[j]] < rank[order[k]]
    BY <2>3, <2>4, <2>5 DEF FallsIn
  <2>7. \A p \in DOMAIN order : rank[order[p]] \in Int
    BY <2>5, NamesAreCounted DEF Ranks
  <2>8. ~(j = k) /\ ~(k < j)
    <3>1. \A u, v \in Int : u < v => ~(v < u) /\ u # v
      OBVIOUS
    <3>2. ~(rank[order[k]] < rank[order[j]]) /\ rank[order[j]] # rank[order[k]]
      BY <2>6, <2>7, <3>1
    <3> QED
      BY <2>3, <3>2 DEF RisesIn
  <2>9. j \in 1..(k - 1)
    <3> PICK l : l = Len(order)
      OBVIOUS
    <3>1. l \in Nat /\ j \in 1..l /\ k \in 1..l
      BY <2>5
    <3> QED
      BY <2>8, <3>1
  <2> QED
    BY <2>4, <2>9
<1> QED
  BY <1>1, GraphStaysWhole, PTL

-----------------------------------------------------------------------------
(* WHAT THE GRAPH COMPUTES                                                 *)

-----------------------------------------------------------------------------
(* The graph that was handed over has a meaning.                           *)

\* The values at the names of a list.
Taken(f, list) == [i \in DOMAIN list |-> f[list[i]]]

\* The value at a name, given the values at the names it reads.
StepOf(ids, operation, ins, constant, trees, env, n, f) ==
  IF n \notin ids THEN env[n]
  ELSE IF operation[n] = "fusion" THEN Fused(trees[n], n, f)
  ELSE IF operation[n] = "constant" THEN IF constant[n] = NoValue THEN 7 ELSE constant[n]
  ELSE Operate(operation[n], Taken(f, ins[n]))

LEMMA MeaningIsChosen ==
  ASSUME NEW ids, NEW operation, NEW ins, NEW constant, NEW trees, NEW env
  PROVE  Meaning(ids, operation, ins, constant, trees, env)
           = CHOOSE f : f = [n \in Names |-> StepOf(ids, operation, ins, constant, trees, env, n, f)]
  BY DEF Meaning, StepOf, Taken

NoTrees == [n \in {} |-> 0]

SourceStep(g, env, n, f) ==
  StepOf(ToSet(g.nodes), g.op, g.inputs, g.value, NoTrees, env, n, f)

MeaningOf(g, env) == Meaning(ToSet(g.nodes), g.op, g.inputs, g.value, NoTrees, env)

\* The step looks at lower ranks only.
LEMMA SourceStepsDown ==
  ASSUME NEW g \in OptGraphs, NEW env, NEW rank, FallsIn(rank, ToSet(g.nodes), g.inputs),
         NEW n \in Names, NEW f, NEW h, \A m \in Names : rank[m] < rank[n] => f[m] = h[m]
  PROVE  SourceStep(g, env, n, f) = SourceStep(g, env, n, h)
<1>1. g.op[n] # "fusion" /\ g.inputs[n] \in Seq(Names)
  BY OptGraphsAssumption
<1>2. \A i \in DOMAIN g.inputs[n] : g.inputs[n][i] \in Names
  BY <1>1, LenProperties
<1>3. n \in ToSet(g.nodes) => Taken(f, g.inputs[n]) = Taken(h, g.inputs[n])
  <2> SUFFICES ASSUME n \in ToSet(g.nodes)
               PROVE  Taken(f, g.inputs[n]) = Taken(h, g.inputs[n])
    OBVIOUS
  <2>1. \A i \in DOMAIN g.inputs[n] : f[g.inputs[n][i]] = h[g.inputs[n][i]]
    BY <1>2 DEF FallsIn
  <2> QED
    BY <2>1 DEF Taken
<1> QED
  BY <1>1, <1>3 DEF SourceStep, StepOf

LEMMA SourceIsComputed ==
  ASSUME NEW g \in OptGraphs, NEW env
  PROVE  \A n \in Names : MeaningOf(g, env)[n] = SourceStep(g, env, n, MeaningOf(g, env))
<1> DEFINE B == Cardinality(ToSet(g.nodes)) + 1
           Step(n, f) == SourceStep(g, env, n, f)
<1>1. PICK rank \in [Names -> Nat] : /\ \A n \in Names : rank[n] < B
                                     /\ FallsIn(rank, ToSet(g.nodes), g.inputs)
                                     /\ Cardinality(ToSet(g.nodes)) \in Nat
  BY GraphsHaveRanks
<1>2. B \in Nat
  BY <1>1
<1>3. ASSUME NEW n \in Names, NEW f, NEW h, \A m \in Names : rank[m] < rank[n] => f[m] = h[m]
      PROVE  Step(n, f) = Step(n, h)
  BY <1>1, <1>3, SourceStepsDown
<1>4. MeaningOf(g, env) = CHOOSE f : f = [n \in Names |-> Step(n, f)]
  BY MeaningIsChosen DEF MeaningOf, SourceStep
<1> HIDE DEF B, Step
<1> DEFINE Upto(f, k) == \A n \in Names : rank[n] < k => f[n] = Step(n, f)
           stuck == {k \in Nat : ~ \E f : Upto(f, k)}
<1>5. stuck = {}
  <2> SUFFICES ASSUME stuck # {} PROVE FALSE
    OBVIOUS
  <2>1. PICK l \in stuck : \A k \in stuck : l <= k
    <3>1. stuck \in SUBSET Nat
      OBVIOUS
    <3> HIDE DEF stuck
    <3> QED
      BY <3>1, LeastMember
  <2>2. l # 0
    <3>1. Upto(rank, 0)
      BY <1>1
    <3> QED
      BY <3>1
  <2>3. l - 1 \in Nat /\ ~(l <= l - 1) /\ l \in Nat
    BY <2>2
  <2>4. l - 1 \notin stuck
    BY <2>1, <2>3
  <2>5. PICK f : Upto(f, l - 1)
    BY <2>3, <2>4
  <2> DEFINE h == [n \in Names |-> IF rank[n] = l - 1 THEN Step(n, f) ELSE f[n]]
  <2>6. /\ \A n \in Names : rank[n] < l - 1 => h[n] = f[n]
        /\ \A n \in Names : rank[n] = l - 1 => h[n] = Step(n, f)
    BY <1>1, <2>3
  <2> HIDE DEF h
  <2>7. \A n \in Names : rank[n] < l => rank[n] < l - 1 \/ rank[n] = l - 1
    <3>1. \A n \in Names : rank[n] \in Nat
      BY <1>1
    <3> QED
      BY <2>3, <3>1, OneBelow, Zenon
  <2>8. \A n \in Names : rank[n] < l => Step(n, f) = Step(n, h)
    <3> SUFFICES ASSUME NEW n \in Names, rank[n] < l PROVE Step(n, f) = Step(n, h)
      OBVIOUS
    <3>1. \A m \in Names : rank[m] < rank[n] => rank[m] < l - 1
      <4>1. rank[n] \in Nat /\ \A m \in Names : rank[m] \in Nat
        BY <1>1
      <4> QED
        BY <2>3, <4>1
    <3>2. \A m \in Names : rank[m] < rank[n] => f[m] = h[m]
      BY <2>6, <3>1
    <3> QED
      BY <1>3, <3>2
  <2>9. Upto(h, l)
    BY <2>5, <2>6, <2>7, <2>8
  <2>10. l \in stuck
    OBVIOUS
  <2> QED
    BY <2>9, <2>10
<1>6. PICK f : Upto(f, B)
  BY <1>2, <1>5
<1> DEFINE w == [n \in Names |-> f[n]]
<1>7. w = [n \in Names |-> Step(n, w)]
  <2>1. \A n \in Names : f[n] = Step(n, f)
    BY <1>1, <1>6 DEF B
  <2>2. \A n \in Names : Step(n, f) = Step(n, w)
    <3> SUFFICES ASSUME NEW n \in Names PROVE Step(n, f) = Step(n, w)
      OBVIOUS
    <3>1. \A m \in Names : rank[m] < rank[n] => f[m] = w[m]
      OBVIOUS
    <3> HIDE DEF w
    <3> QED
      BY <1>3, <3>1
  <2>3. \A n \in Names : w[n] = Step(n, w)
    BY <2>1, <2>2
  <2> QED
    BY <2>3
<1> HIDE DEF w
<1>8. MeaningOf(g, env) = [n \in Names |-> Step(n, MeaningOf(g, env))]
  BY <1>4, <1>7
<1>9. \A n \in Names : MeaningOf(g, env)[n] = Step(n, MeaningOf(g, env))
  BY <1>8
<1> QED
  BY <1>9 DEF Step

-----------------------------------------------------------------------------
(* Values that fit a graph are its meaning.                                *)

\* A set of names that is not empty has a member of least rank.
LEMMA LowestName ==
  ASSUME NEW rank \in [Names -> Nat], NEW S \in SUBSET Names, S # {}
  PROVE  \E n \in S : \A m \in S : ~(rank[m] < rank[n])
<1> DEFINE ranks == {rank[n] : n \in S}
<1>1. ranks \in SUBSET Nat /\ ranks # {}
  OBVIOUS
<1>2. \A n \in S : rank[n] \in ranks /\ rank[n] \in Nat
  OBVIOUS
<1>3. \A l \in ranks : \E n \in S : rank[n] = l
  OBVIOUS
<1> HIDE DEF ranks
<1>4. PICK l \in ranks : \A k \in ranks : l <= k
  BY <1>1, LeastMember
<1>5. PICK n \in S : rank[n] = l
  BY <1>3
<1>6. \A m \in S : rank[n] <= rank[m] /\ rank[n] \in Nat /\ rank[m] \in Nat
  BY <1>2, <1>4, <1>5
<1>7. \A m \in S : ~(rank[m] < rank[n])
  BY <1>6
<1> QED
  BY <1>7

\* The values W fit the table of an expression whose leaves have the values val.
TreeFits(tree, W, val, rank) ==
  /\ DOMAIN tree \subseteq Names
  /\ \A m \in DOMAIN tree : W[m] = Compute(tree[m].type, Taken(W, tree[m].args))
  /\ \A m \in DOMAIN tree : \A i \in DOMAIN tree[m].args :
       /\ tree[m].args[i] \in Names /\ rank[tree[m].args[i]] < rank[m]
       /\ tree[m].args[i] \in DOMAIN tree \/ val[tree[m].args[i]] = W[tree[m].args[i]]

TreeStep(tree, val, m, f) ==
  IF m \in DOMAIN tree THEN Compute(tree[m].type, Taken(f, tree[m].args)) ELSE val[m]

LEMMA FusedIsChosen ==
  ASSUME NEW tree, NEW root, NEW val
  PROVE  Fused(tree, root, val)
           = (CHOOSE f : f = [m \in Names |-> TreeStep(tree, val, m, f)])[root]
  BY DEF Fused, TreeStep, Taken

\* An expression has the value that fits.
LEMMA FusedFits ==
  ASSUME NEW tree, NEW W, NEW val, NEW rank \in [Names -> Nat], TreeFits(tree, W, val, rank),
         NEW root \in DOMAIN tree
  PROVE  Fused(tree, root, val) = W[root]
<1>1. /\ DOMAIN tree \subseteq Names
      /\ \A m \in DOMAIN tree : W[m] = Compute(tree[m].type, Taken(W, tree[m].args))
      /\ \A m \in DOMAIN tree : \A i \in DOMAIN tree[m].args :
           /\ tree[m].args[i] \in Names /\ rank[tree[m].args[i]] < rank[m]
           /\ tree[m].args[i] \in DOMAIN tree \/ val[tree[m].args[i]] = W[tree[m].args[i]]
  BY DEF TreeFits
<1>2. ASSUME NEW m \in DOMAIN tree, NEW f,
             \A i \in DOMAIN tree[m].args : f[tree[m].args[i]] = W[tree[m].args[i]]
      PROVE  TreeStep(tree, val, m, f) = W[m]
  <2>1. Taken(f, tree[m].args) = Taken(W, tree[m].args)
    BY <1>2 DEF Taken
  <2> QED
    BY <1>1, <2>1 DEF TreeStep
<1>3. \A m, f : m \notin DOMAIN tree => TreeStep(tree, val, m, f) = val[m]
  BY DEF TreeStep
<1> DEFINE Step(m, f) == TreeStep(tree, val, m, f)
           F == CHOOSE f : f = [m \in Names |-> Step(m, f)]
           w == [m \in Names |-> IF m \in DOMAIN tree THEN W[m] ELSE val[m]]
<1>4. Fused(tree, root, val) = F[root]
  BY FusedIsChosen
<1> HIDE DEF Step
<1>5. w = [m \in Names |-> Step(m, w)]
  <2>1. /\ \A m \in DOMAIN tree : w[m] = W[m]
        /\ \A m \in Names : m \notin DOMAIN tree => w[m] = val[m]
    BY <1>1
  <2>2. w = [m \in Names |-> w[m]]
    OBVIOUS
  <2> HIDE DEF w
  <2>3. ASSUME NEW m \in DOMAIN tree PROVE Step(m, w) = W[m]
    <3>1. \A i \in DOMAIN tree[m].args : w[tree[m].args[i]] = W[tree[m].args[i]]
      BY <1>1, <2>1
    <3> QED
      BY <1>2, <3>1 DEF Step
  <2>4. \A m \in Names : w[m] = Step(m, w)
    BY <1>3, <2>1, <2>3 DEF Step
  <2> QED
    BY <2>2, <2>4
<1> HIDE DEF w
<1>6. F = [m \in Names |-> Step(m, F)]
  BY <1>5
<1> HIDE DEF F
<1>7. \A m \in Names : F[m] = TreeStep(tree, val, m, F)
  BY <1>6 DEF Step
<1> DEFINE bad == {m \in DOMAIN tree : F[m] # W[m]}
<1>8. bad = {}
  <2> SUFFICES ASSUME bad # {} PROVE FALSE
    OBVIOUS
  <2>1. bad \in SUBSET Names
    BY <1>1
  <2>2. \A m \in DOMAIN tree : m \in bad \/ F[m] = W[m]
    OBVIOUS
  <2>3. \A m \in bad : m \in DOMAIN tree /\ F[m] # W[m]
    OBVIOUS
  <2> HIDE DEF bad
  <2>4. PICK n \in bad : \A m \in bad : ~(rank[m] < rank[n])
    BY <2>1, LowestName
  <2>5. \A i \in DOMAIN tree[n].args : F[tree[n].args[i]] = W[tree[n].args[i]]
    <3> SUFFICES ASSUME NEW i \in DOMAIN tree[n].args
                 PROVE  F[tree[n].args[i]] = W[tree[n].args[i]]
      OBVIOUS
    <3> PICK y : y = tree[n].args[i]
      OBVIOUS
    <3>1. /\ y \in Names /\ rank[y] < rank[n]
          /\ y \in DOMAIN tree \/ val[y] = W[y]
      BY <1>1, <2>3
    <3>2. CASE y \in DOMAIN tree
      BY <2>2, <2>4, <3>1, <3>2
    <3>3. CASE y \notin DOMAIN tree
      BY <1>3, <1>7, <3>1, <3>3
    <3> QED
      BY <3>2, <3>3
  <2>6. TreeStep(tree, val, n, F) = W[n]
    BY <1>2, <2>3, <2>5
  <2> QED
    BY <1>7, <2>1, <2>3, <2>6
<1> QED
  BY <1>4, <1>8

\* The node has the value W gives it, if the names it reads have theirs.
HoldsAt(n, W) ==
  IF op[n] = "fusion"
  THEN \A m \in DOMAIN expr[n] : W[m] = Compute(expr[n][m].type, Taken(W, expr[n][m].args))
  ELSE IF op[n] = "constant" THEN W[n] = IF value[n] = NoValue THEN 7 ELSE value[n]
  ELSE W[n] = Operate(op[n], Taken(W, inputs[n]))

Agrees(W) ==
  /\ \A n \in Nodes : HoldsAt(n, W)
  /\ \A o \in DOMAIN outputs : W[outputs[o]] = W[source.outputs[o]]

RanksSource(rank) == rank \in Ranks /\ FallsIn(rank, ToSet(source.nodes), source.inputs)

\* The expression of a fused node reads its own nodes and the inputs of the node,
\* in the order of the ranks.
TableAt(n) ==
  /\ n \in DOMAIN expr /\ n \in DOMAIN expr[n] /\ DOMAIN expr[n] \subseteq Names
  /\ \A m \in DOMAIN expr[n] : \A i \in DOMAIN expr[n][m].args :
       /\ expr[n][m].args[i] \in DOMAIN expr[n] \cup ToSet(inputs[n])
       /\ \A rank : RanksSource(rank) => rank[expr[n][m].args[i]] < rank[m]

Tables == \A n \in Names : op[n] = "fusion" => pass \in {"fuse", "done"} /\ TableAt(n)

NowStep(env, n, f) == StepOf(Nodes, op, inputs, value, expr, env, n, f)

LEMMA StepAgrees ==
  ASSUME StructureInv, Tables, NEW W, Agrees(W), NEW env, NEW n \in Nodes, NEW f,
         \A i \in DOMAIN inputs[n] : f[inputs[n][i]] = W[inputs[n][i]]
  PROVE  NowStep(env, n, f) = W[n]
<1>1. HoldsAt(n, W)
  BY DEF Agrees
<1>2. Taken(f, inputs[n]) = Taken(W, inputs[n])
  BY DEF Taken
<1>3. CASE op[n] = "fusion"
  <2>1. PICK rank \in Ranks : /\ FallsIn(rank, ToSet(source.nodes), source.inputs)
                              /\ CanRank(rank, Cardinality(Names) + 1)
    BY RanksOfNow
  <2>2. rank \in [Names -> Nat] /\ n \in Names
    BY <2>1, ReadsAreLower DEF CanRank
  <2>3. inputs[n] \in Seq(Names)
    BY <2>1, <2>2 DEF CanRank
  <2>4. \A x \in ToSet(inputs[n]) : x \in Names /\ f[x] = W[x]
    <3> SUFFICES ASSUME NEW x \in ToSet(inputs[n]) PROVE x \in Names /\ f[x] = W[x]
      OBVIOUS
    <3>1. PICK i \in DOMAIN inputs[n] : x = inputs[n][i]
      BY DEF ToSet
    <3> QED
      BY <2>3, <3>1, LenProperties
  <2> PICK tree : tree = expr[n]
    OBVIOUS
  <2>5. /\ n \in DOMAIN tree /\ DOMAIN tree \subseteq Names
        /\ \A m \in DOMAIN tree : \A i \in DOMAIN tree[m].args :
             /\ tree[m].args[i] \in DOMAIN tree \cup ToSet(inputs[n])
             /\ rank[tree[m].args[i]] < rank[m]
    BY <1>3, <2>1, <2>2 DEF Tables, TableAt, RanksSource
  <2>6. \A m \in DOMAIN tree : W[m] = Compute(tree[m].type, Taken(W, tree[m].args))
    BY <1>1, <1>3 DEF HoldsAt
  <2>7. TreeFits(tree, W, f, rank)
    BY <2>4, <2>5, <2>6 DEF TreeFits
  <2>8. Fused(tree, n, f) = W[n]
    BY <2>2, <2>5, <2>7, FusedFits
  <2> QED
    BY <1>3, <2>8 DEF NowStep, StepOf
<1>4. CASE op[n] # "fusion" /\ op[n] = "constant"
  BY <1>1, <1>4 DEF HoldsAt, NowStep, StepOf
<1>5. CASE op[n] # "fusion" /\ op[n] # "constant"
  BY <1>1, <1>2, <1>5 DEF HoldsAt, NowStep, StepOf
<1> QED
  BY <1>3, <1>4, <1>5

LEMMA AgreeingIsMeaning ==
  ASSUME AnchoredInv, Tables, NEW W, Agrees(W), NEW env, \A x \in External : env[x] = W[x]
  PROVE  \A x \in Nodes \cup External :
           Meaning(Nodes, op, inputs, value, expr, env)[x] = W[x]
<1>1. StructureInv /\ Anchored
  BY DEF AnchoredInv
<1>2. PICK rank \in Ranks : CanRank(rank, Cardinality(Names) + 1)
  BY <1>1, RanksOfNow
<1>3. rank \in [Names -> Nat] /\ Nodes \subseteq Names /\ External \subseteq Names
  BY <1>2 DEF CanRank, External
<1>4. \A n \in Nodes : \A i \in DOMAIN inputs[n] :
        inputs[n][i] \in Nodes \cup External /\ rank[inputs[n][i]] < rank[n]
  BY <1>1, <1>2, ReadsAreLower DEF Anchored
<1>5. External \cap Nodes = {}
  BY <1>1 DEF StructureInv, Shape, External
<1> DEFINE Step(n, f) == NowStep(env, n, f)
           F == CHOOSE f : f = [n \in Names |-> Step(n, f)]
           w == [n \in Names |-> IF n \in Nodes THEN W[n] ELSE env[n]]
<1>6. Meaning(Nodes, op, inputs, value, expr, env) = F
  BY MeaningIsChosen DEF NowStep
<1>7. \A n, f : n \notin Nodes => Step(n, f) = env[n]
  BY DEF NowStep, StepOf
<1>8. ASSUME NEW n \in Nodes, NEW f, \A i \in DOMAIN inputs[n] : f[inputs[n][i]] = W[inputs[n][i]]
      PROVE  Step(n, f) = W[n]
  BY <1>1, <1>8, StepAgrees
<1> HIDE DEF Step
<1>9. w = [n \in Names |-> Step(n, w)]
  <2>1. /\ \A n \in Nodes : w[n] = W[n]
        /\ \A n \in Names : n \notin Nodes => w[n] = env[n]
    BY <1>3
  <2>2. w = [n \in Names |-> w[n]]
    OBVIOUS
  <2> HIDE DEF w
  <2>3. \A x \in Nodes \cup External : w[x] = W[x]
    BY <1>3, <1>5, <2>1
  <2>4. ASSUME NEW n \in Nodes PROVE Step(n, w) = W[n]
    <3>1. \A i \in DOMAIN inputs[n] : w[inputs[n][i]] = W[inputs[n][i]]
      BY <1>4, <2>3
    <3> QED
      BY <1>8, <3>1
  <2>5. \A n \in Names : w[n] = Step(n, w)
    BY <1>7, <2>1, <2>4
  <2> QED
    BY <2>2, <2>5
<1> HIDE DEF w
<1>10. F = [n \in Names |-> Step(n, F)]
  BY <1>9
<1> HIDE DEF F
<1>11. \A n \in Names : F[n] = Step(n, F)
  BY <1>10
<1>12. \A x \in External : F[x] = W[x]
  BY <1>3, <1>5, <1>7, <1>11
<1> DEFINE bad == {n \in Nodes : F[n] # W[n]}
<1>13. bad = {}
  <2> SUFFICES ASSUME bad # {} PROVE FALSE
    OBVIOUS
  <2>1. bad \in SUBSET Names
    BY <1>3
  <2>2. \A n \in Nodes : n \in bad \/ F[n] = W[n]
    OBVIOUS
  <2>3. \A n \in bad : n \in Nodes /\ F[n] # W[n]
    OBVIOUS
  <2> HIDE DEF bad
  <2>4. PICK n \in bad : \A m \in bad : ~(rank[m] < rank[n])
    BY <1>3, <2>1, LowestName
  <2>5. \A i \in DOMAIN inputs[n] : F[inputs[n][i]] = W[inputs[n][i]]
    BY <1>4, <1>12, <2>2, <2>3, <2>4
  <2>6. Step(n, F) = W[n]
    BY <1>8, <2>3, <2>5
  <2> QED
    BY <1>11, <2>1, <2>3, <2>6
<1> QED
  BY <1>6, <1>12, <1>13

-----------------------------------------------------------------------------
(* No step changes the values.                                             *)

\* A node type computes what the operation does, but for the sign and the scale.
LEMMA TypesOperate ==
  \A o \in DOMAIN NodeType \ {"sign", "scale"} : \A args :
    NodeType[o] = o /\ Operate(o, args) = Compute(o, args)
<1> SUFFICES ASSUME NEW o \in DOMAIN NodeType \ {"sign", "scale"}, NEW args
             PROVE  NodeType[o] = o /\ Operate(o, args) = Compute(o, args)
  OBVIOUS
<1>1. NodeType[o] = o /\ o \in {"sub", "div", "mul", "max", "neg", "relu"}
  BY NodeTypes
<1>2. /\ o # "identity" /\ o # "sign" /\ o # "scale" /\ o # "linear" /\ o # "opaque"
  BY <1>1
<1>3. Operate(o, args) = Compute(o, args)
  BY <1>2, Zenon DEF Operate
<1> QED
  BY <1>1, <1>3

LEMMA IdentityOperates == \A args : Operate("identity", args) = args[1]
  BY Zenon DEF Operate

\* A live node is no sign, and a scale has one operand, which no cluster takes,
\* and is read by linear nodes alone.
Scales ==
  \A n \in Live :
    /\ op[n] # "sign"
    /\ op[n] = "scale" => Len(inputs[n]) = 1
    /\ \A i \in DOMAIN inputs[n] : inputs[n][i] \in Live =>
         /\ op[inputs[n][i]] = "scale" => op[n] = "linear"
         /\ op[n] = "scale" => op[inputs[n][i]] \notin DOMAIN NodeType \cup {"identity"}

\* What the graph computes is kept by a step.
KeepsValues == Scales' /\ Tables' /\ \A W : Agrees(W) => Agrees(W)'

LEMMA FoldKeepsValues ==
  ASSUME StructureInv, Scales, Tables, FoldNode
  PROVE  KeepsValues
<1> PICK n : n = order[cursor]
  OBVIOUS
<1>1. /\ pass = "fold" /\ cursor <= Len(order) /\ pass' = pass /\ order' = order
      /\ outputs' = outputs /\ absorbed' = absorbed /\ source' = source /\ expr' = expr
  BY DEF FoldNode
<1>2. /\ Shape /\ absorbed = {} /\ cursor > 0
      /\ op \in [Names -> Operations] /\ inputs \in [Names -> Seq(Names)]
      /\ value \in [Names -> Int \cup {NoValue}]
      /\ Nodes \subseteq Names /\ source \in OptGraphs
  BY <1>1, NamesAreCounted DEF StructureInv, Shape
<1>3. n \in Nodes /\ n \in Names
  BY <1>1, <1>2, AtCursor
<1>4. Nodes' = Nodes /\ Live' = Live /\ Live = Nodes /\ External' = External
  BY <1>1, <1>2 DEF Nodes, Live, External
<1>5. \A m \in Names : op[m] # "fusion"
  BY <1>1 DEF Tables
<1>6. CASE ~Foldable(n)
  <2>1. op' = op /\ inputs' = inputs /\ value' = value
    BY <1>6 DEF FoldNode
  <2>2. Scales' /\ Tables'
    BY <1>1, <1>4, <2>1 DEF Scales, Tables, TableAt, RanksSource
  <2>3. ASSUME NEW W, Agrees(W) PROVE Agrees(W)'
    BY <1>1, <1>4, <2>1, <2>3 DEF Agrees, HoldsAt
  <2> QED
    BY <2>2, <2>3 DEF KeepsValues
<1>7. CASE Foldable(n)
  <2>1. /\ op' = [op EXCEPT ![n] = "constant"]
        /\ inputs' = [inputs EXCEPT ![n] = <<>>]
        /\ value' = [value EXCEPT ![n] = FoldedValue(n)]
    BY <1>7 DEF FoldNode
  <2>2. FoldedValue(n) \in Int /\ op[n] \in DOMAIN NodeType
    BY <1>2, <1>3, <1>7, FoldsToNumber
  <2>3. /\ op'[n] = "constant" /\ \A m \in Names : m # n => op'[m] = op[m]
        /\ inputs'[n] = <<>> /\ \A m \in Names : m # n => inputs'[m] = inputs[m]
        /\ value'[n] = FoldedValue(n) /\ \A m \in Names : m # n => value'[m] = value[m]
    BY <1>2, <1>3, <2>1
  <2>4. DOMAIN inputs'[n] = {}
    BY <2>3
  <2>5. Scales'
    <3> SUFFICES ASSUME NEW m \in Nodes
                 PROVE  /\ op'[m] # "sign"
                        /\ op'[m] = "scale" => Len(inputs'[m]) = 1
                        /\ \A i \in DOMAIN inputs'[m] : inputs'[m][i] \in Nodes =>
                             /\ op'[inputs'[m][i]] = "scale" => op'[m] = "linear"
                             /\ op'[m] = "scale" =>
                                  op'[inputs'[m][i]] \notin DOMAIN NodeType \cup {"identity"}
      BY <1>4 DEF Scales
    <3>1. "constant" \notin DOMAIN NodeType \cup {"identity"}
      BY NodeTypes
    <3>2. CASE m = n
      BY <2>3, <2>4, <3>2
    <3>3. CASE m # n
      <4>1. op'[m] = op[m] /\ inputs'[m] = inputs[m]
        BY <1>2, <2>3, <3>3
      <4>2. op[m] # "sign" /\ (op[m] = "scale" => Len(inputs[m]) = 1)
        BY <1>4 DEF Scales
      <4>3. ASSUME NEW i \in DOMAIN inputs[m], inputs[m][i] \in Nodes
            PROVE  /\ op'[inputs[m][i]] = "scale" => op[m] = "linear"
                   /\ op[m] = "scale" => op'[inputs[m][i]] \notin DOMAIN NodeType \cup {"identity"}
        <5>1. op'[inputs[m][i]] = op[inputs[m][i]] \/ op'[inputs[m][i]] = "constant"
          BY <1>2, <2>3, <4>3
        <5>2. /\ op[inputs[m][i]] = "scale" => op[m] = "linear"
              /\ op[m] = "scale" => op[inputs[m][i]] \notin DOMAIN NodeType \cup {"identity"}
          BY <1>4, <4>3 DEF Scales
        <5> QED
          BY <3>1, <5>1, <5>2
      <4> QED
        BY <4>1, <4>2, <4>3
    <3> QED
      BY <3>2, <3>3
  <2>6. Tables'
    <3>1. \A m \in Names : op'[m] # "fusion"
      BY <1>5, <2>3
    <3> QED
      BY <3>1 DEF Tables
  <2>7. ASSUME NEW W, Agrees(W) PROVE Agrees(W)'
    <3>1. \A m \in Nodes : HoldsAt(m, W)
      BY <2>7 DEF Agrees
    <3>2. /\ Len(inputs[n]) = Arity(NodeType[op[n]])
          /\ \A i \in DOMAIN inputs[n] : Constant(inputs[n][i])
          /\ op[n] # "constant"
      BY <1>7 DEF Foldable, Evaluable
    <3>3. \A i \in DOMAIN inputs[n] : W[inputs[n][i]] = value[inputs[n][i]]
      <4> SUFFICES ASSUME NEW i \in DOMAIN inputs[n]
                   PROVE  W[inputs[n][i]] = value[inputs[n][i]]
        OBVIOUS
      <4> PICK y : y = inputs[n][i]
        OBVIOUS
      <4>1. y \in Nodes /\ op[y] = "constant" /\ value[y] # NoValue
        BY <3>2 DEF Constant
      <4>2. HoldsAt(y, W)
        BY <3>1, <4>1
      <4> QED
        BY <4>1, <4>2 DEF HoldsAt
    <3>4. Taken(W, inputs[n]) = [i \in DOMAIN inputs[n] |-> value[inputs[n][i]]]
      BY <3>3 DEF Taken
    <3>5. op[n] \in DOMAIN NodeType \ {"sign", "scale"}
      <4>1. op[n] # "sign" /\ (op[n] = "scale" => Len(inputs[n]) = 1)
        BY <1>3, <1>4 DEF Scales
      <4>2. op[n] = "scale" => Len(inputs[n]) = 2
        BY <3>2, NodeTypes DEF Arity
      <4> QED
        BY <2>2, <4>1, <4>2
    <3>6. FoldedValue(n) = Operate(op[n], Taken(W, inputs[n]))
      BY <3>4, <3>5, TypesOperate DEF FoldedValue
    <3>7. W[n] = Operate(op[n], Taken(W, inputs[n]))
      BY <1>3, <1>5, <3>1, <3>2 DEF HoldsAt
    <3>8. HoldsAt(n, W)'
      <4>1. value'[n] # NoValue
        BY <2>2, <2>3, NoValueAssumption
      <4>2. W[n] = value'[n]
        BY <2>3, <3>6, <3>7
      <4> QED
        BY <2>3, <4>1, <4>2 DEF HoldsAt
    <3>9. ASSUME NEW m \in Nodes, m # n PROVE HoldsAt(m, W)'
      <4>1. op'[m] = op[m] /\ inputs'[m] = inputs[m] /\ value'[m] = value[m] /\ HoldsAt(m, W)
        BY <1>2, <2>3, <3>1, <3>9
      <4> QED
        BY <1>1, <4>1 DEF HoldsAt
    <3> QED
      BY <1>1, <1>4, <2>7, <3>8, <3>9 DEF Agrees
  <2> QED
    BY <2>5, <2>6, <2>7 DEF KeepsValues
<1> QED
  BY <1>6, <1>7

LEMMA RewriteKeepsValues ==
  ASSUME StructureInv, Scales, Tables, RewriteIdentities
  PROVE  KeepsValues
<1>1. /\ pass = "rewrite" /\ op' = op /\ value' = value /\ expr' = expr
      /\ absorbed' = absorbed /\ source' = source
      /\ order' = Kept(order, Nodes \ Redirected)
      /\ inputs' = [n \in Names |->
                      IF n \in Nodes \ Redirected
                      THEN [i \in DOMAIN inputs[n] |-> Target[inputs[n][i]]]
                      ELSE inputs[n]]
      /\ outputs' = [o \in DOMAIN outputs |-> Target[outputs[o]]]
  BY DEF RewriteIdentities
<1>2. /\ Shape /\ absorbed = {} /\ Nodes \subseteq Names /\ source \in OptGraphs
      /\ outputs \in [DOMAIN source.outputs -> Names]
  BY <1>1, NamesAreCounted DEF StructureInv, Shape
<1>3. PICK base : CanRank(base, Cardinality(Names) + 1)
  BY RanksOfNow
<1>4. Nodes' = Nodes \ Redirected
  <2>1. ToSet(order') = Nodes \cap (Nodes \ Redirected)
    BY <1>1, <1>2, KeptList
  <2>2. Nodes' = ToSet(order')
    BY DEF Nodes
  <2> QED
    BY <2>1, <2>2
<1>5. Live = Nodes /\ Live' = Nodes \ Redirected
  BY <1>1, <1>2, <1>4 DEF Live
<1>6. \A n \in Nodes \ Redirected :
        /\ n \in Names /\ DOMAIN inputs'[n] = DOMAIN inputs[n] /\ Len(inputs'[n]) = Len(inputs[n])
        /\ \A i \in DOMAIN inputs[n] :
             inputs[n][i] \in Names /\ inputs'[n][i] = Target[inputs[n][i]]
  <2> SUFFICES ASSUME NEW n \in Nodes \ Redirected
               PROVE  /\ n \in Names /\ DOMAIN inputs'[n] = DOMAIN inputs[n]
                      /\ Len(inputs'[n]) = Len(inputs[n])
                      /\ \A i \in DOMAIN inputs[n] :
                           inputs[n][i] \in Names /\ inputs'[n][i] = Target[inputs[n][i]]
    OBVIOUS
  <2>1. n \in Names /\ inputs'[n] = [i \in DOMAIN inputs[n] |-> Target[inputs[n][i]]]
    BY <1>1, <1>2
  <2>2. DOMAIN inputs[n] = 1..Len(inputs[n]) /\ Len(inputs[n]) \in Nat
        /\ \A i \in DOMAIN inputs[n] : inputs[n][i] \in Names
    BY <1>3, <2>1, ReadsAreLower
  <2>3. inputs'[n] \in [1..Len(inputs[n]) -> {Target[inputs[n][i]] : i \in DOMAIN inputs[n]}]
    BY <2>1, <2>2
  <2>4. Len(inputs'[n]) = Len(inputs[n])
    <3> PICK s, l : s = inputs'[n] /\ l = Len(inputs[n])
      OBVIOUS
    <3>1. \E T : s \in [1..l -> T]
      BY <2>3
    <3>2. PICK T : s \in [1..l -> T]
      BY <3>1
    <3>3. s \in Seq(T) /\ DOMAIN s = 1..l /\ l \in Nat
      BY <2>2, <3>2, SeqDef
    <3> QED
      BY <3>3, LenProperties
  <2> QED
    BY <2>1, <2>2, <2>4
<1>7. Scales'
  <2> SUFFICES ASSUME NEW n \in Nodes \ Redirected
               PROVE  /\ op[n] # "sign"
                      /\ op[n] = "scale" => Len(inputs'[n]) = 1
                      /\ \A i \in DOMAIN inputs'[n] : inputs'[n][i] \in Nodes \ Redirected =>
                           /\ op[inputs'[n][i]] = "scale" => op[n] = "linear"
                           /\ op[n] = "scale" =>
                                op[inputs'[n][i]] \notin DOMAIN NodeType \cup {"identity"}
    <3>1. op' = op
      BY <1>1
    <3> QED
      BY <1>5, <3>1 DEF Scales
  <2>1. op[n] # "sign" /\ (op[n] = "scale" => Len(inputs'[n]) = 1)
    BY <1>5, <1>6 DEF Scales
  <2>2. ASSUME NEW i \in DOMAIN inputs'[n], inputs'[n][i] \in Nodes \ Redirected
        PROVE  /\ op[inputs'[n][i]] = "scale" => op[n] = "linear"
               /\ op[n] = "scale" => op[inputs'[n][i]] \notin DOMAIN NodeType \cup {"identity"}
    <3> PICK y, z : y = inputs[n][i] /\ z = inputs'[n][i]
      OBVIOUS
    <3>1. i \in DOMAIN inputs[n] /\ y \in Names /\ z = Target[y] /\ z \in Nodes
      BY <1>6, <2>2
    <3>2. CASE z = y
      BY <1>5, <3>1, <3>2 DEF Scales
    <3>3. CASE z # y
      <4>1. y \in Redirected
        BY <1>3, <3>1, <3>3, TargetIsDefined DEF TargetLaw
      <4>2. PICK k \in Redirected : z = inputs[k][1]
        BY <1>3, <3>1, <3>3, TargetsEndTheChain
      <4>3. /\ y \in Nodes /\ op[y] = "identity"
            /\ k \in Nodes /\ op[k] = "identity" /\ 1 \in DOMAIN inputs[k]
        BY <1>3, <4>1, RedirectedNodes
      <4>4. op[z] # "scale"
        BY <1>5, <3>1, <4>2, <4>3 DEF Scales
      <4>5. op[n] # "scale"
        BY <1>5, <3>1, <4>3 DEF Scales
      <4> QED
        BY <4>4, <4>5
    <3> QED
      BY <3>2, <3>3
  <2> QED
    BY <2>1, <2>2
<1>8. \A m \in Names : op[m] # "fusion"
  BY <1>1 DEF Tables
<1>9. Tables'
  BY <1>1, <1>8 DEF Tables
<1>10. ASSUME NEW W, Agrees(W) PROVE Agrees(W)'
  <2>1. \A k \in Redirected : W[inputs[k][1]] = W[k]
    <3> SUFFICES ASSUME NEW k \in Redirected PROVE W[inputs[k][1]] = W[k]
      OBVIOUS
    <3>1. k \in Nodes /\ op[k] = "identity" /\ DOMAIN inputs[k] = {1}
      BY <1>3, RedirectedNodes
    <3>2. HoldsAt(k, W)
      BY <1>10, <3>1 DEF Agrees
    <3>3. W[k] = Operate("identity", Taken(W, inputs[k]))
      BY <3>1, <3>2 DEF HoldsAt
    <3>4. Taken(W, inputs[k])[1] = W[inputs[k][1]]
      BY <3>1 DEF Taken
    <3> QED
      BY <3>3, <3>4, IdentityOperates
  <2>2. ASSUME NEW y \in Names PROVE W[Target[y]] = W[y]
    <3> PICK c : c = W[y]
      OBVIOUS
    <3> DEFINE S == {z \in Names : W[z] = c}
    <3>1. \A k \in Redirected \cap S : inputs[k][1] \in S
      <4>1. \A k \in Redirected : inputs[k][1] \in Names
        BY <1>3, RedirectedNodes
      <4> QED
        BY <2>1, <4>1
    <3>2. y \in S /\ \A z \in S : W[z] = c
      OBVIOUS
    <3> HIDE DEF S
    <3>3. Target[y] \in S
      BY <1>3, <3>1, <3>2, TargetsKeep
    <3> QED
      BY <3>2, <3>3
  <2>3. ASSUME NEW n \in Nodes \ Redirected PROVE HoldsAt(n, W)'
    <3>1. HoldsAt(n, W) /\ op[n] # "fusion"
      BY <1>6, <1>8, <1>10 DEF Agrees
    <3>2. Taken(W, inputs'[n]) = Taken(W, inputs[n])
      BY <1>6, <2>2 DEF Taken
    <3> QED
      BY <1>1, <3>1, <3>2 DEF HoldsAt
  <2>4. \A o \in DOMAIN outputs : W[Target[outputs[o]]] = W[outputs[o]]
    BY <1>2, <2>2
  <2>5. \A o \in DOMAIN outputs' : W[outputs'[o]] = W[source'.outputs[o]]
    BY <1>1, <1>10, <2>4 DEF Agrees
  <2> QED
    BY <1>4, <2>3, <2>5 DEF Agrees
<1> QED
  BY <1>7, <1>9, <1>10 DEF KeepsValues

\* What a cluster absorbs, the node types can express.
LEMMA ClusterIsExpressible ==
  ASSUME StructureInv, Scales, pass = "fuse", NEW n \in Nodes, FusesAt(n)
  PROVE  \A m \in Cluster[n] : op[m] \in DOMAIN NodeType \ {"sign", "scale"}
<1>1. n \in Live /\ Elementwise(n) /\ Cardinality(Cluster[n]) > 1
  BY DEF FusesAt
<1>2. /\ Cluster[n] \subseteq Live
      /\ \A m \in Cluster[n] \ {n} : Elementwise(m)
      /\ \A m \in Cluster[n] \ {n} : \E k \in Cluster[n] : m \in ToSet(inputs[k])
  BY <1>1, ClusterIsClosed
<1>3. \A k, m \in Live : m \in ToSet(inputs[k]) =>
        /\ op[m] = "scale" => op[k] = "linear"
        /\ op[k] = "scale" => op[m] \notin DOMAIN NodeType
  BY DEF Scales, ToSet
<1>4. \A m \in Cluster[n] : op[m] \in DOMAIN NodeType /\ op[m] # "sign"
  BY <1>1, <1>2 DEF Elementwise, Scales
<1>5. "linear" \notin DOMAIN NodeType
  BY NodeTypes
<1>6. \A m \in Cluster[n] \ {n} : op[m] # "scale"
  BY <1>2, <1>3, <1>4, <1>5
<1>7. op[n] # "scale"
  <2>1. PICK base : CanRank(base, Cardinality(Names) + 1)
    BY RanksOfNow
  <2>2. Cluster[n] = {n} \cup UNION {Cluster[m] : m \in InlinedReads(n)}
    <3>1. n \in Names
      BY <2>1, ReadsAreLower
    <3> QED
      BY <2>1, <3>1, ClusterIsDefined DEF ClusterLaw
  <2>3. InlinedReads(n) # {}
    <3> SUFFICES ASSUME InlinedReads(n) = {} PROVE FALSE
      OBVIOUS
    <3>1. Cluster[n] = {n}
      BY <2>2
    <3>2. Cardinality(Cluster[n]) = 1
      BY <3>1, FS_Singleton
    <3> QED
      BY <1>1, <3>2
  <2>4. PICK r : r \in InlinedReads(n)
    BY <2>3
  <2>5. r \in ToSet(inputs[n]) /\ r \in Live /\ op[r] \in DOMAIN NodeType
    BY <2>4 DEF InlinedReads, Inlined, Elementwise, Live
  <2> QED
    BY <1>1, <1>3, <2>5
<1> QED
  BY <1>4, <1>6, <1>7

LEMMA FuseKeepsValues ==
  ASSUME StructureInv, Scales, Tables, FuseCluster
  PROVE  KeepsValues
<1>1. /\ pass = "fuse" /\ pass' = "fuse" /\ order' = order /\ outputs' = outputs
      /\ value' = value /\ source' = source
  BY FuserSteps
<1>2. /\ Shape /\ Nodes \subseteq Names /\ source \in OptGraphs
      /\ op \in [Names -> Operations] /\ inputs \in [Names -> Seq(Names)]
  BY NamesAreCounted DEF StructureInv, Shape
<1>3. Nodes' = Nodes
  BY <1>1 DEF Nodes
<1>4. CASE UNCHANGED <<op, expr, inputs, absorbed>>
  <2>1. Live' = Live
    BY <1>3, <1>4 DEF Live
  <2>2. op' = op /\ inputs' = inputs /\ expr' = expr
    BY <1>4
  <2>3. Scales' /\ Tables'
    BY <1>1, <2>1, <2>2 DEF Scales, Tables, TableAt, RanksSource
  <2>4. ASSUME NEW W, Agrees(W) PROVE Agrees(W)'
    BY <1>1, <1>3, <2>2, <2>4 DEF Agrees, HoldsAt
  <2> QED
    BY <2>3, <2>4 DEF KeepsValues
<1>5. CASE \E n \in Nodes : FusesAt(n)
  <2> PICK n \in Nodes : FusesAt(n)
    BY <1>5
  <2> PICK C : C = Cluster[n]
    OBVIOUS
  <2> PICK t : t = FirstMentions(Leaves[n])
    OBVIOUS
  <2>1. /\ n \in Live /\ n \in Names
        /\ op' = [op EXCEPT ![n] = "fusion"]
        /\ inputs' = [inputs EXCEPT ![n] = t]
        /\ expr' = [m \in DOMAIN expr \cup {n} |-> IF m = n THEN Tree(n) ELSE expr[m]]
        /\ absorbed' = absorbed \cup (C \ {n})
    BY <1>2 DEF FusesAt
  <2>2. /\ n \in C /\ C \subseteq Live
        /\ \A k \in C : \A x \in ToSet(inputs[k]) : x \in C \/ x \in ToSet(Leaves[n])
        /\ Leaves[n] \in Seq(Names)
        /\ \A x \in ToSet(Leaves[n]) : x \notin C /\ \E k \in C : x \in ToSet(inputs[k])
    BY <1>1, <2>1, ClusterIsClosed
  <2>3. ToSet(t) = ToSet(Leaves[n])
    BY <2>2, FirstMentionsOnce
  <2>4. \A m \in C : op[m] \in DOMAIN NodeType \ {"sign", "scale"}
    BY <1>1, ClusterIsExpressible
  <2>5. /\ op'[n] = "fusion" /\ \A m \in Names : m # n => op'[m] = op[m]
        /\ inputs'[n] = t /\ \A m \in Names : m # n => inputs'[m] = inputs[m]
    BY <1>2, <2>1
  <2>6. /\ n \in DOMAIN expr' /\ expr'[n] = Tree(n)
        /\ \A m \in DOMAIN expr : m # n => m \in DOMAIN expr' /\ expr'[m] = expr[m]
    BY <2>1
  <2>7. /\ DOMAIN Tree(n) = C
        /\ \A m \in C : Tree(n)[m].type = NodeType[op[m]] /\ Tree(n)[m].args = inputs[m]
    BY DEF Tree
  <2>8. /\ Live' \subseteq Live /\ C \subseteq Nodes /\ C \subseteq Names
        /\ \A m \in Live : m \in Names
    BY <1>2, <1>3, <2>1, <2>2 DEF Live
  <2>9. Scales'
    <3>1. "fusion" \notin DOMAIN NodeType \cup {"identity"}
      BY NodeTypes
    <3>2. "linear" \notin DOMAIN NodeType
      BY NodeTypes
    <3>3. ASSUME NEW m \in Live'
          PROVE  /\ op'[m] # "sign"
                 /\ op'[m] = "scale" => Len(inputs'[m]) = 1
                 /\ \A i \in DOMAIN inputs'[m] : inputs'[m][i] \in Live' =>
                      /\ op'[inputs'[m][i]] = "scale" => op'[m] = "linear"
                      /\ op'[m] = "scale" =>
                           op'[inputs'[m][i]] \notin DOMAIN NodeType \cup {"identity"}
      <4>1. CASE m = n
        <5>1. ASSUME NEW i \in DOMAIN inputs'[m], inputs'[m][i] \in Live'
              PROVE  op'[inputs'[m][i]] # "scale"
          <6> PICK x : x = inputs'[m][i]
            OBVIOUS
          <6>1. x \in ToSet(t) /\ x \in Live
            BY <2>5, <2>8, <4>1, <5>1 DEF ToSet
          <6>2. x \notin C /\ \E k \in C : x \in ToSet(inputs[k])
            BY <2>2, <2>3, <6>1
          <6>3. PICK k \in C : x \in ToSet(inputs[k])
            BY <6>2
          <6>4. PICK p \in DOMAIN inputs[k] : x = inputs[k][p]
            BY <6>3 DEF ToSet
          <6>5. op[x] = "scale" => op[k] = "linear"
            BY <2>2, <6>1, <6>4 DEF Scales
          <6>6. op[x] # "scale"
            BY <2>4, <3>2, <6>5
          <6>7. op'[x] = op[x]
            BY <2>2, <2>5, <2>8, <6>1, <6>2
          <6> QED
            BY <6>6, <6>7
        <5> QED
          BY <2>5, <4>1, <5>1
      <4>2. CASE m # n
        <5>1. op'[m] = op[m] /\ inputs'[m] = inputs[m] /\ m \in Live
          BY <2>5, <2>8, <4>2
        <5>2. op[m] # "sign" /\ (op[m] = "scale" => Len(inputs[m]) = 1)
          BY <5>1 DEF Scales
        <5>3. ASSUME NEW i \in DOMAIN inputs[m], inputs[m][i] \in Live'
              PROVE  /\ op'[inputs[m][i]] = "scale" => op[m] = "linear"
                     /\ op[m] = "scale" =>
                          op'[inputs[m][i]] \notin DOMAIN NodeType \cup {"identity"}
          <6> PICK x : x = inputs[m][i]
            OBVIOUS
          <6>1. x \in Live /\ (op'[x] = op[x] \/ op'[x] = "fusion")
            BY <2>5, <2>8, <5>3
          <6>2. /\ op[x] = "scale" => op[m] = "linear"
                /\ op[m] = "scale" => op[x] \notin DOMAIN NodeType \cup {"identity"}
            BY <5>1, <6>1 DEF Scales
          <6> QED
            BY <3>1, <6>1, <6>2
        <5> QED
          BY <5>1, <5>2, <5>3
      <4> QED
        BY <4>1, <4>2
    <3> QED
      BY <3>3 DEF Scales
  <2>10. \A k \in C : \A i \in DOMAIN inputs[k] : inputs[k][i] \in C \cup ToSet(t)
    BY <2>2, <2>3 DEF ToSet
  <2>11. TableAt(n)'
    <3>1. \A rank : RanksSource(rank)' => CanRank(rank, Cardinality(Names) + 1)
      BY <1>1, RanksOfNow DEF RanksSource
    <3>2. ASSUME NEW m \in C, NEW i \in DOMAIN inputs[m]
          PROVE  /\ inputs[m][i] \in C \cup ToSet(t)
                 /\ \A rank : RanksSource(rank)' => rank[inputs[m][i]] < rank[m]
      BY <2>8, <2>10, <3>1, ReadsAreLower
    <3> QED
      BY <2>2, <2>5, <2>6, <2>7, <2>8, <3>2 DEF TableAt
  <2>12. Tables'
    <3>1. ASSUME NEW m \in Names, op'[m] = "fusion" PROVE TableAt(m)'
      <4>1. CASE m = n
        BY <2>11, <4>1
      <4>2. CASE m # n
        <5>1. op[m] = "fusion" /\ inputs'[m] = inputs[m]
          BY <2>5, <3>1, <4>2
        <5>2. TableAt(m)
          BY <5>1 DEF Tables
        <5>3. m \in DOMAIN expr' /\ expr'[m] = expr[m]
          BY <2>6, <4>2, <5>2 DEF TableAt
        <5>4. \A rank : RanksSource(rank)' <=> RanksSource(rank)
          BY <1>1 DEF RanksSource
        <5> QED
          BY <5>1, <5>2, <5>3, <5>4 DEF TableAt
      <4> QED
        BY <4>1, <4>2
    <3> QED
      BY <1>1, <3>1 DEF Tables
  <2>13. ASSUME NEW W, Agrees(W) PROVE Agrees(W)'
    <3>1. \A m \in Nodes : HoldsAt(m, W)
      BY <2>13 DEF Agrees
    <3>2. HoldsAt(n, W)'
      <4>1. ASSUME NEW m \in C
            PROVE  W[m] = Compute(NodeType[op[m]], Taken(W, inputs[m]))
        <5>1. HoldsAt(m, W) /\ op[m] \in DOMAIN NodeType \ {"sign", "scale"}
          BY <2>4, <2>8, <3>1
        <5>2. op[m] # "fusion" /\ op[m] # "constant"
          BY <5>1, NodeTypes
        <5>3. W[m] = Operate(op[m], Taken(W, inputs[m]))
          BY <5>1, <5>2 DEF HoldsAt
        <5> QED
          BY <5>1, <5>3, TypesOperate
      <4>2. \A m \in DOMAIN expr'[n] :
              W[m] = Compute(expr'[n][m].type, Taken(W, expr'[n][m].args))
        BY <2>6, <2>7, <4>1
      <4> QED
        BY <2>5, <4>2 DEF HoldsAt, Taken
    <3>3. ASSUME NEW m \in Nodes, m # n PROVE HoldsAt(m, W)'
      <4>1. op'[m] = op[m] /\ inputs'[m] = inputs[m] /\ HoldsAt(m, W) /\ m \in Names
        BY <1>2, <2>5, <3>1, <3>3
      <4>2. op[m] = "fusion" => expr'[m] = expr[m]
        BY <2>6, <3>3, <4>1 DEF Tables, TableAt
      <4> QED
        BY <1>1, <4>1, <4>2 DEF HoldsAt
    <3> QED
      BY <1>1, <1>3, <2>13, <3>2, <3>3 DEF Agrees
  <2> QED
    BY <2>9, <2>12, <2>13 DEF KeepsValues
<1> QED
  BY <1>4, <1>5, FuserSteps

\* The other steps change neither operations nor reads.
LEMMA OtherStepsKeepValues ==
  ASSUME StructureInv, Scales, Tables,
         EndFold \/ FlagScaleFolds \/ EndFuse \/ UNCHANGED vars
  PROVE  KeepsValues
<1>1. /\ op' = op /\ inputs' = inputs /\ value' = value /\ expr' = expr /\ outputs' = outputs
      /\ absorbed' = absorbed /\ source' = source
      /\ pass \in {"fuse", "done"} => pass' \in {"fuse", "done"}
  BY DEF EndFold, FlagScaleFolds, EndFuse, vars, graphVars
<1>2. Nodes' \subseteq Nodes /\ Live' \subseteq Live
  <2>1. CASE order' = order
    BY <1>1, <2>1 DEF Nodes, Live
  <2>2. CASE EndFuse
    <3>1. Shape /\ order' = Kept(order, Nodes \ absorbed)
      BY <2>2 DEF EndFuse, StructureInv
    <3>2. ToSet(order') = Nodes \cap (Nodes \ absorbed)
      BY <3>1, KeptList
    <3>3. Nodes' = ToSet(order')
      BY DEF Nodes
    <3> QED
      BY <1>1, <3>2, <3>3 DEF Live
  <2> QED
    BY <2>1, <2>2 DEF EndFold, FlagScaleFolds, vars, graphVars
<1>3. Scales'
  BY <1>1, <1>2 DEF Scales
<1>4. Tables'
  <2>1. \A rank : RanksSource(rank)' <=> RanksSource(rank)
    BY <1>1 DEF RanksSource
  <2>2. \A n : TableAt(n) => TableAt(n)'
    BY <1>1, <2>1 DEF TableAt
  <2> QED
    BY <1>1, <2>2 DEF Tables
<1>5. ASSUME NEW W, Agrees(W) PROVE Agrees(W)'
  BY <1>1, <1>2, <1>5 DEF Agrees, HoldsAt
<1> QED
  BY <1>3, <1>4, <1>5 DEF KeepsValues

\* What the optimizer keeps: the structure, what the node types can express, the
\* tables, and the values of the graph that was handed over.
ValuesInv ==
  /\ AnchoredInv /\ Scales /\ Tables
  /\ \A env \in Environments : Agrees(MeaningOf(source, env))

LEMMA ExpressedAtFirst ==
  ASSUME Init, Expressible(source)
  PROVE  ValuesInv
<1>1. /\ source \in OptGraphs /\ order = source.nodes /\ op = source.op
      /\ inputs = source.inputs /\ value = source.value /\ outputs = source.outputs
      /\ absorbed = {}
  BY DEF Init
<1>2. StructureInv /\ Nodes \subseteq Names /\ Nodes = ToSet(source.nodes) /\ Live = Nodes
  BY <1>1, StructureInit, NamesAreCounted DEF Nodes, Live
<1>3. AnchoredInv
  BY <1>1, <1>2, WholeGraph DEF AnchoredInv, StructureInv
<1>4. Scales
  <2> SUFFICES ASSUME NEW n \in Nodes
               PROVE  /\ op[n] # "sign"
                      /\ op[n] = "scale" => Len(inputs[n]) = 1
                      /\ \A i \in DOMAIN inputs[n] : inputs[n][i] \in Nodes =>
                           /\ op[inputs[n][i]] = "scale" => op[n] = "linear"
                           /\ op[n] = "scale" =>
                                op[inputs[n][i]] \notin DOMAIN NodeType \cup {"identity"}
    BY <1>2 DEF Scales
  <2>1. /\ op[n] # "sign"
        /\ op[n] = "scale" => Len(inputs[n]) = 1
        /\ \A m \in ToSet(inputs[n]) \cap Nodes :
             /\ op[m] = "scale" => op[n] = "linear"
             /\ op[n] = "scale" => op[m] \notin DOMAIN NodeType \cup {"identity"}
    BY <1>1, <1>2 DEF Expressible
  <2>2. \A i \in DOMAIN inputs[n] : inputs[n][i] \in ToSet(inputs[n])
    BY DEF ToSet
  <2> QED
    BY <2>1, <2>2
<1>5. \A n \in Names : op[n] # "fusion"
  BY <1>1, OptGraphsAssumption
<1>6. Tables
  BY <1>5 DEF Tables
<1>7. ASSUME NEW env PROVE Agrees(MeaningOf(source, env))
  <2> PICK W : W = MeaningOf(source, env)
    OBVIOUS
  <2>1. \A n \in Names : W[n] = SourceStep(source, env, n, W)
    BY <1>1, SourceIsComputed
  <2>2. ASSUME NEW n \in Nodes PROVE HoldsAt(n, W)
    <3>1. W[n] = SourceStep(source, env, n, W) /\ op[n] # "fusion"
      BY <1>2, <1>5, <2>1
    <3> QED
      BY <1>1, <1>2, <3>1 DEF SourceStep, StepOf, HoldsAt
  <2>3. Agrees(W)
    BY <1>1, <2>2 DEF Agrees
  <2> QED
    BY <2>3
<1> QED
  BY <1>3, <1>4, <1>6, <1>7 DEF ValuesInv

LEMMA ValuesAreKept == ValuesInv /\ [Next]_vars => ValuesInv'
<1> SUFFICES ASSUME ValuesInv, [Next]_vars PROVE ValuesInv'
  OBVIOUS
<1>1. AnchoredInv /\ StructureInv /\ Scales /\ Tables
  BY DEF ValuesInv, AnchoredInv
<1>2. AnchoredInv'
  BY <1>1, AnchoredStep
<1>3. KeepsValues
  BY <1>1, FoldKeepsValues, RewriteKeepsValues, FuseKeepsValues, OtherStepsKeepValues DEF Next
<1>4. source' = source
  BY DEF Next, FoldNode, EndFold, RewriteIdentities, FlagScaleFolds, FuseCluster, EndFuse, vars
<1>5. ASSUME NEW env \in Environments' PROVE Agrees(MeaningOf(source, env))'
  <2> PICK W : W = MeaningOf(source, env)
    OBVIOUS
  <2>1. env \in Environments
    BY <1>4 DEF Environments
  <2>2. Agrees(W)
    BY <2>1 DEF ValuesInv
  <2>3. Agrees(W)'
    BY <1>3, <2>2 DEF KeepsValues
  <2>4. MeaningOf(source, env)' = W
    BY <1>4
  <2> QED
    BY <2>3, <2>4
<1> QED
  BY <1>2, <1>3, <1>5 DEF KeepsValues, ValuesInv

\* The values are those of the outputs.
LEMMA ValuesAreMeaning ==
  ASSUME ValuesInv
  PROVE  OutputsKeepMeaning
<1>1. AnchoredInv /\ Tables /\ StructureInv /\ source \in OptGraphs
  BY DEF ValuesInv, AnchoredInv, StructureInv, Shape
<1>2. ASSUME NEW env \in Environments, NEW o \in DOMAIN outputs
      PROVE  Meaning(Nodes, op, inputs, value, expr, env)[outputs[o]]
               = MeaningOf(source, env)[source.outputs[o]]
  <2> PICK W : W = MeaningOf(source, env)
    OBVIOUS
  <2>1. Agrees(W)
    BY DEF ValuesInv
  <2>2. \A x \in External : env[x] = W[x]
    <3>1. \A n \in Names : W[n] = SourceStep(source, env, n, W)
      BY <1>1, SourceIsComputed
    <3> QED
      BY <3>1 DEF External, SourceStep, StepOf
  <2>3. outputs[o] \in Nodes \cup External
    BY <1>1 DEF StructureInv, Connected, Live
  <2>4. Meaning(Nodes, op, inputs, value, expr, env)[outputs[o]] = W[outputs[o]]
    BY <1>1, <2>1, <2>2, <2>3, AgreeingIsMeaning
  <2>5. W[outputs[o]] = W[source.outputs[o]]
    BY <2>1 DEF Agrees
  <2> QED
    BY <2>4, <2>5
<1> QED
  BY <1>2 DEF OutputsKeepMeaning, MeaningOf, NoTrees

\* OutputsKeepMeaning, for every set of graphs the node types can express: whatever
\* the inputs, every output has the value it had before the optimizer ran, after
\* each fold, each rewrite and each fusion.
THEOREM OutputsKeepTheirMeaning ==
  ASSUME \A g \in OptGraphs : Expressible(g)
  PROVE  Spec => []OutputsKeepMeaning
<1>1. Init => ValuesInv
  <2> SUFFICES ASSUME Init PROVE ValuesInv
    OBVIOUS
  <2>1. Expressible(source)
    BY DEF Init
  <2> QED
    BY <2>1, ExpressedAtFirst
<1>2. ValuesInv /\ [Next]_vars => ValuesInv'
  BY ValuesAreKept
<1>3. ValuesInv => OutputsKeepMeaning
  BY ValuesAreMeaning
<1> QED
  BY <1>1, <1>2, <1>3, PTL DEF Spec

=============================================================================
