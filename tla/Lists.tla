-------------------------------- MODULE Lists --------------------------------
(***************************************************************************)
(* The loops that filter a slice: the first queue of topologicalSort, the  *)
(* names a lowered node reads, the slots whose edge failed to unify, the   *)
(* inputs of a fused node.                                                 *)
(***************************************************************************)
EXTENDS Naturals, Sequences, FiniteSets, SequencesExt

\* The elements at some positions of a list, in their order.  The j-th is the one
\* with j - 1 of the positions before it: a filter by position instead of by
\* recursion, so that the proofs can reason about it.
Selected(list, at) ==
    LET Rank(i) == Cardinality({k \in at : k <= i})
    IN  [j \in 1..Cardinality(at) |-> list[CHOOSE i \in at : Rank(i) = j]]

\* The elements of a list that are in S.
Kept(list, S) == Selected(list, {i \in DOMAIN list : list[i] \in S})

\* The elements of a list without repetition: each where it is met first.
FirstMentions(list) ==
    Selected(list, {i \in DOMAIN list : \A k \in 1..(i - 1) : list[k] # list[i]})

\* The list without its elements equal to e: the blank names of a manifest,
\* the layers left without a node.
Without(list, e) == Kept(list, ToSet(list) \ {e})
==============================================================================
