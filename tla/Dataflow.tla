------------------------------ MODULE Dataflow ------------------------------
(***************************************************************************)
(* What running a compiled graph promises, without streams, events or      *)
(* memory: a graph is published with the producers each step depends on,   *)
(* steps complete in any order that respects them, and all complete.       *)
(***************************************************************************)
EXTENDS Naturals, Sequences

VARIABLES deps,  \* the producers of each step of the published graph
          done   \* the steps that have completed

Init == deps = <<>> /\ done = {}

\* A producer comes before its readers in the step numbering.
Publish ==
    /\ deps = <<>>
    /\ deps' # <<>>
    /\ \A k \in DOMAIN deps' : deps'[k] \subseteq 1..(k - 1)
    /\ UNCHANGED done

Complete ==
    /\ \E k \in DOMAIN deps \ done :
         /\ deps[k] \subseteq done
         /\ done' = done \cup {k}
    /\ UNCHANGED deps

Next == Publish \/ Complete

Progress == WF_<<deps, done>>(Complete)

Spec == Init /\ [][Next]_<<deps, done>> /\ Progress
=============================================================================
