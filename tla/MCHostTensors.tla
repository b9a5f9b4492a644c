---------------------------- MODULE MCHostTensors ----------------------------
(***************************************************************************)
(* Two goroutines, two shards and three blocks.  The limits are scaled to  *)
(* classes of 1, 3 and 5: slabs of 1 and 3, mapped blocks of 3 and 5,      *)
(* large ones from 5 on.  Requests of 2 and of 4 (the arena's) need a      *)
(* block as large as the limit of their tier, which is filed one tier      *)
(* higher, where requests of 3 and of 5 find it.                           *)
(***************************************************************************)
EXTENDS HostTensors, TLC

CONSTANTS t1, t2, b1, b2, b3, h1, h2, h3

MCThreads == {t1, t2}
MCBlocks  == {b1, b2, b3}
MCHandles == {h1, h2, h3}

MCSymmetry == Permutations(MCThreads) \cup Permutations(MCBlocks) \cup Permutations(MCHandles)
=============================================================================
