----------------------------- MODULE HostTensors -----------------------------
(***************************************************************************)
(* Host tensors and one arena over the tiered allocator, used by several   *)
(* goroutines.  A root tensor owns a block and its Close releases it; an   *)
(* arena tensor borrows bytes of the arena's block until the arena is      *)
(* reset; a slice or reshape borrows the bytes of its parent.              *)
(*                                                                         *)
(* Nothing is assumed of the callers: any goroutine may reset or close the *)
(* arena at any time, between the two halves of another one's Arena.New or *)
(* Reset too, and leave the arena's tensors behind.                        *)
(***************************************************************************)
EXTENDS TensorAllocator

CONSTANTS Handles,     \* the tensors that can ever be made
          UploadSizes, \* bytes of an upload
          ArenaSizes,  \* capacity of the arena
          ArenaUses,   \* bytes of a tensor in the arena
          Align,       \* 64-byte alignment of the bump pointer
          MaxEpoch,    \* how often the arena is reset
          NoBytes

ASSUME TensorAssumption ==
    /\ UploadSizes \cup ArenaSizes \cup ArenaUses \subseteq Nat
    /\ Align \in Nat \ {0}
    /\ NoBytes \notin [block : Blocks, from : Nat, to : Nat]

VARIABLES handle,      \* the tensors
          arena        \* storage (a block), length, offset, epoch; made: it exists

vars == <<allocatorVars, handle, arena>>

Unused == [kind |-> "unused"]

Init ==
    /\ AllocatorInit
    /\ handle = [h \in Handles |-> Unused]
    /\ arena = [storage |-> NoBlock, length |-> 0, offset |-> 0, epoch |-> 0, made |-> FALSE]

\* Bytes from..to-1 of a block: what a Go slice refers to.
Region(b, from, to) == [block |-> b, from |-> from, to |-> to]

\* newHostTensor.  alone is history, which no step reads: FALSE for an arena
\* tensor whose New overlapped a Reset in time.
NewTensor(kind, bytes, epoch, alone) ==
    [kind |-> kind, bytes |-> bytes, epoch |-> epoch, alone |-> alone,
     closed |-> FALSE, ready |-> TRUE]

MakeHandle(tensor) == \E h \in Handles : handle[h] = Unused
                                         /\ handle' = [handle EXCEPT ![h] = tensor]

-----------------------------------------------------------------------------
(* HostBackend.Upload, HostTensor.Slice and Reshape                        *)

BeginUpload(t) ==
    /\ \E n \in UploadSizes : BeginAllocate(t, n, "tensor")
    /\ UNCHANGED <<handle, arena>>

FinishUpload(t) ==
    /\ call[t].at = "got" /\ call[t].for = "tensor"
    /\ MakeHandle(NewTensor("root", Region(call[t].block, 0, call[t].size), 0, TRUE))
    /\ call' = [call EXCEPT ![t] = Idle]
    /\ UNCHANGED <<lists, capacity, ticket, arena>>

\* A slice of part of the bytes, or a reshape of all of them.  Neither asks
\* whether the parent is open; a closed one has no bytes left.
Derive(t, h) ==
    /\ call[t] = Idle
    /\ handle[h] # Unused /\ handle[h].bytes # NoBytes
    /\ LET r == handle[h].bytes IN
         \E to \in (r.from + 1)..r.to :
            MakeHandle(NewTensor("derived", Region(r.block, r.from, to), 0, TRUE))
    /\ UNCHANGED <<allocatorVars, arena>>

-----------------------------------------------------------------------------
(* HostTensor.Close                                                        *)

\* Fault: closed is tested, but set only later.
BeginCloseUnswapped(t, h) ==
    /\ call[t] = Idle
    /\ handle[h] # Unused /\ ~handle[h].closed
    /\ call' = [call EXCEPT ![t] = [at |-> "close", handle |-> h,
                                    bytes |-> handle[h].bytes]]
    /\ UNCHANGED <<lists, capacity, ticket, handle, arena>>

\* closed is compared and swapped; a second Close stops here.  From then on
\* nobody else changes the bytes.
BeginClose(t, h) ==
    /\ call[t] = Idle
    /\ handle[h] # Unused /\ ~handle[h].closed
    /\ call' = [call EXCEPT ![t] = [at |-> "close", handle |-> h,
                                    bytes |-> handle[h].bytes]]
    /\ handle' = [handle EXCEPT ![h].closed = TRUE]
    /\ UNCHANGED <<lists, capacity, ticket, arena>>

Shut(h) == handle' = [handle EXCEPT ![h].closed = TRUE, ![h].ready = FALSE,
                                    ![h].bytes = NoBytes]

\* StateClosed is stored, the bytes are dropped, and a root releases them.
FinishClose(t) ==
    /\ call[t].at = "close"
    /\ LET h == call[t].handle
           r == call[t].bytes
       IN  /\ Shut(h)
           /\ IF handle[h].kind = "root" /\ r # NoBytes
              THEN HandOver(t, r.block)
              ELSE /\ call' = [call EXCEPT ![t] = Idle]
                   /\ UNCHANGED <<lists, capacity, ticket>>
    /\ UNCHANGED arena

-----------------------------------------------------------------------------
(* Arena                                                                   *)

\* A call of NewArena in progress.
ForArena(t) == call[t].at \in {"pop", "fresh", "got"} /\ call[t].for = "arena"

\* NewArena; there is one arena, made again only after a failure.
BeginArena(t) ==
    /\ ~arena.made
    /\ \A u \in Threads : ~ForArena(u)
    /\ \E n \in ArenaSizes : BeginAllocate(t, n, "arena")
    /\ UNCHANGED <<handle, arena>>

FinishArena(t) ==
    /\ call[t].at = "got" /\ call[t].for = "arena"
    /\ arena' = [arena EXCEPT !.storage = call[t].block, !.length = call[t].size,
                              !.made = TRUE]
    /\ call' = [call EXCEPT ![t] = Idle]
    /\ UNCHANGED <<lists, capacity, ticket, handle>>

Aligned == ((arena.offset + Align - 1) \div Align) * Align

\* Some Reset is between its halves.
Resetting == \E t \in Threads : call[t].at = "reset"

\* allocateBytes, under the arena's lock.
ArenaAllocate(t, n) ==
    /\ call[t] = Idle
    /\ arena.storage # NoBlock /\ n > 0
    /\ Aligned + n <= arena.length
    /\ call' = [call EXCEPT ![t] = [at |-> "view", alone |-> ~Resetting,
                  bytes |-> Region(arena.storage, Aligned, Aligned + n)]]
    /\ arena' = [arena EXCEPT !.offset = Aligned + n]
    /\ UNCHANGED <<lists, capacity, ticket, handle>>

\* newArenaHostTensor reads the epoch with no lock held.
ArenaTensor(t) ==
    /\ call[t].at = "view"
    /\ MakeHandle(NewTensor("arena", call[t].bytes, arena.epoch, call[t].alone))
    /\ call' = [call EXCEPT ![t] = Idle]
    /\ UNCHANGED <<lists, capacity, ticket, arena>>

\* Every Arena.New in progress has met a Reset.
Interrupted(c) == IF c.at = "view" THEN [c EXCEPT !.alone = FALSE] ELSE c

\* Reset: the bump pointer first, under the lock ...
BeginReset(t) ==
    /\ call[t] = Idle
    /\ arena.made /\ arena.epoch < MaxEpoch
    /\ arena' = [arena EXCEPT !.offset = 0]
    /\ call' = [u \in Threads |-> IF u = t THEN [at |-> "reset"] ELSE Interrupted(call[u])]
    /\ UNCHANGED <<lists, capacity, ticket, handle>>

\* Fault: the epoch stays.
FinishResetSameEpoch(t) ==
    /\ call[t].at = "reset"
    /\ call' = [call EXCEPT ![t] = Idle]
    /\ UNCHANGED <<lists, capacity, ticket, handle, arena>>

\* ... then the epoch.
FinishReset(t) ==
    /\ call[t].at = "reset"
    /\ arena' = [arena EXCEPT !.epoch = @ + 1]
    /\ call' = [call EXCEPT ![t] = Idle]
    /\ UNCHANGED <<lists, capacity, ticket, handle>>

\* acquireView: the tensor is ready, and its arena has not been reset.
Viewable(h) ==
    /\ handle[h] # Unused
    /\ handle[h].ready
    /\ handle[h].kind = "arena" => handle[h].epoch = arena.epoch

\* The storage is released.  The epoch stays, and so do the arena's tensors.
CloseArena(t) ==
    /\ call[t] = Idle
    /\ arena.storage # NoBlock
    /\ HandOver(t, arena.storage)
    /\ arena' = [arena EXCEPT !.storage = NoBlock, !.length = 0, !.offset = 0]
    /\ UNCHANGED handle

Next ==
    \E t \in Threads :
      \/ AllocatorStep(t) /\ UNCHANGED <<handle, arena>>
      \/ BeginUpload(t) \/ FinishUpload(t)
      \/ \E h \in Handles : Derive(t, h) \/ BeginClose(t, h)
      \/ FinishClose(t)
      \/ BeginArena(t) \/ FinishArena(t)
      \/ \E n \in ArenaUses : ArenaAllocate(t, n)
      \/ ArenaTensor(t)
      \/ BeginReset(t) \/ FinishReset(t) \/ CloseArena(t)

Spec == Init /\ [][Next]_vars

-----------------------------------------------------------------------------
\* The places that own a block: a position of a free list, a call that carries
\* it, an open root tensor, the arena.
Carries(t, b) == call[t].at \in {"got", "push"} /\ call[t].block = b

Owns(h, b) == /\ handle[h] # Unused /\ handle[h].kind = "root"
              /\ handle[h].bytes # NoBytes /\ handle[h].bytes.block = b

Holders(b) ==
    (UNION {{<<"list", l, i>> : i \in {k \in DOMAIN lists[l] : lists[l][k] = b}} : l \in Lists})
    \cup {<<"call", t>> : t \in {u \in Threads : Carries(u, b)}}
    \cup {<<"tensor", h>> : h \in {g \in Handles : Owns(g, b)}}
    \cup {a \in {<<"arena">>} : arena.storage = b}

\* Whatever goroutines allocate, close twice, slice, reset and fail, acquired
\* storage always has exactly one owner: no block is handed out twice, and
\* none is lost.
EveryBlockHasOneHolder ==
    \A b \in Blocks : capacity[b] > 0 => Cardinality(Holders(b)) = 1

\* "buffer[:bytesNeeded]" never exceeds the capacity, although Release files a
\* block by its capacity alone and a block at a limit changes its tier.
BlocksFitTheirRequest ==
    /\ \A t \in Threads : call[t].at = "got" => call[t].size <= capacity[call[t].block]
    /\ \A l \in Lists \ {LargeList} : \A i \in DOMAIN lists[l] :
         capacity[lists[l][i]] = l[2]

Overlap(r, s) == r.block = s.block /\ r.from < s.to /\ s.from < r.to

\* A tensor with bytes of its own: a root, or one from an arena that is still
\* open, made without a Reset between the halves of its New.  The tensors of a
\* closed arena stay viewable too, over bytes the allocator gives out again.
Claims(h) ==
    /\ Viewable(h)
    /\ \/ handle[h].kind = "root"
       \/ handle[h].kind = "arena" /\ handle[h].alone /\ arena.storage # NoBlock

\* Two tensors that both pass acquireView, neither a view of another tensor,
\* never share a byte while the arena is open: it hands bytes out again only
\* when the tensors that had them are stale, unless a Reset overlaps a New.
ViewableBytesAreDisjoint ==
    \A g, h \in {k \in Handles : Claims(k)} :
       g # h => ~Overlap(handle[g].bytes, handle[h].bytes)
=============================================================================
