---------------------------- MODULE MCSmallBlocks ----------------------------
(***************************************************************************)
(* Two threads and one owner id, so that one of them has a cache and the    *)
(* other shares, or inherits it; chunks of two blocks.  Of two batched      *)
(* classes host_chunk_reclaim skips one and visits the other.  Programs: a  *)
(* thread with a cache and a thread without, two chunks; threads that end   *)
(* and leave their cache, one chunk; a class of the big-class region, which *)
(* has a chunk of it and then one of the other; threads that reclaim.       *)
(* Threads are interchangeable.                                             *)
(***************************************************************************)
EXTENDS ChunkReclaim, TLC
CONSTANTS t1, t2
Program(asks, room, ends, reclaims) ==
    [asks |-> asks, room |-> room, ends |-> ends, reclaims |-> reclaims]
MC_Setups == {Program({1, 2}, 2, {}, FALSE), Program({1, 2}, 1, Threads, FALSE),
              Program({9}, 1, Threads, FALSE), Program({2}, 2, {}, TRUE),
              Program({1, 2}, 1, Threads, TRUE)}
Symmetric == Permutations(Threads)
=============================================================================
