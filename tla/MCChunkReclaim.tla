---------------------------- MODULE MCChunkReclaim ----------------------------
(***************************************************************************)
(* Two threads and one owner id, one chunk of two blocks of one class, with *)
(* frees let in while a thread reclaims.                                    *)
(***************************************************************************)
EXTENDS ChunkReclaim, TLC
CONSTANTS t1, t2
MC_Setups == {[asks |-> Classes, room |-> SmallChunks, ends |-> Threads, reclaims |-> TRUE]}
Symmetric == Permutations(Threads)
=============================================================================
