------------------------------ MODULE BlockHeap ------------------------------
(***************************************************************************)
(* What the small blocks promise the program (host_allocator.h, allocate    *)
(* and deallocate): a chunk is cut for one size class and keeps it while it *)
(* is the small blocks', a block is handed out only for the class its chunk *)
(* was cut for and only while nobody has it, it is out until it is given    *)
(* back, and a chunk is let go only when all its blocks are in.             *)
(***************************************************************************)
EXTENDS Integers

CONSTANTS Chunks, Blocks, Classes, None

VARIABLES live,  \* how many holders the program has for each block
          size   \* the class each chunk was cut for

Init ==
    /\ live = [b \in Blocks |-> 0]
    /\ size = [ch \in Chunks |-> None]

\* A chunk is cut for a class, once.
Cut(ch, k) ==
    /\ size[ch] = None
    /\ size' = [size EXCEPT ![ch] = k]
    /\ UNCHANGED live

\* Chunks are let go, none of whose blocks the program has.
LetGo(gone) ==
    /\ \A b \in Blocks : b[1] \in gone => live[b] = 0
    /\ size' = [ch \in Chunks |-> IF ch \in gone THEN None ELSE size[ch]]
    /\ UNCHANGED live

HandOut(b) ==
    /\ live[b] = 0
    /\ size[b[1]] # None
    /\ live' = [live EXCEPT ![b] = 1]
    /\ UNCHANGED size

TakeBack(b) ==
    /\ live[b] = 1
    /\ live' = [live EXCEPT ![b] = 0]
    /\ UNCHANGED size

Next ==
    \/ \E ch \in Chunks, k \in Classes : Cut(ch, k)
    \/ \E gone \in SUBSET Chunks : LetGo(gone)
    \/ \E b \in Blocks : HandOut(b) \/ TakeBack(b)

Spec == Init /\ [][Next]_<<live, size>>
=============================================================================
