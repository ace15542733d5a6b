---------------------------- MODULE ChunkReclaim ----------------------------
(***************************************************************************)
(* host_chunk_reclaim (src/src/alloc/host_allocator.cpp): a thread gives   *)
(* back to the span pool the chunks of its cache that hold nothing, while  *)
(* other threads go on freeing.                                            *)
(*                                                                         *)
(* It takes what others left on its stacks, counts the free blocks of every*)
(* chunk, dooms the chunks whose count is full, takes their blocks out of  *)
(* its batch and its lists, and frees each one as a span.  Another thread's *)
(* step can only fall between two looks at a stack: those are the steps    *)
(* here, one per class.  A chunk given is gone for the small blocks, which *)
(* take new chunks from the cursor only.                                   *)
(***************************************************************************)
EXTENDS SmallBlocks

CONSTANT FromClass  \* its argument: the smallest class looked at

ASSUME ReclaimAssumption == FromClass \in Nat /\ Classes \subseteq Nat

VARIABLES todo,   \* classes a reclaiming thread still has to visit
          count,  \* ChunkHeader::extra during the walk
          given,  \* chunks freed as spans
          met,    \* history: chunks of which a walk counted a block on a stack,
          torn    \* and whether one of those was freed with the block still there

rvars == <<todo, count, given, met, torn>>

Swept == {k \in Classes : k >= FromClass}
First(S) == CHOOSE k \in S : \A j \in S : k <= j
Reclaiming(t) == pc[t] \in {"takeAll", "count"}

RInit ==
    /\ Init
    /\ todo = [t \in Threads |-> {}]
    /\ count = [ch \in Chunks |-> 0]
    /\ given = {}
    /\ met = {}
    /\ torn = FALSE

Blanks == UNCHANGED <<setup, freeIds, slot, dead, lock, bigRun, cursor, bigCursor, live,
                      cls, item, rest, seen>>

\* Without a cache there is nothing to give.
Reclaim(t) ==
    /\ setup.reclaims
    /\ pc[t] = "idle" /\ slot[t] # None
    /\ pc' = [pc EXCEPT ![t] = "takeAll"]
    /\ at' = [at EXCEPT ![t] = slot[t]]
    /\ todo' = [todo EXCEPT ![t] = Swept]
    /\ Blanks /\ UNCHANGED <<freeList, batch, batchCls, remote, header, count, given, met, torn>>

\* take_remote, class by class: what others freed goes before the list.
TakeRemotes(t) ==
    LET c == at[t]
        k == First(todo[t])
    IN
    /\ pc[t] = "takeAll" /\ todo[t] # {}
    /\ freeList' = [freeList EXCEPT ![c][k] = remote[c][k] \o @]
    /\ TakeRemote(c, k)
    /\ todo' = [todo EXCEPT ![t] = @ \ {k}]
    /\ Blanks /\ UNCHANGED <<pc, at, batch, batchCls, header, count, given, met, torn>>

\* Blocks of s that lie in chunk ch of the region.
In(ch, s) == Cardinality({i \in 1 .. Len(s) : s[i][1] = ch /\ ch <= SmallChunks})

StartCount(t) ==
    /\ pc[t] = "takeAll" /\ todo[t] = {}
    /\ pc' = [pc EXCEPT ![t] = "count"]
    /\ todo' = [todo EXCEPT ![t] = Swept]
    /\ count' = [ch \in Chunks |-> count[ch] + In(ch, batch[at[t]])]
    /\ Blanks
    /\ UNCHANGED <<at, freeList, batch, batchCls, remote, header, given, met, torn>>

\* scan_walk(scan_count): the list of a class, and its stack again: what others
\* have freed since the stack was taken is counted there.
Count(t) ==
    LET c == at[t]
        k == First(todo[t])
    IN
    /\ pc[t] = "count" /\ todo[t] # {}
    /\ count' = [ch \in Chunks |-> count[ch] + In(ch, freeList[c][k]) + In(ch, remote[c][k])]
    /\ met' = met \cup {b[1] : b \in Elems(remote[c][k])}
    /\ todo' = [todo EXCEPT ![t] = @ \ {k}]
    /\ Blanks
    /\ UNCHANGED <<pc, at, freeList, batch, batchCls, remote, header, given, torn>>

\* Whether every block of the chunk was counted.  The mutant is one short.
AlmostFull(c, ch) == header[ch].owner = c /\ ch <= SmallChunks /\ count[ch] + 1 >= Capacity
Full(c, ch) == header[ch].owner = c /\ ch <= SmallChunks /\ count[ch] >= Capacity

\* scan_rebuild: what is not doomed stays, in its order: the n-th that stays is
\* the one up to which n stay.
Keep(s, doomed) ==
    LET stay == {i \in 1 .. Len(s) : s[i][1] \notin doomed}
        kept(i) == Cardinality({j \in stay : j <= i})
    IN [n \in 1 .. Cardinality(stay) |-> s[CHOOSE i \in stay : kept(i) = n]]

\* scan_doom, scan_rebuild and the loop that frees the chunks: nothing here
\* looks at another thread's memory but scan_doom at the stacks, where it finds
\* no chunk counted that its lists or the stacks did not have.  No block is taken
\* out of a stack.
GiveBack(t) ==
    LET c == at[t]
        doomed == {ch \in Chunks : Full(c, ch)}
    IN
    /\ pc[t] = "count" /\ todo[t] = {}
    /\ batch' = [batch EXCEPT ![c] = Keep(@, doomed)]
    /\ freeList' = [freeList EXCEPT ![c] =
                       [k \in Classes |-> IF k \in Swept THEN Keep(@[k], doomed) ELSE @[k]]]
    /\ header' = [ch \in Chunks |-> IF ch \in doomed THEN Virgin ELSE header[ch]]
    /\ given' = given \cup doomed
    /\ torn' = (torn \/ doomed \cap met # {})
    /\ met' = {ch \in met : header[ch].owner # c}
    /\ count' = [ch \in Chunks |-> IF header[ch].owner = c THEN 0 ELSE count[ch]]
    /\ pc' = [pc EXCEPT ![t] = "idle"]
    /\ at' = [at EXCEPT ![t] = None]
    /\ Blanks /\ UNCHANGED <<batchCls, remote, todo>>

-----------------------------------------------------------------------------
(* Other threads free whenever they like.  Once a chunk has been freed with a *)
(* block on a stack its memory is somebody else's span, of which nothing is    *)
(* known here: the calls end.                                                  *)
RNext ==
    \/ /\ ~ torn
       /\ \E t \in Threads :
             \/ Attach(t) \/ Detach(t)
             \/ \E k \in setup.asks : AllocOwn(t, k) \/ AllocShared(t, k)
             \/ Alloc(t)
             \/ \E b \in Blocks : FreeOwn(t, b) \/ FreeLoad(t, b)
             \/ Free(t)
       /\ UNCHANGED <<setup, rvars>>
    \/ /\ ~ torn
       /\ \E t \in Threads :
             Reclaim(t) \/ TakeRemotes(t) \/ StartCount(t) \/ Count(t) \/ GiveBack(t)

RSpec == RInit /\ [][RNext]_<<vars, rvars>>

-----------------------------------------------------------------------------
(* A chunk given back to the span pool holds nothing: none of its blocks is  *)
(* with the program, in a list, a batch or a stack, or about to be pushed on *)
(* one.  Whatever remains would be written through by the next span there.   *)
GivenHoldNothing == \A b \in Blocks : b[1] \in given => Places(b) = {}

(* What the walk does keep, whoever frees meanwhile and whenever: it goes     *)
(* wrong in one way only, by a block it counted on a stack it had emptied.    *)

\* Up to then a chunk is given only when all its blocks were in the batch and
\* the lists of the thread that gives it, so that none is left anywhere.
GivenUntilTorn == torn \/ GivenHoldNothing

\* Up to then every block is in one place, however frees fall into the walk.
PlacesUntilTorn == torn \/ OnePlace

\* Up to then every block is under its chunk's header.
HeadersUntilTorn == torn \/ HeaderRules

\* Up to then a chunk is let go of only while the program holds nothing of it,
\* and the caches serve as BlockHeap says.
HeapUntilTorn ==
    /\ Heap!Init
    /\ [][torn' \/ Heap!Next]_<<live, [ch \in Chunks |-> header[ch].cls]>>
=============================================================================
