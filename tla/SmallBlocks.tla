----------------------------- MODULE SmallBlocks -----------------------------
(***************************************************************************)
(* Small blocks (src/include/util/alloc/host_allocator.h: pop_block,       *)
(* push_block; src/src/alloc/host_allocator.cpp: the rest).                *)
(*                                                                         *)
(* A cache keeps its free blocks per size class in a list, and a few of    *)
(* the smallest ones in a batch.  A block freed by somebody else is pushed *)
(* on a lock-free stack of its owner, who takes the whole stack when its   *)
(* list runs dry; failing that the cache grows by a chunk.  Threads without *)
(* an id share one cache behind a lock.  Lists and stacks are sequences,   *)
(* head first; a chunk is its number and a block <<chunk, place>>.         *)
(*                                                                         *)
(* Owner ids are taken and given in one step here: ThreadCaches models how *)
(* and shows that a cache has one holder.                                  *)
(***************************************************************************)
EXTENDS Integers, Sequences, FiniteSets

CONSTANTS Threads,
          Ids,          \* owner ids threads may take
          Classes,      \* size classes
          Batched,      \* those up to kBatchMaxClass
          Big,          \* those from kBigClassMin up, in the big-class region
          Capacity,     \* blocks in a chunk
          BatchSlots,   \* kBatchSlots
          BigBatch,     \* blocks of a big chunk chained at a time
          SmallChunks,  \* chunks in the region, at most
          BigChunks,    \* chunks in the big-class region
          Setups,       \* programs and regions, see setup
          Shared,       \* kSharedCacheId
          None

Caches == Ids \cup {Shared}
Chunks == 1 .. SmallChunks + BigChunks
Blocks == Chunks \X (1 .. Capacity)

ASSUME BlockAssumption ==
    /\ Batched \subseteq Classes /\ Big \subseteq Classes /\ Classes # {}
    /\ Batched \cap Big = {}
    /\ Setups \subseteq [asks : SUBSET Classes, room : 0 .. SmallChunks,
                       ends : SUBSET Threads, reclaims : BOOLEAN]
    /\ {Capacity, BatchSlots, BigBatch} \subseteq Nat \ {0}
    /\ {SmallChunks, BigChunks} \subseteq Nat
    /\ Shared \notin Ids
    /\ None \notin Caches \cup Threads \cup Classes \cup Chunks \cup Blocks

VARIABLES setup,     \* classes asked for, chunks of the region, threads that end,
                     \* whether host_chunk_reclaim is called (ChunkReclaim)
          freeIds,   \* g_free_ids
          slot,      \* the cache of each thread
          dead,      \* threads past their exit notice
          lock,      \* g_shared_lock: who holds it
          freeList,  \* ThreadCache::free_list
          batch,     \* ThreadCache::batch, the next one out last
          batchCls,  \* ThreadCache::batch_cls
          bigRun,    \* ThreadCache::big_run, per big class
          remote,    \* g_remote
          header,    \* of each chunk: owner, class, blocks chained so far
          cursor,    \* chunks taken from the region
          bigCursor, \* and from the big-class region
          live,      \* holders the program has for each block
          pc,        \* where each thread is
          at,        \* the cache its call works on
          cls,       \* the class it asked for
          item,      \* the block it is giving back or has just found
          rest,      \* what it will leave in the list or batch it found it in
          seen       \* the head of the remote stack it read

cvars == <<freeList, batch, batchCls, bigRun>>
local == <<pc, at, cls, item, rest, seen>>
vars == <<setup, freeIds, slot, dead, lock, cvars, remote, header, cursor, bigCursor, live,
          local>>

Top(s) == IF s = <<>> THEN None ELSE s[1]
Front(s) == SubSeq(s, 1, Len(s) - 1)
Last(s) == s[Len(s)]
Take(s, n) == SubSeq(s, 1, IF n < Len(s) THEN n ELSE Len(s))
Drop(s, n) == SubSeq(s, n + 1, Len(s))

Virgin == [owner |-> None, cls |-> None, chained |-> 0]
NoBatch == CHOOSE k \in Classes : TRUE    \* batch_cls starts at 0

-----------------------------------------------------------------------------
Init ==
    /\ setup \in Setups
    /\ freeIds = Ids
    /\ slot = [t \in Threads |-> None]
    /\ dead = {}
    /\ lock = None
    /\ freeList = [c \in Caches |-> [k \in Classes |-> <<>>]]
    /\ batch = [c \in Caches |-> <<>>]
    /\ batchCls = [c \in Caches |-> NoBatch]
    /\ bigRun = [c \in Caches |-> [k \in Big |-> None]]
    /\ remote = [c \in Caches |-> [k \in Classes |-> <<>>]]
    /\ header = [ch \in Chunks |-> Virgin]
    /\ cursor = 0
    /\ bigCursor = 0
    /\ live = [b \in Blocks |-> 0]
    /\ pc = [t \in Threads |-> "idle"]
    /\ at = [t \in Threads |-> None]
    /\ cls = [t \in Threads |-> None]
    /\ item = [t \in Threads |-> None]
    /\ rest = [t \in Threads |-> <<>>]
    /\ seen = [t \in Threads |-> None]

-----------------------------------------------------------------------------
(* Owner ids, as ThreadCaches deals them. *)
Attach(t) ==
    /\ pc[t] = "idle" /\ slot[t] = None /\ t \notin dead
    /\ \E c \in freeIds :
          /\ slot' = [slot EXCEPT ![t] = c]
          /\ freeIds' = freeIds \ {c}
    /\ UNCHANGED <<dead, lock, cvars, remote, header, cursor, bigCursor, live, local>>

\* on_thread_exit: what the cache holds stays in it for the next holder.
Detach(t) ==
    /\ t \in setup.ends
    /\ pc[t] = "idle" /\ slot[t] # None
    /\ slot' = [slot EXCEPT ![t] = None]
    /\ freeIds' = freeIds \cup {slot[t]}
    /\ dead' = dead \cup {t}
    /\ UNCHANGED <<lock, cvars, remote, header, cursor, bigCursor, live, local>>

-----------------------------------------------------------------------------
(* Allocation. *)
Idle(t) ==
    /\ pc' = [pc EXCEPT ![t] = "idle"]
    /\ at' = [at EXCEPT ![t] = None]
    /\ cls' = [cls EXCEPT ![t] = None]
    /\ item' = [item EXCEPT ![t] = None]
    /\ rest' = [rest EXCEPT ![t] = <<>>]
    /\ seen' = [seen EXCEPT ![t] = None]

\* alloc_body with a cache of its own; host_alloc_slow without one goes to
\* alloc_shared, after cache() found no id or the exit marker.
Begin(t, k, c, step) ==
    /\ pc[t] = "idle"
    /\ pc' = [pc EXCEPT ![t] = step]
    /\ at' = [at EXCEPT ![t] = c]
    /\ cls' = [cls EXCEPT ![t] = k]
    /\ UNCHANGED <<freeIds, slot, dead, lock, cvars, remote, header, cursor, bigCursor, live,
                   item, rest, seen>>

AllocOwn(t, k) == slot[t] # None /\ Begin(t, k, slot[t], "pop")
AllocShared(t, k) ==
    /\ slot[t] = None
    /\ freeIds = {} \/ t \in dead
    /\ Begin(t, k, Shared, "lock")

\* Mutant of Lock: nobody waits.
LockAnyway(t) ==
    /\ pc[t] = "lock"
    /\ lock' = t
    /\ pc' = [pc EXCEPT ![t] = "pop"]
    /\ UNCHANGED <<freeIds, slot, dead, cvars, remote, header, cursor, bigCursor, live,
                   at, cls, item, rest, seen>>

\* SharedLock::SharedLock.
Lock(t) ==
    /\ pc[t] = "lock"
    /\ lock = None
    /\ lock' = t
    /\ pc' = [pc EXCEPT ![t] = "pop"]
    /\ UNCHANGED <<freeIds, slot, dead, cvars, remote, header, cursor, bigCursor, live,
                   at, cls, item, rest, seen>>

\* ~SharedLock, with the call.
Unlock(t) == lock' = IF at[t] = Shared THEN None ELSE lock

Found(t, b, left, step) ==
    /\ pc' = [pc EXCEPT ![t] = step]
    /\ item' = [item EXCEPT ![t] = b]
    /\ rest' = [rest EXCEPT ![t] = left]
    /\ UNCHANGED <<freeIds, slot, dead, lock, freeList, bigRun, remote, header, cursor,
                   bigCursor, live, at, cls, seen>>

\* pop_block, the batch: the class it holds is the one asked for.
PopBatch(t) ==
    LET c == at[t] IN
    /\ pc[t] = "pop"
    /\ cls[t] \in Batched /\ batchCls[c] = cls[t] /\ batch[c] # <<>>
    /\ Found(t, Last(batch[c]), Front(batch[c]), "takeBatch")
    /\ UNCHANGED <<batch, batchCls>>

\* Mutant of Spilled: the batch goes to the list of the class asked for.
SpilledHere(c, k) ==
    IF batchCls[c] = k THEN freeList[c] ELSE [freeList[c] EXCEPT ![k] = batch[c] \o @]

\* A batch of another class goes back to ITS list.
Spilled(c, k) ==
    IF batchCls[c] = k THEN freeList[c]
    ELSE [freeList[c] EXCEPT ![batchCls[c]] = batch[c] \o @]

\* pop_block_refill: what the batch had is spilled, the batch fills up from the
\* list of this class, and the last one in is handed out.
PopRefill(t) ==
    LET c == at[t]
        k == cls[t]
        moved == Take(Spilled(c, k)[k], BatchSlots)
    IN
    /\ pc[t] = "pop"
    /\ k \in Batched /\ ~(batchCls[c] = k /\ batch[c] # <<>>)
    /\ freeList' = [freeList EXCEPT ![c] =
                       [Spilled(c, k) EXCEPT ![k] = Drop(@, Len(moved))]]
    /\ batchCls' = [batchCls EXCEPT ![c] = k]
    /\ IF moved = <<>>
         THEN /\ batch' = [batch EXCEPT ![c] = <<>>]
              /\ pc' = [pc EXCEPT ![t] = "refill"]
              /\ UNCHANGED live
              /\ UNCHANGED lock
              /\ UNCHANGED <<at, cls, item, rest, seen>>
         ELSE /\ batch' = [batch EXCEPT ![c] = Front(moved)]
              /\ live' = [live EXCEPT ![Last(moved)] = @ + 1]
              /\ Unlock(t)
              /\ Idle(t)
    /\ UNCHANGED <<freeIds, slot, dead, bigRun, remote, header, cursor, bigCursor>>

\* pop_block, the list.
PopList(t) ==
    LET l == freeList[at[t]][cls[t]] IN
    /\ pc[t] = "pop"
    /\ cls[t] \notin Batched
    /\ l # <<>>
    /\ Found(t, Top(l), Tail(l), "takeList")
    /\ UNCHANGED <<batch, batchCls>>

PopNone(t) ==
    /\ pc[t] = "pop"
    /\ cls[t] \notin Batched
    /\ freeList[at[t]][cls[t]] = <<>>
    /\ pc' = [pc EXCEPT ![t] = "refill"]
    /\ UNCHANGED <<freeIds, slot, dead, lock, cvars, remote, header, cursor, bigCursor, live,
                   at, cls, item, rest, seen>>

\* The write that takes the block: c->batch_n or c->free_list[k].
HandOut(t) ==
    /\ live' = [live EXCEPT ![item[t]] = @ + 1]
    /\ Unlock(t)
    /\ Idle(t)
    /\ UNCHANGED <<freeIds, slot, dead, batchCls, bigRun, remote, header, cursor, bigCursor>>

TakeBatch(t) ==
    /\ pc[t] = "takeBatch"
    /\ batch' = [batch EXCEPT ![at[t]] = rest[t]]
    /\ UNCHANGED freeList
    /\ HandOut(t)

TakeList(t) ==
    /\ pc[t] = "takeList"
    /\ freeList' = [freeList EXCEPT ![at[t]][cls[t]] = rest[t]]
    /\ UNCHANGED batch
    /\ HandOut(t)

\* take_remote, which exchanges a stack for an empty one; its mutant reads it.
ReadRemote(c, k) == UNCHANGED remote
TakeRemote(c, k) == remote' = [remote EXCEPT ![c][k] = <<>>]

\* host_alloc_refill: what the stack had becomes the list.
RefillRemote(t) ==
    LET chain == remote[at[t]][cls[t]] IN
    /\ pc[t] = "refill"
    /\ TakeRemote(at[t], cls[t])
    /\ IF chain # <<>>
         THEN /\ freeList' = [freeList EXCEPT ![at[t]][cls[t]] = chain]
              /\ pc' = [pc EXCEPT ![t] = "pop"]
         ELSE /\ pc' = [pc EXCEPT ![t] = IF cls[t] \in Big THEN "growBig" ELSE "grow"]
              /\ UNCHANGED freeList
    /\ UNCHANGED <<freeIds, slot, dead, lock, batch, batchCls, bigRun, header, cursor, bigCursor,
                   live, at, cls, item, rest, seen>>

Run(ch, first, last) == [i \in 1 .. last - first + 1 |-> <<ch, first + i - 1>>]

Chained(t, ch, first, last) ==
    /\ header' = [header EXCEPT ![ch] =
                     [owner |-> at[t], cls |-> cls[t], chained |-> last]]
    /\ freeList' = [freeList EXCEPT ![at[t]][cls[t]] = Run(ch, first, last)]
    /\ pc' = [pc EXCEPT ![t] = "pop"]
    /\ UNCHANGED <<freeIds, slot, dead, lock, batch, batchCls, remote, live,
                   at, cls, item, rest, seen>>

\* grow_big: carries on with the chunk it was spending, or takes a new one, and
\* chains one batch of it.
Spending(t) ==
    LET run == bigRun[at[t]][cls[t]] IN
    IF run # None /\ header[run].chained < Capacity THEN run ELSE None

Done(t) == IF Spending(t) = None THEN 0 ELSE header[Spending(t)].chained

GrowBig(t) ==
    /\ pc[t] = "growBig"
    /\ Spending(t) # None \/ bigCursor < BigChunks
    /\ LET fresh == Spending(t) = None
           ch == IF fresh THEN SmallChunks + bigCursor + 1 ELSE Spending(t)
           take == IF Capacity - Done(t) > BigBatch THEN BigBatch ELSE Capacity - Done(t)
       IN /\ bigRun' = [bigRun EXCEPT ![at[t]][cls[t]] = ch]
          /\ bigCursor' = IF fresh THEN bigCursor + 1 ELSE bigCursor
          /\ Chained(t, ch, Done(t) + 1, Done(t) + take)
    /\ UNCHANGED cursor

\* It gives up with no chunk left or with its memory refused by os_commit: of
\* the header, and the chunk is lost, or of the batch, and it can be tried again.
GrowBigFail(t) ==
    /\ pc[t] = "growBig"
    /\ \/ UNCHANGED <<bigCursor, bigRun, header>>
       \/ /\ Spending(t) = None /\ bigCursor < BigChunks
          /\ bigCursor' = bigCursor + 1
          /\ \/ UNCHANGED <<bigRun, header>>
             \/ LET ch == SmallChunks + bigCursor + 1 IN
                /\ bigRun' = [bigRun EXCEPT ![at[t]][cls[t]] = ch]
                /\ header' = [header EXCEPT ![ch] =
                                [owner |-> at[t], cls |-> cls[t], chained |-> 0]]
    /\ pc' = [pc EXCEPT ![t] = "grow"]
    /\ UNCHANGED <<freeIds, slot, dead, lock, freeList, batch, batchCls, remote, cursor, live,
                   at, cls, item, rest, seen>>

\* grow: a new chunk of the region, every block chained.
Grow(t) ==
    /\ pc[t] = "grow"
    /\ cursor < setup.room
    /\ cursor' = cursor + 1
    /\ Chained(t, cursor + 1, 1, Capacity)
    /\ UNCHANGED <<bigRun, bigCursor>>

\* No chunk left, or os_commit refused its memory: a chunk taken from the
\* cursor and not committed is never used.
GrowFail(t) ==
    /\ pc[t] = "grow"
    /\ cursor' = IF cursor < setup.room THEN cursor + 1 ELSE cursor
    /\ Unlock(t)
    /\ Idle(t)
    /\ UNCHANGED <<freeIds, slot, dead, cvars, remote, header, bigCursor, live>>

-----------------------------------------------------------------------------
(* Freeing. *)
Mine(t, b) == slot[t] # None /\ header[b[1]].owner = slot[t]

\* push_block: there is room in the batch and it is of this class.  The mutant
\* forgets that a batch has slots.
RoomAlways(c, k) == k \in Batched /\ batchCls[c] = k
RoomInBatch(c, k) == k \in Batched /\ batchCls[c] = k /\ Len(batch[c]) < BatchSlots

\* free_body, a block of this thread's own cache: push_block.
FreeOwn(t, b) ==
    LET c == slot[t]
        k == header[b[1]].cls
    IN
    /\ pc[t] = "idle"
    /\ live[b] > 0
    /\ Mine(t, b)
    /\ live' = [live EXCEPT ![b] = @ - 1]
    /\ IF RoomInBatch(c, k)
         THEN batch' = [batch EXCEPT ![c] = Append(@, b)] /\ UNCHANGED freeList
         ELSE freeList' = [freeList EXCEPT ![c][k] = <<b>> \o @] /\ UNCHANGED batch
    /\ UNCHANGED <<freeIds, slot, dead, lock, batchCls, bigRun, remote, header, cursor,
                   bigCursor, local>>

\* host_free_remote: reads the head of the owner's stack and links to it.
FreeLoad(t, b) ==
    /\ pc[t] = "idle"
    /\ live[b] > 0
    /\ ~Mine(t, b)
    /\ live' = [live EXCEPT ![b] = @ - 1]
    /\ pc' = [pc EXCEPT ![t] = "freeCas"]
    /\ at' = [at EXCEPT ![t] = header[b[1]].owner]
    /\ cls' = [cls EXCEPT ![t] = header[b[1]].cls]
    /\ item' = [item EXCEPT ![t] = b]
    /\ seen' = [seen EXCEPT ![t] = Top(remote[header[b[1]].owner][header[b[1]].cls])]
    /\ UNCHANGED <<freeIds, slot, dead, lock, cvars, remote, header, cursor, bigCursor, rest>>

\* The exchange: the head is the one it linked to, whatever happened between.
FreeCas(t) ==
    LET stack == remote[at[t]][cls[t]] IN
    /\ pc[t] = "freeCas"
    /\ Top(stack) = seen[t]
    /\ remote' = [remote EXCEPT ![at[t]][cls[t]] = <<item[t]>> \o @]
    /\ Idle(t)
    /\ UNCHANGED <<freeIds, slot, dead, lock, cvars, header, cursor, bigCursor, live>>

FreeRetry(t) ==
    /\ pc[t] = "freeCas"
    /\ seen' = [seen EXCEPT ![t] = Top(remote[at[t]][cls[t]])]
    /\ UNCHANGED <<freeIds, slot, dead, lock, cvars, remote, header, cursor, bigCursor, live,
                   pc, at, cls, item, rest>>

-----------------------------------------------------------------------------
Alloc(t) ==
    \/ Lock(t)
    \/ PopBatch(t) \/ PopRefill(t) \/ PopList(t) \/ PopNone(t)
    \/ TakeBatch(t) \/ TakeList(t)
    \/ RefillRemote(t)
    \/ GrowBig(t) \/ GrowBigFail(t) \/ Grow(t) \/ GrowFail(t)

Free(t) == FreeCas(t) \/ FreeRetry(t)

Next ==
    /\ \E t \in Threads :
          \/ Attach(t) \/ Detach(t)
          \/ \E k \in setup.asks : AllocOwn(t, k) \/ AllocShared(t, k)
          \/ Alloc(t)
          \/ \E b \in Blocks : FreeOwn(t, b) \/ FreeLoad(t, b)
          \/ Free(t)
    /\ UNCHANGED setup

Spec == Init /\ [][Next]_vars

-----------------------------------------------------------------------------
Steps == {"idle", "lock", "pop", "takeBatch", "takeList", "refill", "growBig", "grow",
          "freeCas", "takeAll", "count"}
Chain == Seq(Blocks)

IdTypes ==
    /\ setup \in Setups /\ freeIds \subseteq Ids /\ dead \subseteq Threads
    /\ slot \in [Threads -> Ids \cup {None}]
    /\ lock \in Threads \cup {None}
CacheTypes ==
    /\ freeList \in [Caches -> [Classes -> Chain]]
    /\ batch \in [Caches -> Chain] /\ \A c \in Caches : Len(batch[c]) <= BatchSlots
    /\ batchCls \in [Caches -> Classes]
    /\ remote \in [Caches -> [Classes -> Chain]]
ChunkTypes ==
    /\ bigRun \in [Caches -> [Big -> Chunks \cup {None}]]
    /\ header \in [Chunks -> [owner : Caches \cup {None}, cls : Classes \cup {None},
                              chained : 0 .. Capacity]]
    /\ cursor \in 0 .. SmallChunks /\ bigCursor \in 0 .. BigChunks
    /\ live \in [Blocks -> Nat]
CallTypes ==
    /\ pc \in [Threads -> Steps]
    /\ at \in [Threads -> Caches \cup {None}]
    /\ cls \in [Threads -> Classes \cup {None}]
    /\ item \in [Threads -> Blocks \cup {None}]
    /\ rest \in [Threads -> Chain]
    /\ seen \in [Threads -> Blocks \cup {None}]

\* The shape of the state; a batch is never longer than its slots.
TypeOK == IdTypes /\ CacheTypes /\ ChunkTypes /\ CallTypes

Carved == {b \in Blocks : b[2] <= header[b[1]].chained}

\* Where a block is: with the program, or free in one position of a list, a
\* batch or a remote stack, or in the hands of a thread that is pushing it.
Positions(s, b) == {i \in 1 .. Len(s) : s[i] = b}
Places(b) ==
      {<<"live", i>> : i \in 1 .. live[b]}
    \cup (UNION {{<<"list", c, k, i>> : i \in Positions(freeList[c][k], b)} :
                    c \in Caches, k \in Classes})
    \cup (UNION {{<<"batch", c, i>> : i \in Positions(batch[c], b)} : c \in Caches})
    \cup (UNION {{<<"remote", c, k, i>> : i \in Positions(remote[c][k], b)} :
                    c \in Caches, k \in Classes})
    \cup {<<"pushing", t>> : t \in {u \in Threads : pc[u] = "freeCas" /\ item[u] = b}}

\* Every block carved is in exactly one place, whoever frees it and whatever
\* caches change hands: none is handed out twice, none is lost when a list is
\* refilled, a batch spilled or a stack taken (host_alloc_refill writes the list
\* without looking at what it had).
OnePlace ==
    \A b \in Blocks :
        IF b \in Carved THEN \E p \in Places(b) : Places(b) = {p} ELSE Places(b) = {}

\* A block is only ever found where its chunk's header sends it: in the lists
\* and stacks of its owner and its class, so that what a thread pops is as big
\* as the class it asked for, and its next free goes home.
HeaderRules ==
    \A b \in Carved :
        LET h == header[b[1]] IN
        \A c \in Caches :
            /\ Positions(batch[c], b) # {} => c = h.owner /\ batchCls[c] = h.cls
            /\ \A k \in Classes :
                  Positions(freeList[c][k], b) # {} \/ Positions(remote[c][k], b) # {}
                  => c = h.owner /\ k = h.cls

\* The shared cache has no thread: whoever is inside it holds the lock, so two
\* threads without a cache never work on it at once (alloc_shared).
SharedIsLocked ==
    \A t \in Threads :
        at[t] = Shared /\ pc[t] \notin {"lock", "freeCas"} => lock = t

\* What makes them inductive.  A block free in a cache is where its header
\* sends it, once; one that the program has, or a thread is pushing, is in no
\* cache; and there is no fourth place.
Elems(s) == {s[i] : i \in 1 .. Len(s)}
Once(s) == \A i, j \in 1 .. Len(s) : s[i] = s[j] => i = j
Of(c, k) == {b \in Carved : header[b[1]].owner = c /\ header[b[1]].cls = k}

Homes ==
    \A c \in Caches :
        /\ Elems(batch[c]) \subseteq Of(c, batchCls[c])
        /\ \A k \in Classes : Elems(freeList[c][k]) \cup Elems(remote[c][k]) \subseteq Of(c, k)

Apart ==
    \A c \in Caches :
        /\ Once(batch[c])
        /\ \A k \in Classes :
              /\ Once(freeList[c][k]) /\ Once(remote[c][k])
              /\ Elems(freeList[c][k]) \cap Elems(remote[c][k]) = {}
              /\ Elems(batch[c]) \cap (Elems(freeList[c][k]) \cup Elems(remote[c][k])) = {}

Kept(b) ==
    \E c \in Caches :
        b \in Elems(batch[c])
            \/ \E k \in Classes : b \in Elems(freeList[c][k]) \cup Elems(remote[c][k])
Pushing(t, b) == pc[t] = "freeCas" /\ item[t] = b

Accounted ==
    \A b \in Blocks :
        /\ live[b] \in 0 .. 1
        /\ live[b] = 1 => b \in Carved /\ ~Kept(b) /\ \A t \in Threads : ~Pushing(t, b)
        /\ \A t \in Threads : Pushing(t, b) =>
              /\ b \in Of(at[t], cls[t]) /\ ~Kept(b)
              /\ \A u \in Threads : Pushing(u, b) => u = t
        /\ b \in Carved => live[b] = 1 \/ Kept(b) \/ \E t \in Threads : Pushing(t, b)

\* A header is written by the cache that grows, in a chunk nobody has seen.
Headers ==
    /\ \A ch \in Chunks :
          /\ header[ch].chained > 0 => header[ch].owner \in Caches /\ header[ch].cls \in Classes
          /\ cursor < ch /\ ch <= SmallChunks => header[ch] = Virgin
          /\ SmallChunks + bigCursor < ch => header[ch] = Virgin
    /\ \A c \in Caches, k \in Big :
          LET run == bigRun[c][k] IN
          run # None => header[run].owner = c /\ header[run].cls = k

\* A cache is worked on by one thread, and what that thread has read of it
\* still holds when it writes.
Working(t) == pc[t] \in {"pop", "takeBatch", "takeList", "refill", "growBig", "grow"}

Owners ==
    \A t \in Threads :
        /\ slot[t] # None =>
              slot[t] \notin freeIds /\ \A u \in Threads : slot[u] = slot[t] => u = t
        /\ pc[t] = "lock" => at[t] = Shared /\ cls[t] \in Classes
        /\ Working(t) =>
              /\ cls[t] \in Classes /\ at[t] \in Caches
              /\ IF at[t] = Shared THEN lock = t ELSE slot[t] = at[t]

Fresh(t) ==
    LET c == at[t]
        k == cls[t]
    IN
    /\ pc[t] = "takeBatch" =>
          /\ batchCls[c] = k /\ batch[c] # <<>>
          /\ item[t] = Last(batch[c]) /\ rest[t] = Front(batch[c])
    /\ pc[t] = "takeList" =>
          /\ freeList[c][k] # <<>>
          /\ item[t] = Top(freeList[c][k]) /\ rest[t] = Tail(freeList[c][k])
    /\ pc[t] \in {"refill", "growBig", "grow"} => freeList[c][k] = <<>>
    /\ pc[t] = "growBig" => k \in Big
    /\ pc[t] = "freeCas" => item[t] \in Blocks

BlockInv ==
    /\ TypeOK /\ Homes /\ Apart /\ Accounted /\ Headers /\ Owners
    /\ \A t \in Threads : Fresh(t)

Heap == INSTANCE BlockHeap WITH size <- [ch \in Chunks |-> header[ch].cls]

\* What the allocator promises of blocks, whatever its caches do.
ImplementsBlockHeap == Heap!Spec
=============================================================================
