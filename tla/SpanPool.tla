------------------------------ MODULE SpanPool ------------------------------
(***************************************************************************)
(* Spans of whole chunks (src/src/alloc/host_allocator.cpp: alloc_span,    *)
(* free_span, the pool, span_sweep, and host_realloc growing a span where  *)
(* it is).                                                                 *)
(*                                                                         *)
(* A span freed stays in its thread's cache if there is room; else it is   *)
(* parked on a lock-free stack of its size, while the bytes parked stay     *)
(* under a ceiling; else it merges with the free spans on its right and     *)
(* goes to the free lists, under g_span_lock.  An allocation looks in the   *)
(* same three places and then takes new chunks from the region.             *)
(*                                                                         *)
(* A span is its first chunk; a push or pop of a stack is one step here,    *)
(* which SpanStack shows it is.  Work done under the lock and read nowhere   *)
(* else is one step; the loops that absorb neighbours are not.              *)
(***************************************************************************)
EXTENDS Integers, Sequences, FiniteSetsExt

CONSTANTS Threads,
          HasCache,     \* threads with a ThreadCache
          Setups,       \* values of VESTA_ALLOC_SPAN_POLICY looked at, each with
                        \* a bound: who grows spans, and who trims
          Region,       \* chunks in the region
          MaxSpan,      \* kMaxSpanChunks
          MaxWant,      \* bound: chunks a request may need
          CacheSlots,   \* kSpanCacheSlots
          CacheMax,     \* kSpanCacheBytes, in chunks
          RecycleMin,   \* kSpanRecycleMin, in chunks
          Share,        \* the ceiling is at least a Share-th of the cursor
          CursorBound,  \* bound: how far the cursor is followed past the end
          None

Chunks == 1 .. Region

ASSUME PoolAssumption ==
    /\ HasCache \subseteq Threads
    /\ Setups \subseteq [policy : {"locked", "hybrid", "deferred"},
                         grow : SUBSET Threads, trim : SUBSET Threads]
    /\ {Region, MaxSpan, Share} \subseteq Nat \ {0}
    /\ {MaxWant, CacheSlots, CacheMax, RecycleMin, CursorBound} \subseteq Nat
    /\ CacheSlots <= MaxSpan
    /\ None \notin Threads \cup Chunks

VARIABLES setup,    \* of Setups; the policy is fixed when the library is built
          cursor,   \* g_chunk_next
          len,      \* ChunkHeader::cls of a span
          magic,    \* chunks whose header has kSpanMagic
          free,     \* those with extra = kSpanFree
          map,      \* g_free_span_map
          list,     \* g_span_free, by length
          cache,    \* ThreadCache::span_cache, by length
          cached,   \* ThreadCache::span_cache_bytes
          parked,   \* g_span_recycle, by length
          bytes,    \* g_recycle_bytes
          sweeping, \* g_sweeping: who sweeps for the deferred policy
          lock,     \* g_span_lock
          live,     \* chunks the program has of each span, as it asked for them
          lost,     \* (history) chunks taken from the cursor and never used again
          pc,       \* where each thread is
          cur,      \* the span it works on
          want,     \* chunks it wants, or the ceiling it parks under
          class,    \* while it sweeps: where it is in the lists,
          node      \* and the span it has in hand

pool == <<len, magic, free, map, list>>
tiers == <<cache, cached, parked, bytes>>
local == <<pc, cur, want, class, node>>
vars == <<setup, cursor, pool, tiers, sweeping, lock, live, lost, local>>

Init ==
    /\ setup \in Setups
    /\ cursor = 0
    /\ len = [h \in Chunks |-> 0]
    /\ magic = {} /\ free = {} /\ map = {}
    /\ list = [k \in 1 .. MaxSpan |-> <<>>]
    /\ cache = [t \in HasCache |-> [k \in 1 .. CacheSlots |-> <<>>]]
    /\ cached = [t \in HasCache |-> 0]
    /\ parked = [k \in 1 .. MaxSpan |-> <<>>]
    /\ bytes = 0
    /\ sweeping = None
    /\ lock = None
    /\ live = [h \in Chunks |-> 0]
    /\ lost = {}
    /\ pc = [t \in Threads |-> "idle"]
    /\ cur = [t \in Threads |-> None]
    /\ want = [t \in Threads |-> 0]
    /\ class = [t \in Threads |-> 0]
    /\ node = [t \in Threads |-> None]

-----------------------------------------------------------------------------
(* The free lists. *)
\* list_remove: the neighbours of h in its list are linked to each other.
Without(s, h) ==
    IF h \in Range(s)
      THEN LET i == CHOOSE i \in DOMAIN s : s[i] = h
           IN SubSeq(s, 1, i - 1) \o SubSeq(s, i + 1, Len(s))
      ELSE s

policy == setup.policy
Parking == policy # "locked"
Ceiling == IF cursor \div Share > RecycleMin THEN cursor \div Share ELSE RecycleMin

\* is_marked_free, then is_free_span, of the chunk after the span.
HasRight(h) == h + len[h] \in map \cap magic \cap free

\* Mutant of Absorb: the neighbour stays in its list.
AbsorbListed(h) ==
    LET r == h + len[h] IN
    /\ free' = free \ {r}
    /\ map' = map \ {r}
    /\ magic' = magic \ {r}
    /\ len' = [len EXCEPT ![h] = @ + len[r]]
    /\ UNCHANGED list

\* One turn of the loops of coalesce_right and try_extend_span: the neighbour
\* leaves its list (list_remove) and becomes the tail of h.
Absorb(h) ==
    LET r == h + len[h] IN
    /\ list' = [list EXCEPT ![len[r]] = Without(@, r)]
    /\ free' = free \ {r}
    /\ map' = map \ {r}
    /\ magic' = magic \ {r}
    /\ len' = [len EXCEPT ![h] = @ + len[r]]

\* list_insert.
Insert(h) ==
    /\ list' = [list EXCEPT ![len[h]] = <<h>> \o @]
    /\ free' = free \cup {h}
    /\ map' = map \cup {h}
    /\ UNCHANGED <<len, magic>>

\* split_span, of a span that is in no list but the one its head leaves now: the
\* rest becomes a span and is listed.  from is the list without h.
Split(h, n, from) ==
    LET rest == len[h] - n
        r == h + n
    IN IF rest = 0
         THEN /\ list' = from
              /\ free' = free \ {h}
              /\ map' = map \ {h}
              /\ UNCHANGED <<len, magic>>
         ELSE /\ list' = [from EXCEPT ![rest] = <<r>> \o @]
              /\ free' = (free \ {h}) \cup {r}
              /\ map' = (map \ {h}) \cup {r}
              /\ magic' = magic \cup {r}
              /\ len' = [len EXCEPT ![h] = n, ![r] = rest]

Go(t, step, h, n) ==
    /\ pc' = [pc EXCEPT ![t] = step]
    /\ cur' = [cur EXCEPT ![t] = h]
    /\ want' = [want EXCEPT ![t] = n]
    /\ UNCHANGED <<class, node>>
Idle(t) == Go(t, "idle", None, 0)
Step(t, step) == Go(t, step, cur[t], want[t])
Walk(t, step, k, h) ==
    /\ pc' = [pc EXCEPT ![t] = step]
    /\ class' = [class EXCEPT ![t] = k]
    /\ node' = [node EXCEPT ![t] = h]
    /\ UNCHANGED <<cur, want>>

-----------------------------------------------------------------------------
(* alloc_span. *)

\* The thread's own cache; a size kept there and present needs no more.
AllocCached(t, n) ==
    /\ pc[t] = "idle"
    /\ t \in HasCache /\ n <= CacheSlots
    /\ cache[t][n] # <<>>
    /\ cache' = [cache EXCEPT ![t][n] = Tail(@)]
    /\ cached' = [cached EXCEPT ![t] = @ - n]
    /\ live' = [live EXCEPT ![Head(cache[t][n])] = @ + n]
    /\ UNCHANGED <<cursor, pool, parked, bytes, sweeping, lock, lost, local>>

\* A size above MaxSpan comes here when the system had no memory of its own for
\* it (alloc_direct), and goes straight to the cursor.
AllocBegin(t, n) ==
    /\ pc[t] = "idle"
    /\ ~(t \in HasCache /\ n <= CacheSlots /\ cache[t][n] # <<>>)
    /\ Go(t, IF n > MaxSpan THEN "fresh" ELSE IF Parking THEN "unpark" ELSE "take", None, n)
    /\ UNCHANGED <<cursor, pool, tiers, sweeping, lock, live, lost>>

\* recycle_take: pops, and only then takes its bytes off the count.
Unpark(t) ==
    LET n == want[t] IN
    /\ pc[t] = "unpark"
    /\ IF parked[n] = <<>>
         THEN Step(t, "take") /\ UNCHANGED parked
         ELSE /\ parked' = [parked EXCEPT ![n] = Tail(@)]
              /\ Go(t, "uncount", Head(parked[n]), n)
    /\ UNCHANGED <<cursor, pool, cache, cached, bytes, sweeping, lock, live, lost>>

Uncount(t) ==
    /\ pc[t] = "uncount"
    /\ bytes' = bytes - want[t]
    /\ live' = [live EXCEPT ![cur[t]] = @ + want[t]]
    /\ Idle(t)
    /\ UNCHANGED <<cursor, pool, cache, cached, parked, sweeping, lock, lost>>

\* take_from_free_lists: the smallest that is long enough, cut to size.
Take(t) ==
    /\ pc[t] = "take"
    /\ lock = None
    /\ \E k \in want[t] .. MaxSpan :
          /\ list[k] # <<>>
          /\ \A j \in want[t] .. k - 1 : list[j] = <<>>
          /\ Split(Head(list[k]), want[t], [list EXCEPT ![k] = Tail(@)])
          /\ live' = [live EXCEPT ![Head(list[k])] = @ + want[t]]
    /\ Idle(t)
    /\ UNCHANGED <<cursor, tiers, sweeping, lock, lost>>

TakeNone(t) ==
    /\ pc[t] = "take"
    /\ lock = None
    /\ \A k \in want[t] .. MaxSpan : list[k] = <<>>
    /\ Step(t, "fresh")
    /\ UNCHANGED <<cursor, pool, tiers, sweeping, lock, live, lost>>

\* take_chunks: what does not fit is refused, but the room left is an unsigned
\* difference, which wraps when the cursor is past the end.
Fits(n) == cursor + n <= Region \/ cursor > Region

TakeChunks(t) ==
    /\ pc[t] = "fresh"
    /\ IF Fits(want[t]) /\ cursor + want[t] <= CursorBound
         THEN /\ cursor' = cursor + want[t]
              /\ Go(t, "commit", cursor + 1, want[t])
         ELSE Idle(t) /\ UNCHANGED cursor
    /\ UNCHANGED <<pool, tiers, sweeping, lock, live, lost>>

Stretch(h, n) == (h .. h + n - 1) \cap Chunks

\* os_commit of the new chunks, which may refuse and does outside the region.
Commit(t) ==
    LET h == cur[t] IN
    /\ pc[t] = "commit"
    /\ h + want[t] - 1 <= Region
    /\ magic' = magic \cup {h}
    /\ len' = [len EXCEPT ![h] = want[t]]
    /\ live' = [live EXCEPT ![h] = @ + want[t]]
    /\ Idle(t)
    /\ UNCHANGED <<cursor, free, map, list, tiers, sweeping, lock, lost>>

CommitRefused(t) ==
    /\ pc[t] = "commit"
    /\ lost' = lost \cup Stretch(cur[t], want[t])
    /\ Idle(t)
    /\ UNCHANGED <<cursor, pool, tiers, sweeping, lock, live>>

-----------------------------------------------------------------------------
(* free_span. *)
InProgram(h) == live[h] > 0 /\ \A t \in Threads : cur[t] # h
\* Mutant of RoomInCache: the room is looked at before the span is added.
RoomBefore(t, h) == t \in HasCache /\ len[h] <= CacheSlots /\ cached[t] <= CacheMax
RoomInCache(t, h) ==
    t \in HasCache /\ len[h] <= CacheSlots /\ cached[t] + len[h] <= CacheMax

FreeCached(t, h) ==
    /\ pc[t] = "idle"
    /\ InProgram(h)
    /\ RoomInCache(t, h)
    /\ live' = [live EXCEPT ![h] = 0]
    /\ cache' = [cache EXCEPT ![t][len[h]] = <<h>> \o @]
    /\ cached' = [cached EXCEPT ![t] = @ + len[h]]
    /\ UNCHANGED <<cursor, pool, parked, bytes, sweeping, lock, lost, local>>

\* recycle_park works the ceiling out once, from the cursor it sees.
FreeBegin(t, h) ==
    /\ pc[t] = "idle"
    /\ InProgram(h)
    /\ ~RoomInCache(t, h)
    /\ live' = [live EXCEPT ![h] = 0]
    /\ IF Parking /\ len[h] <= MaxSpan
         THEN Go(t, "park", h, Ceiling)
         ELSE Go(t, "return", h, 0)
    /\ UNCHANGED <<cursor, pool, tiers, sweeping, lock, lost>>

\* Over the ceiling with this span; the mutant does not add it.
OverBefore(t) == bytes > want[t]
Over(t) == bytes + len[cur[t]] > want[t]

\* The exchange that reserves the bytes, before the span is pushed.
Reserve(t) ==
    /\ pc[t] = "park"
    /\ ~Over(t)
    /\ bytes' = bytes + len[cur[t]]
    /\ Step(t, "push")
    /\ UNCHANGED <<cursor, pool, cache, cached, parked, sweeping, lock, live, lost>>

Push(t) ==
    /\ pc[t] = "push"
    /\ parked' = [parked EXCEPT ![len[cur[t]]] = <<cur[t]>> \o @]
    /\ Idle(t)
    /\ UNCHANGED <<cursor, pool, cache, cached, bytes, sweeping, lock, live, lost>>

\* Over the ceiling: to the lists, or, deferred, somebody sweeps first and the
\* count is read again (once: a second refusal gives up).
Refused(t) ==
    /\ pc[t] = "park" /\ Over(t)
    /\ \/ /\ policy = "hybrid"
          /\ Step(t, "return") /\ UNCHANGED sweeping
       \/ /\ policy = "deferred" /\ sweeping = None
          /\ sweeping' = t
          /\ Walk(t, "sweep", 1, None)
       \/ /\ policy = "deferred" /\ sweeping # None
          /\ Step(t, "again") /\ UNCHANGED sweeping
    /\ UNCHANGED <<cursor, pool, tiers, lock, live, lost>>

Again(t) ==
    /\ pc[t] = "again"
    /\ Step(t, IF Over(t) THEN "return" ELSE "park")
    /\ UNCHANGED <<cursor, pool, tiers, sweeping, lock, live, lost>>
\* pool_return_locked: the neighbours to the right, while the sum is a length
\* the lists have; then to its list.  One too long for them gives its memory
\* back to the system and its range is not used again.
CanMerge(h) == HasRight(h) /\ len[h] + len[h + len[h]] <= MaxSpan

Return(t) ==
    /\ pc[t] = "return"
    /\ lock = None
    /\ lock' = t
    /\ Step(t, "coalesce")
    /\ UNCHANGED <<cursor, pool, tiers, sweeping, live, lost>>

Coalesce(t) ==
    /\ pc[t] = "coalesce"
    /\ CanMerge(cur[t])
    /\ Absorb(cur[t])
    /\ UNCHANGED <<cursor, tiers, sweeping, lock, live, lost, local>>

Relist(t) ==
    LET h == cur[t] IN
    /\ pc[t] = "coalesce"
    /\ ~CanMerge(h)
    /\ IF len[h] > MaxSpan
         THEN /\ magic' = magic \ {h}
              /\ lost' = lost \cup (h .. h + len[h] - 1)
              /\ UNCHANGED <<len, free, map, list>>
         ELSE Insert(h) /\ UNCHANGED lost
    /\ lock' = None
    /\ Idle(t)
    /\ UNCHANGED <<cursor, tiers, sweeping, live>>

-----------------------------------------------------------------------------
(* span_sweep, for host_span_trim or for recycle_park: empties the stacks   *)
(* into the lists, then merges until no pass finds anything to merge.       *)
Trim(t) ==
    /\ pc[t] = "idle" /\ Parking /\ t \in setup.trim
    /\ Walk(t, "sweep", 1, None)
    /\ UNCHANGED <<cursor, pool, tiers, sweeping, lock, live, lost>>

SweepPop(t) ==
    LET k == class[t] IN
    /\ pc[t] = "sweep"
    /\ IF k > MaxSpan
         THEN Walk(t, "merge", 1, None) /\ UNCHANGED parked
         ELSE IF parked[k] = <<>>
           THEN Walk(t, "sweep", k + 1, None) /\ UNCHANGED parked
           ELSE /\ parked' = [parked EXCEPT ![k] = Tail(@)]
                /\ Walk(t, "sweepUncount", k, Head(parked[k]))
    /\ UNCHANGED <<cursor, pool, cache, cached, bytes, sweeping, lock, live, lost>>

SweepUncount(t) ==
    /\ pc[t] = "sweepUncount"
    /\ bytes' = bytes - class[t]
    /\ Walk(t, "sweepInsert", class[t], node[t])
    /\ UNCHANGED <<cursor, pool, cache, cached, parked, sweeping, lock, live, lost>>

SweepInsert(t) ==
    /\ pc[t] = "sweepInsert"
    /\ lock = None
    /\ Insert(node[t])
    /\ Walk(t, "sweep", class[t], None)
    /\ UNCHANGED <<cursor, tiers, sweeping, lock, live, lost>>

\* The first of the list that can merge; without one, the next list.
MergePick(t) ==
    LET k == class[t] IN
    /\ pc[t] = "merge" /\ k <= MaxSpan
    /\ lock = None
    /\ LET able == {i \in 1 .. Len(list[k]) : CanMerge(list[k][i])} IN
       IF able = {}
         THEN Walk(t, "merge", k + 1, None) /\ UNCHANGED lock
         ELSE \E i \in able :
                /\ \A j \in able : i <= j
                /\ Walk(t, "mergeAbsorb", k, list[k][i])
                /\ lock' = t
    /\ UNCHANGED <<cursor, pool, tiers, sweeping, live, lost>>

MergeAbsorb(t) ==
    /\ pc[t] = "mergeAbsorb"
    /\ CanMerge(node[t])
    /\ Absorb(node[t])
    /\ UNCHANGED <<cursor, tiers, sweeping, lock, live, lost, local>>

\* The list a merged span is still in: that of the length it had when picked.
\* The mutant looks at the length it has now.
ListedNow(t) == len[node[t]]
ListedAt(t) == class[t]

\* list_remove under the length it was listed with, list_insert under the new
\* one, and from the first list again.
MergeRelist(t) ==
    LET h == node[t] IN
    /\ pc[t] = "mergeAbsorb"
    /\ ~CanMerge(h)
    /\ list' = [[list EXCEPT ![ListedAt(t)] = Without(@, h)] EXCEPT ![len[h]] = <<h>> \o @]
    /\ lock' = None
    /\ Walk(t, "merge", 1, None)
    /\ UNCHANGED <<cursor, len, magic, free, map, tiers, sweeping, live, lost>>

SweepEnd(t) ==
    /\ pc[t] = "merge" /\ class[t] > MaxSpan
    /\ IF sweeping = t
         THEN sweeping' = None /\ Walk(t, "again", 0, None)
         ELSE UNCHANGED sweeping /\ Walk(t, "idle", 0, None)
    /\ UNCHANGED <<cursor, pool, tiers, lock, live, lost>>

-----------------------------------------------------------------------------
(* host_realloc of a span that has to grow: try_extend_span. *)
ExtendBegin(t, h, n) ==
    /\ pc[t] = "idle"
    /\ InProgram(h)
    /\ len[h] < n /\ t \in setup.grow
    /\ lock = None
    /\ lock' = t
    /\ Go(t, "extend", h, n)
    /\ UNCHANGED <<cursor, pool, tiers, sweeping, live, lost>>

ExtendAbsorb(t) ==
    /\ pc[t] = "extend"
    /\ len[cur[t]] < want[t] /\ HasRight(cur[t])
    /\ Absorb(cur[t])
    /\ UNCHANGED <<cursor, tiers, sweeping, lock, live, lost, local>>

\* The neighbours were enough: what is over goes back to the lists.
ExtendDone(t) ==
    /\ pc[t] = "extend"
    /\ len[cur[t]] >= want[t]
    /\ Split(cur[t], want[t], list)
    /\ live' = [live EXCEPT ![cur[t]] = want[t]]
    /\ lock' = None
    /\ Idle(t)
    /\ UNCHANGED <<cursor, tiers, sweeping, lost>>

\* The cursor is right after the span; the mutant does not look.
Anywhere(h) == TRUE
AtCursor(h) == cursor = h + len[h] - 1

\* The span is the last one taken: the cursor moves, and only then is the end
\* of the region looked at.  Otherwise the program's data is copied elsewhere,
\* with AllocBegin and FreeBegin, and the span keeps what it absorbed.
ExtendCursor(t) ==
    LET h == cur[t]
        next == h + len[h] - 1
        last == h + want[t] - 1
    IN
    /\ pc[t] = "extend"
    /\ len[h] < want[t] /\ ~HasRight(h)
    /\ IF ~AtCursor(h)
         THEN Idle(t) /\ UNCHANGED <<cursor, lost>>
         ELSE /\ cursor' = last
              /\ IF last > Region
                   THEN Idle(t) /\ lost' = lost \cup (next + 1 .. Region)
                   ELSE Step(t, "extendCommit") /\ UNCHANGED lost
    /\ lock' = None
    /\ UNCHANGED <<pool, tiers, sweeping, live>>

\* os_commit with the lock released, then the new length.
ExtendCommit(t) ==
    /\ pc[t] = "extendCommit"
    /\ len' = [len EXCEPT ![cur[t]] = want[t]]
    /\ live' = [live EXCEPT ![cur[t]] = want[t]]
    /\ Idle(t)
    /\ UNCHANGED <<cursor, magic, free, map, list, tiers, sweeping, lock, lost>>

ExtendRefused(t) ==
    LET h == cur[t] IN
    /\ pc[t] = "extendCommit"
    /\ lost' = lost \cup (h + len[h] .. h + want[t] - 1)
    /\ Idle(t)
    /\ UNCHANGED <<cursor, pool, tiers, sweeping, lock, live>>

-----------------------------------------------------------------------------
Allocate(t) ==
    \/ Unpark(t) \/ Uncount(t) \/ Take(t) \/ TakeNone(t)
    \/ TakeChunks(t) \/ Commit(t) \/ CommitRefused(t)

Release(t) ==
    \/ Reserve(t) \/ Push(t) \/ Refused(t) \/ Again(t)
    \/ Return(t) \/ Coalesce(t) \/ Relist(t)

Sweep(t) ==
    \/ SweepPop(t) \/ SweepUncount(t) \/ SweepInsert(t)
    \/ MergePick(t) \/ MergeAbsorb(t) \/ MergeRelist(t) \/ SweepEnd(t)

Extend(t) ==
    \/ ExtendAbsorb(t) \/ ExtendDone(t) \/ ExtendCursor(t)
    \/ ExtendCommit(t) \/ ExtendRefused(t)

Next ==
    /\ \E t \in Threads :
        \/ \E n \in 1 .. MaxWant : AllocCached(t, n) \/ AllocBegin(t, n)
        \/ \E h \in Chunks : FreeCached(t, h) \/ FreeBegin(t, h)
        \/ \E h \in Chunks, n \in 1 .. MaxWant : ExtendBegin(t, h, n)
        \/ Trim(t)
        \/ Allocate(t) \/ Release(t) \/ Sweep(t) \/ Extend(t)
    /\ UNCHANGED setup

Spec == Init /\ [][Next]_vars

-----------------------------------------------------------------------------
Steps == {"idle", "unpark", "uncount", "take", "fresh", "commit", "park", "push", "again",
          "return", "coalesce", "sweep", "sweepUncount", "sweepInsert", "merge",
          "mergeAbsorb", "extend", "extendCommit"}
Row == Seq(Chunks)

\* The shape of the state; the bytes a cache keeps stay within its room.
TypeOK ==
    /\ setup \in Setups /\ cursor \in Nat
    /\ len \in [Chunks -> 0 .. Region]
    /\ magic \subseteq Chunks /\ free \subseteq Chunks /\ map \subseteq Chunks
    /\ list \in [1 .. MaxSpan -> Row] /\ parked \in [1 .. MaxSpan -> Row]
    /\ cache \in [HasCache -> [1 .. CacheSlots -> Row]]
    /\ cached \in [HasCache -> 0 .. CacheMax]
    /\ bytes \in Nat
    /\ {sweeping, lock} \subseteq Threads \cup {None}
    /\ live \in [Chunks -> Nat] /\ lost \subseteq Chunks
    /\ pc \in [Threads -> Steps]
    /\ cur \in [Threads -> Nat \cup {None}]
    /\ want \in [Threads -> Nat]
    /\ class \in [Threads -> 0 .. MaxSpan + 1]
    /\ node \in [Threads -> Chunks \cup {None}]

\* Everything that holds chunks: the program, the tiers, threads half-way
\* through a step, and the history of what was lost.
Span(in, of, k, i, h, n) == [in |-> in, of |-> of, place |-> <<k, i>>, first |-> h, size |-> n]
Rows(in, of, f, K) ==
    UNION {{Span(in, of, k, i, f[k][i], len[f[k][i]]) : i \in 1 .. Len(f[k])} : k \in K}

Listed == Rows("list", None, list, 1 .. MaxSpan)
Parked == Rows("parked", None, parked, 1 .. MaxSpan)
Cached == UNION {Rows("cache", t, cache[t], 1 .. CacheSlots) : t \in HasCache}
Freeing ==
    {Span("freeing", t, 0, 0, cur[t], len[cur[t]]) :
        t \in {u \in Threads :
                /\ cur[u] # None
                /\ \/ class[u] > 0
                   \/ pc[u] \in {"park", "again", "return", "coalesce"}}}
Moving(step) ==
    {Span(step, t, 0, 0, cur[t], len[cur[t]]) : t \in {u \in Threads : pc[u] = step}}
Swept(step) ==
    {Span(step, t, 0, 0, node[t], len[node[t]]) : t \in {u \in Threads : pc[u] = step}}
Fresh ==
    {Span("commit", t, 0, 0, cur[t], want[t]) : t \in {u \in Threads : pc[u] = "commit"}}
    \cup {Span("tail", t, 0, 0, cur[t] + len[cur[t]], want[t] - len[cur[t]]) :
            t \in {u \in Threads : pc[u] = "extendCommit"}}

Holdings ==
    {Span("live", None, 0, 0, h, len[h]) : h \in {g \in Chunks : live[g] > 0}}
    \cup {Span("lost", None, 0, 0, c, 1) : c \in lost}
    \cup Listed \cup Parked \cup Cached \cup Freeing \cup Fresh
    \cup Moving("uncount") \cup Moving("push")
    \cup Swept("sweepUncount") \cup Swept("sweepInsert")

Covers(x, c) == x.first <= c /\ c < x.first + x.size

\* Every chunk taken from the region is in exactly one span and in one place,
\* whatever is split, merged, parked, swept or extended: two spans never
\* overlap, and no chunk falls between them.
Tiling ==
    \A c \in Chunks :
        Cardinality({x \in Holdings : Covers(x, c)}) = IF c <= cursor THEN 1 ELSE 0

\* What a neighbour is judged by agrees with the lists: a chunk is marked in
\* the map, and its header says free, exactly while it heads a listed span, and
\* a span is in the list of its length (but for the one being merged).
ListsAgree ==
    LET heads == {x.first : x \in Listed}
    IN /\ map = heads /\ free = heads /\ heads \subseteq magic
       /\ \A k \in 1 .. MaxSpan : \A i \in 1 .. Len(list[k]) :
                \/ len[list[k][i]] = k
                \/ \E t \in Threads :
                      pc[t] = "mergeAbsorb" /\ list[k][i] = node[t] /\ k = class[t]

\* The count of parked bytes is what is parked, plus what was reserved and is
\* not pushed yet, plus what was popped and is not taken off yet: it never goes
\* below what the stacks hold, so the ceiling is a ceiling.
CountIsExact ==
    /\ LET counted == Parked \cup Moving("push") \cup Moving("uncount") \cup Swept("sweepUncount")
       IN bytes = MapThenSumSet(LAMBDA x : x.size, counted)
    /\ bytes <= Ceiling

\* The cursor only moves when what is taken fits in the region (the comment of
\* take_chunks).
CursorInRegion == cursor <= Region

Heap == INSTANCE SpanHeap WITH out <- {<<h, live[h]>> : h \in {g \in Chunks : live[g] > 0}}

\* What the pool promises of the spans it hands out.
ImplementsSpanHeap == Heap!Spec
=============================================================================
