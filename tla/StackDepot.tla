------------------------------ MODULE StackDepot ------------------------------
(***************************************************************************)
(* The depot of call stacks of the checker (sanitizer.cpp: intern_stack and *)
(* pool_reserve).  A stack is stored once and known by the number of its    *)
(* entry; entries are found by hashing and claimed with an exchange, never  *)
(* thrown out.  The frames live in a pool handed out by a cursor, whose     *)
(* chunks are made when they are first reached.  No locks: whoever meets an *)
(* entry being filled goes on to the next.                                  *)
(***************************************************************************)
EXTENDS Integers, FiniteSets

CONSTANTS Interners,   \* threads that allocate
          CallStacks,
          Depth,       \* frames of a stack
          FirstLook,   \* hash_stack: where a stack is looked for first
          DepotSlots,  \* kDepotSlots; number 0 is "no stack"
          DepotProbe,  \* kDepotProbe
          PoolChunk,   \* kPoolChunk: frames in a chunk of the pool
          PoolChunks,  \* kPoolChunks
          MaxInterns   \* bound: calls of intern_stack

Ids == 1 .. DepotSlots - 1
NoRoom == PoolChunk * PoolChunks          \* UINT32_MAX
Frames == 0 .. NoRoom - 1

ASSUME DepotAssumption ==
    /\ DepotSlots \in Nat /\ DepotSlots > 1
    /\ DepotProbe \in Nat \ {0} /\ MaxInterns \in Nat
    /\ PoolChunk \in Nat \ {0} /\ PoolChunks \in Nat
    /\ Depth \in [CallStacks -> 1 .. PoolChunk]
    /\ FirstLook \in [CallStacks -> Ids]
    /\ Interners # {} /\ IsFiniteSet(Interners)

VARIABLES depot,      \* g_depot
          frames,     \* what is written in the pool: <<stack, frame>>, or <<>>
          chunkMade,  \* g_pool: chunks that are there
          chunkMem,   \* chunks the system has given for each
          poolUsed,   \* g_pool_used
          depotFull,  \* g_depot_full
          poolFull,   \* g_pool_full
          interning,      \* where the call of each thread is
          named,      \* history: <<id, stack>> answered
          calls       \* history: calls begun

depotVars == <<depot, frames, chunkMade, chunkMem, poolUsed, depotFull, poolFull,
               interning, named, calls>>

Unclaimed == [state |-> "empty", first |-> 0, n |-> 0, cut |-> FALSE]
AtRest == [step |-> "rest", stack |-> CHOOSE s \in CallStacks : TRUE, id |-> 0, probe |-> 0,
           used |-> 0, start |-> 0]

DepotInit ==
    /\ depot = [i \in Ids |-> Unclaimed]
    /\ frames = [f \in Frames |-> <<>>]
    /\ chunkMade = {} /\ chunkMem = [c \in 0 .. PoolChunks - 1 |-> 0]
    /\ poolUsed = 0 /\ depotFull = 0 /\ poolFull = 0
    /\ interning = [t \in Interners |-> AtRest]
    /\ named = {} /\ calls = 0

pool == <<frames, chunkMade, chunkMem, poolUsed, poolFull>>

\* frames_of and same_stack.
SameStack(e, s) ==
    /\ e.n = Depth[s] /\ e.first \div PoolChunk \in chunkMade
    /\ \A k \in 0 .. e.n - 1 : frames[e.first + k] = <<s, k>>

InternBegin(t, s) ==
    /\ interning[t].step = "rest" /\ calls < MaxInterns
    /\ calls' = calls + 1
    /\ interning' = [interning EXCEPT ![t] =
                  [AtRest EXCEPT !.step = "look", !.stack = s, !.id = FirstLook[s]]]
    /\ UNCHANGED <<depot, pool, depotFull, named>>

\* An entry already there answers the call.
InternFound(t) ==
    LET me == interning[t] IN
    /\ me.step = "look" /\ depot[me.id].state = "ready" /\ SameStack(depot[me.id], me.stack)
    /\ named' = named \cup {<<me.id, me.stack>>}
    /\ interning' = [interning EXCEPT ![t] = AtRest]
    /\ UNCHANGED <<depot, pool, depotFull, calls>>

\* The entry is another's, or is being filled: the next, or none.
InternNext(t) ==
    LET me == interning[t] IN
    /\ me.step = "look"
    /\ \/ depot[me.id].state = "claiming"
       \/ depot[me.id].state = "ready" /\ ~ SameStack(depot[me.id], me.stack)
    /\ IF me.probe + 1 < DepotProbe
         THEN interning' = [interning EXCEPT ![t].id = (@ % (DepotSlots - 1)) + 1,
                                               ![t].probe = @ + 1]
              /\ UNCHANGED depotFull
         ELSE interning' = [interning EXCEPT ![t] = AtRest]
              /\ depotFull' = depotFull + 1
    /\ UNCHANGED <<depot, pool, named, calls>>

InternEmpty(t) ==
    /\ interning[t].step = "look" /\ depot[interning[t].id].state = "empty"
    /\ interning' = [interning EXCEPT ![t].step = "claim"]
    /\ UNCHANGED <<depot, pool, depotFull, named, calls>>

\* The exchange; whoever loses looks at the entry again.  The mutant stores.
ClaimByStore(t) ==
    LET me == interning[t] IN
    /\ me.step = "claim"
    /\ depot' = [depot EXCEPT ![me.id].state = "claiming"]
    /\ interning' = [interning EXCEPT ![t].step = "reserve", ![t].used = poolUsed]
    /\ UNCHANGED <<pool, depotFull, named, calls>>
InternClaim(t) ==
    LET me == interning[t] IN
    /\ me.step = "claim"
    /\ IF depot[me.id].state = "empty"
         THEN /\ depot' = [depot EXCEPT ![me.id].state = "claiming"]
              /\ interning' = [interning EXCEPT ![t].step = "reserve", ![t].used = poolUsed]
         ELSE interning' = [interning EXCEPT ![t].step = "look"] /\ UNCHANGED depot
    /\ UNCHANGED <<pool, depotFull, named, calls>>

-----------------------------------------------------------------------------
(* pool_reserve                                                              *)
\* Where n frames go when the cursor is at used: never across two chunks.
Start(used, n) ==
    IF (used % PoolChunk) + n > PoolChunk THEN (used \div PoolChunk + 1) * PoolChunk ELSE used

NoFrames(t) ==
    /\ poolFull' = poolFull + Depth[interning[t].stack]
    /\ interning' = [interning EXCEPT ![t].step = "write", ![t].start = NoRoom]

PoolReserve(t) ==
    LET me == interning[t]
        n == Depth[me.stack]
        start == Start(me.used, n)
    IN
    /\ me.step = "reserve"
    /\ IF start + n > NoRoom
         THEN NoFrames(t) /\ UNCHANGED poolUsed
         ELSE /\ IF me.used = poolUsed
                   THEN /\ poolUsed' = start + n
                        /\ interning' = [interning EXCEPT ![t].step = "chunk", ![t].start = start]
                   ELSE /\ interning' = [interning EXCEPT ![t].used = poolUsed]
                        /\ UNCHANGED poolUsed
              /\ UNCHANGED poolFull
    /\ UNCHANGED <<depot, frames, chunkMade, chunkMem, depotFull, named, calls>>

ChunkThere(t) ==
    /\ interning[t].step = "chunk" /\ interning[t].start \div PoolChunk \in chunkMade
    /\ interning' = [interning EXCEPT ![t].step = "write"]
    /\ UNCHANGED <<depot, pool, depotFull, named, calls>>

ChunkGranted(t) ==
    LET c == interning[t].start \div PoolChunk IN
    /\ interning[t].step = "chunk" /\ c \notin chunkMade
    /\ chunkMem' = [chunkMem EXCEPT ![c] = @ + 1]
    /\ interning' = [interning EXCEPT ![t].step = "publish"]
    /\ UNCHANGED <<depot, frames, chunkMade, poolUsed, depotFull, poolFull, named, calls>>

ChunkRefused(t) ==
    /\ interning[t].step = "chunk" /\ interning[t].start \div PoolChunk \notin chunkMade
    /\ NoFrames(t)
    /\ UNCHANGED <<depot, frames, chunkMade, chunkMem, poolUsed, depotFull, named, calls>>

\* Whoever loses the exchange frees its chunk and uses the other's.
Blank(c) == [f \in Frames |-> IF f \div PoolChunk = c THEN <<>> ELSE frames[f]]
ChunkPublish(t) ==
    LET c == interning[t].start \div PoolChunk IN
    /\ interning[t].step = "publish"
    /\ IF c \in chunkMade
         THEN chunkMem' = [chunkMem EXCEPT ![c] = @ - 1] /\ UNCHANGED <<chunkMade, frames>>
         ELSE /\ chunkMade' = chunkMade \cup {c} /\ frames' = Blank(c)
              /\ UNCHANGED chunkMem
    /\ interning' = [interning EXCEPT ![t].step = "write"]
    /\ UNCHANGED <<depot, poolUsed, depotFull, poolFull, named, calls>>

-----------------------------------------------------------------------------
\* The frames and the entry, which nobody reads yet ...
InternWrite(t) ==
    LET me == interning[t]
        n == Depth[me.stack]
    IN
    /\ me.step = "write"
    /\ IF me.start # NoRoom
         THEN /\ frames' = [f \in Frames |-> IF f \in me.start .. me.start + n - 1
                                               THEN <<me.stack, f - me.start>> ELSE frames[f]]
              /\ depot' = [depot EXCEPT ![me.id].first = me.start, ![me.id].n = n]
         ELSE /\ depot' = [depot EXCEPT ![me.id].first = 0, ![me.id].n = 0, ![me.id].cut = TRUE]
              /\ UNCHANGED frames
    /\ interning' = [interning EXCEPT ![t].step = "ready"]
    /\ UNCHANGED <<chunkMade, chunkMem, poolUsed, depotFull, poolFull, named, calls>>

\* ... until the state says so.
InternReady(t) ==
    LET me == interning[t] IN
    /\ me.step = "ready"
    /\ depot' = [depot EXCEPT ![me.id].state = "ready"]
    /\ named' = named \cup {<<me.id, me.stack>>}
    /\ interning' = [interning EXCEPT ![t] = AtRest]
    /\ UNCHANGED <<pool, depotFull, calls>>

DepotNext ==
    \E t \in Interners :
        \/ \E s \in CallStacks : InternBegin(t, s)
        \/ InternFound(t) \/ InternNext(t) \/ InternEmpty(t) \/ InternClaim(t)
        \/ PoolReserve(t)
        \/ ChunkThere(t) \/ ChunkGranted(t) \/ ChunkRefused(t) \/ ChunkPublish(t)
        \/ InternWrite(t) \/ InternReady(t)

DepotSpec == DepotInit /\ [][DepotNext]_depotVars

-----------------------------------------------------------------------------
\* A number once answered names its stack for ever, or says that it does not
\* have it: never the function of somebody else ("the one failure a checker
\* cannot have", intern_stack).  It rests on the claim, on the cursor and on
\* one chunk being published.
IdNamesItsStack ==
    \A q \in named :
        LET e == depot[q[1]] IN
        /\ e.state = "ready"
        /\ IF e.n = 0 THEN e.cut ELSE ~ e.cut /\ SameStack(e, q[2])

\* A stack with its frames is stored at most once for each thread, however
\* the calls race: going past an entry being filled costs an entry, and only
\* then.
FewCopies ==
    \A s \in CallStacks :
        Cardinality({i \in Ids : depot[i].state = "ready" /\ depot[i].n > 0
                                 /\ SameStack(depot[i], s)}) <= Cardinality(Interners)

\* A chunk of the pool is made by whoever comes first and nobody's memory is
\* left behind.
OneChunkEach ==
    \A c \in DOMAIN chunkMem :
        chunkMem[c] = (IF c \in chunkMade THEN 1 ELSE 0)
          + Cardinality({t \in Interners : interning[t].step = "publish"
                                           /\ interning[t].start \div PoolChunk = c})

\* The table of stacks under the races of threads that intern at once: numbers
\* name their stacks for ever, copies are few, chunks are made once.
DepotIsTrue == IdNamesItsStack /\ FewCopies /\ OneChunkEach
=============================================================================
