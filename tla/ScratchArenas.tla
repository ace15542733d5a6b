----------------------------- MODULE ScratchArenas -----------------------------
(***************************************************************************)
(* Arenas for the memory of one phase (scratch_arena.h and .cpp).  A thread *)
(* gets an arena the first time it asks and keeps it; an arena is a chain   *)
(* of blocks that fill from the first on, and going back to a mark makes    *)
(* what came after it free again at once, blocks included.  A thread the    *)
(* system has no memory for works in the first arena, whose owner does not  *)
(* know.  Sizes have the width of size_t.                                   *)
(***************************************************************************)
EXTENDS Integers, Sequences, FiniteSets, Functions

CONSTANTS Workers,     \* threads
          Prepared,    \* kMaxArenaThreads
          Bits,        \* 64: the width of a size
          HeaderSize,  \* sizeof(Block)
          FirstBlock,  \* kFirstBlock
          MaxBlock,    \* kMaxBlock
          ScratchAsks, \* <<size, alignment>> of what is asked for
          MaxScratch,  \* bound: allocations and marks
          MaxBlocks,   \* bound: blocks of an arena
          MaxDepth     \* bound: marks one inside another

\* What a size is multiplied by when it is doubled k times; sizes are modulo Width.
Power[k \in Nat] == IF k = 0 THEN 1 ELSE 2 * Power[k - 1]
Width == Power[Bits]

ASSUME ScratchAssumption ==
    /\ Prepared \in Nat \ {0} /\ Bits \in Nat /\ HeaderSize \in Nat \ {0}
    /\ MaxBlock \in Nat /\ MaxBlock < Width /\ FirstBlock \in HeaderSize + 1 .. MaxBlock
    /\ ScratchAsks \subseteq (Nat \ {0}) \X (Nat \ {0})
    /\ MaxScratch \in Nat /\ MaxBlocks \in Nat /\ MaxDepth \in Nat

VARIABLES nextArena,  \* g_next_arena
          arenaOf,    \* g_arena_slot: by thread
          chain,      \* by arena: its blocks, [size, used]
          current,    \* current_: a place of that chain, 0 for a null pointer
          want,       \* the call of allocate a thread is in
          scopes,     \* by arena and thread: marks the program has to go back to
          lent,       \* by arena and thread: what it holds, [block, from, to, depth]
          sharing,    \* threads handed the first arena for want of memory
          astray,     \* history: arenas shared, or that served a need gone round
          scratches   \* history: allocations and marks

callVars == <<nextArena, arenaOf, sharing>>
scratchVars == <<callVars, chain, current, want, scopes, lent, astray, scratches>>

\* Prepared ones, and (a bound on the asks) as many more as there are threads.
Arenas == 1 .. Prepared + Cardinality(Workers)
Unasked == [step |-> "out", n |-> 0, align |-> 1, more |-> FALSE]

ScratchInit ==
    /\ nextArena = 0
    /\ arenaOf = [t \in Workers |-> 0]
    /\ chain = [a \in Arenas |-> <<>>] /\ current = [a \in Arenas |-> 0]
    /\ want = [t \in Workers |-> Unasked]
    /\ scopes = [a \in Arenas |-> [t \in Workers |-> <<>>]]
    /\ lent = [a \in Arenas |-> [t \in Workers |-> {}]]
    /\ sharing = {} /\ astray = {} /\ scratches = 0

\* The arena a thread was last handed: its own, or the first.
Using(t) == IF arenaOf[t] # 0 THEN arenaOf[t] ELSE IF t \in sharing THEN 1 ELSE 0

-----------------------------------------------------------------------------
(* scratch_arena()                                                           *)
ArenaAsk(t) ==
    /\ arenaOf[t] = 0 /\ want[t].step = "out" /\ nextArena < Cardinality(Arenas)
    /\ nextArena' = nextArena + 1
    /\ IF nextArena < Prepared
         THEN arenaOf' = [arenaOf EXCEPT ![t] = nextArena + 1] /\ UNCHANGED want
         ELSE want' = [want EXCEPT ![t].step = "arena", ![t].n = nextArena + 1]
              /\ UNCHANGED arenaOf
    /\ UNCHANGED <<chain, current, scopes, lent, sharing, astray, scratches>>

\* Later threads get one from the system, or the first of all, which is another's,
\* to work in until they ask again.
ArenaGranted(t) ==
    /\ want[t].step = "arena"
    /\ arenaOf' = [arenaOf EXCEPT ![t] = want[t].n]
    /\ want' = [want EXCEPT ![t] = Unasked]
    /\ UNCHANGED <<nextArena, chain, current, scopes, lent, sharing, astray, scratches>>
ArenaRefused(t) ==
    /\ want[t].step = "arena"
    /\ sharing' = sharing \cup {t} /\ astray' = astray \cup {1}
    /\ want' = [want EXCEPT ![t] = Unasked]
    /\ UNCHANGED <<nextArena, arenaOf, chain, current, scopes, lent, scratches>>

-----------------------------------------------------------------------------
(* ScratchArena, by the thread it was handed to                               *)
\* From the start of its block, where what comes next is aligned.
UpTo(x, align) == ((x + align - 1) \div align) * align
Offset(used, align) == UpTo(HeaderSize + used, align) - HeaderSize

ScratchAsk(t, n, align) ==
    /\ Using(t) # 0 /\ want[t].step = "out" /\ scratches < MaxScratch
    /\ scratches' = scratches + 1
    /\ want' = [want EXCEPT ![t] = [Unasked EXCEPT !.step = "look", !.n = n, !.align = align]]
    /\ UNCHANGED <<callVars, chain, current, scopes, lent, astray>>

\* At the width of a size what is needed goes round, and may seem to fit.
GoesRound(b, n, align) == Offset(b.used, align) + n >= Width
Need(b, n, align) == (Offset(b.used, align) + n) % Width
FitsBlock(a, me) ==
    current[a] # 0 /\ Need(chain[a][current[a]], me.n, me.align) <= chain[a][current[a]].size

ScratchServe(t) ==
    LET a == Using(t)
        me == want[t]
        b == chain[a][current[a]]
        from == Offset(b.used, me.align)
    IN
    /\ me.step = "look" /\ FitsBlock(a, me)
    /\ chain' = [chain EXCEPT ![a][current[a]].used = Need(b, me.n, me.align)]
    /\ lent' = [lent EXCEPT ![a][t] =
           @ \cup {[block |-> current[a], from |-> from, to |-> from + me.n,
                    depth |-> Len(scopes[a][t])]}]
    /\ astray' = IF GoesRound(b, me.n, me.align) THEN astray \cup {a} ELSE astray
    /\ want' = [want EXCEPT ![t] = Unasked]
    /\ UNCHANGED <<callVars, current, scopes, scratches>>

\* The next block of the chain, which starts empty.
ScratchSkip(t) ==
    LET a == Using(t) IN
    /\ want[t].step = "look" /\ current[a] # 0 /\ ~ FitsBlock(a, want[t])
    /\ current[a] < Len(chain[a])
    /\ current' = [current EXCEPT ![a] = @ + 1]
    /\ chain' = [chain EXCEPT ![a][current[a] + 1].used = 0]
    /\ UNCHANGED <<callVars, want, scopes, lent, astray, scratches>>

\* add_block: twice the last, at most MaxBlock, and doubled until it is enough.
\* At zero it is never enough.
Doublings(size, least) == {k \in 0 .. Bits : (size * Power[k]) % Width >= least}
Grown(size, n, align) ==
    LET ks == Doublings(size, (n + align + HeaderSize) % Width)
    IN IF ks = {} THEN 0 ELSE (size * Power[CHOOSE k \in ks : \A j \in ks : k <= j]) % Width

FirstSize(a) ==
    LET twice == ((chain[a][current[a]].size + HeaderSize) * 2) % Width IN
    IF current[a] = 0 THEN FirstBlock ELSE IF twice > MaxBlock THEN MaxBlock ELSE twice

NoBlockAfter(t) ==
    LET a == Using(t) IN
    /\ want[t].step = "look" /\ ~ FitsBlock(a, want[t]) /\ current[a] = Len(chain[a])
    /\ Len(chain[a]) < MaxBlocks

\* No system maps half of all the addresses there are.
ScratchAdd(t) ==
    LET a == Using(t)
        size == Grown(FirstSize(a), want[t].n, want[t].align)
    IN
    /\ NoBlockAfter(t) /\ size # 0 /\ 2 * size < Width
    /\ chain' = [chain EXCEPT ![a] = Append(@, [size |-> size - HeaderSize, used |-> 0])]
    /\ current' = [current EXCEPT ![a] = Len(chain[a]) + 1]
    /\ want' = [want EXCEPT ![t].more = TRUE]
    /\ UNCHANGED <<callVars, scopes, lent, astray, scratches>>
ScratchRefused(t) ==
    /\ NoBlockAfter(t)
    /\ Grown(FirstSize(Using(t)), want[t].n, want[t].align) # 0
    /\ want' = [want EXCEPT ![t] = Unasked]
    /\ UNCHANGED <<callVars, chain, current, scopes, lent, astray, scratches>>

\* Doubling goes round the width and the loop does not end.
ScratchStuck(t) ==
    /\ NoBlockAfter(t)
    /\ Grown(FirstSize(Using(t)), want[t].n, want[t].align) = 0
    /\ want' = [want EXCEPT ![t].step = "stuck"]
    /\ UNCHANGED <<callVars, chain, current, scopes, lent, astray, scratches>>

\* mark().
ScopeOpen(t) ==
    LET a == Using(t) IN
    /\ a # 0 /\ want[t].step = "out" /\ Len(scopes[a][t]) < MaxDepth
    /\ scratches < MaxScratch /\ scratches' = scratches + 1
    /\ scopes' = [scopes EXCEPT ![a][t] = Append(@,
           [block |-> current[a], used |-> IF current[a] = 0 THEN 0
                                           ELSE chain[a][current[a]].used])]
    /\ UNCHANGED <<callVars, chain, current, want, lent, astray>>

\* release(m): the blocks behind the mark are empty again, all of them if there
\* was none.  The mutant empties the whole chain.
ChainReset(a, m) == [i \in DOMAIN chain[a] |-> [chain[a][i] EXCEPT !.used = 0]]
ChainAt(a, m) ==
    [i \in DOMAIN chain[a] |->
        IF i > m.block THEN [chain[a][i] EXCEPT !.used = 0]
        ELSE IF i = m.block THEN [chain[a][i] EXCEPT !.used = m.used]
        ELSE chain[a][i]]
\* A mark is gone back to in the arena it was taken in.
ScopeClose(t, a) ==
    LET m == scopes[a][t][Len(scopes[a][t])] IN
    /\ want[t].step = "out" /\ scopes[a][t] # <<>>
    /\ chain' = [chain EXCEPT ![a] = ChainAt(a, m)]
    /\ current' = [current EXCEPT ![a] =
           IF m.block # 0 THEN m.block ELSE IF chain[a] = <<>> THEN 0 ELSE 1]
    /\ scopes' = [scopes EXCEPT ![a][t] = SubSeq(@, 1, Len(@) - 1)]
    /\ lent' = [lent EXCEPT ![a][t] = {x \in @ : x.depth < Len(scopes[a][t])}]
    /\ UNCHANGED <<callVars, want, astray, scratches>>

ScratchNext ==
    \E t \in Workers :
        \/ ArenaAsk(t) \/ ArenaGranted(t) \/ ArenaRefused(t)
        \/ \E ask \in ScratchAsks : ScratchAsk(t, ask[1], ask[2])
        \/ ScratchServe(t) \/ ScratchSkip(t) \/ ScratchAdd(t) \/ ScratchRefused(t)
        \/ ScratchStuck(t)
        \/ ScopeOpen(t)
        \/ \E a \in Arenas : ScopeClose(t, a)

ScratchSpec == ScratchInit /\ [][ScratchNext]_scratchVars

-----------------------------------------------------------------------------
\* What a phase holds stays where it is, inside its block, apart from what
\* anybody else holds, until ITS mark is gone back to: "two nested phases do
\* not step on each other" (scratch_arena.h); unless the arena was handed to a
\* thread the system refused one, or served a size that went round.
LentOf(a) == UNION {lent[a][t] : t \in Workers}
LentApart ==
    \A a \in Arenas \ astray :
        /\ \A x \in LentOf(a) : x.from < x.to /\ x.to <= chain[a][x.block].used
                               /\ chain[a][x.block].used <= chain[a][x.block].size
        /\ \A x, y \in LentOf(a) :
              x.block = y.block /\ x # y => x.to <= y.from \/ y.to <= x.from

\* A request that needs a block of its own gets one in which it fits: no call
\* adds two blocks, and none goes on for ever, unless what it asks for, with its
\* alignment and the header, is more than half of all the memory there can be.
OneBlockIsEnough ==
    \A t \in Workers :
        want[t].n + want[t].align + HeaderSize <= Width \div 2 /\ Using(t) \notin astray =>
            /\ want[t].step = "look" /\ want[t].more => FitsBlock(Using(t), want[t])
            /\ want[t].step # "stuck"

\* "Each thread gets its own", and keeps it (scratch_arena.h), however many there
\* are: two threads work in one arena only if it is the first and one of them
\* was refused; and nothing else hands an arena to two, or spoils one.
ArenaIsOwn ==
    /\ \A t, u \in Workers :
          t # u /\ Using(t) # 0 /\ Using(t) = Using(u) =>
              Using(t) = 1 /\ (t \in sharing \/ u \in sharing)
    /\ \A a \in Arenas \ astray, t \in Workers :
          Using(t) # a => scopes[a][t] = <<>> /\ lent[a][t] = {}

\* What a phase borrowed is its own until its mark is gone back to, in an arena
\* of its thread, out of a block made long enough.
ScratchIsOwn == LentApart /\ OneBlockIsEnough /\ ArenaIsOwn
=============================================================================
