------------------------------- MODULE Guarded -------------------------------
(***************************************************************************)
(* Blocks on pages of their own, the strictest level of the checker         *)
(* (sanitizer.cpp: san_alloc_guarded, guarded_free, san_guarded_size and    *)
(* san_realloc).  A block ends, or begins, at a page nobody may touch; its  *)
(* pages go when it is released and its addresses are never used again.  A  *)
(* table finds a block by its address and an index by any address inside    *)
(* it; both are filled with exchanges and never emptied, and when the table *)
(* refuses too often the level waves allocations through for a while.       *)
(*                                                                         *)
(* Addresses are counted in granules, which are pages here (POSIX).  A      *)
(* request is a number of granules asked for, and of those that rounding    *)
(* puts on the side away from the guard.  An entry only ever fills, so a    *)
(* walk over several of them is one step: the moment of its last access.    *)
(***************************************************************************)
EXTENDS Integers, FiniteSets, FiniteSetsExt

CONSTANTS Askers,      \* threads
          Granules,    \* bound: granules of address space
          Requests,    \* records [user, slack]
          Edges,       \* what g_guard_edge may be: TRUE for Underflow
          GuardSlots,  \* kGuardSlots
          IndexSlots,  \* kIndexSlots
          GuardProbe,  \* kGuardProbe
          GiveUp,      \* kGuardGiveUp
          Retry,       \* kGuardRetry
          MaxAsks,     \* bound: allocations not waved through
          MaxMisuse    \* bound: releases of what has been released

Space == 0 .. Granules - 1
Nowhere == -1                  \* no address, no slot
GuardIds == 0 .. GuardSlots - 1
IndexIds == 0 .. IndexSlots - 1

ASSUME GuardedAssumption ==
    /\ Granules \in Nat /\ Edges \subseteq BOOLEAN
    /\ Requests \subseteq [user : Nat \ {0}, slack : Nat]
    /\ GuardSlots \in Nat \ {0} /\ IndexSlots \in Nat \ {0}
    /\ GuardProbe \in 1 .. GuardSlots /\ GuardProbe <= IndexSlots
    /\ GiveUp \in Nat \ {0} /\ Retry \in Nat /\ MaxAsks \in Nat /\ MaxMisuse \in Nat

VARIABLES under,     \* g_guard_edge, read when the process starts
          table,     \* g_guarded
          gindex,    \* g_gindex: the slot a granule was placed for, or Nowhere
          pages,     \* of each granule: "free", "reserved" or "committed"
          misses,    \* g_guard_misses
          skip,      \* g_guard_skip
          ledger,    \* g_guard_blocks, g_guard_frees and g_guard_full
          call,     \* where the call of each thread is
          inHand,      \* addresses of the guarded blocks the program holds
          partial,   \* history: slots some granule of which is not in the index
          told,      \* history: kinds of releases called "released twice"
          foreign,   \* history: kinds of release that were not recognised
          asks,      \* history: allocations that got to the system
          waved,     \* history: those waved through since one was not
          misuses    \* history: releases of released blocks

guardVars == <<under, table, gindex, pages, misses, skip, ledger, call, inHand, partial, told,
               foreign, asks, waved, misuses>>

NoEntry == [p |-> Nowhere, base |-> Nowhere, user |-> 0, slack |-> 0, state |-> "never"]
Resting == [step |-> "rest", base |-> Nowhere, user |-> 0, slack |-> 0, slot |-> Nowhere,
            granule |-> Nowhere, old |-> Nowhere, kind |-> "lawful"]

GuardedInit ==
    /\ under \in Edges
    /\ table = [i \in GuardIds |-> NoEntry]
    /\ gindex = [i \in IndexIds |-> Nowhere]
    /\ pages = [g \in Space |-> "free"]
    /\ misses = 0 /\ skip = 0 /\ ledger = [blocks |-> 0, frees |-> 0, full |-> 0]
    /\ call = [t \in Askers |-> Resting]
    /\ inHand = {} /\ partial = {} /\ told = {} /\ foreign = {}
    /\ asks = 0 /\ waved = 0 /\ misuses = 0

\* The pages of a block that may be touched, and its address.
Data(e) == LET from == IF under THEN e.base + 1 ELSE e.base
           IN from .. from + e.user + e.slack - 1
All(e) == e.base .. e.base + e.user + e.slack
Address(e) == IF under THEN e.base + 1 ELSE e.base + e.slack
Bytes(e) == Address(e) .. Address(e) + e.user - 1

-----------------------------------------------------------------------------
(* The table and the index                                                   *)
\* The slots looked at for an address, and for a granule.
TableProbes(p) == [k \in 1 .. GuardProbe |-> (p + k - 1) % GuardSlots]
IndexProbes(g) == [k \in 1 .. GuardProbe |-> (g + k - 1) % IndexSlots]

\* The first of them that will do.
First(probes, good) ==
    LET fit == {k \in 1 .. GuardProbe : probes[k] \in good}
    IN IF fit = {} THEN Nowhere ELSE probes[Min(fit)]

\* guard_find: it stops at the first slot never used.
GuardFind(p) ==
    LET i == First(TableProbes(p), {j \in GuardIds : table[j].p \in {p, Nowhere}})
    IN IF i # Nowhere /\ table[i].p = p THEN i ELSE Nowhere

\* guard_locate: an entry counts only if the address is in what was asked for.
GuardLocate(q) ==
    LET i == First(IndexProbes(q),
                   {j \in IndexIds : gindex[j] = Nowhere \/ q \in Bytes(table[gindex[j]])})
    IN IF i # Nowhere THEN gindex[i] ELSE Nowhere

Entry(q) == IF GuardFind(q) # Nowhere THEN GuardFind(q) ELSE GuardLocate(q)

\* san_guarded_size: what is left from there.
GuardedSize(q) ==
    LET i == Entry(q) IN
    IF i = Nowhere \/ table[i].state # "alive" THEN 0
    ELSE Address(table[i]) + table[i].user - q

-----------------------------------------------------------------------------
(* san_alloc_guarded, by itself or for a block being resized                 *)
\* The call is over: without a block of its own, the allocator serves one, or
\* does not, and then the block being resized is still good.
Plainly(t, good) ==
    LET me == call[t] IN
    IF me.old = Nowhere THEN call' = [call EXCEPT ![t] = Resting] /\ UNCHANGED inHand
    ELSE IF good
    THEN call' = [call EXCEPT ![t] = [Resting EXCEPT !.step = "judge", !.slot = me.old]]
         /\ UNCHANGED inHand
    ELSE call' = [call EXCEPT ![t] = Resting] /\ inHand' = inHand \cup {table[me.old].p}

Wanting(r, old) ==
    [Resting EXCEPT !.step = "ask", !.user = r.user, !.slack = r.slack, !.old = old]

GuardAsk(t, r) ==
    /\ call[t] = Resting
    /\ call' = [call EXCEPT ![t] = Wanting(r, Nowhere)]
    /\ UNCHANGED <<under, table, gindex, pages, misses, skip, ledger, inHand, partial, told,
                   foreign, asks, waved, misuses>>

\* Waved through, while the level has stepped back.  The mutant never comes
\* back: it does not count.
WaveForEver(t, good) ==
    /\ call[t].step = "ask" /\ skip # 0
    /\ waved' = waved + 1
    /\ ledger' = [ledger EXCEPT !.full = @ + 1]
    /\ Plainly(t, good)
    /\ UNCHANGED <<under, table, gindex, pages, misses, skip, partial, told, foreign, asks,
                   misuses>>
WaveThrough(t, good) ==
    /\ call[t].step = "ask" /\ skip # 0
    /\ skip' = skip - 1 /\ waved' = waved + 1
    /\ ledger' = [ledger EXCEPT !.full = @ + 1]
    /\ Plainly(t, good)
    /\ UNCHANGED <<under, table, gindex, pages, misses, partial, told, foreign, asks, misuses>>

\* os_reserve and os_commit, of a range the system chooses ...
GuardReserve(t, b) ==
    LET e == [call[t] EXCEPT !.base = b, !.step = "insert"] IN
    /\ call[t].step = "ask" /\ skip = 0 /\ asks < MaxAsks
    /\ \A g \in All(e) : g \in Space /\ pages[g] = "free"
    /\ pages' = [g \in Space |-> IF g \in Data(e) THEN "committed"
                                 ELSE IF g \in All(e) THEN "reserved" ELSE pages[g]]
    /\ call' = [call EXCEPT ![t] = e]
    /\ asks' = asks + 1 /\ waved' = 0
    /\ UNCHANGED <<under, table, gindex, misses, skip, ledger, inHand, partial, told, foreign,
                   misuses>>

\* ... or refuses.
GuardRefused(t, good) ==
    /\ call[t].step = "ask" /\ skip = 0 /\ asks < MaxAsks
    /\ asks' = asks + 1 /\ waved' = 0
    /\ Plainly(t, good)
    /\ UNCHANGED <<under, table, gindex, pages, misses, skip, ledger, partial, told, foreign,
                   misuses>>

\* guard_insert: an exchange in the first slot nobody has.
GuardInsert(t) ==
    LET me == call[t]
        p == Address(me)
        i == First(TableProbes(p), {j \in GuardIds : table[j].p = Nowhere})
    IN
    /\ me.step = "insert"
    /\ IF i # Nowhere
         THEN /\ table' = [table EXCEPT ![i].p = p]
              /\ call' = [call EXCEPT ![t].step = "fields", ![t].slot = i]
              /\ UNCHANGED <<under, misses, ledger>>
         ELSE /\ ledger' = [ledger EXCEPT !.full = @ + 1]
              /\ misses' = misses + 1
              /\ call' = [call EXCEPT ![t].step = IF misses + 1 >= GiveUp THEN "calm" ELSE "undo"]
              /\ UNCHANGED table
    /\ UNCHANGED <<under, gindex, pages, skip, inHand, partial, told, foreign, asks, waved,
                   misuses>>

\* Too many refusals: the count starts again ...
GuardCalm(t) ==
    /\ call[t].step = "calm"
    /\ misses' = 0
    /\ call' = [call EXCEPT ![t].step = "back"]
    /\ UNCHANGED <<under, table, gindex, pages, skip, ledger, inHand, partial, told, foreign,
                   asks, waved, misuses>>

\* ... and the level steps back.
StepBack(t) ==
    /\ call[t].step = "back"
    /\ skip' = Retry
    /\ call' = [call EXCEPT ![t].step = "undo"]
    /\ UNCHANGED <<under, table, gindex, pages, misses, ledger, inHand, partial, told, foreign,
                   asks, waved, misuses>>

GuardUndo(t, good) ==
    /\ call[t].step = "undo"
    /\ pages' = [g \in Space |-> IF g \in All(call[t]) THEN "free" ELSE pages[g]]
    /\ Plainly(t, good)
    /\ UNCHANGED <<under, table, gindex, misses, skip, ledger, partial, told, foreign, asks,
                   waved, misuses>>

\* The entry, with the count of refusals back at zero.
GuardFields(t) ==
    LET me == call[t] IN
    /\ me.step = "fields"
    /\ misses' = 0
    /\ table' = [table EXCEPT ![me.slot] = [@ EXCEPT !.base = me.base, !.user = me.user,
                                                     !.slack = me.slack]]
    /\ call' = [call EXCEPT ![t].step = "index", ![t].granule = me.base]
    /\ UNCHANGED <<under, gindex, pages, skip, ledger, inHand, partial, told, foreign, asks,
                   waved, misuses>>

\* index_insert, granule by granule; one that finds no room ends it.
GuardIndex(t) ==
    LET me == call[t]
        i == First(IndexProbes(me.granule), {j \in IndexIds : gindex[j] = Nowhere})
    IN
    /\ me.step = "index"
    /\ IF i # Nowhere
         THEN /\ gindex' = [gindex EXCEPT ![i] = me.slot]
              /\ call' = [call EXCEPT
                     ![t].step = IF me.granule + 1 \in All(me) THEN "index" ELSE "born",
                     ![t].granule = @ + 1]
              /\ UNCHANGED partial
         ELSE /\ partial' = partial \cup {me.slot}
              /\ call' = [call EXCEPT ![t].step = "born"]
              /\ UNCHANGED gindex
    /\ UNCHANGED <<under, table, pages, misses, skip, ledger, inHand, told, foreign, asks,
                   waved, misuses>>

\* The block is alive and leaves; for a resize the old one is released now.
GuardBorn(t) ==
    LET me == call[t] IN
    /\ me.step = "born"
    /\ table' = [table EXCEPT ![me.slot].state = "alive"]
    /\ ledger' = [ledger EXCEPT !.blocks = @ + 1]
    /\ inHand' = inHand \cup {table[me.slot].p}
    /\ call' = [call EXCEPT ![t] = IF me.old = Nowhere THEN Resting
                                     ELSE [Resting EXCEPT !.step = "judge", !.slot = me.old]]
    /\ UNCHANGED <<under, gindex, pages, misses, skip, partial, told, foreign, asks, waved,
                   misuses>>

-----------------------------------------------------------------------------
(* guarded_free and san_realloc                                              *)
\* A release, from any address inside the block the program holds.
ReleaseFind(t, p, q) ==
    LET i == GuardFind(p) IN
    /\ call[t] = Resting /\ p \in inHand
    /\ i # Nowhere /\ q \in Bytes(table[i])
    /\ inHand' = inHand \ {p}
    /\ IF Entry(q) = Nowhere
         THEN /\ foreign' = foreign \cup {IF i \in partial /\ q # p THEN "partial" ELSE "lawful"}
              /\ UNCHANGED call
         ELSE /\ call' = [call EXCEPT ![t] = [Resting EXCEPT !.step = "judge", !.slot = Entry(q)]]
              /\ UNCHANGED foreign
    /\ UNCHANGED <<under, table, gindex, pages, misses, skip, ledger, partial, told, asks,
                   waved, misuses>>

\* And one of a block that has been released, or is being so.
ReleaseAgain(t, i) ==
    /\ call[t] = Resting /\ misuses < MaxMisuse
    /\ table[i].state # "never" /\ table[i].p \notin inHand
    /\ \A u \in Askers : call[u].old # i
    /\ misuses' = misuses + 1
    /\ call' = [call EXCEPT ![t] = [Resting EXCEPT
                     !.step = "judge", !.slot = GuardFind(table[i].p),
                     !.kind = IF table[i].state = "freed" THEN "late" ELSE "racing"]]
    /\ UNCHANGED <<under, table, gindex, pages, misses, skip, ledger, inHand, partial, told,
                   foreign, asks, waved>>

\* A released block is told of, and nothing is done to it.  The mutant goes on.
JudgeBlind(t) ==
    /\ call[t].step = "judge"
    /\ call' = [call EXCEPT ![t].step = "drop"]
    /\ UNCHANGED <<under, table, gindex, pages, misses, skip, ledger, inHand, partial, told,
                   foreign, asks, waved, misuses>>
Judge(t) ==
    LET me == call[t] IN
    /\ me.step = "judge"
    /\ IF table[me.slot].state = "freed"
         THEN told' = told \cup {me.kind} /\ call' = [call EXCEPT ![t] = Resting]
         ELSE call' = [call EXCEPT ![t].step = "drop"] /\ UNCHANGED told
    /\ UNCHANGED <<under, table, gindex, pages, misses, skip, ledger, inHand, partial, foreign,
                   asks, waved, misuses>>

ReleaseDrop(t) ==
    /\ call[t].step = "drop"
    /\ table' = [table EXCEPT ![call[t].slot].state = "freed"]
    /\ ledger' = [ledger EXCEPT !.frees = @ + 1]
    /\ call' = [call EXCEPT ![t].step = "decommit"]
    /\ UNCHANGED <<under, gindex, pages, misses, skip, inHand, partial, told, foreign, asks,
                   waved, misuses>>

\* The pages go, the range stays.  The mutant forgets on
\* which side the guard is.
FromBase(e) == [g \in Space |-> IF g \in e.base .. e.base + e.user + e.slack - 1
                                THEN "reserved" ELSE pages[g]]
Decommitted(e) == [g \in Space |-> IF g \in Data(e) THEN "reserved" ELSE pages[g]]

ReleaseDecommit(t) ==
    /\ call[t].step = "decommit"
    /\ pages' = Decommitted(table[call[t].slot])
    /\ call' = [call EXCEPT ![t] = Resting]
    /\ UNCHANGED <<under, table, gindex, misses, skip, ledger, inHand, partial, told, foreign,
                   asks, waved, misuses>>

\* A block never shrinks, and grows by moving.
ResizeMove(t, p, r) ==
    LET i == GuardFind(p) IN
    /\ call[t] = Resting /\ p \in inHand
    /\ table[i].state = "alive" /\ r.user > table[i].user
    /\ inHand' = inHand \ {p}
    /\ call' = [call EXCEPT ![t] = Wanting(r, i)]
    /\ UNCHANGED <<under, table, gindex, pages, misses, skip, ledger, partial, told, foreign,
                   asks, waved, misuses>>

GuardedNext ==
    \E t \in Askers :
        \/ \E r \in Requests : GuardAsk(t, r)
        \/ \E good \in BOOLEAN :
              WaveThrough(t, good) \/ GuardRefused(t, good) \/ GuardUndo(t, good)
        \/ \E b \in Space : GuardReserve(t, b)
        \/ GuardInsert(t) \/ GuardCalm(t) \/ StepBack(t)
        \/ GuardFields(t) \/ GuardIndex(t) \/ GuardBorn(t)
        \/ \E p, q \in Space : ReleaseFind(t, p, q)
        \/ \E i \in GuardIds : ReleaseAgain(t, i)
        \/ Judge(t) \/ ReleaseDrop(t) \/ ReleaseDecommit(t)
        \/ \E p \in Space, r \in Requests : ResizeMove(t, p, r)

GuardedSpec == GuardedInit /\ [][GuardedNext]_guardVars

-----------------------------------------------------------------------------
\* A block the program holds has all its pages and the one at its edge that
\* faults, it is the only one there, and its size is known from any address in
\* it unless the index had no room ("the allocator answers those for anything
\* it got from the system").
HeldIsWhole ==
    \A p \in inHand :
        LET i == GuardFind(p)
            e == table[i]
        IN
        /\ i # Nowhere /\ e.state = "alive"
        /\ \A g \in Bytes(e) : pages[g] = "committed"
        /\ pages[IF under THEN p - 1 ELSE p + e.user] = "reserved"
        /\ \A q \in Bytes(e) : q = p \/ i \notin partial => GuardedSize(q) = p + e.user - q

\* A block that has been released faults wherever it is touched, for ever: its
\* pages are gone and its addresses are nobody else's.
ReleasedFaults ==
    \A i \in GuardIds :
        LET e == table[i] IN
        e.state = "freed" /\ (\A t \in Askers : call[t].slot # i) =>
            /\ \A g \in All(e) : pages[g] = "reserved"
            /\ \A q \in Bytes(e) : GuardedSize(q) = 0

\* A lawful release, from whatever address inside, is recognised, and nobody is
\* told of a second one where there was none, whatever other threads allocate,
\* release or resize; a release begun after another was done is always told.
VerdictsAreTrue ==
    /\ "lawful" \notin foreign /\ (told # {} => misuses > 0)
    /\ \A t \in Askers : call[t].kind = "late" => call[t].step = "judge"

\* An address in the index leads to its own block or to none: the level does
\* not answer for the guard page, the slack or a neighbour.
LocatesItsOwn ==
    \A q \in Space : GuardLocate(q) # Nowhere => q \in Bytes(table[GuardLocate(q)])

\* Stepping back is not a closed door: threads that step back at once do so
\* once each, and one allocation in so many asks the system again.
ComesBack == waved <= Retry * Cardinality(Askers)

\* From the allocation of a guarded block to long after its release, what the
\* pages do and what the table and the index answer agree.
GuardedIsWhole == HeldIsWhole /\ ReleasedFaults /\ LocatesItsOwn
=============================================================================
