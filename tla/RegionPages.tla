------------------------------ MODULE RegionPages ------------------------------
(***************************************************************************)
(* Pages near an address (host_allocator.cpp: host_alloc_pages and what it  *)
(* calls; os_memory.cpp: os_alloc_near on POSIX).  When the address lies in *)
(* the big region the pages come from its cursor, which only goes up; when  *)
(* it does not, or they are too far or there are none, the system is asked  *)
(* for one place after another around it.  Addresses count pages; anchors   *)
(* and the window count bytes, and an anchor need not begin a page.         *)
(***************************************************************************)
EXTENDS Integers, FiniteSets, FiniteSetsExt

CONSTANTS Placers,    \* threads
          Word,       \* 2^64: integers of the code are modulo this
          Land,       \* bound: addresses there are, from 1
          PageBytes,  \* os_page_size()
          Base, End,  \* g_big_base and g_big_end
          BigChunk,   \* kBigChunkBytes
          Anchors,    \* what pages are wanted near to, in bytes; 0 is null
          Reach,      \* the window, in bytes
          Wanted,     \* pages of a request
          MaxPlaces   \* bound: requests

ASSUME PagesAssumption ==
    /\ Land \in Nat /\ Word \in Nat /\ Land < Word
    /\ Base \in 1 .. Land /\ End \in Base .. Land + 1
    /\ BigChunk \in Nat \ {0} /\ PageBytes \in Nat \ {0}
    /\ Reach \in Nat /\ MaxPlaces \in Nat
    /\ Anchors \subseteq Nat /\ Wanted \subseteq Nat

VARIABLES bigNext,   \* g_big_next
          world,     \* of each address: "free", "reserved" or "mapped"
          wish,      \* where the call of each thread is
          granted,   \* what the program has: [at, n, near, placed]
          returned,  \* history: addresses of the region dealt and given back
          execFar,   \* g_exec_far
          served,    \* history: where the last chunks the region dealt end
          misfit,    \* history: chunks have been asked for that did not fit
          places     \* history: requests

dealVars == <<served, misfit>>
pageVars == <<bigNext, world, wish, granted, returned, execFar, places, dealVars>>

Lands == 1 .. Land
InRegion(a) == a \in Base .. End - 1
NoWish == [step |-> "none", n |-> 0, near |-> 0, at |-> 0, got |-> 0, probe |-> 0]
Span(a, n) == a .. a + n - 1
Dist(a, b) == IF a > b THEN a - b ELSE b - a
PageOf(near) == near \div PageBytes
\* From the first byte of a page to the anchor itself.
Far(page, near) == Dist(page * PageBytes, near)

PagesInit ==
    /\ bigNext = 0
    /\ world = [a \in Lands |-> IF InRegion(a) THEN "reserved" ELSE "free"]
    /\ wish = [t \in Placers |-> NoWish]
    /\ granted = {} /\ returned = {} /\ execFar = 0 /\ places = 0
    /\ served = Base /\ misfit = FALSE

Turned(range, state) == [a \in Lands |-> IF a \in range THEN state ELSE world[a]]

\* host_alloc_pages: from the region if the anchor is there; and
\* host_alloc_pages_in_region, from there or not at all.
AskPages(t, n, near) ==
    /\ wish[t] = NoWish /\ places < MaxPlaces
    /\ places' = places + 1
    /\ wish' = [wish EXCEPT ![t] = [NoWish EXCEPT
                    !.step = IF InRegion(PageOf(near)) THEN "take" ELSE "search",
                    !.n = n, !.near = near]]
    /\ UNCHANGED <<bigNext, world, granted, returned, execFar, dealVars>>
AskInRegion(t, n) ==
    /\ wish[t] = NoWish /\ places < MaxPlaces
    /\ places' = places + 1
    /\ wish' = [wish EXCEPT ![t] = [NoWish EXCEPT !.step = "take", !.n = n]]
    /\ UNCHANGED <<bigNext, world, granted, returned, execFar, dealVars>>

Chunks(n) == (n + BigChunk - 1) \div BigChunk

\* The region had none to give.
NoneHere(t) ==
    IF wish[t].near = 0 THEN wish' = [wish EXCEPT ![t] = NoWish] /\ UNCHANGED execFar
    ELSE wish' = [wish EXCEPT ![t] = [@ EXCEPT !.step = "search", !.at = 0]]
         /\ execFar' = execFar + 1

\* take_big_chunks.
FitsRegion(addr, chunks) == (addr + chunks * BigChunk) % Word <= End

TakeBig(t) ==
    LET chunks == Chunks(wish[t].n)
        addr == (Base + bigNext * BigChunk) % Word
    IN
    /\ wish[t].step = "take"
    /\ bigNext' = (bigNext + chunks) % Word
    /\ IF FitsRegion(addr, chunks)
         THEN wish' = [wish EXCEPT ![t].step = "commit", ![t].at = addr,
                                   ![t].got = chunks * BigChunk]
              /\ served' = addr + chunks * BigChunk
              /\ UNCHANGED <<execFar, misfit>>
         ELSE NoneHere(t) /\ misfit' = TRUE /\ UNCHANGED served
    /\ UNCHANGED <<world, granted, returned, places>>

Grant(t, near, placed) ==
    /\ granted' = granted \cup {[at |-> wish[t].at, n |-> wish[t].n, near |-> near,
                                 placed |-> placed]}
    /\ wish' = [wish EXCEPT ![t] = NoWish]

\* The system can only commit what there is.
CommitPages(t) ==
    LET me == wish[t] IN
    /\ me.step = "commit" /\ Span(me.at, me.got) \subseteq Lands
    /\ world' = Turned(Span(me.at, me.got), "mapped")
    /\ IF me.near = 0 THEN Grant(t, 0, FALSE)
       ELSE IF Far(me.at, me.near) <= Reach THEN Grant(t, me.near, TRUE)
       ELSE wish' = [wish EXCEPT ![t].step = "too far"] /\ UNCHANGED granted
    /\ UNCHANGED <<bigNext, returned, execFar, places, dealVars>>

\* Chunks the system does not commit, or that are too far, are given back and
\* nobody's for ever.
CommitRefused(t) ==
    /\ wish[t].step = "commit"
    /\ returned' = returned \cup Span(wish[t].at, wish[t].got)
    /\ NoneHere(t)
    /\ UNCHANGED <<bigNext, world, granted, places, dealVars>>

TooFar(t) ==
    /\ wish[t].step = "too far"
    /\ world' = Turned(Span(wish[t].at, wish[t].got), "reserved")
    /\ returned' = returned \cup Span(wish[t].at, wish[t].got)
    /\ NoneHere(t)
    /\ UNCHANGED <<bigNext, granted, places, dealVars>>

-----------------------------------------------------------------------------
(* os_alloc_near                                                             *)
\* The places it tries: above and below the page of the anchor, further and
\* further; at no distance the two are one.
Stride == IF Reach \div 16 < PageBytes THEN PageBytes ELSE Reach \div 16
ProbeAt(near, k) ==
    LET base == PageOf(near) * PageBytes
        off == (k \div 2) * Stride
    IN
    IF k % 2 = 0 THEN base + off ELSE IF base > off THEN base - off ELSE 0
LastProbe == 2 * (Reach \div Stride) + 1

FreeFor(n) == {a \in Lands : \A b \in Span(a, n) : b \in Lands /\ world[b] = "free"}

\* The system gives the place asked for if it is free and another if not.
MapPages(t, a) ==
    LET me == wish[t]
        at == ProbeAt(me.near, me.probe)
        hint == at \div PageBytes
    IN
    /\ me.step = "search" /\ me.at = 0
    /\ me.near # 0 => me.probe <= LastProbe /\ at # 0
    /\ a \in FreeFor(me.n) /\ (me.near # 0 /\ hint \in FreeFor(me.n) => a = hint)
    /\ world' = Turned(Span(a, me.n), "mapped")
    /\ wish' = [wish EXCEPT ![t].at = a]
    /\ UNCHANGED <<bigNext, granted, returned, execFar, places, dealVars>>

NextProbe(me) == [me EXCEPT !.at = 0, !.probe = IF @ = 0 /\ me.at # 0 THEN 2 ELSE @ + 1]

\* No place there: the next.  Without an anchor there is no next.
MapRefused(t) ==
    LET me == wish[t] IN
    /\ me.step = "search" /\ me.at = 0
    /\ wish' = [wish EXCEPT ![t] =
                   IF me.near = 0 \/ me.probe > LastProbe THEN NoWish ELSE NextProbe(me)]
    /\ UNCHANGED <<bigNext, world, granted, returned, execFar, places, dealVars>>

\* os_alloc_near measures from the page of the anchor.
InWindow(me) == Far(me.at, PageOf(me.near) * PageBytes) <= Reach

\* Near enough, and kept; host_alloc_pages measures anew, from the anchor ...
KeepPages(t) ==
    LET me == wish[t] IN
    /\ me.step = "search" /\ me.at # 0
    /\ me.near # 0 => InWindow(me)
    /\ Grant(t, me.near, me.near # 0 /\ Far(me.at, me.near) <= Reach)
    /\ UNCHANGED <<bigNext, world, returned, execFar, places, dealVars>>

\* ... or not, and returned.  The mutant forgets to.
ForgetPages(t) ==
    LET me == wish[t] IN
    /\ me.step = "search" /\ me.at # 0 /\ me.near # 0 /\ ~ InWindow(me)
    /\ wish' = [wish EXCEPT ![t] = NextProbe(me)]
    /\ UNCHANGED <<bigNext, world, granted, returned, execFar, places, dealVars>>
UnmapPages(t) ==
    LET me == wish[t] IN
    /\ me.step = "search" /\ me.at # 0 /\ me.near # 0 /\ ~ InWindow(me)
    /\ world' = Turned(Span(me.at, me.n), "free")
    /\ wish' = [wish EXCEPT ![t] = NextProbe(me)]
    /\ UNCHANGED <<bigNext, granted, returned, execFar, places, dealVars>>

\* host_free_pages: the chunks of the region stay reserved, those of the system
\* go.
FreeTaken(g) ==
    IF InRegion(g.at) THEN Turned(Span(g.at, Chunks(g.n) * BigChunk), "reserved")
    ELSE Turned(Span(g.at, g.n), "free")
FreePages(g) ==
    /\ g \in granted
    /\ granted' = granted \ {g}
    /\ world' = FreeTaken(g)
    /\ returned' = IF InRegion(g.at) THEN returned \cup Span(g.at, Chunks(g.n) * BigChunk)
                   ELSE returned
    /\ UNCHANGED <<bigNext, wish, execFar, places, dealVars>>

PagesNext ==
    \/ \E t \in Placers :
          \/ \E n \in Wanted : AskInRegion(t, n) \/ \E near \in Anchors : AskPages(t, n, near)
          \/ TakeBig(t) \/ CommitPages(t) \/ CommitRefused(t) \/ TooFar(t)
          \/ \E a \in Lands : MapPages(t, a)
          \/ MapRefused(t) \/ KeepPages(t) \/ UnmapPages(t)
    \/ \E g \in granted : FreePages(g)

PagesSpec == PagesInit /\ [][PagesNext]_pageVars

-----------------------------------------------------------------------------
Extent(at, n) == Span(at, IF InRegion(at) THEN Chunks(n) * BigChunk ELSE n)
InFlight(t) ==
    IF wish[t].step = "too far" \/ (wish[t].step = "search" /\ wish[t].at # 0)
      THEN Extent(wish[t].at, wish[t].n) ELSE {}

\* Nobody's pages are another's: not those of the program, not those a thread
\* is about to return for being too far, and none of the region twice.
PagesApart ==
    /\ \A g, h \in granted : g # h => Extent(g.at, g.n) \cap Extent(h.at, h.n) = {}
    /\ \A g \in granted, t \in Placers : Extent(g.at, g.n) \cap InFlight(t) = {}
    /\ \A g \in granted : Extent(g.at, g.n) \cap returned = {}

\* And the other way round: a page that is mapped is in somebody's hands,
\* however many places were tried, so a search leaves nothing behind.
NoPageForgotten ==
    {a \in Lands : world[a] = "mapped"} =
        UNION ({Extent(g.at, g.n) : g \in granted} \cup {InFlight(t) : t \in Placers})

\* `placed' says whether the pages are in the window, to the byte; those the
\* system gives near an anchor inside a page are past it by less than a page at
\* most, and those of the region not at all.
Told(at, near, placed) ==
    near # 0 => /\ placed <=> Far(at, near) <= Reach
                /\ Far(at, near) < Reach + PageBytes
PlacedIsNear == \A g \in granted : Told(g.at, g.near, g.placed)

\* What the region has dealt is somebody's, or was given back, without a gap and
\* without going past its end.  What is left is for others until a request
\* does not fit: from then on it is nobody's, since the cursor has passed it.
DealtTo(a) ==
    \/ \E g \in granted : a \in Extent(g.at, g.n)
    \/ \E t \in Placers : \/ wish[t].step = "commit" /\ a \in Span(wish[t].at, wish[t].got)
                          \/ a \in InFlight(t)
    \/ a \in returned
RegionInOrder ==
    /\ \A a \in Base .. End - 1 : DealtTo(a) <=> a < served
    /\ Base <= served /\ served <= End
    /\ ~ misfit => served = Base + bigNext * BigChunk
    /\ misfit => Base + bigNext * BigChunk > End

\* A page asked for near some code is one owner's, is near if it is said to be,
\* and is never left mapped with nobody; and the region deals without gaps.
PagesAreOwn == PagesApart /\ NoPageForgotten /\ PlacedIsNear /\ RegionInOrder
=============================================================================
