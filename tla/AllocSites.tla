----------------------------- MODULE AllocSites -----------------------------
(***************************************************************************)
(* The table of allocation sites (src/src/report/alloc_sites.cpp).          *)
(*                                                                         *)
(* Each owner id has a row of entries, written by its holder alone; a site  *)
(* is looked for in the few slots behind the one it hashes to, and when     *)
(* they are all taken by others it takes over the weakest, inheriting its   *)
(* count and noting in "over" what it inherited.  Two more tables split the *)
(* count and the bytes of an entry by size: here, the totals they add up    *)
(* to.  The three tables are reserved on first use, by whoever gets there   *)
(* first.  A site is the pair of address and purpose.                       *)
(***************************************************************************)
EXTENDS Integers, Sequences, SequencesExt, FiniteSetsExt, Functions

CONSTANTS Noters,     \* threads, each with its own owner id and row
          Cacheless,  \* those of them without a cache
          Sites,
          NumSlots,   \* kSlots
          Home,       \* slot_of
          Window,     \* kMaxProbe
          Amounts,    \* bytes of an allocation
          MaxNotes,   \* bound: allocations noted down
          Nobody

SiteSlots == 0 .. NumSlots - 1

ASSUME SitesAssumption ==
    /\ IsFiniteSet(Noters) /\ Cacheless \subseteq Noters
    /\ NumSlots \in Nat \ {0} /\ Window \in 1 .. NumSlots
    /\ Home \in [Sites -> SiteSlots]
    /\ Amounts \subseteq Nat /\ MaxNotes \in Nat
    /\ Nobody \notin Sites

Tables == {"sites", "sizes", "bytes"}    \* g_table, g_hist, g_bytes_hist

VARIABLES inForce,   \* tables published
          mapped,    \* reservations of each table in the process
          entries,   \* the row of each thread: see Empty
          skipped,   \* g_skipped
          evicted,   \* g_overflow
          at,        \* where the call of each thread is, and for what
          asked,     \* history: calls of record_alloc_site
          truth      \* history: those of each thread and site that got to a row

siteVars == <<inForce, mapped, entries, skipped, evicted, at, asked, truth>>

Empty == [site |-> Nobody, count |-> 0, bytes |-> 0, over |-> 0, overBytes |-> 0,
          sized |-> 0, sizedBytes |-> 0]
Rest == [step |-> "rest", site |-> Nobody, n |-> 0, has |-> {}]

SitesInit ==
    /\ inForce = {} /\ mapped = [b \in Tables |-> 0]
    /\ entries = [t \in Noters |-> [i \in SiteSlots |-> Empty]]
    /\ skipped = 0 /\ evicted = 0
    /\ at = [t \in Noters |-> Rest] /\ asked = 0
    /\ truth = [t \in Noters |-> [s \in Sites |-> [count |-> 0, bytes |-> 0]]]

\* record_alloc_site is called, after the allocation.
NoteBegin(t, s, n) ==
    /\ at[t] = Rest /\ asked < MaxNotes
    /\ asked' = asked + 1
    /\ IF t \in Cacheless
         THEN skipped' = skipped + 1 /\ UNCHANGED at
         ELSE at' = [at EXCEPT ![t] = [step |-> "sites", site |-> s, n |-> n, has |-> {}]]
              /\ UNCHANGED skipped
    /\ UNCHANGED <<inForce, mapped, entries, evicted, truth>>

After(b) == CASE b = "sites" -> "sizes" [] b = "sizes" -> "bytes" [] b = "bytes" -> "note"
Reserving(b) == CASE b = "sites" -> "sites!" [] b = "sizes" -> "sizes!" [] b = "bytes" -> "bytes!"

\* table, hist_table and bytes_hist_table: the table that is there.
TableThere(t, b) ==
    /\ at[t].step = b /\ b \in inForce
    /\ at' = [at EXCEPT ![t].step = After(b), ![t].has = @ \cup {b}]
    /\ UNCHANGED <<inForce, mapped, entries, skipped, evicted, asked, truth>>

\* Or memory for one, which the system gives ...
TableReserve(t, b) ==
    /\ at[t].step = b /\ b \notin inForce
    /\ mapped' = [mapped EXCEPT ![b] = @ + 1]
    /\ at' = [at EXCEPT ![t].step = Reserving(b)]
    /\ UNCHANGED <<inForce, entries, skipped, evicted, asked, truth>>

\* ... or refuses: without entries nothing is noted, without the others less is.
TableRefused(t, b) ==
    /\ at[t].step = b /\ b \notin inForce
    /\ IF b = "sites"
         THEN skipped' = skipped + 1 /\ at' = [at EXCEPT ![t] = Rest]
         ELSE at' = [at EXCEPT ![t].step = After(b)] /\ UNCHANGED skipped
    /\ UNCHANGED <<inForce, mapped, entries, evicted, asked, truth>>

\* The exchange: whoever loses releases what it reserved and uses the other's.
TablePublish(t, b) ==
    /\ at[t].step = Reserving(b)
    /\ inForce' = inForce \cup {b}
    /\ mapped' = IF b \in inForce THEN [mapped EXCEPT ![b] = @ - 1] ELSE mapped
    /\ at' = [at EXCEPT ![t].step = After(b), ![t].has = @ \cup {b}]
    /\ UNCHANGED <<entries, skipped, evicted, asked, truth>>

-----------------------------------------------------------------------------
\* The slots a site may be in, in the order they are looked at.
Probes(s) == [i \in 1 .. Window |-> (Home[s] + i - 1) % NumSlots]

\* The first of them that is the site's or nobody's; NumSlots for none.
Slot(row, s) ==
    LET good == {i \in 1 .. Window : row[Probes(s)[i]].site \in {s, Nobody}}
    IN IF good = {} THEN NumSlots ELSE Probes(s)[Min(good)]

\* The first of those with the least count.
Weakest(row, s) ==
    LET least == {i \in 1 .. Window :
                    \A j \in 1 .. Window : row[Probes(s)[i]].count <= row[Probes(s)[j]].count}
    IN Probes(s)[Min(least)]

Share(has, b, n) == IF b \in has THEN n ELSE 0

\* One more in the entry of the site.
Counted(e, s, n, has) ==
    [e EXCEPT !.site = s, !.count = @ + 1, !.bytes = @ + n,
              !.sized = @ + Share(has, "sizes", 1), !.sizedBytes = @ + Share(has, "bytes", n)]

\* The entry of another is taken over: its count goes on, and what it was is
\* kept beside it.  The mutant starts the count again.
TakenOverAnew(e, s, n, has) ==
    [site |-> s, count |-> 1, bytes |-> n, over |-> 0, overBytes |-> 0,
     sized |-> IF "sizes" \in has THEN 1 ELSE e.sized,
     sizedBytes |-> IF "bytes" \in has THEN n ELSE e.sizedBytes]
TakenOver(e, s, n, has) ==
    [site |-> s, count |-> e.count + 1, bytes |-> e.bytes + n,
     over |-> e.count, overBytes |-> e.bytes,
     sized |-> IF "sizes" \in has THEN 1 ELSE e.sized,
     sizedBytes |-> IF "bytes" \in has THEN n ELSE e.sizedBytes]

\* record_alloc_site, on the row of the thread.
Note(t) ==
    LET s == at[t].site
        n == at[t].n
        row == entries[t]
        i == Slot(row, s)
        w == Weakest(row, s)
    IN
    /\ at[t].step = "note"
    /\ IF i # NumSlots
         THEN /\ entries' = [entries EXCEPT ![t][i] = Counted(@, s, n, at[t].has)]
              /\ UNCHANGED evicted
         ELSE /\ entries' = [entries EXCEPT ![t][w] = TakenOver(@, s, n, at[t].has)]
              /\ evicted' = evicted + 1
    /\ at' = [at EXCEPT ![t] = Rest]
    /\ truth' = [truth EXCEPT ![t][s] = [count |-> @.count + 1, bytes |-> @.bytes + n]]
    /\ UNCHANGED <<inForce, mapped, skipped, asked>>

SitesNext ==
    \E t \in Noters :
        \/ \E s \in Sites, n \in Amounts : NoteBegin(t, s, n)
        \/ \E b \in Tables :
              TableThere(t, b) \/ TableReserve(t, b) \/ TableRefused(t, b) \/ TablePublish(t, b)
        \/ Note(t)

SitesSpec == SitesInit /\ [][SitesNext]_siteVars

-----------------------------------------------------------------------------
(* merge_sites: the rows added up into a list of at most max sites, those    *)
(* that earned most first.                                                   *)
Earned(e) == e.count - e.over

Added(e, f) ==
    [e EXCEPT !.count = @ + f.count, !.bytes = @ + f.bytes, !.over = @ + f.over,
              !.overBytes = @ + f.overBytes, !.sized = @ + f.sized,
              !.sizedBytes = @ + f.sizedBytes]

\* The first of the list with the least count.
Worst(list) == Min({k \in DOMAIN list : \A j \in DOMAIN list : list[k].count <= list[j].count})

Merged(list, e, max) ==
    LET same == {k \in DOMAIN list : list[k].site = e.site} IN
    IF e.site = Nobody THEN list
    ELSE IF same # {} THEN [list EXCEPT ![Min(same)] = Added(@, e)]
    ELSE IF Len(list) < max THEN Append(list, e)
    ELSE IF e.count > list[Worst(list)].count THEN [list EXCEPT ![Worst(list)] = e]
    ELSE list

\* Insertion, behind those that earned as much.
Inserted(list, e) ==
    LET before == {k \in DOMAIN list : Earned(list[k]) >= Earned(e)}
    IN InsertAt(list, IF before = {} THEN 1 ELSE Max(before) + 1, e)

\* The rows one behind the other, holes and all.
RowOf(t) == [i \in 1 .. NumSlots |-> entries[t][i - 1]]
AllEntries == FoldSet(LAMBDA t, list : list \o RowOf(t), <<>>, Noters)

Snapshot(max) ==
    FoldLeft(Inserted, <<>>,
             FoldLeft(LAMBDA list, e : Merged(list, e, max), <<>>, AllEntries))

-----------------------------------------------------------------------------
\* What a site is said to have earned was noted down for it, at least, and the
\* sizes it is said to have had are among those; in the rows of the threads and
\* in the merged list however short it is ("the floor is what that site really
\* earned", alloc_sites_c.h).  The site taken over may have been there before.
NotedAt(s) ==
    [count |-> SumFunction([t \in Noters |-> truth[t][s].count]),
     bytes |-> SumFunction([t \in Noters |-> truth[t][s].bytes])]
Backed(e, noted) ==
    /\ 0 < Earned(e) /\ Earned(e) <= noted.count /\ e.bytes - e.overBytes <= noted.bytes
    /\ e.sized <= Earned(e) /\ e.sizedBytes <= e.bytes - e.overBytes
FloorIsEarned ==
    /\ \A t \in Noters : \A i \in SiteSlots :
          LET e == entries[t][i] IN e.site # Nobody => Backed(e, truth[t][e.site])
    /\ \A max \in 1 .. NumSlots :
          LET list == Snapshot(max) IN
          /\ \A k \in DOMAIN list : Backed(list[k], NotedAt(list[k].site))
          /\ \A k \in DOMAIN list : \A j \in DOMAIN list :
                k < j => list[k].site # list[j].site /\ Earned(list[k]) >= Earned(list[j])

\* Every allocation noted down is in one entry's count or among those skipped,
\* whoever was thrown out ("the table's sum + this is the number of allocations
\* that went past the capture point", alloc_sites.h).
NothingUncounted ==
    SumFunction([t \in Noters |-> SumFunction([i \in SiteSlots |-> entries[t][i].count])])
      + skipped + Cardinality({t \in Noters : at[t] # Rest}) = asked

\* Threads that make a table at once end up with one, and nobody's memory is
\* left behind.
OneTableEach ==
    \A b \in Tables :
        mapped[b] = (IF b \in inForce THEN 1 ELSE 0)
                      + Cardinality({t \in Noters : at[t].step = Reserving(b)})

\* "The truth is in [count - over, count]" (alloc_sites_c.h): so it is, in the
\* row of a thread, of a site whose window no other window overlaps in part,
\* however often the sites of that window throw one another out, because the one
\* that comes back inherits no less than it had.  Where windows overlap in part
\* the weakest of its own may be less than it was thrown out with.
Footprint(s) == {Probes(s)[i] : i \in 1 .. Window}
KeepsTogether(s) ==
    \A r \in Sites : Footprint(r) = Footprint(s) \/ Footprint(r) \cap Footprint(s) = {}
RowsInBounds ==
    \A t \in Noters : \A i \in SiteSlots :
        LET e == entries[t][i] IN
        e.site # Nobody /\ KeepsTogether(e.site) => truth[t][e.site].count <= e.count

\* What the report of sites says can be relied on: floors are earned, the
\* truth is within the bounds of a row, the sum is all there was, and the race to
\* make the tables leaves one of each.
SitesAreTrue == FloorIsEarned /\ NothingUncounted /\ OneTableEach /\ RowsInBounds
=============================================================================
