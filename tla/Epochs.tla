-------------------------------- MODULE Epochs --------------------------------
(***************************************************************************)
(* The time axis of the checker (sanitizer.cpp: axis_birth, axis_death and  *)
(* epoch_cut): what every allocation site has alive, the totals, and cuts   *)
(* of both through the run, at every so many allocations, at every rise of  *)
(* so much, and at the marks of the program.  A table of its own remembers  *)
(* the blocks the shadow does not see, by address, until they are released. *)
(*                                                                         *)
(* What a site has is an ordinary integer that threads add to without a     *)
(* lock: a read and a write here.  The totals are atomic, each exact by     *)
(* itself, and are moved in one step.                                       *)
(***************************************************************************)
EXTENDS Integers, Sequences, FiniteSets, FiniteSetsExt, SequencesExt

CONSTANTS Tellers,    \* threads
          Places,     \* allocation sites: 1 .. kDepotSlots - 1
          Spots,      \* addresses of blocks the shadow does not see
          Loads,      \* bytes of a block
          BigSlots,   \* kBigSlots
          BigHome,    \* big_hash
          EpochCap,   \* g_epoch_cap
          CellsCap,   \* g_cells_cap
          CellFloor,  \* g_epoch_floor
          Rise,       \* g_epoch_step
          Every,      \* g_epoch_every
          Plans       \* bounds, one of which is chosen: records [births, marks,
                      \* reports] of allocations, calls of san_mark and verdicts
BigPlaces == 0 .. BigSlots - 1

ASSUME EpochsAssumption ==
    /\ Places \subseteq Nat /\ Loads \subseteq Nat \ {0}
    /\ BigSlots \in Nat \ {0} /\ BigHome \in [Spots -> BigPlaces]
    /\ EpochCap \in Nat /\ CellsCap \in Nat /\ CellFloor \in Nat /\ Rise \in Nat
    /\ Every \in Nat \ {0}
    /\ Plans \subseteq [births : Nat, marks : Nat, reports : Nat]

VARIABLES plan,      \* the bounds in force
          lives,     \* g_live
          totals,    \* live: g_live_now, born: g_born_total, died: g_died_total,
                     \* births: g_births_seen, max: g_live_max
          lastLive,  \* g_epoch_last_live
          atCut,     \* g_born_at_last_cut and g_died_at_last_cut
          cutBusy,   \* g_cut_busy
          epochs,    \* g_epochs, as far as g_epochs_used
          cells,     \* g_cells, as far as g_cells_used
          lost,      \* g_epochs_lost and g_cells_lost
          big,       \* g_big: key, site and bytes
          bigLost,   \* g_big_lost
          unmatched, \* g_big_unmatched
          orphans,   \* g_axis_orphans
          inReport,  \* g_in_report
          deed,      \* where the call of each thread is
          blocks,    \* the blocks of the program: site and bytes
          births,    \* history: allocations
          marks,     \* history: marks asked for
          reports,   \* history: verdicts written
          blur       \* history: "raced", "late", "eased", "unseen": see the properties

epochVars == <<plan, lives, totals, lastLive, atCut, cutBusy, epochs, cells, lost, big, bigLost,
               unmatched, orphans, inReport, deed, blocks, births, marks, reports, blur>>
axis == <<plan, lives, totals>>
curve == <<lastLive, atCut, cutBusy, epochs, cells, lost>>
bigs == <<big, bigLost, unmatched>>

NoSpot == "null"
DeadKey == "dead"
NoBlock == [site |-> 0, bytes |-> 0]
Vacant == [key |-> NoSpot, site |-> 0, bytes |-> 0]
Quiet == [step |-> "quiet", spot |-> NoSpot, site |-> 0, bytes |-> 0, had |-> 0, mark |-> FALSE,
          next |-> "quiet"]

EpochsInit ==
    /\ plan \in Plans
    /\ lives = [s \in Places |-> 0]
    /\ totals = [live |-> 0, born |-> 0, died |-> 0, births |-> 0, max |-> 0]
    /\ lastLive = 0 /\ atCut = [born |-> 0, died |-> 0]
    /\ cutBusy = FALSE /\ epochs = <<>> /\ cells = <<>> /\ lost = [epochs |-> 0, cells |-> 0]
    /\ big = [i \in BigPlaces |-> Vacant] /\ bigLost = 0 /\ unmatched = 0
    /\ orphans = 0 /\ inReport = FALSE
    /\ deed = [t \in Tellers |-> Quiet]
    /\ blocks = [a \in Spots |-> NoBlock]
    /\ births = 0 /\ marks = 0 /\ reports = 0 /\ blur = {}

-----------------------------------------------------------------------------
(* An allocation: san_on_alloc, note_birth and axis_birth                    *)
\* While a report is being written what is born is not counted, but recorded.
Birth(t, a, s, r) ==
    /\ deed[t] = Quiet /\ blocks[a] = NoBlock /\ births < plan.births
    /\ \A u \in Tellers : deed[u].spot # a
    /\ births' = births + 1
    /\ deed' = [deed EXCEPT ![t] =
           [Quiet EXCEPT !.step = IF inReport THEN "record" ELSE "birth",
                         !.spot = a, !.site = s, !.bytes = r, !.had = lives[s],
                         !.next = "record"]]
    /\ UNCHANGED <<axis, curve, bigs, orphans, inReport, blocks, marks, blur, reports>>

\* A write over somebody else's.
Blurred(s, had) == IF lives[s] = had THEN blur ELSE blur \cup {"raced"}

BirthStore(t) ==
    LET me == deed[t] IN
    /\ me.step = "birth"
    /\ lives' = [lives EXCEPT ![me.site] = me.had + me.bytes]
    /\ blur' = Blurred(me.site, me.had)
    /\ deed' = [deed EXCEPT ![t].step = "totals"]
    /\ UNCHANGED <<plan, totals, curve, bigs, orphans, inReport, blocks, births, marks, reports>>

\* The totals and the greatest of them, and whether it is time to cut.
TimeToCut(live, n) == live > lastLive + Rise \/ n % Every = 0
BirthTotals(t) ==
    LET live == totals.live + deed[t].bytes
        n == totals.births + 1
    IN
    /\ deed[t].step = "totals"
    /\ totals' = [totals EXCEPT !.live = live, !.born = @ + deed[t].bytes, !.births = n,
                                !.max = IF live > @ THEN live ELSE @]
    /\ deed' = [deed EXCEPT ![t].step = IF TimeToCut(live, n) THEN "tick" ELSE "record"]
    /\ UNCHANGED <<plan, lives, curve, bigs, orphans, inReport, blocks, births, marks, reports,
                   blur>>

\* big_insert: the first slot from its own that is empty or was used.
Record(t) ==
    LET me == deed[t]
        probes == [k \in 1 .. BigSlots |-> (BigHome[me.spot] + k - 1) % BigSlots]
        good == {k \in 1 .. BigSlots : big[probes[k]].key \in {NoSpot, DeadKey}}
    IN
    /\ me.step = "record"
    /\ IF good = {} THEN bigLost' = bigLost + 1 /\ UNCHANGED big
       ELSE /\ big' = [big EXCEPT ![probes[Min(good)]] =
                          [key |-> me.spot, site |-> me.site, bytes |-> me.bytes]]
            /\ UNCHANGED bigLost
    /\ blocks' = [blocks EXCEPT ![me.spot] = [site |-> me.site, bytes |-> me.bytes]]
    /\ deed' = [deed EXCEPT ![t] = Quiet]
    /\ UNCHANGED <<axis, curve, unmatched, orphans, inReport, births, marks, blur, reports>>

-----------------------------------------------------------------------------
(* A release: san_on_free and axis_death                                     *)
\* big_take: the probe ends at a slot never used, so a dead key stays.
Found(a) ==
    LET probes == [k \in 1 .. BigSlots |-> (BigHome[a] + k - 1) % BigSlots]
        good == {k \in 1 .. BigSlots : big[probes[k]].key \in {NoSpot, a}}
    IN IF good = {} THEN BigSlots
       ELSE IF big[probes[Min(good)]].key = a THEN probes[Min(good)] ELSE BigSlots
Taken(i) == [big EXCEPT ![i].key = DeadKey]

Death(t, a) ==
    LET i == Found(a) IN
    /\ deed[t] = Quiet /\ blocks[a] # NoBlock
    /\ blocks' = [blocks EXCEPT ![a] = NoBlock]
    /\ IF inReport
         THEN blur' = blur \cup {"unseen"} /\ UNCHANGED <<big, unmatched, deed>>
         ELSE /\ IF i = BigSlots
                   THEN unmatched' = unmatched + 1 /\ UNCHANGED <<big, deed>>
                   ELSE /\ big' = Taken(i)
                        /\ deed' = [deed EXCEPT ![t] =
                               [Quiet EXCEPT !.step = "death", !.site = big[i].site,
                                             !.bytes = big[i].bytes, !.had = lives[big[i].site]]]
                        /\ UNCHANGED unmatched
              /\ UNCHANGED blur
    /\ UNCHANGED <<axis, curve, bigLost, orphans, inReport, births, marks, reports>>

\* What the site has at most: a block whose birth was not seen takes nothing.
\* The mutant takes what it was.
TakeAll(had, bytes) == bytes
TakeHeld(had, bytes) == IF bytes > had THEN (IF had > 0 THEN had ELSE 0) ELSE bytes

DeathStore(t) ==
    LET me == deed[t]
        take == TakeHeld(me.had, me.bytes)
    IN
    /\ me.step = "death"
    /\ orphans' = IF me.bytes > me.had THEN orphans + 1 ELSE orphans
    /\ lives' = [lives EXCEPT ![me.site] = IF take = 0 THEN @ ELSE me.had - take]
    /\ blur' = IF take = 0 THEN blur ELSE Blurred(me.site, me.had)
    /\ deed' = [deed EXCEPT ![t].step = "gone", ![t].bytes = take]
    /\ UNCHANGED <<plan, totals, curve, bigs, inReport, blocks, births, marks, reports>>

DeathTotals(t) ==
    /\ deed[t].step = "gone"
    /\ totals' = [totals EXCEPT !.live = @ - deed[t].bytes, !.died = @ + deed[t].bytes]
    /\ deed' = [deed EXCEPT ![t] = Quiet]
    /\ blur' = IF \E u \in Tellers : deed[u].step \in {"tick", "photo"}
                 THEN blur \cup {"eased"} ELSE blur
    /\ UNCHANGED <<plan, lives, curve, bigs, orphans, inReport, blocks, births, marks, reports>>

-----------------------------------------------------------------------------
(* epoch_cut                                                                 *)
\* san_mark.
Mark(t) ==
    /\ deed[t] = Quiet /\ marks < plan.marks
    /\ marks' = marks + 1
    /\ deed' = [deed EXCEPT ![t] = [Quiet EXCEPT !.step = "tick", !.mark = TRUE]]
    /\ UNCHANGED <<axis, curve, bigs, orphans, inReport, blocks, births, blur, reports>>

Done(me) == [me EXCEPT !.step = me.next]

\* A tick that finds the flag taken gives up; a mark waits.
GiveUpTick(t) ==
    /\ deed[t].step = "tick" /\ cutBusy /\ ~ deed[t].mark
    /\ deed' = [deed EXCEPT ![t] = Done(@)]
    /\ blur' = blur \cup {"late"}
    /\ UNCHANGED <<axis, curve, bigs, orphans, inReport, blocks, births, marks, reports>>

\* With the flag, until the table is full.  The mutant goes on without it.
CutAnyway(t) ==
    /\ deed[t].step = "tick"
    /\ IF Len(epochs) >= EpochCap
         THEN /\ lost' = [lost EXCEPT !.epochs = @ + 1]
              /\ deed' = [deed EXCEPT ![t] = Done(@)]
              /\ UNCHANGED cutBusy
         ELSE /\ cutBusy' = TRUE
              /\ deed' = [deed EXCEPT ![t].step = "photo"]
              /\ UNCHANGED lost
    /\ UNCHANGED <<axis, lastLive, atCut, epochs, cells, bigs, orphans, inReport, blocks,
                   births, marks, blur, reports>>
CutBegin(t) ==
    /\ deed[t].step = "tick" /\ ~ cutBusy
    /\ IF Len(epochs) >= EpochCap
         THEN /\ lost' = [lost EXCEPT !.epochs = @ + 1]
              /\ deed' = [deed EXCEPT ![t] = Done(@)]
              /\ UNCHANGED cutBusy
         ELSE /\ cutBusy' = TRUE
              /\ deed' = [deed EXCEPT ![t].step = "photo"]
              /\ UNCHANGED lost
    /\ UNCHANGED <<axis, lastLive, atCut, epochs, cells, bigs, orphans, inReport, blocks,
                   births, marks, blur, reports>>

\* The totals, and what moved since the cut before.  The record is there from
\* now on, and is of use when the flag is free again.
CutTotals(t) ==
    /\ deed[t].step = "photo"
    /\ epochs' = Append(epochs, [live |-> totals.live, mark |-> deed[t].mark,
                                 born |-> totals.born - atCut.born,
                                 died |-> totals.died - atCut.died,
                                 belowFloor |-> 0, first |-> Len(cells), cells |-> 0])
    /\ atCut' = [born |-> totals.born, died |-> totals.died]
    /\ deed' = [deed EXCEPT ![t].step = "sites", ![t].had = 1]
    /\ UNCHANGED <<axis, lastLive, cutBusy, cells, lost, bigs, orphans, inReport, blocks,
                   births, marks, blur, reports>>

\* What one site has: a cell, or with the rest of the small ones.
CutSite(t) ==
    LET s == deed[t].had
        v == lives[s]
        e == Len(epochs)
    IN
    /\ deed[t].step = "sites" /\ s \in Places
    /\ IF v > 0 /\ v >= CellFloor /\ Len(cells) < CellsCap
         THEN /\ cells' = Append(cells, [bytes |-> v, site |-> s])
              /\ epochs' = [epochs EXCEPT ![e].cells = @ + 1]
              /\ UNCHANGED lost
         ELSE /\ epochs' = [epochs EXCEPT ![e].belowFloor = @ + (IF v > 0 THEN v ELSE 0)]
              /\ lost' = [lost EXCEPT !.cells = IF v > 0 /\ v >= CellFloor THEN @ + 1 ELSE @]
              /\ UNCHANGED cells
    /\ deed' = [deed EXCEPT ![t].had = s + 1]
    /\ UNCHANGED <<axis, lastLive, atCut, cutBusy, bigs, orphans, inReport, blocks, births,
                   marks, blur, reports>>

CutEnd(t) ==
    /\ deed[t].step = "sites" /\ deed[t].had \notin Places
    /\ lastLive' = epochs[Len(epochs)].live
    /\ cutBusy' = FALSE
    /\ deed' = [deed EXCEPT ![t] = Done(@)]
    /\ UNCHANGED <<axis, atCut, epochs, cells, lost, bigs, orphans, inReport, blocks, births,
                   marks, blur, reports>>

\* A verdict is being written, by whatever thread.
Report ==
    /\ inReport \/ reports < plan.reports
    /\ inReport' = ~ inReport
    /\ reports' = IF inReport THEN reports ELSE reports + 1
    /\ UNCHANGED <<axis, curve, bigs, orphans, deed, blocks, births, marks, blur>>

EpochsNext ==
    \/ \E t \in Tellers :
          \/ \E a \in Spots, s \in Places, r \in Loads : Birth(t, a, s, r)
          \/ BirthStore(t) \/ BirthTotals(t) \/ Record(t)
          \/ \E a \in Spots : Death(t, a)
          \/ DeathStore(t) \/ DeathTotals(t)
          \/ Mark(t) \/ GiveUpTick(t) \/ CutBegin(t) \/ CutTotals(t) \/ CutSite(t) \/ CutEnd(t)
    \/ Report

EpochsSpec == EpochsInit /\ [][EpochsNext]_epochVars

-----------------------------------------------------------------------------
AllQuiet == \A t \in Tellers : deed[t] = Quiet
SiteSum(f) == FoldSet(LAMBDA s, sum : f[s] + sum, 0, Places)
SumOf(seq, Val(_)) == FoldLeft(LAMBDA sum, e : sum + Val(e), 0, seq)

\* The curve: what is alive is what was born and has not died and is what the
\* sites have, never below nothing ("below zero is sixteen exabytes",
\* axis_death), though reports swallow births and the blocks come back later.
\* Two threads that write one site at once are the exception the code accepts.
\* Between calls only: a block nobody saw born, released between the two halves
\* of a birth at its site, takes the total below zero until the birth ends.
CurveIsWhole ==
    /\ AllQuiet => totals.live = totals.born - totals.died
    /\ AllQuiet /\ "raced" \notin blur => totals.live = SiteSum(lives)
    /\ "raced" \notin blur => \A s \in Places : lives[s] >= 0

\* Cuts do not mix: each has its cells behind those of the one before, of
\* different sites, and what moved between cuts adds up to the totals at the
\* last one.
CutsDoNotMix ==
    ~ cutBusy =>
        /\ \A i \in 1 .. Len(epochs) :
              epochs[i].first + epochs[i].cells =
                  (IF i = Len(epochs) THEN Len(cells) ELSE epochs[i + 1].first)
        /\ \A i \in 1 .. Len(epochs) : \A j, k \in 1 .. epochs[i].cells :
              j < k => cells[epochs[i].first + j].site < cells[epochs[i].first + k].site
        /\ SumOf(epochs, LAMBDA e : e.born) = atCut.born
        /\ SumOf(epochs, LAMBDA e : e.died) = atCut.died

\* "A mark waits": each one asked for is in a cut, or among those that did not
\* fit, or still waiting.
MarksAreKept ==
    marks <= Cardinality({i \in 1 .. Len(epochs) : epochs[i].mark}) + lost.epochs
               + Cardinality({t \in Tellers : deed[t].mark /\ deed[t].step \in {"tick", "photo"}})

\* No rise of more than the step goes by without a cut, so the highest point
\* is that close to one ("which is what guarantees the PEAK gets a snapshot"),
\* unless a thread gave up cutting, a release fell between a rise and its cut,
\* or the table was full.
PeakIsNear ==
    AllQuiet /\ blur \cap {"late", "eased"} = {} /\ lost.epochs = 0 =>
        \/ totals.max <= Rise
        \/ \E i \in 1 .. Len(epochs) : epochs[i].live + Rise >= totals.max

\* A release takes from the table what its own block put there, unless the
\* release of an earlier block at that address fell into a report; and a block
\* that is there is found, past all those that were and are not.
BigIsFound ==
    "unseen" \notin blur =>
        /\ bigLost = 0 => unmatched = 0
        /\ \A a \in Spots :
              blocks[a] # NoBlock /\ bigLost = 0 =>
                  /\ Found(a) # BigSlots
                  /\ [site |-> big[Found(a)].site, bytes |-> big[Found(a)].bytes] = blocks[a]

\* What is said to be alive is, through races, reports and blocks too long for
\* the shadow, and its highest point is near a cut.
CurveIsTrue == CurveIsWhole /\ PeakIsNear /\ BigIsFound

\* A cut is one thread's from its flag to its end, and no mark is dropped.
CutsAreWhole == CutsDoNotMix /\ MarksAreKept
=============================================================================
