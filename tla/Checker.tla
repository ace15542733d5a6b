------------------------------- MODULE Checker -------------------------------
(***************************************************************************)
(* The checker of small blocks (src/src/alloc/sanitizer.cpp: san_alloc,     *)
(* san_grow, san_on_alloc, san_on_free, slot_of, ensure_config,             *)
(* ensure_ready), around the allocator and never through it.                *)
(*                                                                         *)
(* A shadow slot per address says what the checker knows of the block       *)
(* there.  From the level "canary" up a request grows so that a canary fits *)
(* behind it, and is looked at when the block is released; from "poison" up *)
(* a released block is filled, and looked at when it is handed out again.   *)
(*                                                                         *)
(* One chunk, its units numbered, the smallest a word that a free list      *)
(* writes its link in; a block is its first unit.  The allocator is only    *)
(* what SmallBlocks shows of it: a block is free or handed out.  What the   *)
(* program does wrong is recorded in history variables, which no action of  *)
(* the checker reads.                                                       *)
(***************************************************************************)
EXTENDS Integers, FiniteSets

CONSTANTS Threads,
          Levels,       \* of VESTA_ALLOC_SAN: "track", "canary", "poison"
          Setups,       \* bounds: the threads that call, the wrong acts, and
                        \* what else happens: "door", "resize", "recycle"
          ChunkUnits,   \* units of the chunk
          Sizes,        \* kSizes
          Requests,     \* units a program asks for
          CanaryUnits,  \* kCanaryBytes
          PoisonUnits,  \* units poison_len fills at most
          None

Units == 1 .. ChunkUnits

ASSUME CheckerAssumption ==
    /\ ChunkUnits \in Nat
    /\ Levels \subseteq {"track", "canary", "poison"}
    /\ Sizes \subseteq Units /\ Requests \subseteq Units /\ None \notin Units
    /\ {CanaryUnits, PoisonUnits} \subseteq Nat \ {0}
    /\ Setups \subseteq [callers : SUBSET Threads, wrongs : Nat,
                         ways : SUBSET {"door", "resize", "recycle"}]

VARIABLES setup,    \* of Setups
          level,    \* g_san_level
          cfg,      \* of ensure_config: 0 untouched, 1 being read, 2 read
          rows,     \* rows_state: 0 untouched, 1 being made, 2 made
          row,      \* whether the chunk has its row of slots
          slots,    \* the row: state and request of each address
          rowLive,  \* g_row_live
          region,   \* whether the region has been reserved
          size,     \* the class of the chunk
          free,     \* times each block is in a list
          mem,      \* what is in each unit
          pc, req, want, blk, back,   \* the call each thread is in
          stray,    \* threads that release a block that is not theirs to release
          raced,    \* whether two releases of one hold met, or one came too late
          early,    \* threads whose request was grown before there was a table
          own,      \* units the program may use of the block there, 0 for none
          unseen,   \* addresses whose last holder was not recorded
          odd,      \* what happened to a block that the checker was not told
          overran, scribbled,   \* blocks the program wrote past, or wrote when free
          wrongs,
          verdict   \* what it said last, how sure, and what was behind it

fixed == <<setup, level>>
shadow == <<cfg, rows, row, slots, rowLive>>
heap == <<region, size, free, mem>>
call == <<pc, req, want, blk, back, early, stray>>
history == <<own, unseen, odd, overran, scribbled, wrongs, verdict, raced>>
vars == <<fixed, shadow, heap, call, history>>

Silence == [what |-> "", sure |-> "", just |-> TRUE, odd |-> {}]
Never == [st |-> "never", req |-> 0]
Blank == [u \in Units |-> Never]

BlocksOf(s) == {u \in Units : (u - 1) % s = 0 /\ u - 1 + s <= ChunkUnits}
Rank(l) == CASE l = "track" -> 1 [] l = "canary" -> 2 [] l = "poison" -> 3
AtLeast(l) == Rank(level) >= Rank(l)

\* class_of, by size.
ClassOf(n) == CHOOSE s \in Sizes : s >= n /\ \A r \in Sizes : r >= n => s <= r
Served(n) == \E s \in Sizes : s >= n

\* poison_from and poison_len: behind the link, a line at most.  As units of a
\* block.
Filled == {i \in 2 .. size : i - 1 <= PoisonUnits}

\* canary_fits, write_canary; the mutant takes the room of one unit more.
FitsTight(n) == n <= size
Fits(n) == n + CanaryUnits <= size
Guard(p, n) == {u \in Units : u >= p + n /\ u < p + n + CanaryUnits}

Init ==
    /\ setup \in Setups /\ level \in Levels
    /\ cfg = 0 /\ rows = 0 /\ row = FALSE /\ slots = Blank /\ rowLive = 0
    /\ region = FALSE
    /\ size \in Sizes
    /\ free = [u \in Units |-> IF u \in BlocksOf(size) THEN 1 ELSE 0]
    /\ mem = [u \in Units |-> "other"]
    /\ pc = [t \in Threads |-> "idle"] /\ back = [t \in Threads |-> "idle"]
    /\ req = [t \in Threads |-> 0] /\ want = [t \in Threads |-> 0]
    /\ blk = [t \in Threads |-> None]
    /\ early = {} /\ stray = {} /\ raced = FALSE
    /\ own = [u \in Units |-> 0]
    /\ unseen = {} /\ odd = [u \in Units |-> {}]
    /\ overran = {} /\ scribbled = {} /\ wrongs = 0 /\ verdict = Silence

Go(t, step) == pc' = [pc EXCEPT ![t] = step]

\* The call is over; what it used is forgotten.
End(t) ==
    /\ pc' = [pc EXCEPT ![t] = "idle"] /\ back' = [back EXCEPT ![t] = "idle"]
    /\ req' = [req EXCEPT ![t] = 0] /\ want' = [want EXCEPT ![t] = 0]
    /\ blk' = [blk EXCEPT ![t] = None] /\ early' = early \ {t} /\ stray' = stray \ {t}

-----------------------------------------------------------------------------
(* The program. *)
CallAlloc(t, n) ==
    /\ pc[t] = "idle"
    /\ pc' = [pc EXCEPT ![t] = "config"] /\ back' = [back EXCEPT ![t] = "grow"]
    /\ req' = [req EXCEPT ![t] = n]
    /\ UNCHANGED <<fixed, shadow, heap, want, blk, early, stray, history>>

CallFree(t, p) ==
    /\ pc[t] = "idle" /\ own[p] > 0
    /\ pc' = [pc EXCEPT ![t] = "config"] /\ back' = [back EXCEPT ![t] = "release"]
    /\ blk' = [blk EXCEPT ![t] = p]
    /\ own' = [own EXCEPT ![p] = 0]
    /\ UNCHANGED <<fixed, shadow, heap, req, want, early, stray, unseen, odd, overran, scribbled,
                   wrongs, verdict, raced>>

\* SingleOwnerAllocator::alloc and PerThreadAllocator::alloc take a block from
\* the lists themselves: the checker is on their way back only.
DoorAlloc(t, n) ==
    /\ "door" \in setup.ways /\ pc[t] = "idle" /\ Served(n) /\ ClassOf(n) = size
    /\ \E p \in BlocksOf(size) :
          /\ free[p] > 0
          /\ free' = [free EXCEPT ![p] = @ - 1]
          /\ own' = [own EXCEPT ![p] = n]
          /\ unseen' = unseen \cup {p}
          /\ odd' = [odd EXCEPT ![p] = @ \cup {"door"}]
    /\ region' = TRUE
    /\ UNCHANGED <<fixed, shadow, size, mem, call, overran, scribbled, wrongs, verdict, raced>>

\* host_realloc of a small block that has room: the same block, and nobody is
\* told.
Resize(p, n) ==
    /\ "resize" \in setup.ways /\ own[p] > 0 /\ n # own[p] /\ n <= size
    /\ own' = [own EXCEPT ![p] = n]
    /\ odd' = [odd EXCEPT ![p] = @ \cup {"resize"}]
    /\ UNCHANGED <<fixed, shadow, heap, call, unseen, overran, scribbled, wrongs, verdict, raced>>

\* verdict, for the history; just when the program did wrong.
Say(what, sure, just, p) ==
    verdict' = [what |-> what, sure |-> sure, just |-> just, odd |-> odd[p]]

\* The program uses a unit it has.
Use(p, i) ==
    /\ i <= own[p]
    /\ mem' = [mem EXCEPT ![p + i - 1] = "other"]
    /\ UNCHANGED <<fixed, shadow, region, size, free, call, history>>

Wrong == wrongs < setup.wrongs /\ wrongs' = wrongs + 1

\* It writes the unit behind those it has.
Overrun(p) ==
    /\ Wrong /\ own[p] > 0 /\ p + own[p] \in Units
    /\ mem' = [mem EXCEPT ![p + own[p]] = "other"]
    /\ overran' = overran \cup {p}
    /\ UNCHANGED <<fixed, shadow, region, size, free, call, own, unseen, odd, scribbled, verdict,
                   raced>>

\* It writes a unit of a block it released, where the poison is or would be.
Scribble(p, i) ==
    /\ Wrong /\ p \in BlocksOf(size) /\ free[p] > 0 /\ i \in Filled
    /\ slots[p].st = "freed"
    /\ mem' = [mem EXCEPT ![p + i - 1] = "other"]
    /\ scribbled' = scribbled \cup {p}
    /\ UNCHANGED <<fixed, shadow, region, size, free, call, own, unseen, odd, overran, verdict,
                   raced>>

\* It releases again a block it has given up, whose first release may be under
\* way; while the call is, others may get the block.
FreeAgain(t, p) ==
    /\ Wrong /\ pc[t] = "idle" /\ own[p] = 0
    /\ p \in BlocksOf(size) /\ slots[p].st # "never"
    /\ pc' = [pc EXCEPT ![t] = "config"] /\ back' = [back EXCEPT ![t] = "release"]
    /\ blk' = [blk EXCEPT ![t] = p]
    /\ stray' = stray \cup {t}
    /\ UNCHANGED <<fixed, shadow, heap, req, want, early, own, unseen, odd, overran, scribbled,
                   verdict, raced>>

\* The chunk, all of it free, is given back as a span (host_chunk_reclaim), is
\* used as one or not, and comes back as a chunk of another class.
Recycle(s) ==
    /\ "recycle" \in setup.ways
    /\ \A p \in BlocksOf(size) : free[p] = 1
    /\ \A t \in Threads : blk[t] = None
    /\ size' = s
    /\ free' = [u \in Units |-> IF u \in BlocksOf(s) THEN 1 ELSE 0]
    /\ mem' \in {mem, [u \in Units |-> "other"]}
    /\ odd' = [u \in Units |-> odd[u] \cup {"recycle"}]
    /\ UNCHANGED <<fixed, shadow, region, call, own, unseen, overran, scribbled, wrongs, verdict,
                   raced>>

-----------------------------------------------------------------------------
(* ensure_config and ensure_ready. *)
Config(t) ==
    /\ pc[t] = "config"
    /\ \/ cfg = 2 /\ Go(t, back[t]) /\ UNCHANGED cfg
       \/ cfg = 0 /\ Go(t, "reading") /\ cfg' = 1
       \/ cfg = 1 /\ Go(t, IF back[t] = "grow" THEN "plain" ELSE "push") /\ UNCHANGED cfg
    /\ UNCHANGED <<fixed, rows, row, slots, rowLive, heap, req, want, blk, back, early>>
    /\ UNCHANGED <<stray, history>>

ConfigRead(t) ==
    /\ pc[t] = "reading"
    /\ cfg' = 2
    /\ Go(t, back[t])
    /\ UNCHANGED <<fixed, rows, row, slots, rowLive, heap, req, want, blk, back, early>>
    /\ UNCHANGED <<stray, history>>

Asks(t) == pc[t] \in {"grow", "record", "release"}    \* calls ensure_ready

MakeRows(t) ==
    /\ Asks(t) /\ region /\ rows = 0
    /\ rows' = 1
    /\ back' = [back EXCEPT ![t] = pc[t]]
    /\ Go(t, "rows")
    /\ UNCHANGED <<fixed, cfg, row, slots, rowLive, heap, req, want, blk, early, stray, history>>

RowsMade(t) ==
    /\ pc[t] = "rows"
    /\ rows' = 2
    /\ Go(t, back[t])
    /\ UNCHANGED <<fixed, cfg, row, slots, rowLive, heap, req, want, blk, back, early>>
    /\ UNCHANGED <<stray, history>>

Ready == rows = 2
\* Somebody else is making the table, there is no region yet, or os_alloc
\* refused.
NotReady == rows # 2

\* slot_of, when the chunk has no row yet: memory for one, or none.
NeedsRow(t) == pc[t] \in {"record", "release"} /\ Ready /\ ~row

RowAlloc(t) ==
    /\ NeedsRow(t)
    /\ back' = [back EXCEPT ![t] = pc[t]]
    /\ Go(t, "row")
    /\ UNCHANGED <<fixed, shadow, heap, req, want, blk, early, stray, history>>

\* Mutant of RowCas: a store instead of the exchange.
RowStore(t) ==
    /\ pc[t] = "row"
    /\ row' = TRUE /\ slots' = Blank
    /\ Go(t, back[t])
    /\ UNCHANGED <<fixed, cfg, rows, rowLive, heap, req, want, blk, back, early, stray, history>>

RowCas(t) ==
    /\ pc[t] = "row"
    /\ row' = TRUE
    /\ slots' = IF row THEN slots ELSE Blank
    /\ Go(t, back[t])
    /\ UNCHANGED <<fixed, cfg, rows, rowLive, heap, req, want, blk, back, early, stray, history>>

-----------------------------------------------------------------------------
(* san_alloc. *)

\* san_grow; the mutant forgets the canary.
GrownNone(n) == n
Grown(n) == IF Ready /\ AtLeast("canary") THEN n + CanaryUnits ELSE n

Grow(t) ==
    /\ pc[t] = "grow"
    /\ want' = [want EXCEPT ![t] = Grown(req[t])]
    /\ early' = IF Ready THEN early ELSE early \cup {t}
    /\ Go(t, "body")
    /\ UNCHANGED <<fixed, shadow, heap, req, blk, back, stray, history>>

Available(n) == {p \in BlocksOf(size) : free[p] > 0 /\ Served(n) /\ ClassOf(n) = size}
Pop(p) == free' = [free EXCEPT ![p] = @ - 1] /\ region' = TRUE

\* alloc_body; it may find nothing, and the call ends.
Body(t) ==
    /\ pc[t] = "body"
    /\ \/ \E p \in Available(want[t]) :
             /\ Pop(p) /\ blk' = [blk EXCEPT ![t] = p] /\ Go(t, "record")
             /\ UNCHANGED <<req, want, back, early, stray>>
       \/ Available(want[t]) = {} /\ End(t) /\ UNCHANGED <<free, region>>
    /\ UNCHANGED <<fixed, shadow, size, mem, history>>

\* The call ends with the block in the program's hands and no record of it.
Unrecorded(t, p) ==
    /\ own' = [own EXCEPT ![p] = req[t]]
    /\ unseen' = unseen \cup {p}
    /\ odd' = [odd EXCEPT ![p] = @ \cup {"early"}]
    /\ overran' = overran \ {p} /\ scribbled' = scribbled \ {p}
    /\ End(t)
    /\ UNCHANGED <<wrongs, verdict, raced>>

\* alloc_body while another thread is reading the configuration.
Plain(t) ==
    /\ pc[t] = "plain"
    /\ \/ \E p \in Available(req[t]) : Pop(p) /\ Unrecorded(t, p)
       \/ Available(req[t]) = {} /\ End(t) /\ UNCHANGED <<free, region, history>>
    /\ UNCHANGED <<fixed, shadow, size, mem>>

\* san_on_alloc, with no table or no row.
RecordNone(t) ==
    /\ pc[t] = "record" /\ (NotReady \/ NeedsRow(t))
    /\ Unrecorded(t, blk[t])
    /\ UNCHANGED <<fixed, shadow, heap>>

\* san_on_alloc.
Record(t) ==
    LET p == blk[t]
        n == req[t]
        written == /\ AtLeast("poison") /\ slots[p].st = "freed"
                   /\ \E i \in Filled : mem[p + i - 1] # "poison"
    IN
    /\ pc[t] = "record" /\ Ready /\ row
    /\ IF written THEN Say("late write", "proven", p \in scribbled, p) ELSE UNCHANGED verdict
    /\ slots' = [slots EXCEPT ![p] = [st |-> "alive", req |-> n]]
    /\ rowLive' = IF slots[p].st # "alive" THEN rowLive + 1 ELSE rowLive
    /\ mem' = [u \in Units |-> IF AtLeast("canary") /\ Fits(n) /\ u \in Guard(p, n)
                                THEN "canary" ELSE mem[u]]
    /\ own' = [own EXCEPT ![p] = n]
    /\ unseen' = unseen \ {p}
    /\ odd' = [odd EXCEPT ![p] = IF t \in early THEN {"early"} ELSE {}]
    /\ overran' = overran \ {p} /\ scribbled' = scribbled \ {p}
    /\ End(t)
    /\ UNCHANGED <<fixed, cfg, rows, row, region, size, free, wrongs, raced>>

-----------------------------------------------------------------------------
(* san_on_free. *)
ReleaseNone(t) ==
    /\ pc[t] = "release" /\ (NotReady \/ NeedsRow(t))
    /\ Go(t, "push")
    /\ UNCHANGED <<fixed, shadow, heap, req, want, blk, back, early, stray, history>>

Released(t) == pc[t] = "release" /\ Ready /\ row

\* The block is not pushed.
ReleaseTwice(t) ==
    /\ Released(t) /\ slots[blk[t]].st = "freed"
    /\ Say("twice", "proven", t \in stray, blk[t])
    /\ End(t)
    /\ UNCHANGED <<fixed, shadow, heap, own, unseen, odd, overran, scribbled, wrongs, raced>>

ReleaseNever(t) ==
    /\ Released(t) /\ slots[blk[t]].st = "never"
    /\ Say("never seen", "suspected", FALSE, blk[t])
    /\ Go(t, "push")
    /\ UNCHANGED <<fixed, shadow, heap, req, want, blk, back, early, stray, own, unseen, odd,
                   overran, scribbled, wrongs, raced>>

\* Whether a release that is not t's meets one that is, or finds the block with
\* somebody again.
Meets(t) ==
    /\ t \in stray
    /\ own[blk[t]] > 0 \/ \E s \in Threads \ stray : /\ blk[s] = blk[t] /\ back[s] = "release"
                                                     /\ pc[s] # "push"

\* The state is read, once; the canary is looked at.
Release(t) ==
    LET p == blk[t]
        n == slots[p].req
        written == AtLeast("canary") /\ Fits(n) /\ \E u \in Guard(p, n) : mem[u] # "canary"
    IN
    /\ Released(t) /\ slots[p].st = "alive"
    /\ IF written THEN Say("overrun", "proven", p \in overran, p) ELSE UNCHANGED verdict
    /\ raced' = (raced \/ Meets(t))
    /\ Go(t, "freeing")
    /\ UNCHANGED <<fixed, shadow, heap, req, want, blk, back, early, stray,
                   own, unseen, odd, overran, scribbled, wrongs>>

\* The slot a release leaves; the mutant leaves it alive.
FreedLate(s) == s
Freed(s) == [s EXCEPT !.st = "freed"]

\* Nobody looks at it again before it is written.
Retire(t) ==
    LET p == blk[t] IN
    /\ pc[t] = "freeing"
    /\ slots' = [slots EXCEPT ![p] = Freed(@)]
    /\ rowLive' = rowLive - 1
    /\ mem' = [u \in Units |-> IF AtLeast("poison") /\ u - p + 1 \in Filled
                                THEN "poison" ELSE mem[u]]
    /\ Go(t, "push")
    /\ UNCHANGED <<fixed, cfg, rows, row, region, size, free, req, want, blk, back, early, stray,
                   history>>

\* free_body: the block goes to a list, whose link takes its first unit.
Push(t) ==
    /\ pc[t] = "push"
    /\ free' = [free EXCEPT ![blk[t]] = @ + 1]
    /\ mem' = [mem EXCEPT ![blk[t]] = "other"]
    /\ End(t)
    /\ UNCHANGED <<fixed, shadow, region, size, history>>

-----------------------------------------------------------------------------
Misuse ==
    \E p \in Units :
        \/ Overrun(p) \/ \E t \in setup.callers : FreeAgain(t, p)
        \/ \E i \in Units : Scribble(p, i)

Program ==
    \/ \E t \in setup.callers :
          \/ \E n \in Requests : CallAlloc(t, n) \/ DoorAlloc(t, n)
          \/ \E p \in Units : CallFree(t, p)
    \/ \E p \in Units : \E n \in Requests : Resize(p, n)
    \/ \E p \in Units : \E i \in Units : Use(p, i)
    \/ \E s \in Sizes \ {size} : Recycle(s)

Checking(t) ==
    \/ Config(t) \/ ConfigRead(t) \/ MakeRows(t) \/ RowsMade(t) \/ RowAlloc(t) \/ RowCas(t)
    \/ Grow(t) \/ Body(t) \/ Plain(t) \/ RecordNone(t) \/ Record(t)
    \/ ReleaseNone(t) \/ ReleaseTwice(t) \/ ReleaseNever(t) \/ Release(t) \/ Retire(t) \/ Push(t)

\* Bound: once two releases met, the calls under way end and no others begin.
Next ==
    \/ ~raced /\ (Program \/ Misuse)
    \/ \E t \in Threads : Checking(t)

Spec == Init /\ [][Next]_vars

-----------------------------------------------------------------------------
Steps == {"idle", "config", "reading", "grow", "body", "plain", "record", "rows", "row",
          "release", "freeing", "push"}

Verdicts == [what : {"overrun", "late write", "twice", "never seen"},
             sure : {"proven", "suspected"}, just : BOOLEAN,
             odd : SUBSET {"door", "resize", "recycle", "early"}]
StoreTypes ==
    /\ setup \in Setups /\ level \in Levels /\ cfg \in 0 .. 2 /\ rows \in 0 .. 2 /\ row \in BOOLEAN
    /\ slots \in [Units -> [st : {"never", "alive", "freed"}, req : 0 .. ChunkUnits]]
    /\ rowLive \in 0 .. ChunkUnits
    /\ region \in BOOLEAN /\ size \in Sizes
    /\ free \in [Units -> Nat] /\ mem \in [Units -> {"other", "canary", "poison"}]
    /\ own \in [Units -> 0 .. ChunkUnits] /\ unseen \subseteq Units
    /\ odd \in [Units -> SUBSET {"door", "resize", "recycle", "early"}]
    /\ overran \subseteq Units /\ scribbled \subseteq Units /\ wrongs \in 0 .. setup.wrongs
    /\ verdict \in {Silence} \cup Verdicts /\ raced \in BOOLEAN
CallTypes ==
    /\ pc \in [Threads -> Steps] /\ back \in [Threads -> Steps]
    /\ req \in [Threads -> 0 .. ChunkUnits] /\ blk \in [Threads -> Units \cup {None}]
    /\ early \subseteq Threads /\ stray \subseteq Threads
    /\ want \in [Threads -> 0 .. ChunkUnits + CanaryUnits]

\* The shape of the state.
TypeOK == StoreTypes /\ CallTypes

Proven == verdict.sure = "proven"

\* What the checker calls proven the program did, but for what the allocator
\* does and does not tell it: a block resized in place keeps the canary of its
\* old size; one of a recycled chunk has lost its poison; and one handed out
\* without the checker, by a door or to a thread that came while the
\* configuration was being read, still looks released.  This, and what follows,
\* until two releases of one block meet: the state of a slot is read and then
\* written, both go on, and the block has two places in the lists.
ProvenHasCause ==
    ~raced /\ Proven /\ ~verdict.just =>
        /\ verdict.what = "overrun" => "resize" \in verdict.odd
        /\ verdict.what = "twice" => {"door", "early"} \cap verdict.odd # {}
        /\ verdict.what = "late write" => "recycle" \in verdict.odd

\* What the checker calls proven the program did ("THE CHECKER ADAPTS": a
\* resize in place refreshes the canary).
ProvenIsReal == Proven => verdict.just

\* The shadow says "alive" of the blocks somebody has or is giving back and of
\* no other, whatever the checker missed: that is the list of leaks at exit,
\* and their number is the live count of the chunk.
ShadowIsTrue ==
    LET alive == {u \in Units : slots[u].st = "alive"}
        releasing == {blk[t] : t \in {x \in Threads \ stray : back[x] = "release"}}
    IN ~raced => /\ \A u \in alive : own[u] > 0 \/ u \in releasing
                 /\ \A u \in Units : own[u] > 0 /\ u \notin unseen => u \in alive
                 /\ rowLive = Cardinality(alive)

\* No block is free twice, or free and handed out: a second release of a block
\* the checker recorded never reaches a list (san_on_free answers false), unless it
\* looks before the first has written, or after somebody else has the block.
HeapStaysWhole ==
    ~raced =>
    /\ TypeOK
    /\ \A u \in Units :
        LET holders == {t \in Threads \ stray : blk[t] = u} IN
        free[u] + Cardinality(holders) + (IF own[u] > 0 THEN 1 ELSE 0) <= 1

Caught(what) == verdict'.what = what /\ verdict'.just

\* A write past the end of a block is reported when the block is released, and
\* one into a released block when it is handed out again, if the checker was
\* there for both: whichever class the request was given, and whatever is left
\* of it behind the canary.
MisuseCaught ==
    [][\A t \in Threads : \A p \in Units :
          blk[t] = p /\ ~raced' =>
          /\ AtLeast("canary") /\ p \in overran /\ p \notin unseen /\ odd[p] = {}
             /\ pc[t] = "release" /\ pc'[t] = "freeing" => Caught("overrun")
          /\ AtLeast("poison") /\ p \in scribbled /\ odd[p] \cap {"door", "recycle"} = {}
             /\ pc[t] = "record" /\ pc'[t] = "idle" => Caught("late write")]_vars

-----------------------------------------------------------------------------
(* What makes these inductive, until two releases meet: what a call has by    *)
(* right, and whose release the slot still waits for.                         *)
Alive(u) == slots[u].st = "alive"
Has(t) == IF t \in stray THEN None ELSE blk[t]
Releasing(t) == t \notin stray /\ back[t] = "release" /\ pc[t] # "push"
Taking(t) == blk[t] # None /\ back[t] # "release"

\* Where a call is, where it will go on, and what it has by then: the block, and
\* a class that has room for what was asked.
CallShape(t) ==
    /\ pc[t] = "idle" => back[t] = "idle"
    /\ pc[t] \in {"config", "reading"} => back[t] \in {"grow", "release"}
    /\ pc[t] \in {"grow", "body", "plain"} => back[t] = "grow"
    /\ pc[t] = "record" => back[t] \in {"grow", "record"}
    /\ pc[t] \in {"release", "freeing", "push"} => back[t] = "release"
    /\ pc[t] = "rows" => back[t] \in {"grow", "record", "release"}
    /\ pc[t] = "row" => back[t] \in {"record", "release"}
    /\ blk[t] # None <=> pc[t] = "record" \/ back[t] \in {"record", "release"}
    /\ back[t] \in {"grow", "record"} => req[t] \in Requests
    /\ pc[t] = "body" => /\ req[t] <= want[t]
                         /\ t \notin early /\ AtLeast("canary") => want[t] = req[t] + CanaryUnits
    /\ Taking(t) => /\ req[t] <= size
                    /\ t \notin early /\ AtLeast("canary") => Fits(req[t])
CallShapes == \A t \in Threads : CallShape(t)

\* A release that is not its caller's has not got past the state of the slot.
Strays ==
    \A t \in stray : /\ back[t] = "release" /\ pc[t] \in {"config", "release"}
                      /\ blk[t] \in BlocksOf(size) /\ slots[blk[t]].st # "never"

\* Nothing is recorded before there is a row, no row is made before the table,
\* and no table before the configuration is read.
Tables ==
    /\ row => rows = 2
    /\ ~row => slots = Blank
    /\ \A t \in Threads : pc[t] = "row" => rows = 2
    /\ cfg # 2 => /\ rows = 0
                  /\ \A t \in Threads : pc[t] \in {"idle", "config", "reading", "plain", "push"}

\* A block is free, the program's, or in one call.
SoleAt(u) ==
    /\ free[u] \in {0, 1} /\ own[u] <= size
    /\ free[u] > 0 => own[u] = 0
    /\ free[u] > 0 \/ own[u] > 0 => u \in BlocksOf(size) /\ \A t \in Threads : Has(t) # u
    /\ \A t \in Threads : Has(t) = u =>
          u \in BlocksOf(size) /\ \A s \in Threads : Has(s) = u => s = t
Sole == \A u \in Units : SoleAt(u)

\* What a slot says of the block there.
SlotIsTrue(u) ==
    /\ Alive(u) =>
          /\ own[u] > 0 \/ \E t \in Threads : Releasing(t) /\ Has(t) = u
          /\ u \notin unseen /\ slots[u].req \in Requests
          /\ own[u] > 0 /\ "resize" \notin odd[u] => own[u] = slots[u].req
          /\ "early" \notin odd[u] /\ AtLeast("canary") => Fits(slots[u].req)
    /\ own[u] > 0 => Alive(u) \/ u \in unseen
    /\ slots[u].st = "freed" /\ u \in unseen =>
          /\ u \in BlocksOf(size) /\ free[u] = 0
          /\ \A t \in Threads : Has(t) = u => Releasing(t)
    /\ u \in unseen => {"door", "early"} \cap odd[u] # {}
Shadow ==
    /\ \A u \in Units : SlotIsTrue(u)
    /\ \A t \in Threads : Releasing(t) => Alive(Has(t)) \/ Has(t) \in unseen
    /\ \A t \in Threads : pc[t] = "freeing" => Alive(Has(t))
    /\ rowLive = Cardinality({u \in Units : Alive(u)})

\* What is in the units the checker looks at: a canary or poison while nobody
\* wrote there, something else where somebody did.
CanaryAt(p) ==
    Alive(p) /\ AtLeast("canary") =>
        /\ Fits(slots[p].req) /\ p \notin overran /\ "resize" \notin odd[p] =>
              \A u \in Guard(p, slots[p].req) : mem[u] = "canary"
        /\ p \in overran /\ odd[p] = {} => mem[p + slots[p].req] # "canary"
PoisonAt(p) ==
    /\ p \in BlocksOf(size) /\ AtLeast("poison") /\ slots[p].st = "freed"
    /\ "recycle" \notin odd[p] /\ p \notin unseen \cup scribbled
    => \A i \in Filled : mem[p + i - 1] = "poison"
ScribbleAt(p) ==
    p \in scribbled /\ odd[p] \cap {"door", "recycle"} = {} =>
        /\ p \in BlocksOf(size) /\ slots[p].st = "freed"
        /\ \E i \in Filled : mem[p + i - 1] # "poison"
Marks == \A p \in Units : CanaryAt(p) /\ PoisonAt(p) /\ ScribbleAt(p)

CheckInv ==
    TypeOK /\ CallShapes /\ Strays /\ Tables /\ Sole /\ Shadow /\ Marks /\ ProvenHasCause
=============================================================================
