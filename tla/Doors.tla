--------------------------------- MODULE Doors ---------------------------------
(***************************************************************************)
(* What the program calls: malloc, calloc, realloc, memalign and free, and  *)
(* whom each of them goes to (malloc_define.cpp and malloc_interpose.cpp,   *)
(* two builds of the same doors; host_alloc_zeroed, host_realloc and        *)
(* host_usable_size of host_allocator.cpp).  A block comes from the         *)
(* bootstrap arena, a chunk of small blocks, a span, the system or the C    *)
(* library, and everything that happens to it later goes by its address.    *)
(*                                                                         *)
(* Addresses and sizes count words, of which a chunk's header and a         *)
(* bootstrap block's take one each, and sizes have the width of size_t.     *)
(* What a word holds is who wrote it last.  Which free chunks the pool      *)
(* still has together is SpanPool's matter: here it may have them or not.   *)
(***************************************************************************)
EXTENDS Integers, FiniteSets, FiniteSetsExt

CONSTANTS Builds,       \* "define": malloc_define.cpp; "wrap": malloc_interpose.cpp alone
          BootWords,    \* kBootBytes
          ChunkWords,   \* kChunkBytes
          NumChunks,    \* of the region
          MaxSmallWords, \* kMaxSmall: here, the one class there is
          MaxSpanChunks, \* kMaxSpanChunks
          Page,
          LazyMin,      \* kLazyZeroMin
          SparseMin,    \* kSparseDirectMin
          TableSlots,   \* kDirectSlots
          SystemRoom,   \* bound: words the system has, from SystemBase on
          Top, Narrow,  \* 2^64 and 2^32: the widths of a size and of a number of chunks
          DoorSizes,    \* what is asked of malloc, realloc and memalign
          Products,     \* what is asked of calloc: <<count, size>>
          Alignments,
          MaxServed     \* bound: calls that may hand out a block

RegionBase == ((BootWords + ChunkWords - 1) \div ChunkWords) * ChunkWords
SystemBase == RegionBase + NumChunks * ChunkWords
LibraryBase == SystemBase + SystemRoom
Words == 0 .. LibraryBase + MaxServed * ChunkWords - 1
RegionChunks == 0 .. NumChunks - 1

ASSUME DoorsAssumption ==
    /\ {ChunkWords, MaxSmallWords, Page, Top, Narrow} \subseteq Nat \ {0}
    /\ {BootWords, NumChunks, MaxSpanChunks, LazyMin, SparseMin, TableSlots, SystemRoom,
        MaxServed} \subseteq Nat
    /\ Builds \subseteq {"define", "wrap"} /\ ChunkWords % Page = 0
    /\ DoorSizes \subseteq 0 .. Top - 1 /\ Products \subseteq (0 .. Top - 1) \X (0 .. Top - 1)
    /\ Alignments \subseteq Nat \ {0}

VARIABLES build,    \* of Builds
          active,   \* allocator_active
          heap,     \* everybody's memory: see DoorsInit
          inUse,   \* what the program has: [p, asked, tag]
          given,      \* the block just handed out: [p, tag, keep, zero] or NothingGiven
          handed    \* blocks handed out so far

doorVars == <<build, active, heap, inUse, given, handed>>

NothingGiven == [p |-> 0, tag |-> 0, keep |-> 0, zero |-> 0]
NoAddress == -1

DoorsInit ==
    /\ build \in Builds /\ active = FALSE
    /\ heap = [bootUsed |-> 0,                                \* g_boot_used
               sizeAt |-> [w \in 0 .. BootWords - 1 |-> 0],   \* headers of the arena
               cursor |-> 0,                                  \* g_chunk_next
               cls |-> [c \in RegionChunks |-> 0],            \* of a span, in chunks
               magic |-> [c \in RegionChunks |-> "none"],
               free |-> {},                                   \* chunks of the pool
               small |-> {},                                  \* free small blocks
               table |-> {},                                  \* g_direct: [at, n]
               library |-> {},                                \* [at, n]
               lost |-> {},                                   \* chunks nobody has
               mem |-> [w \in Words |-> 0]]
    /\ inUse = {} /\ given = NothingGiven /\ handed = 0

-----------------------------------------------------------------------------
(* Addresses.                                                                *)
Up(n, to) == ((n + to - 1) \div to) * to
Stretch(p, n) == p .. p + n - 1
InArena(p) == p \in 0 .. BootWords - 1                           \* from_bootstrap
InChunks(p) == p \in RegionBase .. SystemBase - 1                \* in_region
ChunkAt(p) == (p - RegionBase) \div ChunkWords                   \* chunk_of
BaseOf(c) == RegionBase + c * ChunkWords
Holding(hp, p) == {e \in hp.table : p \in Stretch(e.at, e.n)}    \* direct_bytes
Ours(hp, p) == InChunks(p) \/ Holding(hp, p) # {}

\* chunks_for: a 32-bit number of chunks.
ChunksFor(n) == (((n + 1 + ChunkWords - 1) % Top) \div ChunkWords) % Narrow
MaxSpanWords == MaxSpanChunks * ChunkWords - 1

\* host_usable_size; of others, malloc_usable_size.
Usable(hp, p) ==
    IF InChunks(p)
      THEN LET c == ChunkAt(p) IN
           CASE hp.magic[c] = "chunk" -> MaxSmallWords
             [] hp.magic[c] = "span" -> hp.cls[c] * ChunkWords - (p - BaseOf(c))
             [] OTHER -> 0
    ELSE IF Holding(hp, p) # {}
      THEN LET e == CHOOSE e \in Holding(hp, p) : TRUE IN e.n - (p - e.at)
    ELSE IF InArena(p) THEN hp.sizeAt[p - 1]
    ELSE Max({e.n : e \in {x \in hp.library : x.at = p}})

-----------------------------------------------------------------------------
(* Who serves: each gives the ways a request may end, [p, hp, fresh], with   *)
(* NoAddress for a null pointer.                                               *)
Way(p, hp, fresh) == [p |-> p, hp |-> hp, fresh |-> fresh]
Refuse(hp) == Way(NoAddress, hp, FALSE)

Written(hp, range, tag) == [hp EXCEPT !.mem = [w \in Words |-> IF w \in range THEN tag ELSE @[w]]]

\* boot_alloc.
BootTakes(body) == body + 1
Boot(hp, n) ==
    LET body == IF n = 0 THEN 1 ELSE n
        at == hp.bootUsed
    IN IF body > BootWords \/ BootTakes(body) > BootWords - at THEN {Refuse(hp)}
       ELSE {Way(at + 1, [Written(hp, {at}, -1) EXCEPT !.bootUsed = @ + BootTakes(body),
                                                       !.sizeAt[at] = body], FALSE)}

\* The C library, external: it puts blocks of its own where nothing is.
Library(hp, n) ==
    LET at == Max({LibraryBase} \cup {e.at + ChunkWords : e \in hp.library})
    IN IF n > ChunkWords THEN {Refuse(hp)}
       ELSE {Way(at, [hp EXCEPT !.library = @ \cup {[at |-> at, n |-> n]}], FALSE)}

\* alloc_direct: pages of the system, which it zeroes, if the table has room.
Direct(hp, n) ==
    LET bytes == Up(n, Page)
        top == Max({SystemBase} \cup {e.at + e.n : e \in hp.table})
    IN IF n > Top - 1 - Page \/ Cardinality(hp.table) = TableSlots
          \/ bytes > LibraryBase - top
         THEN {Refuse(hp)}
         ELSE {Way(top, Written([hp EXCEPT !.table = @ \cup {[at |-> top, n |-> bytes]}],
                                Stretch(top, bytes), 0), TRUE)}

\* Chunks of the pool, or of the region for the first time.
SpanAt(hp, c, k) == [hp EXCEPT !.magic[c] = "span", !.cls[c] = k, !.free = @ \ Stretch(c, k)]
Spanned(hp, k) ==
    LET runs == IF k > MaxSpanChunks THEN {} ELSE {c \in hp.free : Stretch(c, k) \subseteq hp.free}
        pooled == {Way(BaseOf(c) + 1, SpanAt(hp, c, k), FALSE) : c \in runs}
        new == IF hp.cursor + k > NumChunks THEN {Refuse(hp)}
               ELSE {Way(BaseOf(hp.cursor) + 1,
                         SpanAt([hp EXCEPT !.cursor = @ + k], hp.cursor, k), TRUE)}
    IN pooled \cup new

\* alloc_span.
Long(hp, n) ==
    LET region == Spanned(hp, ChunksFor(n)) IN
    IF n <= MaxSpanWords THEN region
    ELSE (Direct(hp, n) \ {Refuse(hp)}) \cup region

\* A block of a chunk, or of a new one.
Small(hp) ==
    IF hp.small # {} THEN {Way(Min(hp.small), [hp EXCEPT !.small = @ \ {Min(hp.small)}], FALSE)}
    ELSE LET chunks == hp.free \cup ({hp.cursor} \cap RegionChunks)
             Carved(c) == {BaseOf(c) + 1 + i * MaxSmallWords :
                              i \in 0 .. (ChunkWords - 1) \div MaxSmallWords - 1}
         IN IF chunks = {} THEN {Refuse(hp)}
            ELSE {Way(BaseOf(c) + 1,
                      [hp EXCEPT !.magic[c] = "chunk", !.free = @ \ {c},
                                 !.cursor = IF c = @ THEN @ + 1 ELSE @,
                                 !.small = Carved(c) \ {BaseOf(c) + 1}], FALSE) : c \in chunks}

\* host_alloc.
HostAlloc(hp, n) == IF n <= MaxSmallWords THEN Small(hp) ELSE Long(hp, n)

\* malloc: before the allocator is in force, the arena of one build or the
\* library of the other.
FreshBlock(hp, n) ==
    IF active THEN HostAlloc(hp, n)
    ELSE IF build = "define" THEN Boot(hp, n) ELSE Library(hp, n)

-----------------------------------------------------------------------------
(* free.                                                                     *)
\* host_free, and free_body's ways; the link of a free small block is in it.
HostFree(hp, p) ==
    IF ~InChunks(p) THEN [hp EXCEPT !.table = @ \ Holding(hp, p)]
    ELSE LET c == ChunkAt(p) IN
         IF hp.magic[c] = "chunk"
           THEN [Written(hp, {p}, -1) EXCEPT !.small = @ \cup {p}]
         ELSE IF hp.magic[c] = "span"
           THEN [Written(hp, {BaseOf(c) + 1}, -1) EXCEPT !.magic[c] = "none",
                                           !.free = @ \cup Stretch(c, hp.cls[c])]
         ELSE hp

\* free and __wrap_free.
FreeBlock(hp, p) ==
    IF Ours(hp, p) THEN HostFree(hp, p)
    ELSE IF InArena(p) THEN hp
    ELSE [hp EXCEPT !.library = {e \in @ : e.at # p}]

-----------------------------------------------------------------------------
(* realloc.                                                                  *)
Copied(hp, from, to, n) ==
    [hp EXCEPT !.mem = [w \in Words |-> IF w \in Stretch(to, n) THEN @[from + w - to] ELSE @[w]]]
Least(m, n) == IF m < n THEN m ELSE n

\* A new block, the old one's words, and the old one given back, unless there
\* is no new one.
Moved(ways, hp, p, n) ==
    {IF w.p = NoAddress THEN Refuse(w.hp)
     ELSE Way(w.p, FreeBlock(Copied(w.hp, p, w.p, Least(Usable(hp, p), n)), p), FALSE) : w \in ways}

\* try_extend_span: the free chunks on the right, or those past the cursor.
Extended(hp, c, want) ==
    LET more == c + hp.cls[c] .. c + want - 1
        grown == [hp EXCEPT !.cls[c] = want, !.free = @ \ more]
    IN IF more \subseteq hp.free THEN {grown}
       ELSE IF hp.cursor = c + hp.cls[c] /\ c + want <= NumChunks
              THEN {[grown EXCEPT !.cursor = c + want]}
       ELSE {}

\* The chunks that n words from p on reach over.
ChunksOver(c, p, n) == ((p - BaseOf(c) + n + ChunkWords - 1) \div ChunkWords) % Narrow

\* host_realloc.
HostRealloc(hp, p, n) ==
    LET c == ChunkAt(p)
        inPlace == IF InChunks(p) /\ hp.magic[c] = "span" /\ ChunksOver(c, p, n) > hp.cls[c]
                     THEN Extended(hp, c, ChunksOver(c, p, n)) ELSE {}
    IN IF Usable(hp, p) >= n THEN {Way(p, hp, FALSE)}
       ELSE {Way(p, g, FALSE) : g \in inPlace} \cup Moved(HostAlloc(hp, n), hp, p, n)

\* realloc and __wrap_realloc.  The library's own, external, copies too.
ReallocBlock(hp, p, n) ==
    IF Ours(hp, p) THEN HostRealloc(hp, p, n)
    ELSE IF InArena(p) THEN Moved(FreshBlock(hp, n), hp, p, n)
    ELSE Moved(Library(hp, n), hp, p, n)

-----------------------------------------------------------------------------
(* calloc.                                                                   *)
\* Whole pages given back and taken again: zero, headers that were there too.
Reborn(hp, range) ==
    [Written(hp, range, 0) EXCEPT
        !.magic = [c \in RegionChunks |-> IF BaseOf(c) \in range THEN "none" ELSE @[c]]]

\* lazy_zero: the pages inside go and come back, the ends are written; or the
\* system keeps them and all is written; or they do not come back.  Pages it
\* refuses to let go of but makes unreachable end the process, and have no way.
LazyZero(hp, p, n) ==
    LET first == Up(p, Page)
        last == ((p + n) \div Page) * Page
        c == ChunkAt(p)
    IN IF n < LazyMin \/ last <= first THEN {Way(p, Written(hp, Stretch(p, n), 0), FALSE)}
       ELSE {Way(p, Written(Reborn(hp, first .. last - 1), Stretch(p, n), 0), FALSE),
             Way(p, Written(hp, Stretch(p, n), 0), FALSE),
             Refuse([hp EXCEPT !.lost = @ \cup Stretch(c, hp.cls[c]), !.magic[c] = "none"])}

Zeroed(hp, p, n) == {Way(p, Written(hp, Stretch(p, n), 0), FALSE)}
Then(ways, Next(_)) == UNION {IF w.p = NoAddress THEN {w} ELSE Next(w) : w \in ways}

\* host_alloc_zeroed; a program that said it will touch little of it gets it
\* from the system if it can.  The mutant believes every block is fresh.
TrustAll(w) == TRUE
IsZero(w) == w.fresh
HostAllocZeroed(hp, n, sparse) ==
    LET Clean(w) == IF IsZero(w) THEN {w} ELSE LazyZero(w.hp, w.p, n)
        Plain(w) == Zeroed(w.hp, w.p, n)
        direct == IF sparse /\ n >= SparseMin THEN Direct(hp, n) \ {Refuse(hp)} ELSE {}
    IN IF n <= MaxSmallWords THEN Then(HostAlloc(hp, n), Plain)
       ELSE IF direct # {} THEN direct
       ELSE Then(Long(hp, n), Clean)

\* calloc and __wrap_calloc.  The arena has never been written.
TooMany(count, size) == count # 0 /\ size > (Top - 1) \div count
CallocBlock(hp, count, size, sparse) ==
    LET n == (count * size) % Top
        Clean(w) == Zeroed(w.hp, w.p, n)
    IN IF TooMany(count, size) THEN {Refuse(hp)}
       ELSE IF active THEN HostAllocZeroed(hp, n, sparse)
       ELSE IF build = "define" THEN Boot(hp, n)
       ELSE Then(Library(hp, n), Clean)

\* host_alloc_aligned_freeable, below memalign, aligned_alloc and
\* posix_memalign: a span, and a pointer into its first chunk.
AlignedWays(hp, n, align) ==
    LET want == IF n + align <= MaxSmallWords THEN MaxSmallWords + 1 ELSE n + align
        Raised(w) == {Way(Up(w.p, align), w.hp, FALSE)}
    IN IF align <= 1 THEN HostAlloc(hp, n)
       ELSE IF align >= ChunkWords \/ n > Top - 1 - align THEN {Refuse(hp)}
       ELSE Then(HostAlloc(hp, want), Raised)

-----------------------------------------------------------------------------
(* The program.                                                              *)
Activate == ~active /\ active' = TRUE /\ UNCHANGED <<build, heap, inUse, given, handed>>

NothingOwed == given = NothingGiven

\* The answer to a call that may hand out a block.
Answer(w, others, asked, tag, keep, zero) ==
    /\ handed' = handed + 1 /\ heap' = w.hp
    /\ IF w.p = NoAddress THEN UNCHANGED <<inUse, given>>
       ELSE /\ inUse' = others \cup {[p |-> w.p, asked |-> asked, tag |-> tag]}
            /\ given' = [p |-> w.p, tag |-> tag, keep |-> keep, zero |-> zero]
    /\ UNCHANGED <<build, active>>

MallocDoor(n) ==
    /\ NothingOwed /\ handed < MaxServed
    /\ \E w \in FreshBlock(heap, n) : Answer(w, inUse, n, handed + 1, 0, 0)

CallocDoor(count, size, sparse) ==
    /\ NothingOwed /\ handed < MaxServed
    /\ \E w \in CallocBlock(heap, count, size, sparse) :
          Answer(w, inUse, count * size, handed + 1, 0, count * size)

\* Before the allocator is in force these end the process.
MemalignDoor(n, align) ==
    /\ NothingOwed /\ handed < MaxServed /\ active
    /\ \E w \in AlignedWays(heap, n, align) : Answer(w, inUse, n, handed + 1, 0, 0)

ReallocDoor(b, n) ==
    /\ NothingOwed /\ handed < MaxServed /\ n > 0
    /\ \E w \in ReallocBlock(heap, b.p, n) :
          Answer(w, inUse \ {b}, n, b.tag, Least(b.asked, n), 0)

\* free, and realloc to nothing.
FreeDoor(b) ==
    /\ NothingOwed
    /\ heap' = FreeBlock(heap, b.p) /\ inUse' = inUse \ {b}
    /\ UNCHANGED <<build, active, given, handed>>

\* The program writes all it was given.
Use ==
    /\ given # NothingGiven
    /\ heap' = Written(heap, Stretch(given.p, Usable(heap, given.p)), given.tag)
    /\ given' = NothingGiven
    /\ UNCHANGED <<build, active, inUse, handed>>

DoorsNext ==
    \/ Activate
    \/ \E n \in DoorSizes : MallocDoor(n)
    \/ \E q \in Products, sparse \in BOOLEAN : CallocDoor(q[1], q[2], sparse)
    \/ \E n \in DoorSizes, align \in Alignments : MemalignDoor(n, align)
    \/ \E b \in inUse, n \in DoorSizes : ReallocDoor(b, n)
    \/ \E b \in inUse : FreeDoor(b)
    \/ Use

DoorsSpec == DoorsInit /\ [][DoorsNext]_doorVars

-----------------------------------------------------------------------------
\* Whoever serves a block, and however it was raised, grown or moved, it has
\* the length asked for, and host_usable_size says no less.
BlocksAreWhole == \A b \in inUse : Usable(heap, b.p) >= b.asked

\* A program that writes all that malloc_usable_size says it has harms no
\* other block, and nothing else writes in it: not the arena's headers, the
\* links of free blocks or the pages a calloc gives back.
ContentsKept ==
    \A b \in inUse :
        b.p = given.p \/ \A w \in Stretch(b.p, Usable(heap, b.p)) : heap.mem[w] = b.tag

\* A realloc keeps what the block had, wherever it came from, and a calloc's
\* block is zero to its end, though only what is not fresh is cleared.
PromiseKept ==
    given # NothingGiven =>
        /\ \A w \in Stretch(given.p, given.keep) : heap.mem[w] = given.tag
        /\ \A w \in Stretch(given.p, given.zero) : heap.mem[w] = 0

\* Every block goes back to whoever served it, a raised pointer too: no chunk,
\* mapping or block of the library is without an owner, and none has two.
EachToItsOwn ==
    LET spans == {c \in RegionChunks : heap.magic[c] = "span"}
        smalls == {c \in RegionChunks : heap.magic[c] = "chunk"}
        Of(range) == Cardinality({b \in inUse : b.p \in range})
        held == UNION {Stretch(c, heap.cls[c]) : c \in spans}
    IN /\ 0 .. heap.cursor - 1 = heap.free \cup heap.lost \cup smalls \cup held
       /\ Cardinality(heap.free) + Cardinality(heap.lost) + Cardinality(smalls)
            + MapThenSumSet(LAMBDA c : heap.cls[c], spans) = heap.cursor
       /\ \A c \in spans : Of(Stretch(BaseOf(c), ChunkWords)) = 1
       /\ \A e \in heap.table : Of(Stretch(e.at, e.n)) = 1
       /\ \A e \in heap.library : Of({e.at}) = 1
       /\ \A b \in inUse : b.p \notin heap.small

\* What C promises of malloc, calloc, realloc, memalign and free, whoever
\* served the block and whatever door it comes back through.
DoorsKeepFaith == BlocksAreWhole /\ ContentsKept /\ PromiseKept /\ EachToItsOwn
===============================================================================
