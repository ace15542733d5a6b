# vesta_alloc in TLA+

A formal model of `vesta_alloc`, the host allocator of the vesta language, as
TLA+ modules translated from the C++ source: thread caches, small blocks, the
span pool and the lock-free stacks under it, the start of the process, the
doors a program comes in by, the checker, and the parts that live beside them
(call sites, interned stacks, thread slots, scratch arenas, pages for code).
With it are TLC configurations that check the modules on small instances, and
proofs, checked by TLAPS, that the most delicate of the properties hold for
every instance.

All paths are relative to the repository. `HA` is
`src/alloc/host_allocator.cpp`, `HH` is `include/util/alloc/host_allocator.h`,
`HL` is `include/util/alloc/host_allocator_layout.h`, `HC` is
`src/alloc/host_allocator_c.cpp`, `SAN` is `src/alloc/sanitizer.cpp`.
`PROJECT.json` says for every definition which lines it stands for.

To run a model: `tlc -config MCSmallBlocks.cfg MCSmallBlocks` (the same for the
other `.cfg` files; `MCX_y.cfg` goes with `MCX`). To check a proof:
`tlapm SmallBlocks_proofs.tla`.

## 1. The system

A request goes to one of four places, by its size, and a free finds its way
back by the address alone:

    host_alloc --> thread cache: batch, list, remote stack     up to 16 KiB
              |        \--> grow: a chunk of 64 KiB of the region
              |             grow_big: a chunk of 1 MiB of the big-class region
              |--> span: whole chunks                          up to 256 chunks
              |        \--> span cache, parked stacks, free lists, the cursor
              \--> direct block: a mapping of its own          above that

    host_free --> the header of the chunk the address is in: owner and class
              --> or the table of direct blocks

### 1.1 Components

**Thread caches and owner ids** (HA 561-814, HC). *State:* `g_free_ids`, a
word with a bit per id on offer; `g_caches`; for each thread a slot that is
null, its cache, or the marker `kDyingCache`; the tag and the fill a cache
counts and allocates under. *Operations:* `take_cache_id`, `give_cache_id`,
`cache()`, `on_thread_exit`, the construction and destruction of a
`SingleOwnerAllocator`, push and pop of a tag or a fill. *Interaction:* the
operating system calls the exit notice; the id is written in the headers of
chunks and so decides who may touch their blocks without a lock. *Hard:* ids
change hands while other threads are dying; the runtime allocates again after
the notice; the system may refuse the exit channel. *Correct when* a cache has
one holder, no id is lost while the channel is there, the id of a dead thread
comes back, and the new holder does not inherit settings.

**Small blocks** (HH 857-941, 1353-1418, 1700-1770; HA 2128-2394, 2454-2563).
*State:* for each cache and class a list, a remote stack and the run of the
chunk being carved; one batch per cache; the header of each chunk; the cursors
of both regions; the lock of the shared cache. *Operations:* allocate (batch,
list, refill from the remote stack, growth in either region), free (own batch
or list, or the owner's remote stack), inheriting a cache. *Hard:* frees from
other threads race with the owner's refill; threads without an id share a
cache; a batch is spilled when the class changes; growth fails half-way.
*Correct when* every block is in exactly one place and in the place its
header says.

**Chunk reclaim** (HA 2579-2813). *State:* the count in each chunk's header
during the walk. *Operations:* `host_chunk_reclaim`. *Interaction:* takes
blocks out of the small-block structures and gives their chunks to the span
pool. *Correct when* a chunk given back holds nothing.

**Span stacks** (HA 1048-1135). *State:* one tagged head per length and ONE
array of links for all of them. *Operations:* `push`, `pop`. *Hard:* ABA, across
stacks. *Correct when* each is atomic to its callers.

**Span pool** (HA 919-1019, 1186-1265, 1429-1666, 1836-2126, 3164-3208).
*State:* the cursor; length and mark of each span's first chunk; the free
lists and the map of listed spans; span caches; parked stacks and their byte
count; two locks. *Operations:* `alloc_span`, `free_span`, `span_sweep`,
`host_span_trim`, and `host_realloc` growing a span where it is. *Hard:* spans
are split and merged under a lock while others are parked without one; the
ceiling is computed before it is used; a sweep is many short critical sections.
*Correct when* spans tile the region.

**Direct blocks** (HA 1685-1822, 2520-2545). *State:* a dense table of 512
under a lock. *Correct when* the table has exactly the blocks handed out.

**First use** (HA 296-539). *State:* `g_active_state`, `g_region_state` and
the bounds of the region. *Hard:* several threads need it first. *Correct when*
it is made once, nobody goes on early, and nobody waits for ever.

**The checker** (SAN 1558-1773, 4120-4298, 4565-4673, 5074-5401), compiled in
on demand. *State:* for each address of a chunk a slot (never seen, alive,
released; the size asked for), made with its table and its row on first use;
the canary behind each request and the poison in each released block.
*Operations:* `san_alloc` around an allocation, `san_on_free` before a release,
which may refuse it. *Interaction:* it wraps the allocator, which it never
tells; the doors of `SingleOwnerAllocator` and `PerThreadAllocator`, a resize
in place and chunk reclaim change what is in a block behind its back. *Hard:*
what it believes is stale in just those cases; threads meet while its tables
are made, and between the look at a slot and the write of it. *Correct when*
what it calls proven happened, what happened it says, and a block is released
once.

**The doors** (`src/interpose/malloc_define.cpp`, `malloc_interpose.cpp`; HA
3063-3340). *State:* the bootstrap arena and everybody's memory. *Operations:*
malloc, calloc, realloc, the aligned doors, free and `malloc_usable_size`, in
two builds: one that is malloc, and one whose calls the linker redirects.
*Interaction:* every other part that hands out memory is behind them, and they
find it again by the address alone. *Hard:* blocks handed out before the
allocator is in force come back after; a raised pointer is freed as if it were
the block; lazily zeroed pages; a realloc that crosses from one server to
another. *Correct when* a block is as long as asked, keeps what was written in
it, and goes back to who served it.

**Guarded blocks** (SAN, `san_alloc_guarded` to `san_realloc`). *State:* a
table of blocks and an index of their addresses, filled with exchanges and
never emptied; counters that make the level step back. *Hard:* threads place,
release, resize and look up at once; both tables fill. *Correct when* pages,
table and index agree, and verdicts are true.

**Interned stacks** (SAN, `intern_stack`, `pool_reserve`). *State:* the depot's
entries, the pool of frames and its cursor. *Hard:* entries are claimed and
filled without a lock, chunks of the pool are made by whoever comes first.
*Correct when* a number names its stack for ever.

**Epochs** (SAN, `axis_birth` to `epoch_cut`). *State:* what each site has
alive, totals, the cuts and their cells, the table of blocks the shadow does
not see. *Hard:* threads add without a lock and cut while others allocate; a
report swallows births. *Correct when* cuts do not mix and add up, marks are
kept and the peak is near a cut.

**Allocation sites** (`src/report/alloc_sites.cpp`). *State:* a row of entries
for each owner id, and two tables of histograms. *Hard:* three tables are made
by racing threads; a full row takes over its weakest entry and inherits its
count. *Correct when* what a site is said to have earned it did, and the sum is
all there was.

**Thread slots** (`src/os/thread_slot.cpp`). *State:* the keys of each slot and
of its exit channel, the counter of keys. *Hard:* threads reserve at once, keys
never go back, notices may set values again. *Correct when* a thread reads what
it stored and a notice tells the last of it.

**Pages for code** (HA 542-551, 2872-2975; `os_alloc_near` of
`src/os/os_memory.cpp`). *State:* the cursor of the big region, what the system
has mapped. *Hard:* the cursor moves before the end is looked at; a place that
is too far is given back; an anchor need not begin a page, and the distance is
measured from one and from the other. *Correct when* pages are one owner's, near
if said to be, and none is forgotten.

**ScratchArena** (`scratch_arena.h`, `.cpp`). *State:* which arena a thread
has, its chain of blocks, the marks. *Hard:* the size of a block is doubled
until the request fits, in 64 bits; more threads than arenas prepared, and one
that is refused works in the first. *Correct
when* what nested phases borrow stays apart until the right mark.

**SmallVector** (`include/util/alloc/small_vector.h`). *State:* elements inside
or on the heap. *Hard:* nobody looks whether the block was refused. *Correct when*
it holds the sequence its operations spell, in a block of its own.

**Names of code** (`src/report/alloc_csv.cpp`). *State:* the tables of
stretches, markers and modules a program declares. *Correct when* an address
and a file get the name declared closest around them.

**The rest**: the call-site patch, the OS wrappers, memory routines, symbol
parsers, the formatting of reports, tags and size buckets, benchmarks, tests
and tools. Section 8 says why they stay out.

### 1.2 How they interact

- A chunk number and its header are the only thing the parts share. Small
  blocks and spans take chunks from the same cursor; reclaim turns a chunk of
  blocks into a span; a span never becomes a chunk of blocks again unless the
  cursor is where it came from.
- The owner id in a chunk's header is a cache's number. Whoever holds the id
  works on the cache without a lock: the safety of small blocks rests on
  `ThreadCaches!SoleHolder`.
- The span pool uses each stack of parked spans as if push and pop were one
  step: that rests on the refinement of `ParkedSpans` by `SpanStack`.
- Small blocks, spans, direct blocks, the bootstrap arena and the C library
  meet in the doors, where an address is all there is to tell them apart.
- The checker, the guarded blocks, the interned stacks, the epochs and the
  sites are told of allocations and share no memory with the allocator nor with
  one another: a number of a stack or of a site is all they hand over.
- The exit notice is the only callback; system calls (reserve, commit, map)
  may be granted or refused and are choices in the models.

## 2. Modules

| module | models | state to code |
|---|---|---|
| `ParkedSpans` | what a set of atomic stacks promises | (abstract) |
| `SpanStack` | `SpanStack::push`, `pop`: one action per atomic access | `head` the tagged word, `next` = `g_span_next`, `pc`/`old`/`link` the locals of a call |
| `ThreadCaches` | ids, slots, exit notices, tags and fills | `free` = `g_free_ids`, `slot` = `g_cache_slot`, `channel` = its `exit_`, `armed` = what the exit channel will be told, `own` = `SingleOwnerAllocator::cache_`; `unheard` is history |
| `BlockHeap` | what small blocks promise the program | (abstract) |
| `SmallBlocks` | batch, list, remote stacks, growth, shared cache | `freeList`, `batch`, `batchCls`, `bigRun` = fields of `ThreadCache`; `remote` = `g_remote`; `header` = `ChunkHeader` |
| `ChunkReclaim` | extends `SmallBlocks` with the reclaiming walk | `count` = `ChunkHeader::extra`, `given` the chunks freed as spans; `met`, `torn` are history |
| `SpanHeap` | what spans promise the program | (abstract) |
| `SpanPool` | the pool and its three tiers | `list` = `g_span_free`, `map` = `g_free_span_map`, `parked` = `g_span_recycle`, `bytes` = `g_recycle_bytes`, `cursor` = `g_chunk_next` |
| `DirectBlocks` | the table of direct blocks | `table` = `g_direct`, `mapped` what the system has mapped |
| `FirstUse` | `allocator_active`, `ensure_region` | `active`, `region`, `base` = the words of the same name |
| `LongRequests` | composes `FirstUse` and `DirectBlocks`: requests too long for a span ask the system first and the region after | `dpc` where a thread is in `DirectBlocks`, `refused` that the system had nothing |
| `Checker` | `san_alloc`, `san_on_free`, the making of their tables, and what goes past them | `slots` = a row of `g_rows`, `rows` = `rows_state`, `cfg` = the state of `ensure_config`, `mem` what is in the units of the chunk; `own`, `unseen`, `odd`, `overran`, `scribbled`, `raced` are history, read by no action of the checker |
| `Doors` | malloc and its kin in both builds, `host_realloc`, `host_usable_size`, `host_alloc_zeroed` with `lazy_zero` | `heap` everybody's memory: bootstrap arena, headers, direct table, system, library, and who wrote each word last; `inUse` what the program has |
| `Guarded` | guard-page blocks: allocate, release, size, resize, step back | `table` = `g_guarded`, `gindex` = `g_gindex`, `misses`/`skip` = `g_guard_misses`/`g_guard_skip`, `pages` the system's |
| `StackDepot` | `intern_stack`, `pool_reserve`, one action per exchange | `depot` = `g_depot`, `frames`/`chunkMade` = `g_pool`, `poolUsed` = `g_pool_used` |
| `Epochs` | births, deaths, marks, cuts, the table of big blocks | `lives` = `g_live`, `totals` = the `g_*_total` words, `epochs`/`cells` = `g_epochs`/`g_cells`, `big` = `g_big`, `cutBusy` = `g_cut_busy` |
| `AllocSites` | `record_alloc_site`, the making of its tables, `merge_sites` | `entries` = a row of `g_table` with its totals in `g_hist` and `g_bytes_hist`, `skipped`, `evicted` = `g_overflow` |
| `ThreadSlots` | `ThreadSlot::ensure`, `get`, `set`, `set_quiet`, `notify_on_exit`, and the system running destructors | `slotKey`, `exitKey` = `slot_`, `exit_`; `keyCount` = `g_key_count`; `stored` = `g_tls_slots` |
| `RegionPages` | `host_alloc_pages`, `take_big_chunks`, `host_free_pages`, `os_alloc_near` | `bigNext` = `g_big_next`, `world` the system's map, `wish` the locals of a call; `served`, `misfit`, `returned` are history |
| `ScratchArenas` | getting an arena, `allocate`, marks and scopes | `chain`, `current` the blocks, `nextArena` = `g_next_arena`, `sharing` who works in the first arena, `scopes` the marks held; `lent`, `astray` are history |
| `SmallVectors` | every operation that changes a `SmallVector` | `vec` the fields, `heaps` the blocks of `host_alloc`, `fate` what became of the program; `ideal` the sequence it should be, `refused`: history |
| `CodeNames` | declaring code, files and modules, and looking them up | `code`, `markers`, `declared` = `g_code`, `g_markers`, `g_declared` |
| `Companions` | the eleven parts that share no memory, side by side | `part` says which one moves |
| `ThreadCaches_proofs`, `DirectBlocks_proofs`, `LongRequests_proofs`, `SmallBlocks_proofs`, `SpanPool_proofs`, `Checker_proofs`, `CompanionParts_proofs`, `Companions_proofs` | theorems about the module each is named after (`ChunkReclaim` in `SmallBlocks_proofs`; `FirstUse` in `LongRequests_proofs`; `SpanStack`, `RegionPages`, `ScratchArenas` and `AllocSites` in `CompanionParts_proofs`; `ThreadSlots`, `StackDepot`, `Guarded` and `SmallVectors` in `Companions_proofs`) | |
| `MC*` | constants, symmetry | |

`ChunkReclaim` composes with `SmallBlocks` by extending it: its next-state
relation is that of `SmallBlocks` plus the steps of the walk.
`LongRequests` has `FirstUse` by `EXTENDS` and `DirectBlocks` by `INSTANCE`, and
its actions are theirs, joined where one call passes from one to the other.
`SpanPool` and `SmallBlocks` stand on `ParkedSpans` and on `SoleHolder`: they
take a push, a pop, or the taking of an id as one step, which `SpanStack` and
`ThreadCaches` justify. `SpanStack`, `SmallBlocks` and `SpanPool` each carry an
`INSTANCE` of their abstract specification with the refinement mapping, checked
as a property.

`Companions` puts in one behaviour the parts that have no variable in common.
They are `SpanStack`, `AllocSites`, `StackDepot`, `ThreadSlots`, `Guarded`,
`Epochs`, `RegionPages`, `ScratchArenas`, `Doors`, `SmallVectors` and
`CodeNames`, each with its own `...Spec`. Every invariant speaks of one part
and no step of a part reads another, so a state in which two have moved is a
pair of states already seen: one part moves in a behaviour, chosen in the first
state, and the rest stay in their initial ones. What is checked of each part is
exactly what its own specification would be checked for.

### What is a step

A step is a stretch of code with at most one access to memory another thread
may change at that moment. In `SpanStack` and `ThreadCaches` every load, store
and exchange of a shared word is a step, and a weak exchange may fail for no
reason. In `SmallBlocks` the pop of a block is two steps (read the next one,
write it back), because only the lock or the sole ownership makes that safe;
the push of a freed block on a remote stack is two steps; taking the whole
stack is one, as it is one exchange in the code. In `SpanPool` what is done
under `g_span_lock` and read nowhere else is one step, but the loops that
absorb neighbours are one step per neighbour. Atomic accesses are taken as
sequentially consistent: the acquire and release annotations are not modelled.

### What the code does that a reader might not expect, and the models keep

- A cache is inherited with everything in it: the lists, the batch, the remote
  stacks and the fill the last holder pushed (only the tag is reset). A thread
  that pushes a fill and ends without popping it leaves it to the next one.
- `host_alloc_refill` overwrites the list with what it took: right because it
  is called only with the list empty (`OnePlace`).
- A chunk taken from the cursor whose commit is refused is never used again
  (`lost` in `SpanPool`).
- A span grown beyond 256 chunks returns its memory when freed and its range is
  not used again.
- `take_chunks` computes the room left as an unsigned difference
  (`SpanPool!Fits`), which wraps when the cursor is past the end.

## 3. The runs

Passing runs; states are distinct states.

| run | shows | bounds | states |
|---|---|---|---|
| `companions` | the eleven parts of `Companions`, each with the properties below | see below | 909 thousand |
| `thread_caches` | one holder per cache, no id lost and ids come back but for threads without an exit channel, tags not inherited | 3 threads, 1 object, 2 ids | 434 thousand |
| `small_blocks` | each block in one place, the one its header says; the shared cache is locked; a chunk given back holds nothing and `BlockHeap` is implemented, whatever falls into the walk, up to a chunk freed with a block on a stack | 2 threads, 1 id, five programs (`MC_Setups`) | 887 thousand |
| `span_pool` | tiling, lists against marks, the byte count, implements `SpanHeap`, under the three policies | 2 threads (one with a cache), 4 chunks, spans of 1-2, requests of 1-3 | 1.1 million |
| `long_requests` | the region is made once and ready when used, every wait ends, the table of direct blocks is exact and no mapping is lost | 3 threads, 4 addresses, 2 slots | 126 thousand |
| `checker` | what the shadow says is true, what is called proven happened or has one of four causes, what happened is said, no block gets two places unless two releases of it meet | a chunk of 4 units; 2 threads making the tables or releasing one block, or one with doors, resizes, recycling and a wrong act | 3.6 million |

The properties of `companions`. A part with several says them as one named
conjunction; each conjunct has its own name, its own comment, and was seen to
fail under a mistake put into the code it is about.

| part | property | says |
|---|---|---|
| parked spans | `ParkedIsSound`, `ImplementsParkedSpans` | `TypeOK`, links spell the stacks, no span twice, a stale exchange fails; push and pop are atomic |
| sites | `SitesAreTrue` | floors are earned (merged list included), a row's bounds hold where windows do not overlap in part, nothing is uncounted, racing threads leave one table each |
| stacks of the checker | `DepotIsTrue` | a number names its stack for ever, copies are few, chunks are made once |
| thread slots | `SlotsAreOwn` | a thread reads what it stored, a notice tells the last value and comes once |
| guarded blocks | `GuardedIsWhole` | pages, table and index agree, from allocation to long after release |
| | `VerdictsAreTrue` | a lawful release is recognised, a second one begun later is told, nobody else is |
| | `ComesBack` | the level that stepped back asks the system again |
| epochs | `CurveIsTrue` | what is alive is what was born and has not died, the peak is near a cut, big blocks are found |
| | `CutsAreWhole` | cuts do not mix, add up to the totals, and no mark is dropped |
| pages | `PagesAreOwn` | pages are one owner's, near if said to be and past the window by less than a page if not, none left mapped with nobody; the region deals without gaps |
| arenas | `ScratchIsOwn` | phases stay apart, a request gets a block in which it fits, an arena is one thread's or the shared first |
| doors | `DoorsKeepFaith` | length, contents, zeroes, and everything back to who served it |
| vectors | `VectorsAreSequences` | a vector is the sequence its operations spell, its block nobody else's, its room what it says |
| names | `NamesAreRight` | the stretch measured there, else the nearest marker, of what the tables come to; the innermost module |

Violation runs, one per finding (section 4): `marker_written`,
`reclaim_while_freeing`, `cursor_past_end`, `first_use_race`, `false_overrun`,
`huge_request`.

### Why the bounds are enough for what they show

- *Caches.* Three threads on two ids with an object that also takes one: ids run
  out, a dead thread's id is inherited by a live one, and the third competes
  with either. Threads are born once; replacing one is a third thread.
- *Blocks.* With one id and two threads one has a cache and the other shares or
  inherits it. Two blocks a chunk let a list, a batch and a stack have a
  head and something behind it; two chunks let two classes, or two owners of
  one class, coexist. `BatchSlots = 2` lets a batch be full, partial and empty.
  `MC_Setups` names five programs: two batched classes with two chunks and
  threads that stay; the same with threads that end and leave their cache; a
  class of the big region; and reclaiming, with two chunks of one class and
  with a class the walk skips. Programs differ in what they ask, not in what
  the allocator may do.
- *Spans.* Four chunks, spans up to two and requests up to three: splits with
  and without a remainder, merges, a merge refused for length, a span too long
  for the lists, a request beyond the region. `CacheMax`, `RecycleMin` and
  `Share` are set so that cache and ceiling are both reached. Spans are grown
  under the locked policy by both threads and under the deferred one by the
  thread without a cache; `span_sweep` is asked for by a program under the
  hybrid one. So
  growing and sweeping each meet everything but each other.
- *Long requests.* Three threads: one makes the region and two wait. Four
  addresses and two slots: the table fills, a hole opens before the last entry,
  and an address just unmapped is mapped again.
- *Checker.* A canary is a unit and a block two or four: requests of one to
  three fit their class with a canary, move to the next because of it, or
  leave room behind it. `Setups` bounds who does what: two threads matter
  while the tables are made, and when both release one block; one wrong act with
  one way past the checker at a time, or two ways
  and no wrong act, are enough for each cause.
- *Stacks.* ABA needs a reader, another thread that pops two spans and pushes
  the first back, and a second stack for the span to visit. Two of each do it,
  as a mutant without a tag shows in a few steps. Four tags let the tag wrap.
- *Sites and interned stacks.* Tables smaller than what goes in, with collisions:
  a row of two for three sites, three slots of the depot for three stacks of
  which two hash alike, frames that do not fit what a chunk of the pool has
  left. Three calls of `intern_stack` let one fill, one meet it and one come
  after; four of `record_alloc_site` let a site that was thrown out come back.
- *Slots.* Two objects that each want a key and a channel make four keys; there
  are three, so one finds none. `MaxKeyCalls` lets a loser of the race waste one.
- *Guarded.* Six granules, a table of two and an index of five with two probes:
  both tables fill, a block may be in the first and only partly in the second.
  `Edges` has the guard before and behind. One misuse is enough for a verdict.
- *Epochs.* A cut every two allocations, two epochs and three cells kept: the
  third cut is lost, and cells run out inside one. `Plans` trades a mark for a
  report.
- *Pages.* A region of two big chunks in nine pages of two bytes: requests of one
  page and of three (two chunks), so that some do not fit; an anchor in the middle
  of a page and none, a reach of one page. Nothing wraps in the cursor: `Wanted`
  is far below `Word`; the code does not guard that.
- *Arenas.* Sizes of six bits, one arena prepared for two threads. A request of 59
  stands for one near 2^64: alone, no block is ever enough, for the doubling goes
  round to zero; behind a request of 5, what it needs goes round 64 and seems to
  fit. Two threads on one prepared arena let the other be refused and share it.
- *Doors.* Sizes on either side of every limit (a small block, a span, a direct
  block, a lazily zeroed one), products that overflow, one aligned door; three
  blocks, so that those of one server live beside those of another. A chunk is
  four words, its header one of them.
- *Vectors and names.* One element inside, so the second moves to the heap, where
  there may be no room. Eight tables of two stretches each, in order and not: apart,
  touching, a marker or a stretch inside a measured one, markers alone, and one with
  a null address. Paths that begin one another, with both bars.
- `setup` in `SmallBlocks`, `SpanPool` and `Checker`, and `plan`, `build` and
  `under` in the companions, are chosen once and never change: they let one run
  ask the same question of several small programs.
- In `Checker`, once two releases of one block meet (`raced`), the calls under way
  end and no others begin; in `ChunkReclaim`, once a chunk is freed with a block on a
  stack (`torn`), all ends. Each is the state where the structures have come
  apart, and what follows is undefined.
- `CursorBound` bounds how far the cursor is followed past the end of the
  region, which it does pass (section 4). `MaxWant`, `MaxNotes`, `MaxInterns`,
  `MaxKeyCalls`, `MaxSets`, `MaxAsks`, `MaxMisuse`, `MaxPlaces`, `MaxScratch`,
  `MaxBlocks`, `MaxDepth`, `MaxServed`, `MaxElements`, `MaxEdits`, `Land` and
  `SystemRoom` bound how much a program asks and how much there is.
- Deadlock is checked where the system never stops. It is off in
  `thread_caches` (all threads may be gone), in the block runs (all ids may
  be dead and all blocks out with a dead owner's threads), in `checker` (a
  thread of the program need not go on) and in `companions` (a program that has
  asked all it may).

## 4. Where the code and its documentation disagree

Each is one run that checks one property and fails.

1. **The cursor passes the end** (`cursor_past_end`, `CursorInRegion`). The
   comment of `take_chunks` says the cursor only moves when what is taken fits.
   `try_extend_span` moves it first and looks at the end afterwards, and leaves
   it past the end; from then on the unsigned difference in `take_chunks` makes
   everything fit. Needs a region filled to the end by a span that grows.
2. **A free during a reclaim** (`reclaim_while_freeing`, `GivenHoldNothing`).
   `host_chunk_reclaim` says it needs no quiescence. It empties the remote
   stacks, and later counts them again: a block another thread frees in between
   is counted as free, its chunk goes to the span pool, and the block stays in
   the stack, to be handed out later from inside a span. The step that frees such
   a chunk is `torn`, and `small_blocks`, where frees fall into the walk at any
   moment, shows that nothing else goes wrong: up to it every block has one place,
   a chunk given back holds nothing, and `BlockHeap` is implemented.
3. **The first call of two threads** (`first_use_race`, `NobodyRefused`).
   `host_alloc` says it is safe from any thread. Two threads that make the
   process's first two calls at once: one decides, the other reads "deciding",
   takes it for a call of its own that came back, and ends in `no_fallback`.
4. **The marker of a dead thread** (`marker_written`, `MarkerUntouched`).
   `vesta_host_pop_tag` says it is safe from any thread; after the exit notice
   the slot holds the marker, which is not null, and the tag is written through
   it. `vesta_host_pop_fill` next to it asks the right question.
5. **A resize in place** (`false_overrun`, `ProvenIsReal`). `sanitizer.h` says
   that where the end of a block moves the checker refreshes its canary.
   `host_realloc` answers the same block when it has room, and tells nobody: the
   slot keeps the old size, and a program that uses what it was given is told
   "PROVEN: written past the end of the block". The end may move up or down.

6. **A request near the top of `size_t`** (`huge_request`, `BlocksAreWhole`). HL
   says that `n > kMaxSpanBytes` and `chunks_for(n) > kMaxSpanChunks` are the
   same question. `chunks_for` adds a header and rounds up, which wraps, and
   answers in 32 bits: for such an `n` it says a small number, `alloc_span`
   finds that it fits, and the block is shorter than what was asked.

`ProvenHasCause` says which other wrong verdicts there are, as the passing run
shows them: a block popped by a door without the checker, or by a thread that
found the configuration being read, still looks released, so that its release is
called the second and the block is never pushed; and a recycled chunk has slots
of another time, so that the poison of a released block may be missed in it.

Smaller disagreements, met while modelling. Each is kept in the models as the
code does it; where a property would be false of it, the property says which
exception it makes.

- `alloc_sites_c.h:85` and `alloc_sites.cpp:358` say that the truth is in
  [count - over, count]. The lower bound always is one, of the merged list too
  (`FloorIsEarned`, proved). The upper bound need not be. In a row, a site that
  was thrown out and comes back takes a hole of its own window or inherits the
  least count there, and where that window overlaps others in part either may be
  less than what it was thrown out with: with three slots, windows of two and
  three sites, five calls of one thread do it (the third site takes the slot the
  second's window shares, and the second starts again at nothing in the slot it
  does not share). `RowsInBounds` therefore speaks of sites whose window is
  another's whole or not at all (`KeepsTogether`). In the merged list, `merge_sites`
  (`alloc_sites.cpp:466`) adds rows in some of which the site was thrown out, and
  loses what it had there, whatever the windows.
- `sanitizer.cpp:4916` does not look at what `index_insert` answers, though its
  comment (3258) says that a block of which not all is indexed must be known as
  such: an address inside such a block may not be recognised (`partial` in
  `Guarded`).
- `sanitizer.cpp:2184` says a rise is "what guarantees the PEAK gets a snapshot".
  A thread that finds
  another cutting gives up, and a release between the rise and the cut lowers it
  (`late` and `eased` in `Epochs`).
- `scratch_arena.h:294` says `placed()` is true while every block is within the
  window; the code keeps the answer of the last block asked for only
  (`scratch_arena.cpp:104`).
- `scratch_arena.h:534` says that each thread gets an arena of its own. One that the
  system refuses memory is handed the first (`scratch_arena.cpp:179`), to
  allocate, mark and go back in beside its owner with no lock. `ArenaIsOwn` says
  that this is the one way two threads come to share; of an arena that was shared
  (`astray`) nothing more is claimed.
- `scratch_arena.cpp:133` adds offset and size without looking whether they wrap,
  and the doubling at 87 goes to zero. A request near the top of `size_t` either
  never comes back (`stuck`), or seems to fit and is served memory that others hold:
  it makes an arena `astray` too. `OneBlockIsEnough` says that requests of up to
  half of the address space do neither.
- `host_allocator.cpp:801` says why the notice of a thread's end is asked for before
  its cache is stored; the answer, at 805, is not looked at. Refused (no key left),
  the cache is stored without it, and the id of that thread never comes back:
  "worse, not broken" (`thread_slot.h:243`). `NoIdLost` says that such threads
  (`unheard`) are the only way an id leaves.
- The comment in `san_on_free` (`sanitizer.cpp:5297`) says that a second release
  would push the block again, and that the answer is therefore false. The state is
  read at 5294 and written at 5395: two releases that both read it before either
  writes both push, and neither is told. So is the new holder's block pushed when
  a second release comes so late that somebody has the block again. `raced` is
  the history of just that, and the invariants of `Checker` hold until then. The
  same of guarded blocks: `VerdictsAreTrue` speaks of a release begun after the other
  was done.
- `os_memory.h:314` says that the window of `os_alloc_near` is measured from the
  anchor. It is, from the page of it (`os_memory.cpp:669`, `699`);
  `host_alloc_pages` measures from the anchor itself (`host_allocator.cpp:2943`).
  Pages for an anchor inside a page may so be past the window by less than a page.
  They are kept, and `placed` is false; `PlacedIsNear` says both.
- `take_big_chunks` moves the cursor before it looks at the end
  (`host_allocator.cpp:544`): a request that does not fit passes what was left, and
  nobody gets it. `RegionInOrder` says that nothing else is lost (`misfit`).
- `small_vector.h:752` (`grow`) and `727` (`copy_from`) do not look at the answer of
  `host_alloc`. Refused, an empty vector keeps the capacity it was to have and no
  block, so that `reserve` made no room and the next write goes past the elements
  inside; a copy does at once; any other vector ends the process at the copy of its
  elements. `RoomIsThere` says that these are the only ways.
- `alloc_csv.cpp:349` says a measured stretch always wins over a marker. In a table
  in order the code looks only at the last that begins at or below the
  address (319-339): a marker inside a measured stretch wins there, and behind a
  stretch inside another nobody answers. `RangeIsRight` says what is right of
  what the tables come to (`Reached`), and of all there is in them where those in
  order neither mix nor nest (`Searchable`).
- `alloc_csv_c.h:563` says of a marker that it reaches to the next measured
  stretch. In a table that is not in order the code (`alloc_csv.cpp:438`) goes
  past it; `RangeIsRight` asks which marker is nearest, not how far it reaches.
- `host_allocator.cpp:3270` says of a refused `os_decommit` that nothing was given
  away. It may fail after having taken the protection of the pages
  (`os_memory.cpp:736`), and the `memset` that follows faults. `Doors` has the
  refusals after which the process goes on; this end of it has no way there.

## 5. Fairness

Only two liveness properties are checked, each under the least fairness that
makes sense of it.

- `ThreadCaches!IdComesBack`, under `WF(Exit(t))`: the system finishes a
  teardown it has begun. Nothing is assumed of threads that are alive: they may
  stop, retry for ever, or never die.
- `FirstUse!CallEnds`, in `LongRequests` under `WF(Answer(t))`: a thread inside a call goes on
  running. The one that reserves the region is inside a call, which is why the
  ones that wait for it may rely on it; the code spins with no timeout.

The lock-free loops are not claimed to end for each thread, and they do not: an
exchange may fail for ever while others succeed.

## 6. What is proved

Each for every set of threads, stacks, spans, objects, ids, classes, addresses
and blocks, of any size. The argument is the usual one: `Init => Inv`,
`Inv /\ [Next]_vars => Inv'` with a step for each action, and the temporal
conclusion by PTL. What needs saying is the invariant.

**`CompanionParts_proofs`**: the parked stacks, the two parts that hand out
pages, and the allocation sites, each by itself.

`SpanStack` (assuming `StackAssumption`: at least one stack, spans
are positive numbers, at least two tags).

- The inductive invariant `StackInv` joins types, `Linked`, `Exclusive`,
  `StaleRefused` and what a thread knows in the middle of a call. `Linked` alone
  is not inductive: that a pop publishes the right link depends on the link
  having been read behind a head that is still the head, and that on the tag
  having moved by exactly `window` exchanges since.
- `LinksSpellStacks`, `NoSpanTwice`, `StaleHeadRefused` and, together with types,
  `ParkedSound`: what the run checks of the stacks.
- `Refinement`: every step of `SpanStack` is a step of `ParkedSpans` or leaves
  its variables alone. The linearization point is the successful exchange.

The code relies on 32 bits of tag being enough, and says so. That is the guard
`WindowOpen`: no call is overtaken by a whole turn of the tag. It is an
assumption about the scheduler, made visible; without it the theorem is false,
as in the code.

`RegionPages` (assuming `PagesAssumption`: the region lies in the land and the
land is below the width of an address).

- `PagesInv` joins shapes; `CursorCounts`, the cursor has moved by no more than the
  calls that took from it asked for, so it has not turned round; `Stages`, what a
  call has in hand is of the region and behind the cursor, or outside of it;
  `Grants`, the same of what was given, and that what was placed is in reach;
  `Untouched`, nothing past the cursor is anybody's; `RegionKept`, the region is
  never unmapped; `Separate` and `MappedIsHeld`. `PagesApart` alone is not
  inductive: a thread that took chunks has not mapped them yet, and that another
  one's are not the same is known of the cursor only; and a place the search
  maps is free land, so `MappedIsHeld` is what keeps it apart from what is held.
- `PagesAreOwned`: what `companions` checks of `RegionPages`, for any threads,
  region, window and addresses. Its hypothesis `RequestsFit(most)`: threads are
  finitely many, no request comes to more than `most` chunks, and all the requests
  together, from the start of the region on, end below the width of the cursor.
  Past it the cursor turns round and hands out chunks that have a holder: the
  property is false then. In the code the cursor has 64 bits.
- An anchor is a byte and pages are placed by page: that what was kept is past the
  window by less than a page is where the two measures meet (`PlacedIsNear`).
  `RegionInOrder` is carried beside `PagesInv`: what the region has dealt is what
  calls have in hand, what was given and what came back, without a gap.

`ScratchArenas` (assuming `ScratchAssumption`: a header has a size, the first
block is longer than it and no longer than the longest, which is a size).

- `ScratchInv` joins shapes; `GivenInTurn`, an arena is one thread's, or in the
  hands of the one thread that asks for it, or the first, shared by who was refused;
  `OwnersOnly`, only who uses a sound arena holds anything in it; `AsksRightly`, a
  request for which a block was added fits the block in hand; and for each arena not
  `astray` `BlocksFit`, `MarksRise`
  (marks stand one behind the other, none after what is filled) and
  `LoansStand` (what was borrowed before a mark stands before it). Without the
  last two `LentApart` is not inductive: going back to a mark frees what is behind
  it, and that nothing borrowed before it is there is a fact about when the mark
  was set. The lemmas `ServeFits`, `NextFits`, `OpenFits` and `CloseFits` say what
  one arena is after each operation, as values; `ArenaMove` that the others' do
  not change.
- `GrownIs`: the doubling ends, at the least power of two that is enough, and goes
  round the width of a size on no way there. Powers are a recursive function;
  that there is one (`PowerIs`) and that it grows is proved by the least
  argument where it would fail, in place of induction.
- `ScratchIsOwned`: what `companions` checks of `ScratchArenas`, for any threads,
  prepared arenas, requests of any size, chains and depth of marks, with refusals. Its
  hypothesis `BlocksDouble`: threads are finitely many, and twice the longest block
  is still a size.

`AllocSites` (assuming `SitesAssumption`: threads are finitely many, a window has
a slot and no more than there are, a site hashes to a slot).

- `SitesInv` joins shapes; `CallFits`, what a call has was published;
  `RowStands`, below; that the counts of all the rows, what was skipped and the
  calls under way are the calls begun; and `OneTableEach`.
- `RowStands` says of a row that it fits (`RowFits`) what its thread noted down.
  Each entry is of a site of its own, in the window of that site with no hole
  before it (`RowPlaced`), so that a site that is there is found and not
  entered twice; `RowHolds`, what it is said to have earned is backed; and
  `RowRemembers`: a site noted down once that is not in the row has a full
  window, of entries no less counted than it was. Without this last one the
  upper bound is not inductive, for what a site inherits on coming back is the
  least of those. It is inductive only where windows do not overlap in part, which
  is how the wider claim was found to be false (section 4).
- `Assumed` is what a call may yet find in the two tables of sizes: a row has
  sizes only of tables its calls had, so that what a site takes over is not more
  than it inherits.
- The merged list is two folds over all the rows. `SnapshotIs` says of it that
  each site is there once, in order of what it earned, and that each is backed
  by the threads together. It rests on who owns each entry (`AllOwned`): an
  entry merged from several is backed by that set of threads, and a thread is not
  counted twice since it has the site once. The library's folds and sums are
  taken apart once, into functions of their prefixes and of their subsets
  (`FoldSteps`, `SumIsFold`), and go by the least place where something would fail.
- `SitesAreBacked`: what `companions` checks of `AllocSites`, for any threads,
  sites, slots, windows and amounts; the bound on the calls is not used.

**`ThreadCaches_proofs`** (assuming `IdAssumption`: ids are a finite set of
naturals, threads and objects are different things).

- The inductive invariant `OwnerInv` joins types, `SoleHolder`, `Building` (one
  thread builds an object at a time) and `Placed` (what a thread holds at each
  stage of its life: one that has an exit channel and one that was refused it end
  differently). `SoleHolder` alone is not inductive: that giving an id
  back leaves nobody with it depends on the slot having been cleared before.
- `CachesHaveOneHolder`, `TypesCorrect`, and, with `OwnerInv` beside them,
  `NoIdIsLost` and `TagsAreOwn`: all the safety properties of the run, with
  refusals of the channel. An id is lost by a thread that was refused, and by
  nothing else.

**`DirectBlocks_proofs`** and **`LongRequests_proofs`** (assuming
`LongAssumption`: a number of slots, `None` is no address; and
`FirstUseAssumption`).

- `DirectBlocks!TableInv` joins types, `InHand` (the block of each thread inside
  a call is mapped, is nobody's yet or any more, and no two threads work on
  one), `Listed` (`TableIsExact` entry by entry, without counting) and
  `NoMappingLost`. `TableIsExact` alone is not inductive: that registering an
  address adds its first entry depends on no other call having it in hand.
  Each action of the table is a lemma, for `LongRequests` takes the actions
  into calls of its own.
- `FirstUse!FirstInv` joins types, `ServedIsReady` and `Making`: one thread at a
  time makes the region, and what it and the others have seen of it so far.
- `LongInv` joins both and says where a request is between them. From it
  `LongTypes`, `RegionIsReady`, `TableStaysExact`, `MappingsAreKept`: all the
  safety properties of the run.

**`SmallBlocks_proofs`** (assuming `BlockAssumption`: batched and big classes are
classes and none is both; capacities and slots are positive).

- `BlockInv` joins `TypeOK`; `Homes`: a free block is only in a place its header
  sends it to; `Apart`: the places that keep blocks are disjoint, and each keeps
  one once; `Accounted`: every carved block is in one of them; `Headers`: a
  chunk past a cursor has not been written, and a big run is of the cache and
  class that carve it; `Owners`: a cache is worked on by the thread that holds
  its id or, if it is shared, its lock; `Fresh`: what a
  thread in the middle of a call has read is still so. `OnePlace` alone, "every
  carved block is in exactly one place", is not inductive: a pop writes back
  what it read a step before, and that it was still there follows from `Owners`
  and `Fresh` only.
- `BlockTypes`, `HeadersRule`, `SharedOnlyLocked`, `BlocksHaveOnePlace`: all the
  safety properties that speak of `SmallBlocks`. `SharedOnlyLocked` needs
  `Resting` beside it: a thread at rest works on nothing.
- `Implements`: every step of `SmallBlocks` is a step of `BlockHeap` or leaves
  its variables alone. A block is allocated when it leaves its place, and freed
  when it is put back or pushed; the moves between batch, list and stacks, and
  the growth, are stutters.

These theorems are of `SmallBlocks!Spec`, the small blocks without
`host_chunk_reclaim`. The rest of the module is about `ChunkReclaim!RSpec`, where
the walk is too, and frees of other threads fall into it at any moment, between
the taking of a stack and its count as well. That is what breaks `GivenHoldNothing`
(finding 2), and the theorems say that it is all that breaks: their invariant is
`torn \/ ReclaimInv`, where `torn` is the history of that one step.

- `ReclaimInv` joins to `BlockInv`: `Walkers`, a thread walks the cache it is
  attached to; `Counted`, what is counted of a chunk is the number of its blocks in
  the owner's batch and in the lists of the classes visited, but for chunks of which
  a block was met on a stack (`met`), and nothing when nobody counts; `GivenGone`,
  the header of a chunk given back is as it was before the chunk was cut;
  `BigRunsBig`.
- `Counted` makes doom safe: the blocks counted of a chunk not met are distinct
  blocks of it, there are `Capacity` of those, so a full count means all of them
  (`FullIsAll`, by the cardinality of a product). What `scan_rebuild` leaves
  (`KeepIs`) has each block once, and no block of a chunk that goes. A chunk that
  was met and does not come to a full count stays, and harms nothing.
- `ActsKeepWalk` is the interference: `Acts` says what a step of another thread
  may touch (no list or batch of a cache that is not its own, no header below the
  cursor), and every action of `SmallBlocks` is one, the push on the stack of a
  cache that is being walked included.
- `GivenAreEmpty`, `WalksKeepRules` and `WalksImplement`: up to a torn step a chunk
  given back holds nothing, every block has one place under its header, and the
  caches serve as `BlockHeap` says; `WalksKeepShared` without any such reserve.
  They are the properties of the run `small_blocks`, for any constants. A walk
  ends with `BlockHeap!LetGo` of the doomed chunks; its other steps are stutters.

**`SpanPool_proofs`** (assuming `PoolAssumption`: the sizes are naturals, a region
has a chunk, caches keep no span longer than the lists do).

- `PoolInv` joins types and the existence of a map of the region: `kind` says of
  each chunk what begins there (a span of the program, listed, parked, cached, in
  a thread's hands, new chunks, lost ones, or nothing), `who` in which list, cache
  or hand, `size` how long it is. `Tiles`: what begins covers the chunks up to the
  cursor, each once. `Seats`, one conjunct for each tier: what the tier has is what
  the map says it has, with no repetition. `SizeAt`: the header has the length the
  map gives, but for chunks not committed yet. `LengthAt`: a span is in the list of its
  length unless the sweep is merging it. `GrowAt`: a span being grown is the program's,
  in one call's hands, and shorter than what is asked. Then `Hands`, what each
  thread knows in the middle of a call, and `Locks`.
- The map is no variable: a step is shown to have one after it by changing the one
  before it in the entry of one span (parked, popped, cached, freed), of two
  (absorbed, cut), of a stretch that crumbles into lost chunks, or at the cursor.
  None of the properties below is inductive: `Tiling` counts what
  covers a chunk, and says nothing of why a neighbour that is marked free may be
  absorbed; that takes `ListsAgree`, and that the lengths in the headers are those
  the tiling is made of.
- The two counts are sums over the chunks (`SumIs`), which one entry changes by
  its difference: `KeptOK` for the bytes a cache keeps, `CountOK` for those parked.
  A sum is there with the function of its partial sums, and the lemmas on it go by
  the least place where something would fail, in place of induction.
- `PoolTypes`, `ListsStayTrue`, `RegionIsTiled`, `CountStaysExact`: all the
  invariants of the run `span_pool`, for any threads, policy, region and ceiling,
  also once the cursor has run past the end of the region (finding 1).
- `PoolImplementsHeap`: every step hands out a span, takes one back, grows one
  where it is, or changes nothing the program sees (`Deals`); what is handed out
  or grown into overlaps nothing that is out, for the map after the step tiles.

**`Checker_proofs`** (assuming `CheckerAssumption`: classes and requests are
numbers of units a chunk has, a canary and the poison have at least one).

The theorems are of the code as it is, where a release reads the state of a slot in
one step and writes it in another, and a wrong release may begin at any moment once
the program has given a block up. Each holds until two releases of one hold meet
(`raced`), which is where the code lets both through: the invariant is
`raced \/ CheckInv`.

- `CheckInv` joins types; `CallShapes`: where each call is and goes on, and that
  the class of what it took has room for the request and, if it was grown, for
  the canary; `Tables`: nothing is recorded before its row is made; `Sole`: a
  block is free, the program's, or in one call that has it by right; `Strays`: a
  wrong release is before its look at the slot, for one that finds the block released
  ends there, and one that finds it alive has met another; `Shadow`: a slot says what became
  of the block there; `Marks`: canary and poison are whole where nobody wrote,
  and are not where somebody did; and `ProvenHasCause`. That a verdict has a
  cause is not inductive: it follows, at the release, from what `Marks` knew of
  the units in every state since the block was handed out.
- The lemma `BlockStep` says what is to be shown of a step that touches one
  block. It rests on arithmetic TLC does not see: blocks of a class do not
  overlap (`BlocksApart`), so nothing written in one, or in the unit behind it,
  is a unit the checker looks at in another (`Elsewhere`).
- `CheckTypes`, `ProvenIsCaused`, `ShadowTells`, `HeapIsWhole`: the invariants of
  the run `checker`; `MisuseIsCaught`: its action property, that the step which
  releases an overrun block, or hands out a scribbled one, says so.

**`Companions_proofs`**: the parts that share no memory, each by itself.

`ThreadSlots` (assuming `SlotsAssumption`: the counts are naturals and a null
pointer is no value).

- `SlotsInv` joins shapes, `KeysApart` (a key is one object's slot, one object's
  channel, or in the hands of the one thread that asked for it), `KeysClean`
  (nothing is in a key before it is an object's) and `ToldWasDue`. `ReadsItsOwn`
  alone is not inductive: the key that wins the exchange must be empty for every
  thread, those that stored in other objects meanwhile included.
- `SlotsOwn`: what `companions` checks of `ThreadSlots`, for any number of
  threads, objects, keys and values.

`StackDepot` (assuming `DepotAssumption`: there are finitely many threads and at
least one, a stack is cut to what fits a chunk).

- `DepotInv` joins shapes; `CallsApart`, an entry being filled is in the hands of
  one call; `FramesApart` and `ChunksThere`, what the pool gave to two entries
  does not overlap nor cross chunks, and the chunk is there before it is
  written; `FramesInHand` and `EntriesWhole`, what is in those frames while they
  are copied and ever after. That chunks are not crossed is arithmetic on a
  cursor that several calls move at once (`StartFits`).
- How often a stack is copied is a count, and no step of the code counts. The
  invariant says there is a map from entries to the threads that made them (an
  existential: the code keeps no such record) such that who made an entry
  found every place of the walk before it taken. Two entries of one stack then
  have two makers (`FewCopies`), since the second would have met the first.
- That a chunk is made once is a count of memory against the calls about to
  publish it; each step adds to both sides or moves one from one to the other.
- `DepotTrue`: what `companions` checks of `StackDepot`, for any threads, stacks,
  table and pool.

`Guarded` (assuming `GuardedAssumption`: a request is of at least one granule, as
the code refuses none; an entry looks at no more places than its table has).

- `GuardInv` joins shapes and `Strangers`, that the extents of two entries, of
  two calls under way, or of one of each share no granule. It rests on
  `PagesFollow`: whatever has an extent has no free page there, so what the system
  gives next lies elsewhere, and a released block is never given up.
- `Found` and `Indexed`: the places looked at before an entry's own are taken by
  others. Since nothing is ever taken out of the table or the index, this stays
  true; an entry named but not filled in (`Filed`) is that of one call, and
  nobody mistakes it for a block, having no bytes.
- `Hands`: a block is with the program, with a resize that may give it back, or
  with who releases it, and at most one of these. Without it a verdict on a
  lawful release could meet the mark another release left.
- `GuardedWhole` and `VerdictsTrue`: what `companions` checks of `Guarded` but
  `ComesBack`, for any threads, requests, tables and number of misuses.

`SmallVectors` (assuming `VectorsAssumption`: at least one element lives inside).

- `VectorsInv` holds until a write goes past a vector (`fate`). It joins shapes;
  `BlocksApart`, blocks are known by their ids; `Seated`, a vector is within itself
  with no more elements than fit there, or in a block
  of just its capacity; `Spells`, what stands at `data()` is the sequence;
  that no two vectors have one block and none is without; and that a capacity
  without room behind it was refused its block. The run's property
  counts owners; that the new block of a growing vector is nobody else's is a
  pigeonhole (`SpareIs`).
- `Turns` is what every operation on one vector comes to: the blocks of the others
  are the same set before and after. It composes (`TurnsOn`), so each operation
  is the chain of the private functions it calls: release, grow, copy, store.
- `VectorsKeep`: what `companions` checks of `SmallVectors`, for any vectors,
  elements, size within and length, whatever `host_alloc` refuses; no bound on the
  edits is used.

## 7. What is only model-checked

The doors, the epochs and the names; of the guarded blocks, that
stepping back is not for ever (`ComesBack`: a sum over threads); of the pages,
what happens past the width of the cursor. In particular liveness under fairness
(the prover does not
treat it, nor `ENABLED`), and properties that need induction over sequences or
sums of unknown length: the sums of `Epochs`, the searches of
`CodeNames`. No module uses RECURSIVE operators.

Assumptions the models make, apart from the bounds:

- The exit notice comes once for each thread. A thread whose very first
  allocation comes after its notices is left out (HA 771, which no property
  covers): whether the system then runs another round depends on the platform.
- `long_requests` checks `FirstUse` with `FirstAlone`: a thread makes the first
  call before there are others. Without it, finding 3.
- The program gives back each block once and does not touch it afterwards,
  but in `Checker` and `Guarded`, where its wrong acts are actions.
- A `SmallVector` is never given an element of itself as an argument: growing
  frees what the reference would point to.
- `RegionPages` takes requests far below the width of the cursor, so it never
  turns round; the theorem names it as a hypothesis.
- In `Doors` a call is one step: its races are those of the parts behind it.

## 8. Not modelled, and why

- The lock-free span policy: a `#error` in HL keeps it from being built.
- The call-site patch: machine code of one processor, made once under the
  caller's promise that nobody runs that code meanwhile.
- Memory routines (`mem/`): straight-line vector code, no state between calls.
- Symbols and DWARF, and the formatting of CSV reports: parsing and printing.
- The pairs of sites, the lifetimes and the sampling of the checker: counters
  added to without a decision that depends on them.
- Tags and size buckets: names and a logarithm.
- The ids of `PerThreadAllocator`: the code of `ThreadCaches` over a second
  bitmap. The baseline its statistics subtract is a counter.
- The Windows parts: fibre-local slots, `validate_direct_read`, which reads the
  processor's own thread block, and the hook that patches msvcrt's import table.
- The order of the two loads with which `direct_take` looks without the lock:
  the models are sequentially consistent, and acquire and release are not told
  apart.
- Fills other than `Sparse`, and the big-class region, in `Doors`: the first
  only write bytes, the second has the path of a small block.
- Benchmarks, tests and tools: programs around the library.
