---------------------------- MODULE ThreadCaches -----------------------------
(***************************************************************************)
(* Who owns which thread cache (src/src/alloc/host_allocator.cpp).         *)
(*                                                                         *)
(* A cache is one element of g_caches.  Its number is the owner id written *)
(* in the header of its chunks, so two holders of one id would be two      *)
(* threads writing the same free lists with no lock.  The ids are dealt    *)
(* from one word, g_free_ids: a thread takes one the first time it         *)
(* allocates and gives it back from its exit notice; a                     *)
(* SingleOwnerAllocator takes one when built and gives it back when        *)
(* destroyed.  Everything a cache holds is inherited by the next holder.   *)
(***************************************************************************)
EXTENDS Integers, FiniteSets

CONSTANTS Threads,   \* threads, each born once and dying at most once
          Objects,   \* SingleOwnerAllocator objects
          Ids        \* owner ids on offer (0 .. 62; 63 is the shared cache)

ASSUME IdAssumption ==
    /\ Ids \subseteq Nat
    /\ IsFiniteSet(Ids)
    /\ Threads \cap Objects = {}

NoCache == -1        \* a null thread slot, and kNoCacheId
Dying == -2          \* detail::kDyingCache: past the exit notice

VARIABLES free,      \* g_free_ids
          slot,      \* g_cache_slot of each thread
          armed,     \* what each thread's exit channel will be told
          channel,   \* whether g_cache_slot has an exit channel (exit_)
          unheard,   \* history: threads that stored a cache while it had none
          own,       \* cache_ of each SingleOwnerAllocator
          life,      \* "alive", "teardown", "notice", "late", "gone"
          pc,        \* where each thread is in take_cache_id and after it
          for,       \* on whose behalf: the thread itself or an object
          mask,      \* `m', the word as the thread last read it
          got,       \* the id it has just taken
          tag,       \* ThreadCache::tag, as WHO declared it (NoOne is 0)
          fill,      \* ThreadCache::fill, likewise
          wild       \* threads that wrote through the kDyingCache marker

NoOne == "no one"

exitvars == <<channel, unheard>>
idvars == <<free, slot, armed, own, life, pc, for, mask, got, exitvars>>
vars == <<idvars, tag, fill, wild>>

\* lowest_set: the id a word deals is its lowest bit.
Lowest(i, S) == i \in S /\ \A j \in S : i <= j

-----------------------------------------------------------------------------
Init ==
    /\ free = Ids
    /\ slot = [t \in Threads |-> NoCache]
    /\ armed = [t \in Threads |-> NoCache]
    /\ channel = FALSE /\ unheard = {}
    /\ own = [o \in Objects |-> NoCache]
    /\ life = [t \in Threads |-> "alive"]
    /\ pc = [t \in Threads |-> "idle"]
    /\ for = [t \in Threads |-> t]
    /\ mask = [t \in Threads |-> {}]
    /\ got = [t \in Threads |-> NoCache]
    /\ tag = [i \in Ids |-> NoOne]
    /\ fill = [i \in Ids |-> NoOne]
    /\ wild = {}

\* take_cache_id, the load.  cache() gets here when the slot is null; a
\* SingleOwnerAllocator constructor always does.
Load(t, whom) ==
    /\ pc[t] = "idle"
    /\ pc' = [pc EXCEPT ![t] = "take"]
    /\ for' = [for EXCEPT ![t] = whom]
    /\ mask' = [mask EXCEPT ![t] = free]
    /\ UNCHANGED <<free, slot, armed, own, life, got, tag, fill, wild, exitvars>>

\* cache(): a null slot asks for an id.  The runtime may allocate again in the
\* part of the teardown that follows the notice, and then finds the marker.  A
\* thread whose very first allocation comes that late is left out (README).
CacheLoad(t) ==
    /\ life[t] \in {"alive", "late"}
    /\ slot[t] = NoCache
    /\ Load(t, t)

ObjectLoad(t, o) ==
    /\ life[t] = "alive"
    /\ own[o] = NoCache
    /\ \A u \in Threads : pc[u] # "idle" => for[u] # o
    /\ Load(t, o)

\* Mutant of TakeCas: a store instead of the exchange.
TakeStore(t) ==
    /\ pc[t] = "take"
    /\ mask[t] # {}
    /\ \E i \in Ids :
          /\ Lowest(i, mask[t])
          /\ free' = mask[t] \ {i}
          /\ got' = [got EXCEPT ![t] = i]
    /\ pc' = [pc EXCEPT ![t] = "adopt"]
    /\ mask' = [mask EXCEPT ![t] = {}]
    /\ UNCHANGED <<slot, armed, own, life, for, tag, fill, wild, exitvars>>

\* take_cache_id, the exchange: m & (m - 1) turns the lowest bit off.
TakeCas(t) ==
    /\ pc[t] = "take"
    /\ mask[t] # {}
    /\ free = mask[t]
    /\ \E i \in Ids :
          /\ Lowest(i, mask[t])
          /\ free' = mask[t] \ {i}
          /\ got' = [got EXCEPT ![t] = i]
    /\ pc' = [pc EXCEPT ![t] = "adopt"]
    /\ mask' = [mask EXCEPT ![t] = {}]
    /\ UNCHANGED <<slot, armed, own, life, for, tag, fill, wild, exitvars>>

\* The exchange fails, as the weak one may, and `m' becomes what was there.
TakeRetry(t) ==
    /\ pc[t] = "take"
    /\ mask[t] # {}
    /\ mask' = [mask EXCEPT ![t] = free]
    /\ UNCHANGED <<free, slot, armed, own, life, pc, for, got, tag, fill, wild, exitvars>>

\* kNoCacheId: the thread goes through the shared cache, the object is empty.
TakeNone(t) ==
    /\ pc[t] = "take"
    /\ mask[t] = {}
    /\ pc' = [pc EXCEPT ![t] = "idle"]
    /\ for' = [for EXCEPT ![t] = t]
    /\ UNCHANGED <<free, slot, armed, own, life, mask, got, tag, fill, wild, exitvars>>

\* Mutant of Adopt: the tag of the last holder stays.
AdoptTagged(t) ==
    /\ pc[t] = "adopt"
    /\ pc' = [pc EXCEPT ![t] = "idle"]
    /\ for' = [for EXCEPT ![t] = t]
    /\ got' = [got EXCEPT ![t] = NoCache]
    /\ UNCHANGED <<free, life, mask, tag, fill, wild>>

\* What both do with the id: the tag of the last holder is not theirs.
Adopt(t) ==
    /\ pc[t] = "adopt"
    /\ tag' = [tag EXCEPT ![got[t]] = NoOne]
    /\ pc' = [pc EXCEPT ![t] = "idle"]
    /\ for' = [for EXCEPT ![t] = t]
    /\ got' = [got EXCEPT ![t] = NoCache]
    /\ UNCHANGED <<free, life, mask, fill, wild>>

\* Mutant of CacheSet: set_quiet, which stores and does not arm.
CacheSetQuiet(t) ==
    /\ for[t] = t
    /\ slot' = [slot EXCEPT ![t] = got[t]]
    /\ channel' = TRUE
    /\ UNCHANGED <<armed, own, unheard>>
    /\ Adopt(t)

\* cache(): notify_on_exit asks for the channel and set() stores, then arms
\* the channel if there is one.  The system may refuse it (no key left, no
\* FLS); cache() does not look at the answer, and does not ask again for a
\* thread whose slot is set.
CacheSet(t) ==
    /\ for[t] = t
    /\ slot' = [slot EXCEPT ![t] = got[t]]
    /\ channel' \in {channel, TRUE}
    /\ \/ channel' /\ armed' = [armed EXCEPT ![t] = got[t]] /\ UNCHANGED unheard
       \/ ~channel' /\ unheard' = unheard \cup {t} /\ UNCHANGED armed
    /\ UNCHANGED own
    /\ Adopt(t)

\* SingleOwnerAllocator::SingleOwnerAllocator.
ObjectSet(t) ==
    /\ for[t] \in Objects
    /\ own' = [own EXCEPT ![for[t]] = got[t]]
    /\ UNCHANGED <<slot, armed, exitvars>>
    /\ Adopt(t)

\* Mutant of ObjectDestroy: an empty object gives back the id it never had.
ObjectDestroyEmpty(t, o) ==
    /\ life[t] = "alive" /\ pc[t] = "idle"
    /\ free' = free \cup {own[o]}
    /\ own' = [own EXCEPT ![o] = NoCache]
    /\ UNCHANGED <<slot, armed, life, pc, for, mask, got, tag, fill, wild, exitvars>>

\* ~SingleOwnerAllocator: give_cache_id(cache_->id).  Any thread may do it.
ObjectDestroy(t, o) ==
    /\ life[t] = "alive" /\ pc[t] = "idle"
    /\ own[o] # NoCache
    /\ free' = free \cup {own[o]}
    /\ own' = [own EXCEPT ![o] = NoCache]
    /\ UNCHANGED <<slot, armed, life, pc, for, mask, got, tag, fill, wild, exitvars>>

\* The thread returns from its function and the system starts tearing it down.
Die(t) ==
    /\ life[t] = "alive" /\ pc[t] = "idle"
    /\ life' = [life EXCEPT ![t] = "teardown"]
    /\ UNCHANGED <<free, slot, armed, own, pc, for, mask, got, tag, fill, wild, exitvars>>

\* on_thread_exit, first write: set_quiet(dying).  The system hands over the
\* armed value once and forgets it.
NoticeMark(t) ==
    /\ life[t] = "teardown" /\ pc[t] = "idle"
    /\ armed[t] # NoCache
    /\ life' = [life EXCEPT ![t] = "notice"]
    /\ slot' = [slot EXCEPT ![t] = Dying]
    /\ UNCHANGED <<free, armed, own, pc, for, mask, got, tag, fill, wild, exitvars>>

\* Mutant of NoticeGive: the id is not given.
NoticeKeep(t) ==
    /\ life[t] = "notice"
    /\ armed' = [armed EXCEPT ![t] = NoCache]
    /\ life' = [life EXCEPT ![t] = "late"]
    /\ UNCHANGED <<free, slot, own, pc, for, mask, got, tag, fill, wild, exitvars>>

\* on_thread_exit, second write: give_cache_id(c->id).
NoticeGive(t) ==
    /\ life[t] = "notice"
    /\ free' = free \cup {armed[t]}
    /\ armed' = [armed EXCEPT ![t] = NoCache]
    /\ life' = [life EXCEPT ![t] = "late"]
    /\ UNCHANGED <<slot, own, pc, for, mask, got, tag, fill, wild, exitvars>>

\* The teardown ends.  A thread with nothing armed gets no notice: it never had
\* a cache, or stored it unheard and takes its id along.  One that was notified
\* is not notified again.
Gone(t) ==
    /\ pc[t] = "idle"
    /\ \/ life[t] = "late"
       \/ life[t] = "teardown" /\ armed[t] = NoCache
    /\ life' = [life EXCEPT ![t] = "gone"]
    /\ UNCHANGED <<free, slot, armed, own, pc, for, mask, got, tag, fill, wild, exitvars>>

\* vesta_host_push_tag, vesta_host_push_fill and AllocScope: the cache of the
\* calling thread, if ensure_cache gives it one.
PushTag(t) ==
    /\ life[t] # "gone" /\ pc[t] = "idle"
    /\ slot[t] \in Ids
    /\ tag' = [tag EXCEPT ![slot[t]] = t]
    /\ UNCHANGED <<idvars, fill, wild>>

PushFill(t) ==
    /\ life[t] # "gone" /\ pc[t] = "idle"
    /\ slot[t] \in Ids
    /\ fill' = [fill EXCEPT ![slot[t]] = t]
    /\ UNCHANGED <<idvars, tag, wild>>

\* vesta_host_pop_fill asks have_cache().
PopFill(t) ==
    /\ life[t] # "gone" /\ pc[t] = "idle"
    /\ slot[t] \in Ids
    /\ fill' = [fill EXCEPT ![slot[t]] = NoOne]
    /\ UNCHANGED <<idvars, tag, wild>>

\* vesta_host_pop_tag asks only whether the slot is null.
PopTag(t) ==
    /\ life[t] # "gone" /\ pc[t] = "idle"
    /\ slot[t] # NoCache
    /\ IF slot[t] \in Ids
         THEN tag' = [tag EXCEPT ![slot[t]] = NoOne] /\ UNCHANGED wild
         ELSE wild' = wild \cup {t} /\ UNCHANGED tag
    /\ UNCHANGED <<idvars, fill>>

Step(t) == TakeCas(t) \/ TakeRetry(t) \/ TakeNone(t) \/ CacheSet(t) \/ ObjectSet(t)
Exit(t) == NoticeMark(t) \/ NoticeGive(t) \/ Gone(t)
Label(t) == PushTag(t) \/ PopTag(t) \/ PushFill(t) \/ PopFill(t)

Next ==
    \E t \in Threads :
        \/ CacheLoad(t)
        \/ \E o \in Objects : ObjectLoad(t, o) \/ ObjectDestroy(t, o)
        \/ Step(t)
        \/ Die(t)
        \/ Exit(t)
        \/ Label(t)

Spec == Init /\ [][Next]_vars

\* The system finishes the teardown it started.
FairSpec == Spec /\ \A t \in Threads : WF_vars(Exit(t))

-----------------------------------------------------------------------------
(* Types. *)
Slots == Ids \cup {NoCache, Dying}
TypeOK ==
    /\ free \in SUBSET Ids
    /\ slot \in [Threads -> Slots]
    /\ armed \in [Threads -> Ids \cup {NoCache}]
    /\ own \in [Objects -> Ids \cup {NoCache}]
    /\ life \in [Threads -> {"alive", "teardown", "notice", "late", "gone"}]
    /\ pc \in [Threads -> {"idle", "take", "adopt"}]
    /\ for \in [Threads -> Threads \cup Objects]
    /\ mask \in [Threads -> SUBSET Ids]
    /\ got \in [Threads -> Ids \cup {NoCache}]
    /\ tag \in [Ids -> Threads \cup {NoOne}]
    /\ fill \in [Ids -> Threads \cup {NoOne}]
    /\ wild \in SUBSET Threads
    /\ channel \in BOOLEAN /\ unheard \in SUBSET Threads

\* An id is in a thread's hands from the exchange that takes it to the write
\* that gives it back.
HasId(t, i) == got[t] = i \/ slot[t] = i \/ (life[t] = "notice" /\ armed[t] = i)

(* A cache has one holder at a time, and none while its id is on offer: the *)
(* notice clears the slot BEFORE it gives the id back.                      *)
SoleHolder ==
    \A i \in Ids :
        /\ i \in free =>
              (\A t \in Threads : ~HasId(t, i)) /\ (\A o \in Objects : own[o] # i)
        /\ \A t, u \in Threads : HasId(t, i) /\ HasId(u, i) => t = u
        /\ \A o, p \in Objects : own[o] = i /\ own[p] = i => o = p
        /\ \A t \in Threads, o \in Objects : ~(HasId(t, i) /\ own[o] = i)

(* No id leaves with a dead thread: what is neither on offer nor in an      *)
(* object belongs to a thread that can still give it back.  The one way out *)
(* is a cache stored while the system refused the exit channel: "worse, not *)
(* broken" (thread_slot.h) is one id less for each such thread.             *)
NoIdLost ==
    \A i \in Ids :
        \/ i \in free
        \/ \E o \in Objects : own[o] = i
        \/ \E t \in Threads : life[t] \notin {"late", "gone"} /\ HasId(t, i)
        \/ \E t \in unheard : slot[t] = i

(* The tag a cache counts under was declared by the thread that holds it,   *)
(* never by the thread that held it before.                                 *)
TagIsOwn ==
    \A t \in Threads : slot[t] \in Ids => tag[slot[t]] \in {NoOne, t}

(* What makes the ownership inductive: where each thread can be, and what   *)
(* it then holds.                                                           *)
Placed(t) ==
    /\ pc[t] = "adopt" <=> got[t] \in Ids
    /\ pc[t] = "adopt" => slot[t] # got[t]
    /\ pc[t] # "idle" => life[t] = "alive"
    /\ pc[t] # "idle" /\ for[t] = t => slot[t] = NoCache
    /\ pc[t] # "idle" => for[t] \in Objects \cup {t}
    /\ t \in unheard => /\ slot[t] \in Ids /\ armed[t] = NoCache
                         /\ life[t] \in {"alive", "teardown", "gone"}
    /\ t \notin unheard =>
          /\ life[t] \in {"alive", "teardown"} => slot[t] = armed[t]
          /\ life[t] = "notice" => slot[t] = Dying /\ armed[t] \in Ids
          /\ life[t] \in {"late", "gone"} => slot[t] \in {NoCache, Dying} /\ armed[t] = NoCache
          /\ life[t] = "late" => slot[t] = Dying

\* One thread builds an object at a time, and only one that has no cache.
Building ==
    \A t \in Threads :
        pc[t] # "idle" /\ for[t] \in Objects =>
            /\ own[for[t]] = NoCache
            /\ \A u \in Threads : pc[u] # "idle" /\ for[u] = for[t] => u = t

OwnerInv == TypeOK /\ SoleHolder /\ Building /\ \A t \in Threads : Placed(t)

(* No thread uses the marker of a finished thread as if it were a cache.    *)
MarkerUntouched == wild = {}

(* A thread that had a cache gives its id back once it is torn down, unless *)
(* the exit channel was refused when it stored it.                          *)
IdComesBack ==
    \A t \in Threads, i \in Ids :
        slot[t] = i /\ life[t] = "teardown" /\ t \notin unheard ~> i \in free
=============================================================================
