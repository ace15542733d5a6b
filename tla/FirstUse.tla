------------------------------ MODULE FirstUse -------------------------------
(***************************************************************************)
(* The first allocations of a process (src/src/alloc/host_allocator.cpp:   *)
(* allocator_active, ensure_region; ensure_big_region is the same with its  *)
(* own state).  The allocator decides it is in force and builds its class   *)
(* table; the region is reserved by the first thread that needs it, and the *)
(* others wait for it.                                                      *)
(***************************************************************************)
EXTENDS Integers, FiniteSets

CONSTANTS Threads,
          FirstAlone,    \* a thread makes the first call before there are others
          None

ASSUME FirstUseAssumption == FirstAlone \in BOOLEAN /\ None \notin Threads

VARIABLES active,   \* g_active_state: 0 not asked, 1 in force, 2 deciding
          classes,  \* g_class_of has been built
          region,   \* g_region_state: 0 untouched, 1 being made, 2 ready, 3 none
          base,     \* g_region_base and g_region_end: which reservation they are
          reserved, \* reservations the system has granted
          pc

vars == <<active, classes, region, base, reserved, pc>>

Init ==
    /\ active = 0 /\ classes = FALSE
    /\ region = 0 /\ base = 0 /\ reserved = 0
    /\ pc = [t \in Threads |-> "start"]

Step(t, step) == pc' = [pc EXCEPT ![t] = step]

-----------------------------------------------------------------------------
(* allocator_active. *)
ActiveLoad(t) ==
    /\ pc[t] = "start"
    /\ FirstAlone => active = 1 \/ \A u \in Threads : pc[u] = "start"
    /\ Step(t, IF active = 0 THEN "decide"
               ELSE IF active = 1 THEN "region"
               ELSE "refused")                  \* host_alloc_slow: no_fallback
    /\ UNCHANGED <<active, classes, region, base, reserved>>

\* Mutant of Decide: in force before it is ready.
DecideOpen(t) ==
    /\ pc[t] = "decide"
    /\ active' = 1
    /\ Step(t, "build")
    /\ UNCHANGED <<classes, region, base, reserved>>

\* It stays off while it decides, for a call of its own that came back here.
Decide(t) ==
    /\ pc[t] = "decide"
    /\ active' = 2
    /\ Step(t, "build")
    /\ UNCHANGED <<classes, region, base, reserved>>

BuildClasses(t) ==
    /\ pc[t] = "build"
    /\ classes' = TRUE
    /\ Step(t, "open")
    /\ UNCHANGED <<active, region, base, reserved>>

Open(t) ==
    /\ pc[t] = "open"
    /\ active' = 1
    /\ Step(t, "region")
    /\ UNCHANGED <<classes, region, base, reserved>>

-----------------------------------------------------------------------------
(* ensure_region, for the first chunk. *)
Outcome == IF region = 2 THEN "served" ELSE "nothing"

RegionLoad(t) ==
    /\ pc[t] = "region"
    /\ Step(t, IF region \in {2, 3} THEN Outcome ELSE "claim")
    /\ UNCHANGED <<active, classes, region, base, reserved>>

\* Mutant of Claim: a load and a store instead of the exchange.
ClaimStore(t) ==
    /\ pc[t] = "claim"
    /\ region' = 1
    /\ Step(t, "reserve")
    /\ UNCHANGED <<active, classes, base, reserved>>

Claim(t) ==
    /\ pc[t] = "claim"
    /\ region' = IF region = 0 THEN 1 ELSE region
    /\ Step(t, IF region = 0 THEN "reserve" ELSE "wait")
    /\ UNCHANGED <<active, classes, base, reserved>>

\* os_reserve_largest, external: the system grants one or it does not.
Reserve(t) ==
    /\ pc[t] = "reserve"
    /\ reserved' = reserved + 1
    /\ Step(t, "base")
    /\ UNCHANGED <<active, classes, region, base>>

ReserveRefused(t) ==
    /\ pc[t] = "reserve"
    /\ region' = 3
    /\ Step(t, "nothing")
    /\ UNCHANGED <<active, classes, base, reserved>>

SetBase(t) ==
    /\ pc[t] = "base"
    /\ base' = reserved
    /\ Step(t, "publish")
    /\ UNCHANGED <<active, classes, region, reserved>>

Publish(t) ==
    /\ pc[t] = "publish"
    /\ region' = 2
    /\ Step(t, "served")
    /\ UNCHANGED <<active, classes, base, reserved>>

\* Mutant of Wait: it waits for a region, not for an answer.
WaitReady(t) ==
    /\ pc[t] = "wait"
    /\ region = 2
    /\ Step(t, Outcome)
    /\ UNCHANGED <<active, classes, region, base, reserved>>

Wait(t) ==
    /\ pc[t] = "wait"
    /\ region # 1
    /\ Step(t, Outcome)
    /\ UNCHANGED <<active, classes, region, base, reserved>>

Again(t) ==
    /\ pc[t] \in {"served", "nothing"}
    /\ Step(t, "start")
    /\ UNCHANGED <<active, classes, region, base, reserved>>

Call(t) ==
    \/ Decide(t) \/ BuildClasses(t) \/ Open(t)
    \/ RegionLoad(t) \/ Claim(t) \/ Reserve(t) \/ ReserveRefused(t)
    \/ SetBase(t) \/ Publish(t) \/ Wait(t)

Next == \E t \in Threads : ActiveLoad(t) \/ Call(t) \/ Again(t)

Spec == Init /\ [][Next]_vars

\* A thread inside a call goes on running.
FairSpec == Spec /\ \A t \in Threads : WF_vars(Call(t))

-----------------------------------------------------------------------------
\* The shape of the state; the region is reserved once at most.
TypeOK ==
    /\ active \in 0 .. 2 /\ classes \in BOOLEAN /\ region \in 0 .. 3
    /\ base \in 0 .. reserved /\ reserved \in 0 .. 1
    /\ pc \in [Threads -> {"start", "decide", "build", "open", "region", "claim", "reserve",
                           "base", "publish", "wait", "served", "nothing", "refused"}]

\* A thread that goes on to cut chunks finds the class table built and the
\* bounds of the region in place, whoever made them, and in whatever order the
\* others came.
ServedIsReady ==
    \A t \in Threads :
        /\ pc[t] \notin {"start", "decide", "build", "refused"} => classes
        /\ pc[t] = "served" => base # 0 /\ region = 2

\* No thread is sent away because another is deciding (host_alloc is "safe from
\* any thread"): the answer would be no_fallback, which ends the process.
NobodyRefused == \A t \in Threads : pc[t] # "refused"

\* A thread that needs the region gets an answer, also when the one that was
\* making it was refused by the system.
CallEnds == \A t \in Threads : pc[t] = "wait" ~> pc[t] \in {"served", "nothing"}

\* What makes it inductive: one thread at a time is making the region, and what
\* it and the others have seen of it so far.
Maker(t) == pc[t] \in {"reserve", "base", "publish"}
Making ==
    /\ active = 1 => classes
    /\ region = 0 => reserved = 0
    /\ region = 2 => base # 0
    /\ \A t \in Threads :
          /\ Maker(t) => region = 1 /\ \A u \in Threads : Maker(u) => u = t
          /\ pc[t] = "reserve" => reserved = 0
          /\ pc[t] = "base" => reserved # 0
          /\ pc[t] = "publish" => base # 0

FirstInv == TypeOK /\ ServedIsReady /\ Making
=============================================================================
