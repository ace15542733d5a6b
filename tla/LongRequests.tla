----------------------------- MODULE LongRequests ----------------------------
(***************************************************************************)
(* Requests longer than a span (src/src/alloc/host_allocator.cpp:           *)
(* host_alloc_slow, alloc_span): the first use of the allocator composed    *)
(* with the blocks the system serves.  Such a request asks the system       *)
(* first; refused there, or with the table full, it goes to the region like *)
(* any other, and is the one that reserves it if nobody has.                *)
(***************************************************************************)
EXTENDS FirstUse, Sequences

CONSTANTS Addresses, DirectSlots

ASSUME LongAssumption == DirectSlots \in Nat /\ None \notin Addresses

VARIABLES mapped, table, live, dpc, blk,   \* of DirectBlocks
          refused   \* threads whose alloc_direct came back with nothing

dvars == <<mapped, table, live, dpc, blk>>
lvars == <<vars, dvars, refused>>

D == INSTANCE DirectBlocks WITH pc <- dpc

LInit == Init /\ D!Init /\ refused = {}

Outside(t) == dpc[t] = "idle"    \* not inside a step of DirectBlocks

-----------------------------------------------------------------------------
(* A request of any length; a short one goes straight to the region. *)
Begin(t) ==
    /\ Outside(t)
    /\ ActiveLoad(t) \/ Again(t)
    /\ UNCHANGED <<dvars, refused>>

Answer(t) ==
    /\ Outside(t)
    /\ Call(t)
    /\ refused' = refused \ {t}
    /\ UNCHANGED dvars

\* alloc_direct for a long one: a mapping, or the system has none.
AskSystem(t) ==
    /\ pc[t] = "region" /\ t \notin refused
    /\ \/ D!Map(t) /\ UNCHANGED refused
       \/ Outside(t) /\ refused' = refused \cup {t} /\ UNCHANGED dvars
    /\ UNCHANGED vars

\* The call ends with the block in the table.
Enter(t) ==
    /\ D!Register(t)
    /\ Step(t, "start")
    /\ UNCHANGED <<active, classes, region, base, reserved, refused>>

TableFull(t) == D!RegisterFull(t) /\ UNCHANGED <<vars, refused>>

\* os_free, of a block the table had no room for or of one given back.
Release(t) ==
    /\ D!Unmap(t)
    /\ refused' = IF pc[t] = "region" THEN refused \cup {t} ELSE refused
    /\ UNCHANGED vars

FreeLong(t) ==
    /\ pc[t] = "start"
    /\ D!Free(t) \/ D!DirectTake(t)
    /\ UNCHANGED <<vars, refused>>

LNext ==
    \E t \in Threads :
        \/ Begin(t) \/ Answer(t) \/ AskSystem(t) \/ Enter(t) \/ TableFull(t)
        \/ Release(t) \/ FreeLong(t)

\* A thread inside a call goes on running.
LSpec == LInit /\ [][LNext]_lvars /\ \A t \in Threads : WF_lvars(Answer(t))

-----------------------------------------------------------------------------
\* The shape of the state; the table is never written past its slots.
LTypeOK == TypeOK /\ D!TypeOK /\ refused \subseteq {t \in Threads : pc[t] = "region"}

\* The table and the mappings are as DirectBlocks says when the blocks come
\* from calls that fall back to the region.
TableIsExact == D!TableIsExact
NoMappingLost == D!NoMappingLost

\* What makes them inductive: a thread inside a step of DirectBlocks is at
\* alloc_direct, not yet refused, or has not begun a request.
Asking ==
    /\ \A t \in Threads : dpc[t] # "idle" => pc[t] \in {"start", "region"} /\ t \notin refused
    /\ \A t \in Threads : dpc[t] = "register" => pc[t] = "region"

LongInv == FirstInv /\ D!TableInv /\ LTypeOK /\ Asking
=============================================================================
