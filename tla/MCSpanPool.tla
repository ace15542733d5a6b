----------------------------- MODULE MCSpanPool ------------------------------
(***************************************************************************)
(* Two threads, one with a cache, and a region of four chunks: enough to    *)
(* split a span and merge it again, to park below and above the ceiling, to *)
(* sweep while the other frees, and to grow a span into its neighbour or    *)
(* into the cursor.                                                         *)
(***************************************************************************)
EXTENDS SpanPool
CONSTANTS t1, t2
MC_Setups ==
    {[policy |-> "locked", grow |-> Threads, trim |-> {}],
     [policy |-> "hybrid", grow |-> {}, trim |-> {t1}],
     [policy |-> "deferred", grow |-> {t2}, trim |-> {}]}
MC_Growing == {[policy |-> "hybrid", grow |-> Threads, trim |-> Threads]}
=============================================================================
