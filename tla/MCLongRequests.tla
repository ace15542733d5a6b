--------------------------- MODULE MCLongRequests ---------------------------
(***************************************************************************)
(* Three threads, so that one makes the region and two wait for it; four    *)
(* addresses and a table of two slots, so that it fills and holes open      *)
(* before the last entry.                                                   *)
(***************************************************************************)
EXTENDS LongRequests
CONSTANTS t1, t2, t3, a1, a2, a3, a4
=============================================================================
