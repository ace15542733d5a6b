----------------------------- MODULE MCFirstUse ------------------------------
(***************************************************************************)
(* Three threads make the first calls of a process (MCLongRequests has them *)
(* once one of them has been made).                                         *)
(***************************************************************************)
EXTENDS FirstUse
CONSTANTS t1, t2, t3
=============================================================================
