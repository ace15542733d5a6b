------------------------------- MODULE MCDoors -------------------------------
(***************************************************************************)
(* A request so long that the chunks it takes do not fit the number they   *)
(* are counted in.  Eight stands for 2^32, and thirty-six words need nine  *)
(* chunks of four, or one.                                                 *)
(***************************************************************************)
EXTENDS Doors

DoorProducts == {<<1, 1>>}
=============================================================================
