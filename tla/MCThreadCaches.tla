--------------------------- MODULE MCThreadCaches ----------------------------
(* Model values for ThreadCaches: fewer ids than threads and objects want,  *)
(* so ids run out, come back and are inherited.                             *)
EXTENDS ThreadCaches
=============================================================================
