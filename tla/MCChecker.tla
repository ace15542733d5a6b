------------------------------ MODULE MCChecker ------------------------------
(***************************************************************************)
(* A chunk of four units, two blocks of two or one of four; a canary is a   *)
(* unit.  Two threads make the tables together; one, once they are made,    *)
(* meets what the program may do.     Threads are interchangeable.       *)
(***************************************************************************)
EXTENDS Checker, TLC
CONSTANTS t1, t2
Symmetric == Permutations(Threads)
MC_Resize == {[callers |-> {t1}, wrongs |-> 0, ways |-> {"resize"}]}
MC_Setups ==
    {[callers |-> Threads, wrongs |-> 0, ways |-> {}]} \cup
    {[callers |-> {t}, wrongs |-> 0, ways |-> {"door", "resize"}] : t \in Threads} \cup
    {[callers |-> {t}, wrongs |-> 1, ways |-> {w}] :
        t \in Threads, w \in {"door", "resize", "recycle"}} \cup
    {[callers |-> Threads, wrongs |-> 1, ways |-> {}]}
=============================================================================
