---------------------------- MODULE MCCompanions -----------------------------
(***************************************************************************)
(* Each part at the size of its own hazards; t1 and t2 are the two threads *)
(* of every part but the stacks'.                                          *)
(*                                                                         *)
(*   stacks   two threads, two spans, two stacks that share the links, so  *)
(*            a thread that has read a head finds it again after another   *)
(*            popped both spans and parked one anew; four tags, they wrap  *)
(*   sites    three sites, two of one bucket, in a table of two slots;     *)
(*            one thread cannot cache what it finds                        *)
(*   depot    three stacks that hash to two slots of four, frames that do  *)
(*            not fit what is left of a chunk of the pool                  *)
(*   slots    two slots with a value and a notice each, four keys, one     *)
(*            key call too many                                            *)
(*   guarded  six granules for blocks of one to three, a table of two      *)
(*            slots and one misuse                                         *)
(*   epochs   a cut every two, two epochs kept, so a third closes one      *)
(*   pages    a region of two big chunks between nine pages of land, and   *)
(*            an anchor inside a page; what is asked for may not fit      *)
(*   scratch  six-bit sizes, so doubling a block wraps, and so does what   *)
(*            the largest request needs; one arena prepared for two threads *)
(*   doors    both builds, sizes either side of every limit, products that *)
(*            wrap                                                         *)
(*   vectors  one element within, so the second is on the heap             *)
(*   names    tables in order and not, stretches that end where others     *)
(*            begin, markers and stretches inside a stretch, paths that    *)
(*            begin one another                                            *)
(***************************************************************************)
EXTENDS Companions, TLC

CONSTANTS w1, w2, t1, t2, t3, v1, v2, c1, c2, c3

TwoStacks == {"one", "two"}

SiteHome == (c1 :> 0) @@ (c2 :> 1) @@ (c3 :> 0)

StackDepth == (c1 :> 2) @@ (c2 :> 1) @@ (c3 :> 2)
StackLook == (c1 :> 1) @@ (c2 :> 1) @@ (c3 :> 2)

GuardedRequests == {[user |-> 1, slack |-> 0], [user |-> 2, slack |-> 1]}

SpotHome == (v1 :> 0) @@ (v2 :> 0)
EpochPlans == {[births |-> 2, marks |-> 1, reports |-> 0],
               [births |-> 2, marks |-> 0, reports |-> 1]}

ScratchRequests == {<<2, 4>>, <<5, 1>>, <<59, 1>>}

DoorProducts == {<<0, 3>>, <<1, 1>>, <<3, 2>>, <<8, 1>>, <<8, 9>>}

Measured(a0, s0) == [addr |-> a0, size |-> s0]
NameTables == {<<Measured(1, 2), Measured(4, 1)>>, <<Measured(4, 1), Measured(1, 2)>>,
               <<Measured(3, 0), Measured(6, 0)>>, <<Measured(6, 0), Measured(3, 0)>>,
               <<Measured(0, 1), Measured(6, 2)>>,
               <<Measured(1, 4), Measured(3, 0)>>, <<Measured(3, 0), Measured(1, 4)>>,
               <<Measured(1, 5), Measured(3, 1)>>}
NamePaths == {<<"a">>, <<"a", "/">>, <<"a", "\\", "b">>, <<"a", "/", "b", "/", "c">>,
              <<"a", "b", "/", "c">>, <<"/">>}

\* The threads of a part are alike, and so are values, spots and elements.
Alike == Permutations({t1, t2}) \cup Permutations({v1, v2})
=============================================================================
