------------------------------ MODULE SpanHeap -------------------------------
(***************************************************************************)
(* What spans promise the program: one handed out overlaps no other that is *)
(* out, one that is out keeps its place and never shrinks, and it is out    *)
(* until it is given back.                                                  *)
(***************************************************************************)
EXTENDS Integers

CONSTANTS Chunks

VARIABLE out   \* the spans the program has: first chunk and length

Apart(x, y) == x[1] + x[2] <= y[1] \/ y[1] + y[2] <= x[1]
InChunks(x) == x[1] \in Chunks /\ x[1] + x[2] - 1 \in Chunks

Init == out = {}

HandOut(h, n) ==
    /\ InChunks(<<h, n>>)
    /\ \A x \in out : Apart(x, <<h, n>>)
    /\ out' = out \cup {<<h, n>>}

TakeBack(x) ==
    /\ x \in out
    /\ out' = out \ {x}

Grow(x, n) ==
    /\ x \in out /\ n > x[2]
    /\ InChunks(<<x[1], n>>)
    /\ \A y \in out \ {x} : Apart(y, <<x[1], n>>)
    /\ out' = (out \ {x}) \cup {<<x[1], n>>}

Next ==
    \/ \E h \in Chunks, n \in Chunks : HandOut(h, n)
    \/ \E x \in out : TakeBack(x) \/ \E n \in Chunks : Grow(x, n)

Spec == Init /\ [][Next]_out
=============================================================================
