---------------------------- MODULE ParkedSpans ------------------------------
(***************************************************************************)
(* What the lock-free tier of the span pool promises: spans are owned by   *)
(* one thread or parked on one stack; parking one puts it on top, taking   *)
(* one removes the top, and each happens in a single step.                 *)
(***************************************************************************)
EXTENDS Sequences

CONSTANTS Threads, Stacks, Spans

VARIABLES held,      \* the spans each thread owns
          parked     \* the spans on each stack, top first

Init ==
    /\ held \in [Threads -> SUBSET Spans]
    /\ \A t, u \in Threads : t # u => held[t] \cap held[u] = {}
    /\ parked = [s \in Stacks |-> <<>>]

Park(t, s, x) ==
    /\ x \in held[t]
    /\ held' = [held EXCEPT ![t] = @ \ {x}]
    /\ parked' = [parked EXCEPT ![s] = <<x>> \o @]

Take(t, s) ==
    /\ parked[s] # <<>>
    /\ held' = [held EXCEPT ![t] = @ \cup {Head(parked[s])}]
    /\ parked' = [parked EXCEPT ![s] = Tail(@)]

Next ==
    \E t \in Threads, s \in Stacks :
        Take(t, s) \/ \E x \in Spans : Park(t, s, x)

Spec == Init /\ [][Next]_<<held, parked>>
=============================================================================
