---------------------------- MODULE DirectBlocks -----------------------------
(***************************************************************************)
(* Blocks the system serves one by one (src/src/alloc/host_allocator.cpp:  *)
(* alloc_direct, direct_register, direct_take, host_free_outside): those    *)
(* longer than a span can be.  A dense table under a lock says which they   *)
(* are, and a pointer outside both regions that it does not know stops the  *)
(* process (no_foreign_free).                                               *)
(*                                                                         *)
(* The system is external: it maps an address nothing is mapped at, which   *)
(* may be one just unmapped.                                                *)
(***************************************************************************)
EXTENDS Integers, Sequences

CONSTANTS Threads,
          Addresses,    \* where the system may map a block
          DirectSlots,  \* kDirectSlots
          None

VARIABLES mapped,  \* addresses mapped, in the system
          table,   \* g_direct[0 .. g_direct_n - 1]
          live,    \* blocks the program has
          pc,
          blk      \* the block each thread works on

vars == <<mapped, table, live, pc, blk>>

Init ==
    /\ mapped = {}
    /\ table = <<>>
    /\ live = {}
    /\ pc = [t \in Threads |-> "idle"]
    /\ blk = [t \in Threads |-> None]

Go(t, step, b) ==
    /\ pc' = [pc EXCEPT ![t] = step]
    /\ blk' = [blk EXCEPT ![t] = b]

-----------------------------------------------------------------------------
(* alloc_direct. *)

\* g_direct_n == kDirectSlots; the mutant is one late.
FullLate == Len(table) > DirectSlots
Full == Len(table) = DirectSlots

Map(t) ==
    /\ pc[t] = "idle"
    /\ \E b \in Addresses \ mapped :
          /\ mapped' = mapped \cup {b}
          /\ Go(t, "register", b)
    /\ UNCHANGED <<table, live>>

\* direct_register, under the lock.
Register(t) ==
    /\ pc[t] = "register" /\ ~Full
    /\ table' = Append(table, blk[t])
    /\ live' = live \cup {blk[t]}
    /\ Go(t, "idle", None)
    /\ UNCHANGED <<mapped>>

\* Mutant of RegisterFull: the memory is forgotten.
RegisterDrop(t) ==
    /\ pc[t] = "register" /\ Full
    /\ Go(t, "idle", None)
    /\ UNCHANGED <<mapped, table, live>>

\* No room: the memory goes back, and the region serves the request instead.
RegisterFull(t) ==
    /\ pc[t] = "register" /\ Full
    /\ Go(t, "unmap", blk[t])
    /\ UNCHANGED <<mapped, table, live>>

\* os_free, external.
Unmap(t) ==
    /\ pc[t] = "unmap"
    /\ mapped' = mapped \ {blk[t]}
    /\ Go(t, "idle", None)
    /\ UNCHANGED <<table, live>>

-----------------------------------------------------------------------------
(* host_free_outside. *)
Free(t) ==
    /\ pc[t] = "idle"
    /\ \E b \in live :
          /\ live' = live \ {b}
          /\ Go(t, "take", b)
    /\ UNCHANGED <<mapped, table>>

Slot(b) == {i \in 1 .. Len(table) : table[i] = b}

\* The last entry moves into the hole; the mutant only shortens the table.
Shortened(i) == SubSeq(table, 1, Len(table) - 1)
HoleFilled(i) == SubSeq([table EXCEPT ![i] = table[Len(table)]], 1, Len(table) - 1)

\* direct_take, under the lock: the first entry that has it.
DirectTake(t) ==
    /\ pc[t] = "take"
    /\ \E i \in Slot(blk[t]) :
          /\ \A j \in Slot(blk[t]) : i <= j
          /\ table' = HoleFilled(i)
    /\ Go(t, "unmap", blk[t])
    /\ UNCHANGED <<mapped, live>>

Next ==
    \E t \in Threads :
        \/ Map(t) \/ Register(t) \/ RegisterFull(t) \/ Unmap(t)
        \/ Free(t) \/ DirectTake(t)

Spec == Init /\ [][Next]_vars

-----------------------------------------------------------------------------
\* The shape of the state; the table is never written past its slots.
TypeOK ==
    /\ mapped \subseteq Addresses /\ live \subseteq Addresses
    /\ table \in Seq(Addresses) /\ Len(table) <= DirectSlots
    /\ pc \in [Threads -> {"idle", "register", "take", "unmap"}]
    /\ blk \in [Threads -> Addresses \cup {None}]

\* The table has exactly the blocks the program has or is giving back, each
\* once, and every one is mapped and in nobody else's hands: a free finds its
\* entry, and a hole filled from the end loses none, even when the system maps
\* at once an address another thread is still giving back.
TableIsExact ==
    LET freeing == {blk[t] : t \in {u \in Threads : pc[u] = "take"}}
        other == {blk[t] : t \in {u \in Threads : pc[u] \in {"register", "unmap"}}}
    IN /\ \A b \in Addresses :
             IF b \in live \cup freeing
               THEN \E i \in 1 .. Len(table) : Slot(b) = {i}
               ELSE Slot(b) = {}
       /\ live \cup freeing \subseteq mapped \ other

\* Nothing stays mapped behind the program's back: what is mapped is a block it
\* has, or one a thread is about to register or to unmap.
NoMappingLost ==
    mapped = live \cup {blk[t] : t \in {u \in Threads : pc[u] # "idle"}}

\* What makes it inductive: where the block of each thread inside a call is,
\* and that no two of them work on one.
InHand ==
    \A t \in Threads :
        IF pc[t] = "idle" THEN blk[t] = None
        ELSE /\ blk[t] \in mapped \ live
             /\ \A u \in Threads : pc[u] # "idle" /\ blk[u] = blk[t] => u = t

\* TableIsExact entry by entry.
Listed ==
    /\ \A i, j \in 1 .. Len(table) : table[i] = table[j] => i = j
    /\ \A b \in Addresses :
          (\E i \in 1 .. Len(table) : table[i] = b)
              <=> b \in live \/ \E t \in Threads : pc[t] = "take" /\ blk[t] = b

TableInv == TypeOK /\ InHand /\ Listed /\ NoMappingLost
=============================================================================
