------------------------- MODULE DirectBlocks_proofs -------------------------
(***************************************************************************)
(* Proofs about DirectBlocks, for any number of threads, addresses and      *)
(* slots: the table has exactly the blocks handed out, each once.           *)
(***************************************************************************)
EXTENDS DirectBlocks, TLAPS

-----------------------------------------------------------------------------
(* The entry i of the table is overwritten with the last one, which goes:   *)
(* what is left has no entry twice and has lost only the one that was at i. *)
LEMMA HoleLemma ==
    ASSUME table \in Seq(Addresses),
           \A i, j \in 1 .. Len(table) : table[i] = table[j] => i = j,
           NEW i \in 1 .. Len(table)
    PROVE  /\ HoleFilled(i) \in Seq(Addresses)
           /\ Len(HoleFilled(i)) = Len(table) - 1
           /\ \A j, k \in 1 .. Len(HoleFilled(i)) :
                 HoleFilled(i)[j] = HoleFilled(i)[k] => j = k
           /\ \A b : (\E j \in 1 .. Len(HoleFilled(i)) : HoleFilled(i)[j] = b)
                       <=> b # table[i] /\ \E j \in 1 .. Len(table) : table[j] = b
<1>. DEFINE n == Len(table)
            moved == [table EXCEPT ![i] = table[n]]
<1>1. n \in Nat /\ n >= 1 /\ i \in 1 .. n /\ n \in 1 .. n
  OBVIOUS
<1>2. moved \in Seq(Addresses) /\ Len(moved) = n
  BY <1>1
<1>3. \A j \in 1 .. n : moved[j] = IF j = i THEN table[n] ELSE table[j]
  BY <1>1
<1>4. /\ HoleFilled(i) \in Seq(Addresses)
      /\ Len(HoleFilled(i)) = n - 1
      /\ \A j \in 1 .. (n - 1) : HoleFilled(i)[j] = moved[j]
  BY <1>1, <1>2 DEF HoleFilled
<1>. HIDE DEF moved
<1>5. \A j, k \in 1 .. (n - 1) : HoleFilled(i)[j] = HoleFilled(i)[k] => j = k
  BY <1>1, <1>3, <1>4
<1>6. ASSUME NEW b
      PROVE  (\E j \in 1 .. (n - 1) : HoleFilled(i)[j] = b)
                <=> b # table[i] /\ \E j \in 1 .. n : table[j] = b
  <2>1. ASSUME NEW j \in 1 .. (n - 1), HoleFilled(i)[j] = b
        PROVE  b # table[i] /\ \E k \in 1 .. n : table[k] = b
    <3>1. CASE j = i
      BY <2>1, <3>1, <1>1, <1>3, <1>4
    <3>2. CASE j # i
      BY <2>1, <3>2, <1>1, <1>3, <1>4
    <3>. QED
      BY <3>1, <3>2
  <2>2. ASSUME b # table[i], NEW j \in 1 .. n, table[j] = b
        PROVE  \E k \in 1 .. (n - 1) : HoleFilled(i)[k] = b
    <3>1. CASE j = n
      BY <2>2, <3>1, <1>1, <1>3, <1>4
    <3>2. CASE j # n
      BY <2>2, <3>2, <1>1, <1>3, <1>4
    <3>. QED
      BY <3>1, <3>2
  <2>. QED
    BY <2>1, <2>2
<1>. QED
  BY <1>4, <1>5, <1>6

-----------------------------------------------------------------------------
LEMMA InitTable == ASSUME DirectSlots \in Nat, Init PROVE TableInv
<1>1. TypeOK /\ InHand
  BY DEF Init, TypeOK, InHand
<1>2. Listed /\ NoMappingLost
  BY DEF Init, Listed, NoMappingLost
<1>. QED
  BY <1>1, <1>2 DEF TableInv

(* A block mapped is one that was not, so it is in nobody's hands.          *)
LEMMA MapStep == ASSUME TableInv, NEW t \in Threads, Map(t) PROVE TableInv'
<1>. USE DEF TableInv, TypeOK, Go
<1>. PICK b \in Addresses \ mapped :
        /\ mapped' = mapped \cup {b}
        /\ pc' = [pc EXCEPT ![t] = "register"]
        /\ blk' = [blk EXCEPT ![t] = b]
  BY DEF Map
<1>0. pc[t] = "idle" /\ UNCHANGED <<table, live>>
  BY DEF Map
<1>a. live \subseteq mapped
  BY DEF NoMappingLost
<1>1. TypeOK'
  BY <1>0
<1>2. InHand'
  BY <1>0, <1>a DEF InHand
<1>3. Listed'
  BY <1>0 DEF Listed
<1>4. NoMappingLost'
  BY <1>0 DEF NoMappingLost
<1>. QED
  BY <1>1, <1>2, <1>3, <1>4

(* The block at hand enters the table and the program's hands at once.      *)
LEMMA RegisterStep ==
    ASSUME DirectSlots \in Nat, TableInv, NEW t \in Threads, Register(t)
    PROVE  TableInv'
<1>. USE DEF TableInv, TypeOK, Go
<1>0. /\ pc[t] = "register"
      /\ table' = Append(table, blk[t])
      /\ live' = live \cup {blk[t]}
      /\ pc' = [pc EXCEPT ![t] = "idle"]
      /\ blk' = [blk EXCEPT ![t] = None]
      /\ mapped' = mapped
      /\ Len(table) # DirectSlots
  BY DEF Register, Full
<1>. DEFINE b == blk[t]
<1>b. b \in Addresses /\ b \in mapped /\ b \notin live
  BY <1>0 DEF InHand
<1>c. \A u \in Threads : pc[u] # "idle" /\ blk[u] = b => u = t
  BY <1>0 DEF InHand
<1>d. /\ Len(table') = Len(table) + 1 /\ table' \in Seq(Addresses)
      /\ \A i \in 1 .. Len(table) : table'[i] = table[i]
      /\ table'[Len(table) + 1] = b
  BY <1>0, <1>b
<1>e. \A i \in 1 .. Len(table) : table[i] # b
  BY <1>0, <1>b, <1>c DEF Listed
<1>1. TypeOK'
  BY <1>0, <1>b, <1>d
<1>2. InHand'
  BY <1>0, <1>b, <1>c DEF InHand
<1>3. Listed'
  <2>1. \A i, j \in 1 .. Len(table') : table'[i] = table'[j] => i = j
    BY <1>d, <1>e DEF Listed
  <2>2. ASSUME NEW c \in Addresses
        PROVE  (\E i \in 1 .. Len(table') : table'[i] = c)
                  <=> c \in live' \/ \E u \in Threads : pc'[u] = "take" /\ blk'[u] = c
    <3>1. (\E i \in 1 .. Len(table') : table'[i] = c)
             <=> c = b \/ \E i \in 1 .. Len(table) : table[i] = c
      BY <1>d
    <3>2. (\E u \in Threads : pc'[u] = "take" /\ blk'[u] = c)
             <=> \E u \in Threads : pc[u] = "take" /\ blk[u] = c
      BY <1>0
    <3>. QED
      BY <3>1, <3>2, <1>0 DEF Listed
  <2>. QED
    BY <2>1, <2>2 DEF Listed
<1>4. NoMappingLost'
  BY <1>0 DEF NoMappingLost
<1>. QED
  BY <1>1, <1>2, <1>3, <1>4

LEMMA RegisterFullStep == ASSUME TableInv, NEW t \in Threads, RegisterFull(t) PROVE TableInv'
<1>. USE DEF TableInv, TypeOK, Go
<1>0. /\ pc[t] = "register" /\ UNCHANGED <<mapped, table, live>>
      /\ pc' = [pc EXCEPT ![t] = "unmap"] /\ blk' = blk
  BY DEF RegisterFull
<1>1. TypeOK' /\ InHand'
  BY <1>0 DEF InHand
<1>2. Listed'
  BY <1>0 DEF Listed
<1>3. NoMappingLost'
  <2>1. {u \in Threads : pc'[u] # "idle"} = {u \in Threads : pc[u] # "idle"}
    BY <1>0
  <2>. QED
    BY <1>0, <2>1 DEF NoMappingLost
<1>. QED
  BY <1>1, <1>2, <1>3

LEMMA UnmapStep == ASSUME TableInv, NEW t \in Threads, Unmap(t) PROVE TableInv'
<1>. USE DEF TableInv, TypeOK, Go
<1>0. /\ pc[t] = "unmap" /\ UNCHANGED <<table, live>>
      /\ mapped' = mapped \ {blk[t]}
      /\ pc' = [pc EXCEPT ![t] = "idle"] /\ blk' = [blk EXCEPT ![t] = None]
  BY DEF Unmap
<1>a. blk[t] \notin live /\ \A u \in Threads : pc[u] # "idle" /\ blk[u] = blk[t] => u = t
  BY <1>0 DEF InHand
<1>1. TypeOK'
  BY <1>0
<1>2. InHand'
  BY <1>0, <1>a DEF InHand
<1>3. Listed'
  BY <1>0 DEF Listed
<1>4. NoMappingLost'
  BY <1>0, <1>a DEF NoMappingLost
<1>. QED
  BY <1>1, <1>2, <1>3, <1>4

(* A block given back is listed until its thread has taken it from the      *)
(* table.                                                                   *)
LEMMA FreeStep == ASSUME TableInv, NEW t \in Threads, Free(t) PROVE TableInv'
<1>. USE DEF TableInv, TypeOK, Go
<1>. PICK b \in live : /\ live' = live \ {b}
                      /\ pc' = [pc EXCEPT ![t] = "take"]
                      /\ blk' = [blk EXCEPT ![t] = b]
  BY DEF Free
<1>0. pc[t] = "idle" /\ UNCHANGED <<mapped, table>>
  BY DEF Free
<1>a. b \in mapped /\ \A u \in Threads : pc[u] # "idle" => blk[u] # b
  BY DEF InHand, NoMappingLost
<1>1. TypeOK'
  BY <1>0
<1>2. InHand'
  BY <1>0, <1>a DEF InHand
<1>3. Listed'
  BY <1>0 DEF Listed
<1>4. NoMappingLost'
  BY <1>0, <1>a DEF NoMappingLost
<1>. QED
  BY <1>1, <1>2, <1>3, <1>4

LEMMA DirectTakeStep ==
    ASSUME DirectSlots \in Nat, TableInv, NEW t \in Threads, DirectTake(t)
    PROVE  TableInv'
<1>. USE DEF TableInv, TypeOK, Go
<1>. PICK i \in 1 .. Len(table) : table[i] = blk[t] /\ table' = HoleFilled(i)
  BY DEF DirectTake, Slot
<1>0. /\ pc[t] = "take" /\ UNCHANGED <<mapped, live>>
      /\ pc' = [pc EXCEPT ![t] = "unmap"] /\ blk' = blk
  BY DEF DirectTake
<1>a. blk[t] \notin live /\ \A u \in Threads : pc[u] # "idle" /\ blk[u] = blk[t] => u = t
  BY <1>0 DEF InHand
<1>h. /\ HoleFilled(i) \in Seq(Addresses)
      /\ Len(HoleFilled(i)) = Len(table) - 1
      /\ \A j, k \in 1 .. Len(HoleFilled(i)) :
            HoleFilled(i)[j] = HoleFilled(i)[k] => j = k
      /\ \A b : (\E j \in 1 .. Len(HoleFilled(i)) : HoleFilled(i)[j] = b)
                  <=> b # table[i] /\ \E j \in 1 .. Len(table) : table[j] = b
  BY HoleLemma DEF Listed
<1>1. TypeOK'
  BY <1>0, <1>h
<1>2. InHand'
  BY <1>0 DEF InHand
<1>3. Listed'
  <2>1. ASSUME NEW c \in Addresses
        PROVE  (\E j \in 1 .. Len(table') : table'[j] = c)
                  <=> c \in live' \/ \E u \in Threads : pc'[u] = "take" /\ blk'[u] = c
    <3>1. (\E j \in 1 .. Len(table') : table'[j] = c)
             <=> c # blk[t] /\ (c \in live \/ \E u \in Threads : pc[u] = "take" /\ blk[u] = c)
      BY <1>h DEF Listed
    <3>. QED
      BY <1>0, <1>a, <3>1
  <2>. QED
    BY <1>h, <2>1 DEF Listed
<1>4. NoMappingLost'
  <2>1. {u \in Threads : pc'[u] # "idle"} = {u \in Threads : pc[u] # "idle"}
    BY <1>0
  <2>. QED
    BY <1>0, <2>1 DEF NoMappingLost
<1>. QED
  BY <1>1, <1>2, <1>3, <1>4

LEMMA TableStep == ASSUME DirectSlots \in Nat, TableInv, [Next]_vars PROVE TableInv'
<1>1. ASSUME TableInv, UNCHANGED vars PROVE TableInv'
  BY <1>1 DEF vars, TableInv, TypeOK, InHand, Listed, NoMappingLost
<1>. QED
  BY <1>1, MapStep, RegisterStep, RegisterFullStep, UnmapStep, FreeStep, DirectTakeStep DEF Next

(* The table spells the blocks handed out and not yet taken back.           *)
LEMMA ExactTable == TableInv => TableIsExact
<1>. SUFFICES ASSUME TableInv PROVE TableIsExact
  OBVIOUS
<1>. USE DEF TableInv, TypeOK
<1>. DEFINE freeing == {blk[t] : t \in {u \in Threads : pc[u] = "take"}}
            other == {blk[t] : t \in {u \in Threads : pc[u] \in {"register", "unmap"}}}
<1>1. ASSUME NEW b \in Addresses
      PROVE  IF b \in live \cup freeing
               THEN \E i \in 1 .. Len(table) : Slot(b) = {i}
               ELSE Slot(b) = {}
  <2>1. b \in live \cup freeing <=> \E i \in 1 .. Len(table) : table[i] = b
    BY DEF Listed
  <2>2. CASE b \in live \cup freeing
    <3>1. PICK i \in 1 .. Len(table) : table[i] = b
      BY <2>1, <2>2
    <3>2. Slot(b) = {i}
      BY <3>1 DEF Slot, Listed
    <3>. QED
      BY <2>2, <3>2
  <2>3. CASE b \notin live \cup freeing
    BY <2>1, <2>3 DEF Slot
  <2>. QED
    BY <2>2, <2>3
<1>2. live \cup freeing \subseteq mapped \ other
  <2>1. live \subseteq mapped /\ \A t \in Threads : pc[t] # "idle" => blk[t] \in mapped \ live
    BY DEF InHand, NoMappingLost
  <2>2. live \cap other = {}
    BY <2>1
  <2>3. ASSUME NEW t \in Threads, pc[t] = "take" PROVE blk[t] \in mapped /\ blk[t] \notin other
    <3>1. \A u \in Threads : pc[u] # "idle" /\ blk[u] = blk[t] => u = t
      BY <2>3 DEF InHand
    <3>. QED
      BY <2>1, <2>3, <3>1
  <2>. QED
    BY <2>1, <2>2, <2>3
<1>. QED
  BY <1>1, <1>2 DEF TableIsExact

(* Every block handed out by the system has one entry, wherever a free has  *)
(* opened a hole and whichever address the system maps again; and every     *)
(* mapping is a block, or in the hands of one call.                         *)
THEOREM DirectInvariant == ASSUME DirectSlots \in Nat PROVE Spec => []TableInv
<1>1. Init => TableInv
  BY InitTable
<1>2. TableInv /\ [Next]_vars => TableInv'
  BY TableStep
<1>. QED
  BY <1>1, <1>2, PTL DEF Spec
=============================================================================
