------------------------- MODULE SmallBlocks_proofs --------------------------
(***************************************************************************)
(* Proofs about SmallBlocks and ChunkReclaim, for any number of threads,    *)
(* ids, classes, chunks and blocks: every block is in exactly one place, the*)
(* one its header says, the program is only ever given a block nobody has,  *)
(* and a chunk given back to the span pool holds nothing.                   *)
(***************************************************************************)
EXTENDS ChunkReclaim, TLAPS, FiniteSetTheorems

-----------------------------------------------------------------------------
(* Chains of blocks.                                                        *)
LEMMA EmptyChain == Elems(<<>>) = {} /\ Once(<<>>)
BY DEF Elems, Once

LEMMA NoElems == ASSUME NEW S, NEW s \in Seq(S), s # <<>> PROVE Elems(s) # {}
<1>1. 1 \in 1 .. Len(s)
  OBVIOUS
<1>. QED
  BY <1>1 DEF Elems

(* A list goes in front of another, as a spilled batch does.                *)
LEMMA CatChain ==
    ASSUME NEW S, NEW s \in Seq(S), NEW u \in Seq(S)
    PROVE  /\ s \o u \in Seq(S)
           /\ Elems(s \o u) = Elems(s) \cup Elems(u)
           /\ Once(s) /\ Once(u) /\ Elems(s) \cap Elems(u) = {} => Once(s \o u)
<1>1. /\ s \o u \in Seq(S) /\ Len(s \o u) = Len(s) + Len(u)
      /\ \A i \in 1 .. Len(s) : (s \o u)[i] = s[i]
      /\ \A i \in 1 .. Len(u) : (s \o u)[Len(s) + i] = u[i]
      /\ \A i \in 1 .. Len(s) + Len(u) : i > Len(s) => (s \o u)[i] = u[i - Len(s)]
  OBVIOUS
<1>2. Elems(s \o u) = Elems(s) \cup Elems(u)
  <2>1. ASSUME NEW x \in Elems(s \o u) PROVE x \in Elems(s) \cup Elems(u)
    <3>1. PICK i \in 1 .. Len(s) + Len(u) : x = (s \o u)[i]
      BY <1>1, <2>1 DEF Elems
    <3>2. CASE i \in 1 .. Len(s)
      BY <3>1, <3>2, <1>1 DEF Elems
    <3>3. CASE i > Len(s)
      <4>1. i - Len(s) \in 1 .. Len(u) /\ x = u[i - Len(s)]
        BY <3>1, <3>3, <1>1
      <4>. QED
        BY <4>1 DEF Elems
    <3>. QED
      BY <3>1, <3>2, <3>3
  <2>2. ASSUME NEW x \in Elems(s) PROVE x \in Elems(s \o u)
    <3>1. PICK i \in 1 .. Len(s) : x = s[i]
      BY <2>2 DEF Elems
    <3>2. i \in 1 .. Len(s \o u) /\ x = (s \o u)[i]
      BY <3>1, <1>1
    <3>. QED
      BY <3>2 DEF Elems
  <2>3. ASSUME NEW x \in Elems(u) PROVE x \in Elems(s \o u)
    <3>1. PICK i \in 1 .. Len(u) : x = u[i]
      BY <2>3 DEF Elems
    <3>2. Len(s) + i \in 1 .. Len(s \o u) /\ x = (s \o u)[Len(s) + i]
      BY <3>1, <1>1
    <3>. QED
      BY <3>2 DEF Elems
  <2>. QED
    BY <2>1, <2>2, <2>3
<1>3. ASSUME Once(s), Once(u), Elems(s) \cap Elems(u) = {} PROVE Once(s \o u)
  <2>. SUFFICES ASSUME NEW i \in 1 .. Len(s) + Len(u), NEW j \in 1 .. Len(s) + Len(u),
                       (s \o u)[i] = (s \o u)[j]
                PROVE  i = j
    BY <1>1 DEF Once
  <2>0. \A a \in 1 .. Len(s), b \in 1 .. Len(u) : s[a] # u[b]
    BY <1>3 DEF Elems
  <2>1. CASE i <= Len(s) /\ j <= Len(s)
    BY <1>1, <1>3, <2>1 DEF Once
  <2>2. CASE i > Len(s) /\ j > Len(s)
    <3>1. i - Len(s) \in 1 .. Len(u) /\ j - Len(s) \in 1 .. Len(u)
      BY <2>2
    <3>2. u[i - Len(s)] = u[j - Len(s)]
      BY <1>1, <2>2
    <3>3. i - Len(s) = j - Len(s)
      BY <3>1, <3>2, <1>3 DEF Once
    <3>. QED
      BY <3>3
  <2>3. CASE i <= Len(s) /\ j > Len(s)
    <3>1. j - Len(s) \in 1 .. Len(u) /\ s[i] = u[j - Len(s)]
      BY <1>1, <2>3
    <3>. QED
      BY <3>1, <2>0, <2>3
  <2>4. CASE i > Len(s) /\ j <= Len(s)
    <3>1. i - Len(s) \in 1 .. Len(u) /\ s[j] = u[i - Len(s)]
      BY <1>1, <2>4
    <3>. QED
      BY <3>1, <2>0, <2>4
  <2>. QED
    BY <2>1, <2>2, <2>3, <2>4
<1>. QED
  BY <1>1, <1>2, <1>3

(* A chain is cut in two: what a batch takes from a list, and what is left. *)
LEMMA CutChain ==
    ASSUME NEW S, NEW s \in Seq(S), Once(s), NEW n \in Nat \ {0}
    PROVE  LET moved == Take(s, n)
               left == Drop(s, Len(moved))
           IN /\ moved \in Seq(S) /\ left \in Seq(S)
              /\ Len(moved) <= n
              /\ Once(moved) /\ Once(left)
              /\ Elems(moved) \cap Elems(left) = {}
              /\ Elems(moved) \cup Elems(left) = Elems(s)
              /\ moved = <<>> => left = <<>>
<1>. DEFINE m == IF n < Len(s) THEN n ELSE Len(s)
            moved == Take(s, n)
            left == Drop(s, Len(moved))
<1>1. /\ m \in Nat /\ m <= Len(s) /\ m <= n
      /\ moved \in Seq(S) /\ Len(moved) = m
      /\ \A i \in 1 .. m : moved[i] = s[i]
  <2>1. Len(s) \in Nat /\ m \in Nat /\ m <= Len(s) /\ m <= n
    OBVIOUS
  <2>2. moved = SubSeq(s, 1, m)
    BY DEF Take
  <2>. HIDE DEF m, moved
  <2>3. \A i \in 1 .. m : s[i] \in S /\ moved[i] = s[i]
    BY <2>1, <2>2
  <2>4. moved \in Seq(S) /\ Len(moved) = m
    BY <2>1, <2>2
  <2>. QED
    BY <2>1, <2>3, <2>4
<1>2. /\ left \in Seq(S) /\ Len(left) = Len(s) - m
      /\ \A i \in 1 .. Len(s) - m : left[i] = s[m + i]
  <2>1. left = SubSeq(s, m + 1, Len(s))
    BY <1>1 DEF Drop
  <2>. HIDE DEF m, moved, left
  <2>2. Len(s) \in Nat /\ m \in Nat /\ m <= Len(s)
    BY <1>1
  <2>3. left \in Seq(S) /\ Len(left) = Len(s) - m
    BY <2>1, <2>2
  <2>4. \A i \in 1 .. Len(s) - m : left[i] = s[m + i]
    BY <2>1, <2>2
  <2>. QED
    BY <2>3, <2>4
<1>. HIDE DEF m, moved, left
<1>3. Once(moved) /\ Once(left)
  <2>1. Once(moved)
    BY <1>1 DEF Once
  <2>2. ASSUME NEW i \in 1 .. Len(left), NEW j \in 1 .. Len(left), left[i] = left[j]
        PROVE  i = j
    <3>1. m + i \in 1 .. Len(s) /\ m + j \in 1 .. Len(s) /\ s[m + i] = s[m + j]
      BY <1>1, <1>2, <2>2
    <3>2. m + i = m + j
      BY <3>1 DEF Once
    <3>. QED
      BY <3>2, <1>1, <1>2
  <2>. QED
    BY <2>1, <2>2 DEF Once
<1>4. Elems(moved) \cap Elems(left) = {}
  <2>. SUFFICES ASSUME NEW x \in Elems(moved) \cap Elems(left) PROVE FALSE
    OBVIOUS
  <2>1. PICK i \in 1 .. Len(moved) : moved[i] = x
    BY DEF Elems
  <2>2. PICK j \in 1 .. Len(left) : left[j] = x
    BY DEF Elems
  <2>3. i \in 1 .. Len(s) /\ m + j \in 1 .. Len(s) /\ s[i] = s[m + j]
    BY <2>1, <2>2, <1>1, <1>2
  <2>4. i = m + j
    BY <2>3 DEF Once
  <2>. QED
    BY <2>4, <1>1, <1>2
<1>5. Elems(moved) \cup Elems(left) = Elems(s)
  <2>1. ASSUME NEW x \in Elems(s) PROVE x \in Elems(moved) \cup Elems(left)
    <3>1. PICK i \in 1 .. Len(s) : x = s[i]
      BY <2>1 DEF Elems
    <3>2. CASE i <= m
      BY <3>1, <3>2, <1>1 DEF Elems
    <3>3. CASE i > m
      <4>1. i - m \in 1 .. Len(left) /\ x = left[i - m]
        BY <3>1, <3>3, <1>1, <1>2
      <4>. QED
        BY <4>1 DEF Elems
    <3>. QED
      BY <3>1, <3>2, <3>3, <1>1
  <2>2. Elems(moved) \subseteq Elems(s)
    BY <1>1 DEF Elems
  <2>3. Elems(left) \subseteq Elems(s)
    <3>1. ASSUME NEW x \in Elems(left) PROVE x \in Elems(s)
      <4>1. PICK i \in 1 .. Len(left) : x = left[i]
        BY <3>1 DEF Elems
      <4>2. m + i \in 1 .. Len(s) /\ x = s[m + i]
        BY <4>1, <1>1, <1>2
      <4>. QED
        BY <4>2 DEF Elems
    <3>. QED
      BY <3>1
  <2>. QED
    BY <2>1, <2>2, <2>3
<1>6. moved = <<>> => left = <<>>
  <2>1. ASSUME moved = <<>> PROVE Len(s) = 0
    BY <2>1, <1>1 DEF m
  <2>. QED
    BY <2>1, <1>1, <1>2
<1>. QED
  BY <1>1, <1>2, <1>3, <1>4, <1>5, <1>6 DEF moved, left

(* The last block of a batch, and the batch without it.                     *)
LEMMA LastOfChain ==
    ASSUME NEW S, NEW s \in Seq(S), Once(s), s # <<>>
    PROVE  /\ Front(s) \in Seq(S) /\ Len(Front(s)) = Len(s) - 1 /\ Once(Front(s))
           /\ Last(s) \in S /\ Last(s) \in Elems(s)
           /\ Elems(Front(s)) = Elems(s) \ {Last(s)}
<1>0. /\ Len(s) \in Nat \ {0} /\ Len(s) - 1 \in Nat
      /\ \A i \in 1 .. Len(s) - 1 : i \in 1 .. Len(s) /\ s[i] \in S
  OBVIOUS
<1>1. /\ Front(s) \in Seq(S) /\ Len(Front(s)) = Len(s) - 1
      /\ \A i \in 1 .. Len(s) - 1 : Front(s)[i] = s[i]
  <2>. DEFINE m == Len(s) - 1
  <2>1. m \in Nat /\ m <= Len(s) /\ Front(s) = SubSeq(s, 1, m)
    BY <1>0 DEF Front
  <2>. HIDE DEF m
  <2>2. /\ SubSeq(s, 1, m) \in Seq(S) /\ Len(SubSeq(s, 1, m)) = m
        /\ \A i \in 1 .. m : SubSeq(s, 1, m)[i] = s[i]
    BY <2>1
  <2>. QED
    BY <2>1, <2>2 DEF m
<1>2. Last(s) \in S /\ Last(s) \in Elems(s)
  BY <1>0 DEF Last, Elems
<1>3. Once(Front(s))
  BY <1>1 DEF Once
<1>4. \A i \in 1 .. Len(s) : s[i] = Last(s) <=> i = Len(s)
  BY <1>0 DEF Once, Last
<1>5. ASSUME NEW x \in Elems(s), x # Last(s) PROVE x \in Elems(Front(s))
  <2>1. PICK i \in 1 .. Len(s) : x = s[i]
    BY <1>5 DEF Elems
  <2>2. i \in 1 .. Len(s) - 1
    BY <1>0, <1>4, <1>5, <2>1
  <2>. QED
    BY <1>1, <2>1, <2>2 DEF Elems
<1>6. ASSUME NEW x \in Elems(Front(s)) PROVE x \in Elems(s) \ {Last(s)}
  <2>1. PICK i \in 1 .. Len(s) - 1 : x = s[i]
    BY <1>1, <1>6 DEF Elems
  <2>. QED
    BY <1>0, <1>4, <2>1 DEF Elems
<1>. QED
  BY <1>1, <1>2, <1>3, <1>5, <1>6

(* The head of a list, and the list it leads to.                            *)
LEMMA HeadOfChain ==
    ASSUME NEW S, NEW s \in Seq(S), Once(s), s # <<>>
    PROVE  /\ Tail(s) \in Seq(S) /\ Once(Tail(s))
           /\ Top(s) \in S /\ Top(s) \in Elems(s)
           /\ Elems(Tail(s)) = Elems(s) \ {Top(s)}
<1>1. /\ Len(s) \in Nat \ {0} /\ Top(s) = s[1]
      /\ Tail(s) \in Seq(S) /\ Len(Tail(s)) = Len(s) - 1
      /\ \A i \in 1 .. Len(s) - 1 : Tail(s)[i] = s[i + 1]
  BY DEF Top
<1>2. Top(s) \in S /\ Top(s) \in Elems(s)
  BY <1>1 DEF Elems
<1>3. Once(Tail(s))
  BY <1>1 DEF Once
<1>4. \A i \in 1 .. Len(s) : s[i] = Top(s) <=> i = 1
  BY <1>1 DEF Once
<1>5. ASSUME NEW x \in Elems(s), x # Top(s) PROVE x \in Elems(Tail(s))
  <2>1. PICK i \in 1 .. Len(s) : x = s[i]
    BY <1>5 DEF Elems
  <2>2. i - 1 \in 1 .. Len(s) - 1 /\ x = Tail(s)[i - 1]
    BY <1>1, <1>4, <1>5, <2>1
  <2>. QED
    BY <1>1, <2>2 DEF Elems
<1>6. Elems(Tail(s)) \subseteq Elems(s) \ {Top(s)}
  <2>1. ASSUME NEW x \in Elems(Tail(s)) PROVE x \in Elems(s) \ {Top(s)}
    <3>1. PICK i \in 1 .. Len(s) - 1 : x = s[i + 1]
      BY <1>1, <2>1 DEF Elems
    <3>. QED
      BY <1>1, <1>4, <3>1 DEF Elems
  <2>. QED
    BY <2>1
<1>. QED
  BY <1>1, <1>2, <1>3, <1>5, <1>6

(* A block given back goes to the head of a list, or to the end of a batch. *)
LEMMA OneMore ==
    ASSUME NEW S, NEW s \in Seq(S), NEW x \in S
    PROVE  /\ <<x>> \o s \in Seq(S) /\ Elems(<<x>> \o s) = Elems(s) \cup {x}
           /\ Append(s, x) \in Seq(S) /\ Len(Append(s, x)) = Len(s) + 1
           /\ Elems(Append(s, x)) = Elems(s) \cup {x}
           /\ Once(s) /\ x \notin Elems(s) => Once(<<x>> \o s) /\ Once(Append(s, x))
<1>1. <<x>> \in Seq(S) /\ Elems(<<x>>) = {x} /\ Once(<<x>>)
  BY DEF Elems, Once
<1>2. /\ <<x>> \o s \in Seq(S)
      /\ Elems(<<x>> \o s) = Elems(<<x>>) \cup Elems(s)
      /\ Once(s) /\ Elems(<<x>>) \cap Elems(s) = {} => Once(<<x>> \o s)
  BY <1>1, CatChain, ZenonT(120)
<1>3. /\ s \o <<x>> \in Seq(S)
      /\ Elems(s \o <<x>>) = Elems(s) \cup Elems(<<x>>)
      /\ Once(s) /\ Elems(s) \cap Elems(<<x>>) = {} => Once(s \o <<x>>)
  BY <1>1, CatChain, ZenonT(60)
<1>4. Append(s, x) = s \o <<x>> /\ Len(Append(s, x)) = Len(s) + 1
  OBVIOUS
<1>. QED
  BY <1>1, <1>2, <1>3, <1>4

LEMMA LongerBatch ==
    ASSUME NEW s \in Seq(Blocks), NEW x \in Blocks, Once(s), x \notin Elems(s)
    PROVE  /\ Append(s, x) \in Seq(Blocks) /\ Len(Append(s, x)) = Len(s) + 1
           /\ Elems(Append(s, x)) = Elems(s) \cup {x} /\ Once(Append(s, x))
<1>1. Append(s, x) \in Seq(Blocks) /\ Len(Append(s, x)) = Len(s) + 1
  OBVIOUS
<1>2. Once(Append(s, x))
  BY OneMore, ZenonT(60)
<1>3. /\ \A i \in 1 .. Len(s) : Append(s, x)[i] = s[i]
      /\ Append(s, x)[Len(s) + 1] = x
  OBVIOUS
<1>4. Elems(Append(s, x)) = Elems(s) \cup {x}
  BY <1>1, <1>3 DEF Elems
<1>. QED
  BY <1>1, <1>2, <1>4

LEMMA LongerList ==
    ASSUME NEW s \in Seq(Blocks), NEW x \in Blocks, Once(s), x \notin Elems(s)
    PROVE  /\ <<x>> \o s \in Seq(Blocks) /\ Once(<<x>> \o s)
           /\ Elems(<<x>> \o s) = Elems(s) \cup {x}
BY OneMore

(* The blocks of a chunk, chained in order.                                 *)
LEMMA RunChain ==
    ASSUME NEW ch \in Chunks, NEW first \in 1 .. Capacity, NEW last \in first .. Capacity
    PROVE  /\ Run(ch, first, last) \in Seq(Blocks)
           /\ Run(ch, first, last) # <<>>
           /\ Once(Run(ch, first, last))
           /\ Elems(Run(ch, first, last)) = {b \in Blocks : b[1] = ch /\ b[2] \in first .. last}
<1>. DEFINE run == Run(ch, first, last)
            n == last - first + 1
<1>1. /\ n \in Nat \ {0} /\ first + n - 1 = last
      /\ run = [i \in 1 .. n |-> <<ch, first + i - 1>>]
  BY BlockAssumption DEF Run
<1>2. \A i \in 1 .. n : <<ch, first + i - 1>> \in Blocks
  BY <1>1, BlockAssumption DEF Blocks
<1>3. run \in Seq(Blocks) /\ Len(run) = n
  <2>1. run \in [1 .. n -> Blocks]
    BY <1>1, <1>2
  <2>2. n \in Nat
    BY <1>1
  <2>. HIDE DEF run, n
  <2>3. run \in Seq(Blocks)
    BY <2>1, <2>2
  <2>4. Len(run) = n
    BY <2>1, <2>2
  <2>. QED
    BY <2>3, <2>4
<1>4. Once(run)
  BY <1>1, <1>3 DEF Once
<1>5. Elems(run) = {b \in Blocks : b[1] = ch /\ b[2] \in first .. last}
  <2>1. ASSUME NEW b \in Elems(run) PROVE b \in Blocks /\ b[1] = ch /\ b[2] \in first .. last
    <3>1. PICK i \in 1 .. n : b = <<ch, first + i - 1>>
      BY <1>1, <1>3, <2>1 DEF Elems
    <3>. QED
      BY <1>1, <1>2, <3>1
  <2>2. ASSUME NEW b \in Blocks, b[1] = ch, b[2] \in first .. last PROVE b \in Elems(run)
    <3>1. b = <<ch, b[2]>> /\ b[2] - first + 1 \in 1 .. n
      BY <1>1, <2>2 DEF Blocks
    <3>2. run[b[2] - first + 1] = b
      BY <1>1, <3>1, <2>2
    <3>. QED
      BY <1>3, <3>1, <3>2 DEF Elems
  <2>. QED
    BY <2>1, <2>2
<1>. QED
  BY <1>3, <1>1, <1>4, <1>5

-----------------------------------------------------------------------------
(* What a thread works on.                                                  *)
LEMMA Domains ==
    /\ Capacity \in Nat \ {0} /\ BatchSlots \in Nat \ {0} /\ BigBatch \in Nat \ {0}
    /\ SmallChunks \in Nat /\ BigChunks \in Nat
    /\ Batched \subseteq Classes /\ Big \subseteq Classes /\ NoBatch \in Classes
    /\ Ids \subseteq Caches /\ Shared \in Caches /\ Shared \notin Ids
    /\ None \notin Caches /\ None \notin Threads /\ None \notin Classes
    /\ None \notin Chunks /\ None \notin Blocks
<1>1. \E k \in Classes : TRUE
  BY BlockAssumption
<1>2. NoBatch \in Classes
  BY <1>1 DEF NoBatch
<1>. QED
  BY <1>2, BlockAssumption DEF Caches

LEMMA SetupRoom == ASSUME NEW s \in Setups PROVE s.room \in 0 .. SmallChunks
BY BlockAssumption

LEMMA InitTypes == Init => TypeOK
<1>. SUFFICES ASSUME Init PROVE TypeOK
  OBVIOUS
<1>. USE Domains
<1>1. /\ setup \in Setups /\ freeIds \subseteq Ids /\ dead \subseteq Threads
      /\ slot \in [Threads -> Ids \cup {None}]
      /\ lock \in Threads \cup {None}
  BY DEF Init
<1>2. <<>> \in Chain
  BY DEF Chain
<1>3. /\ freeList \in [Caches -> [Classes -> Chain]]
      /\ batch \in [Caches -> Chain] /\ \A c \in Caches : Len(batch[c]) <= BatchSlots
      /\ remote \in [Caches -> [Classes -> Chain]]
      /\ rest \in [Threads -> Chain]
  BY <1>2 DEF Init
<1>4. /\ batchCls \in [Caches -> Classes]
      /\ bigRun \in [Caches -> [Big -> Chunks \cup {None}]]
      /\ header \in [Chunks -> [owner : Caches \cup {None}, cls : Classes \cup {None},
                                chained : 0 .. Capacity]]
      /\ cursor \in 0 .. SmallChunks /\ bigCursor \in 0 .. BigChunks
  BY DEF Init, Virgin
<1>5. /\ live \in [Blocks -> Nat]
      /\ pc \in [Threads -> Steps]
      /\ at \in [Threads -> Caches \cup {None}]
      /\ cls \in [Threads -> Classes \cup {None}]
      /\ item \in [Threads -> Blocks \cup {None}]
      /\ seen \in [Threads -> Blocks \cup {None}]
  BY DEF Init, Steps
<1>. QED
  BY <1>1, <1>3, <1>4, <1>5 DEF TypeOK, IdTypes, CacheTypes, ChunkTypes, CallTypes

LEMMA InitBlocks == Init => BlockInv
<1>. SUFFICES ASSUME Init PROVE BlockInv
  OBVIOUS
<1>. USE Domains
<1>1. Carved = {}
  <2>1. ASSUME NEW b \in Blocks PROVE ~(b[2] <= header[b[1]].chained)
    BY DEF Init, Virgin, Blocks
  <2>. QED
    BY <2>1 DEF Carved
<1>2. \A c \in Caches : /\ batch[c] = <<>>
                        /\ \A k \in Classes : freeList[c][k] = <<>> /\ remote[c][k] = <<>>
  BY DEF Init
<1>3. Homes /\ Apart
  BY <1>2, EmptyChain DEF Homes, Apart
<1>4. \A b : ~Kept(b) /\ \A t \in Threads : ~Pushing(t, b)
  BY <1>2, EmptyChain DEF Kept, Pushing, Init
<1>5. Accounted
  <2>1. \A b \in Blocks : live[b] = 0
    BY DEF Init
  <2>. QED
    BY <1>1, <1>4, <2>1 DEF Accounted
<1>6. Headers
  BY DEF Headers, Init, Virgin, Chunks
<1>7. Owners /\ \A t \in Threads : Fresh(t)
  BY DEF Owners, Fresh, Working, Init
<1>. QED
  BY InitTypes, <1>3, <1>5, <1>6, <1>7 DEF BlockInv

-----------------------------------------------------------------------------
(* A block is kept in one container only.                                   *)
LEMMA OneKeeper ==
    ASSUME Homes, Apart, NEW c \in Caches, NEW k \in Classes, NEW x
    PROVE  /\ x \in Elems(batch[c]) =>
                /\ \A d \in Caches : x \in Elems(batch[d]) => d = c
                /\ \A d \in Caches, j \in Classes :
                      x \notin Elems(freeList[d][j]) /\ x \notin Elems(remote[d][j])
           /\ x \in Elems(freeList[c][k]) =>
                /\ \A d \in Caches : x \notin Elems(batch[d])
                /\ \A d \in Caches, j \in Classes :
                      /\ x \in Elems(freeList[d][j]) => d = c /\ j = k
                      /\ x \notin Elems(remote[d][j])
           /\ x \in Elems(remote[c][k]) =>
                /\ \A d \in Caches : x \notin Elems(batch[d])
                /\ \A d \in Caches, j \in Classes :
                      /\ x \notin Elems(freeList[d][j])
                      /\ x \in Elems(remote[d][j]) => d = c /\ j = k
<1>1. \A d \in Caches : x \in Elems(batch[d]) => x \in Of(d, batchCls[d])
  BY DEF Homes
<1>2. \A d \in Caches, j \in Classes :
         x \in Elems(freeList[d][j]) \/ x \in Elems(remote[d][j]) => x \in Of(d, j)
  BY DEF Homes
<1>3. \A d, e, i, j : x \in Of(d, i) /\ x \in Of(e, j) => d = e /\ i = j
  BY DEF Of
<1>4. \A d \in Caches, j \in Classes :
         /\ ~(x \in Elems(freeList[d][j]) /\ x \in Elems(remote[d][j]))
         /\ ~(x \in Elems(batch[d]) /\ x \in Elems(freeList[d][j]))
         /\ ~(x \in Elems(batch[d]) /\ x \in Elems(remote[d][j]))
  BY DEF Apart
<1>. QED
  BY <1>1, <1>2, <1>3, <1>4

(* A block is handed out: it was kept, and now the program has it.          *)
LEMMA HandedOut ==
    ASSUME Homes, Accounted, NEW x \in Blocks, Kept(x), live \in [Blocks -> Nat],
           live' = [live EXCEPT ![x] = @ + 1], header' = header,
           \A b \in Blocks : Kept(b)' <=> Kept(b) /\ b # x,
           \A b \in Blocks, t \in Threads :
              Pushing(t, b)' <=> Pushing(t, b),
           \A b \in Blocks, t \in Threads :
              Pushing(t, b) => at'[t] = at[t] /\ cls'[t] = cls[t]
    PROVE  Accounted'
<1>1. Carved' = Carved /\ \A c, k : Of(c, k)' = Of(c, k)
  BY DEF Carved, Of
<1>2. live[x] = 0 /\ x \in Carved /\ \A t \in Threads : ~Pushing(t, x)
  <2>1. x \in Carved
    BY DEF Homes, Kept, Of
  <2>2. live[x] \in 0 .. 1 /\ live[x] # 1 /\ \A t \in Threads : ~Pushing(t, x)
    BY DEF Accounted
  <2>. QED
    BY <2>1, <2>2
<1>3. \A b \in Blocks : live'[b] = IF b = x THEN 1 ELSE live[b]
  BY <1>2
<1>. QED
  BY <1>1, <1>2, <1>3 DEF Accounted

-----------------------------------------------------------------------------
(* A cache has one thread working on it.                                    *)
LEMMA SoleWorker ==
    ASSUME IdTypes, Owners, NEW t \in Threads, NEW u \in Threads, Working(u)
    PROVE  /\ Working(t) /\ at[u] = at[t] => u = t
           /\ slot[t] # None /\ at[u] = slot[t] => u = t
BY Domains DEF Owners, IdTypes

(* What the others have read of their caches still holds.                   *)
LEMMA FreshOthers ==
    ASSUME NEW t \in Threads, NEW u \in Threads, u # t, Fresh(u), Owners, NEW c,
           Working(u) => at[u] # c,
           \A d \in Caches : d # c =>
              freeList'[d] = freeList[d] /\ batch'[d] = batch[d] /\ batchCls'[d] = batchCls[d],
           pc'[u] = pc[u], at'[u] = at[u], cls'[u] = cls[u],
           item'[u] = item[u], rest'[u] = rest[u]
    PROVE  Fresh(u)'
<1>1. CASE Working(u)
  <2>1. at[u] \in Caches /\ at[u] # c
    BY <1>1 DEF Owners
  <2>. QED
    BY <2>1 DEF Fresh
<1>2. CASE ~Working(u)
  BY <1>2 DEF Fresh, Working
<1>. QED
  BY <1>1, <1>2

(* A thread in the middle of a call goes on with it.                        *)
LEMMA GoesOn ==
    ASSUME Owners, NEW t \in Threads, Working(t), pc \in [Threads -> Steps], NEW s,
           pc' = [pc EXCEPT ![t] = s], s \notin {"lock"},
           UNCHANGED <<slot, freeIds, at, cls, lock>>
    PROVE  Owners'
BY DEF Owners, Working

(* A carved block belongs to a cache and a class.                           *)
LEMMA OfCaches ==
    ASSUME Headers, ChunkTypes, NEW c, NEW k, NEW x \in Of(c, k)
    PROVE  c \in Caches /\ k \in Classes /\ x \in Blocks /\ x[1] \in Chunks
<1>1. x \in Blocks /\ x[1] \in Chunks /\ x[2] \in 1 .. Capacity
  BY DEF Of, Carved, Blocks
<1>2. header[x[1]].chained > 0
  <2>1. x[2] <= header[x[1]].chained /\ header[x[1]].chained \in 0 .. Capacity
    BY <1>1 DEF Of, Carved, ChunkTypes
  <2>. QED
    BY <1>1, <2>1, Domains
<1>. QED
  BY <1>1, <1>2 DEF Headers, Of

LEMMA TopTypes ==
    ASSUME CacheTypes, NEW c \in Caches, NEW k \in Classes
    PROVE  Top(remote[c][k]) \in Blocks \cup {None}
<1>1. remote[c][k] \in Seq(Blocks)
  BY DEF CacheTypes, Chain
<1>2. CASE remote[c][k] = <<>>
  BY <1>2 DEF Top
<1>3. CASE remote[c][k] # <<>>
  <2>1. 1 \in 1 .. Len(remote[c][k])
    BY <1>1, <1>3
  <2>. QED
    BY <1>1, <1>3, <2>1 DEF Top
<1>. QED
  BY <1>2, <1>3

(* A call ends, and with it its hold on the cache.                          *)
LEMMA GoesIdle ==
    ASSUME Owners, NEW t \in Threads, CallTypes, Idle(t),
           (Working(t) /\ Unlock(t)) \/ lock' = lock,
           UNCHANGED <<slot, freeIds>>
    PROVE  /\ Owners' /\ Fresh(t)'
           /\ \A u \in Threads \ {t} : /\ pc'[u] = pc[u] /\ at'[u] = at[u] /\ cls'[u] = cls[u]
                                       /\ item'[u] = item[u] /\ rest'[u] = rest[u]
           /\ pc'[t] = "idle"
<1>1. /\ \A u \in Threads \ {t} : /\ pc'[u] = pc[u] /\ at'[u] = at[u] /\ cls'[u] = cls[u]
                                  /\ item'[u] = item[u] /\ rest'[u] = rest[u]
      /\ pc'[t] = "idle"
  BY DEF CallTypes, Idle
<1>2. Fresh(t)'
  BY <1>1 DEF Fresh
<1>3. \A u \in Threads \ {t} : Working(u) /\ at[u] = Shared => lock' = u
  BY DEF Owners, Unlock
<1>4. Owners'
  BY <1>1, <1>3 DEF Owners, Working
<1>. QED
  BY <1>1, <1>2, <1>4

LEMMA IdleTypes == ASSUME CallTypes, NEW t \in Threads, Idle(t) PROVE CallTypes'
<1>1. <<>> \in Chain /\ "idle" \in Steps
  BY DEF Chain, Steps
<1>. QED
  BY <1>1 DEF CallTypes, Idle

LEMMA UnlockTypes ==
    ASSUME IdTypes, NEW t \in Threads, Unlock(t), UNCHANGED <<setup, freeIds, dead, slot>>
    PROVE  IdTypes'
BY DEF IdTypes, Unlock

(* A step that moves no block.                                              *)
LEMMA QuietHeap ==
    ASSUME Homes, Apart, Accounted, Headers,
           UNCHANGED <<freeList, batch, batchCls, remote, header, live, bigRun, cursor, bigCursor>>,
           \A b \in Blocks, t \in Threads : Pushing(t, b)' <=> Pushing(t, b),
           \A b \in Blocks, t \in Threads :
              Pushing(t, b) => at'[t] = at[t] /\ cls'[t] = cls[t]
    PROVE  (Homes /\ Apart /\ Accounted /\ Headers)'
<1>1. Carved' = Carved /\ (\A c, k : Of(c, k)' = Of(c, k)) /\ \A b : Kept(b)' <=> Kept(b)
  BY DEF Carved, Of, Kept
<1>2. Homes'
  BY <1>1 DEF Homes
<1>3. Apart'
  BY DEF Apart
<1>4. Accounted'
  BY <1>1 DEF Accounted
<1>5. Headers'
  BY DEF Headers
<1>. QED
  BY <1>2, <1>3, <1>4, <1>5

-----------------------------------------------------------------------------
(* The steps of the ids.                                                    *)
LEMMA IdStep ==
    ASSUME BlockInv, NEW t \in Threads, setup' = setup, Attach(t) \/ Detach(t)
    PROVE  BlockInv'
<1>. USE Domains DEF BlockInv, TypeOK
<1>0. /\ UNCHANGED <<lock, cvars, remote, header, cursor, bigCursor, live, local>>
      /\ pc[t] = "idle"
  BY DEF Attach, Detach
<1>1. IdTypes'
  BY <1>0 DEF Attach, Detach, IdTypes
<1>2. CacheTypes' /\ ChunkTypes' /\ CallTypes'
  BY <1>0 DEF CacheTypes, ChunkTypes, CallTypes, cvars, local
<1>3. (Homes /\ Apart /\ Accounted /\ Headers)'
  BY <1>0, QuietHeap DEF cvars, local, Pushing
<1>4. Owners'
  <2>1. CASE Attach(t)
    BY <2>1, <1>0 DEF Owners, Attach, Working, IdTypes, local
  <2>2. CASE Detach(t)
    BY <2>2, <1>0 DEF Owners, Detach, Working, IdTypes, local
  <2>. QED
    BY <2>1, <2>2
<1>5. \A u \in Threads : Fresh(u)'
  BY <1>0 DEF Fresh, cvars, local
<1>. QED
  BY <1>1, <1>2, <1>3, <1>4, <1>5

(* A call begins: with the thread's own cache, or at the lock.              *)
LEMMA BeginStep ==
    ASSUME BlockInv, NEW t \in Threads, NEW k \in Classes, setup' = setup,
           AllocOwn(t, k) \/ AllocShared(t, k)
    PROVE  BlockInv'
<1>. USE Domains DEF BlockInv, TypeOK
<1>0. /\ UNCHANGED <<freeIds, slot, dead, lock, cvars, remote, header, cursor, bigCursor, live,
                     item, rest, seen>>
      /\ pc[t] = "idle"
      /\ cls' = [cls EXCEPT ![t] = k]
  BY DEF AllocOwn, AllocShared, Begin
<1>. PICK c \in Caches, s \in {"pop", "lock"} :
        /\ at' = [at EXCEPT ![t] = c] /\ pc' = [pc EXCEPT ![t] = s]
        /\ s = "pop" => c = slot[t] /\ slot[t] # Shared
        /\ s = "lock" => c = Shared
  BY DEF AllocOwn, AllocShared, Begin, IdTypes
<1>a. s \in Steps
  BY DEF Steps
<1>1. IdTypes' /\ CacheTypes' /\ ChunkTypes'
  BY <1>0 DEF IdTypes, CacheTypes, ChunkTypes, cvars
<1>2. CallTypes'
  BY <1>0, <1>a DEF CallTypes
<1>b. /\ pc'[t] = s /\ at'[t] = c /\ cls'[t] = k
      /\ \A u \in Threads \ {t} : pc'[u] = pc[u] /\ at'[u] = at[u] /\ cls'[u] = cls[u]
  BY <1>0 DEF CallTypes
<1>3. (Homes /\ Apart /\ Accounted /\ Headers)'
  BY <1>0, <1>b, QuietHeap DEF cvars, Pushing
<1>4. Owners'
  BY <1>0, <1>b DEF Owners, Working
<1>5. ASSUME NEW u \in Threads PROVE Fresh(u)'
  <2>1. CASE u = t
    BY <1>b, <2>1 DEF Fresh
  <2>2. CASE u # t
    BY <1>0, <1>b, <2>2 DEF Fresh, cvars
  <2>. QED
    BY <2>1, <2>2
<1>. QED
  BY <1>1, <1>2, <1>3, <1>4, <1>5

LEMMA LockStep ==
    ASSUME BlockInv, NEW t \in Threads, setup' = setup, Lock(t)
    PROVE  BlockInv'
<1>. USE Domains DEF BlockInv, TypeOK
<1>0. /\ UNCHANGED <<freeIds, slot, dead, cvars, remote, header, cursor, bigCursor, live,
                     at, cls, item, rest, seen>>
      /\ pc[t] = "lock" /\ lock = None /\ lock' = t
      /\ pc' = [pc EXCEPT ![t] = "pop"]
  BY DEF Lock
<1>a. "pop" \in Steps
  BY DEF Steps
<1>1. IdTypes' /\ CacheTypes' /\ ChunkTypes'
  BY <1>0 DEF IdTypes, CacheTypes, ChunkTypes, cvars
<1>2. CallTypes'
  BY <1>0, <1>a DEF CallTypes
<1>b. pc'[t] = "pop" /\ \A u \in Threads \ {t} : pc'[u] = pc[u]
  BY <1>0 DEF CallTypes
<1>3. (Homes /\ Apart /\ Accounted /\ Headers)'
  BY <1>0, <1>b, QuietHeap DEF cvars, Pushing
<1>4. Owners'
  BY <1>0, <1>b DEF Owners, Working
<1>5. ASSUME NEW u \in Threads PROVE Fresh(u)'
  <2>1. CASE u = t
    BY <1>b, <2>1 DEF Fresh
  <2>2. CASE u # t
    BY <1>0, <1>b, <2>2 DEF Fresh, cvars
  <2>. QED
    BY <2>1, <2>2
<1>. QED
  BY <1>1, <1>2, <1>3, <1>4, <1>5

(* pop_block looks: what it found is what it will hand out.                 *)
LEMMA LookStep ==
    ASSUME BlockInv, NEW t \in Threads, setup' = setup,
           PopBatch(t) \/ PopList(t) \/ PopNone(t)
    PROVE  BlockInv'
<1>. USE Domains DEF BlockInv, TypeOK
<1>. DEFINE c == at[t]
            k == cls[t]
<1>0. /\ UNCHANGED <<freeIds, slot, dead, lock, cvars, remote, header, cursor, bigCursor, live,
                     at, cls, seen>>
      /\ pc[t] = "pop"
  BY DEF PopBatch, PopList, PopNone, Found, cvars
<1>w. Working(t) /\ c \in Caches /\ k \in Classes
  BY <1>0 DEF Owners, Working
<1>c. /\ freeList[c][k] \in Seq(Blocks) /\ batch[c] \in Seq(Blocks)
      /\ Once(freeList[c][k]) /\ Once(batch[c])
  <2>1. batch[c] \in Chain /\ freeList[c] \in [Classes -> Chain]
    BY <1>w DEF CacheTypes
  <2>2. Once(freeList[c][k]) /\ Once(batch[c])
    BY <1>w DEF Apart
  <2>. QED
    BY <1>w, <2>1, <2>2 DEF Chain
<1>. PICK s \in {"takeBatch", "takeList", "refill"}, b \in Blocks \cup {None}, left \in Chain :
        /\ pc' = [pc EXCEPT ![t] = s]
        /\ s # "refill" =>
             item' = [item EXCEPT ![t] = b] /\ rest' = [rest EXCEPT ![t] = left]
        /\ s = "refill" => UNCHANGED <<item, rest>> /\ freeList[c][k] = <<>>
        /\ s = "takeBatch" =>
             batchCls[c] = k /\ batch[c] # <<>> /\ b = Last(batch[c]) /\ left = Front(batch[c])
        /\ s = "takeList" =>
             /\ freeList[c][k] # <<>>
             /\ b = Top(freeList[c][k]) /\ left = Tail(freeList[c][k])
  <2>1. CASE PopBatch(t)
    <3>1. Last(batch[c]) \in Blocks /\ Front(batch[c]) \in Chain
      BY <1>c, <2>1, LastOfChain DEF PopBatch, Chain
    <3>. QED
      BY <2>1, <3>1 DEF PopBatch, Found
  <2>2. CASE PopList(t)
    <3>1. Top(freeList[c][k]) \in Blocks /\ Tail(freeList[c][k]) \in Chain
      BY <1>c, <2>2, HeadOfChain DEF PopList, Chain
    <3>. QED
      BY <2>2, <3>1 DEF PopList, Found
  <2>3. CASE PopNone(t)
    <3>1. <<>> \in Chain
      BY DEF Chain
    <3>. QED
      BY <2>3, <3>1 DEF PopNone
  <2>. QED
    BY <2>1, <2>2, <2>3
<1>a. s \in Steps /\ s \notin {"lock", "idle", "freeCas"}
  BY DEF Steps
<1>1. IdTypes' /\ CacheTypes' /\ ChunkTypes'
  BY <1>0 DEF IdTypes, CacheTypes, ChunkTypes, cvars
<1>2. CallTypes'
  BY <1>0, <1>a DEF CallTypes
<1>b. /\ pc'[t] = s
      /\ s # "refill" => item'[t] = b /\ rest'[t] = left
      /\ \A u \in Threads \ {t} : pc'[u] = pc[u] /\ item'[u] = item[u] /\ rest'[u] = rest[u]
  BY <1>0 DEF CallTypes
<1>3. (Homes /\ Apart /\ Accounted /\ Headers)'
  BY <1>0, <1>a, <1>b, QuietHeap DEF cvars, Pushing
<1>4. Owners'
  BY <1>0, <1>a, <1>w, GoesOn DEF CallTypes
<1>5. ASSUME NEW u \in Threads PROVE Fresh(u)'
  <2>1. CASE u = t
    BY <1>0, <1>b, <2>1 DEF Fresh, cvars
  <2>2. CASE u # t
    BY <1>0, <1>b, <2>2 DEF Fresh, cvars
  <2>. QED
    BY <2>1, <2>2
<1>. QED
  BY <1>1, <1>2, <1>3, <1>4, <1>5

(* host_free_remote reads the head again.                                   *)
LEMMA RetryStep ==
    ASSUME BlockInv, NEW t \in Threads, setup' = setup, FreeRetry(t)
    PROVE  BlockInv'
<1>. USE Domains DEF BlockInv, TypeOK
<1>0. /\ UNCHANGED <<freeIds, slot, dead, lock, cvars, remote, header, cursor, bigCursor, live,
                     pc, at, cls, item, rest>>
      /\ pc[t] = "freeCas"
      /\ seen' = [seen EXCEPT ![t] = Top(remote[at[t]][cls[t]])]
  BY DEF FreeRetry
<1>a. at[t] \in Caches /\ cls[t] \in Classes
  <2>1. item[t] \in Of(at[t], cls[t])
    BY <1>0 DEF Fresh, Accounted, Pushing
  <2>. QED
    BY <2>1, OfCaches
<1>b. Top(remote[at[t]][cls[t]]) \in Blocks \cup {None}
  BY <1>a, TopTypes
<1>1. IdTypes' /\ CacheTypes' /\ ChunkTypes'
  BY <1>0 DEF IdTypes, CacheTypes, ChunkTypes, cvars
<1>2. CallTypes'
  BY <1>0, <1>b DEF CallTypes
<1>3. (Homes /\ Apart /\ Accounted /\ Headers)'
  BY <1>0, QuietHeap DEF cvars, Pushing
<1>4. Owners'
  BY <1>0 DEF Owners, Working
<1>5. \A u \in Threads : Fresh(u)'
  BY <1>0 DEF Fresh, cvars
<1>. QED
  BY <1>1, <1>2, <1>3, <1>4, <1>5

-----------------------------------------------------------------------------
(* One block less in the lists and batches.                                 *)
LEMMA OneLess ==
    ASSUME Homes, Apart, NEW x, UNCHANGED <<header, batchCls, remote>>,
           \A d \in Caches :
              Elems(batch'[d]) = Elems(batch[d]) \ {x} /\ Once(batch'[d]),
           \A d \in Caches, j \in Classes :
              /\ Elems(freeList'[d][j]) = Elems(freeList[d][j]) \ {x} /\ Once(freeList'[d][j])
              /\ x \notin Elems(remote[d][j])
    PROVE  Homes' /\ Apart' /\ \A b : Kept(b)' <=> Kept(b) /\ b # x
<1>1. \A d, j : Of(d, j)' = Of(d, j)
  BY DEF Of, Carved
<1>2. Homes'
  <2>. SUFFICES ASSUME NEW d \in Caches
                PROVE  /\ Elems(batch'[d]) \subseteq Of(d, batchCls[d])
                       /\ \A j \in Classes :
                             Elems(freeList'[d][j]) \cup Elems(remote[d][j]) \subseteq Of(d, j)
    BY <1>1 DEF Homes
  <2>. QED
    BY DEF Homes
<1>3. Apart'
  <2>. SUFFICES ASSUME NEW d \in Caches, NEW j \in Classes
                PROVE  /\ Once(batch'[d]) /\ Once(freeList'[d][j]) /\ Once(remote[d][j])
                       /\ Elems(freeList'[d][j]) \cap Elems(remote[d][j]) = {}
                       /\ Elems(batch'[d]) \cap
                             (Elems(freeList'[d][j]) \cup Elems(remote[d][j])) = {}
    BY Domains DEF Apart
  <2>. QED
    BY DEF Apart
<1>4. ASSUME NEW b PROVE Kept(b)' <=> Kept(b) /\ b # x
  <2>1. CASE b = x
    BY <2>1 DEF Kept
  <2>2. CASE b # x
    <3>1. \A d \in Caches : b \in Elems(batch'[d]) <=> b \in Elems(batch[d])
      BY <2>2
    <3>2. \A d \in Caches, j \in Classes :
             b \in Elems(freeList'[d][j]) <=> b \in Elems(freeList[d][j])
      BY <2>2
    <3>. QED
      BY <2>2, <3>1, <3>2 DEF Kept
  <2>. QED
    BY <2>1, <2>2
<1>. QED
  BY <1>2, <1>3, <1>4

(* The write that takes the block out of a batch.                           *)
LEMMA TakeBatchStep ==
    ASSUME BlockInv, NEW t \in Threads, setup' = setup, TakeBatch(t)
    PROVE  BlockInv'
<1>. USE Domains DEF BlockInv, TypeOK
<1>. DEFINE c == at[t]
            x == item[t]
<1>0. /\ UNCHANGED <<freeIds, slot, dead, freeList, batchCls, bigRun, remote, header, cursor,
                     bigCursor>>
      /\ pc[t] = "takeBatch"
      /\ batch' = [batch EXCEPT ![c] = rest[t]]
      /\ live' = [live EXCEPT ![x] = @ + 1]
      /\ Unlock(t) /\ Idle(t)
  BY DEF TakeBatch, HandOut
<1>w. Working(t) /\ c \in Caches
  BY <1>0 DEF Owners, Working
<1>c. batch[c] \in Seq(Blocks) /\ Once(batch[c])
  BY <1>w DEF CacheTypes, Chain, Apart
<1>f. batch[c] # <<>> /\ x = Last(batch[c]) /\ rest[t] = Front(batch[c])
  BY <1>0 DEF Fresh
<1>e. /\ x \in Blocks /\ x \in Elems(batch[c])
      /\ rest[t] \in Chain /\ Len(rest[t]) <= BatchSlots
      /\ Once(rest[t]) /\ Elems(rest[t]) = Elems(batch[c]) \ {x}
  <2>1. Len(batch[c]) <= BatchSlots /\ Len(batch[c]) \in Nat
    BY <1>w, <1>c DEF CacheTypes
  <2>2. /\ Front(batch[c]) \in Seq(Blocks) /\ Len(Front(batch[c])) = Len(batch[c]) - 1
        /\ Once(Front(batch[c]))
        /\ Last(batch[c]) \in Blocks /\ Last(batch[c]) \in Elems(batch[c])
        /\ Elems(Front(batch[c])) = Elems(batch[c]) \ {Last(batch[c])}
    BY <1>c, <1>f, LastOfChain
  <2>. QED
    BY <1>f, <2>1, <2>2 DEF Chain
<1>b. \A d \in Caches : /\ batch'[d] = IF d = c THEN rest[t] ELSE batch[d]
                        /\ Elems(batch'[d]) = Elems(batch[d]) \ {x}
  <2>1. \A d \in Caches : batch'[d] = IF d = c THEN rest[t] ELSE batch[d]
    BY <1>0, <1>w DEF CacheTypes
  <2>2. \A d \in Caches : x \in Elems(batch[d]) => d = c
    BY <1>w, <1>e, OneKeeper
  <2>. QED
    BY <1>e, <2>1, <2>2
<1>i. /\ Owners' /\ Fresh(t)'
      /\ \A u \in Threads \ {t} : /\ pc'[u] = pc[u] /\ at'[u] = at[u] /\ cls'[u] = cls[u]
                                  /\ item'[u] = item[u] /\ rest'[u] = rest[u]
      /\ pc'[t] = "idle"
  BY <1>0, <1>w, GoesIdle
<1>1. IdTypes'
  BY <1>0, UnlockTypes
<1>2. CacheTypes'
  BY <1>0, <1>b, <1>e DEF CacheTypes
<1>3. ChunkTypes'
  BY <1>0, <1>e DEF ChunkTypes
<1>4. CallTypes'
  BY <1>0, IdleTypes
<1>5. Homes' /\ Apart' /\ \A b : Kept(b)' <=> Kept(b) /\ b # x
  <2>1. \A d \in Caches, j \in Classes :
           x \notin Elems(freeList[d][j]) /\ x \notin Elems(remote[d][j])
    BY <1>w, <1>e, OneKeeper
  <2>2. \A d \in Caches : Once(batch'[d])
    BY <1>b, <1>e DEF Apart
  <2>3. \A d \in Caches, j \in Classes :
           Elems(freeList'[d][j]) = Elems(freeList[d][j]) \ {x} /\ Once(freeList'[d][j])
    BY <1>0, <2>1 DEF Apart
  <2>4. UNCHANGED <<header, batchCls, remote>>
    BY <1>0
  <2>5. \A d \in Caches : Elems(batch'[d]) = Elems(batch[d]) \ {x} /\ Once(batch'[d])
    BY <1>b, <2>2
  <2>6. \A d \in Caches, j \in Classes :
           /\ Elems(freeList'[d][j]) = Elems(freeList[d][j]) \ {x} /\ Once(freeList'[d][j])
           /\ x \notin Elems(remote[d][j])
    BY <2>1, <2>3
  <2>. QED
    BY <2>4, <2>5, <2>6, OneLess
<1>6. Headers'
  BY <1>0 DEF Headers
<1>7. Accounted'
  <2>1. Kept(x)
    BY <1>w, <1>e DEF Kept
  <2>4. \A b \in Blocks, u \in Threads : Pushing(u, b)' <=> Pushing(u, b)
    BY <1>0, <1>i DEF Pushing
  <2>5. \A b \in Blocks, u \in Threads : Pushing(u, b) => at'[u] = at[u] /\ cls'[u] = cls[u]
    BY <1>0, <1>i DEF Pushing
  <2>. QED
    BY <1>0, <1>e, <1>5, <2>1, <2>4, <2>5, HandedOut DEF ChunkTypes
<1>8. ASSUME NEW u \in Threads PROVE Fresh(u)'
  <2>1. CASE u # t
    <3>1. Working(u) => at[u] # c
      BY <1>w, <2>1, SoleWorker
    <3>2. \A d \in Caches : d # c =>
             freeList'[d] = freeList[d] /\ batch'[d] = batch[d] /\ batchCls'[d] = batchCls[d]
      BY <1>0, <1>b
    <3>. QED
      BY <1>i, <2>1, <3>1, <3>2, FreshOthers
  <2>. QED
    BY <1>i, <2>1
<1>. QED
  BY <1>1, <1>2, <1>3, <1>4, <1>5, <1>6, <1>7, <1>8, <1>i

(* The write that takes the block out of a list.                            *)
LEMMA TakeListStep ==
    ASSUME BlockInv, NEW t \in Threads, setup' = setup, TakeList(t)
    PROVE  BlockInv'
<1>. USE Domains DEF BlockInv, TypeOK
<1>. DEFINE c == at[t]
            k == cls[t]
            x == item[t]
<1>0. /\ UNCHANGED <<freeIds, slot, dead, batch, batchCls, bigRun, remote, header, cursor,
                     bigCursor>>
      /\ pc[t] = "takeList"
      /\ freeList' = [freeList EXCEPT ![c][k] = rest[t]]
      /\ live' = [live EXCEPT ![x] = @ + 1]
      /\ Unlock(t) /\ Idle(t)
  BY DEF TakeList, HandOut
<1>w. Working(t) /\ c \in Caches /\ k \in Classes
  BY <1>0 DEF Owners, Working
<1>c. freeList[c][k] \in Seq(Blocks) /\ Once(freeList[c][k])
  <2>1. freeList[c] \in [Classes -> Chain]
    BY <1>w DEF CacheTypes
  <2>. QED
    BY <1>w, <2>1 DEF Chain, Apart
<1>f. /\ freeList[c][k] # <<>>
      /\ x = Top(freeList[c][k]) /\ rest[t] = Tail(freeList[c][k])
  BY <1>0 DEF Fresh
<1>e. /\ x \in Blocks /\ x \in Elems(freeList[c][k])
      /\ rest[t] \in Chain
      /\ Once(rest[t]) /\ Elems(rest[t]) = Elems(freeList[c][k]) \ {x}
  BY <1>c, <1>f, HeadOfChain DEF Chain
<1>b. \A d \in Caches, j \in Classes :
         /\ freeList'[d][j] = IF d = c /\ j = k THEN rest[t] ELSE freeList[d][j]
         /\ Elems(freeList'[d][j]) = Elems(freeList[d][j]) \ {x}
  <2>1. \A d \in Caches, j \in Classes :
           freeList'[d][j] = IF d = c /\ j = k THEN rest[t] ELSE freeList[d][j]
    BY <1>0, <1>w DEF CacheTypes
  <2>2. \A d \in Caches, j \in Classes : x \in Elems(freeList[d][j]) => d = c /\ j = k
    BY <1>w, <1>e, OneKeeper
  <2>. QED
    BY <1>e, <2>1, <2>2
<1>i. /\ Owners' /\ Fresh(t)'
      /\ \A u \in Threads \ {t} : /\ pc'[u] = pc[u] /\ at'[u] = at[u] /\ cls'[u] = cls[u]
                                  /\ item'[u] = item[u] /\ rest'[u] = rest[u]
      /\ pc'[t] = "idle"
  BY <1>0, <1>w, GoesIdle
<1>1. IdTypes'
  BY <1>0, UnlockTypes
<1>2. CacheTypes'
  BY <1>0, <1>w, <1>e DEF CacheTypes
<1>3. ChunkTypes'
  BY <1>0, <1>e DEF ChunkTypes
<1>4. CallTypes'
  BY <1>0, IdleTypes
<1>5. Homes' /\ Apart' /\ \A b : Kept(b)' <=> Kept(b) /\ b # x
  <2>1. \A d \in Caches :
           x \notin Elems(batch[d]) /\ \A j \in Classes : x \notin Elems(remote[d][j])
    BY <1>w, <1>e, OneKeeper
  <2>2. \A d \in Caches, j \in Classes : Once(freeList'[d][j])
    BY <1>b, <1>e DEF Apart
  <2>3. \A d \in Caches : Elems(batch'[d]) = Elems(batch[d]) \ {x} /\ Once(batch'[d])
    BY <1>0, <2>1 DEF Apart
  <2>4. UNCHANGED <<header, batchCls, remote>>
    BY <1>0
  <2>6. \A d \in Caches, j \in Classes :
           /\ Elems(freeList'[d][j]) = Elems(freeList[d][j]) \ {x} /\ Once(freeList'[d][j])
           /\ x \notin Elems(remote[d][j])
    BY <1>b, <2>1, <2>2
  <2>. QED
    BY <2>3, <2>4, <2>6, OneLess
<1>6. Headers'
  BY <1>0 DEF Headers
<1>7. Accounted'
  <2>1. Kept(x)
    BY <1>w, <1>e DEF Kept
  <2>4. \A b \in Blocks, u \in Threads : Pushing(u, b)' <=> Pushing(u, b)
    BY <1>0, <1>i DEF Pushing
  <2>5. \A b \in Blocks, u \in Threads : Pushing(u, b) => at'[u] = at[u] /\ cls'[u] = cls[u]
    BY <1>0, <1>i DEF Pushing
  <2>. QED
    BY <1>0, <1>e, <1>5, <2>1, <2>4, <2>5, HandedOut DEF ChunkTypes
<1>8. ASSUME NEW u \in Threads PROVE Fresh(u)'
  <2>1. CASE u # t
    <3>1. Working(u) => at[u] # c
      BY <1>w, <2>1, SoleWorker
    <3>2. \A d \in Caches : d # c =>
             freeList'[d] = freeList[d] /\ batch'[d] = batch[d] /\ batchCls'[d] = batchCls[d]
      BY <1>0 DEF CacheTypes
    <3>. QED
      BY <1>i, <2>1, <3>1, <3>2, FreshOthers
  <2>. QED
    BY <1>i, <2>1
<1>. QED
  BY <1>1, <1>2, <1>3, <1>4, <1>5, <1>6, <1>7, <1>8, <1>i

-----------------------------------------------------------------------------
(* The batch goes to the list of its class, and the first blocks of another *)
(* list become the batch; those in gone are handed out.                     *)
Shuffle(c, k, gone) ==
    /\ batchCls[c] \in Classes
    /\ batchCls[c] = k => Elems(batch[c]) = {}
    /\ UNCHANGED <<header, remote>>
    /\ \A d \in Caches : d # c =>
          freeList'[d] = freeList[d] /\ batch'[d] = batch[d] /\ batchCls'[d] = batchCls[d]
    /\ batchCls'[c] = k
    /\ Once(batch'[c]) /\ \A j \in Classes : Once(freeList'[c][j])
    /\ gone \subseteq Elems(freeList[c][k])
    /\ Elems(batch'[c]) \cap Elems(freeList'[c][k]) = {}
    /\ Elems(batch'[c]) \cup Elems(freeList'[c][k]) = Elems(freeList[c][k]) \ gone
    /\ \A j \in Classes : j # k =>
          Elems(freeList'[c][j]) =
             IF j = batchCls[c] THEN Elems(batch[c]) \cup Elems(freeList[c][j])
             ELSE Elems(freeList[c][j])

LEMMA Shuffled ==
    ASSUME Homes, Apart, NEW c \in Caches, NEW k \in Classes, NEW gone, Shuffle(c, k, gone)
    PROVE  Homes' /\ Apart' /\ \A b : Kept(b)' <=> Kept(b) /\ b \notin gone
<1>. USE DEF Shuffle
<1>1. \A d, j : Of(d, j)' = Of(d, j)
  BY DEF Of, Carved
<1>2. Homes'
  <2>. SUFFICES ASSUME NEW d \in Caches
                PROVE  /\ Elems(batch'[d]) \subseteq Of(d, batchCls'[d])
                       /\ \A j \in Classes :
                             Elems(freeList'[d][j]) \cup Elems(remote[d][j]) \subseteq Of(d, j)
    BY <1>1 DEF Homes
  <2>1. CASE d # c
    BY <2>1 DEF Homes
  <2>2. CASE d = c
    <3>1. /\ Elems(batch[c]) \subseteq Of(c, batchCls[c])
          /\ \A j \in Classes : Elems(freeList[c][j]) \cup Elems(remote[c][j]) \subseteq Of(c, j)
      BY DEF Homes
    <3>2. \A j \in Classes : j # k => Elems(freeList'[c][j]) \subseteq Of(c, j)
      BY <3>1
    <3>3. Elems(freeList'[c][k]) \subseteq Of(c, k) /\ Elems(batch'[c]) \subseteq Of(c, k)
      BY <3>1
    <3>. QED
      BY <2>2, <3>1, <3>2, <3>3
  <2>. QED
    BY <2>1, <2>2
<1>3. \A j \in Classes : \A b :
         /\ b \in Elems(freeList[c][k]) => b \notin Elems(remote[c][j])
         /\ b \in Elems(freeList[c][k]) /\ b \in Elems(freeList[c][j]) => j = k
         /\ b \in Elems(freeList[c][k]) => b \notin Elems(batch[c])
         /\ b \in Elems(freeList[c][j]) => b \notin Elems(remote[c][j])
         /\ b \in Elems(batch[c]) => b \notin Elems(remote[c][j])
  BY OneKeeper
<1>4. Apart'
  <2>. SUFFICES ASSUME NEW d \in Caches, NEW j \in Classes
                PROVE  /\ Once(batch'[d]) /\ Once(freeList'[d][j]) /\ Once(remote[d][j])
                       /\ Elems(freeList'[d][j]) \cap Elems(remote[d][j]) = {}
                       /\ Elems(batch'[d]) \cap
                             (Elems(freeList'[d][j]) \cup Elems(remote[d][j])) = {}
    BY Domains, ZenonT(60) DEF Apart
  <2>1. CASE d # c
    BY <2>1 DEF Apart
  <2>2. CASE d = c
    <3>0. Once(batch'[c]) /\ Once(freeList'[c][j]) /\ Once(remote[c][j])
      BY DEF Apart
    <3>1. CASE j = k
      BY <1>3, <2>2, <3>0, <3>1
    <3>2. CASE j # k
      BY <1>3, <2>2, <3>0, <3>2
    <3>. QED
      BY <3>1, <3>2
  <2>. QED
    BY <2>1, <2>2
<1>5. ASSUME NEW b PROVE Kept(b)' <=> Kept(b) /\ b \notin gone
  <2>. DEFINE Here == \/ b \in Elems(batch[c])
                      \/ \E j \in Classes : b \in Elems(freeList[c][j]) \cup Elems(remote[c][j])
              Away == \E d \in Caches : d # c /\
                         \/ b \in Elems(batch[d])
                         \/ \E j \in Classes : b \in Elems(freeList[d][j]) \cup Elems(remote[d][j])
  <2>1. (Kept(b) <=> Here \/ Away) /\ (Kept(b)' <=> Here' \/ Away')
    BY DEF Kept
  <2>2. Away' <=> Away
    OBVIOUS
  <2>3. b \in gone => ~Away
    BY OneKeeper
  <2>4. Here' => Here /\ b \notin gone
    BY <1>3, ZenonT(60)
  <2>5. Here /\ b \notin gone => Here'
    BY <1>3, ZenonT(60)
  <2>. HIDE DEF Here, Away
  <2>. QED
    BY <2>1, <2>2, <2>3, <2>4, <2>5
<1>. QED
  BY <1>2, <1>4, <1>5

(* Blocks move among the containers, and no block leaves them.              *)
LEMMA StillAccounted ==
    ASSUME Accounted, UNCHANGED <<header, live>>,
           \A b \in Blocks : Kept(b)' <=> Kept(b),
           \A b \in Blocks, u \in Threads : Pushing(u, b)' <=> Pushing(u, b),
           \A b \in Blocks, u \in Threads : Pushing(u, b) => at'[u] = at[u] /\ cls'[u] = cls[u]
    PROVE  Accounted'
<1>1. Carved' = Carved /\ \A c, k : Of(c, k)' = Of(c, k)
  BY DEF Carved, Of
<1>. QED
  BY <1>1 DEF Accounted

(* The batch is spilled and filled up again.                                *)
LEMMA PopRefillStep ==
    ASSUME BlockInv, NEW t \in Threads, setup' = setup, PopRefill(t)
    PROVE  BlockInv'
<1>. USE Domains DEF BlockInv, TypeOK
<1>. DEFINE c == at[t]
            k == cls[t]
            kb == batchCls[c]
            whole == freeList[c][k]
            moved == Take(whole, BatchSlots)
            left == Drop(whole, Len(moved))
            x == Last(moved)
<1>0. /\ UNCHANGED <<freeIds, slot, dead, bigRun, remote, header, cursor, bigCursor>>
      /\ pc[t] = "pop" /\ k \in Batched
      /\ kb = k => batch[c] = <<>>
      /\ batchCls' = [batchCls EXCEPT ![c] = k]
  BY DEF PopRefill
<1>w. Working(t) /\ c \in Caches /\ k \in Classes
  BY <1>0 DEF Owners, Working
<1>c. /\ freeList[c] \in [Classes -> Chain] /\ batch[c] \in Seq(Blocks) /\ kb \in Classes
      /\ \A j \in Classes : freeList[c][j] \in Seq(Blocks) /\ Once(freeList[c][j])
      /\ Once(batch[c])
  <2>1. freeList[c] \in [Classes -> Chain] /\ batch[c] \in Seq(Blocks) /\ kb \in Classes
    BY <1>w DEF CacheTypes, Chain
  <2>2. \A j \in Classes : Once(freeList[c][j])
    BY <1>w DEF Apart
  <2>3. Once(batch[c])
    BY <1>w DEF Apart
  <2>. QED
    BY <2>1, <2>2, <2>3 DEF Chain
<1>s. /\ Spilled(c, k) \in [Classes -> Chain]
      /\ \A j \in Classes : Spilled(c, k)[j] =
            IF j = kb /\ kb # k THEN batch[c] \o freeList[c][j] ELSE freeList[c][j]
  <2>1. batch[c] \o freeList[c][kb] \in Chain
    BY <1>c, CatChain DEF Chain
  <2>. QED
    BY <1>c, <2>1 DEF Spilled
<1>m. /\ moved \in Seq(Blocks) /\ left \in Seq(Blocks)
      /\ Len(moved) <= BatchSlots
      /\ Once(moved) /\ Once(left)
      /\ Elems(moved) \cap Elems(left) = {}
      /\ Elems(moved) \cup Elems(left) = Elems(whole)
      /\ moved = <<>> => left = <<>>
  BY <1>w, <1>c, CutChain
<1>g. Spilled(c, k)[k] = whole
  BY <1>w, <1>s
<1>p. /\ freeList' = [freeList EXCEPT ![c] = [Spilled(c, k) EXCEPT ![k] = left]]
      /\ IF moved = <<>>
           THEN /\ batch' = [batch EXCEPT ![c] = <<>>]
                /\ pc' = [pc EXCEPT ![t] = "refill"]
                /\ UNCHANGED <<live, lock, at, cls, item, rest, seen>>
           ELSE /\ batch' = [batch EXCEPT ![c] = Front(moved)]
                /\ live' = [live EXCEPT ![x] = @ + 1]
                /\ Unlock(t) /\ Idle(t)
  BY <1>g, <1>s, <1>w DEF PopRefill
<1>. HIDE DEF moved, left, x
<1>b. /\ \A d \in Caches : d # c =>
            freeList'[d] = freeList[d] /\ batch'[d] = batch[d] /\ batchCls'[d] = batchCls[d]
      /\ batchCls'[c] = k
      /\ batch'[c] = IF moved = <<>> THEN <<>> ELSE Front(moved)
  BY <1>0, <1>p, <1>w DEF CacheTypes
<1>l. /\ freeList'[c] \in [Classes -> Chain]
      /\ \A j \in Classes : freeList'[c][j] =
            IF j = k THEN left
            ELSE IF j = kb THEN batch[c] \o freeList[c][j] ELSE freeList[c][j]
  <2>1. freeList'[c] = [Spilled(c, k) EXCEPT ![k] = left]
    BY <1>p, <1>w DEF CacheTypes
  <2>. QED
    BY <2>1, <1>s, <1>m, <1>w DEF Chain
<1>d. Elems(batch[c]) \cap Elems(freeList[c][kb]) = {}
  BY <1>w, <1>c DEF Apart
<1>e. \A j \in Classes :
         /\ Once(freeList'[c][j])
         /\ j # k => Elems(freeList'[c][j]) =
               IF j = kb THEN Elems(batch[c]) \cup Elems(freeList[c][j])
               ELSE Elems(freeList[c][j])
  <2>1. /\ Elems(batch[c] \o freeList[c][kb]) = Elems(batch[c]) \cup Elems(freeList[c][kb])
        /\ Once(batch[c] \o freeList[c][kb])
    BY <1>c, <1>d, CatChain
  <2>. QED
    BY <1>l, <1>c, <1>m, <2>1
<1>n. batchCls[c] = k => Elems(batch[c]) = {}
  BY <1>0, EmptyChain
<1>1. CacheTypes'
  <2>1. batch'[c] \in Chain /\ Len(batch'[c]) <= BatchSlots
    <3>1. CASE moved = <<>>
      BY <1>b, <3>1 DEF Chain
    <3>2. CASE moved # <<>>
      <4>1. Front(moved) \in Seq(Blocks) /\ Len(Front(moved)) = Len(moved) - 1
        BY <1>m, <3>2, LastOfChain
      <4>2. Len(moved) \in Nat
        BY <1>m
      <4>. QED
        BY <1>b, <1>m, <3>2, <4>1, <4>2 DEF Chain
    <3>. QED
      BY <3>1, <3>2
  <2>2. batch' \in [Caches -> Chain] /\ \A d \in Caches : Len(batch'[d]) <= BatchSlots
    <3>1. \E s : batch' = [batch EXCEPT ![c] = s]
      BY <1>p
    <3>. QED
      BY <1>b, <2>1, <3>1 DEF CacheTypes
  <2>3. freeList' \in [Caches -> [Classes -> Chain]]
    <3>1. \E f : freeList' = [freeList EXCEPT ![c] = f]
      BY <1>p
    <3>. QED
      BY <1>b, <1>l, <3>1 DEF CacheTypes
  <2>. QED
    BY <1>0, <1>w, <2>2, <2>3 DEF CacheTypes
<1>2. Headers'
  BY <1>0 DEF Headers
<1>3. CASE moved = <<>>
  <2>0. /\ batch'[c] = <<>> /\ left = <<>> /\ Elems(whole) = {}
        /\ pc' = [pc EXCEPT ![t] = "refill"]
        /\ UNCHANGED <<live, lock, at, cls, item, rest, seen>>
    BY <1>3, <1>b, <1>m, <1>p, EmptyChain
  <2>1. Homes' /\ Apart' /\ \A b : Kept(b)' <=> Kept(b) /\ b \notin {}
    <3>1. Once(batch'[c])
      BY <2>0, EmptyChain
    <3>2. \A j \in Classes : Once(freeList'[c][j])
      BY <1>e
    <3>3. /\ {} \subseteq Elems(freeList[c][k])
          /\ Elems(batch'[c]) \cap Elems(freeList'[c][k]) = {}
          /\ Elems(batch'[c]) \cup Elems(freeList'[c][k]) = Elems(freeList[c][k]) \ {}
      BY <1>l, <1>w, <2>0, EmptyChain
    <3>4. \A j \in Classes : j # k =>
             Elems(freeList'[c][j]) =
                IF j = batchCls[c] THEN Elems(batch[c]) \cup Elems(freeList[c][j])
                ELSE Elems(freeList[c][j])
      BY <1>e
    <3>5. UNCHANGED <<header, remote>> /\ batchCls[c] \in Classes
      BY <1>0, <1>c
    <3>6. Shuffle(c, k, {})
      BY <1>b, <1>n, <3>1, <3>2, <3>3, <3>4, <3>5 DEF Shuffle
    <3>. QED
      BY <1>w, <3>6, Shuffled
  <2>a. "refill" \in Steps /\ "refill" \notin {"lock"}
    BY DEF Steps
  <2>b. UNCHANGED <<slot, freeIds, at, cls, lock>>
    BY <1>0, <2>0
  <2>2. IdTypes' /\ ChunkTypes'
    BY <1>0, <2>0 DEF IdTypes, ChunkTypes
  <2>3. CallTypes'
    BY <2>0, <2>a DEF CallTypes
  <2>4. pc'[t] = "refill" /\ \A u \in Threads \ {t} : pc'[u] = pc[u]
    BY <2>0 DEF CallTypes
  <2>5. Accounted'
    <3>1. \A b \in Blocks, u \in Threads : Pushing(u, b)' <=> Pushing(u, b)
      BY <1>0, <2>0, <2>4 DEF Pushing
    <3>2. \A b \in Blocks : Kept(b)' <=> Kept(b)
      BY <2>1
    <3>. QED
      BY <1>0, <2>0, <3>1, <3>2, StillAccounted
  <2>6. Owners'
    BY <1>0, <1>w, <2>0, <2>a, <2>b, GoesOn DEF CallTypes
  <2>7. ASSUME NEW u \in Threads PROVE Fresh(u)'
    <3>1. CASE u = t
      <4>1. freeList'[at'[t]][cls'[t]] = <<>>
        BY <1>l, <1>w, <2>0
      <4>. QED
        BY <3>1, <2>4, <4>1 DEF Fresh
    <3>2. CASE u # t
      <4>1. Working(u) => at[u] # c
        BY <1>w, <3>2, SoleWorker
      <4>. QED
        BY <1>b, <2>0, <2>4, <3>2, <4>1, FreshOthers
    <3>. QED
      BY <3>1, <3>2
  <2>. QED
    BY <1>1, <1>2, <2>1, <2>2, <2>3, <2>5, <2>6, <2>7
<1>4. CASE moved # <<>>
  <2>0. /\ batch'[c] = Front(moved)
        /\ live' = [live EXCEPT ![x] = @ + 1]
        /\ Unlock(t) /\ Idle(t)
    BY <1>4, <1>b, <1>p
  <2>a. /\ Once(Front(moved)) /\ x \in Blocks /\ x \in Elems(moved)
        /\ Elems(Front(moved)) = Elems(moved) \ {x}
    BY <1>4, <1>m, LastOfChain DEF x
  <2>1. Homes' /\ Apart' /\ \A b : Kept(b)' <=> Kept(b) /\ b \notin {x}
    <3>1. Once(batch'[c])
      BY <2>0, <2>a
    <3>2. \A j \in Classes : Once(freeList'[c][j])
      BY <1>e
    <3>0. freeList'[c][k] = left
      BY <1>l, <1>w
    <3>3. /\ {x} \subseteq Elems(freeList[c][k])
          /\ Elems(batch'[c]) \cap Elems(freeList'[c][k]) = {}
          /\ Elems(batch'[c]) \cup Elems(freeList'[c][k]) = Elems(freeList[c][k]) \ {x}
      BY <1>m, <2>0, <2>a, <3>0
    <3>4. \A j \in Classes : j # k =>
             Elems(freeList'[c][j]) =
                IF j = batchCls[c] THEN Elems(batch[c]) \cup Elems(freeList[c][j])
                ELSE Elems(freeList[c][j])
      BY <1>e
    <3>5. UNCHANGED <<header, remote>> /\ batchCls[c] \in Classes
      BY <1>0, <1>c
    <3>6. Shuffle(c, k, {x})
      BY <1>b, <1>n, <3>1, <3>2, <3>3, <3>4, <3>5 DEF Shuffle
    <3>. QED
      BY <1>w, <3>6, Shuffled
  <2>2. IdTypes'
    BY <1>0, <2>0, UnlockTypes
  <2>3. ChunkTypes'
    BY <1>0, <2>0, <2>a DEF ChunkTypes
  <2>4. CallTypes'
    BY <2>0, IdleTypes
  <2>i. /\ Owners' /\ Fresh(t)'
        /\ \A u \in Threads \ {t} : /\ pc'[u] = pc[u] /\ at'[u] = at[u] /\ cls'[u] = cls[u]
                                    /\ item'[u] = item[u] /\ rest'[u] = rest[u]
        /\ pc'[t] = "idle"
    BY <1>0, <1>w, <2>0, GoesIdle
  <2>5. Accounted'
    <3>1. Kept(x)
      <4>1. x \in Elems(freeList[c][k])
        BY <1>m, <2>a
      <4>. QED
        BY <1>w, <4>1 DEF Kept
    <3>2. \A b \in Blocks : Kept(b)' <=> Kept(b) /\ b # x
      BY <2>1
    <3>4. \A b \in Blocks, u \in Threads : Pushing(u, b)' <=> Pushing(u, b)
      BY <1>0, <2>i DEF Pushing
    <3>5. \A b \in Blocks, u \in Threads : Pushing(u, b) => at'[u] = at[u] /\ cls'[u] = cls[u]
      BY <1>0, <2>i DEF Pushing
    <3>6. live \in [Blocks -> Nat] /\ header' = header
      BY <1>0 DEF ChunkTypes
    <3>. QED
      BY <2>0, <2>a, <3>1, <3>2, <3>4, <3>5, <3>6, HandedOut
  <2>6. ASSUME NEW u \in Threads PROVE Fresh(u)'
    <3>1. CASE u # t
      <4>1. Working(u) => at[u] # c
        BY <1>w, <3>1, SoleWorker
      <4>. QED
        BY <1>b, <2>i, <3>1, <4>1, FreshOthers
    <3>. QED
      BY <2>i, <3>1
  <2>. QED
    BY <1>1, <1>2, <2>1, <2>2, <2>3, <2>4, <2>5, <2>6, <2>i
<1>. QED
  BY <1>3, <1>4

(* The remote stack becomes the list, which was empty.                      *)
LEMMA RefillRemoteStep ==
    ASSUME BlockInv, NEW t \in Threads, setup' = setup, RefillRemote(t)
    PROVE  BlockInv'
<1>. USE Domains DEF BlockInv, TypeOK
<1>. DEFINE c == at[t]
            k == cls[t]
            chain == remote[c][k]
<1>0. /\ UNCHANGED <<freeIds, slot, dead, lock, batch, batchCls, bigRun, header, cursor,
                     bigCursor, live, at, cls, item, rest, seen>>
      /\ pc[t] = "refill"
      /\ remote' = [remote EXCEPT ![c][k] = <<>>]
      /\ IF chain # <<>>
           THEN /\ freeList' = [freeList EXCEPT ![c][k] = chain]
                /\ pc' = [pc EXCEPT ![t] = "pop"]
           ELSE /\ pc' = [pc EXCEPT ![t] = IF k \in Big THEN "growBig" ELSE "grow"]
                /\ UNCHANGED freeList
  BY DEF RefillRemote, TakeRemote
<1>w. Working(t) /\ c \in Caches /\ k \in Classes
  BY <1>0 DEF Owners, Working
<1>f. freeList[c][k] = <<>>
  BY <1>0 DEF Fresh
<1>c. chain \in Chain
  BY <1>w DEF CacheTypes
<1>b. \A d \in Caches, j \in Classes :
         /\ freeList'[d][j] = IF d = c /\ j = k THEN chain ELSE freeList[d][j]
         /\ remote'[d][j] = IF d = c /\ j = k THEN <<>> ELSE remote[d][j]
  <2>. HIDE DEF chain
  <2>1. \A d \in Caches, j \in Classes :
           remote'[d][j] = IF d = c /\ j = k THEN <<>> ELSE remote[d][j]
    BY <1>0, <1>w DEF CacheTypes
  <2>2. CASE chain # <<>>
    <3>1. freeList' = [freeList EXCEPT ![c][k] = chain]
      BY <1>0, <2>2
    <3>2. \A d \in Caches, j \in Classes :
             freeList'[d][j] = IF d = c /\ j = k THEN chain ELSE freeList[d][j]
      BY <1>w, <3>1 DEF CacheTypes
    <3>. QED
      BY <2>1, <3>2
  <2>3. CASE chain = <<>>
    BY <1>0, <1>f, <2>1, <2>3
  <2>. QED
    BY <2>2, <2>3
<1>s. \A d \in Caches : d # c => freeList'[d] = freeList[d]
  BY <1>0, <1>w DEF CacheTypes
<1>p. PICK s \in {"pop", "growBig", "grow"} :
         /\ pc' = [pc EXCEPT ![t] = s]
         /\ s = "growBig" => k \in Big
         /\ s # "pop" => chain = <<>>
  BY <1>0
<1>a. s \in Steps /\ s \notin {"lock"} /\ s \notin {"freeCas", "takeBatch", "takeList", "refill"}
  BY DEF Steps
<1>1. IdTypes' /\ ChunkTypes'
  BY <1>0 DEF IdTypes, ChunkTypes
<1>2. CallTypes'
  BY <1>0, <1>p, <1>a DEF CallTypes
<1>3. CacheTypes'
  <2>1. <<>> \in Chain
    BY DEF Chain
  <2>2. remote' \in [Caches -> [Classes -> Chain]]
    BY <1>0, <2>1 DEF CacheTypes
  <2>3. freeList' \in [Caches -> [Classes -> Chain]]
    <3>. HIDE DEF chain
    <3>1. CASE freeList' = freeList
      BY <3>1 DEF CacheTypes
    <3>2. CASE freeList' = [freeList EXCEPT ![c][k] = chain]
      BY <3>2, <1>c DEF CacheTypes
    <3>. QED
      BY <1>0, <3>1, <3>2
  <2>. QED
    BY <1>0, <2>2, <2>3 DEF CacheTypes
<1>4. pc'[t] = s /\ \A u \in Threads \ {t} : pc'[u] = pc[u]
  BY <1>p DEF CallTypes
<1>5. /\ Homes' /\ Apart' /\ \A b \in Blocks : Kept(b)' <=> Kept(b)
  <2>0. \A d, j : Of(d, j)' = Of(d, j)
    BY <1>0 DEF Of, Carved
  <2>e. Elems(<<>>) = {} /\ Once(<<>>)
    BY EmptyChain
  <2>1. Homes'
    <3>. SUFFICES ASSUME NEW d \in Caches
                  PROVE  /\ Elems(batch'[d]) \subseteq Of(d, batchCls'[d])
                         /\ \A j \in Classes :
                               Elems(freeList'[d][j]) \cup Elems(remote'[d][j]) \subseteq Of(d, j)
      BY <2>0 DEF Homes
    <3>1. /\ Elems(batch[d]) \subseteq Of(d, batchCls[d])
          /\ \A j \in Classes : Elems(freeList[d][j]) \cup Elems(remote[d][j]) \subseteq Of(d, j)
      BY DEF Homes
    <3>2. \A j \in Classes : Elems(freeList'[d][j]) \cup Elems(remote'[d][j])
                                \subseteq Elems(freeList[d][j]) \cup Elems(remote[d][j])
      BY <1>b, <2>e
    <3>. QED
      BY <1>0, <3>1, <3>2
  <2>2. Apart'
    <3>. SUFFICES ASSUME NEW d \in Caches, NEW j \in Classes
                  PROVE  /\ Once(batch'[d]) /\ Once(freeList'[d][j]) /\ Once(remote'[d][j])
                         /\ Elems(freeList'[d][j]) \cap Elems(remote'[d][j]) = {}
                         /\ Elems(batch'[d]) \cap
                               (Elems(freeList'[d][j]) \cup Elems(remote'[d][j])) = {}
      BY DEF Apart
    <3>1. Apart /\ batch'[d] = batch[d]
      BY <1>0
    <3>2. CASE d = c /\ j = k
      BY <1>b, <2>e, <3>1, <3>2, ZenonT(60) DEF Apart
    <3>3. CASE ~(d = c /\ j = k)
      BY <1>b, <2>e, <3>1, <3>3, ZenonT(60) DEF Apart
    <3>. QED
      BY <3>2, <3>3
  <2>3. ASSUME NEW b \in Blocks PROVE Kept(b)' <=> Kept(b)
    <3>1. \A d \in Caches, j \in Classes :
             Elems(freeList'[d][j]) \cup Elems(remote'[d][j])
                = Elems(freeList[d][j]) \cup Elems(remote[d][j])
      BY <1>b, <1>f, <2>e
    <3>. QED
      BY <1>0, <3>1 DEF Kept
  <2>. QED
    BY <2>1, <2>2, <2>3
<1>6. Accounted'
  <2>1. \A b \in Blocks, u \in Threads : Pushing(u, b)' <=> Pushing(u, b)
    BY <1>0, <1>4, <1>a DEF Pushing
  <2>. QED
    BY <1>0, <1>5, <2>1, StillAccounted
<1>7. Headers'
  BY <1>0 DEF Headers
<1>8. Owners'
  <2>1. UNCHANGED <<slot, freeIds, at, cls, lock>>
    BY <1>0
  <2>. QED
    BY <1>w, <1>p, <1>a, <2>1, GoesOn DEF CallTypes
<1>9. ASSUME NEW u \in Threads PROVE Fresh(u)'
  <2>1. CASE u = t
    <3>1. s # "pop" => freeList'[c][k] = <<>>
      BY <1>b, <1>p, <1>w
    <3>. QED
      BY <1>0, <1>4, <1>a, <1>p, <2>1, <3>1 DEF Fresh
  <2>2. CASE u # t
    <3>1. Working(u) => at[u] # c
      BY <1>w, <2>2, SoleWorker
    <3>. QED
      BY <1>0, <1>4, <1>s, <2>2, <3>1, FreshOthers
  <2>. QED
    BY <2>1, <2>2
<1>. QED
  BY <1>1, <1>2, <1>3, <1>5, <1>6, <1>7, <1>8, <1>9

(* The header and the list of a cache that has chained new blocks: nobody   *)
(* had seen them, and the list was empty.                                   *)
LEMMA Grown ==
    ASSUME BlockInv, NEW t \in Threads, setup' = setup,
           pc[t] \in {"growBig", "grow"},
           NEW ch \in Chunks, NEW first \in 1 .. Capacity, NEW last \in first .. Capacity,
           header[ch].chained = first - 1,
           first > 1 => header[ch].owner = at[t] /\ header[ch].cls = cls[t],
           Chained(t, ch, first, last)
    PROVE  /\ IdTypes' /\ CacheTypes' /\ CallTypes'
           /\ header' \in [Chunks -> [owner : Caches \cup {None}, cls : Classes \cup {None},
                                      chained : 0 .. Capacity]]
           /\ Homes' /\ Apart' /\ Accounted' /\ Owners'
           /\ \A u \in Threads : Fresh(u)'
<1>. USE Domains DEF BlockInv, TypeOK
<1>. DEFINE c == at[t]
            k == cls[t]
            run == Run(ch, first, last)
            new == {b \in Blocks : b[1] = ch /\ b[2] \in first .. last}
            NowOf(d, j) == {b \in Carved' : header'[b[1]].owner = d /\ header'[b[1]].cls = j}
<1>0. /\ UNCHANGED <<freeIds, slot, dead, lock, batch, batchCls, remote, live,
                     at, cls, item, rest, seen>>
      /\ header' = [header EXCEPT ![ch] = [owner |-> c, cls |-> k, chained |-> last]]
      /\ freeList' = [freeList EXCEPT ![c][k] = run]
      /\ pc' = [pc EXCEPT ![t] = "pop"]
  BY DEF Chained
<1>w. Working(t) /\ c \in Caches /\ k \in Classes
  BY DEF Owners, Working
<1>f. freeList[c][k] = <<>>
  BY DEF Fresh
<1>r. run \in Chain /\ run # <<>> /\ Once(run) /\ Elems(run) = new
  BY RunChain DEF Chain
<1>. HIDE DEF run
<1>a. "pop" \in Steps /\ "pop" \notin {"lock"}
  BY DEF Steps
<1>1. IdTypes'
  BY <1>0 DEF IdTypes
<1>2. CallTypes'
  BY <1>0, <1>a DEF CallTypes
<1>3. freeList' \in [Caches -> [Classes -> Chain]]
  BY <1>0, <1>r DEF CacheTypes
<1>4. CacheTypes'
  BY <1>0, <1>3 DEF CacheTypes
<1>5. /\ header' \in [Chunks -> [owner : Caches \cup {None}, cls : Classes \cup {None},
                                 chained : 0 .. Capacity]]
      /\ header'[ch] = [owner |-> c, cls |-> k, chained |-> last]
      /\ \A g \in Chunks : g # ch => header'[g] = header[g]
  <2>1. [owner |-> c, cls |-> k, chained |-> last] \in
           [owner : Caches \cup {None}, cls : Classes \cup {None}, chained : 0 .. Capacity]
    BY <1>w
  <2>. QED
    BY <1>0, <2>1 DEF ChunkTypes
<1>b. \A d \in Caches, j \in Classes :
         freeList'[d][j] = IF d = c /\ j = k THEN run ELSE freeList[d][j]
  BY <1>0, <1>w DEF CacheTypes
<1>s. \A d \in Caches : d # c => freeList'[d] = freeList[d]
  BY <1>0, <1>w DEF CacheTypes
<1>6. pc'[t] = "pop" /\ \A u \in Threads \ {t} : pc'[u] = pc[u]
  BY <1>0 DEF CallTypes
<1>g. \A b \in Blocks : b[1] \in Chunks /\ b[2] \in 1 .. Capacity
  BY DEF Blocks
<1>7. Carved' = Carved \cup new /\ Carved \cap new = {}
  <2>1. ASSUME NEW b \in Blocks
        PROVE  /\ b[2] <= header'[b[1]].chained <=> b[2] <= header[b[1]].chained \/ b \in new
               /\ ~(b[2] <= header[b[1]].chained /\ b \in new)
    <3>1. CASE b[1] = ch
      BY <1>5, <1>g, <3>1
    <3>2. CASE b[1] # ch
      BY <1>5, <1>g, <3>2
    <3>. QED
      BY <3>1, <3>2
  <2>. QED
    BY <2>1 DEF Carved
<1>8. new \subseteq NowOf(c, k) /\ \A d, j : Of(d, j) \subseteq NowOf(d, j)
  <2>1. new \subseteq NowOf(c, k)
    BY <1>5, <1>7 DEF Of
  <2>2. ASSUME NEW d, NEW j, NEW b \in Of(d, j) PROVE b \in NowOf(d, j)
    <3>1. b \in Carved /\ b \in Carved' /\ b \in Blocks
      BY <1>7, <2>2 DEF Of, Carved
    <3>2. CASE b[1] = ch
      <4>1. first > 1
        BY <1>g, <3>1, <3>2 DEF Carved
      <4>2. d = c /\ j = k
        BY <2>2, <3>2, <4>1 DEF Of
      <4>. QED
        BY <1>5, <3>1, <3>2, <4>2 DEF Of
    <3>3. CASE b[1] # ch
      BY <1>5, <1>g, <2>2, <3>1, <3>3 DEF Of
    <3>. QED
      BY <3>2, <3>3
  <2>. QED
    BY <2>1, <2>2
<1>9. \A d \in Caches, j \in Classes :
         /\ new \cap Elems(batch[d]) = {}
         /\ new \cap Elems(freeList[d][j]) = {} /\ new \cap Elems(remote[d][j]) = {}
  BY <1>7 DEF Homes, Of
<1>10. Homes'
  <2>. SUFFICES ASSUME NEW d \in Caches
                PROVE  /\ Elems(batch'[d]) \subseteq NowOf(d, batchCls'[d])
                       /\ \A j \in Classes :
                             Elems(freeList'[d][j]) \cup Elems(remote'[d][j]) \subseteq NowOf(d, j)
    BY DEF Homes, Of
  <2>1. Elems(batch'[d]) \subseteq NowOf(d, batchCls'[d])
    <3>1. Elems(batch[d]) \subseteq Of(d, batchCls[d]) /\ batchCls'[d] = batchCls[d]
      BY <1>0 DEF Homes
    <3>2. Of(d, batchCls[d]) \subseteq NowOf(d, batchCls'[d])
      BY <1>8, <3>1
    <3>. QED
      BY <1>0, <3>1, <3>2
  <2>2. ASSUME NEW j \in Classes
        PROVE  Elems(freeList'[d][j]) \cup Elems(remote'[d][j]) \subseteq NowOf(d, j)
    <3>1. Elems(freeList[d][j]) \cup Elems(remote[d][j]) \subseteq Of(d, j)
      BY DEF Homes
    <3>. QED
      BY <1>0, <1>b, <1>r, <1>8, <3>1
  <2>. QED
    BY <2>1, <2>2
<1>11. Apart'
  <2>. SUFFICES ASSUME NEW d \in Caches, NEW j \in Classes
                PROVE  /\ Once(batch'[d]) /\ Once(freeList'[d][j]) /\ Once(remote'[d][j])
                       /\ Elems(freeList'[d][j]) \cap Elems(remote'[d][j]) = {}
                       /\ Elems(batch'[d]) \cap
                             (Elems(freeList'[d][j]) \cup Elems(remote'[d][j])) = {}
    BY DEF Apart
  <2>1. Apart /\ batch'[d] = batch[d] /\ remote'[d][j] = remote[d][j]
    BY <1>0
  <2>2. CASE d = c /\ j = k
    BY <1>b, <1>r, <1>9, <2>1, <2>2, ZenonT(60) DEF Apart
  <2>3. CASE ~(d = c /\ j = k)
    BY <1>b, <2>1, <2>3 DEF Apart
  <2>. QED
    BY <2>2, <2>3
<1>12. ASSUME NEW b \in Blocks
       PROVE  /\ Kept(b)' <=> Kept(b) \/ b \in new
              /\ b \in new => ~Kept(b)
  <2>1. \A d \in Caches, j \in Classes :
           Elems(freeList'[d][j]) =
              IF d = c /\ j = k THEN new ELSE Elems(freeList[d][j])
    BY <1>b, <1>r
  <2>2. Elems(freeList[c][k]) = {}
    BY <1>f, EmptyChain
  <2>0. batch' = batch /\ remote' = remote
    BY <1>0
  <2>3. b \in new => ~Kept(b)
    BY <1>9 DEF Kept
  <2>4. Kept(b)' => Kept(b) \/ b \in new
    <3>. HIDE DEF c, k, new
    <3>. QED
      BY <2>0, <2>1 DEF Kept
  <2>5. Kept(b) => Kept(b)'
    <3>. HIDE DEF c, k, new
    <3>1. \A d \in Caches, j \in Classes :
             b \in Elems(freeList[d][j]) => b \in Elems(freeList'[d][j])
      BY <2>1, <2>2
    <3>. QED
      BY <2>0, <3>1 DEF Kept
  <2>6. b \in new => Kept(b)'
    BY <1>w, <2>1 DEF Kept
  <2>. QED
    BY <2>3, <2>4, <2>5, <2>6
<1>13. Accounted'
  <2>1. \A b \in Blocks, u \in Threads :
           /\ Pushing(u, b)' <=> Pushing(u, b)
           /\ Pushing(u, b) => at'[u] = at[u] /\ cls'[u] = cls[u]
    BY <1>0, <1>6 DEF Pushing
  <2>2. \A b \in new, u \in Threads : live[b] = 0 /\ ~Pushing(u, b)
    <3>1. ASSUME NEW b \in new, NEW u \in Threads PROVE live[b] = 0 /\ ~Pushing(u, b)
      <4>1. b \in Blocks /\ b \notin Carved
        BY <1>7
      <4>2. live[b] \in 0 .. 1 /\ live[b] # 1
        BY <4>1 DEF Accounted
      <4>3. Pushing(u, b) => b \in Carved
        BY <4>1 DEF Accounted, Of
      <4>. QED
        BY <4>1, <4>2, <4>3
    <3>. QED
      BY <3>1
  <2>. SUFFICES ASSUME NEW b \in Blocks
                PROVE  /\ live[b] \in 0 .. 1
                       /\ live[b] = 1 => b \in Carved' /\ ~Kept(b)'
                                         /\ \A u \in Threads : ~Pushing(u, b)'
                       /\ \A u \in Threads : Pushing(u, b)' =>
                             /\ b \in NowOf(at'[u], cls'[u]) /\ ~Kept(b)'
                             /\ \A v \in Threads : Pushing(v, b)' => v = u
                       /\ b \in Carved' => live[b] = 1 \/ Kept(b)'
                                           \/ \E u \in Threads : Pushing(u, b)'
    BY <1>0 DEF Accounted, Of
  <2>3. live[b] \in 0 .. 1
    BY DEF Accounted
  <2>4. live[b] = 1 => b \in Carved' /\ ~Kept(b)' /\ \A u \in Threads : ~Pushing(u, b)'
    BY <1>7, <1>12, <2>1, <2>2 DEF Accounted
  <2>5. ASSUME NEW u \in Threads, Pushing(u, b)'
        PROVE  /\ b \in NowOf(at'[u], cls'[u]) /\ ~Kept(b)'
               /\ \A v \in Threads : Pushing(v, b)' => v = u
    <3>1. Pushing(u, b) /\ at'[u] = at[u] /\ cls'[u] = cls[u]
      BY <2>1, <2>5
    <3>2. b \in Of(at[u], cls[u]) /\ ~Kept(b) /\ \A v \in Threads : Pushing(v, b) => v = u
      BY <3>1 DEF Accounted
    <3>3. b \in Carved /\ b \in Carved' /\ b[1] \in Chunks
      BY <1>7, <1>g, <3>2 DEF Of
    <3>4. b \in NowOf(at'[u], cls'[u])
      <4>1. b \in NowOf(at[u], cls[u])
        BY <1>8, <3>2
      <4>. QED
        BY <3>1, <4>1
    <3>. QED
      BY <1>12, <2>1, <2>2, <3>1, <3>2, <3>4
  <2>6. b \in Carved' => live[b] = 1 \/ Kept(b)' \/ \E u \in Threads : Pushing(u, b)'
    BY <1>7, <1>12, <2>1 DEF Accounted
  <2>. QED
    BY <2>3, <2>4, <2>5, <2>6
<1>14. Owners'
  <2>1. UNCHANGED <<slot, freeIds, at, cls, lock>>
    BY <1>0
  <2>. QED
    BY <1>w, <1>0, <1>a, <2>1, GoesOn DEF CallTypes
<1>15. ASSUME NEW u \in Threads PROVE Fresh(u)'
  <2>1. CASE u = t
    BY <1>6, <2>1 DEF Fresh
  <2>2. CASE u # t
    <3>1. Working(u) => at[u] # c
      BY <1>w, <2>2, SoleWorker
    <3>. QED
      BY <1>0, <1>6, <1>s, <2>2, <3>1, FreshOthers
  <2>. QED
    BY <2>1, <2>2
<1>. QED
  BY <1>1, <1>2, <1>4, <1>5, <1>10, <1>11, <1>13, <1>14, <1>15

LEMMA GrowStep ==
    ASSUME BlockInv, NEW t \in Threads, setup' = setup, Grow(t)
    PROVE  BlockInv'
<1>. USE Domains DEF BlockInv, TypeOK
<1>. DEFINE ch == cursor + 1
<1>0. /\ pc[t] = "grow" /\ cursor < setup.room /\ cursor' = ch
      /\ Chained(t, ch, 1, Capacity)
      /\ UNCHANGED <<bigRun, bigCursor>>
  BY DEF Grow
<1>1. cursor \in 0 .. SmallChunks /\ ch \in 1 .. SmallChunks /\ ch \in Chunks
  <2>1. setup.room \in 0 .. SmallChunks
    BY SetupRoom DEF IdTypes
  <2>. QED
    BY <1>0, <2>1 DEF ChunkTypes, Chunks
<1>2. header[ch] = Virgin
  BY <1>1 DEF Headers
<1>w. Working(t) /\ at[t] \in Caches /\ cls[t] \in Classes
  BY <1>0 DEF Owners, Working
<1>. HIDE DEF ch
<1>3. /\ IdTypes' /\ CacheTypes' /\ CallTypes'
      /\ header' \in [Chunks -> [owner : Caches \cup {None}, cls : Classes \cup {None},
                                 chained : 0 .. Capacity]]
      /\ Homes' /\ Apart' /\ Accounted' /\ Owners'
      /\ \A u \in Threads : Fresh(u)'
  <2>1. header[ch].chained = 1 - 1
    BY <1>2 DEF Virgin
  <2>2. 1 \in 1 .. Capacity /\ Capacity \in 1 .. Capacity
    OBVIOUS
  <2>. QED
    BY <1>0, <1>1, <2>1, <2>2, Grown
<1>4. /\ header'[ch] = [owner |-> at[t], cls |-> cls[t], chained |-> Capacity]
      /\ \A g \in Chunks : g # ch => header'[g] = header[g]
  BY <1>0, <1>1 DEF Chained, ChunkTypes
<1>5. ChunkTypes'
  BY <1>0, <1>1, <1>3 DEF ChunkTypes, Chained
<1>6. Headers'
  <2>1. ASSUME NEW g \in Chunks
        PROVE  /\ header'[g].chained > 0 => header'[g].owner \in Caches
                                            /\ header'[g].cls \in Classes
               /\ cursor' < g /\ g <= SmallChunks => header'[g] = Virgin
               /\ SmallChunks + bigCursor' < g => header'[g] = Virgin
    <3>1. CASE g = ch
      <4>1. header'[g].owner \in Caches /\ header'[g].cls \in Classes
        BY <1>4, <1>w, <3>1
      <4>2. ~(cursor' < g) /\ g <= SmallChunks /\ bigCursor' = bigCursor /\ bigCursor >= 0
        BY <1>0, <1>1, <3>1 DEF ChunkTypes
      <4>. QED
        BY <4>1, <4>2, <1>1, <3>1 DEF ChunkTypes
    <3>2. CASE g # ch
      <4>1. header'[g] = header[g]
        BY <1>4, <3>2
      <4>2. cursor' < g => cursor < g
        BY <1>0, <1>1 DEF ch, Chunks
      <4>. QED
        BY <1>0, <4>1, <4>2 DEF Headers
    <3>. QED
      BY <3>1, <3>2
  <2>2. ASSUME NEW d \in Caches, NEW j \in Big, bigRun[d][j] # None
        PROVE  header'[bigRun[d][j]].owner = d /\ header'[bigRun[d][j]].cls = j
    <3>1. header[bigRun[d][j]].owner = d /\ header[bigRun[d][j]].cls = j
      BY <2>2 DEF Headers
    <3>2. bigRun[d][j] \in Chunks
      BY <2>2 DEF ChunkTypes
    <3>3. bigRun[d][j] # ch
      BY <1>2, <3>1 DEF Virgin
    <3>. QED
      BY <1>4, <3>1, <3>2, <3>3
  <2>. QED
    BY <1>0, <2>1, <2>2 DEF Headers
<1>. QED
  BY <1>3, <1>5, <1>6

(* grow_big chains a batch of the chunk it spends, or of a new one.         *)
LEMMA GrowBigStep ==
    ASSUME BlockInv, NEW t \in Threads, setup' = setup, GrowBig(t)
    PROVE  BlockInv'
<1>. USE Domains DEF BlockInv, TypeOK
<1>. DEFINE c == at[t]
            k == cls[t]
            fresh == Spending(t) = None
            ch == IF fresh THEN SmallChunks + bigCursor + 1 ELSE Spending(t)
            done == Done(t)
            take == IF Capacity - done > BigBatch THEN BigBatch ELSE Capacity - done
<1>0. /\ pc[t] = "growBig"
      /\ ~fresh \/ bigCursor < BigChunks
      /\ bigRun' = [bigRun EXCEPT ![c][k] = ch]
      /\ bigCursor' = IF fresh THEN bigCursor + 1 ELSE bigCursor
      /\ Chained(t, ch, done + 1, done + take)
      /\ cursor' = cursor
  BY DEF GrowBig
<1>w. Working(t) /\ c \in Caches /\ k \in Classes /\ k \in Big
  BY <1>0 DEF Owners, Working, Fresh
<1>1. /\ ch \in Chunks /\ done \in 0 .. Capacity - 1 /\ header[ch].chained = done
      /\ fresh => ch = SmallChunks + bigCursor + 1 /\ header[ch] = Virgin /\ done = 0
      /\ ~fresh => header[ch].owner = c /\ header[ch].cls = k
  <2>1. CASE fresh
    <3>1. bigCursor \in 0 .. BigChunks /\ bigCursor < BigChunks
      BY <1>0, <2>1 DEF ChunkTypes
    <3>2. ch = SmallChunks + bigCursor + 1 /\ ch \in Chunks
      BY <2>1, <3>1 DEF Chunks
    <3>3. header[ch] = Virgin
      BY <3>1, <3>2 DEF Headers
    <3>. QED
      BY <2>1, <3>2, <3>3 DEF Done, Virgin
  <2>2. CASE ~fresh
    <3>. DEFINE run == bigRun[c][k]
    <3>1. run # None /\ header[run].chained < Capacity /\ ch = run /\ done = header[run].chained
      BY <2>2 DEF Spending, Done
    <3>2. run \in Chunks
      BY <1>w, <3>1 DEF ChunkTypes
    <3>3. header[run].owner = c /\ header[run].cls = k
      BY <1>w, <3>1 DEF Headers
    <3>4. header[run].chained \in 0 .. Capacity
      BY <3>2 DEF ChunkTypes
    <3>. QED
      BY <2>2, <3>1, <3>2, <3>3, <3>4
  <2>. QED
    BY <2>1, <2>2
<1>t. take \in 1 .. Capacity - done
  BY <1>1
<1>. HIDE DEF take, done, ch, fresh
<1>2. /\ done + 1 \in 1 .. Capacity /\ done + take \in done + 1 .. Capacity
      /\ header[ch].chained = (done + 1) - 1
      /\ done + 1 > 1 => header[ch].owner = c /\ header[ch].cls = k
  BY <1>1, <1>t
<1>3. /\ IdTypes' /\ CacheTypes' /\ CallTypes'
      /\ header' \in [Chunks -> [owner : Caches \cup {None}, cls : Classes \cup {None},
                                 chained : 0 .. Capacity]]
      /\ Homes' /\ Apart' /\ Accounted' /\ Owners'
      /\ \A u \in Threads : Fresh(u)'
  BY <1>0, <1>1, <1>2, Grown
<1>4. /\ header'[ch].owner = c /\ header'[ch].cls = k
      /\ \A g \in Chunks : g # ch => header'[g] = header[g]
  BY <1>0, <1>1 DEF Chained, ChunkTypes
<1>5. ChunkTypes'
  <2>1. bigCursor' \in 0 .. BigChunks
    BY <1>0 DEF ChunkTypes
  <2>2. bigRun' \in [Caches -> [Big -> Chunks \cup {None}]]
    BY <1>0, <1>1 DEF ChunkTypes
  <2>. QED
    BY <1>0, <1>3, <2>1, <2>2 DEF ChunkTypes, Chained
<1>6. Headers'
  <2>0. header[ch] # Virgin \/ fresh
    BY <1>1, <1>w DEF Virgin
  <2>1. ASSUME NEW g \in Chunks
        PROVE  /\ header'[g].chained > 0 => header'[g].owner \in Caches
                                            /\ header'[g].cls \in Classes
               /\ cursor' < g /\ g <= SmallChunks => header'[g] = Virgin
               /\ SmallChunks + bigCursor' < g => header'[g] = Virgin
    <3>c. bigCursor \in Nat /\ cursor \in Nat /\ g \in Nat
      BY DEF ChunkTypes, Chunks
    <3>1. CASE g = ch
      <4>1. header'[g].owner \in Caches /\ header'[g].cls \in Classes
        BY <1>4, <1>w, <3>1
      <4>2. CASE fresh
        <5>1. g = SmallChunks + bigCursor + 1 /\ bigCursor' = bigCursor + 1
          BY <1>0, <1>1, <3>1, <4>2
        <5>. QED
          BY <3>c, <4>1, <5>1
      <4>3. CASE ~fresh
        <5>1. header[g] # Virgin /\ bigCursor' = bigCursor
          BY <1>0, <2>0, <3>1, <4>3
        <5>2. ~(cursor < g /\ g <= SmallChunks) /\ ~(SmallChunks + bigCursor < g)
          BY <5>1 DEF Headers
        <5>. QED
          BY <1>0, <4>1, <5>1, <5>2
      <4>. QED
        BY <4>2, <4>3
    <3>2. CASE g # ch
      <4>1. header'[g] = header[g]
        BY <1>4, <3>2
      <4>2. SmallChunks + bigCursor' < g => SmallChunks + bigCursor < g
        BY <1>0, <3>c
      <4>. QED
        BY <1>0, <4>1, <4>2 DEF Headers
    <3>. QED
      BY <3>1, <3>2
  <2>2. ASSUME NEW d \in Caches, NEW j \in Big, bigRun'[d][j] # None
        PROVE  header'[bigRun'[d][j]].owner = d /\ header'[bigRun'[d][j]].cls = j
    <3>1. bigRun'[d][j] = IF d = c /\ j = k THEN ch ELSE bigRun[d][j]
      BY <1>0, <1>w DEF ChunkTypes
    <3>2. CASE d = c /\ j = k
      BY <1>4, <3>1, <3>2
    <3>3. CASE ~(d = c /\ j = k)
      <4>1. /\ bigRun'[d][j] = bigRun[d][j]
            /\ header[bigRun[d][j]].owner = d /\ header[bigRun[d][j]].cls = j
        BY <2>2, <3>1, <3>3 DEF Headers
      <4>2. bigRun[d][j] \in Chunks
        BY <2>2, <4>1 DEF ChunkTypes
      <4>3. bigRun[d][j] # ch
        BY <1>1, <3>3, <4>1 DEF Virgin
      <4>. QED
        BY <1>4, <4>1, <4>2, <4>3
    <3>. QED
      BY <3>2, <3>3
  <2>. QED
    BY <2>1, <2>2 DEF Headers
<1>. QED
  BY <1>3, <1>5, <1>6

(* No block moves, and no header that a block reads changes.                *)
LEMMA QuietBlocks ==
    ASSUME Homes, Apart, Accounted,
           UNCHANGED <<freeList, batch, batchCls, remote, live>>, Carved' = Carved,
           \A b \in Carved : /\ header'[b[1]].owner = header[b[1]].owner
                             /\ header'[b[1]].cls = header[b[1]].cls,
           \A b \in Blocks, t \in Threads : Pushing(t, b)' <=> Pushing(t, b),
           \A b \in Blocks, t \in Threads :
              Pushing(t, b) => at'[t] = at[t] /\ cls'[t] = cls[t]
    PROVE  Homes' /\ Apart' /\ Accounted'
<1>1. \A c, k : Of(c, k)' = Of(c, k)
  BY DEF Of
<1>2. \A b : Kept(b)' <=> Kept(b)
  BY DEF Kept
<1>3. Homes'
  BY <1>1 DEF Homes
<1>4. Apart'
  BY DEF Apart
<1>5. Accounted'
  BY <1>1, <1>2 DEF Accounted
<1>. QED
  BY <1>3, <1>4, <1>5

(* grow_big gives up: the header it may have written is of an empty chunk.  *)
LEMMA GrowBigFailStep ==
    ASSUME BlockInv, NEW t \in Threads, setup' = setup, GrowBigFail(t)
    PROVE  BlockInv'
<1>. USE Domains DEF BlockInv, TypeOK
<1>. DEFINE c == at[t]
            k == cls[t]
            ch == SmallChunks + bigCursor + 1
            mark == [owner |-> c, cls |-> k, chained |-> 0]
<1>0. /\ pc[t] = "growBig" /\ pc' = [pc EXCEPT ![t] = "grow"]
      /\ UNCHANGED <<freeIds, slot, dead, lock, freeList, batch, batchCls, remote, cursor, live,
                     at, cls, item, rest, seen>>
  BY DEF GrowBigFail
<1>w. Working(t) /\ c \in Caches /\ k \in Classes /\ k \in Big
  BY <1>0 DEF Owners, Working, Fresh
<1>a. "grow" \in Steps /\ "grow" \notin {"lock"}
  BY DEF Steps
<1>p. pc'[t] = "grow" /\ \A u \in Threads \ {t} : pc'[u] = pc[u]
  BY <1>0 DEF CallTypes
<1>c. cursor \in Nat /\ bigCursor \in Nat
  BY DEF ChunkTypes
<1>1. \/ UNCHANGED <<bigCursor, bigRun, header>>
      \/ /\ bigCursor < BigChunks /\ bigCursor' = bigCursor + 1
         /\ \/ UNCHANGED <<bigRun, header>>
            \/ /\ bigRun' = [bigRun EXCEPT ![c][k] = ch]
               /\ header' = [header EXCEPT ![ch] = mark]
  BY DEF GrowBigFail
<1>2. bigCursor < BigChunks => ch \in Chunks /\ header[ch] = Virgin
  <2>1. bigCursor < BigChunks => ch \in Chunks /\ SmallChunks + bigCursor < ch
    BY <1>c DEF Chunks
  <2>. QED
    BY <2>1 DEF Headers
<1>. HIDE DEF ch, mark
<1>3. ChunkTypes' /\ Headers'
  <2>1. CASE UNCHANGED <<bigCursor, bigRun, header>>
    BY <1>0, <2>1 DEF ChunkTypes, Headers
  <2>2. CASE bigCursor < BigChunks /\ bigCursor' = bigCursor + 1 /\ UNCHANGED <<bigRun, header>>
    <3>1. bigCursor' \in 0 .. BigChunks
      BY <1>c, <2>2
    <3>2. \A g \in Chunks : SmallChunks + bigCursor' < g => SmallChunks + bigCursor < g
      BY <1>c, <2>2 DEF Chunks
    <3>. QED
      BY <1>0, <2>2, <3>1, <3>2 DEF ChunkTypes, Headers
  <2>3. CASE /\ bigCursor < BigChunks /\ bigCursor' = bigCursor + 1
             /\ bigRun' = [bigRun EXCEPT ![c][k] = ch]
             /\ header' = [header EXCEPT ![ch] = mark]
    <3>0. /\ mark \in [owner : Caches \cup {None}, cls : Classes \cup {None},
                       chained : 0 .. Capacity]
          /\ mark.owner = c /\ mark.cls = k /\ mark.chained = 0
      BY <1>w DEF mark
    <3>1. header' \in [Chunks -> [owner : Caches \cup {None}, cls : Classes \cup {None},
                                  chained : 0 .. Capacity]]
      BY <2>3, <3>0 DEF ChunkTypes
    <3>2. bigRun' \in [Caches -> [Big -> Chunks \cup {None}]]
      BY <1>2, <2>3 DEF ChunkTypes
    <3>3. bigCursor' \in 0 .. BigChunks
      BY <1>c, <2>3
    <3>4. header'[ch] = mark /\ \A g \in Chunks : g # ch => header'[g] = header[g]
      BY <1>2, <2>3 DEF ChunkTypes
    <3>5. ASSUME NEW g \in Chunks
          PROVE  /\ header'[g].chained > 0 =>
                      header'[g].owner \in Caches /\ header'[g].cls \in Classes
                 /\ cursor' < g /\ g <= SmallChunks => header'[g] = Virgin
                 /\ SmallChunks + bigCursor' < g => header'[g] = Virgin
      <4>1. CASE g = ch
        <5>1. ~(g <= SmallChunks) /\ ~(SmallChunks + bigCursor' < g)
          BY <1>c, <2>3, <4>1 DEF ch
        <5>. QED
          BY <3>0, <3>4, <4>1, <5>1
      <4>2. CASE g # ch
        <5>1. SmallChunks + bigCursor' < g => SmallChunks + bigCursor < g
          BY <1>c, <2>3 DEF Chunks
        <5>. QED
          BY <1>0, <3>4, <4>2, <5>1 DEF Headers
      <4>. QED
        BY <4>1, <4>2
    <3>6. ASSUME NEW d \in Caches, NEW j \in Big, bigRun'[d][j] # None
          PROVE  header'[bigRun'[d][j]].owner = d /\ header'[bigRun'[d][j]].cls = j
      <4>1. bigRun'[d][j] = IF d = c /\ j = k THEN ch ELSE bigRun[d][j]
        BY <2>3, <1>w DEF ChunkTypes
      <4>2. CASE d = c /\ j = k
        BY <3>0, <3>4, <4>1, <4>2
      <4>3. CASE ~(d = c /\ j = k)
        <5>1. /\ bigRun'[d][j] = bigRun[d][j]
              /\ header[bigRun[d][j]].owner = d /\ header[bigRun[d][j]].cls = j
          BY <3>6, <4>1, <4>3 DEF Headers
        <5>2. bigRun[d][j] \in Chunks
          BY <3>6, <5>1 DEF ChunkTypes
        <5>3. bigRun[d][j] # ch
          BY <1>2, <2>3, <5>1 DEF Virgin
        <5>. QED
          BY <3>4, <5>1, <5>2, <5>3
      <4>. QED
        BY <4>2, <4>3
    <3>7. ChunkTypes'
      BY <1>0, <3>1, <3>2, <3>3 DEF ChunkTypes
    <3>. QED
      BY <3>5, <3>6, <3>7 DEF Headers
  <2>. QED
    BY <1>1, <2>1, <2>2, <2>3
<1>4. Carved' = Carved /\ \A b \in Carved : /\ header'[b[1]].owner = header[b[1]].owner
                                            /\ header'[b[1]].cls = header[b[1]].cls
  <2>1. CASE header' = header
    BY <2>1 DEF Carved
  <2>2. CASE bigCursor < BigChunks /\ header' = [header EXCEPT ![ch] = mark]
    <3>1. /\ header'[ch].chained = 0 /\ header[ch].chained = 0
          /\ \A g \in Chunks : g # ch => header'[g] = header[g]
      BY <1>2, <2>2 DEF ChunkTypes, Virgin, mark
    <3>2. \A b \in Blocks : b[1] \in Chunks /\ b[2] \in 1 .. Capacity
      BY DEF Blocks
    <3>3. \A b \in Blocks : b[2] <= header[b[1]].chained \/ b[2] <= header'[b[1]].chained
                               => b[1] # ch
      BY <3>1, <3>2
    <3>. QED
      BY <3>1, <3>2, <3>3 DEF Carved
  <2>. QED
    BY <1>1, <2>1, <2>2
<1>5. \A b \in Blocks, u \in Threads : /\ Pushing(u, b)' <=> Pushing(u, b)
                                       /\ Pushing(u, b) => at'[u] = at[u] /\ cls'[u] = cls[u]
  BY <1>0, <1>p DEF Pushing
<1>6. Homes' /\ Apart' /\ Accounted'
  BY <1>0, <1>4, <1>5, QuietBlocks
<1>7. IdTypes' /\ CacheTypes'
  BY <1>0 DEF IdTypes, CacheTypes
<1>8. CallTypes'
  BY <1>0, <1>a DEF CallTypes
<1>9. Owners'
  BY <1>0, <1>w, <1>a, GoesOn DEF CallTypes
<1>10. ASSUME NEW u \in Threads PROVE Fresh(u)'
  <2>1. CASE u = t
    <3>1. freeList[c][k] = <<>>
      BY <1>0 DEF Fresh
    <3>. QED
      BY <1>0, <1>p, <2>1, <3>1 DEF Fresh
  <2>2. CASE u # t
    BY <1>0, <1>p, <2>2 DEF Fresh
  <2>. QED
    BY <2>1, <2>2
<1>. QED
  BY <1>3, <1>6, <1>7, <1>8, <1>9, <1>10

(* No memory: the call fails, and a chunk may be lost to the cursor.        *)
LEMMA GrowFailStep ==
    ASSUME BlockInv, NEW t \in Threads, setup' = setup, GrowFail(t)
    PROVE  BlockInv'
<1>. USE Domains DEF BlockInv, TypeOK
<1>0. /\ UNCHANGED <<freeIds, slot, dead, freeList, batch, batchCls, bigRun, remote, header,
                     bigCursor, live>>
      /\ pc[t] = "grow"
      /\ cursor' = IF cursor < setup.room THEN cursor + 1 ELSE cursor
      /\ Unlock(t) /\ Idle(t)
  BY DEF GrowFail, cvars
<1>w. Working(t)
  BY <1>0 DEF Working
<1>i. /\ Owners' /\ Fresh(t)'
      /\ \A u \in Threads \ {t} : /\ pc'[u] = pc[u] /\ at'[u] = at[u] /\ cls'[u] = cls[u]
                                  /\ item'[u] = item[u] /\ rest'[u] = rest[u]
      /\ pc'[t] = "idle"
  BY <1>0, <1>w, GoesIdle
<1>c. cursor' \in 0 .. SmallChunks /\ cursor <= cursor'
  <2>1. setup.room \in 0 .. SmallChunks /\ cursor \in 0 .. SmallChunks
    BY SetupRoom DEF IdTypes, ChunkTypes
  <2>. QED
    BY <1>0, <2>1
<1>1. IdTypes'
  BY <1>0, UnlockTypes
<1>2. CacheTypes' /\ ChunkTypes'
  BY <1>0, <1>c DEF CacheTypes, ChunkTypes
<1>3. CallTypes'
  BY <1>0, IdleTypes
<1>4. Headers'
  <2>1. \A g \in Chunks : cursor' < g => cursor < g
    BY <1>c DEF ChunkTypes, Chunks
  <2>. QED
    BY <1>0, <2>1 DEF Headers
<1>5. \A b \in Blocks, u \in Threads : /\ Pushing(u, b)' <=> Pushing(u, b)
                                       /\ Pushing(u, b) => at'[u] = at[u] /\ cls'[u] = cls[u]
  BY <1>0, <1>i DEF Pushing
<1>6. Homes' /\ Apart' /\ Accounted'
  <2>1. Carved' = Carved
    BY <1>0 DEF Carved
  <2>. QED
    BY <1>0, <1>5, <2>1, QuietBlocks
<1>7. ASSUME NEW u \in Threads PROVE Fresh(u)'
  <2>1. CASE u # t
    BY <1>0, <1>i, <2>1 DEF Fresh
  <2>. QED
    BY <1>i, <2>1
<1>. QED
  BY <1>1, <1>2, <1>3, <1>4, <1>6, <1>7, <1>i

-----------------------------------------------------------------------------
(* A block that nobody keeps goes to a batch, a list or a stack of its home. *)
Return(c, k, x) ==
    /\ UNCHANGED <<header, batchCls>>
    /\ \A d \in Caches :
          /\ Once(batch'[d])
          /\ \A j \in Classes : Once(freeList'[d][j]) /\ Once(remote'[d][j])
          /\ d # c => batch'[d] = batch[d]
          /\ \A j \in Classes : ~(d = c /\ j = k) =>
                freeList'[d][j] = freeList[d][j] /\ remote'[d][j] = remote[d][j]
    /\ \/ /\ batchCls[c] = k
          /\ Elems(batch'[c]) = Elems(batch[c]) \cup {x}
          /\ freeList'[c][k] = freeList[c][k] /\ remote'[c][k] = remote[c][k]
       \/ /\ Elems(freeList'[c][k]) = Elems(freeList[c][k]) \cup {x}
          /\ batch'[c] = batch[c] /\ remote'[c][k] = remote[c][k]
       \/ /\ Elems(remote'[c][k]) = Elems(remote[c][k]) \cup {x}
          /\ batch'[c] = batch[c] /\ freeList'[c][k] = freeList[c][k]

LEMMA Returned ==
    ASSUME Homes, Apart, NEW c \in Caches, NEW k \in Classes, NEW x \in Of(c, k), ~Kept(x),
           Return(c, k, x)
    PROVE  Homes' /\ Apart' /\ \A b : Kept(b)' <=> Kept(b) \/ b = x
<1>. USE DEF Return
<1>1. \A d, j : Of(d, j)' = Of(d, j)
  BY DEF Of, Carved
<1>2. \A d \in Caches, j \in Classes :
         /\ x \notin Elems(batch[d])
         /\ x \notin Elems(freeList[d][j]) /\ x \notin Elems(remote[d][j])
  BY DEF Kept
<1>3. Homes'
  <2>. SUFFICES ASSUME NEW d \in Caches
                PROVE  /\ Elems(batch'[d]) \subseteq Of(d, batchCls[d])
                       /\ \A j \in Classes :
                             Elems(freeList'[d][j]) \cup Elems(remote'[d][j]) \subseteq Of(d, j)
    BY <1>1 DEF Homes
  <2>1. /\ Elems(batch[d]) \subseteq Of(d, batchCls[d])
        /\ \A j \in Classes : Elems(freeList[d][j]) \cup Elems(remote[d][j]) \subseteq Of(d, j)
    BY DEF Homes
  <2>2. Elems(batch'[d]) \subseteq Of(d, batchCls[d])
    BY <2>1
  <2>3. ASSUME NEW j \in Classes
        PROVE  Elems(freeList'[d][j]) \cup Elems(remote'[d][j]) \subseteq Of(d, j)
    BY <2>1
  <2>. QED
    BY <2>2, <2>3
<1>4. Apart'
  <2>. SUFFICES ASSUME NEW d \in Caches, NEW j \in Classes
                PROVE  /\ Once(batch'[d]) /\ Once(freeList'[d][j]) /\ Once(remote'[d][j])
                       /\ Elems(freeList'[d][j]) \cap Elems(remote'[d][j]) = {}
                       /\ Elems(batch'[d]) \cap
                             (Elems(freeList'[d][j]) \cup Elems(remote'[d][j])) = {}
    BY Domains DEF Apart
  <2>1. /\ Elems(freeList[d][j]) \cap Elems(remote[d][j]) = {}
        /\ Elems(batch[d]) \cap (Elems(freeList[d][j]) \cup Elems(remote[d][j])) = {}
    BY DEF Apart
  <2>2. CASE d = c /\ j = k
    BY <1>2, <2>1, <2>2
  <2>3. CASE d = c /\ j # k
    BY <1>2, <2>1, <2>3
  <2>4. CASE d # c
    BY <1>2, <2>1, <2>4
  <2>. QED
    BY <2>2, <2>3, <2>4
<1>5. ASSUME NEW b PROVE Kept(b)' <=> Kept(b) \/ b = x
  <2>1. Kept(b)' => Kept(b) \/ b = x
    BY DEF Kept
  <2>2. Kept(x)'
    BY DEF Kept
  <2>3. Kept(b) => Kept(b)'
    <3>1. \A d \in Caches : b \in Elems(batch[d]) => b \in Elems(batch'[d])
      OBVIOUS
    <3>2. \A d \in Caches, j \in Classes :
             /\ b \in Elems(freeList[d][j]) => b \in Elems(freeList'[d][j])
             /\ b \in Elems(remote[d][j]) => b \in Elems(remote'[d][j])
      OBVIOUS
    <3>. QED
      BY <3>1, <3>2 DEF Kept
  <2>. QED
    BY <2>1, <2>2, <2>3
<1>. QED
  BY <1>3, <1>4, <1>5

(* A block that the program has is nowhere else.                            *)
LEMMA Held ==
    ASSUME BlockInv, NEW b \in Blocks, live[b] > 0
    PROVE  /\ live[b] = 1 /\ ~Kept(b) /\ (\A u \in Threads : ~Pushing(u, b))
           /\ b[1] \in Chunks
           /\ header[b[1]].owner \in Caches /\ header[b[1]].cls \in Classes
           /\ b \in Of(header[b[1]].owner, header[b[1]].cls)
<1>. USE DEF BlockInv, TypeOK
<1>1. live[b] = 1
  BY DEF Accounted
<1>2. b \in Carved /\ ~Kept(b) /\ \A u \in Threads : ~Pushing(u, b)
  BY <1>1 DEF Accounted
<1>3. b \in Of(header[b[1]].owner, header[b[1]].cls)
  BY <1>2 DEF Of
<1>. QED
  BY <1>1, <1>2, <1>3, OfCaches

(* A thread gives back a block of its own cache.                            *)
LEMMA FreeOwnStep ==
    ASSUME BlockInv, NEW t \in Threads, NEW x \in Blocks, setup' = setup, FreeOwn(t, x)
    PROVE  BlockInv'
<1>. USE Domains DEF BlockInv, TypeOK
<1>. DEFINE c == slot[t]
            k == header[x[1]].cls
<1>0. /\ UNCHANGED <<freeIds, slot, dead, lock, batchCls, bigRun, remote, header, cursor,
                     bigCursor, pc, at, cls, item, rest, seen>>
      /\ pc[t] = "idle" /\ live[x] > 0
      /\ slot[t] # None /\ header[x[1]].owner = c
      /\ live' = [live EXCEPT ![x] = @ - 1]
      /\ IF RoomInBatch(c, k)
           THEN batch' = [batch EXCEPT ![c] = Append(@, x)] /\ UNCHANGED freeList
           ELSE freeList' = [freeList EXCEPT ![c][k] = <<x>> \o @] /\ UNCHANGED batch
  BY DEF FreeOwn, Mine, local
<1>h. /\ live[x] = 1 /\ ~Kept(x) /\ (\A u \in Threads : ~Pushing(u, x))
      /\ c \in Caches /\ k \in Classes /\ x \in Of(c, k)
  BY <1>0, Held
<1>k. x \notin Elems(batch[c]) /\ x \notin Elems(freeList[c][k])
  BY <1>h DEF Kept
<1>c. /\ batch[c] \in Seq(Blocks) /\ Once(batch[c])
      /\ freeList[c][k] \in Seq(Blocks) /\ Once(freeList[c][k])
  <2>1. batch[c] \in Chain /\ freeList[c] \in [Classes -> Chain]
    BY <1>h DEF CacheTypes
  <2>. QED
    BY <1>h, <2>1 DEF Chain, Apart
<1>m. /\ Append(batch[c], x) \in Seq(Blocks) /\ Len(Append(batch[c], x)) = Len(batch[c]) + 1
      /\ Elems(Append(batch[c], x)) = Elems(batch[c]) \cup {x} /\ Once(Append(batch[c], x))
      /\ <<x>> \o freeList[c][k] \in Seq(Blocks) /\ Once(<<x>> \o freeList[c][k])
      /\ Elems(<<x>> \o freeList[c][k]) = Elems(freeList[c][k]) \cup {x}
  BY <1>c, <1>k, LongerBatch, LongerList
<1>o. \A d \in Caches :
         Once(batch[d]) /\ \A j \in Classes : Once(freeList[d][j]) /\ Once(remote[d][j])
  BY DEF Apart
<1>. HIDE DEF c, k
<1>1. Return(c, k, x) /\ CacheTypes'
      /\ \A d \in Caches : d # c =>
            freeList'[d] = freeList[d] /\ batch'[d] = batch[d] /\ batchCls'[d] = batchCls[d]
  <2>1. CASE RoomInBatch(c, k)
    <3>1. batch' = [batch EXCEPT ![c] = Append(batch[c], x)] /\ freeList' = freeList
      BY <1>0, <2>1
    <3>2. \A d \in Caches : batch'[d] = IF d = c THEN Append(batch[c], x) ELSE batch[d]
      BY <1>h, <3>1 DEF CacheTypes
    <3>3. batchCls[c] = k /\ Len(batch[c]) + 1 <= BatchSlots
      BY <2>1, <1>c DEF RoomInBatch
    <3>4. CacheTypes'
      BY <1>0, <1>h, <1>m, <3>1, <3>2, <3>3 DEF CacheTypes, Chain
    <3>5. Return(c, k, x)
      <4>1. UNCHANGED <<header, batchCls, remote>>
        BY <1>0
      <4>. QED
        BY <1>h, <1>m, <1>o, <3>1, <3>2, <3>3, <4>1 DEF Return
    <3>. QED
      BY <1>0, <3>1, <3>2, <3>4, <3>5
  <2>2. CASE ~RoomInBatch(c, k)
    <3>1. freeList' = [freeList EXCEPT ![c][k] = <<x>> \o freeList[c][k]] /\ batch' = batch
      BY <1>0, <2>2
    <3>2. \A d \in Caches, j \in Classes : freeList'[d][j] =
             IF d = c /\ j = k THEN <<x>> \o freeList[c][k] ELSE freeList[d][j]
      BY <1>h, <3>1 DEF CacheTypes
    <3>3. \A d \in Caches : d # c => freeList'[d] = freeList[d]
      BY <1>h, <3>1 DEF CacheTypes
    <3>4. CacheTypes'
      BY <1>0, <1>m, <3>1 DEF CacheTypes, Chain
    <3>5. Return(c, k, x)
      <4>1. UNCHANGED <<header, batchCls, remote>>
        BY <1>0
      <4>. QED
        BY <1>h, <1>m, <1>o, <3>1, <3>2, <4>1 DEF Return
    <3>. QED
      BY <1>0, <3>1, <3>3, <3>4, <3>5
  <2>. QED
    BY <2>1, <2>2
<1>2. Homes' /\ Apart' /\ \A b : Kept(b)' <=> Kept(b) \/ b = x
  BY <1>h, <1>1, Returned
<1>l. \A b \in Blocks : live'[b] = IF b = x THEN 0 ELSE live[b]
  BY <1>0, <1>h DEF ChunkTypes
<1>3. Accounted'
  <2>1. Carved' = Carved /\ \A d, j : Of(d, j)' = Of(d, j)
    BY <1>0 DEF Carved, Of
  <2>2. \A b \in Blocks, u \in Threads : Pushing(u, b)' <=> Pushing(u, b)
    BY <1>0 DEF Pushing
  <2>3. UNCHANGED <<at, cls>>
    BY <1>0
  <2>. QED
    BY <1>h, <1>2, <1>l, <2>1, <2>2, <2>3 DEF Accounted
<1>4. IdTypes' /\ CallTypes' /\ Headers' /\ Owners'
  BY <1>0 DEF IdTypes, CallTypes, Headers, Owners, Working
<1>5. ChunkTypes'
  BY <1>0, <1>h DEF ChunkTypes
<1>6. ASSUME NEW u \in Threads PROVE Fresh(u)'
  <2>1. CASE u = t
    BY <1>0, <2>1 DEF Fresh
  <2>2. CASE u # t
    <3>1. Working(u) => at[u] # c
      BY <1>0, <2>2, SoleWorker DEF c
    <3>2. /\ pc'[u] = pc[u] /\ at'[u] = at[u] /\ cls'[u] = cls[u]
          /\ item'[u] = item[u] /\ rest'[u] = rest[u]
      BY <1>0
    <3>. QED
      BY <1>1, <2>2, <3>1, <3>2, FreshOthers
  <2>. QED
    BY <2>1, <2>2
<1>. QED
  BY <1>1, <1>2, <1>3, <1>4, <1>5, <1>6

(* A block of another cache: the thread holds it until its push succeeds.   *)
LEMMA FreeLoadStep ==
    ASSUME BlockInv, NEW t \in Threads, NEW x \in Blocks, setup' = setup, FreeLoad(t, x)
    PROVE  BlockInv'
<1>. USE Domains DEF BlockInv, TypeOK
<1>. DEFINE c == header[x[1]].owner
            k == header[x[1]].cls
<1>0. /\ UNCHANGED <<freeIds, slot, dead, lock, freeList, batch, batchCls, bigRun, remote, header,
                     cursor, bigCursor, rest>>
      /\ pc[t] = "idle" /\ live[x] > 0
      /\ live' = [live EXCEPT ![x] = @ - 1]
      /\ pc' = [pc EXCEPT ![t] = "freeCas"]
      /\ at' = [at EXCEPT ![t] = c]
      /\ cls' = [cls EXCEPT ![t] = k]
      /\ item' = [item EXCEPT ![t] = x]
      /\ seen' = [seen EXCEPT ![t] = Top(remote[c][k])]
  BY DEF FreeLoad, cvars
<1>h. /\ live[x] = 1 /\ ~Kept(x) /\ (\A u \in Threads : ~Pushing(u, x))
      /\ c \in Caches /\ k \in Classes /\ x \in Of(c, k)
  BY <1>0, Held
<1>s. Top(remote[c][k]) \in Blocks \cup {None}
  BY <1>h, TopTypes
<1>a. "freeCas" \in Steps
  BY DEF Steps
<1>. HIDE DEF c, k
<1>p. /\ pc'[t] = "freeCas" /\ at'[t] = c /\ cls'[t] = k /\ item'[t] = x
      /\ \A u \in Threads \ {t} : /\ pc'[u] = pc[u] /\ at'[u] = at[u] /\ cls'[u] = cls[u]
                                  /\ item'[u] = item[u] /\ rest'[u] = rest[u]
  BY <1>0 DEF CallTypes
<1>1. IdTypes' /\ CacheTypes' /\ Headers'
  BY <1>0 DEF IdTypes, CacheTypes, Headers
<1>2. CallTypes'
  BY <1>0, <1>h, <1>s, <1>a DEF CallTypes
<1>3. ChunkTypes'
  BY <1>0, <1>h DEF ChunkTypes
<1>4. /\ Carved' = Carved /\ (\A d, j : Of(d, j)' = Of(d, j)) /\ \A b : Kept(b)' <=> Kept(b)
  BY <1>0 DEF Carved, Of, Kept
<1>5. Homes' /\ Apart'
  <2>1. Homes'
    BY <1>0, <1>4 DEF Homes
  <2>2. Apart'
    BY <1>0 DEF Apart
  <2>. QED
    BY <2>1, <2>2
<1>6. Accounted'
  <2>1. \A b \in Blocks : live'[b] = IF b = x THEN 0 ELSE live[b]
    BY <1>0, <1>h DEF ChunkTypes
  <2>2. \A b \in Blocks, u \in Threads :
           Pushing(u, b)' <=> IF u = t THEN b = x ELSE Pushing(u, b)
    BY <1>p DEF Pushing
  <2>3. \A b \in Blocks, u \in Threads : Pushing(u, b) =>
           u # t /\ b # x /\ at'[u] = at[u] /\ cls'[u] = cls[u]
    BY <1>0, <1>h, <1>p DEF Pushing
  <2>. SUFFICES ASSUME NEW b \in Blocks
                PROVE  /\ live'[b] \in 0 .. 1
                       /\ live'[b] = 1 => b \in Carved /\ ~Kept(b)
                                          /\ \A u \in Threads : ~Pushing(u, b)'
                       /\ \A u \in Threads : Pushing(u, b)' =>
                             /\ b \in Of(at'[u], cls'[u]) /\ ~Kept(b)
                             /\ \A v \in Threads : Pushing(v, b)' => v = u
                       /\ b \in Carved => live'[b] = 1 \/ Kept(b)
                                          \/ \E u \in Threads : Pushing(u, b)'
    BY <1>4 DEF Accounted
  <2>4. CASE b = x
    BY <1>h, <1>p, <2>1, <2>2, <2>4
  <2>5. CASE b # x
    BY <2>1, <2>2, <2>3, <2>5 DEF Accounted
  <2>. QED
    BY <2>4, <2>5
<1>7. Owners'
  BY <1>0, <1>p DEF Owners, Working
<1>8. ASSUME NEW u \in Threads PROVE Fresh(u)'
  <2>1. CASE u = t
    BY <1>p, <2>1 DEF Fresh
  <2>2. CASE u # t
    BY <1>0, <1>p, <2>2 DEF Fresh
  <2>. QED
    BY <2>1, <2>2
<1>. QED
  BY <1>1, <1>2, <1>3, <1>5, <1>6, <1>7, <1>8

(* The push succeeds, on top of whatever the stack has become.              *)
LEMMA FreeCasStep ==
    ASSUME BlockInv, NEW t \in Threads, setup' = setup, FreeCas(t)
    PROVE  BlockInv'
<1>. USE Domains DEF BlockInv, TypeOK
<1>. DEFINE c == at[t]
            k == cls[t]
            x == item[t]
            stack == <<x>> \o remote[c][k]
<1>0. /\ UNCHANGED <<freeIds, slot, dead, lock, freeList, batch, batchCls, bigRun, header,
                     cursor, bigCursor, live>>
      /\ pc[t] = "freeCas"
      /\ remote' = [remote EXCEPT ![c][k] = stack]
      /\ Idle(t)
  BY DEF FreeCas, cvars
<1>h. /\ x \in Blocks /\ Pushing(t, x) /\ x \in Of(c, k) /\ ~Kept(x)
      /\ c \in Caches /\ k \in Classes
      /\ \A u \in Threads : Pushing(u, x) => u = t
  <2>1. x \in Blocks /\ Pushing(t, x)
    BY <1>0 DEF Fresh, Pushing
  <2>2. x \in Of(c, k) /\ ~Kept(x) /\ \A u \in Threads : Pushing(u, x) => u = t
    BY <2>1 DEF Accounted
  <2>. QED
    BY <2>1, <2>2, OfCaches
<1>c. remote[c][k] \in Seq(Blocks) /\ Once(remote[c][k]) /\ x \notin Elems(remote[c][k])
  <2>1. remote[c] \in [Classes -> Chain]
    BY <1>h DEF CacheTypes
  <2>. QED
    BY <1>h, <2>1 DEF Chain, Apart, Kept
<1>m. /\ stack \in Chain /\ Once(stack) /\ Elems(stack) = Elems(remote[c][k]) \cup {x}
  BY <1>h, <1>c, OneMore DEF Chain
<1>. HIDE DEF stack
<1>b. \A d \in Caches, j \in Classes :
         remote'[d][j] = IF d = c /\ j = k THEN stack ELSE remote[d][j]
  BY <1>0, <1>h DEF CacheTypes
<1>i. /\ Owners' /\ Fresh(t)'
      /\ \A u \in Threads \ {t} : /\ pc'[u] = pc[u] /\ at'[u] = at[u] /\ cls'[u] = cls[u]
                                  /\ item'[u] = item[u] /\ rest'[u] = rest[u]
      /\ pc'[t] = "idle"
  BY <1>0, GoesIdle
<1>1. IdTypes' /\ ChunkTypes' /\ Headers'
  BY <1>0 DEF IdTypes, ChunkTypes, Headers
<1>2. CacheTypes'
  BY <1>0, <1>m DEF CacheTypes
<1>3. CallTypes'
  BY <1>0, IdleTypes
<1>4. Homes' /\ Apart' /\ \A b : Kept(b)' <=> Kept(b) \/ b = x
  <2>1. Return(c, k, x)
    <3>1. UNCHANGED <<header, batch, batchCls, freeList>>
      BY <1>0
    <3>2. \A d \in Caches :
             Once(batch[d]) /\ \A j \in Classes : Once(freeList[d][j]) /\ Once(remote[d][j])
      BY DEF Apart
    <3>. HIDE DEF c, k, x
    <3>. QED
      BY <1>h, <1>m, <1>b, <3>1, <3>2 DEF Return
  <2>. QED
    BY <1>h, <2>1, Returned
<1>5. Accounted'
  <2>1. Carved' = Carved /\ \A d, j : Of(d, j)' = Of(d, j)
    BY <1>0 DEF Carved, Of
  <2>2. \A b \in Blocks, u \in Threads : Pushing(u, b)' <=> u # t /\ Pushing(u, b)
    BY <1>i DEF Pushing
  <2>3. \A b \in Blocks : Pushing(t, b) => b = x
    BY DEF Pushing
  <2>4. live[x] # 1
    BY <1>h DEF Accounted
  <2>5. \A u \in Threads \ {t} : at'[u] = at[u] /\ cls'[u] = cls[u]
    BY <1>i
  <2>6. live' = live
    BY <1>0
  <2>. HIDE DEF c, k, x
  <2>. SUFFICES ASSUME NEW b \in Blocks
                PROVE  /\ live[b] \in 0 .. 1
                       /\ live[b] = 1 => b \in Carved /\ ~Kept(b)'
                                         /\ \A u \in Threads : ~Pushing(u, b)'
                       /\ \A u \in Threads : Pushing(u, b)' =>
                             /\ b \in Of(at'[u], cls'[u]) /\ ~Kept(b)'
                             /\ \A v \in Threads : Pushing(v, b)' => v = u
                       /\ b \in Carved => live[b] = 1 \/ Kept(b)'
                                          \/ \E u \in Threads : Pushing(u, b)'
    BY <2>1, <2>6 DEF Accounted
  <2>7. CASE b = x
    BY <1>h, <1>4, <2>2, <2>4, <2>7 DEF Accounted
  <2>8. CASE b # x
    BY <1>4, <2>2, <2>3, <2>5, <2>8 DEF Accounted
  <2>. QED
    BY <2>7, <2>8
<1>6. ASSUME NEW u \in Threads PROVE Fresh(u)'
  <2>1. CASE u # t
    BY <1>0, <1>i, <2>1 DEF Fresh
  <2>. QED
    BY <1>i, <2>1
<1>. QED
  BY <1>1, <1>2, <1>3, <1>4, <1>5, <1>6, <1>i

-----------------------------------------------------------------------------
LEMMA BlockStep == BlockInv /\ [Next]_vars => BlockInv'
<1>. SUFFICES ASSUME BlockInv, [Next]_vars PROVE BlockInv'
  OBVIOUS
<1>1. CASE UNCHANGED vars
  <2>. USE <1>1 DEF vars, cvars, local
  <2>1. TypeOK'
    BY DEF BlockInv, TypeOK, IdTypes, CacheTypes, ChunkTypes, CallTypes
  <2>2. (Homes /\ Apart /\ Accounted /\ Headers)'
    BY QuietHeap DEF BlockInv, Pushing
  <2>3. Owners' /\ \A t \in Threads : Fresh(t)'
    BY DEF BlockInv, Owners, Working, Fresh
  <2>. QED
    BY <2>1, <2>2, <2>3 DEF BlockInv
<1>2. CASE Next
  <2>1. setup' = setup /\ setup.asks \subseteq Classes
    BY <1>2, BlockAssumption DEF Next, BlockInv, TypeOK, IdTypes
  <2>2. PICK t \in Threads :
           \/ Attach(t) \/ Detach(t)
           \/ \E k \in setup.asks : AllocOwn(t, k) \/ AllocShared(t, k)
           \/ Alloc(t)
           \/ \E b \in Blocks : FreeOwn(t, b) \/ FreeLoad(t, b)
           \/ Free(t)
    BY <1>2 DEF Next
  <2>3. CASE Attach(t) \/ Detach(t)
    BY <2>1, <2>3, IdStep
  <2>4. CASE \E k \in setup.asks : AllocOwn(t, k) \/ AllocShared(t, k)
    BY <2>1, <2>4, BeginStep
  <2>5. CASE Alloc(t)
    <3>1. CASE Lock(t)
      BY <2>1, <3>1, LockStep
    <3>2. CASE PopBatch(t) \/ PopList(t) \/ PopNone(t)
      BY <2>1, <3>2, LookStep
    <3>3. CASE PopRefill(t)
      BY <2>1, <3>3, PopRefillStep
    <3>4. CASE TakeBatch(t)
      BY <2>1, <3>4, TakeBatchStep
    <3>5. CASE TakeList(t)
      BY <2>1, <3>5, TakeListStep
    <3>6. CASE RefillRemote(t)
      BY <2>1, <3>6, RefillRemoteStep
    <3>7. CASE GrowBig(t)
      BY <2>1, <3>7, GrowBigStep
    <3>8. CASE GrowBigFail(t)
      BY <2>1, <3>8, GrowBigFailStep
    <3>9. CASE Grow(t)
      BY <2>1, <3>9, GrowStep
    <3>10. CASE GrowFail(t)
      BY <2>1, <3>10, GrowFailStep
    <3>. QED
      BY <2>5, <3>1, <3>2, <3>3, <3>4, <3>5, <3>6, <3>7, <3>8, <3>9, <3>10 DEF Alloc
  <2>6. CASE \E b \in Blocks : FreeOwn(t, b) \/ FreeLoad(t, b)
    BY <2>1, <2>6, FreeOwnStep, FreeLoadStep
  <2>7. CASE Free(t)
    BY <2>1, <2>7, FreeCasStep, RetryStep DEF Free
  <2>. QED
    BY <2>2, <2>3, <2>4, <2>5, <2>6, <2>7
<1>. QED
  BY <1>1, <1>2

\* Every block carved is kept once, in a container of its chunk's owner and
\* class, or the program has it, or one thread is pushing it; headers are of the
\* caches that grew; a cache has one thread, whose readings still hold.
THEOREM BlockInvariant == Spec => []BlockInv
<1>. QED
  BY InitBlocks, BlockStep, PTL DEF Spec

\* The shape of the state; no batch has more blocks than kBatchSlots.
THEOREM BlockTypes == Spec => []TypeOK
<1>1. BlockInv => TypeOK
  BY DEF BlockInv
<1>. QED
  BY <1>1, BlockInvariant, PTL

LEMMA Position == ASSUME NEW s, NEW b PROVE Positions(s, b) # {} <=> b \in Elems(s)
BY DEF Positions, Elems

LEMMA HomesRule == BlockInv => HeaderRules
<1>. SUFFICES ASSUME BlockInv, NEW b \in Carved, NEW c \in Caches
              PROVE  LET h == header[b[1]] IN
                     /\ Positions(batch[c], b) # {} => c = h.owner /\ batchCls[c] = h.cls
                     /\ \A k \in Classes :
                           Positions(freeList[c][k], b) # {} \/ Positions(remote[c][k], b) # {}
                           => c = h.owner /\ k = h.cls
  BY DEF HeaderRules
<1>1. /\ Elems(batch[c]) \subseteq Of(c, batchCls[c])
      /\ \A k \in Classes : Elems(freeList[c][k]) \cup Elems(remote[c][k]) \subseteq Of(c, k)
  BY DEF BlockInv, Homes
<1>. QED
  BY <1>1, Position DEF Of

\* What is popped from a list or a batch is of the class asked for, and was cut
\* for that cache: the header decides where a freed block goes (free_body).
THEOREM HeadersRule == Spec => []HeaderRules
<1>. QED
  BY HomesRule, BlockInvariant, PTL

-----------------------------------------------------------------------------
(* The shared cache.                                                        *)
Resting ==
    \A t \in Threads :
        /\ pc[t] = "idle" => at[t] = None
        /\ pc[t] \in {"idle", "lock", "freeCas"} \/ Working(t)

(* Where a step sends its thread.                                          *)
Sent(t) ==
    \/ UNCHANGED <<pc, at>>
    \/ \E c : \E s \in {"lock", "freeCas", "pop", "takeBatch", "takeList", "refill",
                        "growBig", "grow"} :
          /\ pc' = [pc EXCEPT ![t] = s]
          /\ at' = [at EXCEPT ![t] = c]
    \/ /\ pc' = [pc EXCEPT ![t] = "idle"]
       /\ at' = [at EXCEPT ![t] = None]

LEMMA SomeoneSent == ASSUME TypeOK, Next PROVE \E t \in Threads : Sent(t)
<1>. USE DEF Sent
<1>a. PICK t \in Threads :
         \/ Attach(t) \/ Detach(t)
         \/ \E k \in setup.asks : AllocOwn(t, k) \/ AllocShared(t, k)
         \/ Alloc(t)
         \/ \E b \in Blocks : FreeOwn(t, b) \/ FreeLoad(t, b)
         \/ Free(t)
  BY DEF Next
<1>0. at = [at EXCEPT ![t] = at[t]]
  BY DEF TypeOK, CallTypes
<1>1. CASE Attach(t) \/ Detach(t)
  BY <1>1 DEF Attach, Detach, local
<1>2. CASE \E k \in setup.asks : AllocOwn(t, k) \/ AllocShared(t, k)
  BY <1>2 DEF AllocOwn, AllocShared, Begin
<1>3. CASE Lock(t) \/ PopBatch(t) \/ PopList(t) \/ PopNone(t)
  BY <1>0, <1>3 DEF Lock, PopBatch, PopList, PopNone, Found
<1>4. CASE PopRefill(t)
  BY <1>0, <1>4 DEF PopRefill, Idle
<1>5. CASE TakeBatch(t) \/ TakeList(t) \/ GrowFail(t)
  BY <1>5 DEF TakeBatch, TakeList, HandOut, GrowFail, Idle
<1>6. CASE RefillRemote(t)
  BY <1>0, <1>6 DEF RefillRemote
<1>7. CASE GrowBig(t) \/ GrowBigFail(t) \/ Grow(t)
  <2>1. at' = at /\ \E s \in {"pop", "grow"} : pc' = [pc EXCEPT ![t] = s]
    <3>1. CASE GrowBig(t)
      BY <3>1 DEF GrowBig, Chained
    <3>2. CASE GrowBigFail(t)
      BY <3>2 DEF GrowBigFail
    <3>3. CASE Grow(t)
      BY <3>3 DEF Grow, Chained
    <3>. QED
      BY <1>7, <3>1, <3>2, <3>3
  <2>2. PICK s \in {"pop", "grow"} : pc' = [pc EXCEPT ![t] = s]
    BY <2>1
  <2>3. at' = [at EXCEPT ![t] = at[t]]
    BY <1>0, <2>1, Zenon
  <2>4. s \in {"lock", "freeCas", "pop", "takeBatch", "takeList", "refill", "growBig", "grow"}
    BY <2>2
  <2>5. \E c : \E r \in {"lock", "freeCas", "pop", "takeBatch", "takeList", "refill",
                          "growBig", "grow"} :
           pc' = [pc EXCEPT ![t] = r] /\ at' = [at EXCEPT ![t] = c]
    <3>. WITNESS at[t]
    <3>. QED
      BY <2>2, <2>3, <2>4, Zenon
  <2>. QED
    BY <2>5, Zenon DEF Sent
<1>8. CASE \E b \in Blocks : FreeOwn(t, b) \/ FreeLoad(t, b)
  <2>1. PICK b \in Blocks : FreeOwn(t, b) \/ FreeLoad(t, b)
    BY <1>8
  <2>2. CASE FreeOwn(t, b)
    BY <2>2 DEF FreeOwn, local
  <2>3. CASE FreeLoad(t, b)
    BY <2>3 DEF FreeLoad
  <2>. QED
    BY <2>1, <2>2, <2>3
<1>9. CASE Free(t)
  BY <1>9 DEF Free, FreeCas, FreeRetry, Idle
<1>. QED
  BY <1>a, <1>1, <1>2, <1>3, <1>4, <1>5, <1>6, <1>7, <1>8, <1>9 DEF Alloc

LEMMA RestingStep == TypeOK /\ Resting /\ [Next]_vars => Resting'
<1>. SUFFICES ASSUME TypeOK, Resting, [Next]_vars PROVE Resting'
  OBVIOUS
<1>. USE Domains DEF Resting, Working, TypeOK, CallTypes
<1>1. CASE UNCHANGED vars
  BY <1>1 DEF vars, local
<1>2. CASE Next
  BY <1>2, SomeoneSent DEF Sent
<1>. QED
  BY <1>1, <1>2

\* Whoever works on the shared cache holds g_shared_lock (alloc_shared).
THEOREM SharedOnlyLocked == Spec => []SharedIsLocked
<1>1. Init => Resting
  BY DEF Init, Resting
<1>2. BlockInv /\ Resting => SharedIsLocked
  BY Domains DEF BlockInv, Owners, Resting, SharedIsLocked
<1>. QED
  BY <1>1, <1>2, BlockTypes, BlockInvariant, RestingStep, PTL DEF Spec

-----------------------------------------------------------------------------
(* A block has one place.                                                   *)
LiveAt(b) == {<<"live", i>> : i \in 1 .. live[b]}
BatchAt(c, b) == {<<"batch", c, i>> : i \in Positions(batch[c], b)}
ListAt(c, k, b) == {<<"list", c, k, i>> : i \in Positions(freeList[c][k], b)}
RemoteAt(c, k, b) == {<<"remote", c, k, i>> : i \in Positions(remote[c][k], b)}
PushedAt(b) == {<<"pushing", t>> : t \in {u \in Threads : pc[u] = "freeCas" /\ item[u] = b}}

LEMMA InPlaces ==
    ASSUME NEW b
    PROVE  \A p : p \in Places(b) <=>
              \/ p \in LiveAt(b) \/ p \in PushedAt(b)
              \/ \E c \in Caches : p \in BatchAt(c, b)
              \/ \E c \in Caches, k \in Classes : p \in ListAt(c, k, b) \/ p \in RemoteAt(c, k, b)
<1>. DEFINE Ls == {ListAt(c, k, b) : c \in Caches, k \in Classes}
            Bs == {BatchAt(c, b) : c \in Caches}
            Rs == {RemoteAt(c, k, b) : c \in Caches, k \in Classes}
<1>1. Places(b) = LiveAt(b) \cup (UNION Ls) \cup (UNION Bs) \cup (UNION Rs) \cup PushedAt(b)
  BY DEF Places, LiveAt, BatchAt, ListAt, RemoteAt, PushedAt
<1>2. /\ \A p : p \in UNION Ls <=> \E c \in Caches, k \in Classes : p \in ListAt(c, k, b)
      /\ \A p : p \in UNION Bs <=> \E c \in Caches : p \in BatchAt(c, b)
      /\ \A p : p \in UNION Rs <=> \E c \in Caches, k \in Classes : p \in RemoteAt(c, k, b)
  OBVIOUS
<1>. HIDE DEF Ls, Bs, Rs
<1>3. \A p : p \in Places(b) <=>
         p \in LiveAt(b) \/ p \in UNION Ls \/ p \in UNION Bs \/ p \in UNION Rs \/ p \in PushedAt(b)
  BY <1>1
<1>. QED
  BY <1>2, <1>3

LEMMA SolePosition ==
    ASSUME NEW s, Once(s), NEW b, b \in Elems(s)
    PROVE  \E i : Positions(s, b) = {i}
<1>1. PICK i \in 1 .. Len(s) : b = s[i]
  BY DEF Elems
<1>2. \A j \in 1 .. Len(s) : s[j] = b => j = i
  BY <1>1 DEF Once
<1>3. Positions(s, b) = {i}
  BY <1>1, <1>2 DEF Positions
<1>. QED
  BY <1>3

(* What each container adds: nothing, or one place.                         *)
LEMMA PlacesIn ==
    ASSUME NEW b, NEW c, NEW k
    PROVE  /\ b \notin Elems(batch[c]) => BatchAt(c, b) = {}
           /\ b \notin Elems(freeList[c][k]) => ListAt(c, k, b) = {}
           /\ b \notin Elems(remote[c][k]) => RemoteAt(c, k, b) = {}
           /\ b \in Elems(batch[c]) /\ Once(batch[c]) => \E q : BatchAt(c, b) = {q}
           /\ b \in Elems(freeList[c][k]) /\ Once(freeList[c][k]) => \E q : ListAt(c, k, b) = {q}
           /\ b \in Elems(remote[c][k]) /\ Once(remote[c][k]) => \E q : RemoteAt(c, k, b) = {q}
<1>1. b \notin Elems(batch[c]) => BatchAt(c, b) = {}
  BY Position DEF BatchAt
<1>2. b \notin Elems(freeList[c][k]) => ListAt(c, k, b) = {}
  BY Position DEF ListAt
<1>3. b \notin Elems(remote[c][k]) => RemoteAt(c, k, b) = {}
  BY Position DEF RemoteAt
<1>4. b \in Elems(batch[c]) /\ Once(batch[c]) => \E q : BatchAt(c, b) = {q}
  <2>. SUFFICES ASSUME b \in Elems(batch[c]), Once(batch[c]) PROVE \E q : BatchAt(c, b) = {q}
    OBVIOUS
  <2>1. PICK i : Positions(batch[c], b) = {i}
    BY SolePosition
  <2>2. BatchAt(c, b) = {<<"batch", c, i>>}
    BY <2>1 DEF BatchAt
  <2>. QED
    BY <2>2
<1>5. b \in Elems(freeList[c][k]) /\ Once(freeList[c][k]) => \E q : ListAt(c, k, b) = {q}
  <2>. SUFFICES ASSUME b \in Elems(freeList[c][k]), Once(freeList[c][k])
                PROVE  \E q : ListAt(c, k, b) = {q}
    OBVIOUS
  <2>1. PICK i : Positions(freeList[c][k], b) = {i}
    BY SolePosition
  <2>2. ListAt(c, k, b) = {<<"list", c, k, i>>}
    BY <2>1 DEF ListAt
  <2>. QED
    BY <2>2
<1>6. b \in Elems(remote[c][k]) /\ Once(remote[c][k]) => \E q : RemoteAt(c, k, b) = {q}
  <2>. SUFFICES ASSUME b \in Elems(remote[c][k]), Once(remote[c][k])
                PROVE  \E q : RemoteAt(c, k, b) = {q}
    OBVIOUS
  <2>1. PICK i : Positions(remote[c][k], b) = {i}
    BY SolePosition
  <2>2. RemoteAt(c, k, b) = {<<"remote", c, k, i>>}
    BY <2>1 DEF RemoteAt
  <2>. QED
    BY <2>2
<1>. QED
  BY <1>1, <1>2, <1>3, <1>4, <1>5, <1>6

LEMMA PlacedOnce == ASSUME BlockInv PROVE OnePlace
<1>. USE DEF BlockInv
<1>. SUFFICES ASSUME NEW b \in Blocks
              PROVE  /\ b \in Carved => \E p \in Places(b) : Places(b) = {p}
                     /\ b \notin Carved => Places(b) = {}
  BY DEF OnePlace
<1>0. /\ live[b] \in 0 .. 1
      /\ live[b] = 1 => b \in Carved /\ ~Kept(b) /\ \A t \in Threads : ~Pushing(t, b)
      /\ \A t \in Threads : Pushing(t, b) =>
            /\ b \in Carved /\ ~Kept(b)
            /\ \A u \in Threads : Pushing(u, b) => u = t
      /\ b \in Carved => live[b] = 1 \/ Kept(b) \/ \E t \in Threads : Pushing(t, b)
  BY DEF Accounted, Of
<1>1. Kept(b) => b \in Carved
  BY DEF Kept, Homes, Of
<1>l. (live[b] = 0 => LiveAt(b) = {}) /\ (live[b] = 1 => LiveAt(b) = {<<"live", 1>>})
  <2>1. live[b] = 1 => LiveAt(b) = {<<"live", i>> : i \in {1}}
    <3>1. 1 .. 1 = {1}
      OBVIOUS
    <3>. QED
      BY <3>1 DEF LiveAt
  <2>2. live[b] = 0 => LiveAt(b) = {}
    <3>1. 1 .. 0 = {}
      OBVIOUS
    <3>. QED
      BY <3>1 DEF LiveAt
  <2>. QED
    BY <2>1, <2>2
<1>p. /\ (\A t \in Threads : ~Pushing(t, b)) => PushedAt(b) = {}
      /\ \A t \in Threads : (\A u \in Threads : Pushing(u, b) <=> u = t)
                               => PushedAt(b) = {<<"pushing", t>>}
  <2>1. (\A t \in Threads : ~Pushing(t, b)) => PushedAt(b) = {}
    BY DEF PushedAt, Pushing
  <2>2. ASSUME NEW t \in Threads, \A u \in Threads : Pushing(u, b) <=> u = t
        PROVE  PushedAt(b) = {<<"pushing", t>>}
    <3>1. {u \in Threads : pc[u] = "freeCas" /\ item[u] = b} = {t}
      BY <2>2 DEF Pushing
    <3>. QED
      BY <3>1 DEF PushedAt
  <2>. QED
    BY <2>1, <2>2
<1>k. ~Kept(b) => /\ \A c \in Caches : BatchAt(c, b) = {}
                  /\ \A c \in Caches, k \in Classes :
                        ListAt(c, k, b) = {} /\ RemoteAt(c, k, b) = {}
  BY PlacesIn DEF Kept
<1>2. CASE live[b] = 1
  <2>1. \A p : p \in Places(b) <=> p \in LiveAt(b)
    BY <1>0, <1>2, <1>p, <1>k, InPlaces
  <2>. QED
    BY <1>0, <1>2, <1>l, <2>1
<1>3. CASE \E t \in Threads : Pushing(t, b)
  <2>1. PICK t \in Threads : Pushing(t, b)
    BY <1>3
  <2>2. ~Kept(b) /\ live[b] = 0 /\ b \in Carved /\ \A u \in Threads : Pushing(u, b) <=> u = t
    BY <1>0, <2>1
  <2>3. \A p : p \in Places(b) <=> p \in PushedAt(b)
    BY <1>l, <1>k, <2>2, InPlaces
  <2>. QED
    BY <1>p, <2>2, <2>3
<1>4. CASE Kept(b)
  <2>0. LiveAt(b) = {} /\ PushedAt(b) = {}
    BY <1>0, <1>4, <1>l, <1>p
  <2>c. PICK c \in Caches :
           b \in Elems(batch[c])
              \/ \E k \in Classes : b \in Elems(freeList[c][k]) \cup Elems(remote[c][k])
    BY <1>4 DEF Kept
  <2>1. CASE b \in Elems(batch[c])
    <3>1. PICK q : BatchAt(c, b) = {q}
      BY <2>1, PlacesIn DEF Apart
    <3>2. /\ \A d \in Caches : d # c => BatchAt(d, b) = {}
          /\ \A d \in Caches, j \in Classes :
                ListAt(d, j, b) = {} /\ RemoteAt(d, j, b) = {}
      BY <2>1, Domains, OneKeeper, PlacesIn
    <3>3. \A p : p \in Places(b) <=> p \in BatchAt(c, b)
      BY <2>0, <3>2, InPlaces
    <3>. QED
      BY <1>1, <1>4, <3>1, <3>3
  <2>2. ASSUME NEW k \in Classes, b \in Elems(freeList[c][k])
        PROVE  \E p \in Places(b) : Places(b) = {p}
    <3>1. PICK q : ListAt(c, k, b) = {q}
      BY <2>2, PlacesIn DEF Apart
    <3>2. /\ \A d \in Caches : BatchAt(d, b) = {}
          /\ \A d \in Caches, j \in Classes :
                /\ ~(d = c /\ j = k) => ListAt(d, j, b) = {}
                /\ RemoteAt(d, j, b) = {}
      <4>1. /\ \A d \in Caches : b \notin Elems(batch[d])
            /\ \A d \in Caches, j \in Classes :
                  /\ b \in Elems(freeList[d][j]) => d = c /\ j = k
                  /\ b \notin Elems(remote[d][j])
        BY <2>2, OneKeeper
      <4>. QED
        BY <4>1, PlacesIn
    <3>3. \A p : p \in Places(b) <=> p \in ListAt(c, k, b)
      BY <2>0, <3>2, InPlaces
    <3>. QED
      BY <3>1, <3>3
  <2>3. ASSUME NEW k \in Classes, b \in Elems(remote[c][k])
        PROVE  \E p \in Places(b) : Places(b) = {p}
    <3>1. PICK q : RemoteAt(c, k, b) = {q}
      BY <2>3, PlacesIn DEF Apart
    <3>2. /\ \A d \in Caches : BatchAt(d, b) = {}
          /\ \A d \in Caches, j \in Classes :
                /\ ~(d = c /\ j = k) => RemoteAt(d, j, b) = {}
                /\ ListAt(d, j, b) = {}
      <4>1. /\ \A d \in Caches : b \notin Elems(batch[d])
            /\ \A d \in Caches, j \in Classes :
                  /\ b \notin Elems(freeList[d][j])
                  /\ b \in Elems(remote[d][j]) => d = c /\ j = k
        BY <2>3, OneKeeper
      <4>. QED
        BY <4>1, PlacesIn
    <3>3. \A p : p \in Places(b) <=> p \in RemoteAt(c, k, b)
      BY <2>0, <3>2, InPlaces
    <3>. QED
      BY <3>1, <3>3
  <2>. QED
    BY <1>1, <1>4, <2>c, <2>1, <2>2, <2>3
<1>5. CASE b \notin Carved
  <2>1. live[b] = 0 /\ ~Kept(b) /\ \A t \in Threads : ~Pushing(t, b)
    BY <1>0, <1>1, <1>5
  <2>2. \A p : p \notin Places(b)
    BY <1>l, <1>p, <1>k, <2>1, InPlaces
  <2>. QED
    BY <1>5, <2>2
<1>. QED
  BY <1>0, <1>2, <1>3, <1>4, <1>5

\* Every block carved is with the program, or free in one place, or being
\* pushed by one thread: none is handed out twice and none is lost, whatever
\* frees race and whatever caches change hands.
THEOREM BlocksHaveOnePlace == Spec => []OnePlace
<1>. QED
  BY PlacedOnce, BlockInvariant, PTL

-----------------------------------------------------------------------------
(* Whatever its caches do, the allocator keeps the promise of BlockHeap.    *)
Sizes == [ch \in Chunks |-> header[ch].cls]

(* A block kept somewhere may be handed out.                                *)
LEMMA KeptIsIn ==
    ASSUME BlockInv, NEW x \in Blocks, Kept(x), live' = [live EXCEPT ![x] = @ + 1],
           header' = header
    PROVE  Heap!Next
<1>. USE Domains DEF BlockInv, TypeOK
<1>1. x \in Carved /\ live[x] = 0
  <2>1. x \in Carved
    BY DEF Kept, Homes, Of
  <2>2. live[x] \in 0 .. 1 /\ live[x] # 1
    BY DEF Accounted
  <2>. QED
    BY <2>1, <2>2
<1>2. x[1] \in Chunks /\ header[x[1]].cls \in Classes
  BY <1>1, OfCaches DEF Of
<1>3. live' = [live EXCEPT ![x] = 1]
  BY <1>1
<1>. QED
  BY <1>1, <1>2, <1>3 DEF Heap!Next, Heap!HandOut

(* One that the program has may come back.                                  *)
LEMMA HeldComesBack ==
    ASSUME BlockInv, NEW x \in Blocks, live[x] > 0, live' = [live EXCEPT ![x] = @ - 1],
           header' = header
    PROVE  Heap!Next
<1>1. live[x] = 1
  BY Held
<1>2. live' = [live EXCEPT ![x] = 0]
  BY <1>1
<1>. QED
  BY <1>1, <1>2 DEF Heap!Next, Heap!TakeBack

(* A chunk nobody has seen is cut; one that is being spent keeps its class. *)
LEMMA CutOrSame ==
    ASSUME TypeOK, NEW ch \in Chunks, NEW h,
           h.cls \in Classes, header[ch].cls = None \/ header[ch].cls = h.cls,
           header' = [header EXCEPT ![ch] = h], live' = live
    PROVE  [Heap!Next]_<<live, Sizes>>
<1>1. header'[ch] = h /\ \A g \in Chunks : g # ch => header'[g] = header[g]
  BY DEF TypeOK, ChunkTypes
<1>2. CASE header[ch].cls = None
  <2>0. \A g \in Chunks : header'[g].cls = IF g = ch THEN h.cls ELSE header[g].cls
    BY <1>1
  <2>1. Sizes' = [Sizes EXCEPT ![ch] = h.cls]
    BY <2>0 DEF Sizes
  <2>. QED
    BY <1>2, <2>1 DEF Heap!Next, Heap!Cut, Sizes
<1>3. CASE header[ch].cls = h.cls
  BY <1>1, <1>3 DEF Sizes
<1>. QED
  BY <1>2, <1>3

LEMMA HeapStep == BlockInv /\ [Next]_vars => [Heap!Next]_<<live, Sizes>>
<1>. SUFFICES ASSUME BlockInv, [Next]_vars PROVE [Heap!Next]_<<live, Sizes>>
  OBVIOUS
<1>. USE Domains DEF BlockInv, TypeOK
<1>0. UNCHANGED <<live, header>> => [Heap!Next]_<<live, Sizes>>
  BY DEF Sizes
<1>1. CASE UNCHANGED vars
  BY <1>0, <1>1 DEF vars
<1>2. CASE Next
  <2>1. PICK t \in Threads :
           \/ Attach(t) \/ Detach(t)
           \/ \E k \in setup.asks : AllocOwn(t, k) \/ AllocShared(t, k)
           \/ Alloc(t)
           \/ \E b \in Blocks : FreeOwn(t, b) \/ FreeLoad(t, b)
           \/ Free(t)
    BY <1>2 DEF Next
  <2>w. Working(t) => at[t] \in Caches /\ cls[t] \in Classes
    BY DEF Owners
  <2>2. CASE \/ Attach(t) \/ Detach(t) \/ \E k \in setup.asks : AllocOwn(t, k) \/ AllocShared(t, k)
    BY <1>0, <2>2 DEF Attach, Detach, AllocOwn, AllocShared, Begin
  <2>3. CASE \/ Lock(t) \/ PopBatch(t) \/ PopList(t) \/ PopNone(t) \/ RefillRemote(t) \/ GrowFail(t)
             \/ Free(t)
    BY <1>0, <2>3 DEF Lock, PopBatch, PopList, PopNone, Found, RefillRemote, GrowFail, Free,
                      FreeCas, FreeRetry
  <2>4. CASE PopRefill(t)
    <3>. DEFINE c == at[t]
                k == cls[t]
                whole == freeList[c][k]
                moved == Take(whole, BatchSlots)
    <3>1. /\ header' = header
          /\ batchCls[c] = k => batch[c] = <<>>
          /\ LET got == Take(Spilled(c, k)[k], BatchSlots) IN
                IF got = <<>> THEN UNCHANGED live
                ELSE live' = [live EXCEPT ![Last(got)] = @ + 1]
      BY <2>4 DEF PopRefill
    <3>2. c \in Caches /\ k \in Classes
      BY <2>4, <2>w DEF PopRefill, Working
    <3>3. freeList[c] \in [Classes -> Chain] /\ batchCls[c] \in Classes
      BY <3>2 DEF CacheTypes
    <3>4. Spilled(c, k)[k] = whole /\ whole \in Seq(Blocks) /\ Once(whole)
      BY <3>2, <3>3 DEF Spilled, Chain, Apart
    <3>5. moved \in Seq(Blocks) /\ Once(moved) /\ Elems(moved) \subseteq Elems(whole)
      BY <3>4, CutChain
    <3>6. CASE moved = <<>>
      BY <1>0, <3>1, <3>4, <3>6
    <3>7. CASE moved # <<>>
      <4>1. Last(moved) \in Blocks /\ Last(moved) \in Elems(whole)
        BY <3>5, <3>7, LastOfChain
      <4>2. Kept(Last(moved))
        BY <3>2, <4>1 DEF Kept
      <4>3. live' = [live EXCEPT ![Last(moved)] = @ + 1]
        BY <3>1, <3>4, <3>7
      <4>. QED
        BY <3>1, <4>1, <4>2, <4>3, KeptIsIn
    <3>. QED
      BY <3>6, <3>7
  <2>5. CASE TakeBatch(t) \/ TakeList(t)
    <3>. DEFINE c == at[t]
                k == cls[t]
                x == item[t]
    <3>1. header' = header /\ live' = [live EXCEPT ![x] = @ + 1]
      BY <2>5 DEF TakeBatch, TakeList, HandOut
    <3>2. c \in Caches /\ k \in Classes
      BY <2>5, <2>w DEF TakeBatch, TakeList, Working
    <3>3. CASE TakeBatch(t)
      <4>1. batch[c] \in Seq(Blocks) /\ Once(batch[c]) /\ batch[c] # <<>> /\ x = Last(batch[c])
        BY <3>2, <3>3 DEF TakeBatch, Fresh, CacheTypes, Chain, Apart
      <4>2. x \in Blocks /\ x \in Elems(batch[c])
        BY <4>1, LastOfChain
      <4>. QED
        BY <3>1, <3>2, <4>2, KeptIsIn DEF Kept
    <3>4. CASE TakeList(t)
      <4>0. freeList[c] \in [Classes -> Chain]
        BY <3>2 DEF CacheTypes
      <4>1. /\ freeList[c][k] \in Seq(Blocks) /\ Once(freeList[c][k])
            /\ freeList[c][k] # <<>> /\ x = Top(freeList[c][k])
        BY <3>2, <3>4, <4>0 DEF TakeList, Fresh, Chain, Apart
      <4>2. x \in Blocks /\ x \in Elems(freeList[c][k])
        BY <4>1, HeadOfChain
      <4>3. Kept(x)
        BY <3>2, <4>2 DEF Kept
      <4>. QED
        BY <3>1, <4>2, <4>3, KeptIsIn
    <3>. QED
      BY <2>5, <3>3, <3>4
  <2>6. CASE GrowBig(t)
    <3>. DEFINE fresh == Spending(t) = None
                ch == IF fresh THEN SmallChunks + bigCursor + 1 ELSE Spending(t)
    <3>1. /\ pc[t] = "growBig" /\ live' = live
          /\ ~fresh \/ bigCursor < BigChunks
          /\ \E n : header' = [header EXCEPT ![ch] =
                                  [owner |-> at[t], cls |-> cls[t], chained |-> n]]
      BY <2>6 DEF GrowBig, Chained
    <3>2. at[t] \in Caches /\ cls[t] \in Classes /\ cls[t] \in Big
      BY <3>1, <2>w DEF Working, Fresh
    <3>3. ch \in Chunks /\ (header[ch].cls = None \/ header[ch].cls = cls[t])
      <4>1. CASE fresh
        <5>1. bigCursor \in 0 .. BigChunks /\ bigCursor < BigChunks
          BY <3>1, <4>1 DEF ChunkTypes
        <5>2. ch \in Chunks /\ SmallChunks + bigCursor < ch
          BY <4>1, <5>1 DEF Chunks
        <5>. QED
          BY <5>2 DEF Headers, Virgin
      <4>2. CASE ~fresh
        <5>1. bigRun[at[t]][cls[t]] # None /\ ch = bigRun[at[t]][cls[t]]
          BY <4>2 DEF Spending
        <5>2. ch \in Chunks
          BY <3>2, <5>1 DEF ChunkTypes
        <5>. QED
          BY <3>2, <5>1, <5>2 DEF Headers
      <4>. QED
        BY <4>1, <4>2
    <3>. HIDE DEF ch
    <3>. QED
      BY <3>1, <3>2, <3>3, CutOrSame
  <2>7. CASE GrowBigFail(t)
    <3>. DEFINE ch == SmallChunks + bigCursor + 1
    <3>1. /\ pc[t] = "growBig" /\ live' = live
          /\ \/ header' = header
             \/ /\ bigCursor < BigChunks
                /\ header' = [header EXCEPT ![ch] =
                                 [owner |-> at[t], cls |-> cls[t], chained |-> 0]]
      BY <2>7 DEF GrowBigFail
    <3>2. cls[t] \in Classes
      BY <3>1, <2>w DEF Working
    <3>3. bigCursor < BigChunks => ch \in Chunks /\ header[ch].cls = None
      <4>1. bigCursor < BigChunks => ch \in Chunks /\ SmallChunks + bigCursor < ch
        BY DEF Chunks, ChunkTypes
      <4>. QED
        BY <4>1 DEF Headers, Virgin
    <3>. HIDE DEF ch
    <3>. QED
      BY <1>0, <3>1, <3>2, <3>3, CutOrSame
  <2>8. CASE Grow(t)
    <3>. DEFINE ch == cursor + 1
    <3>1. /\ pc[t] = "grow" /\ live' = live /\ cursor < setup.room
          /\ header' = [header EXCEPT ![ch] =
                           [owner |-> at[t], cls |-> cls[t], chained |-> Capacity]]
      BY <2>8 DEF Grow, Chained
    <3>2. cls[t] \in Classes
      BY <3>1, <2>w DEF Working
    <3>3. ch \in Chunks /\ header[ch].cls = None
      <4>1. setup.room \in 0 .. SmallChunks /\ cursor \in 0 .. SmallChunks
        BY SetupRoom DEF IdTypes, ChunkTypes
      <4>2. ch \in Chunks /\ cursor < ch /\ ch <= SmallChunks
        BY <3>1, <4>1 DEF Chunks
      <4>. QED
        BY <4>2 DEF Headers, Virgin
    <3>. HIDE DEF ch
    <3>. QED
      BY <3>1, <3>2, <3>3, CutOrSame
  <2>9. CASE \E b \in Blocks : FreeOwn(t, b) \/ FreeLoad(t, b)
    BY <2>9, HeldComesBack DEF FreeOwn, FreeLoad
  <2>. QED
    BY <2>1, <2>2, <2>3, <2>4, <2>5, <2>6, <2>7, <2>8, <2>9 DEF Alloc
<1>. QED
  BY <1>1, <1>2

\* The caches, batches, lists and stacks implement BlockHeap: a block is handed
\* out only while nobody has it and only for the class its chunk was cut for.
THEOREM Implements == Spec => ImplementsBlockHeap
<1>1. Init => Heap!Init
  <2>1. ASSUME Init PROVE [ch \in Chunks |-> header[ch].cls] = [ch \in Chunks |-> None]
    BY <2>1 DEF Init, Virgin
  <2>. QED
    BY <2>1 DEF Init, Heap!Init
<1>2. BlockInv /\ [Next]_vars => [Heap!Next]_<<live, [ch \in Chunks |-> header[ch].cls]>>
  BY HeapStep DEF Sizes
<1>. QED
  BY <1>1, <1>2, BlockInvariant, PTL DEF Spec, ImplementsBlockHeap, Heap!Spec

(***************************************************************************)
(* host_chunk_reclaim: what is counted, what is kept, what is let go.       *)
(***************************************************************************)

(* What scan_rebuild leaves of a list: what is not doomed, once.            *)
LEMMA KeepIs ==
    ASSUME NEW s \in Seq(Blocks), Once(s), NEW doomed
    PROVE  /\ Keep(s, doomed) \in Seq(Blocks) /\ Once(Keep(s, doomed))
           /\ Len(Keep(s, doomed)) <= Len(s)
           /\ Elems(Keep(s, doomed)) = {b \in Elems(s) : b[1] \notin doomed}
<1>. DEFINE stay == {i \in 1 .. Len(s) : s[i][1] \notin doomed}
            upTo(i) == {j \in stay : j <= i}
            kept(i) == Cardinality(upTo(i))
            n == Cardinality(stay)
            r == [m \in 1 .. n |-> s[CHOOSE i \in stay : kept(i) = m]]
            f == [i \in stay |-> kept(i)]
<1>1. Keep(s, doomed) = r
  BY DEF Keep
<1>2. IsFiniteSet(stay) /\ n \in Nat /\ n <= Len(s)
  <2>1. Len(s) \in Nat
    OBVIOUS
  <2>2. IsFiniteSet(1 .. Len(s)) /\ Cardinality(1 .. Len(s)) = Len(s)
    BY <2>1, FS_Interval
  <2>3. stay \in SUBSET (1 .. Len(s))
    OBVIOUS
  <2>. QED
    BY <2>2, <2>3, FS_Subset, FS_CardinalityType
<1>3. ASSUME NEW i \in stay
      PROVE  IsFiniteSet(upTo(i)) /\ kept(i) \in 1 .. n /\ kept(i) \in Nat
  <2>1. upTo(i) \in SUBSET stay /\ i \in upTo(i)
    OBVIOUS
  <2>2. IsFiniteSet(upTo(i)) /\ kept(i) <= n
    BY <1>2, <2>1, FS_Subset
  <2>3. kept(i) \in Nat /\ kept(i) # 0
    BY <2>1, <2>2, FS_CardinalityType, FS_EmptySet
  <2>. QED
    BY <2>2, <2>3, <1>2
<1>4. ASSUME NEW i \in stay, NEW j \in stay, i < j PROVE kept(i) < kept(j)
  <2>1. upTo(i) \in SUBSET upTo(j) /\ j \notin upTo(i) /\ j \in upTo(j)
    BY <1>4
  <2>2. IsFiniteSet(upTo(j)) /\ kept(j) \in Nat /\ kept(i) \in Nat
    BY <1>3, Zenon
  <2>3. kept(i) <= kept(j) /\ kept(i) # kept(j)
    BY <2>1, <2>2, FS_Subset
  <2>. QED
    BY <2>2, <2>3
<1>5. f \in Injection(stay, 1 .. n)
  <2>1. f \in [stay -> 1 .. n]
    BY <1>3
  <2>2. ASSUME NEW i \in stay, NEW j \in stay, f[i] = f[j] PROVE i = j
    <3>1. kept(i) = kept(j) /\ kept(i) \in 1 .. n
      BY <2>2, <1>3
    <3>2. ~ (kept(i) < kept(j)) /\ ~ (kept(j) < kept(i))
      <4>1. PICK x \in Nat : x = kept(i)
        BY <1>3
      <4>2. ~ (x < x) /\ x = kept(j)
        BY <3>1, <4>1
      <4>. QED
        BY <4>1, <4>2
    <3>3. ~ (i < j) /\ ~ (j < i)
      BY <1>4, <3>2, Zenon
    <3>. QED
      BY <3>3
  <2>. QED
    BY <2>1, <2>2 DEF Injection, IsInjective
<1>6. f \in Surjection(stay, 1 .. n)
  <2>1. IsFiniteSet(1 .. n) /\ Cardinality(1 .. n) = n
    <3>1. PICK x \in Nat : x = n
      BY <1>2
    <3>2. IsFiniteSet(1 .. x) /\ Cardinality(1 .. x) = x
      BY FS_Interval
    <3>. QED
      BY <3>1, <3>2, Zenon
  <2>. QED
    BY <1>5, <2>1, FS_Injection
<1>7. ASSUME NEW m \in 1 .. n
      PROVE  \E i \in stay : kept(i) = m /\ r[m] = s[i]
  <2>1. \E i \in stay : kept(i) = m
    BY <1>6 DEF Surjection
  <2>. HIDE DEF stay, kept, n
  <2>2. (CHOOSE i \in stay : kept(i) = m) \in stay /\ kept(CHOOSE i \in stay : kept(i) = m) = m
    BY <2>1
  <2>. QED
    BY <2>2
<1>8. ASSUME NEW i \in stay PROVE kept(i) \in 1 .. n /\ r[kept(i)] = s[i]
  <2>1. PICK j \in stay : kept(j) = kept(i) /\ r[kept(i)] = s[j]
    BY <1>3, <1>7
  <2>2. ~ (kept(i) < kept(j)) /\ ~ (kept(j) < kept(i))
    <3>1. PICK x \in Nat : x = kept(i)
      BY <1>3
    <3>2. ~ (x < x) /\ x = kept(j)
      BY <2>1, <3>1
    <3>. QED
      BY <3>1, <3>2
  <2>3. ~ (i < j) /\ ~ (j < i)
    BY <1>4, <2>2, Zenon
  <2>4. i = j
    BY <2>3
  <2>. QED
    BY <2>1, <2>4, <1>3
<1>a. \A i \in stay : i \in 1 .. Len(s) /\ s[i] \in Blocks /\ s[i][1] \notin doomed
  OBVIOUS
<1>b. \A i \in 1 .. Len(s) : s[i][1] \notin doomed => i \in stay
  OBVIOUS
<1>. HIDE DEF stay, kept, n
<1>9. r \in Seq(Blocks) /\ Len(r) = n
  <2>1. r \in [1 .. n -> Blocks]
    BY <1>7, <1>a
  <2>. QED
    BY <2>1, <1>2
<1>. HIDE DEF r
<1>10. Once(r)
  <2>. SUFFICES ASSUME NEW m \in 1 .. n, NEW l \in 1 .. n, r[m] = r[l] PROVE m = l
    BY <1>9 DEF Once
  <2>1. PICK i \in stay : kept(i) = m /\ r[m] = s[i]
    BY <1>7
  <2>2. PICK j \in stay : kept(j) = l /\ r[l] = s[j]
    BY <1>7
  <2>3. i = j
    BY <2>1, <2>2, <1>a DEF Once
  <2>. QED
    BY <2>1, <2>2, <2>3
<1>11. Elems(r) = {b \in Elems(s) : b[1] \notin doomed}
  <2>1. ASSUME NEW m \in 1 .. n PROVE r[m] \in Elems(s) /\ r[m][1] \notin doomed
    BY <1>7, <1>a DEF Elems
  <2>2. ASSUME NEW i \in 1 .. Len(s), s[i][1] \notin doomed PROVE s[i] \in Elems(r)
    BY <1>8, <1>b, <1>9, <2>2 DEF Elems
  <2>. QED
    BY <1>9, <2>1, <2>2 DEF Elems
<1>. QED
  BY <1>1, <1>2, <1>9, <1>10, <1>11

(* The blocks of a chunk in a list are as many as the walk counts there.    *)
Mates(ch, s) == {b \in Elems(s) : b[1] = ch /\ ch <= SmallChunks}

LEMMA CountIs ==
    ASSUME NEW s \in Seq(Blocks), Once(s), NEW ch
    PROVE  /\ IsFiniteSet(Mates(ch, s)) /\ In(ch, s) = Cardinality(Mates(ch, s))
           /\ In(ch, s) \in Nat
<1>. DEFINE At == {i \in 1 .. Len(s) : s[i][1] = ch /\ ch <= SmallChunks}
            f == [i \in At |-> s[i]]
<1>1. IsFiniteSet(At)
  <2>1. Len(s) \in Nat /\ At \in SUBSET (1 .. Len(s))
    OBVIOUS
  <2>2. IsFiniteSet(1 .. Len(s))
    BY <2>1, FS_Interval
  <2>. QED
    BY <2>1, <2>2, FS_Subset
<1>2. f \in Bijection(At, Mates(ch, s))
  <2>1. f \in [At -> Mates(ch, s)]
    BY DEF Mates, Elems
  <2>2. \A i, j \in At : f[i] = f[j] => i = j
    BY DEF Once
  <2>3. \A b \in Mates(ch, s) : \E i \in At : f[i] = b
    BY DEF Mates, Elems
  <2>. QED
    BY <2>1, <2>2, <2>3 DEF Bijection, Injection, Surjection, IsInjective
<1>3. IsFiniteSet(Mates(ch, s)) /\ Cardinality(Mates(ch, s)) = Cardinality(At)
  BY <1>1, <1>2, FS_Bijection DEF ExistsBijection
<1>. QED
  BY <1>1, <1>3, FS_CardinalityType DEF In

(* A cache is walked by the thread that has it: what is counted of a chunk   *)
(* stays where it was counted, in the batch or a list, unless it was counted *)
(* on a stack, of which the walk makes a note.                               *)
WalkTypes ==
    /\ todo \in [Threads -> SUBSET Classes]
    /\ count \in [Chunks -> Nat] /\ given \subseteq Chunks
BigRunsBig ==
    \A c \in Caches, k \in Big : bigRun[c][k] # None => bigRun[c][k] > SmallChunks
GivenGone == \A ch \in given : ch <= cursor /\ ch <= SmallChunks /\ header[ch] = Virgin
Walkers ==
    \A t \in Threads : Reclaiming(t) =>
        slot[t] # None /\ at[t] = slot[t] /\ todo[t] \subseteq Swept

CountedBy(ch, t) == pc[t] = "count" /\ at[t] = header[ch].owner
Counted ==
    \A ch \in Chunks \ met :
        /\ \A t \in Threads : CountedBy(ch, t) =>
             count[ch] = In(ch, batch[at[t]])
                           + (IF header[ch].cls \in Swept \ todo[t]
                                THEN In(ch, freeList[at[t]][header[ch].cls]) ELSE 0)
        /\ (\A t \in Threads : ~ CountedBy(ch, t)) => count[ch] = 0

ReclaimInv == BlockInv /\ WalkTypes /\ BigRunsBig /\ GivenGone /\ Walkers /\ Counted

LEMMA SweptIn == Swept \subseteq Classes
BY DEF Swept

LEMMA ListsAre ==
    ASSUME BlockInv, NEW c \in Caches
    PROVE  /\ batch[c] \in Seq(Blocks) /\ Once(batch[c])
           /\ \A k \in Classes : /\ freeList[c][k] \in Seq(Blocks) /\ Once(freeList[c][k])
                                 /\ remote[c][k] \in Seq(Blocks) /\ Once(remote[c][k])
BY DEF BlockInv, TypeOK, CacheTypes, Apart, Chain

(* A chunk whose count is full has every block in the batch or a list.      *)
Gathered(c, ch) ==
    \A b \in Blocks : b[1] = ch =>
        b \in Elems(batch[c]) \/ \E k \in Swept : b \in Elems(freeList[c][k])

LEMMA FullIsAll ==
    ASSUME BlockInv, Counted, WalkTypes, NEW t \in Threads, pc[t] = "count", todo[t] = {},
           at[t] \in Caches, NEW ch \in Chunks \ met, Full(at[t], ch)
    PROVE  Gathered(at[t], ch)
<1>. DEFINE c == at[t]
            k == header[ch].cls
            here == Mates(ch, batch[c])
            there == IF k \in Swept THEN Mates(ch, freeList[c][k]) ELSE {}
            whole == {ch} \X (1 .. Capacity)
<1>1. count[ch] >= Capacity /\ count[ch] = In(ch, batch[c])
                                 + (IF k \in Swept THEN In(ch, freeList[c][k]) ELSE 0)
  BY DEF Full, Counted, CountedBy
<1>2. IsFiniteSet(here) /\ In(ch, batch[c]) = Cardinality(here) /\ Cardinality(here) \in Nat
  BY ListsAre, CountIs, Zenon
<1>3. /\ IsFiniteSet(there) /\ Cardinality(there) \in Nat
      /\ Cardinality(there) = IF k \in Swept THEN In(ch, freeList[c][k]) ELSE 0
  <2>1. CASE k \in Swept
    <3>1. freeList[c][k] \in Seq(Blocks) /\ Once(freeList[c][k])
      BY <2>1, SweptIn, ListsAre
    <3>2. /\ IsFiniteSet(Mates(ch, freeList[c][k]))
          /\ In(ch, freeList[c][k]) = Cardinality(Mates(ch, freeList[c][k]))
          /\ In(ch, freeList[c][k]) \in Nat
      BY <3>1, CountIs, Zenon
    <3>. QED
      BY <2>1, <3>2
  <2>2. CASE k \notin Swept
    BY <2>2, FS_EmptySet
  <2>. QED
    BY <2>1, <2>2
<1>4. here \cap there = {}
  BY SweptIn DEF BlockInv, Apart, Mates
<1>5. here \cup there \in SUBSET whole
  <2>1. Elems(batch[c]) \subseteq Blocks
    BY ListsAre DEF Elems
  <2>2. k \in Swept => Elems(freeList[c][k]) \subseteq Blocks
    BY ListsAre, SweptIn DEF Elems
  <2>. QED
    BY <2>1, <2>2 DEF Mates, Blocks
<1>6. IsFiniteSet(whole) /\ Cardinality(whole) = Capacity
  <2>1. PICK n \in Nat : n = Capacity
    BY Domains
  <2>2. IsFiniteSet(1 .. n) /\ Cardinality(1 .. n) = n
    BY FS_Interval
  <2>3. IsFiniteSet({ch}) /\ Cardinality({ch}) = 1
    BY FS_Singleton
  <2>4. IsFiniteSet({ch} \X (1 .. n)) /\ Cardinality({ch} \X (1 .. n)) = 1 * n
    <3>1. Cardinality({ch} \X (1 .. n)) = Cardinality({ch}) * Cardinality(1 .. n)
      BY <2>2, <2>3, FS_Product, Zenon
    <3>2. IsFiniteSet({ch} \X (1 .. n))
      BY <2>2, <2>3, FS_Product, Zenon
    <3>. QED
      BY <2>2, <2>3, <3>1, <3>2
  <2>. QED
    BY <2>1, <2>4
<1>. HIDE DEF here, there, whole
<1>7. Cardinality(here \cup there) = Cardinality(here) + Cardinality(there)
  <2>1. Cardinality({}) = 0
    BY FS_EmptySet
  <2>2. Cardinality(here \cup there)
          = Cardinality(here) + Cardinality(there) - Cardinality(here \cap there)
    BY <1>2, <1>3, FS_Union
  <2>3. PICK m \in Nat, n \in Nat : m = Cardinality(here) /\ n = Cardinality(there)
    BY <1>2, <1>3
  <2>4. Cardinality(here \cap there) = 0
    BY <1>4, <2>1, Zenon
  <2>5. Cardinality(here \cup there) = m + n - 0
    BY <2>2, <2>3, <2>4, Zenon
  <2>. QED
    BY <2>3, <2>5
<1>8. Cardinality(here \cup there) >= Cardinality(whole)
  BY <1>1, <1>2, <1>3, <1>6, <1>7
<1>9. here \cup there = whole
  <2>1. Cardinality(here \cup there) <= Cardinality(whole)
        /\ (Cardinality(whole) = Cardinality(here \cup there) => whole = here \cup there)
    BY <1>5, <1>6, FS_Subset
  <2>2. Cardinality(whole) \in Nat /\ Cardinality(here \cup there) \in Nat
    BY <1>2, <1>3, <1>6, <1>7, Domains
  <2>. QED
    BY <1>8, <2>1, <2>2
<1>. QED
  <2>. SUFFICES ASSUME NEW b \in Blocks, b[1] = ch
                PROVE  b \in Elems(batch[c]) \/ \E j \in Swept : b \in Elems(freeList[c][j])
    BY DEF Gathered
  <2>1. b \in here \cup there
    BY <1>9 DEF whole, Blocks
  <2>. QED
    BY <2>1 DEF here, there, Mates

(* Chunks all of whose blocks are in one cache's batch and lists go, with    *)
(* those blocks: the rest is as it was.                                     *)
Sifted(doomed) ==
    /\ \A d \in Caches :
          /\ batchCls'[d] = batchCls[d]
          /\ Once(batch'[d])
          /\ Elems(batch'[d]) = {b \in Elems(batch[d]) : b[1] \notin doomed}
          /\ \A k \in Classes :
                /\ Once(freeList'[d][k])
                /\ Elems(freeList'[d][k]) = {b \in Elems(freeList[d][k]) : b[1] \notin doomed}
                /\ Elems(remote[d][k]) = {b \in Elems(remote[d][k]) : b[1] \notin doomed}
    /\ remote' = remote
    /\ header' = [ch \in Chunks |-> IF ch \in doomed THEN Virgin ELSE header[ch]]

LEMMA SiftedChunks ==
    ASSUME NEW doomed \in SUBSET Chunks, Sifted(doomed), ChunkTypes
    PROVE  /\ Carved' = {b \in Carved : b[1] \notin doomed}
           /\ \A c \in Caches : \A k : Of(c, k)' = {b \in Of(c, k) : b[1] \notin doomed}
           /\ \A ch \in Chunks : header'[ch] = IF ch \in doomed THEN Virgin ELSE header[ch]
<1>1. \A ch \in Chunks : header'[ch] = IF ch \in doomed THEN Virgin ELSE header[ch]
  BY DEF Sifted
<1>2. ASSUME NEW b \in Blocks
      PROVE  /\ b[1] \in Chunks /\ b[2] \in 1 .. Capacity
             /\ b[1] \in doomed => ~ (b[2] <= header'[b[1]].chained)
  BY <1>1, Domains DEF Blocks, Virgin
<1>3. Carved' = {b \in Carved : b[1] \notin doomed}
  BY <1>1, <1>2 DEF Carved
<1>4. ASSUME NEW c \in Caches, NEW k
      PROVE  Of(c, k)' = {b \in Of(c, k) : b[1] \notin doomed}
  BY <1>1, <1>2, <1>3 DEF Of, Carved
<1>. QED
  BY <1>1, <1>3, <1>4

LEMMA SiftedStep ==
    ASSUME BlockInv, NEW doomed \in SUBSET Chunks, Sifted(doomed), live' = live,
           UNCHANGED <<bigRun, cursor, bigCursor>>, BigRunsBig,
           \A b \in Blocks : b[1] \in doomed => Kept(b),
           \A ch \in doomed : ch <= SmallChunks,
           \A b \in Blocks, t \in Threads : Pushing(t, b)' <=> Pushing(t, b),
           \A b \in Blocks, t \in Threads :
              Pushing(t, b) => at'[t] = at[t] /\ cls'[t] = cls[t]
    PROVE  (Homes /\ Apart /\ Accounted /\ Headers)'
<1>. USE DEF BlockInv, TypeOK
<1>1. /\ Carved' = {b \in Carved : b[1] \notin doomed}
      /\ \A c \in Caches : \A k : Of(c, k)' = {b \in Of(c, k) : b[1] \notin doomed}
      /\ \A ch \in Chunks : header'[ch] = IF ch \in doomed THEN Virgin ELSE header[ch]
  BY SiftedChunks
<1>2. Homes'
  <2>. SUFFICES ASSUME NEW d \in Caches
                PROVE  /\ Elems(batch'[d]) \subseteq
                            {b \in Of(d, batchCls'[d]) : b[1] \notin doomed}
                       /\ \A j \in Classes :
                             Elems(freeList'[d][j]) \cup Elems(remote'[d][j])
                               \subseteq {b \in Of(d, j) : b[1] \notin doomed}
    BY <1>1 DEF Homes
  <2>1. /\ Elems(batch[d]) \subseteq Of(d, batchCls[d])
        /\ \A j \in Classes : Elems(freeList[d][j]) \cup Elems(remote[d][j]) \subseteq Of(d, j)
    BY DEF Homes
  <2>2. batchCls'[d] = batchCls[d]
        /\ Elems(batch'[d]) = {b \in Elems(batch[d]) : b[1] \notin doomed}
    BY DEF Sifted
  <2>3. ASSUME NEW j \in Classes, NEW b,
               b \in Elems(freeList'[d][j]) \/ b \in Elems(remote'[d][j])
        PROVE  b \in Of(d, j) /\ b[1] \notin doomed
    <3>1. /\ Elems(freeList'[d][j]) = {x \in Elems(freeList[d][j]) : x[1] \notin doomed}
          /\ Elems(remote[d][j]) = {x \in Elems(remote[d][j]) : x[1] \notin doomed}
          /\ remote' = remote
      BY DEF Sifted
    <3>2. remote'[d][j] = remote[d][j]
      BY <3>1
    <3>. QED
      BY <2>1, <2>3, <3>1, <3>2, Zenon
  <2>. QED
    BY <2>1, <2>2, <2>3
<1>3. Apart'
  <2>. SUFFICES ASSUME NEW d \in Caches, NEW j \in Classes
                PROVE  /\ Once(batch'[d]) /\ Once(freeList'[d][j]) /\ Once(remote'[d][j])
                       /\ Elems(freeList'[d][j]) \cap Elems(remote'[d][j]) = {}
                       /\ Elems(batch'[d]) \cap
                             (Elems(freeList'[d][j]) \cup Elems(remote'[d][j])) = {}
    BY Domains, ZenonT(60) DEF Apart
  <2>1. /\ Once(remote[d][j]) /\ Elems(freeList[d][j]) \cap Elems(remote[d][j]) = {}
        /\ Elems(batch[d]) \cap (Elems(freeList[d][j]) \cup Elems(remote[d][j])) = {}
    BY DEF Apart
  <2>2. /\ Once(batch'[d]) /\ Once(freeList'[d][j]) /\ remote'[d][j] = remote[d][j]
        /\ Elems(batch'[d]) \subseteq Elems(batch[d])
        /\ Elems(freeList'[d][j]) \subseteq Elems(freeList[d][j])
    BY DEF Sifted
  <2>3. Once(remote'[d][j]) /\ Elems(remote'[d][j]) = Elems(remote[d][j])
    BY <2>1, <2>2, Zenon
  <2>4. /\ Elems(freeList'[d][j]) \cap Elems(remote'[d][j]) = {}
        /\ Elems(batch'[d]) \cap
              (Elems(freeList'[d][j]) \cup Elems(remote'[d][j])) = {}
    <3>. HIDE DEF BlockInv, TypeOK
    <3>. QED
      BY <2>1, <2>2, <2>3
  <2>. QED
    BY <2>2, <2>3, <2>4, Zenon
<1>4. ASSUME NEW b PROVE Kept(b)' <=> Kept(b) /\ b[1] \notin doomed
  BY DEF Kept, Sifted
<1>5. Accounted'
  <2>. SUFFICES ASSUME NEW b \in Blocks
                PROVE  /\ live[b] \in 0 .. 1
                       /\ live[b] = 1 => /\ b \in Carved' /\ ~Kept(b)'
                                         /\ \A t \in Threads : ~Pushing(t, b)'
                       /\ \A t \in Threads : Pushing(t, b)' =>
                             /\ b \in Of(at[t], cls[t])' /\ ~Kept(b)'
                             /\ at'[t] = at[t] /\ cls'[t] = cls[t]
                             /\ \A u \in Threads : Pushing(u, b)' => u = t
                       /\ b \in Carved' =>
                             live[b] = 1 \/ Kept(b)' \/ \E t \in Threads : Pushing(t, b)'
    BY DEF Accounted
  <2>1. /\ live[b] \in 0 .. 1
        /\ live[b] = 1 => b \in Carved /\ ~Kept(b) /\ \A t \in Threads : ~Pushing(t, b)
        /\ \A t \in Threads : Pushing(t, b) =>
              /\ b \in Of(at[t], cls[t]) /\ ~Kept(b)
              /\ \A u \in Threads : Pushing(u, b) => u = t
        /\ b \in Carved => live[b] = 1 \/ Kept(b) \/ \E t \in Threads : Pushing(t, b)
    BY DEF Accounted
  <2>2. ASSUME NEW t \in Threads, Pushing(t, b)
        PROVE  b \in Of(at[t], cls[t])' /\ at[t] \in Caches
    <3>1. at[t] \in Caches
      BY <2>1, <2>2, OfCaches
    <3>. QED
      BY <1>1, <2>1, <2>2, <3>1
  <2>. QED
    BY <1>1, <1>4, <2>1, <2>2
<1>6. Headers'
  <2>1. Virgin.chained = 0 /\ ~ (Virgin.chained > 0)
    BY DEF Virgin
  <2>2. \A ch \in Chunks :
          /\ header'[ch].chained > 0 => header'[ch].owner \in Caches /\ header'[ch].cls \in Classes
          /\ cursor < ch /\ ch <= SmallChunks => header'[ch] = Virgin
          /\ SmallChunks + bigCursor < ch => header'[ch] = Virgin
    BY <1>1, <2>1 DEF Headers
  <2>3. ASSUME NEW c \in Caches, NEW k \in Big, bigRun[c][k] # None
        PROVE  header'[bigRun[c][k]].owner = c /\ header'[bigRun[c][k]].cls = k
    <3>1. bigRun[c][k] \in Chunks /\ bigRun[c][k] > SmallChunks
      BY <2>3 DEF ChunkTypes, BigRunsBig
    <3>2. bigRun[c][k] \notin doomed
      BY <3>1, Domains DEF Chunks
    <3>. QED
      BY <1>1, <2>3, <3>1, <3>2 DEF Headers
  <2>. QED
    BY <2>2, <2>3 DEF Headers
<1>. QED
  BY <1>2, <1>3, <1>5, <1>6

Doomed(c) == {ch \in Chunks : Full(c, ch)}

LEMMA WalkerIs ==
    ASSUME BlockInv, Walkers, NEW t \in Threads, Reclaiming(t)
    PROVE  /\ at[t] \in Caches /\ at[t] \in Ids /\ at[t] = slot[t] /\ at[t] # Shared
           /\ ~ Working(t) /\ pc[t] \notin {"lock", "freeCas"}
           /\ \A u \in Threads : slot[u] = at[t] => u = t
           /\ \A u \in Threads : Working(u) => at[u] # at[t]
<1>1. slot[t] # None /\ at[t] = slot[t]
  BY DEF Walkers
<1>2. at[t] \in Ids
  BY <1>1 DEF BlockInv, TypeOK, IdTypes
<1>3. ~ Working(t) /\ pc[t] \notin {"lock", "freeCas"}
  BY DEF Reclaiming, Working
<1>4. \A u \in Threads : slot[u] = at[t] => u = t
  BY <1>1 DEF BlockInv, Owners
<1>5. at[t] # Shared /\ at[t] \in Caches
  BY <1>2, BlockAssumption DEF Caches
<1>6. ASSUME NEW u \in Threads, Working(u) PROVE at[u] # at[t]
  BY <1>3, <1>4, <1>5, <1>6 DEF BlockInv, Owners
<1>. QED
  BY <1>1, <1>2, <1>3, <1>4, <1>5, <1>6

(* What is given back is what was gathered, and no block is torn from the   *)
(* lists of others.                                                         *)
LEMMA GiveBackSifts ==
    ASSUME ReclaimInv, NEW t \in Threads, GiveBack(t), ~ torn'
    PROVE  /\ Sifted(Doomed(at[t])) /\ at[t] \in Caches
           /\ \A ch \in Doomed(at[t]) :
                 /\ Gathered(at[t], ch) /\ header[ch].owner = at[t] /\ ch <= SmallChunks
           /\ CacheTypes'
<1>. DEFINE c == at[t]
            doomed == Doomed(c)
<1>. USE DEF ReclaimInv
<1>0. /\ pc[t] = "count" /\ todo[t] = {} /\ Reclaiming(t)
      /\ batch' = [batch EXCEPT ![c] = Keep(@, doomed)]
      /\ freeList' = [freeList EXCEPT ![c] =
                       [k \in Classes |-> IF k \in Swept THEN Keep(@[k], doomed) ELSE @[k]]]
      /\ header' = [ch \in Chunks |-> IF ch \in doomed THEN Virgin ELSE header[ch]]
      /\ batchCls' = batchCls /\ remote' = remote
  BY DEF GiveBack, Doomed, Reclaiming
<1>1. c \in Caches
  BY <1>0, WalkerIs
<1>2. ASSUME NEW ch \in doomed
      PROVE  Gathered(c, ch) /\ header[ch].owner = c /\ ch <= SmallChunks
  <2>1. ch \in Chunks \ met /\ Full(c, ch)
    BY DEF Doomed, GiveBack
  <2>2. Gathered(c, ch)
    BY <1>0, <1>1, <2>1, FullIsAll
  <2>. QED
    BY <2>1, <2>2 DEF Full
<1>. HIDE DEF doomed
<1>3. /\ batch \in [Caches -> Chain] /\ freeList \in [Caches -> [Classes -> Chain]]
      /\ \A d \in Caches : Len(batch[d]) <= BatchSlots
  BY DEF BlockInv, TypeOK, CacheTypes
<1>4. /\ batch'[c] = Keep(batch[c], doomed)
      /\ \A k \in Classes : freeList'[c][k] = IF k \in Swept THEN Keep(freeList[c][k], doomed)
                                              ELSE freeList[c][k]
      /\ \A d \in Caches : d # c => batch'[d] = batch[d] /\ freeList'[d] = freeList[d]
  BY <1>0, <1>1, <1>3
<1>5. /\ Keep(batch[c], doomed) \in Seq(Blocks) /\ Once(Keep(batch[c], doomed))
      /\ Len(Keep(batch[c], doomed)) <= Len(batch[c])
      /\ Elems(Keep(batch[c], doomed)) = {b \in Elems(batch[c]) : b[1] \notin doomed}
  BY <1>1, ListsAre, KeepIs, Zenon
<1>6. ASSUME NEW k \in Classes
      PROVE  /\ Keep(freeList[c][k], doomed) \in Seq(Blocks)
             /\ Once(Keep(freeList[c][k], doomed))
             /\ Elems(Keep(freeList[c][k], doomed))
                  = {b \in Elems(freeList[c][k]) : b[1] \notin doomed}
  BY <1>1, ListsAre, KeepIs, Zenon
<1>7. ASSUME NEW d \in Caches
      PROVE  /\ d # c => \A b \in Elems(batch[d]) : b[1] \notin doomed
             /\ \A k \in Classes :
                  /\ d # c \/ k \notin Swept => \A b \in Elems(freeList[d][k]) : b[1] \notin doomed
                  /\ \A b \in Elems(remote[d][k]) : b[1] \notin doomed
  <2>1. /\ Elems(batch[d]) \subseteq Blocks
        /\ \A k \in Classes : /\ Elems(freeList[d][k]) \subseteq Blocks
                              /\ Elems(remote[d][k]) \subseteq Blocks
    BY ListsAre DEF Elems
  <2>2. ASSUME NEW b \in Blocks, b[1] \in doomed
        PROVE  \/ b \in Elems(batch[c])
               \/ \E j \in Classes : j \in Swept /\ b \in Elems(freeList[c][j])
    BY <1>2, <2>2, SweptIn DEF Gathered
  <2>3. Homes /\ Apart
    BY DEF BlockInv
  <2>4. ASSUME NEW b \in Blocks, b[1] \in doomed
        PROVE  /\ d # c => b \notin Elems(batch[d])
               /\ \A k \in Classes :
                    /\ d # c \/ k \notin Swept => b \notin Elems(freeList[d][k])
                    /\ b \notin Elems(remote[d][k])
    <3>1. CASE b \in Elems(batch[c])
      BY <1>1, <2>3, <3>1, OneKeeper, Domains
    <3>2. CASE \E j \in Classes : j \in Swept /\ b \in Elems(freeList[c][j])
      <4>1. PICK j \in Classes : j \in Swept /\ b \in Elems(freeList[c][j])
        BY <3>2
      <4>. QED
        BY <1>1, <2>3, <4>1, OneKeeper
    <3>. QED
      BY <2>2, <2>4, <3>1, <3>2
  <2>. QED
    BY <2>1, <2>4
<1>8. ASSUME NEW d \in Caches
      PROVE  /\ batchCls'[d] = batchCls[d]
             /\ Once(batch'[d])
             /\ Elems(batch'[d]) = {b \in Elems(batch[d]) : b[1] \notin doomed}
             /\ \A k \in Classes :
                   /\ Once(freeList'[d][k])
                   /\ Elems(freeList'[d][k]) = {b \in Elems(freeList[d][k]) : b[1] \notin doomed}
                   /\ Elems(remote[d][k]) = {b \in Elems(remote[d][k]) : b[1] \notin doomed}
  <2>0. Once(batch[d]) /\ \A k \in Classes : Once(freeList[d][k])
    BY ListsAre
  <2>1. batchCls'[d] = batchCls[d]
    BY <1>0
  <2>2. Once(batch'[d]) /\ Elems(batch'[d]) = {b \in Elems(batch[d]) : b[1] \notin doomed}
    <3>1. CASE d = c
      BY <1>4, <1>5, <3>1
    <3>2. CASE d # c
      BY <1>4, <1>7, <2>0, <3>2
    <3>. QED
      BY <3>1, <3>2
  <2>3. ASSUME NEW k \in Classes
        PROVE  /\ Once(freeList'[d][k])
               /\ Elems(freeList'[d][k]) = {b \in Elems(freeList[d][k]) : b[1] \notin doomed}
    <3>1. CASE d = c /\ k \in Swept
      BY <1>4, <1>6, <3>1
    <3>2. CASE ~ (d = c /\ k \in Swept)
      <4>1. freeList'[d][k] = freeList[d][k]
        BY <1>4, <3>2
      <4>2. \A b \in Elems(freeList[d][k]) : b[1] \notin doomed
        BY <1>7, <3>2
      <4>. QED
        BY <2>0, <4>1, <4>2
    <3>. QED
      BY <3>1, <3>2
  <2>4. \A k \in Classes : Elems(remote[d][k]) = {b \in Elems(remote[d][k]) : b[1] \notin doomed}
    BY <1>7
  <2>. QED
    BY <2>1, <2>2, <2>3, <2>4
<1>9. Sifted(doomed)
  BY <1>0, <1>8, Zenon DEF Sifted
<1>10. CacheTypes'
  <2>1. batch' \in [Caches -> Chain]
    BY <1>0, <1>3, <1>5 DEF Chain
  <2>2. freeList' \in [Caches -> [Classes -> Chain]]
    <3>1. [k \in Classes |-> IF k \in Swept THEN Keep(freeList[c][k], doomed)
                             ELSE freeList[c][k]] \in [Classes -> Chain]
      BY <1>1, <1>3, <1>6 DEF Chain
    <3>. QED
      BY <1>0, <1>3, <3>1
  <2>3. ASSUME NEW d \in Caches PROVE Len(batch'[d]) <= BatchSlots
    <3>1. CASE d = c
      <4>1. Len(batch'[c]) <= Len(batch[c]) /\ Len(batch[c]) <= BatchSlots
        BY <1>1, <1>3, <1>4, <1>5
      <4>2. Len(batch'[c]) \in Nat /\ Len(batch[c]) \in Nat
        BY <1>1, <1>4, <1>5, ListsAre
      <4>. QED
        BY <3>1, <4>1, <4>2, Domains
    <3>2. CASE d # c
      BY <1>3, <1>4, <3>2
    <3>. QED
      BY <3>1, <3>2
  <2>. QED
    BY <1>0, <2>1, <2>2, <2>3 DEF CacheTypes, BlockInv, TypeOK
<1>. QED
  BY <1>1, <1>2, <1>9, <1>10 DEF doomed

(* Of a set of classes one is the smallest.                                 *)
LEMMA SmallestOf ==
    ASSUME NEW S, S \subseteq Nat, S # {}
    PROVE  \E m \in S : \A n \in S : m <= n
<1>1. PICK m \in S : \A n \in S : <<n, m>> \notin OpToRel(<, Nat)
  BY NatLessThanWellFounded, WFMin
<1>2. ASSUME NEW n \in S PROVE m <= n
  <2>1. m \in Nat /\ n \in Nat
    OBVIOUS
  <2>2. ~(n < m)
    BY <1>1, <2>1, Zenon DEF OpToRel
  <2>. QED
    BY <2>1, <2>2
<1>. QED
  BY <1>2

(* The steps of the walk keep the blocks in order.                          *)
LEMMA GiveBackStep ==
    ASSUME ReclaimInv, NEW t \in Threads, GiveBack(t), ~ torn'
    PROVE  BlockInv'
<1>. USE Domains DEF ReclaimInv, BlockInv, TypeOK
<1>. DEFINE c == at[t]
            doomed == Doomed(c)
<1>0. /\ pc[t] = "count" /\ Reclaiming(t)
      /\ header' = [ch \in Chunks |-> IF ch \in doomed THEN Virgin ELSE header[ch]]
      /\ freeList' = [freeList EXCEPT ![c] =
                       [k \in Classes |-> IF k \in Swept THEN Keep(@[k], doomed) ELSE @[k]]]
      /\ batch' = [batch EXCEPT ![c] = Keep(@, doomed)]
      /\ batchCls' = batchCls
      /\ pc' = [pc EXCEPT ![t] = "idle"] /\ at' = [at EXCEPT ![t] = None]
      /\ UNCHANGED <<setup, freeIds, slot, dead, lock, bigRun, cursor, bigCursor, live,
                     cls, item, rest, seen>>
  BY DEF GiveBack, Doomed, Reclaiming, Blanks
<1>1. /\ Sifted(doomed) /\ c \in Caches /\ CacheTypes'
      /\ \A ch \in doomed :
            Gathered(c, ch) /\ header[ch].owner = c /\ ch <= SmallChunks
      /\ doomed \in SUBSET Chunks
  BY GiveBackSifts DEF Doomed
<1>2. /\ \A u \in Threads \ {t} : pc'[u] = pc[u] /\ at'[u] = at[u]
      /\ pc'[t] = "idle"
  BY <1>0 DEF CallTypes
<1>3. ~ Working(t) /\ pc[t] \notin {"lock", "freeCas"}
      /\ \A u \in Threads : Working(u) => at[u] # c
  BY <1>0, WalkerIs
<1>. HIDE DEF doomed
<1>4. IdTypes' /\ CallTypes'
  <2>1. "idle" \in Steps
    BY DEF Steps
  <2>. QED
    BY <1>0, <2>1 DEF IdTypes, CallTypes
<1>5. ChunkTypes'
  <2>1. Virgin \in [owner : Caches \cup {None}, cls : Classes \cup {None},
                    chained : 0 .. Capacity]
    BY DEF Virgin
  <2>. QED
    BY <1>0, <2>1 DEF ChunkTypes
<1>6. \A b \in Blocks, u \in Threads :
         /\ Pushing(u, b)' <=> Pushing(u, b)
         /\ Pushing(u, b) => at'[u] = at[u] /\ cls'[u] = cls[u]
  BY <1>0, <1>2, <1>3 DEF Pushing
<1>7. \A b \in Blocks : b[1] \in doomed => Kept(b)
  BY <1>1, SweptIn DEF Gathered, Kept
<1>8. (Homes /\ Apart /\ Accounted /\ Headers)'
  <2>1. UNCHANGED <<bigRun, cursor, bigCursor>> /\ live' = live
    BY <1>0
  <2>. QED
    BY <1>1, <1>6, <1>7, <2>1, SiftedStep
<1>9. Owners'
  BY <1>0, <1>2, <1>3 DEF Owners, Working
<1>10. ASSUME NEW u \in Threads PROVE Fresh(u)'
  <2>1. CASE u = t
    BY <1>2, <2>1 DEF Fresh
  <2>2. CASE u # t
    <3>1. \A d \in Caches : d # c =>
             freeList'[d] = freeList[d] /\ batch'[d] = batch[d] /\ batchCls'[d] = batchCls[d]
      BY <1>0 DEF CacheTypes
    <3>2. pc'[u] = pc[u] /\ at'[u] = at[u] /\ cls'[u] = cls[u]
          /\ item'[u] = item[u] /\ rest'[u] = rest[u]
      BY <1>0, <1>2, <2>2
    <3>. QED
      BY <1>3, <2>2, <3>1, <3>2, FreshOthers
  <2>. QED
    BY <2>1, <2>2
<1>. QED
  BY <1>1, <1>4, <1>5, <1>8, <1>9, <1>10

\* A step that only moves a thread of the walk on.
LEMMA WalkOnStep ==
    ASSUME BlockInv, NEW t \in Threads, NEW s \in {"takeAll", "count"}, NEW c \in Caches,
           pc[t] = "idle" \/ Reclaiming(t),
           pc' = [pc EXCEPT ![t] = s], at' = [at EXCEPT ![t] = c],
           UNCHANGED <<setup, freeIds, slot, dead, lock, cvars, remote, header, cursor,
                       bigCursor, live, cls, item, rest, seen>>
    PROVE  BlockInv'
<1>. USE Domains DEF BlockInv, TypeOK
<1>1. /\ pc'[t] = s /\ at'[t] = c
      /\ \A u \in Threads \ {t} : pc'[u] = pc[u] /\ at'[u] = at[u]
      /\ s \in Steps
  BY DEF CallTypes, Steps
<1>2. ~ Working(t) /\ pc[t] \notin {"lock", "freeCas"}
  BY DEF Reclaiming, Working
<1>3. TypeOK'
  <2>1. IdTypes' /\ CacheTypes' /\ ChunkTypes'
    BY DEF IdTypes, CacheTypes, ChunkTypes, cvars
  <2>2. CallTypes'
    BY <1>1 DEF CallTypes
  <2>. QED
    BY <2>1, <2>2
<1>4. (Homes /\ Apart /\ Accounted /\ Headers)'
  <2>1. \A b \in Blocks, u \in Threads :
           /\ Pushing(u, b)' <=> Pushing(u, b)
           /\ Pushing(u, b) => at'[u] = at[u] /\ cls'[u] = cls[u]
    BY <1>1, <1>2 DEF Pushing
  <2>2. UNCHANGED <<freeList, batch, batchCls, remote, header, live, bigRun, cursor, bigCursor>>
    BY DEF cvars
  <2>. QED
    BY <2>1, <2>2, QuietHeap
<1>5. Owners'
  BY <1>1, <1>2 DEF Owners, Working
<1>6. ASSUME NEW u \in Threads PROVE Fresh(u)'
  <2>1. CASE u = t
    BY <1>1, <2>1 DEF Fresh
  <2>2. CASE u # t
    BY <1>1, <2>2 DEF Fresh, cvars
  <2>. QED
    BY <2>1, <2>2
<1>. QED
  BY <1>3, <1>4, <1>5, <1>6

LEMMA TakeRemotesStep ==
    ASSUME ReclaimInv, NEW t \in Threads, TakeRemotes(t)
    PROVE  BlockInv'
<1>. USE Domains DEF ReclaimInv, BlockInv, TypeOK
<1>. DEFINE c == at[t]
            k == First(todo[t])
            chain == remote[c][k]
            old == freeList[c][k]
<1>0. /\ pc[t] = "takeAll" /\ Reclaiming(t)
      /\ freeList' = [freeList EXCEPT ![c][k] = chain \o @]
      /\ remote' = [remote EXCEPT ![c][k] = <<>>]
      /\ UNCHANGED <<setup, freeIds, slot, dead, lock, bigRun, cursor, bigCursor, live,
                     cls, item, rest, seen, pc, at, batch, batchCls, header>>
  BY DEF TakeRemotes, TakeRemote, Reclaiming, Blanks
<1>1. c \in Caches /\ ~ Working(t) /\ \A u \in Threads : Working(u) => at[u] # c
  BY <1>0, WalkerIs
<1>2. k \in Classes
  <2>1. todo[t] # {} /\ todo[t] \subseteq Swept
    BY <1>0 DEF TakeRemotes, Walkers
  <2>2. Swept \subseteq Nat
    BY ReclaimAssumption DEF Swept
  <2>3. \E j \in todo[t] : \A i \in todo[t] : j <= i
    BY <2>1, <2>2, SmallestOf
  <2>. QED
    BY <2>1, <2>3, SweptIn DEF First
<1>. HIDE DEF k
<1>3. /\ chain \in Seq(Blocks) /\ old \in Seq(Blocks) /\ Once(chain) /\ Once(old)
      /\ Elems(chain) \cap Elems(old) = {}
  BY <1>1, <1>2, ListsAre DEF Apart
<1>4. /\ chain \o old \in Seq(Blocks) /\ Once(chain \o old)
      /\ Elems(chain \o old) = Elems(chain) \cup Elems(old)
  BY <1>3, CatChain
<1>5. \A d \in Caches, j \in Classes :
         /\ freeList'[d][j] = IF d = c /\ j = k THEN chain \o old ELSE freeList[d][j]
         /\ remote'[d][j] = IF d = c /\ j = k THEN <<>> ELSE remote[d][j]
  <2>1. \A d \in Caches, j \in Classes :
           remote'[d][j] = IF d = c /\ j = k THEN <<>> ELSE remote[d][j]
    BY <1>0, <1>1, <1>2 DEF CacheTypes
  <2>2. freeList' = [freeList EXCEPT ![c][k] = chain \o old]
    BY <1>0, <1>1, <1>2 DEF CacheTypes
  <2>3. \A d \in Caches, j \in Classes :
           freeList'[d][j] = IF d = c /\ j = k THEN chain \o old ELSE freeList[d][j]
    BY <1>1, <1>2, <2>2 DEF CacheTypes
  <2>. QED
    BY <2>1, <2>3
<1>. HIDE DEF chain, old
<1>6. CacheTypes'
  <2>1. <<>> \in Chain /\ chain \o old \in Chain
    BY <1>4 DEF Chain
  <2>2. remote' \in [Caches -> [Classes -> Chain]]
    BY <1>0, <2>1 DEF CacheTypes
  <2>3. freeList' = [freeList EXCEPT ![c][k] = chain \o old]
    BY <1>0, <1>1, <1>2 DEF CacheTypes, old
  <2>4. freeList' \in [Caches -> [Classes -> Chain]]
    BY <2>1, <2>3 DEF CacheTypes
  <2>. QED
    BY <1>0, <2>2, <2>4 DEF CacheTypes
<1>7. IdTypes' /\ ChunkTypes' /\ CallTypes'
  BY <1>0 DEF IdTypes, ChunkTypes, CallTypes
<1>8. /\ Homes' /\ Apart' /\ \A b \in Blocks : Kept(b)' <=> Kept(b)
  <2>0. \A d, j : Of(d, j)' = Of(d, j)
    BY <1>0 DEF Of, Carved
  <2>e. Elems(<<>>) = {} /\ Once(<<>>)
    BY EmptyChain
  <2>u. ASSUME NEW d \in Caches, NEW j \in Classes
        PROVE  Elems(freeList'[d][j]) \cup Elems(remote'[d][j])
                 = Elems(freeList[d][j]) \cup Elems(remote[d][j])
    <3>1. CASE d = c /\ j = k
      BY <1>4, <1>5, <2>e, <3>1 DEF chain, old
    <3>2. CASE ~ (d = c /\ j = k)
      BY <1>5, <3>2
    <3>. QED
      BY <3>1, <3>2
  <2>1. Homes'
    <3>. SUFFICES ASSUME NEW d \in Caches
                  PROVE  /\ Elems(batch'[d]) \subseteq Of(d, batchCls'[d])
                         /\ \A j \in Classes :
                               Elems(freeList'[d][j]) \cup Elems(remote'[d][j]) \subseteq Of(d, j)
      BY <2>0 DEF Homes
    <3>1. /\ Elems(batch[d]) \subseteq Of(d, batchCls[d])
          /\ \A j \in Classes : Elems(freeList[d][j]) \cup Elems(remote[d][j]) \subseteq Of(d, j)
      BY DEF Homes
    <3>. QED
      BY <1>0, <2>u, <3>1
  <2>2. Apart'
    <3>. SUFFICES ASSUME NEW d \in Caches, NEW j \in Classes
                  PROVE  /\ Once(batch'[d]) /\ Once(freeList'[d][j]) /\ Once(remote'[d][j])
                         /\ Elems(freeList'[d][j]) \cap Elems(remote'[d][j]) = {}
                         /\ Elems(batch'[d]) \cap
                               (Elems(freeList'[d][j]) \cup Elems(remote'[d][j])) = {}
      BY DEF Apart
    <3>1. Apart /\ batch'[d] = batch[d]
      BY <1>0
    <3>2. CASE d = c /\ j = k
      <4>1. freeList'[d][j] = chain \o old /\ remote'[d][j] = <<>>
        BY <1>5, <3>2
      <4>2. Elems(batch[d]) \cap (Elems(freeList[d][j]) \cup Elems(remote[d][j])) = {}
            /\ Once(batch[d])
        BY DEF Apart
      <4>. QED
        BY <1>4, <2>e, <2>u, <3>1, <4>1, <4>2
    <3>3. CASE ~(d = c /\ j = k)
      BY <1>5, <3>1, <3>3, ZenonT(60) DEF Apart
    <3>. QED
      BY <3>2, <3>3
  <2>3. ASSUME NEW b \in Blocks PROVE Kept(b)' <=> Kept(b)
    BY <1>0, <2>u DEF Kept
  <2>. QED
    BY <2>1, <2>2, <2>3
<1>9. Accounted'
  <2>1. \A b \in Blocks, u \in Threads : Pushing(u, b)' <=> Pushing(u, b)
    BY <1>0 DEF Pushing
  <2>. QED
    BY <1>0, <1>8, <2>1, StillAccounted
<1>10. Headers' /\ Owners'
  BY <1>0 DEF Headers, Owners, Working
<1>11. ASSUME NEW u \in Threads PROVE Fresh(u)'
  <2>1. CASE u = t
    BY <1>0, <2>1 DEF Fresh
  <2>2. CASE u # t
    <3>1. \A d \in Caches : d # c => freeList'[d] = freeList[d]
      BY <1>0 DEF CacheTypes
    <3>. QED
      BY <1>0, <1>1, <2>2, <3>1, FreshOthers
  <2>. QED
    BY <2>1, <2>2
<1>. QED
  BY <1>6, <1>7, <1>8, <1>9, <1>10, <1>11

(* What one thread's step leaves alone while another walks its cache.       *)
Acts(u) ==
    /\ ~ Reclaiming(u) /\ ~ Reclaiming(u)'
    /\ \A t \in Threads \ {u} : pc'[t] = pc[t] /\ at'[t] = at[t] /\ slot'[t] = slot[t]
    /\ \A d \in Caches : \/ Working(u) /\ d = at[u]
                         \/ slot[u] = d
                         \/ freeList'[d] = freeList[d] /\ batch'[d] = batch[d]
    /\ cursor <= cursor'
    /\ \A ch \in Chunks :
          \/ header'[ch] = header[ch]
          \/ /\ Working(u) /\ header'[ch].owner = at[u] /\ header[ch].owner \in {None, at[u]}
             /\ ch > cursor \/ ch > SmallChunks
    /\ BigRunsBig'

\* Steps that write no list, stack, header or cursor.
LEMMA QuietActs ==
    ASSUME BlockInv, BigRunsBig, NEW u \in Threads, ~ Reclaiming(u),
           UNCHANGED <<cvars, remote, header, cursor>>,
           \A t \in Threads \ {u} : pc'[t] = pc[t] /\ at'[t] = at[t] /\ slot'[t] = slot[t],
           pc'[u] \notin {"takeAll", "count"}
    PROVE  Acts(u)
<1>. USE DEF BlockInv, TypeOK, ChunkTypes
<1>1. ~ Reclaiming(u)'
  BY DEF Reclaiming
<1>2. cursor <= cursor'
  BY Domains
<1>3. BigRunsBig'
  BY DEF BigRunsBig, cvars
<1>. QED
  BY <1>1, <1>2, <1>3 DEF Acts, cvars

LEMMA SlotActs ==
    ASSUME BlockInv, BigRunsBig, NEW u \in Threads,
           \/ Attach(u) \/ Detach(u) \/ FreeRetry(u) \/ Lock(u)
           \/ PopBatch(u) \/ PopList(u) \/ PopNone(u)
           \/ \E k \in Classes : AllocOwn(u, k) \/ AllocShared(u, k)
           \/ \E b \in Blocks : FreeLoad(u, b)
    PROVE  Acts(u)
<1>. USE DEF BlockInv, TypeOK, CallTypes, IdTypes
<1>1. CASE Attach(u) \/ Detach(u)
  <2>1. /\ UNCHANGED <<cvars, remote, header, cursor>> /\ pc[u] = "idle"
        /\ UNCHANGED <<pc, at>>
        /\ \A t \in Threads \ {u} : slot'[t] = slot[t]
    BY <1>1 DEF Attach, Detach, local
  <2>. QED
    BY <2>1, QuietActs DEF Reclaiming
<1>2. CASE FreeRetry(u)
  <2>1. /\ UNCHANGED <<cvars, remote, header, cursor, pc, at, slot>> /\ pc[u] = "freeCas"
    BY <1>2 DEF FreeRetry
  <2>. QED
    BY <2>1, QuietActs DEF Reclaiming
<1>3. CASE Lock(u)
  <2>1. /\ UNCHANGED <<cvars, remote, header, cursor, at, slot>> /\ pc[u] = "lock"
        /\ pc' = [pc EXCEPT ![u] = "pop"]
    BY <1>3 DEF Lock
  <2>. QED
    BY <2>1, QuietActs DEF Reclaiming
<1>4. CASE PopBatch(u) \/ PopList(u) \/ PopNone(u)
  <2>1. /\ UNCHANGED <<cvars, remote, header, cursor, at, slot>> /\ pc[u] = "pop"
        /\ \E s \in {"takeBatch", "takeList", "refill"} : pc' = [pc EXCEPT ![u] = s]
    BY <1>4 DEF PopBatch, PopList, PopNone, Found, cvars
  <2>. QED
    BY <2>1, QuietActs DEF Reclaiming
<1>5. CASE \E k \in Classes : AllocOwn(u, k) \/ AllocShared(u, k)
  <2>1. /\ UNCHANGED <<cvars, remote, header, cursor, slot>> /\ pc[u] = "idle"
        /\ \E c : at' = [at EXCEPT ![u] = c]
        /\ \E s \in {"pop", "lock"} : pc' = [pc EXCEPT ![u] = s]
    BY <1>5 DEF AllocOwn, AllocShared, Begin
  <2>. QED
    BY <2>1, QuietActs DEF Reclaiming
<1>6. CASE \E b \in Blocks : FreeLoad(u, b)
  <2>1. /\ UNCHANGED <<cvars, remote, header, cursor, slot>> /\ pc[u] = "idle"
        /\ \E c : at' = [at EXCEPT ![u] = c]
        /\ pc' = [pc EXCEPT ![u] = "freeCas"]
    BY <1>6 DEF FreeLoad
  <2>. QED
    BY <2>1, QuietActs DEF Reclaiming
<1>. QED
  BY <1>1, <1>2, <1>3, <1>4, <1>5, <1>6

\* Steps that write the lists of the cache they work on, or of their own.
LEMMA ListActs ==
    ASSUME BlockInv, BigRunsBig, NEW u \in Threads,
           \/ PopRefill(u) \/ TakeBatch(u) \/ TakeList(u) \/ RefillRemote(u) \/ FreeCas(u)
           \/ \E b \in Blocks : FreeOwn(u, b)
    PROVE  Acts(u)
<1>. USE DEF BlockInv, TypeOK, CallTypes, IdTypes, CacheTypes
<1>0. cursor \in Nat
  BY Domains DEF ChunkTypes
<1>1. ASSUME UNCHANGED <<header, cursor, bigRun, slot>>, ~ Reclaiming(u),
             \A t \in Threads \ {u} : pc'[t] = pc[t] /\ at'[t] = at[t],
             pc'[u] \notin {"takeAll", "count"},
             \A d \in Caches : \/ Working(u) /\ d = at[u]
                               \/ slot[u] = d
                               \/ freeList'[d] = freeList[d] /\ batch'[d] = batch[d]
      PROVE  Acts(u)
  <2>1. ~ Reclaiming(u)' /\ cursor <= cursor' /\ BigRunsBig'
    BY <1>0, <1>1 DEF Reclaiming, BigRunsBig
  <2>. QED
    BY <1>1, <2>1 DEF Acts
<1>2. CASE PopRefill(u)
  <2>1. /\ UNCHANGED <<header, cursor, bigRun, slot, remote>> /\ pc[u] = "pop"
        /\ \E f : freeList' = [freeList EXCEPT ![at[u]] = f]
        /\ \E f : batch' = [batch EXCEPT ![at[u]] = f]
        /\ \E s \in {"idle", "refill"} : pc' = [pc EXCEPT ![u] = s]
        /\ at' = at \/ at' = [at EXCEPT ![u] = None]
    BY <1>2 DEF PopRefill, Idle
  <2>2. ~ Reclaiming(u) /\ Working(u) /\ pc'[u] \notin {"takeAll", "count"}
    BY <2>1 DEF Reclaiming, Working
  <2>3. \A t \in Threads \ {u} : pc'[t] = pc[t] /\ at'[t] = at[t]
    BY <2>1
  <2>4. \A d \in Caches \ {at[u]} : freeList'[d] = freeList[d] /\ batch'[d] = batch[d]
    BY <2>1
  <2>. QED
    BY <1>1, <2>1, <2>2, <2>3, <2>4
<1>3. CASE TakeBatch(u) \/ TakeList(u)
  <2>1. /\ UNCHANGED <<header, cursor, bigRun, slot, remote>>
        /\ pc[u] \in {"takeBatch", "takeList"}
        /\ freeList' = freeList \/ freeList' = [freeList EXCEPT ![at[u]][cls[u]] = rest[u]]
        /\ batch' = batch \/ batch' = [batch EXCEPT ![at[u]] = rest[u]]
        /\ pc' = [pc EXCEPT ![u] = "idle"]
        /\ at' = [at EXCEPT ![u] = None]
    BY <1>3 DEF TakeBatch, TakeList, HandOut, Idle
  <2>2. ~ Reclaiming(u) /\ Working(u) /\ pc'[u] \notin {"takeAll", "count"}
    BY <2>1 DEF Reclaiming, Working
  <2>3. \A t \in Threads \ {u} : pc'[t] = pc[t] /\ at'[t] = at[t]
    BY <2>1
  <2>4. \A d \in Caches \ {at[u]} : freeList'[d] = freeList[d] /\ batch'[d] = batch[d]
    BY <2>1
  <2>. QED
    BY <1>1, <2>1, <2>2, <2>3, <2>4
<1>4. CASE RefillRemote(u)
  <2>1. /\ UNCHANGED <<header, cursor, bigRun, slot, batch, at>> /\ pc[u] = "refill"
        /\ \/ freeList' = freeList
           \/ freeList' = [freeList EXCEPT ![at[u]][cls[u]] = remote[at[u]][cls[u]]]
        /\ remote' = [remote EXCEPT ![at[u]][cls[u]] = <<>>]
        /\ \E s \in {"pop", "grow", "growBig"} : pc' = [pc EXCEPT ![u] = s]
    BY <1>4 DEF RefillRemote, TakeRemote
  <2>2. ~ Reclaiming(u) /\ Working(u) /\ pc'[u] \notin {"takeAll", "count"}
    BY <2>1 DEF Reclaiming, Working
  <2>3. \A t \in Threads \ {u} : pc'[t] = pc[t] /\ at'[t] = at[t]
    BY <2>1
  <2>4. \A d \in Caches \ {at[u]} : freeList'[d] = freeList[d] /\ batch'[d] = batch[d]
    BY <2>1
  <2>. QED
    BY <1>1, <2>1, <2>2, <2>3, <2>4
<1>5. CASE FreeCas(u)
  <2>1. /\ UNCHANGED <<header, cursor, bigRun, slot, batch, freeList>> /\ pc[u] = "freeCas"
        /\ pc' = [pc EXCEPT ![u] = "idle"] /\ at' = [at EXCEPT ![u] = None]
    BY <1>5 DEF FreeCas, Idle, cvars
  <2>2. ~ Reclaiming(u) /\ pc'[u] \notin {"takeAll", "count"}
    BY <2>1 DEF Reclaiming
  <2>3. \A t \in Threads \ {u} : pc'[t] = pc[t] /\ at'[t] = at[t]
    BY <2>1
  <2>. QED
    BY <1>1, <2>1, <2>2, <2>3
<1>6. CASE \E b \in Blocks : FreeOwn(u, b)
  <2>1. /\ UNCHANGED <<header, cursor, bigRun, slot, remote, pc, at>> /\ pc[u] = "idle"
        /\ freeList' = freeList \/ \E k, l : freeList' = [freeList EXCEPT ![slot[u]][k] = l]
        /\ batch' = batch \/ \E l : batch' = [batch EXCEPT ![slot[u]] = l]
    BY <1>6 DEF FreeOwn, local
  <2>2. ~ Reclaiming(u) /\ pc'[u] \notin {"takeAll", "count"}
    BY <2>1 DEF Reclaiming
  <2>4. \A d \in Caches \ {slot[u]} : freeList'[d] = freeList[d] /\ batch'[d] = batch[d]
    BY <2>1
  <2>. QED
    BY <1>1, <2>1, <2>2, <2>4
<1>. QED
  BY <1>2, <1>3, <1>4, <1>5, <1>6

\* Steps that write a header: of a chunk nobody has seen, or the one in use.
LEMMA GrowActs ==
    ASSUME BlockInv, BigRunsBig, NEW u \in Threads,
           GrowBig(u) \/ GrowBigFail(u) \/ Grow(u) \/ GrowFail(u), setup \in Setups
    PROVE  Acts(u)
<1>. USE DEF BlockInv, TypeOK
<1>. DEFINE c == at[u]
            k == cls[u]
<1>0. /\ cursor \in Nat /\ bigCursor \in Nat /\ SmallChunks \in Nat /\ BigChunks \in Nat
      /\ cursor <= SmallChunks
  BY Domains DEF ChunkTypes
<1>w. Working(u) /\ ~ Reclaiming(u) /\ c \in Caches /\ k \in Classes
  BY DEF GrowBig, GrowBigFail, Grow, GrowFail, Working, Reclaiming, Owners
<1>1. ASSUME UNCHANGED <<remote, slot, batch>>,
             \A t \in Threads \ {u} : pc'[t] = pc[t] /\ at'[t] = at[t],
             pc'[u] \notin {"takeAll", "count"},
             \A d \in Caches \ {c} : freeList'[d] = freeList[d],
             cursor <= cursor', BigRunsBig',
             header' = header
               \/ \E ch \in Chunks : \E h :
                     /\ header' = [header EXCEPT ![ch] = h] /\ h.owner = c
                     /\ header[ch].owner \in {None, c}
                     /\ ch > cursor \/ ch > SmallChunks
      PROVE  Acts(u)
  <2>1. ~ Reclaiming(u)'
    BY <1>1 DEF Reclaiming
  <2>2. \A ch \in Chunks :
          \/ header'[ch] = header[ch]
          \/ /\ Working(u) /\ header'[ch].owner = at[u] /\ header[ch].owner \in {None, at[u]}
             /\ ch > cursor \/ ch > SmallChunks
    BY <1>1, <1>w DEF ChunkTypes
  <2>. QED
    BY <1>1, <1>w, <2>1, <2>2 DEF Acts
<1>b. ASSUME NEW ch, ch > SmallChunks, bigRun' = [bigRun EXCEPT ![c][k] = ch] PROVE BigRunsBig'
  BY <1>b DEF BigRunsBig, ChunkTypes
<1>f. ASSUME bigCursor < BigChunks
      PROVE  /\ SmallChunks + bigCursor + 1 \in Chunks
             /\ SmallChunks + bigCursor + 1 > SmallChunks
             /\ header[SmallChunks + bigCursor + 1].owner = None
  <2>1. SmallChunks + bigCursor + 1 \in Chunks /\ SmallChunks + bigCursor + 1 > SmallChunks
        /\ SmallChunks + bigCursor < SmallChunks + bigCursor + 1
    BY <1>0, <1>f DEF Chunks
  <2>. QED
    BY <2>1 DEF Headers, Virgin
<1>2. CASE GrowBig(u)
  <2>1. /\ UNCHANGED <<remote, slot, batch, at, cursor>>
        /\ pc' = [pc EXCEPT ![u] = "pop"] /\ pc[u] = "growBig"
        /\ \E l : freeList' = [freeList EXCEPT ![c][k] = l]
    BY <1>2 DEF GrowBig, Chained
  <2>2. PICK ch : /\ ch = IF Spending(u) = None THEN SmallChunks + bigCursor + 1 ELSE Spending(u)
                  /\ bigRun' = [bigRun EXCEPT ![c][k] = ch]
                  /\ \E last : header' = [header EXCEPT ![ch] =
                                  [owner |-> c, cls |-> k, chained |-> last]]
                  /\ Spending(u) # None \/ bigCursor < BigChunks
    BY <1>2 DEF GrowBig, Chained
  <2>3. ch \in Chunks /\ ch > SmallChunks /\ header[ch].owner \in {None, c}
    <3>1. CASE Spending(u) = None
      BY <1>f, <2>2, <3>1
    <3>2. CASE Spending(u) # None
      <4>1. ch = bigRun[c][k] /\ ch # None /\ k \in Big
        BY <1>w, <2>1, <2>2, <3>2 DEF Spending, Fresh
      <4>2. ch > SmallChunks /\ ch \in Chunks /\ header[ch].owner = c
        BY <1>w, <4>1 DEF BigRunsBig, ChunkTypes, Headers
      <4>. QED
        BY <4>2
    <3>. QED
      BY <3>1, <3>2
  <2>4. \A t \in Threads \ {u} : pc'[t] = pc[t] /\ at'[t] = at[t]
    BY <2>1 DEF CallTypes
  <2>5. pc'[u] \notin {"takeAll", "count"}
    BY <2>1 DEF CallTypes
  <2>6. \A d \in Caches \ {c} : freeList'[d] = freeList[d]
    BY <2>1 DEF CacheTypes
  <2>7. PICK h : header' = [header EXCEPT ![ch] = h] /\ h.owner = c
    <3>1. PICK last : header' = [header EXCEPT ![ch] =
                                    [owner |-> c, cls |-> k, chained |-> last]]
      BY <2>2
    <3>2. [owner |-> c, cls |-> k, chained |-> last].owner = c
      OBVIOUS
    <3>. QED
      BY <3>1, <3>2, Zenon
  <2>8. BigRunsBig' /\ cursor <= cursor'
    <3>1. bigRun' = [bigRun EXCEPT ![c][k] = ch]
      BY <2>2
    <3>2. BigRunsBig'
      BY <1>b, <2>3, <3>1, Zenon
    <3>. QED
      BY <1>0, <2>1, <3>2
  <2>. QED
    BY <1>1, <2>1, <2>3, <2>4, <2>5, <2>6, <2>7, <2>8
<1>3. CASE GrowBigFail(u)
  <2>1. /\ UNCHANGED <<remote, slot, batch, at, cursor, freeList>>
        /\ pc' = [pc EXCEPT ![u] = "grow"]
    BY <1>3 DEF GrowBigFail
  <2>2. \/ UNCHANGED <<bigRun, header>>
        \/ /\ bigCursor < BigChunks
           /\ bigRun' = [bigRun EXCEPT ![c][k] = SmallChunks + bigCursor + 1]
           /\ \E h : header' = [header EXCEPT ![SmallChunks + bigCursor + 1] = h]
                     /\ h.owner = c
    BY <1>3 DEF GrowBigFail
  <2>4. \A t \in Threads \ {u} : pc'[t] = pc[t] /\ at'[t] = at[t]
    BY <2>1 DEF CallTypes
  <2>5. pc'[u] \notin {"takeAll", "count"} /\ cursor <= cursor'
    BY <1>0, <2>1 DEF CallTypes
  <2>6. \A d \in Caches \ {c} : freeList'[d] = freeList[d]
    BY <2>1
  <2>7. CASE UNCHANGED <<bigRun, header>>
    <3>1. BigRunsBig'
      BY <2>7 DEF BigRunsBig
    <3>. QED
      BY <1>1, <2>1, <2>4, <2>5, <2>6, <2>7, <3>1
  <2>8. CASE ~ UNCHANGED <<bigRun, header>>
    <3>1. PICK ch, h : /\ ch = SmallChunks + bigCursor + 1 /\ bigCursor < BigChunks
                       /\ bigRun' = [bigRun EXCEPT ![c][k] = ch]
                       /\ header' = [header EXCEPT ![ch] = h] /\ h.owner = c
      BY <2>2, <2>8
    <3>2. ch \in Chunks /\ ch > SmallChunks /\ header[ch].owner = None
      BY <1>f, <3>1
    <3>3. BigRunsBig'
      BY <1>b, <3>1, <3>2
    <3>. QED
      BY <1>1, <2>1, <2>4, <2>5, <2>6, <3>1, <3>2, <3>3
  <2>. QED
    BY <2>7, <2>8
<1>4. CASE Grow(u)
  <2>1. /\ UNCHANGED <<remote, slot, batch, at, bigRun>>
        /\ pc' = [pc EXCEPT ![u] = "pop"]
        /\ \E l : freeList' = [freeList EXCEPT ![c][k] = l]
        /\ header' = [header EXCEPT ![cursor + 1] =
                        [owner |-> c, cls |-> k, chained |-> Capacity]]
        /\ cursor < setup.room /\ cursor' = cursor + 1
    BY <1>4 DEF Grow, Chained
  <2>2. cursor + 1 \in Chunks /\ cursor < cursor + 1 /\ cursor + 1 <= SmallChunks
    BY <1>0, <2>1, SetupRoom DEF Chunks
  <2>3. header[cursor + 1].owner = None
    BY <2>2 DEF Headers, Virgin
  <2>4. \A t \in Threads \ {u} : pc'[t] = pc[t] /\ at'[t] = at[t]
    BY <2>1 DEF CallTypes
  <2>5. pc'[u] \notin {"takeAll", "count"} /\ cursor <= cursor'
    BY <1>0, <2>1 DEF CallTypes
  <2>6. \A d \in Caches \ {c} : freeList'[d] = freeList[d]
    BY <2>1 DEF CacheTypes
  <2>7. PICK h : header' = [header EXCEPT ![cursor + 1] = h] /\ h.owner = c
    <3>1. [owner |-> c, cls |-> k, chained |-> Capacity].owner = c
      OBVIOUS
    <3>. QED
      BY <2>1, <3>1, Zenon
  <2>8. BigRunsBig' /\ cursor + 1 > cursor
    BY <1>0, <2>1 DEF BigRunsBig
  <2>. QED
    BY <1>1, <2>1, <2>2, <2>3, <2>4, <2>5, <2>6, <2>7, <2>8
<1>5. CASE GrowFail(u)
  <2>1. /\ UNCHANGED <<remote, slot, batch, freeList, bigRun, header>>
        /\ pc' = [pc EXCEPT ![u] = "idle"] /\ at' = [at EXCEPT ![u] = None]
        /\ cursor' = cursor \/ cursor' = cursor + 1
    BY <1>5 DEF GrowFail, Idle, cvars
  <2>4. \A t \in Threads \ {u} : pc'[t] = pc[t] /\ at'[t] = at[t]
    BY <2>1 DEF CallTypes
  <2>5. pc'[u] \notin {"takeAll", "count"} /\ cursor <= cursor'
    BY <1>0, <2>1 DEF CallTypes
  <2>6. BigRunsBig'
    BY <2>1 DEF BigRunsBig
  <2>. QED
    BY <1>1, <2>1, <2>4, <2>5, <2>6
<1>. QED
  BY <1>2, <1>3, <1>4, <1>5

(* A step that is not of the walk keeps what a walk has found.              *)
LEMMA ActsKeepWalk ==
    ASSUME ReclaimInv, BlockInv', NEW u \in Threads, Acts(u), UNCHANGED rvars
    PROVE  (WalkTypes /\ BigRunsBig /\ GivenGone /\ Walkers /\ Counted)'
<1>. USE DEF ReclaimInv, BlockInv, TypeOK
<1>0. todo' = todo /\ count' = count /\ given' = given /\ met' = met
  BY DEF rvars
<1>1. WalkTypes' /\ BigRunsBig'
  BY <1>0 DEF WalkTypes, Acts
<1>2. GivenGone'
  <2>. SUFFICES ASSUME NEW ch \in given
                PROVE  ch <= cursor' /\ ch <= SmallChunks /\ header'[ch] = Virgin
    BY <1>0 DEF GivenGone
  <2>1. ch <= cursor /\ ch <= SmallChunks /\ header[ch] = Virgin /\ ch \in Chunks
    BY DEF GivenGone, WalkTypes
  <2>2. ch \in Nat /\ cursor \in Nat /\ SmallChunks \in Nat
    BY <2>1, Domains DEF Chunks, ChunkTypes
  <2>3. header'[ch] = header[ch] /\ cursor <= cursor'
    BY <2>1, <2>2 DEF Acts
  <2>4. ch <= cursor'
    <3>1. cursor' \in Nat
      BY Domains DEF ChunkTypes
    <3>. QED
      BY <2>1, <2>2, <2>3, <3>1
  <2>. QED
    BY <2>1, <2>3, <2>4
<1>3. ASSUME NEW t \in Threads, Reclaiming(t) \/ Reclaiming(t)'
      PROVE  /\ t # u /\ Reclaiming(t) /\ pc'[t] = pc[t] /\ at'[t] = at[t] /\ slot'[t] = slot[t]
             /\ freeList'[at[t]] = freeList[at[t]] /\ batch'[at[t]] = batch[at[t]]
             /\ at[t] \in Caches /\ at[t] # None /\ (Working(u) => at[u] # at[t])
  <2>1. t # u
    BY <1>3 DEF Acts
  <2>2. pc'[t] = pc[t] /\ at'[t] = at[t] /\ slot'[t] = slot[t]
    BY <2>1 DEF Acts
  <2>3. Reclaiming(t)
    BY <1>3, <2>2 DEF Reclaiming
  <2>4. at[t] \in Caches /\ (Working(u) => at[u] # at[t]) /\ slot[u] # at[t]
    BY <2>1, <2>3, WalkerIs
  <2>5. at[t] # None
    BY <2>4, BlockAssumption
  <2>6. freeList'[at[t]] = freeList[at[t]] /\ batch'[at[t]] = batch[at[t]]
    BY <2>4 DEF Acts
  <2>. QED
    BY <2>1, <2>2, <2>3, <2>4, <2>5, <2>6
<1>4. Walkers'
  <2>. SUFFICES ASSUME NEW t \in Threads, Reclaiming(t)'
                PROVE  slot'[t] # None /\ at'[t] = slot'[t] /\ todo[t] \subseteq Swept
    BY <1>0 DEF Walkers
  <2>1. slot[t] # None /\ at[t] = slot[t] /\ todo[t] \subseteq Swept
    BY <1>3 DEF Walkers
  <2>. QED
    BY <1>3, <2>1
<1>5. ASSUME NEW ch \in Chunks, NEW t \in Threads
      PROVE  /\ CountedBy(ch, t)' <=> CountedBy(ch, t)
             /\ CountedBy(ch, t) => header'[ch] = header[ch]
  <2>1. CASE Reclaiming(t) \/ Reclaiming(t)'
    <3>1. /\ pc'[t] = pc[t] /\ at'[t] = at[t] /\ at[t] # None /\ (Working(u) => at[u] # at[t])
      BY <1>3, <2>1
    <3>2. \/ header'[ch] = header[ch]
          \/ /\ Working(u) /\ header'[ch].owner = at[u] /\ header[ch].owner \in {None, at[u]}
      BY DEF Acts
    <3>. QED
      BY <3>1, <3>2 DEF CountedBy
  <2>2. CASE ~ (Reclaiming(t) \/ Reclaiming(t)')
    BY <2>2 DEF Reclaiming, CountedBy
  <2>. QED
    BY <2>1, <2>2
<1>6. Counted'
  <2>. SUFFICES ASSUME NEW ch \in Chunks \ met
                PROVE  /\ \A t \in Threads : CountedBy(ch, t)' =>
                            count[ch] = In(ch, batch'[at'[t]])
                              + (IF header'[ch].cls \in Swept \ todo[t]
                                   THEN In(ch, freeList'[at'[t]][header'[ch].cls]) ELSE 0)
                       /\ (\A t \in Threads : ~ CountedBy(ch, t)') => count[ch] = 0
    BY <1>0 DEF Counted, In
  <2>1. ASSUME NEW t \in Threads, CountedBy(ch, t)'
        PROVE  count[ch] = In(ch, batch'[at'[t]])
                              + (IF header'[ch].cls \in Swept \ todo[t]
                                   THEN In(ch, freeList'[at'[t]][header'[ch].cls]) ELSE 0)
    <3>1. CountedBy(ch, t) /\ header'[ch] = header[ch] /\ Reclaiming(t)
      BY <1>5, <2>1 DEF CountedBy, Reclaiming
    <3>2. at'[t] = at[t] /\ batch'[at[t]] = batch[at[t]] /\ freeList'[at[t]] = freeList[at[t]]
      BY <1>3, <3>1
    <3>3. count[ch] = In(ch, batch[at[t]])
                           + (IF header[ch].cls \in Swept \ todo[t]
                                THEN In(ch, freeList[at[t]][header[ch].cls]) ELSE 0)
      BY <3>1 DEF Counted
    <3>. QED
      BY <3>1, <3>2, <3>3
  <2>2. (\A t \in Threads : ~ CountedBy(ch, t)') => count[ch] = 0
    BY <1>5 DEF Counted
  <2>. QED
    BY <2>1, <2>2
<1>. QED
  BY <1>1, <1>2, <1>4, <1>6

(* In the lists of a cache there are only blocks of its own chunks.         *)
LEMMA NoneIn ==
    ASSUME BlockInv, NEW d \in Caches, NEW ch \in Chunks
    PROVE  /\ In(ch, <<>>) = 0
           /\ header[ch].owner # d => In(ch, batch[d]) = 0
           /\ \A k \in Classes : header[ch].owner # d \/ header[ch].cls # k =>
                In(ch, freeList[d][k]) = 0
           /\ In(ch, batch[d]) \in Nat
           /\ \A k \in Classes : In(ch, freeList[d][k]) \in Nat /\ In(ch, remote[d][k]) \in Nat
           /\ \A k \in Classes : header[ch].owner # d => In(ch, remote[d][k]) = 0
           /\ \A k \in Classes :
                (\A b \in Elems(remote[d][k]) : b[1] # ch) => In(ch, remote[d][k]) = 0
<1>1. Cardinality({}) = 0
  BY FS_EmptySet
<1>2. In(ch, <<>>) = 0
  BY <1>1 DEF In
<1>3. ASSUME NEW s, \A b \in Elems(s) : b[1] # ch PROVE In(ch, s) = 0
  <2>1. {i \in 1 .. Len(s) : s[i][1] = ch /\ ch <= SmallChunks} = {}
    BY <1>3 DEF Elems
  <2>. QED
    BY <1>1, <2>1 DEF In
<1>4. ASSUME header[ch].owner # d PROVE In(ch, batch[d]) = 0
  <2>1. \A b \in Elems(batch[d]) : b[1] # ch
    BY <1>4 DEF BlockInv, Homes, Of
  <2>. QED
    BY <1>3, <2>1
<1>5. ASSUME NEW k \in Classes, header[ch].owner # d \/ header[ch].cls # k
      PROVE  In(ch, freeList[d][k]) = 0
  <2>1. \A b \in Elems(freeList[d][k]) : b[1] # ch
    BY <1>5 DEF BlockInv, Homes, Of
  <2>. QED
    BY <1>3, <2>1
<1>6. In(ch, batch[d]) \in Nat
  BY ListsAre, CountIs
<1>7. ASSUME NEW k \in Classes
      PROVE  In(ch, freeList[d][k]) \in Nat /\ In(ch, remote[d][k]) \in Nat
  BY ListsAre, CountIs
<1>8. ASSUME NEW k \in Classes, \A b \in Elems(remote[d][k]) : b[1] # ch
      PROVE  In(ch, remote[d][k]) = 0
  BY <1>3, <1>8
<1>9. ASSUME NEW k \in Classes, header[ch].owner # d PROVE In(ch, remote[d][k]) = 0
  <2>1. \A b \in Elems(remote[d][k]) : b[1] # ch
    BY <1>9 DEF BlockInv, Homes, Of
  <2>. QED
    BY <1>3, <2>1
<1>. QED
  BY <1>2, <1>4, <1>5, <1>6, <1>7, <1>8, <1>9

Walk == WalkTypes /\ BigRunsBig /\ GivenGone /\ Walkers /\ Counted

\* The thread that has a cache walks it alone.
LEMMA OneWalker ==
    ASSUME BlockInv, Walkers, NEW t \in Threads, NEW u \in Threads, u # t,
           Reclaiming(t), Reclaiming(u)
    PROVE  at[u] # at[t]
BY WalkerIs

\* What is to be shown of a step for its counts.
LEMMA CountedNext ==
    ASSUME \A ch \in Chunks \ met' :
              /\ \A u \in Threads : CountedBy(ch, u)' =>
                   count'[ch] = In(ch, batch'[at'[u]])
                     + (IF header'[ch].cls \in Swept \ todo'[u]
                          THEN In(ch, freeList'[at'[u]][header'[ch].cls]) ELSE 0)
              /\ (\A u \in Threads : ~ CountedBy(ch, u)') => count'[ch] = 0
    PROVE  Counted'
BY DEF Counted, In

LEMMA ReclaimStep ==
    ASSUME ReclaimInv, NEW t \in Threads, Reclaim(t)
    PROVE  BlockInv' /\ Walk'
<1>. USE DEF ReclaimInv
<1>0. /\ pc[t] = "idle" /\ slot[t] # None
      /\ pc' = [pc EXCEPT ![t] = "takeAll"] /\ at' = [at EXCEPT ![t] = slot[t]]
      /\ todo' = [todo EXCEPT ![t] = Swept]
      /\ UNCHANGED <<setup, freeIds, slot, dead, lock, cvars, remote, header, cursor,
                     bigCursor, live, cls, item, rest, seen, count, given, met>>
  BY DEF Reclaim, Blanks, cvars
<1>1. slot[t] \in Caches
  BY <1>0 DEF BlockInv, TypeOK, IdTypes, Caches
<1>2. BlockInv'
  <2>1. UNCHANGED <<setup, freeIds, slot, dead, lock, cvars, remote, header, cursor,
                    bigCursor, live, cls, item, rest, seen>>
    BY <1>0
  <2>. QED
    BY <1>0, <1>1, <2>1, WalkOnStep
<1>3. /\ pc'[t] = "takeAll" /\ at'[t] = slot[t] /\ todo'[t] = Swept
      /\ \A u \in Threads \ {t} : pc'[u] = pc[u] /\ at'[u] = at[u] /\ todo'[u] = todo[u]
  BY <1>0 DEF BlockInv, TypeOK, CallTypes, WalkTypes
<1>4. WalkTypes' /\ BigRunsBig' /\ GivenGone'
  BY <1>0, SweptIn DEF WalkTypes, BigRunsBig, GivenGone, cvars
<1>5. Walkers'
  BY <1>0, <1>3 DEF Walkers, Reclaiming
<1>6. Counted'
  <2>1. \A ch \in Chunks, u \in Threads :
           /\ CountedBy(ch, u)' <=> CountedBy(ch, u)
           /\ CountedBy(ch, u) => u # t
    BY <1>0, <1>3 DEF CountedBy
  <2>2. UNCHANGED <<batch, freeList, header, count>>
    BY <1>0 DEF cvars
  <2>. SUFFICES ASSUME NEW ch \in Chunks \ met
                PROVE  /\ \A u \in Threads : CountedBy(ch, u)' =>
                            count'[ch] = In(ch, batch'[at'[u]])
                              + (IF header'[ch].cls \in Swept \ todo'[u]
                                   THEN In(ch, freeList'[at'[u]][header'[ch].cls]) ELSE 0)
                       /\ (\A u \in Threads : ~ CountedBy(ch, u)') => count'[ch] = 0
    BY <1>0, CountedNext
  <2>3. /\ \A u \in Threads : CountedBy(ch, u) =>
              count[ch] = In(ch, batch[at[u]])
                + (IF header[ch].cls \in Swept \ todo[u]
                     THEN In(ch, freeList[at[u]][header[ch].cls]) ELSE 0)
        /\ (\A u \in Threads : ~ CountedBy(ch, u)) => count[ch] = 0
    BY DEF Counted
  <2>. QED
    BY <1>3, <2>1, <2>2, <2>3
<1>. QED
  BY <1>2, <1>4, <1>5, <1>6 DEF Walk

LEMMA TakeRemotesWalk ==
    ASSUME ReclaimInv, NEW t \in Threads, TakeRemotes(t)
    PROVE  Walk'
<1>. USE DEF ReclaimInv
<1>. DEFINE c == at[t]
            k == First(todo[t])
<1>0. /\ pc[t] = "takeAll" /\ Reclaiming(t)
      /\ \E l : freeList' = [freeList EXCEPT ![c][k] = l]
      /\ remote' = [remote EXCEPT ![c][k] = <<>>]
      /\ todo' = [todo EXCEPT ![t] = @ \ {k}]
      /\ UNCHANGED <<pc, at, slot, batch, header, bigRun, cursor, count, given, met>>
  BY DEF TakeRemotes, TakeRemote, Reclaiming, Blanks
<1>1. /\ \A d \in Caches \ {c} : freeList'[d] = freeList[d]
      /\ c \in Caches
  BY <1>0, WalkerIs DEF BlockInv, TypeOK, CacheTypes
<1>2. todo'[t] = todo[t] \ {k} /\ \A u \in Threads \ {t} : todo'[u] = todo[u]
  BY <1>0 DEF WalkTypes
<1>3. WalkTypes' /\ BigRunsBig' /\ GivenGone'
  BY <1>0 DEF WalkTypes, BigRunsBig, GivenGone
<1>4. ASSUME NEW u \in Threads, u # t, Reclaiming(u)
      PROVE  /\ at[u] \in Caches \ {c}
             /\ freeList'[at[u]] = freeList[at[u]]
  BY <1>0, <1>1, <1>4, WalkerIs
<1>5. Walkers'
  <2>. SUFFICES ASSUME NEW u \in Threads, Reclaiming(u)
                PROVE  slot[u] # None /\ at[u] = slot[u] /\ todo'[u] \subseteq Swept
    BY <1>0 DEF Walkers, Reclaiming
  <2>1. slot[u] # None /\ at[u] = slot[u] /\ todo[u] \subseteq Swept
    BY DEF Walkers
  <2>. QED
    BY <1>2, <2>1
<1>6. Counted'
  <2>1. \A ch \in Chunks, u \in Threads :
           /\ CountedBy(ch, u)' <=> CountedBy(ch, u)
           /\ CountedBy(ch, u) => u # t /\ freeList'[at[u]] = freeList[at[u]]
    BY <1>0, <1>4 DEF CountedBy, Reclaiming
  <2>2. UNCHANGED <<batch, at, header, count>>
    BY <1>0
  <2>. SUFFICES ASSUME NEW ch \in Chunks \ met
                PROVE  /\ \A u \in Threads : CountedBy(ch, u)' =>
                            count'[ch] = In(ch, batch'[at'[u]])
                              + (IF header'[ch].cls \in Swept \ todo'[u]
                                   THEN In(ch, freeList'[at'[u]][header'[ch].cls]) ELSE 0)
                       /\ (\A u \in Threads : ~ CountedBy(ch, u)') => count'[ch] = 0
    BY <1>0, CountedNext
  <2>3. /\ \A u \in Threads : CountedBy(ch, u) =>
              count[ch] = In(ch, batch[at[u]])
                + (IF header[ch].cls \in Swept \ todo[u]
                     THEN In(ch, freeList[at[u]][header[ch].cls]) ELSE 0)
        /\ (\A u \in Threads : ~ CountedBy(ch, u)) => count[ch] = 0
    BY DEF Counted
  <2>. QED
    BY <1>2, <2>1, <2>2, <2>3
<1>. QED
  BY <1>3, <1>5, <1>6 DEF Walk

\* A step that adds to the counts of a cache's chunks what it finds there.
CountsOn(t, more, left) ==
    /\ \A ch \in Chunks :
          /\ more[ch] \in Nat
          /\ header[ch].owner # at[t] => more[ch] = 0
          /\ header[ch].owner = at[t] /\ ch \notin met' =>
               count[ch] + more[ch] = In(ch, batch[at[t]])
                 + (IF header[ch].cls \in Swept \ left
                      THEN In(ch, freeList[at[t]][header[ch].cls]) ELSE 0)
    /\ count' = [ch \in Chunks |-> count[ch] + more[ch]]
    /\ left \subseteq Swept /\ todo' = [todo EXCEPT ![t] = left]
    /\ pc' = [pc EXCEPT ![t] = "count"]
    /\ UNCHANGED <<at, slot, header, freeList, batch, bigRun, cursor, given>>
    /\ met \subseteq met'

LEMMA CountOn ==
    ASSUME ReclaimInv, NEW t \in Threads, Reclaiming(t), NEW more, NEW left,
           CountsOn(t, more, left)
    PROVE  Walk'
<1>. USE DEF ReclaimInv, CountsOn
<1>0. /\ pc'[t] = "count" /\ todo'[t] = left
      /\ \A u \in Threads \ {t} : pc'[u] = pc[u] /\ todo'[u] = todo[u]
      /\ \A ch \in Chunks : count'[ch] = count[ch] + more[ch] /\ count[ch] \in Nat
  BY DEF BlockInv, TypeOK, CallTypes, WalkTypes
<1>1. WalkTypes' /\ BigRunsBig' /\ GivenGone'
  <2>1. left \in SUBSET Classes
    BY SweptIn
  <2>2. count' \in [Chunks -> Nat]
    BY <1>0
  <2>. QED
    BY <2>1, <2>2 DEF WalkTypes, BigRunsBig, GivenGone
<1>2. Walkers'
  <2>. SUFFICES ASSUME NEW u \in Threads, Reclaiming(u)'
                PROVE  slot[u] # None /\ at[u] = slot[u] /\ todo'[u] \subseteq Swept
    BY DEF Walkers
  <2>1. Reclaiming(u)
    BY <1>0 DEF Reclaiming
  <2>. QED
    BY <1>0, <2>1 DEF Walkers
<1>3. Counted'
  <2>. SUFFICES ASSUME NEW ch \in Chunks \ met'
                PROVE  /\ \A u \in Threads : CountedBy(ch, u)' =>
                            count'[ch] = In(ch, batch[at[u]])
                              + (IF header[ch].cls \in Swept \ todo'[u]
                                   THEN In(ch, freeList[at[u]][header[ch].cls]) ELSE 0)
                       /\ (\A u \in Threads : ~ CountedBy(ch, u)') => count'[ch] = 0
    BY CountedNext
  <2>1. CASE header[ch].owner = at[t]
    <3>1. ASSUME NEW u \in Threads, CountedBy(ch, u)' PROVE u = t
      <4>1. at[u] = at[t] /\ pc'[u] = "count"
        BY <2>1, <3>1 DEF CountedBy
      <4>2. u # t => Reclaiming(u)
        BY <1>0, <4>1 DEF Reclaiming
      <4>. QED
        BY <4>1, <4>2, OneWalker
    <3>2. CountedBy(ch, t)'
      BY <1>0, <2>1 DEF CountedBy
    <3>. QED
      BY <1>0, <2>1, <3>1, <3>2
  <2>2. CASE header[ch].owner # at[t]
    <3>1. ASSUME NEW u \in Threads
          PROVE  /\ CountedBy(ch, u)' <=> CountedBy(ch, u)
                 /\ CountedBy(ch, u) => todo'[u] = todo[u]
      BY <1>0, <2>2 DEF CountedBy
    <3>2. count'[ch] = count[ch]
      BY <1>0, <2>2
    <3>3. ch \in Chunks \ met
      OBVIOUS
    <3>. QED
      BY <3>1, <3>2, <3>3 DEF Counted
  <2>. QED
    BY <2>1, <2>2
<1>. QED
  BY <1>1, <1>2, <1>3 DEF Walk

LEMMA StartCountStep ==
    ASSUME ReclaimInv, NEW t \in Threads, StartCount(t)
    PROVE  BlockInv' /\ Walk'
<1>. USE DEF ReclaimInv
<1>. DEFINE c == at[t]
<1>0. /\ pc[t] = "takeAll" /\ Reclaiming(t) /\ todo[t] = {}
      /\ pc' = [pc EXCEPT ![t] = "count"] /\ at' = at
      /\ todo' = [todo EXCEPT ![t] = Swept]
      /\ count' = [ch \in Chunks |-> count[ch] + In(ch, batch[c])]
      /\ UNCHANGED <<setup, freeIds, slot, dead, lock, cvars, remote, header, cursor,
                     bigCursor, live, cls, item, rest, seen, given, met>>
  BY DEF StartCount, Blanks, Reclaiming, cvars
<1>1. c \in Caches
  BY <1>0, WalkerIs
<1>2. BlockInv'
  <2>1. UNCHANGED <<setup, freeIds, slot, dead, lock, cvars, remote, header, cursor,
                    bigCursor, live, cls, item, rest, seen>>
    BY <1>0
  <2>2. at' = [at EXCEPT ![t] = c]
    BY <1>0 DEF BlockInv, TypeOK, CallTypes
  <2>. QED
    BY <1>0, <1>1, <2>1, <2>2, WalkOnStep
<1>3. PICK more : more = [ch \in Chunks |-> In(ch, batch[c])]
  OBVIOUS
<1>4. ASSUME NEW ch \in Chunks
      PROVE  more[ch] \in Nat /\ (header[ch].owner # c => more[ch] = 0)
  BY <1>1, <1>3, NoneIn
<1>5. count' = [ch \in Chunks |-> count[ch] + more[ch]]
  BY <1>0, <1>3
<1>7. ASSUME NEW ch \in Chunks \ met, header[ch].owner = c
      PROVE  count[ch] + more[ch] = In(ch, batch[c])
               + (IF header[ch].cls \in Swept \ Swept
                    THEN In(ch, freeList[c][header[ch].cls]) ELSE 0)
  <2>1. ASSUME NEW u \in Threads, CountedBy(ch, u) PROVE FALSE
    <3>1. at[u] = c /\ Reclaiming(u) /\ u # t
      BY <1>0, <1>7, <2>1 DEF CountedBy, Reclaiming
    <3>. QED
      BY <1>0, <3>1, OneWalker
  <2>2. count[ch] = 0
    BY <2>1 DEF Counted
  <2>. QED
    BY <1>3, <1>4, <2>2
<1>8. Walk'
  <2>1. UNCHANGED <<at, slot, header, freeList, batch, bigRun, cursor, given>> /\ met' = met
    BY <1>0 DEF cvars
  <2>2. ASSUME NEW ch \in Chunks
        PROVE  /\ more[ch] \in Nat
               /\ header[ch].owner # at[t] => more[ch] = 0
               /\ header[ch].owner = at[t] /\ ch \notin met' =>
                    count[ch] + more[ch] = In(ch, batch[at[t]])
                      + (IF header[ch].cls \in Swept \ Swept
                           THEN In(ch, freeList[at[t]][header[ch].cls]) ELSE 0)
    BY <1>4, <1>7, <2>1
  <2>3. Swept \subseteq Swept /\ met \subseteq met'
    BY <2>1
  <2>4. CountsOn(t, more, Swept)
    BY <1>0, <1>5, <2>1, <2>2, <2>3, Zenon DEF CountsOn
  <2>. QED
    BY <1>0, <2>4, CountOn, Zenon
<1>. QED
  BY <1>2, <1>8

LEMMA CountStep ==
    ASSUME ReclaimInv, NEW t \in Threads, Count(t)
    PROVE  BlockInv' /\ Walk'
<1>. USE DEF ReclaimInv
<1>. DEFINE c == at[t]
            k == First(todo[t])
            left == todo[t] \ {k}
<1>0. /\ pc[t] = "count" /\ Reclaiming(t) /\ todo[t] # {}
      /\ at' = at /\ pc' = pc
      /\ todo' = [todo EXCEPT ![t] = left]
      /\ count' = [ch \in Chunks |-> count[ch] + In(ch, freeList[c][k]) + In(ch, remote[c][k])]
      /\ met' = met \cup {b[1] : b \in Elems(remote[c][k])}
      /\ UNCHANGED <<setup, freeIds, slot, dead, lock, cvars, remote, header, cursor,
                     bigCursor, live, cls, item, rest, seen, given>>
  BY DEF Count, Blanks, Reclaiming, cvars
<1>1. c \in Caches /\ todo[t] \subseteq Swept
  BY <1>0, WalkerIs DEF Walkers
<1>2. pc' = [pc EXCEPT ![t] = "count"] /\ at' = [at EXCEPT ![t] = c]
  BY <1>0 DEF BlockInv, TypeOK, CallTypes
<1>3. BlockInv'
  <2>1. UNCHANGED <<setup, freeIds, slot, dead, lock, cvars, remote, header, cursor,
                    bigCursor, live, cls, item, rest, seen>>
    BY <1>0
  <2>. QED
    BY <1>0, <1>1, <1>2, <2>1, WalkOnStep
<1>4. k \in todo[t] /\ k \in Swept /\ k \in Classes
  <2>1. Swept \subseteq Nat
    BY ReclaimAssumption DEF Swept
  <2>2. \E m \in todo[t] : \A n \in todo[t] : m <= n
    BY <1>0, <1>1, <2>1, SmallestOf
  <2>. QED
    BY <1>1, <2>2, SweptIn DEF First
<1>. HIDE DEF k
<1>6. PICK more : more = [ch \in Chunks |-> In(ch, freeList[c][k]) + In(ch, remote[c][k])]
  OBVIOUS
<1>7. ASSUME NEW ch \in Chunks
      PROVE  /\ more[ch] = In(ch, freeList[c][k]) + In(ch, remote[c][k])
             /\ more[ch] \in Nat /\ (header[ch].owner # c => more[ch] = 0)
  <2>1. PICK m \in Nat, n \in Nat : m = In(ch, freeList[c][k]) /\ n = In(ch, remote[c][k])
    BY <1>1, <1>4, NoneIn
  <2>2. header[ch].owner # c => m = 0 /\ n = 0
    BY <1>1, <1>4, <2>1, NoneIn
  <2>3. more[ch] = m + n
    BY <1>6, <2>1
  <2>. QED
    BY <2>1, <2>2, <2>3
<1>5. ASSUME NEW ch \in Chunks \ met' PROVE more[ch] = In(ch, freeList[c][k])
  <2>1. \A b \in Elems(remote[c][k]) : b[1] # ch
    BY <1>0
  <2>2. In(ch, remote[c][k]) = 0
    BY <1>1, <1>4, <2>1, NoneIn
  <2>3. PICK m \in Nat : m = In(ch, freeList[c][k])
    BY <1>1, <1>4, NoneIn
  <2>. QED
    BY <1>7, <2>2, <2>3
<1>8. count' = [ch \in Chunks |-> count[ch] + more[ch]]
  <2>1. ASSUME NEW ch \in Chunks
        PROVE  count[ch] + In(ch, freeList[c][k]) + In(ch, remote[c][k]) = count[ch] + more[ch]
    <3>1. PICK m \in Nat, n \in Nat : m = In(ch, freeList[c][k]) /\ n = In(ch, remote[c][k])
      BY <1>1, <1>4, NoneIn
    <3>2. PICK l \in Nat : l = count[ch]
      BY DEF WalkTypes
    <3>3. more[ch] = m + n
      BY <1>6, <3>1
    <3>. QED
      BY <3>1, <3>2, <3>3
  <2>. QED
    BY <1>0, <2>1
<1>9. ASSUME NEW ch \in Chunks \ met', header[ch].owner = c
      PROVE  count[ch] + more[ch] = In(ch, batch[c])
               + (IF header[ch].cls \in Swept \ left
                    THEN In(ch, freeList[c][header[ch].cls]) ELSE 0)
  <2>1. count[ch] = In(ch, batch[c])
                     + (IF header[ch].cls \in Swept \ todo[t]
                          THEN In(ch, freeList[c][header[ch].cls]) ELSE 0)
    <3>1. ch \in Chunks \ met
      BY <1>0, <1>9
    <3>. QED
      BY <1>0, <1>9, <3>1 DEF Counted, CountedBy
  <2>2. PICK m \in Nat, n \in Nat : m = In(ch, batch[c]) /\ n = In(ch, freeList[c][k])
    BY <1>1, <1>4, NoneIn
  <2>3. CASE header[ch].cls = k
    <3>1. header[ch].cls \notin Swept \ todo[t] /\ header[ch].cls \in Swept \ left
      BY <1>4, <2>3
    <3>2. count[ch] = m + 0 /\ more[ch] = n
      BY <1>5, <1>9, <2>1, <2>2, <3>1
    <3>. QED
      BY <2>2, <2>3, <3>1, <3>2
  <2>4. CASE header[ch].cls # k
    <3>1. header[ch].cls \in Swept \ left <=> header[ch].cls \in Swept \ todo[t]
      BY <2>4
    <3>2. more[ch] = 0 /\ count[ch] \in Nat
      BY <1>1, <1>4, <1>5, <1>9, <2>4, NoneIn DEF WalkTypes
    <3>. QED
      BY <2>1, <3>1, <3>2
  <2>. QED
    BY <2>3, <2>4
<1>10. Walk'
  <2>1. UNCHANGED <<at, slot, header, freeList, batch, bigRun, cursor, given>>
    BY <1>0 DEF cvars
  <2>2. left \subseteq Swept /\ met \subseteq met'
    BY <1>0, <1>1
  <2>. HIDE DEF left
  <2>3. ASSUME NEW ch \in Chunks
        PROVE  /\ more[ch] \in Nat
               /\ header[ch].owner # at[t] => more[ch] = 0
               /\ header[ch].owner = at[t] /\ ch \notin met' =>
                    count[ch] + more[ch] = In(ch, batch[at[t]])
                      + (IF header[ch].cls \in Swept \ left
                           THEN In(ch, freeList[at[t]][header[ch].cls]) ELSE 0)
    BY <1>7, <1>9
  <2>4. CountsOn(t, more, left)
    BY <1>0, <1>2, <1>8, <2>1, <2>2, <2>3, Zenon DEF CountsOn
  <2>. QED
    BY <1>0, <2>4, CountOn, Zenon
<1>. QED
  BY <1>3, <1>10

LEMMA GiveBackWalk ==
    ASSUME ReclaimInv, NEW t \in Threads, GiveBack(t), ~ torn'
    PROVE  Walk'
<1>. USE DEF ReclaimInv
<1>. DEFINE c == at[t]
            doomed == Doomed(c)
<1>0. /\ pc[t] = "count" /\ Reclaiming(t)
      /\ header' = [ch \in Chunks |-> IF ch \in doomed THEN Virgin ELSE header[ch]]
      /\ \E l : freeList' = [freeList EXCEPT ![c] = l]
      /\ \E l : batch' = [batch EXCEPT ![c] = l]
      /\ given' = given \cup doomed
      /\ count' = [ch \in Chunks |-> IF header[ch].owner = c THEN 0 ELSE count[ch]]
      /\ met' = {ch \in met : header[ch].owner # c}
      /\ pc' = [pc EXCEPT ![t] = "idle"] /\ at' = [at EXCEPT ![t] = None]
      /\ UNCHANGED <<slot, bigRun, cursor, remote, todo>>
  BY DEF GiveBack, Doomed, Reclaiming, Blanks
<1>1. /\ c \in Caches /\ doomed \in SUBSET Chunks
      /\ \A ch \in doomed : header[ch].owner = c /\ ch <= SmallChunks
  BY GiveBackSifts DEF Doomed
<1>. HIDE DEF doomed
<1>2. /\ pc'[t] = "idle"
      /\ \A u \in Threads \ {t} : pc'[u] = pc[u] /\ at'[u] = at[u]
      /\ \A d \in Caches \ {c} : freeList'[d] = freeList[d] /\ batch'[d] = batch[d]
      /\ \A ch \in Chunks : /\ header'[ch] = IF ch \in doomed THEN Virgin ELSE header[ch]
                            /\ count'[ch] = IF header[ch].owner = c THEN 0 ELSE count[ch]
  BY <1>0 DEF BlockInv, TypeOK, CallTypes, CacheTypes
<1>3. c # None /\ Virgin.owner = None
  BY <1>1, BlockAssumption DEF Virgin
<1>4. WalkTypes' /\ BigRunsBig'
  <2>1. count' \in [Chunks -> Nat]
    BY <1>0 DEF WalkTypes
  <2>. QED
    BY <1>0, <1>1, <2>1 DEF WalkTypes, BigRunsBig
<1>5. GivenGone'
  <2>. SUFFICES ASSUME NEW ch \in given \cup doomed
                PROVE  ch <= cursor /\ ch <= SmallChunks /\ header'[ch] = Virgin
    BY <1>0 DEF GivenGone
  <2>1. CASE ch \in doomed
    <3>1. ch \in Chunks /\ header[ch] # Virgin /\ ch <= SmallChunks
      BY <1>1, <1>3, <2>1
    <3>2. ~ (cursor < ch)
      BY <3>1 DEF BlockInv, Headers
    <3>3. ch \in Nat /\ cursor \in Nat
      BY <3>1, Domains DEF Chunks, BlockInv, TypeOK, ChunkTypes
    <3>. QED
      BY <1>2, <2>1, <3>1, <3>2, <3>3
  <2>2. CASE ch \notin doomed
    BY <1>2, <2>2 DEF GivenGone, WalkTypes
  <2>. QED
    BY <2>1, <2>2
<1>6. ASSUME NEW u \in Threads, u # t, Reclaiming(u)
      PROVE  at[u] # c /\ at[u] \in Caches /\ at[u] # None
  BY <1>0, <1>6, OneWalker, WalkerIs, BlockAssumption
<1>7. Walkers'
  BY <1>0, <1>2 DEF Walkers, Reclaiming
<1>8. Counted'
  <2>. SUFFICES ASSUME NEW ch \in Chunks \ met'
                PROVE  /\ \A u \in Threads : CountedBy(ch, u)' =>
                            count'[ch] = In(ch, batch'[at'[u]])
                              + (IF header'[ch].cls \in Swept \ todo[u]
                                   THEN In(ch, freeList'[at'[u]][header'[ch].cls]) ELSE 0)
                       /\ (\A u \in Threads : ~ CountedBy(ch, u)') => count'[ch] = 0
    BY <1>0, CountedNext
  <2>1. ASSUME NEW u \in Threads, CountedBy(ch, u)'
        PROVE  count'[ch] = In(ch, batch'[at'[u]])
                              + (IF header'[ch].cls \in Swept \ todo[u]
                                   THEN In(ch, freeList'[at'[u]][header'[ch].cls]) ELSE 0)
    <3>1. u # t /\ pc[u] = "count" /\ at'[u] = at[u] /\ header'[ch].owner = at[u]
      BY <1>2, <2>1 DEF CountedBy
    <3>2. at[u] # c /\ at[u] \in Caches /\ at[u] # None
      BY <1>6, <3>1 DEF Reclaiming
    <3>3. header'[ch] = header[ch] /\ header[ch].owner # c
      BY <1>2, <1>3, <3>1, <3>2
    <3>6. ch \in Chunks \ met
      BY <1>0, <3>3
    <3>4. CountedBy(ch, u) /\ count'[ch] = count[ch]
      BY <1>2, <3>1, <3>3 DEF CountedBy
    <3>5. batch'[at[u]] = batch[at[u]] /\ freeList'[at[u]] = freeList[at[u]]
      BY <1>2, <3>2
    <3>. QED
      BY <3>1, <3>3, <3>4, <3>5, <3>6 DEF Counted
  <2>2. ASSUME \A u \in Threads : ~ CountedBy(ch, u)' PROVE count'[ch] = 0
    <3>1. CASE header[ch].owner = c
      BY <1>2, <3>1
    <3>2. CASE header[ch].owner # c
      <4>1. header'[ch] = header[ch]
        BY <1>1, <1>2, <3>2
      <4>2. ASSUME NEW u \in Threads PROVE ~ CountedBy(ch, u)
        BY <1>2, <2>2, <3>2, <4>1 DEF CountedBy
      <4>3. ch \in Chunks \ met
        BY <1>0, <3>2
      <4>. QED
        BY <1>2, <3>2, <4>2, <4>3 DEF Counted
    <3>. QED
      BY <3>1, <3>2
  <2>. QED
    BY <2>1, <2>2
<1>. QED
  BY <1>4, <1>5, <1>7, <1>8 DEF Walk

LEMMA InitReclaims == RInit => ReclaimInv
<1>. SUFFICES ASSUME RInit PROVE ReclaimInv
  OBVIOUS
<1>1. BlockInv /\ \A t \in Threads : pc[t] = "idle"
  BY InitBlocks DEF RInit, Init
<1>2. ~ \E t \in Threads : Reclaiming(t)
  BY <1>1 DEF Reclaiming
<1>3. WalkTypes
  BY DEF WalkTypes, RInit
<1>4. BigRunsBig /\ GivenGone
  BY DEF BigRunsBig, GivenGone, RInit, Init
<1>5. Walkers
  BY <1>2 DEF Walkers
<1>6. Counted
  BY <1>1 DEF Counted, CountedBy, RInit
<1>. QED
  BY <1>1, <1>3, <1>4, <1>5, <1>6 DEF ReclaimInv

(* A step of the caches.                                                    *)
Serving(u) ==
    \/ Attach(u) \/ Detach(u)
    \/ \E k \in setup.asks : AllocOwn(u, k) \/ AllocShared(u, k)
    \/ Alloc(u)
    \/ \E b \in Blocks : FreeOwn(u, b) \/ FreeLoad(u, b)
    \/ Free(u)

LEMMA ServingActs ==
    ASSUME ReclaimInv, NEW u \in Threads, Serving(u)
    PROVE  Acts(u)
<1>1. setup \in Setups /\ setup.asks \subseteq Classes
  BY BlockAssumption DEF ReclaimInv, BlockInv, TypeOK, IdTypes
<1>2. CASE \/ Attach(u) \/ Detach(u) \/ FreeRetry(u) \/ Lock(u)
           \/ PopBatch(u) \/ PopList(u) \/ PopNone(u)
           \/ \E k \in setup.asks : AllocOwn(u, k) \/ AllocShared(u, k)
           \/ \E b \in Blocks : FreeLoad(u, b)
  BY <1>1, <1>2, SlotActs DEF ReclaimInv
<1>3. CASE \/ PopRefill(u) \/ TakeBatch(u) \/ TakeList(u) \/ RefillRemote(u) \/ FreeCas(u)
           \/ \E b \in Blocks : FreeOwn(u, b)
  BY <1>3, ListActs DEF ReclaimInv
<1>4. CASE GrowBig(u) \/ GrowBigFail(u) \/ Grow(u) \/ GrowFail(u)
  BY <1>1, <1>4, GrowActs DEF ReclaimInv
<1>. QED
  BY <1>2, <1>3, <1>4 DEF Serving, Alloc, Free

LEMMA StillWalk ==
    ASSUME ReclaimInv, UNCHANGED <<vars, rvars>>
    PROVE  ReclaimInv'
<1>. USE DEF ReclaimInv
<1>1. BlockInv'
  BY BlockStep
<1>2. /\ UNCHANGED <<pc, at, slot, todo, count, given, met, remote, cursor, bigRun, header>>
      /\ freeList' = freeList /\ batch' = batch
  BY DEF vars, rvars, cvars, local
<1>3. WalkTypes' /\ BigRunsBig' /\ GivenGone' /\ Walkers'
  BY <1>2 DEF WalkTypes, BigRunsBig, GivenGone, Walkers, Reclaiming
<1>4. Counted'
  <2>1. \A ch \in Chunks, u \in Threads : CountedBy(ch, u)' <=> CountedBy(ch, u)
    BY <1>2 DEF CountedBy
  <2>. QED
    BY <1>2, <2>1, CountedNext DEF Counted
<1>. QED
  BY <1>1, <1>3, <1>4

LEMMA RNextIs ==
    ASSUME RNext
    PROVE  /\ ~ torn
           /\ \E t \in Threads :
                 \/ Serving(t) /\ Next /\ UNCHANGED rvars
                 \/ Reclaim(t) \/ TakeRemotes(t) \/ StartCount(t) \/ Count(t) \/ GiveBack(t)
BY DEF RNext, Serving, Next

LEMMA ReclaimInvStep ==
    ASSUME ReclaimInv, [RNext]_<<vars, rvars>>, ~ torn'
    PROVE  ReclaimInv'
<1>1. CASE UNCHANGED <<vars, rvars>>
  BY <1>1, StillWalk
<1>2. CASE RNext
  <2>1. PICK t \in Threads :
           \/ Serving(t) /\ Next /\ UNCHANGED rvars
           \/ Reclaim(t) \/ TakeRemotes(t) \/ StartCount(t) \/ Count(t) \/ GiveBack(t)
    BY <1>2, RNextIs
  <2>2. CASE Serving(t) /\ Next /\ UNCHANGED rvars
    <3>1. BlockInv'
      BY <2>2, BlockStep DEF ReclaimInv
    <3>2. (WalkTypes /\ BigRunsBig /\ GivenGone /\ Walkers /\ Counted)'
      BY <2>2, <3>1, ServingActs, ActsKeepWalk
    <3>. QED
      BY <3>1, <3>2 DEF ReclaimInv
  <2>3. CASE Reclaim(t)
    BY <2>3, ReclaimStep DEF ReclaimInv, Walk
  <2>4. CASE TakeRemotes(t)
    BY <2>4, TakeRemotesStep, TakeRemotesWalk DEF ReclaimInv, Walk
  <2>5. CASE StartCount(t)
    BY <2>5, StartCountStep DEF ReclaimInv, Walk
  <2>6. CASE Count(t)
    BY <2>6, CountStep DEF ReclaimInv, Walk
  <2>7. CASE GiveBack(t)
    BY <2>7, GiveBackStep, GiveBackWalk DEF ReclaimInv, Walk
  <2>. QED
    BY <2>1, <2>2, <2>3, <2>4, <2>5, <2>6, <2>7
<1>. QED
  BY <1>1, <1>2

\* While no chunk has been torn from a stack, what a walk has counted of a chunk
\* is what its thread's batch and lists hold of it, whoever frees meanwhile, and
\* the rules of the caches hold (host_chunk_reclaim).
THEOREM ReclaimInvariant == RSpec => [](torn \/ ReclaimInv)
<1>1. (torn \/ ReclaimInv) /\ [RNext]_<<vars, rvars>> => (torn \/ ReclaimInv)'
  <2>1. torn /\ [RNext]_<<vars, rvars>> => torn'
    BY RNextIs DEF rvars
  <2>. QED
    BY <2>1, ReclaimInvStep
<1>2. RInit => torn \/ ReclaimInv
  BY InitReclaims
<1>. QED
  BY <1>1, <1>2, PTL DEF RSpec

LEMMA GivenIsEmpty == ReclaimInv => GivenHoldNothing
<1>. SUFFICES ASSUME ReclaimInv, NEW b \in Blocks, b[1] \in given PROVE Places(b) = {}
  BY DEF GivenHoldNothing
<1>1. header[b[1]] = Virgin
  BY DEF ReclaimInv, GivenGone
<1>2. b[2] \in 1 .. Capacity
  BY DEF Blocks
<1>3. b \notin Carved
  BY <1>1, <1>2, Domains DEF Carved, Virgin
<1>. QED
  BY <1>3, PlacedOnce DEF ReclaimInv, OnePlace

\* A chunk given back to the span pool holds nothing, whoever frees during the
\* walk: no block of it is with the program, in a list, in a batch, on a stack or
\* on its way to one, unless the walk counted one of its blocks on a stack it had
\* emptied (host_chunk_reclaim, scan_walk).
THEOREM GivenAreEmpty == RSpec => []GivenUntilTorn
<1>1. torn \/ ReclaimInv => GivenUntilTorn
  BY GivenIsEmpty DEF GivenUntilTorn
<1>. QED
  BY <1>1, ReclaimInvariant, PTL

\* Chunks go back without a trace while other threads free: but for that one way,
\* every block left has one place and is under its chunk's header.
THEOREM WalksKeepRules == RSpec => [](PlacesUntilTorn /\ HeadersUntilTorn)
<1>1. torn \/ ReclaimInv => PlacesUntilTorn /\ HeadersUntilTorn
  BY PlacedOnce, HomesRule DEF ReclaimInv, BlockInv, PlacesUntilTorn, HeadersUntilTorn
<1>. QED
  BY <1>1, ReclaimInvariant, PTL

(* Nobody walks the shared cache.                                           *)
Pausing ==
    \A t \in Threads :
        /\ pc[t] = "idle" => at[t] = None
        /\ pc[t] \in {"idle", "lock", "freeCas"} \/ Working(t) \/ Reclaiming(t)

LEMMA PausingStep ==
    ASSUME TypeOK, Pausing, [RNext]_<<vars, rvars>>
    PROVE  Pausing'
<1>. USE Domains DEF Pausing, Working, Reclaiming, TypeOK, CallTypes
<1>1. CASE UNCHANGED <<vars, rvars>>
  BY <1>1 DEF vars, local
<1>2. CASE Next
  BY <1>2, SomeoneSent DEF Sent
<1>3. CASE \E t \in Threads :
              Reclaim(t) \/ TakeRemotes(t) \/ StartCount(t) \/ Count(t) \/ GiveBack(t)
  <2>1. PICK t \in Threads :
           Reclaim(t) \/ TakeRemotes(t) \/ StartCount(t) \/ Count(t) \/ GiveBack(t)
    BY <1>3
  <2>2. \/ /\ \E s \in {"takeAll", "count"} : pc' = [pc EXCEPT ![t] = s]
           /\ \E c : at' = [at EXCEPT ![t] = c]
        \/ UNCHANGED <<pc, at>>
        \/ /\ pc' = [pc EXCEPT ![t] = "idle"] /\ at' = [at EXCEPT ![t] = None]
    <3>0. at = [at EXCEPT ![t] = at[t]]
      OBVIOUS
    <3>. QED
      BY <2>1, <3>0 DEF Reclaim, TakeRemotes, StartCount, Count, GiveBack
  <2>. QED
    BY <2>2
<1>4. RNext => Next \/ \E t \in Threads :
              Reclaim(t) \/ TakeRemotes(t) \/ StartCount(t) \/ Count(t) \/ GiveBack(t)
  BY RNextIs
<1>. QED
  BY <1>1, <1>2, <1>3, <1>4

\* Whoever works on the shared cache holds g_shared_lock, also while chunks go
\* back, torn or not: a thread walks only the cache it is attached to.
THEOREM WalksKeepShared == RSpec => []SharedIsLocked
<1>1. RInit => Pausing /\ SharedIsLocked
  BY BlockAssumption DEF RInit, Init, Pausing, SharedIsLocked, Caches
<1>2. ReclaimInv /\ Pausing => SharedIsLocked
  BY Domains, WalkerIs DEF ReclaimInv, BlockInv, Owners, Pausing, SharedIsLocked
<1>3. ReclaimInv /\ Pausing /\ [RNext]_<<vars, rvars>> => Pausing'
  BY PausingStep DEF ReclaimInv, BlockInv
<1>4. (torn \/ ReclaimInv) /\ Pausing /\ SharedIsLocked /\ [RNext]_<<vars, rvars>>
        => Pausing' /\ (torn' => SharedIsLocked')
  <2>. SUFFICES ASSUME torn \/ ReclaimInv, Pausing, SharedIsLocked, [RNext]_<<vars, rvars>>
                PROVE  Pausing' /\ (torn' => SharedIsLocked')
    OBVIOUS
  <2>1. CASE UNCHANGED <<vars, rvars>>
    BY <2>1 DEF vars, local, Pausing, SharedIsLocked, Working, Reclaiming
  <2>2. CASE RNext /\ ~ torn'
    BY <1>3, <2>2, RNextIs
  <2>3. CASE RNext /\ torn'
    <3>1. ReclaimInv /\ Pausing'
      BY <1>3, <2>3, RNextIs
    <3>2. PICK t \in Threads : GiveBack(t)
      BY <2>3, RNextIs DEF rvars, Reclaim, TakeRemotes, StartCount, Count
    <3>3. /\ pc' = [pc EXCEPT ![t] = "idle"] /\ at' = [at EXCEPT ![t] = None] /\ lock' = lock
          /\ at \in [Threads -> Caches \cup {None}] /\ pc \in [Threads -> Steps]
      BY <3>1, <3>2 DEF GiveBack, Blanks, ReclaimInv, BlockInv, TypeOK, CallTypes
    <3>4. SharedIsLocked'
      BY <3>3, Domains DEF SharedIsLocked
    <3>. QED
      BY <3>1, <3>4
  <2>. QED
    BY <2>1, <2>2, <2>3
<1>. QED
  BY <1>1, <1>2, <1>4, ReclaimInvariant, PTL DEF RSpec

LEMMA ReclaimHeapStep ==
    ASSUME ReclaimInv, [RNext]_<<vars, rvars>>, ~ torn'
    PROVE  [Heap!Next]_<<live, Sizes>>
<1>. USE DEF ReclaimInv
<1>0. UNCHANGED <<live, header>> => [Heap!Next]_<<live, Sizes>>
  BY DEF Sizes
<1>1. CASE UNCHANGED <<vars, rvars>>
  BY <1>0, <1>1 DEF vars
<1>2. CASE RNext
  <2>1. PICK t \in Threads :
           \/ Serving(t) /\ Next /\ UNCHANGED rvars
           \/ Reclaim(t) \/ TakeRemotes(t) \/ StartCount(t) \/ Count(t) \/ GiveBack(t)
    BY <1>2, RNextIs
  <2>2. CASE Next
    BY <2>2, HeapStep
  <2>3. CASE Reclaim(t) \/ TakeRemotes(t) \/ StartCount(t) \/ Count(t)
    BY <1>0, <2>3 DEF Reclaim, TakeRemotes, StartCount, Count, Blanks
  <2>4. CASE GiveBack(t)
    <3>. DEFINE c == at[t]
                doomed == Doomed(c)
    <3>1. /\ live' = live
          /\ header' = [ch \in Chunks |-> IF ch \in doomed THEN Virgin ELSE header[ch]]
      BY <2>4 DEF GiveBack, Doomed, Blanks
    <3>2. /\ c \in Caches /\ doomed \in SUBSET Chunks
          /\ \A ch \in doomed : Gathered(c, ch)
      BY <2>4, GiveBackSifts DEF Doomed
    <3>. HIDE DEF doomed
    <3>3. ASSUME NEW b \in Blocks, b[1] \in doomed PROVE live[b] = 0
      <4>1. Kept(b)
        BY <3>2, <3>3, SweptIn DEF Gathered, Kept
      <4>. QED
        BY <4>1 DEF BlockInv, Accounted
    <3>4. /\ UNCHANGED live /\ \A b \in Blocks : b[1] \in doomed => live[b] = 0
          /\ [ch \in Chunks |-> header[ch].cls]' =
               [ch \in Chunks |-> IF ch \in doomed THEN None
                                  ELSE [g \in Chunks |-> header[g].cls][ch]]
      BY <3>1, <3>3 DEF Virgin
    <3>5. \E gone \in SUBSET Chunks :
             /\ UNCHANGED live /\ \A b \in Blocks : b[1] \in gone => live[b] = 0
             /\ [ch \in Chunks |-> header[ch].cls]' =
                  [ch \in Chunks |-> IF ch \in gone THEN None
                                     ELSE [g \in Chunks |-> header[g].cls][ch]]
      BY <3>2, <3>4
    <3>6. \E gone \in SUBSET Chunks : Heap!LetGo(gone)
      BY <3>5 DEF Heap!LetGo
    <3>. QED
      BY <3>6 DEF Heap!Next
  <2>. QED
    BY <2>1, <2>2, <2>3, <2>4
<1>. QED
  BY <1>1, <1>2

\* With the walk too the caches serve as BlockHeap says, until a chunk is torn:
\* the chunks given are let go of while the program has no block of them.
THEOREM WalksImplement == RSpec => HeapUntilTorn
<1>1. RInit => Heap!Init
  <2>1. ASSUME Init PROVE [ch \in Chunks |-> header[ch].cls] = [ch \in Chunks |-> None]
    BY <2>1 DEF Init, Virgin
  <2>. QED
    BY <2>1 DEF RInit, Init, Heap!Init
<1>2. (torn \/ ReclaimInv) /\ [RNext]_<<vars, rvars>>
        => [torn' \/ Heap!Next]_<<live, [ch \in Chunks |-> header[ch].cls]>>
  <2>. SUFFICES ASSUME torn \/ ReclaimInv, [RNext]_<<vars, rvars>>
                PROVE  [torn' \/ Heap!Next]_<<live, [ch \in Chunks |-> header[ch].cls]>>
    OBVIOUS
  <2>1. torn => torn'
    BY RNextIs DEF rvars
  <2>2. ~ torn' => [Heap!Next]_<<live, [ch \in Chunks |-> header[ch].cls]>>
    BY <2>1, ReclaimHeapStep DEF Sizes
  <2>. QED
    BY <2>2
<1>. QED
  BY <1>1, <1>2, ReclaimInvariant, PTL DEF RSpec, HeapUntilTorn

=============================================================================
