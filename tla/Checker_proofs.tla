---------------------------- MODULE Checker_proofs ----------------------------
(***************************************************************************)
(* Proofs about Checker, for any number of threads and units, any classes,  *)
(* requests, canaries and levels: what the shadow says is true, no block is *)
(* in two places, what is called proven has a cause, and misuse is told.    *)
(***************************************************************************)
EXTENDS Checker, TLAPS, FiniteSetTheorems

(* What the constants are.                                                  *)
LEMMA Bounds ==
    /\ ChunkUnits \in Nat /\ Units = 1 .. ChunkUnits
    /\ Sizes \subseteq Units /\ Requests \subseteq Units /\ None \notin Units
    /\ CanaryUnits \in Nat /\ CanaryUnits > 0 /\ PoisonUnits \in Nat
BY CheckerAssumption DEF Units

LEMMA RequestIs == \A n \in Requests : n \in Nat /\ n >= 1 /\ n <= ChunkUnits
<1>1. Requests \subseteq 1 .. ChunkUnits /\ ChunkUnits \in Nat
  BY Bounds
<1>. QED
  BY <1>1

LEMMA SetupIs ==
    ASSUME setup \in Setups
    PROVE  setup.callers \subseteq Threads /\ setup.wrongs \in Nat
BY CheckerAssumption

(* A set of naturals that is not empty has a least element.                 *)
LEMMA Least ==
    ASSUME NEW T, T \subseteq Nat, T # {}
    PROVE  \E m \in T : \A n \in T : m <= n
<1>1. PICK m \in T : \A n \in T : <<n, m>> \notin OpToRel(<, Nat)
  BY NatLessThanWellFounded, WFMin
<1>2. ASSUME NEW n \in T PROVE m <= n
  <2>1. m \in Nat /\ n \in Nat
    OBVIOUS
  <2>2. ~(n < m)
    BY <1>1, <2>1, Zenon DEF OpToRel
  <2>. QED
    BY <2>1, <2>2
<1>. QED
  BY <1>2

(* The class of a request has room for it.                                  *)
LEMMA ClassHasRoom ==
    ASSUME NEW n \in Nat, Served(n)
    PROVE  ClassOf(n) \in Sizes /\ n <= ClassOf(n)
<1>. DEFINE T == {s \in Sizes : s >= n}
<1>1. T \subseteq Nat /\ T # {}
  <2>1. PICK s \in Sizes : s >= n
    BY DEF Served
  <2>2. Sizes \subseteq Nat
    BY Bounds
  <2>. QED
    BY <2>1, <2>2
<1>2. PICK m \in T : \A r \in T : m <= r
  BY <1>1, Least
<1>3. m \in Sizes /\ m >= n /\ \A r \in Sizes : r >= n => m <= r
  BY <1>2
<1>4. ClassOf(n) \in Sizes /\ ClassOf(n) >= n
  BY <1>3 DEF ClassOf
<1>. QED
  BY <1>4, Bounds

(* Blocks do not overlap, ...                                               *)
LEMMA BlocksApart ==
    ASSUME NEW s \in Sizes, NEW p \in BlocksOf(s), NEW q \in BlocksOf(s), p < q
    PROVE  p + s <= q
<1>. DEFINE a == (p - 1) \div s
            b == (q - 1) \div s
<1>0. s \in Nat /\ s > 0 /\ p \in Nat /\ q \in Nat /\ p >= 1 /\ q >= 1
      /\ (p - 1) % s = 0 /\ (q - 1) % s = 0
  BY Bounds DEF BlocksOf
<1>1. a \in Int /\ b \in Int /\ p - 1 = s * a /\ q - 1 = s * b
  BY <1>0
<1>. HIDE DEF a, b
<1>2. s * a < s * b
  BY <1>0, <1>1
<1>3. a < b
  BY <1>0, <1>1, <1>2
<1>4. s * (a + 1) <= s * b /\ s * (a + 1) = s * a + s
  BY <1>0, <1>1, <1>3
<1>. QED
  BY <1>0, <1>1, <1>4

LEMMA BlockIn ==
    ASSUME NEW s \in Sizes, NEW p \in BlocksOf(s)
    PROVE  p \in Units /\ p \in Nat /\ p >= 1 /\ p + s - 1 <= ChunkUnits /\ s \in Nat /\ s > 0
BY Bounds DEF BlocksOf

(* ... and what is written in one, or right behind it, is not what the      *)
(* checker looks at in another: that is never a first unit.                 *)
LEMMA Elsewhere ==
    ASSUME NEW s \in Sizes, NEW p \in BlocksOf(s), NEW q \in BlocksOf(s), p # q,
           NEW i \in 1 .. s - 1, NEW j \in 0 .. s
    PROVE  p + i # q + j
BY BlocksApart, BlockIn

(* Some units, counted.                                                     *)
LEMMA UnitsCounted ==
    ASSUME NEW A, A \subseteq Units
    PROVE  IsFiniteSet(A) /\ Cardinality(A) \in 0 .. ChunkUnits
<1>1. IsFiniteSet(Units) /\ Cardinality(Units) = ChunkUnits
  BY Bounds, FS_Interval
<1>2. IsFiniteSet(A) /\ Cardinality(A) <= Cardinality(Units)
  BY <1>1, FS_Subset
<1>3. Cardinality(A) \in Nat
  BY <1>2, FS_CardinalityType
<1>. QED
  BY <1>1, <1>2, <1>3, Bounds

-----------------------------------------------------------------------------
(* What stays true where nothing it speaks of changes.                      *)
LEMMA MarkStays ==
    ASSUME Marks, NEW p \in Units, UNCHANGED <<level, size, mem>>,
           slots'[p] = slots[p], odd'[p] = odd[p], p \in unseen' <=> p \in unseen,
           p \in overran' <=> p \in overran, p \in scribbled' <=> p \in scribbled
    PROVE  CanaryAt(p)' /\ PoisonAt(p)' /\ ScribbleAt(p)'
<1>1. CanaryAt(p) /\ PoisonAt(p) /\ ScribbleAt(p)
  BY DEF Marks
<1>2. CanaryAt(p)'
  BY <1>1 DEF CanaryAt, Alive, Fits, AtLeast
<1>3. PoisonAt(p)'
  BY <1>1 DEF PoisonAt, AtLeast, Filled
<1>4. ScribbleAt(p)'
  BY <1>1 DEF ScribbleAt, Filled
<1>. QED
  BY <1>2, <1>3, <1>4

LEMMA MarksStay ==
    ASSUME Marks, UNCHANGED <<level, size, slots, odd, mem, unseen, overran, scribbled>>
    PROVE  Marks'
<1>1. ASSUME NEW p \in Units PROVE (CanaryAt(p) /\ PoisonAt(p) /\ ScribbleAt(p))'
  BY MarkStays
<1>. QED
  BY <1>1 DEF Marks

LEMMA SoleStays ==
    ASSUME Sole, UNCHANGED <<size, free, own>>, \A s \in Threads : Has(s)' = Has(s)
    PROVE  Sole'
BY DEF Sole, SoleAt

LEMMA ShadowStays ==
    ASSUME Shadow, UNCHANGED <<level, size, slots, own, odd, unseen, free, rowLive>>,
           \A t \in Threads : Has(t)' = Has(t),
           \A t \in Threads : Releasing(t)' => Releasing(t),
           \A t \in Threads : Releasing(t) /\ ~Releasing(t)' => slots[Has(t)].st = "never",
           \A t \in Threads : pc'[t] = "freeing" => Alive(Has(t))
    PROVE  Shadow'
<1>1. ASSUME NEW u \in Units PROVE SlotIsTrue(u)'
  <2>1. SlotIsTrue(u)
    BY DEF Shadow
  <2>2. \A t \in Threads : Has(t) = u /\ slots[u].st # "never" => (Releasing(t)' <=> Releasing(t))
    OBVIOUS
  <2>. HIDE DEF Releasing
  <2>. QED
    BY <2>1, <2>2 DEF SlotIsTrue, Alive, Fits, AtLeast
<1>2. \A t \in Threads : Releasing(t)' => Alive(Has(t))' \/ Has(t)' \in unseen'
  BY DEF Shadow, Alive
<1>4. \A t \in Threads : pc'[t] = "freeing" => Alive(Has(t))'
  BY DEF Alive
<1>3. rowLive' = Cardinality({u \in Units : Alive(u)'})
  BY DEF Shadow, Alive
<1>. QED
  BY <1>1, <1>2, <1>3, <1>4 DEF Shadow

LEMMA ShapesOfOthers ==
    ASSUME CallShapes, NEW t \in Threads, level' = level, size' = size, CallShape(t)',
           \A s \in Threads \ {t} :
               /\ pc'[s] = pc[s] /\ back'[s] = back[s] /\ blk'[s] = blk[s]
               /\ req'[s] = req[s] /\ want'[s] = want[s] /\ (s \in early' <=> s \in early)
    PROVE  CallShapes'
<1>. SUFFICES ASSUME NEW s \in Threads, s # t PROVE CallShape(s)'
  BY DEF CallShapes
<1>1. CallShape(s)
  BY DEF CallShapes
<1>. QED
  BY <1>1 DEF CallShape, Taking, Fits, AtLeast

LEMMA VerdictStays ==
    ASSUME ProvenHasCause, verdict' = verdict, raced' = raced
    PROVE  ProvenHasCause'
BY DEF ProvenHasCause, Proven

(* A block of which the slot says it is alive.                              *)
LEMMA AliveIs ==
    ASSUME Sole, Shadow, NEW u \in Units, Alive(u)
    PROVE  /\ u \in BlocksOf(size) /\ free[u] = 0 /\ u \notin unseen
           /\ \A t \in Threads : Has(t) = u => back[t] = "release"
<1>1. SoleAt(u) /\ SlotIsTrue(u)
  BY DEF Sole, Shadow
<1>. QED
  BY <1>1 DEF SoleAt, SlotIsTrue, Releasing

(* What is written in a block or right behind it leaves the marks of the    *)
(* others as they are.                                                      *)
LEMMA MarksElsewhere ==
    ASSUME TypeOK, Marks, NEW q \in BlocksOf(size), NEW p \in Units, p # q,
           UNCHANGED <<size, level>>, SlotIsTrue(p), Alive(p) => p \in BlocksOf(size),
           slots'[p] = slots[p], odd'[p] = odd[p], p \in unseen' <=> p \in unseen,
           p \in overran' <=> p \in overran, p \in scribbled' <=> p \in scribbled,
           \A u \in Units : mem'[u] # mem[u] => \E j \in 0 .. size : u = q + j
    PROVE  CanaryAt(p)' /\ PoisonAt(p)' /\ ScribbleAt(p)'
<1>0. size \in Sizes /\ CanaryAt(p) /\ PoisonAt(p) /\ ScribbleAt(p)
  BY DEF TypeOK, StoreTypes, Marks
<1>1. ASSUME NEW i \in 1 .. size - 1, p \in BlocksOf(size) PROVE mem'[p + i] = mem[p + i]
  <2>1. \A j \in 0 .. size : p + i # q + j
    BY <1>0, <1>1, Elsewhere
  <2>2. p + i \in Units
    BY <1>0, <1>1, BlockIn, Bounds
  <2>. QED
    BY <2>1, <2>2
<1>2. CanaryAt(p)'
  <2>. SUFFICES ASSUME Alive(p), AtLeast("canary")
                PROVE  /\ Fits(slots[p].req) /\ p \notin overran /\ "resize" \notin odd[p] =>
                              \A u \in Guard(p, slots[p].req) : mem'[u] = "canary"
                       /\ p \in overran /\ odd[p] = {} => mem'[p + slots[p].req] # "canary"
    BY DEF CanaryAt, Alive, AtLeast, Fits
  <2>. DEFINE n == slots[p].req
  <2>1. p \in BlocksOf(size) /\ n \in Nat /\ n >= 1 /\ size \in Nat /\ p \in Nat
    <3>1. p \in BlocksOf(size) /\ slots[p].req \in Requests
      BY DEF SlotIsTrue
    <3>2. p \in Nat /\ size \in Nat
      BY <1>0, <3>1, BlockIn
    <3>3. n \in Nat /\ n >= 1
      BY <3>1, RequestIs
    <3>. QED
      BY <3>1, <3>2, <3>3
  <2>. HIDE DEF n
  <2>2. ASSUME Fits(n), NEW u \in Guard(p, n) PROVE mem'[u] = mem[u]
    <3>1. u = p + (u - p) /\ u - p \in 1 .. size - 1
      BY <2>1, <2>2, Bounds DEF Guard, Fits
    <3>. QED
      BY <1>1, <2>1, <3>1
  <2>3. ASSUME Fits(n) PROVE mem'[p + n] = mem[p + n]
    <3>1. n \in 1 .. size - 1
      BY <2>1, <2>3, Bounds DEF Fits
    <3>. QED
      BY <1>1, <2>1, <3>1
  <2>4. odd[p] = {} => Fits(n)
    BY DEF SlotIsTrue, n
  <2>. QED
    BY <1>0, <2>2, <2>3, <2>4 DEF CanaryAt, n
<1>3. ASSUME NEW i \in Filled, p \in BlocksOf(size) PROVE mem'[p + i - 1] = mem[p + i - 1]
  <2>1. i - 1 \in 1 .. size - 1 /\ p + i - 1 = p + (i - 1)
    BY <1>0, <1>3, BlockIn DEF Filled
  <2>. QED
    BY <1>1, <1>3, <2>1
<1>4. PoisonAt(p)'
  BY <1>0, <1>3 DEF PoisonAt, AtLeast, Filled
<1>5. ScribbleAt(p)'
  BY <1>0, <1>3 DEF ScribbleAt, Filled
<1>. QED
  BY <1>2, <1>4, <1>5

-----------------------------------------------------------------------------
(* Steps that touch one block: what has to be shown of it, and nothing of   *)
(* the others.                                                              *)
LEMMA BlockStep ==
    ASSUME CheckInv, NEW p \in BlocksOf(size), UNCHANGED <<level, size>>,
           rowLive' \in 0 .. ChunkUnits => StoreTypes',
           CallTypes', CallShapes', Strays', Tables', ProvenHasCause',
           \A u \in Units \ {p} :
               /\ free'[u] = free[u] /\ own'[u] = own[u]
               /\ slots'[u] = slots[u] /\ odd'[u] = odd[u] /\ (u \in unseen' <=> u \in unseen)
               /\ (u \in overran' <=> u \in overran) /\ (u \in scribbled' <=> u \in scribbled)
               /\ \A s \in Threads : Has(s)' = u <=> Has(s) = u
           ,
           \A s \in Threads : Has(s) # p /\ Has(s) \in Units => (Releasing(s)' <=> Releasing(s)),
           \A u \in Units : mem'[u] # mem[u] => \E j \in 0 .. size : u = p + j,
           SoleAt(p)', SlotIsTrue(p)',
           \A s \in Threads : Has(s)' = p /\ Releasing(s)' => Alive(p)' \/ p \in unseen',
           \A s \in Threads : pc'[s] = "freeing" => pc[s] = "freeing" /\ Has(s) # p,
           rowLive' = IF Alive(p)' THEN (IF Alive(p) THEN rowLive ELSE rowLive + 1)
                                   ELSE (IF Alive(p) THEN rowLive - 1 ELSE rowLive),
           CanaryAt(p)', PoisonAt(p)', ScribbleAt(p)'
    PROVE  CheckInv'
<1>0. /\ TypeOK /\ StoreTypes /\ CallTypes /\ CallShapes /\ Strays /\ Sole /\ Shadow /\ Marks
      /\ size \in Sizes
  BY DEF CheckInv, TypeOK, StoreTypes
<1>p. p \in Units
  BY <1>0, BlockIn
<1>1. ASSUME NEW u \in Units, u # p PROVE SoleAt(u)' /\ SlotIsTrue(u)'
  <2>0. SoleAt(u) /\ SlotIsTrue(u) /\ u \in Units \ {p}
    BY <1>0, <1>1 DEF Sole, Shadow
  <2>1. \A s \in Threads : Has(s) = u => (Releasing(s)' <=> Releasing(s))
    BY <1>1
  <2>2. /\ free'[u] = free[u] /\ own'[u] = own[u]
        /\ slots'[u] = slots[u] /\ odd'[u] = odd[u] /\ (u \in unseen' <=> u \in unseen)
        /\ \A s \in Threads : Has(s)' = u <=> Has(s) = u
    BY <2>0
  <2>3. SoleAt(u)'
    BY <2>0, <2>2 DEF SoleAt, BlocksOf
  <2>. HIDE DEF Releasing
  <2>4. SlotIsTrue(u)'
    BY <2>0, <2>1, <2>2 DEF SlotIsTrue, Alive, Fits, AtLeast
  <2>. QED
    BY <2>3, <2>4
<1>2. Sole' /\ \A u \in Units : SlotIsTrue(u)'
  BY <1>1 DEF Sole
<1>3. ASSUME NEW s \in Threads, Releasing(s)' PROVE Alive(Has(s))' \/ Has(s)' \in unseen'
  <2>1. CASE Has(s)' = p
    BY <1>3, <2>1 DEF Alive
  <2>2. CASE Has(s)' # p
    <3>1. Has(s)' \in Units \ {p}
      BY <1>3, <2>2 DEF CallShapes, CallShape, CallTypes, Releasing, Has
    <3>2. Has(s)' = Has(s) /\ Releasing(s)
      BY <1>3, <3>1
    <3>3. Alive(Has(s)) \/ Has(s) \in unseen
      BY <1>0, <3>2 DEF Shadow
    <3>. QED
      BY <3>1, <3>2, <3>3 DEF Alive
  <2>. QED
    BY <2>1, <2>2
<1>4. rowLive' = Cardinality({u \in Units : Alive(u)'})
  <2>. DEFINE A == {u \in Units : Alive(u)}
              B == {u \in Units : Alive(u)'}
  <2>1. IsFiniteSet(A) /\ rowLive = Cardinality(A) /\ rowLive \in Nat
    BY <1>0, UnitsCounted DEF Shadow, StoreTypes
  <2>2. \A u \in Units : u # p => (Alive(u)' <=> Alive(u))
    BY DEF Alive
  <2>3. CASE Alive(p)'
    <3>1. B = A \cup {p}
      BY <1>p, <2>2, <2>3
    <3>2. Cardinality(A \cup {p}) = IF p \in A THEN Cardinality(A) ELSE Cardinality(A) + 1
      BY <2>1, FS_AddElement
    <3>3. Cardinality(B) = IF p \in A THEN Cardinality(A) ELSE Cardinality(A) + 1
      BY <3>1, <3>2
    <3>4. p \in A <=> Alive(p)
      BY <1>p
    <3>. HIDE DEF A, B
    <3>. QED
      BY <2>1, <2>3, <3>3, <3>4 DEF B
  <2>4. CASE ~Alive(p)'
    <3>1. B = A \ {p}
      BY <1>p, <2>2, <2>4
    <3>2. Cardinality(A \ {p}) = IF p \in A THEN Cardinality(A) - 1 ELSE Cardinality(A)
      BY <2>1, FS_RemoveElement
    <3>3. Cardinality(B) = IF p \in A THEN Cardinality(A) - 1 ELSE Cardinality(A)
      BY <3>1, <3>2
    <3>4. p \in A <=> Alive(p)
      BY <1>p
    <3>. HIDE DEF A, B
    <3>. QED
      BY <2>1, <2>4, <3>3, <3>4 DEF B
  <2>. QED
    BY <2>3, <2>4
<1>8. ASSUME NEW s \in Threads, pc'[s] = "freeing" PROVE Alive(Has(s))'
  <2>1. pc[s] = "freeing" /\ Has(s) # p /\ Alive(Has(s))
    BY <1>0, <1>8 DEF Shadow
  <2>2. Has(s) \in Units
    BY <1>0, <2>1 DEF CallShapes, CallShape, CallTypes, Strays, Has
  <2>3. Has(s) \in Units \ {p} /\ Has(s)' = Has(s)
    BY <2>1, <2>2
  <2>. QED
    BY <2>1, <2>3 DEF Alive
<1>5. Shadow'
  BY <1>2, <1>3, <1>4, <1>8 DEF Shadow
<1>6. Marks'
  <2>. SUFFICES ASSUME NEW u \in Units, u # p
                PROVE  CanaryAt(u)' /\ PoisonAt(u)' /\ ScribbleAt(u)'
    BY DEF Marks
  <2>1. SlotIsTrue(u) /\ (Alive(u) => u \in BlocksOf(size)) /\ u \in Units \ {p}
    BY <1>0, AliveIs DEF Shadow
  <2>. QED
    BY <1>0, <2>1, MarksElsewhere
<1>7. StoreTypes'
  <2>1. {u \in Units : Alive(u)'} \subseteq Units
    OBVIOUS
  <2>. QED
    BY <1>4, <2>1, UnitsCounted
<1>. QED
  BY <1>2, <1>5, <1>6, <1>7 DEF CheckInv, TypeOK

-----------------------------------------------------------------------------
(* Steps of a call that no block knows of.                                  *)
LEMMA LocalStep ==
    ASSUME CheckInv, TypeOK', CallShapes', Strays', Tables', ProvenHasCause',
           UNCHANGED <<level, size, slots, rowLive, free, mem, own, unseen, odd, overran,
                       scribbled>>,
           \A s \in Threads : Has(s)' = Has(s),
           \A s \in Threads : Releasing(s)' => Releasing(s),
           \A s \in Threads : Releasing(s) /\ ~Releasing(s)' => slots[Has(s)].st = "never",
           \A s \in Threads : pc'[s] = "freeing" => Alive(Has(s))
    PROVE  CheckInv'
<1>1. Sole' /\ Shadow' /\ Marks'
  BY SoleStays, ShadowStays, MarksStay DEF CheckInv
<1>. QED
  BY <1>1 DEF CheckInv

LEMMA CallStep ==
    ASSUME CheckInv, TypeOK', CallShapes', Tables',
           UNCHANGED <<level, size, slots, rowLive, free, mem, blk, own, unseen, odd,
                       overran, scribbled, verdict, raced, stray>>,
           \A s \in Threads : Releasing(s)' => Releasing(s),
           \A s \in Threads : Releasing(s) /\ ~Releasing(s)' => slots[blk[s]].st = "never",
           \A s \in stray : pc'[s] \in {"config", "release"} /\ back'[s] = "release",
           \A s \in Threads : pc'[s] = "freeing" => pc[s] = "freeing"
    PROVE  CheckInv'
<1>1. ProvenHasCause'
  BY VerdictStays DEF CheckInv
<1>2. Strays'
  BY DEF CheckInv, Strays
<1>3. \A s \in Threads : Has(s)' = Has(s)
  BY DEF Has
<1>4. \A s \in Threads : Releasing(s) => Has(s) = blk[s]
  BY DEF Releasing, Has
<1>5. \A s \in Threads : pc'[s] = "freeing" => Alive(Has(s))
  BY DEF CheckInv, Shadow
<1>. HIDE DEF Releasing
<1>. QED
  BY <1>1, <1>2, <1>3, <1>4, <1>5, LocalStep

(* A release that is not its caller's finds the tables made, and a block    *)
(* that says it is alive is somebody's, or being released.                  *)
LEMMA StrayIs ==
    ASSUME CheckInv, NEW s \in stray
    PROVE  /\ s \in Threads /\ pc[s] \in {"config", "release"} /\ back[s] = "release"
           /\ blk[s] \in Units /\ blk[s] \in BlocksOf(size) /\ slots[blk[s]].st # "never"
           /\ row /\ rows = 2 /\ cfg = 2 /\ Has(s) = None
           /\ Alive(blk[s]) => Meets(s)
<1>0. /\ size \in Sizes /\ stray \subseteq Threads /\ Strays /\ Tables /\ Shadow
  BY DEF CheckInv, TypeOK, StoreTypes, CallTypes
<1>1. /\ s \in Threads /\ pc[s] \in {"config", "release"} /\ back[s] = "release"
      /\ blk[s] \in BlocksOf(size) /\ slots[blk[s]].st # "never"
  BY <1>0 DEF Strays
<1>2. blk[s] \in Units
  BY <1>0, <1>1, BlockIn
<1>3. row
  BY <1>0, <1>1, <1>2 DEF Tables, Blank, Never
<1>4. rows = 2
  BY <1>0, <1>3 DEF Tables
<1>5. cfg = 2
  BY <1>0, <1>4 DEF Tables
<1>6. Has(s) = None
  BY DEF Has
<1>7. ASSUME Alive(blk[s]) PROVE Meets(s)
  <2>1. own[blk[s]] > 0 \/ \E t \in Threads : Releasing(t) /\ Has(t) = blk[s]
    BY <1>0, <1>2, <1>7 DEF Shadow, SlotIsTrue
  <2>. QED
    BY <2>1 DEF Meets, Releasing, Has
<1>. QED
  BY <1>1, <1>2, <1>3, <1>4, <1>5, <1>6, <1>7

(* What a step of a call that has its block by right leaves of the others.  *)
LEMMA OthersStay ==
    ASSUME CheckInv, NEW t \in Threads, t \notin stray, UNCHANGED <<size, stray>>,
           \A s \in Threads \ {t} :
               pc'[s] = pc[s] /\ back'[s] = back[s] /\ blk'[s] = blk[s],
           \A u \in Units : slots[u].st # "never" => slots'[u].st # "never"
    PROVE  /\ Strays'
           /\ \A s \in Threads \ {t} :
                 /\ Has(s)' = Has(s) /\ (Releasing(s)' <=> Releasing(s))
                 /\ (pc'[s] = "freeing" <=> pc[s] = "freeing")
<1>1. ASSUME NEW s \in stray
      PROVE  /\ back'[s] = "release" /\ pc'[s] \in {"config", "release"}
             /\ blk'[s] \in BlocksOf(size) /\ slots'[blk'[s]].st # "never"
  <2>1. s \in Threads \ {t} /\ blk[s] \in Units
    BY StrayIs
  <2>. QED
    BY <2>1, StrayIs
<1>2. Strays'
  BY <1>1 DEF Strays
<1>. QED
  BY <1>2 DEF Has, Releasing

LEMMA CallAllocStep ==
    ASSUME CheckInv, NEW t \in Threads, NEW n \in Requests, CallAlloc(t, n)
    PROVE  CheckInv'
<1>0. StoreTypes /\ CallTypes /\ CallShapes /\ CallShape(t) /\ Tables
  BY DEF CheckInv, CallShapes, TypeOK
<1>u. UNCHANGED <<level, size, free, mem, rowLive, blk, own, unseen, odd, overran, scribbled,
                  verdict, raced, stray>>
  BY DEF CallAlloc, fixed, shadow, heap, history
<1>s. slots' = slots
  BY DEF CallAlloc, shadow, history
<1>o. \A s \in Threads \ {t} :
         /\ pc'[s] = pc[s] /\ back'[s] = back[s] /\ blk'[s] = blk[s]
         /\ req'[s] = req[s] /\ want'[s] = want[s] /\ (s \in early' <=> s \in early)
  BY <1>0 DEF CallTypes, CallAlloc, Go
<1>1. StoreTypes' /\ CallTypes'
  <2>1. StoreTypes'
    BY <1>0, <1>u, <1>s DEF StoreTypes, CallAlloc, fixed, shadow, heap, history
  <2>2. CallTypes'
    BY <1>0, Bounds DEF CallTypes, Steps, CallShape, CallAlloc, Go
  <2>. QED
    BY <2>1, <2>2
<1>2. CallShapes'
  <2>1. CallShape(t)'
    BY <1>0, <1>u, Bounds DEF CallTypes, CallShape, Taking, Fits, AtLeast, CallAlloc, Go
  <2>. QED
    BY <1>0, <1>o, <1>u, <2>1, ShapesOfOthers
<1>3. Tables'
  BY <1>0, <1>s, <1>o DEF CallTypes, Tables, CallShape, CallAlloc, Go, fixed, shadow
<1>x. \A s \in stray : /\ s \in Threads /\ pc[s] \in {"config", "release"}
                       /\ back[s] = "release" /\ row /\ rows = 2 /\ cfg = 2
  BY StrayIs
<1>4. /\ \A s \in Threads : Releasing(s)' => Releasing(s)
      /\ \A s \in Threads : Releasing(s) /\ ~Releasing(s)' => slots[blk[s]].st = "never"
  BY <1>0, <1>o, Bounds
     DEF CallTypes, Releasing, CallShape, Tables, Blank, Never, CallAlloc, Go
<1>5. /\ \A s \in stray : pc'[s] \in {"config", "release"} /\ back'[s] = "release"
      /\ \A s \in Threads : pc'[s] = "freeing" => pc[s] = "freeing"
  BY <1>0, <1>o, <1>x DEF CallTypes, CallShape, CallAlloc, Go
<1>. QED
  BY <1>1, <1>2, <1>3, <1>4, <1>5, <1>u, <1>s, CallStep DEF TypeOK

LEMMA ConfigStep ==
    ASSUME CheckInv, NEW t \in Threads, Config(t)
    PROVE  CheckInv'
<1>0. StoreTypes /\ CallTypes /\ CallShapes /\ CallShape(t) /\ Tables
  BY DEF CheckInv, CallShapes, TypeOK
<1>u. UNCHANGED <<level, size, free, mem, rowLive, blk, own, unseen, odd, overran, scribbled,
                  verdict, raced, stray>>
  BY DEF Config, fixed, shadow, heap, history
<1>s. slots' = slots
  BY DEF Config, shadow, history
<1>o. \A s \in Threads \ {t} :
         /\ pc'[s] = pc[s] /\ back'[s] = back[s] /\ blk'[s] = blk[s]
         /\ req'[s] = req[s] /\ want'[s] = want[s] /\ (s \in early' <=> s \in early)
  BY <1>0 DEF CallTypes, Config, Go
<1>1. StoreTypes' /\ CallTypes'
  <2>1. StoreTypes'
    BY <1>0, <1>u, <1>s DEF StoreTypes, Config, fixed, shadow, heap, history
  <2>2. CallTypes'
    BY <1>0, Bounds DEF CallTypes, Steps, CallShape, Config, Go
  <2>. QED
    BY <2>1, <2>2
<1>2. CallShapes'
  <2>1. CallShape(t)'
    BY <1>0, <1>u, Bounds DEF CallTypes, CallShape, Taking, Fits, AtLeast, Config, Go
  <2>. QED
    BY <1>0, <1>o, <1>u, <2>1, ShapesOfOthers
<1>3. Tables'
  BY <1>0, <1>s, <1>o DEF CallTypes, Tables, CallShape, Config, Go, fixed, shadow
<1>x. \A s \in stray : /\ s \in Threads /\ pc[s] \in {"config", "release"}
                       /\ back[s] = "release" /\ row /\ rows = 2 /\ cfg = 2
  BY StrayIs
<1>4. /\ \A s \in Threads : Releasing(s)' => Releasing(s)
      /\ \A s \in Threads : Releasing(s) /\ ~Releasing(s)' => slots[blk[s]].st = "never"
  BY <1>0, <1>o, Bounds
     DEF CallTypes, Releasing, CallShape, Tables, Blank, Never, Config, Go
<1>5. /\ \A s \in stray : pc'[s] \in {"config", "release"} /\ back'[s] = "release"
      /\ \A s \in Threads : pc'[s] = "freeing" => pc[s] = "freeing"
  BY <1>0, <1>o, <1>x DEF CallTypes, CallShape, Config, Go
<1>. QED
  BY <1>1, <1>2, <1>3, <1>4, <1>5, <1>u, <1>s, CallStep DEF TypeOK

LEMMA ConfigReadStep ==
    ASSUME CheckInv, NEW t \in Threads, ConfigRead(t)
    PROVE  CheckInv'
<1>0. StoreTypes /\ CallTypes /\ CallShapes /\ CallShape(t) /\ Tables
  BY DEF CheckInv, CallShapes, TypeOK
<1>u. UNCHANGED <<level, size, free, mem, rowLive, blk, own, unseen, odd, overran, scribbled,
                  verdict, raced, stray>>
  BY DEF ConfigRead, fixed, shadow, heap, history
<1>s. slots' = slots
  BY DEF ConfigRead, shadow, history
<1>o. \A s \in Threads \ {t} :
         /\ pc'[s] = pc[s] /\ back'[s] = back[s] /\ blk'[s] = blk[s]
         /\ req'[s] = req[s] /\ want'[s] = want[s] /\ (s \in early' <=> s \in early)
  BY <1>0 DEF CallTypes, ConfigRead, Go
<1>1. StoreTypes' /\ CallTypes'
  <2>1. StoreTypes'
    BY <1>0, <1>u, <1>s DEF StoreTypes, ConfigRead, fixed, shadow, heap, history
  <2>2. CallTypes'
    BY <1>0, Bounds DEF CallTypes, Steps, CallShape, ConfigRead, Go
  <2>. QED
    BY <2>1, <2>2
<1>2. CallShapes'
  <2>1. CallShape(t)'
    BY <1>0, <1>u, Bounds DEF CallTypes, CallShape, Taking, Fits, AtLeast, ConfigRead, Go
  <2>. QED
    BY <1>0, <1>o, <1>u, <2>1, ShapesOfOthers
<1>3. Tables'
  BY <1>0, <1>s, <1>o DEF CallTypes, Tables, CallShape, ConfigRead, Go, fixed, shadow
<1>x. \A s \in stray : /\ s \in Threads /\ pc[s] \in {"config", "release"}
                       /\ back[s] = "release" /\ row /\ rows = 2 /\ cfg = 2
  BY StrayIs
<1>4. /\ \A s \in Threads : Releasing(s)' => Releasing(s)
      /\ \A s \in Threads : Releasing(s) /\ ~Releasing(s)' => slots[blk[s]].st = "never"
  BY <1>0, <1>o, Bounds
     DEF CallTypes, Releasing, CallShape, Tables, Blank, Never, ConfigRead, Go
<1>5. /\ \A s \in stray : pc'[s] \in {"config", "release"} /\ back'[s] = "release"
      /\ \A s \in Threads : pc'[s] = "freeing" => pc[s] = "freeing"
  BY <1>0, <1>o, <1>x DEF CallTypes, CallShape, ConfigRead, Go
<1>. QED
  BY <1>1, <1>2, <1>3, <1>4, <1>5, <1>u, <1>s, CallStep DEF TypeOK

LEMMA MakeRowsStep ==
    ASSUME CheckInv, NEW t \in Threads, MakeRows(t)
    PROVE  CheckInv'
<1>0. StoreTypes /\ CallTypes /\ CallShapes /\ CallShape(t) /\ Tables
  BY DEF CheckInv, CallShapes, TypeOK
<1>u. UNCHANGED <<level, size, free, mem, rowLive, blk, own, unseen, odd, overran, scribbled,
                  verdict, raced, stray>>
  BY DEF MakeRows, fixed, shadow, heap, history
<1>s. slots' = slots
  BY DEF MakeRows, shadow, history
<1>o. \A s \in Threads \ {t} :
         /\ pc'[s] = pc[s] /\ back'[s] = back[s] /\ blk'[s] = blk[s]
         /\ req'[s] = req[s] /\ want'[s] = want[s] /\ (s \in early' <=> s \in early)
  BY <1>0 DEF CallTypes, MakeRows, Go
<1>1. StoreTypes' /\ CallTypes'
  <2>1. StoreTypes'
    BY <1>0, <1>u, <1>s DEF StoreTypes, MakeRows, fixed, shadow, heap, history
  <2>2. CallTypes'
    BY <1>0, Bounds DEF CallTypes, Steps, CallShape, MakeRows, Go, Asks
  <2>. QED
    BY <2>1, <2>2
<1>2. CallShapes'
  <2>1. CallShape(t)'
    BY <1>0, <1>u, Bounds DEF CallTypes, CallShape, Taking, Fits, AtLeast, MakeRows, Go, Asks
  <2>. QED
    BY <1>0, <1>o, <1>u, <2>1, ShapesOfOthers
<1>3. Tables'
  BY <1>0, <1>s, <1>o DEF CallTypes, Tables, CallShape, MakeRows, Go, Asks, fixed, shadow
<1>x. \A s \in stray : /\ s \in Threads /\ pc[s] \in {"config", "release"}
                       /\ back[s] = "release" /\ row /\ rows = 2 /\ cfg = 2
  BY StrayIs
<1>4. /\ \A s \in Threads : Releasing(s)' => Releasing(s)
      /\ \A s \in Threads : Releasing(s) /\ ~Releasing(s)' => slots[blk[s]].st = "never"
  BY <1>0, <1>o, Bounds
     DEF CallTypes, Releasing, CallShape, Tables, Blank, Never, MakeRows, Go, Asks
<1>5. /\ \A s \in stray : pc'[s] \in {"config", "release"} /\ back'[s] = "release"
      /\ \A s \in Threads : pc'[s] = "freeing" => pc[s] = "freeing"
  BY <1>0, <1>o, <1>x DEF CallTypes, CallShape, MakeRows, Go, Asks
<1>. QED
  BY <1>1, <1>2, <1>3, <1>4, <1>5, <1>u, <1>s, CallStep DEF TypeOK

LEMMA RowsMadeStep ==
    ASSUME CheckInv, NEW t \in Threads, RowsMade(t)
    PROVE  CheckInv'
<1>0. StoreTypes /\ CallTypes /\ CallShapes /\ CallShape(t) /\ Tables
  BY DEF CheckInv, CallShapes, TypeOK
<1>u. UNCHANGED <<level, size, free, mem, rowLive, blk, own, unseen, odd, overran, scribbled,
                  verdict, raced, stray>>
  BY DEF RowsMade, fixed, shadow, heap, history
<1>s. slots' = slots
  BY DEF RowsMade, shadow, history
<1>o. \A s \in Threads \ {t} :
         /\ pc'[s] = pc[s] /\ back'[s] = back[s] /\ blk'[s] = blk[s]
         /\ req'[s] = req[s] /\ want'[s] = want[s] /\ (s \in early' <=> s \in early)
  BY <1>0 DEF CallTypes, RowsMade, Go
<1>1. StoreTypes' /\ CallTypes'
  <2>1. StoreTypes'
    BY <1>0, <1>u, <1>s DEF StoreTypes, RowsMade, fixed, shadow, heap, history
  <2>2. CallTypes'
    BY <1>0, Bounds DEF CallTypes, Steps, CallShape, RowsMade, Go
  <2>. QED
    BY <2>1, <2>2
<1>2. CallShapes'
  <2>1. CallShape(t)'
    BY <1>0, <1>u, Bounds DEF CallTypes, CallShape, Taking, Fits, AtLeast, RowsMade, Go
  <2>. QED
    BY <1>0, <1>o, <1>u, <2>1, ShapesOfOthers
<1>3. Tables'
  BY <1>0, <1>s, <1>o DEF CallTypes, Tables, CallShape, RowsMade, Go, fixed, shadow
<1>x. \A s \in stray : /\ s \in Threads /\ pc[s] \in {"config", "release"}
                       /\ back[s] = "release" /\ row /\ rows = 2 /\ cfg = 2
  BY StrayIs
<1>4. /\ \A s \in Threads : Releasing(s)' => Releasing(s)
      /\ \A s \in Threads : Releasing(s) /\ ~Releasing(s)' => slots[blk[s]].st = "never"
  BY <1>0, <1>o, Bounds
     DEF CallTypes, Releasing, CallShape, Tables, Blank, Never, RowsMade, Go
<1>5. /\ \A s \in stray : pc'[s] \in {"config", "release"} /\ back'[s] = "release"
      /\ \A s \in Threads : pc'[s] = "freeing" => pc[s] = "freeing"
  BY <1>0, <1>o, <1>x DEF CallTypes, CallShape, RowsMade, Go
<1>. QED
  BY <1>1, <1>2, <1>3, <1>4, <1>5, <1>u, <1>s, CallStep DEF TypeOK

LEMMA RowAllocStep ==
    ASSUME CheckInv, NEW t \in Threads, RowAlloc(t)
    PROVE  CheckInv'
<1>0. StoreTypes /\ CallTypes /\ CallShapes /\ CallShape(t) /\ Tables
  BY DEF CheckInv, CallShapes, TypeOK
<1>u. UNCHANGED <<level, size, free, mem, rowLive, blk, own, unseen, odd, overran, scribbled,
                  verdict, raced, stray>>
  BY DEF RowAlloc, fixed, shadow, heap, history
<1>s. slots' = slots
  BY DEF RowAlloc, shadow, history
<1>o. \A s \in Threads \ {t} :
         /\ pc'[s] = pc[s] /\ back'[s] = back[s] /\ blk'[s] = blk[s]
         /\ req'[s] = req[s] /\ want'[s] = want[s] /\ (s \in early' <=> s \in early)
  BY <1>0 DEF CallTypes, RowAlloc, Go
<1>1. StoreTypes' /\ CallTypes'
  <2>1. StoreTypes'
    BY <1>0, <1>u, <1>s DEF StoreTypes, RowAlloc, fixed, shadow, heap, history
  <2>2. CallTypes'
    BY <1>0, Bounds DEF CallTypes, Steps, CallShape, RowAlloc, Go, NeedsRow, Ready
  <2>. QED
    BY <2>1, <2>2
<1>2. CallShapes'
  <2>1. CallShape(t)'
    BY <1>0, <1>u, Bounds
       DEF CallTypes, CallShape, Taking, Fits, AtLeast, RowAlloc, Go, NeedsRow, Ready
  <2>. QED
    BY <1>0, <1>o, <1>u, <2>1, ShapesOfOthers
<1>3. Tables'
  BY <1>0, <1>s, <1>o DEF CallTypes, Tables, CallShape, RowAlloc, Go, NeedsRow, Ready, fixed, shadow
<1>x. \A s \in stray : /\ s \in Threads /\ pc[s] \in {"config", "release"}
                       /\ back[s] = "release" /\ row /\ rows = 2 /\ cfg = 2
  BY StrayIs
<1>4. /\ \A s \in Threads : Releasing(s)' => Releasing(s)
      /\ \A s \in Threads : Releasing(s) /\ ~Releasing(s)' => slots[blk[s]].st = "never"
  BY <1>0, <1>o, Bounds
     DEF CallTypes, Releasing, CallShape, Tables, Blank, Never, RowAlloc, Go, NeedsRow, Ready
<1>5. /\ \A s \in stray : pc'[s] \in {"config", "release"} /\ back'[s] = "release"
      /\ \A s \in Threads : pc'[s] = "freeing" => pc[s] = "freeing"
  BY <1>0, <1>o, <1>x DEF CallTypes, CallShape, RowAlloc, Go, NeedsRow, Ready
<1>. QED
  BY <1>1, <1>2, <1>3, <1>4, <1>5, <1>u, <1>s, CallStep DEF TypeOK

LEMMA RowCasStep ==
    ASSUME CheckInv, NEW t \in Threads, RowCas(t)
    PROVE  CheckInv'
<1>0. StoreTypes /\ CallTypes /\ CallShapes /\ CallShape(t) /\ Tables
  BY DEF CheckInv, CallShapes, TypeOK
<1>u. UNCHANGED <<level, size, free, mem, rowLive, blk, own, unseen, odd, overran, scribbled,
                  verdict, raced, stray>>
  BY DEF RowCas, fixed, shadow, heap, history
<1>s. slots' = slots
  BY <1>0 DEF Tables, RowCas
<1>o. \A s \in Threads \ {t} :
         /\ pc'[s] = pc[s] /\ back'[s] = back[s] /\ blk'[s] = blk[s]
         /\ req'[s] = req[s] /\ want'[s] = want[s] /\ (s \in early' <=> s \in early)
  BY <1>0 DEF CallTypes, RowCas, Go
<1>1. StoreTypes' /\ CallTypes'
  <2>1. StoreTypes'
    BY <1>0, <1>u, <1>s DEF StoreTypes, RowCas, fixed, shadow, heap, history
  <2>2. CallTypes'
    BY <1>0, Bounds DEF CallTypes, Steps, CallShape, RowCas, Go
  <2>. QED
    BY <2>1, <2>2
<1>2. CallShapes'
  <2>1. CallShape(t)'
    BY <1>0, <1>u, Bounds DEF CallTypes, CallShape, Taking, Fits, AtLeast, RowCas, Go
  <2>. QED
    BY <1>0, <1>o, <1>u, <2>1, ShapesOfOthers
<1>3. Tables'
  BY <1>0, <1>s, <1>o DEF CallTypes, Tables, CallShape, RowCas, Go, fixed, shadow
<1>x. \A s \in stray : /\ s \in Threads /\ pc[s] \in {"config", "release"}
                       /\ back[s] = "release" /\ row /\ rows = 2 /\ cfg = 2
  BY StrayIs
<1>4. /\ \A s \in Threads : Releasing(s)' => Releasing(s)
      /\ \A s \in Threads : Releasing(s) /\ ~Releasing(s)' => slots[blk[s]].st = "never"
  BY <1>0, <1>o, Bounds
     DEF CallTypes, Releasing, CallShape, Tables, Blank, Never, RowCas, Go
<1>5. /\ \A s \in stray : pc'[s] \in {"config", "release"} /\ back'[s] = "release"
      /\ \A s \in Threads : pc'[s] = "freeing" => pc[s] = "freeing"
  BY <1>0, <1>o, <1>x DEF CallTypes, CallShape, RowCas, Go
<1>. QED
  BY <1>1, <1>2, <1>3, <1>4, <1>5, <1>u, <1>s, CallStep DEF TypeOK

LEMMA GrowStep ==
    ASSUME CheckInv, NEW t \in Threads, Grow(t)
    PROVE  CheckInv'
<1>0. StoreTypes /\ CallTypes /\ CallShapes /\ CallShape(t) /\ Tables
  BY DEF CheckInv, CallShapes, TypeOK
<1>u. UNCHANGED <<level, size, free, mem, rowLive, blk, own, unseen, odd, overran, scribbled,
                  verdict, raced, stray>>
  BY DEF Grow, fixed, shadow, heap, history
<1>s. slots' = slots
  BY DEF Grow, shadow, history
<1>o. \A s \in Threads \ {t} :
         /\ pc'[s] = pc[s] /\ back'[s] = back[s] /\ blk'[s] = blk[s]
         /\ req'[s] = req[s] /\ want'[s] = want[s] /\ (s \in early' <=> s \in early)
  BY <1>0 DEF CallTypes, Grow, Go
<1>1. StoreTypes' /\ CallTypes'
  <2>1. StoreTypes'
    BY <1>0, <1>u, <1>s DEF StoreTypes, Grow, fixed, shadow, heap, history
  <2>2. CallTypes'
    BY <1>0, Bounds DEF CallTypes, Steps, CallShape, Grow, Go, Ready, Grown
  <2>. QED
    BY <2>1, <2>2
<1>2. CallShapes'
  <2>1. CallShape(t)'
    BY <1>0, <1>u, Bounds DEF CallTypes, CallShape, Taking, Fits, AtLeast, Grow, Go, Ready, Grown
  <2>. QED
    BY <1>0, <1>o, <1>u, <2>1, ShapesOfOthers
<1>3. Tables'
  BY <1>0, <1>s, <1>o DEF CallTypes, Tables, CallShape, Grow, Go, Ready, Grown, fixed, shadow
<1>x. \A s \in stray : /\ s \in Threads /\ pc[s] \in {"config", "release"}
                       /\ back[s] = "release" /\ row /\ rows = 2 /\ cfg = 2
  BY StrayIs
<1>4. /\ \A s \in Threads : Releasing(s)' => Releasing(s)
      /\ \A s \in Threads : Releasing(s) /\ ~Releasing(s)' => slots[blk[s]].st = "never"
  BY <1>0, <1>o, Bounds
     DEF CallTypes, Releasing, CallShape, Tables, Blank, Never, Grow, Go, Ready, Grown
<1>5. /\ \A s \in stray : pc'[s] \in {"config", "release"} /\ back'[s] = "release"
      /\ \A s \in Threads : pc'[s] = "freeing" => pc[s] = "freeing"
  BY <1>0, <1>o, <1>x DEF CallTypes, CallShape, Grow, Go, Ready, Grown
<1>. QED
  BY <1>1, <1>2, <1>3, <1>4, <1>5, <1>u, <1>s, CallStep DEF TypeOK

LEMMA ReleaseNoneStep ==
    ASSUME CheckInv, NEW t \in Threads, ReleaseNone(t)
    PROVE  CheckInv'
<1>0. StoreTypes /\ CallTypes /\ CallShapes /\ CallShape(t) /\ Tables
  BY DEF CheckInv, CallShapes, TypeOK
<1>u. UNCHANGED <<level, size, free, mem, rowLive, blk, own, unseen, odd, overran, scribbled,
                  verdict, raced, stray>>
  BY DEF ReleaseNone, fixed, shadow, heap, history
<1>s. slots' = slots
  BY DEF ReleaseNone, shadow, history
<1>o. \A s \in Threads \ {t} :
         /\ pc'[s] = pc[s] /\ back'[s] = back[s] /\ blk'[s] = blk[s]
         /\ req'[s] = req[s] /\ want'[s] = want[s] /\ (s \in early' <=> s \in early)
  BY <1>0 DEF CallTypes, ReleaseNone, Go
<1>1. StoreTypes' /\ CallTypes'
  <2>1. StoreTypes'
    BY <1>0, <1>u, <1>s DEF StoreTypes, ReleaseNone, fixed, shadow, heap, history
  <2>2. CallTypes'
    BY <1>0, Bounds DEF CallTypes, Steps, CallShape, ReleaseNone, Go, NeedsRow, Ready, NotReady
  <2>. QED
    BY <2>1, <2>2
<1>2. CallShapes'
  <2>1. CallShape(t)'
    BY <1>0, <1>u, Bounds
       DEF CallTypes, CallShape, Taking, Fits, AtLeast, ReleaseNone, Go, NeedsRow, Ready, NotReady
  <2>. QED
    BY <1>0, <1>o, <1>u, <2>1, ShapesOfOthers
<1>3. Tables'
  BY <1>0, <1>s, <1>o
     DEF CallTypes, Tables, CallShape, ReleaseNone, Go, NeedsRow, Ready, NotReady, fixed, shadow
<1>x. \A s \in stray : /\ s \in Threads /\ pc[s] \in {"config", "release"}
                       /\ back[s] = "release" /\ row /\ rows = 2 /\ cfg = 2
  BY StrayIs
<1>4. /\ \A s \in Threads : Releasing(s)' => Releasing(s)
      /\ \A s \in Threads : Releasing(s) /\ ~Releasing(s)' => slots[blk[s]].st = "never"
  BY <1>0, <1>o, Bounds
     DEF CallTypes, Releasing, CallShape, Tables, Blank, Never, ReleaseNone, Go, NeedsRow, Ready,
         NotReady
<1>5. /\ \A s \in stray : pc'[s] \in {"config", "release"} /\ back'[s] = "release"
      /\ \A s \in Threads : pc'[s] = "freeing" => pc[s] = "freeing"
  BY <1>0, <1>o, <1>x DEF CallTypes, CallShape, ReleaseNone, Go, NeedsRow, Ready,
         NotReady
<1>. QED
  BY <1>1, <1>2, <1>3, <1>4, <1>5, <1>u, <1>s, CallStep DEF TypeOK

-----------------------------------------------------------------------------
(* The program. *)
LEMMA CallFreeStep ==
    ASSUME CheckInv, NEW t \in Threads, NEW p \in Units, CallFree(t, p)
    PROVE  CheckInv'
<1>0. /\ StoreTypes /\ CallTypes /\ CallShapes /\ CallShape(t) /\ Tables /\ Sole /\ SoleAt(p)
      /\ SlotIsTrue(p) /\ Shadow /\ Marks /\ ProvenHasCause
  BY DEF CheckInv, CallShapes, TypeOK, Sole, Shadow
<1>u. /\ UNCHANGED <<fixed, shadow, heap, req, want, early, unseen, odd, overran, scribbled,
                     wrongs, verdict, raced, stray>>
      /\ pc[t] = "idle" /\ own[p] > 0
      /\ pc' = [pc EXCEPT ![t] = "config"] /\ back' = [back EXCEPT ![t] = "release"]
      /\ blk' = [blk EXCEPT ![t] = p] /\ own' = [own EXCEPT ![p] = 0]
  BY DEF CallFree
<1>p. p \in BlocksOf(size) /\ free[p] = 0 /\ \A s \in Threads : Has(s) # p
  <2>1. own[p] \in Nat /\ free[p] \in Nat
    BY <1>0, Bounds DEF StoreTypes
  <2>. QED
    BY <1>0, <1>u, <2>1 DEF SoleAt
<1>x. t \notin stray
  BY <1>u, StrayIs
<1>o. \A s \in Threads \ {t} :
         /\ pc'[s] = pc[s] /\ back'[s] = back[s] /\ blk'[s] = blk[s]
         /\ req'[s] = req[s] /\ want'[s] = want[s] /\ (s \in early' <=> s \in early)
  BY <1>0, <1>u DEF CallTypes
<1>t. pc'[t] = "config" /\ back'[t] = "release" /\ blk'[t] = p /\ blk[t] = None
  BY <1>0, <1>u DEF CallTypes, CallShape
<1>h. Has(t)' = p /\ Has(t) = None /\ pc'[t] # "freeing"
  BY <1>x, <1>t, <1>u DEF Has
<1>y. /\ Strays'
      /\ \A s \in Threads \ {t} :
            /\ Has(s)' = Has(s) /\ (Releasing(s)' <=> Releasing(s))
            /\ (pc'[s] = "freeing" <=> pc[s] = "freeing")
  BY <1>o, <1>u, <1>x, OthersStay DEF shadow, heap
<1>n. own'[p] = 0 /\ \A u \in Units : u # p => own'[u] = own[u]
  BY <1>0, <1>u DEF StoreTypes
<1>1. StoreTypes'
  <2>1. own' \in [Units -> 0 .. ChunkUnits]
    BY <1>0, <1>u, Bounds DEF StoreTypes
  <2>. QED
    BY <1>0, <1>u, <2>1 DEF StoreTypes, fixed, shadow, heap
<1>2. CallTypes'
  BY <1>0, <1>u DEF CallTypes, Steps
<1>3. CallShapes'
  <2>1. CallShape(t)'
    BY <1>0, <1>t, Bounds DEF CallShape, Taking
  <2>. QED
    BY <1>0, <1>o, <1>u, <2>1, ShapesOfOthers DEF fixed, heap
<1>4. Tables'
  BY <1>0, <1>u, <1>t, <1>o DEF Tables, shadow
<1>5. SoleAt(p)'
  <2>1. free' = free /\ size' = size /\ size \in Nat
    BY <1>0, <1>u, Bounds DEF heap, StoreTypes
  <2>2. \A s \in Threads : Has(s)' = p <=> s = t
    BY <1>p, <1>h, <1>y
  <2>. QED
    BY <1>p, <1>n, <2>1, <2>2 DEF SoleAt, BlocksOf
<1>6. SlotIsTrue(p)'
  <2>1. Releasing(t)' /\ UNCHANGED <<level, size, free, slots, unseen, odd>>
    BY <1>t, <1>u, <1>x DEF Releasing, fixed, shadow, heap
  <2>2. \A s \in Threads : Has(s)' = p => s = t
    BY <1>p, <1>y
  <2>. HIDE DEF Releasing
  <2>. QED
    BY <1>0, <1>u, <1>p, <1>n, <1>h, <2>1, <2>2 DEF SlotIsTrue, Alive, Fits, AtLeast
<1>7. CanaryAt(p)' /\ PoisonAt(p)' /\ ScribbleAt(p)'
  BY <1>0, <1>u, MarkStays DEF fixed, shadow, heap
<1>8. \A s \in Threads : Has(s)' = p /\ Releasing(s)' => Alive(p)' \/ p \in unseen'
  BY <1>0, <1>u DEF SlotIsTrue, Alive, shadow
<1>9. /\ \A s \in Threads : Has(s) # p /\ Has(s) \in Units => (Releasing(s)' <=> Releasing(s))
      /\ \A u \in Units \ {p} : \A s \in Threads : Has(s)' = u <=> Has(s) = u
  BY <1>h, <1>y, Bounds
<1>13. \A s \in Threads : pc'[s] = "freeing" => pc[s] = "freeing" /\ Has(s) # p
  BY <1>h, <1>p, <1>y
<1>10. ProvenHasCause'
  BY <1>0, <1>u, VerdictStays
<1>11. rowLive' = rowLive /\ (Alive(p)' <=> Alive(p)) /\ UNCHANGED <<level, size, mem>>
  BY <1>u DEF Alive, fixed, shadow, heap
<1>12. \A u \in Units \ {p} :
          /\ free'[u] = free[u] /\ own'[u] = own[u]
          /\ slots'[u] = slots[u] /\ odd'[u] = odd[u] /\ (u \in unseen' <=> u \in unseen)
          /\ (u \in overran' <=> u \in overran) /\ (u \in scribbled' <=> u \in scribbled)
  BY <1>u, <1>n DEF shadow, heap
<1>. QED
  BY <1>p, <1>1, <1>2, <1>3, <1>4, <1>5, <1>6, <1>7, <1>8, <1>9, <1>10, <1>11, <1>12,
     <1>13, <1>y, BlockStep

(* What the program does outside the calls.                                 *)
LEMMA ProgramStep ==
    ASSUME CheckInv, NEW p \in BlocksOf(size), UNCHANGED <<fixed, shadow, size, call>>,
           StoreTypes', ProvenHasCause', \A u \in unseen : u \in unseen',
           \A u \in Units \ {p} :
               /\ free'[u] = free[u] /\ own'[u] = own[u] /\ odd'[u] = odd[u]
               /\ (u \in unseen' <=> u \in unseen)
               /\ (u \in overran' <=> u \in overran) /\ (u \in scribbled' <=> u \in scribbled),
           \A u \in Units : mem'[u] # mem[u] => \E j \in 0 .. size : u = p + j,
           \A s \in Threads : Has(s) # p,
           SoleAt(p)', SlotIsTrue(p)', CanaryAt(p)', PoisonAt(p)', ScribbleAt(p)'
    PROVE  CheckInv'
<1>0. CallTypes /\ CallShapes /\ Tables /\ Shadow /\ size \in Sizes
  BY DEF CheckInv, TypeOK, StoreTypes
<1>1. CallTypes'
  BY <1>0 DEF CallTypes, call
<1>2. CallShapes'
  BY <1>0 DEF CallShapes, CallShape, Taking, Fits, AtLeast, call, fixed
<1>3. Tables'
  BY <1>0 DEF Tables, call, shadow
<1>4. \A s \in Threads : /\ (Releasing(s)' <=> Releasing(s)) /\ Has(s)' = Has(s)
                          /\ pc'[s] = pc[s]
  BY DEF Releasing, Has, call
<1>9. Strays'
  BY DEF CheckInv, Strays, call, shadow
<1>10. \A s \in Threads : pc'[s] = "freeing" => pc[s] = "freeing" /\ Has(s) # p
  BY <1>4
<1>5. \A s \in Threads : Has(s)' = p /\ Releasing(s)' => Alive(p)' \/ p \in unseen'
  BY <1>0, <1>4 DEF Shadow, Alive, shadow
<1>6. rowLive' = rowLive /\ (Alive(p)' <=> Alive(p)) /\ UNCHANGED <<level, size>>
  BY DEF Alive, fixed, shadow
<1>7. \A u \in Units \ {p} : slots'[u] = slots[u]
  BY DEF shadow
<1>8. \A u \in Units \ {p} :
          /\ free'[u] = free[u] /\ own'[u] = own[u]
          /\ slots'[u] = slots[u] /\ odd'[u] = odd[u] /\ (u \in unseen' <=> u \in unseen)
          /\ (u \in overran' <=> u \in overran) /\ (u \in scribbled' <=> u \in scribbled)
          /\ \A s \in Threads : Has(s)' = u <=> Has(s) = u
  BY <1>4, <1>7
<1>. QED
  BY <1>1, <1>2, <1>3, <1>4, <1>5, <1>6, <1>8, <1>9, <1>10, BlockStep

(* A block that is free, or the program's.                                  *)
LEMMA NotHeld ==
    ASSUME CheckInv, NEW p \in Units, free[p] > 0 \/ own[p] > 0
    PROVE  /\ p \in BlocksOf(size) /\ SoleAt(p) /\ SlotIsTrue(p)
           /\ CanaryAt(p) /\ PoisonAt(p) /\ ScribbleAt(p)
           /\ \A s \in Threads : Has(s) # p
           /\ free[p] > 0 => own[p] = 0 /\ ~Alive(p) /\ free[p] = 1
           /\ own[p] > 0 => free[p] = 0
           /\ size \in Nat /\ size > 0 /\ p \in Nat /\ p >= 1 /\ p + size - 1 <= ChunkUnits
           /\ own[p] <= size /\ own[p] \in Nat
<1>1. /\ SoleAt(p) /\ SlotIsTrue(p) /\ CanaryAt(p) /\ PoisonAt(p) /\ ScribbleAt(p)
      /\ size \in Sizes /\ free[p] \in Nat /\ own[p] \in Nat
  BY Bounds DEF CheckInv, TypeOK, StoreTypes, Sole, Shadow, Marks
<1>2. p \in BlocksOf(size) /\ \A s \in Threads : Has(s) # p
  BY <1>1 DEF SoleAt
<1>3. size \in Nat /\ size > 0 /\ p \in Nat /\ p >= 1 /\ p + size - 1 <= ChunkUnits
  BY <1>1, <1>2, BlockIn
<1>4. free[p] > 0 => own[p] = 0 /\ ~Alive(p) /\ free[p] = 1
  BY <1>1, <1>2 DEF SoleAt, SlotIsTrue
<1>5. own[p] > 0 => free[p] = 0
  BY <1>1 DEF SoleAt
<1>6. own[p] <= size
  BY <1>1 DEF SoleAt
<1>. QED
  BY <1>1, <1>2, <1>3, <1>4, <1>5, <1>6

LEMMA ResizeStep ==
    ASSUME CheckInv, NEW p \in Units, NEW n \in Requests, Resize(p, n)
    PROVE  CheckInv'
<1>0. /\ StoreTypes /\ Marks /\ ProvenHasCause /\ n \in 0 .. ChunkUnits /\ n >= 1 /\ n \in Nat
  BY Bounds DEF CheckInv, TypeOK
<1>u. /\ UNCHANGED <<fixed, shadow, heap, call, unseen, overran, scribbled, wrongs, verdict,
                     raced>>
      /\ own[p] > 0 /\ n <= size
      /\ own' = [own EXCEPT ![p] = n] /\ odd' = [odd EXCEPT ![p] = @ \cup {"resize"}]
  BY DEF Resize
<1>p. /\ p \in BlocksOf(size) /\ SoleAt(p) /\ SlotIsTrue(p)
      /\ CanaryAt(p) /\ PoisonAt(p) /\ ScribbleAt(p) /\ free[p] = 0
      /\ \A s \in Threads : Has(s) # p
  BY <1>0, <1>u, NotHeld, Bounds DEF StoreTypes
<1>n. /\ own'[p] = n /\ odd'[p] = odd[p] \cup {"resize"}
      /\ \A u \in Units : u # p => own'[u] = own[u] /\ odd'[u] = odd[u]
  BY <1>0, <1>u DEF StoreTypes
<1>1. StoreTypes'
  <2>1. own' \in [Units -> 0 .. ChunkUnits]
    BY <1>0, <1>u DEF StoreTypes
  <2>2. odd' \in [Units -> SUBSET {"door", "resize", "recycle", "early"}]
    BY <1>0, <1>u DEF StoreTypes
  <2>. QED
    BY <1>0, <1>u, <2>1, <2>2 DEF StoreTypes, fixed, shadow, heap
<1>2. SoleAt(p)'
  BY <1>0, <1>u, <1>p, <1>n DEF SoleAt, Has, heap, call, BlocksOf
<1>3. SlotIsTrue(p)'
  BY <1>0, <1>u, <1>p, <1>n
     DEF SlotIsTrue, Alive, Releasing, Has, Fits, AtLeast, fixed, shadow, heap, call
<1>4. CanaryAt(p)'
  BY <1>u, <1>p, <1>n DEF CanaryAt, Alive, Fits, AtLeast, fixed, shadow, heap
<1>5. PoisonAt(p)'
  BY <1>u, <1>p, <1>n DEF PoisonAt, AtLeast, Filled, BlocksOf, fixed, shadow, heap
<1>6. ScribbleAt(p)'
  BY <1>u, <1>p, <1>n DEF ScribbleAt, Filled, BlocksOf, shadow, heap
<1>7. ProvenHasCause'
  BY <1>0, <1>u, VerdictStays
<1>8. \A u \in Units \ {p} :
          /\ free'[u] = free[u] /\ own'[u] = own[u] /\ odd'[u] = odd[u]
          /\ (u \in unseen' <=> u \in unseen)
          /\ (u \in overran' <=> u \in overran) /\ (u \in scribbled' <=> u \in scribbled)
  BY <1>u, <1>n DEF heap
<1>9. UNCHANGED <<fixed, shadow, size, call, mem, unseen>>
  BY <1>u DEF heap
<1>. QED
  BY <1>p, <1>1, <1>2, <1>3, <1>4, <1>5, <1>6, <1>7, <1>8, <1>9, ProgramStep

(* A use of what the program has: the canary is behind it.                  *)
LEMMA UseStep ==
    ASSUME CheckInv, NEW p \in Units, NEW i \in Units, Use(p, i)
    PROVE  CheckInv'
<1>0. /\ StoreTypes /\ Marks /\ ProvenHasCause /\ i \in Nat /\ i >= 1
  BY Bounds DEF CheckInv, TypeOK
<1>u. /\ UNCHANGED <<fixed, shadow, region, size, free, call, history>>
      /\ i <= own[p] /\ mem' = [mem EXCEPT ![p + i - 1] = "other"]
  BY DEF Use
<1>v. UNCHANGED <<own, unseen, odd, overran, scribbled, wrongs, verdict, raced, slots, level>>
  BY <1>u DEF history, shadow, fixed
<1>o. own[p] > 0
  BY <1>0, <1>u, Bounds DEF StoreTypes
<1>p. /\ p \in BlocksOf(size) /\ SoleAt(p) /\ SlotIsTrue(p)
      /\ CanaryAt(p) /\ PoisonAt(p) /\ ScribbleAt(p) /\ free[p] = 0
      /\ \A s \in Threads : Has(s) # p
      /\ size \in Nat /\ p \in Nat /\ p >= 1 /\ p + size - 1 <= ChunkUnits
      /\ own[p] <= size /\ own[p] \in Nat
  BY <1>o, NotHeld
<1>n. \A u \in Units : mem'[u] = IF u = p + i - 1 THEN "other" ELSE mem[u]
  BY <1>0, <1>u DEF StoreTypes
<1>1. StoreTypes'
  <2>1. mem' \in [Units -> {"other", "canary", "poison"}]
    BY <1>0, <1>u DEF StoreTypes
  <2>. QED
    BY <1>0, <1>u, <1>v, <2>1 DEF StoreTypes, fixed, shadow
<1>2. SoleAt(p)'
  BY <1>u, <1>v, <1>p DEF SoleAt, Has, call, BlocksOf
<1>3. SlotIsTrue(p)'
  BY <1>u, <1>v, <1>p DEF SlotIsTrue, Alive, Releasing, Has, Fits, AtLeast, call
<1>4. CanaryAt(p)'
  <2>. SUFFICES ASSUME Alive(p), AtLeast("canary")
                PROVE  /\ Fits(slots[p].req) /\ p \notin overran /\ "resize" \notin odd[p] =>
                              \A u \in Guard(p, slots[p].req) : mem'[u] = "canary"
                       /\ p \in overran /\ odd[p] = {} => mem'[p + slots[p].req] # "canary"
    BY <1>u, <1>v DEF CanaryAt, Alive, AtLeast, Fits
  <2>1. slots[p].req \in Nat /\ slots[p].req >= 1
    BY <1>p, RequestIs DEF SlotIsTrue
  <2>2. "resize" \notin odd[p] => own[p] = slots[p].req
    BY <1>p, <1>o DEF SlotIsTrue
  <2>3. odd[p] = {} => Fits(slots[p].req)
    BY <1>p DEF SlotIsTrue
  <2>4. ASSUME Fits(slots[p].req) PROVE p + slots[p].req \in Units
    <3>1. PICK r \in Nat : r = slots[p].req /\ r >= 1
      BY <2>1
    <3>0. CanaryUnits \in Nat /\ CanaryUnits > 0 /\ ChunkUnits \in Nat
      BY Bounds
    <3>4. size \in Nat /\ p \in Nat /\ p >= 1 /\ p + size - 1 <= ChunkUnits
      BY <1>p
    <3>2. r + 1 <= size
      BY <2>4, <3>0, <3>1, <3>4 DEF Fits
    <3>3. p + r \in 1 .. ChunkUnits
      BY <3>0, <3>1, <3>2, <3>4
    <3>. QED
      BY <3>1, <3>3, Bounds
  <2>5. ASSUME "resize" \notin odd[p], NEW u \in Guard(p, slots[p].req) PROVE mem'[u] = mem[u]
    <3>1. u \in Units /\ u >= p + slots[p].req
      BY <2>5 DEF Guard
    <3>2. u \in Nat /\ i <= slots[p].req
      BY <1>u, <2>2, <2>5, <3>1, Bounds
    <3>3. u # p + i - 1
      BY <1>0, <1>p, <2>1, <3>1, <3>2
    <3>. QED
      BY <1>n, <3>1, <3>3
  <2>. QED
    BY <1>p, <1>n, <2>3, <2>4, <2>5 DEF CanaryAt
<1>5. PoisonAt(p)'
  BY <1>o, <1>p, <1>v DEF PoisonAt, AtLeast, SlotIsTrue, Alive
<1>6. ScribbleAt(p)'
  <2>1. \A k \in Filled : p + k - 1 \in Units
    BY <1>p, Bounds DEF Filled
  <2>2. \A k \in Filled : mem[p + k - 1] # "poison" => mem'[p + k - 1] # "poison"
    BY <1>n, <2>1
  <2>. QED
    BY <1>u, <1>v, <1>p, <2>2 DEF ScribbleAt, Filled, BlocksOf
<1>7. ProvenHasCause'
  BY <1>0, <1>v, VerdictStays
<1>8. \A u \in Units : mem'[u] # mem[u] => \E j \in 0 .. size : u = p + j
  <2>1. i - 1 \in 0 .. size /\ p + i - 1 = p + (i - 1)
    BY <1>0, <1>u, <1>p
  <2>. QED
    BY <1>n, <2>1
<1>9. UNCHANGED <<fixed, shadow, size, call, free, unseen>>
  BY <1>u, <1>v
<1>. QED
  BY <1>p, <1>v, <1>1, <1>2, <1>3, <1>4, <1>5, <1>6, <1>7, <1>8, <1>9, ProgramStep

(* A write behind what it has.                                              *)
LEMMA OverrunStep ==
    ASSUME CheckInv, NEW p \in Units, Overrun(p)
    PROVE  CheckInv'
<1>0. /\ StoreTypes /\ Marks /\ ProvenHasCause /\ setup.wrongs \in Nat /\ wrongs \in Nat
  BY SetupIs DEF CheckInv, TypeOK, StoreTypes
<1>u. /\ UNCHANGED <<fixed, shadow, region, size, free, call, own, unseen, odd, scribbled,
                     verdict, raced>>
      /\ own[p] > 0 /\ p + own[p] \in Units /\ wrongs < setup.wrongs /\ wrongs' = wrongs + 1
      /\ mem' = [mem EXCEPT ![p + own[p]] = "other"] /\ overran' = overran \cup {p}
  BY DEF Overrun, Wrong
<1>v. UNCHANGED <<slots, level, setup>>
  BY <1>u DEF shadow, fixed
<1>p. /\ p \in BlocksOf(size) /\ SoleAt(p) /\ SlotIsTrue(p)
      /\ CanaryAt(p) /\ PoisonAt(p) /\ ScribbleAt(p) /\ free[p] = 0
      /\ \A s \in Threads : Has(s) # p
      /\ size \in Nat /\ p \in Nat /\ p >= 1 /\ p + size - 1 <= ChunkUnits
      /\ own[p] <= size /\ own[p] \in Nat
  BY <1>u, NotHeld
<1>n. \A u \in Units : mem'[u] = IF u = p + own[p] THEN "other" ELSE mem[u]
  BY <1>0, <1>u DEF StoreTypes
<1>1. StoreTypes'
  <2>1. mem' \in [Units -> {"other", "canary", "poison"}]
    BY <1>0, <1>u DEF StoreTypes
  <2>2. wrongs' \in 0 .. setup'.wrongs
    BY <1>0, <1>u, <1>v
  <2>. QED
    BY <1>0, <1>u, <1>v, <2>1, <2>2 DEF StoreTypes, fixed, shadow
<1>2. SoleAt(p)'
  BY <1>u, <1>v, <1>p DEF SoleAt, Has, call, BlocksOf
<1>3. SlotIsTrue(p)'
  BY <1>u, <1>v, <1>p DEF SlotIsTrue, Alive, Releasing, Has, Fits, AtLeast, call
<1>4. CanaryAt(p)'
  <2>1. Alive(p) /\ odd[p] = {} => own[p] = slots[p].req
    BY <1>p, <1>u DEF SlotIsTrue
  <2>2. mem'[p + own[p]] # "canary"
    BY <1>n, <1>u
  <2>. QED
    BY <1>u, <1>v, <2>1, <2>2 DEF CanaryAt, Alive, AtLeast
<1>5. PoisonAt(p)'
  BY <1>u, <1>p, <1>v DEF PoisonAt, AtLeast, SlotIsTrue, Alive
<1>6. ScribbleAt(p)'
  <2>1. \A k \in Filled : p + k - 1 \in Units
    BY <1>p, Bounds DEF Filled
  <2>2. \A k \in Filled : mem[p + k - 1] # "poison" => mem'[p + k - 1] # "poison"
    BY <1>n, <2>1
  <2>. QED
    BY <1>u, <1>v, <1>p, <2>2 DEF ScribbleAt, Filled, BlocksOf
<1>7. ProvenHasCause'
  BY <1>0, <1>u, VerdictStays
<1>8. \A u \in Units : mem'[u] # mem[u] => \E j \in 0 .. size : u = p + j
  BY <1>n, <1>p
<1>9. /\ UNCHANGED <<fixed, shadow, size, call, free, unseen, own, odd, scribbled>>
      /\ \A u \in Units \ {p} : u \in overran' <=> u \in overran
  BY <1>u
<1>. QED
  BY <1>p, <1>1, <1>2, <1>3, <1>4, <1>5, <1>6, <1>7, <1>8, <1>9, ProgramStep

(* A write into a released block.                                           *)
LEMMA ScribbleStep ==
    ASSUME CheckInv, NEW p \in Units, NEW i \in Units, Scribble(p, i)
    PROVE  CheckInv'
<1>0. /\ StoreTypes /\ Marks /\ ProvenHasCause /\ setup.wrongs \in Nat /\ wrongs \in Nat
  BY SetupIs DEF CheckInv, TypeOK, StoreTypes
<1>u. /\ UNCHANGED <<fixed, shadow, region, size, free, call, own, unseen, odd, overran,
                     verdict, raced>>
      /\ free[p] > 0 /\ i \in Filled /\ wrongs < setup.wrongs /\ wrongs' = wrongs + 1
      /\ slots[p].st = "freed"
      /\ mem' = [mem EXCEPT ![p + i - 1] = "other"] /\ scribbled' = scribbled \cup {p}
  BY DEF Scribble, Wrong
<1>v. UNCHANGED <<slots, level, setup>>
  BY <1>u DEF shadow, fixed
<1>p. /\ p \in BlocksOf(size) /\ SoleAt(p) /\ SlotIsTrue(p)
      /\ CanaryAt(p) /\ PoisonAt(p) /\ ScribbleAt(p) /\ ~Alive(p)
      /\ \A s \in Threads : Has(s) # p
      /\ size \in Nat /\ p \in Nat /\ p >= 1 /\ p + size - 1 <= ChunkUnits
  BY <1>u, NotHeld
<1>i. p + i - 1 \in Units /\ i - 1 \in 0 .. size /\ p + i - 1 = p + (i - 1)
  BY <1>u, <1>p, Bounds DEF Filled
<1>n. \A u \in Units : mem'[u] = IF u = p + i - 1 THEN "other" ELSE mem[u]
  BY <1>0, <1>u DEF StoreTypes
<1>1. StoreTypes'
  <2>1. mem' \in [Units -> {"other", "canary", "poison"}]
    BY <1>0, <1>u DEF StoreTypes
  <2>2. wrongs' \in 0 .. setup'.wrongs
    BY <1>0, <1>u, <1>v
  <2>. QED
    BY <1>0, <1>u, <1>v, <2>1, <2>2 DEF StoreTypes, fixed, shadow
<1>2. SoleAt(p)'
  BY <1>u, <1>v, <1>p DEF SoleAt, Has, call, BlocksOf
<1>3. SlotIsTrue(p)'
  BY <1>u, <1>v, <1>p DEF SlotIsTrue, Alive, Releasing, Has, Fits, AtLeast, call
<1>4. CanaryAt(p)'
  BY <1>v, <1>p DEF CanaryAt, Alive
<1>5. PoisonAt(p)'
  BY <1>u DEF PoisonAt
<1>6. ScribbleAt(p)'
  <2>1. mem'[p + i - 1] # "poison"
    BY <1>n, <1>i
  <2>. QED
    BY <1>u, <1>v, <1>p, <2>1 DEF ScribbleAt, Filled, BlocksOf
<1>7. ProvenHasCause'
  BY <1>0, <1>u, VerdictStays
<1>8. \A u \in Units : mem'[u] # mem[u] => \E j \in 0 .. size : u = p + j
  BY <1>n, <1>i
<1>9. /\ UNCHANGED <<fixed, shadow, size, call, free, unseen, own, odd, overran>>
      /\ \A u \in Units \ {p} : u \in scribbled' <=> u \in scribbled
  BY <1>u
<1>. QED
  BY <1>p, <1>1, <1>2, <1>3, <1>4, <1>5, <1>6, <1>7, <1>8, <1>9, ProgramStep

(* A release that is not its caller's begins: it has nothing by right.      *)
LEMMA FreeAgainStep ==
    ASSUME CheckInv, NEW t \in Threads, NEW p \in Units, FreeAgain(t, p)
    PROVE  CheckInv'
<1>0. /\ StoreTypes /\ CallTypes /\ CallShapes /\ CallShape(t) /\ Tables /\ ProvenHasCause
      /\ Strays /\ Shadow /\ setup.wrongs \in Nat /\ wrongs \in Nat
  BY SetupIs DEF CheckInv, CallShapes, TypeOK, StoreTypes
<1>u. /\ UNCHANGED <<fixed, shadow, heap, req, want, early, own, unseen, odd, overran, scribbled,
                     verdict, raced>>
      /\ wrongs < setup.wrongs /\ wrongs' = wrongs + 1 /\ pc[t] = "idle"
      /\ p \in BlocksOf(size) /\ slots[p].st # "never"
      /\ pc' = [pc EXCEPT ![t] = "config"] /\ back' = [back EXCEPT ![t] = "release"]
      /\ blk' = [blk EXCEPT ![t] = p] /\ stray' = stray \cup {t}
  BY DEF FreeAgain, Wrong
<1>v. UNCHANGED <<level, setup, size, slots, rowLive, free, mem, row, rows, cfg>>
  BY <1>u DEF fixed, shadow, heap
<1>o. \A s \in Threads \ {t} :
         /\ pc'[s] = pc[s] /\ back'[s] = back[s] /\ blk'[s] = blk[s]
         /\ req'[s] = req[s] /\ want'[s] = want[s] /\ (s \in early' <=> s \in early)
  BY <1>0, <1>u DEF CallTypes
<1>t. /\ pc'[t] = "config" /\ back'[t] = "release" /\ blk'[t] = p /\ blk[t] = None
      /\ back[t] = "idle"
  BY <1>0, <1>u DEF CallTypes, CallShape
<1>1. StoreTypes'
  <2>1. wrongs' \in 0 .. setup'.wrongs
    BY <1>0, <1>u, <1>v
  <2>. QED
    BY <1>0, <1>u, <2>1 DEF StoreTypes, fixed, shadow, heap
<1>2. CallTypes'
  BY <1>0, <1>u DEF CallTypes, Steps
<1>3. CallShapes'
  <2>1. CallShape(t)'
    BY <1>0, <1>t, Bounds DEF CallShape, Taking
  <2>. QED
    BY <1>0, <1>o, <1>v, <2>1, ShapesOfOthers
<1>4. Tables'
  BY <1>0, <1>v, <1>t, <1>o DEF Tables
<1>5. Strays'
  <2>1. \A s \in stray : s # t => s \in Threads \ {t}
    BY StrayIs
  <2>. QED
    BY <1>0, <1>u, <1>v, <1>o, <1>t, <2>1 DEF Strays
<1>6. ProvenHasCause'
  BY <1>0, <1>u, VerdictStays
<1>7. \A s \in Threads : Has(s)' = Has(s)
  BY <1>u, <1>o, <1>t DEF Has
<1>8. \A s \in Threads : Releasing(s)' <=> Releasing(s)
  BY <1>u, <1>o, <1>t DEF Releasing
<1>9. \A s \in Threads : pc'[s] = "freeing" => Alive(Has(s))
  BY <1>0, <1>o, <1>t DEF Shadow
<1>. HIDE DEF Releasing
<1>. QED
  BY <1>1, <1>2, <1>3, <1>4, <1>5, <1>6, <1>7, <1>8, <1>9, <1>u, <1>v, LocalStep DEF TypeOK

(* A door takes a block behind the checker's back.                          *)
LEMMA DoorAllocStep ==
    ASSUME CheckInv, NEW t \in Threads, NEW n \in Requests, DoorAlloc(t, n)
    PROVE  CheckInv'
<1>0. /\ StoreTypes /\ Marks /\ ProvenHasCause /\ n \in 0 .. ChunkUnits /\ n >= 1 /\ n \in Nat
      /\ size \in Sizes
  BY RequestIs DEF CheckInv, TypeOK, StoreTypes
<1>q. PICK p \in BlocksOf(size) : /\ free[p] > 0 /\ free' = [free EXCEPT ![p] = @ - 1]
                                  /\ own' = [own EXCEPT ![p] = n]
                                  /\ unseen' = unseen \cup {p}
                                  /\ odd' = [odd EXCEPT ![p] = @ \cup {"door"}]
  BY DEF DoorAlloc
<1>u. /\ UNCHANGED <<fixed, shadow, size, mem, call, overran, scribbled, wrongs, verdict,
                     raced>>
      /\ region' = TRUE
  BY DEF DoorAlloc
<1>v. UNCHANGED <<slots, level, setup, blk>>
  BY <1>u DEF shadow, fixed, call
<1>r. n <= size
  BY <1>0, ClassHasRoom DEF DoorAlloc
<1>p. /\ p \in Units /\ SoleAt(p) /\ SlotIsTrue(p) /\ ~Alive(p) /\ free[p] = 1
      /\ \A s \in Threads : Has(s) # p
  BY <1>0, <1>q, BlockIn, NotHeld
<1>n. /\ free'[p] = 0 /\ own'[p] = n /\ odd'[p] = odd[p] \cup {"door"} /\ p \in unseen'
      /\ \A u \in Units : u # p =>
            /\ free'[u] = free[u] /\ own'[u] = own[u] /\ odd'[u] = odd[u]
            /\ (u \in unseen' <=> u \in unseen)
  BY <1>0, <1>q, <1>p DEF StoreTypes
<1>1. StoreTypes'
  <2>1. own' \in [Units -> 0 .. ChunkUnits]
    BY <1>0, <1>q DEF StoreTypes
  <2>2. free' \in [Units -> Nat]
    BY <1>0, <1>q, <1>p DEF StoreTypes
  <2>3. odd' \in [Units -> SUBSET {"door", "resize", "recycle", "early"}]
    BY <1>0, <1>q DEF StoreTypes
  <2>4. unseen' \subseteq Units
    BY <1>0, <1>q, <1>p DEF StoreTypes
  <2>. QED
    BY <1>0, <1>u, <1>v, <2>1, <2>2, <2>3, <2>4 DEF StoreTypes, fixed, shadow
<1>2. SoleAt(p)'
  BY <1>0, <1>r, <1>u, <1>v, <1>p, <1>n, <1>q DEF SoleAt, Has, call, BlocksOf
<1>3. SlotIsTrue(p)'
  BY <1>u, <1>v, <1>p, <1>n, <1>q 
     DEF SlotIsTrue, Alive, Releasing, Has, Fits, AtLeast, call, BlocksOf
<1>4. CanaryAt(p)' /\ PoisonAt(p)' /\ ScribbleAt(p)'
  BY <1>v, <1>p, <1>n DEF CanaryAt, Alive, PoisonAt, ScribbleAt
<1>7. ProvenHasCause'
  BY <1>0, <1>u, VerdictStays
<1>8. UNCHANGED <<fixed, shadow, size, call, mem, overran, scribbled>>
  BY <1>u
<1>9. \A u \in unseen : u \in unseen'
  BY <1>q
<1>. QED
  BY <1>q, <1>n, <1>p, <1>1, <1>2, <1>3, <1>4, <1>7, <1>8, <1>9, ProgramStep

(* The chunk comes back as one of another class: nothing in it is held.     *)
LEMMA RecycleStep ==
    ASSUME CheckInv, NEW s \in Sizes, Recycle(s)
    PROVE  CheckInv'
<1>0. /\ StoreTypes /\ CallTypes /\ CallShapes /\ Strays /\ Tables /\ Sole /\ Shadow
      /\ ProvenHasCause
  BY DEF CheckInv, TypeOK
<1>u. /\ UNCHANGED <<fixed, shadow, region, call, own, unseen, overran, scribbled, wrongs,
                     verdict, raced>>
      /\ size' = s
      /\ free' = [u \in Units |-> IF u \in BlocksOf(s) THEN 1 ELSE 0]
      /\ mem' \in {mem, [u \in Units |-> "other"]}
      /\ odd' = [u \in Units |-> odd[u] \cup {"recycle"}]
      /\ \A p \in BlocksOf(size) : free[p] = 1
      /\ \A t \in Threads : blk[t] = None
  BY DEF Recycle
<1>v. UNCHANGED <<slots, level, setup, blk, rowLive, pc, back, req, want, early, stray>>
  BY <1>u DEF shadow, fixed, call
<1>n. \A u \in Units : /\ free'[u] = IF u \in BlocksOf(s) THEN 1 ELSE 0
                       /\ odd'[u] = odd[u] \cup {"recycle"}
  BY <1>u
<1>e. \A u \in Units : /\ own[u] = 0 /\ ~Alive(u) /\ \A t \in Threads : Has(t) # u
                       /\ ~(slots[u].st = "freed" /\ u \in unseen)
  <2>. TAKE u \in Units
  <2>1. SoleAt(u) /\ SlotIsTrue(u) /\ own[u] \in Nat
    BY <1>0, Bounds DEF Sole, Shadow, StoreTypes
  <2>2. \A t \in Threads : Has(t) # u
    BY <1>u, Bounds DEF Has
  <2>3. own[u] = 0
    BY <1>u, <2>1 DEF SoleAt
  <2>4. ~Alive(u)
    BY <2>1, <2>2, <2>3 DEF SlotIsTrue
  <2>5. ~(slots[u].st = "freed" /\ u \in unseen)
    BY <1>u, <2>1 DEF SlotIsTrue
  <2>. QED
    BY <2>2, <2>3, <2>4, <2>5
<1>1. StoreTypes'
  <2>1. free' \in [Units -> Nat]
    BY <1>u
  <2>2. odd' \in [Units -> SUBSET {"door", "resize", "recycle", "early"}]
    BY <1>0, <1>u DEF StoreTypes
  <2>3. mem' \in [Units -> {"other", "canary", "poison"}]
    BY <1>0, <1>u DEF StoreTypes
  <2>. QED
    BY <1>0, <1>u, <1>v, <2>1, <2>2, <2>3 DEF StoreTypes, fixed, shadow
<1>2. CallTypes'
  BY <1>0, <1>v DEF CallTypes
<1>3. CallShapes'
  BY <1>0, <1>u, <1>v DEF CallShapes, CallShape, Taking, AtLeast
<1>4. Tables'
  BY <1>0, <1>u, <1>v DEF Tables, shadow
<1>9. \A t \in Threads : Has(t)' = Has(t) /\ Has(t) = None
  BY <1>u, <1>v DEF Has
<1>10. stray = {}
  BY <1>u, StrayIs, Bounds
<1>11. Strays'
  BY <1>10, <1>v DEF Strays
<1>5. Sole'
  BY <1>u, <1>v, <1>n, <1>e, <1>9, Bounds DEF Sole, SoleAt, BlocksOf
<1>6. Shadow'
  <2>1. ASSUME NEW u \in Units PROVE SlotIsTrue(u)'
    <3>1. SlotIsTrue(u)
      BY <1>0 DEF Shadow
    <3>2. own'[u] = 0 /\ ~Alive(u)' /\ ~(slots'[u].st = "freed" /\ u \in unseen')
      BY <1>e, <1>u, <1>v DEF Alive
    <3>3. u \in unseen' => {"door", "early"} \cap odd'[u] # {}
      BY <1>n, <1>u, <3>1 DEF SlotIsTrue
    <3>. QED
      BY <3>2, <3>3 DEF SlotIsTrue
  <2>2. \A t \in Threads : ~Releasing(t)'
    BY <1>0, <1>u, <1>v DEF CallShapes, CallShape, Releasing
  <2>3. rowLive' = Cardinality({u \in Units : Alive(u)'})
    BY <1>0, <1>v DEF Shadow, Alive
  <2>4. \A t \in Threads : pc'[t] # "freeing"
    BY <1>0, <1>u, <1>v DEF CallShapes, CallShape
  <2>. QED
    BY <2>1, <2>2, <2>3, <2>4 DEF Shadow
<1>7. Marks'
  BY <1>e, <1>v, <1>n DEF Marks, CanaryAt, PoisonAt, ScribbleAt, Alive
<1>8. ProvenHasCause'
  BY <1>0, <1>u, VerdictStays
<1>. QED
  BY <1>1, <1>2, <1>3, <1>4, <1>5, <1>6, <1>7, <1>8, <1>11 DEF CheckInv, TypeOK

-----------------------------------------------------------------------------
(* The calls, with their blocks.                                            *)

(* A call that ends leaves the others as they are.                          *)
LEMMA EndIs ==
    ASSUME CheckInv, NEW t \in Threads, End(t), UNCHANGED <<level, size>>,
           \A u \in Units : slots[u].st # "never" => slots'[u].st # "never"
    PROVE  /\ CallTypes' /\ CallShapes' /\ Strays'
           /\ pc'[t] = "idle" /\ back'[t] = "idle" /\ blk'[t] = None /\ ~Releasing(t)'
           /\ Has(t)' = None
           /\ \A s \in Threads \ {t} :
                 /\ Has(s)' = Has(s) /\ (pc'[s] = "freeing" <=> pc[s] = "freeing")
           /\ t \notin stray => stray' = stray
           /\ \A s \in Threads \ {t} :
                 /\ pc'[s] = pc[s] /\ back'[s] = back[s] /\ blk'[s] = blk[s]
                 /\ (Releasing(s)' <=> Releasing(s))
<1>0. CallTypes /\ CallShapes
  BY DEF CheckInv, TypeOK
<1>1. CallTypes'
  BY <1>0, Bounds DEF CallTypes, Steps, End
<1>2. pc'[t] = "idle" /\ back'[t] = "idle" /\ blk'[t] = None
  BY <1>0 DEF CallTypes, End
<1>3. \A s \in Threads \ {t} :
         /\ pc'[s] = pc[s] /\ back'[s] = back[s] /\ blk'[s] = blk[s]
         /\ req'[s] = req[s] /\ want'[s] = want[s] /\ (s \in early' <=> s \in early)
  BY <1>0 DEF CallTypes, End
<1>4. CallShape(t)'
  BY <1>2 DEF CallShape, Taking
<1>5. CallShapes'
  BY <1>0, <1>3, <1>4, ShapesOfOthers
<1>7. /\ Has(t)' = None
      /\ \A s \in Threads \ {t} :
            /\ Has(s)' = Has(s) /\ (pc'[s] = "freeing" <=> pc[s] = "freeing")
  BY <1>2, <1>3 DEF Has, End
<1>8. Strays'
  <2>1. ASSUME NEW s \in stray, s # t
        PROVE  /\ back'[s] = "release" /\ pc'[s] \in {"config", "release"}
               /\ blk'[s] \in BlocksOf(size) /\ slots'[blk'[s]].st # "never"
    <3>1. s \in Threads \ {t} /\ blk[s] \in Units
      BY <2>1, StrayIs
    <3>. QED
      BY <1>3, <3>1, StrayIs
  <2>. QED
    BY <2>1 DEF Strays, End
<1>9. t \notin stray => stray' = stray
  BY DEF End
<1>6. ~Releasing(t)' /\ \A s \in Threads \ {t} : Releasing(s)' <=> Releasing(s)
  BY <1>2, <1>3 DEF Releasing, End
<1>. QED
  BY <1>1, <1>2, <1>3, <1>5, <1>6, <1>7, <1>8, <1>9

(* A free block that a call takes.                                          *)
LEMMA TakenIs ==
    ASSUME CheckInv, NEW n \in Nat, NEW p \in Available(n), Pop(p)
    PROVE  /\ p \in BlocksOf(size) /\ p \in Units /\ n <= size
           /\ SoleAt(p) /\ SlotIsTrue(p) /\ CanaryAt(p) /\ PoisonAt(p) /\ ScribbleAt(p)
           /\ \A s \in Threads : Has(s) # p
           /\ own[p] = 0 /\ ~Alive(p) /\ free[p] = 1 /\ free'[p] = 0
           /\ ~(slots[p].st = "freed" /\ p \in unseen)
           /\ \A u \in Units : u # p => free'[u] = free[u]
           /\ free' \in [Units -> Nat] /\ region' = TRUE
<1>0. StoreTypes /\ size \in Sizes
  BY DEF CheckInv, TypeOK, StoreTypes
<1>1. p \in BlocksOf(size) /\ free[p] > 0 /\ Served(n) /\ ClassOf(n) = size
  BY DEF Available
<1>2. p \in Units /\ n <= size
  BY <1>0, <1>1, BlockIn, ClassHasRoom
<1>3. /\ SoleAt(p) /\ SlotIsTrue(p) /\ CanaryAt(p) /\ PoisonAt(p) /\ ScribbleAt(p)
      /\ \A s \in Threads : Has(s) # p
      /\ own[p] = 0 /\ ~Alive(p) /\ free[p] = 1
  BY <1>1, <1>2, NotHeld
<1>4. ~(slots[p].st = "freed" /\ p \in unseen)
  BY <1>3 DEF SlotIsTrue
<1>5. free' = [free EXCEPT ![p] = @ - 1] /\ region' = TRUE
  BY DEF Pop
<1>6. free'[p] = 0 /\ \A u \in Units : u # p => free'[u] = free[u]
  BY <1>0, <1>2, <1>3, <1>5 DEF StoreTypes
<1>7. free' \in [Units -> Nat]
  BY <1>0, <1>2, <1>3, <1>5 DEF StoreTypes
<1>. QED
  BY <1>1, <1>2, <1>3, <1>4, <1>5, <1>6, <1>7

(* The block a call has.                                                    *)
LEMMA HeldIs ==
    ASSUME CheckInv, NEW t \in Threads, Has(t) # None
    PROVE  /\ t \notin stray /\ Has(t) = blk[t]
           /\ Has(t) \in BlocksOf(size) /\ Has(t) \in Units /\ SoleAt(Has(t))
           /\ SlotIsTrue(Has(t)) /\ CanaryAt(Has(t)) /\ PoisonAt(Has(t)) /\ ScribbleAt(Has(t))
           /\ \A s \in Threads : Has(s) = Has(t) => s = t
           /\ own[Has(t)] = 0 /\ free[Has(t)] = 0
           /\ Alive(Has(t)) => Releasing(t)
           /\ Releasing(t) => Alive(Has(t)) \/ Has(t) \in unseen
           /\ size \in Sizes /\ size \in Nat /\ size > 0
           /\ Has(t) \in Nat /\ Has(t) >= 1 /\ Has(t) + size - 1 <= ChunkUnits
<1>0. CallTypes /\ StoreTypes /\ size \in Sizes /\ Sole /\ Shadow /\ Marks
  BY DEF CheckInv, TypeOK, StoreTypes
<1>9. t \notin stray /\ Has(t) = blk[t]
  BY DEF Has
<1>1. Has(t) \in Units
  BY <1>0, <1>9 DEF CallTypes
<1>2. /\ SoleAt(Has(t)) /\ SlotIsTrue(Has(t))
      /\ CanaryAt(Has(t)) /\ PoisonAt(Has(t)) /\ ScribbleAt(Has(t))
  BY <1>0, <1>1 DEF Sole, Shadow, Marks
<1>3. Has(t) \in BlocksOf(size) /\ \A s \in Threads : Has(s) = Has(t) => s = t
  BY <1>2 DEF SoleAt
<1>4. own[Has(t)] \in Nat /\ free[Has(t)] \in Nat
  BY <1>0, <1>1, Bounds DEF StoreTypes
<1>5. own[Has(t)] = 0 /\ free[Has(t)] = 0
  BY <1>2, <1>4 DEF SoleAt
<1>6. Alive(Has(t)) => Releasing(t)
  BY <1>2, <1>3, <1>5 DEF SlotIsTrue
<1>7. Releasing(t) => Alive(Has(t)) \/ Has(t) \in unseen
  BY <1>0 DEF Shadow
<1>8. /\ size \in Nat /\ size > 0
      /\ Has(t) \in Nat /\ Has(t) >= 1 /\ Has(t) + size - 1 <= ChunkUnits
  BY <1>0, <1>3, BlockIn
<1>. QED
  BY <1>0, <1>1, <1>2, <1>3, <1>5, <1>6, <1>7, <1>8, <1>9

LEMMA BodyStep ==
    ASSUME CheckInv, NEW t \in Threads, Body(t)
    PROVE  CheckInv'
<1>0. /\ StoreTypes /\ CallTypes /\ CallShapes /\ CallShape(t) /\ Tables /\ ProvenHasCause
      /\ Shadow
  BY DEF CheckInv, CallShapes, TypeOK
<1>u. /\ UNCHANGED <<fixed, shadow, size, mem, history>> /\ pc[t] = "body"
  BY DEF Body
<1>v. UNCHANGED <<level, slots, rowLive, own, unseen, odd, overran, scribbled, verdict,
                raced>>
  BY <1>u DEF fixed, shadow, history
<1>w. back[t] = "grow" /\ blk[t] = None /\ req[t] \in Requests /\ req[t] <= want[t]
  BY <1>0, <1>u DEF CallShape
<1>x. t \notin stray /\ Has(t) = None /\ ~Releasing(t)
  BY <1>u, <1>w, StrayIs DEF Has, Releasing
<1>1. CASE Available(want[t]) = {} /\ End(t) /\ UNCHANGED <<free, region>>
  <2>1. /\ CallTypes' /\ CallShapes' /\ blk'[t] = None /\ pc'[t] = "idle"
        /\ Has(t)' = None /\ Strays'
        /\ \A s \in Threads \ {t} :
              /\ pc'[s] = pc[s] /\ Has(s)' = Has(s) /\ (pc'[s] = "freeing" <=> pc[s] = "freeing")
        /\ ~Releasing(t)' /\ \A s \in Threads \ {t} : Releasing(s)' <=> Releasing(s)
    BY <1>1, <1>u, <1>v, EndIs
  <2>2. StoreTypes'
    BY <1>0, <1>1, <1>u DEF StoreTypes, fixed, shadow, history
  <2>3. Tables'
    BY <1>0, <1>u, <2>1 DEF Tables, shadow
  <2>4. \A s \in Threads : Has(s)' = Has(s)
    BY <1>x, <2>1
  <2>5. \A s \in Threads : pc'[s] = "freeing" => Alive(Has(s))
    BY <1>0, <2>1 DEF Shadow
  <2>6. ProvenHasCause'
    BY <1>0, <1>v, VerdictStays
  <2>. HIDE DEF Releasing
  <2>. QED
    BY <1>1, <1>u, <1>v, <1>x, <2>1, <2>2, <2>3, <2>4, <2>5, <2>6, LocalStep DEF TypeOK
<1>2. ASSUME NEW p \in Available(want[t]), Pop(p), blk' = [blk EXCEPT ![t] = p], Go(t, "record"),
             UNCHANGED <<req, want, back, early, stray>>
      PROVE  CheckInv'
  <2>1. want[t] \in Nat
    BY <1>0, Bounds DEF CallTypes
  <2>p. /\ p \in BlocksOf(size) /\ p \in Units /\ want[t] <= size
        /\ SoleAt(p) /\ SlotIsTrue(p) /\ CanaryAt(p) /\ PoisonAt(p) /\ ScribbleAt(p)
        /\ \A s \in Threads : Has(s) # p
        /\ own[p] = 0 /\ ~Alive(p) /\ free'[p] = 0
        /\ ~(slots[p].st = "freed" /\ p \in unseen)
        /\ \A u \in Units : u # p => free'[u] = free[u]
        /\ free' \in [Units -> Nat] /\ region' = TRUE
    BY <1>2, <2>1, TakenIs
  <2>t. pc'[t] = "record" /\ blk'[t] = p
    BY <1>0, <1>2 DEF CallTypes, Go
  <2>o. \A s \in Threads \ {t} : pc'[s] = pc[s] /\ blk'[s] = blk[s]
    BY <1>0, <1>2 DEF CallTypes, Go
  <2>h. /\ Strays' /\ Has(t)' = p
        /\ \A s \in Threads \ {t} :
              /\ Has(s)' = Has(s) /\ (Releasing(s)' <=> Releasing(s))
              /\ (pc'[s] = "freeing" <=> pc[s] = "freeing")
    <3>1. \A s \in Threads \ {t} : back'[s] = back[s]
      BY <1>2
    <3>2. Has(t)' = p
      BY <1>2, <1>x, <2>t DEF Has
    <3>. QED
      BY <1>2, <1>u, <1>v, <1>x, <2>o, <3>1, <3>2, OthersStay
  <2>2. StoreTypes'
    BY <1>0, <1>u, <2>p DEF StoreTypes, fixed, shadow, history
  <2>3. CallTypes'
    BY <1>0, <1>2, <2>p DEF CallTypes, Go, Steps
  <2>4. CallShapes'
    <3>1. size \in Nat /\ req[t] \in Nat
      BY <1>0, <1>w, <2>p, BlockIn, RequestIs DEF StoreTypes
    <3>2. req[t] <= size /\ (t \notin early /\ AtLeast("canary") => Fits(req[t]))
      BY <1>0, <1>u, <2>1, <2>p, <3>1 DEF CallShape, Fits
    <3>3. CallShape(t)'
      BY <1>2, <1>u, <1>v, <1>w, <2>p, <2>t, <3>2, Bounds DEF CallShape, Taking, Fits, AtLeast
    <3>. QED
      BY <1>0, <1>2, <1>u, <1>v, <2>o, <3>3, ShapesOfOthers
  <2>5. Tables'
    BY <1>0, <1>u, <2>t, <2>o DEF Tables, shadow, CallShape
  <2>6. SoleAt(p)'
    BY <1>u, <1>v, <2>p, <2>h DEF SoleAt, BlocksOf
  <2>7. /\ ~Releasing(t) /\ ~Releasing(t)'
        /\ \A s \in Threads \ {t} : (Releasing(s)' <=> Releasing(s))
    BY <1>2, <1>w, <2>h DEF Releasing
  <2>. HIDE DEF Releasing
  <2>8. SlotIsTrue(p)'
    BY <1>v, <2>p DEF SlotIsTrue, Alive
  <2>9. CanaryAt(p)' /\ PoisonAt(p)' /\ ScribbleAt(p)'
    BY <1>u, <1>v, <2>p, MarkStays DEF CheckInv
  <2>10. ProvenHasCause'
    BY <1>0, <1>v, VerdictStays
  <2>11. \A s \in Threads : Has(s)' = p /\ Releasing(s)' => Alive(p)' \/ p \in unseen'
    BY <2>h, <2>p, <2>7
  <2>12. /\ \A s \in Threads : Has(s) # p /\ Has(s) \in Units => (Releasing(s)' <=> Releasing(s))
         /\ \A u \in Units \ {p} : \A s \in Threads : Has(s)' = u <=> Has(s) = u
    BY <1>x, <2>h, <2>7, Bounds
  <2>15. \A s \in Threads : pc'[s] = "freeing" => pc[s] = "freeing" /\ Has(s) # p
    BY <2>h, <2>p, <2>t
  <2>13. rowLive' = rowLive /\ (Alive(p)' <=> Alive(p)) /\ UNCHANGED <<level, size, mem>>
    BY <1>u, <1>v DEF Alive
  <2>14. \A u \in Units \ {p} :
            /\ free'[u] = free[u] /\ own'[u] = own[u]
            /\ slots'[u] = slots[u] /\ odd'[u] = odd[u] /\ (u \in unseen' <=> u \in unseen)
            /\ (u \in overran' <=> u \in overran) /\ (u \in scribbled' <=> u \in scribbled)
    BY <1>v, <2>p
  <2>. QED
    BY <2>p, <2>2, <2>3, <2>4, <2>5, <2>6, <2>8, <2>9, <2>10, <2>11, <2>12, <2>13, <2>14,
       <2>15, <2>h, BlockStep
<1>. QED
  BY <1>1, <1>2 DEF Body

(* A block the program gets without a record.                               *)
LEMMA UnrecordedStep ==
    ASSUME CheckInv, NEW t \in Threads, NEW p \in BlocksOf(size),
           UNCHANGED <<fixed, shadow, size, mem>>, Unrecorded(t, p),
           free' \in [Units -> Nat], region' \in BOOLEAN,
           free'[p] = 0, \A u \in Units \ {p} : free'[u] = free[u],
           req[t] \in Requests, req[t] <= size, ~Alive(p), ~Releasing(t),
           Has(t) \in {None, p}, \A s \in Threads \ {t} : Has(s) # p, pc[t] # "freeing"
    PROVE  CheckInv'
<1>0. /\ StoreTypes /\ Tables /\ ProvenHasCause /\ SlotIsTrue(p) /\ p \in Units /\ p # None
      /\ req[t] \in 0 .. ChunkUnits
  <2>1. StoreTypes /\ Tables /\ ProvenHasCause /\ Shadow /\ size \in Sizes
    BY DEF CheckInv, TypeOK, StoreTypes
  <2>2. p \in Units /\ p # None
    BY <2>1, BlockIn, Bounds
  <2>3. req[t] \in 0 .. ChunkUnits
    BY RequestIs
  <2>. QED
    BY <2>1, <2>2, <2>3 DEF Shadow
<1>u. /\ own' = [own EXCEPT ![p] = req[t]] /\ unseen' = unseen \cup {p}
      /\ odd' = [odd EXCEPT ![p] = @ \cup {"early"}]
      /\ overran' = overran \ {p} /\ scribbled' = scribbled \ {p}
      /\ End(t) /\ wrongs' = wrongs /\ verdict' = verdict /\ raced' = raced
  BY DEF Unrecorded
<1>v. UNCHANGED <<level, slots, rowLive, setup, rows, row, cfg>>
  BY DEF fixed, shadow
<1>n. /\ own'[p] = req[t] /\ odd'[p] = odd[p] \cup {"early"} /\ p \in unseen' /\ p \notin scribbled'
      /\ \A u \in Units \ {p} :
            /\ own'[u] = own[u] /\ odd'[u] = odd[u] /\ (u \in unseen' <=> u \in unseen)
            /\ (u \in overran' <=> u \in overran) /\ (u \in scribbled' <=> u \in scribbled)
  BY <1>0, <1>u DEF StoreTypes
<1>1. /\ CallTypes' /\ CallShapes' /\ Strays'
      /\ Has(t)' = None /\ pc'[t] = "idle" /\ ~Releasing(t)'
      /\ \A s \in Threads \ {t} :
            /\ pc'[s] = pc[s] /\ Has(s)' = Has(s) /\ (pc'[s] = "freeing" <=> pc[s] = "freeing")
            /\ (Releasing(s)' <=> Releasing(s))
  BY <1>u, <1>v, EndIs
<1>2. StoreTypes'
  <2>1. own' \in [Units -> 0 .. ChunkUnits]
    BY <1>0, <1>u DEF StoreTypes
  <2>2. odd' \in [Units -> SUBSET {"door", "resize", "recycle", "early"}]
    BY <1>0, <1>u DEF StoreTypes
  <2>3. unseen' \subseteq Units /\ overran' \subseteq Units /\ scribbled' \subseteq Units
    BY <1>0, <1>u DEF StoreTypes
  <2>. QED
    BY <1>0, <1>u, <1>v, <2>1, <2>2, <2>3 DEF StoreTypes
<1>3. Tables'
  BY <1>0, <1>v, <1>1 DEF Tables
<1>4. \A s \in Threads : Has(s)' # p
  BY <1>0, <1>1
<1>5. SoleAt(p)'
  BY <1>n, <1>4 DEF SoleAt, BlocksOf
<1>6. SlotIsTrue(p)'
  BY <1>0, <1>v, <1>n, <1>4 DEF SlotIsTrue, Alive, BlocksOf
<1>7. CanaryAt(p)' /\ PoisonAt(p)' /\ ScribbleAt(p)'
  BY <1>v, <1>n DEF CanaryAt, PoisonAt, ScribbleAt, Alive
<1>8. ProvenHasCause'
  BY <1>0, <1>u, VerdictStays
<1>. HIDE DEF Releasing
<1>9. /\ \A s \in Threads : Has(s) # p /\ Has(s) \in Units => (Releasing(s)' <=> Releasing(s))
      /\ \A u \in Units \ {p} : \A s \in Threads : Has(s)' = u <=> Has(s) = u
  BY <1>1, Bounds
<1>10. \A s \in Threads : Has(s)' = p /\ Releasing(s)' => Alive(p)' \/ p \in unseen'
  BY <1>4
<1>13. \A s \in Threads : pc'[s] = "freeing" => pc[s] = "freeing" /\ Has(s) # p
  BY <1>1
<1>11. rowLive' = rowLive /\ (Alive(p)' <=> Alive(p)) /\ UNCHANGED <<level, size, mem>>
  BY <1>v DEF Alive
<1>12. \A u \in Units \ {p} : slots'[u] = slots[u]
  BY <1>v
<1>. QED
  BY <1>n, <1>1, <1>2, <1>3, <1>5, <1>6, <1>7, <1>8, <1>9, <1>10, <1>11, <1>12, <1>13,
     BlockStep

LEMMA PlainStep ==
    ASSUME CheckInv, NEW t \in Threads, Plain(t)
    PROVE  CheckInv'
<1>0. /\ StoreTypes /\ CallTypes /\ CallShapes /\ CallShape(t) /\ Tables /\ Shadow
      /\ ProvenHasCause
  BY DEF CheckInv, CallShapes, TypeOK
<1>u. /\ UNCHANGED <<fixed, shadow, size, mem>> /\ pc[t] = "plain"
  BY DEF Plain
<1>w. /\ back[t] = "grow" /\ blk[t] = None /\ req[t] \in Requests /\ ~Releasing(t)
      /\ Has(t) = None
  BY <1>0, <1>u DEF CallShape, Releasing, Has
<1>1. CASE Available(req[t]) = {} /\ End(t) /\ UNCHANGED <<free, region, history>>
  <2>v. UNCHANGED <<level, slots, rowLive, own, unseen, odd, overran, scribbled, verdict,
                  raced>>
    BY <1>1, <1>u DEF fixed, shadow, history
  <2>1. /\ CallTypes' /\ CallShapes' /\ blk'[t] = None /\ pc'[t] = "idle"
        /\ Has(t)' = None /\ Strays'
        /\ \A s \in Threads \ {t} :
              /\ pc'[s] = pc[s] /\ Has(s)' = Has(s) /\ (pc'[s] = "freeing" <=> pc[s] = "freeing")
        /\ ~Releasing(t)' /\ \A s \in Threads \ {t} : Releasing(s)' <=> Releasing(s)
    BY <1>1, <1>u, <2>v, EndIs
  <2>2. StoreTypes'
    BY <1>0, <1>1, <1>u DEF StoreTypes, fixed, shadow, history
  <2>3. Tables'
    BY <1>0, <1>u, <2>1 DEF Tables, shadow
  <2>4. \A s \in Threads : Has(s)' = Has(s)
    BY <1>w, <2>1
  <2>5. \A s \in Threads : pc'[s] = "freeing" => Alive(Has(s))
    BY <1>0, <2>1 DEF Shadow
  <2>6. ProvenHasCause'
    BY <1>0, <2>v, VerdictStays
  <2>. HIDE DEF Releasing
  <2>. QED
    BY <1>1, <1>u, <1>w, <2>v, <2>1, <2>2, <2>3, <2>4, <2>5, <2>6, LocalStep DEF TypeOK
<1>2. ASSUME NEW p \in Available(req[t]), Pop(p), Unrecorded(t, p)
      PROVE  CheckInv'
  <2>1. req[t] \in Nat
    BY <1>w, RequestIs
  <2>2. /\ p \in BlocksOf(size) /\ req[t] <= size /\ ~Alive(p) /\ free'[p] = 0
        /\ free' \in [Units -> Nat] /\ region' = TRUE
        /\ \A s \in Threads : Has(s) # p
        /\ \A u \in Units : u # p => free'[u] = free[u]
    BY <1>2, <2>1, TakenIs
  <2>. HIDE DEF Releasing
  <2>. QED
    BY <1>2, <1>u, <1>w, <2>2, UnrecordedStep
<1>. QED
  BY <1>1, <1>2 DEF Plain

(* What a call has that records its block.                                  *)
LEMMA RecordingIs ==
    ASSUME CheckInv, NEW t \in Threads, pc[t] = "record"
    PROVE  /\ t \notin stray /\ Has(t) = blk[t] /\ blk[t] # None /\ ~Releasing(t) /\ ~Alive(blk[t])
           /\ req[t] \in Requests /\ req[t] \in Nat /\ req[t] >= 1 /\ req[t] <= size
           /\ t \notin early /\ AtLeast("canary") => Fits(req[t])
           /\ ~(slots[blk[t]].st = "freed" /\ blk[t] \in unseen)
<1>0. CallShape(t)
  BY DEF CheckInv, CallShapes
<1>1. blk[t] # None /\ ~Releasing(t) /\ req[t] \in Requests
  BY <1>0 DEF CallShape, Releasing
<1>5. t \notin stray /\ Has(t) = blk[t]
  BY StrayIs DEF Has
<1>2. req[t] <= size /\ (t \notin early /\ AtLeast("canary") => Fits(req[t]))
  BY <1>0, <1>1 DEF CallShape, Taking
<1>3. SlotIsTrue(blk[t]) /\ (Alive(blk[t]) => Releasing(t))
  BY <1>1, <1>5, HeldIs
<1>4. ~(slots[blk[t]].st = "freed" /\ blk[t] \in unseen)
  BY <1>1, <1>3, <1>5 DEF SlotIsTrue
<1>. QED
  BY <1>1, <1>2, <1>3, <1>4, <1>5, RequestIs

LEMMA RecordNoneStep ==
    ASSUME CheckInv, NEW t \in Threads, RecordNone(t)
    PROVE  CheckInv'
<1>0. StoreTypes
  BY DEF CheckInv, TypeOK
<1>u. /\ UNCHANGED <<fixed, shadow, heap>> /\ pc[t] = "record" /\ Unrecorded(t, blk[t])
  BY DEF RecordNone
<1>1. /\ Has(t) = blk[t] /\ blk[t] # None /\ ~Releasing(t) /\ ~Alive(blk[t])
      /\ req[t] \in Requests /\ req[t] <= size
  BY <1>u, RecordingIs
<1>2. /\ blk[t] \in BlocksOf(size) /\ free[blk[t]] = 0
      /\ \A s \in Threads : Has(s) = blk[t] => s = t
  BY <1>1, HeldIs
<1>3. /\ free' \in [Units -> Nat] /\ region' \in BOOLEAN /\ free' = free
      /\ UNCHANGED <<fixed, shadow, size, mem>>
  BY <1>0, <1>u DEF StoreTypes, heap
<1>. QED
  BY <1>u, <1>1, <1>2, <1>3, UnrecordedStep

(* What the checker says is a verdict.                                      *)
LEMMA SayIs ==
    ASSUME NEW what \in {"overrun", "late write", "twice", "never seen"},
           NEW sure \in {"proven", "suspected"}, NEW just \in BOOLEAN,
           NEW p \in Units, StoreTypes, Say(what, sure, just, p)
    PROVE  verdict' \in Verdicts
<1>1. odd[p] \in SUBSET {"door", "resize", "recycle", "early"}
  BY DEF StoreTypes
<1>. QED
  BY <1>1 DEF Say, Verdicts

LEMMA GuardIs ==
    ASSUME NEW p \in Nat, NEW n \in Nat, NEW u \in Guard(p, n), Fits(n), size \in Nat
    PROVE  u \in Units /\ u \in Nat /\ u >= p + n /\ u < p + size
<1>1. u \in Units /\ u >= p + n /\ u < p + n + CanaryUnits
  BY DEF Guard
<1>2. u \in Nat /\ CanaryUnits \in Nat
  BY <1>1, Bounds
<1>. QED
  BY <1>1, <1>2 DEF Fits

LEMMA RecordStep ==
    ASSUME CheckInv, NEW t \in Threads, Record(t)
    PROVE  CheckInv'
<1>. SUFFICES ASSUME NEW p, p = blk[t], NEW n, n = req[t] PROVE CheckInv'
  OBVIOUS
<1>. DEFINE written == /\ AtLeast("poison") /\ slots[p].st = "freed"
                       /\ \E i \in Filled : mem[p + i - 1] # "poison"
<1>0. /\ StoreTypes /\ Tables /\ ProvenHasCause
  BY DEF CheckInv, TypeOK
<1>u. /\ pc[t] = "record" /\ row
      /\ IF written THEN Say("late write", "proven", p \in scribbled, p) ELSE UNCHANGED verdict
      /\ slots' = [slots EXCEPT ![p] = [st |-> "alive", req |-> n]]
      /\ rowLive' = IF slots[p].st # "alive" THEN rowLive + 1 ELSE rowLive
      /\ mem' = [u \in Units |-> IF AtLeast("canary") /\ Fits(n) /\ u \in Guard(p, n)
                                  THEN "canary" ELSE mem[u]]
      /\ own' = [own EXCEPT ![p] = n] /\ unseen' = unseen \ {p}
      /\ odd' = [odd EXCEPT ![p] = IF t \in early THEN {"early"} ELSE {}]
      /\ overran' = overran \ {p} /\ scribbled' = scribbled \ {p}
      /\ End(t)
      /\ UNCHANGED <<fixed, cfg, rows, row, region, size, free, wrongs, raced>>
  BY DEF Record
<1>r. /\ Has(t) = p /\ p # None /\ ~Releasing(t) /\ ~Alive(p)
      /\ n \in Requests /\ n \in Nat /\ n >= 1 /\ n <= size
      /\ t \notin early /\ AtLeast("canary") => Fits(n)
      /\ ~(slots[p].st = "freed" /\ p \in unseen)
  BY <1>u, RecordingIs
<1>p. /\ p \in BlocksOf(size) /\ p \in Units /\ SlotIsTrue(p) /\ PoisonAt(p)
      /\ \A s \in Threads : Has(s) = p => s = t
      /\ own[p] = 0 /\ free[p] = 0 /\ size \in Nat
      /\ p \in Nat /\ p >= 1 /\ p + size - 1 <= ChunkUnits
  BY <1>r, HeldIs
<1>v. UNCHANGED <<level, setup, size, free>>
  BY <1>u DEF fixed
<1>b. n \in 0 .. ChunkUnits
  BY <1>r, <1>p, Bounds
<1>n. /\ own'[p] = n /\ odd'[p] = (IF t \in early THEN {"early"} ELSE {})
      /\ slots'[p] = [st |-> "alive", req |-> n]
      /\ p \notin unseen' /\ p \notin scribbled' /\ p \notin overran'
      /\ \A u \in Units \ {p} :
            /\ own'[u] = own[u] /\ odd'[u] = odd[u] /\ (u \in unseen' <=> u \in unseen)
            /\ slots'[u] = slots[u]
            /\ (u \in overran' <=> u \in overran) /\ (u \in scribbled' <=> u \in scribbled)
  BY <1>0, <1>u, <1>p DEF StoreTypes
<1>. HIDE DEF written
<1>s. \/ Say("late write", "proven", p \in scribbled, p)
         \/ verdict' = verdict
  BY <1>u
<1>c. rowLive' = IF slots[p].st # "alive" THEN rowLive + 1 ELSE rowLive
  BY <1>u
<1>m. \A u \in Units : mem'[u] = IF AtLeast("canary") /\ Fits(n) /\ u \in Guard(p, n)
                                  THEN "canary" ELSE mem[u]
  BY <1>u
<1>1. /\ CallTypes' /\ CallShapes' /\ Strays'
      /\ Has(t)' = None /\ pc'[t] = "idle" /\ ~Releasing(t)'
      /\ \A s \in Threads \ {t} :
            /\ pc'[s] = pc[s] /\ Has(s)' = Has(s) /\ (pc'[s] = "freeing" <=> pc[s] = "freeing")
            /\ (Releasing(s)' <=> Releasing(s))
  <2>1. \A u \in Units : slots[u].st # "never" => slots'[u].st # "never"
    BY <1>n, <1>p
  <2>. QED
    BY <1>u, <1>v, <2>1, EndIs
<1>2. ASSUME rowLive' \in 0 .. ChunkUnits PROVE StoreTypes'
  <2>1. own' \in [Units -> 0 .. ChunkUnits]
    BY <1>0, <1>u, <1>b DEF StoreTypes
  <2>2. odd' \in [Units -> SUBSET {"door", "resize", "recycle", "early"}]
    BY <1>0, <1>u DEF StoreTypes
  <2>3. unseen' \subseteq Units /\ overran' \subseteq Units /\ scribbled' \subseteq Units
    BY <1>0, <1>u DEF StoreTypes
  <2>4. slots' \in [Units -> [st : {"never", "alive", "freed"}, req : 0 .. ChunkUnits]]
    BY <1>0, <1>u, <1>b DEF StoreTypes
  <2>5. mem' \in [Units -> {"other", "canary", "poison"}]
    BY <1>0, <1>u DEF StoreTypes
  <2>6. verdict' \in {Silence} \cup Verdicts
    <3>1. (p \in scribbled) \in BOOLEAN
      OBVIOUS
    <3>. QED
      BY <1>0, <1>p, <1>s, <3>1, SayIs DEF StoreTypes
  <2>. QED
    BY <1>0, <1>2, <1>u, <2>1, <2>2, <2>3, <2>4, <2>5, <2>6 DEF StoreTypes, fixed
<1>3. Tables'
  BY <1>0, <1>u, <1>1 DEF Tables
<1>4. \A s \in Threads : Has(s)' # p
  BY <1>r, <1>p, <1>1
<1>5. SoleAt(p)'
  BY <1>p, <1>r, <1>n, <1>v, <1>4 DEF SoleAt, BlocksOf
<1>6. SlotIsTrue(p)'
  <2>1. Alive(p)' /\ slots'[p].req = n /\ slots'[p].st = "alive"
    BY <1>n DEF Alive
  <2>2. "early" \notin odd'[p] /\ AtLeast("canary")' => Fits(n)'
    BY <1>r, <1>n, <1>v DEF AtLeast, Fits
  <2>. QED
    BY <1>r, <1>n, <2>1, <2>2 DEF SlotIsTrue, Fits
<1>7. CanaryAt(p)'
  <2>1. AtLeast("canary")' <=> AtLeast("canary")
    BY <1>v DEF AtLeast
  <2>2. Fits(n)' <=> Fits(n)
    BY <1>v DEF Fits
  <2>3. slots'[p].req = n /\ p \notin overran'
    BY <1>n
  <2>4. ASSUME AtLeast("canary"), Fits(n), NEW u \in Guard(p, n) PROVE mem'[u] = "canary"
    BY <1>m, <2>4 DEF Guard
  <2>. QED
    BY <2>1, <2>2, <2>3, <2>4 DEF CanaryAt, Fits, Guard
<1>8. PoisonAt(p)' /\ ScribbleAt(p)'
  BY <1>n DEF PoisonAt, ScribbleAt
<1>9. ProvenHasCause'
  <2>1. CASE written
    <3>1. "recycle" \in odd[p] \/ p \in scribbled
      BY <1>p, <1>r, <2>1 DEF PoisonAt, written
    <3>2. verdict' = [what |-> "late write", sure |-> "proven", just |-> p \in scribbled,
                      odd |-> odd[p]]
      BY <1>u, <2>1 DEF Say
    <3>. QED
      BY <3>1, <3>2 DEF ProvenHasCause, Proven
  <2>2. CASE ~written
    BY <1>0, <1>u, <2>2, VerdictStays
  <2>. QED
    BY <2>1, <2>2
<1>. HIDE DEF Releasing
<1>10. /\ \A s \in Threads : Has(s) # p /\ Has(s) \in Units => (Releasing(s)' <=> Releasing(s))
       /\ \A u \in Units \ {p} : \A s \in Threads : Has(s)' = u <=> Has(s) = u
  BY <1>1, <1>r, Bounds
<1>11. \A s \in Threads : Has(s)' = p /\ Releasing(s)' => Alive(p)' \/ p \in unseen'
  BY <1>4
<1>15. \A s \in Threads : pc'[s] = "freeing" => pc[s] = "freeing" /\ Has(s) # p
  BY <1>1, <1>p
<1>12. rowLive' = rowLive + 1 /\ Alive(p)'
  BY <1>c, <1>r, <1>n DEF Alive
<1>13. \A u \in Units : mem'[u] # mem[u] => \E j \in 0 .. size : u = p + j
  <2>1. ASSUME NEW u \in Guard(p, n), Fits(n) PROVE u - p \in 0 .. size /\ u = p + (u - p)
    BY <1>r, <1>p, <2>1, GuardIs
  <2>. QED
    BY <1>m, <2>1
<1>14. \A u \in Units \ {p} : free'[u] = free[u]
  BY <1>v
<1>. QED
  BY <1>v, <1>p, <1>r, <1>n, <1>1, <1>2, <1>3, <1>5, <1>6, <1>7, <1>8, <1>9, <1>10, <1>11, <1>12,
     <1>13, <1>14, <1>15, BlockStep

(* What a call has that has released its block, or is about to.             *)
LEMMA GoIs ==
    ASSUME CheckInv, NEW t \in Threads, t \notin stray, pc[t] \in {"release", "freeing"},
           NEW step \in {"freeing", "push"}, Go(t, step),
           UNCHANGED <<level, size, req, want, blk, back, early, stray>>,
           \A u \in Units : slots[u].st # "never" => slots'[u].st # "never"
    PROVE  /\ CallTypes' /\ CallShapes' /\ Strays'
           /\ blk[t] # None /\ Has(t) = blk[t] /\ Has(t)' = Has(t)
           /\ Releasing(t) /\ (Releasing(t)' <=> step = "freeing") /\ pc'[t] = step
           /\ \A s \in Threads \ {t} :
                 /\ pc'[s] = pc[s] /\ Has(s)' = Has(s) /\ (Releasing(s)' <=> Releasing(s))
<1>0. CallTypes /\ CallShapes /\ CallShape(t)
  BY DEF CheckInv, TypeOK, CallShapes
<1>1. CallTypes'
  BY <1>0 DEF CallTypes, Steps, Go
<1>2. pc'[t] = step /\ \A s \in Threads \ {t} : pc'[s] = pc[s]
  BY <1>0 DEF CallTypes, Go
<1>3. back[t] = "release" /\ blk[t] # None /\ Releasing(t)
  BY <1>0 DEF CallShape, Releasing
<1>4. CallShape(t)'
  BY <1>2, <1>3 DEF CallShape, Taking
<1>5. CallShapes'
  BY <1>0, <1>2, <1>4, ShapesOfOthers
<1>6. Releasing(t)' <=> step = "freeing"
  BY <1>2, <1>3 DEF Releasing
<1>7. \A s \in Threads : Has(s)' = Has(s)
  BY DEF Has
<1>8. Has(t) = blk[t]
  BY DEF Has
<1>9. Strays' /\ \A s \in Threads \ {t} : Releasing(s)' <=> Releasing(s)
  BY <1>2, OthersStay
<1>. QED
  BY <1>1, <1>2, <1>3, <1>5, <1>6, <1>7, <1>8, <1>9

(* The state is read: with the state as it is nothing else moves.  A release *)
(* that is not its caller's meets the one that is.                          *)
LEMMA ReleaseStep ==
    ASSUME CheckInv, NEW t \in Threads, Release(t), ~raced'
    PROVE  CheckInv'
<1>. SUFFICES ASSUME NEW p, p = blk[t], NEW n, n = slots[p].req PROVE CheckInv'
  OBVIOUS
<1>. DEFINE written == /\ AtLeast("canary") /\ Fits(n)
                       /\ \E u \in Guard(p, n) : mem[u] # "canary"
<1>0. /\ StoreTypes /\ Tables /\ ProvenHasCause /\ Shadow
  BY DEF CheckInv, TypeOK
<1>u. /\ pc[t] = "release" /\ row /\ Ready /\ Alive(p)
      /\ IF written THEN Say("overrun", "proven", p \in overran, p) ELSE UNCHANGED verdict
      /\ raced' = (raced \/ Meets(t)) /\ Go(t, "freeing")
      /\ UNCHANGED <<fixed, shadow, heap, req, want, blk, back, early, stray,
                     own, unseen, odd, overran, scribbled, wrongs>>
  BY DEF Release, Released, Alive
<1>v. UNCHANGED <<level, size, slots, rowLive, free, mem, rows, row, cfg>>
  BY <1>u DEF fixed, shadow, heap
<1>x. t \notin stray /\ ~raced
  BY <1>u, StrayIs
<1>1. /\ CallTypes' /\ CallShapes' /\ Strays' /\ p # None /\ Has(t) = p /\ pc'[t] = "freeing"
      /\ Releasing(t) /\ Releasing(t)'
      /\ \A s \in Threads : Has(s)' = Has(s)
      /\ \A s \in Threads \ {t} : pc'[s] = pc[s] /\ (Releasing(s)' <=> Releasing(s))
  BY <1>u, <1>v, <1>x, GoIs
<1>p. p \in Units /\ CanaryAt(p)
  BY <1>1, HeldIs
<1>. HIDE DEF written
<1>s. \/ Say("overrun", "proven", p \in overran, p)
         \/ verdict' = verdict
  BY <1>u
<1>2. StoreTypes'
  <2>1. verdict' \in {Silence} \cup Verdicts
    <3>1. (p \in overran) \in BOOLEAN
      OBVIOUS
    <3>. QED
      BY <1>0, <1>p, <1>s, <3>1, SayIs DEF StoreTypes
  <2>2. raced' \in BOOLEAN
    BY <1>u
  <2>. QED
    BY <1>0, <1>u, <2>1, <2>2 DEF StoreTypes, fixed, shadow, heap
<1>3. Tables'
  BY <1>0, <1>u, <1>v, <1>1 DEF Tables, Ready
<1>4. ProvenHasCause'
  <2>1. CASE written
    <3>1. "resize" \in odd[p] \/ p \in overran
      BY <1>p, <1>u, <2>1 DEF CanaryAt, written
    <3>2. verdict' = [what |-> "overrun", sure |-> "proven", just |-> p \in overran,
                      odd |-> odd[p]]
      BY <1>u, <2>1 DEF Say
    <3>. QED
      BY <3>1, <3>2 DEF ProvenHasCause, Proven
  <2>2. CASE ~written
    BY <1>0, <1>u, <1>x, <2>2 DEF ProvenHasCause, Proven
  <2>. QED
    BY <2>1, <2>2
<1>5. \A s \in Threads : pc'[s] = "freeing" => Alive(Has(s))
  BY <1>0, <1>1, <1>u DEF Shadow
<1>. HIDE DEF Releasing
<1>. QED
  BY <1>1, <1>2, <1>3, <1>4, <1>5, <1>u, <1>v, LocalStep DEF TypeOK

LEMMA RetireStep ==
    ASSUME CheckInv, NEW t \in Threads, Retire(t)
    PROVE  CheckInv'
<1>. SUFFICES ASSUME NEW p, p = blk[t] PROVE CheckInv'
  OBVIOUS
<1>0. /\ StoreTypes /\ Tables /\ ProvenHasCause /\ Shadow
  BY DEF CheckInv, TypeOK
<1>u. /\ pc[t] = "freeing"
      /\ slots' = [slots EXCEPT ![p] = Freed(@)] /\ rowLive' = rowLive - 1
      /\ mem' = [u \in Units |-> IF AtLeast("poison") /\ u - p + 1 \in Filled
                                  THEN "poison" ELSE mem[u]]
      /\ Go(t, "push")
      /\ UNCHANGED <<fixed, cfg, rows, row, region, size, free, req, want, blk, back, early,
                     stray, history>>
  BY DEF Retire
<1>v. UNCHANGED <<level, setup, size, free, own, odd, unseen, overran, scribbled, wrongs,
                  verdict, raced>>
  BY <1>u DEF fixed, history
<1>x. /\ t \notin stray /\ blk[t] # None /\ Has(t) = p
      /\ \A u \in Units : slots[u].st # "never" => slots'[u].st # "never"
  <2>1. t \notin stray
    BY <1>u, StrayIs
  <2>2. CallShape(t) /\ CallTypes
    BY DEF CheckInv, CallShapes, TypeOK
  <2>3. blk[t] # None /\ p \in Units
    BY <1>u, <2>2 DEF CallShape, CallTypes
  <2>4. slots'[p].st = "freed" /\ \A u \in Units \ {p} : slots'[u] = slots[u]
    BY <1>0, <1>u, <2>3 DEF StoreTypes, Freed
  <2>. QED
    BY <2>1, <2>3, <2>4 DEF Has
<1>1. /\ CallTypes' /\ CallShapes' /\ Strays' /\ p # None /\ ~Releasing(t)' /\ pc'[t] = "push"
      /\ \A s \in Threads : Has(s)' = Has(s)
      /\ \A s \in Threads \ {t} : pc'[s] = pc[s] /\ (Releasing(s)' <=> Releasing(s))
  BY <1>u, <1>v, <1>x, GoIs
<1>p. /\ p \in BlocksOf(size) /\ p \in Units /\ SoleAt(p) /\ SlotIsTrue(p)
      /\ CanaryAt(p) /\ ScribbleAt(p)
      /\ \A s \in Threads : Has(s) = p => s = t
      /\ own[p] = 0 /\ free[p] = 0 /\ size \in Nat
      /\ p \in Nat /\ p >= 1 /\ p + size - 1 <= ChunkUnits
  BY <1>1, <1>x, HeldIs
<1>q. Alive(p)
  BY <1>0, <1>u, <1>x DEF Shadow
<1>n. /\ slots'[p].st = "freed" /\ slots'[p] = [slots[p] EXCEPT !.st = "freed"]
      /\ \A u \in Units \ {p} : slots'[u] = slots[u]
  BY <1>0, <1>u, <1>p DEF StoreTypes, Freed
<1>m. \A u \in Units : mem'[u] = IF AtLeast("poison") /\ u - p + 1 \in Filled
                                  THEN "poison" ELSE mem[u]
  BY <1>u
<1>2. ASSUME rowLive' \in 0 .. ChunkUnits PROVE StoreTypes'
  <2>1. slots' \in [Units -> [st : {"never", "alive", "freed"}, req : 0 .. ChunkUnits]]
    <3>1. slots[p] \in [st : {"never", "alive", "freed"}, req : 0 .. ChunkUnits]
      BY <1>0, <1>p DEF StoreTypes
    <3>2. Freed(slots[p]) \in [st : {"never", "alive", "freed"}, req : 0 .. ChunkUnits]
      BY <3>1 DEF Freed
    <3>3. slots' = [slots EXCEPT ![p] = Freed(slots[p])]
      BY <1>u
    <3>. QED
      BY <1>0, <3>2, <3>3 DEF StoreTypes
  <2>2. mem' \in [Units -> {"other", "canary", "poison"}]
    BY <1>0, <1>u DEF StoreTypes
  <2>. QED
    BY <1>0, <1>2, <1>u, <1>v, <2>1, <2>2 DEF StoreTypes, fixed
<1>3. Tables'
  <2>1. row
    BY <1>0, <1>p, <1>q DEF Tables, Blank, Never, Alive
  <2>. QED
    BY <1>0, <1>u, <1>1, <2>1 DEF Tables
<1>5. SoleAt(p)'
  BY <1>p, <1>v, <1>1 DEF SoleAt, BlocksOf
<1>6. SlotIsTrue(p)'
  BY <1>q, <1>p, <1>n, <1>v DEF SlotIsTrue, Alive
<1>7. CanaryAt(p)'
  BY <1>n DEF CanaryAt, Alive
<1>8. PoisonAt(p)'
  <2>1. ASSUME AtLeast("poison"), NEW i \in Filled PROVE mem'[p + i - 1] = "poison"
    <3>1. p + i - 1 \in Units /\ (p + i - 1) - p + 1 = i
      BY <1>p, Bounds DEF Filled
    <3>. QED
      BY <1>m, <2>1, <3>1
  <2>. QED
    BY <1>v, <2>1 DEF PoisonAt, AtLeast, Filled
<1>9. ScribbleAt(p)'
  BY <1>q, <1>p, <1>v DEF ScribbleAt, Alive
<1>10. ProvenHasCause'
  BY <1>0, <1>v, VerdictStays
<1>15. \A s \in Threads : pc'[s] = "freeing" => pc[s] = "freeing" /\ Has(s) # p
  BY <1>1, <1>p
<1>. HIDE DEF Releasing
<1>11. /\ \A s \in Threads : Has(s) # p /\ Has(s) \in Units => (Releasing(s)' <=> Releasing(s))
       /\ \A s \in Threads : Has(s)' = p /\ Releasing(s)' => Alive(p)' \/ p \in unseen'
  BY <1>1, <1>x, <1>p
<1>12. Alive(p) /\ ~Alive(p)' /\ rowLive' = rowLive - 1
  BY <1>u, <1>q, <1>n DEF Alive
<1>13. \A u \in Units : mem'[u] # mem[u] => \E j \in 0 .. size : u = p + j
  <2>1. ASSUME NEW u \in Units, u - p + 1 \in Filled
        PROVE  u - p \in 0 .. size /\ u = p + (u - p)
    <3>1. u \in Nat
      BY Bounds
    <3>2. u - p + 1 >= 2 /\ u - p + 1 <= size
      BY <2>1 DEF Filled
    <3>. QED
      BY <1>p, <3>1, <3>2
  <2>. QED
    BY <1>m, <2>1
<1>14. \A u \in Units \ {p} :
          /\ free'[u] = free[u] /\ own'[u] = own[u] /\ odd'[u] = odd[u]
          /\ (u \in unseen' <=> u \in unseen)
          /\ (u \in overran' <=> u \in overran) /\ (u \in scribbled' <=> u \in scribbled)
          /\ \A s \in Threads : Has(s)' = u <=> Has(s) = u
  BY <1>v, <1>1
<1>. QED
  BY <1>v, <1>p, <1>n, <1>1, <1>2, <1>3, <1>5, <1>6, <1>7, <1>8, <1>9, <1>10, <1>11, <1>12,
     <1>13, <1>14, <1>15, BlockStep

LEMMA PushStep ==
    ASSUME CheckInv, NEW t \in Threads, Push(t)
    PROVE  CheckInv'
<1>. SUFFICES ASSUME NEW p, p = blk[t] PROVE CheckInv'
  OBVIOUS
<1>0. /\ StoreTypes /\ Tables /\ ProvenHasCause /\ CallShape(t)
  BY DEF CheckInv, TypeOK, CallShapes
<1>u. /\ pc[t] = "push" /\ free' = [free EXCEPT ![p] = @ + 1]
      /\ mem' = [mem EXCEPT ![p] = "other"] /\ End(t)
      /\ UNCHANGED <<fixed, shadow, region, size, history>>
  BY DEF Push
<1>v. UNCHANGED <<level, slots, rowLive, own, unseen, odd, overran, scribbled, verdict,
                  raced>>
  BY <1>u DEF fixed, shadow, history
<1>x. t \notin stray
  BY <1>u, StrayIs
<1>w. p # None /\ Has(t) = p /\ ~Releasing(t)
  BY <1>0, <1>u, <1>x DEF CallShape, Releasing, Has
<1>p. /\ p \in BlocksOf(size) /\ p \in Units /\ SoleAt(p) /\ SlotIsTrue(p)
      /\ PoisonAt(p) /\ ScribbleAt(p)
      /\ \A s \in Threads : Has(s) = p => s = t
      /\ own[p] = 0 /\ free[p] = 0 /\ ~Alive(p) /\ size \in Nat
      /\ p \in Nat /\ p >= 1 /\ p + size - 1 <= ChunkUnits
  BY <1>w, HeldIs
<1>q. ~(slots[p].st = "freed" /\ p \in unseen)
  BY <1>p, <1>w DEF SlotIsTrue
<1>n. /\ free'[p] = 1 /\ mem'[p] = "other"
      /\ \A u \in Units \ {p} : free'[u] = free[u] /\ mem'[u] = mem[u]
  BY <1>0, <1>u, <1>p DEF StoreTypes
<1>1. /\ CallTypes' /\ CallShapes' /\ Strays'
      /\ Has(t)' = None /\ pc'[t] = "idle" /\ ~Releasing(t)'
      /\ \A s \in Threads \ {t} :
            /\ pc'[s] = pc[s] /\ Has(s)' = Has(s) /\ (pc'[s] = "freeing" <=> pc[s] = "freeing")
            /\ (Releasing(s)' <=> Releasing(s))
  BY <1>u, <1>v, EndIs
<1>2. StoreTypes'
  <2>1. free' \in [Units -> Nat]
    BY <1>0, <1>u, <1>p DEF StoreTypes
  <2>2. mem' \in [Units -> {"other", "canary", "poison"}]
    BY <1>0, <1>u DEF StoreTypes
  <2>. QED
    BY <1>0, <1>u, <2>1, <2>2 DEF StoreTypes, fixed, shadow, history
<1>3. Tables'
  BY <1>0, <1>u, <1>1 DEF Tables, shadow
<1>4. \A s \in Threads : Has(s)' # p
  BY <1>w, <1>p, <1>1
<1>5. SoleAt(p)'
  BY <1>p, <1>n, <1>u, <1>v, <1>4 DEF SoleAt, BlocksOf
<1>6. SlotIsTrue(p)'
  BY <1>v, <1>p, <1>q DEF SlotIsTrue, Alive
<1>7. CanaryAt(p)'
  BY <1>v, <1>p DEF CanaryAt, Alive
<1>i. \A i \in Filled : mem'[p + i - 1] = mem[p + i - 1]
  <2>1. \A i \in Filled : p + i - 1 \in Units \ {p}
    BY <1>p, Bounds DEF Filled
  <2>. QED
    BY <1>n, <2>1
<1>8. PoisonAt(p)'
  BY <1>i, <1>u, <1>v, <1>p DEF PoisonAt, AtLeast, Filled
<1>9. ScribbleAt(p)'
  BY <1>i, <1>u, <1>v, <1>p DEF ScribbleAt, Filled, BlocksOf
<1>10. ProvenHasCause'
  BY <1>0, <1>v, VerdictStays
<1>. HIDE DEF Releasing
<1>11. /\ \A s \in Threads : Has(s) # p /\ Has(s) \in Units => (Releasing(s)' <=> Releasing(s))
       /\ \A u \in Units \ {p} : \A s \in Threads : Has(s)' = u <=> Has(s) = u
       /\ \A s \in Threads : Has(s)' = p /\ Releasing(s)' => Alive(p)' \/ p \in unseen'
  BY <1>1, <1>4, <1>w, Bounds
<1>15. \A s \in Threads : pc'[s] = "freeing" => pc[s] = "freeing" /\ Has(s) # p
  BY <1>1, <1>p
<1>12. rowLive' = rowLive /\ (Alive(p)' <=> Alive(p)) /\ UNCHANGED <<level, size>>
  BY <1>u, <1>v DEF Alive
<1>13. \A u \in Units : mem'[u] # mem[u] => \E j \in 0 .. size : u = p + j
  <2>1. 0 \in 0 .. size /\ p = p + 0
    BY <1>p
  <2>. QED
    BY <1>n, <2>1
<1>14. \A u \in Units \ {p} :
          /\ free'[u] = free[u] /\ own'[u] = own[u]
          /\ slots'[u] = slots[u] /\ odd'[u] = odd[u] /\ (u \in unseen' <=> u \in unseen)
          /\ (u \in overran' <=> u \in overran) /\ (u \in scribbled' <=> u \in scribbled)
  BY <1>v, <1>n
<1>. QED
  BY <1>p, <1>1, <1>2, <1>3, <1>5, <1>6, <1>7, <1>8, <1>9, <1>10, <1>11, <1>12, <1>13, <1>14, <1>15,
     BlockStep

(* A release that is taken for a second one: the call's, of a block the      *)
(* checker missed, which stays where it is, in nobody's hands; or one that   *)
(* is not its caller's, which changes nothing.                               *)
LEMMA TwiceByRight ==
    ASSUME CheckInv, NEW t \in Threads, ReleaseTwice(t), t \notin stray
    PROVE  CheckInv'
<1>. SUFFICES ASSUME NEW p, p = blk[t] PROVE CheckInv'
  OBVIOUS
<1>0. /\ StoreTypes /\ Tables /\ CallShape(t)
  BY DEF CheckInv, TypeOK, CallShapes
<1>u. /\ pc[t] = "release" /\ slots[p].st = "freed"
      /\ Say("twice", "proven", t \in stray, p) /\ End(t)
      /\ UNCHANGED <<fixed, shadow, heap, own, unseen, odd, overran, scribbled, wrongs,
                     raced>>
  BY DEF ReleaseTwice, Released
<1>v. UNCHANGED <<level, size, mem, free, slots, rowLive>>
  BY <1>u DEF fixed, shadow, heap
<1>w. p # None /\ Has(t) = p /\ Releasing(t)
  BY <1>0, <1>u DEF CallShape, Releasing, Has
<1>p. /\ p \in BlocksOf(size) /\ p \in Units /\ SoleAt(p) /\ SlotIsTrue(p)
      /\ \A s \in Threads : Has(s) = p => s = t
      /\ own[p] = 0 /\ free[p] = 0 /\ ~Alive(p) /\ p \in unseen
  <2>1. slots[p].st # "alive"
    BY <1>u
  <2>. QED
    BY <1>w, <2>1, HeldIs DEF Alive
<1>1. /\ CallTypes' /\ CallShapes' /\ Strays'
      /\ Has(t)' = None /\ pc'[t] = "idle" /\ ~Releasing(t)'
      /\ \A s \in Threads \ {t} :
            /\ pc'[s] = pc[s] /\ Has(s)' = Has(s) /\ (pc'[s] = "freeing" <=> pc[s] = "freeing")
            /\ (Releasing(s)' <=> Releasing(s))
  BY <1>u, <1>v, EndIs
<1>2. StoreTypes'
  <2>1. verdict' \in Verdicts
    <3>1. (t \in stray) \in BOOLEAN
      OBVIOUS
    <3>. QED
      BY <1>0, <1>u, <1>p, <3>1, SayIs
  <2>. QED
    BY <1>0, <1>u, <2>1 DEF StoreTypes, fixed, shadow, heap
<1>3. Tables'
  BY <1>0, <1>u, <1>1 DEF Tables, shadow
<1>4. \A s \in Threads : Has(s)' # p
  BY <1>w, <1>p, <1>1
<1>5. SoleAt(p)'
  BY <1>p, <1>u, <1>v, <1>4 DEF SoleAt, BlocksOf
<1>6. SlotIsTrue(p)'
  BY <1>u, <1>v, <1>p, <1>4 DEF SlotIsTrue, Alive, BlocksOf
<1>7. CanaryAt(p)' /\ PoisonAt(p)' /\ ScribbleAt(p)'
  BY <1>p, <1>u, <1>v, MarkStays DEF CheckInv
<1>8. ProvenHasCause'
  <2>1. verdict' = [what |-> "twice", sure |-> "proven", just |-> t \in stray, odd |-> odd[p]]
    BY <1>u DEF Say
  <2>2. {"door", "early"} \cap odd[p] # {}
    BY <1>p DEF SlotIsTrue
  <2>. QED
    BY <2>1, <2>2 DEF ProvenHasCause, Proven
<1>. HIDE DEF Releasing
<1>9. /\ \A s \in Threads : Has(s) # p /\ Has(s) \in Units => (Releasing(s)' <=> Releasing(s))
      /\ \A u \in Units \ {p} : \A s \in Threads : Has(s)' = u <=> Has(s) = u
      /\ \A s \in Threads : Has(s)' = p /\ Releasing(s)' => Alive(p)' \/ p \in unseen'
  BY <1>1, <1>4, <1>w, Bounds
<1>12. \A s \in Threads : pc'[s] = "freeing" => pc[s] = "freeing" /\ Has(s) # p
  BY <1>1, <1>p
<1>10. rowLive' = rowLive /\ (Alive(p)' <=> Alive(p)) /\ UNCHANGED <<level, size, mem>>
  BY <1>v DEF Alive
<1>11. \A u \in Units \ {p} :
          /\ free'[u] = free[u] /\ own'[u] = own[u]
          /\ slots'[u] = slots[u] /\ odd'[u] = odd[u] /\ (u \in unseen' <=> u \in unseen)
          /\ (u \in overran' <=> u \in overran) /\ (u \in scribbled' <=> u \in scribbled)
  BY <1>u, <1>v
<1>. QED
  BY <1>p, <1>1, <1>2, <1>3, <1>5, <1>6, <1>7, <1>8, <1>9, <1>10, <1>11, <1>12, BlockStep

LEMMA TwiceAstray ==
    ASSUME CheckInv, NEW t \in Threads, ReleaseTwice(t), t \in stray
    PROVE  CheckInv'
<1>0. /\ StoreTypes /\ Tables /\ Shadow
  BY DEF CheckInv, TypeOK
<1>u. /\ pc[t] = "release" /\ Say("twice", "proven", t \in stray, blk[t]) /\ End(t)
      /\ UNCHANGED <<fixed, shadow, heap, own, unseen, odd, overran, scribbled, wrongs, raced>>
  BY DEF ReleaseTwice, Released
<1>v. UNCHANGED <<level, size, mem, free, slots, rowLive>>
  BY <1>u DEF fixed, shadow, heap
<1>w. blk[t] \in Units /\ Has(t) = None /\ ~Releasing(t)
  BY StrayIs DEF Releasing
<1>1. /\ CallTypes' /\ CallShapes' /\ Strays'
      /\ Has(t)' = None /\ pc'[t] = "idle" /\ ~Releasing(t)'
      /\ \A s \in Threads \ {t} :
            /\ pc'[s] = pc[s] /\ Has(s)' = Has(s) /\ (pc'[s] = "freeing" <=> pc[s] = "freeing")
            /\ (Releasing(s)' <=> Releasing(s))
  BY <1>u, <1>v, EndIs
<1>2. StoreTypes'
  <2>1. (t \in stray) \in BOOLEAN
    OBVIOUS
  <2>2. verdict' \in Verdicts
    BY <1>0, <1>u, <1>w, <2>1, SayIs
  <2>. QED
    BY <1>0, <1>u, <2>2 DEF StoreTypes, fixed, shadow, heap
<1>3. Tables'
  BY <1>0, <1>u, <1>1 DEF Tables, shadow
<1>4. ProvenHasCause'
  BY <1>u DEF Say, ProvenHasCause, Proven
<1>5. \A s \in Threads : Has(s)' = Has(s)
  BY <1>1, <1>w
<1>6. \A s \in Threads : pc'[s] = "freeing" => Alive(Has(s))
  BY <1>0, <1>1 DEF Shadow
<1>. HIDE DEF Releasing
<1>. QED
  BY <1>1, <1>2, <1>3, <1>4, <1>5, <1>6, <1>u, <1>v, <1>w, LocalStep DEF TypeOK

LEMMA ReleaseNeverStep ==
    ASSUME CheckInv, NEW t \in Threads, ReleaseNever(t)
    PROVE  CheckInv'
<1>. SUFFICES ASSUME NEW p, p = blk[t] PROVE CheckInv'
  OBVIOUS
<1>0. /\ StoreTypes /\ Tables
  BY DEF CheckInv, TypeOK
<1>u. /\ pc[t] = "release" /\ row /\ Ready /\ slots[p].st = "never"
      /\ Say("never seen", "suspected", FALSE, p) /\ Go(t, "push")
      /\ UNCHANGED <<fixed, shadow, heap, req, want, blk, back, early, stray, own, unseen, odd,
                     overran, scribbled, wrongs, raced>>
  BY DEF ReleaseNever, Released
<1>v. UNCHANGED <<level, size, mem, free, slots, rowLive>>
  BY <1>u DEF fixed, shadow, heap
<1>x. t \notin stray
  BY <1>u, StrayIs
<1>1. /\ CallTypes' /\ CallShapes' /\ Strays' /\ p # None /\ Has(t) = p /\ ~Releasing(t)'
      /\ pc'[t] = "push" /\ \A s \in Threads : Has(s)' = Has(s)
      /\ \A s \in Threads \ {t} : pc'[s] = pc[s] /\ (Releasing(s)' <=> Releasing(s))
  BY <1>u, <1>v, <1>x, GoIs
<1>p. /\ p \in BlocksOf(size) /\ p \in Units /\ SoleAt(p) /\ SlotIsTrue(p)
      /\ \A s \in Threads : Has(s) = p => s = t
      /\ own[p] = 0 /\ free[p] = 0
  BY <1>1, HeldIs
<1>2. StoreTypes'
  <2>1. verdict' \in Verdicts
    BY <1>0, <1>u, <1>p, SayIs
  <2>. QED
    BY <1>0, <1>u, <2>1 DEF StoreTypes, fixed, shadow, heap
<1>3. Tables'
  BY <1>0, <1>u, <1>1 DEF Tables, shadow, Ready
<1>5. SoleAt(p)'
  BY <1>p, <1>u, <1>v, <1>1 DEF SoleAt, BlocksOf
<1>6. SlotIsTrue(p)'
  BY <1>u, <1>v, <1>p DEF SlotIsTrue, Alive
<1>7. CanaryAt(p)' /\ PoisonAt(p)' /\ ScribbleAt(p)'
  BY <1>p, <1>u, <1>v, MarkStays DEF CheckInv
<1>8. ProvenHasCause'
  <2>1. verdict' = [what |-> "never seen", sure |-> "suspected", just |-> FALSE, odd |-> odd[p]]
    BY <1>u DEF Say
  <2>. QED
    BY <2>1 DEF ProvenHasCause, Proven
<1>. HIDE DEF Releasing
<1>9. /\ \A s \in Threads : Has(s) # p /\ Has(s) \in Units => (Releasing(s)' <=> Releasing(s))
      /\ \A s \in Threads : Has(s)' = p /\ Releasing(s)' => Alive(p)' \/ p \in unseen'
  BY <1>1, <1>p
<1>12. \A s \in Threads : pc'[s] = "freeing" => pc[s] = "freeing" /\ Has(s) # p
  BY <1>1, <1>p
<1>10. rowLive' = rowLive /\ (Alive(p)' <=> Alive(p)) /\ UNCHANGED <<level, size, mem>>
  BY <1>v DEF Alive
<1>11. \A u \in Units \ {p} :
          /\ free'[u] = free[u] /\ own'[u] = own[u]
          /\ slots'[u] = slots[u] /\ odd'[u] = odd[u] /\ (u \in unseen' <=> u \in unseen)
          /\ (u \in overran' <=> u \in overran) /\ (u \in scribbled' <=> u \in scribbled)
          /\ \A s \in Threads : Has(s)' = u <=> Has(s) = u
  BY <1>u, <1>v, <1>1
<1>. QED
  BY <1>p, <1>1, <1>2, <1>3, <1>5, <1>6, <1>7, <1>8, <1>9, <1>10, <1>11, <1>12, BlockStep

-----------------------------------------------------------------------------
LEMMA CheckStart == Init => CheckInv
<1>. SUFFICES ASSUME Init PROVE CheckInv
  OBVIOUS
<1>0. /\ setup \in Setups /\ level \in Levels /\ cfg = 0 /\ rows = 0 /\ row = FALSE
      /\ slots = Blank /\ rowLive = 0 /\ region = FALSE /\ size \in Sizes
      /\ free = [u \in Units |-> IF u \in BlocksOf(size) THEN 1 ELSE 0]
      /\ mem = [u \in Units |-> "other"]
      /\ own = [u \in Units |-> 0] /\ unseen = {} /\ odd = [u \in Units |-> {}]
      /\ overran = {} /\ scribbled = {} /\ wrongs = 0 /\ verdict = Silence
      /\ raced = FALSE
  BY DEF Init
<1>c. /\ pc = [t \in Threads |-> "idle"] /\ back = [t \in Threads |-> "idle"]
      /\ req = [t \in Threads |-> 0] /\ want = [t \in Threads |-> 0]
      /\ blk = [t \in Threads |-> None] /\ early = {} /\ stray = {}
  BY DEF Init
<1>s. \A u \in Units : slots[u] = Never /\ ~Alive(u)
  BY <1>0 DEF Blank, Never, Alive
<1>t. \A t \in Threads : pc[t] = "idle" /\ back[t] = "idle" /\ Has(t) = None
  BY <1>c DEF Has
<1>b. \A t \in Threads : blk[t] = None
  BY <1>c
<1>1. StoreTypes
  <2>1. slots \in [Units -> [st : {"never", "alive", "freed"}, req : 0 .. ChunkUnits]]
    BY <1>0, Bounds DEF Blank, Never
  <2>2. own \in [Units -> 0 .. ChunkUnits] /\ rowLive \in 0 .. ChunkUnits
    BY <1>0, Bounds
  <2>3. wrongs \in 0 .. setup.wrongs
    BY <1>0, SetupIs
  <2>4. free \in [Units -> Nat]
    BY <1>0
  <2>5. mem \in [Units -> {"other", "canary", "poison"}]
    BY <1>0
  <2>6. odd \in [Units -> SUBSET {"door", "resize", "recycle", "early"}]
    BY <1>0
  <2>7. row \in BOOLEAN /\ region \in BOOLEAN /\ raced \in BOOLEAN
    BY <1>0, Zenon
  <2>8. cfg \in 0 .. 2 /\ rows \in 0 .. 2
    <3>1. cfg = 0 /\ rows = 0
      BY <1>0
    <3>. QED
      BY <3>1
  <2>. QED
    BY <1>0, <2>1, <2>2, <2>3, <2>4, <2>5, <2>6, <2>7, <2>8 DEF StoreTypes
<1>2. CallTypes
  <2>1. 0 \in 0 .. ChunkUnits /\ 0 \in 0 .. ChunkUnits + CanaryUnits
    BY Bounds
  <2>. QED
    BY <1>c, <2>1 DEF CallTypes, Steps
<1>3. CallShapes
  BY <1>t, <1>b DEF CallShapes, CallShape, Taking
<1>4. Tables
  BY <1>0, <1>t DEF Tables
<1>5. Sole
  <2>. SUFFICES ASSUME NEW u \in Units PROVE SoleAt(u)
    BY DEF Sole
  <2>1. own[u] = 0 /\ free[u] = (IF u \in BlocksOf(size) THEN 1 ELSE 0)
    BY <1>0
  <2>2. \A t \in Threads : Has(t) # u
    BY <1>t, Bounds
  <2>3. size \in Nat
    BY <1>0, Bounds
  <2>. QED
    BY <2>1, <2>2, <2>3 DEF SoleAt
<1>6. Shadow
  <2>1. \A u \in Units : SlotIsTrue(u)
    <3>. TAKE u \in Units
    <3>1. own[u] = 0 /\ slots[u].st = "never" /\ u \notin unseen
      BY <1>0, <1>s DEF Never
    <3>. QED
      BY <1>s, <3>1 DEF SlotIsTrue
  <2>2. {u \in Units : Alive(u)} = {}
    BY <1>s
  <2>3. \A t \in Threads : ~Releasing(t)
    BY <1>t DEF Releasing
  <2>. QED
    BY <1>0, <1>t, <2>1, <2>2, <2>3, FS_EmptySet DEF Shadow
<1>7. Marks
  BY <1>0, <1>s DEF Marks, CanaryAt, PoisonAt, ScribbleAt, Never
<1>9. Strays
  BY <1>c DEF Strays
<1>8. ProvenHasCause
  BY <1>0 DEF ProvenHasCause, Proven, Silence
<1>. QED
  BY <1>1, <1>2, <1>3, <1>4, <1>5, <1>6, <1>7, <1>8, <1>9 DEF CheckInv, TypeOK

LEMMA CheckStutter ==
    ASSUME CheckInv, UNCHANGED vars
    PROVE  CheckInv'
<1>1. UNCHANGED <<fixed, shadow, heap, call, history>>
  BY DEF vars
<1>2. TypeOK'
  <2>1. StoreTypes'
    BY <1>1 DEF CheckInv, TypeOK, StoreTypes, fixed, shadow, heap, history
  <2>2. CallTypes'
    BY <1>1 DEF CheckInv, TypeOK, CallTypes, call
  <2>. QED
    BY <2>1, <2>2 DEF TypeOK
<1>3. CallShapes'
  BY <1>1 DEF CheckInv, CallShapes, CallShape, Taking, Fits, AtLeast, call, fixed, heap
<1>4. Tables'
  BY <1>1 DEF CheckInv, Tables, call, shadow
<1>5. /\ \A s \in Threads : Releasing(s)' <=> Releasing(s)
      /\ \A s \in Threads : pc'[s] = pc[s]
      /\ \A s \in stray : pc'[s] \in {"config", "release"} /\ back'[s] = "release"
  BY <1>1, StrayIs DEF Releasing, call
<1>6. UNCHANGED <<level, size, slots, rowLive, free, mem, blk, own, unseen, odd, overran, scribbled,
                  verdict, raced, stray>>
  BY <1>1 DEF fixed, shadow, heap, call, history
<1>. HIDE DEF Releasing
<1>. QED
  BY <1>2, <1>3, <1>4, <1>5, <1>6, CallStep

LEMMA ReleaseTwiceStep ==
    ASSUME CheckInv, NEW t \in Threads, ReleaseTwice(t)
    PROVE  CheckInv'
BY TwiceByRight, TwiceAstray

LEMMA CheckStep == CheckInv /\ ~raced' /\ [Next]_vars => CheckInv'
<1>. SUFFICES ASSUME CheckInv, ~raced', [Next]_vars PROVE CheckInv'
  OBVIOUS
<1>0. setup.callers \subseteq Threads
  BY SetupIs DEF CheckInv, TypeOK, StoreTypes
<1>1. CASE Program
  <2>1. ASSUME NEW t \in setup.callers, NEW n \in Requests, CallAlloc(t, n) PROVE CheckInv'
    BY <1>0, <2>1, CallAllocStep
  <2>2. ASSUME NEW t \in setup.callers, NEW n \in Requests, DoorAlloc(t, n) PROVE CheckInv'
    BY <1>0, <2>2, DoorAllocStep
  <2>3. ASSUME NEW t \in setup.callers, NEW p \in Units, CallFree(t, p) PROVE CheckInv'
    BY <1>0, <2>3, CallFreeStep
  <2>4. ASSUME NEW p \in Units, NEW n \in Requests, Resize(p, n) PROVE CheckInv'
    BY <2>4, ResizeStep
  <2>5. ASSUME NEW p \in Units, NEW i \in Units, Use(p, i) PROVE CheckInv'
    BY <2>5, UseStep
  <2>6. ASSUME NEW s \in Sizes, Recycle(s) PROVE CheckInv'
    BY <2>6, RecycleStep
  <2>. QED
    BY <1>1, <2>1, <2>2, <2>3, <2>4, <2>5, <2>6 DEF Program
<1>2. CASE Misuse
  <2>1. ASSUME NEW p \in Units, Overrun(p) PROVE CheckInv'
    BY <2>1, OverrunStep
  <2>2. ASSUME NEW t \in setup.callers, NEW p \in Units, FreeAgain(t, p)
        PROVE  CheckInv'
    BY <1>0, <2>2, FreeAgainStep
  <2>3. ASSUME NEW p \in Units, NEW i \in Units, Scribble(p, i) PROVE CheckInv'
    BY <2>3, ScribbleStep
  <2>. QED
    BY <1>2, <2>1, <2>2, <2>3 DEF Misuse
<1>3. ASSUME NEW t \in Threads, Checking(t) PROVE CheckInv'
  <2>1. CASE Config(t) \/ ConfigRead(t) \/ MakeRows(t) \/ RowsMade(t) \/ RowAlloc(t) \/ RowCas(t)
    BY <2>1, ConfigStep, ConfigReadStep, MakeRowsStep, RowsMadeStep, RowAllocStep, RowCasStep
  <2>2. CASE Grow(t) \/ Body(t) \/ Plain(t) \/ RecordNone(t) \/ Record(t)
    BY <2>2, GrowStep, BodyStep, PlainStep, RecordNoneStep, RecordStep
  <2>3. CASE ReleaseNone(t) \/ ReleaseTwice(t) \/ ReleaseNever(t) \/ Release(t) \/ Retire(t)
             \/ Push(t)
    BY <2>3, ReleaseNoneStep, ReleaseTwiceStep, ReleaseNeverStep, ReleaseStep, RetireStep, PushStep
  <2>. QED
    BY <1>3, <2>1, <2>2, <2>3 DEF Checking
<1>4. CASE UNCHANGED vars
  BY <1>4, CheckStutter
<1>. QED
  BY <1>1, <1>2, <1>3, <1>4 DEF Next

(* Once two releases met, they did.                                         *)
LEMMA RacedStays == raced /\ [Next]_vars => raced'
<1>. SUFFICES ASSUME raced, [Next]_vars PROVE raced'
  OBVIOUS
<1>1. ASSUME NEW t \in Threads, Checking(t) PROVE raced'
  <2>1. CASE Config(t) \/ ConfigRead(t) \/ MakeRows(t) \/ RowsMade(t) \/ RowAlloc(t) \/ RowCas(t)
             \/ Grow(t) \/ ReleaseNone(t) \/ Retire(t) \/ Push(t)
    BY <2>1 DEF Config, ConfigRead, MakeRows, RowsMade, RowAlloc, RowCas, Grow, ReleaseNone,
                Retire, Push, history
  <2>2. CASE Body(t) \/ Plain(t) \/ RecordNone(t) \/ Record(t)
    BY <2>2 DEF Body, Plain, RecordNone, Record, Unrecorded, history
  <2>3. CASE ReleaseTwice(t) \/ ReleaseNever(t) \/ Release(t)
    BY <2>3 DEF ReleaseTwice, ReleaseNever, Release
  <2>. QED
    BY <1>1, <2>1, <2>2, <2>3 DEF Checking
<1>2. CASE UNCHANGED vars
  BY <1>2 DEF vars, history
<1>. QED
  BY <1>1, <1>2 DEF Next

(* What the checker believes is so, in every state: each call has the shape *)
(* of its step, a block is free, the program's or in one call, a slot says  *)
(* what became of the block there, and canaries and poison are whole where  *)
(* nobody wrote (san_alloc, san_on_alloc, san_on_free, slot_of).            *)
THEOREM CheckInvariant == Spec => [](raced \/ CheckInv)
<1>1. (raced \/ CheckInv) /\ [Next]_vars => (raced \/ CheckInv)'
  BY CheckStep, RacedStays
<1>. QED
  BY CheckStart, <1>1, PTL DEF Spec

(* The shape of the state of the checker, its slots and the calls.          *)
THEOREM CheckTypes == Spec => [](raced \/ TypeOK)
<1>1. CheckInv => TypeOK
  BY DEF CheckInv
<1>. QED
  BY CheckInvariant, <1>1, PTL

(* What san_on_alloc and san_on_free call proven the program did, but for   *)
(* blocks resized in place, chunks recycled, and blocks the checker never   *)
(* saw handed out; until two releases of one block meet.                    *)
THEOREM ProvenIsCaused == Spec => []ProvenHasCause
<1>1. raced \/ CheckInv => ProvenHasCause
  BY DEF CheckInv, ProvenHasCause
<1>. QED
  BY CheckInvariant, <1>1, PTL

(* The slots are alive where somebody has the block or gives it back, and   *)
(* nowhere else, and g_row_live counts them: the report of leaks is right,  *)
(* until two releases of one block meet.                                    *)
THEOREM ShadowTells == Spec => []ShadowIsTrue
<1>1. ASSUME CheckInv PROVE ShadowIsTrue
  <2>. DEFINE alive == {u \in Units : slots[u].st = "alive"}
              releasing == {blk[t] : t \in {x \in Threads \ stray : back[x] = "release"}}
  <2>0. Shadow /\ (\A u \in Units : SlotIsTrue(u))
    BY <1>1 DEF CheckInv, Shadow
  <2>1. \A u \in alive : own[u] > 0 \/ u \in releasing
    BY <2>0 DEF SlotIsTrue, Alive, Releasing, Has
  <2>2. \A u \in Units : own[u] > 0 /\ u \notin unseen => u \in alive
    BY <2>0 DEF SlotIsTrue, Alive
  <2>3. rowLive = Cardinality(alive)
    BY <2>0 DEF Shadow, Alive
  <2>. QED
    BY <2>1, <2>2, <2>3 DEF ShadowIsTrue
<1>2. raced => ShadowIsTrue
  BY DEF ShadowIsTrue
<1>. QED
  BY CheckInvariant, <1>1, <1>2, PTL

(* No block is in a list twice, or in a list and in somebody's hands:       *)
(* san_on_free refuses the second release of a block it recorded, unless    *)
(* the second reads the state before the first has written it, or after     *)
(* somebody else got the block.                                             *)
THEOREM HeapIsWhole == Spec => []HeapStaysWhole
<1>1. ASSUME CheckInv PROVE HeapStaysWhole
  <2>. SUFFICES ASSUME NEW u \in Units
                PROVE  free[u] + Cardinality({t \in Threads \ stray : blk[t] = u})
                         + (IF own[u] > 0 THEN 1 ELSE 0) <= 1
    BY <1>1 DEF HeapStaysWhole, CheckInv
  <2>0. SoleAt(u) /\ free[u] \in {0, 1} /\ None # u
    BY <1>1, Bounds DEF CheckInv, Sole, SoleAt
  <2>1. CASE \E t \in Threads : Has(t) = u
    <3>1. PICK t \in Threads : Has(t) = u
      BY <2>1
    <3>2. {s \in Threads \ stray : blk[s] = u} = {t}
      BY <2>0, <3>1 DEF SoleAt, Has
    <3>3. Cardinality({t}) = 1
      BY FS_Singleton
    <3>4. ~(free[u] > 0) /\ ~(own[u] > 0)
      BY <2>0, <3>1 DEF SoleAt
    <3>. QED
      BY <2>0, <3>2, <3>3, <3>4
  <2>2. CASE \A t \in Threads : Has(t) # u
    <3>1. {s \in Threads \ stray : blk[s] = u} = {}
      BY <2>2 DEF Has
    <3>2. free[u] > 0 => ~(own[u] > 0)
      BY <2>0 DEF SoleAt
    <3>. QED
      BY <2>0, <3>1, <3>2, FS_EmptySet
  <2>. QED
    BY <2>1, <2>2
<1>2. raced => HeapStaysWhole
  BY DEF HeapStaysWhole
<1>. QED
  BY CheckInvariant, <1>1, <1>2, PTL

(* A call moves by its own steps only.                                      *)
LEMMA OwnStep ==
    ASSUME CheckInv, Next, NEW t \in Threads, pc[t] \notin {"idle"}, pc'[t] # pc[t]
    PROVE  Checking(t)
<1>0. pc \in [Threads -> Steps]
  BY DEF CheckInv, TypeOK, CallTypes
<1>1. ASSUME NEW s \in Threads, Checking(s) PROVE \A x \in Threads \ {s} : pc'[x] = pc[x]
  BY <1>0, <1>1
     DEF Checking, Config, ConfigRead, MakeRows, RowsMade, RowAlloc, RowCas, Grow, Body, Plain,
         RecordNone, Record, ReleaseNone, ReleaseTwice, ReleaseNever, Release, Retire, Push,
         Unrecorded, Go, End
<1>2. CASE Program
  <2>1. ASSUME NEW s, NEW n, CallAlloc(s, n) PROVE pc'[t] = pc[t]
    BY <1>0, <2>1 DEF CallAlloc
  <2>2. ASSUME NEW s, NEW p, CallFree(s, p) PROVE pc'[t] = pc[t]
    BY <1>0, <2>2 DEF CallFree
  <2>3. ASSUME NEW s, NEW n, DoorAlloc(s, n) PROVE pc'[t] = pc[t]
    BY <2>3 DEF DoorAlloc, call
  <2>. QED
    BY <1>2, <2>1, <2>2, <2>3 DEF Program, Resize, Use, Recycle, call
<1>3. CASE Misuse
  <2>1. ASSUME NEW s, NEW p, FreeAgain(s, p) PROVE pc'[t] = pc[t]
    BY <1>0, <2>1 DEF FreeAgain
  <2>. QED
    BY <1>3, <2>1 DEF Misuse, Overrun, Scribble, call
<1>. QED
  BY <1>1, <1>2, <1>3 DEF Next

(* A write behind a block is told when the block is released, ...           *)
LEMMA OverrunTold ==
    ASSUME CheckInv, Next, NEW t \in Threads, NEW p \in Units, blk[t] = p,
           AtLeast("canary"), p \in overran, p \notin unseen, odd[p] = {},
           pc[t] = "release", pc'[t] = "freeing", ~raced'
    PROVE  Caught("overrun")
<1>. DEFINE n == slots[p].req
<1>0. CallTypes /\ CallShape(t) /\ Tables
  BY DEF CheckInv, TypeOK, CallShapes
<1>5. Checking(t)
  BY OwnStep
<1>6. Release(t)
  <2>1. ~Config(t) /\ ~ConfigRead(t) /\ ~RowsMade(t) /\ ~RowCas(t) /\ ~Grow(t) /\ ~Body(t)
        /\ ~Plain(t) /\ ~RecordNone(t) /\ ~Record(t) /\ ~Retire(t) /\ ~Push(t)
    BY DEF Config, ConfigRead, RowsMade, RowCas, Grow, Body, Plain, RecordNone, Record, Retire,
           Push
  <2>2. ASSUME MakeRows(t) \/ RowAlloc(t) \/ ReleaseNone(t) \/ ReleaseNever(t) PROVE FALSE
    BY <1>0, <2>2 DEF MakeRows, RowAlloc, ReleaseNone, ReleaseNever, Go, CallTypes
  <2>3. ASSUME ReleaseTwice(t) PROVE FALSE
    BY <1>0, <2>3 DEF ReleaseTwice, End, CallTypes
  <2>. QED
    BY <1>5, <2>1, <2>2, <2>3 DEF Checking
<1>x. t \notin stray /\ Alive(p)
  <2>1. Alive(p) /\ raced' = (raced \/ Meets(t))
    BY <1>6 DEF Release, Alive
  <2>. QED
    BY <2>1, StrayIs
<1>1. /\ SlotIsTrue(p) /\ CanaryAt(p) /\ p \in Nat /\ size \in Nat /\ p >= 1
      /\ p + size - 1 <= ChunkUnits
  <2>1. Has(t) = p /\ p # None
    BY <1>x, Bounds DEF Has
  <2>. QED
    BY <2>1, HeldIs
<1>2. Fits(n) /\ n \in Nat /\ mem[p + n] # "canary"
  <2>1. slots[p].req \in Requests
    BY <1>1, <1>x DEF SlotIsTrue
  <2>. QED
    BY <1>1, <1>x, <2>1, RequestIs DEF SlotIsTrue, CanaryAt
<1>. HIDE DEF n
<1>3. p + n \in Guard(p, n)
  <2>1. CanaryUnits \in Nat /\ CanaryUnits > 0 /\ Units = 1 .. ChunkUnits /\ ChunkUnits \in Nat
    BY Bounds
  <2>2. p + n < p + n + CanaryUnits /\ p + n <= p + size - 1 /\ p + n >= 1
    BY <1>1, <1>2, <2>1 DEF Fits
  <2>. QED
    BY <1>1, <1>2, <2>1, <2>2 DEF Guard
<1>7. Say("overrun", "proven", p \in overran, p)
  BY <1>2, <1>3, <1>6 DEF Release, n
<1>8. verdict'.what = "overrun" /\ (verdict'.just <=> p \in overran)
  BY <1>7 DEF Say
<1>. QED
  BY <1>8 DEF Caught

(* ... and one into a released block when it is handed out again.           *)
LEMMA LateWriteTold ==
    ASSUME CheckInv, Next, NEW t \in Threads, NEW p \in Units, blk[t] = p,
           AtLeast("poison"), p \in scribbled, odd[p] \cap {"door", "recycle"} = {},
           pc[t] = "record", pc'[t] = "idle"
    PROVE  Caught("late write")
<1>0. CallTypes /\ Tables /\ ScribbleAt(p)
  BY DEF CheckInv, TypeOK, Marks
<1>1. slots[p].st = "freed" /\ \E i \in Filled : mem[p + i - 1] # "poison"
  BY <1>0 DEF ScribbleAt
<1>2. row /\ Ready
  BY <1>0, <1>1 DEF Tables, Blank, Never, Ready
<1>3. Checking(t)
  BY OwnStep
<1>4. Record(t)
  <2>1. ~RecordNone(t)
    BY <1>2 DEF RecordNone, NotReady, NeedsRow, Ready
  <2>2. ~MakeRows(t) /\ ~RowAlloc(t)
    BY <1>2 DEF MakeRows, RowAlloc, NeedsRow, Ready
  <2>. QED
    BY <1>3, <2>1, <2>2
       DEF Checking, Config, ConfigRead, RowsMade, RowCas, Grow, Body, Plain,
           ReleaseNone, ReleaseTwice, ReleaseNever, Release, Released, Retire, Push
<1>5. Say("late write", "proven", p \in scribbled, p)
  BY <1>1, <1>4 DEF Record
<1>6. verdict'.what = "late write" /\ (verdict'.just <=> p \in scribbled)
  BY <1>5 DEF Say
<1>. QED
  BY <1>6 DEF Caught

(* Misuse is told, where the checker saw the block handed out and released: *)
(* whatever the class, and however little of the class is left behind.      *)
THEOREM MisuseIsCaught == Spec => MisuseCaught
<1>1. ASSUME raced \/ CheckInv, [Next]_vars
      PROVE  [\A t \in Threads : \A p \in Units :
                blk[t] = p /\ ~raced' =>
                /\ AtLeast("canary") /\ p \in overran /\ p \notin unseen /\ odd[p] = {}
                   /\ pc[t] = "release" /\ pc'[t] = "freeing" => Caught("overrun")
                /\ AtLeast("poison") /\ p \in scribbled /\ odd[p] \cap {"door", "recycle"} = {}
                   /\ pc[t] = "record" /\ pc'[t] = "idle" => Caught("late write")]_vars
  <2>1. CASE raced
    BY <1>1, <2>1, RacedStays
  <2>2. CASE CheckInv
    BY <1>1, <2>2, OverrunTold, LateWriteTold
  <2>. QED
    BY <1>1, <2>1, <2>2
<1>. QED
  BY CheckInvariant, <1>1, PTL DEF Spec, MisuseCaught

=============================================================================
