-------------------------- MODULE Companions_proofs ---------------------------
(***************************************************************************)
(* Proofs about the parts that share no memory with one another: the slots *)
(* of threads, the depot of call stacks, the guarded blocks and the small  *)
(* vectors, for any number of threads, objects, keys, values, stacks,      *)
(* entries, chunks, addresses, places in the table and the index, vectors  *)
(* and elements.                                                           *)
(***************************************************************************)
EXTENDS ThreadSlots, StackDepot, Guarded, SmallVectors, TLAPS, FiniteSetTheorems,
        SequenceTheorems, WellFoundedInduction

(***************************************************************************)
(* The slots of threads: what a thread stored in an object it reads there, *)
(* and a notice tells what was due.                                        *)
(***************************************************************************)

(* Keys are numbers, and "no key" is none of them.                          *)
LEMMA NoKeyIsNone == /\ NumKeys \in Nat /\ NoKey \notin Keys /\ Keys \subseteq Nat
                     /\ NoKey \in Nat /\ \A k \in Nat : k < NumKeys => k \in Keys
                     /\ Null \notin SlotValues
BY SlotsAssumption DEF Keys, NoKey

(* A thread at rest has no key in hand.                                     *)
LEMMA IdleIs == /\ Idle.step = "idle" /\ Idle.key = NoKey /\ Idle.val = Null
                /\ Idle = [step |-> "idle", obj |-> Idle.obj, key |-> NoKey, val |-> Null]
BY DEF Idle

LEMMA SlotsStart == SlotsInit => SlotsInv
<1>. SUFFICES ASSUME SlotsInit PROVE SlotsInv
  OBVIOUS
<1>. USE NoKeyIsNone, IdleIs DEF SlotsInit
<1>1. SlotTypes
  BY DEF SlotTypes, SlotKeys, SlotData
<1>2. KeysApart
  BY DEF KeysApart
<1>3. KeysClean /\ ToldWasDue /\ ReadsItsOwn
  BY DEF KeysClean, ToldWasDue, ReadsItsOwn
<1>. QED
  BY <1>1, <1>2, <1>3 DEF SlotsInv

LEMMA EnsureStep ==
    ASSUME SlotsInv, NEW t \in Users, NEW o \in Objects, Ensure(t, o)
    PROVE  SlotsInv'
<1>. USE NoKeyIsNone, IdleIs DEF Ensure
<1>0. SlotTypes /\ KeysApart /\ KeysClean /\ ToldWasDue /\ ReadsItsOwn
  BY DEF SlotsInv
<1>1. SlotTypes'
  BY <1>0 DEF SlotTypes, SlotKeys, SlotData
<1>2. KeysApart'
  BY <1>0 DEF SlotTypes, SlotKeys, KeysApart
<1>3. KeysClean'
  BY <1>0 DEF SlotTypes, SlotKeys, KeysApart, KeysClean
<1>4. ToldWasDue'
  BY <1>0 DEF SlotTypes, SlotKeys, KeysApart, KeysClean, ToldWasDue
<1>5. ReadsItsOwn'
  BY <1>0 DEF SlotTypes, SlotKeys, KeysApart, KeysClean, ReadsItsOwn
<1>. QED
  BY <1>1, <1>2, <1>3, <1>4, <1>5 DEF SlotsInv

LEMMA NotifyStep ==
    ASSUME SlotsInv, NEW t \in Users, NEW o \in Objects, NotifyOnExit(t, o)
    PROVE  SlotsInv'
<1>. USE NoKeyIsNone, IdleIs DEF NotifyOnExit
<1>0. SlotTypes /\ KeysApart /\ KeysClean /\ ToldWasDue /\ ReadsItsOwn
  BY DEF SlotsInv
<1>1. SlotTypes'
  BY <1>0 DEF SlotTypes, SlotKeys, SlotData
<1>2. KeysApart'
  BY <1>0 DEF SlotTypes, SlotKeys, KeysApart
<1>3. KeysClean'
  BY <1>0 DEF SlotTypes, SlotKeys, KeysApart, KeysClean
<1>4. ToldWasDue'
  BY <1>0 DEF SlotTypes, SlotKeys, KeysApart, KeysClean, ToldWasDue
<1>5. ReadsItsOwn'
  BY <1>0 DEF SlotTypes, SlotKeys, KeysApart, KeysClean, ReadsItsOwn
<1>. QED
  BY <1>1, <1>2, <1>3, <1>4, <1>5 DEF SlotsInv

LEMMA TakeKeyStep ==
    ASSUME SlotsInv, NEW t \in Users, TakeKey(t)
    PROVE  SlotsInv'
<1>. USE NoKeyIsNone, IdleIs DEF TakeKey
<1>0. SlotTypes /\ KeysApart /\ KeysClean /\ ToldWasDue /\ ReadsItsOwn
  BY DEF SlotsInv
<1>1. SlotTypes'
  <2>. DEFINE doing == [step : {"idle", "slot", "exit", "arm", "ending"},
                       obj : Objects \cup {Idle.obj}, key : SlotKeys, val : SlotData]
              next == IF keyCount < NumKeys THEN [busy[t] EXCEPT !.key = keyCount] ELSE Idle
  <2>1. busy \in [Users -> doing] /\ keyCount \in Nat
    BY <1>0 DEF SlotTypes
  <2>2. next \in doing
    <3>1. busy[t] \in doing
      BY <2>1
    <3>2. keyCount < NumKeys => keyCount \in SlotKeys
      BY <2>1 DEF SlotKeys
    <3>3. Idle \in doing
      BY DEF SlotKeys, SlotData
    <3>. QED
      BY <3>1, <3>2, <3>3
  <2>3. /\ next.step \in {"slot", "exit", "arm"} => next.obj \in Objects
        /\ next.step \notin {"slot", "exit"} => next.key = NoKey
        /\ next.step # "arm"
    <3>1. busy[t] \in doing /\ busy[t].obj \in Objects
      BY <1>0, <2>1 DEF SlotTypes
    <3>. QED
      BY <3>1
  <2>4. busy' = [busy EXCEPT ![t] = next] /\ keyCount' \in Nat
    BY <2>1
  <2>. HIDE DEF next, doing
  <2>5. busy' \in [Users -> doing] /\ \A u \in Users : busy'[u] = IF u = t THEN next ELSE busy[u]
    BY <2>1, <2>2, <2>4
  <2>6. \A u \in Users :
           /\ busy'[u].step \in {"slot", "exit", "arm"} => busy'[u].obj \in Objects
           /\ busy'[u].step \notin {"slot", "exit"} => busy'[u].key = NoKey
           /\ busy'[u].step = "arm" => slotKey[busy'[u].obj] # NoKey
    BY <1>0, <2>3, <2>5 DEF SlotTypes
  <2>. QED
    BY <1>0, <2>4, <2>5, <2>6 DEF SlotTypes, doing
<1>2. KeysApart'
  BY <1>0 DEF SlotTypes, SlotKeys, KeysApart
<1>3. KeysClean'
  BY <1>0 DEF SlotTypes, SlotKeys, KeysApart, KeysClean
<1>4. ToldWasDue'
  BY <1>0 DEF SlotTypes, SlotKeys, KeysApart, KeysClean, ToldWasDue
<1>5. ReadsItsOwn'
  BY <1>0 DEF SlotTypes, SlotKeys, KeysApart, KeysClean, ReadsItsOwn
<1>. QED
  BY <1>1, <1>2, <1>3, <1>4, <1>5 DEF SlotsInv

LEMMA ReserveSlotStep ==
    ASSUME SlotsInv, NEW t \in Users, ReserveSlot(t)
    PROVE  SlotsInv'
<1>. USE NoKeyIsNone, IdleIs DEF ReserveSlot
<1>0. SlotTypes /\ KeysApart /\ KeysClean /\ ToldWasDue /\ ReadsItsOwn
  BY DEF SlotsInv
<1>1. SlotTypes'
  BY <1>0 DEF SlotTypes, SlotKeys, SlotData
<1>2. KeysApart'
  BY <1>0 DEF SlotTypes, SlotKeys, KeysApart
<1>3. KeysClean'
  BY <1>0 DEF SlotTypes, SlotKeys, KeysApart, KeysClean
<1>4. ToldWasDue'
  BY <1>0 DEF SlotTypes, SlotKeys, KeysApart, KeysClean, ToldWasDue
<1>5. ReadsItsOwn'
  BY <1>0 DEF SlotTypes, SlotKeys, KeysApart, KeysClean, ReadsItsOwn
<1>. QED
  BY <1>1, <1>2, <1>3, <1>4, <1>5 DEF SlotsInv

LEMMA ReserveExitStep ==
    ASSUME SlotsInv, NEW t \in Users, ReserveExit(t)
    PROVE  SlotsInv'
<1>. USE NoKeyIsNone, IdleIs DEF ReserveExit
<1>0. SlotTypes /\ KeysApart /\ KeysClean /\ ToldWasDue /\ ReadsItsOwn
  BY DEF SlotsInv
<1>1. SlotTypes'
  BY <1>0 DEF SlotTypes, SlotKeys, SlotData
<1>2. KeysApart'
  BY <1>0 DEF SlotTypes, SlotKeys, KeysApart
<1>3. KeysClean'
  BY <1>0 DEF SlotTypes, SlotKeys, KeysApart, KeysClean
<1>4. ToldWasDue'
  BY <1>0 DEF SlotTypes, SlotKeys, KeysApart, KeysClean, ToldWasDue
<1>5. ReadsItsOwn'
  BY <1>0 DEF SlotTypes, SlotKeys, KeysApart, KeysClean, ReadsItsOwn
<1>. QED
  BY <1>1, <1>2, <1>3, <1>4, <1>5 DEF SlotsInv

LEMMA SetValueStep ==
    ASSUME SlotsInv, NEW t \in Users, NEW o \in Objects, NEW v \in SlotValues, SetValue(t, o, v)
    PROVE  SlotsInv'
<1>. USE NoKeyIsNone, IdleIs DEF SetValue
<1>0. SlotTypes /\ KeysApart /\ KeysClean /\ ToldWasDue /\ ReadsItsOwn
  BY DEF SlotsInv
<1>1. SlotTypes'
  BY <1>0 DEF SlotTypes, SlotKeys, SlotData
<1>2. KeysApart'
  BY <1>0 DEF SlotTypes, SlotKeys, KeysApart
<1>3. KeysClean'
  BY <1>0 DEF SlotTypes, SlotKeys, KeysApart, KeysClean
<1>4. ToldWasDue'
  BY <1>0 DEF SlotTypes, SlotKeys, KeysApart, KeysClean, ToldWasDue
<1>5. ReadsItsOwn'
  BY <1>0 DEF SlotTypes, SlotKeys, KeysApart, KeysClean, ReadsItsOwn
<1>. QED
  BY <1>1, <1>2, <1>3, <1>4, <1>5 DEF SlotsInv

LEMMA ArmNoticeStep ==
    ASSUME SlotsInv, NEW t \in Users, ArmNotice(t)
    PROVE  SlotsInv'
<1>. USE NoKeyIsNone, IdleIs
<1>0. SlotTypes /\ KeysApart /\ KeysClean /\ ToldWasDue /\ ReadsItsOwn
  BY DEF SlotsInv
<1>. DEFINE o == busy[t].obj
            k == exitKey[o]
            v == busy[t].val
<1>a. /\ o \in Objects /\ v \in SlotData /\ k \in SlotKeys
      /\ slotKey[o] # NoKey /\ busy[t].key = NoKey
  <2>1. /\ busy[t].step = "arm" /\ busy[t].val \in SlotData
        /\ busy[t].obj \in Objects /\ busy[t].key = NoKey /\ slotKey[busy[t].obj] # NoKey
    BY <1>0 DEF ArmNotice, SlotTypes
  <2>. QED
    BY <1>0, <2>1 DEF SlotTypes
<1>b. /\ UNCHANGED <<slotKey, exitKey, keyCount, stored, latest, heard, sets>>
      /\ busy[t].step = "arm" /\ busy' = [busy EXCEPT ![t] = Idle]
  BY DEF ArmNotice
<1>c. IF k # NoKey THEN armed' = [armed EXCEPT ![t][k] = v] /\ due' = [due EXCEPT ![t][o] = v]
                   ELSE armed' = armed /\ due' = due
  BY DEF ArmNotice
<1>. HIDE DEF o, k, v
<1>d. \A u \in Users, j \in Keys :
         armed'[u][j] = IF u = t /\ j = k THEN v ELSE armed[u][j]
  BY <1>0, <1>a, <1>c DEF SlotTypes, SlotKeys
<1>e. \A u \in Users, p \in Objects :
         due'[u][p] = IF u = t /\ p = o /\ k # NoKey THEN v ELSE due[u][p]
  BY <1>0, <1>a, <1>c DEF SlotTypes
<1>1. SlotTypes'
  <2>1. armed' \in [Users -> [Keys -> SlotData]]
    <3>1. CASE k = NoKey
      BY <1>0, <1>c, <3>1 DEF SlotTypes
    <3>2. CASE k \in Keys
      <4>1. armed' = [armed EXCEPT ![t] = [armed[t] EXCEPT ![k] = v]]
        BY <1>a, <1>c, <3>2
      <4>2. armed \in [Users -> [Keys -> SlotData]] /\ armed[t] \in [Keys -> SlotData]
        BY <1>0 DEF SlotTypes
      <4>3. [armed[t] EXCEPT ![k] = v] \in [Keys -> SlotData]
        BY <1>a, <4>2
      <4>. QED
        BY <4>1, <4>2, <4>3
    <3>. QED
      BY <1>a, <3>1, <3>2 DEF SlotKeys
  <2>2. due' \in [Users -> [Objects -> SlotData]]
    <3>1. CASE k = NoKey
      BY <1>0, <1>c, <3>1 DEF SlotTypes
    <3>2. CASE k # NoKey
      <4>1. due' = [due EXCEPT ![t] = [due[t] EXCEPT ![o] = v]]
        BY <1>c, <3>2
      <4>2. due \in [Users -> [Objects -> SlotData]] /\ due[t] \in [Objects -> SlotData]
        BY <1>0 DEF SlotTypes
      <4>3. [due[t] EXCEPT ![o] = v] \in [Objects -> SlotData]
        BY <1>a, <4>2
      <4>. QED
        BY <4>1, <4>2, <4>3
    <3>. QED
      BY <3>1, <3>2
  <2>3. busy' \in [Users -> [step : {"idle", "slot", "exit", "arm", "ending"},
                            obj : Objects \cup {Idle.obj}, key : SlotKeys, val : SlotData]]
    BY <1>0, <1>b DEF SlotTypes, SlotKeys, SlotData
  <2>4. \A u \in Users : busy'[u] = IF u = t THEN Idle ELSE busy[u]
    BY <1>0, <1>b DEF SlotTypes
  <2>5. \A u \in Users :
           /\ busy'[u].step \in {"slot", "exit", "arm"} => busy'[u].obj \in Objects
           /\ busy'[u].step \notin {"slot", "exit"} => busy'[u].key = NoKey
           /\ busy'[u].step = "arm" => slotKey[busy'[u].obj] # NoKey
    BY <1>0, <2>4 DEF SlotTypes
  <2>. QED
    BY <1>0, <1>b, <2>1, <2>2, <2>3, <2>5 DEF SlotTypes
<1>f. \A u \in Users : busy'[u] = IF u = t THEN Idle ELSE busy[u]
  BY <1>0, <1>b DEF SlotTypes
<1>2. KeysApart'
  BY <1>0, <1>b, <1>f DEF KeysApart
<1>3. KeysClean'
  <2>. SUFFICES ASSUME NEW u \in Users
       PROVE  /\ \A j \in Keys : stored[u][j] # Null => \E p \in Objects : slotKey[p] = j
              /\ \A j \in Keys : armed'[u][j] # Null => \E p \in Objects : exitKey[p] = j
              /\ \A p \in Objects :
                    /\ slotKey[p] = NoKey => latest[u][p] = Null
                    /\ exitKey[p] # NoKey /\ armed'[u][exitKey[p]] # Null =>
                          armed'[u][exitKey[p]] = due'[u][p] /\ slotKey[p] # NoKey
    BY <1>b DEF KeysClean
  <2>1. \A j \in Keys : armed'[u][j] # Null => \E p \in Objects : exitKey[p] = j
    BY <1>0, <1>a, <1>d DEF KeysClean, k
  <2>2. ASSUME NEW p \in Objects, exitKey[p] # NoKey, armed'[u][exitKey[p]] # Null
        PROVE  armed'[u][exitKey[p]] = due'[u][p] /\ slotKey[p] # NoKey
    <3>1. exitKey[p] \in Keys /\ (p # o => exitKey[p] # k) /\ (p = o => exitKey[p] = k)
      BY <1>0, <1>a, <2>2 DEF SlotTypes, SlotKeys, KeysApart, k
    <3>. QED
      BY <1>0, <1>a, <1>d, <1>e, <2>2, <3>1 DEF KeysClean
  <2>. QED
    BY <1>0, <2>1, <2>2 DEF KeysClean
<1>4. ToldWasDue'
  <2>. SUFFICES ASSUME NEW h \in heard
                PROVE  \E u \in Users, p \in Objects :
                          /\ h = <<u, p, due'[u][p]>> /\ busy'[u].step = "ending"
                          /\ exitKey[p] # NoKey /\ armed'[u][exitKey[p]] = Null
    BY <1>b DEF ToldWasDue
  <2>1. PICK u \in Users, p \in Objects :
           /\ h = <<u, p, due[u][p]>> /\ busy[u].step = "ending"
           /\ exitKey[p] # NoKey /\ armed[u][exitKey[p]] = Null
    BY <1>0 DEF ToldWasDue
  <2>2. u # t /\ exitKey[p] \in Keys
    BY <1>0, <1>b, <2>1 DEF SlotTypes, SlotKeys
  <2>. QED
    BY <1>d, <1>e, <1>f, <2>1, <2>2
<1>5. ReadsItsOwn'
  BY <1>0, <1>b DEF ReadsItsOwn
<1>. QED
  BY <1>1, <1>2, <1>3, <1>4, <1>5 DEF SlotsInv

LEMMA ThreadEndsStep ==
    ASSUME SlotsInv, NEW t \in Users, ThreadEnds(t)
    PROVE  SlotsInv'
<1>. USE NoKeyIsNone, IdleIs DEF ThreadEnds
<1>0. SlotTypes /\ KeysApart /\ KeysClean /\ ToldWasDue /\ ReadsItsOwn
  BY DEF SlotsInv
<1>1. SlotTypes'
  BY <1>0 DEF SlotTypes, SlotKeys, SlotData
<1>2. KeysApart'
  BY <1>0 DEF SlotTypes, SlotKeys, KeysApart
<1>3. KeysClean'
  BY <1>0 DEF SlotTypes, SlotKeys, KeysApart, KeysClean
<1>4. ToldWasDue'
  BY <1>0 DEF SlotTypes, SlotKeys, KeysApart, KeysClean, ToldWasDue
<1>5. ReadsItsOwn'
  BY <1>0 DEF SlotTypes, SlotKeys, KeysApart, KeysClean, ReadsItsOwn
<1>. QED
  BY <1>1, <1>2, <1>3, <1>4, <1>5 DEF SlotsInv

LEMMA ExitNoticeStep ==
    ASSUME SlotsInv, NEW t \in Users, NEW o \in Objects, NEW mark \in SlotValues,
           ExitNotice(t, o, mark)
    PROVE  SlotsInv'
<1>. USE NoKeyIsNone, IdleIs DEF ExitNotice
<1>0. SlotTypes /\ KeysApart /\ KeysClean /\ ToldWasDue /\ ReadsItsOwn
  BY DEF SlotsInv
<1>1. SlotTypes'
  BY <1>0 DEF SlotTypes, SlotKeys, SlotData
<1>2. KeysApart'
  BY <1>0 DEF SlotTypes, SlotKeys, KeysApart
<1>3. KeysClean'
  BY <1>0 DEF SlotTypes, SlotKeys, KeysApart, KeysClean
<1>4. ToldWasDue'
  BY <1>0 DEF SlotTypes, SlotKeys, KeysApart, KeysClean, ToldWasDue
<1>5. ReadsItsOwn'
  BY <1>0 DEF SlotTypes, SlotKeys, KeysApart, KeysClean, ReadsItsOwn
<1>. QED
  BY <1>1, <1>2, <1>3, <1>4, <1>5 DEF SlotsInv

-----------------------------------------------------------------------------
LEMMA SlotsStep == SlotsInv /\ [SlotsNext]_slotVars => SlotsInv'
<1>. SUFFICES ASSUME SlotsInv, [SlotsNext]_slotVars PROVE SlotsInv'
  OBVIOUS
<1>1. CASE UNCHANGED slotVars
  BY <1>1 DEF SlotsInv, slotVars, SlotTypes, KeysApart, KeysClean, ToldWasDue, ReadsItsOwn
<1>2. CASE SlotsNext
  <2>1. PICK t \in Users :
           \/ \E o \in Objects : Ensure(t, o) \/ NotifyOnExit(t, o)
           \/ TakeKey(t) \/ ReserveSlot(t) \/ ReserveExit(t)
           \/ \E o \in Objects, v \in SlotValues : SetValue(t, o, v)
           \/ ArmNotice(t)
           \/ ThreadEnds(t)
           \/ \E o \in Objects, mark \in SlotValues : ExitNotice(t, o, mark)
    BY <1>2 DEF SlotsNext
  <2>. QED
    BY <2>1, EnsureStep, NotifyStep, TakeKeyStep, ReserveSlotStep, ReserveExitStep,
       SetValueStep, ArmNoticeStep, ThreadEndsStep, ExitNoticeStep
<1>. QED
  BY <1>1, <1>2

(* The inductive invariant: a key is one object's slot, one object's channel *)
(* or in one thread's hands, and nothing is in it before.                   *)
THEOREM SlotsInvariant == SlotsSpec => []SlotsInv
<1>1. SlotsInit => SlotsInv
  BY SlotsStart
<1>2. SlotsInv /\ [SlotsNext]_slotVars => SlotsInv'
  BY SlotsStep
<1>. QED
  BY <1>1, <1>2, PTL DEF SlotsSpec

(* A thread reads what it last stored, whoever won the race for the key, and *)
(* each notice tells the last value that was due, once.                     *)
THEOREM SlotsOwn == SlotsSpec => []SlotsAreOwn
<1>1. SlotsInv => SlotsAreOwn
  BY DEF SlotsInv, SlotsAreOwn, NoticesAreTrue, ToldWasDue
<1>. QED
  BY <1>1, SlotsInvariant, PTL

(***************************************************************************)
(* The depot of call stacks.                                               *)
(***************************************************************************)

Filling == {"reserve", "chunk", "publish", "write", "ready"}

\* The p-th place a stack is looked for.
Spot(s, p) == ((FirstLook[s] - 1 + p) % (DepotSlots - 1)) + 1

\* An entry whose frames count, and a call that has taken frames.
Holds(i) == depot[i].state = "ready" /\ depot[i].n > 0
Placed(t) == /\ interning[t].step \in {"chunk", "publish", "write", "ready"}
             /\ interning[t].start # NoRoom

DepotEntry == [state : {"empty", "claiming", "ready"}, first : Nat, n : Nat, cut : BOOLEAN]
InternCall == [step : Filling \cup {"rest", "look", "claim"},
               stack : CallStacks \cup {AtRest.stack}, id : Ids \cup {0},
               probe : Nat, used : Nat, start : Nat]

DepotTypes ==
    /\ depot \in [Ids -> DepotEntry]
    /\ frames \in [Frames -> {<<>>} \cup (CallStacks \X Nat)]
    /\ chunkMade \subseteq 0 .. PoolChunks - 1
    /\ chunkMem \in [0 .. PoolChunks - 1 -> Int]
    /\ poolUsed \in 0 .. NoRoom
    /\ interning \in [Interners -> InternCall]
    /\ named \subseteq Ids \X CallStacks

\* Whoever walks the table is where the stack's hash and its steps lead; who
\* fills an entry is alone with it.
CallsApart ==
    /\ \A t \in Interners : interning[t].step # "rest" =>
         /\ interning[t].stack \in CallStacks
         /\ interning[t].id \in Ids
         /\ interning[t].id = Spot(interning[t].stack, interning[t].probe)
         /\ interning[t].used <= poolUsed
    /\ \A t \in Interners : interning[t].step \in Filling =>
                              depot[interning[t].id].state = "claiming"
    /\ \A t, u \in Interners :
         /\ interning[t].step \in Filling /\ interning[u].step \in Filling
         /\ interning[t].id = interning[u].id
         => t = u

\* Frames of one call: handed out, in the pool, and in one chunk of it.
Within(first, n) == \A k \in 0 .. n - 1 : (first + k) \div PoolChunk = first \div PoolChunk
Away(a, n, b, m) == a + n <= b \/ b + m <= a

FramesApart ==
    /\ \A t \in Interners : interning[t].step \in {"chunk", "publish"} => Placed(t)
    /\ \A t \in Interners : Placed(t) =>
         /\ interning[t].start + Depth[interning[t].stack] <= poolUsed
         /\ Within(interning[t].start, Depth[interning[t].stack])
    /\ \A i \in Ids : Holds(i) =>
         /\ depot[i].first + depot[i].n <= poolUsed
         /\ Within(depot[i].first, depot[i].n)
    /\ \A t, u \in Interners : Placed(t) /\ Placed(u) /\ t # u =>
         Away(interning[t].start, Depth[interning[t].stack],
               interning[u].start, Depth[interning[u].stack])
    /\ \A t \in Interners, i \in Ids : Placed(t) /\ Holds(i) =>
         Away(interning[t].start, Depth[interning[t].stack], depot[i].first, depot[i].n)

\* What is in the entries and, before they are, in the hands of the calls.
ChunksThere ==
    \A t \in Interners : Placed(t) /\ interning[t].step \in {"write", "ready"} =>
        interning[t].start \div PoolChunk \in chunkMade
FramesInHand ==
    \A t \in Interners : interning[t].step = "ready" =>
        IF interning[t].start = NoRoom
          THEN depot[interning[t].id].n = 0 /\ depot[interning[t].id].cut
          ELSE /\ depot[interning[t].id].first = interning[t].start
               /\ depot[interning[t].id].n = Depth[interning[t].stack]
               /\ ~ depot[interning[t].id].cut
               /\ \A k \in 0 .. Depth[interning[t].stack] - 1 :
                    frames[interning[t].start + k] = <<interning[t].stack, k>>
EntriesWhole ==
    /\ \A i \in Ids : depot[i].state = "empty" => depot[i] = Unclaimed
    /\ \A t \in Interners : interning[t].step \in Filling \ {"ready"} =>
         depot[interning[t].id] = [Unclaimed EXCEPT !.state = "claiming"]
    /\ \A i \in Ids : depot[i].state = "ready" =>
         IF depot[i].n = 0 THEN depot[i].cut
                           ELSE ~ depot[i].cut /\ \E s \in CallStacks : SameStack(depot[i], s)

\* Whoever made an entry looks no further than it for the same stack again.
MakersHold(maker) ==
    /\ maker \in [Ids -> Interners]
    /\ \A t \in Interners : interning[t].step \in Filling => maker[interning[t].id] = t
    /\ \A i \in Ids, s \in CallStacks : Holds(i) /\ SameStack(depot[i], s) =>
         \E p \in Nat : /\ i = Spot(s, p)
                        /\ \A q \in 0 .. p - 1 : depot[Spot(s, q)].state # "empty"
    /\ \A i, j \in Ids, s \in CallStacks :
         /\ Holds(i) /\ SameStack(depot[i], s) /\ Holds(j) /\ SameStack(depot[j], s)
         /\ maker[i] = maker[j]
         => i = j
    /\ \A t \in Interners, i \in Ids, s \in CallStacks, q \in Nat :
         /\ interning[t].step # "rest" /\ s = interning[t].stack
         /\ q < interning[t].probe /\ i = Spot(s, q)
         => /\ depot[i].state # "empty"
            /\ ~ (Holds(i) /\ SameStack(depot[i], s) /\ maker[i] = t)
    /\ \A t \in Interners, i \in Ids, s \in CallStacks :
         interning[t].step \in Filling /\ s = interning[t].stack =>
            ~ (Holds(i) /\ SameStack(depot[i], s) /\ maker[i] = t)

DepotInv == /\ DepotTypes /\ CallsApart /\ FramesApart /\ ChunksThere /\ FramesInHand
            /\ EntriesWhole /\ IdNamesItsStack /\ OneChunkEach
            /\ \E maker \in [Ids -> Interners] : MakersHold(maker)

LEMMA DepotConstants ==
    /\ DepotSlots \in Nat /\ DepotSlots - 1 \in Nat \ {0} /\ DepotProbe \in Nat
    /\ PoolChunk \in Nat \ {0} /\ PoolChunks \in Nat /\ NoRoom \in Nat
    /\ \A s \in CallStacks : Depth[s] \in Nat /\ 0 < Depth[s] /\ Depth[s] <= PoolChunk
    /\ \A s \in CallStacks : FirstLook[s] \in Nat /\ FirstLook[s] \in Ids
    /\ \A f : f \in Frames <=> f \in Nat /\ f < NoRoom
    /\ Ids \subseteq Nat /\ 0 \notin Ids /\ IsFiniteSet(Interners) /\ Interners # {}
<1>1. NoRoom \in Nat
  BY DepotAssumption DEF NoRoom
<1>. QED
  BY <1>1, DepotAssumption DEF Ids, Frames

LEMMA AtRestIs ==
    /\ AtRest.step = "rest" /\ AtRest.id = 0 /\ AtRest.probe = 0 /\ AtRest.used = 0
    /\ AtRest.start = 0
    /\ AtRest = [step |-> "rest", stack |-> AtRest.stack, id |-> 0, probe |-> 0, used |-> 0,
                 start |-> 0]
BY DEF AtRest

LEMMA DivParts ==
    ASSUME NEW s \in Nat \ {0}, NEW a \in Nat
    PROVE  /\ a = (a \div s) * s + (a % s) /\ a % s \in 0 .. s - 1 /\ a \div s \in Nat
           /\ a % s < s /\ a % s \in Nat
<1>1. a = s * (a \div s) + (a % s) /\ a % s \in 0 .. s - 1 /\ a \div s \in Nat
  OBVIOUS
<1>2. s * (a \div s) = (a \div s) * s
  BY <1>1
<1>. QED
  BY <1>1, <1>2

(* Numbers that share a chunk.                                              *)
Divided(a, s, q, r) == /\ s \in Nat \ {0} /\ q \in Nat /\ r \in 0 .. s - 1
                       /\ a = q * s + r

LEMMA DivIs ==
    ASSUME NEW a, NEW s, NEW q, NEW r, Divided(a, s, q, r)
    PROVE  a \div s = q /\ a % s = r
<1>. USE DEF Divided
<1>. DEFINE p == a \div s
<1>0. q * s \in Nat
  OBVIOUS
<1>1. a \in Nat /\ a = q * s + r
  BY <1>0
<1>2. a = (s * p) + (a % s) /\ a % s \in 0 .. s - 1 /\ p \in Nat
  BY <1>1
<1>. HIDE DEF p
<1>3. ASSUME p < q PROVE FALSE
  <2>1. s * (p + 1) <= s * q /\ s * (p + 1) = s * p + s /\ s * q = q * s
    BY <1>2, <1>3
  <2>. QED
    BY <2>1, <1>1, <1>2
<1>4. ASSUME q < p PROVE FALSE
  <2>1. s * (q + 1) <= s * p /\ s * (q + 1) = s * q + s /\ s * q = q * s
    BY <1>2, <1>4
  <2>. QED
    BY <2>1, <1>1, <1>2
<1>5. p = q
  BY <1>2, <1>3, <1>4
<1>6. a % s = r
  <2>1. s * q = q * s
    OBVIOUS
  <2>. QED
    BY <2>1, <1>1, <1>2, <1>5
<1>. QED
  BY <1>5, <1>6 DEF p

(* What pool_reserve hands out starts no earlier than the cursor and does   *)
(* not cross chunks.                                                        *)
LEMMA StartFits ==
    ASSUME NEW used \in Nat, NEW n \in Nat, 0 < n, n <= PoolChunk
    PROVE  /\ Start(used, n) \in Nat /\ used <= Start(used, n)
           /\ Within(Start(used, n), n)
<1>1a. PICK s \in Nat \ {0} : s = PoolChunk
  BY DepotConstants
<1>1. PICK q \in Nat, r \in 0 .. s - 1 :
        used = q * s + r /\ q = used \div s /\ r = used % s
  BY DivParts
<1>2. CASE r + n > s
  <2>1. Start(used, n) = (q + 1) * s
    BY <1>1a, <1>1, <1>2 DEF Start
  <2>2. (q + 1) * s = q * s + s /\ q * s \in Nat /\ (q + 1) * s \in Nat
    OBVIOUS
  <2>3. ASSUME NEW k \in 0 .. n - 1 PROVE ((q + 1) * s + k) \div s = q + 1
    <3>1. k \in 0 .. s - 1 /\ q + 1 \in Nat
      BY <1>1a
    <3>2. PICK f : f = (q + 1) * s + k
      OBVIOUS
    <3>3. f \div s = q + 1
      <4>1. Divided(f, s, q + 1, k)
        BY <3>1, <3>2, Zenon DEF Divided
      <4>. QED
        BY <4>1, DivIs, Zenon
    <3>. QED
      BY <3>2, <3>3
  <2>4. 0 \in 0 .. n - 1 /\ (q + 1) * s + 0 = (q + 1) * s
    BY <2>2
  <2>5. ((q + 1) * s) \div s = q + 1
    BY <2>3, <2>4
  <2>6. used <= (q + 1) * s
    BY <1>1, <2>2
  <2>. QED
    BY <1>1a, <2>1, <2>2, <2>3, <2>5, <2>6 DEF Within
<1>3. CASE ~ (r + n > s)
  <2>1. Start(used, n) = q * s + r
    BY <1>1a, <1>1, <1>3 DEF Start
  <2>2. ASSUME NEW k \in 0 .. n - 1 PROVE (q * s + r + k) \div s = q
    <3>1. r + k \in 0 .. s - 1 /\ q * s + r + k = q * s + (r + k)
      BY <1>3
    <3>. QED
      <4>1. PICK f : f = q * s + r + k
        OBVIOUS
      <4>2. Divided(f, s, q, r + k)
        BY <3>1, <4>1 DEF Divided
      <4>3. f \div s = q
        BY <4>2, DivIs, Zenon
      <4>. QED
        BY <4>1, <4>3
  <2>3. (q * s + r) \div s = q
    <3>1. PICK f : f = q * s + r
      OBVIOUS
    <3>2. Divided(f, s, q, r)
      BY <3>1 DEF Divided
    <3>3. f \div s = q
      BY <3>2, DivIs, Zenon
    <3>. QED
      BY <3>1, <3>3
  <2>. QED
    BY <1>1a, <1>1, <2>1, <2>2, <2>3 DEF Within
<1>. QED
  BY <1>2, <1>3

(* The steps of a walk lead from one place to the next.                     *)
LEMMA SpotFirst == \A s \in CallStacks : Spot(s, 0) = FirstLook[s]
<1>. SUFFICES ASSUME NEW s \in CallStacks PROVE Spot(s, 0) = FirstLook[s]
  OBVIOUS
<1>1. FirstLook[s] - 1 \in 0 .. (DepotSlots - 1) - 1
  BY DepotConstants DEF Ids
<1>2. (FirstLook[s] - 1) % (DepotSlots - 1) = FirstLook[s] - 1
  BY <1>1, DepotConstants
<1>. QED
  BY <1>2, DepotConstants DEF Spot

LEMMA SpotNext ==
    ASSUME NEW s \in CallStacks, NEW p \in Nat
    PROVE  (Spot(s, p) % (DepotSlots - 1)) + 1 = Spot(s, p + 1)
<1>1. PICK m \in Nat \ {0} : m = DepotSlots - 1
  BY DepotConstants
<1>2. PICK x \in Nat : x = FirstLook[s] - 1 + p /\ x + 1 = FirstLook[s] - 1 + (p + 1)
  BY DepotConstants DEF Ids
<1>3. PICK q \in Nat, r \in 0 .. m - 1 : x = q * m + r /\ r = x % m
  BY DivParts
<1>4. Spot(s, p) = r + 1 /\ Spot(s, p + 1) = ((x + 1) % m) + 1
  BY <1>1, <1>2, <1>3 DEF Spot
<1>5. (r + 1) % m = (x + 1) % m
  <2>0. PICK y \in Nat : y = x + 1
    OBVIOUS
  <2>a. 0 * m = 0 /\ 1 * m = m /\ 0 \in 0 .. m - 1
    OBVIOUS
  <2>b. (q + 1) * m = q * m + m /\ q * m \in Nat
    OBVIOUS
  <2>c. y = q * m + (r + 1)
    <3>1. PICK z \in Nat : z = q * m
      BY <2>b
    <3>2. x = z + r
      BY <1>3, <3>1, Zenon
    <3>3. y = z + (r + 1)
      BY <2>0, <3>2
    <3>. QED
      BY <3>1, <3>3, Zenon
  <2>1. CASE r + 1 < m
    <3>0. r + 1 \in 0 .. m - 1
      BY <2>1
    <3>0a. y = q * m + (r + 1)
      BY <2>c
    <3>0b. r + 1 = 0 * m + (r + 1)
      BY <2>a
    <3>1. r + 1 \in 0 .. m - 1 /\ y = q * m + (r + 1) /\ r + 1 = 0 * m + (r + 1)
      BY <3>0, <3>0a, <3>0b
    <3>2. 0 \in Nat
      OBVIOUS
    <3>3. Divided(y, m, q, r + 1) /\ Divided(r + 1, m, 0, r + 1)
      BY <3>1, <3>2, Zenon DEF Divided
    <3>4. y % m = r + 1 /\ (r + 1) % m = r + 1
      BY <3>3, DivIs, Zenon
    <3>. QED
      BY <3>4, <2>0
  <2>2. CASE r + 1 = m
    <3>0a. y = (q + 1) * m + 0
      BY <2>c, <2>2, <2>b
    <3>0b. r + 1 = 1 * m + 0
      BY <2>2, <2>a
    <3>1. 0 \in 0 .. m - 1 /\ q + 1 \in Nat /\ y = (q + 1) * m + 0 /\ r + 1 = 1 * m + 0
      BY <3>0a, <3>0b, <2>a
    <3>2. 1 \in Nat
      OBVIOUS
    <3>3. Divided(y, m, q + 1, 0) /\ Divided(r + 1, m, 1, 0)
      BY <3>1, <3>2, Zenon DEF Divided
    <3>4. y % m = 0 /\ (r + 1) % m = 0
      BY <3>3, DivIs, Zenon
    <3>. QED
      BY <3>4, <2>0
  <2>. QED
    BY <2>1, <2>2
<1>. QED
  BY <1>1, <1>4, <1>5

LEMMA SpotIn ==
    ASSUME NEW s \in CallStacks, NEW p \in Nat
    PROVE  Spot(s, p) \in Ids
<1>1. PICK m \in Nat \ {0} : m = DepotSlots - 1
  BY DepotConstants
<1>2. PICK x \in Nat : x = FirstLook[s] - 1 + p
  BY DepotConstants DEF Ids
<1>3. x % m \in 0 .. m - 1
  BY DivParts
<1>. QED
  BY <1>1, <1>2, <1>3, DepotConstants DEF Spot, Ids

(* The parts of the invariant but the counts and the makers.                *)
Orderly == /\ DepotTypes /\ CallsApart /\ FramesApart /\ ChunksThere /\ FramesInHand
           /\ EntriesWhole /\ IdNamesItsStack

(* A step of one call that leaves entries, frames and chunks where they are. *)
QuietMove(t, m) ==
    /\ m \in InternCall /\ interning' = [interning EXCEPT ![t] = m]
    /\ UNCHANGED <<depot, frames, chunkMade>>
    /\ poolUsed' \in 0 .. NoRoom /\ poolUsed <= poolUsed'
    /\ chunkMem' \in [0 .. PoolChunks - 1 -> Int]
    /\ m.step # "rest" =>
         /\ m.stack \in CallStacks /\ m.id \in Ids /\ m.id = Spot(m.stack, m.probe)
         /\ m.used <= poolUsed'
    /\ m.step # "ready"
    /\ m.step \in Filling => /\ interning[t].step \in Filling \ {"ready"}
                             /\ m.id = interning[t].id
    /\ m.step \in {"chunk", "publish"} => m.start # NoRoom
    /\ m.step \in {"chunk", "publish", "write"} /\ m.start # NoRoom =>
         \/ Placed(t) /\ m.start = interning[t].start /\ m.stack = interning[t].stack
         \/ /\ poolUsed <= m.start /\ m.start + Depth[m.stack] <= poolUsed'
            /\ Within(m.start, Depth[m.stack])
    /\ m.step = "write" /\ m.start # NoRoom => m.start \div PoolChunk \in chunkMade
    /\ \A q \in named' : \/ q \in named
                         \/ /\ q \in Ids \X CallStacks /\ depot[q[1]].state = "ready"
                            /\ SameStack(depot[q[1]], q[2])

LEMMA QuietStep ==
    ASSUME Orderly, NEW t \in Interners, NEW m, QuietMove(t, m)
    PROVE  Orderly'
<1>. USE DepotConstants
<1>0. DepotTypes /\ CallsApart /\ FramesApart /\ ChunksThere /\ FramesInHand /\ EntriesWhole
      /\ IdNamesItsStack
  BY DEF Orderly
<1>a. interning'[t] = m /\ \A u \in Interners \ {t} : interning'[u] = interning[u]
  BY <1>0 DEF QuietMove, DepotTypes
<1>b. /\ m \in InternCall /\ poolUsed \in Nat /\ poolUsed' \in Nat /\ poolUsed <= poolUsed'
      /\ \A u \in Interners : interning[u] \in InternCall
      /\ \A i \in Ids : depot[i] \in DepotEntry
  BY <1>0 DEF QuietMove, DepotTypes
<1>c. /\ depot' = depot /\ frames' = frames /\ chunkMade' = chunkMade
  BY DEF QuietMove
<1>d. \A i \in Ids, s \in CallStacks : SameStack(depot[i], s)' <=> SameStack(depot[i], s)
  BY <1>c DEF SameStack
<1>1. DepotTypes'
  <2>1. interning' \in [Interners -> InternCall]
    BY <1>0, <1>b DEF QuietMove, DepotTypes
  <2>2. named' \subseteq Ids \X CallStacks
    BY <1>0 DEF QuietMove, DepotTypes
  <2>. QED
    BY <1>0, <1>c, <2>1, <2>2 DEF QuietMove, DepotTypes
<1>2. CallsApart'
  <2>1. \A u \in Interners : interning'[u].step # "rest" =>
          /\ interning'[u].stack \in CallStacks /\ interning'[u].id \in Ids
          /\ interning'[u].id = Spot(interning'[u].stack, interning'[u].probe)
          /\ interning'[u].used <= poolUsed'
    <3>1. ASSUME NEW u \in Interners \ {t}, interning[u].step # "rest"
          PROVE  interning[u].used <= poolUsed'
      BY <1>0, <1>b, <3>1 DEF CallsApart, InternCall
    <3>. QED
      BY <1>0, <1>a, <3>1 DEF QuietMove, CallsApart
  <2>2. \A u \in Interners : interning'[u].step \in Filling =>
                /\ interning[u].step \in Filling /\ interning'[u].id = interning[u].id
    BY <1>a DEF QuietMove
  <2>. QED
    BY <1>0, <1>c, <2>1, <2>2 DEF CallsApart, Spot
<1>3. FramesApart'
  <2>1. \A u \in Interners : Placed(u)' => u = t \/ Placed(u)
    BY <1>a DEF Placed
  <2>2. Placed(t)' =>
         \/ Placed(t) /\ m.start = interning[t].start /\ m.stack = interning[t].stack
         \/ /\ poolUsed <= m.start /\ m.start + Depth[m.stack] <= poolUsed'
            /\ Within(m.start, Depth[m.stack])
    BY <1>a DEF Placed, QuietMove
  <2>3. \A i \in Ids : Holds(i)' <=> Holds(i)
    BY <1>c DEF Holds
  <2>4. \A u \in Interners : interning[u].stack \in CallStacks => Depth[interning[u].stack] \in Nat
    OBVIOUS
  <2>5. \A u \in Interners : /\ Placed(u) => interning[u].stack \in CallStacks
                             /\ Placed(u)' => interning'[u].stack \in CallStacks
    BY <1>0, <1>2 DEF CallsApart, Placed
  <2>6. \A u \in Interners : interning[u].start \in Nat /\ interning'[u].start \in Nat
    BY <1>a, <1>b DEF InternCall
  <2>7. \A i \in Ids : depot[i].first \in Nat /\ depot[i].n \in Nat
    BY <1>b DEF DepotEntry
  <2>8. \A u \in Interners : interning'[u].step \in {"chunk", "publish"} => Placed(u)'
    BY <1>0, <1>a DEF FramesApart, QuietMove, Placed
  <2>9. ASSUME NEW u \in Interners, Placed(u)'
        PROVE  /\ interning'[u].start + Depth[interning'[u].stack] <= poolUsed'
               /\ Within(interning'[u].start, Depth[interning'[u].stack])
               /\ \/ /\ Placed(u) /\ interning'[u].start = interning[u].start
                     /\ interning'[u].stack = interning[u].stack
                  \/ u = t /\ poolUsed <= interning'[u].start
    <3>1. CASE /\ Placed(u) /\ interning'[u].start = interning[u].start
               /\ interning'[u].stack = interning[u].stack
      <4>1. /\ interning[u].start + Depth[interning[u].stack] <= poolUsed
            /\ Within(interning[u].start, Depth[interning[u].stack])
        BY <1>0, <3>1 DEF FramesApart
      <4>. QED
        BY <1>b, <2>4, <2>5, <2>6, <3>1, <4>1
    <3>. QED
      BY <1>a, <2>1, <2>2, <2>9, <3>1
  <2>10. \A i \in Ids : Holds(i) => depot[i].first + depot[i].n <= poolUsed'
    BY <1>0, <1>b, <2>7 DEF FramesApart
  <2>11. ASSUME NEW u \in Interners, NEW v \in Interners, Placed(u)', Placed(v)', u # v
         PROVE  Away(interning'[u].start, Depth[interning'[u].stack],
                      interning'[v].start, Depth[interning'[v].stack])
    <3>1. Depth[interning'[u].stack] \in Nat /\ Depth[interning'[v].stack] \in Nat
      BY <2>5, <2>11
    <3>2. CASE u = t /\ poolUsed <= interning'[u].start
      <4>1. interning'[v].start + Depth[interning'[v].stack] <= poolUsed
        BY <1>0, <2>9, <2>11, <3>2 DEF FramesApart
      <4>. QED
        BY <1>b, <2>6, <3>1, <3>2, <4>1 DEF Away
    <3>3. CASE v = t /\ poolUsed <= interning'[v].start
      <4>1. interning'[u].start + Depth[interning'[u].stack] <= poolUsed
        BY <1>0, <2>9, <2>11, <3>3 DEF FramesApart
      <4>. QED
        BY <1>b, <2>6, <3>1, <3>3, <4>1 DEF Away
    <3>. QED
      BY <1>0, <2>9, <2>11, <3>2, <3>3 DEF FramesApart
  <2>12. ASSUME NEW u \in Interners, NEW i \in Ids, Placed(u)', Holds(i)
         PROVE  Away(interning'[u].start, Depth[interning'[u].stack], depot[i].first, depot[i].n)
    <3>1. Depth[interning'[u].stack] \in Nat
      BY <2>5, <2>12
    <3>2. CASE u = t /\ poolUsed <= interning'[u].start
      <4>1. depot[i].first + depot[i].n <= poolUsed
        BY <1>0, <2>12 DEF FramesApart
      <4>2. depot[i].first + depot[i].n <= interning'[u].start
        BY <1>b, <2>6, <2>7, <3>2, <4>1
      <4>. QED
        BY <4>2 DEF Away
    <3>. QED
      BY <1>0, <2>9, <2>12, <3>2 DEF FramesApart
  <2>. QED
    BY <1>0, <1>c, <2>3, <2>8, <2>9, <2>10, <2>11, <2>12 DEF FramesApart
<1>4. ChunksThere'
  BY <1>0, <1>a, <1>c DEF ChunksThere, QuietMove, Placed
<1>5. FramesInHand'
  <2>1. \A u \in Interners : interning'[u].step = "ready" => u # t /\ interning'[u] = interning[u]
    BY <1>a DEF QuietMove
  <2>. QED
    <3>1. ASSUME NEW u \in Interners, interning'[u].step = "ready"
          PROVE  interning'[u] = interning[u] /\ interning[u].step = "ready"
      BY <2>1, <3>1
    <3>2. \A u \in Interners : interning[u].step = "ready" =>
             IF interning[u].start = NoRoom
               THEN depot'[interning[u].id].n = 0 /\ depot'[interning[u].id].cut
               ELSE /\ depot'[interning[u].id].first = interning[u].start
                    /\ depot'[interning[u].id].n = Depth[interning[u].stack]
                    /\ ~ depot'[interning[u].id].cut
                    /\ \A k \in 0 .. Depth[interning[u].stack] - 1 :
                          frames'[interning[u].start + k] = <<interning[u].stack, k>>
      BY <1>0, <1>c DEF FramesInHand
    <3>3. ASSUME NEW u \in Interners, interning'[u].step = "ready"
          PROVE  IF interning'[u].start = NoRoom
                   THEN depot'[interning'[u].id].n = 0 /\ depot'[interning'[u].id].cut
                   ELSE /\ depot'[interning'[u].id].first = interning'[u].start
                        /\ depot'[interning'[u].id].n = Depth[interning'[u].stack]
                        /\ ~ depot'[interning'[u].id].cut
                        /\ \A k \in 0 .. Depth[interning'[u].stack] - 1 :
                              frames'[interning'[u].start + k] = <<interning'[u].stack, k>>
      <4>1. interning'[u] = interning[u] /\ interning[u].step = "ready" /\ frames' = frames
        BY <1>c, <3>1, <3>3
      <4>. QED
        BY <3>2, <4>1
    <3>. QED
      BY <3>3 DEF FramesInHand
<1>6. EntriesWhole'
  <2>1. \A u \in Interners : interning'[u].step \in Filling \ {"ready"} =>
          interning[u].step \in Filling \ {"ready"} /\ interning'[u].id = interning[u].id
    BY <1>a DEF QuietMove
  <2>. QED
    BY <1>0, <1>c, <1>d, <2>1 DEF EntriesWhole
<1>7. IdNamesItsStack'
  <2>1. \A q \in named' : q \in named \/ /\ q \in Ids \X CallStacks
                                         /\ depot[q[1]].state = "ready"
                                         /\ SameStack(depot[q[1]], q[2])
    BY DEF QuietMove
  <2>2. \A q \in named : q[1] \in Ids /\ q[2] \in CallStacks
    BY <1>0 DEF DepotTypes
  <2>3. ASSUME NEW q \in Ids \X CallStacks, depot[q[1]].state = "ready",
               SameStack(depot[q[1]], q[2])
        PROVE  depot[q[1]].n # 0 /\ ~ depot[q[1]].cut
    <3>1. q[1] \in Ids /\ q[2] \in CallStacks
      OBVIOUS
    <3>2. depot[q[1]].n # 0
      BY <2>3, <3>1 DEF SameStack
    <3>. QED
      BY <1>0, <2>3, <3>1, <3>2 DEF EntriesWhole
  <2>. QED
    BY <1>0, <1>c, <1>d, <2>1, <2>2, <2>3 DEF IdNamesItsStack
<1>. QED
  BY <1>1, <1>2, <1>3, <1>4, <1>5, <1>6, <1>7 DEF Orderly

LEMMA BeginQuiet ==
    ASSUME Orderly, NEW t \in Interners, NEW s \in CallStacks, InternBegin(t, s)
    PROVE  \E m : QuietMove(t, m)
<1>. USE DepotConstants, AtRestIs
<1>0. DepotTypes /\ CallsApart /\ FramesApart
  BY DEF Orderly
<1>a. PICK m : m = [AtRest EXCEPT !.step = "look", !.stack = s, !.id = FirstLook[s]]
  OBVIOUS
<1>2. /\ interning[t] \in InternCall /\ poolUsed \in Nat /\ poolUsed \in 0 .. NoRoom
      /\ chunkMem \in [0 .. PoolChunks - 1 -> Int] /\ interning \in [Interners -> InternCall]
  BY <1>0 DEF DepotTypes
<1>3. /\ interning[t].step \in Filling \cup {"rest", "look", "claim"}
      /\ interning[t].id \in Ids \cup {0} /\ interning[t].probe \in Nat
      /\ interning[t].used \in Nat /\ interning[t].start \in Nat
      /\ interning[t].stack \in CallStacks \cup {AtRest.stack}
      /\ interning[t] = [step |-> interning[t].step, stack |-> interning[t].stack,
                         id |-> interning[t].id, probe |-> interning[t].probe,
                         used |-> interning[t].used, start |-> interning[t].start]
  BY <1>2 DEF InternCall
<1>1. m.step = "look" /\ m.stack = s /\ m.id = FirstLook[s]
      /\ m.probe = 0 /\ m.used = 0 /\ m.start = 0
  BY <1>a, <1>3
<1>6a. AtRest \in InternCall
  BY AtRestIs DEF InternCall
<1>4. interning[t].step # "rest" =>
         /\ interning[t].stack \in CallStacks /\ interning[t].id \in Ids
         /\ interning[t].id = Spot(interning[t].stack, interning[t].probe)
         /\ interning[t].used <= poolUsed
  BY <1>0 DEF CallsApart
<1>5. interning' = [interning EXCEPT ![t] = m]
  BY <1>a, <1>2 DEF InternBegin
<1>6. m \in InternCall
  BY <1>1, <1>a, <1>2, <1>3, <1>4, <1>6a, SpotFirst DEF InternCall, Filling
<1>7. /\ UNCHANGED <<depot, frames, chunkMade>>
      /\ poolUsed' \in 0 .. NoRoom /\ poolUsed <= poolUsed'
      /\ chunkMem' \in [0 .. PoolChunks - 1 -> Int]
  BY <1>2, <1>3, <1>4 DEF InternBegin, pool
<1>8. m.step # "rest" =>
         /\ m.stack \in CallStacks /\ m.id \in Ids /\ m.id = Spot(m.stack, m.probe)
         /\ m.used <= poolUsed'
  BY <1>1, <1>2, <1>3, <1>4, SpotFirst DEF InternBegin, pool
<1>9. /\ m.step # "ready"
      /\ m.step \in Filling => /\ interning[t].step \in Filling \ {"ready"}
                               /\ m.id = interning[t].id
      /\ m.step \in {"chunk", "publish"} => m.start # NoRoom
      /\ m.step = "write" /\ m.start # NoRoom => m.start \div PoolChunk \in chunkMade
  BY <1>0, <1>1, <1>2, <1>3, <1>4, SpotFirst DEF InternBegin, Filling, FramesApart, Placed
<1>10. m.step \in {"chunk", "publish", "write"} /\ m.start # NoRoom =>
         \/ Placed(t) /\ m.start = interning[t].start /\ m.stack = interning[t].stack
         \/ /\ poolUsed <= m.start /\ m.start + Depth[m.stack] <= poolUsed'
            /\ Within(m.start, Depth[m.stack])
  BY <1>0, <1>1, <1>2, <1>3, <1>4, SpotFirst DEF InternBegin, FramesApart, Placed
<1>11. \A q \in named' : \/ q \in named
                          \/ /\ q \in Ids \X CallStacks /\ depot[q[1]].state = "ready"
                             /\ SameStack(depot[q[1]], q[2])
  BY <1>4 DEF InternBegin
<1>. QED
  BY <1>5, <1>6, <1>7, <1>8, <1>9, <1>10, <1>11 DEF QuietMove

LEMMA FoundQuiet ==
    ASSUME Orderly, NEW t \in Interners, InternFound(t)
    PROVE  \E m : QuietMove(t, m)
<1>. USE DepotConstants, AtRestIs
<1>0. DepotTypes /\ CallsApart /\ FramesApart
  BY DEF Orderly
<1>1. PICK m :
        m = [step |-> "rest", stack |-> AtRest.stack,
             id |-> 0, probe |-> 0,
             used |-> 0, start |-> 0]
  OBVIOUS
<1>2. /\ interning[t] \in InternCall /\ poolUsed \in Nat /\ poolUsed \in 0 .. NoRoom
      /\ chunkMem \in [0 .. PoolChunks - 1 -> Int] /\ interning \in [Interners -> InternCall]
  BY <1>0 DEF DepotTypes
<1>3. /\ interning[t].step \in Filling \cup {"rest", "look", "claim"}
      /\ interning[t].id \in Ids \cup {0} /\ interning[t].probe \in Nat
      /\ interning[t].used \in Nat /\ interning[t].start \in Nat
      /\ interning[t].stack \in CallStacks \cup {AtRest.stack}
      /\ interning[t] = [step |-> interning[t].step, stack |-> interning[t].stack,
                         id |-> interning[t].id, probe |-> interning[t].probe,
                         used |-> interning[t].used, start |-> interning[t].start]
  BY <1>2 DEF InternCall
<1>4. interning[t].step # "rest" =>
         /\ interning[t].stack \in CallStacks /\ interning[t].id \in Ids
         /\ interning[t].id = Spot(interning[t].stack, interning[t].probe)
         /\ interning[t].used <= poolUsed
  BY <1>0 DEF CallsApart
<1>5. interning' = [interning EXCEPT ![t] = m]
  BY <1>1, <1>2, <1>3 DEF InternFound
<1>6. m \in InternCall
  BY <1>1, <1>2, <1>3, <1>4 DEF InternFound, InternCall, Filling
<1>7. /\ UNCHANGED <<depot, frames, chunkMade>>
      /\ poolUsed' \in 0 .. NoRoom /\ poolUsed <= poolUsed'
      /\ chunkMem' \in [0 .. PoolChunks - 1 -> Int]
  BY <1>2, <1>3, <1>4 DEF InternFound, pool
<1>8. m.step # "rest" =>
         /\ m.stack \in CallStacks /\ m.id \in Ids /\ m.id = Spot(m.stack, m.probe)
         /\ m.used <= poolUsed'
  BY <1>1, <1>2, <1>3, <1>4 DEF InternFound, pool
<1>9. /\ m.step # "ready"
      /\ m.step \in Filling => /\ interning[t].step \in Filling \ {"ready"}
                               /\ m.id = interning[t].id
      /\ m.step \in {"chunk", "publish"} => m.start # NoRoom
      /\ m.step = "write" /\ m.start # NoRoom => m.start \div PoolChunk \in chunkMade
  BY <1>0, <1>1, <1>2, <1>3, <1>4 DEF InternFound, Filling, FramesApart, Placed
<1>10. m.step \in {"chunk", "publish", "write"} /\ m.start # NoRoom =>
         \/ Placed(t) /\ m.start = interning[t].start /\ m.stack = interning[t].stack
         \/ /\ poolUsed <= m.start /\ m.start + Depth[m.stack] <= poolUsed'
            /\ Within(m.start, Depth[m.stack])
  BY <1>0, <1>1, <1>2, <1>3, <1>4 DEF InternFound, FramesApart, Placed
<1>11. \A q \in named' : \/ q \in named
                          \/ /\ q \in Ids \X CallStacks /\ depot[q[1]].state = "ready"
                             /\ SameStack(depot[q[1]], q[2])
  BY <1>4 DEF InternFound
<1>. QED
  BY <1>5, <1>6, <1>7, <1>8, <1>9, <1>10, <1>11 DEF QuietMove

LEMMA OnQuiet ==
    ASSUME Orderly, NEW t \in Interners, InternNext(t), interning[t].probe + 1 < DepotProbe
    PROVE  \E m : QuietMove(t, m)
<1>. USE DepotConstants, AtRestIs
<1>0. DepotTypes /\ CallsApart /\ FramesApart
  BY DEF Orderly
<1>1. PICK m :
        m = [step |-> interning[t].step, stack |-> interning[t].stack,
             id |-> (interning[t].id % (DepotSlots - 1)) + 1, probe |-> interning[t].probe + 1,
             used |-> interning[t].used, start |-> interning[t].start]
  OBVIOUS
<1>2. /\ interning[t] \in InternCall /\ poolUsed \in Nat /\ poolUsed \in 0 .. NoRoom
      /\ chunkMem \in [0 .. PoolChunks - 1 -> Int] /\ interning \in [Interners -> InternCall]
  BY <1>0 DEF DepotTypes
<1>3. /\ interning[t].step \in Filling \cup {"rest", "look", "claim"}
      /\ interning[t].id \in Ids \cup {0} /\ interning[t].probe \in Nat
      /\ interning[t].used \in Nat /\ interning[t].start \in Nat
      /\ interning[t].stack \in CallStacks \cup {AtRest.stack}
      /\ interning[t] = [step |-> interning[t].step, stack |-> interning[t].stack,
                         id |-> interning[t].id, probe |-> interning[t].probe,
                         used |-> interning[t].used, start |-> interning[t].start]
  BY <1>2 DEF InternCall
<1>4. interning[t].step # "rest" =>
         /\ interning[t].stack \in CallStacks /\ interning[t].id \in Ids
         /\ interning[t].id = Spot(interning[t].stack, interning[t].probe)
         /\ interning[t].used <= poolUsed
  BY <1>0 DEF CallsApart
<1>s. /\ interning[t].stack \in CallStacks /\ interning[t].id \in Ids
      /\ interning[t].used <= poolUsed
  BY <1>4 DEF InternNext
<1>n1. m.id = (Spot(interning[t].stack, interning[t].probe) % (DepotSlots - 1)) + 1
  BY <1>1, <1>4, <1>s, Zenon DEF InternNext
<1>n2. m.id = Spot(interning[t].stack, interning[t].probe + 1)
  BY <1>n1, <1>s, <1>3, SpotNext
<1>n. /\ m.id = Spot(interning[t].stack, interning[t].probe + 1)
      /\ m.id \in Ids /\ m.probe = interning[t].probe + 1 /\ m.probe \in Nat
      /\ m.stack = interning[t].stack /\ m.used = interning[t].used
  BY <1>1, <1>3, <1>n2, <1>s, SpotIn
<1>5. interning' = [interning EXCEPT ![t] = m]
  BY <1>1, <1>2, <1>3 DEF InternNext
<1>6. m \in InternCall
  BY <1>1, <1>2, <1>3, <1>4, <1>n, <1>s DEF InternNext, InternCall, Filling
<1>7. /\ UNCHANGED <<depot, frames, chunkMade>>
      /\ poolUsed' \in 0 .. NoRoom /\ poolUsed <= poolUsed'
      /\ chunkMem' \in [0 .. PoolChunks - 1 -> Int]
  BY <1>2, <1>3, <1>4, <1>n, <1>s DEF InternNext, pool
<1>8. m.step # "rest" =>
         /\ m.stack \in CallStacks /\ m.id \in Ids /\ m.id = Spot(m.stack, m.probe)
         /\ m.used <= poolUsed'
  BY <1>1, <1>2, <1>3, <1>4, <1>n, <1>s DEF InternNext, pool
<1>9. /\ m.step # "ready"
      /\ m.step \in Filling => /\ interning[t].step \in Filling \ {"ready"}
                               /\ m.id = interning[t].id
      /\ m.step \in {"chunk", "publish"} => m.start # NoRoom
      /\ m.step = "write" /\ m.start # NoRoom => m.start \div PoolChunk \in chunkMade
  BY <1>0, <1>1, <1>2, <1>3, <1>4, <1>n, <1>s DEF InternNext, Filling, FramesApart, Placed
<1>10. m.step \in {"chunk", "publish", "write"} /\ m.start # NoRoom =>
         \/ Placed(t) /\ m.start = interning[t].start /\ m.stack = interning[t].stack
         \/ /\ poolUsed <= m.start /\ m.start + Depth[m.stack] <= poolUsed'
            /\ Within(m.start, Depth[m.stack])
  BY <1>0, <1>1, <1>2, <1>3, <1>4, <1>n, <1>s DEF InternNext, FramesApart, Placed
<1>11. \A q \in named' : \/ q \in named
                          \/ /\ q \in Ids \X CallStacks /\ depot[q[1]].state = "ready"
                             /\ SameStack(depot[q[1]], q[2])
  BY <1>4 DEF InternNext
<1>. QED
  BY <1>5, <1>6, <1>7, <1>8, <1>9, <1>10, <1>11 DEF QuietMove

LEMMA LeaveQuiet ==
    ASSUME Orderly, NEW t \in Interners, InternNext(t), ~ (interning[t].probe + 1 < DepotProbe)
    PROVE  \E m : QuietMove(t, m)
<1>. USE DepotConstants, AtRestIs
<1>0. DepotTypes /\ CallsApart /\ FramesApart
  BY DEF Orderly
<1>1. PICK m :
        m = [step |-> "rest", stack |-> AtRest.stack,
             id |-> 0, probe |-> 0,
             used |-> 0, start |-> 0]
  OBVIOUS
<1>2. /\ interning[t] \in InternCall /\ poolUsed \in Nat /\ poolUsed \in 0 .. NoRoom
      /\ chunkMem \in [0 .. PoolChunks - 1 -> Int] /\ interning \in [Interners -> InternCall]
  BY <1>0 DEF DepotTypes
<1>3. /\ interning[t].step \in Filling \cup {"rest", "look", "claim"}
      /\ interning[t].id \in Ids \cup {0} /\ interning[t].probe \in Nat
      /\ interning[t].used \in Nat /\ interning[t].start \in Nat
      /\ interning[t].stack \in CallStacks \cup {AtRest.stack}
      /\ interning[t] = [step |-> interning[t].step, stack |-> interning[t].stack,
                         id |-> interning[t].id, probe |-> interning[t].probe,
                         used |-> interning[t].used, start |-> interning[t].start]
  BY <1>2 DEF InternCall
<1>4. interning[t].step # "rest" =>
         /\ interning[t].stack \in CallStacks /\ interning[t].id \in Ids
         /\ interning[t].id = Spot(interning[t].stack, interning[t].probe)
         /\ interning[t].used <= poolUsed
  BY <1>0 DEF CallsApart
<1>5. interning' = [interning EXCEPT ![t] = m]
  BY <1>1, <1>2, <1>3 DEF InternNext
<1>6. m \in InternCall
  BY <1>1, <1>2, <1>3, <1>4 DEF InternNext, InternCall, Filling
<1>7. /\ UNCHANGED <<depot, frames, chunkMade>>
      /\ poolUsed' \in 0 .. NoRoom /\ poolUsed <= poolUsed'
      /\ chunkMem' \in [0 .. PoolChunks - 1 -> Int]
  BY <1>2, <1>3, <1>4 DEF InternNext, pool
<1>8. m.step # "rest" =>
         /\ m.stack \in CallStacks /\ m.id \in Ids /\ m.id = Spot(m.stack, m.probe)
         /\ m.used <= poolUsed'
  BY <1>1, <1>2, <1>3, <1>4 DEF InternNext, pool
<1>9. /\ m.step # "ready"
      /\ m.step \in Filling => /\ interning[t].step \in Filling \ {"ready"}
                               /\ m.id = interning[t].id
      /\ m.step \in {"chunk", "publish"} => m.start # NoRoom
      /\ m.step = "write" /\ m.start # NoRoom => m.start \div PoolChunk \in chunkMade
  BY <1>0, <1>1, <1>2, <1>3, <1>4 DEF InternNext, Filling, FramesApart, Placed
<1>10. m.step \in {"chunk", "publish", "write"} /\ m.start # NoRoom =>
         \/ Placed(t) /\ m.start = interning[t].start /\ m.stack = interning[t].stack
         \/ /\ poolUsed <= m.start /\ m.start + Depth[m.stack] <= poolUsed'
            /\ Within(m.start, Depth[m.stack])
  BY <1>0, <1>1, <1>2, <1>3, <1>4 DEF InternNext, FramesApart, Placed
<1>11. \A q \in named' : \/ q \in named
                          \/ /\ q \in Ids \X CallStacks /\ depot[q[1]].state = "ready"
                             /\ SameStack(depot[q[1]], q[2])
  BY <1>4 DEF InternNext
<1>. QED
  BY <1>5, <1>6, <1>7, <1>8, <1>9, <1>10, <1>11 DEF QuietMove

LEMMA EmptyQuiet ==
    ASSUME Orderly, NEW t \in Interners, InternEmpty(t)
    PROVE  \E m : QuietMove(t, m)
<1>. USE DepotConstants, AtRestIs
<1>0. DepotTypes /\ CallsApart /\ FramesApart
  BY DEF Orderly
<1>1. PICK m :
        m = [step |-> "claim", stack |-> interning[t].stack,
             id |-> interning[t].id, probe |-> interning[t].probe,
             used |-> interning[t].used, start |-> interning[t].start]
  OBVIOUS
<1>2. /\ interning[t] \in InternCall /\ poolUsed \in Nat /\ poolUsed \in 0 .. NoRoom
      /\ chunkMem \in [0 .. PoolChunks - 1 -> Int] /\ interning \in [Interners -> InternCall]
  BY <1>0 DEF DepotTypes
<1>3. /\ interning[t].step \in Filling \cup {"rest", "look", "claim"}
      /\ interning[t].id \in Ids \cup {0} /\ interning[t].probe \in Nat
      /\ interning[t].used \in Nat /\ interning[t].start \in Nat
      /\ interning[t].stack \in CallStacks \cup {AtRest.stack}
      /\ interning[t] = [step |-> interning[t].step, stack |-> interning[t].stack,
                         id |-> interning[t].id, probe |-> interning[t].probe,
                         used |-> interning[t].used, start |-> interning[t].start]
  BY <1>2 DEF InternCall
<1>4. interning[t].step # "rest" =>
         /\ interning[t].stack \in CallStacks /\ interning[t].id \in Ids
         /\ interning[t].id = Spot(interning[t].stack, interning[t].probe)
         /\ interning[t].used <= poolUsed
  BY <1>0 DEF CallsApart
<1>m. m = [interning[t] EXCEPT !.step = "claim"]
  BY <1>1, <1>3
<1>5. interning' = [interning EXCEPT ![t] = m]
  BY <1>m, <1>2 DEF InternEmpty
<1>6. m \in InternCall
  BY <1>1, <1>2, <1>3, <1>4 DEF InternEmpty, InternCall, Filling
<1>7. /\ UNCHANGED <<depot, frames, chunkMade>>
      /\ poolUsed' \in 0 .. NoRoom /\ poolUsed <= poolUsed'
      /\ chunkMem' \in [0 .. PoolChunks - 1 -> Int]
  BY <1>2, <1>3, <1>4 DEF InternEmpty, pool
<1>8. m.step # "rest" =>
         /\ m.stack \in CallStacks /\ m.id \in Ids /\ m.id = Spot(m.stack, m.probe)
         /\ m.used <= poolUsed'
  BY <1>1, <1>2, <1>3, <1>4 DEF InternEmpty, pool
<1>9. /\ m.step # "ready"
      /\ m.step \in Filling => /\ interning[t].step \in Filling \ {"ready"}
                               /\ m.id = interning[t].id
      /\ m.step \in {"chunk", "publish"} => m.start # NoRoom
      /\ m.step = "write" /\ m.start # NoRoom => m.start \div PoolChunk \in chunkMade
  BY <1>0, <1>1, <1>2, <1>3, <1>4 DEF InternEmpty, Filling, FramesApart, Placed
<1>10. m.step \in {"chunk", "publish", "write"} /\ m.start # NoRoom =>
         \/ Placed(t) /\ m.start = interning[t].start /\ m.stack = interning[t].stack
         \/ /\ poolUsed <= m.start /\ m.start + Depth[m.stack] <= poolUsed'
            /\ Within(m.start, Depth[m.stack])
  BY <1>0, <1>1, <1>2, <1>3, <1>4 DEF InternEmpty, FramesApart, Placed
<1>11. \A q \in named' : \/ q \in named
                          \/ /\ q \in Ids \X CallStacks /\ depot[q[1]].state = "ready"
                             /\ SameStack(depot[q[1]], q[2])
  BY <1>4 DEF InternEmpty
<1>. QED
  BY <1>5, <1>6, <1>7, <1>8, <1>9, <1>10, <1>11 DEF QuietMove

LEMMA LoseQuiet ==
    ASSUME Orderly, NEW t \in Interners, InternClaim(t), depot[interning[t].id].state # "empty"
    PROVE  \E m : QuietMove(t, m)
<1>. USE DepotConstants, AtRestIs
<1>0. DepotTypes /\ CallsApart /\ FramesApart
  BY DEF Orderly
<1>1. PICK m :
        m = [step |-> "look", stack |-> interning[t].stack,
             id |-> interning[t].id, probe |-> interning[t].probe,
             used |-> interning[t].used, start |-> interning[t].start]
  OBVIOUS
<1>2. /\ interning[t] \in InternCall /\ poolUsed \in Nat /\ poolUsed \in 0 .. NoRoom
      /\ chunkMem \in [0 .. PoolChunks - 1 -> Int] /\ interning \in [Interners -> InternCall]
  BY <1>0 DEF DepotTypes
<1>3. /\ interning[t].step \in Filling \cup {"rest", "look", "claim"}
      /\ interning[t].id \in Ids \cup {0} /\ interning[t].probe \in Nat
      /\ interning[t].used \in Nat /\ interning[t].start \in Nat
      /\ interning[t].stack \in CallStacks \cup {AtRest.stack}
      /\ interning[t] = [step |-> interning[t].step, stack |-> interning[t].stack,
                         id |-> interning[t].id, probe |-> interning[t].probe,
                         used |-> interning[t].used, start |-> interning[t].start]
  BY <1>2 DEF InternCall
<1>4. interning[t].step # "rest" =>
         /\ interning[t].stack \in CallStacks /\ interning[t].id \in Ids
         /\ interning[t].id = Spot(interning[t].stack, interning[t].probe)
         /\ interning[t].used <= poolUsed
  BY <1>0 DEF CallsApart
<1>5. interning' = [interning EXCEPT ![t] = m]
  BY <1>1, <1>2, <1>3 DEF InternClaim
<1>6. m \in InternCall
  BY <1>1, <1>2, <1>3, <1>4 DEF InternClaim, InternCall, Filling
<1>7. /\ UNCHANGED <<depot, frames, chunkMade>>
      /\ poolUsed' \in 0 .. NoRoom /\ poolUsed <= poolUsed'
      /\ chunkMem' \in [0 .. PoolChunks - 1 -> Int]
  BY <1>2, <1>3, <1>4 DEF InternClaim, pool
<1>8. m.step # "rest" =>
         /\ m.stack \in CallStacks /\ m.id \in Ids /\ m.id = Spot(m.stack, m.probe)
         /\ m.used <= poolUsed'
  BY <1>1, <1>2, <1>3, <1>4 DEF InternClaim, pool
<1>9. /\ m.step # "ready"
      /\ m.step \in Filling => /\ interning[t].step \in Filling \ {"ready"}
                               /\ m.id = interning[t].id
      /\ m.step \in {"chunk", "publish"} => m.start # NoRoom
      /\ m.step = "write" /\ m.start # NoRoom => m.start \div PoolChunk \in chunkMade
  BY <1>0, <1>1, <1>2, <1>3, <1>4 DEF InternClaim, Filling, FramesApart, Placed
<1>10. m.step \in {"chunk", "publish", "write"} /\ m.start # NoRoom =>
         \/ Placed(t) /\ m.start = interning[t].start /\ m.stack = interning[t].stack
         \/ /\ poolUsed <= m.start /\ m.start + Depth[m.stack] <= poolUsed'
            /\ Within(m.start, Depth[m.stack])
  BY <1>0, <1>1, <1>2, <1>3, <1>4 DEF InternClaim, FramesApart, Placed
<1>11. \A q \in named' : \/ q \in named
                          \/ /\ q \in Ids \X CallStacks /\ depot[q[1]].state = "ready"
                             /\ SameStack(depot[q[1]], q[2])
  BY <1>4 DEF InternClaim
<1>. QED
  BY <1>5, <1>6, <1>7, <1>8, <1>9, <1>10, <1>11 DEF QuietMove

LEMMA ThereQuiet ==
    ASSUME Orderly, NEW t \in Interners, ChunkThere(t)
    PROVE  \E m : QuietMove(t, m)
<1>. USE DepotConstants, AtRestIs
<1>0. DepotTypes /\ CallsApart /\ FramesApart
  BY DEF Orderly
<1>1. PICK m :
        m = [step |-> "write", stack |-> interning[t].stack,
             id |-> interning[t].id, probe |-> interning[t].probe,
             used |-> interning[t].used, start |-> interning[t].start]
  OBVIOUS
<1>2. /\ interning[t] \in InternCall /\ poolUsed \in Nat /\ poolUsed \in 0 .. NoRoom
      /\ chunkMem \in [0 .. PoolChunks - 1 -> Int] /\ interning \in [Interners -> InternCall]
  BY <1>0 DEF DepotTypes
<1>3. /\ interning[t].step \in Filling \cup {"rest", "look", "claim"}
      /\ interning[t].id \in Ids \cup {0} /\ interning[t].probe \in Nat
      /\ interning[t].used \in Nat /\ interning[t].start \in Nat
      /\ interning[t].stack \in CallStacks \cup {AtRest.stack}
      /\ interning[t] = [step |-> interning[t].step, stack |-> interning[t].stack,
                         id |-> interning[t].id, probe |-> interning[t].probe,
                         used |-> interning[t].used, start |-> interning[t].start]
  BY <1>2 DEF InternCall
<1>4. interning[t].step # "rest" =>
         /\ interning[t].stack \in CallStacks /\ interning[t].id \in Ids
         /\ interning[t].id = Spot(interning[t].stack, interning[t].probe)
         /\ interning[t].used <= poolUsed
  BY <1>0 DEF CallsApart
<1>m. m = [interning[t] EXCEPT !.step = "write"]
  BY <1>1, <1>3
<1>5. interning' = [interning EXCEPT ![t] = m]
  BY <1>m, <1>2 DEF ChunkThere
<1>6. m \in InternCall
  BY <1>1, <1>2, <1>3, <1>4 DEF ChunkThere, InternCall, Filling
<1>7. /\ UNCHANGED <<depot, frames, chunkMade>>
      /\ poolUsed' \in 0 .. NoRoom /\ poolUsed <= poolUsed'
      /\ chunkMem' \in [0 .. PoolChunks - 1 -> Int]
  BY <1>2, <1>3, <1>4 DEF ChunkThere, pool
<1>8. m.step # "rest" =>
         /\ m.stack \in CallStacks /\ m.id \in Ids /\ m.id = Spot(m.stack, m.probe)
         /\ m.used <= poolUsed'
  BY <1>1, <1>2, <1>3, <1>4 DEF ChunkThere, pool
<1>9. /\ m.step # "ready"
      /\ m.step \in Filling => /\ interning[t].step \in Filling \ {"ready"}
                               /\ m.id = interning[t].id
      /\ m.step \in {"chunk", "publish"} => m.start # NoRoom
      /\ m.step = "write" /\ m.start # NoRoom => m.start \div PoolChunk \in chunkMade
  BY <1>0, <1>1, <1>2, <1>3, <1>4 DEF ChunkThere, Filling, FramesApart, Placed
<1>10. m.step \in {"chunk", "publish", "write"} /\ m.start # NoRoom =>
         \/ Placed(t) /\ m.start = interning[t].start /\ m.stack = interning[t].stack
         \/ /\ poolUsed <= m.start /\ m.start + Depth[m.stack] <= poolUsed'
            /\ Within(m.start, Depth[m.stack])
  BY <1>0, <1>1, <1>2, <1>3, <1>4 DEF ChunkThere, FramesApart, Placed
<1>11. \A q \in named' : \/ q \in named
                          \/ /\ q \in Ids \X CallStacks /\ depot[q[1]].state = "ready"
                             /\ SameStack(depot[q[1]], q[2])
  BY <1>4 DEF ChunkThere
<1>. QED
  BY <1>5, <1>6, <1>7, <1>8, <1>9, <1>10, <1>11 DEF QuietMove

LEMMA GrantedQuiet ==
    ASSUME Orderly, NEW t \in Interners, ChunkGranted(t)
    PROVE  \E m : QuietMove(t, m)
<1>. USE DepotConstants, AtRestIs
<1>0. DepotTypes /\ CallsApart /\ FramesApart
  BY DEF Orderly
<1>1. PICK m :
        m = [step |-> "publish", stack |-> interning[t].stack,
             id |-> interning[t].id, probe |-> interning[t].probe,
             used |-> interning[t].used, start |-> interning[t].start]
  OBVIOUS
<1>2. /\ interning[t] \in InternCall /\ poolUsed \in Nat /\ poolUsed \in 0 .. NoRoom
      /\ chunkMem \in [0 .. PoolChunks - 1 -> Int] /\ interning \in [Interners -> InternCall]
  BY <1>0 DEF DepotTypes
<1>3. /\ interning[t].step \in Filling \cup {"rest", "look", "claim"}
      /\ interning[t].id \in Ids \cup {0} /\ interning[t].probe \in Nat
      /\ interning[t].used \in Nat /\ interning[t].start \in Nat
      /\ interning[t].stack \in CallStacks \cup {AtRest.stack}
      /\ interning[t] = [step |-> interning[t].step, stack |-> interning[t].stack,
                         id |-> interning[t].id, probe |-> interning[t].probe,
                         used |-> interning[t].used, start |-> interning[t].start]
  BY <1>2 DEF InternCall
<1>4. interning[t].step # "rest" =>
         /\ interning[t].stack \in CallStacks /\ interning[t].id \in Ids
         /\ interning[t].id = Spot(interning[t].stack, interning[t].probe)
         /\ interning[t].used <= poolUsed
  BY <1>0 DEF CallsApart
<1>n. chunkMem' \in [0 .. PoolChunks - 1 -> Int]
  <2>1. PICK c : c = interning[t].start \div PoolChunk /\ chunkMem' = [chunkMem EXCEPT ![c] = @ + 1]
    BY DEF ChunkGranted
  <2>2. c \in DOMAIN chunkMem => chunkMem[c] + 1 \in Int
    BY <1>2
  <2>. QED
    BY <2>1, <2>2, <1>2
<1>m. m = [interning[t] EXCEPT !.step = "publish"]
  BY <1>1, <1>3
<1>5. interning' = [interning EXCEPT ![t] = m]
  BY <1>m, <1>2 DEF ChunkGranted
<1>6. m \in InternCall
  BY <1>1, <1>2, <1>3, <1>4 DEF ChunkGranted, InternCall, Filling
<1>7. /\ UNCHANGED <<depot, frames, chunkMade>>
      /\ poolUsed' \in 0 .. NoRoom /\ poolUsed <= poolUsed'
      /\ chunkMem' \in [0 .. PoolChunks - 1 -> Int]
  BY <1>2, <1>n DEF ChunkGranted
<1>8. m.step # "rest" =>
         /\ m.stack \in CallStacks /\ m.id \in Ids /\ m.id = Spot(m.stack, m.probe)
         /\ m.used <= poolUsed'
  BY <1>1, <1>2, <1>3, <1>4 DEF ChunkGranted, pool
<1>9. /\ m.step # "ready"
      /\ m.step \in Filling => /\ interning[t].step \in Filling \ {"ready"}
                               /\ m.id = interning[t].id
      /\ m.step \in {"chunk", "publish"} => m.start # NoRoom
      /\ m.step = "write" /\ m.start # NoRoom => m.start \div PoolChunk \in chunkMade
  BY <1>0, <1>1, <1>2, <1>3, <1>4 DEF ChunkGranted, Filling, FramesApart, Placed
<1>10. m.step \in {"chunk", "publish", "write"} /\ m.start # NoRoom =>
         \/ Placed(t) /\ m.start = interning[t].start /\ m.stack = interning[t].stack
         \/ /\ poolUsed <= m.start /\ m.start + Depth[m.stack] <= poolUsed'
            /\ Within(m.start, Depth[m.stack])
  BY <1>0, <1>1, <1>2, <1>3, <1>4 DEF ChunkGranted, FramesApart, Placed
<1>11. \A q \in named' : \/ q \in named
                          \/ /\ q \in Ids \X CallStacks /\ depot[q[1]].state = "ready"
                             /\ SameStack(depot[q[1]], q[2])
  BY <1>4 DEF ChunkGranted
<1>. QED
  BY <1>5, <1>6, <1>7, <1>8, <1>9, <1>10, <1>11 DEF QuietMove

LEMMA RefusedQuiet ==
    ASSUME Orderly, NEW t \in Interners, ChunkRefused(t)
    PROVE  \E m : QuietMove(t, m)
<1>. USE DepotConstants, AtRestIs
<1>0. DepotTypes /\ CallsApart /\ FramesApart
  BY DEF Orderly
<1>a. PICK m : m = [interning[t] EXCEPT !.step = "write", !.start = NoRoom]
  OBVIOUS
<1>2. /\ interning[t] \in InternCall /\ poolUsed \in Nat /\ poolUsed \in 0 .. NoRoom
      /\ chunkMem \in [0 .. PoolChunks - 1 -> Int] /\ interning \in [Interners -> InternCall]
  BY <1>0 DEF DepotTypes
<1>3. /\ interning[t].step \in Filling \cup {"rest", "look", "claim"}
      /\ interning[t].id \in Ids \cup {0} /\ interning[t].probe \in Nat
      /\ interning[t].used \in Nat /\ interning[t].start \in Nat
      /\ interning[t].stack \in CallStacks \cup {AtRest.stack}
      /\ interning[t] = [step |-> interning[t].step, stack |-> interning[t].stack,
                         id |-> interning[t].id, probe |-> interning[t].probe,
                         used |-> interning[t].used, start |-> interning[t].start]
  BY <1>2 DEF InternCall
<1>1. m.step = "write" /\ m.stack = interning[t].stack /\ m.id = interning[t].id
      /\ m.probe = interning[t].probe /\ m.used = interning[t].used /\ m.start = NoRoom
  BY <1>a, <1>3
<1>4. interning[t].step # "rest" =>
         /\ interning[t].stack \in CallStacks /\ interning[t].id \in Ids
         /\ interning[t].id = Spot(interning[t].stack, interning[t].probe)
         /\ interning[t].used <= poolUsed
  BY <1>0 DEF CallsApart
<1>5. interning' = [interning EXCEPT ![t] = m]
  BY <1>a, <1>2 DEF ChunkRefused, NoFrames
<1>6. m \in InternCall
  BY <1>1, <1>a, <1>2, <1>3, <1>4 DEF ChunkRefused, NoFrames, InternCall, Filling
<1>7. /\ UNCHANGED <<depot, frames, chunkMade>>
      /\ poolUsed' \in 0 .. NoRoom /\ poolUsed <= poolUsed'
      /\ chunkMem' \in [0 .. PoolChunks - 1 -> Int]
  BY <1>2, <1>3, <1>4 DEF ChunkRefused, NoFrames, pool
<1>8. m.step # "rest" =>
         /\ m.stack \in CallStacks /\ m.id \in Ids /\ m.id = Spot(m.stack, m.probe)
         /\ m.used <= poolUsed'
  BY <1>1, <1>2, <1>3, <1>4 DEF ChunkRefused, NoFrames, pool
<1>9. /\ m.step # "ready"
      /\ m.step \in Filling => /\ interning[t].step \in Filling \ {"ready"}
                               /\ m.id = interning[t].id
      /\ m.step \in {"chunk", "publish"} => m.start # NoRoom
      /\ m.step = "write" /\ m.start # NoRoom => m.start \div PoolChunk \in chunkMade
  BY <1>0, <1>1, <1>2, <1>3, <1>4 DEF ChunkRefused, NoFrames, Filling, FramesApart, Placed
<1>10. m.step \in {"chunk", "publish", "write"} /\ m.start # NoRoom =>
         \/ Placed(t) /\ m.start = interning[t].start /\ m.stack = interning[t].stack
         \/ /\ poolUsed <= m.start /\ m.start + Depth[m.stack] <= poolUsed'
            /\ Within(m.start, Depth[m.stack])
  BY <1>0, <1>1, <1>2, <1>3, <1>4 DEF ChunkRefused, NoFrames, FramesApart, Placed
<1>11. \A q \in named' : \/ q \in named
                          \/ /\ q \in Ids \X CallStacks /\ depot[q[1]].state = "ready"
                             /\ SameStack(depot[q[1]], q[2])
  BY <1>4 DEF ChunkRefused
<1>. QED
  BY <1>5, <1>6, <1>7, <1>8, <1>9, <1>10, <1>11 DEF QuietMove

LEMMA LateQuiet ==
    ASSUME Orderly, NEW t \in Interners, ChunkPublish(t),
           interning[t].start \div PoolChunk \in chunkMade
    PROVE  \E m : QuietMove(t, m)
<1>. USE DepotConstants, AtRestIs
<1>0. DepotTypes /\ CallsApart /\ FramesApart
  BY DEF Orderly
<1>1. PICK m :
        m = [step |-> "write", stack |-> interning[t].stack,
             id |-> interning[t].id, probe |-> interning[t].probe,
             used |-> interning[t].used, start |-> interning[t].start]
  OBVIOUS
<1>2. /\ interning[t] \in InternCall /\ poolUsed \in Nat /\ poolUsed \in 0 .. NoRoom
      /\ chunkMem \in [0 .. PoolChunks - 1 -> Int] /\ interning \in [Interners -> InternCall]
  BY <1>0 DEF DepotTypes
<1>3. /\ interning[t].step \in Filling \cup {"rest", "look", "claim"}
      /\ interning[t].id \in Ids \cup {0} /\ interning[t].probe \in Nat
      /\ interning[t].used \in Nat /\ interning[t].start \in Nat
      /\ interning[t].stack \in CallStacks \cup {AtRest.stack}
      /\ interning[t] = [step |-> interning[t].step, stack |-> interning[t].stack,
                         id |-> interning[t].id, probe |-> interning[t].probe,
                         used |-> interning[t].used, start |-> interning[t].start]
  BY <1>2 DEF InternCall
<1>4. interning[t].step # "rest" =>
         /\ interning[t].stack \in CallStacks /\ interning[t].id \in Ids
         /\ interning[t].id = Spot(interning[t].stack, interning[t].probe)
         /\ interning[t].used <= poolUsed
  BY <1>0 DEF CallsApart
<1>n. chunkMem' \in [0 .. PoolChunks - 1 -> Int]
  <2>1. PICK c : c = interning[t].start \div PoolChunk /\ chunkMem' = [chunkMem EXCEPT ![c] = @ - 1]
    BY DEF ChunkPublish
  <2>2. c \in DOMAIN chunkMem => chunkMem[c] - 1 \in Int
    BY <1>2
  <2>. QED
    BY <2>1, <2>2, <1>2
<1>m. m = [interning[t] EXCEPT !.step = "write"]
  BY <1>1, <1>3
<1>5. interning' = [interning EXCEPT ![t] = m]
  BY <1>m, <1>2 DEF ChunkPublish
<1>6. m \in InternCall
  BY <1>1, <1>2, <1>3, <1>4 DEF ChunkPublish, InternCall, Filling
<1>7. /\ UNCHANGED <<depot, frames, chunkMade>>
      /\ poolUsed' \in 0 .. NoRoom /\ poolUsed <= poolUsed'
      /\ chunkMem' \in [0 .. PoolChunks - 1 -> Int]
  BY <1>2, <1>3, <1>4, <1>n DEF ChunkPublish, pool
<1>8. m.step # "rest" =>
         /\ m.stack \in CallStacks /\ m.id \in Ids /\ m.id = Spot(m.stack, m.probe)
         /\ m.used <= poolUsed'
  BY <1>1, <1>2, <1>3, <1>4 DEF ChunkPublish, pool
<1>9. /\ m.step # "ready"
      /\ m.step \in Filling => /\ interning[t].step \in Filling \ {"ready"}
                               /\ m.id = interning[t].id
      /\ m.step \in {"chunk", "publish"} => m.start # NoRoom
      /\ m.step = "write" /\ m.start # NoRoom => m.start \div PoolChunk \in chunkMade
  BY <1>0, <1>1, <1>2, <1>3, <1>4 DEF ChunkPublish, Filling, FramesApart, Placed
<1>10. m.step \in {"chunk", "publish", "write"} /\ m.start # NoRoom =>
         \/ Placed(t) /\ m.start = interning[t].start /\ m.stack = interning[t].stack
         \/ /\ poolUsed <= m.start /\ m.start + Depth[m.stack] <= poolUsed'
            /\ Within(m.start, Depth[m.stack])
  BY <1>0, <1>1, <1>2, <1>3, <1>4 DEF ChunkPublish, FramesApart, Placed
<1>11. \A q \in named' : \/ q \in named
                          \/ /\ q \in Ids \X CallStacks /\ depot[q[1]].state = "ready"
                             /\ SameStack(depot[q[1]], q[2])
  BY <1>4 DEF ChunkPublish
<1>. QED
  BY <1>5, <1>6, <1>7, <1>8, <1>9, <1>10, <1>11 DEF QuietMove

LEMMA FullQuiet ==
    ASSUME Orderly, NEW t \in Interners, PoolReserve(t),
           Start(interning[t].used, Depth[interning[t].stack]) + Depth[interning[t].stack] > NoRoom
    PROVE  \E m : QuietMove(t, m)
<1>. USE DepotConstants, AtRestIs
<1>0. DepotTypes /\ CallsApart /\ FramesApart
  BY DEF Orderly
<1>1. PICK m :
        m = [step |-> "write", stack |-> interning[t].stack,
             id |-> interning[t].id, probe |-> interning[t].probe,
             used |-> interning[t].used, start |-> NoRoom]
  OBVIOUS
<1>2. /\ interning[t] \in InternCall /\ poolUsed \in Nat /\ poolUsed \in 0 .. NoRoom
      /\ chunkMem \in [0 .. PoolChunks - 1 -> Int] /\ interning \in [Interners -> InternCall]
  BY <1>0 DEF DepotTypes
<1>3. /\ interning[t].step \in Filling \cup {"rest", "look", "claim"}
      /\ interning[t].id \in Ids \cup {0} /\ interning[t].probe \in Nat
      /\ interning[t].used \in Nat /\ interning[t].start \in Nat
      /\ interning[t].stack \in CallStacks \cup {AtRest.stack}
      /\ interning[t] = [step |-> interning[t].step, stack |-> interning[t].stack,
                         id |-> interning[t].id, probe |-> interning[t].probe,
                         used |-> interning[t].used, start |-> interning[t].start]
  BY <1>2 DEF InternCall
<1>4. interning[t].step # "rest" =>
         /\ interning[t].stack \in CallStacks /\ interning[t].id \in Ids
         /\ interning[t].id = Spot(interning[t].stack, interning[t].probe)
         /\ interning[t].used <= poolUsed
  BY <1>0 DEF CallsApart
<1>5. interning' = [interning EXCEPT ![t] = m]
  BY <1>1, <1>2, <1>3 DEF PoolReserve, NoFrames
<1>6. m \in InternCall
  BY <1>1, <1>2, <1>3, <1>4 DEF PoolReserve, NoFrames, InternCall, Filling
<1>7. /\ UNCHANGED <<depot, frames, chunkMade>>
      /\ poolUsed' \in 0 .. NoRoom /\ poolUsed <= poolUsed'
      /\ chunkMem' \in [0 .. PoolChunks - 1 -> Int]
  BY <1>2, <1>3, <1>4 DEF PoolReserve, NoFrames, pool
<1>8. m.step # "rest" =>
         /\ m.stack \in CallStacks /\ m.id \in Ids /\ m.id = Spot(m.stack, m.probe)
         /\ m.used <= poolUsed'
  BY <1>1, <1>2, <1>3, <1>4 DEF PoolReserve, NoFrames, pool
<1>9. /\ m.step # "ready"
      /\ m.step \in Filling => /\ interning[t].step \in Filling \ {"ready"}
                               /\ m.id = interning[t].id
      /\ m.step \in {"chunk", "publish"} => m.start # NoRoom
      /\ m.step = "write" /\ m.start # NoRoom => m.start \div PoolChunk \in chunkMade
  BY <1>0, <1>1, <1>2, <1>3, <1>4 DEF PoolReserve, NoFrames, Filling, FramesApart, Placed
<1>10. m.step \in {"chunk", "publish", "write"} /\ m.start # NoRoom =>
         \/ Placed(t) /\ m.start = interning[t].start /\ m.stack = interning[t].stack
         \/ /\ poolUsed <= m.start /\ m.start + Depth[m.stack] <= poolUsed'
            /\ Within(m.start, Depth[m.stack])
  BY <1>0, <1>1, <1>2, <1>3, <1>4 DEF PoolReserve, NoFrames, FramesApart, Placed
<1>11. \A q \in named' : \/ q \in named
                          \/ /\ q \in Ids \X CallStacks /\ depot[q[1]].state = "ready"
                             /\ SameStack(depot[q[1]], q[2])
  BY <1>4 DEF PoolReserve
<1>. QED
  BY <1>5, <1>6, <1>7, <1>8, <1>9, <1>10, <1>11 DEF QuietMove

LEMMA AgainQuiet ==
    ASSUME Orderly, NEW t \in Interners, PoolReserve(t), interning[t].used # poolUsed,
           ~ (Start(interning[t].used, Depth[interning[t].stack])
                + Depth[interning[t].stack] > NoRoom)
    PROVE  \E m : QuietMove(t, m)
<1>. USE DepotConstants, AtRestIs
<1>0. DepotTypes /\ CallsApart /\ FramesApart
  BY DEF Orderly
<1>1. PICK m :
        m = [step |-> interning[t].step, stack |-> interning[t].stack,
             id |-> interning[t].id, probe |-> interning[t].probe,
             used |-> poolUsed, start |-> interning[t].start]
  OBVIOUS
<1>2. /\ interning[t] \in InternCall /\ poolUsed \in Nat /\ poolUsed \in 0 .. NoRoom
      /\ chunkMem \in [0 .. PoolChunks - 1 -> Int] /\ interning \in [Interners -> InternCall]
  BY <1>0 DEF DepotTypes
<1>3. /\ interning[t].step \in Filling \cup {"rest", "look", "claim"}
      /\ interning[t].id \in Ids \cup {0} /\ interning[t].probe \in Nat
      /\ interning[t].used \in Nat /\ interning[t].start \in Nat
      /\ interning[t].stack \in CallStacks \cup {AtRest.stack}
      /\ interning[t] = [step |-> interning[t].step, stack |-> interning[t].stack,
                         id |-> interning[t].id, probe |-> interning[t].probe,
                         used |-> interning[t].used, start |-> interning[t].start]
  BY <1>2 DEF InternCall
<1>4. interning[t].step # "rest" =>
         /\ interning[t].stack \in CallStacks /\ interning[t].id \in Ids
         /\ interning[t].id = Spot(interning[t].stack, interning[t].probe)
         /\ interning[t].used <= poolUsed
  BY <1>0 DEF CallsApart
<1>5. interning' = [interning EXCEPT ![t] = m]
  BY <1>1, <1>2, <1>3 DEF PoolReserve
<1>6. m \in InternCall
  BY <1>1, <1>2, <1>3, <1>4 DEF InternCall, Filling
<1>7. /\ UNCHANGED <<depot, frames, chunkMade>>
      /\ poolUsed' \in 0 .. NoRoom /\ poolUsed <= poolUsed'
      /\ chunkMem' \in [0 .. PoolChunks - 1 -> Int]
  BY <1>2, <1>3, <1>4 DEF PoolReserve, pool
<1>8. m.step # "rest" =>
         /\ m.stack \in CallStacks /\ m.id \in Ids /\ m.id = Spot(m.stack, m.probe)
         /\ m.used <= poolUsed'
  BY <1>1, <1>2, <1>3, <1>4 DEF PoolReserve, pool
<1>9. /\ m.step # "ready"
      /\ m.step \in Filling => /\ interning[t].step \in Filling \ {"ready"}
                               /\ m.id = interning[t].id
      /\ m.step \in {"chunk", "publish"} => m.start # NoRoom
      /\ m.step = "write" /\ m.start # NoRoom => m.start \div PoolChunk \in chunkMade
  BY <1>0, <1>1, <1>2, <1>3, <1>4 DEF PoolReserve, Filling, FramesApart, Placed
<1>10. m.step \in {"chunk", "publish", "write"} /\ m.start # NoRoom =>
         \/ Placed(t) /\ m.start = interning[t].start /\ m.stack = interning[t].stack
         \/ /\ poolUsed <= m.start /\ m.start + Depth[m.stack] <= poolUsed'
            /\ Within(m.start, Depth[m.stack])
  BY <1>0, <1>1, <1>2, <1>3, <1>4 DEF PoolReserve, FramesApart, Placed
<1>11. \A q \in named' : \/ q \in named
                          \/ /\ q \in Ids \X CallStacks /\ depot[q[1]].state = "ready"
                             /\ SameStack(depot[q[1]], q[2])
  BY <1>4 DEF PoolReserve
<1>. QED
  BY <1>5, <1>6, <1>7, <1>8, <1>9, <1>10, <1>11 DEF QuietMove

LEMMA TakenQuiet ==
    ASSUME Orderly, NEW t \in Interners, PoolReserve(t), interning[t].used = poolUsed,
           ~ (Start(interning[t].used, Depth[interning[t].stack])
                + Depth[interning[t].stack] > NoRoom)
    PROVE  \E m : QuietMove(t, m)
<1>. USE DepotConstants, AtRestIs
<1>0. DepotTypes /\ CallsApart /\ FramesApart
  BY DEF Orderly
<1>1. PICK m :
        m = [step |-> "chunk", stack |-> interning[t].stack,
             id |-> interning[t].id, probe |-> interning[t].probe,
             used |-> interning[t].used,
             start |-> Start(interning[t].used, Depth[interning[t].stack])]
  OBVIOUS
<1>2. /\ interning[t] \in InternCall /\ poolUsed \in Nat /\ poolUsed \in 0 .. NoRoom
      /\ chunkMem \in [0 .. PoolChunks - 1 -> Int] /\ interning \in [Interners -> InternCall]
  BY <1>0 DEF DepotTypes
<1>3. /\ interning[t].step \in Filling \cup {"rest", "look", "claim"}
      /\ interning[t].id \in Ids \cup {0} /\ interning[t].probe \in Nat
      /\ interning[t].used \in Nat /\ interning[t].start \in Nat
      /\ interning[t].stack \in CallStacks \cup {AtRest.stack}
      /\ interning[t] = [step |-> interning[t].step, stack |-> interning[t].stack,
                         id |-> interning[t].id, probe |-> interning[t].probe,
                         used |-> interning[t].used, start |-> interning[t].start]
  BY <1>2 DEF InternCall
<1>4. interning[t].step # "rest" =>
         /\ interning[t].stack \in CallStacks /\ interning[t].id \in Ids
         /\ interning[t].id = Spot(interning[t].stack, interning[t].probe)
         /\ interning[t].used <= poolUsed
  BY <1>0 DEF CallsApart
<1>s. /\ interning[t].stack \in CallStacks /\ Depth[interning[t].stack] \in Nat
      /\ 0 < Depth[interning[t].stack] /\ Depth[interning[t].stack] <= PoolChunk
  BY <1>4 DEF PoolReserve
<1>n. /\ m.start \in Nat /\ poolUsed <= m.start /\ Within(m.start, Depth[m.stack])
      /\ m.start = Start(interning[t].used, Depth[interning[t].stack])
      /\ m.stack = interning[t].stack
  BY <1>1, <1>2, <1>3, <1>s, StartFits
<1>p. /\ poolUsed' = m.start + Depth[m.stack] /\ m.start + Depth[m.stack] <= NoRoom
  BY <1>n, <1>s DEF PoolReserve
<1>5. interning' = [interning EXCEPT ![t] = m]
  BY <1>1, <1>2, <1>3 DEF PoolReserve
<1>6. m \in InternCall
  BY <1>1, <1>2, <1>3, <1>4, <1>n, <1>p, <1>s DEF PoolReserve, InternCall, Filling
<1>7. /\ UNCHANGED <<depot, frames, chunkMade>>
      /\ poolUsed' \in 0 .. NoRoom /\ poolUsed <= poolUsed'
      /\ chunkMem' \in [0 .. PoolChunks - 1 -> Int]
  <2>1. UNCHANGED <<depot, frames, chunkMade, chunkMem>>
    BY DEF PoolReserve
  <2>2. PICK n \in Nat : n = Depth[m.stack]
    BY <1>n, <1>s
  <2>3. m.start + n \in Nat /\ poolUsed <= m.start + n
    BY <1>2, <1>n
  <2>. QED
    BY <1>2, <1>p, <2>1, <2>2, <2>3
<1>8. m.step # "rest" =>
         /\ m.stack \in CallStacks /\ m.id \in Ids /\ m.id = Spot(m.stack, m.probe)
         /\ m.used <= poolUsed'
  BY <1>1, <1>2, <1>3, <1>4, <1>n, <1>p, <1>s DEF PoolReserve, pool
<1>9. /\ m.step # "ready"
      /\ m.step \in Filling => /\ interning[t].step \in Filling \ {"ready"}
                               /\ m.id = interning[t].id
      /\ m.step \in {"chunk", "publish"} => m.start # NoRoom
      /\ m.step = "write" /\ m.start # NoRoom => m.start \div PoolChunk \in chunkMade
  BY <1>0, <1>1, <1>2, <1>3, <1>4, <1>n, <1>p, <1>s DEF PoolReserve, Filling, FramesApart, Placed
<1>10. m.step \in {"chunk", "publish", "write"} /\ m.start # NoRoom =>
         \/ Placed(t) /\ m.start = interning[t].start /\ m.stack = interning[t].stack
         \/ /\ poolUsed <= m.start /\ m.start + Depth[m.stack] <= poolUsed'
            /\ Within(m.start, Depth[m.stack])
  BY <1>0, <1>1, <1>2, <1>3, <1>4, <1>n, <1>p, <1>s DEF PoolReserve, FramesApart, Placed
<1>11. \A q \in named' : \/ q \in named
                          \/ /\ q \in Ids \X CallStacks /\ depot[q[1]].state = "ready"
                             /\ SameStack(depot[q[1]], q[2])
  BY <1>4 DEF PoolReserve
<1>. QED
  BY <1>5, <1>6, <1>7, <1>8, <1>9, <1>10, <1>11 DEF QuietMove

LEMMA CallFacts ==
    ASSUME Orderly, NEW t \in Interners
    PROVE  /\ interning[t] \in InternCall
           /\ interning[t].step \in Filling \cup {"rest", "look", "claim"}
           /\ interning[t].id \in Ids \cup {0} /\ interning[t].probe \in Nat
           /\ interning[t].used \in Nat /\ interning[t].start \in Nat
           /\ interning[t].stack \in CallStacks \cup {AtRest.stack}
           /\ interning[t].step # "rest" =>
                /\ interning[t].stack \in CallStacks /\ interning[t].id \in Ids
                /\ interning[t].id = Spot(interning[t].stack, interning[t].probe)
                /\ interning[t].used <= poolUsed
<1>1. interning[t] \in InternCall
  BY DEF Orderly, DepotTypes
<1>. QED
  BY <1>1 DEF Orderly, CallsApart, InternCall

LEMMA EntryFacts ==
    ASSUME Orderly, NEW i \in Ids
    PROVE  /\ depot[i] \in DepotEntry /\ depot[i].state \in {"empty", "claiming", "ready"}
           /\ depot[i].first \in Nat /\ depot[i].n \in Nat /\ depot[i].cut \in BOOLEAN
<1>1. depot[i] \in DepotEntry
  BY DEF Orderly, DepotTypes
<1>. QED
  BY <1>1 DEF DepotEntry

(* A claim that wins takes an entry that nobody had.                        *)
LEMMA WinStep ==
    ASSUME Orderly, NEW t \in Interners, InternClaim(t),
           depot[interning[t].id].state = "empty"
    PROVE  Orderly'
<1>. USE DepotConstants
<1>0. DepotTypes /\ CallsApart /\ FramesApart /\ ChunksThere /\ FramesInHand /\ EntriesWhole
      /\ IdNamesItsStack
  BY DEF Orderly
<1>1. PICK m : m = [interning[t] EXCEPT !.step = "reserve", !.used = poolUsed]
  OBVIOUS
<1>2. PICK h : h = interning[t].id
  OBVIOUS
<1>3. h \in Ids /\ interning[t].step = "claim" /\ interning[t].stack \in CallStacks
      /\ interning[t].id = Spot(interning[t].stack, interning[t].probe)
  BY <1>2, CallFacts DEF InternClaim
<1>4. /\ m.step = "reserve" /\ m.id = h /\ m.stack = interning[t].stack /\ m.used = poolUsed
      /\ m.probe = interning[t].probe /\ m.start = interning[t].start /\ m \in InternCall
      /\ poolUsed \in Nat
  <2>1. interning[t] \in InternCall /\ poolUsed \in Nat
    BY <1>0 DEF DepotTypes
  <2>. QED
    BY <1>1, <1>2, <2>1 DEF InternCall, Filling
<1>5. interning' = [interning EXCEPT ![t] = m] /\ depot' = [depot EXCEPT ![h].state = "claiming"]
      /\ UNCHANGED <<frames, chunkMade, chunkMem, poolUsed, named>>
  <2>1. interning[t] \in InternCall /\ interning \in [Interners -> InternCall]
    BY <1>0 DEF DepotTypes
  <2>. QED
    BY <1>1, <1>2, <2>1 DEF InternClaim, pool, InternCall
<1>6. interning'[t] = m /\ \A u \in Interners \ {t} : interning'[u] = interning[u]
  BY <1>0, <1>5 DEF DepotTypes
<1>7. depot[h] = Unclaimed /\ depot[h].state = "empty"
  BY <1>0, <1>2, <1>3 DEF EntriesWhole
<1>8. /\ depot'[h] = [Unclaimed EXCEPT !.state = "claiming"]
      /\ \A i \in Ids \ {h} : depot'[i] = depot[i]
      /\ depot'[h].state = "claiming"
  BY <1>0, <1>3, <1>5, <1>7 DEF DepotTypes, Unclaimed
<1>9. \A u \in Interners : interning[u].step \in Filling => interning[u].id # h
  BY <1>0, <1>7 DEF CallsApart
<1>10. \A i \in Ids, s \in CallStacks :
          i # h => (SameStack(depot[i], s)' <=> SameStack(depot[i], s))
  BY <1>5, <1>8 DEF SameStack
<1>11. \A i \in Ids : (Holds(i)' <=> Holds(i)) /\ (Holds(i) => i # h)
  BY <1>7, <1>8 DEF Holds
<1>12. \A u \in Interners : Placed(u)' => u # t /\ Placed(u)
  BY <1>4, <1>6 DEF Placed
<1>21. DepotTypes'
  <2>1a. depot[h] \in DepotEntry /\ depot'[h] = [depot[h] EXCEPT !.state = "claiming"]
    BY <1>0, <1>3, <1>5 DEF DepotTypes
  <2>1. depot'[h] \in DepotEntry
    BY <2>1a DEF DepotEntry
  <2>2. depot' \in [Ids -> DepotEntry]
    <3>1. depot \in [Ids -> DepotEntry]
      BY <1>0 DEF DepotTypes
    <3>2. depot' = [depot EXCEPT ![h] = depot'[h]]
      BY <1>3, <1>5, <3>1
    <3>. QED
      BY <1>3, <2>1, <3>1, <3>2
  <2>3. interning' \in [Interners -> InternCall]
    BY <1>0, <1>4, <1>5 DEF DepotTypes
  <2>. QED
    BY <1>0, <1>5, <2>2, <2>3 DEF DepotTypes
<1>22. CallsApart'
  <2>1. \A u \in Interners : interning'[u].step # "rest" =>
          /\ interning'[u].stack \in CallStacks /\ interning'[u].id \in Ids
          /\ interning'[u].id = Spot(interning'[u].stack, interning'[u].probe)
          /\ interning'[u].used <= poolUsed'
    BY <1>0, <1>2, <1>3, <1>4, <1>5, <1>6 DEF CallsApart
  <2>2. \A u \in Interners : interning'[u].step \in Filling =>
                               depot'[interning'[u].id].state = "claiming"
    <3>1. ASSUME NEW u \in Interners \ {t}, interning[u].step \in Filling
          PROVE  depot'[interning[u].id].state = "claiming"
      <4>1. interning[u].id \in Ids \ {h} /\ depot[interning[u].id].state = "claiming"
        BY <1>0, <1>9, <3>1 DEF CallsApart, Filling
      <4>. QED
        BY <1>8, <4>1
    <3>2. depot'[interning'[t].id].state = "claiming"
      BY <1>4, <1>6, <1>8
    <3>3. \A u \in Interners \ {t} : interning'[u] = interning[u]
      BY <1>6
    <3>. QED
      BY <3>1, <3>2, <3>3
  <2>. QED
    BY <1>0, <1>4, <1>6, <1>9, <2>1, <2>2 DEF CallsApart
<1>23. FramesApart'
  <2>1. \A u \in Interners : Placed(u)' => Placed(u) /\ interning'[u] = interning[u]
    BY <1>6, <1>12
  <2>2. \A i \in Ids : Holds(i)' => Holds(i) /\ depot'[i] = depot[i]
    BY <1>8, <1>11
  <2>3. \A u \in Interners : interning'[u].step \in {"chunk", "publish"} => Placed(u)'
    <3>1. \A u \in Interners : interning'[u].step \in {"chunk", "publish"} =>
                                  interning'[u] = interning[u] /\ Placed(u)
      BY <1>0, <1>4, <1>6 DEF FramesApart
    <3>. QED
      BY <3>1 DEF Placed
  <2>. QED
    BY <1>0, <1>5, <2>1, <2>2, <2>3 DEF FramesApart
<1>24. ChunksThere'
  BY <1>0, <1>5, <1>6, <1>12 DEF ChunksThere
<1>25. FramesInHand'
  <2>1. \A u \in Interners : interning'[u].step = "ready" =>
          /\ interning[u].step = "ready" /\ interning'[u] = interning[u]
          /\ interning[u].id # h /\ interning[u].id \in Ids
    BY <1>0, <1>4, <1>6, <1>9 DEF CallsApart, Filling
  <2>2. \A u \in Interners : interning'[u].step = "ready" =>
          interning'[u] = interning[u] /\ depot'[interning'[u].id] = depot[interning[u].id]
    BY <1>8, <2>1
  <2>. QED
    BY <1>0, <1>5, <2>1, <2>2 DEF FramesInHand
<1>26. EntriesWhole'
  <2>1. \A u \in Interners : interning'[u].step \in Filling \ {"ready"} =>
          depot'[interning'[u].id] = [Unclaimed EXCEPT !.state = "claiming"]
    <3>1. ASSUME NEW u \in Interners \ {t}, interning[u].step \in Filling \ {"ready"}
          PROVE  depot'[interning[u].id] = [Unclaimed EXCEPT !.state = "claiming"]
      <4>1. interning[u].id \in Ids \ {h}
        BY <1>0, <1>9, <3>1 DEF CallsApart, Filling
      <4>. QED
        BY <1>0, <1>8, <3>1, <4>1 DEF EntriesWhole
    <3>. QED
      BY <1>4, <1>6, <1>8, <3>1
  <2>2. \A i \in Ids : depot'[i].state \in {"empty", "ready"} => i # h
    BY <1>8
  <2>3. \A i \in Ids : depot'[i].state = "empty" => depot'[i] = Unclaimed
    BY <1>0, <1>8, <2>2 DEF EntriesWhole
  <2>4. ASSUME NEW i \in Ids, depot'[i].state = "ready"
        PROVE  IF depot'[i].n = 0
                 THEN depot'[i].cut
                 ELSE ~ depot'[i].cut /\ \E s \in CallStacks : SameStack(depot[i], s)'
    <3>1. i # h /\ depot'[i] = depot[i]
      BY <1>8, <2>2, <2>4
    <3>. QED
      BY <1>0, <1>10, <2>4, <3>1 DEF EntriesWhole
  <2>. QED
    BY <2>1, <2>3, <2>4 DEF EntriesWhole
<1>27. IdNamesItsStack'
  <2>1. \A q \in named : q[1] \in Ids /\ q[2] \in CallStacks
    BY <1>0 DEF DepotTypes
  <2>2. \A q \in named : q[1] # h
    BY <1>0, <1>7 DEF IdNamesItsStack
  <2>. QED
    BY <1>0, <1>5, <1>8, <1>10, <2>1, <2>2 DEF IdNamesItsStack
<1>. QED
  BY <1>21, <1>22, <1>23, <1>24, <1>25, <1>26, <1>27 DEF Orderly

(* Where the frames of an entry and of a call are.                          *)
LEMMA HeldFrames ==
    ASSUME Orderly, NEW i \in Ids, Holds(i), NEW k \in 0 .. depot[i].n - 1
    PROVE  /\ depot[i].first + k \in Frames
           /\ (depot[i].first + k) \div PoolChunk = depot[i].first \div PoolChunk
           /\ depot[i].first \div PoolChunk \in chunkMade
<1>1. /\ depot[i].first + depot[i].n <= poolUsed /\ Within(depot[i].first, depot[i].n)
      /\ poolUsed \in Nat /\ poolUsed <= NoRoom
  BY DepotConstants DEF Orderly, FramesApart, DepotTypes
<1>2. depot[i].first \in Nat /\ depot[i].n \in Nat
  BY EntryFacts
<1>3. depot[i].first + k \in Nat /\ depot[i].first + k < NoRoom
  BY <1>1, <1>2, DepotConstants
<1>4. depot[i].first \div PoolChunk \in chunkMade
  <2>1. EntriesWhole /\ depot[i].state = "ready" /\ depot[i].n # 0
    BY <1>2 DEF Orderly, Holds
  <2>2. PICK s \in CallStacks : SameStack(depot[i], s)
    BY <2>1 DEF EntriesWhole
  <2>. QED
    BY <2>2 DEF SameStack
<1>. QED
  BY <1>1, <1>3, <1>4, DepotConstants DEF Within

LEMMA PlacedFrames ==
    ASSUME Orderly, NEW t \in Interners, Placed(t),
           NEW k \in 0 .. Depth[interning[t].stack] - 1
    PROVE  /\ interning[t].start + k \in Frames
           /\ (interning[t].start + k) \div PoolChunk = interning[t].start \div PoolChunk
<1>1. /\ interning[t].start + Depth[interning[t].stack] <= poolUsed
      /\ Within(interning[t].start, Depth[interning[t].stack])
      /\ poolUsed \in Nat /\ poolUsed <= NoRoom
  BY DepotConstants DEF Orderly, FramesApart, DepotTypes
<1>2. interning[t].start \in Nat /\ Depth[interning[t].stack] \in Nat
  BY CallFacts, DepotConstants DEF Placed
<1>3. interning[t].start + k \in Nat /\ interning[t].start + k < NoRoom
  BY <1>1, <1>2, DepotConstants
<1>. QED
  BY <1>1, <1>3, DepotConstants DEF Within

(* An entry whose frames stay as they are names the stacks it named.        *)
LEMMA StackStays ==
    ASSUME Orderly, chunkMade \subseteq chunkMade', NEW i \in Ids, Holds(i),
           depot'[i] = depot[i],
           \A k \in 0 .. depot[i].n - 1 :
              frames'[depot[i].first + k] = frames[depot[i].first + k]
    PROVE  \A s \in CallStacks : SameStack(depot[i], s)' <=> SameStack(depot[i], s)
<1>1. 0 \in 0 .. depot[i].n - 1
  BY EntryFacts DEF Holds
<1>2. depot[i].first \div PoolChunk \in chunkMade
  BY <1>1, HeldFrames
<1>. QED
  BY <1>2 DEF SameStack

\* What stays in a step that writes to the pool: entries that hold frames, the
\* frames of the calls that have written theirs.
FramesKept(t) ==
    /\ chunkMade \subseteq chunkMade'
    /\ \A i \in Ids : Holds(i) =>
         /\ depot'[i] = depot[i]
         /\ \A k \in 0 .. depot[i].n - 1 :
              frames'[depot[i].first + k] = frames[depot[i].first + k]
    /\ \A u \in Interners \ {t} : Placed(u) /\ interning[u].step = "ready" =>
         \A k \in 0 .. Depth[interning[u].stack] - 1 :
            frames'[interning[u].start + k] = frames[interning[u].start + k]

(* The chunk that is published was not there, so it holds nobody's frames.  *)
LEMMA MadeKeeps ==
    ASSUME Orderly, NEW t \in Interners, ChunkPublish(t),
           interning[t].start \div PoolChunk \notin chunkMade
    PROVE  FramesKept(t)
<1>1. PICK c : c = interning[t].start \div PoolChunk /\ c \notin chunkMade
  OBVIOUS
<1>2. chunkMade' = chunkMade \cup {c} /\ frames' = Blank(c) /\ depot' = depot
  BY <1>1 DEF ChunkPublish
<1>3. \A f \in Frames : f \div PoolChunk # c => frames'[f] = frames[f]
  BY <1>2 DEF Blank
<1>4. ASSUME NEW i \in Ids, Holds(i), NEW k \in 0 .. depot[i].n - 1
      PROVE  frames'[depot[i].first + k] = frames[depot[i].first + k]
  BY <1>1, <1>3, <1>4, HeldFrames
<1>5. ASSUME NEW u \in Interners, Placed(u), interning[u].step = "ready",
             NEW k \in 0 .. Depth[interning[u].stack] - 1
      PROVE  frames'[interning[u].start + k] = frames[interning[u].start + k]
  <2>1. interning[u].start \div PoolChunk \in chunkMade
    BY <1>5 DEF Orderly, ChunksThere
  <2>. QED
    BY <1>1, <1>3, <1>5, <2>1, PlacedFrames
<1>. QED
  BY <1>2, <1>4, <1>5 DEF FramesKept

(* The frames a call writes are its own.                                    *)
LEMMA WriteKeeps ==
    ASSUME Orderly, NEW t \in Interners, InternWrite(t)
    PROVE  FramesKept(t)
<1>0. FramesApart /\ CallsApart
  BY DEF Orderly
<1>a. interning[t].step = "write" /\ interning[t].stack \in CallStacks
      /\ interning[t].start \in Nat /\ Depth[interning[t].stack] \in Nat
  BY CallFacts, DepotConstants DEF InternWrite
<1>1. depot[interning[t].id].state = "claiming"
  BY <1>0, <1>a DEF CallsApart, Filling
<1>2. \A i \in Ids : Holds(i) => depot'[i] = depot[i]
  <2>1. \A i \in Ids : Holds(i) => i # interning[t].id
    BY <1>1 DEF Holds
  <2>. QED
    BY <2>1 DEF InternWrite, Orderly, DepotTypes
<1>3. CASE interning[t].start = NoRoom
  BY <1>2, <1>3 DEF InternWrite, FramesKept
<1>4. CASE interning[t].start # NoRoom
  <2>1. Placed(t)
    BY <1>4, <1>a DEF Placed
  <2>2. \A f \in Frames :
          f \notin interning[t].start .. interning[t].start + Depth[interning[t].stack] - 1
          => frames'[f] = frames[f]
    BY <1>4 DEF InternWrite
  <2>3. ASSUME NEW i \in Ids, Holds(i), NEW k \in 0 .. depot[i].n - 1
        PROVE  frames'[depot[i].first + k] = frames[depot[i].first + k]
    <3>1. Away(interning[t].start, Depth[interning[t].stack], depot[i].first, depot[i].n)
      BY <1>0, <2>1, <2>3 DEF FramesApart
    <3>2. depot[i].first + k \in Frames /\ depot[i].first \in Nat /\ depot[i].n \in Nat
      BY <2>3, HeldFrames, EntryFacts
    <3>3. depot[i].first + k
            \notin interning[t].start .. interning[t].start + Depth[interning[t].stack] - 1
      BY <1>a, <3>1, <3>2 DEF Away
    <3>. QED
      BY <2>2, <3>2, <3>3
  <2>4. ASSUME NEW u \in Interners \ {t}, Placed(u), interning[u].step = "ready",
               NEW k \in 0 .. Depth[interning[u].stack] - 1
        PROVE  frames'[interning[u].start + k] = frames[interning[u].start + k]
    <3>1. Away(interning[t].start, Depth[interning[t].stack],
                interning[u].start, Depth[interning[u].stack])
      BY <1>0, <2>1, <2>4 DEF FramesApart
    <3>2. interning[u].start + k \in Frames
      BY <2>4, PlacedFrames
    <3>3. interning[u].start \in Nat /\ Depth[interning[u].stack] \in Nat
      BY <2>4, CallFacts, DepotConstants DEF Placed
    <3>4. interning[u].start + k
            \notin interning[t].start .. interning[t].start + Depth[interning[t].stack] - 1
      BY <1>a, <3>1, <3>3 DEF Away
    <3>. QED
      BY <2>2, <3>2, <3>4
  <2>5. chunkMade' = chunkMade
    BY DEF InternWrite
  <2>. QED
    BY <1>2, <2>3, <2>4, <2>5 DEF FramesKept
<1>. QED
  BY <1>3, <1>4

(* A frame of the pool is in one of its chunks.                             *)
LEMMA ChunkOf ==
    ASSUME NEW f \in Nat, f < NoRoom
    PROVE  f \div PoolChunk \in 0 .. PoolChunks - 1
<1>1. PICK s \in Nat \ {0} : s = PoolChunk
  BY DepotConstants
<1>2. PICK q \in Nat, r \in 0 .. s - 1 : f = q * s + r /\ q = f \div s
  BY DivParts
<1>3. PICK n \in Nat : n = PoolChunks
  BY DepotConstants
<1>4. f < s * n
  BY <1>1, <1>3 DEF NoRoom
<1>5. ASSUME n <= q PROVE FALSE
  <2>1. s * n <= q * s
    BY <1>5
  <2>2. q * s \in Nat /\ s * n \in Nat
    OBVIOUS
  <2>. QED
    BY <1>2, <1>4, <2>1, <2>2
<1>. QED
  BY <1>1, <1>2, <1>3, <1>5

(* A new chunk: the frames of others are in other chunks.                   *)
LEMMA MadeStep ==
    ASSUME Orderly, NEW t \in Interners, ChunkPublish(t),
           interning[t].start \div PoolChunk \notin chunkMade
    PROVE  Orderly'
<1>. USE DepotConstants
<1>0. DepotTypes /\ CallsApart /\ FramesApart /\ ChunksThere /\ FramesInHand /\ EntriesWhole
      /\ IdNamesItsStack
  BY DEF Orderly
<1>1. PICK c : c = interning[t].start \div PoolChunk /\ c \notin chunkMade
  OBVIOUS
<1>2. PICK m : m = [interning[t] EXCEPT !.step = "write"]
  OBVIOUS
<1>3. /\ interning[t].step = "publish" /\ interning[t] \in InternCall /\ Placed(t)
      /\ interning[t].start \in Nat
  BY <1>0, CallFacts DEF ChunkPublish, FramesApart
<1>4. /\ m.step = "write" /\ m.id = interning[t].id /\ m.stack = interning[t].stack
      /\ m.used = interning[t].used /\ m.probe = interning[t].probe
      /\ m.start = interning[t].start /\ m \in InternCall
  BY <1>2, <1>3 DEF InternCall, Filling
<1>5. /\ interning' = [interning EXCEPT ![t] = m] /\ chunkMade' = chunkMade \cup {c}
      /\ frames' = Blank(c) /\ UNCHANGED <<depot, chunkMem, poolUsed, named>>
  BY <1>0, <1>1, <1>2 DEF ChunkPublish, DepotTypes, InternCall
<1>6. interning'[t] = m /\ \A u \in Interners \ {t} : interning'[u] = interning[u]
  BY <1>0, <1>5 DEF DepotTypes
<1>7. FramesKept(t)
  BY <1>1, MadeKeeps
<1>8. \A i \in Ids : Holds(i) => \A s \in CallStacks :
          SameStack(depot[i], s)' <=> SameStack(depot[i], s)
  BY <1>7, StackStays DEF FramesKept
<1>9. \A i \in Ids : Holds(i)' <=> Holds(i)
  BY <1>5 DEF Holds
<1>10. \A u \in Interners : /\ interning'[u].stack = interning[u].stack
                            /\ interning'[u].start = interning[u].start
                            /\ interning'[u].id = interning[u].id
                            /\ interning'[u].probe = interning[u].probe
                            /\ interning'[u].used = interning[u].used
  BY <1>4, <1>6
<1>11. \A u \in Interners : /\ interning'[u].step # "rest" => interning[u].step # "rest"
                            /\ interning'[u].step \in Filling => interning[u].step \in Filling
                            /\ Placed(u)' <=> Placed(u)
                            /\ u # t => interning'[u].step = interning[u].step
  BY <1>3, <1>4, <1>6 DEF Filling, Placed
<1>21. DepotTypes'
  <2>1. c \in 0 .. PoolChunks - 1
    <3>1. 0 \in 0 .. Depth[interning[t].stack] - 1
      BY <1>3, CallFacts DEF Placed
    <3>2. interning[t].start < NoRoom
      BY <1>3, <3>1, PlacedFrames
    <3>. QED
      BY <1>1, <1>3, <3>2, ChunkOf
  <2>2. frames' \in [Frames -> {<<>>} \cup (CallStacks \X Nat)]
    BY <1>0, <1>5 DEF DepotTypes, Blank
  <2>3. interning' \in [Interners -> InternCall]
    BY <1>0, <1>4, <1>5 DEF DepotTypes
  <2>. QED
    BY <1>0, <1>5, <2>1, <2>2, <2>3 DEF DepotTypes
<1>22. CallsApart'
  BY <1>0, <1>5, <1>10, <1>11 DEF CallsApart
<1>23. FramesApart'
  <2>1. \A u \in Interners : interning'[u].step \in {"chunk", "publish"} => Placed(u)'
    BY <1>0, <1>4, <1>6, <1>11 DEF FramesApart
  <2>. QED
    BY <1>0, <1>5, <1>9, <1>10, <1>11, <2>1 DEF FramesApart
<1>24. ChunksThere'
  BY <1>0, <1>1, <1>5, <1>6, <1>10, <1>11 DEF ChunksThere
<1>25. FramesInHand'
  <2>1. ASSUME NEW u \in Interners, interning'[u].step = "ready",
               interning[u].start # NoRoom, NEW k \in 0 .. Depth[interning[u].stack] - 1
        PROVE  frames'[interning[u].start + k] = <<interning[u].stack, k>>
    <3>1. u # t /\ interning[u].step = "ready" /\ Placed(u)
      BY <1>4, <1>6, <1>11, <2>1 DEF Placed
    <3>2. frames'[interning[u].start + k] = frames[interning[u].start + k]
      BY <1>7, <2>1, <3>1 DEF FramesKept
    <3>. QED
      BY <1>0, <2>1, <3>1, <3>2 DEF FramesInHand
  <2>2. \A u \in Interners : interning'[u].step = "ready" => interning[u].step = "ready"
    BY <1>4, <1>6
  <2>3. \A u \in Interners : interning[u].step = "ready" =>
          IF interning[u].start = NoRoom
            THEN depot[interning[u].id].n = 0 /\ depot[interning[u].id].cut
            ELSE /\ depot[interning[u].id].first = interning[u].start
                 /\ depot[interning[u].id].n = Depth[interning[u].stack]
                 /\ ~ depot[interning[u].id].cut
    BY <1>0 DEF FramesInHand
  <2>4. ASSUME NEW u \in Interners, interning'[u].step = "ready"
        PROVE  IF interning'[u].start = NoRoom
                 THEN depot'[interning'[u].id].n = 0 /\ depot'[interning'[u].id].cut
                 ELSE /\ depot'[interning'[u].id].first = interning'[u].start
                      /\ depot'[interning'[u].id].n = Depth[interning'[u].stack]
                      /\ ~ depot'[interning'[u].id].cut
                      /\ \A k \in 0 .. Depth[interning'[u].stack] - 1 :
                            frames'[interning'[u].start + k] = <<interning'[u].stack, k>>
    <3>1. /\ interning'[u].stack = interning[u].stack /\ interning'[u].id = interning[u].id
          /\ interning'[u].start = interning[u].start /\ depot' = depot
      BY <1>5, <1>10
    <3>. QED
      BY <2>1, <2>2, <2>3, <2>4, <3>1
  <2>. QED
    BY <2>4 DEF FramesInHand
<1>26. EntriesWhole'
  <2>1. \A u \in Interners : interning'[u].step \in Filling \ {"ready"} =>
          interning[u].step \in Filling \ {"ready"}
    BY <1>3, <1>4, <1>6 DEF Filling
  <2>2. ASSUME NEW i \in Ids, depot[i].state = "ready", depot[i].n # 0
        PROVE  \E s \in CallStacks : SameStack(depot[i], s)'
    BY <1>0, <1>8, <2>2, EntryFacts DEF EntriesWhole, Holds
  <2>. QED
    BY <1>0, <1>5, <1>10, <2>1, <2>2 DEF EntriesWhole
<1>27. IdNamesItsStack'
  <2>1. \A q \in named : q[1] \in Ids /\ q[2] \in CallStacks
    BY <1>0 DEF DepotTypes
  <2>2. ASSUME NEW q \in named, depot[q[1]].n # 0
        PROVE  SameStack(depot[q[1]], q[2])'
    <3>1. SameStack(depot[q[1]], q[2]) /\ depot[q[1]].state = "ready"
      BY <1>0, <2>2 DEF IdNamesItsStack
    <3>2. Holds(q[1])
      <4>1. q[1] \in Ids /\ depot[q[1]].n \in Nat
        BY <2>1, EntryFacts
      <4>. QED
        BY <2>2, <3>1, <4>1 DEF Holds
    <3>. QED
      BY <1>8, <2>1, <3>1, <3>2
  <2>. QED
    BY <1>0, <1>5, <2>2 DEF IdNamesItsStack
<1>. QED
  BY <1>21, <1>22, <1>23, <1>24, <1>25, <1>26, <1>27 DEF Orderly

(* The frames and the entry are written before anybody may read them.       *)
LEMMA WriteStep ==
    ASSUME Orderly, NEW t \in Interners, InternWrite(t)
    PROVE  Orderly'
<1>. USE DepotConstants
<1>0. DepotTypes /\ CallsApart /\ FramesApart /\ ChunksThere /\ FramesInHand /\ EntriesWhole
      /\ IdNamesItsStack
  BY DEF Orderly
<1>1. PICK h : h = interning[t].id
  OBVIOUS
<1>2. PICK m : m = [interning[t] EXCEPT !.step = "ready"]
  OBVIOUS
<1>3. /\ interning[t].step = "write" /\ interning[t] \in InternCall /\ h \in Ids
      /\ interning[t].stack \in CallStacks /\ interning[t].start \in Nat
      /\ depot[h].state = "claiming" /\ depot[h] \in DepotEntry
      /\ depot[h] = [Unclaimed EXCEPT !.state = "claiming"] /\ ~ depot[h].cut
  <2>1. interning[t].step = "write" /\ h \in Ids /\ interning[t].stack \in CallStacks
        /\ interning[t].start \in Nat
    BY <1>1, CallFacts DEF InternWrite
  <2>2. depot[h].state = "claiming" /\ depot[h] = [Unclaimed EXCEPT !.state = "claiming"]
    BY <1>0, <1>1, <2>1 DEF EntriesWhole, CallsApart, Filling
  <2>3. ~ [Unclaimed EXCEPT !.state = "claiming"].cut
    BY DEF Unclaimed
  <2>. QED
    BY <1>0, <2>1, <2>2, <2>3 DEF DepotTypes
<1>4. /\ m.step = "ready" /\ m.id = h /\ m.stack = interning[t].stack
      /\ m.used = interning[t].used /\ m.probe = interning[t].probe
      /\ m.start = interning[t].start /\ m \in InternCall
  BY <1>1, <1>2, <1>3 DEF InternCall, Filling
<1>5. /\ interning' = [interning EXCEPT ![t] = m]
      /\ UNCHANGED <<chunkMade, chunkMem, poolUsed, named>>
  BY <1>0, <1>2 DEF InternWrite, DepotTypes, InternCall
<1>6. interning'[t] = m /\ \A u \in Interners \ {t} : interning'[u] = interning[u]
  BY <1>0, <1>5 DEF DepotTypes
<1>7. FramesKept(t)
  BY WriteKeeps
<1>8. \A i \in Ids : Holds(i) => \A s \in CallStacks :
          SameStack(depot[i], s)' <=> SameStack(depot[i], s)
  BY <1>7, StackStays DEF FramesKept
<1>9. /\ depot' \in [Ids -> DepotEntry] /\ depot'[h].state = "claiming"
      /\ \A i \in Ids \ {h} : depot'[i] = depot[i]
      /\ interning[t].start = NoRoom => depot'[h].n = 0 /\ depot'[h].cut
      /\ interning[t].start # NoRoom =>
            /\ depot'[h].first = interning[t].start
            /\ depot'[h].n = Depth[interning[t].stack] /\ ~ depot'[h].cut
  <2>1. depot \in [Ids -> DepotEntry] /\ Depth[interning[t].stack] \in Nat
    BY <1>0, <1>3 DEF DepotTypes
  <2>2. CASE interning[t].start = NoRoom
    <3>1. depot' = [depot EXCEPT ![h].first = 0, ![h].n = 0, ![h].cut = TRUE]
      BY <1>1, <2>2 DEF InternWrite
    <3>. QED
      BY <1>3, <2>1, <2>2, <3>1 DEF DepotEntry
  <2>3. CASE interning[t].start # NoRoom
    <3>1. depot' = [depot EXCEPT ![h].first = interning[t].start,
                                 ![h].n = Depth[interning[t].stack]]
      BY <1>1, <2>3 DEF InternWrite
    <3>. QED
      BY <1>3, <2>1, <2>3, <3>1 DEF DepotEntry
  <2>. QED
    BY <2>2, <2>3
<1>10. \A u \in Interners : /\ interning'[u].stack = interning[u].stack
                            /\ interning'[u].start = interning[u].start
                            /\ interning'[u].id = interning[u].id
                            /\ interning'[u].probe = interning[u].probe
                            /\ interning'[u].used = interning[u].used
  BY <1>1, <1>4, <1>6
<1>11. \A u \in Interners : /\ interning'[u].step # "rest" => interning[u].step # "rest"
                            /\ interning'[u].step \in Filling => interning[u].step \in Filling
                            /\ Placed(u)' <=> Placed(u)
                            /\ u # t => interning'[u].step = interning[u].step
  BY <1>3, <1>4, <1>6 DEF Filling, Placed
<1>12. \A i \in Ids : (Holds(i)' <=> Holds(i)) /\ (Holds(i) => i # h)
  BY <1>3, <1>9 DEF Holds
<1>13. \A u \in Interners \ {t} : interning[u].step \in Filling =>
           interning[u].id \in Ids \ {h} /\ depot'[interning[u].id] = depot[interning[u].id]
  <2>1. \A u \in Interners \ {t} : interning[u].step \in Filling => interning[u].id \in Ids \ {h}
    BY <1>0, <1>1, <1>3 DEF CallsApart, Filling
  <2>. QED
    BY <1>9, <2>1
<1>21. DepotTypes'
  <2>1. frames' \in [Frames -> {<<>>} \cup (CallStacks \X Nat)]
    <3>1. CASE interning[t].start = NoRoom
      BY <1>0, <3>1 DEF DepotTypes, InternWrite
    <3>2. CASE interning[t].start # NoRoom
      <4>1. \A f \in Frames : f >= interning[t].start => f - interning[t].start \in Nat
        BY <1>3
      <4>2. frames' = [f \in Frames |->
               IF f \in interning[t].start .. interning[t].start + Depth[interning[t].stack] - 1
                 THEN <<interning[t].stack, f - interning[t].start>> ELSE frames[f]]
        BY <3>2 DEF InternWrite
      <4>3. frames \in [Frames -> {<<>>} \cup (CallStacks \X Nat)]
        BY <1>0 DEF DepotTypes
      <4>4. ASSUME NEW f \in Frames
            PROVE  (IF f \in interning[t].start .. interning[t].start
                                                     + Depth[interning[t].stack] - 1
                      THEN <<interning[t].stack, f - interning[t].start>> ELSE frames[f])
                     \in {<<>>} \cup (CallStacks \X Nat)
        <5>1. f \in interning[t].start .. interning[t].start + Depth[interning[t].stack] - 1
                => f >= interning[t].start
          OBVIOUS
        <5>. QED
          BY <1>3, <4>1, <4>3, <5>1
      <4>. QED
        BY <4>2, <4>4
    <3>. QED
      BY <3>1, <3>2
  <2>2. interning' \in [Interners -> InternCall]
    BY <1>0, <1>4, <1>5 DEF DepotTypes
  <2>. QED
    BY <1>0, <1>5, <1>9, <2>1, <2>2 DEF DepotTypes
<1>22. CallsApart'
  <2>1. \A u \in Interners : interning'[u].step \in Filling =>
                               depot'[interning'[u].id].state = "claiming"
    <3>1. ASSUME NEW u \in Interners \ {t}, interning[u].step \in Filling
          PROVE  depot'[interning[u].id].state = "claiming"
      BY <1>0, <1>13, <3>1 DEF CallsApart
    <3>2. depot'[interning'[t].id].state = "claiming"
      BY <1>4, <1>6, <1>9
    <3>. QED
      BY <1>6, <3>1, <3>2
  <2>. QED
    BY <1>0, <1>5, <1>10, <1>11, <2>1 DEF CallsApart
<1>23. FramesApart'
  <2>1. \A u \in Interners : interning'[u].step \in {"chunk", "publish"} => Placed(u)'
    BY <1>0, <1>4, <1>6, <1>11 DEF FramesApart
  <2>2. \A i \in Ids : Holds(i)' => Holds(i) /\ depot'[i] = depot[i]
    BY <1>9, <1>12
  <2>. QED
    BY <1>0, <1>5, <1>10, <1>11, <2>1, <2>2 DEF FramesApart
<1>24. ChunksThere'
  <2>1. \A u \in Interners : interning'[u].step \in {"write", "ready"} =>
                               interning[u].step \in {"write", "ready"}
    BY <1>3, <1>4, <1>6
  <2>. QED
    BY <1>0, <1>5, <1>10, <1>11, <2>1 DEF ChunksThere
<1>25. FramesInHand'
  <2>1. ASSUME NEW u \in Interners \ {t}, interning[u].step = "ready",
               interning[u].start # NoRoom, NEW k \in 0 .. Depth[interning[u].stack] - 1
        PROVE  frames'[interning[u].start + k] = <<interning[u].stack, k>>
    <3>1. Placed(u)
      BY <2>1 DEF Placed
    <3>2. frames'[interning[u].start + k] = frames[interning[u].start + k]
      BY <1>7, <2>1, <3>1 DEF FramesKept
    <3>. QED
      BY <1>0, <2>1, <3>1, <3>2 DEF FramesInHand
  <2>2. ASSUME interning[t].start # NoRoom, NEW k \in 0 .. Depth[interning[t].stack] - 1
        PROVE  frames'[interning[t].start + k] = <<interning[t].stack, k>>
    <3>1. Placed(t)
      BY <1>3, <2>2 DEF Placed
    <3>2. interning[t].start + k \in Frames
      BY <2>2, <3>1, PlacedFrames
    <3>3. frames' = [f \in Frames |->
             IF f \in interning[t].start .. interning[t].start + Depth[interning[t].stack] - 1
               THEN <<interning[t].stack, f - interning[t].start>> ELSE frames[f]]
      BY <2>2 DEF InternWrite
    <3>4. /\ Depth[interning[t].stack] \in Nat
          /\ interning[t].start + k
               \in interning[t].start .. interning[t].start + Depth[interning[t].stack] - 1
          /\ interning[t].start + k - interning[t].start = k
      BY <1>3
    <3>5. PICK f \in Frames : f = interning[t].start + k
      BY <3>2
    <3>6. frames'[f] = <<interning[t].stack, f - interning[t].start>>
      BY <3>3, <3>4, <3>5
    <3>7. f - interning[t].start = k
      BY <1>3, <3>5
    <3>8. frames'[f] = <<interning[t].stack, k>>
      BY <3>6, <3>7
    <3>. QED
      BY <3>5, <3>8
  <2>3. \A u \in Interners \ {t} : interning[u].step = "ready" =>
          IF interning[u].start = NoRoom
            THEN depot'[interning[u].id].n = 0 /\ depot'[interning[u].id].cut
            ELSE /\ depot'[interning[u].id].first = interning[u].start
                 /\ depot'[interning[u].id].n = Depth[interning[u].stack]
                 /\ ~ depot'[interning[u].id].cut
    BY <1>0, <1>13 DEF FramesInHand, Filling
  <2>4. ASSUME NEW u \in Interners, interning'[u].step = "ready"
        PROVE  IF interning[u].start = NoRoom
                 THEN depot'[interning[u].id].n = 0 /\ depot'[interning[u].id].cut
                 ELSE /\ depot'[interning[u].id].first = interning[u].start
                      /\ depot'[interning[u].id].n = Depth[interning[u].stack]
                      /\ ~ depot'[interning[u].id].cut
                      /\ \A k \in 0 .. Depth[interning[u].stack] - 1 :
                            frames'[interning[u].start + k] = <<interning[u].stack, k>>
    <3>1. CASE u = t
      BY <1>1, <1>9, <2>2, <3>1
    <3>2. CASE u # t
      BY <1>6, <2>1, <2>3, <2>4, <3>2
    <3>. QED
      BY <3>1, <3>2
  <2>5. ASSUME NEW u \in Interners, interning'[u].step = "ready"
        PROVE  IF interning'[u].start = NoRoom
                 THEN depot'[interning'[u].id].n = 0 /\ depot'[interning'[u].id].cut
                 ELSE /\ depot'[interning'[u].id].first = interning'[u].start
                      /\ depot'[interning'[u].id].n = Depth[interning'[u].stack]
                      /\ ~ depot'[interning'[u].id].cut
                      /\ \A k \in 0 .. Depth[interning'[u].stack] - 1 :
                            frames'[interning'[u].start + k] = <<interning'[u].stack, k>>
    <3>1. /\ interning'[u].stack = interning[u].stack /\ interning'[u].id = interning[u].id
          /\ interning'[u].start = interning[u].start
      BY <1>10
    <3>. QED
      BY <2>4, <2>5, <3>1
  <2>. QED
    BY <2>5 DEF FramesInHand
<1>26. EntriesWhole'
  <2>1. ASSUME NEW u \in Interners, interning'[u].step \in Filling \ {"ready"}
        PROVE  depot'[interning'[u].id] = [Unclaimed EXCEPT !.state = "claiming"]
    <3>1. u # t /\ interning[u].step \in Filling \ {"ready"}
      BY <1>4, <1>6, <2>1
    <3>. QED
      BY <1>0, <1>10, <1>13, <3>1 DEF EntriesWhole
  <2>2. ASSUME NEW i \in Ids, depot[i].state = "ready", depot[i].n # 0
        PROVE  \E s \in CallStacks : SameStack(depot[i], s)'
    BY <1>0, <1>8, <2>2, EntryFacts DEF EntriesWhole, Holds
  <2>3. \A i \in Ids : depot'[i].state \in {"empty", "ready"} => depot'[i] = depot[i]
    BY <1>9
  <2>. QED
    BY <1>0, <2>1, <2>2, <2>3 DEF EntriesWhole
<1>27. IdNamesItsStack'
  <2>1. \A q \in named : q[1] \in Ids /\ q[2] \in CallStacks
    BY <1>0 DEF DepotTypes
  <2>2. ASSUME NEW q \in named, depot[q[1]].n # 0
        PROVE  SameStack(depot[q[1]], q[2])'
    <3>1. SameStack(depot[q[1]], q[2]) /\ depot[q[1]].state = "ready"
      BY <1>0, <2>2 DEF IdNamesItsStack
    <3>2. Holds(q[1])
      <4>1. q[1] \in Ids /\ depot[q[1]].n \in Nat
        BY <2>1, EntryFacts
      <4>. QED
        BY <2>2, <3>1, <4>1 DEF Holds
    <3>. QED
      BY <1>8, <2>1, <3>1, <3>2
  <2>3. \A q \in named : depot'[q[1]] = depot[q[1]]
    BY <1>0, <1>3, <1>9, <2>1 DEF IdNamesItsStack
  <2>. QED
    BY <1>0, <1>5, <2>2, <2>3 DEF IdNamesItsStack
<1>. QED
  BY <1>21, <1>22, <1>23, <1>24, <1>25, <1>26, <1>27 DEF Orderly

(* What is made ready is whole, and from now on it names its stack.         *)
LEMMA ReadyStep ==
    ASSUME Orderly, NEW t \in Interners, InternReady(t), NEW h, h = interning[t].id,
           NEW s0, s0 = interning[t].stack
    PROVE  /\ Orderly'
           /\ \A i \in Ids \ {h} :
                 /\ Holds(i)' <=> Holds(i)
                 /\ Holds(i) => \A s \in CallStacks :
                                   SameStack(depot[i], s)' <=> SameStack(depot[i], s)
           /\ ~ Holds(h) /\ (Holds(h)' => SameStack(depot[h], s0)')
           /\ interning'[t] = AtRest
           /\ \A u \in Interners \ {t} : interning'[u] = interning[u]
           /\ depot'[h].state = "ready" /\ \A i \in Ids \ {h} : depot'[i] = depot[i]
<1>. USE DepotConstants
<1>0. DepotTypes /\ CallsApart /\ FramesApart /\ ChunksThere /\ FramesInHand /\ EntriesWhole
      /\ IdNamesItsStack
  BY DEF Orderly
<1>1. h = interning[t].id
  OBVIOUS
<1>2. s0 = interning[t].stack
  OBVIOUS
<1>3. /\ interning[t].step = "ready" /\ interning[t] \in InternCall
      /\ h \in Ids /\ s0 \in CallStacks
      /\ depot[h].state = "claiming" /\ depot[h] \in DepotEntry
      /\ Depth[s0] > 0 /\ Depth[s0] \in Nat
      /\ interning[t].start \in Nat
  <2>1. interning[t].step = "ready" /\ h \in Ids /\ s0 \in CallStacks /\ interning[t] \in InternCall
        /\ interning[t].start \in Nat
    BY <1>1, <1>2, CallFacts DEF InternReady
  <2>2. depot[h].state = "claiming"
    BY <1>0, <1>1, <2>1 DEF CallsApart, Filling
  <2>. QED
    BY <1>0, <2>1, <2>2 DEF DepotTypes
<1>5. /\ interning' = [interning EXCEPT ![t] = AtRest] /\ named' = named \cup {<<h, s0>>}
      /\ depot' = [depot EXCEPT ![h].state = "ready"]
      /\ UNCHANGED <<frames, chunkMade, chunkMem, poolUsed>>
  BY <1>1, <1>2 DEF InternReady, pool
<1>6. interning'[t] = AtRest /\ \A u \in Interners \ {t} : interning'[u] = interning[u]
  BY <1>0, <1>5 DEF DepotTypes
<1>7. /\ depot' \in [Ids -> DepotEntry] /\ depot'[h].state = "ready"
      /\ depot'[h].first = depot[h].first /\ depot'[h].n = depot[h].n
      /\ depot'[h].cut = depot[h].cut /\ \A i \in Ids \ {h} : depot'[i] = depot[i]
  <2>1. depot \in [Ids -> DepotEntry]
    BY <1>0 DEF DepotTypes
  <2>. QED
    BY <1>3, <1>5, <2>1 DEF DepotEntry
<1>8. \A i \in Ids \ {h}, s \in CallStacks : SameStack(depot[i], s)' <=> SameStack(depot[i], s)
  BY <1>5, <1>7 DEF SameStack
<1>9. /\ \A i \in Ids \ {h} : Holds(i)' <=> Holds(i)
      /\ ~ Holds(h)
  BY <1>3, <1>7 DEF Holds
<1>10. /\ interning[t].start = NoRoom => depot[h].n = 0 /\ depot[h].cut
       /\ interning[t].start # NoRoom =>
            /\ Placed(t) /\ depot[h].first = interning[t].start /\ depot[h].n = Depth[s0]
            /\ ~ depot[h].cut /\ SameStack(depot[h], s0)'
  <2>1. CASE interning[t].start = NoRoom
    BY <1>0, <1>1, <1>3, <2>1 DEF FramesInHand
  <2>2. CASE interning[t].start # NoRoom
    <3>1. Placed(t)
      BY <1>3, <2>2 DEF Placed
    <3>2. /\ depot[h].first = interning[t].start /\ depot[h].n = Depth[s0] /\ ~ depot[h].cut
          /\ \A k \in 0 .. Depth[s0] - 1 : frames[interning[t].start + k] = <<s0, k>>
      BY <1>0, <1>1, <1>2, <1>3, <2>2 DEF FramesInHand
    <3>3. interning[t].start \div PoolChunk \in chunkMade
      BY <1>0, <1>3, <3>1 DEF ChunksThere
    <3>4. /\ depot'[h].n = Depth[s0] /\ depot'[h].first = interning[t].start
          /\ frames' = frames /\ chunkMade' = chunkMade
      BY <1>5, <1>7, <3>2
    <3>5. SameStack(depot[h], s0)'
      BY <3>2, <3>3, <3>4 DEF SameStack
    <3>. QED
      BY <2>2, <3>1, <3>2, <3>5
  <2>. QED
    BY <2>1, <2>2
<1>12. \A u \in Interners : interning'[u].step # "rest" => u # t /\ interning'[u] = interning[u]
  BY <1>6, AtRestIs
<1>13. \A u \in Interners : Placed(u)' => u # t /\ Placed(u) /\ interning'[u] = interning[u]
  BY <1>12 DEF Placed
<1>14. \A u \in Interners : interning'[u].step \in Filling =>
           /\ u # t /\ interning'[u] = interning[u] /\ interning[u].id \in Ids \ {h}
           /\ depot'[interning[u].id] = depot[interning[u].id]
  <2>1. \A u \in Interners : interning'[u].step \in Filling =>
           /\ u # t /\ interning'[u] = interning[u] /\ interning[u].id \in Ids \ {h}
    BY <1>0, <1>1, <1>3, <1>12 DEF CallsApart, Filling
  <2>. QED
    BY <1>7, <2>1
<1>15. Holds(h)' => /\ Placed(t) /\ depot'[h].first = interning[t].start
                    /\ depot'[h].n = Depth[s0]
  BY <1>7, <1>10 DEF Holds
<1>21. DepotTypes'
  <2>1. interning' \in [Interners -> InternCall]
    <3>1. AtRest \in InternCall
      BY AtRestIs DEF InternCall
    <3>. QED
      BY <1>0, <1>5, <3>1 DEF DepotTypes
  <2>2. named' \subseteq Ids \X CallStacks
    BY <1>0, <1>3, <1>5 DEF DepotTypes
  <2>. QED
    BY <1>0, <1>5, <1>7, <2>1, <2>2 DEF DepotTypes
<1>22. CallsApart'
  <2>1. \A u \in Interners : interning'[u].step \in Filling =>
                               depot'[interning'[u].id].state = "claiming"
    BY <1>0, <1>14 DEF CallsApart
  <2>. QED
    BY <1>0, <1>5, <1>12, <1>14, <2>1 DEF CallsApart
<1>23. FramesApart'
  <2>1. \A u \in Interners : interning'[u].step \in {"chunk", "publish"} => Placed(u)'
    <3>1. \A u \in Interners : interning'[u].step \in {"chunk", "publish"} =>
              interning'[u] = interning[u] /\ Placed(u)
      BY <1>0, <1>12 DEF FramesApart
    <3>. QED
      BY <3>1 DEF Placed
  <2>2. \A i \in Ids : Holds(i)' => \/ Holds(i) /\ depot'[i] = depot[i]
                                    \/ /\ Placed(t) /\ depot'[i].first = interning[t].start
                                       /\ depot'[i].n = Depth[interning[t].stack]
    BY <1>2, <1>7, <1>9, <1>15
  <2>3. ASSUME NEW u \in Interners, NEW i \in Ids, Placed(u)', Holds(i)'
        PROVE  Away(interning'[u].start, Depth[interning'[u].stack],
                     depot'[i].first, depot'[i].n)
    <3>1. Placed(u) /\ u # t /\ interning'[u] = interning[u]
      BY <1>13, <2>3
    <3>2. CASE Holds(i) /\ depot'[i] = depot[i]
      BY <1>0, <3>1, <3>2 DEF FramesApart
    <3>3. CASE /\ Placed(t) /\ depot'[i].first = interning[t].start
               /\ depot'[i].n = Depth[interning[t].stack]
      <4>1. Away(interning[u].start, Depth[interning[u].stack],
                  interning[t].start, Depth[interning[t].stack])
        BY <1>0, <3>1, <3>3 DEF FramesApart
      <4>. QED
        BY <3>1, <3>3, <4>1
    <3>. QED
      BY <2>2, <2>3, <3>2, <3>3
  <2>4. ASSUME NEW i \in Ids, Holds(i)'
        PROVE  /\ depot'[i].first + depot'[i].n <= poolUsed'
               /\ Within(depot'[i].first, depot'[i].n)
    <3>1. CASE Holds(i) /\ depot'[i] = depot[i]
      BY <1>0, <1>5, <3>1 DEF FramesApart
    <3>2. CASE /\ Placed(t) /\ depot'[i].first = interning[t].start
               /\ depot'[i].n = Depth[interning[t].stack]
      <4>1. /\ interning[t].start + Depth[interning[t].stack] <= poolUsed
            /\ Within(interning[t].start, Depth[interning[t].stack])
        BY <1>0, <3>2 DEF FramesApart
      <4>. QED
        BY <1>5, <3>2, <4>1
    <3>. QED
      BY <2>2, <2>4, <3>1, <3>2
  <2>. QED
    BY <1>0, <1>5, <1>13, <2>1, <2>3, <2>4 DEF FramesApart
<1>24. ChunksThere'
  BY <1>0, <1>5, <1>13 DEF ChunksThere
<1>25. FramesInHand'
  <2>1. \A u \in Interners : interning'[u].step = "ready" =>
          /\ interning[u].step = "ready" /\ interning'[u] = interning[u]
          /\ depot'[interning'[u].id] = depot[interning[u].id]
    BY <1>12, <1>14 DEF Filling
  <2>. QED
    BY <1>0, <1>5, <2>1 DEF FramesInHand
<1>26. EntriesWhole'
  <2>1. \A u \in Interners : interning'[u].step \in Filling \ {"ready"} =>
          depot'[interning'[u].id] = [Unclaimed EXCEPT !.state = "claiming"]
    BY <1>0, <1>14 DEF EntriesWhole
  <2>2. ASSUME NEW i \in Ids, depot'[i].state = "ready"
        PROVE  IF depot'[i].n = 0
                 THEN depot'[i].cut
                 ELSE ~ depot'[i].cut /\ \E s \in CallStacks : SameStack(depot[i], s)'
    <3>1. CASE i = h
      BY <1>3, <1>7, <1>10, <3>1
    <3>2. CASE i # h
      BY <1>0, <1>7, <1>8, <2>2, <3>2 DEF EntriesWhole
    <3>. QED
      BY <3>1, <3>2
  <2>3. \A i \in Ids : depot'[i].state = "empty" => depot'[i] = depot[i]
    BY <1>7
  <2>. QED
    BY <1>0, <2>1, <2>2, <2>3 DEF EntriesWhole
<1>27. IdNamesItsStack'
  <2>1. \A q \in named : q[1] \in Ids /\ q[2] \in CallStacks
    BY <1>0 DEF DepotTypes
  <2>2. \A q \in named : q[1] # h
    BY <1>0, <1>3 DEF IdNamesItsStack
  <2>3. ASSUME NEW q \in named'
        PROVE  /\ depot'[q[1]].state = "ready"
               /\ IF depot'[q[1]].n = 0
                    THEN depot'[q[1]].cut
                    ELSE ~ depot'[q[1]].cut /\ SameStack(depot[q[1]], q[2])'
    <3>1. CASE q = <<h, s0>>
      BY <1>3, <1>7, <1>10, <3>1
    <3>2. CASE q \in named
      <4>1. q[1] \in Ids \ {h} /\ q[2] \in CallStacks /\ depot'[q[1]] = depot[q[1]]
        BY <1>7, <2>1, <2>2, <3>2
      <4>2. SameStack(depot[q[1]], q[2])' <=> SameStack(depot[q[1]], q[2])
        <5>1. PICK i \in Ids \ {h}, s \in CallStacks : i = q[1] /\ s = q[2]
          BY <4>1
        <5>. QED
          BY <1>8, <5>1
      <4>. QED
        BY <1>0, <3>2, <4>1, <4>2 DEF IdNamesItsStack
    <3>. QED
      BY <1>5, <3>1, <3>2
  <2>. QED
    BY <2>3 DEF IdNamesItsStack
<1>28. Holds(h)' => SameStack(depot[h], s0)'
  BY <1>7, <1>10 DEF Holds
<1>. QED
  BY <1>6, <1>7, <1>8, <1>9, <1>28, <1>21, <1>22, <1>23, <1>24, <1>25, <1>26, <1>27
     DEF Orderly

(* What a step that ends in an orderly state does to the walks.             *)
LEMMA MakersStay ==
    ASSUME NEW maker, MakersHold(maker), NEW t \in Interners,
           DepotTypes', CallsApart', DepotTypes, CallsApart,
           \A i \in Ids : depot[i].state # "empty" => depot'[i].state # "empty",
           \A i \in Ids : Holds(i)' <=> Holds(i),
           \A i \in Ids : Holds(i) => \A s \in CallStacks :
                                         SameStack(depot[i], s)' <=> SameStack(depot[i], s),
           \A u \in Interners \ {t} : interning'[u] = interning[u],
           \/ interning'[t].step = "rest"
           \/ /\ interning[t].step # "rest" /\ interning'[t].id = interning[t].id
              /\ interning'[t].stack = interning[t].stack
              /\ interning'[t].probe = interning[t].probe
              /\ interning'[t].step \in Filling => interning[t].step \in Filling
    PROVE  MakersHold(maker)'
<1>. USE DepotConstants
<1>1. \A u \in Interners : interning'[u].step # "rest" =>
         /\ interning[u].step # "rest" /\ interning'[u].id = interning[u].id
         /\ interning'[u].stack = interning[u].stack /\ interning'[u].probe = interning[u].probe
         /\ interning'[u].step \in Filling => interning[u].step \in Filling
         /\ interning[u].stack \in CallStacks /\ interning[u].probe \in Nat
  <2>1. \A u \in Interners : interning'[u].step # "rest" =>
         /\ interning[u].step # "rest" /\ interning'[u].id = interning[u].id
         /\ interning'[u].stack = interning[u].stack /\ interning'[u].probe = interning[u].probe
         /\ interning'[u].step \in Filling => interning[u].step \in Filling
    OBVIOUS
  <2>2. \A u \in Interners : interning[u].probe \in Nat
    BY DEF DepotTypes, InternCall
  <2>. QED
    BY <2>1, <2>2 DEF CallsApart
<1>2. \A u \in Interners : interning'[u].step \in Filling =>
         /\ interning[u].step \in Filling /\ interning'[u].id = interning[u].id
         /\ interning'[u].stack = interning[u].stack /\ interning[u].stack \in CallStacks
  BY <1>1 DEF Filling
<1>3. maker \in [Ids -> Interners]
  BY DEF MakersHold
<1>4. \A u \in Interners : interning'[u].step \in Filling => maker[interning'[u].id] = u
  BY <1>2 DEF MakersHold
<1>5. ASSUME NEW i \in Ids, NEW s \in CallStacks, Holds(i), SameStack(depot[i], s)
      PROVE  \E p \in Nat : /\ i = Spot(s, p)
                            /\ \A q \in 0 .. p - 1 : depot'[Spot(s, q)].state # "empty"
  <2>1. PICK p \in Nat : i = Spot(s, p) /\ \A q \in 0 .. p - 1 : depot[Spot(s, q)].state # "empty"
    BY <1>5 DEF MakersHold
  <2>2. \A q \in 0 .. p - 1 : Spot(s, q) \in Ids
    BY SpotIn
  <2>. QED
    BY <2>1, <2>2
<1>6. ASSUME NEW i \in Ids, NEW j \in Ids, NEW s \in CallStacks, Holds(i)', Holds(j)',
             SameStack(depot[i], s)', SameStack(depot[j], s)', maker[i] = maker[j]
      PROVE  i = j
  <2>1. Holds(i) /\ SameStack(depot[i], s) /\ Holds(j) /\ SameStack(depot[j], s)
    BY <1>6
  <2>. QED
    BY <1>6, <2>1 DEF MakersHold
<1>7. ASSUME NEW u \in Interners, NEW i \in Ids, NEW s \in CallStacks, NEW q \in Nat,
             interning'[u].step # "rest", s = interning'[u].stack,
             q < interning'[u].probe, i = Spot(s, q)
      PROVE  /\ depot'[i].state # "empty"
             /\ ~ (Holds(i)' /\ SameStack(depot[i], s)' /\ maker[i] = u)
  <2>1. interning[u].step # "rest" /\ s = interning[u].stack /\ q < interning[u].probe
    BY <1>1, <1>7
  <2>2. depot[i].state # "empty" /\ ~ (Holds(i) /\ SameStack(depot[i], s) /\ maker[i] = u)
    BY <1>7, <2>1 DEF MakersHold
  <2>. QED
    BY <2>2
<1>8. ASSUME NEW u \in Interners, NEW i \in Ids, NEW s \in CallStacks,
             interning'[u].step \in Filling, s = interning'[u].stack
      PROVE  ~ (Holds(i)' /\ SameStack(depot[i], s)' /\ maker[i] = u)
  <2>1. interning[u].step \in Filling /\ s = interning[u].stack
    BY <1>2, <1>8
  <2>2. ~ (Holds(i) /\ SameStack(depot[i], s) /\ maker[i] = u)
    BY <1>8, <2>1 DEF MakersHold
  <2>. QED
    BY <2>2
<1>9. \A i \in Ids, s \in CallStacks : Holds(i)' /\ SameStack(depot[i], s)' =>
         \E p \in Nat : /\ i = Spot(s, p)
                        /\ \A q \in 0 .. p - 1 : depot'[Spot(s, q)].state # "empty"
  BY <1>5
<1>10. \A i, j \in Ids, s \in CallStacks :
         /\ Holds(i)' /\ SameStack(depot[i], s)' /\ Holds(j)' /\ SameStack(depot[j], s)'
         /\ maker[i] = maker[j]
         => i = j
  BY <1>6
<1>. QED
  BY <1>3, <1>4, <1>7, <1>8, <1>9, <1>10 DEF MakersHold, Spot

(* A call that goes on with its walk keeps to what its walk has seen.       *)
LEMMA WalkOn ==
    ASSUME NEW maker, MakersHold(maker), NEW t \in Interners,
           UNCHANGED <<depot, frames, chunkMade>>,
           \A u \in Interners \ {t} : interning'[u] = interning[u],
           interning'[t].step = "look",
           \A i \in Ids, s \in CallStacks, q \in Nat :
              s = interning'[t].stack /\ q < interning'[t].probe /\ i = Spot(s, q) =>
                 /\ depot[i].state # "empty"
                 /\ ~ (Holds(i) /\ SameStack(depot[i], s) /\ maker[i] = t)
    PROVE  MakersHold(maker)'
<1>1. \A i \in Ids : (Holds(i)' <=> Holds(i)) /\ depot'[i] = depot[i]
  BY DEF Holds
<1>2. \A i \in Ids, s \in CallStacks : SameStack(depot[i], s)' <=> SameStack(depot[i], s)
  BY DEF SameStack
<1>3. maker \in [Ids -> Interners]
  BY DEF MakersHold
<1>4. \A u \in Interners : interning'[u].step \in Filling =>
                             u # t /\ interning'[u] = interning[u]
  BY DEF Filling
<1>5. \A u \in Interners : interning'[u].step \in Filling => maker[interning'[u].id] = u
  BY <1>4 DEF MakersHold
<1>6. ASSUME NEW u \in Interners, NEW i \in Ids, NEW s \in CallStacks, NEW q \in Nat,
             interning'[u].step # "rest", s = interning'[u].stack,
             q < interning'[u].probe, i = Spot(s, q)
      PROVE  /\ depot'[i].state # "empty"
             /\ ~ (Holds(i)' /\ SameStack(depot[i], s)' /\ maker[i] = u)
  <2>1. depot[i].state # "empty" /\ ~ (Holds(i) /\ SameStack(depot[i], s) /\ maker[i] = u)
    <3>1. CASE u = t
      BY <1>6, <3>1
    <3>2. CASE u # t
      <4>1. interning[u].step # "rest" /\ s = interning[u].stack /\ q < interning[u].probe
        BY <1>6, <3>2
      <4>. QED
        BY <1>6, <4>1 DEF MakersHold
    <3>. QED
      BY <3>1, <3>2
  <2>. QED
    BY <1>1, <1>2, <2>1
<1>7. \A u \in Interners, i \in Ids, s \in CallStacks :
         interning'[u].step \in Filling /\ s = interning'[u].stack =>
            ~ (Holds(i)' /\ SameStack(depot[i], s)' /\ maker[i] = u)
  <2>1. \A u \in Interners, i \in Ids, s \in CallStacks :
         interning[u].step \in Filling /\ s = interning[u].stack =>
            ~ (Holds(i) /\ SameStack(depot[i], s) /\ maker[i] = u)
    BY DEF MakersHold
  <2>. QED
    BY <1>1, <1>2, <1>4, <2>1
<1>8. \A i \in Ids, s \in CallStacks : Holds(i)' /\ SameStack(depot[i], s)' =>
         \E p \in Nat : /\ i = Spot(s, p)
                        /\ \A q \in 0 .. p - 1 : depot'[Spot(s, q)].state # "empty"
  <2>1. \A i \in Ids, s \in CallStacks : Holds(i) /\ SameStack(depot[i], s) =>
         \E p \in Nat : /\ i = Spot(s, p)
                        /\ \A q \in 0 .. p - 1 : depot[Spot(s, q)].state # "empty"
    BY DEF MakersHold
  <2>. QED
    BY <1>1, <1>2, <2>1
<1>9. \A i, j \in Ids, s \in CallStacks :
         /\ Holds(i)' /\ SameStack(depot[i], s)' /\ Holds(j)' /\ SameStack(depot[j], s)'
         /\ maker[i] = maker[j]
         => i = j
  <2>1. \A i, j \in Ids, s \in CallStacks :
         /\ Holds(i) /\ SameStack(depot[i], s) /\ Holds(j) /\ SameStack(depot[j], s)
         /\ maker[i] = maker[j]
         => i = j
    BY DEF MakersHold
  <2>. QED
    BY <1>1, <1>2, <2>1
<1>. QED
  BY <1>3, <1>5, <1>6, <1>7, <1>8, <1>9 DEF MakersHold, Spot

LEMMA BeginMakers ==
    ASSUME Orderly, NEW maker, MakersHold(maker), NEW t \in Interners, NEW s \in CallStacks,
           InternBegin(t, s)
    PROVE  MakersHold(maker)'
<1>1. interning \in [Interners -> InternCall]
  BY DEF Orderly, DepotTypes
<1>2. UNCHANGED <<depot, frames, chunkMade>>
  BY DEF InternBegin, pool
<1>3. /\ interning'[t].step = "look" /\ interning'[t].probe = 0
      /\ \A u \in Interners \ {t} : interning'[u] = interning[u]
  BY <1>1, AtRestIs DEF InternBegin
<1>4. \A q \in Nat : ~ (q < interning'[t].probe)
  BY <1>3
<1>. QED
  BY <1>2, <1>3, <1>4, WalkOn

(* Past an entry that is another's, or is being filled.                     *)
LEMMA OnMakers ==
    ASSUME Orderly, NEW maker, MakersHold(maker), NEW t \in Interners, InternNext(t),
           interning[t].probe + 1 < DepotProbe
    PROVE  MakersHold(maker)'
<1>1. interning \in [Interners -> InternCall]
  BY DEF Orderly, DepotTypes
<1>2. UNCHANGED <<depot, frames, chunkMade>>
  BY DEF InternNext, pool
<1>3. /\ interning[t].step = "look" /\ interning[t].probe \in Nat
      /\ interning[t].id = Spot(interning[t].stack, interning[t].probe)
  BY CallFacts DEF InternNext
<1>4. /\ interning'[t].step = "look" /\ interning'[t].probe = interning[t].probe + 1
      /\ interning'[t].stack = interning[t].stack
      /\ \A u \in Interners \ {t} : interning'[u] = interning[u]
  BY <1>1, <1>3 DEF InternNext, InternCall
<1>5. \/ depot[interning[t].id].state = "claiming"
      \/ /\ depot[interning[t].id].state = "ready"
         /\ ~ SameStack(depot[interning[t].id], interning[t].stack)
  BY DEF InternNext
<1>6. ASSUME NEW i \in Ids, NEW s \in CallStacks, NEW q \in Nat,
             s = interning'[t].stack, q < interning'[t].probe, i = Spot(s, q)
      PROVE  /\ depot[i].state # "empty"
             /\ ~ (Holds(i) /\ SameStack(depot[i], s) /\ maker[i] = t)
  <2>1. CASE q < interning[t].probe
    BY <1>3, <1>4, <1>6, <2>1 DEF MakersHold
  <2>2. CASE q = interning[t].probe
    <3>1. i = interning[t].id
      BY <1>3, <1>4, <1>6, <2>2
    <3>. QED
      BY <1>4, <1>5, <1>6, <3>1 DEF Holds
  <2>. QED
    BY <1>3, <1>4, <1>6, <2>1, <2>2
<1>. QED
  BY <1>2, <1>4, <1>6, WalkOn

(* Whoever claims has not made the stack's entry yet: it would have met it. *)
LEMMA WinMakers ==
    ASSUME Orderly, NEW maker, MakersHold(maker), NEW t \in Interners, InternClaim(t),
           depot[interning[t].id].state = "empty"
    PROVE  \E m \in [Ids -> Interners] : MakersHold(m)'
<1>0. DepotTypes /\ CallsApart /\ EntriesWhole
  BY DEF Orderly
<1>1. PICK h : h = interning[t].id
  OBVIOUS
<1>2. PICK m : m = [maker EXCEPT ![h] = t]
  OBVIOUS
<1>3. /\ h \in Ids /\ interning[t].step = "claim" /\ interning[t].stack \in CallStacks
      /\ h = Spot(interning[t].stack, interning[t].probe) /\ interning[t].probe \in Nat
      /\ depot[h].state = "empty"
  BY <1>1, CallFacts DEF InternClaim
<1>4. maker \in [Ids -> Interners]
  BY DEF MakersHold
<1>5. m \in [Ids -> Interners] /\ m[h] = t /\ \A i \in Ids \ {h} : m[i] = maker[i]
  BY <1>2, <1>3, <1>4
<1>6. /\ depot'[h].state = "claiming" /\ \A i \in Ids \ {h} : depot'[i] = depot[i]
      /\ frames' = frames /\ chunkMade' = chunkMade
  BY <1>0, <1>1, <1>3 DEF InternClaim, DepotTypes, DepotEntry, pool
<1>7. /\ \A u \in Interners \ {t} : interning'[u] = interning[u]
      /\ interning'[t].step = "reserve" /\ interning'[t].id = h
      /\ interning'[t].stack = interning[t].stack /\ interning'[t].probe = interning[t].probe
  <2>1. interning \in [Interners -> InternCall] /\ interning[t] \in InternCall
    BY <1>0 DEF DepotTypes
  <2>2. interning' = [interning EXCEPT ![t].step = "reserve", ![t].used = poolUsed]
    BY <1>1, <1>3 DEF InternClaim
  <2>. QED
    BY <1>1, <2>1, <2>2 DEF InternCall
<1>8. \A i \in Ids : /\ (Holds(i)' <=> Holds(i)) /\ (Holds(i) => i # h)
                     /\ depot[i].state # "empty" => i # h /\ depot'[i].state # "empty"
  BY <1>3, <1>6 DEF Holds
<1>9. \A i \in Ids \ {h}, s \in CallStacks : SameStack(depot[i], s)' <=> SameStack(depot[i], s)
  BY <1>6 DEF SameStack
<1>10. \A i \in Ids, s \in CallStacks : Holds(i)' /\ SameStack(depot[i], s)' =>
          /\ Holds(i) /\ SameStack(depot[i], s) /\ i # h /\ m[i] = maker[i]
  BY <1>5, <1>8, <1>9
<1>11. \A u \in Interners : interning'[u].step \in Filling => m[interning'[u].id] = u
  <2>1. ASSUME NEW u \in Interners \ {t}, interning[u].step \in Filling
        PROVE  m[interning[u].id] = u
    <3>1. interning[u].id \in Ids \ {h} /\ maker[interning[u].id] = u
      BY <1>0, <1>3, <2>1 DEF CallsApart, Filling, MakersHold
    <3>. QED
      BY <1>5, <3>1
  <2>. QED
    BY <1>5, <1>7, <2>1
<1>12. \A i \in Ids, s \in CallStacks : Holds(i)' /\ SameStack(depot[i], s)' =>
         \E p \in Nat : /\ i = Spot(s, p)
                        /\ \A q \in 0 .. p - 1 : depot'[Spot(s, q)].state # "empty"
  <2>1. ASSUME NEW i \in Ids, NEW s \in CallStacks, Holds(i)', SameStack(depot[i], s)'
        PROVE  \E p \in Nat : /\ i = Spot(s, p)
                              /\ \A q \in 0 .. p - 1 : depot'[Spot(s, q)].state # "empty"
    <3>1. Holds(i) /\ SameStack(depot[i], s)
      BY <1>10, <2>1
    <3>2. PICK p \in Nat :
            i = Spot(s, p) /\ \A q \in 0 .. p - 1 : depot[Spot(s, q)].state # "empty"
      BY <3>1 DEF MakersHold
    <3>3. \A q \in 0 .. p - 1 : Spot(s, q) \in Ids
      BY SpotIn
    <3>. QED
      BY <1>8, <3>2, <3>3
  <2>. QED
    BY <2>1
<1>13. \A i, j \in Ids, s \in CallStacks :
         /\ Holds(i)' /\ SameStack(depot[i], s)' /\ Holds(j)' /\ SameStack(depot[j], s)'
         /\ m[i] = m[j]
         => i = j
  BY <1>10 DEF MakersHold
<1>14. ASSUME NEW u \in Interners, NEW i \in Ids, NEW s \in CallStacks, NEW q \in Nat,
              interning'[u].step # "rest", s = interning'[u].stack,
              q < interning'[u].probe, i = Spot(s, q)
       PROVE  /\ depot'[i].state # "empty"
              /\ ~ (Holds(i)' /\ SameStack(depot[i], s)' /\ m[i] = u)
  <2>1. interning[u].step # "rest" /\ s = interning[u].stack /\ q < interning[u].probe
    BY <1>3, <1>7, <1>14
  <2>2. depot[i].state # "empty" /\ ~ (Holds(i) /\ SameStack(depot[i], s) /\ maker[i] = u)
    BY <1>14, <2>1 DEF MakersHold
  <2>. QED
    BY <1>8, <1>10, <2>2
<1>15. ASSUME NEW i \in Ids, Holds(i), SameStack(depot[i], interning[t].stack), maker[i] = t
       PROVE  FALSE
  <2>1. PICK p \in Nat : /\ i = Spot(interning[t].stack, p)
                         /\ \A q \in 0 .. p - 1 : depot[Spot(interning[t].stack, q)].state # "empty"
    BY <1>3, <1>15 DEF MakersHold
  <2>2. CASE p < interning[t].probe
    BY <1>3, <1>15, <2>1, <2>2 DEF MakersHold
  <2>3. CASE p = interning[t].probe
    BY <1>3, <1>15, <2>1, <2>3 DEF Holds
  <2>4. CASE p > interning[t].probe
    <3>1. interning[t].probe \in 0 .. p - 1
      BY <1>3, <2>4
    <3>. QED
      BY <1>3, <2>1, <3>1
  <2>. QED
    BY <1>3, <2>2, <2>3, <2>4
<1>16. ASSUME NEW u \in Interners, NEW i \in Ids, NEW s \in CallStacks,
              interning'[u].step \in Filling, s = interning'[u].stack,
              Holds(i)', SameStack(depot[i], s)', m[i] = u
       PROVE  FALSE
  <2>1. Holds(i) /\ SameStack(depot[i], s) /\ maker[i] = u
    BY <1>10, <1>16
  <2>2. CASE u = t
    BY <1>7, <1>15, <1>16, <2>1, <2>2
  <2>3. CASE u # t
    BY <1>7, <1>16, <2>1, <2>3 DEF MakersHold
  <2>. QED
    BY <2>2, <2>3
<1>17. MakersHold(m)'
  BY <1>5, <1>11, <1>12, <1>13, <1>14, <1>16 DEF MakersHold, Spot
<1>. QED
  BY <1>5, <1>17

(* A new entry is the first of its maker for its stack.                     *)
LEMMA ReadyMakers ==
    ASSUME Orderly, NEW maker, MakersHold(maker), NEW t \in Interners, InternReady(t)
    PROVE  MakersHold(maker)'
<1>1. PICK h : h = interning[t].id
  OBVIOUS
<1>2. PICK s0 : s0 = interning[t].stack
  OBVIOUS
<1>3. /\ h \in Ids /\ interning[t].step = "ready" /\ s0 \in CallStacks
      /\ h = Spot(s0, interning[t].probe) /\ interning[t].probe \in Nat
  BY <1>1, <1>2, CallFacts DEF InternReady
<1>4. /\ \A i \in Ids \ {h} :
            /\ Holds(i)' <=> Holds(i)
            /\ Holds(i) => \A s \in CallStacks :
                              SameStack(depot[i], s)' <=> SameStack(depot[i], s)
      /\ ~ Holds(h) /\ (Holds(h)' => SameStack(depot[h], s0)')
      /\ interning'[t] = AtRest
      /\ \A u \in Interners \ {t} : interning'[u] = interning[u]
      /\ depot'[h].state = "ready" /\ \A i \in Ids \ {h} : depot'[i] = depot[i]
  BY <1>1, <1>2, ReadyStep
<1>5. \A u \in Interners : interning'[u].step # "rest" => u # t /\ interning'[u] = interning[u]
  BY <1>4, AtRestIs
<1>6. \A i \in Ids : depot[i].state # "empty" => depot'[i].state # "empty"
  BY <1>4
<1>7. maker \in [Ids -> Interners] /\ maker[h] = t
  BY <1>1, <1>3 DEF MakersHold, Filling
<1>8. ASSUME NEW s \in CallStacks, Holds(h)', SameStack(depot[h], s)'
      PROVE  s = s0
  <2>1. SameStack(depot[h], s0)'
    BY <1>4, <1>8
  <2>2. depot'[h].n = Depth[s0] /\ 0 \in 0 .. Depth[s0] - 1
    BY <1>3, <2>1, DepotConstants DEF SameStack
  <2>3. /\ frames'[depot'[h].first + 0] = <<s0, 0>>
        /\ frames'[depot'[h].first + 0] = <<s, 0>>
    BY <1>8, <2>1, <2>2 DEF SameStack
  <2>. QED
    BY <2>3
<1>9. \A i \in Ids, s \in CallStacks : Holds(i)' /\ SameStack(depot[i], s)' =>
         \/ i = h /\ s = s0
         \/ i # h /\ Holds(i) /\ SameStack(depot[i], s)
  BY <1>4, <1>8
<1>10. ASSUME NEW i \in Ids, Holds(i), SameStack(depot[i], s0), maker[i] = t
       PROVE  FALSE
  BY <1>2, <1>3, <1>10 DEF MakersHold, Filling
<1>11. \A u \in Interners : interning'[u].step \in Filling => maker[interning'[u].id] = u
  <2>1. \A u \in Interners : interning'[u].step \in Filling =>
           interning'[u] = interning[u]
    BY <1>5 DEF Filling
  <2>. QED
    BY <2>1 DEF MakersHold
<1>12. ASSUME NEW i \in Ids, NEW s \in CallStacks, Holds(i)', SameStack(depot[i], s)'
       PROVE  \E p \in Nat : /\ i = Spot(s, p)
                             /\ \A q \in 0 .. p - 1 : depot'[Spot(s, q)].state # "empty"
  <2>1. \E p \in Nat : /\ i = Spot(s, p)
                       /\ \A q \in 0 .. p - 1 : depot[Spot(s, q)].state # "empty"
    <3>1. CASE i = h /\ s = s0
      <4>1. ASSUME NEW q \in 0 .. interning[t].probe - 1
            PROVE  depot[Spot(s0, q)].state # "empty"
        <5>1. q \in Nat /\ q < interning[t].probe /\ Spot(s0, q) \in Ids
          BY <1>3, SpotIn
        <5>. QED
          BY <1>2, <1>3, <5>1 DEF MakersHold
      <4>. QED
        BY <1>3, <3>1, <4>1
    <3>2. CASE Holds(i) /\ SameStack(depot[i], s)
      BY <3>2 DEF MakersHold
    <3>. QED
      BY <1>9, <1>12, <3>1, <3>2
  <2>2. PICK p \in Nat : i = Spot(s, p) /\ \A q \in 0 .. p - 1 : depot[Spot(s, q)].state # "empty"
    BY <2>1
  <2>3. \A q \in 0 .. p - 1 : Spot(s, q) \in Ids
    BY SpotIn
  <2>. QED
    BY <1>6, <2>2, <2>3
<1>13. ASSUME NEW i \in Ids, NEW j \in Ids, NEW s \in CallStacks, Holds(i)', Holds(j)',
              SameStack(depot[i], s)', SameStack(depot[j], s)', maker[i] = maker[j]
       PROVE  i = j
  <2>1. /\ (i = h /\ s = s0) \/ (Holds(i) /\ SameStack(depot[i], s))
        /\ (j = h /\ s = s0) \/ (Holds(j) /\ SameStack(depot[j], s))
    BY <1>9, <1>13
  <2>2. CASE i # h /\ j # h
    <3>1. Holds(i) /\ SameStack(depot[i], s) /\ Holds(j) /\ SameStack(depot[j], s)
      BY <2>1, <2>2
    <3>. QED
      BY <1>13, <3>1 DEF MakersHold
  <2>3. CASE i = h /\ j # h
    BY <1>7, <1>8, <1>10, <1>13, <2>1, <2>3
  <2>4. CASE i # h /\ j = h
    BY <1>7, <1>8, <1>10, <1>13, <2>1, <2>4
  <2>. QED
    BY <2>2, <2>3, <2>4
<1>14. ASSUME NEW u \in Interners, NEW i \in Ids, NEW s \in CallStacks, NEW q \in Nat,
              interning'[u].step # "rest", s = interning'[u].stack,
              q < interning'[u].probe, i = Spot(s, q)
       PROVE  /\ depot'[i].state # "empty"
              /\ ~ (Holds(i)' /\ SameStack(depot[i], s)' /\ maker[i] = u)
  <2>1. u # t /\ interning[u].step # "rest" /\ s = interning[u].stack /\ q < interning[u].probe
    BY <1>5, <1>14
  <2>2. depot[i].state # "empty" /\ ~ (Holds(i) /\ SameStack(depot[i], s) /\ maker[i] = u)
    BY <1>14, <2>1 DEF MakersHold
  <2>. QED
    BY <1>6, <1>7, <1>9, <2>1, <2>2
<1>15. ASSUME NEW u \in Interners, NEW i \in Ids, NEW s \in CallStacks,
              interning'[u].step \in Filling, s = interning'[u].stack,
              Holds(i)', SameStack(depot[i], s)', maker[i] = u
       PROVE  FALSE
  <2>1. u # t /\ interning[u].step \in Filling /\ s = interning[u].stack
    BY <1>5, <1>15 DEF Filling
  <2>2. Holds(i) /\ SameStack(depot[i], s)
    BY <1>7, <1>9, <1>15, <2>1
  <2>. QED
    BY <1>15, <2>1, <2>2 DEF MakersHold
<1>. QED
  BY <1>7, <1>11, <1>12, <1>13, <1>14, <1>15 DEF MakersHold, Spot

LEMMA QuietMakers ==
    ASSUME Orderly, Orderly', NEW maker, MakersHold(maker), NEW t \in Interners,
           UNCHANGED <<depot, frames, chunkMade>>,
           \A u \in Interners \ {t} : interning'[u] = interning[u],
           \/ interning'[t].step = "rest"
           \/ /\ interning[t].step # "rest" /\ interning'[t].id = interning[t].id
              /\ interning'[t].stack = interning[t].stack
              /\ interning'[t].probe = interning[t].probe
              /\ interning'[t].step \in Filling => interning[t].step \in Filling
    PROVE  MakersHold(maker)'
<1>1. \A i \in Ids : (Holds(i)' <=> Holds(i)) /\ depot'[i] = depot[i]
  BY DEF Holds
<1>2. \A i \in Ids, s \in CallStacks : SameStack(depot[i], s)' <=> SameStack(depot[i], s)
  BY DEF SameStack
<1>3. DepotTypes /\ CallsApart /\ DepotTypes' /\ CallsApart'
  BY DEF Orderly
<1>4. \A i \in Ids : depot[i].state # "empty" => depot'[i].state # "empty"
  BY <1>1
<1>. QED
  BY <1>1, <1>2, <1>3, <1>4, MakersStay

LEMMA MadeMakers ==
    ASSUME Orderly, Orderly', NEW maker, MakersHold(maker), NEW t \in Interners,
           ChunkPublish(t), interning[t].start \div PoolChunk \notin chunkMade
    PROVE  MakersHold(maker)'
<1>1. FramesKept(t)
  BY MadeKeeps
<1>2. depot' = depot /\ interning \in [Interners -> InternCall]
  BY DEF ChunkPublish, Orderly, DepotTypes
<1>3. \A i \in Ids : (Holds(i)' <=> Holds(i))
  BY <1>2 DEF Holds
<1>4. \A i \in Ids : Holds(i) => \A s \in CallStacks :
          SameStack(depot[i], s)' <=> SameStack(depot[i], s)
  BY <1>1, StackStays DEF FramesKept
<1>5. /\ \A u \in Interners \ {t} : interning'[u] = interning[u]
      /\ interning[t].step = "publish" /\ interning'[t].id = interning[t].id
      /\ interning'[t].stack = interning[t].stack
      /\ interning'[t].probe = interning[t].probe
  BY <1>2 DEF ChunkPublish, InternCall
<1>6. DepotTypes /\ CallsApart /\ DepotTypes' /\ CallsApart'
  BY DEF Orderly
<1>7. interning[t].step \in Filling /\ interning[t].step # "rest"
  BY <1>5 DEF Filling
<1>8. \A i \in Ids : depot[i].state # "empty" => depot'[i].state # "empty"
  BY <1>2
<1>. QED
  BY <1>3, <1>4, <1>5, <1>6, <1>7, <1>8, MakersStay

LEMMA WriteMakers ==
    ASSUME Orderly, Orderly', NEW maker, MakersHold(maker), NEW t \in Interners,
           InternWrite(t)
    PROVE  MakersHold(maker)'
<1>1. FramesKept(t)
  BY WriteKeeps
<1>2. interning \in [Interners -> InternCall] /\ depot \in [Ids -> DepotEntry]
  BY DEF Orderly, DepotTypes
<1>5. /\ \A u \in Interners \ {t} : interning'[u] = interning[u]
      /\ interning[t].step = "write" /\ interning'[t].id = interning[t].id
      /\ interning'[t].stack = interning[t].stack
      /\ interning'[t].probe = interning[t].probe
  BY <1>2 DEF InternWrite, InternCall
<1>6. DepotTypes /\ CallsApart /\ DepotTypes' /\ CallsApart'
  BY DEF Orderly
<1>7. interning[t].step \in Filling /\ interning[t].step # "rest" /\ interning[t].id \in Ids
      /\ depot[interning[t].id].state = "claiming"
  BY <1>5, <1>6 DEF Filling, CallsApart
<1>8. /\ depot'[interning[t].id].state = "claiming"
      /\ \A i \in Ids : i # interning[t].id => depot'[i] = depot[i]
  <2>1. PICK h \in Ids : h = interning[t].id
    BY <1>7
  <2>2. depot[h].state = "claiming" /\ depot[h] \in DepotEntry
    BY <1>2, <1>7, <2>1
  <2>. QED
    BY <1>2, <2>1, <2>2 DEF InternWrite, DepotEntry
<1>3. \A i \in Ids : Holds(i)' <=> Holds(i)
  BY <1>7, <1>8 DEF Holds
<1>4. \A i \in Ids : Holds(i) => \A s \in CallStacks :
          SameStack(depot[i], s)' <=> SameStack(depot[i], s)
  BY <1>1, StackStays DEF FramesKept
<1>9. \A i \in Ids : depot[i].state # "empty" => depot'[i].state # "empty"
  BY <1>8
<1>. QED
  BY <1>3, <1>4, <1>5, <1>6, <1>7, <1>9, MakersStay

\* The calls that have a chunk in hand to publish.
Publishing(c) == {t \in Interners : interning[t].step = "publish"
                                    /\ interning[t].start \div PoolChunk = c}

LEMMA CountsAre ==
    OneChunkEach <=> \A c \in DOMAIN chunkMem :
        chunkMem[c] = (IF c \in chunkMade THEN 1 ELSE 0) + Cardinality(Publishing(c))
BY DEF OneChunkEach, Publishing

LEMMA PublishingFinite ==
    /\ \A c : IsFiniteSet(Publishing(c)) /\ Cardinality(Publishing(c)) \in Nat
    /\ \A c : IsFiniteSet(Publishing(c)') /\ Cardinality(Publishing(c)') \in Nat
<1>1. ASSUME NEW S \in SUBSET Interners PROVE IsFiniteSet(S) /\ Cardinality(S) \in Nat
  BY DepotConstants, FS_Subset, FS_CardinalityType
<1>2. \A c : Publishing(c) \in SUBSET Interners /\ Publishing(c)' \in SUBSET Interners
  BY DEF Publishing
<1>. QED
  BY <1>1, <1>2

LEMMA CountsStay ==
    ASSUME OneChunkEach, NEW t \in Interners, UNCHANGED <<chunkMem, chunkMade>>,
           \A u \in Interners \ {t} : interning'[u] = interning[u],
           interning[t].step # "publish", interning'[t].step # "publish"
    PROVE  OneChunkEach'
<1>1. \A c : Publishing(c)' = Publishing(c)
  BY DEF Publishing
<1>. QED
  BY <1>1, CountsAre DEF OneChunkEach, Publishing

LEMMA GrantedCounts ==
    ASSUME Orderly, OneChunkEach, NEW t \in Interners, ChunkGranted(t)
    PROVE  OneChunkEach'
<1>1. PICK c : c = interning[t].start \div PoolChunk
  OBVIOUS
<1>2. interning \in [Interners -> InternCall] /\ chunkMem \in [0 .. PoolChunks - 1 -> Int]
  BY DEF Orderly, DepotTypes
<1>3. /\ interning[t].step = "chunk" /\ interning'[t].step = "publish"
      /\ interning'[t].start = interning[t].start /\ chunkMade' = chunkMade
      /\ \A u \in Interners \ {t} : interning'[u] = interning[u]
      /\ chunkMem' = [chunkMem EXCEPT ![c] = chunkMem[c] + 1]
  BY <1>1, <1>2 DEF ChunkGranted, InternCall
<1>4. /\ Publishing(c)' = Publishing(c) \cup {t} /\ t \notin Publishing(c)
      /\ \A d : d # c => Publishing(d)' = Publishing(d)
  BY <1>1, <1>3 DEF Publishing
<1>5. Cardinality(Publishing(c)') = Cardinality(Publishing(c)) + 1
  BY <1>4, PublishingFinite, FS_AddElement
<1>6. ASSUME NEW d \in DOMAIN chunkMem
      PROVE  chunkMem'[d] = (IF d \in chunkMade THEN 1 ELSE 0) + Cardinality(Publishing(d)')
  <2>1. chunkMem[d] = (IF d \in chunkMade THEN 1 ELSE 0) + Cardinality(Publishing(d))
    BY CountsAre
  <2>2. Cardinality(Publishing(d)) \in Nat
    BY PublishingFinite
  <2>3. CASE d = c
    BY <1>3, <1>5, <2>1, <2>2, <2>3
  <2>4. CASE d # c
    BY <1>3, <1>4, <2>1, <2>4
  <2>. QED
    BY <2>3, <2>4
<1>7. DOMAIN chunkMem' = DOMAIN chunkMem
  BY <1>3
<1>. QED
  BY <1>3, <1>6, <1>7 DEF OneChunkEach, Publishing

LEMMA PublishCounts ==
    ASSUME Orderly, OneChunkEach, NEW t \in Interners, ChunkPublish(t)
    PROVE  OneChunkEach'
<1>1. PICK c : c = interning[t].start \div PoolChunk
  OBVIOUS
<1>2. interning \in [Interners -> InternCall] /\ chunkMem \in [0 .. PoolChunks - 1 -> Int]
  BY DEF Orderly, DepotTypes
<1>3. /\ interning[t].step = "publish" /\ interning'[t].step = "write"
      /\ interning'[t].start = interning[t].start
      /\ \A u \in Interners \ {t} : interning'[u] = interning[u]
  BY <1>1, <1>2 DEF ChunkPublish, InternCall
<1>4. /\ Publishing(c)' = Publishing(c) \ {t} /\ t \in Publishing(c)
      /\ \A d : d # c => Publishing(d)' = Publishing(d)
  BY <1>1, <1>3 DEF Publishing
<1>5. Cardinality(Publishing(c)') = Cardinality(Publishing(c)) - 1
  BY <1>4, PublishingFinite, FS_RemoveElement
<1>6. \/ /\ c \in chunkMade /\ chunkMem' = [chunkMem EXCEPT ![c] = chunkMem[c] - 1]
         /\ chunkMade' = chunkMade
      \/ c \notin chunkMade /\ chunkMade' = chunkMade \cup {c} /\ chunkMem' = chunkMem
  BY <1>1 DEF ChunkPublish
<1>7. ASSUME NEW d \in DOMAIN chunkMem
      PROVE  chunkMem'[d] = (IF d \in chunkMade' THEN 1 ELSE 0) + Cardinality(Publishing(d)')
  <2>1. chunkMem[d] = (IF d \in chunkMade THEN 1 ELSE 0) + Cardinality(Publishing(d))
    BY CountsAre
  <2>2. Cardinality(Publishing(d)) \in Nat
    BY PublishingFinite
  <2>3. CASE d = c
    BY <1>5, <1>6, <2>1, <2>2, <2>3
  <2>4. CASE d # c
    BY <1>4, <1>6, <2>1, <2>4
  <2>. QED
    BY <2>3, <2>4
<1>8. DOMAIN chunkMem' = DOMAIN chunkMem
  BY <1>6
<1>. QED
  BY <1>7, <1>8 DEF OneChunkEach, Publishing

(* Copies of a stack have different makers.                                 *)
LEMMA CopiesFew ==
    ASSUME NEW maker, MakersHold(maker)
    PROVE  FewCopies
<1>1. SUFFICES ASSUME NEW s \in CallStacks
               PROVE  Cardinality({i \in Ids : depot[i].state = "ready" /\ depot[i].n > 0
                                               /\ SameStack(depot[i], s)})
                        <= Cardinality(Interners)
  BY DEF FewCopies
<1>. DEFINE copies == {i \in Ids : depot[i].state = "ready" /\ depot[i].n > 0
                                   /\ SameStack(depot[i], s)}
            by == [i \in copies |-> maker[i]]
<1>2. by \in [copies -> Interners]
  BY DEF MakersHold
<1>3. \A i, j \in copies : by[i] = by[j] => i = j
  BY DEF MakersHold, Holds
<1>4. by \in Injection(copies, Interners)
  BY <1>2, <1>3, Zenon DEF Injection, IsInjective
<1>. QED
  BY <1>4, DepotConstants, FS_Injection

LEMMA DepotStart == DepotInit => DepotInv
<1>. SUFFICES ASSUME DepotInit PROVE DepotInv
  OBVIOUS
<1>. USE DepotConstants, AtRestIs DEF DepotInit
<1>1. \A t \in Interners : interning[t] = AtRest /\ interning[t].step = "rest"
  OBVIOUS
<1>2. \A i \in Ids : depot[i] = Unclaimed /\ depot[i].state = "empty"
  BY DEF Unclaimed
<1>3. DepotTypes
  <2>1. AtRest \in InternCall
    BY DEF InternCall
  <2>2. Unclaimed \in DepotEntry
    BY DEF Unclaimed, DepotEntry
  <2>3. PoolChunks - 1 \in Int
    OBVIOUS
  <2>. QED
    BY <2>1, <2>2, <2>3 DEF DepotTypes
<1>4. CallsApart /\ ChunksThere /\ FramesInHand
  BY <1>1 DEF CallsApart, ChunksThere, FramesInHand, Filling
<1>5. FramesApart
  BY <1>1, <1>2 DEF FramesApart, Placed, Holds
<1>6. EntriesWhole
  BY <1>1, <1>2 DEF EntriesWhole, Filling
<1>7. IdNamesItsStack
  BY DEF IdNamesItsStack
<1>8. OneChunkEach
  <2>1. \A c : Publishing(c) = {}
    BY <1>1 DEF Publishing
  <2>2. Cardinality({}) = 0
    BY FS_EmptySet
  <2>3. \A c \in DOMAIN chunkMem :
          chunkMem[c] = (IF c \in chunkMade THEN 1 ELSE 0) + Cardinality(Publishing(c))
    <3>1. \A c : Cardinality(Publishing(c)) = 0
      BY <2>1, <2>2, Zenon
    <3>2. chunkMade = {} /\ \A c \in DOMAIN chunkMem : chunkMem[c] = 0
      OBVIOUS
    <3>. QED
      BY <3>1, <3>2
  <2>. QED
    BY <2>3, CountsAre
<1>9. \E maker \in [Ids -> Interners] : MakersHold(maker)
  <2>1. PICK t : t \in Interners
    OBVIOUS
  <2>2. PICK maker : maker = [i \in Ids |-> t]
    OBVIOUS
  <2>3. maker \in [Ids -> Interners]
    BY <2>1, <2>2
  <2>4. \A i \in Ids : ~ Holds(i)
    BY <1>2 DEF Holds
  <2>5. MakersHold(maker)
    BY <1>1, <2>3, <2>4 DEF MakersHold, Filling
  <2>. QED
    BY <2>3, <2>5
<1>. QED
  BY <1>3, <1>4, <1>5, <1>6, <1>7, <1>8, <1>9 DEF DepotInv

LEMMA InvParts ==
    DepotInv <=> /\ Orderly /\ OneChunkEach
                 /\ \E maker \in [Ids -> Interners] : MakersHold(maker)
BY DEF DepotInv, Orderly

\* What is left to show of a step.
DepotAfter(t) == /\ Orderly' /\ OneChunkEach'
            /\ \A maker \in [Ids -> Interners] :
                  MakersHold(maker) => \E m \in [Ids -> Interners] : MakersHold(m)'

LEMMA QuietAfter ==
    ASSUME Orderly, OneChunkEach, NEW t \in Interners, NEW m, QuietMove(t, m),
           \/ UNCHANGED chunkMem /\ interning[t].step # "publish" /\ m.step # "publish"
           \/ OneChunkEach',
           \/ m.step = "rest"
           \/ /\ interning[t].step # "rest" /\ m.id = interning[t].id
              /\ m.stack = interning[t].stack /\ m.probe = interning[t].probe
              /\ m.step \in Filling => interning[t].step \in Filling
    PROVE  DepotAfter(t)
<1>1. Orderly'
  BY QuietStep
<1>2. /\ interning'[t] = m /\ \A u \in Interners \ {t} : interning'[u] = interning[u]
      /\ UNCHANGED <<depot, frames, chunkMade>>
  BY DEF QuietMove, Orderly, DepotTypes
<1>3. OneChunkEach'
  BY <1>2, CountsStay
<1>4. ASSUME NEW maker \in [Ids -> Interners], MakersHold(maker)
      PROVE  MakersHold(maker)'
  BY <1>1, <1>2, <1>4, QuietMakers
<1>. QED
  BY <1>1, <1>3, <1>4 DEF DepotAfter

LEMMA FoundAfter ==
    ASSUME Orderly, OneChunkEach, NEW t \in Interners, InternFound(t)
    PROVE  DepotAfter(t)
<1>1. PICK m : QuietMove(t, m)
  BY FoundQuiet
<1>2. interning'[t] = m /\ interning \in [Interners -> InternCall] /\ interning[t] \in InternCall
  BY <1>1 DEF QuietMove, Orderly, DepotTypes
<1>3. chunkMem' = chunkMem /\ interning[t].step # "publish" /\ m.step # "publish"
  BY <1>2, AtRestIs DEF InternFound, pool, InternCall
<1>4. \/ m.step = "rest"
      \/ /\ interning[t].step # "rest" /\ m.id = interning[t].id
         /\ m.stack = interning[t].stack /\ m.probe = interning[t].probe
         /\ m.step \in Filling => interning[t].step \in Filling
  BY <1>2, AtRestIs DEF InternFound, InternCall, Filling
<1>. QED
  BY <1>1, <1>3, <1>4, QuietAfter

LEMMA LeaveAfter ==
    ASSUME Orderly, OneChunkEach, NEW t \in Interners, InternNext(t),
           ~ (interning[t].probe + 1 < DepotProbe)
    PROVE  DepotAfter(t)
<1>1. PICK m : QuietMove(t, m)
  BY LeaveQuiet
<1>2. interning'[t] = m /\ interning \in [Interners -> InternCall] /\ interning[t] \in InternCall
  BY <1>1 DEF QuietMove, Orderly, DepotTypes
<1>3. chunkMem' = chunkMem /\ interning[t].step # "publish" /\ m.step # "publish"
  BY <1>2, AtRestIs DEF InternNext, pool, InternCall
<1>4. \/ m.step = "rest"
      \/ /\ interning[t].step # "rest" /\ m.id = interning[t].id
         /\ m.stack = interning[t].stack /\ m.probe = interning[t].probe
         /\ m.step \in Filling => interning[t].step \in Filling
  BY <1>2, AtRestIs DEF InternNext, InternCall, Filling
<1>. QED
  BY <1>1, <1>3, <1>4, QuietAfter

LEMMA EmptyAfter ==
    ASSUME Orderly, OneChunkEach, NEW t \in Interners, InternEmpty(t)
    PROVE  DepotAfter(t)
<1>1. PICK m : QuietMove(t, m)
  BY EmptyQuiet
<1>2. interning'[t] = m /\ interning \in [Interners -> InternCall] /\ interning[t] \in InternCall
  BY <1>1 DEF QuietMove, Orderly, DepotTypes
<1>3. chunkMem' = chunkMem /\ interning[t].step # "publish" /\ m.step # "publish"
  BY <1>2, AtRestIs DEF InternEmpty, pool, InternCall
<1>4. \/ m.step = "rest"
      \/ /\ interning[t].step # "rest" /\ m.id = interning[t].id
         /\ m.stack = interning[t].stack /\ m.probe = interning[t].probe
         /\ m.step \in Filling => interning[t].step \in Filling
  BY <1>2, AtRestIs DEF InternEmpty, InternCall, Filling
<1>. QED
  BY <1>1, <1>3, <1>4, QuietAfter

LEMMA LoseAfter ==
    ASSUME Orderly, OneChunkEach, NEW t \in Interners, InternClaim(t),
           depot[interning[t].id].state # "empty"
    PROVE  DepotAfter(t)
<1>1. PICK m : QuietMove(t, m)
  BY LoseQuiet
<1>2. interning'[t] = m /\ interning \in [Interners -> InternCall] /\ interning[t] \in InternCall
  BY <1>1 DEF QuietMove, Orderly, DepotTypes
<1>3. chunkMem' = chunkMem /\ interning[t].step # "publish" /\ m.step # "publish"
  BY <1>2, AtRestIs DEF InternClaim, pool, InternCall
<1>4. \/ m.step = "rest"
      \/ /\ interning[t].step # "rest" /\ m.id = interning[t].id
         /\ m.stack = interning[t].stack /\ m.probe = interning[t].probe
         /\ m.step \in Filling => interning[t].step \in Filling
  BY <1>2, AtRestIs DEF InternClaim, InternCall, Filling
<1>. QED
  BY <1>1, <1>3, <1>4, QuietAfter

LEMMA ThereAfter ==
    ASSUME Orderly, OneChunkEach, NEW t \in Interners, ChunkThere(t)
    PROVE  DepotAfter(t)
<1>1. PICK m : QuietMove(t, m)
  BY ThereQuiet
<1>2. interning'[t] = m /\ interning \in [Interners -> InternCall] /\ interning[t] \in InternCall
  BY <1>1 DEF QuietMove, Orderly, DepotTypes
<1>3. chunkMem' = chunkMem /\ interning[t].step # "publish" /\ m.step # "publish"
  BY <1>2, AtRestIs DEF ChunkThere, pool, InternCall
<1>4. \/ m.step = "rest"
      \/ /\ interning[t].step # "rest" /\ m.id = interning[t].id
         /\ m.stack = interning[t].stack /\ m.probe = interning[t].probe
         /\ m.step \in Filling => interning[t].step \in Filling
  BY <1>2, AtRestIs DEF ChunkThere, InternCall, Filling
<1>. QED
  BY <1>1, <1>3, <1>4, QuietAfter

LEMMA GrantedAfter ==
    ASSUME Orderly, OneChunkEach, NEW t \in Interners, ChunkGranted(t)
    PROVE  DepotAfter(t)
<1>1. PICK m : QuietMove(t, m)
  BY GrantedQuiet
<1>2. interning'[t] = m /\ interning \in [Interners -> InternCall] /\ interning[t] \in InternCall
  BY <1>1 DEF QuietMove, Orderly, DepotTypes
<1>3. OneChunkEach'
  BY GrantedCounts
<1>4. \/ m.step = "rest"
      \/ /\ interning[t].step # "rest" /\ m.id = interning[t].id
         /\ m.stack = interning[t].stack /\ m.probe = interning[t].probe
         /\ m.step \in Filling => interning[t].step \in Filling
  BY <1>2, AtRestIs DEF ChunkGranted, InternCall, Filling
<1>. QED
  BY <1>1, <1>3, <1>4, QuietAfter

LEMMA RefusedAfter ==
    ASSUME Orderly, OneChunkEach, NEW t \in Interners, ChunkRefused(t)
    PROVE  DepotAfter(t)
<1>1. PICK m : QuietMove(t, m)
  BY RefusedQuiet
<1>2. interning'[t] = m /\ interning \in [Interners -> InternCall] /\ interning[t] \in InternCall
  BY <1>1 DEF QuietMove, Orderly, DepotTypes
<1>3. chunkMem' = chunkMem /\ interning[t].step # "publish" /\ m.step # "publish"
  BY <1>2, AtRestIs DEF ChunkRefused, NoFrames, pool, InternCall
<1>4. \/ m.step = "rest"
      \/ /\ interning[t].step # "rest" /\ m.id = interning[t].id
         /\ m.stack = interning[t].stack /\ m.probe = interning[t].probe
         /\ m.step \in Filling => interning[t].step \in Filling
  BY <1>2, AtRestIs DEF ChunkRefused, NoFrames, InternCall, Filling
<1>. QED
  BY <1>1, <1>3, <1>4, QuietAfter

LEMMA FullAfter ==
    ASSUME Orderly, OneChunkEach, NEW t \in Interners, PoolReserve(t),
           Start(interning[t].used, Depth[interning[t].stack]) + Depth[interning[t].stack] > NoRoom
    PROVE  DepotAfter(t)
<1>1. PICK m : QuietMove(t, m)
  BY FullQuiet
<1>2. interning'[t] = m /\ interning \in [Interners -> InternCall] /\ interning[t] \in InternCall
  BY <1>1 DEF QuietMove, Orderly, DepotTypes
<1>3. chunkMem' = chunkMem /\ interning[t].step # "publish" /\ m.step # "publish"
  BY <1>2, AtRestIs DEF PoolReserve, NoFrames, pool, InternCall
<1>4. /\ interning[t].step # "rest" /\ m.id = interning[t].id
      /\ m.stack = interning[t].stack /\ m.probe = interning[t].probe
      /\ m.step \in Filling => interning[t].step \in Filling
  BY <1>2, AtRestIs DEF PoolReserve, NoFrames, InternCall, Filling
<1>. QED
  BY <1>1, <1>3, <1>4, QuietAfter

LEMMA AgainAfter ==
    ASSUME Orderly, OneChunkEach, NEW t \in Interners, PoolReserve(t), interning[t].used # poolUsed,
           ~ (Start(interning[t].used, Depth[interning[t].stack])
                + Depth[interning[t].stack] > NoRoom)
    PROVE  DepotAfter(t)
<1>1. PICK m : QuietMove(t, m)
  BY AgainQuiet
<1>2. interning'[t] = m /\ interning \in [Interners -> InternCall] /\ interning[t] \in InternCall
  BY <1>1 DEF QuietMove, Orderly, DepotTypes
<1>3. chunkMem' = chunkMem /\ interning[t].step # "publish" /\ m.step # "publish"
  BY <1>2, AtRestIs DEF PoolReserve, pool, InternCall
<1>4. /\ interning[t].step # "rest" /\ m.id = interning[t].id
      /\ m.stack = interning[t].stack /\ m.probe = interning[t].probe
      /\ m.step \in Filling => interning[t].step \in Filling
  BY <1>2, AtRestIs DEF PoolReserve, InternCall, Filling
<1>. QED
  BY <1>1, <1>3, <1>4, QuietAfter

LEMMA TakenAfter ==
    ASSUME Orderly, OneChunkEach, NEW t \in Interners, PoolReserve(t), interning[t].used = poolUsed,
           ~ (Start(interning[t].used, Depth[interning[t].stack])
                + Depth[interning[t].stack] > NoRoom)
    PROVE  DepotAfter(t)
<1>1. PICK m : QuietMove(t, m)
  BY TakenQuiet
<1>2. interning'[t] = m /\ interning \in [Interners -> InternCall] /\ interning[t] \in InternCall
  BY <1>1 DEF QuietMove, Orderly, DepotTypes
<1>3. chunkMem' = chunkMem /\ interning[t].step # "publish" /\ m.step # "publish"
  BY <1>2, AtRestIs DEF PoolReserve, pool, InternCall
<1>4. /\ interning[t].step # "rest" /\ m.id = interning[t].id
      /\ m.stack = interning[t].stack /\ m.probe = interning[t].probe
      /\ m.step \in Filling => interning[t].step \in Filling
  BY <1>2, AtRestIs DEF PoolReserve, InternCall, Filling
<1>. QED
  BY <1>1, <1>3, <1>4, QuietAfter

LEMMA PublishAfter ==
    ASSUME Orderly, OneChunkEach, NEW t \in Interners, ChunkPublish(t)
    PROVE  DepotAfter(t)
<1>0. OneChunkEach'
  BY PublishCounts
<1>a. CASE interning[t].start \div PoolChunk \in chunkMade
  <2>1. PICK m : QuietMove(t, m)
    BY <1>a, LateQuiet
  <2>2. interning'[t] = m /\ interning \in [Interners -> InternCall] /\ interning[t] \in InternCall
    BY <2>1 DEF QuietMove, Orderly, DepotTypes
  <2>3. /\ interning[t].step # "rest" /\ m.id = interning[t].id
        /\ m.stack = interning[t].stack /\ m.probe = interning[t].probe
        /\ m.step \in Filling => interning[t].step \in Filling
    BY <2>2 DEF ChunkPublish, InternCall, Filling
  <2>. QED
    BY <1>0, <2>1, <2>3, QuietAfter
<1>b. CASE interning[t].start \div PoolChunk \notin chunkMade
  <2>1. Orderly'
    BY <1>b, MadeStep
  <2>2. \A maker \in [Ids -> Interners] : MakersHold(maker) => MakersHold(maker)'
    BY <1>b, <2>1, MadeMakers
  <2>. QED
    BY <1>0, <2>1, <2>2 DEF DepotAfter
<1>. QED
  BY <1>a, <1>b

LEMMA WriteAfter ==
    ASSUME Orderly, OneChunkEach, NEW t \in Interners, InternWrite(t)
    PROVE  DepotAfter(t)
<1>1. Orderly'
  BY WriteStep
<1>2. \A maker \in [Ids -> Interners] : MakersHold(maker) => MakersHold(maker)'
  BY <1>1, WriteMakers
<1>3. interning \in [Interners -> InternCall]
  BY DEF Orderly, DepotTypes
<1>4. OneChunkEach'
  <2>1. /\ interning[t].step = "write" /\ interning'[t].step = "ready"
        /\ \A u \in Interners \ {t} : interning'[u] = interning[u]
        /\ UNCHANGED <<chunkMem, chunkMade>>
    BY <1>3 DEF InternWrite, InternCall
  <2>. QED
    BY <2>1, CountsStay
<1>. QED
  BY <1>1, <1>2, <1>4 DEF DepotAfter

LEMMA ReadyAfter ==
    ASSUME Orderly, OneChunkEach, NEW t \in Interners, InternReady(t)
    PROVE  DepotAfter(t)
<1>1. Orderly'
  BY ReadyStep
<1>2. \A maker \in [Ids -> Interners] : MakersHold(maker) => MakersHold(maker)'
  BY <1>1, ReadyMakers
<1>3. interning \in [Interners -> InternCall]
  BY DEF Orderly, DepotTypes
<1>4. OneChunkEach'
  <2>1. /\ interning[t].step = "ready" /\ interning'[t].step = "rest"
        /\ \A u \in Interners \ {t} : interning'[u] = interning[u]
        /\ UNCHANGED <<chunkMem, chunkMade>>
    BY <1>3, AtRestIs DEF InternReady, InternCall, pool
  <2>. QED
    BY <2>1, CountsStay
<1>. QED
  BY <1>1, <1>2, <1>4 DEF DepotAfter

LEMMA BeginAfter ==
    ASSUME Orderly, OneChunkEach, NEW t \in Interners, NEW s \in CallStacks,
           InternBegin(t, s)
    PROVE  DepotAfter(t)
<1>1. Orderly'
  BY BeginQuiet, QuietStep
<1>2. \A maker \in [Ids -> Interners] : MakersHold(maker) => MakersHold(maker)'
  BY BeginMakers
<1>3. interning \in [Interners -> InternCall]
  BY DEF Orderly, DepotTypes
<1>4. OneChunkEach'
  <2>1. /\ interning[t].step = "rest" /\ interning'[t].step = "look"
        /\ \A u \in Interners \ {t} : interning'[u] = interning[u]
        /\ UNCHANGED <<chunkMem, chunkMade>>
    BY <1>3, AtRestIs DEF InternBegin, pool
  <2>. QED
    BY <2>1, CountsStay
<1>. QED
  BY <1>1, <1>2, <1>4 DEF DepotAfter

LEMMA OnAfter ==
    ASSUME Orderly, OneChunkEach, NEW t \in Interners, InternNext(t)
    PROVE  DepotAfter(t)
<1>1. CASE ~ (interning[t].probe + 1 < DepotProbe)
  BY <1>1, LeaveAfter
<1>2. CASE interning[t].probe + 1 < DepotProbe
  <2>1. Orderly'
    BY <1>2, OnQuiet, QuietStep
  <2>2. \A maker \in [Ids -> Interners] : MakersHold(maker) => MakersHold(maker)'
    BY <1>2, OnMakers
  <2>3. interning \in [Interners -> InternCall]
    BY DEF Orderly, DepotTypes
  <2>4. OneChunkEach'
    <3>1. /\ interning[t].step = "look" /\ interning'[t].step = "look"
          /\ \A u \in Interners \ {t} : interning'[u] = interning[u]
          /\ UNCHANGED <<chunkMem, chunkMade>>
      BY <1>2, <2>3 DEF InternNext, pool, InternCall
    <3>. QED
      BY <3>1, CountsStay
  <2>. QED
    BY <2>1, <2>2, <2>4 DEF DepotAfter
<1>. QED
  BY <1>1, <1>2

LEMMA ClaimAfter ==
    ASSUME Orderly, OneChunkEach, NEW t \in Interners, InternClaim(t)
    PROVE  DepotAfter(t)
<1>1. CASE depot[interning[t].id].state # "empty"
  BY <1>1, LoseAfter
<1>2. CASE depot[interning[t].id].state = "empty"
  <2>1. Orderly'
    BY <1>2, WinStep
  <2>2. \A maker \in [Ids -> Interners] : MakersHold(maker) =>
           \E m \in [Ids -> Interners] : MakersHold(m)'
    BY <1>2, WinMakers
  <2>3. interning \in [Interners -> InternCall]
    BY DEF Orderly, DepotTypes
  <2>4. OneChunkEach'
    <3>1. /\ interning[t].step = "claim" /\ interning'[t].step = "reserve"
          /\ \A u \in Interners \ {t} : interning'[u] = interning[u]
          /\ UNCHANGED <<chunkMem, chunkMade>>
      BY <1>2, <2>3 DEF InternClaim, pool, InternCall
    <3>. QED
      BY <3>1, CountsStay
  <2>. QED
    BY <2>1, <2>2, <2>4 DEF DepotAfter
<1>. QED
  BY <1>1, <1>2

LEMMA DepotStep == DepotInv /\ [DepotNext]_depotVars => DepotInv'
<1>. SUFFICES ASSUME DepotInv, [DepotNext]_depotVars PROVE DepotInv'
  OBVIOUS
<1>0. Orderly /\ OneChunkEach
  BY InvParts
<1>m. PICK maker \in [Ids -> Interners] : MakersHold(maker)
  BY InvParts
<1>1. CASE DepotNext
  <2>1. PICK t \in Interners :
           \/ \E s \in CallStacks : InternBegin(t, s)
           \/ InternFound(t) \/ InternNext(t) \/ InternEmpty(t) \/ InternClaim(t)
           \/ PoolReserve(t)
           \/ ChunkThere(t) \/ ChunkGranted(t) \/ ChunkRefused(t) \/ ChunkPublish(t)
           \/ InternWrite(t) \/ InternReady(t)
    BY <1>1 DEF DepotNext
  <2>r. PoolReserve(t) => DepotAfter(t)
    BY <1>0, FullAfter, AgainAfter, TakenAfter
  <2>2. DepotAfter(t)
    BY <1>0, <2>1, <2>r, BeginAfter, FoundAfter, OnAfter, EmptyAfter, ClaimAfter, ThereAfter,
       GrantedAfter, RefusedAfter, PublishAfter, WriteAfter, ReadyAfter
  <2>3. Orderly' /\ OneChunkEach' /\ \E m \in [Ids -> Interners] : MakersHold(m)'
    BY <1>m, <2>2 DEF DepotAfter
  <2>. QED
    BY <2>3 DEF DepotInv, Orderly
<1>2. CASE UNCHANGED depotVars
  <2>1. Orderly'
    BY <1>0, <1>2 DEF depotVars, Orderly, DepotTypes, CallsApart, FramesApart, ChunksThere,
       FramesInHand, EntriesWhole, IdNamesItsStack, SameStack, Placed, Holds
  <2>2. OneChunkEach'
    BY <1>0, <1>2 DEF depotVars, OneChunkEach
  <2>3. MakersHold(maker)'
    <3>1. PICK t : t \in Interners
      BY DepotConstants
    <3>2. UNCHANGED <<depot, frames, chunkMade, interning>>
      BY <1>2 DEF depotVars
    <3>. QED
      BY <1>0, <1>m, <2>1, <3>1, <3>2, QuietMakers
  <2>. QED
    BY <1>m, <2>1, <2>2, <2>3 DEF DepotInv, Orderly
<1>. QED
  BY <1>1, <1>2

(* The inductive invariant: an entry and its frames are one call's until    *)
(* they are ready, frames of different calls are apart and each within a    *)
(* chunk, and whoever made an entry of a stack makes no second one.         *)
THEOREM DepotInvariant == DepotSpec => []DepotInv
<1>1. DepotInit => DepotInv
  BY DepotStart
<1>2. DepotInv /\ [DepotNext]_depotVars => DepotInv'
  BY DepotStep
<1>. QED
  BY <1>1, <1>2, PTL DEF DepotSpec

(* Numbers name their stacks for ever, copies of a stack are no more than   *)
(* the threads, and a chunk of the pool is made once: intern_stack and      *)
(* pool_reserve, whatever the races.                                        *)
THEOREM DepotTrue == DepotSpec => []DepotIsTrue
<1>1. DepotInv => DepotIsTrue
  <2>. SUFFICES ASSUME DepotInv PROVE DepotIsTrue
    OBVIOUS
  <2>1. PICK maker \in [Ids -> Interners] : MakersHold(maker)
    BY DEF DepotInv
  <2>2. FewCopies
    BY <2>1, CopiesFew
  <2>. QED
    BY <2>2 DEF DepotInv, DepotIsTrue
<1>. QED
  BY <1>1, DepotInvariant, PTL

(***************************************************************************)
(* Guarded blocks.  What the program holds is whole because of what holds  *)
(* of every extent: entries and calls that carry one share no page, each   *)
(* entry is named for an address inside it, the walk to it goes over       *)
(* entries others took, and one thread at most is to release it.           *)
(***************************************************************************)
Releasing(t) == call[t].step \in {"judge", "drop", "decommit"}
Carrying(t) == call[t].step \in {"insert", "calm", "back", "undo", "fields"}
Filing(t) == call[t].step \in {"fields", "index", "born"}
Based(i) == table[i].base # Nowhere
Named(i) == table[i].p # Nowhere
Guard(e) == IF under THEN e.base ELSE e.base + e.user + e.slack

GuardEntry == [p : Space \cup {Nowhere}, base : Space \cup {Nowhere}, user : Nat, slack : Nat,
               state : {"never", "alive", "freed"}]
GuardCall == [step : {"rest", "ask", "insert", "calm", "back", "undo", "fields", "index", "born",
                      "judge", "drop", "decommit"},
              base : Space \cup {Nowhere}, user : Nat, slack : Nat,
              slot : GuardIds \cup {Nowhere}, granule : Nat \cup {Nowhere},
              old : GuardIds \cup {Nowhere}, kind : {"lawful", "late", "racing"}]
GuardTypes ==
    /\ under \in BOOLEAN
    /\ table \in [GuardIds -> GuardEntry]
    /\ gindex \in [IndexIds -> GuardIds \cup {Nowhere}]
    /\ pages \in [Space -> {"free", "reserved", "committed"}]
    /\ call \in [Askers -> GuardCall]
    /\ misuses \in Nat

(* Extents: whole, in the space, and nobody else's.                          *)
Whole(e) == e.user > 0 /\ e.base \in Space /\ All(e) \subseteq Space
Ready(e) == pages[Guard(e)] = "reserved" /\ \A g \in Data(e) : pages[g] = "committed"
Extents ==
    /\ \A i \in GuardIds :
          IF Based(i) THEN Whole(table[i]) /\ table[i].p = Address(table[i])
          ELSE table[i].state = "never" /\ table[i].user = 0
    /\ \A t \in Askers :
          /\ call[t].step \notin {"rest", "judge", "drop", "decommit"} => call[t].user > 0
          /\ Carrying(t) => Whole(call[t]) /\ Ready(call[t])
Strangers ==
    /\ \A i, j \in GuardIds : Based(i) /\ Based(j) /\ i # j => All(table[i]) \cap All(table[j]) = {}
    /\ \A t, u \in Askers :
          Carrying(t) /\ Carrying(u) /\ t # u => All(call[t]) \cap All(call[u]) = {}
    /\ \A i \in GuardIds, t \in Askers :
          Based(i) /\ Carrying(t) => All(table[i]) \cap All(call[t]) = {}
PagesFollow ==
    \A i \in GuardIds : Based(i) =>
        /\ pages[Guard(table[i])] = "reserved"
        /\ \A g \in Data(table[i]) : pages[g] # "free"
        /\ table[i].state # "freed" => \A g \in Data(table[i]) : pages[g] = "committed"
        /\ table[i].state = "freed" =>
              \/ \E u \in Askers : call[u].step = "decommit" /\ call[u].slot = i
              \/ \A g \in Data(table[i]) : pages[g] = "reserved"

(* A call files the entry it got, and each entry half filed has its call.    *)
Filed ==
    /\ \A t \in Askers : Filing(t) =>
          /\ call[t].slot \in GuardIds /\ table[call[t].slot].state = "never"
          /\ IF call[t].step = "fields"
               THEN ~ Based(call[t].slot) /\ table[call[t].slot].p = Address(call[t])
               ELSE /\ Based(call[t].slot)
                    /\ table[call[t].slot].base = call[t].base
                    /\ table[call[t].slot].user = call[t].user
                    /\ table[call[t].slot].slack = call[t].slack
          /\ \A u \in Askers : Filing(u) /\ call[u].slot = call[t].slot => u = t
    /\ \A i \in GuardIds : Named(i) /\ ~ Based(i) =>
          \E t \in Askers : call[t].step = "fields" /\ call[t].slot = i

(* Entries are found: what is looked at before them is taken by others.      *)
FoundAt(i) ==
    \E k \in 1 .. GuardProbe :
        /\ TableProbes(table[i].p)[k] = i
        /\ \A m \in 1 .. k - 1 : table[TableProbes(table[i].p)[m]].p \notin {table[i].p, Nowhere}
Found == \A i \in GuardIds : Named(i) => FoundAt(i)
IndexedAt(i, g) ==
    \E k \in 1 .. GuardProbe :
        /\ gindex[IndexProbes(g)[k]] = i
        /\ \A m \in 1 .. k - 1 : gindex[IndexProbes(g)[m]] # Nowhere
Indexed ==
    /\ \A i \in GuardIds :
          table[i].state # "never" /\ i \notin partial => \A g \in All(table[i]) : IndexedAt(i, g)
    /\ \A t \in Askers :
          /\ call[t].step = "index" =>
                /\ call[t].granule \in All(call[t]) /\ call[t].slot \notin partial
                /\ \A g \in call[t].base .. call[t].granule - 1 : IndexedAt(call[t].slot, g)
          /\ call[t].step = "born" /\ call[t].slot \notin partial =>
                \A g \in All(call[t]) : IndexedAt(call[t].slot, g)
    /\ \A i \in partial : i \in GuardIds /\ Based(i)

(* Who has a block: the program, a resize, or who releases it.               *)
Unheld(i) == /\ \A u \in Askers : ~ (Releasing(u) /\ call[u].slot = i)
Hands ==
    /\ \A p \in inHand : \E i \in GuardIds :
          /\ table[i].p = p /\ table[i].state = "alive" /\ Unheld(i)
          /\ \A u \in Askers : call[u].old # i
    /\ \A t \in Askers : call[t].old # Nowhere =>
          /\ call[t].step \notin {"rest", "judge", "drop", "decommit"}
          /\ table[call[t].old].state = "alive" /\ table[call[t].old].p \notin inHand
          /\ Unheld(call[t].old)
          /\ \A u \in Askers : call[u].old = call[t].old => u = t
    /\ \A t \in Askers : Releasing(t) =>
          /\ call[t].slot \in GuardIds /\ table[call[t].slot].state # "never"
          /\ call[t].step = "decommit" => table[call[t].slot].state = "freed"
    /\ \A t \in Askers : call[t].kind = "late" =>
          call[t].step = "judge" /\ table[call[t].slot].state = "freed"
Verdicts ==
    /\ "lawful" \notin foreign
    /\ misuses = 0 =>
          /\ told = {}
          /\ \A t \in Askers : call[t].step \in {"judge", "drop"} =>
                /\ table[call[t].slot].state = "alive"
                /\ \A u \in Askers : Releasing(u) /\ call[u].slot = call[t].slot => u = t

GuardInv ==
    /\ GuardTypes /\ Extents /\ Strangers /\ PagesFollow /\ Filed /\ Found /\ Indexed
    /\ Hands /\ Verdicts

(* The least of a set of naturals.                                          *)
LEMMA LeastIs ==
    ASSUME NEW S, S \subseteq Nat, S # {}
    PROVE  Min(S) \in S /\ \A n \in S : Min(S) <= n
<1>1. PICK m \in S : \A n \in S : <<n, m>> \notin OpToRel(<, Nat)
  BY NatLessThanWellFounded, WFMin
<1>2. ASSUME NEW n \in S PROVE m <= n
  <2>1. m \in Nat /\ n \in Nat
    OBVIOUS
  <2>2. ~(n < m)
    BY <1>1, <2>1, Zenon DEF OpToRel
  <2>. QED
    BY <2>1, <2>2
<1>. QED
  BY <1>2 DEF Min

LEMMA GuardDomains ==
    /\ Granules \in Nat /\ GuardSlots \in Nat \ {0} /\ IndexSlots \in Nat \ {0}
    /\ GuardProbe \in Nat \ {0}
    /\ Nowhere \notin GuardIds /\ Nowhere \notin IndexIds /\ Nowhere \notin Nat
    /\ Space \subseteq Nat
    /\ Edges \subseteq BOOLEAN /\ Requests \subseteq [user : Nat \ {0}, slack : Nat]
    /\ MaxAsks \in Nat /\ MaxMisuse \in Nat
BY GuardedAssumption DEF Nowhere, GuardIds, IndexIds, Space

LEMMA ProbesIn ==
    ASSUME NEW p \in Nat, NEW k \in 1 .. GuardProbe
    PROVE  /\ TableProbes(p)[k] \in GuardIds
           /\ IndexProbes(p)[k] \in IndexIds
<1>1. \A a \in Nat, n \in Nat \ {0} : a % n \in 0 .. n - 1
  OBVIOUS
<1>2. p + k - 1 \in Nat
  BY GuardDomains
<1>. QED
  BY <1>1, <1>2, GuardDomains DEF TableProbes, IndexProbes, GuardIds, IndexIds

(* Where an extent lies.                                                    *)
LEMMA ExtentIs ==
    ASSUME GuardTypes, NEW e, e.user \in Nat, e.slack \in Nat, Whole(e)
    PROVE  /\ Address(e) \in Bytes(e) /\ Bytes(e) \subseteq Data(e) /\ Data(e) \subseteq All(e)
           /\ Guard(e) \in All(e) /\ Guard(e) \notin Data(e)
           /\ \A g \in All(e) : g = Guard(e) \/ g \in Data(e)
           /\ Address(e) \in Space /\ All(e) \subseteq Space
<1>. DEFINE b == e.base  u == e.user  s == e.slack
<1>1. b \in Nat /\ u \in Nat /\ s \in Nat /\ u > 0
  BY GuardDomains DEF Whole
<1>2. All(e) = b .. b + u + s /\ All(e) \subseteq Space
  BY DEF All, Whole
<1>. HIDE DEF b, u, s
<1>3. CASE under
  <2>1. Address(e) = b + 1 /\ Bytes(e) = b + 1 .. b + 1 + u - 1 /\ Guard(e) = b
        /\ Data(e) = b + 1 .. b + 1 + u + s - 1
    BY <1>3 DEF Address, Bytes, Guard, Data, b, u, s
  <2>. QED
    BY <1>1, <1>2, <2>1
<1>4. CASE ~ under
  <2>1. Address(e) = b + s /\ Bytes(e) = b + s .. b + s + u - 1 /\ Guard(e) = b + u + s
        /\ Data(e) = b .. b + u + s - 1
    BY <1>4 DEF Address, Bytes, Guard, Data, b, u, s
  <2>. QED
    BY <1>1, <1>2, <2>1
<1>. QED
  BY <1>3, <1>4

-----------------------------------------------------------------------------
(* What the searches of the table and the index give.                       *)
LEMMA FindOnly ==
    ASSUME GuardTypes, NEW p \in Nat, GuardFind(p) # Nowhere
    PROVE  GuardFind(p) \in GuardIds /\ table[GuardFind(p)].p = p
<1>. DEFINE fit == {j \in GuardIds : table[j].p \in {p, Nowhere}}
            good == {k \in 1 .. GuardProbe : TableProbes(p)[k] \in fit}
            i == IF good = {} THEN Nowhere ELSE TableProbes(p)[Min(good)]
<1>1. GuardFind(p) = IF i # Nowhere /\ table[i].p = p THEN i ELSE Nowhere
  BY DEF GuardFind, First
<1>2. i # Nowhere /\ table[i].p = p /\ GuardFind(p) = i /\ good # {}
  BY <1>1
<1>3. Min(good) \in 1 .. GuardProbe
  <2>1. good \subseteq Nat
    OBVIOUS
  <2>. QED
    BY <1>2, <2>1, LeastIs
<1>. HIDE DEF good
<1>. QED
  BY <1>2, <1>3, ProbesIn

LEMMA FindIs ==
    ASSUME GuardTypes, NEW i \in GuardIds, Named(i), FoundAt(i),
           \A j \in GuardIds : Named(j) /\ table[j].p = table[i].p => j = i
    PROVE  GuardFind(table[i].p) = i
<1>. DEFINE p == table[i].p
            fit == {j \in GuardIds : table[j].p \in {p, Nowhere}}
            good == {k \in 1 .. GuardProbe : TableProbes(p)[k] \in fit}
<1>0. p \in Nat /\ p # Nowhere /\ i # Nowhere
  BY GuardDomains DEF GuardTypes, GuardEntry, Named
<1>1. PICK k \in 1 .. GuardProbe :
         /\ TableProbes(p)[k] = i
         /\ \A m \in 1 .. k - 1 : table[TableProbes(p)[m]].p \notin {p, Nowhere}
  BY DEF FoundAt
<1>2. k \in good /\ good \subseteq Nat
  BY <1>1
<1>3. Min(good) \in good /\ Min(good) <= k
  BY <1>2, LeastIs
<1>4. Min(good) = k
  <2>1. PICK m \in 1 .. GuardProbe : m = Min(good) /\ m <= k /\ TableProbes(p)[m] \in fit
    BY <1>3
  <2>2. ~ (m \in 1 .. k - 1)
    BY <1>1, <2>1
  <2>3. m = k
    <3>. HIDE DEF good
    <3>1. m <= k
      BY <2>1
    <3>. QED
      BY <2>2, <3>1, GuardDomains
  <2>. QED
    BY <2>1, <2>3, Zenon
<1>5. First(TableProbes(p), fit) = i
  BY <1>1, <1>2, <1>4 DEF First
<1>. HIDE DEF fit, good
<1>6. GuardFind(p) = LET j == First(TableProbes(p), fit)
                     IN IF j # Nowhere /\ table[j].p = p THEN j ELSE Nowhere
  BY DEF GuardFind, fit
<1>. QED
  BY <1>0, <1>5, <1>6

LEMMA LocateOnly ==
    ASSUME GuardTypes, NEW q \in Nat, GuardLocate(q) # Nowhere
    PROVE  GuardLocate(q) \in GuardIds /\ q \in Bytes(table[GuardLocate(q)])
<1>. DEFINE fit == {j \in IndexIds : gindex[j] = Nowhere \/ q \in Bytes(table[gindex[j]])}
            good == {k \in 1 .. GuardProbe : IndexProbes(q)[k] \in fit}
            i == IF good = {} THEN Nowhere ELSE IndexProbes(q)[Min(good)]
<1>1. GuardLocate(q) = IF i # Nowhere THEN gindex[i] ELSE Nowhere
  BY DEF GuardLocate, First
<1>2. i # Nowhere /\ GuardLocate(q) = gindex[i] /\ good # {}
  BY <1>1
<1>3. Min(good) \in good
  <2>1. good \subseteq Nat
    OBVIOUS
  <2>. QED
    BY <1>2, <2>1, LeastIs
<1>4. i \in fit
  BY <1>2, <1>3
<1>. HIDE DEF i
<1>5. i \in IndexIds /\ gindex[i] \in GuardIds \cup {Nowhere} /\ gindex[i] # Nowhere
  BY <1>2, <1>4 DEF GuardTypes
<1>. QED
  BY <1>2, <1>4, <1>5

LEMMA LocateIs ==
    ASSUME GuardTypes, NEW q \in Nat, NEW i \in GuardIds, IndexedAt(i, q), q \in Bytes(table[i])
    PROVE  GuardLocate(q) # Nowhere
<1>. DEFINE fit == {j \in IndexIds : gindex[j] = Nowhere \/ q \in Bytes(table[gindex[j]])}
            good == {k \in 1 .. GuardProbe : IndexProbes(q)[k] \in fit}
            at == IndexProbes(q)[Min(good)]
<1>1. PICK k \in 1 .. GuardProbe :
         /\ gindex[IndexProbes(q)[k]] = i
         /\ \A m \in 1 .. k - 1 : gindex[IndexProbes(q)[m]] # Nowhere
  BY DEF IndexedAt
<1>2. k \in good /\ good \subseteq Nat
  BY <1>1, ProbesIn
<1>3. Min(good) \in good /\ Min(good) <= k
  BY <1>2, LeastIs
<1>4. gindex[at] # Nowhere
  <2>1. Min(good) \in Nat /\ k \in Nat /\ Min(good) >= 1
    BY <1>3
  <2>2. Min(good) \in 1 .. k - 1 \/ Min(good) = k
    BY <1>3, <2>1
  <2>. QED
    BY <1>1, <2>2, GuardDomains
<1>5. First(IndexProbes(q), fit) = at
  BY <1>2 DEF First
<1>6. at \in IndexIds /\ at # Nowhere
  <2>1. at \in IndexIds
    BY <1>3
  <2>. QED
    BY <2>1, GuardDomains
<1>. QED
  BY <1>4, <1>5, <1>6 DEF GuardLocate

(* Taking a place: the entry that gets it is found there.                    *)
LEMMA PlaceIs ==
    ASSUME GuardTypes, NEW p \in Nat,
           NEW i, i = First(TableProbes(p), {j \in GuardIds : table[j].p = Nowhere}),
           i # Nowhere
    PROVE  /\ i \in GuardIds /\ ~ Named(i)
           /\ \E k \in 1 .. GuardProbe :
                 /\ TableProbes(p)[k] = i
                 /\ \A m \in 1 .. k - 1 : table[TableProbes(p)[m]].p # Nowhere
<1>. DEFINE fit == {j \in GuardIds : table[j].p = Nowhere}
            good == {k \in 1 .. GuardProbe : TableProbes(p)[k] \in fit}
<1>1. good # {} /\ i = TableProbes(p)[Min(good)]
  BY DEF First
<1>2. PICK k \in Nat : k = Min(good) /\ k \in good /\ \A m \in good : k <= m
  <2>1. good \subseteq Nat
    OBVIOUS
  <2>. QED
    BY <1>1, <2>1, LeastIs
<1>3. k \in 1 .. GuardProbe /\ i = TableProbes(p)[k] /\ i \in fit
  BY <1>1, <1>2
<1>4. ASSUME NEW m \in 1 .. k - 1 PROVE table[TableProbes(p)[m]].p # Nowhere
  <2>1. m \in 1 .. GuardProbe /\ m \notin good
    BY <1>2, <1>3, GuardDomains
  <2>2. TableProbes(p)[m] \in GuardIds
    BY <2>1, ProbesIn
  <2>. QED
    BY <2>1, <2>2
<1>. QED
  BY <1>3, <1>4 DEF Named

LEMMA IndexPlaceIs ==
    ASSUME GuardTypes, NEW g \in Nat,
           NEW i, i = First(IndexProbes(g), {j \in IndexIds : gindex[j] = Nowhere}),
           i # Nowhere
    PROVE  /\ i \in IndexIds /\ gindex[i] = Nowhere
           /\ \E k \in 1 .. GuardProbe :
                 /\ IndexProbes(g)[k] = i
                 /\ \A m \in 1 .. k - 1 : gindex[IndexProbes(g)[m]] # Nowhere
<1>. DEFINE fit == {j \in IndexIds : gindex[j] = Nowhere}
            good == {k \in 1 .. GuardProbe : IndexProbes(g)[k] \in fit}
<1>1. good # {} /\ i = IndexProbes(g)[Min(good)]
  BY DEF First
<1>2. PICK k \in Nat : k = Min(good) /\ k \in good /\ \A m \in good : k <= m
  <2>1. good \subseteq Nat
    OBVIOUS
  <2>. QED
    BY <1>1, <2>1, LeastIs
<1>3. k \in 1 .. GuardProbe /\ i = IndexProbes(g)[k] /\ i \in fit
  BY <1>1, <1>2
<1>4. ASSUME NEW m \in 1 .. k - 1 PROVE gindex[IndexProbes(g)[m]] # Nowhere
  <2>1. m \in 1 .. GuardProbe /\ m \notin good
    BY <1>2, <1>3, GuardDomains
  <2>2. IndexProbes(g)[m] \in IndexIds
    BY <2>1, ProbesIn
  <2>. QED
    BY <2>1, <2>2
<1>. QED
  BY <1>3, <1>4

-----------------------------------------------------------------------------
(* No two entries have one address, and no address is in two blocks.        *)
LEMMA EntryExtent ==
    ASSUME GuardTypes, Extents, NEW i \in GuardIds, Based(i)
    PROVE  /\ table[i].user \in Nat /\ table[i].slack \in Nat /\ Whole(table[i])
           /\ table[i].p = Address(table[i]) /\ Named(i)
           /\ Address(table[i]) \in Bytes(table[i]) /\ Bytes(table[i]) \subseteq Data(table[i])
           /\ Data(table[i]) \subseteq All(table[i]) /\ All(table[i]) \subseteq Space
           /\ Guard(table[i]) \in All(table[i]) /\ Guard(table[i]) \notin Data(table[i])
<1>1. table[i].user \in Nat /\ table[i].slack \in Nat
  BY DEF GuardTypes, GuardEntry
<1>2. Whole(table[i]) /\ table[i].p = Address(table[i])
  BY DEF Extents
<1>3. Address(table[i]) \in Space
  BY <1>1, <1>2, ExtentIs
<1>4. Named(i)
  BY <1>2, <1>3, GuardDomains DEF Named
<1>. QED
  BY <1>1, <1>2, <1>4, ExtentIs

LEMMA CallExtent ==
    ASSUME GuardTypes, Extents, NEW t \in Askers, Carrying(t)
    PROVE  /\ call[t].user \in Nat /\ call[t].slack \in Nat /\ Whole(call[t]) /\ Ready(call[t])
           /\ Address(call[t]) \in Bytes(call[t]) /\ Bytes(call[t]) \subseteq Data(call[t])
           /\ Data(call[t]) \subseteq All(call[t]) /\ All(call[t]) \subseteq Space
           /\ Guard(call[t]) \in All(call[t]) /\ Guard(call[t]) \notin Data(call[t])
           /\ Address(call[t]) \in Space
<1>1. call[t].user \in Nat /\ call[t].slack \in Nat
  BY DEF GuardTypes, GuardCall
<1>2. Whole(call[t]) /\ Ready(call[t])
  BY DEF Extents
<1>. QED
  BY <1>1, <1>2, ExtentIs

\* The block an entry is named for: its own extent, or that of the call.
LEMMA NameOf ==
    ASSUME GuardTypes, Extents, Filed, NEW i \in GuardIds, Named(i)
    PROVE  \/ Based(i) /\ table[i].p \in Bytes(table[i]) /\ table[i].p \in All(table[i])
           \/ /\ ~ Based(i)
              /\ \E t \in Askers :
                    /\ call[t].step = "fields" /\ call[t].slot = i /\ Carrying(t)
                    /\ table[i].p = Address(call[t]) /\ table[i].p \in All(call[t])
<1>1. CASE Based(i)
  BY <1>1, EntryExtent
<1>2. CASE ~ Based(i)
  <2>1. PICK t \in Askers : call[t].step = "fields" /\ call[t].slot = i
    BY <1>2 DEF Filed
  <2>2. Carrying(t) /\ Filing(t)
    BY <2>1 DEF Carrying, Filing
  <2>3. table[i].p = Address(call[t])
    BY <2>1, <2>2 DEF Filed
  <2>. QED
    BY <1>2, <2>1, <2>2, <2>3, CallExtent
<1>. QED
  BY <1>1, <1>2

LEMMA NamesApart ==
    ASSUME GuardTypes, Extents, Filed, Strangers
    PROVE  /\ \A i, j \in GuardIds : Named(i) /\ Named(j) /\ table[i].p = table[j].p => i = j
           /\ \A i, j \in GuardIds : Named(i) /\ Based(j) /\ table[i].p \in Bytes(table[j]) => i = j
           /\ \A i, j \in GuardIds : \A q : Based(i) /\ Based(j)
                 /\ q \in Bytes(table[i]) /\ q \in Bytes(table[j]) => i = j
<1>1. ASSUME NEW i \in GuardIds, NEW j \in GuardIds, Named(i), Based(j),
             table[i].p \in Bytes(table[j])
      PROVE  i = j
  <2>1. table[i].p \in All(table[j])
    BY <1>1, EntryExtent
  <2>. QED
    BY <1>1, <2>1, NameOf DEF Strangers
<1>2. ASSUME NEW i \in GuardIds, NEW j \in GuardIds, Named(i), Named(j),
             table[i].p = table[j].p
      PROVE  i = j
  <2>1. CASE Based(j)
    BY <1>1, <1>2, <2>1, NameOf
  <2>2. CASE Based(i)
    BY <1>1, <1>2, <2>2, NameOf
  <2>3. CASE ~ Based(i) /\ ~ Based(j)
    <3>1. PICK t \in Askers : /\ call[t].slot = i /\ Carrying(t)
                              /\ table[i].p \in All(call[t])
      BY <1>2, <2>3, NameOf
    <3>2. PICK u \in Askers : /\ call[u].slot = j /\ Carrying(u)
                              /\ table[j].p \in All(call[u])
      BY <1>2, <2>3, NameOf
    <3>. QED
      BY <1>2, <3>1, <3>2 DEF Strangers
  <2>. QED
    BY <2>1, <2>2, <2>3
<1>3. ASSUME NEW i \in GuardIds, NEW j \in GuardIds, NEW q, Based(i), Based(j),
             q \in Bytes(table[i]), q \in Bytes(table[j])
      PROVE  i = j
  BY <1>3, EntryExtent DEF Strangers
<1>. QED
  BY <1>1, <1>2, <1>3

LEMMA NoBytes ==
    ASSUME NEW e \in GuardEntry, e.user = 0, NEW q PROVE q \notin Bytes(e)
<1>1. e.base \in Int /\ e.slack \in Int
  <2>1. e.slack \in Int
    BY DEF GuardEntry
  <2>2. CASE e.base \in Space
    BY <2>1, <2>2 DEF Space
  <2>3. CASE e.base = Nowhere
    BY <2>1, <2>3 DEF Nowhere
  <2>. QED
    BY <2>1, <2>2, <2>3 DEF GuardEntry
<1>2. Address(e) \in Int
  BY <1>1 DEF Address
<1>. QED
  BY <1>2 DEF Bytes

(* What Entry answers inside a block.                                       *)
LEMMA EntryIs ==
    ASSUME GuardTypes, Extents, Filed, Strangers, Found, NEW i \in GuardIds, Based(i),
           NEW q \in Bytes(table[i])
    PROVE  /\ Entry(q) = i \/ Entry(q) = Nowhere
           /\ q = table[i].p \/ IndexedAt(i, q) => Entry(q) = i
           /\ GuardFind(table[i].p) = i
<1>0. q \in Nat /\ Named(i) /\ table[i].p \in Bytes(table[i])
  BY EntryExtent, GuardDomains
<1>1. GuardFind(q) # Nowhere => GuardFind(q) = i
  <2>. SUFFICES ASSUME GuardFind(q) # Nowhere PROVE GuardFind(q) = i
    OBVIOUS
  <2>1. GuardFind(q) \in GuardIds /\ table[GuardFind(q)].p = q
    BY <1>0, FindOnly
  <2>2. Named(GuardFind(q))
    BY <1>0, <2>1, GuardDomains DEF Named
  <2>. QED
    BY <2>1, <2>2, NamesApart
<1>2. GuardLocate(q) # Nowhere => GuardLocate(q) = i
  <2>. SUFFICES ASSUME GuardLocate(q) # Nowhere PROVE GuardLocate(q) = i
    OBVIOUS
  <2>1. GuardLocate(q) \in GuardIds /\ q \in Bytes(table[GuardLocate(q)])
    BY <1>0, LocateOnly
  <2>2. Based(GuardLocate(q))
    <3>1. CASE ~ Based(GuardLocate(q))
      <4>1. table[GuardLocate(q)].user = 0 /\ table[GuardLocate(q)] \in GuardEntry
        BY <2>1, <3>1 DEF Extents, GuardTypes
      <4>. QED
        BY <2>1, <4>1, NoBytes
    <3>. QED
      BY <3>1
  <2>. QED
    BY <2>1, <2>2, NamesApart
<1>3. GuardFind(table[i].p) = i
  <2>1. FoundAt(i) /\ \A j \in GuardIds : Named(j) /\ table[j].p = table[i].p => j = i
    BY <1>0, NamesApart DEF Found
  <2>. QED
    BY <1>0, <2>1, FindIs
<1>4. IndexedAt(i, q) => GuardLocate(q) # Nowhere
  BY <1>0, LocateIs
<1>. QED
  BY <1>1, <1>2, <1>3, <1>4, GuardDomains DEF Entry
-----------------------------------------------------------------------------
(* It holds at the start.                                                   *)
LEMMA GuardStarts == ASSUME GuardedInit PROVE GuardInv
<1>. USE DEF GuardedInit
<1>1. \A i \in GuardIds : table[i] = NoEntry
  OBVIOUS
<1>2. \A t \in Askers : call[t] = Resting
  OBVIOUS
<1>3. GuardTypes
  <2>1. NoEntry \in GuardEntry
    BY DEF NoEntry, GuardEntry
  <2>2. Resting \in GuardCall
    BY DEF Resting, GuardCall
  <2>. QED
    BY <2>1, <2>2, GuardDomains DEF GuardTypes
<1>4. \A i \in GuardIds : ~ Based(i) /\ ~ Named(i) /\ table[i].state = "never"
                         /\ table[i].user = 0
  BY <1>1 DEF Based, Named, NoEntry
<1>5. \A t \in Askers : /\ call[t].step = "rest" /\ call[t].old = Nowhere
                        /\ call[t].kind = "lawful"
                        /\ ~ Carrying(t) /\ ~ Filing(t) /\ ~ Releasing(t)
  BY <1>2 DEF Resting, Carrying, Filing, Releasing
<1>6. Extents /\ Strangers /\ PagesFollow
  BY <1>4, <1>5 DEF Extents, Strangers, PagesFollow
<1>7. Filed /\ Found /\ Indexed
  BY <1>4, <1>5 DEF Filed, Found, Indexed
<1>8. Hands /\ Verdicts
  BY <1>4, <1>5 DEF Hands, Verdicts
<1>. QED
  BY <1>3, <1>6, <1>7, <1>8 DEF GuardInv

(* A step of one call that changes nothing but where it is.                  *)
LEMMA CallMoves ==
    ASSUME GuardInv, NEW t \in Askers, NEW c \in GuardCall, call' = [call EXCEPT ![t] = c],
           UNCHANGED <<under, table, gindex, pages, partial>>, misuses' \in Nat,
           ~ Filing(t), call[t].step # "decommit", c.step \notin {"fields", "index", "born"},
           c.step \notin {"rest", "judge", "drop", "decommit"} => c.user > 0,
           c.step \in {"insert", "calm", "back", "undo"} =>
              /\ Carrying(t) /\ c.base = call[t].base
              /\ c.user = call[t].user /\ c.slack = call[t].slack
    PROVE  /\ GuardTypes' /\ Extents' /\ Strangers' /\ PagesFollow'
           /\ Filed' /\ Found' /\ Indexed'
<1>. USE DEF GuardInv
<1>1. call \in [Askers -> GuardCall] /\ \A u \in Askers : call'[u] = IF u = t THEN c ELSE call[u]
  BY DEF GuardTypes
<1>2. GuardTypes'
  BY <1>1 DEF GuardTypes
<1>3. /\ \A i \in GuardIds : Based(i)' <=> Based(i)
      /\ \A i \in GuardIds : Named(i)' <=> Named(i)
      /\ \A u \in Askers : Filing(u)' => u # t /\ Filing(u)
      /\ \A u \in Askers : Carrying(u)' => Carrying(u)
      /\ \A u \in Askers : u # t => (Filing(u)' <=> Filing(u))
  BY <1>1 DEF Based, Named, Filing, Carrying
<1>4. \A i \in GuardIds :
         /\ Address(table[i])' = Address(table[i]) /\ All(table[i])' = All(table[i])
         /\ Data(table[i])' = Data(table[i]) /\ Guard(table[i])' = Guard(table[i])
         /\ Whole(table[i])' = Whole(table[i])
  BY DEF Address, All, Data, Guard, Whole
<1>5. \A u \in Askers : Carrying(u)' =>
         /\ Address(call[u])' = Address(call[u]) /\ All(call[u])' = All(call[u])
         /\ Whole(call[u])' = Whole(call[u]) /\ Ready(call[u])' = Ready(call[u])
  <2>1. \A u \in Askers : Carrying(u)' =>
           /\ call'[u].base = call[u].base /\ call'[u].user = call[u].user
           /\ call'[u].slack = call[u].slack
    BY <1>1 DEF Carrying
  <2>2. ASSUME NEW u \in Askers, Carrying(u)'
        PROVE  /\ Address(call[u])' = Address(call[u]) /\ All(call[u])' = All(call[u])
               /\ Data(call[u])' = Data(call[u]) /\ Guard(call[u])' = Guard(call[u])
    BY <2>1, <2>2 DEF Address, All, Data, Guard
  <2>. QED
    BY <2>1, <2>2 DEF Whole, Ready
<1>6. Extents'
  <2>1. ASSUME NEW u \in Askers, call'[u].step \notin {"rest", "judge", "drop", "decommit"}
        PROVE  call'[u].user > 0
    BY <1>1, <2>1 DEF Extents
  <2>2. \A u \in Askers : Carrying(u)' => Whole(call[u])' /\ Ready(call[u])'
    BY <1>3, <1>5 DEF Extents
  <2>3. \A i \in GuardIds :
          IF Based(i)' THEN Whole(table[i])' /\ table'[i].p = Address(table[i])'
          ELSE table'[i].state = "never" /\ table'[i].user = 0
    BY <1>3, <1>4 DEF Extents
  <2>. QED
    BY <2>1, <2>2, <2>3 DEF Extents
<1>7. Strangers'
  BY <1>3, <1>4, <1>5 DEF Strangers
<1>8. PagesFollow'
  BY <1>1, <1>3, <1>4 DEF PagesFollow
<1>9. Filed'
  <2>1. \A u \in Askers : Filing(u)' => call'[u] = call[u] /\ u # t
    BY <1>1, <1>3
  <2>2. \A u \in Askers : u # t => Address(call[u])' = Address(call[u])
    BY <1>1 DEF Address
  <2>3. \A i \in GuardIds : Named(i)' /\ ~ Based(i)' =>
          \E u \in Askers : call'[u].step = "fields" /\ call'[u].slot = i
    <3>. SUFFICES ASSUME NEW i \in GuardIds, Named(i)', ~ Based(i)'
                  PROVE  \E u \in Askers : call'[u].step = "fields" /\ call'[u].slot = i
      OBVIOUS
    <3>1. PICK u \in Askers : call[u].step = "fields" /\ call[u].slot = i
      BY <1>3 DEF Filed
    <3>2. u # t
      BY <3>1 DEF Filing
    <3>. QED
      BY <1>1, <3>1, <3>2
  <2>. QED
    BY <1>3, <2>1, <2>2, <2>3 DEF Filed
<1>10. Found'
  <2>1. \A i \in GuardIds : FoundAt(i)' = FoundAt(i)
    BY DEF FoundAt, TableProbes
  <2>. QED
    BY <1>3, <2>1 DEF Found
<1>11. Indexed'
  <2>1. \A i, g : IndexedAt(i, g)' = IndexedAt(i, g)
    BY DEF IndexedAt, IndexProbes
  <2>2. \A u \in Askers : call'[u].step \in {"index", "born"} => call'[u] = call[u]
    BY <1>1
  <2>3. \A u \in Askers : call'[u].step \in {"index", "born"} => All(call[u])' = All(call[u])
    BY <2>2 DEF All
  <2>. QED
    BY <1>3, <1>4, <2>1, <2>2, <2>3 DEF Indexed
<1>. QED
  BY <1>2, <1>6, <1>7, <1>8, <1>9, <1>10, <1>11
-----------------------------------------------------------------------------
(* Who has a block, over steps that give nobody one.                         *)
LEMMA HandsQuiet ==
    ASSUME GuardInv, NEW t \in Askers, NEW c \in GuardCall, call' = [call EXCEPT ![t] = c],
           \A i \in GuardIds : table[i].state # "never" => table'[i] = table[i],
           UNCHANGED inHand, c.kind # "late", c.step \notin {"judge", "drop", "decommit"},
           c.old \in {Nowhere, call[t].old}, c.step = "rest" => c.old = Nowhere
    PROVE  Hands' /\ ("lawful" \notin foreign' /\ (misuses' = 0 => misuses = 0 /\ told' = {})
                         => Verdicts')
<1>. USE DEF GuardInv
<1>1. call \in [Askers -> GuardCall] /\ \A u \in Askers : call'[u] = IF u = t THEN c ELSE call[u]
  BY DEF GuardTypes
<1>2. \A u \in Askers : /\ Releasing(u)' => u # t /\ Releasing(u) /\ call'[u] = call[u]
                        /\ call'[u].old # Nowhere => call'[u].old = call[u].old
                        /\ call'[u].kind = "late" => u # t
  BY <1>1 DEF Releasing
<1>3. \A i \in GuardIds : Unheld(i) => Unheld(i)'
  BY <1>2 DEF Unheld
<1>4. \A u \in Askers : call[u].old \in GuardIds \cup {Nowhere}
  BY <1>1 DEF GuardCall
<1>5. \A p \in inHand' : \E i \in GuardIds :
         /\ table'[i].p = p /\ table'[i].state = "alive" /\ Unheld(i)'
         /\ \A u \in Askers : call'[u].old # i
  <2>. SUFFICES ASSUME NEW p \in inHand
                PROVE  \E i \in GuardIds :
                          /\ table'[i].p = p /\ table'[i].state = "alive" /\ Unheld(i)'
                          /\ \A u \in Askers : call'[u].old # i
    OBVIOUS
  <2>1. PICK i \in GuardIds :
          /\ table[i].p = p /\ table[i].state = "alive" /\ Unheld(i)
          /\ \A u \in Askers : call[u].old # i
    BY DEF Hands
  <2>2. \A u \in Askers : call'[u].old # i
    BY <1>2, <2>1, GuardDomains
  <2>. QED
    BY <1>3, <2>1, <2>2
<1>6. ASSUME NEW u \in Askers, call'[u].old # Nowhere
      PROVE  /\ call'[u].step \notin {"rest", "judge", "drop", "decommit"}
             /\ table'[call'[u].old].state = "alive" /\ table'[call'[u].old].p \notin inHand'
             /\ \A v \in Askers : ~ (Releasing(v)' /\ call'[v].slot = call'[u].old)
             /\ \A v \in Askers : call'[v].old = call'[u].old => v = u
  <2>1. call'[u].old = call[u].old /\ call[u].old # Nowhere
    BY <1>2, <1>6
  <2>2. /\ call[u].step \notin {"rest", "judge", "drop", "decommit"}
        /\ table[call[u].old].state = "alive" /\ table[call[u].old].p \notin inHand
        /\ Unheld(call[u].old)
        /\ \A v \in Askers : call[v].old = call[u].old => v = u
    BY <2>1 DEF Hands
  <2>3. call'[u].step \notin {"rest", "judge", "drop", "decommit"}
    BY <1>1, <1>6, <2>2
  <2>4. table'[call[u].old] = table[call[u].old]
    BY <1>4, <2>1, <2>2
  <2>5. \A v \in Askers : ~ (Releasing(v)' /\ call'[v].slot = call'[u].old)
    BY <1>2, <2>1, <2>2 DEF Unheld
  <2>. QED
    BY <1>2, <1>6, <2>1, <2>2, <2>3, <2>4, <2>5
<1>7. ASSUME NEW u \in Askers, Releasing(u)'
      PROVE  /\ call'[u].slot \in GuardIds /\ table'[call'[u].slot].state # "never"
             /\ call'[u].step = "decommit" => table'[call'[u].slot].state = "freed"
             /\ table'[call'[u].slot] = table[call[u].slot] /\ call'[u] = call[u]
  BY <1>2, <1>7 DEF Hands
<1>8. ASSUME NEW u \in Askers, call'[u].kind = "late"
      PROVE  call'[u].step = "judge" /\ table'[call'[u].slot].state = "freed"
  <2>1. call'[u] = call[u] /\ call[u].step = "judge" /\ table[call[u].slot].state = "freed"
    BY <1>1, <1>8 DEF Hands
  <2>. QED
    BY <1>7, <2>1 DEF Releasing
<1>9. Hands'
  BY <1>5, <1>6, <1>7, <1>8 DEF Hands, Unheld
<1>10. ASSUME "lawful" \notin foreign', misuses' = 0 => misuses = 0 /\ told' = {}
       PROVE  Verdicts'
  <2>. SUFFICES ASSUME misuses' = 0, NEW u \in Askers, call'[u].step \in {"judge", "drop"}
                PROVE  /\ table'[call'[u].slot].state = "alive"
                       /\ \A v \in Askers : Releasing(v)' /\ call'[v].slot = call'[u].slot => v = u
    BY <1>10 DEF Verdicts
  <2>1. Releasing(u)' /\ misuses = 0
    BY <1>10 DEF Releasing
  <2>. QED
    BY <1>2, <1>7, <2>1 DEF Verdicts
<1>. QED
  BY <1>9, <1>10
-----------------------------------------------------------------------------
(* A call ends without a block of its own.                                   *)
LEMMA PlainlyMoves ==
    ASSUME GuardInv, NEW t \in Askers, NEW good, Plainly(t, good),
           call[t].step \in {"ask", "undo"}, UNCHANGED <<under, table, gindex, partial>>
    PROVE  /\ \E c \in GuardCall : /\ c.step \in {"rest", "judge"}
                                   /\ call' = [call EXCEPT ![t] = c]
           /\ Hands'
           /\ UNCHANGED <<told, foreign, misuses>> => Verdicts'
<1>. USE DEF GuardInv
<1>. DEFINE old == call[t].old
            back == [Resting EXCEPT !.step = "judge", !.slot = old]
<1>1. call \in [Askers -> GuardCall] /\ old \in GuardIds \cup {Nowhere} /\ call[t] \in GuardCall
  BY DEF GuardTypes, GuardCall
<1>2. Resting \in GuardCall /\ back \in GuardCall
  BY <1>1 DEF Resting, GuardCall
<1>3. /\ Resting.step = "rest" /\ Resting.old = Nowhere /\ Resting.kind = "lawful"
      /\ back.step = "judge" /\ back.slot = old /\ back.old = Nowhere /\ back.kind = "lawful"
  BY DEF Resting
<1>. HIDE DEF back
<1>4. ~ Releasing(t)
  BY DEF Releasing
<1>5. CASE old = Nowhere
  <2>1. call' = [call EXCEPT ![t] = Resting] /\ UNCHANGED inHand
    BY <1>5 DEF Plainly
  <2>2. Hands' /\ ("lawful" \notin foreign' /\ (misuses' = 0 => misuses = 0 /\ told' = {})
                         => Verdicts')
    BY <1>2, <1>3, <2>1, HandsQuiet
  <2>. QED
    BY <1>2, <1>3, <2>1, <2>2 DEF Verdicts
<1>6. CASE old # Nowhere
  <2>1. /\ old \in GuardIds /\ table[old].state = "alive" /\ table[old].p \notin inHand
        /\ \A u \in Askers : ~ (Releasing(u) /\ call[u].slot = old)
        /\ \A u \in Askers : call[u].old = old => u = t
    BY <1>1, <1>6 DEF Hands, Unheld
  <2>2. CASE good
    <3>1. /\ call' = [call EXCEPT ![t] = back] /\ UNCHANGED inHand
          /\ \A u \in Askers : call'[u] = IF u = t THEN back ELSE call[u]
      BY <1>1, <1>6, <2>2 DEF Plainly, back
    <3>2. \A u \in Askers : Releasing(u)' <=> u = t \/ Releasing(u)
      BY <1>3, <3>1 DEF Releasing
    <3>3. Hands'
      <4>1. \A p \in inHand' : \E i \in GuardIds :
              /\ table[i].p = p /\ table[i].state = "alive" /\ Unheld(i)'
              /\ \A u \in Askers : call'[u].old # i
        <5>. SUFFICES ASSUME NEW p \in inHand
                      PROVE  \E i \in GuardIds :
                                /\ table[i].p = p /\ table[i].state = "alive" /\ Unheld(i)'
                                /\ \A u \in Askers : call'[u].old # i
          BY <3>1
        <5>1. PICK i \in GuardIds :
                /\ table[i].p = p /\ table[i].state = "alive" /\ Unheld(i)
                /\ \A u \in Askers : call[u].old # i
          BY DEF Hands
        <5>2. i # Nowhere /\ i # old
          BY <5>1, GuardDomains
        <5>3. \A u \in Askers : call'[u].old # i
          BY <1>3, <3>1, <5>1, <5>2
        <5>4. Unheld(i)'
          BY <1>3, <3>1, <3>2, <5>1, <5>2 DEF Unheld
        <5>. QED
          BY <5>1, <5>3, <5>4
      <4>2. \A u \in Askers : call'[u].old # Nowhere => u # t /\ call'[u] = call[u]
        BY <1>3, <3>1
      <4>3. \A u \in Askers : call'[u].old # Nowhere =>
              /\ call'[u].step \notin {"rest", "judge", "drop", "decommit"}
              /\ table[call'[u].old].state = "alive" /\ table[call'[u].old].p \notin inHand'
              /\ Unheld(call'[u].old)
              /\ call'[u].old # old
        BY <2>1, <3>1, <4>2 DEF Hands
      <4>4. \A u, v \in Askers :
              call'[u].old # Nowhere => ~ (Releasing(v)' /\ call'[v].slot = call'[u].old)
        BY <1>3, <3>1, <3>2, <4>3 DEF Unheld
      <4>5. \A u, v \in Askers : call'[u].old # Nowhere /\ call'[v].old = call'[u].old => u = v
        BY <4>2 DEF Hands
      <4>6. \A u \in Askers : Releasing(u)' =>
              /\ call'[u].slot \in GuardIds /\ table[call'[u].slot].state # "never"
              /\ call'[u].step = "decommit" => table[call'[u].slot].state = "freed"
        BY <1>3, <2>1, <3>1, <3>2 DEF Hands
      <4>7. \A u \in Askers : call'[u].kind = "late" =>
              call'[u].step = "judge" /\ table[call'[u].slot].state = "freed"
        BY <1>3, <3>1 DEF Hands
      <4>. QED
        BY <4>1, <4>3, <4>4, <4>5, <4>6, <4>7 DEF Hands, Unheld
    <3>4. UNCHANGED <<told, foreign, misuses>> => Verdicts'
      <4>1. \A u \in Askers : misuses = 0 /\ call'[u].step \in {"judge", "drop"} =>
              /\ table[call'[u].slot].state = "alive"
              /\ \A v \in Askers : Releasing(v)' /\ call'[v].slot = call'[u].slot => v = u
        <5>1. \A u \in Askers : misuses = 0 /\ call'[u].step \in {"judge", "drop"} =>
                table[call'[u].slot].state = "alive"
          BY <1>3, <2>1, <3>1 DEF Verdicts
        <5>2. ASSUME misuses = 0, NEW u \in Askers, NEW v \in Askers,
                     call'[u].step \in {"judge", "drop"}, Releasing(v)',
                     call'[v].slot = call'[u].slot
              PROVE  v = u
          <6>1. Releasing(u)'
            BY <5>2 DEF Releasing
          <6>2. CASE u = t
            BY <1>3, <2>1, <3>1, <3>2, <5>2, <6>2
          <6>3. CASE u # t /\ v = t
            BY <1>3, <2>1, <3>1, <3>2, <5>2, <6>1, <6>3
          <6>4. CASE u # t /\ v # t
            BY <3>1, <3>2, <5>2, <6>1, <6>4 DEF Verdicts
          <6>. QED
            BY <6>2, <6>3, <6>4
        <5>. QED
          BY <5>1, <5>2
      <4>. QED
        BY <4>1 DEF Verdicts
    <3>. QED
      BY <1>2, <1>3, <3>1, <3>3, <3>4
  <2>3. CASE ~ good
    <3>1. /\ call' = [call EXCEPT ![t] = Resting] /\ inHand' = inHand \cup {table[old].p}
          /\ \A u \in Askers : call'[u] = IF u = t THEN Resting ELSE call[u]
      BY <1>1, <1>6, <2>3 DEF Plainly
    <3>2. \A u \in Askers : Releasing(u)' <=> Releasing(u)
      BY <1>3, <1>4, <3>1 DEF Releasing
    <3>3. \A i : Unheld(i) => Unheld(i)'
      BY <1>4, <3>1, <3>2 DEF Unheld
    <3>4. \A u \in Askers : call'[u].old # Nowhere \/ Releasing(u)' \/ call'[u].kind = "late" =>
             u # t /\ call'[u] = call[u]
      BY <1>3, <1>4, <3>1, <3>2
    <3>5. Hands'
      <4>1. \A p \in inHand' : \E i \in GuardIds :
              /\ table[i].p = p /\ table[i].state = "alive" /\ Unheld(i)'
              /\ \A u \in Askers : call'[u].old # i
        <5>. SUFFICES ASSUME NEW p \in inHand'
                      PROVE  \E i \in GuardIds :
                                /\ table[i].p = p /\ table[i].state = "alive" /\ Unheld(i)'
                                /\ \A u \in Askers : call'[u].old # i
          OBVIOUS
        <5>1. CASE p \in inHand
          <6>1. PICK i \in GuardIds :
                  /\ table[i].p = p /\ table[i].state = "alive" /\ Unheld(i)
                  /\ \A u \in Askers : call[u].old # i
            BY <5>1 DEF Hands
          <6>2. \A u \in Askers : call'[u].old # i
            BY <1>3, <3>1, <6>1, GuardDomains
          <6>. QED
            BY <3>3, <6>1, <6>2
        <5>2. CASE p = table[old].p
          <6>1. \A u \in Askers : call'[u].old # old
            BY <1>3, <1>6, <2>1, <3>1
          <6>2. Unheld(call[t].old) /\ \E i \in GuardIds : i = old
            BY <2>1 DEF Unheld
          <6>3. PICK i \in GuardIds : i = old
            BY <6>2
          <6>. QED
            BY <2>1, <3>3, <5>2, <6>1, <6>2, <6>3
        <5>. QED
          BY <3>1, <5>1, <5>2
      <4>2. ASSUME NEW u \in Askers, call'[u].old # Nowhere
            PROVE  /\ call'[u].step \notin {"rest", "judge", "drop", "decommit"}
                   /\ table[call'[u].old].state = "alive" /\ table[call'[u].old].p \notin inHand'
        <5>1. u # t /\ call'[u] = call[u] /\ call[u].old # old
          BY <2>1, <3>4, <4>2
        <5>2. /\ call[u].step \notin {"rest", "judge", "drop", "decommit"}
              /\ table[call[u].old].state = "alive" /\ table[call[u].old].p \notin inHand
              /\ call[u].old \in GuardIds
          BY <4>2, <5>1 DEF Hands, GuardTypes, GuardCall
        <5>3. Based(call[u].old) /\ Based(old)
          BY <2>1, <5>2 DEF Extents
        <5>4. table[call[u].old].p # table[old].p
          BY <2>1, <5>1, <5>2, <5>3, EntryExtent, NamesApart
        <5>. QED
          BY <3>1, <5>1, <5>2, <5>4
      <4>3. \A u, v \in Askers : call'[u].old # Nowhere =>
                ~ (Releasing(v)' /\ call'[v].slot = call'[u].old)
        BY <3>4 DEF Hands, Unheld, Releasing
      <4>4. \A u, v \in Askers : call'[u].old # Nowhere /\ call'[v].old = call'[u].old => u = v
        BY <3>4 DEF Hands
      <4>5. \A u \in Askers : Releasing(u)' =>
              /\ call'[u].slot \in GuardIds /\ table[call'[u].slot].state # "never"
              /\ call'[u].step = "decommit" => table[call'[u].slot].state = "freed"
        BY <3>2, <3>4 DEF Hands
      <4>6. \A u \in Askers : call'[u].kind = "late" =>
              call'[u].step = "judge" /\ table[call'[u].slot].state = "freed"
        BY <3>4 DEF Hands
      <4>. QED
        BY <4>1, <4>2, <4>3, <4>4, <4>5, <4>6 DEF Hands, Unheld
    <3>6. UNCHANGED <<told, foreign, misuses>> => Verdicts'
      <4>1. \A u \in Askers : call'[u].step \in {"judge", "drop"} => Releasing(u)'
        BY DEF Releasing
      <4>. QED
        BY <3>2, <3>4, <4>1 DEF Verdicts
    <3>. QED
      BY <1>2, <1>3, <3>1, <3>5, <3>6
  <2>. QED
    BY <2>2, <2>3
<1>. QED
  BY <1>5, <1>6
-----------------------------------------------------------------------------
(* The steps that move one call.                                             *)
LEMMA GuardEnds ==
    ASSUME GuardInv, NEW t \in Askers, NEW good, WaveThrough(t, good) \/ GuardRefused(t, good)
    PROVE  GuardInv'
<1>. USE DEF GuardInv
<1>1. /\ Plainly(t, good) /\ call[t].step = "ask"
      /\ UNCHANGED <<under, table, gindex, pages, partial, told, foreign, misuses>>
  BY DEF WaveThrough, GuardRefused
<1>2. /\ \E c \in GuardCall : /\ c.step \in {"rest", "judge"}
                              /\ call' = [call EXCEPT ![t] = c]
      /\ Hands' /\ Verdicts'
  BY <1>1, PlainlyMoves
<1>3. PICK c \in GuardCall : c.step \in {"rest", "judge"} /\ call' = [call EXCEPT ![t] = c]
  BY <1>2
<1>4. misuses' \in Nat /\ ~ Filing(t)
  BY <1>1 DEF GuardTypes, Filing
<1>5. /\ GuardTypes' /\ Extents' /\ Strangers' /\ PagesFollow'
      /\ Filed' /\ Found' /\ Indexed'
  BY <1>1, <1>3, <1>4, CallMoves
<1>. QED
  BY <1>2, <1>5

LEMMA GuardMoves ==
    ASSUME GuardInv, NEW t \in Askers,
           (\E r \in Requests : GuardAsk(t, r)) \/ GuardCalm(t) \/ StepBack(t)
    PROVE  GuardInv'
<1>. USE DEF GuardInv
<1>1. UNCHANGED <<under, table, gindex, pages, partial, told, foreign, misuses, inHand>>
  BY DEF GuardAsk, GuardCalm, StepBack
<1>2. call \in [Askers -> GuardCall] /\ call[t] \in GuardCall
  BY DEF GuardTypes
<1>3. \E c \in GuardCall :
        /\ call' = [call EXCEPT ![t] = c]
        /\ c.step \notin {"rest", "judge", "drop", "decommit", "fields", "index", "born"}
        /\ c.user > 0 /\ c.old \in {Nowhere, call[t].old} /\ c.kind # "late"
        /\ c.step \in {"insert", "calm", "back", "undo"} =>
              /\ Carrying(t) /\ c.base = call[t].base
              /\ c.user = call[t].user /\ c.slack = call[t].slack
        /\ call[t].step \in {"rest", "calm", "back"}
  <2>1. CASE \E r \in Requests : GuardAsk(t, r)
    <3>1. PICK r \in Requests : GuardAsk(t, r)
      BY <2>1
    <3>2. r.user \in Nat \ {0} /\ r.slack \in Nat
      BY GuardDomains
    <3>3. /\ Wanting(r, Nowhere) \in GuardCall /\ Wanting(r, Nowhere).step = "ask"
          /\ Wanting(r, Nowhere).user = r.user /\ Wanting(r, Nowhere).old = Nowhere
          /\ Wanting(r, Nowhere).kind = "lawful"
      BY <3>2 DEF Wanting, Resting, GuardCall
    <3>4. call[t].step = "rest" /\ call' = [call EXCEPT ![t] = Wanting(r, Nowhere)]
      BY <3>1 DEF GuardAsk, Resting
    <3>. DEFINE c == Wanting(r, Nowhere)
    <3>5. c.step \notin {"insert", "calm", "back", "undo"} /\ c.user > 0 /\ c.kind # "late"
      BY <3>2, <3>3
    <3>. HIDE DEF c
    <3>. QED
      BY <3>3, <3>4, <3>5 DEF c
  <2>2. CASE GuardCalm(t)
    <3>. DEFINE c == [call[t] EXCEPT !.step = "back"]
    <3>1. c \in GuardCall /\ call' = [call EXCEPT ![t] = c] /\ call[t].step = "calm"
      BY <1>2, <2>2 DEF GuardCalm, GuardCall
    <3>2. Carrying(t) /\ c.user > 0
      BY <1>2, <3>1 DEF Carrying, Extents, GuardCall
    <3>3. c.kind # "late"
      BY <1>2, <3>1 DEF Hands, GuardCall
    <3>. QED
      BY <1>2, <3>1, <3>2, <3>3 DEF GuardCall
  <2>3. CASE StepBack(t)
    <3>. DEFINE c == [call[t] EXCEPT !.step = "undo"]
    <3>1. c \in GuardCall /\ call' = [call EXCEPT ![t] = c] /\ call[t].step = "back"
      BY <1>2, <2>3 DEF StepBack, GuardCall
    <3>2. Carrying(t) /\ c.user > 0
      BY <1>2, <3>1 DEF Carrying, Extents, GuardCall
    <3>3. c.kind # "late"
      BY <1>2, <3>1 DEF Hands, GuardCall
    <3>. QED
      BY <1>2, <3>1, <3>2, <3>3 DEF GuardCall
  <2>. QED
    BY <2>1, <2>2, <2>3
<1>4. PICK c \in GuardCall :
        /\ call' = [call EXCEPT ![t] = c]
        /\ c.step \notin {"rest", "judge", "drop", "decommit", "fields", "index", "born"}
        /\ c.user > 0 /\ c.old \in {Nowhere, call[t].old} /\ c.kind # "late"
        /\ c.step \in {"insert", "calm", "back", "undo"} =>
              /\ Carrying(t) /\ c.base = call[t].base
              /\ c.user = call[t].user /\ c.slack = call[t].slack
        /\ call[t].step \in {"rest", "calm", "back"}
  BY <1>3, Zenon
<1>5. misuses' \in Nat /\ ~ Filing(t)
  BY <1>1, <1>4 DEF GuardTypes, Filing
<1>6. /\ GuardTypes' /\ Extents' /\ Strangers' /\ PagesFollow'
      /\ Filed' /\ Found' /\ Indexed'
  BY <1>1, <1>4, <1>5, CallMoves
<1>7. Hands' /\ ("lawful" \notin foreign' /\ (misuses' = 0 => misuses = 0 /\ told' = {})
                         => Verdicts')
  BY <1>1, <1>4, HandsQuiet
<1>. QED
  BY <1>1, <1>6, <1>7 DEF Verdicts

\* What the program holds is filed, found, and nobody else's.
LEMMA HeldIs ==
    ASSUME GuardInv, NEW p \in inHand
    PROVE  \E i \in GuardIds :
              /\ i = GuardFind(p) /\ table[i].p = p /\ table[i].state = "alive" /\ Based(i)
              /\ \A u \in Askers : ~ (Releasing(u) /\ call[u].slot = i) /\ call[u].old # i
              /\ \A q \in Bytes(table[i]) : /\ Entry(q) \in {i, Nowhere}
                                            /\ q = p \/ i \notin partial => Entry(q) = i
<1>. USE DEF GuardInv
<1>1. PICK i \in GuardIds :
        /\ table[i].p = p /\ table[i].state = "alive" /\ Unheld(i)
        /\ \A u \in Askers : call[u].old # i
  BY DEF Hands
<1>2. Based(i)
  BY <1>1 DEF Extents
<1>3. ASSUME NEW q \in Bytes(table[i])
      PROVE  /\ Entry(q) \in {i, Nowhere}
             /\ q = p \/ i \notin partial => Entry(q) = i
             /\ GuardFind(p) = i
  <2>1. i \notin partial => IndexedAt(i, q)
    <3>1. q \in All(table[i])
      BY <1>2, EntryExtent
    <3>. QED
      BY <1>1, <3>1 DEF Indexed
  <2>. QED
    BY <1>1, <1>2, <2>1, EntryIs
<1>4. GuardFind(p) = i
  BY <1>1, <1>2, <1>3, EntryExtent
<1>5. \A u \in Askers : ~ (Releasing(u) /\ call[u].slot = i) /\ call[u].old # i
  BY <1>1 DEF Unheld
<1>6. \A q \in Bytes(table[i]) : /\ Entry(q) \in {i, Nowhere}
                                 /\ q = p \/ i \notin partial => Entry(q) = i
  BY <1>3
<1>. QED
  BY <1>1, <1>2, <1>4, <1>5, <1>6

(* A release, and the next one of the same block.                            *)
LEMMA GuardReleases ==
    ASSUME GuardInv, NEW t \in Askers, NEW p \in Space, NEW q \in Space, ReleaseFind(t, p, q)
    PROVE  GuardInv'
<1>. USE DEF GuardInv
<1>1. /\ call[t] = Resting /\ p \in inHand /\ inHand' = inHand \ {p}
      /\ UNCHANGED <<under, table, gindex, pages, partial, told, misuses>>
  BY DEF ReleaseFind
<1>2. PICK i \in GuardIds :
              /\ i = GuardFind(p) /\ table[i].p = p /\ table[i].state = "alive" /\ Based(i)
              /\ \A u \in Askers : ~ (Releasing(u) /\ call[u].slot = i) /\ call[u].old # i
              /\ \A x \in Bytes(table[i]) : /\ Entry(x) \in {i, Nowhere}
                                            /\ x = p \/ i \notin partial => Entry(x) = i
  BY <1>1, HeldIs
<1>3. q \in Bytes(table[i]) /\ i # Nowhere
  BY <1>2 DEF ReleaseFind
<1>. DEFINE d == [Resting EXCEPT !.step = "judge", !.slot = i]
            c == IF Entry(q) = Nowhere THEN Resting ELSE d
<1>4. /\ call' = [call EXCEPT ![t] = c] /\ "lawful" \notin foreign'
      /\ Entry(q) = Nowhere \/ Entry(q) = i
  <2>1. CASE Entry(q) = Nowhere
    <3>1. i \in partial /\ q # p
      BY <1>2, <1>3, <2>1
    <3>2. foreign' = foreign \cup {"partial"} /\ UNCHANGED call
      BY <1>2, <2>1, <3>1 DEF ReleaseFind
    <3>3. call' = [call EXCEPT ![t] = Resting]
      BY <1>1, <3>2 DEF GuardTypes
    <3>. QED
      BY <2>1, <3>2, <3>3 DEF Verdicts
  <2>2. CASE Entry(q) # Nowhere
    <3>1. Entry(q) = i
      BY <1>2, <1>3, <2>2
    <3>. QED
      BY <2>2, <3>1 DEF ReleaseFind, Verdicts
  <2>. QED
    BY <2>1, <2>2
<1>5. /\ c \in GuardCall /\ c.step \in {"rest", "judge"} /\ c.old = Nowhere /\ c.kind = "lawful"
      /\ c.step = "judge" => c.slot = i
  BY DEF Resting, GuardCall
<1>6. /\ call[t].step = "rest" /\ ~ Filing(t) /\ ~ Releasing(t) /\ misuses' \in Nat
  BY <1>1 DEF Resting, Filing, Releasing, GuardTypes
<1>. HIDE DEF c
<1>7. /\ GuardTypes' /\ Extents' /\ Strangers' /\ PagesFollow'
      /\ Filed' /\ Found' /\ Indexed'
  BY <1>1, <1>4, <1>5, <1>6, CallMoves
<1>8. /\ call \in [Askers -> GuardCall]
      /\ \A u \in Askers : call'[u] = IF u = t THEN c ELSE call[u]
  BY <1>4 DEF GuardTypes
<1>9. \A u \in Askers : Releasing(u)' => (u = t /\ call'[u].slot = i /\ call'[u].step = "judge")
                                         \/ (u # t /\ Releasing(u))
  BY <1>5, <1>8 DEF Releasing
<1>10. Hands'
  <2>1. ASSUME NEW r \in inHand'
        PROVE  \E j \in GuardIds :
                  /\ table[j].p = r /\ table[j].state = "alive" /\ Unheld(j)'
                  /\ \A u \in Askers : call'[u].old # j
    <3>1. PICK j \in GuardIds :
            /\ table[j].p = r /\ table[j].state = "alive" /\ Unheld(j)
            /\ \A u \in Askers : call[u].old # j
      BY <1>1 DEF Hands
    <3>2. j # i
      BY <1>1, <1>2, <3>1
    <3>3. Unheld(j)'
      BY <1>8, <1>9, <3>1, <3>2 DEF Unheld
    <3>4. \A u \in Askers : call'[u].old # j
      BY <1>5, <1>8, <3>1, GuardDomains
    <3>. QED
      BY <3>1, <3>3, <3>4
  <2>2. \A u \in Askers : call'[u].old # Nowhere =>
          /\ u # t /\ call'[u] = call[u] /\ call[u].old # i
          /\ call'[u].step \notin {"rest", "judge", "drop", "decommit"}
          /\ table[call'[u].old].state = "alive" /\ table[call'[u].old].p \notin inHand'
    BY <1>1, <1>2, <1>5, <1>8 DEF Hands
  <2>3. \A u, v \in Askers : call'[u].old # Nowhere =>
                ~ (Releasing(v)' /\ call'[v].slot = call'[u].old)
    <3>. SUFFICES ASSUME NEW u \in Askers, NEW v \in Askers, call'[u].old # Nowhere,
                         Releasing(v)', call'[v].slot = call'[u].old
                  PROVE  FALSE
      OBVIOUS
    <3>1. call'[u] = call[u] /\ call[u].old # i /\ u # t
      BY <2>2
    <3>2. v # t /\ Releasing(v) /\ call'[v] = call[v]
      BY <1>8, <1>9, <3>1
    <3>. QED
      BY <3>1, <3>2 DEF Hands, Unheld
  <2>4. \A u, v \in Askers : call'[u].old # Nowhere /\ call'[v].old = call'[u].old => u = v
    BY <2>2 DEF Hands
  <2>5. \A u \in Askers : Releasing(u)' =>
          /\ call'[u].slot \in GuardIds /\ table[call'[u].slot].state # "never"
          /\ call'[u].step = "decommit" => table[call'[u].slot].state = "freed"
    BY <1>2, <1>8, <1>9 DEF Hands
  <2>6. \A u \in Askers : call'[u].kind = "late" =>
          call'[u].step = "judge" /\ table[call'[u].slot].state = "freed"
    BY <1>5, <1>8 DEF Hands
  <2>7. UNCHANGED table
    BY <1>1
  <2>. QED
    BY <2>1, <2>2, <2>3, <2>4, <2>5, <2>6, <2>7 DEF Hands, Unheld
<1>11. Verdicts'
  <2>. SUFFICES ASSUME misuses = 0, NEW u \in Askers, call'[u].step \in {"judge", "drop"}
                PROVE  /\ table[call'[u].slot].state = "alive"
                       /\ \A v \in Askers : Releasing(v)' /\ call'[v].slot = call'[u].slot => v = u
    BY <1>1, <1>4 DEF Verdicts
  <2>1. Releasing(u)'
    BY DEF Releasing
  <2>2. CASE u = t
    <3>1. call'[u].slot = i
      BY <1>9, <2>1, <2>2
    <3>2. \A v \in Askers : Releasing(v)' /\ call'[v].slot = i => v = t
      BY <1>2, <1>8, <1>9
    <3>. QED
      BY <1>2, <2>2, <3>1, <3>2
  <2>3. CASE u # t
    <3>1. call'[u] = call[u] /\ Releasing(u) /\ call[u].slot # i
      BY <1>2, <1>8, <1>9, <2>1, <2>3
    <3>2. \A v \in Askers : Releasing(v)' /\ call'[v].slot = call[u].slot =>
             Releasing(v) /\ call'[v] = call[v]
      BY <1>8, <1>9, <3>1
    <3>. QED
      BY <3>1, <3>2 DEF Verdicts
  <2>. QED
    BY <2>2, <2>3
<1>. QED
  BY <1>7, <1>10, <1>11
LEMMA GuardReleasesAgain ==
    ASSUME GuardInv, NEW t \in Askers, NEW i \in GuardIds, ReleaseAgain(t, i)
    PROVE  GuardInv'
<1>. USE DEF GuardInv
<1>1. /\ call[t] = Resting /\ table[i].state # "never" /\ table[i].p \notin inHand
      /\ \A u \in Askers : call[u].old # i
      /\ misuses' = misuses + 1
      /\ UNCHANGED <<under, table, gindex, pages, partial, told, foreign, inHand>>
  BY DEF ReleaseAgain
<1>2. Based(i)
  BY <1>1 DEF Extents
<1>3. GuardFind(table[i].p) = i
  BY <1>2, EntryExtent, EntryIs
<1>. DEFINE c == [Resting EXCEPT !.step = "judge", !.slot = i,
                    !.kind = IF table[i].state = "freed" THEN "late" ELSE "racing"]
<1>4. call' = [call EXCEPT ![t] = c]
  BY <1>3 DEF ReleaseAgain
<1>5. /\ c \in GuardCall /\ c.step = "judge" /\ c.old = Nowhere /\ c.slot = i
      /\ c.kind = "late" => table[i].state = "freed"
  BY DEF Resting, GuardCall
<1>6. /\ call[t].step = "rest" /\ ~ Filing(t) /\ ~ Releasing(t)
      /\ misuses' \in Nat /\ misuses' # 0
  BY <1>1 DEF Resting, Filing, Releasing, GuardTypes
<1>. HIDE DEF c
<1>7. /\ GuardTypes' /\ Extents' /\ Strangers' /\ PagesFollow'
      /\ Filed' /\ Found' /\ Indexed'
  BY <1>1, <1>4, <1>5, <1>6, CallMoves
<1>8. /\ call \in [Askers -> GuardCall]
      /\ \A u \in Askers : call'[u] = IF u = t THEN c ELSE call[u]
  BY <1>4 DEF GuardTypes
<1>9. \A u \in Askers : Releasing(u)' => (u = t /\ call'[u].slot = i /\ call'[u].step = "judge")
                                         \/ (u # t /\ Releasing(u))
  BY <1>5, <1>8 DEF Releasing
<1>10. Hands'
  <2>1. ASSUME NEW r \in inHand'
        PROVE  \E j \in GuardIds :
                  /\ table[j].p = r /\ table[j].state = "alive" /\ Unheld(j)'
                  /\ \A u \in Askers : call'[u].old # j
    <3>1. PICK j \in GuardIds :
            /\ table[j].p = r /\ table[j].state = "alive" /\ Unheld(j)
            /\ \A u \in Askers : call[u].old # j
      BY <1>1 DEF Hands
    <3>2. j # i
      BY <1>1, <3>1
    <3>3. Unheld(j)'
      BY <1>8, <1>9, <3>1, <3>2 DEF Unheld
    <3>4. \A u \in Askers : call'[u].old # j
      BY <1>5, <1>8, <3>1, GuardDomains
    <3>. QED
      BY <3>1, <3>3, <3>4
  <2>2. \A u \in Askers : call'[u].old # Nowhere =>
          /\ u # t /\ call'[u] = call[u] /\ call[u].old # i
          /\ call'[u].step \notin {"rest", "judge", "drop", "decommit"}
          /\ table[call'[u].old].state = "alive" /\ table[call'[u].old].p \notin inHand'
    BY <1>1, <1>5, <1>8 DEF Hands
  <2>3. \A u, v \in Askers : call'[u].old # Nowhere =>
                ~ (Releasing(v)' /\ call'[v].slot = call'[u].old)
    <3>. SUFFICES ASSUME NEW u \in Askers, NEW v \in Askers, call'[u].old # Nowhere,
                         Releasing(v)', call'[v].slot = call'[u].old
                  PROVE  FALSE
      OBVIOUS
    <3>1. call'[u] = call[u] /\ call[u].old # i /\ u # t
      BY <2>2
    <3>2. v # t /\ Releasing(v) /\ call'[v] = call[v]
      BY <1>8, <1>9, <3>1
    <3>. QED
      BY <3>1, <3>2 DEF Hands, Unheld
  <2>4. \A u, v \in Askers : call'[u].old # Nowhere /\ call'[v].old = call'[u].old => u = v
    BY <2>2 DEF Hands
  <2>5. \A u \in Askers : Releasing(u)' =>
          /\ call'[u].slot \in GuardIds /\ table[call'[u].slot].state # "never"
          /\ call'[u].step = "decommit" => table[call'[u].slot].state = "freed"
    BY <1>1, <1>8, <1>9 DEF Hands
  <2>6. \A u \in Askers : call'[u].kind = "late" =>
          call'[u].step = "judge" /\ table[call'[u].slot].state = "freed"
    BY <1>5, <1>8 DEF Hands
  <2>7. UNCHANGED table
    BY <1>1
  <2>. QED
    BY <2>1, <2>2, <2>3, <2>4, <2>5, <2>6, <2>7 DEF Hands, Unheld
<1>11. Verdicts'
  BY <1>1, <1>6 DEF Verdicts
<1>. QED
  BY <1>7, <1>10, <1>11

LEMMA GuardJudges == ASSUME GuardInv, NEW t \in Askers, Judge(t) PROVE GuardInv'
<1>. USE DEF GuardInv
<1>1. /\ call[t].step = "judge" /\ call[t] \in GuardCall
      /\ UNCHANGED <<under, table, gindex, pages, partial, foreign, inHand, misuses>>
  BY DEF Judge, GuardTypes
<1>2. Releasing(t) /\ ~ Filing(t) /\ misuses' \in Nat
  BY <1>1 DEF Releasing, Filing, GuardTypes
<1>3. /\ call[t].slot \in GuardIds /\ table[call[t].slot].state # "never"
      /\ call[t].old = Nowhere
  BY <1>1, <1>2 DEF Hands
<1>4. CASE table[call[t].slot].state = "freed"
  <2>1. told' = told \cup {call[t].kind} /\ call' = [call EXCEPT ![t] = Resting]
    BY <1>4 DEF Judge
  <2>2. /\ Resting \in GuardCall /\ Resting.step = "rest" /\ Resting.old = Nowhere
        /\ Resting.kind = "lawful"
    BY DEF Resting, GuardCall
  <2>3. misuses # 0
    BY <1>1, <1>4 DEF Verdicts
  <2>4. /\ GuardTypes' /\ Extents' /\ Strangers' /\ PagesFollow'
        /\ Filed' /\ Found' /\ Indexed'
    BY <1>1, <1>2, <2>1, <2>2, CallMoves
  <2>5. Hands' /\ ("lawful" \notin foreign' /\ (misuses' = 0 => misuses = 0 /\ told' = {})
                         => Verdicts')
    BY <1>1, <2>1, <2>2, HandsQuiet
  <2>. QED
    BY <1>1, <2>3, <2>4, <2>5 DEF Verdicts
<1>5. CASE table[call[t].slot].state # "freed"
  <2>. DEFINE c == [call[t] EXCEPT !.step = "drop"]
  <2>1. call' = [call EXCEPT ![t] = c] /\ UNCHANGED told
    BY <1>1, <1>5 DEF Judge
  <2>2. /\ c \in GuardCall /\ c.step = "drop" /\ c.old = Nowhere /\ c.kind # "late"
        /\ c.slot = call[t].slot
    BY <1>1, <1>3, <1>5 DEF GuardCall, Hands
  <2>. HIDE DEF c
  <2>3. /\ GuardTypes' /\ Extents' /\ Strangers' /\ PagesFollow'
        /\ Filed' /\ Found' /\ Indexed'
    BY <1>1, <1>2, <2>1, <2>2, CallMoves
  <2>4. /\ call \in [Askers -> GuardCall]
        /\ \A u \in Askers : call'[u] = IF u = t THEN c ELSE call[u]
    BY <2>1 DEF GuardTypes
  <2>5. \A u \in Askers : /\ Releasing(u)' <=> Releasing(u)
                          /\ call'[u].slot = call[u].slot /\ call'[u].old = call[u].old
                          /\ call'[u].step = "decommit" \/ call'[u].old # Nowhere
                                \/ call'[u].kind = "late" => call'[u] = call[u]
    BY <1>1, <1>2, <1>3, <2>2, <2>4 DEF Releasing
  <2>6. \A i : Unheld(i)' <=> Unheld(i)
    BY <2>5 DEF Unheld
  <2>7. Hands'
    <3>1. \A p \in inHand' : \E i \in GuardIds :
            /\ table'[i].p = p /\ table'[i].state = "alive" /\ Unheld(i)'
            /\ \A u \in Askers : call'[u].old # i
      BY <1>1, <2>5, <2>6 DEF Hands
    <3>2. \A u \in Askers : call'[u].old # Nowhere =>
            /\ call'[u].step \notin {"rest", "judge", "drop", "decommit"}
            /\ table'[call'[u].old].state = "alive" /\ table'[call'[u].old].p \notin inHand'
            /\ \A v \in Askers : ~ (Releasing(v)' /\ call'[v].slot = call'[u].old)
            /\ \A v \in Askers : call'[v].old = call'[u].old => v = u
      BY <1>1, <2>5 DEF Hands, Unheld
    <3>3. \A u \in Askers : Releasing(u)' =>
            /\ call'[u].slot \in GuardIds /\ table'[call'[u].slot].state # "never"
            /\ call'[u].step = "decommit" => table'[call'[u].slot].state = "freed"
      BY <1>1, <2>5 DEF Hands
    <3>4. \A u \in Askers : call'[u].kind = "late" =>
            call'[u].step = "judge" /\ table'[call'[u].slot].state = "freed"
      BY <1>1, <2>5 DEF Hands
    <3>. QED
      BY <3>1, <3>2, <3>3, <3>4 DEF Hands, Unheld
  <2>8. Verdicts'
    <3>1. \A u \in Askers :
            call'[u].step \in {"judge", "drop"} => call[u].step \in {"judge", "drop"}
      BY <1>1, <2>4
    <3>. QED
      BY <1>1, <2>1, <2>5, <3>1 DEF Verdicts
  <2>. QED
    BY <2>3, <2>7, <2>8
<1>. QED
  BY <1>4, <1>5

\* A resize takes the block out of the program's hands while it looks for another.
LEMMA GuardResizes ==
    ASSUME GuardInv, NEW t \in Askers, NEW p \in Space, NEW r \in Requests, ResizeMove(t, p, r)
    PROVE  GuardInv'
<1>. USE DEF GuardInv
<1>1. /\ call[t] = Resting /\ p \in inHand /\ inHand' = inHand \ {p}
      /\ UNCHANGED <<under, table, gindex, pages, partial, told, foreign, misuses>>
  BY DEF ResizeMove
<1>2. PICK i \in GuardIds :
        /\ i = GuardFind(p) /\ table[i].p = p /\ table[i].state = "alive" /\ Based(i)
        /\ \A u \in Askers : ~ (Releasing(u) /\ call[u].slot = i) /\ call[u].old # i
  <2>1. \E i \in GuardIds :
          /\ i = GuardFind(p) /\ table[i].p = p /\ table[i].state = "alive" /\ Based(i)
          /\ \A u \in Askers : ~ (Releasing(u) /\ call[u].slot = i) /\ call[u].old # i
    BY <1>1, HeldIs
  <2>. QED
    BY <2>1
<1>. DEFINE c == Wanting(r, i)
<1>3. r.user \in Nat \ {0} /\ r.slack \in Nat
  BY GuardDomains
<1>4. call' = [call EXCEPT ![t] = c]
  BY <1>2 DEF ResizeMove
<1>5. /\ c \in GuardCall /\ c.step = "ask" /\ c.old = i /\ c.kind = "lawful" /\ c.user > 0
  <2>1. c = [Resting EXCEPT !.step = "ask", !.user = r.user, !.slack = r.slack, !.old = i]
    BY DEF Wanting
  <2>2. c = [step |-> "ask", base |-> Nowhere, user |-> r.user, slack |-> r.slack,
             slot |-> Nowhere, granule |-> Nowhere, old |-> i, kind |-> "lawful"]
    BY <2>1 DEF Resting
  <2>. HIDE DEF c
  <2>3. c \in GuardCall
    BY <1>3, <2>2 DEF GuardCall
  <2>. QED
    BY <1>3, <2>2, <2>3
<1>6. /\ call[t].step = "rest" /\ ~ Filing(t) /\ ~ Releasing(t) /\ misuses' \in Nat
      /\ i # Nowhere
  BY <1>1, GuardDomains DEF Resting, Filing, Releasing, GuardTypes
<1>. HIDE DEF c
<1>7. /\ GuardTypes' /\ Extents' /\ Strangers' /\ PagesFollow'
      /\ Filed' /\ Found' /\ Indexed'
  BY <1>1, <1>4, <1>5, <1>6, CallMoves
<1>8. /\ call \in [Askers -> GuardCall]
      /\ \A u \in Askers : call'[u] = IF u = t THEN c ELSE call[u]
  BY <1>4 DEF GuardTypes
<1>9. \A u \in Askers : Releasing(u)' <=> u # t /\ Releasing(u)
  BY <1>5, <1>6, <1>8 DEF Releasing
<1>10. Hands'
  <2>1. ASSUME NEW x \in inHand'
        PROVE  \E j \in GuardIds :
                  /\ table[j].p = x /\ table[j].state = "alive" /\ Unheld(j)'
                  /\ \A u \in Askers : call'[u].old # j
    <3>1. PICK j \in GuardIds :
            /\ table[j].p = x /\ table[j].state = "alive" /\ Unheld(j)
            /\ \A u \in Askers : call[u].old # j
      BY <1>1 DEF Hands
    <3>2. j # i
      BY <1>1, <1>2, <3>1
    <3>3. Unheld(j)'
      BY <1>8, <1>9, <3>1 DEF Unheld
    <3>4. \A u \in Askers : call'[u].old # j
      BY <1>5, <1>8, <3>1, <3>2
    <3>. QED
      BY <3>1, <3>3, <3>4
  <2>2. ASSUME NEW u \in Askers, call'[u].old # Nowhere
        PROVE  /\ call'[u].step \notin {"rest", "judge", "drop", "decommit"}
               /\ table[call'[u].old].state = "alive" /\ table[call'[u].old].p \notin inHand'
               /\ \A v \in Askers : ~ (Releasing(v)' /\ call'[v].slot = call'[u].old)
               /\ \A v \in Askers : call'[v].old = call'[u].old => v = u
    <3>1. CASE u = t
      BY <1>1, <1>2, <1>5, <1>8, <1>9, <3>1
    <3>2. CASE u # t
      <4>1. call'[u] = call[u] /\ call[u].old # i
        BY <1>2, <1>8, <3>2
      <4>2. \A v \in Askers : ~ (Releasing(v)' /\ call'[v].slot = call[u].old)
        BY <1>8, <1>9, <2>2, <4>1 DEF Hands, Unheld
      <4>3. \A v \in Askers : call'[v].old = call[u].old => v = u
        BY <1>5, <1>8, <2>2, <4>1 DEF Hands
      <4>4. /\ call[u].step \notin {"rest", "judge", "drop", "decommit"}
            /\ table[call[u].old].state = "alive" /\ table[call[u].old].p \notin inHand'
        BY <1>1, <2>2, <4>1 DEF Hands
      <4>. QED
        BY <4>1, <4>2, <4>3, <4>4
    <3>. QED
      BY <3>1, <3>2
  <2>3. \A u \in Askers : Releasing(u)' =>
          /\ call'[u].slot \in GuardIds /\ table[call'[u].slot].state # "never"
          /\ call'[u].step = "decommit" => table[call'[u].slot].state = "freed"
    BY <1>8, <1>9 DEF Hands
  <2>4. \A u \in Askers : call'[u].kind = "late" =>
          call'[u].step = "judge" /\ table[call'[u].slot].state = "freed"
    BY <1>5, <1>8 DEF Hands
  <2>5. UNCHANGED table
    BY <1>1
  <2>. QED
    BY <2>1, <2>2, <2>3, <2>4, <2>5 DEF Hands, Unheld
<1>11. Verdicts'
  <2>1. \A u \in Askers : call'[u].step \in {"judge", "drop"} => u # t /\ call'[u] = call[u]
    BY <1>5, <1>8
  <2>2. \A u \in Askers : Releasing(u)' => Releasing(u) /\ call'[u] = call[u]
    BY <1>8, <1>9
  <2>. QED
    BY <1>1, <2>1, <2>2 DEF Verdicts
<1>. QED
  BY <1>7, <1>10, <1>11
-----------------------------------------------------------------------------
(* The steps that change what is there.                                      *)
\* No page of a block, or of one that is being made, is free.
LEMMA PagesTaken ==
    ASSUME GuardTypes, Extents, PagesFollow
    PROVE  /\ \A i \in GuardIds : Based(i) => \A g \in All(table[i]) : pages[g] # "free"
           /\ \A t \in Askers : Carrying(t) => \A g \in All(call[t]) : pages[g] # "free"
<1>1. ASSUME NEW i \in GuardIds, Based(i), NEW g \in All(table[i]) PROVE pages[g] # "free"
  <2>1. g = Guard(table[i]) \/ g \in Data(table[i])
    BY <1>1, EntryExtent, ExtentIs
  <2>. QED
    BY <1>1, <2>1 DEF PagesFollow
<1>2. ASSUME NEW t \in Askers, Carrying(t), NEW g \in All(call[t]) PROVE pages[g] # "free"
  <2>1. g = Guard(call[t]) \/ g \in Data(call[t])
    BY <1>2, CallExtent, ExtentIs
  <2>. QED
    BY <1>2, <2>1, CallExtent DEF Ready
<1>. QED
  BY <1>1, <1>2

LEMMA GuardReserves ==
    ASSUME GuardInv, NEW t \in Askers, NEW b \in Space, GuardReserve(t, b) PROVE GuardInv'
<1>. USE DEF GuardInv
<1>. DEFINE c == [call[t] EXCEPT !.base = b, !.step = "insert"]
<1>1. /\ call[t].step = "ask" /\ call[t] \in GuardCall /\ call' = [call EXCEPT ![t] = c]
      /\ \A g \in All(c) : g \in Space /\ pages[g] = "free"
      /\ pages' = [g \in Space |-> IF g \in Data(c) THEN "committed"
                                   ELSE IF g \in All(c) THEN "reserved" ELSE pages[g]]
      /\ UNCHANGED <<under, table, gindex, partial, told, foreign, inHand, misuses>>
  BY DEF GuardReserve, GuardTypes
<1>2. /\ c \in GuardCall /\ c.step = "insert" /\ c.old = call[t].old /\ c.base = b
      /\ c.user \in Nat /\ c.slack \in Nat /\ c.user > 0
  <2>1. call[t].user > 0
    BY <1>1 DEF Extents
  <2>. QED
    BY <1>1, <2>1 DEF GuardCall
<1>3. c.kind # "late"
  BY <1>1 DEF Hands, GuardCall
<1>4. Whole(c)
  BY <1>1, <1>2 DEF Whole
<1>5. /\ Data(c) \subseteq All(c) /\ Guard(c) \in All(c) /\ Guard(c) \notin Data(c)
      /\ All(c) \subseteq Space
  BY <1>2, <1>4, ExtentIs
<1>. HIDE DEF c
<1>6. /\ pages'[Guard(c)] = "reserved" /\ \A g \in Data(c) : pages'[g] = "committed"
      /\ \A g \in Space : g \notin All(c) => pages'[g] = pages[g]
      /\ pages' \in [Space -> {"free", "reserved", "committed"}]
  BY <1>1, <1>5 DEF GuardTypes
<1>7. /\ call \in [Askers -> GuardCall]
      /\ \A u \in Askers : call'[u] = IF u = t THEN c ELSE call[u]
  BY <1>1 DEF GuardTypes
<1>8. \A u \in Askers : /\ Carrying(u)' <=> u = t \/ Carrying(u)
                        /\ Filing(u)' <=> Filing(u)
                        /\ Filing(u) => u # t
                        /\ ~ (Carrying(u) /\ u = t)
  BY <1>1, <1>2, <1>7 DEF Carrying, Filing
<1>9. /\ \A i \in GuardIds : Based(i) => All(table[i]) \cap All(c) = {}
      /\ \A u \in Askers : Carrying(u) => All(call[u]) \cap All(c) = {}
  BY <1>1, PagesTaken
<1>10. /\ \A i \in GuardIds : Based(i) => \A g \in All(table[i]) : pages'[g] = pages[g]
       /\ \A u \in Askers : Carrying(u) => \A g \in All(call[u]) : pages'[g] = pages[g]
  BY <1>6, <1>9, EntryExtent, CallExtent
<1>11. GuardTypes'
  BY <1>1, <1>2, <1>6, <1>7 DEF GuardTypes
<1>12. /\ \A i \in GuardIds : /\ Based(i)' <=> Based(i)
                              /\ Named(i)' <=> Named(i)
                              /\ Address(table[i])' = Address(table[i])
                              /\ All(table[i])' = All(table[i])
                              /\ Data(table[i])' = Data(table[i])
                              /\ Guard(table[i])' = Guard(table[i])
                              /\ Whole(table[i])' = Whole(table[i])
       /\ \A u \in Askers : /\ Address(call[u])' = Address(call'[u])
                            /\ All(call[u])' = All(call'[u])
                            /\ Whole(call[u])' = Whole(call'[u])
                            /\ Data(call[u])' = Data(call'[u])
                            /\ Guard(call[u])' = Guard(call'[u])
  BY <1>1 DEF Based, Named, Address, All, Data, Guard, Whole
<1>13. \A u \in Askers : Carrying(u)' => Ready(call[u])'
  <2>1. ASSUME NEW u \in Askers, Carrying(u)'
        PROVE  /\ pages'[Guard(call'[u])] = "reserved"
               /\ \A g \in Data(call'[u]) : pages'[g] = "committed"
    <3>1. CASE u = t
      BY <1>6, <1>7, <3>1
    <3>2. CASE u # t
      <4>1. Carrying(u) /\ call'[u] = call[u]
        BY <1>7, <1>8, <2>1, <3>2
      <4>. QED
        BY <1>10, <4>1, CallExtent DEF Ready
    <3>. QED
      BY <3>1, <3>2
  <2>. QED
    BY <1>12, <2>1 DEF Ready
<1>14. Extents'
  <2>1. ASSUME NEW u \in Askers
        PROVE  /\ call'[u].step \notin {"rest", "judge", "drop", "decommit"} => call'[u].user > 0
               /\ Carrying(u)' => Whole(call'[u])
    BY <1>2, <1>4, <1>7, <1>8 DEF Extents
  <2>. QED
    BY <1>1, <1>12, <1>13, <2>1 DEF Extents
<1>15. Strangers'
  <2>1. ASSUME NEW i \in GuardIds, NEW u \in Askers, Based(i), Carrying(u)'
        PROVE  All(table[i]) \cap All(call'[u]) = {}
    BY <1>7, <1>8, <1>9, <2>1 DEF Strangers
  <2>2. ASSUME NEW u \in Askers, NEW v \in Askers, Carrying(u)', Carrying(v)', u # v
        PROVE  All(call'[u]) \cap All(call'[v]) = {}
    <3>1. CASE u = t
      BY <1>7, <1>8, <1>9, <2>2, <3>1
    <3>2. CASE v = t
      BY <1>7, <1>8, <1>9, <2>2, <3>2
    <3>3. CASE u # t /\ v # t
      BY <1>7, <1>8, <2>2, <3>3 DEF Strangers
    <3>. QED
      BY <3>1, <3>2, <3>3
  <2>. QED
    BY <1>12, <2>1, <2>2 DEF Strangers
<1>16. PagesFollow'
  <2>. SUFFICES ASSUME NEW i \in GuardIds, Based(i)
                PROVE  /\ pages'[Guard(table[i])] = "reserved"
                       /\ \A g \in Data(table[i]) : pages'[g] # "free"
                       /\ table[i].state # "freed" =>
                             \A g \in Data(table[i]) : pages'[g] = "committed"
                       /\ table[i].state = "freed" =>
                             \/ \E u \in Askers : call'[u].step = "decommit" /\ call'[u].slot = i
                             \/ \A g \in Data(table[i]) : pages'[g] = "reserved"
    BY <1>1, <1>12 DEF PagesFollow
  <2>1. \A g \in Data(table[i]) \cup {Guard(table[i])} : pages'[g] = pages[g]
    BY <1>10, EntryExtent
  <2>2. \A u \in Askers : call[u].step = "decommit" => call'[u] = call[u]
    BY <1>1, <1>7
  <2>. QED
    BY <2>1, <2>2 DEF PagesFollow
<1>17. Filed'
  <2>1. \A u \in Askers : Filing(u) => call'[u] = call[u]
    BY <1>7, <1>8
  <2>2. \A i \in GuardIds : Named(i) /\ ~ Based(i) =>
          \E u \in Askers : call'[u].step = "fields" /\ call'[u].slot = i
    <3>1. \A u \in Askers : call[u].step = "fields" => call'[u] = call[u]
      BY <2>1 DEF Filing
    <3>. QED
      BY <3>1 DEF Filed
  <2>. QED
    BY <1>1, <1>8, <1>12, <2>1, <2>2 DEF Filed
<1>18. Found'
  <2>1. \A i \in GuardIds : FoundAt(i)' = FoundAt(i)
    BY <1>1 DEF FoundAt, TableProbes
  <2>. QED
    BY <1>12, <2>1 DEF Found
<1>19. Indexed'
  <2>1. \A i, g : IndexedAt(i, g)' = IndexedAt(i, g)
    BY <1>1 DEF IndexedAt, IndexProbes
  <2>2. \A u \in Askers : call'[u].step \in {"index", "born"} => call'[u] = call[u]
    BY <1>2, <1>7
  <2>. QED
    BY <1>1, <1>12, <2>1, <2>2 DEF Indexed
<1>20. Hands' /\ ("lawful" \notin foreign' /\ (misuses' = 0 => misuses = 0 /\ told' = {})
                         => Verdicts')
  BY <1>1, <1>2, <1>3, HandsQuiet
<1>. QED
  BY <1>1, <1>11, <1>14, <1>15, <1>16, <1>17, <1>18, <1>19, <1>20 DEF Verdicts

\* The extent of a call that could not be filed goes back.
LEMMA GuardUndoes ==
    ASSUME GuardInv, NEW t \in Askers, NEW good, GuardUndo(t, good) PROVE GuardInv'
<1>. USE DEF GuardInv
<1>1. /\ call[t].step = "undo" /\ Plainly(t, good)
      /\ pages' = [g \in Space |-> IF g \in All(call[t]) THEN "free" ELSE pages[g]]
      /\ UNCHANGED <<under, table, gindex, partial, told, foreign, misuses>>
  BY DEF GuardUndo
<1>2. /\ \E c \in GuardCall : /\ c.step \in {"rest", "judge"}
                              /\ call' = [call EXCEPT ![t] = c]
      /\ Hands' /\ Verdicts'
  BY <1>1, PlainlyMoves
<1>3. PICK c \in GuardCall : c.step \in {"rest", "judge"} /\ call' = [call EXCEPT ![t] = c]
  BY <1>2
<1>4. /\ call \in [Askers -> GuardCall]
      /\ \A u \in Askers : call'[u] = IF u = t THEN c ELSE call[u]
  BY <1>3 DEF GuardTypes
<1>5. \A u \in Askers : /\ Carrying(u)' <=> u # t /\ Carrying(u)
                        /\ Filing(u)' <=> Filing(u)
                        /\ Filing(u) => u # t
                        /\ Carrying(u)' \/ Filing(u)' => call'[u] = call[u]
  BY <1>1, <1>3, <1>4 DEF Carrying, Filing
<1>6. Carrying(t)
  BY <1>1 DEF Carrying
<1>7. /\ \A g \in Space : g \notin All(call[t]) => pages'[g] = pages[g]
      /\ pages' \in [Space -> {"free", "reserved", "committed"}]
  BY <1>1 DEF GuardTypes
<1>8. /\ \A i \in GuardIds : Based(i) => \A g \in All(table[i]) : pages'[g] = pages[g]
      /\ \A u \in Askers : Carrying(u)' => \A g \in All(call[u]) : pages'[g] = pages[g]
  BY <1>5, <1>6, <1>7, EntryExtent, CallExtent DEF Strangers
<1>9. GuardTypes'
  BY <1>1, <1>3, <1>7 DEF GuardTypes
<1>10. /\ \A i \in GuardIds : /\ Based(i)' <=> Based(i)
                              /\ Named(i)' <=> Named(i)
                              /\ Address(table[i])' = Address(table[i])
                              /\ All(table[i])' = All(table[i])
                              /\ Data(table[i])' = Data(table[i])
                              /\ Guard(table[i])' = Guard(table[i])
                              /\ Whole(table[i])' = Whole(table[i])
       /\ \A u \in Askers : /\ Address(call[u])' = Address(call'[u])
                            /\ All(call[u])' = All(call'[u])
                            /\ Whole(call[u])' = Whole(call'[u])
                            /\ Data(call[u])' = Data(call'[u])
                            /\ Guard(call[u])' = Guard(call'[u])
  BY <1>1 DEF Based, Named, Address, All, Data, Guard, Whole
<1>11. Extents'
  <2>1. \A u \in Askers : call'[u].step \notin {"rest", "judge", "drop", "decommit"} =>
           call'[u].user > 0
    BY <1>3, <1>4 DEF Extents
  <2>2. ASSUME NEW u \in Askers, Carrying(u)'
        PROVE  Whole(call'[u]) /\ Ready(call[u])'
    <3>1. Carrying(u) /\ call'[u] = call[u]
      BY <1>5, <2>2
    <3>2. /\ pages'[Guard(call'[u])] = "reserved"
          /\ \A g \in Data(call'[u]) : pages'[g] = "committed"
      BY <1>8, <2>2, <3>1, CallExtent DEF Ready
    <3>. QED
      BY <1>10, <3>1, <3>2, CallExtent DEF Ready
  <2>. QED
    BY <1>1, <1>10, <2>1, <2>2 DEF Extents
<1>12. Strangers'
  BY <1>5, <1>10 DEF Strangers
<1>13. PagesFollow'
  <2>. SUFFICES ASSUME NEW i \in GuardIds, Based(i)
                PROVE  /\ pages'[Guard(table[i])] = "reserved"
                       /\ \A g \in Data(table[i]) : pages'[g] # "free"
                       /\ table[i].state # "freed" =>
                             \A g \in Data(table[i]) : pages'[g] = "committed"
                       /\ table[i].state = "freed" =>
                             \/ \E u \in Askers : call'[u].step = "decommit" /\ call'[u].slot = i
                             \/ \A g \in Data(table[i]) : pages'[g] = "reserved"
    BY <1>1, <1>10 DEF PagesFollow
  <2>1. \A g \in Data(table[i]) \cup {Guard(table[i])} : pages'[g] = pages[g]
    BY <1>8, EntryExtent
  <2>2. \A u \in Askers : call[u].step = "decommit" => call'[u] = call[u]
    BY <1>1, <1>4
  <2>. QED
    BY <2>1, <2>2 DEF PagesFollow
<1>14. Filed'
  <2>1. \A i \in GuardIds : Named(i) /\ ~ Based(i) =>
          \E u \in Askers : call'[u].step = "fields" /\ call'[u].slot = i
    <3>1. \A u \in Askers : call[u].step = "fields" => call'[u] = call[u]
      BY <1>5 DEF Filing
    <3>. QED
      BY <3>1 DEF Filed
  <2>. QED
    BY <1>1, <1>5, <1>10, <2>1 DEF Filed
<1>15. Found'
  <2>1. \A i \in GuardIds : FoundAt(i)' = FoundAt(i)
    BY <1>1 DEF FoundAt, TableProbes
  <2>. QED
    BY <1>10, <2>1 DEF Found
<1>16. Indexed'
  <2>1. \A i, g : IndexedAt(i, g)' = IndexedAt(i, g)
    BY <1>1 DEF IndexedAt, IndexProbes
  <2>2. \A u \in Askers : call'[u].step \in {"index", "born"} => call'[u] = call[u]
    BY <1>3, <1>4
  <2>. QED
    BY <1>1, <1>10, <2>1, <2>2 DEF Indexed
<1>. QED
  BY <1>2, <1>9, <1>11, <1>12, <1>13, <1>14, <1>15, <1>16
-----------------------------------------------------------------------------
\* A place in the table, named for the block; or none, and the call goes back.
LEMMA GuardInserts == ASSUME GuardInv, NEW t \in Askers, GuardInsert(t) PROVE GuardInv'
<1>. USE DEF GuardInv
<1>. DEFINE p == Address(call[t])
            i == First(TableProbes(p), {j \in GuardIds : table[j].p = Nowhere})
<1>1. /\ call[t].step = "insert" /\ call[t] \in GuardCall /\ Carrying(t) /\ ~ Filing(t)
      /\ call \in [Askers -> GuardCall] /\ table \in [GuardIds -> GuardEntry]
      /\ UNCHANGED <<under, gindex, pages, partial, told, foreign, inHand, misuses>>
  BY DEF GuardInsert, GuardTypes, Carrying, Filing
<1>2. p \in Space /\ p \in All(call[t]) /\ p \in Nat /\ call[t].user > 0
  BY <1>1, CallExtent, GuardDomains DEF Whole
<1>3. call[t].kind # "late"
  BY <1>1 DEF Hands
<1>4. CASE i = Nowhere
  <2>. DEFINE c == [call[t] EXCEPT !.step = IF misses + 1 >= GiveUp THEN "calm" ELSE "undo"]
  <2>1. call' = [call EXCEPT ![t] = c] /\ UNCHANGED table
    BY <1>1, <1>4 DEF GuardInsert
  <2>2. /\ c \in GuardCall /\ c.step \in {"calm", "undo"} /\ c.old = call[t].old
        /\ c.base = call[t].base /\ c.user = call[t].user /\ c.slack = call[t].slack
        /\ c.kind = call[t].kind
    BY <1>1 DEF GuardCall
  <2>. HIDE DEF c
  <2>3. /\ GuardTypes' /\ Extents' /\ Strangers' /\ PagesFollow'
        /\ Filed' /\ Found' /\ Indexed'
    <3>1. misuses' \in Nat
      BY <1>1 DEF GuardTypes
    <3>. QED
      BY <1>1, <1>2, <2>1, <2>2, <3>1, CallMoves
  <2>4. Hands' /\ ("lawful" \notin foreign' /\ (misuses' = 0 => misuses = 0 /\ told' = {})
                         => Verdicts')
    BY <1>1, <1>3, <2>1, <2>2, HandsQuiet
  <2>. QED
    BY <1>1, <2>3, <2>4 DEF Verdicts
<1>5. CASE i # Nowhere
  <2>. DEFINE c == [call[t] EXCEPT !.step = "fields", !.slot = i]
  <2>1. /\ i \in GuardIds /\ ~ Named(i)
        /\ \E k \in 1 .. GuardProbe :
              /\ TableProbes(p)[k] = i
              /\ \A m \in 1 .. k - 1 : table[TableProbes(p)[m]].p # Nowhere
    <3>1. PICK j : j = i
      OBVIOUS
    <3>2. j = First(TableProbes(p), {x \in GuardIds : table[x].p = Nowhere}) /\ j # Nowhere
      BY <1>5, <3>1
    <3>3. /\ j \in GuardIds /\ ~ Named(j)
          /\ \E k \in 1 .. GuardProbe :
              /\ TableProbes(p)[k] = j
              /\ \A m \in 1 .. k - 1 : table[TableProbes(p)[m]].p # Nowhere
      BY <1>2, <3>2, PlaceIs
    <3>. QED
      BY <3>1, <3>3
  <2>2. table' = [table EXCEPT ![i].p = p] /\ call' = [call EXCEPT ![t] = c]
    <3>1. /\ table' = [table EXCEPT ![i].p = p]
          /\ call' = [call EXCEPT ![t].step = "fields", ![t].slot = i]
      BY <1>5 DEF GuardInsert
    <3>. QED
      BY <1>1, <3>1
  <2>. HIDE DEF i, p
  <2>3. PICK k \in 1 .. GuardProbe :
              /\ TableProbes(p)[k] = i
              /\ \A m \in 1 .. k - 1 : table[TableProbes(p)[m]].p # Nowhere
    BY <2>1
  <2>4. /\ c \in GuardCall /\ c.step = "fields" /\ c.old = call[t].old
        /\ c.base = call[t].base /\ c.user = call[t].user /\ c.slack = call[t].slack
        /\ c.kind = call[t].kind /\ c.slot = i
    BY <1>1, <2>1 DEF GuardCall
  <2>. HIDE DEF c
  <2>5. \A u \in Askers : call'[u] = IF u = t THEN c ELSE call[u]
    BY <1>1, <2>2
  <2>6. /\ table' \in [GuardIds -> GuardEntry]
        /\ \A j \in GuardIds : /\ j # i => table'[j] = table[j]
                               /\ table'[j].base = table[j].base /\ table'[j].user = table[j].user
                               /\ table'[j].slack = table[j].slack
                               /\ table'[j].state = table[j].state
        /\ table'[i].p = p
    BY <1>1, <1>2, <2>1, <2>2 DEF GuardEntry
  <2>7. ~ Based(i) /\ table[i].state = "never"
    <3>1. ~ Based(i)
      BY <2>1, EntryExtent
    <3>. QED
      BY <2>1, <3>1 DEF Extents
  <2>8. \A u \in Askers : /\ Carrying(u)' <=> Carrying(u)
                          /\ Filing(u)' <=> u = t \/ Filing(u)
                          /\ Filing(u) => u # t /\ call'[u] = call[u]
    BY <1>1, <2>4, <2>5 DEF Carrying, Filing
  <2>9. /\ \A j \in GuardIds : /\ Based(j)' <=> Based(j)
                               /\ Named(j)' <=> Named(j) \/ j = i
                               /\ All(table[j])' = All(table[j])
                               /\ Data(table[j])' = Data(table[j])
                               /\ Guard(table[j])' = Guard(table[j])
                               /\ Address(table[j])' = Address(table[j])
                               /\ Whole(table[j])' = Whole(table[j])
        /\ \A u \in Askers : /\ All(call[u])' = All(call[u])
                             /\ Address(call[u])' = Address(call[u])
                             /\ Data(call[u])' = Data(call[u])
                             /\ Guard(call[u])' = Guard(call[u])
                             /\ Whole(call[u])' = Whole(call[u])
                             /\ Ready(call[u])' = Ready(call[u])
    <3>1. \A j \in GuardIds : /\ Based(j)' <=> Based(j)
                              /\ Named(j)' <=> Named(j) \/ j = i
      BY <1>2, <2>6, GuardDomains DEF Based, Named
    <3>2. \A j \in GuardIds :  /\ All(table[j])' = All(table[j])
                               /\ Data(table[j])' = Data(table[j])
                               /\ Guard(table[j])' = Guard(table[j])
                               /\ Address(table[j])' = Address(table[j])
      BY <1>1, <2>6 DEF All, Data, Guard, Address
    <3>3. \A j \in GuardIds : Whole(table[j])' = Whole(table[j])
      BY <2>6, <3>2 DEF Whole
    <3>4. \A u \in Askers : /\ call'[u].base = call[u].base /\ call'[u].user = call[u].user
                            /\ call'[u].slack = call[u].slack
      BY <2>4, <2>5
    <3>5. \A u \in Askers : /\ All(call[u])' = All(call[u])
                             /\ Address(call[u])' = Address(call[u])
                             /\ Data(call[u])' = Data(call[u])
                             /\ Guard(call[u])' = Guard(call[u])
      BY <1>1, <3>4 DEF All, Data, Guard, Address
    <3>6. \A u \in Askers : /\ Whole(call[u])' = Whole(call[u])
                            /\ Ready(call[u])' = Ready(call[u])
      BY <1>1, <3>4, <3>5 DEF Whole, Ready
    <3>. QED
      BY <3>1, <3>2, <3>3, <3>5, <3>6
  <2>10. GuardTypes'
    BY <1>1, <2>4, <2>5, <2>2, <2>6 DEF GuardTypes
  <2>11. Extents'
    <3>1. \A u \in Askers : call'[u].step \notin {"rest", "judge", "drop", "decommit"} =>
             call'[u].user > 0
      BY <1>2, <2>4, <2>5 DEF Extents
    <3>2. \A j \in GuardIds : IF Based(j) THEN Whole(table[j]) /\ table'[j].p = Address(table[j])
                              ELSE table'[j].state = "never" /\ table'[j].user = 0
      BY <2>6, <2>7 DEF Extents
    <3>3. \A u \in Askers : Carrying(u) => Whole(call[u]) /\ Ready(call[u])
      BY DEF Extents
    <3>. QED
      BY <2>8, <2>9, <3>1, <3>2, <3>3 DEF Extents
  <2>12. Strangers'
    BY <2>8, <2>9 DEF Strangers
  <2>13. PagesFollow'
    <3>1. \A u \in Askers : call[u].step = "decommit" => call'[u] = call[u]
      BY <1>1, <2>5
    <3>. QED
      BY <1>1, <2>6, <2>9, <3>1 DEF PagesFollow
  <2>14. \A u \in Askers : Filing(u) => call[u].slot # i /\ call[u].slot \in GuardIds
    <3>. SUFFICES ASSUME NEW u \in Askers, Filing(u), call[u].slot = i PROVE FALSE
      BY DEF Filed
    <3>1. CASE call[u].step = "fields"
      <4>1. table[i].p = Address(call[u]) /\ Carrying(u)
        BY <3>1 DEF Filed, Carrying
      <4>2. Address(call[u]) # Nowhere
        BY <4>1, CallExtent, GuardDomains
      <4>. QED
        BY <2>1, <4>1, <4>2 DEF Named
    <3>2. CASE call[u].step # "fields"
      BY <2>7, <3>2 DEF Filed
    <3>. QED
      BY <3>1, <3>2
  <2>15. Filed'
    <3>1. ASSUME NEW u \in Askers, Filing(u)'
          PROVE  /\ call'[u].slot \in GuardIds /\ table'[call'[u].slot].state = "never"
                 /\ IF call'[u].step = "fields"
                      THEN ~ Based(call'[u].slot) /\ table'[call'[u].slot].p = Address(call[u])
                      ELSE /\ Based(call'[u].slot)
                           /\ table'[call'[u].slot].base = call'[u].base
                           /\ table'[call'[u].slot].user = call'[u].user
                           /\ table'[call'[u].slot].slack = call'[u].slack
                 /\ \A v \in Askers : Filing(v)' /\ call'[v].slot = call'[u].slot => v = u
      <4>1. CASE u = t
        <5>1. call'[u] = c /\ Address(call[u]) = p
          BY <2>5, <4>1 DEF p
        <5>2. \A v \in Askers : Filing(v)' /\ call'[v].slot = i => v = t
          BY <2>8, <2>14
        <5>. QED
          BY <2>1, <2>4, <2>6, <2>7, <4>1, <5>1, <5>2
      <4>2. CASE u # t
        <5>1. Filing(u) /\ call'[u] = call[u] /\ call[u].slot # i /\ call[u].slot \in GuardIds
          BY <2>8, <2>14, <3>1, <4>2
        <5>2. table'[call[u].slot] = table[call[u].slot]
          BY <2>6, <5>1
        <5>3. \A v \in Askers : Filing(v)' /\ call'[v].slot = call[u].slot => v = u
          BY <2>4, <2>5, <2>8, <5>1 DEF Filed
        <5>. QED
          BY <5>1, <5>2, <5>3 DEF Filed
      <4>. QED
        BY <4>1, <4>2
    <3>2. \A u \in Askers : Filing(u)' => (Based(call[u].slot)' <=> Based(call'[u].slot))
      BY <2>6, <3>1 DEF Based
    <3>3. ASSUME NEW j \in GuardIds, Named(j)', ~ Based(j)'
          PROVE  \E u \in Askers : call'[u].step = "fields" /\ call'[u].slot = j
      <4>1. CASE j = i
        BY <2>4, <2>5, <4>1
      <4>2. CASE j # i
        <5>1. PICK u \in Askers : call[u].step = "fields" /\ call[u].slot = j
          BY <2>9, <3>3, <4>2 DEF Filed
        <5>2. call'[u] = call[u]
          BY <1>1, <2>5, <5>1
        <5>. QED
          BY <5>1, <5>2
      <4>. QED
        BY <4>1, <4>2
    <3>. QED
      BY <2>9, <3>1, <3>2, <3>3 DEF Filed
  <2>16. ASSUME NEW j \in GuardIds, Named(j) PROVE table[j].p # p
    <3>1. CASE Based(j)
      <4>1. table[j].p \in All(table[j])
        BY <3>1, EntryExtent
      <4>. QED
        BY <1>1, <1>2, <3>1, <4>1 DEF Strangers
    <3>2. CASE ~ Based(j)
      <4>1. PICK u \in Askers : /\ call[u].step = "fields" /\ Carrying(u)
                                /\ table[j].p \in All(call[u])
        BY <2>16, <3>2, NameOf
      <4>2. u # t
        BY <1>1, <4>1
      <4>. QED
        BY <1>1, <1>2, <4>1, <4>2 DEF Strangers
    <3>. QED
      BY <3>1, <3>2
  <2>17. Found'
    <3>. SUFFICES ASSUME NEW j \in GuardIds, Named(j)' PROVE FoundAt(j)'
      BY DEF Found
    <3>1. CASE j = i
      <4>1. \A m \in 1 .. k - 1 : table'[TableProbes(p)[m]].p \notin {p, Nowhere}
        <5>. SUFFICES ASSUME NEW m \in 1 .. k - 1
                      PROVE  table'[TableProbes(p)[m]].p \notin {p, Nowhere}
          OBVIOUS
        <5>1. m \in 1 .. GuardProbe /\ TableProbes(p)[m] \in GuardIds
          BY <1>2, GuardDomains, ProbesIn
        <5>2. table[TableProbes(p)[m]].p # Nowhere /\ TableProbes(p)[m] # i
          BY <2>1, <2>3 DEF Named
        <5>. QED
          BY <2>6, <2>16, <5>1, <5>2 DEF Named
      <4>. QED
        BY <2>3, <2>6, <3>1, <4>1 DEF FoundAt, TableProbes
    <3>2. CASE j # i
      <4>1. Named(j) /\ table'[j].p = table[j].p /\ table[j].p \in Nat
        BY <2>6, <2>9, <3>2, GuardDomains DEF GuardTypes, GuardEntry, Named
      <4>2. PICK n \in 1 .. GuardProbe :
              /\ TableProbes(table[j].p)[n] = j
              /\ \A m \in 1 .. n - 1 :
                    table[TableProbes(table[j].p)[m]].p \notin {table[j].p, Nowhere}
        BY <4>1 DEF Found, FoundAt
      <4>3. ASSUME NEW m \in 1 .. n - 1
            PROVE  table'[TableProbes(table[j].p)[m]].p \notin {table[j].p, Nowhere}
        <5>1. m \in 1 .. GuardProbe /\ TableProbes(table[j].p)[m] \in GuardIds
          BY <4>1, GuardDomains, ProbesIn
        <5>2. TableProbes(table[j].p)[m] # i
          BY <2>1, <4>2 DEF Named
        <5>. QED
          BY <2>6, <4>2, <5>1, <5>2
      <4>. QED
        BY <4>1, <4>2, <4>3 DEF FoundAt, TableProbes
    <3>. QED
      BY <3>1, <3>2
  <2>18. Indexed'
    <3>1. \A j, g : IndexedAt(j, g)' = IndexedAt(j, g)
      BY <1>1 DEF IndexedAt, IndexProbes
    <3>2. \A u \in Askers : call'[u].step \in {"index", "born"} => call'[u] = call[u]
      BY <2>4, <2>5
    <3>. QED
      BY <1>1, <2>6, <2>9, <3>1, <3>2 DEF Indexed
  <2>19. Hands' /\ ("lawful" \notin foreign' /\ (misuses' = 0 => misuses = 0 /\ told' = {})
                         => Verdicts')
    <3>1. \A j \in GuardIds : table[j].state # "never" => table'[j] = table[j]
      BY <2>6, <2>7
    <3>. QED
      BY <1>1, <1>3, <2>2, <2>4, <3>1, HandsQuiet
  <2>. QED
    BY <1>1, <2>10, <2>11, <2>12, <2>13, <2>15, <2>17, <2>18, <2>19 DEF Verdicts
<1>. QED
  BY <1>4, <1>5
\* The entry gets the extent of the block the call carries.
LEMMA GuardFills == ASSUME GuardInv, NEW t \in Askers, GuardFields(t) PROVE GuardInv'
<1>. USE DEF GuardInv
<1>0. PICK i \in GuardIds : i = call[t].slot
  BY DEF GuardFields, Filing, Filed
<1>. DEFINE c == [call[t] EXCEPT !.step = "index", !.granule = call[t].base]
            e == [table[i] EXCEPT !.base = call[t].base, !.user = call[t].user,
                                  !.slack = call[t].slack]
<1>1. /\ call[t].step = "fields" /\ call[t] \in GuardCall /\ Carrying(t) /\ Filing(t)
      /\ call \in [Askers -> GuardCall] /\ table \in [GuardIds -> GuardEntry]
      /\ UNCHANGED <<under, gindex, pages, partial, told, foreign, inHand, misuses>>
  BY DEF GuardFields, GuardTypes, Carrying, Filing
<1>2. table' = [table EXCEPT ![i] = e] /\ call' = [call EXCEPT ![t] = c]
  BY <1>0, <1>1 DEF GuardFields
<1>3. /\ i \in GuardIds /\ table[i].state = "never" /\ ~ Based(i)
      /\ table[i].p = Address(call[t])
      /\ \A u \in Askers : Filing(u) /\ call[u].slot = i => u = t
  BY <1>0, <1>1 DEF Filed
<1>4. /\ Whole(call[t]) /\ Ready(call[t]) /\ call[t].base \in Space
      /\ call[t].base # Nowhere /\ call[t].base \in Nat /\ call[t].user > 0
      /\ call[t].user \in Nat /\ call[t].slack \in Nat
  BY <1>1, CallExtent, GuardDomains DEF Whole
<1>5. /\ e \in GuardEntry /\ e.p = table[i].p /\ e.state = "never"
      /\ e.base = call[t].base /\ e.user = call[t].user /\ e.slack = call[t].slack
  BY <1>1, <1>3, <1>4 DEF GuardEntry
<1>6. /\ c \in GuardCall /\ c.step = "index" /\ c.old = call[t].old /\ c.slot = i
      /\ c.base = call[t].base /\ c.user = call[t].user /\ c.slack = call[t].slack
      /\ c.kind = call[t].kind /\ c.granule = call[t].base
  BY <1>0, <1>1, <1>4 DEF GuardCall
<1>7. c.kind # "late"
  BY <1>1, <1>6 DEF Hands
<1>. HIDE DEF c, e
<1>8. /\ \A u \in Askers : call'[u] = IF u = t THEN c ELSE call[u]
      /\ \A j \in GuardIds : table'[j] = IF j = i THEN e ELSE table[j]
      /\ table' \in [GuardIds -> GuardEntry] /\ call' \in [Askers -> GuardCall]
  BY <1>1, <1>2, <1>5, <1>6
<1>9. \A u \in Askers : /\ Carrying(u)' <=> u # t /\ Carrying(u)
                        /\ Filing(u)' <=> Filing(u)
                        /\ call'[u].slot = call[u].slot
                        /\ call'[u].base = call[u].base /\ call'[u].user = call[u].user
                        /\ call'[u].slack = call[u].slack
  BY <1>0, <1>1, <1>6, <1>8 DEF Carrying, Filing
<1>10. \A j \in GuardIds : /\ Based(j)' <=> Based(j) \/ j = i
                           /\ Named(j)' <=> Named(j)
                           /\ table'[j].state = table[j].state /\ table'[j].p = table[j].p
  BY <1>3, <1>4, <1>5, <1>8 DEF Based, Named
<1>11. \A j \in GuardIds : j # i => /\ All(table[j])' = All(table[j])
                                    /\ Data(table[j])' = Data(table[j])
                                    /\ Guard(table[j])' = Guard(table[j])
                                    /\ Address(table[j])' = Address(table[j])
                                    /\ Whole(table[j])' = Whole(table[j])
  BY <1>1, <1>8 DEF All, Data, Guard, Address, Whole
<1>12. /\ All(table[i])' = All(call[t]) /\ Data(table[i])' = Data(call[t])
       /\ Guard(table[i])' = Guard(call[t]) /\ Address(table[i])' = Address(call[t])
       /\ Whole(table[i])' = Whole(call[t])
  <2>1. /\ table'[i].base = call[t].base /\ table'[i].user = call[t].user
        /\ table'[i].slack = call[t].slack
    BY <1>3, <1>5, <1>8
  <2>. QED
    BY <1>1, <2>1 DEF All, Data, Guard, Address, Whole
<1>13. \A u \in Askers : /\ All(call[u])' = All(call[u])
                         /\ Address(call[u])' = Address(call[u])
                         /\ Whole(call[u])' = Whole(call[u])
                         /\ Ready(call[u])' = Ready(call[u])
  BY <1>1, <1>9 DEF All, Data, Guard, Address, Whole, Ready
<1>14. GuardTypes'
  BY <1>1, <1>8 DEF GuardTypes
<1>15. Extents'
  <2>1. \A u \in Askers : call'[u].step \notin {"rest", "judge", "drop", "decommit"} =>
           call'[u].user > 0
    BY <1>4, <1>6, <1>8 DEF Extents
  <2>2. \A u \in Askers : Carrying(u)' => Whole(call[u])' /\ Ready(call[u])'
    BY <1>9, <1>13 DEF Extents
  <2>3. ASSUME NEW j \in GuardIds
        PROVE  IF Based(j)' THEN Whole(table[j])' /\ table'[j].p = Address(table[j])'
               ELSE table'[j].state = "never" /\ table'[j].user = 0
    <3>1. CASE j = i
      BY <1>3, <1>4, <1>10, <1>12, <3>1
    <3>2. CASE j # i
      BY <1>8, <1>10, <1>11, <3>2 DEF Extents
    <3>. QED
      BY <3>1, <3>2
  <2>. QED
    BY <2>1, <2>2, <2>3 DEF Extents
<1>16. Strangers'
  <2>1. ASSUME NEW j \in GuardIds, NEW k \in GuardIds, Based(j)', Based(k)', j # k
        PROVE  All(table[j])' \cap All(table[k])' = {}
    <3>1. CASE j = i
      BY <1>1, <1>10, <1>11, <1>12, <2>1, <3>1 DEF Strangers
    <3>2. CASE k = i
      BY <1>1, <1>10, <1>11, <1>12, <2>1, <3>2 DEF Strangers
    <3>3. CASE j # i /\ k # i
      BY <1>10, <1>11, <2>1, <3>3 DEF Strangers
    <3>. QED
      BY <3>1, <3>2, <3>3
  <2>2. ASSUME NEW j \in GuardIds, NEW u \in Askers, Based(j)', Carrying(u)'
        PROVE  All(table[j])' \cap All(call[u])' = {}
    <3>1. CASE j = i
      BY <1>1, <1>9, <1>12, <1>13, <2>2, <3>1 DEF Strangers
    <3>2. CASE j # i
      BY <1>9, <1>10, <1>11, <1>13, <2>2, <3>2 DEF Strangers
    <3>. QED
      BY <3>1, <3>2
  <2>3. \A u, v \in Askers : Carrying(u)' /\ Carrying(v)' /\ u # v =>
           All(call[u])' \cap All(call[v])' = {}
    BY <1>9, <1>13 DEF Strangers
  <2>. QED
    BY <2>1, <2>2, <2>3 DEF Strangers
<1>17. PagesFollow'
  <2>1. ASSUME NEW j \in GuardIds, Based(j)'
        PROVE  /\ pages'[Guard(table[j])'] = "reserved"
               /\ \A g \in Data(table[j])' : pages'[g] # "free"
               /\ table'[j].state # "freed" => \A g \in Data(table[j])' : pages'[g] = "committed"
               /\ table'[j].state = "freed" =>
                     \/ \E u \in Askers : call'[u].step = "decommit" /\ call'[u].slot = j
                     \/ \A g \in Data(table[j])' : pages'[g] = "reserved"
    <3>1. CASE j = i
      BY <1>1, <1>3, <1>4, <1>10, <1>12, <3>1 DEF Ready
    <3>2. CASE j # i
      <4>1. \A u \in Askers : call[u].step = "decommit" => call'[u] = call[u]
        BY <1>1, <1>8
      <4>. QED
        BY <1>1, <1>10, <1>11, <2>1, <3>2, <4>1 DEF PagesFollow
    <3>. QED
      BY <3>1, <3>2
  <2>. QED
    BY <2>1 DEF PagesFollow
<1>18. Filed'
  <2>1. ASSUME NEW u \in Askers, Filing(u)'
        PROVE  /\ call'[u].slot \in GuardIds /\ table'[call'[u].slot].state = "never"
               /\ IF call'[u].step = "fields"
                    THEN /\ ~ Based(call'[u].slot) /\ call'[u].slot # i
                         /\ table'[call'[u].slot].p = Address(call[u])
                    ELSE /\ Based(call'[u].slot) \/ call'[u].slot = i
                         /\ table'[call'[u].slot].base = call'[u].base
                         /\ table'[call'[u].slot].user = call'[u].user
                         /\ table'[call'[u].slot].slack = call'[u].slack
               /\ \A v \in Askers : Filing(v)' /\ call'[v].slot = call'[u].slot => v = u
    <3>0. \A v \in Askers : Filing(v)' /\ call'[v].slot = call'[u].slot => v = u
      BY <1>9, <2>1 DEF Filed
    <3>1. CASE u = t
      <4>1. call'[u] = c /\ c.slot = i /\ table'[i] = e
        BY <1>3, <1>6, <1>8, <3>1
      <4>. QED
        BY <1>3, <1>5, <1>6, <3>0, <4>1
    <3>2. CASE u # t
      <4>1. Filing(u) /\ call'[u] = call[u] /\ call[u].slot # i /\ call[u].slot \in GuardIds
        BY <1>3, <1>8, <1>9, <2>1, <3>2 DEF Filed
      <4>. QED
        BY <1>8, <3>0, <4>1 DEF Filed
    <3>. QED
      BY <3>1, <3>2
  <2>2. \A u \in Askers : Filing(u)' =>
           (Based(call[u].slot)' <=> Based(call'[u].slot) \/ call'[u].slot = i)
    <3>1. \A j \in GuardIds : table'[j].base # Nowhere <=> Based(j) \/ j = i
      BY <1>10 DEF Based
    <3>. QED
      BY <2>1, <3>1 DEF Based
  <2>3. ASSUME NEW j \in GuardIds, Named(j)', ~ Based(j)'
        PROVE  \E u \in Askers : call'[u].step = "fields" /\ call'[u].slot = j
    <3>1. PICK u \in Askers : call[u].step = "fields" /\ call[u].slot = j
      BY <1>10, <2>3 DEF Filed
    <3>2. u # t
      BY <1>0, <1>10, <2>3, <3>1
    <3>. QED
      BY <1>8, <3>1, <3>2
  <2>. QED
    BY <1>13, <2>1, <2>2, <2>3 DEF Filed
<1>19. Found'
  <2>1. ASSUME NEW j \in GuardIds, FoundAt(j) PROVE FoundAt(j)'
    <3>1. Named(j) => table[j].p \in Nat
      BY GuardDomains DEF GuardTypes, GuardEntry, Named
    <3>2. \A x \in GuardIds : table'[x].p = table[x].p
      BY <1>10
    <3>3. \A x : x \notin GuardIds => table'[x] = table[x]
      BY <1>1, <1>2, <1>3
    <3>4. \A x : table'[x].p = table[x].p
      BY <3>2, <3>3
    <3>5. PICK k \in 1 .. GuardProbe :
            /\ TableProbes(table[j].p)[k] = j
            /\ \A m \in 1 .. k - 1 :
                  table[TableProbes(table[j].p)[m]].p \notin {table[j].p, Nowhere}
      BY <2>1 DEF FoundAt
    <3>6. \A m \in 1 .. k - 1 :
            table'[TableProbes(table[j].p)[m]].p \notin {table[j].p, Nowhere}
      BY <3>4, <3>5
    <3>7. TableProbes(table'[j].p) = TableProbes(table[j].p)
      BY <3>4
    <3>8. TableProbes(table[j].p)' = TableProbes(table'[j].p)
      BY DEF TableProbes
    <3>. QED
      BY <3>4, <3>5, <3>6, <3>7, <3>8 DEF FoundAt
  <2>. QED
    BY <1>10, <2>1 DEF Found
<1>20. Indexed'
  <2>1. \A j, g : IndexedAt(j, g)' = IndexedAt(j, g)
    BY <1>1 DEF IndexedAt, IndexProbes
  <2>2. \A j \in GuardIds :
          table'[j].state # "never" /\ j \notin partial' =>
             \A g \in All(table[j])' : IndexedAt(j, g)
    BY <1>1, <1>3, <1>10, <1>11 DEF Indexed
  <2>3. ASSUME NEW u \in Askers, call'[u].step = "index"
        PROVE  /\ call'[u].granule \in All(call[u]) /\ call'[u].slot \notin partial
               /\ \A g \in call'[u].base .. call'[u].granule - 1 : IndexedAt(call'[u].slot, g)
    <3>1. CASE u = t
      <4>1. call[t].base \in All(call[t])
        BY <1>4 DEF All
      <4>2. i \notin partial
        BY <1>3 DEF Indexed
      <4>3. call[t].base .. call[t].base - 1 = {}
        BY <1>4
      <4>. QED
        BY <1>6, <1>8, <3>1, <4>1, <4>2, <4>3
    <3>2. CASE u # t
      BY <1>8, <2>3, <3>2 DEF Indexed
    <3>. QED
      BY <3>1, <3>2
  <2>4. ASSUME NEW u \in Askers, call'[u].step = "born", call'[u].slot \notin partial
        PROVE  \A g \in All(call[u]) : IndexedAt(call'[u].slot, g)
    <3>1. call'[u] = call[u]
      BY <1>6, <1>8, <2>4
    <3>. QED
      BY <2>4, <3>1 DEF Indexed
  <2>5. \A j \in partial' : j \in GuardIds /\ Based(j)'
    BY <1>1, <1>10 DEF Indexed
  <2>. QED
    BY <1>1, <1>13, <2>1, <2>2, <2>3, <2>4, <2>5 DEF Indexed
<1>21. Hands' /\ ("lawful" \notin foreign' /\ (misuses' = 0 => misuses = 0 /\ told' = {})
                         => Verdicts')
  <2>1. \A j \in GuardIds : table[j].state # "never" => table'[j] = table[j]
    BY <1>3, <1>8
  <2>. QED
    BY <1>1, <1>2, <1>6, <1>7, <2>1, HandsQuiet
<1>. QED
  BY <1>1, <1>14, <1>15, <1>16, <1>17, <1>18, <1>19, <1>20, <1>21 DEF Verdicts
\* A granule of a block filed in the index, or none of the rest of them.
LEMMA GuardIndexes == ASSUME GuardInv, NEW t \in Askers, GuardIndex(t) PROVE GuardInv'
<1>. USE DEF GuardInv
<1>0. PICK s \in GuardIds : s = call[t].slot
  BY DEF GuardIndex, Filing, Filed
<1>. DEFINE g0 == call[t].granule
            i == First(IndexProbes(g0), {j \in IndexIds : gindex[j] = Nowhere})
<1>1. /\ call[t].step = "index" /\ call[t] \in GuardCall /\ ~ Carrying(t) /\ Filing(t)
      /\ call \in [Askers -> GuardCall] /\ gindex \in [IndexIds -> GuardIds \cup {Nowhere}]
      /\ UNCHANGED <<under, table, pages, told, foreign, inHand, misuses>>
  BY DEF GuardIndex, GuardTypes, Carrying, Filing
<1>2. /\ table[s].state = "never" /\ Based(s) /\ table[s].base = call[t].base
      /\ table[s].user = call[t].user /\ table[s].slack = call[t].slack
      /\ \A u \in Askers : Filing(u) /\ call[u].slot = s => u = t
  BY <1>0, <1>1 DEF Filed
<1>3. /\ g0 \in All(call[t]) /\ s \notin partial
      /\ \A g \in call[t].base .. g0 - 1 : IndexedAt(s, g)
  BY <1>0, <1>1 DEF Indexed
<1>4. /\ call[t].base \in Nat /\ call[t].user \in Nat /\ call[t].slack \in Nat
      /\ call[t].user > 0 /\ call[t].kind # "late" /\ g0 \in Nat
  <2>1. call[t].base \in Space
    BY <1>2, EntryExtent DEF Whole
  <2>2. call[t].base \in Nat /\ call[t].user \in Nat /\ call[t].slack \in Nat
    BY <1>1, <2>1, GuardDomains DEF GuardCall
  <2>3. g0 \in Nat
    BY <1>3, <2>2 DEF All
  <2>. QED
    BY <1>1, <2>2, <2>3 DEF Extents, Hands
<1>5. \E c \in GuardCall :
        /\ call' = [call EXCEPT ![t] = c] /\ c.step \in {"index", "born"}
        /\ c.slot = s /\ c.base = call[t].base /\ c.user = call[t].user
        /\ c.slack = call[t].slack /\ c.old = call[t].old /\ c.kind = call[t].kind
        /\ \A j \in GuardIds, g \in Nat : IndexedAt(j, g) => IndexedAt(j, g)'
        /\ partial' = partial \/ partial' = partial \cup {s}
        /\ gindex' \in [IndexIds -> GuardIds \cup {Nowhere}]
        /\ c.step = "index" => /\ c.granule \in All(call[t]) /\ partial' = partial
                               /\ \A g \in call[t].base .. c.granule - 1 : IndexedAt(s, g)'
        /\ c.step = "born" /\ s \notin partial' => \A g \in All(call[t]) : IndexedAt(s, g)'
  <2>1. CASE i = Nowhere
    <3>. DEFINE c == [call[t] EXCEPT !.step = "born"]
    <3>1. /\ c \in GuardCall /\ c.step = "born" /\ c.slot = s /\ c.base = call[t].base
          /\ c.user = call[t].user /\ c.slack = call[t].slack /\ c.old = call[t].old
          /\ c.kind = call[t].kind
      BY <1>0, <1>1 DEF GuardCall
    <3>2. /\ call' = [call EXCEPT ![t] = c] /\ partial' = partial \cup {s}
          /\ gindex' = gindex
      BY <1>0, <1>1, <2>1 DEF GuardIndex
    <3>3. \A j, g : IndexedAt(j, g)' = IndexedAt(j, g)
      BY <3>2 DEF IndexedAt, IndexProbes
    <3>. HIDE DEF c
    <3>. QED
      BY <1>1, <3>1, <3>2, <3>3
  <2>2. CASE i # Nowhere
    <3>1. PICK x : x = i
      OBVIOUS
    <3>2. /\ x \in IndexIds /\ gindex[x] = Nowhere
          /\ \E k \in 1 .. GuardProbe :
                /\ IndexProbes(g0)[k] = x
                /\ \A m \in 1 .. k - 1 : gindex[IndexProbes(g0)[m]] # Nowhere
      <4>1. x = First(IndexProbes(g0), {j \in IndexIds : gindex[j] = Nowhere}) /\ x # Nowhere
        BY <2>2, <3>1
      <4>. HIDE DEF g0
      <4>. QED
        BY <1>4, <4>1, IndexPlaceIs
    <3>. DEFINE more == call[t].granule + 1 \in All(call[t])
                c == [call[t] EXCEPT !.step = IF more THEN "index" ELSE "born",
                                     !.granule = @ + 1]
    <3>3. /\ call' = [call EXCEPT ![t] = c] /\ partial' = partial
          /\ gindex' = [gindex EXCEPT ![x] = s]
      BY <1>0, <1>1, <2>2, <3>1 DEF GuardIndex
    <3>4. /\ c \in GuardCall /\ c.step = (IF more THEN "index" ELSE "born")
          /\ c.slot = s /\ c.base = call[t].base
          /\ c.user = call[t].user /\ c.slack = call[t].slack /\ c.old = call[t].old
          /\ c.kind = call[t].kind /\ c.granule = g0 + 1
      <4>1. PICK st \in {"index", "born"} : st = (IF more THEN "index" ELSE "born")
        OBVIOUS
      <4>2. g0 + 1 \in Nat
        BY <1>4
      <4>3. c = [call[t] EXCEPT !.step = st, !.granule = g0 + 1]
        BY <1>1, <4>1 DEF GuardCall
      <4>. HIDE DEF c, more, g0
      <4>. QED
        BY <1>0, <1>1, <4>1, <4>2, <4>3 DEF GuardCall
    <3>. HIDE DEF c
    <3>5. /\ \A y \in IndexIds : gindex'[y] = IF y = x THEN s ELSE gindex[y]
          /\ gindex' \in [IndexIds -> GuardIds \cup {Nowhere}] /\ s # Nowhere
      BY <1>1, <3>2, <3>3, GuardDomains
    <3>6. ASSUME NEW j \in GuardIds, NEW g \in Nat, IndexedAt(j, g) PROVE IndexedAt(j, g)'
      <4>1. PICK k \in 1 .. GuardProbe :
               /\ gindex[IndexProbes(g)[k]] = j
               /\ \A m \in 1 .. k - 1 : gindex[IndexProbes(g)[m]] # Nowhere
        BY <3>6 DEF IndexedAt
      <4>2. gindex'[IndexProbes(g)[k]] = j
        BY <3>2, <3>5, <4>1, ProbesIn, GuardDomains
      <4>3. ASSUME NEW m \in 1 .. k - 1 PROVE gindex'[IndexProbes(g)[m]] # Nowhere
        <5>1. m \in 1 .. GuardProbe
          BY GuardDomains
        <5>2. IndexProbes(g)[m] \in IndexIds
          BY <5>1, ProbesIn
        <5>. QED
          BY <3>5, <4>1, <5>2
      <4>. QED
        BY <4>2, <4>3 DEF IndexedAt, IndexProbes
    <3>7. ASSUME NEW g \in Nat, g = g0 PROVE IndexedAt(s, g)'
      <4>1. PICK k \in 1 .. GuardProbe :
              /\ IndexProbes(g)[k] = x
              /\ \A m \in 1 .. k - 1 : gindex[IndexProbes(g)[m]] # Nowhere
        BY <3>2, <3>7
      <4>2. gindex'[IndexProbes(g)[k]] = s
        BY <3>2, <3>5, <4>1
      <4>3. ASSUME NEW m \in 1 .. k - 1 PROVE gindex'[IndexProbes(g)[m]] # Nowhere
        <5>1. m \in 1 .. GuardProbe
          BY GuardDomains
        <5>2. IndexProbes(g)[m] \in IndexIds
          BY <5>1, ProbesIn
        <5>. QED
          BY <3>5, <4>1, <5>2
      <4>. QED
        BY <4>2, <4>3 DEF IndexedAt, IndexProbes
    <3>8. \A g \in call[t].base .. g0 : IndexedAt(s, g)'
      <4>1. ASSUME NEW g \in call[t].base .. g0 PROVE IndexedAt(s, g)'
        <5>1. g \in Nat /\ (g = g0 \/ g \in call[t].base .. g0 - 1)
          BY <1>4
        <5>. QED
          BY <1>3, <3>6, <3>7, <5>1
      <4>. QED
        BY <4>1
    <3>9. more => g0 + 1 \in All(call[t]) /\ call[t].base .. g0 + 1 - 1 = call[t].base .. g0
      BY <1>4
    <3>10. ~ more => All(call[t]) = call[t].base .. g0
      BY <1>3, <1>4 DEF All
    <3>. HIDE DEF more, g0
    <3>11. c.step = "index" => /\ c.granule \in All(call[t]) /\ partial' = partial
                               /\ \A g \in call[t].base .. c.granule - 1 : IndexedAt(s, g)'
      <4>. SUFFICES ASSUME c.step = "index"
                    PROVE  /\ c.granule \in All(call[t]) /\ partial' = partial
                           /\ \A g \in call[t].base .. c.granule - 1 : IndexedAt(s, g)'
        OBVIOUS
      <4>0. more /\ c.granule - 1 = g0
        BY <1>4, <3>4
      <4>1. more /\ call[t].base .. c.granule - 1 = call[t].base .. g0
        BY <4>0
      <4>. QED
        BY <3>3, <3>4, <3>8, <3>9, <4>1
    <3>12. c.step = "born" => \A g \in All(call[t]) : IndexedAt(s, g)'
      BY <3>4, <3>8, <3>10
    <3>13. c.step \in {"index", "born"}
      BY <3>4
    <3>. QED
      BY <3>3, <3>4, <3>5, <3>6, <3>11, <3>12, <3>13
  <2>. QED
    BY <2>1, <2>2
<1>6. PICK c \in GuardCall :
        /\ call' = [call EXCEPT ![t] = c] /\ c.step \in {"index", "born"}
        /\ c.slot = s /\ c.base = call[t].base /\ c.user = call[t].user
        /\ c.slack = call[t].slack /\ c.old = call[t].old /\ c.kind = call[t].kind
        /\ \A j \in GuardIds, g \in Nat : IndexedAt(j, g) => IndexedAt(j, g)'
        /\ partial' = partial \/ partial' = partial \cup {s}
        /\ gindex' \in [IndexIds -> GuardIds \cup {Nowhere}]
        /\ c.step = "index" => /\ c.granule \in All(call[t]) /\ partial' = partial
                               /\ \A g \in call[t].base .. c.granule - 1 : IndexedAt(s, g)'
        /\ c.step = "born" /\ s \notin partial' => \A g \in All(call[t]) : IndexedAt(s, g)'
  BY <1>5, Zenon
<1>. HIDE DEF g0, i
<1>7. /\ \A u \in Askers : call'[u] = IF u = t THEN c ELSE call[u]
      /\ call' \in [Askers -> GuardCall]
  BY <1>1, <1>6
<1>8. \A u \in Askers : /\ Carrying(u)' <=> Carrying(u)
                        /\ Filing(u)' <=> Filing(u)
                        /\ call'[u].slot = call[u].slot
                        /\ call'[u].base = call[u].base /\ call'[u].user = call[u].user
                        /\ call'[u].slack = call[u].slack
                        /\ call'[u].step \in {"fields", "decommit"} \/
                              call[u].step \in {"fields", "decommit"} => call'[u] = call[u]
  BY <1>0, <1>1, <1>6, <1>7 DEF Carrying, Filing
<1>9. /\ \A j \in GuardIds : /\ Based(j)' <=> Based(j)
                             /\ Named(j)' <=> Named(j)
                             /\ All(table[j])' = All(table[j])
                             /\ Data(table[j])' = Data(table[j])
                             /\ Guard(table[j])' = Guard(table[j])
                             /\ Address(table[j])' = Address(table[j])
                             /\ Whole(table[j])' = Whole(table[j])
      /\ \A u \in Askers : /\ All(call[u])' = All(call[u])
                           /\ Address(call[u])' = Address(call[u])
                           /\ Whole(call[u])' = Whole(call[u])
                           /\ Ready(call[u])' = Ready(call[u])
  BY <1>1, <1>8 DEF Based, Named, All, Data, Guard, Address, Whole, Ready
<1>10. GuardTypes'
  BY <1>1, <1>6, <1>7 DEF GuardTypes
<1>11. Extents'
  <2>1. \A u \in Askers : call'[u].step \notin {"rest", "judge", "drop", "decommit"} =>
           call'[u].user > 0
    BY <1>4, <1>6, <1>7 DEF Extents
  <2>. QED
    BY <1>1, <1>8, <1>9, <2>1 DEF Extents
<1>12. Strangers'
  BY <1>8, <1>9 DEF Strangers
<1>13. PagesFollow'
  BY <1>1, <1>8, <1>9 DEF PagesFollow
<1>14. Filed'
  <2>1. \A u \in Askers : Filing(u)' => (Based(call[u].slot)' <=> Based(call[u].slot))
    BY <1>1, <1>8 DEF Based
  <2>2. ASSUME NEW u \in Askers, Filing(u)'
        PROVE  /\ call'[u].slot \in GuardIds /\ table'[call'[u].slot].state = "never"
               /\ IF call'[u].step = "fields"
                    THEN /\ ~ Based(call[u].slot)'
                         /\ table'[call'[u].slot].p = Address(call[u])
                    ELSE /\ Based(call[u].slot)'
                         /\ table'[call'[u].slot].base = call'[u].base
                         /\ table'[call'[u].slot].user = call'[u].user
                         /\ table'[call'[u].slot].slack = call'[u].slack
               /\ \A v \in Askers : Filing(v)' /\ call'[v].slot = call'[u].slot => v = u
    <3>1. Filing(u)
      BY <1>8, <2>2
    <3>2. call'[u].step = "fields" <=> call[u].step = "fields"
      BY <1>8
    <3>. QED
      BY <1>1, <1>8, <2>1, <2>2, <3>1, <3>2 DEF Filed
  <2>3. \A j \in GuardIds : Named(j)' /\ ~ Based(j)' =>
          \E u \in Askers : call'[u].step = "fields" /\ call'[u].slot = j
    BY <1>8, <1>9 DEF Filed
  <2>. QED
    BY <1>9, <2>2, <2>3 DEF Filed
<1>15. Found'
  <2>1. \A j \in GuardIds : FoundAt(j)' = FoundAt(j)
    BY <1>1 DEF FoundAt, TableProbes
  <2>. QED
    BY <1>9, <2>1 DEF Found
<1>16. Indexed'
  <2>0. \A j \in GuardIds : Based(j) => All(table[j]) \subseteq Nat
    BY EntryExtent, GuardDomains
  <2>1. ASSUME NEW j \in GuardIds, table[j].state # "never", j \notin partial'
        PROVE  \A g \in All(table[j]) : IndexedAt(j, g)'
    <3>1. j \notin partial /\ Based(j)
      BY <1>6, <2>1 DEF Extents
    <3>. QED
      BY <1>6, <2>0, <2>1, <3>1 DEF Indexed
  <2>2. ASSUME NEW u \in Askers, call'[u].step = "index"
        PROVE  /\ call'[u].granule \in All(call[u]) /\ call'[u].slot \notin partial'
               /\ \A g \in call'[u].base .. call'[u].granule - 1 : IndexedAt(call[u].slot, g)'
    <3>1. CASE u = t
      <4>1. call'[u] = c /\ c.step = "index" /\ call'[u].slot = s /\ call[u].slot = s
        BY <1>0, <1>6, <1>7, <2>2, <3>1
      <4>2. \A g \in call[t].base .. c.granule - 1 : IndexedAt(call[u].slot, g)'
        <5>1. call'[u].slot = s
          BY <4>1
        <5>2. \A g \in call[t].base .. c.granule - 1 : IndexedAt(s, g)'
          BY <1>6, <4>1
        <5>. QED
          BY <5>1, <5>2, Zenon
      <4>. QED
        BY <1>3, <1>6, <3>1, <4>1, <4>2
    <3>2. CASE u # t
      <4>1. call'[u] = call[u] /\ Filing(u) /\ call[u].slot # s /\ call[u].slot \in GuardIds
        BY <1>2, <1>7, <2>2, <3>2 DEF Filing, Filed
      <4>2. /\ call[u].granule \in All(call[u]) /\ call[u].slot \notin partial
            /\ \A g \in call[u].base .. call[u].granule - 1 : IndexedAt(call[u].slot, g)
        BY <2>2, <4>1 DEF Indexed
      <4>3. call[u].base \in Nat /\ call[u].granule \in Nat \cup {Nowhere}
        <5>1. Based(call[u].slot) /\ table[call[u].slot].base = call[u].base
          BY <2>2, <4>1 DEF Filed
        <5>. QED
          BY <4>1, <5>1, EntryExtent, GuardDomains DEF Whole, GuardTypes, GuardCall
      <4>4. ASSUME NEW g \in call[u].base .. call[u].granule - 1
            PROVE  IndexedAt(call[u].slot, g)'
        <5>1. g \in Nat
          BY <4>3 DEF Nowhere
        <5>2. PICK j \in GuardIds : j = call[u].slot
          BY <4>1
        <5>3. IndexedAt(j, g)'
          BY <1>6, <4>2, <5>1, <5>2
        <5>4. call'[u].slot = j
          BY <4>1, <5>2
        <5>. QED
          BY <5>3, <5>4, Zenon
      <4>. QED
        BY <1>6, <4>1, <4>2, <4>4
    <3>. QED
      BY <3>1, <3>2
  <2>3. ASSUME NEW u \in Askers, call'[u].step = "born", call'[u].slot \notin partial'
        PROVE  \A g \in All(call[u]) : IndexedAt(call[u].slot, g)'
    <3>1. CASE u = t
      <4>1. call'[u] = c /\ c.step = "born" /\ call'[u].slot = s /\ call[u].slot = s
        BY <1>0, <1>6, <1>7, <2>3, <3>1
      <4>2. \A g \in All(call[t]) : IndexedAt(s, g)'
        BY <1>6, <2>3, <4>1
      <4>3. call'[u].slot = s
        BY <4>1
      <4>. QED
        BY <3>1, <4>2, <4>3, Zenon
    <3>2. CASE u # t
      <4>1. call'[u] = call[u] /\ Filing(u) /\ call[u].slot # s /\ call[u].slot \in GuardIds
        BY <1>2, <1>7, <2>3, <3>2 DEF Filing, Filed
      <4>2. \A g \in All(call[u]) : IndexedAt(call[u].slot, g)
        BY <1>6, <2>3, <4>1 DEF Indexed
      <4>3. All(call[u]) \subseteq Nat
        <5>1. /\ Based(call[u].slot) /\ table[call[u].slot].base = call[u].base
              /\ table[call[u].slot].user = call[u].user
              /\ table[call[u].slot].slack = call[u].slack
          BY <2>3, <4>1 DEF Filed
        <5>. QED
          BY <2>0, <4>1, <5>1 DEF All
      <4>4. ASSUME NEW g \in All(call[u]) PROVE IndexedAt(call[u].slot, g)'
        <5>1. g \in Nat
          BY <4>3
        <5>2. PICK j \in GuardIds : j = call[u].slot
          BY <4>1
        <5>3. IndexedAt(j, g)'
          BY <1>6, <4>2, <5>1, <5>2
        <5>4. call'[u].slot = j
          BY <4>1, <5>2
        <5>. QED
          BY <5>3, <5>4, Zenon
      <4>. QED
        BY <4>4
    <3>. QED
      BY <3>1, <3>2
  <2>4. \A j \in partial' : j \in GuardIds /\ Based(j)'
    BY <1>2, <1>6, <1>9 DEF Indexed
  <2>. QED
    BY <1>1, <1>9, <2>1, <2>2, <2>3, <2>4 DEF Indexed
<1>17. Hands' /\ ("lawful" \notin foreign' /\ (misuses' = 0 => misuses = 0 /\ told' = {})
                         => Verdicts')
  BY <1>1, <1>4, <1>6, HandsQuiet
<1>. QED
  BY <1>1, <1>10, <1>11, <1>12, <1>13, <1>14, <1>15, <1>16, <1>17 DEF Verdicts
\* What the table and the index say of a block does not change with its state.
LEMMA StateMoves ==
    ASSUME GuardInv, NEW s \in GuardIds, NEW v \in {"alive", "freed"},
           table' = [table EXCEPT ![s].state = v], Based(s),
           UNCHANGED <<under, gindex, pages, partial>>, misuses' \in Nat,
           NEW t \in Askers, NEW c \in GuardCall, call' = [call EXCEPT ![t] = c],
           c.step \in {"rest", "judge", "decommit"}, ~ Carrying(t),
           call[t].step \notin {"fields", "decommit"},
           \A u \in Askers : Filing(u) /\ call[u].slot = s => u = t,
           v = "alive" => table[s].state = "never",
           v = "freed" => c.step = "decommit" /\ c.slot = s,
           s \notin partial => \A g \in All(table[s]) : IndexedAt(s, g)
    PROVE  /\ GuardTypes' /\ Extents' /\ Strangers' /\ PagesFollow'
           /\ Filed' /\ Found' /\ Indexed'
<1>. USE DEF GuardInv
<1>1. /\ call \in [Askers -> GuardCall] /\ table \in [GuardIds -> GuardEntry]
      /\ \A u \in Askers : call'[u] = IF u = t THEN c ELSE call[u]
  BY DEF GuardTypes
<1>2. /\ table' \in [GuardIds -> GuardEntry]
      /\ \A j \in GuardIds : /\ j # s => table'[j] = table[j]
                             /\ table'[j].base = table[j].base /\ table'[j].user = table[j].user
                             /\ table'[j].slack = table[j].slack /\ table'[j].p = table[j].p
      /\ table'[s].state = v
      /\ \A j : table'[j].p = table[j].p
  <2>1. table' \in [GuardIds -> GuardEntry]
    BY <1>1 DEF GuardEntry
  <2>2. \A j : j \notin GuardIds => table'[j] = table[j]
    BY <1>1
  <2>3. \A j \in GuardIds : /\ j # s => table'[j] = table[j]
                            /\ table'[j].base = table[j].base /\ table'[j].user = table[j].user
                            /\ table'[j].slack = table[j].slack /\ table'[j].p = table[j].p
    BY <1>1 DEF GuardEntry
  <2>4. table'[s].state = v
    BY <1>1 DEF GuardEntry
  <2>. QED
    BY <2>1, <2>2, <2>3, <2>4
<1>3. \A u \in Askers : /\ Carrying(u)' <=> Carrying(u)
                        /\ Filing(u)' <=> u # t /\ Filing(u)
                        /\ Filing(u)' \/ Carrying(u) => call'[u] = call[u] /\ u # t
  BY <1>1 DEF Carrying, Filing
<1>4. /\ \A j \in GuardIds : /\ Based(j)' <=> Based(j)
                             /\ Named(j)' <=> Named(j)
                             /\ All(table[j])' = All(table[j])
                             /\ Data(table[j])' = Data(table[j])
                             /\ Guard(table[j])' = Guard(table[j])
                             /\ Address(table[j])' = Address(table[j])
                             /\ Whole(table[j])' = Whole(table[j])
      /\ \A u \in Askers : u # t => /\ All(call[u])' = All(call[u])
                                    /\ Address(call[u])' = Address(call[u])
                                    /\ Whole(call[u])' = Whole(call[u])
                                    /\ Ready(call[u])' = Ready(call[u])
  <2>1. \A j \in GuardIds : /\ Based(j)' <=> Based(j)
                            /\ Named(j)' <=> Named(j)
                            /\ All(table[j])' = All(table[j])
                            /\ Data(table[j])' = Data(table[j])
                            /\ Guard(table[j])' = Guard(table[j])
                            /\ Address(table[j])' = Address(table[j])
                            /\ Whole(table[j])' = Whole(table[j])
    BY <1>2 DEF Based, Named, All, Data, Guard, Address, Whole
  <2>2. \A u \in Askers : u # t => call'[u] = call[u]
    BY <1>1
  <2>3. \A u \in Askers : u # t => /\ All(call[u])' = All(call[u])
                                   /\ Address(call[u])' = Address(call[u])
                                   /\ Whole(call[u])' = Whole(call[u])
                                   /\ Ready(call[u])' = Ready(call[u])
    BY <2>2 DEF All, Data, Guard, Address, Whole, Ready
  <2>. QED
    BY <2>1, <2>3
<1>5. GuardTypes'
  BY <1>1, <1>2 DEF GuardTypes
<1>6. Extents'
  <2>1. \A u \in Askers : call'[u].step \notin {"rest", "judge", "drop", "decommit"} =>
           call'[u].user > 0
    BY <1>1 DEF Extents
  <2>2. \A u \in Askers : Carrying(u)' => Whole(call[u])' /\ Ready(call[u])'
    BY <1>3, <1>4 DEF Extents
  <2>3. \A j \in GuardIds : IF Based(j) THEN Whole(table[j]) /\ table'[j].p = Address(table[j])
                            ELSE table'[j].state = "never" /\ table'[j].user = 0
    BY <1>2 DEF Extents
  <2>. QED
    BY <1>4, <2>1, <2>2, <2>3 DEF Extents
<1>7. Strangers'
  BY <1>3, <1>4 DEF Strangers
<1>8. PagesFollow'
  <2>1. ASSUME NEW j \in GuardIds, Based(j)
        PROVE  /\ pages[Guard(table[j])] = "reserved"
               /\ \A g \in Data(table[j]) : pages[g] # "free"
               /\ table'[j].state # "freed" => \A g \in Data(table[j]) : pages[g] = "committed"
               /\ table'[j].state = "freed" =>
                     \/ \E u \in Askers : call'[u].step = "decommit" /\ call'[u].slot = j
                     \/ \A g \in Data(table[j]) : pages[g] = "reserved"
    <3>1. CASE j = s
      <4>1. v = "freed" => \E u \in Askers : call'[u].step = "decommit" /\ call'[u].slot = j
        BY <1>1, <3>1
      <4>2. v = "alive" => \A g \in Data(table[j]) : pages[g] = "committed"
        BY <2>1, <3>1 DEF PagesFollow
      <4>. QED
        BY <1>2, <2>1, <3>1, <4>1, <4>2 DEF PagesFollow
    <3>2. CASE j # s
      <4>1. \A u \in Askers : call[u].step = "decommit" => call'[u] = call[u]
        BY <1>1
      <4>. QED
        BY <1>2, <2>1, <3>2, <4>1 DEF PagesFollow
    <3>. QED
      BY <3>1, <3>2
  <2>. QED
    BY <1>4, <2>1 DEF PagesFollow
<1>9. Filed'
  <2>1. \A u \in Askers : Filing(u)' => /\ (Based(call[u].slot)' <=> Based(call[u].slot))
                                        /\ table'[call[u].slot] = table[call[u].slot]
    <3>1. ASSUME NEW u \in Askers, Filing(u)'
          PROVE  /\ table'[call[u].slot] = table[call[u].slot]
                 /\ call'[u].slot = call[u].slot
      BY <1>2, <1>3, <3>1 DEF Filed
    <3>. QED
      BY <3>1 DEF Based
  <2>2. \A j \in GuardIds : Named(j)' /\ ~ Based(j)' =>
          \E u \in Askers : call'[u].step = "fields" /\ call'[u].slot = j
    <3>1. \A u \in Askers : call[u].step = "fields" => call'[u] = call[u]
      BY <1>1
    <3>. QED
      BY <1>4, <3>1 DEF Filed
  <2>3. ASSUME NEW u \in Askers, Filing(u)'
        PROVE  /\ call'[u].slot \in GuardIds /\ table'[call'[u].slot].state = "never"
               /\ IF call'[u].step = "fields"
                    THEN ~ Based(call[u].slot)' /\ table'[call'[u].slot].p = Address(call[u])'
                    ELSE /\ Based(call[u].slot)'
                         /\ table'[call'[u].slot].base = call'[u].base
                         /\ table'[call'[u].slot].user = call'[u].user
                         /\ table'[call'[u].slot].slack = call'[u].slack
               /\ \A w \in Askers : Filing(w)' /\ call'[w].slot = call'[u].slot => w = u
    <3>1. Filing(u) /\ call'[u] = call[u] /\ u # t
      BY <1>3, <2>3
    <3>2. \A w \in Askers : Filing(w)' /\ call'[w].slot = call[u].slot => w = u
      BY <1>3, <3>1 DEF Filed
    <3>. QED
      BY <1>4, <2>1, <2>3, <3>1, <3>2 DEF Filed
  <2>. QED
    BY <2>2, <2>3 DEF Filed
<1>10. Found'
  <2>1. ASSUME NEW j \in GuardIds, FoundAt(j) PROVE FoundAt(j)'
    <3>1. \A x : table'[x].p = table[x].p
      BY <1>2
    <3>2. PICK k \in 1 .. GuardProbe :
            /\ TableProbes(table[j].p)[k] = j
            /\ \A m \in 1 .. k - 1 :
                  table[TableProbes(table[j].p)[m]].p \notin {table[j].p, Nowhere}
      BY <2>1 DEF FoundAt
    <3>3. \A m \in 1 .. k - 1 :
            table'[TableProbes(table[j].p)[m]].p \notin {table[j].p, Nowhere}
      BY <3>1, <3>2
    <3>4. TableProbes(table'[j].p) = TableProbes(table[j].p)
      BY <3>1
    <3>5. TableProbes(table[j].p)' = TableProbes(table'[j].p)
      BY DEF TableProbes
    <3>. QED
      BY <3>1, <3>2, <3>3, <3>4, <3>5 DEF FoundAt
  <2>. QED
    BY <1>4, <2>1 DEF Found
<1>11. Indexed'
  <2>1. \A j, g : IndexedAt(j, g)' = IndexedAt(j, g)
    BY DEF IndexedAt, IndexProbes
  <2>2. ASSUME NEW j \in GuardIds, table'[j].state # "never", j \notin partial
        PROVE  \A g \in All(table[j]) : IndexedAt(j, g)
    BY <1>2, <2>2 DEF Indexed
  <2>3. \A u \in Askers : call'[u].step \in {"index", "born"} => call'[u] = call[u] /\ u # t
    BY <1>1
  <2>4. ASSUME NEW u \in Askers
        PROVE  /\ call'[u].step = "index" =>
                     /\ call'[u].granule \in All(call[u])' /\ call'[u].slot \notin partial
                     /\ \A g \in call'[u].base .. call'[u].granule - 1 : IndexedAt(call'[u].slot, g)
               /\ call'[u].step = "born" /\ call'[u].slot \notin partial =>
                     \A g \in All(call[u])' : IndexedAt(call'[u].slot, g)
    BY <1>4, <2>3 DEF Indexed
  <2>5. \A j \in partial' : j \in GuardIds /\ Based(j)'
    BY <1>4 DEF Indexed
  <2>. QED
    BY <1>4, <2>1, <2>2, <2>4, <2>5 DEF Indexed
<1>. QED
  BY <1>5, <1>6, <1>7, <1>8, <1>9, <1>10, <1>11

\* A block is alive and is the program's; for a resize the old one is to go.
LEMMA GuardBears == ASSUME GuardInv, NEW t \in Askers, GuardBorn(t) PROVE GuardInv'
<1>. USE DEF GuardInv
<1>0. PICK s \in GuardIds : s = call[t].slot
  BY DEF GuardBorn, Filing, Filed
<1>1. /\ call[t].step = "born" /\ call[t] \in GuardCall /\ ~ Carrying(t) /\ Filing(t)
      /\ call \in [Askers -> GuardCall] /\ table \in [GuardIds -> GuardEntry]
      /\ ~ Releasing(t) /\ misuses' \in Nat
      /\ UNCHANGED <<under, gindex, pages, partial, told, foreign, misuses>>
  BY DEF GuardBorn, GuardTypes, Carrying, Filing, Releasing
<1>. DEFINE o == call[t].old
            c == IF o = Nowhere THEN Resting ELSE [Resting EXCEPT !.step = "judge", !.slot = o]
<1>2. /\ table' = [table EXCEPT ![s].state = "alive"] /\ call' = [call EXCEPT ![t] = c]
      /\ inHand' = inHand \cup {table[s].p}
  BY <1>0 DEF GuardBorn
<1>3. /\ table[s].state = "never" /\ Based(s) /\ table[s].base = call[t].base
      /\ table[s].user = call[t].user /\ table[s].slack = call[t].slack
      /\ \A u \in Askers : Filing(u) /\ call[u].slot = s => u = t
  BY <1>0, <1>1 DEF Filed
<1>4. /\ c \in GuardCall /\ c.old = Nowhere /\ c.kind = "lawful"
      /\ c.step \in {"rest", "judge"} /\ (c.step = "judge" => c.slot = o /\ o # Nowhere)
      /\ o \in GuardIds \cup {Nowhere}
  BY <1>1 DEF Resting, GuardCall
<1>5. s \notin partial => \A g \in All(table[s]) : IndexedAt(s, g)
  <2>1. All(table[s]) = All(call[t])
    BY <1>3 DEF All
  <2>. QED
    BY <1>0, <1>1, <2>1 DEF Indexed
<1>6. o # Nowhere => /\ table[o].state = "alive" /\ table[o].p \notin inHand /\ o # s
                     /\ o \in GuardIds
                     /\ \A u \in Askers : ~ (Releasing(u) /\ call[u].slot = o)
                     /\ \A u \in Askers : call[u].old = o => u = t
  BY <1>3, <1>4 DEF Hands, Unheld
<1>. HIDE DEF c, o
<1>7. /\ GuardTypes' /\ Extents' /\ Strangers' /\ PagesFollow'
      /\ Filed' /\ Found' /\ Indexed'
  BY <1>1, <1>2, <1>3, <1>4, <1>5, StateMoves
<1>8. /\ \A u \in Askers : call'[u] = IF u = t THEN c ELSE call[u]
      /\ \A j \in GuardIds : /\ j # s => table'[j] = table[j]
                             /\ table'[j].p = table[j].p
      /\ table'[s].state = "alive"
  BY <1>1, <1>2 DEF GuardEntry
<1>9. \A u \in Askers : Releasing(u)' =>
         \/ u = t /\ call'[u].step = "judge" /\ call'[u].slot = o /\ o # Nowhere
         \/ u # t /\ Releasing(u) /\ call'[u] = call[u] /\ call[u].slot # s
                  /\ call[u].slot \in GuardIds /\ call[u].slot # o
  <2>1. ASSUME NEW u \in Askers, Releasing(u)'
        PROVE  \/ u = t /\ call'[u].step = "judge" /\ call'[u].slot = o /\ o # Nowhere
               \/ u # t /\ Releasing(u) /\ call'[u] = call[u] /\ call[u].slot # s
                        /\ call[u].slot \in GuardIds /\ call[u].slot # o
    <3>1. CASE u = t
      BY <1>4, <1>8, <2>1, <3>1 DEF Releasing
    <3>2. CASE u # t
      <4>1. Releasing(u) /\ call'[u] = call[u]
        BY <1>8, <2>1, <3>2 DEF Releasing
      <4>2. call[u].slot \in GuardIds /\ table[call[u].slot].state # "never"
        BY <4>1 DEF Hands
      <4>. QED
        BY <1>3, <1>6, <3>2, <4>1, <4>2, GuardDomains
    <3>. QED
      BY <3>1, <3>2
  <2>. QED
    BY <2>1
<1>10. \A u \in Askers : call'[u].old # Nowhere =>
         /\ u # t /\ call'[u] = call[u] /\ call[u].old \in GuardIds
         /\ call[u].old # s /\ call[u].old # o
         /\ call[u].step \notin {"rest", "judge", "drop", "decommit"}
         /\ table[call[u].old].state = "alive" /\ table[call[u].old].p \notin inHand
         /\ Unheld(call[u].old)
         /\ \A w \in Askers : call[w].old = call[u].old => w = u
  <2>1. ASSUME NEW u \in Askers, call'[u].old # Nowhere
        PROVE  /\ u # t /\ call'[u] = call[u] /\ call[u].old \in GuardIds
               /\ call[u].old # s /\ call[u].old # o
               /\ call[u].step \notin {"rest", "judge", "drop", "decommit"}
               /\ table[call[u].old].state = "alive" /\ table[call[u].old].p \notin inHand
               /\ Unheld(call[u].old)
               /\ \A w \in Askers : call[w].old = call[u].old => w = u
    <3>1. u # t /\ call'[u] = call[u] /\ call[u].old # Nowhere
      BY <1>4, <1>8, <2>1
    <3>2. /\ call[u].step \notin {"rest", "judge", "drop", "decommit"}
          /\ table[call[u].old].state = "alive" /\ table[call[u].old].p \notin inHand
          /\ Unheld(call[u].old)
          /\ \A w \in Askers : call[w].old = call[u].old => w = u
      BY <3>1 DEF Hands
    <3>3. call[u].old \in GuardIds
      BY <1>1, <3>1 DEF GuardCall
    <3>. QED
      BY <1>3, <1>6, <3>1, <3>2, <3>3
  <2>. QED
    BY <2>1
<1>11. Hands'
  <2>1. ASSUME NEW p \in inHand'
        PROVE  \E i \in GuardIds :
                  /\ table'[i].p = p /\ table'[i].state = "alive" /\ Unheld(i)'
                  /\ \A u \in Askers : call'[u].old # i
    <3>1. CASE p \in inHand
      <4>1. PICK i \in GuardIds :
              /\ table[i].p = p /\ table[i].state = "alive" /\ Unheld(i)
              /\ \A u \in Askers : call[u].old # i
        BY <3>1 DEF Hands
      <4>2. i # s /\ i # o
        BY <1>3, <4>1 DEF o
      <4>3. table'[i] = table[i]
        BY <1>8, <4>2
      <4>4. Unheld(i)'
        BY <1>8, <1>9, <4>1, <4>2 DEF Unheld
      <4>5. \A u \in Askers : call'[u].old # i
        BY <1>4, <1>8, <4>1, GuardDomains
      <4>. QED
        BY <4>1, <4>3, <4>4, <4>5
    <3>2. CASE p = table[s].p
      <4>1. Unheld(s)'
        BY <1>6, <1>8, <1>9 DEF Unheld
      <4>2. \A u \in Askers : call'[u].old # s
        BY <1>10, GuardDomains
      <4>. QED
        BY <1>8, <3>2, <4>1, <4>2
    <3>. QED
      BY <1>2, <3>1, <3>2
  <2>2. ASSUME NEW u \in Askers, call'[u].old # Nowhere
        PROVE  /\ call'[u].step \notin {"rest", "judge", "drop", "decommit"}
               /\ table'[call'[u].old].state = "alive" /\ table'[call'[u].old].p \notin inHand'
               /\ \A w \in Askers : ~ (Releasing(w)' /\ call'[w].slot = call'[u].old)
               /\ \A w \in Askers : call'[w].old = call'[u].old => w = u
    <3>1. PICK j \in GuardIds : j = call[u].old
      BY <1>10, <2>2
    <3>2. /\ u # t /\ call'[u] = call[u] /\ j # s /\ j # o
          /\ call[u].step \notin {"rest", "judge", "drop", "decommit"}
          /\ table[j].state = "alive" /\ table[j].p \notin inHand
          /\ Unheld(j)
          /\ \A w \in Askers : call[w].old = j => w = u
      BY <1>10, <2>2, <3>1
    <3>3. table'[j] = table[j]
      BY <1>8, <3>2
    <3>4. Based(j) /\ table[j].p # table[s].p
      <4>1. Based(j)
        BY <3>2 DEF Extents
      <4>2. Named(j) /\ Named(s)
        BY <1>3, <4>1, EntryExtent
      <4>. QED
        BY <3>2, <4>1, <4>2, NamesApart
    <3>5. \A w \in Askers : ~ (Releasing(w)' /\ call'[w].slot = j)
      BY <1>9, <3>2 DEF Unheld
    <3>6. \A w \in Askers : call'[w].old = j => w = u
      BY <1>10, <3>1, <3>2, GuardDomains
    <3>. QED
      BY <1>2, <3>1, <3>2, <3>3, <3>4, <3>5, <3>6
  <2>3. ASSUME NEW u \in Askers, Releasing(u)'
        PROVE  /\ call'[u].slot \in GuardIds /\ table'[call'[u].slot].state # "never"
               /\ call'[u].step = "decommit" => table'[call'[u].slot].state = "freed"
    <3>1. CASE u = t
      BY <1>6, <1>8, <1>9, <2>3, <3>1
    <3>2. CASE u # t
      <4>1. /\ Releasing(u) /\ call'[u] = call[u] /\ call[u].slot # s
            /\ call[u].slot \in GuardIds
        BY <1>9, <2>3, <3>2
      <4>. QED
        BY <1>8, <4>1 DEF Hands
    <3>. QED
      BY <3>1, <3>2
  <2>4. ASSUME NEW u \in Askers, call'[u].kind = "late"
        PROVE  call'[u].step = "judge" /\ table'[call'[u].slot].state = "freed"
    <3>1. u # t /\ call'[u] = call[u]
      BY <1>4, <1>8, <2>4
    <3>2. call[u].step = "judge" /\ table[call[u].slot].state = "freed"
      BY <2>4, <3>1 DEF Hands
    <3>3. Releasing(u)'
      BY <3>1, <3>2 DEF Releasing
    <3>4. call[u].slot \in GuardIds /\ call[u].slot # s
      BY <1>9, <3>1, <3>3
    <3>. QED
      BY <1>8, <3>1, <3>2, <3>4
  <2>. QED
    BY <2>1, <2>2, <2>3, <2>4 DEF Hands, Unheld
<1>12. Verdicts'
  <2>. SUFFICES ASSUME misuses = 0, NEW u \in Askers, call'[u].step \in {"judge", "drop"}
                PROVE  /\ table'[call'[u].slot].state = "alive"
                       /\ \A w \in Askers : Releasing(w)' /\ call'[w].slot = call'[u].slot => w = u
    BY <1>1 DEF Verdicts
  <2>1. Releasing(u)'
    BY DEF Releasing
  <2>2. CASE u = t
    <3>1. call'[u].slot = o /\ o # Nowhere
      BY <1>9, <2>1, <2>2
    <3>2. table'[o] = table[o] /\ table[o].state = "alive"
      BY <1>6, <1>8, <3>1
    <3>3. \A w \in Askers : Releasing(w)' /\ call'[w].slot = o => w = t
      BY <1>9
    <3>. QED
      BY <2>2, <3>1, <3>2, <3>3
  <2>3. CASE u # t
    <3>1. /\ Releasing(u) /\ call'[u] = call[u] /\ call[u].slot # s
          /\ call[u].slot \in GuardIds /\ call[u].slot # o
      BY <1>9, <2>1, <2>3
    <3>2. \A w \in Askers : Releasing(w)' /\ call'[w].slot = call[u].slot =>
             Releasing(w) /\ call'[w] = call[w]
      BY <1>9, <3>1
    <3>. QED
      BY <1>8, <3>1, <3>2 DEF Verdicts
  <2>. QED
    BY <2>2, <2>3
<1>. QED
  BY <1>7, <1>11, <1>12
\* The block has been released: its pages are next.
LEMMA GuardDrops == ASSUME GuardInv, NEW t \in Askers, ReleaseDrop(t) PROVE GuardInv'
<1>. USE DEF GuardInv
<1>0. PICK s \in GuardIds : s = call[t].slot
  BY DEF ReleaseDrop, Releasing, Hands
<1>1. /\ call[t].step = "drop" /\ call[t] \in GuardCall /\ ~ Carrying(t) /\ ~ Filing(t)
      /\ call \in [Askers -> GuardCall] /\ table \in [GuardIds -> GuardEntry]
      /\ Releasing(t) /\ misuses' \in Nat
      /\ UNCHANGED <<under, gindex, pages, partial, told, foreign, misuses, inHand>>
  BY DEF ReleaseDrop, GuardTypes, Carrying, Filing, Releasing
<1>. DEFINE c == [call[t] EXCEPT !.step = "decommit"]
<1>2. table' = [table EXCEPT ![s].state = "freed"] /\ call' = [call EXCEPT ![t] = c]
  BY <1>0, <1>1 DEF ReleaseDrop
<1>3. table[s].state # "never" /\ Based(s) /\ call[t].old = Nowhere
  BY <1>0, <1>1 DEF Hands, Extents
<1>4. /\ c \in GuardCall /\ c.step = "decommit" /\ c.slot = s /\ c.old = Nowhere
      /\ c.kind # "late"
  BY <1>0, <1>1, <1>3 DEF GuardCall, Hands
<1>5. s \notin partial => \A g \in All(table[s]) : IndexedAt(s, g)
  BY <1>3 DEF Indexed
<1>6. \A u \in Askers : Filing(u) /\ call[u].slot = s => u = t
  BY <1>3 DEF Filed
<1>. HIDE DEF c
<1>7. /\ GuardTypes' /\ Extents' /\ Strangers' /\ PagesFollow'
      /\ Filed' /\ Found' /\ Indexed'
  BY <1>1, <1>2, <1>3, <1>4, <1>5, <1>6, StateMoves
<1>8. /\ \A u \in Askers : call'[u] = IF u = t THEN c ELSE call[u]
      /\ \A j \in GuardIds : /\ j # s => table'[j] = table[j]
                             /\ table'[j].p = table[j].p
      /\ table'[s].state = "freed"
  BY <1>1, <1>2 DEF GuardEntry
<1>9. \A u \in Askers : /\ Releasing(u)' <=> Releasing(u)
                        /\ call'[u].slot = call[u].slot /\ call'[u].old = call[u].old
                        /\ call'[u].old # Nowhere \/ call'[u].kind = "late"
                              \/ call'[u].step \in {"judge", "drop"} => u # t /\ call'[u] = call[u]
  BY <1>0, <1>1, <1>3, <1>4, <1>8 DEF Releasing
<1>10. \A i : Unheld(i)' <=> Unheld(i)
  BY <1>9 DEF Unheld
<1>11. ~ Unheld(s)
  BY <1>0, <1>1 DEF Unheld
<1>12. Hands'
  <2>1. ASSUME NEW p \in inHand'
        PROVE  \E i \in GuardIds :
                  /\ table'[i].p = p /\ table'[i].state = "alive" /\ Unheld(i)'
                  /\ \A u \in Askers : call'[u].old # i
    <3>1. PICK i \in GuardIds :
            /\ table[i].p = p /\ table[i].state = "alive" /\ Unheld(i)
            /\ \A u \in Askers : call[u].old # i
      BY <1>1 DEF Hands
    <3>. QED
      BY <1>8, <1>9, <1>10, <1>11, <3>1
  <2>2. ASSUME NEW u \in Askers, call'[u].old # Nowhere
        PROVE  /\ call'[u].step \notin {"rest", "judge", "drop", "decommit"}
               /\ table'[call'[u].old].state = "alive" /\ table'[call'[u].old].p \notin inHand'
               /\ \A w \in Askers : ~ (Releasing(w)' /\ call'[w].slot = call'[u].old)
               /\ \A w \in Askers : call'[w].old = call'[u].old => w = u
    <3>1. call'[u] = call[u] /\ call[u].old \in GuardIds
      BY <1>1, <1>9, <2>2 DEF GuardCall
    <3>2. /\ call[u].step \notin {"rest", "judge", "drop", "decommit"}
          /\ table[call[u].old].state = "alive" /\ table[call[u].old].p \notin inHand
          /\ Unheld(call[u].old)
          /\ \A w \in Askers : call[w].old = call[u].old => w = u
      BY <2>2, <3>1 DEF Hands
    <3>3. call[u].old # s
      BY <1>11, <3>2
    <3>. QED
      BY <1>1, <1>8, <1>9, <3>1, <3>2, <3>3 DEF Unheld
  <2>3. ASSUME NEW u \in Askers, Releasing(u)'
        PROVE  /\ call'[u].slot \in GuardIds /\ table'[call'[u].slot].state # "never"
               /\ call'[u].step = "decommit" => table'[call'[u].slot].state = "freed"
    <3>1. call[u].slot \in GuardIds /\ call'[u].slot = call[u].slot
      BY <1>9, <2>3 DEF Hands
    <3>2. CASE call[u].slot = s
      BY <1>8, <3>1, <3>2
    <3>3. CASE call[u].slot # s
      <4>1. u # t /\ call'[u] = call[u] /\ Releasing(u)
        BY <1>0, <1>8, <1>9, <2>3, <3>3
      <4>. QED
        BY <1>8, <3>1, <3>3, <4>1 DEF Hands
    <3>. QED
      BY <3>2, <3>3
  <2>4. ASSUME NEW u \in Askers, call'[u].kind = "late"
        PROVE  call'[u].step = "judge" /\ table'[call'[u].slot].state = "freed"
    <3>1. call'[u] = call[u]
      BY <1>9, <2>4
    <3>2. call[u].step = "judge" /\ table[call[u].slot].state = "freed"
      BY <2>4, <3>1 DEF Hands
    <3>3. call[u].slot \in GuardIds
      BY <3>2 DEF Hands, Releasing
    <3>. QED
      BY <1>8, <3>1, <3>2, <3>3
  <2>. QED
    BY <2>1, <2>2, <2>3, <2>4 DEF Hands, Unheld
<1>13. Verdicts'
  <2>. SUFFICES ASSUME misuses = 0, NEW u \in Askers, call'[u].step \in {"judge", "drop"}
                PROVE  /\ table'[call'[u].slot].state = "alive"
                       /\ \A w \in Askers : Releasing(w)' /\ call'[w].slot = call'[u].slot => w = u
    BY <1>1 DEF Verdicts
  <2>1. u # t /\ call'[u] = call[u] /\ Releasing(u) /\ call[u].slot \in GuardIds
    BY <1>9 DEF Releasing, Hands
  <2>2. /\ table[call[u].slot].state = "alive"
        /\ \A w \in Askers : Releasing(w) /\ call[w].slot = call[u].slot => w = u
    BY <2>1 DEF Verdicts
  <2>3. call[u].slot # s
    BY <1>0, <1>1, <2>1, <2>2
  <2>. QED
    BY <1>8, <1>9, <2>1, <2>2, <2>3
<1>. QED
  BY <1>7, <1>12, <1>13

\* Its pages go.
LEMMA GuardDecommits == ASSUME GuardInv, NEW t \in Askers, ReleaseDecommit(t) PROVE GuardInv'
<1>. USE DEF GuardInv
<1>0. PICK s \in GuardIds : s = call[t].slot
  BY DEF ReleaseDecommit, Releasing, Hands
<1>1. /\ call[t].step = "decommit" /\ call[t] \in GuardCall /\ ~ Carrying(t) /\ ~ Filing(t)
      /\ call \in [Askers -> GuardCall]
      /\ Releasing(t) /\ misuses' \in Nat /\ call' = [call EXCEPT ![t] = Resting]
      /\ pages' = [g \in Space |-> IF g \in Data(table[s]) THEN "reserved" ELSE pages[g]]
      /\ UNCHANGED <<under, table, gindex, partial, told, foreign, misuses, inHand>>
  BY <1>0 DEF ReleaseDecommit, Decommitted, GuardTypes, Carrying, Filing, Releasing
<1>2. table[s].state = "freed" /\ Based(s)
  BY <1>0, <1>1 DEF Hands, Extents
<1>3. /\ Resting \in GuardCall /\ Resting.step = "rest" /\ Resting.old = Nowhere
      /\ Resting.kind = "lawful"
  BY DEF Resting, GuardCall
<1>4. \A u \in Askers : call'[u] = IF u = t THEN Resting ELSE call[u]
  BY <1>1
<1>5. /\ pages' \in [Space -> {"free", "reserved", "committed"}]
      /\ \A g \in Data(table[s]) : pages'[g] = "reserved"
      /\ \A g \in Space : g \notin Data(table[s]) => pages'[g] = pages[g]
  BY <1>1, <1>2, EntryExtent DEF GuardTypes
<1>6. \A u \in Askers : /\ Carrying(u)' <=> Carrying(u)
                        /\ Filing(u)' <=> Filing(u)
                        /\ Filing(u) \/ Carrying(u) => call'[u] = call[u] /\ u # t
  BY <1>1, <1>3, <1>4 DEF Carrying, Filing
<1>7. /\ \A i \in GuardIds : Based(i) /\ i # s => \A g \in All(table[i]) : pages'[g] = pages[g]
      /\ \A u \in Askers : Carrying(u) => \A g \in All(call[u]) : pages'[g] = pages[g]
  BY <1>2, <1>5, EntryExtent, CallExtent DEF Strangers
<1>8. GuardTypes'
  BY <1>1, <1>3, <1>4, <1>5 DEF GuardTypes
<1>9. \A i \in GuardIds : /\ Based(i)' <=> Based(i)
                          /\ Named(i)' <=> Named(i)
                          /\ Address(table[i])' = Address(table[i])
                          /\ All(table[i])' = All(table[i])
                          /\ Data(table[i])' = Data(table[i])
                          /\ Guard(table[i])' = Guard(table[i])
                          /\ Whole(table[i])' = Whole(table[i])
  BY <1>1 DEF Based, Named, Address, All, Data, Guard, Whole
<1>10. \A u \in Askers : u # t => /\ Address(call[u])' = Address(call[u])
                                  /\ All(call[u])' = All(call[u])
                                  /\ Whole(call[u])' = Whole(call[u])
                                  /\ Data(call[u])' = Data(call[u])
                                  /\ Guard(call[u])' = Guard(call[u])
  <2>1. \A u \in Askers : u # t => call'[u] = call[u]
    BY <1>4
  <2>. QED
    BY <1>1, <2>1 DEF Address, All, Data, Guard, Whole
<1>11. Extents'
  <2>1. \A u \in Askers : call'[u].step \notin {"rest", "judge", "drop", "decommit"} =>
           call'[u].user > 0
    BY <1>3, <1>4 DEF Extents
  <2>2. ASSUME NEW u \in Askers, Carrying(u)'
        PROVE  Whole(call[u])' /\ Ready(call[u])'
    <3>1. Carrying(u) /\ call'[u] = call[u] /\ u # t
      BY <1>6, <2>2
    <3>2. /\ pages'[Guard(call[u])] = "reserved"
          /\ \A g \in Data(call[u]) : pages'[g] = "committed"
      BY <1>7, <3>1, CallExtent DEF Ready
    <3>. QED
      BY <1>10, <3>1, <3>2, CallExtent DEF Ready
  <2>. QED
    BY <1>1, <1>9, <2>1, <2>2 DEF Extents
<1>12. Strangers'
  BY <1>6, <1>9, <1>10 DEF Strangers
<1>13. PagesFollow'
  <2>. SUFFICES ASSUME NEW i \in GuardIds, Based(i)
                PROVE  /\ pages'[Guard(table[i])] = "reserved"
                       /\ \A g \in Data(table[i]) : pages'[g] # "free"
                       /\ table[i].state # "freed" =>
                             \A g \in Data(table[i]) : pages'[g] = "committed"
                       /\ table[i].state = "freed" =>
                             \/ \E u \in Askers : call'[u].step = "decommit" /\ call'[u].slot = i
                             \/ \A g \in Data(table[i]) : pages'[g] = "reserved"
    BY <1>1, <1>9 DEF PagesFollow
  <2>1. CASE i = s
    <3>1. pages'[Guard(table[s])] = "reserved"
      BY <1>2, <1>5, EntryExtent DEF PagesFollow
    <3>. QED
      BY <1>2, <1>5, <2>1, <3>1
  <2>2. CASE i # s
    <3>1. \A g \in Data(table[i]) \cup {Guard(table[i])} : pages'[g] = pages[g]
      BY <1>7, <2>2, EntryExtent
    <3>2. \A u \in Askers : call[u].step = "decommit" /\ call[u].slot = i => call'[u] = call[u]
      BY <1>0, <1>4, <2>2
    <3>. QED
      BY <3>1, <3>2 DEF PagesFollow
  <2>. QED
    BY <2>1, <2>2
<1>14. Filed'
  <2>1. \A i \in GuardIds : Named(i) /\ ~ Based(i) =>
          \E u \in Askers : call'[u].step = "fields" /\ call'[u].slot = i
    <3>1. \A u \in Askers : call[u].step = "fields" => call'[u] = call[u]
      BY <1>6 DEF Filing
    <3>. QED
      BY <3>1 DEF Filed
  <2>. QED
    BY <1>1, <1>6, <1>9, <1>10, <2>1 DEF Filed
<1>15. Found'
  <2>1. \A i \in GuardIds : FoundAt(i)' = FoundAt(i)
    BY <1>1 DEF FoundAt, TableProbes
  <2>. QED
    BY <1>9, <2>1 DEF Found
<1>16. Indexed'
  <2>1. \A i, g : IndexedAt(i, g)' = IndexedAt(i, g)
    BY <1>1 DEF IndexedAt, IndexProbes
  <2>2. \A u \in Askers : call'[u].step \in {"index", "born"} => call'[u] = call[u] /\ u # t
    BY <1>3, <1>4
  <2>. QED
    BY <1>1, <1>9, <1>10, <2>1, <2>2 DEF Indexed
<1>17. Hands' /\ ("lawful" \notin foreign' /\ (misuses' = 0 => misuses = 0 /\ told' = {})
                         => Verdicts')
  BY <1>1, <1>3, HandsQuiet
<1>. QED
  BY <1>1, <1>8, <1>11, <1>12, <1>13, <1>14, <1>15, <1>16, <1>17 DEF Verdicts

-----------------------------------------------------------------------------
\* Whatever the threads ask for, release, resize and release again, the table,
\* the index, the pages and the calls under way agree (san_alloc_guarded,
\* guarded_free, san_realloc).
THEOREM GuardedInvariant == GuardedSpec => []GuardInv
<1>1. GuardedInit => GuardInv
  BY GuardStarts
<1>2. GuardInv /\ [GuardedNext]_guardVars => GuardInv'
  <2>. SUFFICES ASSUME GuardInv, [GuardedNext]_guardVars PROVE GuardInv'
    OBVIOUS
  <2>1. ASSUME NEW t \in Askers, NEW r \in Requests, GuardAsk(t, r) PROVE GuardInv'
    BY <2>1, GuardMoves
  <2>2. ASSUME NEW t \in Askers, NEW good \in BOOLEAN,
               WaveThrough(t, good) \/ GuardRefused(t, good)
        PROVE  GuardInv'
    BY <2>2, GuardEnds
  <2>3. ASSUME NEW t \in Askers, NEW good \in BOOLEAN, GuardUndo(t, good) PROVE GuardInv'
    BY <2>3, GuardUndoes
  <2>4. ASSUME NEW t \in Askers, NEW b \in Space, GuardReserve(t, b) PROVE GuardInv'
    BY <2>4, GuardReserves
  <2>5. ASSUME NEW t \in Askers, GuardInsert(t) PROVE GuardInv'
    BY <2>5, GuardInserts
  <2>6. ASSUME NEW t \in Askers, GuardCalm(t) \/ StepBack(t) PROVE GuardInv'
    BY <2>6, GuardMoves
  <2>7. ASSUME NEW t \in Askers, GuardFields(t) PROVE GuardInv'
    BY <2>7, GuardFills
  <2>8. ASSUME NEW t \in Askers, GuardIndex(t) PROVE GuardInv'
    BY <2>8, GuardIndexes
  <2>9. ASSUME NEW t \in Askers, GuardBorn(t) PROVE GuardInv'
    BY <2>9, GuardBears
  <2>10. ASSUME NEW t \in Askers, NEW p \in Space, NEW q \in Space, ReleaseFind(t, p, q)
         PROVE  GuardInv'
    BY <2>10, GuardReleases
  <2>11. ASSUME NEW t \in Askers, NEW i \in GuardIds, ReleaseAgain(t, i) PROVE GuardInv'
    BY <2>11, GuardReleasesAgain
  <2>12. ASSUME NEW t \in Askers, Judge(t) PROVE GuardInv'
    BY <2>12, GuardJudges
  <2>13. ASSUME NEW t \in Askers, ReleaseDrop(t) PROVE GuardInv'
    BY <2>13, GuardDrops
  <2>14. ASSUME NEW t \in Askers, ReleaseDecommit(t) PROVE GuardInv'
    BY <2>14, GuardDecommits
  <2>15. ASSUME NEW t \in Askers, NEW p \in Space, NEW r \in Requests, ResizeMove(t, p, r)
         PROVE  GuardInv'
    BY <2>15, GuardResizes
  <2>16. CASE UNCHANGED guardVars
    <3>. USE DEF GuardInv
    <3>1. /\ UNCHANGED <<under, table, gindex, pages, call, inHand, partial, told, foreign,
                         misuses>>
      BY <2>16 DEF guardVars
    <3>2. GuardTypes' /\ Extents' /\ Strangers' /\ PagesFollow'
      BY <3>1 DEF GuardTypes, Extents, Strangers, PagesFollow, Based, Carrying, Whole, Ready,
                  Address, All, Data, Guard
    <3>3. Filed' /\ Found' /\ Indexed'
      <4>1. Filed'
        BY <3>1 DEF Filed, Based, Named, Filing, Address
      <4>2. \A i : Named(i)' = Named(i) /\ FoundAt(i)' = FoundAt(i)
        BY <3>1 DEF Named, FoundAt, TableProbes
      <4>3. /\ \A i, g : IndexedAt(i, g)' = IndexedAt(i, g)
            /\ \A i : All(table[i])' = All(table[i]) /\ Based(i)' = Based(i)
            /\ \A u : All(call[u])' = All(call[u])
        BY <3>1 DEF IndexedAt, IndexProbes, All, Based
      <4>. QED
        BY <3>1, <4>1, <4>2, <4>3 DEF Found, Indexed
    <3>4. Hands' /\ Verdicts'
      BY <3>1 DEF Hands, Verdicts, Releasing, Unheld
    <3>. QED
      BY <3>2, <3>3, <3>4
  <2>17. CASE GuardedNext
    BY <2>1, <2>2, <2>3, <2>4, <2>5, <2>6, <2>7, <2>8, <2>9, <2>10, <2>11, <2>12, <2>13, <2>14,
       <2>15, <2>17, Zenon DEF GuardedNext
  <2>. QED
    BY <2>16, <2>17
<1>. QED
  BY <1>1, <1>2, PTL DEF GuardedSpec

LEMMA WholeFollows == ASSUME GuardInv PROVE GuardedIsWhole
<1>. USE DEF GuardInv
<1>1. HeldIsWhole
  <2>1. ASSUME NEW p \in inHand
        PROVE  LET i == GuardFind(p)
                   e == table[i]
               IN
               /\ i # Nowhere /\ e.state = "alive"
               /\ \A g \in Bytes(e) : pages[g] = "committed"
               /\ pages[IF under THEN p - 1 ELSE p + e.user] = "reserved"
               /\ \A q \in Bytes(e) : q = p \/ i \notin partial =>
                     GuardedSize(q) = p + e.user - q
    <3>1. PICK i \in GuardIds :
              /\ i = GuardFind(p) /\ table[i].p = p /\ table[i].state = "alive" /\ Based(i)
              /\ \A u \in Askers : ~ (Releasing(u) /\ call[u].slot = i) /\ call[u].old # i
              /\ \A q \in Bytes(table[i]) : /\ Entry(q) \in {i, Nowhere}
                                            /\ q = p \/ i \notin partial => Entry(q) = i
      BY <2>1, HeldIs
    <3>2. /\ p = Address(table[i]) /\ Bytes(table[i]) \subseteq Data(table[i])
          /\ table[i].user \in Nat /\ table[i].slack \in Nat /\ table[i].base \in Nat
      BY <3>1, EntryExtent, GuardDomains DEF Whole
    <3>3. \A g \in Bytes(table[i]) : pages[g] = "committed"
      BY <3>1, <3>2 DEF PagesFollow
    <3>4. (IF under THEN p - 1 ELSE p + table[i].user) = Guard(table[i])
      <4>1. CASE under
        BY <3>2, <4>1 DEF Address, Guard
      <4>2. CASE ~ under
        BY <3>2, <4>2 DEF Address, Guard
      <4>. QED
        BY <4>1, <4>2
    <3>5. pages[Guard(table[i])] = "reserved"
      BY <3>1 DEF PagesFollow
    <3>6. ASSUME NEW q \in Bytes(table[i]), q = p \/ i \notin partial
          PROVE  GuardedSize(q) = p + table[i].user - q
      <4>1. Entry(q) = i /\ i # Nowhere
        BY <3>1, <3>6, GuardDomains
      <4>. QED
        BY <3>1, <3>2, <4>1 DEF GuardedSize
    <3>7. i # Nowhere
      BY GuardDomains
    <3>. QED
      BY <3>1, <3>3, <3>4, <3>5, <3>6, <3>7
  <2>. QED
    BY <2>1 DEF HeldIsWhole
<1>2. ReleasedFaults
  <2>1. ASSUME NEW i \in GuardIds, table[i].state = "freed", \A t \in Askers : call[t].slot # i
        PROVE  /\ \A g \in All(table[i]) : pages[g] = "reserved"
               /\ \A q \in Bytes(table[i]) : GuardedSize(q) = 0
    <3>1. Based(i)
      BY <2>1 DEF Extents
    <3>2. ASSUME NEW g \in All(table[i]) PROVE pages[g] = "reserved"
      <4>1. g = Guard(table[i]) \/ g \in Data(table[i])
        BY <3>1, <3>2, EntryExtent, ExtentIs
      <4>. QED
        BY <2>1, <3>1, <4>1 DEF PagesFollow
    <3>3. ASSUME NEW q \in Bytes(table[i]) PROVE GuardedSize(q) = 0
      <4>1. Entry(q) = i \/ Entry(q) = Nowhere
        BY <3>1, <3>3, EntryIs
      <4>. QED
        BY <2>1, <4>1 DEF GuardedSize
    <3>. QED
      BY <3>2, <3>3
  <2>. QED
    BY <2>1 DEF ReleasedFaults
<1>3. LocatesItsOwn
  BY LocateOnly, GuardDomains DEF LocatesItsOwn
<1>. QED
  BY <1>1, <1>2, <1>3 DEF GuardedIsWhole

\* A guarded block the program holds has all its pages, the guard at its edge
\* and its size from any address filed for it; a released one faults for ever;
\* the index never leads into somebody else's block.
THEOREM GuardedWhole == GuardedSpec => []GuardedIsWhole
  BY GuardedInvariant, WholeFollows, PTL

\* A lawful release is recognised and nobody is told of a second one that was
\* not; one begun after another was done is always told.
THEOREM VerdictsTrue == GuardedSpec => []VerdictsAreTrue
<1>1. GuardInv => VerdictsAreTrue
  <2>. SUFFICES ASSUME GuardInv PROVE VerdictsAreTrue
    OBVIOUS
  <2>1. misuses \in Nat /\ (misuses = 0 => told = {}) /\ "lawful" \notin foreign
    BY DEF GuardInv, GuardTypes, Verdicts
  <2>2. \A t \in Askers : call[t].kind = "late" => call[t].step = "judge"
    BY DEF GuardInv, Hands
  <2>. QED
    BY <2>1, <2>2 DEF VerdictsAreTrue
<1>. QED
  BY <1>1, GuardedInvariant, PTL

-----------------------------------------------------------------------------
(* Small vectors: the inductive invariant.                                   *)
Cells == Elements \cup {Unwritten}
VectorSet == [heap : Nat, size : Nat, cap : Nat, inside : [1 .. Inline -> Cells]]
BlockSet == [id : Nat \ {0}, cells : Seq(Cells)]

\* The blocks are known by their ids, and of ids there are enough.
BlocksApart(hs) ==
    /\ IsFiniteSet(hs) /\ hs \subseteq BlockSet
    /\ \A h, g \in hs : h.id = g.id => h = g

\* A vector is within itself, or in a block that has its length.
Seated(x, hs) ==
    /\ x \in VectorSet /\ x.size <= Held(x) /\ Inline <= x.cap
    /\ x.heap # 0 => \E h \in hs : h.id = x.heap /\ Len(h.cells) = x.cap

Spells(x, hs, seq) ==
    /\ x.size = Len(seq)
    /\ \A i \in 1 .. x.size : DataOf(x, hs)[i] = seq[i]

VectorsInv ==
    /\ vec \in [Vectors -> VectorSet] /\ ideal \in [Vectors -> Seq(Elements)]
    /\ BlocksApart(heaps)
    /\ \A v \in Vectors : Seated(vec[v], heaps)
    /\ \A v \in Vectors : Spells(vec[v], heaps, ideal[v])
    /\ \A v, w \in Vectors : v # w /\ vec[v].heap = vec[w].heap => vec[v].heap = 0
    /\ \A h \in heaps : \E v \in Vectors : vec[v].heap = h.id
    /\ \A v \in Vectors : Held(vec[v]) < vec[v].cap => refused

(* A function on 1 .. n is a sequence of n.                                  *)
LEMMA FunctionIsSeq ==
    ASSUME NEW S, NEW n \in Nat, NEW f \in [1 .. n -> S]
    PROVE  f \in Seq(S) /\ Len(f) = n
OBVIOUS

(* A sequence of n is a function on 1 .. n.                                  *)
LEMMA SeqIsFunction ==
    ASSUME NEW S, NEW f \in Seq(S)
    PROVE  Len(f) \in Nat /\ f \in [1 .. Len(f) -> S]
OBVIOUS

(* The cells of a block are those of the block of that id.                   *)
LEMMA CellsAre ==
    ASSUME NEW hs, BlocksApart(hs), NEW h \in hs
    PROVE  CellsOf(hs, h.id) = h.cells
BY DEF CellsOf, BlocksApart

(* What is at data() is as long as the capacity says.                        *)
LEMMA DataIs ==
    ASSUME NEW hs, BlocksApart(hs), NEW x, Seated(x, hs)
    PROVE  DataOf(x, hs) \in [1 .. Held(x) -> Cells]
<1>1. CASE x.heap = 0
  BY <1>1 DEF DataOf, Seated, VectorSet, Held
<1>2. CASE x.heap # 0
  <2>1. PICK h \in hs : h.id = x.heap /\ Len(h.cells) = x.cap
    BY <1>2 DEF Seated, Held
  <2>2. h.cells \in Seq(Cells)
    BY <2>1 DEF BlocksApart, BlockSet
  <2>3. DataOf(x, hs) = h.cells
    BY <1>2, <2>1, CellsAre DEF DataOf
  <2>4. Held(x) = Len(h.cells)
    BY <1>2, <2>1 DEF Held
  <2>. QED
    BY <2>2, <2>3, <2>4, SeqIsFunction
<1>. QED
  BY <1>1, <1>2

(* There is an id to spare.                                                  *)
LEMMA SpareIs ==
    ASSUME NEW hs, BlocksApart(hs)
    PROVE  Spare(hs) \in Nat \ {0} /\ \A h \in hs : h.id # Spare(hs)
<1>0. IsFiniteSet(hs)
  BY DEF BlocksApart
<1>. PICK n \in Nat : n = Cardinality(hs)
  BY <1>0, FS_CardinalityType
<1>1. IsFiniteSet(hs) /\ n \in Nat
  BY <1>0
<1>2. IsFiniteSet(1 .. n + 1) /\ Cardinality(1 .. n + 1) = n + 1
  <2>1. n + 1 \in Int /\ 1 \in Int /\ ~(1 > n + 1) /\ n + 1 - 1 + 1 = n + 1
    BY <1>1
  <2>. QED
    BY <2>1, FS_Interval
<1>3. \E id \in 1 .. n + 1 : \A h \in hs : h.id # id
  <2>. SUFFICES ASSUME \A id \in 1 .. n + 1 : \E h \in hs : h.id = id
                PROVE  FALSE
    OBVIOUS
  <2>. DEFINE f == [id \in 1 .. n + 1 |-> CHOOSE h \in hs : h.id = id]
  <2>1. \A id \in 1 .. n + 1 : f[id] \in hs /\ f[id].id = id
    OBVIOUS
  <2>2. f \in [1 .. n + 1 -> hs]
    BY <2>1
  <2>. HIDE DEF f
  <2>3. \E a, b \in 1 .. n + 1 : a # b /\ f[a] = f[b]
    <3>1. Cardinality(hs) < Cardinality(1 .. n + 1)
      BY <1>1, <1>2
    <3>. QED
      BY <1>1, <1>2, <2>2, <3>1, FS_PigeonHole
  <2>. QED
    BY <2>1, <2>3
<1>. QED
  BY <1>1, <1>3 DEF Spare

(* Blocks dropped leave the others, and one may be put in its place.         *)
LEMMA DroppedApart ==
    ASSUME NEW hs, BlocksApart(hs), NEW id
    PROVE  BlocksApart(Dropped(hs, id))
<1>1. IsFiniteSet(Dropped(hs, id))
  BY FS_Subset DEF BlocksApart, Dropped
<1>. QED
  BY <1>1 DEF BlocksApart, Dropped

(* A block of a new id beside the others.                                    *)
LEMMA PutApart ==
    ASSUME NEW hs, BlocksApart(hs), NEW id \in Nat \ {0}, NEW cells \in Seq(Cells),
           \A h \in hs : h.id # id, NEW gs, gs = hs \cup {[id |-> id, cells |-> cells]}
    PROVE  BlocksApart(gs) /\ CellsOf(gs, id) = cells /\ Dropped(gs, id) = hs
<1>. PICK k : k = [id |-> id, cells |-> cells]
  OBVIOUS
<1>1. k \in BlockSet /\ k.id = id /\ k.cells = cells
  BY DEF BlockSet
<1>2. IsFiniteSet(gs)
  BY FS_AddElement DEF BlocksApart
<1>3. BlocksApart(gs)
  BY <1>1, <1>2 DEF BlocksApart
<1>4. CellsOf(gs, id) = cells
  BY <1>1, <1>3, CellsAre
<1>5. Dropped(gs, id) = hs
  BY <1>1 DEF Dropped
<1>. QED
  BY <1>3, <1>4, <1>5

(* A vector and the blocks become others, and the blocks of others stay; it   *)
(* lacks room only if it did.                                                 *)
Turns(x, hs, y, gs) ==
    /\ BlocksApart(gs) /\ Seated(y, gs)
    /\ Dropped(gs, y.heap) = Dropped(hs, x.heap)
    /\ Held(y) < y.cap => Held(x) < x.cap

(* The others are where they were, and hold what they held.                  *)
LEMMA ElsewhereIs ==
    ASSUME NEW x, NEW hs, NEW y, NEW gs, NEW z, BlocksApart(hs), BlocksApart(gs),
           Dropped(gs, y.heap) = Dropped(hs, x.heap),
           Seated(z, hs), z.heap = x.heap => z.heap = 0
    PROVE  /\ Seated(z, gs) /\ DataOf(z, gs) = DataOf(z, hs)
           /\ z.heap = y.heap => z.heap = 0
<1>1. CASE z.heap = 0
  BY <1>1 DEF Seated, DataOf, Held
<1>2. CASE z.heap # 0
  <2>1. PICK h \in hs : h.id = z.heap /\ Len(h.cells) = z.cap
    BY <1>2 DEF Seated, Held
  <2>2. h \in Dropped(hs, x.heap)
    BY <1>2, <2>1 DEF Dropped
  <2>3. h \in gs /\ h.id # y.heap
    BY <2>2 DEF Dropped
  <2>4. Seated(z, gs)
    BY <1>2, <2>1, <2>3 DEF Seated, Held
  <2>5. DataOf(z, hs) = h.cells /\ DataOf(z, gs) = h.cells
    BY <1>2, <2>1, <2>3, CellsAre DEF DataOf
  <2>. QED
    BY <2>1, <2>3, <2>4, <2>5
<1>. QED
  BY <1>1, <1>2

(* One change after another.                                                 *)
LEMMA TurnsOn ==
    ASSUME NEW x, NEW hs, NEW y, NEW gs, NEW z, NEW fs,
           Turns(x, hs, y, gs), Turns(y, gs, z, fs)
    PROVE  Turns(x, hs, z, fs)
BY DEF Turns

(* A vector within itself drops nothing.                                     *)
LEMMA NothingDropped ==
    ASSUME NEW hs, BlocksApart(hs)
    PROVE  Dropped(hs, 0) = hs
BY DEF Dropped, BlocksApart, BlockSet

(* The fields of a vector that has its place.                                *)
LEMMA SeatedIs ==
    ASSUME NEW hs, NEW x, Seated(x, hs)
    PROVE  /\ x \in VectorSet /\ x.heap \in Nat /\ x.size \in Nat /\ x.cap \in Nat
           /\ x.inside \in [1 .. Inline -> Cells] /\ x.size <= Held(x)
           /\ Held(x) \in Nat /\ Held(x) <= x.cap /\ Inline <= x.cap
           /\ x.heap # 0 => Held(x) = x.cap
           /\ x.heap = 0 => Held(x) = Inline
BY VectorsAssumption DEF Seated, VectorSet, Held

(* A vector in a block of its own.                                           *)
LEMMA BlockTaken ==
    ASSUME NEW hs, BlocksApart(hs), NEW x \in VectorSet, x.size <= Held(x), x.heap # 0,
           Inline <= x.cap, \A h \in hs : h.id # x.heap, NEW cells \in [1 .. Held(x) -> Cells],
           NEW gs, gs = hs \cup {[id |-> x.heap, cells |-> cells]}
    PROVE  /\ BlocksApart(gs) /\ Seated(x, gs) /\ Dropped(gs, x.heap) = hs
           /\ DataOf(x, gs) = cells
<1>1. x.cap \in Nat /\ x.heap \in Nat \ {0} /\ Held(x) = x.cap
  BY DEF VectorSet, Held
<1>2. cells \in Seq(Cells) /\ Len(cells) = x.cap
  BY <1>1, FunctionIsSeq
<1>3. BlocksApart(gs) /\ CellsOf(gs, x.heap) = cells /\ Dropped(gs, x.heap) = hs
  <2>1. PICK id \in Nat \ {0} : id = x.heap
    BY <1>1
  <2>2. gs = hs \cup {[id |-> id, cells |-> cells]} /\ \A h \in hs : h.id # id
    BY <2>1
  <2>3. BlocksApart(gs) /\ CellsOf(gs, id) = cells /\ Dropped(gs, id) = hs
    BY <1>2, <2>2, PutApart
  <2>. QED
    BY <2>1, <2>3
<1>4. PICK k \in gs : k = [id |-> x.heap, cells |-> cells]
  OBVIOUS
<1>5. k.id = x.heap /\ Len(k.cells) = x.cap
  BY <1>2, <1>4
<1>. QED
  BY <1>3, <1>5 DEF Seated, DataOf, Held

(* Stored: the cells are at data(), and nothing else is different.           *)
LEMMA StoredIs ==
    ASSUME NEW hs, BlocksApart(hs), NEW x, Seated(x, hs), NEW cells \in [1 .. Held(x) -> Cells]
    PROVE  \E y, gs : /\ Stored(<<x, hs>>, cells) = <<y, gs>> /\ Turns(x, hs, y, gs)
                      /\ DataOf(y, gs) = cells /\ y.size = x.size /\ Held(y) = Held(x)
<1>1. CASE x.heap # 0
  <2>. PICK gs : gs = Dropped(hs, x.heap) \cup {[id |-> x.heap, cells |-> cells]}
    OBVIOUS
  <2>1. Stored(<<x, hs>>, cells) = <<x, gs>>
    BY <1>1 DEF Stored
  <2>2. BlocksApart(Dropped(hs, x.heap)) /\ \A h \in Dropped(hs, x.heap) : h.id # x.heap
    BY DroppedApart DEF Dropped
  <2>3. /\ BlocksApart(gs) /\ Seated(x, gs) /\ Dropped(gs, x.heap) = Dropped(hs, x.heap)
        /\ DataOf(x, gs) = cells
    BY <1>1, <2>2, SeatedIs, BlockTaken
  <2>. QED
    BY <2>1, <2>3 DEF Turns, Held
<1>2. CASE x.heap = 0
  <2>. PICK y : y = [x EXCEPT !.inside = cells]
    OBVIOUS
  <2>1. Stored(<<x, hs>>, cells) = <<y, hs>>
    BY <1>2 DEF Stored
  <2>2. y \in VectorSet /\ y.heap = x.heap /\ y.size = x.size /\ y.cap = x.cap /\ y.inside = cells
    BY <1>2, SeatedIs DEF VectorSet
  <2>3. Seated(y, hs) /\ DataOf(y, hs) = cells
    BY <1>2, <2>2, SeatedIs DEF Seated, DataOf, Held
  <2>. QED
    BY <2>1, <2>2, <2>3 DEF Turns, Held
<1>. QED
  BY <1>1, <1>2

(* Laid: the first cells are those of the other place.                       *)
LEMMA LaidIs ==
    ASSUME NEW n \in Nat, NEW m \in Nat, NEW k \in Nat, k <= n, k <= m,
           NEW from \in [1 .. n -> Cells], NEW over \in [1 .. m -> Cells]
    PROVE  /\ Laid(from, k, over) \in [1 .. m -> Cells]
           /\ \A i \in 1 .. k : Laid(from, k, over)[i] = from[i]
BY DEF Laid

(* grow: a longer block of its own, with the elements there were.            *)
LEMMA GrownIs ==
    ASSUME NEW hs, BlocksApart(hs), NEW x, Seated(x, hs), NEW least \in Nat, least > x.cap
    PROVE  \E y, gs : /\ GrownTo(<<x, hs>>, least) = <<y, gs>> /\ Turns(x, hs, y, gs)
                      /\ y.size = x.size /\ Held(y) >= least
                      /\ \A i \in 1 .. x.size : DataOf(y, gs)[i] = DataOf(x, hs)[i]
<1>1. PICK next : next = IF 2 * x.cap < least THEN least ELSE 2 * x.cap
  OBVIOUS
<1>2. PICK id : id = Spare(hs)
  OBVIOUS
<1>3. PICK blank : blank = [i \in 1 .. next |-> Unwritten]
  OBVIOUS
<1>4. PICK cells : cells = Laid(DataOf(x, hs), x.size, blank)
  OBVIOUS
<1>5. PICK y : y = [x EXCEPT !.heap = id, !.cap = next]
  OBVIOUS
<1>6. PICK gs : gs = Dropped(hs, x.heap) \cup {[id |-> id, cells |-> cells]}
  OBVIOUS
<1>7. GrownTo(<<x, hs>>, least) = <<y, gs>>
  BY <1>1, <1>2, <1>3, <1>4, <1>5, <1>6 DEF GrownTo, NextCap
<1>8. /\ x \in VectorSet /\ x.cap \in Nat /\ x.size \in Nat /\ x.size <= Held(x)
      /\ Inline <= x.cap /\ Inline \in Nat
  BY SeatedIs, VectorsAssumption
<1>9. next \in Nat /\ next >= least /\ x.size <= next /\ Inline <= next
  BY <1>1, <1>8, SeatedIs
<1>10. id \in Nat \ {0} /\ \A h \in hs : h.id # id
  BY <1>2, SpareIs
<1>11. y \in VectorSet /\ y.heap = id /\ y.size = x.size /\ y.cap = next
  BY <1>5, <1>8, <1>9, <1>10 DEF VectorSet
<1>12. blank \in [1 .. next -> Cells]
  BY <1>3 DEF Cells
<1>13. DataOf(x, hs) \in [1 .. Held(x) -> Cells]
  BY DataIs
<1>14. cells \in [1 .. next -> Cells] /\ \A i \in 1 .. x.size : cells[i] = DataOf(x, hs)[i]
  <2>1. cells \in [1 .. next -> Cells]
    BY <1>4, <1>8, <1>9, <1>12, <1>13, SeatedIs, LaidIs
  <2>2. ASSUME NEW i \in 1 .. x.size PROVE cells[i] = DataOf(x, hs)[i]
    <3>1. i \in DOMAIN blank /\ i <= x.size
      BY <1>3, <1>8, <1>9, <2>2
    <3>. QED
      BY <1>4, <3>1 DEF Laid
  <2>. QED
    BY <2>1, <2>2
<1>15. BlocksApart(Dropped(hs, x.heap)) /\ \A h \in Dropped(hs, x.heap) : h.id # y.heap
  BY <1>10, <1>11, DroppedApart DEF Dropped
<1>16. /\ y.size <= Held(y) /\ y.heap # 0 /\ cells \in [1 .. Held(y) -> Cells]
       /\ Inline <= y.cap /\ Held(y) = next
       /\ gs = Dropped(hs, x.heap) \cup {[id |-> y.heap, cells |-> cells]}
  BY <1>6, <1>9, <1>10, <1>11, <1>14 DEF Held
<1>17. /\ BlocksApart(gs) /\ Seated(y, gs) /\ Dropped(gs, y.heap) = Dropped(hs, x.heap)
       /\ DataOf(y, gs) = cells
  BY <1>11, <1>15, <1>16, BlockTaken
<1>18. \A i \in 1 .. x.size : DataOf(y, gs)[i] = DataOf(x, hs)[i]
  BY <1>14, <1>17
<1>19. Turns(x, hs, y, gs) /\ y.size = x.size /\ Held(y) >= least
  <2>1. ~ (Held(y) < y.cap)
    BY <1>9, <1>11, <1>16
  <2>. QED
    BY <1>9, <1>11, <1>16, <1>17, <2>1 DEF Turns
<1>. QED
  BY <1>7, <1>18, <1>19

(* Room for n elements, with the elements there were.                        *)
LEMMA RoomyIs ==
    ASSUME NEW hs, BlocksApart(hs), NEW x, Seated(x, hs), NEW n \in Nat
    PROVE  \E y, gs : /\ Roomy(<<x, hs>>, n) = <<y, gs>> /\ Turns(x, hs, y, gs)
                      /\ y.size = x.size /\ (~ Beyond(x, n) => Held(y) >= n)
                      /\ \A i \in 1 .. x.size : DataOf(y, gs)[i] = DataOf(x, hs)[i]
<1>1. CASE n > x.cap
  <2>1. Roomy(<<x, hs>>, n) = GrownTo(<<x, hs>>, n)
    BY <1>1 DEF Roomy
  <2>. QED
    BY <1>1, <2>1, GrownIs
<1>2. CASE ~(n > x.cap)
  <2>1. Roomy(<<x, hs>>, n) = <<x, hs>>
    BY <1>2 DEF Roomy
  <2>. QED
    BY <1>2, <2>1, SeatedIs DEF Turns, Beyond
<1>. QED
  BY <1>1, <1>2

(* Another length within the capacity.                                       *)
LEMMA SizedIs ==
    ASSUME NEW hs, BlocksApart(hs), NEW x, Seated(x, hs), NEW n \in Nat, n <= Held(x)
    PROVE  \E y : /\ Sized(<<x, hs>>, n) = <<y, hs>> /\ Turns(x, hs, y, hs)
                  /\ y.size = n /\ Held(y) = Held(x) /\ DataOf(y, hs) = DataOf(x, hs)
<1>. PICK y : y = [x EXCEPT !.size = n]
  OBVIOUS
<1>1. /\ y \in VectorSet /\ y.heap = x.heap /\ y.size = n /\ y.cap = x.cap
      /\ y.inside = x.inside
  BY SeatedIs DEF VectorSet
<1>2. Seated(y, hs) /\ DataOf(y, hs) = DataOf(x, hs)
  BY <1>1 DEF Seated, DataOf, Held
<1>. QED
  BY <1>1, <1>2 DEF Sized, Turns, Held

(* release: the block is gone and the vector is within itself.               *)
LEMMA ReleasedIs ==
    ASSUME NEW hs, BlocksApart(hs), NEW x, Seated(x, hs)
    PROVE  \E y : /\ Released(<<x, hs>>) = <<y, Dropped(hs, x.heap)>>
                  /\ Turns(x, hs, y, Dropped(hs, x.heap))
                  /\ y.heap = 0 /\ y.size = 0 /\ y.cap = Inline /\ y.inside = x.inside
<1>. PICK y : y = [x EXCEPT !.heap = 0, !.cap = Inline, !.size = 0]
  OBVIOUS
<1>1. Released(<<x, hs>>) = <<y, Dropped(hs, x.heap)>>
  BY DEF Released
<1>2. BlocksApart(Dropped(hs, x.heap))
  BY DroppedApart
<1>3. /\ y \in VectorSet /\ y.heap = 0 /\ y.size = 0 /\ y.cap = Inline
      /\ y.inside = x.inside
  <2>1. x \in VectorSet
    BY SeatedIs
  <2>. QED
    BY <2>1, VectorsAssumption DEF VectorSet
<1>4. Seated(y, Dropped(hs, x.heap))
  BY <1>3, VectorsAssumption DEF Seated, Held
<1>5. Dropped(Dropped(hs, x.heap), y.heap) = Dropped(hs, x.heap)
  BY <1>2, <1>3, NothingDropped
<1>6. Turns(x, hs, y, Dropped(hs, x.heap))
  <2>1. ~ (Held(y) < y.cap)
    BY <1>3, VectorsAssumption DEF Held
  <2>. QED
    BY <1>2, <1>4, <1>5, <2>1 DEF Turns
<1>. QED
  BY <1>1, <1>3, <1>6

(* copy_from: the elements of the other, in a place of its own.              *)
LEMMA CopiedIs ==
    ASSUME NEW hs, BlocksApart(hs), NEW x, Seated(x, hs), x.heap = 0, NEW o, Seated(o, hs)
    PROVE  \E y, gs : /\ CopiedFrom(<<x, hs>>, o) = <<y, gs>> /\ Turns(x, hs, y, gs)
                      /\ y.size = o.size
                      /\ \A i \in 1 .. o.size : DataOf(y, gs)[i] = DataOf(o, hs)[i]
<1>1. PICK id : id = Spare(hs)
  OBVIOUS
<1>2. PICK blank : blank = [i \in 1 .. o.size |-> Unwritten]
  OBVIOUS
<1>3. /\ o.size \in Nat /\ o.cap \in Nat /\ o.size <= Held(o)
      /\ DataOf(o, hs) \in [1 .. Held(o) -> Cells]
  BY SeatedIs, DataIs
<1>4. \E z, fs : /\ IF o.size > Inline
                      THEN <<z, fs>> = <<[x EXCEPT !.heap = id, !.cap = o.size],
                                         hs \cup {[id |-> id, cells |-> blank]}>>
                      ELSE <<z, fs>> = <<x, hs>>
                 /\ Turns(x, hs, z, fs) /\ o.size <= Held(z)
  <2>1. CASE o.size > Inline
    <3>1. PICK z : z = [x EXCEPT !.heap = id, !.cap = o.size]
      OBVIOUS
    <3>2. PICK fs : fs = hs \cup {[id |-> id, cells |-> blank]}
      OBVIOUS
    <3>3. id \in Nat \ {0} /\ \A h \in hs : h.id # id
      BY <1>1, SpareIs
    <3>4. x \in VectorSet /\ x.size \in Nat /\ x.size <= Inline /\ Inline \in Nat
      BY SeatedIs, VectorsAssumption
    <3>5. z \in VectorSet /\ z.heap = id /\ z.size = x.size /\ z.cap = o.size
      BY <1>3, <3>1, <3>3, <3>4 DEF VectorSet
    <3>6. /\ z.size <= Held(z) /\ z.heap # 0 /\ Inline <= z.cap /\ Held(z) = z.cap
          /\ \A h \in hs : h.id # z.heap
          /\ blank \in [1 .. Held(z) -> Cells] /\ fs = hs \cup {[id |-> z.heap, cells |-> blank]}
      BY <1>2, <1>3, <2>1, <3>2, <3>3, <3>4, <3>5 DEF Cells, Held
    <3>7. BlocksApart(fs) /\ Seated(z, fs) /\ Dropped(fs, z.heap) = hs
      BY <3>5, <3>6, BlockTaken
    <3>8. Turns(x, hs, z, fs) /\ o.size <= Held(z)
      <4>1. ~ (Held(z) < z.cap) /\ o.size <= Held(z)
        BY <1>3, <3>5, <3>6
      <4>. QED
        BY <3>7, <4>1, NothingDropped DEF Turns
    <3>. QED
      BY <2>1, <3>1, <3>2, <3>8
  <2>2. CASE ~(o.size > Inline)
    <3>1. Turns(x, hs, x, hs) /\ o.size <= Held(x)
      BY <1>3, <2>2, SeatedIs, VectorsAssumption DEF Turns, Held
    <3>. QED
      BY <2>2, <3>1
  <2>. QED
    BY <2>1, <2>2
<1>5. PICK z, fs : /\ IF o.size > Inline
                        THEN <<z, fs>> = <<[x EXCEPT !.heap = id, !.cap = o.size],
                                           hs \cup {[id |-> id, cells |-> blank]}>>
                        ELSE <<z, fs>> = <<x, hs>>
                   /\ Turns(x, hs, z, fs) /\ o.size <= Held(z)
  BY <1>4
<1>6. PICK cells : cells = Laid(DataOf(o, hs), o.size, DataOf(z, fs))
  OBVIOUS
<1>7. /\ BlocksApart(fs) /\ Seated(z, fs) /\ Held(z) \in Nat
      /\ DataOf(z, fs) \in [1 .. Held(z) -> Cells]
  BY <1>5, SeatedIs, DataIs DEF Turns, Held
<1>8. cells \in [1 .. Held(z) -> Cells] /\ \A i \in 1 .. o.size : cells[i] = DataOf(o, hs)[i]
  <2>1. cells \in [1 .. Held(z) -> Cells]
    <3>1. Held(o) \in Nat
      BY SeatedIs
    <3>. QED
      BY <1>3, <1>5, <1>6, <1>7, <3>1, LaidIs
  <2>2. ASSUME NEW i \in 1 .. o.size PROVE cells[i] = DataOf(o, hs)[i]
    <3>1. i \in DOMAIN DataOf(z, fs) /\ i <= o.size
      BY <1>3, <1>5, <1>7, <2>2
    <3>. QED
      BY <1>6, <3>1 DEF Laid
  <2>. QED
    BY <2>1, <2>2
<1>9. PICK q, gs : /\ Stored(<<z, fs>>, cells) = <<q, gs>> /\ Turns(z, fs, q, gs)
                   /\ DataOf(q, gs) = cells /\ Held(q) = Held(z)
  BY <1>7, <1>8, StoredIs
<1>10. BlocksApart(gs) /\ Seated(q, gs)
  BY <1>9 DEF Turns, Held
<1>11. PICK y : /\ Sized(<<q, gs>>, o.size) = <<y, gs>> /\ Turns(q, gs, y, gs)
                /\ y.size = o.size /\ DataOf(y, gs) = DataOf(q, gs)
  BY <1>3, <1>5, <1>9, <1>10, SizedIs
<1>12. CopiedFrom(<<x, hs>>, o) = <<y, gs>>
  <2>1. CopiedFrom(<<x, hs>>, o) = Sized(Stored(<<z, fs>>, cells), o.size)
    BY <1>1, <1>2, <1>5, <1>6 DEF CopiedFrom, Sized
  <2>. QED
    BY <1>9, <1>11, <2>1
<1>13. Turns(x, hs, y, gs)
  BY <1>5, <1>9, <1>11, TurnsOn
<1>14. \A i \in 1 .. o.size : DataOf(y, gs)[i] = DataOf(o, hs)[i]
  BY <1>8, <1>9, <1>11
<1>. QED
  BY <1>11, <1>12, <1>13, <1>14

(* move_from: what the other held, which has nothing left.                   *)
LEMMA MovedIs ==
    ASSUME NEW hs, BlocksApart(hs), NEW x, Seated(x, hs), x.heap = 0, NEW o, Seated(o, hs)
    PROVE  \E m, n : /\ MovedFrom(x, o) = <<m, n>> /\ Seated(m, hs) /\ Seated(n, hs)
                     /\ m.heap = o.heap /\ n.heap = 0 /\ m.size = o.size /\ n.size = 0
                     /\ \A i \in 1 .. o.size : DataOf(m, hs)[i] = DataOf(o, hs)[i]
                     /\ Held(m) < m.cap => Held(x) < x.cap
                     /\ Held(n) < n.cap => Held(o) < o.cap
<1>1. /\ x \in VectorSet /\ x.inside \in [1 .. Inline -> Cells]
      /\ Inline <= x.cap /\ x.cap \in Nat
      /\ o \in VectorSet /\ o.heap \in Nat /\ o.size \in Nat /\ o.cap \in Nat /\ o.size <= Held(o)
      /\ Held(o) <= o.cap
      /\ Inline \in Nat
  BY SeatedIs, VectorsAssumption
<1>2. CASE o.heap # 0
  <2>1. PICK m : m = [x EXCEPT !.heap = o.heap, !.cap = o.cap, !.size = o.size]
    OBVIOUS
  <2>2. PICK n : n = [o EXCEPT !.heap = 0, !.cap = Inline, !.size = 0]
    OBVIOUS
  <2>3. MovedFrom(x, o) = <<m, n>>
    BY <1>2, <2>1, <2>2 DEF MovedFrom
  <2>4. m \in VectorSet /\ m.heap = o.heap /\ m.cap = o.cap /\ m.size = o.size
    BY <1>1, <2>1 DEF VectorSet
  <2>5. n \in VectorSet /\ n.heap = 0 /\ n.cap = Inline /\ n.size = 0
    BY <1>1, <2>2 DEF VectorSet
  <2>6. Seated(m, hs) /\ DataOf(m, hs) = DataOf(o, hs)
    BY <1>1, <1>2, <2>4 DEF Seated, DataOf, Held
  <2>7. Seated(n, hs)
    BY <1>1, <2>5 DEF Seated, Held
  <2>8. Held(m) = m.cap /\ Held(n) = n.cap
    BY <1>2, <2>4, <2>5 DEF Held
  <2>. QED
    BY <1>1, <2>3, <2>4, <2>5, <2>6, <2>7, <2>8
<1>3. CASE o.heap = 0
  <2>1. PICK m : m = [x EXCEPT !.inside = Laid(o.inside, o.size, @), !.size = o.size]
    OBVIOUS
  <2>2. PICK n : n = [o EXCEPT !.heap = 0, !.size = 0]
    OBVIOUS
  <2>3. MovedFrom(x, o) = <<m, n>>
    BY <1>1, <1>3, <2>1, <2>2 DEF MovedFrom, VectorSet
  <2>4. /\ o.inside \in [1 .. Inline -> Cells] /\ Held(o) = Inline
        /\ o.size <= Inline
    BY <1>1, <1>3, SeatedIs
  <2>5. PICK cells : cells = Laid(o.inside, o.size, x.inside)
    OBVIOUS
  <2>6. cells \in [1 .. Inline -> Cells] /\ \A i \in 1 .. o.size : cells[i] = o.inside[i]
    <3>1. /\ Inline \in Nat /\ o.size \in Nat /\ o.size <= Inline
          /\ o.inside \in [1 .. Inline -> Cells] /\ x.inside \in [1 .. Inline -> Cells]
      BY <1>1, <2>4
    <3>2. /\ Laid(o.inside, o.size, x.inside) \in [1 .. Inline -> Cells]
          /\ \A i \in 1 .. o.size : Laid(o.inside, o.size, x.inside)[i] = o.inside[i]
      BY <3>1, LaidIs
    <3>. QED
      BY <2>5, <3>2
  <2>7. /\ m \in VectorSet /\ m.heap = o.heap /\ m.cap = x.cap /\ m.size = o.size
        /\ m.inside = cells
    BY <1>1, <1>3, <2>1, <2>5, <2>6 DEF VectorSet
  <2>8. n \in VectorSet /\ n.heap = 0 /\ n.cap = o.cap /\ n.size = 0
    BY <1>1, <2>2, <2>4 DEF VectorSet
  <2>9. Seated(m, hs) /\ DataOf(m, hs) = cells /\ DataOf(o, hs) = o.inside
    BY <1>1, <1>3, <2>4, <2>7 DEF Seated, DataOf, Held
  <2>10. Seated(n, hs)
    BY <1>1, <2>4, <2>8 DEF Seated, Held
  <2>11. Held(m) = Held(x) /\ Held(n) = Held(o)
    BY <1>3, <2>7, <2>8 DEF Held
  <2>. QED
    BY <2>3, <2>6, <2>7, <2>8, <2>9, <2>10, <2>11
<1>. QED
  BY <1>2, <1>3

(* Nobody has changed but one, and what it holds is spelled out: it is kept.  *)
LEMMA OneKeeps ==
    ASSUME VectorsInv, NEW v \in Vectors, NEW y, NEW gs, NEW seq \in Seq(Elements),
           vec' = [vec EXCEPT ![v] = y], heaps' = gs, ideal' = [ideal EXCEPT ![v] = seq],
           refused => refused', Held(y) < y.cap => refused',
           BlocksApart(gs), Seated(y, gs), Dropped(gs, y.heap) = Dropped(heaps, vec[v].heap),
           Spells(y, gs, seq)
    PROVE  VectorsInv'
<1>1. /\ vec \in [Vectors -> VectorSet] /\ ideal \in [Vectors -> Seq(Elements)]
      /\ BlocksApart(heaps)
      /\ \A w \in Vectors : Seated(vec[w], heaps)
      /\ \A w \in Vectors : Spells(vec[w], heaps, ideal[w])
      /\ \A u, w \in Vectors : u # w /\ vec[u].heap = vec[w].heap => vec[u].heap = 0
      /\ \A h \in heaps : \E w \in Vectors : vec[w].heap = h.id
  BY DEF VectorsInv
<1>2. vec' = [vec EXCEPT ![v] = y] /\ heaps' = gs /\ ideal' = [ideal EXCEPT ![v] = seq]
  OBVIOUS
<1>3. BlocksApart(gs) /\ Seated(y, gs) /\ Dropped(gs, y.heap) = Dropped(heaps, vec[v].heap)
  OBVIOUS
<1>4. y \in VectorSet
  BY <1>3, SeatedIs
<1>5. /\ vec'[v] = y /\ ideal'[v] = seq
      /\ \A w \in Vectors \ {v} : vec'[w] = vec[w] /\ ideal'[w] = ideal[w]
  BY <1>1, <1>2
<1>6. ASSUME NEW w \in Vectors, w # v
      PROVE  /\ Seated(vec[w], gs) /\ DataOf(vec[w], gs) = DataOf(vec[w], heaps)
             /\ vec[w].heap = y.heap => vec[w].heap = 0
  <2>1. vec[w].heap = vec[v].heap => vec[w].heap = 0
    BY <1>1, <1>6
  <2>. QED
    BY <1>1, <1>3, <2>1, ElsewhereIs
<1>7. vec' \in [Vectors -> VectorSet] /\ ideal' \in [Vectors -> Seq(Elements)]
  BY <1>1, <1>2, <1>4
<1>8. ASSUME NEW w \in Vectors PROVE Seated(vec'[w], heaps') /\ Spells(vec'[w], heaps', ideal'[w])
  <2>1. CASE w = v
    BY <1>2, <1>3, <1>5, <2>1
  <2>2. CASE w # v
    <3>1. vec'[w] = vec[w] /\ ideal'[w] = ideal[w] /\ Spells(vec[w], heaps, ideal[w])
      BY <1>1, <1>5, <2>2
    <3>2. Seated(vec[w], gs) /\ Spells(vec[w], gs, ideal[w])
      BY <1>6, <2>2, <3>1 DEF Spells
    <3>. QED
      BY <1>2, <3>1, <3>2
  <2>. QED
    BY <2>1, <2>2
<1>9. \A u, w \in Vectors : u # w /\ vec'[u].heap = vec'[w].heap => vec'[u].heap = 0
  BY <1>1, <1>5, <1>6
<1>10. ASSUME NEW h \in gs PROVE \E w \in Vectors : vec'[w].heap = h.id
  <2>1. CASE h.id = y.heap
    BY <1>5, <2>1
  <2>2. CASE h.id # y.heap
    <3>1. h \in heaps /\ h.id # vec[v].heap
      BY <1>3, <2>2 DEF Dropped
    <3>2. PICK w \in Vectors : vec[w].heap = h.id
      BY <1>1, <3>1
    <3>. QED
      BY <1>5, <3>1, <3>2
  <2>. QED
    BY <2>1, <2>2
<1>11. ASSUME NEW w \in Vectors, Held(vec'[w]) < vec'[w].cap PROVE refused'
  BY <1>5, <1>11 DEF VectorsInv
<1>. QED
  BY <1>2, <1>3, <1>7, <1>8, <1>9, <1>10, <1>11 DEF VectorsInv, Held

(* An operation that was not refused.                                        *)
LEMMA EditKeeps ==
    ASSUME VectorsInv, NEW v \in Vectors, NEW y, NEW gs, NEW seq \in Seq(Elements),
           Edit(v, <<y, gs>>, seq), Turns(vec[v], heaps, y, gs), Spells(y, gs, seq)
    PROVE  VectorsInv'
<1>1. /\ vec' = [vec EXCEPT ![v] = y] /\ heaps' = gs /\ ideal' = [ideal EXCEPT ![v] = seq]
      /\ refused' = refused
  BY DEF Edit
<1>2. Held(y) < y.cap => refused'
  BY <1>1 DEF Turns, VectorsInv
<1>. QED
  BY <1>1, <1>2, OneKeeps DEF Turns

(* The same of two, which share nothing.                                     *)
LEMMA PairKeeps ==
    ASSUME VectorsInv, NEW v \in Vectors, NEW w \in Vectors, NEW x, NEW y, NEW gs,
           NEW vs \in Seq(Elements), NEW ws \in Seq(Elements),
           Pair(v, w, x, y, gs, vs, ws), BlocksApart(gs), Seated(x, gs), Seated(y, gs),
           x.heap = y.heap => x.heap = 0,
           Held(x) < x.cap => refused, Held(y) < y.cap => refused,
           Dropped(Dropped(gs, x.heap), y.heap)
             = Dropped(Dropped(heaps, vec[v].heap), vec[w].heap),
           Spells(x, gs, vs), Spells(y, gs, ws)
    PROVE  VectorsInv'
<1>1. /\ vec \in [Vectors -> VectorSet] /\ ideal \in [Vectors -> Seq(Elements)]
      /\ BlocksApart(heaps)
      /\ \A u \in Vectors : Seated(vec[u], heaps)
      /\ \A u \in Vectors : Spells(vec[u], heaps, ideal[u])
      /\ \A u, z \in Vectors : u # z /\ vec[u].heap = vec[z].heap => vec[u].heap = 0
      /\ \A h \in heaps : \E u \in Vectors : vec[u].heap = h.id
  BY DEF VectorsInv
<1>2. /\ vec' = [vec EXCEPT ![v] = x, ![w] = y] /\ heaps' = gs
      /\ ideal' = [ideal EXCEPT ![v] = vs, ![w] = ws] /\ v # w /\ refused' = refused
  BY DEF Pair
<1>3. x \in VectorSet /\ y \in VectorSet
  BY SeatedIs
<1>4. /\ vec'[v] = x /\ ideal'[v] = vs /\ vec'[w] = y /\ ideal'[w] = ws
      /\ \A u \in Vectors \ {v, w} : vec'[u] = vec[u] /\ ideal'[u] = ideal[u]
  BY <1>1, <1>2
<1>5. ASSUME NEW h PROVE h \in gs /\ h.id # x.heap /\ h.id # y.heap
                           <=> h \in heaps /\ h.id # vec[v].heap /\ h.id # vec[w].heap
  BY DEF Dropped
<1>6. ASSUME NEW u \in Vectors \ {v, w}
      PROVE  /\ Seated(vec[u], gs) /\ DataOf(vec[u], gs) = DataOf(vec[u], heaps)
             /\ vec[u].heap = x.heap \/ vec[u].heap = y.heap => vec[u].heap = 0
  <2>1. CASE vec[u].heap = 0
    BY <1>1, <2>1 DEF Seated, DataOf, Held
  <2>2. CASE vec[u].heap # 0
    <3>1. PICK h \in heaps : h.id = vec[u].heap /\ Len(h.cells) = vec[u].cap
      BY <1>1, <2>2 DEF Seated, Held
    <3>2. h.id # vec[v].heap /\ h.id # vec[w].heap
      BY <1>1, <1>6, <2>2, <3>1
    <3>3. h \in gs /\ h.id # x.heap /\ h.id # y.heap
      BY <1>5, <3>1, <3>2
    <3>4. Seated(vec[u], gs)
      BY <1>1, <2>2, <3>1, <3>3 DEF Seated, Held
    <3>5. DataOf(vec[u], heaps) = h.cells /\ DataOf(vec[u], gs) = h.cells
      BY <1>1, <2>2, <3>1, <3>3, CellsAre DEF DataOf
    <3>. QED
      BY <3>1, <3>3, <3>4, <3>5
  <2>. QED
    BY <2>1, <2>2
<1>7. vec' \in [Vectors -> VectorSet] /\ ideal' \in [Vectors -> Seq(Elements)]
  BY <1>1, <1>2, <1>3
<1>8. ASSUME NEW u \in Vectors PROVE Seated(vec'[u], heaps') /\ Spells(vec'[u], heaps', ideal'[u])
  <2>1. CASE u = v \/ u = w
    BY <1>2, <1>4, <2>1
  <2>2. CASE u # v /\ u # w
    <3>1. vec'[u] = vec[u] /\ ideal'[u] = ideal[u] /\ Spells(vec[u], heaps, ideal[u])
      BY <1>1, <1>4, <2>2
    <3>2. Seated(vec[u], gs) /\ Spells(vec[u], gs, ideal[u])
      BY <1>6, <2>2, <3>1 DEF Spells
    <3>. QED
      BY <1>2, <3>1, <3>2
  <2>. QED
    BY <2>1, <2>2
<1>9. ASSUME NEW u \in Vectors, NEW z \in Vectors, u # z, vec'[u].heap = vec'[z].heap
      PROVE  vec'[u].heap = 0
  <2>1. CASE u \in {v, w} /\ z \in {v, w}
    BY <1>4, <1>9, <2>1
  <2>2. CASE u \in {v, w} /\ z \notin {v, w}
    BY <1>4, <1>6, <1>9, <2>2
  <2>3. CASE u \notin {v, w} /\ z \in {v, w}
    BY <1>4, <1>6, <1>9, <2>3
  <2>4. CASE u \notin {v, w} /\ z \notin {v, w}
    BY <1>1, <1>4, <1>9, <2>4
  <2>. QED
    BY <2>1, <2>2, <2>3, <2>4
<1>10. ASSUME NEW h \in gs PROVE \E u \in Vectors : vec'[u].heap = h.id
  <2>1. CASE h.id = x.heap \/ h.id = y.heap
    BY <1>4, <2>1
  <2>2. CASE h.id # x.heap /\ h.id # y.heap
    <3>1. h \in heaps /\ h.id # vec[v].heap /\ h.id # vec[w].heap
      BY <1>5, <2>2
    <3>2. PICK u \in Vectors : vec[u].heap = h.id
      BY <1>1, <3>1
    <3>3. vec'[u] = vec[u]
      BY <1>4, <3>1, <3>2
    <3>. QED
      BY <3>2, <3>3
  <2>. QED
    BY <2>1, <2>2
<1>11. ASSUME NEW u \in Vectors, Held(vec'[u]) < vec'[u].cap PROVE refused'
  BY <1>2, <1>4, <1>11 DEF VectorsInv
<1>. QED
  BY <1>2, <1>7, <1>8, <1>9, <1>10, <1>11 DEF VectorsInv, Held

(* The invariant holds at the start.                                         *)
LEMMA VectorsStart == VectorsInit => VectorsInv
<1>. SUFFICES ASSUME VectorsInit PROVE VectorsInv
  OBVIOUS
<1>1. /\ vec = [v \in Vectors |-> Hollow] /\ heaps = {} /\ ideal = [v \in Vectors |-> <<>>]
  BY DEF VectorsInit
<1>2. NoElements \in [1 .. Inline -> Cells]
  BY DEF NoElements, Cells
<1>3. /\ Hollow \in VectorSet /\ Hollow.heap = 0 /\ Hollow.cap = Inline /\ Hollow.size = 0
      /\ 0 <= Inline /\ Inline \in Nat
  BY <1>2, VectorsAssumption DEF Hollow, VectorSet
<1>4. BlocksApart({})
  BY FS_EmptySet DEF BlocksApart
<1>5. <<>> \in Seq(Elements) /\ Len(<<>>) = 0
  OBVIOUS
<1>6. Seated(Hollow, {}) /\ Spells(Hollow, {}, <<>>) /\ Held(Hollow) = Hollow.cap
  BY <1>3, <1>5 DEF Seated, Spells, Held
<1>. QED
  BY <1>1, <1>3, <1>4, <1>5, <1>6 DEF VectorsInv

(* Cells written and a length set, after room was made.                      *)
LEMMA CellsKeep ==
    ASSUME VectorsInv, NEW v \in Vectors, NEW y, NEW gs, Turns(vec[v], heaps, y, gs),
           NEW d \in [1 .. Held(y) -> Cells], NEW n \in Nat, n <= Held(y),
           NEW seq \in Seq(Elements), Len(seq) = n, \A i \in 1 .. n : d[i] = seq[i],
           Edit(v, Sized(Stored(<<y, gs>>, d), n), seq)
    PROVE  VectorsInv'
<1>1. BlocksApart(gs) /\ Seated(y, gs)
  BY DEF Turns
<1>2. PICK z, fs : /\ Stored(<<y, gs>>, d) = <<z, fs>> /\ Turns(y, gs, z, fs)
                   /\ DataOf(z, fs) = d /\ Held(z) = Held(y)
  BY <1>1, StoredIs
<1>3. BlocksApart(fs) /\ Seated(z, fs)
  BY <1>2 DEF Turns, Held
<1>4. PICK u : /\ Sized(<<z, fs>>, n) = <<u, fs>> /\ Turns(z, fs, u, fs)
               /\ u.size = n /\ DataOf(u, fs) = DataOf(z, fs)
  BY <1>2, <1>3, SizedIs
<1>5. Edit(v, <<u, fs>>, seq)
  BY <1>2, <1>4
<1>6. Turns(vec[v], heaps, u, fs)
  BY <1>2, <1>4, TurnsOn
<1>7. Spells(u, fs, seq)
  BY <1>2, <1>4 DEF Spells
<1>. QED
  BY <1>5, <1>6, <1>7, EditKeeps

(* What is known of a vector before, and after room was made for more.       *)
LEMMA VectorIs ==
    ASSUME VectorsInv, NEW v \in Vectors
    PROVE  /\ BlocksApart(heaps) /\ Seated(vec[v], heaps) /\ Spells(vec[v], heaps, ideal[v])
           /\ ideal[v] \in Seq(Elements) /\ vec[v].size = Len(ideal[v]) /\ vec[v].size \in Nat
           /\ Held(vec[v]) \in Nat /\ vec[v].size <= Held(vec[v])
           /\ DataOf(vec[v], heaps) \in [1 .. Held(vec[v]) -> Cells]
           /\ \A i \in 1 .. vec[v].size : DataOf(vec[v], heaps)[i] = ideal[v][i]
           /\ Turns(vec[v], heaps, vec[v], heaps)
<1>1. /\ BlocksApart(heaps) /\ Seated(vec[v], heaps) /\ Spells(vec[v], heaps, ideal[v])
      /\ ideal[v] \in Seq(Elements)
  BY DEF VectorsInv
<1>. QED
  BY <1>1, SeatedIs, DataIs DEF Spells, Turns

(* After room was made the elements are those the operations spell.          *)
LEMMA RoomMade ==
    ASSUME VectorsInv, NEW v \in Vectors, NEW n \in Nat
    PROVE  \E y, gs : /\ Roomy(Now(v), n) = <<y, gs>> /\ Turns(vec[v], heaps, y, gs)
                      /\ y.size = vec[v].size /\ Held(y) \in Nat
                      /\ (~ Beyond(vec[v], n) => Held(y) >= n)
                      /\ DataOf(y, gs) \in [1 .. Held(y) -> Cells]
                      /\ \A i \in 1 .. vec[v].size : DataOf(y, gs)[i] = ideal[v][i]
<1>1. PICK y, gs : /\ Roomy(<<vec[v], heaps>>, n) = <<y, gs>> /\ Turns(vec[v], heaps, y, gs)
                   /\ y.size = vec[v].size /\ (~ Beyond(vec[v], n) => Held(y) >= n)
                   /\ \A i \in 1 .. vec[v].size : DataOf(y, gs)[i] = DataOf(vec[v], heaps)[i]
  BY VectorIs, RoomyIs
<1>2. BlocksApart(gs) /\ Seated(y, gs)
  BY <1>1 DEF Turns, Held
<1>3. Held(y) \in Nat /\ DataOf(y, gs) \in [1 .. Held(y) -> Cells]
  BY <1>2, SeatedIs, DataIs
<1>4. \A i \in 1 .. vec[v].size : DataOf(y, gs)[i] = ideal[v][i]
  BY <1>1, VectorIs
<1>. QED
  BY <1>1, <1>3, <1>4 DEF Now

(* push_back keeps the invariant.                                            *)
LEMMA PushBackStep ==
    ASSUME VectorsInv, NEW v \in Vectors, NEW e \in Elements, PushBack(v, e)
    PROVE  VectorsInv'
<1>1. PICK n : n = vec[v].size + 1
  OBVIOUS
<1>2. n \in Nat /\ n = Len(ideal[v]) + 1 /\ ideal[v] \in Seq(Elements) /\ vec[v].size = n - 1
  <2>1. vec[v].size \in Nat /\ vec[v].size = Len(ideal[v]) /\ ideal[v] \in Seq(Elements)
    BY VectorIs
  <2>. QED
    BY <1>1, <2>1
<1>3. PICK y, gs : /\ Roomy(Now(v), n) = <<y, gs>> /\ Turns(vec[v], heaps, y, gs)
                   /\ y.size = vec[v].size /\ Held(y) \in Nat /\ Held(y) >= n
                   /\ DataOf(y, gs) \in [1 .. Held(y) -> Cells]
                   /\ \A i \in 1 .. vec[v].size : DataOf(y, gs)[i] = ideal[v][i]
  <2>1. ~ Beyond(vec[v], n)
    BY <1>1 DEF PushBack
  <2>2. n \in Nat
    BY <1>2
  <2>. QED
    BY <2>1, <2>2, RoomMade
<1>4. PICK d : d = [DataOf(y, gs) EXCEPT ![n] = e]
  OBVIOUS
<1>5. PICK seq : seq = Append(ideal[v], e)
  OBVIOUS
<1>6. Edit(v, Sized(Stored(<<y, gs>>, d), n), seq)
  <2>1. PICK p : p = Roomy(Now(v), n)
    OBVIOUS
  <2>2. Edit(v, Sized(Stored(p, [DataOf(p[1], p[2]) EXCEPT ![n] = e]), n), Append(ideal[v], e))
    BY <1>1, <2>1 DEF PushBack
  <2>3. p = <<y, gs>> /\ p[1] = y /\ p[2] = gs
    BY <1>3, <2>1
  <2>. QED
    BY <1>4, <1>5, <2>2, <2>3
<1>7. d \in [1 .. Held(y) -> Cells] /\ d[n] = e /\ \A i \in 1 .. n - 1 : d[i] = DataOf(y, gs)[i]
  BY <1>2, <1>3, <1>4 DEF Cells
<1>8. /\ seq \in Seq(Elements) /\ Len(seq) = n /\ seq[n] = e
      /\ \A i \in 1 .. n - 1 : seq[i] = ideal[v][i]
  BY <1>2, <1>5, AppendProperties
<1>9. ASSUME NEW i \in 1 .. n PROVE d[i] = seq[i]
  <2>1. i = n \/ (i \in 1 .. n - 1 /\ i \in 1 .. vec[v].size)
    BY <1>2, <1>9
  <2>. QED
    BY <1>3, <1>7, <1>8, <2>1
<1>. QED
  BY <1>2, <1>3, <1>6, <1>7, <1>8, <1>9, CellsKeep

(* What insertion and removal make of a sequence.                            *)
LEMMA InsertAtIs ==
    ASSUME NEW S, NEW s \in Seq(S), NEW e \in S, NEW at \in 1 .. Len(s)
    PROVE  /\ InsertAt(s, at, e) \in Seq(S) /\ Len(InsertAt(s, at, e)) = Len(s) + 1
           /\ \A i \in 1 .. Len(s) + 1 : InsertAt(s, at, e)[i] =
                 IF i < at THEN s[i] ELSE IF i = at THEN e ELSE s[i - 1]
<1>1. PICK a, b : a = SubSeq(s, 1, at - 1) /\ b = SubSeq(s, at, Len(s))
  OBVIOUS
<1>2. Len(s) \in Nat /\ at \in Nat /\ 1 <= at /\ at <= Len(s)
  OBVIOUS
<1>3. /\ a \in Seq(S) /\ Len(a) = at - 1 /\ \A i \in 1 .. at - 1 : a[i] = s[i]
      /\ b \in Seq(S) /\ Len(b) = Len(s) - at + 1
      /\ \A i \in 1 .. Len(s) - at + 1 : b[i] = s[at + i - 1]
  BY <1>1, <1>2
<1>4. PICK c : c = a \o <<e>>
  OBVIOUS
<1>5. /\ c \in Seq(S) /\ Len(c) = at /\ \A i \in 1 .. at - 1 : c[i] = s[i]
      /\ c[at] = e
  BY <1>2, <1>3, <1>4
<1>6. InsertAt(s, at, e) = c \o b
  BY <1>1, <1>4 DEF InsertAt
<1>7. /\ c \o b \in Seq(S) /\ Len(c \o b) = Len(c) + Len(b)
      /\ \A i \in 1 .. Len(c) + Len(b) :
            (c \o b)[i] = IF i <= Len(c) THEN c[i] ELSE b[i - Len(c)]
  BY <1>3, <1>5, ConcatProperties
<1>8. ASSUME NEW i \in 1 .. Len(s) + 1
      PROVE  (c \o b)[i] = IF i < at THEN s[i] ELSE IF i = at THEN e ELSE s[i - 1]
  <2>1. CASE i <= at
    BY <1>2, <1>3, <1>5, <1>7, <2>1
  <2>2. CASE i > at
    <3>1. (c \o b)[i] = b[i - at] /\ i - at \in 1 .. Len(s) - at + 1
      BY <1>2, <1>3, <1>5, <1>7, <2>2
    <3>2. b[i - at] = s[at + (i - at) - 1]
      BY <1>3, <3>1
    <3>3. at + (i - at) - 1 = i - 1
      BY <1>2, <1>8
    <3>. QED
      BY <1>2, <2>2, <3>1, <3>2, <3>3
  <2>3. i <= at \/ i > at
    BY <1>2, <1>8
  <2>. QED
    BY <2>1, <2>2, <2>3
<1>. QED
  BY <1>2, <1>3, <1>5, <1>6, <1>7, <1>8

(* What is left of a sequence without one of its elements.                   *)
LEMMA RemoveAtIs ==
    ASSUME NEW S, NEW s \in Seq(S), NEW at \in 1 .. Len(s)
    PROVE  /\ RemoveAt(s, at) \in Seq(S) /\ Len(RemoveAt(s, at)) = Len(s) - 1
           /\ \A i \in 1 .. Len(s) - 1 : RemoveAt(s, at)[i] =
                 IF i < at THEN s[i] ELSE s[i + 1]
<1>1. PICK a, b : a = SubSeq(s, 1, at - 1) /\ b = SubSeq(s, at + 1, Len(s))
  OBVIOUS
<1>2. Len(s) \in Nat /\ at \in Nat /\ 1 <= at /\ at <= Len(s)
  OBVIOUS
<1>3. /\ a \in Seq(S) /\ Len(a) = at - 1 /\ \A i \in 1 .. at - 1 : a[i] = s[i]
      /\ b \in Seq(S) /\ Len(b) = Len(s) - at
      /\ \A i \in 1 .. Len(s) - at : b[i] = s[at + i]
  <2>1. a \in Seq(S) /\ Len(a) = at - 1 /\ \A i \in 1 .. at - 1 : a[i] = s[i]
    BY <1>1, <1>2
  <2>2. b \in Seq(S) /\ Len(b) = Len(s) - at
    BY <1>1, <1>2
  <2>3. ASSUME NEW i \in 1 .. Len(s) - at PROVE b[i] = s[at + i]
    BY <1>1, <1>2, <2>3
  <2>. QED
    BY <2>1, <2>2, <2>3
<1>6. RemoveAt(s, at) = a \o b
  BY <1>1 DEF RemoveAt
<1>7. /\ a \o b \in Seq(S) /\ Len(a \o b) = Len(a) + Len(b)
      /\ \A i \in 1 .. Len(a) + Len(b) :
            (a \o b)[i] = IF i <= Len(a) THEN a[i] ELSE b[i - Len(a)]
  BY <1>3, ConcatProperties
<1>8. ASSUME NEW i \in 1 .. Len(s) - 1
      PROVE  (a \o b)[i] = IF i < at THEN s[i] ELSE s[i + 1]
  <2>1. CASE i < at
    BY <1>2, <1>3, <1>7, <2>1
  <2>2. CASE i >= at
    <3>1. (a \o b)[i] = b[i - (at - 1)] /\ i - (at - 1) \in 1 .. Len(s) - at
      BY <1>2, <1>3, <1>7, <2>2
    <3>2. b[i - (at - 1)] = s[at + (i - (at - 1))]
      BY <1>3, <3>1
    <3>3. at + (i - (at - 1)) = i + 1
      BY <1>2, <1>8
    <3>. QED
      BY <1>2, <2>2, <3>1, <3>2, <3>3
  <2>3. i < at \/ i >= at
    BY <1>2, <1>8
  <2>. QED
    BY <2>1, <2>2, <2>3
<1>. QED
  BY <1>2, <1>3, <1>6, <1>7, <1>8

(* insert_at moves the elements behind by one, the last first.               *)
LEMMA InsertStep ==
    ASSUME VectorsInv, NEW v \in Vectors, NEW at \in 1 .. MaxElements, NEW e \in Elements,
           InsertInto(v, at, e)
    PROVE  VectorsInv'
<1>1. PICK n : n = vec[v].size + 1
  OBVIOUS
<1>2. /\ n \in Nat /\ n = Len(ideal[v]) + 1 /\ ideal[v] \in Seq(Elements) /\ vec[v].size = n - 1
      /\ Len(ideal[v]) = n - 1
  <2>1. vec[v].size \in Nat /\ vec[v].size = Len(ideal[v]) /\ ideal[v] \in Seq(Elements)
    BY VectorIs
  <2>. QED
    BY <1>1, <2>1
<1>3. PICK y, gs : /\ Roomy(Now(v), n) = <<y, gs>> /\ Turns(vec[v], heaps, y, gs)
                   /\ y.size = vec[v].size /\ Held(y) \in Nat /\ Held(y) >= n
                   /\ DataOf(y, gs) \in [1 .. Held(y) -> Cells]
                   /\ \A i \in 1 .. vec[v].size : DataOf(y, gs)[i] = ideal[v][i]
  <2>1. ~ Beyond(vec[v], n)
    BY <1>1 DEF InsertInto
  <2>2. PICK k \in Nat : k = n
    BY <1>2
  <2>3. PICK y, gs : /\ Roomy(Now(v), k) = <<y, gs>> /\ Turns(vec[v], heaps, y, gs)
                     /\ y.size = vec[v].size /\ Held(y) \in Nat
                     /\ (~ Beyond(vec[v], k) => Held(y) >= k)
                     /\ DataOf(y, gs) \in [1 .. Held(y) -> Cells]
                     /\ \A i \in 1 .. vec[v].size : DataOf(y, gs)[i] = ideal[v][i]
    BY RoomMade
  <2>. QED
    BY <2>1, <2>2, <2>3
<1>4. PICK old : old = DataOf(y, gs)
  OBVIOUS
<1>5. PICK shifted : shifted = [i \in DOMAIN old |->
                                IF i \in at + 1 .. n THEN old[i - 1] ELSE old[i]]
  OBVIOUS
<1>6. PICK d : d = [shifted EXCEPT ![at] = e]
  OBVIOUS
<1>7. PICK seq : seq = InsertAt(ideal[v], at, e)
  OBVIOUS
<1>8. at \in 1 .. n - 1 /\ at \in Nat
  BY <1>1, <1>2 DEF InsertInto
<1>9. Edit(v, Sized(Stored(<<y, gs>>, d), n), seq)
  <2>1. PICK p : p = Roomy(Now(v), n)
    OBVIOUS
  <2>2. p = <<y, gs>> /\ p[1] = y /\ p[2] = gs
    BY <1>3, <2>1
  <2>3. Edit(v, Sized(Stored(p, [[i \in DOMAIN DataOf(p[1], p[2]) |->
                                    IF i \in at + 1 .. n THEN DataOf(p[1], p[2])[i - 1]
                                    ELSE DataOf(p[1], p[2])[i]] EXCEPT ![at] = e]), n),
             InsertAt(ideal[v], at, e))
    BY <1>1, <2>1 DEF InsertInto
  <2>. QED
    BY <1>4, <1>5, <1>6, <1>7, <2>2, <2>3
<1>10. DOMAIN old = 1 .. Held(y) /\ \A i \in 1 .. Held(y) : old[i] \in Cells
  BY <1>3, <1>4
<1>11. shifted \in [1 .. Held(y) -> Cells]
  <2>1. ASSUME NEW i \in 1 .. Held(y), i \in at + 1 .. n PROVE i - 1 \in 1 .. Held(y)
    BY <1>2, <1>3, <1>8, <2>1
  <2>. QED
    BY <1>5, <1>10, <2>1
<1>12. d \in [1 .. Held(y) -> Cells]
  BY <1>6, <1>11 DEF Cells
<1>13. /\ seq \in Seq(Elements) /\ Len(seq) = n
       /\ \A i \in 1 .. n : seq[i] = IF i < at THEN ideal[v][i]
                                     ELSE IF i = at THEN e ELSE ideal[v][i - 1]
  <2>1. PICK s \in Seq(Elements) : s = ideal[v] /\ at \in 1 .. Len(s)
    BY <1>2, <1>8
  <2>2. /\ seq \in Seq(Elements) /\ Len(seq) = Len(ideal[v]) + 1
        /\ \A i \in 1 .. Len(ideal[v]) + 1 :
              seq[i] = IF i < at THEN ideal[v][i] ELSE IF i = at THEN e ELSE ideal[v][i - 1]
    <3>1. /\ InsertAt(s, at, e) \in Seq(Elements) /\ Len(InsertAt(s, at, e)) = Len(s) + 1
          /\ \A i \in 1 .. Len(s) + 1 : InsertAt(s, at, e)[i] =
                IF i < at THEN s[i] ELSE IF i = at THEN e ELSE s[i - 1]
      BY <2>1, InsertAtIs
    <3>. QED
      BY <1>7, <2>1, <3>1
  <2>3. Len(ideal[v]) + 1 = n
    BY <1>2
  <2>. QED
    BY <2>2, <2>3
<1>14. ASSUME NEW i \in 1 .. n PROVE d[i] = seq[i]
  <2>1. i \in 1 .. Held(y) /\ i \in Nat /\ i >= 1 /\ i <= n
    BY <1>2, <1>3
  <2>2. CASE i < at
    <3>1. d[i] = old[i] /\ i \in 1 .. vec[v].size
      BY <1>2, <1>5, <1>6, <1>8, <1>10, <1>11, <2>1, <2>2
    <3>. QED
      BY <1>3, <1>4, <1>13, <2>2, <3>1
  <2>3. CASE i = at
    BY <1>6, <1>8, <1>11, <1>13, <2>1, <2>3
  <2>4. CASE i > at
    <3>1. d[i] = shifted[i]
      BY <1>6, <1>8, <1>11, <2>1, <2>4
    <3>2. shifted[i] = old[i - 1]
      BY <1>5, <1>8, <1>10, <2>1, <2>4
    <3>3. i - 1 \in 1 .. vec[v].size /\ ~(i < at) /\ i # at
      BY <1>2, <1>8, <2>1, <2>4
    <3>. QED
      BY <1>3, <1>4, <1>13, <3>1, <3>2, <3>3
  <2>5. i < at \/ i = at \/ i > at
    BY <1>8, <2>1
  <2>. QED
    BY <2>2, <2>3, <2>4, <2>5
<1>. QED
  BY <1>2, <1>3, <1>9, <1>12, <1>13, <1>14, CellsKeep

(* erase_at moves the elements behind back by one.                           *)
LEMMA EraseStep ==
    ASSUME VectorsInv, NEW v \in Vectors, NEW at \in 1 .. MaxElements, EraseAt(v, at)
    PROVE  VectorsInv'
<1>1. PICK n : n = vec[v].size - 1
  OBVIOUS
<1>2. PICK old : old = DataOf(vec[v], heaps)
  OBVIOUS
<1>3. PICK d : d = [i \in DOMAIN old |-> IF i \in at .. n THEN old[i + 1] ELSE old[i]]
  OBVIOUS
<1>4. PICK seq : seq = RemoveAt(ideal[v], at)
  OBVIOUS
<1>5. /\ vec[v].size = Len(ideal[v]) /\ vec[v].size \in Nat /\ Held(vec[v]) \in Nat
      /\ vec[v].size <= Held(vec[v]) /\ old \in [1 .. Held(vec[v]) -> Cells]
      /\ ideal[v] \in Seq(Elements) /\ Turns(vec[v], heaps, vec[v], heaps)
      /\ \A i \in 1 .. vec[v].size : old[i] = ideal[v][i]
  BY <1>2, VectorIs
<1>6. at \in 1 .. Len(ideal[v]) /\ n \in Nat /\ at \in Nat /\ 1 <= at /\ vec[v].size = n + 1
  BY <1>1, <1>5 DEF EraseAt
<1>7. Edit(v, Sized(Stored(<<vec[v], heaps>>, d), n), seq)
  BY <1>1, <1>2, <1>3, <1>4 DEF EraseAt, Now
<1>8. d \in [1 .. Held(vec[v]) -> Cells]
  <2>1. ASSUME NEW i \in 1 .. Held(vec[v]), i \in at .. n PROVE i + 1 \in 1 .. Held(vec[v])
    BY <1>5, <1>6, <2>1
  <2>. QED
    BY <1>3, <1>5, <2>1
<1>9. /\ seq \in Seq(Elements) /\ Len(seq) = n
      /\ \A i \in 1 .. n : seq[i] = IF i < at THEN ideal[v][i] ELSE ideal[v][i + 1]
  <2>1. /\ seq \in Seq(Elements) /\ Len(seq) = Len(ideal[v]) - 1
        /\ \A i \in 1 .. Len(ideal[v]) - 1 :
              seq[i] = IF i < at THEN ideal[v][i] ELSE ideal[v][i + 1]
    BY <1>4, <1>5, <1>6, RemoveAtIs
  <2>2. Len(ideal[v]) - 1 = n
    BY <1>5, <1>6
  <2>. QED
    BY <2>1, <2>2
<1>10. ASSUME NEW i \in 1 .. n PROVE d[i] = seq[i]
  <2>1. i \in 1 .. Held(vec[v]) /\ i \in 1 .. vec[v].size /\ i + 1 \in 1 .. vec[v].size /\ i \in Nat
    BY <1>5, <1>6
  <2>2. CASE i < at
    <3>1. d[i] = old[i]
      BY <1>3, <1>5, <1>6, <2>1, <2>2
    <3>. QED
      BY <1>5, <1>9, <2>1, <2>2, <3>1
  <2>3. CASE ~(i < at)
    <3>1. i \in at .. n
      BY <1>6, <2>1, <2>3
    <3>2. d[i] = old[i + 1]
      BY <1>3, <1>5, <2>1, <3>1
    <3>. QED
      BY <1>5, <1>9, <2>1, <2>3, <3>2
  <2>. QED
    BY <2>2, <2>3
<1>11. n <= Held(vec[v])
  BY <1>5, <1>6
<1>. QED
  BY <1>5, <1>6, <1>7, <1>8, <1>9, <1>10, <1>11, CellsKeep

(* resize keeps what fits and fills the rest.                                *)
LEMMA ResizeStep ==
    ASSUME VectorsInv, NEW v \in Vectors, NEW n \in 0 .. MaxElements, NEW e \in Elements,
           Resize(v, n, e)
    PROVE  VectorsInv'
<1>1. n \in Nat
  BY VectorsAssumption
<1>2. PICK y, gs : /\ Roomy(Now(v), n) = <<y, gs>> /\ Turns(vec[v], heaps, y, gs)
                   /\ y.size = vec[v].size /\ Held(y) \in Nat /\ Held(y) >= n
                   /\ DataOf(y, gs) \in [1 .. Held(y) -> Cells]
                   /\ \A i \in 1 .. vec[v].size : DataOf(y, gs)[i] = ideal[v][i]
  <2>1. ~ Beyond(vec[v], n)
    BY <1>1 DEF Resize
  <2>. QED
    BY <1>1, <2>1, RoomMade
<1>3. PICK old : old = DataOf(y, gs)
  OBVIOUS
<1>4. PICK d : d = [i \in DOMAIN old |-> IF i \in vec[v].size + 1 .. n THEN e ELSE old[i]]
  OBVIOUS
<1>5. PICK seq : seq = [i \in 1 .. n |-> IF i <= Len(ideal[v]) THEN ideal[v][i] ELSE e]
  OBVIOUS
<1>6. Edit(v, Sized(Stored(<<y, gs>>, d), n), seq)
  <2>1. PICK p : p = Roomy(Now(v), n)
    OBVIOUS
  <2>2. p = <<y, gs>> /\ p[1] = y /\ p[2] = gs
    BY <1>2, <2>1
  <2>3. Edit(v, Sized(Stored(p, [i \in DOMAIN DataOf(p[1], p[2]) |->
                                   IF i \in vec[v].size + 1 .. n THEN e
                                   ELSE DataOf(p[1], p[2])[i]]), n),
             [i \in 1 .. n |-> IF i <= Len(ideal[v]) THEN ideal[v][i] ELSE e])
    BY <2>1 DEF Resize
  <2>. QED
    BY <1>3, <1>4, <1>5, <2>2, <2>3
<1>7. vec[v].size = Len(ideal[v]) /\ vec[v].size \in Nat /\ ideal[v] \in Seq(Elements)
  BY VectorIs
<1>8. old \in [1 .. Held(y) -> Cells] /\ \A i \in 1 .. vec[v].size : old[i] = ideal[v][i]
  BY <1>2, <1>3
<1>9. d \in [1 .. Held(y) -> Cells]
  BY <1>4, <1>8 DEF Cells
<1>10. seq \in Seq(Elements) /\ Len(seq) = n
  <2>1. seq \in [1 .. n -> Elements]
    BY <1>1, <1>5, <1>7
  <2>. QED
    BY <1>1, <2>1, FunctionIsSeq
<1>11. ASSUME NEW i \in 1 .. n PROVE d[i] = seq[i]
  <2>1. i \in 1 .. Held(y) /\ i \in Nat /\ i >= 1 /\ i <= n
    BY <1>1, <1>2
  <2>2. CASE i <= vec[v].size
    <3>1. d[i] = old[i] /\ seq[i] = ideal[v][i]
      BY <1>4, <1>5, <1>7, <1>8, <2>1, <2>2
    <3>2. i \in 1 .. vec[v].size
      BY <1>7, <2>1, <2>2
    <3>. QED
      BY <1>8, <3>1, <3>2
  <2>3. CASE ~(i <= vec[v].size)
    <3>1. i \in vec[v].size + 1 .. n
      BY <1>1, <1>7, <2>1, <2>3
    <3>2. d[i] = e
      BY <1>4, <1>8, <2>1, <3>1
    <3>3. seq[i] = e
      BY <1>5, <1>7, <2>3
    <3>. QED
      BY <3>2, <3>3
  <2>. QED
    BY <2>2, <2>3
<1>12. n <= Held(y)
  BY <1>1, <1>2
<1>. QED
  BY <1>1, <1>2, <1>6, <1>9, <1>10, <1>11, <1>12, CellsKeep

(* reserve changes no element.                                               *)
LEMMA ReserveStep ==
    ASSUME VectorsInv, NEW v \in Vectors, NEW n \in 1 .. MaxElements, Reserve(v, n)
    PROVE  VectorsInv'
<1>1. n \in Nat
  BY VectorsAssumption
<1>2. PICK y, gs : /\ Roomy(Now(v), n) = <<y, gs>> /\ Turns(vec[v], heaps, y, gs)
                   /\ y.size = vec[v].size
                   /\ \A i \in 1 .. vec[v].size : DataOf(y, gs)[i] = ideal[v][i]
  BY <1>1, RoomMade
<1>3. Spells(y, gs, ideal[v]) /\ ideal[v] \in Seq(Elements)
  BY <1>2, VectorIs DEF Spells
<1>4. Edit(v, <<y, gs>>, ideal[v])
  BY <1>2 DEF Reserve
<1>. QED
  BY <1>2, <1>3, <1>4, EditKeeps

(* clear leaves none.                                                        *)
LEMMA ClearStep ==
    ASSUME VectorsInv, NEW v \in Vectors, Clear(v)
    PROVE  VectorsInv'
<1>1. PICK y : /\ Sized(<<vec[v], heaps>>, 0) = <<y, heaps>> /\ Turns(vec[v], heaps, y, heaps)
               /\ y.size = 0
  BY VectorIs, SizedIs
<1>2. Edit(v, <<y, heaps>>, <<>>)
  BY <1>1 DEF Clear, Now
<1>3. Spells(y, heaps, <<>>) /\ <<>> \in Seq(Elements)
  BY <1>1 DEF Spells
<1>. QED
  BY <1>1, <1>2, <1>3, EditKeeps

(* A new vector has nothing, and shares no block.                            *)
LEMMA HollowIs ==
    ASSUME NEW hs
    PROVE  /\ Seated(Hollow, hs) /\ Hollow.heap = 0 /\ Hollow.size = 0
           /\ ~ (Held(Hollow) < Hollow.cap)
<1>1. NoElements \in [1 .. Inline -> Cells]
  BY DEF NoElements, Cells
<1>2. /\ Hollow \in VectorSet /\ Hollow.heap = 0 /\ Hollow.cap = Inline /\ Hollow.size = 0
      /\ 0 <= Inline /\ Inline \in Nat
  BY <1>1, VectorsAssumption DEF Hollow, VectorSet
<1>. QED
  BY <1>2 DEF Seated, Held

(* The end of a vector takes its block along.                                *)
LEMMA RenewTurns ==
    ASSUME VectorsInv, NEW v \in Vectors, NEW gs, gs = Released(Now(v))[2]
    PROVE  BlocksApart(gs) /\ Turns(vec[v], heaps, Hollow, gs)
<1>1. gs = Dropped(heaps, vec[v].heap)
  BY DEF Released, Now
<1>2. BlocksApart(gs)
  BY <1>1, VectorIs, DroppedApart
<1>3. Dropped(gs, Hollow.heap) = gs
  BY <1>2, HollowIs, NothingDropped
<1>. QED
  BY <1>1, <1>2, <1>3, HollowIs DEF Turns, Held

(* A new vector in the place of one that ended.                              *)
LEMMA RenewStep ==
    ASSUME VectorsInv, NEW v \in Vectors, Renew(v)
    PROVE  VectorsInv'
<1>1. PICK gs : gs = Released(Now(v))[2]
  OBVIOUS
<1>2. Turns(vec[v], heaps, Hollow, gs)
  BY <1>1, RenewTurns
<1>3. Edit(v, <<Hollow, gs>>, <<>>)
  BY <1>1 DEF Renew
<1>4. Spells(Hollow, gs, <<>>) /\ <<>> \in Seq(Elements)
  BY HollowIs DEF Spells
<1>. QED
  BY <1>2, <1>3, <1>4, EditKeeps

(* Another vector is still there when one has let go of its block.           *)
LEMMA OtherStays ==
    ASSUME VectorsInv, NEW v \in Vectors, NEW w \in Vectors, v # w, NEW y, NEW gs,
           Turns(vec[v], heaps, y, gs)
    PROVE  /\ Seated(vec[w], gs) /\ DataOf(vec[w], gs) = DataOf(vec[w], heaps)
           /\ vec[w].heap = y.heap => vec[w].heap = 0
<1>1. vec[w].heap = vec[v].heap => vec[w].heap = 0
  BY DEF VectorsInv
<1>2. BlocksApart(gs) /\ Dropped(gs, y.heap) = Dropped(heaps, vec[v].heap)
  BY DEF Turns
<1>. QED
  BY <1>1, <1>2, VectorIs, ElsewhereIs

(* The copy of another into one that has let go.                             *)
LEMMA CopyKeeps ==
    ASSUME VectorsInv, NEW v \in Vectors, NEW w \in Vectors, v # w, NEW y, NEW gs,
           Turns(vec[v], heaps, y, gs), y.heap = 0,
           Edit(v, CopiedFrom(<<y, gs>>, vec[w]), ideal[w])
    PROVE  VectorsInv'
<1>1. Seated(vec[w], gs) /\ DataOf(vec[w], gs) = DataOf(vec[w], heaps)
  BY OtherStays
<1>2. BlocksApart(gs) /\ Seated(y, gs)
  BY DEF Turns
<1>3. PICK z, fs : /\ CopiedFrom(<<y, gs>>, vec[w]) = <<z, fs>> /\ Turns(y, gs, z, fs)
                   /\ z.size = vec[w].size
                   /\ \A i \in 1 .. vec[w].size : DataOf(z, fs)[i] = DataOf(vec[w], gs)[i]
  BY <1>1, <1>2, CopiedIs
<1>4. Turns(vec[v], heaps, z, fs)
  BY <1>3, TurnsOn
<1>5. Spells(z, fs, ideal[w]) /\ ideal[w] \in Seq(Elements)
  BY <1>1, <1>3, VectorIs DEF Spells
<1>6. Edit(v, <<z, fs>>, ideal[w])
  BY <1>3
<1>. QED
  BY <1>4, <1>5, <1>6, EditKeeps

(* A copy in the place of one that ended.                                    *)
LEMMA RenewCopyStep ==
    ASSUME VectorsInv, NEW v \in Vectors, NEW w \in Vectors, RenewCopy(v, w)
    PROVE  VectorsInv'
<1>1. PICK gs : gs = Released(Now(v))[2]
  OBVIOUS
<1>2. Turns(vec[v], heaps, Hollow, gs) /\ Hollow.heap = 0
  BY <1>1, RenewTurns, HollowIs
<1>3. v # w /\ Edit(v, CopiedFrom(<<Hollow, gs>>, vec[w]), ideal[w])
  BY <1>1 DEF RenewCopy
<1>. QED
  BY <1>2, <1>3, CopyKeeps

(* Assignment of another, in a new place or over the old elements.           *)
LEMMA CopyAssignStep ==
    ASSUME VectorsInv, NEW v \in Vectors, NEW w \in Vectors, CopyAssign(v, w)
    PROVE  VectorsInv'
<1>1. CASE vec[w].size > vec[v].cap
  <2>1. PICK y : /\ Released(<<vec[v], heaps>>) = <<y, Dropped(heaps, vec[v].heap)>>
                 /\ Turns(vec[v], heaps, y, Dropped(heaps, vec[v].heap)) /\ y.heap = 0
    BY VectorIs, ReleasedIs
  <2>2. /\ v # w
        /\ Edit(v, CopiedFrom(<<y, Dropped(heaps, vec[v].heap)>>, vec[w]), ideal[w])
    BY <1>1, <2>1 DEF CopyAssign, Now
  <2>. QED
    BY <2>1, <2>2, CopyKeeps
<1>2. CASE ~(vec[w].size > vec[v].cap)
  <2>1. PICK n : n = vec[w].size
    OBVIOUS
  <2>2. PICK d : d = Laid(DataOf(vec[w], heaps), n, DataOf(vec[v], heaps))
    OBVIOUS
  <2>3. /\ n \in Nat /\ n = Len(ideal[w]) /\ ideal[w] \in Seq(Elements)
        /\ Held(vec[w]) \in Nat /\ n <= Held(vec[w])
        /\ DataOf(vec[w], heaps) \in [1 .. Held(vec[w]) -> Cells]
        /\ \A i \in 1 .. n : DataOf(vec[w], heaps)[i] = ideal[w][i]
    BY <2>1, VectorIs
  <2>4. /\ Held(vec[v]) \in Nat /\ n <= Held(vec[v])
        /\ DataOf(vec[v], heaps) \in [1 .. Held(vec[v]) -> Cells]
        /\ Turns(vec[v], heaps, vec[v], heaps)
    <3>1. ~ Beyond(vec[v], n)
      BY <2>1 DEF CopyAssign
    <3>2. vec[v].cap \in Nat /\ n <= vec[v].cap
      BY <1>2, <2>1, <2>3, VectorIs, SeatedIs
    <3>3. n <= Held(vec[v])
      BY <2>3, <3>1, <3>2, VectorIs DEF Beyond
    <3>. QED
      BY <3>3, VectorIs
  <2>5. d \in [1 .. Held(vec[v]) -> Cells]
    BY <2>2, <2>3, <2>4, LaidIs
  <2>6. ASSUME NEW i \in 1 .. n PROVE d[i] = ideal[w][i]
    <3>1. i \in DOMAIN DataOf(vec[v], heaps) /\ i <= n
      BY <2>3, <2>4
    <3>2. d[i] = DataOf(vec[w], heaps)[i]
      BY <2>2, <3>1 DEF Laid
    <3>. QED
      BY <2>3, <3>2
  <2>7. Edit(v, Sized(Stored(<<vec[v], heaps>>, d), n), ideal[w])
    BY <1>2, <2>1, <2>2 DEF CopyAssign, Now
  <2>. QED
    BY <2>3, <2>4, <2>5, <2>6, <2>7, CellsKeep
<1>. QED
  BY <1>1, <1>2

(* Two blocks go in either order.                                            *)
LEMMA DropsCommute ==
    ASSUME NEW hs, NEW a, NEW b
    PROVE  Dropped(Dropped(hs, a), b) = Dropped(Dropped(hs, b), a)
BY DEF Dropped

(* Move assignment: the block changes hands, or the elements are moved.      *)
LEMMA MoveAssignStep ==
    ASSUME VectorsInv, NEW v \in Vectors, NEW w \in Vectors, MoveAssign(v, w)
    PROVE  VectorsInv'
<1>1. PICK gs : gs = Dropped(heaps, vec[v].heap)
  OBVIOUS
<1>2. PICK y : /\ Released(<<vec[v], heaps>>) = <<y, gs>>
               /\ Turns(vec[v], heaps, y, gs) /\ y.heap = 0
  BY <1>1, VectorIs, ReleasedIs
<1>3. v # w
  BY DEF MoveAssign, Pair
<1>4. /\ BlocksApart(gs) /\ Seated(y, gs)
      /\ Seated(vec[w], gs) /\ DataOf(vec[w], gs) = DataOf(vec[w], heaps)
  BY <1>2, <1>3, OtherStays DEF Turns, Held
<1>5. PICK m, n : /\ MovedFrom(y, vec[w]) = <<m, n>> /\ Seated(m, gs) /\ Seated(n, gs)
                  /\ m.heap = vec[w].heap /\ n.heap = 0 /\ m.size = vec[w].size /\ n.size = 0
                  /\ \A i \in 1 .. vec[w].size : DataOf(m, gs)[i] = DataOf(vec[w], gs)[i]
                  /\ Held(m) < m.cap => Held(y) < y.cap
                  /\ Held(n) < n.cap => Held(vec[w]) < vec[w].cap
  BY <1>2, <1>4, MovedIs
<1>6. Pair(v, w, m, n, gs, ideal[w], <<>>)
  <2>1. PICK r : r = Released(Now(v))
    OBVIOUS
  <2>2. r[1] = y /\ r[2] = gs
    BY <1>2, <2>1 DEF Now
  <2>3. PICK q : q = MovedFrom(r[1], vec[w])
    OBVIOUS
  <2>4. q[1] = m /\ q[2] = n
    BY <1>5, <2>2, <2>3
  <2>5. Pair(v, w, q[1], q[2], r[2], ideal[w], <<>>)
    BY <2>1, <2>3 DEF MoveAssign
  <2>. QED
    BY <2>2, <2>4, <2>5
<1>7. /\ Spells(m, gs, ideal[w]) /\ ideal[w] \in Seq(Elements)
      /\ Spells(n, gs, <<>>) /\ <<>> \in Seq(Elements)
  <2>1. Spells(m, gs, ideal[w]) /\ ideal[w] \in Seq(Elements)
    BY <1>4, <1>5, VectorIs DEF Spells
  <2>. QED
    BY <1>5, <2>1 DEF Spells
<1>8. Dropped(Dropped(gs, m.heap), n.heap)
        = Dropped(Dropped(heaps, vec[v].heap), vec[w].heap)
  <2>1. BlocksApart(Dropped(gs, m.heap))
    BY <1>4, DroppedApart
  <2>. QED
    BY <1>1, <1>5, <2>1, NothingDropped
<1>9. m.heap = n.heap => m.heap = 0
  BY <1>5
<1>10. Held(m) < m.cap \/ Held(n) < n.cap => refused
  BY <1>2, <1>5 DEF Turns, VectorsInv
<1>. QED
  BY <1>4, <1>5, <1>6, <1>7, <1>8, <1>9, <1>10, PairKeeps

(* A vector that has let go, among the blocks as they were.                  *)
LEMMA LetGoIs ==
    ASSUME NEW hs, NEW x, Seated(x, hs)
    PROVE  \E y, gs : /\ Released(<<x, hs>>) = <<y, gs>> /\ y.heap = 0
                      /\ Seated(y, hs) /\ ~ (Held(y) < y.cap)
<1>1. PICK y : y = [x EXCEPT !.heap = 0, !.cap = Inline, !.size = 0]
  OBVIOUS
<1>2. x \in VectorSet
  BY SeatedIs
<1>3. Inline \in Nat /\ 0 <= Inline
  BY VectorsAssumption
<1>4. y \in VectorSet /\ y.heap = 0 /\ y.cap = Inline /\ y.size = 0
  BY <1>1, <1>2, <1>3 DEF VectorSet
<1>5. Seated(y, hs)
  BY <1>3, <1>4 DEF Seated, Held
<1>6. Released(<<x, hs>>) = <<y, Dropped(hs, x.heap)>>
  BY <1>1 DEF Released
<1>7. ~ (Held(y) < y.cap)
  BY <1>3, <1>4 DEF Held
<1>. QED
  BY <1>4, <1>5, <1>6, <1>7

(* swap: two blocks change hands, or by way of a third vector.               *)
LEMMA SwapStep ==
    ASSUME VectorsInv, NEW v \in Vectors, NEW w \in Vectors, Swap(v, w)
    PROVE  VectorsInv'
<1>1. PICK a, b : a = vec[v] /\ b = vec[w]
  OBVIOUS
<1>2. v # w
  BY DEF Swap, Pair
<1>3. /\ BlocksApart(heaps) /\ Seated(a, heaps) /\ Seated(b, heaps)
      /\ Spells(a, heaps, ideal[v]) /\ Spells(b, heaps, ideal[w])
      /\ ideal[v] \in Seq(Elements) /\ ideal[w] \in Seq(Elements)
  BY <1>1, VectorIs
<1>4. b.heap = a.heap => b.heap = 0
  BY <1>1, <1>2 DEF VectorsInv
<1>5. \E x, y : /\ Pair(v, w, x, y, heaps, ideal[w], ideal[v])
                /\ Seated(x, heaps) /\ Seated(y, heaps)
                /\ Spells(x, heaps, ideal[w]) /\ Spells(y, heaps, ideal[v])
                /\ x.heap = b.heap /\ y.heap = a.heap
                /\ ~ (Held(x) < x.cap) /\ ~ (Held(y) < y.cap)
  <2>1. CASE a.heap # 0 /\ b.heap # 0
    <3>1. PICK x : x = [a EXCEPT !.heap = b.heap, !.cap = b.cap, !.size = b.size]
      OBVIOUS
    <3>2. PICK y : y = [b EXCEPT !.heap = a.heap, !.cap = a.cap, !.size = a.size]
      OBVIOUS
    <3>3. Pair(v, w, x, y, heaps, ideal[w], ideal[v])
      BY <1>1, <2>1, <3>1, <3>2 DEF Swap
    <3>4. a \in VectorSet /\ b \in VectorSet
      BY <1>3, SeatedIs
    <3>5. x \in VectorSet /\ x.heap = b.heap /\ x.cap = b.cap /\ x.size = b.size
      BY <3>1, <3>4 DEF VectorSet
    <3>6. y \in VectorSet /\ y.heap = a.heap /\ y.cap = a.cap /\ y.size = a.size
      BY <3>2, <3>4 DEF VectorSet
    <3>7. Seated(x, heaps) /\ DataOf(x, heaps) = DataOf(b, heaps)
      BY <1>3, <2>1, <3>5 DEF Seated, DataOf, Held
    <3>8. Seated(y, heaps) /\ DataOf(y, heaps) = DataOf(a, heaps)
      BY <1>3, <2>1, <3>6 DEF Seated, DataOf, Held
    <3>9. ~ (Held(x) < x.cap) /\ ~ (Held(y) < y.cap)
      BY <2>1, <3>4, <3>5, <3>6 DEF Held, VectorSet
    <3>. QED
      BY <1>3, <3>3, <3>5, <3>6, <3>7, <3>8, <3>9 DEF Spells
  <2>2. CASE ~(a.heap # 0 /\ b.heap # 0)
    <3>1. PICK t, a0 : /\ MovedFrom(Hollow, a) = <<t, a0>>
                       /\ Seated(t, heaps) /\ Seated(a0, heaps)
                       /\ t.heap = a.heap /\ t.size = a.size
                       /\ \A i \in 1 .. a.size : DataOf(t, heaps)[i] = DataOf(a, heaps)[i]
      BY <1>3, HollowIs, MovedIs
    <3>2. PICK a1, hs : /\ Released(<<a0, heaps>>) = <<a1, hs>> /\ a1.heap = 0
                        /\ Seated(a1, heaps) /\ ~ (Held(a1) < a1.cap)
      BY <3>1, LetGoIs
    <3>3. PICK x, b0 : /\ MovedFrom(a1, b) = <<x, b0>>
                       /\ Seated(x, heaps) /\ Seated(b0, heaps) /\ ~ (Held(x) < x.cap)
                       /\ x.heap = b.heap /\ x.size = b.size
                       /\ \A i \in 1 .. b.size : DataOf(x, heaps)[i] = DataOf(b, heaps)[i]
      BY <1>3, <3>2, MovedIs
    <3>4. PICK b1, gs : /\ Released(<<b0, heaps>>) = <<b1, gs>> /\ b1.heap = 0
                        /\ Seated(b1, heaps) /\ ~ (Held(b1) < b1.cap)
      BY <3>3, LetGoIs
    <3>5. PICK y, t0 : /\ MovedFrom(b1, t) = <<y, t0>> /\ Seated(y, heaps)
                       /\ ~ (Held(y) < y.cap)
                       /\ y.heap = t.heap /\ y.size = t.size
                       /\ \A i \in 1 .. t.size : DataOf(y, heaps)[i] = DataOf(t, heaps)[i]
      BY <1>3, <3>1, <3>4, MovedIs
    <3>6. Pair(v, w, x, y, heaps, ideal[w], ideal[v])
      <4>1. PICK mt : mt = MovedFrom(Hollow, a)
        OBVIOUS
      <4>2. mt[1] = t /\ mt[2] = a0
        BY <3>1, <4>1
      <4>3. PICK mu : mu = MovedFrom(Released(<<mt[2], heaps>>)[1], b)
        OBVIOUS
      <4>4. Released(<<mt[2], heaps>>)[1] = a1
        BY <3>2, <4>2
      <4>5. mu[1] = x /\ mu[2] = b0
        BY <3>3, <4>3, <4>4
      <4>6. PICK mx : mx = MovedFrom(Released(<<mu[2], heaps>>)[1], mt[1])
        OBVIOUS
      <4>7. Released(<<mu[2], heaps>>)[1] = b1
        BY <3>4, <4>5
      <4>8. mx[1] = y
        BY <3>5, <4>2, <4>6, <4>7
      <4>9. Pair(v, w, mu[1], mx[1], heaps, ideal[w], ideal[v])
        BY <1>1, <2>2, <4>1, <4>3, <4>6 DEF Swap
      <4>. QED
        BY <4>5, <4>8, <4>9
    <3>7. Spells(x, heaps, ideal[w])
      BY <1>3, <3>3 DEF Spells
    <3>8. Spells(y, heaps, ideal[v])
      BY <1>3, <3>1, <3>5 DEF Spells
    <3>. QED
      BY <3>1, <3>3, <3>5, <3>6, <3>7, <3>8
  <2>. QED
    BY <2>1, <2>2
<1>6. PICK x, y : /\ Pair(v, w, x, y, heaps, ideal[w], ideal[v])
                  /\ Seated(x, heaps) /\ Seated(y, heaps)
                  /\ Spells(x, heaps, ideal[w]) /\ Spells(y, heaps, ideal[v])
                  /\ x.heap = b.heap /\ y.heap = a.heap
                  /\ ~ (Held(x) < x.cap) /\ ~ (Held(y) < y.cap)
  BY <1>5
<1>7. Dropped(Dropped(heaps, x.heap), y.heap)
        = Dropped(Dropped(heaps, vec[v].heap), vec[w].heap)
  BY <1>1, <1>6, DropsCommute
<1>8. x.heap = y.heap => x.heap = 0
  BY <1>4, <1>6
<1>. QED
  BY <1>3, <1>6, <1>7, <1>8, PairKeeps

(* host_alloc had nothing: the program stops there, or an empty vector keeps *)
(* the capacity alone.                                                       *)
LEMMA RefusalStep ==
    ASSUME VectorsInv, NEW v \in Vectors, NEW n \in 1 .. MaxElements,
           \/ GrowRefused(v, n) \/ ReserveRefused(v, n) \/ ResizeRefused(v, n)
           \/ WriteBeyond(v, n)
    PROVE  VectorsInv'
<1>1. CASE ~ ReserveRefused(v, n)
  <2>1. vec' = vec /\ heaps' = heaps /\ ideal' = ideal /\ refused' = refused
    BY <1>1 DEF GrowRefused, ResizeRefused, WriteBeyond, Doomed
  <2>. QED
    BY <2>1 DEF VectorsInv
<1>2. CASE ReserveRefused(v, n)
  <2>1. PICK next : next = NextCap(vec[v], n)
    OBVIOUS
  <2>2. PICK y : y = [vec[v] EXCEPT !.heap = 0, !.cap = next]
    OBVIOUS
  <2>3. PICK gs : gs = Dropped(heaps, vec[v].heap)
    OBVIOUS
  <2>4. /\ n \in Nat /\ n > vec[v].cap /\ vec[v].size = 0 /\ heaps' = gs
        /\ refused' = TRUE /\ ideal' = ideal
        /\ vec' = [vec EXCEPT ![v].heap = 0, ![v].cap = next]
    BY <1>2, <2>1, <2>3, VectorsAssumption DEF ReserveRefused
  <2>5. /\ vec[v] \in VectorSet /\ vec[v].cap \in Nat /\ Inline \in Nat
        /\ Inline <= vec[v].cap
    BY VectorIs, SeatedIs, VectorsAssumption
  <2>6. next \in Nat /\ next > vec[v].cap
    BY <2>1, <2>4, <2>5 DEF NextCap
  <2>7. y \in VectorSet /\ y.heap = 0 /\ y.cap = next /\ y.size = 0
    BY <2>2, <2>4, <2>5, <2>6 DEF VectorSet
  <2>8. vec \in [Vectors -> VectorSet] /\ ideal \in [Vectors -> Seq(Elements)]
    BY DEF VectorsInv
  <2>9. vec' = [vec EXCEPT ![v] = y] /\ ideal' = [ideal EXCEPT ![v] = ideal[v]]
    BY <2>2, <2>4, <2>8
  <2>10. BlocksApart(gs) /\ Dropped(gs, y.heap) = gs
    BY <2>3, <2>7, VectorIs, DroppedApart, NothingDropped
  <2>11. Seated(y, gs)
    <3>1. Inline <= y.cap /\ 0 <= Inline
      BY <2>5, <2>6, <2>7
    <3>. QED
      BY <2>7, <3>1 DEF Seated, Held
  <2>12. Spells(y, gs, ideal[v]) /\ ideal[v] \in Seq(Elements)
    BY <2>4, <2>7, VectorIs DEF Spells
  <2>. QED
    BY <2>3, <2>4, <2>9, <2>10, <2>11, <2>12, OneKeeps
<1>. QED
  BY <1>1, <1>2

(* A copy that was refused changes nothing that the invariant speaks of.     *)
LEMMA CopyRefusedStep ==
    ASSUME VectorsInv, NEW v \in Vectors, NEW w \in Vectors, CopyRefused(v, w)
    PROVE  VectorsInv'
<1>1. vec' = vec /\ heaps' = heaps /\ ideal' = ideal /\ refused' = refused
  BY DEF CopyRefused, Doomed
<1>. QED
  BY <1>1 DEF VectorsInv

\* No operation leaves two vectors one block, a block without a vector, or an
\* element elsewhere than where the vector looks for it; and a capacity without
\* cells beside it is had only after an empty vector was refused a block.
THEOREM VectorsInvariant == VectorsSpec => []VectorsInv
<1>1. VectorsInv /\ [VectorsNext]_vectorVars => VectorsInv'
  <2>. SUFFICES ASSUME VectorsInv, [VectorsNext]_vectorVars PROVE VectorsInv'
    OBVIOUS
  <2>1. CASE VectorsNext
    <3>1. PICK v \in Vectors :
            \/ \E e \in Elements : PushBack(v, e)
            \/ \E at \in 1 .. MaxElements, e \in Elements : InsertInto(v, at, e)
            \/ \E at \in 1 .. MaxElements : EraseAt(v, at)
            \/ \E n \in 0 .. MaxElements, e \in Elements : Resize(v, n, e)
            \/ \E n \in 1 .. MaxElements : Reserve(v, n)
            \/ Clear(v) \/ Renew(v)
            \/ \E w \in Vectors :
                  CopyAssign(v, w) \/ MoveAssign(v, w) \/ Swap(v, w) \/ RenewCopy(v, w)
            \/ \E n \in 1 .. MaxElements : \/ GrowRefused(v, n) \/ ReserveRefused(v, n)
                                          \/ ResizeRefused(v, n) \/ WriteBeyond(v, n)
            \/ \E w \in Vectors : CopyRefused(v, w)
      BY <2>1 DEF VectorsNext
    <3>. QED
      BY <3>1, PushBackStep, InsertStep, EraseStep, ResizeStep, ReserveStep, ClearStep,
         RenewStep, RefusalStep, CopyRefusedStep, CopyAssignStep, MoveAssignStep, SwapStep,
         RenewCopyStep
  <2>2. CASE UNCHANGED vectorVars
    <3>1. vec' = vec /\ heaps' = heaps /\ ideal' = ideal /\ refused' = refused
      BY <2>2 DEF vectorVars
    <3>. QED
      BY <3>1 DEF VectorsInv
  <2>. QED
    BY <2>1, <2>2
<1>. QED
  BY VectorsStart, <1>1, PTL DEF VectorsSpec

\* For as long as no refusal of host_alloc made the program write past a vector, a
\* vector is the sequence its operations spell, wherever its elements live, its
\* block is nobody else's, and the room it says it has is there.
THEOREM VectorsKeep == VectorsSpec => []VectorsAreSequences
<1>1. VectorsInv => VectorsAreSequences
  <2>. SUFFICES ASSUME VectorsInv PROVE VectorsAreSequences
    OBVIOUS
  <2>1. SpellSequences
    BY DEF VectorsInv, Spells, SpellSequences
  <2>2. ASSUME NEW h \in heaps PROVE Cardinality({v \in Vectors : vec[v].heap = h.id}) = 1
    <3>1. PICK v \in Vectors : vec[v].heap = h.id
      BY DEF VectorsInv
    <3>2. h.id # 0
      BY DEF VectorsInv, BlocksApart, BlockSet
    <3>3. {w \in Vectors : vec[w].heap = h.id} = {v}
      BY <3>1, <3>2 DEF VectorsInv
    <3>. QED
      BY <3>3, FS_Singleton
  <2>3. ASSUME NEW v \in Vectors
        PROVE  vec[v].heap # 0 =>
                  \E h \in heaps : h.id = vec[v].heap /\ Len(h.cells) = vec[v].cap
    BY DEF VectorsInv, Seated, Held
  <2>4. RoomIsThere
    BY DEF VectorsInv, Seated, RoomIsThere
  <2>. QED
    BY <2>1, <2>2, <2>3, <2>4 DEF VectorsAreSequences, OneVectorEach
<1>. QED
  BY <1>1, VectorsInvariant, PTL

=============================================================================
