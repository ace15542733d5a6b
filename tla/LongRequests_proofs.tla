------------------------- MODULE LongRequests_proofs -------------------------
(***************************************************************************)
(* Proofs about LongRequests and, in it, about FirstUse, for any number of  *)
(* threads, addresses and slots: whoever goes on finds the allocator ready, *)
(* and the table of direct blocks stays exact under calls that also fall    *)
(* back to the region.                                                      *)
(***************************************************************************)
EXTENDS LongRequests, TLAPS

DP == INSTANCE DirectBlocks_proofs WITH pc <- dpc

-----------------------------------------------------------------------------
(* First use. *)
LEMMA FirstInit == Init => FirstInv
<1>. SUFFICES ASSUME Init PROVE FirstInv
  OBVIOUS
<1>0. classes \in BOOLEAN
  BY Zenon DEF Init
<1>1. TypeOK
  BY <1>0 DEF Init, TypeOK
<1>2. ServedIsReady /\ Making
  BY DEF Init, ServedIsReady, Making, Maker
<1>. QED
  BY <1>1, <1>2 DEF FirstInv

(* allocator_active: who reads "in force" reads it after the class table.   *)
LEMMA ActiveStep ==
    ASSUME FirstInv, NEW t \in Threads, ActiveLoad(t) \/ Again(t)
    PROVE  FirstInv'
<1>. USE DEF FirstInv, TypeOK, Step
<1>1. UNCHANGED <<active, classes, region, base, reserved>>
  BY DEF ActiveLoad, Again
<1>2. PICK s \in {"decide", "region", "refused", "start"} :
         /\ pc' = [pc EXCEPT ![t] = s]
         /\ s = "region" => active = 1
  BY DEF ActiveLoad, Again
<1>3. s = "region" => classes
  BY <1>2 DEF Making
<1>4. TypeOK'
  BY <1>1, <1>2
<1>5. ServedIsReady'
  BY <1>1, <1>2, <1>3 DEF ServedIsReady
<1>6. Making'
  BY <1>1, <1>2 DEF Making, Maker
<1>. QED
  BY <1>4, <1>5, <1>6

(* The steps that decide the allocator is in force.                         *)
LEMMA DecideStep ==
    ASSUME FirstInv, NEW t \in Threads, Decide(t) \/ BuildClasses(t) \/ Open(t)
    PROVE  FirstInv'
<1>. USE DEF FirstInv, TypeOK, Step
<1>0. classes' \in BOOLEAN
  BY Zenon DEF Decide, BuildClasses, Open
<1>1. TypeOK'
  BY <1>0 DEF Decide, BuildClasses, Open
<1>2. ServedIsReady'
  BY DEF Decide, BuildClasses, Open, ServedIsReady
<1>3. Making'
  BY DEF Decide, BuildClasses, Open, Making, Maker, ServedIsReady
<1>. QED
  BY <1>1, <1>2, <1>3

(* ensure_region: one thread claims it, and what it publishes it has set.   *)
LEMMA RegionStep ==
    ASSUME FirstInv, NEW t \in Threads,
           \/ RegionLoad(t) \/ Claim(t) \/ Reserve(t) \/ ReserveRefused(t)
           \/ SetBase(t) \/ Publish(t) \/ Wait(t)
    PROVE  FirstInv'
<1>. USE DEF FirstInv, TypeOK, Step
<1>1. CASE RegionLoad(t) \/ Wait(t)
  BY <1>1 DEF RegionLoad, Wait, Outcome, ServedIsReady, Making, Maker
<1>2. CASE Claim(t)
  <2>1. CASE region = 0
    BY <1>2, <2>1 DEF Claim, ServedIsReady, Making, Maker
  <2>2. CASE region # 0
    BY <1>2, <2>2 DEF Claim, ServedIsReady, Making, Maker
  <2>. QED
    BY <2>1, <2>2
<1>3. CASE Reserve(t)
  BY <1>3 DEF Reserve, ServedIsReady, Making, Maker
<1>4. CASE ReserveRefused(t)
  BY <1>4 DEF ReserveRefused, ServedIsReady, Making, Maker
<1>5. CASE SetBase(t)
  BY <1>5 DEF SetBase, ServedIsReady, Making, Maker
<1>6. CASE Publish(t)
  BY <1>6 DEF Publish, ServedIsReady, Making, Maker
<1>. QED
  BY <1>1, <1>2, <1>3, <1>4, <1>5, <1>6

LEMMA CallStep == ASSUME FirstInv, NEW t \in Threads, Call(t) PROVE FirstInv'
BY DecideStep, RegionStep DEF Call

LEMMA FirstStutter == ASSUME FirstInv, UNCHANGED vars PROVE FirstInv'
BY DEF FirstInv, vars, TypeOK, ServedIsReady, Making, Maker

(* A request that the system served has nothing more to ask.                *)
LEMMA EnterFirst ==
    ASSUME FirstInv, NEW t \in Threads, Step(t, "start"),
           UNCHANGED <<active, classes, region, base, reserved>>
    PROVE  FirstInv'
BY DEF FirstInv, TypeOK, Step, ServedIsReady, Making, Maker

(* First use by itself: whichever thread made the region, and in whatever   *)
(* order the others came, a thread that goes on finds it ready.             *)
THEOREM FirstInvariant == Spec => []FirstInv
<1>1. FirstInv /\ [Next]_vars => FirstInv'
  BY ActiveStep, CallStep, FirstStutter DEF Next
<1>. QED
  BY FirstInit, <1>1, PTL DEF Spec

-----------------------------------------------------------------------------
(* DirectBlocks is here twice, with its proofs and as LongRequests has it.  *)
LEMMA SameInv == (D!TableInv <=> DP!TableInv) /\ (D!TableInv' <=> DP!TableInv')
BY DEF D!TableInv, D!TypeOK, D!InHand, D!Listed, D!NoMappingLost,
       DP!TableInv, DP!TypeOK, DP!InHand, DP!Listed, DP!NoMappingLost

LEMMA SameStep == [D!Next]_dvars => [DP!Next]_(DP!vars)
<1>1. ASSUME NEW t \in Threads
      PROVE  /\ D!Map(t) <=> DP!Map(t)
             /\ D!Register(t) <=> DP!Register(t)
             /\ D!RegisterFull(t) <=> DP!RegisterFull(t)
             /\ D!Unmap(t) <=> DP!Unmap(t)
             /\ D!Free(t) <=> DP!Free(t)
             /\ D!DirectTake(t) <=> DP!DirectTake(t)
  BY DEF D!Map, D!Register, D!RegisterFull, D!Unmap, D!Free, D!DirectTake,
         DP!Map, DP!Register, DP!RegisterFull, DP!Unmap, DP!Free, DP!DirectTake,
         D!Go, DP!Go, D!Full, DP!Full, D!Slot, DP!Slot, D!HoleFilled, DP!HoleFilled
<1>. QED
  BY <1>1 DEF D!Next, DP!Next, dvars, DP!vars

(* Each step is one of DirectBlocks' or leaves it alone.                    *)
LEMMA LongTable == ASSUME D!TableInv, [LNext]_lvars PROVE D!TableInv'
<1>1. [D!Next]_dvars
  BY DEF LNext, Begin, Answer, AskSystem, Enter, TableFull, Release, FreeLong, D!Next,
         lvars, dvars
<1>. QED
  BY <1>1, LongAssumption, SameInv, SameStep, DP!TableStep

(* A request leaves the first use of the region alone, but for where its    *)
(* thread is once the system has served it.                                 *)
LEMMA LongFirst == ASSUME FirstInv, [LNext]_lvars PROVE FirstInv'
<1>1. ASSUME NEW t \in Threads, Begin(t) \/ Answer(t) PROVE FirstInv'
  BY <1>1, ActiveStep, CallStep DEF Begin, Answer
<1>2. ASSUME NEW t \in Threads, Enter(t) PROVE FirstInv'
  BY <1>2, EnterFirst DEF Enter
<1>3. ASSUME NEW t \in Threads, AskSystem(t) \/ TableFull(t) \/ Release(t) \/ FreeLong(t)
      PROVE  FirstInv'
  BY <1>3, FirstStutter DEF AskSystem, TableFull, Release, FreeLong
<1>4. CASE UNCHANGED lvars
  BY <1>4, FirstStutter DEF lvars
<1>. QED
  BY <1>1, <1>2, <1>3, <1>4 DEF LNext

(* A thread refused by the system goes on in ensure_region, and one inside  *)
(* a step of DirectBlocks has not been refused.                             *)
LEMMA AskingStep ==
    ASSUME LongInv, [LNext]_lvars
    PROVE  Asking' /\ refused' \subseteq {t \in Threads : pc'[t] = "region"}
<1>. DEFINE Waits == refused \subseteq {t \in Threads : pc[t] = "region"}
<1>0. TypeOK /\ D!TypeOK /\ Asking /\ Waits
  BY DEF LongInv, LTypeOK
<1>. USE <1>0 DEF TypeOK, D!TypeOK, Asking, Step, Outside
<1>1. ASSUME NEW t \in Threads, Begin(t) PROVE (Asking /\ Waits)'
  <2>. PICK s : pc' = [pc EXCEPT ![t] = s]
    BY <1>1 DEF Begin, ActiveLoad, Again
  <2>1. pc[t] # "region" /\ dpc[t] = "idle" /\ UNCHANGED <<dpc, refused>>
    BY <1>1 DEF Begin, ActiveLoad, Again, dvars
  <2>. QED
    BY <2>1
<1>2. ASSUME NEW t \in Threads, Answer(t) PROVE (Asking /\ Waits)'
  <2>. PICK s : pc' = [pc EXCEPT ![t] = s]
    BY <1>2 DEF Answer, Call, Decide, BuildClasses, Open, RegionLoad, Claim, Reserve,
                ReserveRefused, SetBase, Publish, Wait
  <2>1. dpc[t] = "idle" /\ dpc' = dpc /\ refused' = refused \ {t}
    BY <1>2 DEF Answer, dvars
  <2>. QED
    BY <2>1
<1>3. ASSUME NEW t \in Threads, AskSystem(t) PROVE (Asking /\ Waits)'
  BY <1>3 DEF AskSystem, D!Map, D!Go, dvars, vars
<1>4. ASSUME NEW t \in Threads, Enter(t) PROVE (Asking /\ Waits)'
  BY <1>4 DEF Enter, D!Register, D!Go
<1>5. ASSUME NEW t \in Threads, TableFull(t) PROVE (Asking /\ Waits)'
  BY <1>5 DEF TableFull, D!RegisterFull, D!Go, vars
<1>6. ASSUME NEW t \in Threads, Release(t) PROVE (Asking /\ Waits)'
  BY <1>6 DEF Release, D!Unmap, D!Go, vars
<1>7. ASSUME NEW t \in Threads, FreeLong(t) PROVE (Asking /\ Waits)'
  BY <1>7 DEF FreeLong, D!Free, D!DirectTake, D!Go, vars
<1>8. CASE UNCHANGED lvars
  BY <1>8 DEF lvars, vars, dvars
<1>. QED
  BY <1>1, <1>2, <1>3, <1>4, <1>5, <1>6, <1>7, <1>8 DEF LNext

LEMMA LongInit == LInit => LongInv
<1>. SUFFICES ASSUME LInit PROVE LongInv
  OBVIOUS
<1>1. FirstInv
  BY FirstInit DEF LInit
<1>2. D!TableInv
  <2>1. DP!Init
    BY DEF LInit, D!Init, DP!Init
  <2>. QED
    BY <2>1, LongAssumption, SameInv, DP!InitTable
<1>3. Asking /\ refused = {}
  BY DEF LInit, D!Init, Asking
<1>. QED
  BY <1>1, <1>2, <1>3 DEF LongInv, LTypeOK, FirstInv, D!TableInv

(* The whole: first use, the table, and where a request is between them.    *)
THEOREM LongInvariant == LSpec => []LongInv
<1>1. LongInv /\ [LNext]_lvars => LongInv'
  BY LongFirst, LongTable, AskingStep DEF LongInv, LTypeOK, FirstInv, D!TableInv
<1>. QED
  BY LongInit, <1>1, PTL DEF LSpec

(* The table is never written past its slots, the region reserved once.     *)
THEOREM LongTypes == LSpec => []LTypeOK
<1>1. LongInv => LTypeOK
  BY DEF LongInv
<1>. QED
  BY <1>1, LongInvariant, PTL

(* Whoever goes on to cut chunks finds the class table and the bounds of    *)
(* the region in place, whichever thread made them and however long the     *)
(* system took with the requests of the others.                             *)
THEOREM RegionIsReady == LSpec => []ServedIsReady
<1>1. LongInv => ServedIsReady
  BY DEF LongInv, FirstInv
<1>. QED
  BY <1>1, LongInvariant, PTL

(* The table has exactly the blocks handed out and not yet taken back, each *)
(* once and each mapped, for any number of slots and of threads.            *)
THEOREM TableStaysExact == LSpec => []TableIsExact
<1>1. LongInv => TableIsExact
  <2>1. DP!TableInv => DP!TableIsExact
    BY DP!ExactTable
  <2>2. DP!TableIsExact => D!TableIsExact
    BY DEF DP!TableIsExact, D!TableIsExact, DP!Slot, D!Slot
  <2>. QED
    BY <2>1, <2>2, SameInv DEF LongInv, TableIsExact
<1>. QED
  BY <1>1, LongInvariant, PTL

(* What the system has mapped is a block, or in the hands of one call.      *)
THEOREM MappingsAreKept == LSpec => []NoMappingLost
<1>1. LongInv => NoMappingLost
  BY DEF LongInv, D!TableInv, NoMappingLost
<1>. QED
  BY <1>1, LongInvariant, PTL
=============================================================================
