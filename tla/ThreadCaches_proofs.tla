------------------------- MODULE ThreadCaches_proofs -------------------------
(***************************************************************************)
(* Proofs about ThreadCaches for every set of threads, objects and ids: a  *)
(* cache has one holder at a time, no id leaves with a dead thread, and a  *)
(* new holder does not count under the tag of the one before.              *)
(***************************************************************************)
EXTENDS ThreadCaches, TLAPS

-----------------------------------------------------------------------------
LEMMA Sentinels == NoCache \notin Ids /\ Dying \notin Ids /\ NoCache # Dying
BY IdAssumption DEF NoCache, Dying

LEMMA InitInv == Init => OwnerInv
<1>. SUFFICES ASSUME Init PROVE OwnerInv
  OBVIOUS
<1>1. TypeOK
  BY DEF Init, TypeOK, Slots
<1>2. SoleHolder
  BY Sentinels DEF Init, SoleHolder, HasId
<1>3. Building /\ \A t \in Threads : Placed(t)
  BY Sentinels DEF Init, Building, Placed
<1>. QED
  BY <1>1, <1>2, <1>3 DEF OwnerInv

LEMMA TypeStep == OwnerInv /\ [Next]_vars => TypeOK'
<1>. SUFFICES ASSUME OwnerInv, [Next]_vars PROVE TypeOK'
  OBVIOUS
<1>. USE DEF OwnerInv, TypeOK, Slots, exitvars
<1>1. ASSUME NEW t \in Threads, CacheLoad(t) PROVE TypeOK'
  BY <1>1 DEF CacheLoad, Load
<1>2. ASSUME NEW t \in Threads, NEW o \in Objects, ObjectLoad(t, o) PROVE TypeOK'
  BY <1>2 DEF ObjectLoad, Load
<1>3. ASSUME NEW t \in Threads, NEW o \in Objects, ObjectDestroy(t, o) PROVE TypeOK'
  BY <1>3 DEF ObjectDestroy
<1>4. ASSUME NEW t \in Threads, TakeCas(t) PROVE TypeOK'
  BY <1>4 DEF TakeCas
<1>5. ASSUME NEW t \in Threads, TakeRetry(t) PROVE TypeOK'
  BY <1>5 DEF TakeRetry
<1>6. ASSUME NEW t \in Threads, TakeNone(t) PROVE TypeOK'
  BY <1>6 DEF TakeNone
<1>7. ASSUME NEW t \in Threads, CacheSet(t) PROVE TypeOK'
  <2>1. for[t] = t /\ got[t] \in Ids
    BY <1>7 DEF CacheSet, Adopt, Placed
  <2>2. armed' \in [Threads -> Ids \cup {NoCache}] /\ unheard' \in SUBSET Threads
    <3>1. CASE channel'
      BY <1>7, <2>1, <3>1 DEF CacheSet
    <3>2. CASE ~ channel'
      BY <1>7, <2>1, <3>2 DEF CacheSet
    <3>. QED
      BY <3>1, <3>2
  <2>3. channel' \in BOOLEAN /\ slot' \in [Threads -> Ids \cup {NoCache, Dying}] /\ own' = own
    BY <1>7, <2>1 DEF CacheSet
  <2>4. Adopt(t)
    BY <1>7 DEF CacheSet
  <2>. HIDE DEF exitvars
  <2>. QED
    BY <2>1, <2>2, <2>3, <2>4 DEF Adopt
<1>8. ASSUME NEW t \in Threads, ObjectSet(t) PROVE TypeOK'
  BY <1>8 DEF ObjectSet, Adopt, Placed
<1>9. ASSUME NEW t \in Threads, Die(t) PROVE TypeOK'
  BY <1>9 DEF Die
<1>10. ASSUME NEW t \in Threads, NoticeMark(t) PROVE TypeOK'
  BY <1>10 DEF NoticeMark
<1>11. ASSUME NEW t \in Threads, NoticeGive(t) PROVE TypeOK'
  BY <1>11 DEF NoticeGive, Placed
<1>12. ASSUME NEW t \in Threads, Gone(t) PROVE TypeOK'
  BY <1>12 DEF Gone
<1>13. ASSUME NEW t \in Threads, Label(t) PROVE TypeOK'
  BY <1>13 DEF Label, PushTag, PushFill, PopTag, PopFill, idvars
<1>14. CASE UNCHANGED vars
  BY <1>14 DEF vars, idvars
<1>. QED
  BY <1>1, <1>2, <1>3, <1>4, <1>5, <1>6, <1>7, <1>8, <1>9, <1>10, <1>11, <1>12, <1>13, <1>14
     DEF Next, Step, Exit

(* No step but these four moves an id between holders.                     *)
LEMMA SoleHolderStep == OwnerInv /\ [Next]_vars => SoleHolder'
<1>. SUFFICES ASSUME OwnerInv, [Next]_vars PROVE SoleHolder'
  OBVIOUS
<1>. USE Sentinels DEF OwnerInv, TypeOK, SoleHolder, HasId
<1>4. ASSUME NEW t \in Threads, TakeCas(t) PROVE SoleHolder'
  <2>. PICK i \in Ids : /\ i \in free
                       /\ free' = free \ {i}
                       /\ got' = [got EXCEPT ![t] = i]
    BY <1>4 DEF TakeCas, Lowest
  <2>1. UNCHANGED <<slot, armed, own, life>>
    BY <1>4 DEF TakeCas
  <2>2. got[t] = NoCache
    BY <1>4 DEF TakeCas, Placed
  <2>3. \A u \in Threads, j \in Ids : HasId(u, j)' <=> HasId(u, j) \/ (u = t /\ j = i)
    BY <2>1, <2>2
  <2>4. \A j \in Ids : j \in free' <=> j \in free /\ j # i
    OBVIOUS
  <2>. HIDE DEF HasId
  <2>. QED
    BY <2>1, <2>3, <2>4
<1>7. ASSUME NEW t \in Threads, CacheSet(t) PROVE SoleHolder'
  BY <1>7 DEF CacheSet, Adopt, Placed
<1>8. ASSUME NEW t \in Threads, ObjectSet(t) PROVE SoleHolder'
  <2>. PICK x \in Objects, i \in Ids : x = for[t] /\ i = got[t]
    BY <1>8 DEF ObjectSet, Adopt, Placed
  <2>1. UNCHANGED <<free, slot, armed, life>> /\ got' = [got EXCEPT ![t] = NoCache]
    BY <1>8 DEF ObjectSet, Adopt
  <2>2. own' = [own EXCEPT ![x] = i]
    BY <1>8 DEF ObjectSet
  <2>3. slot[t] # i /\ ~(life[t] = "notice" /\ armed[t] = i)
    BY <1>8 DEF ObjectSet, Adopt, Placed
  <2>. QED
    BY <2>1, <2>2, <2>3
<1>3. ASSUME NEW t \in Threads, NEW o \in Objects, ObjectDestroy(t, o) PROVE SoleHolder'
  BY <1>3 DEF ObjectDestroy
<1>10. ASSUME NEW t \in Threads, NoticeMark(t) PROVE SoleHolder'
  BY <1>10 DEF NoticeMark, Placed
<1>11. ASSUME NEW t \in Threads, NoticeGive(t) PROVE SoleHolder'
  BY <1>11 DEF NoticeGive, Placed
<1>12. ASSUME NEW t \in Threads, Die(t) \/ Gone(t) PROVE SoleHolder'
  BY <1>12 DEF Die, Gone
<1>1. ASSUME NEW t \in Threads, NEW whom, Load(t, whom) PROVE SoleHolder'
  BY <1>1 DEF Load
<1>5. ASSUME NEW t \in Threads, TakeRetry(t) \/ TakeNone(t) PROVE SoleHolder'
  BY <1>5 DEF TakeRetry, TakeNone
<1>13. ASSUME NEW t \in Threads, Label(t) PROVE SoleHolder'
  BY <1>13 DEF Label, PushTag, PushFill, PopTag, PopFill, idvars
<1>14. CASE UNCHANGED vars
  BY <1>14 DEF vars, idvars
<1>. QED
  BY <1>1, <1>3, <1>4, <1>5, <1>7, <1>8, <1>10, <1>11, <1>12, <1>13, <1>14
     DEF Next, Step, Exit, CacheLoad, ObjectLoad

LEMMA BuildingStep == OwnerInv /\ [Next]_vars => Building'
<1>. SUFFICES ASSUME OwnerInv, [Next]_vars PROVE Building'
  OBVIOUS
<1>. USE Sentinels, IdAssumption DEF OwnerInv, TypeOK, Building
<1>1. ASSUME NEW t \in Threads, CacheLoad(t) PROVE Building'
  BY <1>1 DEF CacheLoad, Load
<1>2. ASSUME NEW t \in Threads, NEW o \in Objects, ObjectLoad(t, o) PROVE Building'
  BY <1>2 DEF ObjectLoad, Load
<1>3. ASSUME NEW t \in Threads, NEW o \in Objects, ObjectDestroy(t, o) PROVE Building'
  BY <1>3 DEF ObjectDestroy
<1>4. ASSUME NEW t \in Threads, TakeCas(t) PROVE Building'
  BY <1>4 DEF TakeCas
<1>5. ASSUME NEW t \in Threads, TakeRetry(t) \/ TakeNone(t) PROVE Building'
  BY <1>5 DEF TakeRetry, TakeNone
<1>7. ASSUME NEW t \in Threads, CacheSet(t) PROVE Building'
  BY <1>7 DEF CacheSet, Adopt
<1>8. ASSUME NEW t \in Threads, ObjectSet(t) PROVE Building'
  BY <1>8 DEF ObjectSet, Adopt
<1>9. ASSUME NEW t \in Threads, Die(t) \/ NoticeMark(t) \/ NoticeGive(t) \/ Gone(t)
      PROVE  Building'
  BY <1>9 DEF Die, NoticeMark, NoticeGive, Gone
<1>13. ASSUME NEW t \in Threads, Label(t) PROVE Building'
  BY <1>13 DEF Label, PushTag, PushFill, PopTag, PopFill, idvars
<1>14. CASE UNCHANGED vars
  BY <1>14 DEF vars, idvars
<1>. QED
  BY <1>1, <1>2, <1>3, <1>4, <1>5, <1>7, <1>8, <1>9, <1>13, <1>14 DEF Next, Step, Exit

LEMMA PlacedStep ==
    ASSUME OwnerInv, [Next]_vars, NEW u \in Threads
    PROVE  Placed(u)'
<1>. USE Sentinels, IdAssumption DEF OwnerInv, TypeOK, Placed, exitvars
<1>1. ASSUME NEW t \in Threads, CacheLoad(t) PROVE Placed(u)'
  BY <1>1 DEF CacheLoad, Load
<1>2. ASSUME NEW t \in Threads, NEW o \in Objects, ObjectLoad(t, o) PROVE Placed(u)'
  BY <1>2 DEF ObjectLoad, Load
<1>3. ASSUME NEW t \in Threads, NEW o \in Objects, ObjectDestroy(t, o) PROVE Placed(u)'
  BY <1>3 DEF ObjectDestroy
<1>4. ASSUME NEW t \in Threads, TakeCas(t) PROVE Placed(u)'
  BY <1>4 DEF TakeCas, Lowest, SoleHolder, HasId
<1>5. ASSUME NEW t \in Threads, TakeRetry(t) \/ TakeNone(t) PROVE Placed(u)'
  BY <1>5 DEF TakeRetry, TakeNone
<1>7. ASSUME NEW t \in Threads, CacheSet(t) PROVE Placed(u)'
  BY <1>7 DEF CacheSet, Adopt
<1>8. ASSUME NEW t \in Threads, ObjectSet(t) PROVE Placed(u)'
  BY <1>8 DEF ObjectSet, Adopt
<1>9. ASSUME NEW t \in Threads, Die(t) \/ NoticeMark(t) \/ NoticeGive(t) \/ Gone(t)
      PROVE  Placed(u)'
  BY <1>9 DEF Die, NoticeMark, NoticeGive, Gone
<1>13. ASSUME NEW t \in Threads, Label(t) PROVE Placed(u)'
  BY <1>13 DEF Label, PushTag, PushFill, PopTag, PopFill, idvars
<1>14. CASE UNCHANGED vars
  BY <1>14 DEF vars, idvars
<1>. QED
  BY <1>1, <1>2, <1>3, <1>4, <1>5, <1>7, <1>8, <1>9, <1>13, <1>14 DEF Next, Step, Exit

(* Where each thread can be and what it then holds, for any number of      *)
(* threads, objects and ids.                                               *)
THEOREM OwnerInvariant == Spec => []OwnerInv
<1>1. OwnerInv /\ [Next]_vars => OwnerInv'
  BY TypeStep, SoleHolderStep, BuildingStep, PlacedStep DEF OwnerInv
<1>. QED
  BY InitInv, <1>1, PTL DEF Spec

(* take_cache_id never deals an id that a thread or an object still holds, *)
(* and the exit notice never offers one that is still in use.              *)
THEOREM CachesHaveOneHolder == Spec => []SoleHolder
<1>1. OwnerInv => SoleHolder
  BY DEF OwnerInv
<1>. QED
  BY <1>1, OwnerInvariant, PTL

(* The words of the slots, the ids and the locals of take_cache_id have    *)
(* the shapes the code gives them.                                         *)
THEOREM TypesCorrect == Spec => []TypeOK
<1>1. OwnerInv => TypeOK
  BY DEF OwnerInv
<1>. QED
  BY <1>1, OwnerInvariant, PTL

-----------------------------------------------------------------------------
(* An id that leaves one place is in another by the end of the same step.  *)
LEMMA NoIdLostStep == OwnerInv /\ NoIdLost /\ [Next]_vars => NoIdLost'
<1>. SUFFICES ASSUME OwnerInv, NoIdLost, [Next]_vars, NEW i \in Ids
              PROVE  \/ i \in free'
                     \/ \E o \in Objects : own'[o] = i
                     \/ \E t \in Threads : life'[t] \notin {"late", "gone"} /\ HasId(t, i)'
                     \/ \E t \in unheard' : slot'[t] = i
  BY DEF NoIdLost
<1>. DEFINE Here == \/ i \in free
                    \/ \E o \in Objects : own[o] = i
                    \/ \E t \in Threads : life[t] \notin {"late", "gone"} /\ HasId(t, i)
                    \/ \E t \in unheard : slot[t] = i
<1>0. Here
  BY DEF NoIdLost
<1>. USE Sentinels, IdAssumption, <1>0 DEF OwnerInv, TypeOK, Slots, HasId, exitvars
<1>4. ASSUME NEW t \in Threads, TakeCas(t) PROVE Here'
  <2>. PICK j \in Ids : free' = free \ {j} /\ got' = [got EXCEPT ![t] = j]
    BY <1>4 DEF TakeCas
  <2>1. UNCHANGED <<slot, armed, own, life, unheard>> /\ life[t] = "alive" /\ got[t] \notin Ids
    BY <1>4 DEF TakeCas, Placed
  <2>2. CASE i = j
    BY <2>1, <2>2
  <2>3. CASE i # j
    BY <2>1, <2>3
  <2>. QED
    BY <2>2, <2>3
<1>7. ASSUME NEW t \in Threads, CacheSet(t) PROVE Here'
  <2>1. /\ UNCHANGED <<free, own, life>>
        /\ slot' = [slot EXCEPT ![t] = got[t]]
        /\ armed' = [armed EXCEPT ![t] = got[t]] \/ armed' = armed
        /\ unheard \subseteq unheard'
        /\ got' = [got EXCEPT ![t] = NoCache]
    BY <1>7 DEF CacheSet, Adopt
  <2>2. life[t] = "alive" /\ slot[t] = NoCache /\ armed[t] = NoCache /\ t \notin unheard
    BY <1>7 DEF CacheSet, Adopt, Placed
  <2>. QED
    BY <2>1, <2>2
<1>8. ASSUME NEW t \in Threads, ObjectSet(t) PROVE Here'
  <2>. PICK x \in Objects : x = for[t]
    BY <1>8 DEF ObjectSet
  <2>1. /\ UNCHANGED <<free, slot, armed, life, unheard>>
        /\ own' = [own EXCEPT ![x] = got[t]]
        /\ got' = [got EXCEPT ![t] = NoCache]
    BY <1>8 DEF ObjectSet, Adopt
  <2>2. own[x] = NoCache
    BY <1>8 DEF ObjectSet, Adopt, Building
  <2>. QED
    BY <2>1, <2>2
<1>3. ASSUME NEW t \in Threads, NEW o \in Objects, ObjectDestroy(t, o) PROVE Here'
  BY <1>3 DEF ObjectDestroy
<1>10. ASSUME NEW t \in Threads, NoticeMark(t) PROVE Here'
  BY <1>10 DEF NoticeMark, Placed
<1>11. ASSUME NEW t \in Threads, NoticeGive(t) PROVE Here'
  BY <1>11 DEF NoticeGive, Placed
<1>12. ASSUME NEW t \in Threads, Gone(t) PROVE Here'
  BY <1>12 DEF Gone, Placed
<1>9. ASSUME NEW t \in Threads, Die(t) PROVE Here'
  BY <1>9 DEF Die
<1>1. ASSUME NEW t \in Threads, NEW whom, Load(t, whom) PROVE Here'
  BY <1>1 DEF Load
<1>5. ASSUME NEW t \in Threads, TakeRetry(t) \/ TakeNone(t) PROVE Here'
  BY <1>5 DEF TakeRetry, TakeNone
<1>13. ASSUME NEW t \in Threads, Label(t) PROVE Here'
  BY <1>13 DEF Label, PushTag, PushFill, PopTag, PopFill, idvars
<1>14. CASE UNCHANGED vars
  BY <1>14 DEF vars, idvars
<1>. QED
  BY <1>1, <1>3, <1>4, <1>5, <1>7, <1>8, <1>9, <1>10, <1>11, <1>12, <1>13, <1>14
     DEF Next, Step, Exit, CacheLoad, ObjectLoad

(* The notice gives back what it took from the slot and an object what it  *)
(* was built with.  A thread torn down without a notice had nothing, or    *)
(* stored its cache while the system refused the exit channel, and takes   *)
(* that one id with it: no other id leaves with a dead thread.             *)
THEOREM NoIdIsLost == Spec => []NoIdLost
<1>1. Init => NoIdLost
  BY DEF Init, NoIdLost
<1>. QED
  BY <1>1, NoIdLostStep, OwnerInvariant, PTL DEF Spec

-----------------------------------------------------------------------------
(* A tag is written by the holder of the cache alone, and cleared before a *)
(* cache has a new one.                                                    *)
LEMMA TagStep == OwnerInv /\ TagIsOwn /\ [Next]_vars => TagIsOwn'
<1>. SUFFICES ASSUME OwnerInv, TagIsOwn, [Next]_vars,
                     NEW u \in Threads, slot'[u] \in Ids
              PROVE  tag'[slot'[u]] \in {NoOne, u}
  BY DEF TagIsOwn
<1>. DEFINE Good == tag[slot[u]] \in {NoOne, u}
<1>. USE Sentinels, IdAssumption DEF OwnerInv, TypeOK, Slots, TagIsOwn
<1>7. ASSUME NEW t \in Threads, CacheSet(t) PROVE Good'
  <2>1. /\ slot' = [slot EXCEPT ![t] = got[t]]
        /\ tag' = [tag EXCEPT ![got[t]] = NoOne]
        /\ got[t] \in Ids
    BY <1>7 DEF CacheSet, Adopt, Placed
  <2>. QED
    BY <2>1
<1>8. ASSUME NEW t \in Threads, ObjectSet(t) PROVE Good'
  <2>1. slot' = slot /\ tag' = [tag EXCEPT ![got[t]] = NoOne] /\ got[t] \in Ids
    BY <1>8 DEF ObjectSet, Adopt, Placed
  <2>. QED
    BY <2>1
<1>10. ASSUME NEW t \in Threads, NoticeMark(t) PROVE Good'
  BY <1>10 DEF NoticeMark
<1>13. ASSUME NEW t \in Threads, PushTag(t) PROVE Good'
  <2>1. slot' = slot /\ slot[t] \in Ids /\ tag' = [tag EXCEPT ![slot[t]] = t]
    BY <1>13 DEF PushTag, idvars
  <2>2. slot[u] = slot[t] => u = t
    BY <2>1 DEF SoleHolder, HasId
  <2>. QED
    BY <2>1, <2>2
<1>15. ASSUME NEW t \in Threads, PopTag(t) PROVE Good'
  BY <1>15 DEF PopTag, idvars
<1>16. ASSUME NEW t \in Threads, PushFill(t) \/ PopFill(t) PROVE Good'
  BY <1>16 DEF PushFill, PopFill, idvars
<1>1. ASSUME NEW t \in Threads, NEW whom, Load(t, whom) PROVE Good'
  BY <1>1 DEF Load
<1>2. ASSUME NEW t \in Threads, TakeCas(t) \/ TakeRetry(t) \/ TakeNone(t) PROVE Good'
  BY <1>2 DEF TakeCas, TakeRetry, TakeNone
<1>3. ASSUME NEW t \in Threads, NEW o \in Objects, ObjectDestroy(t, o) PROVE Good'
  BY <1>3 DEF ObjectDestroy
<1>9. ASSUME NEW t \in Threads, Die(t) \/ NoticeGive(t) \/ Gone(t) PROVE Good'
  BY <1>9 DEF Die, NoticeGive, Gone
<1>14. CASE UNCHANGED vars
  BY <1>14 DEF vars, idvars
<1>. QED
  BY <1>1, <1>2, <1>3, <1>7, <1>8, <1>9, <1>10, <1>13, <1>14, <1>15, <1>16
     DEF Next, Step, Exit, Label, CacheLoad, ObjectLoad

(* The holder of a cache counts under its own tag, or none: what the last  *)
(* one declared is cleared with the id, and nobody else writes there.      *)
THEOREM TagsAreOwn == Spec => []TagIsOwn
<1>1. Init => TagIsOwn
  BY Sentinels DEF Init, TagIsOwn
<1>. QED
  BY <1>1, TagStep, OwnerInvariant, PTL DEF Spec
=============================================================================
