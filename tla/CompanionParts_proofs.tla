------------------------ MODULE CompanionParts_proofs -------------------------
(***************************************************************************)
(* Proofs about four of the parts that Companions puts side by side, each   *)
(* for every value of its constants.  SpanStack: the links spell the        *)
(* stacks, no span is in two places, and the lock-free stacks implement     *)
(* ParkedSpans.  RegionPages: what is given near an address is of one       *)
(* holder and reachable from there.  ScratchArenas: what a phase borrowed   *)
(* is its own until its mark is gone back to.  AllocSites: what the report  *)
(* says of a site was noted down for it, the merged list included.          *)
(***************************************************************************)
EXTENDS SpanStack, RegionPages, ScratchArenas, AllocSites, TLAPS, SequenceTheorems,
        FiniteSetTheorems, WellFoundedInduction, NaturalsInduction

-----------------------------------------------------------------------------
(* What putting a span on top of a stack does to its places. *)
LEMMA PushTop ==
    ASSUME NEW S, NEW q \in Seq(S), NEW x \in S
    PROVE  /\ <<x>> \o q \in Seq(S)
           /\ Len(<<x>> \o q) = Len(q) + 1
           /\ (<<x>> \o q)[1] = x
           /\ \A i \in 1 .. Len(q) : (<<x>> \o q)[i + 1] = q[i]
           /\ \A i \in 2 .. Len(q) + 1 : (<<x>> \o q)[i] = q[i - 1]
<1>1. <<x>> \in Seq(S) /\ Len(<<x>>) = 1 /\ <<x>>[1] = x
  OBVIOUS
<1>2. Len(q) \in Nat
  BY LenProperties
<1>. QED
  BY <1>1, <1>2, ConcatProperties

(* What taking the top of a stack does to its places. *)
LEMMA PopTop ==
    ASSUME NEW S, NEW q \in Seq(S), Len(q) > 0
    PROVE  /\ Below(q) \in Seq(S)
           /\ Len(Below(q)) = Len(q) - 1
           /\ \A i \in 1 .. Len(q) - 1 : Below(q)[i] = q[i + 1]
           /\ Head(q) = q[1]
BY HeadTailProperties, EmptySeq DEF Below

-----------------------------------------------------------------------------
LEMMA AnyStackType == AnyStack \in Stacks
BY StackAssumption DEF AnyStack

LEMMA HeadTypes ==
    /\ Head0 \in Heads
    /\ \A x \in Spans \cup {None}, tag \in 0 .. TagMod - 1 : [idx |-> x, tag |-> tag] \in Heads
    /\ \A h \in Heads : h.idx \in Spans \cup {None} /\ h.tag \in 0 .. TagMod - 1
    /\ None \notin Spans
    /\ 0 \in 0 .. TagMod - 1
BY StackAssumption DEF Head0, Heads, None

LEMMA BumpType == \A tag \in 0 .. TagMod - 1 : Bump(tag) \in 0 .. TagMod - 1
BY StackAssumption DEF Bump

LEMMA BumpAfter ==
    \A tag \in 0 .. TagMod - 1, w \in 0 .. TagMod - 2 :
        Bump(TagAfter(tag, w)) = TagAfter(tag, w + 1)
BY StackAssumption DEF Bump, TagAfter

LEMMA InitInv == Init => StackInv
<1>. SUFFICES ASSUME Init PROVE StackInv
  OBVIOUS
<1>1. TypeOK
  BY AnyStackType, HeadTypes, EmptySeq DEF Init, TypeOK
<1>2. Linked
  BY DEF Init, Linked, At, Head0
<1>3. Exclusive
  BY DEF Init, Exclusive
<1>4. \A t \in Threads : Pushing(t) /\ Reading(t) /\ Popping(t)
  BY DEF Init, Pushing, Reading, Popping
<1>. QED
  BY <1>1, <1>2, <1>3, <1>4 DEF StackInv

LEMMA AgeType ==
    ASSUME TypeOK, NEW t \in Threads, WindowOpen(t)
    PROVE  Age(t) \in [Threads -> 0 .. TagMod - 1]
<1>1. SUFFICES ASSUME NEW u \in Threads
               PROVE  (IF u = t THEN 0
                       ELSE IF pc[u] # "idle" /\ stk[u] = stk[t] THEN window[u] + 1
                       ELSE window[u]) \in 0 .. TagMod - 1
  BY DEF Age
<1>2. window[u] \in 0 .. TagMod - 1
  BY DEF TypeOK
<1>3. CASE u # t /\ pc[u] # "idle" /\ stk[u] = stk[t]
  <2>1. window[u] < TagMod - 1
    BY <1>3 DEF WindowOpen
  <2>. QED
    BY <1>2, <1>3, <2>1, StackAssumption
<1>4. CASE u = t
  BY <1>4, HeadTypes
<1>5. CASE u # t /\ ~(pc[u] # "idle" /\ stk[u] = stk[t])
  BY <1>2, <1>5
<1>. QED
  BY <1>3, <1>4, <1>5

(* Every step keeps the types. *)
LEMMA TypeStep == StackInv /\ [Next]_vars => TypeOK'
<1>. SUFFICES ASSUME StackInv, [Next]_vars PROVE TypeOK'
  OBVIOUS
<1>. USE AnyStackType, BumpType, HeadTypes DEF StackInv, TypeOK, Busy
<1>1. ASSUME NEW t \in Threads, NEW s \in Stacks, NEW x \in Spans, PushLoad(t, s, x)
      PROVE  TypeOK'
  BY <1>1 DEF PushLoad
<1>2. ASSUME NEW t \in Threads, NEW s \in Stacks, PopLoad(t, s)
      PROVE  TypeOK'
  BY <1>2 DEF PopLoad
<1>3. ASSUME NEW t \in Threads, PushLink(t)
      PROVE  TypeOK'
  BY <1>3 DEF PushLink
<1>4. ASSUME NEW t \in Threads, PushCas(t)
      PROVE  TypeOK'
  <2>1. item[t] \in Spans
    BY <1>4 DEF Pushing, PushCas
  <2>2. content' \in [Stacks -> Seq(Spans)]
    BY <1>4, <2>1, PushTop DEF PushCas
  <2>3. window' \in [Threads -> 0 .. TagMod - 1]
    BY <1>4, AgeType DEF PushCas
  <2>. QED
    BY <1>4, <2>1, <2>2, <2>3 DEF PushCas, Return
<1>5. ASSUME NEW t \in Threads, PopCas(t)
      PROVE  TypeOK'
  <2>1. old[t].idx \in Spans
    BY <1>5 DEF Popping, PopCas
  <2>2. Len(content[stk[t]]) > 0
    BY <1>5, <2>1, LenProperties DEF PopCas, Linked, At
  <2>3. content' \in [Stacks -> Seq(Spans)]
    BY <1>5, <2>2, PopTop DEF PopCas
  <2>4. window' \in [Threads -> 0 .. TagMod - 1]
    BY <1>5, AgeType DEF PopCas
  <2>. QED
    BY <1>5, <2>1, <2>3, <2>4 DEF PopCas, Return
<1>6. ASSUME NEW t \in Threads, PushRetry(t) \/ PopRetry(t)
      PROVE  TypeOK'
  <2>1. PICK step \in Busy : Reload(t, step)
    BY <1>6 DEF PushRetry, PopRetry
  <2>2. head[stk[t]] \in Heads
    OBVIOUS
  <2>. QED
    BY <2>1, <2>2 DEF Reload
<1>7. ASSUME NEW t \in Threads, PopEmpty(t)
      PROVE  TypeOK'
  BY <1>7 DEF PopEmpty, Return
<1>8. ASSUME NEW t \in Threads, PopNext(t)
      PROVE  TypeOK'
  BY <1>8 DEF PopNext
<1>9. CASE UNCHANGED vars
  BY <1>9 DEF vars
<1>. QED
  BY <1>1, <1>2, <1>3, <1>4, <1>5, <1>6, <1>7, <1>8, <1>9 DEF Next, Push, Pop
-----------------------------------------------------------------------------
(* The steps that touch the stacks, and what every other step leaves alone. *)
LEMMA QuietStep ==
    ASSUME [Next]_vars,
           ~ \E t \in Threads : PushLink(t) \/ PushCas(t) \/ PopCas(t)
    PROVE  UNCHANGED <<head, next, held, content>>
BY DEF Next, Push, Pop, vars, PushLoad, PopLoad, PushRetry, PopRetry, Reload,
       PopEmpty, PopNext

(* A span about to be pushed is on no stack and in one pair of hands. *)
LEMMA PushedSpan ==
    ASSUME StackInv, NEW t \in Threads, pc[t] \in {"pushLink", "pushCas"}
    PROVE  /\ item[t] \in Spans
           /\ item[t] \in held[t]
           /\ \A s \in Stacks : \A i \in 1 .. Len(content[s]) : content[s][i] # item[t]
<1>1. item[t] \in held[t]
  BY DEF StackInv, Pushing
<1>2. item[t] \in Spans
  BY <1>1 DEF StackInv, TypeOK
<1>3. \A s \in Stacks : \A i \in 1 .. Len(content[s]) : content[s][i] # item[t]
  BY <1>1 DEF StackInv, Exclusive
<1>. QED
  BY <1>1, <1>2, <1>3

(* A pop whose exchange succeeds takes the top, and puts the one below. *)
LEMMA PoppedSpan ==
    ASSUME StackInv, NEW t \in Threads, PopCas(t)
    PROVE  /\ Len(content[stk[t]]) > 0
           /\ old[t].idx = content[stk[t]][1]
           /\ old[t].idx \in Spans
           /\ link[t] = At(stk[t], 2)
           /\ window[t] = 0
<1>. USE DEF StackInv, TypeOK
<1>1. old[t].idx # None /\ old[t].idx \in Spans /\ head[stk[t]] = old[t]
  BY HeadTypes DEF PopCas, Popping
<1>2. Len(content[stk[t]]) \in Nat
  BY LenProperties
<1>3. Len(content[stk[t]]) > 0 /\ old[t].idx = content[stk[t]][1]
  BY <1>1, <1>2 DEF Linked, At
<1>4. window[t] = 0
  <2>1. head[stk[t]].tag = TagAfter(old[t].tag, window[t])
    BY DEF PopCas, Reading
  <2>2. old[t].tag \in 0 .. TagMod - 1 /\ window[t] \in 0 .. TagMod - 1
    BY HeadTypes
  <2>. QED
    BY <1>1, <2>1, <2>2, StackAssumption DEF TagAfter
<1>5. link[t] = next[old[t].idx]
  BY <1>4 DEF PopCas, Popping
<1>6. next[content[stk[t]][1]] = At(stk[t], 2)
  <2>1. \A i \in 1 .. Len(content[stk[t]]) : next[content[stk[t]][i]] = At(stk[t], i + 1)
    BY DEF Linked
  <2>2. 1 \in 1 .. Len(content[stk[t]]) /\ 1 + 1 = 2
    BY <1>2, <1>3
  <2>. QED
    BY <2>1, <2>2
<1>. QED
  BY <1>1, <1>3, <1>4, <1>5, <1>6

LEMMA LinkedStep == StackInv /\ [Next]_vars => Linked'
<1>. SUFFICES ASSUME StackInv, [Next]_vars PROVE Linked'
  OBVIOUS
<1>1. ASSUME NEW t \in Threads, PushLink(t)
      PROVE  Linked'
  <2>1. \A s \in Stacks : \A i \in 1 .. Len(content[s]) : content[s][i] # item[t]
    BY <1>1, PushedSpan DEF PushLink
  <2>2. \A s \in Stacks : \A i \in 1 .. Len(content[s]) :
          next'[content[s][i]] = next[content[s][i]]
    BY <1>1, <2>1, ElementOfSeq DEF PushLink, StackInv, TypeOK
  <2>. QED
    BY <1>1, <2>2 DEF PushLink, StackInv, Linked, At
<1>2. ASSUME NEW t \in Threads, PushCas(t)
      PROVE  Linked'
  <2>. PICK s \in Stacks : s = stk[t]
    BY DEF StackInv, TypeOK
  <2>. DEFINE q == content[s]  x == item[t]
  <2>0. s \in Stacks /\ q \in Seq(Spans) /\ x \in Spans /\ Len(q) \in Nat
    BY <1>2, PushedSpan, LenProperties DEF PushCas, StackInv, TypeOK
  <2>1. /\ content' = [content EXCEPT ![s] = <<x>> \o q]
        /\ head' = [head EXCEPT ![s] = [idx |-> x, tag |-> Bump(old[t].tag)]]
        /\ next' = next
    BY <1>2 DEF PushCas
  <2>2. next[x] = At(s, 1)
    BY <1>2 DEF PushCas, StackInv, Pushing, Linked
  <2>3. ASSUME NEW r \in Stacks, r # s
        PROVE  /\ head'[r].idx = At(r, 1)'
               /\ \A i \in 1 .. Len(content'[r]) : next'[content'[r][i]] = At(r, i + 1)'
    <3>1. content'[r] = content[r] /\ head'[r] = head[r] /\ next' = next
      BY <2>1, <2>3 DEF StackInv, TypeOK
    <3>. QED
      BY <3>1 DEF StackInv, Linked, At
  <2>4. content'[s] = <<x>> \o q /\ head'[s].idx = x
    BY <2>0, <2>1 DEF StackInv, TypeOK
  <2>5. head'[s].idx = At(s, 1)'
    BY <2>0, <2>4, PushTop DEF At
  <2>6. ASSUME NEW i \in 1 .. Len(content'[s])
        PROVE  next'[content'[s][i]] = At(s, i + 1)'
    <3>0. Len(content'[s]) = Len(q) + 1
      BY <2>0, <2>4, PushTop
    <3>1. CASE i = 1
      <4>1. content'[s][i] = x
        BY <2>0, <2>4, <3>1, PushTop
      <4>2. At(s, i + 1)' = At(s, 1)
        BY <2>0, <2>4, <3>0, <3>1, PushTop DEF At
      <4>. QED
        BY <2>1, <2>2, <4>1, <4>2
    <3>2. CASE i # 1
      <4>1. i - 1 \in 1 .. Len(q) /\ content'[s][i] = q[i - 1]
        BY <2>0, <2>4, <3>0, <3>2, PushTop
      <4>2. next[q[i - 1]] = At(s, i)
        BY <2>0, <4>1 DEF StackInv, Linked
      <4>3. At(s, i + 1)' = At(s, i)
        BY <2>0, <2>4, <3>0, <4>1, PushTop DEF At
      <4>. QED
        BY <2>1, <4>1, <4>2, <4>3
    <3>. QED
      BY <3>1, <3>2
  <2>. QED
    BY <2>3, <2>5, <2>6 DEF Linked
<1>3. ASSUME NEW t \in Threads, PopCas(t)
      PROVE  Linked'
  <2>. PICK s \in Stacks : s = stk[t]
    BY DEF StackInv, TypeOK
  <2>. DEFINE q == content[s]
  <2>0. s \in Stacks /\ q \in Seq(Spans) /\ Len(q) > 0 /\ Len(q) \in Nat
    BY <1>3, PoppedSpan, LenProperties DEF PopCas, StackInv, TypeOK
  <2>1. /\ content' = [content EXCEPT ![s] = Below(q)]
        /\ head' = [head EXCEPT ![s] = [idx |-> link[t], tag |-> Bump(old[t].tag)]]
        /\ next' = next
    BY <1>3 DEF PopCas
  <2>2. link[t] = At(s, 2)
    BY <1>3, PoppedSpan
  <2>3. ASSUME NEW r \in Stacks, r # s
        PROVE  /\ head'[r].idx = At(r, 1)'
               /\ \A i \in 1 .. Len(content'[r]) : next'[content'[r][i]] = At(r, i + 1)'
    <3>1. content'[r] = content[r] /\ head'[r] = head[r] /\ next' = next
      BY <2>1, <2>3 DEF StackInv, TypeOK
    <3>. QED
      BY <3>1 DEF StackInv, Linked, At
  <2>4. content'[s] = Below(q) /\ head'[s].idx = link[t]
    BY <2>0, <2>1 DEF StackInv, TypeOK
  <2>5. \A i \in 1 .. Len(q) : At(s, i)' = At(s, i + 1)
    BY <2>0, <2>4, PopTop DEF At
  <2>6. ASSUME NEW i \in 1 .. Len(content'[s])
        PROVE  next'[content'[s][i]] = At(s, i + 1)'
    <3>1. i + 1 \in 1 .. Len(q) /\ content'[s][i] = q[i + 1]
      BY <2>0, <2>4, PopTop
    <3>2. next[q[i + 1]] = At(s, i + 2)
      BY <2>0, <3>1 DEF StackInv, Linked
    <3>3. At(s, i + 1)' = At(s, i + 2)
      BY <2>5, <3>1
    <3>. QED
      BY <2>1, <3>1, <3>2, <3>3
  <2>7. head'[s].idx = At(s, 1)'
    <3>1. 1 \in 1 .. Len(q) /\ 1 + 1 = 2
      BY <2>0
    <3>. QED
      BY <2>2, <2>4, <2>5, <3>1
  <2>. QED
    BY <2>3, <2>6, <2>7 DEF Linked
<1>4. CASE ~ \E t \in Threads : PushLink(t) \/ PushCas(t) \/ PopCas(t)
  BY <1>4, QuietStep DEF StackInv, Linked, At
<1>. QED
  BY <1>1, <1>2, <1>3, <1>4

LEMMA ExclusiveStep == StackInv /\ [Next]_vars => Exclusive'
<1>. SUFFICES ASSUME StackInv, [Next]_vars PROVE Exclusive'
  OBVIOUS
<1>1. ASSUME NEW t \in Threads, PushLink(t)
      PROVE  Exclusive'
  BY <1>1 DEF PushLink, StackInv, Exclusive
<1>2. ASSUME NEW t \in Threads, PushCas(t)
      PROVE  Exclusive'
  <2>. PICK s \in Stacks : s = stk[t]
    BY DEF StackInv, TypeOK
  <2>. DEFINE q == content[s]  x == item[t]
  <2>0. q \in Seq(Spans) /\ Len(q) \in Nat
    BY LenProperties DEF StackInv, TypeOK
  <2>1. /\ x \in Spans
        /\ x \in held[t]
        /\ \A r \in Stacks : \A i \in 1 .. Len(content[r]) : content[r][i] # x
    BY <1>2, PushedSpan DEF PushCas
  <2>2. /\ content' = [content EXCEPT ![s] = <<x>> \o q]
        /\ held' = [held EXCEPT ![t] = @ \ {x}]
    BY <1>2 DEF PushCas
  <2>3. /\ content'[s] = <<x>> \o q
        /\ \A r \in Stacks \ {s} : content'[r] = content[r]
        /\ held'[t] = held[t] \ {x}
        /\ \A u \in Threads \ {t} : held'[u] = held[u]
    BY <2>2 DEF StackInv, TypeOK
  <2>4. /\ Len(content'[s]) = Len(q) + 1
        /\ content'[s][1] = x
        /\ \A i \in 2 .. Len(q) + 1 : content'[s][i] = q[i - 1] /\ i - 1 \in 1 .. Len(q)
    BY <2>0, <2>1, <2>3, PushTop
  <2>5. \A r1, r2 \in Stacks :
          \A i \in 1 .. Len(content'[r1]), j \in 1 .. Len(content'[r2]) :
             content'[r1][i] = content'[r2][j] => r1 = r2 /\ i = j
    <3>. SUFFICES ASSUME NEW r1 \in Stacks, NEW r2 \in Stacks,
                         NEW i \in 1 .. Len(content'[r1]),
                         NEW j \in 1 .. Len(content'[r2]),
                         content'[r1][i] = content'[r2][j]
                  PROVE  r1 = r2 /\ i = j
      OBVIOUS
    <3>. DEFINE Old(r, n) == IF r = s THEN n - 1 ELSE n
                New(r, n) == r = s /\ n = 1
    <3>1. ASSUME NEW r \in Stacks, NEW n \in 1 .. Len(content'[r]), ~ New(r, n)
          PROVE  Old(r, n) \in 1 .. Len(content[r]) /\ content'[r][n] = content[r][Old(r, n)]
      BY <2>0, <2>3, <2>4, <3>1, SMTT(30)
    <3>2. CASE New(r1, i) \/ New(r2, j)
      BY <2>0, <2>1, <2>3, <2>4, <3>1, <3>2, SMTT(30)
    <3>3. CASE ~ New(r1, i) /\ ~ New(r2, j)
      <4>1. /\ Old(r1, i) \in 1 .. Len(content[r1])
            /\ Old(r2, j) \in 1 .. Len(content[r2])
            /\ content[r1][Old(r1, i)] = content[r2][Old(r2, j)]
        BY <3>1, <3>3
      <4>2. r1 = r2 /\ Old(r1, i) = Old(r2, j)
        <5>. HIDE DEF Old
        <5>. QED
          BY <4>1 DEF StackInv, Exclusive
      <4>. QED
        BY <2>0, <2>3, <4>2
    <3>. QED
      BY <3>2, <3>3
  <2>6. \A u \in Threads, r \in Stacks :
          \A i \in 1 .. Len(content'[r]) : content'[r][i] \notin held'[u]
    <3>. SUFFICES ASSUME NEW u \in Threads, NEW r \in Stacks,
                         NEW i \in 1 .. Len(content'[r])
                  PROVE  content'[r][i] \notin held'[u]
      OBVIOUS
    <3>1. CASE r = s /\ i = 1
      BY <2>1, <2>3, <2>4, <3>1 DEF StackInv, Exclusive
    <3>2. CASE ~ (r = s /\ i = 1)
      <4>1. \E j \in 1 .. Len(content[r]) : content'[r][i] = content[r][j]
        <5>1. CASE r = s
          BY <2>0, <2>4, <3>2, <5>1
        <5>2. CASE r # s
          BY <2>3, <5>2
        <5>. QED
          BY <5>1, <5>2
      <4>2. content'[r][i] \notin held[u]
        BY <4>1 DEF StackInv, Exclusive
      <4>. QED
        BY <2>3, <4>2
    <3>. QED
      BY <3>1, <3>2
  <2>7. \A u, v \in Threads : u # v => held'[u] \cap held'[v] = {}
    BY <2>3 DEF StackInv, Exclusive
  <2>. QED
    BY <2>5, <2>6, <2>7 DEF Exclusive
<1>3. ASSUME NEW t \in Threads, PopCas(t)
      PROVE  Exclusive'
  <2>. PICK s \in Stacks : s = stk[t]
    BY DEF StackInv, TypeOK
  <2>. DEFINE q == content[s]
  <2>0. q \in Seq(Spans) /\ Len(q) \in Nat /\ Len(q) > 0 /\ old[t].idx = q[1]
    BY <1>3, PoppedSpan, LenProperties DEF StackInv, TypeOK
  <2>2. /\ content' = [content EXCEPT ![s] = Below(q)]
        /\ held' = [held EXCEPT ![t] = @ \cup {q[1]}]
    BY <1>3, <2>0 DEF PopCas
  <2>3. /\ content'[s] = Below(q)
        /\ \A r \in Stacks \ {s} : content'[r] = content[r]
        /\ held'[t] = held[t] \cup {q[1]}
        /\ \A u \in Threads \ {t} : held'[u] = held[u]
    BY <2>2 DEF StackInv, TypeOK
  <2>. DEFINE Old(r, n) == IF r = s THEN n + 1 ELSE n
  <2>4. ASSUME NEW r \in Stacks, NEW n \in 1 .. Len(content'[r])
        PROVE  /\ Old(r, n) \in 1 .. Len(content[r])
               /\ content'[r][n] = content[r][Old(r, n)]
               /\ content'[r][n] # q[1]
    <3>1. Old(r, n) \in 1 .. Len(content[r]) /\ content'[r][n] = content[r][Old(r, n)]
      <4>1. CASE r = s
        <5>1. Len(Below(q)) = Len(q) - 1 /\ \A i \in 1 .. Len(q) - 1 : Below(q)[i] = q[i + 1]
          BY <2>0, PopTop
        <5>2. n \in 1 .. Len(q) - 1
          BY <2>3, <4>1, <5>1
        <5>. QED
          <6>1. Old(r, n) = n + 1 /\ content[r] = q /\ content'[r] = Below(q)
            BY <2>3, <4>1
          <6>2. n + 1 \in 1 .. Len(q)
            BY <2>0, <5>2
          <6>. HIDE DEF Old, q
          <6>. QED
            BY <5>1, <5>2, <6>1, <6>2
      <4>2. CASE r # s
        BY <2>3, <4>2
      <4>. QED
        BY <4>1, <4>2
    <3>2. 1 \in 1 .. Len(q) /\ ~ (r = s /\ Old(r, n) = 1)
      BY <2>0
    <3>3. content[r][Old(r, n)] # content[s][1]
      BY <3>1, <3>2 DEF StackInv, Exclusive
    <3>. QED
      BY <3>1, <3>3
  <2>5. \A r1, r2 \in Stacks :
          \A i \in 1 .. Len(content'[r1]), j \in 1 .. Len(content'[r2]) :
             content'[r1][i] = content'[r2][j] => r1 = r2 /\ i = j
    <3>. SUFFICES ASSUME NEW r1 \in Stacks, NEW r2 \in Stacks,
                         NEW i \in 1 .. Len(content'[r1]),
                         NEW j \in 1 .. Len(content'[r2]),
                         content'[r1][i] = content'[r2][j]
                  PROVE  r1 = r2 /\ i = j
      OBVIOUS
    <3>1. /\ Old(r1, i) \in 1 .. Len(content[r1])
          /\ Old(r2, j) \in 1 .. Len(content[r2])
          /\ content[r1][Old(r1, i)] = content[r2][Old(r2, j)]
      BY <2>4
    <3>2. r1 = r2 /\ Old(r1, i) = Old(r2, j)
      <4>. HIDE DEF Old
      <4>. QED
        BY <3>1 DEF StackInv, Exclusive
    <3>. QED
      BY <2>0, <2>3, <3>2
  <2>6. \A u \in Threads, r \in Stacks :
          \A i \in 1 .. Len(content'[r]) : content'[r][i] \notin held'[u]
    BY <2>3, <2>4 DEF StackInv, Exclusive
  <2>7. \A u \in Threads : q[1] \notin held[u]
    BY <2>0 DEF StackInv, Exclusive
  <2>8. \A u, v \in Threads : u # v => held'[u] \cap held'[v] = {}
    BY <2>3, <2>7 DEF StackInv, Exclusive
  <2>. QED
    BY <2>5, <2>6, <2>8 DEF Exclusive
<1>4. CASE ~ \E t \in Threads : PushLink(t) \/ PushCas(t) \/ PopCas(t)
  BY <1>4, QuietStep DEF StackInv, Exclusive
<1>. QED
  BY <1>1, <1>2, <1>3, <1>4

-----------------------------------------------------------------------------
(* What a thread knows of its own call survives every step, its own and    *)
(* the others'.                                                            *)
LEMMA ReadingStep ==
    ASSUME StackInv, [Next]_vars, NEW u \in Threads
    PROVE  Reading(u)'
<1>. USE DEF StackInv, TypeOK
<1>0. /\ Reading(u)
      /\ window[u] \in 0 .. TagMod - 1
      /\ old[u].tag \in 0 .. TagMod - 1
      /\ stk[u] \in Stacks
  BY HeadTypes
<1>1. ASSUME NEW t \in Threads, PushCas(t) \/ PopCas(t)
      PROVE  Reading(u)'
  <2>1. CASE u = t
    BY <1>1, <2>1 DEF PushCas, PopCas, Return, Reading
  <2>2. CASE u # t
    <3>1. /\ pc'[u] = pc[u] /\ stk'[u] = stk[u] /\ old'[u] = old[u]
          /\ window' = Age(t)
          /\ head[stk[t]].tag = old[t].tag
          /\ head'[stk[t]].tag = Bump(old[t].tag)
          /\ \A r \in Stacks \ {stk[t]} : head'[r] = head[r]
          /\ WindowOpen(t)
      BY <1>1, <2>2 DEF PushCas, PopCas, Return
    <3>2. CASE pc[u] # "idle" /\ stk[u] = stk[t]
      <4>1. window[u] < TagMod - 1 /\ window'[u] = window[u] + 1
        BY <2>2, <3>1, <3>2 DEF Age, WindowOpen
      <4>2. head[stk[u]].tag = TagAfter(old[u].tag, window[u])
        BY <1>0, <3>2 DEF Reading
      <4>3. head'[stk[u]].tag = TagAfter(old[u].tag, window[u] + 1)
        <5>1. head'[stk[u]].tag = Bump(TagAfter(old[u].tag, window[u]))
          BY <3>1, <3>2, <4>2
        <5>2. window[u] \in 0 .. TagMod - 2
          BY <1>0, <4>1, StackAssumption
        <5>. QED
          BY <1>0, <5>1, <5>2, BumpAfter
      <4>4. window'[u] # 0
        BY <1>0, <4>1
      <4>. QED
        BY <3>1, <4>1, <4>3, <4>4 DEF Reading, TagAfter
    <3>3. CASE pc[u] = "idle"
      BY <3>1, <3>3 DEF Reading
    <3>4. CASE stk[u] # stk[t]
      <4>1. window'[u] = window[u]
        BY <2>2, <3>1, <3>4 DEF Age
      <4>. QED
        BY <1>0, <3>1, <3>4, <4>1 DEF Reading, TagAfter
    <3>. QED
      BY <3>2, <3>3, <3>4
  <2>. QED
    BY <2>1, <2>2
<1>2. ASSUME NEW t \in Threads, NEW s \in Stacks,
             PopLoad(t, s) \/ \E x \in Spans : PushLoad(t, s, x)
      PROVE  Reading(u)'
  <2>1. CASE u = t
    <3>1. old'[u] = head[s] /\ head'[stk'[u]] = head[s] /\ window'[u] = 0
      BY <1>2, <2>1 DEF PushLoad, PopLoad
    <3>2. head[s].tag \in 0 .. TagMod - 1
      BY HeadTypes
    <3>. QED
      BY <3>1, <3>2, StackAssumption DEF Reading, TagAfter
  <2>2. CASE u # t
    BY <1>0, <1>2, <2>2 DEF PushLoad, PopLoad, Reading, TagAfter
  <2>. QED
    BY <2>1, <2>2
<1>3. ASSUME NEW t \in Threads, NEW step \in Busy, Reload(t, step)
      PROVE  Reading(u)'
  <2>1. CASE u = t
    <3>1. old'[u] = head[stk[u]] /\ head'[stk'[u]] = head[stk[u]] /\ window'[u] = 0
      BY <1>3, <2>1 DEF Reload
    <3>2. head[stk[u]].tag \in 0 .. TagMod - 1
      BY <1>0, HeadTypes
    <3>. QED
      BY <3>1, <3>2, StackAssumption DEF Reading, TagAfter
  <2>2. CASE u # t
    BY <1>0, <1>3, <2>2 DEF Reload, Reading, TagAfter
  <2>. QED
    BY <2>1, <2>2
<1>4. ASSUME NEW t \in Threads, PushLink(t) \/ PopNext(t)
      PROVE  Reading(u)'
  BY <1>0, <1>4 DEF PushLink, PopNext, Reading, TagAfter
<1>5. ASSUME NEW t \in Threads, PopEmpty(t)
      PROVE  Reading(u)'
  BY <1>0, <1>5 DEF PopEmpty, Return, Reading, TagAfter
<1>6. CASE UNCHANGED vars
  BY <1>0, <1>6 DEF vars, Reading, TagAfter
<1>. QED
  BY <1>1, <1>2, <1>3, <1>4, <1>5, <1>6 DEF Next, Push, Pop, PushRetry, PopRetry, Busy

LEMMA PushingStep ==
    ASSUME StackInv, [Next]_vars, NEW u \in Threads
    PROVE  Pushing(u)'
<1>. USE DEF StackInv, TypeOK
<1>1. ASSUME NEW t \in Threads, PushCas(t) \/ PopCas(t)
      PROVE  Pushing(u)'
  <2>1. CASE u = t
    BY <1>1, <2>1 DEF PushCas, PopCas, Return, Pushing
  <2>2. CASE u # t
    <3>1. /\ pc'[u] = pc[u] /\ item'[u] = item[u] /\ old'[u] = old[u] /\ held'[u] = held[u]
          /\ next' = next
      BY <1>1, <2>2 DEF PushCas, PopCas, Return
    <3>. QED
      BY <3>1 DEF Pushing
  <2>. QED
    BY <2>1, <2>2
<1>2. ASSUME NEW t \in Threads, NEW s \in Stacks,
             PopLoad(t, s) \/ \E x \in Spans : PushLoad(t, s, x)
      PROVE  Pushing(u)'
  BY <1>2 DEF PushLoad, PopLoad, Pushing
<1>3. ASSUME NEW t \in Threads, PushRetry(t) \/ PopRetry(t)
      PROVE  Pushing(u)'
  BY <1>3 DEF PushRetry, PopRetry, Reload, Pushing
<1>4. ASSUME NEW t \in Threads, PushLink(t)
      PROVE  Pushing(u)'
  <2>1. CASE u = t
    BY <1>4, <2>1, PushedSpan DEF PushLink, Pushing
  <2>2. CASE u # t /\ pc[u] \in {"pushLink", "pushCas"}
    <3>1. item[u] \in held[u] /\ item[t] \in held[t]
      BY <1>4, <2>2 DEF PushLink, Pushing
    <3>2. item[u] # item[t] /\ item[u] \in Spans
      BY <2>2, <3>1 DEF Exclusive
    <3>. QED
      BY <1>4, <2>2, <3>1, <3>2 DEF PushLink, Pushing
  <2>3. CASE u # t /\ pc[u] \notin {"pushLink", "pushCas"}
    BY <1>4, <2>3 DEF PushLink, Pushing
  <2>. QED
    BY <2>1, <2>2, <2>3
<1>5. ASSUME NEW t \in Threads, PopEmpty(t) \/ PopNext(t)
      PROVE  Pushing(u)'
  BY <1>5 DEF PopEmpty, PopNext, Return, Pushing
<1>6. CASE UNCHANGED vars
  BY <1>6 DEF vars, Pushing
<1>. QED
  BY <1>1, <1>2, <1>3, <1>4, <1>5, <1>6 DEF Next, Push, Pop

LEMMA PoppingStep ==
    ASSUME StackInv, [Next]_vars, NEW u \in Threads
    PROVE  Popping(u)'
<1>. USE DEF StackInv, TypeOK
<1>1. ASSUME NEW t \in Threads, PushCas(t) \/ PopCas(t)
      PROVE  Popping(u)'
  <2>1. CASE u = t
    BY <1>1, <2>1 DEF PushCas, PopCas, Return, Popping
  <2>2. CASE u # t
    <3>1. /\ pc'[u] = pc[u] /\ old'[u] = old[u] /\ link'[u] = link[u] /\ next' = next
          /\ window' = Age(t)
      BY <1>1, <2>2 DEF PushCas, PopCas, Return
    <3>2. window'[u] = 0 => window[u] = 0
      BY <2>2, <3>1 DEF Age
    <3>. QED
      BY <3>1, <3>2 DEF Popping
  <2>. QED
    BY <2>1, <2>2
<1>2. ASSUME NEW t \in Threads, NEW s \in Stacks,
             PopLoad(t, s) \/ \E x \in Spans : PushLoad(t, s, x)
      PROVE  Popping(u)'
  BY <1>2 DEF PushLoad, PopLoad, Popping
<1>3. ASSUME NEW t \in Threads, PushRetry(t) \/ PopRetry(t)
      PROVE  Popping(u)'
  BY <1>3 DEF PushRetry, PopRetry, Reload, Popping
<1>4. ASSUME NEW t \in Threads, PushLink(t)
      PROVE  Popping(u)'
  <2>1. CASE pc[u] = "popCas" /\ window[u] = 0
    <3>1. u # t /\ head[stk[u]] = old[u] /\ old[u].idx # None
      BY <1>4, <2>1 DEF PushLink, Reading, Popping
    <3>2. old[u].idx \in Spans /\ Len(content[stk[u]]) \in Nat
      BY <3>1, HeadTypes, LenProperties
    <3>3. 1 \in 1 .. Len(content[stk[u]]) /\ old[u].idx = content[stk[u]][1]
      BY <3>1, <3>2 DEF Linked, At
    <3>4. old[u].idx # item[t]
      BY <1>4, <3>3, PushedSpan DEF PushLink
    <3>. QED
      BY <1>4, <2>1, <3>1, <3>2, <3>4 DEF PushLink, Popping
  <2>2. CASE ~ (pc[u] = "popCas" /\ window[u] = 0)
    BY <1>4, <2>2 DEF PushLink, Popping
  <2>. QED
    BY <2>1, <2>2
<1>5. ASSUME NEW t \in Threads, PopEmpty(t) \/ PopNext(t)
      PROVE  Popping(u)'
  <2>1. CASE u = t
    BY <1>5, <2>1 DEF PopEmpty, PopNext, Return, Popping
  <2>2. CASE u # t
    <3>1. /\ pc'[u] = pc[u] /\ old'[u] = old[u] /\ link'[u] = link[u]
          /\ window'[u] = window[u] /\ next' = next
      BY <1>5, <2>2 DEF PopEmpty, PopNext, Return
    <3>. QED
      BY <3>1 DEF Popping
  <2>. QED
    BY <2>1, <2>2
<1>6. CASE UNCHANGED vars
  BY <1>6 DEF vars, Popping
<1>. QED
  BY <1>1, <1>2, <1>3, <1>4, <1>5, <1>6 DEF Next, Push, Pop

(* The links spell the stacks, no span is in two places, and every thread  *)
(* is where its call left it: for any number of threads, stacks and spans. *)
THEOREM StackInvariant == Spec => []StackInv
<1>1. Init => StackInv
  BY InitInv
<1>2. StackInv /\ [Next]_vars => StackInv'
  BY TypeStep, LinkedStep, ExclusiveStep, ReadingStep, PushingStep, PoppingStep DEF StackInv
<1>. QED
  BY <1>1, <1>2, PTL DEF Spec

(* push() and pop() keep g_span_next spelling each stack from its head.    *)
THEOREM LinksSpellStacks == Spec => []Linked
<1>1. StackInv => Linked
  BY DEF StackInv
<1>. QED
  BY <1>1, StackInvariant, PTL

(* The same span is never handed to two callers of pop().                  *)
THEOREM NoSpanTwice == Spec => []Exclusive
<1>1. StackInv => Exclusive
  BY DEF StackInv
<1>. QED
  BY <1>1, StackInvariant, PTL

(* A pop that is about to succeed holds the link that is in the array now: *)
(* the tag has refused every exchange prepared from an older head.         *)
THEOREM StaleHeadRefused == Spec => []StaleRefused
<1>1. StackInv => StaleRefused
  <2>. SUFFICES ASSUME StackInv, NEW t \in Threads, pc[t] = "popCas", head[stk[t]] = old[t]
                PROVE  window[t] = 0 /\ link[t] = next[old[t].idx]
    BY DEF StaleRefused
  <2>1. head[stk[t]].tag = TagAfter(old[t].tag, window[t])
    BY DEF StackInv, Reading
  <2>2. old[t].tag \in 0 .. TagMod - 1 /\ window[t] \in 0 .. TagMod - 1
    BY HeadTypes DEF StackInv, TypeOK
  <2>3. window[t] = 0
    BY <2>1, <2>2, StackAssumption DEF TagAfter
  <2>. QED
    BY <2>3 DEF StackInv, Popping
<1>. QED
  BY <1>1, StackInvariant, PTL

(* What the runs check of the stacks, for any number of threads, stacks,   *)
(* spans and tags: types, links, owners and refused exchanges.             *)
THEOREM ParkedSound == Spec => []ParkedIsSound
<1>1. StackInv => TypeOK
  BY DEF StackInv
<1>. QED
  BY <1>1, StackInvariant, LinksSpellStacks, NoSpanTwice, StaleHeadRefused, PTL DEF ParkedIsSound

(* push() and pop() on the tagged head behave as a park and a take that    *)
(* happen in one step: at the exchange that succeeds.                      *)
THEOREM Refinement == Spec => ImplementsParkedSpans
<1>1. Init => Abstract!Init
  BY DEF Init, Abstract!Init
<1>2. StackInv /\ [Next]_vars => [Abstract!Next]_<<held, content>>
  <2>. SUFFICES ASSUME StackInv, [Next]_vars
                PROVE  [Abstract!Next]_<<held, content>>
    OBVIOUS
  <2>. USE DEF StackInv, TypeOK
  <2>1. ASSUME NEW t \in Threads, PushCas(t)
        PROVE  Abstract!Next
    <3>1. item[t] \in Spans /\ item[t] \in held[t] /\ stk[t] \in Stacks
      BY <2>1, PushedSpan DEF PushCas
    <3>2. Abstract!Park(t, stk[t], item[t])
      BY <2>1, <3>1 DEF PushCas, Abstract!Park
    <3>. QED
      BY <3>1, <3>2 DEF Abstract!Next
  <2>2. ASSUME NEW t \in Threads, PopCas(t)
        PROVE  Abstract!Next
    <3>1. /\ stk[t] \in Stacks
          /\ Len(content[stk[t]]) > 0
          /\ old[t].idx = content[stk[t]][1]
      BY <2>2, PoppedSpan
    <3>2. content[stk[t]] # <<>> /\ Head(content[stk[t]]) = old[t].idx
      BY <3>1, PopTop, EmptySeq
    <3>3. Abstract!Take(t, stk[t])
      BY <2>2, <3>1, <3>2 DEF PopCas, Below, Abstract!Take
    <3>. QED
      BY <3>1, <3>3 DEF Abstract!Next
  <2>3. ASSUME NEW t \in Threads, PushLink(t)
        PROVE  UNCHANGED <<held, content>>
    BY <2>3 DEF PushLink
  <2>4. CASE ~ \E t \in Threads : PushLink(t) \/ PushCas(t) \/ PopCas(t)
    BY <2>4, QuietStep
  <2>. QED
    BY <2>1, <2>2, <2>3, <2>4
<1>. QED
  BY <1>1, <1>2, StackInvariant, PTL DEF Spec, Abstract!Spec, ImplementsParkedSpans

-----------------------------------------------------------------------------
(* PAGES NEAR AN ADDRESS (RegionPages) *)

(* Threads are finitely many, no request comes to more than so many chunks,  *)
(* and all of them together are below the width of the cursor: 64 bits of    *)
(* bytes, where no request that was ever served passes 47.                   *)
RequestsFit(most) ==
    /\ IsFiniteSet(Placers)
    /\ most \in Nat /\ \A n \in Wanted : Chunks(n) <= most
    /\ Base + (MaxPlaces * most) * BigChunk < Word

Region == Base .. End - 1
Cursor == Base + bigNext * BigChunk
Takers == {t \in Placers : wish[t].step = "take"}
Page(g) == Extent(g.at, g.n)
InHand(t) == IF wish[t].step = "commit" THEN Span(wish[t].at, wish[t].got) ELSE InFlight(t)

PagesShapes ==
    /\ bigNext \in Nat /\ places \in 0 .. MaxPlaces
    /\ world \in [Lands -> {"free", "reserved", "mapped"}]
    /\ wish \in [Placers -> [step : {"none", "take", "commit", "too far", "search"},
                             n : Nat, near : Nat, at : Nat, got : Nat, probe : Nat]]
    /\ granted \subseteq [at : Nat, n : Nat, near : Nat, placed : BOOLEAN]
    /\ \A t \in Placers : wish[t].step = "take" => wish[t].n \in Wanted

\* The cursor has moved by no more than the requests that took from it asked for.
CursorCounts(most) == bigNext <= (places - Cardinality(Takers)) * most

\* What a thread has in hand is of the region and behind the cursor, or of the
\* system and outside it.
Stages ==
    \A t \in Placers :
        /\ wish[t].step \in {"commit", "too far"} =>
              /\ wish[t].got = Chunks(wish[t].n) * BigChunk
              /\ Base <= wish[t].at /\ wish[t].at + wish[t].got <= End
        /\ wish[t].step = "search" /\ wish[t].at # 0 =>
              Span(wish[t].at, wish[t].n) \subseteq Lands \ Region

Grants ==
    \A g \in granted :
        /\ InRegion(g.at) => Page(g) \subseteq Region
        /\ ~ InRegion(g.at) => Page(g) \subseteq Lands \ Region
        /\ Told(g.at, g.near, g.placed)

\* Past the cursor nothing of the region is anybody's.
Untouched ==
    \A a \in Region : Cursor <= a =>
        /\ \A g \in granted : a \notin Page(g)
        /\ \A t \in Placers : a \notin InHand(t)
        /\ a \notin returned

RegionKept == returned \subseteq Region /\ \A a \in Region : world[a] # "free"

Separate ==
    /\ \A g, h \in granted : g # h => Page(g) \cap Page(h) = {}
    /\ \A g \in granted, t \in Placers : Page(g) \cap InHand(t) = {}
    /\ \A g \in granted : Page(g) \cap returned = {}
    /\ \A t, u \in Placers : t # u => InHand(t) \cap InHand(u) = {}
    /\ \A t \in Placers : InHand(t) \cap returned = {}

MappedIsHeld ==
    \A a \in Lands :
        world[a] = "mapped" <=> \/ \E g \in granted : a \in Page(g)
                                \/ \E t \in Placers : a \in InFlight(t)

PagesInv(most) ==
    /\ PagesShapes /\ CursorCounts(most) /\ Stages /\ Grants
    /\ Untouched /\ RegionKept /\ Separate /\ MappedIsHeld


-----------------------------------------------------------------------------
(* A request comes to no chunks only if it is for no pages.                  *)
LEMMA ChunksAre ==
    ASSUME NEW n \in Nat
    PROVE  /\ Chunks(n) \in Nat /\ Chunks(n) * BigChunk \in Nat
           /\ n = 0 => Chunks(n) = 0 /\ Chunks(n) * BigChunk = 0
           /\ n # 0 => 1 <= Chunks(n) /\ 1 <= Chunks(n) * BigChunk
<1>1. BigChunk \in Nat /\ 1 <= BigChunk
  BY PagesAssumption
<1>2. PICK c \in Int : c = Chunks(n)
  BY <1>1 DEF Chunks
<1>3. BigChunk * c <= n + BigChunk - 1 /\ n + BigChunk - 1 < BigChunk * c + BigChunk
  BY <1>1, <1>2 DEF Chunks
<1>4. c >= 0
  <2>1. CASE c <= -1
    <3>1. BigChunk * c <= BigChunk * (-1)
      BY <2>1, <1>1, <1>2
    <3>. QED
      BY <3>1, <1>1, <1>2, <1>3
  <2>. QED
    BY <2>1, <1>2
<1>5. n = 0 => c = 0
  <2>1. CASE c >= 1 /\ n = 0
    <3>1. BigChunk * c >= BigChunk
      BY <2>1, <1>1, <1>2
    <3>. QED
      BY <3>1, <2>1, <1>1, <1>2, <1>3
  <2>. QED
    BY <2>1, <1>2, <1>4
<1>6. n # 0 => c >= 1
  <2>1. CASE c = 0
    BY <2>1, <1>1, <1>2, <1>3
  <2>. QED
    BY <2>1, <1>2, <1>4
<1>7. c * BigChunk \in Nat /\ (c >= 1 => c * BigChunk >= 1) /\ (c = 0 => c * BigChunk = 0)
  BY <1>1, <1>2, <1>4
<1>. QED
  BY <1>2, <1>4, <1>5, <1>6, <1>7

(* What an extent is: whole chunks in the region, the pages elsewhere, and    *)
(* nothing of no pages.                                                       *)
LEMMA ExtentIs ==
    ASSUME NEW n \in Nat, NEW a \in Nat
    PROVE  /\ Base <= a /\ a + Chunks(n) * BigChunk <= End =>
                 /\ Extent(a, n) = Span(a, Chunks(n) * BigChunk)
                 /\ Extent(a, n) \subseteq Region
           /\ Span(a, n) \subseteq Lands \ Region => Extent(a, n) = Span(a, n)
           /\ InRegion(a) => Extent(a, n) = Span(a, Chunks(n) * BigChunk)
           /\ ~ InRegion(a) => Extent(a, n) = Span(a, n)
<1>1. Base \in Nat /\ End \in Nat
  BY PagesAssumption
<1>2. /\ n = 0 => Chunks(n) * BigChunk = 0
      /\ n # 0 => 1 <= Chunks(n) * BigChunk
      /\ Chunks(n) * BigChunk \in Nat
  BY ChunksAre
<1>3. PICK l \in Nat : l = Chunks(n) * BigChunk
  BY <1>2
<1>4. (n = 0 => l = 0) /\ (n # 0 => l >= 1)
  BY <1>2, <1>3
<1>5. Extent(a, n) = Span(a, IF InRegion(a) THEN l ELSE n)
  BY <1>3 DEF Extent
<1>6. n = 0 => Span(a, n) = {} /\ Span(a, l) = {}
  BY <1>4 DEF Span
<1>7. n # 0 => a \in Span(a, n)
  BY DEF Span
<1>8. Base <= a /\ a + l <= End =>
         Extent(a, n) = Span(a, l) /\ Extent(a, n) \subseteq Region
  <2>1. CASE n = 0
    BY <2>1, <1>5, <1>6
  <2>2. CASE n # 0 /\ Base <= a /\ a + l <= End
    <3>1. InRegion(a)
      BY <2>2, <1>1, <1>3, <1>4 DEF InRegion
    <3>. QED
      BY <3>1, <2>2, <1>1, <1>3, <1>5 DEF Span, Region
  <2>. QED
    BY <2>1, <2>2
<1>9. Span(a, n) \subseteq Lands \ Region => Extent(a, n) = Span(a, n)
  <2>1. CASE n = 0
    BY <2>1, <1>5, <1>6
  <2>2. CASE n # 0
    BY <2>2, <1>5, <1>7 DEF InRegion, Region
  <2>. QED
    BY <2>1, <2>2
<1>. QED
  BY <1>3, <1>5, <1>8, <1>9

LEMMA RegionIsLand == Region \subseteq Lands /\ Region \subseteq Nat /\ Lands \subseteq Nat
BY PagesAssumption DEF Region, Lands

(* What a thread has in hand is there, and mapped or not, only if it is at a   *)
(* step that says so.                                                         *)
LEMMA HandsOf ==
    ASSUME NEW u \in Placers, wish'[u] = wish[u]
    PROVE  InHand(u)' = InHand(u) /\ InFlight(u)' = InFlight(u)
BY DEF InHand, InFlight

LEMMA EmptyHands ==
    ASSUME NEW u \in Placers, wish[u].step \in {"none", "take"}
                                \/ (wish[u].step = "search" /\ wish[u].at = 0)
    PROVE  InHand(u) = {} /\ InFlight(u) = {}
BY DEF InHand, InFlight

LEMMA EmptyHandsAfter ==
    ASSUME NEW u \in Placers, wish'[u].step \in {"none", "take"}
                                \/ (wish'[u].step = "search" /\ wish'[u].at = 0)
    PROVE  InHand(u)' = {} /\ InFlight(u)' = {}
BY DEF InHand, InFlight

(* What is in hand, of the region or of the system.                           *)
LEMMA HandIs ==
    ASSUME PagesShapes, Stages, NEW u \in Placers
    PROVE  /\ wish[u].step \in {"commit", "too far"} =>
                 /\ InHand(u) = Span(wish[u].at, wish[u].got)
                 /\ InHand(u) = Extent(wish[u].at, wish[u].n) /\ InHand(u) \subseteq Region
           /\ wish[u].step = "too far" => InFlight(u) = InHand(u)
           /\ wish[u].step = "commit" => InFlight(u) = {}
           /\ wish[u].step = "search" /\ wish[u].at # 0 =>
                 /\ InHand(u) = Extent(wish[u].at, wish[u].n) /\ InFlight(u) = InHand(u)
                 /\ InHand(u) = Span(wish[u].at, wish[u].n) /\ InHand(u) \subseteq Lands \ Region
           /\ InHand(u) \subseteq Lands /\ InFlight(u) \subseteq InHand(u)
<1>1. /\ wish[u].step \in {"none", "take", "commit", "too far", "search"}
      /\ wish[u].n \in Nat /\ wish[u].at \in Nat /\ wish[u].got \in Nat
  BY DEF PagesShapes
<1>2. CASE wish[u].step \in {"commit", "too far"}
  <2>1. /\ wish[u].got = Chunks(wish[u].n) * BigChunk
        /\ Base <= wish[u].at /\ wish[u].at + wish[u].got <= End
    BY <1>2 DEF Stages
  <2>2. /\ Extent(wish[u].at, wish[u].n) = Span(wish[u].at, wish[u].got)
        /\ Extent(wish[u].at, wish[u].n) \subseteq Region
    BY <2>1, <1>1, ExtentIs
  <2>3. CASE wish[u].step = "commit"
    BY <2>2, <2>3, RegionIsLand DEF InHand, InFlight
  <2>4. CASE wish[u].step = "too far"
    BY <2>2, <2>4, RegionIsLand DEF InHand, InFlight
  <2>. QED
    BY <1>2, <2>3, <2>4
<1>3. CASE wish[u].step = "search" /\ wish[u].at # 0
  <2>1. Span(wish[u].at, wish[u].n) \subseteq Lands \ Region
    BY <1>3 DEF Stages
  <2>2. Extent(wish[u].at, wish[u].n) = Span(wish[u].at, wish[u].n)
    BY <2>1, <1>1, ExtentIs
  <2>. QED
    BY <2>1, <2>2, <1>3 DEF InHand, InFlight
<1>4. CASE wish[u].step \in {"none", "take"} \/ (wish[u].step = "search" /\ wish[u].at = 0)
  BY <1>4, EmptyHands
<1>. QED
  BY <1>1, <1>2, <1>3, <1>4


-----------------------------------------------------------------------------
(* The cursor does not come round: a request that takes from it has a place   *)
(* among those that may be, and has taken nothing before.                     *)
LEMMA NoTurn ==
    ASSUME NEW most, RequestsFit(most), PagesShapes, CursorCounts(most),
           NEW t \in Placers, wish[t].step = "take"
    PROVE  LET c == Chunks(wish[t].n) IN
           /\ c \in Nat /\ (bigNext + c) % Word = bigNext + c
           /\ (Base + bigNext * BigChunk) % Word = Cursor
           /\ (Cursor + c * BigChunk) % Word = Cursor + c * BigChunk
           /\ Base + (bigNext + c) * BigChunk = Cursor + c * BigChunk
           /\ c <= most
<1>1. /\ Base \in Nat /\ BigChunk \in Nat /\ 1 <= BigChunk /\ MaxPlaces \in Nat
      /\ Word \in Nat /\ most \in Nat /\ places \in 0 .. MaxPlaces /\ bigNext \in Nat
  <2>1. /\ Base \in Nat /\ BigChunk \in Nat /\ 1 <= BigChunk /\ MaxPlaces \in Nat
        /\ Word \in Nat
    BY PagesAssumption
  <2>2. places \in 0 .. MaxPlaces /\ bigNext \in Nat
    BY DEF PagesShapes
  <2>. QED
    BY <2>1, <2>2 DEF RequestsFit
<1>2. wish[t].n \in Wanted /\ wish[t].n \in Nat
  BY DEF PagesShapes
<1>3. PICK c \in Nat : c = Chunks(wish[t].n) /\ c <= most
  BY <1>2, ChunksAre DEF RequestsFit
<1>4. PICK k \in Nat : k = Cardinality(Takers) /\ k >= 1
  <2>1. IsFiniteSet(Takers) /\ t \in Takers
    BY FS_Subset DEF RequestsFit, Takers
  <2>. QED
    BY <2>1, FS_CardinalityType, FS_EmptySet
<1>5. bigNext <= (places - k) * most
  BY <1>4 DEF CursorCounts
<1>6. (places - k) * most <= (MaxPlaces - 1) * most
  <2>1. places - k <= MaxPlaces - 1
    BY <1>1, <1>4
  <2>. QED
    BY <2>1, <1>1, <1>4
<1>7. (MaxPlaces - 1) * most = MaxPlaces * most - most
  BY <1>1
<1>8. PICK m \in Nat : m = MaxPlaces * most
  BY <1>1
<1>9. bigNext + c <= m
  BY <1>1, <1>3, <1>5, <1>6, <1>7, <1>8, <1>4
<1>10. bigNext * BigChunk \in Nat /\ c * BigChunk \in Nat
  BY <1>1, <1>3
<1>11. (bigNext + c) * BigChunk <= m * BigChunk
  BY <1>1, <1>3, <1>8, <1>9
<1>12. (bigNext + c) * BigChunk = bigNext * BigChunk + c * BigChunk
  BY <1>1, <1>3
<1>13. Base + m * BigChunk < Word
  BY <1>8 DEF RequestsFit
<1>14. bigNext + c <= (bigNext + c) * BigChunk
  BY <1>1, <1>3
<1>15. PICK p \in Nat, q \in Nat, r \in Int :
          p = bigNext * BigChunk /\ q = c * BigChunk /\ r = m * BigChunk
  BY <1>1, <1>8, <1>10
<1>16. /\ Base + p + q < Word /\ bigNext + c < Word /\ Cursor = Base + p
       /\ p + q = (bigNext + c) * BigChunk
  BY <1>1, <1>3, <1>11, <1>12, <1>13, <1>14, <1>15 DEF Cursor
<1>17. /\ (bigNext + c) % Word = bigNext + c
       /\ (Base + p) % Word = Base + p
       /\ (Base + p + q) % Word = Base + p + q
  <2>1. \A x \in Nat : x < Word => x % Word = x
    BY <1>1
  <2>. QED
    BY <2>1, <1>1, <1>3, <1>15, <1>16
<1>. QED
  BY <1>1, <1>3, <1>15, <1>16, <1>17

(* Who takes from the cursor: of the request of one thread, that thread.      *)
LEMMA TakersMove ==
    ASSUME NEW most, RequestsFit(most), PagesShapes, PagesShapes', NEW t \in Placers,
           \A u \in Placers \ {t} : wish'[u] = wish[u]
    PROVE  /\ wish[t].step = "take" /\ wish'[t].step # "take" =>
                 Cardinality(Takers)' = Cardinality(Takers) - 1
           /\ wish[t].step # "take" /\ wish'[t].step = "take" =>
                 Cardinality(Takers)' = Cardinality(Takers) + 1
           /\ (wish[t].step = "take" <=> wish'[t].step = "take") =>
                 Cardinality(Takers)' = Cardinality(Takers)
           /\ Cardinality(Takers) \in Nat
<1>1. IsFiniteSet(Takers)
  BY FS_Subset DEF RequestsFit, Takers
<1>2. CASE wish[t].step = "take" /\ wish'[t].step # "take"
  <2>1. Takers' = Takers \ {t} /\ t \in Takers
    BY <1>2 DEF Takers
  <2>. QED
    BY <1>1, <1>2, <2>1, FS_RemoveElement, FS_CardinalityType
<1>3. CASE wish[t].step # "take" /\ wish'[t].step = "take"
  <2>1. Takers' = Takers \cup {t} /\ t \notin Takers
    BY <1>3 DEF Takers
  <2>. QED
    BY <1>1, <1>3, <2>1, FS_AddElement, FS_CardinalityType
<1>4. CASE wish[t].step = "take" <=> wish'[t].step = "take"
  <2>1. Takers' = Takers
    BY <1>4 DEF Takers
  <2>. QED
    BY <1>1, <1>4, <2>1, FS_CardinalityType
<1>. QED
  BY <1>2, <1>3, <1>4, <1>1, FS_CardinalityType

(* A step that neither asks nor takes counts nothing.                          *)
LEMMA CountsKeep ==
    ASSUME NEW most, RequestsFit(most), PagesShapes, PagesShapes', CursorCounts(most),
           NEW t \in Placers, \A u \in Placers \ {t} : wish'[u] = wish[u],
           wish[t].step # "take", wish'[t].step # "take", UNCHANGED <<bigNext, places>>
    PROVE  CursorCounts(most)'
<1>1. Cardinality(Takers)' = Cardinality(Takers)
  BY TakersMove
<1>. QED
  BY <1>1 DEF CursorCounts

-----------------------------------------------------------------------------
(* One thread puts into its hand, or drops, what nobody has.                   *)
LEMMA HandMoves ==
    ASSUME PagesShapes, Stages, Untouched, Separate, NEW t \in Placers,
           \A u \in Placers \ {t} : wish'[u] = wish[u],
           UNCHANGED <<granted, returned>>,
           \A g \in granted : Page(g) \cap InHand(t)' = {},
           \A u \in Placers \ {t} : InHand(u) \cap InHand(t)' = {},
           returned \cap InHand(t)' = {},
           bigNext' \in Nat, Cursor <= Cursor',
           \A a \in Region : Cursor' <= a => a \notin InHand(t)'
    PROVE  Untouched' /\ Separate'
<1>1. \A u \in Placers \ {t} : InHand(u)' = InHand(u)
  BY HandsOf
<1>2. \A g : Page(g)' = Page(g)
  BY DEF Page, Extent, InRegion, Span, Chunks
<1>3. Untouched'
  <2>1. SUFFICES ASSUME NEW a \in Region, Cursor' <= a
                 PROVE  /\ \A g \in granted : a \notin Page(g)
                        /\ \A u \in Placers : a \notin InHand(u)'
                        /\ a \notin returned
    BY <1>2 DEF Untouched, Region
  <2>2. a \in Int /\ Cursor \in Int /\ Cursor' \in Int
    <3>0. bigNext \in Nat
      BY DEF PagesShapes
    <3>1. bigNext \in Nat /\ Base \in Nat /\ End \in Int /\ BigChunk \in Nat
      BY <3>0, PagesAssumption
    <3>2. bigNext * BigChunk \in Nat /\ bigNext' * BigChunk \in Nat
      <4>1. \A m, n \in Nat : m * n \in Nat
        OBVIOUS
      <4>. QED
        BY <3>1, <4>1
    <3>. QED
      BY <3>1, <3>2 DEF Region, Cursor
  <2>3. Cursor <= a
    BY <2>1, <2>2
  <2>. QED
    BY <2>1, <2>3, <1>1 DEF Untouched
<1>4. Separate'
  BY <1>1, <1>2 DEF Separate
<1>. QED
  BY <1>3, <1>4

(* What one thread had in hand goes to the program, as it is.                  *)
LEMMA GrantMoves ==
    ASSUME PagesShapes, Stages, Untouched, Separate, NEW t \in Placers,
           \A u \in Placers \ {t} : wish'[u] = wish[u], InHand(t)' = {},
           NEW g, granted' = granted \cup {g}, Page(g) = InHand(t),
           UNCHANGED <<bigNext, returned>>
    PROVE  Untouched' /\ Separate'
<1>1. \A u \in Placers \ {t} : InHand(u)' = InHand(u)
  BY HandsOf
<1>2. \A h : Page(h)' = Page(h)
  BY DEF Page, Extent, InRegion, Span, Chunks
<1>3. Untouched'
  BY <1>1, <1>2 DEF Untouched, Region, Cursor
<1>4. \A h, k \in granted' : h # k => Page(h) \cap Page(k) = {}
  BY DEF Separate
<1>5. \A h \in granted', u \in Placers : Page(h) \cap InHand(u)' = {}
  BY <1>1 DEF Separate
<1>6. Separate'
  BY <1>1, <1>2, <1>4, <1>5 DEF Separate
<1>. QED
  BY <1>3, <1>6


-----------------------------------------------------------------------------
(* No thread, request or page is anywhere at first.                            *)
LEMMA PagesInitially ==
    ASSUME NEW most, RequestsFit(most), PagesInit
    PROVE  PagesInv(most)
<1>1. \A t \in Placers : wish[t] = NoWish /\ InHand(t) = {} /\ InFlight(t) = {}
  BY DEF PagesInit, InHand, InFlight, NoWish
<1>2. PagesShapes
  BY PagesAssumption DEF PagesInit, PagesShapes, NoWish
<1>3. CursorCounts(most)
  <2>1. Takers = {}
    BY <1>1 DEF Takers, NoWish
  <2>2. bigNext = 0 /\ places = 0 /\ most \in Nat /\ Cardinality(Takers) = 0
    BY <2>1, FS_EmptySet DEF PagesInit, RequestsFit
  <2>3. (0 - 0) * most = 0
    BY <2>2
  <2>. QED
    BY <2>2, <2>3 DEF CursorCounts
<1>4. Stages
  <2>1. \A t \in Placers : wish[t].step = "none"
    BY <1>1 DEF NoWish
  <2>. QED
    BY <2>1 DEF Stages
<1>5. Grants /\ Untouched /\ Separate /\ MappedIsHeld
  BY <1>1 DEF PagesInit, Grants, Untouched, Separate, MappedIsHeld
<1>6. RegionKept
  BY RegionIsLand DEF PagesInit, RegionKept, InRegion, Region
<1>. QED
  BY <1>2, <1>3, <1>4, <1>5, <1>6 DEF PagesInv

(* A step that leaves the program's pages, and of the hands only drops what is  *)
(* not mapped, keeps whose pages are whose.                                    *)
LEMMA QuietMove ==
    ASSUME NEW most, PagesInv(most), NEW t \in Placers,
           \A u \in Placers \ {t} : wish'[u] = wish[u],
           UNCHANGED <<world, granted, returned>>,
           InHand(t)' = {}, InFlight(t)' = InFlight(t),
           bigNext' \in Nat, Cursor <= Cursor'
    PROVE  Grants' /\ Untouched' /\ RegionKept' /\ Separate' /\ MappedIsHeld'
<1>. USE DEF PagesInv
<1>1. \A u \in Placers : InFlight(u)' = InFlight(u)
  BY HandsOf
<1>2. \A g : Page(g)' = Page(g)
  BY DEF Page, Extent, InRegion, Span, Chunks
<1>3. Untouched' /\ Separate'
  BY HandMoves
<1>4. Grants'
  BY <1>2 DEF Grants, Region, InRegion, Lands, Told, Far, Dist
<1>5. RegionKept'
  BY DEF RegionKept, Region
<1>6. MappedIsHeld'
  BY <1>1, <1>2 DEF MappedIsHeld, Lands
<1>. QED
  BY <1>3, <1>4, <1>5, <1>6

LEMMA SameCursor ==
    ASSUME PagesShapes, UNCHANGED bigNext
    PROVE  bigNext' \in Nat /\ Cursor <= Cursor' /\ Cursor' = Cursor /\ Cursor \in Nat
<1>1. bigNext \in Nat
  BY DEF PagesShapes
<1>2. Base \in Nat /\ BigChunk \in Nat
  BY PagesAssumption
<1>3. bigNext * BigChunk \in Nat
  BY <1>1, <1>2
<1>. QED
  BY <1>1, <1>2, <1>3 DEF Cursor

(* A call begins, where the anchor lies or in the region.                      *)
LEMMA AskKeeps ==
    ASSUME NEW most, RequestsFit(most), PagesInv(most), NEW t \in Placers,
           NEW n \in Wanted, AskInRegion(t, n) \/ \E near \in Anchors : AskPages(t, n, near)
    PROVE  PagesInv(most)'
<1>. USE DEF PagesInv
<1>2. /\ wish[t] = NoWish /\ places' = places + 1 /\ places < MaxPlaces
      /\ UNCHANGED <<bigNext, world, granted, returned>>
  BY DEF AskInRegion, AskPages
<1>3. n \in Nat
  BY PagesAssumption
<1>4. PICK step \in {"take", "search"},
           r \in [step : {"take", "search"}, n : Nat, near : Nat, at : Nat, got : Nat,
                  probe : Nat] :
          /\ r.step = step /\ r.n = n /\ r.at = 0
          /\ wish' = [wish EXCEPT ![t] = r]
  <2>1. CASE AskInRegion(t, n)
    <3>1. [NoWish EXCEPT !.step = "take", !.n = n] \in
             [step : {"take", "search"}, n : Nat, near : Nat, at : Nat, got : Nat, probe : Nat]
      BY <1>3 DEF NoWish
    <3>2. LET r == [NoWish EXCEPT !.step = "take", !.n = n]
          IN  r.step = "take" /\ r.n = n /\ r.at = 0
      BY DEF NoWish
    <3>. QED
      BY <2>1, <3>1, <3>2 DEF AskInRegion
  <2>2. CASE \E near \in Anchors : AskPages(t, n, near)
    <3>1. PICK near \in Anchors : AskPages(t, n, near)
      BY <2>2
    <3>2. near \in Nat
      BY PagesAssumption
    <3>3. PICK step \in {"take", "search"} :
             step = IF InRegion(PageOf(near)) THEN "take" ELSE "search"
      OBVIOUS
    <3>4. wish' = [wish EXCEPT ![t] = [NoWish EXCEPT !.step = step, !.n = n, !.near = near]]
      BY <3>1, <3>3 DEF AskPages
    <3>5. [NoWish EXCEPT !.step = step, !.n = n, !.near = near] \in
             [step : {"take", "search"}, n : Nat, near : Nat, at : Nat, got : Nat, probe : Nat]
      BY <1>3, <3>2 DEF NoWish
    <3>6. LET r == [NoWish EXCEPT !.step = step, !.n = n, !.near = near]
          IN  r.step = step /\ r.n = n /\ r.at = 0
      BY DEF NoWish
    <3>. QED
      BY <3>4, <3>5, <3>6
  <2>. QED
    BY <2>1, <2>2
<1>5. /\ wish'[t].step = step /\ wish'[t].at = 0 /\ wish'[t].n = n
      /\ \A u \in Placers \ {t} : wish'[u] = wish[u]
  BY <1>4 DEF PagesShapes
<1>6. PagesShapes'
  <2>1. wish' \in [Placers -> [step : {"none", "take", "commit", "too far", "search"},
                               n : Nat, near : Nat, at : Nat, got : Nat, probe : Nat]]
    BY <1>4, <1>3 DEF PagesShapes
  <2>2. places \in 0 .. MaxPlaces
    BY DEF PagesShapes
  <2>3. places' \in 0 .. MaxPlaces
    BY <2>2, <1>2, PagesAssumption
  <2>4. \A u \in Placers : wish'[u].step = "take" => wish'[u].n \in Wanted
    BY <1>5 DEF PagesShapes
  <2>. QED
    BY <1>2, <2>1, <2>3, <2>4 DEF PagesShapes, Lands
<1>7. CursorCounts(most)'
  <2>1. /\ step = "take" => Cardinality(Takers)' = Cardinality(Takers) + 1
        /\ step # "take" => Cardinality(Takers)' = Cardinality(Takers)
        /\ Cardinality(Takers) \in Nat
    <3>1. wish[t].step # "take"
      BY <1>2 DEF NoWish
    <3>. QED
      BY <3>1, <1>5, <1>6, TakersMove
  <2>2. PICK k \in Nat, k2 \in Nat :
           /\ k = Cardinality(Takers) /\ k2 = Cardinality(Takers)' /\ k2 <= k + 1
    BY <2>1
  <2>0. bigNext \in Nat /\ places \in 0 .. MaxPlaces /\ most \in Nat
    BY DEF PagesShapes, RequestsFit
  <2>3. bigNext \in Nat /\ places \in Nat /\ most \in Nat
    BY <2>0
  <2>4. bigNext <= (places - k) * most
    BY <2>2 DEF CursorCounts
  <2>5. (places - k) * most <= (places + 1 - k2) * most
    <3>1. places - k <= places + 1 - k2
      BY <2>2, <2>3
    <3>. QED
      BY <3>1, <2>2, <2>3
  <2>6. bigNext <= (places + 1 - k2) * most
    BY <2>2, <2>3, <2>4, <2>5
  <2>7. PICK d \in Int : d = places + 1 - k2
    BY <2>2, <2>3
  <2>8. places' - Cardinality(Takers)' = d /\ bigNext' <= d * most
    BY <2>2, <2>3, <2>6, <2>7, <1>2
  <2>. QED
    BY <2>8 DEF CursorCounts
<1>8. Stages'
  BY <1>5 DEF Stages, Lands, Region, Span, Chunks
<1>9. InHand(t) = {} /\ InFlight(t) = {} /\ InHand(t)' = {} /\ InFlight(t)' = {}
  BY <1>2, <1>5, EmptyHands, EmptyHandsAfter DEF NoWish
<1>10. Grants' /\ Untouched' /\ RegionKept' /\ Separate' /\ MappedIsHeld'
  BY <1>2, <1>5, <1>9, QuietMove, SameCursor
<1>. QED
  BY <1>6, <1>7, <1>8, <1>10


(* Whoever the region had none for goes home, or looks elsewhere.              *)
LEMMA NoneLeaves ==
    ASSUME PagesShapes, NEW t \in Placers, NoneHere(t)
    PROVE  /\ wish' \in [Placers -> [step : {"none", "take", "commit", "too far", "search"},
                                     n : Nat, near : Nat, at : Nat, got : Nat, probe : Nat]]
           /\ wish'[t].step = "none" \/ (wish'[t].step = "search" /\ wish'[t].at = 0)
           /\ wish'[t].step \notin {"take", "commit", "too far"}
           /\ \A u \in Placers \ {t} : wish'[u] = wish[u]
<1>1. PICK r \in [step : {"none", "search"}, n : Nat, near : Nat, at : Nat, got : Nat,
                  probe : Nat] :
          /\ wish' = [wish EXCEPT ![t] = r]
          /\ r.step = "search" => r.at = 0
  <2>1. CASE wish[t].near = 0
    <3>1. /\ NoWish \in [step : {"none", "search"}, n : Nat, near : Nat, at : Nat, got : Nat,
                         probe : Nat]
          /\ NoWish.step = "none"
      BY DEF NoWish
    <3>. QED
      BY <2>1, <3>1 DEF NoneHere
  <2>2. CASE wish[t].near # 0
    <3>1. wish[t] \in [step : {"none", "take", "commit", "too far", "search"},
                       n : Nat, near : Nat, at : Nat, got : Nat, probe : Nat]
      BY DEF PagesShapes
    <3>2. /\ [wish[t] EXCEPT !.step = "search", !.at = 0] \in
                [step : {"none", "search"}, n : Nat, near : Nat, at : Nat, got : Nat,
                 probe : Nat]
          /\ [wish[t] EXCEPT !.step = "search", !.at = 0].at = 0
      BY <3>1
    <3>3. wish' = [wish EXCEPT ![t] = [wish[t] EXCEPT !.step = "search", !.at = 0]]
      BY <2>2 DEF NoneHere
    <3>. QED
      BY <3>2, <3>3
  <2>. QED
    BY <2>1, <2>2
<1>2. wish'[t] = r /\ \A u \in Placers \ {t} : wish'[u] = wish[u]
  BY <1>1 DEF PagesShapes
<1>3. wish' \in [Placers -> [step : {"none", "take", "commit", "too far", "search"},
                             n : Nat, near : Nat, at : Nat, got : Nat, probe : Nat]]
  BY <1>1 DEF PagesShapes
<1>. QED
  BY <1>1, <1>2, <1>3

(* The shapes of a step that changes one call and not what was asked.          *)
LEMMA ShapesKeep ==
    ASSUME PagesShapes, NEW t \in Placers,
           wish' \in [Placers -> [step : {"none", "take", "commit", "too far", "search"},
                                  n : Nat, near : Nat, at : Nat, got : Nat, probe : Nat]],
           \A u \in Placers \ {t} : wish'[u] = wish[u], wish'[t].step # "take",
           bigNext' \in Nat, places' = places,
           world' \in [Lands -> {"free", "reserved", "mapped"}],
           granted' \subseteq [at : Nat, n : Nat, near : Nat, placed : BOOLEAN]
    PROVE  PagesShapes'
BY DEF PagesShapes, Lands

LEMMA StagesKeep ==
    ASSUME Stages, NEW t \in Placers, \A u \in Placers \ {t} : wish'[u] = wish[u],
           wish'[t].step \in {"commit", "too far"} =>
              /\ wish'[t].got = Chunks(wish'[t].n) * BigChunk
              /\ Base <= wish'[t].at /\ wish'[t].at + wish'[t].got <= End,
           wish'[t].step = "search" /\ wish'[t].at # 0 =>
              Span(wish'[t].at, wish'[t].n) \subseteq Lands \ Region
    PROVE  Stages'
BY DEF Stages, Lands, Region, Span, Chunks

(* The count goes down by a taker and the cursor up by no more than one may     *)
(* take.                                                                       *)
LEMMA TakeCounts ==
    ASSUME NEW most, RequestsFit(most), PagesShapes, PagesShapes', CursorCounts(most),
           NEW t \in Placers, \A u \in Placers \ {t} : wish'[u] = wish[u],
           wish[t].step = "take", wish'[t].step # "take", NEW c \in Nat, c <= most,
           bigNext' = bigNext + c, places' = places
    PROVE  CursorCounts(most)'
<1>1. Cardinality(Takers)' = Cardinality(Takers) - 1 /\ Cardinality(Takers) \in Nat
  BY TakersMove
<1>2. bigNext \in Nat /\ places \in 0 .. MaxPlaces /\ most \in Nat
  BY DEF PagesShapes, RequestsFit
<1>3. PICK d \in Int : d = places - Cardinality(Takers)
  BY <1>1, <1>2
<1>4. bigNext <= d * most
  BY <1>3 DEF CursorCounts
<1>5. (d + 1) * most = d * most + most
  BY <1>2, <1>3
<1>6. places' - Cardinality(Takers)' = d + 1
  BY <1>1, <1>2, <1>3
<1>7. d * most \in Int
  BY <1>2, <1>3
<1>8. bigNext' <= (d + 1) * most
  BY <1>2, <1>4, <1>5, <1>7
<1>. QED
  BY <1>6, <1>8 DEF CursorCounts

(* Chunks taken begin where the cursor stood and end where it stands.           *)
LEMMA TakeKeeps ==
    ASSUME NEW most, RequestsFit(most), PagesInv(most), NEW t \in Placers, TakeBig(t)
    PROVE  PagesInv(most)'
<1>. USE DEF PagesInv
<1>1. PICK c \in Nat, l \in Nat :
         /\ c = Chunks(wish[t].n) /\ l = c * BigChunk /\ c <= most
         /\ (bigNext + c) % Word = bigNext + c
         /\ (Base + bigNext * BigChunk) % Word = Cursor
         /\ (Cursor + l) % Word = Cursor + l
         /\ Base + (bigNext + c) * BigChunk = Cursor + l
  <2>1. wish[t].step = "take"
    BY DEF TakeBig
  <2>2. wish[t].n \in Nat
    BY DEF PagesShapes
  <2>. QED
    BY <2>1, <2>2, NoTurn, ChunksAre
<1>2. /\ wish[t].step = "take" /\ bigNext' = bigNext + c
      /\ UNCHANGED <<world, granted, returned, places>>
  BY <1>1 DEF TakeBig
<1>3. Cursor \in Nat /\ Base <= Cursor /\ bigNext \in Nat /\ bigNext' \in Nat
  <2>1. bigNext \in Nat
    BY DEF PagesShapes
  <2>2. Base \in Nat /\ BigChunk \in Nat
    BY PagesAssumption
  <2>3. bigNext * BigChunk \in Nat
    BY <2>1, <2>2
  <2>. QED
    BY <2>1, <2>2, <2>3, <1>2 DEF Cursor
<1>4. Cursor' = Cursor + l /\ Cursor <= Cursor'
  BY <1>1, <1>2, <1>3 DEF Cursor
<1>5. world' \in [Lands -> {"free", "reserved", "mapped"}]
      /\ granted' \subseteq [at : Nat, n : Nat, near : Nat, placed : BOOLEAN]
  BY <1>2 DEF PagesShapes
<1>6. InHand(t) = {} /\ InFlight(t) = {}
  BY <1>2, EmptyHands
<1>7. CASE Cursor + l <= End
  <2>1. wish' = [wish EXCEPT ![t].step = "commit", ![t].at = Cursor, ![t].got = l]
    BY <1>1, <1>7 DEF TakeBig, FitsRegion
  <2>2. /\ wish' \in [Placers -> [step : {"none", "take", "commit", "too far", "search"},
                                  n : Nat, near : Nat, at : Nat, got : Nat, probe : Nat]]
        /\ \A u \in Placers \ {t} : wish'[u] = wish[u]
        /\ wish'[t].step = "commit" /\ wish'[t].at = Cursor /\ wish'[t].got = l
        /\ wish'[t].n = wish[t].n
    BY <2>1, <1>3, ZenonT(40) DEF PagesShapes
  <2>3. PagesShapes'
    BY <2>2, <1>2, <1>3, <1>5, ShapesKeep
  <2>4. CursorCounts(most)'
    BY <2>2, <2>3, <1>1, <1>2, TakeCounts
  <2>5. Stages'
    BY <2>2, <1>1, <1>3, <1>7, StagesKeep
  <2>6. InHand(t)' = Span(Cursor, l) /\ InFlight(t)' = {}
    BY <2>2 DEF InHand, InFlight, Span
  <2>7. \A a \in Span(Cursor, l) : a \in Region /\ Cursor <= a /\ ~ (Cursor' <= a)
    BY <1>3, <1>4, <1>7, PagesAssumption DEF Span, Region
  <2>8. Untouched' /\ Separate'
    <3>1. /\ \A g \in granted : Page(g) \cap InHand(t)' = {}
          /\ \A u \in Placers \ {t} : InHand(u) \cap InHand(t)' = {}
          /\ returned \cap InHand(t)' = {}
      BY <2>6, <2>7 DEF Untouched
    <3>2. \A a \in Region : Cursor' <= a => a \notin InHand(t)'
      BY <2>6, <2>7
    <3>. QED
      BY <3>1, <3>2, <2>2, <1>2, <1>3, <1>4, HandMoves
  <2>9. Grants' /\ RegionKept'
    BY <1>2 DEF Grants, RegionKept, Page, Extent, InRegion, Span, Chunks, Region, Lands,
                  Told, Far, Dist
  <2>10. MappedIsHeld'
    <3>1. \A u \in Placers : InFlight(u)' = InFlight(u)
      BY <2>2, <2>6, <1>6, HandsOf
    <3>. QED
      BY <3>1, <1>2 DEF MappedIsHeld, Page, Extent, InRegion, Span, Chunks, Lands
  <2>. QED
    BY <2>3, <2>4, <2>5, <2>8, <2>9, <2>10
<1>8. CASE ~ (Cursor + l <= End)
  <2>1. NoneHere(t)
    BY <1>1, <1>8 DEF TakeBig, FitsRegion
  <2>2. /\ wish' \in [Placers -> [step : {"none", "take", "commit", "too far", "search"},
                                  n : Nat, near : Nat, at : Nat, got : Nat, probe : Nat]]
        /\ \A u \in Placers \ {t} : wish'[u] = wish[u]
        /\ wish'[t].step = "none" \/ (wish'[t].step = "search" /\ wish'[t].at = 0)
        /\ wish'[t].step \notin {"take", "commit", "too far"}
    BY <2>1, NoneLeaves
  <2>3. PagesShapes'
    BY <2>2, <1>2, <1>3, <1>5, ShapesKeep
  <2>4. CursorCounts(most)'
    BY <2>2, <2>3, <1>1, <1>2, TakeCounts
  <2>5. Stages'
    BY <2>2, StagesKeep
  <2>6. InHand(t)' = {} /\ InFlight(t)' = {}
    BY <2>2, EmptyHandsAfter
  <2>. QED
    BY <2>2, <2>3, <2>4, <2>5, <2>6, <1>2, <1>3, <1>4, <1>6, QuietMove
<1>. QED
  BY <1>7, <1>8


-----------------------------------------------------------------------------
(* What is in hand and mapped becomes the program's: a record of just those     *)
(* pages, which nobody else has.                                               *)
LEMMA GrantKeeps ==
    ASSUME NEW most, RequestsFit(most), PagesInv(most), NEW t \in Placers,
           NEW near \in Nat, NEW placed \in BOOLEAN, Grant(t, near, placed),
           wish[t].step = "commit" \/ (wish[t].step = "search" /\ wish[t].at # 0),
           Told(wish[t].at, near, placed),
           UNCHANGED <<bigNext, returned, places>>,
           world' \in [Lands -> {"free", "reserved", "mapped"}],
           \A a \in Lands : world'[a] = "mapped" <=>
                               world[a] = "mapped" \/ a \in InHand(t),
           \A a \in Region : world'[a] # "free"
    PROVE  PagesInv(most)'
<1>. USE DEF PagesInv
<1>1. PICK g : /\ g = [at |-> wish[t].at, n |-> wish[t].n, near |-> near, placed |-> placed]
               /\ granted' = granted \cup {g}
  BY DEF Grant
<1>2. g.at = wish[t].at /\ g.n = wish[t].n /\ g.near = near /\ g.placed = placed
  BY <1>1
<1>3. wish[t].at \in Nat /\ wish[t].n \in Nat
  BY DEF PagesShapes
<1>4. g \in [at : Nat, n : Nat, near : Nat, placed : BOOLEAN]
  BY <1>1, <1>3
<1>5. /\ wish' \in [Placers -> [step : {"none", "take", "commit", "too far", "search"},
                                n : Nat, near : Nat, at : Nat, got : Nat, probe : Nat]]
      /\ wish'[t].step = "none" /\ \A u \in Placers \ {t} : wish'[u] = wish[u]
  <2>1. /\ NoWish \in [step : {"none", "take", "commit", "too far", "search"},
                       n : Nat, near : Nat, at : Nat, got : Nat, probe : Nat]
        /\ NoWish.step = "none"
    BY DEF NoWish
  <2>. QED
    BY <2>1 DEF Grant, PagesShapes
<1>6. bigNext \in Nat
  BY DEF PagesShapes
<1>7. granted' \subseteq [at : Nat, n : Nat, near : Nat, placed : BOOLEAN]
  BY <1>1, <1>4 DEF PagesShapes
<1>8. PagesShapes'
  BY <1>5, <1>6, <1>7, ShapesKeep
<1>9. CursorCounts(most)'
  BY <1>5, <1>8, CountsKeep
<1>10. Stages'
  BY <1>5, StagesKeep
<1>11. /\ Page(g) = InHand(t) /\ InFlight(t) \subseteq InHand(t) /\ InHand(t) \subseteq Lands
       /\ Page(g) \subseteq Region \/ Page(g) \subseteq Lands \ Region
  BY <1>2, HandIs DEF Page
<1>12. InHand(t)' = {} /\ InFlight(t)' = {}
  BY <1>5, EmptyHandsAfter
<1>13. Untouched' /\ Separate'
  BY <1>1, <1>5, <1>11, <1>12, GrantMoves
<1>14. \A h : Page(h)' = Page(h)
  BY DEF Page, Extent, InRegion, Span, Chunks
<1>15. /\ InRegion(g.at) => Page(g) \subseteq Region
       /\ ~ InRegion(g.at) => Page(g) \subseteq Lands \ Region
  <2>1. CASE g.n = 0
    <3>1. Page(g) = {}
      <4>1. Chunks(0) * BigChunk = 0
        BY ChunksAre
      <4>. QED
        BY <4>1, <2>1, <1>2, <1>3 DEF Page, Extent, Span
    <3>. QED
      BY <3>1
  <2>2. CASE g.n # 0
    <3>1. g.at \in Page(g)
      <4>1. Chunks(g.n) * BigChunk \in Nat /\ 1 <= Chunks(g.n) * BigChunk
        BY <2>2, <1>2, <1>3, ChunksAre
      <4>. QED
        BY <4>1, <2>2, <1>2, <1>3 DEF Page, Extent, Span
    <3>2. InRegion(g.at) <=> g.at \in Region
      BY DEF InRegion, Region
    <3>. QED
      BY <3>1, <3>2, <1>11
  <2>. QED
    BY <2>1, <2>2
<1>16. Grants'
  <2>1. ASSUME NEW h \in granted'
        PROVE  /\ InRegion(h.at) => Page(h) \subseteq Region
               /\ ~ InRegion(h.at) => Page(h) \subseteq Lands \ Region
               /\ Told(h.at, h.near, h.placed)
    <3>1. CASE h = g
      BY <3>1, <1>2, <1>15
    <3>2. CASE h # g
      BY <3>2, <1>1 DEF Grants
    <3>. QED
      BY <3>1, <3>2
  <2>. QED
    BY <2>1, <1>14 DEF Grants, InRegion, Region, Lands, Told, Far, Dist
<1>17. RegionKept'
  BY DEF RegionKept, Region
<1>18. MappedIsHeld'
  <2>1. \A u \in Placers \ {t} : InFlight(u)' = InFlight(u)
    BY <1>5, HandsOf
  <2>2. \A a \in Lands : (\E h \in granted' : a \in Page(h)) <=>
                            a \in InHand(t) \/ \E h \in granted : a \in Page(h)
    BY <1>1, <1>11
  <2>3. \A a \in Lands : (\E u \in Placers : a \in InFlight(u)') <=>
                            \E u \in Placers \ {t} : a \in InFlight(u)
    BY <2>1, <1>12
  <2>4. \A a \in Lands : world'[a] = "mapped" <=>
           \/ \E h \in granted' : a \in Page(h)
           \/ \E u \in Placers : a \in InFlight(u)'
    BY <2>2, <2>3, <1>11 DEF MappedIsHeld
  <2>. QED
    BY <2>4, <1>14 DEF MappedIsHeld, Lands
<1>. QED
  BY <1>8, <1>9, <1>10, <1>13, <1>16, <1>17, <1>18

(* What one thread has in hand is given back to the region or to the system.    *)
LEMMA DropKeeps ==
    ASSUME NEW most, RequestsFit(most), PagesInv(most), NEW t \in Placers,
           wish' \in [Placers -> [step : {"none", "take", "commit", "too far", "search"},
                                  n : Nat, near : Nat, at : Nat, got : Nat, probe : Nat]],
           \A u \in Placers \ {t} : wish'[u] = wish[u],
           wish'[t].step = "none" \/ (wish'[t].step = "search" /\ wish'[t].at = 0),
           wish[t].step # "take", UNCHANGED <<bigNext, granted, places>>,
           InHand(t) \subseteq Region \/ InHand(t) \subseteq Lands \ Region,
           returned' = IF InHand(t) \subseteq Region THEN returned \cup InFlight(t)
                       ELSE returned,
           NEW state \in {"free", "reserved"}, world' = Turned(InFlight(t), state),
           state = "free" => InFlight(t) \cap Region = {}
    PROVE  PagesInv(most)'
<1>. USE DEF PagesInv
<1>1. /\ InFlight(t) \subseteq InHand(t)
      /\ \A u \in Placers : InFlight(u) \subseteq InHand(u)
  BY HandIs
<1>2. /\ world' \in [Lands -> {"free", "reserved", "mapped"}]
      /\ \A a \in Lands : world'[a] = IF a \in InFlight(t) THEN state ELSE world[a]
  BY DEF Turned, PagesShapes
<1>3. PagesShapes'
  <2>1. bigNext \in Nat /\ granted \subseteq [at : Nat, n : Nat, near : Nat, placed : BOOLEAN]
    BY DEF PagesShapes
  <2>. QED
    BY <2>1, <1>2, ShapesKeep
<1>4. CursorCounts(most)'
  BY <1>3, CountsKeep
<1>5. Stages'
  BY StagesKeep
<1>6. InHand(t)' = {} /\ InFlight(t)' = {}
  BY EmptyHandsAfter
<1>7. \A u \in Placers \ {t} : InHand(u)' = InHand(u) /\ InFlight(u)' = InFlight(u)
  BY HandsOf
<1>8. \A h : Page(h)' = Page(h)
  BY DEF Page, Extent, InRegion, Span, Chunks
<1>9. Untouched'
  BY <1>1, <1>6, <1>7, <1>8, ZenonT(40) DEF Untouched, Region, Cursor
<1>10. Separate'
  <2>1. \A g \in granted : Page(g) \cap returned' = {}
    BY <1>1 DEF Separate
  <2>2. \A u \in Placers \ {t} : InHand(u) \cap returned' = {}
    BY <1>1 DEF Separate
  <2>. QED
    BY <2>1, <2>2, <1>6, <1>7, <1>8 DEF Separate
<1>11. Grants'
  BY <1>8 DEF Grants, InRegion, Region, Lands, Told, Far, Dist
<1>12. RegionKept'
  <2>1. \A a \in Region : world'[a] # "free"
    BY <1>2, RegionIsLand DEF RegionKept
  <2>2. returned' \subseteq Region
    BY <1>1 DEF RegionKept
  <2>. QED
    BY <2>1, <2>2 DEF RegionKept, Region
<1>13. MappedIsHeld'
  <2>1. \A a \in InFlight(t) :
           /\ \A g \in granted : a \notin Page(g)
           /\ \A u \in Placers \ {t} : a \notin InFlight(u)
    BY <1>1 DEF Separate
  <2>2. \A a \in Lands : world'[a] = "mapped" <=>
           \/ \E h \in granted : a \in Page(h)
           \/ \E u \in Placers : a \in InFlight(u)'
    <3>0. \A a \in Lands : (\E u \in Placers : a \in InFlight(u)') <=>
                              \E u \in Placers \ {t} : a \in InFlight(u)
      BY <1>6, <1>7
    <3>1. SUFFICES ASSUME NEW a \in Lands
                   PROVE  world'[a] = "mapped" <=>
                             \/ \E h \in granted : a \in Page(h)
                             \/ \E u \in Placers \ {t} : a \in InFlight(u)
      BY <3>0
    <3>2. CASE a \in InFlight(t)
      BY <3>2, <2>1, <1>2
    <3>3. CASE a \notin InFlight(t)
      BY <3>3, <1>2 DEF MappedIsHeld
    <3>. QED
      BY <3>2, <3>3
  <2>. QED
    BY <2>2, <1>8 DEF MappedIsHeld, Lands
<1>. QED
  BY <1>3, <1>4, <1>5, <1>9, <1>10, <1>11, <1>12, <1>13


-----------------------------------------------------------------------------
(* An anchor is in its page, so what is near the page is nearly near it.         *)
LEMMA NearThePage ==
    ASSUME NEW page \in Nat, NEW near \in Nat, Far(page, PageOf(near) * PageBytes) <= Reach
    PROVE  Far(page, near) < Reach + PageBytes
<1>1. PageBytes \in Nat /\ 1 <= PageBytes /\ Reach \in Nat
  BY PagesAssumption
<1>2. PICK p \in Int, b \in Int, a \in Int :
         p = PageOf(near) /\ b = p * PageBytes /\ a = page * PageBytes
  BY <1>1 DEF PageOf
<1>3. PageBytes * p <= near /\ near < PageBytes * p + PageBytes
  BY <1>1, <1>2 DEF PageOf
<1>4. b = PageBytes * p
  BY <1>1, <1>2
<1>5. Dist(a, b) <= Reach
  BY <1>2 DEF Far
<1>6. Dist(a, near) < Reach + PageBytes
  BY <1>1, <1>2, <1>3, <1>4, <1>5 DEF Dist
<1>. QED
  BY <1>2, <1>6 DEF Far

LEMMA CommitKeeps ==
    ASSUME NEW most, RequestsFit(most), PagesInv(most), NEW t \in Placers, CommitPages(t)
    PROVE  PagesInv(most)'
<1>. USE DEF PagesInv
<1>1. /\ wish[t].step = "commit" /\ UNCHANGED <<bigNext, returned, places>>
      /\ world' = Turned(InHand(t), "mapped")
  BY DEF CommitPages, InHand
<1>2. /\ InHand(t) = Extent(wish[t].at, wish[t].n) /\ InHand(t) \subseteq Region
      /\ InFlight(t) = {} /\ InHand(t) = Span(wish[t].at, wish[t].got)
  BY <1>1, HandIs
<1>3. /\ world' \in [Lands -> {"free", "reserved", "mapped"}]
      /\ \A a \in Lands : world'[a] = IF a \in InHand(t) THEN "mapped" ELSE world[a]
  BY <1>1 DEF Turned, PagesShapes
<1>4. /\ \A a \in Lands : world'[a] = "mapped" <=> world[a] = "mapped" \/ a \in InHand(t)
      /\ \A a \in Region : world'[a] # "free"
  BY <1>3, RegionIsLand DEF RegionKept
<1>5. CASE wish[t].near = 0
  <2>1. Grant(t, 0, FALSE) /\ Told(wish[t].at, 0, FALSE)
    BY <1>5 DEF CommitPages, Told
  <2>. QED
    BY <2>1, <1>1, <1>3, <1>4, GrantKeeps
<1>6. CASE wish[t].near # 0 /\ Far(wish[t].at, wish[t].near) <= Reach
  <2>1. Grant(t, wish[t].near, TRUE) /\ wish[t].near \in Nat /\ wish[t].at \in Nat
    BY <1>6 DEF CommitPages, PagesShapes
  <2>2. Told(wish[t].at, wish[t].near, TRUE)
    <3>1. PICK d \in Int : d = Far(wish[t].at, wish[t].near)
      BY <2>1, PagesAssumption DEF Far, Dist
    <3>2. Reach \in Nat /\ PageBytes \in Nat /\ 1 <= PageBytes
      BY PagesAssumption
    <3>3. d <= Reach /\ d < Reach + PageBytes
      BY <3>1, <3>2, <1>6
    <3>. QED
      BY <3>1, <3>3 DEF Told
  <2>. QED
    BY <2>1, <2>2, <1>1, <1>3, <1>4, GrantKeeps
<1>7. CASE wish[t].near # 0 /\ ~ (Far(wish[t].at, wish[t].near) <= Reach)
  <2>1. wish' = [wish EXCEPT ![t].step = "too far"] /\ UNCHANGED granted
    BY <1>7 DEF CommitPages
  <2>2. /\ wish' \in [Placers -> [step : {"none", "take", "commit", "too far", "search"},
                                  n : Nat, near : Nat, at : Nat, got : Nat, probe : Nat]]
        /\ \A u \in Placers \ {t} : wish'[u] = wish[u]
        /\ wish'[t].step = "too far" /\ wish'[t].at = wish[t].at
        /\ wish'[t].got = wish[t].got /\ wish'[t].n = wish[t].n
    BY <2>1 DEF PagesShapes
  <2>3. PagesShapes'
    <3>1. bigNext \in Nat /\ granted \subseteq [at : Nat, n : Nat, near : Nat, placed : BOOLEAN]
      BY DEF PagesShapes
    <3>. QED
      BY <3>1, <2>1, <2>2, <1>1, <1>3, ShapesKeep
  <2>4. CursorCounts(most)'
    BY <2>2, <2>3, <1>1, CountsKeep
  <2>5. Stages'
    <3>1. /\ wish[t].got = Chunks(wish[t].n) * BigChunk
          /\ Base <= wish[t].at /\ wish[t].at + wish[t].got <= End
      BY <1>1 DEF Stages
    <3>. QED
      BY <3>1, <2>2, StagesKeep
  <2>6. InHand(t)' = InHand(t) /\ InFlight(t)' = InHand(t)
    BY <2>2, <1>2 DEF InHand, InFlight, Extent, InRegion, Span, Chunks
  <2>7. \A u \in Placers \ {t} : InHand(u)' = InHand(u) /\ InFlight(u)' = InFlight(u)
    BY <2>2, HandsOf
  <2>8. \A h : Page(h)' = Page(h)
    BY DEF Page, Extent, InRegion, Span, Chunks
  <2>9. Untouched' /\ Separate'
    BY <2>1, <2>6, <2>7, <2>8, <1>1, ZenonT(40) DEF Untouched, Separate, Region, Cursor
  <2>10. Grants' /\ RegionKept'
    BY <2>1, <2>8, <1>1, <1>4 DEF Grants, RegionKept, InRegion, Region, Lands, Told, Far, Dist
  <2>11. MappedIsHeld'
    <3>1. \A a \in Lands : world'[a] = "mapped" <=>
             \/ \E h \in granted : a \in Page(h)
             \/ \E u \in Placers : a \in InFlight(u)'
      BY <2>6, <2>7, <1>2, <1>4 DEF MappedIsHeld
    <3>. QED
      BY <3>1, <2>1, <2>8 DEF MappedIsHeld, Lands
  <2>. QED
    BY <2>3, <2>4, <2>5, <2>9, <2>10, <2>11
<1>. QED
  BY <1>5, <1>6, <1>7

LEMMA RefusedKeeps ==
    ASSUME NEW most, RequestsFit(most), PagesInv(most), NEW t \in Placers,
           CommitRefused(t)
    PROVE  PagesInv(most)'
<1>. USE DEF PagesInv
<1>1. /\ wish[t].step = "commit" /\ NoneHere(t)
      /\ UNCHANGED <<bigNext, world, granted, places>>
  BY DEF CommitRefused
<1>2. /\ wish' \in [Placers -> [step : {"none", "take", "commit", "too far", "search"},
                                n : Nat, near : Nat, at : Nat, got : Nat, probe : Nat]]
      /\ \A u \in Placers \ {t} : wish'[u] = wish[u]
      /\ wish'[t].step = "none" \/ (wish'[t].step = "search" /\ wish'[t].at = 0)
      /\ wish'[t].step \notin {"take", "commit", "too far"}
  BY <1>1, NoneLeaves
<1>3. /\ InHand(t) = Span(wish[t].at, wish[t].got) /\ InHand(t) \subseteq Region
      /\ InFlight(t) = {}
  BY <1>1, HandIs
<1>4. returned' = returned \cup InHand(t)
  BY <1>3 DEF CommitRefused
<1>5. PagesShapes'
  <2>1. /\ bigNext \in Nat /\ granted \subseteq [at : Nat, n : Nat, near : Nat, placed : BOOLEAN]
        /\ world \in [Lands -> {"free", "reserved", "mapped"}]
    BY DEF PagesShapes
  <2>. QED
    BY <2>1, <1>1, <1>2, ShapesKeep
<1>6. CursorCounts(most)'
  BY <1>1, <1>2, <1>5, CountsKeep
<1>7. Stages'
  BY <1>2, StagesKeep
<1>8. InHand(t)' = {} /\ InFlight(t)' = {}
  BY <1>2, EmptyHandsAfter
<1>9. \A u \in Placers \ {t} : InHand(u)' = InHand(u) /\ InFlight(u)' = InFlight(u)
  BY <1>2, HandsOf
<1>10. \A h : Page(h)' = Page(h)
  BY DEF Page, Extent, InRegion, Span, Chunks
<1>11. Untouched'
  BY <1>1, <1>4, <1>8, <1>9, <1>10, ZenonT(40) DEF Untouched, Region, Cursor
<1>12. Separate'
  <2>1. \A g \in granted : Page(g) \cap returned' = {}
    BY <1>4 DEF Separate
  <2>2. \A u \in Placers \ {t} : InHand(u) \cap returned' = {}
    BY <1>4 DEF Separate
  <2>. QED
    BY <2>1, <2>2, <1>1, <1>8, <1>9, <1>10 DEF Separate
<1>13. Grants'
  BY <1>1, <1>10 DEF Grants, InRegion, Region, Lands, Told, Far, Dist
<1>14. RegionKept'
  BY <1>1, <1>3, <1>4 DEF RegionKept, Region
<1>15. MappedIsHeld'
  <2>1. \A u \in Placers : InFlight(u)' = InFlight(u)
    BY <1>3, <1>8, <1>9
  <2>. QED
    BY <2>1, <1>1, <1>10 DEF MappedIsHeld, Lands
<1>. QED
  BY <1>5, <1>6, <1>7, <1>11, <1>12, <1>13, <1>14, <1>15

LEMMA TooFarKeeps ==
    ASSUME NEW most, RequestsFit(most), PagesInv(most), NEW t \in Placers, TooFar(t)
    PROVE  PagesInv(most)'
<1>. USE DEF PagesInv
<1>1. /\ wish[t].step = "too far" /\ NoneHere(t)
      /\ UNCHANGED <<bigNext, granted, places>>
  BY DEF TooFar
<1>2. /\ wish' \in [Placers -> [step : {"none", "take", "commit", "too far", "search"},
                                n : Nat, near : Nat, at : Nat, got : Nat, probe : Nat]]
      /\ \A u \in Placers \ {t} : wish'[u] = wish[u]
      /\ wish'[t].step = "none" \/ (wish'[t].step = "search" /\ wish'[t].at = 0)
  BY <1>1, NoneLeaves
<1>3. /\ InHand(t) = Span(wish[t].at, wish[t].got) /\ InHand(t) \subseteq Region
      /\ InFlight(t) = InHand(t)
  BY <1>1, HandIs
<1>4. world' = Turned(InFlight(t), "reserved") /\ returned' = returned \cup InFlight(t)
  BY <1>3 DEF TooFar
<1>. QED
  BY <1>1, <1>2, <1>3, <1>4, DropKeeps

(* The next place to try: nothing in hand.                                      *)
LEMMA NextIs ==
    ASSUME PagesShapes, NEW t \in Placers, wish[t].step = "search",
           wish' = [wish EXCEPT ![t] = NextProbe(wish[t])]
    PROVE  /\ wish' \in [Placers -> [step : {"none", "take", "commit", "too far", "search"},
                                     n : Nat, near : Nat, at : Nat, got : Nat, probe : Nat]]
           /\ \A u \in Placers \ {t} : wish'[u] = wish[u]
           /\ wish'[t].step = "search" /\ wish'[t].at = 0
<1>1. wish[t] \in [step : {"none", "take", "commit", "too far", "search"},
                   n : Nat, near : Nat, at : Nat, got : Nat, probe : Nat]
  BY DEF PagesShapes
<1>2. PICK k \in Nat : NextProbe(wish[t]) = [wish[t] EXCEPT !.at = 0, !.probe = k]
  <2>1. CASE wish[t].probe = 0 /\ wish[t].at # 0
    BY <2>1 DEF NextProbe
  <2>2. CASE ~ (wish[t].probe = 0 /\ wish[t].at # 0)
    <3>1. wish[t].probe \in Nat
      BY <1>1
    <3>2. PICK k \in Nat : k = wish[t].probe + 1
      BY <3>1
    <3>3. NextProbe(wish[t]) = [wish[t] EXCEPT !.at = 0, !.probe = k]
      BY <3>2, <2>2 DEF NextProbe
    <3>. QED
      BY <3>3
  <2>. QED
    BY <2>1, <2>2
<1>3. PICK r : r = [wish[t] EXCEPT !.at = 0, !.probe = k]
  OBVIOUS
<1>4. /\ r \in [step : {"none", "take", "commit", "too far", "search"},
               n : Nat, near : Nat, at : Nat, got : Nat, probe : Nat]
      /\ r.step = "search" /\ r.at = 0
  BY <1>1, <1>3
<1>5. wish' = [wish EXCEPT ![t] = r]
  BY <1>2, <1>3
<1>. QED
  BY <1>4, <1>5, ZenonT(40) DEF PagesShapes

LEMMA UnmapKeeps ==
    ASSUME NEW most, RequestsFit(most), PagesInv(most), NEW t \in Placers, UnmapPages(t)
    PROVE  PagesInv(most)'
<1>. USE DEF PagesInv
<1>1. /\ wish[t].step = "search" /\ wish[t].at # 0
      /\ wish' = [wish EXCEPT ![t] = NextProbe(wish[t])]
      /\ world' = Turned(Span(wish[t].at, wish[t].n), "free")
      /\ UNCHANGED <<bigNext, granted, returned, places>>
  BY DEF UnmapPages
<1>2. /\ wish' \in [Placers -> [step : {"none", "take", "commit", "too far", "search"},
                                n : Nat, near : Nat, at : Nat, got : Nat, probe : Nat]]
      /\ \A u \in Placers \ {t} : wish'[u] = wish[u]
      /\ wish'[t].step = "search" /\ wish'[t].at = 0
  BY <1>1, NextIs
<1>3. /\ InHand(t) = Span(wish[t].at, wish[t].n) /\ InHand(t) \subseteq Lands \ Region
      /\ InFlight(t) = InHand(t)
  BY <1>1, HandIs
<1>4. returned' = IF InHand(t) \subseteq Region THEN returned \cup InFlight(t) ELSE returned
  <2>1. CASE InHand(t) \subseteq Region
    <3>1. InHand(t) = {}
      BY <2>1, <1>3
    <3>. QED
      BY <3>1, <1>1, <1>3
  <2>. QED
    BY <2>1, <1>1
<1>. QED
  BY <1>1, <1>2, <1>3, <1>4, DropKeeps, ZenonT(40)

LEMMA MapRefusedKeeps ==
    ASSUME NEW most, RequestsFit(most), PagesInv(most), NEW t \in Placers, MapRefused(t)
    PROVE  PagesInv(most)'
<1>. USE DEF PagesInv
<1>1. /\ wish[t].step = "search" /\ wish[t].at = 0
      /\ wish' = [wish EXCEPT ![t] = NoWish] \/ wish' = [wish EXCEPT ![t] = NextProbe(wish[t])]
      /\ UNCHANGED <<bigNext, world, granted, returned, places>>
  BY DEF MapRefused
<1>2. /\ wish' \in [Placers -> [step : {"none", "take", "commit", "too far", "search"},
                                n : Nat, near : Nat, at : Nat, got : Nat, probe : Nat]]
      /\ \A u \in Placers \ {t} : wish'[u] = wish[u]
      /\ wish'[t].step = "none" \/ (wish'[t].step = "search" /\ wish'[t].at = 0)
  <2>1. CASE wish' = [wish EXCEPT ![t] = NoWish]
    <3>1. /\ NoWish \in [step : {"none", "take", "commit", "too far", "search"},
                         n : Nat, near : Nat, at : Nat, got : Nat, probe : Nat]
          /\ NoWish.step = "none"
      BY DEF NoWish
    <3>. QED
      BY <2>1, <3>1 DEF PagesShapes
  <2>2. CASE wish' = [wish EXCEPT ![t] = NextProbe(wish[t])]
    BY <2>2, <1>1, NextIs
  <2>. QED
    BY <2>1, <2>2, <1>1
<1>3. PagesShapes'
  <2>1. /\ bigNext \in Nat /\ granted \subseteq [at : Nat, n : Nat, near : Nat, placed : BOOLEAN]
        /\ world \in [Lands -> {"free", "reserved", "mapped"}]
    BY DEF PagesShapes
  <2>. QED
    BY <2>1, <1>1, <1>2, ShapesKeep
<1>4. CursorCounts(most)'
  BY <1>1, <1>2, <1>3, CountsKeep
<1>5. Stages'
  BY <1>2, StagesKeep
<1>6. InHand(t)' = {} /\ InFlight(t)' = {} /\ InFlight(t) = {}
  BY <1>1, <1>2, EmptyHandsAfter, EmptyHands
<1>. QED
  BY <1>1, <1>2, <1>3, <1>4, <1>5, <1>6, QuietMove, SameCursor


(* The system maps only what is free: pages that are nobody's.                  *)
LEMMA MapKeeps ==
    ASSUME NEW most, RequestsFit(most), PagesInv(most), NEW t \in Placers,
           NEW a \in Lands, MapPages(t, a)
    PROVE  PagesInv(most)'
<1>. USE DEF PagesInv
<1>1. /\ wish[t].step = "search" /\ wish[t].at = 0 /\ a \in FreeFor(wish[t].n)
      /\ world' = Turned(Span(a, wish[t].n), "mapped")
      /\ wish' = [wish EXCEPT ![t].at = a]
      /\ UNCHANGED <<bigNext, granted, returned, places>>
  BY DEF MapPages
<1>2. PICK new : new = Span(a, wish[t].n)
  OBVIOUS
<1>3. \A b \in new : b \in Lands /\ world[b] = "free"
  BY <1>1, <1>2 DEF FreeFor
<1>4. new \subseteq Lands \ Region
  BY <1>3 DEF RegionKept
<1>5. a \in Nat /\ a # 0
  BY DEF Lands
<1>6. /\ wish' \in [Placers -> [step : {"none", "take", "commit", "too far", "search"},
                                n : Nat, near : Nat, at : Nat, got : Nat, probe : Nat]]
      /\ \A u \in Placers \ {t} : wish'[u] = wish[u]
      /\ wish'[t].step = "search" /\ wish'[t].at = a /\ wish'[t].n = wish[t].n
  BY <1>1, <1>5 DEF PagesShapes
<1>7. /\ world' \in [Lands -> {"free", "reserved", "mapped"}]
      /\ \A b \in Lands : world'[b] = IF b \in new THEN "mapped" ELSE world[b]
  BY <1>1, <1>2 DEF Turned, PagesShapes
<1>8. PagesShapes'
  <2>1. bigNext \in Nat /\ granted \subseteq [at : Nat, n : Nat, near : Nat, placed : BOOLEAN]
    BY DEF PagesShapes
  <2>. QED
    BY <2>1, <1>1, <1>6, <1>7, ShapesKeep
<1>9. CursorCounts(most)'
  BY <1>1, <1>6, <1>8, CountsKeep
<1>10. Stages'
  BY <1>2, <1>4, <1>6, StagesKeep
<1>11. InHand(t) = {} /\ InFlight(t) = {}
  BY <1>1, EmptyHands
<1>12. InHand(t)' = new /\ InFlight(t)' = new
  <2>1. wish[t].n \in Nat
    BY DEF PagesShapes
  <2>2. Extent(a, wish[t].n) = new
    BY <2>1, <1>2, <1>4, <1>5, ExtentIs
  <2>3. InFlight(t)' = Extent(a, wish[t].n)
    BY <1>5, <1>6 DEF InFlight, Extent, InRegion, Span, Chunks
  <2>4. InHand(t)' = InFlight(t)'
    BY <1>6 DEF InHand
  <2>. QED
    BY <2>2, <2>3, <2>4
<1>13. /\ \A g \in granted : Page(g) \cap new = {}
       /\ \A u \in Placers \ {t} : InHand(u) \cap new = {}
       /\ returned \cap new = {}
  <2>1. \A b \in new : /\ \A g \in granted : b \notin Page(g)
                       /\ \A u \in Placers : b \notin InFlight(u)
    BY <1>3 DEF MappedIsHeld
  <2>2. \A u \in Placers : InHand(u) = InFlight(u) \/ InHand(u) \subseteq Region
    <3>1. SUFFICES ASSUME NEW u \in Placers
                   PROVE  InHand(u) = InFlight(u) \/ InHand(u) \subseteq Region
      OBVIOUS
    <3>2. wish[u].step = "commit" => InHand(u) \subseteq Region
      BY HandIs
    <3>3. wish[u].step # "commit" => InHand(u) = InFlight(u)
      BY DEF InHand
    <3>. QED
      BY <3>2, <3>3
  <2>3. \A u \in Placers : InHand(u) \cap new = {}
    BY <2>1, <2>2, <1>4
  <2>. QED
    BY <2>1, <2>3, <1>4 DEF RegionKept
<1>14. Untouched' /\ Separate'
  <2>1. \A b \in Region : Cursor' <= b => b \notin InHand(t)'
    BY <1>4, <1>12
  <2>. QED
    BY <2>1, <1>1, <1>6, <1>12, <1>13, HandMoves, SameCursor
<1>15. \A h : Page(h)' = Page(h)
  BY DEF Page, Extent, InRegion, Span, Chunks
<1>16. Grants'
  BY <1>1, <1>15 DEF Grants, InRegion, Region, Lands, Told, Far, Dist
<1>17. RegionKept'
  <2>1. \A b \in Region : world'[b] # "free"
    BY <1>7, RegionIsLand DEF RegionKept
  <2>. QED
    BY <2>1, <1>1 DEF RegionKept, Region
<1>18. MappedIsHeld'
  <2>1. \A u \in Placers \ {t} : InFlight(u)' = InFlight(u)
    BY <1>6, HandsOf
  <2>2. \A b \in Lands : (\E u \in Placers : b \in InFlight(u)') <=>
                            b \in new \/ \E u \in Placers : b \in InFlight(u)
    BY <2>1, <1>11, <1>12
  <2>3. \A b \in Lands : world'[b] = "mapped" <=>
           \/ \E h \in granted : b \in Page(h)
           \/ \E u \in Placers : b \in InFlight(u)'
    <3>1. SUFFICES ASSUME NEW b \in Lands
                   PROVE  world'[b] = "mapped" <=>
                             \/ \E h \in granted : b \in Page(h)
                             \/ b \in new \/ \E u \in Placers : b \in InFlight(u)
      BY <2>2
    <3>. QED
      BY <1>7 DEF MappedIsHeld
  <2>. QED
    BY <2>3, <1>1, <1>15 DEF MappedIsHeld, Lands
<1>. QED
  BY <1>8, <1>9, <1>10, <1>14, <1>16, <1>17, <1>18

LEMMA KeepKeeps ==
    ASSUME NEW most, RequestsFit(most), PagesInv(most), NEW t \in Placers, KeepPages(t)
    PROVE  PagesInv(most)'
<1>. USE DEF PagesInv
<1>1. /\ wish[t].step = "search" /\ wish[t].at # 0
      /\ wish[t].near # 0 => InWindow(wish[t])
      /\ Grant(t, wish[t].near, wish[t].near # 0 /\ Far(wish[t].at, wish[t].near) <= Reach)
      /\ UNCHANGED <<bigNext, world, returned, places>>
  BY DEF KeepPages
<1>4. world' \in [Lands -> {"free", "reserved", "mapped"}]
  BY <1>1 DEF PagesShapes
<1>5. /\ \A a \in Lands : world'[a] = "mapped" <=> world[a] = "mapped" \/ a \in InHand(t)
      /\ \A a \in Region : world'[a] # "free"
  <2>1. InFlight(t) = InHand(t) /\ InHand(t) \subseteq Lands
    BY <1>1, HandIs
  <2>. QED
    BY <2>1, <1>1 DEF MappedIsHeld, RegionKept
<1>6. PICK placed \in BOOLEAN :
         placed = (wish[t].near # 0 /\ Far(wish[t].at, wish[t].near) <= Reach)
  OBVIOUS
<1>7. Grant(t, wish[t].near, placed)
  BY <1>1, <1>6
<1>8. wish[t].near \in Nat /\ wish[t].at \in Nat
  BY DEF PagesShapes
<1>9. Told(wish[t].at, wish[t].near, placed)
  <2>1. wish[t].near # 0 => Far(wish[t].at, wish[t].near) < Reach + PageBytes
    BY <1>1, <1>8, NearThePage DEF InWindow
  <2>. QED
    BY <2>1, <1>6, Zenon DEF Told
<1>. QED
  BY <1>1, <1>4, <1>5, <1>7, <1>8, <1>9, GrantKeeps

(* What the program gives back is nobody else's, and nobody's after.            *)
LEMMA FreeKeeps ==
    ASSUME NEW most, RequestsFit(most), PagesInv(most), NEW g \in granted, FreePages(g)
    PROVE  PagesInv(most)'
<1>. USE DEF PagesInv
<1>1. /\ granted' = granted \ {g} /\ UNCHANGED <<bigNext, wish, places>>
      /\ world' = FreeTaken(g)
  BY DEF FreePages
<1>2. g.at \in Nat /\ g.n \in Nat
  BY DEF PagesShapes
<1>3. PICK state \in {"free", "reserved"} :
         /\ world' = Turned(Page(g), state)
         /\ returned' = IF InRegion(g.at) THEN returned \cup Page(g) ELSE returned
         /\ state = "free" <=> ~ InRegion(g.at)
  <2>1. CASE InRegion(g.at)
    <3>1. Page(g) = Span(g.at, Chunks(g.n) * BigChunk)
      BY <2>1, <1>2, ExtentIs DEF Page
    <3>. QED
      BY <3>1, <2>1, <1>1 DEF FreePages, FreeTaken
  <2>2. CASE ~ InRegion(g.at)
    <3>1. Page(g) = Span(g.at, g.n)
      BY <2>2, <1>2, ExtentIs DEF Page
    <3>. QED
      BY <3>1, <2>2, <1>1 DEF FreePages, FreeTaken
  <2>. QED
    BY <2>1, <2>2
<1>4. /\ world' \in [Lands -> {"free", "reserved", "mapped"}]
      /\ \A a \in Lands : world'[a] = IF a \in Page(g) THEN state ELSE world[a]
  BY <1>3 DEF Turned, PagesShapes
<1>5. /\ InRegion(g.at) => Page(g) \subseteq Region
      /\ ~ InRegion(g.at) => Page(g) \subseteq Lands \ Region
  BY DEF Grants
<1>6. PagesShapes'
  BY <1>1, <1>4 DEF PagesShapes, Lands
<1>7. CursorCounts(most)'
  BY <1>1 DEF CursorCounts, Takers
<1>8. Stages'
  BY <1>1 DEF Stages, Lands, Region, Span, Chunks
<1>9. \A u \in Placers : InHand(u)' = InHand(u) /\ InFlight(u)' = InFlight(u)
  BY <1>1, HandsOf
<1>10. \A h : Page(h)' = Page(h)
  BY DEF Page, Extent, InRegion, Span, Chunks
<1>11. Grants'
  BY <1>1, <1>10 DEF Grants, InRegion, Region, Lands, Told, Far, Dist
<1>12. /\ \A h \in granted' : Page(h) \cap Page(g) = {}
       /\ \A u \in Placers : InHand(u) \cap Page(g) = {} /\ InFlight(u) \cap Page(g) = {}
  <2>1. \A u \in Placers : InFlight(u) \subseteq InHand(u)
    BY HandIs
  <2>. QED
    BY <2>1, <1>1 DEF Separate
<1>13. Untouched'
  BY <1>1, <1>3, <1>9, <1>10 DEF Untouched, Region, Cursor
<1>14. Separate'
  <2>1. \A h \in granted' : Page(h) \cap returned' = {}
    BY <1>1, <1>3, <1>12 DEF Separate
  <2>2. \A u \in Placers : InHand(u) \cap returned' = {}
    BY <1>3, <1>12 DEF Separate
  <2>. QED
    BY <2>1, <2>2, <1>1, <1>9, <1>10 DEF Separate
<1>15. RegionKept'
  <2>1. \A a \in Region : world'[a] # "free"
    BY <1>3, <1>4, <1>5, RegionIsLand DEF RegionKept
  <2>2. returned' \subseteq Region
    BY <1>3, <1>5 DEF RegionKept
  <2>. QED
    BY <2>1, <2>2 DEF RegionKept, Region
<1>16. MappedIsHeld'
  <2>1. ASSUME NEW a \in Lands
        PROVE  world'[a] = "mapped" <=> \/ \E h \in granted' : a \in Page(h)
                                        \/ \E u \in Placers : a \in InFlight(u)'
    <3>1. CASE a \in Page(g)
      BY <3>1, <1>4, <1>9, <1>12
    <3>2. CASE a \notin Page(g)
      BY <3>2, <1>1, <1>4, <1>9 DEF MappedIsHeld
    <3>. QED
      BY <3>1, <3>2
  <2>. QED
    BY <2>1, <1>10 DEF MappedIsHeld, Lands
<1>. QED
  BY <1>6, <1>7, <1>8, <1>11, <1>13, <1>14, <1>15, <1>16

-----------------------------------------------------------------------------
LEMMA PagesStep ==
    ASSUME NEW most, RequestsFit(most), PagesInv(most), [PagesNext]_pageVars
    PROVE  PagesInv(most)'
<1>1. CASE UNCHANGED pageVars
  <2>1. /\ UNCHANGED <<bigNext, world, wish>>
        /\ UNCHANGED <<granted, returned, places>>
    BY <1>1 DEF pageVars
  <2>2. \A u \in Placers : InHand(u)' = InHand(u) /\ InFlight(u)' = InFlight(u)
    BY <2>1, HandsOf
  <2>3. \A h : Page(h)' = Page(h)
    BY DEF Page, Extent, InRegion, Span, Chunks
  <2>4. PagesShapes' /\ CursorCounts(most)' /\ Stages' /\ RegionKept'
    BY <2>1 DEF PagesInv, PagesShapes, CursorCounts, Takers, Stages, RegionKept, Lands,
                Region, Span, Chunks
  <2>5. Grants' /\ Untouched' /\ Separate' /\ MappedIsHeld'
    BY <2>1, <2>2, <2>3 DEF PagesInv, Grants, Untouched, Separate, MappedIsHeld, Lands,
                            Region, InRegion, Told, Far, Dist, Cursor
  <2>. QED
    BY <2>4, <2>5 DEF PagesInv
<1>2. ASSUME NEW t \in Placers, NEW n \in Wanted,
             AskInRegion(t, n) \/ \E near \in Anchors : AskPages(t, n, near)
      PROVE  PagesInv(most)'
  BY <1>2, AskKeeps
<1>3. ASSUME NEW t \in Placers,
             \/ TakeBig(t) \/ CommitPages(t) \/ CommitRefused(t) \/ TooFar(t)
             \/ \E a \in Lands : MapPages(t, a)
             \/ MapRefused(t) \/ KeepPages(t) \/ UnmapPages(t)
      PROVE  PagesInv(most)'
  BY <1>3, TakeKeeps, CommitKeeps, RefusedKeeps, TooFarKeeps, MapKeeps, MapRefusedKeeps,
     KeepKeeps, UnmapKeeps
<1>4. ASSUME NEW g \in granted, FreePages(g)
      PROVE  PagesInv(most)'
  BY <1>4, FreeKeeps
<1>. QED
  BY <1>1, <1>2, <1>3, <1>4 DEF PagesNext

-----------------------------------------------------------------------------
(* Whoever an address of the region was dealt to, or that it was given back.     *)
Had(a) ==
    \/ \E g \in granted : a \in Page(g)
    \/ \E u \in Placers : a \in InHand(u)
    \/ a \in returned

LEMMA HadIsDealt ==
    \A a : DealtTo(a) <=> Had(a)
<1>1. \A u \in Placers : InHand(u) = (IF wish[u].step = "commit"
                                     THEN Span(wish[u].at, wish[u].got) ELSE {}) \cup InFlight(u)
  BY DEF InHand, InFlight
<1>2. ASSUME NEW a
      PROVE  (\E u \in Placers : a \in InHand(u)) <=>
             (\E u \in Placers : \/ wish[u].step = "commit" /\ a \in Span(wish[u].at, wish[u].got)
                                \/ a \in InFlight(u))
  BY <1>1
<1>. QED
  BY <1>2 DEF DealtTo, Had, Page

LEMMA OrderIs ==
    RegionInOrder <=> /\ \A a \in Region : Had(a) <=> a < served
                      /\ Base <= served /\ served <= End
                      /\ ~ misfit => served = Cursor
                      /\ misfit => Cursor > End
BY HadIsDealt DEF RegionInOrder, Region, Cursor

LEMMA OrderIsAfter ==
    RegionInOrder' <=> /\ \A a \in Region : Had(a)' <=> a < served'
                       /\ Base <= served' /\ served' <= End
                       /\ ~ misfit' => served' = Cursor'
                       /\ misfit' => Cursor' > End
<1>1. (RegionInOrder <=> /\ \A a \in Region : Had(a) <=> a < served
                         /\ Base <= served /\ served <= End
                         /\ ~ misfit => served = Cursor
                         /\ misfit => Cursor > End)'
  BY OrderIs, PTL
<1>. QED
  BY <1>1 DEF Region

(* What a thread has in hand is given up or moved without leaving the region's    *)
(* account.                                                                     *)
LEMMA OrderKeeps ==
    ASSUME RegionInOrder, UNCHANGED <<bigNext, served, misfit>>,
           \A a \in Region : Had(a)' <=> Had(a)
    PROVE  RegionInOrder'
<1>1. Cursor' = Cursor
  BY DEF Cursor
<1>. QED
  BY <1>1, OrderIs, OrderIsAfter

(* What thread t, the program and the returned pages have of it together.          *)
Account(t, a) ==
    a \in InHand(t) \/ (\E g \in granted : a \in Page(g)) \/ a \in returned

LEMMA HandOrder ==
    ASSUME RegionInOrder, NEW t \in Placers, \A u \in Placers \ {t} : wish'[u] = wish[u],
           UNCHANGED <<bigNext, served, misfit>>,
           \A a \in Region : Account(t, a)' <=> Account(t, a)
    PROVE  RegionInOrder'
<1>1. \A u \in Placers \ {t} : InHand(u)' = InHand(u)
  BY HandsOf
<1>2. \A g : Page(g)' = Page(g)
  BY DEF Page, Extent, InRegion, Span, Chunks
<1>3. \A a : Had(a)' <=> Account(t, a)' \/ \E u \in Placers \ {t} : a \in InHand(u)
  BY <1>1, <1>2 DEF Had, Account
<1>4. \A a : Had(a) <=> Account(t, a) \/ \E u \in Placers \ {t} : a \in InHand(u)
  BY DEF Had, Account
<1>5. \A a \in Region : Had(a)' <=> Had(a)
  BY <1>3, <1>4
<1>. QED
  BY <1>5, OrderKeeps

(* Taking: what fits follows what was dealt before, and what does not puts the   *)
(* cursor past the end.                                                         *)
LEMMA TakeOrder ==
    ASSUME NEW most, RequestsFit(most), PagesInv(most), RegionInOrder,
           NEW t \in Placers, TakeBig(t)
    PROVE  RegionInOrder'
<1>. USE DEF PagesInv
<1>1. PICK c \in Nat, l \in Nat :
         /\ c = Chunks(wish[t].n) /\ l = c * BigChunk
         /\ (bigNext + c) % Word = bigNext + c
         /\ (Base + bigNext * BigChunk) % Word = Cursor
         /\ (Cursor + l) % Word = Cursor + l
         /\ Base + (bigNext + c) * BigChunk = Cursor + l
  <2>1. wish[t].step = "take"
    BY DEF TakeBig
  <2>2. wish[t].n \in Nat
    BY DEF PagesShapes
  <2>. QED
    BY <2>1, <2>2, NoTurn, ChunksAre
<1>2. /\ wish[t].step = "take" /\ bigNext' = bigNext + c
      /\ UNCHANGED <<granted, returned>>
  BY <1>1 DEF TakeBig
<1>3. Cursor \in Nat /\ Base \in Int /\ End \in Int
  <2>1. bigNext \in Nat /\ Base \in Nat /\ BigChunk \in Nat /\ End \in Int
    <3>1. bigNext \in Nat
      BY DEF PagesShapes
    <3>. QED
      BY <3>1, PagesAssumption
  <2>2. bigNext * BigChunk \in Nat
    BY <2>1
  <2>. QED
    BY <2>1, <2>2 DEF Cursor
<1>4. Cursor' = Cursor + l
  BY <1>1, <1>2 DEF Cursor
<1>5. /\ \A a \in Region : Had(a) <=> a < served
      /\ Base <= served /\ served <= End
      /\ ~ misfit => served = Cursor
      /\ misfit => Cursor > End
  BY OrderIs
<1>6. InHand(t) = {}
  BY <1>2, EmptyHands
<1>7. CASE Cursor + l <= End
  <2>1. wish' = [wish EXCEPT ![t].step = "commit", ![t].at = Cursor, ![t].got = l]
        /\ served' = Cursor + l /\ misfit' = misfit
    BY <1>1, <1>7 DEF TakeBig, FitsRegion
  <2>2. /\ \A u \in Placers \ {t} : wish'[u] = wish[u]
        /\ wish'[t].step = "commit" /\ wish'[t].at = Cursor /\ wish'[t].got = l
    BY <2>1 DEF PagesShapes
  <2>3. InHand(t)' = Span(Cursor, l)
    BY <2>2 DEF InHand, Span
  <2>4. ~ misfit /\ served = Cursor
    BY <1>3, <1>5, <1>7
  <2>5. \A u \in Placers \ {t} : InHand(u)' = InHand(u)
    BY <2>2, HandsOf
  <2>6. \A g : Page(g)' = Page(g)
    BY DEF Page, Extent, InRegion, Span, Chunks
  <2>7. ASSUME NEW a \in Region PROVE Had(a)' <=> Had(a) \/ a \in Span(Cursor, l)
    BY <2>3, <2>5, <2>6, <1>2, <1>6 DEF Had
  <2>8. ASSUME NEW a \in Region PROVE Had(a)' <=> a < Cursor + l
    <3>1. a \in Int
      BY DEF Region
    <3>2. a \in Span(Cursor, l) <=> Cursor <= a /\ a < Cursor + l
      BY <3>1, <1>3 DEF Span
    <3>. QED
      BY <3>1, <3>2, <2>4, <2>7, <1>3, <1>5
  <2>. QED
    BY <2>1, <2>4, <2>8, <1>3, <1>4, <1>5, <1>7, OrderIsAfter
<1>8. CASE ~ (Cursor + l <= End)
  <2>1. NoneHere(t) /\ misfit' = TRUE /\ served' = served
    BY <1>1, <1>8 DEF TakeBig, FitsRegion
  <2>2. /\ \A u \in Placers \ {t} : wish'[u] = wish[u]
        /\ wish'[t].step = "none" \/ (wish'[t].step = "search" /\ wish'[t].at = 0)
    BY <2>1, NoneLeaves
  <2>3. InHand(t)' = {}
    BY <2>2, EmptyHandsAfter
  <2>4. \A u \in Placers \ {t} : InHand(u)' = InHand(u)
    BY <2>2, HandsOf
  <2>5. \A g : Page(g)' = Page(g)
    BY DEF Page, Extent, InRegion, Span, Chunks
  <2>6. \A a : Had(a)' <=> Had(a)
    BY <2>3, <2>4, <2>5, <1>2, <1>6 DEF Had
  <2>. QED
    BY <2>1, <2>6, <1>3, <1>4, <1>5, <1>8, OrderIsAfter
<1>. QED
  BY <1>7, <1>8

(* What was in hand is the program's now.                                       *)
LEMMA GrantOrder ==
    ASSUME NEW most, PagesInv(most), RegionInOrder, NEW t \in Placers, NEW near, NEW placed,
           Grant(t, near, placed),
           wish[t].step = "commit" \/ (wish[t].step = "search" /\ wish[t].at # 0),
           UNCHANGED <<bigNext, returned, served, misfit>>
    PROVE  RegionInOrder'
<1>. USE DEF PagesInv
<1>1. PICK g : /\ g = [at |-> wish[t].at, n |-> wish[t].n, near |-> near, placed |-> placed]
               /\ granted' = granted \cup {g}
  BY DEF Grant
<1>2. Page(g) = InHand(t)
  BY <1>1, HandIs DEF Page
<1>3. wish'[t].step = "none" /\ \A u \in Placers \ {t} : wish'[u] = wish[u]
  BY DEF Grant, PagesShapes, NoWish
<1>4. InHand(t)' = {}
  BY <1>3, EmptyHandsAfter
<1>5. \A h : Page(h)' = Page(h)
  BY DEF Page, Extent, InRegion, Span, Chunks
<1>6. \A a \in Region : Account(t, a)' <=> Account(t, a)
  BY <1>1, <1>2, <1>4, <1>5 DEF Account
<1>. QED
  BY <1>3, <1>6, HandOrder

LEMMA CommitOrder ==
    ASSUME NEW most, PagesInv(most), RegionInOrder, NEW t \in Placers, CommitPages(t)
    PROVE  RegionInOrder'
<1>. USE DEF PagesInv
<1>1. wish[t].step = "commit" /\ UNCHANGED <<bigNext, returned, served, misfit>>
  BY DEF CommitPages, dealVars
<1>2. CASE \E near, placed : Grant(t, near, placed)
  BY <1>1, <1>2, GrantOrder
<1>3. CASE wish' = [wish EXCEPT ![t].step = "too far"] /\ UNCHANGED granted
  <2>1. /\ \A u \in Placers \ {t} : wish'[u] = wish[u]
        /\ wish'[t].step = "too far" /\ wish'[t].at = wish[t].at /\ wish'[t].n = wish[t].n
    BY <1>3 DEF PagesShapes
  <2>2. InHand(t)' = InHand(t)
    <3>1. InHand(t) = Extent(wish[t].at, wish[t].n)
      BY <1>1, HandIs
    <3>. QED
      BY <3>1, <2>1 DEF InHand, InFlight, Extent, InRegion, Span, Chunks
  <2>3. \A h : Page(h)' = Page(h)
    BY DEF Page, Extent, InRegion, Span, Chunks
  <2>4. \A a \in Region : Account(t, a)' <=> Account(t, a)
    BY <2>2, <2>3, <1>1, <1>3 DEF Account
  <2>. QED
    BY <2>1, <2>4, <1>1, HandOrder
<1>. QED
  BY <1>2, <1>3 DEF CommitPages

(* What was in hand is given back, or was not of the region.                    *)
LEMMA DropOrder ==
    ASSUME NEW most, PagesInv(most), RegionInOrder, NEW t \in Placers,
           \A u \in Placers \ {t} : wish'[u] = wish[u],
           wish'[t].step \in {"none", "take"} \/ (wish'[t].step = "search" /\ wish'[t].at = 0),
           UNCHANGED <<bigNext, granted, served, misfit>>,
           \/ returned' = returned \cup InHand(t)
           \/ returned' = returned /\ InHand(t) \cap Region = {}
    PROVE  RegionInOrder'
<1>1. InHand(t)' = {}
  BY EmptyHandsAfter
<1>2. \A h : Page(h)' = Page(h)
  BY DEF Page, Extent, InRegion, Span, Chunks
<1>3. \A a \in Region : Account(t, a)' <=> Account(t, a)
  BY <1>1, <1>2 DEF Account
<1>. QED
  BY <1>3, HandOrder

LEMMA MapOrder ==
    ASSUME NEW most, RequestsFit(most), PagesInv(most), RegionInOrder, NEW t \in Placers,
           NEW a \in Lands, MapPages(t, a)
    PROVE  RegionInOrder'
<1>. USE DEF PagesInv
<1>1. /\ wish[t].step = "search" /\ wish[t].at = 0 /\ wish[t].n \in Nat
      /\ a \in FreeFor(wish[t].n)
      /\ wish' = [wish EXCEPT ![t].at = a]
      /\ UNCHANGED <<bigNext, granted, returned, served, misfit>>
  BY DEF MapPages, dealVars, PagesShapes
<1>2. /\ \A u \in Placers \ {t} : wish'[u] = wish[u]
      /\ wish'[t].step = "search" /\ wish'[t].at = a /\ wish'[t].n = wish[t].n
  BY <1>1 DEF PagesShapes
<1>3. InHand(t) = {}
  BY <1>1, EmptyHands
<1>4. \A b \in Span(a, wish[t].n) : b \in Lands \ Region
  BY <1>1 DEF FreeFor, RegionKept
<1>5. Extent(a, wish[t].n) = Span(a, wish[t].n)
  <2>1. a \in Nat /\ Span(a, wish[t].n) \subseteq Lands \ Region
    BY <1>4 DEF Lands
  <2>. QED
    BY <2>1, <1>1, ExtentIs
<1>6. InHand(t)' \cap Region = {}
  <2>1. a # 0
    BY DEF Lands
  <2>2. InHand(t)' = Extent(a, wish[t].n)
    BY <2>1, <1>2 DEF InHand, InFlight, Extent, InRegion, Span, Chunks
  <2>. QED
    BY <2>2, <1>4, <1>5
<1>7. \A h : Page(h)' = Page(h)
  BY DEF Page, Extent, InRegion, Span, Chunks
<1>8. \A b \in Region : Account(t, b)' <=> Account(t, b)
  BY <1>1, <1>3, <1>6, <1>7 DEF Account
<1>. QED
  BY <1>1, <1>2, <1>8, HandOrder

(* What the program gives back is no more dealt than it was.                    *)
LEMMA FreeOrder ==
    ASSUME NEW most, PagesInv(most), RegionInOrder, NEW g \in granted, FreePages(g)
    PROVE  RegionInOrder'
<1>. USE DEF PagesInv
<1>1. /\ granted' = granted \ {g} /\ UNCHANGED <<bigNext, wish, served, misfit>>
  BY DEF FreePages, dealVars
<1>2. g.at \in Nat /\ g.n \in Nat
  BY DEF PagesShapes
<1>3. \A a \in Region : a \in returned' <=> a \in returned \/ a \in Page(g)
  <2>1. CASE InRegion(g.at)
    <3>1. Page(g) = Span(g.at, Chunks(g.n) * BigChunk)
      BY <2>1, <1>2, ExtentIs DEF Page
    <3>. QED
      BY <3>1, <2>1 DEF FreePages
  <2>2. CASE ~ InRegion(g.at)
    <3>1. Page(g) \subseteq Lands \ Region
      BY <2>2 DEF Grants
    <3>. QED
      BY <3>1, <2>2 DEF FreePages
  <2>. QED
    BY <2>1, <2>2
<1>4. \A h : Page(h)' = Page(h)
  BY DEF Page, Extent, InRegion, Span, Chunks
<1>5. \A u \in Placers : InHand(u)' = InHand(u)
  BY <1>1, HandsOf
<1>6. \A a \in Region : Had(a)' <=> Had(a)
  BY <1>1, <1>3, <1>4, <1>5 DEF Had
<1>. QED
  BY <1>1, <1>6, OrderKeeps

LEMMA OrderStep ==
    ASSUME NEW most, RequestsFit(most), PagesInv(most), RegionInOrder, [PagesNext]_pageVars
    PROVE  RegionInOrder'
<1>. USE DEF PagesInv
<1>1. CASE UNCHANGED pageVars
  <2>1. UNCHANGED <<bigNext, wish, granted, returned, served, misfit>>
    BY <1>1 DEF pageVars, dealVars
  <2>2. \A u \in Placers : InHand(u)' = InHand(u)
    BY <2>1, HandsOf
  <2>3. \A h : Page(h)' = Page(h)
    BY DEF Page, Extent, InRegion, Span, Chunks
  <2>4. \A a : Had(a)' <=> Had(a)
    BY <2>1, <2>2, <2>3 DEF Had
  <2>. QED
    BY <2>1, <2>4, OrderKeeps
<1>2. ASSUME NEW t \in Placers, NEW n \in Wanted,
             AskInRegion(t, n) \/ \E near \in Anchors : AskPages(t, n, near)
      PROVE  RegionInOrder'
  <2>1. /\ wish[t] = NoWish /\ UNCHANGED <<bigNext, granted, returned, served, misfit>>
        /\ \E r : r.step \in {"take", "search"} /\ r.at = 0 /\ wish' = [wish EXCEPT ![t] = r]
    <3>1. CASE AskInRegion(t, n)
      BY <3>1 DEF AskInRegion, dealVars, NoWish
    <3>2. CASE \E near \in Anchors : AskPages(t, n, near)
      BY <3>2 DEF AskPages, dealVars, NoWish
    <3>. QED
      BY <3>1, <3>2, <1>2
  <2>2. /\ \A u \in Placers \ {t} : wish'[u] = wish[u]
        /\ wish'[t].step \in {"take", "search"} /\ wish'[t].at = 0
    BY <2>1 DEF PagesShapes
  <2>3. InHand(t) = {}
    BY <2>1, EmptyHands DEF NoWish
  <2>. QED
    BY <2>1, <2>2, <2>3, DropOrder
<1>3. ASSUME NEW t \in Placers, CommitRefused(t) PROVE RegionInOrder'
  <2>1. /\ wish[t].step = "commit" /\ NoneHere(t)
        /\ returned' = returned \cup Span(wish[t].at, wish[t].got)
        /\ UNCHANGED <<bigNext, granted, served, misfit>>
    BY <1>3 DEF CommitRefused, dealVars
  <2>2. InHand(t) = Span(wish[t].at, wish[t].got)
    BY <2>1, HandIs
  <2>. QED
    BY <2>1, <2>2, NoneLeaves, DropOrder
<1>4. ASSUME NEW t \in Placers, TooFar(t) PROVE RegionInOrder'
  <2>1. /\ wish[t].step = "too far" /\ NoneHere(t)
        /\ returned' = returned \cup Span(wish[t].at, wish[t].got)
        /\ UNCHANGED <<bigNext, granted, served, misfit>>
    BY <1>4 DEF TooFar, dealVars
  <2>2. InHand(t) = Span(wish[t].at, wish[t].got)
    BY <2>1, HandIs
  <2>. QED
    BY <2>1, <2>2, NoneLeaves, DropOrder
<1>5. ASSUME NEW t \in Placers, MapRefused(t) PROVE RegionInOrder'
  <2>1. /\ wish[t].step = "search" /\ wish[t].at = 0
        /\ wish' = [wish EXCEPT ![t] = NoWish] \/ wish' = [wish EXCEPT ![t] = NextProbe(wish[t])]
        /\ UNCHANGED <<bigNext, granted, returned, served, misfit>>
    BY <1>5 DEF MapRefused, dealVars
  <2>2. /\ \A u \in Placers \ {t} : wish'[u] = wish[u]
        /\ wish'[t].step = "none" \/ (wish'[t].step = "search" /\ wish'[t].at = 0)
    <3>1. CASE wish' = [wish EXCEPT ![t] = NoWish]
      BY <3>1 DEF NoWish, PagesShapes
    <3>2. CASE wish' = [wish EXCEPT ![t] = NextProbe(wish[t])]
      BY <3>2, <2>1, NextIs
    <3>. QED
      BY <3>1, <3>2, <2>1
  <2>3. InHand(t) = {}
    BY <2>1, EmptyHands
  <2>. QED
    BY <2>1, <2>2, <2>3, DropOrder
<1>6. ASSUME NEW t \in Placers, KeepPages(t) PROVE RegionInOrder'
  BY <1>6, GrantOrder DEF KeepPages, dealVars
<1>7. ASSUME NEW t \in Placers, UnmapPages(t) PROVE RegionInOrder'
  <2>1. /\ wish[t].step = "search" /\ wish[t].at # 0
        /\ wish' = [wish EXCEPT ![t] = NextProbe(wish[t])]
        /\ UNCHANGED <<bigNext, granted, returned, served, misfit>>
    BY <1>7 DEF UnmapPages, dealVars
  <2>2. InHand(t) \cap Region = {}
    BY <2>1, HandIs
  <2>. QED
    BY <2>1, <2>2, NextIs, DropOrder
<1>8. ASSUME NEW t \in Placers, TakeBig(t) PROVE RegionInOrder'
  BY <1>8, TakeOrder
<1>9. ASSUME NEW t \in Placers, CommitPages(t) PROVE RegionInOrder'
  BY <1>9, CommitOrder
<1>10. ASSUME NEW t \in Placers, NEW a \in Lands, MapPages(t, a) PROVE RegionInOrder'
  BY <1>10, MapOrder
<1>11. ASSUME NEW g \in granted, FreePages(g) PROVE RegionInOrder'
  BY <1>11, FreeOrder
<1>. QED
  BY <1>1, <1>2, <1>3, <1>4, <1>5, <1>6, <1>7, <1>8, <1>9, <1>10, <1>11 DEF PagesNext

(* The invariant says of the program's pages what the property says.            *)
LEMMA PagesInvOwns ==
    ASSUME NEW most, RequestsFit(most), PagesInv(most), RegionInOrder
    PROVE  PagesAreOwn
<1>. USE DEF PagesInv
<1>1. \A g : Page(g) = Extent(g.at, g.n)
  BY DEF Page
<1>2. \A u \in Placers : InFlight(u) \subseteq InHand(u) /\ InFlight(u) \subseteq Lands
  BY HandIs
<1>3. \A g \in granted : Page(g) \subseteq Lands
  BY RegionIsLand DEF Grants
<1>4. PagesApart
  <2>1. /\ \A g, h \in granted : g # h => Page(g) \cap Page(h) = {}
        /\ \A g \in granted, t \in Placers : Page(g) \cap InFlight(t) = {}
        /\ \A g \in granted : Page(g) \cap returned = {}
    BY <1>2 DEF Separate
  <2>. QED
    BY <2>1, <1>1 DEF PagesApart
<1>5. NoPageForgotten
  <2>1. \A a : (\E X \in {Page(g) : g \in granted} \cup {InFlight(t) : t \in Placers} :
                   a \in X) <=>
               \/ \E g \in granted : a \in Page(g)
               \/ \E t \in Placers : a \in InFlight(t)
    OBVIOUS
  <2>2. {a \in Lands : world[a] = "mapped"} =
           UNION ({Page(g) : g \in granted} \cup {InFlight(t) : t \in Placers})
    BY <2>1, <1>2, <1>3 DEF MappedIsHeld
  <2>3. {Page(g) : g \in granted} = {Extent(g.at, g.n) : g \in granted}
    BY <1>1
  <2>. QED
    BY <2>2, <2>3 DEF NoPageForgotten
<1>6. PlacedIsNear
  BY <1>1 DEF PlacedIsNear, Grants, Region
<1>. QED
  BY <1>4, <1>5, <1>6 DEF PagesAreOwn

(* The inductive invariant of the pages: what is the program's, in a call's hand *)
(* or given back is apart, behind the cursor if it is of the region, and mapped  *)
(* is just what somebody has; and the region has dealt what lies before the     *)
(* cursor, all of it, until a request did not fit.                              *)
THEOREM PagesInvariant ==
    ASSUME NEW most, RequestsFit(most)
    PROVE  PagesSpec => [](PagesInv(most) /\ RegionInOrder)
<1>1. PagesInit => PagesInv(most) /\ RegionInOrder
  <2>1. ASSUME PagesInit PROVE RegionInOrder
    <3>1. /\ \A u \in Placers : InHand(u) = {}
          /\ granted = {} /\ returned = {} /\ served = Base /\ misfit = FALSE
      BY <2>1, EmptyHands DEF PagesInit, NoWish
    <3>2. \A a : ~ Had(a)
      BY <3>1 DEF Had
    <3>3. Base \in Int /\ End \in Int /\ Base <= End /\ Cursor = Base
      BY <2>1, PagesAssumption DEF PagesInit, Cursor
    <3>4. \A a \in Region : ~ (a < served)
      BY <3>1, <3>3 DEF Region
    <3>. QED
      BY <3>1, <3>2, <3>3, <3>4, OrderIs
  <2>. QED
    BY <2>1, PagesInitially
<1>2. PagesInv(most) /\ RegionInOrder /\ [PagesNext]_pageVars =>
         PagesInv(most)' /\ RegionInOrder'
  BY PagesStep, OrderStep
<1>. QED
  BY <1>1, <1>2, PTL DEF PagesSpec

(* A page asked for near some code (host_alloc_pages, os_alloc_near) is one      *)
(* owner's, is said to be in the window just when it is, misses it by less than  *)
(* a page if at all, and is never left mapped with nobody; take_big_chunks deals *)
(* without gaps until a request does not fit, and nothing after that.  As long   *)
(* as the requests together do not turn the cursor round.                        *)
THEOREM PagesAreOwned ==
    ASSUME NEW most, RequestsFit(most)
    PROVE  PagesSpec => []PagesAreOwn
<1>1. PagesInv(most) /\ RegionInOrder => PagesAreOwn
  BY PagesInvOwns
<1>. QED
  BY <1>1, PagesInvariant, PTL

-----------------------------------------------------------------------------
(* ARENAS (ScratchArenas) *)

(* Threads are finitely many, and a block that is not made to measure can be      *)
(* doubled.                                                                      *)
BlocksDouble == IsFiniteSet(Workers) /\ 2 * MaxBlock < Width

Requests == [step : {"out", "arena", "look", "stuck"}, n : Nat, align : Nat, more : BOOLEAN]
Blocks == Seq([size : Nat, used : Nat])
Marks == Seq([block : Nat, used : Nat])
Loans == SUBSET [block : Nat, from : Nat, to : Nat, depth : Nat]
Sound == Arenas \ astray

ScratchShapes ==
    /\ nextArena \in 0 .. Prepared + Cardinality(Workers)
    /\ arenaOf \in [Workers -> Nat]
    /\ want \in [Workers -> Requests]
    /\ DOMAIN chain = Arenas /\ DOMAIN current = Arenas
    /\ DOMAIN scopes = Arenas /\ DOMAIN lent = Arenas
    /\ \A a \in Sound : /\ chain[a] \in Blocks /\ current[a] \in Nat
                        /\ scopes[a] \in [Workers -> Marks] /\ lent[a] \in [Workers -> Loans]

\* Arenas are given in turn: one of a thread, or in the hands of one that asks;
\* the first is shared only once somebody was refused.
GivenInTurn ==
    /\ \A t \in Workers : arenaOf[t] <= nextArena
    /\ \A t \in Workers : want[t].step = "arena" => arenaOf[t] = 0 /\ want[t].n \in 1 .. nextArena
    /\ \A t, u \in Workers : t # u =>
          /\ arenaOf[t] # 0 => arenaOf[t] # arenaOf[u]
          /\ want[t].step = "arena" => want[t].n # arenaOf[u]
          /\ want[t].step = "arena" /\ want[u].step = "arena" => want[t].n # want[u].n
    /\ \A t \in Workers : want[t].step \in {"look", "stuck"} => Using(t) # 0
    /\ sharing # {} => 1 \in astray

\* A request that is not near the width of a size fits once a block was added for
\* it, and never gets stuck.
Modest(w) == 2 * (w.n + w.align + HeaderSize) <= Width
AsksRightly(t) ==
    /\ want[t].step = "look" => want[t].n # 0 /\ want[t].align # 0
    /\ Using(t) \notin astray /\ Modest(want[t]) =>
          /\ want[t].step = "look" /\ want[t].more => FitsBlock(Using(t), want[t])
          /\ want[t].step # "stuck"

\* The blocks of an arena, none longer than half of what a size can say.
BlocksFit(c, cur) ==
    /\ cur \in 0 .. Len(c) /\ (cur = 0 <=> c = <<>>)
    /\ \A i \in 1 .. Len(c) : c[i].used <= c[i].size /\ 2 * (c[i].size + HeaderSize) < Width

Behind(m, k) == m.block < k.block \/ (m.block = k.block /\ m.used <= k.used)

\* Marks stand one behind the other, and none after what is filled by now.
MarksRise(c, cur, sc) ==
    /\ \A i \in 1 .. Len(sc) :
          /\ sc[i].block <= cur
          /\ sc[i].block # 0 => sc[i].used <= c[sc[i].block].used
          /\ sc[i].block = 0 => sc[i].used = 0
    /\ \A i, j \in 1 .. Len(sc) : i < j => Behind(sc[i], sc[j])

\* What was borrowed before a mark stands before it.
LoansStand(c, cur, sc, le) ==
    /\ \A x \in le : /\ x.block \in 1 .. cur /\ x.depth <= Len(sc)
                     /\ x.from < x.to /\ x.to <= c[x.block].used
    /\ \A x, y \in le : x.block = y.block /\ x # y => x.to <= y.from \/ y.to <= x.from
    /\ \A x \in le : \A i \in 1 .. Len(sc) :
          x.depth < i => x.block < sc[i].block \/ (x.block = sc[i].block /\ x.to <= sc[i].used)

ArenaFits(c, cur, sc, le) ==
    BlocksFit(c, cur) /\ MarksRise(c, cur, sc) /\ LoansStand(c, cur, sc, le)

\* Nobody has marks or loans in an arena that is not its own.
OwnersOnly ==
    \A a \in Sound, t \in Workers : arenaOf[t] # a => scopes[a][t] = <<>> /\ lent[a][t] = {}

ScratchInv ==
    /\ ScratchShapes /\ GivenInTurn /\ \A t \in Workers : AsksRightly(t)
    /\ OwnersOnly
    /\ \A a \in Sound, t \in Workers : ArenaFits(chain[a], current[a], scopes[a][t], lent[a][t])


-----------------------------------------------------------------------------
(* The least of a set of naturals.                                             *)
LEMMA LeastOf ==
    ASSUME NEW S, S \subseteq Nat, S # {}
    PROVE  \E m \in S : \A n \in S : m <= n
<1>1. PICK m \in S : \A n \in S : <<n, m>> \notin OpToRel(<, Nat)
  BY NatLessThanWellFounded, WFMin
<1>2. ASSUME NEW n \in S PROVE m <= n
  <2>1. m \in Nat /\ n \in Nat
    OBVIOUS
  <2>2. ~(n < m)
    BY <1>1, <2>1, Zenon DEF OpToRel
  <2>. QED
    BY <2>1, <2>2
<1>. QED
  BY <1>2

(* Powers of two are what their recursion says: there is a function that does,  *)
(* for there is one for each beginning, and those agree.                        *)
Begun(f, k) == f[0] = 1 /\ \A i \in 1 .. k : f[i] = 2 * f[i - 1]

LEMMA BegunSame ==
    ASSUME NEW k \in Nat, NEW l \in Nat, k <= l,
           NEW f, NEW g, Begun(f, k), Begun(g, l)
    PROVE  f[k] = g[k]
<1>1. SUFFICES ASSUME NEW bad \in {i \in 0 .. k : f[i] # g[i]} PROVE FALSE
  OBVIOUS
<1>0. PICK bads : bads = {i \in 0 .. k : f[i] # g[i]}
  OBVIOUS
<1>a. bads \subseteq Nat /\ bads # {}
  BY <1>0, <1>1
<1>b. PICK m \in bads : \A n \in bads : m <= n
  BY <1>a, LeastOf
<1>2. m \in 0 .. k /\ f[m] # g[m] /\ \A n \in 0 .. k : f[n] # g[n] => m <= n
  BY <1>0, <1>b
<1>3. m # 0
  BY <1>2 DEF Begun
<1>4. m - 1 \in 0 .. k /\ m \in 1 .. k /\ m \in 1 .. l
  BY <1>2, <1>3
<1>5. f[m - 1] = g[m - 1]
  BY <1>2, <1>4
<1>. QED
  BY <1>2, <1>4, <1>5 DEF Begun

LEMMA BegunThere ==
    ASSUME NEW k \in Nat PROVE \E f \in [Nat -> Nat] : Begun(f, k)
<1>1. SUFFICES ASSUME NEW bad \in {i \in Nat : ~ \E f \in [Nat -> Nat] : Begun(f, i)} PROVE FALSE
  OBVIOUS
<1>0. PICK bads : bads = {i \in Nat : ~ \E f \in [Nat -> Nat] : Begun(f, i)}
  OBVIOUS
<1>a. bads \subseteq Nat /\ bads # {}
  BY <1>0, <1>1
<1>b. PICK m \in bads : \A n \in bads : m <= n
  BY <1>a, LeastOf
<1>2. /\ m \in Nat /\ ~ \E f \in [Nat -> Nat] : Begun(f, m)
      /\ \A n \in Nat : (~ \E f \in [Nat -> Nat] : Begun(f, n)) => m <= n
  BY <1>0, <1>b
<1>3. CASE m = 0
  <2>1. [i \in Nat |-> 1] \in [Nat -> Nat] /\ Begun([i \in Nat |-> 1], 0)
    BY DEF Begun
  <2>. QED
    BY <2>1, <1>2, <1>3
<1>4. CASE m # 0
  <2>1. m - 1 \in Nat
    BY <1>2, <1>4
  <2>2. PICK f \in [Nat -> Nat] : Begun(f, m - 1)
    <3>1. ~ (m <= m - 1)
      BY <1>2
    <3>. QED
      BY <3>1, <2>1, <1>2
  <2>3. PICK g \in [Nat -> Nat] : g = [f EXCEPT ![m] = 2 * f[m - 1]]
    <3>1. f[m - 1] \in Nat
      BY <2>1, <2>2
    <3>2. 2 * f[m - 1] \in Nat
      BY <3>1
    <3>. QED
      BY <3>2
  <2>4. Begun(g, m)
    BY <2>1, <2>2, <2>3, <1>2, <1>4 DEF Begun
  <2>. QED
    BY <2>4, <1>2
<1>. QED
  BY <1>3, <1>4

LEMMA PowerIs ==
    Power \in [Nat -> Nat] /\ Power[0] = 1 /\ \A k \in Nat : Power[k + 1] = 2 * Power[k]
<1>1. PICK b \in [Nat -> [Nat -> Nat]] : \A k \in Nat : Begun(b[k], k)
  <2>1. \A k \in Nat : Begun(CHOOSE f \in [Nat -> Nat] : Begun(f, k), k)
                       /\ (CHOOSE f \in [Nat -> Nat] : Begun(f, k)) \in [Nat -> Nat]
    BY BegunThere
  <2>2. [k \in Nat |-> CHOOSE f \in [Nat -> Nat] : Begun(f, k)] \in [Nat -> [Nat -> Nat]]
    BY <2>1
  <2>. QED
    BY <2>1, <2>2
<1>2. PICK p \in [Nat -> Nat] : \A k \in Nat : p[k] = b[k][k]
  <2>1. [k \in Nat |-> b[k][k]] \in [Nat -> Nat]
    OBVIOUS
  <2>. QED
    BY <2>1
<1>3. p[0] = 1
  BY <1>1, <1>2 DEF Begun
<1>4. \A k \in Nat : p[k + 1] = 2 * p[k]
  <2>1. SUFFICES ASSUME NEW k \in Nat PROVE p[k + 1] = 2 * p[k]
    OBVIOUS
  <2>2. b[k + 1][k + 1] = 2 * b[k + 1][k]
    BY <1>1 DEF Begun
  <2>3. b[k + 1][k] = b[k][k]
    BY <1>1, BegunSame
  <2>4. p[k + 1] = b[k + 1][k + 1] /\ p[k] = b[k][k]
    <3>1. k + 1 \in Nat
      OBVIOUS
    <3>. QED
      BY <3>1, <1>2
  <2>. QED
    BY <2>2, <2>3, <2>4
<1>5. p = [k \in Nat |-> IF k = 0 THEN 1 ELSE 2 * p[k - 1]]
  <2>1. \A k \in Nat : p[k] = IF k = 0 THEN 1 ELSE 2 * p[k - 1]
    <3>1. SUFFICES ASSUME NEW k \in Nat, k # 0 PROVE p[k] = 2 * p[k - 1]
      BY <1>3
    <3>2. k - 1 \in Nat /\ (k - 1) + 1 = k
      BY <3>1
    <3>. QED
      BY <3>2, <1>4
  <2>. QED
    BY <2>1
<1>6. Power = [k \in Nat |-> IF k = 0 THEN 1 ELSE 2 * Power[k - 1]]
  BY <1>5 DEF Power
<1>7. ASSUME NEW k \in Nat PROVE Begun(Power, k) /\ Begun(p, k)
  <2>1. Begun(Power, k)
    <3>1. Power[0] = 1
      BY <1>6
    <3>2. ASSUME NEW i \in 1 .. k PROVE Power[i] = 2 * Power[i - 1]
      <4>1. i \in Nat /\ i # 0
        OBVIOUS
      <4>. QED
        BY <4>1, <1>6
    <3>. QED
      BY <3>1, <3>2 DEF Begun
  <2>2. Begun(p, k)
    <3>1. ASSUME NEW i \in 1 .. k PROVE p[i] = 2 * p[i - 1]
      <4>1. i - 1 \in Nat /\ (i - 1) + 1 = i
        OBVIOUS
      <4>. QED
        BY <4>1, <1>4
    <3>. QED
      BY <3>1, <1>3 DEF Begun
  <2>. QED
    BY <2>1, <2>2
<1>8. ASSUME NEW k \in Nat PROVE Power[k] = p[k]
  <2>1. k <= k
    OBVIOUS
  <2>. QED
    BY <2>1, <1>7, BegunSame
<1>9. Power = p
  BY <1>6, <1>8
<1>. QED
  BY <1>9, <1>3, <1>4


(* They grow, each at least as large as its exponent.                             *)
LEMMA PowerGrows ==
    /\ \A k \in Nat : k + 1 <= Power[k]
    /\ \A i, j \in Nat : i <= j => Power[i] <= Power[j]
<1>1. /\ Power \in [Nat -> Nat] /\ Power[0] = 1
      /\ \A k \in Nat : Power[k + 1] = 2 * Power[k]
  BY PowerIs
<1>2. ASSUME NEW bad \in Nat, ~ (bad + 1 <= Power[bad]) PROVE FALSE
  <2>1. PICK bads : bads = {k \in Nat : ~ (k + 1 <= Power[k])}
    OBVIOUS
  <2>2. PICK m \in bads : \A n \in bads : m <= n
    <3>1. bads \subseteq Nat /\ bads # {}
      BY <2>1, <1>2
    <3>. QED
      BY <3>1, LeastOf
  <2>3. m \in Nat /\ ~ (m + 1 <= Power[m])
    BY <2>1, <2>2
  <2>4. m # 0
    BY <2>3, <1>1
  <2>5. m - 1 \in Nat /\ (m - 1) + 1 = m /\ ~ (m <= m - 1)
    BY <2>3, <2>4
  <2>6. m <= Power[m - 1] /\ Power[m - 1] \in Nat
    BY <2>1, <2>2, <2>5, <1>1
  <2>7. Power[m] = 2 * Power[m - 1]
    BY <2>5, <1>1
  <2>. QED
    BY <2>3, <2>5, <2>6, <2>7
<1>3. ASSUME NEW i \in Nat, NEW bad \in Nat, i <= bad, ~ (Power[i] <= Power[bad]) PROVE FALSE
  <2>1. PICK bads : bads = {k \in Nat : i <= k /\ ~ (Power[i] <= Power[k])}
    OBVIOUS
  <2>2. PICK m \in bads : \A n \in bads : m <= n
    <3>1. bads \subseteq Nat /\ bads # {}
      BY <2>1, <1>3
    <3>. QED
      BY <3>1, LeastOf
  <2>3. m \in Nat /\ i <= m /\ ~ (Power[i] <= Power[m])
    BY <2>1, <2>2
  <2>4. m # i
    BY <2>3, <1>1
  <2>5. m - 1 \in Nat /\ (m - 1) + 1 = m /\ ~ (m <= m - 1) /\ i <= m - 1
    BY <2>3, <2>4
  <2>6. Power[i] <= Power[m - 1] /\ Power[m - 1] \in Nat /\ Power[i] \in Nat
    BY <2>1, <2>2, <2>5, <1>1
  <2>7. Power[m] = 2 * Power[m - 1]
    BY <2>5, <1>1
  <2>. QED
    BY <2>3, <2>6, <2>7
<1>. QED
  BY <1>2, <1>3

LEMMA WidthIs == Width \in Nat /\ 1 <= Width /\ \A x \in Nat : x < Width => x % Width = x
<1>1. Bits \in Nat
  BY ScratchAssumption
<1>2. Width \in Nat /\ 1 <= Width
  BY <1>1, PowerIs, PowerGrows DEF Width
<1>. QED
  BY <1>2

(* What a block is grown to, if it is: longer than its header.                    *)
LEMMA GrownAny ==
    ASSUME BlocksDouble, NEW size \in HeaderSize + 1 .. MaxBlock, NEW n \in Nat,
           NEW align \in Nat
    PROVE  LET s == Grown(size, n, align) IN s \in Nat /\ (s # 0 => HeaderSize < s)
<1>1. /\ HeaderSize \in Nat /\ Bits \in Nat /\ MaxBlock \in Nat /\ Width \in Nat /\ Width >= 1
      /\ size \in Nat /\ size > HeaderSize /\ size < Width
  BY ScratchAssumption, WidthIs DEF BlocksDouble
<1>2. PICK least \in Nat : least = (n + align + HeaderSize) % Width
  BY <1>1
<1>3. PICK ks : ks = Doublings(size, least)
  OBVIOUS
<1>4. CASE ks = {}
  BY <1>2, <1>3, <1>4 DEF Grown
<1>5. CASE ks # {}
  <2>1. \A k \in ks : k \in 0 .. Bits /\ k \in Nat /\ (size * Power[k]) % Width >= least
    BY <1>1, <1>3 DEF Doublings
  <2>2. \E k \in ks : \A j \in ks : k <= j
    BY <2>1, <1>5, LeastOf
  <2>3. PICK m : /\ m = CHOOSE k \in ks : \A j \in ks : k <= j
                 /\ m \in ks /\ \A j \in ks : m <= j
    BY <2>2
  <2>4. PICK z \in Nat : z = size * Power[m]
    <3>1. Power[m] \in Nat
      BY <2>1, <2>3, PowerIs
    <3>2. PICK power \in Nat : power = Power[m]
      BY <3>1
    <3>3. size * power \in Nat
      BY <1>1
    <3>. QED
      BY <3>2, <3>3
  <2>5. PICK s \in Nat : s = z % Width /\ s >= least
    BY <2>1, <2>3, <2>4, <1>1
  <2>6. Grown(size, n, align) = s
    BY <1>2, <1>3, <1>5, <2>3, <2>4, <2>5 DEF Grown
  <2>7. HeaderSize < s
    <3>1. size * Power[0] = size
      BY <1>1, PowerIs
    <3>2. size % Width = size
      BY <1>1, WidthIs
    <3>3. CASE 0 \in ks
      <4>1. m = 0
        BY <3>3, <2>1, <2>3
      <4>. QED
        BY <4>1, <3>1, <3>2, <2>4, <2>5, <1>1
    <3>4. CASE 0 \notin ks
      <4>1. 0 \in 0 .. Bits
        BY <1>1
      <4>2. ~ (size >= least)
        BY <4>1, <3>1, <3>2, <3>4, <1>3 DEF Doublings
      <4>. QED
        BY <4>2, <2>5, <1>1, <1>2
    <3>. QED
      BY <3>3, <3>4
  <2>. QED
    BY <2>6, <2>7
<1>. QED
  BY <1>4, <1>5

(* And it is enough, if what is asked for is at most half of what a size can say.   *)
LEMMA GrownIs ==
    ASSUME BlocksDouble, NEW size \in 1 .. MaxBlock, NEW n \in Nat, NEW align \in Nat,
           2 * (n + align + HeaderSize) <= Width
    PROVE  LET s == Grown(size, n, align) IN
           /\ s \in Nat /\ s # 0 /\ n + align + HeaderSize <= s
<1>1. /\ HeaderSize \in Nat /\ HeaderSize >= 1 /\ Bits \in Nat /\ MaxBlock \in Nat
      /\ size \in Nat /\ size >= 1 /\ size <= MaxBlock
  BY ScratchAssumption
<1>2. PICK least \in Nat : least = n + align + HeaderSize
  BY <1>1
<1>3. 2 * least <= Width /\ least >= 1 /\ least < Width /\ 2 * MaxBlock < Width
  BY <1>1, <1>2, WidthIs DEF BlocksDouble
<1>4. least % Width = least
  BY <1>3, WidthIs
<1>5. PICK enough : enough = {k \in Nat : size * Power[k] >= least}
  OBVIOUS
<1>6. PICK m \in enough : \A k \in enough : m <= k
  <2>1. least + 1 <= Power[least] /\ Power[least] \in Nat
    BY PowerIs, PowerGrows
  <2>2. size * Power[least] >= Power[least]
    BY <2>1, <1>1
  <2>3. size * Power[least] \in Nat
    BY <2>1, <1>1
  <2>4. least \in enough
    BY <2>1, <2>2, <2>3, <1>5
  <2>. QED
    BY <2>4, <1>5, LeastOf
<1>7. /\ m \in Nat /\ size * Power[m] >= least
      /\ \A k \in Nat : k < m => size * Power[k] < least
  <2>1. m \in Nat /\ size * Power[m] >= least
    BY <1>5, <1>6
  <2>2. ASSUME NEW k \in Nat, k < m PROVE size * Power[k] < least
    <3>1. k \notin enough
      BY <2>1, <2>2, <1>6
    <3>2. size * Power[k] \in Nat
      BY <1>1, PowerIs
    <3>. QED
      BY <3>1, <3>2, <1>5
  <2>. QED
    BY <2>1, <2>2
<1>8. PICK s \in Nat : s = size * Power[m]
  BY <1>1, <1>7, PowerIs
<1>9. s < Width /\ m \in 0 .. Bits
  <2>1. CASE m = 0
    <3>1. s = size
      BY <2>1, <1>1, <1>8, PowerIs
    <3>. QED
      BY <3>1, <2>1, <1>1, <1>3, WidthIs
  <2>2. CASE m # 0
    <3>1. m - 1 \in Nat /\ (m - 1) + 1 = m /\ m - 1 < m
      BY <2>2, <1>7
    <3>2. PICK p \in Nat : p = Power[m - 1]
      BY <3>1, PowerIs
    <3>3. Power[m] = 2 * p
      BY <3>1, <3>2, PowerIs
    <3>4. size * p < least
      BY <3>1, <3>2, <1>7
    <3>5. s = 2 * (size * p)
      BY <3>2, <3>3, <1>1, <1>8
    <3>6. size * p \in Nat /\ p <= size * p
      BY <3>2, <1>1
    <3>7. s < Width
      BY <3>4, <3>5, <3>6, <1>3, WidthIs
    <3>8. p < Width
      BY <3>2, <3>4, <3>6, <1>3, WidthIs
    <3>9. ~ (Bits <= m - 1)
      BY <3>1, <3>2, <3>8, <1>1, PowerGrows, WidthIs DEF Width
    <3>. QED
      BY <3>1, <3>7, <3>9, <1>1, <1>7
  <2>. QED
    BY <2>1, <2>2
<1>10. s % Width = s
  BY <1>9, <1>8, WidthIs
<1>11. m \in Doublings(size, least)
  BY <1>7, <1>8, <1>9, <1>10 DEF Doublings
<1>12. ASSUME NEW j \in Doublings(size, least) PROVE m <= j
  <2>1. j \in Nat /\ (size * Power[j]) % Width >= least
    BY <1>1 DEF Doublings
  <2>2. CASE j < m
    <3>1. PICK z \in Nat : z = size * Power[j]
      BY <2>1, <1>1, PowerIs
    <3>2. z < least
      BY <3>1, <2>1, <2>2, <1>7
    <3>3. z % Width = z
      BY <3>1, <3>2, <1>3, WidthIs
    <3>. QED
      BY <3>1, <3>2, <3>3, <2>1
  <2>. QED
    BY <2>1, <2>2, <1>7
<1>13. (CHOOSE k \in Doublings(size, least) : \A j \in Doublings(size, least) : k <= j) = m
  <2>1. PICK k : k = CHOOSE i \in Doublings(size, least) :
                        \A j \in Doublings(size, least) : i <= j
    OBVIOUS
  <2>2. k \in Doublings(size, least) /\ \A j \in Doublings(size, least) : k <= j
    BY <2>1, <1>11, <1>12
  <2>3. k <= m /\ m <= k /\ k \in Nat
    BY <2>2, <1>1, <1>11, <1>12 DEF Doublings
  <2>. QED
    BY <2>1, <2>3, <1>7
<1>14. Grown(size, n, align) = s
  <2>1. (n + align + HeaderSize) % Width = least
    BY <1>2, <1>4
  <2>2. Doublings(size, least) # {}
    BY <1>11
  <2>. QED
    BY <2>1, <2>2, <1>8, <1>10, <1>13 DEF Grown
<1>. QED
  BY <1>2, <1>3, <1>7, <1>8, <1>9, <1>14

(* The place of the next piece: behind what is used, by less than its alignment.  *)
LEMMA OffsetIs ==
    ASSUME NEW used \in Nat, NEW align \in Nat, align # 0
    PROVE  Offset(used, align) \in Nat /\ used <= Offset(used, align)
           /\ Offset(used, align) < used + align
<1>1. HeaderSize \in Nat
  BY ScratchAssumption
<1>2. PICK x \in Nat : x = HeaderSize + used
  BY <1>1
<1>3. PICK y \in Nat, q \in Int : y = x + align - 1 /\ q = y \div align
  BY <1>2
<1>a. align >= 1
  OBVIOUS
<1>b. align * q <= y /\ y < align * q + align
  BY <1>3, <1>a
<1>4. align * q <= x + align - 1 /\ x + align - 1 < align * q + align
  BY <1>3, <1>b
<1>5. PICK z \in Int : z = q * align /\ z = align * q
  BY <1>3
<1>6. UpTo(x, align) = z /\ x <= z /\ z < x + align
  BY <1>2, <1>3, <1>4, <1>5 DEF UpTo
<1>. QED
  BY <1>1, <1>2, <1>5, <1>6 DEF Offset


-----------------------------------------------------------------------------
(* Of one arena: what each operation leaves, as values.                           *)
LEMMA BlockAt ==
    ASSUME NEW c \in Blocks, NEW i \in 1 .. Len(c)
    PROVE  /\ c[i] \in [size : Nat, used : Nat]
           /\ c[i].used \in Nat /\ c[i].size \in Nat
<1>1. c[i] \in [size : Nat, used : Nat]
  BY ElementOfSeq DEF Blocks
<1>. QED
  BY <1>1

LEMMA MarkAt ==
    ASSUME NEW sc \in Marks, NEW i \in 1 .. Len(sc)
    PROVE  sc[i].block \in Nat /\ sc[i].used \in Nat
<1>1. sc[i] \in [block : Nat, used : Nat]
  BY ElementOfSeq DEF Marks
<1>. QED
  BY <1>1

Piece(cur, from, to, sc) == [block |-> cur, from |-> from, to |-> to, depth |-> Len(sc)]
FilledTo(c, cur, to) == [c EXCEPT ![cur].used = to]

(* A piece behind what is used.                                                   *)
LEMMA ServeFits ==
    ASSUME NEW c \in Blocks, NEW cur \in Nat, NEW sc \in Marks, NEW le \in Loans,
           ArenaFits(c, cur, sc, le), cur # 0,
           NEW from \in Nat, NEW to \in Nat, c[cur].used <= from, from < to, to <= c[cur].size,
           NEW x, x = Piece(cur, from, to, sc), NEW d, d = FilledTo(c, cur, to)
    PROVE  d \in Blocks /\ le \cup {x} \in Loans /\ ArenaFits(d, cur, sc, le \cup {x})
<1>. USE DEF ArenaFits, Piece, FilledTo
<1>1. cur \in 1 .. Len(c) /\ Len(sc) \in Nat /\ Len(c) \in Nat
  BY DEF BlocksFit, Blocks, Marks
<1>2. /\ d \in Blocks /\ Len(d) = Len(c) /\ d[cur].used = to /\ d[cur].size = c[cur].size
      /\ \A j \in 1 .. Len(c) : j # cur => d[j] = c[j]
  <2>1. c[cur] \in [size : Nat, used : Nat]
    BY <1>1, BlockAt
  <2>2. PICK b \in [size : Nat, used : Nat] :
           b = [c[cur] EXCEPT !.used = to] /\ b.used = to /\ b.size = c[cur].size
    <3>1. /\ [c[cur] EXCEPT !.used = to] \in [size : Nat, used : Nat]
          /\ [c[cur] EXCEPT !.used = to].used = to
          /\ [c[cur] EXCEPT !.used = to].size = c[cur].size
      BY <2>1
    <3>. QED
      BY <3>1
  <2>3. d = [c EXCEPT ![cur] = b]
    BY <2>2
  <2>. QED
    BY <2>2, <2>3, <1>1 DEF Blocks
<1>3. x \in [block : Nat, from : Nat, to : Nat, depth : Nat] /\ le \cup {x} \in Loans
  BY <1>1 DEF Loans
<1>4. x.block = cur /\ x.from = from /\ x.to = to /\ x.depth = Len(sc)
  OBVIOUS
<1>5. \A i \in 1 .. Len(c) : c[i].used \in Nat /\ c[i].size \in Nat
  BY BlockAt
<1>6. BlocksFit(d, cur)
  <2>1. d # <<>>
    BY <1>1, <1>2
  <2>2. \A i \in 1 .. Len(d) : d[i].used <= d[i].size /\ 2 * (d[i].size + HeaderSize) < Width
    BY <1>1, <1>2 DEF BlocksFit
  <2>. QED
    BY <2>1, <2>2, <1>1, <1>2 DEF BlocksFit
<1>7. \A i \in 1 .. Len(c) : c[i].used <= d[i].used
  BY <1>1, <1>2, <1>5
<1>8. MarksRise(d, cur, sc)
  <2>1. ASSUME NEW i \in 1 .. Len(sc), sc[i].block # 0 PROVE sc[i].used <= d[sc[i].block].used
    <3>1. sc[i].block \in Nat /\ sc[i].used \in Nat
      BY MarkAt
    <3>2. sc[i].block <= cur /\ sc[i].used <= c[sc[i].block].used
      BY <2>1 DEF MarksRise
    <3>3. sc[i].block \in 1 .. Len(c)
      BY <3>1, <3>2, <2>1, <1>1
    <3>4. d[sc[i].block].used \in Nat
      BY <3>3, <1>2, BlockAt
    <3>. QED
      BY <3>1, <3>2, <3>3, <3>4, <1>5, <1>7
  <2>. QED
    BY <2>1 DEF MarksRise
<1>9. \A y \in le : /\ y.block \in 1 .. cur /\ y.depth <= Len(sc)
                    /\ y.from < y.to /\ y.to <= d[y.block].used
                    /\ y.block = cur => y.to <= from
  <2>1. SUFFICES ASSUME NEW y \in le
                 PROVE  /\ y.block \in 1 .. cur /\ y.depth <= Len(sc)
                        /\ y.from < y.to /\ y.to <= d[y.block].used
                        /\ y.block = cur => y.to <= from
    OBVIOUS
  <2>2. y.block \in Nat /\ y.from \in Nat /\ y.to \in Nat /\ y.depth \in Nat
    BY DEF Loans
  <2>3. /\ y.block \in 1 .. cur /\ y.depth <= Len(sc)
        /\ y.from < y.to /\ y.to <= c[y.block].used
    BY DEF LoansStand
  <2>4. y.block \in 1 .. Len(c)
    BY <2>3, <1>1
  <2>5. d[y.block].used \in Nat
    BY <2>4, <1>2, BlockAt
  <2>6. y.to <= d[y.block].used
    BY <2>2, <2>3, <2>4, <2>5, <1>5, <1>7
  <2>7. y.block = cur => y.to <= from
    BY <2>2, <2>3, <2>4, <1>5
  <2>. QED
    BY <2>3, <2>6, <2>7
<1>10. LoansStand(d, cur, sc, le \cup {x})
  <2>1. ASSUME NEW y \in le \cup {x}
        PROVE  /\ y.block \in 1 .. cur /\ y.depth <= Len(sc)
               /\ y.from < y.to /\ y.to <= d[y.block].used
    <3>1. CASE y = x
      BY <3>1, <1>1, <1>2, <1>4
    <3>2. CASE y \in le
      BY <3>2, <1>9
    <3>. QED
      BY <3>1, <3>2
  <2>2. ASSUME NEW y \in le \cup {x}, NEW z \in le \cup {x}, y.block = z.block, y # z
        PROVE  y.to <= z.from \/ z.to <= y.from
    <3>1. CASE y \in le /\ z \in le
      BY <3>1, <2>2 DEF LoansStand
    <3>2. CASE y = x /\ z \in le
      BY <3>2, <2>2, <1>4, <1>9
    <3>3. CASE z = x /\ y \in le
      BY <3>3, <2>2, <1>4, <1>9
    <3>. QED
      BY <2>2, <3>1, <3>2, <3>3
  <2>3. ASSUME NEW y \in le \cup {x}, NEW i \in 1 .. Len(sc), y.depth < i
        PROVE  y.block < sc[i].block \/ (y.block = sc[i].block /\ y.to <= sc[i].used)
    <3>1. y # x
      BY <2>3, <1>1, <1>4
    <3>. QED
      BY <3>1, <2>3 DEF LoansStand
  <2>. QED
    BY <2>1, <2>2, <2>3 DEF LoansStand
<1>. QED
  BY <1>2, <1>3, <1>6, <1>8, <1>10

(* The blocks up to the current one are all a mark or a loan speaks of, so what     *)
(* comes after it may change.                                                     *)
LEMMA NextFits ==
    ASSUME NEW c \in Blocks, NEW cur \in Nat, NEW sc \in Marks, NEW le \in Loans,
           ArenaFits(c, cur, sc, le), NEW d \in Blocks, Len(d) >= cur + 1,
           \A j \in 1 .. cur : d[j] = c[j],
           \A j \in cur + 1 .. Len(d) :
              d[j].used <= d[j].size /\ 2 * (d[j].size + HeaderSize) < Width
    PROVE  ArenaFits(d, cur + 1, sc, le)
<1>. USE DEF ArenaFits
<1>1. cur <= Len(c) /\ Len(c) \in Nat /\ Len(d) \in Nat /\ Len(sc) \in Nat
  BY SMTT(30) DEF BlocksFit, Blocks, Marks
<1>2. BlocksFit(d, cur + 1)
  <2>1. ASSUME NEW j \in 1 .. Len(d)
        PROVE  d[j].used <= d[j].size /\ 2 * (d[j].size + HeaderSize) < Width
    <3>1. CASE j <= cur
      <4>1. j \in 1 .. cur /\ j \in 1 .. Len(c)
        BY <3>1, <1>1
      <4>. QED
        BY <4>1 DEF BlocksFit
    <3>2. CASE ~ (j <= cur)
      <4>1. j \in cur + 1 .. Len(d)
        BY <3>2, <1>1
      <4>. QED
        BY <4>1
    <3>. QED
      BY <3>1, <3>2
  <2>2. cur + 1 \in 0 .. Len(d) /\ d # <<>> /\ cur + 1 # 0
    BY <1>1
  <2>. QED
    BY <2>1, <2>2 DEF BlocksFit
<1>3. MarksRise(d, cur + 1, sc)
  <2>1. ASSUME NEW i \in 1 .. Len(sc)
        PROVE  /\ sc[i].block <= cur + 1
               /\ sc[i].block # 0 => sc[i].used <= d[sc[i].block].used
               /\ sc[i].block = 0 => sc[i].used = 0
    <3>1. sc[i].block \in Nat
      BY MarkAt
    <3>2. /\ sc[i].block <= cur /\ (sc[i].block # 0 => sc[i].used <= c[sc[i].block].used)
          /\ sc[i].block = 0 => sc[i].used = 0
      BY DEF MarksRise
    <3>3. sc[i].block # 0 => sc[i].block \in 1 .. cur
      BY <3>1, <3>2
    <3>4. sc[i].block <= cur + 1
      BY <3>1, <3>2
    <3>. QED
      BY <3>2, <3>3, <3>4
  <2>. QED
    BY <2>1 DEF MarksRise
<1>4. LoansStand(d, cur + 1, sc, le)
  <2>1. ASSUME NEW y \in le
        PROVE  y.block \in 1 .. cur + 1 /\ y.to <= d[y.block].used
    <3>1. y.block \in 1 .. cur /\ y.to <= c[y.block].used
      BY DEF LoansStand
    <3>. QED
      BY <3>1
  <2>. QED
    BY <2>1 DEF LoansStand
<1>. QED
  BY <1>2, <1>3, <1>4

(* A mark is set where what is filled ends.                                        *)
LEMMA OpenFits ==
    ASSUME NEW c \in Blocks, NEW cur \in Nat, NEW sc \in Marks, NEW le \in Loans,
           ArenaFits(c, cur, sc, le), NEW m \in [block : Nat, used : Nat],
           m.block = cur, m.used = IF cur = 0 THEN 0 ELSE c[cur].used
    PROVE  Append(sc, m) \in Marks /\ ArenaFits(c, cur, Append(sc, m), le)
<1>. USE DEF ArenaFits
<1>1. PICK l \in Nat : l = Len(sc)
  BY DEF Marks
<1>2. PICK sd : sd = Append(sc, m)
  OBVIOUS
<1>3. /\ sd \in Marks /\ Len(sd) = l + 1 /\ sd[l + 1] = m
      /\ \A i \in 1 .. l : sd[i] = sc[i]
  BY <1>1, <1>2 DEF Marks
<1>4. \A i \in 1 .. l : sc[i].block \in Nat /\ sc[i].used \in Nat
  BY <1>1, MarkAt
<1>5. \A i \in 1 .. l :
         /\ sc[i].block <= cur /\ (sc[i].block # 0 => sc[i].used <= c[sc[i].block].used)
         /\ sc[i].block = 0 => sc[i].used = 0
  BY <1>1 DEF MarksRise
<1>6. \A i \in 1 .. l : Behind(sc[i], m)
  BY <1>4, <1>5 DEF Behind
<1>7. cur # 0 => c[cur].used \in Nat
  <2>1. cur # 0 => cur \in 1 .. Len(c)
    BY DEF BlocksFit, Blocks
  <2>. QED
    BY <2>1, BlockAt
<1>8. MarksRise(c, cur, sd)
  <2>1. ASSUME NEW i \in 1 .. l + 1
        PROVE  /\ sd[i].block <= cur
               /\ sd[i].block # 0 => sd[i].used <= c[sd[i].block].used
               /\ sd[i].block = 0 => sd[i].used = 0
    <3>1. CASE i = l + 1
      BY <3>1, <1>3, <1>7
    <3>2. CASE i # l + 1
      <4>1. i \in 1 .. l
        BY <3>2
      <4>. QED
        BY <4>1, <1>3, <1>5
    <3>. QED
      BY <3>1, <3>2
  <2>2. ASSUME NEW i \in 1 .. l + 1, NEW j \in 1 .. l + 1, i < j
        PROVE  Behind(sd[i], sd[j])
    <3>1. i \in 1 .. l
      BY <2>2
    <3>2. CASE j = l + 1
      BY <3>1, <3>2, <1>3, <1>6
    <3>3. CASE j # l + 1
      <4>1. j \in 1 .. l
        BY <3>3
      <4>. QED
        BY <3>1, <4>1, <2>2, <1>1, <1>3 DEF MarksRise
    <3>. QED
      BY <3>2, <3>3
  <2>. QED
    BY <2>1, <2>2, <1>3 DEF MarksRise
<1>9. LoansStand(c, cur, sd, le)
  <2>1. ASSUME NEW x \in le
        PROVE  /\ x.block \in 1 .. cur /\ x.depth <= l /\ x.depth \in Nat
               /\ x.from < x.to /\ x.to <= c[x.block].used
    <3>1. x.depth \in Nat
      BY DEF Loans
    <3>. QED
      BY <3>1, <1>1 DEF LoansStand
  <2>2. ASSUME NEW x \in le, NEW i \in 1 .. l + 1, x.depth < i
        PROVE  x.block < sd[i].block \/ (x.block = sd[i].block /\ x.to <= sd[i].used)
    <3>1. CASE i = l + 1
      <4>1. x.block \in 1 .. cur /\ x.to <= c[x.block].used
        BY <2>1
      <4>2. cur # 0
        BY <4>1
      <4>3. CASE x.block = cur
        BY <4>1, <4>2, <4>3, <3>1, <1>3
      <4>4. CASE x.block # cur
        BY <4>1, <4>4, <3>1, <1>3
      <4>. QED
        BY <4>3, <4>4
    <3>2. CASE i # l + 1
      <4>1. i \in 1 .. l
        BY <3>2
      <4>. QED
        BY <4>1, <2>2, <1>1, <1>3 DEF LoansStand
    <3>. QED
      BY <3>1, <3>2
  <2>3. \A x \in le : x.depth <= l + 1
    BY <2>1, <1>1
  <2>. QED
    BY <2>1, <2>2, <2>3, <1>3 DEF LoansStand
<1>. QED
  BY <1>2, <1>3, <1>8, <1>9


LEMMA FunctionSeq ==
    ASSUME NEW S, NEW k \in Nat, NEW f \in [1 .. k -> S]
    PROVE  f \in Seq(S) /\ Len(f) = k
OBVIOUS

LEMMA FrontSeq ==
    ASSUME NEW S, NEW s \in Seq(S), Len(s) >= 1
    PROVE  LET f == SubSeq(s, 1, Len(s) - 1) IN
           /\ f \in Seq(S) /\ Len(f) = Len(s) - 1
           /\ \A i \in 1 .. Len(s) - 1 : f[i] = s[i]
<1>1. PICK e \in Nat : e = Len(s) - 1
  OBVIOUS
<1>2. \A i \in 1 .. e : s[i] \in S
  BY <1>1
<1>3. SubSeq(s, 1, e) \in Seq(S)
  BY <1>2, SubSeqProperties
<1>4. Len(SubSeq(s, 1, e)) = e
  BY <1>1, <1>2, SubSeqProperties
<1>5. \A i \in 1 .. e : SubSeq(s, 1, e)[i] = s[i]
  BY <1>1, <1>2, SubSeqProperties
<1>. QED
  BY <1>1, <1>3, <1>4, <1>5

BlocksBack(c, m) == [i \in DOMAIN c |-> IF i > m.block THEN [c[i] EXCEPT !.used = 0]
                                        ELSE IF i = m.block THEN [c[i] EXCEPT !.used = m.used]
                                        ELSE c[i]]
PlaceBack(c, m) == IF m.block # 0 THEN m.block ELSE IF c = <<>> THEN 0 ELSE 1
MarksBack(sc) == SubSeq(sc, 1, Len(sc) - 1)
LoansBack(sc, le) == {x \in le : x.depth < Len(sc)}

(* Back at a mark: what came after it is empty again, what came before stays.      *)
LEMMA CloseFits ==
    ASSUME NEW c \in Blocks, NEW cur \in Nat, NEW sc \in Marks, NEW le \in Loans,
           ArenaFits(c, cur, sc, le), sc # <<>>,
           NEW m, m = sc[Len(sc)],
           NEW d, d = BlocksBack(c, m), NEW cur2, cur2 = PlaceBack(c, m),
           NEW sc2, sc2 = MarksBack(sc), NEW le2, le2 = LoansBack(sc, le)
    PROVE  /\ d \in Blocks /\ cur2 \in Nat /\ sc2 \in Marks /\ le2 \in Loans
           /\ ArenaFits(d, cur2, sc2, le2)
<1>. USE DEF ArenaFits, BlocksBack, PlaceBack, MarksBack, LoansBack
<1>1. PICK l \in Nat : l = Len(sc) /\ l >= 1
  <2>1. Len(sc) \in Nat /\ Len(sc) # 0
    BY EmptySeq DEF Marks
  <2>. QED
    BY <2>1
<1>2. PICK k \in Nat : k = Len(c) /\ DOMAIN c = 1 .. k /\ (c = <<>> <=> k = 0)
  BY DEF Blocks
<1>3. /\ m.block \in Nat /\ m.used \in Nat /\ m.block <= cur /\ cur <= k
      /\ m.block # 0 => m.used <= c[m.block].used
      /\ m.block = 0 => m.used = 0
  <2>1. l \in 1 .. Len(sc) /\ m = sc[l]
    BY <1>1
  <2>2. m.block \in Nat /\ m.used \in Nat
    BY <2>1, MarkAt
  <2>. QED
    BY <2>1, <2>2, <1>2 DEF MarksRise, BlocksFit
<1>4. \A i \in 1 .. k : c[i] \in [size : Nat, used : Nat] /\ c[i].used \in Nat /\ c[i].size \in Nat
  BY <1>2, BlockAt
<1>5. ASSUME NEW i \in 1 .. k
      PROVE  /\ d[i] \in [size : Nat, used : Nat] /\ d[i].size = c[i].size
             /\ i > m.block => d[i].used = 0
             /\ i = m.block => d[i].used = m.used
             /\ i < m.block => d[i].used = c[i].used
  <2>1. c[i] \in [size : Nat, used : Nat] /\ i \in DOMAIN c
    BY <1>2, <1>4
  <2>2. CASE i > m.block
    <3>1. d[i] = [c[i] EXCEPT !.used = 0]
      BY <2>1, <2>2
    <3>2. /\ [c[i] EXCEPT !.used = 0] \in [size : Nat, used : Nat]
          /\ [c[i] EXCEPT !.used = 0].size = c[i].size /\ [c[i] EXCEPT !.used = 0].used = 0
      BY <2>1
    <3>3. ~ (i = m.block) /\ ~ (i < m.block)
      BY <2>2, <1>3
    <3>. QED
      BY <3>1, <3>2, <3>3
  <2>3. CASE i = m.block
    <3>1. ~ (i > m.block) /\ ~ (i < m.block)
      BY <2>3, <1>3
    <3>2. d[i] = [c[i] EXCEPT !.used = m.used]
      BY <2>1, <2>3, <3>1
    <3>3. /\ [c[i] EXCEPT !.used = m.used] \in [size : Nat, used : Nat]
          /\ [c[i] EXCEPT !.used = m.used].size = c[i].size
          /\ [c[i] EXCEPT !.used = m.used].used = m.used
      BY <2>1, <1>3
    <3>. QED
      BY <3>1, <3>2, <3>3
  <2>4. CASE i < m.block
    <3>1. ~ (i > m.block) /\ i # m.block
      BY <2>4, <1>3
    <3>2. d[i] = c[i]
      BY <2>1, <3>1
    <3>. QED
      BY <2>1, <3>1, <3>2
  <2>5. i > m.block \/ i = m.block \/ i < m.block
    BY <1>3
  <2>. QED
    BY <2>2, <2>3, <2>4, <2>5
<1>6. d \in Blocks /\ Len(d) = k
  <2>1. d = [i \in 1 .. k |-> d[i]]
    BY <1>2
  <2>2. \A i \in 1 .. k : d[i] \in [size : Nat, used : Nat]
    BY <1>5
  <2>3. d \in [1 .. k -> [size : Nat, used : Nat]]
    BY <2>1, <2>2
  <2>4. PICK f \in [1 .. k -> [size : Nat, used : Nat]] : f = d
    BY <2>3
  <2>5. f \in Seq([size : Nat, used : Nat]) /\ Len(f) = k
    BY FunctionSeq
  <2>. QED
    BY <2>4, <2>5 DEF Blocks
<1>7. cur2 \in 0 .. k /\ (cur2 = 0 <=> k = 0) /\ m.block <= cur2 /\ (m.block # 0 => cur2 = m.block)
  BY <1>2, <1>3
<1>8. BlocksFit(d, cur2)
  <2>1. ASSUME NEW i \in 1 .. k
        PROVE  d[i].used <= d[i].size /\ 2 * (d[i].size + HeaderSize) < Width
    <3>1. c[i].used <= c[i].size /\ 2 * (c[i].size + HeaderSize) < Width
      BY <1>2 DEF BlocksFit
    <3>2. c[i].used \in Nat /\ c[i].size \in Nat
      BY <1>4
    <3>3. d[i].size = c[i].size
      BY <1>5
    <3>4. d[i].used <= c[i].size
      <4>1. CASE i > m.block
        <5>1. d[i].used = 0
          BY <4>1, <1>5
        <5>. QED
          BY <5>1, <3>2
      <4>2. CASE i = m.block
        <5>0. d[i].used = m.used
          BY <4>2, <1>5
        <5>a. m.block # 0
          BY <4>2
        <5>1. d[i].used = m.used /\ m.used <= c[i].used
          BY <4>2, <5>0, <5>a, <1>3
        <5>. QED
          BY <5>1, <3>1, <3>2, <1>3
      <4>3. CASE i < m.block
        <5>1. d[i].used = c[i].used
          BY <4>3, <1>5
        <5>. QED
          BY <5>1, <3>1
      <4>4. i > m.block \/ i = m.block \/ i < m.block
        BY <1>3
      <4>. QED
        BY <4>1, <4>2, <4>3, <4>4
    <3>. QED
      BY <3>1, <3>3, <3>4
  <2>2. d = <<>> <=> k = 0
    BY <1>6 DEF Blocks
  <2>. QED
    BY <2>1, <2>2, <1>6, <1>7 DEF BlocksFit
<1>9. /\ sc2 \in Marks /\ Len(sc2) = l - 1 /\ \A i \in 1 .. l - 1 : sc2[i] = sc[i]
  <2>1. l - 1 \in 0 .. Len(sc)
    BY <1>1
  <2>2. sc \in Seq([block : Nat, used : Nat])
    BY DEF Marks
  <2>3. /\ sc2 \in Seq([block : Nat, used : Nat]) /\ Len(sc2) = l - 1
        /\ \A i \in 1 .. l - 1 : sc2[i] = sc[i]
    BY <2>2, <1>1, FrontSeq
  <2>. QED
    BY <2>3 DEF Marks
<1>10. MarksRise(d, cur2, sc2)
  <2>1. ASSUME NEW i \in 1 .. l - 1
        PROVE  /\ sc[i].block <= cur2
               /\ sc[i].block # 0 => sc[i].used <= d[sc[i].block].used
               /\ sc[i].block = 0 => sc[i].used = 0
    <3>1. i \in 1 .. Len(sc) /\ l \in 1 .. Len(sc) /\ i < l
      BY <1>1
    <3>2. sc[i].block \in Nat /\ sc[i].used \in Nat
      BY <3>1, MarkAt
    <3>3. /\ Behind(sc[i], m) /\ (sc[i].block # 0 => sc[i].used <= c[sc[i].block].used)
          /\ sc[i].block = 0 => sc[i].used = 0
      BY <3>1, <1>1 DEF MarksRise
    <3>4. sc[i].block <= m.block
      BY <3>2, <3>3, <1>3 DEF Behind
    <3>5. ASSUME sc[i].block # 0 PROVE sc[i].used <= d[sc[i].block].used
      <4>1. PICK p \in 1 .. k : p = sc[i].block
        <5>1. sc[i].block \in 1 .. k
          BY <3>2, <3>4, <3>5, <1>3
        <5>. QED
          BY <5>1
      <4>2. CASE p = m.block
        <5>1. d[p].used = m.used
          BY <4>2, <1>5
        <5>2. sc[i].used <= m.used
          BY <4>1, <4>2, <3>2, <3>3, <1>3 DEF Behind
        <5>. QED
          BY <4>1, <5>1, <5>2
      <4>3. CASE p # m.block
        <5>1. p < m.block
          BY <4>1, <4>3, <3>2, <3>4, <1>3
        <5>2. d[p].used = c[p].used
          BY <5>1, <1>5
        <5>. QED
          BY <4>1, <5>2, <3>3, <3>5
      <4>. QED
        BY <4>2, <4>3
    <3>6. sc[i].block <= cur2
      BY <3>2, <3>4, <1>3, <1>7
    <3>. QED
      BY <3>3, <3>5, <3>6
  <2>2. ASSUME NEW i \in 1 .. l - 1, NEW j \in 1 .. l - 1, i < j PROVE Behind(sc[i], sc[j])
    <3>1. i \in 1 .. Len(sc) /\ j \in 1 .. Len(sc)
      BY <1>1
    <3>. QED
      BY <3>1, <2>2 DEF MarksRise
  <2>. QED
    BY <2>1, <2>2, <1>9 DEF MarksRise
<1>11. LoansStand(d, cur2, sc2, le2)
  <2>1. ASSUME NEW x \in le2
        PROVE  /\ x.block \in 1 .. cur2 /\ x.depth <= l - 1
               /\ x.from < x.to /\ x.to <= d[x.block].used
    <3>1. x \in le /\ x.depth < l /\ x.depth \in Nat /\ x.block \in Nat /\ x.to \in Nat
      BY <1>1 DEF Loans
    <3>2. l \in 1 .. Len(sc)
      BY <1>1
    <3>3. /\ x.block < m.block \/ (x.block = m.block /\ x.to <= m.used)
          /\ x.block \in 1 .. cur /\ x.from < x.to /\ x.to <= c[x.block].used
      BY <3>1, <3>2, <1>1 DEF LoansStand
    <3>4. x.block \in 1 .. k /\ x.block <= m.block /\ m.block # 0
      BY <3>1, <3>3, <1>3
    <3>5. x.to <= d[x.block].used
      <4>1. CASE x.block = m.block
        BY <4>1, <3>1, <3>3, <3>4, <1>3, <1>5
      <4>2. CASE x.block # m.block
        <5>0. x.block < m.block
          BY <4>2, <3>1, <3>4, <1>3
        <5>1. d[x.block].used = c[x.block].used
          BY <5>0, <3>4, <1>5
        <5>. QED
          BY <5>1, <3>3
      <4>. QED
        BY <4>1, <4>2
    <3>6. x.depth <= l - 1 /\ x.block \in 1 .. cur2
      BY <3>1, <3>4, <1>1, <1>7
    <3>. QED
      BY <3>3, <3>5, <3>6
  <2>2. ASSUME NEW x \in le2, NEW i \in 1 .. l - 1, x.depth < i
        PROVE  x.block < sc[i].block \/ (x.block = sc[i].block /\ x.to <= sc[i].used)
    <3>1. i \in 1 .. Len(sc) /\ x \in le
      BY <1>1
    <3>. QED
      BY <3>1, <2>2 DEF LoansStand
  <2>4. \A x \in le2 : \A i \in 1 .. l - 1 :
           x.depth < i => x.block < sc2[i].block \/ (x.block = sc2[i].block /\ x.to <= sc2[i].used)
    BY <2>2, <1>9
  <2>3. \A x, y \in le2 : x.block = y.block /\ x # y => x.to <= y.from \/ y.to <= x.from
    BY DEF LoansStand
  <2>. QED
    BY <2>1, <2>4, <2>3, <1>9 DEF LoansStand
<1>12. le2 \in Loans
  BY DEF Loans
<1>. QED
  BY <1>6, <1>7, <1>8, <1>9, <1>10, <1>11, <1>12

LEMMA InitFits == ArenaFits(<<>>, 0, <<>>, {}) /\ <<>> \in Blocks /\ <<>> \in Marks
BY DEF ArenaFits, BlocksFit, MarksRise, LoansStand, Blocks, Marks


-----------------------------------------------------------------------------
(* A thread in an arena that is sound is its owner, and the arena one of those     *)
(* there are.                                                                      *)
LEMMA ArenaCount == BlocksDouble => Prepared + Cardinality(Workers) \in Nat
<1>1. ASSUME BlocksDouble PROVE Cardinality(Workers) \in Nat
  BY <1>1, FS_CardinalityType DEF BlocksDouble
<1>. QED
  BY <1>1, ScratchAssumption

LEMMA UsingIs ==
    ASSUME BlocksDouble, ScratchInv, NEW t \in Workers, Using(t) # 0
    PROVE  /\ Using(t) \in Arenas
           /\ Using(t) \notin astray => arenaOf[t] = Using(t)
<1>1. /\ nextArena \in 0 .. Prepared + Cardinality(Workers) /\ arenaOf[t] \in Nat
      /\ arenaOf[t] <= nextArena
  BY DEF ScratchInv, ScratchShapes, GivenInTurn
<1>2. CASE arenaOf[t] # 0
  <2>1. Using(t) = arenaOf[t]
    BY <1>2 DEF Using
  <2>. QED
    BY <2>1, <1>1, <1>2, ArenaCount DEF Arenas
<1>3. CASE arenaOf[t] = 0
  <2>1. Using(t) = 1 /\ sharing # {}
    BY <1>3 DEF Using
  <2>2. 1 \in Arenas
    <3>1. IsFiniteSet(Workers) /\ Cardinality(Workers) \in Nat
      BY FS_CardinalityType DEF BlocksDouble
    <3>. QED
      BY <3>1, ScratchAssumption DEF Arenas
  <2>3. 1 \in astray
    BY <2>1 DEF ScratchInv, GivenInTurn
  <2>. QED
    BY <2>1, <2>2, <2>3
<1>. QED
  BY <1>2, <1>3

LEMMA OwnArena ==
    ASSUME BlocksDouble, ScratchInv, NEW t \in Workers, NEW a \in Sound
    PROVE  /\ a \in Arenas /\ chain[a] \in Blocks /\ current[a] \in Nat
           /\ scopes[a][t] \in Marks /\ lent[a][t] \in Loans
           /\ scopes[a] \in [Workers -> Marks] /\ lent[a] \in [Workers -> Loans]
           /\ ArenaFits(chain[a], current[a], scopes[a][t], lent[a][t])
BY DEF ScratchInv, ScratchShapes, Sound

(* What a step of a thread in one arena is: nothing of the others changes, and if    *)
(* that arena is still sound it is the thread's own, and nothing of another in it.   *)
ArenaMoved(t, a) ==
    /\ nextArena' = nextArena /\ arenaOf' = arenaOf /\ sharing' = sharing /\ ScratchShapes'
    /\ astray' = astray \/ astray' = astray \cup {a}
    /\ \A u \in Workers : u # t => want'[u] = want[u]
    /\ want'[t].step # "arena" /\ (want'[t].step \in {"look", "stuck"} => Using(t) # 0)
    /\ \A b \in Arenas : b # a =>
          /\ chain'[b] = chain[b] /\ current'[b] = current[b]
          /\ scopes'[b] = scopes[b] /\ lent'[b] = lent[b]
    /\ a \in Sound' =>
          /\ arenaOf[t] = a
          /\ \A u \in Workers : u # t => /\ scopes'[a][u] = scopes[a][u]
                                         /\ lent'[a][u] = lent[a][u]
          /\ ArenaFits(chain'[a], current'[a], scopes'[a][t], lent'[a][t])
    /\ AsksRightly(t)'

LEMMA UsingAfter ==
    ASSUME arenaOf' = arenaOf, sharing' = sharing
    PROVE  \A u : Using(u)' = Using(u)
BY DEF Using

LEMMA OthersAsk ==
    ASSUME BlocksDouble, ScratchInv, NEW t \in Workers, NEW a \in Arenas, ArenaMoved(t, a),
           NEW u \in Workers, u # t
    PROVE  AsksRightly(u)'
<1>1. want'[u] = want[u] /\ Using(u)' = Using(u) /\ AsksRightly(u)
  BY UsingAfter DEF ArenaMoved, ScratchInv
<1>2. astray \subseteq astray'
  BY DEF ArenaMoved
<1>3. ASSUME want[u].step = "look", Using(u) \notin astray'
      PROVE  FitsBlock(Using(u), want[u])' <=> FitsBlock(Using(u), want[u])
  <2>1. Using(u) # 0
    BY <1>3 DEF ScratchInv, GivenInTurn
  <2>2. Using(u) \in Arenas /\ Using(u) \notin astray /\ arenaOf[u] = Using(u)
    BY <2>1, <1>2, <1>3, UsingIs
  <2>3. Using(u) # a
    <3>1. CASE a \in Sound'
      <4>1. arenaOf[t] = a /\ arenaOf[t] # 0
        <5>1. a # 0
          BY DEF Arenas
        <5>. QED
          BY <5>1, <3>1 DEF ArenaMoved
      <4>2. arenaOf[u] # arenaOf[t]
        BY <4>1 DEF ScratchInv, GivenInTurn
      <4>. QED
        BY <4>1, <4>2, <2>2
    <3>2. CASE a \notin Sound'
      <4>1. a \in astray'
        BY <3>2 DEF Sound, Arenas
      <4>. QED
        BY <4>1, <1>3
    <3>. QED
      BY <3>1, <3>2
  <2>4. chain'[Using(u)] = chain[Using(u)] /\ current'[Using(u)] = current[Using(u)]
    BY <2>2, <2>3 DEF ArenaMoved
  <2>. QED
    BY <1>1, <2>4 DEF FitsBlock, Need, Offset, UpTo
<1>4. ASSUME Using(u) \notin astray', Modest(want[u])
      PROVE  /\ want[u].step = "look" /\ want[u].more => FitsBlock(Using(u), want[u])'
             /\ want[u].step # "stuck"
  BY <1>1, <1>2, <1>3, <1>4 DEF AsksRightly
<1>5. Modest(want[u])' <=> Modest(want[u])
  BY <1>1 DEF Modest
<1>. QED
  BY <1>1, <1>4, <1>5 DEF AsksRightly

LEMMA ArenaMove ==
    ASSUME BlocksDouble, ScratchInv, NEW t \in Workers, NEW a \in Arenas, ArenaMoved(t, a),
           want[t].step # "arena"
    PROVE  ScratchInv'
<1>1. /\ nextArena' = nextArena /\ arenaOf' = arenaOf /\ sharing' = sharing
      /\ ScratchShapes' /\ want'[t].step # "arena"
      /\ \A u \in Workers : u # t => want'[u] = want[u]
      /\ astray \subseteq astray'
  BY DEF ArenaMoved
<1>2. \A u : Using(u)' = Using(u)
  BY <1>1, UsingAfter
<1>3. ASSUME NEW u \in Workers, want'[u].step = "arena"
      PROVE  want[u].step = "arena" /\ u # t /\ want'[u] = want[u]
  BY <1>1, <1>3
<1>4. GivenInTurn'
  <2>1. /\ \A u \in Workers : arenaOf[u] <= nextArena
        /\ \A u \in Workers : want[u].step = "arena" =>
              arenaOf[u] = 0 /\ want[u].n \in 1 .. nextArena
        /\ \A u, v \in Workers : u # v =>
              /\ arenaOf[u] # 0 => arenaOf[u] # arenaOf[v]
              /\ want[u].step = "arena" => want[u].n # arenaOf[v]
              /\ want[u].step = "arena" /\ want[v].step = "arena" => want[u].n # want[v].n
        /\ \A u \in Workers : want[u].step \in {"look", "stuck"} => Using(u) # 0
        /\ sharing # {} => 1 \in astray
    BY DEF ScratchInv, GivenInTurn
  <2>2. \A u \in Workers : want'[u].step \in {"look", "stuck"} => Using(u)' # 0
    <3>1. want'[t].step \in {"look", "stuck"} => Using(t) # 0
      BY DEF ArenaMoved
    <3>. QED
      BY <3>1, <1>1, <1>2, <2>1
  <2>3. \A u \in Workers : want'[u].step = "arena" =>
           arenaOf[u] = 0 /\ want'[u].n \in 1 .. nextArena
    BY <1>3, <2>1
  <2>4. \A u, v \in Workers : u # v =>
           /\ arenaOf[u] # 0 => arenaOf[u] # arenaOf[v]
           /\ want'[u].step = "arena" => want'[u].n # arenaOf[v]
           /\ want'[u].step = "arena" /\ want'[v].step = "arena" => want'[u].n # want'[v].n
    BY <1>3, <2>1
  <2>5. sharing' # {} => 1 \in astray'
    BY <1>1, <2>1
  <2>. QED
    BY <1>1, <2>1, <2>2, <2>3, <2>4, <2>5 DEF GivenInTurn
<1>5. \A u \in Workers : AsksRightly(u)'
  <2>1. AsksRightly(t)'
    BY DEF ArenaMoved
  <2>. QED
    BY <2>1, OthersAsk
<1>6. Sound' \subseteq Sound
  BY <1>1 DEF Sound, Arenas
<1>7. ASSUME NEW b \in Sound', NEW u \in Workers
      PROVE  /\ ArenaFits(chain'[b], current'[b], scopes'[b][u], lent'[b][u])
             /\ arenaOf[u] # b => scopes'[b][u] = <<>> /\ lent'[b][u] = {}
  <2>0. b \in Sound /\ b \in Arenas
    BY <1>6 DEF Sound
  <2>1. CASE b # a
    <3>1. /\ chain'[b] = chain[b] /\ current'[b] = current[b]
          /\ scopes'[b] = scopes[b] /\ lent'[b] = lent[b]
      BY <2>0, <2>1 DEF ArenaMoved
    <3>. QED
      BY <3>1, <2>0 DEF ScratchInv, OwnersOnly
  <2>2. CASE b = a /\ u = t
    BY <2>2 DEF ArenaMoved
  <2>3. CASE b = a /\ u # t
    <3>1. /\ arenaOf[t] = b /\ scopes'[b][u] = scopes[b][u] /\ lent'[b][u] = lent[b][u]
          /\ ArenaFits(chain'[b], current'[b], scopes'[b][t], lent'[b][t])
      BY <2>3 DEF ArenaMoved
    <3>2. b # 0
      BY <2>0 DEF Arenas
    <3>3. arenaOf[u] # b
      BY <3>1, <3>2, <2>3 DEF ScratchInv, GivenInTurn
    <3>4. scopes'[b][u] = <<>> /\ lent'[b][u] = {}
      BY <3>1, <3>3, <2>0 DEF ScratchInv, OwnersOnly
    <3>5. BlocksFit(chain'[b], current'[b])
      BY <3>1 DEF ArenaFits
    <3>. QED
      BY <3>4, <3>5 DEF ArenaFits, MarksRise, LoansStand
  <2>. QED
    BY <2>1, <2>2, <2>3
<1>8. OwnersOnly'
  BY <1>1, <1>7 DEF OwnersOnly
<1>. QED
  BY <1>1, <1>4, <1>5, <1>7, <1>8 DEF ScratchInv

(* What a step leaves of the requests: one is changed, to one that looks or none.   *)
LEMMA OneWant ==
    ASSUME ScratchInv, NEW t \in Workers,
           NEW w \in Requests,
           want' = [want EXCEPT ![t] = w]
    PROVE  /\ want' \in [Workers -> Requests]
           /\ want'[t] = w /\ \A u \in Workers : u # t => want'[u] = want[u]
<1>1. want \in [Workers -> Requests]
  BY DEF ScratchInv, ScratchShapes
<1>. QED
  BY <1>1

LEMMA UnaskedIs ==
    /\ Unasked \in Requests
    /\ Unasked.step = "out"
BY DEF Unasked, Requests

LEMMA AsksNothing ==
    ASSUME NEW t \in Workers, want'[t].step = "out" PROVE AsksRightly(t)'
BY DEF AsksRightly

(* A request comes or goes and no arena changes.                                    *)
LEMMA WantOnly ==
    ASSUME BlocksDouble, ScratchInv, NEW t \in Workers, Using(t) # 0, want[t].step # "arena",
           NEW w \in Requests,
           want' = [want EXCEPT ![t] = w], w.step # "arena", AsksRightly(t)',
           UNCHANGED <<callVars, chain, current, scopes, lent, astray>>
    PROVE  ScratchInv'
<1>0. /\ nextArena' = nextArena /\ arenaOf' = arenaOf /\ sharing' = sharing
      /\ chain' = chain /\ current' = current /\ scopes' = scopes /\ lent' = lent
      /\ astray' = astray
  BY DEF callVars
<1>1. /\ want' \in [Workers -> Requests]
      /\ want'[t] = w /\ \A u \in Workers : u # t => want'[u] = want[u]
  BY OneWant
<1>2. ScratchShapes'
  BY <1>0, <1>1 DEF ScratchInv, ScratchShapes, Arenas, Sound
<1>3. PICK a \in Arenas : a = Using(t)
  BY UsingIs
<1>4. a \in Sound' => arenaOf[t] = a /\ a \in Sound
  BY <1>0, <1>3, UsingIs DEF Sound, Arenas
<1>5. a \in Sound' => ArenaFits(chain'[a], current'[a], scopes'[a][t], lent'[a][t])
  BY <1>0, <1>4, OwnArena
<1>6. ArenaMoved(t, a)
  BY <1>0, <1>1, <1>2, <1>4, <1>5 DEF ArenaMoved
<1>. QED
  BY <1>6, ArenaMove

LEMMA ScratchAskStep ==
    ASSUME BlocksDouble, ScratchInv, NEW t \in Workers, NEW ask \in ScratchAsks,
           ScratchAsk(t, ask[1], ask[2])
    PROVE  ScratchInv'
<1>1. ask[1] \in Nat \ {0} /\ ask[2] \in Nat \ {0}
  <2>1. ask \in (Nat \ {0}) \X (Nat \ {0})
    BY ScratchAssumption
  <2>. QED
    BY <2>1
<1>2. PICK w \in Requests :
         /\ w = [Unasked EXCEPT !.step = "look", !.n = ask[1], !.align = ask[2]]
         /\ w.step = "look" /\ w.n = ask[1] /\ w.align = ask[2] /\ ~ w.more
  <2>1. PICK n \in Nat, align \in Nat : n = ask[1] /\ align = ask[2]
    BY <1>1
  <2>2. Unasked \in Requests /\ ~ Unasked.more
    BY DEF Unasked, Requests
  <2>3. PICK v \in Requests : v = Unasked /\ ~ v.more
    BY <2>2
  <2>4. /\ [v EXCEPT !.step = "look", !.n = n, !.align = align] \in Requests
        /\ [v EXCEPT !.step = "look", !.n = n, !.align = align].step = "look"
        /\ [v EXCEPT !.step = "look", !.n = n, !.align = align].n = n
        /\ [v EXCEPT !.step = "look", !.n = n, !.align = align].align = align
        /\ [v EXCEPT !.step = "look", !.n = n, !.align = align].more = v.more
    BY DEF Requests
  <2>5. PICK w \in Requests : /\ w = [v EXCEPT !.step = "look", !.n = n, !.align = align]
                              /\ w.step = "look" /\ w.n = n /\ w.align = align
                              /\ w.more = v.more
    BY <2>4
  <2>. QED
    BY <2>1, <2>3, <2>5
<1>3. /\ Using(t) # 0 /\ want[t].step = "out" /\ want' = [want EXCEPT ![t] = w]
      /\ UNCHANGED <<callVars, chain, current, scopes, lent, astray>>
  BY <1>2 DEF ScratchAsk
<1>4. want'[t] = w
  BY <1>3, OneWant
<1>5. AsksRightly(t)'
  BY <1>1, <1>2, <1>4 DEF AsksRightly
<1>. QED
  BY <1>2, <1>3, <1>5, WantOnly

LEMMA ScratchRefusedStep ==
    ASSUME BlocksDouble, ScratchInv, NEW t \in Workers, ScratchRefused(t)
    PROVE  ScratchInv'
<1>1. want[t].step = "look"
  BY DEF ScratchRefused, NoBlockAfter
<1>2. Using(t) # 0
  BY <1>1 DEF ScratchInv, GivenInTurn
<1>3. /\ want' = [want EXCEPT ![t] = Unasked]
      /\ UNCHANGED <<callVars, chain, current, scopes, lent, astray>>
  BY DEF ScratchRefused
<1>4. AsksRightly(t)'
  BY <1>3, UnaskedIs, OneWant, AsksNothing
<1>. QED
  BY <1>1, <1>2, <1>3, <1>4, UnaskedIs, WantOnly

(* The arenas are as they were and of fewer threads at most: what is sound fits.      *)
LEMMA ArenasStay ==
    ASSUME ScratchInv, UNCHANGED <<chain, current, scopes, lent>>,
           astray \subseteq astray',
           \A u \in Workers : arenaOf[u] # 0 => arenaOf'[u] = arenaOf[u]
    PROVE  /\ OwnersOnly'
           /\ \A a \in Sound', u \in Workers :
                 ArenaFits(chain'[a], current'[a], scopes'[a][u], lent'[a][u])
<1>1. Sound' \subseteq Sound /\ \A a \in Sound : a # 0
  BY DEF Sound, Arenas
<1>2. ASSUME NEW a \in Sound', NEW u \in Workers, arenaOf'[u] # a
      PROVE  scopes'[a][u] = <<>> /\ lent'[a][u] = {}
  <2>1. a \in Sound /\ a # 0
    BY <1>1
  <2>2. arenaOf[u] # a
    BY <2>1, <1>2
  <2>. QED
    BY <2>1, <2>2 DEF ScratchInv, OwnersOnly
<1>3. ASSUME NEW a \in Sound', NEW u \in Workers
      PROVE  ArenaFits(chain'[a], current'[a], scopes'[a][u], lent'[a][u])
  BY <1>1 DEF ScratchInv
<1>. QED
  BY <1>2, <1>3 DEF OwnersOnly

(* The others' requests are what they were.                                        *)
LEMMA AsksStay ==
    ASSUME ScratchInv, NEW t \in Workers, want'[t].step \in {"out", "arena"},
           \A u \in Workers : u # t => want'[u] = want[u] /\ arenaOf'[u] = arenaOf[u],
           \A u \in Workers : u # t => (u \in sharing' <=> u \in sharing),
           UNCHANGED <<chain, current>>, astray \subseteq astray'
    PROVE  /\ \A u \in Workers : AsksRightly(u)'
           /\ \A u \in Workers : want'[u].step \in {"look", "stuck"} => Using(u)' # 0
<1>1. \A u \in Workers : u # t => Using(u)' = Using(u)
  BY DEF Using
<1>2. ASSUME NEW u \in Workers
      PROVE  AsksRightly(u)' /\ (want'[u].step \in {"look", "stuck"} => Using(u)' # 0)
  <2>1. CASE u = t
    <3>1. want'[u].step \notin {"look", "stuck"}
      BY <2>1
    <3>. QED
      BY <3>1 DEF AsksRightly
  <2>2. CASE u # t
    <3>1. want'[u] = want[u] /\ Using(u)' = Using(u) /\ AsksRightly(u)
      BY <2>2, <1>1 DEF ScratchInv
    <3>2. FitsBlock(Using(u), want[u])' <=> FitsBlock(Using(u), want[u])
      BY <3>1 DEF FitsBlock, Need, Offset, UpTo
    <3>3. Modest(want[u])' <=> Modest(want[u])
      BY <3>1 DEF Modest
    <3>4. AsksRightly(u)'
      BY <3>1, <3>2, <3>3 DEF AsksRightly
    <3>5. want[u].step \in {"look", "stuck"} => Using(u) # 0
      BY DEF ScratchInv, GivenInTurn
    <3>. QED
      BY <3>1, <3>4, <3>5
  <2>. QED
    BY <2>1, <2>2
<1>. QED
  BY <1>2

(* The next arena, at once or after the system was asked.                            *)
LEMMA ArenaAskStep ==
    ASSUME BlocksDouble, ScratchInv, NEW t \in Workers, ArenaAsk(t)
    PROVE  ScratchInv'
<1>1. Prepared + Cardinality(Workers) \in Nat
  BY ArenaCount
<1>2. Cardinality(Arenas) = Prepared + Cardinality(Workers)
  <2>1. PICK k \in Nat : k = Prepared + Cardinality(Workers)
    BY <1>1
  <2>2. Cardinality(1 .. k) = IF 1 > k THEN 0 ELSE k - 1 + 1
    BY FS_Interval
  <2>. QED
    BY <2>1, <2>2 DEF Arenas
<1>3. /\ nextArena \in Nat /\ arenaOf \in [Workers -> Nat]
      /\ want \in [Workers -> Requests]
  BY <1>1 DEF ScratchInv, ScratchShapes
<1>4. /\ arenaOf[t] = 0 /\ want[t].step = "out" /\ nextArena' = nextArena + 1
      /\ nextArena + 1 \in 0 .. Prepared + Cardinality(Workers)
      /\ UNCHANGED <<chain, current, scopes, lent, sharing, astray>>
  BY <1>1, <1>2, <1>3 DEF ArenaAsk
<1>5. /\ \A u \in Workers : arenaOf[u] <= nextArena /\ arenaOf[u] \in Nat
      /\ \A u \in Workers : want[u].step = "arena" => arenaOf[u] = 0 /\ want[u].n \in 1 .. nextArena
      /\ \A u, v \in Workers : u # v =>
            /\ arenaOf[u] # 0 => arenaOf[u] # arenaOf[v]
            /\ want[u].step = "arena" => want[u].n # arenaOf[v]
            /\ want[u].step = "arena" /\ want[v].step = "arena" => want[u].n # want[v].n
      /\ sharing # {} => 1 \in astray
  BY <1>3 DEF ScratchInv, GivenInTurn
<1>6. CASE nextArena < Prepared
  <2>1. arenaOf' = [arenaOf EXCEPT ![t] = nextArena + 1] /\ want' = want
    BY <1>6 DEF ArenaAsk
  <2>2. /\ arenaOf' \in [Workers -> Nat] /\ arenaOf'[t] = nextArena + 1
        /\ \A u \in Workers : u # t => arenaOf'[u] = arenaOf[u]
    BY <2>1, <1>3
  <2>3. ScratchShapes'
    BY <2>1, <2>2, <1>4 DEF ScratchInv, ScratchShapes, Arenas, Sound
  <2>5. /\ \A u \in Workers : AsksRightly(u)'
        /\ \A u \in Workers : want'[u].step \in {"look", "stuck"} => Using(u)' # 0
    BY <2>1, <2>2, <1>4, AsksStay
  <2>4. GivenInTurn'
    <3>1. \A u \in Workers : arenaOf'[u] <= nextArena + 1
      BY <2>2, <1>3, <1>5
    <3>2. \A u \in Workers : want[u].step = "arena" =>
             arenaOf'[u] = 0 /\ want[u].n \in 1 .. nextArena + 1
      <4>1. \A u \in Workers : want[u].step = "arena" => u # t
        BY <1>4
      <4>. QED
        BY <4>1, <2>2, <1>3, <1>5
    <3>3. \A u, v \in Workers : u # v =>
             /\ arenaOf'[u] # 0 => arenaOf'[u] # arenaOf'[v]
             /\ want[u].step = "arena" => want[u].n # arenaOf'[v]
             /\ want[u].step = "arena" /\ want[v].step = "arena" => want[u].n # want[v].n
      <4>1. \A u \in Workers : nextArena + 1 # arenaOf[u]
        BY <1>3, <1>5
      <4>2. \A u \in Workers : want[u].step = "arena" => want[u].n # nextArena + 1
        BY <1>3, <1>5
      <4>. QED
        BY <4>1, <4>2, <2>2, <1>5
    <3>5. nextArena' = nextArena + 1 /\ want' = want
      BY <2>1, <1>4
    <3>. QED
      BY <3>1, <3>2, <3>3, <3>5, <2>5, <1>4, <1>5 DEF GivenInTurn
  <2>6. /\ OwnersOnly'
        /\ \A a \in Sound', u \in Workers :
              ArenaFits(chain'[a], current'[a], scopes'[a][u], lent'[a][u])
    BY <2>2, <1>4, ArenasStay
  <2>. QED
    BY <2>3, <2>4, <2>5, <2>6 DEF ScratchInv
<1>7. CASE ~ (nextArena < Prepared)
  <2>1. arenaOf' = arenaOf /\ want' = [want EXCEPT ![t].step = "arena", ![t].n = nextArena + 1]
    BY <1>7 DEF ArenaAsk
  <2>2. /\ want' \in [Workers -> Requests]
        /\ want'[t].step = "arena" /\ want'[t].n = nextArena + 1
        /\ \A u \in Workers : u # t => want'[u] = want[u]
    <3>1. PICK w \in Requests : /\ w = [want[t] EXCEPT !.step = "arena", !.n = nextArena + 1]
                                 /\ w.step = "arena" /\ w.n = nextArena + 1
      <4>1. PICK v \in Requests, n \in Nat : v = want[t] /\ n = nextArena + 1
        BY <1>3
      <4>2. /\ [v EXCEPT !.step = "arena", !.n = n] \in Requests
            /\ [v EXCEPT !.step = "arena", !.n = n].step = "arena"
            /\ [v EXCEPT !.step = "arena", !.n = n].n = n
        BY DEF Requests
      <4>. QED
        BY <4>1, <4>2
    <3>2. want' = [want EXCEPT ![t] = w]
      BY <3>1, <2>1, <1>3
    <3>. QED
      BY <3>1, <3>2, <1>3
  <2>3. ScratchShapes'
    BY <2>1, <2>2, <1>4 DEF ScratchInv, ScratchShapes, Arenas, Sound
  <2>5. /\ \A u \in Workers : AsksRightly(u)'
        /\ \A u \in Workers : want'[u].step \in {"look", "stuck"} => Using(u)' # 0
    BY <2>1, <2>2, <1>4, AsksStay
  <2>4. GivenInTurn'
    <3>1. \A u \in Workers : arenaOf[u] <= nextArena + 1
      BY <1>3, <1>5
    <3>2. \A u \in Workers : want'[u].step = "arena" =>
             arenaOf[u] = 0 /\ want'[u].n \in 1 .. nextArena + 1
      <4>1. SUFFICES ASSUME NEW u \in Workers, want'[u].step = "arena"
                     PROVE  arenaOf[u] = 0 /\ want'[u].n \in 1 .. nextArena + 1
        OBVIOUS
      <4>2. CASE u = t
        BY <4>2, <2>2, <1>3, <1>4
      <4>3. CASE u # t
        BY <4>1, <4>3, <2>2, <1>3, <1>5
      <4>. QED
        BY <4>2, <4>3
    <3>3. \A u, v \in Workers : u # v =>
             /\ arenaOf[u] # 0 => arenaOf[u] # arenaOf[v]
             /\ want'[u].step = "arena" => want'[u].n # arenaOf[v]
             /\ want'[u].step = "arena" /\ want'[v].step = "arena" => want'[u].n # want'[v].n
      <4>1. \A u \in Workers : nextArena + 1 # arenaOf[u]
        BY <1>3, <1>5
      <4>2. \A u \in Workers : want[u].step = "arena" => want[u].n # nextArena + 1
        BY <1>3, <1>5
      <4>. QED
        BY <4>1, <4>2, <2>2, <1>5
    <3>5. nextArena' = nextArena + 1 /\ arenaOf' = arenaOf
      BY <2>1, <1>4
    <3>. QED
      BY <3>1, <3>2, <3>3, <3>5, <2>5, <1>4, <1>5 DEF GivenInTurn
  <2>6. /\ OwnersOnly'
        /\ \A a \in Sound', u \in Workers :
              ArenaFits(chain'[a], current'[a], scopes'[a][u], lent'[a][u])
    BY <2>1, <1>4, ArenasStay
  <2>. QED
    BY <2>3, <2>4, <2>5, <2>6 DEF ScratchInv
<1>. QED
  BY <1>6, <1>7


LEMMA ArenaAnswerStep ==
    ASSUME BlocksDouble, ScratchInv, NEW t \in Workers, ArenaGranted(t) \/ ArenaRefused(t)
    PROVE  ScratchInv'
<1>1. /\ want[t].step = "arena" /\ want' = [want EXCEPT ![t] = Unasked]
      /\ UNCHANGED <<nextArena, chain, current, scopes, lent>>
  BY DEF ArenaGranted, ArenaRefused
<1>2. /\ want' \in [Workers -> Requests] /\ want'[t].step = "out"
      /\ \A u \in Workers : u # t => want'[u] = want[u]
  BY <1>1, UnaskedIs, OneWant
<1>3. arenaOf \in [Workers -> Nat] /\ want[t].n \in Nat
  BY DEF ScratchInv, ScratchShapes, Requests
<1>4. /\ arenaOf' \in [Workers -> Nat] /\ (arenaOf'[t] = want[t].n \/ arenaOf'[t] = 0)
      /\ arenaOf[t] = 0
      /\ \A u \in Workers : u # t => arenaOf'[u] = arenaOf[u]
      /\ \A u \in Workers : u # t => (u \in sharing' <=> u \in sharing)
      /\ astray \subseteq astray'
      /\ sharing' # {} => sharing # {} \/ 1 \in astray'
  <2>1. arenaOf[t] = 0
    BY <1>1 DEF ScratchInv, GivenInTurn
  <2>2. CASE ArenaGranted(t)
    BY <2>1, <2>2, <1>3 DEF ArenaGranted
  <2>3. CASE ArenaRefused(t)
    BY <2>1, <2>3, <1>3 DEF ArenaRefused
  <2>. QED
    BY <2>2, <2>3
<1>5. /\ \A u \in Workers : arenaOf[u] <= nextArena
      /\ \A u \in Workers : want[u].step = "arena" => arenaOf[u] = 0 /\ want[u].n \in 1 .. nextArena
      /\ \A u, v \in Workers : u # v =>
            /\ arenaOf[u] # 0 => arenaOf[u] # arenaOf[v]
            /\ want[u].step = "arena" => want[u].n # arenaOf[v]
            /\ want[u].step = "arena" /\ want[v].step = "arena" => want[u].n # want[v].n
      /\ sharing # {} => 1 \in astray
  BY DEF ScratchInv, GivenInTurn
<1>6. ScratchShapes'
  BY <1>1, <1>2, <1>4 DEF ScratchInv, ScratchShapes, Arenas, Sound
<1>8. /\ \A u \in Workers : AsksRightly(u)'
      /\ \A u \in Workers : want'[u].step \in {"look", "stuck"} => Using(u)' # 0
  BY <1>1, <1>2, <1>4, AsksStay
<1>7. GivenInTurn'
  <2>1. \A u \in Workers : arenaOf'[u] <= nextArena
    <3>1. 0 <= nextArena /\ want[t].n <= nextArena
      BY <1>1, <1>5
    <3>. QED
      BY <3>1, <1>4, <1>5
  <2>2. \A u \in Workers : want'[u].step = "arena" =>
           arenaOf'[u] = 0 /\ want'[u].n \in 1 .. nextArena
    <3>1. \A u \in Workers : want'[u].step = "arena" => u # t
      BY <1>2
    <3>. QED
      BY <3>1, <1>2, <1>4, <1>5
  <2>3. ASSUME NEW u \in Workers, NEW v \in Workers, u # v
        PROVE  /\ arenaOf'[u] # 0 => arenaOf'[u] # arenaOf'[v]
               /\ want'[u].step = "arena" => want'[u].n # arenaOf'[v]
               /\ want'[u].step = "arena" /\ want'[v].step = "arena" => want'[u].n # want'[v].n
    <3>1. CASE u = t
      <4>1. arenaOf'[v] = arenaOf[v] /\ want'[v] = want[v]
        BY <3>1, <2>3, <1>2, <1>4
      <4>2. want[t].n # arenaOf[v]
        BY <3>1, <2>3, <1>1, <1>5
      <4>. QED
        BY <3>1, <4>1, <4>2, <1>2, <1>4
    <3>2. CASE v = t
      <4>1. arenaOf'[u] = arenaOf[u] /\ want'[u] = want[u]
        BY <3>2, <2>3, <1>2, <1>4
      <4>2. want[t].n # arenaOf[u]
        BY <3>2, <2>3, <1>1, <1>5
      <4>3. want[u].step = "arena" => want[u].n # want[t].n /\ want[u].n # 0
        BY <3>2, <2>3, <1>1, <1>5
      <4>. QED
        BY <3>2, <4>1, <4>2, <4>3, <1>2, <1>4
    <3>3. CASE u # t /\ v # t
      BY <3>3, <2>3, <1>2, <1>4, <1>5
    <3>. QED
      BY <3>1, <3>2, <3>3
  <2>5. sharing' # {} => 1 \in astray'
    BY <1>4, <1>5
  <2>. QED
    BY <2>1, <2>2, <2>3, <2>5, <1>1, <1>8 DEF GivenInTurn
<1>9. /\ OwnersOnly'
      /\ \A a \in Sound', u \in Workers :
            ArenaFits(chain'[a], current'[a], scopes'[a][u], lent'[a][u])
  BY <1>1, <1>4, ArenasStay
<1>. QED
  BY <1>6, <1>7, <1>8, <1>9 DEF ScratchInv

(* Whatever a step does in one arena, the others are as they were.                    *)
OnlyArena(a) ==
    /\ DOMAIN chain' = Arenas /\ DOMAIN current' = Arenas
    /\ DOMAIN scopes' = Arenas /\ DOMAIN lent' = Arenas
    /\ \A b \in Arenas : b # a => /\ chain'[b] = chain[b] /\ current'[b] = current[b]
                                  /\ scopes'[b] = scopes[b] /\ lent'[b] = lent[b]

(* One arena of all is changed, the thread's own, to what is a chain with its marks   *)
(* and loans.                                                                       *)
LEMMA ArenaSet ==
    ASSUME BlocksDouble, ScratchInv, NEW t \in Workers, NEW a \in Sound, arenaOf[t] = a,
           want[t].step # "arena",
           NEW c \in Blocks, NEW cur \in Nat, NEW sc \in Marks, NEW le \in Loans,
           OnlyArena(a), chain'[a] = c, current'[a] = cur,
           scopes'[a] = [scopes[a] EXCEPT ![t] = sc], lent'[a] = [lent[a] EXCEPT ![t] = le],
           ArenaFits(c, cur, sc, le), astray' = astray,
           nextArena' = nextArena, arenaOf' = arenaOf, sharing' = sharing,
           want' \in [Workers -> Requests],
           \A u \in Workers : u # t => want'[u] = want[u],
           want'[t].step # "arena", AsksRightly(t)'
    PROVE  ScratchInv'
<1>1. /\ DOMAIN chain = Arenas /\ DOMAIN current = Arenas
      /\ DOMAIN scopes = Arenas /\ DOMAIN lent = Arenas /\ a \in Arenas
      /\ scopes[a] \in [Workers -> Marks] /\ lent[a] \in [Workers -> Loans]
  BY DEF ScratchInv, ScratchShapes, Sound
<1>2. /\ DOMAIN chain' = Arenas /\ DOMAIN current' = Arenas
      /\ DOMAIN scopes' = Arenas /\ DOMAIN lent' = Arenas
  BY DEF OnlyArena
<1>3. /\ chain'[a] = c /\ current'[a] = cur
      /\ scopes'[a] = [scopes[a] EXCEPT ![t] = sc] /\ lent'[a] = [lent[a] EXCEPT ![t] = le]
      /\ \A b \in Arenas : b # a =>
            /\ chain'[b] = chain[b] /\ current'[b] = current[b]
            /\ scopes'[b] = scopes[b] /\ lent'[b] = lent[b]
  BY DEF OnlyArena
<1>4. /\ scopes'[a] \in [Workers -> Marks] /\ lent'[a] \in [Workers -> Loans]
      /\ scopes'[a][t] = sc /\ lent'[a][t] = le
      /\ \A u \in Workers : u # t => /\ scopes'[a][u] = scopes[a][u]
                                     /\ lent'[a][u] = lent[a][u]
  BY <1>1, <1>3
<1>5. ScratchShapes'
  <2>1. Sound' = Sound
    BY DEF Sound, Arenas
  <2>2. ASSUME NEW b \in Sound
        PROVE  /\ chain'[b] \in Blocks /\ current'[b] \in Nat
               /\ scopes'[b] \in [Workers -> Marks] /\ lent'[b] \in [Workers -> Loans]
    <3>1. CASE b = a
      BY <3>1, <1>3, <1>4
    <3>2. CASE b # a
      <4>1. b \in Arenas
        BY DEF Sound
      <4>. QED
        BY <4>1, <3>2, <1>3 DEF ScratchInv, ScratchShapes
    <3>. QED
      BY <3>1, <3>2
  <2>. QED
    BY <2>1, <2>2, <1>2 DEF ScratchInv, ScratchShapes, Arenas
<1>6. Using(t) # 0
  BY <1>1 DEF Using, Arenas
<1>7. ArenaMoved(t, a)
  BY <1>3, <1>4, <1>5, <1>6 DEF ArenaMoved
<1>. QED
  BY <1>1, <1>7, ArenaMove

(* Whatever is done in an arena that is sound no more, or is not from now on.          *)
LEMMA AstrayMoves ==
    ASSUME BlocksDouble, ScratchInv, NEW t \in Workers, NEW a \in Arenas,
           want[t].step # "arena",
           OnlyArena(a),
           astray' = astray \/ astray' = astray \cup {a}, a \in astray',
           nextArena' = nextArena, arenaOf' = arenaOf, sharing' = sharing,
           want' \in [Workers -> Requests],
           \A u \in Workers : u # t => want'[u] = want[u],
           want'[t].step # "arena", want'[t].step \in {"look", "stuck"} => Using(t) # 0,
           AsksRightly(t)'
    PROVE  ScratchInv'
<1>2. /\ DOMAIN chain' = Arenas /\ DOMAIN current' = Arenas
      /\ DOMAIN scopes' = Arenas /\ DOMAIN lent' = Arenas
      /\ \A b \in Arenas : b # a =>
            /\ chain'[b] = chain[b] /\ current'[b] = current[b]
            /\ scopes'[b] = scopes[b] /\ lent'[b] = lent[b]
  BY DEF OnlyArena
<1>3. \A b \in Sound' : b \in Arenas /\ b \in Sound /\ b # a
  BY DEF Sound, Arenas
<1>4. ScratchShapes'
  BY <1>2, <1>3 DEF ScratchInv, ScratchShapes, Arenas
<1>5. ArenaMoved(t, a)
  BY <1>2, <1>3, <1>4 DEF ArenaMoved
<1>. QED
  BY <1>5, ArenaMove

LEMMA ScopeOpenStep ==
    ASSUME BlocksDouble, ScratchInv, NEW t \in Workers, ScopeOpen(t)
    PROVE  ScratchInv'
<1>1. /\ Using(t) # 0 /\ want[t].step = "out"
      /\ nextArena' = nextArena /\ arenaOf' = arenaOf /\ sharing' = sharing
      /\ want' = want /\ chain' = chain /\ current' = current /\ lent' = lent
      /\ astray' = astray
  BY DEF ScopeOpen, callVars
<1>2. PICK a \in Arenas : a = Using(t) /\ (a \in Sound => arenaOf[t] = a)
  BY <1>1, UsingIs DEF Sound
<1>10. /\ want' \in [Workers -> Requests] /\ want'[t].step = "out" /\ AsksRightly(t)'
       /\ \A u \in Workers : want'[u] = want[u]
  BY <1>1 DEF ScratchInv, ScratchShapes, AsksRightly
<1>11. /\ DOMAIN chain = Arenas /\ DOMAIN current = Arenas
       /\ DOMAIN scopes = Arenas /\ DOMAIN lent = Arenas
  BY DEF ScratchInv, ScratchShapes
<1>30. OnlyArena(a)
  <2>0. /\ DOMAIN chain = Arenas /\ DOMAIN current = Arenas
        /\ DOMAIN scopes = Arenas /\ DOMAIN lent = Arenas
    BY DEF ScratchInv, ScratchShapes
  <2>1. DOMAIN chain' = Arenas /\ \A b \in Arenas : b # a => chain'[b] = chain[b]
    BY <2>0, <1>1, <1>2
  <2>2. DOMAIN current' = Arenas /\ \A b \in Arenas : b # a => current'[b] = current[b]
    BY <2>0, <1>1, <1>2
  <2>3. DOMAIN scopes' = Arenas /\ \A b \in Arenas : b # a => scopes'[b] = scopes[b]
    BY <2>0, <1>1, <1>2 DEF ScopeOpen
  <2>4. DOMAIN lent' = Arenas /\ \A b \in Arenas : b # a => lent'[b] = lent[b]
    BY <2>0, <1>1, <1>2
  <2>. QED
    BY <2>1, <2>2, <2>3, <2>4 DEF OnlyArena
<1>12. CASE a \notin Sound
  <2>1. a \in astray'
    BY <1>1, <1>12 DEF Sound
  <2>. QED
    BY <2>1, <1>30, <1>1, <1>10, AstrayMoves
<1>13. CASE a \in Sound
  <2>1. PICK c \in Blocks, cur \in Nat, sc \in Marks, le \in Loans :
           /\ c = chain[a] /\ cur = current[a] /\ sc = scopes[a][t] /\ le = lent[a][t]
           /\ ArenaFits(c, cur, sc, le)
    BY <1>13, OwnArena
  <2>2. PICK u \in Nat : u = IF cur = 0 THEN 0 ELSE c[cur].used
    <3>1. CASE cur # 0
      <4>1. cur \in 1 .. Len(c)
        BY <3>1, <2>1 DEF ArenaFits, BlocksFit, Blocks
      <4>. QED
        BY <4>1, <3>1, BlockAt
    <3>. QED
      BY <3>1
  <2>3. PICK m \in [block : Nat, used : Nat] :
           m = [block |-> cur, used |-> u] /\ m.block = cur /\ m.used = u
    <3>1. [block |-> cur, used |-> u] \in [block : Nat, used : Nat]
      OBVIOUS
    <3>2. [block |-> cur, used |-> u].block = cur /\ [block |-> cur, used |-> u].used = u
      OBVIOUS
    <3>. QED
      BY <3>1, <3>2
  <2>4. PICK sd : sd = Append(sc, m)
    OBVIOUS
  <2>5. sd \in Marks /\ ArenaFits(c, cur, sd, le)
    BY <2>1, <2>2, <2>3, <2>4, OpenFits
  <2>6. /\ chain'[a] = c /\ current'[a] = cur
        /\ lent'[a] = [lent[a] EXCEPT ![t] = le]
    <3>1. lent[a] \in [Workers -> Loans]
      BY <1>13 DEF ScratchInv, ScratchShapes
    <3>. QED
      BY <3>1, <1>1, <2>1
  <2>7. scopes'[a] = [scopes[a] EXCEPT ![t] = sd]
    <3>1. [block |-> current[a], used |-> IF current[a] = 0 THEN 0 ELSE chain[a][current[a]].used]
             = m
      BY <2>1, <2>2, <2>3
    <3>2. scopes' = [scopes EXCEPT ![a][t] = Append(@,
             [block |-> current[a],
              used |-> IF current[a] = 0 THEN 0 ELSE chain[a][current[a]].used])]
      BY <1>2 DEF ScopeOpen
    <3>3. scopes' = [scopes EXCEPT ![a][t] = Append(scopes[a][t], m)]
      BY <3>1, <3>2
    <3>. QED
      BY <3>3, <2>1, <2>4, <1>11
  <2>. QED
    BY <2>1, <2>5, <2>6, <2>7, <1>1, <1>2, <1>10, <1>13, <1>30, ArenaSet
<1>. QED
  BY <1>12, <1>13

LEMMA ScopeCloseStep ==
    ASSUME BlocksDouble, ScratchInv, NEW t \in Workers, NEW a \in Arenas, ScopeClose(t, a)
    PROVE  ScratchInv'
<1>1. /\ want[t].step = "out" /\ scopes[a][t] # <<>>
      /\ nextArena' = nextArena /\ arenaOf' = arenaOf /\ sharing' = sharing
      /\ want' = want /\ astray' = astray
  BY DEF ScopeClose, callVars
<1>2. a \in Sound => arenaOf[t] = a
  BY <1>1 DEF ScratchInv, OwnersOnly
<1>11. /\ want' \in [Workers -> Requests] /\ want'[t].step = "out" /\ AsksRightly(t)'
       /\ \A u \in Workers : want'[u] = want[u]
  BY <1>1 DEF ScratchInv, ScratchShapes, AsksRightly
<1>14. /\ DOMAIN chain = Arenas /\ DOMAIN current = Arenas
       /\ DOMAIN scopes = Arenas /\ DOMAIN lent = Arenas
  BY DEF ScratchInv, ScratchShapes
<1>30. OnlyArena(a)
  <2>0. /\ DOMAIN chain = Arenas /\ DOMAIN current = Arenas
        /\ DOMAIN scopes = Arenas /\ DOMAIN lent = Arenas
    BY DEF ScratchInv, ScratchShapes
  <2>1. DOMAIN chain' = Arenas /\ \A b \in Arenas : b # a => chain'[b] = chain[b]
    BY <2>0, <1>1, <1>2 DEF ScopeClose
  <2>2. DOMAIN current' = Arenas /\ \A b \in Arenas : b # a => current'[b] = current[b]
    BY <2>0, <1>1, <1>2 DEF ScopeClose
  <2>3. DOMAIN scopes' = Arenas /\ \A b \in Arenas : b # a => scopes'[b] = scopes[b]
    BY <2>0, <1>1, <1>2 DEF ScopeClose
  <2>4. DOMAIN lent' = Arenas /\ \A b \in Arenas : b # a => lent'[b] = lent[b]
    BY <2>0, <1>1, <1>2 DEF ScopeClose
  <2>. QED
    BY <2>1, <2>2, <2>3, <2>4 DEF OnlyArena
<1>12. CASE a \notin Sound
  <2>1. a \in astray'
    BY <1>1, <1>12 DEF Sound
  <2>. QED
    BY <2>1, <1>30, <1>1, <1>11, AstrayMoves
<1>13. CASE a \in Sound
  <2>3. PICK c \in Blocks, cur \in Nat, sc \in Marks, le \in Loans :
           /\ c = chain[a] /\ cur = current[a] /\ sc = scopes[a][t] /\ le = lent[a][t]
           /\ ArenaFits(c, cur, sc, le) /\ sc # <<>>
    BY <1>1, <1>13, OwnArena
  <2>5. PICK m : m = sc[Len(sc)]
    OBVIOUS
  <2>6. PICK d : d = BlocksBack(c, m)
    OBVIOUS
  <2>7. PICK cur2 : cur2 = PlaceBack(c, m)
    OBVIOUS
  <2>8. PICK sc2, le2 : sc2 = MarksBack(sc) /\ le2 = LoansBack(sc, le)
    OBVIOUS
  <2>9. /\ d \in Blocks /\ cur2 \in Nat /\ sc2 \in Marks /\ le2 \in Loans
        /\ ArenaFits(d, cur2, sc2, le2)
    BY <2>3, <2>5, <2>6, <2>7, <2>8, CloseFits
  <2>10. m = scopes[a][t][Len(scopes[a][t])]
    BY <2>3, <2>5
  <2>11. ChainAt(a, m) = d
    BY <2>3, <2>6 DEF ChainAt, BlocksBack
  <2>12. chain'[a] = d
    BY <2>10, <2>11, <1>14 DEF ScopeClose
  <2>13. current'[a] = cur2
    BY <2>10, <2>3, <2>7, <1>14 DEF ScopeClose, PlaceBack
  <2>14. scopes'[a] = [scopes[a] EXCEPT ![t] = sc2]
    BY <2>3, <2>8, <1>14 DEF ScopeClose, MarksBack
  <2>15. lent'[a] = [lent[a] EXCEPT ![t] = le2]
    BY <2>3, <2>8, <1>14 DEF ScopeClose, LoansBack
  <2>. QED
    BY <2>9, <2>12, <2>13, <2>14, <2>15, <1>1, <1>2, <1>11, <1>13, <1>30, ArenaSet
<1>. QED
  BY <1>12, <1>13


LEMMA LookIs ==
    ASSUME BlocksDouble, ScratchInv, NEW t \in Workers, want[t].step = "look"
    PROVE  /\ Using(t) # 0 /\ want[t] \in Requests
           /\ want[t].n \in Nat /\ want[t].n # 0 /\ want[t].align \in Nat /\ want[t].align # 0
           /\ Using(t) \in Arenas
           /\ Using(t) \in Sound =>
                 /\ arenaOf[t] = Using(t)
                 /\ want[t].more /\ Modest(want[t]) => FitsBlock(Using(t), want[t])
<1>1. Using(t) # 0
  BY DEF ScratchInv, GivenInTurn
<1>2. want[t] \in Requests
  BY DEF ScratchInv, ScratchShapes
<1>3. want[t].n \in Nat /\ want[t].align \in Nat
  BY <1>2 DEF Requests
<1>. QED
  BY <1>1, <1>2, <1>3, UsingIs DEF ScratchInv, AsksRightly, Sound

Round(t, a) == GoesRound(chain[a][current[a]], want[t].n, want[t].align)

LEMMA ScratchServeStep ==
    ASSUME BlocksDouble, ScratchInv, NEW t \in Workers, ScratchServe(t)
    PROVE  ScratchInv'
<1>1. /\ want[t].step = "look"
      /\ nextArena' = nextArena /\ arenaOf' = arenaOf /\ sharing' = sharing
      /\ current' = current /\ scopes' = scopes
      /\ FitsBlock(Using(t), want[t]) /\ want' = [want EXCEPT ![t] = Unasked]
  BY DEF ScratchServe, callVars
<1>2. PICK a \in Arenas : a = Using(t) /\ (a \in Sound => arenaOf[t] = a)
  BY <1>1, LookIs
<1>20. /\ want' \in [Workers -> Requests] /\ want'[t].step = "out"
       /\ \A u \in Workers : u # t => want'[u] = want[u]
       /\ AsksRightly(t)'
  BY <1>1, UnaskedIs, OneWant, AsksNothing
<1>21. /\ DOMAIN chain = Arenas /\ DOMAIN current = Arenas
       /\ DOMAIN scopes = Arenas /\ DOMAIN lent = Arenas
  BY DEF ScratchInv, ScratchShapes
<1>30. OnlyArena(a)
  <2>0. /\ DOMAIN chain = Arenas /\ DOMAIN current = Arenas
        /\ DOMAIN scopes = Arenas /\ DOMAIN lent = Arenas
    BY DEF ScratchInv, ScratchShapes
  <2>1. DOMAIN chain' = Arenas /\ \A b \in Arenas : b # a => chain'[b] = chain[b]
    BY <2>0, <1>1, <1>2 DEF ScratchServe
  <2>2. DOMAIN current' = Arenas /\ \A b \in Arenas : b # a => current'[b] = current[b]
    BY <2>0, <1>1, <1>2
  <2>3. DOMAIN scopes' = Arenas /\ \A b \in Arenas : b # a => scopes'[b] = scopes[b]
    BY <2>0, <1>1, <1>2
  <2>4. DOMAIN lent' = Arenas /\ \A b \in Arenas : b # a => lent'[b] = lent[b]
    BY <2>0, <1>1, <1>2 DEF ScratchServe
  <2>. QED
    BY <2>1, <2>2, <2>3, <2>4 DEF OnlyArena
<1>22. astray' = IF Round(t, a) THEN astray \cup {a} ELSE astray
  BY <1>2 DEF ScratchServe, Round
<1>23. CASE a \notin Sound \/ Round(t, a)
  <2>1. a \in astray' /\ (astray' = astray \/ astray' = astray \cup {a})
    BY <1>22, <1>23 DEF Sound
  <2>. QED
    BY <2>1, <1>30, <1>1, <1>20, AstrayMoves
<1>24. CASE a \in Sound /\ ~ Round(t, a)
  <2>1. PICK c \in Blocks, cur \in Nat, sc \in Marks, le \in Loans :
           /\ c = chain[a] /\ cur = current[a] /\ sc = scopes[a][t] /\ le = lent[a][t]
           /\ ArenaFits(c, cur, sc, le) /\ cur # 0
    BY <1>1, <1>2, <1>24, OwnArena DEF FitsBlock
  <2>2. PICK n \in Nat, align \in Nat : /\ n = want[t].n /\ align = want[t].align
                                        /\ n # 0 /\ align # 0
    BY <1>1, LookIs
  <2>3. cur \in 1 .. Len(c)
    BY <2>1 DEF ArenaFits, BlocksFit, Blocks
  <2>4. PICK used \in Nat, size \in Nat :
           used = c[cur].used /\ size = c[cur].size /\ used <= size
    <3>1. c[cur].used \in Nat /\ c[cur].size \in Nat
      BY <2>3, BlockAt
    <3>2. c[cur].used <= c[cur].size
      BY <2>1, <2>3 DEF ArenaFits, BlocksFit
    <3>. QED
      BY <3>1, <3>2
  <2>5. PICK from \in Nat : from = Offset(used, align) /\ used <= from
    BY <2>2, OffsetIs
  <2>6. PICK to \in Nat : to = from + n /\ from < to /\ to < Width
    <3>1. Width \in Nat /\ from + n \in Nat /\ from < from + n
      BY <2>2, WidthIs
    <3>2. ~ (from + n >= Width)
      BY <1>24, <2>1, <2>2, <2>4, <2>5 DEF GoesRound, Round
    <3>. QED
      BY <3>1, <3>2
  <2>7. Need(c[cur], n, align) = to /\ to <= size
    <3>1. to % Width = to
      BY <2>6, WidthIs
    <3>2. Need(c[cur], n, align) = to
      BY <3>1, <2>4, <2>5, <2>6 DEF Need
    <3>3. Need(c[cur], n, align) <= size
      BY <1>1, <1>2, <2>1, <2>2, <2>4 DEF FitsBlock
    <3>. QED
      BY <3>2, <3>3
  <2>8. PICK x : x = Piece(cur, from, to, sc)
    OBVIOUS
  <2>9. PICK d : d = FilledTo(c, cur, to)
    OBVIOUS
  <2>10. d \in Blocks /\ le \cup {x} \in Loans /\ ArenaFits(d, cur, sc, le \cup {x})
    <3>1. c[cur].used <= from /\ to <= c[cur].size
      BY <2>4, <2>5, <2>7
    <3>. QED
      BY <3>1, <2>1, <2>6, <2>8, <2>9, ServeFits
  <2>11. PICK le2 \in Loans : le2 = le \cup {x}
    BY <2>10
  <2>12. chain'[a] = d
    <3>1. chain' = [chain EXCEPT ![a][cur].used = Need(c[cur], n, align)]
      BY <1>2, <2>1, <2>2 DEF ScratchServe
    <3>2. chain' = [chain EXCEPT ![a] = [chain[a] EXCEPT ![cur].used = to]]
      BY <3>1, <2>7
    <3>. QED
      BY <3>2, <2>1, <2>9, <1>21 DEF FilledTo
  <2>13. lent'[a] = [lent[a] EXCEPT ![t] = le2]
    <3>1. [block |-> current[a], from |-> Offset(chain[a][current[a]].used, want[t].align),
           to |-> Offset(chain[a][current[a]].used, want[t].align) + want[t].n,
           depth |-> Len(scopes[a][t])] = x
      BY <2>1, <2>2, <2>4, <2>5, <2>6, <2>8 DEF Piece
    <3>2. lent' = [lent EXCEPT ![a][t] = lent[a][t] \cup {x}]
      BY <3>1, <1>2 DEF ScratchServe
    <3>. QED
      BY <3>2, <2>1, <2>11, <1>21
  <2>14. /\ current'[a] = cur
         /\ scopes'[a] = [scopes[a] EXCEPT ![t] = sc]
    <3>1. scopes[a] \in [Workers -> Marks]
      BY <1>24 DEF ScratchInv, ScratchShapes
    <3>. QED
      BY <3>1, <1>1, <2>1
  <2>15. ArenaFits(d, cur, sc, le2) /\ d \in Blocks /\ astray' = astray
    BY <2>10, <2>11, <1>22, <1>24
  <2>. QED
    BY <2>1, <2>12, <2>13, <2>14, <2>15, <1>1, <1>2, <1>20, <1>24,
       <1>30, ArenaSet
<1>. QED
  BY <1>23, <1>24

LEMMA ScratchSkipStep ==
    ASSUME BlocksDouble, ScratchInv, NEW t \in Workers, ScratchSkip(t)
    PROVE  ScratchInv'
<1>1. /\ want[t].step = "look"
      /\ nextArena' = nextArena /\ arenaOf' = arenaOf /\ sharing' = sharing
      /\ want' = want /\ scopes' = scopes /\ lent' = lent /\ astray' = astray
      /\ ~ FitsBlock(Using(t), want[t])
  BY DEF ScratchSkip, callVars
<1>2. PICK a \in Arenas : /\ a = Using(t) /\ (a \in Sound => arenaOf[t] = a) /\ Using(t) # 0
                          /\ a \in Sound /\ Modest(want[t]) => ~ want[t].more
  BY <1>1, LookIs
<1>15. /\ want' \in [Workers -> Requests] /\ want'[t].step = "look"
       /\ \A u \in Workers : u # t => want'[u] = want[u]
  BY <1>1 DEF ScratchInv, ScratchShapes
<1>16. AsksRightly(t)'
  <2>1. AsksRightly(t) /\ Using(t)' = Using(t)
    BY <1>1, UsingAfter DEF ScratchInv
  <2>2. Using(t) \notin astray => a \in Sound
    BY <1>2 DEF Sound
  <2>3. Modest(want[t])' <=> Modest(want[t])
    BY <1>1 DEF Modest
  <2>. QED
    BY <2>1, <2>2, <2>3, <1>1, <1>2 DEF AsksRightly
<1>14. /\ DOMAIN chain = Arenas /\ DOMAIN current = Arenas
       /\ DOMAIN scopes = Arenas /\ DOMAIN lent = Arenas
  BY DEF ScratchInv, ScratchShapes
<1>30. OnlyArena(a)
  <2>0. /\ DOMAIN chain = Arenas /\ DOMAIN current = Arenas
        /\ DOMAIN scopes = Arenas /\ DOMAIN lent = Arenas
    BY DEF ScratchInv, ScratchShapes
  <2>1. DOMAIN chain' = Arenas /\ \A b \in Arenas : b # a => chain'[b] = chain[b]
    BY <2>0, <1>1, <1>2 DEF ScratchSkip
  <2>2. DOMAIN current' = Arenas /\ \A b \in Arenas : b # a => current'[b] = current[b]
    BY <2>0, <1>1, <1>2 DEF ScratchSkip
  <2>3. DOMAIN scopes' = Arenas /\ \A b \in Arenas : b # a => scopes'[b] = scopes[b]
    BY <2>0, <1>1, <1>2
  <2>4. DOMAIN lent' = Arenas /\ \A b \in Arenas : b # a => lent'[b] = lent[b]
    BY <2>0, <1>1, <1>2
  <2>. QED
    BY <2>1, <2>2, <2>3, <2>4 DEF OnlyArena
<1>3. CASE a \notin Sound
  <2>1. a \in astray'
    BY <1>1, <1>3 DEF Sound
  <2>. QED
    BY <2>1, <1>30, <1>1, <1>2, <1>15, <1>16, AstrayMoves
<1>17. CASE a \in Sound
  <2>4. PICK c \in Blocks, cur \in Nat, sc \in Marks, le \in Loans :
           /\ c = chain[a] /\ cur = current[a] /\ sc = scopes[a][t] /\ le = lent[a][t]
           /\ ArenaFits(c, cur, sc, le)
    BY <1>17, OwnArena
  <2>5. cur # 0 /\ cur < Len(c)
    BY <1>2, <2>4 DEF ScratchSkip
  <2>6. PICK k \in Nat : k = cur + 1 /\ k \in 1 .. Len(c)
    BY <2>5 DEF Blocks
  <2>7. PICK b \in [size : Nat, used : Nat] :
           b = [c[k] EXCEPT !.used = 0] /\ b.used = 0 /\ b.size = c[k].size
    <3>1. c[k] \in [size : Nat, used : Nat]
      BY <2>6, BlockAt
    <3>2. /\ [c[k] EXCEPT !.used = 0] \in [size : Nat, used : Nat]
          /\ [c[k] EXCEPT !.used = 0].used = 0 /\ [c[k] EXCEPT !.used = 0].size = c[k].size
      BY <3>1
    <3>. QED
      BY <3>2
  <2>8. PICK d : d = [c EXCEPT ![k] = b]
    OBVIOUS
  <2>9. /\ d \in Blocks /\ Len(d) = Len(c) /\ d[k] = b
        /\ \A j \in 1 .. Len(c) : j # k => d[j] = c[j]
    BY <2>6, <2>8 DEF Blocks
  <2>10. ArenaFits(d, k, sc, le)
    <3>1. \A j \in 1 .. cur : d[j] = c[j]
      <4>1. \A j \in 1 .. cur : j \in 1 .. Len(c) /\ j # k
        BY <2>5, <2>6 DEF Blocks
      <4>. QED
        BY <4>1, <2>9
    <3>2. \A j \in cur + 1 .. Len(d) :
             d[j].used <= d[j].size /\ 2 * (d[j].size + HeaderSize) < Width
      <4>1. SUFFICES ASSUME NEW j \in cur + 1 .. Len(d)
                     PROVE  d[j].used <= d[j].size /\ 2 * (d[j].size + HeaderSize) < Width
        OBVIOUS
      <4>2. j \in 1 .. Len(c)
        BY <2>9 DEF Blocks
      <4>3. c[j].used <= c[j].size /\ 2 * (c[j].size + HeaderSize) < Width
        BY <4>2, <2>4 DEF ArenaFits, BlocksFit
      <4>4. CASE j = k
        <5>1. d[j].used = 0 /\ d[j].size = c[j].size /\ c[j].size \in Nat
          BY <4>2, <4>4, <2>7, <2>9, BlockAt
        <5>. QED
          BY <5>1, <4>3
      <4>5. CASE j # k
        BY <4>2, <4>3, <4>5, <2>9
      <4>. QED
        BY <4>4, <4>5
    <3>3. Len(d) >= cur + 1
      BY <2>5, <2>6, <2>9
    <3>. QED
      BY <3>1, <3>2, <3>3, <2>4, <2>6, <2>9, NextFits
  <2>12. chain'[a] = d
    <3>1. chain' = [chain EXCEPT ![a][k].used = 0]
      BY <1>2, <2>4, <2>6 DEF ScratchSkip
    <3>2. chain' = [chain EXCEPT ![a] = [chain[a] EXCEPT ![k] = [chain[a][k] EXCEPT !.used = 0]]]
      BY <3>1
    <3>. QED
      BY <3>2, <2>4, <2>7, <2>8, <1>14
  <2>13. current'[a] = k
    BY <1>2, <2>4, <2>6, <1>14 DEF ScratchSkip
  <2>14. /\ scopes'[a] = [scopes[a] EXCEPT ![t] = sc]
         /\ lent'[a] = [lent[a] EXCEPT ![t] = le]
    <3>1. scopes[a] \in [Workers -> Marks] /\ lent[a] \in [Workers -> Loans]
      BY <1>17 DEF ScratchInv, ScratchShapes
    <3>. QED
      BY <3>1, <1>1, <2>4
  <2>. QED
    BY <2>4, <2>9, <2>10, <2>12, <2>13, <2>14, <1>1, <1>2, <1>15, <1>16, <1>17,
       <1>30, ArenaSet
<1>. QED
  BY <1>3, <1>17

(* What a new block begins with, and what it is grown to.                            *)
LEMMA AddedIs ==
    ASSUME BlocksDouble, ScratchInv, NEW t \in Workers, NoBlockAfter(t), Using(t) \in Sound
    PROVE  LET s == Grown(FirstSize(Using(t)), want[t].n, want[t].align) IN
           /\ s \in Nat /\ (s # 0 => HeaderSize < s)
           /\ Modest(want[t]) => s # 0 /\ want[t].n + want[t].align + HeaderSize <= s
<1>1. want[t].step = "look" /\ current[Using(t)] = Len(chain[Using(t)])
  BY DEF NoBlockAfter
<1>2. want[t].n \in Nat /\ want[t].align \in Nat
  BY <1>1, LookIs
<1>3. PICK a \in Sound : a = Using(t)
  OBVIOUS
<1>4. PICK c \in Blocks, cur \in Nat : /\ c = chain[a] /\ cur = current[a] /\ cur = Len(c)
                                       /\ ArenaFits(c, cur, scopes[a][t], lent[a][t])
  BY <1>1, <1>3, OwnArena
<1>5. /\ HeaderSize \in Nat /\ HeaderSize >= 1 /\ MaxBlock \in Nat /\ FirstBlock \in Nat
      /\ FirstBlock > HeaderSize /\ FirstBlock <= MaxBlock
  BY ScratchAssumption
<1>6. FirstSize(a) \in HeaderSize + 1 .. MaxBlock
  <2>1. CASE cur = 0
    BY <2>1, <1>4, <1>5 DEF FirstSize
  <2>2. CASE cur # 0
    <3>1. cur \in 1 .. Len(c)
      BY <2>2, <1>4
    <3>2. PICK size \in Nat : size = c[cur].size /\ 2 * (size + HeaderSize) < Width
      <4>1. c[cur].size \in Nat
        BY <3>1, BlockAt
      <4>2. 2 * (c[cur].size + HeaderSize) < Width
        BY <3>1, <1>4 DEF ArenaFits, BlocksFit
      <4>. QED
        BY <4>1, <4>2
    <3>3. PICK twice \in Nat : /\ twice = (size + HeaderSize) * 2
                               /\ twice > HeaderSize /\ twice < Width
      BY <3>2, <1>5
    <3>4. twice % Width = twice
      BY <3>3, WidthIs
    <3>5. FirstSize(a) = IF twice > MaxBlock THEN MaxBlock ELSE twice
      BY <2>2, <3>2, <3>3, <3>4, <1>4 DEF FirstSize
    <3>. QED
      BY <3>3, <3>5, <1>5
  <2>. QED
    BY <2>1, <2>2
<1>7. PICK n \in Nat, align \in Nat, f \in HeaderSize + 1 .. MaxBlock :
         n = want[t].n /\ align = want[t].align /\ f = FirstSize(Using(t))
  BY <1>2, <1>3, <1>6
<1>8. LET s == Grown(f, n, align) IN s \in Nat /\ (s # 0 => HeaderSize < s)
  BY <1>7, GrownAny
<1>9. ASSUME Modest(want[t])
      PROVE  LET s == Grown(f, n, align) IN s # 0 /\ n + align + HeaderSize <= s
  <2>1. 2 * (n + align + HeaderSize) <= Width /\ f \in 1 .. MaxBlock
    BY <1>5, <1>7, <1>9 DEF Modest
  <2>. QED
    BY <2>1, <1>7, GrownIs
<1>. QED
  BY <1>7, <1>8, <1>9

LEMMA ScratchStuckStep ==
    ASSUME BlocksDouble, ScratchInv, NEW t \in Workers, ScratchStuck(t)
    PROVE  ScratchInv'
<1>1. /\ want[t].step = "look" /\ NoBlockAfter(t)
      /\ Grown(FirstSize(Using(t)), want[t].n, want[t].align) = 0
      /\ want' = [want EXCEPT ![t].step = "stuck"]
      /\ UNCHANGED <<callVars, chain, current, scopes, lent, astray>>
  BY DEF ScratchStuck, NoBlockAfter
<1>2. Using(t) # 0 /\ want[t] \in Requests /\ Using(t) \in Arenas
  BY <1>1, LookIs
<1>3. PICK w \in Requests : /\ w = [want[t] EXCEPT !.step = "stuck"] /\ w.step = "stuck"
                            /\ w.n = want[t].n /\ w.align = want[t].align
  <2>1. PICK v \in Requests : v = want[t]
    BY <1>2
  <2>2. /\ [v EXCEPT !.step = "stuck"] \in Requests
        /\ [v EXCEPT !.step = "stuck"].step = "stuck"
        /\ [v EXCEPT !.step = "stuck"].n = v.n
        /\ [v EXCEPT !.step = "stuck"].align = v.align
    BY DEF Requests
  <2>. QED
    BY <2>1, <2>2
<1>4. want' = [want EXCEPT ![t] = w] /\ want'[t] = w
  <2>1. want' = [want EXCEPT ![t] = w]
    BY <1>1, <1>3
  <2>. QED
    BY <2>1, OneWant
<1>5. Using(t)' = Using(t) /\ astray' = astray
  BY <1>1, UsingAfter DEF callVars
<1>6. AsksRightly(t)'
  <2>1. Using(t) \notin astray => ~ Modest(want[t])
    BY <1>1, <1>2, AddedIs DEF Sound
  <2>2. Modest(w) <=> Modest(want[t])
    BY <1>3 DEF Modest
  <2>. QED
    BY <2>1, <2>2, <1>3, <1>4, <1>5 DEF AsksRightly
<1>. QED
  BY <1>1, <1>2, <1>3, <1>4, <1>6, WantOnly

LEMMA ScratchAddStep ==
    ASSUME BlocksDouble, ScratchInv, NEW t \in Workers, ScratchAdd(t)
    PROVE  ScratchInv'
<1>1. /\ want[t].step = "look"
      /\ nextArena' = nextArena /\ arenaOf' = arenaOf /\ sharing' = sharing
      /\ scopes' = scopes /\ lent' = lent /\ astray' = astray
      /\ NoBlockAfter(t) /\ current[Using(t)] = Len(chain[Using(t)])
  BY DEF ScratchAdd, NoBlockAfter, callVars
<1>2. PICK a \in Arenas : a = Using(t) /\ (a \in Sound => arenaOf[t] = a) /\ Using(t) # 0
  BY <1>1, LookIs
<1>3. /\ DOMAIN scopes = Arenas /\ DOMAIN lent = Arenas /\ DOMAIN chain = Arenas
      /\ DOMAIN current = Arenas /\ want \in [Workers -> Requests]
  BY DEF ScratchInv, ScratchShapes
<1>19. PICK w \in Requests : /\ w = [want[t] EXCEPT !.more = TRUE] /\ w.step = "look"
                             /\ w.n = want[t].n /\ w.align = want[t].align
  <2>1. PICK v \in Requests : v = want[t]
    BY <1>3
  <2>2. /\ [v EXCEPT !.more = TRUE] \in Requests
        /\ [v EXCEPT !.more = TRUE].step = v.step
        /\ [v EXCEPT !.more = TRUE].n = v.n
        /\ [v EXCEPT !.more = TRUE].align = v.align
    BY DEF Requests
  <2>. QED
    BY <2>1, <2>2, <1>1
<1>20. want' = [want EXCEPT ![t] = w]
  BY <1>19 DEF ScratchAdd
<1>21. /\ want' \in [Workers -> Requests] /\ want'[t] = w
       /\ \A u \in Workers : u # t => want'[u] = want[u]
  BY <1>20, OneWant
<1>22. w.n \in Nat /\ w.n # 0 /\ w.align \in Nat /\ w.align # 0
  BY <1>1, <1>19, LookIs
<1>30. OnlyArena(a)
  <2>0. /\ DOMAIN chain = Arenas /\ DOMAIN current = Arenas
        /\ DOMAIN scopes = Arenas /\ DOMAIN lent = Arenas
    BY DEF ScratchInv, ScratchShapes
  <2>1. DOMAIN chain' = Arenas /\ \A b \in Arenas : b # a => chain'[b] = chain[b]
    BY <2>0, <1>1, <1>2 DEF ScratchAdd
  <2>2. DOMAIN current' = Arenas /\ \A b \in Arenas : b # a => current'[b] = current[b]
    BY <2>0, <1>1, <1>2 DEF ScratchAdd
  <2>3. DOMAIN scopes' = Arenas /\ \A b \in Arenas : b # a => scopes'[b] = scopes[b]
    BY <2>0, <1>1, <1>2
  <2>4. DOMAIN lent' = Arenas /\ \A b \in Arenas : b # a => lent'[b] = lent[b]
    BY <2>0, <1>1, <1>2
  <2>. QED
    BY <2>1, <2>2, <2>3, <2>4 DEF OnlyArena
<1>23. CASE a \notin Sound
  <2>1. a \in astray' /\ Using(t)' \in astray'
    BY <1>1, <1>2, <1>23, UsingAfter DEF Sound
  <2>9. AsksRightly(t)'
    BY <2>1, <1>19, <1>21, <1>22 DEF AsksRightly
  <2>. QED
    BY <2>1, <1>30, <2>9, <1>1, <1>2, <1>19, <1>21, AstrayMoves
<1>24. CASE a \in Sound
  <2>4. PICK c \in Blocks, cur \in Nat, sc \in Marks, le \in Loans :
           /\ c = chain[a] /\ cur = current[a] /\ sc = scopes[a][t] /\ le = lent[a][t]
           /\ ArenaFits(c, cur, sc, le) /\ cur = Len(c)
    BY <1>1, <1>2, <1>24, OwnArena
  <2>6. PICK n \in Nat, align \in Nat : n = w.n /\ align = w.align /\ n # 0 /\ align # 0
    BY <1>22
  <2>7. PICK s \in Nat : /\ s = Grown(FirstSize(Using(t)), want[t].n, want[t].align)
                         /\ HeaderSize < s /\ 2 * s < Width
                         /\ Modest(want[t]) => n + align + HeaderSize <= s
    <3>1. Grown(FirstSize(Using(t)), want[t].n, want[t].align) # 0
          /\ 2 * Grown(FirstSize(Using(t)), want[t].n, want[t].align) < Width
      BY DEF ScratchAdd
    <3>. QED
      BY <3>1, <1>1, <1>2, <1>19, <1>24, <2>6, AddedIs
  <2>8. HeaderSize \in Nat /\ Width \in Nat
    BY ScratchAssumption, WidthIs
  <2>9. PICK room \in Nat : /\ room = s - HeaderSize /\ 2 * (room + HeaderSize) < Width
                            /\ Modest(want[t]) => n + align <= room
    <3>1. s - HeaderSize \in Nat /\ 2 * ((s - HeaderSize) + HeaderSize) < Width
          /\ (Modest(want[t]) => n + align <= s - HeaderSize)
      BY <2>7, <2>8
    <3>. QED
      BY <3>1
  <2>10. PICK b \in [size : Nat, used : Nat] :
            b = [size |-> room, used |-> 0] /\ b.size = room /\ b.used = 0
    <3>1. /\ [size |-> room, used |-> 0] \in [size : Nat, used : Nat]
          /\ [size |-> room, used |-> 0].size = room /\ [size |-> room, used |-> 0].used = 0
      OBVIOUS
    <3>. QED
      BY <3>1
  <2>11. PICK d : d = Append(c, b)
    OBVIOUS
  <2>12. /\ d \in Blocks /\ Len(d) = cur + 1 /\ d[cur + 1] = b
         /\ \A j \in 1 .. cur : d[j] = c[j]
    BY <2>4, <2>11 DEF Blocks
  <2>13. PICK k \in Nat : k = cur + 1
    OBVIOUS
  <2>14. ArenaFits(d, k, sc, le)
    <3>1. \A j \in cur + 1 .. Len(d) :
             d[j].used <= d[j].size /\ 2 * (d[j].size + HeaderSize) < Width
      <4>1. b.used <= b.size /\ 2 * (b.size + HeaderSize) < Width
        BY <2>9, <2>10
      <4>2. \A j \in cur + 1 .. Len(d) : d[j] = b
        BY <2>12
      <4>. QED
        BY <4>1, <4>2
    <3>2. Len(d) >= cur + 1
      BY <2>12
    <3>. QED
      BY <3>1, <3>2, <2>4, <2>12, <2>13, NextFits
  <2>16. chain'[a] = d
    <3>1. chain' = [chain EXCEPT ![a] = Append(chain[a], [size |-> s - HeaderSize, used |-> 0])]
      BY <1>2, <1>3, <2>7 DEF ScratchAdd
    <3>2. [size |-> s - HeaderSize, used |-> 0] = b
      BY <2>9, <2>10
    <3>. QED
      BY <3>1, <3>2, <2>4, <2>11, <1>3
  <2>17. current'[a] = k
    BY <1>2, <1>3, <2>4, <2>13 DEF ScratchAdd
  <2>18. /\ scopes'[a] = [scopes[a] EXCEPT ![t] = sc]
         /\ lent'[a] = [lent[a] EXCEPT ![t] = le]
    <3>1. scopes[a] \in [Workers -> Marks] /\ lent[a] \in [Workers -> Loans]
      BY <1>24 DEF ScratchInv, ScratchShapes
    <3>. QED
      BY <3>1, <1>1, <1>3, <2>4
  <2>22. AsksRightly(t)'
    <3>1. /\ chain'[a] = d /\ current'[a] = k /\ Using(t)' = a
      BY <1>1, <1>2, <1>3, <2>16, <2>17, UsingAfter
    <3>2. PICK from \in Nat : from = Offset(0, align) /\ from < align
      <4>1. PICK none \in Nat : none = 0
        OBVIOUS
      <4>2. Offset(none, align) \in Nat /\ Offset(none, align) < none + align
        BY <2>6, OffsetIs
      <4>. QED
        BY <4>1, <4>2
    <3>3. ASSUME Modest(want[t]) PROVE FitsBlock(Using(t), want[t])'
      <4>1. PICK to \in Nat : to = from + n /\ to <= room /\ to < Width
        <5>1. from + n \in Nat /\ from + n <= room /\ from + n < Width
          BY <3>2, <3>3, <2>6, <2>8, <2>9
        <5>. QED
          BY <5>1
      <4>2. to % Width = to
        BY <4>1, WidthIs
      <4>3. Need(b, n, align) = to /\ to <= b.size
        BY <3>2, <4>1, <4>2, <2>10 DEF Need
      <4>4. k # 0 /\ d[k] = b
        BY <2>12, <2>13
      <4>. QED
        BY <3>1, <4>3, <4>4, <2>6, <1>21 DEF FitsBlock, Need
    <3>4. Modest(w) <=> Modest(want[t])
      BY <1>19 DEF Modest
    <3>5. want'[t] = w /\ w.step = "look" /\ w.n # 0 /\ w.align # 0
      BY <1>19, <1>21, <1>22
    <3>6. Modest(want'[t]) => FitsBlock(Using(t), want[t])'
      BY <3>3, <3>4, <3>5
    <3>7. want'[t].step # "stuck" /\ want'[t].n # 0 /\ want'[t].align # 0
      BY <3>5
    <3>. HIDE DEF Modest
    <3>. QED
      BY <3>6, <3>7 DEF AsksRightly
  <2>. QED
    BY <2>4, <2>12, <2>14, <2>16, <2>17, <2>18, <2>22, <1>1, <1>2, <1>19,
       <1>21, <1>24, <1>30, ArenaSet
<1>. QED
  BY <1>23, <1>24

-----------------------------------------------------------------------------
(* Every arena that was not shared for want of memory, nor served a size that went    *)
(* round, is a chain whose blocks, marks and loans agree and are its owner's, from    *)
(* the start on, whatever the threads do (scratch_arena.cpp).                        *)
THEOREM ScratchInvariant == ASSUME BlocksDouble PROVE ScratchSpec => []ScratchInv
<1>1. ScratchInit => ScratchInv
  <2>1. SUFFICES ASSUME ScratchInit PROVE ScratchInv
    OBVIOUS
  <2>2. Prepared + Cardinality(Workers) \in Nat
    BY ArenaCount
  <2>3. \A a \in Arenas : /\ chain[a] = <<>> /\ current[a] = 0
                          /\ scopes[a] = [t \in Workers |-> <<>>]
                          /\ lent[a] = [t \in Workers |-> {}]
    BY <2>1 DEF ScratchInit
  <2>4. ScratchShapes
    <3>1. /\ DOMAIN chain = Arenas /\ DOMAIN current = Arenas
          /\ DOMAIN scopes = Arenas /\ DOMAIN lent = Arenas
      BY <2>1 DEF ScratchInit
    <3>2. want \in [Workers -> Requests] /\ arenaOf \in [Workers -> Nat]
      BY <2>1, UnaskedIs DEF ScratchInit
    <3>3. {} \in Loans
      BY DEF Loans
    <3>. QED
      BY <2>1, <2>2, <2>3, <3>1, <3>2, <3>3, InitFits DEF ScratchInit, ScratchShapes, Sound
  <2>5. \A t \in Workers : want[t].step = "out" /\ arenaOf[t] = 0
    BY <2>1, UnaskedIs DEF ScratchInit
  <2>6. GivenInTurn /\ \A t \in Workers : AsksRightly(t)
    BY <2>1, <2>5 DEF ScratchInit, GivenInTurn, AsksRightly
  <2>7. /\ OwnersOnly
        /\ \A a \in Sound, t \in Workers :
              ArenaFits(chain[a], current[a], scopes[a][t], lent[a][t])
    BY <2>3, InitFits DEF Sound, OwnersOnly
  <2>. QED
    BY <2>4, <2>6, <2>7 DEF ScratchInv
<1>2. ScratchInv /\ [ScratchNext]_scratchVars => ScratchInv'
  <2>1. SUFFICES ASSUME ScratchInv, [ScratchNext]_scratchVars PROVE ScratchInv'
    OBVIOUS
  <2>2. CASE UNCHANGED scratchVars
    <3>1. /\ nextArena' = nextArena /\ arenaOf' = arenaOf /\ chain' = chain
          /\ current' = current /\ want' = want /\ scopes' = scopes /\ lent' = lent
          /\ sharing' = sharing /\ astray' = astray
      BY <2>2 DEF scratchVars, callVars
    <3>2. ScratchShapes' /\ GivenInTurn' /\ OwnersOnly'
      BY <2>1, <3>1 DEF ScratchInv, ScratchShapes, GivenInTurn, OwnersOnly, Arenas, Sound, Using
    <3>3. \A t \in Workers : AsksRightly(t)'
      BY <2>1, <3>1 DEF ScratchInv, AsksRightly, FitsBlock, Need, Offset, UpTo, Using, Modest
    <3>. QED
      BY <2>1, <3>1, <3>2, <3>3 DEF ScratchInv, Arenas, Sound
  <2>4. ASSUME NEW t \in Workers, NEW ask \in ScratchAsks, ScratchAsk(t, ask[1], ask[2])
        PROVE  ScratchInv'
    BY <2>1, <2>4, ScratchAskStep
  <2>. QED
    BY <2>1, <2>2, <2>4, ArenaAskStep, ArenaAnswerStep, ScratchServeStep, ScratchSkipStep,
       ScratchAddStep, ScratchRefusedStep, ScratchStuckStep, ScopeOpenStep, ScopeCloseStep
       DEF ScratchNext
<1>. QED
  BY <1>1, <1>2, PTL DEF ScratchSpec

(* What a phase borrowed is its own until its mark is gone back to, in an arena of  *)
(* its thread, out of a block made long enough (scratch_arena.h): in every arena but *)
(* the first, if a thread was refused one of its own and works there, and but those   *)
(* that served a size that went round.  No two threads work in any other.            *)
THEOREM ScratchIsOwned == ASSUME BlocksDouble PROVE ScratchSpec => []ScratchIsOwn
<1>1. ScratchInv => ScratchIsOwn
  <2>1. SUFFICES ASSUME ScratchInv PROVE ScratchIsOwn
    OBVIOUS
  <2>2. LentApart
    <3>1. SUFFICES ASSUME NEW a \in Sound
                   PROVE  /\ \A x \in LentOf(a) :
                                /\ x.from < x.to /\ x.to <= chain[a][x.block].used
                                /\ chain[a][x.block].used <= chain[a][x.block].size
                          /\ \A x, y \in LentOf(a) : x.block = y.block /\ x # y
                                                     => x.to <= y.from \/ y.to <= x.from
      BY DEF LentApart, Sound
    <3>2. \A x \in LentOf(a) : \E t \in Workers : arenaOf[t] = a /\ x \in lent[a][t]
      BY <2>1 DEF LentOf, ScratchInv, OwnersOnly
    <3>3. a # 0
      BY DEF Sound, Arenas
    <3>4. \A t, u \in Workers : arenaOf[t] = a /\ arenaOf[u] = a => t = u
      BY <2>1, <3>3 DEF ScratchInv, GivenInTurn
    <3>5. CASE LentOf(a) = {}
      BY <3>5
    <3>6. CASE LentOf(a) # {}
      <4>1. PICK t \in Workers : arenaOf[t] = a
        BY <3>2, <3>6
      <4>2. \A x \in LentOf(a) : x \in lent[a][t]
        BY <3>2, <3>4, <4>1
      <4>3. /\ LoansStand(chain[a], current[a], scopes[a][t], lent[a][t])
            /\ BlocksFit(chain[a], current[a])
        BY <2>1 DEF ScratchInv, ArenaFits
      <4>4. chain[a] \in Blocks /\ current[a] \in Nat
        BY <2>1 DEF ScratchInv, ScratchShapes, Blocks
      <4>5. ASSUME NEW x \in lent[a][t]
            PROVE  /\ x.from < x.to /\ x.to <= chain[a][x.block].used
                   /\ chain[a][x.block].used <= chain[a][x.block].size
        <5>1. /\ x.block \in 1 .. current[a] /\ x.from < x.to
              /\ x.to <= chain[a][x.block].used
          BY <4>3 DEF LoansStand
        <5>2. x.block \in 1 .. Len(chain[a])
          BY <4>3, <4>4, <5>1 DEF BlocksFit, Blocks
        <5>. QED
          BY <4>3, <5>1, <5>2 DEF BlocksFit
      <4>6. \A x, y \in lent[a][t] : x.block = y.block /\ x # y => x.to <= y.from \/ y.to <= x.from
        BY <4>3 DEF LoansStand
      <4>. QED
        BY <4>2, <4>5, <4>6
    <3>. QED
      BY <3>5, <3>6
  <2>3. OneBlockIsEnough
    <3>1. SUFFICES ASSUME NEW t \in Workers,
                          want[t].n + want[t].align + HeaderSize <= Width \div 2,
                          Using(t) \notin astray
                   PROVE  /\ want[t].step = "look" /\ want[t].more => FitsBlock(Using(t), want[t])
                          /\ want[t].step # "stuck"
      BY DEF OneBlockIsEnough
    <3>2. want[t].n \in Nat /\ want[t].align \in Nat /\ HeaderSize \in Nat /\ Width \in Nat
      BY <2>1, ScratchAssumption, WidthIs DEF ScratchInv, ScratchShapes, Requests
    <3>3. Modest(want[t])
      <4>1. PICK all \in Nat : all = want[t].n + want[t].align + HeaderSize
        BY <3>2
      <4>2. PICK w \in Nat : w = Width /\ all <= w \div 2
        BY <3>1, <3>2, <4>1
      <4>3. 2 * all <= w
        BY <4>2
      <4>. QED
        BY <4>1, <4>2, <4>3 DEF Modest
    <3>. QED
      BY <2>1, <3>1, <3>3 DEF ScratchInv, AsksRightly
  <2>4. ArenaIsOwn
    <3>1. ASSUME NEW t \in Workers, NEW u \in Workers, t # u, Using(t) # 0, Using(t) = Using(u)
          PROVE  Using(t) = 1 /\ (t \in sharing \/ u \in sharing)
      <4>1. arenaOf[t] # 0 => arenaOf[t] # arenaOf[u]
        BY <2>1, <3>1 DEF ScratchInv, GivenInTurn
      <4>. QED
        BY <3>1, <4>1 DEF Using
    <3>2. ASSUME NEW a \in Sound, NEW t \in Workers, Using(t) # a
          PROVE  scopes[a][t] = <<>> /\ lent[a][t] = {}
      <4>1. a # 0
        BY DEF Sound, Arenas
      <4>2. arenaOf[t] # a
        BY <3>2, <4>1 DEF Using
      <4>. QED
        BY <4>2, <2>1 DEF ScratchInv, OwnersOnly
    <3>. QED
      BY <3>1, <3>2 DEF ArenaIsOwn, Sound
  <2>. QED
    BY <2>2, <2>3, <2>4 DEF ScratchIsOwn
<1>. QED
  BY <1>1, ScratchInvariant, PTL

-----------------------------------------------------------------------------
(* Among the subsets of a finite set that are not as they should be there is   *)
(* one that is once any element leaves it.                                     *)
LEMMA LeastSet ==
    ASSUME NEW D, IsFiniteSet(D), NEW bad, bad \subseteq SUBSET D, bad # {}
    PROVE  \E u \in bad : \A x \in u : u \ {x} \notin bad
<1>1. \A u \in SUBSET D : IsFiniteSet(u) /\ Cardinality(u) \in Nat
  BY FS_Subset, FS_CardinalityType
<1>2. PICK K : K = {Cardinality(u) : u \in bad}
  OBVIOUS
<1>3. K \subseteq Nat /\ K # {}
  BY <1>1, <1>2
<1>4. PICK k \in K : \A n \in K : k <= n
  BY <1>3, LeastOf
<1>5. PICK u \in bad : Cardinality(u) = k
  BY <1>2, <1>4
<1>6. ASSUME NEW x \in u, u \ {x} \in bad PROVE FALSE
  <2>1. Cardinality(u \ {x}) = k - 1
    BY <1>1, <1>5, FS_RemoveElement
  <2>2. Cardinality(u \ {x}) \in K
    BY <1>2, <1>6
  <2>. QED
    BY <2>1, <2>2, <1>3, <1>4
<1>. QED
  BY <1>5, <1>6

(* What a fold says of every subset: b of none, and of another what F makes of *)
(* the element chosen and of the rest.                                         *)
Folding(g, D, b, F, c) ==
    \A u \in SUBSET D : g[u] = IF u = {} THEN b ELSE F[<<c[u], g[u \ {c[u]}]>>]

(* There is a function that says it, for every way to choose.                  *)
LEMMA FoldThere ==
    ASSUME NEW D, IsFiniteSet(D), NEW S, NEW b \in S, NEW F \in [D \X S -> S],
           NEW c, \A u \in SUBSET D : u # {} => c[u] \in u
    PROVE  \E g \in [SUBSET D -> S] : Folding(g, D, b, F, c)
<1>. DEFINE Upto(g, n) == \A u \in SUBSET D :
                Cardinality(u) <= n =>
                    g[u] = IF u = {} THEN b ELSE F[<<c[u], g[u \ {c[u]}]>>]
<1>1. \A u \in SUBSET D : IsFiniteSet(u) /\ Cardinality(u) \in Nat
  BY FS_Subset, FS_CardinalityType
<1>2. \A u \in SUBSET D : Cardinality(u) = 0 => u = {}
  BY <1>1, FS_EmptySet
<1>3. \A u \in SUBSET D : u # {} =>
          /\ c[u] \in D /\ u \ {c[u]} \in SUBSET D
          /\ Cardinality(u \ {c[u]}) = Cardinality(u) - 1
  BY <1>1, FS_RemoveElement
<1>4. PICK T : T = {n \in Nat : ~\E g \in [SUBSET D -> S] : Upto(g, n)}
  OBVIOUS
<1>5. ASSUME T # {} PROVE FALSE
  <2>1. PICK n \in T : \A m \in T : n <= m
    <3>1. T \subseteq Nat
      BY <1>4
    <3>. QED
      BY <3>1, <1>5, LeastOf
  <2>2. n \in Nat /\ ~\E g \in [SUBSET D -> S] : Upto(g, n)
    BY <1>4
  <2>3. CASE n = 0
    <3>1. PICK g \in [SUBSET D -> S] : \A u \in SUBSET D : g[u] = b
      <4>1. [u \in SUBSET D |-> b] \in [SUBSET D -> S]
        OBVIOUS
      <4>. QED
        BY <4>1
    <3>2. Upto(g, 0)
      BY <3>1, <1>1, <1>2
    <3>. QED
      BY <3>2, <2>2, <2>3
  <2>4. CASE n # 0
    <3>1. n - 1 \in Nat /\ n - 1 \notin T
      BY <2>1, <2>2, <2>4
    <3>2. PICK g \in [SUBSET D -> S] : Upto(g, n - 1)
      BY <3>1, <1>4
    <3>3. PICK h : h = [u \in SUBSET D |-> IF Cardinality(u) <= n - 1 \/ u = {} THEN g[u]
                                          ELSE F[<<c[u], g[u \ {c[u]}]>>]]
      OBVIOUS
    <3>4. h \in [SUBSET D -> S]
      <4>1. \A u \in SUBSET D : u # {} => F[<<c[u], g[u \ {c[u]}]>>] \in S
        BY <1>3
      <4>. QED
        BY <3>3, <4>1
    <3>5. ASSUME NEW u \in SUBSET D, Cardinality(u) <= n
          PROVE  h[u] = IF u = {} THEN b ELSE F[<<c[u], h[u \ {c[u]}]>>]
      <4>1. CASE u = {}
        <5>1. Cardinality(u) = 0
          BY <4>1, FS_EmptySet
        <5>2. Cardinality(u) <= n - 1
          BY <3>1, <5>1, <2>2, <2>4
        <5>3. g[u] = b
          BY <3>2, <4>1, <5>2
        <5>. QED
          BY <5>3, <4>1, <3>3
      <4>2. CASE u # {}
        <5>1. PICK v : v = u \ {c[u]}
          OBVIOUS
        <5>2. v \in SUBSET D /\ Cardinality(v) = Cardinality(u) - 1 /\ Cardinality(u) \in Nat
          BY <5>1, <4>2, <1>1, <1>3
        <5>3. h[v] = g[v]
          BY <5>2, <3>3, <3>5, <2>2
        <5>4. h[u] = F[<<c[u], g[v]>>]
          <6>1. CASE Cardinality(u) <= n - 1
            BY <6>1, <3>2, <3>3, <4>2, <5>1
          <6>2. CASE ~(Cardinality(u) <= n - 1)
            BY <6>2, <3>3, <4>2, <5>1
          <6>. QED
            BY <6>1, <6>2
        <5>. QED
          BY <5>1, <5>3, <5>4, <4>2
      <4>. QED
        BY <4>1, <4>2
    <3>6. Upto(h, n)
      BY <3>5
    <3>. QED
      BY <3>4, <3>6, <2>2
  <2>. QED
    BY <2>3, <2>4
<1>6. PICK N : N = Cardinality(D)
  OBVIOUS
<1>7. N \in Nat
  BY <1>1, <1>6
<1>8. PICK g \in [SUBSET D -> S] : Upto(g, N)
  BY <1>4, <1>5, <1>7
<1>9. \A u \in SUBSET D : Cardinality(u) <= N
  BY <1>6, FS_Subset
<1>. QED
  BY <1>8, <1>9, Zenon DEF Folding

(* A sum is a fold, ...                                                        *)
Summing(D, f, g) ==
    [s \in SUBSET D |-> IF s = {} THEN 0
                        ELSE f[CHOOSE x \in s : TRUE] + g[s \ {CHOOSE x \in s : TRUE}]]

(* SumFunction unfolds into the sums over the subsets.                        *)
LEMMA SumUnfolds ==
    ASSUME NEW f, NEW h, h = Summing(DOMAIN f, f, h)
    PROVE  \E g : g = Summing(DOMAIN f, f, g) /\ SumFunction(f) = g[DOMAIN f]
BY Zenon DEF SumFunction, SumFunctionOnSet, FoldFunctionOnSet, MapThenFoldSet, Summing

(* ... of which every subset has its own.                                      *)
AddsUp(g, D, f) ==
    /\ g \in [SUBSET D -> Nat] /\ g[{}] = 0
    /\ \A u \in SUBSET D : u # {} =>
           LET x == CHOOSE y \in u : TRUE IN g[u] = f[x] + g[u \ {x}]

(* SumFunction is the last of a function of partial sums.                     *)
LEMMA SumIsFold ==
    ASSUME NEW D, IsFiniteSet(D), NEW f \in [D -> Nat]
    PROVE  \E g : AddsUp(g, D, f) /\ SumFunction(f) = g[D]
<1>1. PICK c : c = [u \in SUBSET D |-> CHOOSE x \in u : TRUE]
  OBVIOUS
<1>2. \A u \in SUBSET D : u # {} => c[u] \in u
  BY <1>1
<1>3. PICK F : F = [p \in D \X Nat |-> f[p[1]] + p[2]]
  OBVIOUS
<1>4. F \in [D \X Nat -> Nat] /\ \A x \in D : \A n \in Nat : F[<<x, n>>] = f[x] + n
  BY <1>3
<1>5. PICK h \in [SUBSET D -> Nat] : Folding(h, D, 0, F, c)
  BY <1>2, <1>4, FoldThere
<1>6. ASSUME NEW u \in SUBSET D, u # {}
      PROVE  LET x == CHOOSE y \in u : TRUE IN
             x \in u /\ x \in D /\ u \ {x} \in SUBSET D /\ h[u] = f[x] + h[u \ {x}]
  <2>1. PICK x : x = CHOOSE y \in u : TRUE
    OBVIOUS
  <2>2. x \in u /\ x \in D /\ u \ {x} \in SUBSET D /\ c[u] = x
    BY <2>1, <1>1, <1>6
  <2>3. h[u] = F[<<x, h[u \ {x}]>>]
    BY <2>2, <1>5, <1>6 DEF Folding
  <2>4. h[u \ {x}] \in Nat
    BY <2>2
  <2>. QED
    BY <2>1, <2>2, <2>3, <2>4, <1>4
<1>7. h[{}] = 0
  BY <1>5 DEF Folding
<1>8. h = Summing(D, f, h)
  <2>1. ASSUME NEW u \in SUBSET D
        PROVE  h[u] = IF u = {} THEN 0
                      ELSE f[CHOOSE x \in u : TRUE] + h[u \ {CHOOSE x \in u : TRUE}]
    <3>1. CASE u = {}
      BY <3>1, <1>7
    <3>2. CASE u # {}
      BY <3>2, <1>6, Zenon
    <3>. QED
      BY <3>1, <3>2
  <2>2. h = [u \in SUBSET D |-> h[u]]
    OBVIOUS
  <2>. QED
    BY <2>1, <2>2, Zenon DEF Summing
<1>9. DOMAIN f = D
  OBVIOUS
<1>10. PICK g : g = Summing(D, f, g) /\ SumFunction(f) = g[D]
  BY <1>8, <1>9, SumUnfolds
<1>11. \A u \in SUBSET D : g[u] = IF u = {} THEN 0
                           ELSE f[CHOOSE x \in u : TRUE] + g[u \ {CHOOSE x \in u : TRUE}]
  <2>1. g = [u \in SUBSET D |-> IF u = {} THEN 0
                 ELSE f[CHOOSE x \in u : TRUE] + g[u \ {CHOOSE x \in u : TRUE}]]
    BY <1>10, Zenon DEF Summing
  <2>. QED
    BY <2>1, Zenon
<1>12. PICK bad : bad = {u \in SUBSET D : g[u] \notin Nat}
  OBVIOUS
<1>13. ASSUME bad # {} PROVE FALSE
  <2>1. PICK u \in bad : \A x \in u : u \ {x} \notin bad
    BY <1>12, <1>13, LeastSet
  <2>2. u # {}
    BY <1>11, <1>12
  <2>3. PICK x : x = CHOOSE y \in u : TRUE
    OBVIOUS
  <2>4. x \in u /\ x \in D /\ u \ {x} \in SUBSET D
    BY <2>2, <2>3, <1>12
  <2>5. g[u \ {x}] \in Nat
    BY <2>1, <2>4, <1>12
  <2>6. g[u] = f[x] + g[u \ {x}]
    BY <1>11, <2>2, <2>3, <1>12
  <2>. QED
    BY <2>4, <2>5, <2>6, <1>12
<1>14. g \in [SUBSET D -> Nat]
  <2>1. g = [u \in SUBSET D |-> IF u = {} THEN 0
                 ELSE f[CHOOSE x \in u : TRUE] + g[u \ {CHOOSE x \in u : TRUE}]]
    BY <1>10, Zenon DEF Summing
  <2>2. DOMAIN g = SUBSET D /\ g = [u \in SUBSET D |-> g[u]]
    BY <2>1, Zenon
  <2>. QED
    BY <2>2, <1>12, <1>13
<1>15. g[{}] = 0
  BY <1>11
<1>16. \A u \in SUBSET D : u # {} =>
           LET x == CHOOSE y \in u : TRUE IN g[u] = f[x] + g[u \ {x}]
  BY <1>11, Zenon
<1>. QED
  BY <1>10, <1>14, <1>15, <1>16, Zenon DEF AddsUp

(* A sum of naturals is one.                                                  *)
LEMMA SumType ==
    ASSUME NEW D, IsFiniteSet(D), NEW f \in [D -> Nat]
    PROVE  SumFunction(f) \in Nat
<1>1. PICK g : AddsUp(g, D, f) /\ SumFunction(f) = g[D]
  BY SumIsFold
<1>. QED
  BY <1>1 DEF AddsUp

(* Where one addend changes the sum changes by as much; where all are nothing  *)
(* so is the sum; and a sum of less is less.                                   *)
LEMMA SumMoves ==
    ASSUME NEW D, IsFiniteSet(D), NEW f \in [D -> Nat], NEW h \in [D -> Nat], NEW d \in D,
           \A x \in D : x # d => h[x] = f[x]
    PROVE  SumFunction(h) = SumFunction(f) - f[d] + h[d]
<1>1. PICK p : AddsUp(p, D, f) /\ SumFunction(f) = p[D]
  BY SumIsFold
<1>2. PICK q : AddsUp(q, D, h) /\ SumFunction(h) = q[D]
  BY SumIsFold
<1>3. PICK bad : bad = {u \in SUBSET D : ~(q[u] = IF d \in u THEN p[u] - f[d] + h[d] ELSE p[u])}
  OBVIOUS
<1>4. ASSUME bad # {} PROVE FALSE
  <2>1. PICK u \in bad : \A x \in u : u \ {x} \notin bad
    BY <1>3, <1>4, LeastSet
  <2>2. u # {}
    BY <1>1, <1>2, <1>3 DEF AddsUp
  <2>3. PICK x : x = CHOOSE y \in u : TRUE
    OBVIOUS
  <2>4. x \in u /\ x \in D /\ u \ {x} \in SUBSET D /\ u \in SUBSET D
    BY <2>2, <2>3, <1>3
  <2>5. PICK v : v = u \ {x}
    OBVIOUS
  <2>6. p[u] = f[x] + p[v] /\ q[u] = h[x] + q[v]
    BY <1>1, <1>2, <2>2, <2>3, <2>4, <2>5 DEF AddsUp
  <2>7. p[v] \in Nat /\ q[v] \in Nat /\ f[x] \in Nat /\ h[x] \in Nat /\ f[d] \in Nat /\ h[d] \in Nat
    BY <1>1, <1>2, <2>4, <2>5 DEF AddsUp
  <2>8. q[v] = IF d \in v THEN p[v] - f[d] + h[d] ELSE p[v]
    BY <2>1, <2>4, <2>5, <1>3
  <2>9. ~(q[u] = IF d \in u THEN p[u] - f[d] + h[d] ELSE p[u])
    BY <1>3
  <2>10. CASE x = d
    BY <2>10, <2>4, <2>5, <2>6, <2>7, <2>8, <2>9
  <2>11. CASE x # d
    <3>1. h[x] = f[x] /\ (d \in u <=> d \in v)
      BY <2>11, <2>4, <2>5
    <3>. QED
      BY <3>1, <2>6, <2>7, <2>8, <2>9
  <2>. QED
    BY <2>10, <2>11
<1>5. q[D] = p[D] - f[d] + h[d]
  BY <1>3, <1>4
<1>. QED
  BY <1>1, <1>2, <1>5

(* A sum of nothing is nothing.                                               *)
LEMMA SumNothing ==
    ASSUME NEW D, IsFiniteSet(D), NEW f \in [D -> Nat], \A x \in D : f[x] = 0
    PROVE  SumFunction(f) = 0
<1>1. PICK p : AddsUp(p, D, f) /\ SumFunction(f) = p[D]
  BY SumIsFold
<1>2. PICK bad : bad = {u \in SUBSET D : p[u] # 0}
  OBVIOUS
<1>3. ASSUME bad # {} PROVE FALSE
  <2>1. PICK u \in bad : \A x \in u : u \ {x} \notin bad
    BY <1>2, <1>3, LeastSet
  <2>2. u # {}
    BY <1>1, <1>2 DEF AddsUp
  <2>3. PICK x : x = CHOOSE y \in u : TRUE
    OBVIOUS
  <2>4. x \in u /\ x \in D /\ u \ {x} \in SUBSET D /\ u \in SUBSET D
    BY <2>2, <2>3, <1>2
  <2>5. p[u] = f[x] + p[u \ {x}]
    BY <1>1, <2>2, <2>3, <2>4 DEF AddsUp
  <2>6. p[u \ {x}] = 0
    BY <2>1, <2>4, <1>2
  <2>. QED
    BY <2>4, <2>5, <2>6, <1>2
<1>. QED
  BY <1>1, <1>2, <1>3

(* A sum of less is less.                                                     *)
LEMMA SumLess ==
    ASSUME NEW D, IsFiniteSet(D), NEW f \in [D -> Nat], NEW h \in [D -> Nat],
           \A x \in D : f[x] <= h[x]
    PROVE  SumFunction(f) <= SumFunction(h)
<1>1. PICK p : AddsUp(p, D, f) /\ SumFunction(f) = p[D]
  BY SumIsFold
<1>2. PICK q : AddsUp(q, D, h) /\ SumFunction(h) = q[D]
  BY SumIsFold
<1>3. PICK bad : bad = {u \in SUBSET D : ~(p[u] <= q[u])}
  OBVIOUS
<1>4. ASSUME bad # {} PROVE FALSE
  <2>1. PICK u \in bad : \A x \in u : u \ {x} \notin bad
    BY <1>3, <1>4, LeastSet
  <2>2. u # {}
    <3>1. p[{}] = 0 /\ q[{}] = 0 /\ ~(p[u] <= q[u])
      BY <1>1, <1>2, <1>3 DEF AddsUp
    <3>. QED
      BY <3>1
  <2>3. PICK x : x = CHOOSE y \in u : TRUE
    OBVIOUS
  <2>4. x \in u /\ x \in D /\ u \ {x} \in SUBSET D /\ u \in SUBSET D
    BY <2>2, <2>3, <1>3
  <2>5. PICK v : v = u \ {x}
    OBVIOUS
  <2>6. p[u] = f[x] + p[v] /\ q[u] = h[x] + q[v]
    BY <1>1, <1>2, <2>2, <2>3, <2>4, <2>5 DEF AddsUp
  <2>7. p[v] \in Nat /\ q[v] \in Nat /\ f[x] \in Nat /\ h[x] \in Nat /\ f[x] <= h[x]
    BY <1>1, <1>2, <2>4, <2>5 DEF AddsUp
  <2>8. p[v] <= q[v]
    BY <2>1, <2>4, <2>5, <1>3
  <2>. QED
    BY <2>6, <2>7, <2>8, <1>3
<1>5. p[D] <= q[D]
  BY <1>3, <1>4
<1>. QED
  BY <1>1, <1>2, <1>5

-----------------------------------------------------------------------------
(* The least of some numbers, and the greatest of some below a bound.          *)
LEMMA MinIs ==
    ASSUME NEW S, S \subseteq Nat, S # {}
    PROVE  Min(S) \in S /\ \A n \in S : Min(S) <= n
<1>1. \E m \in S : \A n \in S : m <= n
  BY LeastOf
<1>. QED
  BY <1>1 DEF Min

(* The greatest of some of the numbers up to a bound.                         *)
LEMMA MaxIs ==
    ASSUME NEW n \in Nat, NEW S, S \subseteq 0 .. n, S # {}
    PROVE  Max(S) \in S /\ \A m \in S : m <= Max(S)
<1>1. PICK T : T = {n - m : m \in S}
  OBVIOUS
<1>2. T \subseteq Nat /\ T # {}
  <2>1. \A m \in S : n - m \in Nat
    OBVIOUS
  <2>. QED
    BY <1>1, <2>1
<1>3. PICK k \in T : \A m \in T : k <= m
  BY <1>2, LeastOf
<1>4. PICK x \in S : k = n - x
  BY <1>1
<1>5. ASSUME NEW m \in S PROVE x >= m
  <2>1. n - x <= n - m
    BY <1>1, <1>3, <1>4
  <2>. QED
    BY <2>1
<1>6. \E y \in S : \A m \in S : y >= m
  BY <1>5
<1>7. Max(S) \in S /\ \A m \in S : Max(S) >= m
  BY <1>6 DEF Max
<1>8. Max(S) \in Nat /\ \A m \in S : m \in Nat
  <2>1. \A m \in S : m \in Nat
    OBVIOUS
  <2>. QED
    BY <1>7, <2>1
<1>. QED
  BY <1>7, <1>8

(* What a fold over a sequence goes through, one element after another.        *)
Stepping(g, n, b, F) ==
    \A u \in SUBSET (1 .. n) : g[u] = IF u = {} THEN b ELSE F[<<Max(u), g[u \ {Max(u)}]>>]

(* FoldLeft is the last of a function of its prefixes.                        *)
LEMMA FoldSteps ==
    ASSUME NEW n \in Nat, NEW S, NEW b \in S, NEW F \in [(1 .. n) \X S -> S]
    PROVE  \E g \in [SUBSET (1 .. n) -> S] : Stepping(g, n, b, F)
<1>1. PICK c : c = [u \in SUBSET (1 .. n) |-> Max(u)]
  OBVIOUS
<1>2. \A u \in SUBSET (1 .. n) : u # {} => c[u] \in u
  <2>1. \A u \in SUBSET (1 .. n) : u \subseteq 0 .. n
    OBVIOUS
  <2>. QED
    BY <1>1, <2>1, MaxIs
<1>3. IsFiniteSet(1 .. n)
  BY FS_Interval
<1>4. PICK g \in [SUBSET (1 .. n) -> S] : Folding(g, 1 .. n, b, F, c)
  BY <1>2, <1>3, FoldThere
<1>. QED
  BY <1>1, <1>4 DEF Folding, Stepping

(* Each prefix is the one before it and its last place.                       *)
LEMMA PrefixSteps ==
    ASSUME NEW n \in Nat, NEW k \in 1 .. n
    PROVE  /\ 1 .. k \in SUBSET (1 .. n) /\ 1 .. k # {} /\ Max(1 .. k) = k
           /\ (1 .. k) \ {Max(1 .. k)} = 1 .. (k - 1)
<1>1. 1 .. k \in SUBSET (1 .. n) /\ 1 .. k # {} /\ k \in 1 .. k /\ 1 .. k \subseteq 0 .. k
  OBVIOUS
<1>2. Max(1 .. k) \in 1 .. k /\ \A m \in 1 .. k : m <= Max(1 .. k)
  <2>1. k \in Nat
    OBVIOUS
  <2>. QED
    BY <1>1, <2>1, MaxIs
<1>3. Max(1 .. k) = k
  BY <1>1, <1>2
<1>4. (1 .. k) \ {k} = 1 .. (k - 1)
  OBVIOUS
<1>. QED
  BY <1>1, <1>3, <1>4

-----------------------------------------------------------------------------
(* Entries, and what each step of the merge and of the sort does to a list.    *)
Entries == [site : Sites \cup {Nobody}, count : Nat, bytes : Nat, over : Nat,
            overBytes : Nat, sized : Nat, sizedBytes : Nat]

(* What an entry has.                                                         *)
LEMMA EntryIs ==
    ASSUME NEW e \in Entries
    PROVE  /\ e.site \in Sites \cup {Nobody} /\ e.count \in Nat /\ e.bytes \in Nat
           /\ e.over \in Nat /\ e.overBytes \in Nat /\ e.sized \in Nat /\ e.sizedBytes \in Nat
           /\ Earned(e) \in Int
BY DEF Entries, Earned

(* Adding the entry of another row adds each of its counts.                   *)
LEMMA AddedEntry ==
    ASSUME NEW e \in Entries, NEW f \in Entries
    PROVE  LET a == Added(e, f) IN
           /\ a \in Entries /\ a.site = e.site
           /\ a.count = e.count + f.count /\ a.bytes = e.bytes + f.bytes
           /\ a.over = e.over + f.over /\ a.overBytes = e.overBytes + f.overBytes
           /\ a.sized = e.sized + f.sized /\ a.sizedBytes = e.sizedBytes + f.sizedBytes
<1>1. PICK a : a = Added(e, f)
  OBVIOUS
<1>2. DOMAIN e = {"site", "count", "bytes", "over", "overBytes", "sized", "sizedBytes"}
  BY DEF Entries
<1>3. a = [site |-> e.site, count |-> e.count + f.count, bytes |-> e.bytes + f.bytes,
           over |-> e.over + f.over, overBytes |-> e.overBytes + f.overBytes,
           sized |-> e.sized + f.sized, sizedBytes |-> e.sizedBytes + f.sizedBytes]
  BY <1>1, <1>2 DEF Added, Entries
<1>4. a \in Entries
  BY <1>3, EntryIs DEF Entries
<1>. QED
  BY <1>1, <1>3, <1>4

(* The worst is a place of the list.                                          *)
LEMMA WorstIs ==
    ASSUME NEW list \in Seq(Entries), list # <<>>
    PROVE  Worst(list) \in DOMAIN list
<1>1. PICK C : C = {list[k].count : k \in DOMAIN list}
  OBVIOUS
<1>2. \A k \in DOMAIN list : list[k].count \in Nat
  BY EntryIs
<1>3. C \subseteq Nat /\ C # {}
  BY <1>1, <1>2
<1>4. PICK c \in C : \A d \in C : c <= d
  BY <1>3, LeastOf
<1>5. PICK W : W = {k \in DOMAIN list : \A j \in DOMAIN list : list[k].count <= list[j].count}
  OBVIOUS
<1>6. W # {} /\ W \subseteq Nat /\ W \subseteq DOMAIN list
  BY <1>1, <1>4, <1>5
<1>7. Min(W) \in W
  BY <1>6, MinIs
<1>. QED
  BY <1>5, <1>6, <1>7 DEF Worst

(* A step of the merge leaves a list alone, or adds the entry to that of its    *)
(* site, or puts it in a new place or in that of another.                       *)
MergedInto(list, e, r) ==
    \/ r = list
    \/ \E k \in DOMAIN list : list[k].site = e.site /\ e.site # Nobody
                              /\ r = [list EXCEPT ![k] = Added(list[k], e)]
    \/ /\ e.site # Nobody /\ \A k \in DOMAIN list : list[k].site # e.site
       /\ \/ r = Append(list, e)
          \/ \E k \in DOMAIN list : r = [list EXCEPT ![k] = e]

(* Merged does one of the three.                                              *)
LEMMA MergedIs ==
    ASSUME NEW list \in Seq(Entries), NEW e \in Entries, NEW max \in Nat \ {0}
    PROVE  MergedInto(list, e, Merged(list, e, max))
<1>1. PICK same : same = {k \in DOMAIN list : list[k].site = e.site}
  OBVIOUS
<1>2. PICK r : r = Merged(list, e, max)
  OBVIOUS
<1>3. CASE e.site = Nobody
  <2>1. r = list
    BY <1>2, <1>3 DEF Merged
  <2>. QED
    BY <2>1, <1>2 DEF MergedInto
<1>4. CASE e.site # Nobody /\ same # {}
  <2>1. same \subseteq Nat /\ same \subseteq DOMAIN list
    BY <1>1
  <2>2. Min(same) \in same
    BY <1>4, <2>1, MinIs
  <2>3. PICK k : k = Min(same)
    OBVIOUS
  <2>4. r = [list EXCEPT ![k] = Added(list[k], e)]
    BY <1>1, <1>2, <1>4, <2>3, Zenon DEF Merged
  <2>5. k \in DOMAIN list /\ list[k].site = e.site
    BY <1>1, <2>2, <2>3
  <2>. QED
    BY <2>4, <2>5, <1>2, <1>4 DEF MergedInto
<1>5. CASE e.site # Nobody /\ same = {}
  <2>1. \A k \in DOMAIN list : list[k].site # e.site
    BY <1>1, <1>5
  <2>2. CASE Len(list) < max
    <3>1. r = Append(list, e)
      BY <1>1, <1>2, <1>5, <2>2 DEF Merged
    <3>. QED
      BY <3>1, <2>1, <1>2, <1>5 DEF MergedInto
  <2>3. CASE ~(Len(list) < max)
    <3>1. list # <<>>
      BY <2>3
    <3>2. PICK k : k = Worst(list)
      OBVIOUS
    <3>3. k \in DOMAIN list
      BY <3>1, <3>2, WorstIs
    <3>4. r = IF e.count > list[k].count THEN [list EXCEPT ![k] = e] ELSE list
      BY <1>1, <1>2, <1>5, <2>3, <3>2, Zenon DEF Merged
    <3>. QED
      BY <3>3, <3>4, <2>1, <1>2, <1>5 DEF MergedInto
  <2>. QED
    BY <2>2, <2>3
<1>. QED
  BY <1>3, <1>4, <1>5

(* What becomes of each place of a list in each of those.                       *)
LEMMA PlacesOfMerge ==
    ASSUME NEW list \in Seq(Entries), NEW e \in Entries, NEW r, MergedInto(list, e, r)
    PROVE  /\ r \in Seq(Entries)
           /\ \A k \in DOMAIN r :
                 \/ k \in DOMAIN list /\ r[k] = list[k]
                 \/ k \in DOMAIN list /\ list[k].site = e.site /\ e.site # Nobody
                    /\ r[k] = Added(list[k], e)
                 \/ r[k] = e /\ e.site # Nobody /\ \A j \in DOMAIN list : list[j].site # e.site
           /\ \A j, k \in DOMAIN r : j # k => \/ j \in DOMAIN list /\ r[j].site = list[j].site
                                              \/ k \in DOMAIN list /\ r[k].site = list[k].site
<1>1. CASE r = list
  BY <1>1
<1>2. ASSUME NEW k \in DOMAIN list, list[k].site = e.site, e.site # Nobody,
             r = [list EXCEPT ![k] = Added(list[k], e)]
      PROVE  /\ r \in Seq(Entries) /\ DOMAIN r = DOMAIN list
             /\ r[k] = Added(list[k], e) /\ r[k].site = list[k].site
             /\ \A j \in DOMAIN list : j # k => r[j] = list[j]
  <2>1. list[k] \in Entries
    OBVIOUS
  <2>2. PICK a : a = Added(list[k], e)
    OBVIOUS
  <2>3. a \in Entries /\ a.site = list[k].site
    BY <2>1, <2>2, AddedEntry
  <2>4. r = [list EXCEPT ![k] = a]
    BY <2>2, <1>2
  <2>5. r \in Seq(Entries)
    BY <2>3, <2>4, ExceptSeq
  <2>. QED
    BY <2>2, <2>3, <2>4, <2>5
<1>3. ASSUME NEW k \in DOMAIN list, r = [list EXCEPT ![k] = e]
      PROVE  /\ r \in Seq(Entries) /\ DOMAIN r = DOMAIN list /\ r[k] = e
             /\ \A j \in DOMAIN list : j # k => r[j] = list[j]
  <2>1. r \in Seq(Entries)
    BY <1>3, ExceptSeq
  <2>. QED
    BY <2>1, <1>3
<1>4. ASSUME r = Append(list, e)
      PROVE  /\ r \in Seq(Entries) /\ DOMAIN r = DOMAIN list \cup {Len(list) + 1}
             /\ r[Len(list) + 1] = e /\ Len(list) + 1 \notin DOMAIN list
             /\ \A j \in DOMAIN list : r[j] = list[j]
  BY <1>4
<1>5. CASE \E k \in DOMAIN list : list[k].site = e.site /\ e.site # Nobody
                                  /\ r = [list EXCEPT ![k] = Added(list[k], e)]
  BY <1>2, <1>5
<1>6. CASE /\ e.site # Nobody /\ \A k \in DOMAIN list : list[k].site # e.site
           /\ r = Append(list, e)
  BY <1>4, <1>6
<1>7. CASE /\ e.site # Nobody /\ \A k \in DOMAIN list : list[k].site # e.site
           /\ \E k \in DOMAIN list : r = [list EXCEPT ![k] = e]
  BY <1>3, <1>7
<1>. QED
  BY <1>1, <1>5, <1>6, <1>7 DEF MergedInto

(* Insertion into a list in order keeps the order, and loses nobody.            *)
InOrder(list) ==
    \A j, k \in DOMAIN list : j < k => Earned(list[j]) >= Earned(list[k])

HasPlace(list, e, r) ==
    \E m \in 0 .. Len(list) :
        /\ r \in Seq(Entries) /\ Len(r) = Len(list) + 1
        /\ \A k \in 1 .. m : r[k] = list[k] /\ Earned(list[k]) >= Earned(e)
        /\ r[m + 1] = e
        /\ \A k \in m + 2 .. Len(list) + 1 :
              r[k] = list[k - 1] /\ Earned(list[k - 1]) < Earned(e)

(* Inserted finds the place, and what is behind it moves up by one.           *)
LEMMA InsertedIs ==
    ASSUME NEW list \in Seq(Entries), NEW e \in Entries, InOrder(list)
    PROVE  HasPlace(list, e, Inserted(list, e))
<1>1. PICK n \in Nat : n = Len(list)
  OBVIOUS
<1>2. PICK before : before = {k \in DOMAIN list : Earned(list[k]) >= Earned(e)}
  OBVIOUS
<1>3. PICK m : m = IF before = {} THEN 0 ELSE Max(before)
  OBVIOUS
<1>4. Earned(e) \in Int /\ \A k \in 1 .. n : Earned(list[k]) \in Int
  BY <1>1, EntryIs
<1>5. before \subseteq 0 .. n /\ before \subseteq 1 .. n
  BY <1>1, <1>2
<1>6. m \in 0 .. n /\ (m # 0 => m \in before) /\ \A k \in before : k <= m
  <2>1. CASE before = {}
    BY <2>1, <1>3
  <2>2. CASE before # {}
    BY <2>2, <1>3, <1>5, MaxIs
  <2>. QED
    BY <2>1, <2>2
<1>7. \A k \in 1 .. m : Earned(list[k]) >= Earned(e)
  <2>1. SUFFICES ASSUME NEW k \in 1 .. m PROVE Earned(list[k]) >= Earned(e)
    OBVIOUS
  <2>2. m \in 1 .. n /\ k \in 1 .. n /\ Earned(list[m]) >= Earned(e)
    BY <1>2, <1>5, <1>6
  <2>3. k < m => Earned(list[k]) >= Earned(list[m])
    BY <2>2, <1>1 DEF InOrder
  <2>. QED
    BY <2>2, <2>3, <1>4
<1>8. \A k \in m + 1 .. n : Earned(list[k]) < Earned(e)
  <2>1. SUFFICES ASSUME NEW k \in m + 1 .. n PROVE Earned(list[k]) < Earned(e)
    OBVIOUS
  <2>2. k \in 1 .. n /\ k \notin before
    BY <1>6
  <2>3. ~(Earned(list[k]) >= Earned(e))
    BY <2>2, <1>1, <1>2
  <2>. QED
    BY <2>2, <2>3, <1>4
<1>9. PICK r : r = Inserted(list, e)
  OBVIOUS
<1>10. r = InsertAt(list, m + 1, e)
  <2>1. r = InsertAt(list, IF before = {} THEN 1 ELSE Max(before) + 1, e)
    BY <1>2, <1>9 DEF Inserted
  <2>2. (IF before = {} THEN 1 ELSE Max(before) + 1) = m + 1
    BY <1>3, <1>6
  <2>. QED
    BY <2>1, <2>2
<1>11. PICK a : a = SubSeq(list, 1, m)
  OBVIOUS
<1>12. PICK b : b = SubSeq(list, m + 1, n)
  OBVIOUS
<1>13. a \in Seq(Entries) /\ Len(a) = m /\ \A k \in 1 .. m : a[k] = list[k]
  <2>1. \A k \in 1 .. m : list[k] \in Entries
    BY <1>1, <1>6
  <2>. QED
    BY <2>1, <1>6, <1>11, SubSeqProperties
<1>14. b \in Seq(Entries) /\ Len(b) = n - m /\ \A k \in 1 .. n - m : b[k] = list[m + k]
  <2>1. \A k \in m + 1 .. n : list[k] \in Entries
    BY <1>1, <1>6
  <2>2. b \in Seq(Entries) /\ Len(b) = IF m + 1 <= n THEN n - (m + 1) + 1 ELSE 0
    BY <2>1, <1>6, <1>12, SubSeqProperties
  <2>3. \A k \in 1 .. n - (m + 1) + 1 : b[k] = list[m + 1 + k - 1]
    BY <2>1, <1>6, <1>12, SubSeqProperties
  <2>4. \A k \in 1 .. n - m : m + 1 + k - 1 = m + k /\ k \in 1 .. n - (m + 1) + 1
    BY <1>6
  <2>5. Len(b) = n - m
    BY <2>2, <1>6
  <2>6. \A k \in 1 .. n - m : b[k] = list[m + k]
    BY <2>3, <2>4
  <2>. QED
    BY <2>2, <2>5, <2>6
<1>15. PICK x : x = a \o <<e>>
  OBVIOUS
<1>16. x \in Seq(Entries) /\ Len(x) = m + 1 /\ x[m + 1] = e /\ \A k \in 1 .. m : x[k] = list[k]
  BY <1>6, <1>13, <1>15
<1>17. r = x \o b
  <2>1. PICK i : i = m + 1
    OBVIOUS
  <2>2. i - 1 = m
    BY <2>1, <1>6
  <2>3. r = InsertAt(list, i, e)
    BY <2>1, <1>10
  <2>4. a = SubSeq(list, 1, i - 1) /\ b = SubSeq(list, i, Len(list))
    BY <2>1, <2>2, <1>1, <1>11, <1>12
  <2>. QED
    BY <2>3, <2>4, <1>15 DEF InsertAt
<1>18. r \in Seq(Entries) /\ Len(r) = n + 1 /\ (\A k \in 1 .. m + 1 : r[k] = x[k])
       /\ \A k \in 1 .. n - m : r[m + 1 + k] = b[k]
  BY <1>6, <1>14, <1>16, <1>17
<1>19. \A k \in m + 2 .. n + 1 : r[k] = list[k - 1]
  <2>1. SUFFICES ASSUME NEW k \in m + 2 .. n + 1 PROVE r[k] = list[k - 1]
    OBVIOUS
  <2>2. PICK j \in 1 .. n - m : k = m + 1 + j
    <3>1. k - (m + 1) \in 1 .. n - m /\ k = m + 1 + (k - (m + 1))
      BY <1>6
    <3>. QED
      BY <3>1
  <2>3. r[m + 1 + j] = b[j] /\ b[j] = list[m + j]
    BY <2>2, <1>14, <1>18
  <2>4. m + j = k - 1
    BY <2>2, <1>6
  <2>. QED
    BY <2>2, <2>3, <2>4
<1>20. \A k \in 1 .. m : r[k] = list[k]
  BY <1>6, <1>16, <1>18
<1>21. r[m + 1] = e
  BY <1>6, <1>16, <1>18
<1>22. \A k \in m + 2 .. n + 1 : Earned(list[k - 1]) < Earned(e)
  BY <1>6, <1>8
<1>. QED
  BY <1>1, <1>6, <1>7, <1>9, <1>18, <1>19, <1>20, <1>21, <1>22 DEF HasPlace

-----------------------------------------------------------------------------
(* The rows, one behind the other: each entry has its owner, who has no other   *)
(* of that site.                                                                *)
RowsAreWhole ==
    /\ entries \in [Noters -> [SiteSlots -> Entries]]
    /\ \A t \in Noters : \A i, j \in SiteSlots :
          entries[t][i].site = entries[t][j].site /\ entries[t][i].site # Nobody => i = j

Owned(list, own, u) ==
    /\ list \in Seq(Entries) /\ own \in [1 .. Len(list) -> u]
    /\ \A k \in 1 .. Len(list) : \E i \in SiteSlots : list[k] = entries[own[k]][i]
    /\ \A j, k \in 1 .. Len(list) :
          own[j] = own[k] /\ list[j].site = list[k].site /\ list[j].site # Nobody => j = k

Stacking(g) ==
    [s \in SUBSET Noters |->
        IF s = {} THEN <<>>
        ELSE g[s \ {CHOOSE x \in s : TRUE}] \o RowOf(CHOOSE x \in s : TRUE)]

(* AllEntries unfolds into what some threads' rows make.                      *)
LEMMA AllUnfolds ==
    ASSUME NEW h, h = Stacking(h)
    PROVE  \E g : g = Stacking(g) /\ AllEntries = g[Noters]
BY Zenon DEF AllEntries, FoldSet, MapThenFoldSet, Stacking

(* RowOf is the row as a sequence.                                            *)
LEMMA RowIs ==
    ASSUME RowsAreWhole, NEW t \in Noters
    PROVE  /\ RowOf(t) \in Seq(Entries) /\ Len(RowOf(t)) = NumSlots
           /\ \A k \in 1 .. NumSlots : k - 1 \in SiteSlots /\ RowOf(t)[k] = entries[t][k - 1]
<1>1. NumSlots \in Nat
  BY SitesAssumption
<1>2. \A k \in 1 .. NumSlots : k - 1 \in SiteSlots
  BY <1>1 DEF SiteSlots
<1>3. [k \in 1 .. NumSlots |-> entries[t][k - 1]] \in [1 .. NumSlots -> Entries]
  BY <1>2 DEF RowsAreWhole
<1>4. PICK r : r = RowOf(t)
  OBVIOUS
<1>5. r \in [1 .. NumSlots -> Entries]
  BY <1>3, <1>4 DEF RowOf
<1>6. r \in Seq(Entries) /\ Len(r) = NumSlots
  BY <1>1, <1>5, FunctionSeq
<1>7. \A k \in 1 .. NumSlots : r[k] = entries[t][k - 1]
  BY <1>4 DEF RowOf
<1>. QED
  BY <1>2, <1>4, <1>6, <1>7

(* One more row behind those of others: its entries are its thread's.         *)
LEMMA RowJoins ==
    ASSUME RowsAreWhole, NEW u \in SUBSET Noters, NEW t \in u,
           NEW list, NEW own, Owned(list, own, u \ {t})
    PROVE  \E more : Owned(list \o RowOf(t), more, u)
<1>1. PICK n \in Nat : n = Len(list)
  BY DEF Owned
<1>2. PICK row : row = RowOf(t)
  OBVIOUS
<1>3. NumSlots \in Nat /\ t \in Noters
  BY SitesAssumption
<1>4. /\ row \in Seq(Entries) /\ Len(row) = NumSlots
      /\ \A k \in 1 .. NumSlots : k - 1 \in SiteSlots /\ row[k] = entries[t][k - 1]
  BY <1>2, <1>3, RowIs
<1>5. list \in Seq(Entries)
  BY DEF Owned
<1>6. PICK all : all = list \o row
  OBVIOUS
<1>7. /\ all \in Seq(Entries) /\ Len(all) = n + NumSlots
      /\ \A k \in 1 .. n : all[k] = list[k]
      /\ \A k \in 1 .. n + NumSlots : k > n => all[k] = row[k - n]
  <2>1. n \in Nat /\ list \in Seq(Entries) /\ Len(list) = n
    BY <1>1, <1>5
  <2>2. row \in Seq(Entries) /\ Len(row) = NumSlots /\ NumSlots \in Nat
    BY <1>3, <1>4
  <2>3. /\ all \in Seq(Entries) /\ Len(all) = Len(list) + Len(row)
        /\ \A k \in 1 .. Len(list) + Len(row) :
              all[k] = IF k <= Len(list) THEN list[k] ELSE row[k - Len(list)]
    BY <2>1, <2>2, <1>6, ConcatProperties
  <2>4. \A k \in 1 .. n + NumSlots : all[k] = IF k <= n THEN list[k] ELSE row[k - n]
    BY <2>1, <2>2, <2>3
  <2>. QED
    BY <2>1, <2>2, <2>3, <2>4
<1>8. PICK more : more = [k \in 1 .. n + NumSlots |-> IF k <= n THEN own[k] ELSE t]
  OBVIOUS
<1>9. \A k \in 1 .. n : own[k] \in u \ {t}
  BY <1>1 DEF Owned
<1>10. more \in [1 .. Len(all) -> u]
  <2>1. \A k \in 1 .. n + NumSlots : (IF k <= n THEN own[k] ELSE t) \in u
    BY <1>1, <1>3, <1>9
  <2>. QED
    BY <2>1, <1>7, <1>8
<1>11. \A k \in 1 .. n + NumSlots :
          \/ k \in 1 .. n /\ more[k] = own[k] /\ more[k] # t /\ all[k] = list[k]
          \/ /\ k - n \in 1 .. NumSlots /\ more[k] = t
             /\ k - n - 1 \in SiteSlots /\ all[k] = entries[t][k - n - 1]
  <2>1. SUFFICES ASSUME NEW k \in 1 .. n + NumSlots
                 PROVE  \/ k \in 1 .. n /\ more[k] = own[k] /\ more[k] # t /\ all[k] = list[k]
                        \/ /\ k - n \in 1 .. NumSlots /\ more[k] = t
                           /\ k - n - 1 \in SiteSlots /\ all[k] = entries[t][k - n - 1]
    OBVIOUS
  <2>2. CASE k <= n
    <3>1. k \in 1 .. n
      BY <2>2, <1>1, <1>3
    <3>. QED
      BY <3>1, <2>2, <1>7, <1>8, <1>9
  <2>3. CASE ~(k <= n)
    <3>1. PICK j : j = k - n
      OBVIOUS
    <3>2. j \in 1 .. NumSlots /\ k > n
      BY <3>1, <2>3, <1>1, <1>3
    <3>3. all[k] = row[j] /\ j - 1 \in SiteSlots /\ row[j] = entries[t][j - 1]
      BY <3>1, <3>2, <1>4, <1>7
    <3>4. more[k] = t
      BY <2>3, <1>8
    <3>. QED
      BY <3>1, <3>2, <3>3, <3>4
  <2>. QED
    BY <2>2, <2>3
<1>12. \A k \in 1 .. Len(all) : \E i \in SiteSlots : all[k] = entries[more[k]][i]
  <2>1. \A k \in 1 .. n : \E i \in SiteSlots : list[k] = entries[own[k]][i]
    BY <1>1 DEF Owned
  <2>. QED
    BY <2>1, <1>7, <1>11
<1>13. ASSUME NEW j \in 1 .. Len(all), NEW k \in 1 .. Len(all),
              more[j] = more[k], all[j].site = all[k].site, all[j].site # Nobody
       PROVE  j = k
  <2>1. CASE j \in 1 .. n /\ more[j] # t
    <3>1. k \in 1 .. n /\ all[j] = list[j] /\ all[k] = list[k]
          /\ more[j] = own[j] /\ more[k] = own[k]
      <4>1. more[k] # t
        BY <2>1, <1>13
      <4>. QED
        BY <4>1, <2>1, <1>7, <1>11
    <3>. QED
      BY <3>1, <2>1, <1>1, <1>13 DEF Owned
  <2>2. CASE more[j] = t
    <3>1. PICK a, b : a = j - n - 1 /\ b = k - n - 1
      OBVIOUS
    <3>2. a \in SiteSlots /\ all[j] = entries[t][a] /\ b \in SiteSlots /\ all[k] = entries[t][b]
      BY <3>1, <2>2, <1>7, <1>11, <1>13
    <3>3. a = b
      BY <3>2, <1>3, <1>13 DEF RowsAreWhole
    <3>4. j \in Nat /\ k \in Nat
      BY <1>7
    <3>. QED
      BY <3>1, <3>3, <3>4, <1>1
  <2>. QED
    BY <2>1, <2>2, <1>7, <1>11
<1>14. Owned(all, more, u)
  BY <1>7, <1>10, <1>12, <1>13 DEF Owned
<1>. QED
  BY <1>2, <1>6, <1>14

(* Every entry of AllEntries has its owner.                                   *)
LEMMA AllOwned ==
    ASSUME RowsAreWhole
    PROVE  \E own : Owned(AllEntries, own, Noters)
<1>0. IsFiniteSet(Noters)
  BY SitesAssumption
<1>1. PICK c : c = [s \in SUBSET Noters |-> CHOOSE x \in s : TRUE]
  OBVIOUS
<1>2. \A s \in SUBSET Noters : s # {} => c[s] \in s
  BY <1>1
<1>3. PICK F : F = [p \in Noters \X Seq(Entries) |-> p[2] \o RowOf(p[1])]
  OBVIOUS
<1>4. F \in [Noters \X Seq(Entries) -> Seq(Entries)]
      /\ \A t \in Noters : \A list \in Seq(Entries) : F[<<t, list>>] = list \o RowOf(t)
  <2>1. \A t \in Noters : RowOf(t) \in Seq(Entries)
    BY RowIs
  <2>2. \A t \in Noters : \A list \in Seq(Entries) : list \o RowOf(t) \in Seq(Entries)
    BY <2>1
  <2>. QED
    BY <2>2, <1>3
<1>5. <<>> \in Seq(Entries)
  OBVIOUS
<1>6. PICK h \in [SUBSET Noters -> Seq(Entries)] : Folding(h, Noters, <<>>, F, c)
  BY <1>0, <1>2, <1>4, <1>5, FoldThere
<1>7. h = Stacking(h)
  <2>1. ASSUME NEW s \in SUBSET Noters
        PROVE  h[s] = IF s = {} THEN <<>>
                      ELSE h[s \ {CHOOSE x \in s : TRUE}] \o RowOf(CHOOSE x \in s : TRUE)
    <3>1. CASE s = {}
      BY <3>1, <1>6 DEF Folding
    <3>2. CASE s # {}
      <4>1. PICK t : t = CHOOSE x \in s : TRUE
        OBVIOUS
      <4>2. t \in s /\ t \in Noters /\ c[s] = t /\ s \ {t} \in SUBSET Noters
        BY <3>2, <4>1, <1>1
      <4>3. h[s] = F[<<t, h[s \ {t}]>>]
        BY <4>2, <3>2, <1>6 DEF Folding
      <4>4. h[s] = h[s \ {t}] \o RowOf(t)
        BY <4>2, <4>3, <1>4
      <4>. QED
        BY <4>1, <4>4, <3>2
    <3>. QED
      BY <3>1, <3>2
  <2>2. h = [s \in SUBSET Noters |-> h[s]]
    OBVIOUS
  <2>. QED
    BY <2>1, <2>2, Zenon DEF Stacking
<1>8. PICK g : g = Stacking(g) /\ AllEntries = g[Noters]
  BY <1>7, AllUnfolds
<1>9. \A s \in SUBSET Noters :
          g[s] = IF s = {} THEN <<>>
                 ELSE g[s \ {CHOOSE x \in s : TRUE}] \o RowOf(CHOOSE x \in s : TRUE)
  <2>1. g = [s \in SUBSET Noters |-> IF s = {} THEN <<>>
                ELSE g[s \ {CHOOSE x \in s : TRUE}] \o RowOf(CHOOSE x \in s : TRUE)]
    BY <1>8, Zenon DEF Stacking
  <2>. QED
    BY <2>1, Zenon
<1>10. PICK bad : bad = {s \in SUBSET Noters : ~\E own : Owned(g[s], own, s)}
  OBVIOUS
<1>11. ASSUME bad # {} PROVE FALSE
  <2>1. PICK s \in bad : \A x \in s : s \ {x} \notin bad
    BY <1>0, <1>10, <1>11, LeastSet
  <2>2. s \in SUBSET Noters /\ ~\E own : Owned(g[s], own, s)
    BY <1>10
  <2>3. CASE s = {}
    <3>1. g[s] = <<>>
      BY <2>2, <2>3, <1>9
    <3>2. PICK own : own = [k \in 1 .. 0 |-> CHOOSE x \in s : TRUE]
      OBVIOUS
    <3>3. own \in [1 .. 0 -> s]
      BY <3>2
    <3>4. Owned(<<>>, own, s)
      BY <3>3 DEF Owned
    <3>. QED
      BY <3>1, <3>4, <2>2
  <2>4. CASE s # {}
    <3>1. PICK t : t = CHOOSE x \in s : TRUE
      OBVIOUS
    <3>2. t \in s /\ s \ {t} \in SUBSET Noters
      BY <3>1, <2>2, <2>4
    <3>3. g[s] = g[s \ {t}] \o RowOf(t)
      BY <3>1, <2>2, <2>4, <1>9
    <3>4. PICK own : Owned(g[s \ {t}], own, s \ {t})
      BY <3>2, <2>1, <1>10
    <3>5. \E more : Owned(g[s \ {t}] \o RowOf(t), more, s)
      BY <3>2, <3>4, <2>2, RowJoins
    <3>. QED
      BY <3>3, <3>5, <2>2
  <2>. QED
    BY <2>3, <2>4
<1>. QED
  BY <1>8, <1>10, <1>11

-----------------------------------------------------------------------------
(* What some threads noted down of a site, ...                                 *)
Counts(s, H) == [t \in Noters |-> IF t \in H THEN truth[t][s].count ELSE 0]
Lengths(s, H) == [t \in Noters |-> IF t \in H THEN truth[t][s].bytes ELSE 0]
NotedBy(s, H) == [count |-> SumFunction(Counts(s, H)), bytes |-> SumFunction(Lengths(s, H))]
TruthIs == truth \in [Noters -> [Sites -> [count : Nat, bytes : Nat]]]

(* The numbers that are summed are naturals.                                  *)
LEMMA CountsAre ==
    ASSUME TruthIs, NEW s \in Sites, NEW H
    PROVE  /\ IsFiniteSet(Noters)
           /\ Counts(s, H) \in [Noters -> Nat] /\ Lengths(s, H) \in [Noters -> Nat]
           /\ \A t \in Noters : /\ truth[t][s].count \in Nat /\ truth[t][s].bytes \in Nat
                                /\ Counts(s, H)[t] = IF t \in H THEN truth[t][s].count ELSE 0
                                /\ Lengths(s, H)[t] = IF t \in H THEN truth[t][s].bytes ELSE 0
           /\ SumFunction(Counts(s, H)) \in Nat /\ SumFunction(Lengths(s, H)) \in Nat
<1>1. IsFiniteSet(Noters)
  BY SitesAssumption
<1>2. \A t \in Noters : truth[t][s].count \in Nat /\ truth[t][s].bytes \in Nat
  <2>1. \A t \in Noters : truth[t][s] \in [count : Nat, bytes : Nat]
    BY DEF TruthIs
  <2>. QED
    BY <2>1
<1>3. Counts(s, H) \in [Noters -> Nat] /\ Lengths(s, H) \in [Noters -> Nat]
  BY <1>2 DEF Counts, Lengths
<1>4. \A t \in Noters : /\ Counts(s, H)[t] = IF t \in H THEN truth[t][s].count ELSE 0
                        /\ Lengths(s, H)[t] = IF t \in H THEN truth[t][s].bytes ELSE 0
  BY DEF Counts, Lengths
<1>5. SumFunction(Counts(s, H)) \in Nat /\ SumFunction(Lengths(s, H)) \in Nat
  BY <1>1, <1>3, SumType
<1>. QED
  BY <1>1, <1>2, <1>3, <1>4, <1>5

(* ... which one more thread adds its own to, ...                              *)
LEMMA OneMoreNoter ==
    ASSUME TruthIs, NEW s \in Sites, NEW H, NEW t \in Noters, t \notin H
    PROVE  /\ SumFunction(Counts(s, H \cup {t})) = SumFunction(Counts(s, H)) + truth[t][s].count
           /\ SumFunction(Lengths(s, H \cup {t})) = SumFunction(Lengths(s, H)) + truth[t][s].bytes
<1>1. PICK f : f = Counts(s, H)
  OBVIOUS
<1>2. PICK g : g = Counts(s, H \cup {t})
  OBVIOUS
<1>3. PICK p : p = Lengths(s, H)
  OBVIOUS
<1>4. PICK q : q = Lengths(s, H \cup {t})
  OBVIOUS
<1>5. /\ IsFiniteSet(Noters) /\ f \in [Noters -> Nat] /\ p \in [Noters -> Nat]
      /\ \A r \in Noters : /\ truth[r][s].count \in Nat /\ truth[r][s].bytes \in Nat
                           /\ f[r] = IF r \in H THEN truth[r][s].count ELSE 0
                           /\ p[r] = IF r \in H THEN truth[r][s].bytes ELSE 0
      /\ SumFunction(f) \in Nat /\ SumFunction(p) \in Nat
  BY <1>1, <1>3, CountsAre
<1>6. /\ g \in [Noters -> Nat] /\ q \in [Noters -> Nat]
      /\ \A r \in Noters : /\ g[r] = IF r \in H \cup {t} THEN truth[r][s].count ELSE 0
                           /\ q[r] = IF r \in H \cup {t} THEN truth[r][s].bytes ELSE 0
  BY <1>2, <1>4, CountsAre
<1>7. \A r \in Noters : r # t => g[r] = f[r] /\ q[r] = p[r]
  BY <1>5, <1>6
<1>8. SumFunction(g) = SumFunction(f) - f[t] + g[t]
  BY <1>5, <1>6, <1>7, SumMoves
<1>9. SumFunction(q) = SumFunction(p) - p[t] + q[t]
  BY <1>5, <1>6, <1>7, SumMoves
<1>10. f[t] = 0 /\ p[t] = 0 /\ g[t] = truth[t][s].count /\ q[t] = truth[t][s].bytes
  BY <1>5, <1>6
<1>. QED
  BY <1>1, <1>2, <1>3, <1>4, <1>5, <1>8, <1>9, <1>10

(* ... and which is no more than what all did.                                 *)
LEMMA NotedIs ==
    ASSUME TruthIs, NEW s \in Sites, NEW H
    PROVE  /\ NotedAt(s).count \in Nat /\ NotedAt(s).bytes \in Nat
           /\ SumFunction(Counts(s, H)) <= NotedAt(s).count
           /\ SumFunction(Lengths(s, H)) <= NotedAt(s).bytes
<1>1. PICK f : f = Counts(s, H)
  OBVIOUS
<1>2. PICK p : p = Lengths(s, H)
  OBVIOUS
<1>3. PICK g : g = [t \in Noters |-> truth[t][s].count]
  OBVIOUS
<1>4. PICK q : q = [t \in Noters |-> truth[t][s].bytes]
  OBVIOUS
<1>5. /\ IsFiniteSet(Noters) /\ f \in [Noters -> Nat] /\ p \in [Noters -> Nat]
      /\ \A r \in Noters : /\ truth[r][s].count \in Nat /\ truth[r][s].bytes \in Nat
                           /\ f[r] = IF r \in H THEN truth[r][s].count ELSE 0
                           /\ p[r] = IF r \in H THEN truth[r][s].bytes ELSE 0
  BY <1>1, <1>2, CountsAre
<1>6. g \in [Noters -> Nat] /\ q \in [Noters -> Nat]
  BY <1>3, <1>4, <1>5
<1>7. \A r \in Noters : f[r] <= g[r] /\ p[r] <= q[r]
  BY <1>3, <1>4, <1>5
<1>8. SumFunction(f) <= SumFunction(g) /\ SumFunction(p) <= SumFunction(q)
  BY <1>5, <1>6, <1>7, SumLess
<1>9. SumFunction(g) \in Nat /\ SumFunction(q) \in Nat
  BY <1>5, <1>6, SumType
<1>10. NotedAt(s).count = SumFunction(g) /\ NotedAt(s).bytes = SumFunction(q)
  BY <1>3, <1>4 DEF NotedAt
<1>. QED
  BY <1>1, <1>2, <1>8, <1>9, <1>10

BackedBy(e, H) == Backed(e, NotedBy(e.site, H))

(* What is backed by some threads, and an entry of another, are so together.  *)
LEMMA BackedByMore ==
    ASSUME TruthIs, NEW e \in Entries, e.site \in Sites, NEW f \in Entries, f.site = e.site,
           NEW H, NEW t \in Noters, t \notin H, BackedBy(e, H), Backed(f, truth[t][e.site])
    PROVE  BackedBy(Added(e, f), H \cup {t})
<1>1. PICK s \in Sites : s = e.site
  OBVIOUS
<1>2. PICK a : a = Added(e, f)
  OBVIOUS
<1>3. /\ a.site = s
      /\ a.count = e.count + f.count /\ a.bytes = e.bytes + f.bytes
      /\ a.over = e.over + f.over /\ a.overBytes = e.overBytes + f.overBytes
      /\ a.sized = e.sized + f.sized /\ a.sizedBytes = e.sizedBytes + f.sizedBytes
  BY <1>1, <1>2, AddedEntry
<1>4. PICK c, b : c = SumFunction(Counts(s, H)) /\ b = SumFunction(Lengths(s, H))
  OBVIOUS
<1>5. PICK c2, b2 : c2 = SumFunction(Counts(s, H \cup {t}))
                    /\ b2 = SumFunction(Lengths(s, H \cup {t}))
  OBVIOUS
<1>6. c \in Nat /\ b \in Nat /\ truth[t][s].count \in Nat /\ truth[t][s].bytes \in Nat
  BY <1>4, CountsAre
<1>7. c2 = c + truth[t][s].count /\ b2 = b + truth[t][s].bytes
  BY <1>4, <1>5, OneMoreNoter
<1>8. Backed(e, [count |-> c, bytes |-> b])
  BY <1>1, <1>4 DEF BackedBy, NotedBy
<1>9. /\ 0 < e.count - e.over /\ e.count - e.over <= c /\ e.bytes - e.overBytes <= b
      /\ e.sized <= e.count - e.over /\ e.sizedBytes <= e.bytes - e.overBytes
  BY <1>8 DEF Backed, Earned
<1>10. /\ 0 < f.count - f.over /\ f.count - f.over <= truth[t][s].count
       /\ f.bytes - f.overBytes <= truth[t][s].bytes
       /\ f.sized <= f.count - f.over /\ f.sizedBytes <= f.bytes - f.overBytes
  BY <1>1 DEF Backed, Earned
<1>11. /\ e.count \in Nat /\ e.bytes \in Nat /\ e.over \in Nat /\ e.overBytes \in Nat
       /\ e.sized \in Nat /\ e.sizedBytes \in Nat
       /\ f.count \in Nat /\ f.bytes \in Nat /\ f.over \in Nat /\ f.overBytes \in Nat
       /\ f.sized \in Nat /\ f.sizedBytes \in Nat
  BY EntryIs
<1>12. /\ 0 < a.count - a.over /\ a.count - a.over <= c2 /\ a.bytes - a.overBytes <= b2
       /\ a.sized <= a.count - a.over /\ a.sizedBytes <= a.bytes - a.overBytes
  BY <1>3, <1>6, <1>7, <1>9, <1>10, <1>11
<1>13. Backed(a, [count |-> c2, bytes |-> b2])
  BY <1>12 DEF Backed, Earned
<1>. QED
  BY <1>2, <1>3, <1>5, <1>13 DEF BackedBy, NotedBy

(* An entry of a row is backed by its thread.                                 *)
LEMMA BackedByOne ==
    ASSUME TruthIs, NEW e \in Entries, e.site \in Sites,
           NEW t \in Noters, Backed(e, truth[t][e.site])
    PROVE  BackedBy(e, {t})
<1>1. PICK s \in Sites : s = e.site
  OBVIOUS
<1>2. PICK none : none = {}
  OBVIOUS
<1>3. PICK f, g : f = Counts(s, none) /\ g = Lengths(s, none)
  OBVIOUS
<1>4. /\ IsFiniteSet(Noters) /\ f \in [Noters -> Nat] /\ g \in [Noters -> Nat]
      /\ \A r \in Noters : f[r] = 0 /\ g[r] = 0
  BY <1>2, <1>3, CountsAre
<1>5. SumFunction(f) = 0 /\ SumFunction(g) = 0
  BY <1>4, SumNothing
<1>6. none \cup {t} = {t} /\ t \notin none
  BY <1>2
<1>7. truth[t][s].count \in Nat /\ truth[t][s].bytes \in Nat
  BY CountsAre
<1>8. /\ SumFunction(Counts(s, {t})) = truth[t][s].count
      /\ SumFunction(Lengths(s, {t})) = truth[t][s].bytes
  BY <1>3, <1>5, <1>6, <1>7, OneMoreNoter
<1>. QED
  BY <1>1, <1>8 DEF BackedBy, NotedBy, Backed

(* What some threads back, all do.                                            *)
LEMMA BackedByAll ==
    ASSUME TruthIs, NEW e \in Entries, e.site \in Sites, NEW H, BackedBy(e, H)
    PROVE  Backed(e, NotedAt(e.site))
<1>1. PICK s \in Sites : s = e.site
  OBVIOUS
<1>2. PICK c, b : c = SumFunction(Counts(s, H)) /\ b = SumFunction(Lengths(s, H))
  OBVIOUS
<1>3. /\ c \in Nat /\ b \in Nat /\ NotedAt(s).count \in Nat /\ NotedAt(s).bytes \in Nat
      /\ c <= NotedAt(s).count /\ b <= NotedAt(s).bytes
  BY <1>2, CountsAre, NotedIs
<1>4. Backed(e, [count |-> c, bytes |-> b])
  BY <1>1, <1>2 DEF BackedBy, NotedBy
<1>5. /\ 0 < Earned(e) /\ Earned(e) <= c /\ e.bytes - e.overBytes <= b
      /\ e.sized <= Earned(e) /\ e.sizedBytes <= e.bytes - e.overBytes
  BY <1>4 DEF Backed
<1>6. Earned(e) \in Int /\ e.bytes - e.overBytes \in Int
  BY EntryIs
<1>. QED
  BY <1>1, <1>3, <1>5, <1>6 DEF Backed

-----------------------------------------------------------------------------
(* The merged list, when some of the entries have been looked at: a site is in  *)
(* it once, and what it is said to have earned is of threads looked at.         *)
MergeFits(list, all, own, k) ==
    /\ list \in Seq(Entries) /\ \A a \in DOMAIN list : list[a].site \in Sites
    /\ \A a, b \in DOMAIN list : list[a].site = list[b].site => a = b
    /\ \A a \in DOMAIN list :
          \E H \in SUBSET Noters :
             /\ BackedBy(list[a], H)
             /\ \A t \in H : \E j \in 1 .. k : own[j] = t /\ all[j].site = list[a].site

RowsAreBacked ==
    \A t \in Noters : \A i \in SiteSlots :
        LET e == entries[t][i] IN e.site # Nobody => Backed(e, truth[t][e.site])

(* The merge goes on by one entry.                                            *)
LEMMA MergeStep ==
    ASSUME TruthIs, RowsAreWhole, RowsAreBacked,
           NEW all, NEW own, Owned(all, own, Noters), NEW k \in 1 .. Len(all),
           NEW list, MergeFits(list, all, own, k - 1),
           NEW r, MergedInto(list, all[k], r)
    PROVE  MergeFits(r, all, own, k)
<1>1. all \in Seq(Entries) /\ Len(all) \in Nat
  BY DEF Owned
<1>2. PICK e : e = all[k]
  OBVIOUS
<1>3. PICK t : t = own[k]
  OBVIOUS
<1>4. e \in Entries /\ t \in Noters /\ \E i \in SiteSlots : e = entries[t][i]
  BY <1>1, <1>2, <1>3 DEF Owned
<1>5. e.site # Nobody => e.site \in Sites /\ Backed(e, truth[t][e.site])
  BY <1>4, EntryIs DEF RowsAreBacked
<1>6. list \in Seq(Entries) /\ \A a \in DOMAIN list : list[a].site \in Sites /\ list[a] \in Entries
  BY DEF MergeFits
<1>7. /\ r \in Seq(Entries)
      /\ \A a \in DOMAIN r :
            \/ a \in DOMAIN list /\ r[a] = list[a]
            \/ a \in DOMAIN list /\ list[a].site = e.site /\ e.site # Nobody
               /\ r[a] = Added(list[a], e)
            \/ r[a] = e /\ e.site # Nobody /\ \A j \in DOMAIN list : list[j].site # e.site
      /\ \A a, b \in DOMAIN r : a # b => \/ a \in DOMAIN list /\ r[a].site = list[a].site
                                         \/ b \in DOMAIN list /\ r[b].site = list[b].site
  BY <1>2, <1>4, <1>6, PlacesOfMerge
<1>8. \A a \in DOMAIN r : r[a].site = e.site \/ (a \in DOMAIN list /\ r[a].site = list[a].site)
  <2>1. \A a \in DOMAIN list : Added(list[a], e).site = list[a].site
    BY <1>4, <1>6, AddedEntry
  <2>. QED
    BY <1>7, <2>1
<1>9. \A a \in DOMAIN r : r[a].site \in Sites
  <2>1. \A a \in DOMAIN list : Added(list[a], e).site = list[a].site
    BY <1>4, <1>6, AddedEntry
  <2>. QED
    BY <1>5, <1>6, <1>7, <2>1
<1>10. ASSUME NEW a \in DOMAIN r, NEW b \in DOMAIN r, r[a].site = r[b].site, a # b
       PROVE  FALSE
  <2>1. ASSUME NEW x \in DOMAIN r, NEW y \in DOMAIN r, x # y, r[x].site = r[y].site,
               x \in DOMAIN list, r[x].site = list[x].site
        PROVE  FALSE
    <3>1. CASE y \in DOMAIN list /\ r[y].site = list[y].site
      BY <3>1, <2>1 DEF MergeFits
    <3>2. CASE ~(y \in DOMAIN list /\ r[y].site = list[y].site)
      <4>1. \A j \in DOMAIN list : Added(list[j], e).site = list[j].site
        BY <1>4, <1>6, AddedEntry
      <4>2. r[y] = e /\ \A j \in DOMAIN list : list[j].site # e.site
        BY <3>2, <4>1, <2>1, <1>7
      <4>. QED
        BY <4>2, <2>1
    <3>. QED
      BY <3>1, <3>2
  <2>. QED
    BY <2>1, <1>7, <1>10
<1>11. ASSUME NEW a \in DOMAIN r
       PROVE  \E H \in SUBSET Noters :
                 /\ BackedBy(r[a], H)
                 /\ \A h \in H : \E j \in 1 .. k : own[j] = h /\ all[j].site = r[a].site
  <2>0. /\ k \in Nat /\ k - 1 \in Nat /\ 1 .. k - 1 \subseteq 1 .. k
        /\ k \in 1 .. k /\ k \notin 1 .. k - 1
    BY <1>1
  <2>1. ASSUME a \in DOMAIN list
        PROVE  \E H \in SUBSET Noters :
                  /\ BackedBy(list[a], H)
                  /\ \A h \in H : \E j \in 1 .. k - 1 : own[j] = h /\ all[j].site = list[a].site
    BY <2>1 DEF MergeFits
  <2>2. CASE a \in DOMAIN list /\ r[a] = list[a]
    BY <2>0, <2>1, <2>2
  <2>3. CASE a \in DOMAIN list /\ list[a].site = e.site /\ e.site # Nobody
             /\ r[a] = Added(list[a], e)
    <3>1. PICK H \in SUBSET Noters :
              /\ BackedBy(list[a], H)
              /\ \A h \in H : \E j \in 1 .. k - 1 : own[j] = h /\ all[j].site = list[a].site
      BY <2>1, <2>3
    <3>2. PICK x \in Entries : x = list[a]
      BY <2>3, <1>6
    <3>3. ASSUME t \in H PROVE FALSE
      <4>1. PICK j \in 1 .. k - 1 : own[j] = t /\ all[j].site = e.site
        BY <3>1, <3>3, <2>3
      <4>2. j \in 1 .. Len(all)
        BY <1>1
      <4>3. j = k
        BY <4>1, <4>2, <2>3, <1>2, <1>3 DEF Owned
      <4>. QED
        BY <4>3, <2>0
    <3>4. x.site = e.site /\ x.site \in Sites /\ BackedBy(x, H) /\ Backed(e, truth[t][x.site])
      BY <3>1, <3>2, <2>3, <1>5
    <3>5. BackedBy(Added(x, e), H \cup {t}) /\ Added(x, e).site = x.site
      BY <3>3, <3>4, <1>4, BackedByMore, AddedEntry
    <3>6. PICK G : G = H \cup {t}
      OBVIOUS
    <3>7. G \in SUBSET Noters /\ BackedBy(r[a], G) /\ r[a].site = x.site
      BY <3>2, <3>5, <3>6, <2>3, <1>4
    <3>8. ASSUME NEW h \in G PROVE \E j \in 1 .. k : own[j] = h /\ all[j].site = r[a].site
      <4>1. CASE h \in H
        BY <4>1, <3>1, <3>2, <3>7, <2>0
      <4>2. CASE h = t
        BY <4>2, <3>4, <3>7, <2>0, <1>2, <1>3
      <4>. QED
        BY <4>1, <4>2, <3>6
    <3>. QED
      BY <3>7, <3>8
  <2>4. CASE r[a] = e /\ e.site # Nobody
    <3>1. BackedBy(e, {t})
      BY <2>4, <1>4, <1>5, BackedByOne
    <3>2. PICK G : G = {t}
      OBVIOUS
    <3>3. G \in SUBSET Noters /\ BackedBy(r[a], G)
      BY <3>1, <3>2, <2>4, <1>4
    <3>4. \A h \in G : \E j \in 1 .. k : own[j] = h /\ all[j].site = r[a].site
      BY <3>2, <2>0, <2>4, <1>2, <1>3
    <3>. QED
      BY <3>3, <3>4
  <2>. QED
    BY <2>2, <2>3, <2>4, <1>7
<1>. QED
  BY <1>7, <1>9, <1>10, <1>11 DEF MergeFits

-----------------------------------------------------------------------------
(* The merge, entry by entry.                                                   *)
Merging(seq, max, g) ==
    [s \in SUBSET DOMAIN seq |->
        IF s = {} THEN <<>> ELSE Merged(g[s \ {Max(s)}], seq[Max(s)], max)]

MergedAll(seq, max) == FoldLeft(LAMBDA list, e : Merged(list, e, max), <<>>, seq)

(* The merge unfolds into its steps, ...                                      *)
LEMMA MergeUnfolds ==
    ASSUME NEW seq, NEW max, NEW h, h = Merging(seq, max, h)
    PROVE  \E g : g = Merging(seq, max, g) /\ MergedAll(seq, max) = g[DOMAIN seq]
BY Zenon DEF MergedAll, FoldLeft, MapThenFoldSet, Merging

(* ... which are as many as there are entries ...                             *)
LEMMA MergeFolds ==
    ASSUME NEW seq \in Seq(Entries), NEW max \in Nat \ {0}
    PROVE  \E acc : /\ acc[0] = <<>> /\ MergedAll(seq, max) = acc[Len(seq)]
                    /\ \A k \in 1 .. Len(seq) : acc[k] = Merged(acc[k - 1], seq[k], max)
<1>1. PICK n \in Nat : n = Len(seq)
  OBVIOUS
<1>2. PICK F : F = [p \in (1 .. n) \X Seq(Entries) |-> Merged(p[2], seq[p[1]], max)]
  OBVIOUS
<1>3. /\ F \in [(1 .. n) \X Seq(Entries) -> Seq(Entries)]
      /\ \A k \in 1 .. n : \A list \in Seq(Entries) : F[<<k, list>>] = Merged(list, seq[k], max)
  <2>1. ASSUME NEW k \in 1 .. n, NEW list \in Seq(Entries)
        PROVE  Merged(list, seq[k], max) \in Seq(Entries)
    <3>1. PICK e \in Entries : e = seq[k]
      BY <1>1
    <3>2. PICK r : r = Merged(list, e, max)
      OBVIOUS
    <3>3. MergedInto(list, e, r)
      BY <3>2, MergedIs
    <3>. QED
      BY <3>1, <3>2, <3>3, PlacesOfMerge
  <2>. QED
    BY <2>1, <1>2
<1>4. <<>> \in Seq(Entries)
  OBVIOUS
<1>5. PICK h \in [SUBSET (1 .. n) -> Seq(Entries)] :
          \A u \in SUBSET (1 .. n) :
              h[u] = IF u = {} THEN <<>> ELSE F[<<Max(u), h[u \ {Max(u)}]>>]
  <2>1. PICK h \in [SUBSET (1 .. n) -> Seq(Entries)] : Stepping(h, n, <<>>, F)
    BY <1>3, <1>4, FoldSteps
  <2>. QED
    BY <2>1 DEF Stepping
<1>6. DOMAIN seq = 1 .. n
  BY <1>1
<1>7. h = Merging(seq, max, h)
  <2>1. ASSUME NEW u \in SUBSET (1 .. n)
        PROVE  h[u] = IF u = {} THEN <<>> ELSE Merged(h[u \ {Max(u)}], seq[Max(u)], max)
    <3>1. CASE u = {}
      BY <3>1, <1>5
    <3>2. CASE u # {}
      <4>1. u \subseteq 0 .. n
        OBVIOUS
      <4>2. PICK m : m = Max(u)
        OBVIOUS
      <4>3. m \in 1 .. n /\ u \ {m} \in SUBSET (1 .. n)
        BY <4>1, <4>2, <3>2, MaxIs
      <4>4. h[u] = F[<<m, h[u \ {m}]>>]
        BY <4>2, <3>2, <1>5
      <4>5. h[u] = Merged(h[u \ {m}], seq[m], max)
        BY <4>3, <4>4, <1>3
      <4>. QED
        BY <4>2, <4>5, <3>2
    <3>. QED
      BY <3>1, <3>2
  <2>2. h = [u \in SUBSET (1 .. n) |-> h[u]]
    OBVIOUS
  <2>. QED
    BY <2>1, <2>2, <1>6, Zenon DEF Merging
<1>8. PICK g : g = Merging(seq, max, g) /\ MergedAll(seq, max) = g[DOMAIN seq]
  BY <1>7, MergeUnfolds
<1>9. \A u \in SUBSET (1 .. n) :
          g[u] = IF u = {} THEN <<>> ELSE Merged(g[u \ {Max(u)}], seq[Max(u)], max)
  <2>1. g = [u \in SUBSET (1 .. n) |->
                 IF u = {} THEN <<>> ELSE Merged(g[u \ {Max(u)}], seq[Max(u)], max)]
    BY <1>6, <1>8, Zenon DEF Merging
  <2>. QED
    BY <2>1, Zenon
<1>10. PICK acc : acc = [k \in 0 .. n |-> g[1 .. k]]
  OBVIOUS
<1>11. acc[0] = <<>>
  <2>1. 0 \in 0 .. n /\ 1 .. 0 = {}
    OBVIOUS
  <2>2. acc[0] = g[1 .. 0]
    BY <2>1, <1>10
  <2>. QED
    BY <2>1, <2>2, <1>9
<1>12. acc[n] = MergedAll(seq, max)
  <2>1. n \in 0 .. n
    OBVIOUS
  <2>. QED
    BY <2>1, <1>6, <1>8, <1>10
<1>13. ASSUME NEW k \in 1 .. n PROVE acc[k] = Merged(acc[k - 1], seq[k], max)
  <2>1. /\ 1 .. k \in SUBSET (1 .. n) /\ 1 .. k # {} /\ Max(1 .. k) = k
        /\ (1 .. k) \ {Max(1 .. k)} = 1 .. (k - 1)
    BY PrefixSteps
  <2>2. k \in 0 .. n /\ k - 1 \in 0 .. n
    OBVIOUS
  <2>3. g[1 .. k] = Merged(g[1 .. (k - 1)], seq[k], max)
    BY <2>1, <1>9
  <2>. QED
    BY <2>2, <2>3, <1>10
<1>. QED
  BY <1>1, <1>11, <1>12, <1>13

(* ... and leave a list that fits.                                            *)
LEMMA MergeIsFit ==
    ASSUME TruthIs, RowsAreWhole, RowsAreBacked, NEW max \in Nat \ {0}
    PROVE  \E own : MergeFits(MergedAll(AllEntries, max), AllEntries, own, Len(AllEntries))
<1>1. PICK all : all = AllEntries
  OBVIOUS
<1>2. PICK own : Owned(all, own, Noters)
  BY <1>1, AllOwned
<1>3. all \in Seq(Entries)
  BY <1>2 DEF Owned
<1>4. PICK n \in Nat : n = Len(all)
  BY <1>3
<1>5. PICK acc : /\ acc[0] = <<>> /\ MergedAll(all, max) = acc[n]
                 /\ \A k \in 1 .. n : acc[k] = Merged(acc[k - 1], all[k], max)
  BY <1>3, <1>4, MergeFolds
<1>6. PICK T : T = {k \in 0 .. n : ~MergeFits(acc[k], all, own, k)}
  OBVIOUS
<1>7. ASSUME T # {} PROVE FALSE
  <2>1. PICK k \in T : \A j \in T : k <= j
    <3>1. T \subseteq Nat
      BY <1>6
    <3>. QED
      BY <3>1, <1>7, LeastOf
  <2>2. k \in 0 .. n /\ ~MergeFits(acc[k], all, own, k)
    BY <1>6
  <2>3. CASE k = 0
    <3>1. acc[k] = <<>>
      BY <2>3, <1>5
    <3>2. MergeFits(<<>>, all, own, 0)
      BY DEF MergeFits
    <3>. QED
      BY <3>1, <3>2, <2>2, <2>3
  <2>4. CASE k # 0
    <3>1. k \in 1 .. n /\ k - 1 \in 0 .. n /\ k - 1 \notin T
      BY <2>1, <2>2, <2>4, <1>6
    <3>2. PICK list : list = acc[k - 1]
      OBVIOUS
    <3>3. MergeFits(list, all, own, k - 1)
      BY <3>1, <3>2, <1>6
    <3>4. PICK r : r = Merged(list, all[k], max)
      OBVIOUS
    <3>5. acc[k] = r
      BY <3>1, <3>2, <3>4, <1>5
    <3>6. list \in Seq(Entries) /\ all[k] \in Entries
      BY <3>1, <3>3, <1>3, <1>4 DEF MergeFits
    <3>7. MergedInto(list, all[k], r)
      BY <3>4, <3>6, MergedIs
    <3>8. MergeFits(r, all, own, k)
      BY <3>1, <3>3, <3>7, <1>2, <1>4, MergeStep
    <3>. QED
      BY <3>5, <3>8, <2>2
  <2>. QED
    BY <2>3, <2>4
<1>8. MergeFits(acc[n], all, own, n)
  BY <1>6, <1>7
<1>. QED
  BY <1>1, <1>4, <1>5, <1>8

-----------------------------------------------------------------------------
(* The sort, entry by entry: in order, and of those there were.                 *)
Sorting(seq, g) ==
    [s \in SUBSET DOMAIN seq |->
        IF s = {} THEN <<>> ELSE Inserted(g[s \ {Max(s)}], seq[Max(s)])]

(* The sort unfolds into its steps.                                           *)
LEMMA SortUnfolds ==
    ASSUME NEW seq, NEW h, h = Sorting(seq, h)
    PROVE  \E g : g = Sorting(seq, g) /\ FoldLeft(Inserted, <<>>, seq) = g[DOMAIN seq]
BY Zenon DEF FoldLeft, MapThenFoldSet, Sorting

InsertedType(list, e) == Inserted(list, e) \in Seq(Entries)

(* Inserted gives a list one longer.                                          *)
LEMMA InsertedFits ==
    ASSUME NEW list \in Seq(Entries), NEW e \in Entries
    PROVE  InsertedType(list, e)
<1>1. PICK n \in Nat : n = Len(list)
  OBVIOUS
<1>2. PICK before : before = {k \in DOMAIN list : Earned(list[k]) >= Earned(e)}
  OBVIOUS
<1>3. PICK i : i = IF before = {} THEN 1 ELSE Max(before) + 1
  OBVIOUS
<1>4. before \subseteq 0 .. n
  BY <1>1, <1>2
<1>5. i \in 1 .. n + 1
  <2>1. CASE before = {}
    BY <2>1, <1>3
  <2>2. CASE before # {}
    <3>1. Max(before) \in 0 .. n
      BY <2>2, <1>4, MaxIs
    <3>. QED
      BY <3>1, <2>2, <1>3
  <2>. QED
    BY <2>1, <2>2
<1>6. Inserted(list, e) = InsertAt(list, i, e)
  BY <1>2, <1>3 DEF Inserted
<1>7. PICK a : a = SubSeq(list, 1, i - 1)
  OBVIOUS
<1>8. PICK b : b = SubSeq(list, i, Len(list))
  OBVIOUS
<1>9. a \in Seq(Entries)
  <2>1. i - 1 \in Int /\ \A k \in 1 .. i - 1 : list[k] \in Entries
    BY <1>1, <1>5
  <2>. QED
    BY <2>1, <1>7, SubSeqProperties
<1>10. b \in Seq(Entries)
  <2>1. i \in Int /\ \A k \in i .. n : list[k] \in Entries
    BY <1>1, <1>5
  <2>. QED
    BY <2>1, <1>1, <1>8, SubSeqProperties
<1>11. PICK x : x = a \o <<e>>
  OBVIOUS
<1>12. x \in Seq(Entries)
  BY <1>9, <1>11
<1>13. InsertAt(list, i, e) = x \o b
  BY <1>7, <1>8, <1>11 DEF InsertAt
<1>. QED
  BY <1>6, <1>10, <1>12, <1>13 DEF InsertedType

SortFits(list, seq, k) ==
    /\ list \in Seq(Entries) /\ InOrder(list)
    /\ \A a, b \in DOMAIN list : list[a].site = list[b].site => a = b
    /\ \A a \in DOMAIN list : \E j \in 1 .. k : list[a] = seq[j]

(* The sort goes on by one entry.                                             *)
LEMMA SortStep ==
    ASSUME NEW seq \in Seq(Entries), NEW k \in 1 .. Len(seq),
           \A i, j \in DOMAIN seq : seq[i].site = seq[j].site => i = j,
           NEW list, SortFits(list, seq, k - 1)
    PROVE  SortFits(Inserted(list, seq[k]), seq, k)
<1>1. PICK e \in Entries : e = seq[k]
  OBVIOUS
<1>2. list \in Seq(Entries) /\ InOrder(list)
  BY DEF SortFits
<1>3. PICK n \in Nat : n = Len(list)
  BY <1>2
<1>4. PICK r : r = Inserted(list, e)
  OBVIOUS
<1>5. PICK m \in 0 .. n :
         /\ r \in Seq(Entries) /\ Len(r) = n + 1
         /\ \A i \in 1 .. m : r[i] = list[i] /\ Earned(list[i]) >= Earned(e)
         /\ r[m + 1] = e
         /\ \A i \in m + 2 .. n + 1 : r[i] = list[i - 1] /\ Earned(list[i - 1]) < Earned(e)
  <2>1. HasPlace(list, e, r)
    BY <1>2, <1>4, InsertedIs
  <2>. QED
    BY <2>1, <1>3 DEF HasPlace
<1>6. Earned(e) \in Int /\ \A i \in 1 .. n : Earned(list[i]) \in Int
  BY <1>2, <1>3, EntryIs
<1>7. \A i \in 1 .. n : list[i].site # e.site /\ \E j \in 1 .. k : list[i] = seq[j]
  <2>1. SUFFICES ASSUME NEW i \in 1 .. n
                 PROVE  list[i].site # e.site /\ \E j \in 1 .. k : list[i] = seq[j]
    OBVIOUS
  <2>2. PICK j \in 1 .. k - 1 : list[i] = seq[j]
    BY <1>2, <1>3 DEF SortFits
  <2>3. j \in 1 .. k /\ j # k /\ j \in DOMAIN seq /\ k \in DOMAIN seq
    OBVIOUS
  <2>. QED
    BY <2>2, <2>3, <1>1
<1>8. \A a \in DOMAIN r :
          \/ a \in 1 .. m /\ a \in 1 .. n /\ r[a] = list[a] /\ Earned(list[a]) >= Earned(e)
          \/ a = m + 1 /\ r[a] = e
          \/ /\ a \in m + 2 .. n + 1 /\ a - 1 \in 1 .. n /\ r[a] = list[a - 1]
             /\ Earned(list[a - 1]) < Earned(e)
  <2>1. SUFFICES ASSUME NEW a \in 1 .. n + 1
                 PROVE  \/ /\ a \in 1 .. m /\ a \in 1 .. n /\ r[a] = list[a]
                           /\ Earned(list[a]) >= Earned(e)
                        \/ a = m + 1 /\ r[a] = e
                        \/ /\ a \in m + 2 .. n + 1 /\ a - 1 \in 1 .. n /\ r[a] = list[a - 1]
                           /\ Earned(list[a - 1]) < Earned(e)
    BY <1>5
  <2>2. CASE a \in 1 .. m
    BY <2>2, <1>3, <1>5
  <2>3. CASE a = m + 1
    BY <2>3, <1>5
  <2>4. CASE a \in m + 2 .. n + 1
    <3>1. a - 1 \in 1 .. n
      BY <2>4, <1>3, <1>5
    <3>. QED
      BY <3>1, <2>4, <1>5
  <2>5. a \in 1 .. m \/ a = m + 1 \/ a \in m + 2 .. n + 1
    BY <1>3, <1>5
  <2>. QED
    BY <2>2, <2>3, <2>4, <2>5
<1>9. \A a \in DOMAIN r : \E j \in 1 .. k : r[a] = seq[j]
  <2>1. k \in 1 .. k
    OBVIOUS
  <2>. QED
    BY <2>1, <1>1, <1>7, <1>8
<1>10. ASSUME NEW a \in DOMAIN r, NEW b \in DOMAIN r, r[a].site = r[b].site PROVE a = b
  <2>1. \A i, j \in 1 .. n : list[i].site = list[j].site => i = j
    BY <1>2, <1>3 DEF SortFits
  <2>2. a \in Nat /\ b \in Nat /\ m \in Nat
    BY <1>3, <1>5
  <2>3. CASE a \in 1 .. m /\ a \in 1 .. n /\ r[a] = list[a]
    <3>1. CASE b \in 1 .. m /\ b \in 1 .. n /\ r[b] = list[b]
      BY <3>1, <2>3, <2>1, <1>10
    <3>2. CASE r[b] = e
      BY <3>2, <2>3, <1>7, <1>10
    <3>3. CASE b \in m + 2 .. n + 1 /\ b - 1 \in 1 .. n /\ r[b] = list[b - 1]
      <4>1. a = b - 1
        BY <3>3, <2>3, <2>1, <1>10
      <4>. QED
        BY <4>1, <3>3, <2>2, <2>3
    <3>. QED
      BY <3>1, <3>2, <3>3, <1>8
  <2>4. CASE a = m + 1 /\ r[a] = e
    <3>1. \A i \in 1 .. n : r[b] # list[i]
      BY <2>4, <1>7, <1>10
    <3>. QED
      BY <3>1, <2>4, <1>8
  <2>5. CASE a \in m + 2 .. n + 1 /\ a - 1 \in 1 .. n /\ r[a] = list[a - 1]
    <3>1. CASE b \in 1 .. m /\ b \in 1 .. n /\ r[b] = list[b]
      <4>1. b = a - 1
        BY <3>1, <2>5, <2>1, <1>10
      <4>. QED
        BY <4>1, <3>1, <2>2, <2>5
    <3>2. CASE r[b] = e
      BY <3>2, <2>5, <1>7, <1>10
    <3>3. CASE b \in m + 2 .. n + 1 /\ b - 1 \in 1 .. n /\ r[b] = list[b - 1]
      <4>1. a - 1 = b - 1
        BY <3>3, <2>5, <2>1, <1>10
      <4>. QED
        BY <4>1, <2>2
    <3>. QED
      BY <3>1, <3>2, <3>3, <1>8
  <2>. QED
    BY <2>3, <2>4, <2>5, <1>8
<1>11. ASSUME NEW a \in DOMAIN r, NEW b \in DOMAIN r, a < b
       PROVE  Earned(r[a]) >= Earned(r[b])
  <2>1. \A i, j \in 1 .. n : i < j => Earned(list[i]) >= Earned(list[j])
    BY <1>2, <1>3 DEF InOrder
  <2>2. a \in Nat /\ b \in Nat /\ m \in Nat /\ n \in Nat
    BY <1>3, <1>5
  <2>3. CASE a \in 1 .. m /\ a \in 1 .. n /\ r[a] = list[a] /\ Earned(list[a]) >= Earned(e)
    <3>1. CASE b \in 1 .. m /\ b \in 1 .. n /\ r[b] = list[b]
      BY <3>1, <2>3, <2>1, <1>11
    <3>2. CASE r[b] = e
      BY <3>2, <2>3
    <3>3. CASE b \in m + 2 .. n + 1 /\ b - 1 \in 1 .. n /\ r[b] = list[b - 1]
               /\ Earned(list[b - 1]) < Earned(e)
      <4>1. PICK j \in 1 .. n : j = b - 1
        BY <3>3
      <4>2. Earned(list[a]) \in Int /\ Earned(list[j]) \in Int
        BY <2>3, <1>6
      <4>. QED
        BY <4>1, <4>2, <3>3, <2>3, <1>6
    <3>. QED
      BY <3>1, <3>2, <3>3, <1>8
  <2>4. CASE a = m + 1 /\ r[a] = e
    <3>1. b \in m + 2 .. n + 1 /\ r[b] = list[b - 1] /\ Earned(list[b - 1]) < Earned(e)
      <4>1. ~(b \in 1 .. m) /\ b # m + 1
        BY <2>4, <2>2, <1>11
      <4>. QED
        BY <4>1, <1>8
    <3>2. PICK j \in 1 .. n : j = b - 1
      BY <3>1, <2>2
    <3>3. Earned(list[j]) \in Int
      BY <1>6
    <3>. QED
      BY <3>1, <3>2, <3>3, <2>4, <1>6
  <2>5. CASE a \in m + 2 .. n + 1 /\ a - 1 \in 1 .. n /\ r[a] = list[a - 1]
    <3>1. b \in m + 2 .. n + 1 /\ b - 1 \in 1 .. n /\ r[b] = list[b - 1]
      <4>1. ~(b \in 1 .. m) /\ b # m + 1
        BY <2>5, <2>2, <1>11
      <4>. QED
        BY <4>1, <1>8
    <3>2. PICK i, j : i = a - 1 /\ j = b - 1
      OBVIOUS
    <3>3. i \in 1 .. n /\ j \in 1 .. n /\ i < j
      BY <3>1, <3>2, <2>2, <2>5, <1>11
    <3>. QED
      BY <3>1, <3>2, <3>3, <2>1, <2>5
  <2>. QED
    BY <2>3, <2>4, <2>5, <1>8
<1>12. InOrder(r)
  BY <1>11 DEF InOrder
<1>. QED
  BY <1>1, <1>4, <1>5, <1>9, <1>10, <1>12 DEF SortFits

(* The sort leaves the list in order.                                         *)
LEMMA SortIsFit ==
    ASSUME NEW seq \in Seq(Entries), \A i, j \in DOMAIN seq : seq[i].site = seq[j].site => i = j
    PROVE  SortFits(FoldLeft(Inserted, <<>>, seq), seq, Len(seq))
<1>1. PICK n \in Nat : n = Len(seq)
  OBVIOUS
<1>2. PICK F : F = [p \in (1 .. n) \X Seq(Entries) |-> Inserted(p[2], seq[p[1]])]
  OBVIOUS
<1>3. /\ F \in [(1 .. n) \X Seq(Entries) -> Seq(Entries)]
      /\ \A k \in 1 .. n : \A list \in Seq(Entries) : F[<<k, list>>] = Inserted(list, seq[k])
  <2>1. ASSUME NEW k \in 1 .. n, NEW list \in Seq(Entries)
        PROVE  Inserted(list, seq[k]) \in Seq(Entries)
    <3>1. seq[k] \in Entries
      BY <1>1
    <3>. QED
      BY <3>1, InsertedFits DEF InsertedType
  <2>. QED
    BY <2>1, <1>2
<1>4. <<>> \in Seq(Entries)
  OBVIOUS
<1>5. PICK h \in [SUBSET (1 .. n) -> Seq(Entries)] :
          \A u \in SUBSET (1 .. n) :
              h[u] = IF u = {} THEN <<>> ELSE F[<<Max(u), h[u \ {Max(u)}]>>]
  <2>1. PICK h \in [SUBSET (1 .. n) -> Seq(Entries)] : Stepping(h, n, <<>>, F)
    BY <1>3, <1>4, FoldSteps
  <2>. QED
    BY <2>1 DEF Stepping
<1>6. DOMAIN seq = 1 .. n
  BY <1>1
<1>7. h = Sorting(seq, h)
  <2>1. ASSUME NEW u \in SUBSET (1 .. n)
        PROVE  h[u] = IF u = {} THEN <<>> ELSE Inserted(h[u \ {Max(u)}], seq[Max(u)])
    <3>1. CASE u = {}
      BY <3>1, <1>5
    <3>2. CASE u # {}
      <4>1. u \subseteq 0 .. n
        OBVIOUS
      <4>2. PICK m : m = Max(u)
        OBVIOUS
      <4>3. m \in 1 .. n /\ u \ {m} \in SUBSET (1 .. n)
        BY <4>1, <4>2, <3>2, MaxIs
      <4>4. h[u] = F[<<m, h[u \ {m}]>>]
        BY <4>2, <3>2, <1>5
      <4>5. h[u] = Inserted(h[u \ {m}], seq[m])
        BY <4>3, <4>4, <1>3
      <4>. QED
        BY <4>2, <4>5, <3>2
    <3>. QED
      BY <3>1, <3>2
  <2>2. h = [u \in SUBSET (1 .. n) |-> h[u]]
    OBVIOUS
  <2>. QED
    BY <2>1, <2>2, <1>6, Zenon DEF Sorting
<1>8. PICK g : g = Sorting(seq, g) /\ FoldLeft(Inserted, <<>>, seq) = g[DOMAIN seq]
  BY <1>7, SortUnfolds
<1>9. \A u \in SUBSET (1 .. n) :
          g[u] = IF u = {} THEN <<>> ELSE Inserted(g[u \ {Max(u)}], seq[Max(u)])
  <2>1. g = [u \in SUBSET (1 .. n) |->
                 IF u = {} THEN <<>> ELSE Inserted(g[u \ {Max(u)}], seq[Max(u)])]
    BY <1>6, <1>8, Zenon DEF Sorting
  <2>. QED
    BY <2>1, Zenon
<1>10. PICK T : T = {k \in 0 .. n : ~SortFits(g[1 .. k], seq, k)}
  OBVIOUS
<1>11. ASSUME T # {} PROVE FALSE
  <2>1. PICK k \in T : \A j \in T : k <= j
    <3>1. T \subseteq Nat
      BY <1>10
    <3>. QED
      BY <3>1, <1>11, LeastOf
  <2>2. k \in 0 .. n /\ ~SortFits(g[1 .. k], seq, k)
    BY <1>10
  <2>3. CASE k = 0
    <3>1. 1 .. k = {}
      BY <2>3
    <3>2. g[1 .. k] = <<>>
      BY <3>1, <1>9
    <3>3. SortFits(<<>>, seq, 0)
      BY DEF SortFits, InOrder
    <3>. QED
      BY <3>2, <3>3, <2>2, <2>3
  <2>4. CASE k # 0
    <3>1. k \in 1 .. n /\ k - 1 \in 0 .. n /\ k - 1 \notin T
      BY <2>1, <2>2, <2>4, <1>10
    <3>2. SortFits(g[1 .. k - 1], seq, k - 1)
      BY <3>1, <1>10
    <3>3. /\ 1 .. k \in SUBSET (1 .. n) /\ 1 .. k # {} /\ Max(1 .. k) = k
          /\ (1 .. k) \ {Max(1 .. k)} = 1 .. (k - 1)
      BY <3>1, PrefixSteps
    <3>4. g[1 .. k] = Inserted(g[1 .. k - 1], seq[k])
      BY <3>3, <1>9
    <3>5. SortFits(Inserted(g[1 .. k - 1], seq[k]), seq, k)
      BY <3>1, <3>2, <1>1, SortStep
    <3>. QED
      BY <3>4, <3>5, <2>2
  <2>. QED
    BY <2>3, <2>4
<1>12. SortFits(g[1 .. n], seq, n)
  BY <1>10, <1>11
<1>. QED
  BY <1>1, <1>6, <1>8, <1>12

(* The report of sites, in order, each once, and each with what it earned.      *)
LEMMA SnapshotIs ==
    ASSUME TruthIs, RowsAreWhole, RowsAreBacked, NEW max \in Nat \ {0}
    PROVE  LET list == Snapshot(max) IN
           /\ \A k \in DOMAIN list : Backed(list[k], NotedAt(list[k].site))
           /\ \A k \in DOMAIN list : \A j \in DOMAIN list :
                k < j => list[k].site # list[j].site /\ Earned(list[k]) >= Earned(list[j])
<1>1. PICK seq : seq = MergedAll(AllEntries, max)
  OBVIOUS
<1>2. PICK own : MergeFits(seq, AllEntries, own, Len(AllEntries))
  BY <1>1, MergeIsFit
<1>3. seq \in Seq(Entries) /\ \A i, j \in DOMAIN seq : seq[i].site = seq[j].site => i = j
  BY <1>2 DEF MergeFits
<1>4. PICK list : list = FoldLeft(Inserted, <<>>, seq)
  OBVIOUS
<1>5. SortFits(list, seq, Len(seq))
  BY <1>3, <1>4, SortIsFit
<1>6. Snapshot(max) = list
  BY <1>1, <1>4 DEF Snapshot, MergedAll
<1>7. \A k \in DOMAIN seq : Backed(seq[k], NotedAt(seq[k].site))
  <2>1. SUFFICES ASSUME NEW k \in DOMAIN seq PROVE Backed(seq[k], NotedAt(seq[k].site))
    OBVIOUS
  <2>2. seq[k] \in Entries /\ seq[k].site \in Sites
    BY <1>2, <1>3 DEF MergeFits
  <2>3. PICK H : BackedBy(seq[k], H)
    BY <1>2 DEF MergeFits
  <2>. QED
    BY <2>2, <2>3, BackedByAll
<1>8. \A k \in DOMAIN list : Backed(list[k], NotedAt(list[k].site))
  <2>1. \A k \in DOMAIN list : \E j \in DOMAIN seq : list[k] = seq[j]
    BY <1>3, <1>5 DEF SortFits
  <2>. QED
    BY <2>1, <1>7
<1>9. ASSUME NEW k \in DOMAIN list, NEW j \in DOMAIN list, k < j
      PROVE  list[k].site # list[j].site /\ Earned(list[k]) >= Earned(list[j])
  <2>1. Earned(list[k]) >= Earned(list[j])
    BY <1>5, <1>9 DEF SortFits, InOrder
  <2>2. k \in Nat /\ j \in Nat
    BY <1>5 DEF SortFits
  <2>3. list[k].site # list[j].site
    BY <2>2, <1>5, <1>9 DEF SortFits
  <2>. QED
    BY <2>1, <2>3
<1>. QED
  BY <1>6, <1>8, <1>9

-----------------------------------------------------------------------------
(* The window of a site.                                                        *)
LEMMA ProbesAre ==
    ASSUME NEW s \in Sites
    PROVE  /\ Window \in Nat /\ 1 \in 1 .. Window
           /\ \A k \in 1 .. Window : Probes(s)[k] \in SiteSlots /\ Probes(s)[k] \in Footprint(s)
           /\ \A i \in Footprint(s) : i \in SiteSlots /\ \E k \in 1 .. Window : Probes(s)[k] = i
           /\ NumSlots \notin SiteSlots
<1>1. NumSlots \in Nat /\ 1 <= NumSlots /\ Window \in Nat /\ 1 <= Window /\ Home[s] \in Nat
  BY SitesAssumption DEF SiteSlots
<1>2. \A k \in 1 .. Window : (Home[s] + k - 1) % NumSlots \in SiteSlots
  <2>1. SUFFICES ASSUME NEW k \in 1 .. Window
                 PROVE  (Home[s] + k - 1) % NumSlots \in SiteSlots
    OBVIOUS
  <2>2. PICK x \in Nat : x = Home[s] + k - 1
    BY <1>1
  <2>3. x % NumSlots \in 0 .. NumSlots - 1
    BY <1>1
  <2>. QED
    BY <2>2, <2>3 DEF SiteSlots
<1>3. \A k \in 1 .. Window : Probes(s)[k] \in SiteSlots
  BY <1>2 DEF Probes
<1>4. NumSlots \notin SiteSlots
  BY <1>1 DEF SiteSlots
<1>. QED
  BY <1>1, <1>3, <1>4 DEF Footprint

(* What is so of a row and of what its thread noted down: each entry is of a    *)
(* site of its own, in its window with no hole before it, and backed; and where *)
(* windows do not overlap in part a site that is not there any more was not     *)
(* noted down more often than any that is in its window.                        *)
RowPlaced(row) ==
    \A i \in SiteSlots : row[i].site # Nobody =>
        \E k \in 1 .. Window :
            /\ Probes(row[i].site)[k] = i
            /\ \A m \in 1 .. k - 1 : row[Probes(row[i].site)[m]].site # Nobody

RowHolds(row, tr) ==
    \A i \in SiteSlots : row[i].site # Nobody =>
        /\ Backed(row[i], tr[row[i].site])
        /\ KeepsTogether(row[i].site) => tr[row[i].site].count <= row[i].count

RowRemembers(row, tr) ==
    \A s \in Sites :
        KeepsTogether(s) /\ 0 < tr[s].count /\ (\A i \in SiteSlots : row[i].site # s) =>
            \A k \in 1 .. Window : row[Probes(s)[k]].site # Nobody
                                   /\ tr[s].count <= row[Probes(s)[k]].count

RowFits(row, tr) ==
    /\ row \in [SiteSlots -> Entries] /\ tr \in [Sites -> [count : Nat, bytes : Nat]]
    /\ \A i, j \in SiteSlots : row[i].site = row[j].site /\ row[i].site # Nobody => i = j
    /\ \A i \in SiteSlots : row[i].site = Nobody => row[i] = Empty
    /\ RowPlaced(row) /\ RowHolds(row, tr) /\ RowRemembers(row, tr)

(* What a row that fits has in a place.                                       *)
LEMMA RowEntry ==
    ASSUME NEW row, NEW tr, RowFits(row, tr), NEW i \in SiteSlots
    PROVE  /\ row[i] \in Entries
           /\ row[i].site # Nobody => row[i].site \in Sites /\ i \in Footprint(row[i].site)
<1>1. row[i] \in Entries
  BY DEF RowFits
<1>2. ASSUME row[i].site # Nobody PROVE row[i].site \in Sites /\ i \in Footprint(row[i].site)
  <2>1. row[i].site \in Sites
    BY <1>1, <1>2, EntryIs
  <2>2. \E k \in 1 .. Window : Probes(row[i].site)[k] = i
    BY <1>2 DEF RowFits, RowPlaced
  <2>. QED
    BY <2>1, <2>2, ProbesAre
<1>. QED
  BY <1>1, <1>2

(* Where a site is looked for: it is there, or there is a place, or neither.    *)
LEMMA SlotIs ==
    ASSUME NEW row, NEW tr, RowFits(row, tr), NEW s \in Sites
    PROVE  LET i == Slot(row, s) IN
           \/ i \in SiteSlots /\ row[i].site = s
           \/ /\ i \in SiteSlots /\ row[i].site = Nobody
              /\ \A j \in SiteSlots : row[j].site # s
              /\ \E k \in 1 .. Window : /\ Probes(s)[k] = i
                                        /\ \A m \in 1 .. k - 1 : row[Probes(s)[m]].site # Nobody
           \/ /\ i = NumSlots
              /\ \A k \in 1 .. Window : row[Probes(s)[k]].site # Nobody
              /\ \A j \in SiteSlots : row[j].site # s
<1>1. PICK good : good = {i \in 1 .. Window : row[Probes(s)[i]].site \in {s, Nobody}}
  OBVIOUS
<1>2. Slot(row, s) = IF good = {} THEN NumSlots ELSE Probes(s)[Min(good)]
  BY <1>1 DEF Slot
<1>3. Nobody # s /\ \A k \in 1 .. Window : Probes(s)[k] \in SiteSlots
  BY SitesAssumption, ProbesAre
<1>4. ASSUME NEW j \in SiteSlots, row[j].site = s
      PROVE  \E k \in 1 .. Window : /\ Probes(s)[k] = j
                                    /\ \A m \in 1 .. k - 1 : row[Probes(s)[m]].site # Nobody
  BY <1>3, <1>4 DEF RowFits, RowPlaced
<1>5. CASE good = {}
  <2>1. \A k \in 1 .. Window : row[Probes(s)[k]].site \notin {s, Nobody}
    BY <1>1, <1>5
  <2>2. \A j \in SiteSlots : row[j].site # s
    BY <2>1, <1>4
  <2>. QED
    BY <2>1, <2>2, <1>2, <1>5
<1>6. CASE good # {}
  <2>1. good \subseteq Nat
    BY <1>1
  <2>2. PICK k : k = Min(good)
    OBVIOUS
  <2>3. k \in good /\ \A m \in good : k <= m
    BY <2>1, <2>2, <1>6, MinIs
  <2>4. k \in 1 .. Window /\ Slot(row, s) = Probes(s)[k] /\ Probes(s)[k] \in SiteSlots
        /\ row[Probes(s)[k]].site \in {s, Nobody}
    BY <2>2, <2>3, <1>1, <1>2, <1>3, <1>6
  <2>5. ASSUME NEW m \in 1 .. k - 1 PROVE row[Probes(s)[m]].site # Nobody
    <3>1. m \in 1 .. Window /\ m < k /\ Window \in Nat
      BY <2>4, ProbesAre
    <3>2. m \notin good
      BY <2>3, <2>4, <3>1
    <3>. QED
      BY <3>1, <3>2, <1>1
  <2>6. CASE row[Probes(s)[k]].site = s
    BY <2>4, <2>6
  <2>7. CASE row[Probes(s)[k]].site = Nobody
    <3>1. ASSUME NEW j \in SiteSlots, row[j].site = s PROVE FALSE
      <4>1. PICK l \in 1 .. Window :
                /\ Probes(s)[l] = j /\ \A m \in 1 .. l - 1 : row[Probes(s)[m]].site # Nobody
        BY <3>1, <1>4
      <4>2. l \in good
        BY <4>1, <3>1, <1>1
      <4>3. k <= l /\ k \in Nat /\ l \in Nat /\ 1 <= k
        BY <4>2, <2>3, <2>4
      <4>4. CASE k = l
        BY <4>1, <4>4, <3>1, <2>7, <1>3
      <4>5. CASE k # l
        <5>1. k \in 1 .. l - 1
          BY <4>3, <4>5
        <5>. QED
          BY <5>1, <4>1, <2>7
      <4>. QED
        BY <4>4, <4>5
    <3>. QED
      BY <3>1, <2>4, <2>5, <2>7
  <2>. QED
    BY <2>4, <2>6, <2>7
<1>. QED
  BY <1>5, <1>6

(* The weakest is in the window, and nobody's there has less.                 *)
LEMMA WeakestIs ==
    ASSUME NEW row, NEW tr, RowFits(row, tr), NEW s \in Sites
    PROVE  LET w == Weakest(row, s) IN
           /\ w \in SiteSlots /\ \E k \in 1 .. Window : Probes(s)[k] = w
           /\ \A k \in 1 .. Window : row[w].count <= row[Probes(s)[k]].count
<1>1. Window \in Nat /\ 1 \in 1 .. Window /\ \A k \in 1 .. Window : Probes(s)[k] \in SiteSlots
  BY ProbesAre
<1>2. \A k \in 1 .. Window : row[Probes(s)[k]].count \in Nat
  BY <1>1, RowEntry, EntryIs
<1>3. PICK C : C = {row[Probes(s)[k]].count : k \in 1 .. Window}
  OBVIOUS
<1>4. C \subseteq Nat /\ C # {}
  BY <1>1, <1>2, <1>3
<1>5. PICK c \in C : \A d \in C : c <= d
  BY <1>4, LeastOf
<1>6. PICK least : least = {i \in 1 .. Window : \A j \in 1 .. Window :
                              row[Probes(s)[i]].count <= row[Probes(s)[j]].count}
  OBVIOUS
<1>7. least # {} /\ least \subseteq Nat
  BY <1>3, <1>5, <1>6
<1>8. PICK k : k = Min(least)
  OBVIOUS
<1>9. k \in least
  BY <1>7, <1>8, MinIs
<1>10. Weakest(row, s) = Probes(s)[k]
  BY <1>6, <1>8 DEF Weakest
<1>. QED
  BY <1>1, <1>6, <1>9, <1>10

(* One more noted down, in a place of the window of its site.                   *)
NotedMore(tr, s, n) == [tr EXCEPT ![s] = [count |-> @.count + 1, bytes |-> @.bytes + n]]

(* One more is noted down of one site.                                        *)
LEMMA NotedMoreIs ==
    ASSUME NEW tr \in [Sites -> [count : Nat, bytes : Nat]], NEW s \in Sites, NEW n \in Nat
    PROVE  LET t2 == NotedMore(tr, s, n) IN
           /\ t2 \in [Sites -> [count : Nat, bytes : Nat]]
           /\ tr[s].count \in Nat /\ tr[s].bytes \in Nat
           /\ t2[s].count = tr[s].count + 1 /\ t2[s].bytes = tr[s].bytes + n
           /\ \A q \in Sites : q # s => t2[q] = tr[q]
<1>1. tr[s] \in [count : Nat, bytes : Nat]
  OBVIOUS
<1>2. PICK c : c = [count |-> tr[s].count + 1, bytes |-> tr[s].bytes + n]
  OBVIOUS
<1>3. c \in [count : Nat, bytes : Nat] /\ c.count = tr[s].count + 1 /\ c.bytes = tr[s].bytes + n
  BY <1>1, <1>2
<1>4. NotedMore(tr, s, n) = [tr EXCEPT ![s] = c]
  BY <1>2 DEF NotedMore
<1>. QED
  BY <1>1, <1>3, <1>4

(* A row takes an entry that is backed and has no less than was noted down.   *)
LEMMA RowTakes ==
    ASSUME NEW row, NEW tr, RowFits(row, tr), NEW s \in Sites, NEW n \in Nat,
           NEW i \in SiteSlots, NEW e \in Entries, e.site = s, e.count = row[i].count + 1,
           \E k \in 1 .. Window : /\ Probes(s)[k] = i
                                  /\ \A m \in 1 .. k - 1 : row[Probes(s)[m]].site # Nobody,
           \A j \in SiteSlots : row[j].site = s => j = i,
           row[i].site \notin {s, Nobody} =>
               \A k \in 1 .. Window : row[Probes(s)[k]].site # Nobody
                                      /\ row[i].count <= row[Probes(s)[k]].count,
           Backed(e, NotedMore(tr, s, n)[s]),
           KeepsTogether(s) => tr[s].count + 1 <= e.count
    PROVE  RowFits([row EXCEPT ![i] = e], NotedMore(tr, s, n))
<1>1. PICK new : new = [row EXCEPT ![i] = e]
  OBVIOUS
<1>2. PICK t2 : t2 = NotedMore(tr, s, n)
  OBVIOUS
<1>3. row \in [SiteSlots -> Entries] /\ tr \in [Sites -> [count : Nat, bytes : Nat]]
  BY DEF RowFits
<1>4. /\ t2 \in [Sites -> [count : Nat, bytes : Nat]]
      /\ t2[s].count = tr[s].count + 1 /\ \A q \in Sites : q # s => t2[q] = tr[q]
  BY <1>2, <1>3, NotedMoreIs
<1>5. /\ new \in [SiteSlots -> Entries] /\ new[i] = e
      /\ \A j \in SiteSlots : j # i => new[j] = row[j]
  BY <1>1, <1>3
<1>6. s # Nobody
  BY SitesAssumption
<1>7. \A j \in SiteSlots : row[j].site # Nobody => new[j].site # Nobody
  BY <1>5, <1>6
<1>8. \A j \in SiteSlots : new[j].site # Nobody => new[j].site \in Sites
  BY <1>5, EntryIs
<1>9. \A j, k \in SiteSlots : new[j].site = new[k].site /\ new[j].site # Nobody => j = k
  <2>1. \A j \in SiteSlots : j # i => new[j].site # s
    BY <1>5
  <2>2. ASSUME NEW j \in SiteSlots, NEW k \in SiteSlots,
               new[j].site = new[k].site, new[j].site # Nobody
        PROVE  j = k
    <3>1. CASE j = i \/ k = i
      BY <3>1, <2>1, <2>2, <1>5
    <3>2. CASE j # i /\ k # i
      <4>1. row[j].site = row[k].site /\ row[j].site # Nobody
        BY <3>2, <2>2, <1>5
      <4>. QED
        BY <4>1 DEF RowFits
    <3>. QED
      BY <3>1, <3>2
  <2>. QED
    BY <2>2
<1>10. \A j \in SiteSlots : new[j].site = Nobody => new[j] = Empty
  BY <1>5, <1>6 DEF RowFits
<1>11. RowPlaced(new)
  <2>1. SUFFICES ASSUME NEW j \in SiteSlots, new[j].site # Nobody
                 PROVE  \E k \in 1 .. Window :
                           /\ Probes(new[j].site)[k] = j
                           /\ \A m \in 1 .. k - 1 : new[Probes(new[j].site)[m]].site # Nobody
    BY DEF RowPlaced
  <2>2. PICK q \in Sites : q = new[j].site
    BY <2>1, <1>8
  <2>3. PICK k \in 1 .. Window : /\ Probes(q)[k] = j
                                 /\ \A m \in 1 .. k - 1 : row[Probes(q)[m]].site # Nobody
    <3>1. CASE j = i
      BY <3>1, <2>2, <1>5
    <3>2. CASE j # i
      <4>1. row[j].site = q /\ row[j].site # Nobody
        BY <3>2, <2>1, <2>2, <1>5
      <4>2. \E k \in 1 .. Window :
                /\ Probes(row[j].site)[k] = j
                /\ \A m \in 1 .. k - 1 : row[Probes(row[j].site)[m]].site # Nobody
        BY <4>1 DEF RowFits, RowPlaced
      <4>. QED
        BY <4>1, <4>2
    <3>. QED
      BY <3>1, <3>2
  <2>4. ASSUME NEW m \in 1 .. k - 1 PROVE new[Probes(q)[m]].site # Nobody
    <3>1. m \in 1 .. Window
      BY ProbesAre
    <3>2. Probes(q)[m] \in SiteSlots
      BY <3>1, ProbesAre
    <3>. QED
      BY <3>2, <2>3, <1>7
  <2>. QED
    BY <2>2, <2>3, <2>4
<1>12. RowHolds(new, t2)
  <2>1. SUFFICES ASSUME NEW j \in SiteSlots, new[j].site # Nobody
                 PROVE  /\ Backed(new[j], t2[new[j].site])
                        /\ KeepsTogether(new[j].site) => t2[new[j].site].count <= new[j].count
    BY DEF RowHolds
  <2>2. CASE j = i
    BY <2>2, <1>2, <1>4, <1>5
  <2>3. CASE j # i
    <3>1. new[j] = row[j] /\ row[j].site # s /\ row[j].site \in Sites
      BY <2>1, <2>3, <1>5, <1>8
    <3>2. t2[row[j].site] = tr[row[j].site]
      BY <3>1, <1>4
    <3>. QED
      BY <3>1, <3>2, <2>1 DEF RowFits, RowHolds
  <2>. QED
    BY <2>2, <2>3
<1>13. RowRemembers(new, t2)
  <2>1. SUFFICES ASSUME NEW q \in Sites, KeepsTogether(q), 0 < t2[q].count,
                        \A j \in SiteSlots : new[j].site # q,
                        NEW k \in 1 .. Window
                 PROVE  new[Probes(q)[k]].site # Nobody /\ t2[q].count <= new[Probes(q)[k]].count
    BY DEF RowRemembers
  <2>2. q # s /\ t2[q] = tr[q]
    BY <2>1, <1>4, <1>5
  <2>3. PICK p \in SiteSlots : p = Probes(q)[k]
    BY ProbesAre
  <2>4. row[p].site # Nobody /\ tr[q].count <= row[p].count
    <3>1. CASE \A j \in SiteSlots : row[j].site # q
      BY <3>1, <2>1, <2>2, <2>3 DEF RowFits, RowRemembers
    <3>2. CASE \E j \in SiteSlots : row[j].site = q
      <4>1. row[i].site = q
        BY <3>2, <2>1, <1>5
      <4>2. q # Nobody
        BY SitesAssumption
      <4>3. i \in Footprint(q) /\ i \in Footprint(s)
        BY <4>1, <4>2, RowEntry, ProbesAre
      <4>4. Footprint(s) = Footprint(q)
        BY <4>3, <2>1 DEF KeepsTogether
      <4>5. p \in Footprint(s)
        BY <4>4, <2>3, ProbesAre
      <4>6. PICK l \in 1 .. Window : Probes(s)[l] = p
        BY <4>5, ProbesAre
      <4>7. row[p].site # Nobody /\ row[i].count <= row[p].count
        BY <4>1, <4>2, <4>6, <2>2
      <4>8. tr[q].count <= row[i].count
        BY <4>1, <4>2, <2>1 DEF RowFits, RowHolds
      <4>9. row[i] \in Entries /\ row[p] \in Entries /\ tr[q] \in [count : Nat, bytes : Nat]
        BY <1>3
      <4>10. row[i].count \in Nat /\ row[p].count \in Nat /\ tr[q].count \in Nat
        BY <4>9, EntryIs
      <4>. QED
        BY <4>7, <4>8, <4>10
    <3>. QED
      BY <3>1, <3>2
  <2>5. row[p].count \in Nat /\ tr[q].count \in Nat
    <3>1. row[p] \in Entries /\ tr[q] \in [count : Nat, bytes : Nat]
      BY <1>3
    <3>. QED
      BY <3>1, EntryIs
  <2>6. new[p].site # Nobody /\ tr[q].count <= new[p].count
    <3>1. CASE p = i
      <4>1. new[p].count = row[p].count + 1 /\ new[p].site = s
        BY <3>1, <1>5
      <4>. QED
        BY <4>1, <2>4, <2>5, <1>6
    <3>2. CASE p # i
      BY <3>2, <2>4, <1>5
    <3>. QED
      BY <3>1, <3>2
  <2>. QED
    BY <2>2, <2>3, <2>6
<1>14. RowFits(new, t2)
  BY <1>4, <1>5, <1>9, <1>10, <1>11, <1>12, <1>13 DEF RowFits
<1>. QED
  BY <1>1, <1>2, <1>14

(* Note, on a row that fits: it fits still, and one more is counted in it.      *)
RowAfter(row, s, n, has) ==
    IF Slot(row, s) # NumSlots
      THEN [row EXCEPT ![Slot(row, s)] = Counted(row[Slot(row, s)], s, n, has)]
      ELSE [row EXCEPT ![Weakest(row, s)] = TakenOver(row[Weakest(row, s)], s, n, has)]

RowCounts(row) == [i \in SiteSlots |-> row[i].count]

(* Counted: one more, nothing inherited.                                      *)
LEMMA CountedIs ==
    ASSUME NEW e \in Entries, NEW s \in Sites, NEW n \in Nat, NEW has
    PROVE  LET f == Counted(e, s, n, has) IN
           /\ f \in Entries /\ f.site = s /\ f.count = e.count + 1 /\ f.bytes = e.bytes + n
           /\ f.over = e.over /\ f.overBytes = e.overBytes
           /\ f.sized = e.sized + (IF "sizes" \in has THEN 1 ELSE 0)
           /\ f.sizedBytes = e.sizedBytes + (IF "bytes" \in has THEN n ELSE 0)
<1>1. PICK f : f = Counted(e, s, n, has)
  OBVIOUS
<1>2. DOMAIN e = {"site", "count", "bytes", "over", "overBytes", "sized", "sizedBytes"}
  BY DEF Entries
<1>3. f = [site |-> s, count |-> e.count + 1, bytes |-> e.bytes + n,
           over |-> e.over, overBytes |-> e.overBytes,
           sized |-> e.sized + (IF "sizes" \in has THEN 1 ELSE 0),
           sizedBytes |-> e.sizedBytes + (IF "bytes" \in has THEN n ELSE 0)]
  BY <1>1, <1>2 DEF Counted, Entries, Share
<1>4. f \in Entries
  BY <1>3, EntryIs DEF Entries
<1>. QED
  BY <1>1, <1>3, <1>4

(* TakenOver: one more, all that was there inherited.                         *)
LEMMA TakenOverIs ==
    ASSUME NEW e \in Entries, NEW s \in Sites, NEW n \in Nat, NEW has
    PROVE  LET f == TakenOver(e, s, n, has) IN
           /\ f \in Entries /\ f.site = s /\ f.count = e.count + 1 /\ f.bytes = e.bytes + n
           /\ f.over = e.count /\ f.overBytes = e.bytes
           /\ f.sized = (IF "sizes" \in has THEN 1 ELSE e.sized)
           /\ f.sizedBytes = (IF "bytes" \in has THEN n ELSE e.sizedBytes)
BY EntryIs DEF TakenOver, Entries

Sized(row, has) ==
    /\ "sizes" \notin has => \A i \in SiteSlots : row[i].sized = 0
    /\ "bytes" \notin has => \A i \in SiteSlots : row[i].sizedBytes = 0

(* record_alloc_site leaves a row that fits.                                  *)
LEMMA RowGoesOn ==
    ASSUME NEW row, NEW tr, RowFits(row, tr), NEW s \in Sites, NEW n \in Nat, NEW has,
           Sized(row, has)
    PROVE  LET new == RowAfter(row, s, n, has) IN
           /\ RowFits(new, NotedMore(tr, s, n)) /\ Sized(new, has)
           /\ SumFunction(RowCounts(new)) = SumFunction(RowCounts(row)) + 1
           /\ SumFunction(RowCounts(row)) \in Nat
<1>1. row \in [SiteSlots -> Entries] /\ tr \in [Sites -> [count : Nat, bytes : Nat]]
  BY DEF RowFits
<1>2. PICK t2 : t2 = NotedMore(tr, s, n)
  OBVIOUS
<1>3. /\ tr[s].count \in Nat /\ tr[s].bytes \in Nat
      /\ t2[s].count = tr[s].count + 1 /\ t2[s].bytes = tr[s].bytes + n
  BY <1>1, <1>2, NotedMoreIs
<1>4. s # Nobody
  BY SitesAssumption
<1>5. PICK new : new = RowAfter(row, s, n, has)
  OBVIOUS
<1>6. \E i \in SiteSlots : \E e \in Entries :
          /\ new = [row EXCEPT ![i] = e] /\ e.count = row[i].count + 1
          /\ "sizes" \notin has => e.sized = row[i].sized
          /\ "bytes" \notin has => e.sizedBytes = row[i].sizedBytes
          /\ RowFits(new, t2)
  <2>1. PICK i : i = Slot(row, s)
    OBVIOUS
  <2>2. \/ i \in SiteSlots /\ row[i].site = s
        \/ /\ i \in SiteSlots /\ row[i].site = Nobody
           /\ \A j \in SiteSlots : row[j].site # s
           /\ \E k \in 1 .. Window : /\ Probes(s)[k] = i
                                     /\ \A m \in 1 .. k - 1 : row[Probes(s)[m]].site # Nobody
        \/ /\ i = NumSlots
           /\ \A k \in 1 .. Window : row[Probes(s)[k]].site # Nobody
           /\ \A j \in SiteSlots : row[j].site # s
    BY <2>1, SlotIs
  <2>3. CASE i \in SiteSlots /\ row[i].site = s
    <3>1. PICK e : e = Counted(row[i], s, n, has)
      OBVIOUS
    <3>2. row[i] \in Entries
      BY <2>3, <1>1
    <3>3. /\ e \in Entries /\ e.site = s /\ e.count = row[i].count + 1
          /\ e.bytes = row[i].bytes + n
          /\ e.over = row[i].over /\ e.overBytes = row[i].overBytes
          /\ e.sized = row[i].sized + (IF "sizes" \in has THEN 1 ELSE 0)
          /\ e.sizedBytes = row[i].sizedBytes + (IF "bytes" \in has THEN n ELSE 0)
      BY <3>1, <3>2, CountedIs
    <3>4. new = [row EXCEPT ![i] = e]
      <4>1. i # NumSlots
        BY <2>3, ProbesAre
      <4>. QED
        BY <4>1, <3>1, <2>1, <1>5 DEF RowAfter
    <3>5. /\ row[i].count \in Nat /\ row[i].bytes \in Nat /\ row[i].over \in Nat
          /\ row[i].overBytes \in Nat /\ row[i].sized \in Nat /\ row[i].sizedBytes \in Nat
      BY <3>2, EntryIs
    <3>6. /\ Backed(row[i], tr[s])
          /\ KeepsTogether(s) => tr[s].count <= row[i].count
      BY <2>3, <1>4 DEF RowFits, RowHolds
    <3>7. Backed(e, t2[s])
      BY <3>3, <3>5, <3>6, <1>3 DEF Backed, Earned
    <3>8. KeepsTogether(s) => tr[s].count + 1 <= e.count
      BY <3>3, <3>5, <3>6, <1>3
    <3>9. \E k \in 1 .. Window : /\ Probes(s)[k] = i
                                 /\ \A m \in 1 .. k - 1 : row[Probes(s)[m]].site # Nobody
      BY <2>3, <1>4 DEF RowFits, RowPlaced
    <3>10. \A j \in SiteSlots : row[j].site = s => j = i
      BY <2>3, <1>4 DEF RowFits
    <3>11. RowFits([row EXCEPT ![i] = e], t2)
      BY <3>3, <3>7, <3>8, <3>9, <3>10, <2>3, <1>2, RowTakes
    <3>12. /\ "sizes" \notin has => e.sized = row[i].sized
           /\ "bytes" \notin has => e.sizedBytes = row[i].sizedBytes
      BY <3>3, <3>5
    <3>. QED
      BY <3>3, <3>4, <3>11, <3>12, <2>3
  <2>4. CASE /\ i \in SiteSlots /\ row[i].site = Nobody
             /\ \A j \in SiteSlots : row[j].site # s
             /\ \E k \in 1 .. Window : /\ Probes(s)[k] = i
                                       /\ \A m \in 1 .. k - 1 : row[Probes(s)[m]].site # Nobody
    <3>1. PICK e : e = Counted(row[i], s, n, has)
      OBVIOUS
    <3>2. row[i] \in Entries /\ row[i] = Empty
      BY <2>4, <1>1 DEF RowFits
    <3>3. /\ e \in Entries /\ e.site = s /\ e.count = row[i].count + 1
          /\ e.bytes = row[i].bytes + n
          /\ e.over = row[i].over /\ e.overBytes = row[i].overBytes
          /\ e.sized = row[i].sized + (IF "sizes" \in has THEN 1 ELSE 0)
          /\ e.sizedBytes = row[i].sizedBytes + (IF "bytes" \in has THEN n ELSE 0)
      <4>1. PICK d \in Entries : d = row[i]
        BY <3>2
      <4>2. e = Counted(d, s, n, has)
        BY <4>1, <3>1
      <4>. QED
        BY <4>1, <4>2, CountedIs
    <3>4. new = [row EXCEPT ![i] = e]
      <4>1. i # NumSlots
        BY <2>4, ProbesAre
      <4>. QED
        BY <4>1, <3>1, <2>1, <1>5 DEF RowAfter
    <3>5. /\ row[i].count = 0 /\ row[i].bytes = 0 /\ row[i].over = 0
          /\ row[i].overBytes = 0 /\ row[i].sized = 0 /\ row[i].sizedBytes = 0
      BY <3>2 DEF Empty
    <3>6. Backed(e, t2[s])
      BY <3>3, <3>5, <1>3 DEF Backed, Earned
    <3>7. KeepsTogether(s) => tr[s].count = 0
      <4>1. ASSUME KeepsTogether(s), 0 < tr[s].count PROVE FALSE
        <5>1. \A k \in 1 .. Window : row[Probes(s)[k]].site # Nobody
          BY <4>1, <2>4 DEF RowFits, RowRemembers
        <5>. QED
          BY <5>1, <2>4
      <4>. QED
        BY <4>1, <1>3
    <3>8. KeepsTogether(s) => tr[s].count + 1 <= e.count
      BY <3>3, <3>5, <3>7
    <3>9. \A j \in SiteSlots : row[j].site = s => j = i
      BY <2>4
    <3>10. RowFits([row EXCEPT ![i] = e], t2)
      BY <3>3, <3>6, <3>8, <3>9, <2>4, <1>2, RowTakes
    <3>11. /\ "sizes" \notin has => e.sized = row[i].sized
           /\ "bytes" \notin has => e.sizedBytes = row[i].sizedBytes
      BY <3>3, <3>5
    <3>. QED
      BY <3>3, <3>4, <3>10, <3>11, <2>4
  <2>5. CASE /\ i = NumSlots
             /\ \A k \in 1 .. Window : row[Probes(s)[k]].site # Nobody
             /\ \A j \in SiteSlots : row[j].site # s
    <3>1. PICK w : w = Weakest(row, s)
      OBVIOUS
    <3>2. /\ w \in SiteSlots /\ \E k \in 1 .. Window : Probes(s)[k] = w
          /\ \A k \in 1 .. Window : row[w].count <= row[Probes(s)[k]].count
      BY <3>1, WeakestIs
    <3>3. PICK e : e = TakenOver(row[w], s, n, has)
      OBVIOUS
    <3>4. row[w] \in Entries
      BY <3>2, <1>1
    <3>5. /\ e \in Entries /\ e.site = s /\ e.count = row[w].count + 1
          /\ e.bytes = row[w].bytes + n
          /\ e.over = row[w].count /\ e.overBytes = row[w].bytes
          /\ e.sized = (IF "sizes" \in has THEN 1 ELSE row[w].sized)
          /\ e.sizedBytes = (IF "bytes" \in has THEN n ELSE row[w].sizedBytes)
      <4>1. PICK d \in Entries : d = row[w]
        BY <3>4
      <4>2. e = TakenOver(d, s, n, has)
        BY <4>1, <3>3
      <4>3. /\ e \in Entries /\ e.site = s /\ e.count = d.count + 1 /\ e.bytes = d.bytes + n
            /\ e.over = d.count /\ e.overBytes = d.bytes
        BY <4>2, TakenOverIs
      <4>4. /\ e.sized = (IF "sizes" \in has THEN 1 ELSE d.sized)
            /\ e.sizedBytes = (IF "bytes" \in has THEN n ELSE d.sizedBytes)
        BY <4>2, TakenOverIs
      <4>. QED
        BY <4>1, <4>3, <4>4
    <3>6. new = [row EXCEPT ![w] = e]
      BY <3>1, <3>3, <2>1, <2>5, <1>5 DEF RowAfter
    <3>7. row[w].count \in Nat /\ row[w].bytes \in Nat
      BY <3>4, EntryIs
    <3>8. /\ "sizes" \notin has => e.sized = 0
          /\ "bytes" \notin has => e.sizedBytes = 0
      BY <3>2, <3>5 DEF Sized
    <3>9. e.sized <= 1 /\ e.sizedBytes <= n /\ e.sized \in Nat /\ e.sizedBytes \in Nat
      BY <3>5, <3>8, EntryIs
    <3>10. Backed(e, t2[s])
      BY <3>5, <3>7, <3>9, <1>3 DEF Backed, Earned
    <3>11. KeepsTogether(s) => tr[s].count + 1 <= e.count
      <4>1. ASSUME KeepsTogether(s), 0 < tr[s].count PROVE tr[s].count <= row[w].count
        BY <4>1, <3>2, <2>5 DEF RowFits, RowRemembers
      <4>. QED
        BY <4>1, <3>5, <3>7, <1>3
    <3>12. \E k \in 1 .. Window : /\ Probes(s)[k] = w
                                  /\ \A m \in 1 .. k - 1 : row[Probes(s)[m]].site # Nobody
      <4>1. PICK k \in 1 .. Window : Probes(s)[k] = w
        BY <3>2
      <4>2. \A m \in 1 .. k - 1 : m \in 1 .. Window
        BY ProbesAre
      <4>. QED
        BY <4>1, <4>2, <2>5
    <3>13. \A j \in SiteSlots : row[j].site = s => j = w
      BY <2>5
    <3>14. \A k \in 1 .. Window : row[Probes(s)[k]].site # Nobody
                                  /\ row[w].count <= row[Probes(s)[k]].count
      BY <3>2, <2>5
    <3>15. RowFits([row EXCEPT ![w] = e], t2)
      BY <3>2, <3>5, <3>10, <3>11, <3>12, <3>13, <3>14, <1>2, RowTakes
    <3>16. /\ "sizes" \notin has => e.sized = row[w].sized
           /\ "bytes" \notin has => e.sizedBytes = row[w].sizedBytes
      BY <3>5
    <3>. QED
      BY <3>2, <3>5, <3>6, <3>15, <3>16
  <2>. QED
    BY <2>2, <2>3, <2>4, <2>5
<1>7. PICK i \in SiteSlots, e \in Entries :
          /\ new = [row EXCEPT ![i] = e] /\ e.count = row[i].count + 1
          /\ "sizes" \notin has => e.sized = row[i].sized
          /\ "bytes" \notin has => e.sizedBytes = row[i].sizedBytes
          /\ RowFits(new, t2)
  BY <1>6
<1>8. new[i] = e /\ \A j \in SiteSlots : j # i => new[j] = row[j]
  BY <1>1, <1>7
<1>9. Sized(new, has)
  <2>1. ASSUME NEW j \in SiteSlots
        PROVE  /\ "sizes" \notin has => new[j].sized = 0
               /\ "bytes" \notin has => new[j].sizedBytes = 0
    <3>1. CASE j = i
      BY <3>1, <1>7, <1>8 DEF Sized
    <3>2. CASE j # i
      BY <3>2, <1>8 DEF Sized
    <3>. QED
      BY <3>1, <3>2
  <2>. QED
    BY <2>1 DEF Sized
<1>10. PICK f, g : f = RowCounts(row) /\ g = RowCounts(new)
  OBVIOUS
<1>11. /\ f \in [SiteSlots -> Nat] /\ g \in [SiteSlots -> Nat]
       /\ g[i] = f[i] + 1 /\ \A j \in SiteSlots : j # i => g[j] = f[j]
  <2>1. new \in [SiteSlots -> Entries]
    BY <1>7 DEF RowFits
  <2>2. \A j \in SiteSlots : row[j].count \in Nat /\ new[j].count \in Nat
    BY <2>1, <1>1, EntryIs
  <2>3. \A j \in SiteSlots : f[j] = row[j].count /\ g[j] = new[j].count
    BY <1>10 DEF RowCounts
  <2>4. f \in [SiteSlots -> Nat] /\ g \in [SiteSlots -> Nat]
    BY <2>2, <1>10 DEF RowCounts
  <2>. QED
    BY <2>3, <2>4, <1>7, <1>8
<1>12. IsFiniteSet(SiteSlots)
  <2>1. 0 \in Int /\ NumSlots - 1 \in Int
    BY SitesAssumption
  <2>. QED
    BY <2>1, FS_Interval DEF SiteSlots
<1>13. SumFunction(g) = SumFunction(f) - f[i] + g[i]
  BY <1>11, <1>12, SumMoves
<1>14. SumFunction(f) \in Nat /\ f[i] \in Nat
  BY <1>11, <1>12, SumType
<1>15. SumFunction(g) = SumFunction(f) + 1
  BY <1>11, <1>13, <1>14
<1>. QED
  BY <1>2, <1>5, <1>7, <1>9, <1>10, <1>14, <1>15

-----------------------------------------------------------------------------
(* A set that changes by one.                                                  *)
LEMMA CardOne ==
    ASSUME NEW D, IsFiniteSet(D), NEW P \in SUBSET D, NEW Q \in SUBSET D, NEW t \in D,
           \A r \in D : r # t => (r \in P <=> r \in Q)
    PROVE  /\ Cardinality(P) \in Nat /\ Cardinality(Q) \in Nat
           /\ Cardinality(Q) + (IF t \in P THEN 1 ELSE 0)
                = Cardinality(P) + (IF t \in Q THEN 1 ELSE 0)
<1>1. IsFiniteSet(P) /\ IsFiniteSet(Q)
  BY FS_Subset
<1>2. Cardinality(P) \in Nat /\ Cardinality(Q) \in Nat
  BY <1>1, FS_CardinalityType
<1>3. CASE t \in P /\ t \in Q
  <2>1. P = Q
    BY <1>3
  <2>. QED
    BY <2>1, <1>2
<1>4. CASE t \notin P /\ t \notin Q
  <2>1. P = Q
    BY <1>4
  <2>. QED
    BY <2>1, <1>2
<1>5. CASE t \in P /\ t \notin Q
  <2>1. Q = P \ {t}
    BY <1>5
  <2>2. Cardinality(P \ {t}) = Cardinality(P) - 1
    BY <1>1, <1>5, FS_RemoveElement
  <2>. QED
    BY <2>1, <2>2, <1>2, <1>5
<1>6. CASE t \notin P /\ t \in Q
  <2>1. P = Q \ {t}
    BY <1>6
  <2>2. Cardinality(Q \ {t}) = Cardinality(Q) - 1
    BY <1>1, <1>6, FS_RemoveElement
  <2>. QED
    BY <2>1, <2>2, <1>2, <1>6
<1>. QED
  BY <1>2, <1>3, <1>4, <1>5, <1>6

-----------------------------------------------------------------------------
(* The inductive invariant.  Assumed is what a call may yet find there, or has: *)
(* of the other tables its row has nothing.                                     *)
NoteSteps == {"rest", "sites", "sizes", "bytes", "sites!", "sizes!", "bytes!", "note"}
Calls == [step : NoteSteps, site : Sites \cup {Nobody}, n : Nat, has : SUBSET Tables]

Assumed(c) ==
    c.has \cup (IF c.step \in {"bytes", "bytes!", "note"} THEN {} ELSE {"sizes"})
          \cup (IF c.step = "note" THEN {} ELSE {"bytes"})

CallFits(c) ==
    /\ c \in Calls /\ c.has \subseteq inForce
    /\ IF c.step = "rest" THEN c = Rest ELSE c.site \in Sites

Total == SumFunction([t \in Noters |-> SumFunction(RowCounts(entries[t]))])
Standing == {t \in Noters : at[t] # Rest}
Mapping(b) == {t \in Noters : at[t].step = Reserving(b)}

RowStands(t) ==
    RowFits(entries[t], truth[t]) /\ Sized(entries[t], inForce) /\ Sized(entries[t], Assumed(at[t]))

SitesInv ==
    /\ inForce \subseteq Tables /\ mapped \in [Tables -> Int] /\ skipped \in Nat /\ asked \in Nat
    /\ at \in [Noters -> Calls] /\ \A t \in Noters : CallFits(at[t])
    /\ entries \in [Noters -> [SiteSlots -> Entries]] /\ TruthIs
    /\ \A t \in Noters : RowStands(t)
    /\ Total + skipped + Cardinality(Standing) = asked
    /\ OneTableEach

(* Before the first call nothing is noted down.                               *)
LEMMA SitesStart == SitesInit => SitesInv
<1>1. SUFFICES ASSUME SitesInit PROVE SitesInv
  OBVIOUS
<1>2. IsFiniteSet(Noters) /\ NumSlots \in Nat /\ IsFiniteSet(SiteSlots) /\ Nobody \notin Sites
  <2>1. IsFiniteSet(Noters) /\ NumSlots \in Nat /\ Nobody \notin Sites
    BY SitesAssumption
  <2>2. 0 \in Int /\ NumSlots - 1 \in Int
    BY <2>1
  <2>. QED
    BY <2>1, <2>2, FS_Interval DEF SiteSlots
<1>3. Rest \in Calls /\ Rest.step = "rest" /\ Rest.has = {}
  BY DEF Rest, Calls, NoteSteps
<1>4. Empty \in Entries /\ Empty.site = Nobody /\ Empty.count = 0
      /\ Empty.sized = 0 /\ Empty.sizedBytes = 0
  BY DEF Empty, Entries
<1>5. at \in [Noters -> Calls] /\ \A t \in Noters : at[t] = Rest
  BY <1>1, <1>3 DEF SitesInit
<1>6. /\ entries \in [Noters -> [SiteSlots -> Entries]]
      /\ \A t \in Noters : \A i \in SiteSlots : entries[t][i] = Empty
  BY <1>1, <1>4 DEF SitesInit
<1>7. TruthIs /\ \A t \in Noters : \A s \in Sites : truth[t][s].count = 0
  BY <1>1 DEF SitesInit, TruthIs
<1>8. \A t \in Noters : CallFits(at[t])
  BY <1>3, <1>5 DEF CallFits
<1>9. ASSUME NEW t \in Noters PROVE RowStands(t)
  <2>1. PICK row, tr : row = entries[t] /\ tr = truth[t]
    OBVIOUS
  <2>2. row \in [SiteSlots -> Entries] /\ \A i \in SiteSlots : row[i] = Empty
    BY <2>1, <1>6
  <2>3. tr \in [Sites -> [count : Nat, bytes : Nat]] /\ \A s \in Sites : tr[s].count = 0
    BY <2>1, <1>7 DEF TruthIs
  <2>4. RowPlaced(row) /\ RowHolds(row, tr) /\ RowRemembers(row, tr)
    BY <2>2, <2>3, <1>4 DEF RowPlaced, RowHolds, RowRemembers
  <2>5. RowFits(row, tr)
    BY <2>2, <2>3, <2>4, <1>4 DEF RowFits
  <2>6. \A has : Sized(row, has)
    BY <2>2, <1>4 DEF Sized
  <2>. QED
    BY <2>1, <2>5, <2>6 DEF RowStands
<1>10. Total = 0
  <2>1. ASSUME NEW t \in Noters PROVE SumFunction(RowCounts(entries[t])) = 0
    <3>1. PICK f : f = RowCounts(entries[t])
      OBVIOUS
    <3>2. f \in [SiteSlots -> Nat] /\ \A i \in SiteSlots : f[i] = 0
      BY <3>1, <1>4, <1>6 DEF RowCounts
    <3>. QED
      BY <3>1, <3>2, <1>2, SumNothing
  <2>2. PICK f : f = [t \in Noters |-> SumFunction(RowCounts(entries[t]))]
    OBVIOUS
  <2>3. f \in [Noters -> Nat] /\ \A t \in Noters : f[t] = 0
    BY <2>1, <2>2
  <2>. QED
    BY <2>2, <2>3, <1>2, SumNothing DEF Total
<1>11. Cardinality(Standing) = 0
  <2>1. Standing = {}
    BY <1>5 DEF Standing
  <2>. QED
    BY <2>1, FS_EmptySet
<1>12. OneTableEach
  <2>1. SUFFICES ASSUME NEW b \in Tables
                 PROVE  mapped[b] = (IF b \in inForce THEN 1 ELSE 0)
                                      + Cardinality({t \in Noters : at[t].step = Reserving(b)})
    BY DEF OneTableEach
  <2>2. {t \in Noters : at[t].step = Reserving(b)} = {}
    BY <1>3, <1>5 DEF Reserving, Tables
  <2>3. mapped[b] = 0 /\ inForce = {}
    BY <1>1 DEF SitesInit
  <2>. QED
    BY <2>2, <2>3, FS_EmptySet
<1>13. inForce \subseteq Tables /\ mapped \in [Tables -> Int] /\ skipped = 0 /\ asked = 0
  BY <1>1 DEF SitesInit
<1>. QED
  BY <1>5, <1>6, <1>7, <1>8, <1>9, <1>10, <1>11, <1>12, <1>13 DEF SitesInv

(* The call of one thread moves.                                               *)
CallMoved(t, c) ==
    /\ at' \in [Noters -> Calls] /\ at'[t] = c
    /\ \A r \in Noters : r # t => at'[r] = at[r]
    /\ Cardinality(Standing) \in Nat /\ Cardinality(Standing') \in Nat
    /\ Cardinality(Standing') + (IF at[t] # Rest THEN 1 ELSE 0)
         = Cardinality(Standing) + (IF c # Rest THEN 1 ELSE 0)
    /\ \A b \in Tables :
          /\ Cardinality(Mapping(b)) \in Nat /\ Cardinality(Mapping(b)') \in Nat
          /\ Cardinality(Mapping(b)') + (IF at[t].step = Reserving(b) THEN 1 ELSE 0)
               = Cardinality(Mapping(b)) + (IF c.step = Reserving(b) THEN 1 ELSE 0)

(* Those in a call, and at a table, change by that one.                        *)
LEMMA CallMoves ==
    ASSUME at \in [Noters -> Calls], NEW t \in Noters, NEW c \in Calls,
           at' = [at EXCEPT ![t] = c]
    PROVE  CallMoved(t, c)
<1>0. IsFiniteSet(Noters)
  BY SitesAssumption
<1>1. at' \in [Noters -> Calls] /\ at'[t] = c /\ \A r \in Noters : r # t => at'[r] = at[r]
  OBVIOUS
<1>2. /\ Cardinality(Standing) \in Nat /\ Cardinality(Standing') \in Nat
      /\ Cardinality(Standing') + (IF at[t] # Rest THEN 1 ELSE 0)
           = Cardinality(Standing) + (IF c # Rest THEN 1 ELSE 0)
  <2>1. PICK P, Q : P = Standing /\ Q = Standing'
    OBVIOUS
  <2>2. \A r \in Noters : (r \in P <=> at[r] # Rest) /\ (r \in Q <=> at'[r] # Rest)
    BY <2>1 DEF Standing
  <2>3. P \in SUBSET Noters /\ Q \in SUBSET Noters
    BY <2>1 DEF Standing
  <2>4. \A r \in Noters : r # t => (r \in P <=> r \in Q)
    BY <2>2, <1>1
  <2>5. (t \in P <=> at[t] # Rest) /\ (t \in Q <=> c # Rest)
    BY <2>2, <1>1
  <2>6. /\ Cardinality(P) \in Nat /\ Cardinality(Q) \in Nat
        /\ Cardinality(Q) + (IF t \in P THEN 1 ELSE 0)
             = Cardinality(P) + (IF t \in Q THEN 1 ELSE 0)
    BY <2>3, <2>4, <1>0, CardOne
  <2>. QED
    BY <2>1, <2>5, <2>6
<1>3. ASSUME NEW b \in Tables
      PROVE  /\ Cardinality(Mapping(b)) \in Nat /\ Cardinality(Mapping(b)') \in Nat
             /\ Cardinality(Mapping(b)') + (IF at[t].step = Reserving(b) THEN 1 ELSE 0)
                  = Cardinality(Mapping(b)) + (IF c.step = Reserving(b) THEN 1 ELSE 0)
  <2>1. PICK P, Q : P = Mapping(b) /\ Q = Mapping(b)'
    OBVIOUS
  <2>0. PICK x : x = Reserving(b)
    OBVIOUS
  <2>2. \A r \in Noters : (r \in P <=> at[r].step = x) /\ (r \in Q <=> at'[r].step = x)
    BY <2>0, <2>1 DEF Mapping
  <2>3. P \in SUBSET Noters /\ Q \in SUBSET Noters
    BY <2>1 DEF Mapping
  <2>4. \A r \in Noters : r # t => (r \in P <=> r \in Q)
    BY <2>2, <1>1
  <2>5. (t \in P <=> at[t].step = x) /\ (t \in Q <=> c.step = x)
    BY <2>2, <1>1
  <2>6. /\ Cardinality(P) \in Nat /\ Cardinality(Q) \in Nat
        /\ Cardinality(Q) + (IF t \in P THEN 1 ELSE 0)
             = Cardinality(P) + (IF t \in Q THEN 1 ELSE 0)
    BY <2>3, <2>4, <1>0, CardOne
  <2>. QED
    BY <2>0, <2>1, <2>5, <2>6
<1>. QED
  BY <1>1, <1>2, <1>3 DEF CallMoved

(* A step that touches no row keeps the invariant when its call, its counters   *)
(* and its tables do.                                                          *)
LEMMA QuietNote ==
    ASSUME SitesInv, NEW t \in Noters, NEW c \in Calls, at' = [at EXCEPT ![t] = c],
           entries' = entries, truth' = truth,
           inForce \subseteq inForce', inForce' \subseteq Tables,
           c.has \subseteq inForce', IF c.step = "rest" THEN c = Rest ELSE c.site \in Sites,
           Sized(entries[t], Assumed(c)),
           skipped' \in Nat, asked' \in Nat,
           skipped' + (IF c # Rest THEN 1 ELSE 0) + asked
             = skipped + (IF at[t] # Rest THEN 1 ELSE 0) + asked',
           mapped' \in [Tables -> Int],
           \A b \in Tables :
               mapped'[b] - (IF b \in inForce' THEN 1 ELSE 0)
                          - (IF c.step = Reserving(b) THEN 1 ELSE 0)
                 = mapped[b] - (IF b \in inForce THEN 1 ELSE 0)
                             - (IF at[t].step = Reserving(b) THEN 1 ELSE 0)
    PROVE  SitesInv'
<1>1. /\ inForce \subseteq Tables /\ mapped \in [Tables -> Int] /\ skipped \in Nat /\ asked \in Nat
      /\ at \in [Noters -> Calls] /\ \A r \in Noters : CallFits(at[r])
      /\ entries \in [Noters -> [SiteSlots -> Entries]] /\ TruthIs
      /\ \A r \in Noters : RowStands(r)
      /\ Total + skipped + Cardinality(Standing) = asked
      /\ OneTableEach
  BY DEF SitesInv
<1>2. /\ at' \in [Noters -> Calls] /\ at'[t] = c
      /\ \A r \in Noters : r # t => at'[r] = at[r]
      /\ Cardinality(Standing) \in Nat /\ Cardinality(Standing') \in Nat
      /\ Cardinality(Standing') + (IF at[t] # Rest THEN 1 ELSE 0)
           = Cardinality(Standing) + (IF c # Rest THEN 1 ELSE 0)
      /\ \A b \in Tables :
            /\ Cardinality(Mapping(b)) \in Nat /\ Cardinality(Mapping(b)') \in Nat
            /\ Cardinality(Mapping(b)') + (IF at[t].step = Reserving(b) THEN 1 ELSE 0)
                 = Cardinality(Mapping(b)) + (IF c.step = Reserving(b) THEN 1 ELSE 0)
  <2>1. CallMoved(t, c)
    BY <1>1, CallMoves
  <2>. QED
    BY <2>1 DEF CallMoved
<1>3. \A r \in Noters : CallFits(at[r])'
  <2>1. SUFFICES ASSUME NEW r \in Noters PROVE CallFits(at[r])'
    OBVIOUS
  <2>2. CASE r = t
    BY <2>2, <1>2 DEF CallFits
  <2>3. CASE r # t
    BY <2>3, <1>1, <1>2 DEF CallFits
  <2>. QED
    BY <2>2, <2>3
<1>4. \A r \in Noters : RowStands(r)'
  <2>1. SUFFICES ASSUME NEW r \in Noters PROVE RowStands(r)'
    OBVIOUS
  <2>2. RowFits(entries[r], truth[r]) /\ Sized(entries[r], inForce)
        /\ Sized(entries[r], Assumed(at[r]))
    BY <1>1 DEF RowStands
  <2>3. Sized(entries[r], inForce')
    BY <2>2 DEF Sized
  <2>4. Sized(entries[r], Assumed(at'[r]))
    BY <2>2, <1>2
  <2>. QED
    BY <2>2, <2>3, <2>4 DEF RowStands
<1>5. Total' = Total
  BY DEF Total
<1>6. Total \in Int
  <2>1. IsFiniteSet(Noters) /\ IsFiniteSet(SiteSlots)
    <3>1. 0 \in Int /\ NumSlots - 1 \in Int
      BY SitesAssumption
    <3>. QED
      BY <3>1, SitesAssumption, FS_Interval DEF SiteSlots
  <2>2. ASSUME NEW r \in Noters PROVE SumFunction(RowCounts(entries[r])) \in Nat
    <3>1. PICK f : f = RowCounts(entries[r])
      OBVIOUS
    <3>2. \A i \in SiteSlots : entries[r][i].count \in Nat
      BY <1>1, EntryIs
    <3>3. f \in [SiteSlots -> Nat]
      BY <3>1, <3>2 DEF RowCounts
    <3>. QED
      BY <3>1, <3>3, <2>1, SumType
  <2>3. PICK f : f = [r \in Noters |-> SumFunction(RowCounts(entries[r]))]
    OBVIOUS
  <2>4. f \in [Noters -> Nat]
    BY <2>2, <2>3
  <2>5. SumFunction(f) \in Nat
    BY <2>1, <2>4, SumType
  <2>. QED
    BY <2>3, <2>5 DEF Total
<1>7. Total' + skipped' + Cardinality(Standing') = asked'
  <2>1. PICK T, u, v \in Int : T = Total /\ u = Cardinality(Standing) /\ v = Cardinality(Standing')
    BY <1>2, <1>6
  <2>2. PICK p, q \in Int : /\ p = (IF at[t] # Rest THEN 1 ELSE 0)
                            /\ q = (IF c # Rest THEN 1 ELSE 0)
    OBVIOUS
  <2>3. v + p = u + q
    BY <2>1, <2>2, <1>2
  <2>4. skipped' + q + asked = skipped + p + asked'
    BY <2>2
  <2>5. T + skipped + u = asked
    BY <2>1, <1>1
  <2>6. PICK x, y, z, w \in Int : x = skipped /\ y = skipped' /\ z = asked /\ w = asked'
    BY <1>1
  <2>7. y + q + z = x + p + w /\ T + x + u = z
    BY <2>4, <2>5, <2>6
  <2>8. T + y + v = w
    BY <2>3, <2>7
  <2>. QED
    BY <2>1, <2>6, <2>8, <1>5
<1>8. OneTableEach'
  <2>1. \A b \in Tables :
            mapped[b] = (IF b \in inForce THEN 1 ELSE 0) + Cardinality(Mapping(b))
    BY <1>1 DEF OneTableEach, Mapping
  <2>2. SUFFICES \A b \in Tables :
            mapped'[b] = (IF b \in inForce' THEN 1 ELSE 0) + Cardinality(Mapping(b)')
    BY DEF OneTableEach, Mapping
  <2>3. SUFFICES ASSUME NEW b \in Tables
                 PROVE  mapped'[b] = (IF b \in inForce' THEN 1 ELSE 0) + Cardinality(Mapping(b)')
    OBVIOUS
  <2>4. mapped[b] \in Int /\ mapped'[b] \in Int
    BY <1>1
  <2>5. PICK u, v \in Int : u = Cardinality(Mapping(b)) /\ v = Cardinality(Mapping(b)')
    BY <1>2
  <2>6. PICK p, q \in Int : /\ p = (IF at[t].step = Reserving(b) THEN 1 ELSE 0)
                            /\ q = (IF c.step = Reserving(b) THEN 1 ELSE 0)
    OBVIOUS
  <2>7. PICK x, y \in Int : /\ x = (IF b \in inForce THEN 1 ELSE 0)
                            /\ y = (IF b \in inForce' THEN 1 ELSE 0)
    OBVIOUS
  <2>8. v + p = u + q
    BY <2>5, <2>6, <1>2
  <2>9. mapped'[b] - y - q = mapped[b] - x - p
    BY <2>6, <2>7
  <2>10. mapped[b] = x + u
    BY <2>1, <2>5, <2>7
  <2>. QED
    BY <2>4, <2>5, <2>7, <2>8, <2>9, <2>10
<1>9. TruthIs' /\ entries' \in [Noters -> [SiteSlots -> Entries]]
  BY <1>1 DEF TruthIs
<1>. QED
  BY <1>2, <1>3, <1>4, <1>7, <1>8, <1>9 DEF SitesInv

(* The steps of looking for a table, told apart.                              *)
LEMMA TablesAre ==
    ASSUME NEW b \in Tables
    PROVE  /\ b \in NoteSteps /\ After(b) \in NoteSteps /\ Reserving(b) \in NoteSteps
           /\ After(b) # "rest" /\ Reserving(b) # "rest" /\ b # "rest"
           /\ \A d \in Tables : /\ Reserving(d) # "rest" /\ Reserving(d) # d /\ Reserving(d) # b
                                /\ Reserving(d) # After(b) /\ Reserving(d) # "sites"
                                /\ Reserving(d) # "note"
                                /\ (Reserving(d) = Reserving(b) <=> d = b)
           /\ b = "sites" => After(b) = "sizes" /\ Reserving(b) = "sites!"
           /\ b = "sizes" => After(b) = "bytes" /\ Reserving(b) = "sizes!"
           /\ b = "bytes" => After(b) = "note" /\ Reserving(b) = "bytes!"
           /\ b = "sites" \/ b = "sizes" \/ b = "bytes"
BY DEF Tables, After, Reserving, NoteSteps

CallAt(c, x, h) == [step |-> x, site |-> c.site, n |-> c.n, has |-> h]

(* A call that goes on is one.                                                *)
LEMMA CallAtIs ==
    ASSUME NEW c \in Calls, NEW x \in NoteSteps, NEW h \in SUBSET Tables
    PROVE  /\ CallAt(c, x, h) \in Calls /\ CallAt(c, x, h).step = x
           /\ CallAt(c, x, h).site = c.site /\ CallAt(c, x, h).has = h
           /\ c.step \in NoteSteps /\ c.has \in SUBSET Tables /\ c.n \in Nat
BY DEF Calls, CallAt

CallGoes(t, x, h) == at' = [at EXCEPT ![t] = CallAt(at[t], x, h)]

(* A step that goes on without the table, ...                                 *)
LEMMA CallSteps ==
    ASSUME at \in [Noters -> Calls], NEW t \in Noters, NEW x \in NoteSteps,
           at' = [at EXCEPT ![t].step = x]
    PROVE  CallGoes(t, x, at[t].has)
<1>1. PICK c \in Calls : c = at[t]
  OBVIOUS
<1>2. PICK d : d = [c EXCEPT !.step = x]
  OBVIOUS
<1>3. d \in Calls /\ d.step = x /\ d.site = c.site /\ d.n = c.n /\ d.has = c.has
  BY <1>2 DEF Calls
<1>4. \A r \in Calls : r = [step |-> r.step, site |-> r.site, n |-> r.n, has |-> r.has]
  BY DEF Calls
<1>5. d = CallAt(c, x, c.has)
  BY <1>3, <1>4 DEF CallAt
<1>6. at' = [at EXCEPT ![t] = d]
  BY <1>1, <1>2
<1>. QED
  BY <1>1, <1>5, <1>6 DEF CallGoes

(* ... and one that goes on with it.                                          *)
LEMMA CallStepsWith ==
    ASSUME at \in [Noters -> Calls], NEW t \in Noters, NEW x \in NoteSteps, NEW b \in Tables,
           at' = [at EXCEPT ![t].step = x, ![t].has = @ \cup {b}]
    PROVE  CallGoes(t, x, at[t].has \cup {b})
<1>1. PICK c \in Calls : c = at[t]
  OBVIOUS
<1>2. PICK d, h : /\ h = c.has \cup {b}
                  /\ d = [c EXCEPT !.step = x, !.has = h]
  OBVIOUS
<1>3. h \in SUBSET Tables
  BY <1>2 DEF Calls
<1>4. d \in Calls /\ d.step = x /\ d.site = c.site /\ d.n = c.n /\ d.has = h
  BY <1>2, <1>3 DEF Calls
<1>5. \A r \in Calls : r = [step |-> r.step, site |-> r.site, n |-> r.n, has |-> r.has]
  BY DEF Calls
<1>6. d = CallAt(c, x, h)
  BY <1>4, <1>5 DEF CallAt
<1>7. at' = [at EXCEPT ![t] = d]
  BY <1>1, <1>2 DEF Calls
<1>. QED
  BY <1>1, <1>2, <1>6, <1>7 DEF CallGoes

(* What two bounds on the tables of a row say together.                       *)
LEMMA SizedBoth ==
    ASSUME NEW row, NEW A, NEW B, NEW has, Sized(row, A), Sized(row, B), A \cap B \subseteq has
    PROVE  Sized(row, has)
BY DEF Sized

(* What the invariant says of the thread whose step it is.                     *)
LEMMA CallerIs ==
    ASSUME SitesInv, NEW t \in Noters
    PROVE  /\ at[t] \in Calls /\ at[t].has \in SUBSET Tables /\ at[t].has \subseteq inForce
           /\ IF at[t].step = "rest" THEN at[t] = Rest ELSE at[t].site \in Sites
           /\ RowFits(entries[t], truth[t])
           /\ Sized(entries[t], inForce) /\ Sized(entries[t], Assumed(at[t]))
           /\ inForce \in SUBSET Tables /\ mapped \in [Tables -> Int]
           /\ skipped \in Nat /\ asked \in Nat /\ at \in [Noters -> Calls] /\ Rest.step = "rest"
<1>1. at[t] \in Calls /\ CallFits(at[t]) /\ RowStands(t)
  BY DEF SitesInv
<1>2. at[t].has \in SUBSET Tables
  BY <1>1 DEF Calls
<1>3. Rest.step = "rest"
  BY DEF Rest
<1>. QED
  BY <1>1, <1>2, <1>3 DEF SitesInv, CallFits, RowStands

(* NoteBegin keeps the invariant.                                             *)
LEMMA BeginStep ==
    ASSUME SitesInv, NEW t \in Noters, NEW s \in Sites, NEW n \in Amounts, NoteBegin(t, s, n)
    PROVE  SitesInv'
<1>1. /\ at[t] \in Calls /\ Sized(entries[t], Assumed(at[t]))
      /\ inForce \in SUBSET Tables /\ mapped \in [Tables -> Int]
      /\ skipped \in Nat /\ asked \in Nat /\ at \in [Noters -> Calls] /\ Rest.step = "rest"
      /\ at[t].has \subseteq inForce
  BY CallerIs
<1>2. /\ at[t] = Rest /\ asked' = asked + 1
      /\ inForce' = inForce /\ mapped' = mapped /\ entries' = entries /\ truth' = truth
  BY DEF NoteBegin
<1>3. CASE t \in Cacheless
  <2>1. skipped' = skipped + 1 /\ at' = at
    BY <1>3 DEF NoteBegin
  <2>2. PICK c \in Calls : c = at[t]
    BY <1>1
  <2>3. at' = [at EXCEPT ![t] = c]
    BY <2>1, <2>2, <1>1
  <2>4. /\ c = Rest /\ c.step = "rest" /\ c.has \subseteq inForce' /\ Sized(entries[t], Assumed(c))
    BY <2>2, <1>1, <1>2
  <2>5. skipped' + 0 + asked = skipped + 0 + asked'
    BY <2>1, <1>1, <1>2
  <2>6. mapped' \in [Tables -> Int] /\ skipped' \in Nat /\ asked' \in Nat
        /\ inForce \subseteq inForce' /\ inForce' \subseteq Tables
    BY <2>1, <1>1, <1>2
  <2>. QED
    BY <2>3, <2>4, <2>5, <2>6, <1>2, QuietNote
<1>4. CASE t \notin Cacheless
  <2>1. PICK c : c = [step |-> "sites", site |-> s, n |-> n, has |-> {}]
    OBVIOUS
  <2>2. c \in Calls /\ c.step = "sites" /\ c.site = s /\ c.has = {}
    BY <2>1, SitesAssumption DEF Calls, NoteSteps
  <2>3. at' = [at EXCEPT ![t] = c] /\ skipped' = skipped
    BY <2>1, <1>4 DEF NoteBegin
  <2>4. c # Rest /\ "sites" # "rest"
    BY <2>2, <1>1
  <2>5. Sized(entries[t], Assumed(c))
    BY <2>2 DEF Sized, Assumed
  <2>6. skipped' + 1 + asked = skipped + 0 + asked'
    BY <2>3, <1>1, <1>2
  <2>7. mapped' \in [Tables -> Int] /\ skipped' \in Nat /\ asked' \in Nat
        /\ inForce \subseteq inForce' /\ inForce' \subseteq Tables /\ c.has \subseteq inForce'
    BY <2>2, <2>3, <1>1, <1>2
  <2>8. \A b \in Tables : at[t].step # Reserving(b) /\ c.step # Reserving(b)
    BY <2>2, <1>1, <1>2, TablesAre
  <2>9. \A b \in Tables :
            mapped'[b] - (IF b \in inForce' THEN 1 ELSE 0)
                       - (IF c.step = Reserving(b) THEN 1 ELSE 0)
              = mapped[b] - (IF b \in inForce THEN 1 ELSE 0)
                          - (IF at[t].step = Reserving(b) THEN 1 ELSE 0)
    BY <2>8, <1>2
  <2>10. IF c.step = "rest" THEN c = Rest ELSE c.site \in Sites
    BY <2>2, <2>4
  <2>11. skipped' + (IF c # Rest THEN 1 ELSE 0) + asked
           = skipped + (IF at[t] # Rest THEN 1 ELSE 0) + asked'
    BY <2>4, <2>6, <1>2
  <2>. QED
    BY <2>2, <2>3, <2>5, <2>7, <2>9, <2>10, <2>11, <1>2, QuietNote
<1>. QED
  BY <1>3, <1>4

(* The reservations of each table change as the threads at them do.             *)
Balanced(x, y) ==
    \A d \in Tables :
        mapped'[d] - (IF d \in inForce' THEN 1 ELSE 0) - (IF x = Reserving(d) THEN 1 ELSE 0)
          = mapped[d] - (IF d \in inForce THEN 1 ELSE 0) - (IF y = Reserving(d) THEN 1 ELSE 0)
(* The steps that look for a table are alike: x is where the call goes and h    *)
(* what it has then.                                                           *)
LEMMA LookStep ==
    ASSUME SitesInv, NEW t \in Noters, NEW b \in Tables, NEW x \in NoteSteps, x # "rest",
           at[t].step # "rest", NEW h \in SUBSET Tables,
           CallGoes(t, x, h),
           entries' = entries, truth' = truth, skipped' = skipped, asked' = asked,
           inForce \subseteq inForce', inForce' \subseteq Tables, h \subseteq inForce',
           Assumed(at[t]) \cap inForce \subseteq Assumed(CallAt(at[t], x, h)),
           mapped' \in [Tables -> Int], Balanced(x, at[t].step)
    PROVE  SitesInv'
<1>1. /\ at[t] \in Calls /\ at[t].site \in Sites
      /\ Sized(entries[t], inForce) /\ Sized(entries[t], Assumed(at[t]))
      /\ skipped \in Nat /\ asked \in Nat /\ Rest.step = "rest"
  BY CallerIs
<1>2. PICK c \in Calls : c = CallAt(at[t], x, h)
  BY <1>1, CallAtIs
<1>3. c.step = x /\ c.site = at[t].site /\ c.has = h
  BY <1>2 DEF CallAt
<1>4. Sized(entries[t], Assumed(c))
  BY <1>1, <1>2, SizedBoth
<1>5. c # Rest /\ at[t] # Rest
  BY <1>1, <1>3
<1>6. skipped' + (IF c # Rest THEN 1 ELSE 0) + asked
        = skipped + (IF at[t] # Rest THEN 1 ELSE 0) + asked'
  BY <1>1, <1>5
<1>7. IF c.step = "rest" THEN c = Rest ELSE c.site \in Sites
  BY <1>1, <1>3
<1>8. at' = [at EXCEPT ![t] = c]
  BY <1>2 DEF CallGoes
<1>9. \A d \in Tables :
          mapped'[d] - (IF d \in inForce' THEN 1 ELSE 0)
                     - (IF c.step = Reserving(d) THEN 1 ELSE 0)
            = mapped[d] - (IF d \in inForce THEN 1 ELSE 0)
                        - (IF at[t].step = Reserving(d) THEN 1 ELSE 0)
  BY <1>3 DEF Balanced
<1>10. c.has \subseteq inForce' /\ skipped' \in Nat /\ asked' \in Nat
  BY <1>1, <1>3
<1>. QED
  BY <1>4, <1>6, <1>7, <1>8, <1>9, <1>10, QuietNote

(* So does looking for a table, making one, and losing the race for it.       *)
LEMMA TableStep ==
    ASSUME SitesInv, NEW t \in Noters, NEW b \in Tables,
           TableThere(t, b) \/ TableReserve(t, b) \/ TableRefused(t, b) \/ TablePublish(t, b)
    PROVE  SitesInv'
<1>1. /\ at[t] \in Calls /\ at[t].has \in SUBSET Tables /\ at[t].has \subseteq inForce
      /\ IF at[t].step = "rest" THEN at[t] = Rest ELSE at[t].site \in Sites
      /\ Sized(entries[t], inForce) /\ Sized(entries[t], Assumed(at[t]))
      /\ inForce \in SUBSET Tables /\ mapped \in [Tables -> Int]
      /\ skipped \in Nat /\ asked \in Nat /\ at \in [Noters -> Calls] /\ Rest.step = "rest"
  BY CallerIs
<1>2. PICK c \in Calls : c = at[t]
  BY <1>1
<1>3. /\ b \in NoteSteps /\ After(b) \in NoteSteps /\ Reserving(b) \in NoteSteps
      /\ After(b) # "rest" /\ Reserving(b) # "rest" /\ b # "rest"
      /\ b = "sites" => After(b) = "sizes" /\ Reserving(b) = "sites!"
      /\ b = "sizes" => After(b) = "bytes" /\ Reserving(b) = "sizes!"
      /\ b = "bytes" => After(b) = "note" /\ Reserving(b) = "bytes!"
      /\ b = "sites" \/ b = "sizes" \/ b = "bytes"
  BY TablesAre
<1>4. \A d \in Tables : Reserving(d) # b /\ Reserving(d) # After(b)
                        /\ (Reserving(d) = Reserving(b) <=> d = b)
  BY TablesAre
<1>5. PICK g, h \in SUBSET Tables : g = c.has /\ h = c.has \cup {b}
  BY <1>1, <1>2
<1>6. CASE TableThere(t, b)
  <2>1. /\ c.step = b /\ b \in inForce /\ inForce' = inForce /\ mapped' = mapped
        /\ entries' = entries /\ truth' = truth /\ skipped' = skipped /\ asked' = asked
        /\ at' = [at EXCEPT ![t].step = After(b), ![t].has = @ \cup {b}]
    BY <1>2, <1>6 DEF TableThere
  <2>2. CallGoes(t, After(b), h)
    <3>1. PICK x \in NoteSteps : x = After(b)
      BY <1>3
    <3>2. CallGoes(t, x, at[t].has \cup {b})
      BY <3>1, <2>1, <1>1, CallStepsWith
    <3>. QED
      BY <3>1, <3>2, <1>2, <1>5
  <2>3. PICK a : a = CallAt(c, After(b), h)
    OBVIOUS
  <2>4. a.step = After(b) /\ a.has = h
    BY <2>3 DEF CallAt
  <2>5. Assumed(c) \cap inForce \subseteq Assumed(a)
    BY <2>1, <2>4, <1>3, <1>5 DEF Assumed
  <2>6. \A d \in Tables : c.step # Reserving(d) /\ After(b) # Reserving(d)
    BY <2>1, <1>4
  <2>7. Balanced(After(b), at[t].step)
    BY <2>1, <2>6, <1>2 DEF Balanced
  <2>8. /\ at[t].step # "rest"
        /\ Assumed(at[t]) \cap inForce \subseteq Assumed(CallAt(at[t], After(b), h))
    BY <2>1, <2>3, <2>5, <1>2, <1>3
  <2>9. /\ inForce \subseteq inForce' /\ inForce' \subseteq Tables /\ h \subseteq inForce'
        /\ mapped' \in [Tables -> Int]
    BY <2>1, <1>1, <1>2, <1>5
  <2>. QED
    BY <2>1, <2>2, <2>7, <2>8, <2>9, <1>3, LookStep
<1>7. CASE TableReserve(t, b)
  <2>1. /\ c.step = b /\ b \notin inForce /\ inForce' = inForce
        /\ mapped' = [mapped EXCEPT ![b] = @ + 1]
        /\ entries' = entries /\ truth' = truth /\ skipped' = skipped /\ asked' = asked
        /\ at' = [at EXCEPT ![t].step = Reserving(b)]
    BY <1>2, <1>7 DEF TableReserve
  <2>2. CallGoes(t, Reserving(b), g)
    <3>1. PICK x \in NoteSteps : x = Reserving(b)
      BY <1>3
    <3>2. CallGoes(t, x, at[t].has)
      BY <3>1, <2>1, <1>1, CallSteps
    <3>. QED
      BY <3>1, <3>2, <1>2, <1>5
  <2>3. PICK a : a = CallAt(c, Reserving(b), g)
    OBVIOUS
  <2>4. a.step = Reserving(b) /\ a.has = g
    BY <2>3 DEF CallAt
  <2>5. Assumed(c) \cap inForce \subseteq Assumed(a)
    BY <2>1, <2>4, <1>3, <1>5 DEF Assumed
  <2>6. mapped' \in [Tables -> Int] /\ mapped'[b] = mapped[b] + 1 /\ mapped[b] \in Int
        /\ \A d \in Tables : d # b => mapped'[d] = mapped[d]
    BY <2>1, <1>1
  <2>7. Balanced(Reserving(b), at[t].step)
    <3>1. SUFFICES ASSUME NEW d \in Tables
                   PROVE  mapped'[d] - (IF d \in inForce' THEN 1 ELSE 0)
                                     - (IF Reserving(b) = Reserving(d) THEN 1 ELSE 0)
                            = mapped[d] - (IF d \in inForce THEN 1 ELSE 0)
                                        - (IF at[t].step = Reserving(d) THEN 1 ELSE 0)
      BY DEF Balanced
    <3>2. at[t].step # Reserving(d)
      BY <2>1, <1>2, <1>4
    <3>3. CASE d = b
      BY <3>2, <3>3, <2>1, <2>6
    <3>4. CASE d # b
      <4>1. Reserving(b) # Reserving(d)
        BY <3>4, <1>4
      <4>. QED
        BY <4>1, <3>2, <3>4, <2>1, <2>6
    <3>. QED
      BY <3>3, <3>4
  <2>8. /\ at[t].step # "rest"
        /\ Assumed(at[t]) \cap inForce \subseteq Assumed(CallAt(at[t], Reserving(b), g))
    BY <2>1, <2>3, <2>5, <1>2, <1>3
  <2>9. /\ inForce \subseteq inForce' /\ inForce' \subseteq Tables /\ g \subseteq inForce'
    BY <2>1, <1>1, <1>2, <1>5
  <2>. QED
    BY <2>1, <2>2, <2>6, <2>7, <2>8, <2>9, <1>3, LookStep
<1>8. CASE TableRefused(t, b) /\ b # "sites"
  <2>1. /\ c.step = b /\ b \notin inForce /\ inForce' = inForce /\ mapped' = mapped
        /\ entries' = entries /\ truth' = truth /\ skipped' = skipped /\ asked' = asked
        /\ at' = [at EXCEPT ![t].step = After(b)]
    BY <1>2, <1>8 DEF TableRefused
  <2>2. CallGoes(t, After(b), g)
    <3>1. PICK x \in NoteSteps : x = After(b)
      BY <1>3
    <3>2. CallGoes(t, x, at[t].has)
      BY <3>1, <2>1, <1>1, CallSteps
    <3>. QED
      BY <3>1, <3>2, <1>2, <1>5
  <2>3. PICK a : a = CallAt(c, After(b), g)
    OBVIOUS
  <2>4. a.step = After(b) /\ a.has = g
    BY <2>3 DEF CallAt
  <2>5. Assumed(c) \cap inForce \subseteq Assumed(a)
    BY <2>1, <2>4, <1>3, <1>5 DEF Assumed
  <2>6. \A d \in Tables : c.step # Reserving(d) /\ After(b) # Reserving(d)
    BY <2>1, <1>4
  <2>7. Balanced(After(b), at[t].step)
    BY <2>1, <2>6, <1>2 DEF Balanced
  <2>8. /\ at[t].step # "rest"
        /\ Assumed(at[t]) \cap inForce \subseteq Assumed(CallAt(at[t], After(b), g))
    BY <2>1, <2>3, <2>5, <1>2, <1>3
  <2>9. /\ inForce \subseteq inForce' /\ inForce' \subseteq Tables /\ g \subseteq inForce'
        /\ mapped' \in [Tables -> Int]
    BY <2>1, <1>1, <1>2, <1>5
  <2>. QED
    BY <2>1, <2>2, <2>7, <2>8, <2>9, <1>3, LookStep
<1>9. CASE TableRefused(t, b) /\ b = "sites"
  <2>1. /\ c.step = b /\ inForce' = inForce /\ mapped' = mapped
        /\ entries' = entries /\ truth' = truth /\ skipped' = skipped + 1 /\ asked' = asked
        /\ at' = [at EXCEPT ![t] = Rest]
    BY <1>2, <1>9 DEF TableRefused
  <2>2. Rest \in Calls /\ Rest.has = {}
    BY DEF Rest, Calls, NoteSteps
  <2>3. Sized(entries[t], Assumed(Rest))
    BY <1>1, <2>2 DEF Sized, Assumed
  <2>4. at[t] # Rest
    BY <2>1, <1>1, <1>2, <1>3
  <2>5. skipped' + (IF Rest # Rest THEN 1 ELSE 0) + asked
          = skipped + (IF at[t] # Rest THEN 1 ELSE 0) + asked'
    BY <2>1, <2>4, <1>1
  <2>6. \A d \in Tables : c.step # Reserving(d) /\ Rest.step # Reserving(d)
    BY <2>1, <1>1, <1>4, TablesAre
  <2>7. \A d \in Tables :
            mapped'[d] - (IF d \in inForce' THEN 1 ELSE 0)
                       - (IF Rest.step = Reserving(d) THEN 1 ELSE 0)
              = mapped[d] - (IF d \in inForce THEN 1 ELSE 0)
                          - (IF at[t].step = Reserving(d) THEN 1 ELSE 0)
    BY <2>1, <2>6, <1>2
  <2>8. /\ inForce \subseteq inForce' /\ inForce' \subseteq Tables /\ Rest.has \subseteq inForce'
        /\ mapped' \in [Tables -> Int] /\ skipped' \in Nat /\ asked' \in Nat
        /\ IF Rest.step = "rest" THEN Rest = Rest ELSE Rest.site \in Sites
    BY <2>1, <2>2, <1>1
  <2>. QED
    BY <2>1, <2>2, <2>3, <2>5, <2>7, <2>8, QuietNote
<1>10. CASE TablePublish(t, b)
  <2>1. /\ c.step = Reserving(b) /\ inForce' = inForce \cup {b}
        /\ mapped' = IF b \in inForce THEN [mapped EXCEPT ![b] = @ - 1] ELSE mapped
        /\ entries' = entries /\ truth' = truth /\ skipped' = skipped /\ asked' = asked
        /\ at' = [at EXCEPT ![t].step = After(b), ![t].has = @ \cup {b}]
    BY <1>2, <1>10 DEF TablePublish
  <2>2. CallGoes(t, After(b), h)
    <3>1. PICK x \in NoteSteps : x = After(b)
      BY <1>3
    <3>2. CallGoes(t, x, at[t].has \cup {b})
      BY <3>1, <2>1, <1>1, CallStepsWith
    <3>. QED
      BY <3>1, <3>2, <1>2, <1>5
  <2>3. PICK a : a = CallAt(c, After(b), h)
    OBVIOUS
  <2>4. a.step = After(b) /\ a.has = h
    BY <2>3 DEF CallAt
  <2>5. Assumed(c) \cap inForce \subseteq Assumed(a)
    BY <2>1, <2>4, <1>3, <1>5 DEF Assumed
  <2>6. mapped' \in [Tables -> Int] /\ mapped[b] \in Int
        /\ mapped'[b] = (IF b \in inForce THEN mapped[b] - 1 ELSE mapped[b])
        /\ \A d \in Tables : d # b => mapped'[d] = mapped[d]
    BY <2>1, <1>1
  <2>7. Balanced(After(b), at[t].step)
    <3>1. SUFFICES ASSUME NEW d \in Tables
                   PROVE  mapped'[d] - (IF d \in inForce' THEN 1 ELSE 0)
                                     - (IF After(b) = Reserving(d) THEN 1 ELSE 0)
                            = mapped[d] - (IF d \in inForce THEN 1 ELSE 0)
                                        - (IF at[t].step = Reserving(d) THEN 1 ELSE 0)
      BY DEF Balanced
    <3>2. After(b) # Reserving(d)
      BY <1>4
    <3>3. CASE d = b
      <4>1. at[t].step = Reserving(d) /\ d \in inForce'
        BY <3>3, <2>1, <1>2
      <4>. QED
        BY <4>1, <3>2, <3>3, <2>6
    <3>4. CASE d # b
      <4>1. at[t].step # Reserving(d) /\ (d \in inForce' <=> d \in inForce)
        BY <3>4, <2>1, <1>2, <1>4
      <4>. QED
        BY <4>1, <3>2, <3>4, <2>6
    <3>. QED
      BY <3>3, <3>4
  <2>8. /\ at[t].step # "rest"
        /\ Assumed(at[t]) \cap inForce \subseteq Assumed(CallAt(at[t], After(b), h))
    BY <2>1, <2>3, <2>5, <1>2, <1>3
  <2>9. inForce \subseteq inForce' /\ inForce' \subseteq Tables /\ h \subseteq inForce'
    BY <2>1, <1>1, <1>2, <1>5
  <2>. QED
    BY <2>1, <2>2, <2>6, <2>7, <2>8, <2>9, <1>3, LookStep
<1>. QED
  BY <1>6, <1>7, <1>8, <1>9, <1>10

(* The call that has what it could get is noted down, in the row of its thread. *)
LEMMA NoteStep ==
    ASSUME SitesInv, NEW t \in Noters, Note(t)
    PROVE  SitesInv'
<1>1. /\ inForce \subseteq Tables /\ mapped \in [Tables -> Int] /\ skipped \in Nat /\ asked \in Nat
      /\ at \in [Noters -> Calls] /\ \A r \in Noters : CallFits(at[r])
      /\ entries \in [Noters -> [SiteSlots -> Entries]] /\ TruthIs
      /\ \A r \in Noters : RowStands(r)
      /\ Total + skipped + Cardinality(Standing) = asked
      /\ OneTableEach
  BY DEF SitesInv
<1>2. PICK c \in Calls : c = at[t]
  BY <1>1
<1>3. PICK s, n, has : s = c.site /\ n = c.n /\ has = c.has
  OBVIOUS
<1>4. /\ c.step = "note" /\ inForce' = inForce /\ mapped' = mapped
      /\ skipped' = skipped /\ asked' = asked /\ at' = [at EXCEPT ![t] = Rest]
  BY <1>2 DEF Note
<1>5. s \in Sites /\ n \in Nat /\ has \in SUBSET Tables /\ has \subseteq inForce
  <2>1. CallFits(c)
    BY <1>1, <1>2
  <2>. QED
    BY <2>1, <1>3, <1>4 DEF CallFits, Calls
<1>6. PICK row, tr : row = entries[t] /\ tr = truth[t]
  OBVIOUS
<1>7. row \in [SiteSlots -> Entries] /\ tr \in [Sites -> [count : Nat, bytes : Nat]]
  BY <1>1, <1>6 DEF TruthIs
<1>8. PICK new, t2 : new = RowAfter(row, s, n, has) /\ t2 = NotedMore(tr, s, n)
  OBVIOUS
<1>9. entries' = [entries EXCEPT ![t] = new]
  <2>1. CASE Slot(row, s) # NumSlots
    <3>1. entries' = [entries EXCEPT ![t][Slot(row, s)] = Counted(@, s, n, has)]
      BY <2>1, <1>2, <1>3, <1>6 DEF Note
    <3>2. new = [row EXCEPT ![Slot(row, s)] = Counted(row[Slot(row, s)], s, n, has)]
      BY <2>1, <1>8 DEF RowAfter
    <3>. QED
      BY <3>1, <3>2, <1>1, <1>6
  <2>2. CASE Slot(row, s) = NumSlots
    <3>1. entries' = [entries EXCEPT ![t][Weakest(row, s)] = TakenOver(@, s, n, has)]
      BY <2>2, <1>2, <1>3, <1>6 DEF Note
    <3>2. new = [row EXCEPT ![Weakest(row, s)] = TakenOver(row[Weakest(row, s)], s, n, has)]
      BY <2>2, <1>8 DEF RowAfter
    <3>. QED
      BY <3>1, <3>2, <1>1, <1>6
  <2>. QED
    BY <2>1, <2>2
<1>10. truth' = [truth EXCEPT ![t] = t2]
  <2>1. truth' = [truth EXCEPT ![t][s] = [count |-> @.count + 1, bytes |-> @.bytes + n]]
    BY <1>2, <1>3 DEF Note
  <2>2. t2 = [tr EXCEPT ![s] = [count |-> @.count + 1, bytes |-> @.bytes + n]]
    BY <1>8 DEF NotedMore
  <2>. QED
    BY <2>1, <2>2, <1>1, <1>6 DEF TruthIs
<1>11. RowFits(row, tr) /\ Sized(row, inForce) /\ Sized(row, Assumed(c))
  BY <1>1, <1>2, <1>6 DEF RowStands
<1>12. Sized(row, has)
  <2>1. Assumed(c) = has
    BY <1>3, <1>4 DEF Assumed
  <2>. QED
    BY <2>1, <1>11
<1>13. /\ RowFits(new, t2) /\ Sized(new, has)
       /\ SumFunction(RowCounts(new)) = SumFunction(RowCounts(row)) + 1
       /\ SumFunction(RowCounts(row)) \in Nat
  BY <1>5, <1>8, <1>11, <1>12, RowGoesOn
<1>14. new \in [SiteSlots -> Entries] /\ t2 \in [Sites -> [count : Nat, bytes : Nat]]
  BY <1>13 DEF RowFits
<1>15. Rest \in Calls /\ Rest.step = "rest" /\ Rest.has = {}
  BY DEF Rest, Calls, NoteSteps
<1>16. /\ at' \in [Noters -> Calls] /\ at'[t] = Rest
       /\ \A r \in Noters : r # t => at'[r] = at[r]
       /\ Cardinality(Standing) \in Nat /\ Cardinality(Standing') \in Nat
       /\ Cardinality(Standing') + (IF at[t] # Rest THEN 1 ELSE 0)
            = Cardinality(Standing) + (IF Rest # Rest THEN 1 ELSE 0)
       /\ \A b \in Tables :
             /\ Cardinality(Mapping(b)) \in Nat /\ Cardinality(Mapping(b)') \in Nat
             /\ Cardinality(Mapping(b)') + (IF at[t].step = Reserving(b) THEN 1 ELSE 0)
                  = Cardinality(Mapping(b)) + (IF Rest.step = Reserving(b) THEN 1 ELSE 0)
  <2>1. CallMoved(t, Rest)
    BY <1>1, <1>4, <1>15, CallMoves
  <2>. QED
    BY <2>1 DEF CallMoved
<1>17. \A r \in Noters : CallFits(at[r])'
  <2>1. SUFFICES ASSUME NEW r \in Noters PROVE CallFits(at[r])'
    OBVIOUS
  <2>2. CASE r = t
    BY <2>2, <1>15, <1>16 DEF CallFits
  <2>3. CASE r # t
    BY <2>3, <1>1, <1>4, <1>16 DEF CallFits
  <2>. QED
    BY <2>2, <2>3
<1>18. \A r \in Noters : RowStands(r)'
  <2>1. SUFFICES ASSUME NEW r \in Noters PROVE RowStands(r)'
    OBVIOUS
  <2>2. CASE r = t
    <3>1. entries'[r] = new /\ truth'[r] = t2 /\ at'[r] = Rest
      BY <2>2, <1>1, <1>9, <1>10, <1>16 DEF TruthIs
    <3>2. Sized(new, inForce')
      BY <1>4, <1>5, <1>13 DEF Sized
    <3>3. Sized(new, Assumed(Rest))
      BY <1>15 DEF Sized, Assumed
    <3>. QED
      BY <3>1, <3>2, <3>3, <1>13 DEF RowStands
  <2>3. CASE r # t
    <3>1. entries'[r] = entries[r] /\ truth'[r] = truth[r] /\ at'[r] = at[r]
      BY <2>3, <1>1, <1>9, <1>10, <1>16 DEF TruthIs
    <3>. QED
      BY <3>1, <1>1, <1>4 DEF RowStands
  <2>. QED
    BY <2>2, <2>3
<1>19. /\ entries' \in [Noters -> [SiteSlots -> Entries]]
       /\ TruthIs'
  BY <1>1, <1>9, <1>10, <1>14 DEF TruthIs
<1>20. Total' = Total + 1 /\ Total \in Nat
  <2>1. IsFiniteSet(Noters) /\ IsFiniteSet(SiteSlots)
    <3>1. 0 \in Int /\ NumSlots - 1 \in Int
      BY SitesAssumption
    <3>. QED
      BY <3>1, SitesAssumption, FS_Interval DEF SiteSlots
  <2>2. ASSUME NEW r \in Noters PROVE SumFunction(RowCounts(entries[r])) \in Nat
    <3>1. PICK f : f = RowCounts(entries[r])
      OBVIOUS
    <3>2. \A i \in SiteSlots : entries[r][i].count \in Nat
      BY <1>1, EntryIs
    <3>3. f \in [SiteSlots -> Nat]
      BY <3>1, <3>2 DEF RowCounts
    <3>. QED
      BY <3>1, <3>3, <2>1, SumType
  <2>3. PICK f, g : /\ f = [r \in Noters |-> SumFunction(RowCounts(entries[r]))]
                    /\ g = [r \in Noters |-> SumFunction(RowCounts(entries'[r]))]
    OBVIOUS
  <2>4. f \in [Noters -> Nat]
    BY <2>2, <2>3
  <2>5. \A r \in Noters : r # t => g[r] = f[r]
    BY <2>3, <1>1, <1>9
  <2>6. g[t] = f[t] + 1
    BY <2>3, <1>1, <1>6, <1>9, <1>13
  <2>7. g \in [Noters -> Nat]
    <3>1. \A r \in Noters : g[r] \in Nat
      BY <2>4, <2>5, <2>6
    <3>. QED
      BY <3>1, <2>3
  <2>8. SumFunction(g) = SumFunction(f) + 1 /\ SumFunction(f) \in Nat
    BY <2>1, <2>4, <2>5, <2>6, <2>7, SumMoves, SumType
  <2>. QED
    BY <2>3, <2>8 DEF Total
<1>21. Total' + skipped' + Cardinality(Standing') = asked'
  <2>1. PICK T, u, v, k, a \in Int :
            T = Total /\ u = Cardinality(Standing) /\ v = Cardinality(Standing')
            /\ k = skipped /\ a = asked
    BY <1>1, <1>16, <1>20
  <2>2. at[t] # Rest
    BY <1>2, <1>4, <1>15
  <2>3. v + 1 = u
    BY <2>1, <2>2, <1>16
  <2>4. T + k + u = a
    BY <2>1, <1>1
  <2>5. (T + 1) + k + v = a
    BY <2>3, <2>4
  <2>. QED
    BY <2>1, <2>5, <1>4, <1>20
<1>22. OneTableEach'
  <2>1. \A b \in Tables :
            mapped[b] = (IF b \in inForce THEN 1 ELSE 0) + Cardinality(Mapping(b))
    BY <1>1 DEF OneTableEach, Mapping
  <2>2. SUFFICES \A b \in Tables :
            mapped'[b] = (IF b \in inForce' THEN 1 ELSE 0) + Cardinality(Mapping(b)')
    BY DEF OneTableEach, Mapping
  <2>3. SUFFICES ASSUME NEW b \in Tables
                 PROVE  mapped'[b] = (IF b \in inForce' THEN 1 ELSE 0) + Cardinality(Mapping(b)')
    OBVIOUS
  <2>4. at[t].step # Reserving(b) /\ Rest.step # Reserving(b)
    BY <1>2, <1>4, <1>15, TablesAre
  <2>5. Cardinality(Mapping(b)') = Cardinality(Mapping(b))
    BY <2>4, <1>16
  <2>. QED
    BY <2>1, <2>5, <1>4
<1>. QED
  BY <1>1, <1>4, <1>16, <1>17, <1>18, <1>19, <1>21, <1>22 DEF SitesInv

(* So does every step.                                                        *)
LEMMA SitesStep == SitesInv /\ [SitesNext]_siteVars => SitesInv'
<1>1. SUFFICES ASSUME SitesInv, [SitesNext]_siteVars PROVE SitesInv'
  OBVIOUS
<1>2. CASE UNCHANGED siteVars
  <2>1. /\ inForce' = inForce /\ mapped' = mapped /\ entries' = entries /\ skipped' = skipped
        /\ at' = at /\ asked' = asked /\ truth' = truth
    BY <1>2 DEF siteVars
  <2>2. Total' = Total /\ Standing' = Standing /\ TruthIs' /\ OneTableEach'
    BY <2>1, <1>1 DEF Total, Standing, TruthIs, OneTableEach, SitesInv
  <2>3. \A t \in Noters : CallFits(at[t])' /\ RowStands(t)'
    BY <2>1, <1>1 DEF CallFits, RowStands, SitesInv
  <2>. QED
    BY <2>1, <2>2, <2>3, <1>1 DEF SitesInv
<1>3. CASE SitesNext
  <2>1. PICK t \in Noters :
            \/ \E s \in Sites, n \in Amounts : NoteBegin(t, s, n)
            \/ \E b \in Tables :
                  TableThere(t, b) \/ TableReserve(t, b) \/ TableRefused(t, b)
                    \/ TablePublish(t, b)
            \/ Note(t)
    BY <1>3 DEF SitesNext
  <2>2. CASE \E s \in Sites, n \in Amounts : NoteBegin(t, s, n)
    BY <2>2, <1>1, BeginStep
  <2>3. CASE \E b \in Tables :
                TableThere(t, b) \/ TableReserve(t, b) \/ TableRefused(t, b)
                  \/ TablePublish(t, b)
    BY <2>3, <1>1, TableStep
  <2>4. CASE Note(t)
    BY <2>4, <1>1, NoteStep
  <2>. QED
    BY <2>1, <2>2, <2>3, <2>4
<1>. QED
  BY <1>1, <1>2, <1>3

(* What the report says follows from the state of the rows.                    *)
LEMMA SitesFollow == SitesInv => SitesAreTrue
<1>1. SUFFICES ASSUME SitesInv PROVE SitesAreTrue
  OBVIOUS
<1>2. /\ entries \in [Noters -> [SiteSlots -> Entries]] /\ TruthIs
      /\ \A t \in Noters : RowStands(t)
      /\ Total + skipped + Cardinality(Standing) = asked
      /\ OneTableEach
  BY <1>1 DEF SitesInv
<1>3. \A t \in Noters : RowFits(entries[t], truth[t])
  BY <1>2 DEF RowStands
<1>4. \A t \in Noters : \A i \in SiteSlots :
          LET e == entries[t][i] IN
          e.site # Nobody =>
              /\ Backed(e, truth[t][e.site])
              /\ KeepsTogether(e.site) => truth[t][e.site].count <= e.count
  BY <1>3 DEF RowFits, RowHolds
<1>5. RowsAreWhole
  BY <1>2, <1>3 DEF RowsAreWhole, RowFits
<1>6. RowsAreBacked
  BY <1>4 DEF RowsAreBacked
<1>7. FloorIsEarned
  <2>1. ASSUME NEW max \in 1 .. NumSlots
        PROVE  LET list == Snapshot(max) IN
               /\ \A k \in DOMAIN list : Backed(list[k], NotedAt(list[k].site))
               /\ \A k \in DOMAIN list : \A j \in DOMAIN list :
                     k < j => /\ list[k].site # list[j].site
                              /\ Earned(list[k]) >= Earned(list[j])
    <3>1. max \in Nat \ {0}
      BY SitesAssumption
    <3>. QED
      BY <3>1, <1>2, <1>5, <1>6, SnapshotIs
  <2>. QED
    BY <2>1, <1>4 DEF FloorIsEarned
<1>8. NothingUncounted
  BY <1>2 DEF NothingUncounted, Total, RowCounts, Standing
<1>9. RowsInBounds
  BY <1>4 DEF RowsInBounds
<1>. QED
  BY <1>2, <1>7, <1>8, <1>9 DEF SitesAreTrue

(* The rows and the calls stay what they should be, for any threads, sites,     *)
(* slots, windows and amounts.                                                 *)
THEOREM SitesInvariant == SitesSpec => []SitesInv
<1>1. SitesInit => SitesInv
  BY SitesStart
<1>2. SitesInv /\ [SitesNext]_siteVars => SitesInv'
  BY SitesStep
<1>. QED
  BY <1>1, <1>2, PTL DEF SitesSpec

(* SitesAreTrue: floors are earned, in the rows and in every list made of them, *)
(* nothing is uncounted, one table of each, and a row's counts are no less than *)
(* the truth where windows do not overlap in part.                              *)
THEOREM SitesAreBacked == SitesSpec => []SitesAreTrue
<1>1. SitesInv => SitesAreTrue
  BY SitesFollow
<1>. QED
  BY <1>1, SitesInvariant, PTL
==============================================================================
