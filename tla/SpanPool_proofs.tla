--------------------------- MODULE SpanPool_proofs ---------------------------
(***************************************************************************)
(* Proofs about SpanPool for every set of threads, every size of region     *)
(* and every ceiling: the chunks taken are tiled by spans, the lists and    *)
(* the marks agree, the bytes parked are what is counted, and the program   *)
(* sees a SpanHeap.                                                         *)
(*                                                                         *)
(* The argument carries a map of the region: kind says of each chunk what   *)
(* begins there ("none" if nothing does), who says in which list, cache or  *)
(* hand it is, and size how long it is.  The map is not a variable of the   *)
(* model: the invariant says that there is one.                             *)
(***************************************************************************)
EXTENDS SpanPool, TLAPS, FiniteSetTheorems, SequenceTheorems, NaturalsInduction,
        WellFoundedInduction

SpanKinds == {"live", "list", "parked", "cache", "cur", "node"}
Kinds == SpanKinds \cup {"none", "fresh", "tail", "lost"}

\* Something begins at h, and what begins tiles the chunks up to end.
Busy(kind, h) == kind[h] # "none"
Tiles(kind, size, end) ==
    /\ \A h \in Chunks : Busy(kind, h) =>
          size[h] >= 1 /\ h + size[h] - 1 <= end /\ h + size[h] - 1 <= Region
    /\ \A g, h \in Chunks : Busy(kind, g) /\ Busy(kind, h) /\ g < h => g + size[g] <= h
    /\ \A c \in Chunks : c <= end =>
          \E h \in Chunks : Busy(kind, h) /\ h <= c /\ c < h + size[h]

Frees == {"park", "again", "return", "coalesce"}
\* The thread holds a span that is nowhere else: cur, or node.
HoldsCur(t) == cur[t] # None /\ (class[t] > 0 \/ pc[t] \in Frees \cup {"uncount", "push"})
HoldsNode(t) == pc[t] \in {"sweepUncount", "sweepInsert"}

MapType(kind, who, size) ==
    /\ kind \in [Chunks -> Kinds]
    /\ who = [h \in Chunks |-> who[h]]
    /\ size \in [Chunks -> Nat]

LiveAt(kind) ==
    \A h \in Chunks : (live[h] > 0 <=> kind[h] = "live") /\ live[h] <= len[h]

ListAt(kind, who) ==
    /\ \A k \in 1 .. MaxSpan :
          /\ IsInjective(list[k])
          /\ \A h \in Chunks : h \in Range(list[k]) <=> kind[h] = "list" /\ who[h] = k
    /\ \A h \in Chunks : kind[h] = "list" => who[h] \in 1 .. MaxSpan

ParkedAt(kind, who) ==
    /\ \A k \in 1 .. MaxSpan :
          /\ IsInjective(parked[k])
          /\ \A h \in Chunks : h \in Range(parked[k]) <=> kind[h] = "parked" /\ who[h] = k
    /\ \A h \in Chunks : kind[h] = "parked" => who[h] \in 1 .. MaxSpan /\ len[h] = who[h]

CacheAt(kind, who) ==
    /\ \A t \in HasCache : \A k \in 1 .. CacheSlots :
          /\ IsInjective(cache[t][k])
          /\ \A h \in Chunks :
                h \in Range(cache[t][k]) <=> kind[h] = "cache" /\ who[h] = t /\ len[h] = k
    /\ \A h \in Chunks : kind[h] = "cache" => who[h] \in HasCache /\ len[h] \in 1 .. CacheSlots

CurAt(kind, who) ==
    /\ \A t \in Threads : HoldsCur(t) =>
          cur[t] \in Chunks /\ kind[cur[t]] = "cur" /\ who[cur[t]] = t
    /\ \A h \in Chunks : kind[h] = "cur" =>
          who[h] \in Threads /\ HoldsCur(who[h]) /\ cur[who[h]] = h

NodeAt(kind, who) ==
    /\ \A t \in Threads : HoldsNode(t) =>
          node[t] \in Chunks /\ kind[node[t]] = "node" /\ who[node[t]] = t
    /\ \A h \in Chunks : kind[h] = "node" =>
          who[h] \in Threads /\ HoldsNode(who[h]) /\ node[who[h]] = h

FreshAt(kind, who) ==
    /\ \A t \in Threads : pc[t] = "commit" /\ cur[t] \in Chunks =>
          kind[cur[t]] = "fresh" /\ who[cur[t]] = t
    /\ \A h \in Chunks : kind[h] = "fresh" =>
          who[h] \in Threads /\ pc[who[h]] = "commit" /\ cur[who[h]] = h

TailAt(kind, who) ==
    /\ \A t \in Threads : pc[t] = "extendCommit" =>
          /\ cur[t] + len[cur[t]] \in Chunks
          /\ kind[cur[t] + len[cur[t]]] = "tail" /\ who[cur[t] + len[cur[t]]] = t
    /\ \A h \in Chunks : kind[h] = "tail" =>
          who[h] \in Threads /\ pc[who[h]] = "extendCommit" /\ cur[who[h]] + len[cur[who[h]]] = h

LostAt(kind) == \A h \in Chunks : h \in lost <=> kind[h] = "lost"

MarkAt(kind) ==
    \A h \in Chunks :
        /\ h \in map <=> kind[h] = "list"
        /\ h \in free <=> kind[h] = "list"
        /\ kind[h] \in SpanKinds => h \in magic

SizeAt(kind, who, size) ==
    \A h \in Chunks :
        /\ kind[h] \in SpanKinds => size[h] = len[h]
        /\ kind[h] = "fresh" => size[h] = want[who[h]]
        /\ kind[h] = "tail" => size[h] = want[who[h]] - len[cur[who[h]]]
        /\ kind[h] = "lost" => size[h] = 1

\* A span listed under another length than its own is being merged.
Mending(t, h, k) == pc[t] = "mergeAbsorb" /\ node[t] = h /\ class[t] = k
LengthAt(kind, who) ==
    /\ \A h \in Chunks : kind[h] = "list" =>
          len[h] = who[h] \/ \E t \in Threads : Mending(t, h, who[h])
    /\ \A t \in Threads : pc[t] = "mergeAbsorb" =>
          node[t] \in Chunks /\ kind[node[t]] = "list" /\ who[node[t]] = class[t]

Extends == {"extend", "extendCommit"}
GrowAt(kind) ==
    /\ \A t \in Threads : pc[t] \in Extends =>
          /\ cur[t] \in Chunks /\ kind[cur[t]] = "live"
          /\ live[cur[t]] < want[t]
    /\ \A t, u \in Threads : pc[t] \in Extends /\ pc[u] \in Extends /\ cur[t] = cur[u] => t = u

-----------------------------------------------------------------------------
Sweeps == {"sweep", "sweepUncount", "sweepInsert", "merge", "mergeAbsorb"}
\* What a thread has in its own variables at each step, ...
LocalOK(t) ==
    /\ pc[t] \in Sweeps =>
          /\ class[t] \in 1 .. MaxSpan + 1
          /\ cur[t] # None => cur[t] \in Chunks
          /\ pc[t] \in {"sweep", "merge"} => node[t] = None
          /\ pc[t] \in {"sweepUncount", "sweepInsert", "mergeAbsorb"} =>
                class[t] <= MaxSpan /\ node[t] \in Chunks
    /\ pc[t] \notin Sweeps => class[t] = 0 /\ node[t] = None
    /\ pc[t] \in {"idle", "unpark", "take", "fresh"} => cur[t] = None
    /\ pc[t] \in Frees \cup {"uncount", "push", "extend", "extendCommit"} => cur[t] \in Chunks
    /\ pc[t] \in {"unpark", "take", "fresh", "uncount", "commit", "extend", "extendCommit"} =>
          want[t] >= 1
    /\ pc[t] = "unpark" => want[t] <= MaxSpan
    /\ pc[t] = "commit" =>
          cur[t] \in Nat /\ cur[t] >= 1 /\ (cur[t] <= Region => cur[t] + want[t] - 1 <= Region)

\* ... and how long the span is that it has in hand.
HandOK(t) ==
    /\ pc[t] = "uncount" => want[t] = len[cur[t]]
    /\ pc[t] \in {"park", "again", "push"} => len[cur[t]] <= MaxSpan
    /\ class[t] > 0 /\ cur[t] # None => len[cur[t]] <= MaxSpan
    /\ pc[t] \in {"sweepUncount", "sweepInsert"} => len[node[t]] = class[t]
    /\ pc[t] = "mergeAbsorb" => len[node[t]] <= MaxSpan
    /\ pc[t] = "extend" => len[cur[t]] < want[t] + MaxSpan
    /\ pc[t] = "extendCommit" => len[cur[t]] < want[t]

CeilingOK(t) ==
    pc[t] \in {"park", "again"} \/ (class[t] > 0 /\ cur[t] # None) => want[t] <= Ceiling

Locks ==
    /\ lock # None => lock \in Threads
    /\ \A t \in Threads : lock = t <=> pc[t] \in {"coalesce", "mergeAbsorb", "extend"}
    /\ \A t \in Threads : sweeping = t <=> class[t] > 0 /\ cur[t] # None

Seats(kind, who) ==
    /\ LiveAt(kind) /\ ListAt(kind, who) /\ ParkedAt(kind, who) /\ CacheAt(kind, who)
    /\ CurAt(kind, who) /\ NodeAt(kind, who) /\ FreshAt(kind, who) /\ TailAt(kind, who)
    /\ LostAt(kind) /\ MarkAt(kind) /\ LengthAt(kind, who) /\ GrowAt(kind)

Hands == \A t \in Threads : LocalOK(t) /\ HandOK(t) /\ CeilingOK(t)

MapOK(kind, who, size) ==
    /\ MapType(kind, who, size)
    /\ Tiles(kind, size, cursor)
    /\ Seats(kind, who)
    /\ SizeAt(kind, who, size)

-----------------------------------------------------------------------------
LEMMA Bounds ==
    /\ Region \in Nat \ {0} /\ MaxSpan \in Nat \ {0} /\ Share \in Nat \ {0}
    /\ MaxWant \in Nat /\ CacheSlots \in Nat /\ CacheMax \in Nat /\ RecycleMin \in Nat
    /\ CacheSlots <= MaxSpan
    /\ HasCache \subseteq Threads
    /\ None \notin Threads /\ None \notin Chunks
BY PoolAssumption

LEMMA ChunkIs == \A h : h \in Chunks <=> h \in Nat /\ 1 <= h /\ h <= Region
BY Bounds DEF Chunks

(* A span put at the head of a list.                                        *)
LEMMA RowCons ==
    ASSUME NEW s \in Row, NEW h \in Chunks, IsInjective(s), h \notin Range(s)
    PROVE  /\ <<h>> \o s \in Row
           /\ IsInjective(<<h>> \o s)
           /\ \A g : g \in Range(<<h>> \o s) <=> g = h \/ g \in Range(s)
<1>. DEFINE q == <<h>> \o s
<1>1. q \in Seq(Chunks) /\ Len(q) = Len(s) + 1 /\ q[1] = h /\ Len(s) \in Nat
      /\ DOMAIN q = 1 .. Len(s) + 1 /\ DOMAIN s = 1 .. Len(s)
  BY DEF Row
<1>2. \A i \in 2 .. Len(s) + 1 : q[i] = s[i - 1]
  BY DEF Row
<1>3. \A i \in 1 .. Len(s) : q[i + 1] = s[i]
  BY <1>1, <1>2
<1>. HIDE DEF q
<1>4. \A g : g \in Range(q) <=> g = h \/ g \in Range(s)
  <2>1. ASSUME NEW g, g \in Range(q) PROVE g = h \/ g \in Range(s)
    BY <2>1, <1>1, <1>2 DEF Range
  <2>2. h \in Range(q)
    BY <1>1 DEF Range
  <2>3. ASSUME NEW g, g \in Range(s) PROVE g \in Range(q)
    <3>1. PICK i \in 1 .. Len(s) : g = s[i]
      BY <2>3, <1>1 DEF Range
    <3>2. i + 1 \in DOMAIN q /\ q[i + 1] = g
      BY <3>1, <1>1, <1>3
    <3>. QED
      BY <3>2 DEF Range
  <2>. QED
    BY <2>1, <2>2, <2>3
<1>5. IsInjective(q)
  <2>. SUFFICES ASSUME NEW a \in 1 .. Len(s) + 1, NEW b \in 1 .. Len(s) + 1, q[a] = q[b]
                PROVE  a = b
    BY <1>1 DEF IsInjective
  <2>1. \A i \in 2 .. Len(s) + 1 : q[i] # h
    BY <1>1, <1>2 DEF Range
  <2>2. CASE a = 1 \/ b = 1
    BY <2>1, <2>2, <1>1
  <2>3. CASE a # 1 /\ b # 1
    <3>1. a - 1 \in DOMAIN s /\ b - 1 \in DOMAIN s /\ s[a - 1] = s[b - 1]
      BY <2>3, <1>1, <1>2
    <3>. QED
      BY <3>1, <1>1 DEF IsInjective
  <2>. QED
    BY <2>2, <2>3
<1>. QED
  BY <1>1, <1>4, <1>5 DEF q, Row

(* One taken from the head, ...                                             *)
LEMMA RowTail ==
    ASSUME NEW s \in Row, s # <<>>, IsInjective(s)
    PROVE  /\ Tail(s) \in Row /\ Head(s) \in Chunks /\ Head(s) \in Range(s)
           /\ IsInjective(Tail(s))
           /\ \A g : g \in Range(Tail(s)) <=> g # Head(s) /\ g \in Range(s)
<1>. DEFINE q == Tail(s)
<1>1. q \in Seq(Chunks) /\ Len(q) = Len(s) - 1 /\ Len(s) \in Nat /\ Len(s) >= 1
      /\ DOMAIN q = 1 .. Len(s) - 1 /\ DOMAIN s = 1 .. Len(s) /\ Head(s) = s[1]
      /\ s[1] \in Chunks
  BY DEF Row
<1>2. \A i \in 1 .. Len(s) - 1 : q[i] = s[i + 1]
  BY DEF Row
<1>. HIDE DEF q
<1>3. Head(s) \in Range(s)
  BY <1>1 DEF Range
<1>4. \A g : g \in Range(q) <=> g # Head(s) /\ g \in Range(s)
  <2>1. ASSUME NEW i \in 1 .. Len(s) - 1 PROVE q[i] # s[1] /\ q[i] \in Range(s)
    <3>1. i + 1 \in DOMAIN s /\ 1 \in DOMAIN s /\ i + 1 # 1 /\ q[i] = s[i + 1]
      BY <1>1, <1>2
    <3>. QED
      BY <3>1 DEF IsInjective, Range
  <2>2. ASSUME NEW g, g \in Range(s), g # s[1] PROVE g \in Range(q)
    <3>1. PICK i \in 1 .. Len(s) : g = s[i]
      BY <2>2, <1>1 DEF Range
    <3>2. i - 1 \in DOMAIN q /\ q[i - 1] = g
      BY <3>1, <2>2, <1>1, <1>2
    <3>. QED
      BY <3>2 DEF Range
  <2>3. ASSUME NEW g, g \in Range(q) PROVE \E i \in 1 .. Len(s) - 1 : g = q[i]
    BY <2>3, <1>1 DEF Range
  <2>. QED
    BY <2>1, <2>2, <2>3, <1>1
<1>5. IsInjective(q)
  <2>. SUFFICES ASSUME NEW a \in 1 .. Len(s) - 1, NEW b \in 1 .. Len(s) - 1, q[a] = q[b]
                PROVE  a = b
    BY <1>1 DEF IsInjective
  <2>1. a + 1 \in DOMAIN s /\ b + 1 \in DOMAIN s /\ s[a + 1] = s[b + 1]
    BY <1>1, <1>2
  <2>. QED
    BY <2>1, <1>1 DEF IsInjective
<1>. QED
  BY <1>1, <1>3, <1>4, <1>5 DEF q, Row

(* ... and one taken from wherever it is (list_remove).                     *)
LEMMA RowWithout ==
    ASSUME NEW s \in Row, NEW h \in Range(s), IsInjective(s)
    PROVE  /\ Without(s, h) \in Row
           /\ IsInjective(Without(s, h))
           /\ \A g : g \in Range(Without(s, h)) <=> g # h /\ g \in Range(s)
<1>. DEFINE q == Without(s, h)
<1>1. PICK i \in DOMAIN s : i = (CHOOSE j \in DOMAIN s : s[j] = h) /\ s[i] = h
  BY DEF Range
<1>2. Len(s) \in Nat /\ DOMAIN s = 1 .. Len(s) /\ i \in Nat /\ 1 <= i /\ i <= Len(s)
  BY <1>1 DEF Row
<1>3. q = SubSeq(s, 1, i - 1) \o SubSeq(s, i + 1, Len(s))
  BY <1>1 DEF Without
<1>. HIDE DEF q
<1>4. /\ q \in Seq(Chunks) /\ DOMAIN q = 1 .. Len(s) - 1
      /\ \A j \in 1 .. i - 1 : q[j] = s[j]
      /\ \A j \in i .. Len(s) - 1 : q[j] = s[j + 1]
  <2>. DEFINE a == SubSeq(s, 1, i - 1)
              b == SubSeq(s, i + 1, Len(s))
  <2>1. a \in Seq(Chunks) /\ Len(a) = i - 1 /\ \A j \in 1 .. i - 1 : a[j] = s[j]
    BY <1>2, SubSeqProperties DEF Row
  <2>2. b \in Seq(Chunks) /\ Len(b) = Len(s) - i /\ \A j \in 1 .. Len(s) - i : b[j] = s[j + i]
    BY <1>2, SubSeqProperties DEF Row
  <2>. HIDE DEF a, b
  <2>3. /\ a \o b \in Seq(Chunks) /\ Len(a \o b) = Len(s) - 1
        /\ \A j \in 1 .. Len(s) - 1 : (a \o b)[j] = IF j <= i - 1 THEN a[j] ELSE b[j - (i - 1)]
    <3>1. Len(a) + Len(b) = Len(s) - 1
      BY <2>1, <2>2, <1>2
    <3>2. /\ a \o b \in Seq(Chunks) /\ Len(a \o b) = Len(a) + Len(b)
          /\ \A j \in 1 .. Len(a) + Len(b) :
                (a \o b)[j] = IF j <= Len(a) THEN a[j] ELSE b[j - Len(a)]
      BY <2>1, <2>2, ConcatProperties
    <3>3. Len(a \o b) = Len(s) - 1
      BY <3>1, <3>2
    <3>. QED
      BY <3>1, <3>2, <3>3, <2>1
  <2>4. DOMAIN (a \o b) = 1 .. Len(s) - 1
    BY <2>3, <1>2
  <2>5. \A j \in 1 .. i - 1 : (a \o b)[j] = s[j]
    BY <2>1, <2>3, <1>2
  <2>6. \A j \in i .. Len(s) - 1 : (a \o b)[j] = s[j + 1]
    <3>1. ASSUME NEW j \in i .. Len(s) - 1 PROVE (a \o b)[j] = s[j + 1]
      <4>1. j \in 1 .. Len(s) - 1 /\ ~(j <= i - 1) /\ j - (i - 1) \in 1 .. Len(s) - i
            /\ (j - (i - 1)) + i = j + 1
        BY <1>2
      <4>. QED
        BY <4>1, <2>2, <2>3
    <3>. QED
      BY <3>1
  <2>. QED
    BY <2>3, <2>4, <2>5, <2>6, <1>3 DEF a, b
<1>5. \A g : g \in Range(q) <=> g # h /\ g \in Range(s)
  <2>1. ASSUME NEW j \in 1 .. Len(s) - 1 PROVE q[j] # h /\ q[j] \in Range(s)
    <3>1. PICK m \in 1 .. Len(s) : q[j] = s[m] /\ m # i
      BY <1>2, <1>4
    <3>. QED
      BY <3>1, <1>1, <1>2 DEF IsInjective, Range
  <2>2. ASSUME NEW g, g \in Range(s), g # h PROVE g \in Range(q)
    <3>1. PICK m \in 1 .. Len(s) : g = s[m]
      BY <2>2, <1>2 DEF Range
    <3>2. m # i
      BY <3>1, <2>2, <1>1
    <3>3. \E j \in 1 .. Len(s) - 1 : q[j] = g
      <4>1. CASE m < i
        BY <4>1, <3>1, <1>2, <1>4
      <4>2. CASE m > i
        <5>1. m - 1 \in i .. Len(s) - 1 /\ (m - 1) + 1 = m
          BY <4>2, <1>2
        <5>. QED
          BY <5>1, <3>1, <1>2, <1>4
      <4>. QED
        BY <4>1, <4>2, <3>2, <1>2
    <3>. QED
      BY <3>3, <1>4 DEF Range
  <2>3. ASSUME NEW g, g \in Range(q) PROVE \E j \in 1 .. Len(s) - 1 : g = q[j]
    BY <2>3, <1>4 DEF Range
  <2>. QED
    BY <2>1, <2>2, <2>3
<1>6. IsInjective(q)
  <2>. SUFFICES ASSUME NEW a \in 1 .. Len(s) - 1, NEW b \in 1 .. Len(s) - 1, q[a] = q[b]
                PROVE  a = b
    BY <1>4 DEF IsInjective
  <2>1. PICK m \in 1 .. Len(s) : q[a] = s[m] /\ m = IF a < i THEN a ELSE a + 1
    BY <1>2, <1>4
  <2>2. PICK n \in 1 .. Len(s) : q[b] = s[n] /\ n = IF b < i THEN b ELSE b + 1
    BY <1>2, <1>4
  <2>3. m = n
    BY <2>1, <2>2, <1>2 DEF IsInjective
  <2>. QED
    BY <2>1, <2>2, <2>3, <1>2
<1>. QED
  BY <1>4, <1>5, <1>6 DEF q, Row

-----------------------------------------------------------------------------
(* The tiles.  Nothing begins or ends elsewhere when a span only changes    *)
(* hands.                                                                   *)
LEMMA TilesStay ==
    ASSUME NEW kind, NEW size, NEW kind2, NEW size2, NEW end,
           Tiles(kind, size, end),
           \A h \in Chunks : Busy(kind2, h) <=> Busy(kind, h),
           \A h \in Chunks : Busy(kind, h) => size2[h] = size[h]
    PROVE  Tiles(kind2, size2, end)
<1>. HIDE DEF Busy
<1>. QED
  BY DEF Tiles

(* A tile is split, ...                                                     *)
LEMMA TilesSplit ==
    ASSUME NEW kind, NEW size \in [Chunks -> Nat], NEW kind2, NEW size2 \in [Chunks -> Nat],
           NEW end \in Nat, Tiles(kind, size, end),
           NEW h \in Chunks, NEW n \in Nat, Busy(kind, h), 1 <= n, n < size[h],
           \A g \in Chunks : Busy(kind2, g) <=> Busy(kind, g) \/ g = h + n,
           size2[h] = n, h + n \in Chunks => size2[h + n] = size[h] - n,
           \A g \in Chunks : g # h /\ g # h + n => size2[g] = size[g]
    PROVE  Tiles(kind2, size2, end) /\ h + n \in Chunks /\ ~Busy(kind, h + n)
<1>. HIDE DEF Busy
<1>0. h \in Nat /\ Region \in Nat
  BY ChunkIs, Bounds
<1>1. h + size[h] - 1 <= end /\ h + size[h] - 1 <= Region /\ size[h] \in Nat
  BY DEF Tiles
<1>2. h + n \in Chunks
  BY <1>0, <1>1, ChunkIs
<1>3. ~Busy(kind, h + n)
  BY <1>0, <1>1, <1>2 DEF Tiles
<1>4. ASSUME NEW g \in Chunks, Busy(kind2, g)
      PROVE  size2[g] >= 1 /\ g + size2[g] - 1 <= end /\ g + size2[g] - 1 <= Region
  <2>1. CASE g # h /\ g # h + n
    BY <2>1, <1>4 DEF Tiles
  <2>2. CASE g = h \/ g = h + n
    BY <2>2, <1>0, <1>1, <1>2
  <2>. QED
    BY <2>1, <2>2
<1>5. ASSUME NEW f \in Chunks, NEW g \in Chunks, Busy(kind2, f), Busy(kind2, g), f < g
      PROVE  f + size2[f] <= g
  <2>0. f \in Nat /\ g \in Nat /\ size[f] \in Nat /\ size[g] \in Nat
    BY ChunkIs
  <2>1. CASE f # h /\ f # h + n /\ g # h + n
    BY <2>1, <1>5 DEF Tiles
  <2>2. CASE f # h /\ f # h + n /\ g = h + n
    BY <2>0, <2>2, <1>5, <1>0, <1>1, <1>2 DEF Tiles
  <2>3. CASE f = h /\ g # h + n
    BY <2>0, <2>3, <1>5, <1>0, <1>1, <1>2 DEF Tiles
  <2>4. CASE f = h /\ g = h + n
    BY <2>4
  <2>5. CASE f = h + n
    BY <2>0, <2>5, <1>5, <1>0, <1>1, <1>2 DEF Tiles
  <2>. QED
    BY <2>1, <2>2, <2>3, <2>4, <2>5, <1>0
<1>6. ASSUME NEW c \in Chunks, c <= end
      PROVE  \E g \in Chunks : Busy(kind2, g) /\ g <= c /\ c < g + size2[g]
  <2>1. PICK g \in Chunks : Busy(kind, g) /\ g <= c /\ c < g + size[g]
    BY <1>6 DEF Tiles
  <2>2. CASE g # h
    BY <2>1, <2>2, <1>3
  <2>3. CASE g = h /\ c < h + n
    BY <2>1, <2>3
  <2>4. CASE g = h /\ ~(c < h + n)
    <3>1. h + n <= c /\ c < (h + n) + size2[h + n]
      BY <2>1, <2>4, <1>0, <1>1, <1>2, ChunkIs
    <3>. QED
      BY <3>1, <1>2
  <2>. QED
    BY <2>2, <2>3, <2>4
<1>. QED
  BY <1>2, <1>3, <1>4, <1>5, <1>6 DEF Tiles

(* ... two that touch become one, ...                                       *)
LEMMA TilesJoin ==
    ASSUME NEW kind, NEW size \in [Chunks -> Nat], NEW kind2, NEW size2 \in [Chunks -> Nat],
           NEW end \in Nat, Tiles(kind, size, end),
           NEW h \in Chunks, NEW r \in Chunks, Busy(kind, h), Busy(kind, r), r = h + size[h],
           \A g \in Chunks : Busy(kind2, g) <=> Busy(kind, g) /\ g # r,
           size2[h] = size[h] + size[r],
           \A g \in Chunks : g # h => size2[g] = size[g]
    PROVE  Tiles(kind2, size2, end) /\ h # r
<1>. HIDE DEF Busy
<1>0. h \in Nat /\ r \in Nat /\ Region \in Nat /\ size[h] \in Nat /\ size[r] \in Nat
  BY ChunkIs, Bounds
<1>1. /\ h + size[h] - 1 <= end /\ h + size[h] - 1 <= Region /\ size[h] >= 1
      /\ r + size[r] - 1 <= end /\ r + size[r] - 1 <= Region /\ size[r] >= 1
  BY DEF Tiles
<1>2. h < r
  BY <1>0, <1>1
<1>4. ASSUME NEW g \in Chunks, Busy(kind2, g)
      PROVE  size2[g] >= 1 /\ g + size2[g] - 1 <= end /\ g + size2[g] - 1 <= Region
  <2>1. CASE g # h
    BY <2>1, <1>4 DEF Tiles
  <2>2. CASE g = h
    BY <2>2, <1>0, <1>1, <1>2
  <2>. QED
    BY <2>1, <2>2
<1>5. ASSUME NEW f \in Chunks, NEW g \in Chunks, Busy(kind2, f), Busy(kind2, g), f < g
      PROVE  f + size2[f] <= g
  <2>0. f \in Nat /\ g \in Nat /\ size[f] \in Nat /\ size[g] \in Nat
    BY ChunkIs
  <2>1. CASE f # h
    BY <2>1, <1>5 DEF Tiles
  <2>2. CASE f = h
    <3>1. h + size[h] <= g
      BY <2>2, <1>5 DEF Tiles
    <3>2. r < g
      BY <3>1, <1>5, <1>0, <2>0
    <3>3. r + size[r] <= g
      BY <3>2, <1>5 DEF Tiles
    <3>. QED
      BY <3>3, <2>2, <1>0
  <2>. QED
    BY <2>1, <2>2
<1>6. ASSUME NEW c \in Chunks, c <= end
      PROVE  \E g \in Chunks : Busy(kind2, g) /\ g <= c /\ c < g + size2[g]
  <2>1. PICK g \in Chunks : Busy(kind, g) /\ g <= c /\ c < g + size[g]
    BY <1>6 DEF Tiles
  <2>2. CASE g # h /\ g # r
    BY <2>1, <2>2
  <2>3. CASE g = h \/ g = r
    <3>1. h <= c /\ c < h + size2[h]
      BY <2>1, <2>3, <1>0, <1>1, ChunkIs
    <3>2. Busy(kind2, h)
      BY <1>2, <1>0
    <3>. QED
      BY <3>1, <3>2
  <2>. QED
    BY <2>2, <2>3
<1>. QED
  BY <1>0, <1>2, <1>4, <1>5, <1>6 DEF Tiles

(* ... one is taken from the region, ...                                    *)
LEMMA TilesAdd ==
    ASSUME NEW kind, NEW size \in [Chunks -> Nat], NEW kind2, NEW size2 \in [Chunks -> Nat],
           NEW end \in Nat, Tiles(kind, size, end), NEW n \in Nat, n >= 1, end + n <= Region,
           \A g \in Chunks : Busy(kind2, g) <=> Busy(kind, g) \/ g = end + 1,
           end + 1 \in Chunks => size2[end + 1] = n,
           \A g \in Chunks : g # end + 1 => size2[g] = size[g]
    PROVE  Tiles(kind2, size2, end + n) /\ end + 1 \in Chunks /\ ~Busy(kind, end + 1)
<1>. HIDE DEF Busy
<1>0. Region \in Nat /\ end + 1 \in Chunks
  BY ChunkIs, Bounds
<1>1. \A g \in Chunks : Busy(kind, g) => g <= end
  BY ChunkIs DEF Tiles
<1>2. ~Busy(kind, end + 1)
  BY <1>0, <1>1
<1>4. ASSUME NEW g \in Chunks, Busy(kind2, g)
      PROVE  size2[g] >= 1 /\ g + size2[g] - 1 <= end + n /\ g + size2[g] - 1 <= Region
  <2>0. g \in Nat /\ size[g] \in Nat
    BY ChunkIs
  <2>1. CASE g # end + 1
    BY <2>0, <2>1, <1>4 DEF Tiles
  <2>2. CASE g = end + 1
    BY <2>2, <1>0
  <2>. QED
    BY <2>1, <2>2
<1>5. ASSUME NEW f \in Chunks, NEW g \in Chunks, Busy(kind2, f), Busy(kind2, g), f < g
      PROVE  f + size2[f] <= g
  <2>0. f \in Nat /\ g \in Nat /\ size[f] \in Nat /\ size[g] \in Nat
    BY ChunkIs
  <2>1. CASE f # end + 1 /\ g # end + 1
    BY <2>1, <1>5 DEF Tiles
  <2>2. CASE f # end + 1 /\ g = end + 1
    BY <2>2, <2>0, <1>5 DEF Tiles
  <2>3. CASE f = end + 1
    BY <2>3, <2>0, <1>5, <1>1
  <2>. QED
    BY <2>1, <2>2, <2>3
<1>6. ASSUME NEW c \in Chunks, c <= end + n
      PROVE  \E g \in Chunks : Busy(kind2, g) /\ g <= c /\ c < g + size2[g]
  <2>1. CASE c <= end
    <3>1. PICK g \in Chunks : Busy(kind, g) /\ g <= c /\ c < g + size[g]
      BY <2>1 DEF Tiles
    <3>. QED
      BY <3>1, <1>2
  <2>2. CASE ~(c <= end)
    BY <2>2, <1>0, <1>6, ChunkIs
  <2>. QED
    BY <2>1, <2>2
<1>. QED
  BY <1>0, <1>2, <1>4, <1>5, <1>6 DEF Tiles

(* ... nothing is left of the region, ...                                   *)
LEMMA TilesPast ==
    ASSUME NEW kind, NEW size \in [Chunks -> Nat], NEW end \in Nat, NEW n \in Nat,
           Tiles(kind, size, end), end >= Region
    PROVE  Tiles(kind, size, end + n)
<1>. HIDE DEF Busy
<1>1. \A c \in Chunks : c \in Nat /\ c <= end
  BY ChunkIs, Bounds
<1>2. \A h \in Chunks : Busy(kind, h) => h + size[h] - 1 <= end + n
  BY <1>1 DEF Tiles
<1>. QED
  BY <1>1, <1>2 DEF Tiles

(* ... and what was a tile, or was not one yet, is lost chunk by chunk.     *)
LEMMA TilesCrumble ==
    ASSUME NEW kind, NEW size \in [Chunks -> Nat], NEW kind2, NEW size2 \in [Chunks -> Nat],
           NEW end \in Nat, Tiles(kind, size, end), NEW end2 \in Nat, end <= end2,
           NEW a \in Nat, NEW b \in Nat, a >= 1, b <= Region, b <= end2,
           \/ a \in Chunks /\ Busy(kind, a) /\ b = a + size[a] - 1 /\ end2 = end
           \/ a = end + 1 /\ b = Region,
           \A g \in Chunks : Busy(kind2, g) <=> Busy(kind, g) \/ g \in a .. b,
           \A g \in Chunks : size2[g] = IF g \in a .. b THEN 1 ELSE size[g]
    PROVE  Tiles(kind2, size2, end2)
<1>. HIDE DEF Busy
<1>0. Region \in Nat /\ \A c \in Chunks : c \in Nat /\ c <= Region /\ size[c] \in Nat
  BY ChunkIs, Bounds
<1>1. \A f, g \in Chunks : Busy(kind, f) /\ f \notin a .. b /\ g \in a .. b /\ f < g
                           => f + size[f] <= g
  <2>. SUFFICES ASSUME NEW f \in Chunks, NEW g \in Chunks, Busy(kind, f), f \notin a .. b,
                       g \in a .. b, f < g
                PROVE  f + size[f] <= g
    OBVIOUS
  <2>1. f < a
    BY <1>0
  <2>2. f + size[f] <= a
    BY <2>1, <1>0 DEF Tiles
  <2>. QED
    BY <2>2, <1>0
<1>4. ASSUME NEW g \in Chunks, Busy(kind2, g)
      PROVE  size2[g] >= 1 /\ g + size2[g] - 1 <= end2 /\ g + size2[g] - 1 <= Region
  <2>1. CASE g \notin a .. b
    BY <2>1, <1>0, <1>4 DEF Tiles
  <2>2. CASE g \in a .. b
    BY <2>2, <1>0
  <2>. QED
    BY <2>1, <2>2
<1>5. ASSUME NEW f \in Chunks, NEW g \in Chunks, Busy(kind2, f), Busy(kind2, g), f < g
      PROVE  f + size2[f] <= g
  <2>1. CASE f \notin a .. b /\ g \notin a .. b
    BY <2>1, <1>5 DEF Tiles
  <2>2. CASE f \notin a .. b /\ g \in a .. b
    BY <2>2, <1>5, <1>1
  <2>3. CASE f \in a .. b
    BY <2>3, <1>0, <1>5
  <2>. QED
    BY <2>1, <2>2, <2>3
<1>6. ASSUME NEW c \in Chunks, c <= end2
      PROVE  \E g \in Chunks : Busy(kind2, g) /\ g <= c /\ c < g + size2[g]
  <2>1. CASE c \in a .. b
    <3>1. Busy(kind2, c) /\ size2[c] = 1
      BY <2>1
    <3>. QED
      BY <3>1, <1>0
  <2>2. CASE c \notin a .. b
    <3>1. c <= end
      BY <2>2, <1>0, <1>6
    <3>2. PICK g \in Chunks : Busy(kind, g) /\ g <= c /\ c < g + size[g]
      BY <3>1 DEF Tiles
    <3>3. g \notin a .. b
      <4>. SUFFICES ASSUME g \in a .. b PROVE FALSE
        OBVIOUS
      <4>1. a <= g /\ g <= b /\ g <= end
        BY <3>1, <3>2, <1>0
      <4>2. a \in Chunks /\ Busy(kind, a) /\ b = a + size[a] - 1
        BY <4>1, <1>0
      <4>3. g = a
        BY <4>1, <4>2, <3>2, <1>0 DEF Tiles
      <4>. QED
        BY <4>1, <4>2, <4>3, <3>2, <2>2, <1>0
    <3>. QED
      BY <3>2, <3>3
  <2>. QED
    BY <2>1, <2>2
<1>. QED
  BY <1>4, <1>5, <1>6 DEF Tiles

-----------------------------------------------------------------------------
(* What the chunks weigh together: p sums them up from the left.            *)
SumIs(w, n) ==
    \E p \in [0 .. Region -> Nat] :
        /\ p[0] = 0 /\ p[Region] = n
        /\ \A i \in Chunks : p[i] = p[i - 1] + w[i]
        /\ \A i, j \in 0 .. Region : i <= j => p[i] <= p[j]

LEMMA SumZero ==
    ASSUME NEW w, \A h \in Chunks : w[h] = 0
    PROVE  SumIs(w, 0)
<1>. DEFINE p == [i \in 0 .. Region |-> 0]
<1>1. p \in [0 .. Region -> Nat] /\ p[0] = 0 /\ p[Region] = 0
  BY Bounds
<1>2. \A i \in Chunks : i \in 0 .. Region /\ i - 1 \in 0 .. Region
  BY Bounds, ChunkIs
<1>3. \A i \in 0 .. Region : p[i] = 0
  OBVIOUS
<1>. HIDE DEF p
<1>4. /\ p[0] = 0 /\ p[Region] = 0
      /\ \A i \in Chunks : p[i] = p[i - 1] + w[i]
      /\ \A i, j \in 0 .. Region : i <= j => p[i] <= p[j]
  BY <1>1, <1>2, <1>3
<1>. QED
  BY <1>1, <1>4, Zenon DEF SumIs

LEMMA SumStays ==
    ASSUME NEW w, NEW w2, NEW n, SumIs(w, n), \A h \in Chunks : w2[h] = w[h]
    PROVE  SumIs(w2, n)
BY DEF SumIs

(* One chunk weighs something else now.                                     *)
LEMMA SumPut ==
    ASSUME NEW w, NEW w2, NEW n, SumIs(w, n), NEW h \in Chunks, NEW v \in Nat, w2[h] = v,
           \A g \in Chunks : w[g] \in Nat, \A g \in Chunks : g # h => w2[g] = w[g]
    PROVE  n \in Nat /\ w[h] <= n /\ SumIs(w2, n - w[h] + v)
<1>1. PICK p \in [0 .. Region -> Nat] :
        /\ p[0] = 0 /\ p[Region] = n
        /\ \A i \in Chunks : p[i] = p[i - 1] + w[i]
        /\ \A i, j \in 0 .. Region : i <= j => p[i] <= p[j]
  BY DEF SumIs
<1>0. Region \in Nat /\ h \in Nat /\ 1 <= h /\ h <= Region
      /\ h \in 0 .. Region /\ h - 1 \in 0 .. Region /\ Region \in 0 .. Region
      /\ 0 \in 0 .. Region
  BY Bounds, ChunkIs
<1>2. n \in Nat /\ p[h] = p[h - 1] + w[h] /\ p[h - 1] \in Nat /\ p[h] <= n
  BY <1>0, <1>1
<1>. DEFINE q == [i \in 0 .. Region |-> IF i < h THEN p[i] ELSE p[i] - w[h] + v]
<1>3. \A i \in 0 .. Region : h <= i => p[i] >= p[h - 1] + w[h] /\ p[i] \in Nat
  BY <1>0, <1>1, <1>2
<1>4. q \in [0 .. Region -> Nat]
  <2>1. ASSUME NEW i \in 0 .. Region
        PROVE  (IF i < h THEN p[i] ELSE p[i] - w[h] + v) \in Nat
    <3>1. p[i] \in Nat /\ i \in Int
      OBVIOUS
    <3>2. CASE i < h
      BY <3>1, <3>2
    <3>3. CASE ~(i < h)
      BY <3>1, <3>3, <1>0, <1>2, <1>3
    <3>. QED
      BY <3>2, <3>3
  <2>. QED
    BY <2>1
<1>5. \A i \in 0 .. Region : q[i] = IF i < h THEN p[i] ELSE p[i] - w[h] + v
  OBVIOUS
<1>. HIDE DEF q
<1>6. q[0] = 0 /\ q[Region] = n - w[h] + v
  BY <1>0, <1>1, <1>5
<1>7. ASSUME NEW i \in Chunks PROVE q[i] = q[i - 1] + w2[i]
  <2>0. i \in Nat /\ i \in 0 .. Region /\ i - 1 \in 0 .. Region
    BY <1>0, ChunkIs
  <2>1. p[i] = p[i - 1] + w[i] /\ p[i] \in Nat /\ p[i - 1] \in Nat
    BY <1>1, <2>0
  <2>3. CASE i = h
    BY <2>0, <2>1, <2>3, <1>0, <1>2, <1>5
  <2>4. CASE i < h
    BY <2>0, <2>1, <2>4, <1>0, <1>5
  <2>5. CASE i > h
    <3>1. q[i] = p[i] - w[h] + v /\ q[i - 1] = p[i - 1] - w[h] + v /\ w2[i] = w[i]
      BY <2>0, <2>5, <1>0, <1>5
    <3>2. (p[i - 1] + w[i]) - w[h] + v = (p[i - 1] - w[h] + v) + w[i]
      BY <2>1
    <3>. QED
      BY <3>1, <3>2, <2>1
  <2>. QED
    BY <2>0, <2>3, <2>4, <2>5, <1>0
<1>8. ASSUME NEW i \in 0 .. Region, NEW j \in 0 .. Region, i <= j PROVE q[i] <= q[j]
  <2>0. p[i] \in Nat /\ p[j] \in Nat /\ p[i] <= p[j] /\ i \in Int /\ j \in Int
    BY <1>1, <1>8
  <2>1. CASE j < h
    BY <2>0, <2>1, <1>0, <1>5, <1>8
  <2>2. CASE i < h /\ ~(j < h)
    <3>1. p[i] <= p[h - 1] /\ p[j] >= p[h - 1] + w[h]
      BY <2>0, <2>2, <1>0, <1>1, <1>3
    <3>. QED
      BY <2>0, <2>2, <3>1, <1>2, <1>5
  <2>3. CASE ~(i < h) /\ ~(j < h)
    BY <2>0, <2>3, <1>5
  <2>. QED
    BY <2>0, <2>1, <2>2, <2>3, <1>0, <1>8
<1>9. /\ q[0] = 0 /\ q[Region] = n - w[h] + v
      /\ \A i \in Chunks : q[i] = q[i - 1] + w2[i]
      /\ \A i, j \in 0 .. Region : i <= j => q[i] <= q[j]
  BY <1>6, <1>7, <1>8
<1>10. SumIs(w2, n - w[h] + v)
  BY <1>4, <1>9, Zenon DEF SumIs
<1>. QED
  BY <1>2, <1>10

-----------------------------------------------------------------------------
(* The bytes a cache counts, and those that are counted as parked: pushed,  *)
(* about to be, or popped and not taken off yet.                            *)
Kept(kind, who, t) ==
    [h \in Chunks |-> IF kind[h] = "cache" /\ who[h] = t THEN len[h] ELSE 0]
IsCounted(kind, who, h) ==
    \/ kind[h] = "parked"
    \/ kind[h] = "cur" /\ pc[who[h]] \in {"push", "uncount"}
    \/ kind[h] = "node" /\ pc[who[h]] = "sweepUncount"
Counted(kind, who) == [h \in Chunks |-> IF IsCounted(kind, who, h) THEN len[h] ELSE 0]

KeptOK(kind, who) == \A t \in HasCache : SumIs(Kept(kind, who, t), cached[t])
CountOK(kind, who) == SumIs(Counted(kind, who), bytes)

PoolOK(kind, who, size) ==
    /\ MapOK(kind, who, size)
    /\ KeptOK(kind, who) /\ CountOK(kind, who)
    /\ Hands /\ Locks
    /\ bytes <= Ceiling

PoolInv == TypeOK /\ \E kind, who, size : PoolOK(kind, who, size)

-----------------------------------------------------------------------------
(* The parts of the invariant that a step leaves alone.                     *)
OthersWait(t) ==
    \A u \in Threads : u # t =>
        /\ pc'[u] = pc[u] /\ cur'[u] = cur[u] /\ want'[u] = want[u]
        /\ class'[u] = class[u] /\ node'[u] = node[u]
HandsOf(t) == LocalOK(t) /\ HandOK(t) /\ CeilingOK(t)

LEMMA Unfold ==
    ASSUME NEW kind, NEW who, NEW size
    PROVE  PoolOK(kind, who, size) <=>
             /\ MapType(kind, who, size) /\ Tiles(kind, size, cursor) /\ SizeAt(kind, who, size)
             /\ LiveAt(kind) /\ ListAt(kind, who) /\ ParkedAt(kind, who) /\ CacheAt(kind, who)
             /\ CurAt(kind, who) /\ NodeAt(kind, who) /\ FreshAt(kind, who) /\ TailAt(kind, who)
             /\ LostAt(kind) /\ MarkAt(kind) /\ LengthAt(kind, who) /\ GrowAt(kind)
             /\ KeptOK(kind, who) /\ CountOK(kind, who)
             /\ (\A u \in Threads : HandsOf(u)) /\ Locks /\ bytes <= Ceiling
BY DEF PoolOK, MapOK, Seats, Hands, HandsOf

LEMMA DivUp ==
    ASSUME NEW a \in Nat, NEW b \in Nat, NEW s \in Nat \ {0}, a <= b
    PROVE  a \div s <= b \div s /\ a \div s \in Nat
<1>. DEFINE q == a \div s
            p == b \div s
<1>1. a = (s * q) + (a % s) /\ a % s \in 0 .. s - 1 /\ q \in Nat
  OBVIOUS
<1>2. b = (s * p) + (b % s) /\ b % s \in 0 .. s - 1 /\ p \in Nat
  OBVIOUS
<1>. HIDE DEF q, p
<1>3. ASSUME p < q PROVE FALSE
  <2>1. s * (p + 1) <= s * q /\ s * (p + 1) = s * p + s
    BY <1>1, <1>2, <1>3
  <2>. QED
    BY <2>1, <1>1, <1>2
<1>. QED
  BY <1>1, <1>2, <1>3 DEF q, p

LEMMA CeilingUp ==
    ASSUME cursor <= cursor', cursor \in Nat, cursor' \in Nat
    PROVE  Ceiling <= Ceiling' /\ Ceiling \in Nat /\ Ceiling' \in Nat
<1>1. \A a, b \in Nat : a <= b => a \div Share <= b \div Share /\ a \div Share \in Nat
  BY Bounds, DivUp, Zenon
<1>2. PICK a : a = cursor \div Share
  OBVIOUS
<1>3. PICK b : b = cursor' \div Share
  OBVIOUS
<1>4. a \in Nat /\ b \in Nat /\ a <= b
  BY <1>1, <1>2, <1>3
<1>5. /\ Ceiling = IF a > RecycleMin THEN a ELSE RecycleMin
      /\ Ceiling' = IF b > RecycleMin THEN b ELSE RecycleMin
  BY <1>2, <1>3, Zenon DEF Ceiling
<1>. QED
  BY <1>4, <1>5, Bounds

LEMMA HandsOfOthers ==
    ASSUME NEW t \in Threads, OthersWait(t), UNCHANGED len, cursor <= cursor',
           cursor \in Nat, cursor' \in Nat, \A u \in Threads : want[u] \in Nat,
           \A u \in Threads : HandsOf(u), HandsOf(t)'
    PROVE  \A u \in Threads : HandsOf(u)'
<1>1. Ceiling <= Ceiling' /\ Ceiling \in Nat /\ Ceiling' \in Nat
  BY CeilingUp
<1>. QED
  BY <1>1 DEF HandsOf, LocalOK, HandOK, CeilingOK, OthersWait

(* Nothing changes hands, though what is counted may.                       *)
LEMMA StillStep ==
    ASSUME NEW kind, NEW who, NEW size, TypeOK, PoolOK(kind, who, size),
           NEW t \in Threads, OthersWait(t),
           UNCHANGED <<cursor, pool, cache, cached, parked, live, lost>>,
           HoldsCur(t)' <=> HoldsCur(t), HoldsCur(t) => cur'[t] = cur[t],
           HoldsNode(t)' <=> HoldsNode(t), HoldsNode(t) => node'[t] = node[t],
           pc[t] \notin {"commit", "extendCommit", "mergeAbsorb"},
           pc'[t] \notin {"commit", "extendCommit"},
           pc'[t] = "mergeAbsorb" =>
               node'[t] \in Chunks /\ kind[node'[t]] = "list" /\ who[node'[t]] = class'[t],
           pc'[t] = "extend" =>
               /\ cur'[t] \in Chunks /\ kind[cur'[t]] = "live" /\ live[cur'[t]] < want'[t]
               /\ \A u \in Threads : u # t => cur[u] # cur'[t],
           HandsOf(t)', Locks', CountOK(kind, who)', (bytes <= Ceiling)'
    PROVE  PoolOK(kind, who, size)'
<1>0. /\ MapType(kind, who, size) /\ Tiles(kind, size, cursor) /\ SizeAt(kind, who, size)
      /\ LiveAt(kind) /\ ListAt(kind, who) /\ ParkedAt(kind, who) /\ CacheAt(kind, who)
      /\ CurAt(kind, who) /\ NodeAt(kind, who) /\ FreshAt(kind, who) /\ TailAt(kind, who)
      /\ LostAt(kind) /\ MarkAt(kind) /\ LengthAt(kind, who) /\ GrowAt(kind)
      /\ KeptOK(kind, who) /\ CountOK(kind, who)
      /\ (\A u \in Threads : HandsOf(u)) /\ Locks /\ bytes <= Ceiling
  BY Unfold
<1>v. /\ cursor' = cursor /\ len' = len /\ magic' = magic /\ free' = free /\ map' = map
      /\ list' = list /\ cache' = cache /\ cached' = cached /\ parked' = parked
      /\ live' = live /\ lost' = lost
  BY DEF pool
<1>1. MapType(kind, who, size)' /\ Tiles(kind, size, cursor)' /\ LiveAt(kind)'
      /\ ListAt(kind, who)' /\ ParkedAt(kind, who)' /\ CacheAt(kind, who)' /\ LostAt(kind)'
      /\ MarkAt(kind)'
  BY <1>0, <1>v DEF MapType, LiveAt, ListAt, ParkedAt, CacheAt, LostAt, MarkAt
<1>2. CurAt(kind, who)'
  <2>1. \A u \in Threads : (HoldsCur(u)' <=> HoldsCur(u)) /\ (HoldsCur(u) => cur'[u] = cur[u])
    BY DEF HoldsCur, OthersWait
  <2>. QED
    BY <2>1, <1>0 DEF CurAt
<1>3. NodeAt(kind, who)'
  <2>1. \A u \in Threads : (HoldsNode(u)' <=> HoldsNode(u)) /\ (HoldsNode(u) => node'[u] = node[u])
    BY DEF HoldsNode, OthersWait
  <2>. QED
    BY <2>1, <1>0 DEF NodeAt
<1>4. FreshAt(kind, who)' /\ TailAt(kind, who)'
  BY <1>0, <1>v DEF FreshAt, TailAt, OthersWait
<1>5. SizeAt(kind, who, size)'
  BY <1>0, <1>v DEF SizeAt, FreshAt, TailAt, OthersWait
<1>6. LengthAt(kind, who)'
  BY <1>0, <1>v DEF LengthAt, Mending, OthersWait
<1>7. GrowAt(kind)'
  BY <1>0, <1>v DEF GrowAt, Extends, OthersWait
<1>8. KeptOK(kind, who)'
  <2>1. \A u \in HasCache : Kept(kind, who, u)' = Kept(kind, who, u)
    BY <1>v DEF Kept
  <2>. QED
    BY <2>1, <1>0, <1>v DEF KeptOK
<1>9. \A u \in Threads : HandsOf(u)'
  <2>1. len' = len /\ cursor <= cursor' /\ cursor \in Nat /\ cursor' \in Nat
        /\ \A u \in Threads : want[u] \in Nat
    BY <1>v DEF TypeOK
  <2>. QED
    BY <2>1, <1>0, HandsOfOthers
<1>. QED
  BY <1>1, <1>2, <1>3, <1>4, <1>5, <1>6, <1>7, <1>8, <1>9 DEF PoolOK, MapOK, Seats, Hands, HandsOf

(* A step in which nothing changes hands.                                   *)
LEMMA QuietStep ==
    ASSUME NEW kind, NEW who, NEW size, TypeOK, PoolOK(kind, who, size),
           NEW t \in Threads, OthersWait(t),
           UNCHANGED <<cursor, pool, tiers, live, lost>>,
           HoldsCur(t)' <=> HoldsCur(t), HoldsCur(t) => cur'[t] = cur[t],
           HoldsNode(t)' <=> HoldsNode(t), HoldsNode(t) => node'[t] = node[t],
           pc[t] \notin {"commit", "extendCommit", "push", "uncount", "sweepUncount",
                      "mergeAbsorb"},
           pc'[t] \notin {"commit", "extendCommit", "push", "uncount", "sweepUncount"},
           pc'[t] = "mergeAbsorb" =>
               node'[t] \in Chunks /\ kind[node'[t]] = "list" /\ who[node'[t]] = class'[t],
           pc'[t] = "extend" =>
               /\ cur'[t] \in Chunks /\ kind[cur'[t]] = "live" /\ live[cur'[t]] < want'[t]
               /\ \A u \in Threads : u # t => cur[u] # cur'[t],
           HandsOf(t)', Locks'
    PROVE  PoolOK(kind, who, size)'
<1>0. CurAt(kind, who) /\ NodeAt(kind, who) /\ CountOK(kind, who) /\ bytes <= Ceiling
  BY Unfold
<1>1. CountOK(kind, who)'
  <2>1. ASSUME NEW h \in Chunks PROVE IsCounted(kind, who, h)' <=> IsCounted(kind, who, h)
    BY <1>0 DEF IsCounted, CurAt, NodeAt, OthersWait
  <2>2. Counted(kind, who)' = Counted(kind, who)
    BY <2>1 DEF Counted, pool
  <2>. QED
    BY <2>2, <1>0 DEF CountOK, tiers
<1>2. (bytes <= Ceiling)'
  BY <1>0 DEF Ceiling, tiers
<1>3. UNCHANGED <<cursor, pool, cache, cached, parked, live, lost>>
  BY DEF tiers
<1>. QED
  BY <1>1, <1>2, <1>3, StillStep

(* A span changes hands: what else is where it was.                         *)
Moves(kind, who, kind2, who2, t, h, b, w) ==
    /\ h \in Chunks /\ kind[h] \in SpanKinds /\ b \in SpanKinds
    /\ kind2 = [kind EXCEPT ![h] = b] /\ who2 = [who EXCEPT ![h] = w]
    /\ OthersWait(t) /\ cursor' = cursor /\ len' = len /\ magic' = magic /\ lost' = lost
    /\ pc[t] \notin {"commit", "extendCommit"} /\ pc'[t] \notin {"commit", "extendCommit"}

LEMMA MoveStep ==
    ASSUME NEW kind, NEW who, NEW size, TypeOK, PoolOK(kind, who, size),
           NEW t \in Threads, NEW h, NEW b, NEW w, NEW kind2, NEW who2,
           Moves(kind, who, kind2, who2, t, h, b, w)
    PROVE  /\ kind2[h] = b /\ who2[h] = w
           /\ \A g \in Chunks : g # h => kind2[g] = kind[g] /\ who2[g] = who[g]
           /\ MapType(kind2, who2, size)' /\ Tiles(kind2, size, cursor)'
           /\ SizeAt(kind2, who2, size)'
           /\ FreshAt(kind2, who2)' /\ TailAt(kind2, who2)' /\ LostAt(kind2)'
           /\ live' = live /\ kind[h] # "live" /\ b # "live" => LiveAt(kind2)'
           /\ list' = list /\ kind[h] # "list" /\ b # "list" => ListAt(kind2, who2)'
           /\ parked' = parked /\ kind[h] # "parked" /\ b # "parked" => ParkedAt(kind2, who2)'
           /\ cache' = cache /\ kind[h] # "cache" /\ b # "cache" => CacheAt(kind2, who2)'
           /\ /\ (HoldsCur(t)' <=> HoldsCur(t)) /\ (HoldsCur(t) => cur'[t] = cur[t])
              /\ kind[h] # "cur" /\ b # "cur"
              => CurAt(kind2, who2)'
           /\ /\ (HoldsNode(t)' <=> HoldsNode(t)) /\ (HoldsNode(t) => node'[t] = node[t])
              /\ kind[h] # "node" /\ b # "node"
              => NodeAt(kind2, who2)'
           /\ map' = map /\ free' = free /\ kind[h] # "list" /\ b # "list" => MarkAt(kind2)'
           /\ pc[t] # "mergeAbsorb" /\ pc'[t] # "mergeAbsorb" /\ kind[h] # "list" /\ b # "list" =>
                LengthAt(kind2, who2)'
           /\ /\ pc[t] \notin Extends /\ pc'[t] \notin Extends
              /\ kind[h] # "live" \/ \A u \in Threads : cur[u] # h
              /\ \A g \in Chunks : g # h => live'[g] = live[g]
              => GrowAt(kind2)'
           /\ cached' = cached /\ kind[h] # "cache" /\ b # "cache" => KeptOK(kind2, who2)'
           /\ HandsOf(t)' => \A u \in Threads : HandsOf(u)'
           /\ bytes' = bytes => (bytes <= Ceiling)'
<1>0. /\ MapType(kind, who, size) /\ Tiles(kind, size, cursor) /\ SizeAt(kind, who, size)
      /\ LiveAt(kind) /\ ListAt(kind, who) /\ ParkedAt(kind, who) /\ CacheAt(kind, who)
      /\ CurAt(kind, who) /\ NodeAt(kind, who) /\ FreshAt(kind, who) /\ TailAt(kind, who)
      /\ LostAt(kind) /\ MarkAt(kind) /\ LengthAt(kind, who) /\ GrowAt(kind)
      /\ KeptOK(kind, who) /\ CountOK(kind, who)
      /\ (\A u \in Threads : HandsOf(u)) /\ Locks /\ bytes <= Ceiling
  BY Unfold
<1>v. /\ h \in Chunks /\ kind[h] \in SpanKinds /\ b \in SpanKinds
      /\ kind2 = [kind EXCEPT ![h] = b] /\ who2 = [who EXCEPT ![h] = w]
      /\ OthersWait(t) /\ cursor' = cursor /\ len' = len /\ magic' = magic /\ lost' = lost
      /\ pc[t] \notin {"commit", "extendCommit"} /\ pc'[t] \notin {"commit", "extendCommit"}
  BY DEF Moves
<1>k. /\ kind2[h] = b /\ who2[h] = w
      /\ \A g \in Chunks : g # h => kind2[g] = kind[g] /\ who2[g] = who[g]
  BY <1>0, <1>v DEF MapType
<1>1. MapType(kind2, who2, size)'
  BY <1>0, <1>v DEF MapType, Kinds
<1>2. Tiles(kind2, size, cursor)'
  <2>1. \A g \in Chunks : Busy(kind2, g) <=> Busy(kind, g)
    BY <1>k, <1>v DEF Busy, SpanKinds
  <2>. QED
    BY <2>1, <1>0, <1>v, TilesStay
<1>3. SizeAt(kind2, who2, size)'
  BY <1>0, <1>k, <1>v DEF SizeAt, SpanKinds, FreshAt, TailAt, OthersWait
<1>4. FreshAt(kind2, who2)'
  BY <1>0, <1>k, <1>v DEF SpanKinds, FreshAt, OthersWait
<1>5. TailAt(kind2, who2)'
  BY <1>0, <1>k, <1>v DEF SpanKinds, TailAt, OthersWait
<1>6. LostAt(kind2)'
  BY <1>0, <1>k, <1>v DEF LostAt, SpanKinds
<1>7. live' = live /\ kind[h] # "live" /\ b # "live" => LiveAt(kind2)'
  BY <1>0, <1>k, <1>v DEF LiveAt
<1>8. list' = list /\ kind[h] # "list" /\ b # "list" => ListAt(kind2, who2)'
  BY <1>0, <1>k, <1>v DEF ListAt
<1>9. parked' = parked /\ kind[h] # "parked" /\ b # "parked" => ParkedAt(kind2, who2)'
  BY <1>0, <1>k, <1>v DEF ParkedAt
<1>10. cache' = cache /\ kind[h] # "cache" /\ b # "cache" => CacheAt(kind2, who2)'
  BY <1>0, <1>k, <1>v DEF CacheAt
<1>11. /\ (HoldsCur(t)' <=> HoldsCur(t)) /\ (HoldsCur(t) => cur'[t] = cur[t])
       /\ kind[h] # "cur" /\ b # "cur"
       => CurAt(kind2, who2)'
  <2>. SUFFICES ASSUME HoldsCur(t)' <=> HoldsCur(t), HoldsCur(t) => cur'[t] = cur[t],
                       kind[h] # "cur" /\ b # "cur"
                PROVE  CurAt(kind2, who2)'
    OBVIOUS
  <2>1. \A u \in Threads : (HoldsCur(u)' <=> HoldsCur(u)) /\ (HoldsCur(u) => cur'[u] = cur[u])
    BY <1>v DEF HoldsCur, OthersWait
  <2>. QED
    BY <2>1, <1>0, <1>k, <1>v DEF CurAt
<1>12. /\ (HoldsNode(t)' <=> HoldsNode(t)) /\ (HoldsNode(t) => node'[t] = node[t])
       /\ kind[h] # "node" /\ b # "node"
       => NodeAt(kind2, who2)'
  <2>. SUFFICES ASSUME HoldsNode(t)' <=> HoldsNode(t), HoldsNode(t) => node'[t] = node[t],
                       kind[h] # "node" /\ b # "node"
                PROVE  NodeAt(kind2, who2)'
    OBVIOUS
  <2>1. \A u \in Threads : (HoldsNode(u)' <=> HoldsNode(u)) /\ (HoldsNode(u) => node'[u] = node[u])
    BY <1>v DEF HoldsNode, OthersWait
  <2>. QED
    BY <2>1, <1>0, <1>k, <1>v DEF NodeAt
<1>13. map' = map /\ free' = free /\ kind[h] # "list" /\ b # "list" => MarkAt(kind2)'
  BY <1>0, <1>k, <1>v DEF MarkAt
<1>14. pc[t] # "mergeAbsorb" /\ pc'[t] # "mergeAbsorb" /\ kind[h] # "list" /\ b # "list" =>
         LengthAt(kind2, who2)'
  BY <1>0, <1>k, <1>v DEF LengthAt, Mending, OthersWait
<1>15. /\ pc[t] \notin Extends /\ pc'[t] \notin Extends
       /\ kind[h] # "live" \/ \A u \in Threads : cur[u] # h
       /\ \A g \in Chunks : g # h => live'[g] = live[g]
       => GrowAt(kind2)'
  BY <1>0, <1>k, <1>v DEF GrowAt, OthersWait
<1>16. cached' = cached /\ kind[h] # "cache" /\ b # "cache" => KeptOK(kind2, who2)'
  <2>. SUFFICES ASSUME cached' = cached, kind[h] # "cache" /\ b # "cache" PROVE KeptOK(kind2, who2)'
    OBVIOUS
  <2>1. \A u \in HasCache : Kept(kind2, who2, u)' = Kept(kind, who, u)
    BY <1>k, <1>v DEF Kept
  <2>. QED
    BY <2>1, <1>0, <1>v DEF KeptOK
<1>17. HandsOf(t)' => \A u \in Threads : HandsOf(u)'
  <2>1. len' = len /\ cursor <= cursor' /\ cursor \in Nat /\ cursor' \in Nat
        /\ \A u \in Threads : want[u] \in Nat
    BY <1>v DEF TypeOK
  <2>. QED
    BY <2>1, <1>0, <1>v, HandsOfOthers
<1>18. bytes' = bytes => (bytes <= Ceiling)'
  BY <1>0, <1>v DEF Ceiling
<1>. QED
  BY <1>k, <1>1, <1>2, <1>3, <1>4, <1>5, <1>6, <1>7, <1>8, <1>9, <1>10, <1>11, <1>12, <1>13,
     <1>14, <1>15, <1>16, <1>17, <1>18

(* The spans themselves, wherever they are.                                 *)
LEMMA SpanIs ==
    ASSUME NEW kind, NEW who, NEW size, TypeOK, PoolOK(kind, who, size),
           NEW h \in Chunks, kind[h] \in SpanKinds
    PROVE  /\ len[h] \in Nat /\ len[h] >= 1 /\ size[h] = len[h] /\ h \in magic
           /\ h + len[h] - 1 <= cursor /\ h + len[h] - 1 <= Region
           /\ live[h] \in Nat /\ (kind[h] # "live" => live[h] = 0)
<1>1. Tiles(kind, size, cursor) /\ SizeAt(kind, who, size) /\ MarkAt(kind) /\ LiveAt(kind)
  BY Unfold
<1>2. size[h] = len[h] /\ h \in magic /\ (live[h] > 0 <=> kind[h] = "live")
  BY <1>1 DEF SizeAt, MarkAt, LiveAt
<1>3. size[h] >= 1 /\ h + size[h] - 1 <= cursor /\ h + size[h] - 1 <= Region
  BY <1>1 DEF Tiles, Busy, SpanKinds
<1>4. len[h] \in Nat /\ live[h] \in Nat
  BY DEF TypeOK
<1>. QED
  BY <1>2, <1>3, <1>4

(* What is counted, when it changes for one span.                           *)
OnlyAt(kind, who, kind2, who2, h) ==
    \A g \in Chunks : g # h => kind2[g] = kind[g] /\ who2[g] = who[g]
CountedOnlyAt(kind, who, kind2, who2, h) ==
    \A g \in Chunks : g # h => (IsCounted(kind2, who2, g)' <=> IsCounted(kind, who, g))

LEMMA CountPut ==
    ASSUME NEW kind, NEW who, NEW kind2, NEW who2, TypeOK, CountOK(kind, who), len' = len,
           NEW h \in Chunks, CountedOnlyAt(kind, who, kind2, who2, h)
    PROVE  /\ IsCounted(kind, who, h) => len[h] <= bytes
           /\ bytes' = (bytes - IF IsCounted(kind, who, h) THEN len[h] ELSE 0)
                              + (IF IsCounted(kind2, who2, h)' THEN len[h] ELSE 0)
              => CountOK(kind2, who2)'
<1>1. PICK v : v = Counted(kind, who)
  OBVIOUS
<1>2. PICK w : w = Counted(kind2, who2)'
  OBVIOUS
<1>3. \A g \in Chunks : v[g] \in Nat
  BY <1>1 DEF Counted, TypeOK
<1>4. v[h] = IF IsCounted(kind, who, h) THEN len[h] ELSE 0
  BY <1>1 DEF Counted
<1>5. w[h] = IF IsCounted(kind2, who2, h)' THEN len[h] ELSE 0
  BY <1>2 DEF Counted
<1>6. \A g \in Chunks : g # h => w[g] = v[g]
  BY <1>1, <1>2 DEF Counted, CountedOnlyAt
<1>7. len[h] \in Nat /\ SumIs(v, bytes)
  BY <1>1 DEF TypeOK, CountOK
<1>8. w[h] \in Nat
  BY <1>5, <1>7
<1>9. v[h] <= bytes /\ SumIs(w, bytes - v[h] + w[h])
  BY <1>3, <1>6, <1>7, <1>8, SumPut
<1>10. bytes' = bytes - v[h] + w[h] => CountOK(kind2, who2)'
  BY <1>2, <1>9 DEF CountOK
<1>. QED
  BY <1>4, <1>5, <1>9, <1>10

(* What a cache keeps, when one span comes or goes.                         *)
LEMMA KeptPut ==
    ASSUME NEW kind, NEW who, NEW kind2, NEW who2, TypeOK, KeptOK(kind, who), len' = len,
           NEW h \in Chunks, NEW t \in HasCache, OnlyAt(kind, who, kind2, who2, h),
           \A u \in HasCache : u # t => cached'[u] = cached[u],
           kind[h] = "cache" => who[h] = t, kind2[h] = "cache" => who2[h] = t
    PROVE  /\ kind[h] = "cache" => len[h] <= cached[t]
           /\ cached'[t] = (cached[t] - IF kind[h] = "cache" THEN len[h] ELSE 0)
                              + (IF kind2[h] = "cache" THEN len[h] ELSE 0)
              => KeptOK(kind2, who2)'
<1>1. PICK v : v = Kept(kind, who, t)
  OBVIOUS
<1>2. PICK w : w = Kept(kind2, who2, t)'
  OBVIOUS
<1>3. \A g \in Chunks : v[g] \in Nat
  BY <1>1 DEF Kept, TypeOK
<1>4. v[h] = IF kind[h] = "cache" THEN len[h] ELSE 0
  BY <1>1 DEF Kept
<1>5. w[h] = IF kind2[h] = "cache" THEN len[h] ELSE 0
  BY <1>2 DEF Kept
<1>6. \A g \in Chunks : g # h => w[g] = v[g]
  BY <1>1, <1>2 DEF Kept, OnlyAt
<1>7. len[h] \in Nat /\ SumIs(v, cached[t])
  BY <1>1 DEF TypeOK, KeptOK
<1>8. w[h] \in Nat
  BY <1>5, <1>7
<1>9. v[h] <= cached[t] /\ SumIs(w, cached[t] - v[h] + w[h])
  BY <1>3, <1>6, <1>7, <1>8, SumPut
<1>10. ASSUME NEW u \in HasCache, u # t PROVE SumIs(Kept(kind2, who2, u), cached[u])'
  <2>1. \A g \in Chunks : Kept(kind2, who2, u)'[g] = Kept(kind, who, u)[g]
    BY <1>10 DEF Kept, OnlyAt
  <2>2. SumIs(Kept(kind, who, u), cached[u]) /\ cached'[u] = cached[u]
    BY <1>10 DEF KeptOK
  <2>. QED
    BY <2>1, <2>2, SumStays
<1>11. cached'[t] = cached[t] - v[h] + w[h] => KeptOK(kind2, who2)'
  BY <1>2, <1>9, <1>10 DEF KeptOK
<1>. QED
  BY <1>4, <1>5, <1>9, <1>11

-----------------------------------------------------------------------------
(* What Go and Walk do to a thread.                                         *)
LocalTypes ==
    /\ pc \in [Threads -> Steps]
    /\ cur \in [Threads -> Nat \cup {None}] /\ want \in [Threads -> Nat]
    /\ class \in [Threads -> 0 .. MaxSpan + 1] /\ node \in [Threads -> Chunks \cup {None}]

LEMMA Went ==
    ASSUME TypeOK, NEW t \in Threads, NEW p \in Steps, NEW h \in Nat \cup {None}, NEW n \in Nat,
           Go(t, p, h, n)
    PROVE  /\ OthersWait(t) /\ LocalTypes'
           /\ pc'[t] = p /\ cur'[t] = h /\ want'[t] = n
           /\ class'[t] = class[t] /\ node'[t] = node[t]
BY DEF TypeOK, Go, OthersWait, LocalTypes

LEMMA WentIdle ==
    ASSUME TypeOK, NEW t \in Threads, Go(t, "idle", None, 0)
    PROVE  /\ OthersWait(t) /\ LocalTypes'
           /\ pc'[t] = "idle" /\ cur'[t] = None /\ want'[t] = 0
           /\ class'[t] = class[t] /\ node'[t] = node[t]
BY Went DEF Steps

LEMMA Walked ==
    ASSUME TypeOK, NEW t \in Threads, NEW p \in Steps, NEW k \in 0 .. MaxSpan + 1,
           NEW h \in Chunks \cup {None}, Walk(t, p, k, h)
    PROVE  /\ OthersWait(t) /\ LocalTypes'
           /\ pc'[t] = p /\ class'[t] = k /\ node'[t] = h
           /\ cur'[t] = cur[t] /\ want'[t] = want[t]
BY DEF TypeOK, Walk, OthersWait, LocalTypes

LEMMA QuietTypes ==
    ASSUME TypeOK, LocalTypes', UNCHANGED <<setup, cursor, pool, tiers, live, lost>>,
           {sweeping', lock'} \subseteq Threads \cup {None}
    PROVE  TypeOK'
BY DEF TypeOK, LocalTypes, pool, tiers

-----------------------------------------------------------------------------
(* The steps in which nothing changes hands.                                *)
LEMMA AllocBeginInv ==
    ASSUME NEW kind, NEW who, NEW size, TypeOK, PoolOK(kind, who, size), UNCHANGED setup,
           NEW t \in Threads, NEW n \in 1 .. MaxWant, AllocBegin(t, n)
    PROVE  TypeOK' /\ PoolOK(kind, who, size)'
<1>0. HandsOf(t) /\ Locks
  BY Unfold
<1>1. PICK p \in {"fresh", "unpark", "take"} : Go(t, p, None, n) /\ (p = "unpark" => n <= MaxSpan)
  BY Bounds DEF AllocBegin
<1>2. /\ OthersWait(t) /\ LocalTypes' /\ pc[t] = "idle" /\ n \in Nat /\ n >= 1
      /\ pc'[t] = p /\ cur'[t] = None /\ want'[t] = n /\ class'[t] = class[t] /\ node'[t] = node[t]
      /\ lock' = lock /\ sweeping' = sweeping
  <2>1. p \in Steps /\ None \in Nat \cup {None} /\ n \in Nat /\ n >= 1
    BY Bounds DEF Steps
  <2>. QED
    <3>1. lock' = lock /\ sweeping' = sweeping /\ pc[t] = "idle"
      BY DEF AllocBegin
    <3>2. Go(t, p, None, n)
      BY <1>1
    <3>3. /\ OthersWait(t) /\ LocalTypes'
          /\ pc'[t] = p /\ cur'[t] = None /\ want'[t] = n /\ class'[t] = class[t]
          /\ node'[t] = node[t]
      BY <2>1, <3>2, Went
    <3>. QED
      BY <2>1, <3>1, <3>3
<1>3. class[t] = 0 /\ node[t] = None /\ cur[t] = None
  BY <1>0, <1>2 DEF HandsOf, LocalOK, Sweeps
<1>4. HandsOf(t)'
  BY <1>1, <1>2, <1>3 DEF HandsOf, LocalOK, HandOK, CeilingOK, Sweeps, Frees
<1>5. Locks'
  BY <1>0, <1>1, <1>2, <1>3 DEF Locks, OthersWait
<1>6. ~HoldsCur(t) /\ ~HoldsCur(t)' /\ ~HoldsNode(t) /\ ~HoldsNode(t)'
  BY <1>1, <1>2, <1>3 DEF HoldsCur, HoldsNode
<1>7. UNCHANGED <<cursor, pool, tiers, live, lost>>
  BY DEF AllocBegin
<1>. QED
  BY <1>1, <1>2, <1>4, <1>5, <1>6, <1>7, QuietStep, QuietTypes DEF TypeOK

LEMMA TakeNoneInv ==
    ASSUME NEW kind, NEW who, NEW size, TypeOK, PoolOK(kind, who, size), UNCHANGED setup,
           NEW t \in Threads, TakeNone(t)
    PROVE  TypeOK' /\ PoolOK(kind, who, size)'
<1>0. HandsOf(t) /\ Locks
  BY Unfold
<1>1. Go(t, "fresh", cur[t], want[t]) /\ pc[t] = "take"
  BY DEF TakeNone, Step
<1>2. /\ OthersWait(t) /\ LocalTypes'
      /\ pc'[t] = "fresh" /\ cur'[t] = cur[t] /\ want'[t] = want[t]
      /\ class'[t] = class[t] /\ node'[t] = node[t]
      /\ lock' = lock /\ sweeping' = sweeping
  <2>1. {"take", "fresh", "coalesce"} \subseteq Steps /\ cur[t] \in Nat \cup {None}
        /\ want[t] \in Nat
    BY DEF TypeOK, Steps
  <2>. QED
    <3>1. lock' = lock /\ sweeping' = sweeping
      BY DEF TakeNone
    <3>2. Go(t, "fresh", cur[t], want[t]) /\ "fresh" \in Steps
      BY <2>1, <1>1
    <3>3. /\ OthersWait(t) /\ LocalTypes'
          /\ pc'[t] = "fresh" /\ cur'[t] = cur[t] /\ want'[t] = want[t]
          /\ class'[t] = class[t] /\ node'[t] = node[t]
      BY <2>1, <3>2, Went
    <3>. QED
      BY <3>1, <3>3
<1>3. class[t] = 0 /\ node[t] = None /\ cur[t] = None
  BY <1>0, <1>1 DEF HandsOf, LocalOK, Sweeps
<1>4. UNCHANGED <<cursor, pool, tiers, live, lost>> /\ len' = len /\ Ceiling' = Ceiling
  BY DEF TakeNone, pool, tiers, Ceiling
<1>5. HandsOf(t)'
  BY <1>0, <1>1, <1>2, <1>3, <1>4 DEF HandsOf, LocalOK, HandOK, CeilingOK, Sweeps, Frees, Extends
<1>6. Locks'
  BY <1>0, <1>1, <1>2, <1>3 DEF Locks, OthersWait
<1>7. (HoldsCur(t)' <=> HoldsCur(t)) /\ (HoldsCur(t) => cur'[t] = cur[t])
      /\ ~HoldsNode(t) /\ ~HoldsNode(t)'
  BY <1>1, <1>2, <1>3 DEF HoldsCur, HoldsNode, Frees
<1>. QED
  BY <1>1, <1>2, <1>3, <1>4, <1>5, <1>6, <1>7, QuietStep, QuietTypes DEF TypeOK

LEMMA UnparkNoneInv ==
    ASSUME NEW kind, NEW who, NEW size, TypeOK, PoolOK(kind, who, size), UNCHANGED setup,
           NEW t \in Threads, Unpark(t), parked[want[t]] = <<>>
    PROVE  TypeOK' /\ PoolOK(kind, who, size)'
<1>0. HandsOf(t) /\ Locks
  BY Unfold
<1>1. Go(t, "take", cur[t], want[t]) /\ pc[t] = "unpark"
  BY DEF Unpark, Step
<1>2. /\ OthersWait(t) /\ LocalTypes'
      /\ pc'[t] = "take" /\ cur'[t] = cur[t] /\ want'[t] = want[t]
      /\ class'[t] = class[t] /\ node'[t] = node[t]
      /\ lock' = lock /\ sweeping' = sweeping
  <2>1. {"take", "fresh", "coalesce"} \subseteq Steps /\ cur[t] \in Nat \cup {None}
        /\ want[t] \in Nat
    BY DEF TypeOK, Steps
  <2>. QED
    <3>1. lock' = lock /\ sweeping' = sweeping
      BY DEF Unpark
    <3>2. Go(t, "take", cur[t], want[t]) /\ "take" \in Steps
      BY <2>1, <1>1
    <3>3. /\ OthersWait(t) /\ LocalTypes'
          /\ pc'[t] = "take" /\ cur'[t] = cur[t] /\ want'[t] = want[t]
          /\ class'[t] = class[t] /\ node'[t] = node[t]
      BY <2>1, <3>2, Went
    <3>. QED
      BY <3>1, <3>3
<1>3. class[t] = 0 /\ node[t] = None /\ cur[t] = None
  BY <1>0, <1>1 DEF HandsOf, LocalOK, Sweeps
<1>4. UNCHANGED <<cursor, pool, tiers, live, lost>> /\ len' = len /\ Ceiling' = Ceiling
  BY DEF Unpark, pool, tiers, Ceiling
<1>5. HandsOf(t)'
  BY <1>0, <1>1, <1>2, <1>3, <1>4 DEF HandsOf, LocalOK, HandOK, CeilingOK, Sweeps, Frees, Extends
<1>6. Locks'
  BY <1>0, <1>1, <1>2, <1>3 DEF Locks, OthersWait
<1>7. (HoldsCur(t)' <=> HoldsCur(t)) /\ (HoldsCur(t) => cur'[t] = cur[t])
      /\ ~HoldsNode(t) /\ ~HoldsNode(t)'
  BY <1>1, <1>2, <1>3 DEF HoldsCur, HoldsNode, Frees
<1>. QED
  BY <1>1, <1>2, <1>3, <1>4, <1>5, <1>6, <1>7, QuietStep, QuietTypes DEF TypeOK

LEMMA RefusedInv ==
    ASSUME NEW kind, NEW who, NEW size, TypeOK, PoolOK(kind, who, size), UNCHANGED setup,
           NEW t \in Threads, Refused(t)
    PROVE  TypeOK' /\ PoolOK(kind, who, size)'
<1>0. HandsOf(t) /\ Locks
  BY Unfold
<1>1. pc[t] = "park" /\ cur[t] \in Chunks /\ class[t] = 0 /\ node[t] = None /\ lock' = lock
  BY <1>0 DEF Refused, HandsOf, LocalOK, Sweeps, Frees
<1>2. \/ /\ OthersWait(t) /\ LocalTypes' /\ sweeping' = sweeping
         /\ pc'[t] \in {"return", "again"} /\ cur'[t] = cur[t] /\ want'[t] = want[t]
         /\ class'[t] = 0 /\ node'[t] = None
      \/ /\ OthersWait(t) /\ LocalTypes' /\ sweeping = None /\ sweeping' = t
         /\ pc'[t] = "sweep" /\ cur'[t] = cur[t] /\ want'[t] = want[t]
         /\ class'[t] = 1 /\ node'[t] = None
  <2>1. {"return", "again", "sweep"} \subseteq Steps /\ cur[t] \in Nat \cup {None}
        /\ want[t] \in Nat /\ 1 \in 0 .. MaxSpan + 1
    BY Bounds DEF TypeOK, Steps
  <2>2. CASE \E p \in {"return", "again"} : Go(t, p, cur[t], want[t]) /\ sweeping' = sweeping
    <3>1. PICK p \in {"return", "again"} : Go(t, p, cur[t], want[t]) /\ sweeping' = sweeping
      BY <2>2
    <3>2. p \in Steps
      BY <2>1
    <3>3. /\ OthersWait(t) /\ LocalTypes'
          /\ pc'[t] = p /\ cur'[t] = cur[t] /\ want'[t] = want[t]
          /\ class'[t] = class[t] /\ node'[t] = node[t]
      BY <2>1, <3>1, <3>2, Went
    <3>. QED
      BY <3>1, <3>3, <1>1
  <2>3. CASE Walk(t, "sweep", 1, None) /\ sweeping = None /\ sweeping' = t
    BY <2>1, <2>3, <1>1, Walked
  <2>. QED
    BY <2>2, <2>3 DEF Refused, Step
<1>3. cur[t] # None /\ None \notin Threads
  BY <1>1, Bounds
<1>4. UNCHANGED <<cursor, pool, tiers, live, lost>> /\ len' = len /\ Ceiling' = Ceiling
  BY DEF Refused, pool, tiers, Ceiling
<1>5. HandsOf(t)'
  BY <1>0, <1>1, <1>2, <1>3, <1>4, Bounds
     DEF HandsOf, LocalOK, HandOK, CeilingOK, Sweeps, Frees, Extends
<1>6. Locks'
  BY <1>0, <1>1, <1>2, <1>3 DEF Locks, OthersWait
<1>7. (HoldsCur(t)' <=> HoldsCur(t)) /\ (HoldsCur(t) => cur'[t] = cur[t])
      /\ ~HoldsNode(t) /\ ~HoldsNode(t)'
  BY <1>1, <1>2, <1>3 DEF HoldsCur, HoldsNode, Frees
<1>. QED
  BY <1>1, <1>2, <1>3, <1>4, <1>5, <1>6, <1>7, QuietStep, QuietTypes DEF TypeOK

LEMMA AgainInv ==
    ASSUME NEW kind, NEW who, NEW size, TypeOK, PoolOK(kind, who, size), UNCHANGED setup,
           NEW t \in Threads, Again(t)
    PROVE  TypeOK' /\ PoolOK(kind, who, size)'
<1>0. HandsOf(t) /\ Locks
  BY Unfold
<1>1. PICK p \in {"return", "park"} : Go(t, p, cur[t], want[t]) /\ pc[t] = "again"
  BY DEF Again, Step
<1>2. /\ OthersWait(t) /\ LocalTypes'
      /\ pc'[t] = p /\ cur'[t] = cur[t] /\ want'[t] = want[t]
      /\ class'[t] = class[t] /\ node'[t] = node[t]
      /\ lock' = lock /\ sweeping' = sweeping
  <2>1. p \in Steps /\ cur[t] \in Nat \cup {None} /\ want[t] \in Nat
    BY DEF TypeOK, Steps
  <2>. QED
    <3>1. lock' = lock /\ sweeping' = sweeping
      BY DEF Again
    <3>2. Go(t, p, cur[t], want[t]) /\ p \in Steps
      BY <2>1, <1>1
    <3>3. /\ OthersWait(t) /\ LocalTypes'
          /\ pc'[t] = p /\ cur'[t] = cur[t] /\ want'[t] = want[t]
          /\ class'[t] = class[t] /\ node'[t] = node[t]
      BY <2>1, <3>2, Went
    <3>. QED
      BY <3>1, <3>3
<1>3. class[t] = 0 /\ node[t] = None /\ cur[t] \in Chunks
  BY <1>0, <1>1 DEF HandsOf, LocalOK, Sweeps, Frees
<1>4. UNCHANGED <<cursor, pool, tiers, live, lost>> /\ len' = len /\ Ceiling' = Ceiling
  BY DEF Again, pool, tiers, Ceiling
<1>5. HandsOf(t)'
  BY <1>0, <1>1, <1>2, <1>3, <1>4 DEF HandsOf, LocalOK, HandOK, CeilingOK, Sweeps, Frees, Extends
<1>6. Locks'
  BY <1>0, <1>1, <1>2, <1>3 DEF Locks, OthersWait
<1>7. (HoldsCur(t)' <=> HoldsCur(t)) /\ (HoldsCur(t) => cur'[t] = cur[t])
      /\ ~HoldsNode(t) /\ ~HoldsNode(t)'
  BY <1>1, <1>2, <1>3 DEF HoldsCur, HoldsNode, Frees
<1>. QED
  BY <1>1, <1>2, <1>3, <1>4, <1>5, <1>6, <1>7, QuietStep, QuietTypes DEF TypeOK

LEMMA ReturnInv ==
    ASSUME NEW kind, NEW who, NEW size, TypeOK, PoolOK(kind, who, size), UNCHANGED setup,
           NEW t \in Threads, Return(t)
    PROVE  TypeOK' /\ PoolOK(kind, who, size)'
<1>0. HandsOf(t) /\ Locks
  BY Unfold
<1>1. Go(t, "coalesce", cur[t], want[t]) /\ pc[t] = "return" /\ lock = None /\ lock' = t
  BY DEF Return, Step
<1>2. /\ OthersWait(t) /\ LocalTypes'
      /\ pc'[t] = "coalesce" /\ cur'[t] = cur[t] /\ want'[t] = want[t]
      /\ class'[t] = class[t] /\ node'[t] = node[t] /\ sweeping' = sweeping
  <2>1. {"take", "fresh", "coalesce"} \subseteq Steps /\ cur[t] \in Nat \cup {None}
        /\ want[t] \in Nat
    BY DEF TypeOK, Steps
  <2>2. sweeping' = sweeping
    BY DEF Return
  <2>3. "coalesce" \in Steps /\ Go(t, "coalesce", cur[t], want[t])
    BY <2>1, <1>1
  <2>4. /\ OthersWait(t) /\ LocalTypes'
        /\ pc'[t] = "coalesce" /\ cur'[t] = cur[t] /\ want'[t] = want[t]
        /\ class'[t] = class[t] /\ node'[t] = node[t]
    BY <2>1, <2>3, Went
  <2>. QED
    BY <2>2, <2>4
<1>3. class[t] = 0 /\ node[t] = None /\ cur[t] \in Chunks /\ None \notin Threads
  BY <1>0, <1>1, Bounds DEF HandsOf, LocalOK, Sweeps, Frees
<1>4. UNCHANGED <<cursor, pool, tiers, live, lost>> /\ len' = len /\ Ceiling' = Ceiling
  BY DEF Return, pool, tiers, Ceiling
<1>5. HandsOf(t)'
  BY <1>0, <1>1, <1>2, <1>3, <1>4 DEF HandsOf, LocalOK, HandOK, CeilingOK, Sweeps, Frees, Extends
<1>6. Locks'
  BY <1>0, <1>1, <1>2, <1>3 DEF Locks, OthersWait
<1>7. (HoldsCur(t)' <=> HoldsCur(t)) /\ (HoldsCur(t) => cur'[t] = cur[t])
      /\ ~HoldsNode(t) /\ ~HoldsNode(t)'
  BY <1>1, <1>2, <1>3 DEF HoldsCur, HoldsNode, Frees
<1>. QED
  BY <1>1, <1>2, <1>3, <1>4, <1>5, <1>6, <1>7, QuietStep, QuietTypes DEF TypeOK

LEMMA SweepNextInv ==
    ASSUME NEW kind, NEW who, NEW size, TypeOK, PoolOK(kind, who, size), UNCHANGED setup,
           NEW t \in Threads, SweepPop(t), class[t] > MaxSpan \/ parked[class[t]] = <<>>
    PROVE  TypeOK' /\ PoolOK(kind, who, size)'
<1>0. HandsOf(t) /\ Locks
  BY Unfold
<1>1. PICK p \in {"sweep", "merge"}, k \in 1 .. MaxSpan + 1 : Walk(t, p, k, None) /\ pc[t] = "sweep"
  <2>1. class[t] \in 1 .. MaxSpan + 1
    BY <1>0 DEF SweepPop, HandsOf, LocalOK, Sweeps
  <2>2. CASE class[t] > MaxSpan
    BY <2>2, Bounds DEF SweepPop
  <2>3. CASE ~(class[t] > MaxSpan)
    <3>1. class[t] + 1 \in 1 .. MaxSpan + 1
      BY <2>1, <2>3, Bounds
    <3>. QED
      BY <2>3, <3>1 DEF SweepPop
  <2>. QED
    BY <2>2, <2>3
<1>2. /\ OthersWait(t) /\ LocalTypes'
      /\ pc'[t] = p /\ cur'[t] = cur[t] /\ want'[t] = want[t]
      /\ class'[t] = k /\ node'[t] = None /\ k > 0
      /\ lock' = lock /\ sweeping' = sweeping
  <2>1. p \in Steps /\ k \in 0 .. MaxSpan + 1 /\ k > 0
    BY Bounds DEF Steps
  <2>. QED
    <3>1. lock' = lock /\ sweeping' = sweeping
      BY DEF SweepPop
    <3>2. Walk(t, p, k, None)
      BY <1>1
    <3>3. /\ OthersWait(t) /\ LocalTypes'
          /\ pc'[t] = p /\ class'[t] = k /\ node'[t] = None
          /\ cur'[t] = cur[t] /\ want'[t] = want[t]
      BY <2>1, <3>2, Walked
    <3>. QED
      BY <2>1, <3>1, <3>3
<1>3. class[t] > 0 /\ class[t] \in Nat
  BY <1>0, <1>1, Bounds DEF HandsOf, LocalOK, Sweeps
<1>4. UNCHANGED <<cursor, pool, tiers, live, lost>> /\ len' = len /\ Ceiling' = Ceiling
  BY DEF SweepPop, pool, tiers, Ceiling
<1>5. HandsOf(t)'
  BY <1>0, <1>1, <1>2, <1>3, <1>4 DEF HandsOf, LocalOK, HandOK, CeilingOK, Sweeps, Frees, Extends
<1>6. Locks'
  BY <1>0, <1>1, <1>2, <1>3 DEF Locks, OthersWait
<1>7. (HoldsCur(t)' <=> HoldsCur(t)) /\ (HoldsCur(t) => cur'[t] = cur[t])
      /\ ~HoldsNode(t) /\ ~HoldsNode(t)'
  BY <1>1, <1>2, <1>3 DEF HoldsCur, HoldsNode, Frees
<1>. QED
  BY <1>1, <1>2, <1>3, <1>4, <1>5, <1>6, <1>7, QuietStep, QuietTypes DEF TypeOK

LEMMA SweepEndInv ==
    ASSUME NEW kind, NEW who, NEW size, TypeOK, PoolOK(kind, who, size), UNCHANGED setup,
           NEW t \in Threads, SweepEnd(t)
    PROVE  TypeOK' /\ PoolOK(kind, who, size)'
<1>0. HandsOf(t) /\ Locks
  BY Unfold
<1>1. PICK p \in {"again", "idle"} :
        /\ Walk(t, p, 0, None) /\ pc[t] = "merge" /\ lock' = lock
        /\ \/ p = "again" /\ sweeping = t /\ sweeping' = None
           \/ p = "idle" /\ sweeping # t /\ sweeping' = sweeping
  BY DEF SweepEnd
<1>2. /\ OthersWait(t) /\ LocalTypes'
      /\ pc'[t] = p /\ cur'[t] = cur[t] /\ want'[t] = want[t] /\ class'[t] = 0 /\ node'[t] = None
  <2>1. p \in Steps /\ 0 \in 0 .. MaxSpan + 1
    BY Bounds DEF Steps
  <2>. QED
    BY <2>1, <1>1, Walked
<1>3. /\ class[t] > 0 /\ (p = "again" => cur[t] # None) /\ (p = "idle" => cur[t] = None)
      /\ (cur[t] # None => cur[t] \in Chunks) /\ None \notin Threads
  BY <1>0, <1>1, Bounds DEF HandsOf, LocalOK, Sweeps, Locks
<1>4. UNCHANGED <<cursor, pool, tiers, live, lost>> /\ len' = len /\ Ceiling' = Ceiling
  BY DEF SweepEnd, pool, tiers, Ceiling
<1>5. HandsOf(t)'
  BY <1>0, <1>1, <1>2, <1>3, <1>4 DEF HandsOf, LocalOK, HandOK, CeilingOK, Sweeps, Frees, Extends
<1>6. Locks'
  BY <1>0, <1>1, <1>2, <1>3 DEF Locks, OthersWait
<1>7. (HoldsCur(t)' <=> HoldsCur(t)) /\ (HoldsCur(t) => cur'[t] = cur[t])
      /\ ~HoldsNode(t) /\ ~HoldsNode(t)'
  BY <1>1, <1>2, <1>3 DEF HoldsCur, HoldsNode, Frees
<1>. QED
  BY <1>1, <1>2, <1>3, <1>4, <1>5, <1>6, <1>7, QuietStep, QuietTypes DEF TypeOK

LEMMA TrimInv ==
    ASSUME NEW kind, NEW who, NEW size, TypeOK, PoolOK(kind, who, size), UNCHANGED setup,
           NEW t \in Threads, Trim(t)
    PROVE  TypeOK' /\ PoolOK(kind, who, size)'
<1>0. HandsOf(t) /\ Locks
  BY Unfold
<1>1. Walk(t, "sweep", 1, None) /\ pc[t] = "idle" /\ lock' = lock /\ sweeping' = sweeping
  BY DEF Trim
<1>2. /\ OthersWait(t) /\ LocalTypes'
      /\ pc'[t] = "sweep" /\ cur'[t] = cur[t] /\ want'[t] = want[t]
      /\ class'[t] = 1 /\ node'[t] = None
  <2>1. "sweep" \in Steps /\ 1 \in 0 .. MaxSpan + 1
    BY Bounds DEF Steps
  <2>. QED
    BY <2>1, <1>1, Walked
<1>3. class[t] = 0 /\ cur[t] = None
  BY <1>0, <1>1 DEF HandsOf, LocalOK, Sweeps
<1>4. UNCHANGED <<cursor, pool, tiers, live, lost>> /\ len' = len /\ Ceiling' = Ceiling
  BY DEF Trim, pool, tiers, Ceiling
<1>5. HandsOf(t)'
  BY <1>0, <1>1, <1>2, <1>3, <1>4, Bounds
     DEF HandsOf, LocalOK, HandOK, CeilingOK, Sweeps, Frees, Extends
<1>6. Locks'
  BY <1>0, <1>1, <1>2, <1>3 DEF Locks, OthersWait
<1>7. (HoldsCur(t)' <=> HoldsCur(t)) /\ (HoldsCur(t) => cur'[t] = cur[t])
      /\ ~HoldsNode(t) /\ ~HoldsNode(t)'
  BY <1>1, <1>2, <1>3 DEF HoldsCur, HoldsNode, Frees
<1>. QED
  BY <1>1, <1>2, <1>3, <1>4, <1>5, <1>6, <1>7, QuietStep, QuietTypes DEF TypeOK

LEMMA MergePickInv ==
    ASSUME NEW kind, NEW who, NEW size, TypeOK, PoolOK(kind, who, size), UNCHANGED setup,
           NEW t \in Threads, MergePick(t)
    PROVE  TypeOK' /\ PoolOK(kind, who, size)'
<1>0. HandsOf(t) /\ Locks
  BY Unfold
<1>1. \/ /\ Walk(t, "merge", class[t] + 1, None) /\ lock' = lock
      \/ \E i \in 1 .. Len(list[class[t]]) :
            /\ Walk(t, "mergeAbsorb", class[t], list[class[t]][i])
            /\ lock' = t /\ CanMerge(list[class[t]][i])
  BY DEF MergePick
<1>2. /\ pc[t] = "merge" /\ class[t] \in 1 .. MaxSpan /\ lock = None /\ sweeping' = sweeping
      /\ None \notin Threads
  BY <1>0, Bounds DEF MergePick, HandsOf, LocalOK, Sweeps
<1>3. PICK k \in 1 .. MaxSpan + 1, p \in {"merge", "mergeAbsorb"}, h \in Chunks \cup {None} :
        /\ OthersWait(t) /\ LocalTypes'
        /\ pc'[t] = p /\ cur'[t] = cur[t] /\ want'[t] = want[t] /\ class'[t] = k /\ node'[t] = h
        /\ \/ p = "merge" /\ h = None /\ lock' = lock
           \/ /\ p = "mergeAbsorb" /\ k = class[t] /\ lock' = t
              /\ h \in Chunks /\ kind[h] = "list" /\ who[h] = k /\ len[h] <= MaxSpan
  <2>1. CASE Walk(t, "merge", class[t] + 1, None) /\ lock' = lock
    <3>1. /\ "merge" \in Steps /\ class[t] + 1 \in 0 .. MaxSpan + 1
          /\ class[t] + 1 \in 1 .. MaxSpan + 1
      BY <1>2, Bounds DEF Steps
    <3>. QED
      BY <2>1, <3>1, Walked
  <2>2. ASSUME NEW i \in 1 .. Len(list[class[t]]), lock' = t, CanMerge(list[class[t]][i]),
               Walk(t, "mergeAbsorb", class[t], list[class[t]][i])
        PROVE  \E h \in Chunks :
                 /\ OthersWait(t) /\ LocalTypes'
                 /\ pc'[t] = "mergeAbsorb" /\ cur'[t] = cur[t] /\ want'[t] = want[t]
                 /\ class'[t] = class[t] /\ node'[t] = h
                 /\ kind[h] = "list" /\ who[h] = class[t] /\ len[h] <= MaxSpan
    <3>1. PICK h : h = list[class[t]][i]
      OBVIOUS
    <3>2. h \in Range(list[class[t]]) /\ h \in Chunks
      BY <3>1, <1>2 DEF TypeOK, Row, Range
    <3>3. kind[h] = "list" /\ who[h] = class[t]
      BY <3>2, <1>2, Unfold DEF ListAt
    <3>4. len[h] <= MaxSpan
      <4>1. len[h] \in Nat /\ h + len[h] \in Chunks
        BY <3>2, <2>2, <3>1 DEF TypeOK, CanMerge, HasRight
      <4>2. len[h + len[h]] \in Nat
        BY <4>1 DEF TypeOK
      <4>. QED
        BY <4>1, <4>2, <2>2, <3>1, Bounds DEF CanMerge
    <3>5. "mergeAbsorb" \in Steps /\ class[t] \in 0 .. MaxSpan + 1
      BY <1>2, Bounds DEF Steps
    <3>6. Walk(t, "mergeAbsorb", class[t], h)
      BY <2>2, <3>1
    <3>. QED
      BY <3>2, <3>3, <3>4, <3>5, <3>6, Walked
  <2>3. class[t] \in 1 .. MaxSpan + 1
    BY <1>2, Bounds
  <2>. QED
    BY <1>1, <2>1, <2>2, <2>3
<1>4. UNCHANGED <<cursor, pool, tiers, live, lost>> /\ len' = len /\ Ceiling' = Ceiling
  BY DEF MergePick, pool, tiers, Ceiling
<1>5. HandsOf(t)'
  BY <1>0, <1>2, <1>3, <1>4, Bounds DEF HandsOf, LocalOK, HandOK, CeilingOK, Sweeps, Frees, Extends
<1>6. Locks'
  BY <1>0, <1>2, <1>3 DEF Locks, OthersWait
<1>7. (HoldsCur(t)' <=> HoldsCur(t)) /\ (HoldsCur(t) => cur'[t] = cur[t])
      /\ ~HoldsNode(t) /\ ~HoldsNode(t)'
  BY <1>2, <1>3 DEF HoldsCur, HoldsNode, Frees
<1>. QED
  BY <1>2, <1>3, <1>4, <1>5, <1>6, <1>7, QuietStep, QuietTypes DEF TypeOK

LEMMA ExtendBeginInv ==
    ASSUME NEW kind, NEW who, NEW size, TypeOK, PoolOK(kind, who, size), UNCHANGED setup,
           NEW t \in Threads, NEW h \in Chunks, NEW n \in 1 .. MaxWant, ExtendBegin(t, h, n)
    PROVE  TypeOK' /\ PoolOK(kind, who, size)'
<1>0. HandsOf(t) /\ Locks
  BY Unfold
<1>1. /\ Go(t, "extend", h, n) /\ pc[t] = "idle" /\ InProgram(h) /\ len[h] < n
      /\ lock = None /\ lock' = t /\ sweeping' = sweeping
  BY DEF ExtendBegin
<1>2. /\ OthersWait(t) /\ LocalTypes' /\ n \in Nat /\ n >= 1
      /\ pc'[t] = "extend" /\ cur'[t] = h /\ want'[t] = n
      /\ class'[t] = class[t] /\ node'[t] = node[t]
  <2>1. "extend" \in Steps /\ h \in Nat \cup {None} /\ n \in Nat /\ n >= 1
    BY Bounds, ChunkIs DEF Steps
  <2>. QED
    BY <2>1, <1>1, Went
<1>3. /\ class[t] = 0 /\ node[t] = None /\ cur[t] = None /\ None \notin Threads
      /\ kind[h] = "live" /\ live[h] < n /\ \A u \in Threads : cur[u] # h
  <2>1. kind[h] = "live" /\ live[h] <= len[h]
    BY <1>1, Unfold DEF LiveAt, InProgram
  <2>2. live[h] \in Nat /\ len[h] \in Nat
    BY DEF TypeOK
  <2>. QED
    BY <2>1, <2>2, <1>0, <1>1, <1>2, Bounds DEF HandsOf, LocalOK, Sweeps, InProgram
<1>4. UNCHANGED <<cursor, pool, tiers, live, lost>> /\ len' = len /\ Ceiling' = Ceiling
  BY DEF ExtendBegin, pool, tiers, Ceiling
<1>5. HandsOf(t)'
  <2>1. len' = len /\ len[h] < n + MaxSpan
    BY <1>1, <1>2, Bounds DEF ExtendBegin, pool, TypeOK
  <2>. QED
    BY <2>1, <1>0, <1>2, <1>3 DEF HandsOf, LocalOK, HandOK, CeilingOK, Sweeps, Frees, Extends
<1>6. Locks'
  BY <1>0, <1>1, <1>2, <1>3 DEF Locks, OthersWait
<1>7. (HoldsCur(t)' <=> HoldsCur(t)) /\ (HoldsCur(t) => cur'[t] = cur[t])
      /\ ~HoldsNode(t) /\ ~HoldsNode(t)'
  BY <1>1, <1>2, <1>3 DEF HoldsCur, HoldsNode, Frees
<1>. QED
  BY <1>1, <1>2, <1>3, <1>4, <1>5, <1>6, <1>7, QuietStep, QuietTypes DEF TypeOK

-----------------------------------------------------------------------------
(* The steps in which a span changes hands.                                 *)

LEMMA AllocCachedInv ==
    ASSUME NEW kind, NEW who, NEW size, TypeOK, PoolOK(kind, who, size), UNCHANGED setup,
           NEW t \in Threads, NEW n \in 1 .. MaxWant, AllocCached(t, n)
    PROVE  TypeOK' /\ \E k, w, s : PoolOK(k, w, s)'
<1>0. KeptOK(kind, who) /\ CountOK(kind, who) /\ HandsOf(t) /\ Locks /\ CacheAt(kind, who)
      /\ LiveAt(kind)
  BY Unfold
<1>1. PICK h : h = Head(cache[t][n])
  OBVIOUS
<1>u. /\ pc[t] = "idle" /\ t \in HasCache /\ n \in 1 .. CacheSlots /\ cache[t][n] # <<>>
      /\ cache' = [cache EXCEPT ![t][n] = Tail(@)]
      /\ cached' = [cached EXCEPT ![t] = @ - n]
      /\ live' = [live EXCEPT ![h] = @ + n]
  BY <1>1, Bounds DEF AllocCached
<1>v. /\ cursor' = cursor /\ len' = len /\ magic' = magic /\ free' = free /\ map' = map
      /\ list' = list /\ parked' = parked /\ bytes' = bytes /\ sweeping' = sweeping
      /\ lock' = lock /\ lost' = lost
      /\ pc' = pc /\ cur' = cur /\ want' = want /\ class' = class /\ node' = node
  BY DEF AllocCached, pool, local
<1>2. /\ cache[t][n] \in Row /\ Tail(cache[t][n]) \in Row /\ IsInjective(Tail(cache[t][n]))
      /\ h \in Chunks /\ h \in Range(cache[t][n])
      /\ \A g : g \in Range(Tail(cache[t][n])) <=> g # h /\ g \in Range(cache[t][n])
  <2>1. cache[t][n] \in Row /\ IsInjective(cache[t][n])
    <3>1. cache[t] \in [1 .. CacheSlots -> Row]
      BY <1>u DEF TypeOK
    <3>. QED
      BY <3>1, <1>0, <1>u DEF CacheAt
  <2>. QED
    BY <2>1, <1>1, <1>u, RowTail
<1>3. /\ kind[h] = "cache" /\ who[h] = t /\ len[h] = n /\ kind[h] \in SpanKinds /\ n >= 1
      /\ n \in Nat /\ live[h] = 0
  <2>1. kind[h] = "cache" /\ who[h] = t /\ len[h] = n
    BY <1>0, <1>2, <1>u DEF CacheAt
  <2>2. kind[h] \in SpanKinds /\ n \in Nat /\ n >= 1
    BY <2>1, <1>u, Bounds DEF SpanKinds
  <2>. QED
    BY <2>1, <2>2, <1>2, SpanIs
<1>4. PICK kind2 : kind2 = [kind EXCEPT ![h] = "live"]
  OBVIOUS
<1>5. PICK who2 : who2 = [who EXCEPT ![h] = None]
  OBVIOUS
<1>6. "live" \in SpanKinds /\ OthersWait(t) /\ UNCHANGED <<cursor, len, magic, lost>>
      /\ pc'[t] = "idle"
  BY <1>u, <1>v DEF SpanKinds, OthersWait
<1>m. /\ kind2[h] = "live" /\ who2[h] = None
      /\ \A g \in Chunks : g # h => kind2[g] = kind[g] /\ who2[g] = who[g]
      /\ MapType(kind2, who2, size)' /\ Tiles(kind2, size, cursor)' /\ SizeAt(kind2, who2, size)'
      /\ FreshAt(kind2, who2)' /\ TailAt(kind2, who2)' /\ LostAt(kind2)'
      /\ ListAt(kind2, who2)' /\ ParkedAt(kind2, who2)'
      /\ CurAt(kind2, who2)' /\ NodeAt(kind2, who2)'
      /\ MarkAt(kind2)' /\ LengthAt(kind2, who2)' /\ GrowAt(kind2)' /\ (bytes <= Ceiling)'
      /\ \A u \in Threads : HandsOf(u)'
  <2>1. HoldsCur(t)' = HoldsCur(t) /\ HoldsNode(t)' = HoldsNode(t)
    BY <1>v DEF HoldsCur, HoldsNode
  <2>2. HandsOf(t)'
    BY <1>0, <1>v DEF HandsOf, LocalOK, HandOK, CeilingOK, Ceiling
  <2>3. \A g \in Chunks : g # h => live'[g] = live[g]
    BY <1>u DEF TypeOK
  <2>4. pc'[t] \notin Extends /\ pc[t] \notin Extends
    BY <1>u, <1>6 DEF Extends
  <2>5. Moves(kind, who, kind2, who2, t, h, "live", None)
    BY <1>2, <1>3, <1>4, <1>5, <1>6, <1>u, <1>v DEF Moves
  <2>. QED
    BY <2>1, <2>2, <2>3, <2>4, <2>5, <1>3, <1>u, <1>v, MoveStep
<1>7. LiveAt(kind2)'
  <2>1. live'[h] = n /\ \A g \in Chunks : g # h => live'[g] = live[g]
    BY <1>u, <1>2, <1>3 DEF TypeOK
  <2>. QED
    BY <2>1, <1>0, <1>3, <1>m, <1>v DEF LiveAt
<1>8. CacheAt(kind2, who2)'
  <2>1. /\ cache'[t][n] = Tail(cache[t][n])
        /\ \A u \in HasCache, k \in 1 .. CacheSlots :
              u # t \/ k # n => cache'[u][k] = cache[u][k]
    BY <1>u DEF TypeOK
  <2>2. ASSUME NEW u \in HasCache, NEW k \in 1 .. CacheSlots
        PROVE  /\ IsInjective(cache'[u][k])
               /\ \A g \in Chunks :
                    g \in Range(cache'[u][k]) <=> kind2[g] = "cache" /\ who2[g] = u /\ len[g] = k
    <3>1. CASE u = t /\ k = n
      BY <2>1, <3>1, <1>0, <1>2, <1>3, <1>m DEF CacheAt
    <3>2. CASE u # t \/ k # n
      BY <2>1, <3>2, <1>0, <1>2, <1>3, <1>m DEF CacheAt
    <3>. QED
      BY <3>1, <3>2
  <2>3. \A g \in Chunks : kind2[g] = "cache" => who2[g] \in HasCache /\ len[g] \in 1 .. CacheSlots
    BY <1>0, <1>m DEF CacheAt
  <2>. QED
    BY <2>2, <2>3, <1>v DEF CacheAt
<1>9. KeptOK(kind2, who2)' /\ cached'[t] \in 0 .. CacheMax
  <2>1. cached'[t] = cached[t] - n /\ \A u \in HasCache : u # t => cached'[u] = cached[u]
    BY <1>u, Bounds DEF TypeOK
  <2>2. cached[t] \in 0 .. CacheMax
    BY <1>u DEF TypeOK
  <2>3. /\ kind[h] = "cache" => len[h] <= cached[t]
        /\ cached'[t] = (cached[t] - IF kind[h] = "cache" THEN len[h] ELSE 0)
                           + (IF kind2[h] = "cache" THEN len[h] ELSE 0)
           => KeptOK(kind2, who2)'
    <3>1. OnlyAt(kind, who, kind2, who2, h)
      BY <1>m DEF OnlyAt
    <3>2. /\ kind[h] = "cache" /\ kind2[h] = "live" /\ who[h] = t /\ h \in Chunks /\ t \in HasCache
          /\ KeptOK(kind, who) /\ len' = len
      BY <1>0, <1>2, <1>3, <1>m, <1>u, <1>v
    <3>3. kind[h] = "cache" => len[h] <= cached[t]
      BY <3>1, <3>2, <2>1, KeptPut
    <3>. QED
      BY <3>1, <3>2, <2>1, KeptPut
  <2>4. cached'[t] = cached[t] - len[h] + 0 /\ cached'[t] \in 0 .. CacheMax
    BY <2>1, <2>2, <2>3, <1>3, Bounds
  <2>. QED
    BY <2>3, <2>4, <1>3, <1>m
<1>10. CountOK(kind2, who2)'
  <2>1. \A g \in Chunks : IsCounted(kind2, who2, g)' <=> IsCounted(kind, who, g)
    BY <1>3, <1>m, <1>v DEF IsCounted
  <2>2. Counted(kind2, who2)' = Counted(kind, who)
    BY <2>1, <1>v DEF Counted
  <2>. QED
    BY <2>2, <1>0, <1>v DEF CountOK
<1>11. Locks'
  BY <1>0, <1>v DEF Locks
<1>t. TypeOK'
  <2>1. cache' \in [HasCache -> [1 .. CacheSlots -> Row]]
    BY <1>2, <1>u DEF TypeOK
  <2>2. cached' \in [HasCache -> 0 .. CacheMax]
    BY <1>9, <1>u DEF TypeOK
  <2>3. live' \in [Chunks -> Nat]
    BY <1>2, <1>3, <1>u DEF TypeOK
  <2>. QED
    BY <2>1, <2>2, <2>3, <1>v DEF TypeOK
<1>. QED
  <2>1. PoolOK(kind2, who2, size)'
    BY <1>m, <1>7, <1>8, <1>9, <1>10, <1>11
       DEF PoolOK, MapOK, Seats, Hands, HandsOf
  <2>. QED
    BY <2>1, <1>t

LEMMA FreeCachedInv ==
    ASSUME NEW kind, NEW who, NEW size, TypeOK, PoolOK(kind, who, size), UNCHANGED setup,
           NEW t \in Threads, NEW h \in Chunks, FreeCached(t, h)
    PROVE  TypeOK' /\ \E k, w, s : PoolOK(k, w, s)'
<1>0. KeptOK(kind, who) /\ CountOK(kind, who) /\ HandsOf(t) /\ Locks /\ CacheAt(kind, who)
      /\ LiveAt(kind)
  BY Unfold
<1>1. PICK n : n = len[h]
  OBVIOUS
<1>u. /\ pc[t] = "idle" /\ t \in HasCache /\ n <= CacheSlots /\ cached[t] + n <= CacheMax
      /\ live[h] > 0 /\ \A u \in Threads : cur[u] # h
      /\ live' = [live EXCEPT ![h] = 0]
      /\ cache' = [cache EXCEPT ![t][n] = <<h>> \o @]
      /\ cached' = [cached EXCEPT ![t] = @ + n]
  BY <1>1 DEF FreeCached, InProgram, RoomInCache
<1>v. /\ cursor' = cursor /\ len' = len /\ magic' = magic /\ free' = free /\ map' = map
      /\ list' = list /\ parked' = parked /\ bytes' = bytes /\ sweeping' = sweeping
      /\ lock' = lock /\ lost' = lost
      /\ pc' = pc /\ cur' = cur /\ want' = want /\ class' = class /\ node' = node
  BY DEF FreeCached, pool, local
<1>2. kind[h] = "live" /\ kind[h] \in SpanKinds /\ n \in 1 .. CacheSlots /\ n \in Nat
  <2>1. kind[h] = "live" /\ kind[h] \in SpanKinds
    BY <1>0, <1>u DEF LiveAt, SpanKinds
  <2>. QED
    BY <2>1, <1>1, <1>u, SpanIs, Bounds
<1>3. /\ cache[t][n] \in Row /\ <<h>> \o cache[t][n] \in Row /\ IsInjective(<<h>> \o cache[t][n])
      /\ \A g : g \in Range(<<h>> \o cache[t][n]) <=> g = h \/ g \in Range(cache[t][n])
  <2>1. cache[t] \in [1 .. CacheSlots -> Row]
    BY <1>u DEF TypeOK
  <2>2. cache[t][n] \in Row /\ IsInjective(cache[t][n]) /\ h \notin Range(cache[t][n])
    BY <2>1, <1>0, <1>2, <1>u DEF CacheAt
  <2>. QED
    BY <2>2, RowCons
<1>4. PICK kind2 : kind2 = [kind EXCEPT ![h] = "cache"]
  OBVIOUS
<1>5. PICK who2 : who2 = [who EXCEPT ![h] = t]
  OBVIOUS
<1>6. "cache" \in SpanKinds /\ OthersWait(t) /\ UNCHANGED <<cursor, len, magic, lost>>
      /\ pc'[t] = "idle"
  BY <1>u, <1>v DEF SpanKinds, OthersWait
<1>m. /\ kind2[h] = "cache" /\ who2[h] = t
      /\ \A g \in Chunks : g # h => kind2[g] = kind[g] /\ who2[g] = who[g]
      /\ MapType(kind2, who2, size)' /\ Tiles(kind2, size, cursor)' /\ SizeAt(kind2, who2, size)'
      /\ FreshAt(kind2, who2)' /\ TailAt(kind2, who2)' /\ LostAt(kind2)'
      /\ ListAt(kind2, who2)' /\ ParkedAt(kind2, who2)'
      /\ CurAt(kind2, who2)' /\ NodeAt(kind2, who2)'
      /\ MarkAt(kind2)' /\ LengthAt(kind2, who2)' /\ GrowAt(kind2)' /\ (bytes <= Ceiling)'
      /\ \A u \in Threads : HandsOf(u)'
  <2>1. HoldsCur(t)' = HoldsCur(t) /\ HoldsNode(t)' = HoldsNode(t)
    BY <1>v DEF HoldsCur, HoldsNode
  <2>2. HandsOf(t)'
    BY <1>0, <1>v DEF HandsOf, LocalOK, HandOK, CeilingOK, Ceiling
  <2>3. \A g \in Chunks : g # h => live'[g] = live[g]
    BY <1>u DEF TypeOK
  <2>4. pc'[t] \notin Extends /\ pc[t] \notin Extends
    BY <1>u, <1>6 DEF Extends
  <2>5. Moves(kind, who, kind2, who2, t, h, "cache", t)
    BY <1>2, <1>4, <1>5, <1>6, <1>u, <1>v DEF Moves
  <2>. QED
    BY <2>1, <2>2, <2>3, <2>4, <2>5, <1>2, <1>u, <1>v, MoveStep
<1>7. LiveAt(kind2)'
  <2>1. live'[h] = 0 /\ \A g \in Chunks : g # h => live'[g] = live[g]
    BY <1>u DEF TypeOK
  <2>. QED
    BY <2>1, <1>0, <1>1, <1>2, <1>m, <1>v DEF LiveAt
<1>8. CacheAt(kind2, who2)'
  <2>1. /\ cache'[t][n] = <<h>> \o cache[t][n]
        /\ \A u \in HasCache, k \in 1 .. CacheSlots :
              u # t \/ k # n => cache'[u][k] = cache[u][k]
    BY <1>2, <1>u DEF TypeOK
  <2>2. ASSUME NEW u \in HasCache, NEW k \in 1 .. CacheSlots
        PROVE  /\ IsInjective(cache'[u][k])
               /\ \A g \in Chunks :
                    g \in Range(cache'[u][k]) <=> kind2[g] = "cache" /\ who2[g] = u /\ len[g] = k
    <3>1. CASE u = t /\ k = n
      <4>1. \A g \in Chunks : g \in Range(cache[t][n]) <=>
                kind[g] = "cache" /\ who[g] = t /\ len[g] = n
        BY <1>0, <1>2, <1>u DEF CacheAt
      <4>2. cache'[u][k] = <<h>> \o cache[t][n]
        BY <2>1, <3>1
      <4>. QED
        BY <4>1, <4>2, <3>1, <1>1, <1>2, <1>3, <1>m
    <3>2. CASE u # t \/ k # n
      BY <2>1, <3>2, <1>0, <1>1, <1>2, <1>m DEF CacheAt
    <3>. QED
      BY <3>1, <3>2
  <2>3. \A g \in Chunks : kind2[g] = "cache" => who2[g] \in HasCache /\ len[g] \in 1 .. CacheSlots
    BY <1>0, <1>1, <1>2, <1>m, <1>u DEF CacheAt
  <2>. QED
    BY <2>2, <2>3, <1>v DEF CacheAt
<1>9. KeptOK(kind2, who2)' /\ cached'[t] \in 0 .. CacheMax
  <2>1. cached'[t] = cached[t] + n /\ \A u \in HasCache : u # t => cached'[u] = cached[u]
    BY <1>u, Bounds DEF TypeOK
  <2>2. cached[t] \in 0 .. CacheMax
    BY <1>u DEF TypeOK
  <2>3. /\ cached'[t] = (cached[t] - IF kind[h] = "cache" THEN len[h] ELSE 0)
                           + (IF kind2[h] = "cache" THEN len[h] ELSE 0)
           => KeptOK(kind2, who2)'
    <3>1. OnlyAt(kind, who, kind2, who2, h)
      BY <1>m DEF OnlyAt
    <3>2. /\ kind[h] = "live" /\ kind2[h] = "cache" /\ who2[h] = t /\ t \in HasCache
          /\ KeptOK(kind, who) /\ len' = len
      BY <1>0, <1>2, <1>m, <1>u, <1>v
    <3>. QED
      BY <3>1, <3>2, <2>1, KeptPut
  <2>4. cached'[t] = (cached[t] - 0) + len[h] /\ cached'[t] \in 0 .. CacheMax
    BY <2>1, <2>2, <1>1, <1>2, <1>u, Bounds
  <2>. QED
    BY <2>3, <2>4, <1>2, <1>m
<1>10. CountOK(kind2, who2)'
  <2>1. \A g \in Chunks : IsCounted(kind2, who2, g)' <=> IsCounted(kind, who, g)
    BY <1>2, <1>m, <1>v DEF IsCounted
  <2>2. Counted(kind2, who2)' = Counted(kind, who)
    BY <2>1, <1>v DEF Counted
  <2>. QED
    BY <2>2, <1>0, <1>v DEF CountOK
<1>11. Locks'
  BY <1>0, <1>v DEF Locks
<1>t. TypeOK'
  <2>1. cache' \in [HasCache -> [1 .. CacheSlots -> Row]]
    BY <1>2, <1>3, <1>u DEF TypeOK
  <2>2. cached' \in [HasCache -> 0 .. CacheMax]
    BY <1>9, <1>u DEF TypeOK
  <2>3. live' \in [Chunks -> Nat]
    BY <1>u DEF TypeOK
  <2>. QED
    BY <2>1, <2>2, <2>3, <1>v DEF TypeOK
<1>. QED
  <2>1. PoolOK(kind2, who2, size)'
    BY <1>m, <1>7, <1>8, <1>9, <1>10, <1>11
       DEF PoolOK, MapOK, Seats, Hands, HandsOf
  <2>. QED
    BY <2>1, <1>t

LEMMA UnparkInv ==
    ASSUME NEW kind, NEW who, NEW size, TypeOK, PoolOK(kind, who, size), UNCHANGED setup,
           NEW t \in Threads, parked[want[t]] # <<>>, Unpark(t)
    PROVE  TypeOK' /\ \E k, w, s : PoolOK(k, w, s)'
<1>0. /\ KeptOK(kind, who) /\ CountOK(kind, who) /\ HandsOf(t) /\ Locks /\ ParkedAt(kind, who)
      /\ CurAt(kind, who) /\ NodeAt(kind, who)
  BY Unfold
<1>1. PICK n : n = want[t]
  OBVIOUS
<1>2. PICK h : h = Head(parked[n])
  OBVIOUS
<1>u. /\ pc[t] = "unpark" /\ parked' = [parked EXCEPT ![n] = Tail(@)]
      /\ Go(t, "uncount", h, n)
  BY <1>1, <1>2 DEF Unpark
<1>v. /\ cursor' = cursor /\ len' = len /\ magic' = magic /\ free' = free /\ map' = map
      /\ list' = list /\ cache' = cache /\ cached' = cached /\ bytes' = bytes
      /\ sweeping' = sweeping /\ lock' = lock /\ live' = live /\ lost' = lost
  BY DEF Unpark, pool
<1>3. n \in 1 .. MaxSpan /\ class[t] = 0 /\ node[t] = None /\ cur[t] = None
  BY <1>0, <1>1, <1>u, Bounds DEF HandsOf, LocalOK, Sweeps, TypeOK
<1>7. /\ parked[n] \in Row /\ Tail(parked[n]) \in Row /\ IsInjective(Tail(parked[n]))
      /\ h \in Chunks /\ h \in Range(parked[n])
      /\ \A g : g \in Range(Tail(parked[n])) <=> g # h /\ g \in Range(parked[n])
  <2>1. parked[n] \in Row /\ IsInjective(parked[n])
    BY <1>0, <1>3 DEF ParkedAt, TypeOK
  <2>. QED
    BY <2>1, <1>1, <1>2, RowTail
<1>8. /\ kind[h] = "parked" /\ who[h] = n /\ len[h] = n /\ kind[h] \in SpanKinds
      /\ h # None /\ "cur" \in SpanKinds
  BY <1>0, <1>3, <1>7, Bounds DEF ParkedAt, SpanKinds
<1>4. PICK kind2 : kind2 = [kind EXCEPT ![h] = "cur"]
  OBVIOUS
<1>5. PICK who2 : who2 = [who EXCEPT ![h] = t]
  OBVIOUS
<1>n. /\ OthersWait(t) /\ LocalTypes' /\ pc'[t] = "uncount" /\ cur'[t] = h /\ want'[t] = n
      /\ class'[t] = 0 /\ node'[t] = None
  <2>1. "uncount" \in Steps /\ h \in Nat \cup {None} /\ n \in Nat
    BY <1>3, <1>7, ChunkIs DEF Steps
  <2>. QED
    BY <2>1, <1>3, <1>u, Went
<1>m. /\ kind2[h] = "cur" /\ who2[h] = t
      /\ \A g \in Chunks : g # h => kind2[g] = kind[g] /\ who2[g] = who[g]
      /\ MapType(kind2, who2, size)' /\ Tiles(kind2, size, cursor)' /\ SizeAt(kind2, who2, size)'
      /\ FreshAt(kind2, who2)' /\ TailAt(kind2, who2)' /\ LostAt(kind2)'
      /\ LiveAt(kind2)' /\ ListAt(kind2, who2)' /\ CacheAt(kind2, who2)' /\ NodeAt(kind2, who2)'
      /\ MarkAt(kind2)' /\ LengthAt(kind2, who2)' /\ GrowAt(kind2)'
      /\ KeptOK(kind2, who2)' /\ (bytes <= Ceiling)'
      /\ \A u \in Threads : HandsOf(u)'
  <2>1. ~HoldsNode(t)' /\ ~HoldsNode(t)
    BY <1>n, <1>u DEF HoldsNode
  <2>2. HandsOf(t)'
    BY <1>0, <1>3, <1>7, <1>8, <1>n, <1>v DEF HandsOf, LocalOK, HandOK, CeilingOK, Sweeps, Frees
  <2>4. pc'[t] \notin Extends /\ pc[t] \notin Extends
    BY <1>n, <1>u DEF Extends
  <2>5. Moves(kind, who, kind2, who2, t, h, "cur", t)
    BY <1>7, <1>8, <1>4, <1>5, <1>n, <1>u, <1>v DEF Moves
  <2>. QED
    BY <2>1, <2>2, <2>4, <2>5, <1>8, <1>n, <1>u, <1>v, MoveStep
<1>9. ParkedAt(kind2, who2)'
  <2>1. parked'[n] = Tail(parked[n]) /\ \A k \in 1 .. MaxSpan : k # n => parked'[k] = parked[k]
    BY <1>u, <1>3 DEF TypeOK
  <2>. QED
    BY <2>1, <1>0, <1>3, <1>7, <1>8, <1>m, <1>v DEF ParkedAt
<1>10. CurAt(kind2, who2)'
  <2>1. ~HoldsCur(t) /\ HoldsCur(t)'
    BY <1>3, <1>7, <1>8, <1>n, <1>u DEF HoldsCur, Frees
  <2>2. \A u \in Threads : u # t => (HoldsCur(u)' <=> HoldsCur(u)) /\ cur'[u] = cur[u]
    BY <1>n DEF HoldsCur, OthersWait
  <2>. QED
    BY <2>1, <2>2, <1>0, <1>7, <1>8, <1>m, <1>n DEF CurAt
<1>11. CountOK(kind2, who2)'
  <2>1. CountedOnlyAt(kind, who, kind2, who2, h)
    BY <1>0, <1>3, <1>u, <1>n, <1>m
       DEF CountedOnlyAt, IsCounted, OthersWait, CurAt, NodeAt, HoldsCur, HoldsNode
  <2>2. IsCounted(kind, who, h) /\ IsCounted(kind2, who2, h)'
    BY <1>8, <1>m, <1>n DEF IsCounted
  <2>3. bytes' = (bytes - IF IsCounted(kind, who, h) THEN len[h] ELSE 0)
                     + (IF IsCounted(kind2, who2, h)' THEN len[h] ELSE 0)
    BY <2>2, <1>7, <1>v DEF TypeOK
  <2>. QED
    BY <2>1, <2>3, <1>0, <1>7, <1>v, CountPut
<1>12. Locks'
  BY <1>0, <1>3, <1>n, <1>u, <1>v DEF Locks, OthersWait
<1>t. TypeOK'
  <2>1. parked' \in [1 .. MaxSpan -> Row]
    BY <1>7, <1>u DEF TypeOK
  <2>. QED
    BY <2>1, <1>n, <1>v DEF TypeOK, LocalTypes
<1>. QED
  <2>1. PoolOK(kind2, who2, size)'
    BY <1>m, <1>9, <1>10, <1>11, <1>12
       DEF PoolOK, MapOK, Seats, Hands, HandsOf
  <2>. QED
    BY <2>1, <1>t

LEMMA UncountInv ==
    ASSUME NEW kind, NEW who, NEW size, TypeOK, PoolOK(kind, who, size), UNCHANGED setup,
           NEW t \in Threads, Uncount(t)
    PROVE  TypeOK' /\ \E k, w, s : PoolOK(k, w, s)'
<1>0. /\ KeptOK(kind, who) /\ CountOK(kind, who) /\ HandsOf(t) /\ Locks /\ LiveAt(kind)
      /\ CurAt(kind, who) /\ NodeAt(kind, who) /\ bytes <= Ceiling
  BY Unfold
<1>1. PICK n : n = want[t]
  OBVIOUS
<1>2. PICK h : h = cur[t]
  OBVIOUS
<1>u. /\ pc[t] = "uncount" /\ bytes' = bytes - n /\ live' = [live EXCEPT ![h] = @ + n]
      /\ Go(t, "idle", None, 0)
  BY <1>1, <1>2 DEF Uncount, Idle
<1>v. /\ cursor' = cursor /\ len' = len /\ magic' = magic /\ free' = free /\ map' = map
      /\ list' = list /\ cache' = cache /\ cached' = cached /\ parked' = parked
      /\ sweeping' = sweeping /\ lock' = lock /\ lost' = lost
  BY DEF Uncount, pool
<1>3. /\ h \in Chunks /\ h # None /\ HoldsCur(t) /\ n = len[h] /\ n >= 1 /\ n \in Nat
      /\ class[t] = 0 /\ node[t] = None
  BY <1>0, <1>1, <1>2, <1>u, Bounds
     DEF HandsOf, LocalOK, HandOK, Sweeps, Frees, HoldsCur, TypeOK
<1>8. kind[h] = "cur" /\ who[h] = t /\ kind[h] \in SpanKinds /\ "live" \in SpanKinds /\ live[h] = 0
  <2>1. kind[h] = "cur" /\ who[h] = t
    BY <1>0, <1>2, <1>3 DEF CurAt
  <2>2. kind[h] \in SpanKinds /\ "live" \in SpanKinds
    BY <2>1 DEF SpanKinds
  <2>. QED
    BY <2>1, <2>2, <1>3, SpanIs
<1>4. PICK kind2 : kind2 = [kind EXCEPT ![h] = "live"]
  OBVIOUS
<1>5. PICK who2 : who2 = [who EXCEPT ![h] = None]
  OBVIOUS
<1>n. /\ OthersWait(t) /\ LocalTypes' /\ pc'[t] = "idle" /\ cur'[t] = None /\ want'[t] = 0
      /\ class'[t] = 0 /\ node'[t] = None
  BY <1>3, <1>u, WentIdle
<1>7. live'[h] = n /\ \A g \in Chunks : g # h => live'[g] = live[g]
  BY <1>u, <1>3, <1>8 DEF TypeOK
<1>m. /\ kind2[h] = "live" /\ who2[h] = None
      /\ \A g \in Chunks : g # h => kind2[g] = kind[g] /\ who2[g] = who[g]
      /\ MapType(kind2, who2, size)' /\ Tiles(kind2, size, cursor)' /\ SizeAt(kind2, who2, size)'
      /\ FreshAt(kind2, who2)' /\ TailAt(kind2, who2)' /\ LostAt(kind2)'
      /\ ListAt(kind2, who2)' /\ ParkedAt(kind2, who2)' /\ CacheAt(kind2, who2)'
      /\ NodeAt(kind2, who2)' /\ MarkAt(kind2)' /\ LengthAt(kind2, who2)' /\ GrowAt(kind2)'
      /\ KeptOK(kind2, who2)'
      /\ \A u \in Threads : HandsOf(u)'
  <2>1. ~HoldsNode(t)' /\ ~HoldsNode(t)
    BY <1>n, <1>u DEF HoldsNode
  <2>2. HandsOf(t)'
    BY <1>n DEF HandsOf, LocalOK, HandOK, CeilingOK, Sweeps, Frees
  <2>4. pc'[t] \notin Extends /\ pc[t] \notin Extends
    BY <1>n, <1>u DEF Extends
  <2>5. Moves(kind, who, kind2, who2, t, h, "live", None)
    BY <1>3, <1>8, <1>4, <1>5, <1>n, <1>u, <1>v DEF Moves
  <2>. QED
    BY <2>1, <2>2, <2>4, <2>5, <1>7, <1>8, <1>n, <1>u, <1>v, MoveStep
<1>9. LiveAt(kind2)'
  BY <1>0, <1>3, <1>7, <1>m, <1>v DEF LiveAt
<1>10. CurAt(kind2, who2)'
  <2>1. ~HoldsCur(t)'
    BY <1>n DEF HoldsCur
  <2>2. \A u \in Threads : u # t => (HoldsCur(u)' <=> HoldsCur(u)) /\ cur'[u] = cur[u]
    BY <1>n DEF HoldsCur, OthersWait
  <2>. QED
    BY <2>1, <2>2, <1>0, <1>2, <1>8, <1>m DEF CurAt
<1>11. CountOK(kind2, who2)' /\ bytes' \in Nat /\ (bytes <= Ceiling)'
  <2>1. CountedOnlyAt(kind, who, kind2, who2, h)
    BY <1>0, <1>2, <1>3, <1>u, <1>n, <1>m
       DEF CountedOnlyAt, IsCounted, OthersWait, CurAt, NodeAt, HoldsCur, HoldsNode
  <2>2. IsCounted(kind, who, h) /\ ~IsCounted(kind2, who2, h)'
    BY <1>8, <1>m, <1>n, <1>u DEF IsCounted
  <2>3. /\ len[h] <= bytes
        /\ bytes' = (bytes - IF IsCounted(kind, who, h) THEN len[h] ELSE 0)
                        + (IF IsCounted(kind2, who2, h)' THEN len[h] ELSE 0)
           => CountOK(kind2, who2)'
    BY <2>1, <2>2, <1>0, <1>3, <1>v, CountPut
  <2>4. bytes' = (bytes - len[h]) + 0 /\ bytes' \in Nat /\ bytes' <= bytes
    BY <2>3, <1>3, <1>u DEF TypeOK
  <2>5. Ceiling' = Ceiling /\ Ceiling \in Nat
    BY <1>v, CeilingUp DEF Ceiling, TypeOK
  <2>. QED
    BY <2>2, <2>3, <2>4, <2>5, <1>0 DEF TypeOK
<1>12. Locks'
  BY <1>0, <1>3, <1>n, <1>u, <1>v DEF Locks, OthersWait
<1>t. TypeOK'
  <2>1. live' \in [Chunks -> Nat]
    BY <1>3, <1>8, <1>u DEF TypeOK
  <2>. QED
    BY <2>1, <1>11, <1>n, <1>v DEF TypeOK, LocalTypes
<1>. QED
  <2>1. PoolOK(kind2, who2, size)'
    BY <1>m, <1>9, <1>10, <1>11, <1>12
       DEF PoolOK, MapOK, Seats, Hands, HandsOf
  <2>. QED
    BY <2>1, <1>t

LEMMA FreeBeginInv ==
    ASSUME NEW kind, NEW who, NEW size, TypeOK, PoolOK(kind, who, size), UNCHANGED setup,
           NEW t \in Threads, NEW h \in Chunks, FreeBegin(t, h)
    PROVE  TypeOK' /\ \E k, w, s : PoolOK(k, w, s)'
<1>0. KeptOK(kind, who) /\ CountOK(kind, who) /\ HandsOf(t) /\ Locks /\ LiveAt(kind)
      /\ CurAt(kind, who) /\ NodeAt(kind, who)
  BY Unfold
<1>u. /\ pc[t] = "idle" /\ live[h] > 0 /\ \A u \in Threads : cur[u] # h
      /\ live' = [live EXCEPT ![h] = 0]
  BY DEF FreeBegin, InProgram
<1>c. cursor' = cursor
  BY DEF FreeBegin
<1>1. PICK p \in {"park", "return"}, n \in Nat :
        /\ Go(t, p, h, n)
        /\ p = "park" => len[h] <= MaxSpan /\ n = Ceiling
  <2>1. Ceiling \in Nat
    BY <1>c, CeilingUp DEF TypeOK
  <2>. QED
    BY <2>1 DEF FreeBegin
<1>v. /\ cursor' = cursor /\ len' = len /\ magic' = magic /\ free' = free /\ map' = map
      /\ list' = list /\ cache' = cache /\ cached' = cached /\ parked' = parked /\ bytes' = bytes
      /\ sweeping' = sweeping /\ lock' = lock /\ lost' = lost
  BY DEF FreeBegin, pool, tiers
<1>3. class[t] = 0 /\ node[t] = None /\ cur[t] = None /\ h # None
  BY <1>0, <1>u, Bounds DEF HandsOf, LocalOK, Sweeps
<1>8. kind[h] = "live" /\ kind[h] \in SpanKinds /\ "cur" \in SpanKinds
  BY <1>0, <1>u DEF LiveAt, SpanKinds
<1>4. PICK kind2 : kind2 = [kind EXCEPT ![h] = "cur"]
  OBVIOUS
<1>5. PICK who2 : who2 = [who EXCEPT ![h] = t]
  OBVIOUS
<1>n. /\ OthersWait(t) /\ LocalTypes' /\ pc'[t] = p /\ cur'[t] = h /\ want'[t] = n
      /\ class'[t] = 0 /\ node'[t] = None
  <2>1. p \in Steps /\ h \in Nat \cup {None}
    BY ChunkIs DEF Steps
  <2>. QED
    BY <2>1, <1>1, <1>3, Went
<1>7. live'[h] = 0 /\ \A g \in Chunks : g # h => live'[g] = live[g]
  BY <1>u DEF TypeOK
<1>m. /\ kind2[h] = "cur" /\ who2[h] = t
      /\ \A g \in Chunks : g # h => kind2[g] = kind[g] /\ who2[g] = who[g]
      /\ MapType(kind2, who2, size)' /\ Tiles(kind2, size, cursor)' /\ SizeAt(kind2, who2, size)'
      /\ FreshAt(kind2, who2)' /\ TailAt(kind2, who2)' /\ LostAt(kind2)'
      /\ ListAt(kind2, who2)' /\ ParkedAt(kind2, who2)' /\ CacheAt(kind2, who2)'
      /\ NodeAt(kind2, who2)' /\ MarkAt(kind2)' /\ LengthAt(kind2, who2)' /\ GrowAt(kind2)'
      /\ KeptOK(kind2, who2)' /\ (bytes <= Ceiling)'
      /\ \A u \in Threads : HandsOf(u)'
  <2>1. ~HoldsNode(t)' /\ ~HoldsNode(t)
    BY <1>1, <1>n, <1>u DEF HoldsNode
  <2>2. HandsOf(t)'
    BY <1>1, <1>n, <1>v DEF HandsOf, LocalOK, HandOK, CeilingOK, Ceiling, Sweeps, Frees
  <2>4. pc'[t] \notin Extends /\ pc[t] \notin Extends /\ pc'[t] # "mergeAbsorb"
    BY <1>1, <1>n, <1>u DEF Extends
  <2>5. Moves(kind, who, kind2, who2, t, h, "cur", t)
    BY <1>1, <1>8, <1>4, <1>5, <1>n, <1>u, <1>v DEF Moves
  <2>. QED
    BY <2>1, <2>2, <2>4, <2>5, <1>7, <1>8, <1>u, <1>v, MoveStep
<1>9. LiveAt(kind2)'
  <2>1. len[h] \in Nat
    BY DEF TypeOK
  <2>. QED
    BY <2>1, <1>0, <1>7, <1>m, <1>v DEF LiveAt
<1>10. CurAt(kind2, who2)'
  <2>1. ~HoldsCur(t) /\ HoldsCur(t)'
    BY <1>1, <1>3, <1>n DEF HoldsCur, Frees
  <2>2. \A u \in Threads : u # t => (HoldsCur(u)' <=> HoldsCur(u)) /\ cur'[u] = cur[u]
    BY <1>n DEF HoldsCur, OthersWait
  <2>. QED
    BY <2>1, <2>2, <1>0, <1>8, <1>m, <1>n DEF CurAt
<1>11. CountOK(kind2, who2)'
  <2>1. CountedOnlyAt(kind, who, kind2, who2, h)
    BY <1>0, <1>1, <1>3, <1>u, <1>n, <1>m
       DEF CountedOnlyAt, IsCounted, OthersWait, CurAt, NodeAt, HoldsCur, HoldsNode
  <2>2. ~IsCounted(kind, who, h) /\ ~IsCounted(kind2, who2, h)'
    BY <1>1, <1>8, <1>m, <1>n DEF IsCounted
  <2>3. bytes' = (bytes - IF IsCounted(kind, who, h) THEN len[h] ELSE 0)
                     + (IF IsCounted(kind2, who2, h)' THEN len[h] ELSE 0)
    BY <2>2, <1>v DEF TypeOK
  <2>. QED
    BY <2>1, <2>3, <1>0, <1>v, CountPut
<1>12. Locks'
  BY <1>0, <1>1, <1>3, <1>n, <1>u, <1>v DEF Locks, OthersWait
<1>t. TypeOK'
  <2>1. live' \in [Chunks -> Nat]
    BY <1>u DEF TypeOK
  <2>. QED
    BY <2>1, <1>n, <1>v DEF TypeOK, LocalTypes
<1>. QED
  <2>1. PoolOK(kind2, who2, size)'
    BY <1>m, <1>9, <1>10, <1>11, <1>12
       DEF PoolOK, MapOK, Seats, Hands, HandsOf
  <2>. QED
    BY <2>1, <1>t

LEMMA PushInv ==
    ASSUME NEW kind, NEW who, NEW size, TypeOK, PoolOK(kind, who, size), UNCHANGED setup,
           NEW t \in Threads, Push(t)
    PROVE  TypeOK' /\ \E k, w, s : PoolOK(k, w, s)'
<1>0. /\ KeptOK(kind, who) /\ CountOK(kind, who) /\ HandsOf(t) /\ Locks /\ ParkedAt(kind, who)
      /\ CurAt(kind, who) /\ NodeAt(kind, who)
  BY Unfold
<1>1. PICK h : h = cur[t]
  OBVIOUS
<1>2. PICK n : n = len[h]
  OBVIOUS
<1>u. /\ pc[t] = "push" /\ parked' = [parked EXCEPT ![n] = <<h>> \o @]
      /\ Go(t, "idle", None, 0)
  BY <1>1, <1>2 DEF Push, Idle
<1>v. /\ cursor' = cursor /\ len' = len /\ magic' = magic /\ free' = free /\ map' = map
      /\ list' = list /\ cache' = cache /\ cached' = cached /\ bytes' = bytes
      /\ sweeping' = sweeping /\ lock' = lock /\ live' = live /\ lost' = lost
  BY DEF Push, pool
<1>3. h \in Chunks /\ h # None /\ HoldsCur(t) /\ n <= MaxSpan /\ class[t] = 0 /\ node[t] = None
  BY <1>0, <1>1, <1>2, <1>u, Bounds DEF HandsOf, LocalOK, HandOK, Sweeps, Frees, HoldsCur
<1>8. kind[h] = "cur" /\ who[h] = t /\ kind[h] \in SpanKinds /\ "parked" \in SpanKinds
      /\ n \in 1 .. MaxSpan
  <2>1. kind[h] = "cur" /\ who[h] = t
    BY <1>0, <1>1, <1>3 DEF CurAt
  <2>2. kind[h] \in SpanKinds /\ "parked" \in SpanKinds
    BY <2>1 DEF SpanKinds
  <2>3. len[h] \in Nat /\ len[h] >= 1
    BY <2>2, <1>3, SpanIs
  <2>. QED
    BY <2>1, <2>2, <2>3, <1>2, <1>3, Bounds
<1>7. /\ parked[n] \in Row /\ <<h>> \o parked[n] \in Row /\ IsInjective(<<h>> \o parked[n])
      /\ \A g : g \in Range(<<h>> \o parked[n]) <=> g = h \/ g \in Range(parked[n])
  <2>1. parked[n] \in Row /\ IsInjective(parked[n]) /\ h \notin Range(parked[n])
    BY <1>0, <1>3, <1>8 DEF ParkedAt, TypeOK
  <2>. QED
    BY <2>1, <1>3, RowCons
<1>4. PICK kind2 : kind2 = [kind EXCEPT ![h] = "parked"]
  OBVIOUS
<1>5. PICK who2 : who2 = [who EXCEPT ![h] = n]
  OBVIOUS
<1>n. /\ OthersWait(t) /\ LocalTypes' /\ pc'[t] = "idle" /\ cur'[t] = None /\ want'[t] = 0
      /\ class'[t] = 0 /\ node'[t] = None
  BY <1>3, <1>u, WentIdle
<1>m. /\ kind2[h] = "parked" /\ who2[h] = n
      /\ \A g \in Chunks : g # h => kind2[g] = kind[g] /\ who2[g] = who[g]
      /\ MapType(kind2, who2, size)' /\ Tiles(kind2, size, cursor)' /\ SizeAt(kind2, who2, size)'
      /\ FreshAt(kind2, who2)' /\ TailAt(kind2, who2)' /\ LostAt(kind2)'
      /\ LiveAt(kind2)' /\ ListAt(kind2, who2)' /\ CacheAt(kind2, who2)' /\ NodeAt(kind2, who2)'
      /\ MarkAt(kind2)' /\ LengthAt(kind2, who2)' /\ GrowAt(kind2)'
      /\ KeptOK(kind2, who2)' /\ (bytes <= Ceiling)'
      /\ \A u \in Threads : HandsOf(u)'
  <2>1. ~HoldsNode(t)' /\ ~HoldsNode(t)
    BY <1>n, <1>u DEF HoldsNode
  <2>2. HandsOf(t)'
    BY <1>n DEF HandsOf, LocalOK, HandOK, CeilingOK, Sweeps, Frees
  <2>4. pc'[t] \notin Extends /\ pc[t] \notin Extends
    BY <1>n, <1>u DEF Extends
  <2>5. Moves(kind, who, kind2, who2, t, h, "parked", n)
    BY <1>3, <1>8, <1>4, <1>5, <1>n, <1>u, <1>v DEF Moves
  <2>. QED
    BY <2>1, <2>2, <2>4, <2>5, <1>8, <1>n, <1>u, <1>v, MoveStep
<1>9. ParkedAt(kind2, who2)'
  <2>1. parked'[n] = <<h>> \o parked[n] /\ \A k \in 1 .. MaxSpan : k # n => parked'[k] = parked[k]
    BY <1>u, <1>8 DEF TypeOK
  <2>2. ASSUME NEW k \in 1 .. MaxSpan
        PROVE  /\ IsInjective(parked'[k])
               /\ \A g \in Chunks : g \in Range(parked'[k]) <=> kind2[g] = "parked" /\ who2[g] = k
    <3>1. CASE k = n
      <4>1. \A g \in Chunks : g \in Range(parked[n]) <=> kind[g] = "parked" /\ who[g] = n
        BY <1>0, <1>8 DEF ParkedAt
      <4>. QED
        BY <4>1, <3>1, <2>1, <1>3, <1>7, <1>8, <1>m
    <3>2. CASE k # n
      BY <3>2, <2>1, <1>0, <1>8, <1>m DEF ParkedAt
    <3>. QED
      BY <3>1, <3>2
  <2>3. \A g \in Chunks : kind2[g] = "parked" => who2[g] \in 1 .. MaxSpan /\ len[g] = who2[g]
    BY <1>0, <1>2, <1>8, <1>m DEF ParkedAt
  <2>. QED
    BY <2>2, <2>3, <1>v DEF ParkedAt
<1>10. CurAt(kind2, who2)'
  <2>1. ~HoldsCur(t)'
    BY <1>n DEF HoldsCur
  <2>2. \A u \in Threads : u # t => (HoldsCur(u)' <=> HoldsCur(u)) /\ cur'[u] = cur[u]
    BY <1>n DEF HoldsCur, OthersWait
  <2>. QED
    BY <2>1, <2>2, <1>0, <1>1, <1>8, <1>m DEF CurAt
<1>11. CountOK(kind2, who2)'
  <2>1. CountedOnlyAt(kind, who, kind2, who2, h)
    BY <1>0, <1>1, <1>3, <1>u, <1>n, <1>m
       DEF CountedOnlyAt, IsCounted, OthersWait, CurAt, NodeAt, HoldsCur, HoldsNode
  <2>2. IsCounted(kind, who, h) /\ IsCounted(kind2, who2, h)'
    BY <1>8, <1>m, <1>n, <1>u DEF IsCounted
  <2>3. bytes' = (bytes - IF IsCounted(kind, who, h) THEN len[h] ELSE 0)
                     + (IF IsCounted(kind2, who2, h)' THEN len[h] ELSE 0)
    BY <2>2, <1>3, <1>v DEF TypeOK
  <2>. QED
    BY <2>1, <2>3, <1>0, <1>3, <1>v, CountPut
<1>12. Locks'
  BY <1>0, <1>3, <1>n, <1>u, <1>v DEF Locks, OthersWait
<1>t. TypeOK'
  <2>1. parked' \in [1 .. MaxSpan -> Row]
    BY <1>7, <1>u DEF TypeOK
  <2>. QED
    BY <2>1, <1>n, <1>v DEF TypeOK, LocalTypes
<1>. QED
  <2>1. PoolOK(kind2, who2, size)'
    BY <1>m, <1>9, <1>10, <1>11, <1>12
       DEF PoolOK, MapOK, Seats, Hands, HandsOf
  <2>. QED
    BY <2>1, <1>t

LEMMA ReserveInv ==
    ASSUME NEW kind, NEW who, NEW size, TypeOK, PoolOK(kind, who, size), UNCHANGED setup,
           NEW t \in Threads, Reserve(t)
    PROVE  TypeOK' /\ PoolOK(kind, who, size)'
<1>0. /\ CountOK(kind, who) /\ HandsOf(t) /\ Locks /\ CurAt(kind, who) /\ NodeAt(kind, who)
  BY Unfold
<1>1. PICK h : h = cur[t]
  OBVIOUS
<1>u. /\ pc[t] = "park" /\ bytes' = bytes + len[h] /\ ~(bytes + len[h] > want[t])
      /\ Go(t, "push", h, want[t])
  BY <1>1 DEF Reserve, Over, Step
<1>v. /\ UNCHANGED <<cursor, pool, cache, cached, parked, live, lost>>
      /\ cursor' = cursor /\ len' = len /\ lock' = lock /\ sweeping' = sweeping
  BY DEF Reserve, pool
<1>3. h \in Chunks /\ h # None /\ HoldsCur(t) /\ class[t] = 0 /\ node[t] = None /\ len[h] \in Nat
      /\ len[h] <= MaxSpan /\ want[t] <= Ceiling /\ want[t] \in Nat
  BY <1>0, <1>1, <1>u, Bounds
     DEF HandsOf, LocalOK, HandOK, CeilingOK, Sweeps, Frees, HoldsCur, TypeOK
<1>8. kind[h] = "cur" /\ who[h] = t
  BY <1>0, <1>1, <1>3 DEF CurAt
<1>n. /\ OthersWait(t) /\ LocalTypes' /\ pc'[t] = "push" /\ cur'[t] = h /\ want'[t] = want[t]
      /\ class'[t] = 0 /\ node'[t] = None
  <2>1. "push" \in Steps /\ h \in Nat \cup {None} /\ want[t] \in Nat
    BY <1>3, ChunkIs DEF Steps
  <2>. QED
    BY <2>1, <1>3, <1>u, Went
<1>4. CountOK(kind, who)'
  <2>1. CountedOnlyAt(kind, who, kind, who, h)
    BY <1>0, <1>1, <1>3, <1>u, <1>n
       DEF CountedOnlyAt, IsCounted, OthersWait, CurAt, NodeAt, HoldsCur, HoldsNode
  <2>2. ~IsCounted(kind, who, h) /\ IsCounted(kind, who, h)'
    BY <1>8, <1>n, <1>u DEF IsCounted
  <2>3. bytes' = (bytes - IF IsCounted(kind, who, h) THEN len[h] ELSE 0)
                     + (IF IsCounted(kind, who, h)' THEN len[h] ELSE 0)
    BY <2>2, <1>3, <1>u DEF TypeOK
  <2>. QED
    BY <2>1, <2>3, <1>0, <1>3, <1>v, CountPut
<1>5. (bytes <= Ceiling)' /\ bytes' \in Nat
  <2>1. Ceiling' = Ceiling /\ Ceiling \in Nat
    BY <1>v, CeilingUp DEF Ceiling, TypeOK
  <2>. QED
    BY <2>1, <1>3, <1>u DEF TypeOK
<1>6. HandsOf(t)'
  BY <1>3, <1>n, <1>v DEF HandsOf, LocalOK, HandOK, CeilingOK, Sweeps, Frees
<1>7. Locks'
  BY <1>0, <1>3, <1>n, <1>u, <1>v DEF Locks, OthersWait
<1>9. /\ (HoldsCur(t)' <=> HoldsCur(t)) /\ (HoldsCur(t) => cur'[t] = cur[t])
      /\ ~HoldsNode(t) /\ ~HoldsNode(t)'
  BY <1>1, <1>3, <1>n, <1>u DEF HoldsCur, HoldsNode, Frees
<1>10. PoolOK(kind, who, size)'
  BY <1>4, <1>5, <1>6, <1>7, <1>9, <1>n, <1>u, <1>v, StillStep
<1>. QED
  BY <1>5, <1>10, <1>n, <1>v DEF TypeOK, LocalTypes, pool

(* A span put in the list of its length (list_insert).                      *)
Joins(kind, who, kind2, who2, t, h) ==
    /\ h \in Chunks /\ kind[h] \in SpanKinds /\ kind[h] # "list" /\ len[h] \in 1 .. MaxSpan
    /\ kind2[h] = "list" /\ who2[h] = len[h] /\ OnlyAt(kind, who, kind2, who2, h)
    /\ Insert(h) /\ OthersWait(t) /\ pc[t] # "mergeAbsorb" /\ pc'[t] # "mergeAbsorb"

LEMMA InsertSeat ==
    ASSUME NEW kind, NEW who, NEW size, TypeOK, PoolOK(kind, who, size), NEW t \in Threads,
           NEW h, NEW kind2, NEW who2, Joins(kind, who, kind2, who2, t, h)
    PROVE  /\ ListAt(kind2, who2)' /\ MarkAt(kind2)' /\ LengthAt(kind2, who2)'
           /\ list' \in [1 .. MaxSpan -> Row] /\ map' \subseteq Chunks /\ free' \subseteq Chunks
<1>0. ListAt(kind, who) /\ MarkAt(kind) /\ LengthAt(kind, who)
  BY Unfold
<1>1. PICK n : n = len[h]
  OBVIOUS
<1>u. /\ h \in Chunks /\ kind[h] \in SpanKinds /\ kind[h] # "list" /\ n \in 1 .. MaxSpan
      /\ kind2[h] = "list" /\ who2[h] = n
      /\ \A g \in Chunks : g # h => kind2[g] = kind[g] /\ who2[g] = who[g]
      /\ list' = [list EXCEPT ![n] = <<h>> \o @]
      /\ free' = free \cup {h} /\ map' = map \cup {h} /\ len' = len /\ magic' = magic
      /\ OthersWait(t) /\ pc[t] # "mergeAbsorb" /\ pc'[t] # "mergeAbsorb"
  BY <1>1 DEF Joins, Insert, OnlyAt
<1>2. /\ list[n] \in Row /\ <<h>> \o list[n] \in Row /\ IsInjective(<<h>> \o list[n])
      /\ \A g : g \in Range(<<h>> \o list[n]) <=> g = h \/ g \in Range(list[n])
  <2>1. list[n] \in Row /\ IsInjective(list[n]) /\ h \notin Range(list[n])
    BY <1>0, <1>u DEF ListAt, TypeOK
  <2>. QED
    BY <2>1, <1>u, RowCons
<1>3. ListAt(kind2, who2)'
  <2>1. list'[n] = <<h>> \o list[n] /\ \A k \in 1 .. MaxSpan : k # n => list'[k] = list[k]
    BY <1>u DEF TypeOK
  <2>2. ASSUME NEW k \in 1 .. MaxSpan
        PROVE  /\ IsInjective(list'[k])
               /\ \A g \in Chunks : g \in Range(list'[k]) <=> kind2[g] = "list" /\ who2[g] = k
    <3>1. CASE k = n
      <4>1. \A g \in Chunks : g \in Range(list[n]) <=> kind[g] = "list" /\ who[g] = n
        BY <1>0, <1>u DEF ListAt
      <4>. QED
        BY <4>1, <3>1, <2>1, <1>u, <1>2
    <3>2. CASE k # n
      BY <3>2, <2>1, <1>0, <1>u DEF ListAt
    <3>. QED
      BY <3>1, <3>2
  <2>3. \A g \in Chunks : kind2[g] = "list" => who2[g] \in 1 .. MaxSpan
    BY <1>0, <1>u DEF ListAt
  <2>. QED
    BY <2>2, <2>3 DEF ListAt
<1>4. MarkAt(kind2)'
  BY <1>0, <1>u DEF MarkAt, SpanKinds
<1>5. LengthAt(kind2, who2)'
  BY <1>0, <1>1, <1>u DEF LengthAt, Mending, OthersWait
<1>. QED
  BY <1>2, <1>3, <1>4, <1>5, <1>u DEF TypeOK

LEMMA RelistListsInv ==
    ASSUME NEW kind, NEW who, NEW size, TypeOK, PoolOK(kind, who, size), UNCHANGED setup,
           NEW t \in Threads, len[cur[t]] <= MaxSpan, Relist(t)
    PROVE  TypeOK' /\ \E k, w, s : PoolOK(k, w, s)'
<1>0. /\ CountOK(kind, who) /\ HandsOf(t) /\ Locks /\ CurAt(kind, who) /\ NodeAt(kind, who)
  BY Unfold
<1>1. PICK h : h = cur[t]
  OBVIOUS
<1>u. pc[t] = "coalesce" /\ Insert(h) /\ lock' = None /\ Go(t, "idle", None, 0)
  <2>1. h \in Chunks /\ len[h] <= MaxSpan /\ ~(len[h] > MaxSpan)
    <3>1. pc[t] = "coalesce"
      BY DEF Relist
    <3>2. h \in Chunks
      BY <3>1, <1>0, <1>1 DEF HandsOf, LocalOK, Frees
    <3>. QED
      BY <3>2, <1>1, Bounds DEF TypeOK
  <2>. QED
    BY <2>1, <1>1 DEF Relist, Idle
<1>v. /\ cursor' = cursor /\ len' = len /\ magic' = magic
      /\ cache' = cache /\ cached' = cached /\ parked' = parked /\ bytes' = bytes
      /\ sweeping' = sweeping /\ live' = live
  BY <1>u DEF Relist, Insert, tiers
<1>w. lost' = lost
  <2>1. len[h] \in Nat /\ MaxSpan \in Nat /\ len[h] <= MaxSpan
    <3>1. h \in Chunks
      BY <1>u, <1>0, <1>1 DEF HandsOf, LocalOK, Frees
    <3>. QED
      BY <3>1, <1>1, Bounds DEF TypeOK
  <2>2. ~(len[cur[t]] > MaxSpan)
    BY <2>1, <1>1
  <2>. QED
    BY <2>2 DEF Relist
<1>3. h \in Chunks /\ h # None /\ HoldsCur(t) /\ class[t] = 0 /\ node[t] = None
  BY <1>0, <1>1, <1>u, Bounds DEF HandsOf, LocalOK, Sweeps, Frees, HoldsCur
<1>8. kind[h] = "cur" /\ who[h] = t /\ kind[h] \in SpanKinds /\ "list" \in SpanKinds
      /\ len[h] \in 1 .. MaxSpan
  <2>1. kind[h] = "cur" /\ who[h] = t
    BY <1>0, <1>1, <1>3 DEF CurAt
  <2>2. kind[h] \in SpanKinds /\ "list" \in SpanKinds
    BY <2>1 DEF SpanKinds
  <2>3. len[h] \in Nat /\ len[h] >= 1
    BY <2>2, <1>3, SpanIs
  <2>. QED
    BY <2>1, <2>2, <2>3, <1>1, Bounds
<1>4. PICK kind2 : kind2 = [kind EXCEPT ![h] = "list"]
  OBVIOUS
<1>5. PICK who2 : who2 = [who EXCEPT ![h] = len[h]]
  OBVIOUS
<1>n. /\ OthersWait(t) /\ LocalTypes' /\ pc'[t] = "idle" /\ cur'[t] = None /\ want'[t] = 0
      /\ class'[t] = 0 /\ node'[t] = None
  BY <1>3, <1>u, WentIdle
<1>m. /\ kind2[h] = "list" /\ who2[h] = len[h]
      /\ \A g \in Chunks : g # h => kind2[g] = kind[g] /\ who2[g] = who[g]
      /\ MapType(kind2, who2, size)' /\ Tiles(kind2, size, cursor)' /\ SizeAt(kind2, who2, size)'
      /\ FreshAt(kind2, who2)' /\ TailAt(kind2, who2)' /\ LostAt(kind2)'
      /\ LiveAt(kind2)' /\ ParkedAt(kind2, who2)' /\ CacheAt(kind2, who2)' /\ NodeAt(kind2, who2)'
      /\ GrowAt(kind2)' /\ KeptOK(kind2, who2)' /\ (bytes <= Ceiling)'
      /\ \A u \in Threads : HandsOf(u)'
  <2>1. ~HoldsNode(t)' /\ ~HoldsNode(t)
    BY <1>n, <1>u DEF HoldsNode
  <2>2. HandsOf(t)'
    BY <1>n DEF HandsOf, LocalOK, HandOK, CeilingOK, Sweeps, Frees
  <2>4. pc'[t] \notin Extends /\ pc[t] \notin Extends
    BY <1>n, <1>u DEF Extends
  <2>5. Moves(kind, who, kind2, who2, t, h, "list", len[h])
    BY <1>3, <1>8, <1>4, <1>5, <1>n, <1>u, <1>v, <1>w DEF Moves
  <2>. QED
    BY <2>1, <2>2, <2>4, <2>5, <1>8, <1>n, <1>u, <1>v, MoveStep
<1>9. /\ ListAt(kind2, who2)' /\ MarkAt(kind2)' /\ LengthAt(kind2, who2)'
      /\ list' \in [1 .. MaxSpan -> Row] /\ map' \subseteq Chunks /\ free' \subseteq Chunks
  <2>1. Joins(kind, who, kind2, who2, t, h)
    BY <1>3, <1>8, <1>m, <1>n, <1>u DEF Joins, OnlyAt
  <2>. QED
    BY <2>1, InsertSeat
<1>10. CurAt(kind2, who2)'
  <2>1. ~HoldsCur(t)'
    BY <1>n DEF HoldsCur
  <2>2. \A u \in Threads : u # t => (HoldsCur(u)' <=> HoldsCur(u)) /\ cur'[u] = cur[u]
    BY <1>n DEF HoldsCur, OthersWait
  <2>. QED
    BY <2>1, <2>2, <1>0, <1>1, <1>8, <1>m DEF CurAt
<1>11. CountOK(kind2, who2)'
  <2>1. \A g \in Chunks : IsCounted(kind2, who2, g)' <=> IsCounted(kind, who, g)
    BY <1>0, <1>1, <1>3, <1>8, <1>u, <1>n, <1>m DEF IsCounted, OthersWait, CurAt, NodeAt, HoldsNode
  <2>2. Counted(kind2, who2)' = Counted(kind, who)
    BY <2>1, <1>v DEF Counted
  <2>. QED
    BY <2>2, <1>0, <1>v DEF CountOK
<1>12. Locks'
  BY <1>0, <1>3, <1>n, <1>u, <1>v, Bounds DEF Locks, OthersWait
<1>t. TypeOK'
  BY <1>9, <1>n, <1>u, <1>v, <1>w DEF TypeOK, LocalTypes
<1>. QED
  <2>1. PoolOK(kind2, who2, size)'
    BY <1>m, <1>9, <1>10, <1>11, <1>12
       DEF PoolOK, MapOK, Seats, Hands, HandsOf
  <2>. QED
    BY <2>1, <1>t

LEMMA SweepInsertInv ==
    ASSUME NEW kind, NEW who, NEW size, TypeOK, PoolOK(kind, who, size), UNCHANGED setup,
           NEW t \in Threads, SweepInsert(t)
    PROVE  TypeOK' /\ \E k, w, s : PoolOK(k, w, s)'
<1>0. /\ CountOK(kind, who) /\ HandsOf(t) /\ Locks /\ CurAt(kind, who) /\ NodeAt(kind, who)
  BY Unfold
<1>1. PICK h : h = node[t]
  OBVIOUS
<1>u. pc[t] = "sweepInsert" /\ Insert(h) /\ lock = None /\ Walk(t, "sweep", class[t], None)
  BY <1>1 DEF SweepInsert
<1>v. /\ cursor' = cursor /\ len' = len /\ magic' = magic
      /\ cache' = cache /\ cached' = cached /\ parked' = parked /\ bytes' = bytes
      /\ sweeping' = sweeping /\ live' = live /\ lock' = lock /\ lost' = lost
  BY <1>u DEF SweepInsert, Insert, tiers
<1>3. h \in Chunks /\ HoldsNode(t) /\ class[t] \in 1 .. MaxSpan + 1 /\ class[t] <= MaxSpan
  BY <1>0, <1>1, <1>u, Bounds DEF HandsOf, LocalOK, Sweeps, HoldsNode
<1>8. kind[h] = "node" /\ who[h] = t /\ kind[h] \in SpanKinds /\ "list" \in SpanKinds
      /\ len[h] \in 1 .. MaxSpan
  <2>1. kind[h] = "node" /\ who[h] = t /\ len[h] = class[t]
    BY <1>0, <1>1, <1>3, <1>u DEF NodeAt, HandsOf, HandOK
  <2>2. kind[h] \in SpanKinds /\ "list" \in SpanKinds
    BY <2>1 DEF SpanKinds
  <2>. QED
    BY <2>1, <2>2, <1>3, Bounds
<1>4. PICK kind2 : kind2 = [kind EXCEPT ![h] = "list"]
  OBVIOUS
<1>5. PICK who2 : who2 = [who EXCEPT ![h] = len[h]]
  OBVIOUS
<1>n. /\ OthersWait(t) /\ LocalTypes' /\ pc'[t] = "sweep" /\ cur'[t] = cur[t] /\ want'[t] = want[t]
      /\ class'[t] = class[t] /\ node'[t] = None
  <2>1. "sweep" \in Steps /\ class[t] \in 0 .. MaxSpan + 1 /\ None \in Chunks \cup {None}
    BY <1>3, Bounds DEF Steps
  <2>. QED
    BY <2>1, <1>u, Walked
<1>m. /\ kind2[h] = "list" /\ who2[h] = len[h]
      /\ \A g \in Chunks : g # h => kind2[g] = kind[g] /\ who2[g] = who[g]
      /\ MapType(kind2, who2, size)' /\ Tiles(kind2, size, cursor)' /\ SizeAt(kind2, who2, size)'
      /\ FreshAt(kind2, who2)' /\ TailAt(kind2, who2)' /\ LostAt(kind2)'
      /\ LiveAt(kind2)' /\ ParkedAt(kind2, who2)' /\ CacheAt(kind2, who2)' /\ CurAt(kind2, who2)'
      /\ GrowAt(kind2)' /\ KeptOK(kind2, who2)' /\ (bytes <= Ceiling)'
      /\ \A u \in Threads : HandsOf(u)'
  <2>1. (HoldsCur(t)' <=> HoldsCur(t)) /\ (HoldsCur(t) => cur'[t] = cur[t])
    BY <1>n, <1>u DEF HoldsCur, Frees
  <2>2. HandsOf(t)'
    BY <1>0, <1>3, <1>n, <1>u, <1>v
       DEF HandsOf, LocalOK, HandOK, CeilingOK, Ceiling, Sweeps, Frees
  <2>4. pc'[t] \notin Extends /\ pc[t] \notin Extends
    BY <1>n, <1>u DEF Extends
  <2>5. Moves(kind, who, kind2, who2, t, h, "list", len[h])
    BY <1>3, <1>8, <1>4, <1>5, <1>n, <1>u, <1>v DEF Moves
  <2>. QED
    BY <2>1, <2>2, <2>4, <2>5, <1>8, <1>n, <1>u, <1>v, MoveStep
<1>9. /\ ListAt(kind2, who2)' /\ MarkAt(kind2)' /\ LengthAt(kind2, who2)'
      /\ list' \in [1 .. MaxSpan -> Row] /\ map' \subseteq Chunks /\ free' \subseteq Chunks
  <2>1. Joins(kind, who, kind2, who2, t, h)
    BY <1>3, <1>8, <1>m, <1>n, <1>u DEF Joins, OnlyAt
  <2>. QED
    BY <2>1, InsertSeat
<1>10. NodeAt(kind2, who2)'
  <2>1. ~HoldsNode(t)'
    BY <1>n DEF HoldsNode
  <2>2. \A u \in Threads : u # t => (HoldsNode(u)' <=> HoldsNode(u)) /\ node'[u] = node[u]
    BY <1>n DEF HoldsNode, OthersWait
  <2>. QED
    BY <2>1, <2>2, <1>0, <1>1, <1>8, <1>m DEF NodeAt
<1>11. CountOK(kind2, who2)'
  <2>1. \A g \in Chunks : IsCounted(kind2, who2, g)' <=> IsCounted(kind, who, g)
    BY <1>0, <1>1, <1>3, <1>8, <1>u, <1>n, <1>m DEF IsCounted, OthersWait, CurAt, NodeAt
  <2>2. Counted(kind2, who2)' = Counted(kind, who)
    BY <2>1, <1>v DEF Counted
  <2>. QED
    BY <2>2, <1>0, <1>v DEF CountOK
<1>12. Locks'
  BY <1>0, <1>3, <1>n, <1>u, <1>v, Bounds DEF Locks, OthersWait
<1>t. TypeOK'
  BY <1>9, <1>n, <1>u, <1>v DEF TypeOK, LocalTypes
<1>. QED
  <2>1. PoolOK(kind2, who2, size)'
    BY <1>m, <1>9, <1>10, <1>11, <1>12
       DEF PoolOK, MapOK, Seats, Hands, HandsOf
  <2>. QED
    BY <2>1, <1>t

LEMMA SweepPopInv ==
    ASSUME NEW kind, NEW who, NEW size, TypeOK, PoolOK(kind, who, size), UNCHANGED setup,
           NEW t \in Threads, class[t] <= MaxSpan, parked[class[t]] # <<>>, SweepPop(t)
    PROVE  TypeOK' /\ \E k, w, s : PoolOK(k, w, s)'
<1>0. /\ CountOK(kind, who) /\ HandsOf(t) /\ Locks /\ ParkedAt(kind, who)
      /\ CurAt(kind, who) /\ NodeAt(kind, who)
  BY Unfold
<1>1. PICK n : n = class[t]
  OBVIOUS
<1>2. PICK h : h = Head(parked[n])
  OBVIOUS
<1>c. pc[t] = "sweep"
  BY DEF SweepPop
<1>3. n \in 1 .. MaxSpan /\ node[t] = None
  BY <1>0, <1>1, <1>c, Bounds DEF HandsOf, LocalOK, Sweeps
<1>u. parked' = [parked EXCEPT ![n] = Tail(@)] /\ Walk(t, "sweepUncount", n, h)
  <2>1. ~(n > MaxSpan)
    BY <1>3, Bounds
  <2>. QED
    BY <2>1, <1>1, <1>2 DEF SweepPop
<1>v. /\ cursor' = cursor /\ len' = len /\ magic' = magic /\ free' = free /\ map' = map
      /\ list' = list /\ cache' = cache /\ cached' = cached /\ bytes' = bytes
      /\ sweeping' = sweeping /\ lock' = lock /\ live' = live /\ lost' = lost
  BY DEF SweepPop, pool
<1>7. /\ parked[n] \in Row /\ Tail(parked[n]) \in Row /\ IsInjective(Tail(parked[n]))
      /\ h \in Chunks /\ h \in Range(parked[n])
      /\ \A g : g \in Range(Tail(parked[n])) <=> g # h /\ g \in Range(parked[n])
  <2>1. parked[n] \in Row /\ IsInjective(parked[n])
    BY <1>0, <1>3 DEF ParkedAt, TypeOK
  <2>. QED
    BY <2>1, <1>1, <1>2, RowTail
<1>8. /\ kind[h] = "parked" /\ who[h] = n /\ len[h] = n /\ kind[h] \in SpanKinds
      /\ "node" \in SpanKinds
  BY <1>0, <1>3, <1>7 DEF ParkedAt, SpanKinds
<1>4. PICK kind2 : kind2 = [kind EXCEPT ![h] = "node"]
  OBVIOUS
<1>5. PICK who2 : who2 = [who EXCEPT ![h] = t]
  OBVIOUS
<1>n. /\ OthersWait(t) /\ LocalTypes' /\ pc'[t] = "sweepUncount" /\ class'[t] = n /\ node'[t] = h
      /\ cur'[t] = cur[t] /\ want'[t] = want[t]
  <2>1. "sweepUncount" \in Steps /\ n \in 0 .. MaxSpan + 1 /\ h \in Chunks \cup {None}
    BY <1>3, <1>7, Bounds DEF Steps
  <2>. QED
    BY <2>1, <1>u, Walked
<1>m. /\ kind2[h] = "node" /\ who2[h] = t
      /\ \A g \in Chunks : g # h => kind2[g] = kind[g] /\ who2[g] = who[g]
      /\ MapType(kind2, who2, size)' /\ Tiles(kind2, size, cursor)' /\ SizeAt(kind2, who2, size)'
      /\ FreshAt(kind2, who2)' /\ TailAt(kind2, who2)' /\ LostAt(kind2)'
      /\ LiveAt(kind2)' /\ ListAt(kind2, who2)' /\ CacheAt(kind2, who2)' /\ CurAt(kind2, who2)'
      /\ MarkAt(kind2)' /\ LengthAt(kind2, who2)' /\ GrowAt(kind2)'
      /\ KeptOK(kind2, who2)' /\ (bytes <= Ceiling)'
      /\ \A u \in Threads : HandsOf(u)'
  <2>1. (HoldsCur(t)' <=> HoldsCur(t)) /\ (HoldsCur(t) => cur'[t] = cur[t])
    BY <1>1, <1>n, <1>c DEF HoldsCur, Frees
  <2>2. HandsOf(t)'
    BY <1>0, <1>1, <1>3, <1>7, <1>8, <1>n, <1>c, <1>v, Bounds
       DEF HandsOf, LocalOK, HandOK, CeilingOK, Ceiling, Sweeps, Frees
  <2>4. pc'[t] \notin Extends /\ pc[t] \notin Extends
    BY <1>n, <1>c DEF Extends
  <2>5. Moves(kind, who, kind2, who2, t, h, "node", t)
    BY <1>7, <1>8, <1>4, <1>5, <1>n, <1>c, <1>v DEF Moves
  <2>. QED
    BY <2>1, <2>2, <2>4, <2>5, <1>8, <1>n, <1>c, <1>v, MoveStep
<1>9. ParkedAt(kind2, who2)'
  <2>1. parked'[n] = Tail(parked[n]) /\ \A k \in 1 .. MaxSpan : k # n => parked'[k] = parked[k]
    BY <1>u, <1>3 DEF TypeOK
  <2>. QED
    BY <2>1, <1>0, <1>3, <1>7, <1>8, <1>m, <1>v DEF ParkedAt
<1>10. NodeAt(kind2, who2)'
  <2>1. ~HoldsNode(t) /\ HoldsNode(t)'
    BY <1>n, <1>c DEF HoldsNode
  <2>2. \A u \in Threads : u # t => (HoldsNode(u)' <=> HoldsNode(u)) /\ node'[u] = node[u]
    BY <1>n DEF HoldsNode, OthersWait
  <2>. QED
    BY <2>1, <2>2, <1>0, <1>7, <1>8, <1>m, <1>n DEF NodeAt
<1>11. CountOK(kind2, who2)'
  <2>1. CountedOnlyAt(kind, who, kind2, who2, h)
    BY <1>0, <1>c, <1>n, <1>m
       DEF CountedOnlyAt, IsCounted, OthersWait, CurAt, NodeAt, HoldsCur, HoldsNode
  <2>2. IsCounted(kind, who, h) /\ IsCounted(kind2, who2, h)'
    BY <1>8, <1>m, <1>n DEF IsCounted
  <2>3. bytes' = (bytes - IF IsCounted(kind, who, h) THEN len[h] ELSE 0)
                     + (IF IsCounted(kind2, who2, h)' THEN len[h] ELSE 0)
    BY <2>2, <1>7, <1>v DEF TypeOK
  <2>. QED
    BY <2>1, <2>3, <1>0, <1>7, <1>v, CountPut
<1>12. Locks'
  BY <1>0, <1>1, <1>3, <1>n, <1>c, <1>v DEF Locks, OthersWait
<1>t. TypeOK'
  <2>1. parked' \in [1 .. MaxSpan -> Row]
    BY <1>7, <1>u DEF TypeOK
  <2>. QED
    BY <2>1, <1>n, <1>v DEF TypeOK, LocalTypes
<1>. QED
  <2>1. PoolOK(kind2, who2, size)'
    BY <1>m, <1>9, <1>10, <1>11, <1>12
       DEF PoolOK, MapOK, Seats, Hands, HandsOf
  <2>. QED
    BY <2>1, <1>t

LEMMA SweepUncountInv ==
    ASSUME NEW kind, NEW who, NEW size, TypeOK, PoolOK(kind, who, size), UNCHANGED setup,
           NEW t \in Threads, SweepUncount(t)
    PROVE  TypeOK' /\ PoolOK(kind, who, size)'
<1>0. /\ CountOK(kind, who) /\ HandsOf(t) /\ Locks /\ CurAt(kind, who) /\ NodeAt(kind, who)
      /\ bytes <= Ceiling
  BY Unfold
<1>1. PICK h : h = node[t]
  OBVIOUS
<1>2. PICK n : n = class[t]
  OBVIOUS
<1>u. /\ pc[t] = "sweepUncount" /\ bytes' = bytes - n /\ Walk(t, "sweepInsert", n, h)
  BY <1>1, <1>2 DEF SweepUncount
<1>v. /\ UNCHANGED <<cursor, pool, cache, cached, parked, live, lost>>
      /\ cursor' = cursor /\ len' = len /\ lock' = lock /\ sweeping' = sweeping
  BY DEF SweepUncount, pool
<1>3. h \in Chunks /\ HoldsNode(t) /\ n \in 1 .. MaxSpan /\ len[h] = n
  BY <1>0, <1>1, <1>2, <1>u, Bounds DEF HandsOf, LocalOK, HandOK, Sweeps, HoldsNode
<1>8. kind[h] = "node" /\ who[h] = t
  BY <1>0, <1>1, <1>3 DEF NodeAt
<1>n. /\ OthersWait(t) /\ LocalTypes' /\ pc'[t] = "sweepInsert" /\ class'[t] = n /\ node'[t] = h
      /\ cur'[t] = cur[t] /\ want'[t] = want[t]
  <2>1. "sweepInsert" \in Steps /\ n \in 0 .. MaxSpan + 1 /\ h \in Chunks \cup {None}
    BY <1>3, Bounds DEF Steps
  <2>. QED
    BY <2>1, <1>u, Walked
<1>4. CountOK(kind, who)' /\ bytes' \in Nat /\ (bytes <= Ceiling)'
  <2>1. CountedOnlyAt(kind, who, kind, who, h)
    BY <1>0, <1>1, <1>3, <1>u, <1>n
       DEF CountedOnlyAt, IsCounted, OthersWait, CurAt, NodeAt, HoldsCur, HoldsNode
  <2>2. IsCounted(kind, who, h) /\ ~IsCounted(kind, who, h)'
    BY <1>8, <1>n, <1>u DEF IsCounted
  <2>3. /\ len[h] <= bytes
        /\ bytes' = (bytes - IF IsCounted(kind, who, h) THEN len[h] ELSE 0)
                        + (IF IsCounted(kind, who, h)' THEN len[h] ELSE 0)
           => CountOK(kind, who)'
    BY <2>1, <2>2, <1>0, <1>3, <1>v, CountPut
  <2>4. bytes' = (bytes - len[h]) + 0 /\ bytes' \in Nat /\ bytes' <= bytes
    BY <2>3, <1>3, <1>u, Bounds DEF TypeOK
  <2>5. Ceiling' = Ceiling /\ Ceiling \in Nat
    BY <1>v, CeilingUp DEF Ceiling, TypeOK
  <2>. QED
    BY <2>2, <2>3, <2>4, <2>5, <1>0 DEF TypeOK
<1>6. HandsOf(t)'
  BY <1>0, <1>2, <1>3, <1>n, <1>u, <1>v, Bounds
     DEF HandsOf, LocalOK, HandOK, CeilingOK, Ceiling, Sweeps, Frees
<1>7. Locks'
  BY <1>0, <1>2, <1>3, <1>n, <1>u, <1>v DEF Locks, OthersWait
<1>9. /\ (HoldsCur(t)' <=> HoldsCur(t)) /\ (HoldsCur(t) => cur'[t] = cur[t])
      /\ (HoldsNode(t)' <=> HoldsNode(t)) /\ (HoldsNode(t) => node'[t] = node[t])
  BY <1>1, <1>2, <1>3, <1>n, <1>u DEF HoldsCur, HoldsNode, Frees
<1>10. PoolOK(kind, who, size)'
  BY <1>4, <1>6, <1>7, <1>9, <1>n, <1>u, <1>v, StillStep
<1>. QED
  BY <1>4, <1>10, <1>n, <1>v DEF TypeOK, LocalTypes, pool

(* The merged span leaves the list it was picked from for that of its       *)
(* length.                                                                  *)
LEMMA MergeRelistInv ==
    ASSUME NEW kind, NEW who, NEW size, TypeOK, PoolOK(kind, who, size), UNCHANGED setup,
           NEW t \in Threads, MergeRelist(t)
    PROVE  TypeOK' /\ \E k, w, s : PoolOK(k, w, s)'
<1>0. /\ CountOK(kind, who) /\ HandsOf(t) /\ Locks /\ ListAt(kind, who) /\ LengthAt(kind, who)
      /\ MarkAt(kind)
  BY Unfold
<1>1. PICK h : h = node[t]
  OBVIOUS
<1>2. PICK k : k = class[t]
  OBVIOUS
<1>3. PICK n : n = len[h]
  OBVIOUS
<1>6. PICK mid : mid = [list EXCEPT ![k] = Without(@, h)]
  OBVIOUS
<1>u. /\ pc[t] = "mergeAbsorb" /\ list' = [mid EXCEPT ![n] = <<h>> \o @]
      /\ lock' = None /\ Walk(t, "merge", 1, None)
  BY <1>1, <1>2, <1>3, <1>6 DEF MergeRelist, ListedAt
<1>v. /\ cursor' = cursor /\ len' = len /\ magic' = magic /\ free' = free /\ map' = map
      /\ cache' = cache /\ cached' = cached /\ parked' = parked /\ bytes' = bytes
      /\ sweeping' = sweeping /\ live' = live /\ lost' = lost
  BY DEF MergeRelist, tiers
<1>8. /\ h \in Chunks /\ kind[h] = "list" /\ who[h] = k /\ k \in 1 .. MaxSpan
      /\ kind[h] \in SpanKinds /\ n \in 1 .. MaxSpan
  <2>1. h \in Chunks /\ kind[h] = "list" /\ who[h] = k /\ n <= MaxSpan
    BY <1>0, <1>1, <1>2, <1>3, <1>u DEF LengthAt, HandsOf, HandOK
  <2>2. k \in 1 .. MaxSpan /\ kind[h] \in SpanKinds
    BY <2>1, <1>0 DEF ListAt, SpanKinds
  <2>3. len[h] \in Nat /\ len[h] >= 1
    BY <2>1, <2>2, SpanIs
  <2>. QED
    BY <2>1, <2>2, <2>3, <1>3, Bounds
<1>4. PICK kind2 : kind2 = [kind EXCEPT ![h] = "list"]
  OBVIOUS
<1>5. PICK who2 : who2 = [who EXCEPT ![h] = n]
  OBVIOUS
<1>n. /\ OthersWait(t) /\ LocalTypes' /\ pc'[t] = "merge" /\ class'[t] = 1 /\ node'[t] = None
      /\ cur'[t] = cur[t] /\ want'[t] = want[t]
  <2>1. "merge" \in Steps /\ 1 \in 0 .. MaxSpan + 1 /\ None \in Chunks \cup {None}
    BY Bounds DEF Steps
  <2>. QED
    BY <2>1, <1>u, Walked
<1>m. /\ kind2[h] = "list" /\ who2[h] = n
      /\ \A g \in Chunks : g # h => kind2[g] = kind[g] /\ who2[g] = who[g]
      /\ MapType(kind2, who2, size)' /\ Tiles(kind2, size, cursor)' /\ SizeAt(kind2, who2, size)'
      /\ FreshAt(kind2, who2)' /\ TailAt(kind2, who2)' /\ LostAt(kind2)'
      /\ LiveAt(kind2)' /\ ParkedAt(kind2, who2)' /\ CacheAt(kind2, who2)' /\ CurAt(kind2, who2)'
      /\ NodeAt(kind2, who2)' /\ GrowAt(kind2)' /\ KeptOK(kind2, who2)' /\ (bytes <= Ceiling)'
      /\ \A u \in Threads : HandsOf(u)'
  <2>1. /\ (HoldsCur(t)' <=> HoldsCur(t)) /\ (HoldsCur(t) => cur'[t] = cur[t])
        /\ ~HoldsNode(t)' /\ ~HoldsNode(t)
    BY <1>2, <1>8, <1>n, <1>u DEF HoldsCur, Frees, HoldsNode
  <2>2. HandsOf(t)'
    BY <1>0, <1>2, <1>8, <1>n, <1>u, <1>v, Bounds
       DEF HandsOf, LocalOK, HandOK, CeilingOK, Ceiling, Sweeps, Frees
  <2>4. pc'[t] \notin Extends /\ pc[t] \notin Extends
    BY <1>n, <1>u DEF Extends
  <2>5. Moves(kind, who, kind2, who2, t, h, "list", n)
    BY <1>8, <1>4, <1>5, <1>n, <1>u, <1>v DEF Moves
  <2>. QED
    BY <2>1, <2>2, <2>4, <2>5, <1>8, <1>n, <1>u, <1>v, MoveStep
<1>w. kind2 = kind
  BY <1>4, <1>8, <1>m, Unfold DEF MapType
<1>7. /\ mid \in [1 .. MaxSpan -> Row] /\ \A j \in 1 .. MaxSpan : IsInjective(mid[j])
      /\ \A j \in 1 .. MaxSpan : \A g \in Chunks :
            g \in Range(mid[j]) <=> g # h /\ kind[g] = "list" /\ who[g] = j
  <2>1. list[k] \in Row /\ IsInjective(list[k]) /\ h \in Range(list[k])
    BY <1>0, <1>8 DEF ListAt, TypeOK
  <2>2. /\ Without(list[k], h) \in Row /\ IsInjective(Without(list[k], h))
        /\ \A g : g \in Range(Without(list[k], h)) <=> g # h /\ g \in Range(list[k])
    BY <2>1, RowWithout
  <2>3. mid \in [1 .. MaxSpan -> Row] /\ mid[k] = Without(list[k], h)
        /\ \A j \in 1 .. MaxSpan : j # k => mid[j] = list[j]
    BY <2>2, <1>6, <1>8 DEF TypeOK
  <2>4. ASSUME NEW j \in 1 .. MaxSpan
        PROVE  /\ IsInjective(mid[j])
               /\ \A g \in Chunks : g \in Range(mid[j]) <=> g # h /\ kind[g] = "list" /\ who[g] = j
    <3>0. IsInjective(list[j])
          /\ \A g \in Chunks : g \in Range(list[j]) <=> kind[g] = "list" /\ who[g] = j
      BY <1>0 DEF ListAt
    <3>1. CASE j = k
      BY <3>0, <3>1, <2>2, <2>3
    <3>2. CASE j # k
      BY <3>0, <3>2, <2>3, <1>8
    <3>. QED
      BY <3>1, <3>2
  <2>. QED
    BY <2>3, <2>4
<1>9. ListAt(kind2, who2)' /\ list' \in [1 .. MaxSpan -> Row]
  <2>1. /\ <<h>> \o mid[n] \in Row /\ IsInjective(<<h>> \o mid[n])
        /\ \A g : g \in Range(<<h>> \o mid[n]) <=> g = h \/ g \in Range(mid[n])
    <3>1. mid[n] \in Row /\ IsInjective(mid[n]) /\ h \notin Range(mid[n])
      BY <1>7, <1>8
    <3>. QED
      BY <3>1, <1>8, RowCons
  <2>2. /\ list' \in [1 .. MaxSpan -> Row] /\ list'[n] = <<h>> \o mid[n]
        /\ \A j \in 1 .. MaxSpan : j # n => list'[j] = mid[j]
    BY <2>1, <1>7, <1>8, <1>u
  <2>3. ASSUME NEW j \in 1 .. MaxSpan
        PROVE  /\ IsInjective(list'[j])
               /\ \A g \in Chunks : g \in Range(list'[j]) <=> kind2[g] = "list" /\ who2[g] = j
    <3>0. IsInjective(mid[j])
          /\ \A g \in Chunks : g \in Range(mid[j]) <=> g # h /\ kind[g] = "list" /\ who[g] = j
      BY <1>7
    <3>1. CASE j = n
      BY <3>0, <3>1, <2>1, <2>2, <1>8, <1>m
    <3>2. CASE j # n
      BY <3>0, <3>2, <2>2, <1>8, <1>m
    <3>. QED
      BY <3>1, <3>2
  <2>4. \A g \in Chunks : kind2[g] = "list" => who2[g] \in 1 .. MaxSpan
    BY <1>0, <1>8, <1>m DEF ListAt
  <2>. QED
    BY <2>2, <2>3, <2>4 DEF ListAt
<1>10. MarkAt(kind2)' /\ LengthAt(kind2, who2)'
  <2>1. MarkAt(kind2)'
    BY <1>0, <1>v, <1>w DEF MarkAt
  <2>2. ASSUME NEW g \in Chunks, kind2[g] = "list"
        PROVE  len'[g] = who2[g] \/ \E u \in Threads : Mending(u, g, who2[g])'
    BY <2>2, <1>0, <1>1, <1>3, <1>m, <1>n, <1>v DEF LengthAt, Mending, OthersWait
  <2>3. ASSUME NEW u \in Threads, pc'[u] = "mergeAbsorb"
        PROVE  node'[u] \in Chunks /\ kind2[node'[u]] = "list" /\ who2[node'[u]] = class'[u]
    <3>1. u # t /\ pc[u] = "mergeAbsorb"
      BY <2>3, <1>n DEF OthersWait
    <3>2. lock = u /\ lock = t
      BY <3>1, <1>0, <1>u DEF Locks
    <3>. QED
      BY <3>1, <3>2
  <2>. QED
    BY <2>1, <2>2, <2>3 DEF LengthAt
<1>11. CountOK(kind2, who2)'
  <2>1. \A g \in Chunks : IsCounted(kind2, who2, g)' <=> IsCounted(kind, who, g)
    <3>1. CurAt(kind, who) /\ NodeAt(kind, who)
      BY Unfold
    <3>. QED
      BY <3>1, <1>8, <1>u, <1>n, <1>m DEF IsCounted, OthersWait, CurAt, NodeAt, HoldsCur, HoldsNode
  <2>2. Counted(kind2, who2)' = Counted(kind, who)
    BY <2>1, <1>v DEF Counted
  <2>. QED
    BY <2>2, <1>0, <1>v DEF CountOK
<1>12. Locks'
  BY <1>0, <1>2, <1>8, <1>n, <1>u, <1>v, Bounds DEF Locks, OthersWait
<1>t. TypeOK'
  BY <1>9, <1>n, <1>u, <1>v, Bounds DEF TypeOK, LocalTypes
<1>. QED
  <2>1. PoolOK(kind2, who2, size)'
    BY <1>m, <1>9, <1>10, <1>11, <1>12
       DEF PoolOK, MapOK, Seats, Hands, HandsOf
  <2>. QED
    BY <2>1, <1>t

-----------------------------------------------------------------------------
(* The steps in which spans are joined, cut or taken from the region.       *)

(* A span absorbs the one on its right.                                     *)
Absorbs(t, h) ==
    /\ h \in Chunks /\ HasRight(h) /\ Absorb(h)
    /\ UNCHANGED <<cursor, tiers, sweeping, lock, live, lost, local>>
    /\ \/ pc[t] = "coalesce" /\ h = cur[t] /\ len[h] + len[h + len[h]] <= MaxSpan
       \/ pc[t] = "mergeAbsorb" /\ h = node[t] /\ len[h] + len[h + len[h]] <= MaxSpan
       \/ pc[t] = "extend" /\ h = cur[t] /\ len[h] < want[t]

LEMMA AbsorbInv ==
    ASSUME NEW kind, NEW who, NEW size, TypeOK, PoolOK(kind, who, size), UNCHANGED setup,
           NEW t \in Threads, NEW h, Absorbs(t, h)
    PROVE  TypeOK' /\ \E k, w, s : PoolOK(k, w, s)'
<1>0. /\ MapType(kind, who, size) /\ Tiles(kind, size, cursor) /\ SizeAt(kind, who, size)
      /\ LiveAt(kind) /\ ListAt(kind, who) /\ ParkedAt(kind, who) /\ CacheAt(kind, who)
      /\ CurAt(kind, who) /\ NodeAt(kind, who) /\ FreshAt(kind, who) /\ TailAt(kind, who)
      /\ LostAt(kind) /\ MarkAt(kind) /\ LengthAt(kind, who) /\ GrowAt(kind)
      /\ KeptOK(kind, who) /\ CountOK(kind, who)
      /\ (\A u \in Threads : HandsOf(u)) /\ Locks /\ bytes <= Ceiling
  BY Unfold
<1>1. PICK r : r = h + len[h]
  OBVIOUS
<1>2. PICK m : m = len[r]
  OBVIOUS
<1>u. /\ h \in Chunks /\ r \in map /\ r \in magic /\ r \in free
      /\ list' = [list EXCEPT ![m] = Without(@, r)]
      /\ free' = free \ {r} /\ map' = map \ {r} /\ magic' = magic \ {r}
      /\ len' = [len EXCEPT ![h] = @ + m]
      /\ \/ pc[t] = "coalesce" /\ h = cur[t] /\ len[h] + m <= MaxSpan
         \/ pc[t] = "mergeAbsorb" /\ h = node[t] /\ len[h] + m <= MaxSpan
         \/ pc[t] = "extend" /\ h = cur[t] /\ len[h] < want[t]
  BY <1>1, <1>2 DEF Absorbs, HasRight, Absorb
<1>v. /\ cursor' = cursor /\ cache' = cache /\ cached' = cached /\ parked' = parked
      /\ bytes' = bytes /\ sweeping' = sweeping /\ lock' = lock /\ live' = live /\ lost' = lost
      /\ pc' = pc /\ cur' = cur /\ want' = want /\ class' = class /\ node' = node
  BY DEF Absorbs, tiers, local
<1>3. /\ \/ pc[t] = "coalesce" /\ kind[h] = "cur" /\ who[h] = t
         \/ pc[t] = "mergeAbsorb" /\ kind[h] = "list"
         \/ pc[t] = "extend" /\ kind[h] = "live"
      /\ kind[h] \in SpanKinds /\ lock = t
  <2>1. CASE pc[t] = "coalesce"
    <3>1. HoldsCur(t) /\ h = cur[t]
      BY <2>1, <1>u, Bounds DEF HoldsCur, Frees
    <3>. QED
      BY <2>1, <3>1, <1>0 DEF CurAt, Locks, SpanKinds
  <2>2. CASE pc[t] = "mergeAbsorb"
    BY <2>2, <1>0, <1>u DEF LengthAt, Locks, SpanKinds
  <2>3. CASE pc[t] = "extend"
    BY <2>3, <1>0, <1>u DEF GrowAt, Extends, Locks, SpanKinds
  <2>. QED
    BY <2>1, <2>2, <2>3, <1>u
<1>4. r \in Chunks /\ kind[r] = "list" /\ kind[r] \in SpanKinds
  BY <1>0, <1>u DEF MarkAt, SpanKinds, TypeOK
<1>5. /\ len[h] \in Nat /\ len[h] >= 1 /\ size[h] = len[h] /\ m \in Nat /\ m >= 1 /\ size[r] = m
      /\ r # h /\ h \in Nat /\ live[r] = 0
  <2>1. len[h] \in Nat /\ len[h] >= 1 /\ size[h] = len[h]
    BY <1>3, <1>u, SpanIs
  <2>2. len[r] \in Nat /\ len[r] >= 1 /\ size[r] = len[r] /\ live[r] = 0
    BY <1>4, SpanIs
  <2>. QED
    BY <2>1, <2>2, <1>1, <1>2, <1>u, ChunkIs
<1>6. who[r] = m /\ m \in 1 .. MaxSpan
  <2>1. ~(\E u \in Threads : Mending(u, r, who[r]))
    <3>. SUFFICES ASSUME NEW u \in Threads, Mending(u, r, who[r]) PROVE FALSE
      OBVIOUS
    <3>1. pc[u] = "mergeAbsorb" /\ node[u] = r
      BY DEF Mending
    <3>2. u = t
      BY <3>1, <1>0, <1>3 DEF Locks
    <3>. QED
      BY <3>1, <3>2, <1>5, <1>u
  <2>2. len[r] = who[r]
    BY <2>1, <1>0, <1>4 DEF LengthAt
  <2>. QED
    BY <2>2, <1>0, <1>2, <1>4 DEF ListAt
<1>7. PICK kind2 : kind2 = [kind EXCEPT ![r] = "none"]
  OBVIOUS
<1>8. PICK size2 : size2 = [size EXCEPT ![h] = size[h] + size[r]]
  OBVIOUS
<1>k. /\ kind2[r] = "none" /\ \A g \in Chunks : g # r => kind2[g] = kind[g]
      /\ size2[h] = len[h] + m /\ \A g \in Chunks : g # h => size2[g] = size[g]
      /\ len'[h] = len[h] + m /\ \A g \in Chunks : g # h => len'[g] = len[g]
      /\ MapType(kind2, who, size2)
  <2>1. kind2[r] = "none" /\ \A g \in Chunks : g # r => kind2[g] = kind[g]
    BY <1>0, <1>4, <1>7 DEF MapType
  <2>2. size2[h] = len[h] + m /\ \A g \in Chunks : g # h => size2[g] = size[g]
    BY <1>0, <1>u, <1>5, <1>8 DEF MapType
  <2>3. len'[h] = len[h] + m /\ \A g \in Chunks : g # h => len'[g] = len[g]
    BY <1>u DEF TypeOK
  <2>4. size[h] + size[r] \in Nat
    BY <1>5
  <2>5. MapType(kind2, who, size2)
    BY <2>4, <1>0, <1>7, <1>8 DEF MapType, Kinds
  <2>. QED
    BY <2>1, <2>2, <2>3, <2>5
<1>9. Tiles(kind2, size2, cursor) /\ len[h] + m \in 0 .. Region
  <2>1. /\ size \in [Chunks -> Nat] /\ size2 \in [Chunks -> Nat] /\ cursor \in Nat
        /\ r = h + size[h] /\ size2[h] = size[h] + size[r]
    BY <1>0, <1>1, <1>5, <1>k DEF MapType, TypeOK
  <2>2. Busy(kind, h) /\ Busy(kind, r)
    BY <1>3, <1>4 DEF Busy, SpanKinds
  <2>3. \A g \in Chunks : Busy(kind2, g) <=> Busy(kind, g) /\ g # r
    BY <1>k DEF Busy
  <2>4. Tiles(kind2, size2, cursor)
    BY <2>1, <2>2, <2>3, <1>0, <1>4, <1>k, <1>u, TilesJoin
  <2>5. h + size2[h] - 1 <= Region
    BY <2>2, <2>3, <2>4, <1>5, <1>u DEF Tiles
  <2>. QED
    BY <2>4, <2>5, <1>5, <1>k, <1>u, ChunkIs, Bounds
<1>10. \A u \in Threads :
          /\ pc[u] = "extendCommit" => cur[u] # h
          /\ u # t => /\ HoldsCur(u) \/ pc[u] = "extend" => cur[u] # h
                      /\ HoldsNode(u) \/ pc[u] = "mergeAbsorb" => node[u] # h
  <2>. SUFFICES ASSUME NEW u \in Threads
                PROVE  /\ pc[u] = "extendCommit" => cur[u] # h
                       /\ u # t => /\ HoldsCur(u) \/ pc[u] = "extend" => cur[u] # h
                                   /\ HoldsNode(u) \/ pc[u] = "mergeAbsorb" => node[u] # h
    OBVIOUS
  <2>1. pc[u] = "extendCommit" => cur[u] # h
    <3>. SUFFICES ASSUME pc[u] = "extendCommit", cur[u] = h PROVE FALSE
      OBVIOUS
    <3>1. kind[h] = "live"
      BY <1>0 DEF GrowAt, Extends
    <3>2. pc[t] = "extend" /\ cur[t] = h
      BY <3>1, <1>3, <1>u
    <3>. QED
      BY <3>2, <1>0 DEF GrowAt, Extends
  <2>2. ASSUME u # t, HoldsCur(u) PROVE cur[u] # h
    BY <2>2, <1>0, <1>3 DEF CurAt
  <2>3. u # t => pc[u] \notin {"coalesce", "mergeAbsorb", "extend"}
    BY <1>0, <1>3 DEF Locks
  <2>4. ASSUME HoldsNode(u) PROVE node[u] # h
    BY <2>4, <1>0, <1>3 DEF NodeAt
  <2>. QED
    BY <2>1, <2>2, <2>3, <2>4
<1>11. SizeAt(kind2, who, size2)'
  <2>1. ASSUME NEW g \in Chunks, kind2[g] \in SpanKinds PROVE size2[g] = len'[g]
    BY <2>1, <1>0, <1>k DEF SizeAt, SpanKinds
  <2>2. ASSUME NEW g \in Chunks, kind2[g] = "tail"
        PROVE size2[g] = want[who[g]] - len'[cur[who[g]]]
    <3>1. g # r /\ g # h /\ kind[g] = "tail"
      BY <2>2, <1>3, <1>k
    <3>2. who[g] \in Threads /\ pc[who[g]] = "extendCommit"
      BY <3>1, <1>0 DEF TailAt
    <3>3. cur[who[g]] \in Chunks /\ cur[who[g]] # h
      BY <3>2, <1>0, <1>10 DEF GrowAt, Extends
    <3>. QED
      BY <3>1, <3>3, <1>0, <1>k DEF SizeAt
  <2>3. ASSUME NEW g \in Chunks
        PROVE  /\ kind2[g] = "fresh" => size2[g] = want[who[g]]
               /\ kind2[g] = "lost" => size2[g] = 1
    BY <1>0, <1>3, <1>k DEF SizeAt
  <2>. QED
    BY <2>1, <2>2, <2>3, <1>v DEF SizeAt
<1>12. LiveAt(kind2)'
  <2>1. \A g \in Chunks : len[g] \in Nat /\ live[g] \in Nat
    BY DEF TypeOK
  <2>. QED
    BY <2>1, <1>0, <1>4, <1>5, <1>k, <1>v DEF LiveAt
<1>13. ListAt(kind2, who)' /\ list' \in [1 .. MaxSpan -> Row]
  <2>1. /\ Without(list[m], r) \in Row /\ IsInjective(Without(list[m], r))
        /\ \A g : g \in Range(Without(list[m], r)) <=> g # r /\ g \in Range(list[m])
    <3>1. list[m] \in Row /\ IsInjective(list[m]) /\ r \in Range(list[m])
      BY <1>0, <1>4, <1>6 DEF ListAt, TypeOK
    <3>. QED
      BY <3>1, RowWithout
  <2>2. /\ list' \in [1 .. MaxSpan -> Row] /\ list'[m] = Without(list[m], r)
        /\ \A j \in 1 .. MaxSpan : j # m => list'[j] = list[j]
    BY <2>1, <1>6, <1>u DEF TypeOK
  <2>3. ASSUME NEW j \in 1 .. MaxSpan
        PROVE  /\ IsInjective(list'[j])
               /\ \A g \in Chunks : g \in Range(list'[j]) <=> kind2[g] = "list" /\ who[g] = j
    <3>0. IsInjective(list[j])
          /\ \A g \in Chunks : g \in Range(list[j]) <=> kind[g] = "list" /\ who[g] = j
      BY <1>0 DEF ListAt
    <3>1. CASE j = m
      BY <3>0, <3>1, <2>1, <2>2, <1>4, <1>k
    <3>2. CASE j # m
      BY <3>0, <3>2, <2>2, <1>4, <1>6, <1>k
    <3>. QED
      BY <3>1, <3>2
  <2>4. \A g \in Chunks : kind2[g] = "list" => who[g] \in 1 .. MaxSpan
    BY <1>0, <1>4, <1>k DEF ListAt
  <2>. QED
    BY <2>2, <2>3, <2>4 DEF ListAt
<1>14. ParkedAt(kind2, who)' /\ CacheAt(kind2, who)'
  BY <1>0, <1>3, <1>4, <1>k, <1>v DEF ParkedAt, CacheAt
<1>15. CurAt(kind2, who)' /\ NodeAt(kind2, who)'
  <2>1. \A u \in Threads : (HoldsCur(u)' <=> HoldsCur(u)) /\ (HoldsNode(u)' <=> HoldsNode(u))
    BY <1>v DEF HoldsCur, HoldsNode
  <2>2. CurAt(kind2, who)'
    BY <2>1, <1>0, <1>4, <1>k, <1>v DEF CurAt
  <2>3. NodeAt(kind2, who)'
    BY <2>1, <1>0, <1>4, <1>k, <1>v DEF NodeAt
  <2>. QED
    BY <2>2, <2>3
<1>16. FreshAt(kind2, who)' /\ LostAt(kind2)'
  BY <1>0, <1>4, <1>k, <1>v DEF FreshAt, LostAt
<1>17. TailAt(kind2, who)'
  <2>1. \A u \in Threads : pc[u] = "extendCommit" => len'[cur[u]] = len[cur[u]]
    BY <1>0, <1>10, <1>k DEF GrowAt, Extends
  <2>. QED
    BY <2>1, <1>0, <1>4, <1>k, <1>v DEF TailAt
<1>18. MarkAt(kind2)'
  BY <1>0, <1>4, <1>k, <1>u DEF MarkAt, SpanKinds
<1>19. LengthAt(kind2, who)'
  <2>1. ASSUME NEW g \in Chunks, kind2[g] = "list"
        PROVE  len'[g] = who[g] \/ \E u \in Threads : Mending(u, g, who[g])'
    <3>1. kind[g] = "list" /\ g # r
      BY <2>1, <1>k
    <3>2. CASE g = h
      <4>1. pc[t] = "mergeAbsorb" /\ node[t] = g /\ class[t] = who[g]
        BY <3>1, <3>2, <1>0, <1>3, <1>u DEF LengthAt
      <4>. QED
        BY <4>1, <1>v DEF Mending
    <3>3. CASE g # h
      BY <3>1, <3>3, <1>0, <1>k, <1>v DEF LengthAt, Mending
    <3>. QED
      BY <3>2, <3>3
  <2>2. ASSUME NEW u \in Threads, pc[u] = "mergeAbsorb"
        PROVE  node[u] \in Chunks /\ kind2[node[u]] = "list" /\ who[node[u]] = class[u]
    <3>1. u = t
      BY <2>2, <1>0, <1>3 DEF Locks
    <3>2. node[u] = h /\ h # r
      BY <3>1, <2>2, <1>5, <1>u
    <3>. QED
      BY <2>2, <3>2, <1>0, <1>k DEF LengthAt
  <2>. QED
    BY <2>1, <2>2, <1>v DEF LengthAt
<1>20. GrowAt(kind2)'
  BY <1>0, <1>4, <1>k, <1>v DEF GrowAt
<1>21. KeptOK(kind2, who)'
  <2>1. \A u \in HasCache : Kept(kind2, who, u)' = Kept(kind, who, u)
    BY <1>3, <1>4, <1>k DEF Kept
  <2>. QED
    BY <2>1, <1>0, <1>v DEF KeptOK
<1>22. CountOK(kind2, who)'
  <2>1. \A g \in Chunks : (IsCounted(kind2, who, g)' <=> IsCounted(kind, who, g))
    BY <1>4, <1>k, <1>v DEF IsCounted
  <2>2. ~IsCounted(kind, who, h)
    BY <1>3 DEF IsCounted
  <2>3. Counted(kind2, who)' = Counted(kind, who)
    BY <2>1, <2>2, <1>k DEF Counted
  <2>. QED
    BY <2>3, <1>0, <1>v DEF CountOK
<1>23. \A u \in Threads : HandsOf(u)'
  <2>. SUFFICES ASSUME NEW u \in Threads PROVE HandsOf(u)'
    OBVIOUS
  <2>1. LocalOK(u)' /\ CeilingOK(u)'
    BY <1>0, <1>v DEF HandsOf, LocalOK, CeilingOK, Ceiling
  <2>2. HandOK(u)'
    <3>0. /\ HandOK(u) /\ LocalOK(u)
      BY <1>0 DEF HandsOf
    <3>1. CASE u # t
      <4>1. HoldsCur(u) \/ pc[u] \in {"extend", "extendCommit"} =>
              cur[u] \in Chunks /\ len'[cur[u]] = len[cur[u]]
        BY <3>0, <3>1, <1>0, <1>10, <1>k DEF CurAt, GrowAt, Extends
      <4>2. HoldsNode(u) \/ pc[u] = "mergeAbsorb" =>
              node[u] \in Chunks /\ len'[node[u]] = len[node[u]]
        BY <3>0, <3>1, <1>0, <1>10, <1>k DEF NodeAt, LengthAt
      <4>3. /\ pc[u] \in {"uncount", "park", "again", "push"} => HoldsCur(u)
            /\ class[u] > 0 /\ cur[u] # None => HoldsCur(u)
            /\ pc[u] \in {"sweepUncount", "sweepInsert"} => HoldsNode(u)
        BY <3>0, Bounds DEF HoldsCur, HoldsNode, Frees, LocalOK
      <4>. QED
        BY <3>0, <4>1, <4>2, <4>3, <1>v DEF HandOK
    <3>2. CASE u = t /\ pc[t] = "coalesce"
      BY <3>0, <3>2, <1>v DEF HandOK, LocalOK, Sweeps
    <3>3. CASE u = t /\ pc[t] = "mergeAbsorb"
      <4>1. class[t] > 0 /\ cur[t] # None => cur[t] \in Chunks /\ cur[t] # h
        BY <1>0, <1>3, <3>3 DEF CurAt, HoldsCur
      <4>2. class[t] > 0 /\ cur[t] # None => len'[cur[t]] = len[cur[t]]
        BY <4>1, <1>k
      <4>3. len'[node[t]] <= MaxSpan
        BY <3>3, <1>k, <1>u
      <4>. QED
        BY <3>0, <3>3, <4>2, <4>3, <1>v DEF HandOK
    <3>4. CASE u = t /\ pc[t] = "extend"
      <4>1. len'[cur[t]] < want[t] + MaxSpan
        <5>1. len[h] < want[t] /\ want[t] \in Nat /\ cur[t] = h
          BY <3>4, <1>u DEF TypeOK
        <5>. QED
          BY <5>1, <1>5, <1>6, <1>k, Bounds
      <4>. QED
        BY <3>0, <3>4, <4>1, <1>v DEF HandOK, LocalOK, Sweeps
    <3>. QED
      BY <3>1, <3>2, <3>3, <3>4, <1>u
  <2>. QED
    BY <2>1, <2>2 DEF HandsOf
<1>24. Locks' /\ (bytes <= Ceiling)'
  BY <1>0, <1>v DEF Locks, Ceiling
<1>t. TypeOK'
  <2>1. len' \in [Chunks -> 0 .. Region]
    BY <1>9, <1>u DEF TypeOK
  <2>. QED
    BY <2>1, <1>13, <1>u, <1>v DEF TypeOK
<1>. QED
  <2>1. MapType(kind2, who, size2)' /\ Tiles(kind2, size2, cursor)'
    BY <1>9, <1>k, <1>v DEF MapType
  <2>2. PoolOK(kind2, who, size2)'
    BY <2>1, <1>11, <1>12, <1>13, <1>14, <1>15, <1>16, <1>17, <1>18, <1>19, <1>20, <1>21, <1>22,
       <1>23, <1>24
       DEF PoolOK, MapOK, Seats, Hands, HandsOf
  <2>. QED
    BY <2>2, <1>t

LEMMA CoalesceInv ==
    ASSUME NEW kind, NEW who, NEW size, TypeOK, PoolOK(kind, who, size), UNCHANGED setup,
           NEW t \in Threads, Coalesce(t)
    PROVE  TypeOK' /\ \E k, w, s : PoolOK(k, w, s)'
<1>0. HandsOf(t)
  BY Unfold
<1>1. pc[t] = "coalesce" /\ cur[t] \in Chunks
  BY <1>0 DEF Coalesce, HandsOf, LocalOK, Frees
<1>2. Absorbs(t, cur[t])
  BY <1>1 DEF Coalesce, Absorbs, CanMerge
<1>. QED
  BY <1>2, AbsorbInv

LEMMA MergeAbsorbInv ==
    ASSUME NEW kind, NEW who, NEW size, TypeOK, PoolOK(kind, who, size), UNCHANGED setup,
           NEW t \in Threads, MergeAbsorb(t)
    PROVE  TypeOK' /\ \E k, w, s : PoolOK(k, w, s)'
<1>0. HandsOf(t)
  BY Unfold
<1>1. pc[t] = "mergeAbsorb" /\ node[t] \in Chunks
  BY <1>0 DEF MergeAbsorb, HandsOf, LocalOK, Sweeps
<1>2. Absorbs(t, node[t])
  BY <1>1 DEF MergeAbsorb, Absorbs, CanMerge
<1>. QED
  BY <1>2, AbsorbInv

LEMMA ExtendAbsorbInv ==
    ASSUME NEW kind, NEW who, NEW size, TypeOK, PoolOK(kind, who, size), UNCHANGED setup,
           NEW t \in Threads, ExtendAbsorb(t)
    PROVE  TypeOK' /\ \E k, w, s : PoolOK(k, w, s)'
<1>0. HandsOf(t)
  BY Unfold
<1>1. pc[t] = "extend" /\ cur[t] \in Chunks
  BY <1>0 DEF ExtendAbsorb, HandsOf, LocalOK
<1>2. Absorbs(t, cur[t])
  BY <1>1 DEF ExtendAbsorb, Absorbs
<1>. QED
  BY <1>2, AbsorbInv

(* A span is cut to what is asked for, and goes to the program.             *)
CutFrom(kind, who, h, from) ==
    /\ from \in [1 .. MaxSpan -> Row]
    /\ \A k \in 1 .. MaxSpan :
          /\ IsInjective(from[k])
          /\ \A g \in Chunks : g \in Range(from[k]) <=> g # h /\ kind[g] = "list" /\ who[g] = k
Cuts(kind, who, t, h, n, from) ==
    /\ h \in Chunks /\ n \in Nat /\ 1 <= n /\ n <= len[h] /\ len[h] <= n + MaxSpan
    /\ CutFrom(kind, who, h, from)
    /\ \/ kind[h] = "list" /\ pc[t] = "take"
       \/ kind[h] = "live" /\ pc[t] = "extend" /\ cur[t] = h
    /\ \A u \in Threads : pc[u] # "mergeAbsorb"
    /\ Split(h, n, from)
    /\ live' = [live EXCEPT ![h] = n]
    /\ Go(t, "idle", None, 0)
    /\ UNCHANGED <<cursor, tiers, sweeping, lost>>
    /\ lock' \in Threads \cup {None} /\ Locks'

LEMMA CutInv ==
    ASSUME NEW kind, NEW who, NEW size, TypeOK, PoolOK(kind, who, size), UNCHANGED setup,
           NEW t \in Threads, NEW h, NEW n, NEW from, Cuts(kind, who, t, h, n, from)
    PROVE  TypeOK' /\ \E k, w, s : PoolOK(k, w, s)'
<1>0. /\ MapType(kind, who, size) /\ Tiles(kind, size, cursor) /\ SizeAt(kind, who, size)
      /\ LiveAt(kind) /\ ListAt(kind, who) /\ ParkedAt(kind, who) /\ CacheAt(kind, who)
      /\ CurAt(kind, who) /\ NodeAt(kind, who) /\ FreshAt(kind, who) /\ TailAt(kind, who)
      /\ LostAt(kind) /\ MarkAt(kind) /\ LengthAt(kind, who) /\ GrowAt(kind)
      /\ KeptOK(kind, who) /\ CountOK(kind, who)
      /\ (\A u \in Threads : HandsOf(u)) /\ Locks /\ bytes <= Ceiling
  BY Unfold
<1>1. PICK r : r = h + n
  OBVIOUS
<1>2. PICK m : m = len[h] - n
  OBVIOUS
<1>u. /\ h \in Chunks /\ n \in Nat /\ 1 <= n /\ n <= len[h] /\ len[h] <= n + MaxSpan
      /\ \/ kind[h] = "list" /\ pc[t] = "take"
         \/ kind[h] = "live" /\ pc[t] = "extend" /\ cur[t] = h
      /\ \A u \in Threads : pc[u] # "mergeAbsorb"
      /\ live' = [live EXCEPT ![h] = n]
      /\ Go(t, "idle", None, 0)
      /\ lock' \in Threads \cup {None} /\ Locks'
  BY DEF Cuts
<1>f. /\ from \in [1 .. MaxSpan -> Row]
      /\ \A k \in 1 .. MaxSpan :
            /\ IsInjective(from[k])
            /\ \A g \in Chunks : g \in Range(from[k]) <=> g # h /\ kind[g] = "list" /\ who[g] = k
  BY DEF Cuts, CutFrom
<1>s. /\ m = 0 => list' = from /\ free' = free \ {h} /\ map' = map \ {h}
                  /\ len' = len /\ magic' = magic
      /\ m # 0 => /\ list' = [from EXCEPT ![m] = <<r>> \o @]
                  /\ free' = (free \ {h}) \cup {r} /\ map' = (map \ {h}) \cup {r}
                  /\ magic' = magic \cup {r}
                  /\ len' = [len EXCEPT ![h] = n, ![r] = m]
  BY <1>1, <1>2 DEF Cuts, Split
<1>v. /\ cursor' = cursor /\ cache' = cache /\ cached' = cached /\ parked' = parked
      /\ bytes' = bytes /\ sweeping' = sweeping /\ lost' = lost
  BY DEF Cuts, tiers
<1>3. /\ kind[h] \in SpanKinds /\ class[t] = 0 /\ node[t] = None
      /\ ~HoldsCur(t) /\ ~HoldsNode(t)
  BY <1>0, <1>u DEF SpanKinds, HandsOf, LocalOK, Sweeps, HoldsCur, HoldsNode, Frees
<1>4. len[h] \in Nat /\ size[h] = len[h] /\ h \in Nat /\ m \in 0 .. MaxSpan
      /\ h + len[h] - 1 <= Region /\ h >= 1 /\ h \in magic
  <2>1. len[h] \in Nat /\ size[h] = len[h] /\ h + len[h] - 1 <= Region /\ h \in magic
    BY <1>3, <1>u, SpanIs
  <2>. QED
    BY <2>1, <1>2, <1>u, ChunkIs, Bounds
<1>n. /\ OthersWait(t) /\ LocalTypes' /\ pc'[t] = "idle" /\ cur'[t] = None /\ want'[t] = 0
      /\ class'[t] = 0 /\ node'[t] = None
  BY <1>3, <1>u, WentIdle
<1>5. PICK kind2 : kind2 = IF m = 0 THEN [kind EXCEPT ![h] = "live"]
                                    ELSE [kind EXCEPT ![h] = "live", ![r] = "list"]
  OBVIOUS
<1>6. PICK who2 : who2 = IF m = 0 THEN who ELSE [who EXCEPT ![r] = m]
  OBVIOUS
<1>7. PICK size2 : size2 = IF m = 0 THEN size ELSE [size EXCEPT ![h] = n, ![r] = m]
  OBVIOUS
<1>8. m # 0 => r \in Chunks /\ r # h /\ m >= 1
  <2>. SUFFICES ASSUME m # 0 PROVE r \in Chunks /\ r # h /\ m >= 1
    OBVIOUS
  <2>1. n < len[h] /\ m >= 1
    BY <1>2, <1>4, <1>u, Bounds
  <2>2. r \in Nat /\ r >= 1 /\ r <= Region /\ r # h
    BY <2>1, <1>1, <1>4, <1>u, Bounds
  <2>. QED
    BY <2>1, <2>2, ChunkIs
<1>k. /\ kind2[h] = "live" /\ size2[h] = n /\ len'[h] = n
      /\ m # 0 => kind2[r] = "list" /\ who2[r] = m /\ size2[r] = m /\ len'[r] = m
      /\ \A g \in Chunks : g # h /\ (m = 0 \/ g # r) =>
            kind2[g] = kind[g] /\ size2[g] = size[g] /\ len'[g] = len[g]
      /\ \A g \in Chunks : m = 0 \/ g # r => who2[g] = who[g]
      /\ MapType(kind2, who2, size2) /\ len' \in [Chunks -> 0 .. Region]
  <2>1. CASE m = 0
    <3>1. len[h] = n /\ size[h] = n
      BY <2>1, <1>2, <1>4, <1>u
    <3>. QED
      BY <2>1, <3>1, <1>0, <1>5, <1>6, <1>7, <1>s, <1>u DEF MapType, TypeOK, Kinds, SpanKinds
  <2>2. CASE m # 0
    <3>1. /\ r \in Chunks /\ r # h /\ kind2 = [kind EXCEPT ![h] = "live", ![r] = "list"]
          /\ who2 = [who EXCEPT ![r] = m] /\ size2 = [size EXCEPT ![h] = n, ![r] = m]
          /\ len' = [len EXCEPT ![h] = n, ![r] = m]
      BY <2>2, <1>5, <1>6, <1>7, <1>8, <1>s
    <3>2. n \in 0 .. Region /\ m \in 0 .. Region /\ n \in Nat /\ m \in Nat
      BY <1>2, <1>4, <1>u, Bounds
    <3>3. len' \in [Chunks -> 0 .. Region] /\ MapType(kind2, who2, size2)
      BY <3>1, <3>2, <1>0 DEF MapType, TypeOK, Kinds, SpanKinds
    <3>. QED
      BY <2>2, <3>1, <3>3, <1>0, <1>u DEF MapType, TypeOK
  <2>. QED
    BY <2>1, <2>2
<1>9. Tiles(kind2, size2, cursor) /\ (m # 0 => kind[r] = "none")
  <2>0. size \in [Chunks -> Nat] /\ size2 \in [Chunks -> Nat] /\ cursor \in Nat
    BY <1>0, <1>k DEF MapType, TypeOK
  <2>1. CASE m = 0
    <3>1. \A g \in Chunks : Busy(kind2, g) <=> Busy(kind, g)
      BY <2>1, <1>3, <1>k DEF Busy, SpanKinds
    <3>2. \A g \in Chunks : Busy(kind, g) => size2[g] = size[g]
      BY <2>1, <1>7
    <3>. QED
      BY <2>1, <3>1, <3>2, <1>0, TilesStay
  <2>2. CASE m # 0
    <3>1. \A g \in Chunks : Busy(kind2, g) <=> Busy(kind, g) \/ g = h + n
      BY <2>2, <1>1, <1>3, <1>8, <1>k DEF Busy, SpanKinds
    <3>2. /\ Busy(kind, h) /\ n < size[h] /\ size2[h] = n
          /\ h + n \in Chunks => size2[h + n] = size[h] - n
          /\ \A g \in Chunks : g # h /\ g # h + n => size2[g] = size[g]
      BY <2>2, <1>1, <1>2, <1>3, <1>4, <1>u, <1>k DEF Busy, SpanKinds
    <3>3. Tiles(kind2, size2, cursor) /\ ~Busy(kind, h + n)
      BY <2>0, <3>1, <3>2, <1>0, <1>u, TilesSplit
    <3>. QED
      BY <3>3, <1>1 DEF Busy
  <2>. QED
    BY <2>1, <2>2
<1>10. \A u \in Threads :
          /\ u # t /\ pc[u] \in Extends =>
                cur[u] \in Chunks /\ cur[u] # h /\ (m # 0 => cur[u] # r)
          /\ HoldsCur(u) =>
                u # t /\ cur[u] \in Chunks /\ cur[u] # h /\ (m # 0 => cur[u] # r)
          /\ HoldsNode(u) =>
                u # t /\ node[u] \in Chunks /\ node[u] # h /\ (m # 0 => node[u] # r)
  <2>. SUFFICES ASSUME NEW u \in Threads
                PROVE  /\ u # t /\ pc[u] \in Extends =>
                            cur[u] \in Chunks /\ cur[u] # h /\ (m # 0 => cur[u] # r)
                       /\ HoldsCur(u) =>
                            u # t /\ cur[u] \in Chunks /\ cur[u] # h /\ (m # 0 => cur[u] # r)
                       /\ HoldsNode(u) =>
                            u # t /\ node[u] \in Chunks /\ node[u] # h /\ (m # 0 => node[u] # r)
    OBVIOUS
  <2>1. ASSUME u # t, pc[u] \in Extends
        PROVE  cur[u] \in Chunks /\ cur[u] # h /\ (m # 0 => cur[u] # r)
    <3>1. cur[u] \in Chunks /\ kind[cur[u]] = "live"
      BY <2>1, <1>0 DEF GrowAt
    <3>2. cur[u] # h
      <4>. SUFFICES ASSUME cur[u] = h PROVE FALSE
        OBVIOUS
      <4>1. pc[t] \in Extends /\ cur[t] = cur[u]
        BY <3>1, <1>u DEF Extends
      <4>. QED
        BY <4>1, <2>1, <1>0 DEF GrowAt
    <3>. QED
      BY <3>1, <3>2, <1>9
  <2>2. ASSUME HoldsCur(u)
        PROVE  u # t /\ cur[u] \in Chunks /\ cur[u] # h /\ (m # 0 => cur[u] # r)
    BY <2>2, <1>0, <1>3, <1>9, <1>u DEF CurAt
  <2>3. ASSUME HoldsNode(u)
        PROVE  u # t /\ node[u] \in Chunks /\ node[u] # h /\ (m # 0 => node[u] # r)
    BY <2>3, <1>0, <1>3, <1>9, <1>u DEF NodeAt
  <2>. QED
    BY <2>1, <2>2, <2>3
<1>o. \A u \in Threads : u # t =>
        /\ pc'[u] = pc[u] /\ cur'[u] = cur[u] /\ want'[u] = want[u]
        /\ class'[u] = class[u] /\ node'[u] = node[u]
  BY <1>n DEF OthersWait
<1>11. SizeAt(kind2, who2, size2)'
  <2>1. ASSUME NEW g \in Chunks, kind2[g] \in SpanKinds PROVE size2[g] = len'[g]
    BY <2>1, <1>0, <1>k DEF SizeAt
  <2>2. ASSUME NEW g \in Chunks, kind2[g] = "tail"
        PROVE size2[g] = want'[who2[g]] - len'[cur'[who2[g]]]
    <3>1. g # h /\ (m = 0 \/ g # r) /\ kind[g] = "tail" /\ who2[g] = who[g] /\ size2[g] = size[g]
      BY <2>2, <1>k
    <3>2. who[g] \in Threads /\ pc[who[g]] = "extendCommit"
      BY <3>1, <1>0 DEF TailAt
    <3>3. who[g] # t
      BY <3>2, <1>u
    <3>4. len'[cur[who[g]]] = len[cur[who[g]]]
      BY <3>2, <3>3, <1>10, <1>k DEF Extends
    <3>. QED
      BY <3>1, <3>2, <3>3, <3>4, <1>0, <1>o DEF SizeAt
  <2>3. ASSUME NEW g \in Chunks
        PROVE  /\ kind2[g] = "fresh" => size2[g] = want'[who2[g]]
               /\ kind2[g] = "lost" => size2[g] = 1
    BY <1>0, <1>k, <1>o, <1>u DEF SizeAt, FreshAt
  <2>. QED
    BY <2>1, <2>2, <2>3 DEF SizeAt
<1>12. LiveAt(kind2)'
  <2>1. live'[h] = n /\ \A g \in Chunks : g # h => live'[g] = live[g]
    BY <1>u DEF TypeOK
  <2>2. m # 0 => live[r] = 0 /\ m >= 1
    <3>. SUFFICES ASSUME m # 0 PROVE live[r] = 0 /\ m >= 1
      OBVIOUS
    <3>1. r \in Chunks /\ kind[r] = "none" /\ m >= 1
      BY <1>8, <1>9
    <3>2. live[r] \in Nat /\ ~(live[r] > 0)
      BY <3>1, <1>0 DEF LiveAt, TypeOK
    <3>. QED
      BY <3>1, <3>2
  <2>. QED
    BY <2>1, <2>2, <1>0, <1>8, <1>9, <1>k, <1>u DEF LiveAt
<1>13. ListAt(kind2, who2)' /\ list' \in [1 .. MaxSpan -> Row]
  <2>1. CASE m = 0
    <3>1. \A g \in Chunks : kind2[g] = "list" <=> g # h /\ kind[g] = "list"
      BY <2>1, <1>k
    <3>. QED
      BY <2>1, <3>1, <1>0, <1>f, <1>k, <1>s DEF ListAt
  <2>2. CASE m # 0
    <3>0. m \in 1 .. MaxSpan /\ r \in Chunks /\ r # h /\ kind[r] = "none"
      BY <2>2, <1>4, <1>8, <1>9
    <3>1. /\ <<r>> \o from[m] \in Row /\ IsInjective(<<r>> \o from[m])
          /\ \A g : g \in Range(<<r>> \o from[m]) <=> g = r \/ g \in Range(from[m])
      <4>1. from[m] \in Row /\ IsInjective(from[m]) /\ r \notin Range(from[m])
        BY <3>0, <1>f
      <4>. QED
        BY <4>1, <3>0, RowCons
    <3>2. /\ list' \in [1 .. MaxSpan -> Row] /\ list'[m] = <<r>> \o from[m]
          /\ \A j \in 1 .. MaxSpan : j # m => list'[j] = from[j]
      <4>1. list' = [from EXCEPT ![m] = <<r>> \o @]
        BY <2>2, <1>s
      <4>2. list' = [from EXCEPT ![m] = <<r>> \o from[m]]
        BY <4>1
      <4>3. from \in [1 .. MaxSpan -> Row]
        BY <1>f
      <4>. QED
        BY <4>2, <4>3, <3>0, <3>1
    <3>3. ASSUME NEW j \in 1 .. MaxSpan
          PROVE  /\ IsInjective(list'[j])
                 /\ \A g \in Chunks : g \in Range(list'[j]) <=> kind2[g] = "list" /\ who2[g] = j
      <4>0. IsInjective(from[j])
            /\ \A g \in Chunks : g \in Range(from[j]) <=> g # h /\ kind[g] = "list" /\ who[g] = j
        BY <1>f
      <4>1. CASE j = m
        BY <4>0, <4>1, <3>0, <3>1, <3>2, <2>2, <1>k
      <4>2. CASE j # m
        BY <4>0, <4>2, <3>0, <3>2, <2>2, <1>k
      <4>. QED
        BY <4>1, <4>2
    <3>4. \A g \in Chunks : kind2[g] = "list" => who2[g] \in 1 .. MaxSpan
      BY <3>0, <2>2, <1>0, <1>k DEF ListAt
    <3>. QED
      BY <3>2, <3>3, <3>4 DEF ListAt
  <2>. QED
    BY <2>1, <2>2
<1>14. ParkedAt(kind2, who2)' /\ CacheAt(kind2, who2)'
  <2>1. \A g \in Chunks : kind2[g] \in {"parked", "cache"} \/ kind[g] \in {"parked", "cache"} =>
            kind2[g] = kind[g] /\ who2[g] = who[g] /\ len'[g] = len[g]
    BY <1>9, <1>k, <1>u
  <2>2. ParkedAt(kind2, who2)'
    BY <2>1, <1>0, <1>v DEF ParkedAt
  <2>3. CacheAt(kind2, who2)'
    BY <2>1, <1>0, <1>v DEF CacheAt
  <2>. QED
    BY <2>2, <2>3
<1>15. CurAt(kind2, who2)' /\ NodeAt(kind2, who2)'
  <2>1. ~HoldsCur(t)' /\ ~HoldsNode(t)'
    BY <1>n DEF HoldsCur, HoldsNode
  <2>2. \A u \in Threads : u # t =>
            (HoldsCur(u)' <=> HoldsCur(u)) /\ (HoldsNode(u)' <=> HoldsNode(u))
    BY <1>o DEF HoldsCur, HoldsNode
  <2>3. \A g \in Chunks : kind2[g] \in {"cur", "node"} =>
            kind[g] = kind2[g] /\ who2[g] = who[g]
    BY <1>k
  <2>4. CurAt(kind2, who2)'
    BY <2>1, <2>2, <2>3, <1>0, <1>3, <1>10, <1>k, <1>o DEF CurAt
  <2>5. NodeAt(kind2, who2)'
    BY <2>1, <2>2, <2>3, <1>0, <1>3, <1>10, <1>k, <1>o DEF NodeAt
  <2>. QED
    BY <2>4, <2>5
<1>16. FreshAt(kind2, who2)' /\ LostAt(kind2)'
  <2>1. FreshAt(kind2, who2)'
    BY <1>0, <1>9, <1>k, <1>n, <1>o, <1>u DEF FreshAt
  <2>2. LostAt(kind2)'
    BY <1>0, <1>9, <1>k, <1>u, <1>v DEF LostAt
  <2>. QED
    BY <2>1, <2>2
<1>17. TailAt(kind2, who2)'
  <2>1. ASSUME NEW u \in Threads, pc'[u] = "extendCommit"
        PROVE  /\ cur'[u] + len'[cur'[u]] \in Chunks
               /\ kind2[cur'[u] + len'[cur'[u]]] = "tail" /\ who2[cur'[u] + len'[cur'[u]]] = u
    <3>1. u # t /\ pc[u] = "extendCommit" /\ cur'[u] = cur[u]
      BY <2>1, <1>n, <1>o
    <3>2. len'[cur[u]] = len[cur[u]]
      BY <3>1, <1>10, <1>k DEF Extends
    <3>3. PICK g : g = cur[u] + len[cur[u]]
      OBVIOUS
    <3>4. g \in Chunks /\ kind[g] = "tail" /\ who[g] = u
      BY <3>1, <3>3, <1>0 DEF TailAt
    <3>5. g # h /\ (m = 0 \/ g # r)
      BY <3>4, <1>9, <1>u
    <3>. QED
      BY <3>1, <3>2, <3>3, <3>4, <3>5, <1>k
  <2>2. ASSUME NEW g \in Chunks, kind2[g] = "tail"
        PROVE  /\ who2[g] \in Threads /\ pc'[who2[g]] = "extendCommit"
               /\ cur'[who2[g]] + len'[cur'[who2[g]]] = g
    <3>1. kind[g] = "tail" /\ who2[g] = who[g]
      BY <2>2, <1>k
    <3>2. who[g] \in Threads /\ pc[who[g]] = "extendCommit" /\ cur[who[g]] + len[cur[who[g]]] = g
      BY <3>1, <1>0 DEF TailAt
    <3>3. who[g] # t
      BY <3>2, <1>u
    <3>4. len'[cur[who[g]]] = len[cur[who[g]]]
      BY <3>2, <3>3, <1>10, <1>k DEF Extends
    <3>. QED
      BY <3>1, <3>2, <3>3, <3>4, <1>o
  <2>. QED
    BY <2>1, <2>2 DEF TailAt
<1>18. MarkAt(kind2)'
  <2>1. CASE m = 0
    BY <2>1, <1>0, <1>4, <1>k, <1>s, <1>u DEF MarkAt, SpanKinds
  <2>2. CASE m # 0
    BY <2>2, <1>0, <1>4, <1>8, <1>9, <1>k, <1>s, <1>u DEF MarkAt, SpanKinds
  <2>. QED
    BY <2>1, <2>2
<1>19. LengthAt(kind2, who2)'
  <2>1. ASSUME NEW g \in Chunks, kind2[g] = "list" PROVE len'[g] = who2[g]
    BY <2>1, <1>0, <1>k, <1>u DEF LengthAt, Mending
  <2>2. \A u \in Threads : pc'[u] # "mergeAbsorb"
    BY <1>n, <1>o, <1>u
  <2>. QED
    BY <2>1, <2>2 DEF LengthAt
<1>20. GrowAt(kind2)'
  <2>1. \A u \in Threads : pc'[u] \in Extends => u # t /\ pc[u] \in Extends /\ cur'[u] = cur[u]
                                             /\ want'[u] = want[u]
    BY <1>n, <1>o DEF Extends
  <2>2. \A g \in Chunks : g # h => live'[g] = live[g]
    BY <1>u DEF TypeOK
  <2>. QED
    BY <2>1, <2>2, <1>0, <1>10, <1>k DEF GrowAt
<1>21. KeptOK(kind2, who2)'
  <2>1. \A u \in HasCache : Kept(kind2, who2, u)' = Kept(kind, who, u)
    <3>1. \A g \in Chunks : kind2[g] = "cache" \/ kind[g] = "cache" =>
              kind2[g] = kind[g] /\ who2[g] = who[g] /\ len'[g] = len[g]
      BY <1>9, <1>k, <1>u
    <3>. QED
      BY <3>1 DEF Kept
  <2>. QED
    BY <2>1, <1>0, <1>v DEF KeptOK
<1>22. CountOK(kind2, who2)'
  <2>1. \A g \in Chunks :
            kind2[g] \in {"parked", "cur", "node"} \/ kind[g] \in {"parked", "cur", "node"}
            => kind2[g] = kind[g] /\ who2[g] = who[g] /\ len'[g] = len[g]
    BY <1>9, <1>k, <1>u
  <2>2. ASSUME NEW g \in Chunks
        PROVE  /\ IsCounted(kind2, who2, g)' <=> IsCounted(kind, who, g)
               /\ IsCounted(kind, who, g) => len'[g] = len[g]
    <3>1. kind[g] = "cur" => who[g] \in Threads /\ who[g] # t
      BY <1>0, <1>10 DEF CurAt
    <3>2. kind[g] = "node" => who[g] \in Threads /\ who[g] # t
      BY <1>0, <1>10 DEF NodeAt
    <3>. QED
      BY <2>1, <3>1, <3>2, <1>o DEF IsCounted
  <2>3. Counted(kind2, who2)' = Counted(kind, who)
    BY <2>2 DEF Counted
  <2>. QED
    BY <2>3, <1>0, <1>v DEF CountOK
<1>23. \A u \in Threads : HandsOf(u)'
  <2>. SUFFICES ASSUME NEW u \in Threads PROVE HandsOf(u)'
    OBVIOUS
  <2>1. CASE u = t
    BY <2>1, <1>n DEF HandsOf, LocalOK, HandOK, CeilingOK, Sweeps, Frees
  <2>2. CASE u # t
    <3>0. LocalOK(u) /\ HandOK(u) /\ CeilingOK(u)
      BY <1>0 DEF HandsOf
    <3>1. LocalOK(u)' /\ CeilingOK(u)'
      BY <2>2, <3>0, <1>o, <1>v DEF LocalOK, CeilingOK, Ceiling
    <3>2. /\ HoldsCur(u) \/ pc[u] \in {"extend", "extendCommit"} => len'[cur[u]] = len[cur[u]]
          /\ HoldsNode(u) => len'[node[u]] = len[node[u]]
      BY <2>2, <1>10, <1>k DEF Extends
    <3>3. /\ pc[u] \in {"uncount", "park", "again", "push"} => HoldsCur(u)
          /\ class[u] > 0 /\ cur[u] # None => HoldsCur(u)
          /\ pc[u] \in {"sweepUncount", "sweepInsert"} => HoldsNode(u)
          /\ pc[u] # "mergeAbsorb"
      BY <3>0, <1>u, Bounds DEF HoldsCur, HoldsNode, Frees, LocalOK
    <3>4. HandOK(u)'
      BY <2>2, <3>0, <3>2, <3>3, <1>o DEF HandOK
    <3>. QED
      BY <3>1, <3>4 DEF HandsOf
  <2>. QED
    BY <2>1, <2>2
<1>24. Locks' /\ (bytes <= Ceiling)'
  BY <1>0, <1>u, <1>v DEF Ceiling
<1>t. TypeOK'
  <2>1. live' \in [Chunks -> Nat]
    BY <1>u DEF TypeOK
  <2>2. free' \subseteq Chunks /\ map' \subseteq Chunks /\ magic' \subseteq Chunks
    BY <1>8, <1>s DEF TypeOK
  <2>. QED
    BY <2>1, <2>2, <1>13, <1>k, <1>n, <1>u, <1>v DEF TypeOK, LocalTypes
<1>. QED
  <2>1. MapType(kind2, who2, size2)' /\ Tiles(kind2, size2, cursor)'
    BY <1>9, <1>k, <1>v DEF MapType
  <2>2. PoolOK(kind2, who2, size2)'
    BY <2>1, <1>11, <1>12, <1>13, <1>14, <1>15, <1>16, <1>17, <1>18, <1>19, <1>20, <1>21, <1>22,
       <1>23, <1>24
       DEF PoolOK, MapOK, Seats, Hands, HandsOf
  <2>. QED
    BY <2>2, <1>t

LEMMA TakeInv ==
    ASSUME NEW kind, NEW who, NEW size, TypeOK, PoolOK(kind, who, size), UNCHANGED setup,
           NEW t \in Threads, Take(t)
    PROVE  TypeOK' /\ \E k, w, s : PoolOK(k, w, s)'
<1>0. HandsOf(t) /\ Locks /\ ListAt(kind, who) /\ LengthAt(kind, who)
  BY Unfold
<1>1. PICK n : n = want[t]
  OBVIOUS
<1>c. /\ pc[t] = "take" /\ lock = None /\ Go(t, "idle", None, 0)
      /\ cursor' = cursor /\ UNCHANGED <<tiers, sweeping, lost>> /\ lock' = lock
  BY DEF Take, Idle
<1>2. PICK k \in n .. MaxSpan :
        /\ list[k] # <<>>
        /\ Split(Head(list[k]), n, [list EXCEPT ![k] = Tail(@)])
        /\ live' = [live EXCEPT ![Head(list[k])] = @ + n]
  BY <1>1 DEF Take
<1>3. PICK h : h = Head(list[k])
  OBVIOUS
<1>4. PICK from : from = [list EXCEPT ![k] = Tail(@)]
  OBVIOUS
<1>5. n \in Nat /\ n >= 1 /\ k \in 1 .. MaxSpan /\ n <= k
      /\ class[t] = 0 /\ node[t] = None /\ cur[t] = None
  <2>1. n \in Nat /\ n >= 1 /\ class[t] = 0 /\ node[t] = None /\ cur[t] = None
    BY <1>0, <1>1, <1>c DEF HandsOf, LocalOK, Sweeps, TypeOK
  <2>. QED
    BY <2>1, <1>2, Bounds
<1>6. /\ list[k] \in Row /\ Tail(list[k]) \in Row /\ IsInjective(Tail(list[k]))
      /\ h \in Chunks /\ h \in Range(list[k])
      /\ \A g : g \in Range(Tail(list[k])) <=> g # h /\ g \in Range(list[k])
  <2>1. list[k] \in Row /\ IsInjective(list[k])
    BY <1>0, <1>5 DEF ListAt, TypeOK
  <2>. QED
    BY <2>1, <1>2, <1>3, RowTail
<1>7. kind[h] = "list" /\ who[h] = k
  BY <1>0, <1>5, <1>6 DEF ListAt
<1>8. \A u \in Threads : pc[u] # "mergeAbsorb"
  BY <1>0, <1>c, Bounds DEF Locks
<1>9. len[h] = k /\ live[h] = 0
  <2>1. len[h] = k
    BY <1>0, <1>6, <1>7, <1>8 DEF LengthAt, Mending
  <2>2. kind[h] \in SpanKinds
    BY <1>7 DEF SpanKinds
  <2>. QED
    BY <2>1, <2>2, <1>6, <1>7, SpanIs
<1>10. CutFrom(kind, who, h, from)
  <2>1. from \in [1 .. MaxSpan -> Row]
        /\ from[k] = Tail(list[k]) /\ \A j \in 1 .. MaxSpan : j # k => from[j] = list[j]
    BY <1>4, <1>5, <1>6 DEF TypeOK
  <2>2. ASSUME NEW j \in 1 .. MaxSpan
        PROVE  /\ IsInjective(from[j])
               /\ \A g \in Chunks : g \in Range(from[j]) <=> g # h /\ kind[g] = "list" /\ who[g] = j
    <3>0. IsInjective(list[j])
          /\ \A g \in Chunks : g \in Range(list[j]) <=> kind[g] = "list" /\ who[g] = j
      BY <1>0 DEF ListAt
    <3>1. CASE j = k
      BY <3>0, <3>1, <2>1, <1>6
    <3>2. CASE j # k
      BY <3>0, <3>2, <2>1, <1>7
    <3>. QED
      BY <3>1, <3>2
  <2>. QED
    BY <2>1, <2>2 DEF CutFrom
<1>11. live' = [live EXCEPT ![h] = n]
  <2>1. live' = [live EXCEPT ![h] = live[h] + n] /\ live[h] + n = n
    BY <1>2, <1>3, <1>5, <1>9
  <2>. QED
    BY <2>1
<1>12. OthersWait(t) /\ pc'[t] = "idle" /\ class'[t] = 0 /\ cur'[t] = None
  BY <1>5, <1>c, WentIdle
<1>13. lock' \in Threads \cup {None} /\ Locks'
  BY <1>0, <1>5, <1>12, <1>c, Bounds DEF Locks, OthersWait
<1>14. /\ Split(h, n, from) /\ n <= len[h] /\ len[h] <= n + MaxSpan /\ 1 <= n
       /\ pc[t] = "take" /\ UNCHANGED <<cursor, tiers, sweeping, lost>>
  <2>1. Split(h, n, from)
    BY <1>2, <1>3, <1>4
  <2>. QED
    BY <2>1, <1>5, <1>9, <1>c, Bounds
<1>15. Cuts(kind, who, t, h, n, from)
  BY <1>5, <1>6, <1>7, <1>8, <1>10, <1>11, <1>13, <1>14, <1>c DEF Cuts
<1>. QED
  BY <1>15, CutInv

LEMMA ExtendDoneInv ==
    ASSUME NEW kind, NEW who, NEW size, TypeOK, PoolOK(kind, who, size), UNCHANGED setup,
           NEW t \in Threads, ExtendDone(t)
    PROVE  TypeOK' /\ \E k, w, s : PoolOK(k, w, s)'
<1>0. HandsOf(t) /\ Locks /\ ListAt(kind, who) /\ GrowAt(kind)
  BY Unfold
<1>1. PICK n : n = want[t]
  OBVIOUS
<1>2. PICK h : h = cur[t]
  OBVIOUS
<1>c. /\ pc[t] = "extend" /\ len[h] >= n /\ Split(h, n, list)
      /\ live' = [live EXCEPT ![h] = n] /\ lock' = None /\ Go(t, "idle", None, 0)
      /\ UNCHANGED <<cursor, tiers, sweeping, lost>> /\ sweeping' = sweeping
  BY <1>1, <1>2 DEF ExtendDone, Idle
<1>3. h \in Chunks /\ kind[h] = "live" /\ kind[h] \in SpanKinds /\ lock = t
  BY <1>0, <1>2, <1>c DEF GrowAt, Extends, SpanKinds, Locks
<1>4. n \in Nat /\ 1 <= n /\ n <= len[h] /\ len[h] <= n + MaxSpan /\ class[t] = 0
  <2>1. n \in Nat /\ n >= 1 /\ class[t] = 0 /\ len[h] < n + MaxSpan
    BY <1>0, <1>1, <1>2, <1>c DEF HandsOf, LocalOK, HandOK, Sweeps, TypeOK
  <2>2. len[h] \in Nat
    BY <1>3, SpanIs
  <2>. QED
    BY <2>1, <2>2, <1>c, Bounds
<1>5. CutFrom(kind, who, h, list)
  BY <1>0, <1>3 DEF CutFrom, ListAt, TypeOK
<1>6. \A u \in Threads : u # t => pc[u] \notin {"coalesce", "mergeAbsorb", "extend"}
  BY <1>0, <1>3 DEF Locks
<1>7. OthersWait(t) /\ pc'[t] = "idle" /\ class'[t] = class[t] /\ cur'[t] = None
  BY <1>c, WentIdle
<1>8. lock' \in Threads \cup {None} /\ Locks'
  BY <1>0, <1>4, <1>6, <1>7, <1>c, Bounds DEF Locks, OthersWait
<1>9. \A u \in Threads : pc[u] # "mergeAbsorb"
  BY <1>6, <1>c
<1>10. Cuts(kind, who, t, h, n, list)
  BY <1>2, <1>3, <1>4, <1>5, <1>8, <1>9, <1>c DEF Cuts
<1>. QED
  BY <1>10, CutInv

(* Spans stay where they are, but for one that is thrown away; what is not  *)
(* a span may change.                                                       *)
Around(kind, who, kind2, who2, t) ==
    /\ OthersWait(t) /\ UNCHANGED <<len, free, map, list, tiers, live>> /\ cursor' \in Nat
    /\ cursor <= cursor'
    /\ \A g \in Chunks : kind[g] \in SpanKinds \/ kind2[g] \in SpanKinds =>
          \/ kind2[g] = kind[g] /\ who2[g] = who[g] /\ (g \in magic => g \in magic')
          \/ kind[g] = "cur" /\ who[g] = t /\ kind2[g] = "lost"
    /\ HoldsCur(t) => pc[t] = "coalesce" /\ kind2[cur[t]] # "cur"
    /\ ~HoldsCur(t)' /\ ~HoldsNode(t) /\ ~HoldsNode(t)'
    /\ pc[t] # "mergeAbsorb" /\ pc'[t] # "mergeAbsorb"
    /\ pc'[t] \in Extends => pc[t] \in Extends /\ cur'[t] = cur[t] /\ want'[t] = want[t]
    /\ HandsOf(t)'

LEMMA AroundStep ==
    ASSUME NEW kind, NEW who, NEW size, TypeOK, PoolOK(kind, who, size), NEW t \in Threads,
           NEW kind2, NEW who2, Around(kind, who, kind2, who2, t)
    PROVE  /\ LiveAt(kind2)' /\ ListAt(kind2, who2)' /\ ParkedAt(kind2, who2)'
           /\ CacheAt(kind2, who2)' /\ CurAt(kind2, who2)' /\ NodeAt(kind2, who2)'
           /\ MarkAt(kind2)' /\ LengthAt(kind2, who2)' /\ GrowAt(kind2)'
           /\ KeptOK(kind2, who2)' /\ CountOK(kind2, who2)' /\ (bytes <= Ceiling)'
           /\ \A u \in Threads : HandsOf(u)'
<1>0. /\ LiveAt(kind) /\ ListAt(kind, who) /\ ParkedAt(kind, who) /\ CacheAt(kind, who)
      /\ CurAt(kind, who) /\ NodeAt(kind, who) /\ MarkAt(kind) /\ LengthAt(kind, who)
      /\ GrowAt(kind) /\ KeptOK(kind, who) /\ CountOK(kind, who)
      /\ (\A u \in Threads : HandsOf(u)) /\ bytes <= Ceiling
  BY Unfold
<1>u. /\ HoldsCur(t) => pc[t] = "coalesce" /\ kind2[cur[t]] # "cur"
      /\ ~HoldsCur(t)' /\ ~HoldsNode(t) /\ ~HoldsNode(t)'
      /\ pc[t] # "mergeAbsorb" /\ pc'[t] # "mergeAbsorb"
      /\ pc'[t] \in Extends => pc[t] \in Extends /\ cur'[t] = cur[t] /\ want'[t] = want[t]
      /\ HandsOf(t)' /\ OthersWait(t) /\ cursor' \in Nat /\ cursor <= cursor'
  BY DEF Around
<1>v. /\ len' = len /\ free' = free /\ map' = map /\ list' = list /\ cache' = cache
      /\ cached' = cached /\ parked' = parked /\ bytes' = bytes /\ live' = live
  BY DEF Around, tiers
<1>k. \A g \in Chunks :
        /\ kind[g] \in {"live", "list", "parked", "cache", "node"}
           \/ kind2[g] \in {"live", "list", "parked", "cache", "node"}
           => kind2[g] = kind[g] /\ who2[g] = who[g] /\ (g \in magic => g \in magic')
        /\ kind2[g] = "cur" =>
              kind[g] = "cur" /\ who2[g] = who[g] /\ (g \in magic => g \in magic')
        /\ kind[g] = "cur" /\ who[g] # t => kind2[g] = "cur" /\ who2[g] = who[g]
  BY DEF Around, SpanKinds
<1>o. \A u \in Threads : u # t =>
        /\ pc'[u] = pc[u] /\ cur'[u] = cur[u] /\ want'[u] = want[u]
        /\ class'[u] = class[u] /\ node'[u] = node[u]
        /\ (HoldsCur(u)' <=> HoldsCur(u)) /\ (HoldsNode(u)' <=> HoldsNode(u))
  BY <1>u DEF OthersWait, HoldsCur, HoldsNode
<1>1. LiveAt(kind2)' /\ ListAt(kind2, who2)'
  BY <1>0, <1>k, <1>v DEF LiveAt, ListAt
<1>2. ParkedAt(kind2, who2)' /\ CacheAt(kind2, who2)'
  BY <1>0, <1>k, <1>v DEF ParkedAt, CacheAt
<1>3. CurAt(kind2, who2)'
  <2>1. ASSUME NEW u \in Threads, HoldsCur(u)'
        PROVE  cur'[u] \in Chunks /\ kind2[cur'[u]] = "cur" /\ who2[cur'[u]] = u
    <3>1. u # t /\ HoldsCur(u) /\ cur'[u] = cur[u]
      BY <2>1, <1>u, <1>o
    <3>2. cur[u] \in Chunks /\ kind[cur[u]] = "cur" /\ who[cur[u]] = u
      BY <3>1, <1>0 DEF CurAt
    <3>. QED
      BY <3>1, <3>2, <1>k
  <2>2. ASSUME NEW g \in Chunks, kind2[g] = "cur"
        PROVE  who2[g] \in Threads /\ HoldsCur(who2[g])' /\ cur'[who2[g]] = g
    <3>1. kind[g] = "cur" /\ who2[g] = who[g]
      BY <2>2, <1>k
    <3>2. who[g] \in Threads /\ HoldsCur(who[g]) /\ cur[who[g]] = g
      BY <3>1, <1>0 DEF CurAt
    <3>3. who[g] # t
      BY <3>2, <2>2, <1>u
    <3>. QED
      BY <3>1, <3>2, <3>3, <1>o
  <2>. QED
    BY <2>1, <2>2 DEF CurAt
<1>4. NodeAt(kind2, who2)'
  BY <1>0, <1>k, <1>o, <1>u DEF NodeAt
<1>5. MarkAt(kind2)'
  BY <1>0, <1>k, <1>v DEF MarkAt, SpanKinds
<1>6. LengthAt(kind2, who2)'
  BY <1>0, <1>k, <1>o, <1>u, <1>v DEF LengthAt, Mending
<1>7. GrowAt(kind2)'
  <2>1. \A u \in Threads : pc'[u] \in Extends =>
            pc[u] \in Extends /\ cur'[u] = cur[u] /\ want'[u] = want[u]
    BY <1>o, <1>u
  <2>. QED
    BY <2>1, <1>0, <1>k, <1>v DEF GrowAt
<1>8. KeptOK(kind2, who2)'
  <2>1. \A u \in HasCache : Kept(kind2, who2, u)' = Kept(kind, who, u)
    BY <1>k, <1>v DEF Kept
  <2>. QED
    BY <2>1, <1>0, <1>v DEF KeptOK
<1>9. CountOK(kind2, who2)'
  <2>1. ASSUME NEW g \in Chunks PROVE IsCounted(kind2, who2, g)' <=> IsCounted(kind, who, g)
    <3>1. kind[g] = "cur" => who[g] \in Threads /\ HoldsCur(who[g]) /\ cur[who[g]] = g
      BY <1>0 DEF CurAt
    <3>2. kind[g] = "node" => who[g] \in Threads /\ HoldsNode(who[g])
      BY <1>0 DEF NodeAt
    <3>3. CASE kind[g] = "cur" /\ who[g] = t
      <4>1. pc[t] = "coalesce" /\ kind2[g] # "cur"
        BY <3>1, <3>3, <1>u
      <4>2. ~IsCounted(kind, who, g)
        BY <3>3, <4>1 DEF IsCounted
      <4>3. kind2[g] \notin {"parked", "cur", "node"}
        BY <3>3, <4>1, <1>k
      <4>. QED
        BY <4>2, <4>3 DEF IsCounted
    <3>4. CASE kind[g] = "cur" /\ who[g] # t
      BY <3>1, <3>4, <1>k, <1>o DEF IsCounted
    <3>5. CASE kind[g] = "node"
      BY <3>2, <3>5, <1>k, <1>o, <1>u DEF IsCounted
    <3>6. CASE kind[g] \notin {"cur", "node"}
      BY <3>6, <1>k DEF IsCounted
    <3>. QED
      BY <3>3, <3>4, <3>5, <3>6
  <2>2. Counted(kind2, who2)' = Counted(kind, who)
    BY <2>1, <1>v DEF Counted
  <2>. QED
    BY <2>2, <1>0, <1>v DEF CountOK
<1>10. (bytes <= Ceiling)'
  <2>1. Ceiling <= Ceiling' /\ Ceiling \in Nat /\ Ceiling' \in Nat
    BY <1>u, CeilingUp DEF TypeOK
  <2>. QED
    BY <2>1, <1>0, <1>v DEF TypeOK
<1>11. \A u \in Threads : HandsOf(u)'
  <2>1. len' = len /\ cursor <= cursor' /\ cursor \in Nat /\ cursor' \in Nat
        /\ \A u \in Threads : want[u] \in Nat
    BY <1>u, <1>v DEF TypeOK
  <2>. QED
    BY <2>1, <1>0, <1>u, HandsOfOthers
<1>. QED
  BY <1>1, <1>2, <1>3, <1>4, <1>5, <1>6, <1>7, <1>8, <1>9, <1>10, <1>11

(* The thread's piece is lost, or what is left of the region, or nothing.   *)
Loses(kind, who, size, t, a, b) ==
    /\ a \in Nat /\ b \in Nat /\ a >= 1 /\ b <= Region /\ cursor' \in Nat /\ cursor <= cursor'
    /\ \/ /\ a \in Chunks /\ kind[a] \in {"fresh", "tail", "cur"} /\ who[a] = t
          /\ b = a + size[a] - 1 /\ cursor' = cursor
       \/ a = cursor + 1 /\ b = Region /\ Region <= cursor'
       \/ b = 0 /\ cursor' = cursor
    /\ lost' = lost \cup (a .. b)
    /\ HoldsCur(t) => pc[t] = "coalesce" /\ cur[t] = a /\ a <= b
    /\ pc[t] = "commit" /\ cur[t] \in Chunks => cur[t] = a /\ a <= b
    /\ pc[t] = "extendCommit" => cur[t] + len[cur[t]] = a /\ a <= b
    /\ pc[t] # "mergeAbsorb" /\ class[t] = 0 /\ node[t] = None
    /\ ~HoldsNode(t) /\ Go(t, "idle", None, 0)
    /\ UNCHANGED <<len, free, map, list, tiers, live, sweeping>>
    /\ magic' = magic \/ (magic' = magic \ {a} /\ a <= b)
    /\ lock' \in Threads \cup {None} /\ Locks'

LEMMA LoseInv ==
    ASSUME NEW kind, NEW who, NEW size, TypeOK, PoolOK(kind, who, size), UNCHANGED setup,
           NEW t \in Threads, NEW a, NEW b, Loses(kind, who, size, t, a, b)
    PROVE  TypeOK' /\ \E k, w, s : PoolOK(k, w, s)'
<1>0. /\ MapType(kind, who, size) /\ Tiles(kind, size, cursor) /\ SizeAt(kind, who, size)
      /\ FreshAt(kind, who) /\ TailAt(kind, who) /\ LostAt(kind)
  BY Unfold
<1>u. /\ a \in Nat /\ b \in Nat /\ a >= 1 /\ b <= Region /\ cursor' \in Nat /\ cursor <= cursor'
      /\ \/ /\ a \in Chunks /\ kind[a] \in {"fresh", "tail", "cur"} /\ who[a] = t
            /\ b = a + size[a] - 1 /\ cursor' = cursor
         \/ a = cursor + 1 /\ b = Region /\ Region <= cursor'
         \/ b = 0 /\ cursor' = cursor
      /\ lost' = lost \cup (a .. b)
      /\ HoldsCur(t) => pc[t] = "coalesce" /\ cur[t] = a /\ a <= b
      /\ pc[t] = "commit" /\ cur[t] \in Chunks => cur[t] = a /\ a <= b
      /\ pc[t] = "extendCommit" => cur[t] + len[cur[t]] = a /\ a <= b
      /\ pc[t] # "mergeAbsorb" /\ class[t] = 0 /\ node[t] = None
      /\ ~HoldsNode(t) /\ Go(t, "idle", None, 0)
      /\ magic' = magic \/ (magic' = magic \ {a} /\ a <= b)
      /\ lock' \in Threads \cup {None} /\ Locks'
  BY DEF Loses
<1>v. /\ len' = len /\ free' = free /\ map' = map /\ list' = list /\ cache' = cache
      /\ cached' = cached /\ parked' = parked /\ bytes' = bytes /\ live' = live
      /\ sweeping' = sweeping /\ UNCHANGED tiers
  BY DEF Loses, tiers
<1>n. /\ OthersWait(t) /\ LocalTypes' /\ pc'[t] = "idle" /\ cur'[t] = None /\ want'[t] = 0
      /\ class'[t] = 0 /\ node'[t] = None
  BY <1>u, WentIdle
<1>o. \A u \in Threads : u # t => pc'[u] = pc[u] /\ cur'[u] = cur[u] /\ want'[u] = want[u]
  BY <1>n DEF OthersWait
<1>1. PICK kind2 : kind2 = [g \in Chunks |-> IF g \in a .. b THEN "lost" ELSE kind[g]]
  OBVIOUS
<1>2. PICK size2 : size2 = [g \in Chunks |-> IF g \in a .. b THEN 1 ELSE size[g]]
  OBVIOUS
<1>k. /\ \A g \in Chunks : kind2[g] = IF g \in a .. b THEN "lost" ELSE kind[g]
      /\ \A g \in Chunks : size2[g] = IF g \in a .. b THEN 1 ELSE size[g]
      /\ MapType(kind2, who, size2)
  <2>1. \A g \in Chunks : kind[g] \in Kinds /\ size[g] \in Nat /\ "lost" \in Kinds
    BY <1>0 DEF MapType, Kinds
  <2>2. kind2 \in [Chunks -> Kinds] /\ size2 \in [Chunks -> Nat]
    BY <2>1, <1>1, <1>2
  <2>. QED
    BY <2>2, <1>0, <1>1, <1>2 DEF MapType
<1>3. \A g \in Chunks : g \in a .. b /\ kind[g] # "none" =>
          g = a /\ kind[a] \in {"fresh", "tail", "cur"} /\ who[a] = t
  <2>. SUFFICES ASSUME NEW g \in Chunks, g \in a .. b, kind[g] # "none"
                PROVE  g = a /\ kind[a] \in {"fresh", "tail", "cur"} /\ who[a] = t
    OBVIOUS
  <2>0. Busy(kind, g) /\ size[g] \in Nat /\ g \in Nat
    BY <1>0, ChunkIs DEF Busy, MapType
  <2>1. size[g] >= 1 /\ g <= cursor
    BY <2>0, <1>0 DEF Tiles, TypeOK
  <2>2. CASE a = cursor + 1 \/ b = 0
    BY <2>0, <2>1, <2>2, <1>u DEF TypeOK
  <2>3. CASE /\ a \in Chunks /\ kind[a] \in {"fresh", "tail", "cur"} /\ who[a] = t
             /\ b = a + size[a] - 1 /\ cursor' = cursor
    <3>1. Busy(kind, a) /\ size[a] \in Nat
      BY <2>3, <1>0 DEF Busy, MapType
    <3>2. a < g => a + size[a] <= g
      BY <2>0, <2>3, <3>1, <1>0 DEF Tiles
    <3>3. g = a
      BY <2>0, <2>3, <3>1, <3>2, <1>u
    <3>. QED
      BY <2>3, <3>3
  <2>. QED
    BY <2>2, <2>3, <1>u
<1>4. Tiles(kind2, size2, cursor')
  <2>0. /\ size \in [Chunks -> Nat] /\ size2 \in [Chunks -> Nat] /\ cursor \in Nat
    BY <1>0, <1>k DEF MapType, TypeOK
  <2>1. \A g \in Chunks : Busy(kind2, g) <=> Busy(kind, g) \/ g \in a .. b
    BY <1>k DEF Busy
  <2>5. /\ Tiles(kind, size, cursor) /\ a \in Nat /\ b \in Nat /\ a >= 1 /\ b <= Region
        /\ cursor' \in Nat /\ cursor <= cursor'
        /\ \A g \in Chunks : size2[g] = IF g \in a .. b THEN 1 ELSE size[g]
    BY <1>0, <1>k, <1>u
  <2>2. CASE b = 0 /\ cursor' = cursor
    <3>1. \A g \in Chunks : g \notin a .. b
      BY <2>2, <1>u
    <3>2. /\ \A g \in Chunks : Busy(kind2, g) <=> Busy(kind, g)
          /\ \A g \in Chunks : Busy(kind, g) => size2[g] = size[g]
      BY <3>1, <2>1, <1>k
    <3>. QED
      BY <3>2, <2>2, <1>0, TilesStay
  <2>3. CASE /\ a \in Chunks /\ kind[a] \in {"fresh", "tail", "cur"} /\ who[a] = t
             /\ b = a + size[a] - 1 /\ cursor' = cursor
    <3>1. Busy(kind, a)
      BY <2>3 DEF Busy
    <3>2. b <= cursor'
      BY <3>1, <2>3, <1>0 DEF Tiles
    <3>. QED
      BY <2>0, <2>1, <2>3, <2>5, <3>1, <3>2, TilesCrumble
  <2>4. CASE a = cursor + 1 /\ b = Region /\ Region <= cursor'
    <3>1. b <= cursor'
      BY <2>4
    <3>. QED
      BY <2>0, <2>1, <2>4, <2>5, <3>1, TilesCrumble
  <2>. QED
    BY <2>2, <2>3, <2>4, <1>u
<1>5. Around(kind, who, kind2, who, t)
  <2>1. ASSUME NEW g \in Chunks, kind[g] \in SpanKinds \/ kind2[g] \in SpanKinds
        PROVE  \/ kind2[g] = kind[g] /\ (g \in magic => g \in magic')
               \/ kind[g] = "cur" /\ who[g] = t /\ kind2[g] = "lost"
    <3>1. CASE g \in a .. b
      BY <2>1, <3>1, <1>3, <1>k DEF SpanKinds
    <3>2. CASE g \notin a .. b
      <4>1. a <= b => g # a
        BY <3>2, <1>u
      <4>. QED
        BY <3>2, <4>1, <1>k, <1>u
    <3>. QED
      BY <3>1, <3>2
  <2>2. HoldsCur(t) => pc[t] = "coalesce" /\ kind2[cur[t]] # "cur"
    <3>1. CurAt(kind, who)
      BY Unfold
    <3>2. ASSUME HoldsCur(t) PROVE kind2[cur[t]] # "cur"
      <4>1. cur[t] \in Chunks /\ cur[t] \in a .. b
        BY <3>1, <3>2, <1>u DEF CurAt
      <4>. QED
        BY <4>1, <1>k
    <3>. QED
      BY <3>2, <1>u
  <2>3. ~HoldsCur(t)' /\ ~HoldsNode(t)'
    BY <1>n DEF HoldsCur, HoldsNode
  <2>4. pc'[t] \notin Extends /\ pc'[t] # "mergeAbsorb"
    BY <1>n DEF Extends
  <2>5. HandsOf(t)'
    BY <1>n DEF HandsOf, LocalOK, HandOK, CeilingOK, Sweeps, Frees
  <2>. QED
    BY <2>1, <2>2, <2>3, <2>4, <2>5, <1>n, <1>u, <1>v DEF Around
<1>6. /\ LiveAt(kind2)' /\ ListAt(kind2, who)' /\ ParkedAt(kind2, who)'
      /\ CacheAt(kind2, who)' /\ CurAt(kind2, who)' /\ NodeAt(kind2, who)'
      /\ MarkAt(kind2)' /\ LengthAt(kind2, who)' /\ GrowAt(kind2)'
      /\ KeptOK(kind2, who)' /\ CountOK(kind2, who)' /\ (bytes <= Ceiling)'
      /\ \A u \in Threads : HandsOf(u)'
  BY <1>5, AroundStep
<1>7. \A g \in Chunks : kind[g] \in {"fresh", "tail"} =>
          (who[g] = t <=> g \in a .. b) /\ (kind2[g] = kind[g] <=> who[g] # t)
  <2>. SUFFICES ASSUME NEW g \in Chunks, kind[g] \in {"fresh", "tail"}
                PROVE  who[g] = t <=> g \in a .. b
    BY <1>k
  <2>1. g \in a .. b => who[g] = t
    BY <1>3
  <2>2. ASSUME who[g] = t PROVE g \in a .. b
    <3>1. CASE kind[g] = "fresh"
      <4>1. pc[t] = "commit" /\ cur[t] = g
        BY <2>2, <3>1, <1>0 DEF FreshAt
      <4>. QED
        BY <4>1, <1>u
    <3>2. CASE kind[g] = "tail"
      <4>1. pc[t] = "extendCommit" /\ cur[t] + len[cur[t]] = g
        BY <2>2, <3>2, <1>0 DEF TailAt
      <4>. QED
        BY <4>1, <1>u
    <3>. QED
      BY <3>1, <3>2
  <2>. QED
    BY <2>1, <2>2
<1>8. \A g \in Chunks : kind2[g] \in {"fresh", "tail"} => kind[g] = kind2[g] /\ who[g] # t
  BY <1>7, <1>k
<1>9. FreshAt(kind2, who)'
  <2>1. ASSUME NEW u \in Threads, pc'[u] = "commit", cur'[u] \in Chunks
        PROVE  kind2[cur'[u]] = "fresh" /\ who[cur'[u]] = u
    BY <2>1, <1>0, <1>7, <1>n, <1>o DEF FreshAt
  <2>2. ASSUME NEW g \in Chunks, kind2[g] = "fresh"
        PROVE  who[g] \in Threads /\ pc'[who[g]] = "commit" /\ cur'[who[g]] = g
    BY <2>2, <1>0, <1>8, <1>o DEF FreshAt
  <2>. QED
    BY <2>1, <2>2 DEF FreshAt
<1>10. TailAt(kind2, who)'
  <2>1. ASSUME NEW u \in Threads, pc'[u] = "extendCommit"
        PROVE  /\ cur'[u] + len[cur'[u]] \in Chunks
               /\ kind2[cur'[u] + len[cur'[u]]] = "tail" /\ who[cur'[u] + len[cur'[u]]] = u
    BY <2>1, <1>0, <1>7, <1>n, <1>o DEF TailAt
  <2>2. ASSUME NEW g \in Chunks, kind2[g] = "tail"
        PROVE  who[g] \in Threads /\ pc'[who[g]] = "extendCommit"
               /\ cur'[who[g]] + len[cur'[who[g]]] = g
    BY <2>2, <1>0, <1>8, <1>o DEF TailAt
  <2>. QED
    BY <2>1, <2>2, <1>v DEF TailAt
<1>11. LostAt(kind2)'
  BY <1>0, <1>k, <1>u DEF LostAt
<1>12. SizeAt(kind2, who, size2)'
  <2>1. ASSUME NEW g \in Chunks, g \notin a .. b
        PROVE  /\ kind2[g] \in SpanKinds => size2[g] = len'[g]
               /\ kind2[g] = "fresh" => size2[g] = want'[who[g]]
               /\ kind2[g] = "tail" => size2[g] = want'[who[g]] - len'[cur'[who[g]]]
               /\ kind2[g] = "lost" => size2[g] = 1
    <3>1. kind2[g] = kind[g] /\ size2[g] = size[g]
      BY <2>1, <1>k
    <3>2. kind2[g] = "fresh" => want'[who[g]] = want[who[g]]
      BY <1>0, <1>8, <1>o DEF FreshAt
    <3>3. kind2[g] = "tail" => want'[who[g]] = want[who[g]] /\ cur'[who[g]] = cur[who[g]]
      BY <1>0, <1>8, <1>o DEF TailAt
    <3>. QED
      BY <3>1, <3>2, <3>3, <1>0, <1>v DEF SizeAt
  <2>2. ASSUME NEW g \in Chunks, g \in a .. b
        PROVE  kind2[g] = "lost" /\ size2[g] = 1
    BY <2>2, <1>k
  <2>3. "lost" \notin SpanKinds
    BY DEF SpanKinds
  <2>. QED
    BY <2>1, <2>2, <2>3 DEF SizeAt
<1>t. TypeOK'
  <2>1. lost' \subseteq Chunks
    <3>1. a .. b \subseteq Chunks
      BY <1>u, ChunkIs, Bounds
    <3>. QED
      BY <3>1, <1>u DEF TypeOK
  <2>2. magic' \subseteq Chunks
    BY <1>u DEF TypeOK
  <2>. QED
    BY <2>1, <2>2, <1>n, <1>u, <1>v DEF TypeOK, LocalTypes
<1>. QED
  <2>1. MapType(kind2, who, size2)' /\ Tiles(kind2, size2, cursor)'
    BY <1>4, <1>k DEF MapType
  <2>2. PoolOK(kind2, who, size2)'
    BY <2>1, <1>6, <1>9, <1>10, <1>11, <1>12, <1>u
       DEF PoolOK, MapOK, Seats, Hands, HandsOf
  <2>. QED
    BY <2>2, <1>t

LEMMA TakeChunksNoneInv ==
    ASSUME NEW kind, NEW who, NEW size, TypeOK, PoolOK(kind, who, size), UNCHANGED setup,
           NEW t \in Threads, ~(Fits(want[t]) /\ cursor + want[t] <= CursorBound), TakeChunks(t)
    PROVE  TypeOK' /\ \E k, w, s : PoolOK(k, w, s)'
<1>0. HandsOf(t) /\ Locks
  BY Unfold
<1>1. /\ pc[t] = "fresh" /\ Go(t, "idle", None, 0) /\ cursor' = cursor /\ lost' = lost
      /\ magic' = magic /\ lock' = lock /\ UNCHANGED <<len, free, map, list, tiers, live, sweeping>>
  BY DEF TakeChunks, Idle, pool
<1>2. class[t] = 0 /\ node[t] = None /\ cur[t] = None /\ ~HoldsCur(t) /\ ~HoldsNode(t)
  BY <1>0, <1>1 DEF HandsOf, LocalOK, Sweeps, HoldsCur, HoldsNode
<1>3. OthersWait(t) /\ pc'[t] = "idle" /\ class'[t] = class[t] /\ cur'[t] = None
  BY <1>1, WentIdle
<1>4. lock' \in Threads \cup {None} /\ Locks'
  BY <1>0, <1>1, <1>2, <1>3 DEF Locks, OthersWait
<1>5. lost' = lost \cup (1 .. 0) /\ cursor \in Nat /\ 0 <= Region
  BY <1>1, Bounds DEF TypeOK
<1>6. Loses(kind, who, size, t, 1, 0)
  BY <1>1, <1>2, <1>4, <1>5 DEF Loses
<1>. QED
  BY <1>6, LoseInv

LEMMA CommitRefusedInv ==
    ASSUME NEW kind, NEW who, NEW size, TypeOK, PoolOK(kind, who, size), UNCHANGED setup,
           NEW t \in Threads, CommitRefused(t)
    PROVE  TypeOK' /\ \E k, w, s : PoolOK(k, w, s)'
<1>0. HandsOf(t) /\ Locks /\ FreshAt(kind, who) /\ SizeAt(kind, who, size)
  BY Unfold
<1>h. PICK h : h = cur[t]
  OBVIOUS
<1>w. PICK n : n = want[t]
  OBVIOUS
<1>1. /\ pc[t] = "commit" /\ Go(t, "idle", None, 0) /\ cursor' = cursor
      /\ lost' = lost \cup Stretch(h, n)
      /\ magic' = magic /\ lock' = lock /\ UNCHANGED <<len, free, map, list, tiers, live, sweeping>>
  BY <1>h, <1>w DEF CommitRefused, Idle, pool
<1>2. /\ class[t] = 0 /\ node[t] = None /\ ~HoldsCur(t) /\ ~HoldsNode(t) /\ h \in Nat /\ h >= 1
      /\ n \in Nat /\ n >= 1 /\ (h <= Region => h + n - 1 <= Region)
  BY <1>0, <1>1, <1>h, <1>w
     DEF HandsOf, LocalOK, Sweeps, HoldsCur, HoldsNode, Frees, TypeOK
<1>3. OthersWait(t) /\ pc'[t] = "idle" /\ class'[t] = class[t] /\ cur'[t] = None
  BY <1>1, WentIdle
<1>4. lock' \in Threads \cup {None} /\ Locks'
  BY <1>0, <1>1, <1>2, <1>3 DEF Locks, OthersWait
<1>5. CASE h <= Region
  <2>1. h \in Chunks /\ kind[h] = "fresh" /\ who[h] = t /\ size[h] = n
    BY <1>5, <1>0, <1>1, <1>2, <1>h, <1>w, ChunkIs DEF FreshAt, SizeAt
  <2>2. PICK b : b = h + n - 1
    OBVIOUS
  <2>3. b \in Nat /\ b <= Region /\ h <= b /\ b = h + size[h] - 1 /\ Stretch(h, n) = h .. b
    <3>1. b \in Nat /\ b <= Region /\ h <= b /\ b = h + size[h] - 1
      BY <2>1, <2>2, <1>2, <1>5
    <3>2. \A c \in h .. b : c \in Chunks
      BY <3>1, <1>2, ChunkIs, Bounds
    <3>. QED
      BY <3>1, <3>2, <2>2 DEF Stretch
  <2>4. Loses(kind, who, size, t, h, b)
    BY <2>1, <2>3, <1>1, <1>2, <1>4, <1>h DEF Loses, TypeOK
  <2>. QED
    BY <2>4, LoseInv
<1>6. CASE ~(h <= Region)
  <2>1. Stretch(h, n) = 1 .. 0 /\ h \notin Chunks
    <3>1. \A c \in Chunks : c \in Nat /\ c <= Region
      BY ChunkIs
    <3>2. \A c \in h .. h + n - 1 : c \notin Chunks
      BY <3>1, <1>2, <1>6, Bounds
    <3>. QED
      BY <3>2, <1>6, <1>2, ChunkIs DEF Stretch
  <2>2. Loses(kind, who, size, t, 1, 0)
    BY <2>1, <1>1, <1>2, <1>4, <1>h, Bounds DEF Loses, TypeOK
  <2>. QED
    BY <2>2, LoseInv
<1>. QED
  BY <1>5, <1>6

LEMMA ExtendRefusedInv ==
    ASSUME NEW kind, NEW who, NEW size, TypeOK, PoolOK(kind, who, size), UNCHANGED setup,
           NEW t \in Threads, ExtendRefused(t)
    PROVE  TypeOK' /\ \E k, w, s : PoolOK(k, w, s)'
<1>0. HandsOf(t) /\ Locks /\ TailAt(kind, who) /\ SizeAt(kind, who, size)
  BY Unfold
<1>h. PICK a : a = cur[t] + len[cur[t]]
  OBVIOUS
<1>w. PICK b : b = cur[t] + want[t] - 1
  OBVIOUS
<1>1. /\ pc[t] = "extendCommit" /\ Go(t, "idle", None, 0) /\ cursor' = cursor
      /\ lost' = lost \cup (a .. b)
      /\ magic' = magic /\ lock' = lock /\ UNCHANGED <<len, free, map, list, tiers, live, sweeping>>
  BY <1>h, <1>w DEF ExtendRefused, Idle, pool
<1>2. /\ class[t] = 0 /\ node[t] = None /\ ~HoldsCur(t) /\ ~HoldsNode(t) /\ cur[t] \in Chunks
      /\ len[cur[t]] < want[t] /\ want[t] \in Nat
  BY <1>0, <1>1 DEF HandsOf, LocalOK, HandOK, Sweeps, HoldsCur, HoldsNode, Frees, TypeOK
<1>3. OthersWait(t) /\ pc'[t] = "idle" /\ class'[t] = class[t] /\ cur'[t] = None
  BY <1>1, WentIdle
<1>4. lock' \in Threads \cup {None} /\ Locks'
  BY <1>0, <1>1, <1>2, <1>3 DEF Locks, OthersWait
<1>5. a \in Chunks /\ kind[a] = "tail" /\ who[a] = t /\ size[a] = want[t] - len[cur[t]]
  BY <1>0, <1>1, <1>h DEF TailAt, SizeAt
<1>6. a \in Nat /\ b \in Nat /\ a >= 1 /\ a <= b /\ b = a + size[a] - 1
  <2>1. cur[t] \in Nat /\ cur[t] >= 1 /\ len[cur[t]] \in Nat
    BY <1>2, ChunkIs DEF TypeOK
  <2>. QED
    BY <2>1, <1>2, <1>5, <1>h, <1>w, ChunkIs
<1>7. b <= Region /\ cursor \in Nat
  BY <1>5, <1>6, Unfold DEF Tiles, Busy, TypeOK
<1>8. Loses(kind, who, size, t, a, b)
  BY <1>1, <1>2, <1>4, <1>5, <1>6, <1>7, <1>h DEF Loses
<1>. QED
  BY <1>8, LoseInv

LEMMA RelistLosesInv ==
    ASSUME NEW kind, NEW who, NEW size, TypeOK, PoolOK(kind, who, size), UNCHANGED setup,
           NEW t \in Threads, ~(len[cur[t]] <= MaxSpan), Relist(t)
    PROVE  TypeOK' /\ \E k, w, s : PoolOK(k, w, s)'
<1>0. HandsOf(t) /\ Locks /\ CurAt(kind, who)
  BY Unfold
<1>h. PICK h : h = cur[t]
  OBVIOUS
<1>c. pc[t] = "coalesce" /\ lock' = None /\ Go(t, "idle", None, 0)
  BY DEF Relist, Idle
<1>2. /\ class[t] = 0 /\ node[t] = None /\ HoldsCur(t) /\ ~HoldsNode(t) /\ h \in Chunks
  BY <1>0, <1>c, <1>h, Bounds DEF HandsOf, LocalOK, Sweeps, HoldsCur, HoldsNode, Frees
<1>5. kind[h] = "cur" /\ who[h] = t /\ kind[h] \in SpanKinds
  BY <1>0, <1>2, <1>h DEF CurAt, SpanKinds
<1>6. len[h] \in Nat /\ len[h] >= 1 /\ size[h] = len[h] /\ h + len[h] - 1 <= Region
  BY <1>2, <1>5, SpanIs
<1>w. PICK b : b = h + len[h] - 1
  OBVIOUS
<1>1. /\ magic' = magic \ {h} /\ lost' = lost \cup (h .. b) /\ cursor' = cursor
      /\ UNCHANGED <<len, free, map, list, tiers, live, sweeping>>
  <2>1. len[cur[t]] > MaxSpan
    BY <1>6, <1>h, Bounds
  <2>. QED
    BY <2>1, <1>h, <1>w DEF Relist
<1>3. OthersWait(t) /\ pc'[t] = "idle" /\ class'[t] = class[t] /\ cur'[t] = None
  BY <1>c, WentIdle
<1>4. lock' \in Threads \cup {None} /\ Locks'
  BY <1>0, <1>1, <1>2, <1>3, <1>c, Bounds DEF Locks, OthersWait
<1>7. h \in Nat /\ h >= 1 /\ b \in Nat /\ h <= b /\ b <= Region /\ b = h + size[h] - 1
      /\ cursor \in Nat
  BY <1>2, <1>6, <1>w, ChunkIs DEF TypeOK
<1>8. Loses(kind, who, size, t, h, b)
  BY <1>1, <1>2, <1>4, <1>5, <1>7, <1>c, <1>h DEF Loses
<1>. QED
  BY <1>8, LoseInv

LEMMA ExtendCursorOverInv ==
    ASSUME NEW kind, NEW who, NEW size, TypeOK, PoolOK(kind, who, size), UNCHANGED setup,
           NEW t \in Threads, ~AtCursor(cur[t]) \/ cur[t] + want[t] - 1 > Region, ExtendCursor(t)
    PROVE  TypeOK' /\ \E k, w, s : PoolOK(k, w, s)'
<1>0. HandsOf(t) /\ Locks
  BY Unfold
<1>1. /\ pc[t] = "extend" /\ Go(t, "idle", None, 0) /\ lock' = None
      /\ magic' = magic /\ UNCHANGED <<len, free, map, list, tiers, live, sweeping>>
      /\ len[cur[t]] < want[t]
  BY DEF ExtendCursor, Idle, pool
<1>2. /\ class[t] = 0 /\ node[t] = None /\ ~HoldsCur(t) /\ ~HoldsNode(t) /\ cur[t] \in Chunks
      /\ want[t] \in Nat
  BY <1>0, <1>1 DEF HandsOf, LocalOK, Sweeps, HoldsCur, HoldsNode, Frees, TypeOK
<1>3. OthersWait(t) /\ pc'[t] = "idle" /\ class'[t] = class[t] /\ cur'[t] = None
  BY <1>1, WentIdle
<1>4. lock' \in Threads \cup {None} /\ Locks'
  BY <1>0, <1>1, <1>2, <1>3, Bounds DEF Locks, OthersWait
<1>5. CASE ~AtCursor(cur[t])
  <2>1. lost' = lost \cup (1 .. 0) /\ cursor' = cursor /\ cursor \in Nat /\ 0 <= Region
    BY <1>5, Bounds DEF ExtendCursor, TypeOK
  <2>2. Loses(kind, who, size, t, 1, 0)
    BY <2>1, <1>1, <1>2, <1>4 DEF Loses
  <2>. QED
    BY <2>2, LoseInv
<1>6. CASE AtCursor(cur[t])
  <2>0. cur[t] \in Nat /\ len[cur[t]] \in Nat /\ cursor \in Nat
    BY <1>2, ChunkIs DEF TypeOK
  <2>1. cur[t] + want[t] - 1 > Region /\ cursor = cur[t] + len[cur[t]] - 1
    BY <1>6 DEF AtCursor
  <2>2. cursor' = cur[t] + want[t] - 1 /\ lost' = lost \cup (cur[t] + len[cur[t]] - 1 + 1 .. Region)
    BY <1>6, <2>1 DEF ExtendCursor
  <2>3. /\ cursor' \in Nat /\ cursor <= cursor' /\ Region <= cursor' /\ Region \in Nat
        /\ lost' = lost \cup (cursor + 1 .. Region) /\ cursor + 1 \in Nat /\ cursor + 1 >= 1
    BY <2>0, <2>1, <2>2, <1>1, <1>2, Bounds
  <2>4. Loses(kind, who, size, t, cursor + 1, Region)
    BY <2>3, <1>1, <1>2, <1>4 DEF Loses
  <2>. QED
    BY <2>4, LoseInv
<1>. QED
  BY <1>5, <1>6

(* New chunks are taken, for a span or for the tail of one.                 *)
Takes(t, b, n) ==
    /\ n \in Nat /\ n >= 1 /\ cursor' = cursor + n
    /\ cursor + n <= Region \/ (Region < cursor /\ b = "fresh")
    /\ \/ b = "fresh" /\ pc[t] = "fresh" /\ Go(t, "commit", cursor + 1, n)
       \/ /\ b = "tail" /\ pc[t] = "extend" /\ Go(t, "extendCommit", cur[t], want[t])
          /\ cur[t] \in Chunks /\ cursor + 1 = cur[t] + len[cur[t]] /\ n = want[t] - len[cur[t]]
    /\ class[t] = 0 /\ node[t] = None /\ ~HoldsCur(t) /\ ~HoldsNode(t)
    /\ UNCHANGED <<pool, tiers, live, lost, sweeping>>
    /\ lock' \in Threads \cup {None} /\ Locks'

LEMMA TakesInv ==
    ASSUME NEW kind, NEW who, NEW size, TypeOK, PoolOK(kind, who, size), UNCHANGED setup,
           NEW t \in Threads, NEW b, NEW n, Takes(t, b, n)
    PROVE  TypeOK' /\ \E k, w, s : PoolOK(k, w, s)'
<1>0. /\ MapType(kind, who, size) /\ Tiles(kind, size, cursor) /\ SizeAt(kind, who, size)
      /\ FreshAt(kind, who) /\ TailAt(kind, who) /\ LostAt(kind)
  BY Unfold
<1>u. /\ n \in Nat /\ n >= 1 /\ cursor' = cursor + n
      /\ cursor + n <= Region \/ (Region < cursor /\ b = "fresh")
      /\ \/ b = "fresh" /\ pc[t] = "fresh" /\ Go(t, "commit", cursor + 1, n)
         \/ /\ b = "tail" /\ pc[t] = "extend" /\ Go(t, "extendCommit", cur[t], want[t])
            /\ cur[t] \in Chunks /\ cursor + 1 = cur[t] + len[cur[t]] /\ n = want[t] - len[cur[t]]
      /\ class[t] = 0 /\ node[t] = None /\ ~HoldsCur(t) /\ ~HoldsNode(t)
      /\ lock' \in Threads \cup {None} /\ Locks'
  BY DEF Takes
<1>v. /\ len' = len /\ magic' = magic /\ free' = free /\ map' = map /\ list' = list
      /\ cache' = cache /\ cached' = cached /\ parked' = parked /\ bytes' = bytes
      /\ live' = live /\ lost' = lost /\ sweeping' = sweeping /\ UNCHANGED tiers
  BY DEF Takes, pool, tiers
<1>c. cursor \in Nat /\ want[t] \in Nat /\ (\A g \in Chunks : len[g] \in Nat)
  BY DEF TypeOK
<1>a. PICK a : a = cursor + 1
  OBVIOUS
<1>n. /\ OthersWait(t) /\ LocalTypes' /\ class'[t] = 0 /\ node'[t] = None
      /\ \/ b = "fresh" /\ pc[t] = "fresh" /\ pc'[t] = "commit" /\ cur'[t] = a /\ want'[t] = n
         \/ /\ b = "tail" /\ pc[t] = "extend" /\ pc'[t] = "extendCommit"
            /\ cur'[t] = cur[t] /\ want'[t] = want[t]
            /\ cur[t] \in Chunks /\ a = cur[t] + len[cur[t]] /\ n = want[t] - len[cur[t]]
  <2>1. CASE b = "fresh" /\ pc[t] = "fresh" /\ Go(t, "commit", cursor + 1, n)
    <3>1. "commit" \in Steps /\ a \in Nat \cup {None} /\ Go(t, "commit", a, n)
      BY <2>1, <1>a, <1>c DEF Steps
    <3>. QED
      BY <2>1, <3>1, <1>u, Went
  <2>2. CASE /\ b = "tail" /\ pc[t] = "extend" /\ Go(t, "extendCommit", cur[t], want[t])
             /\ cur[t] \in Chunks /\ cursor + 1 = cur[t] + len[cur[t]]
             /\ n = want[t] - len[cur[t]]
    <3>1. "extendCommit" \in Steps /\ cur[t] \in Nat \cup {None} /\ want[t] \in Nat
      BY <2>2, <1>c, ChunkIs DEF Steps
    <3>2. Go(t, "extendCommit", cur[t], want[t])
      BY <2>2
    <3>3. /\ OthersWait(t) /\ LocalTypes'
          /\ pc'[t] = "extendCommit" /\ cur'[t] = cur[t] /\ want'[t] = want[t]
          /\ class'[t] = class[t] /\ node'[t] = node[t]
      BY <3>1, <3>2, Went
    <3>4. class[t] = 0 /\ node[t] = None
      BY <1>u
    <3>. QED
      BY <2>2, <3>3, <3>4, <1>a
  <2>. QED
    BY <2>1, <2>2, <1>u
<1>o. \A u \in Threads : u # t => pc'[u] = pc[u] /\ cur'[u] = cur[u] /\ want'[u] = want[u]
  BY <1>n DEF OthersWait
<1>1. PICK kind2 : kind2 = [kind EXCEPT ![a] = b]
  OBVIOUS
<1>2. PICK who2 : who2 = [who EXCEPT ![a] = t]
  OBVIOUS
<1>3. PICK size2 : size2 = [size EXCEPT ![a] = n]
  OBVIOUS
<1>k. /\ \A g \in Chunks : g # a => kind2[g] = kind[g] /\ who2[g] = who[g] /\ size2[g] = size[g]
      /\ a \in Chunks => kind2[a] = b /\ who2[a] = t /\ size2[a] = n
      /\ MapType(kind2, who2, size2) /\ b \in {"fresh", "tail"}
  <2>1. b \in {"fresh", "tail"} /\ b \in Kinds
    BY <1>n DEF Kinds
  <2>. QED
    BY <2>1, <1>0, <1>1, <1>2, <1>3, <1>u DEF MapType
<1>4. /\ Tiles(kind2, size2, cursor') /\ cursor' \in Nat
      /\ a \in Chunks => kind[a] = "none" /\ cursor + n <= Region
      /\ b = "tail" => a \in Chunks
  <2>0. /\ size \in [Chunks -> Nat] /\ size2 \in [Chunks -> Nat] /\ cursor' \in Nat
    BY <1>0, <1>c, <1>k, <1>u DEF MapType
  <2>1. CASE cursor + n <= Region
    <3>1. a \in Chunks
      BY <2>1, <1>a, <1>c, <1>u, ChunkIs, Bounds
    <3>2. /\ \A g \in Chunks : Busy(kind2, g) <=> Busy(kind, g) \/ g = cursor + 1
          /\ cursor + 1 \in Chunks => size2[cursor + 1] = n
          /\ \A g \in Chunks : g # cursor + 1 => size2[g] = size[g]
      BY <3>1, <1>a, <1>k DEF Busy
    <3>3. Tiles(kind2, size2, cursor + n) /\ ~Busy(kind, cursor + 1)
      BY <2>0, <2>1, <3>2, <1>0, <1>c, <1>u, TilesAdd
    <3>. QED
      BY <2>0, <2>1, <3>1, <3>3, <1>a, <1>u DEF Busy
  <2>2. CASE Region < cursor /\ b = "fresh"
    <3>1. a \notin Chunks
      BY <2>2, <1>a, <1>c, ChunkIs, Bounds
    <3>2. Tiles(kind2, size2, cursor)
      <4>1. \A g \in Chunks : g # a
        BY <3>1
      <4>2. /\ \A g \in Chunks : Busy(kind2, g) <=> Busy(kind, g)
            /\ \A g \in Chunks : Busy(kind, g) => size2[g] = size[g]
        BY <4>1, <1>k DEF Busy
      <4>. QED
        BY <4>2, <1>0, TilesStay
    <3>3. Region <= cursor
      BY <2>2, <1>c, Bounds
    <3>4. Tiles(kind2, size2, cursor + n)
      BY <2>0, <3>2, <3>3, <1>c, <1>u, TilesPast
    <3>. QED
      BY <2>0, <2>2, <3>1, <3>4, <1>u
  <2>. QED
    BY <2>1, <2>2, <1>u
<1>5. Around(kind, who, kind2, who2, t)
  <2>1. ASSUME NEW g \in Chunks, kind[g] \in SpanKinds \/ kind2[g] \in SpanKinds
        PROVE  kind2[g] = kind[g] /\ who2[g] = who[g]
    <3>1. g # a
      BY <2>1, <1>4, <1>k DEF SpanKinds
    <3>. QED
      BY <3>1, <1>k
  <2>2. ~HoldsCur(t)' /\ ~HoldsNode(t)'
    BY <1>n DEF HoldsCur, HoldsNode, Frees
  <2>3. pc'[t] # "mergeAbsorb" /\ pc[t] # "mergeAbsorb"
        /\ (pc'[t] \in Extends => pc[t] \in Extends /\ cur'[t] = cur[t] /\ want'[t] = want[t])
    BY <1>n DEF Extends
  <2>4. HandsOf(t)'
    <3>1. CASE pc'[t] = "commit" /\ cur'[t] = a /\ want'[t] = n
      <4>1. a \in Nat /\ a >= 1 /\ (a <= Region => a + n - 1 <= Region)
        BY <1>4, <1>a, <1>c, <1>u, ChunkIs
      <4>. QED
        BY <3>1, <4>1, <1>n, <1>u DEF HandsOf, LocalOK, HandOK, CeilingOK, Sweeps, Frees
    <3>2. CASE /\ pc'[t] = "extendCommit" /\ cur'[t] = cur[t] /\ want'[t] = want[t]
               /\ cur[t] \in Chunks /\ n = want[t] - len[cur[t]]
      <4>1. want[t] >= 1 /\ len[cur[t]] < want[t]
        BY <3>2, <1>c, <1>u
      <4>. QED
        BY <3>2, <4>1, <1>n, <1>v DEF HandsOf, LocalOK, HandOK, CeilingOK, Sweeps, Frees
    <3>. QED
      BY <3>1, <3>2, <1>n
  <2>5. cursor <= cursor' /\ UNCHANGED <<len, free, map, list, tiers, live>>
    BY <1>c, <1>u, <1>v
  <2>. QED
    BY <2>1, <2>2, <2>3, <2>4, <2>5, <1>4, <1>n, <1>u, <1>v DEF Around
<1>6. /\ LiveAt(kind2)' /\ ListAt(kind2, who2)' /\ ParkedAt(kind2, who2)'
      /\ CacheAt(kind2, who2)' /\ CurAt(kind2, who2)' /\ NodeAt(kind2, who2)'
      /\ MarkAt(kind2)' /\ LengthAt(kind2, who2)' /\ GrowAt(kind2)'
      /\ KeptOK(kind2, who2)' /\ CountOK(kind2, who2)' /\ (bytes <= Ceiling)'
      /\ \A u \in Threads : HandsOf(u)'
  BY <1>5, AroundStep
<1>7. FreshAt(kind2, who2)'
  <2>1. ASSUME NEW u \in Threads, pc'[u] = "commit", cur'[u] \in Chunks
        PROVE  kind2[cur'[u]] = "fresh" /\ who2[cur'[u]] = u
    <3>1. CASE u = t
      BY <2>1, <3>1, <1>k, <1>n
    <3>2. CASE u # t
      <4>1. kind[cur[u]] = "fresh" /\ who[cur[u]] = u /\ cur'[u] = cur[u] /\ cur[u] # a
        BY <2>1, <3>2, <1>0, <1>4, <1>o DEF FreshAt
      <4>. QED
        BY <2>1, <4>1, <1>k
    <3>. QED
      BY <3>1, <3>2
  <2>2. ASSUME NEW g \in Chunks, kind2[g] = "fresh"
        PROVE  who2[g] \in Threads /\ pc'[who2[g]] = "commit" /\ cur'[who2[g]] = g
    <3>1. CASE g = a
      BY <2>2, <3>1, <1>k, <1>n
    <3>2. CASE g # a
      <4>1. kind[g] = "fresh" /\ who2[g] = who[g]
        BY <2>2, <3>2, <1>k
      <4>2. who[g] \in Threads /\ pc[who[g]] = "commit" /\ cur[who[g]] = g
        BY <4>1, <1>0 DEF FreshAt
      <4>3. who[g] # t
        BY <4>2, <1>n
      <4>. QED
        BY <4>1, <4>2, <4>3, <1>o
    <3>. QED
      BY <3>1, <3>2
  <2>. QED
    BY <2>1, <2>2 DEF FreshAt
<1>8. TailAt(kind2, who2)'
  <2>1. ASSUME NEW u \in Threads, pc'[u] = "extendCommit"
        PROVE  /\ cur'[u] + len[cur'[u]] \in Chunks
               /\ kind2[cur'[u] + len[cur'[u]]] = "tail" /\ who2[cur'[u] + len[cur'[u]]] = u
    <3>1. CASE u = t
      BY <2>1, <3>1, <1>4, <1>k, <1>n
    <3>2. CASE u # t
      <4>1. PICK g : g = cur[u] + len[cur[u]]
        OBVIOUS
      <4>2. g \in Chunks /\ kind[g] = "tail" /\ who[g] = u /\ cur'[u] = cur[u]
        BY <2>1, <3>2, <4>1, <1>0, <1>o DEF TailAt
      <4>3. g # a
        BY <4>2, <1>4
      <4>. QED
        BY <4>1, <4>2, <4>3, <1>k
    <3>. QED
      BY <3>1, <3>2
  <2>2. ASSUME NEW g \in Chunks, kind2[g] = "tail"
        PROVE  /\ who2[g] \in Threads /\ pc'[who2[g]] = "extendCommit"
               /\ cur'[who2[g]] + len[cur'[who2[g]]] = g
    <3>1. CASE g = a
      BY <2>2, <3>1, <1>k, <1>n
    <3>2. CASE g # a
      <4>1. kind[g] = "tail" /\ who2[g] = who[g]
        BY <2>2, <3>2, <1>k
      <4>2. who[g] \in Threads /\ pc[who[g]] = "extendCommit" /\ cur[who[g]] + len[cur[who[g]]] = g
        BY <4>1, <1>0 DEF TailAt
      <4>3. who[g] # t
        BY <4>2, <1>n
      <4>. QED
        BY <4>1, <4>2, <4>3, <1>o
    <3>. QED
      BY <3>1, <3>2
  <2>. QED
    BY <2>1, <2>2, <1>v DEF TailAt
<1>9. LostAt(kind2)'
  BY <1>0, <1>4, <1>k, <1>v DEF LostAt
<1>10. SizeAt(kind2, who2, size2)'
  <2>. SUFFICES ASSUME NEW g \in Chunks
                PROVE  /\ kind2[g] \in SpanKinds => size2[g] = len[g]
                       /\ kind2[g] = "fresh" => size2[g] = want'[who2[g]]
                       /\ kind2[g] = "tail" => size2[g] = want'[who2[g]] - len[cur'[who2[g]]]
                       /\ kind2[g] = "lost" => size2[g] = 1
    BY <1>v DEF SizeAt
  <2>1. CASE g = a
    BY <2>1, <1>k, <1>n DEF SpanKinds
  <2>2. CASE g # a
    <3>1. kind2[g] = kind[g] /\ who2[g] = who[g] /\ size2[g] = size[g]
      BY <2>2, <1>k
    <3>2. kind[g] = "fresh" => want'[who[g]] = want[who[g]]
      <4>1. kind[g] = "fresh" => who[g] \in Threads /\ pc[who[g]] = "commit"
        BY <1>0 DEF FreshAt
      <4>. QED
        BY <4>1, <1>n, <1>o
    <3>3. kind[g] = "tail" => want'[who[g]] = want[who[g]] /\ cur'[who[g]] = cur[who[g]]
      <4>1. kind[g] = "tail" => who[g] \in Threads /\ pc[who[g]] = "extendCommit"
        BY <1>0 DEF TailAt
      <4>. QED
        BY <4>1, <1>n, <1>o
    <3>. QED
      BY <3>1, <3>2, <3>3, <1>0 DEF SizeAt
  <2>. QED
    BY <2>1, <2>2
<1>t. TypeOK'
  BY <1>4, <1>n, <1>u, <1>v DEF TypeOK, LocalTypes
<1>. QED
  <2>1. MapType(kind2, who2, size2)' /\ Tiles(kind2, size2, cursor)'
    BY <1>4, <1>k DEF MapType
  <2>2. PoolOK(kind2, who2, size2)'
    BY <2>1, <1>6, <1>7, <1>8, <1>9, <1>10, <1>u
       DEF PoolOK, MapOK, Seats, Hands, HandsOf
  <2>. QED
    BY <2>2, <1>t

LEMMA TakeChunksInv ==
    ASSUME NEW kind, NEW who, NEW size, TypeOK, PoolOK(kind, who, size), UNCHANGED setup,
           NEW t \in Threads, Fits(want[t]) /\ cursor + want[t] <= CursorBound, TakeChunks(t)
    PROVE  TypeOK' /\ \E k, w, s : PoolOK(k, w, s)'
<1>0. HandsOf(t) /\ Locks
  BY Unfold
<1>1. /\ pc[t] = "fresh" /\ Go(t, "commit", cursor + 1, want[t]) /\ cursor' = cursor + want[t]
      /\ lock' = lock /\ UNCHANGED <<pool, tiers, live, lost, sweeping>>
  BY DEF TakeChunks
<1>2. /\ class[t] = 0 /\ node[t] = None /\ cur[t] = None /\ ~HoldsCur(t) /\ ~HoldsNode(t)
      /\ want[t] \in Nat /\ want[t] >= 1 /\ cursor \in Nat
  BY <1>0, <1>1 DEF HandsOf, LocalOK, Sweeps, HoldsCur, HoldsNode, TypeOK
<1>3. OthersWait(t) /\ pc'[t] = "commit" /\ class'[t] = class[t]
  <2>1. "commit" \in Steps /\ cursor + 1 \in Nat \cup {None}
    BY <1>2 DEF Steps
  <2>. QED
    BY <2>1, <1>1, <1>2, Went
<1>4. lock' \in Threads \cup {None} /\ Locks'
  BY <1>0, <1>1, <1>2, <1>3 DEF Locks, OthersWait
<1>5. cursor + want[t] <= Region \/ Region < cursor
  BY <1>2, Bounds DEF Fits
<1>6. Takes(t, "fresh", want[t])
  BY <1>1, <1>2, <1>4, <1>5 DEF Takes
<1>. QED
  BY <1>6, TakesInv

LEMMA ExtendCursorInv ==
    ASSUME NEW kind, NEW who, NEW size, TypeOK, PoolOK(kind, who, size), UNCHANGED setup,
           NEW t \in Threads, AtCursor(cur[t]), ~(cur[t] + want[t] - 1 > Region), ExtendCursor(t)
    PROVE  TypeOK' /\ \E k, w, s : PoolOK(k, w, s)'
<1>0. HandsOf(t) /\ Locks
  BY Unfold
<1>1. /\ pc[t] = "extend" /\ Go(t, "extendCommit", cur[t], want[t]) /\ lock' = None
      /\ cursor' = cur[t] + want[t] - 1 /\ lost' = lost /\ len[cur[t]] < want[t]
      /\ UNCHANGED <<pool, tiers, live, sweeping>>
  BY DEF ExtendCursor, Step
<1>2. /\ class[t] = 0 /\ node[t] = None /\ ~HoldsCur(t) /\ ~HoldsNode(t) /\ cur[t] \in Chunks
      /\ want[t] \in Nat /\ len[cur[t]] \in Nat /\ cursor \in Nat
  BY <1>0, <1>1 DEF HandsOf, LocalOK, Sweeps, HoldsCur, HoldsNode, Frees, TypeOK
<1>3. OthersWait(t) /\ pc'[t] = "extendCommit" /\ class'[t] = class[t]
  <2>1. "extendCommit" \in Steps /\ cur[t] \in Nat \cup {None}
    BY <1>2, ChunkIs DEF Steps
  <2>. QED
    BY <2>1, <1>1, <1>2, Went
<1>4. lock' \in Threads \cup {None} /\ Locks'
  BY <1>0, <1>1, <1>2, <1>3, Bounds DEF Locks, OthersWait
<1>n. PICK n : n = want[t] - len[cur[t]]
  OBVIOUS
<1>5. /\ n \in Nat /\ n >= 1 /\ cursor' = cursor + n /\ cursor + n <= Region
      /\ cursor + 1 = cur[t] + len[cur[t]]
  <2>1. cur[t] \in Nat /\ Region \in Nat /\ cursor = cur[t] + len[cur[t]] - 1
    BY <1>2, ChunkIs, Bounds DEF AtCursor
  <2>. QED
    BY <2>1, <1>1, <1>2, <1>n
<1>6. Takes(t, "tail", n)
  BY <1>1, <1>2, <1>4, <1>5, <1>n DEF Takes
<1>. QED
  BY <1>6, TakesInv

(* New memory becomes the program's: a span, or the tail of one it has.     *)
Lands(kind, who, kind2, size, size2, t, h, n) ==
    /\ h \in Chunks /\ n \in Nat /\ n >= 1 /\ h + n - 1 <= Region
    /\ cur[t] = h /\ want[t] = n
    /\ \/ pc[t] = "commit" /\ kind[h] = "fresh"
       \/ pc[t] = "extendCommit" /\ kind[h] = "live"
    /\ kind2 = [g \in Chunks |-> IF g = h THEN "live"
                                 ELSE IF kind[g] = "tail" /\ who[g] = t THEN "none" ELSE kind[g]]
    /\ size2 = [size EXCEPT ![h] = n]
    /\ len' = [len EXCEPT ![h] = n] /\ live' = [live EXCEPT ![h] = n]
    /\ magic' = magic \cup {h} /\ Go(t, "idle", None, 0)
    /\ UNCHANGED <<cursor, free, map, list, tiers, sweeping, lock, lost>>

LEMMA LandsInv ==
    ASSUME NEW kind, NEW who, NEW size, TypeOK, PoolOK(kind, who, size), UNCHANGED setup,
           NEW t \in Threads, NEW h, NEW n, NEW kind2, NEW size2,
           Lands(kind, who, kind2, size, size2, t, h, n)
    PROVE  TypeOK' /\ PoolOK(kind2, who, size2)'
<1>0. /\ MapType(kind, who, size) /\ Tiles(kind, size, cursor) /\ SizeAt(kind, who, size)
      /\ LiveAt(kind) /\ ListAt(kind, who) /\ ParkedAt(kind, who) /\ CacheAt(kind, who)
      /\ CurAt(kind, who) /\ NodeAt(kind, who) /\ FreshAt(kind, who) /\ TailAt(kind, who)
      /\ LostAt(kind) /\ MarkAt(kind) /\ LengthAt(kind, who) /\ GrowAt(kind)
      /\ KeptOK(kind, who) /\ CountOK(kind, who)
      /\ (\A u \in Threads : HandsOf(u)) /\ Locks /\ bytes <= Ceiling
  BY Unfold
<1>u. /\ h \in Chunks /\ n \in Nat /\ n >= 1 /\ h + n - 1 <= Region
      /\ cur[t] = h /\ want[t] = n
      /\ \/ pc[t] = "commit" /\ kind[h] = "fresh"
         \/ pc[t] = "extendCommit" /\ kind[h] = "live"
      /\ len' = [len EXCEPT ![h] = n] /\ live' = [live EXCEPT ![h] = n]
      /\ magic' = magic \cup {h} /\ Go(t, "idle", None, 0)
  BY DEF Lands
<1>g. /\ \A g \in Chunks : kind2[g] = IF g = h THEN "live"
                             ELSE IF kind[g] = "tail" /\ who[g] = t THEN "none" ELSE kind[g]
      /\ MapType(kind2, who, size2)
      /\ size2[h] = n /\ \A g \in Chunks : g # h => size2[g] = size[g]
  <2>1. /\ kind2 = [g \in Chunks |-> IF g = h THEN "live"
                             ELSE IF kind[g] = "tail" /\ who[g] = t THEN "none" ELSE kind[g]]
        /\ size2 = [size EXCEPT ![h] = n]
    BY DEF Lands
  <2>2. \A g \in Chunks : kind[g] \in Kinds /\ {"live", "none"} \subseteq Kinds
    BY <1>0 DEF MapType, Kinds, SpanKinds
  <2>3. kind2 \in [Chunks -> Kinds]
    BY <2>1, <2>2
  <2>. QED
    BY <2>1, <2>3, <1>0, <1>u DEF MapType
<1>v. /\ cursor' = cursor /\ free' = free /\ map' = map /\ list' = list /\ cache' = cache
      /\ cached' = cached /\ parked' = parked /\ bytes' = bytes /\ sweeping' = sweeping
      /\ lock' = lock /\ lost' = lost
  BY DEF Lands, tiers
<1>p. class[t] = 0 /\ node[t] = None /\ ~HoldsCur(t) /\ ~HoldsNode(t)
  BY <1>0, <1>u DEF HandsOf, LocalOK, Sweeps, HoldsCur, HoldsNode, Frees
<1>n. /\ OthersWait(t) /\ LocalTypes' /\ pc'[t] = "idle" /\ cur'[t] = None /\ want'[t] = 0
      /\ class'[t] = 0 /\ node'[t] = None
  BY <1>p, <1>u, WentIdle
<1>o. \A u \in Threads : u # t =>
        /\ pc'[u] = pc[u] /\ cur'[u] = cur[u] /\ want'[u] = want[u]
        /\ class'[u] = class[u] /\ node'[u] = node[u]
  BY <1>n DEF OthersWait
<1>k. /\ kind2[h] = "live" /\ kind[h] \in {"fresh", "live"}
      /\ \A g \in Chunks : g # h =>
            \/ kind2[g] = kind[g]
            \/ kind[g] = "tail" /\ who[g] = t /\ kind2[g] = "none"
      /\ \A g \in Chunks : g # h /\ ~(kind[g] = "tail" /\ who[g] = t) => kind2[g] = kind[g]
      /\ \A g \in Chunks : kind2[g] = "tail" => kind[g] = "tail" /\ who[g] # t
      /\ len'[h] = n /\ live'[h] = n
      /\ \A g \in Chunks : g # h => len'[g] = len[g] /\ live'[g] = live[g]
      /\ len' \in [Chunks -> 0 .. Region] /\ live' \in [Chunks -> Nat]
  <2>1. n \in 0 .. Region
    BY <1>u, Bounds, ChunkIs
  <2>2. len \in [Chunks -> 0 .. Region] /\ live \in [Chunks -> Nat]
    BY DEF TypeOK
  <2>3. /\ len'[h] = n /\ live'[h] = n
        /\ \A g \in Chunks : g # h => len'[g] = len[g] /\ live'[g] = live[g]
        /\ len' \in [Chunks -> 0 .. Region] /\ live' \in [Chunks -> Nat]
    BY <2>1, <2>2, <1>u
  <2>4. kind[h] \in {"fresh", "live"}
    BY <1>u
  <2>. QED
    BY <2>3, <2>4, <1>g, <1>u
<1>q. \A g \in Chunks :
        kind2[g] \in {"list", "parked", "cache", "cur", "node"}
        \/ kind[g] \in {"list", "parked", "cache", "cur", "node"}
        => g # h /\ kind2[g] = kind[g] /\ len'[g] = len[g]
  BY <1>k
<1>1. Tiles(kind2, size2, cursor)
  <2>0. size \in [Chunks -> Nat] /\ size2 \in [Chunks -> Nat] /\ cursor \in Nat
    BY <1>0, <1>g DEF MapType, TypeOK
  <2>1. CASE pc[t] = "commit" /\ kind[h] = "fresh"
    <3>1. who[h] = t
      BY <2>1, <1>0, <1>u DEF FreshAt
    <3>2. size[h] = n
      BY <2>1, <3>1, <1>0, <1>u DEF SizeAt
    <3>3. \A g \in Chunks : ~(kind[g] = "tail" /\ who[g] = t)
      BY <2>1, <1>0 DEF TailAt
    <3>4. /\ \A g \in Chunks : Busy(kind2, g) <=> Busy(kind, g)
          /\ \A g \in Chunks : Busy(kind, g) => size2[g] = size[g]
      BY <2>1, <3>2, <3>3, <1>g, <1>k DEF Busy
    <3>. QED
      BY <3>4, <1>0, TilesStay
  <2>2. CASE pc[t] = "extendCommit" /\ kind[h] = "live"
    <3>1. PICK r : r = h + len[h]
      OBVIOUS
    <3>2. r \in Chunks /\ kind[r] = "tail" /\ who[r] = t
      BY <2>2, <3>1, <1>0, <1>u DEF TailAt
    <3>3. size[r] = n - len[h] /\ size[h] = len[h]
      BY <2>2, <3>2, <1>0, <1>u DEF SizeAt, SpanKinds
    <3>4. len[h] \in Nat /\ size[h] + size[r] = n
      BY <3>3, <1>u DEF TypeOK
    <3>5. \A g \in Chunks : kind[g] = "tail" /\ who[g] = t => g = r
      BY <2>2, <3>1, <1>0, <1>u DEF TailAt
    <3>6. \A g \in Chunks : Busy(kind2, g) <=> Busy(kind, g) /\ g # r
      BY <2>2, <3>2, <3>5, <1>g DEF Busy
    <3>7. Busy(kind, h) /\ Busy(kind, r) /\ r = h + size[h]
      BY <2>2, <3>1, <3>2, <3>3 DEF Busy
    <3>8. h \in Chunks /\ size2[h] = size[h] + size[r]
          /\ \A g \in Chunks : g # h => size2[g] = size[g]
      BY <3>4, <1>g, <1>u
    <3>. QED
      BY <2>0, <3>2, <3>6, <3>7, <3>8, <1>0, TilesJoin
  <2>. QED
    BY <2>1, <2>2, <1>u
<1>2. \A u \in Threads :
        /\ u # t /\ pc[u] \in Extends => cur[u] \in Chunks /\ cur[u] # h
        /\ HoldsCur(u) => u # t /\ cur[u] \in Chunks /\ cur[u] # h
        /\ HoldsNode(u) => u # t /\ node[u] \in Chunks /\ node[u] # h
        /\ pc[u] = "mergeAbsorb" => u # t /\ node[u] \in Chunks /\ node[u] # h
  <2>1. ASSUME NEW u \in Threads, u # t, pc[u] \in Extends
        PROVE  cur[u] \in Chunks /\ cur[u] # h
    <3>1. cur[u] \in Chunks /\ kind[cur[u]] = "live"
      BY <2>1, <1>0 DEF GrowAt
    <3>2. ASSUME cur[u] = h PROVE FALSE
      <4>1. pc[t] \in Extends /\ cur[t] = cur[u]
        BY <3>1, <3>2, <1>u DEF Extends
      <4>. QED
        BY <4>1, <2>1, <1>0 DEF GrowAt
    <3>. QED
      BY <3>1, <3>2
  <2>2. ASSUME NEW u \in Threads, HoldsCur(u) PROVE u # t /\ cur[u] \in Chunks /\ cur[u] # h
    BY <2>2, <1>0, <1>k, <1>p DEF CurAt
  <2>3. ASSUME NEW u \in Threads, HoldsNode(u) PROVE u # t /\ node[u] \in Chunks /\ node[u] # h
    BY <2>3, <1>0, <1>k, <1>p DEF NodeAt
  <2>4. ASSUME NEW u \in Threads, pc[u] = "mergeAbsorb"
        PROVE  u # t /\ node[u] \in Chunks /\ node[u] # h
    BY <2>4, <1>0, <1>k, <1>u DEF LengthAt
  <2>. QED
    BY <2>1, <2>2, <2>3, <2>4
<1>3. LiveAt(kind2)'
  <2>1. \A g \in Chunks : g # h => (kind2[g] = "live" <=> kind[g] = "live")
    BY <1>k
  <2>. QED
    BY <2>1, <1>0, <1>k, <1>u DEF LiveAt
<1>4. ListAt(kind2, who)'
  <2>1. \A g \in Chunks : kind2[g] = "list" <=> kind[g] = "list"
    BY <1>q
  <2>. QED
    BY <2>1, <1>0, <1>v DEF ListAt
<1>5. ParkedAt(kind2, who)'
  BY <1>0, <1>q, <1>v DEF ParkedAt
<1>6. CacheAt(kind2, who)'
  BY <1>0, <1>q, <1>v DEF CacheAt
<1>7. ~HoldsCur(t)' /\ ~HoldsNode(t)'
      /\ \A u \in Threads : u # t =>
            (HoldsCur(u)' <=> HoldsCur(u)) /\ (HoldsNode(u)' <=> HoldsNode(u))
  <2>1. ~HoldsCur(t)' /\ ~HoldsNode(t)'
    BY <1>n DEF HoldsCur, HoldsNode
  <2>2. \A u \in Threads : u # t =>
            (HoldsCur(u)' <=> HoldsCur(u)) /\ (HoldsNode(u)' <=> HoldsNode(u))
    BY <1>o DEF HoldsCur, HoldsNode
  <2>. QED
    BY <2>1, <2>2
<1>8. CurAt(kind2, who)'
  BY <1>0, <1>2, <1>7, <1>o, <1>q DEF CurAt
<1>9. NodeAt(kind2, who)'
  BY <1>0, <1>2, <1>7, <1>o, <1>q DEF NodeAt
<1>10. FreshAt(kind2, who)'
  <2>1. ASSUME NEW u \in Threads, pc'[u] = "commit", cur'[u] \in Chunks
        PROVE  kind2[cur'[u]] = "fresh" /\ who[cur'[u]] = u
    <3>1. u # t /\ pc[u] = "commit" /\ cur'[u] = cur[u]
      BY <2>1, <1>n, <1>o
    <3>2. cur[u] \in Chunks /\ kind[cur[u]] = "fresh" /\ who[cur[u]] = u
      BY <2>1, <3>1, <1>0 DEF FreshAt
    <3>3. cur[u] # h
      <4>. SUFFICES ASSUME cur[u] = h PROVE FALSE
        OBVIOUS
      <4>1. pc[t] = "commit" /\ kind[h] = "fresh"
        BY <3>2, <1>u
      <4>2. who[h] = t
        BY <4>1, <1>0, <1>u DEF FreshAt
      <4>. QED
        BY <4>2, <3>1, <3>2
    <3>. QED
      BY <3>1, <3>2, <3>3, <1>k
  <2>2. ASSUME NEW g \in Chunks, kind2[g] = "fresh"
        PROVE  who[g] \in Threads /\ pc'[who[g]] = "commit" /\ cur'[who[g]] = g
    <3>1. g # h /\ kind[g] = "fresh"
      BY <2>2, <1>k
    <3>2. who[g] \in Threads /\ pc[who[g]] = "commit" /\ cur[who[g]] = g
      BY <3>1, <1>0 DEF FreshAt
    <3>3. who[g] # t
      BY <3>1, <3>2, <1>u
    <3>. QED
      BY <3>2, <3>3, <1>o
  <2>. QED
    BY <2>1, <2>2 DEF FreshAt
<1>11. TailAt(kind2, who)'
  <2>1. ASSUME NEW u \in Threads, pc'[u] = "extendCommit"
        PROVE  /\ cur'[u] + len'[cur'[u]] \in Chunks
               /\ kind2[cur'[u] + len'[cur'[u]]] = "tail" /\ who[cur'[u] + len'[cur'[u]]] = u
    <3>1. u # t /\ pc[u] = "extendCommit" /\ cur'[u] = cur[u]
      BY <2>1, <1>n, <1>o
    <3>2. len'[cur[u]] = len[cur[u]]
      BY <3>1, <1>2, <1>k DEF Extends
    <3>3. PICK g : g = cur[u] + len[cur[u]]
      OBVIOUS
    <3>4. g \in Chunks /\ kind[g] = "tail" /\ who[g] = u
      BY <3>1, <3>3, <1>0 DEF TailAt
    <3>5. g # h
      BY <3>4, <1>k
    <3>. QED
      BY <3>1, <3>2, <3>3, <3>4, <3>5, <1>k
  <2>2. ASSUME NEW g \in Chunks, kind2[g] = "tail"
        PROVE  /\ who[g] \in Threads /\ pc'[who[g]] = "extendCommit"
               /\ cur'[who[g]] + len'[cur'[who[g]]] = g
    <3>1. kind[g] = "tail" /\ who[g] # t
      BY <2>2, <1>k
    <3>2. who[g] \in Threads /\ pc[who[g]] = "extendCommit" /\ cur[who[g]] + len[cur[who[g]]] = g
      BY <3>1, <1>0 DEF TailAt
    <3>3. len'[cur[who[g]]] = len[cur[who[g]]]
      BY <3>1, <3>2, <1>2, <1>k DEF Extends
    <3>. QED
      BY <3>1, <3>2, <3>3, <1>o
  <2>. QED
    BY <2>1, <2>2 DEF TailAt
<1>12. LostAt(kind2)' /\ MarkAt(kind2)'
  <2>1. LostAt(kind2)'
    BY <1>0, <1>k, <1>v DEF LostAt
  <2>2. MarkAt(kind2)'
    BY <1>0, <1>k, <1>u, <1>v DEF MarkAt, SpanKinds
  <2>. QED
    BY <2>1, <2>2
<1>13. SizeAt(kind2, who, size2)'
  <2>1. ASSUME NEW g \in Chunks, kind2[g] \in SpanKinds PROVE size2[g] = len'[g]
    <3>1. CASE g = h
      BY <3>1, <1>g, <1>k
    <3>2. CASE g # h
      <4>1. kind[g] \in SpanKinds
        BY <2>1, <3>2, <1>k DEF SpanKinds
      <4>. QED
        BY <3>2, <4>1, <1>0, <1>g, <1>k DEF SizeAt
    <3>. QED
      BY <3>1, <3>2
  <2>2. ASSUME NEW g \in Chunks, kind2[g] = "tail"
        PROVE  size2[g] = want'[who[g]] - len'[cur'[who[g]]]
    <3>1. kind[g] = "tail" /\ who[g] # t /\ g # h
      BY <2>2, <1>k
    <3>2. who[g] \in Threads /\ pc[who[g]] = "extendCommit"
      BY <3>1, <1>0 DEF TailAt
    <3>3. len'[cur[who[g]]] = len[cur[who[g]]]
      BY <3>1, <3>2, <1>2, <1>k DEF Extends
    <3>4. size[g] = want[who[g]] - len[cur[who[g]]]
      BY <3>1, <1>0 DEF SizeAt
    <3>. QED
      BY <3>1, <3>2, <3>3, <3>4, <1>g, <1>o
  <2>3. ASSUME NEW g \in Chunks, kind2[g] = "fresh" PROVE size2[g] = want'[who[g]]
    <3>1. kind[g] = "fresh" /\ g # h
      BY <2>3, <1>k
    <3>2. who[g] \in Threads /\ cur[who[g]] = g
      BY <3>1, <1>0 DEF FreshAt
    <3>3. who[g] # t
      BY <3>1, <3>2, <1>u
    <3>. QED
      BY <3>1, <3>2, <3>3, <1>0, <1>g, <1>o DEF SizeAt
  <2>4. ASSUME NEW g \in Chunks, kind2[g] = "lost" PROVE size2[g] = 1
    BY <2>4, <1>0, <1>g, <1>k DEF SizeAt
  <2>. QED
    BY <2>1, <2>2, <2>3, <2>4 DEF SizeAt
<1>14. LengthAt(kind2, who)'
  <2>1. \A u \in Threads : pc'[u] = "mergeAbsorb" \/ pc[u] = "mergeAbsorb" =>
            u # t /\ pc'[u] = pc[u] /\ node'[u] = node[u] /\ class'[u] = class[u]
    BY <1>n, <1>o, <1>u
  <2>. QED
    BY <2>1, <1>0, <1>q DEF LengthAt, Mending
<1>15. GrowAt(kind2)'
  <2>1. \A u \in Threads : pc'[u] \in Extends =>
            u # t /\ pc[u] \in Extends /\ cur'[u] = cur[u] /\ want'[u] = want[u]
    BY <1>n, <1>o DEF Extends
  <2>. QED
    BY <2>1, <1>0, <1>2, <1>k DEF GrowAt
<1>16. KeptOK(kind2, who)'
  <2>1. \A u \in HasCache : Kept(kind2, who, u)' = Kept(kind, who, u)
    BY <1>q DEF Kept
  <2>. QED
    BY <2>1, <1>0, <1>v DEF KeptOK
<1>17. CountOK(kind2, who)'
  <2>1. ASSUME NEW g \in Chunks
        PROVE  /\ IsCounted(kind2, who, g)' <=> IsCounted(kind, who, g)
               /\ IsCounted(kind, who, g) => len'[g] = len[g]
    <3>1. kind[g] = "cur" => who[g] \in Threads /\ who[g] # t
      BY <1>0, <1>2 DEF CurAt
    <3>2. kind[g] = "node" => who[g] \in Threads /\ who[g] # t
      BY <1>0, <1>2 DEF NodeAt
    <3>. QED
      BY <3>1, <3>2, <1>o, <1>q DEF IsCounted
  <2>2. Counted(kind2, who)' = Counted(kind, who)
    BY <2>1 DEF Counted
  <2>. QED
    BY <2>2, <1>0, <1>v DEF CountOK
<1>18. \A u \in Threads : HandsOf(u)'
  <2>. SUFFICES ASSUME NEW u \in Threads PROVE HandsOf(u)'
    OBVIOUS
  <2>1. CASE u = t
    BY <2>1, <1>n DEF HandsOf, LocalOK, HandOK, CeilingOK, Sweeps, Frees
  <2>2. CASE u # t
    <3>0. LocalOK(u) /\ HandOK(u) /\ CeilingOK(u)
      BY <1>0 DEF HandsOf
    <3>1. LocalOK(u)' /\ CeilingOK(u)'
      BY <2>2, <3>0, <1>o, <1>v DEF LocalOK, CeilingOK, Ceiling
    <3>2. /\ HoldsCur(u) \/ pc[u] \in {"extend", "extendCommit"} => len'[cur[u]] = len[cur[u]]
          /\ HoldsNode(u) \/ pc[u] = "mergeAbsorb" => len'[node[u]] = len[node[u]]
      BY <2>2, <1>2, <1>k DEF Extends
    <3>3. /\ pc[u] \in {"uncount", "park", "again", "push"} => HoldsCur(u)
          /\ class[u] > 0 /\ cur[u] # None => HoldsCur(u)
          /\ pc[u] \in {"sweepUncount", "sweepInsert"} => HoldsNode(u)
      BY <3>0, Bounds DEF HoldsCur, HoldsNode, Frees, LocalOK
    <3>4. HandOK(u)'
      BY <2>2, <3>0, <3>2, <3>3, <1>o DEF HandOK
    <3>. QED
      BY <3>1, <3>4 DEF HandsOf
  <2>. QED
    BY <2>1, <2>2
<1>19. Locks' /\ (bytes <= Ceiling)'
  BY <1>0, <1>n, <1>o, <1>p, <1>u, <1>v DEF Locks, Ceiling
<1>t. TypeOK'
  <2>1. magic' \subseteq Chunks
    BY <1>u DEF TypeOK
  <2>2. parked' \in [1 .. MaxSpan -> Row] /\ list' \in [1 .. MaxSpan -> Row]
    BY <1>v DEF TypeOK
  <2>. QED
    BY <2>1, <2>2, <1>k, <1>n, <1>v DEF TypeOK, LocalTypes
<1>. QED
  <2>1. MapType(kind2, who, size2)' /\ Tiles(kind2, size2, cursor)'
    BY <1>1, <1>g, <1>v DEF MapType
  <2>. QED
    BY <2>1, <1>3, <1>4, <1>5, <1>6, <1>8, <1>9, <1>10, <1>11, <1>12, <1>13, <1>14, <1>15,
       <1>16, <1>17, <1>18, <1>19, <1>t
       DEF PoolOK, MapOK, Seats, Hands, HandsOf

LEMMA CommitInv ==
    ASSUME NEW kind, NEW who, NEW size, TypeOK, PoolOK(kind, who, size), UNCHANGED setup,
           NEW t \in Threads, Commit(t)
    PROVE  TypeOK' /\ \E k, w, s : PoolOK(k, w, s)'
<1>0. HandsOf(t) /\ FreshAt(kind, who) /\ LiveAt(kind)
  BY Unfold
<1>h. PICK h : h = cur[t]
  OBVIOUS
<1>w. PICK n : n = want[t]
  OBVIOUS
<1>1. /\ pc[t] = "commit" /\ h + n - 1 <= Region /\ magic' = magic \cup {h}
      /\ len' = [len EXCEPT ![h] = n] /\ live' = [live EXCEPT ![h] = @ + n]
      /\ Go(t, "idle", None, 0)
      /\ UNCHANGED <<cursor, free, map, list, tiers, sweeping, lock, lost>>
  BY <1>h, <1>w DEF Commit, Idle
<1>2. h \in Nat /\ h >= 1 /\ n \in Nat /\ n >= 1
  BY <1>0, <1>1, <1>h, <1>w DEF HandsOf, LocalOK, TypeOK
<1>3. h \in Chunks
  BY <1>1, <1>2, Bounds, ChunkIs
<1>4. kind[h] = "fresh"
  BY <1>0, <1>1, <1>3, <1>h DEF FreshAt
<1>5. live[h] = 0
  BY <1>0, <1>3, <1>4 DEF LiveAt, TypeOK
<1>6. live' = [live EXCEPT ![h] = n]
  <2>1. live' = [live EXCEPT ![h] = live[h] + n]
    BY <1>1
  <2>. QED
    BY <2>1, <1>2, <1>5
<1>7. PICK kind2 : kind2 = [g \in Chunks |-> IF g = h THEN "live"
                              ELSE IF kind[g] = "tail" /\ who[g] = t THEN "none" ELSE kind[g]]
  OBVIOUS
<1>8. PICK size2 : size2 = [size EXCEPT ![h] = n]
  OBVIOUS
<1>9. Lands(kind, who, kind2, size, size2, t, h, n)
  BY <1>1, <1>2, <1>3, <1>4, <1>6, <1>7, <1>8, <1>h, <1>w DEF Lands
<1>10. TypeOK' /\ PoolOK(kind2, who, size2)'
  BY <1>9, LandsInv
<1>. QED
  BY <1>10

LEMMA ExtendCommitInv ==
    ASSUME NEW kind, NEW who, NEW size, TypeOK, PoolOK(kind, who, size), UNCHANGED setup,
           NEW t \in Threads, ExtendCommit(t)
    PROVE  TypeOK' /\ \E k, w, s : PoolOK(k, w, s)'
<1>0. HandsOf(t) /\ TailAt(kind, who) /\ GrowAt(kind) /\ MarkAt(kind) /\ SizeAt(kind, who, size)
      /\ Tiles(kind, size, cursor)
  BY Unfold
<1>h. PICK h : h = cur[t]
  OBVIOUS
<1>w. PICK n : n = want[t]
  OBVIOUS
<1>1. /\ pc[t] = "extendCommit" /\ len' = [len EXCEPT ![h] = n] /\ live' = [live EXCEPT ![h] = n]
      /\ Go(t, "idle", None, 0) /\ magic' = magic
      /\ UNCHANGED <<cursor, free, map, list, tiers, sweeping, lock, lost>>
  BY <1>h, <1>w DEF ExtendCommit, Idle
<1>2. h \in Chunks /\ kind[h] = "live" /\ n \in Nat /\ n >= 1
  BY <1>0, <1>1, <1>h, <1>w DEF HandsOf, LocalOK, GrowAt, Extends, TypeOK
<1>3. magic' = magic \cup {h}
  BY <1>0, <1>1, <1>2 DEF MarkAt, SpanKinds
<1>4. PICK r : r = h + len[h]
  OBVIOUS
<1>5. r \in Chunks /\ kind[r] = "tail" /\ who[r] = t
  BY <1>0, <1>1, <1>4, <1>h DEF TailAt
<1>6. size[r] = n - len[h] /\ r + size[r] - 1 <= Region
  BY <1>0, <1>5, <1>h, <1>w DEF SizeAt, Tiles, Busy
<1>7. h + n - 1 <= Region
  <2>1. h \in Nat /\ len[h] \in Nat /\ Region \in Nat
    BY <1>2, ChunkIs, Bounds DEF TypeOK
  <2>. QED
    BY <2>1, <1>2, <1>4, <1>6
<1>8. PICK kind2 : kind2 = [g \in Chunks |-> IF g = h THEN "live"
                              ELSE IF kind[g] = "tail" /\ who[g] = t THEN "none" ELSE kind[g]]
  OBVIOUS
<1>9. PICK size2 : size2 = [size EXCEPT ![h] = n]
  OBVIOUS
<1>10. Lands(kind, who, kind2, size, size2, t, h, n)
  BY <1>1, <1>2, <1>3, <1>7, <1>8, <1>9, <1>h, <1>w DEF Lands
<1>11. TypeOK' /\ PoolOK(kind2, who, size2)'
  BY <1>10, LandsInv
<1>. QED
  BY <1>11

-----------------------------------------------------------------------------
(* The region before anything is taken from it.                             *)
LEMMA PoolInit == Init => PoolInv
<1>. SUFFICES ASSUME Init PROVE PoolInv
  OBVIOUS
<1>u. /\ setup \in Setups /\ cursor = 0 /\ len = [h \in Chunks |-> 0]
      /\ magic = {} /\ free = {} /\ map = {}
      /\ list = [k \in 1 .. MaxSpan |-> <<>>]
      /\ cache = [t \in HasCache |-> [k \in 1 .. CacheSlots |-> <<>>]]
      /\ cached = [t \in HasCache |-> 0]
      /\ parked = [k \in 1 .. MaxSpan |-> <<>>]
      /\ bytes = 0 /\ sweeping = None /\ lock = None /\ live = [h \in Chunks |-> 0] /\ lost = {}
      /\ pc = [t \in Threads |-> "idle"] /\ cur = [t \in Threads |-> None]
      /\ want = [t \in Threads |-> 0] /\ class = [t \in Threads |-> 0]
      /\ node = [t \in Threads |-> None]
  BY DEF Init
<1>r. <<>> \in Row /\ IsInjective(<<>>) /\ Range(<<>>) = {}
  BY DEF Row, IsInjective, Range
<1>t. TypeOK
  <2>1. list \in [1 .. MaxSpan -> Row] /\ parked \in [1 .. MaxSpan -> Row]
        /\ cache \in [HasCache -> [1 .. CacheSlots -> Row]]
    BY <1>r, <1>u
  <2>2. 0 \in 0 .. Region /\ 0 \in 0 .. CacheMax /\ 0 \in 0 .. MaxSpan + 1 /\ "idle" \in Steps
    BY Bounds DEF Steps
  <2>3. /\ len \in [Chunks -> 0 .. Region] /\ cached \in [HasCache -> 0 .. CacheMax]
        /\ live \in [Chunks -> Nat] /\ pc \in [Threads -> Steps]
        /\ cur \in [Threads -> Nat \cup {None}] /\ want \in [Threads -> Nat]
        /\ class \in [Threads -> 0 .. MaxSpan + 1] /\ node \in [Threads -> Chunks \cup {None}]
    BY <2>2, <1>u
  <2>. QED
    BY <2>1, <2>3, <1>u DEF TypeOK
<1>1. PICK kind : kind = [h \in Chunks |-> "none"]
  OBVIOUS
<1>2. PICK who : who = [h \in Chunks |-> None]
  OBVIOUS
<1>3. PICK size : size = [h \in Chunks |-> 0]
  OBVIOUS
<1>k. \A h \in Chunks : kind[h] = "none"
  BY <1>1
<1>p. \A t \in Threads : pc[t] = "idle" /\ cur[t] = None /\ class[t] = 0 /\ node[t] = None
  BY <1>u
<1>4. MapType(kind, who, size)
  BY <1>1, <1>2, <1>3 DEF MapType, Kinds
<1>5. Tiles(kind, size, cursor)
  <2>1. \A c \in Chunks : ~(c <= 0)
    BY ChunkIs
  <2>. QED
    BY <2>1, <1>k, <1>u DEF Tiles, Busy
<1>6. SizeAt(kind, who, size)
  BY <1>k DEF SizeAt, SpanKinds
<1>7. LiveAt(kind)
  BY <1>k, <1>u DEF LiveAt
<1>8. ListAt(kind, who) /\ ParkedAt(kind, who) /\ CacheAt(kind, who)
  <2>1. ListAt(kind, who)
    BY <1>k, <1>r, <1>u DEF ListAt
  <2>2. ParkedAt(kind, who)
    BY <1>k, <1>r, <1>u DEF ParkedAt
  <2>3. CacheAt(kind, who)
    BY <1>k, <1>r, <1>u DEF CacheAt
  <2>. QED
    BY <2>1, <2>2, <2>3
<1>9. CurAt(kind, who) /\ NodeAt(kind, who) /\ FreshAt(kind, who) /\ TailAt(kind, who)
  BY <1>k, <1>p DEF CurAt, NodeAt, FreshAt, TailAt, HoldsCur, HoldsNode
<1>10. LostAt(kind) /\ MarkAt(kind) /\ LengthAt(kind, who) /\ GrowAt(kind)
  BY <1>k, <1>p, <1>u DEF LostAt, MarkAt, SpanKinds, LengthAt, GrowAt, Extends
<1>11. KeptOK(kind, who) /\ CountOK(kind, who)
  <2>1. ASSUME NEW t \in HasCache PROVE SumIs(Kept(kind, who, t), cached[t])
    <3>1. \A h \in Chunks : Kept(kind, who, t)[h] = 0
      BY <1>k DEF Kept
    <3>2. cached[t] = 0
      BY <1>u
    <3>. QED
      BY <3>1, <3>2, SumZero
  <2>2. SumIs(Counted(kind, who), bytes)
    <3>1. \A h \in Chunks : Counted(kind, who)[h] = 0
      BY <1>k DEF Counted, IsCounted
    <3>. QED
      BY <3>1, <1>u, SumZero
  <2>. QED
    BY <2>1, <2>2 DEF KeptOK, CountOK
<1>12. \A t \in Threads : HandsOf(t)
  BY <1>p DEF HandsOf, LocalOK, HandOK, CeilingOK, Sweeps, Frees
<1>13. Locks
  BY <1>p, <1>u, Bounds DEF Locks
<1>14. bytes <= Ceiling
  <2>1. Ceiling \in Nat
    <3>1. \A a, b \in Nat : a <= b => a \div Share <= b \div Share /\ a \div Share \in Nat
      BY Bounds, DivUp, Zenon
    <3>2. PICK a : a = cursor \div Share
      OBVIOUS
    <3>3. a \in Nat
      BY <3>1, <3>2, <1>u
    <3>4. Ceiling = IF a > RecycleMin THEN a ELSE RecycleMin
      BY <3>2, Zenon DEF Ceiling
    <3>. QED
      BY <3>3, <3>4, Bounds
  <2>. QED
    BY <2>1, <1>u
<1>15. PoolOK(kind, who, size)
  BY <1>4, <1>5, <1>6, <1>7, <1>8, <1>9, <1>10, <1>11, <1>12, <1>13, <1>14, Unfold
<1>. QED
  BY <1>t, <1>15 DEF PoolInv

(* Steps that go one of two ways.                                           *)
LEMMA UnparkStep ==
    ASSUME NEW kind, NEW who, NEW size, TypeOK, PoolOK(kind, who, size), UNCHANGED setup,
           NEW t \in Threads, Unpark(t)
    PROVE  TypeOK' /\ \E k, w, s : PoolOK(k, w, s)'
<1>1. CASE parked[want[t]] = <<>>
  BY <1>1, UnparkNoneInv
<1>2. CASE ~(parked[want[t]] = <<>>)
  BY <1>2, UnparkInv
<1>. QED
  BY <1>1, <1>2

LEMMA TakeChunksStep ==
    ASSUME NEW kind, NEW who, NEW size, TypeOK, PoolOK(kind, who, size), UNCHANGED setup,
           NEW t \in Threads, TakeChunks(t)
    PROVE  TypeOK' /\ \E k, w, s : PoolOK(k, w, s)'
<1>1. CASE Fits(want[t]) /\ cursor + want[t] <= CursorBound
  BY <1>1, TakeChunksInv
<1>2. CASE ~(Fits(want[t]) /\ cursor + want[t] <= CursorBound)
  BY <1>2, TakeChunksNoneInv
<1>. QED
  BY <1>1, <1>2

LEMMA RelistStep ==
    ASSUME NEW kind, NEW who, NEW size, TypeOK, PoolOK(kind, who, size), UNCHANGED setup,
           NEW t \in Threads, Relist(t)
    PROVE  TypeOK' /\ \E k, w, s : PoolOK(k, w, s)'
<1>1. CASE len[cur[t]] <= MaxSpan
  BY <1>1, RelistListsInv
<1>2. CASE ~(len[cur[t]] <= MaxSpan)
  BY <1>2, RelistLosesInv
<1>. QED
  BY <1>1, <1>2

LEMMA ExtendCursorStep ==
    ASSUME NEW kind, NEW who, NEW size, TypeOK, PoolOK(kind, who, size), UNCHANGED setup,
           NEW t \in Threads, ExtendCursor(t)
    PROVE  TypeOK' /\ \E k, w, s : PoolOK(k, w, s)'
<1>1. CASE ~AtCursor(cur[t]) \/ cur[t] + want[t] - 1 > Region
  BY <1>1, ExtendCursorOverInv
<1>2. CASE ~(~AtCursor(cur[t]) \/ cur[t] + want[t] - 1 > Region)
  BY <1>2, ExtendCursorInv
<1>. QED
  BY <1>1, <1>2

LEMMA SweepPopStep ==
    ASSUME NEW kind, NEW who, NEW size, TypeOK, PoolOK(kind, who, size), UNCHANGED setup,
           NEW t \in Threads, SweepPop(t)
    PROVE  TypeOK' /\ \E k, w, s : PoolOK(k, w, s)'
<1>1. CASE class[t] > MaxSpan \/ parked[class[t]] = <<>>
  BY <1>1, SweepNextInv
<1>2. CASE ~(class[t] > MaxSpan \/ parked[class[t]] = <<>>)
  <2>1. class[t] \in Nat /\ MaxSpan \in Nat
    BY Bounds DEF TypeOK
  <2>2. class[t] <= MaxSpan /\ parked[class[t]] # <<>>
    BY <2>1, <1>2
  <2>. QED
    BY <2>2, SweepPopInv
<1>. QED
  BY <1>1, <1>2

(* Every step has a map after it when there is one before it.               *)
LEMMA AllocateStep ==
    ASSUME NEW kind, NEW who, NEW size, TypeOK, PoolOK(kind, who, size), UNCHANGED setup,
           NEW t \in Threads, Allocate(t)
    PROVE  TypeOK' /\ \E k, w, s : PoolOK(k, w, s)'
<1>1. CASE Unpark(t)
  BY <1>1, UnparkStep
<1>2. CASE Uncount(t)
  BY <1>2, UncountInv
<1>3. CASE Take(t)
  BY <1>3, TakeInv
<1>4. CASE TakeNone(t)
  BY <1>4, TakeNoneInv
<1>5. CASE TakeChunks(t)
  BY <1>5, TakeChunksStep
<1>6. CASE Commit(t)
  BY <1>6, CommitInv
<1>7. CASE CommitRefused(t)
  BY <1>7, CommitRefusedInv
<1>. QED
  BY <1>1, <1>2, <1>3, <1>4, <1>5, <1>6, <1>7 DEF Allocate

LEMMA ReleaseStep ==
    ASSUME NEW kind, NEW who, NEW size, TypeOK, PoolOK(kind, who, size), UNCHANGED setup,
           NEW t \in Threads, Release(t)
    PROVE  TypeOK' /\ \E k, w, s : PoolOK(k, w, s)'
<1>1. CASE Reserve(t)
  BY <1>1, ReserveInv
<1>2. CASE Push(t)
  BY <1>2, PushInv
<1>3. CASE Refused(t)
  BY <1>3, RefusedInv
<1>4. CASE Again(t)
  BY <1>4, AgainInv
<1>5. CASE Return(t)
  BY <1>5, ReturnInv
<1>6. CASE Coalesce(t)
  BY <1>6, CoalesceInv
<1>7. CASE Relist(t)
  BY <1>7, RelistStep
<1>. QED
  BY <1>1, <1>2, <1>3, <1>4, <1>5, <1>6, <1>7 DEF Release

LEMMA SweepStep ==
    ASSUME NEW kind, NEW who, NEW size, TypeOK, PoolOK(kind, who, size), UNCHANGED setup,
           NEW t \in Threads, Sweep(t)
    PROVE  TypeOK' /\ \E k, w, s : PoolOK(k, w, s)'
<1>1. CASE SweepPop(t)
  BY <1>1, SweepPopStep
<1>2. CASE SweepUncount(t)
  BY <1>2, SweepUncountInv
<1>3. CASE SweepInsert(t)
  BY <1>3, SweepInsertInv
<1>4. CASE MergePick(t)
  BY <1>4, MergePickInv
<1>5. CASE MergeAbsorb(t)
  BY <1>5, MergeAbsorbInv
<1>6. CASE MergeRelist(t)
  BY <1>6, MergeRelistInv
<1>7. CASE SweepEnd(t)
  BY <1>7, SweepEndInv
<1>. QED
  BY <1>1, <1>2, <1>3, <1>4, <1>5, <1>6, <1>7 DEF Sweep

LEMMA ExtendStep ==
    ASSUME NEW kind, NEW who, NEW size, TypeOK, PoolOK(kind, who, size), UNCHANGED setup,
           NEW t \in Threads, Extend(t)
    PROVE  TypeOK' /\ \E k, w, s : PoolOK(k, w, s)'
<1>1. CASE ExtendAbsorb(t)
  BY <1>1, ExtendAbsorbInv
<1>2. CASE ExtendDone(t)
  BY <1>2, ExtendDoneInv
<1>3. CASE ExtendCursor(t)
  BY <1>3, ExtendCursorStep
<1>4. CASE ExtendCommit(t)
  BY <1>4, ExtendCommitInv
<1>5. CASE ExtendRefused(t)
  BY <1>5, ExtendRefusedInv
<1>. QED
  BY <1>1, <1>2, <1>3, <1>4, <1>5 DEF Extend

LEMMA PoolNext == PoolInv /\ [Next]_vars => PoolInv'
<1>. SUFFICES ASSUME PoolInv, [Next]_vars PROVE PoolInv'
  OBVIOUS
<1>1. PICK kind, who, size : TypeOK /\ PoolOK(kind, who, size)
  BY DEF PoolInv
<1>2. CASE UNCHANGED vars
  <2>0. /\ setup' = setup /\ cursor' = cursor /\ len' = len /\ magic' = magic /\ free' = free
        /\ map' = map /\ list' = list /\ cache' = cache /\ cached' = cached /\ parked' = parked
        /\ bytes' = bytes /\ sweeping' = sweeping /\ lock' = lock /\ live' = live
        /\ lost' = lost /\ pc' = pc /\ cur' = cur /\ want' = want /\ class' = class
        /\ node' = node
    BY <1>2 DEF vars, pool, tiers, local
  <2>1. TypeOK'
    BY <2>0, <1>1 DEF TypeOK
  <2>2. MapOK(kind, who, size)'
    <3>1. Seats(kind, who)'
      <4>0. MapOK(kind, who, size)
        BY <1>1 DEF PoolOK
      <4>1. (LiveAt(kind) /\ ListAt(kind, who) /\ ParkedAt(kind, who) /\ CacheAt(kind, who))'
        BY <4>0, <2>0 DEF MapOK, Seats, LiveAt, ListAt, ParkedAt, CacheAt
      <4>2. (CurAt(kind, who) /\ NodeAt(kind, who) /\ FreshAt(kind, who) /\ TailAt(kind, who))'
        BY <4>0, <2>0 DEF MapOK, Seats, CurAt, NodeAt, FreshAt, TailAt, HoldsCur, HoldsNode
      <4>3. (LostAt(kind) /\ MarkAt(kind) /\ LengthAt(kind, who) /\ GrowAt(kind))'
        BY <4>0, <2>0 DEF MapOK, Seats, LostAt, MarkAt, LengthAt, GrowAt, Mending
      <4>. QED
        BY <4>1, <4>2, <4>3 DEF Seats
    <3>2. (MapType(kind, who, size) /\ Tiles(kind, size, cursor) /\ SizeAt(kind, who, size))'
      BY <1>1, <2>0 DEF PoolOK, MapOK, MapType, SizeAt
    <3>. QED
      BY <3>1, <3>2 DEF MapOK
  <2>3. (KeptOK(kind, who) /\ CountOK(kind, who) /\ bytes <= Ceiling)'
    BY <1>1, <2>0 DEF PoolOK, KeptOK, Kept, CountOK, Counted, IsCounted, Ceiling
  <2>4. Hands' /\ Locks'
    BY <1>1, <2>0 DEF PoolOK, Hands, LocalOK, HandOK, CeilingOK, Locks, Ceiling
  <2>5. PoolOK(kind, who, size)'
    BY <2>2, <2>3, <2>4 DEF PoolOK
  <2>. QED
    BY <2>1, <2>5 DEF PoolInv
<1>3. CASE Next
  <2>0. UNCHANGED setup
    BY <1>3 DEF Next
  <2>1. PICK t \in Threads :
          \/ \E n \in 1 .. MaxWant : AllocCached(t, n) \/ AllocBegin(t, n)
          \/ \E h \in Chunks : FreeCached(t, h) \/ FreeBegin(t, h)
          \/ \E h \in Chunks, n \in 1 .. MaxWant : ExtendBegin(t, h, n)
          \/ Trim(t)
          \/ Allocate(t) \/ Release(t) \/ Sweep(t) \/ Extend(t)
    BY <1>3 DEF Next
  <2>2. CASE \E n \in 1 .. MaxWant : AllocCached(t, n) \/ AllocBegin(t, n)
    BY <1>1, <2>0, <2>2, AllocCachedInv, AllocBeginInv DEF PoolInv
  <2>3. CASE \E h \in Chunks : FreeCached(t, h) \/ FreeBegin(t, h)
    BY <1>1, <2>0, <2>3, FreeCachedInv, FreeBeginInv DEF PoolInv
  <2>4. CASE \E h \in Chunks, n \in 1 .. MaxWant : ExtendBegin(t, h, n)
    BY <1>1, <2>0, <2>4, ExtendBeginInv DEF PoolInv
  <2>5. CASE Trim(t)
    BY <1>1, <2>0, <2>5, TrimInv DEF PoolInv
  <2>6. CASE Allocate(t)
    BY <1>1, <2>0, <2>6, AllocateStep DEF PoolInv
  <2>7. CASE Release(t)
    BY <1>1, <2>0, <2>7, ReleaseStep DEF PoolInv
  <2>8. CASE Sweep(t)
    BY <1>1, <2>0, <2>8, SweepStep DEF PoolInv
  <2>9. CASE Extend(t)
    BY <1>1, <2>0, <2>9, ExtendStep DEF PoolInv
  <2>. QED
    BY <2>1, <2>2, <2>3, <2>4, <2>5, <2>6, <2>7, <2>8, <2>9
<1>. QED
  BY <1>2, <1>3

(* In every state there is a map of the region that says, chunk by chunk,   *)
(* what holds it: the invariant every other result about the pool uses.     *)
THEOREM PoolInvariant == Spec => []PoolInv
BY PoolInit, PoolNext, PTL DEF Spec

(* Every variable keeps its shape, and what a cache counts its room.        *)
THEOREM PoolTypes == Spec => []TypeOK
<1>1. PoolInv => TypeOK
  BY DEF PoolInv
<1>. QED
  BY <1>1, PoolInvariant, PTL

-----------------------------------------------------------------------------
(* What a neighbour is judged by.                                           *)
LEMMA ListedIs ==
    ASSUME NEW x, x \in Listed
    PROVE  \E k \in 1 .. MaxSpan : \E i \in 1 .. Len(list[k]) :
              x = Span("list", None, k, i, list[k][i], len[list[k][i]])
BY DEF Listed, Rows

LEMMA IsListed ==
    ASSUME NEW k \in 1 .. MaxSpan, NEW i \in 1 .. Len(list[k])
    PROVE  Span("list", None, k, i, list[k][i], len[list[k][i]]) \in Listed
BY DEF Listed, Rows

LEMMA SpanFirst ==
    \A in, of, k, i, h, n :
        /\ Span(in, of, k, i, h, n).first = h /\ Span(in, of, k, i, h, n).size = n
        /\ Span(in, of, k, i, h, n).in = in /\ Span(in, of, k, i, h, n).of = of
BY DEF Span

LEMMA RowIs ==
    ASSUME NEW s \in Row
    PROVE  /\ DOMAIN s = 1 .. Len(s) /\ Len(s) \in Nat
           /\ \A i \in 1 .. Len(s) : s[i] \in Chunks /\ s[i] \in Range(s)
           /\ \A h : h \in Range(s) <=> \E i \in 1 .. Len(s) : s[i] = h
BY DEF Row, Range

LEMMA PoolLists == PoolInv => ListsAgree
<1>. SUFFICES ASSUME PoolInv PROVE ListsAgree
  OBVIOUS
<1>1. PICK kind, who, size : TypeOK /\ PoolOK(kind, who, size)
  BY DEF PoolInv
<1>2. ListAt(kind, who) /\ MarkAt(kind) /\ LengthAt(kind, who)
  BY <1>1, Unfold
<1>3. map \subseteq Chunks /\ free \subseteq Chunks /\ \A k \in 1 .. MaxSpan : list[k] \in Row
  BY <1>1 DEF TypeOK
<1>4. PICK heads : heads = {x.first : x \in Listed}
  OBVIOUS
<1>5. \A k \in 1 .. MaxSpan : \A i \in 1 .. Len(list[k]) :
         list[k][i] \in Chunks /\ kind[list[k][i]] = "list" /\ who[list[k][i]] = k
  BY <1>2, <1>3, RowIs DEF ListAt
<1>6. \A h \in heads : h \in Chunks /\ kind[h] = "list"
  <2>1. ASSUME NEW x \in Listed PROVE x.first \in Chunks /\ kind[x.first] = "list"
    BY <1>5, ListedIs, SpanFirst
  <2>. QED
    BY <2>1, <1>4
<1>7. \A h \in Chunks : kind[h] = "list" => h \in heads
  <2>1. ASSUME NEW h \in Chunks, kind[h] = "list" PROVE h \in heads
    <3>1. PICK k \in 1 .. MaxSpan : k = who[h]
      BY <2>1, <1>2 DEF ListAt
    <3>2. h \in Range(list[k]) /\ list[k] \in Row
      BY <2>1, <3>1, <1>2, <1>3 DEF ListAt
    <3>3. PICK i \in 1 .. Len(list[k]) : list[k][i] = h
      BY <3>2, RowIs
    <3>4. Span("list", None, k, i, h, len[h]) \in Listed
      BY <3>3, IsListed
    <3>5. Span("list", None, k, i, h, len[h]).first = h
      BY SpanFirst
    <3>. QED
      BY <3>4, <3>5, <1>4
  <2>. QED
    BY <2>1
<1>8. map = heads /\ free = heads /\ heads \subseteq magic
  BY <1>2, <1>3, <1>6, <1>7 DEF MarkAt, SpanKinds
<1>9. \A k \in 1 .. MaxSpan : \A i \in 1 .. Len(list[k]) :
         \/ len[list[k][i]] = k
         \/ \E t \in Threads : pc[t] = "mergeAbsorb" /\ list[k][i] = node[t] /\ k = class[t]
  BY <1>2, <1>5 DEF LengthAt, Mending
<1>. QED
  BY <1>4, <1>8, <1>9 DEF ListsAgree

(* The map of free spans, the marks in the headers and the lists say the    *)
(* same, in every state: what span_coalesce and try_extend_span read of a   *)
(* neighbour is true of it.                                                 *)
THEOREM ListsStayTrue == Spec => []ListsAgree
BY PoolInvariant, PoolLists, PTL

-----------------------------------------------------------------------------
(* The sum of what the chunks weigh is one number, ...                      *)
LEMMA LeastNat ==
    ASSUME NEW T, T \subseteq Nat, T # {}
    PROVE  \E m \in T : \A n \in T : m <= n
<1>1. PICK m \in T : \A n \in T : <<n, m>> \notin OpToRel(<, Nat)
  BY NatLessThanWellFounded, WFMin
<1>2. ASSUME NEW n \in T PROVE m <= n
  <2>1. m \in Nat /\ n \in Nat
    OBVIOUS
  <2>2. ~(n < m)
    BY <1>1, <2>1, Zenon DEF OpToRel
  <2>. QED
    BY <2>1, <2>2
<1>. QED
  BY <1>2

LEMMA SumUnique ==
    ASSUME NEW w, \A h \in Chunks : w[h] \in Nat, NEW m, NEW n, SumIs(w, m), SumIs(w, n)
    PROVE  m = n
<1>0. Region \in Nat /\ Region \in 0 .. Region /\ 0 \in 0 .. Region
  BY Bounds
<1>1. PICK p \in [0 .. Region -> Nat] :
        p[0] = 0 /\ p[Region] = m /\ \A i \in Chunks : p[i] = p[i - 1] + w[i]
  BY DEF SumIs
<1>2. PICK q \in [0 .. Region -> Nat] :
        q[0] = 0 /\ q[Region] = n /\ \A i \in Chunks : q[i] = q[i - 1] + w[i]
  BY DEF SumIs
<1>3. PICK T : T = {i \in 0 .. Region : p[i] # q[i]}
  OBVIOUS
<1>4. ASSUME T # {} PROVE FALSE
  <2>1. PICK i \in T : \A j \in T : i <= j
    <3>1. T \subseteq Nat
      BY <1>3
    <3>. QED
      BY <3>1, <1>4, LeastNat
  <2>2. i \in 0 .. Region /\ p[i] # q[i] /\ i # 0
    BY <1>1, <1>2, <1>3
  <2>3. i \in Chunks /\ i - 1 \in 0 .. Region /\ i - 1 < i
    <3>1. i \in Nat /\ 1 <= i /\ i <= Region
      BY <2>2, <1>0
    <3>2. i \in Chunks
      BY <3>1, ChunkIs
    <3>. QED
      BY <3>1, <3>2, <1>0
  <2>4. p[i - 1] = q[i - 1]
    BY <2>1, <2>3, <1>0, <1>3
  <2>. QED
    BY <2>2, <2>3, <2>4, <1>1, <1>2
<1>5. p[Region] = q[Region]
  BY <1>0, <1>3, <1>4
<1>. QED
  BY <1>1, <1>2, <1>5

(* ... there always is one, ...                                             *)
LEMMA SumExists ==
    ASSUME NEW w, \A h \in Chunks : w[h] \in Nat
    PROVE  \E n \in Nat : SumIs(w, n)
<1>. DEFINE cut(k) == [h \in Chunks |-> IF h <= k THEN w[h] ELSE 0]
<1>0. Region \in Nat /\ Region \in 0 .. Region
  BY Bounds
<1>c. \A k \in 0 .. Region : \A h \in Chunks : cut(k)[h] = IF h <= k THEN w[h] ELSE 0
  OBVIOUS
<1>. HIDE DEF cut
<1>1. PICK T : T = {k \in 0 .. Region : ~\E n \in Nat : SumIs(cut(k), n)}
  OBVIOUS
<1>2. ASSUME T # {} PROVE FALSE
  <2>1. PICK k \in T : \A j \in T : k <= j
    <3>1. T \subseteq Nat
      BY <1>1
    <3>. QED
      BY <3>1, <1>2, LeastNat
  <2>2. k \in 0 .. Region /\ ~\E n \in Nat : SumIs(cut(k), n)
    BY <1>1
  <2>3. CASE k = 0
    <3>1. \A h \in Chunks : cut(k)[h] = 0
      BY <2>2, <2>3, <1>c, ChunkIs
    <3>2. SumIs(cut(k), 0)
      BY <3>1, SumZero
    <3>. QED
      BY <3>2, <2>2
  <2>4. CASE k # 0
    <3>1. k \in Chunks /\ k - 1 \in 0 .. Region /\ k - 1 < k /\ k \in Nat
      BY <2>2, <2>4, <1>0, ChunkIs
    <3>2. k - 1 \notin T
      BY <3>1, <2>1, <1>1
    <3>3. PICK n \in Nat : SumIs(cut(k - 1), n)
      BY <3>1, <3>2, <1>1
    <3>4. cut(k - 1)[k] = 0 /\ cut(k)[k] = w[k] /\ w[k] \in Nat
      BY <3>1, <2>2, <1>c
    <3>5. \A g \in Chunks : cut(k - 1)[g] \in Nat
      BY <3>1, <1>c
    <3>6. \A g \in Chunks : g # k => cut(k)[g] = cut(k - 1)[g]
      BY <3>1, <2>2, <1>c, ChunkIs
    <3>7. SumIs(cut(k), n - cut(k - 1)[k] + w[k])
      BY <3>1, <3>3, <3>4, <3>5, <3>6, SumPut
    <3>8. n - cut(k - 1)[k] + w[k] \in Nat
      BY <3>4
    <3>. QED
      BY <3>7, <3>8, <2>2
  <2>. QED
    BY <2>3, <2>4
<1>3. PICK n \in Nat : SumIs(cut(Region), n)
  BY <1>0, <1>1, <1>2
<1>4. \A h \in Chunks : w[h] = cut(Region)[h]
  BY <1>0, <1>c, ChunkIs
<1>. QED
  BY <1>3, <1>4, SumStays

(* ... and it is what MapThenSumSet adds up over spans that begin each at a *)
(* chunk of its own.                                                        *)
Adding(S, g) ==
    [s \in SUBSET S |-> IF s = {} THEN 0
                        ELSE (CHOOSE x \in s : TRUE).size + g[s \ {CHOOSE x \in s : TRUE}]]

LEMMA SumSetAdds ==
    ASSUME NEW S, NEW f, f = Adding(S, f)
    PROVE  \E g : g = Adding(S, g) /\ MapThenSumSet(LAMBDA x : x.size, S) = g[S]
BY Zenon DEF MapThenSumSet, MapThenFoldSet, Adding

LEMMA SumOver ==
    ASSUME NEW S, NEW w, NEW n, SumIs(w, n), \A h \in Chunks : w[h] \in Nat,
           \A x \in S : x.first \in Chunks /\ x.size = w[x.first],
           \A x, y \in S : x.first = y.first => x = y,
           \A h \in Chunks : w[h] # 0 => \E x \in S : x.first = h
    PROVE  MapThenSumSet(LAMBDA x : x.size, S) = n
<1>. DEFINE part(s) == [h \in Chunks |-> IF \E x \in s : x.first = h THEN w[h] ELSE 0]
            total(s) == CHOOSE m \in Nat : SumIs(part(s), m)
            firsts(s) == {x.first : x \in s}
<1>p. \A s : \A h \in Chunks : part(s)[h] = IF \E x \in s : x.first = h THEN w[h] ELSE 0
  OBVIOUS
<1>q. \A s : \A h \in Chunks : part(s)[h] \in Nat
  BY <1>p
<1>1. \A s : total(s) \in Nat /\ SumIs(part(s), total(s))
  <2>. HIDE DEF part
  <2>1. ASSUME NEW s PROVE total(s) \in Nat /\ SumIs(part(s), total(s))
    <3>1. \E m \in Nat : SumIs(part(s), m)
      BY <1>q, SumExists
    <3>. QED
      BY <3>1
  <2>. QED
    BY <2>1
<1>. HIDE DEF part, total
<1>2. total({}) = 0
  <2>1. \A h \in Chunks : part({})[h] = 0
    BY <1>p
  <2>2. SumIs(part({}), 0)
    BY <2>1, SumZero
  <2>. QED
    BY <2>2, <1>1, <1>q, SumUnique
<1>3. ASSUME NEW s \in SUBSET S, NEW x \in s
      PROVE  total(s) = x.size + total(s \ {x})
  <2>1. PICK h : h = x.first
    OBVIOUS
  <2>2. h \in Chunks /\ x.size = w[h] /\ w[h] \in Nat
    BY <2>1
  <2>3. part(s \ {x})[h] = 0 /\ part(s)[h] = w[h]
    BY <2>1, <2>2, <1>p
  <2>4. \A g \in Chunks : g # h => part(s)[g] = part(s \ {x})[g]
    BY <2>1, <1>p
  <2>5. PICK m \in Nat : m = total(s \ {x})
    BY <1>1
  <2>6. PICK v : v = part(s \ {x})
    OBVIOUS
  <2>7. SumIs(v, m) /\ \A g \in Chunks : v[g] \in Nat
    BY <2>5, <2>6, <1>1, <1>q
  <2>8. v[h] = 0 /\ \A g \in Chunks : g # h => part(s)[g] = v[g]
    BY <2>3, <2>4, <2>6
  <2>9. SumIs(part(s), m - v[h] + w[h])
    BY <2>2, <2>3, <2>7, <2>8, SumPut
  <2>10. SumIs(part(s), total(s)) /\ \A g \in Chunks : part(s)[g] \in Nat
    BY <1>1, <1>q
  <2>11. total(s) = m - v[h] + w[h]
    BY <2>9, <2>10, SumUnique
  <2>. QED
    BY <2>2, <2>5, <2>8, <2>11
<1>4. PICK f : f = [s \in SUBSET S |-> total(s)]
  OBVIOUS
<1>5. f = Adding(S, f)
  <2>1. ASSUME NEW s \in SUBSET S
        PROVE  total(s) = IF s = {} THEN 0
                          ELSE (CHOOSE x \in s : TRUE).size + f[s \ {CHOOSE x \in s : TRUE}]
    <3>1. CASE s = {}
      BY <3>1, <1>2
    <3>2. CASE s # {}
      <4>1. PICK x : x = CHOOSE y \in s : TRUE
        OBVIOUS
      <4>2. x \in s /\ s \ {x} \in SUBSET S
        BY <3>2, <4>1
      <4>3. total(s) = x.size + f[s \ {x}]
        BY <4>2, <1>3, <1>4
      <4>. QED
        BY <3>2, <4>1, <4>3
    <3>. QED
      BY <3>1, <3>2
  <2>. QED
    BY <2>1, <1>4, Zenon DEF Adding
<1>6. PICK g : g = Adding(S, g) /\ MapThenSumSet(LAMBDA x : x.size, S) = g[S]
  BY <1>5, SumSetAdds
<1>7. \A s \in SUBSET S : g[s] = IF s = {} THEN 0
                          ELSE (CHOOSE x \in s : TRUE).size + g[s \ {CHOOSE x \in s : TRUE}]
  <2>1. g = [s \in SUBSET S |-> IF s = {} THEN 0
                ELSE (CHOOSE x \in s : TRUE).size + g[s \ {CHOOSE x \in s : TRUE}]]
    BY <1>6, Zenon DEF Adding
  <2>. QED
    BY <2>1, Zenon
<1>8. \A s \in SUBSET S : firsts(s) \subseteq Chunks /\ IsFiniteSet(firsts(s))
                       /\ Cardinality(firsts(s)) \in Nat
  <2>1. IsFiniteSet(Chunks)
    BY Bounds, FS_Interval DEF Chunks
  <2>2. ASSUME NEW s \in SUBSET S PROVE firsts(s) \subseteq Chunks
    OBVIOUS
  <2>3. ASSUME NEW s \in SUBSET S
        PROVE  IsFiniteSet(firsts(s)) /\ Cardinality(firsts(s)) \in Nat
    BY <2>1, <2>2, FS_Subset, FS_CardinalityType
  <2>. QED
    BY <2>2, <2>3
<1>9. PICK T : T = {k \in Nat : \E s \in SUBSET S : Cardinality(firsts(s)) = k /\ g[s] # total(s)}
  OBVIOUS
<1>10. ASSUME T # {} PROVE FALSE
  <2>1. PICK k \in T : \A j \in T : k <= j
    <3>1. T \subseteq Nat
      BY <1>9
    <3>. QED
      BY <3>1, <1>10, LeastNat
  <2>2. PICK s \in SUBSET S : Cardinality(firsts(s)) = k /\ g[s] # total(s)
    BY <1>9
  <2>3. s # {}
    BY <2>2, <1>2, <1>7
  <2>4. PICK x : x = CHOOSE y \in s : TRUE
    OBVIOUS
  <2>5. x \in s /\ g[s] = x.size + g[s \ {x}]
    BY <2>3, <2>4, <1>7
  <2>6. firsts(s \ {x}) = firsts(s) \ {x.first} /\ x.first \in firsts(s)
    BY <2>5
  <2>. HIDE DEF firsts
  <2>7. Cardinality(firsts(s \ {x})) = k - 1
    <3>1. PICK F : F = firsts(s)
      OBVIOUS
    <3>2. IsFiniteSet(F) /\ x.first \in F /\ Cardinality(F) = k
      BY <3>1, <2>2, <2>6, <1>8
    <3>3. Cardinality(F \ {x.first}) = Cardinality(F) - 1
      BY <3>2, FS_RemoveElement
    <3>. QED
      BY <3>1, <3>2, <3>3, <2>6
  <2>8. k - 1 \in Nat /\ s \ {x} \in SUBSET S
    BY <2>7, <1>8
  <2>9. k - 1 \notin T
    BY <2>1, <2>8, <1>9
  <2>10. g[s \ {x}] = total(s \ {x})
    BY <2>7, <2>8, <2>9, <1>9
  <2>. QED
    BY <2>2, <2>5, <2>10, <1>3
<1>11. g[S] = total(S)
  BY <1>8, <1>9, <1>10
<1>12. total(S) = n
  <2>1. \A h \in Chunks : part(S)[h] = w[h]
    BY <1>p
  <2>2. SumIs(w, total(S))
    BY <2>1, <1>1, SumStays
  <2>. QED
    BY <2>2, SumUnique
<1>. QED
  BY <1>6, <1>11, <1>12

-----------------------------------------------------------------------------
(* The holding that begins at h, as the map says.                           *)
At(s, i, h) == i \in 1 .. Len(s) /\ s[i] = h
Names(kind, who, x, h) ==
    /\ h \in Chunks
    /\ \/ kind[h] = "live" /\ x = Span("live", None, 0, 0, h, len[h])
       \/ kind[h] = "lost" /\ x = Span("lost", None, 0, 0, h, 1)
       \/ /\ kind[h] = "list"
          /\ \E i : At(list[who[h]], i, h) /\ x = Span("list", None, who[h], i, h, len[h])
       \/ /\ kind[h] = "parked"
          /\ \E i : At(parked[who[h]], i, h) /\ x = Span("parked", None, who[h], i, h, len[h])
       \/ /\ kind[h] = "cache"
          /\ \E i : /\ At(cache[who[h]][len[h]], i, h)
                    /\ x = Span("cache", who[h], len[h], i, h, len[h])
       \/ /\ kind[h] = "cur" /\ pc[who[h]] \in {"uncount", "push"}
          /\ x = Span(pc[who[h]], who[h], 0, 0, h, len[h])
       \/ /\ kind[h] = "cur" /\ pc[who[h]] \notin {"uncount", "push"}
          /\ x = Span("freeing", who[h], 0, 0, h, len[h])
       \/ kind[h] = "node" /\ x = Span(pc[who[h]], who[h], 0, 0, h, len[h])
       \/ kind[h] = "fresh" /\ x = Span("commit", who[h], 0, 0, h, want[who[h]])
       \/ /\ kind[h] = "tail"
          /\ x = Span("tail", who[h], 0, 0, h, want[who[h]] - len[cur[who[h]]])

(* Nothing is named twice, ...                                              *)
LEMMA NameIsOne ==
    ASSUME NEW kind, NEW who, NEW size, TypeOK, PoolOK(kind, who, size),
           NEW h, NEW x, NEW y, Names(kind, who, x, h), Names(kind, who, y, h)
    PROVE  x = y
<1>1. ListAt(kind, who) /\ ParkedAt(kind, who) /\ CacheAt(kind, who)
  BY Unfold
<1>2. ASSUME NEW s \in Row, IsInjective(s), NEW i, NEW j, At(s, i, h), At(s, j, h)
      PROVE  i = j
  <2>1. DOMAIN s = 1 .. Len(s)
    BY RowIs
  <2>. QED
    BY <1>2, <2>1 DEF At, IsInjective
<1>3. CASE kind[h] = "list"
  <2>1. list[who[h]] \in Row /\ IsInjective(list[who[h]])
    BY <1>1, <1>3 DEF ListAt, TypeOK, Names
  <2>2. PICK i : At(list[who[h]], i, h) /\ x = Span("list", None, who[h], i, h, len[h])
    BY <1>3 DEF Names
  <2>3. PICK j : At(list[who[h]], j, h) /\ y = Span("list", None, who[h], j, h, len[h])
    BY <1>3 DEF Names
  <2>. QED
    BY <2>1, <2>2, <2>3, <1>2
<1>4. CASE kind[h] = "parked"
  <2>1. parked[who[h]] \in Row /\ IsInjective(parked[who[h]])
    BY <1>1, <1>4 DEF ParkedAt, TypeOK, Names
  <2>2. PICK i : At(parked[who[h]], i, h) /\ x = Span("parked", None, who[h], i, h, len[h])
    BY <1>4 DEF Names
  <2>3. PICK j : At(parked[who[h]], j, h) /\ y = Span("parked", None, who[h], j, h, len[h])
    BY <1>4 DEF Names
  <2>. QED
    BY <2>1, <2>2, <2>3, <1>2
<1>5. CASE kind[h] = "cache"
  <2>1. cache[who[h]][len[h]] \in Row /\ IsInjective(cache[who[h]][len[h]])
    <3>1. who[h] \in HasCache /\ len[h] \in 1 .. CacheSlots
      BY <1>1, <1>5 DEF CacheAt, Names
    <3>2. cache[who[h]] \in [1 .. CacheSlots -> Row]
      BY <3>1 DEF TypeOK
    <3>. QED
      BY <3>1, <3>2, <1>1 DEF CacheAt
  <2>2. PICK i : At(cache[who[h]][len[h]], i, h) /\ x = Span("cache", who[h], len[h], i, h, len[h])
    BY <1>5 DEF Names
  <2>3. PICK j : At(cache[who[h]][len[h]], j, h) /\ y = Span("cache", who[h], len[h], j, h, len[h])
    BY <1>5 DEF Names
  <2>. QED
    BY <2>1, <2>2, <2>3, <1>2
<1>6. CASE kind[h] \notin {"list", "parked", "cache"}
  <2>1. CASE kind[h] = "live"
    BY <2>1 DEF Names
  <2>2. CASE kind[h] = "lost"
    BY <2>2 DEF Names
  <2>3. CASE kind[h] = "cur" /\ pc[who[h]] \in {"uncount", "push"}
    BY <2>3 DEF Names
  <2>4. CASE kind[h] = "cur" /\ pc[who[h]] \notin {"uncount", "push"}
    BY <2>4 DEF Names
  <2>5. CASE kind[h] = "node"
    BY <2>5 DEF Names
  <2>6. CASE kind[h] = "fresh"
    BY <2>6 DEF Names
  <2>7. CASE kind[h] = "tail"
    BY <2>7 DEF Names
  <2>. QED
    BY <1>6, <2>1, <2>2, <2>3, <2>4, <2>5, <2>6, <2>7 DEF Names
<1>. QED
  BY <1>3, <1>4, <1>5, <1>6

(* ... everything that begins is named, ...                                 *)
LEMMA NameIs ==
    ASSUME NEW kind, NEW who, NEW size, TypeOK, PoolOK(kind, who, size),
           NEW h \in Chunks, Busy(kind, h)
    PROVE  \E x : Names(kind, who, x, h)
<1>0. /\ MapType(kind, who, size) /\ ListAt(kind, who) /\ ParkedAt(kind, who)
      /\ CacheAt(kind, who)
  BY Unfold
<1>1. kind[h] \in Kinds \ {"none"}
  BY <1>0 DEF Busy, MapType
<1>2. ASSUME NEW s \in Row, h \in Range(s) PROVE \E i : At(s, i, h)
  BY <1>2, RowIs DEF At
<1>3. CASE kind[h] = "list"
  <2>1. list[who[h]] \in Row /\ h \in Range(list[who[h]])
    BY <1>0, <1>3 DEF ListAt, TypeOK
  <2>2. PICK i : At(list[who[h]], i, h)
    BY <2>1, <1>2
  <2>3. Names(kind, who, Span("list", None, who[h], i, h, len[h]), h)
    BY <1>3, <2>2 DEF Names
  <2>. QED
    BY <2>3
<1>4. CASE kind[h] = "parked"
  <2>1. parked[who[h]] \in Row /\ h \in Range(parked[who[h]])
    BY <1>0, <1>4 DEF ParkedAt, TypeOK
  <2>2. PICK i : At(parked[who[h]], i, h)
    BY <2>1, <1>2
  <2>3. Names(kind, who, Span("parked", None, who[h], i, h, len[h]), h)
    BY <1>4, <2>2 DEF Names
  <2>. QED
    BY <2>3
<1>5. CASE kind[h] = "cache"
  <2>1. cache[who[h]][len[h]] \in Row /\ h \in Range(cache[who[h]][len[h]])
    <3>1. who[h] \in HasCache /\ len[h] \in 1 .. CacheSlots
      BY <1>0, <1>5 DEF CacheAt
    <3>2. cache[who[h]] \in [1 .. CacheSlots -> Row]
      BY <3>1 DEF TypeOK
    <3>. QED
      BY <3>1, <3>2, <1>0, <1>5 DEF CacheAt
  <2>2. PICK i : At(cache[who[h]][len[h]], i, h)
    BY <2>1, <1>2
  <2>3. Names(kind, who, Span("cache", who[h], len[h], i, h, len[h]), h)
    BY <1>5, <2>2 DEF Names
  <2>. QED
    BY <2>3
<1>6. CASE kind[h] \in {"live", "lost", "cur", "node", "fresh", "tail"}
  <2>1. kind[h] = "live" => Names(kind, who, Span("live", None, 0, 0, h, len[h]), h)
    BY DEF Names
  <2>2. kind[h] = "lost" => Names(kind, who, Span("lost", None, 0, 0, h, 1), h)
    BY DEF Names
  <2>3. kind[h] = "cur" /\ pc[who[h]] \in {"uncount", "push"} =>
           Names(kind, who, Span(pc[who[h]], who[h], 0, 0, h, len[h]), h)
    BY DEF Names
  <2>4. kind[h] = "cur" /\ pc[who[h]] \notin {"uncount", "push"} =>
           Names(kind, who, Span("freeing", who[h], 0, 0, h, len[h]), h)
    BY DEF Names
  <2>5. kind[h] = "node" => Names(kind, who, Span(pc[who[h]], who[h], 0, 0, h, len[h]), h)
    BY DEF Names
  <2>6. kind[h] = "fresh" => Names(kind, who, Span("commit", who[h], 0, 0, h, want[who[h]]), h)
    BY DEF Names
  <2>7. kind[h] = "tail" =>
           Names(kind, who, Span("tail", who[h], 0, 0, h, want[who[h]] - len[cur[who[h]]]), h)
    BY DEF Names
  <2>. QED
    BY <1>6, <2>1, <2>2, <2>3, <2>4, <2>5, <2>6, <2>7
<1>. QED
  BY <1>1, <1>3, <1>4, <1>5, <1>6 DEF Kinds, SpanKinds

(* ... and what is named is as long as the map says.                        *)
LEMMA NameLong ==
    ASSUME NEW kind, NEW who, NEW size, TypeOK, PoolOK(kind, who, size),
           NEW h, NEW x, Names(kind, who, x, h)
    PROVE  x.first = h /\ x.size = size[h] /\ Busy(kind, h) /\ h \in Chunks
<1>1. SizeAt(kind, who, size)
  BY Unfold
<1>2. h \in Chunks
  BY DEF Names
<1>3. Busy(kind, h)
  BY Zenon DEF Names, Busy
<1>4. x.first = h
  BY SpanFirst DEF Names
<1>5. x.size = size[h]
  <2>1. CASE kind[h] \in SpanKinds
    <3>1. x.size = len[h]
      BY <2>1, SpanFirst DEF Names, SpanKinds
    <3>. QED
      BY <2>1, <3>1, <1>1, <1>2 DEF SizeAt
  <2>2. CASE kind[h] \in {"lost", "fresh", "tail"}
    BY <2>2, <1>1, <1>2, SpanFirst DEF Names, SizeAt
  <2>. QED
    BY <2>1, <2>2 DEF Names, SpanKinds
<1>. QED
  BY <1>2, <1>3, <1>4, <1>5

(* The tiers hold what the map says they hold, ...                          *)
LEMMA TiersNamed ==
    ASSUME NEW kind, NEW who, NEW size, TypeOK, PoolOK(kind, who, size), NEW x
    PROVE  /\ x \in Listed => Names(kind, who, x, x.first) /\ kind[x.first] = "list"
           /\ x \in Parked => Names(kind, who, x, x.first) /\ kind[x.first] = "parked"
           /\ x \in Cached => Names(kind, who, x, x.first) /\ kind[x.first] = "cache"
<1>0. ListAt(kind, who) /\ ParkedAt(kind, who) /\ CacheAt(kind, who)
  BY Unfold
<1>1. ASSUME x \in Listed PROVE Names(kind, who, x, x.first) /\ kind[x.first] = "list"
  <2>k. PICK k \in 1 .. MaxSpan : \E i \in 1 .. Len(list[k]) :
           x = Span("list", None, k, i, list[k][i], len[list[k][i]])
    BY <1>1 DEF Listed, Rows
  <2>1. PICK i \in 1 .. Len(list[k]) :
           x = Span("list", None, k, i, list[k][i], len[list[k][i]])
    BY <2>k
  <2>2. PICK h : h = list[k][i]
    OBVIOUS
  <2>3. h \in Chunks /\ h \in Range(list[k])
    BY <2>2, RowIs DEF TypeOK
  <2>4. kind[h] = "list" /\ who[h] = k
    BY <2>3, <1>0 DEF ListAt
  <2>5. x.first = h
    BY <2>1, <2>2, SpanFirst
  <2>. QED
    BY <2>1, <2>2, <2>3, <2>4, <2>5 DEF Names, At
<1>2. ASSUME x \in Parked PROVE Names(kind, who, x, x.first) /\ kind[x.first] = "parked"
  <2>k. PICK k \in 1 .. MaxSpan : \E i \in 1 .. Len(parked[k]) :
           x = Span("parked", None, k, i, parked[k][i], len[parked[k][i]])
    BY <1>2 DEF Parked, Rows
  <2>1. PICK i \in 1 .. Len(parked[k]) :
           x = Span("parked", None, k, i, parked[k][i], len[parked[k][i]])
    BY <2>k
  <2>2. PICK h : h = parked[k][i]
    OBVIOUS
  <2>3. h \in Chunks /\ h \in Range(parked[k])
    BY <2>2, RowIs DEF TypeOK
  <2>4. kind[h] = "parked" /\ who[h] = k
    BY <2>3, <1>0 DEF ParkedAt
  <2>5. x.first = h
    BY <2>1, <2>2, SpanFirst
  <2>. QED
    BY <2>1, <2>2, <2>3, <2>4, <2>5 DEF Names, At
<1>3. ASSUME x \in Cached PROVE Names(kind, who, x, x.first) /\ kind[x.first] = "cache"
  <2>0. PICK t \in HasCache : x \in Rows("cache", t, cache[t], 1 .. CacheSlots)
    BY <1>3 DEF Cached
  <2>k. PICK k \in 1 .. CacheSlots : \E i \in 1 .. Len(cache[t][k]) :
           x = Span("cache", t, k, i, cache[t][k][i], len[cache[t][k][i]])
    BY <2>0 DEF Rows
  <2>1. PICK i \in 1 .. Len(cache[t][k]) :
           x = Span("cache", t, k, i, cache[t][k][i], len[cache[t][k][i]])
    BY <2>k
  <2>2. PICK h : h = cache[t][k][i]
    OBVIOUS
  <2>3. h \in Chunks /\ h \in Range(cache[t][k])
    <3>1. cache[t] \in [1 .. CacheSlots -> Row]
      BY DEF TypeOK
    <3>2. cache[t][k] \in Row
      BY <3>1
    <3>. QED
      BY <2>2, <3>2, RowIs
  <2>4. kind[h] = "cache" /\ who[h] = t /\ len[h] = k
    BY <2>3, <1>0 DEF CacheAt
  <2>5. x.first = h
    BY <2>1, <2>2, SpanFirst
  <2>. QED
    BY <2>1, <2>2, <2>3, <2>4, <2>5 DEF Names, At
<1>. QED
  BY <1>1, <1>2, <1>3

LEMMA NamedTiers ==
    ASSUME NEW kind, NEW who, NEW size, TypeOK, PoolOK(kind, who, size),
           NEW x, NEW h, Names(kind, who, x, h)
    PROVE  /\ kind[h] = "list" => x \in Listed
           /\ kind[h] = "parked" => x \in Parked
           /\ kind[h] = "cache" => x \in Cached
<1>0. ListAt(kind, who) /\ ParkedAt(kind, who) /\ CacheAt(kind, who) /\ h \in Chunks
  BY Unfold DEF Names
<1>1. ASSUME kind[h] = "list" PROVE x \in Listed
  <2>1. PICK i : At(list[who[h]], i, h) /\ x = Span("list", None, who[h], i, h, len[h])
    BY <1>1 DEF Names
  <2>2. who[h] \in 1 .. MaxSpan
    BY <1>0, <1>1 DEF ListAt
  <2>. QED
    BY <2>1, <2>2 DEF At, Listed, Rows
<1>2. ASSUME kind[h] = "parked" PROVE x \in Parked
  <2>1. PICK i : At(parked[who[h]], i, h) /\ x = Span("parked", None, who[h], i, h, len[h])
    BY <1>2 DEF Names
  <2>2. who[h] \in 1 .. MaxSpan
    BY <1>0, <1>2 DEF ParkedAt
  <2>. QED
    BY <2>1, <2>2 DEF At, Parked, Rows
<1>3. ASSUME kind[h] = "cache" PROVE x \in Cached
  <2>1. PICK i : At(cache[who[h]][len[h]], i, h) /\ x = Span("cache", who[h], len[h], i, h, len[h])
    BY <1>3 DEF Names
  <2>2. who[h] \in HasCache /\ len[h] \in 1 .. CacheSlots
    BY <1>0, <1>3 DEF CacheAt
  <2>3. x \in Rows("cache", who[h], cache[who[h]], 1 .. CacheSlots)
    BY <2>1, <2>2 DEF At, Rows
  <2>. QED
    BY <2>2, <2>3 DEF Cached
<1>. QED
  BY <1>1, <1>2, <1>3

(* ... and so do the threads.                                               *)
LEMMA HandsNamed ==
    ASSUME NEW kind, NEW who, NEW size, TypeOK, PoolOK(kind, who, size), NEW x
    PROVE  /\ \A step \in {"uncount", "push"} : x \in Moving(step) =>
                 /\ Names(kind, who, x, x.first)
                 /\ kind[x.first] = "cur" /\ pc[who[x.first]] = step
           /\ \A step \in {"sweepUncount", "sweepInsert"} : x \in Swept(step) =>
                 /\ Names(kind, who, x, x.first)
                 /\ kind[x.first] = "node" /\ pc[who[x.first]] = step
           /\ x \in Freeing =>
                 /\ Names(kind, who, x, x.first)
                 /\ kind[x.first] = "cur" /\ pc[who[x.first]] \notin {"uncount", "push"}
           /\ x \in Fresh => Names(kind, who, x, x.first) \/ (x.first \in Nat /\ x.first > Region)
<1>0. /\ CurAt(kind, who) /\ NodeAt(kind, who) /\ FreshAt(kind, who) /\ TailAt(kind, who)
      /\ (\A u \in Threads : HandsOf(u))
  BY Unfold
<1>1. ASSUME NEW step \in {"uncount", "push"}, x \in Moving(step)
      PROVE  /\ Names(kind, who, x, x.first)
             /\ kind[x.first] = "cur" /\ pc[who[x.first]] = step
  <2>1. PICK t \in Threads : pc[t] = step /\ x = Span(step, t, 0, 0, cur[t], len[cur[t]])
    BY <1>1 DEF Moving
  <2>2. cur[t] \in Chunks /\ HoldsCur(t)
    BY <2>1, <1>0, Bounds DEF HandsOf, LocalOK, HoldsCur
  <2>3. kind[cur[t]] = "cur" /\ who[cur[t]] = t
    BY <2>2, <1>0 DEF CurAt
  <2>4. x.first = cur[t]
    BY <2>1, SpanFirst
  <2>. QED
    BY <2>1, <2>2, <2>3, <2>4 DEF Names
<1>2. ASSUME NEW step \in {"sweepUncount", "sweepInsert"}, x \in Swept(step)
      PROVE  /\ Names(kind, who, x, x.first)
             /\ kind[x.first] = "node" /\ pc[who[x.first]] = step
  <2>1. PICK t \in Threads : pc[t] = step /\ x = Span(step, t, 0, 0, node[t], len[node[t]])
    BY <1>2 DEF Swept
  <2>2. HoldsNode(t)
    BY <2>1 DEF HoldsNode
  <2>3. node[t] \in Chunks /\ kind[node[t]] = "node" /\ who[node[t]] = t
    BY <2>2, <1>0 DEF NodeAt
  <2>4. x.first = node[t]
    BY <2>1, SpanFirst
  <2>. QED
    BY <2>1, <2>3, <2>4 DEF Names
<1>3. ASSUME x \in Freeing
      PROVE  /\ Names(kind, who, x, x.first)
             /\ kind[x.first] = "cur" /\ pc[who[x.first]] \notin {"uncount", "push"}
  <2>1. PICK t \in Threads : /\ cur[t] # None
                             /\ class[t] > 0 \/ pc[t] \in {"park", "again", "return", "coalesce"}
                             /\ x = Span("freeing", t, 0, 0, cur[t], len[cur[t]])
    BY <1>3 DEF Freeing
  <2>2. HoldsCur(t)
    BY <2>1 DEF HoldsCur, Frees
  <2>3. cur[t] \in Chunks /\ kind[cur[t]] = "cur" /\ who[cur[t]] = t
    BY <2>2, <1>0 DEF CurAt
  <2>4. pc[t] \notin {"uncount", "push"}
    BY <2>1, <1>0 DEF HandsOf, LocalOK, Sweeps
  <2>5. x.first = cur[t]
    BY <2>1, SpanFirst
  <2>. QED
    BY <2>1, <2>3, <2>4, <2>5 DEF Names
<1>4. ASSUME x \in Fresh
      PROVE  Names(kind, who, x, x.first) \/ (x.first \in Nat /\ x.first > Region)
  <2>1. CASE \E t \in Threads : pc[t] = "commit" /\ x = Span("commit", t, 0, 0, cur[t], want[t])
    <3>1. PICK t \in Threads : pc[t] = "commit" /\ x = Span("commit", t, 0, 0, cur[t], want[t])
      BY <2>1
    <3>2. x.first = cur[t] /\ cur[t] \in Nat /\ cur[t] >= 1
      BY <3>1, <1>0, SpanFirst DEF HandsOf, LocalOK
    <3>3. CASE cur[t] \in Chunks
      <4>1. kind[cur[t]] = "fresh" /\ who[cur[t]] = t
        BY <3>1, <3>3, <1>0 DEF FreshAt
      <4>. QED
        BY <3>1, <3>2, <3>3, <4>1 DEF Names
    <3>4. CASE cur[t] \notin Chunks
      BY <3>2, <3>4, ChunkIs, Bounds
    <3>. QED
      BY <3>3, <3>4
  <2>2. CASE \E t \in Threads :
                /\ pc[t] = "extendCommit"
                /\ x = Span("tail", t, 0, 0, cur[t] + len[cur[t]], want[t] - len[cur[t]])
    <3>1. PICK t \in Threads :
             /\ pc[t] = "extendCommit"
             /\ x = Span("tail", t, 0, 0, cur[t] + len[cur[t]], want[t] - len[cur[t]])
      BY <2>2
    <3>2. PICK r : r = cur[t] + len[cur[t]]
      OBVIOUS
    <3>3. r \in Chunks /\ kind[r] = "tail" /\ who[r] = t
      BY <3>1, <3>2, <1>0 DEF TailAt
    <3>4. x = Span("tail", who[r], 0, 0, r, want[who[r]] - len[cur[who[r]]]) /\ x.first = r
      BY <3>1, <3>2, <3>3, SpanFirst
    <3>. QED
      BY <3>3, <3>4 DEF Names
  <2>. QED
    BY <1>4, <2>1, <2>2 DEF Fresh
<1>. QED
  BY <1>1, <1>2, <1>3, <1>4

LEMMA NamedHands ==
    ASSUME NEW kind, NEW who, NEW size, TypeOK, PoolOK(kind, who, size),
           NEW x, NEW h, Names(kind, who, x, h)
    PROVE  /\ kind[h] = "cur" /\ pc[who[h]] \in {"uncount", "push"} => x \in Moving(pc[who[h]])
           /\ kind[h] = "cur" /\ pc[who[h]] \notin {"uncount", "push"} => x \in Freeing
           /\ kind[h] = "node" =>
                 pc[who[h]] \in {"sweepUncount", "sweepInsert"} /\ x \in Swept(pc[who[h]])
           /\ kind[h] \in {"fresh", "tail"} => x \in Fresh
<1>0. /\ CurAt(kind, who) /\ NodeAt(kind, who) /\ FreshAt(kind, who) /\ TailAt(kind, who)
      /\ h \in Chunks
  BY Unfold DEF Names
<1>t. PICK t : t = who[h]
  OBVIOUS
<1>1. kind[h] = "cur" => t \in Threads /\ HoldsCur(t) /\ cur[t] = h
  BY <1>0, <1>t DEF CurAt
<1>2. ASSUME kind[h] = "cur", pc[who[h]] \in {"uncount", "push"} PROVE x \in Moving(pc[who[h]])
  <2>1. x = Span(pc[t], t, 0, 0, cur[t], len[cur[t]]) /\ t \in Threads
    BY <1>1, <1>2, <1>t DEF Names
  <2>. QED
    BY <2>1, <1>t DEF Moving
<1>3. ASSUME kind[h] = "cur", pc[who[h]] \notin {"uncount", "push"} PROVE x \in Freeing
  <2>1. x = Span("freeing", t, 0, 0, cur[t], len[cur[t]]) /\ t \in Threads
    BY <1>1, <1>3, <1>t DEF Names
  <2>2. cur[t] # None /\ (class[t] > 0 \/ pc[t] \in {"park", "again", "return", "coalesce"})
    BY <1>1, <1>3, <1>t DEF HoldsCur, Frees
  <2>. QED
    BY <2>1, <2>2 DEF Freeing
<1>4. ASSUME kind[h] = "node"
      PROVE  pc[who[h]] \in {"sweepUncount", "sweepInsert"} /\ x \in Swept(pc[who[h]])
  <2>1. t \in Threads /\ pc[t] \in {"sweepUncount", "sweepInsert"} /\ node[t] = h
    BY <1>0, <1>4, <1>t DEF NodeAt, HoldsNode
  <2>2. x = Span(pc[t], t, 0, 0, node[t], len[node[t]])
    BY <2>1, <1>4, <1>t DEF Names
  <2>. QED
    BY <2>1, <2>2, <1>t DEF Swept
<1>5. ASSUME kind[h] = "fresh" PROVE x \in Fresh
  <2>1. t \in Threads /\ pc[t] = "commit" /\ cur[t] = h
    BY <1>0, <1>5, <1>t DEF FreshAt
  <2>2. x = Span("commit", t, 0, 0, cur[t], want[t])
    BY <2>1, <1>5, <1>t DEF Names
  <2>. QED
    BY <2>1, <2>2 DEF Fresh
<1>6. ASSUME kind[h] = "tail" PROVE x \in Fresh
  <2>1. t \in Threads /\ pc[t] = "extendCommit" /\ cur[t] + len[cur[t]] = h
    BY <1>0, <1>6, <1>t DEF TailAt
  <2>2. x = Span("tail", t, 0, 0, cur[t] + len[cur[t]], want[t] - len[cur[t]])
    BY <2>1, <1>6, <1>t DEF Names
  <2>. QED
    BY <2>1, <2>2 DEF Fresh
<1>. QED
  BY <1>2, <1>3, <1>4, <1>5, <1>6

-----------------------------------------------------------------------------
LEMMA HoldingNamed ==
    ASSUME NEW kind, NEW who, NEW size, TypeOK, PoolOK(kind, who, size), NEW x \in Holdings
    PROVE  Names(kind, who, x, x.first) \/ (x.first \in Nat /\ x.first > Region)
<1>0. LiveAt(kind) /\ LostAt(kind) /\ lost \subseteq Chunks
  BY Unfold DEF TypeOK
<1>1. CASE x \in {Span("live", None, 0, 0, h, len[h]) : h \in {g \in Chunks : live[g] > 0}}
  <2>1. PICK h \in Chunks : live[h] > 0 /\ x = Span("live", None, 0, 0, h, len[h])
    BY <1>1
  <2>2. x.first = h /\ kind[h] = "live"
    BY <2>1, <1>0, SpanFirst DEF LiveAt
  <2>. QED
    BY <2>1, <2>2 DEF Names
<1>2. CASE x \in {Span("lost", None, 0, 0, c, 1) : c \in lost}
  <2>1. PICK h \in lost : x = Span("lost", None, 0, 0, h, 1)
    BY <1>2
  <2>2. x.first = h /\ kind[h] = "lost" /\ h \in Chunks
    BY <2>1, <1>0, SpanFirst DEF LostAt
  <2>. QED
    BY <2>1, <2>2 DEF Names
<1>3. CASE x \in Listed \cup Parked \cup Cached
  BY <1>3, TiersNamed
<1>4. CASE x \in Freeing \cup Fresh
  BY <1>4, HandsNamed
<1>5. CASE x \in Moving("uncount") \cup Moving("push")
  BY <1>5, HandsNamed
<1>6. CASE x \in Swept("sweepUncount") \cup Swept("sweepInsert")
  BY <1>6, HandsNamed
<1>. QED
  BY <1>1, <1>2, <1>3, <1>4, <1>5, <1>6 DEF Holdings

LEMMA NamedHolds ==
    ASSUME NEW kind, NEW who, NEW size, TypeOK, PoolOK(kind, who, size),
           NEW x, NEW h, Names(kind, who, x, h)
    PROVE  x \in Holdings
<1>0. LiveAt(kind) /\ LostAt(kind) /\ h \in Chunks
  BY Unfold DEF Names
<1>1. CASE kind[h] = "live"
  <2>1. x = Span("live", None, 0, 0, h, len[h]) /\ live[h] > 0
    BY <1>0, <1>1 DEF Names, LiveAt
  <2>. QED
    BY <2>1, <1>0 DEF Holdings
<1>2. CASE kind[h] = "lost"
  <2>1. x = Span("lost", None, 0, 0, h, 1) /\ h \in lost
    BY <1>0, <1>2 DEF Names, LostAt
  <2>. QED
    BY <2>1 DEF Holdings
<1>3. CASE kind[h] \in {"list", "parked", "cache"}
  <2>1. x \in Listed \cup Parked \cup Cached
    BY <1>3, NamedTiers
  <2>. QED
    BY <2>1 DEF Holdings
<1>4. CASE kind[h] \in {"cur", "node", "fresh", "tail"}
  <2>1. \/ x \in Freeing \/ x \in Fresh \/ x \in Moving("uncount") \/ x \in Moving("push")
        \/ x \in Swept("sweepUncount") \/ x \in Swept("sweepInsert")
    BY <1>4, NamedHands
  <2>. QED
    BY <2>1 DEF Holdings
<1>. QED
  BY <1>1, <1>2, <1>3, <1>4 DEF Names

LEMMA PoolTiling == PoolInv => Tiling
<1>. SUFFICES ASSUME PoolInv, NEW c \in Chunks
              PROVE  Cardinality({x \in Holdings : Covers(x, c)}) = IF c <= cursor THEN 1 ELSE 0
  BY DEF Tiling
<1>1. PICK kind, who, size : TypeOK /\ PoolOK(kind, who, size)
  BY DEF PoolInv
<1>2. Tiles(kind, size, cursor) /\ size \in [Chunks -> Nat] /\ cursor \in Nat
  BY <1>1, Unfold DEF MapType, TypeOK
<1>3. c \in Nat /\ c <= Region /\ Region \in Nat
  BY ChunkIs, Bounds
<1>4. ASSUME NEW x \in Holdings, Covers(x, c)
      PROVE  /\ Names(kind, who, x, x.first) /\ x.first \in Chunks /\ Busy(kind, x.first)
             /\ x.first <= c /\ c < x.first + size[x.first]
  <2>1. x.first <= c /\ c < x.first + x.size
    BY <1>4 DEF Covers
  <2>2. Names(kind, who, x, x.first)
    <3>1. Names(kind, who, x, x.first) \/ (x.first \in Nat /\ x.first > Region)
      BY <1>1, HoldingNamed
    <3>2. ASSUME x.first \in Nat, x.first > Region PROVE FALSE
      BY <2>1, <3>2, <1>3
    <3>. QED
      BY <3>1, <3>2
  <2>3. x.size = size[x.first] /\ Busy(kind, x.first) /\ x.first \in Chunks
    BY <2>2, <1>1, NameLong
  <2>. QED
    BY <2>1, <2>2, <2>3
<1>5. CASE c <= cursor
  <2>1. PICK h \in Chunks : Busy(kind, h) /\ h <= c /\ c < h + size[h]
    BY <1>2, <1>5 DEF Tiles
  <2>2. PICK x : Names(kind, who, x, h)
    BY <2>1, <1>1, NameIs
  <2>3. x.first = h /\ x.size = size[h] /\ x \in Holdings
    <3>1. x.first = h /\ x.size = size[h]
      BY <2>2, <1>1, NameLong
    <3>2. x \in Holdings
      BY <2>2, <1>1, NamedHolds
    <3>. QED
      BY <3>1, <3>2
  <2>4. Covers(x, c)
    BY <2>1, <2>3 DEF Covers
  <2>5. ASSUME NEW y \in Holdings, Covers(y, c) PROVE y = x
    <3>1. PICK g \in Chunks : g = y.first
      BY <2>5, <1>4
    <3>2. Names(kind, who, y, g) /\ Busy(kind, g) /\ g <= c /\ c < g + size[g]
      BY <2>5, <3>1, <1>4
    <3>3. g = h
      <4>1. g \in Nat /\ h \in Nat /\ size[g] \in Nat /\ size[h] \in Nat
        BY <1>2, ChunkIs
      <4>2. ~(g < h) /\ ~(h < g)
        BY <2>1, <3>2, <4>1, <1>2, <1>3 DEF Tiles
      <4>. QED
        BY <4>1, <4>2
    <3>. QED
      BY <2>2, <3>2, <3>3, <1>1, NameIsOne
  <2>6. {y \in Holdings : Covers(y, c)} = {x}
    BY <2>3, <2>4, <2>5
  <2>. QED
    BY <2>6, <1>5, FS_Singleton
<1>6. CASE ~(c <= cursor)
  <2>1. ASSUME NEW x \in Holdings, Covers(x, c) PROVE FALSE
    <3>1. PICK g \in Chunks : g = x.first
      BY <2>1, <1>4
    <3>2. Busy(kind, g) /\ c < g + size[g]
      BY <2>1, <3>1, <1>4
    <3>3. g + size[g] - 1 <= cursor /\ g \in Nat /\ size[g] \in Nat
      BY <3>2, <1>2, ChunkIs DEF Tiles
    <3>. QED
      BY <3>2, <3>3, <1>2, <1>3, <1>6
  <2>2. {x \in Holdings : Covers(x, c)} = {}
    BY <2>1
  <2>. QED
    BY <2>2, <1>6, FS_EmptySet
<1>. QED
  BY <1>5, <1>6

(* Every chunk taken from the region is in one span and in one place, and   *)
(* no chunk is lost between two: whatever is cut, merged, parked, swept or  *)
(* extended, and however the threads' steps fall.                           *)
THEOREM RegionIsTiled == Spec => []Tiling
BY PoolInvariant, PoolTiling, PTL

-----------------------------------------------------------------------------
LEMMA PoolCounts == PoolInv => CountIsExact
<1>. SUFFICES ASSUME PoolInv PROVE CountIsExact
  OBVIOUS
<1>1. PICK kind, who, size : TypeOK /\ PoolOK(kind, who, size)
  BY DEF PoolInv
<1>2. CountOK(kind, who) /\ SizeAt(kind, who, size) /\ bytes <= Ceiling
  BY <1>1, Unfold
<1>3. PICK S :
        S = Parked \cup Moving("push") \cup Moving("uncount") \cup Swept("sweepUncount")
  OBVIOUS
<1>4. PICK w : w = Counted(kind, who)
  OBVIOUS
<1>5. \A h \in Chunks : w[h] = (IF IsCounted(kind, who, h) THEN len[h] ELSE 0) /\ w[h] \in Nat
  <2>1. \A h \in Chunks : w[h] = (IF IsCounted(kind, who, h) THEN len[h] ELSE 0)
    BY <1>4 DEF Counted
  <2>. QED
    BY <2>1, <1>1 DEF TypeOK
<1>6. \A x \in S : Names(kind, who, x, x.first) /\ IsCounted(kind, who, x.first)
  <2>. SUFFICES ASSUME NEW x \in S
                PROVE  Names(kind, who, x, x.first) /\ IsCounted(kind, who, x.first)
    OBVIOUS
  <2>1. CASE x \in Parked
    <3>1. Names(kind, who, x, x.first) /\ kind[x.first] = "parked"
      BY <2>1, <1>1, TiersNamed
    <3>. QED
      BY <3>1 DEF IsCounted
  <2>2. CASE x \in Moving("push")
    <3>1. Names(kind, who, x, x.first) /\ kind[x.first] = "cur" /\ pc[who[x.first]] = "push"
      BY <2>2, <1>1, HandsNamed
    <3>. QED
      BY <3>1 DEF IsCounted
  <2>3. CASE x \in Moving("uncount")
    <3>1. Names(kind, who, x, x.first) /\ kind[x.first] = "cur" /\ pc[who[x.first]] = "uncount"
      BY <2>3, <1>1, HandsNamed
    <3>. QED
      BY <3>1 DEF IsCounted
  <2>4. CASE x \in Swept("sweepUncount")
    <3>1. /\ Names(kind, who, x, x.first)
          /\ kind[x.first] = "node" /\ pc[who[x.first]] = "sweepUncount"
      BY <2>4, <1>1, HandsNamed
    <3>. QED
      BY <3>1 DEF IsCounted
  <2>. QED
    BY <2>1, <2>2, <2>3, <2>4, <1>3
<1>7. \A x \in S : x.first \in Chunks /\ x.size = w[x.first]
  <2>. SUFFICES ASSUME NEW x \in S PROVE x.first \in Chunks /\ x.size = w[x.first]
    OBVIOUS
  <2>1. PICK h : h = x.first
    OBVIOUS
  <2>2. Names(kind, who, x, h) /\ IsCounted(kind, who, h)
    BY <2>1, <1>6
  <2>3. h \in Chunks /\ x.size = size[h]
    BY <2>2, <1>1, NameLong
  <2>4. size[h] = len[h]
    BY <2>2, <2>3, <1>2 DEF SizeAt, SpanKinds, IsCounted
  <2>. QED
    BY <2>1, <2>2, <2>3, <2>4, <1>5
<1>8. \A x, y \in S : x.first = y.first => x = y
  <2>. SUFFICES ASSUME NEW x \in S, NEW y \in S, x.first = y.first PROVE x = y
    OBVIOUS
  <2>1. PICK h : h = x.first
    OBVIOUS
  <2>2. Names(kind, who, x, h) /\ Names(kind, who, y, h)
    BY <2>1, <1>6
  <2>. QED
    BY <2>2, <1>1, NameIsOne
<1>9. \A h \in Chunks : w[h] # 0 => \E x \in S : x.first = h
  <2>. SUFFICES ASSUME NEW h \in Chunks, w[h] # 0 PROVE \E x \in S : x.first = h
    OBVIOUS
  <2>1. IsCounted(kind, who, h)
    BY <1>5
  <2>2. Busy(kind, h)
    BY <2>1 DEF IsCounted, Busy
  <2>3. PICK x : Names(kind, who, x, h)
    BY <2>2, <1>1, NameIs
  <2>4. x.first = h
    BY <2>3, <1>1, NameLong
  <2>5. x \in S
    <3>1. CASE kind[h] = "parked"
      BY <2>3, <3>1, <1>1, <1>3, NamedTiers
    <3>2. CASE kind[h] = "cur" /\ pc[who[h]] \in {"push", "uncount"}
      <4>1. x \in Moving(pc[who[h]])
        BY <2>3, <3>2, <1>1, NamedHands
      <4>. QED
        BY <3>2, <4>1, <1>3
    <3>3. CASE kind[h] = "node" /\ pc[who[h]] = "sweepUncount"
      <4>1. x \in Swept(pc[who[h]])
        BY <2>3, <3>3, <1>1, NamedHands
      <4>. QED
        BY <3>3, <4>1, <1>3
    <3>. QED
      BY <2>1, <3>1, <3>2, <3>3 DEF IsCounted
  <2>. QED
    BY <2>4, <2>5
<1>10. SumIs(w, bytes)
  BY <1>2, <1>4 DEF CountOK
<1>11. MapThenSumSet(LAMBDA x : x.size, S) = bytes
  BY <1>5, <1>7, <1>8, <1>9, <1>10, SumOver
<1>. QED
  BY <1>2, <1>3, <1>11 DEF CountIsExact

(* The bytes counted as parked are those of the spans parked, about to be,  *)
(* or just taken out, and they stay under the ceiling.                      *)
THEOREM CountStaysExact == Spec => []CountIsExact
BY PoolInvariant, PoolCounts, PTL

-----------------------------------------------------------------------------
(* What the program has of its spans: in the region, and apart.             *)
Fitting ==
    /\ \A h \in Chunks : live[h] > 0 => h + live[h] - 1 \in Chunks
    /\ \A g, h \in Chunks : live[g] > 0 /\ live[h] > 0 /\ g < h => g + live[g] <= h

LEMMA PoolFits == PoolInv => Fitting
<1>. SUFFICES ASSUME PoolInv PROVE Fitting
  OBVIOUS
<1>1. PICK kind, who, size : TypeOK /\ PoolOK(kind, who, size)
  BY DEF PoolInv
<1>2. LiveAt(kind) /\ Tiles(kind, size, cursor)
  BY <1>1, Unfold
<1>3. ASSUME NEW h \in Chunks, live[h] > 0
      PROVE  /\ Busy(kind, h) /\ size[h] = len[h] /\ live[h] <= size[h]
             /\ live[h] \in Nat /\ size[h] \in Nat /\ h + size[h] - 1 <= Region
  <2>1. kind[h] = "live" /\ live[h] <= len[h]
    BY <1>2, <1>3 DEF LiveAt
  <2>2. kind[h] \in SpanKinds
    BY <2>1 DEF SpanKinds
  <2>3. /\ len[h] \in Nat /\ size[h] = len[h] /\ h + len[h] - 1 <= Region
        /\ live[h] \in Nat
    BY <1>1, <2>2, SpanIs
  <2>. QED
    BY <2>1, <2>3 DEF Busy
<1>4. \A h \in Chunks : live[h] > 0 => h + live[h] - 1 \in Chunks
  BY <1>3, ChunkIs, Bounds
<1>5. ASSUME NEW g \in Chunks, NEW h \in Chunks, live[g] > 0, live[h] > 0, g < h
      PROVE  g + live[g] <= h
  <2>1. g + size[g] <= h
    BY <1>2, <1>3, <1>5 DEF Tiles
  <2>. QED
    BY <1>3, <1>5, <2>1, ChunkIs
<1>. QED
  BY <1>4, <1>5 DEF Fitting

(* What a step does to it: nothing, or one span is given back, given out,   *)
(* or made longer.                                                          *)
Deals ==
    \/ live' = live
    \/ \E h \in Chunks, n \in Nat :
          /\ live' = [live EXCEPT ![h] = n]
          /\ n = 0 \/ live[h] < n

LEMMA DealsMaps ==
    ASSUME live \in [Chunks -> Nat], Fitting', Deals
    PROVE  [Heap!Next]_{<<h, live[h]>> : h \in {g \in Chunks : live[g] > 0}}
<1>o. PICK out : out = {<<h, live[h]>> : h \in {g \in Chunks : live[g] > 0}}
  OBVIOUS
<1>p. PICK out2 : out2 = {<<h, live'[h]>> : h \in {g \in Chunks : live'[g] > 0}}
  OBVIOUS
<1>1. CASE live' = live
  BY <1>1
<1>2. CASE \E h \in Chunks, n \in Nat :
          /\ live' = [live EXCEPT ![h] = n]
          /\ n = 0 \/ live[h] < n
  <2>1. PICK h \in Chunks : \E n \in Nat :
          /\ live' = [live EXCEPT ![h] = n]
          /\ n = 0 \/ live[h] < n
    BY <1>2
  <2>2. PICK n \in Nat :
          /\ live' = [live EXCEPT ![h] = n]
          /\ n = 0 \/ live[h] < n
    BY <2>1
  <2>3. /\ live'[h] = n /\ live[h] \in Nat
        /\ \A g \in Chunks : g # h => live'[g] = live[g]
    BY <2>2
  <2>4. CASE live[h] = 0 /\ n = 0
    <3>1. live' = live
      BY <2>2, <2>4
    <3>. QED
      BY <3>1, <1>1
  <2>5. CASE live[h] > 0 /\ n = 0
    <3>1. <<h, live[h]>> \in out
      BY <2>5, <1>o
    <3>2. out2 = out \ {<<h, live[h]>>}
      BY <2>3, <2>5, <1>o, <1>p
    <3>3. Heap!TakeBack(<<h, live[h]>>)
      BY <3>1, <3>2, <1>o, <1>p DEF Heap!TakeBack
    <3>4. \E x \in out : Heap!TakeBack(x)
      BY <3>1, <3>3, Zenon DEF Heap!TakeBack
    <3>. QED
      BY <3>4, <1>o DEF Heap!Next
  <2>6. CASE live[h] < n
    <3>1. h + n - 1 \in Chunks /\ n \in Chunks /\ n > 0
      <4>1. h + n - 1 \in Chunks /\ n > 0
        BY <2>3, <2>6 DEF Fitting
      <4>. QED
        BY <4>1, ChunkIs, Bounds
    <3>2. Heap!InChunks(<<h, n>>)
      BY <3>1 DEF Heap!InChunks
    <3>3. ASSUME NEW x \in out, x # <<h, live[h]>>
          PROVE  Heap!Apart(x, <<h, n>>)
      <4>1. PICK g \in Chunks : x = <<g, live[g]>> /\ live[g] > 0
        BY <1>o
      <4>2. g # h /\ live'[g] = live[g] /\ live[g] \in Nat
        BY <3>3, <4>1, <2>3
      <4>3. g + live[g] <= h \/ h + n <= g
        BY <2>3, <3>1, <4>1, <4>2, ChunkIs DEF Fitting
      <4>. QED
        BY <4>1, <4>3 DEF Heap!Apart
    <3>4. CASE live[h] = 0
      <4>1. <<h, live[h]>> \notin out
        BY <1>o, <3>4
      <4>2. out2 = out \cup {<<h, n>>}
        BY <2>3, <3>1, <3>4, <1>o, <1>p
      <4>3. \A x \in out : Heap!Apart(x, <<h, n>>)
        BY <3>3, <4>1
      <4>4. Heap!HandOut(h, n)
        BY <3>2, <4>2, <4>3, <1>o, <1>p DEF Heap!HandOut
      <4>. QED
        BY <3>1, <4>4 DEF Heap!Next
    <3>5. CASE live[h] > 0
      <4>1. <<h, live[h]>> \in out
        BY <1>o, <3>5
      <4>2. out2 = (out \ {<<h, live[h]>>}) \cup {<<h, n>>}
        BY <2>3, <3>1, <3>5, <1>o, <1>p
      <4>3. \A y \in out \ {<<h, live[h]>>} : Heap!Apart(y, <<h, n>>)
        BY <3>3
      <4>4. Heap!Grow(<<h, live[h]>>, n)
        <5>1. <<h, live[h]>>[1] = h /\ <<h, live[h]>>[2] = live[h]
          OBVIOUS
        <5>. QED
          BY <5>1, <2>6, <3>2, <4>1, <4>2, <4>3, <1>o, <1>p DEF Heap!Grow
      <4>5. \E x \in out : \E m \in Chunks : Heap!Grow(x, m)
        BY <3>1, <4>1, <4>4
      <4>. QED
        BY <4>5, <1>o DEF Heap!Next
    <3>. QED
      BY <2>3, <3>4, <3>5
  <2>. QED
    BY <2>2, <2>3, <2>4, <2>5, <2>6
<1>. QED
  BY <1>1, <1>2 DEF Deals

LEMMA Given ==
    ASSUME NEW h \in Chunks, NEW n \in Nat, n >= 1,
           live[h] = 0, live' = [live EXCEPT ![h] = @ + n]
    PROVE  Deals
<1>1. live' = [live EXCEPT ![h] = n]
  <2>1. live' = [live EXCEPT ![h] = live[h] + n]
    OBVIOUS
  <2>. QED
    BY <2>1
<1>2. live[h] < n
  OBVIOUS
<1>. QED
  BY <1>1, <1>2 DEF Deals

LEMMA AllocCachedDeals ==
    ASSUME NEW kind, NEW who, NEW size, TypeOK, PoolOK(kind, who, size),
           NEW t \in Threads, NEW n \in 1 .. MaxWant, AllocCached(t, n)
    PROVE  Deals
<1>0. CacheAt(kind, who)
  BY Unfold
<1>1. PICK h : h = Head(cache[t][n])
  OBVIOUS
<1>u. /\ t \in HasCache /\ n \in 1 .. CacheSlots /\ cache[t][n] # <<>>
      /\ live' = [live EXCEPT ![h] = @ + n]
  BY <1>1, Bounds DEF AllocCached
<1>2. h \in Chunks /\ h \in Range(cache[t][n])
  <2>1. cache[t] \in [1 .. CacheSlots -> Row]
    BY <1>u DEF TypeOK
  <2>2. cache[t][n] \in Row /\ IsInjective(cache[t][n])
    BY <2>1, <1>0, <1>u DEF CacheAt
  <2>. QED
    BY <2>2, <1>1, <1>u, RowTail
<1>3. kind[h] = "cache"
  BY <1>0, <1>2, <1>u DEF CacheAt
<1>4. kind[h] \in SpanKinds /\ n \in Nat /\ n >= 1
  BY <1>3, Bounds DEF SpanKinds
<1>5. live[h] = 0
  BY <1>2, <1>3, <1>4, SpanIs
<1>. QED
  BY <1>2, <1>4, <1>5, <1>u, Given

LEMMA UncountDeals ==
    ASSUME NEW kind, NEW who, NEW size, TypeOK, PoolOK(kind, who, size),
           NEW t \in Threads, Uncount(t)
    PROVE  Deals
<1>0. HandsOf(t) /\ CurAt(kind, who)
  BY Unfold
<1>1. PICK n : n = want[t]
  OBVIOUS
<1>2. PICK h : h = cur[t]
  OBVIOUS
<1>u. pc[t] = "uncount" /\ live' = [live EXCEPT ![h] = @ + n]
  BY <1>1, <1>2 DEF Uncount
<1>3. h \in Chunks /\ h # None /\ HoldsCur(t) /\ n >= 1 /\ n \in Nat
  BY <1>0, <1>1, <1>2, <1>u, Bounds
     DEF HandsOf, LocalOK, HandOK, Sweeps, Frees, HoldsCur, TypeOK
<1>4. kind[h] = "cur" /\ kind[h] \in SpanKinds
  BY <1>0, <1>2, <1>3 DEF CurAt, SpanKinds
<1>5. live[h] = 0
  BY <1>3, <1>4, SpanIs
<1>. QED
  BY <1>3, <1>5, <1>u, Given

LEMMA TakeDeals ==
    ASSUME NEW kind, NEW who, NEW size, TypeOK, PoolOK(kind, who, size),
           NEW t \in Threads, Take(t)
    PROVE  Deals
<1>0. HandsOf(t) /\ ListAt(kind, who)
  BY Unfold
<1>1. PICK n : n = want[t]
  OBVIOUS
<1>c. pc[t] = "take"
  BY DEF Take
<1>2. PICK k \in n .. MaxSpan :
        list[k] # <<>> /\ live' = [live EXCEPT ![Head(list[k])] = @ + n]
  BY <1>1 DEF Take
<1>3. PICK h : h = Head(list[k])
  OBVIOUS
<1>4. n \in Nat /\ n >= 1 /\ k \in 1 .. MaxSpan
  <2>1. n \in Nat /\ n >= 1
    BY <1>0, <1>1, <1>c DEF HandsOf, LocalOK, TypeOK
  <2>. QED
    BY <2>1, <1>2, Bounds
<1>5. h \in Chunks /\ h \in Range(list[k])
  <2>1. list[k] \in Row /\ IsInjective(list[k])
    BY <1>0, <1>4 DEF ListAt, TypeOK
  <2>. QED
    BY <2>1, <1>2, <1>3, RowTail
<1>6. kind[h] = "list" /\ kind[h] \in SpanKinds
  BY <1>0, <1>4, <1>5 DEF ListAt, SpanKinds
<1>7. live[h] = 0
  BY <1>5, <1>6, SpanIs
<1>8. live' = [live EXCEPT ![h] = @ + n]
  BY <1>2, <1>3
<1>. QED
  BY <1>4, <1>5, <1>7, <1>8, Given

LEMMA CommitDeals ==
    ASSUME NEW kind, NEW who, NEW size, TypeOK, PoolOK(kind, who, size),
           NEW t \in Threads, Commit(t)
    PROVE  Deals
<1>0. HandsOf(t) /\ FreshAt(kind, who) /\ LiveAt(kind)
  BY Unfold
<1>h. PICK h : h = cur[t]
  OBVIOUS
<1>w. PICK n : n = want[t]
  OBVIOUS
<1>1. pc[t] = "commit" /\ h + n - 1 <= Region /\ live' = [live EXCEPT ![h] = @ + n]
  BY <1>h, <1>w DEF Commit
<1>2. h \in Nat /\ h >= 1 /\ n \in Nat /\ n >= 1
  BY <1>0, <1>1, <1>h, <1>w DEF HandsOf, LocalOK, TypeOK
<1>3. h \in Chunks
  BY <1>1, <1>2, Bounds, ChunkIs
<1>4. kind[h] = "fresh"
  BY <1>0, <1>1, <1>3, <1>h DEF FreshAt
<1>5. live[h] = 0
  BY <1>0, <1>3, <1>4 DEF LiveAt, TypeOK
<1>. QED
  BY <1>1, <1>2, <1>3, <1>5, Given

LEMMA ExtendDeals ==
    ASSUME NEW kind, NEW who, NEW size, TypeOK, PoolOK(kind, who, size),
           NEW t \in Threads, ExtendDone(t) \/ ExtendCommit(t)
    PROVE  Deals
<1>0. HandsOf(t) /\ GrowAt(kind)
  BY Unfold
<1>1. pc[t] \in Extends /\ live' = [live EXCEPT ![cur[t]] = want[t]]
  BY DEF ExtendDone, ExtendCommit, Extends
<1>2. cur[t] \in Chunks /\ live[cur[t]] < want[t] /\ want[t] \in Nat
  BY <1>0, <1>1 DEF GrowAt, TypeOK
<1>. QED
  BY <1>1, <1>2 DEF Deals

(* Whatever the step, ...                                                   *)
LEMMA NextDeals ==
    ASSUME NEW kind, NEW who, NEW size, TypeOK, PoolOK(kind, who, size), [Next]_vars
    PROVE  Deals
<1>1. CASE UNCHANGED vars
  BY <1>1 DEF vars, Deals
<1>2. CASE Next
  <2>1. PICK t \in Threads :
          \/ \E n \in 1 .. MaxWant : AllocCached(t, n) \/ AllocBegin(t, n)
          \/ \E h \in Chunks : FreeCached(t, h) \/ FreeBegin(t, h)
          \/ \E h \in Chunks, n \in 1 .. MaxWant : ExtendBegin(t, h, n)
          \/ Trim(t)
          \/ Allocate(t) \/ Release(t) \/ Sweep(t) \/ Extend(t)
    BY <1>2 DEF Next
  <2>2. CASE \E n \in 1 .. MaxWant : AllocCached(t, n) \/ AllocBegin(t, n)
    <3>1. \A n \in 1 .. MaxWant : AllocBegin(t, n) => live' = live
      BY DEF AllocBegin
    <3>. QED
      BY <2>2, <3>1, AllocCachedDeals DEF Deals
  <2>3. CASE \E h \in Chunks : FreeCached(t, h) \/ FreeBegin(t, h)
    <3>1. PICK h \in Chunks : FreeCached(t, h) \/ FreeBegin(t, h)
      BY <2>3
    <3>2. live' = [live EXCEPT ![h] = 0]
      BY <3>1 DEF FreeCached, FreeBegin
    <3>. QED
      BY <3>2 DEF Deals
  <2>4. CASE \E h \in Chunks, n \in 1 .. MaxWant : ExtendBegin(t, h, n)
    BY <2>4 DEF ExtendBegin, Deals
  <2>5. CASE Trim(t)
    BY <2>5 DEF Trim, Deals
  <2>6. CASE Allocate(t)
    <3>1. Unpark(t) \/ TakeNone(t) \/ TakeChunks(t) \/ CommitRefused(t) => live' = live
      BY DEF Unpark, TakeNone, TakeChunks, CommitRefused
    <3>. QED
      BY <2>6, <3>1, UncountDeals, TakeDeals, CommitDeals DEF Allocate, Deals
  <2>7. CASE Release(t)
    BY <2>7 DEF Release, Deals, Reserve, Push, Refused, Again, Return, Coalesce, Relist
  <2>8. CASE Sweep(t)
    BY <2>8 DEF Sweep, Deals, SweepPop, SweepUncount, SweepInsert, MergePick, MergeAbsorb,
                MergeRelist, SweepEnd
  <2>9. CASE Extend(t)
    <3>1. ExtendAbsorb(t) \/ ExtendCursor(t) \/ ExtendRefused(t) => live' = live
      BY DEF ExtendAbsorb, ExtendCursor, ExtendRefused
    <3>. QED
      BY <2>9, <3>1, ExtendDeals DEF Extend, Deals
  <2>. QED
    BY <2>1, <2>2, <2>3, <2>4, <2>5, <2>6, <2>7, <2>8, <2>9
<1>. QED
  BY <1>1, <1>2

(* The pool keeps the promise of SpanHeap: what is handed out is in the     *)
(* region and overlaps nothing that is out, however it was cut, merged,     *)
(* parked or grown on the way, and a span grows only where it is.           *)
THEOREM PoolImplementsHeap == Spec => ImplementsSpanHeap
<1>1. Init => Heap!Init
  BY DEF Init, Heap!Init
<1>2. PoolInv /\ Fitting' /\ [Next]_vars =>
         [Heap!Next]_{<<h, live[h]>> : h \in {g \in Chunks : live[g] > 0}}
  <2>. SUFFICES ASSUME PoolInv, Fitting', [Next]_vars
                PROVE  [Heap!Next]_{<<h, live[h]>> : h \in {g \in Chunks : live[g] > 0}}
    OBVIOUS
  <2>1. PICK kind, who, size : TypeOK /\ PoolOK(kind, who, size)
    BY DEF PoolInv
  <2>2. Deals
    BY <2>1, NextDeals
  <2>3. live \in [Chunks -> Nat]
    BY <2>1 DEF TypeOK
  <2>. QED
    BY <2>2, <2>3, DealsMaps
<1>. QED
  BY <1>1, <1>2, PoolInvariant, PoolFits, PTL DEF Spec, ImplementsSpanHeap, Heap!Spec

=============================================================================
