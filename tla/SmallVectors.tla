----------------------------- MODULE SmallVectors -----------------------------
(***************************************************************************)
(* util::SmallVector (small_vector.h): a vector whose first elements live   *)
(* inside it and which moves to a block of host_alloc when they are more,   *)
(* and never back.  Copies, moves and swaps carry elements or blocks from   *)
(* one vector to another.  The answer of host_alloc is not looked at, and   *)
(* it may be a null pointer.  Assumed of the program: an argument never is  *)
(* an element of the vector itself, for growing frees what it refers to.    *)
(***************************************************************************)
EXTENDS Integers, Sequences, SequencesExt, FiniteSets

CONSTANTS Vectors,
          Elements,
          Unwritten,      \* what nobody wrote
          Inline,     \* N
          MaxElements, \* bound: length of a vector
          MaxEdits    \* bound: operations

ASSUME VectorsAssumption ==
    Inline \in Nat \ {0} /\ MaxElements \in Nat /\ MaxEdits \in Nat /\ Unwritten \notin Elements

VARIABLES vec,     \* by vector: [heap, size, cap, inside]; heap 0 is a null pointer
          heaps,   \* blocks of host_alloc that are there: [id, cells]
          fate,    \* of the program: it runs, ended, or wrote past a vector
          refused, \* history: an empty vector was refused the room it reserved
          ideal,   \* history: the sequence each should be
          edits    \* history: operations

vectorVars == <<vec, heaps, fate, refused, ideal, edits>>

NoElements == [i \in 1 .. Inline |-> Unwritten]
Hollow == [heap |-> 0, size |-> 0, cap |-> Inline, inside |-> NoElements]

VectorsInit ==
    /\ vec = [v \in Vectors |-> Hollow]
    /\ heaps = {} /\ fate = "runs" /\ refused = FALSE
    /\ ideal = [v \in Vectors |-> <<>>] /\ edits = 0

-----------------------------------------------------------------------------
(* The pieces: a pair <<vector, blocks>> goes through each.                  *)
CellsOf(hs, id) == (CHOOSE h \in hs : h.id = id).cells
DataOf(x, hs) == IF x.heap # 0 THEN CellsOf(hs, x.heap) ELSE x.inside
\* The cells there are at data(), and places its capacity has beside them.
Held(x) == IF x.heap # 0 THEN x.cap ELSE Inline
Beyond(x, n) == n > Held(x) /\ n <= x.cap
Spare(hs) == CHOOSE id \in 1 .. Cardinality(hs) + 1 : \A h \in hs : h.id # id
Dropped(hs, id) == {h \in hs : h.id # id}

\* The first n cells over those of another place.
Laid(from, n, over) == [i \in DOMAIN over |-> IF i <= n THEN from[i] ELSE over[i]]

\* What is written at data().
Stored(p, cells) ==
    IF p[1].heap # 0
      THEN <<p[1], Dropped(p[2], p[1].heap) \cup {[id |-> p[1].heap, cells |-> cells]}>>
      ELSE <<[p[1] EXCEPT !.inside = cells], p[2]>>

\* release
Released(p) ==
    <<[p[1] EXCEPT !.heap = 0, !.cap = Inline, !.size = 0], Dropped(p[2], p[1].heap)>>

\* grow, when host_alloc has a block.  The mutant forgets the old one.
NextCap(x, least) == IF 2 * x.cap < least THEN least ELSE 2 * x.cap
GrownLeaky(p, least) ==
    LET next == NextCap(p[1], least)
        id == Spare(p[2])
        cells == Laid(DataOf(p[1], p[2]), p[1].size, [i \in 1 .. next |-> Unwritten])
    IN <<[p[1] EXCEPT !.heap = id, !.cap = next], p[2] \cup {[id |-> id, cells |-> cells]}>>
GrownTo(p, least) ==
    LET next == NextCap(p[1], least)
        id == Spare(p[2])
        cells == Laid(DataOf(p[1], p[2]), p[1].size, [i \in 1 .. next |-> Unwritten])
    IN <<[p[1] EXCEPT !.heap = id, !.cap = next],
         Dropped(p[2], p[1].heap) \cup {[id |-> id, cells |-> cells]}>>

Roomy(p, n) == IF n > p[1].cap THEN GrownTo(p, n) ELSE p

\* copy_from, over a vector that was released, when host_alloc has a block.
CopiedFrom(p, o) ==
    LET id == Spare(p[2])
        at == IF o.size > Inline
                THEN <<[p[1] EXCEPT !.heap = id, !.cap = o.size],
                       p[2] \cup {[id |-> id, cells |-> [i \in 1 .. o.size |-> Unwritten]]}>>
                ELSE p
        q == Stored(at, Laid(DataOf(o, p[2]), o.size, DataOf(at[1], at[2])))
    IN <<[q[1] EXCEPT !.size = o.size], q[2]>>

\* move_from, over a vector that was released: both as they are after it.
MovedFrom(x, o) ==
    <<IF o.heap # 0 THEN [x EXCEPT !.heap = o.heap, !.cap = o.cap, !.size = o.size]
      ELSE [x EXCEPT !.inside = Laid(o.inside, o.size, @), !.size = o.size],
      [o EXCEPT !.heap = 0, !.cap = IF o.heap # 0 THEN Inline ELSE @, !.size = 0]>>

-----------------------------------------------------------------------------
(* The operations.                                                           *)
Edit(v, p, seq) ==
    /\ fate = "runs" /\ edits < MaxEdits /\ Len(seq) <= MaxElements
    /\ edits' = edits + 1 /\ UNCHANGED <<fate, refused>>
    /\ vec' = [vec EXCEPT ![v] = p[1]] /\ heaps' = p[2]
    /\ ideal' = [ideal EXCEPT ![v] = seq]
Now(v) == <<vec[v], heaps>>
Sized(p, n) == <<[p[1] EXCEPT !.size = n], p[2]>>

\* push_back, and insert_at at the end.
PushBack(v, e) ==
    LET p == Roomy(Now(v), vec[v].size + 1)
    IN /\ ~ Beyond(vec[v], vec[v].size + 1)
       /\ Edit(v, Sized(Stored(p, [DataOf(p[1], p[2]) EXCEPT ![vec[v].size + 1] = e]),
                        vec[v].size + 1),
               Append(ideal[v], e))

\* insert_at; at is where, from 1.
InsertInto(v, at, e) ==
    LET p == Roomy(Now(v), vec[v].size + 1)
        old == DataOf(p[1], p[2])
        shifted == [i \in DOMAIN old |-> IF i \in at + 1 .. vec[v].size + 1
                                           THEN old[i - 1] ELSE old[i]]
    IN /\ at <= vec[v].size /\ ~ Beyond(vec[v], vec[v].size + 1)
       /\ Edit(v, Sized(Stored(p, [shifted EXCEPT ![at] = e]), vec[v].size + 1),
               InsertAt(ideal[v], at, e))

EraseAt(v, at) ==
    LET old == DataOf(vec[v], heaps)
        shifted == [i \in DOMAIN old |-> IF i \in at .. vec[v].size - 1 THEN old[i + 1] ELSE old[i]]
    IN /\ at <= vec[v].size
       /\ Edit(v, Sized(Stored(Now(v), shifted), vec[v].size - 1), RemoveAt(ideal[v], at))

Resize(v, n, e) ==
    LET p == Roomy(Now(v), n)
        old == DataOf(p[1], p[2])
        filled == [i \in DOMAIN old |-> IF i \in vec[v].size + 1 .. n THEN e ELSE old[i]]
    IN /\ ~ Beyond(vec[v], n)
       /\ Edit(v, Sized(Stored(p, filled), n),
               [i \in 1 .. n |-> IF i <= Len(ideal[v]) THEN ideal[v][i] ELSE e])

Reserve(v, n) == Edit(v, Roomy(Now(v), n), ideal[v])
Clear(v) == Edit(v, Sized(Now(v), 0), <<>>)

\* operator= of another vector.
CopyAssign(v, w) ==
    LET o == vec[w]
        over == Stored(Now(v), Laid(DataOf(o, heaps), o.size, DataOf(vec[v], heaps)))
    IN /\ v # w /\ ~ Beyond(vec[v], o.size)
       /\ Edit(v, IF o.size > vec[v].cap THEN CopiedFrom(Released(Now(v)), o)
                  ELSE Sized(over, o.size),
               ideal[w])

\* A change of two of them.
Pair(v, w, x, y, hs, vs, ws) ==
    /\ v # w /\ fate = "runs" /\ edits < MaxEdits
    /\ edits' = edits + 1 /\ UNCHANGED <<fate, refused>>
    /\ vec' = [vec EXCEPT ![v] = x, ![w] = y] /\ heaps' = hs
    /\ ideal' = [ideal EXCEPT ![v] = vs, ![w] = ws]

MoveAssign(v, w) ==
    LET r == Released(Now(v))
        m == MovedFrom(r[1], vec[w])
    IN Pair(v, w, m[1], m[2], r[2], ideal[w], <<>>)

\* swap: blocks change hands when there are two; else by a third vector.
Swap(v, w) ==
    LET a == vec[v]
        b == vec[w]
        t == MovedFrom(Hollow, a)
        u == MovedFrom(Released(<<t[2], heaps>>)[1], b)
        x == MovedFrom(Released(<<u[2], heaps>>)[1], t[1])
    IN IF a.heap # 0 /\ b.heap # 0
         THEN Pair(v, w, [a EXCEPT !.heap = b.heap, !.cap = b.cap, !.size = b.size],
                   [b EXCEPT !.heap = a.heap, !.cap = a.cap, !.size = a.size],
                   heaps, ideal[w], ideal[v])
         ELSE Pair(v, w, u[1], x[1], heaps, ideal[w], ideal[v])

\* A vector ends and another begins in its place; or begins as the copy of one.
Renew(v) == Edit(v, <<Hollow, Released(Now(v))[2]>>, <<>>)
RenewCopy(v, w) ==
    /\ v # w
    /\ Edit(v, CopiedFrom(<<Hollow, Released(Now(v))[2]>>, vec[w]), ideal[w])

-----------------------------------------------------------------------------
(* host_alloc may answer a null pointer, and nothing looks.                   *)
Doomed(how) == /\ fate = "runs" /\ edits < MaxEdits
               /\ fate' = how /\ edits' = edits + 1 /\ UNCHANGED <<vec, heaps, refused, ideal>>

\* grow copies the elements there are to it.
GrowRefused(v, n) == n > vec[v].cap /\ vec[v].size # 0 /\ Doomed("ended")

\* An empty one has none: it lets its block go and keeps the capacity alone.
ReserveRefused(v, n) ==
    /\ n > vec[v].cap /\ vec[v].size = 0 /\ fate = "runs" /\ edits < MaxEdits
    /\ vec' = [vec EXCEPT ![v].heap = 0, ![v].cap = NextCap(vec[v], n)]
    /\ heaps' = Dropped(heaps, vec[v].heap)
    /\ refused' = TRUE /\ edits' = edits + 1 /\ UNCHANGED <<fate, ideal>>

\* Then resize, and whatever comes later, writes past the elements within; and
\* copy_from at once.
ResizeRefused(v, n) == n > vec[v].cap /\ vec[v].size = 0 /\ Doomed("overrun")
WriteBeyond(v, n) == Beyond(vec[v], n) /\ Doomed("overrun")
CopyRefused(v, w) == v # w /\ vec[w].size > Inline /\ Doomed("overrun")

VectorsNext ==
    \E v \in Vectors :
        \/ \E e \in Elements : PushBack(v, e)
        \/ \E at \in 1 .. MaxElements, e \in Elements : InsertInto(v, at, e)
        \/ \E at \in 1 .. MaxElements : EraseAt(v, at)
        \/ \E n \in 0 .. MaxElements, e \in Elements : Resize(v, n, e)
        \/ \E n \in 1 .. MaxElements : Reserve(v, n)
        \/ Clear(v) \/ Renew(v)
        \/ \E w \in Vectors : CopyAssign(v, w) \/ MoveAssign(v, w) \/ Swap(v, w) \/ RenewCopy(v, w)
        \/ \E n \in 1 .. MaxElements : \/ GrowRefused(v, n) \/ ReserveRefused(v, n)
                                      \/ ResizeRefused(v, n) \/ WriteBeyond(v, n)
        \/ \E w \in Vectors : CopyRefused(v, w)

VectorsSpec == VectorsInit /\ [][VectorsNext]_vectorVars

-----------------------------------------------------------------------------
\* Whatever they were made from, and wherever their elements live by now, the
\* vectors hold the sequences that the operations spell: no element is left in
\* the place moved from, overwritten by a shift or read out of a block of another.
\* This, and what follows, for as long as the program wrote past no vector.
SpellSequences ==
    \A v \in Vectors :
        vec[v].size = Len(ideal[v])
        /\ \A i \in 1 .. vec[v].size : DataOf(vec[v], heaps)[i] = ideal[v][i]

\* Every block has one vector, which knows its length: none is leaked when a
\* vector grows or is assigned to, and none is freed by two.
OneVectorEach ==
    /\ \A h \in heaps : Cardinality({v \in Vectors : vec[v].heap = h.id}) = 1
    /\ \A v \in Vectors : vec[v].heap # 0 =>
          \E h \in heaps : h.id = vec[v].heap /\ Len(h.cells) = vec[v].cap

\* A vector has the room it says: "makes room for n elements" (reserve), unless
\* an empty one was refused a block, and those that have none hold no more than
\* fits within.
RoomIsThere ==
    \A v \in Vectors : /\ vec[v].size <= Held(vec[v])
                       /\ Held(vec[v]) < vec[v].cap => refused

\* A vector is the sequence its operations spell, in memory of its own.
VectorsAreSequences ==
    fate # "overrun" => SpellSequences /\ OneVectorEach /\ RoomIsThere
===============================================================================
