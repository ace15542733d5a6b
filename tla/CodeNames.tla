------------------------------ MODULE CodeNames ------------------------------
(***************************************************************************)
(* What the report calls a piece of code (alloc_csv.cpp): stretches of      *)
(* addresses a program hands over in tables, addresses it says belong to a  *)
(* file, and directories it says belong to a module.  A stretch of size     *)
(* zero is a marker: it answers for what follows it, if nothing measured    *)
(* does.  A table in order is searched, and says what the last stretch that *)
(* begins at or below the address says; any other is gone through.          *)
(***************************************************************************)
EXTENDS Integers, Sequences, SequencesExt, FiniteSets, FiniteSetsExt

CONSTANTS Addrs,       \* of code; 0 is a null pointer
          CodeTables,  \* tables a program may hand over: sequences of [addr, size]
          MaxTables,   \* kMaxCodeTables
          MaxMarkers,  \* kMaxMarkers
          Paths,       \* paths: sequences of characters, "/" and "\\" among them
          MaxModules   \* kMaxDeclared

ASSUME NamesAssumption ==
    /\ Addrs \subseteq Nat /\ {MaxTables, MaxMarkers, MaxModules} \subseteq Nat
    /\ CodeTables \subseteq Seq([addr : Nat, size : Nat])

VARIABLES code,      \* g_code
          markers,   \* g_markers
          declared   \* g_declared

nameVars == <<code, markers, declared>>

NamesInit == code = <<>> /\ markers = <<>> /\ declared = <<>>

-----------------------------------------------------------------------------
\* alloc_declare_code
InOrder(tab) == \A i \in 2 .. Len(tab) : tab[i].addr >= tab[i - 1].addr
DeclareCode(tab) ==
    /\ tab # <<>> /\ Len(code) < MaxTables
    /\ code' = Append(code, [ranges |-> tab, sorted |-> InOrder(tab)])
    /\ UNCHANGED <<markers, declared>>

\* alloc_declare_file
DeclareFile(pc) ==
    /\ pc # 0 /\ Len(markers) < MaxMarkers
    /\ markers' = Append(markers, [addr |-> pc, size |-> 0])
    /\ UNCHANGED <<code, declared>>

\* copy_dir: one kind of bar, and none at the end.
Straight(path) == [i \in 1 .. Len(path) |-> IF path[i] = "\\" THEN "/" ELSE path[i]]
Trimmed(path) ==
    LET kept == {n \in 0 .. Len(path) : n = 0 \/ path[n] # "/"} IN SubSeq(path, 1, Max(kept))
CopyDir(path) == Trimmed(Straight(path))

\* alloc_declare_module
DeclareModule(dir) ==
    /\ Len(declared) < MaxModules /\ CopyDir(dir) # <<>>
    /\ declared' = Append(declared, CopyDir(dir))
    /\ UNCHANGED <<code, markers>>

NamesNext ==
    \/ \E tab \in CodeTables : DeclareCode(tab)
    \/ \E pc \in Addrs : DeclareFile(pc)
    \/ \E dir \in Paths : DeclareModule(dir)

NamesSpec == NamesInit /\ [][NamesNext]_nameVars

-----------------------------------------------------------------------------
(* code_range_of                                                             *)
NoRange == [addr |-> 0, size |-> 0]
Covers(r, pc) == r.addr # 0 /\ r.addr <= pc /\ pc < r.addr + r.size
IsMarker(r, pc) == r.addr # 0 /\ r.addr <= pc /\ r.size = 0
Nearer(best, r) == IF best = NoRange \/ r.addr > best.addr THEN r ELSE best

\* What a table has to say: of one in order, the last that begins at or below.
LastUpTo(ranges, pc) == {ranges[i] : i \in {k \in DOMAIN ranges :
                              k = Cardinality({j \in DOMAIN ranges : ranges[j].addr <= pc})}}
Heard(tab, pc) ==
    IF tab.sorted THEN SetToSeq(LastUpTo(tab.ranges, pc)) ELSE tab.ranges

\* The first measured stretch that covers it, or the nearest marker of all.  The
\* mutant has no preference of one over the other, and takes the nearest.
RangeOfNearest(pc) ==
    LET all == FlattenSeq([t \in DOMAIN code |-> Heard(code[t], pc)])
        fit == SelectSeq(all \o markers, LAMBDA r : Covers(r, pc) \/ IsMarker(r, pc))
    IN FoldLeft(Nearer, NoRange, fit)
RangeOf(pc) ==
    LET all == FlattenSeq([t \in DOMAIN code |-> Heard(code[t], pc)])
        measured == SelectSeq(all, LAMBDA r : Covers(r, pc))
        near == SelectSeq(all \o markers, LAMBDA r : IsMarker(r, pc))
    IN IF measured # <<>> THEN Head(measured)
       ELSE FoldLeft(Nearer, NoRange, near)

\* declared_module: the longest directory the file is in, the first of those.
Inside(dir, path) == IsPrefix(dir, path) /\ Len(path) > Len(dir) /\ path[Len(dir) + 1] = "/"
Longer(best, dir) == IF Len(dir) > Len(best) THEN dir ELSE best
ModuleOf(file) ==
    FoldLeft(Longer, <<>>, SelectSeq(declared, LAMBDA d : Inside(d, CopyDir(file))))

-----------------------------------------------------------------------------
\* What a table comes to for an address: all of it, or of one in order what is
\* not followed by another at or below the address.
Reached(pc) ==
    UNION {{code[t].ranges[i] : i \in {k \in DOMAIN code[t].ranges :
               code[t].sorted => \A j \in DOMAIN code[t].ranges :
                                    j > k => code[t].ranges[j].addr > pc}} : t \in DOMAIN code}

\* The answer is a stretch measured there, and only without one the nearest marker
\* below, those of files among them.
Answers(ranges, pc) ==
    LET near == {r.addr : r \in {x \in ranges \cup Range(markers) : IsMarker(x, pc)}}
    IN IF \E r \in ranges : Covers(r, pc)
         THEN RangeOf(pc) \in ranges /\ Covers(RangeOf(pc), pc)
         ELSE RangeOf(pc) = IF near = {} THEN NoRange ELSE [addr |-> Max(near), size |-> 0]

\* No stretch begins inside one before it, and markers and measured stretches are
\* not mixed: all a table in order has to be to be searched.
Searchable(ranges) ==
    \A i, j \in DOMAIN ranges :
        i < j => ~ Covers(ranges[i], ranges[j].addr) /\ (ranges[i].size = 0 <=> ranges[j].size = 0)

\* In whatever order and however many the tables, a stretch measured there wins over
\* every marker (code_range_of: "gana siempre") among what the tables come to, and
\* they come to all there is if those in order are searchable: a table that mixes
\* or nests is right out of order ("slower but right", alloc_declare_code), and
\* in order it hides a stretch behind whatever begins inside it.
RangeIsRight ==
    \A pc \in Addrs \ {0} :
        /\ Answers(Reached(pc), pc)
        /\ (\A t \in DOMAIN code : code[t].sorted => Searchable(code[t].ranges))
             => Answers(UNION {Range(code[t].ranges) : t \in DOMAIN code}, pc)

\* The module of a file is that of the innermost directory declared that it is
\* in, however the bars were written, and never one that only begins alike.
Parts(path) ==
    LET bars == {0, Len(path) + 1} \cup {i \in DOMAIN path : path[i] = "/"}
        ends == SetToSortSeq(bars, LAMBDA m, n : m < n)
    IN [k \in 1 .. Len(ends) - 1 |-> SubSeq(path, ends[k] + 1, ends[k + 1] - 1)]
LongestWins ==
    \A file \in Paths :
        LET inner == {k \in DOMAIN declared :
                         /\ IsPrefix(Parts(declared[k]), Parts(CopyDir(file)))
                         /\ declared[k] # CopyDir(file)}
        IN IF inner = {} THEN ModuleOf(file) = <<>>
           ELSE \E k \in inner :
                    /\ ModuleOf(file) = declared[k]
                    /\ \A j \in inner : Len(Parts(declared[j])) <= Len(Parts(declared[k]))

\* An address and a file get the name declared closest around them.
NamesAreRight == RangeIsRight /\ LongestWins
===============================================================================
