----------------------------- MODULE ThreadSlots -----------------------------
(***************************************************************************)
(* Per-thread values and exit notices: util::ThreadSlot (thread_slot.h and  *)
(* thread_slot.cpp) over pthread keys.  A ThreadSlot asks for a key the     *)
(* first time a thread wants a value in it and for a second one, with a     *)
(* destructor, when somebody wants to hear of threads that end.  Keys come  *)
(* from one counter, for both, and never go back.  The process has three    *)
(* such objects: the cache slot, the per-thread allocators', the arenas'.   *)
(***************************************************************************)
EXTENDS Integers, FiniteSets

CONSTANTS Users,       \* threads
          Objects,     \* the ThreadSlots
          NumKeys,     \* kMaxKeys
          SlotValues,  \* what is stored
          Null,        \* a null pointer
          MaxKeyCalls, \* bound: keys asked for, those there are not among them
          MaxSets      \* bound: values set

Keys == 0 .. NumKeys - 1
NoKey == NumKeys           \* kNoThreadSlot

ASSUME SlotsAssumption ==
    NumKeys \in Nat /\ MaxSets \in Nat /\ MaxKeyCalls \in Nat /\ Null \notin SlotValues

VARIABLES slotKey,   \* ThreadSlot::slot_
          exitKey,   \* ThreadSlot::exit_
          keyCount,  \* g_key_count
          stored,    \* g_tls_slots: by thread and key
          armed,     \* what the destructor of a key will be called with
          busy,      \* the call a thread is in: [step, obj, key, val]
          latest,    \* history: what a thread last stored in an object
          due,       \* history: what it last set since it saw a channel
          heard,     \* history: notices given, <<thread, object, value>>
          sets       \* history: values set

slotVars == <<slotKey, exitKey, keyCount, stored, armed, busy, latest, due, heard, sets>>

Idle == [step |-> "idle", obj |-> CHOOSE o \in Objects : TRUE, key |-> NoKey, val |-> Null]

SlotsInit ==
    /\ slotKey = [o \in Objects |-> NoKey] /\ exitKey = [o \in Objects |-> NoKey]
    /\ keyCount = 0
    /\ stored = [t \in Users |-> [k \in Keys |-> Null]]
    /\ armed = [t \in Users |-> [k \in Keys |-> Null]]
    /\ busy = [t \in Users |-> Idle]
    /\ latest = [t \in Users |-> [o \in Objects |-> Null]]
    /\ due = [t \in Users |-> [o \in Objects |-> Null]]
    /\ heard = {} /\ sets = 0

\* ensure while there is no key: reserve_slot goes for one.
Ensure(t, o) ==
    /\ busy[t] = Idle /\ slotKey[o] = NoKey
    /\ busy' = [busy EXCEPT ![t] = [Idle EXCEPT !.step = "slot", !.obj = o]]
    /\ UNCHANGED <<slotKey, exitKey, keyCount, stored, armed, latest, due, heard, sets>>

\* notify_on_exit and reserve_exit, the same.
NotifyOnExit(t, o) ==
    /\ busy[t] = Idle /\ exitKey[o] = NoKey
    /\ busy' = [busy EXCEPT ![t] = [Idle EXCEPT !.step = "exit", !.obj = o]]
    /\ UNCHANGED <<slotKey, exitKey, keyCount, stored, armed, latest, due, heard, sets>>

\* thread_slot_alloc_api and thread_exit_alloc_api: the counter moves even
\* when there are no keys left.
TakeKey(t) ==
    /\ busy[t].step \in {"slot", "exit"} /\ busy[t].key = NoKey /\ keyCount < MaxKeyCalls
    /\ keyCount' = keyCount + 1
    /\ busy' = [busy EXCEPT ![t] = IF keyCount < NumKeys THEN [@ EXCEPT !.key = keyCount] ELSE Idle]
    /\ UNCHANGED <<slotKey, exitKey, stored, armed, latest, due, heard, sets>>

\* The exchange of reserve_slot: who loses leaves its key unused.  The mutant
\* stores it.
SlotByStore(t) ==
    /\ busy[t].step = "slot" /\ busy[t].key # NoKey
    /\ slotKey' = [slotKey EXCEPT ![busy[t].obj] = busy[t].key]
    /\ busy' = [busy EXCEPT ![t] = Idle]
    /\ UNCHANGED <<exitKey, keyCount, stored, armed, latest, due, heard, sets>>
ReserveSlot(t) ==
    /\ busy[t].step = "slot" /\ busy[t].key # NoKey
    /\ slotKey' = [slotKey EXCEPT ![busy[t].obj] = IF @ = NoKey THEN busy[t].key ELSE @]
    /\ busy' = [busy EXCEPT ![t] = Idle]
    /\ UNCHANGED <<exitKey, keyCount, stored, armed, latest, due, heard, sets>>

\* And that of reserve_exit.
ReserveExit(t) ==
    /\ busy[t].step = "exit" /\ busy[t].key # NoKey
    /\ exitKey' = [exitKey EXCEPT ![busy[t].obj] = IF @ = NoKey THEN busy[t].key ELSE @]
    /\ busy' = [busy EXCEPT ![t] = Idle]
    /\ UNCHANGED <<slotKey, keyCount, stored, armed, latest, due, heard, sets>>

\* set: the value first ...
SetValue(t, o, v) ==
    /\ busy[t] = Idle /\ slotKey[o] # NoKey /\ sets < MaxSets
    /\ sets' = sets + 1
    /\ stored' = [stored EXCEPT ![t][slotKey[o]] = v]
    /\ latest' = [latest EXCEPT ![t][o] = v]
    /\ busy' = [busy EXCEPT ![t] = [Idle EXCEPT !.step = "arm", !.obj = o, !.val = v]]
    /\ UNCHANGED <<slotKey, exitKey, keyCount, armed, due, heard>>

\* ... and then the channel, if there is one by now.
ArmNotice(t) ==
    LET o == busy[t].obj IN
    /\ busy[t].step = "arm"
    /\ IF exitKey[o] # NoKey
         THEN /\ armed' = [armed EXCEPT ![t][exitKey[o]] = busy[t].val]
              /\ due' = [due EXCEPT ![t][o] = busy[t].val]
         ELSE UNCHANGED <<armed, due>>
    /\ busy' = [busy EXCEPT ![t] = Idle]
    /\ UNCHANGED <<slotKey, exitKey, keyCount, stored, latest, heard, sets>>

ThreadEnds(t) ==
    /\ busy[t] = Idle
    /\ busy' = [busy EXCEPT ![t].step = "ending"]
    /\ UNCHANGED <<slotKey, exitKey, keyCount, stored, armed, latest, due, heard, sets>>

\* What a channel holds is taken from it and told; the callback leaves a mark
\* in the slot, with set_quiet so as not to be told of it.
ExitNotice(t, o, mark) ==
    LET k == exitKey[o] IN
    /\ busy[t].step = "ending" /\ k # NoKey /\ armed[t][k] # Null
    /\ heard' = heard \cup {<<t, o, armed[t][k]>>}
    /\ armed' = [armed EXCEPT ![t][k] = Null]
    /\ stored' = [stored EXCEPT ![t][slotKey[o]] = mark]
    /\ latest' = [latest EXCEPT ![t][o] = mark]
    /\ UNCHANGED <<slotKey, exitKey, keyCount, busy, due, sets>>

SlotsNext ==
    \E t \in Users :
        \/ \E o \in Objects : Ensure(t, o) \/ NotifyOnExit(t, o)
        \/ TakeKey(t) \/ ReserveSlot(t) \/ ReserveExit(t)
        \/ \E o \in Objects, v \in SlotValues : SetValue(t, o, v)
        \/ ArmNotice(t)
        \/ ThreadEnds(t)
        \/ \E o \in Objects, mark \in SlotValues : ExitNotice(t, o, mark)

SlotsSpec == SlotsInit /\ [][SlotsNext]_slotVars

-----------------------------------------------------------------------------
\* A thread reads in an object what it last stored in it, whoever reserved the
\* key and however many lost the race for it: nothing stored while others are
\* still reserving is stranded in a key nobody reads, and no two objects, nor
\* an object and a channel, share one.
ReadsItsOwn ==
    \A t \in Users : \A o \in Objects :
        slotKey[o] # NoKey => stored[t][slotKey[o]] = latest[t][o]

\* What a notice tells is the last value its thread set since the object had a
\* channel, not that of another object, and it comes once ("leaving something
\* with set from inside the notification itself leaves the channel occupied
\* again", thread_slot.h).
NoticesAreTrue ==
    /\ \A h \in heard : h[3] = due[h[1]][h[2]]
    /\ \A h \in heard : armed[h[1]][exitKey[h[2]]] = Null

\* A slot and its channel are one thread's and one object's, however the keys
\* were raced for.
SlotsAreOwn == ReadsItsOwn /\ NoticesAreTrue

\* What makes it inductive: shapes, ...
SlotKeys == Keys \cup {NoKey}
SlotData == SlotValues \cup {Null}
SlotTypes ==
    /\ slotKey \in [Objects -> SlotKeys] /\ exitKey \in [Objects -> SlotKeys]
    /\ keyCount \in Nat
    /\ stored \in [Users -> [Keys -> SlotData]] /\ armed \in [Users -> [Keys -> SlotData]]
    /\ busy \in [Users -> [step : {"idle", "slot", "exit", "arm", "ending"},
                            obj : Objects \cup {Idle.obj}, key : SlotKeys, val : SlotData]]
    /\ latest \in [Users -> [Objects -> SlotData]] /\ due \in [Users -> [Objects -> SlotData]]
    /\ \A t \in Users :
          /\ busy[t].step \in {"slot", "exit", "arm"} => busy[t].obj \in Objects
          /\ busy[t].step \notin {"slot", "exit"} => busy[t].key = NoKey
          /\ busy[t].step = "arm" => slotKey[busy[t].obj] # NoKey

\* ... that a key is a slot's, a channel's or in the hands of one thread, ...
KeysApart ==
    /\ \A o \in Objects :
          /\ slotKey[o] # NoKey => slotKey[o] < keyCount
          /\ slotKey[o] # NoKey => \A p \in Objects : slotKey[o] # exitKey[p]
          /\ exitKey[o] # NoKey => exitKey[o] < keyCount
    /\ \A o, p \in Objects : o # p => /\ slotKey[o] # NoKey => slotKey[o] # slotKey[p]
                                      /\ exitKey[o] # NoKey => exitKey[o] # exitKey[p]
    /\ \A t \in Users : busy[t].key # NoKey =>
          /\ busy[t].key < keyCount
          /\ \A o \in Objects : slotKey[o] # busy[t].key /\ exitKey[o] # busy[t].key
          /\ \A u \in Users : u # t => busy[u].key # busy[t].key

\* ... that nothing is in a key before it is an object's, and what is armed and
\* told is what was due.
KeysClean ==
    \A t \in Users :
        /\ \A k \in Keys : stored[t][k] # Null => \E o \in Objects : slotKey[o] = k
        /\ \A k \in Keys : armed[t][k] # Null => \E o \in Objects : exitKey[o] = k
        /\ \A o \in Objects :
              /\ slotKey[o] = NoKey => latest[t][o] = Null
              /\ exitKey[o] # NoKey /\ armed[t][exitKey[o]] # Null =>
                    armed[t][exitKey[o]] = due[t][o] /\ slotKey[o] # NoKey
ToldWasDue ==
    \A h \in heard : \E t \in Users, o \in Objects :
        /\ h = <<t, o, due[t][o]>> /\ busy[t].step = "ending"
        /\ exitKey[o] # NoKey /\ armed[t][exitKey[o]] = Null

SlotsInv == SlotTypes /\ KeysApart /\ KeysClean /\ ToldWasDue /\ ReadsItsOwn
=============================================================================
