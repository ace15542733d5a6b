------------------------------ MODULE SpanStack ------------------------------
(***************************************************************************)
(* SpanStack (src/src/alloc/host_allocator.cpp): the lock-free stacks that *)
(* hold parked spans, one stack per chunk count.  Every stack keeps its    *)
(* links in ONE side array, g_span_next, indexed by chunk number, and its  *)
(* head carries a tag that every successful exchange moves.                *)
(*                                                                         *)
(* Each action is one atomic access of push() or pop().  Between two of    *)
(* them any other thread may run, and a span that was popped may come back *)
(* on a different stack: the pool splits and merges spans while it has     *)
(* them, so a chunk number is not tied to one chunk count.                 *)
(***************************************************************************)
EXTENDS Integers, Sequences

CONSTANTS Threads,   \* the threads that park and take spans
          Stacks,    \* the chunk counts, one stack each
          Spans,     \* the chunk numbers PLUS ONE of the spans, so never 0
          TagMod     \* the number of tags: 2^32 in the code

ASSUME StackAssumption ==
    /\ Stacks # {}
    /\ Spans \subseteq Nat \ {0}
    /\ TagMod \in Nat \ {0, 1}

None == 0            \* what g_span_next and a head hold for "no span"

VARIABLES head,      \* head[s] = [idx, tag], one atomic 64-bit word
          next,      \* g_span_next
          pc,        \* where each thread is in push() or pop()
          stk,       \* the stack its call is about
          item,      \* the span a push is placing
          old,       \* the head it last read
          link,      \* the link a pop read behind that head
          held,      \* the spans each thread owns
          window,    \* history: exchanges since the thread read `old'
          content    \* history: the spans of each stack, top first

vars == <<head, next, pc, stk, item, old, link, held, window, content>>

AnyStack == CHOOSE s \in Stacks : TRUE    \* of a thread with no call
Head0 == [idx |-> None, tag |-> 0]
Heads == [idx : Spans \cup {None}, tag : 0 .. TagMod - 1]
Busy == {"pushLink", "pushCas", "popNext", "popCas"}

\* Mutant of Bump: a tag nobody moves.
BumpNone(tag) == tag

\* tag_of(old) + 1u: the tag is a 32-bit half of the head and wraps.
Bump(tag) == IF tag + 1 = TagMod THEN 0 ELSE tag + 1

\* The code trusts 32 bits of tag: "four thousand million pushes would have
\* to land inside one reader's window".  That is an assumption about the
\* scheduler, made here: no call is overtaken by TagMod exchanges.
WindowOpen(t) ==
    \A u \in Threads \ {t} :
        pc[u] # "idle" /\ stk[u] = stk[t] => window[u] < TagMod - 1

\* A successful exchange ages every other call on the same stack.
Age(t) == [u \in Threads |->
              IF u = t THEN 0
              ELSE IF pc[u] # "idle" /\ stk[u] = stk[t] THEN window[u] + 1
              ELSE window[u]]

-----------------------------------------------------------------------------
\* All spans start in the hands of somebody: .bss zeroes heads and links.
Init ==
    /\ head = [s \in Stacks |-> Head0]
    /\ next = [x \in Spans |-> None]
    /\ pc = [t \in Threads |-> "idle"]
    /\ stk = [t \in Threads |-> AnyStack]
    /\ item = [t \in Threads |-> None]
    /\ old = [t \in Threads |-> Head0]
    /\ link = [t \in Threads |-> None]
    /\ held \in [Threads -> SUBSET Spans]
    /\ \A t, u \in Threads : t # u => held[t] \cap held[u] = {}
    /\ \A x \in Spans : \E t \in Threads : x \in held[t]
    /\ window = [t \in Threads |-> 0]
    /\ content = [s \in Stacks |-> <<>>]

\* The thread forgets its call; what the locals hold no longer matters.
Return(t) ==
    /\ pc' = [pc EXCEPT ![t] = "idle"]
    /\ stk' = [stk EXCEPT ![t] = AnyStack]
    /\ item' = [item EXCEPT ![t] = None]
    /\ old' = [old EXCEPT ![t] = Head0]
    /\ link' = [link EXCEPT ![t] = None]

\* A failed compare_exchange_weak writes the head it found into `old'.
Reload(t, step) ==
    /\ pc' = [pc EXCEPT ![t] = step]
    /\ old' = [old EXCEPT ![t] = head[stk[t]]]
    /\ window' = [window EXCEPT ![t] = 0]
    /\ link' = [link EXCEPT ![t] = None]
    /\ UNCHANGED <<head, next, stk, item, held, content>>

\* push(): uint64_t old = head.load().
PushLoad(t, s, x) ==
    /\ pc[t] = "idle"
    /\ x \in held[t]
    /\ pc' = [pc EXCEPT ![t] = "pushLink"]
    /\ stk' = [stk EXCEPT ![t] = s]
    /\ item' = [item EXCEPT ![t] = x]
    /\ old' = [old EXCEPT ![t] = head[s]]
    /\ window' = [window EXCEPT ![t] = 0]
    /\ UNCHANGED <<head, next, link, held, content>>

\* push(): g_span_next[idx1 - 1].store(index1_of(old)).
PushLink(t) ==
    /\ pc[t] = "pushLink"
    /\ next' = [next EXCEPT ![item[t]] = old[t].idx]
    /\ pc' = [pc EXCEPT ![t] = "pushCas"]
    /\ UNCHANGED <<head, stk, item, old, link, held, window, content>>

\* push(): the exchange finds the head it read, and publishes the span.
PushCas(t) ==
    /\ pc[t] = "pushCas"
    /\ head[stk[t]] = old[t]
    /\ WindowOpen(t)
    /\ head' = [head EXCEPT ![stk[t]] = [idx |-> item[t], tag |-> Bump(old[t].tag)]]
    /\ held' = [held EXCEPT ![t] = @ \ {item[t]}]
    /\ content' = [content EXCEPT ![stk[t]] = <<item[t]>> \o @]
    /\ window' = Age(t)
    /\ Return(t)
    /\ UNCHANGED next

\* push(): the exchange fails (it is the weak one, so it may always fail).
PushRetry(t) == pc[t] = "pushCas" /\ Reload(t, "pushLink")

\* pop(): uint64_t old = head.load().
PopLoad(t, s) ==
    /\ pc[t] = "idle"
    /\ pc' = [pc EXCEPT ![t] = "popNext"]
    /\ stk' = [stk EXCEPT ![t] = s]
    /\ old' = [old EXCEPT ![t] = head[s]]
    /\ window' = [window EXCEPT ![t] = 0]
    /\ UNCHANGED <<head, next, item, link, held, content>>

\* pop(): if (idx1 == 0) return nullptr.
PopEmpty(t) ==
    /\ pc[t] = "popNext"
    /\ old[t].idx = None
    /\ Return(t)
    /\ window' = [window EXCEPT ![t] = 0]
    /\ UNCHANGED <<head, next, held, content>>

\* pop(): reads the link of a span somebody else may already have taken.
PopNext(t) ==
    /\ pc[t] = "popNext"
    /\ old[t].idx # None
    /\ link' = [link EXCEPT ![t] = next[old[t].idx]]
    /\ pc' = [pc EXCEPT ![t] = "popCas"]
    /\ UNCHANGED <<head, next, stk, item, old, held, window, content>>

\* A stack without its top; whether there was one is for Linked to say.
Below(q) == IF q = <<>> THEN q ELSE Tail(q)

\* pop(): the exchange finds the head it read, and the span is the caller's.
PopCas(t) ==
    /\ pc[t] = "popCas"
    /\ head[stk[t]] = old[t]
    /\ WindowOpen(t)
    /\ head' = [head EXCEPT ![stk[t]] = [idx |-> link[t], tag |-> Bump(old[t].tag)]]
    /\ held' = [held EXCEPT ![t] = @ \cup {old[t].idx}]
    /\ content' = [content EXCEPT ![stk[t]] = Below(@)]
    /\ window' = Age(t)
    /\ Return(t)
    /\ UNCHANGED next

\* pop(): the exchange fails.
PopRetry(t) == pc[t] = "popCas" /\ Reload(t, "popNext")

Push(t) == PushLink(t) \/ PushCas(t) \/ PushRetry(t)
Pop(t) == PopEmpty(t) \/ PopNext(t) \/ PopCas(t) \/ PopRetry(t)

Next ==
    \E t \in Threads :
        \/ \E s \in Stacks, x \in Spans : PushLoad(t, s, x)
        \/ \E s \in Stacks : PopLoad(t, s)
        \/ Push(t)
        \/ Pop(t)

Spec == Init /\ [][Next]_vars

-----------------------------------------------------------------------------
(* Types. *)
TypeOK ==
    /\ head \in [Stacks -> Heads]
    /\ next \in [Spans -> Spans \cup {None}]
    /\ pc \in [Threads -> Busy \cup {"idle"}]
    /\ stk \in [Threads -> Stacks]
    /\ item \in [Threads -> Spans \cup {None}]
    /\ old \in [Threads -> Heads]
    /\ link \in [Threads -> Spans \cup {None}]
    /\ held \in [Threads -> SUBSET Spans]
    /\ window \in [Threads -> 0 .. TagMod - 1]
    /\ content \in [Stacks -> Seq(Spans)]

\* The span at place i of stack s, None past its end.
At(s, i) == IF i \in 1 .. Len(content[s]) THEN content[s][i] ELSE None

(* The links in the shared array spell the stack, whatever stale reader is *)
(* about to exchange: the head is the top and each link is the span below. *)
Linked ==
    \A s \in Stacks :
        /\ head[s].idx = At(s, 1)
        /\ \A i \in 1 .. Len(content[s]) : next[content[s][i]] = At(s, i + 1)

(* A parked span is in one place of one stack and in nobody's hands, so    *)
(* two callers can never receive the same memory.                          *)
Exclusive ==
    /\ \A s, r \in Stacks :
          \A i \in 1 .. Len(content[s]), j \in 1 .. Len(content[r]) :
              content[s][i] = content[r][j] => s = r /\ i = j
    /\ \A t \in Threads, s \in Stacks :
          \A i \in 1 .. Len(content[s]) : content[s][i] \notin held[t]
    /\ \A t, u \in Threads : t # u => held[t] \cap held[u] = {}

(* An exchange that is about to succeed has seen every other one: the tag  *)
(* of a call that was overtaken no longer matches, so its stale link is    *)
(* never published.                                                        *)
StaleRefused ==
    \A t \in Threads :
        pc[t] = "popCas" /\ head[stk[t]] = old[t] =>
            window[t] = 0 /\ link[t] = next[old[t].idx]

(* All of it: the links spell the stacks, nobody owns what is parked, and   *)
(* no exchange that was overtaken succeeds.                                 *)
ParkedIsSound == TypeOK /\ Linked /\ Exclusive /\ StaleRefused

(* What makes these inductive: what each thread knows of the call it is in *)
(* the middle of.                                                          *)
TagAfter(tag, w) == IF tag + w >= TagMod THEN tag + w - TagMod ELSE tag + w

Pushing(t) ==
    /\ pc[t] \in {"pushLink", "pushCas"} => item[t] \in held[t]
    /\ pc[t] = "pushCas" => next[item[t]] = old[t].idx

Reading(t) ==
    pc[t] # "idle" =>
        /\ head[stk[t]].tag = TagAfter(old[t].tag, window[t])
        /\ window[t] = 0 => head[stk[t]] = old[t]

Popping(t) ==
    pc[t] = "popCas" =>
        /\ old[t].idx # None
        /\ window[t] = 0 => link[t] = next[old[t].idx]

StackInv ==
    /\ TypeOK
    /\ Linked
    /\ Exclusive
    /\ \A t \in Threads : Pushing(t) /\ Reading(t) /\ Popping(t)

(* What a stack promises to its callers, with push and pop in one step.    *)
Abstract == INSTANCE ParkedSpans WITH parked <- content
ImplementsParkedSpans == Abstract!Spec
=============================================================================
