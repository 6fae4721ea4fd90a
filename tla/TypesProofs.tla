---------------------------- MODULE TypesProofs ----------------------------
(***************************************************************************)
(* Proofs about the types a coroutine's data goes through: Gather and the  *)
(* shared_task it rests on, for every set of parents, children and         *)
(* io_contexts; Sockets, for every set of objects, descriptors and         *)
(* sessions and any number of closes under way; Task, for every finite set *)
(* of frames and every set of io_contexts; and SpscRing, for every width   *)
(* of its cursors and every capacity.  They share no step: what they share *)
(* are the lemmas about sequences.                                         *)
(***************************************************************************)
EXTENDS Gather, Task, Sockets, SpscRing,
        SequenceTheorems, FiniteSetTheorems, WellFoundedInduction, TLAPS

-----------------------------------------------------------------------------
(* shared_task, all, any and some: the inductive invariant.                 *)

\* h is on s; nobody is on s twice.
In(h, s) == \E i \in 1..Len(s) : s[i] = h
Distinct(s) == \A i, j \in 1..Len(s) : s[i] = s[j] => i = j
Apart(s, t) == \A h : ~(In(h, s) /\ In(h, t))

Coroutine == Waiter \cup Parent \cup {Shared}
WaiterPlace == {"new", "queued", "query", "own", "suspend", "started it", "waiting", "resume",
                "parked", "posted", "back", "complete", "unwind", "over"}
ParentPlace == {"start", "spawn", "spawned", "asleep", "resume", "finish", "over"}
Asking == {"query", "suspend", "started it", "waiting", "resume"}
Outcome == {"none", "value", "exception"}

TypeInv ==
    /\ stack \in [Thread -> Seq(Coroutine)] /\ queue \in [Thread -> Seq(Coroutine)]
    /\ pc \in [Waiter \cup Parent -> WaiterPlace \cup ParentPlace]
    /\ \A w \in Waiter : pc[w] \in WaiterPlace
    /\ \A p \in Parent : pc[p] \in ParentPlace
    /\ phase \in {"not started", "started", "ready"}
    /\ waiters \in Seq(Waiter) /\ hand \in Seq(Waiter) /\ cursor \in Seq(Waiter)
    /\ body \in {"initial", "run", "parked", "posted", "again", "final", "done"}
    /\ bodyOn \in Thread /\ outcome \in Outcome
    /\ held \in BOOLEAN /\ late \subseteq Waiter
    /\ mode \in [Parent -> {"all", "any", "some"}] /\ need \in [Parent -> Nat]
    /\ \A p \in Parent : mode[p] # "some" => need[p] = 1
    /\ sharing \subseteq Waiter /\ val \in [Waiter -> Outcome]
    /\ remaining \in [Parent -> Int] /\ awaiting \subseteq Parent /\ resumed \subseteq Parent
    /\ results \in [Parent -> Seq(Waiter)] /\ taken \in [Parent -> Seq(Waiter)]
    /\ order \in [Parent -> Seq(Waiter)]

\* What waiters_ says of the body; and somebody waits as long as it runs.
PhaseInv ==
    /\ phase = "not started" <=> body = "initial"
    /\ phase = "ready" => body \in {"final", "done"}
    /\ body = "done" => phase = "ready" /\ hand = <<>>
    /\ outcome # "none" <=> body \in {"final", "done"}
    /\ phase # "started" => waiters = <<>>
    /\ phase # "ready" => hand = <<>> /\ late = {}
    /\ cursor = <<>> \/ (hand # <<>> /\ cursor = <<Head(hand)>>)
    /\ phase = "started" => \E w \in sharing : pc[w] = "started it" \/ In(w, waiters)

\* Nobody interrupts the body, nor a parent before it sleeps.
StackInv ==
    /\ body \in {"run", "again", "final"} => Runs(bodyOn, Shared)
    /\ \A p \in Parent : pc[p] \in {"spawn", "spawned"} => Runs(home[p], p)

\* Whoever is queued is queued once, where it belongs, and has reason to be.
Due(h, x) == \/ h = Shared /\ body = "posted" /\ x = bodyOn
             \/ h \in Waiter /\ x = home[h] /\ pc[h] \in {"queued", "posted", "waiting"}
             \/ h \in Parent /\ x = home[h] /\ pc[h] = "start"
QueueInv ==
    \A x \in Thread : Distinct(queue[x]) /\ \A h \in Coroutine : In(h, queue[x]) => Due(h, x)

\* Whoever waits is on the list, in the hands of final_awaiter, or queued.
ListInv ==
    /\ Distinct(waiters) /\ Distinct(Unposted)
    /\ \A w \in Waiter :
         /\ In(w, waiters) => pc[w] = "waiting" /\ ~In(w, Unposted) /\ ~In(w, queue[home[w]])
         /\ In(w, Unposted) => pc[w] = "waiting" /\ ~In(w, queue[home[w]])
         /\ pc[w] = "waiting" => In(w, waiters) \/ In(w, Unposted) \/ In(w, queue[home[w]])
         /\ pc[w] = "waiting" /\ In(w, queue[home[w]]) => phase = "ready"
         /\ pc[w] = "resume" => phase = "ready"
         /\ pc[w] \in Asking => w \in sharing

Users == {c \in sharing : pc[c] # "over"}
FrameInv ==
    /\ refs = Cardinality(Users) + (IF held THEN 1 ELSE 0)
    /\ \A w \in late : home[w] # bodyOn
    /\ cursor # <<>> /\ home[Head(cursor)] = bodyOn => pc[Head(cursor)] = "waiting"

Least(p) == CASE mode[p] = "all" -> Cardinality(Children(p))
              [] mode[p] = "any" \/ need[p] = 0 -> 1
              [] OTHER -> need[p]
Counted(p) == {c \in Children(p) : In(c, order[p])}
After == {"resume", "finish", "over"}

ChildInv ==
    \A c \in Waiter :
        /\ pc[c] # "new" => pc[parentOf[c]] \notin {"start", "spawn"}
        /\ pc[c] \notin {"new", "queued"} => pc[parentOf[c]] # "spawned"
        /\ pc[c] = "complete" => val[c] = "value"
        /\ \A p \in Parent : In(c, order[p]) => p = parentOf[c] /\ pc[c] \in {"unwind", "over"} /\ val[c] = "value"
        /\ pc[c] \in {"unwind", "over"} /\ val[c] = "value" => In(c, order[parentOf[c]])

ResultInv ==
    \A p \in Parent :
        /\ pc[p] \notin {"start", "spawn", "spawned"} => p \in awaiting
        /\ pc[p] \notin {"finish", "over"} => taken[p] = <<>>
        /\ pc[p] \in {"finish", "over"} => taken[p] = SubSeq(order[p], 1, Least(p))
        /\ Len(order[p]) = Cardinality(Counted(p))
        /\ mode[p] = "all" => /\ remaining[p] = Cardinality(Children(p)) - Len(order[p])
                              /\ results[p] = order[p]
                              /\ pc[p] \in After => remaining[p] = 0
        /\ mode[p] # "all" => /\ p \in resumed <=> pc[p] \in After
                              /\ p \in resumed => Len(order[p]) >= Least(p)
                              /\ p \notin resumed => Len(order[p]) < Least(p)
                              /\ results[p] = IF p \in resumed THEN SubSeq(order[p], 1, Least(p)) ELSE order[p]

GatherInv == TypeInv /\ PhaseInv /\ StackInv /\ QueueInv /\ ListInv /\ FrameInv /\ ChildInv /\ ResultInv

-----------------------------------------------------------------------------
(* Sequences.                                                               *)

LEMMA Indices ==
  ASSUME NEW T, NEW s \in Seq(T)
  PROVE  /\ Len(s) \in Nat /\ DOMAIN s = 1..Len(s)
         /\ \A i \in 1..Len(s) : s[i] \in T
         /\ \A x : x \in ToSet(s) <=> In(x, s)
<1>1. Len(s) \in Nat /\ DOMAIN s = 1..Len(s)
  BY LenProperties
<1>2. \A i \in 1..Len(s) : s[i] \in T
  BY ElementOfSeq
<1>3. \A x : x \in ToSet(s) <=> In(x, s)
  BY <1>1 DEF ToSet, In
<1>4. QED
  BY <1>1, <1>2, <1>3

LEMMA EmptyList ==
  /\ Len(<<>>) = 0
  /\ \A x : ~In(x, <<>>)
  /\ Distinct(<<>>)
<1>1. Len(<<>>) = 0
  BY EmptySeq
<1>2. QED
  BY <1>1 DEF In, Distinct

LEMMA Joined ==
  ASSUME NEW T, NEW s \in Seq(T), NEW t \in Seq(T)
  PROVE  /\ s \o t \in Seq(T) /\ Len(s \o t) = Len(s) + Len(t)
         /\ \A i \in 1..Len(s) : (s \o t)[i] = s[i]
         /\ \A i \in 1..Len(t) : (s \o t)[Len(s) + i] = t[i]
         /\ \A i \in Len(s) + 1..Len(s) + Len(t) : (s \o t)[i] = t[i - Len(s)]
         /\ \A x : In(x, s \o t) <=> In(x, s) \/ In(x, t)
         /\ Distinct(s \o t) <=> Distinct(s) /\ Distinct(t) /\ Apart(s, t)
<1> DEFINE u == s \o t
           m == Len(s)
           n == Len(t)
<1>1. m \in Nat /\ n \in Nat /\ \A i \in 1..m : s[i] \in T
  BY Indices
<1>2. /\ u \in Seq(T) /\ Len(u) = m + n
      /\ \A i \in 1..m + n : u[i] = IF i <= m THEN s[i] ELSE t[i - m]
  BY ConcatProperties
<1> HIDE DEF u, m, n
<1>3. /\ \A i \in 1..m : u[i] = s[i]
      /\ \A i \in 1..n : u[m + i] = t[i]
      /\ \A i \in m + 1..m + n : u[i] = t[i - m]
  <2>1. \A i \in 1..m : i \in 1..m + n /\ i <= m
    BY <1>1
  <2>2. \A i \in 1..n : m + i \in 1..m + n /\ ~(m + i <= m) /\ (m + i) - m = i
    BY <1>1
  <2>3. \A i \in m + 1..m + n : i \in 1..m + n /\ ~(i <= m)
    BY <1>1
  <2>4. QED
    BY <1>2, <2>1, <2>2, <2>3
<1>4. \A i \in 1..m + n : i \in 1..m \/ i - m \in 1..n
  BY <1>1
<1>5. \A i \in 1..n : m + i \in 1..m + n
  BY <1>1
<1>6. \A i \in 1..m : i \in 1..m + n
  BY <1>1
<1>7. ASSUME NEW x
      PROVE  In(x, u) <=> In(x, s) \/ In(x, t)
  <2>1. In(x, u) <=> \E i \in 1..m + n : u[i] = x
    BY <1>2 DEF In
  <2>2. (In(x, s) <=> \E i \in 1..m : s[i] = x) /\ (In(x, t) <=> \E i \in 1..n : t[i] = x)
    BY DEF In, m, n
  <2>3. \A i \in 1..m + n : i \in 1..m \/ (i - m \in 1..n /\ u[i] = t[i - m])
    BY <1>1, <1>2
  <2>4. QED
    BY <1>3, <1>5, <1>6, <2>1, <2>2, <2>3
<1>8. ASSUME Distinct(u)
      PROVE  Distinct(s) /\ Distinct(t) /\ Apart(s, t)
  <2>1. \A i, j \in 1..m + n : u[i] = u[j] => i = j
    BY <1>2, <1>8 DEF Distinct
  <2>2. \A i, j \in 1..m : s[i] = s[j] => i = j
    BY <1>3, <1>6, <2>1
  <2>3. ASSUME NEW i \in 1..n, NEW j \in 1..n, t[i] = t[j]
        PROVE  i = j
    <3>1. m + i = m + j
      BY <1>3, <1>5, <2>1, <2>3
    <3>2. QED
      BY <1>1, <3>1
  <2>4. ASSUME NEW x, In(x, s), In(x, t)
        PROVE  FALSE
    <3>1. PICK i \in 1..m : s[i] = x
      BY <2>4 DEF In, m
    <3>2. PICK j \in 1..n : t[j] = x
      BY <2>4 DEF In, n
    <3>3. i = m + j
      BY <1>3, <1>5, <1>6, <2>1, <3>1, <3>2
    <3>4. QED
      BY <1>1, <3>3
  <2>5. QED
    BY <2>2, <2>3, <2>4 DEF Distinct, Apart, m, n
<1>9. ASSUME Distinct(s), Distinct(t), Apart(s, t), NEW i \in 1..m + n, NEW j \in 1..m + n,
             u[i] = u[j]
      PROVE  i = j
  <2>1. /\ \A k, l \in 1..m : s[k] = s[l] => k = l
        /\ \A k, l \in 1..n : t[k] = t[l] => k = l
    BY <1>9 DEF Distinct, m, n
  <2>2. \A k \in 1..m, l \in 1..n : s[k] # t[l]
    BY <1>1, <1>9 DEF Apart, In, m, n
  <2>3. \A k \in 1..m + n : \/ k \in 1..m /\ u[k] = s[k]
                            \/ k - m \in 1..n /\ u[k] = t[k - m]
    BY <1>1, <1>2
  <2>4. CASE i \in 1..m /\ u[i] = s[i]
    BY <1>9, <2>1, <2>2, <2>3, <2>4
  <2>5. CASE i - m \in 1..n /\ u[i] = t[i - m]
    <3>1. j - m \in 1..n /\ u[j] = t[j - m]
      BY <1>9, <2>2, <2>3, <2>5
    <3>2. i - m = j - m
      BY <1>9, <2>1, <2>5, <3>1
    <3>3. QED
      BY <1>1, <3>2
  <2>6. QED
    BY <2>3, <2>4, <2>5
<1>10. QED
  BY <1>2, <1>3, <1>7, <1>8, <1>9 DEF Distinct, u, m, n

LEMMA Single ==
  ASSUME NEW T, NEW x \in T
  PROVE  /\ <<x>> \in Seq(T) /\ Len(<<x>>) = 1 /\ Distinct(<<x>>)
         /\ \A y : In(y, <<x>>) <=> y = x
<1>1. <<x>> \in Seq(T) /\ Len(<<x>>) = 1 /\ <<x>>[1] = x
  OBVIOUS
<1> DEFINE s == <<x>>
<1> HIDE DEF s
<1>2. \A i \in 1..Len(s) : i = 1
  BY <1>1 DEF s
<1>3. 1 \in 1..Len(s)
  BY <1>1 DEF s
<1>4. QED
  BY <1>1, <1>2, <1>3 DEF In, Distinct, s

LEMMA Added ==
  ASSUME NEW T, NEW s \in Seq(T), NEW x \in T
  PROVE  /\ <<x>> \o s \in Seq(T) /\ Append(s, x) \in Seq(T) /\ Append(s, x) = s \o <<x>>
         /\ \A y : In(y, <<x>> \o s) <=> y = x \/ In(y, s)
         /\ \A y : In(y, Append(s, x)) <=> y = x \/ In(y, s)
         /\ Distinct(<<x>> \o s) <=> Distinct(s) /\ ~In(x, s)
         /\ Distinct(Append(s, x)) <=> Distinct(s) /\ ~In(x, s)
<1> DEFINE one == <<x>>
<1>1. one \in Seq(T) /\ Distinct(one) /\ \A y : In(y, one) <=> y = x
  BY Single
<1>2. Append(s, x) = s \o one /\ Append(s, x) \in Seq(T)
  BY AppendIsConcat, AppendProperties
<1> HIDE DEF one
<1>3. /\ one \o s \in Seq(T)
      /\ \A y : In(y, one \o s) <=> In(y, one) \/ In(y, s)
      /\ Distinct(one \o s) <=> Distinct(one) /\ Distinct(s) /\ Apart(one, s)
  BY <1>1, Joined
<1>4. /\ \A y : In(y, s \o one) <=> In(y, s) \/ In(y, one)
      /\ Distinct(s \o one) <=> Distinct(s) /\ Distinct(one) /\ Apart(s, one)
  BY <1>1, Joined
<1>5. (Apart(one, s) <=> ~In(x, s)) /\ (Apart(s, one) <=> ~In(x, s))
  BY <1>1, Zenon DEF Apart
<1>6. QED
  BY <1>1, <1>2, <1>3, <1>4, <1>5 DEF one

LEMMA Split ==
  ASSUME NEW T, NEW s \in Seq(T), s # <<>>
  PROVE  /\ Head(s) \in T /\ Tail(s) \in Seq(T) /\ In(Head(s), s)
         /\ \A y : In(y, s) <=> y = Head(s) \/ In(y, Tail(s))
         /\ Distinct(s) => Distinct(Tail(s)) /\ ~In(Head(s), Tail(s))
<1> DEFINE h == Head(s)
           t == Tail(s)
           m == Len(t)
<1>1. /\ h \in T /\ t \in Seq(T) /\ Len(t) = Len(s) - 1
      /\ \A i \in 1..Len(t) : t[i] = s[i + 1]
  BY HeadTailProperties
<1>2. Len(s) \in Nat \ {0} /\ h = s[1]
  BY EmptySeq
<1>3. m \in Nat /\ Len(s) = m + 1 /\ \A i \in 1..m : t[i] = s[i + 1]
  BY <1>1, <1>2
<1> HIDE DEF h, t, m
<1>4. /\ 1 \in 1..m + 1 /\ \A i \in 1..m : i + 1 \in 1..m + 1 /\ i + 1 # 1
      /\ \A i \in 1..m + 1 : i = 1 \/ (i - 1 \in 1..m /\ (i - 1) + 1 = i)
      /\ \A i, j \in 1..m : i + 1 = j + 1 => i = j
  BY <1>3
<1>5. /\ \A y : In(y, s) <=> \E i \in 1..m + 1 : s[i] = y
      /\ \A y : In(y, t) <=> \E i \in 1..m : t[i] = y
      /\ Distinct(s) <=> \A i, j \in 1..m + 1 : s[i] = s[j] => i = j
      /\ Distinct(t) <=> \A i, j \in 1..m : t[i] = t[j] => i = j
  BY <1>3 DEF In, Distinct, m
<1>6. ASSUME NEW y
      PROVE  In(y, s) <=> y = h \/ In(y, t)
  <2>1. ASSUME NEW i \in 1..m + 1, s[i] = y
        PROVE  y = h \/ In(y, t)
    <3>1. CASE i = 1
      BY <1>2, <2>1, <3>1
    <3>2. CASE i - 1 \in 1..m /\ (i - 1) + 1 = i
      BY <1>3, <1>5, <2>1, <3>2
    <3>3. QED
      BY <1>4, <3>1, <3>2
  <2>2. In(y, t) => In(y, s)
    BY <1>3, <1>4, <1>5
  <2>3. In(h, s)
    BY <1>2, <1>4, <1>5
  <2>4. QED
    BY <1>5, <2>1, <2>2, <2>3
<1>7. Distinct(s) => Distinct(t) /\ ~In(h, t)
  BY <1>2, <1>3, <1>4, <1>5
<1>8. QED
  BY <1>1, <1>6, <1>7 DEF h, t

-----------------------------------------------------------------------------
(* Threads and their queues.                                                *)

LEMMA Given == /\ home \in [Waiter \cup Parent -> Thread] /\ parentOf \in [Waiter -> Parent]
               /\ \A w \in Waiter : home[w] = home[parentOf[w]]
               /\ Shared \in Coroutine /\ Waiter \cup Parent \subseteq Coroutine
               /\ \A w \in Waiter : w \notin Parent /\ w # Shared
               /\ \A p \in Parent : p \notin Waiter /\ p # Shared
               /\ IsFiniteSet(Waiter)
  BY GatherAssumption DEF Coroutine

Typed == stack \in [Thread -> Seq(Coroutine)] /\ queue \in [Thread -> Seq(Coroutine)]

\* Only what thread x runs changes.
Elsewhere(x) == \A y \in Thread : y # x => stack'[y] = stack[y]

LEMMA ResumedOn ==
  ASSUME Typed, NEW x \in Thread, NEW h \in Coroutine, Resume(x, h)
  PROVE  stack' \in [Thread -> Seq(Coroutine)] /\ Elsewhere(x) /\ Runs(x, h)'
<1>1. <<h>> \o stack[x] \in Seq(Coroutine) /\ stack' = [stack EXCEPT ![x] = <<h>> \o stack[x]]
  BY Added DEF Typed, Resume
<1>2. <<h>> \o stack[x] # <<>> /\ Head(<<h>> \o stack[x]) = h
  <2> DEFINE s == stack[x]
  <2>1. s \in Seq(Coroutine) /\ Len(s) \in Nat
    BY LenProperties DEF Typed
  <2>2. <<h>> \in Seq(Coroutine) /\ Len(<<h>>) = 1 /\ <<h>>[1] = h
    BY Single
  <2> DEFINE one == <<h>>
  <2> HIDE DEF s, one
  <2>3. Len(one \o s) = 1 + Len(s) /\ (one \o s)[1] = one[1]
    BY <2>1, <2>2, Joined DEF one
  <2>4. one \o s \in Seq(Coroutine) /\ one \o s # <<>>
    BY <2>1, <2>2, <2>3, Joined, EmptySeq DEF one
  <2>5. Head(one \o s) = (one \o s)[1]
    BY <2>4, HeadTailProperties
  <2>6. QED
    BY <2>2, <2>3, <2>4, <2>5 DEF one, s
<1>3. QED
  BY <1>1, <1>2 DEF Typed, Elsewhere, Runs

LEMMA Left ==
  ASSUME Typed, NEW x \in Thread, stack[x] # <<>>, Leave(x)
  PROVE  stack' \in [Thread -> Seq(Coroutine)] /\ Elsewhere(x)
<1>1. Tail(stack[x]) \in Seq(Coroutine)
  BY Split DEF Typed
<1>2. QED
  BY <1>1 DEF Typed, Leave, Elsewhere

LEMMA PostedTo ==
  ASSUME Typed, NEW x \in Thread, NEW h \in Coroutine, queue' = Posted(x, h)
  PROVE  /\ queue' \in [Thread -> Seq(Coroutine)]
         /\ \A y \in Thread : y # x => queue'[y] = queue[y]
         /\ \A g : In(g, queue'[x]) <=> g = h \/ In(g, queue[x])
         /\ Distinct(queue'[x]) <=> Distinct(queue[x]) /\ ~In(h, queue[x])
<1>1. queue'[x] = Append(queue[x], h) /\ Append(queue[x], h) \in Seq(Coroutine)
  BY Added DEF Typed, Posted
<1>2. /\ \A g : In(g, Append(queue[x], h)) <=> g = h \/ In(g, queue[x])
      /\ Distinct(Append(queue[x], h)) <=> Distinct(queue[x]) /\ ~In(h, queue[x])
  BY Added DEF Typed
<1>3. QED
  BY <1>1, <1>2 DEF Typed, Posted

LEMMA NextRuns ==
  ASSUME Typed, NEW x \in Thread, NEW h, RunNext(x, h)
  PROVE  /\ h \in Coroutine /\ In(h, queue[x]) /\ stack[x] = <<>>
         /\ queue' \in [Thread -> Seq(Coroutine)]
         /\ \A y \in Thread : y # x => queue'[y] = queue[y]
         /\ \A g : In(g, queue[x]) <=> g = h \/ In(g, queue'[x])
         /\ Distinct(queue[x]) => Distinct(queue'[x]) /\ ~In(h, queue'[x])
         /\ stack' \in [Thread -> Seq(Coroutine)] /\ Elsewhere(x) /\ Runs(x, h)'
<1>1. queue[x] \in Seq(Coroutine) /\ queue[x] # <<>> /\ h = Head(queue[x]) /\ stack[x] = <<>> /\ Resume(x, h)
  BY DEF Typed, RunNext
<1>2. /\ h \in Coroutine /\ Tail(queue[x]) \in Seq(Coroutine) /\ In(h, queue[x])
      /\ \A g : In(g, queue[x]) <=> g = h \/ In(g, Tail(queue[x]))
      /\ Distinct(queue[x]) => Distinct(Tail(queue[x])) /\ ~In(h, Tail(queue[x]))
  BY <1>1, Split
<1>3. /\ queue' \in [Thread -> Seq(Coroutine)] /\ queue'[x] = Tail(queue[x])
      /\ \A y \in Thread : y # x => queue'[y] = queue[y]
  BY <1>2 DEF Typed, RunNext
<1>4. stack' \in [Thread -> Seq(Coroutine)] /\ Elsewhere(x) /\ Runs(x, h)'
  BY <1>1, <1>2, ResumedOn
<1>5. QED
  BY <1>1, <1>2, <1>3, <1>4

\* The children of a parent, in the order they are spawned in.
LEMMA InOrderSeq ==
  ASSUME NEW p \in Parent
  PROVE  /\ InOrder(p) \in Seq(Coroutine) /\ Distinct(InOrder(p))
         /\ \A h : In(h, InOrder(p)) <=> h \in Children(p)
<1> DEFINE S == Children(p)
           n == Cardinality(S)
           f == InOrder(p)
<1>1. S \subseteq Waiter /\ IsFiniteSet(S)
  BY Given, FS_Subset DEF Children
<1>2. n \in Nat /\ ExistsBijection(1..n, S)
  BY <1>1, FS_CardinalityType
<1>3. \E g \in [1..n -> S] : IsInjective(g)
  BY <1>2 DEF ExistsBijection, Bijection, Injection
<1>4. f \in [1..n -> S] /\ IsInjective(f)
  BY <1>3 DEF InOrder, SetToSeq
<1>5. f \in Surjection(1..n, S)
  <2>1. f \in Injection(1..n, S)
    BY <1>4 DEF Injection
  <2>2. Cardinality(1..n) = n
    BY <1>2, FS_Interval
  <2> HIDE DEF f, S
  <2>3. QED
    BY <1>1, <2>1, <2>2, FS_Injection
<1>6. \A h \in S : \E i \in 1..n : f[i] = h
  BY <1>5 DEF Surjection
<1> HIDE DEF f, n
<1>7. f \in Seq(Coroutine) /\ Len(f) = n
  BY <1>1, <1>2, <1>4, Given
<1>8. Distinct(f) /\ \A h : In(h, f) <=> h \in S
  BY <1>4, <1>6, <1>7 DEF Distinct, In, IsInjective
<1>9. QED
  BY <1>7, <1>8 DEF f

-----------------------------------------------------------------------------
(* What a step does to the threads.                                         *)

\* Only a, or nobody, is disturbed on thread x, and nobody elsewhere.
Acting(x, a) == \/ stack' = stack
                \/ Elsewhere(x) /\ (stack[x] = <<>> \/ Runs(x, a))

LEMMA Undisturbed ==
  ASSUME NEW x \in Thread, NEW a, Acting(x, a), NEW y \in Thread, NEW h, h # a, Runs(y, h)
  PROVE  Runs(y, h)'
BY DEF Acting, Elsewhere, Runs

LEMMA WaiterThreads ==
  ASSUME TypeInv, NEW w \in Waiter, WaiterStep(w)
  PROVE  /\ Typed' /\ Acting(home[w], w)
         /\ StartBody(w) => Runs(home[w], Shared)'
<1>1. Typed /\ home[w] \in Thread /\ w \in Coroutine /\ Shared \in Coroutine
  BY Given DEF TypeInv, Typed
<1>2. CASE AwaitReady(w)
  BY <1>1, <1>2 DEF AwaitReady, Typed, Acting, StartBody, Goto, At
<1>3. CASE StartBody(w)
  <2>1. Resume(home[w], Shared) /\ Runs(home[w], w) /\ queue' = queue
    BY <1>3 DEF StartBody, At
  <2>2. QED
    BY <1>1, <2>1, ResumedOn DEF Typed, Acting
<1>4. CASE TryAwait(w)
  <2>1. Runs(home[w], w) /\ queue' = queue /\ (stack' = stack \/ Leave(home[w]))
    BY <1>4 DEF TryAwait, At
  <2>2. ~StartBody(w)
    BY <1>4 DEF TryAwait, StartBody
  <2>3. QED
    BY <1>1, <2>1, <2>2, Left DEF Typed, Acting, Runs
<1>5. CASE ResumeWaiter(w)
  <2>1. RunNext(home[w], w)
    BY <1>5 DEF ResumeWaiter
  <2>2. ~StartBody(w)
    BY <1>5 DEF ResumeWaiter, StartBody, At
  <2>3. QED
    BY <1>1, <2>1, <2>2, NextRuns DEF Typed, Acting
<1>6. QED
  BY <1>2, <1>3, <1>4, <1>5 DEF WaiterStep

LEMMA BodyThreads ==
  ASSUME TypeInv, StackInv, BodyStep
  PROVE  /\ Typed' /\ Acting(bodyOn, Shared)
         /\ BodyResumes => Runs(bodyOn, Shared)'
<1>1. Typed /\ bodyOn \in Thread /\ Shared \in Coroutine
  BY Given DEF TypeInv, Typed
<1>2. CASE BodyParks \/ BodyEnds
  <2>1. Runs(bodyOn, Shared) /\ queue' = queue /\ Leave(bodyOn) /\ ~BodyResumes
    BY <1>2 DEF BodyParks, BodyEnds, BodyResumes, StackInv
  <2>2. QED
    BY <1>1, <2>1, Left DEF Typed, Acting, Runs
<1>3. CASE BodyWakes
  BY <1>1, <1>3, PostedTo DEF BodyWakes, BodyResumes, Typed, Acting
<1>4. CASE BodyResumes
  BY <1>1, <1>4, NextRuns DEF BodyResumes, Typed, Acting
<1>5. CASE (\E v \in {"value", "exception"} : BodyReturns(v)) \/ Publish \/ NextWaiter
  <2>1. stack' = stack /\ queue' = queue /\ ~BodyResumes
    BY <1>5 DEF BodyReturns, Publish, NextWaiter, BodyResumes
  <2>2. QED
    BY <1>1, <2>1 DEF Typed, Acting
<1>6. CASE PostWaiter
  <2>1. Head(hand) \in Waiter
    BY <1>6, Split DEF PostWaiter, TypeInv
  <2>2. stack' = stack /\ queue' = Posted(home[Head(hand)], Head(hand)) /\ ~BodyResumes
    BY <1>6 DEF PostWaiter, BodyResumes, bodyVars
  <2>3. home[Head(hand)] \in Thread /\ Head(hand) \in Coroutine
    BY <2>1, Given
  <2>4. QED
    BY <1>1, <2>2, <2>3, PostedTo DEF Typed, Acting
<1>7. QED
  BY <1>2, <1>3, <1>4, <1>5, <1>6 DEF BodyStep

LEMMA BeginThreads ==
  ASSUME TypeInv, NEW h \in Parent \cup Waiter, Begin(h)
  PROVE  Typed' /\ Acting(home[h], h) /\ Runs(home[h], h)'
<1>1. Typed /\ home[h] \in Thread /\ RunNext(home[h], h)
  BY Given DEF TypeInv, Typed, Begin
<1>2. QED
  BY <1>1, NextRuns DEF Typed, Acting

LEMMA WakeupThreads ==
  ASSUME TypeInv, NEW c \in Waiter, NEW p \in Parent, NEW last, Runs(home[c], c), Wakeup(c, p, last)
  PROVE  stack' \in [Thread -> Seq(Coroutine)] /\ Acting(home[c], c)
<1>1. Typed /\ home[c] \in Thread /\ p \in Coroutine
  BY Given DEF TypeInv, Typed
<1>2. stack' = stack \/ Resume(home[c], p)
  BY DEF Wakeup
<1>3. QED
  BY <1>1, <1>2, ResumedOn DEF Typed, Acting

LEMMA ChildThreads ==
  ASSUME TypeInv, NEW c \in Waiter, ChildStep(c)
  PROVE  Typed' /\ Acting(home[c], c)
<1>1. Typed /\ home[c] \in Thread /\ c \in Coroutine /\ parentOf[c] \in Parent
  BY Given DEF TypeInv, Typed
<1>2. CASE OwnParks(c) \/ ChildEnds(c)
  <2>1. Runs(home[c], c) /\ queue' = queue /\ Leave(home[c])
    BY <1>2 DEF OwnParks, ChildEnds, At
  <2>2. QED
    BY <1>1, <2>1, Left DEF Typed, Acting, Runs
<1>3. CASE OwnWakes(c)
  BY <1>1, <1>3, PostedTo DEF OwnWakes, Typed, Acting
<1>4. CASE OwnResumes(c)
  BY <1>1, <1>4, NextRuns DEF OwnResumes, Typed, Acting
<1>5. CASE OwnReturns(c) \/ SharedReturns(c)
  BY <1>1, <1>5 DEF OwnReturns, SharedReturns, Receives, Typed, Acting
<1>6. CASE CountDown(c) \/ OnComplete(c)
  <2>1. /\ Runs(home[c], c) /\ queue' = queue
        /\ stack' = stack \/ \E last : Wakeup(c, parentOf[c], last)
    BY <1>6 DEF CountDown, OnComplete, At
  <2>2. QED
    BY <1>1, <2>1, WakeupThreads DEF Typed, Acting
<1>7. QED
  BY <1>2, <1>3, <1>4, <1>5, <1>6 DEF ChildStep

LEMMA ParentThreads ==
  ASSUME TypeInv, NEW p \in Parent, ParentStep(p)
  PROVE  Typed' /\ Acting(home[p], p)
<1>1. Typed /\ home[p] \in Thread /\ p \in Coroutine
  BY Given DEF TypeInv, Typed
<1>2. CASE SpawnAll(p)
  <2>1. queue[home[p]] \o InOrder(p) \in Seq(Coroutine)
    BY <1>1, InOrderSeq, Joined DEF Typed
  <2>2. QED
    BY <1>1, <1>2, <2>1 DEF SpawnAll, Typed, Acting
<1>3. CASE AwaitState(p) \/ ParentEnds(p)
  <2>1. Runs(home[p], p) /\ queue' = queue /\ Leave(home[p])
    BY <1>3 DEF AwaitState, ParentEnds, At
  <2>2. QED
    BY <1>1, <2>1, Left DEF Typed, Acting, Runs
<1>4. CASE TakeResults(p)
  BY <1>1, <1>4 DEF TakeResults, Typed, Acting
<1>5. QED
  BY <1>2, <1>3, <1>4 DEF ParentStep

-----------------------------------------------------------------------------
(* Types, and who runs.                                                     *)

\* Everybody is where somebody of that kind can be.
Placed(f) == /\ f \in [Waiter \cup Parent -> WaiterPlace \cup ParentPlace]
             /\ \A w \in Waiter : f[w] \in WaiterPlace
             /\ \A p \in Parent : f[p] \in ParentPlace

LEMMA WaiterGoes ==
  ASSUME NEW f, Placed(f), NEW w \in Waiter, NEW b \in WaiterPlace, NEW g, g = [f EXCEPT ![w] = b]
  PROVE  Placed(g) /\ g[w] = b /\ \A h \in Waiter \cup Parent : h # w => g[h] = f[h]
<1>1. g \in [Waiter \cup Parent -> WaiterPlace \cup ParentPlace]
  BY DEF Placed
<1>2. g[w] = b /\ \A h \in Waiter \cup Parent : h # w => g[h] = f[h]
  BY DEF Placed
<1>3. (\A h \in Waiter : g[h] \in WaiterPlace) /\ (\A h \in Parent : g[h] \in ParentPlace)
  BY <1>2, Given DEF Placed
<1>4. QED
  BY <1>1, <1>2, <1>3 DEF Placed

LEMMA ParentGoes ==
  ASSUME NEW f, Placed(f), NEW p \in Parent, NEW b \in ParentPlace, NEW g, g = [f EXCEPT ![p] = b]
  PROVE  Placed(g) /\ g[p] = b /\ \A h \in Waiter \cup Parent : h # p => g[h] = f[h]
<1>1. g \in [Waiter \cup Parent -> WaiterPlace \cup ParentPlace]
  BY DEF Placed
<1>2. g[p] = b /\ \A h \in Waiter \cup Parent : h # p => g[h] = f[h]
  BY DEF Placed
<1>3. (\A h \in Waiter : g[h] \in WaiterPlace) /\ (\A h \in Parent : g[h] \in ParentPlace)
  BY <1>2, Given DEF Placed
<1>4. QED
  BY <1>1, <1>2, <1>3 DEF Placed

\* A waiter, and nobody else, goes to b; the waiter goes on and its parent is
\* resumed.
Goes(h, b) == Placed(pc)' /\ pc'[h] = b /\ \A g \in Waiter \cup Parent : g # h => pc'[g] = pc[g]
Wakes(c, p) == /\ Placed(pc)' /\ pc'[c] = "unwind" /\ pc'[p] = "resume"
               /\ \A g \in Waiter \cup Parent : g \notin {c, p} => pc'[g] = pc[g]

LEMMA GotoWaiter ==
  ASSUME TypeInv, NEW w \in Waiter, NEW b \in WaiterPlace, Goto(w, b)
  PROVE  Goes(w, b)
<1>1. Placed(pc) /\ pc' = [pc EXCEPT ![w] = b]
  BY DEF TypeInv, Placed, Goto
<1>2. QED
  BY <1>1, WaiterGoes DEF Goes, Placed

LEMMA GotoParent ==
  ASSUME TypeInv, NEW p \in Parent, NEW b \in ParentPlace, Goto(p, b)
  PROVE  Goes(p, b)
<1>1. Placed(pc) /\ pc' = [pc EXCEPT ![p] = b]
  BY DEF TypeInv, Placed, Goto
<1>2. QED
  BY <1>1, ParentGoes DEF Goes, Placed

LEMMA GotoBoth ==
  ASSUME TypeInv, NEW c \in Waiter, NEW p \in Parent, pc' = [pc EXCEPT ![c] = "unwind", ![p] = "resume"]
  PROVE  Wakes(c, p)
<1> DEFINE f == [pc EXCEPT ![c] = "unwind"]
<1>1. Placed(pc)
  BY DEF TypeInv, Placed
<1>2. "unwind" \in WaiterPlace /\ "resume" \in ParentPlace /\ c # p
  BY Given DEF WaiterPlace, ParentPlace
<1>3. Placed(f) /\ f[c] = "unwind" /\ \A h \in Waiter \cup Parent : h # c => f[h] = pc[h]
  BY <1>1, <1>2, WaiterGoes DEF Placed
<1>4. pc' = [f EXCEPT ![p] = "resume"]
  OBVIOUS
<1> HIDE DEF f
<1>5. Placed(pc') /\ pc'[p] = "resume" /\ \A h \in Waiter \cup Parent : h # p => pc'[h] = f[h]
  BY <1>2, <1>3, <1>4, ParentGoes DEF Placed
<1>6. QED
  BY <1>2, <1>3, <1>5 DEF Wakes, Placed

-----------------------------------------------------------------------------
(* Who goes where.                                                          *)

LEMMA WaiterMoves ==
  ASSUME TypeInv, NEW w \in Waiter, WaiterStep(w)
  PROVE  \E b \in {"resume", "suspend", "started it", "waiting"} : Goes(w, b)
<1>1. PICK b \in {"resume", "suspend", "started it", "waiting"} : Goto(w, b)
  BY DEF WaiterStep, AwaitReady, StartBody, TryAwait, ResumeWaiter
<1>2. b \in WaiterPlace
  BY DEF WaiterPlace
<1>3. QED
  BY <1>1, <1>2, GotoWaiter

LEMMA BeginMoves ==
  ASSUME TypeInv, NEW h \in Parent \cup Waiter, Begin(h)
  PROVE  /\ h \in Parent => Goes(h, "spawn")
         /\ h \in Waiter => \/ h \in sharing /\ Goes(h, "query")
                            \/ Goes(h, "own")
<1>1. h \in Parent => Goto(h, "spawn")
  <2>1. h \in Parent => h \notin sharing
    BY Given DEF TypeInv
  <2>2. QED
    BY <2>1 DEF Begin
<1>2. h \in Waiter => \/ h \in sharing /\ Goto(h, "query")
                      \/ Goto(h, "own")
  BY Given DEF Begin
<1>3. "spawn" \in ParentPlace /\ "query" \in WaiterPlace /\ "own" \in WaiterPlace
  BY DEF ParentPlace, WaiterPlace
<1>4. QED
  BY <1>1, <1>2, <1>3, GotoWaiter, GotoParent

LEMMA WakeupMoves ==
  ASSUME TypeInv, NEW c \in Waiter, NEW p \in Parent, NEW last, Wakeup(c, p, last)
  PROVE  (last /\ Wakes(c, p)) \/ (~last /\ Goes(c, "unwind"))
<1>1. (last /\ pc' = [pc EXCEPT ![c] = "unwind", ![p] = "resume"]) \/ (~last /\ Goto(c, "unwind"))
  BY DEF Wakeup
<1>2. "unwind" \in WaiterPlace
  BY DEF WaiterPlace
<1>3. QED
  BY <1>1, <1>2, GotoBoth, GotoWaiter

Ending == {"complete", "unwind"}
LEMMA ChildMoves ==
  ASSUME TypeInv, NEW c \in Waiter
  PROVE  /\ OwnParks(c) => Goes(c, "parked")
         /\ OwnWakes(c) => Goes(c, "posted")
         /\ OwnResumes(c) => Goes(c, "back")
         /\ OwnReturns(c) \/ SharedReturns(c) => \E b \in Ending : Goes(c, b)
         /\ CountDown(c) \/ OnComplete(c) => Goes(c, "unwind") \/ Wakes(c, parentOf[c])
         /\ ChildEnds(c) => Goes(c, "over")
<1>1. \A b \in {"parked", "posted", "back", "over"} \cup Ending : b \in WaiterPlace
  BY DEF WaiterPlace, Ending
<1>2. parentOf[c] \in Parent
  BY Given
<1>3. /\ OwnParks(c) => Goes(c, "parked")
      /\ OwnWakes(c) => Goes(c, "posted")
      /\ OwnResumes(c) => Goes(c, "back")
      /\ ChildEnds(c) => Goes(c, "over")
  <2>1. /\ OwnParks(c) => Goto(c, "parked")
        /\ OwnWakes(c) => Goto(c, "posted")
        /\ OwnResumes(c) => Goto(c, "back")
        /\ ChildEnds(c) => Goto(c, "over")
    BY DEF OwnParks, OwnWakes, OwnResumes, ChildEnds
  <2>2. QED
    BY <1>1, <2>1, GotoWaiter
<1>4. ASSUME OwnReturns(c) \/ SharedReturns(c)
      PROVE  \E b \in Ending : Goes(c, b)
  <2>1. PICK v : Receives(c, v)
    BY <1>4 DEF OwnReturns, SharedReturns
  <2>2. Goto(c, IF v = "value" THEN "complete" ELSE "unwind")
    BY <2>1 DEF Receives
  <2>3. PICK b \in Ending : Goto(c, b)
    BY <2>2 DEF Ending
  <2>4. QED
    BY <1>1, <2>3, GotoWaiter
<1>5. ASSUME CountDown(c) \/ OnComplete(c)
      PROVE  Goes(c, "unwind") \/ Wakes(c, parentOf[c])
  <2>1. Goto(c, "unwind") \/ \E last : Wakeup(c, parentOf[c], last)
    BY <1>5 DEF CountDown, OnComplete
  <2>2. QED
    BY <1>1, <1>2, <2>1, GotoWaiter, WakeupMoves DEF Ending
<1>6. QED
  BY <1>3, <1>4, <1>5

LEMMA ParentMoves ==
  ASSUME TypeInv, NEW p \in Parent, AwaitState(p) \/ TakeResults(p) \/ ParentEnds(p)
  PROVE  /\ AwaitState(p) => Goes(p, "asleep")
         /\ TakeResults(p) => Goes(p, "finish")
         /\ ParentEnds(p) => Goes(p, "over")
<1>1. \A b \in {"asleep", "finish", "over"} : b \in ParentPlace
  BY DEF ParentPlace
<1>2. /\ AwaitState(p) => Goto(p, "asleep")
      /\ TakeResults(p) => Goto(p, "finish")
      /\ ParentEnds(p) => Goto(p, "over")
  BY DEF AwaitState, TakeResults, ParentEnds
<1>3. QED
  BY <1>1, <1>2, GotoParent

\* The children are queued.
LEMMA SpawnMoves ==
  ASSUME TypeInv, NEW p \in Parent, SpawnAll(p)
  PROVE  /\ Placed(pc)' /\ pc[p] = "spawn" /\ pc'[p] = "spawned"
         /\ \A c \in Children(p) : pc'[c] = "queued"
         /\ \A h \in Waiter \cup Parent : h \notin Children(p) \cup {p} => pc'[h] = pc[h]
<1>1. /\ DOMAIN pc = Waiter \cup Parent
      /\ pc' = [h \in DOMAIN pc |-> IF h \in Children(p) THEN "queued"
                                    ELSE IF h = p THEN "spawned" ELSE pc[h]]
  BY DEF TypeInv, SpawnAll
<1>2. /\ \A h \in Waiter \cup Parent : pc'[h] = IF h \in Children(p) THEN "queued"
                                              ELSE IF h = p THEN "spawned" ELSE pc[h]
      /\ DOMAIN pc' = Waiter \cup Parent /\ pc' = [h \in DOMAIN pc' |-> pc'[h]]
  BY <1>1
<1>3. p \notin Children(p) /\ Children(p) \subseteq Waiter /\ \A q \in Parent : q \notin Children(p)
  BY Given DEF Children
<1>4. /\ pc[p] = "spawn" /\ pc'[p] = "spawned"
      /\ \A c \in Children(p) : pc'[c] = "queued"
      /\ \A h \in Waiter \cup Parent : h \notin Children(p) \cup {p} => pc'[h] = pc[h]
  BY <1>2, <1>3 DEF SpawnAll, At
<1>5. (\A w \in Waiter : pc'[w] \in WaiterPlace) /\ (\A q \in Parent : pc'[q] \in ParentPlace)
  <2>1. (\A w \in Waiter : pc[w] \in WaiterPlace) /\ (\A q \in Parent : pc[q] \in ParentPlace)
    BY DEF TypeInv
  <2>2. "queued" \in WaiterPlace /\ "spawned" \in ParentPlace
    BY DEF WaiterPlace, ParentPlace
  <2>3. ASSUME NEW w \in Waiter
        PROVE  pc'[w] \in WaiterPlace
    BY <1>2, <2>1, <2>2, Given
  <2>4. ASSUME NEW q \in Parent
        PROVE  pc'[q] \in ParentPlace
    BY <1>2, <1>3, <2>1, <2>2
  <2>5. QED
    BY <2>3, <2>4
<1>6. \A h \in Waiter \cup Parent : pc'[h] \in WaiterPlace \cup ParentPlace
  BY <1>5
<1>7. pc' \in [Waiter \cup Parent -> WaiterPlace \cup ParentPlace]
  BY <1>2, <1>6
<1>8. QED
  BY <1>4, <1>5, <1>7 DEF Placed

-----------------------------------------------------------------------------
(* Types.                                                                   *)

Shapes == /\ phase \in {"not started", "started", "ready"}
          /\ waiters \in Seq(Waiter) /\ hand \in Seq(Waiter) /\ cursor \in Seq(Waiter)
          /\ body \in {"initial", "run", "parked", "posted", "again", "final", "done"}
          /\ bodyOn \in Thread /\ outcome \in Outcome
          /\ held \in BOOLEAN /\ late \subseteq Waiter
Tallies == /\ val \in [Waiter -> Outcome]
           /\ remaining \in [Parent -> Int] /\ awaiting \subseteq Parent /\ resumed \subseteq Parent
           /\ results \in [Parent -> Seq(Waiter)] /\ taken \in [Parent -> Seq(Waiter)]
           /\ order \in [Parent -> Seq(Waiter)]
Calls == /\ mode \in [Parent -> {"all", "any", "some"}] /\ need \in [Parent -> Nat]
         /\ \A p \in Parent : mode[p] # "some" => need[p] = 1
         /\ sharing \subseteq Waiter

LEMMA TypeParts == TypeInv <=> Typed /\ Placed(pc) /\ Shapes /\ Tallies /\ Calls
  BY DEF TypeInv, Typed, Placed, Shapes, Tallies, Calls

LEMMA TypesNext ==
  ASSUME Typed', Placed(pc)', Shapes', Tallies', Calls'
  PROVE  TypeInv'
  BY DEF TypeInv, Typed, Placed, Shapes, Tallies, Calls

LEMMA ShapesSame ==
  ASSUME TypeInv, UNCHANGED <<listVars, bodyVars, held>>
  PROVE  Shapes'
  BY DEF TypeInv, Shapes, listVars, bodyVars

LEMMA TalliesSame ==
  ASSUME TypeInv, UNCHANGED <<val, stateVars, order>>
  PROVE  Tallies'
  BY DEF TypeInv, Tallies, stateVars

LEMMA CallsSame ==
  ASSUME TypeInv, UNCHANGED <<mode, need, sharing>>
  PROVE  Calls'
  BY DEF TypeInv, Calls

LEMMA WaiterShapes ==
  ASSUME TypeInv, NEW w \in Waiter, WaiterStep(w)
  PROVE  Shapes'
<1>1. home[w] \in Thread /\ Shapes
  BY Given DEF TypeInv, Shapes
<1>2. waiters' = waiters \/ waiters' = <<w>> \o waiters
  BY DEF WaiterStep, AwaitReady, StartBody, TryAwait, ResumeWaiter, sharedVars
<1>3. waiters' \in Seq(Waiter)
  <2>1. <<w>> \o waiters \in Seq(Waiter)
    BY <1>1, Added DEF Shapes
  <2>2. QED
    BY <1>1, <1>2, <2>1 DEF Shapes
<1>4. hand' = hand /\ cursor' = cursor /\ outcome' = outcome /\ held' = held /\ late' = late
  BY DEF WaiterStep, AwaitReady, StartBody, TryAwait, ResumeWaiter, sharedVars, bodyVars, refVars
<1>5. \/ phase' = phase /\ body' = body /\ bodyOn' = bodyOn
      \/ phase' = "started" /\ body' = "run" /\ bodyOn' = home[w]
  BY DEF WaiterStep, AwaitReady, StartBody, TryAwait, ResumeWaiter, sharedVars, bodyVars
<1>6. QED
  BY <1>1, <1>3, <1>4, <1>5 DEF Shapes

LEMMA BodyShapes ==
  ASSUME TypeInv, BodyStep
  PROVE  Shapes'
<1>1. Shapes
  BY DEF TypeInv, Shapes
<1>2. \A v \in {"value", "exception"} : v \in Outcome
  BY DEF Outcome
<1>3. <<>> \in Seq(Waiter)
  BY EmptySeq
<1>4. CASE BodyParks \/ BodyWakes \/ BodyResumes \/ BodyEnds
  BY <1>1, <1>4 DEF BodyParks, BodyWakes, BodyResumes, BodyEnds, Shapes, listVars, bodyVars, refVars
<1>5. CASE \E v \in {"value", "exception"} : BodyReturns(v)
  BY <1>1, <1>2, <1>5 DEF BodyReturns, Shapes, listVars, refVars
<1>6. CASE Publish
  BY <1>1, <1>3, <1>6 DEF Publish, Shapes, bodyVars, refVars
<1>7. CASE PostWaiter
  <2>1. <<Head(hand)>> \in Seq(Waiter)
    BY <1>1, <1>7, Split, Single DEF PostWaiter, Shapes
  <2>2. QED
    BY <1>1, <1>7, <2>1 DEF PostWaiter, Shapes, bodyVars, refVars
<1>8. CASE NextWaiter
  <2>1. Head(cursor) \in Waiter
    BY <1>1, <1>8, Split DEF NextWaiter, Shapes
  <2>2. Tail(hand) \in Seq(Waiter)
    <3>1. CASE hand # <<>>
      BY <1>1, <3>1, Split DEF Shapes
    <3>2. CASE hand = <<>>
      BY <1>3, <3>2
    <3>3. QED
      BY <3>1, <3>2
  <2>3. hand' \in Seq(Waiter) /\ cursor' \in Seq(Waiter) /\ late' \subseteq Waiter
    BY <1>1, <1>3, <1>8, <2>1, <2>2 DEF NextWaiter, Shapes
  <2>4. UNCHANGED <<phase, waiters, body, bodyOn, outcome, held>>
    BY <1>8 DEF NextWaiter, refVars
  <2>5. QED
    BY <1>1, <2>3, <2>4 DEF Shapes
<1>9. QED
  BY <1>4, <1>5, <1>6, <1>7, <1>8 DEF BodyStep

LEMMA SharedTypes ==
  ASSUME TypeInv, StackInv, SharedStep, UNCHANGED gatherVars
  PROVE  TypeInv'
<1>1. Typed'
  BY WaiterThreads, BodyThreads DEF SharedStep, DropHeld, TypeInv, Typed
<1>2. UNCHANGED <<mode, need, sharing, val, stateVars, order>>
  BY DEF gatherVars
<1>3. Shapes'
  <2>1. ASSUME DropHeld PROVE Shapes'
    BY <2>1 DEF DropHeld, listVars, bodyVars, TypeInv, Shapes
  <2>2. QED
    BY <2>1, WaiterShapes, BodyShapes DEF SharedStep
<1>4. Placed(pc)'
  <2>1. ASSUME BodyStep \/ DropHeld PROVE pc' = pc
    BY <2>1 DEF BodyStep, BodyParks, BodyWakes, BodyResumes, BodyReturns, Publish, PostWaiter, NextWaiter,
                BodyEnds, DropHeld
  <2>2. ASSUME NEW w \in Waiter, WaiterStep(w) PROVE Placed(pc)'
    BY <2>2, WaiterMoves DEF Goes
  <2>3. QED
    BY <2>1, <2>2 DEF SharedStep, TypeInv, Placed
<1>5. QED
  BY <1>1, <1>2, <1>3, <1>4, TypesNext, TalliesSame, CallsSame

LEMMA BeginTypes ==
  ASSUME TypeInv, NEW h \in Parent \cup Waiter, Begin(h)
  PROVE  TypeInv'
<1>1. UNCHANGED <<listVars, bodyVars, held>> /\ UNCHANGED <<mode, need, sharing, val, stateVars, order>>
  BY DEF Begin, sharedVars, listVars, bodyVars, gatherVars
<1>2. Typed'
  BY BeginThreads
<1>3. Placed(pc)'
  BY BeginMoves DEF Goes
<1>4. QED
  BY <1>1, <1>2, <1>3, TypesNext, ShapesSame, TalliesSame, CallsSame

LEMMA ChildTypes ==
  ASSUME TypeInv, NEW c \in Waiter, ChildStep(c)
  PROVE  TypeInv'
<1>1. UNCHANGED <<listVars, bodyVars, held>> /\ UNCHANGED <<mode, need, sharing, awaiting, taken>>
  BY DEF ChildStep, OwnParks, OwnWakes, OwnResumes, OwnReturns, SharedReturns, Receives,
         CountDown, OnComplete, ChildEnds, sharedVars, listVars, bodyVars, gatherVars, stateVars
<1>2. Placed(pc)' /\ Typed'
  BY ChildMoves, ChildThreads DEF Goes, Wakes, ChildStep
<1>3. Tallies /\ parentOf[c] \in Parent
  BY Given DEF TypeInv, Tallies
<1>4. CASE CountDown(c) \/ OnComplete(c)
  <2>1. \A p \in Parent : Append(results[p], c) \in Seq(Waiter) /\ Append(order[p], c) \in Seq(Waiter)
    BY <1>3, Added DEF Tallies
  <2>2. val' = val /\ (remaining' = remaining \/ remaining' = [remaining EXCEPT ![parentOf[c]] = @ - 1])
    BY <1>4 DEF CountDown, OnComplete
  <2>3. /\ results' = results \/ results' = [results EXCEPT ![parentOf[c]] = Append(@, c)]
        /\ order' = [order EXCEPT ![parentOf[c]] = Append(@, c)]
        /\ resumed' = resumed \/ resumed' = resumed \cup {parentOf[c]}
    BY <1>4 DEF CountDown, OnComplete
  <2>4. results' \in [Parent -> Seq(Waiter)]
    BY <1>3, <2>1, <2>3 DEF Tallies
  <2>5. order' \in [Parent -> Seq(Waiter)]
    BY <1>3, <2>1, <2>3 DEF Tallies
  <2>6. remaining' \in [Parent -> Int]
    BY <1>3, <2>2 DEF Tallies
  <2>7. resumed' \subseteq Parent
    BY <1>3, <2>3 DEF Tallies
  <2>8. Tallies'
    BY <1>1, <1>3, <2>2, <2>4, <2>5, <2>6, <2>7 DEF Tallies
  <2>9. QED
    BY <1>1, <1>2, <2>8, TypesNext, ShapesSame, CallsSame
<1>5. CASE ~(CountDown(c) \/ OnComplete(c))
  <2>1. UNCHANGED <<remaining, resumed, results, order>>
    BY <1>5 DEF ChildStep, OwnParks, OwnWakes, OwnResumes, OwnReturns, SharedReturns, Receives,
                ChildEnds, gatherVars, stateVars
  <2>2. val' = val \/ \E v \in Outcome : val' = [val EXCEPT ![c] = v]
    <3>1. outcome \in Outcome /\ \A v \in {"value", "exception"} : v \in Outcome
      BY DEF Outcome, TypeInv
    <3>2. ASSUME OwnReturns(c) \/ SharedReturns(c)
          PROVE  \E v \in Outcome : Receives(c, v)
      BY <3>1, <3>2 DEF OwnReturns, SharedReturns
    <3>3. ~(OwnReturns(c) \/ SharedReturns(c)) => val' = val
      BY <1>5 DEF ChildStep, OwnParks, OwnWakes, OwnResumes, ChildEnds, gatherVars
    <3>4. QED
      BY <3>2, <3>3 DEF Receives
  <2>3. val' \in [Waiter -> Outcome]
    BY <1>3, <2>2 DEF Tallies
  <2>4. Tallies'
    BY <1>1, <1>3, <2>1, <2>3 DEF Tallies
  <2>5. QED
    BY <1>1, <1>2, <2>4, TypesNext, ShapesSame, CallsSame
<1>6. QED
  BY <1>4, <1>5

\* The first n of a list.
LEMMA Prefix ==
  ASSUME NEW T, NEW s \in Seq(T), NEW n \in 0..Len(s)
  PROVE  /\ SubSeq(s, 1, n) \in Seq(T) /\ Len(SubSeq(s, 1, n)) = n
         /\ \A i \in 1..n : SubSeq(s, 1, n)[i] = s[i]
         /\ \A x : In(x, SubSeq(s, 1, n)) => In(x, s)
<1> DEFINE m == Len(s)
           u == SubSeq(s, 1, n)
<1>1. m \in Nat
  BY LenProperties
<1>2. u = [i \in 1..n |-> s[i]] /\ u \in Seq(T) /\ Len(u) = n
  <2>1. \A i \in 1..n : s[i] \in T
    BY <1>1, ElementOfSeq
  <2>2. n \in Nat
    BY <1>1
  <2>3. u = [i \in 1..n |-> s[i]]
    <3>1. u = [i \in 1..(n - 1 + 1) |-> s[i + 1 - 1]]
      BY DEF SubSeq
    <3>2. QED
      BY <3>1
  <2>4. QED
    BY <2>1, <2>2, <2>3
<1>3. \A i \in 1..n : u[i] = s[i] /\ i \in 1..m
  BY <1>1, <1>2
<1> HIDE DEF u, m
<1>4. \A x : In(x, u) => In(x, s)
  BY <1>2, <1>3 DEF In, m
<1>5. QED
  BY <1>2, <1>3, <1>4 DEF u

LEMMA PrefixTwice ==
  ASSUME NEW T, NEW s \in Seq(T), NEW n \in 0..Len(s)
  PROVE  SubSeq(SubSeq(s, 1, n), 1, n) = SubSeq(s, 1, n)
<1>1. SubSeq(s, 1, n) \in Seq(T) /\ Len(SubSeq(s, 1, n)) = n
  BY Prefix
<1>2. QED
  BY <1>1, SubSeqFull

LEMMA PrefixKept ==
  ASSUME NEW T, NEW s \in Seq(T), NEW x \in T, NEW n \in 0..Len(s)
  PROVE  SubSeq(Append(s, x), 1, n) = SubSeq(s, 1, n)
<1> DEFINE t == Append(s, x)
           m == Len(s)
           u == SubSeq(s, 1, n)
           v == SubSeq(t, 1, n)
<1>1. m \in Nat /\ t \in Seq(T) /\ Len(t) = m + 1 /\ \A i \in 1..m : t[i] = s[i]
  BY LenProperties, AppendProperties
<1>2. n \in 0..Len(t) /\ n \in 0..m
  BY <1>1
<1>3. u \in Seq(T) /\ Len(u) = n /\ \A i \in 1..n : u[i] = s[i]
  BY Prefix
<1>4. v \in Seq(T) /\ Len(v) = n /\ \A i \in 1..n : v[i] = t[i]
  BY <1>1, <1>2, Prefix
<1> HIDE DEF t, m, u, v
<1>5. \A i \in 1..n : i \in 1..m
  BY <1>1, <1>2
<1>6. \A i \in 1..Len(u) : u[i] = v[i]
  BY <1>1, <1>3, <1>4, <1>5
<1>7. u = v
  BY <1>3, <1>4, <1>6, SeqEqual
<1>8. QED
  BY <1>7 DEF u, v, t

-----------------------------------------------------------------------------
(* Who is on a stack.                                                       *)

\* The body goes on where it was, and a parent is not disturbed by others.
LEMMA Stacked ==
  ASSUME StackInv, Placed(pc)', NEW x \in Thread, NEW a, Acting(x, a),
         bodyOn \in Thread, bodyOn' = bodyOn,
         body' \in {"run", "again", "final"} =>
             \/ Runs(bodyOn, Shared)'
             \/ body \in {"run", "again", "final"} /\ a # Shared,
         \A p \in Parent : pc'[p] \in {"spawn", "spawned"} =>
             \/ Runs(home[p], p)'
             \/ pc[p] \in {"spawn", "spawned"} /\ a # p
  PROVE  StackInv'
<1>1. body' \in {"run", "again", "final"} => Runs(bodyOn, Shared)'
  BY Undisturbed DEF StackInv
<1>2. ASSUME NEW p \in Parent, pc'[p] \in {"spawn", "spawned"}
      PROVE  Runs(home[p], p)'
  BY <1>2, Given, Undisturbed DEF StackInv
<1>3. QED
  BY <1>1, <1>2 DEF StackInv, Runs

LEMMA WaiterStacked ==
  ASSUME TypeInv, StackInv, PhaseInv, NEW w \in Waiter, WaiterStep(w)
  PROVE  StackInv'
<1>1. Acting(home[w], w) /\ home[w] \in Thread /\ bodyOn \in Thread /\ w # Shared /\ w \notin Parent
  BY Given, WaiterThreads DEF TypeInv
<1>2. Placed(pc)' /\ \A p \in Parent : pc'[p] = pc[p] /\ w # p
  BY <1>1, WaiterMoves DEF Goes
<1>3. ASSUME ~StartBody(w) PROVE StackInv'
  <2>1. body' = body /\ bodyOn' = bodyOn
    BY <1>3 DEF WaiterStep, AwaitReady, TryAwait, ResumeWaiter, sharedVars, bodyVars
  <2>2. QED
    BY <1>1, <1>2, <2>1, Stacked
<1>4. ASSUME StartBody(w) PROVE StackInv'
  <2>1. bodyOn' = home[w] /\ Runs(home[w], Shared)'
    BY <1>4, WaiterThreads DEF StartBody
  <2>2. \A p \in Parent : pc'[p] \in {"spawn", "spawned"} => Runs(home[p], p)'
    BY <1>1, <1>2, Given, Undisturbed DEF StackInv
  <2>3. QED
    BY <2>1, <2>2 DEF StackInv, Runs
<1>5. QED
  BY <1>3, <1>4

LEMMA BodyStacked ==
  ASSUME TypeInv, StackInv, BodyStep
  PROVE  StackInv'
<1>1. Acting(bodyOn, Shared) /\ bodyOn \in Thread /\ \A p \in Parent : p # Shared
  BY Given, BodyThreads DEF TypeInv
<1>2. pc' = pc /\ bodyOn' = bodyOn
  BY DEF BodyStep, BodyParks, BodyWakes, BodyResumes, BodyReturns, Publish, PostWaiter, NextWaiter,
         BodyEnds, listVars, bodyVars
<1>3. Placed(pc)'
  BY <1>2 DEF TypeInv, Placed
<1>4. body' \in {"run", "again", "final"} => Runs(bodyOn, Shared)'
  <2>1. CASE BodyParks \/ BodyWakes \/ BodyEnds
    BY <2>1 DEF BodyParks, BodyWakes, BodyEnds
  <2>2. CASE BodyResumes
    BY <2>2, BodyThreads
  <2>3. CASE (\E v \in {"value", "exception"} : BodyReturns(v)) \/ Publish \/ PostWaiter \/ NextWaiter
    <3>1. stack' = stack /\ (body' = body \/ Runs(bodyOn, Shared))
      BY <2>3 DEF BodyReturns, Publish, PostWaiter, NextWaiter, bodyVars
    <3>2. QED
      BY <1>2, <3>1 DEF StackInv, Runs
  <2>4. QED
    BY <2>1, <2>2, <2>3 DEF BodyStep
<1>5. QED
  BY <1>1, <1>2, <1>3, <1>4, Stacked

LEMMA OtherStacked ==
  ASSUME TypeInv, StackInv, NEW h \in Waiter \cup Parent, Acting(home[h], h), UNCHANGED bodyVars,
         Placed(pc)',
         \A p \in Parent : pc'[p] \in {"spawn", "spawned"} =>
             \/ Runs(home[p], p)'
             \/ pc[p] \in {"spawn", "spawned"} /\ h # p
  PROVE  StackInv'
<1>1. home[h] \in Thread /\ bodyOn \in Thread /\ h # Shared /\ body' = body /\ bodyOn' = bodyOn
  BY Given DEF TypeInv, bodyVars
<1>2. QED
  BY <1>1, Stacked

LEMMA BeginStacked ==
  ASSUME TypeInv, StackInv, NEW h \in Parent \cup Waiter, Begin(h)
  PROVE  StackInv'
<1>1. Acting(home[h], h) /\ Runs(home[h], h)' /\ UNCHANGED bodyVars
  BY BeginThreads DEF Begin, sharedVars, bodyVars
<1>2. Placed(pc)' /\ \A g \in Waiter \cup Parent : g # h => pc'[g] = pc[g]
  BY BeginMoves DEF Goes
<1>3. QED
  BY <1>1, <1>2, OtherStacked

LEMMA ChildStacked ==
  ASSUME TypeInv, StackInv, NEW c \in Waiter, ChildStep(c)
  PROVE  StackInv'
<1>1. Acting(home[c], c) /\ UNCHANGED bodyVars /\ parentOf[c] \in Parent /\ \A p \in Parent : p # c
  BY Given, ChildThreads DEF ChildStep, OwnParks, OwnWakes, OwnResumes, OwnReturns, SharedReturns, Receives,
         CountDown, OnComplete, ChildEnds, sharedVars, bodyVars
<1>2. Placed(pc)' /\ \A p \in Parent : pc'[p] = pc[p] \/ pc'[p] = "resume"
  BY <1>1, ChildMoves DEF Goes, Wakes, ChildStep
<1>3. QED
  BY <1>1, <1>2, OtherStacked

LEMMA ParentStacked ==
  ASSUME TypeInv, StackInv, NEW p \in Parent, ParentStep(p)
  PROVE  StackInv'
<1>1. Acting(home[p], p) /\ UNCHANGED bodyVars
  BY ParentThreads DEF ParentStep, SpawnAll, AwaitState, TakeResults, ParentEnds, sharedVars, bodyVars
<1>2. CASE SpawnAll(p)
  <2>1. stack' = stack /\ Runs(home[p], p)
    BY <1>2 DEF SpawnAll, At
  <2>2. Placed(pc)' /\ \A q \in Parent : q # p => pc'[q] = pc[q]
    BY <1>2, SpawnMoves, Given DEF Children
  <2>3. Runs(home[p], p)'
    BY <2>1 DEF Runs
  <2>4. QED
    BY <1>1, <2>2, <2>3, OtherStacked
<1>3. CASE AwaitState(p) \/ TakeResults(p) \/ ParentEnds(p)
  <2>1. \E b \in {"asleep", "finish", "over"} : Goes(p, b)
    BY <1>3, ParentMoves
  <2>2. Placed(pc)' /\ pc'[p] \notin {"spawn", "spawned"} /\ \A q \in Parent : q # p => pc'[q] = pc[q]
    BY <2>1 DEF Goes
  <2>3. QED
    BY <1>1, <2>2, OtherStacked
<1>4. QED
  BY <1>2, <1>3 DEF ParentStep

-----------------------------------------------------------------------------
(* Who is queued.                                                           *)

\* One list of queued handles, each queued for a reason.
LEMMA DuePlace ==
  ASSUME NEW h, NEW x, NEW y, Due(h, x), Due(h, y)
  PROVE  x = y
  BY Given DEF Due

LEMMA QueueCalm ==
  ASSUME TypeInv, QueueInv, queue' = queue,
         \A h \in Coroutine, x \in Thread : Due(h, x) => Due(h, x)'
  PROVE  QueueInv'
<1>1. \A x \in Thread : queue'[x] = queue[x]
  OBVIOUS
<1>2. \A x \in Thread : Distinct(queue'[x])
  BY <1>1 DEF QueueInv, Distinct
<1>3. \A x \in Thread : \A h \in Coroutine : In(h, queue'[x]) => Due(h, x)'
  BY <1>1 DEF QueueInv, In
<1>4. QED
  BY <1>2, <1>3 DEF QueueInv

LEMMA QueuePosted ==
  ASSUME TypeInv, QueueInv, NEW y \in Thread, NEW g \in Coroutine, queue' = Posted(y, g),
         ~In(g, queue[y]), Due(g, y)',
         \A h \in Coroutine, x \in Thread : Due(h, x) => Due(h, x)'
  PROVE  QueueInv'
<1>1. /\ \A x \in Thread : x # y => queue'[x] = queue[x]
      /\ \A h : In(h, queue'[y]) <=> h = g \/ In(h, queue[y])
      /\ Distinct(queue'[y]) <=> Distinct(queue[y]) /\ ~In(g, queue[y])
  BY PostedTo DEF TypeInv, Typed
<1>2. ASSUME NEW x \in Thread
      PROVE  Distinct(queue'[x]) /\ \A h \in Coroutine : In(h, queue'[x]) => Due(h, x)'
  <2>1. CASE x = y
    BY <1>1, <2>1 DEF QueueInv
  <2>2. CASE x # y
    <3>1. queue'[x] = queue[x] /\ Distinct(queue[x]) /\ \A h \in Coroutine : In(h, queue[x]) => Due(h, x)
      BY <1>1, <2>2 DEF QueueInv
    <3>2. Distinct(queue'[x])
      BY <3>1 DEF Distinct
    <3>3. \A h \in Coroutine : In(h, queue'[x]) => Due(h, x)'
      BY <3>1 DEF In
    <3>4. QED
      BY <3>2, <3>3
  <2>3. QED
    BY <2>1, <2>2
<1>3. QED
  BY <1>2 DEF QueueInv

LEMMA QueueRun ==
  ASSUME TypeInv, QueueInv, NEW y \in Thread, NEW g, RunNext(y, g),
         \A h \in Coroutine, x \in Thread : h # g => (Due(h, x) => Due(h, x)')
  PROVE  QueueInv' /\ g \in Coroutine /\ Due(g, y)
<1>1. /\ g \in Coroutine /\ In(g, queue[y])
      /\ \A x \in Thread : x # y => queue'[x] = queue[x]
      /\ \A h : In(h, queue[y]) <=> h = g \/ In(h, queue'[y])
      /\ Distinct(queue[y]) => Distinct(queue'[y]) /\ ~In(g, queue'[y])
  BY NextRuns DEF TypeInv, Typed
<1>2. Due(g, y)
  BY <1>1 DEF QueueInv
<1>3. ASSUME NEW x \in Thread
      PROVE  Distinct(queue'[x]) /\ \A h \in Coroutine : In(h, queue'[x]) => Due(h, x)'
  <2>1. CASE x = y
    <3>1. Distinct(queue[y]) /\ \A h \in Coroutine : In(h, queue[y]) => Due(h, y)
      BY DEF QueueInv
    <3>2. QED
      BY <1>1, <2>1, <3>1
  <2>2. CASE x # y
    <3>1. queue'[x] = queue[x] /\ Distinct(queue[x]) /\ \A h \in Coroutine : In(h, queue[x]) => Due(h, x)
      BY <1>1, <2>2 DEF QueueInv
    <3>2. ~In(g, queue[x])
      BY <1>1, <1>2, <2>2, <3>1, DuePlace
    <3>3. Distinct(queue'[x])
      BY <3>1 DEF Distinct
    <3>4. ASSUME NEW h \in Coroutine, In(h, queue'[x])
          PROVE  Due(h, x)'
      <4>1. In(h, queue[x])
        BY <3>1, <3>4 DEF In
      <4>2. h # g
        BY <3>2, <4>1
      <4>3. QED
        BY <3>1, <4>1, <4>2
    <3>5. QED
      BY <3>3, <3>4
  <2>3. QED
    BY <2>1, <2>2
<1>4. QED
  BY <1>1, <1>2, <1>3 DEF QueueInv

LEMMA BodyQueue ==
  ASSUME TypeInv, QueueInv, ListInv, BodyStep
  PROVE  QueueInv'
<1>1. pc' = pc /\ bodyOn' = bodyOn /\ bodyOn \in Thread
  BY DEF BodyStep, BodyParks, BodyWakes, BodyResumes, BodyReturns, Publish, PostWaiter, NextWaiter,
         BodyEnds, listVars, bodyVars, TypeInv
<1>2. Shared \in Coroutine /\ Shared \notin Waiter /\ Shared \notin Parent
  BY Given
<1>3. ASSUME body' = body \/ body # "posted"
      PROVE  \A h \in Coroutine, x \in Thread : Due(h, x) => Due(h, x)'
  BY <1>1, <1>3 DEF Due
<1>4. CASE BodyParks \/ (\E v \in {"value", "exception"} : BodyReturns(v)) \/ Publish \/ NextWaiter \/ BodyEnds
  <2>1. queue' = queue /\ (body' = body \/ body # "posted")
    BY <1>4 DEF BodyParks, BodyReturns, Publish, NextWaiter, BodyEnds, bodyVars
  <2>2. QED
    BY <1>3, <2>1, QueueCalm
<1>5. CASE BodyWakes
  <2>1. queue' = Posted(bodyOn, Shared) /\ body = "parked" /\ body' = "posted"
    BY <1>5 DEF BodyWakes
  <2>2. ~In(Shared, queue[bodyOn])
    BY <1>1, <1>2, <2>1 DEF QueueInv, Due
  <2>3. Due(Shared, bodyOn)'
    BY <2>1 DEF Due
  <2>4. Due(Shared, bodyOn') = Due(Shared, bodyOn)
    BY <1>1
  <2>5. body # "posted"
    BY <2>1
  <2>6. PICK y \in Thread : y = bodyOn
    BY <1>1
  <2>7. Due(Shared, y)'
    BY <1>1, <2>1, <2>6 DEF Due
  <2>8. queue' = Posted(y, Shared) /\ ~In(Shared, queue[y])
    BY <2>1, <2>2, <2>6
  <2>9. QED
    BY <1>2, <1>3, <2>5, <2>7, <2>8, QueuePosted
<1>6. CASE BodyResumes
  <2>1. PICK y \in Thread : y = bodyOn
    BY <1>1
  <2>2. RunNext(y, Shared)
    BY <1>6, <2>1 DEF BodyResumes
  <2>3. \A h \in Coroutine, x \in Thread : h # Shared => (Due(h, x) => Due(h, x)')
    BY <1>1 DEF Due
  <2>4. QED
    BY <1>2, <2>2, <2>3, QueueRun
<1>7. CASE PostWaiter
  <2>1. PICK g \in Waiter : g = Head(hand)
    BY <1>7, Split DEF PostWaiter, TypeInv
  <2>2. PICK y \in Thread : y = home[g]
    BY Given
  <2>3. In(g, Unposted)
    BY <1>7, <2>1, Split DEF PostWaiter, TypeInv, Unposted
  <2>4. pc[g] = "waiting" /\ ~In(g, queue[y])
    BY <2>2, <2>3 DEF ListInv
  <2>5. queue' = Posted(y, g)
    BY <1>7, <2>1, <2>2 DEF PostWaiter
  <2>6. Due(g, y)'
    BY <1>1, <2>2, <2>4 DEF Due
  <2>7. body' = body
    BY <1>7 DEF PostWaiter, bodyVars
  <2>8. g \in Coroutine
    BY Given
  <2>9. QED
    BY <1>3, <2>4, <2>5, <2>6, <2>7, <2>8, QueuePosted
<1>8. QED
  BY <1>4, <1>5, <1>6, <1>7 DEF BodyStep

\* One coroutine moves; the others have the reasons they had.
LEMMA OthersDue ==
  ASSUME NEW g, NEW b, Goes(g, b), body' = body, bodyOn' = bodyOn
  PROVE  /\ \A h \in Coroutine, x \in Thread : h # g => (Due(h, x) => Due(h, x)')
         /\ pc[g] \notin {"queued", "posted", "waiting", "start"} =>
               \A h \in Coroutine, x \in Thread : Due(h, x) => Due(h, x)'
<1>1. \A h \in Coroutine, x \in Thread : h # g => (Due(h, x) => Due(h, x)')
  BY DEF Goes, Due
<1>2. ASSUME pc[g] \notin {"queued", "posted", "waiting", "start"}
      PROVE  \A h \in Coroutine, x \in Thread : Due(h, x) => Due(h, x)'
  BY <1>1, <1>2 DEF Due
<1>3. QED
  BY <1>1, <1>2

LEMMA WaiterQueue ==
  ASSUME TypeInv, QueueInv, PhaseInv, NEW w \in Waiter, WaiterStep(w)
  PROVE  QueueInv'
<1>1. PICK b \in {"resume", "suspend", "started it", "waiting"} : Goes(w, b)
  BY WaiterMoves
<1>2. home[w] \in Thread /\ w # Shared
  BY Given
<1>3. CASE AwaitReady(w) \/ TryAwait(w)
  <2>1. queue' = queue /\ body' = body /\ bodyOn' = bodyOn /\ pc[w] \in {"query", "suspend", "started it"}
    BY <1>3 DEF AwaitReady, TryAwait, At, sharedVars, bodyVars
  <2>2. QED
    BY <1>1, <2>1, OthersDue, QueueCalm
<1>4. CASE StartBody(w)
  <2>1. queue' = queue /\ pc[w] = "suspend" /\ phase = "not started" /\ body # "posted"
    BY <1>4 DEF StartBody, At, PhaseInv
  <2>2. \A h \in Coroutine, x \in Thread : Due(h, x) => Due(h, x)'
    BY <1>1, <2>1 DEF Due, Goes
  <2>3. QED
    BY <2>1, <2>2, QueueCalm
<1>5. CASE ResumeWaiter(w)
  <2>1. RunNext(home[w], w) /\ body' = body /\ bodyOn' = bodyOn
    BY <1>5 DEF ResumeWaiter, sharedVars
  <2>2. QED
    BY <1>1, <1>2, <2>1, OthersDue, QueueRun
<1>6. QED
  BY <1>3, <1>4, <1>5 DEF WaiterStep

LEMMA BeginQueue ==
  ASSUME TypeInv, QueueInv, NEW h \in Parent \cup Waiter, Begin(h)
  PROVE  QueueInv'
<1>1. RunNext(home[h], h) /\ body' = body /\ bodyOn' = bodyOn /\ home[h] \in Thread
  BY Given DEF Begin, sharedVars
<1>2. \E b : Goes(h, b)
  BY BeginMoves
<1>3. QED
  BY <1>1, <1>2, OthersDue, QueueRun

LEMMA ChildQueue ==
  ASSUME TypeInv, QueueInv, ChildInv, NEW c \in Waiter, ChildStep(c)
  PROVE  QueueInv'
<1>1. /\ body' = body /\ bodyOn' = bodyOn /\ home[c] \in Thread /\ c \in Coroutine
      /\ parentOf[c] \in Parent /\ c # Shared /\ c \notin Parent
  BY Given DEF ChildStep, OwnParks, OwnWakes, OwnResumes, OwnReturns, SharedReturns, Receives,
         CountDown, OnComplete, ChildEnds, sharedVars, bodyVars
<1>2. CASE OwnParks(c) \/ OwnReturns(c) \/ SharedReturns(c) \/ ChildEnds(c)
  <2>1. queue' = queue /\ pc[c] \notin {"queued", "posted", "waiting", "start"}
    BY <1>2 DEF OwnParks, OwnReturns, SharedReturns, Receives, ChildEnds, At
  <2>2. \E b : Goes(c, b)
    BY <1>2, ChildMoves
  <2>3. QED
    BY <1>1, <2>1, <2>2, OthersDue, QueueCalm
<1>3. CASE OwnWakes(c)
  <2>1. pc[c] = "parked" /\ queue' = Posted(home[c], c) /\ Goes(c, "posted")
    BY <1>3, ChildMoves DEF OwnWakes
  <2>2. ~In(c, queue[home[c]])
    BY <1>1, <2>1 DEF QueueInv, Due
  <2>3. Due(c, home[c])'
    BY <2>1 DEF Goes, Due
  <2>4. QED
    BY <1>1, <2>1, <2>2, <2>3, OthersDue, QueuePosted
<1>4. CASE OwnResumes(c)
  <2>1. RunNext(home[c], c) /\ Goes(c, "back")
    BY <1>4, ChildMoves DEF OwnResumes
  <2>2. QED
    BY <1>1, <2>1, OthersDue, QueueRun
<1>5. CASE CountDown(c) \/ OnComplete(c)
  <2>1. queue' = queue /\ pc[c] = "complete"
    BY <1>5 DEF CountDown, OnComplete, At
  <2>2. pc[parentOf[c]] # "start"
    BY <2>1 DEF ChildInv
  <2>3. CASE Goes(c, "unwind")
    BY <1>1, <2>1, <2>3, OthersDue, QueueCalm
  <2>4. CASE Wakes(c, parentOf[c])
    <3>1. \A h \in Coroutine, x \in Thread : Due(h, x) => Due(h, x)'
      <4>1. \A h \in Waiter \cup Parent : h \notin {c, parentOf[c]} => pc'[h] = pc[h]
        BY <2>4 DEF Wakes
      <4>2. ASSUME NEW h \in Coroutine, NEW x \in Thread, Due(h, x)
            PROVE  h \notin {c, parentOf[c]}
        <5>1. parentOf[c] \notin Waiter /\ parentOf[c] # Shared
          BY <1>1, Given
        <5>2. QED
          BY <1>1, <2>1, <2>2, <4>2, <5>1 DEF Due
      <4>3. QED
        BY <1>1, <4>1, <4>2 DEF Due
    <3>2. QED
      BY <2>1, <3>1, QueueCalm
  <2>5. QED
    BY <1>5, <2>3, <2>4, ChildMoves
<1>6. QED
  BY <1>2, <1>3, <1>4, <1>5 DEF ChildStep

LEMMA ParentQueue ==
  ASSUME TypeInv, QueueInv, ChildInv, NEW p \in Parent, ParentStep(p)
  PROVE  QueueInv'
<1>1. body' = body /\ bodyOn' = bodyOn /\ home[p] \in Thread /\ p \notin Waiter /\ p # Shared
  BY Given DEF ParentStep, SpawnAll, AwaitState, TakeResults, ParentEnds, sharedVars
<1>2. CASE AwaitState(p) \/ TakeResults(p) \/ ParentEnds(p)
  <2>1. queue' = queue /\ pc[p] \notin {"queued", "posted", "waiting", "start"}
    BY <1>2 DEF AwaitState, TakeResults, ParentEnds, At
  <2>2. \E b : Goes(p, b)
    BY <1>2, ParentMoves
  <2>3. QED
    BY <1>1, <2>1, <2>2, OthersDue, QueueCalm
<1>3. CASE SpawnAll(p)
  <2> DEFINE y == home[p]
             s == InOrder(p)
             q == queue[y]
  <2>1. /\ s \in Seq(Coroutine) /\ Distinct(s) /\ \A h : In(h, s) <=> h \in Children(p)
    BY InOrderSeq
  <2>2. q \in Seq(Coroutine) /\ queue' = [queue EXCEPT ![y] = q \o s]
    BY <1>1, <1>3 DEF SpawnAll, TypeInv
  <2>3. /\ \A c \in Children(p) : c \in Waiter /\ parentOf[c] = p /\ home[c] = y
    BY Given DEF Children
  <2>4. /\ pc[p] = "spawn" /\ pc'[p] = "spawned" /\ \A c \in Children(p) : pc'[c] = "queued"
        /\ \A h \in Waiter \cup Parent : h \notin Children(p) \cup {p} => pc'[h] = pc[h]
    BY <1>3, SpawnMoves
  <2>5. \A c \in Children(p) : pc[c] = "new" /\ c # Shared /\ c \notin Parent
    BY <2>3, <2>4, Given DEF ChildInv
  <2>6. \A h \in Coroutine, x \in Thread : Due(h, x) => Due(h, x)'
    <3>1. ASSUME NEW h \in Coroutine, NEW x \in Thread, Due(h, x)
          PROVE  h \notin Children(p) \cup {p}
      BY <1>1, <2>4, <2>5, <3>1 DEF Due
    <3>2. QED
      BY <1>1, <2>4, <3>1 DEF Due
  <2>7. \A c \in Children(p) : ~In(c, q)
    BY <1>1, <2>3, <2>5, Given DEF QueueInv, Due
  <2>8. \A c \in Children(p) : Due(c, y)'
    BY <2>3, <2>4 DEF Due
  <2>9. Apart(q, s)
    BY <2>1, <2>7 DEF Apart
  <2>10. /\ Distinct(q) /\ \A h \in Coroutine : In(h, q) => Due(h, y)
    BY <1>1 DEF QueueInv
  <2>11. /\ Distinct(q \o s) /\ \A h : In(h, q \o s) <=> In(h, q) \/ In(h, s)
    BY <2>1, <2>2, <2>9, <2>10, Joined
  <2>12. queue'[y] = q \o s /\ \A x \in Thread : x # y => queue'[x] = queue[x]
    BY <1>1, <2>2 DEF TypeInv
  <2> HIDE DEF s, q, y
  <2>13. ASSUME NEW x \in Thread
         PROVE  Distinct(queue'[x]) /\ \A h \in Coroutine : In(h, queue'[x]) => Due(h, x)'
    <3>1. CASE x = y
      BY <1>1, <2>1, <2>6, <2>8, <2>10, <2>11, <2>12, <3>1 DEF y
    <3>2. CASE x # y
      <4>1. queue'[x] = queue[x] /\ Distinct(queue[x]) /\ \A h \in Coroutine : In(h, queue[x]) => Due(h, x)
        BY <2>12, <3>2 DEF QueueInv
      <4>2. Distinct(queue'[x])
        BY <4>1 DEF Distinct
      <4>3. \A h \in Coroutine : In(h, queue'[x]) => Due(h, x)'
        BY <2>6, <4>1 DEF In
      <4>4. QED
        BY <4>2, <4>3
    <3>3. QED
      BY <3>1, <3>2
  <2>14. QED
    BY <2>13 DEF QueueInv
<1>4. QED
  BY <1>2, <1>3 DEF ParentStep

-----------------------------------------------------------------------------
(* Who waits.                                                               *)

\* What ListInv says of one waiter.
Listed(w) == /\ In(w, waiters) => pc[w] = "waiting" /\ ~In(w, Unposted) /\ ~In(w, queue[home[w]])
             /\ In(w, Unposted) => pc[w] = "waiting" /\ ~In(w, queue[home[w]])
             /\ pc[w] = "waiting" => In(w, waiters) \/ In(w, Unposted) \/ In(w, queue[home[w]])
             /\ pc[w] = "waiting" /\ In(w, queue[home[w]]) => phase = "ready"
             /\ pc[w] = "resume" => phase = "ready"
             /\ pc[w] \in Asking => w \in sharing

LEMMA ListParts == ListInv <=> Distinct(waiters) /\ Distinct(Unposted) /\ \A w \in Waiter : Listed(w)
  BY DEF ListInv, Listed

LEMMA ListNext ==
  ASSUME Distinct(waiters'), Distinct(Unposted'), \A w \in Waiter : Listed(w)'
  PROVE  ListInv'
  BY DEF ListInv, Listed

LEMMA UnpostedSame ==
  ASSUME hand' = hand, cursor' = cursor
  PROVE  Unposted' = Unposted
  BY DEF Unposted

\* A waiter the step does not touch; a waiter that is on no list, and goes
\* where it need not be.
LEMMA ListedStays ==
  ASSUME NEW w \in Waiter, Listed(w), In(w, waiters)' <=> In(w, waiters),
         In(w, Unposted)' <=> In(w, Unposted), sharing' = sharing,
         phase = "ready" => phase' = "ready", pc'[w] = pc[w],
         In(w, queue[home[w]]) <=> In(w, queue[home[w]])'
  PROVE  Listed(w)'
  BY DEF Listed

LEMMA ListedGoes ==
  ASSUME NEW w \in Waiter, ~In(w, waiters)', ~In(w, Unposted)', pc'[w] # "waiting",
         pc'[w] = "resume" => phase' = "ready", pc'[w] \in Asking => w \in sharing'
  PROVE  Listed(w)'
  BY DEF Listed

\* Nobody is listed, taken off a list or posted; those that move are not
\* waiting.
LEMMA ListCalm ==
  ASSUME ListInv, waiters' = waiters, Unposted' = Unposted, sharing' = sharing,
         phase = "ready" => phase' = "ready",
         \A w \in Waiter :
           \/ pc'[w] = pc[w] /\ (pc[w] = "waiting" => (In(w, queue[home[w]]) <=> In(w, queue[home[w]])'))
           \/ /\ pc[w] # "waiting" /\ pc'[w] # "waiting"
              /\ pc'[w] = "resume" => phase' = "ready"
              /\ pc'[w] \in Asking => w \in sharing
  PROVE  ListInv'
<1>0. \A w : (In(w, waiters)' <=> In(w, waiters)) /\ (In(w, Unposted)' <=> In(w, Unposted))
  BY DEF In
<1>1. Distinct(waiters') /\ Distinct(Unposted')
  BY DEF ListInv, Distinct
<1>2. ASSUME NEW w \in Waiter
      PROVE  Listed(w)'
  <2>1. Listed(w)
    BY ListParts
  <2>2. CASE pc[w] = "waiting"
    <3>1. pc'[w] = pc[w] /\ (In(w, queue[home[w]]) <=> In(w, queue[home[w]])')
      BY <2>2
    <3>2. QED
      BY <2>1, <3>1, <1>0, ListedStays
  <2>3. CASE pc[w] # "waiting"
    <3>1. ~In(w, waiters) /\ ~In(w, Unposted)
      BY <2>1, <2>3 DEF Listed
    <3>2. ~In(w, waiters') /\ ~In(w, Unposted)'
      BY <3>1 DEF In
    <3>3. /\ pc'[w] # "waiting" /\ (pc'[w] = "resume" => phase' = "ready")
          /\ pc'[w] \in Asking => w \in sharing'
      BY <2>1, <2>3 DEF Listed
    <3>4. QED
      BY <3>2, <3>3, ListedGoes
  <2>4. QED
    BY <2>2, <2>3
<1>3. QED
  BY <1>1, <1>2, ListNext

\* Who is not posted or resumed is queued as before.
LEMMA OthersQueued ==
  ASSUME TypeInv, NEW y \in Thread, NEW g,
         (g \in Coroutine /\ queue' = Posted(y, g)) \/ RunNext(y, g)
  PROVE  \A h : \A x \in Thread : h # g => (In(h, queue[x]) <=> In(h, queue[x])')
<1>1. \A x \in Thread : x # y => queue'[x] = queue[x]
  BY PostedTo, NextRuns DEF TypeInv, Typed
<1>2. \A h : h # g => (In(h, queue[y]) <=> In(h, queue'[y]))
  BY PostedTo, NextRuns DEF TypeInv, Typed
<1>3. ASSUME NEW h, NEW x \in Thread, h # g
      PROVE  In(h, queue[x]) <=> In(h, queue'[x])
  <2>1. CASE x = y
    BY <1>2, <1>3, <2>1
  <2>2. CASE x # y
    BY <1>1, <2>2 DEF In
  <2>3. QED
    BY <2>1, <2>2
<1>4. QED
  BY <1>3

LEMMA SameQueued ==
  ASSUME queue' = queue
  PROVE  \A h : \A x \in Thread : In(h, queue[x]) <=> In(h, queue[x])'
  BY DEF In

LEMMA WaiterListed ==
  ASSUME TypeInv, PhaseInv, QueueInv, ListInv, NEW w \in Waiter, WaiterStep(w), UNCHANGED gatherVars
  PROVE  ListInv'
<1>1. /\ home[w] \in Thread /\ w \in Coroutine /\ w # Shared /\ w \notin Parent
      /\ \A v \in Waiter : home[v] \in Thread
  BY Given
<1>2. sharing' = sharing /\ hand' = hand /\ cursor' = cursor
  BY DEF WaiterStep, AwaitReady, StartBody, TryAwait, ResumeWaiter, sharedVars, gatherVars
<1>3. Unposted' = Unposted
  BY <1>2, UnpostedSame
<1>4. Listed(w)
  BY ListParts
<1>5. CASE AwaitReady(w) \/ StartBody(w) \/ (TryAwait(w) /\ Ready)
  <2>1. /\ queue' = queue /\ waiters' = waiters /\ pc[w] \in {"query", "suspend", "started it"}
        /\ phase = "ready" => phase' = "ready"
    BY <1>5 DEF AwaitReady, StartBody, TryAwait, At, sharedVars
  <2>2. \E b \in {"suspend", "started it", "resume"} : Goes(w, b) /\ (b = "resume" => phase' = "ready")
    <3>1. \E b \in {"suspend", "started it", "resume"} : Goto(w, b) /\ (b = "resume" => phase' = "ready")
      BY <1>5 DEF AwaitReady, StartBody, TryAwait, Ready, sharedVars
    <3>2. QED
      BY <3>1, GotoWaiter DEF WaiterPlace
  <2>3. /\ pc'[w] # "waiting" /\ pc[w] # "waiting" /\ (pc'[w] = "resume" => phase' = "ready") /\ w \in sharing
        /\ \A v \in Waiter : v # w => pc'[v] = pc[v]
    BY <1>4, <2>1, <2>2 DEF Goes, Listed, Asking
  <2>4. QED
    BY <1>1, <1>2, <1>3, <2>1, <2>3, SameQueued, ListCalm
<1>6. CASE TryAwait(w) /\ ~Ready
  <2>1. /\ waiters' = <<w>> \o waiters /\ queue' = queue /\ phase' = phase /\ phase # "ready"
        /\ pc[w] \in {"suspend", "started it"} /\ Goto(w, "waiting")
    BY <1>6 DEF TryAwait, At, Ready
  <2>2. Goes(w, "waiting")
    BY <2>1, GotoWaiter DEF WaiterPlace
  <2>3. ~In(w, waiters) /\ ~In(w, Unposted) /\ w \in sharing
    BY <1>4, <2>1 DEF Listed, Asking
  <2>4. ~In(w, queue[home[w]])
    BY <1>1, <2>1 DEF QueueInv, Due
  <2>5. /\ \A v : In(v, waiters') <=> v = w \/ In(v, waiters)
        /\ Distinct(waiters')
    BY <2>1, <2>3, Added DEF TypeInv, ListInv
  <2>6. Distinct(Unposted') /\ ~In(w, Unposted')
    BY <1>3, <2>3 DEF ListInv, Distinct, In
  <2>7. ~In(w, queue'[home[w]])
    BY <2>1, <2>4 DEF In
  <2>8. Listed(w)'
    BY <1>2, <2>1, <2>2, <2>3, <2>5, <2>6, <2>7 DEF Listed, Goes
  <2>9. ASSUME NEW v \in Waiter, v # w
        PROVE  Listed(v)'
    <3>1. pc'[v] = pc[v] /\ Listed(v)
      BY <2>2, <2>9, ListParts DEF Goes
    <3>2. (In(v, waiters)' <=> In(v, waiters)) /\ (In(v, Unposted)' <=> In(v, Unposted))
      BY <1>3, <2>5, <2>9 DEF In
    <3>3. QED
      BY <1>1, <1>2, <2>1, <3>1, <3>2, SameQueued, ListedStays
  <2>10. QED
    BY <2>5, <2>6, <2>8, <2>9, ListNext
<1>7. CASE ResumeWaiter(w)
  <2>1. /\ waiters' = waiters /\ phase' = phase /\ pc[w] = "waiting" /\ RunNext(home[w], w) /\ Goto(w, "resume")
    BY <1>7 DEF ResumeWaiter, sharedVars
  <2>2. In(w, queue[home[w]])
    BY <1>1, <2>1, NextRuns DEF TypeInv, Typed
  <2>3. ~In(w, waiters) /\ ~In(w, Unposted) /\ phase = "ready" /\ w \in sharing
    BY <1>4, <2>1, <2>2 DEF Listed, Asking
  <2>4. Goes(w, "resume")
    BY <2>1, GotoWaiter DEF WaiterPlace
  <2>5. \A v : (In(v, waiters)' <=> In(v, waiters)) /\ (In(v, Unposted)' <=> In(v, Unposted))
    BY <1>3, <2>1 DEF In
  <2>6. Listed(w)'
    BY <1>2, <2>1, <2>3, <2>4, <2>5 DEF Listed, Goes
  <2>7. ASSUME NEW v \in Waiter, v # w
        PROVE  Listed(v)'
    <3>1. pc'[v] = pc[v] /\ Listed(v)
      BY <2>4, <2>7, ListParts DEF Goes
    <3>2. In(v, queue[home[v]]) <=> In(v, queue[home[v]])'
      BY <1>1, <2>1, <2>7, OthersQueued
    <3>3. QED
      BY <1>2, <2>1, <2>5, <3>1, <3>2, ListedStays
  <2>8. Distinct(waiters') /\ Distinct(Unposted')
    BY <1>3, <2>1 DEF ListInv, Distinct
  <2>9. QED
    BY <2>6, <2>7, <2>8, ListNext
<1>8. QED
  BY <1>5, <1>6, <1>7 DEF WaiterStep

LEMMA BodyListed ==
  ASSUME TypeInv, PhaseInv, QueueInv, ListInv, BodyStep, UNCHANGED gatherVars
  PROVE  ListInv'
<1>1. pc' = pc /\ sharing' = sharing
  BY DEF BodyStep, BodyParks, BodyWakes, BodyResumes, BodyReturns, Publish, PostWaiter, NextWaiter,
         BodyEnds, listVars, bodyVars, gatherVars
<1>2. /\ bodyOn \in Thread /\ Shared \in Coroutine /\ \A v \in Waiter : home[v] \in Thread /\ v # Shared
  BY Given DEF TypeInv
<1>3. CASE BodyParks \/ BodyWakes \/ BodyResumes \/ (\E v \in {"value", "exception"} : BodyReturns(v)) \/ BodyEnds
  <2>1. UNCHANGED listVars
    BY <1>3 DEF BodyParks, BodyWakes, BodyResumes, BodyReturns, BodyEnds
  <2>2. Unposted' = Unposted
    BY <2>1, UnpostedSame DEF listVars
  <2>3. \A v \in Waiter : In(v, queue[home[v]]) <=> In(v, queue[home[v]])'
    <3>1. queue' = queue \/ queue' = Posted(bodyOn, Shared) \/ RunNext(bodyOn, Shared)
      BY <1>3 DEF BodyParks, BodyWakes, BodyResumes, BodyReturns, BodyEnds
    <3>2. QED
      BY <1>2, <3>1, SameQueued, OthersQueued
  <2>4. QED
    BY <1>1, <2>1, <2>2, <2>3, ListCalm DEF listVars
<1>4. CASE NextWaiter
  <2>1. waiters' = waiters /\ phase' = phase /\ queue' = queue /\ cursor # <<>> /\ cursor' = <<>> /\ hand' = Tail(hand)
    BY <1>4 DEF NextWaiter
  <2>2. Unposted' = Unposted
    BY <2>1 DEF Unposted
  <2>3. QED
    BY <1>1, <1>2, <2>1, <2>2, SameQueued, ListCalm
<1>5. CASE Publish
  <2>1. /\ phase = "started" /\ phase' = "ready" /\ hand' = waiters /\ waiters' = <<>> /\ queue' = queue
        /\ cursor' = cursor
    BY <1>5 DEF Publish
  <2>2. hand = <<>> /\ cursor = <<>>
    BY <2>1 DEF PhaseInv
  <2>3. Unposted = <<>> /\ Unposted' = waiters
    BY <2>1, <2>2 DEF Unposted
  <2>4. \A v : ~In(v, Unposted) /\ ~In(v, waiters')
    BY <2>1, <2>3, EmptyList DEF In
  <2>5. \A v : In(v, Unposted)' <=> In(v, waiters)
    BY <2>3 DEF In
  <2>6. ASSUME NEW v \in Waiter
        PROVE  Listed(v)'
    <3>1. Listed(v)
      BY ListParts
    <3>2. In(v, queue[home[v]]) <=> In(v, queue[home[v]])'
      BY <1>2, <2>1, SameQueued
    <3>3. QED
      BY <1>1, <2>1, <2>4, <2>5, <3>1, <3>2 DEF Listed
  <2>7. Distinct(waiters') /\ Distinct(Unposted')
    BY <2>1, <2>3, EmptyList DEF ListInv, Distinct
  <2>8. QED
    BY <2>6, <2>7, ListNext
<1>6. CASE PostWaiter
  <2>1. /\ hand # <<>> /\ cursor = <<>> /\ hand' = hand /\ cursor' # <<>> /\ waiters' = waiters /\ phase' = phase
        /\ queue' = Posted(home[Head(hand)], Head(hand))
    BY <1>6 DEF PostWaiter
  <2>2. PICK g \in Waiter : g = Head(hand)
    BY <2>1, Split DEF TypeInv
  <2>3. /\ Unposted = hand /\ Unposted' = Tail(hand)
    BY <2>1 DEF Unposted
  <2>4. /\ \A v : In(v, hand) <=> v = g \/ In(v, Tail(hand))
        /\ Distinct(hand) => Distinct(Tail(hand)) /\ ~In(g, Tail(hand))
    BY <2>1, <2>2, Split DEF TypeInv
  <2>5. /\ \A v : In(v, Unposted) <=> v = g \/ In(v, Unposted)'
        /\ Distinct(Unposted') /\ ~In(g, Unposted')
    <3>1. Distinct(hand) /\ \A v : In(v, Unposted) <=> In(v, hand)
      BY <2>3 DEF ListInv, Distinct, In
    <3>2. (Distinct(Unposted') <=> Distinct(Tail(hand))) /\ \A v : In(v, Unposted)' <=> In(v, Tail(hand))
      BY <2>3 DEF Distinct, In
    <3>3. QED
      BY <2>4, <3>1, <3>2
  <2>6. queue' = Posted(home[g], g) /\ home[g] \in Thread /\ g \in Coroutine /\ phase = "ready"
    BY <2>1, <2>2, Given DEF PhaseInv
  <2>7. In(g, queue[home[g]])'
    BY <2>6, PostedTo DEF TypeInv, Typed
  <2>8. \A v : (In(v, waiters)' <=> In(v, waiters))
    BY <2>1 DEF In
  <2>9. ASSUME NEW v \in Waiter
        PROVE  Listed(v)'
    <3>1. Listed(v)
      BY ListParts
    <3>2. CASE v = g
      BY <1>1, <2>1, <2>5, <2>6, <2>7, <2>8, <3>1, <3>2 DEF Listed
    <3>3. CASE v # g
      <4>1. In(v, queue[home[v]]) <=> In(v, queue[home[v]])'
        BY <1>2, <2>6, <3>3, OthersQueued
      <4>2. QED
        BY <1>1, <2>1, <2>5, <2>8, <3>1, <3>3, <4>1, ListedStays
    <3>4. QED
      BY <3>2, <3>3
  <2>10. Distinct(waiters')
    BY <2>1 DEF ListInv, Distinct
  <2>11. QED
    BY <2>5, <2>9, <2>10, ListNext
<1>7. QED
  BY <1>3, <1>4, <1>5, <1>6 DEF BodyStep

LEMMA OtherListed ==
  ASSUME TypeInv, ListInv, UNCHANGED <<listVars, sharing>>,
         \A w \in Waiter :
           \/ pc'[w] = pc[w] /\ (pc[w] = "waiting" => (In(w, queue[home[w]]) <=> In(w, queue[home[w]])'))
           \/ /\ pc[w] # "waiting" /\ pc'[w] \notin {"waiting", "resume"}
              /\ pc'[w] \in Asking => w \in sharing
  PROVE  ListInv'
<1>1. Unposted' = Unposted
  BY UnpostedSame DEF listVars
<1>2. QED
  BY <1>1, ListCalm DEF listVars

LEMMA BeginListed ==
  ASSUME TypeInv, ListInv, NEW h \in Parent \cup Waiter, Begin(h)
  PROVE  ListInv'
<1>1. UNCHANGED <<listVars, sharing>> /\ RunNext(home[h], h) /\ pc[h] \in {"start", "queued"}
  BY DEF Begin, sharedVars, listVars, gatherVars
<1>2. home[h] \in Thread /\ \A w \in Waiter : home[w] \in Thread /\ w \notin Parent
  BY Given
<1>3. ASSUME NEW w \in Waiter, w # h
      PROVE  pc'[w] = pc[w] /\ (In(w, queue[home[w]]) <=> In(w, queue[home[w]])')
  <2>1. \E b : Goes(h, b)
    BY BeginMoves
  <2>2. QED
    BY <1>1, <1>2, <1>3, <2>1, OthersQueued DEF Goes
<1>4. ASSUME h \in Waiter
      PROVE  /\ pc[h] # "waiting" /\ pc'[h] \notin {"waiting", "resume"}
             /\ pc'[h] \in Asking => h \in sharing
  BY <1>1, <1>4, BeginMoves DEF Goes, Asking
<1>5. QED
  BY <1>1, <1>3, <1>4, OtherListed

LEMMA ChildListed ==
  ASSUME TypeInv, ListInv, NEW c \in Waiter, ChildStep(c)
  PROVE  ListInv'
<1>1. UNCHANGED <<listVars, sharing>>
  BY DEF ChildStep, OwnParks, OwnWakes, OwnResumes, OwnReturns, SharedReturns, Receives,
         CountDown, OnComplete, ChildEnds, sharedVars, listVars, gatherVars
<1>2. /\ home[c] \in Thread /\ c \in Coroutine /\ \A w \in Waiter : home[w] \in Thread /\ w \notin Parent
      /\ parentOf[c] \in Parent
  BY Given
<1>3. pc[c] # "waiting" /\ (queue' = queue \/ queue' = Posted(home[c], c) \/ RunNext(home[c], c))
  BY DEF ChildStep, OwnParks, OwnWakes, OwnResumes, OwnReturns, SharedReturns, Receives,
         CountDown, OnComplete, ChildEnds, At
<1>4. /\ \A w \in Waiter : w # c => pc'[w] = pc[w]
      /\ pc'[c] \notin {"waiting", "resume"} \cup Asking
  BY <1>2, ChildMoves DEF ChildStep, Goes, Wakes, Ending, Asking
<1>5. ASSUME NEW w \in Waiter, w # c
      PROVE  In(w, queue[home[w]]) <=> In(w, queue[home[w]])'
  BY <1>2, <1>3, <1>5, SameQueued, OthersQueued
<1>6. QED
  BY <1>1, <1>3, <1>4, <1>5, OtherListed

LEMMA ParentListed ==
  ASSUME TypeInv, ListInv, ChildInv, NEW p \in Parent, ParentStep(p)
  PROVE  ListInv'
<1>1. UNCHANGED <<listVars, sharing>>
  BY DEF ParentStep, SpawnAll, AwaitState, TakeResults, ParentEnds, sharedVars, listVars, gatherVars
<1>2. \A w \in Waiter : home[w] \in Thread /\ w \notin Parent /\ w # p
  BY Given
<1>3. CASE AwaitState(p) \/ TakeResults(p) \/ ParentEnds(p)
  <2>1. queue' = queue
    BY <1>3 DEF AwaitState, TakeResults, ParentEnds
  <2>2. \A w \in Waiter : pc'[w] = pc[w]
    BY <1>2, <1>3, ParentMoves DEF Goes
  <2>3. QED
    BY <1>1, <1>2, <2>1, <2>2, SameQueued, OtherListed
<1>4. CASE SpawnAll(p)
  <2>1. /\ pc[p] = "spawn" /\ \A c \in Children(p) : pc'[c] = "queued"
        /\ \A h \in Waiter \cup Parent : h \notin Children(p) \cup {p} => pc'[h] = pc[h]
    BY <1>4, SpawnMoves
  <2>2. \A c \in Children(p) : pc[c] = "new"
    BY <2>1 DEF ChildInv, Children
  <2>3. home[p] \in Thread /\ InOrder(p) \in Seq(Coroutine) /\ \A h : In(h, InOrder(p)) <=> h \in Children(p)
    BY Given, InOrderSeq
  <2>4. queue[home[p]] \in Seq(Coroutine) /\ queue' = [queue EXCEPT ![home[p]] = queue[home[p]] \o InOrder(p)]
    BY <1>4, <2>3 DEF SpawnAll, TypeInv
  <2>5. \A h : In(h, queue[home[p]] \o InOrder(p)) <=> In(h, queue[home[p]]) \/ h \in Children(p)
    BY <2>3, <2>4, Joined
  <2>6. /\ queue'[home[p]] = queue[home[p]] \o InOrder(p)
        /\ \A x \in Thread : x # home[p] => queue'[x] = queue[x]
    BY <2>3, <2>4 DEF TypeInv
  <2>7. ASSUME NEW w \in Waiter, w \notin Children(p)
        PROVE  pc'[w] = pc[w] /\ (In(w, queue[home[w]]) <=> In(w, queue'[home[w]]))
    <3>1. pc'[w] = pc[w]
      BY <1>2, <2>1, <2>7
    <3>2. CASE home[w] = home[p]
      BY <2>5, <2>6, <2>7, <3>1, <3>2
    <3>3. CASE home[w] # home[p]
      <4>1. queue'[home[w]] = queue[home[w]]
        BY <1>2, <2>6, <3>3
      <4>2. QED
        BY <3>1, <4>1 DEF In
    <3>4. QED
      BY <3>2, <3>3
  <2>8. ASSUME NEW w \in Waiter, w \in Children(p)
        PROVE  pc[w] # "waiting" /\ pc'[w] \notin {"waiting", "resume"} \cup Asking
    BY <2>1, <2>2, <2>8 DEF Asking
  <2>9. QED
    BY <1>1, <2>7, <2>8, OtherListed
<1>5. QED
  BY <1>3, <1>4 DEF ParentStep

-----------------------------------------------------------------------------
(* The body and its list.                                                   *)

Attended == \E w \in sharing : pc[w] = "started it" \/ In(w, waiters)

LEMMA PhaseParts ==
  ASSUME PhaseInv
  PROVE  /\ phase = "not started" <=> body = "initial"
         /\ phase = "ready" => body \in {"final", "done"}
         /\ body = "done" => phase = "ready" /\ hand = <<>>
         /\ outcome # "none" <=> body \in {"final", "done"}
         /\ phase # "started" => waiters = <<>>
         /\ phase # "ready" => hand = <<>> /\ late = {}
         /\ cursor = <<>> \/ (hand # <<>> /\ cursor = <<Head(hand)>>)
         /\ phase = "started" => Attended
  BY DEF PhaseInv, Attended

\* Whoever attends to the body goes on doing so.
LEMMA AttendedStays ==
  ASSUME Attended, sharing' = sharing,
         \A w \in sharing : pc[w] = "started it" \/ In(w, waiters) => pc'[w] = "started it" \/ In(w, waiters')
  PROVE  Attended'
<1>1. PICK w \in sharing : pc[w] = "started it" \/ In(w, waiters)
  BY DEF Attended
<1>2. w \in sharing' /\ (pc'[w] = "started it" \/ In(w, waiters'))
  BY <1>1
<1>3. QED
  BY <1>2 DEF Attended

LEMMA PhaseCalm ==
  ASSUME TypeInv, PhaseInv, UNCHANGED <<listVars, bodyVars, sharing>>,
         \A w \in Waiter : pc[w] = "started it" => pc'[w] = "started it"
  PROVE  PhaseInv'
<1>1. phase = "started" => Attended'
  <2>1. \A w \in sharing : w \in Waiter
    BY DEF TypeInv
  <2>2. \A w : In(w, waiters') <=> In(w, waiters)
    BY DEF listVars, In
  <2>3. QED
    BY <2>1, <2>2, PhaseParts, AttendedStays
<1>2. QED
  BY <1>1 DEF PhaseInv, Attended, listVars, bodyVars

LEMMA WaiterPhase ==
  ASSUME TypeInv, PhaseInv, ListInv, NEW w \in Waiter, WaiterStep(w), UNCHANGED gatherVars
  PROVE  PhaseInv'
<1>1. sharing' = sharing /\ sharing \subseteq Waiter
  BY DEF gatherVars, TypeInv
<1>2. \A v \in Waiter : v # w => pc'[v] = pc[v]
  BY WaiterMoves DEF Goes
<1>3. CASE AwaitReady(w) \/ ResumeWaiter(w)
  <2>1. UNCHANGED <<listVars, bodyVars>> /\ pc[w] # "started it"
    BY <1>3 DEF AwaitReady, ResumeWaiter, At, sharedVars, listVars, bodyVars
  <2>2. QED
    BY <1>1, <1>2, <2>1, PhaseCalm
<1>4. CASE StartBody(w)
  <2>1. /\ phase = "not started" /\ phase' = "started" /\ body' = "run" /\ pc[w] = "suspend"
        /\ Goto(w, "started it") /\ UNCHANGED <<waiters, hand, cursor, outcome, late>>
    BY <1>4 DEF StartBody, At
  <2>2. w \in sharing
    BY <2>1 DEF ListInv, Asking
  <2>3. pc'[w] = "started it"
    BY <2>1, GotoWaiter DEF Goes, WaiterPlace
  <2>4. Attended'
    BY <1>1, <2>2, <2>3 DEF Attended
  <2>5. /\ body = "initial" /\ outcome = "none" /\ waiters = <<>> /\ hand = <<>> /\ late = {} /\ cursor = <<>>
    BY <2>1, PhaseParts
  <2>6. QED
    BY <2>1, <2>4, <2>5 DEF PhaseInv, Attended
<1>5. CASE TryAwait(w)
  <2>1. UNCHANGED <<phase, hand, cursor, bodyVars>> /\ phase # "not started"
    BY <1>5 DEF TryAwait
  <2>2. \/ phase = "ready" /\ waiters' = waiters
        \/ phase # "ready" /\ waiters' = <<w>> \o waiters
    BY <1>5 DEF TryAwait, Ready
  <2>3. CASE phase = "ready"
    BY <2>1, <2>2, <2>3 DEF PhaseInv, bodyVars
  <2>4. CASE phase # "ready"
    <3>1. /\ phase = "started" /\ Attended
      BY <2>1, <2>4, PhaseParts DEF TypeInv
    <3>2. \A v : In(v, waiters') <=> v = w \/ In(v, waiters)
      <4>1. waiters' = <<w>> \o waiters /\ waiters \in Seq(Waiter)
        BY <2>2, <2>4 DEF TypeInv
      <4>2. \A v : In(v, <<w>> \o waiters) <=> v = w \/ In(v, waiters)
        BY <4>1, Added
      <4>3. QED
        BY <4>1, <4>2 DEF In
    <3>3. \A v \in sharing : pc[v] = "started it" \/ In(v, waiters) => pc'[v] = "started it" \/ In(v, waiters')
      BY <1>1, <1>2, <3>2
    <3>4. Attended'
      BY <1>1, <3>1, <3>3, AttendedStays
    <3>5. QED
      BY <2>1, <3>1, <3>4 DEF PhaseInv, Attended, bodyVars
  <2>5. QED
    BY <2>3, <2>4
<1>6. QED
  BY <1>3, <1>4, <1>5 DEF WaiterStep

LEMMA BodyPhase ==
  ASSUME TypeInv, PhaseInv, BodyStep, UNCHANGED gatherVars
  PROVE  PhaseInv'
<1>1. pc' = pc /\ sharing' = sharing
  BY DEF BodyStep, BodyParks, BodyWakes, BodyResumes, BodyReturns, Publish, PostWaiter, NextWaiter,
         BodyEnds, listVars, bodyVars, gatherVars
<1>2. waiters' = waiters /\ Attended => Attended'
  BY <1>1 DEF Attended, In
<1>3. CASE BodyParks \/ BodyWakes \/ BodyResumes \/ (\E v \in {"value", "exception"} : BodyReturns(v)) \/ BodyEnds
  <2>1. /\ UNCHANGED <<phase, waiters, hand, cursor, late>>
        /\ \/ body \in {"run", "parked", "posted"} /\ body' \in {"parked", "posted", "again"} /\ outcome' = outcome
           \/ body \in {"run", "again"} /\ body' = "final" /\ outcome' # "none"
           \/ body = "final" /\ body' = "done" /\ phase = "ready" /\ hand = <<>> /\ outcome' = outcome
    BY <1>3 DEF BodyParks, BodyWakes, BodyResumes, BodyReturns, BodyEnds, listVars
  <2>2. phase = "started" => Attended'
    BY <1>2, <2>1, PhaseParts
  <2>3. QED
    BY <2>1, <2>2 DEF PhaseInv, Attended
<1>4. CASE Publish
  <2>1. /\ phase = "started" /\ phase' = "ready" /\ body = "final" /\ hand' = waiters /\ waiters' = <<>>
        /\ UNCHANGED <<cursor, bodyVars>>
    BY <1>4 DEF Publish
  <2>2. cursor = <<>>
    BY <2>1, PhaseParts
  <2>3. QED
    BY <2>1, <2>2 DEF PhaseInv, bodyVars
<1>5. CASE PostWaiter
  <2>1. hand # <<>> /\ cursor' = <<Head(hand)>> /\ UNCHANGED <<phase, waiters, hand, bodyVars>>
    BY <1>5 DEF PostWaiter
  <2>2. phase = "ready"
    BY <2>1, PhaseParts
  <2>3. QED
    BY <2>1, <2>2 DEF PhaseInv, bodyVars
<1>6. CASE NextWaiter
  <2>1. cursor # <<>> /\ cursor' = <<>> /\ UNCHANGED <<phase, waiters, body, outcome>>
    BY <1>6 DEF NextWaiter
  <2>2. phase = "ready" /\ body # "done"
    BY <2>1, PhaseParts
  <2>3. QED
    BY <2>1, <2>2 DEF PhaseInv
<1>7. QED
  BY <1>3, <1>4, <1>5, <1>6 DEF BodyStep

\* What is none of the shared task's steps keeps its invariant.
LEMMA OtherPhase ==
  ASSUME TypeInv, PhaseInv, ChildInv,
         \/ \E h \in Parent \cup Waiter : Begin(h)
         \/ \E c \in Waiter : ChildStep(c)
         \/ \E p \in Parent : ParentStep(p)
  PROVE  PhaseInv'
<1>1. CASE \E h \in Parent \cup Waiter : Begin(h)
  <2>1. PICK h \in Parent \cup Waiter : Begin(h)
    BY <1>1
  <2>2. UNCHANGED <<listVars, bodyVars, sharing>> /\ pc[h] # "started it"
    BY <2>1 DEF Begin, sharedVars, listVars, bodyVars, gatherVars
  <2>3. \A w \in Waiter : w # h => pc'[w] = pc[w]
    BY <2>1, BeginMoves DEF Goes
  <2>4. QED
    BY <2>2, <2>3, PhaseCalm
<1>2. CASE \E c \in Waiter : ChildStep(c)
  <2>1. PICK c \in Waiter : ChildStep(c)
    BY <1>2
  <2>2. UNCHANGED <<listVars, bodyVars, sharing>> /\ pc[c] # "started it"
    BY <2>1 DEF ChildStep, OwnParks, OwnWakes, OwnResumes, OwnReturns, SharedReturns, Receives,
                CountDown, OnComplete, ChildEnds, At, sharedVars, listVars, bodyVars, gatherVars
  <2>3. \A w \in Waiter : w # c => pc'[w] = pc[w]
    <3>1. \A w \in Waiter : w # parentOf[c]
      BY Given
    <3>2. QED
      BY <2>1, <3>1, ChildMoves DEF ChildStep, Goes, Wakes
  <2>4. QED
    BY <2>2, <2>3, PhaseCalm
<1>3. CASE \E p \in Parent : ParentStep(p)
  <2>1. PICK p \in Parent : ParentStep(p)
    BY <1>3
  <2>2. UNCHANGED <<listVars, bodyVars, sharing>>
    BY <2>1 DEF ParentStep, SpawnAll, AwaitState, TakeResults, ParentEnds, sharedVars, listVars, bodyVars, gatherVars
  <2>3. \A w \in Waiter : w # p
    BY Given
  <2>4. ASSUME NEW w \in Waiter, pc[w] = "started it"
        PROVE  pc'[w] = "started it"
    <3>1. CASE SpawnAll(p)
      <4>1. pc[p] = "spawn" /\ \A h \in Waiter \cup Parent : h \notin Children(p) \cup {p} => pc'[h] = pc[h]
        BY <3>1, SpawnMoves
      <4>2. w \notin Children(p)
        BY <2>4, <4>1 DEF ChildInv, Children
      <4>3. QED
        BY <2>3, <2>4, <4>1, <4>2
    <3>2. CASE AwaitState(p) \/ TakeResults(p) \/ ParentEnds(p)
      BY <2>3, <2>4, <3>2, ParentMoves DEF Goes
    <3>3. QED
      BY <2>1, <3>1, <3>2 DEF ParentStep
  <2>5. QED
    BY <2>2, <2>4, PhaseCalm
<1>4. QED
  BY <1>1, <1>2, <1>3

-----------------------------------------------------------------------------
(* The frame of the shared task.                                            *)

HeldOne == IF held THEN 1 ELSE 0

\* Nobody is late who shares the body's io_context, and the waiter that
\* final_awaiter looks at is there if it does.
Punctual == /\ \A w \in late : home[w] # bodyOn
            /\ cursor # <<>> /\ home[Head(cursor)] = bodyOn => pc[Head(cursor)] = "waiting"

LEMMA FrameParts == FrameInv <=> refs = Cardinality(Users) + HeldOne /\ Punctual
  BY DEF FrameInv, HeldOne, Punctual

LEMMA UsersCounted ==
  ASSUME TypeInv
  PROVE  IsFiniteSet(Users) /\ Cardinality(Users) \in Nat /\ Users \subseteq Waiter
<1>1. Users \subseteq Waiter
  BY DEF Users, TypeInv
<1>2. QED
  BY <1>1, Given, FS_Subset, FS_CardinalityType

\* Nobody ends, and the one that final_awaiter looks at stays where it is.
LEMMA UsersSame ==
  ASSUME TypeInv, sharing' = sharing, \A w \in Waiter : pc[w] = "over" <=> pc'[w] = "over"
  PROVE  Users' = Users
  BY DEF Users, TypeInv

LEMMA FrameNext ==
  ASSUME FrameInv, UNCHANGED refVars, Users' = Users, Punctual'
  PROVE  FrameInv'
<1>1. Cardinality(Users') = Cardinality(Users) /\ HeldOne' = HeldOne
  BY DEF refVars, HeldOne
<1>2. QED
  BY <1>1 DEF FrameInv, HeldOne, Punctual, refVars

LEMMA CursorHead ==
  ASSUME TypeInv, PhaseInv, cursor # <<>>
  PROVE  /\ Head(cursor) \in Waiter /\ hand # <<>> /\ Head(cursor) = Head(hand)
         /\ phase = "ready" /\ body = "final"
<1>1. /\ Head(cursor) \in Waiter /\ hand # <<>> /\ cursor = <<Head(hand)>>
  BY PhaseParts, Split DEF TypeInv
<1>2. phase = "ready" /\ body = "final"
  BY <1>1, PhaseParts
<1>3. QED
  BY <1>1, <1>2

LEMMA PunctualStays ==
  ASSUME TypeInv, PhaseInv, Punctual, UNCHANGED <<late, bodyOn, cursor>>,
         \A w \in Waiter : pc[w] = "waiting" /\ cursor # <<>> /\ home[w] = bodyOn => pc'[w] = "waiting"
  PROVE  Punctual'
<1>1. cursor # <<>> => Head(cursor) \in Waiter
  BY CursorHead
<1>2. QED
  BY <1>1 DEF Punctual

LEMMA WaiterFrame ==
  ASSUME TypeInv, StackInv, PhaseInv, ListInv, FrameInv, NEW w \in Waiter, WaiterStep(w), UNCHANGED gatherVars
  PROVE  FrameInv'
<1>1. UNCHANGED refVars /\ sharing' = sharing
  BY DEF WaiterStep, AwaitReady, StartBody, TryAwait, ResumeWaiter, sharedVars, refVars, gatherVars
<1>2. Punctual
  BY FrameParts
<1>3. pc[w] \in Asking
  BY DEF WaiterStep, AwaitReady, StartBody, TryAwait, ResumeWaiter, At, Asking
<1>4. pc'[w] \in Asking /\ \A v \in Waiter : v # w => pc'[v] = pc[v]
  BY WaiterMoves DEF Goes, Asking
<1>5. Users' = Users
  BY <1>1, <1>3, <1>4, UsersSame DEF Asking
<1>6. CASE AwaitReady(w) \/ TryAwait(w)
  <2>1. UNCHANGED <<late, bodyOn, cursor>> /\ pc[w] # "waiting"
    BY <1>6 DEF AwaitReady, TryAwait, At, sharedVars, bodyVars
  <2>2. QED
    BY <1>1, <1>2, <1>4, <1>5, <2>1, PunctualStays, FrameNext
<1>7. CASE StartBody(w)
  <2>1. phase = "not started" /\ UNCHANGED <<late, cursor>>
    BY <1>7 DEF StartBody
  <2>2. late = {} /\ cursor = <<>>
    BY <2>1, PhaseParts
  <2>3. Punctual'
    BY <2>1, <2>2 DEF Punctual
  <2>4. QED
    BY <1>1, <1>5, <2>3, FrameNext
<1>8. CASE ResumeWaiter(w)
  <2>1. UNCHANGED <<late, bodyOn, cursor>> /\ stack[home[w]] = <<>>
    BY <1>8 DEF ResumeWaiter, RunNext, sharedVars
  <2>2. cursor # <<>> => home[w] # bodyOn
    BY <2>1, CursorHead DEF StackInv, Runs
  <2>3. \A v \in Waiter : pc[v] = "waiting" /\ cursor # <<>> /\ home[v] = bodyOn => pc'[v] = "waiting"
    BY <1>4, <2>2
  <2>4. QED
    BY <1>1, <1>2, <1>5, <2>1, <2>3, PunctualStays, FrameNext
<1>9. QED
  BY <1>6, <1>7, <1>8 DEF WaiterStep

LEMMA BodyFrame ==
  ASSUME TypeInv, StackInv, PhaseInv, ListInv, FrameInv, BodyStep, UNCHANGED gatherVars
  PROVE  FrameInv'
<1>1. UNCHANGED refVars /\ sharing' = sharing /\ pc' = pc /\ bodyOn' = bodyOn
  BY DEF BodyStep, BodyParks, BodyWakes, BodyResumes, BodyReturns, Publish, PostWaiter, NextWaiter,
         BodyEnds, listVars, bodyVars, gatherVars
<1>2. Punctual /\ Users' = Users
  BY <1>1, FrameParts, UsersSame
<1>3. CASE BodyParks \/ BodyWakes \/ BodyResumes \/ (\E v \in {"value", "exception"} : BodyReturns(v)) \/ Publish \/ BodyEnds
  <2>1. UNCHANGED <<late, cursor>>
    BY <1>3 DEF BodyParks, BodyWakes, BodyResumes, BodyReturns, Publish, BodyEnds, listVars, bodyVars
  <2>2. QED
    BY <1>1, <1>2, <2>1, PunctualStays, FrameNext
<1>4. CASE PostWaiter
  <2>1. hand # <<>> /\ cursor = <<>> /\ cursor' = <<Head(hand)>> /\ late' = late
    BY <1>4 DEF PostWaiter, bodyVars
  <2>2. PICK g \in Waiter : g = Head(hand)
    BY <2>1, Split DEF TypeInv
  <2>3. In(g, Unposted)
    BY <2>1, <2>2, Split DEF TypeInv, Unposted
  <2>4. pc[g] = "waiting"
    BY <2>3 DEF ListInv
  <2>5. Head(cursor') = g
    BY <2>1, <2>2
  <2>6. QED
    BY <1>1, <1>2, <2>1, <2>4, <2>5, FrameNext DEF Punctual
<1>5. CASE NextWaiter
  <2>1. cursor # <<>> /\ cursor' = <<>>
    BY <1>5 DEF NextWaiter
  <2>2. late' = late \/ (pc[Head(cursor)] # "waiting" /\ late' = late \cup {Head(cursor)})
    BY <1>5 DEF NextWaiter
  <2>3. \A w \in late' : home[w] # bodyOn
    BY <1>2, <2>1, <2>2 DEF Punctual
  <2>4. Punctual'
    BY <1>1, <2>1, <2>3 DEF Punctual
  <2>5. QED
    BY <1>1, <1>2, <2>4, FrameNext
<1>6. QED
  BY <1>3, <1>4, <1>5 DEF BodyStep

LEMMA DropFrame ==
  ASSUME TypeInv, PhaseInv, FrameInv, DropHeld, UNCHANGED gatherVars
  PROVE  FrameInv'
<1>1. held /\ held' = FALSE /\ refs' = refs - 1 /\ UNCHANGED <<pc, listVars, bodyVars>> /\ sharing' = sharing
  BY DEF DropHeld, Unref, gatherVars
<1>2. Users' = Users
  BY <1>1, UsersSame
<1>3. Punctual'
  BY <1>1, FrameParts, PunctualStays DEF listVars, bodyVars
<1>4. refs = Cardinality(Users) + 1 /\ Cardinality(Users) \in Nat
  BY <1>1, UsersCounted DEF FrameInv
<1>5. refs' = Cardinality(Users) + 0
  BY <1>1, <1>4
<1>6. Cardinality(Users') = Cardinality(Users) /\ ~held'
  BY <1>1, <1>2
<1>7. QED
  BY <1>3, <1>5, <1>6 DEF FrameInv, Punctual

LEMMA OtherFrame ==
  ASSUME TypeInv, PhaseInv, FrameInv, UNCHANGED <<listVars, bodyVars, refVars, sharing>>,
         \A w \in Waiter : (pc[w] = "over" <=> pc'[w] = "over") /\ (pc[w] = "waiting" => pc'[w] = "waiting")
  PROVE  FrameInv'
<1>1. Users' = Users
  BY UsersSame
<1>2. Punctual'
  BY FrameParts, PunctualStays DEF listVars, bodyVars
<1>3. QED
  BY <1>1, <1>2, FrameNext

LEMMA BeginFrame ==
  ASSUME TypeInv, PhaseInv, FrameInv, NEW h \in Parent \cup Waiter, Begin(h)
  PROVE  FrameInv'
<1>1. UNCHANGED <<listVars, bodyVars, refVars, sharing>> /\ pc[h] \in {"start", "queued"}
  BY DEF Begin, sharedVars, listVars, bodyVars, refVars, gatherVars
<1>2. (\A w \in Waiter : w # h => pc'[w] = pc[w]) /\ pc'[h] # "over"
  BY BeginMoves DEF Goes
<1>3. QED
  BY <1>1, <1>2, OtherFrame

LEMMA ChildFrame ==
  ASSUME TypeInv, PhaseInv, FrameInv, NEW c \in Waiter, ChildStep(c)
  PROVE  FrameInv'
<1>1. UNCHANGED <<listVars, bodyVars, sharing>> /\ pc[c] \notin {"waiting", "over"}
  BY DEF ChildStep, OwnParks, OwnWakes, OwnResumes, OwnReturns, SharedReturns, Receives,
         CountDown, OnComplete, ChildEnds, At, sharedVars, listVars, bodyVars, gatherVars
<1>2. \A w \in Waiter : w # c => pc'[w] = pc[w]
  <2>1. \A w \in Waiter : w # parentOf[c]
    BY Given
  <2>2. QED
    BY <2>1, ChildMoves DEF ChildStep, Goes, Wakes
<1>3. CASE ~ChildEnds(c)
  <2>1. UNCHANGED refVars
    BY <1>3 DEF ChildStep, OwnParks, OwnWakes, OwnResumes, OwnReturns, SharedReturns, Receives,
                CountDown, OnComplete, sharedVars, refVars
  <2>2. pc'[c] # "over"
    BY <1>3, ChildMoves DEF ChildStep, Goes, Wakes, Ending
  <2>3. QED
    BY <1>1, <1>2, <2>1, <2>2, OtherFrame
<1>4. CASE ChildEnds(c)
  <2>1. pc'[c] = "over" /\ held' = held /\ refs' = IF c \in sharing THEN refs - 1 ELSE refs
    BY <1>4, ChildMoves DEF ChildEnds, Goes, Unref
  <2>2. Punctual'
    BY <1>1, <1>2, FrameParts, PunctualStays DEF listVars, bodyVars
  <2>3. Users' = Users \ {c}
    BY <1>1, <1>2, <2>1 DEF Users, TypeInv
  <2>4. c \in Users <=> c \in sharing
    BY <1>1 DEF Users
  <2>5. /\ IsFiniteSet(Users) /\ Cardinality(Users) \in Nat
        /\ Cardinality(Users \ {c}) = IF c \in Users THEN Cardinality(Users) - 1 ELSE Cardinality(Users)
    BY UsersCounted, FS_RemoveElement
  <2>6. refs = Cardinality(Users) + HeldOne /\ HeldOne \in Nat /\ HeldOne' = HeldOne
    BY <2>1, FrameParts DEF HeldOne
  <2>7. refs' = Cardinality(Users \ {c}) + HeldOne
    BY <2>1, <2>4, <2>5, <2>6
  <2>8. Cardinality(Users') = Cardinality(Users \ {c})
    BY <2>3
  <2>9. refs' = Cardinality(Users') + HeldOne'
    BY <2>6, <2>7, <2>8
  <2>10. QED
    BY <2>2, <2>9 DEF FrameInv, Punctual, HeldOne
<1>5. QED
  BY <1>3, <1>4

LEMMA ParentFrame ==
  ASSUME TypeInv, PhaseInv, FrameInv, ChildInv, NEW p \in Parent, ParentStep(p)
  PROVE  FrameInv'
<1>1. UNCHANGED <<listVars, bodyVars, refVars, sharing>>
  BY DEF ParentStep, SpawnAll, AwaitState, TakeResults, ParentEnds, sharedVars, listVars, bodyVars, refVars, gatherVars
<1>2. \A w \in Waiter : w # p
  BY Given
<1>3. CASE SpawnAll(p)
  <2>1. /\ pc[p] = "spawn" /\ \A c \in Children(p) : pc'[c] = "queued"
        /\ \A h \in Waiter \cup Parent : h \notin Children(p) \cup {p} => pc'[h] = pc[h]
    BY <1>3, SpawnMoves
  <2>2. \A c \in Children(p) : pc[c] = "new"
    BY <2>1 DEF ChildInv, Children
  <2>3. \A w \in Waiter : (pc[w] = "over" <=> pc'[w] = "over") /\ (pc[w] = "waiting" => pc'[w] = "waiting")
    BY <1>2, <2>1, <2>2
  <2>4. QED
    BY <1>1, <2>3, OtherFrame
<1>4. CASE AwaitState(p) \/ TakeResults(p) \/ ParentEnds(p)
  <2>1. \A w \in Waiter : pc'[w] = pc[w]
    BY <1>2, <1>4, ParentMoves DEF Goes
  <2>2. QED
    BY <1>1, <2>1, OtherFrame
<1>5. QED
  BY <1>3, <1>4 DEF ParentStep

-----------------------------------------------------------------------------
(* The children.                                                            *)

\* What ChildInv says of one child.
ChildTrue(c) ==
    /\ pc[c] # "new" => pc[parentOf[c]] \notin {"start", "spawn"}
    /\ pc[c] \notin {"new", "queued"} => pc[parentOf[c]] # "spawned"
    /\ pc[c] = "complete" => val[c] = "value"
    /\ \A p \in Parent : In(c, order[p]) => p = parentOf[c] /\ pc[c] \in {"unwind", "over"} /\ val[c] = "value"
    /\ pc[c] \in {"unwind", "over"} /\ val[c] = "value" => In(c, order[parentOf[c]])

LEMMA ChildParts == ChildInv <=> \A c \in Waiter : ChildTrue(c)
  BY DEF ChildInv, ChildTrue

LEMMA ChildNext ==
  ASSUME \A c \in Waiter : ChildTrue(c)'
  PROVE  ChildInv'
  BY DEF ChildInv, ChildTrue

\* A child that stays where it is while its parent goes on, and one that
\* moves among the places in the middle, where nothing is said of it.
Middle == {"query", "own", "suspend", "started it", "waiting", "resume", "parked", "posted", "back"}
LEMMA ChildStays ==
  ASSUME NEW c \in Waiter, ChildTrue(c), parentOf[c] \in Parent,
         \/ pc'[c] = pc[c]
         \/ pc[c] \in Middle /\ pc'[c] \in Middle,
         val'[c] = val[c],
         \A p \in Parent : In(c, order[p]) <=> In(c, order[p])',
         \/ pc'[parentOf[c]] = pc[parentOf[c]]
         \/ pc'[parentOf[c]] \notin {"start", "spawn", "spawned"}
         \/ pc[c] = "new"
  PROVE  ChildTrue(c)'
  BY DEF ChildTrue, Middle

LEMMA SharedChild ==
  ASSUME TypeInv, ChildInv, SharedStep, UNCHANGED gatherVars
  PROVE  ChildInv'
<1>1. val' = val /\ order' = order
  BY DEF gatherVars
<1>2. /\ \A p \in Parent : pc'[p] = pc[p]
      /\ \A c \in Waiter : pc'[c] = pc[c] \/ (pc[c] \in Middle /\ pc'[c] \in Middle)
  <2>1. CASE BodyStep \/ DropHeld
    BY <2>1 DEF BodyStep, BodyParks, BodyWakes, BodyResumes, BodyReturns, Publish, PostWaiter, NextWaiter,
         BodyEnds, DropHeld
  <2>2. CASE \E w \in Waiter : WaiterStep(w)
    <3>1. PICK w \in Waiter : WaiterStep(w)
      BY <2>2
    <3>2. pc[w] \in Middle
      BY <3>1 DEF WaiterStep, AwaitReady, StartBody, TryAwait, ResumeWaiter, At, Middle
    <3>3. pc'[w] \in Middle /\ \A h \in Waiter \cup Parent : h # w => pc'[h] = pc[h]
      BY <3>1, WaiterMoves DEF Goes, Middle
    <3>4. \A p \in Parent : p # w
      BY Given
    <3>5. QED
      BY <3>2, <3>3, <3>4
  <2>3. QED
    BY <2>1, <2>2 DEF SharedStep
<1>3. ASSUME NEW c \in Waiter
      PROVE  ChildTrue(c)'
  <2>1. \A p \in Parent : In(c, order[p]) <=> In(c, order[p])'
    BY <1>1 DEF In
  <2>2. QED
    BY <1>1, <1>2, <2>1, Given, ChildParts, ChildStays
<1>4. QED
  BY <1>3, ChildNext

LEMMA BeginChild ==
  ASSUME TypeInv, StackInv, ChildInv, NEW h \in Parent \cup Waiter, Begin(h)
  PROVE  ChildInv'
<1>1. val' = val /\ order' = order /\ pc[h] \in {"start", "queued"} /\ stack[home[h]] = <<>>
  BY DEF Begin, RunNext, gatherVars
<1>2. \A c \in Waiter : \A p \in Parent : In(c, order[p]) <=> In(c, order[p])'
  BY <1>1 DEF In
<1>3. \A g \in Waiter \cup Parent : g # h => pc'[g] = pc[g]
  BY BeginMoves DEF Goes
<1>4. CASE h \in Parent
  <2>1. pc[h] = "start"
    BY <1>1, <1>4 DEF TypeInv, ParentPlace
  <2>2. \A c \in Waiter : parentOf[c] = h => pc[c] = "new"
    BY <2>1 DEF ChildInv
  <2>3. \A c \in Waiter : parentOf[c] \in Parent /\ c # h
    BY <1>4, Given
  <2>4. \A c \in Waiter : ChildTrue(c)'
    BY <1>1, <1>2, <1>3, <2>2, <2>3, ChildParts, ChildStays
  <2>5. QED
    BY <2>4, ChildNext
<1>5. CASE h \in Waiter
  <2>1. pc[h] = "queued"
    BY <1>1, <1>5 DEF TypeInv, WaiterPlace
  <2>2. parentOf[h] \in Parent /\ home[parentOf[h]] = home[h] /\ \A p \in Parent : p # h
    BY <1>5, Given
  <2>3. pc[parentOf[h]] \notin {"start", "spawn"}
    BY <1>5, <2>1 DEF ChildInv
  <2>4. pc[parentOf[h]] # "spawned"
    BY <1>1, <2>2 DEF StackInv, Runs
  <2>5. pc'[h] \in {"query", "own"}
    BY <1>5, BeginMoves DEF Goes
  <2>6. ChildTrue(h)'
    <3>1. \A p \in Parent : ~In(h, order[p])
      BY <1>5, <2>1 DEF ChildInv
    <3>2. pc'[parentOf[h]] = pc[parentOf[h]]
      BY <1>3, <2>2
    <3>3. QED
      BY <1>2, <1>5, <2>2, <2>3, <2>4, <2>5, <3>1, <3>2 DEF ChildTrue
  <2>7. ASSUME NEW c \in Waiter, c # h
        PROVE  ChildTrue(c)'
    <3>1. parentOf[c] \in Parent /\ pc'[c] = pc[c] /\ pc'[parentOf[c]] = pc[parentOf[c]]
      BY <1>3, <2>2, <2>7, Given
    <3>2. QED
      BY <1>1, <1>2, <3>1, ChildParts, ChildStays
  <2>8. QED
    BY <2>6, <2>7, ChildNext
<1>6. QED
  BY <1>4, <1>5

\* A child that completes is on the list of its parent, last.
LEMMA OrderGrows ==
  ASSUME TypeInv, NEW c \in Waiter, CountDown(c) \/ OnComplete(c)
  PROVE  /\ parentOf[c] \in Parent /\ order'[parentOf[c]] = Append(order[parentOf[c]], c)
         /\ \A p \in Parent : p # parentOf[c] => order'[p] = order[p]
         /\ \A d : In(d, order'[parentOf[c]]) <=> d = c \/ In(d, order[parentOf[c]])
<1>1. parentOf[c] \in Parent
  BY Given
<1>2. order' = [order EXCEPT ![parentOf[c]] = Append(order[parentOf[c]], c)]
  BY DEF CountDown, OnComplete
<1>3. order[parentOf[c]] \in Seq(Waiter)
  BY <1>1 DEF TypeInv
<1>4. \A d : In(d, Append(order[parentOf[c]], c)) <=> d = c \/ In(d, order[parentOf[c]])
  BY <1>3, Added
<1>5. order'[parentOf[c]] = Append(order[parentOf[c]], c) /\ \A p \in Parent : p # parentOf[c] => order'[p] = order[p]
  BY <1>1, <1>2 DEF TypeInv
<1>6. QED
  BY <1>1, <1>4, <1>5

LEMMA ChildChild ==
  ASSUME TypeInv, PhaseInv, ListInv, ChildInv, NEW c \in Waiter, ChildStep(c)
  PROVE  ChildInv'
<1>1. parentOf[c] \in Parent /\ c \notin Parent /\ \A d \in Waiter : parentOf[d] \in Parent /\ d \notin Parent
  BY Given
<1>2. ChildTrue(c)
  BY ChildParts
<1>3. \A g \in Waiter \cup Parent : g # c => pc'[g] = pc[g] \/ (g \in Parent /\ pc'[g] = "resume")
  BY <1>1, ChildMoves DEF ChildStep, Goes, Wakes
<1>4. \A d \in Waiter : d # c => val'[d] = val[d]
  BY DEF ChildStep, OwnParks, OwnWakes, OwnResumes, OwnReturns, SharedReturns, Receives,
         CountDown, OnComplete, ChildEnds, gatherVars, TypeInv
<1>5. ASSUME \A d \in Waiter \ {c} : \A p \in Parent : In(d, order[p]) <=> In(d, order[p])',
             ChildTrue(c)'
      PROVE  ChildInv'
  <2>1. ASSUME NEW d \in Waiter, d # c
        PROVE  ChildTrue(d)'
    <3>1. pc'[d] = pc[d] /\ val'[d] = val[d]
      BY <1>1, <1>3, <1>4, <2>1
    <3>2. pc'[parentOf[d]] = pc[parentOf[d]] \/ pc'[parentOf[d]] = "resume"
      BY <1>1, <1>3
    <3>3. \A p \in Parent : In(d, order[p]) <=> In(d, order[p])'
      BY <1>5, <2>1
    <3>4. QED
      BY <1>1, <3>1, <3>2, <3>3, ChildParts, ChildStays
  <2>2. QED
    BY <1>5, <2>1, ChildNext
<1>6. ASSUME order' = order
      PROVE  \A d \in Waiter : \A p \in Parent : In(d, order[p]) <=> In(d, order[p])'
  BY <1>6 DEF In
<1>7. CASE OwnParks(c) \/ OwnWakes(c) \/ OwnResumes(c)
  <2>1. /\ order' = order /\ val' = val /\ pc[c] \in Middle /\ pc'[c] \in Middle
        /\ \A p \in Parent : pc'[p] = pc[p]
    BY <1>1, <1>7, ChildMoves DEF OwnParks, OwnWakes, OwnResumes, At, Goes, gatherVars, Middle
  <2>2. ChildTrue(c)'
    BY <1>1, <1>2, <1>6, <2>1, ChildStays
  <2>3. QED
    BY <1>5, <1>6, <2>1, <2>2
<1>8. CASE OwnReturns(c) \/ SharedReturns(c)
  <2>1. PICK v \in {"value", "exception"} : Receives(c, v)
    <3>1. SharedReturns(c) => pc[c] = "resume"
      BY DEF SharedReturns, At
    <3>2. SharedReturns(c) => phase = "ready"
      BY <3>1 DEF ListInv
    <3>3. SharedReturns(c) => outcome \in {"value", "exception"}
      BY <3>2, PhaseParts DEF TypeInv, Outcome
    <3>4. QED
      BY <1>8, <3>3 DEF OwnReturns, SharedReturns
  <2>2. /\ order' = order /\ val' = [val EXCEPT ![c] = v] /\ pc[c] \in {"own", "back", "resume"}
        /\ Goto(c, IF v = "value" THEN "complete" ELSE "unwind")
    BY <1>8, <2>1 DEF OwnReturns, SharedReturns, Receives, At
  <2>3. val'[c] = v /\ (v = "value" \/ v = "exception")
    BY <2>2 DEF TypeInv
  <2>4. /\ pc'[c] = IF v = "value" THEN "complete" ELSE "unwind"
        /\ pc'[parentOf[c]] = pc[parentOf[c]]
    <3>1. pc' = [pc EXCEPT ![c] = IF v = "value" THEN "complete" ELSE "unwind"]
      BY <2>2 DEF Goto
    <3>2. QED
      BY <1>1, <3>1 DEF TypeInv
  <2>5. \A p \in Parent : ~In(c, order[p]) /\ ~In(c, order'[p])
    BY <1>2, <2>2 DEF ChildTrue
  <2>6. ChildTrue(c)'
    BY <1>1, <1>2, <2>2, <2>3, <2>4, <2>5 DEF ChildTrue
  <2>7. QED
    BY <1>5, <1>6, <2>2, <2>6
<1>9. CASE CountDown(c) \/ OnComplete(c)
  <2>1. pc[c] = "complete" /\ val' = val
    BY <1>9 DEF CountDown, OnComplete, At
  <2>2. /\ order'[parentOf[c]] = Append(order[parentOf[c]], c)
        /\ \A p \in Parent : p # parentOf[c] => order'[p] = order[p]
        /\ \A d : In(d, order'[parentOf[c]]) <=> d = c \/ In(d, order[parentOf[c]])
    BY <1>9, OrderGrows
  <2>3. \A p \in Parent : In(c, order'[p]) <=> p = parentOf[c]
    BY <1>1, <1>2, <2>1, <2>2 DEF ChildTrue
  <2>4. \A d \in Waiter \ {c} : \A p \in Parent : In(d, order[p]) <=> In(d, order'[p])
    BY <2>2 DEF In
  <2>5. pc'[c] = "unwind"
    BY <1>9, ChildMoves DEF Goes, Wakes
  <2>6. pc[parentOf[c]] \notin {"start", "spawn", "spawned"} /\ val[c] = "value"
    BY <1>2, <2>1 DEF ChildTrue
  <2>7. pc'[parentOf[c]] \notin {"start", "spawn", "spawned"}
    BY <1>1, <1>3, <2>6
  <2>8. ChildTrue(c)'
    BY <1>1, <2>1, <2>3, <2>5, <2>6, <2>7 DEF ChildTrue
  <2>9. QED
    BY <1>5, <2>4, <2>8
<1>10. CASE ChildEnds(c)
  <2>1. /\ order' = order /\ val' = val /\ pc[c] = "unwind" /\ pc'[c] = "over"
        /\ \A p \in Parent : pc'[p] = pc[p]
    BY <1>1, <1>10, ChildMoves DEF ChildEnds, At, Goes, gatherVars
  <2>2. ChildTrue(c)'
    BY <1>1, <1>2, <2>1 DEF ChildTrue
  <2>3. QED
    BY <1>5, <1>6, <2>1, <2>2
<1>11. QED
  BY <1>7, <1>8, <1>9, <1>10 DEF ChildStep

LEMMA ParentChild ==
  ASSUME TypeInv, ChildInv, NEW p \in Parent, ParentStep(p)
  PROVE  ChildInv'
<1>1. val' = val /\ order' = order
  BY DEF ParentStep, SpawnAll, AwaitState, TakeResults, ParentEnds, gatherVars
<1>2. \A c \in Waiter : \A q \in Parent : In(c, order[q]) <=> In(c, order[q])'
  BY <1>1 DEF In
<1>3. \A c \in Waiter : parentOf[c] \in Parent /\ c # p
  BY Given
<1>4. CASE AwaitState(p) \/ TakeResults(p) \/ ParentEnds(p)
  <2>1. pc'[p] \in {"asleep", "finish", "over"} /\ \A g \in Waiter \cup Parent : g # p => pc'[g] = pc[g]
    BY <1>4, ParentMoves DEF Goes
  <2>2. ASSUME NEW c \in Waiter
        PROVE  ChildTrue(c)'
    <3>1. pc'[c] = pc[c] /\ (pc'[parentOf[c]] = pc[parentOf[c]] \/ pc'[parentOf[c]] \in {"asleep", "finish", "over"})
      BY <1>3, <2>1
    <3>2. QED
      BY <1>1, <1>2, <1>3, <3>1, ChildParts, ChildStays
  <2>3. QED
    BY <2>2, ChildNext
<1>5. CASE SpawnAll(p)
  <2>1. /\ pc[p] = "spawn" /\ pc'[p] = "spawned" /\ \A c \in Children(p) : pc'[c] = "queued"
        /\ \A h \in Waiter \cup Parent : h \notin Children(p) \cup {p} => pc'[h] = pc[h]
    BY <1>5, SpawnMoves
  <2>2. ASSUME NEW c \in Waiter, parentOf[c] = p
        PROVE  ChildTrue(c)'
    <3>1. pc[c] = "new" /\ pc'[c] = "queued"
      BY <2>1, <2>2 DEF ChildInv, Children
    <3>2. \A q \in Parent : ~In(c, order[q]) /\ ~In(c, order'[q])
      BY <1>1, <3>1 DEF ChildInv
    <3>3. QED
      BY <2>1, <2>2, <3>1, <3>2 DEF ChildTrue
  <2>3. ASSUME NEW c \in Waiter, parentOf[c] # p
        PROVE  ChildTrue(c)'
    <3>1. \A q \in Parent : q \notin Children(p)
      BY Given DEF Children
    <3>2. pc'[c] = pc[c] /\ pc'[parentOf[c]] = pc[parentOf[c]]
      BY <1>3, <2>1, <2>3, <3>1 DEF Children
    <3>3. QED
      BY <1>1, <1>2, <1>3, <3>2, ChildParts, ChildStays
  <2>4. QED
    BY <2>2, <2>3, ChildNext
<1>6. QED
  BY <1>4, <1>5 DEF ParentStep

-----------------------------------------------------------------------------
(* The results.                                                             *)

\* What ResultInv says of one parent.
ResultTrue(p) ==
    /\ pc[p] \notin {"start", "spawn", "spawned"} => p \in awaiting
    /\ pc[p] \notin {"finish", "over"} => taken[p] = <<>>
    /\ pc[p] \in {"finish", "over"} => taken[p] = SubSeq(order[p], 1, Least(p))
    /\ Len(order[p]) = Cardinality(Counted(p))
    /\ mode[p] = "all" => /\ remaining[p] = Cardinality(Children(p)) - Len(order[p])
                          /\ results[p] = order[p]
                          /\ pc[p] \in After => remaining[p] = 0
    /\ mode[p] # "all" => /\ p \in resumed <=> pc[p] \in After
                          /\ p \in resumed => Len(order[p]) >= Least(p)
                          /\ p \notin resumed => Len(order[p]) < Least(p)
                          /\ results[p] = IF p \in resumed THEN SubSeq(order[p], 1, Least(p)) ELSE order[p]

LEMMA ResultParts == ResultInv <=> \A p \in Parent : ResultTrue(p)
  BY DEF ResultInv, ResultTrue

LEMMA ResultNext ==
  ASSUME \A p \in Parent : ResultTrue(p)'
  PROVE  ResultInv'
  BY DEF ResultInv, ResultTrue

LEMMA ChildrenCounted ==
  ASSUME TypeInv, NEW p \in Parent
  PROVE  /\ Children(p) \subseteq Waiter /\ IsFiniteSet(Children(p)) /\ Cardinality(Children(p)) \in Nat
         /\ Counted(p) \subseteq Children(p) /\ IsFiniteSet(Counted(p)) /\ Cardinality(Counted(p)) \in Nat
         /\ Least(p) \in Nat /\ order[p] \in Seq(Waiter) /\ Len(order[p]) \in Nat
         /\ mode[p] # "all" => Least(p) >= 1
         /\ mode[p] = "all" => Least(p) = Cardinality(Children(p))
<1>1. Children(p) \subseteq Waiter /\ Counted(p) \subseteq Children(p)
  BY DEF Children, Counted
<1>2. IsFiniteSet(Children(p)) /\ IsFiniteSet(Counted(p))
  BY <1>1, Given, FS_Subset
<1>3. Cardinality(Children(p)) \in Nat /\ Cardinality(Counted(p)) \in Nat
  BY <1>2, FS_CardinalityType
<1>4. mode[p] \in {"all", "any", "some"} /\ need[p] \in Nat /\ (mode[p] # "some" => need[p] = 1)
      /\ order[p] \in Seq(Waiter)
  BY DEF TypeInv
<1>5. Least(p) \in Nat /\ (mode[p] # "all" => Least(p) >= 1)
  <2>1. CASE mode[p] = "all"
    BY <1>3, <2>1 DEF Least
  <2>2. CASE mode[p] = "any" \/ (mode[p] = "some" /\ need[p] = 0)
    <3>1. Least(p) = 1
      BY <2>2 DEF Least
    <3>2. QED
      BY <3>1
  <2>3. CASE mode[p] = "some" /\ need[p] # 0
    <3>1. Least(p) = need[p]
      BY <2>3 DEF Least
    <3>2. QED
      BY <1>4, <2>3, <3>1
  <2>4. QED
    BY <1>4, <2>1, <2>2, <2>3
<1>6. Len(order[p]) \in Nat
  BY <1>4, LenProperties
<1>7. ASSUME mode[p] = "all"
      PROVE  Least(p) = Cardinality(Children(p))
  <2>1. need[p] # 0 /\ mode[p] # "any"
    BY <1>4, <1>7
  <2>2. QED
    BY <1>7, <2>1 DEF Least
<1>8. QED
  BY <1>1, <1>2, <1>3, <1>4, <1>5, <1>6, <1>7

\* Where a parent can be without anybody telling the difference.
AsBefore(p) == \/ pc'[p] = pc[p]
               \/ {pc[p], pc'[p]} \subseteq {"start", "spawn", "spawned"}
               \/ {pc[p], pc'[p]} \subseteq {"finish", "over"}

LEMMA LeastSame ==
  ASSUME mode' = mode, need' = need
  PROVE  \A p : Least(p)' = Least(p)
  BY DEF Least

LEMMA ResultStays ==
  ASSUME NEW p \in Parent, ResultTrue(p), AsBefore(p), mode' = mode, need' = need,
         order'[p] = order[p], taken'[p] = taken[p], remaining'[p] = remaining[p], results'[p] = results[p],
         p \in awaiting <=> p \in awaiting', p \in resumed <=> p \in resumed'
  PROVE  ResultTrue(p)'
<1>1. Least(p)' = Least(p)
  BY LeastSame
<1>2. Cardinality(Counted(p))' = Cardinality(Counted(p))
  BY DEF Counted
<1>3. /\ pc'[p] \in {"start", "spawn", "spawned"} <=> pc[p] \in {"start", "spawn", "spawned"}
      /\ pc'[p] \in {"finish", "over"} <=> pc[p] \in {"finish", "over"}
      /\ pc'[p] \in After <=> pc[p] \in After
  BY DEF AsBefore, After
<1>4. QED
  BY <1>1, <1>2, <1>3 DEF ResultTrue

LEMMA CalmResult ==
  ASSUME TypeInv, ResultInv, UNCHANGED <<mode, need, stateVars, order>>, \A p \in Parent : AsBefore(p)
  PROVE  ResultInv'
<1>1. ASSUME NEW p \in Parent
      PROVE  ResultTrue(p)'
  BY ResultParts, ResultStays DEF stateVars
<1>2. QED
  BY <1>1, ResultNext

LEMMA SharedResult ==
  ASSUME TypeInv, ResultInv, SharedStep, UNCHANGED gatherVars
  PROVE  ResultInv'
<1>1. \A p \in Parent : pc'[p] = pc[p]
  <2>1. CASE BodyStep \/ DropHeld
    BY <2>1 DEF BodyStep, BodyParks, BodyWakes, BodyResumes, BodyReturns, Publish, PostWaiter, NextWaiter,
         BodyEnds, DropHeld
  <2>2. CASE \E w \in Waiter : WaiterStep(w)
    BY <2>2, Given, WaiterMoves DEF Goes
  <2>3. QED
    BY <2>1, <2>2 DEF SharedStep
<1>2. QED
  BY <1>1, CalmResult DEF gatherVars, AsBefore

LEMMA BeginResult ==
  ASSUME TypeInv, ResultInv, NEW h \in Parent \cup Waiter, Begin(h)
  PROVE  ResultInv'
<1>1. UNCHANGED <<mode, need, stateVars, order>> /\ pc[h] \in {"start", "queued"}
  BY DEF Begin, gatherVars
<1>2. ASSUME NEW p \in Parent
      PROVE  AsBefore(p)
  <2>1. CASE p = h
    <3>1. pc[p] = "start"
      BY <1>1, <2>1 DEF TypeInv, ParentPlace
    <3>2. pc'[p] = "spawn"
      BY <2>1, BeginMoves DEF Goes
    <3>3. QED
      BY <3>1, <3>2 DEF AsBefore
  <2>2. CASE p # h
    BY <2>2, BeginMoves DEF Goes, AsBefore
  <2>3. QED
    BY <2>1, <2>2
<1>3. QED
  BY <1>1, <1>2, CalmResult

\* One more child of p has completed.
LEMMA OneMore ==
  ASSUME TypeInv, ChildInv, ResultInv, NEW c \in Waiter, CountDown(c) \/ OnComplete(c), NEW p, p = parentOf[c]
  PROVE  /\ p \in Parent /\ pc[p] \notin {"start", "spawn", "spawned"}
         /\ order'[p] = Append(order[p], c) /\ Len(order'[p]) = Len(order[p]) + 1
         /\ Len(order'[p]) = Cardinality(Counted(p))'
         /\ Len(order[p]) < Cardinality(Children(p))
<1>1. /\ p \in Parent /\ order'[p] = Append(order[p], c)
      /\ \A d : In(d, order'[p]) <=> d = c \/ In(d, order[p])
  BY OrderGrows
<1>2. pc[c] = "complete"
  BY DEF CountDown, OnComplete, At
<1>3. ~In(c, order[p]) /\ pc[p] \notin {"start", "spawn", "spawned"}
  BY <1>1, <1>2 DEF ChildInv
<1>4. c \in Children(p) /\ c \notin Counted(p)
  BY <1>3 DEF Children, Counted
<1>5. Counted(p)' = Counted(p) \cup {c}
  <2>1. Counted(p)' = {d \in Children(p) : In(d, order'[p])}
    BY DEF Counted
  <2>2. QED
    BY <1>1, <1>4, <2>1 DEF Counted
<1> DEFINE k == Cardinality(Counted(p))
           m == Cardinality(Children(p))
           n == Len(order[p])
<1>6. /\ IsFiniteSet(Counted(p)) /\ IsFiniteSet(Children(p)) /\ Counted(p) \subseteq Children(p)
      /\ k \in Nat /\ m \in Nat /\ n \in Nat /\ n = k
  BY <1>1, ChildrenCounted DEF ResultInv
<1>7. Cardinality(Counted(p) \cup {c}) = k + 1
  BY <1>4, <1>6, FS_AddElement
<1>8. k + 1 <= m
  <2>1. Counted(p) \cup {c} \subseteq Children(p)
    BY <1>4, <1>6
  <2>2. Cardinality(Counted(p) \cup {c}) <= m
    BY <1>6, <2>1, FS_Subset
  <2>3. QED
    BY <1>7, <2>2
<1>9. Len(order'[p]) = n + 1
  <2>1. order[p] \in Seq(Waiter)
    BY <1>1 DEF TypeInv
  <2>2. QED
    BY <1>1, <2>1, AppendProperties
<1>10. Cardinality(Counted(p))' = k + 1
  BY <1>5, <1>7
<1> HIDE DEF k, m, n
<1>11. n < m
  BY <1>6, <1>8
<1>12. Len(order'[p]) = Cardinality(Counted(p))'
  BY <1>6, <1>9, <1>10
<1>13. QED
  BY <1>1, <1>3, <1>9, <1>11, <1>12 DEF n, m

LEMMA CountResult ==
  ASSUME TypeInv, ChildInv, ResultInv, NEW c \in Waiter, CountDown(c)
  PROVE  ResultInv'
<1> DEFINE p == parentOf[c]
<1>1. /\ p \in Parent /\ pc[p] \notin {"start", "spawn", "spawned"}
      /\ order'[p] = Append(order[p], c) /\ Len(order'[p]) = Len(order[p]) + 1
      /\ Len(order'[p]) = Cardinality(Counted(p))'
      /\ Len(order[p]) < Cardinality(Children(p))
  BY OneMore
<1>2. /\ mode[p] = "all" /\ mode' = mode /\ need' = need /\ taken' = taken /\ awaiting' = awaiting
      /\ resumed' = resumed
      /\ results' = [results EXCEPT ![p] = Append(results[p], c)]
      /\ order' = [order EXCEPT ![p] = Append(order[p], c)]
      /\ remaining' = [remaining EXCEPT ![p] = remaining[p] - 1]
      /\ Wakeup(c, p, LastChild(p))
  BY DEF CountDown
<1>3. /\ results'[p] = Append(results[p], c) /\ remaining'[p] = remaining[p] - 1
      /\ \A q \in Parent : q # p => order'[q] = order[q] /\ results'[q] = results[q] /\ remaining'[q] = remaining[q]
  BY <1>1, <1>2 DEF TypeInv
<1>4. ResultTrue(p)
  BY <1>1, ResultParts
<1>5. Cardinality(Children(p)) \in Nat /\ Len(order[p]) \in Nat
  BY <1>1, ChildrenCounted
<1>6. remaining[p] = Cardinality(Children(p)) - Len(order[p]) /\ results[p] = order[p]
  BY <1>2, <1>4 DEF ResultTrue
<1>7. remaining[p] # 0 /\ remaining'[p] = Cardinality(Children(p)) - Len(order'[p])
  <2> DEFINE m == Cardinality(Children(p))
             n == Len(order[p])
             r == remaining[p]
             nn == Len(order'[p])
             rr == remaining'[p]
  <2>1. m \in Nat /\ n \in Nat /\ n < m /\ r = m - n /\ nn = n + 1 /\ rr = r - 1
    BY <1>1, <1>3, <1>5, <1>6
  <2> HIDE DEF m, n, r, nn, rr
  <2>2. r # 0 /\ rr = m - nn
    BY <2>1
  <2>3. QED
    BY <2>2 DEF m, n, r, nn, rr
<1>8. pc[p] \notin After /\ p \in awaiting /\ taken[p] = <<>>
  BY <1>1, <1>2, <1>4, <1>7 DEF ResultTrue, After
<1>9. \/ pc'[p] = pc[p]
      \/ pc'[p] = "resume" /\ remaining[p] = 1
  <2>1. p # c
    BY <1>1, Given
  <2>2. QED
    BY <1>1, <1>2, <2>1, WakeupMoves DEF Goes, Wakes, LastChild
<1>10. pc'[p] \notin {"finish", "over"} /\ (pc'[p] \in After => remaining'[p] = 0)
  BY <1>3, <1>8, <1>9 DEF After
<1>11. ResultTrue(p)'
  BY <1>1, <1>2, <1>3, <1>6, <1>7, <1>8, <1>10 DEF ResultTrue
<1>12. ASSUME NEW q \in Parent, q # p
       PROVE  ResultTrue(q)'
  <2>1. q # c
    BY Given
  <2>2. pc'[q] = pc[q]
    BY <1>1, <1>2, <1>12, <2>1, WakeupMoves DEF Goes, Wakes
  <2>3. QED
    BY <1>2, <1>3, <1>12, <2>2, ResultParts, ResultStays DEF AsBefore
<1>13. QED
  BY <1>11, <1>12, ResultNext

LEMMA CompleteResult ==
  ASSUME TypeInv, ChildInv, ResultInv, NEW c \in Waiter, OnComplete(c)
  PROVE  ResultInv'
<1> DEFINE p == parentOf[c]
           l == Least(p)
           n == Len(order[p])
           done == Len(results[p]) + 1 >= need[p]
<1>1. /\ p \in Parent /\ pc[p] \notin {"start", "spawn", "spawned"}
      /\ order'[p] = Append(order[p], c) /\ Len(order'[p]) = n + 1
      /\ Len(order'[p]) = Cardinality(Counted(p))'
  BY OneMore
<1>2. /\ mode[p] # "all" /\ mode' = mode /\ need' = need /\ taken' = taken /\ awaiting' = awaiting
      /\ remaining' = remaining
      /\ order' = [order EXCEPT ![p] = Append(order[p], c)]
      /\ \/ p \in resumed /\ Goto(c, "unwind") /\ results' = results /\ resumed' = resumed
         \/ /\ p \notin resumed /\ results' = [results EXCEPT ![p] = Append(results[p], c)]
            /\ resumed' = IF done THEN resumed \cup {p} ELSE resumed
            /\ Wakeup(c, p, done)
  BY DEF OnComplete, TooLate
<1>3. /\ \A q \in Parent : q # p => order'[q] = order[q] /\ results'[q] = results[q]
      /\ \A q \in Parent : q # p => (q \in resumed <=> q \in resumed')
      /\ p \notin resumed => results'[p] = Append(results[p], c)
  BY <1>1, <1>2 DEF TypeInv
<1>4. ResultTrue(p) /\ p # c
  BY <1>1, ResultParts, Given
<1>5. l \in Nat /\ l >= 1 /\ n \in Nat /\ order[p] \in Seq(Waiter)
  BY <1>1, <1>2, ChildrenCounted
<1>6. Least(p)' = l
  BY <1>2, LeastSame
<1>7. CASE p \in resumed
  <2>1. pc'[p] = pc[p] /\ results' = results /\ resumed' = resumed
    <3>1. "unwind" \in WaiterPlace
      BY DEF WaiterPlace
    <3>2. QED
      BY <1>1, <1>2, <1>4, <1>7, <3>1, GotoWaiter DEF Goes
  <2>2. n >= l /\ pc[p] \in After /\ results[p] = SubSeq(order[p], 1, l)
    BY <1>2, <1>4, <1>7 DEF ResultTrue
  <2>3. SubSeq(Append(order[p], c), 1, l) = SubSeq(order[p], 1, l)
    <3>1. l \in 0..n
      BY <1>5, <2>2
    <3>2. QED
      BY <1>5, <3>1, PrefixKept
  <2>4. SubSeq(order'[p], 1, l) = SubSeq(order[p], 1, l) /\ Len(order'[p]) >= l
    <3>1. n + 1 >= l
      BY <1>5, <2>2
    <3>2. QED
      BY <1>1, <2>3, <3>1
  <2> HIDE DEF p, l, n
  <2>5. QED
    <3>1. ResultTrue(p)'
      BY <1>1, <1>2, <1>4, <1>6, <1>7, <2>1, <2>2, <2>4 DEF ResultTrue, l
    <3>2. ASSUME NEW q \in Parent, q # p
          PROVE  ResultTrue(q)'
      <4>1. "unwind" \in WaiterPlace /\ q # c
        BY Given DEF WaiterPlace
      <4>2. pc'[q] = pc[q]
        BY <1>2, <1>7, <4>1, GotoWaiter DEF Goes
      <4>3. QED
        BY <1>2, <1>3, <3>2, <4>2, ResultParts, ResultStays DEF AsBefore
    <3>3. QED
      BY <3>1, <3>2, ResultNext
<1>8. CASE p \notin resumed
  <2>1. n < l /\ pc[p] \notin After /\ results[p] = order[p] /\ p \in awaiting /\ taken[p] = <<>>
    BY <1>1, <1>2, <1>4, <1>8 DEF ResultTrue, After
  <2>2. done <=> n + 1 >= l
    <3>1. mode[p] \in {"any", "some"} /\ need[p] \in Nat /\ (mode[p] = "any" => need[p] = 1)
      BY <1>1, <1>2 DEF TypeInv
    <3>2. CASE mode[p] = "any" \/ need[p] = 0
      <4>1. l = 1 /\ need[p] \in {0, 1}
        BY <1>2, <3>1, <3>2 DEF Least
      <4>2. done <=> n + 1 >= need[p]
        BY <2>1
      <4> HIDE DEF done, l, n
      <4>3. QED
        BY <1>5, <2>1, <4>1, <4>2
    <3>3. CASE ~(mode[p] = "any" \/ need[p] = 0)
      <4>1. l = need[p]
        BY <1>2, <3>3 DEF Least
      <4>2. QED
        BY <2>1, <4>1
    <3>4. QED
      BY <3>2, <3>3
  <2>3. /\ resumed' = IF done THEN resumed \cup {p} ELSE resumed
        /\ Wakeup(c, p, done) /\ results'[p] = Append(order[p], c)
    BY <1>2, <1>3, <1>8, <2>1
  <2> DEFINE nn == Len(order'[p])
  <2>4. nn = n + 1
    BY <1>1
  <2>5. \/ done /\ Wakes(c, p)
        \/ ~done /\ Goes(c, "unwind")
    BY <1>1, <2>3, WakeupMoves
  <2>6. ASSUME done
        PROVE  /\ pc'[p] = "resume" /\ p \in resumed' /\ nn >= l
               /\ results'[p] = SubSeq(order'[p], 1, l)
    <3>1. nn = l
      <4> HIDE DEF done, l, n, nn
      <4>1. QED
        BY <1>5, <2>1, <2>2, <2>4, <2>6
    <3>2. order'[p] \in Seq(Waiter)
      BY <1>1, <1>5, Added
    <3>3. SubSeq(order'[p], 1, nn) = order'[p]
      BY <3>2, SubSeqFull
    <3>4. nn >= l
      BY <1>5, <3>1
    <3>5. QED
      BY <1>1, <2>3, <2>5, <2>6, <3>1, <3>3, <3>4 DEF Wakes
  <2>7. ASSUME ~done
        PROVE  pc'[p] = pc[p] /\ p \notin resumed' /\ nn < l /\ results'[p] = order'[p]
    <3>1. nn < l
      <4> HIDE DEF done, l, n, nn
      <4>1. QED
        BY <1>5, <2>1, <2>2, <2>4, <2>7
    <3>2. QED
      BY <1>1, <1>4, <1>8, <2>3, <2>5, <2>7, <3>1 DEF Goes
  <2> HIDE DEF done
  <2>8. ResultTrue(p)'
    <3>1. pc'[p] \notin {"finish", "over"} /\ (pc'[p] \in After <=> done)
      BY <2>1, <2>6, <2>7 DEF After
    <3>2. QED
      BY <1>1, <1>2, <1>6, <2>1, <2>6, <2>7, <3>1 DEF ResultTrue, nn
  <2>9. ASSUME NEW q \in Parent, q # p
        PROVE  ResultTrue(q)'
    <3>1. q # c
      BY Given
    <3>2. pc'[q] = pc[q]
      BY <2>5, <2>9, <3>1 DEF Goes, Wakes
    <3>3. QED
      BY <1>2, <1>3, <2>9, <3>2, ResultParts, ResultStays DEF AsBefore
  <2>10. QED
    BY <2>8, <2>9, ResultNext
<1>9. QED
  BY <1>7, <1>8

LEMMA ChildResult ==
  ASSUME TypeInv, ChildInv, ResultInv, NEW c \in Waiter, ChildStep(c)
  PROVE  ResultInv'
<1>1. CASE CountDown(c) \/ OnComplete(c)
  BY <1>1, CountResult, CompleteResult
<1>2. CASE ~(CountDown(c) \/ OnComplete(c))
  <2>1. UNCHANGED <<mode, need, stateVars, order>>
    BY <1>2 DEF ChildStep, OwnParks, OwnWakes, OwnResumes, OwnReturns, SharedReturns, Receives,
                ChildEnds, gatherVars
  <2>2. \A p \in Parent : p # c
    BY Given
  <2>3. \A p \in Parent : pc'[p] = pc[p]
    BY <1>2, <2>2, ChildMoves DEF ChildStep, Goes
  <2>4. QED
    BY <2>1, <2>3, CalmResult DEF AsBefore
<1>3. QED
  BY <1>1, <1>2

\* What the parent takes.
LEMMA TakenRight ==
  ASSUME TypeInv, ResultInv, NEW p \in Parent, TakeResults(p)
  PROVE  /\ taken' = [taken EXCEPT ![p] = SubSeq(order[p], 1, Least(p))]
         /\ SubSeq(order[p], 1, Least(p)) \in Seq(Waiter)
         /\ resumed' = resumed
<1> DEFINE l == Least(p)
           s == order[p]
<1>1. /\ pc[p] = "resume"
      /\ taken' = [taken EXCEPT ![p] = IF mode[p] = "any" THEN SubSeq(results[p], 1, 1) ELSE results[p]]
      /\ resumed' = IF mode[p] = "all" THEN resumed ELSE resumed \cup {p}
  BY DEF TakeResults, At
<1>2. /\ Cardinality(Children(p)) \in Nat /\ l \in Nat /\ s \in Seq(Waiter) /\ Len(s) \in Nat /\ ResultTrue(p)
  BY ChildrenCounted, ResultParts
<1>3. CASE mode[p] = "all"
  <2>1. l = Cardinality(Children(p)) /\ remaining[p] = 0 /\ remaining[p] = Cardinality(Children(p)) - Len(s)
        /\ results[p] = s
    <3>1. l = Cardinality(Children(p))
      BY <1>3, ChildrenCounted
    <3>2. pc[p] \in After
      BY <1>1 DEF After
    <3>3. QED
      BY <1>2, <1>3, <3>1, <3>2 DEF ResultTrue
  <2>2. l = Len(s)
    BY <1>2, <2>1
  <2>3. SubSeq(s, 1, l) = s
    BY <1>2, <2>2, SubSeqFull
  <2>4. QED
    BY <1>1, <1>2, <1>3, <2>1, <2>3
<1>4. CASE mode[p] # "all"
  <2>1. p \in resumed /\ Len(s) >= l /\ results[p] = SubSeq(s, 1, l)
    BY <1>1, <1>2, <1>4 DEF ResultTrue, After
  <2>2. l \in 0..Len(s)
    BY <1>2, <2>1
  <2>3. SubSeq(s, 1, l) \in Seq(Waiter)
    BY <1>2, <2>2, Prefix
  <2>4. SubSeq(SubSeq(s, 1, l), 1, l) = SubSeq(s, 1, l)
    BY <1>2, <2>2, PrefixTwice
  <2>5. mode[p] = "any" => l = 1
    BY DEF Least
  <2> HIDE DEF l, s
  <2>6. (IF mode[p] = "any" THEN SubSeq(results[p], 1, 1) ELSE results[p]) = SubSeq(s, 1, l)
    BY <2>1, <2>4, <2>5
  <2>7. resumed' = resumed
    BY <1>1, <1>4, <2>1
  <2>8. taken' = [taken EXCEPT ![p] = SubSeq(s, 1, l)]
    BY <1>1, <2>6
  <2>9. QED
    BY <2>3, <2>7, <2>8 DEF l, s
<1>5. QED
  BY <1>3, <1>4

LEMMA ParentTypes ==
  ASSUME TypeInv, ResultInv, NEW p \in Parent, ParentStep(p)
  PROVE  TypeInv'
<1>1. /\ UNCHANGED <<listVars, bodyVars, held>> /\ UNCHANGED <<mode, need, sharing>>
      /\ UNCHANGED <<val, remaining, results, order>>
  BY DEF ParentStep, SpawnAll, AwaitState, TakeResults, ParentEnds, sharedVars, listVars, bodyVars,
         gatherVars, stateVars
<1>2. Placed(pc)' /\ Typed'
  BY SpawnMoves, ParentMoves, ParentThreads DEF ParentStep, Goes
<1>3. Tallies
  BY DEF TypeInv, Tallies
<1>4. awaiting' \subseteq Parent
  BY <1>3 DEF ParentStep, SpawnAll, AwaitState, TakeResults, ParentEnds, gatherVars, stateVars, Tallies
<1>5. resumed' \subseteq Parent
  BY <1>3 DEF ParentStep, SpawnAll, AwaitState, TakeResults, ParentEnds, gatherVars, stateVars, Tallies
<1>6. taken' \in [Parent -> Seq(Waiter)]
  <2>1. CASE TakeResults(p)
    BY <1>3, <2>1, TakenRight DEF Tallies
  <2>2. CASE ~TakeResults(p)
    BY <1>3, <2>2 DEF ParentStep, SpawnAll, AwaitState, ParentEnds, gatherVars, stateVars, Tallies
  <2>3. QED
    BY <2>1, <2>2
<1>7. Tallies'
  BY <1>1, <1>3, <1>4, <1>5, <1>6 DEF Tallies
<1>8. QED
  BY <1>1, <1>2, <1>7, TypesNext, ShapesSame, CallsSame

LEMMA ParentResult ==
  ASSUME TypeInv, ResultInv, NEW p \in Parent, ParentStep(p)
  PROVE  ResultInv'
<1>1. \A q \in Parent : q \notin Children(p)
  BY Given DEF Children
<1>2. CASE SpawnAll(p) \/ ParentEnds(p)
  <2>1. UNCHANGED <<mode, need, stateVars, order>>
    BY <1>2 DEF SpawnAll, ParentEnds, gatherVars
  <2>2. ASSUME NEW q \in Parent
        PROVE  AsBefore(q)
    <3>1. CASE SpawnAll(p)
      BY <1>1, <3>1, SpawnMoves DEF AsBefore
    <3>2. CASE ParentEnds(p)
      BY <3>2, ParentMoves DEF ParentEnds, At, Goes, AsBefore
    <3>3. QED
      BY <1>2, <3>1, <3>2
  <2>3. QED
    BY <2>1, <2>2, CalmResult
<1>3. CASE AwaitState(p)
  <2>1. /\ pc[p] = "spawned" /\ pc'[p] = "asleep" /\ awaiting' = awaiting \cup {p}
        /\ UNCHANGED <<mode, need, remaining, resumed, results, taken, order>>
        /\ \A q \in Parent : q # p => pc'[q] = pc[q]
    BY <1>3, ParentMoves DEF AwaitState, At, Goes
  <2>2. Least(p)' = Least(p) /\ Cardinality(Counted(p))' = Cardinality(Counted(p))
    BY <2>1, LeastSame DEF Counted
  <2>3. ResultTrue(p)
    BY ResultParts
  <2>4. ResultTrue(p)'
    BY <2>1, <2>2, <2>3 DEF ResultTrue, After
  <2>5. ASSUME NEW q \in Parent, q # p
        PROVE  ResultTrue(q)'
    BY <2>1, <2>5, ResultParts, ResultStays DEF AsBefore
  <2>6. QED
    BY <2>4, <2>5, ResultNext
<1>4. CASE TakeResults(p)
  <2>1. /\ pc[p] = "resume" /\ pc'[p] = "finish"
        /\ UNCHANGED <<mode, need, remaining, awaiting, results, order>>
        /\ \A q \in Parent : q # p => pc'[q] = pc[q]
    BY <1>4, ParentMoves DEF TakeResults, At, Goes
  <2>2. taken' = [taken EXCEPT ![p] = SubSeq(order[p], 1, Least(p))] /\ resumed' = resumed
    BY <1>4, TakenRight
  <2>3. taken'[p] = SubSeq(order[p], 1, Least(p)) /\ \A q \in Parent : q # p => taken'[q] = taken[q]
    BY <2>2 DEF TypeInv
  <2>4. Least(p)' = Least(p) /\ Cardinality(Counted(p))' = Cardinality(Counted(p))
    BY <2>1, LeastSame DEF Counted
  <2>5. ResultTrue(p)
    BY ResultParts
  <2>6. ResultTrue(p)'
    BY <2>1, <2>2, <2>3, <2>4, <2>5 DEF ResultTrue, After
  <2>7. ASSUME NEW q \in Parent, q # p
        PROVE  ResultTrue(q)'
    BY <2>1, <2>2, <2>3, <2>7, ResultParts, ResultStays DEF AsBefore
  <2>8. QED
    BY <2>6, <2>7, ResultNext
<1>5. QED
  BY <1>2, <1>3, <1>4 DEF ParentStep

-----------------------------------------------------------------------------
(* The invariant, from the first state on.                                  *)

\* The parents of a thread, in the order they are queued in at first.
LEMMA FirstQueue ==
  ASSUME NEW x \in Thread, NEW s, s = SetToSeq({p \in Parent : home[p] = x})
  PROVE  /\ s \in Seq(Coroutine) /\ Distinct(s)
         /\ \A h : In(h, s) <=> h \in Parent /\ home[h] = x
<1> DEFINE S == {p \in Parent : home[p] = x}
           n == Cardinality(S)
<1>1. S \subseteq Parent /\ IsFiniteSet(S)
  <2>1. IsFiniteSet(Parent)
    BY GatherAssumption
  <2>2. QED
    BY <2>1, FS_Subset
<1>2. n \in Nat /\ ExistsBijection(1..n, S)
  BY <1>1, FS_CardinalityType
<1>3. \E g \in [1..n -> S] : IsInjective(g)
  BY <1>2 DEF ExistsBijection, Bijection, Injection
<1>4. s \in [1..n -> S] /\ IsInjective(s)
  BY <1>3 DEF SetToSeq
<1>5. s \in Surjection(1..n, S)
  <2>1. s \in Injection(1..n, S)
    BY <1>4 DEF Injection
  <2>2. Cardinality(1..n) = n
    BY <1>2, FS_Interval
  <2> HIDE DEF S
  <2>3. QED
    BY <1>1, <2>1, <2>2, FS_Injection
<1>6. \A h \in S : \E i \in 1..n : s[i] = h
  BY <1>5 DEF Surjection
<1> HIDE DEF n, S
<1>7. s \in Seq(Coroutine) /\ Len(s) = n
  BY <1>1, <1>2, <1>4, Given
<1>8. Distinct(s)
  BY <1>4, <1>7 DEF Distinct, IsInjective
<1>9. \A h : In(h, s) <=> h \in S
  BY <1>4, <1>6, <1>7 DEF In
<1>10. QED
  BY <1>7, <1>8, <1>9 DEF S

LEMMA InvInit == GatherInit => GatherInv
<1> SUFFICES ASSUME GatherInit PROVE GatherInv
  OBVIOUS
<1>1. <<>> \in Seq(Waiter) /\ <<>> \in Seq(Coroutine) /\ Len(<<>>) = 0 /\ \A h : ~In(h, <<>>)
  BY EmptyList, EmptySeq
<1>2. \A p \in Parent : Cardinality(Children(p)) \in Nat
  BY Given, FS_Subset, FS_CardinalityType DEF Children
<1>3. /\ \A w \in Waiter : pc[w] = "new"
      /\ \A p \in Parent : pc[p] = "start"
  BY Given DEF GatherInit
<1>4. Placed(pc)
  <2>1. pc = [h \in Waiter \cup Parent |-> IF h \in Parent THEN "start" ELSE "new"]
    BY DEF GatherInit
  <2>2. "start" \in ParentPlace /\ "new" \in WaiterPlace
    BY DEF ParentPlace, WaiterPlace
  <2>3. pc \in [Waiter \cup Parent -> WaiterPlace \cup ParentPlace]
    BY <2>1, <2>2
  <2>4. QED
    BY <1>3, <2>2, <2>3 DEF Placed
<1>5. /\ \A x \in Thread : queue[x] \in Seq(Coroutine) /\ Distinct(queue[x])
      /\ \A x \in Thread : \A h : In(h, queue[x]) <=> h \in Parent /\ home[h] = x
  <2>1. \A x \in Thread : queue[x] = SetToSeq({p \in Parent : home[p] = x})
    BY DEF GatherInit
  <2>2. QED
    BY <2>1, FirstQueue
<1>6. Typed
  <2>1. queue = [x \in Thread |-> queue[x]] /\ stack = [x \in Thread |-> <<>>]
    BY DEF GatherInit
  <2>2. queue \in [Thread -> Seq(Coroutine)]
    BY <1>5, <2>1
  <2>3. QED
    BY <1>1, <2>1, <2>2 DEF Typed
<1>7. Shapes
  BY <1>1 DEF GatherInit, SharedInit, Shapes, Outcome
<1>8. Tallies
  BY <1>1, <1>2 DEF GatherInit, Tallies, Outcome
<1>9. Calls
  <2>1. \A n \in 0..MaxNeed : n \in Nat
    BY GatherAssumption
  <2>2. need \in [Parent -> Nat]
    BY <2>1 DEF GatherInit
  <2>3. QED
    BY <2>2 DEF GatherInit, Calls
<1>10. TypeInv
  BY <1>4, <1>6, <1>7, <1>8, <1>9, TypeParts
<1>11. PhaseInv
  BY DEF GatherInit, SharedInit, PhaseInv
<1>12. StackInv
  BY <1>3 DEF GatherInit, SharedInit, StackInv
<1>13. QueueInv
  BY <1>3, <1>5 DEF QueueInv, Due
<1>14. ListInv
  <2>1. waiters = <<>> /\ Unposted = <<>>
    BY DEF GatherInit, SharedInit, Unposted
  <2>2. \A w : ~In(w, waiters) /\ ~In(w, Unposted)
    BY <1>1, <2>1 DEF In
  <2>3. Distinct(waiters) /\ Distinct(Unposted)
    BY <2>1, EmptyList DEF Distinct
  <2>4. QED
    BY <1>3, <2>2, <2>3 DEF ListInv, Asking
<1>15. FrameInv
  <2>1. sharing \subseteq Waiter /\ refs = 1 + Cardinality(sharing) /\ held = TRUE /\ late = {} /\ cursor = <<>>
    BY DEF GatherInit, SharedInit
  <2>2. Users = sharing
    BY <1>3, <2>1 DEF Users
  <2>3. Cardinality(Users) \in Nat
    BY <1>10, UsersCounted
  <2>4. refs = 1 + Cardinality(Users)
    BY <2>1, <2>2
  <2>5. refs = Cardinality(Users) + 1
    BY <2>3, <2>4
  <2>6. QED
    BY <2>1, <2>5 DEF FrameInv
<1>16. \A p \in Parent : order[p] = <<>>
  BY DEF GatherInit
<1>17. ChildInv
  <2>1. \A c : \A p \in Parent : ~In(c, order[p])
    BY <1>1, <1>16 DEF In
  <2>2. QED
    BY <1>3, <2>1 DEF ChildInv
<1>18. ResultInv
  <2>1. ASSUME NEW p \in Parent
        PROVE  ResultTrue(p)
    <3>1. /\ taken[p] = <<>> /\ results[p] = <<>> /\ remaining[p] = Cardinality(Children(p)) /\ resumed = {}
          /\ order[p] = <<>> /\ pc[p] = "start"
      BY <1>3 DEF GatherInit
    <3>2. Len(order[p]) = 0
      BY <1>1, <3>1
    <3>3. Counted(p) = {}
      BY <1>1, <3>1 DEF Counted, In
    <3>4. Cardinality(Counted(p)) = 0
      BY <3>3, FS_EmptySet
    <3>5. remaining[p] = Cardinality(Children(p)) - 0
      BY <1>2, <3>1
    <3>6. mode[p] # "all" => 0 < Least(p)
      BY <1>10, ChildrenCounted
    <3>7. QED
      BY <3>1, <3>2, <3>4, <3>5, <3>6 DEF ResultTrue, After
  <2>2. QED
    BY <2>1, ResultParts
<1>19. QED
  BY <1>10, <1>11, <1>12, <1>13, <1>14, <1>15, <1>17, <1>18 DEF GatherInv

\* A step that is taken keeps the invariant.
LEMMA InvStep ==
  ASSUME GatherInv, Next
  PROVE  GatherInv'
<1>1. /\ TypeInv /\ PhaseInv /\ StackInv /\ QueueInv /\ ListInv /\ FrameInv /\ ChildInv /\ ResultInv
  BY DEF GatherInv
<1>2. CASE SharedStep /\ UNCHANGED gatherVars
  <2>1. TypeInv' /\ ChildInv' /\ ResultInv'
    BY <1>1, <1>2, SharedTypes, SharedChild, SharedResult
  <2>2. CASE \E w \in Waiter : WaiterStep(w)
    <3>1. PICK w \in Waiter : WaiterStep(w)
      BY <2>2
    <3>2. PhaseInv' /\ StackInv'
      BY <1>1, <1>2, <3>1, WaiterPhase, WaiterStacked
    <3>3. QueueInv' /\ ListInv'
      BY <1>1, <1>2, <3>1, WaiterQueue, WaiterListed
    <3>4. FrameInv'
      BY <1>1, <1>2, <3>1, WaiterFrame
    <3>5. QED
      BY <2>1, <3>2, <3>3, <3>4 DEF GatherInv
  <2>3. CASE BodyStep
    <3>1. PhaseInv' /\ StackInv'
      BY <1>1, <1>2, <2>3, BodyPhase, BodyStacked
    <3>2. QueueInv' /\ ListInv'
      BY <1>1, <1>2, <2>3, BodyQueue, BodyListed
    <3>3. FrameInv'
      BY <1>1, <1>2, <2>3, BodyFrame
    <3>4. QED
      BY <2>1, <3>1, <3>2, <3>3 DEF GatherInv
  <2>4. CASE DropHeld
    <3>1. UNCHANGED <<stack, queue, pc, listVars, bodyVars, sharing>>
      BY <1>2, <2>4 DEF DropHeld, gatherVars
    <3>2. PhaseInv' /\ StackInv'
      BY <1>1, <3>1, PhaseCalm DEF StackInv, Runs, bodyVars
    <3>3. QueueInv'
      BY <1>1, <3>1, QueueCalm DEF Due, bodyVars
    <3>4. ListInv'
      BY <1>1, <3>1, SameQueued, Given, OtherListed
    <3>5. FrameInv'
      BY <1>1, <1>2, <2>4, DropFrame
    <3>6. QED
      BY <2>1, <3>2, <3>3, <3>4, <3>5 DEF GatherInv
  <2>5. QED
    BY <1>2, <2>2, <2>3, <2>4 DEF SharedStep
<1>3. CASE \E h \in Parent \cup Waiter : Begin(h)
  <2>1. PICK h \in Parent \cup Waiter : Begin(h)
    BY <1>3
  <2>2. TypeInv' /\ PhaseInv' /\ StackInv'
    BY <1>1, <2>1, BeginTypes, OtherPhase, BeginStacked
  <2>3. QueueInv' /\ ListInv' /\ FrameInv'
    BY <1>1, <2>1, BeginQueue, BeginListed, BeginFrame
  <2>4. ChildInv' /\ ResultInv'
    BY <1>1, <2>1, BeginChild, BeginResult
  <2>5. QED
    BY <2>2, <2>3, <2>4 DEF GatherInv
<1>4. CASE \E c \in Waiter : ChildStep(c)
  <2>1. PICK c \in Waiter : ChildStep(c)
    BY <1>4
  <2>2. TypeInv' /\ PhaseInv' /\ StackInv'
    BY <1>1, <2>1, ChildTypes, OtherPhase, ChildStacked
  <2>3. QueueInv' /\ ListInv' /\ FrameInv'
    BY <1>1, <2>1, ChildQueue, ChildListed, ChildFrame
  <2>4. ChildInv' /\ ResultInv'
    BY <1>1, <2>1, ChildChild, ChildResult
  <2>5. QED
    BY <2>2, <2>3, <2>4 DEF GatherInv
<1>5. CASE \E p \in Parent : ParentStep(p)
  <2>1. PICK p \in Parent : ParentStep(p)
    BY <1>5
  <2>2. TypeInv' /\ PhaseInv' /\ StackInv'
    BY <1>1, <2>1, ParentTypes, OtherPhase, ParentStacked
  <2>3. QueueInv' /\ ListInv' /\ FrameInv'
    BY <1>1, <2>1, ParentQueue, ParentListed, ParentFrame
  <2>4. ChildInv' /\ ResultInv'
    BY <1>1, <2>1, ParentChild, ParentResult
  <2>5. QED
    BY <2>2, <2>3, <2>4 DEF GatherInv
<1>6. QED
  BY <1>2, <1>3, <1>4, <1>5 DEF Next

LEMMA InvNext == GatherInv /\ [Next]_vars => GatherInv'
<1> SUFFICES ASSUME GatherInv, [Next]_vars PROVE GatherInv'
  OBVIOUS
<1>1. CASE Next
  BY <1>1, InvStep
<1>2. CASE UNCHANGED vars
  <2>1. /\ UNCHANGED <<stack, queue, pc, listVars, bodyVars, refVars>>
        /\ UNCHANGED <<mode, need, sharing, val, stateVars, order>>
    BY <1>2 DEF vars, sharedVars, gatherVars, listVars, bodyVars, refVars
  <2>2. TypeInv /\ PhaseInv /\ StackInv /\ QueueInv /\ ListInv /\ FrameInv /\ ChildInv /\ ResultInv
    BY DEF GatherInv
  <2>3. TypeInv'
    <3>1. Typed' /\ Placed(pc)'
      BY <2>1, <2>2 DEF TypeInv, Typed, Placed
    <3>2. held' = held
      BY <2>1 DEF refVars
    <3>3. QED
      BY <2>1, <2>2, <3>1, <3>2, TypesNext, ShapesSame, TalliesSame, CallsSame
  <2>4. PhaseInv' /\ StackInv'
    BY <2>1, <2>2, PhaseCalm DEF StackInv, Runs, bodyVars
  <2>5. QueueInv' /\ ListInv'
    <3>1. QueueInv'
      BY <2>1, <2>2, QueueCalm DEF Due, bodyVars
    <3>2. ListInv'
      BY <2>1, <2>2, SameQueued, Given, OtherListed
    <3>3. QED
      BY <3>1, <3>2
  <2>6. FrameInv'
    BY <2>1, <2>2, OtherFrame
  <2>7. ChildInv'
    <3>1. ASSUME NEW c \in Waiter
          PROVE  ChildTrue(c)'
      <4>1. \A p \in Parent : In(c, order[p]) <=> In(c, order[p])'
        BY <2>1 DEF In
      <4>2. QED
        BY <2>1, <2>2, <4>1, Given, ChildParts, ChildStays
    <3>2. QED
      BY <3>1, ChildNext
  <2>8. ResultInv'
    BY <2>1, <2>2, CalmResult DEF AsBefore
  <2>9. QED
    BY <2>3, <2>4, <2>5, <2>6, <2>7, <2>8 DEF GatherInv
<1>3. QED
  BY <1>1, <1>2

\* Whatever is checked of the shared task, its children and their parents
\* rests on this invariant, which holds in every behaviour.
THEOREM Gathered == Spec => []GatherInv
<1>1. GatherInit => GatherInv
  BY InvInit
<1>2. GatherInv /\ [Next]_vars => GatherInv'
  BY InvNext
<1>3. QED
  BY <1>1, <1>2, PTL DEF Spec

\* when_all, when_any and when_some: the parent is resumed once, and takes
\* what its children completed first, in the order they did.
THEOREM TakenInOrder == Spec => []ResultsRight
<1>1. ASSUME GatherInv
      PROVE  ResultsRight
  <2>1. TypeInv /\ ChildInv /\ ResultInv
    BY <1>1 DEF GatherInv
  <2>2. ASSUME NEW p \in Parent, pc[p] = "resume"
        PROVE  p \in awaiting /\ taken[p] = <<>>
    BY <2>1, <2>2 DEF ResultInv
  <2>3. ASSUME NEW p \in Parent, pc[p] \in {"finish", "over"}
        PROVE  /\ taken[p] = SubSeq(order[p], 1, Least(p))
               /\ \A c \in ToSet(taken[p]) : val[c] = "value"
    <3>1. ResultTrue(p) /\ Least(p) \in Nat /\ order[p] \in Seq(Waiter) /\ Len(order[p]) \in Nat
          /\ Cardinality(Children(p)) \in Nat
      BY <2>1, ResultParts, ChildrenCounted
    <3>2. taken[p] = SubSeq(order[p], 1, Least(p)) /\ pc[p] \in After
      BY <2>3, <3>1 DEF ResultTrue, After
    <3>3. Least(p) <= Len(order[p])
      <4>1. CASE mode[p] = "all"
        <5>1. Least(p) = Cardinality(Children(p))
          BY <2>1, <4>1, ChildrenCounted
        <5>2. remaining[p] = 0 /\ remaining[p] = Cardinality(Children(p)) - Len(order[p])
          BY <3>1, <3>2, <4>1 DEF ResultTrue
        <5>3. QED
          BY <3>1, <5>1, <5>2
      <4>2. CASE mode[p] # "all"
        <5>1. Len(order[p]) >= Least(p)
          BY <3>1, <3>2, <4>2 DEF ResultTrue
        <5>2. QED
          BY <3>1, <5>1
      <4>3. QED
        BY <4>1, <4>2
    <3>4. Least(p) \in 0..Len(order[p])
      BY <3>1, <3>3
    <3>5. taken[p] \in Seq(Waiter) /\ \A c : In(c, taken[p]) => In(c, order[p])
      BY <3>1, <3>2, <3>4, Prefix
    <3>6. \A c \in ToSet(taken[p]) : In(c, taken[p])
      BY <3>5, Indices
    <3>7. \A c : In(c, order[p]) => c \in Waiter
      BY <3>1, Indices DEF In
    <3>8. \A c \in Waiter : In(c, order[p]) => val[c] = "value"
      BY <2>1 DEF ChildInv
    <3>9. QED
      BY <3>2, <3>5, <3>6, <3>7, <3>8
  <2>4. QED
    BY <2>2, <2>3 DEF ResultsRight, Least
<1>2. QED
  BY <1>1, Gathered, PTL

\* How often somebody is on a list on which nobody is twice.
LEMMA TimesOnce ==
  ASSUME NEW T, NEW s \in Seq(T), Distinct(s), NEW w
  PROVE  Times(s, w) = IF In(w, s) THEN 1 ELSE 0
<1>1. DOMAIN s = 1..Len(s)
  BY Indices
<1>2. CASE In(w, s)
  <2>1. PICK i \in 1..Len(s) : s[i] = w
    BY <1>2 DEF In
  <2>2. {j \in DOMAIN s : s[j] = w} = {i}
    BY <1>1, <2>1 DEF Distinct
  <2>3. Cardinality({i}) = 1
    BY FS_Singleton
  <2>4. QED
    BY <1>2, <2>2, <2>3 DEF Times
<1>3. CASE ~In(w, s)
  <2>1. {j \in DOMAIN s : s[j] = w} = {}
    BY <1>1, <1>3 DEF In
  <2>2. QED
    BY <1>3, <2>1, FS_EmptySet DEF Times
<1>4. QED
  BY <1>2, <1>3

LEMMA SharedKept ==
  ASSUME GatherInv
  PROVE  WaitersKept
<1>1. TypeInv /\ PhaseInv /\ QueueInv /\ ListInv /\ FrameInv
  BY DEF GatherInv
<1>2. SharedTypeOK
  <2>1. DOMAIN pc \cup {Shared} = Coroutine
    BY <1>1 DEF TypeInv, Coroutine
  <2>2. refs \in Nat
    <3>1. refs = Cardinality(Users) + HeldOne /\ Cardinality(Users) \in Nat /\ HeldOne \in Nat
      BY <1>1, FrameParts, UsersCounted DEF HeldOne
    <3>2. QED
      BY <3>1
  <2>3. QED
    BY <1>1, <2>1, <2>2 DEF TypeInv, SharedTypeOK, Outcome
<1>3. Unposted \in Seq(Waiter)
  <2>1. cursor # <<>> => hand # <<>>
    BY <1>1, CursorHead
  <2>2. hand # <<>> => Tail(hand) \in Seq(Waiter)
    BY <1>1, Split DEF TypeInv
  <2>3. QED
    BY <1>1, <2>1, <2>2 DEF Unposted, TypeInv
<1>4. waiters \in Seq(Waiter) /\ Distinct(waiters) /\ Distinct(Unposted)
  BY <1>1 DEF TypeInv, ListInv
<1>5. Apart(waiters, Unposted)
  <2>1. \A h : In(h, waiters) => h \in Waiter
    BY <1>4, Indices DEF In
  <2>2. QED
    BY <1>1, <2>1 DEF Apart, ListInv
<1> DEFINE s == waiters \o Unposted
<1>6. /\ s \in Seq(Waiter) /\ Distinct(s)
      /\ \A h : In(h, s) <=> In(h, waiters) \/ In(h, Unposted)
  BY <1>3, <1>4, <1>5, Joined
<1> HIDE DEF s
<1>7. ASSUME NEW w \in Waiter
      PROVE  Times(s, w) + (IF pc[w] = "waiting" THEN Times(queue[home[w]], w) ELSE 0)
                 = IF pc[w] = "waiting" THEN 1 ELSE 0
  <2>1. Listed(w)
    BY <1>1, ListParts
  <2>2. Times(s, w) = IF In(w, s) THEN 1 ELSE 0
    BY <1>6, TimesOnce
  <2>3. queue[home[w]] \in Seq(Coroutine) /\ Distinct(queue[home[w]])
    BY <1>1, Given DEF TypeInv, QueueInv
  <2>4. Times(queue[home[w]], w) = IF In(w, queue[home[w]]) THEN 1 ELSE 0
    BY <2>3, TimesOnce
  <2>5. CASE pc[w] = "waiting"
    <3>1. (In(w, s) /\ ~In(w, queue[home[w]])) \/ (~In(w, s) /\ In(w, queue[home[w]]))
      BY <1>6, <2>1, <2>5 DEF Listed
    <3>2. QED
      BY <2>2, <2>4, <2>5, <3>1
  <2>6. CASE pc[w] # "waiting"
    <3>1. ~In(w, s)
      BY <1>6, <2>1, <2>6 DEF Listed
    <3>2. QED
      BY <2>2, <2>6, <3>1
  <2>7. QED
    BY <2>5, <2>6
<1>8. \A w \in Waiter : pc[w] = "resume" => outcome # "none"
  BY <1>1, PhaseParts DEF ListInv
<1>9. phase # "started" => waiters = <<>>
  BY <1>1, PhaseParts
<1>10. QED
  BY <1>2, <1>7, <1>8, <1>9 DEF WaitersKept, s

LEMMA SharedAlive ==
  ASSUME GatherInv
  PROVE  FrameAlive({c \in sharing : pc[c] # "over"})
<1>1. TypeInv /\ PhaseInv /\ ListInv /\ FrameInv
  BY DEF GatherInv
<1>2. refs = Cardinality(Users) + (IF held THEN 1 ELSE 0) /\ \A w \in late : home[w] # bodyOn
  BY <1>1 DEF FrameInv
<1>3. ASSUME refs = 0
      PROVE  body \in {"initial", "final", "done"} /\ waiters \o Unposted = <<>>
  <2>1. Users = {}
    <3>1. IsFiniteSet(Users) /\ Cardinality(Users) \in Nat
      BY <1>1, UsersCounted
    <3>2. Cardinality(Users) = 0
      BY <1>2, <1>3, <3>1
    <3>3. QED
      BY <3>1, <3>2, FS_EmptySet
  <2>2. \A w \in sharing : pc[w] = "over"
    BY <2>1 DEF Users
  <2>3. \A w \in Waiter : ~In(w, waiters) /\ ~In(w, Unposted)
    BY <1>1, <2>2 DEF ListInv, Asking
  <2>4. \A w \in sharing : w \in Waiter
    BY <1>1 DEF TypeInv
  <2>5. phase # "started"
    BY <1>1, <2>2, <2>3, <2>4, PhaseParts DEF Attended
  <2>6. body \in {"initial", "final", "done"}
    BY <1>1, <2>5, PhaseParts DEF TypeInv
  <2>7. waiters = <<>>
    BY <1>1, <2>5, PhaseParts
  <2>8. Unposted = <<>>
    <3>1. Unposted \in Seq(Waiter)
      <4>1. cursor # <<>> => hand # <<>>
        BY <1>1, CursorHead
      <4>2. hand # <<>> => Tail(hand) \in Seq(Waiter)
        BY <1>1, Split DEF TypeInv
      <4>3. QED
        BY <1>1, <4>1, <4>2 DEF Unposted, TypeInv
    <3>2. Unposted # <<>> => Head(Unposted) \in Waiter /\ In(Head(Unposted), Unposted)
      BY <3>1, Split
    <3>3. QED
      BY <2>3, <3>2
  <2>9. waiters \o Unposted = <<>>
    BY <2>7, <2>8
  <2>10. QED
    BY <2>6, <2>9
<1>4. QED
  BY <1>2, <1>3 DEF FrameAlive, Users

\* shared_task: no waiter is lost, resumed twice or resumed too early, and the
\* frame lives exactly as long as somebody uses it; a waiter that may be gone
\* is read only across io_contexts.
THEOREM SharedKeeps == Spec => []SharedSound
<1>1. GatherInv => SharedSound
  BY SharedKept, SharedAlive DEF SharedSound
<1>2. QED
  BY <1>1, Gathered, PTL

-----------------------------------------------------------------------------
(* Sockets and acceptors: the inductive invariant.                          *)

\* No descriptor is on s twice.
DistinctFds(s) == \A i, j \in 1..Len(s) : s[i] = s[j] /\ s[i] \in Fd => i = j

\* What an object or a close may hold.
Held == Fd \cup {Invalid, Errno}

SockTypes ==
    /\ type \in [Object -> {"none", "building", "plain", "tls"}]
    /\ sockfd_ \in [Object -> Held]
    /\ ssl_ \in [Object -> Session \cup {Invalid}]
    /\ closed_ \subseteq Object /\ busy \subseteq Object
    /\ closing \in Seq(Held)
    /\ others \subseteq open /\ open \subseteq Fd
    /\ sessions \subseteq Session

\* What an object has, by what it is.
PhasesTrue ==
    \A o \in Object :
        /\ type[o] = "none" => sockfd_[o] = Invalid /\ o \notin closed_
        /\ type[o] # "tls" => ssl_[o] = Invalid /\ o \notin busy
        /\ type[o] = "tls" /\ ssl_[o] = Invalid => o \in closed_

\* An open descriptor that is not the others' has one place, among the objects or
\* among the closes, and these hold no other.
FdsOwned ==
    /\ \A o \in Object : sockfd_[o] \in Fd => /\ sockfd_[o] \in open \ others
                                              /\ ~In(sockfd_[o], closing)
    /\ \A o, p \in Object : sockfd_[o] = sockfd_[p] /\ sockfd_[o] \in Fd => o = p
    /\ \A f \in Fd : In(f, closing) => f \in open \ others
    /\ DistinctFds(closing)
    /\ \A f \in open \ others : In(f, closing) \/ \E o \in Object : sockfd_[o] = f

\* A session that is allocated is one object's.
SessionsOwned ==
    /\ \A o \in Object : ssl_[o] # Invalid => ssl_[o] \in sessions
    /\ \A o, p \in Object : ssl_[o] = ssl_[p] /\ ssl_[o] # Invalid => o = p
    /\ \A s \in sessions : \E o \in Object : ssl_[o] = s

SockInv == SockTypes /\ PhasesTrue /\ FdsOwned /\ SessionsOwned

-----------------------------------------------------------------------------
(* The queue of closes.                                                     *)

\* What a close that is added adds.
LEMMA CloseAdded ==
  ASSUME NEW s \in Seq(Held), NEW h \in Held
  PROVE  /\ Append(s, h) \in Seq(Held)
         /\ \A f \in Fd : In(f, Append(s, h)) <=> In(f, s) \/ f = h
         /\ DistinctFds(s) /\ (h \in Fd => ~In(h, s)) => DistinctFds(Append(s, h))
<1> DEFINE t == Append(s, h)
<1>1. /\ t \in Seq(Held) /\ Len(t) = Len(s) + 1 /\ Len(s) \in Nat
      /\ \A i \in 1..Len(s) : t[i] = s[i]
      /\ t[Len(s) + 1] = h
  BY AppendProperties, LenProperties
<1> HIDE DEF t
<1>2. ASSUME NEW f \in Fd
      PROVE  In(f, t) <=> In(f, s) \/ f = h
  BY <1>1 DEF In
<1>3. ASSUME DistinctFds(s), h \in Fd => ~In(h, s)
      PROVE  DistinctFds(t)
  BY <1>1, <1>3 DEF In, DistinctFds
<1>4. QED
  BY <1>1, <1>2, <1>3 DEF t

\* Where the closes are once one of them is performed.
LEMMA RemoveAtPlaces ==
  ASSUME NEW s \in Seq(Held), NEW n \in 1..Len(s)
  PROVE  /\ RemoveAt(s, n) \in Seq(Held)
         /\ Len(s) \in Nat /\ Len(RemoveAt(s, n)) = Len(s) - 1
         /\ \A i \in 1..(Len(s) - 1) : RemoveAt(s, n)[i] = s[IF i < n THEN i ELSE i + 1]
<1> DEFINE a == SubSeq(s, 1, n - 1)
           b == SubSeq(s, n + 1, Len(s))
<1>1. Len(s) \in Nat /\ n \in Nat /\ n >= 1 /\ n <= Len(s)
  BY LenProperties
<1>2. /\ a \in Seq(Held) /\ Len(a) = n - 1
      /\ \A i \in 1..(n - 1) : a[i] = s[i]
  <2>1. 1 \in Int /\ n - 1 \in Int /\ \A i \in 1..(n - 1) : s[i] \in Held
    BY <1>1, ElementOfSeq
  <2>2. /\ a \in Seq(Held)
        /\ Len(a) = IF 1 <= n - 1 THEN (n - 1) - 1 + 1 ELSE 0
        /\ \A i \in 1..((n - 1) - 1 + 1) : a[i] = s[1 + i - 1]
    BY <2>1, SubSeqProperties
  <2> HIDE DEF a
  <2>3. QED
    BY <1>1, <2>2
<1>3. /\ b \in Seq(Held) /\ Len(b) = Len(s) - n
      /\ \A i \in 1..(Len(s) - n) : b[i] = s[n + i]
  <2>1. n + 1 \in Int /\ Len(s) \in Int /\ \A i \in (n + 1)..Len(s) : s[i] \in Held
    BY <1>1, ElementOfSeq
  <2>2. /\ b \in Seq(Held)
        /\ Len(b) = IF n + 1 <= Len(s) THEN Len(s) - (n + 1) + 1 ELSE 0
        /\ \A i \in 1..(Len(s) - (n + 1) + 1) : b[i] = s[(n + 1) + i - 1]
    BY <2>1, SubSeqProperties
  <2> HIDE DEF b
  <2>3. QED
    BY <1>1, <2>2
<1> HIDE DEF a, b
<1>4. a \in Seq(Held) /\ b \in Seq(Held)
  BY <1>2, <1>3
<1> DEFINE t == a \o b
<1>5. /\ t \in Seq(Held) /\ Len(t) = Len(a) + Len(b)
      /\ \A i \in 1..(Len(a) + Len(b)) : t[i] = IF i <= Len(a) THEN a[i] ELSE b[i - Len(a)]
  BY <1>4, ConcatProperties
<1> HIDE DEF t
<1>6. Len(t) = Len(s) - 1
  BY <1>1, <1>2, <1>3, <1>5
<1>7. ASSUME NEW i \in 1..(Len(s) - 1)
      PROVE  t[i] = s[IF i < n THEN i ELSE i + 1]
  <2>1. CASE i < n
    <3>1. i \in 1..(n - 1) /\ i <= Len(a) /\ i \in 1..(Len(a) + Len(b))
      BY <1>1, <1>2, <1>3, <2>1
    <3>2. QED
      BY <1>2, <1>5, <2>1, <3>1
  <2>2. CASE ~(i < n)
    <3>1. /\ i - Len(a) \in 1..(Len(s) - n) /\ ~(i <= Len(a))
          /\ i \in 1..(Len(a) + Len(b)) /\ n + (i - Len(a)) = i + 1
      BY <1>1, <1>2, <1>3, <2>2
    <3>2. t[i] = b[i - Len(a)]
      BY <1>5, <3>1
    <3>3. b[i - Len(a)] = s[n + (i - Len(a))]
      BY <1>3, <3>1
    <3>4. QED
      BY <2>2, <3>1, <3>2, <3>3
  <2>3. QED
    BY <2>1, <2>2
<1>8. t = RemoveAt(s, n)
  BY DEF t, a, b, RemoveAt
<1>9. QED
  BY <1>1, <1>5, <1>6, <1>7, <1>8

\* What a close that is performed takes with it.
LEMMA CloseTaken ==
  ASSUME NEW s \in Seq(Held), NEW n \in 1..Len(s), DistinctFds(s)
  PROVE  /\ RemoveAt(s, n) \in Seq(Held)
         /\ s[n] \in Held /\ In(s[n], s)
         /\ \A f \in Fd : In(f, RemoveAt(s, n)) <=> In(f, s) /\ f # s[n]
         /\ DistinctFds(RemoveAt(s, n))
<1> DEFINE t == RemoveAt(s, n)
           from(i) == IF i < n THEN i ELSE i + 1
<1>1. /\ t \in Seq(Held) /\ Len(s) \in Nat /\ Len(t) = Len(s) - 1
      /\ \A i \in 1..Len(t) : t[i] = s[from(i)]
  BY RemoveAtPlaces
<1> HIDE DEF t
<1>2. ASSUME NEW i \in 1..Len(t)
      PROVE  from(i) \in 1..Len(s) /\ from(i) # n
  BY <1>1
<1>3. ASSUME NEW i \in 1..Len(t), NEW j \in 1..Len(t), from(i) = from(j)
      PROVE  i = j
  BY <1>1, <1>3
<1>4. ASSUME NEW j \in 1..Len(s), j # n
      PROVE  \E i \in 1..Len(t) : from(i) = j
  <2>1. CASE j < n
    <3>1. j \in 1..Len(t) /\ from(j) = j
      BY <1>1, <2>1
    <3>2. QED
      BY <3>1
  <2>2. CASE ~(j < n)
    <3>1. j - 1 \in 1..Len(t) /\ from(j - 1) = j
      BY <1>1, <1>4, <2>2
    <3>2. QED
      BY <3>1
  <2>3. QED
    BY <2>1, <2>2
<1> HIDE DEF from
<1>5. s[n] \in Held /\ In(s[n], s)
  BY ElementOfSeq DEF In
<1>6. ASSUME NEW f \in Fd, In(f, t)
      PROVE  In(f, s) /\ f # s[n]
  <2>1. PICK i \in 1..Len(t) : t[i] = f
    BY <1>6 DEF In
  <2>2. from(i) \in 1..Len(s) /\ s[from(i)] = f /\ from(i) # n
    BY <1>1, <1>2, <2>1
  <2>3. QED
    BY <1>6, <2>2 DEF In, DistinctFds
<1>7. ASSUME NEW f \in Fd, In(f, s), f # s[n]
      PROVE  In(f, t)
  <2>1. PICK j \in 1..Len(s) : s[j] = f
    BY <1>7 DEF In
  <2>2. PICK i \in 1..Len(t) : from(i) = j
    BY <1>4, <1>7, <2>1
  <2>3. QED
    BY <1>1, <2>1, <2>2 DEF In
<1>8. DistinctFds(t)
  <2> SUFFICES ASSUME NEW i \in 1..Len(t), NEW j \in 1..Len(t), t[i] = t[j], t[i] \in Fd
               PROVE  i = j
    BY DEF DistinctFds
  <2>1. s[from(i)] = s[from(j)] /\ s[from(i)] \in Fd
    BY <1>1
  <2>2. from(i) = from(j)
    BY <1>2, <2>1 DEF DistinctFds
  <2>3. QED
    BY <1>3, <2>2
<1>9. QED
  BY <1>1, <1>5, <1>6, <1>7, <1>8 DEF t

-----------------------------------------------------------------------------
(* The descriptors.                                                         *)

\* close(2) of f, if it is a descriptor at all.
LEMMA ClosedFd ==
  ASSUME SockTypes, NEW f, Closes(f)
  PROVE  /\ others' \subseteq open' /\ open' \subseteq Fd
         /\ \A g \in Fd : g \in open' \ others' <=> g \in open \ others /\ g # f
BY DEF SockTypes, Closes

\* Object o drops what it has, and takes what p has.
LEMMA FdMoved ==
  ASSUME SockTypes, FdsOwned, NEW o \in Object, NEW p \in Object, o # p,
         Closes(sockfd_[o]), UNCHANGED closing,
         sockfd_' = [sockfd_ EXCEPT ![p] = Invalid, ![o] = sockfd_[p]]
  PROVE  FdsOwned'
<1> USE SocketAssumption
<1>1. /\ sockfd_'[o] = sockfd_[p] /\ sockfd_'[p] = Invalid
      /\ \A q \in Object : q \notin {o, p} => sockfd_'[q] = sockfd_[q]
  BY DEF SockTypes
<1>2. Invalid \notin Fd
  OBVIOUS
<1>3. \A g \in Fd : g \in open' \ others' <=> g \in open \ others /\ g # sockfd_[o]
  BY ClosedFd
<1>4. \A q \in Object : sockfd_'[q] \in Fd =>
         \E r \in Object : r # o /\ sockfd_[r] = sockfd_'[q] /\ (r = q \/ (r = p /\ q = o))
  BY <1>1, <1>2
<1>5. ASSUME NEW q \in Object, sockfd_'[q] \in Fd
      PROVE  sockfd_'[q] \in open' \ others' /\ ~In(sockfd_'[q], closing')
  <2>1. PICK r \in Object : r # o /\ sockfd_[r] = sockfd_'[q]
    BY <1>4, <1>5
  <2>2. sockfd_[r] # sockfd_[o]
    BY <1>5, <2>1 DEF FdsOwned
  <2>3. QED
    BY <1>3, <1>5, <2>1, <2>2 DEF FdsOwned
<1>6. ASSUME NEW q \in Object, NEW r \in Object, sockfd_'[q] = sockfd_'[r], sockfd_'[q] \in Fd
      PROVE  q = r
  BY <1>1, <1>2, <1>6 DEF FdsOwned
<1>7. ASSUME NEW f \in Fd, In(f, closing')
      PROVE  f \in open' \ others'
  BY <1>3, <1>7 DEF FdsOwned
<1>8. ASSUME NEW f \in open' \ others'
      PROVE  In(f, closing') \/ \E q \in Object : sockfd_'[q] = f
  <2>1. f \in Fd /\ f \in open \ others /\ f # sockfd_[o]
    BY <1>3, ClosedFd
  <2>2. CASE In(f, closing)
    BY <2>2
  <2>3. ASSUME NEW q \in Object, sockfd_[q] = f
        PROVE  \E r \in Object : sockfd_'[r] = f
    BY <1>1, <2>1, <2>3
  <2>4. QED
    BY <2>1, <2>2, <2>3 DEF FdsOwned
<1>9. QED
  BY <1>5, <1>6, <1>7, <1>8 DEF FdsOwned

\* Object o drops what it has.
LEMMA FdDropped ==
  ASSUME SockTypes, FdsOwned, NEW o \in Object,
         Closes(sockfd_[o]), UNCHANGED closing,
         sockfd_' = [sockfd_ EXCEPT ![o] = Invalid]
  PROVE  FdsOwned'
<1> USE SocketAssumption
<1>1. /\ sockfd_'[o] = Invalid
      /\ \A q \in Object : q # o => sockfd_'[q] = sockfd_[q]
  BY DEF SockTypes
<1>2. \A g \in Fd : g \in open' \ others' <=> g \in open \ others /\ g # sockfd_[o]
  BY ClosedFd
<1>3. ASSUME NEW q \in Object, sockfd_'[q] \in Fd
      PROVE  sockfd_'[q] \in open' \ others' /\ ~In(sockfd_'[q], closing')
  <2>1. q # o /\ sockfd_'[q] = sockfd_[q]
    BY <1>1, <1>3
  <2>2. sockfd_[q] # sockfd_[o]
    BY <1>3, <2>1 DEF FdsOwned
  <2>3. QED
    BY <1>2, <1>3, <2>1, <2>2 DEF FdsOwned
<1>4. ASSUME NEW q \in Object, NEW r \in Object, sockfd_'[q] = sockfd_'[r], sockfd_'[q] \in Fd
      PROVE  q = r
  BY <1>1, <1>4 DEF FdsOwned
<1>5. ASSUME NEW f \in Fd, In(f, closing')
      PROVE  f \in open' \ others'
  BY <1>2, <1>5 DEF FdsOwned
<1>6. ASSUME NEW f \in open' \ others'
      PROVE  In(f, closing') \/ \E q \in Object : sockfd_'[q] = f
  <2>1. f \in Fd /\ f \in open \ others /\ f # sockfd_[o]
    BY <1>2, ClosedFd
  <2>2. CASE In(f, closing)
    BY <2>2
  <2>3. ASSUME NEW q \in Object, sockfd_[q] = f
        PROVE  \E r \in Object : sockfd_'[r] = f
    BY <1>1, <2>1, <2>3
  <2>4. QED
    BY <2>1, <2>2, <2>3 DEF FdsOwned
<1>7. QED
  BY <1>3, <1>4, <1>5, <1>6 DEF FdsOwned

\* Object o, which has no descriptor, takes one that was not open.
LEMMA FdTaken ==
  ASSUME SockTypes, FdsOwned, NEW o \in Object, NEW f \in Fd \ open,
         sockfd_[o] = Invalid,
         open' = open \cup {f}, UNCHANGED <<closing, others>>,
         sockfd_' = [sockfd_ EXCEPT ![o] = f]
  PROVE  FdsOwned'
<1> USE SocketAssumption
<1>1. /\ sockfd_'[o] = f
      /\ \A q \in Object : q # o => sockfd_'[q] = sockfd_[q]
  BY DEF SockTypes
<1>2. f \in open' \ others' /\ ~In(f, closing) /\ \A q \in Object : sockfd_[q] # f
  BY DEF FdsOwned, SockTypes
<1>3. ASSUME NEW g \in open' \ others'
      PROVE  In(g, closing') \/ \E q \in Object : sockfd_'[q] = g
  <2>1. CASE g = f
    BY <1>1, <2>1
  <2>2. CASE g # f /\ In(g, closing)
    BY <2>2
  <2>3. ASSUME NEW q \in Object, sockfd_[q] = g, g # f
        PROVE  \E r \in Object : sockfd_'[r] = g
    <3>1. q # o
      BY <2>3 DEF SockTypes
    <3>2. QED
      BY <1>1, <2>3, <3>1
  <2>4. QED
    BY <2>1, <2>2, <2>3 DEF FdsOwned
<1>4. QED
  BY <1>1, <1>2, <1>3 DEF FdsOwned

\* Object o hands what it has to async::close.
LEMMA FdHanded ==
  ASSUME SockTypes, FdsOwned, NEW o \in Object, CloseCall(o), UNCHANGED <<open, others>>
  PROVE  FdsOwned' /\ closing' \in Seq(Held) /\ sockfd_' \in [Object -> Held]
<1> USE SocketAssumption
<1>1. /\ closing' = Append(closing, sockfd_[o])
      /\ sockfd_' = [sockfd_ EXCEPT ![o] = Invalid]
      /\ closing \in Seq(Held) /\ sockfd_[o] \in Held
  BY DEF CloseCall, Emptied, SockTypes
<1>2. /\ sockfd_'[o] = Invalid /\ sockfd_' \in [Object -> Held]
      /\ \A q \in Object : q # o => sockfd_'[q] = sockfd_[q]
  BY <1>1 DEF SockTypes, Held
<1>3. /\ closing' \in Seq(Held)
      /\ \A f \in Fd : In(f, closing') <=> In(f, closing) \/ f = sockfd_[o]
      /\ DistinctFds(closing')
  BY <1>1, CloseAdded DEF FdsOwned
<1>4. ASSUME NEW q \in Object, sockfd_'[q] \in Fd
      PROVE  sockfd_'[q] \in open' \ others' /\ ~In(sockfd_'[q], closing')
  <2>1. q # o /\ sockfd_'[q] = sockfd_[q]
    BY <1>2, <1>4
  <2>2. sockfd_[q] # sockfd_[o]
    BY <1>4, <2>1 DEF FdsOwned
  <2>3. QED
    BY <1>3, <1>4, <2>1, <2>2 DEF FdsOwned
<1>5. ASSUME NEW q \in Object, NEW r \in Object, sockfd_'[q] = sockfd_'[r], sockfd_'[q] \in Fd
      PROVE  q = r
  BY <1>2, <1>5 DEF FdsOwned
<1>6. ASSUME NEW f \in Fd, In(f, closing')
      PROVE  f \in open' \ others'
  BY <1>3, <1>6 DEF FdsOwned
<1>7. ASSUME NEW f \in open' \ others'
      PROVE  In(f, closing') \/ \E q \in Object : sockfd_'[q] = f
  <2>1. f \in Fd /\ f \in open \ others
    BY DEF SockTypes
  <2>2. CASE In(f, closing) \/ f = sockfd_[o]
    BY <1>3, <2>1, <2>2
  <2>3. ASSUME NEW q \in Object, sockfd_[q] = f, f # sockfd_[o]
        PROVE  \E r \in Object : sockfd_'[r] = f
    BY <1>2, <2>3
  <2>4. QED
    BY <2>1, <2>2, <2>3 DEF FdsOwned
<1>8. QED
  BY <1>2, <1>3, <1>4, <1>5, <1>6, <1>7 DEF FdsOwned

\* A close is performed.
LEMMA FdClosed ==
  ASSUME SockTypes, FdsOwned, PerformClose
  PROVE  FdsOwned' /\ SockTypes'
<1>1. PICK n \in 1..Len(closing) : /\ Closes(closing[n])
                                   /\ closing' = RemoveAt(closing, n)
                                   /\ UNCHANGED <<type, sockfd_, ssl_, closed_, busy, sessions>>
  <2>1. DOMAIN closing = 1..Len(closing)
    BY LenProperties DEF SockTypes
  <2>2. QED
    BY <2>1 DEF PerformClose
<1>2. /\ closing' \in Seq(Held) /\ In(closing[n], closing)
      /\ \A f \in Fd : In(f, closing') <=> In(f, closing) /\ f # closing[n]
      /\ DistinctFds(closing')
  BY <1>1, CloseTaken DEF SockTypes, FdsOwned
<1>3. /\ others' \subseteq open' /\ open' \subseteq Fd
      /\ \A g \in Fd : g \in open' \ others' <=> g \in open \ others /\ g # closing[n]
  BY <1>1, ClosedFd
<1>4. SockTypes'
  BY <1>1, <1>2, <1>3 DEF SockTypes
<1>5. FdsOwned'
  BY <1>1, <1>2, <1>3 DEF FdsOwned
<1>6. QED
  BY <1>4, <1>5

\* The rest of the process opens a descriptor, and closes one of its own.
LEMMA FdOthers ==
  ASSUME SockTypes, FdsOwned, OtherOpens \/ OtherCloses
  PROVE  FdsOwned' /\ SockTypes'
<1>1. CASE OtherOpens
  <2>1. PICK f \in Fd \ open : /\ open' = open \cup {f} /\ others' = others \cup {f}
                               /\ UNCHANGED <<type, sockfd_, ssl_, closed_, busy, closing, sessions>>
    BY <1>1 DEF OtherOpens
  <2>2. open' \ others' = open \ others /\ others' \subseteq open' /\ open' \subseteq Fd
    BY <2>1 DEF SockTypes
  <2>3. QED
    BY <2>1, <2>2 DEF SockTypes, FdsOwned
<1>2. CASE OtherCloses
  <2>1. PICK f \in others : /\ open' = open \ {f} /\ others' = others \ {f}
                            /\ UNCHANGED <<type, sockfd_, ssl_, closed_, busy, closing, sessions>>
    BY <1>2 DEF OtherCloses, Closes
  <2>2. open' \ others' = open \ others /\ others' \subseteq open' /\ open' \subseteq Fd
    BY <2>1 DEF SockTypes
  <2>3. QED
    BY <2>1, <2>2 DEF SockTypes, FdsOwned
<1>3. QED
  BY <1>1, <1>2

-----------------------------------------------------------------------------
(* The sessions.                                                            *)

\* Object o frees its session, if it has one.
LEMMA SessionFreed ==
  ASSUME SockTypes, SessionsOwned, NEW o \in Object,
         sessions' = sessions \ {ssl_[o]},
         ssl_' = [ssl_ EXCEPT ![o] = Invalid]
  PROVE  SessionsOwned' /\ sessions' \subseteq Session
<1>1. /\ ssl_'[o] = Invalid
      /\ \A q \in Object : q # o => ssl_'[q] = ssl_[q]
      /\ Invalid \notin sessions
  BY SocketAssumption DEF SockTypes
<1>2. ASSUME NEW s \in sessions'
      PROVE  \E q \in Object : ssl_'[q] = s
  <2>1. PICK q \in Object : ssl_[q] = s
    BY <1>2 DEF SessionsOwned
  <2>2. q # o
    BY <1>2, <2>1
  <2>3. QED
    BY <1>1, <2>1, <2>2
<1>3. QED
  BY <1>1, <1>2 DEF SessionsOwned, SockTypes

\* Object o frees its session, if it has one, and takes that of p.
LEMMA SessionMoved ==
  ASSUME SockTypes, SessionsOwned, NEW o \in Object, NEW p \in Object, o # p,
         sessions' = sessions \ {ssl_[o]},
         ssl_' = [ssl_ EXCEPT ![o] = ssl_[p], ![p] = Invalid]
  PROVE  SessionsOwned' /\ sessions' \subseteq Session
<1>1. /\ ssl_'[o] = ssl_[p] /\ ssl_'[p] = Invalid
      /\ \A q \in Object : q \notin {o, p} => ssl_'[q] = ssl_[q]
      /\ Invalid \notin sessions
  BY SocketAssumption DEF SockTypes
<1>2. ASSUME NEW s \in sessions'
      PROVE  \E q \in Object : ssl_'[q] = s
  <2>1. PICK q \in Object : ssl_[q] = s
    BY <1>2 DEF SessionsOwned
  <2>2. q # o
    BY <1>2, <2>1
  <2>3. QED
    BY <1>1, <2>1, <2>2
<1>3. QED
  BY <1>1, <1>2 DEF SessionsOwned, SockTypes

-----------------------------------------------------------------------------
(* The steps.                                                               *)

\* The end of an object, by its destructor.
LEMMA ObjectEnds ==
  ASSUME SockInv, NEW o \in Object, Ends(o), Releases(o),
         UNCHANGED closing, busy' \subseteq busy, o \notin busy'
  PROVE  SockInv'
<1>1. /\ type' = [type EXCEPT ![o] = "none"]
      /\ sockfd_' = [sockfd_ EXCEPT ![o] = Invalid]
      /\ ssl_' = [ssl_ EXCEPT ![o] = Invalid]
      /\ closed_' = closed_ \ {o}
      /\ Closes(sockfd_[o]) /\ sessions' = sessions \ {ssl_[o]}
  BY DEF Ends, Releases
<1>2. FdsOwned' /\ SessionsOwned' /\ sessions' \subseteq Session
  BY <1>1, FdDropped, SessionFreed DEF SockInv
<1>3. SockTypes'
  BY <1>1, <1>2, ClosedFd DEF SockInv, SockTypes, Held
<1>4. PhasesTrue'
  BY <1>1 DEF SockInv, SockTypes, PhasesTrue
<1>5. QED
  BY <1>2, <1>3, <1>4 DEF SockInv

\* The descriptors are where they were.
LEMMA FdsFramed ==
  ASSUME FdsOwned, UNCHANGED <<sockfd_, closing, open, others>>
  PROVE  FdsOwned'
BY DEF FdsOwned

LEMMA SessionsFramed ==
  ASSUME SessionsOwned, UNCHANGED <<ssl_, sessions>>
  PROVE  SessionsOwned'
BY DEF SessionsOwned

LEMMA CreateStep ==
  ASSUME SockInv, NEW o \in Object, NEW as \in {"building", "plain"}, Create(o, as)
  PROVE  SockInv'
<1>1. PICK f \in Fd \ open : /\ open' = open \cup {f}
                             /\ sockfd_' = [sockfd_ EXCEPT ![o] = f]
  BY DEF Create
<1>2. /\ type[o] = "none" /\ type' = [type EXCEPT ![o] = as]
      /\ UNCHANGED <<ssl_, closed_, busy, closing, others, sessions>>
  BY DEF Create
<1>3. sockfd_[o] = Invalid /\ ssl_[o] = Invalid /\ o \notin busy
  BY <1>2 DEF SockInv, PhasesTrue
<1>4. FdsOwned' /\ SessionsOwned'
  BY <1>1, <1>2, <1>3, FdTaken, SessionsFramed DEF SockInv
<1>5. SockTypes'
  BY <1>1, <1>2 DEF SockInv, SockTypes, Held
<1>6. PhasesTrue'
  BY <1>1, <1>2, <1>3 DEF SockInv, SockTypes, PhasesTrue
<1>7. QED
  BY <1>4, <1>5, <1>6 DEF SockInv

LEMMA AcceptStep ==
  ASSUME SockInv, NEW o \in Object, NEW l \in Object, AcceptSocket(o, l)
  PROVE  SockInv'
<1>1. /\ type[o] = "none" /\ type' = [type EXCEPT ![o] = "plain"]
      /\ UNCHANGED <<ssl_, closed_, busy, closing, others, sessions>>
  BY DEF AcceptSocket
<1>2. sockfd_[o] = Invalid /\ ssl_[o] = Invalid /\ o \notin busy
  BY <1>1 DEF SockInv, PhasesTrue
<1>3. ASSUME NEW h \in Held, sockfd_' = [sockfd_ EXCEPT ![o] = h]
      PROVE  sockfd_' \in [Object -> Held] /\ PhasesTrue'
  BY <1>1, <1>2, <1>3 DEF SockInv, SockTypes, PhasesTrue
<1>4. ASSUME NEW f \in Fd \ open,
             open' = open \cup {f}, sockfd_' = [sockfd_ EXCEPT ![o] = f]
      PROVE  FdsOwned' /\ PhasesTrue' /\ SockTypes'
  <2>1. FdsOwned'
    BY <1>1, <1>2, <1>4, FdTaken DEF SockInv
  <2>2. sockfd_' \in [Object -> Held] /\ PhasesTrue'
    BY <1>3, <1>4 DEF Held
  <2>3. QED
    BY <1>1, <1>4, <2>1, <2>2 DEF SockInv, SockTypes
<1>5. ASSUME sockfd_' = [sockfd_ EXCEPT ![o] = Errno], UNCHANGED open
      PROVE  FdsOwned' /\ PhasesTrue' /\ SockTypes'
  <2>1. sockfd_' \in [Object -> Held] /\ PhasesTrue'
    BY <1>3, <1>5 DEF Held
  <2>2. /\ sockfd_'[o] = Errno /\ {Errno, Invalid} \cap Fd = {}
        /\ \A q \in Object : q # o => sockfd_'[q] = sockfd_[q]
    BY <1>5, SocketAssumption DEF SockInv, SockTypes
  <2>3. FdsOwned /\ UNCHANGED <<open, others, closing>> /\ sockfd_[o] \notin Fd
    BY <1>1, <1>2, <1>5, SocketAssumption DEF SockInv
  <2>4. ASSUME NEW q \in Object, sockfd_'[q] \in Fd
        PROVE  q # o /\ sockfd_'[q] = sockfd_[q]
    BY <2>2, <2>4
  <2>5. ASSUME NEW q \in Object, sockfd_'[q] \in Fd
        PROVE  sockfd_'[q] \in open' \ others' /\ ~In(sockfd_'[q], closing')
    BY <2>3, <2>4, <2>5 DEF FdsOwned
  <2>6. ASSUME NEW q \in Object, NEW r \in Object,
               sockfd_'[q] = sockfd_'[r], sockfd_'[q] \in Fd
        PROVE  q = r
    BY <2>3, <2>4, <2>6 DEF FdsOwned
  <2>7. ASSUME NEW f \in open' \ others'
        PROVE  In(f, closing') \/ \E q \in Object : sockfd_'[q] = f
    <3>1. f \in Fd /\ f \in open \ others
      BY <2>3 DEF SockInv, SockTypes
    <3>2. ASSUME NEW q \in Object, sockfd_[q] = f
          PROVE  sockfd_'[q] = f
      BY <2>2, <2>3, <3>1, <3>2
    <3>3. QED
      BY <2>3, <3>1, <3>2 DEF FdsOwned
  <2>8. DistinctFds(closing') /\ \A f \in Fd : In(f, closing') => f \in open' \ others'
    BY <2>3 DEF FdsOwned
  <2>9. FdsOwned'
    BY <2>5, <2>6, <2>7, <2>8 DEF FdsOwned
  <2>10. QED
    BY <1>1, <1>5, <2>1, <2>9 DEF SockInv, SockTypes
<1>6. QED
  BY <1>1, <1>4, <1>5, SessionsFramed DEF AcceptSocket, SockInv

LEMMA MoveConstructStep ==
  ASSUME SockInv, NEW o \in Object, NEW p \in Object, MoveConstruct(o, p)
  PROVE  SockInv'
<1>1. /\ type[o] = "none" /\ type[p] \in {"plain", "tls"} /\ p \notin busy
      /\ type' = [type EXCEPT ![o] = type[p]]
      /\ sockfd_' = [sockfd_ EXCEPT ![p] = Invalid, ![o] = sockfd_[p]]
      /\ ssl_' = [ssl_ EXCEPT ![o] = ssl_[p], ![p] = Invalid]
      /\ closed_' = {c \in closed_ : c # p} \cup {c \in {o} : p \in closed_}
                    \cup {c \in {p} : type[p] = "tls"}
      /\ UNCHANGED <<busy, closing, open, others, sessions>>
  BY DEF MoveConstruct, Usable, Emptied
<1>2. o # p /\ sockfd_[o] = Invalid /\ ssl_[o] = Invalid /\ o \notin busy /\ o \notin closed_
  BY <1>1 DEF SockInv, PhasesTrue
<1>3. Closes(sockfd_[o]) /\ sessions' = sessions \ {ssl_[o]}
  BY <1>1, <1>2, SocketAssumption DEF Closes, SockInv, SockTypes
<1>4. FdsOwned' /\ SessionsOwned'
  BY <1>1, <1>2, <1>3, FdMoved, SessionMoved DEF SockInv
<1>5. SockTypes'
  BY <1>1 DEF SockInv, SockTypes, Held
<1>6. PhasesTrue'
  BY <1>1, <1>2 DEF SockInv, SockTypes, PhasesTrue
<1>7. QED
  BY <1>4, <1>5, <1>6 DEF SockInv

LEMMA MoveAssignStep ==
  ASSUME SockInv, NEW o \in Object, NEW p \in Object, MoveAssign(o, p)
  PROVE  SockInv'
<1>1. /\ o # p /\ type[o] \in {"plain", "tls"} /\ type[o] = type[p]
      /\ Closes(sockfd_[o]) /\ sessions' = sessions \ {ssl_[o]}
      /\ sockfd_' = [sockfd_ EXCEPT ![p] = Invalid, ![o] = sockfd_[p]]
      /\ ssl_' = [ssl_ EXCEPT ![o] = ssl_[p], ![p] = Invalid]
      /\ closed_' = {c \in closed_ : c \notin {o, p}} \cup {c \in {o} : p \in closed_}
                    \cup {c \in {p} : type[p] = "tls"}
      /\ UNCHANGED <<type, busy, closing>>
  BY DEF MoveAssign, Usable, Emptied, Releases
<1>2. FdsOwned' /\ SessionsOwned' /\ sessions' \subseteq Session
  BY <1>1, FdMoved, SessionMoved DEF SockInv
<1>3. SockTypes'
  BY <1>1, <1>2, ClosedFd DEF SockInv, SockTypes, Held
<1>4. PhasesTrue'
  BY <1>1 DEF SockInv, SockTypes, PhasesTrue
<1>5. QED
  BY <1>2, <1>3, <1>4 DEF SockInv

LEMMA MakeTlsStep ==
  ASSUME SockInv, NEW o \in Object, NEW p \in Object, MakeTls(o, p)
  PROVE  SockInv'
<1>1. /\ type[o] = "none" /\ type[p] = "plain" /\ UNCHANGED <<closed_, closing>>
  BY DEF MakeTls, Usable
<1>2. o # p /\ sockfd_[o] = Invalid /\ ssl_[o] = Invalid /\ o \notin busy /\ o \notin closed_
  BY <1>1 DEF SockInv, PhasesTrue
<1>3. ASSUME NEW s \in Session \ sessions,
             sessions' = sessions \cup {s},
             type' = [type EXCEPT ![o] = "tls"],
             sockfd_' = [Emptied(sockfd_, p) EXCEPT ![o] = sockfd_[p]],
             ssl_' = [ssl_ EXCEPT ![o] = s],
             busy' = busy \cup {o},
             UNCHANGED <<open, others>>
      PROVE  SockInv'
  <2>1. sockfd_' = [sockfd_ EXCEPT ![p] = Invalid, ![o] = sockfd_[p]]
    BY <1>3 DEF Emptied
  <2>2. Closes(sockfd_[o])
    BY <1>2, <1>3, SocketAssumption DEF Closes, SockInv, SockTypes
  <2>3. FdsOwned'
    BY <1>1, <1>2, <2>1, <2>2, FdMoved DEF SockInv
  <2>4. /\ ssl_'[o] = s /\ s # Invalid /\ \A q \in Object : ssl_[q] # s
        /\ \A q \in Object : q # o => ssl_'[q] = ssl_[q]
    BY <1>3, SocketAssumption DEF SockInv, SockTypes, SessionsOwned
  <2>5. ASSUME NEW r \in sessions'
        PROVE  \E q \in Object : ssl_'[q] = r
    <3>1. CASE r = s
      BY <2>4, <3>1
    <3>2. CASE r # s
      <4>1. PICK q \in Object : ssl_[q] = r
        BY <1>3, <3>2 DEF SockInv, SessionsOwned
      <4>2. q # o
        BY <1>2, <1>3, <2>5, <3>2, <4>1, SocketAssumption DEF SockInv, SockTypes
      <4>3. QED
        BY <2>4, <4>1, <4>2
    <3>3. QED
      BY <3>1, <3>2
  <2>6. SessionsOwned'
    BY <1>2, <1>3, <2>4, <2>5 DEF SockInv, SessionsOwned
  <2>7. SockTypes'
    BY <1>1, <1>3, <2>1 DEF SockInv, SockTypes, Held
  <2>8. PhasesTrue'
    BY <1>1, <1>2, <1>3, <2>1, <2>4 DEF SockInv, SockTypes, PhasesTrue
  <2>9. QED
    BY <2>3, <2>6, <2>7, <2>8 DEF SockInv
<1>4. ASSUME Closes(sockfd_[p]), sockfd_' = Emptied(sockfd_, p),
             UNCHANGED <<type, ssl_, busy, sessions>>
      PROVE  SockInv'
  <2>1. sockfd_' = [sockfd_ EXCEPT ![p] = Invalid]
    BY <1>4 DEF Emptied
  <2>2. FdsOwned' /\ SessionsOwned'
    BY <1>1, <1>4, <2>1, FdDropped, SessionsFramed DEF SockInv
  <2>3. SockTypes'
    BY <1>1, <1>4, <2>1, ClosedFd DEF SockInv, SockTypes, Held
  <2>4. PhasesTrue'
    BY <1>1, <1>4, <2>1 DEF SockInv, SockTypes, PhasesTrue
  <2>5. QED
    BY <2>2, <2>3, <2>4 DEF SockInv
<1>5. QED
  BY <1>3, <1>4 DEF MakeTls

LEMMA CloseStep ==
  ASSUME SockInv, NEW o \in Object, Close(o) \/ TlsClosed(o)
  PROVE  SockInv'
<1>1. CloseCall(o) /\ UNCHANGED <<type, closed_, open, others>>
  BY DEF Close, TlsClosed
<1>2. FdsOwned' /\ closing' \in Seq(Held) /\ sockfd_' \in [Object -> Held]
  BY <1>1, FdHanded DEF SockInv
<1>3. /\ sockfd_' = [sockfd_ EXCEPT ![o] = Invalid]
      /\ type[o] \in {"plain", "tls"}
  BY <1>1 DEF CloseCall, Emptied, Close, TlsClosed, Usable, SockInv, SockTypes, PhasesTrue
<1>4. CASE Close(o)
  <2>1. UNCHANGED <<ssl_, busy, sessions>>
    BY <1>4 DEF Close
  <2>2. SessionsOwned' /\ SockTypes'
    BY <1>1, <1>2, <2>1, SessionsFramed DEF SockInv, SockTypes
  <2>3. PhasesTrue'
    BY <1>1, <1>3, <2>1 DEF SockInv, SockTypes, PhasesTrue
  <2>4. QED
    BY <1>2, <2>2, <2>3 DEF SockInv
<1>5. CASE TlsClosed(o)
  <2>1. /\ o \in busy /\ o \in closed_ /\ busy' = busy \ {o}
        /\ sessions' = sessions \ {ssl_[o]}
        /\ ssl_' = [ssl_ EXCEPT ![o] = Invalid]
    BY <1>5 DEF TlsClosed
  <2>2. SessionsOwned' /\ sessions' \subseteq Session
    BY <2>1, SessionFreed DEF SockInv
  <2>3. SockTypes'
    BY <1>1, <1>2, <2>1, <2>2 DEF SockInv, SockTypes
  <2>4. PhasesTrue'
    BY <1>1, <1>3, <2>1 DEF SockInv, SockTypes, PhasesTrue
  <2>5. QED
    BY <1>2, <2>2, <2>3, <2>4 DEF SockInv
<1>6. QED
  BY <1>4, <1>5

\* Who holds what does not change.
LEMMA QuietStep ==
  ASSUME SockInv, NEW o \in Object,
         Configured(o) \/ TlsClose(o)
         \/ (HandshakeEnds(o) /\ UNCHANGED <<type, sockfd_, ssl_, closed_, open, others, sessions>>)
  PROVE  SockInv'
<1>1. UNCHANGED <<sockfd_, ssl_, closing, open, others, sessions>>
  BY DEF Configured, TlsClose, HandshakeEnds
<1>2. FdsOwned' /\ SessionsOwned'
  BY <1>1, FdsFramed, SessionsFramed DEF SockInv
<1>3. SockTypes'
  BY <1>1 DEF SockInv, SockTypes, Configured, TlsClose, HandshakeEnds
<1>4. PhasesTrue'
  BY <1>1 DEF SockInv, SockTypes, PhasesTrue, Configured, TlsClose, HandshakeEnds, Usable
<1>5. QED
  BY <1>2, <1>3, <1>4 DEF SockInv

LEMMA SockInit == SocketsInit => SockInv
<1> SUFFICES ASSUME SocketsInit PROVE SockInv
  OBVIOUS
<1>1. SockTypes
  BY DEF SocketsInit, SockTypes, Held
<1>2. Invalid \notin Fd /\ Len(closing) = 0
  BY SocketAssumption DEF SocketsInit
<1>3. FdsOwned /\ SessionsOwned /\ PhasesTrue
  BY <1>2 DEF SocketsInit, FdsOwned, SessionsOwned, PhasesTrue, In, DistinctFds
<1>4. QED
  BY <1>1, <1>3 DEF SockInv

LEMMA SockNext == SockInv /\ [SocketsNext]_sockVars => SockInv'
<1> SUFFICES ASSUME SockInv, [SocketsNext]_sockVars
             PROVE  SockInv'
  OBVIOUS
<1>1. CASE UNCHANGED sockVars
  <2>1. FdsOwned' /\ SessionsOwned'
    BY <1>1, FdsFramed, SessionsFramed DEF sockVars, SockInv
  <2>2. SockTypes' /\ PhasesTrue'
    BY <1>1 DEF sockVars, SockInv, SockTypes, PhasesTrue
  <2>3. QED
    BY <2>1, <2>2 DEF SockInv
<1>2. ASSUME NEW o \in Object, SetterThrows(o) \/ Destroy(o)
      PROVE  SockInv'
  <2>1. Ends(o) /\ Releases(o) /\ UNCHANGED <<busy, closing>> /\ o \notin busy
    BY <1>2 DEF SetterThrows, Destroy, Usable, SockInv, PhasesTrue
  <2>2. QED
    BY <2>1, ObjectEnds
<1>3. ASSUME NEW o \in Object, HandshakeEnds(o)
      PROVE  SockInv'
  <2>1. CASE Ends(o) /\ Releases(o)
    <3>1. busy' = busy \ {o} /\ UNCHANGED closing
      BY <1>3 DEF HandshakeEnds
    <3>2. QED
      BY <2>1, <3>1, ObjectEnds
  <2>2. CASE UNCHANGED <<type, sockfd_, ssl_, closed_, open, others, sessions>>
    BY <1>3, <2>2, QuietStep
  <2>3. QED
    BY <1>3, <2>1, <2>2 DEF HandshakeEnds
<1>4. CASE PerformClose \/ OtherOpens \/ OtherCloses
  <2>1. FdsOwned' /\ SockTypes'
    BY <1>4, FdClosed, FdOthers DEF SockInv
  <2>2. UNCHANGED <<type, sockfd_, ssl_, closed_, busy, sessions>>
    BY <1>4 DEF PerformClose, OtherOpens, OtherCloses
  <2>3. SessionsOwned' /\ PhasesTrue'
    BY <2>2, SessionsFramed DEF SockInv, PhasesTrue
  <2>4. QED
    BY <2>1, <2>3 DEF SockInv
<1>5. QED
  BY <1>1, <1>2, <1>3, <1>4, CreateStep, AcceptStep, MoveConstructStep, MoveAssignStep,
     MakeTlsStep, CloseStep, QuietStep DEF SocketsNext

\* A descriptor that is open and not the others' is held once, by an object or by
\* a close on its way, and a session by one object, however sockets are moved,
\* assigned, closed and destroyed and however soon numbers are used again.
THEOREM Owned == SocketsSpec => []OwnedOnce
<1>1. SockInv => OwnedOnce
  <2> SUFFICES ASSUME SockInv PROVE OwnedOnce
    OBVIOUS
  <2>1. ASSUME NEW f \in Fd
        PROVE  Holders(f) = IF f \in open \ others THEN 1 ELSE 0
    <3> DEFINE O == {o \in Object : sockfd_[o] = f}
               C == {i \in DOMAIN closing : closing[i] = f}
    <3>1. DOMAIN closing = 1..Len(closing)
      BY LenProperties DEF SockInv, SockTypes
    <3>2. CASE \E o \in Object : sockfd_[o] = f
      <4>1. PICK o \in Object : sockfd_[o] = f
        BY <3>2
      <4>2. O = {o} /\ C = {} /\ f \in open \ others
        BY <3>1, <4>1 DEF SockInv, FdsOwned, In
      <4> HIDE DEF O, C
      <4>3. Cardinality(O) = 1 /\ Cardinality(C) = 0
        BY <4>2, FS_Singleton, FS_EmptySet
      <4>4. QED
        BY <4>2, <4>3 DEF Holders, O, C
    <3>3. CASE In(f, closing)
      <4>1. PICK i \in 1..Len(closing) : closing[i] = f
        BY <3>3 DEF In
      <4>2. O = {} /\ C = {i} /\ f \in open \ others
        BY <3>1, <3>3, <4>1 DEF SockInv, FdsOwned, DistinctFds
      <4> HIDE DEF O, C
      <4>3. Cardinality(O) = 0 /\ Cardinality(C) = 1
        BY <4>2, FS_Singleton, FS_EmptySet
      <4>4. QED
        BY <4>2, <4>3 DEF Holders, O, C
    <3>4. CASE ~In(f, closing) /\ \A o \in Object : sockfd_[o] # f
      <4>1. O = {} /\ C = {} /\ f \notin open \ others
        BY <3>1, <3>4 DEF SockInv, FdsOwned, In
      <4> HIDE DEF O, C
      <4>2. Cardinality(O) = 0 /\ Cardinality(C) = 0
        BY <4>1, FS_EmptySet
      <4>3. QED
        BY <4>1, <4>2 DEF Holders, O, C
    <3>5. QED
      BY <3>2, <3>3, <3>4
  <2>2. ASSUME NEW s \in Session
        PROVE  Cardinality({o \in Object : ssl_[o] = s}) = IF s \in sessions THEN 1 ELSE 0
    <3> DEFINE O == {o \in Object : ssl_[o] = s}
    <3>1. CASE s \in sessions
      <4>1. PICK o \in Object : ssl_[o] = s
        BY <3>1 DEF SockInv, SessionsOwned
      <4>2. O = {o}
        BY <4>1, SocketAssumption DEF SockInv, SessionsOwned
      <4>3. QED
        BY <3>1, <4>2, FS_Singleton
    <3>2. CASE s \notin sessions
      <4>1. O = {}
        BY <3>2, SocketAssumption DEF SockInv, SessionsOwned
      <4>2. QED
        BY <3>2, <4>1, FS_EmptySet
    <3>3. QED
      BY <3>1, <3>2
  <2>3. others \subseteq open /\ \A o \in Object : type[o] = "tls" /\ ssl_[o] = Invalid
                                                   => o \in closed_
    BY DEF SockInv, SockTypes, PhasesTrue
  <2>4. QED
    BY <2>1, <2>2, <2>3 DEF OwnedOnce
<1>2. QED
  BY <1>1, SockInit, SockNext, PTL DEF SocketsSpec

-----------------------------------------------------------------------------
(* Tasks: the inductive invariant.                                          *)

Pooling == Thread \cup {Main}
Promise == [at : Place, kind : Kind, parent : Frame \cup {Noop}, owner : Frame \cup {Noop},
            detached : BOOLEAN, result : {"mono", "value", "exception"}, on : Thread \cup {Main}]

\* c is under way, and h goes on when it ends.
Under(c, h) == fr[c].parent = h /\ fr[c].at \notin {"final", "heap", "pool"}

\* f is to be resumed by the loop of an io_context.
ToResume(f) == \/ fr[f].at = "woken"
               \/ fr[f].at = "initial" /\ fr[f].detached
               \/ fr[f].at = "await" /\ \A c \in Frame : ~Under(c, f)

\* A promise says what its coroutine has done.
PromiseInv ==
    /\ fr \in [Frame -> Promise] /\ got \in [Frame -> {"nothing", "value", "exception"}]
    /\ \A f \in Frame :
         /\ fr[f].at \in {"heap", "pool"} =>
               fr[f].parent = Noop /\ fr[f].owner = Noop /\ ~fr[f].detached
         /\ fr[f].at = "initial" => fr[f].parent = Noop
         /\ fr[f].at = "final" /\ fr[f].kind = "value" => fr[f].result # "mono"
         /\ fr[f].at = "parked" => fr[f].on \in Thread
         /\ fr[f].detached => fr[f].at # "final" /\ fr[f].kind = "void" /\ fr[f].parent = Noop

\* A task lives no longer than its owner, who waits for it while it is under way.
OwnerInv ==
    \A f \in Live :
        /\ fr[f].detached <=> fr[f].owner = Noop
        /\ fr[f].owner \in Frame => fr[f].owner \in Live
        /\ ~fr[f].detached /\ fr[f].at \notin {"initial", "final"} =>
              fr[f].parent = fr[f].owner /\ fr[fr[f].owner].at = "await"

ChainInv == \A h, c, d \in Frame : Under(c, h) /\ Under(d, h) => c = d

\* What runs is on one thread.
TurnInv ==
    /\ stack \in [Thread -> Seq(Frame)]
    /\ \A x \in Thread : stack[x] = <<>> \/ \E h \in Frame : stack[x] = <<h>> /\ fr[h].at = "run"
    /\ \A h \in Frame : fr[h].at = "run" => \E x \in Thread : stack[x] = <<h>>
    /\ \A x, y \in Thread : stack[x] = stack[y] /\ stack[x] # <<>> => x = y

\* What is to be resumed is queued once.
WaitInv ==
    /\ queue \in [Thread -> Seq(Frame)]
    /\ \A x \in Thread : Distinct(queue[x])
    /\ \A x, y \in Thread, f \in Frame : In(f, queue[x]) /\ In(f, queue[y]) => x = y
    /\ \A f \in Frame : ToResume(f) <=> \E x \in Thread : In(f, queue[x])

\* What is kept in a pool is there once.
PoolInv ==
    /\ pool \in [Pooling -> Seq(Frame)]
    /\ \A x \in Pooling : Len(pool[x]) <= PoolSlots /\ Distinct(pool[x])
    /\ \A x, y \in Pooling, f \in Frame : In(f, pool[x]) /\ In(f, pool[y]) => x = y
    /\ \A f \in Frame : fr[f].at = "pool" <=> \E x \in Pooling : In(f, pool[x])

TaskInv == PromiseInv /\ OwnerInv /\ ChainInv /\ TurnInv /\ WaitInv /\ PoolInv

-----------------------------------------------------------------------------
(* The slots of a pool.                                                     *)

\* A set of natural numbers that is not empty has a least element.
LEMMA LeastExists ==
  ASSUME NEW S \in SUBSET Nat, S # {}
  PROVE  \E f \in S : \A g \in S : f <= g
<1> DEFINE R == OpToRel(<, Nat)
<1>1. IsWellFoundedOn(R, Nat)
  BY NatLessThanWellFounded
<1>2. \A x, y \in Nat : <<y, x>> \in R <=> y < x
  BY SMT DEF OpToRel
<1> HIDE DEF R
<1>3. PICK x \in S : \A y \in S : ~ (<<y, x>> \in R)
  BY <1>1, WFMin, Zenon
<1>4. ASSUME NEW y \in S PROVE x <= y
  <2>1. x \in Nat /\ y \in Nat
    BY <1>4
  <2>2. ~(<<y, x>> \in R)
    BY <1>3, <1>4
  <2>3. ~(y < x)
    BY <1>2, <2>1, <2>2
  <2> QED
    BY <2>1, <2>3
<1> QED
  BY <1>4

LEMMA FirstFits ==
  ASSUME NEW slots \in Seq(Frame), NEW size, Fitting(slots, size) # {}
  PROVE  FirstFit(slots, size) \in 1..Len(slots)
<1>1. Fitting(slots, size) \in SUBSET Nat /\ Fitting(slots, size) \subseteq 1..Len(slots)
  BY LenProperties DEF Fitting
<1>2. \E i \in Fitting(slots, size) : \A j \in Fitting(slots, size) : i <= j
  BY <1>1, LeastExists
<1>3. QED
  BY <1>1, <1>2 DEF FirstFit

\* The last slot fills the gap: all that were there stay but the one taken.
LEMMA GapFilled ==
  ASSUME NEW slots \in Seq(Frame), Distinct(slots), NEW i \in 1..Len(slots)
  PROVE  /\ Taken(slots, i) \in Seq(Frame) /\ Len(Taken(slots, i)) < Len(slots)
         /\ Distinct(Taken(slots, i))
         /\ \A f : In(f, Taken(slots, i)) <=> In(f, slots) /\ f # slots[i]
<1> DEFINE n == Len(slots)
           s == [slots EXCEPT ![i] = slots[n]]
           t == Taken(slots, i)
<1>1. n \in Nat /\ n > 0 /\ i \in 1..n /\ DOMAIN slots = 1..n /\ \A j \in 1..n : slots[j] \in Frame
  BY Indices
<1>2. s \in Seq(Frame) /\ Len(s) = n
  BY <1>1, ExceptSeq
<1>3. \A j \in 1..n : s[j] = IF j = i THEN slots[n] ELSE slots[j]
  BY <1>1
<1> HIDE DEF s
<1>4. /\ t \in Seq(Frame) /\ Len(t) = n - 1
      /\ \A j \in 1..n - 1 : t[j] = s[j]
  <2>1. t = SubSeq(s, 1, n - 1)
    BY DEF Taken, s
  <2>2. 1 \in 1..Len(s) + 1 /\ n - 1 \in 0..Len(s)
    BY <1>1, <1>2
  <2>3. QED
    BY <1>1, <1>2, <2>1, <2>2, SubSeqProperties
<1> HIDE DEF t, n
<1>5. \A j \in 1..n - 1 : j \in 1..n /\ j # n
  BY <1>1
<1>6. \A j \in 1..n : j = n \/ j \in 1..n - 1
  BY <1>1
<1>7. /\ \A f : In(f, slots) <=> \E j \in 1..n : slots[j] = f
      /\ \A f : In(f, t) <=> \E j \in 1..n - 1 : t[j] = f
      /\ \A j, k \in 1..n : slots[j] = slots[k] => j = k
      /\ Distinct(t) <=> \A j, k \in 1..n - 1 : t[j] = t[k] => j = k
  BY <1>4 DEF In, Distinct, n
<1>8. \A j \in 1..n - 1 : t[j] = IF j = i THEN slots[n] ELSE slots[j]
  BY <1>3, <1>4, <1>5
<1>9. Distinct(t)
  BY <1>1, <1>5, <1>7, <1>8
<1>10. ASSUME NEW f PROVE In(f, t) <=> In(f, slots) /\ f # slots[i]
  <2>1. ASSUME NEW j \in 1..n - 1, t[j] = f
        PROVE  In(f, slots) /\ f # slots[i]
    BY <1>1, <1>5, <1>7, <1>8, <2>1
  <2>2. ASSUME NEW j \in 1..n, slots[j] = f, f # slots[i]
        PROVE  \E k \in 1..n - 1 : t[k] = f
    <3>1. CASE j = n
      <4>1. i \in 1..n - 1 /\ t[i] = slots[n]
        BY <1>1, <1>6, <1>8, <2>2, <3>1
      <4>2. QED
        BY <2>2, <3>1, <4>1
    <3>2. CASE j \in 1..n - 1
      BY <1>8, <2>2, <3>2
    <3>3. QED
      BY <1>6, <3>1, <3>2
  <2>3. QED
    BY <1>7, <2>1, <2>2
<1>11. QED
  BY <1>1, <1>4, <1>9, <1>10 DEF t, n

\* Blocks are kept as long as there is room.
LEMMA RoomKept ==
  ASSUME NEW slots \in Seq(Frame), NEW s \in Seq(Frame), Len(slots) <= PoolSlots,
         Distinct(slots), Distinct(s), Apart(slots, s)
  PROVE  /\ Kept(slots, s) \in Seq(Frame) /\ Len(Kept(slots, s)) <= PoolSlots
         /\ Distinct(Kept(slots, s))
         /\ \A f : In(f, slots) => In(f, Kept(slots, s))
         /\ \A f : In(f, Kept(slots, s)) => In(f, slots) \/ In(f, s)
<1> DEFINE room == PoolSlots - Len(slots)
           n == IF room < Len(s) THEN room ELSE Len(s)
           t == SubSeq(s, 1, n)
<1>1. PoolSlots \in Nat /\ Len(slots) \in Nat /\ Len(s) \in Nat /\ \A i \in 1..Len(s) : s[i] \in Frame
  BY PoolAssumption, Indices
<1>2. n \in Nat /\ n <= Len(s) /\ Len(slots) + n <= PoolSlots
  BY <1>1
<1> HIDE DEF n, room
<1>3. \A i \in 1..n : i \in 1..Len(s)
  BY <1>1, <1>2
<1>4. t \in Seq(Frame) /\ Len(t) = n /\ \A i \in 1..n : t[i] = s[i]
  BY <1>1, <1>2, <1>3, SubSeqProperties
<1> HIDE DEF t
<1>5. Distinct(t) /\ \A f : In(f, t) => In(f, s)
  BY <1>3, <1>4 DEF Distinct, In
<1>6. Apart(slots, t)
  BY <1>5 DEF Apart
<1>7. Kept(slots, s) = slots \o t
  BY DEF Kept, t, n, room
<1>8. /\ slots \o t \in Seq(Frame) /\ Len(slots \o t) = Len(slots) + Len(t)
      /\ \A x : In(x, slots \o t) <=> In(x, slots) \/ In(x, t)
      /\ Distinct(slots \o t) <=> Distinct(slots) /\ Distinct(t) /\ Apart(slots, t)
  BY <1>4, Joined
<1>9. QED
  BY <1>2, <1>4, <1>5, <1>6, <1>7, <1>8

\* The frames of a set, one after another.
LEMMA Enlisted ==
  ASSUME NEW S \in SUBSET Frame
  PROVE  /\ SetToSeq(S) \in Seq(Frame) /\ Distinct(SetToSeq(S))
         /\ \A f : In(f, SetToSeq(S)) => f \in S
<1> DEFINE n == Cardinality(S)
           s == SetToSeq(S)
<1>1. IsFiniteSet(S)
  BY FrameAssumption, FS_Subset
<1>2. n \in Nat /\ ExistsBijection(1..n, S)
  BY <1>1, FS_CardinalityType
<1>3. \E g \in [1..n -> S] : IsInjective(g)
  BY <1>2 DEF ExistsBijection, Bijection, Injection
<1>4. s \in [1..n -> S] /\ IsInjective(s)
  BY <1>3 DEF SetToSeq
<1> HIDE DEF n, s
<1>5. s \in Seq(Frame) /\ Len(s) = n /\ \A i \in 1..n : s[i] \in S
  BY <1>2, <1>4
<1>6. Distinct(s) /\ \A f : In(f, s) => f \in S
  BY <1>4, <1>5 DEF Distinct, In, IsInjective
<1>7. QED
  BY <1>5, <1>6 DEF s

\* operator new returns a block that nobody uses, which is in no pool from then on.
LEMMA Allocated ==
  ASSUME PoolInv, NEW x \in Pooling, NEW f \in Frame, NEW k, Allocates(x, f, k),
         NEW slots, slots = Remaining(x, f, k)
  PROVE  /\ fr[f].at \in {"heap", "pool"}
         /\ slots \in Seq(Frame) /\ Len(slots) <= PoolSlots /\ Distinct(slots)
         /\ \A g : In(g, slots) <=> In(g, pool[x]) /\ g # f
         /\ \A y \in Pooling : y # x => ~In(f, pool[y])
<1>1. /\ pool[x] \in Seq(Frame) /\ Distinct(pool[x])
      /\ Len(pool[x]) <= PoolSlots /\ Len(pool[x]) \in Nat /\ PoolSlots \in Nat
  BY PoolAssumption, LenProperties DEF PoolInv
<1>2. CASE FromPool(x, f, k)
  <2> DEFINE i == FirstFit(pool[x], SizeOf[f])
  <2>1. i \in 1..Len(pool[x])
    BY <1>1, <1>2, FirstFits DEF FromPool
  <2>2. f = pool[x][i] /\ slots = Taken(pool[x], i)
    BY <1>2 DEF Allocates, Remaining
  <2> HIDE DEF i
  <2>3. In(f, pool[x])
    BY <2>1, <2>2 DEF In
  <2>4. /\ slots \in Seq(Frame) /\ Len(slots) < Len(pool[x]) /\ Distinct(slots)
        /\ \A g : In(g, slots) <=> In(g, pool[x]) /\ g # f
    BY <1>1, <2>1, <2>2, GapFilled
  <2>5. Len(slots) \in Nat
    BY <2>4, LenProperties
  <2>6. QED
    BY <1>1, <2>3, <2>4, <2>5 DEF PoolInv
<1>3. CASE ~FromPool(x, f, k)
  <2>1. fr[f].at = "heap" /\ slots = pool[x]
    BY <1>3 DEF Allocates, Remaining
  <2>2. \A y \in Pooling : ~In(f, pool[y])
    BY <2>1 DEF PoolInv
  <2>3. QED
    BY <1>1, <2>1, <2>2
<1>4. QED
  BY <1>2, <1>3

\* What becomes of the pools when one of them changes.
LEMMA PoolMoves ==
  ASSUME PoolInv, NEW x \in Pooling, NEW slots \in Seq(Frame), Len(slots) <= PoolSlots,
         Distinct(slots), pool' = [pool EXCEPT ![x] = slots],
         \A f \in Frame : In(f, slots) => \A y \in Pooling : y # x => ~In(f, pool[y]),
         \A f \in Frame : In(f, slots) => fr'[f].at = "pool",
         \A f \in Frame : ~In(f, slots) /\ In(f, pool[x]) => fr'[f].at # "pool",
         \A f \in Frame : ~In(f, slots) /\ ~In(f, pool[x]) => (fr'[f].at = "pool" <=> fr[f].at = "pool")
  PROVE  PoolInv'
<1>1. /\ pool' \in [Pooling -> Seq(Frame)] /\ pool'[x] = slots
      /\ \A y \in Pooling : y # x => pool'[y] = pool[y]
  BY DEF PoolInv
<1>2. \A y \in Pooling : Len(pool'[y]) <= PoolSlots /\ Distinct(pool'[y])
  BY <1>1 DEF PoolInv
<1>3. ASSUME NEW y \in Pooling, NEW z \in Pooling, NEW f \in Frame, In(f, pool'[y]), In(f, pool'[z])
      PROVE  y = z
  BY <1>1, <1>3 DEF PoolInv
<1>4. ASSUME NEW f \in Frame
      PROVE  fr'[f].at = "pool" <=> \E y \in Pooling : In(f, pool'[y])
  <2>1. CASE In(f, slots)
    BY <1>1, <2>1
  <2>2. CASE ~In(f, slots) /\ In(f, pool[x])
    <3>1. \A y \in Pooling : y # x => ~In(f, pool[y])
      BY <2>2 DEF PoolInv
    <3>2. QED
      BY <1>1, <2>2, <3>1
  <2>3. CASE ~In(f, slots) /\ ~In(f, pool[x])
    <3>1. fr[f].at = "pool" <=> \E y \in Pooling : In(f, pool[y])
      BY DEF PoolInv
    <3>2. QED
      BY <1>1, <2>3, <3>1
  <2>4. QED
    BY <2>1, <2>2, <2>3
<1>5. QED
  BY <1>1, <1>2, <1>3, <1>4 DEF PoolInv

LEMMA PoolStays ==
  ASSUME PoolInv, pool' = pool, \A f \in Frame : fr'[f].at = "pool" <=> fr[f].at = "pool"
  PROVE  PoolInv'
  BY DEF PoolInv

\* operator delete, for all the frames that go.
LEMMA FreedFrames ==
  ASSUME PoolInv, NEW x \in Pooling, NEW gone \in SUBSET Frame, Freed(x, gone),
         \A f \in gone : fr[f].at # "pool"
  PROVE  /\ PoolInv'
         /\ \A f \in gone : fr'[f] \in {Unused("pool"), Unused("heap")}
         /\ \A f \in Frame \ gone : fr'[f] = fr[f]
         /\ fr' = [f \in Frame |-> IF f \in gone THEN fr'[f] ELSE fr[f]]
<1> DEFINE pooled == {g \in gone : Pools(fr[g].kind, SizeOf[g])}
           s == SetToSeq(pooled)
           slots == Kept(pool[x], s)
<1>1. /\ pool' = [pool EXCEPT ![x] = slots]
      /\ fr' = [f \in Frame |-> IF f \notin gone THEN fr[f]
                                ELSE Unused(IF f \in ToSet(slots) THEN "pool" ELSE "heap")]
  BY DEF Freed
<1>2. s \in Seq(Frame) /\ Distinct(s) /\ \A f : In(f, s) => f \in gone
  <2>1. pooled \in SUBSET Frame /\ pooled \subseteq gone
    OBVIOUS
  <2> HIDE DEF pooled
  <2>2. QED
    BY <2>1, Enlisted
<1> HIDE DEF pooled, s
<1>3. /\ pool[x] \in Seq(Frame) /\ Distinct(pool[x]) /\ Len(pool[x]) <= PoolSlots
      /\ \A f \in Frame : fr[f].at = "pool" <=> \E y \in Pooling : In(f, pool[y])
  BY DEF PoolInv
<1>4. Apart(pool[x], s)
  BY <1>2, <1>3 DEF Apart
<1>5. /\ slots \in Seq(Frame) /\ Len(slots) <= PoolSlots /\ Distinct(slots)
      /\ \A f : In(f, pool[x]) => In(f, slots)
      /\ \A f : In(f, slots) => In(f, pool[x]) \/ In(f, s)
  BY <1>2, <1>3, <1>4, RoomKept
<1>6. \A f : f \in ToSet(slots) <=> In(f, slots)
  BY <1>5, Indices
<1> HIDE DEF slots
<1>7. /\ \A f \in gone : fr'[f] = Unused(IF In(f, slots) THEN "pool" ELSE "heap")
      /\ \A f \in Frame \ gone : fr'[f] = fr[f]
  BY <1>1, <1>6
<1>8. Unused("pool").at = "pool" /\ Unused("heap").at = "heap"
  BY DEF Unused
<1>9. \A f \in Frame : In(f, slots) => \A y \in Pooling : y # x => ~In(f, pool[y])
  BY <1>2, <1>3, <1>5 DEF PoolInv
<1>10. \A f \in Frame : In(f, slots) => fr'[f].at = "pool"
  BY <1>2, <1>3, <1>5, <1>7, <1>8
<1>11. \A f \in Frame : ~In(f, slots) /\ ~In(f, pool[x]) => (fr'[f].at = "pool" <=> fr[f].at = "pool")
  BY <1>7, <1>8
<1>12. PoolInv'
  BY <1>1, <1>5, <1>9, <1>10, <1>11, PoolMoves
<1>13. QED
  BY <1>1, <1>7, <1>12

-----------------------------------------------------------------------------
(* What runs, and what is to run.                                           *)

\* Only those of S run or stop.
RunningSame(S) == \A f \in Frame : f \notin S => (fr'[f].at = "run" <=> fr[f].at = "run")
ReadySame(S) == \A f \in Frame : f \notin S => (ToResume(f)' <=> ToResume(f))

LEMMA OneRuns ==
  ASSUME TurnInv, NEW x \in Thread, NEW h \in Frame, Runs(x, h)
  PROVE  /\ stack[x] = <<h>> /\ fr[h].at = "run"
         /\ \A y \in Thread : y # x => stack[y] # <<h>>
<1>1. PICK g \in Frame : stack[x] = <<g>> /\ fr[g].at = "run"
  BY DEF TurnInv, Runs
<1>2. g = h
  BY <1>1 DEF Runs
<1>3. \A y \in Thread : stack[y] = stack[x] /\ stack[y] # <<>> => y = x
  BY DEF TurnInv
<1>4. stack[x] # <<>>
  BY DEF Runs
<1>5. QED
  BY <1>1, <1>2, <1>3, <1>4

LEMMA TurnStays ==
  ASSUME TurnInv, stack' = stack, RunningSame({})
  PROVE  TurnInv'
  BY DEF TurnInv, RunningSame

LEMMA TurnEnds ==
  ASSUME TurnInv, NEW x \in Thread, NEW h \in Frame, Runs(x, h), Leave(x),
         fr'[h].at # "run", RunningSame({h})
  PROVE  TurnInv'
<1>1. /\ stack[x] = <<h>> /\ fr[h].at = "run"
      /\ \A y \in Thread : y # x => stack[y] # <<h>>
  BY OneRuns
<1>2. Tail(stack[x]) = <<>>
  BY <1>1
<1>3. /\ stack' \in [Thread -> Seq(Frame)] /\ stack'[x] = <<>>
      /\ \A y \in Thread : y # x => stack'[y] = stack[y]
  <2>1. stack' = [stack EXCEPT ![x] = Tail(stack[x])]
    BY DEF Leave
  <2>2. <<>> \in Seq(Frame)
    BY EmptySeq
  <2>3. QED
    BY <1>2, <2>1, <2>2 DEF TurnInv
<1>4. <<h>> # <<>> /\ \A g \in Frame : <<g>> = <<h>> => g = h
  OBVIOUS
<1>5. \A y \in Thread : stack'[y] = <<>> \/ \E g \in Frame : stack'[y] = <<g>> /\ fr'[g].at = "run"
  BY <1>1, <1>3 DEF TurnInv, RunningSame
<1>6. ASSUME NEW g \in Frame, fr'[g].at = "run" PROVE \E y \in Thread : stack'[y] = <<g>>
  <2>1. g # h /\ fr[g].at = "run"
    BY <1>6 DEF RunningSame
  <2>2. PICK y \in Thread : stack[y] = <<g>>
    BY <2>1 DEF TurnInv
  <2>3. y # x
    BY <1>1, <1>4, <2>1, <2>2
  <2>4. QED
    BY <1>3, <2>2, <2>3
<1>7. \A y, z \in Thread : stack'[y] = stack'[z] /\ stack'[y] # <<>> => y = z
  BY <1>3 DEF TurnInv
<1>8. QED
  BY <1>3, <1>5, <1>6, <1>7 DEF TurnInv

\* g runs on a thread on which h did, or nobody.
LEMMA TurnGoes ==
  ASSUME TurnInv, NEW x \in Thread, NEW g \in Frame, fr[g].at # "run", fr'[g].at = "run",
         stack' = [stack EXCEPT ![x] = <<g>>],
         \A f \in Frame : stack[x] = <<f>> => fr'[f].at # "run",
         \A f \in Frame : f # g /\ stack[x] # <<f>> => (fr'[f].at = "run" <=> fr[f].at = "run")
  PROVE  TurnInv'
<1>1. <<g>> \in Seq(Frame) /\ <<g>> # <<>> /\ \A f \in Frame : <<f>> = <<g>> => f = g
  OBVIOUS
<1>2. /\ stack' \in [Thread -> Seq(Frame)] /\ stack'[x] = <<g>>
      /\ \A y \in Thread : y # x => stack'[y] = stack[y]
  BY <1>1 DEF TurnInv
<1>3. \A y \in Thread : stack[y] # <<g>>
  BY <1>1 DEF TurnInv
<1>4. ASSUME NEW y \in Thread
      PROVE  stack'[y] = <<>> \/ \E f \in Frame : stack'[y] = <<f>> /\ fr'[f].at = "run"
  <2>1. CASE y = x
    BY <1>2, <2>1
  <2>2. CASE y # x /\ stack[y] # <<>>
    <3>1. PICK f \in Frame : stack[y] = <<f>> /\ fr[f].at = "run"
      BY <2>2 DEF TurnInv
    <3>2. f # g /\ stack[x] # <<f>>
      BY <2>2, <3>1 DEF TurnInv
    <3>3. QED
      BY <1>2, <2>2, <3>1, <3>2
  <2>3. QED
    BY <1>2, <2>1, <2>2
<1>5. ASSUME NEW f \in Frame, fr'[f].at = "run" PROVE \E y \in Thread : stack'[y] = <<f>>
  <2>1. CASE f = g
    BY <1>2, <2>1
  <2>2. CASE f # g
    <3>1. stack[x] # <<f>> /\ fr[f].at = "run"
      BY <1>5, <2>2
    <3>2. PICK y \in Thread : stack[y] = <<f>>
      BY <3>1 DEF TurnInv
    <3>3. QED
      BY <1>2, <3>1, <3>2
  <2>3. QED
    BY <2>1, <2>2
<1>6. \A y, z \in Thread : stack'[y] = stack'[z] /\ stack'[y] # <<>> => y = z
  BY <1>2, <1>3 DEF TurnInv
<1>7. QED
  BY <1>2, <1>4, <1>5, <1>6 DEF TurnInv

LEMMA WaitStays ==
  ASSUME WaitInv, queue' = queue, ReadySame({})
  PROVE  WaitInv'
<1>1. \A f \in Frame : ToResume(f)' <=> ToResume(f)
  BY DEF ReadySame
<1>2. /\ \A x \in Thread : Distinct(queue'[x])
      /\ \A x, y \in Thread, f \in Frame : In(f, queue'[x]) /\ In(f, queue'[y]) => x = y
      /\ \A f \in Frame : ToResume(f) <=> \E x \in Thread : In(f, queue'[x])
  BY DEF WaitInv
<1>3. QED
  BY <1>1, <1>2 DEF WaitInv

\* A handle is posted when there is no other turn for it.
LEMMA WaitJoins ==
  ASSUME WaitInv, NEW x \in Thread, NEW f \in Frame, queue' = Posted(x, f),
         ~ToResume(f), ToResume(f)', ReadySame({f})
  PROVE  WaitInv'
<1>1. \A y \in Thread : ~In(f, queue[y])
  BY DEF WaitInv
<1>2. /\ Append(queue[x], f) \in Seq(Frame)
      /\ \A g : In(g, Append(queue[x], f)) <=> g = f \/ In(g, queue[x])
      /\ Distinct(Append(queue[x], f)) <=> Distinct(queue[x]) /\ ~In(f, queue[x])
  BY Added DEF WaitInv
<1>3. /\ queue' \in [Thread -> Seq(Frame)] /\ queue'[x] = Append(queue[x], f)
      /\ \A y \in Thread : y # x => queue'[y] = queue[y]
  BY <1>2 DEF WaitInv, Posted
<1>4. \A y \in Thread : Distinct(queue'[y])
  BY <1>1, <1>2, <1>3 DEF WaitInv
<1>5. ASSUME NEW y \in Thread, NEW g \in Frame
      PROVE  In(g, queue'[y]) <=> (g = f /\ y = x) \/ In(g, queue[y])
  BY <1>2, <1>3
<1>6. \A y, z \in Thread, g \in Frame : In(g, queue'[y]) /\ In(g, queue'[z]) => y = z
  BY <1>1, <1>5 DEF WaitInv
<1>7. ASSUME NEW g \in Frame PROVE ToResume(g)' <=> \E y \in Thread : In(g, queue'[y])
  <2>1. CASE g = f
    BY <1>5, <2>1
  <2>2. CASE g # f
    <3>1. ToResume(g)' <=> ToResume(g)
      BY <2>2 DEF ReadySame
    <3>2. ToResume(g) <=> \E y \in Thread : In(g, queue[y])
      BY DEF WaitInv
    <3>3. QED
      BY <1>5, <2>2, <3>1, <3>2
  <2>3. QED
    BY <2>1, <2>2
<1>8. QED
  BY <1>3, <1>4, <1>6, <1>7 DEF WaitInv

\* Whoever is in front of a queue was to be resumed, and is not any more.
LEMMA WaitServed ==
  ASSUME WaitInv, NEW x \in Thread, NEW f, queue[x] # <<>>, f = Head(queue[x])
  PROVE  /\ f \in Frame /\ ToResume(f)
         /\ queue' = [queue EXCEPT ![x] = Tail(@)] /\ ~ToResume(f)' /\ ReadySame({f}) => WaitInv'
<1>1. /\ f \in Frame /\ Tail(queue[x]) \in Seq(Frame) /\ In(f, queue[x])
      /\ \A g : In(g, queue[x]) <=> g = f \/ In(g, Tail(queue[x]))
      /\ Distinct(Tail(queue[x])) /\ ~In(f, Tail(queue[x]))
  BY Split DEF WaitInv
<1>2. ToResume(f)
  BY <1>1 DEF WaitInv
<1>3. ASSUME queue' = [queue EXCEPT ![x] = Tail(@)], ~ToResume(f)', ReadySame({f})
      PROVE  WaitInv'
  <2>1. /\ queue' \in [Thread -> Seq(Frame)] /\ queue'[x] = Tail(queue[x])
        /\ \A y \in Thread : y # x => queue'[y] = queue[y]
    BY <1>1, <1>3 DEF WaitInv
  <2>2. \A y \in Thread : Distinct(queue'[y])
    BY <1>1, <2>1 DEF WaitInv
  <2>3. \A y \in Thread, g \in Frame : In(g, queue'[y]) <=> g # f /\ In(g, queue[y])
    <3>1. \A y \in Thread : y # x => ~In(f, queue[y])
      BY <1>1 DEF WaitInv
    <3>2. QED
      BY <1>1, <2>1, <3>1
  <2>4. \A y, z \in Thread, g \in Frame : In(g, queue'[y]) /\ In(g, queue'[z]) => y = z
    BY <2>3 DEF WaitInv
  <2>5. ASSUME NEW g \in Frame PROVE ToResume(g)' <=> \E y \in Thread : In(g, queue'[y])
    <3>1. CASE g = f
      BY <1>3, <2>3, <3>1
    <3>2. CASE g # f
      <4>1. ToResume(g)' <=> ToResume(g)
        BY <1>3, <3>2 DEF ReadySame
      <4>2. ToResume(g) <=> \E y \in Thread : In(g, queue[y])
        BY DEF WaitInv
      <4>3. QED
        BY <2>3, <3>2, <4>1, <4>2
    <3>3. QED
      BY <3>1, <3>2
  <2>6. QED
    BY <2>1, <2>2, <2>4, <2>5 DEF WaitInv
<1>4. QED
  BY <1>1, <1>2, <1>3

-----------------------------------------------------------------------------
(* What a step does to the frames.                                          *)

\* What the invariant says of a frame and of whoever waits for it.
LEMMA Standing ==
  ASSUME TaskInv
  PROVE  /\ \A f \in Frame : fr[f] \in Promise
         /\ \A f \in Frame : fr[f].at \in {"heap", "pool"} =>
                fr[f].parent = Noop /\ fr[f].owner = Noop /\ ~fr[f].detached
         /\ \A f \in Frame : fr[f].owner \in Frame =>
                ~fr[f].detached /\ fr[fr[f].owner].at \notin {"heap", "pool"}
         /\ \A f \in Frame : fr[f].at \notin {"heap", "pool"} =>
                (fr[f].detached <=> fr[f].owner = Noop)
         /\ \A c, h \in Frame : Under(c, h) =>
                /\ fr[c].at \notin {"initial", "final", "heap", "pool"}
                /\ ~fr[c].detached /\ fr[c].owner = h /\ fr[h].at = "await"
<1>1. \A f \in Frame : fr[f] \in Promise
  BY DEF TaskInv, PromiseInv
<1>2. \A f \in Frame : f \in Live <=> fr[f].at \notin {"heap", "pool"}
  BY <1>1 DEF Promise, Place, Suspended, Live
<1>3. \A f \in Frame : fr[f].at \in {"heap", "pool"} =>
          fr[f].parent = Noop /\ fr[f].owner = Noop /\ ~fr[f].detached
  BY DEF TaskInv, PromiseInv
<1>4. \A f \in Frame : fr[f].at \notin {"heap", "pool"} => (fr[f].detached <=> fr[f].owner = Noop)
  BY <1>2 DEF TaskInv, OwnerInv
<1>5. \A f \in Frame : fr[f].owner \in Frame =>
          ~fr[f].detached /\ fr[fr[f].owner].at \notin {"heap", "pool"}
  BY <1>2, <1>3, FrameAssumption DEF TaskInv, OwnerInv
<1>6. ASSUME NEW c \in Frame, NEW h \in Frame, Under(c, h)
      PROVE  /\ fr[c].at \notin {"initial", "final", "heap", "pool"}
             /\ ~fr[c].detached /\ fr[c].owner = h /\ fr[h].at = "await"
  <2>1. fr[c].parent = h /\ fr[c].parent # Noop /\ fr[c].at \notin {"final", "heap", "pool"}
    BY <1>6, FrameAssumption DEF Under
  <2>2. fr[c].at # "initial" /\ ~fr[c].detached
    BY <2>1 DEF TaskInv, PromiseInv
  <2>3. fr[c].parent = fr[c].owner /\ fr[fr[c].owner].at = "await"
    BY <1>2, <2>1, <2>2 DEF TaskInv, OwnerInv
  <2>4. QED
    BY <2>1, <2>2, <2>3
<1>7. QED
  BY <1>1, <1>3, <1>4, <1>5, <1>6

LEMMA OwnersNext ==
  ASSUME \A f \in Frame : fr'[f] \in Promise,
         \A f \in Frame : fr'[f].at \notin {"heap", "pool"} =>
             /\ fr'[f].detached <=> fr'[f].owner = Noop
             /\ fr'[f].owner \in Frame => fr'[fr'[f].owner].at \notin {"heap", "pool"}
             /\ ~fr'[f].detached /\ fr'[f].at \notin {"initial", "final"} =>
                  fr'[f].parent = fr'[f].owner /\ fr'[fr'[f].owner].at = "await"
  PROVE  OwnerInv'
<1>1. \A f \in Frame : f \in Live' <=> fr'[f].at \notin {"heap", "pool"}
  BY DEF Promise, Place, Suspended, Live
<1>2. QED
  BY <1>1 DEF OwnerInv, Live

\* As long as nobody new waits, each waits for one at most.
LEMMA ChainStays ==
  ASSUME ChainInv, \A c, h \in Frame : Under(c, h)' => Under(c, h)
  PROVE  ChainInv'
  BY DEF ChainInv

LEMMA SameReady ==
  ASSUME NEW S, \A c, h \in Frame : Under(c, h)' <=> Under(c, h),
         \A f \in Frame : f \notin S => fr'[f].at = fr[f].at /\ fr'[f].detached = fr[f].detached
  PROVE  ReadySame(S)
  BY DEF ReadySame, ToResume

-----------------------------------------------------------------------------
(* The steps.                                                               *)

LEMMA TaskInitInv == TaskInit => TaskInv
<1> SUFFICES ASSUME TaskInit
             PROVE  TaskInv
  OBVIOUS
<1>1. /\ fr \in [Frame -> Promise]
      /\ \A f \in Frame : fr[f] = Unused("heap") /\ fr[f].at = "heap" /\ ~fr[f].detached
                          /\ fr[f].parent = Noop /\ fr[f].owner = Noop
  BY DEF TaskInit, Unused, Promise, Place, Kind
<1>2. \A f \in Frame : ~ToResume(f)
  BY <1>1 DEF ToResume
<1>3. PromiseInv
  BY <1>1 DEF PromiseInv, TaskInit
<1>4. OwnerInv
  BY <1>1 DEF OwnerInv, Live, Suspended
<1>5. ChainInv
  BY <1>1, FrameAssumption DEF ChainInv, Under
<1>6. <<>> \in Seq(Frame)
  BY EmptySeq
<1>7. TurnInv
  BY <1>1, <1>6 DEF TurnInv, TaskInit
<1>8. WaitInv
  BY <1>2, <1>6, EmptyList DEF WaitInv, TaskInit
<1>9. PoolInv
  BY <1>1, <1>6, EmptyList, PoolAssumption DEF PoolInv, TaskInit, Pooling
<1>10. QED
  BY <1>3, <1>4, <1>5, <1>7, <1>8, <1>9 DEF TaskInv

\* A block becomes the frame of a new coroutine, which a running one owns, or
\* which is detached.
LEMMA FrameMade ==
  ASSUME TaskInv, NEW x \in Pooling, NEW f \in Frame, NEW k \in Kind, Allocates(x, f, k),
         pool' = [pool EXCEPT ![x] = Remaining(x, f, k)], NEW p \in Promise,
         fr' = [fr EXCEPT ![f] = p], p.at = "initial", p.parent = Noop, UNCHANGED <<stack, got>>,
         \/ ~p.detached /\ p.owner \in Frame /\ fr[p.owner].at = "run" /\ queue' = queue
         \/ p.detached /\ p.owner = Noop /\ p.kind = "void" /\ \E y \in Thread : queue' = Posted(y, f)
  PROVE  TaskInv'
<1> DEFINE slots == Remaining(x, f, k)
<1>1. /\ fr[f].at \in {"heap", "pool"}
      /\ slots \in Seq(Frame) /\ Len(slots) <= PoolSlots /\ Distinct(slots)
      /\ \A g : In(g, slots) <=> In(g, pool[x]) /\ g # f
      /\ \A y \in Pooling : y # x => ~In(f, pool[y])
  BY Allocated DEF TaskInv
<1> HIDE DEF slots
<1>2. /\ fr' \in [Frame -> Promise] /\ fr'[f] = p /\ p.detached \in BOOLEAN
      /\ \A g \in Frame : g # f => fr'[g] = fr[g]
  BY DEF TaskInv, PromiseInv, Promise
<1>3. \A g \in Frame : fr[g].owner # f
  BY <1>1, Standing
<1>4. \A c, h \in Frame : Under(c, h)' <=> Under(c, h)
  BY <1>1, <1>2, FrameAssumption DEF Under
<1>5. PromiseInv'
  BY <1>2 DEF TaskInv, PromiseInv
<1>6. OwnerInv'
  <2>1. ASSUME NEW g \in Frame, fr'[g].at \notin {"heap", "pool"}
        PROVE  /\ fr'[g].detached <=> fr'[g].owner = Noop
               /\ fr'[g].owner \in Frame => fr'[fr'[g].owner].at \notin {"heap", "pool"}
               /\ ~fr'[g].detached /\ fr'[g].at \notin {"initial", "final"} =>
                    fr'[g].parent = fr'[g].owner /\ fr'[fr'[g].owner].at = "await"
    <3>1. CASE g = f
      <4>1. p.owner \in Frame => p.owner # f /\ fr'[p.owner].at = "run"
        BY <1>1, <1>2, FrameAssumption
      <4>2. QED
        BY <1>2, <3>1, <4>1, FrameAssumption
    <3>2. CASE g # f
      <4>1. fr'[g] = fr[g] /\ fr[g].at \notin {"heap", "pool"}
        BY <1>2, <2>1, <3>2
      <4>2. fr[g].owner \in Frame => fr'[fr[g].owner] = fr[fr[g].owner]
        BY <1>2, <1>3
      <4>3. ~fr[g].detached => fr[g].owner \in Frame
        BY <4>1, Standing DEF Promise
      <4>4. QED
        BY <4>1, <4>2, <4>3, Standing DEF TaskInv, OwnerInv, Live, Promise, Place
    <3>3. QED
      BY <3>1, <3>2
  <2>2. QED
    BY <1>2, <2>1, OwnersNext
<1>7. ChainInv'
  BY <1>4, ChainStays DEF TaskInv
<1>8. TurnInv'
  BY <1>1, <1>2, TurnStays DEF TaskInv, RunningSame
<1>9. ReadySame({f}) /\ ~ToResume(f) /\ (ToResume(f)' <=> p.detached)
  <2>1. ReadySame({f})
    BY <1>2, <1>4, SameReady
  <2>2. QED
    BY <1>1, <1>2, <2>1 DEF ToResume
<1>10. WaitInv'
  <2>1. CASE ~p.detached /\ queue' = queue
    <3>1. ReadySame({})
      BY <1>9, <2>1 DEF ReadySame
    <3>2. QED
      BY <2>1, <3>1, WaitStays DEF TaskInv
  <2>2. CASE p.detached /\ \E y \in Thread : queue' = Posted(y, f)
    BY <1>9, <2>2, WaitJoins DEF TaskInv
  <2>3. QED
    BY <2>1, <2>2
<1>11. PoolInv'
  <2>1. pool' = [pool EXCEPT ![x] = slots]
    BY DEF slots
  <2>2. \A g \in Frame : In(g, slots) => \A y \in Pooling : y # x => ~In(g, pool[y])
    BY <1>1 DEF TaskInv, PoolInv
  <2>3. \A g \in Frame : In(g, slots) => fr'[g].at = "pool"
    BY <1>1, <1>2 DEF TaskInv, PoolInv
  <2>4. \A g \in Frame : ~In(g, slots) /\ In(g, pool[x]) => fr'[g].at # "pool"
    BY <1>1, <1>2
  <2>5. \A g \in Frame : ~In(g, slots) /\ ~In(g, pool[x]) => (fr'[g].at = "pool" <=> fr[g].at = "pool")
    <3>1. ~In(f, pool[x]) => fr[f].at # "pool"
      BY <1>1 DEF TaskInv, PoolInv
    <3>2. QED
      BY <1>2, <3>1
  <2>6. QED
    BY <1>1, <2>1, <2>2, <2>3, <2>4, <2>5, PoolMoves DEF TaskInv
<1>12. QED
  BY <1>5, <1>6, <1>7, <1>8, <1>10, <1>11 DEF TaskInv

LEMMA CallStep ==
  ASSUME TaskInv, NEW x \in Thread, NEW h \in Frame, Runs(x, h), Call(x, h)
  PROVE  TaskInv'
<1>1. fr[h].at = "run" /\ x \in Pooling
  BY OneRuns DEF TaskInv, Pooling
<1>2. PICK f \in Frame, k \in Kind :
          /\ Allocates(x, f, k)
          /\ pool' = [pool EXCEPT ![x] = Remaining(x, f, k)]
          /\ fr' = [fr EXCEPT ![f] = [Unused("initial") EXCEPT !.kind = k, !.owner = h]]
          /\ UNCHANGED <<stack, queue, got>>
  BY DEF Call
<1> DEFINE p == [Unused("initial") EXCEPT !.kind = k, !.owner = h]
<1>3. /\ p \in Promise /\ p.at = "initial" /\ p.parent = Noop /\ ~p.detached /\ p.owner = h
  BY DEF Unused, Promise, Place, Suspended, Kind
<1>4. fr' = [fr EXCEPT ![f] = p]
  BY <1>2
<1> HIDE DEF p
<1>5. QED
  BY <1>1, <1>2, <1>3, <1>4, FrameMade

LEMMA MainSpawnStep ==
  ASSUME TaskInv, NEW y \in Thread, MainSpawn(y)
  PROVE  TaskInv'
<1>1. PICK f \in Frame :
          /\ Allocates(Main, f, "void")
          /\ pool' = [pool EXCEPT ![Main] = Remaining(Main, f, "void")]
          /\ fr' = [fr EXCEPT ![f] = [Unused("initial") EXCEPT !.detached = TRUE]]
          /\ queue' = Posted(y, f)
          /\ UNCHANGED <<stack, got>>
  BY DEF MainSpawn
<1> DEFINE p == [Unused("initial") EXCEPT !.detached = TRUE]
<1>2. /\ p \in Promise /\ p.at = "initial" /\ p.parent = Noop /\ p.detached /\ p.owner = Noop
      /\ p.kind = "void"
  BY DEF Unused, Promise, Place, Suspended, Kind
<1>3. fr' = [fr EXCEPT ![f] = p]
  BY <1>1
<1> HIDE DEF p
<1>4. Main \in Pooling /\ "void" \in Kind
  BY DEF Pooling, Kind
<1>5. QED
  BY <1>1, <1>2, <1>3, <1>4, FrameMade

\* The frames that go are suspended at the start or at the end, or the one that
\* has just ended; nobody else is owned by them.
LEMMA GoneTogether ==
  ASSUME TaskInv, NEW f \in Frame,
         (fr[f].at \in {"initial", "final"} /\ ~fr[f].detached) \/ fr[f].at = "run"
  PROVE  /\ Tree(f) \subseteq Frame /\ f \in Tree(f)
         /\ \A g \in Frame : fr[g].owner \in Tree(f) => g \in Tree(f)
         /\ \A g \in Tree(f) : g # f => fr[g].at \in {"initial", "final"} /\ ~fr[g].detached
<1>1. Tree(f) \subseteq Frame /\ f \in Tree(f)
  BY DEF Tree
<1>2. ASSUME NEW g \in Frame, fr[g].owner \in Tree(f), NEW S \in SUBSET Frame, f \in S,
             \A h \in Frame : fr[h].owner \in S => h \in S
      PROVE  g \in S
  BY <1>2 DEF Tree
<1>3. \A g \in Frame : fr[g].owner \in Tree(f) => g \in Tree(f)
  BY <1>2 DEF Tree
<1> DEFINE S == {f} \cup {g \in Frame : fr[g].at \in {"initial", "final"} /\ ~fr[g].detached}
<1>4. ASSUME NEW g \in Frame, fr[g].owner \in S
      PROVE  g \in S
  <2>1. fr[g].owner \in Frame /\ fr[fr[g].owner].at # "await"
    BY <1>4
  <2>2. ~fr[g].detached /\ fr[g].at \notin {"heap", "pool"}
    BY <2>1, Standing, FrameAssumption
  <2>3. fr[g].at \in {"initial", "final"}
    BY <2>1, <2>2, Standing DEF TaskInv, OwnerInv, Live, Promise, Place
  <2>4. QED
    BY <2>2, <2>3
<1>5. S \in SUBSET Frame /\ f \in S
  OBVIOUS
<1>6. \A g \in Tree(f) : g \in S
  BY <1>4, <1>5 DEF Tree
<1>7. QED
  BY <1>1, <1>3, <1>6

\* ~task, or the end of a detached task: nobody who stays is missed by those
\* who go, and none of them was to be resumed.
LEMMA FramesFreed ==
  ASSUME TaskInv, NEW x \in Thread, NEW f \in Frame, NEW h \in Frame, Runs(x, h),
         Freed(x, Tree(f)), UNCHANGED <<queue, got>>,
         \/ fr[f].at \in {"initial", "final"} /\ ~fr[f].detached /\ stack' = stack
         \/ f = h /\ fr[h].detached /\ Leave(x)
  PROVE  TaskInv'
<1> DEFINE gone == Tree(f)
<1>1. fr[h].at = "run" /\ stack[x] = <<h>> /\ x \in Pooling
  BY OneRuns DEF TaskInv, Pooling
<1>2. /\ gone \in SUBSET Frame /\ f \in gone
      /\ \A g \in Frame : fr[g].owner \in gone => g \in gone
      /\ \A g \in gone : g # f => fr[g].at \in {"initial", "final"} /\ ~fr[g].detached
  BY <1>1, GoneTogether
<1> HIDE DEF gone
<1>3. \A g \in gone : fr[g].at # "pool"
  BY <1>1, <1>2
<1>4. /\ PoolInv'
      /\ \A g \in gone : fr'[g] \in {Unused("pool"), Unused("heap")}
      /\ \A g \in Frame \ gone : fr'[g] = fr[g]
      /\ fr' = [g \in Frame |-> IF g \in gone THEN fr'[g] ELSE fr[g]]
  BY <1>1, <1>2, <1>3, FreedFrames DEF TaskInv, gone
<1>5. /\ Unused("pool") \in Promise /\ Unused("heap") \in Promise
      /\ \A g \in gone : /\ fr'[g].at \in {"heap", "pool"} /\ fr'[g].parent = Noop
                         /\ ~fr'[g].detached /\ fr'[g].owner = Noop
  <2>1. \A q \in {"heap", "pool"} : /\ Unused(q) \in Promise /\ Unused(q).at = q
                                    /\ Unused(q).parent = Noop /\ ~Unused(q).detached
                                    /\ Unused(q).owner = Noop
    BY DEF Unused, Promise, Place, Kind
  <2>2. ASSUME NEW g \in gone
        PROVE  /\ fr'[g].at \in {"heap", "pool"} /\ fr'[g].parent = Noop
               /\ ~fr'[g].detached /\ fr'[g].owner = Noop
    <3>1. PICK q \in {"heap", "pool"} : fr'[g] = Unused(q)
      BY <1>4, <2>2
    <3>2. QED
      BY <2>1, <3>1
  <2>3. QED
    BY <2>1, <2>2
<1>6. fr' \in [Frame -> Promise]
  BY <1>4, <1>5 DEF TaskInv, PromiseInv
<1>7. \A c, g \in Frame : Under(c, g)' <=> Under(c, g)
  <2>1. ASSUME NEW c \in gone, NEW g \in Frame
        PROVE  ~Under(c, g) /\ ~Under(c, g)'
    <3>1. ~Under(c, g)'
      BY <1>5, <2>1 DEF Under
    <3>2. c = f \/ fr[c].at \in {"initial", "final"}
      BY <1>2, <2>1
    <3>3. c = f => fr[c].at \in {"initial", "final"} \/ fr[c].detached
      OBVIOUS
    <3>4. QED
      BY <1>2, <2>1, <3>1, <3>2, <3>3, Standing
  <2>2. ASSUME NEW c \in Frame \ gone, NEW g \in Frame
        PROVE  Under(c, g)' <=> Under(c, g)
    BY <1>4, <2>2 DEF Under
  <2>3. QED
    BY <2>1, <2>2
<1>8. PromiseInv'
  BY <1>4, <1>5, <1>6 DEF TaskInv, PromiseInv
<1>9. OwnerInv'
  <2>1. ASSUME NEW g \in Frame, fr'[g].at \notin {"heap", "pool"}
        PROVE  /\ fr'[g].detached <=> fr'[g].owner = Noop
               /\ fr'[g].owner \in Frame => fr'[fr'[g].owner].at \notin {"heap", "pool"}
               /\ ~fr'[g].detached /\ fr'[g].at \notin {"initial", "final"} =>
                    fr'[g].parent = fr'[g].owner /\ fr'[fr'[g].owner].at = "await"
    <3>1. fr'[g] = fr[g] /\ g \notin gone
      BY <1>4, <1>5, <2>1
    <3>2. fr[g].owner \in Frame => fr'[fr[g].owner] = fr[fr[g].owner]
      BY <1>2, <1>4, <3>1
    <3>3. ~fr[g].detached => fr[g].owner \in Frame
      BY <2>1, <3>1, Standing DEF Promise
    <3>4. QED
      BY <2>1, <3>1, <3>2, <3>3, Standing DEF TaskInv, OwnerInv, Live, Promise, Place
  <2>2. QED
    BY <1>6, <2>1, OwnersNext
<1>10. ChainInv'
  BY <1>7, ChainStays DEF TaskInv
<1>11. TurnInv'
  <2>1. CASE fr[f].at \in {"initial", "final"} /\ stack' = stack
    <3>1. RunningSame({})
      BY <1>2, <1>4, <1>5, <2>1 DEF RunningSame
    <3>2. QED
      BY <2>1, <3>1, TurnStays DEF TaskInv
  <2>2. CASE f = h /\ Leave(x)
    <3>1. RunningSame({h}) /\ fr'[h].at # "run"
      BY <1>2, <1>4, <1>5, <2>2 DEF RunningSame
    <3>2. QED
      BY <2>2, <3>1, TurnEnds DEF TaskInv
  <2>3. QED
    BY <2>1, <2>2
<1>12. ASSUME NEW g \in Frame PROVE ToResume(g)' <=> ToResume(g)
  <2>1. CASE g \in gone
    <3>1. ~ToResume(g)'
      BY <1>5, <2>1 DEF ToResume
    <3>2. ~ToResume(g)
      BY <1>1, <1>2, <2>1 DEF ToResume
    <3>3. QED
      BY <3>1, <3>2
  <2>2. CASE g \notin gone
    BY <1>4, <1>7, <2>2 DEF ToResume
  <2>3. QED
    BY <2>1, <2>2
<1>13. WaitInv'
  <2>1. ReadySame({})
    BY <1>12 DEF ReadySame
  <2>2. QED
    BY <2>1, WaitStays DEF TaskInv
<1>14. QED
  BY <1>4, <1>8, <1>9, <1>10, <1>11, <1>13 DEF TaskInv

LEMMA DropStep ==
  ASSUME TaskInv, NEW x \in Thread, NEW h \in Frame, Runs(x, h), NEW c \in Frame, Drop(x, h, c)
  PROVE  TaskInv'
<1>1. fr[c].at \in {"initial", "final"} /\ ~fr[c].detached
  BY Standing DEF Drop, Holds
<1>2. QED
  BY <1>1, FramesFreed DEF Drop

LEMMA EndDetachedStep ==
  ASSUME TaskInv, NEW x \in Thread, NEW h \in Frame, Runs(x, h), EndDetached(x, h)
  PROVE  TaskInv'
  BY FramesFreed DEF EndDetached

\* A frame that is made and freed at once.
LEMMA MainDropStep ==
  ASSUME TaskInv, MainDrop
  PROVE  TaskInv'
<1> DEFINE slots(f) == Remaining(Main, f, "void")
           kept(f) == IF Pools("void", SizeOf[f]) THEN Kept(slots(f), <<f>>) ELSE slots(f)
<1>1. PICK f \in Frame :
          /\ Allocates(Main, f, "void")
          /\ pool' = [pool EXCEPT ![Main] = kept(f)]
          /\ fr' = [fr EXCEPT ![f].at = IF f \in ToSet(kept(f)) THEN "pool" ELSE "heap"]
          /\ UNCHANGED <<stack, queue, got>>
  BY DEF MainDrop
<1> DEFINE s == slots(f)
           k == kept(f)
           p == IF In(f, k) THEN "pool" ELSE "heap"
<1>2. /\ fr[f].at \in {"heap", "pool"}
      /\ s \in Seq(Frame) /\ Len(s) <= PoolSlots /\ Distinct(s)
      /\ \A g : In(g, s) <=> In(g, pool[Main]) /\ g # f
      /\ \A y \in Pooling : y # Main => ~In(f, pool[y])
  BY <1>1, Allocated DEF TaskInv, Pooling
<1>3. /\ <<f>> \in Seq(Frame) /\ Distinct(<<f>>) /\ \A g : In(g, <<f>>) <=> g = f
  BY Single
<1>4. k = s \/ k = Kept(s, <<f>>)
  OBVIOUS
<1> HIDE DEF s, kept
<1>5. Apart(s, <<f>>)
  BY <1>2, <1>3 DEF Apart
<1>6. /\ k \in Seq(Frame) /\ Len(k) <= PoolSlots /\ Distinct(k)
      /\ \A g : In(g, s) => In(g, k)
      /\ \A g : In(g, k) => In(g, s) \/ g = f
  <2> DEFINE one == <<f>>
  <2> HIDE DEF one
  <2>1. /\ Kept(s, one) \in Seq(Frame) /\ Len(Kept(s, one)) <= PoolSlots
        /\ Distinct(Kept(s, one))
        /\ \A g : In(g, s) => In(g, Kept(s, one))
        /\ \A g : In(g, Kept(s, one)) => In(g, s) \/ In(g, one)
    BY <1>2, <1>3, <1>5, RoomKept DEF one
  <2>2. QED
    BY <1>2, <1>3, <1>4, <2>1 DEF one
<1> HIDE DEF k
<1>7. fr' = [fr EXCEPT ![f].at = p] /\ pool' = [pool EXCEPT ![Main] = k]
  <2>1. f \in ToSet(k) <=> In(f, k)
    BY <1>6, Indices
  <2>2. QED
    BY <1>1, <2>1 DEF k
<1>8. p \in {"heap", "pool"} /\ (p = "pool" <=> In(f, k))
  OBVIOUS
<1> HIDE DEF p
<1>9. /\ fr \in [Frame -> Promise]
      /\ fr[f].parent = Noop /\ ~fr[f].detached /\ fr[f].owner = Noop
  BY <1>2 DEF TaskInv, PromiseInv
<1>10. /\ fr' \in [Frame -> Promise] /\ fr'[f].at = p
       /\ \A g \in Frame : g # f => fr'[g] = fr[g]
       /\ fr'[f].parent = Noop /\ ~fr'[f].detached /\ fr'[f].owner = Noop
  <2>1. fr[f] \in Promise
    BY <1>9
  <2>2. [fr[f] EXCEPT !.at = p] \in Promise
    BY <1>8, <2>1 DEF Promise, Place
  <2>3. fr'[f] = [fr[f] EXCEPT !.at = p] /\ \A g \in Frame : g # f => fr'[g] = fr[g]
    BY <1>7, <1>9
  <2>4. fr' \in [Frame -> Promise]
    BY <1>7, <1>9, <2>2
  <2>5. /\ fr'[f].at = p /\ fr'[f].parent = fr[f].parent /\ fr'[f].owner = fr[f].owner
        /\ fr'[f].detached = fr[f].detached
    BY <2>1, <2>3 DEF Promise
  <2>6. QED
    BY <1>9, <2>3, <2>4, <2>5
<1>11. \A c, h \in Frame : Under(c, h)' <=> Under(c, h)
  BY <1>2, <1>8, <1>10 DEF Under
<1>12. PromiseInv'
  BY <1>1, <1>8, <1>10 DEF TaskInv, PromiseInv
<1>13. OwnerInv'
  <2>1. \A g \in Frame : fr[g].owner # f
    BY <1>2, Standing
  <2>2. ASSUME NEW g \in Frame, fr'[g].at \notin {"heap", "pool"}
        PROVE  /\ fr'[g].detached <=> fr'[g].owner = Noop
               /\ fr'[g].owner \in Frame => fr'[fr'[g].owner].at \notin {"heap", "pool"}
               /\ ~fr'[g].detached /\ fr'[g].at \notin {"initial", "final"} =>
                    fr'[g].parent = fr'[g].owner /\ fr'[fr'[g].owner].at = "await"
    <3>1. fr'[g] = fr[g]
      BY <1>8, <1>10, <2>2
    <3>2. fr[g].owner \in Frame => fr'[fr[g].owner] = fr[fr[g].owner]
      BY <1>10, <2>1
    <3>3. ~fr[g].detached => fr[g].owner \in Frame
      BY <2>2, <3>1, Standing DEF Promise
    <3>4. QED
      BY <2>2, <3>1, <3>2, <3>3, Standing DEF TaskInv, OwnerInv, Live, Promise, Place
  <2>3. QED
    BY <1>10, <2>2, OwnersNext
<1>14. ChainInv'
  BY <1>11, ChainStays DEF TaskInv
<1>15. TurnInv'
  <2>1. RunningSame({})
    BY <1>2, <1>8, <1>10 DEF RunningSame
  <2>2. QED
    BY <1>1, <2>1, TurnStays DEF TaskInv
<1>16. WaitInv'
  <2>1. ~ToResume(f) /\ ~ToResume(f)'
    BY <1>2, <1>8, <1>10 DEF ToResume
  <2>2. ReadySame({f})
    BY <1>10, <1>11, SameReady
  <2>3. ReadySame({})
    BY <2>1, <2>2 DEF ReadySame
  <2>4. QED
    BY <1>1, <2>3, WaitStays DEF TaskInv
<1>17. PoolInv'
  <2>1. Main \in Pooling
    BY DEF Pooling
  <2>2. \A g \in Frame : In(g, k) => \A y \in Pooling : y # Main => ~In(g, pool[y])
    BY <1>2, <1>6, <2>1 DEF TaskInv, PoolInv
  <2>3. \A g \in Frame : In(g, k) => fr'[g].at = "pool"
    BY <1>2, <1>6, <1>8, <1>10, <2>1 DEF TaskInv, PoolInv
  <2>4. \A g \in Frame : ~In(g, k) /\ In(g, pool[Main]) => fr'[g].at # "pool"
    BY <1>2, <1>6, <1>8, <1>10
  <2>5. \A g \in Frame : ~In(g, k) /\ ~In(g, pool[Main]) => (fr'[g].at = "pool" <=> fr[g].at = "pool")
    <3>1. ~In(f, pool[Main]) => fr[f].at # "pool"
      BY <1>2 DEF TaskInv, PoolInv
    <3>2. QED
      BY <1>8, <1>10, <3>1
  <2>6. QED
    BY <1>6, <1>7, <2>1, <2>2, <2>3, <2>4, <2>5, PoolMoves DEF TaskInv
<1>18. QED
  BY <1>12, <1>13, <1>14, <1>15, <1>16, <1>17 DEF TaskInv

\* Frames change places and nothing else: nobody begins but a detached task, and
\* whoever waits for one that is still under way waits on.
LEMMA PlacesChange ==
  ASSUME TaskInv, \A f \in Frame : fr'[f] \in Promise,
         \A f \in Frame : /\ fr'[f].parent = fr[f].parent /\ fr'[f].owner = fr[f].owner
                          /\ fr'[f].detached = fr[f].detached
                          /\ fr'[f].at \in {"heap", "pool"} <=> fr[f].at \in {"heap", "pool"}
                          /\ fr'[f].at = "initial" => fr[f].at = "initial"
                          /\ fr[f].at \in {"initial", "final"} =>
                               fr'[f].at \in {"initial", "final"} \/ fr[f].detached,
         \A c, h \in Frame : Under(c, h) => fr'[h].at = "await" \/ fr'[c].at = "final"
  PROVE  OwnerInv' /\ ChainInv' /\ \A c, h \in Frame : Under(c, h)' => Under(c, h)
<1>1. ASSUME NEW f \in Frame, fr'[f].at \notin {"heap", "pool"}
      PROVE  /\ fr'[f].detached <=> fr'[f].owner = Noop
             /\ fr'[f].owner \in Frame => fr'[fr'[f].owner].at \notin {"heap", "pool"}
             /\ ~fr'[f].detached /\ fr'[f].at \notin {"initial", "final"} =>
                  fr'[f].parent = fr'[f].owner /\ fr'[fr'[f].owner].at = "await"
  <2>1. /\ fr[f].at \notin {"heap", "pool"} /\ (fr[f].detached <=> fr[f].owner = Noop)
        /\ fr[f].owner \in Frame => fr[fr[f].owner].at \notin {"heap", "pool"}
        /\ ~fr[f].detached => fr[f].owner \in Frame
    BY <1>1, Standing DEF Promise
  <2>2. fr'[f].owner \in Frame => fr'[fr'[f].owner].at \notin {"heap", "pool"}
    BY <2>1
  <2>3. ASSUME ~fr'[f].detached, fr'[f].at \notin {"initial", "final"}
        PROVE  fr'[f].parent = fr'[f].owner /\ fr'[fr'[f].owner].at = "await"
    <3>1. ~fr[f].detached /\ fr[f].at \notin {"initial", "final"} /\ fr[f].owner \in Frame
      BY <2>1, <2>3
    <3>2. fr[f].parent = fr[f].owner
      BY <2>1, <3>1, Standing DEF TaskInv, OwnerInv, Live, Promise, Place
    <3>3. Under(f, fr[f].owner)
      BY <2>1, <3>1, <3>2 DEF Under
    <3>4. QED
      BY <2>3, <3>1, <3>2, <3>3
  <2>4. QED
    BY <2>1, <2>2, <2>3
<1>2. OwnerInv'
  BY <1>1, OwnersNext
<1>3. ASSUME NEW c \in Frame, NEW h \in Frame, Under(c, h)'
      PROVE  Under(c, h)
  <2>1. fr[c].parent = h /\ fr'[c].at \notin {"final", "heap", "pool"}
    BY <1>3 DEF Under
  <2>2. ~fr[c].detached
    BY <2>1, FrameAssumption DEF TaskInv, PromiseInv
  <2>3. fr[c].at \notin {"final", "heap", "pool"}
    BY <2>1, <2>2
  <2>4. QED
    BY <2>1, <2>3 DEF Under
<1>4. ChainInv'
  BY <1>3, ChainStays DEF TaskInv
<1>5. QED
  BY <1>2, <1>3, <1>4

LEMMA GiveStep ==
  ASSUME TaskInv, NEW h \in Frame, NEW c \in Frame, NEW g \in Frame, Give(h, c, g)
  PROVE  TaskInv'
<1>1. /\ fr[c].at = "initial" /\ fr[g].at = "initial" /\ fr[c].owner = h /\ ~fr[c].detached
      /\ fr' = [fr EXCEPT ![c].owner = g] /\ UNCHANGED <<stack, queue, pool, got>>
  BY Standing DEF Give, Holds
<1>2. /\ fr' \in [Frame -> Promise] /\ fr'[c].owner = g
      /\ \A f \in Frame : f # c => fr'[f] = fr[f]
      /\ \A f \in Frame : /\ fr'[f].at = fr[f].at /\ fr'[f].parent = fr[f].parent
                          /\ fr'[f].detached = fr[f].detached /\ fr'[f].kind = fr[f].kind
                          /\ fr'[f].result = fr[f].result /\ fr'[f].on = fr[f].on
  BY <1>1 DEF TaskInv, PromiseInv, Promise
<1>3. \A d, f \in Frame : Under(d, f)' <=> Under(d, f)
  BY <1>2 DEF Under
<1>4. PromiseInv'
  BY <1>1, <1>2 DEF TaskInv, PromiseInv
<1>5. OwnerInv'
  <2>1. ASSUME NEW f \in Frame, fr'[f].at \notin {"heap", "pool"}
        PROVE  /\ fr'[f].detached <=> fr'[f].owner = Noop
               /\ fr'[f].owner \in Frame => fr'[fr'[f].owner].at \notin {"heap", "pool"}
               /\ ~fr'[f].detached /\ fr'[f].at \notin {"initial", "final"} =>
                    fr'[f].parent = fr'[f].owner /\ fr'[fr'[f].owner].at = "await"
    <3>1. CASE f = c
      BY <1>1, <1>2, <3>1, FrameAssumption
    <3>2. CASE f # c
      <4>1. fr'[f] = fr[f] /\ fr[f].at \notin {"heap", "pool"}
        BY <1>2, <2>1, <3>2
      <4>2. fr[f].owner \in Frame => fr'[fr[f].owner].at = fr[fr[f].owner].at
        BY <1>2
      <4>3. ~fr[f].detached => fr[f].owner \in Frame
        BY <4>1, Standing DEF Promise
      <4>4. QED
        BY <4>1, <4>2, <4>3, Standing DEF TaskInv, OwnerInv, Live, Promise, Place
    <3>3. QED
      BY <3>1, <3>2
  <2>2. QED
    BY <1>2, <2>1, OwnersNext
<1>6. ChainInv'
  BY <1>3, ChainStays DEF TaskInv
<1>7. TurnInv'
  BY <1>1, <1>2, TurnStays DEF TaskInv, RunningSame
<1>8. WaitInv'
  <2>1. ReadySame({})
    BY <1>2, <1>3, SameReady
  <2>2. QED
    BY <1>1, <2>1, WaitStays DEF TaskInv
<1>9. PoolInv'
  BY <1>1, <1>2, PoolStays DEF TaskInv
<1>10. QED
  BY <1>4, <1>5, <1>6, <1>7, <1>8, <1>9 DEF TaskInv

LEMMA AwaitDoneStep ==
  ASSUME TaskInv, NEW h \in Frame, NEW c \in Frame, AwaitDone(h, c)
  PROVE  TaskInv'
<1>1. /\ fr[c].at = "final" /\ got' = [got EXCEPT ![h] = Result(fr[c])]
      /\ UNCHANGED <<stack, queue, fr, pool>>
  BY DEF AwaitDone
<1>2. Result(fr[c]) \in {"value", "exception"}
  <2>1. fr[c] \in Promise /\ (fr[c].kind = "value" => fr[c].result # "mono")
    BY <1>1 DEF TaskInv, PromiseInv
  <2>2. QED
    BY <2>1 DEF Result, Promise
<1>3. PromiseInv'
  BY <1>1, <1>2 DEF TaskInv, PromiseInv
<1>4. \A d, f \in Frame : Under(d, f)' <=> Under(d, f)
  BY <1>1 DEF Under
<1>5. OwnerInv' /\ ChainInv'
  BY <1>1, <1>4, ChainStays DEF TaskInv, OwnerInv, Live
<1>6. TurnInv' /\ PoolInv'
  BY <1>1, TurnStays, PoolStays DEF TaskInv, RunningSame
<1>7. WaitInv'
  <2>1. ReadySame({})
    BY <1>1, <1>4, SameReady
  <2>2. QED
    BY <1>1, <2>1, WaitStays DEF TaskInv
<1>8. QED
  BY <1>3, <1>5, <1>6, <1>7 DEF TaskInv

LEMMA AwaitStep ==
  ASSUME TaskInv, NEW x \in Thread, NEW h \in Frame, Runs(x, h), NEW c \in Frame, Await(x, h, c)
  PROVE  TaskInv'
<1>1. /\ stack[x] = <<h>> /\ fr[h].at = "run" /\ fr[c].at = "initial" /\ fr[c].owner = h /\ c # h
      /\ ~fr[c].detached /\ Transfer(x, c) /\ UNCHANGED <<queue, pool, got>>
      /\ fr' = [fr EXCEPT ![c].parent = h, ![c].at = "run", ![h].at = "await"]
  BY OneRuns, Standing DEF Await, Holds, Promised, TaskInv
<1>2. /\ fr' \in [Frame -> Promise]
      /\ fr'[c].parent = h /\ fr'[c].at = "run" /\ fr'[h].at = "await" /\ fr'[h].parent = fr[h].parent
      /\ \A f \in Frame : f \notin {c, h} => fr'[f] = fr[f]
      /\ \A f \in Frame : /\ fr'[f].owner = fr[f].owner /\ fr'[f].detached = fr[f].detached
                          /\ fr'[f].kind = fr[f].kind /\ fr'[f].result = fr[f].result
                          /\ fr'[f].on = fr[f].on
  <2>1. fr[c] \in Promise /\ fr[h] \in Promise /\ fr \in [Frame -> Promise]
    BY DEF TaskInv, PromiseInv
  <2>2. /\ fr'[c] = [fr[c] EXCEPT !.parent = h, !.at = "run"]
        /\ fr'[h] = [fr[h] EXCEPT !.at = "await"]
        /\ \A f \in Frame : f \notin {c, h} => fr'[f] = fr[f]
        /\ DOMAIN fr' = Frame /\ fr' = [f \in Frame |-> fr'[f]]
    BY <1>1, <2>1
  <2>3. [fr[c] EXCEPT !.parent = h, !.at = "run"] \in Promise /\ [fr[h] EXCEPT !.at = "await"] \in Promise
    BY <2>1 DEF Promise, Place, Suspended
  <2>4. fr' \in [Frame -> Promise]
    BY <2>1, <2>2, <2>3
  <2>5. \A p \in Promise :
            LET q == [p EXCEPT !.parent = h, !.at = "run"]
                r == [p EXCEPT !.at = "await"]
            IN  /\ q.parent = h /\ q.at = "run" /\ r.at = "await" /\ r.parent = p.parent
                /\ q.owner = p.owner /\ q.detached = p.detached /\ q.kind = p.kind
                /\ q.result = p.result /\ q.on = p.on
                /\ r.owner = p.owner /\ r.detached = p.detached /\ r.kind = p.kind
                /\ r.result = p.result /\ r.on = p.on
    BY DEF Promise
  <2>6. ASSUME NEW f \in Frame
        PROVE  /\ fr'[f].owner = fr[f].owner /\ fr'[f].detached = fr[f].detached
               /\ fr'[f].kind = fr[f].kind /\ fr'[f].result = fr[f].result
               /\ fr'[f].on = fr[f].on
    <3>1. /\ fr'[c].owner = fr[c].owner /\ fr'[c].detached = fr[c].detached
          /\ fr'[c].kind = fr[c].kind /\ fr'[c].result = fr[c].result
          /\ fr'[c].on = fr[c].on
      BY <2>1, <2>2, <2>5
    <3>2. /\ fr'[h].owner = fr[h].owner /\ fr'[h].detached = fr[h].detached
          /\ fr'[h].kind = fr[h].kind /\ fr'[h].result = fr[h].result
          /\ fr'[h].on = fr[h].on
      BY <2>1, <2>2, <2>5
    <3>3. CASE f \notin {c, h}
      BY <2>2, <3>3
    <3>4. QED
      BY <3>1, <3>2, <3>3
  <2>7. /\ fr'[c].parent = h /\ fr'[c].at = "run"
        /\ fr'[h].at = "await" /\ fr'[h].parent = fr[h].parent
    BY <2>1, <2>2, <2>5
  <2>8. QED
    BY <2>2, <2>4, <2>6, <2>7
<1>3. \A d \in Frame : ~Under(d, h)
  BY <1>1, Standing
<1>4. \A d, f \in Frame : Under(d, f)' <=> Under(d, f) \/ (d = c /\ f = h)
  <2>1. ASSUME NEW f \in Frame
        PROVE  (Under(c, f)' <=> f = h) /\ ~Under(c, f)
    <3>1. Under(c, f)' <=> f = h
      BY <1>2 DEF Under
    <3>2. fr[c].parent = Noop
      BY <1>1 DEF TaskInv, PromiseInv
    <3>3. QED
      BY <3>1, <3>2, FrameAssumption DEF Under
  <2>2. ASSUME NEW d \in Frame, d # c, NEW f \in Frame
        PROVE  Under(d, f)' <=> Under(d, f)
    BY <1>1, <1>2, <2>2 DEF Under
  <2>3. ASSUME NEW f \in Frame
        PROVE  Under(h, f)' <=> Under(h, f)
    BY <1>1, <1>2 DEF Under
  <2>4. QED
    BY <2>1, <2>2, <2>3
<1>5. PromiseInv'
  <2>1. ~fr[c].detached
    BY <1>1
  <2>2. QED
    BY <1>1, <1>2, <2>1 DEF TaskInv, PromiseInv
<1>6. OwnerInv'
  <2>1. ASSUME NEW f \in Frame, fr'[f].at \notin {"heap", "pool"}
        PROVE  /\ fr'[f].detached <=> fr'[f].owner = Noop
               /\ fr'[f].owner \in Frame => fr'[fr'[f].owner].at \notin {"heap", "pool"}
               /\ ~fr'[f].detached /\ fr'[f].at \notin {"initial", "final"} =>
                    fr'[f].parent = fr'[f].owner /\ fr'[fr'[f].owner].at = "await"
    <3>1. /\ fr[f].at \notin {"heap", "pool"} /\ (fr[f].detached <=> fr[f].owner = Noop)
          /\ fr[f].owner \in Frame => fr[fr[f].owner].at \notin {"heap", "pool"}
          /\ ~fr[f].detached => fr[f].owner \in Frame
      <4>1. fr[f].at \notin {"heap", "pool"}
        BY <1>1, <1>2, <2>1
      <4>2. QED
        BY <4>1, Standing DEF Promise
    <3>2. \A g \in Frame : fr[g].at \notin {"heap", "pool"} => fr'[g].at \notin {"heap", "pool"}
      BY <1>1, <1>2
    <3>3. \A g \in Frame : fr[g].at = "await" => fr'[g].at = "await"
      BY <1>1, <1>2
    <3>4. CASE f = c
      BY <1>1, <1>2, <3>1, <3>2, <3>4
    <3>5. CASE f # c
      <4>1. fr'[f].parent = fr[f].parent /\ (fr'[f].at \in {"initial", "final"} <=> fr[f].at \in {"initial", "final"})
        BY <1>1, <1>2, <3>5
      <4>2. ~fr[f].detached /\ fr[f].at \notin {"initial", "final"} =>
               fr[f].parent = fr[f].owner /\ fr[fr[f].owner].at = "await"
        BY <3>1, Standing DEF TaskInv, OwnerInv, Live, Promise, Place
      <4>3. QED
        BY <1>2, <3>1, <3>2, <3>3, <4>1, <4>2
    <3>6. QED
      BY <3>4, <3>5
  <2>2. QED
    BY <1>2, <2>1, OwnersNext
<1>7. ChainInv'
  BY <1>3, <1>4 DEF TaskInv, ChainInv
<1>8. TurnInv'
  <2>1. stack' = [stack EXCEPT ![x] = <<c>>]
    <3>1. <<c>> \o Tail(stack[x]) = <<c>>
      BY <1>1
    <3>2. QED
      BY <1>1, <3>1 DEF Transfer
  <2>2. \A f \in Frame : stack[x] = <<f>> <=> f = h
    BY <1>1
  <2>3. \A f \in Frame : stack[x] = <<f>> => fr'[f].at # "run"
    BY <1>2, <2>2
  <2>4. \A f \in Frame : f # c /\ stack[x] # <<f>> => (fr'[f].at = "run" <=> fr[f].at = "run")
    BY <1>2, <2>2
  <2>5. TurnInv /\ fr[c].at # "run" /\ fr'[c].at = "run"
    BY <1>1, <1>2 DEF TaskInv
  <2>6. QED
    BY <2>1, <2>3, <2>4, <2>5, TurnGoes
<1>9. WaitInv'
  <2>1. ~ToResume(c) /\ ~ToResume(c)'
    BY <1>1, <1>2 DEF ToResume
  <2>2. ~ToResume(h) /\ ~ToResume(h)'
    <3>1. Under(c, h)'
      BY <1>4
    <3>2. QED
      BY <1>1, <1>2, <3>1 DEF ToResume
  <2>3. ASSUME NEW f \in Frame, f # c, f # h
        PROVE  ToResume(f)' <=> ToResume(f)
    <3>1. fr'[f] = fr[f] /\ \A d \in Frame : Under(d, f)' <=> Under(d, f)
      BY <1>2, <1>4, <2>3
    <3>2. QED
      BY <3>1 DEF ToResume
  <2>4. ReadySame({})
    BY <2>1, <2>2, <2>3 DEF ReadySame
  <2>5. QED
    BY <1>1, <2>4, WaitStays DEF TaskInv
<1>10. PoolInv'
  <2>1. \A f \in Frame : fr'[f].at = "pool" <=> fr[f].at = "pool"
    BY <1>1, <1>2
  <2>2. QED
    BY <1>1, <2>1, PoolStays DEF TaskInv
<1>11. QED
  BY <1>5, <1>6, <1>7, <1>8, <1>9, <1>10 DEF TaskInv

LEMMA ParkStep ==
  ASSUME TaskInv, NEW x \in Thread, NEW h \in Frame, Runs(x, h), Park(x, h)
  PROVE  TaskInv'
<1>1. /\ fr[h].at = "run" /\ Leave(x) /\ UNCHANGED <<queue, pool, got>>
      /\ fr' = [fr EXCEPT ![h].at = "parked", ![h].on = x]
  BY OneRuns DEF Park, TaskInv
<1>2. /\ fr' \in [Frame -> Promise]
      /\ fr'[h].at = "parked" /\ fr'[h].on = x /\ fr'[h].parent = fr[h].parent
      /\ fr'[h].owner = fr[h].owner /\ fr'[h].detached = fr[h].detached
      /\ fr'[h].kind = fr[h].kind
      /\ \A f \in Frame : f # h => fr'[f] = fr[f]
  <2>1. fr[h] \in Promise /\ fr \in [Frame -> Promise]
    BY DEF TaskInv, PromiseInv
  <2>2. fr'[h] = [fr[h] EXCEPT !.at = "parked", !.on = x] /\ \A f \in Frame : f # h => fr'[f] = fr[f]
    BY <1>1, <2>1
  <2>3. [fr[h] EXCEPT !.at = "parked", !.on = x] \in Promise
    BY <2>1 DEF Promise, Place, Suspended
  <2>4. fr' \in [Frame -> Promise]
    BY <1>1, <2>1, <2>2, <2>3
  <2>5. QED
    BY <2>1, <2>2, <2>4 DEF Promise
<1>3. PromiseInv'
  BY <1>1, <1>2 DEF TaskInv, PromiseInv
<1>4. OwnerInv' /\ ChainInv'
  <2>1. \A f \in Frame : fr'[f] \in Promise
    BY <1>2
  <2>2. \A c, g \in Frame : Under(c, g) => fr'[g].at = "await" \/ fr'[c].at = "final"
    BY <1>1, <1>2, Standing
  <2>3. \A f \in Frame : /\ fr'[f].parent = fr[f].parent /\ fr'[f].owner = fr[f].owner
                         /\ fr'[f].detached = fr[f].detached
                         /\ fr'[f].at \in {"heap", "pool"} <=> fr[f].at \in {"heap", "pool"}
                         /\ fr'[f].at = "initial" => fr[f].at = "initial"
                         /\ fr[f].at \in {"initial", "final"} =>
                              fr'[f].at \in {"initial", "final"} \/ fr[f].detached
    BY <1>1, <1>2
  <2>4. QED
    BY <2>1, <2>2, <2>3, PlacesChange
<1>5. \A c, g \in Frame : Under(c, g)' <=> Under(c, g)
  BY <1>1, <1>2 DEF Under
<1>6. TurnInv'
  <2>1. fr'[h].at # "run" /\ RunningSame({h})
    BY <1>2 DEF RunningSame
  <2>2. QED
    BY <1>1, <2>1, TurnEnds DEF TaskInv
<1>7. WaitInv'
  <2>1. ReadySame({h})
    BY <1>2, <1>5, SameReady
  <2>2. ~ToResume(h) /\ ~ToResume(h)'
    BY <1>1, <1>2 DEF ToResume
  <2>3. ReadySame({})
    BY <2>1, <2>2 DEF ReadySame
  <2>4. QED
    BY <1>1, <2>3, WaitStays DEF TaskInv
<1>8. PoolInv'
  <2>1. \A f \in Frame : fr'[f].at = "pool" <=> fr[f].at = "pool"
    BY <1>1, <1>2
  <2>2. QED
    BY <1>1, <2>1, PoolStays DEF TaskInv
<1>9. QED
  BY <1>3, <1>4, <1>6, <1>7, <1>8 DEF TaskInv

LEMMA WakeStep ==
  ASSUME TaskInv, NEW f \in Frame, Wake(f)
  PROVE  TaskInv'
<1>1. /\ fr[f].at = "parked" /\ fr[f].on \in Thread /\ UNCHANGED <<stack, pool, got>>
      /\ fr' = [fr EXCEPT ![f].at = "woken", ![f].on = Main] /\ queue' = Posted(fr[f].on, f)
  BY DEF Wake, TaskInv, PromiseInv
<1>2. /\ fr' \in [Frame -> Promise]
      /\ fr'[f].at = "woken" /\ fr'[f].parent = fr[f].parent
      /\ fr'[f].owner = fr[f].owner /\ fr'[f].detached = fr[f].detached
      /\ fr'[f].kind = fr[f].kind
      /\ \A g \in Frame : g # f => fr'[g] = fr[g]
  <2>1. fr[f] \in Promise /\ fr \in [Frame -> Promise]
    BY DEF TaskInv, PromiseInv
  <2>2. fr'[f] = [fr[f] EXCEPT !.at = "woken", !.on = Main] /\ \A g \in Frame : g # f => fr'[g] = fr[g]
    BY <1>1, <2>1
  <2>3. [fr[f] EXCEPT !.at = "woken", !.on = Main] \in Promise
    BY <2>1 DEF Promise, Place, Suspended
  <2>4. fr' \in [Frame -> Promise]
    BY <1>1, <2>1, <2>2, <2>3
  <2>5. QED
    BY <2>1, <2>2, <2>4 DEF Promise
<1>3. PromiseInv'
  BY <1>1, <1>2 DEF TaskInv, PromiseInv
<1>4. OwnerInv' /\ ChainInv'
  <2>1. \A g \in Frame : fr'[g] \in Promise
    BY <1>2
  <2>2. \A c, g \in Frame : Under(c, g) => fr'[g].at = "await" \/ fr'[c].at = "final"
    BY <1>1, <1>2, Standing
  <2>3. \A g \in Frame : /\ fr'[g].parent = fr[g].parent /\ fr'[g].owner = fr[g].owner
                         /\ fr'[g].detached = fr[g].detached
                         /\ fr'[g].at \in {"heap", "pool"} <=> fr[g].at \in {"heap", "pool"}
                         /\ fr'[g].at = "initial" => fr[g].at = "initial"
                         /\ fr[g].at \in {"initial", "final"} =>
                              fr'[g].at \in {"initial", "final"} \/ fr[g].detached
    BY <1>1, <1>2
  <2>4. QED
    BY <2>1, <2>2, <2>3, PlacesChange
<1>5. \A c, g \in Frame : Under(c, g)' <=> Under(c, g)
  BY <1>1, <1>2 DEF Under
<1>6. TurnInv'
  <2>1. RunningSame({})
    BY <1>1, <1>2 DEF RunningSame
  <2>2. QED
    BY <1>1, <2>1, TurnStays DEF TaskInv
<1>7. WaitInv'
  <2>1. ReadySame({f})
    BY <1>2, <1>5, SameReady
  <2>2. ~ToResume(f) /\ ToResume(f)'
    BY <1>1, <1>2 DEF ToResume
  <2>3. QED
    BY <1>1, <2>1, <2>2, WaitJoins DEF TaskInv
<1>8. PoolInv'
  <2>1. \A g \in Frame : fr'[g].at = "pool" <=> fr[g].at = "pool"
    BY <1>1, <1>2
  <2>2. QED
    BY <1>1, <2>1, PoolStays DEF TaskInv
<1>9. QED
  BY <1>3, <1>4, <1>6, <1>7, <1>8 DEF TaskInv

LEMMA SpawnStep ==
  ASSUME TaskInv, NEW h \in Frame, NEW c \in Frame, NEW y \in Thread, Spawn(h, c, y)
  PROVE  TaskInv'
<1>1. /\ fr[c].at = "initial" /\ fr[c].kind = "void" /\ fr[c].owner = h /\ ~fr[c].detached
      /\ fr' = [fr EXCEPT ![c].detached = TRUE, ![c].owner = Noop]
      /\ queue' = Posted(y, c) /\ UNCHANGED <<stack, pool, got>>
  BY Standing DEF Spawn, Holds
<1>2. /\ fr' \in [Frame -> Promise]
      /\ fr'[c].detached /\ fr'[c].owner = Noop /\ fr'[c].kind = "void"
      /\ fr'[c].at = "initial" /\ fr'[c].parent = fr[c].parent
      /\ \A g \in Frame : g # c => fr'[g] = fr[g]
  <2>1. fr[c] \in Promise /\ fr \in [Frame -> Promise]
    BY DEF TaskInv, PromiseInv
  <2>2. /\ fr'[c] = [fr[c] EXCEPT !.detached = TRUE, !.owner = Noop]
        /\ \A g \in Frame : g # c => fr'[g] = fr[g]
    BY <1>1, <2>1
  <2>3. [fr[c] EXCEPT !.detached = TRUE, !.owner = Noop] \in Promise
    BY <2>1 DEF Promise
  <2>4. fr' \in [Frame -> Promise]
    BY <1>1, <2>1, <2>2, <2>3
  <2>5. QED
    BY <1>1, <2>1, <2>2, <2>4 DEF Promise
<1>3. PromiseInv'
  BY <1>1, <1>2 DEF TaskInv, PromiseInv
<1>4. \A d, g \in Frame : Under(d, g)' <=> Under(d, g)
  BY <1>1, <1>2 DEF Under
<1>5. OwnerInv'
  <2>1. ASSUME NEW f \in Frame, fr'[f].at \notin {"heap", "pool"}
        PROVE  /\ fr'[f].detached <=> fr'[f].owner = Noop
               /\ fr'[f].owner \in Frame => fr'[fr'[f].owner].at \notin {"heap", "pool"}
               /\ ~fr'[f].detached /\ fr'[f].at \notin {"initial", "final"} =>
                    fr'[f].parent = fr'[f].owner /\ fr'[fr'[f].owner].at = "await"
    <3>1. CASE f = c
      BY <1>2, <3>1, FrameAssumption
    <3>2. CASE f # c
      <4>1. fr'[f] = fr[f] /\ fr[f].at \notin {"heap", "pool"}
        BY <1>2, <2>1, <3>2
      <4>2. fr[f].owner \in Frame => fr'[fr[f].owner].at = fr[fr[f].owner].at
        BY <1>1, <1>2
      <4>3. ~fr[f].detached => fr[f].owner \in Frame
        BY <4>1, Standing DEF Promise
      <4>4. QED
        BY <4>1, <4>2, <4>3, Standing DEF TaskInv, OwnerInv, Live, Promise, Place
    <3>3. QED
      BY <3>1, <3>2
  <2>2. QED
    BY <1>2, <2>1, OwnersNext
<1>6. ChainInv'
  BY <1>4, ChainStays DEF TaskInv
<1>7. TurnInv'
  <2>1. RunningSame({})
    BY <1>1, <1>2 DEF RunningSame
  <2>2. QED
    BY <1>1, <2>1, TurnStays DEF TaskInv
<1>8. WaitInv'
  <2>1. ReadySame({c})
    BY <1>2, <1>4, SameReady
  <2>2. ~ToResume(c) /\ ToResume(c)'
    BY <1>1, <1>2 DEF ToResume
  <2>3. QED
    BY <1>1, <2>1, <2>2, WaitJoins DEF TaskInv
<1>9. PoolInv'
  <2>1. \A g \in Frame : fr'[g].at = "pool" <=> fr[g].at = "pool"
    BY <1>1, <1>2
  <2>2. QED
    BY <1>1, <2>1, PoolStays DEF TaskInv
<1>10. QED
  BY <1>3, <1>5, <1>6, <1>7, <1>8, <1>9 DEF TaskInv

LEMMA RunStep ==
  ASSUME TaskInv, NEW x \in Thread, Run(x)
  PROVE  TaskInv'
<1>1. PICK f \in Frame : /\ RunNext(x, f) /\ fr' = [fr EXCEPT ![f].at = "run"]
                         /\ UNCHANGED <<pool, got>>
  BY DEF Run
<1>2. /\ stack[x] = <<>> /\ queue[x] # <<>> /\ f = Head(queue[x])
      /\ queue' = [queue EXCEPT ![x] = Tail(@)] /\ stack' = [stack EXCEPT ![x] = <<f>> \o @]
  BY <1>1 DEF RunNext, Resume
<1>3. ToResume(f) /\ \A g \in Frame : ~Under(g, f)
  <2>1. ToResume(f)
    BY <1>2, WaitServed DEF TaskInv
  <2>2. QED
    BY <2>1, Standing DEF ToResume
<1>4. /\ fr[f].at \in {"woken", "initial", "await"}
      /\ fr[f].at = "initial" => fr[f].detached
  BY <1>3 DEF ToResume
<1>5. /\ fr' \in [Frame -> Promise]
      /\ fr'[f].at = "run" /\ fr'[f].parent = fr[f].parent
      /\ fr'[f].owner = fr[f].owner /\ fr'[f].detached = fr[f].detached
      /\ fr'[f].kind = fr[f].kind
      /\ \A g \in Frame : g # f => fr'[g] = fr[g]
  <2>1. fr[f] \in Promise /\ fr \in [Frame -> Promise]
    BY DEF TaskInv, PromiseInv
  <2>2. fr'[f] = [fr[f] EXCEPT !.at = "run"] /\ \A g \in Frame : g # f => fr'[g] = fr[g]
    BY <1>1, <2>1
  <2>3. [fr[f] EXCEPT !.at = "run"] \in Promise
    BY <2>1 DEF Promise, Place, Suspended
  <2>4. fr' \in [Frame -> Promise]
    BY <1>1, <2>1, <2>2, <2>3
  <2>5. QED
    BY <2>1, <2>2, <2>4 DEF Promise
<1>6. PromiseInv'
  BY <1>1, <1>4, <1>5 DEF TaskInv, PromiseInv
<1>7. OwnerInv' /\ ChainInv'
  <2>1. \A g \in Frame : fr'[g] \in Promise
    BY <1>5
  <2>2. \A c, g \in Frame : Under(c, g) => fr'[g].at = "await" \/ fr'[c].at = "final"
    BY <1>3, <1>5, Standing
  <2>3. \A g \in Frame : /\ fr'[g].parent = fr[g].parent /\ fr'[g].owner = fr[g].owner
                         /\ fr'[g].detached = fr[g].detached
                         /\ fr'[g].at \in {"heap", "pool"} <=> fr[g].at \in {"heap", "pool"}
                         /\ fr'[g].at = "initial" => fr[g].at = "initial"
                         /\ fr[g].at \in {"initial", "final"} =>
                              fr'[g].at \in {"initial", "final"} \/ fr[g].detached
    BY <1>4, <1>5
  <2>4. QED
    BY <2>1, <2>2, <2>3, PlacesChange
<1>8. \A c, g \in Frame : Under(c, g)' <=> Under(c, g)
  BY <1>4, <1>5 DEF Under
<1>9. TurnInv'
  <2>1. <<f>> \o stack[x] = <<f>> /\ \A g \in Frame : stack[x] # <<g>>
    BY <1>2
  <2>2. stack' = [stack EXCEPT ![x] = <<f>>]
    BY <1>2, <2>1
  <2>3. TurnInv /\ fr[f].at # "run" /\ fr'[f].at = "run"
    BY <1>4, <1>5 DEF TaskInv
  <2>4. \A g \in Frame : g # f /\ stack[x] # <<g>> => (fr'[g].at = "run" <=> fr[g].at = "run")
    BY <1>5
  <2>5. QED
    BY <2>1, <2>2, <2>3, <2>4, TurnGoes
<1>10. WaitInv'
  <2>1. ReadySame({f})
    BY <1>5, <1>8, SameReady
  <2>2. ~ToResume(f)'
    BY <1>5 DEF ToResume
  <2>3. QED
    BY <1>2, <2>1, <2>2, WaitServed DEF TaskInv
<1>11. PoolInv'
  <2>1. \A g \in Frame : fr'[g].at = "pool" <=> fr[g].at = "pool"
    BY <1>4, <1>5
  <2>2. QED
    BY <1>1, <2>1, PoolStays DEF TaskInv
<1>12. QED
  BY <1>6, <1>7, <1>9, <1>10, <1>11 DEF TaskInv

\* A task that has ended is final, and keeps its result.
LEMMA EndedFrame ==
  ASSUME TaskInv, NEW h \in Frame, NEW v \in {"value", "exception"}
  PROVE  /\ Ended(h, v) \in Promise /\ Ended(h, v).at = "final"
         /\ Ended(h, v).parent = fr[h].parent /\ Ended(h, v).owner = fr[h].owner
         /\ Ended(h, v).detached = fr[h].detached /\ Ended(h, v).kind = fr[h].kind
         /\ fr[h].kind = "value" => Ended(h, v).result # "mono"
         /\ Result(Ended(h, v)) \in {"value", "exception"}
<1> DEFINE r == IF fr[h].kind = "value" \/ (fr[h].kind = "void" /\ v = "exception") THEN v ELSE "mono"
<1>1. fr[h] \in Promise
  BY DEF TaskInv, PromiseInv
<1>2. Ended(h, v) = [fr[h] EXCEPT !.at = "final", !.result = r]
  BY DEF Ended
<1>3. r \in {"mono", "value", "exception"} /\ (fr[h].kind = "value" => r # "mono")
  OBVIOUS
<1> HIDE DEF r
<1>4. /\ Ended(h, v) \in Promise /\ Ended(h, v).at = "final" /\ Ended(h, v).result = r
      /\ Ended(h, v).parent = fr[h].parent /\ Ended(h, v).owner = fr[h].owner
      /\ Ended(h, v).detached = fr[h].detached /\ Ended(h, v).kind = fr[h].kind
  BY <1>1, <1>2, <1>3 DEF Promise, Place, Suspended
<1>5. Result(Ended(h, v)) \in {"value", "exception"}
  BY <1>3, <1>4 DEF Result
<1>6. QED
  BY <1>3, <1>4, <1>5

\* Whoever awaits the task that ends has nothing else to wait for.
LEMMA ParentWaits ==
  ASSUME TaskInv, NEW h \in Frame, fr[h].at = "run", ~fr[h].detached
  PROVE  /\ fr[h].parent \in Frame /\ Under(h, fr[h].parent) /\ fr[fr[h].parent].at = "await"
         /\ fr[h].parent # h /\ ~ToResume(fr[h].parent)
         /\ \A c \in Frame : Under(c, fr[h].parent) => c = h
<1>1. fr[h].owner \in Frame /\ fr[h].parent = fr[h].owner
  <2>1. fr[h].owner \in Frame
    BY Standing DEF Promise
  <2>2. h \in Live
    BY DEF Live
  <2>3. QED
    BY <2>1, <2>2 DEF TaskInv, OwnerInv
<1>2. Under(h, fr[h].parent)
  BY <1>1 DEF Under
<1>3. fr[fr[h].parent].at = "await"
  BY <1>1, <1>2, Standing
<1>4. QED
  BY <1>1, <1>2, <1>3 DEF TaskInv, ChainInv, ToResume

LEMMA EndTaskStep ==
  ASSUME TaskInv, NEW x \in Thread, NEW h \in Frame, Runs(x, h),
         NEW v \in {"value", "exception"}, EndTask(x, h, v)
  PROVE  TaskInv'
<1> DEFINE e == Ended(h, v)
<1>1. fr[h].at = "run" /\ stack[x] = <<h>> /\ ~fr[h].detached
  BY OneRuns DEF EndTask, TaskInv
<1>2. PICK p \in Frame :
          /\ p = fr[h].parent /\ p # Noop /\ Under(h, p) /\ fr[p].at = "await" /\ p # h
          /\ ~ToResume(p)
          /\ \A c \in Frame : Under(c, p) => c = h
  BY <1>1, ParentWaits, FrameAssumption
<1>3. /\ fr' = [[fr EXCEPT ![h] = e] EXCEPT ![p].at = "run"]
      /\ Transfer(x, p) /\ got' = [got EXCEPT ![p] = Result(e)] /\ UNCHANGED <<queue, pool>>
  BY <1>2 DEF EndTask
<1>4. /\ e \in Promise /\ e.at = "final"
      /\ e.parent = fr[h].parent /\ e.owner = fr[h].owner
      /\ e.detached = fr[h].detached /\ e.kind = fr[h].kind
      /\ fr[h].kind = "value" => e.result # "mono"
      /\ Result(e) \in {"value", "exception"}
  BY EndedFrame
<1> HIDE DEF e
<1>5. /\ fr' \in [Frame -> Promise] /\ fr'[h] = e
      /\ fr'[p].at = "run" /\ fr'[p].parent = fr[p].parent
      /\ fr'[p].owner = fr[p].owner /\ fr'[p].detached = fr[p].detached
      /\ fr'[p].kind = fr[p].kind
      /\ \A g \in Frame : g # h /\ g # p => fr'[g] = fr[g]
  <2>1. fr[p] \in Promise /\ fr \in [Frame -> Promise]
    BY <1>2 DEF TaskInv, PromiseInv
  <2>2. /\ fr'[h] = e /\ fr'[p] = [fr[p] EXCEPT !.at = "run"]
        /\ \A g \in Frame : g # h /\ g # p => fr'[g] = fr[g]
    BY <1>2, <1>3, <2>1
  <2>3. [fr[p] EXCEPT !.at = "run"] \in Promise
    BY <2>1 DEF Promise, Place, Suspended
  <2>4. fr' \in [Frame -> Promise]
    BY <1>2, <1>3, <1>4, <2>1, <2>2, <2>3
  <2>5. QED
    BY <2>1, <2>2, <2>4 DEF Promise
<1>6. PromiseInv'
  <2>1. got' \in [Frame -> {"nothing", "value", "exception"}]
    BY <1>3, <1>4 DEF TaskInv, PromiseInv
  <2>2. ASSUME NEW f \in Frame
        PROVE  /\ fr'[f].at \in {"heap", "pool"} =>
                    fr'[f].parent = Noop /\ fr'[f].owner = Noop /\ ~fr'[f].detached
               /\ fr'[f].at = "initial" => fr'[f].parent = Noop
               /\ fr'[f].at = "final" /\ fr'[f].kind = "value" => fr'[f].result # "mono"
               /\ fr'[f].at = "parked" => fr'[f].on \in Thread
               /\ fr'[f].detached => /\ fr'[f].at # "final" /\ fr'[f].kind = "void"
                                     /\ fr'[f].parent = Noop
    <3>1. CASE f = h
      BY <1>1, <1>4, <1>5, <3>1
    <3>2. CASE f = p
      BY <1>2, <1>5, <3>2 DEF TaskInv, PromiseInv
    <3>3. CASE f # h /\ f # p
      BY <1>5, <3>3 DEF TaskInv, PromiseInv
    <3>4. QED
      BY <3>1, <3>2, <3>3
  <2>3. QED
    BY <1>5, <2>1, <2>2 DEF PromiseInv
<1>7. OwnerInv' /\ ChainInv' /\ \A c, g \in Frame : Under(c, g)' => Under(c, g)
  <2>1. \A f \in Frame : fr'[f] \in Promise
    BY <1>5
  <2>2. ASSUME NEW c \in Frame, NEW g \in Frame, Under(c, g)
        PROVE  fr'[g].at = "await" \/ fr'[c].at = "final"
    <3>1. CASE c = h
      BY <1>4, <1>5, <3>1
    <3>2. CASE c # h
      <4>1. g # p /\ g # h /\ fr[g].at = "await"
        BY <1>1, <1>2, <2>2, <3>2, Standing
      <4>2. QED
        BY <1>5, <4>1
    <3>3. QED
      BY <3>1, <3>2
  <2>3. ASSUME NEW f \in Frame
        PROVE  /\ fr'[f].parent = fr[f].parent /\ fr'[f].owner = fr[f].owner
               /\ fr'[f].detached = fr[f].detached
               /\ fr'[f].at \in {"heap", "pool"} <=> fr[f].at \in {"heap", "pool"}
               /\ fr'[f].at = "initial" => fr[f].at = "initial"
               /\ fr[f].at \in {"initial", "final"} =>
                    fr'[f].at \in {"initial", "final"} \/ fr[f].detached
    <3>1. CASE f = h
      BY <1>1, <1>4, <1>5, <3>1
    <3>2. CASE f = p
      BY <1>2, <1>5, <3>2
    <3>3. CASE f # h /\ f # p
      BY <1>5, <3>3
    <3>4. QED
      BY <3>1, <3>2, <3>3
  <2>4. QED
    BY <2>1, <2>2, <2>3, PlacesChange
<1>8. TurnInv'
  <2>1. <<p>> \o Tail(stack[x]) = <<p>> /\ \A f \in Frame : stack[x] = <<f>> <=> f = h
    BY <1>1
  <2>2. stack' = [stack EXCEPT ![x] = <<p>>]
    BY <1>3, <2>1 DEF Transfer
  <2>3. \A f \in Frame : stack[x] = <<f>> => fr'[f].at # "run"
    BY <1>4, <1>5, <2>1
  <2>4. \A f \in Frame : f # p /\ stack[x] # <<f>> => (fr'[f].at = "run" <=> fr[f].at = "run")
    BY <1>5, <2>1
  <2>5. TurnInv /\ fr[p].at # "run" /\ fr'[p].at = "run"
    BY <1>2, <1>5 DEF TaskInv
  <2>6. QED
    BY <1>2, <2>2, <2>3, <2>4, <2>5, TurnGoes
<1>9. WaitInv'
  <2>1. ~ToResume(h) /\ ~ToResume(h)' /\ ~ToResume(p)'
    BY <1>1, <1>4, <1>5 DEF ToResume
  <2>2. ASSUME NEW f \in Frame, f # h, f # p
        PROVE  ToResume(f)' <=> ToResume(f)
    <3>1. fr'[f] = fr[f]
      BY <1>5, <2>2
    <3>2. ASSUME NEW c \in Frame
          PROVE  Under(c, f)' <=> Under(c, f)
      <4>1. fr'[c].parent = fr[c].parent
        BY <1>4, <1>5
      <4>2. CASE c = h
        BY <1>2, <2>2, <4>1, <4>2 DEF Under
      <4>3. CASE c = p
        BY <1>2, <1>5, <4>3 DEF Under
      <4>4. CASE c # h /\ c # p
        BY <1>5, <4>4 DEF Under
      <4>5. QED
        BY <4>2, <4>3, <4>4
    <3>3. QED
      BY <3>1, <3>2 DEF ToResume
  <2>3. ReadySame({})
    BY <1>2, <2>1, <2>2 DEF ReadySame
  <2>4. QED
    BY <1>3, <2>3, WaitStays DEF TaskInv
<1>10. PoolInv'
  <2>1. \A f \in Frame : fr'[f].at = "pool" <=> fr[f].at = "pool"
    BY <1>1, <1>2, <1>4, <1>5
  <2>2. QED
    BY <1>3, <2>1, PoolStays DEF TaskInv
<1>11. QED
  BY <1>6, <1>7, <1>8, <1>9, <1>10 DEF TaskInv

LEMMA EndTrivialStep ==
  ASSUME TaskInv, NEW x \in Thread, NEW h \in Frame, Runs(x, h), EndTrivial(x, h)
  PROVE  TaskInv'
<1> DEFINE e == Ended(h, "value")
<1>1. fr[h].at = "run" /\ fr[h].kind = "trivial" /\ ~fr[h].detached
  BY OneRuns DEF EndTrivial, TaskInv, PromiseInv
<1>2. PICK p \in Frame :
          /\ p = fr[h].parent /\ Under(h, p) /\ fr[p].at = "await" /\ p # h
          /\ ~ToResume(p)
          /\ \A c \in Frame : Under(c, p) => c = h
  BY <1>1, ParentWaits
<1>3. /\ fr' = [fr EXCEPT ![h] = e]
      /\ Leave(x) /\ queue' = Posted(x, p) /\ UNCHANGED <<pool, got>>
  BY <1>2 DEF EndTrivial
<1>4. /\ e \in Promise /\ e.at = "final"
      /\ e.parent = fr[h].parent /\ e.owner = fr[h].owner
      /\ e.detached = fr[h].detached /\ e.kind = fr[h].kind
  BY EndedFrame
<1> HIDE DEF e
<1>5. /\ fr' \in [Frame -> Promise] /\ fr'[h] = e
      /\ \A g \in Frame : g # h => fr'[g] = fr[g]
  BY <1>3, <1>4 DEF TaskInv, PromiseInv
<1>6. PromiseInv'
  BY <1>1, <1>3, <1>4, <1>5 DEF TaskInv, PromiseInv
<1>7. OwnerInv' /\ ChainInv' /\ \A c, g \in Frame : Under(c, g)' => Under(c, g)
  <2>1. \A f \in Frame : fr'[f] \in Promise
    BY <1>5
  <2>2. \A c, g \in Frame : Under(c, g) => fr'[g].at = "await" \/ fr'[c].at = "final"
    BY <1>1, <1>4, <1>5, Standing
  <2>3. \A f \in Frame :
           /\ fr'[f].parent = fr[f].parent /\ fr'[f].owner = fr[f].owner
           /\ fr'[f].detached = fr[f].detached
           /\ fr'[f].at \in {"heap", "pool"} <=> fr[f].at \in {"heap", "pool"}
           /\ fr'[f].at = "initial" => fr[f].at = "initial"
           /\ fr[f].at \in {"initial", "final"} =>
                fr'[f].at \in {"initial", "final"} \/ fr[f].detached
    BY <1>1, <1>4, <1>5
  <2>4. QED
    BY <2>1, <2>2, <2>3, PlacesChange
<1>8. TurnInv'
  <2>1. fr'[h].at # "run" /\ RunningSame({h})
    BY <1>4, <1>5 DEF RunningSame
  <2>2. QED
    BY <1>3, <2>1, TurnEnds DEF TaskInv
<1>9. \A c \in Frame : ~Under(c, p)'
  <2>1. ~Under(h, p)'
    BY <1>4, <1>5 DEF Under
  <2>2. QED
    BY <1>2, <1>7, <2>1
<1>10. WaitInv'
  <2>1. ~ToResume(h) /\ ~ToResume(h)' /\ ToResume(p)'
    BY <1>1, <1>2, <1>4, <1>5, <1>9 DEF ToResume
  <2>2. ASSUME NEW f \in Frame, f # h, f # p
        PROVE  ToResume(f)' <=> ToResume(f)
    <3>1. fr'[f] = fr[f]
      BY <1>5, <2>2
    <3>2. \A c \in Frame : Under(c, f)' <=> Under(c, f)
      BY <1>2, <1>4, <1>5, <2>2 DEF Under
    <3>3. QED
      BY <3>1, <3>2 DEF ToResume
  <2>3. ReadySame({p})
    BY <2>1, <2>2 DEF ReadySame
  <2>4. QED
    BY <1>2, <1>3, <2>1, <2>3, WaitJoins DEF TaskInv
<1>11. PoolInv'
  <2>1. \A f \in Frame : fr'[f].at = "pool" <=> fr[f].at = "pool"
    BY <1>1, <1>4, <1>5
  <2>2. QED
    BY <1>3, <2>1, PoolStays DEF TaskInv
<1>12. QED
  BY <1>6, <1>7, <1>8, <1>10, <1>11 DEF TaskInv

\* Every step of a thread, or of what a coroutine waits for, keeps the invariant.
LEMMA TaskNextInv == TaskInv /\ [TaskNext]_taskVars => TaskInv'
<1> SUFFICES ASSUME TaskInv, [TaskNext]_taskVars
             PROVE  TaskInv'
  OBVIOUS
<1>1. ASSUME NEW x \in Thread, NEW h \in Frame, Step(x, h)
      PROVE  TaskInv'
  <2>1. Runs(x, h)
    BY <1>1 DEF Step
  <2>2. CASE Call(x, h)
    BY <2>1, <2>2, CallStep
  <2>3. CASE \E c, g \in Frame : Give(h, c, g)
    BY <2>3, GiveStep
  <2>4. CASE \E c \in Frame : Drop(x, h, c)
    BY <2>1, <2>4, DropStep
  <2>5. CASE \E c \in Frame : AwaitDone(h, c)
    BY <2>5, AwaitDoneStep
  <2>6. CASE \E c \in Frame : Await(x, h, c)
    BY <2>1, <2>6, AwaitStep
  <2>7. CASE \E c \in Frame, y \in Thread : Spawn(h, c, y)
    BY <2>7, SpawnStep
  <2>8. CASE \E v \in {"value", "exception"} : EndTask(x, h, v)
    BY <2>1, <2>8, EndTaskStep
  <2>9. CASE EndDetached(x, h)
    BY <2>1, <2>9, EndDetachedStep
  <2>10. CASE EndTrivial(x, h)
    BY <2>1, <2>10, EndTrivialStep
  <2>11. CASE Park(x, h)
    BY <2>1, <2>11, ParkStep
  <2>12. QED
    BY <1>1, <2>2, <2>3, <2>4, <2>5, <2>6, <2>7, <2>8, <2>9, <2>10, <2>11 DEF Step
<1>2. CASE \E x \in Thread : Run(x)
  BY <1>2, RunStep
<1>3. CASE \E x \in Thread : MainSpawn(x)
  BY <1>3, MainSpawnStep
<1>4. CASE \E f \in Frame : Wake(f)
  BY <1>4, WakeStep
<1>5. CASE MainDrop
  BY <1>5, MainDropStep
<1>6. CASE UNCHANGED taskVars
  <2>1. UNCHANGED <<stack, queue, fr, pool, got>>
    BY <1>6 DEF taskVars
  <2>2. \A d, f \in Frame : Under(d, f)' <=> Under(d, f)
    BY <2>1 DEF Under
  <2>3. PromiseInv' /\ OwnerInv' /\ ChainInv'
    BY <2>1, <2>2, ChainStays DEF TaskInv, PromiseInv, OwnerInv, Live
  <2>4. TurnInv' /\ PoolInv'
    BY <2>1, TurnStays, PoolStays DEF TaskInv, RunningSame
  <2>5. ReadySame({})
    BY <2>1, <2>2, SameReady
  <2>6. QED
    BY <2>1, <2>3, <2>4, <2>5, WaitStays DEF TaskInv
<1>7. QED
  BY <1>1, <1>2, <1>3, <1>4, <1>5, <1>6 DEF TaskNext

\* How often f is on the sequences: once if it is on one of them, and there once.
LEMMA PlacesCounted ==
  ASSUME NEW X, NEW q \in [X -> Seq(Frame)], NEW f \in Frame,
         \A x \in X : Distinct(q[x]),
         \A x, y \in X : In(f, q[x]) /\ In(f, q[y]) => x = y
  PROVE  Cardinality(Places(q, f)) = IF \E x \in X : In(f, q[x]) THEN 1 ELSE 0
<1>1. \A x \in X : DOMAIN q[x] = 1..Len(q[x])
  BY Indices
<1>2. DOMAIN q = X
  OBVIOUS
<1>3. \A e : e \in Places(q, f) <=> \E x \in X : \E i \in 1..Len(q[x]) : e = <<x, i>> /\ q[x][i] = f
  BY <1>1, <1>2 DEF Places
<1>4. CASE \E x \in X : In(f, q[x])
  <2>1. PICK x \in X : In(f, q[x])
    BY <1>4
  <2>2. PICK i \in 1..Len(q[x]) : q[x][i] = f
    BY <2>1 DEF In
  <2>3. ASSUME NEW y \in X, NEW j \in 1..Len(q[y]), q[y][j] = f
        PROVE  y = x /\ j = i
    BY <2>2, <2>3 DEF In, Distinct
  <2>4. Places(q, f) = {<<x, i>>}
    BY <1>3, <2>2, <2>3
  <2>5. QED
    BY <1>4, <2>4, FS_Singleton
<1>5. CASE ~\E x \in X : In(f, q[x])
  <2>1. Places(q, f) = {}
    BY <1>3, <1>5 DEF In
  <2>2. QED
    BY <1>5, <2>1, FS_EmptySet
<1>6. QED
  BY <1>4, <1>5

\* What the invariant means for the frames, the pools and the queues.
LEMMA TasksAreSound == TaskInv => TasksSound
<1> SUFFICES ASSUME TaskInv
             PROVE  TasksSound
  OBVIOUS
<1>1. TypeOK
  BY DEF TaskInv, PromiseInv, TurnInv, WaitInv, PoolInv, TypeOK, Promise, Pooling
<1>2. \A f \in Frame : Queued(f) = IF ToResume(f) THEN 1 ELSE 0
  <2>1. ASSUME NEW f \in Frame
        PROVE  Cardinality(Places(queue, f)) = IF \E x \in Thread : In(f, queue[x]) THEN 1 ELSE 0
    <3>1. /\ queue \in [Thread -> Seq(Frame)] /\ \A x \in Thread : Distinct(queue[x])
          /\ \A x, y \in Thread : In(f, queue[x]) /\ In(f, queue[y]) => x = y
      BY DEF TaskInv, WaitInv
    <3>2. QED
      BY <3>1, PlacesCounted
  <2>2. QED
    BY <2>1 DEF Queued, TaskInv, WaitInv
<1>3. \A f \in Frame : Pooled(f) = IF fr[f].at = "pool" THEN 1 ELSE 0
  <2>1. ASSUME NEW f \in Frame
        PROVE  Cardinality(Places(pool, f)) = IF \E x \in Pooling : In(f, pool[x]) THEN 1 ELSE 0
    <3>1. /\ pool \in [Pooling -> Seq(Frame)] /\ \A x \in Pooling : Distinct(pool[x])
          /\ \A x, y \in Pooling : In(f, pool[x]) /\ In(f, pool[y]) => x = y
      BY DEF TaskInv, PoolInv
    <3>2. QED
      BY <3>1, PlacesCounted
  <2>2. QED
    BY <2>1 DEF Pooled, TaskInv, PoolInv
<1>4. \A f \in Frame : f \in Live <=> fr[f].at \notin {"heap", "pool"}
  BY Standing DEF Promise, Place, Suspended, Live
<1>5. \A f \in Live : \/ fr[f].owner \in Live
                      \/ /\ fr[f].detached
                         /\ fr[f].at # "final"
                         /\ fr[f].at \in {"initial", "woken"} => Queued(f) = 1
  <2>1. ASSUME NEW f \in Live, fr[f].owner \notin Live
        PROVE  /\ fr[f].detached /\ fr[f].at # "final"
               /\ fr[f].at \in {"initial", "woken"} => Queued(f) = 1
    <3>1. f \in Frame /\ fr[f].owner \notin Frame
      BY <1>4, <2>1, Standing DEF Live
    <3>2. fr[f].detached
      BY <1>4, <3>1, Standing DEF Promise
    <3>3. fr[f].at # "final"
      BY <3>1, <3>2 DEF TaskInv, PromiseInv
    <3>4. fr[f].at \in {"initial", "woken"} => ToResume(f)
      BY <3>2 DEF ToResume
    <3>5. QED
      BY <1>2, <3>1, <3>2, <3>3, <3>4
  <2>2. QED
    BY <2>1
<1>6. FramesAccounted
  <2>1. DOMAIN pool = Pooling
    BY DEF TaskInv, PoolInv
  <2>2. QED
    BY <1>1, <1>3, <1>5, <2>1 DEF FramesAccounted, TaskInv, PoolInv
<1>7. \A h \in Frame : Awaited(h) = {c \in Frame : Under(c, h)}
  BY DEF Awaited, Under
<1>8. ASSUME NEW h \in Live
      PROVE  /\ fr[h].at = "await" => Cardinality(Awaited(h)) + Queued(h) = 1
             /\ fr[h].at \notin {"await", "woken", "initial"} => Queued(h) = 0
             /\ fr[h].at # "await" => Awaited(h) = {}
             /\ fr[h].at \in {"run", "await", "parked", "woken"} /\ ~fr[h].detached
                   => fr[h].parent \in Live
             /\ fr[h].at = "run" <=> \E x \in Thread : stack[x] = <<h>>
             /\ got[h] # "terminate"
  <2>1. h \in Frame
    BY <1>8 DEF Live
  <2>2. ASSUME fr[h].at = "await" PROVE Cardinality(Awaited(h)) + Queued(h) = 1
    <3>1. CASE \E c \in Frame : Under(c, h)
      <4>1. PICK c \in Frame : Under(c, h)
        BY <3>1
      <4>2. Awaited(h) = {c}
        BY <1>7, <2>1, <4>1 DEF TaskInv, ChainInv
      <4>3. Cardinality(Awaited(h)) = 1
        BY <4>2, FS_Singleton
      <4>4. Queued(h) = 0
        BY <1>2, <2>1, <2>2, <3>1 DEF ToResume
      <4>5. QED
        BY <4>3, <4>4
    <3>2. CASE ~\E c \in Frame : Under(c, h)
      <4>1. Awaited(h) = {}
        BY <1>7, <2>1, <3>2
      <4>2. Cardinality(Awaited(h)) = 0
        BY <4>1, FS_EmptySet
      <4>3. Queued(h) = 1
        BY <1>2, <2>1, <2>2, <3>2 DEF ToResume
      <4>4. QED
        BY <4>2, <4>3
    <3>3. QED
      BY <3>1, <3>2
  <2>3. fr[h].at \notin {"await", "woken", "initial"} => Queued(h) = 0
    BY <1>2, <2>1 DEF ToResume
  <2>4. fr[h].at # "await" => Awaited(h) = {}
    BY <1>7, <2>1, Standing
  <2>5. fr[h].at \in {"run", "await", "parked", "woken"} /\ ~fr[h].detached => fr[h].parent \in Live
    <3>1. ASSUME fr[h].at \in {"run", "await", "parked", "woken"}, ~fr[h].detached
          PROVE  fr[h].parent \in Live
      <4>1. fr[h].parent = fr[h].owner /\ fr[h].owner \in Frame
        BY <2>1, <3>1, Standing DEF TaskInv, OwnerInv, Promise
      <4>2. QED
        BY <1>4, <2>1, <4>1, Standing
    <3>2. QED
      BY <3>1
  <2>6. fr[h].at = "run" <=> \E x \in Thread : stack[x] = <<h>>
    <3>1. ASSUME NEW x \in Thread, stack[x] = <<h>>
          PROVE  fr[h].at = "run"
      <4>1. <<h>> # <<>>
        OBVIOUS
      <4>2. PICK g \in Frame : stack[x] = <<g>> /\ fr[g].at = "run"
        BY <3>1, <4>1 DEF TaskInv, TurnInv
      <4>3. QED
        BY <3>1, <4>2
    <3>2. QED
      BY <2>1, <3>1 DEF TaskInv, TurnInv
  <2>7. got[h] # "terminate"
    BY <2>1 DEF TaskInv, PromiseInv
  <2>8. QED
    BY <2>2, <2>3, <2>4, <2>5, <2>6, <2>7
<1>9. \A x \in Thread : Len(stack[x]) <= 1
  <2>1. ASSUME NEW x \in Thread
        PROVE  Len(stack[x]) <= 1
    <3>1. CASE stack[x] = <<>>
      BY <3>1, EmptySeq
    <3>2. CASE \E h \in Frame : stack[x] = <<h>>
      BY <3>2, Single
    <3>3. QED
      BY <3>1, <3>2 DEF TaskInv, TurnInv
  <2>2. QED
    BY <2>1
<1>10. ChainSound
  BY <1>8, <1>9 DEF ChainSound
<1>11. QED
  BY <1>6, <1>10 DEF TasksSound

\* Every block is accounted for, in a pool, on the heap or in use, and freed with
\* whoever owns it and never before; a suspended coroutine has exactly one way to
\* go on, which is taken once; a task under way has its parent waiting for it.
THEOREM TasksKept == TaskSpec => []TasksSound
<1>1. TaskInit => TaskInv
  BY TaskInitInv
<1>2. TaskInv /\ [TaskNext]_taskVars => TaskInv'
  BY TaskNextInv
<1>3. QED
  BY <1>1, <1>2, TasksAreSound, PTL DEF TaskSpec

-----------------------------------------------------------------------------
(* The ring: counters that wrap around.                                     *)

LEMMA Remainder ==
  ASSUME NEW c \in Nat, c > 0, NEW a \in Int
  PROVE  /\ a % c \in 0..c - 1 /\ a \div c \in Int
         /\ a = c * (a \div c) + (a % c)
  OBVIOUS

LEMMA OneRemainder ==
  ASSUME NEW c \in Nat, c > 0, NEW q \in Int, NEW r \in 0..c - 1
  PROVE  (c * q + r) % c = r
  OBVIOUS

\* Once around is nothing.
LEMMA WrapsOnce ==
  ASSUME NEW w \in Nat, w > 0, NEW a \in 0..2 * w - 1
  PROVE  a % w = IF a < w THEN a ELSE a - w
<1>1. CASE a < w
  <2>1. a = w * 0 + a /\ a \in 0..w - 1
    BY <1>1
  <2>2. QED
    BY <1>1, <2>1, OneRemainder
<1>2. CASE ~(a < w)
  <2>1. a = w * 1 + (a - w) /\ a - w \in 0..w - 1
    BY <1>2
  <2>2. (w * 1 + (a - w)) % w = a - w
    BY <2>1, OneRemainder
  <2>3. QED
    BY <1>2, <2>1, <2>2
<1>3. QED
  BY <1>1, <1>2

\* A whole number of rounds does not change the slot...
LEMMA RoundsForgotten ==
  ASSUME NEW c \in Nat, c > 0, NEW w \in Nat, w % c = 0, NEW a \in Int
  PROVE  (a - w) % c = a % c
<1>1. /\ a % c \in 0..c - 1 /\ a \div c \in Int /\ a = c * (a \div c) + (a % c)
      /\ w \div c \in Int /\ w = c * (w \div c)
  BY Remainder
<1> DEFINE m == a \div c
           n == w \div c
           r == a % c
<1> HIDE DEF m, n, r
<1>2. m \in Int /\ n \in Int /\ r \in 0..c - 1 /\ a = c * m + r /\ w = c * n
  BY <1>1 DEF m, n, r
<1>3. a - w = c * (m - n) + r
  BY <1>2
<1>4. (c * (m - n) + r) % c = r
  BY <1>2, OneRemainder
<1>5. QED
  BY <1>3, <1>4 DEF r

\* ...and less than a round does.
LEMMA SlotsDiffer ==
  ASSUME NEW c \in Nat, c > 0, NEW a \in Nat, NEW b \in Nat, a < b, b < a + c
  PROVE  a % c # b % c
<1> DEFINE m == a \div c
           n == b \div c
           r == a % c
<1>1. /\ r \in 0..c - 1 /\ m \in Int /\ a = c * m + r
      /\ n \in Int /\ b = c * n + (b % c)
  BY Remainder
<1> HIDE DEF m, n, r
<1>2. SUFFICES ASSUME b % c = r
               PROVE  FALSE
  BY DEF r
<1>3. b = c * n + r
  BY <1>1, <1>2
<1>4. c * n - c * m > 0 /\ c * n - c * m < c
  BY <1>1, <1>3
<1>5. c * n - c * m = c * (n - m)
  BY <1>1
<1>6. CASE n - m <= 0
  <2>1. c * (n - m) <= 0
    BY <1>1, <1>6
  <2>2. QED
    BY <1>1, <1>4, <1>5, <2>1
<1>7. CASE n - m >= 1
  <2>1. c * (n - m) >= c
    BY <1>1, <1>7
  <2>2. QED
    BY <1>1, <1>4, <1>5, <2>1
<1>8. QED
  BY <1>1, <1>6, <1>7

Around == 2^Bits
Content == Handle \cup {NoHandle}

RingInv ==
    /\ head_ \in 0..Around - 1 /\ tail_ \in 0..Around - 1
    /\ reap_swap \in [0..SwapCapacity - 1 -> Content]
    /\ offered \in [Side -> Content]
    /\ Size <= SwapCapacity

LEMMA Widths ==
  /\ Around \in Nat /\ Around > 0 /\ SwapCapacity \in Nat /\ SwapCapacity > 0
  /\ SwapCapacity < Around /\ Around % SwapCapacity = 0
  /\ \A i : Successor(i) = (i + 1) % Around
  /\ \A i, j : Minus(i, j) = (i + Around - j) % Around
  BY RingAssumption DEF Around, Successor, Minus

\* The slot of a position that has not gone around twice.
LEMMA SlotOf ==
  ASSUME NEW n \in 0..2 * Around - 1
  PROVE  Slot(n % Around) = n % SwapCapacity /\ n % SwapCapacity \in 0..SwapCapacity - 1
<1>0. /\ Around \in Nat /\ Around > 0 /\ n \in Int
      /\ SwapCapacity \in Nat /\ SwapCapacity > 0 /\ Around % SwapCapacity = 0
  BY Widths
<1>1. n % Around = IF n < Around THEN n ELSE n - Around
  BY <1>0, WrapsOnce
<1>2. (n - Around) % SwapCapacity = n % SwapCapacity
  BY <1>0, RoundsForgotten
<1>3. n % SwapCapacity \in 0..SwapCapacity - 1
  BY Widths, Remainder
<1>4. QED
  BY <1>1, <1>2, <1>3 DEF Slot

\* What is in the ring, wherever its cursors stand.
LEMMA Positions ==
  ASSUME NEW h \in 0..Around - 1, NEW t \in 0..Around - 1
  PROVE  /\ Minus(t, h) \in Nat
         /\ Minus(t, h) = IF t < h THEN t + Around - h ELSE t - h
         /\ Slot(t) = (h + Minus(t, h)) % SwapCapacity
         /\ \A i \in 1..Minus(t, h) :
               /\ Slot((h + i - 1) % Around) = (h + i - 1) % SwapCapacity
               /\ (h + i - 1) % SwapCapacity \in 0..SwapCapacity - 1
<1> DEFINE n == Minus(t, h)
<1>1. h \in 0..Around - 1 /\ t \in 0..Around - 1 /\ Around \in Nat /\ Around > 0
  BY Widths
<1>2. n = IF t < h THEN t + Around - h ELSE t - h
  <2>1. t + Around - h \in 0..2 * Around - 1
    BY <1>1
  <2>2. n = (t + Around - h) % Around
    BY Widths
  <2>3. QED
    BY <1>1, <2>1, <2>2, WrapsOnce
<1> HIDE DEF n
<1>3. n \in Nat /\ h + n \in 0..2 * Around - 1
  BY <1>1, <1>2
<1>4. (h + n) % Around = t
  BY <1>1, <1>2, <1>3, WrapsOnce
<1>5. Slot(t) = (h + n) % SwapCapacity
  BY <1>3, <1>4, SlotOf
<1>6. ASSUME NEW i \in 1..n
      PROVE  /\ Slot((h + i - 1) % Around) = (h + i - 1) % SwapCapacity
             /\ (h + i - 1) % SwapCapacity \in 0..SwapCapacity - 1
  <2>1. h + i - 1 \in 0..2 * Around - 1
    BY <1>1, <1>3
  <2>2. QED
    BY <2>1, SlotOf
<1>7. QED
  BY <1>2, <1>3, <1>5, <1>6 DEF n

LEMMA Inside ==
  ASSUME RingInv
  PROVE  /\ Size \in Nat
         /\ Size = IF tail_ < head_ THEN tail_ + Around - head_ ELSE tail_ - head_
         /\ Slot(tail_) = (head_ + Size) % SwapCapacity
         /\ Contents \in Seq(Content) /\ Len(Contents) = Size
         /\ \A i \in 1..Size : Contents[i] = reap_swap[(head_ + i - 1) % SwapCapacity]
<1>1. head_ \in 0..Around - 1 /\ tail_ \in 0..Around - 1
  BY DEF RingInv
<1>2. Size = Minus(tail_, head_)
  BY DEF Size
<1>3. /\ Size \in Nat
      /\ Size = IF tail_ < head_ THEN tail_ + Around - head_ ELSE tail_ - head_
      /\ Slot(tail_) = (head_ + Size) % SwapCapacity
      /\ \A i \in 1..Size :
            /\ Slot((head_ + i - 1) % Around) = (head_ + i - 1) % SwapCapacity
            /\ (head_ + i - 1) % SwapCapacity \in 0..SwapCapacity - 1
  BY <1>1, <1>2, Positions
<1>4. Contents = [i \in 1..Size |-> reap_swap[(head_ + i - 1) % SwapCapacity]]
  BY <1>3 DEF Contents, Around
<1>5. \A i \in 1..Size : reap_swap[(head_ + i - 1) % SwapCapacity] \in Content
  BY <1>3 DEF RingInv
<1>6. QED
  BY <1>3, <1>4, <1>5

LEMMA InsideNext ==
  ASSUME RingInv'
  PROVE  /\ Size' \in Nat
         /\ Size' = IF tail_' < head_' THEN tail_' + Around - head_' ELSE tail_' - head_'
         /\ Slot(tail_') = (head_' + Size') % SwapCapacity
         /\ Contents' \in Seq(Content) /\ Len(Contents') = Size'
         /\ \A i \in 1..Size' : Contents'[i] = reap_swap'[(head_' + i - 1) % SwapCapacity]
<1>1. head_' \in 0..Around - 1 /\ tail_' \in 0..Around - 1
  BY DEF RingInv
<1>2. Size' = Minus(tail_', head_')
  BY DEF Size
<1>3. /\ Size' \in Nat
      /\ Size' = IF tail_' < head_' THEN tail_' + Around - head_' ELSE tail_' - head_'
      /\ Slot(tail_') = (head_' + Size') % SwapCapacity
      /\ \A i \in 1..Size' :
            /\ Slot((head_' + i - 1) % Around) = (head_' + i - 1) % SwapCapacity
            /\ (head_' + i - 1) % SwapCapacity \in 0..SwapCapacity - 1
  BY <1>1, <1>2, Positions
<1>4. Contents' = [i \in 1..Size' |-> reap_swap'[(head_' + i - 1) % SwapCapacity]]
  BY <1>3 DEF Contents, Around
<1>5. \A i \in 1..Size' : reap_swap'[(head_' + i - 1) % SwapCapacity] \in Content
  BY <1>3 DEF RingInv
<1>6. QED
  BY <1>3, <1>4, <1>5

LEMMA RingInitInv == RingInit => RingInv /\ Contents = <<>>
<1> SUFFICES ASSUME RingInit
             PROVE  RingInv /\ Contents = <<>>
  OBVIOUS
<1>1. Size = 0
  <2>1. Size = (0 + Around - 0) % Around
    BY Widths DEF Size, RingInit
  <2>2. Around \in 0..2 * Around - 1 /\ 0 + Around - 0 = Around
    BY Widths
  <2>3. QED
    BY <2>1, <2>2, Widths, WrapsOnce
<1>2. RingInv
  BY <1>1, Widths DEF RingInv, RingInit, Content
<1>3. Contents \in Seq(Content) /\ Len(Contents) = 0
  BY <1>1, <1>2, Inside
<1>4. QED
  BY <1>2, <1>3, EmptySeq

LEMMA PushStep ==
  ASSUME RingInv, Push
  PROVE  RingInv' /\ Queue!Put("forward")
<1> DEFINE h == offered["forward"]
           n == (head_ + Size) % SwapCapacity
<1>1. /\ h # NoHandle /\ h \in Content /\ Size < SwapCapacity
      /\ reap_swap' = [reap_swap EXCEPT ![Slot(tail_)] = h]
      /\ tail_' = Successor(tail_) /\ head_' = head_
      /\ offered' = [offered EXCEPT !["forward"] = NoHandle]
  BY Inside, Widths DEF Push, Full, Offer, RingInv, Side
<1>2. /\ head_ \in 0..Around - 1 /\ tail_ \in 0..Around - 1 /\ Around \in Nat /\ Around > 0
      /\ SwapCapacity \in Nat /\ SwapCapacity > 0 /\ SwapCapacity < Around
  BY Widths DEF RingInv
<1>3. /\ Size \in Nat /\ Slot(tail_) = n
      /\ Size = IF tail_ < head_ THEN tail_ + Around - head_ ELSE tail_ - head_
      /\ Contents \in Seq(Content) /\ Len(Contents) = Size
      /\ \A i \in 1..Size : Contents[i] = reap_swap[(head_ + i - 1) % SwapCapacity]
  BY Inside
<1>4. tail_' = IF tail_ = Around - 1 THEN 0 ELSE tail_ + 1
  <2>1. tail_ + 1 \in 0..2 * Around - 1 /\ tail_' = (tail_ + 1) % Around
    BY <1>1, <1>2, Widths
  <2>2. QED
    BY <1>2, <2>1, WrapsOnce
<1>5. Size' = Size + 1
  <2>1. Size' = (tail_' + Around - head_) % Around
    BY <1>1, Widths DEF Size
  <2>2. tail_' + Around - head_ \in 0..2 * Around - 1
    BY <1>2, <1>4
  <2>3. (tail_' + Around - head_) % Around = IF tail_' < head_ THEN tail_' + Around - head_
                                                               ELSE tail_' - head_
    BY <1>2, <1>4, <2>2, WrapsOnce
  <2>4. QED
    BY <1>1, <1>2, <1>3, <1>4, <2>1, <2>3
<1>6. n \in 0..SwapCapacity - 1
  BY <1>2, <1>3, Remainder
<1> HIDE DEF n, h
<1>7. RingInv'
  <2>1. head_' \in 0..Around - 1 /\ tail_' \in 0..Around - 1 /\ Size' <= SwapCapacity
    BY <1>1, <1>2, <1>3, <1>4, <1>5
  <2>2. reap_swap' \in [0..SwapCapacity - 1 -> Content]
    BY <1>1, <1>3, <1>6 DEF RingInv
  <2>3. offered' \in [Side -> Content]
    BY <1>1 DEF RingInv, Content
  <2>4. QED
    BY <2>1, <2>2, <2>3 DEF RingInv
<1>8. /\ Contents' \in Seq(Content) /\ Len(Contents') = Size + 1
      /\ \A i \in 1..Size + 1 : Contents'[i] = reap_swap'[(head_ + i - 1) % SwapCapacity]
  <2>1. /\ Contents' \in Seq(Content) /\ Len(Contents') = Size'
        /\ \A i \in 1..Size' : Contents'[i] = reap_swap'[(head_' + i - 1) % SwapCapacity]
    BY <1>7, InsideNext
  <2>2. QED
    BY <1>1, <1>5, <2>1
<1>9. Contents' = Append(Contents, h)
  <2>1. /\ Append(Contents, h) \in Seq(Content) /\ Len(Append(Contents, h)) = Size + 1
        /\ \A i \in 1..Size : Append(Contents, h)[i] = Contents[i]
        /\ Append(Contents, h)[Size + 1] = h
    BY <1>1, <1>3, AppendProperties
  <2>2. ASSUME NEW i \in 1..Size
        PROVE  Contents'[i] = Contents[i]
    <3>1. (head_ + i - 1) % SwapCapacity # n
      <4>1. /\ head_ + i - 1 \in Nat /\ head_ + Size \in Nat
            /\ head_ + i - 1 < head_ + Size /\ head_ + Size < (head_ + i - 1) + SwapCapacity
        BY <1>1, <1>2, <1>3
      <4>2. QED
        BY <1>2, <4>1, SlotsDiffer DEF n
    <3>2. (head_ + i - 1) % SwapCapacity \in 0..SwapCapacity - 1
      BY <1>2, Remainder
    <3>3. reap_swap'[(head_ + i - 1) % SwapCapacity] = reap_swap[(head_ + i - 1) % SwapCapacity]
      BY <1>1, <1>3, <3>1, <3>2 DEF RingInv
    <3>4. i \in 1..Size + 1
      BY <1>3
    <3>5. QED
      BY <1>3, <1>8, <3>3, <3>4
  <2>3. Contents'[Size + 1] = h
    <3>1. Size + 1 \in 1..Size + 1 /\ head_ + (Size + 1) - 1 = head_ + Size
      BY <1>2, <1>3
    <3>2. Contents'[Size + 1] = reap_swap'[(head_ + (Size + 1) - 1) % SwapCapacity]
      BY <1>8, <3>1
    <3>3. reap_swap'[n] = h
      BY <1>1, <1>3, <1>6 DEF RingInv
    <3>4. QED
      BY <3>1, <3>2, <3>3 DEF n
  <2>4. \A i \in 1..Size + 1 : i \in 1..Size \/ i = Size + 1
    BY <1>3
  <2>5. \A i \in 1..Len(Contents') : Contents'[i] = Append(Contents, h)[i]
    BY <1>8, <2>1, <2>2, <2>3, <2>4
  <2>6. QED
    BY <1>8, <2>1, <2>5, SeqEqual
<1>10. QED
  BY <1>1, <1>3, <1>7, <1>9 DEF Queue!Put, h
LEMMA PopStep ==
  ASSUME RingInv, Pop
  PROVE  RingInv' /\ Queue!Get("schedule")
<1>1. /\ head_ # tail_ /\ head_' = Successor(head_)
      /\ tail_' = tail_ /\ reap_swap' = reap_swap
      /\ offered' = [offered EXCEPT !["schedule"] = reap_swap[Slot(head_)]]
  BY DEF Pop, Offer
<1>2. /\ head_ \in 0..Around - 1 /\ tail_ \in 0..Around - 1 /\ Around \in Nat /\ Around > 0
      /\ SwapCapacity \in Nat /\ SwapCapacity > 0 /\ SwapCapacity < Around
  BY Widths DEF RingInv
<1>3. /\ Size \in Nat
      /\ Size = IF tail_ < head_ THEN tail_ + Around - head_ ELSE tail_ - head_
      /\ Contents \in Seq(Content) /\ Len(Contents) = Size
      /\ \A i \in 1..Size : Contents[i] = reap_swap[(head_ + i - 1) % SwapCapacity]
  BY Inside
<1>4. Size > 0
  BY <1>1, <1>2, <1>3
<1>5. head_' = IF head_ = Around - 1 THEN 0 ELSE head_ + 1
  <2>1. head_ + 1 \in 0..2 * Around - 1 /\ head_' = (head_ + 1) % Around
    BY <1>1, <1>2, Widths
  <2>2. QED
    BY <1>2, <2>1, WrapsOnce
<1>6. Size' = Size - 1
  <2>1. Size' = Minus(tail_, head_')
    BY <1>1 DEF Size
  <2>2. head_' \in 0..Around - 1
    BY <1>2, <1>5
  <2>3. Minus(tail_, head_') = IF tail_ < head_' THEN tail_ + Around - head_' ELSE tail_ - head_'
    BY <1>2, <2>2, Positions
  <2>4. CASE head_ = Around - 1
    BY <1>1, <1>2, <1>3, <1>5, <2>1, <2>3, <2>4
  <2>5. CASE head_ # Around - 1
    <3>1. head_' = head_ + 1
      BY <1>5, <2>5
    <3>2. CASE tail_ < head_
      <4>1. Size = tail_ + Around - head_ /\ tail_ < head_ + 1
        BY <1>2, <1>3, <3>2
      <4>2. Size' = tail_ + Around - (head_ + 1)
        BY <2>1, <2>3, <3>1, <4>1
      <4>3. QED
        BY <1>2, <4>1, <4>2
    <3>3. CASE ~(tail_ < head_)
      <4>1. Size = tail_ - head_ /\ ~(tail_ < head_ + 1)
        BY <1>1, <1>2, <1>3, <3>3
      <4>2. Size' = tail_ - (head_ + 1)
        BY <2>1, <2>3, <3>1, <4>1
      <4>3. QED
        BY <1>2, <4>1, <4>2
    <3>4. QED
      BY <3>2, <3>3
  <2>6. QED
    BY <2>4, <2>5
<1>7. reap_swap[Slot(head_)] = Head(Contents) /\ Head(Contents) \in Content
  <2>1. Contents[1] = reap_swap[(head_ + 1 - 1) % SwapCapacity] /\ head_ + 1 - 1 = head_
    BY <1>2, <1>3, <1>4
  <2>2. Head(Contents) = Contents[1] /\ Contents[1] \in Content
    BY <1>3, <1>4
  <2>3. QED
    BY <2>1, <2>2 DEF Slot
<1>8. RingInv'
  <2>1. head_' \in 0..Around - 1 /\ tail_' \in 0..Around - 1 /\ Size' <= SwapCapacity
    BY <1>1, <1>2, <1>3, <1>5, <1>6 DEF RingInv
  <2>2. offered' \in [Side -> Content]
    BY <1>1, <1>7 DEF RingInv
  <2>3. QED
    BY <1>1, <2>1, <2>2 DEF RingInv
<1>9. /\ Contents' \in Seq(Content) /\ Len(Contents') = Size - 1
      /\ \A i \in 1..Size - 1 : Contents'[i] = reap_swap[(head_' + i - 1) % SwapCapacity]
  BY <1>1, <1>6, <1>8, InsideNext
<1>10. Contents' = Tail(Contents)
  <2>1. /\ Tail(Contents) \in Seq(Content) /\ Len(Tail(Contents)) = Size - 1
        /\ \A i \in 1..Size - 1 : Tail(Contents)[i] = Contents[i + 1]
    BY <1>3, <1>4
  <2>2. ASSUME NEW i \in 1..Size - 1
        PROVE  Contents'[i] = Contents[i + 1]
    <3>1. i + 1 \in 1..Size /\ head_ + (i + 1) - 1 = head_ + i
      BY <1>2, <1>3
    <3>2. Contents[i + 1] = reap_swap[(head_ + i) % SwapCapacity]
      BY <1>3, <3>1
    <3>3. (head_' + i - 1) % SwapCapacity = (head_ + i) % SwapCapacity
      <4>1. CASE head_ = Around - 1
        <5>1. head_' + i - 1 = (head_ + i) - Around /\ head_ + i \in Int
          BY <1>2, <1>3, <1>5, <4>1
        <5>2. ((head_ + i) - Around) % SwapCapacity = (head_ + i) % SwapCapacity
          <6>1. Around % SwapCapacity = 0
            BY Widths
          <6>2. QED
            BY <1>2, <5>1, <6>1, RoundsForgotten
        <5>3. QED
          BY <5>1, <5>2
      <4>2. CASE head_ # Around - 1
        BY <1>2, <1>3, <1>5, <4>2
      <4>3. QED
        BY <4>1, <4>2
    <3>4. QED
      BY <1>9, <3>2, <3>3
  <2>3. \A i \in 1..Len(Contents') : Contents'[i] = Tail(Contents)[i]
    BY <1>9, <2>1, <2>2
  <2>4. QED
    BY <1>9, <2>1, <2>3, SeqEqual
<1>11. Contents # <<>>
  BY <1>3, <1>4
<1>12. QED
  BY <1>1, <1>7, <1>8, <1>10, <1>11 DEF Queue!Get

\* The cursors and the slots are all there is to what is inside.
LEMMA RingLeft ==
  ASSUME RingInv, UNCHANGED <<head_, tail_, reap_swap>>, offered' \in [Side -> Content]
  PROVE  RingInv' /\ Contents' = Contents
<1>1. Size' = Size
  BY DEF Size
<1>2. Contents' = Contents
  BY <1>1 DEF Contents
<1>3. QED
  BY <1>1, <1>2 DEF RingInv

\* The worker and schedule make up their minds, and are done.
LEMMA ChooseStep ==
  ASSUME RingInv, (\E h \in Handle : Readied(h)) \/ Overflow \/ Resumed
  PROVE  RingInv' /\ Queue!QueueNext
<1>1. ASSUME NEW side \in Side, NEW v \in Content,
             offered' = [offered EXCEPT ![side] = v], UNCHANGED <<head_, tail_, reap_swap>>
      PROVE  RingInv' /\ Queue!Choose(side, v)
  <2>1. offered' \in [Side -> Content]
    BY <1>1 DEF RingInv
  <2>2. RingInv' /\ Contents' = Contents
    BY <1>1, <2>1, RingLeft
  <2>3. QED
    BY <1>1, <2>2 DEF Queue!Choose
<1>2. ASSUME NEW h \in Handle, Readied(h)
      PROVE  RingInv' /\ Queue!QueueNext
  <2>1. "forward" \in Side /\ h \in Handle \cup {NoHandle} /\ offered["forward"] = NoHandle
    BY <1>2 DEF Side, Readied
  <2>2. RingInv' /\ Queue!Choose("forward", h)
    BY <1>1, <1>2, <2>1 DEF Readied, Offer, Content
  <2>3. QED
    BY <2>1, <2>2 DEF Queue!QueueNext
<1>3. ASSUME NEW side \in Side, offered[side] # NoHandle,
             Offer(side, NoHandle), UNCHANGED <<head_, tail_, reap_swap>>
      PROVE  RingInv' /\ Queue!QueueNext
  <2>1. RingInv' /\ Queue!Choose(side, NoHandle)
    BY <1>1, <1>3 DEF Offer, Content
  <2>2. QED
    BY <1>3, <2>1 DEF Queue!QueueNext
<1>4. CASE Overflow
  BY <1>3, <1>4 DEF Overflow, Side
<1>5. CASE Resumed
  BY <1>3, <1>5 DEF Resumed, Side
<1>6. QED
  BY <1>2, <1>4, <1>5

\* A handle leaves the worker's hand through push, or because there is no room.
LEMMA TurnedAway ==
  ASSUME RingInv, [RingNext]_ringVars,
         offered["forward"] # NoHandle, offered'["forward"] = NoHandle, tail_' = tail_
  PROVE  Len(Contents) = SwapCapacity
<1>1. /\ head_ \in 0..Around - 1 /\ tail_ \in 0..Around - 1 /\ Around \in Nat /\ Around > 1
      /\ offered \in [Side -> Content]
  BY Widths DEF RingInv
<1>2. ~Push
  <2>1. SUFFICES ASSUME Push
                 PROVE  FALSE
    OBVIOUS
  <2>2. tail_ = (tail_ + 1) % Around /\ tail_ + 1 \in 0..2 * Around - 1
    <3>1. tail_' = Successor(tail_)
      BY <2>1 DEF Push
    <3>2. Successor(tail_) = (tail_ + 1) % Around
      BY Widths
    <3>3. tail_ + 1 \in 0..2 * Around - 1
      BY <1>1
    <3>4. QED
      BY <3>1, <3>2, <3>3
  <2>3. (tail_ + 1) % Around = IF tail_ + 1 < Around THEN tail_ + 1 ELSE tail_ + 1 - Around
    BY <1>1, <2>2, WrapsOnce
  <2>4. QED
    BY <1>1, <2>2, <2>3
<1>3. Overflow
  <2>1. ~(\E h \in Handle : Readied(h))
    BY DEF Readied
  <2>2. ~Pop
    BY <1>1 DEF Pop, Offer, Side
  <2>3. ~Resumed
    BY <1>1 DEF Resumed, Offer, Side
  <2>4. ~UNCHANGED ringVars
    BY DEF ringVars
  <2>5. QED
    BY <1>2, <2>1, <2>2, <2>3, <2>4 DEF RingNext
<1>4. Size >= SwapCapacity /\ Size <= SwapCapacity
  BY <1>3 DEF Overflow, Full, RingInv
<1>5. Len(Contents) = Size /\ Size \in Nat
  BY Inside
<1>6. QED
  BY <1>4, <1>5, Widths

\* forward_task and schedule may take the ring for a bounded queue, at every width of the
\* cursors and wherever they stand: what push put in comes out of pop in that order, no slot
\* is written over that was not read, and a handle goes to the cross queue only when every
\* slot is taken.
THEOREM RingServes == RingSpec => RingIsQueue
<1> DEFINE Turned == /\ offered["forward"] # NoHandle /\ offered'["forward"] = NoHandle
                     /\ tail_' = tail_
                     => Len(Contents) = SwapCapacity
<1>1. RingInit => RingInv /\ Queue!QueueInit
  BY RingInitInv DEF RingInit, Queue!QueueInit
<1>2. ASSUME RingInv, [RingNext]_ringVars
      PROVE  RingInv' /\ [Queue!QueueNext]_(Queue!queueVars) /\ [Turned]_ringVars
  <2>1. [Turned]_ringVars
    BY <1>2, TurnedAway
  <2>2. CASE Push
    BY <1>2, <2>1, <2>2, PushStep DEF Queue!QueueNext, Side
  <2>3. CASE Pop
    BY <1>2, <2>1, <2>3, PopStep DEF Queue!QueueNext, Side
  <2>4. CASE (\E h \in Handle : Readied(h)) \/ Overflow \/ Resumed
    BY <1>2, <2>1, <2>4, ChooseStep
  <2>5. CASE UNCHANGED ringVars
    <3>1. UNCHANGED <<head_, tail_, reap_swap>> /\ offered' = offered
      BY <2>5 DEF ringVars
    <3>2. RingInv' /\ Contents' = Contents
      BY <1>2, <3>1, RingLeft DEF RingInv
    <3>3. QED
      BY <2>1, <3>1, <3>2 DEF Queue!queueVars
  <2>6. QED
    BY <1>2, <2>2, <2>3, <2>4, <2>5 DEF RingNext
<1>3. QED
  <2>1. RingSpec => []RingInv
    BY <1>1, <1>2, PTL DEF RingSpec
  <2>2. QED
    BY <1>1, <1>2, <2>1, PTL DEF RingSpec, RingIsQueue, Queue!QueueSpec
=============================================================================
