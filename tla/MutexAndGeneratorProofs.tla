---------------------- MODULE MutexAndGeneratorProofs ----------------------
(***************************************************************************)
(* Proofs about Mutex, for every number of coroutines and io_contexts, and *)
(* about Generator, for every set of frames and every size and alignment   *)
(* of theirs.  The two have nothing in common and stand one after the      *)
(* other.                                                                  *)
(***************************************************************************)
EXTENDS Mutex, Generator, SequenceTheorems, FiniteSetTheorems, WellFoundedInduction, TLAPS

-----------------------------------------------------------------------------
(* The mutex: facts about its lists.                                        *)

LEMMA ReversedType ==
  ASSUME NEW S, NEW s \in Seq(S)
  PROVE  /\ Reversed(s) \in Seq(S)
         /\ Len(Reversed(s)) = Len(s)
         /\ \A i \in 1..Len(s) : Reversed(s)[i] = s[Len(s) + 1 - i]
BY DEF Reversed

LEMMA ReversedEmpty == Reversed(<<>>) = <<>>
BY DEF Reversed

LEMMA ReversedPush ==
  ASSUME NEW S, NEW s \in Seq(S), NEW e \in S
  PROVE  Reversed(<<e>> \o s) = Append(Reversed(s), e)
<1> DEFINE t == <<e>> \o s
           u == Append(Reversed(s), e)
<1>1. /\ t \in Seq(S)
      /\ Len(t) = Len(s) + 1
      /\ t[1] = e
      /\ \A i \in 1..Len(s) : t[i + 1] = s[i]
  OBVIOUS
<1>2. /\ u \in Seq(S)
      /\ Len(u) = Len(s) + 1
      /\ \A i \in 1..Len(s) : u[i] = s[Len(s) + 1 - i]
      /\ u[Len(s) + 1] = e
  BY ReversedType, AppendProperties
<1> HIDE DEF t, u
<1>3. /\ Reversed(t) \in Seq(S)
      /\ Len(Reversed(t)) = Len(s) + 1
      /\ \A i \in 1..(Len(s) + 1) : Reversed(t)[i] = t[Len(s) + 2 - i]
  <2>1. /\ Reversed(t) \in Seq(S)
        /\ Len(Reversed(t)) = Len(t)
        /\ \A i \in 1..Len(t) : Reversed(t)[i] = t[Len(t) + 1 - i]
    BY <1>1, ReversedType
  <2>2. Len(s) \in Nat
    OBVIOUS
  <2>3. QED
    BY <1>1, <2>1, <2>2
<1>4. ASSUME NEW i \in 1..(Len(s) + 1)
      PROVE  Reversed(t)[i] = u[i]
  <2>1. CASE i = Len(s) + 1
    BY <1>1, <1>2, <1>3, <2>1
  <2>2. CASE i \in 1..Len(s)
    <3>1. Len(s) + 1 - i \in 1..Len(s)
      BY <2>2
    <3>2. t[(Len(s) + 1 - i) + 1] = s[Len(s) + 1 - i]
      BY <1>1, <3>1
    <3>3. Reversed(t)[i] = t[Len(s) + 2 - i]
      BY <1>3
    <3>4. (Len(s) + 1 - i) + 1 = Len(s) + 2 - i
      OBVIOUS
    <3>5. QED
      BY <1>2, <2>2, <3>2, <3>3, <3>4
  <2>3. QED
    BY <2>1, <2>2
<1>5. Reversed(t) = u
  BY <1>2, <1>3, <1>4, SeqEqual
<1>6. QED
  BY <1>5 DEF t, u

LEMMA ConcatAppend ==
  ASSUME NEW S, NEW q \in Seq(S), NEW r \in Seq(S), NEW e \in S
  PROVE  q \o Append(r, e) = Append(q \o r, e)
OBVIOUS

LEMMA ConcatHeadTail ==
  ASSUME NEW S, NEW q \in Seq(S), NEW r \in Seq(S), q # <<>>
  PROVE  /\ q \o r # <<>>
         /\ Head(q \o r) = Head(q)
         /\ Tail(q \o r) = Tail(q) \o r
<1> DEFINE c == q \o r
           d == Tail(q) \o r
<1>1. /\ Tail(q) \in Seq(S)
      /\ Len(q) \in Nat \ {0}
      /\ Len(Tail(q)) = Len(q) - 1
      /\ \A i \in 1..Len(Tail(q)) : Tail(q)[i] = q[i + 1]
  BY HeadTailProperties, EmptySeq
<1>2. /\ c \in Seq(S)
      /\ Len(c) = Len(q) + Len(r)
      /\ \A i \in 1..Len(q) + Len(r) :
            c[i] = IF i <= Len(q) THEN q[i] ELSE r[i - Len(q)]
  BY ConcatProperties
<1>3. /\ d \in Seq(S)
      /\ Len(d) = (Len(q) - 1) + Len(r)
      /\ \A i \in 1..(Len(q) - 1) + Len(r) :
            d[i] = IF i <= Len(q) - 1 THEN q[i + 1] ELSE r[i - (Len(q) - 1)]
  BY <1>1, ConcatProperties
<1> HIDE DEF c, d
<1>4. c # <<>> /\ Head(c) = Head(q)
  BY <1>1, <1>2
<1>5. /\ Tail(c) \in Seq(S)
      /\ Len(Tail(c)) = Len(c) - 1
      /\ \A i \in 1..Len(Tail(c)) : Tail(c)[i] = c[i + 1]
  BY <1>2, <1>4, HeadTailProperties
<1>6. ASSUME NEW i \in 1..Len(d)
      PROVE  Tail(c)[i] = d[i]
  BY <1>1, <1>2, <1>3, <1>5
<1>7. Tail(c) = d
  BY <1>1, <1>2, <1>3, <1>5, <1>6, SeqEqual
<1>8. QED
  BY <1>4, <1>7 DEF c, d

LEMMA AppendElems ==
  ASSUME NEW S, NEW q \in Seq(S), NEW e \in S
  PROVE  /\ Elems(Append(q, e)) = Elems(q) \cup {e}
         /\ NoRepeat(q) /\ e \notin Elems(q) => NoRepeat(Append(q, e))
BY DEF Elems, NoRepeat

LEMMA HeadTailElems ==
  ASSUME NEW S, NEW q \in Seq(S), q # <<>>
  PROVE  /\ Elems(q) = {Head(q)} \cup Elems(Tail(q))
         /\ Head(q) \in S /\ Tail(q) \in Seq(S)
         /\ NoRepeat(q) => NoRepeat(Tail(q)) /\ Head(q) \notin Elems(Tail(q))
<1>1. /\ Head(q) \in S
      /\ Head(q) = q[1]
      /\ Tail(q) \in Seq(S)
      /\ Len(q) \in Nat \ {0}
      /\ Len(Tail(q)) = Len(q) - 1
      /\ \A i \in 1..Len(Tail(q)) : Tail(q)[i] = q[i + 1]
  BY HeadTailProperties, EmptySeq
<1>2. Elems(q) = {Head(q)} \cup Elems(Tail(q))
  <2>1. ASSUME NEW i \in 1..Len(q)
        PROVE  q[i] \in {Head(q)} \cup Elems(Tail(q))
    <3>1. CASE i = 1
      BY <1>1, <3>1
    <3>2. CASE i # 1
      <4>1. i - 1 \in 1..Len(Tail(q)) /\ (i - 1) + 1 = i
        BY <1>1, <3>2
      <4>2. Tail(q)[i - 1] = q[i]
        BY <1>1, <4>1
      <4>3. QED
        BY <4>1, <4>2 DEF Elems
    <3>3. QED
      BY <3>1, <3>2
  <2>2. ASSUME NEW i \in 1..Len(Tail(q))
        PROVE  Tail(q)[i] \in Elems(q)
    <3>1. i + 1 \in 1..Len(q)
      BY <1>1
    <3>2. QED
      BY <1>1, <3>1 DEF Elems
  <2>3. Head(q) \in Elems(q)
    BY <1>1 DEF Elems
  <2>4. QED
    BY <2>1, <2>2, <2>3 DEF Elems
<1>3. ASSUME NoRepeat(q)
      PROVE  NoRepeat(Tail(q)) /\ Head(q) \notin Elems(Tail(q))
  BY <1>1, <1>3 DEF Elems, NoRepeat
<1>4. QED
  BY <1>1, <1>2, <1>3
-----------------------------------------------------------------------------
(* The inductive invariant.  MutualExclusion and WaitersListed are not      *)
(* inductive alone: they rest on what awaiting_ says of the lock, on who    *)
(* sleeps, and on the lists that unlock carries from one step to the next.  *)

WordTellsHolder == /\ locked <=> \E c \in Coro : Holds(c)
                   /\ ~locked => stack = <<>> /\ toResume = <<>>

Placement == \A c \in Coro :
    /\ pc[c] = "waiting" <=> sched[c] = "suspended"
    /\ pc[c] \in {"register"} \cup InUnlock => Running(c)

UnlockLists == \A c \in Coro :
    /\ pc[c] \in {"cas", "exchange"} => toResume = <<>>
    /\ pc[c] = "exchange" => stack # <<>>
    /\ pc[c] \in {"pop", "spawn"} => resumeHead[c] # <<>>
    /\ pc[c] = "pop" => toResume \in {<<>>, resumeHead[c]}
    /\ pc[c] = "spawn" => toResume = Tail(resumeHead[c])

IInv == /\ TypeOK
        /\ MutualExclusion
        /\ WordTellsHolder
        /\ Placement
        /\ UnlockLists
        /\ WaitersListed
-----------------------------------------------------------------------------
(* The list of waiters, as each step sees it.                              *)

LEMMA FetchedNow ==
  /\ (\A c \in Coro : pc[c] # "pop") => Fetched = toResume
  /\ MutualExclusion => \A c \in Coro : pc[c] = "pop" => Fetched = resumeHead[c]
<1>1. ASSUME MutualExclusion, NEW c \in Coro, pc[c] = "pop"
      PROVE  Fetched = resumeHead[c]
  <2> DEFINE d == CHOOSE d \in Coro : pc[d] = "pop"
  <2>1. d \in Coro /\ pc[d] = "pop"
    BY <1>1
  <2>2. d = c
    BY <1>1, <2>1 DEF MutualExclusion, Holds, InUnlock
  <2>3. QED
    BY <1>1, <2>2 DEF Fetched
<1>2. QED
  BY <1>1 DEF Fetched

LEMMA FetchedNext ==
  /\ (\A c \in Coro : pc'[c] # "pop") => Fetched' = toResume'
  /\ MutualExclusion' => \A c \in Coro : pc'[c] = "pop" => Fetched' = resumeHead'[c]
<1>1. ASSUME MutualExclusion', NEW c \in Coro, pc'[c] = "pop"
      PROVE  Fetched' = resumeHead'[c]
  <2> DEFINE d == CHOOSE d \in Coro : pc'[d] = "pop"
  <2>1. d \in Coro /\ pc'[d] = "pop"
    BY <1>1
  <2>2. d = c
    BY <1>1, <2>1 DEF MutualExclusion, Holds, InUnlock
  <2>3. QED
    BY <1>1, <2>2 DEF Fetched
<1>2. QED
  BY <1>1 DEF Fetched

\* What the inductive invariant says of the lists' types.
LEMMA ListTypes ==
  ASSUME IInv
  PROVE  /\ Fetched \in Seq(Coro)
         /\ Reversed(stack) \in Seq(Coro)
         /\ WaitQueue \in Seq(Coro)
<1>1. Fetched \in Seq(Coro)
  <2>1. CASE \A c \in Coro : pc[c] # "pop"
    BY <2>1, FetchedNow DEF IInv, TypeOK
  <2>2. CASE \E c \in Coro : pc[c] = "pop"
    BY <2>2, FetchedNow DEF IInv, TypeOK
  <2>3. QED
    BY <2>1, <2>2
<1>2. Reversed(stack) \in Seq(Coro)
  BY ReversedType DEF IInv, TypeOK
<1>3. QED
  BY <1>1, <1>2, ConcatProperties DEF WaitQueue

\* The step leaves the list of waiters, and who waits, alone.
LEMMA SameQueue ==
  ASSUME IInv, MutualExclusion',
         UNCHANGED <<stack, toResume, resumeHead>>,
         \A c \in Coro : pc'[c] = "pop" <=> pc[c] = "pop"
  PROVE  WaitQueue' = WaitQueue
<1>1. Fetched' = Fetched
  <2>1. CASE \A c \in Coro : pc[c] # "pop"
    BY <2>1, FetchedNow, FetchedNext
  <2>2. CASE \E c \in Coro : pc[c] = "pop"
    BY <2>2, FetchedNow, FetchedNext DEF IInv
  <2>3. QED
    BY <2>1, <2>2
<1>2. QED
  BY <1>1 DEF WaitQueue, Reversed

LEMMA SameWaiters ==
  ASSUME WaitersListed, WaitQueue' = WaitQueue, Chosen' = Chosen,
         \A c \in Coro : pc'[c] = "waiting" <=> pc[c] = "waiting"
  PROVE  WaitersListed'
BY DEF WaitersListed

LEMMA SameChosen ==
  ASSUME UNCHANGED resumeHead,
         \A c \in Coro : pc'[c] = "spawn" <=> pc[c] = "spawn"
  PROVE  Chosen' = Chosen
BY DEF Chosen
-----------------------------------------------------------------------------
(* The part of the invariant that is about control, step by step.          *)

Control == /\ TypeOK
           /\ MutualExclusion
           /\ WordTellsHolder
           /\ Placement
           /\ UnlockLists

LEMMA WordType == TypeOK => AwaitingWord \in Word
<1> SUFFICES ASSUME TypeOK
             PROVE  AwaitingWord \in Word
  OBVIOUS
<1>1. CASE stack = <<>>
  BY <1>1 DEF AwaitingWord, Word
<1>2. CASE stack # <<>>
  <2>1. Head(stack) \in Coro
    BY <1>2, HeadTailProperties DEF TypeOK
  <2>2. QED
    BY <2>1 DEF AwaitingWord, Word
<1>3. QED
  BY <1>1, <1>2

\* What a load of awaiting_ tells about the lock.
LEMMA WordMeaning ==
  ASSUME TypeOK
  PROVE  /\ AwaitingWord = NotLocked <=> ~locked
         /\ AwaitingWord = LockedNoAwaiting <=> locked /\ stack = <<>>
<1>1. CASE stack = <<>>
  BY <1>1, WordAssumption DEF AwaitingWord, TypeOK
<1>2. CASE stack # <<>>
  <2>1. Head(stack) \in Coro
    BY <1>2, HeadTailProperties DEF TypeOK
  <2>2. QED
    BY <1>2, <2>1, WordAssumption DEF AwaitingWord, TypeOK
<1>3. QED
  BY <1>1, <1>2

LEMMA ControlStep ==
  ASSUME IInv, NEW c \in Coro, Resume(c) \/ Step(c)
  PROVE  Control'
<1> USE DEF Control, IInv, TypeOK, MutualExclusion, WordTellsHolder, Placement,
            UnlockLists, Holds, InUnlock, Label, Running, StepOffThread
<1>1. CASE Resume(c)
  BY <1>1 DEF Resume
<1>2. CASE Yield(c)
  BY <1>2 DEF Yield
<1>3. CASE TryLock(c)
  <2>1. CASE ~locked
    <3>1. /\ locked' = TRUE
          /\ pc' = [pc EXCEPT ![c] = "critical"]
          /\ UNCHANGED <<sched, stack, toResume, expected, resumeHead>>
      BY <1>3, <2>1, WordMeaning DEF TryLock
    <3>2. \A d \in Coro : ~Holds(d)
      BY <2>1
    <3>3. TypeOK'
      BY <3>1
    <3>4. MutualExclusion' /\ WordTellsHolder'
      BY <3>1, <3>2
    <3>5. Placement' /\ UnlockLists'
      BY <1>3, <3>1 DEF TryLock
    <3>6. QED
      BY <3>3, <3>4, <3>5
  <2>2. CASE locked
    BY <1>3, <2>2, WordMeaning DEF TryLock
  <2>3. QED
    BY <2>1, <2>2
<1>4. CASE Lock(c)
  BY <1>4, WordType DEF Lock
<1>5. CASE RegisterAcquire(c)
  BY <1>5, WordMeaning DEF RegisterAcquire
<1>6. CASE RegisterEnqueue(c)
  BY <1>6, WordMeaning DEF RegisterEnqueue
<1>7. CASE RegisterRetry(c)
  BY <1>7, WordType DEF RegisterRetry
<1>8. CASE Unlock(c)
  BY <1>8 DEF Unlock
<1>9. CASE UnlockRelease(c)
  <2>1. CASE AwaitingWord = LockedNoAwaiting
    <3>1. locked' = FALSE /\ stack' = <<>> /\ toResume' = <<>>
      BY <1>9, <2>1, WordMeaning DEF UnlockRelease
    <3>2. \A d \in Coro : ~Holds(d)'
      BY <1>9, <2>1 DEF UnlockRelease
    <3>3. TypeOK' /\ Placement' /\ UnlockLists'
      BY <1>9, <2>1, <3>1 DEF UnlockRelease
    <3>4. MutualExclusion' /\ WordTellsHolder'
      BY <3>1, <3>2
    <3>5. QED
      BY <3>3, <3>4
  <2>2. CASE AwaitingWord # LockedNoAwaiting
    <3>1. locked /\ stack # <<>>
      BY <1>9, <2>2, WordMeaning DEF UnlockRelease
    <3>2. /\ Running(c) /\ pc[c] = "cas" /\ toResume = <<>>
          /\ pc' = [pc EXCEPT ![c] = "exchange"]
          /\ UNCHANGED <<locked, sched, stack, toResume, expected, resumeHead>>
      BY <1>9, <2>2 DEF UnlockRelease
    <3>3. TypeOK' /\ Placement' /\ UnlockLists'
      BY <3>1, <3>2
    <3>4. \A d \in Coro : Holds(d)' <=> Holds(d)
      BY <3>2
    <3>5. MutualExclusion' /\ WordTellsHolder'
      BY <3>1, <3>2, <3>4
    <3>6. QED
      BY <3>3, <3>5
  <2>3. QED
    BY <2>1, <2>2
<1>10. CASE UnlockExchange(c)
  BY <1>10, ReversedType DEF UnlockExchange
<1>11. CASE UnlockPop(c)
  <2>1. resumeHead[c] \in Seq(Coro) /\ resumeHead[c] # <<>>
    BY <1>11 DEF UnlockPop
  <2>2. Tail(resumeHead[c]) \in Seq(Coro)
    BY <2>1, HeadTailProperties
  <2>3. \A d \in Coro : d # c => ~Holds(d)
    BY <1>11 DEF UnlockPop
  <2>4. TypeOK'
    BY <1>11, <2>2 DEF UnlockPop
  <2>5. MutualExclusion' /\ WordTellsHolder' /\ Placement'
    BY <1>11, <2>3 DEF UnlockPop
  <2>6. UnlockLists'
    BY <1>11, <2>3 DEF UnlockPop
  <2>7. QED
    BY <2>4, <2>5, <2>6
<1>12. CASE UnlockSpawn(c)
  <2> DEFINE w == Head(resumeHead[c])
  <2>1. resumeHead[c] \in Seq(Coro) /\ resumeHead[c] # <<>>
    BY <1>12 DEF UnlockSpawn
  <2>2. w \in Coro
    BY <2>1, HeadTailProperties
  <2>3. pc[w] = "waiting"
    BY <1>12, <2>2 DEF UnlockSpawn, WaitersListed, Chosen
  <2> HIDE DEF w
  <2>4. \A d \in Coro : d # c => ~Holds(d)
    BY <1>12 DEF UnlockSpawn
  <2>5. /\ w # c
        /\ pc' = [pc EXCEPT ![c] = "idle", ![w] = "critical"]
        /\ sched' = [sched EXCEPT ![c] = "ready", ![w] = "ready"]
        /\ resumeHead' = [resumeHead EXCEPT ![c] = <<>>]
        /\ UNCHANGED <<locked, stack, toResume, expected>>
    BY <1>12, <2>3 DEF UnlockSpawn, w
  <2>6. TypeOK'
    <3>1. pc' \in [Coro -> Label]
      BY <2>2, <2>5
    <3>2. sched' \in [Coro -> {"ready", "running", "suspended"}]
      BY <2>2, <2>5
    <3>3. resumeHead' \in [Coro -> Seq(Coro)]
      BY <2>5
    <3>4. QED
      BY <2>5, <3>1, <3>2, <3>3
  <2>7. MutualExclusion' /\ WordTellsHolder'
    <3>1. \A d \in Coro : Holds(d)' <=> d = w
      BY <2>2, <2>4, <2>5
    <3>2. locked' = locked /\ locked = TRUE
      BY <1>12, <2>5 DEF UnlockSpawn
    <3>3. MutualExclusion'
      BY <3>1
    <3>4. WordTellsHolder'
      BY <2>2, <3>1, <3>2
    <3>5. QED
      BY <3>3, <3>4
  <2>8. Placement'
    BY <2>2, <2>3, <2>5
  <2>9. UnlockLists'
    BY <2>2, <2>4, <2>5
  <2>10. QED
    BY <2>6, <2>7, <2>8, <2>9
<1>13. QED
  BY <1>1, <1>2, <1>3, <1>4, <1>5, <1>6, <1>7, <1>8, <1>9, <1>10, <1>11, <1>12
     DEF Step
-----------------------------------------------------------------------------
(* What each step does to the list of waiters.                             *)

LEMMA EnqueueQueue ==
  ASSUME IInv, MutualExclusion', NEW c \in Coro, RegisterEnqueue(c)
  PROVE  WaitQueue' = Append(WaitQueue, c)
<1>1. Fetched' = Fetched
  <2>1. CASE \A d \in Coro : pc[d] # "pop"
    <3>1. \A d \in Coro : pc'[d] # "pop"
      BY <2>1 DEF RegisterEnqueue, IInv, TypeOK
    <3>2. QED
      BY <2>1, <3>1, FetchedNow, FetchedNext DEF RegisterEnqueue
  <2>2. CASE \E d \in Coro : pc[d] = "pop"
    <3>1. PICK d \in Coro : pc[d] = "pop"
      BY <2>2
    <3>2. pc'[d] = "pop"
      BY <3>1 DEF RegisterEnqueue, IInv, TypeOK
    <3>3. QED
      BY <3>1, <3>2, FetchedNow, FetchedNext DEF IInv, RegisterEnqueue
  <2>3. QED
    BY <2>1, <2>2
<1>2. Reversed(stack)' = Append(Reversed(stack), c)
  <2>1. Reversed(<<c>> \o stack) = Append(Reversed(stack), c)
    BY ReversedPush DEF IInv, TypeOK
  <2>2. Reversed(stack)' = Reversed(<<c>> \o stack)
    BY DEF RegisterEnqueue, Reversed
  <2>3. QED
    BY <2>1, <2>2
<1>3. Fetched \o Append(Reversed(stack), c) = Append(Fetched \o Reversed(stack), c)
  BY ListTypes, ConcatAppend
<1>4. QED
  BY <1>1, <1>2, <1>3 DEF WaitQueue

LEMMA PopQueue ==
  ASSUME IInv, MutualExclusion', NEW c \in Coro, UnlockPop(c)
  PROVE  /\ WaitQueue # <<>>
         /\ Head(WaitQueue) = Head(resumeHead[c])
         /\ WaitQueue' = Tail(WaitQueue)
<1>1. /\ resumeHead[c] \in Seq(Coro)
      /\ resumeHead[c] # <<>>
      /\ pc[c] = "pop"
  BY DEF UnlockPop, IInv, TypeOK, UnlockLists
<1>2. Fetched = resumeHead[c]
  BY <1>1, FetchedNow DEF IInv
<1>3. Fetched' = Tail(resumeHead[c])
  <2>1. \A d \in Coro : pc'[d] # "pop"
    BY <1>1 DEF UnlockPop, IInv, TypeOK, MutualExclusion, Holds, InUnlock
  <2>2. QED
    BY <2>1, FetchedNext DEF UnlockPop
<1>4. Reversed(stack)' = Reversed(stack)
  BY DEF UnlockPop, Reversed
<1>5. /\ resumeHead[c] \o Reversed(stack) # <<>>
      /\ Head(resumeHead[c] \o Reversed(stack)) = Head(resumeHead[c])
      /\ Tail(resumeHead[c] \o Reversed(stack)) = Tail(resumeHead[c]) \o Reversed(stack)
  BY <1>1, ListTypes, ConcatHeadTail
<1>6. QED
  BY <1>2, <1>3, <1>4, <1>5 DEF WaitQueue

LEMMA QuietQueue ==
  ASSUME IInv, MutualExclusion', NEW c \in Coro,
         Resume(c) \/ Step(c), ~RegisterEnqueue(c), ~UnlockPop(c)
  PROVE  WaitQueue' = WaitQueue
<1>1. CASE Resume(c) \/ Yield(c) \/ TryLock(c) \/ Lock(c) \/ RegisterAcquire(c)
              \/ RegisterRetry(c) \/ UnlockRelease(c)
  <2>1. UNCHANGED <<stack, toResume, resumeHead>>
    BY <1>1 DEF Resume, Yield, TryLock, Lock, RegisterAcquire, RegisterRetry, UnlockRelease
  <2>2. \A d \in Coro : pc'[d] = "pop" <=> pc[d] = "pop"
    BY <1>1 DEF Resume, Yield, TryLock, Lock, RegisterAcquire, RegisterRetry, UnlockRelease,
                IInv, TypeOK
  <2>3. QED
    BY <2>1, <2>2, SameQueue
<1>2. CASE Unlock(c)
  <2>1. Holds(c) /\ pc[c] # "pop"
    BY <1>2 DEF Unlock, Holds
  <2>2. \A d \in Coro : pc[d] # "pop"
    BY <2>1 DEF IInv, MutualExclusion, Holds, InUnlock
  <2>3. Fetched = toResume
    BY <2>2, FetchedNow
  <2>4. Fetched' = toResume
    <3>1. CASE toResume = <<>>
      <4>1. \A d \in Coro : pc'[d] # "pop"
        BY <1>2, <2>2, <3>1 DEF Unlock, IInv, TypeOK
      <4>2. QED
        BY <1>2, <4>1, FetchedNext DEF Unlock
    <3>2. CASE toResume # <<>>
      <4>1. pc'[c] = "pop" /\ resumeHead'[c] = toResume
        BY <1>2, <3>2 DEF Unlock, IInv, TypeOK
      <4>2. QED
        BY <4>1, FetchedNext
    <3>3. QED
      BY <3>1, <3>2
  <2>5. Reversed(stack)' = Reversed(stack)
    BY <1>2 DEF Unlock, Reversed
  <2>6. QED
    BY <2>3, <2>4, <2>5 DEF WaitQueue
<1>3. CASE UnlockExchange(c)
  <2>1. Holds(c) /\ pc[c] = "exchange" /\ toResume = <<>>
    BY <1>3 DEF UnlockExchange, Holds, InUnlock, IInv, UnlockLists
  <2>2. \A d \in Coro : pc[d] # "pop"
    BY <2>1 DEF IInv, MutualExclusion, Holds, InUnlock
  <2>3. WaitQueue = Reversed(stack)
    BY <2>1, <2>2, FetchedNow, ListTypes, ConcatEmptySeq DEF WaitQueue
  <2>4. pc'[c] = "pop" /\ resumeHead'[c] = Reversed(stack)
    BY <1>3 DEF UnlockExchange, IInv, TypeOK
  <2>5. Fetched' = Reversed(stack)
    BY <2>4, FetchedNext
  <2>6. Reversed(stack)' = <<>>
    <3>1. Reversed(stack)' = Reversed(<<>>)
      BY <1>3 DEF UnlockExchange, Reversed
    <3>2. QED
      BY <3>1, ReversedEmpty
  <2>7. QED
    BY <2>3, <2>5, <2>6, ListTypes, ConcatEmptySeq DEF WaitQueue
<1>4. CASE UnlockSpawn(c)
  <2>1. Holds(c) /\ pc[c] = "spawn"
    BY <1>4 DEF UnlockSpawn, Holds, InUnlock
  <2>2. \A d \in Coro : pc[d] # "pop"
    BY <2>1 DEF IInv, MutualExclusion, Holds, InUnlock
  <2>3. \A d \in Coro : pc'[d] # "pop"
    BY <1>4, <2>2 DEF UnlockSpawn, IInv, TypeOK
  <2>4. Reversed(stack)' = Reversed(stack)
    BY <1>4 DEF UnlockSpawn, Reversed
  <2>5. QED
    BY <1>4, <2>2, <2>3, <2>4, FetchedNow, FetchedNext DEF WaitQueue, UnlockSpawn
<1>5. QED
  BY <1>1, <1>2, <1>3, <1>4 DEF Step
-----------------------------------------------------------------------------
(* No waiter is lost or listed twice by a step.                            *)

LEMMA ListedStep ==
  ASSUME IInv, Control', NEW c \in Coro, Resume(c) \/ Step(c)
  PROVE  WaitersListed'
<1> DEFINE Waiting == {d \in Coro : pc[d] = "waiting"}
<1>0. /\ WaitersListed /\ WaitQueue \in Seq(Coro) /\ MutualExclusion'
      /\ pc \in [Coro -> Label] /\ MutualExclusion
  BY ListTypes DEF IInv, Control, TypeOK
<1>1. CASE RegisterEnqueue(c)
  <2>1. WaitQueue' = Append(WaitQueue, c)
    BY <1>0, <1>1, EnqueueQueue
  <2>2. pc[c] = "register" /\ pc' = [pc EXCEPT ![c] = "waiting"]
    BY <1>1 DEF RegisterEnqueue
  <2>3. c \notin Elems(WaitQueue) /\ c \notin Chosen
    BY <1>0, <2>2 DEF WaitersListed
  <2>4. Chosen' = Chosen
    BY <1>0, <1>1, <2>2, SameChosen DEF RegisterEnqueue
  <2>5. Waiting' = Waiting \cup {c}
    BY <1>0, <2>2
  <2>6. /\ Elems(WaitQueue)' = Elems(WaitQueue) \cup {c}
        /\ NoRepeat(WaitQueue)'
    BY <1>0, <2>1, <2>3, AppendElems DEF WaitersListed
  <2>7. QED
    BY <1>0, <2>3, <2>4, <2>5, <2>6 DEF WaitersListed
<1>2. CASE UnlockPop(c)
  <2> DEFINE w == Head(resumeHead[c])
  <2>1. /\ WaitQueue # <<>>
        /\ Head(WaitQueue) = w
        /\ WaitQueue' = Tail(WaitQueue)
    BY <1>0, <1>2, PopQueue
  <2>2. /\ pc[c] = "pop"
        /\ pc' = [pc EXCEPT ![c] = "spawn"]
        /\ resumeHead' = resumeHead
    BY <1>2 DEF UnlockPop
  <2>3. \A d \in Coro : pc[d] # "spawn"
    BY <1>0, <2>2 DEF MutualExclusion, Holds, InUnlock
  <2>4. Chosen = {}
    BY <2>3 DEF Chosen
  <2>5. Chosen' = {w}
    BY <1>0, <2>2, <2>3 DEF Chosen
  <2>6. Waiting' = Waiting
    BY <1>0, <2>2
  <2>7. /\ Elems(WaitQueue) = {w} \cup Elems(WaitQueue)'
        /\ NoRepeat(WaitQueue)'
        /\ w \notin Elems(WaitQueue)'
    BY <1>0, <2>1, HeadTailElems DEF WaitersListed
  <2>8. QED
    BY <1>0, <2>4, <2>5, <2>6, <2>7 DEF WaitersListed
<1>3. CASE UnlockSpawn(c)
  <2> DEFINE w == Head(resumeHead[c])
  <2>1. WaitQueue' = WaitQueue
    BY <1>0, <1>3, QuietQueue DEF UnlockSpawn, RegisterEnqueue, UnlockPop
  <2>2. /\ pc[c] = "spawn"
        /\ pc' = [pc EXCEPT ![c] = "idle", ![w] = "critical"]
    BY <1>3 DEF UnlockSpawn
  <2>3. \A d \in Coro : pc[d] = "spawn" => d = c
    BY <1>0, <2>2 DEF MutualExclusion, Holds, InUnlock
  <2>4. Chosen = {w}
    BY <2>2, <2>3 DEF Chosen
  <2>5. w \in Coro /\ pc[w] = "waiting"
    BY <1>0, <2>4 DEF WaitersListed
  <2> HIDE DEF w
  <2>6. \A d \in Coro : pc'[d] # "spawn"
    BY <1>0, <2>2, <2>3, <2>5
  <2>7. Chosen' = {}
    BY <2>6 DEF Chosen
  <2>8. Waiting' = Waiting \ {w}
    BY <1>0, <2>2, <2>5
  <2>9. QED
    BY <1>0, <2>1, <2>4, <2>7, <2>8 DEF WaitersListed
<1>4. CASE ~RegisterEnqueue(c) /\ ~UnlockPop(c) /\ ~UnlockSpawn(c)
  <2> USE <1>0, <1>4
  <2>1. WaitQueue' = WaitQueue
    BY QuietQueue
  <2>2. \A d \in Coro : pc'[d] = "waiting" <=> pc[d] = "waiting"
    BY DEF Step, Resume, Yield, TryLock, Lock, RegisterAcquire, RegisterRetry,
           Unlock, UnlockRelease, UnlockExchange
  <2>3. \A d \in Coro : pc'[d] = "spawn" <=> pc[d] = "spawn"
    BY DEF Step, Resume, Yield, TryLock, Lock, RegisterAcquire, RegisterRetry,
           Unlock, UnlockRelease, UnlockExchange
  <2>4. \A d \in Coro : pc[d] = "spawn" => resumeHead'[d] = resumeHead[d]
    BY DEF Step, Resume, Yield, TryLock, Lock, RegisterAcquire, RegisterRetry,
           Unlock, UnlockRelease, UnlockExchange, IInv, TypeOK
  <2>5. Chosen' = Chosen
    BY <2>3, <2>4 DEF Chosen
  <2>6. QED
    BY <2>1, <2>2, <2>5, SameWaiters
<1>5. QED
  BY <1>1, <1>2, <1>3, <1>4
-----------------------------------------------------------------------------
(* The invariant.                                                          *)

LEMMA InitInvariant == Init => IInv
<1> SUFFICES ASSUME Init
             PROVE  IInv
  OBVIOUS
<1>1. TypeOK
  <2>0. locked \in BOOLEAN
    BY DEF Init
  <2>1. /\ stack \in Seq(Coro) /\ toResume \in Seq(Coro)
        /\ pc \in [Coro -> Label]
        /\ sched \in [Coro -> {"ready", "running", "suspended"}]
    BY DEF Init, Label
  <2>2. expected \in [Coro -> Word]
    BY DEF Init, Word
  <2>3. resumeHead \in [Coro -> Seq(Coro)]
    BY DEF Init
  <2>4. QED
    BY <2>0, <2>1, <2>2, <2>3 DEF TypeOK
<1>2. MutualExclusion /\ WordTellsHolder /\ Placement /\ UnlockLists
  BY DEF Init, MutualExclusion, WordTellsHolder, Placement, UnlockLists, Holds, InUnlock
<1>3. WaitQueue = <<>>
  <2>1. \A c \in Coro : pc[c] # "pop"
    BY DEF Init
  <2>2. Fetched = <<>>
    BY <2>1, FetchedNow DEF Init
  <2>3. Reversed(stack) = <<>>
    BY ReversedEmpty DEF Init
  <2>4. QED
    BY <2>2, <2>3 DEF WaitQueue
<1>4. Elems(WaitQueue) = {} /\ NoRepeat(WaitQueue)
  BY <1>3 DEF Elems, NoRepeat
<1>5. Chosen = {} /\ {c \in Coro : pc[c] = "waiting"} = {}
  BY DEF Init, Chosen
<1>6. QED
  BY <1>1, <1>2, <1>4, <1>5 DEF IInv, WaitersListed

LEMMA NextInvariant == IInv /\ [Next]_vars => IInv'
<1> SUFFICES ASSUME IInv, [Next]_vars
             PROVE  IInv'
  OBVIOUS
<1>1. ASSUME NEW c \in Coro, Resume(c) \/ Step(c)
      PROVE  IInv'
  <2>1. Control'
    BY <1>1, ControlStep
  <2>2. WaitersListed'
    BY <1>1, <2>1, ListedStep
  <2>3. QED
    BY <2>1, <2>2 DEF IInv, Control
<1>2. CASE UNCHANGED vars
  <2>1. Control'
    BY <1>2 DEF vars, IInv, Control, TypeOK, MutualExclusion, WordTellsHolder, Placement,
                UnlockLists, Holds, Running
  <2>2. WaitQueue' = WaitQueue
    BY <1>2, <2>1, SameQueue DEF vars, Control
  <2>3. Chosen' = Chosen
    BY <1>2, SameChosen DEF vars
  <2>4. WaitersListed'
    BY <1>2, <2>2, <2>3, SameWaiters DEF vars, IInv
  <2>5. QED
    BY <2>1, <2>4 DEF IInv, Control
<1>3. QED
  BY <1>1, <1>2 DEF Next

LEMMA Invariance == Spec => []IInv
BY InitInvariant, NextInvariant, PTL DEF Spec
-----------------------------------------------------------------------------
(* The theorems.                                                           *)

\* The variables keep their types: in particular unlock takes the head and
\* the tail of lists that are not empty, and links only lock_awaiters.
THEOREM TypeCorrect == Spec => []TypeOK
BY Invariance, PTL DEF IInv

\* For any number of coroutines on any io_contexts, at most one holds the
\* mutex, from acquiring it to the last step of its unlock.
THEOREM Exclusion == Spec => []MutualExclusion
BY Invariance, PTL DEF IInv

\* No coroutine asleep in lock() is ever missing from, or twice on, the lists
\* that unlock serves, however registering races with unlocking.
THEOREM NoWaiterLost == Spec => []WaitersListed
BY Invariance, PTL DEF IInv

\* A coroutine asleep in lock() is always waiting for a coroutine that holds
\* the mutex, and so for an unlock that is still to come.
THEOREM SleepersWaitForHolder == Spec => []SleeperHasHolder
<1>1. IInv => SleeperHasHolder
  <2> SUFFICES ASSUME IInv, NEW c \in Coro, pc[c] = "waiting"
               PROVE  \E d \in Coro : Holds(d)
    BY DEF SleeperHasHolder
  <2>1. CASE locked
    BY <2>1 DEF IInv, WordTellsHolder
  <2>2. CASE ~locked
    <3>1. stack = <<>> /\ toResume = <<>> /\ \A d \in Coro : ~Holds(d)
      BY <2>2 DEF IInv, WordTellsHolder
    <3>2. \A d \in Coro : pc[d] # "pop" /\ pc[d] # "spawn"
      BY <3>1 DEF Holds, InUnlock
    <3>3. Fetched = <<>> /\ Chosen = {}
      BY <3>1, <3>2, FetchedNow DEF Chosen
    <3>4. WaitQueue = <<>>
      BY <3>1, <3>3, ReversedEmpty DEF WaitQueue
    <3>5. Elems(WaitQueue) = {}
      BY <3>4 DEF Elems
    <3>6. QED
      BY <3>3, <3>5 DEF IInv, WaitersListed
  <2>3. QED
    BY <2>1, <2>2
<1>2. QED
  BY <1>1, Invariance, PTL

\* The assertions of unlock and of ~mutex hold: unlock is never entered on a
\* free mutex, never exchanges an empty list and always has a waiter to resume.
THEOREM AssertsHold == Spec => []UnlockAsserts
<1>1. IInv => UnlockAsserts
  <2> SUFFICES ASSUME IInv
               PROVE  UnlockAsserts
    OBVIOUS
  <2> USE DEF IInv
  <2>1. ASSUME NEW c \in Coro, pc[c] \in {"critical", "leaving"}
        PROVE  AwaitingWord # NotLocked
    BY <2>1, WordMeaning DEF WordTellsHolder, Holds
  <2>2. ASSUME NEW c \in Coro, pc[c] = "exchange"
        PROVE  AwaitingWord \in Coro
    <3>1. locked /\ stack # <<>>
      BY <2>2 DEF WordTellsHolder, UnlockLists, Holds, InUnlock
    <3>2. AwaitingWord # NotLocked /\ AwaitingWord # LockedNoAwaiting
      BY <3>1, WordMeaning
    <3>3. QED
      BY <3>2, WordType DEF Word
  <2>3. \A c \in Coro : pc[c] \in {"pop", "spawn"} => resumeHead[c] # <<>>
    BY DEF UnlockLists
  <2>4. ASSUME \A c \in Coro : pc[c] = "idle"
        PROVE  AwaitingWord = NotLocked /\ toResume = <<>>
    <3>1. ~locked /\ toResume = <<>>
      BY <2>4 DEF WordTellsHolder, Holds, InUnlock
    <3>2. QED
      BY <3>1, WordMeaning
  <2>5. QED
    BY <2>1, <2>2, <2>3, <2>4 DEF UnlockAsserts
<1>2. QED
  BY <1>1, Invariance, PTL

\* unlock only ever follows the lock_awaiters of coroutines that still sleep.
THEOREM NoDanglingAwaiter == Spec => []AwaitersAlive
<1>1. IInv => AwaitersAlive
  <2> SUFFICES ASSUME IInv, NEW c \in Coro, pc[c] \in {"pop", "spawn"},
                      NEW i \in 1..Len(resumeHead[c]), i = 1 \/ pc[c] = "pop"
               PROVE  sched[resumeHead[c][i]] = "suspended"
    BY DEF AwaitersAlive
  <2>1. /\ resumeHead[c] \in Seq(Coro) /\ resumeHead[c] # <<>>
        /\ resumeHead[c][i] \in Coro
    BY ElementOfSeq DEF IInv, TypeOK, UnlockLists
  <2>2. pc[resumeHead[c][i]] = "waiting"
    <3>1. CASE pc[c] = "pop"
      <4>1. WaitQueue = resumeHead[c] \o Reversed(stack)
        BY <3>1, FetchedNow DEF WaitQueue, IInv
      <4>2. /\ i \in 1..Len(WaitQueue)
            /\ WaitQueue[i] = resumeHead[c][i]
        BY <2>1, <4>1, ListTypes, ConcatProperties
      <4>3. QED
        BY <4>2 DEF Elems, IInv, WaitersListed
    <3>2. CASE pc[c] = "spawn"
      <4>1. Head(resumeHead[c]) \in Chosen
        BY <3>2 DEF Chosen
      <4>2. resumeHead[c][i] = Head(resumeHead[c])
        BY <2>1, <3>2
      <4>3. QED
        BY <4>1, <4>2 DEF IInv, WaitersListed
    <3>3. QED
      BY <3>1, <3>2
  <2>3. QED
    BY <2>1, <2>2 DEF IInv, Placement
<1>2. QED
  BY <1>1, Invariance, PTL

\* What the lists hold, in whole: typed, complete, without repetition and
\* without a frame that is gone.
THEOREM ListsKept == Spec => []ListSound
BY TypeCorrect, NoWaiterLost, NoDanglingAwaiter, PTL DEF ListSound

\* What the word says of the holder, in whole: one, one if anybody sleeps, and
\* no failed assertion.
THEOREM HolderKept == Spec => []HolderSound
BY Exclusion, SleepersWaitForHolder, AssertsHold, PTL DEF HolderSound
-----------------------------------------------------------------------------
(* Refinement: every step is a step of FifoLock, or leaves it alone.        *)

LEMMA OwnerNow ==
  ASSUME MutualExclusion
  PROVE  /\ \A c \in Coro : pc[c] = "spawn" => Owner = Head(resumeHead[c])
         /\ \A c \in Coro : Holds(c) /\ pc[c] # "spawn" => Owner = c
         /\ (\A c \in Coro : ~Holds(c)) => Owner = NoOwner
BY DEF MutualExclusion, Owner, Holds, InUnlock

LEMMA OwnerNext ==
  ASSUME MutualExclusion'
  PROVE  /\ \A c \in Coro : pc'[c] = "spawn" => Owner' = Head(resumeHead'[c])
         /\ \A c \in Coro : Holds(c)' /\ pc'[c] # "spawn" => Owner' = c
         /\ (\A c \in Coro : ~Holds(c)') => Owner' = NoOwner
BY DEF MutualExclusion, Owner, Holds, InUnlock, NoOwner

LEMMA OwnerIsHolderOrChosen ==
  ASSUME IInv, locked
  PROVE  /\ Owner \in Coro
         /\ Holds(Owner) \/ pc[Owner] = "waiting"
<1>1. PICK d \in Coro : Holds(d)
  BY DEF IInv, WordTellsHolder
<1>2. CASE pc[d] = "spawn"
  <2>1. Owner = Head(resumeHead[d]) /\ Owner \in Chosen
    BY <1>2, OwnerNow DEF IInv, Chosen
  <2>2. QED
    BY <2>1 DEF IInv, WaitersListed
<1>3. CASE pc[d] # "spawn"
  BY <1>1, <1>3, OwnerNow DEF IInv
<1>4. QED
  BY <1>2, <1>3

\* Nobody holds a free mutex, and nobody waits for it.
LEMMA FreeMutex ==
  ASSUME IInv, ~locked
  PROVE  /\ \A d \in Coro : ~Holds(d)
         /\ Owner = NoOwner
         /\ WaitQueue = <<>>
<1>1. \A d \in Coro : ~Holds(d)
  BY DEF IInv, WordTellsHolder
<1>2. \A d \in Coro : pc[d] # "pop"
  BY <1>1 DEF Holds, InUnlock
<1>3. Fetched = <<>> /\ Reversed(stack) = <<>>
  BY <1>2, FetchedNow, ReversedEmpty DEF IInv, WordTellsHolder
<1>4. QED
  BY <1>1, <1>3, OwnerNow DEF WaitQueue, IInv

LEMMA TakeStep ==
  ASSUME IInv, IInv', NEW c \in Coro, ~locked, WaitQueue' = WaitQueue, pc'[c] = "critical"
  PROVE  Abstract!Take(c)
<1>1. Owner = NoOwner /\ WaitQueue = <<>>
  BY FreeMutex
<1>2. Owner' = c
  BY OwnerNext DEF IInv, Holds
<1>3. QED
  BY <1>1, <1>2 DEF Abstract!Take

\* The holder, if any, stays the same.
LEMMA SameOwner ==
  ASSUME IInv, IInv', UNCHANGED resumeHead,
         \A d \in Coro : Holds(d)' <=> Holds(d),
         \A d \in Coro : pc'[d] = "spawn" <=> pc[d] = "spawn"
  PROVE  Owner' = Owner
<1>1. CASE \A d \in Coro : ~Holds(d)
  BY <1>1, OwnerNow, OwnerNext DEF IInv, NoOwner
<1>2. CASE \E d \in Coro : Holds(d)
  BY <1>2, OwnerNow, OwnerNext DEF IInv
<1>3. QED
  BY <1>1, <1>2

LEMMA RefineStep ==
  ASSUME IInv, IInv', NEW c \in Coro, Resume(c) \/ Step(c)
  PROVE  Abstract!LockNext \/ UNCHANGED <<Owner, WaitQueue>>
<1>0. /\ MutualExclusion /\ MutualExclusion' /\ pc \in [Coro -> Label]
      /\ resumeHead \in [Coro -> Seq(Coro)]
  BY DEF IInv, TypeOK
<1>1. CASE Resume(c) \/ Yield(c) \/ Lock(c) \/ RegisterRetry(c)
  <2>1. WaitQueue' = WaitQueue
    BY <1>0, <1>1, QuietQueue DEF Resume, Yield, Lock, RegisterRetry, RegisterEnqueue, UnlockPop
  <2>2. /\ \A d \in Coro : Holds(d)' <=> Holds(d)
        /\ \A d \in Coro : pc'[d] = "spawn" <=> pc[d] = "spawn"
        /\ UNCHANGED resumeHead
    BY <1>0, <1>1 DEF Resume, Yield, Lock, RegisterRetry, Holds, InUnlock
  <2>3. QED
    BY <2>1, <2>2, SameOwner
<1>2. CASE TryLock(c)
  <2>1. WaitQueue' = WaitQueue
    BY <1>0, <1>2, QuietQueue DEF Step, TryLock, RegisterEnqueue, UnlockPop
  <2>2. CASE ~locked
    <3>1. pc'[c] = "critical"
      BY <1>0, <1>2, <2>2, WordMeaning DEF TryLock, IInv
    <3>2. QED
      BY <2>1, <2>2, <3>1, TakeStep DEF Abstract!LockNext
  <2>3. CASE locked
    <3>1. UNCHANGED <<pc, resumeHead>>
      BY <1>2, <2>3, WordMeaning DEF TryLock, IInv
    <3>2. Owner' = Owner
      BY <3>1, SameOwner DEF Holds
    <3>3. QED
      BY <2>1, <3>2
  <2>4. QED
    BY <2>2, <2>3
<1>3. CASE RegisterAcquire(c)
  <2>1. WaitQueue' = WaitQueue
    BY <1>0, <1>3, QuietQueue DEF Step, RegisterAcquire, RegisterEnqueue, UnlockPop
  <2>2. ~locked /\ pc'[c] = "critical"
    BY <1>0, <1>3, WordMeaning DEF RegisterAcquire, IInv
  <2>3. QED
    BY <2>1, <2>2, TakeStep DEF Abstract!LockNext
<1>4. CASE RegisterEnqueue(c)
  <2>1. WaitQueue' = Append(WaitQueue, c)
    BY <1>0, <1>4, EnqueueQueue
  <2>2. pc[c] = "register" /\ pc' = [pc EXCEPT ![c] = "waiting"] /\ UNCHANGED resumeHead
    BY <1>4 DEF RegisterEnqueue
  <2>3. locked
    BY <1>4, WordMeaning DEF RegisterEnqueue, IInv
  <2>4. Owner \notin {NoOwner, c}
    BY <2>2, <2>3, OwnerIsHolderOrChosen, WordAssumption DEF NoOwner, Holds, InUnlock
  <2>5. \A i \in 1..Len(WaitQueue) : WaitQueue[i] # c
    BY <2>2 DEF IInv, WaitersListed, Elems
  <2>6. Owner' = Owner
    BY <1>0, <2>2, SameOwner DEF Holds, InUnlock
  <2>7. Abstract!Join(c)
    BY <2>1, <2>4, <2>5, <2>6 DEF Abstract!Join
  <2>8. QED
    BY <2>7 DEF Abstract!LockNext
<1>5. CASE Unlock(c)
  <2>1. WaitQueue' = WaitQueue
    BY <1>0, <1>5, QuietQueue DEF Step, Unlock, RegisterEnqueue, UnlockPop
  <2>2. Holds(c) /\ pc[c] # "spawn" /\ Holds(c)' /\ pc'[c] # "spawn"
    BY <1>0, <1>5 DEF Unlock, Holds, InUnlock
  <2>3. Owner = c /\ Owner' = c
    BY <1>0, <2>2, OwnerNow, OwnerNext
  <2>4. QED
    BY <2>1, <2>3
<1>6. CASE UnlockRelease(c)
  <2>1. WaitQueue' = WaitQueue
    BY <1>0, <1>6, QuietQueue DEF Step, UnlockRelease, RegisterEnqueue, UnlockPop
  <2>2. Holds(c) /\ pc[c] = "cas"
    BY <1>6 DEF UnlockRelease, Holds, InUnlock
  <2>3. Owner = c
    BY <1>0, <2>2, OwnerNow
  <2>4. CASE AwaitingWord = LockedNoAwaiting
    <3>1. locked' = FALSE
      BY <1>6, <2>4 DEF UnlockRelease
    <3>2. Owner' = NoOwner /\ WaitQueue' = <<>>
      <4>1. \A d \in Coro : ~Holds(d)'
        BY <1>0, <1>6, <2>2, <2>4 DEF UnlockRelease, MutualExclusion, Holds, InUnlock
      <4>2. \A d \in Coro : pc[d] # "pop"
        BY <1>0, <2>2 DEF MutualExclusion, Holds, InUnlock
      <4>3. stack = <<>> /\ toResume = <<>>
        BY <2>2, <2>4, WordMeaning DEF IInv, UnlockLists
      <4>4. WaitQueue = <<>>
        BY <4>2, <4>3, FetchedNow, ReversedEmpty DEF WaitQueue
      <4>5. QED
        BY <1>0, <2>1, <4>1, <4>4, OwnerNext DEF NoOwner
    <3>3. Abstract!Free
      BY <2>1, <2>3, <3>2, WordAssumption DEF Abstract!Free, NoOwner
    <3>4. QED
      BY <3>3 DEF Abstract!LockNext
  <2>5. CASE AwaitingWord # LockedNoAwaiting
    <3>1. Holds(c)' /\ pc'[c] # "spawn"
      BY <1>0, <1>6, <2>5 DEF UnlockRelease, Holds, InUnlock
    <3>2. QED
      BY <1>0, <2>1, <2>3, <3>1, OwnerNext
  <2>6. QED
    BY <2>4, <2>5
<1>7. CASE UnlockExchange(c)
  <2>1. WaitQueue' = WaitQueue
    BY <1>0, <1>7, QuietQueue DEF Step, UnlockExchange, RegisterEnqueue, UnlockPop
  <2>2. Holds(c) /\ pc[c] # "spawn" /\ Holds(c)' /\ pc'[c] # "spawn"
    BY <1>0, <1>7 DEF UnlockExchange, Holds, InUnlock
  <2>3. Owner = c /\ Owner' = c
    BY <1>0, <2>2, OwnerNow, OwnerNext
  <2>4. QED
    BY <2>1, <2>3
<1>8. CASE UnlockPop(c)
  <2>1. /\ WaitQueue # <<>>
        /\ Head(WaitQueue) = Head(resumeHead[c])
        /\ WaitQueue' = Tail(WaitQueue)
    BY <1>0, <1>8, PopQueue
  <2>2. /\ Holds(c) /\ pc[c] # "spawn"
        /\ pc'[c] = "spawn" /\ resumeHead' = resumeHead
    BY <1>0, <1>8 DEF UnlockPop, Holds, InUnlock
  <2>3. Owner = c /\ Owner' = Head(WaitQueue)
    BY <1>0, <2>1, <2>2, OwnerNow, OwnerNext
  <2>4. Abstract!HandOff
    BY <2>1, <2>3, WordAssumption DEF Abstract!HandOff, NoOwner
  <2>5. QED
    BY <2>4 DEF Abstract!LockNext
<1>9. CASE UnlockSpawn(c)
  <2> DEFINE w == Head(resumeHead[c])
  <2>1. WaitQueue' = WaitQueue
    BY <1>0, <1>9, QuietQueue DEF Step, UnlockSpawn, RegisterEnqueue, UnlockPop
  <2>2. /\ pc[c] = "spawn"
        /\ pc' = [pc EXCEPT ![c] = "idle", ![w] = "critical"]
    BY <1>9 DEF UnlockSpawn
  <2>3. w \in Coro /\ pc[w] = "waiting"
    BY <2>2 DEF IInv, WaitersListed, Chosen
  <2>4. Owner = w
    BY <1>0, <2>2, OwnerNow
  <2> HIDE DEF w
  <2>5. pc'[w] = "critical"
    BY <1>0, <2>2, <2>3
  <2>6. Owner' = w
    BY <1>0, <2>3, <2>5, OwnerNext DEF Holds
  <2>7. QED
    BY <2>1, <2>4, <2>6
<1>10. QED
  BY <1>1, <1>2, <1>3, <1>4, <1>5, <1>6, <1>7, <1>8, <1>9 DEF Step

\* For any number of coroutines, the mutex is a first-in first-out lock: the
\* waiters own it in the order in which their awaiters reached awaiting_, and
\* neither lock() nor try_lock() ever takes it past one of them.
THEOREM Refinement == Spec => ImplementsFifoLock
<1>1. Init => Abstract!LockInit
  <2> SUFFICES ASSUME Init
               PROVE  Abstract!LockInit
    OBVIOUS
  <2>1. IInv /\ ~locked
    BY InitInvariant DEF Init
  <2>2. QED
    BY <2>1, FreeMutex DEF Abstract!LockInit
<1>2. IInv /\ IInv' /\ [Next]_vars => [Abstract!LockNext]_(Abstract!lockVars)
  <2> SUFFICES ASSUME IInv, IInv', [Next]_vars
               PROVE  Abstract!LockNext \/ UNCHANGED <<Owner, WaitQueue>>
    BY DEF Abstract!lockVars
  <2>1. ASSUME NEW c \in Coro, Resume(c) \/ Step(c)
        PROVE  Abstract!LockNext \/ UNCHANGED <<Owner, WaitQueue>>
    BY <2>1, RefineStep
  <2>2. CASE UNCHANGED vars
    <3>1. UNCHANGED <<pc, stack, toResume, resumeHead>>
      BY <2>2 DEF vars
    <3>2. Owner' = Owner
      BY <3>1, SameOwner DEF Holds
    <3>3. WaitQueue' = WaitQueue
      BY <3>1, SameQueue DEF IInv
    <3>4. QED
      BY <3>2, <3>3
  <2>3. QED
    BY <2>1, <2>2 DEF Next
<1>3. QED
  BY <1>1, <1>2, Invariance, PTL DEF Spec, ImplementsFifoLock, Abstract!LockSpec

-----------------------------------------------------------------------------
(* Generators: sequences.                                                   *)

\* h is on s; nobody is on s twice.
In(h, s) == \E i \in 1..Len(s) : s[i] = h
Distinct(s) == \A i, j \in 1..Len(s) : s[i] = s[j] => i = j
Apart(s, t) == \A h : ~(In(h, s) /\ In(h, t))

LEMMA Indices ==
  ASSUME NEW T, NEW s \in Seq(T)
  PROVE  /\ Len(s) \in Nat /\ DOMAIN s = 1..Len(s)
         /\ \A i \in 1..Len(s) : s[i] \in T
         /\ \A x : x \in ToSet(s) <=> In(x, s)
<1>1. Len(s) \in Nat /\ DOMAIN s = 1..Len(s)
  BY LenProperties
<1>2. \A i \in 1..Len(s) : s[i] \in T
  BY ElementOfSeq
<1>3. \A x : x \in ToSet(s) <=> In(x, s)
  BY <1>1 DEF ToSet, In
<1>4. QED
  BY <1>1, <1>2, <1>3

LEMMA EmptyList ==
  /\ Len(<<>>) = 0
  /\ \A x : ~In(x, <<>>)
  /\ Distinct(<<>>)
<1>1. Len(<<>>) = 0
  BY EmptySeq
<1>2. QED
  BY <1>1 DEF In, Distinct

LEMMA Joined ==
  ASSUME NEW T, NEW s \in Seq(T), NEW t \in Seq(T)
  PROVE  /\ s \o t \in Seq(T) /\ Len(s \o t) = Len(s) + Len(t)
         /\ \A i \in 1..Len(s) : (s \o t)[i] = s[i]
         /\ \A i \in 1..Len(t) : (s \o t)[Len(s) + i] = t[i]
         /\ \A i \in Len(s) + 1..Len(s) + Len(t) : (s \o t)[i] = t[i - Len(s)]
         /\ \A x : In(x, s \o t) <=> In(x, s) \/ In(x, t)
         /\ Distinct(s \o t) <=> Distinct(s) /\ Distinct(t) /\ Apart(s, t)
<1> DEFINE u == s \o t
           m == Len(s)
           n == Len(t)
<1>1. m \in Nat /\ n \in Nat /\ \A i \in 1..m : s[i] \in T
  BY Indices
<1>2. /\ u \in Seq(T) /\ Len(u) = m + n
      /\ \A i \in 1..m + n : u[i] = IF i <= m THEN s[i] ELSE t[i - m]
  BY ConcatProperties
<1> HIDE DEF u, m, n
<1>3. /\ \A i \in 1..m : u[i] = s[i]
      /\ \A i \in 1..n : u[m + i] = t[i]
      /\ \A i \in m + 1..m + n : u[i] = t[i - m]
  <2>1. \A i \in 1..m : i \in 1..m + n /\ i <= m
    BY <1>1
  <2>2. \A i \in 1..n : m + i \in 1..m + n /\ ~(m + i <= m) /\ (m + i) - m = i
    BY <1>1
  <2>3. \A i \in m + 1..m + n : i \in 1..m + n /\ ~(i <= m)
    BY <1>1
  <2>4. QED
    BY <1>2, <2>1, <2>2, <2>3
<1>4. \A i \in 1..m + n : i \in 1..m \/ i - m \in 1..n
  BY <1>1
<1>5. \A i \in 1..n : m + i \in 1..m + n
  BY <1>1
<1>6. \A i \in 1..m : i \in 1..m + n
  BY <1>1
<1>7. ASSUME NEW x
      PROVE  In(x, u) <=> In(x, s) \/ In(x, t)
  <2>1. In(x, u) <=> \E i \in 1..m + n : u[i] = x
    BY <1>2 DEF In
  <2>2. (In(x, s) <=> \E i \in 1..m : s[i] = x) /\ (In(x, t) <=> \E i \in 1..n : t[i] = x)
    BY DEF In, m, n
  <2>3. \A i \in 1..m + n : i \in 1..m \/ (i - m \in 1..n /\ u[i] = t[i - m])
    BY <1>1, <1>2
  <2>4. QED
    BY <1>3, <1>5, <1>6, <2>1, <2>2, <2>3
<1>8. ASSUME Distinct(u)
      PROVE  Distinct(s) /\ Distinct(t) /\ Apart(s, t)
  <2>1. \A i, j \in 1..m + n : u[i] = u[j] => i = j
    BY <1>2, <1>8 DEF Distinct
  <2>2. \A i, j \in 1..m : s[i] = s[j] => i = j
    BY <1>3, <1>6, <2>1
  <2>3. ASSUME NEW i \in 1..n, NEW j \in 1..n, t[i] = t[j]
        PROVE  i = j
    <3>1. m + i = m + j
      BY <1>3, <1>5, <2>1, <2>3
    <3>2. QED
      BY <1>1, <3>1
  <2>4. ASSUME NEW x, In(x, s), In(x, t)
        PROVE  FALSE
    <3>1. PICK i \in 1..m : s[i] = x
      BY <2>4 DEF In, m
    <3>2. PICK j \in 1..n : t[j] = x
      BY <2>4 DEF In, n
    <3>3. i = m + j
      BY <1>3, <1>5, <1>6, <2>1, <3>1, <3>2
    <3>4. QED
      BY <1>1, <3>3
  <2>5. QED
    BY <2>2, <2>3, <2>4 DEF Distinct, Apart, m, n
<1>9. ASSUME Distinct(s), Distinct(t), Apart(s, t), NEW i \in 1..m + n, NEW j \in 1..m + n,
             u[i] = u[j]
      PROVE  i = j
  <2>1. /\ \A k, l \in 1..m : s[k] = s[l] => k = l
        /\ \A k, l \in 1..n : t[k] = t[l] => k = l
    BY <1>9 DEF Distinct, m, n
  <2>2. \A k \in 1..m, l \in 1..n : s[k] # t[l]
    BY <1>1, <1>9 DEF Apart, In, m, n
  <2>3. \A k \in 1..m + n : \/ k \in 1..m /\ u[k] = s[k]
                            \/ k - m \in 1..n /\ u[k] = t[k - m]
    BY <1>1, <1>2
  <2>4. CASE i \in 1..m /\ u[i] = s[i]
    BY <1>9, <2>1, <2>2, <2>3, <2>4
  <2>5. CASE i - m \in 1..n /\ u[i] = t[i - m]
    <3>1. j - m \in 1..n /\ u[j] = t[j - m]
      BY <1>9, <2>2, <2>3, <2>5
    <3>2. i - m = j - m
      BY <1>9, <2>1, <2>5, <3>1
    <3>3. QED
      BY <1>1, <3>2
  <2>6. QED
    BY <2>3, <2>4, <2>5
<1>10. QED
  BY <1>2, <1>3, <1>7, <1>8, <1>9 DEF Distinct, u, m, n

LEMMA Single ==
  ASSUME NEW T, NEW x \in T
  PROVE  /\ <<x>> \in Seq(T) /\ Len(<<x>>) = 1 /\ Distinct(<<x>>)
         /\ \A y : In(y, <<x>>) <=> y = x
<1>1. <<x>> \in Seq(T) /\ Len(<<x>>) = 1 /\ <<x>>[1] = x
  OBVIOUS
<1> DEFINE s == <<x>>
<1> HIDE DEF s
<1>2. \A i \in 1..Len(s) : i = 1
  BY <1>1 DEF s
<1>3. 1 \in 1..Len(s)
  BY <1>1 DEF s
<1>4. QED
  BY <1>1, <1>2, <1>3 DEF In, Distinct, s

LEMMA Added ==
  ASSUME NEW T, NEW s \in Seq(T), NEW x \in T
  PROVE  /\ <<x>> \o s \in Seq(T) /\ Append(s, x) \in Seq(T) /\ Append(s, x) = s \o <<x>>
         /\ \A y : In(y, <<x>> \o s) <=> y = x \/ In(y, s)
         /\ \A y : In(y, Append(s, x)) <=> y = x \/ In(y, s)
         /\ Distinct(<<x>> \o s) <=> Distinct(s) /\ ~In(x, s)
         /\ Distinct(Append(s, x)) <=> Distinct(s) /\ ~In(x, s)
<1> DEFINE one == <<x>>
<1>1. one \in Seq(T) /\ Distinct(one) /\ \A y : In(y, one) <=> y = x
  BY Single
<1>2. Append(s, x) = s \o one /\ Append(s, x) \in Seq(T)
  BY AppendIsConcat, AppendProperties
<1> HIDE DEF one
<1>3. /\ one \o s \in Seq(T)
      /\ \A y : In(y, one \o s) <=> In(y, one) \/ In(y, s)
      /\ Distinct(one \o s) <=> Distinct(one) /\ Distinct(s) /\ Apart(one, s)
  BY <1>1, Joined
<1>4. /\ \A y : In(y, s \o one) <=> In(y, s) \/ In(y, one)
      /\ Distinct(s \o one) <=> Distinct(s) /\ Distinct(one) /\ Apart(s, one)
  BY <1>1, Joined
<1>5. (Apart(one, s) <=> ~In(x, s)) /\ (Apart(s, one) <=> ~In(x, s))
  BY <1>1, Zenon DEF Apart
<1>6. QED
  BY <1>1, <1>2, <1>3, <1>4, <1>5 DEF one

LEMMA Split ==
  ASSUME NEW T, NEW s \in Seq(T), s # <<>>
  PROVE  /\ Head(s) \in T /\ Tail(s) \in Seq(T) /\ In(Head(s), s)
         /\ \A y : In(y, s) <=> y = Head(s) \/ In(y, Tail(s))
         /\ Distinct(s) => Distinct(Tail(s)) /\ ~In(Head(s), Tail(s))
<1> DEFINE h == Head(s)
           t == Tail(s)
           m == Len(t)
<1>1. /\ h \in T /\ t \in Seq(T) /\ Len(t) = Len(s) - 1
      /\ \A i \in 1..Len(t) : t[i] = s[i + 1]
  BY HeadTailProperties
<1>2. Len(s) \in Nat \ {0} /\ h = s[1]
  BY EmptySeq
<1>3. m \in Nat /\ Len(s) = m + 1 /\ \A i \in 1..m : t[i] = s[i + 1]
  BY <1>1, <1>2
<1> HIDE DEF h, t, m
<1>4. /\ 1 \in 1..m + 1 /\ \A i \in 1..m : i + 1 \in 1..m + 1 /\ i + 1 # 1
      /\ \A i \in 1..m + 1 : i = 1 \/ (i - 1 \in 1..m /\ (i - 1) + 1 = i)
      /\ \A i, j \in 1..m : i + 1 = j + 1 => i = j
  BY <1>3
<1>5. /\ \A y : In(y, s) <=> \E i \in 1..m + 1 : s[i] = y
      /\ \A y : In(y, t) <=> \E i \in 1..m : t[i] = y
      /\ Distinct(s) <=> \A i, j \in 1..m + 1 : s[i] = s[j] => i = j
      /\ Distinct(t) <=> \A i, j \in 1..m : t[i] = t[j] => i = j
  BY <1>3 DEF In, Distinct, m
<1>6. ASSUME NEW y
      PROVE  In(y, s) <=> y = h \/ In(y, t)
  <2>1. ASSUME NEW i \in 1..m + 1, s[i] = y
        PROVE  y = h \/ In(y, t)
    <3>1. CASE i = 1
      BY <1>2, <2>1, <3>1
    <3>2. CASE i - 1 \in 1..m /\ (i - 1) + 1 = i
      BY <1>3, <1>5, <2>1, <3>2
    <3>3. QED
      BY <1>4, <3>1, <3>2
  <2>2. In(y, t) => In(y, s)
    BY <1>3, <1>4, <1>5
  <2>3. In(h, s)
    BY <1>2, <1>4, <1>5
  <2>4. QED
    BY <1>5, <2>1, <2>2, <2>3
<1>7. Distinct(s) => Distinct(t) /\ ~In(h, t)
  BY <1>2, <1>3, <1>4, <1>5
<1>8. QED
  BY <1>1, <1>6, <1>7 DEF h, t

LEMMA LeastExists ==
  ASSUME NEW S \in SUBSET Nat, S # {}
  PROVE  \E f \in S : \A g \in S : f <= g
<1> DEFINE R == OpToRel(<, Nat)
<1>1. IsWellFoundedOn(R, Nat)
  BY NatLessThanWellFounded
<1>2. \A x, y \in Nat : <<y, x>> \in R <=> y < x
  BY SMT DEF OpToRel
<1> HIDE DEF R
<1>3. PICK x \in S : \A y \in S : ~ (<<y, x>> \in R)
  BY <1>1, WFMin, Zenon
<1>4. ASSUME NEW y \in S PROVE x <= y
  <2>1. x \in Nat /\ y \in Nat
    BY <1>4
  <2>2. ~(<<y, x>> \in R)
    BY <1>3, <1>4
  <2>3. ~(y < x)
    BY <1>2, <2>1, <2>2
  <2> QED
    BY <2>1, <2>3
<1> QED
  BY <1>4

-----------------------------------------------------------------------------
(* Generators: the inductive invariant.                                     *)

Spot == {"none", "initial", "run", "yield", "nest", "done", "gone"}
GenPromise == [at : Spot, owner : Gen \cup {User, None}, top : Gen \cup {None},
               info : Gen \cup {None}, root : Gen \cup {None}, val : Nat]
Entry == [by : Gen, n : Nat]

\* In the frames gs: c has not been destroyed; it has begun and not ended; the
\* generator whose iterator stands on it or on what it splices in.
Up(gs, c) == gs[c].at \notin {"none", "gone"}
Active(gs, c) == gs[c].at \in {"run", "yield", "nest"}
Base(gs, c) == IF gs[c].info = None THEN c ELSE gs[gs[c].info].root

\* A frame is destroyed with or before the one that has made it.
MadeShape(gs) ==
    \A g \in Gen :
        /\ gs[g].at = "none" <=> gs[g].owner = None
        /\ gs[g].owner \in Gen => gs[gs[g].owner].at # "none"
        /\ Up(gs, g) => gs[g].owner = User \/ Up(gs, gs[g].owner)
        /\ gs[g].at = "none" => gs[g].info = None /\ gs[g].val = 0

\* A generator that is spliced in belongs to the one that waits for it, and to
\* nobody else...
SpliceShape(gs) ==
    /\ \A g \in Gen :
         /\ gs[g].at \in {"initial", "done"} => gs[g].info = None /\ gs[g].top = g
         /\ Up(gs, g) /\ gs[g].info # None =>
               /\ Active(gs, g) /\ gs[g].info = gs[g].owner /\ gs[g].top = g
               /\ gs[gs[g].info].at = "nest"
         /\ gs[g].at = "nest" => \E c \in Gen : Up(gs, c) /\ gs[c].info = g
    /\ \A c, d \in Gen : Up(gs, c) /\ Up(gs, d) /\ gs[c].info = gs[d].info /\ gs[c].info # None
                         => c = d

\* ...and at the end of such a chain is the one that the iterator stands on.
TopShape(gs) ==
    \A g \in Gen :
        /\ gs[g].at = "nest" => gs[g].root = Base(gs, g)
        /\ Active(gs, g) => Base(gs, g) \in Gen /\ gs[Base(gs, g)].at # "none"
        /\ Active(gs, g) /\ gs[g].at # "nest" => gs[Base(gs, g)].top = g
        /\ Active(gs, g) /\ gs[g].info = None =>
              /\ gs[g].top \in Gen /\ gs[gs[g].top].at \in {"run", "yield"}
              /\ Base(gs, gs[g].top) = g

Shape(gs) == gs \in [Gen -> GenPromise] /\ MadeShape(gs) /\ SpliceShape(gs) /\ TopShape(gs)

\* The resume() calls cs: each has been made from the body that runs in the next one.
CallShape(gs, cs) ==
    /\ cs \in Seq([it : Gen, in : Gen])
    /\ \A i \in 1..Len(cs) :
         /\ gs[cs[i].in].at = "run" /\ Base(gs, cs[i].in) = cs[i].it
         /\ Active(gs, cs[i].it) /\ gs[cs[i].it].info = None
         /\ gs[cs[i].it].owner = IF i = Len(cs) THEN User ELSE cs[i + 1].in
    /\ \A g \in Gen : gs[g].at = "run" => \E i \in 1..Len(cs) : cs[i].in = g

\* Frames can be numbered so that each has a larger number than its owner.
RankedBy(gs, cs, n, rank) ==
    /\ rank \in [Gen \cup {User} -> 0..n]
    /\ \A g \in Gen : gs[g].at # "none" => rank[gs[g].owner] < rank[g]
    /\ \A g \in Gen : Active(gs, g) => rank[Base(gs, g)] <= rank[g]
    /\ \A i, j \in 1..Len(cs) : i < j => rank[cs[j].in] < rank[cs[i].it]
Ranked(gs, cs) == \E n \in Nat : \E rank \in [Gen \cup {User} -> 0..n] : RankedBy(gs, cs, n, rank)

-----------------------------------------------------------------------------
(* What becomes of the frames.                                              *)

\* A generator is made.
LEMMA MadeIn ==
  ASSUME NEW h \in Gen \cup {User}, NEW g \in Gen
  PROVE  Made(h, g) \in GenPromise
BY DEF Made, Blank, GenPromise, Spot

LEMMA ShapeMade ==
  ASSUME NEW gs, Shape(gs), NEW h \in Gen \cup {User}, h = User \/ Up(gs, h),
         NEW g \in Gen, gs[g].at = "none", NEW hs \in [Gen -> GenPromise],
         hs[g] = Made(h, g), \A c \in Gen \ {g} : hs[c] = gs[c]
  PROVE  /\ Shape(hs) /\ hs[g].at = "initial" /\ hs[g].owner = h /\ hs[g].info = None
         /\ \A c \in Gen \ {g} : hs[c] = gs[c]
         /\ \A c \in Gen : gs[c].owner # g
         /\ \A c \in Gen : Active(hs, c) <=> Active(gs, c)
         /\ \A c \in Gen : Active(gs, c) => Base(hs, c) = Base(gs, c)
<1> DEFINE m == Made(h, g)
<1>1. /\ m.at = "initial" /\ m.owner = h /\ m.top = g /\ m.info = None /\ m.root = None
      /\ m.val = 0 /\ m \in GenPromise
  BY DEF Made, Blank, GenPromise, Spot
<1> HIDE DEF m
<1>2. gs \in [Gen -> GenPromise] /\ MadeShape(gs) /\ SpliceShape(gs) /\ TopShape(gs)
  BY DEF Shape
<1>3. hs[g] = m /\ (\A c \in Gen \ {g} : hs[c] = gs[c]) /\ hs \in [Gen -> GenPromise]
  BY DEF m
<1> HIDE DEF m
<1>4. h # g /\ \A c \in Gen : gs[c].owner # g /\ (Up(gs, c) => gs[c].info # g)
  BY <1>2, GenAssumption DEF MadeShape, SpliceShape, Up
<1>5. /\ hs[g].at = "initial" /\ hs[g].owner = h /\ hs[g].top = g /\ hs[g].info = None
      /\ \A c \in Gen : c # g => /\ hs[c].at = gs[c].at /\ hs[c].owner = gs[c].owner
                                 /\ hs[c].top = gs[c].top /\ hs[c].info = gs[c].info
                                 /\ hs[c].val = gs[c].val
  BY <1>1, <1>3
<1>6. /\ \A c \in Gen : c # g => (Up(hs, c) <=> Up(gs, c)) /\ (Active(hs, c) <=> Active(gs, c))
      /\ Up(hs, g) /\ ~Up(gs, g) /\ ~Active(gs, g)
  BY <1>5 DEF Up, Active
<1>7. MadeShape(hs)
  <2>1. ASSUME NEW c \in Gen
        PROVE  /\ hs[c].at = "none" <=> hs[c].owner = None
               /\ hs[c].owner \in Gen => hs[hs[c].owner].at # "none"
               /\ Up(hs, c) => hs[c].owner = User \/ Up(hs, hs[c].owner)
               /\ hs[c].at = "none" => hs[c].info = None /\ hs[c].val = 0
    <3>1. CASE c = g
      <4>1. h \in Gen => Up(gs, h)
        BY GenAssumption
      <4>2. h \in Gen => hs[h].at # "none" /\ Up(hs, h)
        BY <1>4, <1>5, <1>6, <4>1 DEF Up
      <4>3. QED
        BY <1>5, <3>1, <4>2, GenAssumption
    <3>2. CASE c # g
      <4>1. gs[c].owner # g /\ (Up(gs, c) => gs[c].owner \in Gen \cup {User})
        BY <1>2, <1>4 DEF MadeShape, GenPromise, Up
      <4>2. QED
        BY <1>2, <1>5, <1>6, <3>2, <4>1 DEF MadeShape
    <3>3. QED
      BY <3>1, <3>2
  <2>2. QED
    BY <2>1 DEF MadeShape
<1>8. SpliceShape(hs)
  <2>1. ASSUME NEW c \in Gen
        PROVE  /\ hs[c].at \in {"initial", "done"} => hs[c].info = None /\ hs[c].top = c
               /\ hs[c].at = "nest" => \E d \in Gen : Up(hs, d) /\ hs[d].info = c
    <3>1. hs[c].at = "nest" => gs[c].at = "nest"
      BY <1>5
    <3>2. gs[c].at = "nest" => \E d \in Gen : d # g /\ Up(gs, d) /\ gs[d].info = c
      BY <1>2, <1>6 DEF SpliceShape
    <3>3. QED
      BY <1>2, <1>5, <1>6, <3>1, <3>2 DEF SpliceShape
  <2>2. ASSUME NEW c \in Gen, Up(hs, c), hs[c].info # None
        PROVE  /\ Active(hs, c) /\ hs[c].info = hs[c].owner /\ hs[c].top = c
               /\ hs[hs[c].info].at = "nest"
    <3>1. c # g /\ Up(gs, c) /\ gs[c].info # None /\ gs[c].info # g
      BY <1>4, <1>5, <1>6, <2>2
    <3>2. gs[c].info \in Gen
      BY <1>2, <3>1 DEF GenPromise
    <3>3. QED
      BY <1>2, <1>5, <1>6, <3>1, <3>2 DEF SpliceShape
  <2>3. ASSUME NEW c \in Gen, NEW d \in Gen, Up(hs, c), Up(hs, d),
               hs[c].info = hs[d].info, hs[c].info # None
        PROVE  c = d
    <3>1. c # g /\ d # g
      BY <1>5, <2>3
    <3>2. QED
      BY <1>2, <1>5, <1>6, <2>3, <3>1 DEF SpliceShape
  <2>4. QED
    BY <2>1, <2>2, <2>3 DEF SpliceShape
<1>9. /\ \A c \in Gen : Active(hs, c) <=> Active(gs, c)
      /\ \A c \in Gen : Active(gs, c) => Base(hs, c) = Base(gs, c)
  <2>1. ~Active(gs, g) /\ ~Active(hs, g)
    BY <1>1, <1>3 DEF Active
  <2>2. ASSUME NEW c \in Gen, Active(gs, c)
        PROVE  Base(hs, c) = Base(gs, c)
    <3>1. c # g /\ Up(gs, c)
      BY <2>1, <2>2 DEF Active, Up
    <3>2. gs[c].info = None \/ (gs[c].info \in Gen /\ gs[c].info # g)
      BY <1>2, <1>4, <3>1 DEF GenPromise
    <3>3. QED
      BY <1>3, <3>1, <3>2, GenAssumption DEF Base
  <2>3. QED
    BY <1>3, <2>1, <2>2 DEF Active
<1>10. TopShape(hs)
  <2>1. ASSUME NEW c \in Gen, Active(hs, c)
        PROVE  /\ c # g /\ Active(gs, c) /\ Base(gs, c) \in Gen /\ Base(hs, c) = Base(gs, c)
               /\ Base(gs, c) # g /\ hs[Base(gs, c)].at # "none"
    <3>1. c # g
      BY <1>1, <1>3, <2>1 DEF Active
    <3>2. c # g /\ Active(gs, c) /\ Base(gs, c) \in Gen /\ Base(hs, c) = Base(gs, c)
      BY <1>2, <1>9, <2>1, <3>1 DEF TopShape
    <3>3. Base(gs, c) # g /\ gs[Base(gs, c)].at # "none"
      BY <1>2, <3>2 DEF TopShape
    <3>4. QED
      BY <1>3, <3>2, <3>3
  <2>2. ASSUME NEW c \in Gen, hs[c].at = "nest"
        PROVE  hs[c].root = Base(hs, c)
    <3>1. Active(hs, c)
      BY <2>2 DEF Active
    <3>2. c # g /\ hs[c] = gs[c] /\ Base(hs, c) = Base(gs, c)
      BY <1>3, <2>1, <3>1
    <3>3. gs[c].root = Base(gs, c)
      BY <1>2, <2>2, <3>2 DEF TopShape
    <3>4. QED
      BY <3>2, <3>3
  <2>3. ASSUME NEW c \in Gen, Active(hs, c), hs[c].at # "nest"
        PROVE  hs[Base(hs, c)].top = c
    BY <1>2, <1>3, <2>1, <2>3 DEF TopShape
  <2>4. ASSUME NEW c \in Gen, Active(hs, c), hs[c].info = None
        PROVE  /\ hs[c].top \in Gen /\ hs[hs[c].top].at \in {"run", "yield"}
               /\ Base(hs, hs[c].top) = c
    <3>1. Active(gs, c) /\ hs[c] = gs[c]
      BY <1>3, <2>1, <2>4
    <3>2. gs[c].top \in Gen /\ gs[gs[c].top].at \in {"run", "yield"} /\ Base(gs, gs[c].top) = c
      BY <1>2, <2>4, <3>1 DEF TopShape
    <3>3. Active(gs, gs[c].top) /\ gs[c].top # g
      BY <3>2 DEF Active
    <3>4. QED
      BY <1>3, <1>9, <3>1, <3>2, <3>3
  <2>5. QED
    BY <2>1, <2>2, <2>3, <2>4 DEF TopShape
<1>11. QED
  BY <1>1, <1>3, <1>4, <1>7, <1>8, <1>9, <1>10 DEF Shape

\* Of c, nothing but at has changed.
Alike(gs, hs, c) == /\ hs[c].owner = gs[c].owner /\ hs[c].top = gs[c].top
                    /\ hs[c].info = gs[c].info /\ hs[c].root = gs[c].root

\* A generator begins, yields a value or goes on.
LEMMA FrameTurned ==
  ASSUME NEW gs, Shape(gs), NEW t \in Gen, gs[t].at \in {"initial", "run", "yield"},
         NEW hs, hs \in [Gen -> GenPromise], \A c \in Gen : Alike(gs, hs, c),
         \A c \in Gen \ {t} : hs[c].at = gs[c].at /\ hs[c].val = gs[c].val,
         hs[t].at \in {"run", "yield"}
  PROVE  /\ Shape(hs) /\ \A c \in Gen : Base(hs, c) = Base(gs, c)
         /\ \A c \in Gen : Active(hs, c) <=> Active(gs, c) \/ c = t
<1>1. gs \in [Gen -> GenPromise] /\ MadeShape(gs) /\ SpliceShape(gs) /\ TopShape(gs)
  BY DEF Shape
<1>2. \A c \in Gen : gs[c].info = None \/ gs[c].info \in Gen
  BY <1>1 DEF GenPromise
<1>3. \A c \in Gen : Base(hs, c) = Base(gs, c)
  BY <1>2 DEF Base, Alike
<1>4. /\ \A c \in Gen : Active(hs, c) <=> Active(gs, c) \/ c = t
      /\ \A c \in Gen : Up(hs, c) <=> Up(gs, c)
      /\ \A c \in Gen : hs[c].at = "nest" <=> gs[c].at = "nest"
      /\ \A c \in Gen : hs[c].at = "none" <=> gs[c].at = "none"
      /\ \A c \in Gen : hs[c].at \in {"initial", "done"} => gs[c].at = hs[c].at
      /\ \A c \in Gen : gs[c].at \in {"run", "yield"} => hs[c].at \in {"run", "yield"}
  BY DEF Active, Up
<1>5. MadeShape(hs)
  <2>1. ASSUME NEW c \in Gen
        PROVE  /\ hs[c].at = "none" <=> hs[c].owner = None
               /\ hs[c].owner \in Gen => hs[hs[c].owner].at # "none"
               /\ Up(hs, c) => hs[c].owner = User \/ Up(hs, hs[c].owner)
               /\ hs[c].at = "none" => hs[c].info = None /\ hs[c].val = 0
    <3>1. /\ hs[c].owner = gs[c].owner /\ gs[c].owner \in Gen \cup {User, None}
          /\ hs[c].info = gs[c].info /\ (hs[c].at = "none" => hs[c].val = gs[c].val)
      BY <1>1, <1>4 DEF GenPromise, Alike
    <3>2. Up(gs, c) => gs[c].owner # None
      BY <1>1 DEF MadeShape, Up
    <3>3. QED
      BY <1>1, <1>4, <3>1, <3>2 DEF MadeShape
  <2>2. QED
    BY <2>1 DEF MadeShape
<1>6. SpliceShape(hs)
  BY <1>1, <1>2, <1>4, GenAssumption DEF SpliceShape, Alike
<1>7. TopShape(hs)
  <2>1. CASE gs[t].at = "initial"
    <3>1. gs[t].info = None /\ gs[t].top = t /\ Base(gs, t) = t
      BY <1>1, <2>1 DEF SpliceShape, Base
    <3>2. ASSUME NEW c \in Gen
          PROVE  /\ hs[c].at = "nest" => hs[c].root = Base(hs, c)
                 /\ Active(hs, c) => Base(hs, c) \in Gen /\ hs[Base(hs, c)].at # "none"
                 /\ Active(hs, c) /\ hs[c].at # "nest" => hs[Base(hs, c)].top = c
      BY <1>1, <1>3, <1>4, <3>1 DEF TopShape, Alike
    <3>3. ASSUME NEW c \in Gen, Active(hs, c), hs[c].info = None
          PROVE  /\ hs[c].top \in Gen /\ hs[hs[c].top].at \in {"run", "yield"}
                 /\ Base(hs, hs[c].top) = c
      BY <1>1, <1>3, <1>4, <3>1, <3>3 DEF TopShape, Alike
    <3>4. QED
      BY <3>2, <3>3 DEF TopShape
  <2>2. CASE gs[t].at # "initial"
    <3>1. Active(gs, t)
      BY <2>2 DEF Active
    <3>2. ASSUME NEW c \in Gen
          PROVE  /\ hs[c].at = "nest" => hs[c].root = Base(hs, c)
                 /\ Active(hs, c) => Base(hs, c) \in Gen /\ hs[Base(hs, c)].at # "none"
                 /\ Active(hs, c) /\ hs[c].at # "nest" => hs[Base(hs, c)].top = c
      BY <1>1, <1>3, <1>4, <3>1 DEF TopShape, Alike
    <3>3. ASSUME NEW c \in Gen, Active(hs, c), hs[c].info = None
          PROVE  /\ hs[c].top \in Gen /\ hs[hs[c].top].at \in {"run", "yield"}
                 /\ Base(hs, hs[c].top) = c
      BY <1>1, <1>3, <1>4, <3>1, <3>3 DEF TopShape, Alike
    <3>4. QED
      BY <3>2, <3>3 DEF TopShape
  <2>3. QED
    BY <2>1, <2>2
<1>8. QED
  BY <1>3, <1>4, <1>5, <1>6, <1>7 DEF Shape

\* h splices g in.
Nests(gs, hs, h, g, r) ==
    /\ gs \in [Gen -> GenPromise] /\ h \in Gen /\ g \in Gen /\ g # h
    /\ r \in Gen /\ r = Base(gs, h) /\ r # g /\ hs = Nested(gs, h, g)

LEMMA NestedFields ==
  ASSUME NEW gs, NEW hs, NEW h, NEW g, NEW r, Nests(gs, hs, h, g, r)
  PROVE  /\ hs \in [Gen -> GenPromise]
         /\ \A c \in Gen : hs[c].owner = gs[c].owner /\ hs[c].val = gs[c].val
         /\ \A c \in Gen : hs[c].at = IF c = h THEN "nest" ELSE IF c = g THEN "run" ELSE gs[c].at
         /\ \A c \in Gen : hs[c].root = IF c = h THEN r ELSE gs[c].root
         /\ \A c \in Gen : hs[c].info = IF c = g THEN h ELSE gs[c].info
         /\ \A c \in Gen : hs[c].top = IF c = r THEN g ELSE gs[c].top
<1> SUFFICES ASSUME gs \in [Gen -> GenPromise], h \in Gen, g \in Gen, g # h,
                    r \in Gen, r = Base(gs, h), r # g, hs = Nested(gs, h, g)
             PROVE  /\ hs \in [Gen -> GenPromise]
                    /\ \A c \in Gen : hs[c].owner = gs[c].owner /\ hs[c].val = gs[c].val
                    /\ \A c \in Gen : hs[c].at = IF c = h THEN "nest" ELSE IF c = g THEN "run" ELSE gs[c].at
                    /\ \A c \in Gen : hs[c].root = IF c = h THEN r ELSE gs[c].root
                    /\ \A c \in Gen : hs[c].info = IF c = g THEN h ELSE gs[c].info
                    /\ \A c \in Gen : hs[c].top = IF c = r THEN g ELSE gs[c].top
  BY DEF Nests
<1> DEFINE a == [gs EXCEPT ![h].at = "nest"]
           b == [a EXCEPT ![h].root = r]
           d == [b EXCEPT ![g].info = h]
           e == [d EXCEPT ![g].at = "run"]
           f == [e EXCEPT ![r].top = g]
<1>1. hs = f
  BY DEF Nested, Base
<1>2. "nest" \in Spot /\ "run" \in Spot
  BY DEF Spot
<1> HIDE DEF a
<1>3. a = [gs EXCEPT ![h].at = "nest"]
  BY DEF a
<1> HIDE DEF b
<1>4. b = [a EXCEPT ![h].root = r]
  BY DEF b
<1> HIDE DEF d
<1>5. d = [b EXCEPT ![g].info = h]
  BY DEF d
<1> HIDE DEF e
<1>6. e = [d EXCEPT ![g].at = "run"]
  BY DEF e
<1> HIDE DEF f
<1>7. f = [e EXCEPT ![r].top = g]
  BY DEF f
<1>8. /\ a \in [Gen -> GenPromise]
      /\ \A c \in Gen : a[c].at = IF c = h THEN "nest" ELSE gs[c].at
      /\ \A c \in Gen : /\ a[c].owner = gs[c].owner /\ a[c].top = gs[c].top
                        /\ a[c].info = gs[c].info /\ a[c].root = gs[c].root
                        /\ a[c].val = gs[c].val
  BY <1>2, <1>3 DEF GenPromise
<1>9. a \in [Gen -> GenPromise]
  BY <1>8
<1>10. /\ b \in [Gen -> GenPromise]
       /\ \A c \in Gen : b[c].root = IF c = h THEN r ELSE a[c].root
       /\ \A c \in Gen : /\ b[c].owner = a[c].owner /\ b[c].at = a[c].at
                         /\ b[c].top = a[c].top /\ b[c].info = a[c].info
                         /\ b[c].val = a[c].val
  BY <1>4, <1>9 DEF GenPromise
<1>11. b \in [Gen -> GenPromise]
  BY <1>10
<1>12. /\ d \in [Gen -> GenPromise]
       /\ \A c \in Gen : d[c].info = IF c = g THEN h ELSE b[c].info
       /\ \A c \in Gen : /\ d[c].owner = b[c].owner /\ d[c].at = b[c].at
                         /\ d[c].top = b[c].top /\ d[c].root = b[c].root
                         /\ d[c].val = b[c].val
  BY <1>5, <1>11 DEF GenPromise
<1>13. d \in [Gen -> GenPromise]
  BY <1>12
<1>14. /\ e \in [Gen -> GenPromise]
       /\ \A c \in Gen : e[c].at = IF c = g THEN "run" ELSE d[c].at
       /\ \A c \in Gen : /\ e[c].owner = d[c].owner /\ e[c].top = d[c].top
                         /\ e[c].info = d[c].info /\ e[c].root = d[c].root
                         /\ e[c].val = d[c].val
  BY <1>2, <1>6, <1>13 DEF GenPromise
<1>15. e \in [Gen -> GenPromise]
  BY <1>14
<1>16. /\ f \in [Gen -> GenPromise]
       /\ \A c \in Gen : f[c].top = IF c = r THEN g ELSE e[c].top
       /\ \A c \in Gen : /\ f[c].owner = e[c].owner /\ f[c].at = e[c].at
                         /\ f[c].info = e[c].info /\ f[c].root = e[c].root
                         /\ f[c].val = e[c].val
  BY <1>7, <1>15 DEF GenPromise
<1>17. QED
  BY <1>1, <1>8, <1>10, <1>12, <1>14, <1>16

LEMMA FrameNested ==
  ASSUME NEW gs, Shape(gs), NEW h \in Gen, NEW g \in Gen, gs[h].at = "run",
         gs[g].at = "initial", gs[g].owner = h, NEW r, r = Base(gs, h), gs[r].info = None,
         NEW hs \in [Gen -> GenPromise],
         \A c \in Gen : hs[c].owner = gs[c].owner /\ hs[c].val = gs[c].val,
         \A c \in Gen : hs[c].at = IF c = h THEN "nest" ELSE IF c = g THEN "run" ELSE gs[c].at,
         \A c \in Gen : hs[c].root = IF c = h THEN r ELSE gs[c].root,
         \A c \in Gen : hs[c].info = IF c = g THEN h ELSE gs[c].info,
         \A c \in Gen : hs[c].top = IF c = r THEN g ELSE gs[c].top
  PROVE  /\ Shape(hs)
         /\ \A c \in Gen : Active(hs, c) <=> Active(gs, c) \/ c = g
         /\ \A c \in Gen : Active(gs, c) => Base(hs, c) = Base(gs, c)
         /\ Base(hs, g) = r
<1>1. gs \in [Gen -> GenPromise] /\ MadeShape(gs) /\ SpliceShape(gs) /\ TopShape(gs)
  BY DEF Shape
<1>2. /\ r \in Gen /\ gs[r].top = h /\ gs[r].info = None /\ Active(gs, h) /\ h # g
      /\ gs[g].top = g /\ gs[g].info = None /\ r # g
  BY <1>1 DEF TopShape, SpliceShape, Active
<1>3. /\ \A c \in Gen : gs[c].info = None \/ gs[c].info \in Gen
      /\ \A c \in Gen : Up(gs, c) => gs[c].info # h
      /\ \A c \in Gen : Active(gs, c) => Up(gs, c) /\ c # g
      /\ h # None
  BY <1>1, GenAssumption DEF GenPromise, SpliceShape, Up, Active
<1>4. /\ \A c \in Gen : Active(hs, c) <=> Active(gs, c) \/ c = g
      /\ \A c \in Gen : Up(hs, c) <=> Up(gs, c)
  BY <1>2 DEF Active, Up
<1>5. /\ \A c \in Gen : Active(gs, c) => Base(hs, c) = Base(gs, c)
      /\ Base(hs, g) = r
  BY <1>3 DEF Base
<1>6. MadeShape(hs)
  <2>1. ASSUME NEW c \in Gen
        PROVE  /\ hs[c].at = "none" <=> hs[c].owner = None
               /\ hs[c].owner \in Gen => hs[hs[c].owner].at # "none"
               /\ Up(hs, c) => hs[c].owner = User \/ Up(hs, hs[c].owner)
               /\ hs[c].at = "none" => hs[c].info = None /\ hs[c].val = 0
    <3>1. hs[c].owner = gs[c].owner /\ gs[c].owner \in Gen \cup {User, None}
      BY <1>1 DEF GenPromise
    <3>2. /\ \A d \in Gen : hs[d].at = "none" <=> gs[d].at = "none"
          /\ gs[c].at = "none" => hs[c].info = gs[c].info /\ hs[c].val = gs[c].val
      BY <1>2
    <3>3. Up(gs, c) => gs[c].owner # None
      BY <1>1 DEF MadeShape, Up
    <3>4. QED
      BY <1>1, <1>4, <3>1, <3>2, <3>3 DEF MadeShape
  <2>2. QED
    BY <2>1 DEF MadeShape
<1>7. SpliceShape(hs)
  <2>1. ASSUME NEW c \in Gen
        PROVE  /\ hs[c].at \in {"initial", "done"} => hs[c].info = None /\ hs[c].top = c
               /\ hs[c].at = "nest" => \E d \in Gen : Up(hs, d) /\ hs[d].info = c
    <3>1. hs[c].at \in {"initial", "done"} => c # h /\ c # g /\ c # r
      BY <1>2, <1>1 DEF SpliceShape
    <3>2. gs[c].at = "nest" => \E d \in Gen \ {g} : Up(gs, d) /\ gs[d].info = c
      <4>1. SUFFICES ASSUME gs[c].at = "nest"
                     PROVE  \E d \in Gen \ {g} : Up(gs, d) /\ gs[d].info = c
        OBVIOUS
      <4>2. PICK d \in Gen : Up(gs, d) /\ gs[d].info = c
        BY <1>1, <4>1 DEF SpliceShape
      <4>3. d # g
        BY <1>2, <4>2, GenAssumption
      <4>4. QED
        BY <4>2, <4>3
    <3>3. Up(hs, g) /\ hs[g].info = h
      BY <1>2 DEF Up
    <3>4. QED
      BY <1>1, <1>4, <3>1, <3>2, <3>3 DEF SpliceShape
  <2>2. ASSUME NEW c \in Gen, Up(hs, c), hs[c].info # None
        PROVE  /\ Active(hs, c) /\ hs[c].info = hs[c].owner /\ hs[c].top = c
               /\ hs[hs[c].info].at = "nest"
    <3>1. CASE c = g
      BY <1>2, <1>4, <3>1
    <3>2. CASE c # g
      <4>1. /\ Up(gs, c) /\ gs[c].info \in Gen /\ gs[c].info # None /\ gs[c].info # h
            /\ Active(gs, c) /\ gs[c].info = gs[c].owner /\ gs[c].top = c
            /\ gs[gs[c].info].at = "nest"
        BY <1>1, <1>3, <1>4, <2>2, <3>2 DEF SpliceShape
      <4>2. c # r
        BY <1>2, <4>1
      <4>3. gs[c].info # g
        BY <1>2, <4>1
      <4>4. QED
        BY <1>4, <3>2, <4>1, <4>2, <4>3
    <3>3. QED
      BY <3>1, <3>2
  <2>3. ASSUME NEW c \in Gen, NEW d \in Gen, Up(hs, c), Up(hs, d),
               hs[c].info = hs[d].info, hs[c].info # None
        PROVE  c = d
    BY <1>1, <1>3, <1>4, <2>3 DEF SpliceShape
  <2>4. QED
    BY <2>1, <2>2, <2>3 DEF SpliceShape
<1>8. TopShape(hs)
  <2>1. ASSUME NEW c \in Gen
        PROVE  /\ hs[c].at = "nest" => hs[c].root = Base(hs, c)
               /\ Active(hs, c) => Base(hs, c) \in Gen /\ hs[Base(hs, c)].at # "none"
    <3>1. Active(hs, c) => Base(hs, c) \in Gen /\ gs[Base(hs, c)].at # "none"
      BY <1>1, <1>2, <1>4, <1>5 DEF TopShape
    <3>2. hs[c].at = "nest" => hs[c].root = Base(hs, c)
      BY <1>1, <1>2, <1>3, <1>5 DEF TopShape, Active
    <3>3. QED
      BY <3>1, <3>2
  <2>2. ASSUME NEW c \in Gen, Active(hs, c), hs[c].at # "nest"
        PROVE  hs[Base(hs, c)].top = c
    <3>1. CASE c = g
      BY <1>2, <1>5, <3>1
    <3>2. CASE c # g
      <4>1. Active(gs, c) /\ c # h /\ gs[c].at # "nest" /\ Base(hs, c) = Base(gs, c)
        BY <1>4, <1>5, <2>2, <3>2
      <4>2. gs[Base(gs, c)].top = c /\ Base(gs, c) \in Gen
        BY <1>1, <4>1 DEF TopShape
      <4>3. QED
        BY <1>2, <4>1, <4>2
    <3>3. QED
      BY <3>1, <3>2
  <2>3. ASSUME NEW c \in Gen, Active(hs, c), hs[c].info = None
        PROVE  /\ hs[c].top \in Gen /\ hs[hs[c].top].at \in {"run", "yield"}
               /\ Base(hs, hs[c].top) = c
    <3>1. c # g /\ Active(gs, c) /\ gs[c].info = None
      BY <1>3, <1>4, <2>3
    <3>2. /\ gs[c].top \in Gen /\ gs[gs[c].top].at \in {"run", "yield"}
          /\ Base(gs, gs[c].top) = c /\ Active(gs, gs[c].top)
      BY <1>1, <3>1 DEF TopShape, Active
    <3>3. CASE c = r
      BY <1>2, <1>5, <3>3
    <3>4. CASE c # r
      <4>1. gs[c].top # h /\ gs[c].top # g
        BY <1>2, <3>2, <3>4, <1>3
      <4>2. QED
        BY <1>5, <3>2, <3>4, <4>1
    <3>5. QED
      BY <3>3, <3>4
  <2>4. QED
    BY <2>1, <2>2, <2>3 DEF TopShape
<1>9. QED
  BY <1>2, <1>4, <1>5, <1>6, <1>7, <1>8 DEF Shape

\* The body of a generator that no other splices in comes to its end.
LEMMA FrameEnded ==
  ASSUME NEW gs, Shape(gs), NEW h \in Gen, gs[h].at = "run", gs[h].info = None,
         NEW hs \in [Gen -> GenPromise], hs[h].at = "done",
         \A c \in Gen : Alike(gs, hs, c) /\ hs[c].val = gs[c].val,
         \A c \in Gen \ {h} : hs[c].at = gs[c].at
  PROVE  /\ Shape(hs)
         /\ \A c \in Gen : Active(hs, c) <=> Active(gs, c) /\ c # h
         /\ \A c \in Gen : Base(hs, c) = Base(gs, c)
<1>1. gs \in [Gen -> GenPromise] /\ MadeShape(gs) /\ SpliceShape(gs) /\ TopShape(gs)
  BY DEF Shape
<1>2. Base(gs, h) = h /\ Active(gs, h) /\ gs[h].top = h
  BY <1>1 DEF Base, Active, TopShape
<1>3. /\ hs \in [Gen -> GenPromise] /\ hs[h].at = "done"
      /\ \A c \in Gen : Alike(gs, hs, c) /\ hs[c].val = gs[c].val
      /\ \A c \in Gen \ {h} : hs[c].at = gs[c].at
  OBVIOUS
<1>4. /\ \A c \in Gen : Active(hs, c) <=> Active(gs, c) /\ c # h
      /\ \A c \in Gen : Up(hs, c) <=> Up(gs, c)
      /\ \A c \in Gen : hs[c].at = "none" <=> gs[c].at = "none"
      /\ \A c \in Gen : hs[c].at = "nest" <=> gs[c].at = "nest"
  BY <1>3 DEF Active, Up
<1>5. \A c \in Gen : gs[c].info = None \/ gs[c].info \in Gen
  BY <1>1 DEF GenPromise
<1>6. \A c \in Gen : Base(hs, c) = Base(gs, c)
  BY <1>3, <1>5 DEF Base, Alike
<1>7. MadeShape(hs)
  <2>1. ASSUME NEW c \in Gen
        PROVE  /\ hs[c].at = "none" <=> hs[c].owner = None
               /\ hs[c].owner \in Gen => hs[hs[c].owner].at # "none"
               /\ Up(hs, c) => hs[c].owner = User \/ Up(hs, hs[c].owner)
               /\ hs[c].at = "none" => hs[c].info = None /\ hs[c].val = 0
    <3>1. /\ hs[c].owner = gs[c].owner /\ gs[c].owner \in Gen \cup {User, None}
          /\ hs[c].info = gs[c].info /\ hs[c].val = gs[c].val
      BY <1>1, <1>3 DEF GenPromise, Alike
    <3>2. Up(gs, c) => gs[c].owner # None
      BY <1>1 DEF MadeShape, Up
    <3>3. QED
      BY <1>1, <1>4, <3>1, <3>2 DEF MadeShape
  <2>2. QED
    BY <2>1 DEF MadeShape
<1>8. SpliceShape(hs)
  <2>1. /\ \A c \in Gen : hs[c].at \in {"initial", "done"} => hs[c].info = None /\ hs[c].top = c
        /\ \A c \in Gen : hs[c].at = "nest" => \E d \in Gen : Up(hs, d) /\ hs[d].info = c
    BY <1>1, <1>2, <1>3, <1>4 DEF SpliceShape, Alike
  <2>2. ASSUME NEW c \in Gen, Up(hs, c), hs[c].info # None
        PROVE  /\ Active(hs, c) /\ hs[c].info = hs[c].owner /\ hs[c].top = c
               /\ hs[hs[c].info].at = "nest"
    <3>1. gs[c].info = hs[c].info /\ gs[c].owner = hs[c].owner /\ gs[c].top = hs[c].top
      BY <1>3 DEF Alike
    <3>2. /\ Active(gs, c) /\ gs[c].info = gs[c].owner /\ gs[c].top = c
          /\ gs[gs[c].info].at = "nest" /\ gs[c].info \in Gen
      BY <1>1, <1>4, <1>5, <2>2, <3>1 DEF SpliceShape
    <3>3. c # h
      BY <2>2, <3>1
    <3>4. QED
      BY <1>4, <3>1, <3>2, <3>3
  <2>3. \A c, d \in Gen : Up(hs, c) /\ Up(hs, d) /\ hs[c].info = hs[d].info /\ hs[c].info # None
                         => c = d
    BY <1>1, <1>3, <1>4 DEF SpliceShape, Alike
  <2>4. QED
    BY <2>1, <2>2, <2>3 DEF SpliceShape
<1>9. TopShape(hs)
  <2>1. ASSUME NEW c \in Gen
        PROVE  /\ hs[c].at = "nest" => hs[c].root = Base(hs, c)
               /\ Active(hs, c) => Base(hs, c) \in Gen /\ hs[Base(hs, c)].at # "none"
               /\ Active(hs, c) /\ hs[c].at # "nest" => hs[Base(hs, c)].top = c
    BY <1>1, <1>3, <1>4, <1>6 DEF TopShape, Alike
  <2>2. ASSUME NEW c \in Gen, Active(hs, c), hs[c].info = None
        PROVE  /\ hs[c].top \in Gen /\ hs[hs[c].top].at \in {"run", "yield"}
               /\ Base(hs, hs[c].top) = c
    <3>1. Active(gs, c) /\ gs[c].info = None /\ c # h /\ hs[c].top = gs[c].top
      BY <1>3, <1>4, <2>2 DEF Alike
    <3>2. /\ gs[c].top \in Gen /\ gs[gs[c].top].at \in {"run", "yield"}
          /\ Base(gs, gs[c].top) = c
      BY <1>1, <3>1 DEF TopShape
    <3>3. gs[c].top # h
      BY <1>2, <3>1, <3>2
    <3>4. QED
      BY <1>3, <1>6, <3>1, <3>2, <3>3
  <2>3. QED
    BY <2>1, <2>2 DEF TopShape
<1>10. QED
  BY <1>3, <1>4, <1>6, <1>7, <1>8, <1>9 DEF Shape

\* The body of a generator that p splices in comes to its end, and p goes on.
Back(gs, h, p, r) ==
    [[gs EXCEPT ![h].at = "done", ![h].info = None] EXCEPT ![p].at = "run", ![r].top = p]

Unnests(gs, hs, h, p, r) ==
    /\ gs \in [Gen -> GenPromise] /\ h \in Gen /\ p \in Gen /\ p # h /\ r \in Gen
    /\ hs = Back(gs, h, p, r)

LEMMA UnnestedFields ==
  ASSUME NEW gs, NEW hs, NEW h, NEW p, NEW r, Unnests(gs, hs, h, p, r)
  PROVE  /\ hs \in [Gen -> GenPromise]
         /\ \A c \in Gen : hs[c].owner = gs[c].owner /\ hs[c].val = gs[c].val
         /\ \A c \in Gen : hs[c].at = IF c = h THEN "done" ELSE IF c = p THEN "run" ELSE gs[c].at
         /\ \A c \in Gen : hs[c].root = gs[c].root
         /\ \A c \in Gen : hs[c].info = IF c = h THEN None ELSE gs[c].info
         /\ \A c \in Gen : hs[c].top = IF c = r THEN p ELSE gs[c].top
<1> SUFFICES ASSUME gs \in [Gen -> GenPromise], h \in Gen, p \in Gen, p # h, r \in Gen,
                    hs = Back(gs, h, p, r)
             PROVE  /\ hs \in [Gen -> GenPromise]
                    /\ \A c \in Gen : hs[c].owner = gs[c].owner /\ hs[c].val = gs[c].val
                    /\ \A c \in Gen : hs[c].at = IF c = h THEN "done" ELSE IF c = p THEN "run" ELSE gs[c].at
                    /\ \A c \in Gen : hs[c].root = gs[c].root
                    /\ \A c \in Gen : hs[c].info = IF c = h THEN None ELSE gs[c].info
                    /\ \A c \in Gen : hs[c].top = IF c = r THEN p ELSE gs[c].top
  BY DEF Unnests
<1> DEFINE a == [gs EXCEPT ![h].at = "done"]
           b == [a EXCEPT ![h].info = None]
           d == [b EXCEPT ![p].at = "run"]
           e == [d EXCEPT ![r].top = p]
<1>1. hs = e
  BY DEF Back
<1>2. "done" \in Spot /\ "run" \in Spot
  BY DEF Spot
<1> HIDE DEF a
<1>3. a = [gs EXCEPT ![h].at = "done"]
  BY DEF a
<1> HIDE DEF b
<1>4. b = [a EXCEPT ![h].info = None]
  BY DEF b
<1> HIDE DEF d
<1>5. d = [b EXCEPT ![p].at = "run"]
  BY DEF d
<1> HIDE DEF e
<1>6. e = [d EXCEPT ![r].top = p]
  BY DEF e
<1>7. /\ a \in [Gen -> GenPromise]
      /\ \A c \in Gen : a[c].at = IF c = h THEN "done" ELSE gs[c].at
      /\ \A c \in Gen : /\ a[c].owner = gs[c].owner /\ a[c].top = gs[c].top
                        /\ a[c].info = gs[c].info /\ a[c].root = gs[c].root
                        /\ a[c].val = gs[c].val
  BY <1>2, <1>3 DEF GenPromise
<1>8. a \in [Gen -> GenPromise]
  BY <1>7
<1>9. /\ b \in [Gen -> GenPromise]
      /\ \A c \in Gen : b[c].info = IF c = h THEN None ELSE a[c].info
      /\ \A c \in Gen : /\ b[c].owner = a[c].owner /\ b[c].at = a[c].at
                        /\ b[c].top = a[c].top /\ b[c].root = a[c].root
                        /\ b[c].val = a[c].val
  BY <1>4, <1>8 DEF GenPromise
<1>10. b \in [Gen -> GenPromise]
  BY <1>9
<1>11. /\ d \in [Gen -> GenPromise]
       /\ \A c \in Gen : d[c].at = IF c = p THEN "run" ELSE b[c].at
       /\ \A c \in Gen : /\ d[c].owner = b[c].owner /\ d[c].top = b[c].top
                         /\ d[c].info = b[c].info /\ d[c].root = b[c].root
                         /\ d[c].val = b[c].val
  BY <1>2, <1>5, <1>10 DEF GenPromise
<1>12. d \in [Gen -> GenPromise]
  BY <1>11
<1>13. /\ e \in [Gen -> GenPromise]
       /\ \A c \in Gen : e[c].top = IF c = r THEN p ELSE d[c].top
       /\ \A c \in Gen : /\ e[c].owner = d[c].owner /\ e[c].at = d[c].at
                         /\ e[c].info = d[c].info /\ e[c].root = d[c].root
                         /\ e[c].val = d[c].val
  BY <1>6, <1>12 DEF GenPromise
<1>14. QED
  BY <1>1, <1>7, <1>9, <1>11, <1>13

Returned(gs, hs, h, p, r) ==
    /\ h \in Gen /\ p \in Gen /\ gs[h].at = "run" /\ gs[h].info = p
    /\ r = Base(gs, h) /\ gs[r].info = None /\ hs \in [Gen -> GenPromise]
    /\ \A c \in Gen : hs[c].owner = gs[c].owner /\ hs[c].val = gs[c].val
    /\ \A c \in Gen : hs[c].at = IF c = h THEN "done" ELSE IF c = p THEN "run" ELSE gs[c].at
    /\ \A c \in Gen : hs[c].root = gs[c].root
    /\ \A c \in Gen : hs[c].info = IF c = h THEN None ELSE gs[c].info
    /\ \A c \in Gen : hs[c].top = IF c = r THEN p ELSE gs[c].top

LEMMA FrameReturned ==
  ASSUME NEW gs, NEW hs, NEW h, NEW p, NEW r, Shape(gs), Returned(gs, hs, h, p, r)
  PROVE  /\ Shape(hs) /\ p = gs[h].owner /\ p # h /\ gs[p].at = "nest" /\ r # h
         /\ \A c \in Gen : Active(hs, c) <=> Active(gs, c) /\ c # h
         /\ \A c \in Gen \ {h} : Active(gs, c) => Base(hs, c) = Base(gs, c)
         /\ Base(gs, p) = r /\ r \in Gen
<1>1. /\ h \in Gen /\ p \in Gen /\ gs[h].at = "run" /\ gs[h].info = p
      /\ r = Base(gs, h) /\ gs[r].info = None /\ hs \in [Gen -> GenPromise]
      /\ \A c \in Gen : hs[c].owner = gs[c].owner /\ hs[c].val = gs[c].val
      /\ \A c \in Gen : hs[c].at = IF c = h THEN "done" ELSE IF c = p THEN "run" ELSE gs[c].at
      /\ \A c \in Gen : hs[c].root = gs[c].root
      /\ \A c \in Gen : hs[c].info = IF c = h THEN None ELSE gs[c].info
      /\ \A c \in Gen : hs[c].top = IF c = r THEN p ELSE gs[c].top
  BY DEF Returned
<1>2. gs \in [Gen -> GenPromise] /\ MadeShape(gs) /\ SpliceShape(gs) /\ TopShape(gs)
  BY DEF Shape
<1>3. /\ p = gs[h].owner /\ gs[p].at = "nest" /\ gs[p].root = r /\ Base(gs, p) = r
      /\ p # h /\ Active(gs, h) /\ Up(gs, h) /\ gs[h].top = h
  BY <1>1, <1>2, GenAssumption DEF SpliceShape, TopShape, Up, Active, Base
<1>4. r \in Gen /\ gs[r].top = h /\ gs[r].info = None /\ r # h
  BY <1>1, <1>2, <1>3, GenAssumption DEF TopShape
<1>5. /\ \A c \in Gen : gs[c].info = None \/ gs[c].info \in Gen
      /\ \A c \in Gen : Up(gs, c) /\ gs[c].info = p => c = h
      /\ \A c \in Gen : Up(gs, c) /\ gs[c].info # None => gs[gs[c].info].at = "nest"
      /\ \A c \in Gen : Active(gs, c) => Up(gs, c)
      /\ p # None
  BY <1>1, <1>2, <1>3, GenAssumption DEF GenPromise, SpliceShape, Up, Active
<1>6. /\ \A c \in Gen : Active(hs, c) <=> Active(gs, c) /\ c # h
      /\ \A c \in Gen : Up(hs, c) <=> Up(gs, c)
      /\ \A c \in Gen : hs[c].at = "none" <=> gs[c].at = "none"
  BY <1>1, <1>3 DEF Active, Up
<1>7. \A c \in Gen \ {h} : Active(gs, c) => Base(hs, c) = Base(gs, c)
  BY <1>1, <1>5 DEF Base
<1>8. MadeShape(hs)
  <2>1. ASSUME NEW c \in Gen
        PROVE  /\ hs[c].at = "none" <=> hs[c].owner = None
               /\ hs[c].owner \in Gen => hs[hs[c].owner].at # "none"
               /\ Up(hs, c) => hs[c].owner = User \/ Up(hs, hs[c].owner)
               /\ hs[c].at = "none" => hs[c].info = None /\ hs[c].val = 0
    <3>1. /\ hs[c].owner = gs[c].owner /\ gs[c].owner \in Gen \cup {User, None}
          /\ hs[c].at = "none" => hs[c].info = gs[c].info /\ hs[c].val = gs[c].val
      BY <1>1, <1>2 DEF GenPromise
    <3>2. Up(gs, c) => gs[c].owner # None
      BY <1>1, <1>2 DEF MadeShape, Up
    <3>3. QED
      BY <1>1, <1>2, <1>6, <3>1, <3>2 DEF MadeShape
  <2>2. QED
    BY <1>1, <2>1 DEF MadeShape
<1>9. SpliceShape(hs)
  <2>1. ASSUME NEW c \in Gen
        PROVE  /\ hs[c].at \in {"initial", "done"} => hs[c].info = None /\ hs[c].top = c
               /\ hs[c].at = "nest" => \E d \in Gen : Up(hs, d) /\ hs[d].info = c
    <3>1. hs[c].at \in {"initial", "done"} => hs[c].info = None /\ hs[c].top = c
      <4>1. CASE c = h
        BY <1>1, <1>3, <1>4, <4>1
      <4>2. CASE c # h /\ hs[c].at \in {"initial", "done"}
        <5>1. gs[c].at \in {"initial", "done"} /\ c # p
          BY <1>1, <4>2
        <5>2. gs[c].info = None /\ gs[c].top = c
          BY <1>1, <1>2, <5>1 DEF SpliceShape
        <5>3. c # r
          BY <1>1, <1>4, <4>2, <5>2
        <5>4. QED
          BY <1>1, <4>2, <5>2, <5>3
      <4>3. QED
        BY <1>1, <4>1, <4>2
    <3>2. ASSUME hs[c].at = "nest"
          PROVE  \E d \in Gen : Up(hs, d) /\ hs[d].info = c
      <4>1. gs[c].at = "nest" /\ c # p /\ c # h
        BY <1>1, <3>2
      <4>2. PICK d \in Gen : Up(gs, d) /\ gs[d].info = c
        BY <1>1, <1>2, <4>1 DEF SpliceShape
      <4>3. d # h
        BY <1>1, <4>1, <4>2
      <4>4. QED
        BY <1>1, <1>6, <4>2, <4>3
    <3>3. QED
      BY <1>1, <3>1, <3>2
  <2>2. ASSUME NEW c \in Gen, Up(hs, c), hs[c].info # None
        PROVE  /\ Active(hs, c) /\ hs[c].info = hs[c].owner /\ hs[c].top = c
               /\ hs[hs[c].info].at = "nest"
    <3>1. c # h /\ Up(gs, c) /\ gs[c].info = hs[c].info /\ gs[c].info # None
      BY <1>1, <1>6, <2>2
    <3>2. /\ Active(gs, c) /\ gs[c].info = gs[c].owner /\ gs[c].top = c
          /\ gs[gs[c].info].at = "nest" /\ gs[c].info \in Gen
      BY <1>1, <1>2, <1>5, <3>1 DEF SpliceShape
    <3>3. c # r /\ gs[c].info # p /\ gs[c].info # h
      BY <1>1, <1>4, <1>5, <3>1, <3>2
    <3>4. QED
      BY <1>1, <1>6, <3>1, <3>2, <3>3
  <2>3. ASSUME NEW c \in Gen, NEW d \in Gen, Up(hs, c), Up(hs, d),
               hs[c].info = hs[d].info, hs[c].info # None
        PROVE  c = d
    BY <1>1, <1>2, <1>5, <1>6, <2>3 DEF SpliceShape
  <2>4. QED
    BY <1>1, <2>1, <2>2, <2>3 DEF SpliceShape
<1>10. TopShape(hs)
  <2>1. ASSUME NEW c \in Gen, Active(hs, c)
        PROVE  /\ c # h /\ Active(gs, c) /\ Base(hs, c) = Base(gs, c)
               /\ Base(hs, c) \in Gen /\ hs[Base(hs, c)].at # "none"
               /\ hs[c].at = "nest" => hs[c].root = Base(hs, c)
    <3>1. c # h /\ Active(gs, c) /\ Base(hs, c) = Base(gs, c)
      BY <1>1, <1>6, <1>7, <2>1
    <3>2. Base(gs, c) \in Gen /\ gs[Base(gs, c)].at # "none"
      BY <1>1, <1>2, <3>1 DEF TopShape
    <3>3. hs[c].at = "nest" => gs[c].root = Base(gs, c)
      BY <1>1, <1>2, <3>1 DEF TopShape
    <3>4. QED
      BY <1>1, <1>6, <3>1, <3>2, <3>3
  <2>2. ASSUME NEW c \in Gen, Active(hs, c), hs[c].at # "nest"
        PROVE  hs[Base(hs, c)].top = c
    <3>1. CASE c = p
      BY <1>1, <1>3, <1>4, <2>1, <2>2, <3>1
    <3>2. CASE c # p
      <4>1. c # h /\ Active(gs, c) /\ gs[c].at # "nest" /\ Base(hs, c) = Base(gs, c)
        BY <1>1, <2>1, <2>2, <3>2
      <4>2. gs[Base(gs, c)].top = c /\ Base(gs, c) \in Gen
        BY <1>1, <1>2, <4>1 DEF TopShape
      <4>3. QED
        BY <1>1, <1>4, <4>1, <4>2
    <3>3. QED
      BY <1>1, <3>1, <3>2
  <2>3. ASSUME NEW c \in Gen, Active(hs, c), hs[c].info = None
        PROVE  /\ hs[c].top \in Gen /\ hs[hs[c].top].at \in {"run", "yield"}
               /\ Base(hs, hs[c].top) = c
    <3>1. c # h /\ Active(gs, c) /\ gs[c].info = None
      BY <1>1, <1>6, <2>3
    <3>2. /\ gs[c].top \in Gen /\ gs[gs[c].top].at \in {"run", "yield"}
          /\ Base(gs, gs[c].top) = c /\ Active(gs, gs[c].top)
      BY <1>1, <1>2, <3>1 DEF TopShape, Active
    <3>3. CASE c = r
      <4>1. Active(gs, p)
        BY <1>1, <1>3 DEF Active
      <4>2. Base(hs, p) = r
        BY <1>1, <1>3, <1>7, <4>1
      <4>3. QED
        BY <1>1, <1>3, <3>3, <4>2
    <3>4. CASE c # r
      <4>1. gs[c].top # h /\ gs[c].top # p
        BY <1>1, <1>3, <3>2, <3>4
      <4>2. QED
        BY <1>1, <1>7, <3>2, <3>4, <4>1
    <3>5. QED
      BY <1>1, <3>3, <3>4
  <2>4. QED
    BY <1>1, <2>1, <2>2, <2>3, <1>6 DEF TopShape, Active
<1>11. QED
  BY <1>1, <1>3, <1>4, <1>6, <1>7, <1>8, <1>9, <1>10 DEF Shape

LEMMA Lowest ==
  ASSUME NEW A, NEW f \in [A -> Nat], NEW S \in SUBSET A, S # {}
  PROVE  \E x \in S : \A y \in S : f[x] <= f[y]
<1> DEFINE I == {f[x] : x \in S}
<1>1. I \in SUBSET Nat /\ I # {}
  OBVIOUS
<1>2. PICK i \in I : \A j \in I : i <= j
  <2> HIDE DEF I
  <2> QED
    BY <1>1, LeastExists
<1>3. QED
  BY <1>2

\* The frames D are destroyed: all that belong to one of them are among them, and none
\* is spliced into a generator that is not.
Removable(gs, D) ==
    /\ D \in SUBSET Gen
    /\ \A c \in D : gs[c].at # "none"
    /\ \A c \in Gen : Up(gs, c) /\ gs[c].owner \in D => c \in D
    /\ \A c \in D : Up(gs, c) => \/ gs[c].owner \in D \/ gs[c].owner = User
                                 \/ gs[gs[c].owner].at # "nest"

\* A frame has a larger number than the one it has been made by.
Numbered(gs, rank) ==
    /\ rank \in [Gen \cup {User} -> Nat]
    /\ \A c \in Gen : gs[c].at # "none" => rank[gs[c].owner] < rank[c]

LEMMA FrameRemoved ==
  ASSUME NEW gs, Shape(gs), NEW D, Removable(gs, D),
         NEW rank, Numbered(gs, rank),
         NEW hs \in [Gen -> GenPromise],
         \A c \in Gen : Alike(gs, hs, c) /\ hs[c].val = gs[c].val,
         \A c \in Gen : hs[c].at = IF c \in D THEN "gone" ELSE gs[c].at
  PROVE  /\ Shape(hs)
         /\ \A c \in Gen : Active(hs, c) <=> Active(gs, c) /\ c \notin D
         /\ \A c \in Gen : Base(hs, c) = Base(gs, c)
         /\ \A c \in Gen : Up(hs, c) <=> Up(gs, c) /\ c \notin D
<1>1. gs \in [Gen -> GenPromise] /\ MadeShape(gs) /\ SpliceShape(gs) /\ TopShape(gs)
  BY DEF Shape
<1>2. /\ rank \in [Gen \cup {User} -> Nat]
      /\ \A g \in Gen : gs[g].at # "none" => rank[gs[g].owner] < rank[g]
  BY DEF Numbered
<1>3. /\ \A c \in Gen : Alike(gs, hs, c) /\ hs[c].val = gs[c].val
      /\ \A c \in Gen : hs[c].at = IF c \in D THEN "gone" ELSE gs[c].at
      /\ \A c \in Gen : hs[c].at = "none" <=> gs[c].at = "none"
      /\ \A c \in Gen \ D : hs[c].at = gs[c].at
      /\ \A c \in D : hs[c].at = "gone" /\ c \in Gen
  BY DEF Removable
<1>4. /\ \A c \in Gen : Active(hs, c) <=> Active(gs, c) /\ c \notin D
      /\ \A c \in Gen : Up(hs, c) <=> Up(gs, c) /\ c \notin D
  BY <1>3 DEF Active, Up
<1>5. \A c \in Gen : gs[c].info = None \/ gs[c].info \in Gen
  BY <1>1 DEF GenPromise
<1>6. \A c \in Gen : Base(hs, c) = Base(gs, c)
  BY <1>3, <1>5 DEF Base, Alike
<1>7. MadeShape(hs)
  <2>1. ASSUME NEW c \in Gen
        PROVE  /\ hs[c].at = "none" <=> hs[c].owner = None
               /\ hs[c].owner \in Gen => hs[hs[c].owner].at # "none"
               /\ Up(hs, c) => hs[c].owner = User \/ Up(hs, hs[c].owner)
               /\ hs[c].at = "none" => hs[c].info = None /\ hs[c].val = 0
    <3>1. /\ hs[c].owner = gs[c].owner /\ gs[c].owner \in Gen \cup {User, None}
          /\ hs[c].info = gs[c].info /\ hs[c].val = gs[c].val
      BY <1>1, <1>3 DEF GenPromise, Alike
    <3>2. Up(gs, c) => gs[c].owner # None
      BY <1>1 DEF MadeShape, Up
    <3>3. Up(hs, c) => Up(gs, c) /\ gs[c].owner \notin D
      BY <1>4 DEF Removable
    <3>4. Up(hs, c) => hs[c].owner = User \/ Up(hs, hs[c].owner)
      BY <1>1, <1>4, <3>1, <3>2, <3>3 DEF MadeShape
    <3>5. QED
      BY <1>1, <1>3, <3>1, <3>4 DEF MadeShape
  <2>2. QED
    BY <2>1 DEF MadeShape
<1>8. \A c \in Gen : Up(gs, c) /\ gs[c].info # None =>
         /\ Active(gs, c) /\ gs[c].info = gs[c].owner /\ gs[c].top = c /\ gs[c].info \in Gen
         /\ gs[gs[c].info].at = "nest" /\ (c \in D => gs[c].info \in D)
  <2>1. ASSUME NEW c \in Gen, Up(gs, c), gs[c].info # None
        PROVE  /\ Active(gs, c) /\ gs[c].info = gs[c].owner /\ gs[c].top = c
               /\ gs[gs[c].info].at = "nest" /\ gs[c].info \in Gen
    BY <1>1, <1>5, <2>1 DEF SpliceShape
  <2>2. ASSUME NEW c \in D, Up(gs, c), gs[c].info # None
        PROVE  gs[c].info \in D
    BY <2>1, <2>2, <1>3, GenAssumption DEF Removable
  <2>3. QED
    BY <2>1, <2>2
<1>9. SpliceShape(hs)
  <2>1. ASSUME NEW c \in Gen
        PROVE  /\ hs[c].at \in {"initial", "done"} => hs[c].info = None /\ hs[c].top = c
               /\ hs[c].at = "nest" => \E d \in Gen : Up(hs, d) /\ hs[d].info = c
    <3>1. hs[c].at \in {"initial", "done"} => hs[c].info = None /\ hs[c].top = c
      BY <1>1, <1>3 DEF SpliceShape, Alike
    <3>2. ASSUME hs[c].at = "nest"
          PROVE  \E d \in Gen : Up(hs, d) /\ hs[d].info = c
      <4>1. gs[c].at = "nest" /\ c \notin D
        BY <1>3, <3>2
      <4>2. PICK d \in Gen : Up(gs, d) /\ gs[d].info = c
        BY <1>1, <4>1 DEF SpliceShape
      <4>3. d \notin D
        BY <1>8, <4>1, <4>2, GenAssumption
      <4>4. Up(hs, d) /\ hs[d].info = c
        BY <1>3, <1>4, <4>2, <4>3 DEF Alike
      <4>5. QED
        BY <4>4
    <3>3. QED
      BY <3>1, <3>2
  <2>2. ASSUME NEW c \in Gen, Up(hs, c), hs[c].info # None
        PROVE  /\ Active(hs, c) /\ hs[c].info = hs[c].owner /\ hs[c].top = c
               /\ hs[hs[c].info].at = "nest"
    <3>1. /\ gs[c].info = hs[c].info /\ gs[c].owner = hs[c].owner /\ gs[c].top = hs[c].top
          /\ Up(gs, c) /\ c \notin D
      BY <1>3, <1>4, <2>2 DEF Alike
    <3>2. gs[c].owner \notin D
      BY <3>1 DEF Removable
    <3>3. QED
      BY <1>3, <1>4, <1>8, <2>2, <3>1, <3>2
  <2>3. \A c, d \in Gen : Up(hs, c) /\ Up(hs, d) /\ hs[c].info = hs[d].info /\ hs[c].info # None
                         => c = d
    BY <1>1, <1>3, <1>4 DEF SpliceShape, Alike
  <2>4. QED
    BY <2>1, <2>2, <2>3 DEF SpliceShape
<1>10. ASSUME NEW g \in Gen, g \notin D, NEW t \in D, Active(gs, t), Base(gs, t) = g
       PROVE  FALSE
  <2> DEFINE S == {x \in D : Active(gs, x) /\ Base(gs, x) = g}
  <2>1. S \in SUBSET Gen /\ S # {}
    BY <1>3, <1>10
  <2>2. /\ rank \in [Gen \cup {User} -> Nat] /\ S \in SUBSET (Gen \cup {User})
        /\ \A x \in Gen \cup {User} : rank[x] \in Nat
    BY <1>2, <2>1
  <2>3. PICK x \in S : \A y \in S : rank[x] <= rank[y]
    <3> HIDE DEF S
    <3> QED
      BY <2>1, <2>2, Lowest
  <2>4. x \in D /\ x \in Gen /\ Active(gs, x) /\ Base(gs, x) = g /\ Up(gs, x) /\ gs[x].at # "none"
    BY <1>3, <2>3 DEF Active, Up
  <2>5. gs[x].info # None
    BY <1>10, <2>4 DEF Base
  <2>6. /\ gs[x].info = gs[x].owner /\ gs[x].info \in D /\ gs[x].info \in Gen
        /\ gs[gs[x].info].at = "nest"
    BY <1>8, <2>4, <2>5
  <2>7. Active(gs, gs[x].info) /\ Base(gs, gs[x].info) = g
    BY <1>1, <2>4, <2>5, <2>6 DEF TopShape, Base, Active
  <2>8. gs[x].info \in S
    BY <2>6, <2>7
  <2>9. rank[gs[x].info] < rank[x] /\ rank[x] <= rank[gs[x].info]
    BY <1>2, <2>3, <2>4, <2>6, <2>8
  <2>10. QED
    BY <2>2, <2>4, <2>6, <2>9
<1>11. TopShape(hs)
  <2>1. ASSUME NEW c \in Gen
        PROVE  /\ hs[c].at = "nest" => hs[c].root = Base(hs, c)
               /\ Active(hs, c) => Base(hs, c) \in Gen /\ hs[Base(hs, c)].at # "none"
               /\ Active(hs, c) /\ hs[c].at # "nest" => hs[Base(hs, c)].top = c
    <3>1. hs[c].root = gs[c].root /\ (hs[c].at = "nest" => gs[c].at = "nest")
      BY <1>3 DEF Alike
    <3>2. Active(hs, c) => /\ Active(gs, c) /\ gs[c].at = hs[c].at
                           /\ Base(gs, c) \in Gen /\ gs[Base(gs, c)].at # "none"
      BY <1>1, <1>3, <1>4 DEF TopShape
    <3>3. QED
      BY <1>1, <1>3, <1>6, <3>1, <3>2 DEF TopShape, Alike
  <2>2. ASSUME NEW c \in Gen, Active(hs, c), hs[c].info = None
        PROVE  /\ hs[c].top \in Gen /\ hs[hs[c].top].at \in {"run", "yield"}
               /\ Base(hs, hs[c].top) = c
    <3>1. Active(gs, c) /\ gs[c].info = None /\ c \notin D /\ hs[c].top = gs[c].top
      BY <1>3, <1>4, <2>2 DEF Alike
    <3>2. /\ gs[c].top \in Gen /\ gs[gs[c].top].at \in {"run", "yield"}
          /\ Base(gs, gs[c].top) = c
      BY <1>1, <3>1 DEF TopShape
    <3>3. gs[c].top \notin D
      BY <1>10, <3>1, <3>2 DEF Active
    <3>4. QED
      BY <1>3, <1>6, <3>1, <3>2, <3>3
  <2>3. QED
    BY <2>1, <2>2 DEF TopShape
<1>12. QED
  BY <1>4, <1>6, <1>7, <1>9, <1>11 DEF Shape

-----------------------------------------------------------------------------
(* The resume() calls.                                                      *)

LEMMA Fronted ==
  ASSUME NEW T, NEW s \in Seq(T), NEW x \in T
  PROVE  /\ <<x>> \o s \in Seq(T) /\ Len(<<x>> \o s) = Len(s) + 1 /\ (<<x>> \o s)[1] = x
         /\ \A i \in 2..Len(s) + 1 : (<<x>> \o s)[i] = s[i - 1]
<1> DEFINE one == <<x>>
           u == one \o s
<1>1. one \in Seq(T) /\ Len(one) = 1 /\ one[1] = x
  BY Single
<1>2. Len(s) \in Nat
  BY LenProperties
<1> HIDE DEF one
<1>3. one \in Seq(T)
  BY <1>1
<1>4. /\ u \in Seq(T) /\ Len(u) = Len(one) + Len(s)
      /\ \A i \in 1..Len(one) + Len(s) : u[i] = IF i <= Len(one) THEN one[i] ELSE s[i - Len(one)]
  BY <1>3, ConcatProperties
<1> HIDE DEF u
<1>5. /\ u \in Seq(T) /\ Len(u) = 1 + Len(s)
      /\ \A i \in 1..1 + Len(s) : u[i] = IF i <= 1 THEN one[i] ELSE s[i - 1]
  BY <1>1, <1>4
<1>6. /\ 1 \in 1..1 + Len(s)
      /\ \A i \in 2..Len(s) + 1 : i \in 1..1 + Len(s) /\ ~(i <= 1)
  BY <1>2
<1>7. u \in Seq(T) /\ Len(u) = Len(s) + 1 /\ u[1] = x /\ \A i \in 2..Len(s) + 1 : u[i] = s[i - 1]
  BY <1>1, <1>2, <1>5, <1>6
<1>8. QED
  BY <1>7 DEF u, one

ResumeCall == [it : Gen, in : Gen]

\* A frame that a call under way has passed through is still what it was for it.
Calm(gs, hs, c) ==
    /\ hs[c].owner = gs[c].owner /\ hs[c].info = gs[c].info /\ Base(hs, c) = Base(gs, c)
    /\ Active(gs, c) => Active(hs, c)
    /\ gs[c].at = "run" => hs[c].at = "run"

LEMMA CallsStay ==
  ASSUME NEW gs, NEW hs, NEW cs, CallShape(gs, cs),
         \A i \in 1..Len(cs) : Calm(gs, hs, cs[i].in) /\ Calm(gs, hs, cs[i].it),
         \A c \in Gen : hs[c].at = "run" => gs[c].at = "run"
  PROVE  CallShape(hs, cs)
BY DEF CallShape, Calm

LEMMA CallsPushed ==
  ASSUME NEW gs, NEW hs, NEW cs, CallShape(gs, cs),
         \A i \in 1..Len(cs) : Calm(gs, hs, cs[i].in) /\ Calm(gs, hs, cs[i].it),
         NEW it \in Gen, NEW in \in Gen, hs[in].at = "run", Base(hs, in) = it,
         Active(hs, it), hs[it].info = None,
         hs[it].owner = IF cs = <<>> THEN User ELSE cs[1].in,
         \A c \in Gen : hs[c].at = "run" => gs[c].at = "run" \/ c = in
  PROVE  CallShape(hs, <<[it |-> it, in |-> in]>> \o cs)
<1> DEFINE x == [it |-> it, in |-> in]
           ds == <<x>> \o cs
           m == Len(cs)
<1>1. x \in ResumeCall /\ x.it = it /\ x.in = in /\ cs \in Seq(ResumeCall)
  BY DEF ResumeCall, CallShape
<1> HIDE DEF x
<1>2. /\ ds \in Seq(ResumeCall) /\ Len(ds) = m + 1 /\ ds[1] = x
      /\ \A i \in 2..m + 1 : ds[i] = cs[i - 1]
  BY <1>1, Fronted
<1>3. m \in Nat /\ (cs = <<>> <=> m = 0)
  BY <1>1, EmptySeq, LenProperties
<1> HIDE DEF ds, m
<1>4. \A i \in 1..m :
         /\ hs[cs[i].in].at = "run" /\ Base(hs, cs[i].in) = cs[i].it
         /\ Active(hs, cs[i].it) /\ hs[cs[i].it].info = None
         /\ hs[cs[i].it].owner = IF i = m THEN User ELSE cs[i + 1].in
  BY DEF CallShape, Calm, m
<1>5. ASSUME NEW i \in 1..m + 1
      PROVE  /\ hs[ds[i].in].at = "run" /\ Base(hs, ds[i].in) = ds[i].it
             /\ Active(hs, ds[i].it) /\ hs[ds[i].it].info = None
             /\ hs[ds[i].it].owner = IF i = m + 1 THEN User ELSE ds[i + 1].in
  <2>1. CASE i = 1
    <3>1. m # 0 => ds[1 + 1] = cs[1]
      BY <1>2, <1>3
    <3>2. QED
      BY <1>1, <1>2, <1>3, <2>1, <3>1
  <2>2. CASE i # 1
    <3>1. i - 1 \in 1..m /\ ds[i] = cs[i - 1] /\ (i = m + 1 <=> i - 1 = m)
      BY <1>2, <1>3, <2>2
    <3>2. i # m + 1 => ds[i + 1] = cs[(i - 1) + 1]
      BY <1>2, <1>3, <2>2
    <3>3. QED
      BY <1>4, <3>1, <3>2
  <2>3. QED
    BY <2>1, <2>2
<1>6. ASSUME NEW c \in Gen, hs[c].at = "run"
      PROVE  \E i \in 1..m + 1 : ds[i].in = c
  <2>1. CASE c = in
    BY <1>1, <1>2, <1>3, <2>1
  <2>2. CASE c # in
    <3>1. PICK i \in 1..m : cs[i].in = c
      BY <1>6, <2>2 DEF CallShape, m
    <3>2. i + 1 \in 2..m + 1 /\ i + 1 \in 1..m + 1 /\ (i + 1) - 1 = i
      BY <1>3
    <3>3. QED
      BY <1>2, <3>1, <3>2
  <2>3. QED
    BY <2>1, <2>2
<1>7. QED
  BY <1>2, <1>5, <1>6 DEF CallShape, ResumeCall, ds, x

LEMMA CallsPopped ==
  ASSUME NEW gs, NEW hs, NEW cs, CallShape(gs, cs), cs # <<>>,
         \A i \in 2..Len(cs) : Calm(gs, hs, cs[i].in) /\ Calm(gs, hs, cs[i].it),
         \A c \in Gen : hs[c].at = "run" => gs[c].at = "run" /\ c # cs[1].in
  PROVE  CallShape(hs, Tail(cs))
<1> DEFINE ds == Tail(cs)
           m == Len(cs)
<1>1. cs \in Seq(ResumeCall)
  BY DEF ResumeCall, CallShape
<1>2. /\ ds \in Seq(ResumeCall) /\ Len(ds) = m - 1 /\ \A i \in 1..Len(ds) : ds[i] = cs[i + 1]
      /\ m \in Nat \ {0}
  BY <1>1, HeadTailProperties, EmptySeq, LenProperties
<1> HIDE DEF ds, m
<1>3. ASSUME NEW i \in 1..Len(ds)
      PROVE  /\ hs[ds[i].in].at = "run" /\ Base(hs, ds[i].in) = ds[i].it
             /\ Active(hs, ds[i].it) /\ hs[ds[i].it].info = None
             /\ hs[ds[i].it].owner = IF i = Len(ds) THEN User ELSE ds[i + 1].in
  <2>1. i + 1 \in 2..m /\ i + 1 \in 1..m /\ (i = Len(ds) <=> i + 1 = m) /\ ds[i] = cs[i + 1]
    BY <1>2
  <2>2. i # Len(ds) => ds[i + 1] = cs[(i + 1) + 1]
    BY <1>2
  <2>3. /\ gs[cs[i + 1].in].at = "run" /\ Base(gs, cs[i + 1].in) = cs[i + 1].it
        /\ Active(gs, cs[i + 1].it) /\ gs[cs[i + 1].it].info = None
        /\ gs[cs[i + 1].it].owner = IF i + 1 = m THEN User ELSE cs[(i + 1) + 1].in
    BY <2>1 DEF CallShape, m
  <2>4. Calm(gs, hs, cs[i + 1].in) /\ Calm(gs, hs, cs[i + 1].it)
    BY <2>1 DEF m
  <2>5. QED
    BY <2>1, <2>2, <2>3, <2>4 DEF Calm
<1>4. ASSUME NEW c \in Gen, hs[c].at = "run"
      PROVE  \E i \in 1..Len(ds) : ds[i].in = c
  <2>1. PICK i \in 1..m : cs[i].in = c
    BY <1>4 DEF CallShape, m
  <2>2. i # 1
    BY <1>4, <2>1
  <2>3. i - 1 \in 1..Len(ds) /\ (i - 1) + 1 = i
    BY <1>2, <2>1, <2>2
  <2>4. QED
    BY <1>2, <2>1, <2>3
<1>5. QED
  BY <1>2, <1>3, <1>4 DEF CallShape, ResumeCall, ds

\* The innermost call goes on in f.
Switched(gs, hs, cs, f) ==
    /\ \A i \in 2..Len(cs) : Calm(gs, hs, cs[i].in) /\ Calm(gs, hs, cs[i].it)
    /\ hs[f].at = "run" /\ Base(hs, f) = cs[1].it
    /\ Active(hs, cs[1].it) /\ hs[cs[1].it].info = None
    /\ hs[cs[1].it].owner = gs[cs[1].it].owner
    /\ \A c \in Gen : hs[c].at = "run" => (gs[c].at = "run" /\ c # cs[1].in) \/ c = f

LEMMA CallsSwitched ==
  ASSUME NEW gs, NEW hs, NEW cs, CallShape(gs, cs), cs # <<>>,
         NEW f \in Gen, Switched(gs, hs, cs, f),
         NEW x \in ResumeCall, x.it = cs[1].it, x.in = f
  PROVE  /\ CallShape(hs, <<x>> \o Tail(cs)) /\ Len(<<x>> \o Tail(cs)) = Len(cs)
         /\ \A i \in 1..Len(cs) : (<<x>> \o Tail(cs))[i].it = cs[i].it
         /\ \A i \in 2..Len(cs) : (<<x>> \o Tail(cs))[i].in = cs[i].in
<1> DEFINE tl == Tail(cs)
           ds == <<x>> \o tl
           m == Len(cs)
<1>1. cs \in Seq(ResumeCall)
  BY DEF ResumeCall, CallShape
<1>2. /\ tl \in Seq(ResumeCall) /\ Len(tl) = m - 1 /\ \A i \in 1..Len(tl) : tl[i] = cs[i + 1]
      /\ m \in Nat \ {0}
  BY <1>1, HeadTailProperties, EmptySeq, LenProperties
<1>3. x \in ResumeCall /\ x.it = cs[1].it /\ x.in = f
  OBVIOUS
<1> HIDE DEF tl
<1>4. /\ ds \in Seq(ResumeCall) /\ Len(ds) = Len(tl) + 1 /\ ds[1] = x
      /\ \A i \in 2..Len(tl) + 1 : ds[i] = tl[i - 1]
  BY <1>2, <1>3, Fronted
<1> HIDE DEF ds, m
<1>5. Len(ds) = m
  BY <1>2, <1>4
<1>6. ASSUME NEW i \in 2..m
      PROVE  ds[i] = cs[i]
  <2>1. i \in 2..Len(tl) + 1 /\ i - 1 \in 1..Len(tl) /\ (i - 1) + 1 = i
    BY <1>2
  <2>2. QED
    BY <1>2, <1>4, <2>1
<1>7. \A i \in 1..m : ds[i].it = cs[i].it /\ ds[i].in = IF i = 1 THEN f ELSE cs[i].in
  <2>1. \A i \in 1..m : i = 1 \/ i \in 2..m
    BY <1>2
  <2>2. QED
    BY <1>3, <1>4, <1>6, <2>1
<1>8. \A i \in 1..m : i # m => i + 1 \in 2..m /\ i + 1 \in 1..m /\ i + 1 # 1
  BY <1>2
<1>9. ASSUME NEW i \in 1..m
      PROVE  /\ hs[ds[i].in].at = "run" /\ Base(hs, ds[i].in) = ds[i].it
             /\ Active(hs, ds[i].it) /\ hs[ds[i].it].info = None
             /\ hs[ds[i].it].owner = IF i = m THEN User ELSE ds[i + 1].in
  <2>1. /\ gs[cs[i].in].at = "run" /\ Base(gs, cs[i].in) = cs[i].it
        /\ Active(gs, cs[i].it) /\ gs[cs[i].it].info = None
        /\ gs[cs[i].it].owner = IF i = m THEN User ELSE cs[i + 1].in
    BY DEF CallShape, m
  <2>2. i # m => ds[i + 1].in = cs[i + 1].in
    BY <1>7, <1>8
  <2>3. CASE i = 1
    BY <1>7, <2>1, <2>2, <2>3 DEF Switched
  <2>4. CASE i # 1
    <3>1. i \in 2..m
      BY <1>2, <2>4
    <3>2. Calm(gs, hs, cs[i].in) /\ Calm(gs, hs, cs[i].it)
      BY <3>1 DEF Switched, m
    <3>3. ds[i].it = cs[i].it /\ ds[i].in = cs[i].in
      BY <1>7, <2>4
    <3>4. QED
      BY <2>1, <2>2, <3>2, <3>3 DEF Calm
  <2>5. QED
    BY <2>3, <2>4
<1>10. ASSUME NEW c \in Gen, hs[c].at = "run"
       PROVE  \E i \in 1..m : ds[i].in = c
  <2>1. CASE c = f
    <3>1. 1 \in 1..m
      BY <1>2
    <3>2. QED
      BY <1>7, <2>1, <3>1
  <2>2. CASE gs[c].at = "run" /\ c # cs[1].in
    <3>1. PICK i \in 1..m : cs[i].in = c
      BY <2>2 DEF CallShape, m
    <3>2. i # 1
      BY <2>2, <3>1
    <3>3. QED
      BY <1>7, <3>1, <3>2
  <2>3. QED
    BY <1>10, <2>1, <2>2 DEF Switched
<1>11. CallShape(hs, ds)
  BY <1>4, <1>5, <1>9, <1>10 DEF CallShape, ResumeCall
<1>12. (\A i \in 1..m : ds[i].it = cs[i].it) /\ (\A i \in 2..m : ds[i].in = cs[i].in)
  BY <1>6, <1>7
<1>13. QED
  BY <1>5, <1>11, <1>12 DEF ds, tl, m

-----------------------------------------------------------------------------
(* The frames and the calls, one operation after another.                   *)

Top(cs) == IF cs = <<>> THEN User ELSE cs[1].in
Frames(gs, cs) == Shape(gs) /\ CallShape(gs, cs) /\ Ranked(gs, cs)

\* A body that called resume() was made before whatever that call has reached.
LEMMA CallFacts ==
  ASSUME NEW gs, NEW cs, Shape(gs), CallShape(gs, cs),
         NEW n \in Nat, NEW rank, RankedBy(gs, cs, n, rank)
  PROVE  /\ rank \in [Gen \cup {User} -> 0..n] /\ rank \in [Gen \cup {User} -> Nat]
         /\ \A x \in Gen \cup {User} : rank[x] \in Nat /\ rank[x] <= n
         /\ \A g \in Gen : gs[g].at # "none" => rank[gs[g].owner] < rank[g]
         /\ \A g \in Gen : Active(gs, g) => rank[Base(gs, g)] <= rank[g]
         /\ \A i \in 1..Len(cs) : /\ cs[i].in \in Gen /\ cs[i].it \in Gen
                                  /\ rank[cs[i].it] <= rank[cs[i].in]
                                  /\ Active(gs, cs[i].in) /\ Active(gs, cs[i].it)
                                  /\ gs[cs[i].in].at = "run"
         /\ \A i \in 2..Len(cs) : /\ i \in 1..Len(cs) /\ rank[cs[i].in] < rank[cs[1].it]
                                  /\ rank[cs[i].it] < rank[cs[1].it]
         /\ cs # <<>> => 1 \in 1..Len(cs)
         /\ Top(cs) \in Gen \cup {User}
         /\ Top(cs) = User \/ (cs # <<>> /\ Top(cs) \in Gen /\ gs[Top(cs)].at = "run" /\ Up(gs, Top(cs)))
<1>1. /\ rank \in [Gen \cup {User} -> 0..n]
      /\ \A g \in Gen : gs[g].at # "none" => rank[gs[g].owner] < rank[g]
      /\ \A g \in Gen : Active(gs, g) => rank[Base(gs, g)] <= rank[g]
      /\ \A i, j \in 1..Len(cs) : i < j => rank[cs[j].in] < rank[cs[i].it]
  BY DEF RankedBy
<1>2. \A x \in Gen \cup {User} : rank[x] \in Nat /\ rank[x] <= n
  BY <1>1
<1>3. cs \in Seq(ResumeCall)
  BY DEF CallShape, ResumeCall
<1>4. /\ \A i \in 1..Len(cs) : cs[i] \in ResumeCall
      /\ Len(cs) \in Nat /\ (cs # <<>> => Len(cs) # 0)
  BY <1>3, Indices, EmptySeq
<1>5. \A i \in 1..Len(cs) : cs[i].in \in Gen /\ cs[i].it \in Gen
  BY <1>4 DEF ResumeCall
<1>6. \A i \in 1..Len(cs) : /\ Active(gs, cs[i].in) /\ Active(gs, cs[i].it)
                            /\ gs[cs[i].in].at = "run" /\ Up(gs, cs[i].in)
                            /\ Base(gs, cs[i].in) = cs[i].it
  BY DEF CallShape, Active, Up
<1>7. \A i \in 1..Len(cs) : rank[cs[i].it] <= rank[cs[i].in]
  BY <1>1, <1>5, <1>6
<1>8. cs # <<>> => 1 \in 1..Len(cs)
  BY <1>4
<1>9. ASSUME NEW i \in 2..Len(cs)
      PROVE  /\ i \in 1..Len(cs) /\ rank[cs[i].in] < rank[cs[1].it]
             /\ rank[cs[i].it] < rank[cs[1].it]
  <2>1. i \in 1..Len(cs) /\ 1 \in 1..Len(cs) /\ 1 < i
    BY <1>4
  <2>2. rank[cs[i].in] < rank[cs[1].it] /\ rank[cs[i].it] <= rank[cs[i].in]
    BY <1>1, <1>7, <2>1
  <2>3. rank[cs[i].in] \in Nat /\ rank[cs[i].it] \in Nat /\ rank[cs[1].it] \in Nat
    BY <1>2, <1>5, <2>1
  <2>4. QED
    BY <2>1, <2>2, <2>3
<1>10. /\ Top(cs) \in Gen \cup {User}
       /\ Top(cs) = User \/ (cs # <<>> /\ Top(cs) \in Gen /\ gs[Top(cs)].at = "run" /\ Up(gs, Top(cs)))
  BY <1>5, <1>6, <1>8 DEF Top
<1>11. rank \in [Gen \cup {User} -> Nat]
  BY <1>1, <1>2
<1>12. QED
  BY <1>1, <1>2, <1>5, <1>6, <1>7, <1>8, <1>9, <1>10, <1>11

LEMMA MakeFrames ==
  ASSUME NEW gs, NEW cs, Frames(gs, cs), NEW g \in Gen, gs[g].at = "none",
         NEW hs \in [Gen -> GenPromise], hs[g] = Made(Top(cs), g),
         \A c \in Gen \ {g} : hs[c] = gs[c]
  PROVE  Frames(hs, cs)
<1> DEFINE h == Top(cs)
<1>1. Shape(gs) /\ CallShape(gs, cs)
  BY DEF Frames
<1>2. PICK n \in Nat : \E rank \in [Gen \cup {User} -> 0..n] : RankedBy(gs, cs, n, rank)
  BY DEF Frames, Ranked
<1>3. PICK rank \in [Gen \cup {User} -> 0..n] : RankedBy(gs, cs, n, rank)
  BY <1>2
<1>4. /\ rank \in [Gen \cup {User} -> 0..n]
      /\ \A x \in Gen \cup {User} : rank[x] \in Nat /\ rank[x] <= n
      /\ \A c \in Gen : gs[c].at # "none" => rank[gs[c].owner] < rank[c]
      /\ \A c \in Gen : Active(gs, c) => rank[Base(gs, c)] <= rank[c]
      /\ \A i \in 1..Len(cs) : /\ cs[i].in \in Gen /\ cs[i].it \in Gen
                               /\ Active(gs, cs[i].in) /\ Active(gs, cs[i].it)
      /\ h \in Gen \cup {User}
      /\ h = User \/ (h \in Gen /\ gs[h].at = "run" /\ Up(gs, h))
  BY <1>1, <1>3, CallFacts
<1> HIDE DEF h
<1>5. hs[g] = Made(h, g) /\ \A c \in Gen \ {g} : hs[c] = gs[c]
  BY DEF h
<1>6. /\ Shape(hs) /\ hs[g].at = "initial" /\ hs[g].owner = h /\ hs[g].info = None
      /\ \A c \in Gen \ {g} : hs[c] = gs[c]
      /\ \A c \in Gen : gs[c].owner # g
      /\ \A c \in Gen : Active(hs, c) <=> Active(gs, c)
      /\ \A c \in Gen : Active(gs, c) => Base(hs, c) = Base(gs, c)
  BY <1>1, <1>4, <1>5, ShapeMade
<1>7. \A c \in Gen : Active(gs, c) => c # g /\ Calm(gs, hs, c)
  BY <1>6 DEF Active, Calm
<1>8. CallShape(hs, cs)
  <2>1. \A i \in 1..Len(cs) : Calm(gs, hs, cs[i].in) /\ Calm(gs, hs, cs[i].it)
    BY <1>4, <1>7
  <2>2. ASSUME NEW c \in Gen, hs[c].at = "run" PROVE gs[c].at = "run"
    BY <1>6, <2>2
  <2>3. \A c \in Gen : hs[c].at = "run" => gs[c].at = "run"
    BY <2>2
  <2>4. QED
    BY <1>1, <2>1, <2>3, CallsStay
<1>9. Ranked(hs, cs)
  <2> DEFINE r2 == [rank EXCEPT ![g] = rank[h] + 1]
  <2>1. n + 1 \in Nat /\ r2 \in [Gen \cup {User} -> 0..n + 1]
    BY <1>4
  <2>2. g # h /\ \A c \in Gen \cup {User} : r2[c] = IF c = g THEN rank[h] + 1 ELSE rank[c]
    BY <1>4, <1>6, GenAssumption
  <2> HIDE DEF r2
  <2>3. ASSUME NEW c \in Gen, hs[c].at # "none"
        PROVE  r2[hs[c].owner] < r2[c]
    <3>1. CASE c = g
      BY <1>4, <1>6, <2>2, <3>1
    <3>2. CASE c # g
      <4>1. gs[c].at # "none" /\ hs[c].owner = gs[c].owner /\ gs[c].owner # g
        BY <1>6, <2>3, <3>2
      <4>2. gs[c].owner \in Gen \cup {User}
        BY <1>1, <4>1, GenAssumption DEF Shape, MadeShape, GenPromise
      <4>3. QED
        BY <1>4, <2>2, <3>2, <4>1, <4>2
    <3>3. QED
      BY <3>1, <3>2
  <2>4. ASSUME NEW c \in Gen, Active(hs, c)
        PROVE  r2[Base(hs, c)] <= r2[c]
    <3>1. Active(gs, c) /\ c # g /\ Base(hs, c) = Base(gs, c)
      BY <1>6, <1>7, <2>4
    <3>2. Base(gs, c) \in Gen /\ Base(gs, c) # g
      BY <1>1, <3>1 DEF Shape, TopShape
    <3>3. QED
      BY <1>4, <2>2, <3>1, <3>2
  <2>5. \A i, j \in 1..Len(cs) : i < j => r2[cs[j].in] < r2[cs[i].it]
    <3>1. \A i \in 1..Len(cs) : r2[cs[i].in] = rank[cs[i].in] /\ r2[cs[i].it] = rank[cs[i].it]
      BY <1>4, <1>7, <2>2
    <3>2. QED
      BY <1>3, <3>1 DEF RankedBy
  <2>6. RankedBy(hs, cs, n + 1, r2)
    BY <2>1, <2>3, <2>4, <2>5 DEF RankedBy
  <2>7. QED
    BY <2>1, <2>6 DEF Ranked
<1>10. QED
  BY <1>6, <1>8, <1>9 DEF Frames

\* What a step that turns the frame t does for the calls.
LEMMA TurnedCalm ==
  ASSUME NEW gs, Shape(gs), NEW t \in Gen,
         NEW hs, hs \in [Gen -> GenPromise], \A c \in Gen : Alike(gs, hs, c),
         \A c \in Gen \ {t} : hs[c].at = gs[c].at, \A c \in Gen : Base(hs, c) = Base(gs, c)
  PROVE  \A c \in Gen \ {t} : Calm(gs, hs, c)
BY DEF Calm, Alike, Active

\* begin() and operator++: a generator goes on within a resume() of its own.
LEMMA PushFrames ==
  ASSUME NEW gs, NEW cs, Frames(gs, cs), NEW g \in Gen, NEW t \in Gen,
         gs[g].owner = Top(cs), gs[g].info = None, gs[g].at # "none",
         \/ gs[g].at = "initial" /\ t = g
         \/ Active(gs, g) /\ gs[t].at \in {"run", "yield"} /\ gs[t].at # "run" /\ Base(gs, t) = g,
         NEW hs \in [Gen -> GenPromise], \A c \in Gen : Alike(gs, hs, c),
         hs[t].at = "run", \A c \in Gen \ {t} : hs[c].at = gs[c].at /\ hs[c].val = gs[c].val
  PROVE  Frames(hs, <<[it |-> g, in |-> t]>> \o cs)
<1> DEFINE x == [it |-> g, in |-> t]
           ds == <<x>> \o cs
<1>1. Shape(gs) /\ CallShape(gs, cs) /\ gs \in [Gen -> GenPromise]
  BY DEF Frames, Shape
<1>2. PICK n \in Nat : \E rank \in [Gen \cup {User} -> 0..n] : RankedBy(gs, cs, n, rank)
  BY DEF Frames, Ranked
<1>3. PICK rank \in [Gen \cup {User} -> 0..n] : RankedBy(gs, cs, n, rank)
  BY <1>2
<1>4. /\ \A x1 \in Gen \cup {User} : rank[x1] \in Nat
      /\ \A c \in Gen : gs[c].at # "none" => rank[gs[c].owner] < rank[c]
      /\ \A c \in Gen : Active(gs, c) => rank[Base(gs, c)] <= rank[c]
      /\ \A i \in 1..Len(cs) : /\ cs[i].in \in Gen /\ cs[i].it \in Gen
                               /\ rank[cs[i].it] <= rank[cs[i].in]
                               /\ Active(gs, cs[i].in) /\ Active(gs, cs[i].it)
                               /\ gs[cs[i].in].at = "run"
      /\ \A i \in 2..Len(cs) : /\ i \in 1..Len(cs) /\ rank[cs[i].in] < rank[cs[1].it]
      /\ cs # <<>> => 1 \in 1..Len(cs)
  BY <1>1, <1>3, CallFacts
<1>5. /\ hs \in [Gen -> GenPromise] /\ \A c \in Gen : Alike(gs, hs, c)
      /\ hs[t].at = "run" /\ \A c \in Gen \ {t} : hs[c].at = gs[c].at /\ hs[c].val = gs[c].val
  OBVIOUS
<1>6. gs[t].at \in {"initial", "run", "yield"} /\ gs[t].at # "run"
  OBVIOUS
<1>7. hs[t].at \in {"run", "yield"}
  BY <1>5
<1>8. /\ Shape(hs) /\ \A c \in Gen : Base(hs, c) = Base(gs, c)
      /\ \A c \in Gen : Active(hs, c) <=> Active(gs, c) \/ c = t
  BY <1>1, <1>6, <1>7, FrameTurned
<1>9. \A c \in Gen : Calm(gs, hs, c)
  <2>1. \A c \in Gen \ {t} : Calm(gs, hs, c)
    BY <1>1, <1>5, <1>8, TurnedCalm
  <2>2. Calm(gs, hs, t)
    BY <1>5, <1>8 DEF Calm, Alike
  <2>3. QED
    BY <2>1, <2>2
<1>10. Base(hs, t) = g /\ Active(hs, g)
  BY <1>8 DEF Base
<1>11. hs[g].owner = gs[g].owner /\ hs[g].info = None
  BY <1>5 DEF Alike
<1>12. CallShape(hs, ds)
  <2>1. /\ \A i \in 1..Len(cs) : Calm(gs, hs, cs[i].in) /\ Calm(gs, hs, cs[i].it)
        /\ \A c \in Gen : hs[c].at = "run" => gs[c].at = "run" \/ c = t
    BY <1>4, <1>5, <1>9
  <2>2. hs[t].at = "run" /\ hs[g].owner = IF cs = <<>> THEN User ELSE cs[1].in
    BY <1>5, <1>11 DEF Top
  <2>3. QED
    BY <1>1, <1>10, <1>11, <2>1, <2>2, CallsPushed
<1>13. RankedBy(hs, ds, n, rank)
  <2>1. /\ \A c \in Gen : hs[c].at # "none" => rank[hs[c].owner] < rank[c]
        /\ \A c \in Gen : Active(hs, c) => rank[Base(hs, c)] <= rank[c]
    <3>1. \A c \in Gen : hs[c].at # "none" => gs[c].at # "none"
      BY <1>5, <1>6
    <3>2. rank[g] <= rank[t]
      <4>1. CASE t = g
        BY <1>4, <4>1
      <4>2. CASE t # g
        BY <1>4, <4>2 DEF Active
      <4>3. QED
        BY <4>1, <4>2
    <3>3. Base(gs, t) = g
      BY <1>8, <1>10
    <3>4. ASSUME NEW c \in Gen, hs[c].at # "none"
          PROVE  rank[hs[c].owner] < rank[c]
      BY <1>4, <1>5, <3>1, <3>4 DEF Alike
    <3>5. ASSUME NEW c \in Gen, Active(hs, c)
          PROVE  rank[Base(hs, c)] <= rank[c]
      BY <1>4, <1>8, <3>2, <3>3, <3>5
    <3>6. QED
      BY <3>4, <3>5
  <2>2. \A i \in 1..Len(cs) : rank[cs[i].in] < rank[g]
    <3>1. ASSUME NEW i \in 1..Len(cs)
          PROVE  rank[cs[i].in] < rank[g]
      <4>1. cs # <<>>
        BY EmptySeq
      <4>2. rank[cs[1].in] < rank[g] /\ rank[cs[1].in] \in Nat /\ rank[g] \in Nat
        BY <1>4, <4>1 DEF Top
      <4>3. CASE i = 1
        BY <4>2, <4>3
      <4>4. CASE i # 1
        <5>1. i \in 2..Len(cs)
          BY <4>4, <1>1, LenProperties DEF CallShape
        <5>2. /\ rank[cs[i].in] < rank[cs[1].it] /\ rank[cs[1].it] <= rank[cs[1].in]
              /\ rank[cs[i].in] \in Nat /\ rank[cs[1].it] \in Nat
          BY <1>4, <4>1, <5>1
        <5>3. QED
          BY <4>2, <5>2
      <4>5. QED
        BY <4>3, <4>4
    <3>2. QED
      BY <3>1
  <2>3. /\ ds \in Seq(ResumeCall) /\ Len(ds) = Len(cs) + 1 /\ ds[1] = x
        /\ \A i \in 2..Len(cs) + 1 : ds[i] = cs[i - 1]
    <3>1. cs \in Seq(ResumeCall) /\ x \in ResumeCall
      BY <1>1 DEF CallShape, ResumeCall
    <3> HIDE DEF x
    <3>2. QED
      BY <3>1, Fronted
  <2>4. Len(cs) \in Nat /\ x.in = t /\ x.it = g
    BY <1>1, LenProperties DEF CallShape
  <2> HIDE DEF ds, x
  <2>5. ASSUME NEW i \in 1..Len(ds), NEW j \in 1..Len(ds), i < j
        PROVE  rank[ds[j].in] < rank[ds[i].it]
    <3>1. j \in 2..Len(cs) + 1 /\ j - 1 \in 1..Len(cs) /\ ds[j] = cs[j - 1]
      BY <2>3, <2>4, <2>5
    <3>2. CASE i = 1
      BY <2>2, <2>3, <2>4, <3>1, <3>2
    <3>3. CASE i # 1
      <4>1. i - 1 \in 1..Len(cs) /\ ds[i] = cs[i - 1] /\ i - 1 < j - 1
        BY <2>3, <2>4, <2>5, <3>3
      <4>2. QED
        BY <1>3, <3>1, <4>1 DEF RankedBy
    <3>4. QED
      BY <3>2, <3>3
  <2>6. QED
    BY <1>3, <2>1, <2>5 DEF RankedBy
<1>14. QED
  BY <1>3, <1>5, <1>8, <1>12, <1>13 DEF Frames, Ranked, ds, x

\* T is g and all that would be destroyed with it.
IsTree(gs, g, T) ==
    /\ T \in SUBSET Gen
    /\ \A c \in Gen : c \in T <=> \A S \in SUBSET Gen :
           g \in S /\ (\A d \in Gen : gs[d].owner \in S => d \in S) => c \in S

LEMMA TreeFacts ==
  ASSUME NEW gs, Shape(gs), NEW g \in Gen, NEW T, IsTree(gs, g, T),
         NEW rank, Numbered(gs, rank)
  PROVE  /\ T \in SUBSET Gen /\ g \in T
         /\ \A d \in Gen : gs[d].owner \in T => d \in T
         /\ \A c \in T : c # g => gs[c].owner \in T /\ rank[g] < rank[c]
<1>1. T \in SUBSET Gen /\ g \in T
  BY DEF IsTree
<1>2. /\ rank \in [Gen \cup {User} -> Nat]
      /\ \A c \in Gen : gs[c].at # "none" => rank[gs[c].owner] < rank[c]
  BY DEF Numbered
<1>3. ASSUME NEW d \in Gen, gs[d].owner \in T
      PROVE  d \in T
  <2>1. SUFFICES ASSUME NEW S \in SUBSET Gen, g \in S,
                        \A x \in Gen : gs[x].owner \in S => x \in S
                 PROVE  d \in S
    BY DEF IsTree
  <2>2. gs[d].owner \in S
    BY <1>1, <1>3, <2>1 DEF IsTree
  <2>3. QED
    BY <2>1, <2>2
<1>4. ASSUME NEW c \in T, c # g
      PROVE  gs[c].owner \in T
  <2> DEFINE S == {x \in T : x = g \/ gs[x].owner \in T}
  <2>1. S \in SUBSET Gen /\ g \in S /\ S \subseteq T
    BY <1>1
  <2>2. \A d \in Gen : gs[d].owner \in S => d \in S
    BY <1>3, <2>1
  <2>3. c \in S
    <3> HIDE DEF S
    <3> QED
      BY <1>1, <1>4, <2>1, <2>2 DEF IsTree
  <2>4. QED
    BY <1>4, <2>3
<1>5. ASSUME NEW c \in T, c # g
      PROVE  rank[g] < rank[c]
  <2> DEFINE S == {x \in Gen : x = g \/ rank[g] < rank[x]}
  <2>1. S \in SUBSET Gen /\ g \in S
    OBVIOUS
  <2>2. ASSUME NEW d \in Gen, gs[d].owner \in S
        PROVE  d \in S
    <3>1. gs[d].owner \in Gen /\ (gs[d].owner = g \/ rank[g] < rank[gs[d].owner])
      BY <2>2
    <3>2. gs[d].at # "none"
      BY <3>1, GenAssumption DEF Shape, MadeShape
    <3>3. rank[gs[d].owner] < rank[d]
      BY <1>2, <3>2
    <3>4. rank[g] \in Nat /\ rank[d] \in Nat /\ rank[gs[d].owner] \in Nat
      BY <1>2, <3>1
    <3>5. QED
      BY <3>1, <3>3, <3>4
  <2>3. c \in S
    <3> HIDE DEF S
    <3> QED
      BY <1>1, <1>5, <2>1, <2>2 DEF IsTree
  <2>4. QED
    BY <1>5, <2>3
<1>6. QED
  BY <1>1, <1>3, <1>4, <1>5

\* The calls but the innermost, in the frames hs.
LEMMA RankedPopped ==
  ASSUME NEW gs, NEW hs, NEW cs, CallShape(gs, cs), cs # <<>>,
         NEW n \in Nat, NEW rank, RankedBy(gs, cs, n, rank),
         \A c \in Gen : hs[c].at # "none" => rank[hs[c].owner] < rank[c],
         \A c \in Gen : Active(hs, c) => rank[Base(hs, c)] <= rank[c]
  PROVE  RankedBy(hs, Tail(cs), n, rank)
<1> DEFINE ds == Tail(cs)
<1>1. cs \in Seq(ResumeCall)
  BY DEF CallShape, ResumeCall
<1>2. /\ ds \in Seq(ResumeCall) /\ Len(ds) = Len(cs) - 1 /\ \A i \in 1..Len(ds) : ds[i] = cs[i + 1]
      /\ Len(cs) \in Nat \ {0}
  BY <1>1, HeadTailProperties, EmptySeq, LenProperties
<1> HIDE DEF ds
<1>3. \A i \in 1..Len(ds) : i + 1 \in 1..Len(cs)
  BY <1>2
<1>4. \A i, j \in 1..Len(cs) : i < j => rank[cs[j].in] < rank[cs[i].it]
  BY DEF RankedBy
<1>5. ASSUME NEW i \in 1..Len(ds), NEW j \in 1..Len(ds), i < j
      PROVE  rank[ds[j].in] < rank[ds[i].it]
  <2>1. i + 1 < j + 1
    BY <1>2, <1>5
  <2>2. QED
    BY <1>2, <1>3, <1>4, <2>1
<1>6. QED
  BY <1>5 DEF RankedBy, ds

LEMMA RankedSwitched ==
  ASSUME NEW gs, NEW hs, NEW cs, CallShape(gs, cs), cs # <<>>,
         NEW n \in Nat, NEW rank, RankedBy(gs, cs, n, rank),
         \A c \in Gen : hs[c].at # "none" => rank[hs[c].owner] < rank[c],
         \A c \in Gen : Active(hs, c) => rank[Base(hs, c)] <= rank[c],
         NEW ds, Len(ds) = Len(cs), \A i \in 1..Len(cs) : ds[i].it = cs[i].it,
         \A i \in 2..Len(cs) : ds[i].in = cs[i].in
  PROVE  RankedBy(hs, ds, n, rank)
<1>1. \A i, j \in 1..Len(cs) : i < j => rank[cs[j].in] < rank[cs[i].it]
  BY DEF RankedBy
<1>2. Len(cs) \in Nat
  BY LenProperties DEF CallShape
<1>3. ASSUME NEW i \in 1..Len(ds), NEW j \in 1..Len(ds), i < j
      PROVE  rank[ds[j].in] < rank[ds[i].it]
  <2>1. i \in 1..Len(cs) /\ j \in 2..Len(cs) /\ j \in 1..Len(cs)
    BY <1>2, <1>3
  <2>2. QED
    BY <1>1, <1>3, <2>1
<1>4. QED
  BY <1>3 DEF RankedBy

\* co_yield of a value.
LEMMA YieldFrames ==
  ASSUME NEW gs, NEW cs, Frames(gs, cs), cs # <<>>,
         NEW hs \in [Gen -> GenPromise], \A c \in Gen : Alike(gs, hs, c),
         hs[Top(cs)].at = "yield",
         \A c \in Gen \ {Top(cs)} : hs[c].at = gs[c].at /\ hs[c].val = gs[c].val
  PROVE  Frames(hs, Tail(cs))
<1> DEFINE h == Top(cs)
<1>1. Shape(gs) /\ CallShape(gs, cs)
  BY DEF Frames
<1>2. PICK n \in Nat : \E rank \in [Gen \cup {User} -> 0..n] : RankedBy(gs, cs, n, rank)
  BY DEF Frames, Ranked
<1>3. PICK rank \in [Gen \cup {User} -> 0..n] : RankedBy(gs, cs, n, rank)
  BY <1>2
<1>4. /\ \A x \in Gen \cup {User} : rank[x] \in Nat
      /\ \A c \in Gen : gs[c].at # "none" => rank[gs[c].owner] < rank[c]
      /\ \A c \in Gen : Active(gs, c) => rank[Base(gs, c)] <= rank[c]
      /\ \A i \in 1..Len(cs) : /\ cs[i].in \in Gen /\ cs[i].it \in Gen
                               /\ rank[cs[i].it] <= rank[cs[i].in]
                               /\ gs[cs[i].in].at = "run"
      /\ \A i \in 2..Len(cs) : /\ i \in 1..Len(cs) /\ rank[cs[i].in] < rank[cs[1].it]
                               /\ rank[cs[i].it] < rank[cs[1].it]
      /\ 1 \in 1..Len(cs)
  BY <1>1, <1>3, CallFacts
<1>5. h = cs[1].in /\ h \in Gen /\ gs[h].at = "run" /\ rank[cs[1].it] <= rank[h]
  BY <1>4 DEF Top
<1> HIDE DEF h
<1>6. /\ hs \in [Gen -> GenPromise] /\ \A c \in Gen : Alike(gs, hs, c)
      /\ hs[h].at = "yield" /\ \A c \in Gen \ {h} : hs[c].at = gs[c].at /\ hs[c].val = gs[c].val
  BY DEF h
<1>7. gs[h].at \in {"initial", "run", "yield"} /\ hs[h].at \in {"run", "yield"}
  BY <1>5, <1>6
<1>8. /\ Shape(hs) /\ \A c \in Gen : Base(hs, c) = Base(gs, c)
      /\ \A c \in Gen : Active(hs, c) <=> Active(gs, c) \/ c = h
  BY <1>1, <1>5, <1>6, <1>7, FrameTurned
<1>9. \A c \in Gen \ {h} : Calm(gs, hs, c)
  BY <1>1, <1>5, <1>6, <1>8, TurnedCalm
<1>10. \A i \in 2..Len(cs) : cs[i].in # h /\ cs[i].it # h /\ cs[i].in \in Gen /\ cs[i].it \in Gen
  BY <1>4, <1>5
<1>11. CallShape(hs, Tail(cs))
  <2>1. \A i \in 2..Len(cs) : Calm(gs, hs, cs[i].in) /\ Calm(gs, hs, cs[i].it)
    BY <1>9, <1>10
  <2>2. \A c \in Gen : hs[c].at = "run" => gs[c].at = "run" /\ c # cs[1].in
    BY <1>5, <1>6
  <2>3. QED
    BY <1>1, <2>1, <2>2, CallsPopped
<1>12. RankedBy(hs, Tail(cs), n, rank)
  <2>1. ASSUME NEW c \in Gen, hs[c].at # "none"
        PROVE  rank[hs[c].owner] < rank[c]
    BY <1>4, <1>5, <1>6, <2>1 DEF Alike
  <2>2. ASSUME NEW c \in Gen, Active(hs, c)
        PROVE  rank[Base(hs, c)] <= rank[c]
    <3>1. Active(gs, c)
      BY <1>5, <1>8, <2>2 DEF Active
    <3>2. QED
      BY <1>4, <1>8, <3>1
  <2>3. QED
    BY <1>1, <1>3, <2>1, <2>2, RankedPopped
<1>13. QED
  BY <1>8, <1>11, <1>12 DEF Frames, Ranked

\* co_yield elements_of.
NestedIn(gs, hs, cs, h, g, r) ==
    /\ h = Top(cs) /\ cs # <<>> /\ g \in Gen /\ gs[g].at = "initial" /\ gs[g].owner = h
    /\ r = Base(gs, h) /\ hs \in [Gen -> GenPromise]
    /\ \A c \in Gen : hs[c].owner = gs[c].owner /\ hs[c].val = gs[c].val
    /\ \A c \in Gen : hs[c].at = IF c = h THEN "nest" ELSE IF c = g THEN "run" ELSE gs[c].at
    /\ \A c \in Gen : hs[c].root = IF c = h THEN r ELSE gs[c].root
    /\ \A c \in Gen : hs[c].info = IF c = g THEN h ELSE gs[c].info
    /\ \A c \in Gen : hs[c].top = IF c = r THEN g ELSE gs[c].top

LEMMA NestFrames ==
  ASSUME NEW gs, NEW hs, NEW cs, NEW h, NEW g, NEW r, Frames(gs, cs), NestedIn(gs, hs, cs, h, g, r)
  PROVE  Frames(hs, <<[cs[1] EXCEPT !.in = g]>> \o Tail(cs))
<1> SUFFICES ASSUME h = Top(cs), cs # <<>>, g \in Gen, gs[g].at = "initial", gs[g].owner = h,
                    r = Base(gs, h), hs \in [Gen -> GenPromise],
                    \A c \in Gen : hs[c].owner = gs[c].owner /\ hs[c].val = gs[c].val,
                    \A c \in Gen : hs[c].at = IF c = h THEN "nest" ELSE IF c = g THEN "run" ELSE gs[c].at,
                    \A c \in Gen : hs[c].root = IF c = h THEN r ELSE gs[c].root,
                    \A c \in Gen : hs[c].info = IF c = g THEN h ELSE gs[c].info,
                    \A c \in Gen : hs[c].top = IF c = r THEN g ELSE gs[c].top
             PROVE  Frames(hs, <<[cs[1] EXCEPT !.in = g]>> \o Tail(cs))
  BY DEF NestedIn
<1> DEFINE x == [cs[1] EXCEPT !.in = g]
           ds == <<x>> \o Tail(cs)
<1>1. Shape(gs) /\ CallShape(gs, cs)
  BY DEF Frames
<1>2. PICK n \in Nat : \E rank \in [Gen \cup {User} -> 0..n] : RankedBy(gs, cs, n, rank)
  BY DEF Frames, Ranked
<1>3. PICK rank \in [Gen \cup {User} -> 0..n] : RankedBy(gs, cs, n, rank)
  BY <1>2
<1>4. /\ rank \in [Gen \cup {User} -> Nat] /\ \A x1 \in Gen \cup {User} : rank[x1] \in Nat
      /\ \A c \in Gen : gs[c].at # "none" => rank[gs[c].owner] < rank[c]
      /\ \A c \in Gen : Active(gs, c) => rank[Base(gs, c)] <= rank[c]
      /\ \A i \in 1..Len(cs) : /\ cs[i].in \in Gen /\ cs[i].it \in Gen
                               /\ rank[cs[i].it] <= rank[cs[i].in]
                               /\ Active(gs, cs[i].in) /\ Active(gs, cs[i].it)
                               /\ gs[cs[i].in].at = "run"
      /\ \A i \in 2..Len(cs) : /\ i \in 1..Len(cs) /\ rank[cs[i].in] < rank[cs[1].it]
                               /\ rank[cs[i].it] < rank[cs[1].it]
      /\ 1 \in 1..Len(cs)
  BY <1>1, <1>3, CallFacts
<1>5. h = cs[1].in /\ h \in Gen /\ gs[h].at = "run" /\ rank[cs[1].it] <= rank[h]
  BY <1>4 DEF Top
<1>6. /\ Base(gs, cs[1].in) = cs[1].it /\ gs[cs[1].it].info = None
      /\ Active(gs, cs[1].it)
  BY <1>1, <1>4 DEF CallShape
<1>7. r = cs[1].it /\ r \in Gen /\ gs[r].info = None /\ Active(gs, r)
  BY <1>4, <1>5, <1>6
<1>8. /\ Shape(hs)
      /\ \A c \in Gen : Active(hs, c) <=> Active(gs, c) \/ c = g
      /\ \A c \in Gen : Active(gs, c) => Base(hs, c) = Base(gs, c)
      /\ Base(hs, g) = r
  <2>1. Shape(gs) /\ h \in Gen /\ gs[h].at = "run" /\ gs[r].info = None
    BY <1>1, <1>5, <1>7
  <2>2. QED
    BY <2>1, FrameNested
<1>9. rank[h] < rank[g] /\ rank[g] \in Nat /\ rank[h] \in Nat /\ rank[r] \in Nat /\ ~Active(gs, g)
  BY <1>4, <1>5, <1>7 DEF Active
<1>10. \A i \in 2..Len(cs) : /\ cs[i].in # h /\ cs[i].it # h /\ cs[i].in # g /\ cs[i].it # g
                             /\ cs[i].in \in Gen /\ cs[i].it \in Gen
                             /\ Active(gs, cs[i].in) /\ Active(gs, cs[i].it)
  <2>1. ASSUME NEW i \in 2..Len(cs)
        PROVE  rank[cs[i].in] < rank[h] /\ rank[cs[i].it] < rank[h] /\ i \in 1..Len(cs)
    BY <1>4, <1>5, <1>7, <1>9
  <2>2. QED
    BY <1>4, <1>9, <2>1
<1>11. \A c \in Gen : c # h /\ c # g /\ Active(gs, c) => Calm(gs, hs, c)
  BY <1>8 DEF Calm
<1>12. r # g
  BY <1>7, <1>9
<1>13. \A i \in 2..Len(cs) : Calm(gs, hs, cs[i].in) /\ Calm(gs, hs, cs[i].it)
  BY <1>10, <1>11
<1>14. /\ hs[g].at = "run" /\ Base(hs, g) = cs[1].it /\ Active(hs, cs[1].it)
       /\ hs[cs[1].it].info = None /\ hs[cs[1].it].owner = gs[cs[1].it].owner
  BY <1>5, <1>7, <1>8, <1>9, <1>12
<1>15. \A c \in Gen : hs[c].at = "run" => (gs[c].at = "run" /\ c # cs[1].in) \/ c = g
  BY <1>5
<1>16. cs[1] \in ResumeCall
  BY <1>1, <1>4, ElementOfSeq DEF CallShape, ResumeCall
<1>17. x \in ResumeCall /\ x.it = cs[1].it /\ x.in = g
  BY <1>16 DEF ResumeCall
<1> HIDE DEF x
<1>18. /\ CallShape(hs, ds) /\ Len(ds) = Len(cs)
       /\ \A i \in 1..Len(cs) : ds[i].it = cs[i].it
       /\ \A i \in 2..Len(cs) : ds[i].in = cs[i].in
  <2>1. CallShape(gs, cs) /\ x \in ResumeCall /\ x.it = cs[1].it /\ x.in = g
    BY <1>1, <1>17
  <2>2. Switched(gs, hs, cs, g)
    BY <1>13, <1>14, <1>15 DEF Switched
  <2>3. QED
    BY <2>1, <2>2, CallsSwitched
<1> HIDE DEF ds
<1>19. RankedBy(hs, ds, n, rank)
  <2>1. ASSUME NEW c \in Gen, hs[c].at # "none"
        PROVE  rank[hs[c].owner] < rank[c]
    <3>1. gs[c].at # "none"
      BY <1>5, <2>1
    <3>2. QED
      BY <1>4, <3>1
  <2>2. ASSUME NEW c \in Gen, Active(hs, c)
        PROVE  rank[Base(hs, c)] <= rank[c]
    <3>1. rank[r] <= rank[g]
      BY <1>5, <1>7, <1>9
    <3>2. QED
      BY <1>4, <1>8, <2>2, <3>1
  <2>3. QED
    <3>1. /\ \A c \in Gen : hs[c].at # "none" => rank[hs[c].owner] < rank[c]
          /\ \A c \in Gen : Active(hs, c) => rank[Base(hs, c)] <= rank[c]
      BY <2>1, <2>2
    <3>2. CallShape(gs, cs) /\ RankedBy(gs, cs, n, rank) /\ Len(ds) = Len(cs)
      BY <1>1, <1>3, <1>18
    <3>3. /\ \A i \in 1..Len(cs) : ds[i].it = cs[i].it
          /\ \A i \in 2..Len(cs) : ds[i].in = cs[i].in
      BY <1>18
    <3>4. QED
      BY <3>1, <3>2, <3>3, RankedSwitched
<1>20. QED
  BY <1>8, <1>18, <1>19 DEF Frames, Ranked, ds, x

\* A generator is destroyed by the one who runs.
\* The tree T of g is destroyed, where D has not been before.
Released(gs, hs, cs, g, T, D) ==
    /\ g \in Gen /\ Up(gs, g) /\ gs[g].owner = Top(cs) /\ IsTree(gs, g, T)
    /\ \A c : c \in D <=> c \in T /\ gs[c].at # "none"
    /\ hs \in [Gen -> GenPromise]
    /\ \A c \in Gen : Alike(gs, hs, c) /\ hs[c].val = gs[c].val
    /\ \A c \in Gen : hs[c].at = IF c \in D THEN "gone" ELSE gs[c].at

LEMMA ReleaseFrames ==
  ASSUME NEW gs, NEW hs, NEW cs, NEW g, NEW T, NEW D, Frames(gs, cs), Released(gs, hs, cs, g, T, D)
  PROVE  Frames(hs, cs)
<1> SUFFICES ASSUME g \in Gen, Up(gs, g), gs[g].owner = Top(cs), IsTree(gs, g, T),
                    \A c : c \in D <=> c \in T /\ gs[c].at # "none",
                    hs \in [Gen -> GenPromise],
                    \A c \in Gen : Alike(gs, hs, c) /\ hs[c].val = gs[c].val,
                    \A c \in Gen : hs[c].at = IF c \in D THEN "gone" ELSE gs[c].at
             PROVE  Frames(hs, cs)
  BY DEF Released
<1>1. Shape(gs) /\ CallShape(gs, cs)
  BY DEF Frames
<1>2. PICK n \in Nat : \E rank \in [Gen \cup {User} -> 0..n] : RankedBy(gs, cs, n, rank)
  BY DEF Frames, Ranked
<1>3. PICK rank \in [Gen \cup {User} -> 0..n] : RankedBy(gs, cs, n, rank)
  BY <1>2
<1>4. /\ rank \in [Gen \cup {User} -> Nat] /\ \A x1 \in Gen \cup {User} : rank[x1] \in Nat
      /\ \A c \in Gen : gs[c].at # "none" => rank[gs[c].owner] < rank[c]
      /\ \A c \in Gen : Active(gs, c) => rank[Base(gs, c)] <= rank[c]
      /\ \A i \in 1..Len(cs) : /\ cs[i].in \in Gen /\ cs[i].it \in Gen
                               /\ rank[cs[i].it] <= rank[cs[i].in]
                               /\ gs[cs[i].in].at = "run"
      /\ \A i \in 2..Len(cs) : /\ i \in 1..Len(cs) /\ rank[cs[i].in] < rank[cs[1].it]
                               /\ rank[cs[i].it] < rank[cs[1].it]
      /\ cs # <<>> => 1 \in 1..Len(cs)
      /\ Top(cs) = User \/ gs[Top(cs)].at = "run"
  BY <1>1, <1>3, CallFacts
<1>5. /\ T \in SUBSET Gen /\ g \in T
      /\ \A d \in Gen : gs[d].owner \in T => d \in T
      /\ \A c \in T : c # g => gs[c].owner \in T /\ rank[g] < rank[c]
  <2>1. Shape(gs) /\ Numbered(gs, rank)
    BY <1>1, <1>4 DEF Numbered
  <2>2. QED
    BY <2>1, TreeFacts
<1>6. D \in SUBSET Gen /\ \A c \in Gen : c \in D <=> c \in T /\ gs[c].at # "none"
  BY <1>5
<1>7. \A c \in Gen : Up(gs, c) => gs[c].at # "none"
  BY DEF Up
<1>8. Removable(gs, D)
  <2>1. \A c \in D : gs[c].at # "none"
    BY <1>6
  <2>2. ASSUME NEW c \in Gen, Up(gs, c), gs[c].owner \in D
        PROVE  c \in D
    BY <1>5, <1>6, <1>7, <2>2
  <2>3. ASSUME NEW c \in D, Up(gs, c)
        PROVE  gs[c].owner \in D \/ gs[c].owner = User \/ gs[gs[c].owner].at # "nest"
    <3>1. CASE c = g
      BY <1>4, <3>1
    <3>2. CASE c # g
      <4>1. gs[c].owner \in T /\ gs[c].owner \in Gen
        BY <1>5, <1>6, <3>2
      <4>2. gs[gs[c].owner].at # "none"
        BY <1>1, <1>6, <4>1 DEF Shape, MadeShape
      <4>3. QED
        BY <1>6, <4>1, <4>2
    <3>3. QED
      BY <3>1, <3>2
  <2>4. QED
    BY <1>6, <2>1, <2>2, <2>3 DEF Removable
<1>9. /\ Shape(hs)
      /\ \A c \in Gen : Active(hs, c) <=> Active(gs, c) /\ c \notin D
      /\ \A c \in Gen : Base(hs, c) = Base(gs, c)
  <2>1. Shape(gs) /\ Numbered(gs, rank)
    BY <1>1, <1>4 DEF Numbered
  <2>2. QED
    BY <2>1, <1>8, FrameRemoved
<1>10. \A i \in 1..Len(cs) : cs[i].in \notin D /\ cs[i].it \notin D /\ cs[i].in \in Gen /\ cs[i].it \in Gen
  <2>1. ASSUME NEW i \in 1..Len(cs)
        PROVE  rank[cs[i].in] < rank[g] /\ rank[cs[i].it] < rank[g]
    <3>1. cs # <<>>
      BY EmptySeq
    <3>2. rank[cs[1].in] < rank[g] /\ rank[cs[1].in] \in Nat /\ rank[g] \in Nat
      BY <1>4, <1>7, <3>1 DEF Top
    <3>3. rank[cs[1].it] \in Nat /\ rank[cs[i].in] \in Nat /\ rank[cs[i].it] \in Nat
      BY <1>4, <3>1
    <3>4. CASE i = 1
      BY <1>4, <3>2, <3>3, <3>4
    <3>5. CASE i # 1
      <4>1. i \in 2..Len(cs)
        BY <3>5, <1>1, LenProperties DEF CallShape
      <4>2. QED
        BY <1>4, <3>1, <3>2, <3>3, <4>1
    <3>6. QED
      BY <3>4, <3>5
  <2>2. \A c \in D : c \in Gen /\ (c = g \/ rank[g] < rank[c])
    BY <1>5, <1>6
  <2>3. \A c \in D : c \in Gen /\ rank[g] <= rank[c] /\ rank[c] \in Nat /\ rank[g] \in Nat
    BY <1>4, <2>2
  <2>4. ASSUME NEW i \in 1..Len(cs)
        PROVE  /\ cs[i].in \in Gen /\ cs[i].it \in Gen
               /\ rank[cs[i].in] \in Nat /\ rank[cs[i].it] \in Nat
    BY <1>4
  <2>5. QED
    BY <2>1, <2>3, <2>4
<1>11. CallShape(hs, cs)
  <2>1. \A c \in Gen : c \notin D => Calm(gs, hs, c)
    BY <1>9 DEF Calm, Alike
  <2>2. \A i \in 1..Len(cs) : Calm(gs, hs, cs[i].in) /\ Calm(gs, hs, cs[i].it)
    BY <1>10, <2>1
  <2>3. \A c \in Gen : hs[c].at = "run" => gs[c].at = "run"
    OBVIOUS
  <2>4. QED
    BY <1>1, <2>2, <2>3, CallsStay
<1>12. RankedBy(hs, cs, n, rank)
  <2>1. ASSUME NEW c \in Gen, hs[c].at # "none"
        PROVE  rank[hs[c].owner] < rank[c]
    <3>1. gs[c].at # "none" /\ hs[c].owner = gs[c].owner
      BY <1>6, <2>1 DEF Alike
    <3>2. QED
      BY <1>4, <3>1
  <2>2. ASSUME NEW c \in Gen, Active(hs, c)
        PROVE  rank[Base(hs, c)] <= rank[c]
    BY <1>4, <1>9, <2>2
  <2>3. QED
    BY <1>3, <2>1, <2>2 DEF RankedBy
<1>13. QED
  BY <1>9, <1>11, <1>12 DEF Frames, Ranked

\* What goes with the body of h: the frames it has made that are still there.
InScope(gs, h, D) ==
    \E T : /\ IsTree(gs, h, T)
           /\ \A c : c \in D <=> c \in T /\ c # h /\ Up(gs, c)

LEMMA ScopeFacts ==
  ASSUME NEW gs, Shape(gs), NEW h \in Gen, Up(gs, h), NEW D, InScope(gs, h, D),
         NEW rank, Numbered(gs, rank)
  PROVE  /\ D \in SUBSET Gen /\ h \notin D
         /\ \A c \in D : Up(gs, c) /\ rank[h] < rank[c] /\ (gs[c].owner = h \/ gs[c].owner \in D)
         /\ \A c \in Gen : Up(gs, c) /\ (gs[c].owner \in D \/ gs[c].owner = h) => c \in D
<1>1. PICK T : IsTree(gs, h, T) /\ \A c : c \in D <=> c \in T /\ c # h /\ Up(gs, c)
  BY DEF InScope
<1>2. /\ T \in SUBSET Gen /\ h \in T
      /\ \A d \in Gen : gs[d].owner \in T => d \in T
      /\ \A c \in T : c # h => gs[c].owner \in T /\ rank[h] < rank[c]
  BY <1>1, TreeFacts
<1>3. /\ rank \in [Gen \cup {User} -> Nat]
      /\ \A g \in Gen : gs[g].at # "none" => rank[gs[g].owner] < rank[g]
  BY DEF Numbered
<1>4. D \in SUBSET Gen /\ h \notin D
  BY <1>1, <1>2
<1>5. ASSUME NEW c \in D
      PROVE  Up(gs, c) /\ rank[h] < rank[c] /\ (gs[c].owner = h \/ gs[c].owner \in D)
  <2>1. c \in T /\ c # h /\ Up(gs, c) /\ gs[c].owner \in T /\ rank[h] < rank[c] /\ c \in Gen
    BY <1>1, <1>2
  <2>2. gs[c].owner = User \/ Up(gs, gs[c].owner)
    BY <2>1 DEF Shape, MadeShape
  <2>3. QED
    BY <1>1, <1>2, <2>1, <2>2, GenAssumption
<1>6. ASSUME NEW c \in Gen, Up(gs, c), gs[c].owner \in D \/ gs[c].owner = h
      PROVE  c \in D
  <2>1. c \in T
    BY <1>1, <1>2, <1>6
  <2>2. c # h
    <3>1. rank[gs[c].owner] < rank[c] /\ gs[c].owner \in Gen
      BY <1>3, <1>4, <1>6 DEF Up
    <3>2. gs[c].owner = h \/ rank[h] < rank[gs[c].owner]
      BY <1>5, <1>6
    <3>3. rank[c] \in Nat /\ rank[gs[c].owner] \in Nat /\ rank[h] \in Nat
      BY <1>3, <3>1
    <3>4. rank[h] < rank[c]
      BY <3>1, <3>2, <3>3
    <3>5. QED
      BY <3>3, <3>4
  <2>3. QED
    BY <1>1, <1>6, <2>1, <2>2
<1>7. QED
  BY <1>4, <1>5, <1>6

\* The frames D are destroyed.
Dropped(ks, hs, D) ==
    /\ hs \in [Gen -> GenPromise]
    /\ \A c \in Gen : Alike(ks, hs, c) /\ hs[c].val = ks[c].val
    /\ \A c \in Gen : hs[c].at = IF c \in D THEN "gone" ELSE ks[c].at

EndedAt(gs, ks, h) ==
    /\ ks \in [Gen -> GenPromise] /\ ks[h].at = "done"
    /\ \A c \in Gen : Alike(gs, ks, c) /\ ks[c].val = gs[c].val
    /\ \A c \in Gen \ {h} : ks[c].at = gs[c].at

\* The body of the generator that a resume() was called for ends.
LEMMA EndFrames ==
  ASSUME NEW gs, NEW ks, NEW hs, NEW cs, NEW h, NEW D, Frames(gs, cs), cs # <<>>, h = Top(cs),
         gs[h].info = None, InScope(gs, h, D), EndedAt(gs, ks, h), Dropped(ks, hs, D)
  PROVE  Frames(hs, Tail(cs))
<1> SUFFICES ASSUME ks \in [Gen -> GenPromise], ks[h].at = "done",
                    \A c \in Gen : Alike(gs, ks, c) /\ ks[c].val = gs[c].val,
                    \A c \in Gen \ {h} : ks[c].at = gs[c].at,
                    hs \in [Gen -> GenPromise],
                    \A c \in Gen : Alike(ks, hs, c) /\ hs[c].val = ks[c].val,
                    \A c \in Gen : hs[c].at = IF c \in D THEN "gone" ELSE ks[c].at
             PROVE  Frames(hs, Tail(cs))
  BY DEF EndedAt, Dropped
<1>1. Shape(gs) /\ CallShape(gs, cs)
  BY DEF Frames
<1>2. PICK n \in Nat : \E rank \in [Gen \cup {User} -> 0..n] : RankedBy(gs, cs, n, rank)
  BY DEF Frames, Ranked
<1>3. PICK rank \in [Gen \cup {User} -> 0..n] : RankedBy(gs, cs, n, rank)
  BY <1>2
<1>4. /\ rank \in [Gen \cup {User} -> Nat] /\ \A x \in Gen \cup {User} : rank[x] \in Nat
      /\ \A c \in Gen : gs[c].at # "none" => rank[gs[c].owner] < rank[c]
      /\ \A c \in Gen : Active(gs, c) => rank[Base(gs, c)] <= rank[c]
      /\ \A i \in 1..Len(cs) : /\ cs[i].in \in Gen /\ cs[i].it \in Gen
                               /\ rank[cs[i].it] <= rank[cs[i].in]
                               /\ gs[cs[i].in].at = "run"
      /\ \A i \in 2..Len(cs) : /\ i \in 1..Len(cs) /\ rank[cs[i].in] < rank[cs[1].it]
                               /\ rank[cs[i].it] < rank[cs[1].it]
      /\ 1 \in 1..Len(cs)
  BY <1>1, <1>3, CallFacts
<1>5. h = cs[1].in /\ h \in Gen /\ gs[h].at = "run" /\ Up(gs, h) /\ rank[cs[1].it] <= rank[h]
  BY <1>4 DEF Top, Up
<1>6. Numbered(gs, rank)
  BY <1>4 DEF Numbered
<1>7. /\ D \in SUBSET Gen /\ h \notin D
      /\ \A c \in D : Up(gs, c) /\ rank[h] < rank[c] /\ (gs[c].owner = h \/ gs[c].owner \in D)
      /\ \A c \in Gen : Up(gs, c) /\ (gs[c].owner \in D \/ gs[c].owner = h) => c \in D
  BY <1>1, <1>5, <1>6, ScopeFacts
<1>8. /\ Shape(ks)
      /\ \A c \in Gen : Active(ks, c) <=> Active(gs, c) /\ c # h
      /\ \A c \in Gen : Base(ks, c) = Base(gs, c)
  BY <1>1, <1>5, FrameEnded
<1>9. /\ \A c \in Gen : ks[c].owner = gs[c].owner /\ ks[c].info = gs[c].info
      /\ \A c \in Gen : ks[c].at = "none" <=> gs[c].at = "none"
      /\ \A c \in Gen : Up(ks, c) <=> Up(gs, c)
      /\ ks[h].at = "done"
  <2>1. \A c \in Gen : ks[c].at = gs[c].at \/ (ks[c].at = "done" /\ gs[c].at = "run")
    BY <1>5
  <2>2. QED
    BY <2>1 DEF Alike, Up
<1>10. Numbered(ks, rank)
  BY <1>6, <1>9 DEF Numbered
<1>11. Removable(ks, D)
  <2>1. \A c \in D : ks[c].at # "none"
    BY <1>7, <1>9 DEF Up
  <2>2. \A c \in Gen : Up(ks, c) /\ ks[c].owner \in D => c \in D
    BY <1>7, <1>9
  <2>3. \A c \in D : ks[c].owner \in D \/ ks[ks[c].owner].at # "nest"
    BY <1>7, <1>9
  <2>4. QED
    BY <1>7, <2>1, <2>2, <2>3 DEF Removable
<1>12. /\ Shape(hs)
       /\ \A c \in Gen : Active(hs, c) <=> Active(ks, c) /\ c \notin D
       /\ \A c \in Gen : Base(hs, c) = Base(ks, c)
  BY <1>8, <1>10, <1>11, FrameRemoved
<1>13. \A c \in Gen : c # h /\ c \notin D => Calm(gs, hs, c)
  BY <1>8, <1>9, <1>12 DEF Calm, Alike
<1>14. \A i \in 2..Len(cs) : /\ cs[i].in # h /\ cs[i].it # h /\ cs[i].in \in Gen /\ cs[i].it \in Gen
                             /\ cs[i].in \notin D /\ cs[i].it \notin D
  <2>1. ASSUME NEW i \in 2..Len(cs)
        PROVE  /\ rank[cs[i].in] < rank[h] /\ rank[cs[i].it] < rank[h]
               /\ cs[i].in \in Gen /\ cs[i].it \in Gen
    <3>1. /\ cs[i].in \in Gen /\ cs[i].it \in Gen
          /\ rank[cs[i].in] < rank[cs[1].it] /\ rank[cs[i].it] < rank[cs[1].it]
          /\ cs[1].it \in Gen
      BY <1>4
    <3>2. /\ rank[cs[i].in] \in Nat /\ rank[cs[i].it] \in Nat /\ rank[cs[1].it] \in Nat
          /\ rank[h] \in Nat
      BY <1>4, <1>5, <3>1
    <3>3. QED
      BY <1>5, <3>1, <3>2
  <2>2. \A c \in Gen : c = h \/ c \in D => rank[h] <= rank[c] /\ rank[c] \in Nat /\ rank[h] \in Nat
    BY <1>4, <1>5, <1>7
  <2>3. QED
    BY <1>4, <1>5, <2>1, <2>2
<1>15. CallShape(hs, Tail(cs))
  <2>1. \A i \in 2..Len(cs) : Calm(gs, hs, cs[i].in) /\ Calm(gs, hs, cs[i].it)
    BY <1>13, <1>14
  <2>2. \A c \in Gen : hs[c].at = "run" => gs[c].at = "run" /\ c # cs[1].in
    BY <1>5
  <2>3. QED
    BY <1>1, <2>1, <2>2, CallsPopped
<1>16. RankedBy(hs, Tail(cs), n, rank)
  <2>1. ASSUME NEW c \in Gen, hs[c].at # "none"
        PROVE  rank[hs[c].owner] < rank[c]
    <3>1. gs[c].at # "none" /\ hs[c].owner = gs[c].owner
      BY <1>7, <1>9, <2>1 DEF Alike, Up
    <3>2. QED
      BY <1>4, <3>1
  <2>2. ASSUME NEW c \in Gen, Active(hs, c)
        PROVE  rank[Base(hs, c)] <= rank[c]
    BY <1>4, <1>8, <1>12, <2>2
  <2>3. QED
    BY <1>1, <1>3, <2>1, <2>2, RankedPopped
<1>17. QED
  BY <1>12, <1>15, <1>16 DEF Frames, Ranked

\* The body of a generator that p splices in ends.
LEMMA ReturnFrames ==
  ASSUME NEW gs, NEW ks, NEW hs, NEW cs, NEW h, NEW p, NEW r, NEW D, Frames(gs, cs), cs # <<>>,
         h = Top(cs), InScope(gs, h, D), Returned(gs, ks, h, p, r), Dropped(ks, hs, D \cup {h})
  PROVE  Frames(hs, <<[cs[1] EXCEPT !.in = p]>> \o Tail(cs))
<1> SUFFICES ASSUME hs \in [Gen -> GenPromise],
                    \A c \in Gen : Alike(ks, hs, c) /\ hs[c].val = ks[c].val,
                    \A c \in Gen : hs[c].at = IF c \in D \cup {h} THEN "gone" ELSE ks[c].at
             PROVE  Frames(hs, <<[cs[1] EXCEPT !.in = p]>> \o Tail(cs))
  BY DEF Dropped
<1> DEFINE x == [cs[1] EXCEPT !.in = p]
           ds == <<x>> \o Tail(cs)
           E == D \cup {h}
<1>1. Shape(gs) /\ CallShape(gs, cs)
  BY DEF Frames
<1>2. /\ h \in Gen /\ p \in Gen /\ gs[h].at = "run" /\ gs[h].info = p
      /\ r = Base(gs, h) /\ gs[r].info = None /\ ks \in [Gen -> GenPromise]
      /\ \A c \in Gen : ks[c].owner = gs[c].owner /\ ks[c].val = gs[c].val
      /\ \A c \in Gen : ks[c].at = IF c = h THEN "done" ELSE IF c = p THEN "run" ELSE gs[c].at
      /\ \A c \in Gen : ks[c].root = gs[c].root
      /\ \A c \in Gen : ks[c].info = IF c = h THEN None ELSE gs[c].info
      /\ \A c \in Gen : ks[c].top = IF c = r THEN p ELSE gs[c].top
  BY DEF Returned
<1>3. p \in Gen /\ h \in Gen /\ r = Base(gs, h) /\ \A c \in Gen : ks[c].owner = gs[c].owner
  BY <1>2
<1>4. PICK n \in Nat : \E rank \in [Gen \cup {User} -> 0..n] : RankedBy(gs, cs, n, rank)
  BY DEF Frames, Ranked
<1>5. PICK rank \in [Gen \cup {User} -> 0..n] : RankedBy(gs, cs, n, rank)
  BY <1>4
<1>6. /\ rank \in [Gen \cup {User} -> Nat] /\ \A x1 \in Gen \cup {User} : rank[x1] \in Nat
      /\ \A c \in Gen : gs[c].at # "none" => rank[gs[c].owner] < rank[c]
      /\ \A c \in Gen : Active(gs, c) => rank[Base(gs, c)] <= rank[c]
      /\ \A i \in 1..Len(cs) : /\ cs[i].in \in Gen /\ cs[i].it \in Gen
                               /\ rank[cs[i].it] <= rank[cs[i].in]
                               /\ Active(gs, cs[i].in) /\ Active(gs, cs[i].it)
                               /\ gs[cs[i].in].at = "run"
      /\ \A i \in 2..Len(cs) : /\ i \in 1..Len(cs) /\ rank[cs[i].in] < rank[cs[1].it]
                               /\ rank[cs[i].it] < rank[cs[1].it]
      /\ 1 \in 1..Len(cs)
  BY <1>1, <1>5, CallFacts
<1>7. h = cs[1].in /\ h \in Gen /\ gs[h].at = "run" /\ Up(gs, h) /\ rank[cs[1].it] <= rank[h]
  BY <1>6 DEF Top, Up
<1>8. Numbered(gs, rank)
  BY <1>6 DEF Numbered
<1>9. /\ D \in SUBSET Gen /\ h \notin D
      /\ \A c \in D : Up(gs, c) /\ rank[h] < rank[c] /\ (gs[c].owner = h \/ gs[c].owner \in D)
      /\ \A c \in Gen : Up(gs, c) /\ (gs[c].owner \in D \/ gs[c].owner = h) => c \in D
  BY <1>1, <1>7, <1>8, ScopeFacts
<1>10. /\ Base(gs, cs[1].in) = cs[1].it /\ gs[cs[1].it].info = None /\ Active(gs, cs[1].it)
  BY <1>1, <1>6 DEF CallShape
<1>11. r = cs[1].it /\ r \in Gen /\ gs[r].info = None /\ Active(gs, r)
  BY <1>6, <1>7, <1>10, <1>2
<1>12. /\ Shape(ks) /\ p = gs[h].owner /\ p # h /\ gs[p].at = "nest" /\ r # h
       /\ \A c \in Gen : Active(ks, c) <=> Active(gs, c) /\ c # h
       /\ \A c \in Gen \ {h} : Active(gs, c) => Base(ks, c) = Base(gs, c)
       /\ Base(gs, p) = r
  BY <1>1, FrameReturned
<1>13. /\ \A c \in Gen : ks[c].at = "none" <=> gs[c].at = "none"
       /\ \A c \in Gen : Up(ks, c) <=> Up(gs, c)
       /\ ks[p].at = "run" /\ ks[h].at = "done"
  <2>1. \A c \in Gen : \/ ks[c].at = gs[c].at \/ (ks[c].at = "done" /\ gs[c].at = "run")
                       \/ (ks[c].at = "run" /\ gs[c].at = "nest")
    BY <1>7, <1>12, <1>2
  <2>2. QED
    BY <1>7, <1>12, <1>2, <2>1 DEF Up
<1>14. Numbered(ks, rank)
  BY <1>8, <1>13, <1>2 DEF Numbered
<1>15. E \in SUBSET Gen /\ \A c : c \in E <=> c \in D \/ c = h
  BY <1>7, <1>9
<1> HIDE DEF E
<1>16. Removable(ks, E)
  <2>1. \A c \in E : ks[c].at # "none"
    BY <1>9, <1>13, <1>15 DEF Up
  <2>2. \A c \in Gen : Up(ks, c) /\ ks[c].owner \in E => c \in E
    BY <1>9, <1>13, <1>15, <1>3
  <2>3. \A c \in E : ks[c].owner \in E \/ ks[ks[c].owner].at # "nest"
    BY <1>7, <1>9, <1>12, <1>13, <1>15, <1>2
  <2>4. QED
    BY <1>15, <2>1, <2>2, <2>3 DEF Removable
<1>17. \A c \in Gen : hs[c].at = IF c \in E THEN "gone" ELSE ks[c].at
  BY DEF E
<1>18. /\ Shape(hs)
       /\ \A c \in Gen : Active(hs, c) <=> Active(ks, c) /\ c \notin E
       /\ \A c \in Gen : Base(hs, c) = Base(ks, c)
  <2>1. /\ hs \in [Gen -> GenPromise]
        /\ \A c \in Gen : Alike(ks, hs, c) /\ hs[c].val = ks[c].val
    OBVIOUS
  <2>2. QED
    BY <1>12, <1>14, <1>16, <1>17, <2>1, FrameRemoved
<1>19. \A c \in E : c \in Gen /\ rank[h] <= rank[c] /\ rank[c] \in Nat /\ rank[h] \in Nat
  BY <1>6, <1>7, <1>9, <1>15
<1>20. \A c \in Gen : c \notin E /\ c # p /\ Active(gs, c) => Calm(gs, hs, c)
  <2>1. ASSUME NEW c \in Gen, c \notin E, c # p, Active(gs, c)
        PROVE  Calm(gs, hs, c)
    <3>1. c # h /\ Base(ks, c) = Base(gs, c) /\ Active(ks, c)
      BY <1>12, <1>15, <2>1
    <3>2. hs[c].owner = gs[c].owner /\ hs[c].info = gs[c].info /\ hs[c].at = gs[c].at
      BY <1>17, <1>2, <2>1, <3>1 DEF Alike
    <3>3. QED
      BY <1>18, <2>1, <3>1, <3>2 DEF Calm
  <2>2. QED
    BY <2>1
<1>21. \A i \in 2..Len(cs) : /\ cs[i].in # p /\ cs[i].it # p /\ cs[i].in \in Gen /\ cs[i].it \in Gen
                             /\ cs[i].in \notin E /\ cs[i].it \notin E
                             /\ Active(gs, cs[i].in) /\ Active(gs, cs[i].it)
  <2>1. ASSUME NEW i \in 2..Len(cs)
        PROVE  /\ rank[cs[i].in] < rank[r] /\ rank[cs[i].it] < rank[r]
               /\ cs[i].in \in Gen /\ cs[i].it \in Gen
               /\ Active(gs, cs[i].in) /\ Active(gs, cs[i].it)
    BY <1>6, <1>11
  <2>2. rank[r] <= rank[p] /\ rank[r] <= rank[h]
    BY <1>6, <1>7, <1>11, <1>12, <1>3 DEF Active
  <2>3. /\ \A c \in Gen : c = p \/ c \in E => rank[r] <= rank[c]
        /\ \A c \in Gen : rank[c] \in Nat
    BY <1>6, <1>7, <1>11, <1>19, <2>2
  <2>4. \A c \in Gen : rank[c] < rank[r] => c # p /\ c \notin E
    BY <1>11, <2>3
  <2>5. QED
    BY <2>1, <2>4
<1>22. p \notin E /\ r \notin E /\ rank[p] < rank[h]
  <2>1. rank[p] < rank[h] /\ rank[p] \in Nat /\ rank[h] \in Nat /\ rank[r] \in Nat
    BY <1>6, <1>7, <1>11, <1>12, <1>3
  <2>2. rank[r] <= rank[p]
    BY <1>6, <1>11, <1>12, <1>3 DEF Active
  <2>3. QED
    BY <1>19, <2>1, <2>2
<1>23. cs[1] \in ResumeCall
  BY <1>1, <1>6, ElementOfSeq DEF CallShape, ResumeCall
<1>24. x \in ResumeCall /\ x.it = cs[1].it /\ x.in = p
  BY <1>23, <1>3 DEF ResumeCall
<1> HIDE DEF x
<1>25. /\ CallShape(hs, ds) /\ Len(ds) = Len(cs)
       /\ \A i \in 1..Len(cs) : ds[i].it = cs[i].it
       /\ \A i \in 2..Len(cs) : ds[i].in = cs[i].in
  <2>1. CallShape(gs, cs) /\ x \in ResumeCall /\ x.it = cs[1].it /\ x.in = p /\ p \in Gen
    BY <1>1, <1>24, <1>3
  <2>2. Switched(gs, hs, cs, p)
    <3>1. \A i \in 2..Len(cs) : Calm(gs, hs, cs[i].in) /\ Calm(gs, hs, cs[i].it)
      BY <1>20, <1>21
    <3>2. hs[p].at = "run" /\ Base(hs, p) = cs[1].it
      BY <1>11, <1>12, <1>13, <1>17, <1>18, <1>22, <1>3 DEF Active
    <3>3. Active(hs, r) /\ hs[r].info = None /\ hs[r].owner = gs[r].owner
      BY <1>11, <1>12, <1>18, <1>22, <1>2 DEF Alike
    <3>4. \A c \in Gen : hs[c].at = "run" => (gs[c].at = "run" /\ c # cs[1].in) \/ c = p
      BY <1>7, <1>15, <1>17, <1>2
    <3>5. QED
      BY <1>11, <3>1, <3>2, <3>3, <3>4 DEF Switched
  <2>3. QED
    BY <2>1, <2>2, CallsSwitched
<1> HIDE DEF ds
<1>26. RankedBy(hs, ds, n, rank)
  <2>1. ASSUME NEW c \in Gen, hs[c].at # "none"
        PROVE  rank[hs[c].owner] < rank[c]
    <3>1. gs[c].at # "none" /\ hs[c].owner = gs[c].owner
      BY <1>7, <1>9, <1>13, <1>15, <1>17, <1>2, <2>1 DEF Alike, Up
    <3>2. QED
      BY <1>6, <3>1
  <2>2. ASSUME NEW c \in Gen, Active(hs, c)
        PROVE  rank[Base(hs, c)] <= rank[c]
    BY <1>6, <1>12, <1>15, <1>18, <2>2
  <2>3. /\ \A c \in Gen : hs[c].at # "none" => rank[hs[c].owner] < rank[c]
        /\ \A c \in Gen : Active(hs, c) => rank[Base(hs, c)] <= rank[c]
    BY <2>1, <2>2
  <2>4. CallShape(gs, cs) /\ RankedBy(gs, cs, n, rank) /\ Len(ds) = Len(cs)
    BY <1>1, <1>5, <1>25
  <2>5. /\ \A i \in 1..Len(cs) : ds[i].it = cs[i].it
        /\ \A i \in 2..Len(cs) : ds[i].in = cs[i].in
    BY <1>25
  <2>6. QED
    BY <2>3, <2>4, <2>5, RankedSwitched
<1>27. QED
  BY <1>18, <1>25, <1>26 DEF Frames, Ranked, ds, x

-----------------------------------------------------------------------------
(* The logs.                                                                *)

ThrewIn(lg, g) == \E i \in 1..Len(lg[g]) : lg[g][i] = [by |-> g, n |-> 0]

\* What the i-th entry of the log of g says of the frames.
EntrySound(gs, lg, g, i) ==
    /\ lg[g][i].n # 0 => lg[g][i].by = g
    /\ lg[g][i].n = 0 /\ lg[g][i].by # g =>
          /\ gs[lg[g][i].by].owner = g
          /\ Up(gs, lg[g][i].by) => gs[lg[g][i].by].info = g
          /\ \A j \in 1..Len(lg[g]) : lg[g][j] = lg[g][i] => j = i

LogShape(gs, lg, sn) ==
    /\ lg \in [Gen -> Seq(Entry)] /\ sn \in [Gen -> Seq(Entry)]
    /\ \A g \in Gen : gs[g].at \in {"none", "initial"} => lg[g] = <<>> /\ sn[g] = <<>>
    /\ \A g \in Gen : ThrewIn(lg, g) => gs[g].at \in {"done", "gone"}
    /\ \A g \in Gen : Up(gs, g) /\ gs[g].info # None =>
          /\ Len(lg[gs[g].info]) >= 1
          /\ lg[gs[g].info][Len(lg[gs[g].info])] = [by |-> g, n |-> 0]
    /\ \A g \in Gen : \A i \in 1..Len(lg[g]) : EntrySound(gs, lg, g, i)

\* What the frames hs are to the frames gs before them, as far as the logs are
\* concerned, but for the splicing of another generator.
Older(gs, hs) ==
    \A c \in Gen :
        /\ hs[c].at \in {"none", "initial"} => gs[c].at \in {"none", "initial"}
        /\ gs[c].at \in {"done", "gone"} => hs[c].at \in {"done", "gone"}
        /\ gs[c].at = "none" => ~Up(hs, c) \/ hs[c].info = None
        /\ gs[c].at # "none" => /\ hs[c].owner = gs[c].owner
                                /\ Up(hs, c) => Up(gs, c) /\ hs[c].info = gs[c].info

LEMMA LogKept ==
  ASSUME NEW gs, NEW hs, NEW lg, NEW sn, Shape(gs), LogShape(gs, lg, sn), Older(gs, hs)
  PROVE  LogShape(hs, lg, sn)
<1>1. /\ lg \in [Gen -> Seq(Entry)] /\ sn \in [Gen -> Seq(Entry)]
      /\ \A g \in Gen : gs[g].at \in {"none", "initial"} => lg[g] = <<>> /\ sn[g] = <<>>
      /\ \A g \in Gen : ThrewIn(lg, g) => gs[g].at \in {"done", "gone"}
  BY DEF LogShape
<1>2. /\ \A g \in Gen : hs[g].at \in {"none", "initial"} => lg[g] = <<>> /\ sn[g] = <<>>
      /\ \A g \in Gen : ThrewIn(lg, g) => hs[g].at \in {"done", "gone"}
  BY <1>1 DEF Older
<1>3. ASSUME NEW g \in Gen, Up(hs, g), hs[g].info # None
      PROVE  /\ Len(lg[hs[g].info]) >= 1
             /\ lg[hs[g].info][Len(lg[hs[g].info])] = [by |-> g, n |-> 0]
  <2>1. Up(gs, g) /\ hs[g].info = gs[g].info
    BY <1>3 DEF Older
  <2>2. QED
    BY <1>3, <2>1 DEF LogShape
<1>4. ASSUME NEW g \in Gen, NEW i \in 1..Len(lg[g])
      PROVE  EntrySound(hs, lg, g, i)
  <2>1. EntrySound(gs, lg, g, i)
    BY DEF LogShape
  <2>2. CASE lg[g][i].n = 0 /\ lg[g][i].by # g
    <3> DEFINE b == lg[g][i].by
    <3>1. b \in Gen
      <4>1. lg[g] \in Seq(Entry)
        BY <1>1
      <4>2. lg[g][i] \in Entry
        BY <4>1, ElementOfSeq
      <4>3. QED
        BY <4>2 DEF Entry
    <3>2. gs[b].owner = g /\ (Up(gs, b) => gs[b].info = g)
      BY <2>1, <2>2 DEF EntrySound
    <3> HIDE DEF b
    <3>3. gs[b].at # "none"
      BY <3>1, <3>2, GenAssumption DEF Shape, MadeShape
    <3>4. hs[b].owner = g /\ (Up(hs, b) => hs[b].info = g)
      BY <3>1, <3>2, <3>3 DEF Older
    <3>5. QED
      BY <2>1, <2>2, <3>4 DEF EntrySound, b
  <2>3. CASE ~(lg[g][i].n = 0 /\ lg[g][i].by # g)
    BY <2>1, <2>3 DEF EntrySound
  <2>4. QED
    BY <2>2, <2>3
<1>5. QED
  BY <1>1, <1>2, <1>3, <1>4 DEF LogShape

LEMMA LastAdded ==
  ASSUME NEW T, NEW s \in Seq(T), NEW x \in T
  PROVE  /\ Append(s, x) \in Seq(T) /\ Len(Append(s, x)) = Len(s) + 1 /\ Len(s) \in Nat
         /\ \A i \in 1..Len(s) : Append(s, x)[i] = s[i] /\ i \in 1..Len(s) + 1 /\ i # Len(s) + 1
         /\ Append(s, x)[Len(s) + 1] = x
         /\ \A i \in 1..Len(s) + 1 : i \in 1..Len(s) \/ i = Len(s) + 1
<1>1. Len(s) \in Nat
  BY LenProperties
<1>2. /\ Append(s, x) \in Seq(T) /\ Len(Append(s, x)) = Len(s) + 1
      /\ \A i \in 1..Len(s) : Append(s, x)[i] = s[i]
      /\ Append(s, x)[Len(s) + 1] = x
  BY AppendProperties
<1>3. /\ \A i \in 1..Len(s) : i \in 1..Len(s) + 1 /\ i # Len(s) + 1
      /\ \A i \in 1..Len(s) + 1 : i \in 1..Len(s) \/ i = Len(s) + 1
  BY <1>1
<1>4. QED
  BY <1>1, <1>2, <1>3

\* The same when h, which runs, adds the entry e to its log.
Grown(gs, hs, h, e) ==
    /\ h \in Gen /\ gs[h].at = "run" /\ e \in Entry
    /\ e.n # 0 => e.by = h
    /\ e.n = 0 /\ e.by = h => hs[h].at \in {"done", "gone"}
    /\ e.n = 0 /\ e.by # h => /\ gs[e.by].at = "initial" /\ hs[e.by].owner = h
                              /\ hs[e.by].info = h
    /\ \A c \in Gen :
         /\ hs[c].at \in {"none", "initial"} => gs[c].at \in {"none", "initial"}
         /\ gs[c].at \in {"done", "gone"} => hs[c].at \in {"done", "gone"}
         /\ Up(hs, c) /\ hs[c].info # None => \/ Up(gs, c) /\ hs[c].info = gs[c].info
                                              \/ e = [by |-> c, n |-> 0] /\ hs[c].info = h
         /\ gs[c].at # "none" =>
               /\ hs[c].owner = gs[c].owner
               /\ Up(hs, c) => Up(gs, c) /\ (hs[c].info = gs[c].info \/ gs[c].info = None)

LEMMA LogGrown ==
  ASSUME NEW gs, NEW hs, NEW h, NEW e, NEW lg, NEW sn, NEW lh, NEW sh,
         Shape(gs), LogShape(gs, lg, sn), Grown(gs, hs, h, e),
         lh \in [Gen -> Seq(Entry)], sh \in [Gen -> Seq(Entry)],
         lh[h] = Append(lg[h], e), \A c \in Gen \ {h} : lh[c] = lg[c],
         \A c \in Gen : hs[c].at \in {"none", "initial"} => sh[c] = sn[c]
  PROVE  LogShape(hs, lh, sh)
<1>1. /\ lg \in [Gen -> Seq(Entry)] /\ sn \in [Gen -> Seq(Entry)]
      /\ \A g \in Gen : gs[g].at \in {"none", "initial"} => lg[g] = <<>> /\ sn[g] = <<>>
      /\ \A g \in Gen : ThrewIn(lg, g) => gs[g].at \in {"done", "gone"}
      /\ \A g \in Gen : Up(gs, g) /\ gs[g].info # None =>
            /\ Len(lg[gs[g].info]) >= 1
            /\ lg[gs[g].info][Len(lg[gs[g].info])] = [by |-> g, n |-> 0]
      /\ \A g \in Gen : \A i \in 1..Len(lg[g]) : EntrySound(gs, lg, g, i)
  BY DEF LogShape
<1>2. h \in Gen /\ gs[h].at = "run" /\ e \in Entry /\ e.by \in Gen
  BY DEF Grown, Entry
<1>3. \A c \in Gen : /\ hs[c].at \in {"none", "initial"} => gs[c].at \in {"none", "initial"}
                     /\ gs[c].at \in {"done", "gone"} => hs[c].at \in {"done", "gone"}
                     /\ gs[c].at # "none" =>
                          /\ hs[c].owner = gs[c].owner
                          /\ Up(hs, c) => Up(gs, c) /\ (hs[c].info = gs[c].info \/ gs[c].info = None)
  BY DEF Grown
<1> DEFINE m == Len(lg[h])
<1>4. /\ m \in Nat /\ Len(lh[h]) = m + 1 /\ lh[h][m + 1] = e
      /\ \A i \in 1..m : lh[h][i] = lg[h][i] /\ i \in 1..m + 1 /\ i # m + 1
      /\ \A i \in 1..m + 1 : i \in 1..m \/ i = m + 1
  <2>1. lg[h] \in Seq(Entry)
    BY <1>1, <1>2
  <2>2. QED
    BY <1>2, <2>1, LastAdded
<1> HIDE DEF m
<1>5. \A c \in Gen : c # h => lh[c] = lg[c]
  OBVIOUS
<1>6. ASSUME NEW g \in Gen, hs[g].at \in {"none", "initial"}
      PROVE  lh[g] = <<>> /\ sh[g] = <<>>
  <2>1. gs[g].at \in {"none", "initial"} /\ sh[g] = sn[g]
    BY <1>3, <1>6
  <2>2. g # h
    BY <1>2, <2>1
  <2>3. QED
    BY <1>1, <1>5, <2>1, <2>2
<1>7. ASSUME NEW g \in Gen, ThrewIn(lh, g)
      PROVE  hs[g].at \in {"done", "gone"}
  <2>1. CASE g # h
    <3>1. ThrewIn(lg, g)
      BY <1>5, <1>7, <2>1 DEF ThrewIn
    <3>2. QED
      BY <1>1, <1>3, <3>1
  <2>2. CASE g = h
    <3>1. PICK i \in 1..m + 1 : lh[h][i] = [by |-> h, n |-> 0]
      BY <1>4, <1>7, <2>2 DEF ThrewIn
    <3>2. i \notin 1..m
      BY <1>1, <1>2, <1>4, <3>1 DEF ThrewIn, m
    <3>3. e = [by |-> h, n |-> 0]
      BY <1>4, <3>1, <3>2
    <3>4. e.by = h /\ e.n = 0
      BY <3>3
    <3>5. QED
      BY <2>2, <3>4 DEF Grown
  <2>3. QED
    BY <2>1, <2>2
<1>8. ASSUME NEW g \in Gen, Up(hs, g), hs[g].info # None
      PROVE  /\ Len(lh[hs[g].info]) >= 1
             /\ lh[hs[g].info][Len(lh[hs[g].info])] = [by |-> g, n |-> 0]
  <2>1. \/ Up(gs, g) /\ hs[g].info = gs[g].info
        \/ e = [by |-> g, n |-> 0] /\ hs[g].info = h
    BY <1>8 DEF Grown
  <2>2. CASE Up(gs, g) /\ hs[g].info = gs[g].info
    <3>1. gs[g].info \in Gen /\ gs[gs[g].info].at = "nest"
      BY <1>8, <2>2 DEF Shape, SpliceShape, GenPromise
    <3>2. lh[gs[g].info] = lg[gs[g].info]
      BY <1>2, <1>5, <3>1
    <3>3. QED
      BY <1>1, <1>8, <2>2, <3>2
  <2>3. CASE e = [by |-> g, n |-> 0] /\ hs[g].info = h
    BY <1>4, <2>3
  <2>4. QED
    BY <2>1, <2>2, <2>3
<1>9. ASSUME NEW g \in Gen, NEW i \in 1..Len(lg[g])
      PROVE  LET b == lg[g][i].by IN
             lg[g][i].n = 0 /\ b # g => /\ hs[b].owner = g
                                        /\ Up(hs, b) => hs[b].info = g
  <2> DEFINE b == lg[g][i].by
  <2>1. SUFFICES ASSUME lg[g][i].n = 0, b # g
                 PROVE  hs[b].owner = g /\ (Up(hs, b) => hs[b].info = g)
    OBVIOUS
  <2>2. b \in Gen
    <3>1. lg[g] \in Seq(Entry)
      BY <1>1
    <3>2. lg[g][i] \in Entry
      BY <3>1, ElementOfSeq
    <3>3. QED
      BY <3>2 DEF Entry
  <2>3. gs[b].owner = g /\ (Up(gs, b) => gs[b].info = g)
    BY <1>1, <2>1 DEF EntrySound
  <2> HIDE DEF b
  <2>4. gs[b].at # "none"
    BY <2>2, <2>3, GenAssumption DEF Shape, MadeShape
  <2>5. QED
    BY <1>3, <2>2, <2>3, <2>4, GenAssumption
<1>10. ASSUME NEW i \in 1..m, e.n = 0, e.by # h
       PROVE  lg[h][i] # e
  <2>1. SUFFICES ASSUME lg[h][i] = e PROVE FALSE
    OBVIOUS
  <2>2. Up(gs, e.by) => gs[e.by].info = h
    BY <1>1, <1>2, <1>10, <2>1 DEF EntrySound, m
  <2>3. gs[e.by].at = "initial" /\ gs[e.by].info = None
    BY <1>2, <1>10 DEF Grown, Shape, SpliceShape
  <2>4. QED
    BY <1>2, <2>2, <2>3, GenAssumption DEF Up
<1>11. ASSUME NEW g \in Gen, NEW i \in 1..Len(lh[g])
       PROVE  EntrySound(hs, lh, g, i)
  <2>1. CASE g # h
    <3>1. lh[g] = lg[g] /\ i \in 1..Len(lg[g])
      BY <1>5, <2>1
    <3>2. EntrySound(gs, lg, g, i)
      BY <1>1, <3>1
    <3>3. QED
      BY <1>9, <3>1, <3>2 DEF EntrySound
  <2>2. CASE g = h /\ i \in 1..m
    <3>1. EntrySound(gs, lg, h, i) /\ lh[h][i] = lg[h][i]
      BY <1>1, <1>2, <1>4, <2>2 DEF m
    <3>2. LET b == lg[h][i].by IN
          lg[h][i].n = 0 /\ b # h => hs[b].owner = h /\ (Up(hs, b) => hs[b].info = h)
      BY <1>2, <1>9, <2>2 DEF m
    <3>3. ASSUME NEW j \in 1..m + 1, lg[h][i].n = 0, lg[h][i].by # h, lh[h][j] = lg[h][i]
          PROVE  j = i
      <4>1. j # m + 1
        BY <1>4, <1>10, <2>2, <3>3
      <4>2. QED
        BY <1>4, <3>1, <3>3, <4>1 DEF EntrySound, m
    <3>4. QED
      BY <1>4, <2>2, <3>1, <3>2, <3>3 DEF EntrySound
  <2>3. CASE g = h /\ i = m + 1
    <3>1. lh[h][i] = e
      BY <1>4, <2>3
    <3>2. e.n # 0 => e.by = h
      BY DEF Grown
    <3>3. e.n = 0 /\ e.by # h => /\ hs[e.by].owner = h
                                 /\ Up(hs, e.by) => hs[e.by].info = h
      BY DEF Grown
    <3>4. ASSUME e.n = 0, e.by # h, NEW j \in 1..m + 1, lh[h][j] = e
          PROVE  j = m + 1
      BY <1>4, <1>10, <3>4
    <3>5. QED
      BY <1>4, <2>3, <3>1, <3>2, <3>3, <3>4 DEF EntrySound
  <2>4. QED
    BY <1>4, <1>11, <2>1, <2>2, <2>3
<1>12. QED
  BY <1>6, <1>7, <1>8, <1>11 DEF LogShape

-----------------------------------------------------------------------------
(* What the logs stand for.                                                 *)

\* F[g][i] is what the first i entries of the log of g stand for.
Piece(F, lg, g, i) ==
    IF lg[g][i].n # 0 THEN <<lg[g][i]>>
    ELSE IF lg[g][i].by = g THEN <<>>
    ELSE F[lg[g][i].by][Len(lg[lg[g][i].by])]

Solves(F, lg) ==
    /\ F \in [Gen -> [Nat -> Seq(Entry)]]
    /\ \A g \in Gen : \A i \in Nat :
         F[g][i] = IF i \notin 1..Len(lg[g]) THEN <<>> ELSE F[g][i - 1] \o Piece(F, lg, g, i)

SplicedIn(lg, g) == \E x \in Gen : x # g /\ In([by |-> g, n |-> 0], lg[x])

Reads(F, lg, sn) ==
    \A g \in Gen : sn[g] = IF SplicedIn(lg, g) THEN <<>> ELSE F[g][Len(lg[g])]

FlatShape(lg, sn) == \E F : Solves(F, lg) /\ Reads(F, lg, sn)

LEMMA EntriesIn ==
  ASSUME NEW lg \in [Gen -> Seq(Entry)], NEW g \in Gen
  PROVE  /\ lg[g] \in Seq(Entry) /\ Len(lg[g]) \in Nat
         /\ \A i \in 1..Len(lg[g]) : lg[g][i] \in Entry /\ lg[g][i].by \in Gen /\ lg[g][i].n \in Nat
<1>1. lg[g] \in Seq(Entry)
  OBVIOUS
<1>2. Len(lg[g]) \in Nat /\ \A i \in 1..Len(lg[g]) : lg[g][i] \in Entry
  BY <1>1, Indices
<1>3. QED
  BY <1>1, <1>2 DEF Entry

\* h adds the entry e to its log.
Appended(lg, lh, h, e) ==
    /\ lg \in [Gen -> Seq(Entry)] /\ lh \in [Gen -> Seq(Entry)] /\ h \in Gen /\ e \in Entry
    /\ lh[h] = Append(lg[h], e) /\ \A c \in Gen : c # h => lh[c] = lg[c]

\* An entry that stands for nothing yet.
LEMMA FlatNoted ==
  ASSUME NEW lg \in [Gen -> Seq(Entry)], NEW sn, FlatShape(lg, sn),
         NEW lh \in [Gen -> Seq(Entry)], NEW h \in Gen, NEW e \in Entry, e.n = 0,
         lh[h] = Append(lg[h], e), \A c \in Gen : c # h => lh[c] = lg[c],
         e.by # h => lg[e.by] = <<>> /\ sn[e.by] = <<>>
  PROVE  FlatShape(lh, sn)
<1>1. PICK F : Solves(F, lg) /\ Reads(F, lg, sn)
  BY DEF FlatShape
<1> DEFINE m == Len(lg[h])
           G == [c \in Gen |-> [i \in Nat |-> IF c = h /\ i = m + 1 THEN F[h][m] ELSE F[c][i]]]
<1>2. /\ F \in [Gen -> [Nat -> Seq(Entry)]]
      /\ \A g \in Gen : \A i \in Nat :
           F[g][i] = IF i \notin 1..Len(lg[g]) THEN <<>> ELSE F[g][i - 1] \o Piece(F, lg, g, i)
  BY <1>1 DEF Solves
<1>3. /\ m \in Nat /\ Len(lh[h]) = m + 1 /\ lh[h][m + 1] = e
      /\ \A i \in 1..m : lh[h][i] = lg[h][i] /\ i \in 1..m + 1 /\ i # m + 1
      /\ \A i \in 1..m + 1 : i \in 1..m \/ i = m + 1
  <2>1. lg[h] \in Seq(Entry)
    OBVIOUS
  <2>2. QED
    BY <2>1, LastAdded
<1>4. F[h][m] \in Seq(Entry) /\ \A c \in Gen : \A i \in Nat : F[c][i] \in Seq(Entry)
  <2> HIDE DEF m
  <2>1. m \in Nat
    BY <1>3
  <2>2. \A c \in Gen : \A i \in Nat : F[c][i] \in Seq(Entry)
    BY <1>2
  <2>3. QED
    BY <2>1, <2>2
<1>5. G \in [Gen -> [Nat -> Seq(Entry)]]
  BY <1>4
<1>6. \A c \in Gen : \A i \in Nat : G[c][i] = IF c = h /\ i = m + 1 THEN F[h][m] ELSE F[c][i]
  OBVIOUS
<1> HIDE DEF G
<1>7. \A c \in Gen : Len(lg[c]) \in Nat
  BY EntriesIn
<1>8. \A c \in Gen : G[c][Len(lh[c])] = F[c][Len(lg[c])]
  BY <1>3, <1>6, <1>7
<1> HIDE DEF m
<1>9. e.by \in Gen
  BY DEF Entry
<1>10. ASSUME NEW c \in Gen, NEW i \in Nat, i \in 1..Len(lg[c])
       PROVE  Piece(G, lh, c, i) = Piece(F, lg, c, i) /\ G[c][i] = F[c][i] /\ G[c][i - 1] = F[c][i - 1]
  <2>1. lh[c][i] = lg[c][i]
    BY <1>3, <1>10 DEF m
  <2>2. lg[c][i].by \in Gen
    BY <1>10, EntriesIn
  <2>3. Piece(G, lh, c, i) = Piece(F, lg, c, i)
    BY <1>8, <2>1, <2>2 DEF Piece
  <2>4. i - 1 \in Nat /\ (c = h => i # m + 1 /\ i - 1 # m + 1)
    BY <1>3, <1>10 DEF m
  <2>5. QED
    BY <1>6, <2>3, <2>4
<1>11. Piece(G, lh, h, m + 1) = <<>>
  <2>1. CASE e.by = h
    BY <1>3, <2>1 DEF Piece
  <2>2. CASE e.by # h
    <3>1. Piece(G, lh, h, m + 1) = F[e.by][Len(lg[e.by])]
      BY <1>3, <1>8, <1>9, <2>2 DEF Piece
    <3>2. Len(lg[e.by]) = 0
      BY <2>2, EmptySeq
    <3>3. 0 \in Nat /\ 0 \notin 1..0
      OBVIOUS
    <3>4. F[e.by][0] = <<>>
      BY <1>2, <1>9, <3>2, <3>3
    <3>5. QED
      BY <3>1, <3>2, <3>4
  <2>3. QED
    BY <2>1, <2>2
<1>12. ASSUME NEW c \in Gen, NEW i \in Nat
       PROVE  G[c][i] = IF i \notin 1..Len(lh[c]) THEN <<>> ELSE G[c][i - 1] \o Piece(G, lh, c, i)
  <2>1. CASE i \in 1..Len(lg[c])
    <3>1. i \in 1..Len(lh[c])
      BY <1>3, <2>1 DEF m
    <3>2. QED
      BY <1>2, <1>10, <2>1, <3>1
  <2>2. CASE c = h /\ i = m + 1
    <3>1. G[h][m] = F[h][m] /\ G[h][i] = F[h][m] /\ i - 1 = m /\ i \in 1..Len(lh[h])
      BY <1>3, <1>6, <2>2
    <3>2. F[h][m] \o <<>> = F[h][m]
      BY <1>4, ConcatEmptySeq
    <3>3. QED
      BY <1>11, <2>2, <3>1, <3>2
  <2>3. CASE i \notin 1..Len(lg[c]) /\ ~(c = h /\ i = m + 1)
    <3>1. i \notin 1..Len(lh[c])
      BY <1>3, <2>3 DEF m
    <3>2. QED
      BY <1>2, <1>6, <2>3, <3>1
  <2>4. QED
    BY <2>1, <2>2, <2>3
<1>13. Solves(G, lh)
  BY <1>5, <1>12 DEF Solves
<1>14. ASSUME NEW c \in Gen
       PROVE  sn[c] = IF SplicedIn(lh, c) THEN <<>> ELSE G[c][Len(lh[c])]
  <2>1. SplicedIn(lh, c) <=> SplicedIn(lg, c) \/ (c # h /\ e = [by |-> c, n |-> 0])
    <3>1. \A y : In(y, lh[h]) <=> In(y, lg[h]) \/ y = e
      <4>1. 1..Len(lh[h]) = 1..m + 1 /\ m + 1 \in 1..m + 1
        BY <1>3
      <4>2. QED
        BY <1>3, <4>1 DEF In, m
    <3>2. QED
      BY <3>1 DEF SplicedIn
  <2>2. CASE c # h /\ e = [by |-> c, n |-> 0]
    <3>1. e.by = c
      BY <2>2
    <3>2. QED
      BY <2>1, <2>2, <3>1
  <2>3. CASE ~(c # h /\ e = [by |-> c, n |-> 0])
    BY <1>1, <1>8, <2>1, <2>3 DEF Reads
  <2>4. QED
    BY <2>2, <2>3
<1>15. QED
  BY <1>13, <1>14 DEF FlatShape, Reads

\* h adds the value e to its log, and the generators P, in which it is the last thing so
\* far, stand for that much more; so does what has been read through the iterator of it.
Carried(lg, sn, P, it, h, e) ==
    /\ P \in SUBSET Gen /\ it \in P /\ h \in P /\ e \in Entry /\ e.n # 0
    /\ \A c \in Gen : \A i \in 1..Len(lg[c]) :
         lg[c][i].n = 0 /\ lg[c][i].by # c /\ lg[c][i].by \in P => c \in P /\ c # h /\ i = Len(lg[c])
    /\ \A c \in P : c # h =>
         /\ Len(lg[c]) >= 1 /\ lg[c][Len(lg[c])].n = 0
         /\ lg[c][Len(lg[c])].by # c /\ lg[c][Len(lg[c])].by \in P
    /\ ~SplicedIn(lg, it) /\ \A c \in P : c # it => SplicedIn(lg, c)

LEMMA FlatYielded ==
  ASSUME NEW lg, NEW sn, NEW lh, NEW sh, FlatShape(lg, sn),
         NEW P, NEW it, NEW h, NEW e, Carried(lg, sn, P, it, h, e),
         Appended(lg, lh, h, e),
         sh[it] = Append(sn[it], e), \A c \in Gen : c # it => sh[c] = sn[c]
  PROVE  FlatShape(lh, sh)
<1> SUFFICES ASSUME lg \in [Gen -> Seq(Entry)], lh \in [Gen -> Seq(Entry)],
                    lh[h] = Append(lg[h], e), \A c \in Gen : c # h => lh[c] = lg[c]
             PROVE  FlatShape(lh, sh)
  BY DEF Appended
<1>1. PICK F : Solves(F, lg) /\ Reads(F, lg, sn)
  BY DEF FlatShape
<1>2. /\ P \in SUBSET Gen /\ it \in P /\ h \in P /\ e \in Entry /\ e.n # 0
      /\ it \in Gen /\ h \in Gen
  BY DEF Carried
<1>3. \A c \in Gen : \A i \in 1..Len(lg[c]) :
         lg[c][i].n = 0 /\ lg[c][i].by # c /\ lg[c][i].by \in P => c \in P /\ c # h /\ i = Len(lg[c])
  BY DEF Carried
<1>4. \A c \in P : c # h => /\ Len(lg[c]) >= 1 /\ lg[c][Len(lg[c])].n = 0
                            /\ lg[c][Len(lg[c])].by # c /\ lg[c][Len(lg[c])].by \in P
  BY DEF Carried
<1> DEFINE m == Len(lg[h])
           G == [c \in Gen |-> [i \in Nat |-> IF c \in P /\ i = Len(lh[c])
                                              THEN F[c][Len(lg[c])] \o <<e>> ELSE F[c][i]]]
<1>5. /\ F \in [Gen -> [Nat -> Seq(Entry)]]
      /\ \A g \in Gen : \A i \in Nat :
           F[g][i] = IF i \notin 1..Len(lg[g]) THEN <<>> ELSE F[g][i - 1] \o Piece(F, lg, g, i)
  BY <1>1 DEF Solves
<1>6. /\ m \in Nat /\ Len(lh[h]) = m + 1 /\ lh[h][m + 1] = e
      /\ \A i \in 1..m : lh[h][i] = lg[h][i] /\ i \in 1..m + 1 /\ i # m + 1
      /\ \A i \in 1..m + 1 : i \in 1..m \/ i = m + 1
  <2>1. lg[h] \in Seq(Entry)
    BY <1>2
  <2>2. QED
    BY <1>2, <2>1, LastAdded
<1>7. \A c \in Gen : Len(lg[c]) \in Nat /\ Len(lh[c]) \in Nat
  BY EntriesIn
<1>8. <<e>> \in Seq(Entry) /\ \A c \in Gen : \A i \in Nat : F[c][i] \in Seq(Entry)
  BY <1>2, <1>5
<1>9. \A c \in Gen : F[c][Len(lg[c])] \o <<e>> \in Seq(Entry)
  BY <1>7, <1>8, Joined
<1>10. G \in [Gen -> [Nat -> Seq(Entry)]]
  BY <1>8, <1>9
<1>11. \A c \in Gen : \A i \in Nat :
          G[c][i] = IF c \in P /\ i = Len(lh[c]) THEN F[c][Len(lg[c])] \o <<e>> ELSE F[c][i]
  OBVIOUS
<1> HIDE DEF G
<1>12. /\ \A c \in P : G[c][Len(lh[c])] = F[c][Len(lg[c])] \o <<e>>
       /\ \A c \in Gen : c \notin P => G[c][Len(lh[c])] = F[c][Len(lg[c])]
  <2>1. ASSUME NEW c \in P PROVE G[c][Len(lh[c])] = F[c][Len(lg[c])] \o <<e>>
    <3>1. c \in Gen /\ Len(lh[c]) \in Nat
      BY <1>2, <1>7
    <3>2. QED
      BY <1>11, <3>1
  <2>2. ASSUME NEW c \in Gen, c \notin P PROVE G[c][Len(lh[c])] = F[c][Len(lg[c])]
    <3>1. Len(lh[c]) \in Nat /\ c # h /\ lh[c] = lg[c]
      BY <1>2, <1>7, <2>2
    <3>2. QED
      BY <1>11, <2>2, <3>1
  <2>3. QED
    BY <2>1, <2>2
<1> HIDE DEF m
<1>13. ASSUME NEW c \in Gen, NEW i \in Nat, i \in 1..Len(lg[c]), ~(c \in P /\ i = Len(lh[c]))
       PROVE  Piece(G, lh, c, i) = Piece(F, lg, c, i) /\ G[c][i] = F[c][i] /\ G[c][i - 1] = F[c][i - 1]
  <2>1. lh[c][i] = lg[c][i]
    BY <1>6, <1>13 DEF m
  <2>2. lg[c][i].by \in Gen
    BY <1>13, EntriesIn
  <2>3. lg[c][i].n = 0 /\ lg[c][i].by # c => lg[c][i].by \notin P
    BY <1>3, <1>13
  <2>4. Piece(G, lh, c, i) = Piece(F, lg, c, i)
    BY <1>2, <1>12, <2>1, <2>2, <2>3 DEF Piece
  <2>5. i - 1 \in Nat /\ i - 1 # Len(lh[c])
    <3>1. Len(lg[c]) \in Nat /\ Len(lh[c]) >= Len(lg[c])
      <4>1. CASE c = h
        BY <1>6, <4>1 DEF m
      <4>2. CASE c # h
        BY <1>7, <4>2
      <4>3. QED
        BY <4>1, <4>2
    <3>2. QED
      BY <1>7, <1>13, <3>1
  <2>6. QED
    BY <1>11, <1>13, <2>4, <2>5
<1>14. ASSUME NEW c \in P, c # h, NEW i \in Nat, i = Len(lh[c])
       PROVE  i \in 1..Len(lh[c]) /\ G[c][i] = G[c][i - 1] \o Piece(G, lh, c, i)
  <2> DEFINE b == lg[c][i].by
             s == F[c][i - 1]
             t == F[b][Len(lg[b])]
  <2>1. c \in Gen /\ lh[c] = lg[c] /\ i = Len(lg[c]) /\ i \in 1..Len(lg[c]) /\ i - 1 \in Nat /\ i - 1 # i
    BY <1>2, <1>4, <1>14
  <2>2. lg[c][i].n = 0 /\ b # c /\ b \in P /\ b \in Gen
    BY <1>2, <1>4, <1>14, <2>1
  <2>3. Piece(G, lh, c, i) = t \o <<e>>
    BY <1>12, <2>1, <2>2 DEF Piece
  <2>4. F[c][i] = s \o t
    BY <1>5, <2>1, <2>2 DEF Piece
  <2> HIDE DEF s, t, b
  <2>5. G[c][i] = (s \o t) \o <<e>> /\ G[c][i - 1] = s
    <3>1. F[c][Len(lg[c])] = s \o t
      BY <2>1, <2>4
    <3>2. G[c][i] = F[c][Len(lg[c])] \o <<e>>
      BY <1>12, <1>14
    <3>3. G[c][i - 1] = F[c][i - 1]
      BY <1>11, <1>14, <2>1
    <3>4. QED
      BY <3>1, <3>2, <3>3 DEF s
  <2>6. s \in Seq(Entry) /\ t \in Seq(Entry) /\ <<e>> \in Seq(Entry)
    <3>1. Len(lg[b]) \in Nat
      BY <1>7, <2>2
    <3>2. QED
      BY <1>8, <2>1, <2>2, <3>1 DEF s, t
  <2>7. (s \o t) \o <<e>> = s \o (t \o <<e>>)
    BY <2>6, ConcatAssociative
  <2>8. QED
    BY <2>1, <2>3, <2>5, <2>7
<1>15. ASSUME NEW c \in Gen, NEW i \in Nat
       PROVE  G[c][i] = IF i \notin 1..Len(lh[c]) THEN <<>> ELSE G[c][i - 1] \o Piece(G, lh, c, i)
  <2>1. CASE c \in P /\ c # h /\ i = Len(lh[c])
    BY <1>14, <2>1
  <2>2. CASE c = h /\ i = Len(lh[c])
    <3>1. /\ i = m + 1 /\ i - 1 = m /\ i \in 1..Len(lh[h]) /\ G[h][i] = F[h][m] \o <<e>>
          /\ G[h][i - 1] = F[h][m]
      <4>1. i = m + 1 /\ i - 1 = m /\ i \in 1..Len(lh[h]) /\ i - 1 # Len(lh[h]) /\ i - 1 \in Nat
        BY <1>6, <2>2
      <4>2. G[h][i] = F[h][m] \o <<e>>
        BY <1>2, <1>12, <2>2 DEF m
      <4>3. G[h][i - 1] = F[h][i - 1]
        BY <1>2, <1>11, <4>1
      <4>4. QED
        BY <4>1, <4>2, <4>3
    <3>2. Piece(G, lh, h, i) = <<e>>
      BY <1>2, <1>6, <3>1 DEF Piece
    <3>3. QED
      BY <2>2, <3>1, <3>2
  <2>3. CASE i \in 1..Len(lg[c]) /\ ~(c \in P /\ i = Len(lh[c]))
    <3>1. i \in 1..Len(lh[c])
      BY <1>6, <2>3 DEF m
    <3>2. QED
      BY <1>5, <1>13, <2>3, <3>1
  <2>4. CASE i \notin 1..Len(lg[c]) /\ ~(c \in P /\ i = Len(lh[c]))
    <3>1. i \notin 1..Len(lh[c])
      BY <1>2, <1>6, <2>4 DEF m
    <3>2. QED
      BY <1>5, <1>11, <2>4, <3>1
  <2>5. QED
    BY <1>2, <2>1, <2>2, <2>3, <2>4
<1>16. Solves(G, lh)
  BY <1>10, <1>15 DEF Solves
<1>17. ASSUME NEW c \in Gen
       PROVE  sh[c] = IF SplicedIn(lh, c) THEN <<>> ELSE G[c][Len(lh[c])]
  <2>1. SplicedIn(lh, c) <=> SplicedIn(lg, c)
    <3>1. \A y : In(y, lh[h]) <=> In(y, lg[h]) \/ y = e
      <4>1. 1..Len(lh[h]) = 1..m + 1 /\ m + 1 \in 1..m + 1
        BY <1>6
      <4>2. QED
        BY <1>6, <4>1 DEF In, m
    <3>2. e # [by |-> c, n |-> 0]
      BY <1>2
    <3>3. QED
      BY <3>1, <3>2 DEF SplicedIn
  <2>2. sn[c] = IF SplicedIn(lg, c) THEN <<>> ELSE F[c][Len(lg[c])]
    BY <1>1 DEF Reads
  <2>3. CASE c = it
    <3>1. sn[it] = F[it][Len(lg[it])] /\ ~SplicedIn(lh, it)
      BY <2>1, <2>2, <2>3 DEF Carried
    <3>2. Append(sn[it], e) = sn[it] \o <<e>>
      <4>1. Len(lg[it]) \in Nat
        BY <1>2, <1>7
      <4>2. sn[it] \in Seq(Entry)
        BY <1>2, <1>8, <3>1, <4>1
      <4>3. QED
        BY <1>2, <4>2, AppendIsConcat
    <3>3. QED
      BY <1>2, <1>12, <2>3, <3>1, <3>2
  <2>4. CASE c # it /\ c \in P
    BY <2>1, <2>2, <2>4 DEF Carried
  <2>5. CASE c # it /\ c \notin P
    BY <1>12, <2>1, <2>2, <2>5
  <2>6. QED
    BY <2>3, <2>4, <2>5
<1>18. QED
  BY <1>16, <1>17 DEF FlatShape, Reads

-----------------------------------------------------------------------------
(* There is one thing that a log stands for.                               *)

\* U[<<g, i>>] is what the first i entries of the log of g stand for.
Unfolds(U, lg) ==
    \A g \in Gen : \A i \in Nat :
      U[<<g, i>>] = IF i \notin 1..Len(lg[g]) THEN <<>>
                    ELSE U[<<g, i - 1>>] \o
                         (IF lg[g][i].n # 0 THEN <<lg[g][i]>>
                          ELSE IF lg[g][i].by = g THEN <<>>
                          ELSE U[<<lg[g][i].by, Len(lg[lg[g][i].by])>>])

Agree(U, F) == \A g \in Gen : \A i \in Nat : U[<<g, i>>] = F[g][i]

\* There is one thing that a log stands for: a splice names a frame with a larger number.
LEMMA FlatUnique ==
  ASSUME NEW gs, NEW cs, NEW lg, NEW sn, Frames(gs, cs), LogShape(gs, lg, sn),
         NEW F, Solves(F, lg), NEW U, Unfolds(U, lg)
  PROVE  Agree(U, F)
<1>1. Shape(gs) /\ CallShape(gs, cs)
  BY DEF Frames
<1>2. PICK n \in Nat : \E rank \in [Gen \cup {User} -> 0..n] : RankedBy(gs, cs, n, rank)
  BY DEF Frames, Ranked
<1>3. PICK rank \in [Gen \cup {User} -> 0..n] : RankedBy(gs, cs, n, rank)
  BY <1>2
<1>4. Numbered(gs, rank)
  BY <1>1, <1>3, CallFacts DEF Numbered
<1> DEFINE S == {g \in Gen : \E i \in Nat : U[<<g, i>>] # F[g][i]}
           f == [g \in Gen |-> n - rank[g]]
<1>5. SUFFICES ASSUME S # {} PROVE FALSE
  BY DEF Agree
<1>6. f \in [Gen -> Nat] /\ \A g \in Gen : f[g] = n - rank[g]
  OBVIOUS
<1>7. S \in SUBSET Gen
  OBVIOUS
<1>8. \A g \in Gen : g \in S <=> \E i \in Nat : U[<<g, i>>] # F[g][i]
  OBVIOUS
<1> HIDE DEF S, f
<1>9. PICK x \in S : \A y \in S : f[x] <= f[y]
  BY <1>5, <1>6, <1>7, Lowest
<1>10. x \in Gen
  BY <1>7
<1> DEFINE J == {i \in Nat : U[<<x, i>>] # F[x][i]}
<1>11. J \in SUBSET Nat /\ J # {} /\ \A i \in Nat : i \in J <=> U[<<x, i>>] # F[x][i]
  BY <1>8, <1>10
<1> HIDE DEF J
<1>12. PICK i \in J : \A j \in J : i <= j
  BY <1>11, LeastExists
<1>13. i \in Nat /\ U[<<x, i>>] # F[x][i]
  BY <1>11
<1>14. F[x][i] = IF i \notin 1..Len(lg[x]) THEN <<>> ELSE F[x][i - 1] \o Piece(F, lg, x, i)
  BY <1>10, <1>13 DEF Solves
<1>15. lg \in [Gen -> Seq(Entry)] /\ Len(lg[x]) \in Nat
  <2>1. lg \in [Gen -> Seq(Entry)]
    BY DEF LogShape
  <2>2. QED
    BY <1>10, <2>1, EntriesIn
<1>16. i \in 1..Len(lg[x])
  BY <1>10, <1>13, <1>14 DEF Unfolds
<1>17. i - 1 \in Nat /\ U[<<x, i - 1>>] = F[x][i - 1]
  <2>1. i - 1 \in Nat /\ ~(i <= i - 1)
    BY <1>15, <1>16
  <2>2. QED
    BY <1>11, <1>12, <2>1
<1> DEFINE b == lg[x][i].by
<1>18. CASE lg[x][i].n # 0 \/ b = x
  <2>1. U[<<x, i>>] = U[<<x, i - 1>>] \o (IF lg[x][i].n # 0 THEN <<lg[x][i]>> ELSE <<>>)
    BY <1>10, <1>13, <1>16, <1>18 DEF Unfolds
  <2>2. Piece(F, lg, x, i) = IF lg[x][i].n # 0 THEN <<lg[x][i]>> ELSE <<>>
    BY <1>18 DEF Piece
  <2>3. QED
    BY <1>13, <1>14, <1>16, <1>17, <2>1, <2>2
<1>19. CASE lg[x][i].n = 0 /\ b # x
  <2>1. b \in Gen
    BY <1>10, <1>15, <1>16, EntriesIn
  <2>2. gs[b].owner = x
    BY <1>10, <1>16, <1>19 DEF LogShape, EntrySound
  <2>3. EntrySound(gs, lg, x, i)
    BY <1>10, <1>16 DEF LogShape
  <2> HIDE DEF b
  <2>4. gs[b].at # "none"
    BY <1>10, <1>1, <2>1, <2>2, GenAssumption DEF Shape, MadeShape
  <2>5. rank[x] < rank[b]
    BY <1>4, <2>1, <2>2, <2>4 DEF Numbered
  <2>6. ~(f[x] <= f[b])
    BY <1>6, <1>10, <2>1, <2>5
  <2>7. b \notin S
    BY <1>9, <2>6
  <2>8. Len(lg[b]) \in Nat
    BY <1>15, <2>1, EntriesIn
  <2>9. U[<<b, Len(lg[b])>>] = F[b][Len(lg[b])]
    BY <1>8, <2>1, <2>7, <2>8
  <2>10. Piece(F, lg, x, i) = F[b][Len(lg[b])]
    BY <1>19 DEF Piece, b
  <2>11. U[<<x, i>>] = U[<<x, i - 1>>] \o U[<<b, Len(lg[b])>>]
    BY <1>10, <1>13, <1>16, <1>19 DEF b, Unfolds
  <2>12. QED
    BY <1>13, <1>14, <1>16, <1>17, <2>9, <2>10, <2>11
<1>20. QED
  BY <1>18, <1>19

LEMMA UptoEquation ==
  ASSUME NEW F, Solves(F, log), log \in [Gen -> Seq(Entry)]
  PROVE  \E U : U = Upto /\ Unfolds(U, log)
<1> DEFINE Body(U, e) ==
             LET g == e[1]
                 i == e[2]
             IN  IF i \notin DOMAIN log[g] THEN <<>>
                 ELSE U[<<g, i - 1>>] \o
                      (IF log[g][i].n # 0 THEN <<log[g][i]>>
                       ELSE IF log[g][i].by = g THEN <<>>
                       ELSE U[<<log[g][i].by, Len(log[log[g][i].by])>>])
           Fix(U) == U = [e \in Gen \X Nat |-> Body(U, e)]
           H == [e \in Gen \X Nat |-> F[e[1]][e[2]]]
<1>1. \A g \in Gen : Len(log[g]) \in Nat /\ DOMAIN log[g] = 1..Len(log[g])
  <2>1. ASSUME NEW g \in Gen PROVE Len(log[g]) \in Nat /\ DOMAIN log[g] = 1..Len(log[g])
    <3>1. log[g] \in Seq(Entry)
      OBVIOUS
    <3>2. QED
      BY <3>1, Indices
  <2>2. QED
    BY <2>1
<1>2. ASSUME NEW U, NEW g \in Gen, NEW i \in Nat
      PROVE  Body(U, <<g, i>>) = IF i \notin 1..Len(log[g]) THEN <<>>
                            ELSE U[<<g, i - 1>>] \o
                                 (IF log[g][i].n # 0 THEN <<log[g][i]>>
                                  ELSE IF log[g][i].by = g THEN <<>>
                                  ELSE U[<<log[g][i].by, Len(log[log[g][i].by])>>])
  <2>1. <<g, i>>[1] = g /\ <<g, i>>[2] = i
    OBVIOUS
  <2>2. DOMAIN log[g] = 1..Len(log[g])
    BY <1>1
  <2>3. CASE i \notin 1..Len(log[g])
    BY <2>1, <2>2, <2>3
  <2>4. CASE i \in 1..Len(log[g]) /\ log[g][i].n # 0
    BY <2>1, <2>2, <2>4
  <2>5. CASE i \in 1..Len(log[g]) /\ log[g][i].n = 0 /\ log[g][i].by = g
    BY <2>1, <2>2, <2>5
  <2>6. CASE i \in 1..Len(log[g]) /\ log[g][i].n = 0 /\ log[g][i].by # g
    BY <2>1, <2>2, <2>6
  <2>7. QED
    BY <2>3, <2>4, <2>5, <2>6
<1>3. \A g \in Gen : \A i \in Nat : H[<<g, i>>] = F[g][i]
  OBVIOUS
<1>4. ASSUME NEW g \in Gen, NEW i \in Nat
      PROVE  H[<<g, i>>] = Body(H, <<g, i>>)
  <2> HIDE DEF H, Body
  <2>1. F[g][i] = IF i \notin 1..Len(log[g]) THEN <<>> ELSE F[g][i - 1] \o Piece(F, log, g, i)
    BY DEF Solves
  <2>2. CASE i \notin 1..Len(log[g])
    BY <1>2, <1>3, <2>1, <2>2
  <2>3. CASE i \in 1..Len(log[g])
    <3>1. log[g][i].by \in Gen /\ i - 1 \in Nat
      BY <1>1, <2>3, EntriesIn
    <3>2. Len(log[log[g][i].by]) \in Nat
      BY <1>1, <3>1
    <3>3. H[<<g, i - 1>>] = F[g][i - 1]
      BY <1>3, <3>1
    <3>4. H[<<log[g][i].by, Len(log[log[g][i].by])>>] = F[log[g][i].by][Len(log[log[g][i].by])]
      BY <1>3, <3>1, <3>2
    <3>5. Body(H, <<g, i>>) =
            H[<<g, i - 1>>] \o
               (IF log[g][i].n # 0 THEN <<log[g][i]>>
                ELSE IF log[g][i].by = g THEN <<>>
                ELSE H[<<log[g][i].by, Len(log[log[g][i].by])>>])
      BY <1>2, <2>3
    <3>6. QED
      BY <1>3, <2>1, <2>3, <3>3, <3>4, <3>5 DEF Piece
  <2>4. QED
    BY <2>2, <2>3
<1>5. \A e \in Gen \X Nat : H[e] = Body(H, e)
  <2> HIDE DEF H, Body
  <2>1. \A e \in Gen \X Nat : e = <<e[1], e[2]>> /\ e[1] \in Gen /\ e[2] \in Nat
    OBVIOUS
  <2>2. QED
    BY <1>4, <2>1
<1>6. Fix(H)
  <2>1. H = [e \in Gen \X Nat |-> H[e]]
    OBVIOUS
  <2> HIDE DEF H, Body
  <2>2. QED
    BY <1>5, <2>1
<1>7. Fix(Upto)
  <2>1. \E U : Fix(U)
    <3> HIDE DEF Fix, H
    <3>1. QED
      BY <1>6
  <2>2. Upto = CHOOSE U : Fix(U)
    BY DEF Upto
  <2> HIDE DEF Fix
  <2>3. QED
    BY <2>1, <2>2
<1>8. PICK W : W = Upto
  OBVIOUS
<1>9. ASSUME NEW g \in Gen, NEW i \in Nat
      PROVE  W[<<g, i>>] = IF i \notin 1..Len(log[g]) THEN <<>>
                            ELSE W[<<g, i - 1>>] \o
                                 (IF log[g][i].n # 0 THEN <<log[g][i]>>
                                  ELSE IF log[g][i].by = g THEN <<>>
                                  ELSE W[<<log[g][i].by, Len(log[log[g][i].by])>>])
  <2>1. Fix(W)
    BY <1>7, <1>8, Zenon
  <2> HIDE DEF Body
  <2>2. <<g, i>> \in Gen \X Nat
    OBVIOUS
  <2>3. W[<<g, i>>] = Body(W, <<g, i>>)
    BY <2>1, <2>2
  <2>4. Body(W, <<g, i>>) = IF i \notin 1..Len(log[g]) THEN <<>>
                            ELSE W[<<g, i - 1>>] \o
                                 (IF log[g][i].n # 0 THEN <<log[g][i]>>
                                  ELSE IF log[g][i].by = g THEN <<>>
                                  ELSE W[<<log[g][i].by, Len(log[log[g][i].by])>>])
    BY <1>2
  <2>5. QED
    BY <2>3, <2>4, Zenon
<1>10. Unfolds(W, log)
  BY <1>9 DEF Unfolds
<1>11. QED
  BY <1>8, <1>10

\* The frames between the iterator and the one that yields are those that its value is
\* a value of, and each has spliced the next one in as the last thing so far.
Chain(gs, cs, P, it, h, e) ==
    /\ cs # <<>> /\ h = Top(cs) /\ e \in Entry /\ e.n # 0 /\ it = cs[1].it
    /\ P = {c \in Gen : Active(gs, c) /\ Base(gs, c) = it}

LEMMA CarriedAlong ==
  ASSUME NEW gs, NEW cs, NEW lg, NEW sn, NEW P, NEW it, NEW h, NEW e,
         Frames(gs, cs), LogShape(gs, lg, sn), Chain(gs, cs, P, it, h, e)
  PROVE  Carried(lg, sn, P, it, h, e) /\ gs[it].top = h
<1> SUFFICES ASSUME cs # <<>>, h = Top(cs), e \in Entry, e.n # 0, it = cs[1].it,
                    P = {c \in Gen : Active(gs, c) /\ Base(gs, c) = it}
             PROVE  Carried(lg, sn, P, it, h, e) /\ gs[it].top = h
  BY DEF Chain
<1>1. Shape(gs) /\ CallShape(gs, cs)
  BY DEF Frames
<1>2. PICK n \in Nat : \E rank \in [Gen \cup {User} -> 0..n] : RankedBy(gs, cs, n, rank)
  BY DEF Frames, Ranked
<1>3. PICK rank \in [Gen \cup {User} -> 0..n] : RankedBy(gs, cs, n, rank)
  BY <1>2
<1>4. /\ h = cs[1].in /\ h \in Gen /\ it \in Gen /\ gs[h].at = "run" /\ Active(gs, it)
      /\ 1 \in 1..Len(cs)
  BY <1>1, <1>3, CallFacts DEF Top
<1>5. Base(gs, h) = it /\ gs[it].info = None
  BY <1>1, <1>4 DEF CallShape
<1>6. \A g \in Gen : gs[g].at # "none" => rank[gs[g].owner] < rank[g]
  BY <1>3 DEF RankedBy
<1>7. \A x \in Gen \cup {User} : rank[x] \in Nat
  BY <1>1, <1>3, CallFacts
<1>8. gs[it].top = h /\ Base(gs, it) = it
  BY <1>1, <1>4, <1>5 DEF Shape, TopShape, Active, Base
<1>9. P \in SUBSET Gen /\ \A c \in Gen : c \in P <=> Active(gs, c) /\ Base(gs, c) = it
  OBVIOUS
<1>10. it \in P /\ h \in P
  BY <1>4, <1>5, <1>8, <1>9 DEF Active
<1>11. /\ lg \in [Gen -> Seq(Entry)]
       /\ \A g \in Gen : Up(gs, g) /\ gs[g].info # None =>
             /\ Len(lg[gs[g].info]) >= 1
             /\ lg[gs[g].info][Len(lg[gs[g].info])] = [by |-> g, n |-> 0]
       /\ \A g \in Gen : \A i \in 1..Len(lg[g]) : EntrySound(gs, lg, g, i)
  BY DEF LogShape
<1>12. ASSUME NEW d \in Gen, Up(gs, d), gs[d].info # None
       PROVE  /\ Active(gs, d) /\ gs[d].info \in Gen /\ gs[gs[d].info].at = "nest"
              /\ gs[d].info # d /\ Base(gs, d) = Base(gs, gs[d].info)
  <2>1. Active(gs, d) /\ gs[d].info = gs[d].owner /\ gs[gs[d].info].at = "nest"
    BY <1>1, <1>12 DEF Shape, SpliceShape
  <2>2. gs[d].info \in Gen
    BY <1>1, <1>12 DEF Shape, GenPromise
  <2>3. gs[gs[d].info].root = Base(gs, gs[d].info)
    BY <1>1, <2>1, <2>2 DEF Shape, TopShape
  <2>4. gs[d].info # d
    BY <1>6, <1>7, <1>12, <2>1 DEF Up
  <2>5. Base(gs, d) = gs[gs[d].info].root
    BY <1>12 DEF Base
  <2>6. QED
    BY <2>1, <2>2, <2>3, <2>4, <2>5
<1>13. ASSUME NEW c \in Gen, NEW i \in 1..Len(lg[c]), lg[c][i].n = 0, lg[c][i].by # c,
              lg[c][i].by \in P
       PROVE  c \in P /\ c # h /\ i = Len(lg[c])
  <2> DEFINE b == lg[c][i].by
  <2>1. /\ Up(gs, b) => gs[b].info = c
        /\ \A j \in 1..Len(lg[c]) : lg[c][j] = lg[c][i] => j = i
    BY <1>11, <1>13 DEF EntrySound
  <2>2. lg[c][i] = [by |-> b, n |-> 0] /\ b \in Gen
    <3>1. lg[c][i] \in Entry
      BY <1>11, EntriesIn
    <3>2. QED
      BY <1>13, <3>1 DEF Entry
  <2>3. b \in P
    BY <1>13
  <2> HIDE DEF b
  <2>4. Up(gs, b) /\ gs[b].info = c /\ Base(gs, b) = it /\ gs[b].info # None
    BY <1>9, <2>1, <2>2, <2>3, GenAssumption DEF Active, Up
  <2>5. gs[c].at = "nest" /\ Base(gs, c) = it
    BY <1>12, <2>2, <2>4
  <2>6. Len(lg[c]) >= 1 /\ lg[c][Len(lg[c])] = lg[c][i]
    BY <1>11, <2>2, <2>4
  <2>7. Len(lg[c]) \in Nat
    BY <1>11, EntriesIn
  <2>8. Len(lg[c]) = i
    BY <2>1, <2>6, <2>7
  <2>9. QED
    BY <1>4, <1>9, <2>5, <2>8 DEF Active
<1>14. ASSUME NEW c \in P, c # h
       PROVE  /\ Len(lg[c]) >= 1 /\ lg[c][Len(lg[c])].n = 0
              /\ lg[c][Len(lg[c])].by # c /\ lg[c][Len(lg[c])].by \in P
  <2>1. c \in Gen /\ Active(gs, c) /\ Base(gs, c) = it
    BY <1>9
  <2>2. gs[c].at = "nest"
    <3>1. SUFFICES ASSUME gs[c].at # "nest" PROVE FALSE
      OBVIOUS
    <3>2. gs[Base(gs, c)].top = c
      BY <1>1, <2>1, <3>1 DEF Shape, TopShape
    <3>3. QED
      BY <1>8, <1>14, <2>1, <3>2
  <2>3. PICK d \in Gen : Up(gs, d) /\ gs[d].info = c
    BY <1>1, <2>1, <2>2 DEF Shape, SpliceShape
  <2>4. gs[d].info # None
    BY <2>1, <2>3, GenAssumption
  <2>5. Active(gs, d) /\ d # c /\ Base(gs, d) = it
    BY <1>12, <2>1, <2>3, <2>4
  <2>6. Len(lg[c]) >= 1 /\ lg[c][Len(lg[c])] = [by |-> d, n |-> 0]
    BY <1>11, <2>3, <2>4
  <2>7. QED
    BY <1>9, <2>5, <2>6
<1>15. ~SplicedIn(lg, it)
  <2>1. SUFFICES ASSUME NEW x \in Gen, x # it, NEW i \in 1..Len(lg[x]), lg[x][i] = [by |-> it, n |-> 0]
                 PROVE  FALSE
    BY DEF SplicedIn, In
  <2>2. Up(gs, it) => gs[it].info = x
    BY <1>11, <2>1 DEF EntrySound
  <2>3. QED
    BY <1>4, <1>5, <2>2, GenAssumption DEF Active, Up
<1>16. ASSUME NEW c \in P, c # it
       PROVE  SplicedIn(lg, c)
  <2>1. c \in Gen /\ Active(gs, c) /\ Base(gs, c) = it
    BY <1>9
  <2>2. Up(gs, c) /\ gs[c].info # None
    BY <1>16, <2>1 DEF Active, Up, Base
  <2>3. gs[c].info \in Gen /\ gs[c].info # c
    BY <1>12, <2>1, <2>2
  <2> DEFINE x == gs[c].info
  <2>4. Len(lg[x]) >= 1 /\ lg[x][Len(lg[x])] = [by |-> c, n |-> 0]
    BY <1>11, <2>1, <2>2
  <2> HIDE DEF x
  <2>5. x \in Gen /\ x # c
    BY <2>3 DEF x
  <2>6. Len(lg[x]) \in Nat
    BY <1>11, <2>5, EntriesIn
  <2>7. QED
    BY <2>4, <2>5, <2>6 DEF SplicedIn, In
<1>17. QED
  BY <1>8, <1>9, <1>10, <1>13, <1>14, <1>15, <1>16 DEF Carried

-----------------------------------------------------------------------------
(* The invariant.                                                           *)

RaisedShape(cs, rs) ==
    /\ rs \in [Gen \cup {User} -> Gen \cup {None}]
    /\ \A x \in Gen \cup {User} : rs[x] # None => x = Top(cs)

ErrorsFound(gs, lg, rs, ct) ==
    \A g \in Gen : ThrewIn(lg, g) =>
        LET h == gs[g].owner
        IN  \/ rs[h] = g
            \/ g \in ct
            \/ h \in Gen /\ ThrewIn(lg, h)

\* Every step keeps all five.
GeneratorInv ==
    /\ Frames(gen, calls)
    /\ RaisedShape(calls, raised)
    /\ LogShape(gen, log, seen)
    /\ FlatShape(log, seen)
    /\ ErrorsFound(gen, log, raised, caught)

LEMMA ErrorsKept ==
  ASSUME NEW gs, NEW hs, NEW lg, NEW lh, NEW rs, NEW ct, ErrorsFound(gs, lg, rs, ct),
         \A g \in Gen : ThrewIn(lh, g) <=> ThrewIn(lg, g),
         \A g \in Gen : ThrewIn(lg, g) => hs[g].owner = gs[g].owner
  PROVE  ErrorsFound(hs, lh, rs, ct)
BY DEF ErrorsFound

\* No exception has been raised, and none is.
LEMMA CalmCalls ==
  ASSUME NEW cs, NEW ds, NEW rs, RaisedShape(cs, rs), rs[Top(cs)] = None
  PROVE  RaisedShape(ds, rs)
BY DEF RaisedShape

LEMMA FrameStart ==
  ASSUME GenInit
  PROVE  GeneratorInv
<1>1. /\ \A g \in Gen : /\ gen[g].at = "none" /\ gen[g].owner = None /\ gen[g].top = None
                        /\ gen[g].info = None /\ gen[g].root = None /\ gen[g].val = 0
      /\ \A g \in Gen : gen[g] \in GenPromise /\ gen[g] = Blank
      /\ gen \in [Gen -> GenPromise]
      /\ calls = <<>>
      /\ log = [g \in Gen |-> <<>>] /\ seen = [g \in Gen |-> <<>>]
      /\ raised = [h \in Gen \cup {User} |-> None]
  BY DEF GenInit, Blank, GenPromise, Spot
<1>2. Shape(gen)
  <2>1. MadeShape(gen)
    BY <1>1, GenAssumption DEF MadeShape, Up
  <2>2. SpliceShape(gen)
    BY <1>1 DEF SpliceShape, Up
  <2>3. TopShape(gen)
    BY <1>1 DEF TopShape, Active
  <2>4. QED
    BY <1>1, <2>1, <2>2, <2>3 DEF Shape
<1>3. CallShape(gen, calls)
  <2>1. 1..0 = {}
    OBVIOUS
  <2>2. QED
    BY <1>1, <2>1, EmptyList DEF CallShape
<1>4. Ranked(gen, calls)
  <2> DEFINE rank == [x \in Gen \cup {User} |-> 0]
  <2>1. rank \in [Gen \cup {User} -> 0..0] /\ 0 \in Nat
    OBVIOUS
  <2> HIDE DEF rank
  <2>2. 1..0 = {}
    OBVIOUS
  <2>3. RankedBy(gen, calls, 0, rank)
    BY <1>1, <2>1, <2>2, EmptyList DEF RankedBy, Active
  <2>4. QED
    BY <2>1, <2>3 DEF Ranked
<1>5. RaisedShape(calls, raised)
  BY <1>1 DEF RaisedShape
<1>6. \A g \in Gen : ~ThrewIn(log, g)
  <2>1. 1..0 = {}
    OBVIOUS
  <2>2. QED
    BY <1>1, <2>1, EmptyList DEF ThrewIn
<1>7. LogShape(gen, log, seen)
  <2>1. log \in [Gen -> Seq(Entry)] /\ seen \in [Gen -> Seq(Entry)]
    BY <1>1
  <2>2. \A g \in Gen : \A i \in 1..Len(log[g]) : EntrySound(gen, log, g, i)
    <3>1. 1..0 = {}
      OBVIOUS
    <3>2. QED
      BY <1>1, <3>1, EmptyList
  <2>3. QED
    BY <1>1, <1>6, <2>1, <2>2 DEF LogShape
<1>8. FlatShape(log, seen)
  <2> DEFINE F == [g \in Gen |-> [i \in Nat |-> <<>>]]
  <2>1. F \in [Gen -> [Nat -> Seq(Entry)]]
    OBVIOUS
  <2>2. \A g \in Gen : \A i \in Nat : F[g][i] = <<>>
    OBVIOUS
  <2> HIDE DEF F
  <2>3. \A g \in Gen : Len(log[g]) = 0 /\ seen[g] = <<>>
    BY <1>1, EmptyList
  <2>4. \A i : i \notin 1..0
    OBVIOUS
  <2>5. Solves(F, log)
    BY <2>1, <2>2, <2>3, <2>4 DEF Solves
  <2>6. Reads(F, log, seen)
    BY <2>2, <2>3 DEF Reads
  <2>7. QED
    BY <2>5, <2>6 DEF FlatShape
<1>9. ErrorsFound(gen, log, raised, caught)
  BY <1>6 DEF ErrorsFound
<1>10. QED
  BY <1>2, <1>3, <1>4, <1>5, <1>7, <1>8, <1>9 DEF GeneratorInv, Frames

\* A step that only concerns the frames and the calls.
LEMMA OnlyFrames ==
  ASSUME GeneratorInv, raised[Runner] = None, Frames(gen', calls'), Older(gen, gen'),
         UNCHANGED <<raised, caught, log, seen>>
  PROVE  GeneratorInv'
<1>1. Runner = Top(calls)
  BY DEF Runner, Top
<1>2. RaisedShape(calls', raised')
  BY <1>1, CalmCalls DEF GeneratorInv
<1>3. LogShape(gen', log', seen')
  <2>1. Shape(gen) /\ LogShape(gen, log, seen)
    BY DEF GeneratorInv, Frames
  <2>2. LogShape(gen', log, seen)
    BY <2>1, LogKept
  <2>3. QED
    BY <2>2
<1>4. \A g \in Gen : ThrewIn(log, g) => gen'[g].owner = gen[g].owner
  <2>1. \A g \in Gen : ThrewIn(log, g) => gen[g].at \in {"done", "gone"}
    BY DEF GeneratorInv, LogShape
  <2>2. QED
    BY <2>1 DEF Older
<1>5. ErrorsFound(gen', log, raised, caught)
  BY <1>4, ErrorsKept DEF GeneratorInv
<1>6. QED
  BY <1>2, <1>3, <1>5 DEF GeneratorInv

LEMMA TopIn ==
  ASSUME NEW gs, NEW cs, CallShape(gs, cs)
  PROVE  Top(cs) \in Gen \cup {User}
<1>1. CASE cs = <<>>
  BY <1>1 DEF Top
<1>2. CASE cs # <<>>
  <2>1. cs \in Seq([it : Gen, in : Gen])
    BY DEF CallShape
  <2>2. 1 \in 1..Len(cs)
    <3>1. Len(cs) \in Nat /\ Len(cs) # 0
      BY <1>2, <2>1, EmptySeq, LenProperties
    <3>2. QED
      BY <3>1
  <2>3. cs[1] \in [it : Gen, in : Gen]
    BY <2>1, <2>2, ElementOfSeq
  <2>4. QED
    BY <1>2, <2>3 DEF Top
<1>3. QED
  BY <1>1, <1>2

LEMMA MakeKeeps ==
  ASSUME GeneratorInv, raised[Runner] = None, NEW g \in Gen, Make(Runner, g)
  PROVE  GeneratorInv'
<1>1. Runner = Top(calls) /\ Frames(gen, calls) /\ Shape(gen) /\ CallShape(gen, calls)
  BY DEF Runner, Top, GeneratorInv, Frames
<1>2. Runner \in Gen \cup {User}
  BY <1>1, TopIn
<1>3. /\ gen \in [Gen -> GenPromise] /\ gen[g].at = "none"
      /\ gen' = [gen EXCEPT ![g] = Made(Runner, g)] /\ calls' = calls
      /\ UNCHANGED <<raised, caught, log, seen>>
  BY <1>1 DEF Make, Shape
<1>4. Made(Runner, g) \in GenPromise
  BY <1>2, MadeIn
<1>5. gen' \in [Gen -> GenPromise] /\ gen'[g] = Made(Runner, g) /\ \A c \in Gen \ {g} : gen'[c] = gen[c]
  BY <1>3, <1>4
<1>6. Frames(gen', calls)
  BY <1>1, <1>3, <1>5, MakeFrames
<1>7. gen'[g].at = "initial" /\ gen'[g].info = None
  BY <1>5 DEF Made, Blank
<1>8. Older(gen, gen')
  <2>1. \A c \in Gen : gen[c].at = "none" => gen[c].info = None
    BY <1>1 DEF Shape, MadeShape
  <2>2. QED
    BY <1>3, <1>5, <1>7, <2>1 DEF Older, Up
<1>9. QED
  BY <1>3, <1>6, <1>8, OnlyFrames

\* The frame t begins or goes on.
LEMMA TurnedOlder ==
  ASSUME NEW gs, NEW hs, NEW t \in Gen, gs[t].at \in {"initial", "yield"}, Shape(gs),
         hs[t].at \in {"run", "yield"}, \A c \in Gen : Alike(gs, hs, c),
         \A c \in Gen \ {t} : hs[c].at = gs[c].at
  PROVE  Older(gs, hs)
<1>1. \A c \in Gen : gs[c].at = "none" => gs[c].info = None
  BY DEF Shape, MadeShape
<1>2. QED
  BY <1>1 DEF Older, Alike, Up

LEMMA BeginKeeps ==
  ASSUME GeneratorInv, raised[Runner] = None, NEW g \in Gen, BeginGen(Runner, g)
  PROVE  GeneratorInv'
<1>1. Runner = Top(calls) /\ Frames(gen, calls) /\ Shape(gen) /\ gen \in [Gen -> GenPromise]
  BY DEF Runner, Top, GeneratorInv, Frames, Shape
<1>2. /\ gen[g].owner = Top(calls) /\ gen[g].at = "initial" /\ gen' = [gen EXCEPT ![g].at = "run"]
      /\ calls' = <<[it |-> g, in |-> g]>> \o calls /\ UNCHANGED <<raised, caught, log, seen>>
  BY <1>1 DEF BeginGen
<1>3. gen[g].info = None /\ gen[g].at # "none"
  BY <1>1, <1>2 DEF Shape, SpliceShape
<1>4. /\ gen' \in [Gen -> GenPromise] /\ gen'[g].at = "run" /\ \A c \in Gen : Alike(gen, gen', c)
      /\ \A c \in Gen \ {g} : gen'[c].at = gen[c].at /\ gen'[c].val = gen[c].val
  BY <1>1, <1>2 DEF GenPromise, Spot, Alike
<1>5. Frames(gen', <<[it |-> g, in |-> g]>> \o calls)
  BY <1>1, <1>2, <1>3, <1>4, PushFrames
<1>6. Older(gen, gen')
  BY <1>1, <1>2, <1>4, TurnedOlder
<1>7. QED
  BY <1>2, <1>5, <1>6, OnlyFrames

LEMMA IncrementKeeps ==
  ASSUME GeneratorInv, raised[Runner] = None, NEW g \in Gen, Increment(Runner, g)
  PROVE  GeneratorInv'
<1> DEFINE t == gen[g].top
<1>1. /\ Runner = Top(calls) /\ Frames(gen, calls) /\ Shape(gen) /\ gen \in [Gen -> GenPromise]
      /\ CallShape(gen, calls)
  BY DEF Runner, Top, GeneratorInv, Frames, Shape
<1>2. /\ gen[g].owner = Top(calls) /\ gen[g].info = None /\ gen[g].at \in {"yield", "nest"}
      /\ gen' = [gen EXCEPT ![t].at = "run"]
      /\ calls' = <<[it |-> g, in |-> t]>> \o calls /\ UNCHANGED <<raised, caught, log, seen>>
  BY <1>1 DEF Increment
<1>3. t \in Gen /\ gen[t].at \in {"run", "yield"} /\ Base(gen, t) = g /\ Active(gen, g)
  BY <1>1, <1>2 DEF Shape, TopShape, Active
<1> HIDE DEF t
<1>4. gen[t].at # "run"
  <2>1. SUFFICES ASSUME gen[t].at = "run" PROVE FALSE
    OBVIOUS
  <2>2. PICK i \in 1..Len(calls) : calls[i].in = t
    BY <1>1, <1>3, <2>1 DEF CallShape
  <2>3. calls[i].it = g /\ gen[g].owner = IF i = Len(calls) THEN User ELSE calls[i + 1].in
    BY <1>1, <1>3, <2>2 DEF CallShape
  <2>4. PICK n \in Nat : \E rank \in [Gen \cup {User} -> 0..n] : RankedBy(gen, calls, n, rank)
    BY <1>1 DEF Frames, Ranked
  <2>5. PICK rank \in [Gen \cup {User} -> 0..n] : RankedBy(gen, calls, n, rank)
    BY <2>4
  <2>6. Len(calls) \in Nat
    BY <1>1, Indices DEF CallShape
  <2>7. calls # <<>> /\ 1 \in 1..Len(calls)
    BY <2>2, <2>6, EmptyList
  <2>8. Top(calls) = calls[1].in /\ calls[1].in \in Gen /\ calls[1].it \in Gen
        /\ rank[calls[1].it] <= rank[calls[1].in]
    BY <1>1, <2>5, <2>7, CallFacts DEF Top
  <2>9. i # Len(calls) /\ calls[i + 1].in = calls[1].in
    BY <1>2, <2>3, <2>8, GenAssumption
  <2>10. i + 1 \in 1..Len(calls) /\ 1 < i + 1
    BY <2>6, <2>9
  <2>11. rank[calls[i + 1].in] < rank[calls[1].it]
    BY <2>5, <2>7, <2>10 DEF RankedBy
  <2>12. rank[calls[1].in] \in Nat /\ rank[calls[1].it] \in Nat
    BY <2>8
  <2>13. QED
    BY <2>8, <2>9, <2>11, <2>12
<1>5. /\ gen' \in [Gen -> GenPromise] /\ gen'[t].at = "run" /\ \A c \in Gen : Alike(gen, gen', c)
      /\ \A c \in Gen \ {t} : gen'[c].at = gen[c].at /\ gen'[c].val = gen[c].val
  BY <1>1, <1>2, <1>3 DEF GenPromise, Spot, Alike
<1>6. Frames(gen', <<[it |-> g, in |-> t]>> \o calls)
  BY <1>1, <1>2, <1>3, <1>4, <1>5, PushFrames
<1>7. Older(gen, gen')
  BY <1>1, <1>3, <1>4, <1>5, TurnedOlder
<1>8. QED
  BY <1>2, <1>6, <1>7, OnlyFrames

LEMMA ReleaseKeeps ==
  ASSUME GeneratorInv, raised[Runner] = None, NEW g \in Gen, Release(Runner, g)
  PROVE  GeneratorInv'
<1> DEFINE T == GenTree(g)
           D == {c \in T : gen[c].at # "none"}
<1>1. Runner = Top(calls) /\ Frames(gen, calls) /\ Shape(gen) /\ gen \in [Gen -> GenPromise]
  BY DEF Runner, Top, GeneratorInv, Frames, Shape
<1>2. /\ gen[g].owner = Top(calls) /\ Up(gen, g) /\ gen' = Destroyed(gen, T)
      /\ calls' = calls /\ UNCHANGED <<raised, caught, log, seen>>
  BY <1>1 DEF Release, Alive, Up
<1>3. IsTree(gen, g, T)
  BY DEF IsTree, GenTree
<1>4. \A c : c \in D <=> c \in T /\ gen[c].at # "none"
  OBVIOUS
<1> HIDE DEF T
<1>5. /\ gen' \in [Gen -> GenPromise]
      /\ \A c \in Gen : Alike(gen, gen', c) /\ gen'[c].val = gen[c].val
      /\ \A c \in Gen : gen'[c].at = IF c \in D THEN "gone" ELSE gen[c].at
  BY <1>1, <1>2 DEF Destroyed, Alike, GenPromise, Spot
<1> HIDE DEF D
<1>6. Frames(gen', calls)
  <2>1. Released(gen, gen', calls, g, T, D)
    BY <1>2, <1>3, <1>4, <1>5 DEF Released
  <2>2. QED
    BY <1>1, <2>1, ReleaseFrames
<1>7. Older(gen, gen')
  <2>1. \A c \in Gen : gen[c].at = "none" => gen[c].info = None
    BY <1>1 DEF Shape, MadeShape
  <2>2. QED
    BY <1>4, <1>5, <2>1 DEF Older, Alike, Up
<1>8. QED
  BY <1>2, <1>6, <1>7, OnlyFrames

LEMMA CatchKeeps ==
  ASSUME GeneratorInv, Catch(Runner)
  PROVE  GeneratorInv'
<1>1. /\ raised[Runner] # None /\ caught' = caught \cup {raised[Runner]}
      /\ raised' = [raised EXCEPT ![Runner] = None]
      /\ UNCHANGED <<gen, calls, log, seen>>
  BY DEF Catch
<1>2. Runner = Top(calls) /\ CallShape(gen, calls)
  BY DEF Runner, Top, GeneratorInv, Frames
<1>3. Runner \in Gen \cup {User}
  BY <1>2, TopIn
<1>4. /\ raised \in [Gen \cup {User} -> Gen \cup {None}]
      /\ \A x \in Gen \cup {User} : raised[x] # None => x = Top(calls)
  BY DEF GeneratorInv, RaisedShape
<1>5. /\ raised' \in [Gen \cup {User} -> Gen \cup {None}]
      /\ \A x \in Gen \cup {User} : raised'[x] = None
  BY <1>1, <1>2, <1>3, <1>4
<1>6. RaisedShape(calls', raised')
  BY <1>5 DEF RaisedShape
<1>7. ErrorsFound(gen, log, raised', caught')
  <2>1. SUFFICES ASSUME NEW g \in Gen, ThrewIn(log, g), ~(gen[g].owner \in Gen /\ ThrewIn(log, gen[g].owner))
                 PROVE  g \in caught'
    BY DEF ErrorsFound
  <2>2. raised[gen[g].owner] = g \/ g \in caught
    BY <2>1 DEF GeneratorInv, ErrorsFound
  <2>3. CASE raised[gen[g].owner] = g
    <3>1. gen[g].at \in {"done", "gone"}
      BY <2>1 DEF GeneratorInv, LogShape
    <3>2. gen[g].owner \in Gen \cup {User}
      BY <3>1, GenAssumption DEF GeneratorInv, Frames, Shape, MadeShape, GenPromise
    <3>3. g # None
      BY GenAssumption
    <3>4. gen[g].owner = Runner
      BY <1>2, <1>4, <2>3, <3>2, <3>3
    <3>5. QED
      BY <1>1, <2>3, <3>4
  <2>4. QED
    BY <1>1, <2>2, <2>3
<1>8. QED
  BY <1>1, <1>6, <1>7 DEF GeneratorInv

LEMMA ThrewAdded ==
  ASSUME NEW lg, NEW lh, NEW h, NEW e, Appended(lg, lh, h, e)
  PROVE  \A c \in Gen : ThrewIn(lh, c) <=> ThrewIn(lg, c) \/ (c = h /\ e = [by |-> h, n |-> 0])
<1> SUFFICES ASSUME lg \in [Gen -> Seq(Entry)], h \in Gen, e \in Entry,
                    lh[h] = Append(lg[h], e), \A c \in Gen : c # h => lh[c] = lg[c]
             PROVE  \A c \in Gen : ThrewIn(lh, c) <=> ThrewIn(lg, c) \/ (c = h /\ e = [by |-> h, n |-> 0])
  BY DEF Appended
<1>1. lg[h] \in Seq(Entry)
  OBVIOUS
<1>2. /\ Len(lg[h]) \in Nat /\ Len(lh[h]) = Len(lg[h]) + 1 /\ lh[h][Len(lg[h]) + 1] = e
      /\ \A i \in 1..Len(lg[h]) : lh[h][i] = lg[h][i] /\ i \in 1..Len(lg[h]) + 1
      /\ \A i \in 1..Len(lg[h]) + 1 : i \in 1..Len(lg[h]) \/ i = Len(lg[h]) + 1
  BY <1>1, LastAdded
<1>3. ThrewIn(lh, h) <=> ThrewIn(lg, h) \/ e = [by |-> h, n |-> 0]
  <2>1. Len(lg[h]) + 1 \in 1..Len(lg[h]) + 1
    BY <1>2
  <2>2. QED
    BY <1>2, <2>1 DEF ThrewIn
<1>4. QED
  BY <1>3 DEF ThrewIn

\* h splices g in.
Splices(gs, hs, cs, lg, lh, h, g) ==
    /\ h = Top(cs) /\ g \in Gen /\ gs[g].at = "initial" /\ gs[g].owner = h
    /\ hs = Nested(gs, h, g) /\ Appended(lg, lh, h, [by |-> g, n |-> 0])

LEMMA SplicedKeeps ==
  ASSUME NEW gs, NEW cs, NEW lg, NEW sn, NEW rs, NEW ct, Frames(gs, cs), LogShape(gs, lg, sn),
         FlatShape(lg, sn), ErrorsFound(gs, lg, rs, ct),
         NEW h, NEW g, NEW hs, NEW lh, Splices(gs, hs, cs, lg, lh, h, g)
  PROVE  /\ Frames(hs, <<[cs[1] EXCEPT !.in = g]>> \o Tail(cs))
         /\ LogShape(hs, lh, sn) /\ FlatShape(lh, sn) /\ ErrorsFound(hs, lh, rs, ct)
<1> DEFINE e == [by |-> g, n |-> 0]
<1> SUFFICES ASSUME h \in Gen, h = Top(cs), g \in Gen, gs[g].at = "initial", gs[g].owner = h,
                    hs = Nested(gs, h, g), lh \in [Gen -> Seq(Entry)], lg \in [Gen -> Seq(Entry)],
                    lh[h] = Append(lg[h], e), \A c \in Gen : c # h => lh[c] = lg[c],
                    Appended(lg, lh, h, e)
             PROVE  /\ Frames(hs, <<[cs[1] EXCEPT !.in = g]>> \o Tail(cs))
                    /\ LogShape(hs, lh, sn) /\ FlatShape(lh, sn) /\ ErrorsFound(hs, lh, rs, ct)
  BY DEF Splices, Appended
<1>1. PICK r : r = Base(gs, h)
  OBVIOUS
<1>2. Shape(gs) /\ CallShape(gs, cs) /\ gs \in [Gen -> GenPromise]
  BY DEF Frames, Shape
<1>3. cs # <<>> /\ h = cs[1].in /\ 1 \in 1..Len(cs)
  <2>1. cs # <<>> /\ h = cs[1].in
    BY GenAssumption DEF Top
  <2>2. Len(cs) \in Nat /\ Len(cs) # 0
    BY <1>2, <2>1, LenProperties, EmptySeq DEF CallShape
  <2>3. QED
    BY <2>1, <2>2
<1>4. gs[h].at = "run" /\ r = cs[1].it /\ Active(gs, r) /\ r \in Gen
  <2>1. gs[cs[1].in].at = "run" /\ Base(gs, cs[1].in) = cs[1].it /\ Active(gs, cs[1].it)
    BY <1>2, <1>3 DEF CallShape
  <2>2. gs[h].at = "run" /\ r = cs[1].it /\ Active(gs, r)
    BY <1>3, <1>1, <2>1
  <2>3. Base(gs, h) \in Gen
    BY <1>2, <2>2 DEF Shape, TopShape, Active
  <2>4. QED
    BY <1>1, <2>2, <2>3
<1>5. g # h /\ r # g
  BY <1>4 DEF Active
<1>6. /\ hs \in [Gen -> GenPromise]
      /\ \A c \in Gen : hs[c].owner = gs[c].owner /\ hs[c].val = gs[c].val
      /\ \A c \in Gen : hs[c].at = IF c = h THEN "nest" ELSE IF c = g THEN "run" ELSE gs[c].at
      /\ \A c \in Gen : hs[c].root = IF c = h THEN r ELSE gs[c].root
      /\ \A c \in Gen : hs[c].info = IF c = g THEN h ELSE gs[c].info
      /\ \A c \in Gen : hs[c].top = IF c = r THEN g ELSE gs[c].top
  <2>1. Nests(gs, hs, h, g, r)
    BY <1>2, <1>4, <1>5, <1>1 DEF Nests
  <2>2. QED
    BY <2>1, NestedFields
<1>7. Frames(hs, <<[cs[1] EXCEPT !.in = g]>> \o Tail(cs))
  <2>1. NestedIn(gs, hs, cs, h, g, r)
    BY <1>3, <1>6, <1>1 DEF NestedIn
  <2>2. QED
    BY <2>1, NestFrames
<1>8. e \in Entry /\ e.n = 0 /\ e.by = g
  BY DEF Entry
<1>9. gs[g].info = None
  BY <1>2 DEF Shape, SpliceShape
<1>10. lg[g] = <<>> /\ sn[g] = <<>> /\ lg \in [Gen -> Seq(Entry)] /\ sn \in [Gen -> Seq(Entry)]
  BY DEF LogShape
<1> HIDE DEF e
<1>11. Grown(gs, hs, h, e)
  BY <1>4, <1>5, <1>6, <1>8, <1>9 DEF Grown, Up, e
<1>12. LogShape(hs, lh, sn)
  BY <1>2, <1>10, <1>11, LogGrown
<1>13. FlatShape(lh, sn)
  BY <1>8, <1>10, FlatNoted
<1>14. ErrorsFound(hs, lh, rs, ct)
  <2>1. e # [by |-> h, n |-> 0]
    BY <1>5, <1>8
  <2>2. \A c \in Gen : ThrewIn(lh, c) <=> ThrewIn(lg, c)
    BY <2>1, ThrewAdded
  <2>3. QED
    <3>1. \A c \in Gen : ThrewIn(lg, c) => hs[c].owner = gs[c].owner
      BY <1>6
    <3>2. QED
      BY <2>2, <3>1, ErrorsKept
<1>15. QED
  BY <1>7, <1>12, <1>13, <1>14

LEMMA YieldElementsKeeps ==
  ASSUME GeneratorInv, raised[Runner] = None, Runner # User, NEW g \in Gen, YieldElements(Runner, g)
  PROVE  GeneratorInv'
<1> DEFINE h == Runner
<1>1. /\ h = Top(calls) /\ Frames(gen, calls) /\ Shape(gen) /\ gen \in [Gen -> GenPromise]
      /\ CallShape(gen, calls)
  BY DEF Runner, Top, GeneratorInv, Frames, Shape
<1>2. h \in Gen
  BY <1>1, TopIn
<1>3. /\ \/ gen[g].owner = h /\ gen[g].at = "initial" /\ gen' = Nested(gen, h, g)
         \/ gen[g].at = "none" /\ gen' = Nested([gen EXCEPT ![g] = Made(h, g)], h, g)
      /\ calls' = <<[calls[1] EXCEPT !.in = g]>> \o Tail(calls)
      /\ log' = [log EXCEPT ![h] = Append(log[h], [by |-> g, n |-> 0])]
      /\ UNCHANGED <<raised, caught, seen>>
  BY DEF YieldElements, SwitchTo
<1> HIDE DEF h
<1>4. /\ LogShape(gen, log, seen) /\ FlatShape(log, seen) /\ ErrorsFound(gen, log, raised, caught)
      /\ RaisedShape(calls, raised) /\ log \in [Gen -> Seq(Entry)]
  BY DEF GeneratorInv, LogShape
<1>5. Appended(log, log', h, [by |-> g, n |-> 0])
  <2>1. log[h] \in Seq(Entry) /\ [by |-> g, n |-> 0] \in Entry
    BY <1>2, <1>4 DEF Entry
  <2>2. Append(log[h], [by |-> g, n |-> 0]) \in Seq(Entry)
    BY <2>1, LastAdded
  <2>3. QED
    BY <1>2, <1>3, <1>4, <2>1, <2>2 DEF Appended
<1>6. RaisedShape(calls', raised')
  BY <1>1, <1>3, <1>4, CalmCalls DEF h
<1>7. CASE gen[g].owner = h /\ gen[g].at = "initial" /\ gen' = Nested(gen, h, g)
  <2>1. /\ Frames(gen', <<[calls[1] EXCEPT !.in = g]>> \o Tail(calls))
        /\ LogShape(gen', log', seen) /\ FlatShape(log', seen) /\ ErrorsFound(gen', log', raised, caught)
    <3>1. Splices(gen, gen', calls, log, log', h, g)
      BY <1>1, <1>5, <1>7 DEF Splices
    <3>2. QED
      BY <1>1, <1>4, <3>1, SplicedKeeps
  <2>2. QED
    BY <1>3, <1>6, <2>1 DEF GeneratorInv
<1>8. CASE gen[g].at = "none" /\ gen' = Nested([gen EXCEPT ![g] = Made(h, g)], h, g)
  <2>1. PICK ks : ks = [gen EXCEPT ![g] = Made(h, g)]
    OBVIOUS
  <2>2. Made(h, g) \in GenPromise
    BY <1>2, MadeIn
  <2>3. ks \in [Gen -> GenPromise] /\ ks[g] = Made(h, g) /\ \A c \in Gen \ {g} : ks[c] = gen[c]
    BY <1>1, <2>1, <2>2
  <2>4. Frames(ks, calls)
    BY <1>1, <1>8, <2>3, MakeFrames
  <2>5. ks[g].at = "initial" /\ ks[g].info = None /\ ks[g].owner = h
    BY <2>3 DEF Made, Blank
  <2>6. Older(gen, ks)
    <3>1. \A c \in Gen : gen[c].at = "none" => gen[c].info = None
      BY <1>1 DEF Shape, MadeShape
    <3>2. QED
      BY <1>8, <2>3, <2>5, <3>1 DEF Older, Up
  <2>7. LogShape(ks, log, seen)
    BY <1>1, <1>4, <2>6, LogKept
  <2>8. ErrorsFound(ks, log, raised, caught)
    <3>1. \A c \in Gen : ThrewIn(log, c) => gen[c].at \in {"done", "gone"}
      BY <1>4 DEF LogShape
    <3>2. \A c \in Gen : ThrewIn(log, c) => ks[c].owner = gen[c].owner
      BY <1>8, <2>3, <3>1
    <3>3. QED
      BY <1>4, <3>2, ErrorsKept
  <2>9. gen' = Nested(ks, h, g)
    BY <1>8, <2>1
  <2>10. /\ Frames(gen', <<[calls[1] EXCEPT !.in = g]>> \o Tail(calls))
         /\ LogShape(gen', log', seen) /\ FlatShape(log', seen) /\ ErrorsFound(gen', log', raised, caught)
    <3>1. Splices(ks, gen', calls, log, log', h, g)
      BY <1>1, <1>5, <2>5, <2>9 DEF Splices
    <3>2. QED
      BY <1>4, <2>4, <2>7, <2>8, <3>1, SplicedKeeps
  <2>11. QED
    BY <1>3, <1>6, <2>10 DEF GeneratorInv
<1>9. QED
  BY <1>3, <1>7, <1>8

LEMMA YieldValueKeeps ==
  ASSUME GeneratorInv, raised[Runner] = None, Runner # User, YieldValue(Runner)
  PROVE  GeneratorInv'
<1> DEFINE h == Runner
           it == calls[1].it
           e == [by |-> h, n |-> gen[h].val + 1]
           top == gen[it].top
<1>1. /\ h = Top(calls) /\ Frames(gen, calls) /\ Shape(gen) /\ gen \in [Gen -> GenPromise]
      /\ CallShape(gen, calls)
  BY DEF Runner, Top, GeneratorInv, Frames, Shape
<1>2. h \in Gen /\ calls # <<>> /\ h = calls[1].in
  BY <1>1, TopIn DEF Top
<1>3. /\ gen' = [gen EXCEPT ![h].at = "yield", ![h].val = @ + 1]
      /\ calls' = Tail(calls)
      /\ log' = [log EXCEPT ![h] = Append(log[h], e)]
      /\ seen' = [seen EXCEPT ![it] = Append(seen[it], [by |-> top, n |-> gen'[top].val])]
      /\ UNCHANGED <<raised, caught>>
  BY DEF YieldValue
<1> HIDE DEF h, it, e, top
<1>4. /\ LogShape(gen, log, seen) /\ FlatShape(log, seen) /\ ErrorsFound(gen, log, raised, caught)
      /\ RaisedShape(calls, raised) /\ log \in [Gen -> Seq(Entry)] /\ seen \in [Gen -> Seq(Entry)]
  BY DEF GeneratorInv, LogShape
<1>5. gen[h].at = "run" /\ gen[h].val \in Nat /\ it \in Gen /\ Active(gen, it) /\ Base(gen, h) = it
  <2>1. 1 \in 1..Len(calls)
    <3>1. Len(calls) \in Nat /\ Len(calls) # 0
      BY <1>1, <1>2, LenProperties, EmptySeq DEF CallShape
    <3>2. QED
      BY <3>1
  <2>2. gen[calls[1].in].at = "run" /\ Base(gen, calls[1].in) = calls[1].it /\ Active(gen, calls[1].it)
    BY <1>1, <2>1 DEF CallShape
  <2>3. calls[1] \in [it : Gen, in : Gen]
    BY <1>1, <2>1, ElementOfSeq DEF CallShape
  <2>4. gen[h].val \in Nat
    BY <1>1, <1>2 DEF GenPromise
  <2>5. QED
    BY <1>2, <2>2, <2>3, <2>4 DEF it
<1>6. e \in Entry /\ e.n # 0 /\ e.by = h /\ e.n = gen[h].val + 1 /\ e = [by |-> h, n |-> gen[h].val + 1]
  BY <1>2, <1>5 DEF e, Entry
<1>7. PICK P : P = {c \in Gen : Active(gen, c) /\ Base(gen, c) = it}
  OBVIOUS
<1>8. Carried(log, seen, P, it, h, e) /\ top = h
  <2>1. Chain(gen, calls, P, it, h, e)
    BY <1>1, <1>2, <1>6, <1>7 DEF Chain, it
  <2>2. QED
    BY <1>1, <1>4, <2>1, CarriedAlong DEF top
<1>9. /\ gen' \in [Gen -> GenPromise] /\ gen'[h].at = "yield" /\ gen'[h].val = gen[h].val + 1
      /\ \A c \in Gen : Alike(gen, gen', c)
      /\ \A c \in Gen \ {h} : gen'[c].at = gen[c].at /\ gen'[c].val = gen[c].val
  BY <1>1, <1>2, <1>3, <1>5 DEF GenPromise, Spot, Alike
<1>10. Frames(gen', Tail(calls))
  BY <1>1, <1>2, <1>9, YieldFrames
<1>11. Appended(log, log', h, e)
  <2>1. log[h] \in Seq(Entry)
    BY <1>2, <1>4
  <2>2. Append(log[h], e) \in Seq(Entry)
    BY <1>6, <2>1, LastAdded
  <2>3. QED
    BY <1>2, <1>3, <1>4, <1>6, <2>2 DEF Appended
<1>12. /\ seen' \in [Gen -> Seq(Entry)] /\ seen'[it] = Append(seen[it], e)
       /\ \A c \in Gen : c # it => seen'[c] = seen[c]
  <2>1. seen' = [seen EXCEPT ![it] = Append(seen[it], e)]
    BY <1>3, <1>6, <1>8, <1>9
  <2>2. seen[it] \in Seq(Entry)
    BY <1>4, <1>5
  <2>3. Append(seen[it], e) \in Seq(Entry)
    BY <1>6, <2>2, LastAdded
  <2>4. QED
    BY <1>4, <1>5, <2>1, <2>3
<1>13. Grown(gen, gen', h, e)
  <2>1. \A c \in Gen : gen[c].at = "none" => gen[c].info = None
    BY <1>1 DEF Shape, MadeShape
  <2>2. QED
    BY <1>2, <1>5, <1>6, <1>9, <2>1 DEF Grown, Alike, Up
<1>14. LogShape(gen', log', seen')
  <2>1. \A c \in Gen : gen'[c].at \in {"none", "initial"} => seen'[c] = seen[c]
    BY <1>5, <1>9, <1>12 DEF Active
  <2>2. /\ log' \in [Gen -> Seq(Entry)] /\ log'[h] = Append(log[h], e)
        /\ \A c \in Gen \ {h} : log'[c] = log[c]
    BY <1>11 DEF Appended
  <2>3. QED
    BY <1>1, <1>4, <1>12, <1>13, <2>1, <2>2, LogGrown
<1>15. FlatShape(log', seen')
  BY <1>4, <1>8, <1>11, <1>12, FlatYielded
<1>16. ErrorsFound(gen', log', raised, caught)
  <2>1. e # [by |-> h, n |-> 0]
    BY <1>6
  <2>2. \A c \in Gen : ThrewIn(log', c) <=> ThrewIn(log, c)
    BY <1>11, <2>1, ThrewAdded
  <2>3. \A c \in Gen : gen'[c].owner = gen[c].owner
    BY <1>9 DEF Alike
  <2>4. QED
    BY <1>4, <2>2, <2>3, ErrorsKept
<1>17. RaisedShape(calls', raised')
  BY <1>1, <1>3, <1>4, CalmCalls DEF h
<1>18. QED
  BY <1>3, <1>10, <1>14, <1>15, <1>16, <1>17 DEF GeneratorInv

\* The frame h, which runs, has ended, with an exception if threw.
EndsChain(gs, hs, lg, lh, h, threw) ==
    /\ Shape(gs) /\ Older(gs, hs) /\ h \in Gen /\ gs[h].at = "run" /\ hs[h].at \in {"done", "gone"}
    /\ lg \in [Gen -> Seq(Entry)] /\ lh \in [Gen -> Seq(Entry)]
    /\ threw => Appended(lg, lh, h, [by |-> h, n |-> 0])
    /\ ~threw => lh = lg

LEMMA EndedLogs ==
  ASSUME NEW gs, NEW hs, NEW lg, NEW lh, NEW sn, NEW h, NEW threw \in BOOLEAN,
         LogShape(gs, lg, sn), FlatShape(lg, sn), EndsChain(gs, hs, lg, lh, h, threw)
  PROVE  /\ LogShape(hs, lh, sn) /\ FlatShape(lh, sn)
         /\ \A c \in Gen : ThrewIn(lh, c) <=> ThrewIn(lg, c) \/ (c = h /\ threw)
         /\ ~ThrewIn(lg, h)
<1>1. /\ Shape(gs) /\ Older(gs, hs) /\ h \in Gen /\ gs[h].at = "run" /\ hs[h].at \in {"done", "gone"}
      /\ lg \in [Gen -> Seq(Entry)] /\ lh \in [Gen -> Seq(Entry)]
      /\ sn \in [Gen -> Seq(Entry)]
  BY DEF EndsChain, LogShape
<1>2. ~ThrewIn(lg, h)
  BY <1>1 DEF LogShape
<1>3. CASE ~threw
  <2>1. lh = lg
    BY <1>3 DEF EndsChain
  <2>2. LogShape(hs, lg, sn)
    BY <1>1, LogKept
  <2>3. QED
    BY <1>2, <1>3, <2>1, <2>2
<1>4. CASE threw
  <2>1. PICK e : e = [by |-> h, n |-> 0]
    OBVIOUS
  <2>2. e \in Entry /\ e.n = 0 /\ e.by = h
    BY <1>1, <2>1 DEF Entry
  <2>3. Appended(lg, lh, h, e)
    BY <1>4, <2>1 DEF EndsChain
  <2>4. lh[h] = Append(lg[h], e) /\ \A c \in Gen : c # h => lh[c] = lg[c]
    BY <2>3 DEF Appended
  <2>5. Grown(gs, hs, h, e)
    BY <1>1, <2>2 DEF Grown, Older, Up
  <2>6. LogShape(hs, lh, sn)
    BY <1>1, <2>4, <2>5, LogGrown
  <2>7. FlatShape(lh, sn)
    BY <1>1, <2>2, <2>4, FlatNoted
  <2>8. \A c \in Gen : ThrewIn(lh, c) <=> ThrewIn(lg, c) \/ c = h
    BY <2>1, <2>3, ThrewAdded
  <2>9. QED
    BY <1>2, <1>4, <2>6, <2>7, <2>8
<1>5. QED
  BY <1>3, <1>4

\* Its exception, if any, is left to the one that has made it, who goes on.
Delivers(gs, hs, cs, ds, lg, lh, rs, qs, h, threw) ==
    /\ h \in Gen /\ h = Top(cs) /\ gs[h].owner = Top(ds) /\ gs[h].owner \in Gen \cup {User}
    /\ rs[h] # None => threw
    /\ \A x \in Gen \cup {User} : qs[x] = IF threw /\ x = gs[h].owner THEN h ELSE None
    /\ qs \in [Gen \cup {User} -> Gen \cup {None}]
    /\ \A c \in Gen : hs[c].owner = gs[c].owner
    /\ \A c \in Gen : ThrewIn(lh, c) <=> ThrewIn(lg, c) \/ (c = h /\ threw)
    /\ \A c \in Gen : ThrewIn(lg, c) => gs[c].owner \in Gen \cup {User}

LEMMA ErrorDelivered ==
  ASSUME NEW gs, NEW hs, NEW cs, NEW ds, NEW lg, NEW lh, NEW rs, NEW qs, NEW ct, NEW h,
         NEW threw \in BOOLEAN, RaisedShape(cs, rs), ErrorsFound(gs, lg, rs, ct),
         Delivers(gs, hs, cs, ds, lg, lh, rs, qs, h, threw), ~ThrewIn(lg, h)
  PROVE  RaisedShape(ds, qs) /\ ErrorsFound(hs, lh, qs, ct)
<1>1. /\ h \in Gen /\ h = Top(cs) /\ gs[h].owner = Top(ds) /\ gs[h].owner \in Gen \cup {User}
      /\ rs[h] # None => threw
      /\ \A x \in Gen \cup {User} : qs[x] = IF threw /\ x = gs[h].owner THEN h ELSE None
      /\ qs \in [Gen \cup {User} -> Gen \cup {None}]
      /\ \A c \in Gen : hs[c].owner = gs[c].owner
      /\ \A c \in Gen : ThrewIn(lh, c) <=> ThrewIn(lg, c) \/ (c = h /\ threw)
      /\ \A c \in Gen : ThrewIn(lg, c) => gs[c].owner \in Gen \cup {User}
  BY DEF Delivers
<1>2. RaisedShape(ds, qs)
  BY <1>1 DEF RaisedShape
<1>3. ASSUME NEW g \in Gen, ThrewIn(lh, g)
      PROVE  \/ qs[hs[g].owner] = g
             \/ g \in ct
             \/ hs[g].owner \in Gen /\ ThrewIn(lh, hs[g].owner)
  <2>1. CASE g = h
    BY <1>1, <1>3, <2>1
  <2>2. CASE g # h
    <3> DEFINE o == gs[g].owner
    <3>1. ThrewIn(lg, g) /\ hs[g].owner = o /\ o \in Gen \cup {User}
      BY <1>1, <1>3, <2>2
    <3>2. rs[o] = g \/ g \in ct \/ (o \in Gen /\ ThrewIn(lg, o))
      BY <3>1 DEF ErrorsFound
    <3> HIDE DEF o
    <3>3. CASE rs[o] = g
      <4>1. g # None
        BY GenAssumption
      <4>2. o = h
        BY <1>1, <3>1, <3>3, <4>1 DEF RaisedShape
      <4>3. threw
        BY <1>1, <3>3, <4>1, <4>2
      <4>4. QED
        BY <1>1, <3>1, <4>2, <4>3
    <3>4. QED
      BY <1>1, <3>1, <3>2, <3>3
  <2>3. QED
    BY <2>1, <2>2
<1>4. QED
  BY <1>2, <1>3 DEF ErrorsFound

LEMMA DestroyedFields ==
  ASSUME NEW ks \in [Gen -> GenPromise], NEW D, \A c \in Gen : c \in D => ks[c].at # "none",
         NEW hs, hs = Destroyed(ks, D)
  PROVE  Dropped(ks, hs, D)
<1>1. "gone" \in Spot
  BY DEF Spot
<1>2. \A c \in Gen : hs[c] = IF c \in D THEN [ks[c] EXCEPT !.at = "gone"] ELSE ks[c]
  BY DEF Destroyed
<1>3. hs = [c \in Gen |-> hs[c]]
  BY DEF Destroyed
<1>4. \A c \in Gen : hs[c] \in GenPromise
  BY <1>1, <1>2 DEF GenPromise
<1>5. hs \in [Gen -> GenPromise]
  BY <1>3, <1>4
<1>6. ASSUME NEW c \in Gen
      PROVE  Alike(ks, hs, c) /\ hs[c].val = ks[c].val /\ hs[c].at = IF c \in D THEN "gone" ELSE ks[c].at
  <2>1. ks[c] \in GenPromise
    OBVIOUS
  <2>2. QED
    BY <1>2, <2>1 DEF Alike, GenPromise
<1>7. QED
  BY <1>5, <1>6 DEF Dropped

\* Who runs once the generator of the innermost resume() has ended.
LEMMA TopAfter ==
  ASSUME NEW gs, NEW cs, CallShape(gs, cs), cs # <<>>, gs[Top(cs)].info = None
  PROVE  Top(Tail(cs)) = gs[Top(cs)].owner
<1>1. cs \in Seq([it : Gen, in : Gen])
  BY DEF CallShape
<1>2. Len(cs) \in Nat /\ Len(cs) # 0 /\ 1 \in 1..Len(cs)
  <2>1. Len(cs) \in Nat /\ Len(cs) # 0
    BY <1>1, LenProperties, EmptySeq
  <2>2. QED
    BY <2>1
<1>3. Base(gs, cs[1].in) = cs[1].it /\ gs[cs[1].it].owner = IF 1 = Len(cs) THEN User ELSE cs[1 + 1].in
  BY <1>2 DEF CallShape
<1>4. Top(cs) = cs[1].in /\ cs[1].it = cs[1].in
  BY <1>3 DEF Top, Base
<1>5. /\ Tail(cs) \in Seq([it : Gen, in : Gen]) /\ Len(Tail(cs)) = Len(cs) - 1
      /\ \A i \in 1..Len(Tail(cs)) : Tail(cs)[i] = cs[i + 1]
  BY <1>1, HeadTailProperties
<1>6. CASE Len(cs) = 1
  <2>1. Len(Tail(cs)) = 0
    BY <1>5, <1>6
  <2>2. Tail(cs) = <<>>
    BY <1>5, <2>1, EmptySeq
  <2>3. QED
    BY <1>3, <1>4, <1>6, <2>2 DEF Top
<1>7. CASE Len(cs) # 1
  <2>1. 1 \in 1..Len(Tail(cs)) /\ Len(Tail(cs)) # 0
    BY <1>2, <1>5, <1>7
  <2>2. Tail(cs) # <<>> /\ Tail(cs)[1] = cs[1 + 1]
    BY <1>5, <2>1, EmptyList
  <2>3. QED
    BY <1>3, <1>4, <1>7, <2>2 DEF Top
<1>8. QED
  BY <1>6, <1>7

\* A generator ends, and its scope D with it.
EndingAt(gs, ks, h, D) ==
    /\ h \in Gen /\ gs[h].at = "run" /\ InScope(gs, h, D)
    /\ ks = [gs EXCEPT ![h].at = "done", ![h].info = None]

LEMMA EndedFields ==
  ASSUME NEW gs, NEW ks, NEW h, NEW D, Shape(gs), EndingAt(gs, ks, h, D),
         NEW rank, Numbered(gs, rank)
  PROVE  /\ ks \in [Gen -> GenPromise] /\ h \notin D
         /\ \A c \in Gen : ks[c].owner = gs[c].owner /\ ks[c].val = gs[c].val
         /\ \A c \in Gen : ks[c].root = gs[c].root /\ ks[c].top = gs[c].top
         /\ \A c \in Gen : ks[c].at = IF c = h THEN "done" ELSE gs[c].at
         /\ \A c \in Gen : ks[c].info = IF c = h THEN None ELSE gs[c].info
         /\ \A c \in Gen : c \in D => ks[c].at # "none"
         /\ gs[h].info = None => EndedAt(gs, ks, h)
<1> SUFFICES ASSUME h \in Gen, gs[h].at = "run", InScope(gs, h, D),
                    ks = [gs EXCEPT ![h].at = "done", ![h].info = None]
             PROVE  /\ ks \in [Gen -> GenPromise] /\ h \notin D
                    /\ \A c \in Gen : ks[c].owner = gs[c].owner /\ ks[c].val = gs[c].val
                    /\ \A c \in Gen : ks[c].root = gs[c].root /\ ks[c].top = gs[c].top
                    /\ \A c \in Gen : ks[c].at = IF c = h THEN "done" ELSE gs[c].at
                    /\ \A c \in Gen : ks[c].info = IF c = h THEN None ELSE gs[c].info
                    /\ \A c \in Gen : c \in D => ks[c].at # "none"
                    /\ gs[h].info = None => EndedAt(gs, ks, h)
  BY DEF EndingAt
<1>1. gs \in [Gen -> GenPromise]
  BY DEF Shape
<1>2. /\ ks \in [Gen -> GenPromise]
      /\ \A c \in Gen : ks[c].owner = gs[c].owner /\ ks[c].val = gs[c].val
      /\ \A c \in Gen : ks[c].root = gs[c].root /\ ks[c].top = gs[c].top
      /\ \A c \in Gen : ks[c].at = IF c = h THEN "done" ELSE gs[c].at
      /\ \A c \in Gen : ks[c].info = IF c = h THEN None ELSE gs[c].info
  <2> DEFINE a == [gs EXCEPT ![h].at = "done"]
             b == [a EXCEPT ![h].info = None]
  <2>1. ks = b
    OBVIOUS
  <2>2. "done" \in Spot
    BY DEF Spot
  <2> HIDE DEF a
  <2>3. a = [gs EXCEPT ![h].at = "done"]
    BY DEF a
  <2>4. /\ a \in [Gen -> GenPromise]
        /\ \A c \in Gen : a[c].owner = gs[c].owner /\ a[c].val = gs[c].val /\ a[c].info = gs[c].info
        /\ \A c \in Gen : a[c].root = gs[c].root /\ a[c].top = gs[c].top
        /\ \A c \in Gen : a[c].at = IF c = h THEN "done" ELSE gs[c].at
    BY <1>1, <2>2, <2>3 DEF GenPromise
  <2> HIDE DEF b
  <2>5. b = [a EXCEPT ![h].info = None]
    BY DEF b
  <2>6. /\ b \in [Gen -> GenPromise]
        /\ \A c \in Gen : b[c].owner = a[c].owner /\ b[c].val = a[c].val /\ b[c].at = a[c].at
        /\ \A c \in Gen : b[c].root = a[c].root /\ b[c].top = a[c].top
        /\ \A c \in Gen : b[c].info = IF c = h THEN None ELSE a[c].info
    BY <2>4, <2>5 DEF GenPromise
  <2>7. QED
    BY <2>1, <2>4, <2>6
<1>3. Up(gs, h)
  BY DEF Up
<1>4. h \notin D /\ \A c \in D : Up(gs, c)
  BY <1>3, ScopeFacts
<1>5. \A c \in Gen : c \in D => ks[c].at # "none"
  BY <1>2, <1>4 DEF Up
<1>6. gs[h].info = None => EndedAt(gs, ks, h)
  BY <1>2 DEF EndedAt, Alike
<1>7. QED
  BY <1>2, <1>4, <1>5, <1>6

\* A generator that is spliced in ends, and p goes on.
FinalAwait(gs, hs, h, p, r, D) ==
    /\ h \in Gen /\ gs[h].at = "run" /\ p = gs[h].info /\ p # None
    /\ r = Base(gs, h) /\ r \in Gen /\ gs[r].info = None /\ InScope(gs, h, D)
    /\ hs = Destroyed(Unnested(Destroyed([gs EXCEPT ![h].at = "done", ![h].info = None], D), p), {h})

LEMMA ReturnedFields ==
  ASSUME NEW gs, NEW hs, NEW h, NEW p, NEW r, NEW D, Shape(gs), FinalAwait(gs, hs, h, p, r, D),
         NEW rank, Numbered(gs, rank)
  PROVE  \E ks : Returned(gs, ks, h, p, r) /\ Dropped(ks, hs, D \cup {h})
<1>1. /\ h \in Gen /\ gs[h].at = "run" /\ p = gs[h].info /\ p # None
      /\ r = Base(gs, h) /\ r \in Gen /\ gs[r].info = None /\ InScope(gs, h, D)
  BY DEF FinalAwait
<1>2. PICK a : a = [gs EXCEPT ![h].at = "done", ![h].info = None]
  OBVIOUS
<1>3. PICK b : b = Destroyed(a, D)
  OBVIOUS
<1>4. PICK d : d = Unnested(b, p)
  OBVIOUS
<1>5. hs = Destroyed(d, {h})
  BY <1>2, <1>3, <1>4 DEF FinalAwait
<1>6. gs \in [Gen -> GenPromise] /\ Up(gs, h)
  BY <1>1 DEF Shape, Up
<1>7. p \in Gen /\ p = gs[h].owner
  BY <1>1, <1>6 DEF Shape, SpliceShape, GenPromise
<1>8. rank[p] \in Nat /\ rank[h] \in Nat /\ rank[p] < rank[h]
  BY <1>1, <1>7 DEF Numbered
<1>9. D \in SUBSET Gen /\ \A c \in D : rank[h] < rank[c]
  BY <1>1, <1>6, ScopeFacts
<1>10. p # h /\ p \notin D
  <2>1. \A c \in D : rank[c] \in Nat
    BY <1>9 DEF Numbered
  <2>2. QED
    BY <1>8, <1>9, <2>1
<1>11. /\ a \in [Gen -> GenPromise] /\ h \notin D
       /\ \A c \in Gen : a[c].owner = gs[c].owner /\ a[c].val = gs[c].val
       /\ \A c \in Gen : a[c].root = gs[c].root /\ a[c].top = gs[c].top
       /\ \A c \in Gen : a[c].at = IF c = h THEN "done" ELSE gs[c].at
       /\ \A c \in Gen : a[c].info = IF c = h THEN None ELSE gs[c].info
       /\ \A c \in Gen : c \in D => a[c].at # "none"
  <2>1. EndingAt(gs, a, h, D)
    BY <1>1, <1>2 DEF EndingAt
  <2>2. QED
    BY <2>1, EndedFields
<1>12. Dropped(a, b, D)
  BY <1>3, <1>11, DestroyedFields
<1>13. /\ b \in [Gen -> GenPromise]
       /\ \A c \in Gen : b[c].owner = gs[c].owner /\ b[c].val = gs[c].val /\ b[c].root = gs[c].root
       /\ \A c \in Gen : b[c].top = gs[c].top /\ b[c].info = IF c = h THEN None ELSE gs[c].info
       /\ \A c \in Gen : b[c].at = IF c \in D THEN "gone" ELSE IF c = h THEN "done" ELSE gs[c].at
  BY <1>11, <1>12 DEF Dropped, Alike
<1>14. b[p].root = r
  BY <1>1, <1>7, <1>13 DEF Base
<1>15. /\ d \in [Gen -> GenPromise]
       /\ \A c \in Gen : d[c].owner = b[c].owner /\ d[c].val = b[c].val /\ d[c].root = b[c].root
       /\ \A c \in Gen : d[c].info = b[c].info /\ d[c].top = IF c = r THEN p ELSE b[c].top
       /\ \A c \in Gen : d[c].at = IF c = p THEN "run" ELSE b[c].at
  <2> DEFINE x == [b EXCEPT ![p].at = "run"]
             y == [x EXCEPT ![b[p].root].top = p]
  <2>1. d = y
    BY <1>4 DEF Unnested
  <2>2. "run" \in Spot
    BY DEF Spot
  <2> HIDE DEF x
  <2>3. x = [b EXCEPT ![p].at = "run"]
    BY DEF x
  <2>4. /\ x \in [Gen -> GenPromise]
        /\ \A c \in Gen : x[c].owner = b[c].owner /\ x[c].val = b[c].val /\ x[c].root = b[c].root
        /\ \A c \in Gen : x[c].info = b[c].info /\ x[c].top = b[c].top
        /\ \A c \in Gen : x[c].at = IF c = p THEN "run" ELSE b[c].at
    BY <1>7, <1>13, <2>2, <2>3 DEF GenPromise
  <2> HIDE DEF y
  <2>5. y = [x EXCEPT ![b[p].root].top = p]
    BY DEF y
  <2>6. /\ y \in [Gen -> GenPromise]
        /\ \A c \in Gen : y[c].owner = x[c].owner /\ y[c].val = x[c].val /\ y[c].root = x[c].root
        /\ \A c \in Gen : y[c].info = x[c].info /\ y[c].top = IF c = r THEN p ELSE x[c].top
        /\ \A c \in Gen : y[c].at = x[c].at
    BY <1>1, <1>7, <1>14, <2>4, <2>5 DEF GenPromise
  <2>7. QED
    BY <2>1, <2>4, <2>6
<1>16. Dropped(d, hs, {h})
  <2>1. \A c \in Gen : c \in {h} => d[c].at # "none"
    BY <1>1, <1>10, <1>11, <1>13, <1>15
  <2>2. QED
    BY <1>5, <1>15, <2>1, DestroyedFields
<1>17. PICK ks : ks = Back(gs, h, p, r)
  OBVIOUS
<1>18. /\ ks \in [Gen -> GenPromise]
       /\ \A c \in Gen : ks[c].owner = gs[c].owner /\ ks[c].val = gs[c].val
       /\ \A c \in Gen : ks[c].at = IF c = h THEN "done" ELSE IF c = p THEN "run" ELSE gs[c].at
       /\ \A c \in Gen : ks[c].root = gs[c].root
       /\ \A c \in Gen : ks[c].info = IF c = h THEN None ELSE gs[c].info
       /\ \A c \in Gen : ks[c].top = IF c = r THEN p ELSE gs[c].top
  <2>1. Unnests(gs, ks, h, p, r)
    BY <1>1, <1>6, <1>7, <1>10, <1>17 DEF Unnests
  <2>2. QED
    BY <2>1, UnnestedFields
<1>19. Returned(gs, ks, h, p, r)
  BY <1>1, <1>7, <1>18 DEF Returned
<1>20. Dropped(ks, hs, D \cup {h})
  <2>1. hs \in [Gen -> GenPromise]
    BY <1>16 DEF Dropped
  <2>2. ASSUME NEW c \in Gen
        PROVE  /\ Alike(ks, hs, c) /\ hs[c].val = ks[c].val
               /\ hs[c].at = IF c \in D \cup {h} THEN "gone" ELSE ks[c].at
    <3>1. /\ Alike(d, hs, c) /\ hs[c].val = d[c].val /\ hs[c].at = IF c = h THEN "gone" ELSE d[c].at
      BY <1>16 DEF Dropped
    <3>2. Alike(ks, hs, c) /\ hs[c].val = ks[c].val
      BY <1>13, <1>15, <1>18, <3>1 DEF Alike
    <3>3. hs[c].at = IF c \in D \cup {h} THEN "gone" ELSE ks[c].at
      BY <1>10, <1>13, <1>15, <1>18, <3>1
    <3>4. QED
      BY <3>2, <3>3
  <2>3. QED
    BY <2>1, <2>2 DEF Dropped
<1>21. QED
  BY <1>19, <1>20

\* A frame that is destroyed or ends changes nothing else that the logs depend on.
EndedWith(gs, ks, hs, h, E) ==
    /\ h \in Gen /\ gs[h].at = "run" /\ ks[h].at = "done" /\ Dropped(ks, hs, E)
    /\ \A c \in Gen : ks[c].owner = gs[c].owner
    /\ \A c \in Gen : c # h => ks[c].info = gs[c].info
    /\ \A c \in Gen : c # h => ks[c].at = gs[c].at \/ (ks[c].at = "run" /\ gs[c].at = "nest")
    /\ gs[h].info = None => ks[h].info = None
    /\ gs[h].info # None => h \in E
    /\ \A c \in Gen : c \in E => gs[c].at # "none"

LEMMA EndedOlder ==
  ASSUME NEW gs, NEW ks, NEW hs, NEW h, NEW E, Shape(gs), EndedWith(gs, ks, hs, h, E)
  PROVE  Older(gs, hs) /\ hs[h].at \in {"done", "gone"}
<1> SUFFICES ASSUME h \in Gen, gs[h].at = "run", ks[h].at = "done", Dropped(ks, hs, E),
                    \A c \in Gen : ks[c].owner = gs[c].owner,
                    \A c \in Gen : c # h => ks[c].info = gs[c].info,
                    \A c \in Gen : c # h => ks[c].at = gs[c].at \/ (ks[c].at = "run" /\ gs[c].at = "nest"),
                    gs[h].info = None => ks[h].info = None, gs[h].info # None => h \in E,
                    \A c \in Gen : c \in E => gs[c].at # "none"
             PROVE  Older(gs, hs) /\ hs[h].at \in {"done", "gone"}
  BY DEF EndedWith
<1>1. /\ \A c \in Gen : Alike(ks, hs, c)
      /\ \A c \in Gen : hs[c].at = IF c \in E THEN "gone" ELSE ks[c].at
  BY DEF Dropped
<1>2. \A c \in Gen : gs[c].at = "none" => gs[c].info = None
  BY DEF Shape, MadeShape
<1>3. ASSUME NEW c \in Gen
      PROVE  /\ hs[c].at \in {"none", "initial"} => gs[c].at \in {"none", "initial"}
             /\ gs[c].at \in {"done", "gone"} => hs[c].at \in {"done", "gone"}
             /\ gs[c].at = "none" => ~Up(hs, c) \/ hs[c].info = None
             /\ gs[c].at # "none" => /\ hs[c].owner = gs[c].owner
                                     /\ Up(hs, c) => Up(gs, c) /\ hs[c].info = gs[c].info
  <2>1. CASE c = h
    BY <1>1, <2>1 DEF Alike, Up
  <2>2. CASE c # h
    BY <1>1, <1>2, <2>2 DEF Alike, Up
  <2>3. QED
    BY <2>1, <2>2
<1>4. QED
  BY <1>1, <1>3 DEF Older

LEMMA FinishKeeps ==
  ASSUME GeneratorInv, Runner # User, NEW threw \in BOOLEAN, Finish(Runner, threw)
  PROVE  GeneratorInv'
<1> DEFINE h == Runner
           p == gen[h].info
           o == gen[h].owner
           D == Locals(h)
           a == [gen EXCEPT ![h].at = "done", ![h].info = None]
           to == IF p # None THEN p ELSE o
<1>1. /\ h = Top(calls) /\ Frames(gen, calls) /\ Shape(gen) /\ gen \in [Gen -> GenPromise]
      /\ CallShape(gen, calls)
  BY DEF Runner, Top, GeneratorInv, Frames, Shape
<1>2. h \in Gen /\ calls # <<>> /\ h = calls[1].in
  BY <1>1, TopIn DEF Top
<1>3. /\ raised[h] # None => threw
      /\ p = None => gen' = Destroyed(a, D) /\ calls' = Tail(calls)
      /\ p # None => /\ gen' = Destroyed(Unnested(Destroyed(a, D), p), {h})
                     /\ calls' = <<[calls[1] EXCEPT !.in = p]>> \o Tail(calls)
      /\ raised' = [raised EXCEPT ![h] = None, ![to] = IF threw THEN h ELSE @]
      /\ log' = IF threw THEN [log EXCEPT ![h] = Append(log[h], [by |-> h, n |-> 0])] ELSE log
      /\ UNCHANGED <<caught, seen>>
  BY DEF Finish, Throws, SwitchTo
<1>4. InScope(gen, h, D)
  <2>1. IsTree(gen, h, GenTree(h))
    BY DEF IsTree, GenTree
  <2>2. \A c : c \in D <=> c \in GenTree(h) /\ c # h /\ Up(gen, c)
    BY DEF Locals, Alive, Up, GenTree
  <2>3. QED
    BY <2>1, <2>2 DEF InScope
<1> HIDE DEF h, D
<1>5. PICK n \in Nat : \E rank \in [Gen \cup {User} -> 0..n] : RankedBy(gen, calls, n, rank)
  BY <1>1 DEF Frames, Ranked
<1>6. PICK rank \in [Gen \cup {User} -> 0..n] : RankedBy(gen, calls, n, rank)
  BY <1>5
<1>7. Numbered(gen, rank)
  BY <1>1, <1>6, CallFacts DEF Numbered
<1>8. /\ LogShape(gen, log, seen) /\ FlatShape(log, seen) /\ ErrorsFound(gen, log, raised, caught)
      /\ RaisedShape(calls, raised) /\ log \in [Gen -> Seq(Entry)]
  BY DEF GeneratorInv, LogShape
<1>9. /\ 1 \in 1..Len(calls) /\ calls \in Seq(ResumeCall)
      /\ gen[h].at = "run" /\ Base(gen, h) = calls[1].it /\ gen[calls[1].it].info = None
      /\ Base(gen, h) \in Gen
  <2>1. calls \in Seq(ResumeCall) /\ 1 \in 1..Len(calls)
    <3>1. calls \in Seq(ResumeCall)
      BY <1>1 DEF CallShape, ResumeCall
    <3>2. Len(calls) \in Nat /\ Len(calls) # 0
      BY <1>2, <3>1, LenProperties, EmptySeq
    <3>3. QED
      BY <3>1, <3>2
  <2>2. /\ gen[calls[1].in].at = "run" /\ Base(gen, calls[1].in) = calls[1].it
        /\ gen[calls[1].it].info = None
    BY <1>1, <2>1 DEF CallShape
  <2>3. calls[1] \in ResumeCall
    BY <2>1, ElementOfSeq
  <2>4. QED
    BY <1>2, <2>1, <2>2, <2>3 DEF ResumeCall
<1>10. o \in Gen \cup {User} /\ o # h
  <2>1. o \in Gen \cup {User}
    BY <1>1, <1>2, <1>9, GenAssumption DEF Shape, MadeShape, GenPromise
  <2>2. rank[o] < rank[h] /\ rank[h] \in Nat
    BY <1>2, <1>7, <1>9 DEF Numbered
  <2>3. QED
    BY <2>1, <2>2
<1>11. /\ Frames(gen', calls') /\ Older(gen, gen') /\ gen'[h].at \in {"done", "gone"}
       /\ to = o /\ Top(calls') = o /\ \A c \in Gen : gen'[c].owner = gen[c].owner
  <2>1. CASE p = None
    <3>1. PICK ks : ks = a
      OBVIOUS
    <3>2. EndingAt(gen, ks, h, D)
      BY <1>2, <1>4, <1>9, <3>1 DEF EndingAt
    <3>3. /\ ks \in [Gen -> GenPromise]
          /\ \A c \in Gen : ks[c].owner = gen[c].owner
          /\ \A c \in Gen : ks[c].at = IF c = h THEN "done" ELSE gen[c].at
          /\ \A c \in Gen : ks[c].info = IF c = h THEN None ELSE gen[c].info
          /\ \A c \in Gen : c \in D => ks[c].at # "none"
          /\ EndedAt(gen, ks, h) /\ h \notin D
      BY <1>1, <1>7, <2>1, <3>2, EndedFields
    <3> HIDE DEF a
    <3>4. gen' = Destroyed(ks, D) /\ calls' = Tail(calls)
      BY <1>3, <2>1, <3>1
    <3>5. Dropped(ks, gen', D)
      BY <3>3, <3>4, DestroyedFields
    <3>6. Frames(gen', Tail(calls))
      BY <1>1, <1>2, <1>4, <2>1, <3>3, <3>5, EndFrames
    <3>7. Older(gen, gen') /\ gen'[h].at \in {"done", "gone"}
      <4>1. \A c \in Gen : c \in D => gen[c].at # "none"
        BY <3>3
      <4>2. EndedWith(gen, ks, gen', h, D)
        BY <1>2, <1>9, <2>1, <3>3, <3>5, <4>1 DEF EndedWith
      <4>3. QED
        BY <1>1, <4>2, EndedOlder
    <3>8. Top(Tail(calls)) = o
      BY <1>1, <1>2, <2>1, TopAfter
    <3>9. \A c \in Gen : gen'[c].owner = gen[c].owner
      BY <3>3, <3>5 DEF Dropped, Alike
    <3>10. QED
      BY <2>1, <3>4, <3>6, <3>7, <3>8, <3>9
  <2>2. CASE p # None
    <3>1. PICK r : r = Base(gen, h)
      OBVIOUS
    <3>2. FinalAwait(gen, gen', h, p, r, D)
      BY <1>2, <1>3, <1>4, <1>9, <2>2, <3>1 DEF FinalAwait
    <3> HIDE DEF a
    <3>3. PICK ks : Returned(gen, ks, h, p, r) /\ Dropped(ks, gen', D \cup {h})
      BY <1>1, <1>7, <3>2, ReturnedFields
    <3>4. /\ p \in Gen /\ p = o /\ p # h /\ gen[p].at = "nest"
          /\ \A c \in Gen : ks[c].owner = gen[c].owner
          /\ \A c \in Gen : ks[c].at = IF c = h THEN "done" ELSE IF c = p THEN "run" ELSE gen[c].at
          /\ \A c \in Gen : ks[c].info = IF c = h THEN None ELSE gen[c].info
      BY <1>1, <3>3, FrameReturned DEF Returned
    <3>5. Frames(gen', <<[calls[1] EXCEPT !.in = p]>> \o Tail(calls))
      BY <1>1, <1>2, <1>4, <3>3, ReturnFrames
    <3>6. Older(gen, gen') /\ gen'[h].at \in {"done", "gone"}
      <4>1. \A c \in Gen : c \in D \cup {h} => gen[c].at # "none"
        BY <1>1, <1>2, <1>4, <1>7, <1>9, ScopeFacts DEF Up
      <4>2. \A c \in Gen : c # h => ks[c].at = gen[c].at \/ (ks[c].at = "run" /\ gen[c].at = "nest")
        BY <3>4
      <4>3. h \in D \cup {h}
        OBVIOUS
      <4>4. EndedWith(gen, ks, gen', h, D \cup {h})
        BY <1>2, <1>9, <2>2, <3>3, <3>4, <4>1, <4>2, <4>3 DEF EndedWith
      <4>5. QED
        BY <1>1, <4>4, EndedOlder
    <3>7. Top(<<[calls[1] EXCEPT !.in = p]>> \o Tail(calls)) = p
      <4> DEFINE x == [calls[1] EXCEPT !.in = p]
      <4>1. x \in ResumeCall /\ x.in = p
        <5>1. calls[1] \in ResumeCall
          BY <1>9, ElementOfSeq
        <5>2. QED
          BY <3>4, <5>1 DEF ResumeCall
      <4>2. Tail(calls) \in Seq(ResumeCall)
        BY <1>2, <1>9, HeadTailProperties
      <4> HIDE DEF x
      <4>3. (<<x>> \o Tail(calls))[1] = x /\ Len(<<x>> \o Tail(calls)) # 0
        <5>1. Len(Tail(calls)) \in Nat
          BY <4>2, LenProperties
        <5>2. QED
          BY <4>1, <4>2, <5>1, Fronted
      <4>4. <<x>> \o Tail(calls) # <<>>
        BY <4>3, EmptyList
      <4>5. QED
        BY <4>1, <4>3, <4>4 DEF Top, x
    <3>8. \A c \in Gen : gen'[c].owner = gen[c].owner
      BY <3>3, <3>4 DEF Dropped, Alike
    <3>9. calls' = <<[calls[1] EXCEPT !.in = p]>> \o Tail(calls)
      BY <1>3, <2>2
    <3>10. QED
      BY <2>2, <3>4, <3>5, <3>6, <3>7, <3>8, <3>9
  <2>3. QED
    BY <2>1, <2>2
<1> HIDE DEF a, to
<1>12. EndsChain(gen, gen', log, log', h, threw)
  <2>1. CASE threw
    <3>1. log[h] \in Seq(Entry) /\ [by |-> h, n |-> 0] \in Entry
      BY <1>2, <1>8 DEF Entry
    <3>2. Append(log[h], [by |-> h, n |-> 0]) \in Seq(Entry)
      BY <3>1, LastAdded
    <3>3. log' = [log EXCEPT ![h] = Append(log[h], [by |-> h, n |-> 0])]
      BY <1>3, <2>1
    <3>4. Appended(log, log', h, [by |-> h, n |-> 0])
      BY <1>2, <1>8, <3>1, <3>2, <3>3 DEF Appended
    <3>5. log' \in [Gen -> Seq(Entry)]
      BY <3>4 DEF Appended
    <3>6. QED
      BY <1>1, <1>2, <1>8, <1>9, <1>11, <2>1, <3>4, <3>5 DEF EndsChain
  <2>2. CASE ~threw
    BY <1>1, <1>2, <1>3, <1>8, <1>9, <1>11, <2>2 DEF EndsChain
  <2>3. QED
    BY <2>1, <2>2
<1>13. /\ LogShape(gen', log', seen) /\ FlatShape(log', seen)
       /\ \A c \in Gen : ThrewIn(log', c) <=> ThrewIn(log, c) \/ (c = h /\ threw)
       /\ ~ThrewIn(log, h)
  BY <1>8, <1>12, EndedLogs
<1>14. /\ raised' \in [Gen \cup {User} -> Gen \cup {None}]
       /\ \A x \in Gen \cup {User} : raised'[x] = IF threw /\ x = o THEN h ELSE None
  <2>1. /\ raised \in [Gen \cup {User} -> Gen \cup {None}]
        /\ \A x \in Gen \cup {User} : x # h => raised[x] = None
    BY <1>1, <1>8 DEF RaisedShape
  <2>2. raised' = [raised EXCEPT ![h] = None, ![o] = IF threw THEN h ELSE @]
    BY <1>3, <1>11
  <2> HIDE DEF o
  <2>3. QED
    BY <1>2, <1>10, <2>1, <2>2
<1>15. Delivers(gen, gen', calls, calls', log, log', raised, raised', h, threw)
  <2>1. ASSUME NEW c \in Gen, ThrewIn(log, c)
        PROVE  gen[c].owner \in Gen \cup {User}
    <3>1. gen[c].at \in {"done", "gone"}
      BY <1>8, <2>1 DEF LogShape
    <3>2. QED
      BY <1>1, <3>1, GenAssumption DEF Shape, MadeShape, GenPromise
  <2>2. QED
    BY <1>1, <1>2, <1>3, <1>10, <1>11, <1>13, <1>14, <2>1 DEF Delivers
<1>16. RaisedShape(calls', raised') /\ ErrorsFound(gen', log', raised', caught)
  BY <1>8, <1>13, <1>15, ErrorDelivered
<1>17. QED
  BY <1>3, <1>11, <1>13, <1>16 DEF GeneratorInv

-----------------------------------------------------------------------------
(* The bytes of a frame.                                                    *)

\* A number of bytes n and state behind it, from an address that is a multiple of 16.
LEMMA Behind ==
  ASSUME NEW base \in Nat, base % 16 = 0, NEW n \in Nat, NEW state \in Nat, NEW align,
         align \in {1, 2, 4, 8} \/ (align \in Nat \ {0} /\ align % 16 = 0), state % align = 0
  PROVE  /\ RoundUp(base + n, align) >= base + n
         /\ RoundUp(base + n, align) + state
              <= base + 16 * ((n + state + Widest(align) - 1) \div 16)
<1>1. CASE align = 1
  BY <1>1 DEF RoundUp, Widest, Block
<1>2. CASE align = 2
  BY <1>2 DEF RoundUp, Widest, Block
<1>3. CASE align = 4
  BY <1>3 DEF RoundUp, Widest, Block
<1>4. CASE align = 8
  BY <1>4 DEF RoundUp, Widest, Block
<1>5. CASE align \in Nat \ {0} /\ align % 16 = 0
  <2> DEFINE m == base + n + align - 1
             q == m \div align
             s == state \div align
             k == align \div 16
  <2>1. m \in Nat /\ align \in Nat /\ align > 0
    BY <1>5
  <2> HIDE DEF m
  <2>2. q \in Nat /\ q * align <= m /\ m < q * align + align
    BY <2>1
  <2>3. k \in Nat /\ align = 16 * k /\ align >= 16
    BY <1>5
  <2>4. s \in Nat /\ state = s * align
    BY <1>5
  <2> HIDE DEF q, s, k
  <2>5. PICK x \in Nat : q * align = 16 * x
    <3>1. q * k \in Nat /\ q * align = 16 * (q * k)
      BY <2>2, <2>3
    <3>2. QED
      BY <3>1
  <2>6. PICK y \in Nat : state = 16 * y
    <3>1. s * k \in Nat /\ s * align = 16 * (s * k)
      BY <2>3, <2>4
    <3>2. QED
      BY <2>4, <3>1
  <2>7. PICK z \in Nat : base = 16 * z
    <3>1. base \div 16 \in Nat /\ base = 16 * (base \div 16)
      OBVIOUS
    <3>2. QED
      BY <3>1
  <2>8. RoundUp(base + n, align) = 16 * x
    BY <2>5 DEF RoundUp, q, m
  <2>9. Widest(align) = align
    BY <2>1, <2>3 DEF Widest, Block
  <2>10. 16 * x <= m /\ m < 16 * x + align
    BY <2>2, <2>5
  <2>11. 16 * x >= base + n
    BY <2>1, <2>10 DEF m
  <2>12. 16 * x + state <= base + 16 * ((n + state + align - 1) \div 16)
    <3>1. 16 * (x + y - z) <= n + state + align - 1
      BY <2>1, <2>6, <2>7, <2>10 DEF m
    <3>2. n + state + align - 1 \in Nat /\ x + y - z \in Int
      BY <2>1
    <3>3. x + y - z <= (n + state + align - 1) \div 16
      BY <3>1, <3>2
    <3>4. QED
      BY <2>6, <2>7, <3>2, <3>3
  <2>13. QED
    BY <2>8, <2>9, <2>11, <2>12
<1>6. QED
  BY <1>1, <1>2, <1>3, <1>4, <1>5

LEMMA LayoutFits ==
  ASSUME NEW g \in Gen
  PROVE  LayoutSound(Layout[g])
<1>1. PICK l : l = Layout[g]
  OBVIOUS
<1>2. /\ l.base \in Nat /\ l.base % 16 = 0 /\ l.size \in Nat
      /\ l.kind \in {"plain", "typed", "erased"}
      /\ l.align \in {1, 2, 4, 8} \/ (l.align \in Nat \ {0} /\ l.align % 16 = 0)
      /\ l.state \in Nat /\ l.state % l.align = 0 /\ (l.kind = "plain" => l.state = 0)
  BY <1>1, LayoutAssumption
<1>3. Widest(l.align) \in Nat /\ Widest(l.align) >= 16
  BY <1>2 DEF Widest, Block
<1>4. GivenBack(l.size, l) = Allocation(l.size, l)
  <2>1. CASE l.kind = "plain"
    BY <2>1 DEF GivenBack, Allocation
  <2>2. CASE l.kind \in {"typed", "erased"} /\ l.state = 0
    BY <1>2, <2>2 DEF GivenBack, Allocation, Fn, Block
  <2>3. CASE l.kind \in {"typed", "erased"} /\ l.state # 0
    <3> DEFINE b == IF l.kind = "erased" THEN l.size + 8 ELSE l.size
    <3>1. GivenBack(l.size, l) = 16 * ((b + (l.state + Widest(l.align) - 1)) \div 16)
      BY <2>3 DEF GivenBack, Fn, Block
    <3>2. Allocation(l.size, l) = 16 * ((b + l.state + Widest(l.align) - 1) \div 16)
      BY <2>3 DEF Allocation, Fn, Block
    <3>3. b \in Nat
      BY <1>2
    <3> HIDE DEF b
    <3>4. b + (l.state + Widest(l.align) - 1) = b + l.state + Widest(l.align) - 1
      BY <1>2, <1>3, <3>3
    <3>5. QED
      BY <3>1, <3>2, <3>4
  <2>4. QED
    BY <1>2, <2>1, <2>2, <2>3
<1>5. l.kind # "typed" => l.size + Fn <= Allocation(l.size, l)
  <2>1. CASE l.kind = "plain"
    BY <1>2, <2>1 DEF Allocation, Fn
  <2>2. CASE l.kind = "erased" /\ l.state = 0
    BY <1>2, <2>2 DEF Allocation, Fn, Block
  <2>3. CASE l.kind = "erased" /\ l.state # 0
    <3>1. Allocation(l.size, l) = 16 * ((l.size + 8 + l.state + Widest(l.align) - 1) \div 16)
      BY <1>2, <2>3 DEF Allocation, Fn, Block
    <3>2. QED
      BY <1>2, <1>3, <3>1 DEF Fn
  <2>4. QED
    BY <1>2, <2>1, <2>2, <2>3
<1>6. ASSUME l.state # 0
      PROVE  /\ StoredAt(l) >= l.base + l.size
             /\ StoredAt(l) + l.state <= l.base + Allocation(l.size, l)
  <2>1. CASE l.kind = "typed"
    <3>1. Allocation(l.size, l) = 16 * ((l.size + l.state + Widest(l.align) - 1) \div 16)
      BY <1>2, <1>6, <2>1 DEF Allocation, Block
    <3>2. StoredAt(l) = RoundUp(l.base + l.size, l.align)
      BY <1>2, <2>1 DEF StoredAt
    <3>3. QED
      BY <1>2, <3>1, <3>2, Behind
  <2>2. CASE l.kind = "erased"
    <3> DEFINE n == l.size + 8
    <3>1. n \in Nat /\ l.base + n >= l.base + l.size
      BY <1>2
    <3>2. Allocation(l.size, l) = 16 * ((n + l.state + Widest(l.align) - 1) \div 16)
      BY <1>2, <1>6, <2>2 DEF Allocation, Fn, Block
    <3>3. StoredAt(l) = RoundUp(l.base + n, l.align)
      BY <1>2, <2>2 DEF StoredAt, Fn
    <3> HIDE DEF n
    <3>4. /\ RoundUp(l.base + n, l.align) >= l.base + n
          /\ RoundUp(l.base + n, l.align) + l.state
               <= l.base + 16 * ((n + l.state + Widest(l.align) - 1) \div 16)
      BY <1>2, <3>1, Behind
    <3>5. RoundUp(l.base + n, l.align) \in Int
      BY <1>2, <3>1 DEF RoundUp
    <3>6. RoundUp(l.base + n, l.align) >= l.base + l.size
      BY <1>2, <3>1, <3>4, <3>5
    <3>7. QED
      BY <3>2, <3>3, <3>4, <3>6
  <2>3. QED
    BY <1>2, <1>6, <2>1, <2>2
<1>7. QED
  BY <1>1, <1>4, <1>5, <1>6 DEF LayoutSound

-----------------------------------------------------------------------------
(* What the invariant says.                                                 *)

LEMMA IteratorsHold ==
  ASSUME GeneratorInv
  PROVE  IteratorSound
<1>1. Shape(gen) /\ CallShape(gen, calls)
  BY DEF GeneratorInv, Frames
<1>2. DOMAIN calls = 1..Len(calls) /\ \A i \in 1..Len(calls) : calls[i].in \in Gen /\ calls[i].it \in Gen
  <2>1. calls \in Seq(ResumeCall)
    BY <1>1 DEF CallShape, ResumeCall
  <2>2. DOMAIN calls = 1..Len(calls) /\ \A i \in 1..Len(calls) : calls[i] \in ResumeCall
    BY <2>1, Indices
  <2>3. QED
    BY <2>2 DEF ResumeCall
<1>3. ASSUME NEW g \in Gen, Alive(g)
      PROVE  /\ gen[g].owner = User \/ Alive(gen[g].owner)
             /\ gen[g].info # None => gen[gen[g].info].at = "nest"
             /\ gen[g].at = "nest" => \E c \in Gen : gen[c].info = g
             /\ gen[g].at = "done" => gen[g].top = g
             /\ gen[g].at \in {"yield", "nest"} /\ gen[g].info = None
                /\ (\A i \in DOMAIN calls : calls[i].it # g)
                   => gen[gen[g].top].at = "yield"
             /\ LayoutSound(Layout[g])
  <2>1. Up(gen, g)
    BY <1>3 DEF Alive, Up
  <2>2. gen[g].owner = User \/ Alive(gen[g].owner)
    BY <1>1, <2>1 DEF Shape, MadeShape, Up, Alive
  <2>3. /\ gen[g].info # None => gen[gen[g].info].at = "nest"
        /\ gen[g].at = "nest" => \E c \in Gen : gen[c].info = g
        /\ gen[g].at = "done" => gen[g].top = g
    BY <1>1, <2>1 DEF Shape, SpliceShape
  <2>4. ASSUME gen[g].at \in {"yield", "nest"}, gen[g].info = None,
               \A i \in DOMAIN calls : calls[i].it # g
        PROVE  gen[gen[g].top].at = "yield"
    <3> DEFINE t == gen[g].top
    <3>1. t \in Gen /\ gen[t].at \in {"run", "yield"} /\ Base(gen, t) = g
      BY <1>1, <2>4 DEF Shape, TopShape, Active
    <3> HIDE DEF t
    <3>2. gen[t].at # "run"
      <4>1. SUFFICES ASSUME gen[t].at = "run" PROVE FALSE
        OBVIOUS
      <4>2. PICK i \in 1..Len(calls) : calls[i].in = t
        BY <1>1, <3>1, <4>1 DEF CallShape
      <4>3. calls[i].it = g
        BY <1>1, <3>1, <4>2 DEF CallShape
      <4>4. QED
        BY <1>2, <2>4, <4>3
    <3>3. QED
      BY <3>1, <3>2 DEF t
  <2>5. LayoutSound(Layout[g])
    BY LayoutFits
  <2>6. QED
    BY <2>2, <2>3, <2>4, <2>5
<1>4. ASSUME NEW i \in DOMAIN calls
      PROVE  gen[calls[i].it].top = calls[i].in /\ gen[calls[i].in].at = "run"
  <2>1. i \in 1..Len(calls) /\ calls[i].in \in Gen
    BY <1>2
  <2>2. gen[calls[i].in].at = "run" /\ Base(gen, calls[i].in) = calls[i].it
    BY <1>1, <2>1 DEF CallShape
  <2>3. gen[Base(gen, calls[i].in)].top = calls[i].in
    BY <1>1, <2>1, <2>2 DEF Shape, TopShape, Active
  <2>4. QED
    BY <2>2, <2>3
<1>5. QED
  BY <1>3, <1>4 DEF IteratorSound

LEMMA LogsFlattened ==
  ASSUME GeneratorInv
  PROVE  Flattened
<1>1. /\ Shape(gen) /\ LogShape(gen, log, seen) /\ FlatShape(log, seen)
      /\ CallShape(gen, calls) /\ log \in [Gen -> Seq(Entry)]
  BY DEF GeneratorInv, Frames, LogShape
<1>2. PICK F : Solves(F, log) /\ Reads(F, log, seen)
  BY <1>1 DEF FlatShape
<1>3. PICK U : U = Upto /\ Unfolds(U, log)
  BY <1>1, <1>2, UptoEquation
<1>4. Agree(U, F)
  <2>1. Frames(gen, calls)
    BY DEF GeneratorInv
  <2>2. LogShape(gen, log, seen) /\ Solves(F, log) /\ Unfolds(U, log)
    BY <1>1, <1>2, <1>3
  <2>3. QED
    BY <2>1, <2>2, FlatUnique
<1>5. ASSUME NEW g \in Gen
      PROVE  seen[g] = IF Spliced(g) THEN <<>> ELSE Flat(g)
  <2>1. Len(log[g]) \in Nat
    BY <1>1, EntriesIn
  <2>2. Flat(g) = F[g][Len(log[g])]
    <3>1. U[<<g, Len(log[g])>>] = F[g][Len(log[g])]
      BY <1>4, <2>1 DEF Agree
    <3>2. QED
      BY <1>3, <3>1 DEF Flat
  <2>3. \A x \in Gen : \A y : y \in ToSet(log[x]) <=> In(y, log[x])
    BY <1>1, Indices
  <2>4. Spliced(g) <=> SplicedIn(log, g)
    BY <2>3 DEF Spliced, SplicedIn
  <2>5. QED
    BY <1>2, <2>2, <2>4 DEF Reads
<1>6. QED
  BY <1>5 DEF Flattened

LEMMA ErrorsHold ==
  ASSUME GeneratorInv
  PROVE  ErrorsDelivered
<1>1. \A g \in Gen : DOMAIN log[g] = 1..Len(log[g])
  <2>1. ASSUME NEW g \in Gen PROVE DOMAIN log[g] = 1..Len(log[g])
    <3>1. log[g] \in Seq(Entry)
      BY DEF GeneratorInv, LogShape
    <3>2. QED
      BY <3>1, Indices
  <2>2. QED
    BY <2>1
<1>2. \A g \in Gen : Threw(g) <=> ThrewIn(log, g)
  BY <1>1 DEF Threw, ThrewIn
<1>3. ErrorsFound(gen, log, raised, caught)
  BY DEF GeneratorInv
<1>4. QED
  BY <1>2, <1>3 DEF ErrorsFound, ErrorsDelivered

LEMMA FrameKept ==
  ASSUME GeneratorInv, [GenNext]_genVars
  PROVE  GeneratorInv'
<1>1. ASSUME raised[Runner] = None, NEW g \in Gen, Make(Runner, g)
      PROVE  GeneratorInv'
  BY <1>1, MakeKeeps
<1>2. ASSUME raised[Runner] = None, NEW g \in Gen, BeginGen(Runner, g)
      PROVE  GeneratorInv'
  BY <1>2, BeginKeeps
<1>3. ASSUME raised[Runner] = None, NEW g \in Gen, Increment(Runner, g)
      PROVE  GeneratorInv'
  BY <1>3, IncrementKeeps
<1>4. ASSUME raised[Runner] = None, NEW g \in Gen, Release(Runner, g)
      PROVE  GeneratorInv'
  BY <1>4, ReleaseKeeps
<1>5. ASSUME raised[Runner] = None, NEW g \in Gen, Runner # User, YieldElements(Runner, g)
      PROVE  GeneratorInv'
  BY <1>5, YieldElementsKeeps
<1>6. ASSUME raised[Runner] = None, Runner # User, YieldValue(Runner)
      PROVE  GeneratorInv'
  BY <1>6, YieldValueKeeps
<1>7. ASSUME Runner # User, NEW threw \in BOOLEAN, Finish(Runner, threw)
      PROVE  GeneratorInv'
  BY <1>7, FinishKeeps
<1>8. ASSUME Catch(Runner)
      PROVE  GeneratorInv'
  BY <1>8, CatchKeeps
<1>9. CASE UNCHANGED genVars
  <2>1. /\ gen' = gen /\ calls' = calls /\ raised' = raised /\ caught' = caught
        /\ log' = log /\ seen' = seen
    BY <1>9 DEF genVars
  <2>2. QED
    BY <2>1 DEF GeneratorInv
<1>10. CASE GenNext
  BY <1>1, <1>2, <1>3, <1>4, <1>5, <1>6, <1>7, <1>8, <1>10 DEF GenNext
<1>11. QED
  BY <1>9, <1>10

\* What is read through an iterator is what the generators under it yield, iterators
\* stand on frames that are alive and suspended, and an exception that ends a body is
\* delivered.
THEOREM GeneratorsKept == GenSpec => []GeneratorsSound
<1>1. GenInit => GeneratorInv
  BY FrameStart
<1>2. GeneratorInv /\ [GenNext]_genVars => GeneratorInv'
  BY FrameKept
<1>3. GeneratorInv => GeneratorsSound
  BY LogsFlattened, IteratorsHold, ErrorsHold DEF GeneratorsSound
<1>4. QED
  BY <1>1, <1>2, <1>3, PTL DEF GenSpec
=============================================================================
