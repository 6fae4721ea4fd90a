--------------------------- MODULE IoContextProofs ---------------------------
(***************************************************************************)
(* Proofs about io_context.  About EventLoop, for every set of coroutines  *)
(* and threads, every capacity of the ring and every number of posts in a  *)
(* pass: its types, the wakeup protocol, where the handles are and in      *)
(* which order, and what is left when the loop ends.  About StartBarrier,  *)
(* for every finite set of io_contexts, however many threads own them and  *)
(* whatever the program destroys: its counters, and what the barrier holds *)
(* back.                                                                   *)
(***************************************************************************)
EXTENDS EventLoop, StartBarrier, SequenceTheorems, FiniteSetTheorems, TLAPS

-----------------------------------------------------------------------------
(* The inductive invariant of the wakeup protocol.                          *)

\* The passes of the drain come after the loop and never lead back to it.
PassesInOrder == /\ at \in {"check", "poll", "arm"} => pass = 0
                 /\ at \in {"again", "exited"} => pass # 0

\* The loop will go round before it can sleep, or will be woken.
WillNotSleep == pass # 0 \/ at = "arm" \/ Wake \in fetched \/ WakeupComing

\* A handle in cross_queue will be seen: the loop has yet to drain it in this
\* round, or will not sleep.
PostsSeen == cross # <<>> /\ ~overflowed
             => at \in {"check", "drain cross"} \/ WillNotSleep

\* The flag will be seen: the loop has yet to read it, or will not sleep.
StopSeen == willStop => at = "check" \/ WillNotSleep

IInv == TypeOK /\ PassesInOrder /\ PostsSeen /\ StopSeen
-----------------------------------------------------------------------------
(* Types.                                                                   *)

LEMMA InitType == Init => TypeOK
<1> SUFFICES ASSUME Init PROVE TypeOK
  OBVIOUS
<1>1. /\ ring \in Seq(Coro) /\ cross \in Seq(Coro)
      /\ batch \in Seq(Coro) /\ deferred \in Seq(Coro)
      /\ Len(ring) = 0
  BY DEF Init
<1>2. /\ state \in [Coro -> CoroState]
      /\ at \in LoopState
      /\ thread \in [Thread -> {"idle", "wakeup"}]
  BY DEF Init, CoroState, LoopState
<1>3. pass \in 0..4 /\ posts \in 0..MaxPosts /\ Len(ring) <= RingCap
  BY <1>1, CapAssumption DEF Init
<1>4. QED
  BY <1>1, <1>2, <1>3 DEF Init, TypeOK

\* What forward_task leaves: the queues keep their type.
LEMMA ForwardType ==
  ASSUME TypeOK, NEW c \in Coro, Forward(c)
  PROVE  /\ ring' \in Seq(Coro) /\ Len(ring') <= RingCap
         /\ cross' \in Seq(Coro)
         /\ overflowed' \in BOOLEAN
         /\ overflowed' \/ (cross' = cross /\ overflowed' = overflowed)
<1>1. ring \in Seq(Coro) /\ cross \in Seq(Coro) /\ Len(ring) <= RingCap
  BY DEF TypeOK
<1>2. CASE Len(ring) < RingCap
  <2>1. ring' = Append(ring, c) /\ cross' = cross /\ overflowed' = overflowed
    BY <1>2 DEF Forward
  <2>2. Len(ring') = Len(ring) + 1 /\ ring' \in Seq(Coro)
    BY <1>1, <2>1
  <2>3. QED
    BY <1>1, <1>2, <2>1, <2>2, CapAssumption DEF TypeOK
<1>3. CASE ~(Len(ring) < RingCap)
  BY <1>1, <1>3 DEF Forward
<1>4. QED
  BY <1>2, <1>3

LEMMA ThreadType ==
  ASSUME TypeOK, NEW t \in Thread, ThreadStep(t)
  PROVE  TypeOK'
<1>1. ASSUME NEW c \in Coro, Post(t, c)
      PROVE  TypeOK'
  <2>1. cross' \in Seq(Coro)
    BY <1>1 DEF Post, TypeOK
  <2>2. /\ state' \in [Coro -> CoroState]
        /\ thread' \in [Thread -> {"idle", "wakeup"}]
    BY <1>1 DEF Post, TypeOK, CoroState
  <2>3. QED
    BY <1>1, <2>1, <2>2 DEF Post, TypeOK, loop, kernel
<1>2. CASE Stop(t)
  BY <1>2 DEF Stop, TypeOK, queues, loop, kernel
<1>3. CASE Wakeup(t)
  BY <1>3 DEF Wakeup, WriteEventfd, TypeOK, queues, loop, kernel
<1>4. QED
  BY <1>1, <1>2, <1>3 DEF ThreadStep

LEMMA CoroType ==
  ASSUME TypeOK, NEW c \in Coro, CoroStep(c) \/ IoReady(c)
  PROVE  TypeOK'
<1>1. ASSUME NEW where \in CoroState, Leaves(c, where)
      PROVE  /\ current' \in Coro \cup {NoCoro}
             /\ state' \in [Coro -> CoroState]
             /\ at' \in LoopState /\ pass' \in 0..4
             /\ batch' \in Seq(Coro)
             /\ willStop' \in BOOLEAN /\ readable' \in BOOLEAN /\ edge' \in BOOLEAN
             /\ fetched' \subseteq Coro \cup {Wake} /\ late' \subseteq Coro \cup {Wake}
             /\ residue' \subseteq Coro
             /\ thread' \in [Thread -> {"idle", "wakeup"}]
  BY <1>1 DEF Leaves, TypeOK, LoopState, kernel
<1>2. CASE Suspend(c)
  <2>1. PICK where \in {"done", "io", "held"} : Leaves(c, where)
    BY <1>2 DEF Suspend
  <2>2. where \in CoroState
    BY <2>1 DEF CoroState
  <2>3. QED
    BY <1>1, <1>2, <2>1, <2>2 DEF Suspend, TypeOK
<1>3. CASE Yield(c)
  <2>1. deferred' \in Seq(Coro)
    BY <1>3 DEF Yield, TypeOK
  <2>2. Leaves(c, "queued") /\ "queued" \in CoroState
    BY <1>3 DEF Yield, CoroState
  <2>3. QED
    BY <1>1, <1>3, <2>1, <2>2 DEF Yield, TypeOK
<1>4. CASE SyncOp(c)
  <2>1. Leaves(c, "queued") /\ "queued" \in CoroState
    BY <1>4 DEF SyncOp, CoroState
  <2>2. posts' \in 0..MaxPosts
    BY <1>4, CapAssumption DEF SyncOp, TypeOK
  <2>3. Forward(c)
    BY <1>4 DEF SyncOp
  <2>4. QED
    BY <1>1, <1>4, <2>1, <2>2, <2>3, ForwardType DEF SyncOp, TypeOK
<1>5. CASE StopSelf(c)
  BY <1>5 DEF StopSelf, WriteEventfd, TypeOK, queues, loop, kernel
<1>6. ASSUME NEW d \in Coro, Spawn(c, d)
      PROVE  TypeOK'
  <2>1. posts' \in 0..MaxPosts
    BY <1>6, CapAssumption DEF Spawn, TypeOK
  <2>2. state' \in [Coro -> CoroState]
    BY <1>6 DEF Spawn, TypeOK, CoroState
  <2>3. Forward(d)
    BY <1>6 DEF Spawn
  <2>4. QED
    BY <1>6, <2>1, <2>2, <2>3, ForwardType DEF Spawn, TypeOK, kernel
<1>7. CASE IoReady(c)
  BY <1>7 DEF IoReady, TypeOK, CoroState, queues, loop, kernel
<1>8. QED
  BY <1>2, <1>3, <1>4, <1>5, <1>6, <1>7 DEF CoroStep

LEMMA LoopType ==
  ASSUME TypeOK, LoopStep \/ Interrupted
  PROVE  TypeOK'
<1>1. CASE Check
  <2>1. at' \in LoopState
    BY <1>1 DEF Check, LoopState
  <2>2. pass' \in 0..4
    <3>1. pass' = 0 \/ pass' = 1
      BY <1>1 DEF Check
    <3>2. QED
      BY <3>1
  <2>3. residue' \subseteq Coro
    BY <1>1 DEF Check, Queued
  <2>4. QED
    BY <1>1, <2>1, <2>2, <2>3 DEF Check, TypeOK, queues, kernel
<1>2. CASE DrainCross
  <2>1. at' \in LoopState
    BY <1>2 DEF DrainCross, LoopState
  <2>2. cross' \in Seq(Coro) /\ batch' \in Seq(Coro)
    <3>1. cross' = <<>> /\ batch' = cross
      BY <1>2 DEF DrainCross
    <3>2. QED
      BY <3>1 DEF TypeOK
  <2>3. QED
    BY <1>2, <2>1, <2>2 DEF DrainCross, TypeOK, kernel
<1>3. CASE ForwardBatch
  <2>1. Head(batch) \in Coro /\ Tail(batch) \in Seq(Coro)
    BY <1>3 DEF ForwardBatch, TypeOK
  <2>2. Forward(Head(batch))
    BY <1>3 DEF ForwardBatch
  <2>3. QED
    BY <1>3, <2>1, <2>2, ForwardType DEF ForwardBatch, TypeOK, loop, kernel
<1>4. CASE BatchDone
  <2>1. at' \in LoopState
    BY <1>4 DEF BatchDone, LoopState
  <2>2. QED
    BY <1>4, <2>1 DEF BatchDone, TypeOK, queues, kernel
<1>5. CASE ForwardDeferred
  <2>1. Head(deferred) \in Coro /\ Tail(deferred) \in Seq(Coro)
    <3>1. deferred \in Seq(Coro) /\ deferred # <<>>
      BY <1>5 DEF ForwardDeferred, TypeOK
    <3>2. QED
      BY <3>1
  <2>2. Forward(Head(deferred))
    BY <1>5 DEF ForwardDeferred
  <2>3. QED
    BY <1>5, <2>1, <2>2, ForwardType DEF ForwardDeferred, TypeOK, loop, kernel
<1>6. CASE DeferredDone
  <2>1. at' \in LoopState
    BY <1>6 DEF DeferredDone, LoopState
  <2>2. QED
    BY <1>6, <2>1 DEF DeferredDone, TypeOK, queues, kernel
<1>7. CASE Resume
  <2>1. /\ Head(ring) \in Coro
        /\ Tail(ring) \in Seq(Coro)
        /\ Len(Tail(ring)) <= RingCap
    BY <1>7, CapAssumption DEF Resume, TypeOK
  <2>2. /\ state' \in [Coro -> CoroState]
        /\ residue' \subseteq Coro
    BY <1>7, <2>1 DEF Resume, TypeOK, CoroState
  <2>3. QED
    BY <1>7, <2>1, <2>2 DEF Resume, TypeOK, kernel
<1>8. CASE WorkDone
  <2>1. at' \in LoopState
    BY <1>8 DEF WorkDone, LoopState
  <2>2. 0 \in 0..MaxPosts
    BY CapAssumption
  <2>3. QED
    BY <1>8, <2>1, <2>2 DEF WorkDone, TypeOK, queues, kernel
<1>9. CASE Again
  <2>1. at' \in LoopState
    BY <1>9 DEF Again, LoopState
  <2>2. pass' \in 0..4
    <3>1. pass' = pass \/ (pass < 4 /\ pass' = pass + 1)
      BY <1>9 DEF Again
    <3>2. QED
      BY <3>1 DEF TypeOK
  <2>3. 0 \in 0..MaxPosts
    BY CapAssumption
  <2>4. QED
    BY <1>9, <2>1, <2>2, <2>3 DEF Again, TypeOK, queues, kernel
<1>10. CASE EpollWait
  <2>1. Events \subseteq Coro \cup {Wake}
    BY DEF Events, KernelReady
  <2>2. /\ fetched' \subseteq Coro \cup {Wake} /\ late' \subseteq Coro \cup {Wake}
        /\ state' \in [Coro -> CoroState] /\ edge' \in BOOLEAN
    BY <1>10, <2>1 DEF EpollWait, TypeOK, CoroState
  <2>3. QED
    BY <1>10, <2>2 DEF EpollWait, TypeOK, queues, loop
<1>11. CASE DrainEventfd
  <2>1. at' \in LoopState
    BY <1>11 DEF DrainEventfd, LoopState
  <2>2. QED
    BY <1>11, <2>1 DEF DrainEventfd, TypeOK, queues
<1>12. CASE ArmEventfd
  <2>1. at' \in LoopState
    BY <1>12 DEF ArmEventfd, LoopState
  <2>2. QED
    BY <1>12, <2>1 DEF ArmEventfd, TypeOK, queues
<1>13. ASSUME NEW c \in Coro, Complete(c)
       PROVE  TypeOK'
  <2>1. Forward(c)
    BY <1>13 DEF Complete
  <2>2. state' \in [Coro -> CoroState] /\ fetched' \subseteq Coro \cup {Wake}
    BY <1>13 DEF Complete, TypeOK, CoroState
  <2>3. QED
    BY <1>13, <2>1, <2>2, ForwardType DEF Complete, TypeOK, LoopState, kernel
<1>14. CASE Interrupted
  <2>1. at' \in LoopState
    BY <1>14 DEF Interrupted, LoopState
  <2>2. QED
    BY <1>14, <2>1 DEF Interrupted, TypeOK, queues, kernel
<1>15. QED
  BY <1>1, <1>2, <1>3, <1>4, <1>5, <1>6, <1>7, <1>8, <1>9, <1>10, <1>11, <1>12,
     <1>13, <1>14 DEF LoopStep

LEMMA NextType == TypeOK /\ [Next]_vars => TypeOK'
<1>1. ASSUME TypeOK, UNCHANGED vars
      PROVE  TypeOK'
  BY <1>1 DEF vars, queues, loop, kernel, TypeOK
<1>2. QED
  BY <1>1, LoopType, CoroType, ThreadType DEF Next

\* Every variable keeps its type, and the ring its capacity.
THEOREM TypeCorrect == Spec => []TypeOK
BY InitType, NextType, PTL DEF Spec
-----------------------------------------------------------------------------
(* The wakeup protocol.                                                     *)

LEMMA PassesStep == TypeOK /\ PassesInOrder /\ [Next]_vars => PassesInOrder'
<1> SUFFICES ASSUME TypeOK, PassesInOrder, [Next]_vars
             PROVE  PassesInOrder'
  OBVIOUS
<1> USE DEF PassesInOrder
<1>1. CASE UNCHANGED vars
  BY <1>1 DEF vars, loop
<1>2. CASE Check
  BY <1>2 DEF Check
<1>3. CASE DrainCross \/ BatchDone \/ DeferredDone
  BY <1>3 DEF DrainCross, BatchDone, DeferredDone
<1>4. CASE ForwardBatch \/ ForwardDeferred
  BY <1>4 DEF ForwardBatch, ForwardDeferred, loop
<1>5. CASE Resume
  BY <1>5 DEF Resume
<1>6. CASE WorkDone
  BY <1>6 DEF WorkDone
<1>7. CASE Again
  <2>1. pass # 0 /\ pass \in 0..4
    BY <1>7 DEF Again, TypeOK
  <2>2. pass + 1 # 0
    BY <2>1
  <2>3. QED
    BY <1>7, <2>1, <2>2 DEF Again
<1>8. CASE EpollWait
  BY <1>8 DEF EpollWait, loop
<1>9. CASE Interrupted \/ DrainEventfd \/ ArmEventfd
  BY <1>9 DEF Interrupted, DrainEventfd, ArmEventfd
<1>10. ASSUME NEW c \in Coro, Complete(c)
       PROVE  PassesInOrder'
  BY <1>10 DEF Complete
<1>11. ASSUME NEW c \in Coro, CoroStep(c) \/ IoReady(c)
       PROVE  PassesInOrder'
  <2>1. ASSUME NEW where, Leaves(c, where)
        PROVE  PassesInOrder'
    BY <2>1 DEF Leaves
  <2>2. CASE Suspend(c) \/ Yield(c) \/ SyncOp(c)
    BY <2>1, <2>2 DEF Suspend, Yield, SyncOp
  <2>3. ASSUME NEW d \in Coro, Spawn(c, d)
        PROVE  PassesInOrder'
    BY <2>3 DEF Spawn
  <2>4. CASE StopSelf(c) \/ IoReady(c)
    BY <2>4 DEF StopSelf, IoReady, loop
  <2>5. QED
    BY <1>11, <2>2, <2>3, <2>4 DEF CoroStep
<1>12. ASSUME NEW t \in Thread, ThreadStep(t)
       PROVE  PassesInOrder'
  BY <1>12 DEF ThreadStep, Post, Stop, Wakeup, loop
<1>13. QED
  BY <1>1, <1>2, <1>3, <1>4, <1>5, <1>6, <1>7, <1>8, <1>9, <1>10, <1>11, <1>12
     DEF Next, LoopStep
----------------------------------------------------------------------------
\* What a thread's write to the eventfd leaves, before the eventfd is closed.
LEMMA WriteWakes == WriteEventfd /\ at # "exited" => readable' /\ edge'
BY DEF WriteEventfd

\* Once the loop will not sleep, it goes round before it can.
LEMMA AwakeStep ==
  ASSUME TypeOK, PassesInOrder, WillNotSleep, [Next]_vars
  PROVE  WillNotSleep' \/ at' = "check"
<1> USE DEF WillNotSleep, WakeupComing
<1>1. CASE UNCHANGED vars
  BY <1>1 DEF vars, loop, kernel
<1>2. CASE Check
  BY <1>2 DEF Check, PassesInOrder, kernel
<1>3. CASE DrainCross \/ BatchDone \/ DeferredDone \/ Resume \/ WorkDone
  BY <1>3 DEF DrainCross, BatchDone, DeferredDone, Resume, WorkDone, kernel
<1>4. CASE ForwardBatch \/ ForwardDeferred
  BY <1>4 DEF ForwardBatch, ForwardDeferred, loop, kernel
<1>5. CASE Again
  <2>1. pass # 0 /\ pass \in 0..4
    BY <1>5 DEF Again, PassesInOrder, TypeOK
  <2>2. pass + 1 # 0
    BY <2>1
  <2>3. pass' = pass \/ pass' = pass + 1
    BY <1>5 DEF Again
  <2>4. QED
    BY <2>1, <2>2, <2>3
<1>6. CASE EpollWait
  <2>1. CASE readable /\ edge
    BY <1>6, <2>1 DEF EpollWait, Events
  <2>2. CASE ~(readable /\ edge)
    BY <1>6, <2>2 DEF EpollWait, loop
  <2>3. QED
    BY <2>1, <2>2
<1>7. CASE Interrupted \/ DrainEventfd \/ ArmEventfd
  BY <1>7 DEF Interrupted, DrainEventfd, ArmEventfd
<1>8. ASSUME NEW c \in Coro, Complete(c)
      PROVE  at' = "check"
  BY <1>8 DEF Complete
<1>9. ASSUME NEW c \in Coro, CoroStep(c) \/ IoReady(c)
      PROVE  WillNotSleep'
  <2>1. ASSUME NEW where, Leaves(c, where)
        PROVE  WillNotSleep'
    BY <2>1 DEF Leaves, kernel
  <2>2. CASE Suspend(c) \/ Yield(c) \/ SyncOp(c)
    BY <2>1, <2>2 DEF Suspend, Yield, SyncOp
  <2>3. ASSUME NEW d \in Coro, Spawn(c, d)
        PROVE  WillNotSleep'
    BY <2>3 DEF Spawn, kernel
  <2>4. CASE StopSelf(c)
    BY <2>4, WriteWakes DEF StopSelf
  <2>5. CASE IoReady(c)
    BY <2>5 DEF IoReady, loop, kernel
  <2>6. QED
    BY <1>9, <2>2, <2>3, <2>4, <2>5 DEF CoroStep
<1>10. ASSUME NEW t \in Thread, ThreadStep(t)
       PROVE  WillNotSleep'
  <2>1. CASE Wakeup(t)
    <3>1. CASE at = "exited"
      BY <2>1, <3>1 DEF Wakeup, PassesInOrder, loop
    <3>2. CASE at # "exited"
      BY <2>1, <3>2, WriteWakes DEF Wakeup
    <3>3. QED
      BY <3>1, <3>2
  <2>2. CASE Stop(t)
    BY <2>2 DEF Stop, TypeOK, loop, kernel
  <2>3. ASSUME NEW c \in Coro, Post(t, c)
        PROVE  WillNotSleep'
    BY <2>3 DEF Post, TypeOK, loop, kernel
  <2>4. QED
    BY <1>10, <2>1, <2>2, <2>3 DEF ThreadStep
<1>11. QED
  BY <1>1, <1>2, <1>3, <1>4, <1>5, <1>6, <1>7, <1>8, <1>9, <1>10
     DEF Next, LoopStep

\* Who adds to cross_queue wakes the loop, unless the ring has overflowed.
LEMMA CrossGrows ==
  ASSUME TypeOK, [Next]_vars, cross = <<>> \/ overflowed
  PROVE  cross' = <<>> \/ overflowed' \/ WillNotSleep'
<1>1. ASSUME NEW c \in Coro, Forward(c)
      PROVE  cross' = <<>> \/ overflowed'
  BY <1>1 DEF Forward
<1>2. CASE UNCHANGED queues
  BY <1>2 DEF queues
<1>3. CASE UNCHANGED vars
  BY <1>2, <1>3 DEF vars
<1>4. CASE DrainCross
  BY <1>4 DEF DrainCross
<1>5. CASE ForwardBatch
  <2>1. Head(batch) \in Coro
    <3>1. batch \in Seq(Coro) /\ batch # <<>>
      BY <1>5 DEF ForwardBatch, TypeOK
    <3>2. QED
      BY <3>1
  <2>2. QED
    BY <1>1, <1>5, <2>1 DEF ForwardBatch
<1>6. CASE ForwardDeferred
  <2>1. Head(deferred) \in Coro
    <3>1. deferred \in Seq(Coro) /\ deferred # <<>>
      BY <1>6 DEF ForwardDeferred, TypeOK
    <3>2. QED
      BY <3>1
  <2>2. QED
    BY <1>1, <1>6, <2>1 DEF ForwardDeferred
<1>7. CASE Check \/ BatchDone \/ DeferredDone \/ WorkDone \/ Again \/ EpollWait
           \/ Interrupted \/ DrainEventfd \/ ArmEventfd
  BY <1>2, <1>7 DEF Check, BatchDone, DeferredDone, WorkDone, Again, EpollWait,
     Interrupted, DrainEventfd, ArmEventfd
<1>8. CASE Resume
  BY <1>8 DEF Resume
<1>9. ASSUME NEW c \in Coro, Complete(c)
      PROVE  cross' = <<>> \/ overflowed'
  BY <1>1, <1>9 DEF Complete
<1>10. ASSUME NEW c \in Coro, CoroStep(c) \/ IoReady(c)
       PROVE  cross' = <<>> \/ overflowed'
  <2>1. CASE Suspend(c) \/ Yield(c)
    BY <2>1 DEF Suspend, Yield
  <2>2. CASE SyncOp(c)
    BY <1>1, <2>2 DEF SyncOp
  <2>3. ASSUME NEW d \in Coro, Spawn(c, d)
        PROVE  cross' = <<>> \/ overflowed'
    BY <1>1, <2>3 DEF Spawn
  <2>4. CASE StopSelf(c)
    BY <2>4 DEF StopSelf, queues
  <2>5. CASE IoReady(c)
    BY <2>5 DEF IoReady, queues
  <2>6. QED
    BY <1>10, <2>1, <2>2, <2>3, <2>4, <2>5 DEF CoroStep
<1>11. ASSUME NEW t \in Thread, ThreadStep(t)
       PROVE  cross' = <<>> \/ overflowed' \/ WillNotSleep'
  <2>1. CASE Stop(t) \/ Wakeup(t)
    BY <1>2, <2>1 DEF Stop, Wakeup
  <2>2. ASSUME NEW c \in Coro, Post(t, c)
        PROVE  overflowed' \/ WillNotSleep'
    <3>1. CASE overflowed
      BY <2>2, <3>1 DEF Post
    <3>2. CASE cross = <<>>
      <4>1. thread'[t] = "wakeup"
        BY <2>2, <3>2 DEF Post, TypeOK
      <4>2. QED
        BY <4>1 DEF WillNotSleep, WakeupComing
    <3>3. QED
      BY <3>1, <3>2
  <2>3. QED
    BY <1>11, <2>1, <2>2 DEF ThreadStep
<1>12. QED
  BY <1>3, <1>4, <1>5, <1>6, <1>7, <1>8, <1>9, <1>10, <1>11 DEF Next, LoopStep
----------------------------------------------------------------------------
\* A loop that has yet to drain cross_queue in this round does nothing else.
LEMMA BeforeDrain ==
  ASSUME TypeOK, [Next]_vars, at \in {"check", "drain cross"}
  PROVE  at' = at \/ at' = "drain cross" \/ cross' = <<>>
<1>1. CASE UNCHANGED at
  BY <1>1
<1>2. CASE Check \/ DrainCross
  BY <1>2 DEF Check, DrainCross
<1>3. ASSUME NEW t \in Thread, ThreadStep(t)
      PROVE  at' = at
  BY <1>3 DEF ThreadStep, Post, Stop, Wakeup, loop
<1>4. ASSUME NEW c \in Coro, CoroStep(c) \/ IoReady(c)
      PROVE  at' = at
  BY <1>4 DEF CoroStep, Suspend, Yield, SyncOp, Spawn, StopSelf, Leaves, IoReady, loop
<1>5. CASE LoopStep \/ Interrupted
  BY <1>2, <1>5 DEF LoopStep, ForwardBatch, BatchDone, ForwardDeferred, DeferredDone,
     Resume, WorkDone, Again, EpollWait, DrainEventfd, ArmEventfd, Complete, Interrupted
<1>6. QED
  BY <1>1, <1>3, <1>4, <1>5 DEF Next, vars, loop

LEMMA PostsSeenStep == IInv /\ [Next]_vars => PostsSeen'
<1> SUFFICES ASSUME IInv, [Next]_vars, cross' # <<>>, ~overflowed'
             PROVE  at' \in {"check", "drain cross"} \/ WillNotSleep'
  BY DEF PostsSeen
<1> USE DEF IInv
<1>1. CASE cross = <<>> \/ overflowed
  BY <1>1, CrossGrows
<1>2. CASE WillNotSleep
  BY <1>2, AwakeStep
<1>3. CASE at \in {"check", "drain cross"}
  BY <1>3, BeforeDrain
<1>4. QED
  BY <1>1, <1>2, <1>3 DEF PostsSeen

LEMMA StopSeenStep == IInv /\ [Next]_vars => StopSeen'
<1> SUFFICES ASSUME IInv, [Next]_vars, willStop'
             PROVE  at' = "check" \/ WillNotSleep'
  BY DEF StopSeen
<1> USE DEF IInv
<1>1. CASE WillNotSleep
  BY <1>1, AwakeStep
<1>2. CASE willStop /\ at = "check"
  <2>1. CASE Check
    <3>1. pass' = 1
      BY <1>2, <2>1 DEF Check
    <3>2. QED
      BY <3>1 DEF WillNotSleep
  <2>2. CASE ~Check
    <3>1. ASSUME NEW t \in Thread, ThreadStep(t)
          PROVE  at' = at
      BY <3>1 DEF ThreadStep, Post, Stop, Wakeup, loop
    <3>2. ASSUME NEW c \in Coro, CoroStep(c) \/ IoReady(c)
          PROVE  at' = at
      BY <1>2, <3>2 DEF CoroStep, Suspend, Yield, SyncOp, Spawn, StopSelf, Leaves,
         IoReady, loop
    <3>3. ~(LoopStep \/ Interrupted)
      BY <1>2, <2>2 DEF LoopStep, DrainCross, ForwardBatch, BatchDone, ForwardDeferred,
         DeferredDone, Resume, WorkDone, Again, EpollWait, DrainEventfd, ArmEventfd,
         Complete, Interrupted
    <3>4. at' = at
      BY <3>1, <3>2, <3>3 DEF Next, vars, loop
    <3>5. QED
      BY <1>2, <3>4
  <2>3. QED
    BY <2>1, <2>2
<1>3. CASE ~willStop
  <2>1. ASSUME NEW t \in Thread, Stop(t)
        PROVE  WillNotSleep'
    <3>1. thread'[t] = "wakeup"
      BY <2>1 DEF Stop, TypeOK
    <3>2. QED
      BY <3>1 DEF WillNotSleep, WakeupComing
  <2>2. ASSUME NEW c \in Coro, StopSelf(c)
        PROVE  WillNotSleep'
    BY <2>2, WriteWakes DEF StopSelf, WillNotSleep, WakeupComing
  <2>3. ASSUME NEW t \in Thread, ThreadStep(t), ~Stop(t)
        PROVE  willStop' = willStop
    BY <2>3 DEF ThreadStep, Post, Wakeup
  <2>4. ASSUME NEW c \in Coro, CoroStep(c) \/ IoReady(c), ~StopSelf(c)
        PROVE  willStop' = willStop
    BY <2>4 DEF CoroStep, Suspend, Yield, SyncOp, Spawn, Leaves, IoReady
  <2>5. CASE LoopStep \/ Interrupted
    BY <1>3, <2>5 DEF LoopStep, Check, DrainCross, ForwardBatch, BatchDone,
       ForwardDeferred, DeferredDone, Resume, WorkDone, Again, EpollWait, DrainEventfd,
       ArmEventfd, Complete, Interrupted
  <2>6. CASE UNCHANGED vars
    BY <1>3, <2>6 DEF vars
  <2>7. QED
    BY <1>3, <2>1, <2>2, <2>3, <2>4, <2>5, <2>6 DEF Next
<1>4. QED
  BY <1>1, <1>2, <1>3 DEF StopSeen

LEMMA InitInv == Init => IInv
BY InitType DEF Init, IInv, PassesInOrder, PostsSeen, StopSeen

LEMMA NextInv == IInv /\ [Next]_vars => IInv'
BY NextType, PassesStep, PostsSeenStep, StopSeenStep DEF IInv

\* A loop that will not sleep, and sleeps, has a wakeup coming.
LEMMA SleeperIsWoken == PassesInOrder /\ WillNotSleep /\ Blocked => WakeupComing
BY DEF PassesInOrder, WillNotSleep, Blocked

LEMMA Invariance == Spec => []IInv
BY InitInv, NextInv, PTL DEF Spec

\* co_spawn_cross: the loop never sleeps over a handle in cross_queue, unless
\* the ring has overflowed before or a wakeup is on its way.
THEOREM NoPostSleptOver == Spec => []PostsWake
<1>1. IInv => PostsWake
  BY SleeperIsWoken DEF IInv, PostsSeen, PostsWake, Blocked
<1>2. QED
  BY <1>1, Invariance, PTL

\* can_stop: the loop never sleeps over a request to stop.
THEOREM NoStopSleptOver == Spec => []StopWakes
<1>1. IInv => StopWakes
  BY SleeperIsWoken DEF IInv, StopSeen, StopWakes, Blocked
<1>2. QED
  BY <1>1, Invariance, PTL

\* Neither kind of wakeup is lost.
THEOREM NoneSleptOver == Spec => []NoWakeLost
BY NoPostSleptOver, NoStopSleptOver, PTL DEF NoWakeLost
-----------------------------------------------------------------------------
(* Sequences that hold nothing twice.                                       *)

\* s holds c, and holds nothing twice.
In(c, s) == \E i \in 1..Len(s) : s[i] = c
Distinct(s) == \A i, j \in 1..Len(s) : s[i] = s[j] => i = j

\* The empty sequence holds nothing.
LEMMA Nothing == Distinct(<<>>) /\ \A x : ~In(x, <<>>)
BY DEF Distinct, In

\* What appending to a sequence adds to it.
LEMMA Pushed ==
  ASSUME NEW S, NEW s \in Seq(S), NEW c \in S
  PROVE  /\ \A x \in S : In(x, Append(s, c)) <=> In(x, s) \/ x = c
         /\ Distinct(s) /\ ~In(c, s) => Distinct(Append(s, c))
<1> DEFINE t == Append(s, c)
<1>1. /\ t \in Seq(S) /\ Len(t) = Len(s) + 1 /\ Len(s) \in Nat
      /\ \A i \in 1..Len(s) : t[i] = s[i]
      /\ t[Len(s) + 1] = c
  BY AppendProperties
<1> HIDE DEF t
<1>2. ASSUME NEW x \in S
      PROVE  In(x, t) <=> In(x, s) \/ x = c
  BY <1>1 DEF In
<1>3. ASSUME Distinct(s), ~In(c, s)
      PROVE  Distinct(t)
  BY <1>1, <1>3 DEF In, Distinct
<1>4. QED
  BY <1>2, <1>3 DEF t

\* What taking the head of a sequence takes from it.
LEMMA Popped ==
  ASSUME NEW S, NEW s \in Seq(S), s # <<>>, Distinct(s)
  PROVE  /\ Head(s) \in S /\ Tail(s) \in Seq(S)
         /\ In(Head(s), s)
         /\ \A x \in S : In(x, Tail(s)) <=> In(x, s) /\ x # Head(s)
         /\ Distinct(Tail(s))
<1> DEFINE t == Tail(s)
<1>1. /\ Len(s) \in Nat \ {0} /\ Head(s) = s[1] /\ Head(s) \in S
      /\ t \in Seq(S) /\ Len(t) = Len(s) - 1
      /\ \A i \in 1..Len(t) : t[i] = s[i + 1]
  BY HeadTailProperties, EmptySeq
<1> HIDE DEF t
<1>2. ASSUME NEW x \in S
      PROVE  In(x, t) <=> In(x, s) /\ x # Head(s)
  <2>1. ASSUME NEW i \in 1..Len(t), t[i] = x
        PROVE  In(x, s) /\ x # Head(s)
    <3>1. i + 1 \in 1..Len(s) /\ 1 \in 1..Len(s) /\ s[i + 1] = x /\ i + 1 # 1
      BY <1>1, <2>1
    <3>2. QED
      BY <1>1, <3>1 DEF In, Distinct
  <2>2. ASSUME NEW i \in 1..Len(s), s[i] = x, x # Head(s)
        PROVE  In(x, t)
    <3>1. i - 1 \in 1..Len(t) /\ t[i - 1] = s[i]
      BY <1>1, <2>2
    <3>2. QED
      BY <2>2, <3>1 DEF In
  <2>3. QED
    BY <2>1, <2>2 DEF In
<1>3. Distinct(t)
  <2> SUFFICES ASSUME NEW i \in 1..Len(t), NEW j \in 1..Len(t), t[i] = t[j]
               PROVE  i = j
    BY DEF Distinct
  <2>1. i + 1 \in 1..Len(s) /\ j + 1 \in 1..Len(s) /\ s[i + 1] = s[j + 1]
    BY <1>1
  <2>2. QED
    BY <1>1, <2>1 DEF Distinct
<1>4. In(Head(s), s)
  BY <1>1 DEF In
<1>5. QED
  BY <1>1, <1>2, <1>3, <1>4 DEF t

\* What one sequence holds after another.
LEMMA Joined ==
  ASSUME NEW S, NEW s \in Seq(S), NEW t \in Seq(S)
  PROVE  /\ s \o t \in Seq(S)
         /\ \A x \in S : In(x, s \o t) <=> In(x, s) \/ In(x, t)
         /\ Distinct(s) /\ Distinct(t) /\ (\A x \in S : ~(In(x, s) /\ In(x, t)))
            => Distinct(s \o t)
<1> DEFINE u == s \o t
<1>1. /\ u \in Seq(S) /\ Len(u) = Len(s) + Len(t)
      /\ Len(s) \in Nat /\ Len(t) \in Nat
      /\ \A i \in 1..Len(s) : u[i] = s[i] /\ u[i] \in S
      /\ \A i \in 1..Len(t) : u[Len(s) + i] = t[i]
      /\ \A i \in 1..Len(u) : i <= Len(s) \/ \E j \in 1..Len(t) : i = Len(s) + j
      /\ \A i \in 1..Len(u) : u[i] \in S
  <2>1. /\ u \in Seq(S) /\ Len(u) = Len(s) + Len(t)
        /\ Len(s) \in Nat /\ Len(t) \in Nat
        /\ \A i \in 1..(Len(s) + Len(t)) : u[i] = IF i <= Len(s) THEN s[i] ELSE t[i - Len(s)]
    BY ConcatProperties, LenProperties
  <2>2. \A i \in 1..Len(u) : u[i] \in S
    BY <2>1, ElementOfSeq
  <2>3. \A i \in 1..Len(u) : i <= Len(s) \/ \E j \in 1..Len(t) : i = Len(s) + j
    <3>1. ASSUME NEW i \in 1..Len(u), ~(i <= Len(s))
          PROVE  \E j \in 1..Len(t) : i = Len(s) + j
      <4>1. i - Len(s) \in 1..Len(t) /\ i = Len(s) + (i - Len(s))
        BY <2>1, <3>1
      <4>2. QED
        BY <4>1
    <3>2. QED
      BY <3>1
  <2> HIDE DEF u
  <2>4. ASSUME NEW i \in 1..Len(t)
        PROVE  u[Len(s) + i] = t[i]
    <3>1. /\ Len(s) + i \in 1..(Len(s) + Len(t))
          /\ ~(Len(s) + i <= Len(s)) /\ (Len(s) + i) - Len(s) = i
      BY <2>1
    <3>2. QED
      BY <2>1, <3>1
  <2>5. ASSUME NEW i \in 1..Len(s)
        PROVE  u[i] = s[i] /\ u[i] \in S
    <3>1. i \in 1..(Len(s) + Len(t)) /\ i <= Len(s) /\ i \in 1..Len(u)
      BY <2>1
    <3>2. QED
      BY <2>1, <2>2, <3>1
  <2>6. QED
    BY <2>1, <2>2, <2>3, <2>4, <2>5
<1> HIDE DEF u
<1>2. ASSUME NEW x \in S
      PROVE  In(x, u) <=> In(x, s) \/ In(x, t)
  <2>1. ASSUME NEW i \in 1..Len(u), u[i] = x
        PROVE  In(x, s) \/ In(x, t)
    <3>1. CASE i <= Len(s)
      <4>1. i \in 1..Len(s) /\ s[i] = x
        BY <1>1, <2>1, <3>1
      <4>2. QED
        BY <4>1 DEF In
    <3>2. CASE ~(i <= Len(s))
      <4>1. PICK j \in 1..Len(t) : i = Len(s) + j
        BY <1>1, <3>2
      <4>2. t[j] = x
        BY <1>1, <2>1, <4>1
      <4>3. QED
        BY <4>2 DEF In
    <3>3. QED
      BY <3>1, <3>2
  <2>2. ASSUME NEW i \in 1..Len(s), s[i] = x
        PROVE  In(x, u)
    <3>1. i \in 1..Len(u) /\ u[i] = x
      BY <1>1, <2>2
    <3>2. QED
      BY <3>1 DEF In
  <2>3. ASSUME NEW j \in 1..Len(t), t[j] = x
        PROVE  In(x, u)
    <3>1. Len(s) + j \in 1..Len(u) /\ u[Len(s) + j] = x
      BY <1>1, <2>3
    <3>2. QED
      BY <3>1 DEF In
  <2>4. QED
    BY <2>1, <2>2, <2>3 DEF In
<1>3. ASSUME Distinct(s), Distinct(t), \A x \in S : ~(In(x, s) /\ In(x, t))
      PROVE  Distinct(u)
  <2> SUFFICES ASSUME NEW i \in 1..Len(u), NEW j \in 1..Len(u), u[i] = u[j]
               PROVE  i = j
    BY DEF Distinct
  <2>1. CASE i <= Len(s) /\ j <= Len(s)
    BY <1>1, <1>3, <2>1 DEF Distinct
  <2>2. CASE ~(i <= Len(s)) /\ ~(j <= Len(s))
    <3>1. PICK k \in 1..Len(t) : i = Len(s) + k
      BY <1>1, <2>2
    <3>2. PICK l \in 1..Len(t) : j = Len(s) + l
      BY <1>1, <2>2
    <3>3. t[k] = t[l]
      BY <1>1, <3>1, <3>2
    <3>4. QED
      BY <1>3, <3>1, <3>2, <3>3 DEF Distinct
  <2>3. ASSUME NEW k \in 1..Len(u), NEW l \in 1..Len(u), k <= Len(s), ~(l <= Len(s)), u[k] = u[l]
        PROVE  FALSE
    <3>1. PICK n \in 1..Len(t) : l = Len(s) + n
      BY <1>1, <2>3
    <3>2. s[k] = t[n] /\ s[k] \in S /\ k \in 1..Len(s)
      BY <1>1, <2>3, <3>1
    <3>3. QED
      BY <1>3, <3>2 DEF In
  <2>4. QED
    BY <2>1, <2>2, <2>3
<1>4. QED
  BY <1>1, <1>2, <1>3 DEF u
-----------------------------------------------------------------------------
(* Where the handles are.                                                   *)

Listed(c) == In(c, ring) \/ In(c, batch) \/ In(c, cross) \/ In(c, deferred)

\* No handle is in two places of the queues.
QueuesApart ==
    /\ Distinct(ring) /\ Distinct(batch) /\ Distinct(cross) /\ Distinct(deferred)
    /\ \A c \in Coro : /\ In(c, ring) => ~(In(c, batch) \/ In(c, cross) \/ In(c, deferred))
                       /\ In(c, batch) => ~(In(c, cross) \/ In(c, deferred))
                       /\ In(c, cross) => ~In(c, deferred)

\* What each coroutine's state says of the queues, the loop and its events.
StatesTrue ==
    \A c \in Coro : /\ state[c] = "queued" <=> Listed(c)
                    /\ state[c] = "running" <=> current = c
                    /\ c \in fetched => state[c] = "fetched"

\* drain_cross_thread leaves no batch behind.
BatchInHand == at # "forward" => batch = <<>>

HandleInv == TypeOK /\ QueuesApart /\ StatesTrue /\ BatchInHand

LEMMA InitHandles == Init => HandleInv
<1> SUFFICES ASSUME Init PROVE QueuesApart /\ StatesTrue /\ BatchInHand
  BY InitType DEF HandleInv
<1>1. QueuesApart
  BY Nothing DEF Init, QueuesApart
<1>2. \A c \in Coro : ~Listed(c) /\ state[c] = "held" /\ current # c /\ c \notin fetched
  BY Nothing, NameAssumption DEF Init, Listed
<1>3. QED
  BY <1>1, <1>2 DEF StatesTrue, BatchInHand, Init

\* forward_task puts one handle behind those of one of two queues.
LEMMA ForwardMoves ==
  ASSUME TypeOK, NEW c \in Coro, Forward(c),
         Distinct(ring), Distinct(cross), ~In(c, ring), ~In(c, cross)
  PROVE  /\ Distinct(ring') /\ Distinct(cross')
         /\ \/ /\ \A x \in Coro : In(x, ring') <=> In(x, ring) \/ x = c
               /\ cross' = cross
               /\ overflowed' = overflowed
            \/ /\ \A x \in Coro : In(x, cross') <=> In(x, cross) \/ x = c
               /\ ring' = ring
               /\ overflowed'
<1>1. ring \in Seq(Coro) /\ cross \in Seq(Coro)
  BY DEF TypeOK
<1>2. CASE Len(ring) < RingCap
  <2>1. ring' = Append(ring, c) /\ cross' = cross /\ overflowed' = overflowed
    BY <1>2 DEF Forward
  <2>2. QED
    BY <1>1, <2>1, Pushed
<1>3. CASE ~(Len(ring) < RingCap)
  <2>1. cross' = Append(cross, c) /\ ring' = ring /\ overflowed'
    BY <1>3 DEF Forward
  <2>2. QED
    BY <1>1, <2>1, Pushed
<1>4. QED
  BY <1>2, <1>3

\* The invariant speaks of these variables only.
LEMMA HandlesFramed ==
  ASSUME HandleInv, UNCHANGED <<ring, batch, cross, deferred, state, current>>,
         fetched' \subseteq fetched
  PROVE  QueuesApart' /\ StatesTrue'
BY DEF HandleInv, QueuesApart, StatesTrue, Listed

\* A coroutine that is in no queue is put into one, and counts as queued.
LEMMA HandleForwarded ==
  ASSUME HandleInv, NEW c \in Coro, Forward(c), state[c] # "queued",
         UNCHANGED <<batch, deferred>>,
         state' = [state EXCEPT ![c] = "queued"],
         current' = (IF current = c THEN NoCoro ELSE current),
         fetched' = fetched \ {c}
  PROVE  QueuesApart' /\ StatesTrue'
<1>1. ~Listed(c)
  BY DEF HandleInv, StatesTrue
<1>2. state \in [Coro -> CoroState]
  BY DEF HandleInv, TypeOK
<1>3. \A x \in Coro : x # c => state'[x] = state[x]
  BY <1>2
<1>4. state'[c] = "queued"
  BY <1>2
<1>5. Distinct(ring') /\ Distinct(cross')
  BY <1>1, ForwardMoves DEF HandleInv, QueuesApart, Listed
<1>6. CASE /\ \A x \in Coro : In(x, ring') <=> In(x, ring) \/ x = c
           /\ cross' = cross
  <2>1. QueuesApart'
    BY <1>1, <1>5, <1>6 DEF HandleInv, QueuesApart, Listed
  <2>2. \A x \in Coro : Listed(x)' <=> Listed(x) \/ x = c
    BY <1>6 DEF Listed
  <2>3. QED
    BY <1>3, <1>4, <2>1, <2>2, NameAssumption DEF HandleInv, StatesTrue
<1>7. CASE /\ \A x \in Coro : In(x, cross') <=> In(x, cross) \/ x = c
           /\ ring' = ring
  <2>1. QueuesApart'
    BY <1>1, <1>5, <1>7 DEF HandleInv, QueuesApart, Listed
  <2>2. \A x \in Coro : Listed(x)' <=> Listed(x) \/ x = c
    BY <1>7 DEF Listed
  <2>3. QED
    BY <1>3, <1>4, <2>1, <2>2, NameAssumption DEF HandleInv, StatesTrue
<1>8. QED
  BY <1>1, <1>6, <1>7, ForwardMoves DEF HandleInv, QueuesApart, Listed

LEMMA LoopHandles ==
  ASSUME HandleInv, LoopStep \/ Interrupted
  PROVE  QueuesApart' /\ StatesTrue'
<1> USE DEF HandleInv
<1>1. CASE Check \/ BatchDone \/ DeferredDone \/ WorkDone \/ Interrupted \/ ArmEventfd
           \/ DrainEventfd \/ Again
  <2>1. /\ UNCHANGED <<ring, batch, cross, deferred, state, current>>
        /\ fetched' \subseteq fetched
    BY <1>1 DEF Check, BatchDone, DeferredDone, WorkDone, Interrupted, ArmEventfd,
       DrainEventfd, Again, queues
  <2>2. QED
    BY <2>1, HandlesFramed
<1>2. CASE DrainCross
  <2>1. /\ batch' = cross /\ cross' = <<>>
        /\ UNCHANGED <<ring, deferred, state, current, fetched>>
    BY <1>2 DEF DrainCross
  <2>2. batch = <<>>
    BY <1>2 DEF DrainCross, BatchInHand
  <2>3. Distinct(batch') /\ Distinct(cross')
    BY <2>1, Nothing DEF QueuesApart
  <2>4. \A x \in Coro : In(x, batch') = In(x, cross) /\ ~In(x, cross') /\ ~In(x, batch)
    BY <2>1, <2>2, Nothing
  <2>5. QueuesApart'
    BY <2>1, <2>3, <2>4 DEF QueuesApart
  <2>6. \A x \in Coro : Listed(x)' <=> Listed(x)
    BY <2>1, <2>4 DEF Listed
  <2>7. QED
    BY <2>1, <2>5, <2>6 DEF StatesTrue
<1>3. CASE ForwardBatch
  <2> DEFINE c == Head(batch)
  <2>1. /\ Forward(c) /\ batch # <<>> /\ batch' = Tail(batch)
        /\ UNCHANGED <<deferred, state, current, fetched>>
    BY <1>3 DEF ForwardBatch, loop
  <2>2. /\ c \in Coro /\ In(c, batch) /\ Distinct(batch')
        /\ \A x \in Coro : In(x, batch') <=> In(x, batch) /\ x # c
    BY <2>1, Popped DEF TypeOK, QueuesApart
  <2>3. ~In(c, ring) /\ ~In(c, cross) /\ ~In(c, deferred)
    BY <2>2 DEF QueuesApart
  <2>4. /\ Distinct(ring') /\ Distinct(cross')
        /\ \/ /\ \A x \in Coro : In(x, ring') <=> In(x, ring) \/ x = c
              /\ cross' = cross
           \/ /\ \A x \in Coro : In(x, cross') <=> In(x, cross) \/ x = c
              /\ ring' = ring
    BY <2>1, <2>2, <2>3, ForwardMoves DEF QueuesApart
  <2> HIDE DEF c
  <2>5. QueuesApart'
    BY <2>1, <2>2, <2>3, <2>4 DEF QueuesApart
  <2>6. \A x \in Coro : Listed(x)' <=> Listed(x)
    BY <2>1, <2>2, <2>4 DEF Listed
  <2>7. QED
    BY <2>1, <2>5, <2>6 DEF StatesTrue
<1>4. CASE ForwardDeferred
  <2> DEFINE c == Head(deferred)
  <2>1. /\ Forward(c) /\ deferred # <<>> /\ deferred' = Tail(deferred)
        /\ UNCHANGED <<batch, state, current, fetched>>
    BY <1>4 DEF ForwardDeferred, loop
  <2>2. /\ c \in Coro /\ In(c, deferred) /\ Distinct(deferred')
        /\ \A x \in Coro : In(x, deferred') <=> In(x, deferred) /\ x # c
    BY <2>1, Popped DEF TypeOK, QueuesApart
  <2>3. ~In(c, ring) /\ ~In(c, cross) /\ ~In(c, batch)
    BY <2>2 DEF QueuesApart
  <2>4. /\ Distinct(ring') /\ Distinct(cross')
        /\ \/ /\ \A x \in Coro : In(x, ring') <=> In(x, ring) \/ x = c
              /\ cross' = cross
           \/ /\ \A x \in Coro : In(x, cross') <=> In(x, cross) \/ x = c
              /\ ring' = ring
    BY <2>1, <2>2, <2>3, ForwardMoves DEF QueuesApart
  <2> HIDE DEF c
  <2>5. QueuesApart'
    BY <2>1, <2>2, <2>3, <2>4 DEF QueuesApart
  <2>6. \A x \in Coro : Listed(x)' <=> Listed(x)
    BY <2>1, <2>2, <2>4 DEF Listed
  <2>7. QED
    BY <2>1, <2>5, <2>6 DEF StatesTrue
<1>5. CASE Resume
  <2> DEFINE c == Head(ring)
  <2>1. /\ ring # <<>> /\ ring' = Tail(ring) /\ current = NoCoro /\ current' = c
        /\ state' = [state EXCEPT ![c] = "running"]
        /\ UNCHANGED <<cross, batch, deferred, fetched>>
    BY <1>5 DEF Resume
  <2>2. /\ c \in Coro /\ In(c, ring) /\ Distinct(ring')
        /\ \A x \in Coro : In(x, ring') <=> In(x, ring) /\ x # c
    BY <2>1, Popped DEF TypeOK, QueuesApart
  <2> HIDE DEF c
  <2>3. QueuesApart'
    BY <2>1, <2>2 DEF QueuesApart
  <2>4. \A x \in Coro : Listed(x)' <=> Listed(x) /\ x # c
    BY <2>1, <2>2 DEF Listed, QueuesApart
  <2>5. /\ state'[c] = "running" /\ state[c] = "queued"
        /\ \A x \in Coro : x # c => state'[x] = state[x]
    BY <2>1, <2>2 DEF TypeOK, StatesTrue, Listed
  <2>6. QED
    BY <2>1, <2>2, <2>3, <2>4, <2>5, NameAssumption DEF StatesTrue
<1>6. CASE EpollWait
  <2>1. PICK part \in SUBSET Events :
          /\ fetched' = part
          /\ state' = [x \in Coro |-> IF x \in part THEN "fetched" ELSE state[x]]
    BY <1>6 DEF EpollWait
  <2>2. UNCHANGED <<ring, batch, cross, deferred, current>>
    BY <1>6 DEF EpollWait, queues, loop
  <2>3. \A x \in Coro : x \in part => state[x] = "ready"
    BY NameAssumption DEF Events, KernelReady
  <2>4. QueuesApart'
    BY <2>2 DEF QueuesApart
  <2>5. \A x \in Coro : Listed(x)' <=> Listed(x)
    BY <2>2 DEF Listed
  <2>6. QED
    BY <2>1, <2>2, <2>3, <2>4, <2>5 DEF StatesTrue
<1>7. ASSUME NEW c \in Coro, Complete(c)
      PROVE  QueuesApart' /\ StatesTrue'
  <2>1. state[c] = "fetched" /\ current # c
    BY <1>7 DEF Complete, StatesTrue
  <2>2. QED
    BY <1>7, <2>1, HandleForwarded DEF Complete
<1>8. QED
  BY <1>1, <1>2, <1>3, <1>4, <1>5, <1>6, <1>7 DEF LoopStep

LEMMA CoroHandles ==
  ASSUME HandleInv, NEW c \in Coro, CoroStep(c) \/ IoReady(c)
  PROVE  QueuesApart' /\ StatesTrue'
<1> USE DEF HandleInv
<1>1. state \in [Coro -> CoroState]
  BY DEF TypeOK
<1>2. CASE Suspend(c)
  <2>1. PICK where \in {"done", "io", "held"} : Leaves(c, where)
    BY <1>2 DEF Suspend
  <2>2. /\ state' = [state EXCEPT ![c] = where] /\ current = c /\ current' = NoCoro
        /\ UNCHANGED <<ring, batch, cross, deferred, fetched>>
    BY <1>2, <2>1 DEF Suspend, Leaves
  <2>3. /\ state'[c] = where /\ state[c] = "running"
        /\ \A x \in Coro : x # c => state'[x] = state[x]
    BY <1>1, <2>2 DEF StatesTrue
  <2>4. QueuesApart' /\ \A x \in Coro : Listed(x)' <=> Listed(x)
    BY <2>2 DEF QueuesApart, Listed
  <2>5. QED
    BY <2>1, <2>2, <2>3, <2>4, NameAssumption DEF StatesTrue
<1>3. CASE Yield(c)
  <2>1. /\ state' = [state EXCEPT ![c] = "queued"] /\ current = c /\ current' = NoCoro
        /\ deferred' = Append(deferred, c)
        /\ UNCHANGED <<ring, batch, cross, fetched>>
    BY <1>3 DEF Yield, Leaves
  <2>2. /\ state'[c] = "queued" /\ state[c] = "running"
        /\ \A x \in Coro : x # c => state'[x] = state[x]
    BY <1>1, <2>1 DEF StatesTrue
  <2>3. ~Listed(c)
    BY <2>2 DEF StatesTrue
  <2>4. /\ \A x \in Coro : In(x, deferred') <=> In(x, deferred) \/ x = c
        /\ Distinct(deferred')
    BY <2>1, <2>3, Pushed DEF TypeOK, QueuesApart, Listed
  <2>5. QueuesApart' /\ \A x \in Coro : Listed(x)' <=> Listed(x) \/ x = c
    BY <2>1, <2>3, <2>4 DEF QueuesApart, Listed
  <2>6. QED
    BY <2>1, <2>2, <2>5, NameAssumption DEF StatesTrue
<1>4. CASE SyncOp(c)
  <2>1. /\ Forward(c) /\ state' = [state EXCEPT ![c] = "queued"]
        /\ current = c /\ current' = NoCoro
        /\ UNCHANGED <<batch, deferred, fetched>>
    BY <1>4 DEF SyncOp, Leaves
  <2>2. state[c] = "running" /\ c \notin fetched
    BY <2>1 DEF StatesTrue
  <2>3. QED
    BY <2>1, <2>2, HandleForwarded
<1>5. ASSUME NEW d \in Coro, Spawn(c, d)
      PROVE  QueuesApart' /\ StatesTrue'
  <2>1. /\ Forward(d) /\ state' = [state EXCEPT ![d] = "queued"] /\ state[d] = "held"
        /\ UNCHANGED <<batch, deferred, fetched, current>>
    BY <1>5 DEF Spawn
  <2>2. d \notin fetched /\ current # d
    BY <2>1 DEF StatesTrue
  <2>3. QED
    BY <2>1, <2>2, HandleForwarded
<1>6. CASE StopSelf(c)
  <2>1. UNCHANGED <<ring, batch, cross, deferred, state, current, fetched>>
    BY <1>6 DEF StopSelf, queues, loop
  <2>2. QED
    BY <2>1, HandlesFramed
<1>7. CASE IoReady(c)
  <2>1. /\ state' = [state EXCEPT ![c] = "ready"] /\ state[c] = "io"
        /\ UNCHANGED <<ring, batch, cross, deferred, current, fetched>>
    BY <1>7 DEF IoReady, queues, loop
  <2>2. state'[c] = "ready" /\ \A x \in Coro : x # c => state'[x] = state[x]
    BY <1>1, <2>1
  <2>3. QueuesApart' /\ \A x \in Coro : Listed(x)' <=> Listed(x)
    BY <2>1 DEF QueuesApart, Listed
  <2>4. QED
    BY <2>1, <2>2, <2>3 DEF StatesTrue
<1>8. QED
  BY <1>2, <1>3, <1>4, <1>5, <1>6, <1>7 DEF CoroStep

LEMMA ThreadHandles ==
  ASSUME HandleInv, NEW t \in Thread, ThreadStep(t)
  PROVE  QueuesApart' /\ StatesTrue'
<1> USE DEF HandleInv
<1>1. CASE Stop(t) \/ Wakeup(t)
  <2>1. UNCHANGED <<ring, batch, cross, deferred, state, current, fetched>>
    BY <1>1 DEF Stop, Wakeup, queues, loop
  <2>2. QED
    BY <2>1, HandlesFramed
<1>2. ASSUME NEW c \in Coro, Post(t, c)
      PROVE  QueuesApart' /\ StatesTrue'
  <2>1. /\ state' = [state EXCEPT ![c] = "queued"] /\ state[c] = "held"
        /\ cross' = Append(cross, c)
        /\ UNCHANGED <<ring, batch, deferred, current, fetched>>
    BY <1>2 DEF Post, loop
  <2>2. state'[c] = "queued" /\ \A x \in Coro : x # c => state'[x] = state[x]
    BY <2>1 DEF TypeOK
  <2>3. ~Listed(c)
    BY <2>1 DEF StatesTrue
  <2>4. /\ \A x \in Coro : In(x, cross') <=> In(x, cross) \/ x = c
        /\ Distinct(cross')
    BY <2>1, <2>3, Pushed DEF TypeOK, QueuesApart, Listed
  <2>5. QueuesApart' /\ \A x \in Coro : Listed(x)' <=> Listed(x) \/ x = c
    BY <2>1, <2>3, <2>4 DEF QueuesApart, Listed
  <2>6. QED
    BY <2>1, <2>2, <2>5 DEF StatesTrue
<1>3. QED
  BY <1>1, <1>2 DEF ThreadStep

LEMMA NextHandles == HandleInv /\ [Next]_vars => HandleInv'
<1> SUFFICES ASSUME HandleInv, [Next]_vars
             PROVE  QueuesApart' /\ StatesTrue' /\ BatchInHand'
  BY NextType DEF HandleInv
<1>1. CASE UNCHANGED vars
  <2>1. UNCHANGED <<ring, batch, cross, deferred, state, current, fetched, at>>
    BY <1>1 DEF vars, queues, loop
  <2>2. QED
    BY <2>1, HandlesFramed DEF HandleInv, BatchInHand
<1>2. CASE Next
  <2>1. QueuesApart' /\ StatesTrue'
    BY <1>2, LoopHandles, CoroHandles, ThreadHandles DEF Next
  <2>2. BatchInHand'
    <3>1. CASE LoopStep \/ Interrupted
      BY <3>1 DEF HandleInv, BatchInHand, LoopStep, Interrupted, Check, DrainCross,
         ForwardBatch, BatchDone, ForwardDeferred, DeferredDone, Resume, WorkDone, Again,
         EpollWait, DrainEventfd, ArmEventfd, Complete, queues, loop
    <3>2. ASSUME NEW c \in Coro, CoroStep(c) \/ IoReady(c)
          PROVE  BatchInHand'
      BY <3>2 DEF HandleInv, BatchInHand, CoroStep, Suspend, Yield, SyncOp, Spawn, StopSelf,
         Leaves, IoReady, queues, loop
    <3>3. ASSUME NEW t \in Thread, ThreadStep(t)
          PROVE  BatchInHand'
      BY <3>3 DEF HandleInv, BatchInHand, ThreadStep, Post, Stop, Wakeup, queues, loop
    <3>4. QED
      BY <1>2, <3>1, <3>2, <3>3 DEF Next
  <2>3. QED
    BY <2>1, <2>2
<1>3. QED
  BY <1>1, <1>2

LEMMA HandlesInvariant == Spec => []HandleInv
BY InitHandles, NextHandles, PTL DEF Spec

\* Each handle that is queued is at one place of the line or of deferred_tasks.
LEMMA OnePlace ==
  ASSUME TypeOK, QueuesApart
  PROVE  /\ Line \in Seq(Coro) /\ Distinct(Line)
         /\ Distinct(Line \o deferred)
         /\ \A c \in Coro : /\ In(c, Line) <=> In(c, ring) \/ In(c, batch) \/ In(c, cross)
                            /\ In(c, Line \o deferred) <=> Listed(c)
<1>1. /\ ring \in Seq(Coro) /\ batch \in Seq(Coro)
      /\ cross \in Seq(Coro) /\ deferred \in Seq(Coro)
  BY DEF TypeOK
<1> DEFINE u == ring \o batch
<1>2. /\ u \in Seq(Coro) /\ Distinct(u)
      /\ \A c \in Coro : In(c, u) <=> In(c, ring) \/ In(c, batch)
  BY <1>1, Joined DEF QueuesApart
<1> DEFINE v == u \o cross
<1> HIDE DEF u
<1>3. /\ v \in Seq(Coro) /\ Distinct(v)
      /\ \A c \in Coro : In(c, v) <=> In(c, u) \/ In(c, cross)
  BY <1>1, <1>2, Joined DEF QueuesApart
<1>4. Line = v
  BY DEF u, v, Line
<1> HIDE DEF v
<1>5. /\ Distinct(v \o deferred)
      /\ \A c \in Coro : In(c, v \o deferred) <=> In(c, v) \/ In(c, deferred)
  BY <1>1, <1>2, <1>3, Joined DEF QueuesApart
<1>6. QED
  BY <1>2, <1>3, <1>4, <1>5 DEF Listed

\* A handle is never lost and never queued twice, from the moment it is posted,
\* deferred or completed until the loop resumes it.
THEOREM Conserved == Spec => []HandlesConserved
<1>1. HandleInv => HandlesConserved
  <2> SUFFICES ASSUME HandleInv, NEW c \in Coro
               PROVE  Cardinality(Places(c, Line \o deferred))
                      = IF state[c] = "queued" THEN 1 ELSE 0
    BY DEF HandlesConserved, HandleInv, StatesTrue
  <2> DEFINE s == Line \o deferred
  <2>1. Distinct(s) /\ (In(c, s) <=> state[c] = "queued")
    BY OnePlace DEF HandleInv, StatesTrue
  <2> HIDE DEF s
  <2>2. CASE In(c, s)
    <3>1. PICK i \in 1..Len(s) : s[i] = c
      BY <2>2 DEF In
    <3>2. Places(c, s) = {i}
      BY <2>1, <3>1 DEF Places, Distinct
    <3>3. QED
      BY <2>1, <2>2, <3>2, FS_Singleton DEF s
  <2>3. CASE ~In(c, s)
    <3>1. Places(c, s) = {}
      BY <2>3 DEF Places, In
    <3>2. QED
      BY <2>1, <2>3, <3>1, FS_EmptySet DEF s
  <2>4. QED
    BY <2>2, <2>3
<1>2. QED
  BY <1>1, HandlesInvariant, PTL
-----------------------------------------------------------------------------
(* The order of the line.                                                   *)

\* t is s without its first n.
Shortened(s, t, n) == \A k \in 1..Len(t) : k + n \in 1..Len(s) /\ t[k] = s[k + n]

\* t is s with one more behind its first n.
PutIn(s, t, n) == \A k \in 1..Len(t) : \/ k <= n /\ k \in 1..Len(s) /\ t[k] = s[k]
                                       \/ k = n + 1 /\ ~In(t[k], s)
                                       \/ k > n + 1 /\ k - 1 \in 1..Len(s) /\ t[k] = s[k - 1]

\* Two handles that are in the line keep their order: what the line holds at k
\* it held at k, one place further back, or not at all.
LEMMA OrderKept ==
  ASSUME NEW s, NEW t, NEW n \in Nat, NEW c, NEW d,
         Distinct(s), Len(s) \in Nat, Len(t) \in Nat,
         Shortened(s, t, n) \/ PutIn(s, t, n),
         NEW i \in 1..Len(s), NEW j \in 1..Len(s),
         NEW k \in 1..Len(t), NEW l \in 1..Len(t),
         i < j, s[i] = c, s[j] = d, t[k] = c, t[l] = d
  PROVE  k < l
<1>1. In(c, s) /\ In(d, s)
  BY DEF In
<1>2. CASE Shortened(s, t, n)
  <2>1. i = k + n /\ j = l + n
    BY <1>2 DEF Distinct, Shortened
  <2>2. QED
    BY <2>1
<1>3. CASE PutIn(s, t, n)
  <2>1. (k <= n /\ i = k) \/ (k > n + 1 /\ i = k - 1)
    BY <1>1, <1>3 DEF Distinct, PutIn
  <2>2. (l <= n /\ j = l) \/ (l > n + 1 /\ j = l - 1)
    BY <1>1, <1>3 DEF Distinct, PutIn
  <2>3. QED
    BY <2>1, <2>2
<1>4. QED
  BY <1>2, <1>3

\* The places of the line.
LEMMA LinePlaces ==
  ASSUME NEW r \in Seq(Coro), NEW b \in Seq(Coro), NEW x \in Seq(Coro)
  PROVE  /\ r \o b \o x \in Seq(Coro)
         /\ Len(r) \in Nat /\ Len(b) \in Nat /\ Len(x) \in Nat
         /\ Len(r \o b \o x) = Len(r) + Len(b) + Len(x)
         /\ \A k \in 1..(Len(r) + Len(b) + Len(x)) :
              (r \o b \o x)[k] = IF k <= Len(r) THEN r[k]
                                 ELSE IF k <= Len(r) + Len(b) THEN b[k - Len(r)]
                                 ELSE x[k - Len(r) - Len(b)]
<1> DEFINE u == r \o b
<1>1. /\ u \in Seq(Coro) /\ Len(u) = Len(r) + Len(b)
      /\ Len(r) \in Nat /\ Len(b) \in Nat /\ Len(x) \in Nat
      /\ \A k \in 1..(Len(r) + Len(b)) : u[k] = IF k <= Len(r) THEN r[k] ELSE b[k - Len(r)]
  BY ConcatProperties, LenProperties
<1> HIDE DEF u
<1>0. u \in Seq(Coro)
  BY <1>1
<1>2. /\ u \o x \in Seq(Coro) /\ Len(u \o x) = Len(u) + Len(x)
      /\ \A k \in 1..(Len(u) + Len(x)) :
           (u \o x)[k] = IF k <= Len(u) THEN u[k] ELSE x[k - Len(u)]
  BY <1>0, ConcatProperties
<1> DEFINE w == u \o x
<1> HIDE DEF w
<1>3. /\ w \in Seq(Coro) /\ Len(w) = Len(r) + Len(b) + Len(x)
      /\ \A k \in 1..(Len(r) + Len(b) + Len(x)) :
              w[k] = IF k <= Len(r) THEN r[k]
                     ELSE IF k <= Len(r) + Len(b) THEN b[k - Len(r)]
                     ELSE x[k - Len(r) - Len(b)]
  BY <1>1, <1>2 DEF w
<1>4. w = r \o b \o x
  BY DEF w, u
<1>5. QED
  BY <1>1, <1>3, <1>4

\* The formula of FifoKept's steps.
InOrder == \A c, d \in Coro : \A i, j \in DOMAIN Line, k, l \in DOMAIN Line' :
             /\ ~overflowed'
             /\ i < j /\ Line[i] = c /\ Line[j] = d
             /\ Line'[k] = c /\ Line'[l] = d
             => k < l

\* The line as it was without its first n, or with a handle put in behind the
\* first n, is in order.
LEMMA MovedInOrder ==
  ASSUME TypeOK, TypeOK', Distinct(Line), NEW n \in Nat,
         Shortened(Line, Line', n) \/ PutIn(Line, Line', n)
  PROVE  InOrder
<1> DEFINE s == Line
           t == Line'
<1>1. s \in Seq(Coro) /\ t \in Seq(Coro)
  <2>1. /\ ring \in Seq(Coro) /\ batch \in Seq(Coro) /\ cross \in Seq(Coro)
        /\ ring' \in Seq(Coro) /\ batch' \in Seq(Coro) /\ cross' \in Seq(Coro)
    BY DEF TypeOK
  <2>2. QED
    BY <2>1, LinePlaces DEF Line
<1>2. Len(s) \in Nat /\ Len(t) \in Nat /\ DOMAIN s = 1..Len(s) /\ DOMAIN t = 1..Len(t)
  BY <1>1, LenProperties
<1> SUFFICES ASSUME NEW c \in Coro, NEW d \in Coro, NEW i \in 1..Len(s), NEW j \in 1..Len(s),
                    NEW k \in 1..Len(t), NEW l \in 1..Len(t),
                    i < j, s[i] = c, s[j] = d, t[k] = c, t[l] = d
             PROVE  k < l
  BY <1>2 DEF InOrder
<1>3. Distinct(s) /\ (Shortened(s, t, n) \/ PutIn(s, t, n))
  OBVIOUS
<1> HIDE DEF s, t
<1>4. QED
  BY <1>2, <1>3, OrderKept

\* A handle that is in no queue goes behind the ring.
LEMMA ForwardInOrder ==
  ASSUME HandleInv, TypeOK', NEW c \in Coro, ~In(c, Line), Forward(c),
         UNCHANGED batch, ~overflowed'
  PROVE  InOrder
<1>1. ring' = Append(ring, c) /\ cross' = cross /\ batch' = batch
  BY DEF Forward
<1>2. /\ ring \in Seq(Coro) /\ batch \in Seq(Coro) /\ cross \in Seq(Coro)
      /\ ring' \in Seq(Coro) /\ Distinct(Line)
  BY OnePlace DEF HandleInv, TypeOK
<1>3. /\ Len(ring') = Len(ring) + 1
      /\ \A i \in 1..Len(ring) : ring'[i] = ring[i]
      /\ ring'[Len(ring) + 1] = c
  BY <1>1, <1>2, AppendProperties
<1> DEFINE s == Line
           t == Line'
<1>4. /\ Len(ring) \in Nat /\ Len(batch) \in Nat /\ Len(cross) \in Nat
      /\ Len(s) = Len(ring) + Len(batch) + Len(cross)
      /\ \A k \in 1..Len(s) : s[k] = IF k <= Len(ring) THEN ring[k]
                                     ELSE IF k <= Len(ring) + Len(batch)
                                     THEN batch[k - Len(ring)]
                                     ELSE cross[k - Len(ring) - Len(batch)]
  BY <1>2, LinePlaces DEF Line
<1>5. /\ Len(t) = Len(ring) + 1 + Len(batch) + Len(cross)
      /\ \A k \in 1..Len(t) : t[k] = IF k <= Len(ring) + 1 THEN ring'[k]
                                     ELSE IF k <= Len(ring) + 1 + Len(batch)
                                     THEN batch[k - (Len(ring) + 1)]
                                     ELSE cross[k - (Len(ring) + 1) - Len(batch)]
  BY <1>1, <1>2, <1>3, LinePlaces DEF Line
<1>6. ~In(c, s)
  OBVIOUS
<1> HIDE DEF s, t
<1>7. PutIn(s, t, Len(ring))
  <2> SUFFICES ASSUME NEW k \in 1..Len(t)
               PROVE  \/ k <= Len(ring) /\ k \in 1..Len(s) /\ t[k] = s[k]
                      \/ k = Len(ring) + 1 /\ ~In(t[k], s)
                      \/ k > Len(ring) + 1 /\ k - 1 \in 1..Len(s) /\ t[k] = s[k - 1]
    BY DEF PutIn
  <2>1. CASE k <= Len(ring)
    <3>1. k \in 1..Len(ring) /\ k \in 1..Len(s) /\ k <= Len(ring) + 1
      BY <1>4, <1>5, <2>1
    <3>2. t[k] = ring'[k] /\ s[k] = ring[k]
      BY <1>4, <1>5, <2>1, <3>1
    <3>3. QED
      BY <1>3, <2>1, <3>1, <3>2
  <2>2. CASE k = Len(ring) + 1
    <3>1. t[k] = ring'[k]
      BY <1>4, <1>5, <2>2
    <3>2. QED
      BY <1>3, <1>6, <2>2, <3>1
  <2>3. CASE k > Len(ring) + 1
    <3>1. k - 1 \in 1..Len(s) /\ ~(k - 1 <= Len(ring)) /\ ~(k <= Len(ring) + 1)
      BY <1>4, <1>5, <2>3
    <3>2. (k - 1) - Len(ring) = k - (Len(ring) + 1)
      BY <1>4
    <3>3. (k - 1 <= Len(ring) + Len(batch)) <=> (k <= Len(ring) + 1 + Len(batch))
      BY <1>4
    <3>4. t[k] = s[k - 1]
      BY <1>4, <1>5, <3>1, <3>2, <3>3
    <3>5. QED
      BY <2>3, <3>1, <3>4
  <2>4. QED
    BY <1>4, <2>1, <2>2, <2>3
<1>8. QED
  BY <1>2, <1>4, <1>7, MovedInOrder DEF HandleInv, s, t

\* The line as it was.
LEMMA LineInOrder ==
  ASSUME HandleInv, TypeOK', Line' = Line
  PROVE  InOrder
<1> DEFINE s == Line
<1>1. s \in Seq(Coro) /\ Distinct(s)
  BY OnePlace DEF HandleInv
<1>2. Len(s) \in Nat
  BY <1>1, LenProperties
<1> HIDE DEF s
<1>3. Shortened(s, s, 0)
  BY <1>2 DEF Shortened
<1>4. QED
  BY <1>1, <1>3, MovedInOrder DEF HandleInv, s

\* The batch is in the line before cross_queue, and moves to the ring's end.
LEMMA DrainsInOrder ==
  ASSUME HandleInv, TypeOK', DrainCross \/ ForwardBatch, ~overflowed'
  PROVE  InOrder
<1>1. /\ ring \in Seq(Coro) /\ batch \in Seq(Coro) /\ cross \in Seq(Coro)
      /\ ring' \in Seq(Coro) /\ batch' \in Seq(Coro) /\ cross' \in Seq(Coro)
  BY DEF HandleInv, TypeOK
<1>2. CASE DrainCross
  <2>1. batch = <<>> /\ batch' = cross /\ cross' = <<>> /\ ring' = ring
    BY <1>2 DEF DrainCross, HandleInv, BatchInHand
  <2>2. ring \o cross \in Seq(Coro)
    BY <1>1, ConcatProperties
  <2>3. ring \o <<>> = ring /\ (ring \o cross) \o <<>> = ring \o cross
    BY <1>1, <2>2, ConcatEmptySeq
  <2>4. QED
    BY <2>1, <2>3, LineInOrder DEF Line
<1>3. CASE ForwardBatch
  <2> DEFINE c == Head(batch)
  <2>1. /\ ring' = Append(ring, c) /\ batch' = Tail(batch) /\ batch # <<>> /\ cross' = cross
    BY <1>3 DEF ForwardBatch, Forward
  <2>2. c \in Coro /\ <<c>> \in Seq(Coro) /\ Tail(batch) \in Seq(Coro)
    BY <1>1, <2>1, HeadTailProperties
  <2>3. Append(ring, c) = ring \o <<c>>
    BY <1>1, <2>2, AppendIsConcat
  <2>4. (ring \o <<c>>) \o Tail(batch) = ring \o (<<c>> \o Tail(batch))
    <3> DEFINE one == <<c>>
               rest == Tail(batch)
    <3>1. ring \in Seq(Coro) /\ one \in Seq(Coro) /\ rest \in Seq(Coro)
      BY <1>1, <2>2
    <3> HIDE DEF one, rest
    <3>2. (ring \o one) \o rest = ring \o (one \o rest)
      BY <3>1, ConcatAssociative
    <3>3. QED
      BY <3>2 DEF one, rest
  <2>5. <<c>> \o Tail(batch) = batch
    <3>1. /\ Len(batch) \in Nat \ {0} /\ c = batch[1] /\ Len(Tail(batch)) = Len(batch) - 1
          /\ \A i \in 1..Len(Tail(batch)) : Tail(batch)[i] = batch[i + 1]
      BY <1>1, <2>1, HeadTailProperties, EmptySeq
    <3> DEFINE u == <<c>> \o Tail(batch)
    <3>2. /\ Len(<<c>>) = 1 /\ <<c>>[1] = c
      OBVIOUS
    <3>3. /\ u \in Seq(Coro) /\ Len(u) = 1 + Len(Tail(batch))
          /\ \A i \in 1..(1 + Len(Tail(batch))) :
               u[i] = IF i <= 1 THEN <<c>>[i] ELSE Tail(batch)[i - 1]
      BY <2>2, <3>2, ConcatProperties
    <3> HIDE DEF u
    <3>4. Len(u) = Len(batch)
      BY <3>1, <3>3
    <3>5. ASSUME NEW i \in 1..Len(u)
          PROVE  u[i] = batch[i]
      <4>1. CASE i = 1
        BY <3>1, <3>2, <3>3, <4>1
      <4>2. CASE i # 1
        <5>1. i - 1 \in 1..Len(Tail(batch)) /\ (i - 1) + 1 = i /\ ~(i <= 1)
          BY <3>1, <3>3, <4>2
        <5>2. QED
          BY <3>1, <3>3, <5>1
      <4>3. QED
        BY <4>1, <4>2
    <3>6. QED
      BY <1>1, <3>3, <3>4, <3>5, SeqEqual DEF u
  <2>6. QED
    BY <2>1, <2>3, <2>4, <2>5, LineInOrder DEF Line
<1>4. QED
  BY <1>2, <1>3

\* The loop takes the first handle of the line.
LEMMA ResumeInOrder ==
  ASSUME HandleInv, TypeOK', Resume
  PROVE  InOrder
<1>1. ring # <<>> /\ ring' = Tail(ring) /\ batch' = batch /\ cross' = cross
  BY DEF Resume
<1>2. /\ ring \in Seq(Coro) /\ batch \in Seq(Coro) /\ cross \in Seq(Coro)
      /\ ring' \in Seq(Coro) /\ Distinct(Line)
  BY OnePlace DEF HandleInv, TypeOK
<1>3. /\ Len(ring') = Len(ring) - 1 /\ Len(ring) \in Nat \ {0}
      /\ \A i \in 1..Len(ring') : ring'[i] = ring[i + 1]
  BY <1>1, <1>2, HeadTailProperties, EmptySeq
<1> DEFINE s == Line
           t == Line'
<1>4. /\ Len(batch) \in Nat /\ Len(cross) \in Nat
      /\ Len(s) = Len(ring) + Len(batch) + Len(cross)
      /\ \A k \in 1..Len(s) : s[k] = IF k <= Len(ring) THEN ring[k]
                                     ELSE IF k <= Len(ring) + Len(batch)
                                     THEN batch[k - Len(ring)]
                                     ELSE cross[k - Len(ring) - Len(batch)]
  BY <1>2, LinePlaces DEF Line
<1>5. /\ Len(t) = Len(ring) - 1 + Len(batch) + Len(cross)
      /\ \A k \in 1..Len(t) : t[k] = IF k <= Len(ring) - 1 THEN ring'[k]
                                     ELSE IF k <= Len(ring) - 1 + Len(batch)
                                     THEN batch[k - (Len(ring) - 1)]
                                     ELSE cross[k - (Len(ring) - 1) - Len(batch)]
  BY <1>1, <1>2, <1>3, LinePlaces DEF Line
<1> HIDE DEF s, t
<1>6. Shortened(s, t, 1)
  <2> SUFFICES ASSUME NEW k \in 1..Len(t)
               PROVE  k + 1 \in 1..Len(s) /\ t[k] = s[k + 1]
    BY DEF Shortened
  <2>1. /\ k + 1 \in 1..Len(s)
        /\ k <= Len(ring) - 1 <=> k + 1 <= Len(ring)
        /\ k <= Len(ring) - 1 + Len(batch) <=> k + 1 <= Len(ring) + Len(batch)
        /\ k - (Len(ring) - 1) = (k + 1) - Len(ring)
    BY <1>3, <1>4, <1>5
  <2>2. k <= Len(ring) - 1 => ring'[k] = ring[k + 1]
    BY <1>3
  <2>3. t[k] = s[k + 1]
    BY <1>4, <1>5, <2>1, <2>2
  <2>4. QED
    BY <2>1, <2>3
<1>7. QED
  BY <1>2, <1>6, MovedInOrder DEF HandleInv, s, t

\* co_spawn_cross puts its handle at the end of the line.
LEMMA PostInOrder ==
  ASSUME HandleInv, TypeOK', NEW c \in Coro, ~In(c, Line),
         cross' = Append(cross, c), UNCHANGED <<ring, batch>>
  PROVE  InOrder
<1>1. /\ ring \in Seq(Coro) /\ batch \in Seq(Coro) /\ cross \in Seq(Coro)
      /\ cross' \in Seq(Coro) /\ Distinct(Line)
  BY OnePlace DEF HandleInv, TypeOK
<1>2. /\ Len(cross') = Len(cross) + 1
      /\ \A i \in 1..Len(cross) : cross'[i] = cross[i]
      /\ cross'[Len(cross) + 1] = c
  BY <1>1, AppendProperties
<1> DEFINE s == Line
           t == Line'
           n == Len(ring) + Len(batch)
<1>3. /\ Len(ring) \in Nat /\ Len(batch) \in Nat /\ Len(cross) \in Nat /\ n \in Nat
      /\ Len(s) = n + Len(cross)
      /\ \A k \in 1..Len(s) : s[k] = IF k <= Len(ring) THEN ring[k]
                                     ELSE IF k <= n THEN batch[k - Len(ring)]
                                     ELSE cross[k - n]
  <2>1. \A k \in Int : k - Len(ring) - Len(batch) = k - n
    BY <1>1, LenProperties
  <2>2. QED
    BY <1>1, <2>1, LinePlaces DEF Line
<1>4. /\ Len(t) = n + Len(cross) + 1
      /\ \A k \in 1..Len(t) : t[k] = IF k <= Len(ring) THEN ring[k]
                                     ELSE IF k <= n THEN batch[k - Len(ring)]
                                     ELSE cross'[k - n]
  <2>1. \A k \in Int : k - Len(ring) - Len(batch) = k - n
    BY <1>1, LenProperties
  <2>2. t = ring \o batch \o cross'
    BY DEF Line
  <2> HIDE DEF t
  <2>3. /\ Len(t) = Len(ring) + Len(batch) + Len(cross')
        /\ \A k \in 1..(Len(ring) + Len(batch) + Len(cross')) :
              t[k] = IF k <= Len(ring) THEN ring[k]
                     ELSE IF k <= Len(ring) + Len(batch) THEN batch[k - Len(ring)]
                     ELSE cross'[k - Len(ring) - Len(batch)]
    <3> DEFINE x == cross'
    <3>1. x \in Seq(Coro) /\ t = ring \o batch \o x
      BY <1>1, <2>2
    <3> HIDE DEF x
    <3>2. /\ Len(t) = Len(ring) + Len(batch) + Len(x)
          /\ \A k \in 1..(Len(ring) + Len(batch) + Len(x)) :
                t[k] = IF k <= Len(ring) THEN ring[k]
                       ELSE IF k <= Len(ring) + Len(batch) THEN batch[k - Len(ring)]
                       ELSE x[k - Len(ring) - Len(batch)]
      BY <1>1, <3>1, LinePlaces
    <3>3. QED
      BY <3>2 DEF x
  <2>4. /\ Len(t) = n + Len(cross')
        /\ \A k \in 1..Len(t) : t[k] = IF k <= Len(ring) THEN ring[k]
                                       ELSE IF k <= n THEN batch[k - Len(ring)]
                                       ELSE cross'[k - Len(ring) - Len(batch)]
    BY <2>3
  <2> HIDE DEF n
  <2>5. Len(t) = n + Len(cross) + 1 /\ \A k \in 1..Len(t) : k \in Int
    BY <1>2, <1>3, <2>4
  <2>6. QED
    BY <2>1, <2>4, <2>5
<1>5. ~In(c, s)
  OBVIOUS
<1> HIDE DEF s, t, n
<1>6. PutIn(s, t, Len(s))
  <2> SUFFICES ASSUME NEW k \in 1..Len(t)
               PROVE  \/ k <= Len(s) /\ k \in 1..Len(s) /\ t[k] = s[k]
                      \/ k = Len(s) + 1 /\ ~In(t[k], s)
    BY DEF PutIn
  <2>1. CASE k <= Len(s)
    <3>1. k \in 1..Len(s)
      BY <1>3, <2>1
    <3>2. k <= n \/ k - n \in 1..Len(cross)
      BY <1>3, <3>1
    <3>3. t[k] = s[k]
      BY <1>2, <1>3, <1>4, <3>1, <3>2
    <3>4. QED
      BY <2>1, <3>1, <3>3
  <2>2. CASE k > Len(s)
    <3>1. /\ k = Len(s) + 1 /\ k - n = Len(cross) + 1
          /\ ~(k <= n) /\ ~(k <= Len(ring))
      BY <1>3, <1>4, <2>2 DEF n
    <3>2. t[k] = c
      BY <1>2, <1>4, <3>1
    <3>3. QED
      BY <1>5, <3>1, <3>2
  <2>3. QED
    BY <1>3, <1>4, <2>1, <2>2
<1>7. Len(s) \in Nat
  BY <1>3
<1>8. QED
  BY <1>1, <1>6, <1>7, MovedInOrder DEF HandleInv, s, t

\* No step, of the loop or of another thread, lets a handle pass another.
LEMMA NextInOrder ==
  ASSUME HandleInv, HandleInv', [Next]_vars, ~overflowed'
  PROVE  InOrder
<1>1. TypeOK' /\ Distinct(Line)
  BY OnePlace DEF HandleInv
<1>2. CASE UNCHANGED <<ring, batch, cross>>
  BY <1>1, <1>2, LineInOrder DEF Line
<1>3. ASSUME NEW c \in Coro, state[c] # "queued", Forward(c), UNCHANGED batch
      PROVE  InOrder
  <2>1. ~In(c, Line)
    BY <1>3, OnePlace DEF HandleInv, StatesTrue, Listed
  <2>2. QED
    BY <1>1, <1>3, <2>1, ForwardInOrder
<1>4. CASE LoopStep \/ Interrupted
  <2>1. CASE DrainCross \/ ForwardBatch
    BY <1>1, <2>1, DrainsInOrder
  <2>2. CASE Resume
    BY <1>1, <2>2, ResumeInOrder
  <2>3. CASE ForwardDeferred
    <3> DEFINE c == Head(deferred)
    <3>1. deferred \in Seq(Coro) /\ deferred # <<>> /\ Distinct(deferred)
      BY <2>3 DEF ForwardDeferred, HandleInv, TypeOK, QueuesApart
    <3>2. c \in Coro /\ In(c, deferred)
      BY <3>1, Popped
    <3>3. Forward(c) /\ UNCHANGED batch
      BY <2>3 DEF ForwardDeferred
    <3> HIDE DEF c
    <3>4. ~In(c, Line)
      BY <3>2, OnePlace DEF HandleInv, QueuesApart
    <3>5. QED
      BY <1>1, <3>2, <3>3, <3>4, ForwardInOrder
  <2>4. ASSUME NEW c \in Coro, Complete(c)
        PROVE  InOrder
    <3>1. state[c] # "queued"
      BY <2>4 DEF Complete, HandleInv, StatesTrue
    <3>2. QED
      BY <1>3, <2>4, <3>1 DEF Complete
  <2>5. CASE Check \/ BatchDone \/ DeferredDone \/ WorkDone \/ Again \/ EpollWait
             \/ DrainEventfd \/ ArmEventfd \/ Interrupted
    BY <1>2, <2>5 DEF Check, BatchDone, DeferredDone, WorkDone, Again, EpollWait,
       DrainEventfd, ArmEventfd, Interrupted, queues
  <2>6. QED
    BY <1>4, <2>1, <2>2, <2>3, <2>4, <2>5 DEF LoopStep
<1>5. ASSUME NEW c \in Coro, CoroStep(c) \/ IoReady(c)
      PROVE  InOrder
  <2>1. CASE Suspend(c) \/ Yield(c)
    BY <1>2, <2>1 DEF Suspend, Yield, Leaves
  <2>2. CASE SyncOp(c)
    <3>1. state[c] # "queued"
      BY <2>2 DEF SyncOp, Leaves, HandleInv, StatesTrue
    <3>2. QED
      BY <1>3, <2>2, <3>1 DEF SyncOp, Leaves
  <2>3. ASSUME NEW d \in Coro, Spawn(c, d)
        PROVE  InOrder
    BY <1>3, <2>3 DEF Spawn
  <2>4. CASE StopSelf(c) \/ IoReady(c)
    BY <1>2, <2>4 DEF StopSelf, IoReady, queues
  <2>5. QED
    BY <1>5, <2>1, <2>2, <2>3, <2>4 DEF CoroStep
<1>6. ASSUME NEW t \in Thread, ThreadStep(t)
      PROVE  InOrder
  <2>1. CASE Stop(t) \/ Wakeup(t)
    BY <1>2, <2>1 DEF Stop, Wakeup, queues
  <2>2. ASSUME NEW c \in Coro, Post(t, c)
        PROVE  InOrder
    <3>1. ~In(c, Line)
      BY <2>2, OnePlace DEF Post, HandleInv, StatesTrue, Listed
    <3>2. QED
      BY <1>1, <2>2, <3>1, PostInOrder DEF Post
  <2>3. QED
    BY <1>6, <2>1, <2>2 DEF ThreadStep
<1>7. QED
  BY <1>2, <1>4, <1>5, <1>6 DEF Next, vars, queues

\* Handles are resumed in the order in which they were posted, and none passes
\* another in the line, while the ring has not overflowed.
THEOREM OrderPreserved == Spec => FifoKept
<1>1. HandleInv /\ HandleInv' /\ [Next]_vars => [InOrder]_vars
  BY NextInOrder DEF InOrder
<1>2. HandleInv /\ [Next]_vars => [InOrder]_vars
  BY <1>1, NextHandles
<1>3. Spec => [][InOrder]_vars
  BY <1>2, HandlesInvariant, PTL DEF Spec
<1>4. QED
  BY <1>3 DEF InOrder, FifoKept
-----------------------------------------------------------------------------
(* Shutdown.                                                                *)

\* Where the coroutines that were queued when the loop saw will_stop_ still
\* are: in front of the drain's next move, and in the ring after its first
\* pass, until a round has emptied the ring.
ResidueAhead ==
    /\ pass = 0 => residue = {}
    /\ \A c \in residue : state[c] = "queued"
    /\ ~overflowed =>
         /\ at \in {"forward", "drain deferred"} => \A c \in residue : ~In(c, cross)
         /\ at \in {"work", "again"} \/ pass >= 2 => \A c \in residue : In(c, ring)
         /\ at = "exited" \/ (at = "again" /\ pass >= 2) => residue = {}

ResidueInv == HandleInv /\ PassesInOrder /\ ResidueAhead

LEMMA InitResidue == Init => ResidueInv
BY InitHandles, InitInv DEF Init, IInv, ResidueInv, ResidueAhead

\* forward_task adds to the ring, or the ring has overflowed.
LEMMA ForwardFills ==
  ASSUME HandleInv, NEW c \in Coro, Forward(c), ~In(c, ring), ~In(c, cross), ~overflowed'
  PROVE  /\ ~overflowed /\ cross' = cross
         /\ \A x \in Coro : In(x, ring') <=> In(x, ring) \/ x = c
BY ForwardMoves DEF HandleInv, QueuesApart

\* A step of the coroutines or of another thread takes nothing from the ring.
LEMMA ResidueKept ==
  ASSUME ResidueInv, UNCHANGED <<pass, residue>>,
         \A c \in residue : state'[c] = state[c],
         at' = at \/ (at = "work" /\ at' = "again" /\ pass < 2),
         ~overflowed' => /\ ~overflowed
                         /\ \A c \in residue : /\ In(c, ring) => In(c, ring')
                                               /\ In(c, cross') => In(c, cross)
  PROVE  ResidueAhead'
<1>1. /\ pass' = pass /\ residue' = residue /\ pass \in 0..4
      /\ pass = 0 => residue = {}
      /\ \A c \in residue : state[c] = "queued"
  BY DEF ResidueInv, HandleInv, TypeOK, ResidueAhead
<1>2. ASSUME ~overflowed'
      PROVE  /\ at' \in {"forward", "drain deferred"} => \A c \in residue : ~In(c, cross')
             /\ at' \in {"work", "again"} \/ pass >= 2 => \A c \in residue : In(c, ring')
             /\ at' = "exited" \/ (at' = "again" /\ pass >= 2) => residue = {}
  <2>1. /\ at \in {"forward", "drain deferred"} => \A c \in residue : ~In(c, cross)
        /\ at \in {"work", "again"} \/ pass >= 2 => \A c \in residue : In(c, ring)
        /\ at = "exited" \/ (at = "again" /\ pass >= 2) => residue = {}
    BY <1>2 DEF ResidueInv, ResidueAhead
  <2>2. \A c \in residue : (In(c, ring) => In(c, ring')) /\ (In(c, cross') => In(c, cross))
    BY <1>2
  <2>3. CASE at' = at
    BY <2>1, <2>2, <2>3
  <2>4. CASE at = "work" /\ at' = "again" /\ pass < 2
    <3>1. ~(pass >= 2)
      BY <1>1, <2>4
    <3>2. QED
      BY <2>1, <2>2, <2>4, <3>1
  <2>5. QED
    BY <2>3, <2>4
<1>3. /\ pass' = 0 => residue' = {}
      /\ \A c \in residue' : state'[c] = "queued"
  BY <1>1
<1>4. QED
  BY <1>1, <1>2, <1>3 DEF ResidueAhead

LEMMA LoopResidue ==
  ASSUME ResidueInv, HandleInv', LoopStep \/ Interrupted
  PROVE  ResidueAhead'
<1> USE DEF ResidueInv
<1>1. /\ pass \in 0..4 /\ residue \subseteq Coro
      /\ pass = 0 => residue = {}
      /\ \A c \in residue : state[c] = "queued"
  BY DEF HandleInv, TypeOK, ResidueAhead
<1>2. ASSUME ~overflowed
      PROVE  /\ at \in {"forward", "drain deferred"} => \A c \in residue : ~In(c, cross)
             /\ at \in {"work", "again"} \/ pass >= 2 => \A c \in residue : In(c, ring)
             /\ at = "exited" \/ (at = "again" /\ pass >= 2) => residue = {}
  BY <1>2 DEF ResidueAhead
<1>3. CASE Check
  <2>1. /\ at' = "drain cross" /\ UNCHANGED state
        /\ \/ willStop /\ pass' = 1 /\ residue' = Queued
           \/ ~willStop /\ pass' = 0 /\ residue' = {}
    BY <1>3 DEF Check
  <2>2. ~(pass' >= 2) /\ (pass' = 0 => residue' = {})
    <3>1. ~(0 >= 2) /\ ~(1 >= 2) /\ 1 # 0
      OBVIOUS
    <3>2. QED
      BY <2>1, <3>1, Zenon
  <2>3. \A c \in residue' : state'[c] = "queued"
    BY <2>1 DEF Queued
  <2>4. QED
    BY <2>1, <2>2, <2>3 DEF ResidueAhead
<1>4. CASE DrainCross
  <2>1. /\ cross' = <<>> /\ at' = "forward"
        /\ UNCHANGED <<ring, state, overflowed, pass, residue>>
    BY <1>4 DEF DrainCross
  <2>2. \A c \in residue : ~In(c, cross')
    BY <2>1, Nothing
  <2>3. QED
    BY <1>1, <1>2, <2>1, <2>2 DEF ResidueAhead
<1>5. ASSUME NEW c \in Coro, Forward(c), ~In(c, ring), ~In(c, cross),
             at' = at, UNCHANGED <<state, pass, residue>>
      PROVE  ResidueAhead'
  <2>1. ~overflowed' => /\ ~overflowed /\ cross' = cross
                        /\ \A x \in residue : In(x, ring) => In(x, ring')
    BY <1>1, <1>5, ForwardFills
  <2>2. QED
    BY <1>5, <2>1, ResidueKept
<1>6. CASE ForwardBatch
  <2>1. /\ batch \in Seq(Coro) /\ batch # <<>> /\ Distinct(batch)
        /\ Forward(Head(batch)) /\ UNCHANGED <<at, state, pass, residue>>
    BY <1>6 DEF ForwardBatch, loop, HandleInv, TypeOK, QueuesApart
  <2>2. Head(batch) \in Coro /\ In(Head(batch), batch)
    BY <2>1, Popped
  <2>3. ~In(Head(batch), ring) /\ ~In(Head(batch), cross)
    BY <2>2 DEF HandleInv, QueuesApart
  <2>4. QED
    BY <1>5, <2>1, <2>2, <2>3
<1>7. CASE ForwardDeferred
  <2>1. /\ deferred \in Seq(Coro) /\ deferred # <<>> /\ Distinct(deferred)
        /\ Forward(Head(deferred)) /\ UNCHANGED <<at, state, pass, residue>>
    BY <1>7 DEF ForwardDeferred, loop, HandleInv, TypeOK, QueuesApart
  <2>2. Head(deferred) \in Coro /\ In(Head(deferred), deferred)
    BY <2>1, Popped
  <2>3. ~In(Head(deferred), ring) /\ ~In(Head(deferred), cross)
    BY <2>2 DEF HandleInv, QueuesApart
  <2>4. QED
    BY <1>5, <2>1, <2>2, <2>3
<1>8. CASE BatchDone
  BY <1>1, <1>2, <1>8 DEF BatchDone, ResidueAhead, queues
<1>9. CASE DeferredDone
  <2>1. /\ at = "drain deferred" /\ deferred = <<>> /\ at' = "work"
        /\ UNCHANGED <<ring, batch, cross, overflowed, state, pass, residue>>
    BY <1>9 DEF DeferredDone, queues
  <2>2. batch = <<>>
    BY <2>1 DEF HandleInv, BatchInHand
  <2>3. ASSUME ~overflowed, NEW c \in residue
        PROVE  In(c, ring)
    <3>1. c \in Coro /\ Listed(c) /\ ~In(c, cross)
      BY <1>1, <1>2, <2>1, <2>3 DEF HandleInv, StatesTrue
    <3>2. ~In(c, batch) /\ ~In(c, deferred)
      BY <2>1, <2>2, Nothing
    <3>3. QED
      BY <3>1, <3>2 DEF Listed
  <2>4. QED
    BY <1>1, <2>1, <2>3 DEF ResidueAhead
<1>10. CASE Resume
  <2> DEFINE c == Head(ring)
  <2>1. /\ ring # <<>> /\ ring' = Tail(ring) /\ residue' = residue \ {c}
        /\ state' = [state EXCEPT ![c] = "running"] /\ at = "work"
        /\ UNCHANGED <<cross, overflowed, at, pass>>
    BY <1>10 DEF Resume
  <2>2. \A x \in Coro : In(x, ring') <=> In(x, ring) /\ x # c
    BY <2>1, Popped DEF HandleInv, TypeOK, QueuesApart
  <2> HIDE DEF c
  <2>3. \A x \in Coro : x # c => state'[x] = state[x]
    BY <2>1 DEF HandleInv, TypeOK
  <2>4. QED
    BY <1>1, <1>2, <2>1, <2>2, <2>3 DEF ResidueAhead
<1>11. CASE WorkDone
  <2>1. /\ ring = <<>> /\ at = "work" /\ at' \in {"poll", "again"}
        /\ UNCHANGED <<ring, cross, overflowed, state, pass, residue>>
    BY <1>11 DEF WorkDone, queues
  <2>2. ~overflowed => residue = {}
    BY <1>1, <1>2, <2>1, Nothing
  <2>3. QED
    BY <1>1, <2>1, <2>2 DEF ResidueAhead
<1>12. CASE Again
  <2>1. /\ at = "again" /\ pass # 0
        /\ UNCHANGED <<ring, cross, overflowed, state, residue>>
        /\ \/ at' = "drain cross" /\ pass' = pass + 1
           \/ at' = "exited" /\ pass' = pass /\ (ring = <<>> \/ ~(pass < 4))
    BY <1>12 DEF Again, queues, PassesInOrder
  <2>2. ~overflowed => \A c \in residue : In(c, ring)
    BY <1>2, <2>1
  <2>3. CASE at' = "drain cross" /\ pass' = pass + 1
    <3>1. pass \in 0..4
      BY <1>1
    <3>2. pass + 1 # 0
      BY <3>1
    <3>3. pass' # 0
      BY <2>3, <3>2
    <3>4. QED
      BY <1>1, <2>1, <2>2, <2>3, <3>3 DEF ResidueAhead
  <2>4. CASE at' = "exited" /\ pass' = pass /\ (ring = <<>> \/ ~(pass < 4))
    <3>1. ~overflowed => residue = {}
      <4>1. CASE ring = <<>>
        BY <2>2, <4>1, Nothing
      <4>2. CASE ~(pass < 4)
        <5>1. pass >= 2
          BY <1>1, <4>2
        <5>2. QED
          BY <1>2, <2>1, <5>1
      <4>3. QED
        BY <2>4, <4>1, <4>2
    <3>2. QED
      BY <1>1, <2>1, <2>4, <3>1 DEF ResidueAhead
  <2>5. QED
    BY <2>1, <2>3, <2>4
<1>13. CASE EpollWait \/ Interrupted \/ DrainEventfd \/ ArmEventfd
  <2>1. pass = 0 /\ residue = {} /\ UNCHANGED <<pass, residue>>
    BY <1>1, <1>13 DEF EpollWait, Interrupted, DrainEventfd, ArmEventfd, loop, PassesInOrder
  <2>2. QED
    BY <2>1 DEF ResidueAhead
<1>14. ASSUME NEW c \in Coro, Complete(c)
       PROVE  ResidueAhead'
  <2>1. pass = 0 /\ residue = {} /\ UNCHANGED <<pass, residue>>
    BY <1>1, <1>14 DEF Complete, PassesInOrder
  <2>2. QED
    BY <2>1 DEF ResidueAhead
<1>15. QED
  BY <1>3, <1>4, <1>6, <1>7, <1>8, <1>9, <1>10, <1>11, <1>12, <1>13, <1>14 DEF LoopStep

LEMMA OthersResidue ==
  ASSUME ResidueInv,
         \/ \E c \in Coro : CoroStep(c) \/ IoReady(c)
         \/ \E t \in Thread : ThreadStep(t)
  PROVE  ResidueAhead'
<1> USE DEF ResidueInv
<1>1. /\ residue \subseteq Coro /\ state \in [Coro -> CoroState]
      /\ \A c \in residue : state[c] = "queued"
      /\ pass \in 0..4
  BY DEF HandleInv, TypeOK, ResidueAhead
<1>2. ASSUME NEW c \in Coro, NEW where, Leaves(c, where)
      PROVE  /\ UNCHANGED <<pass, residue>>
             /\ \A x \in residue : state'[x] = state[x]
             /\ at' = at \/ (at = "work" /\ at' = "again" /\ pass < 2)
             /\ state[c] # "queued"
  <2>1. /\ state' = [state EXCEPT ![c] = where] /\ current = c /\ at = "work"
        /\ UNCHANGED <<pass, residue>>
        /\ at' = IF pass = 1 THEN "again" ELSE at
    BY <1>2 DEF Leaves
  <2>2. state[c] = "running"
    BY <2>1 DEF HandleInv, StatesTrue
  <2>3. QED
    BY <1>1, <2>1, <2>2
<1>3. ASSUME NEW c \in Coro, Suspend(c) \/ Yield(c)
      PROVE  ResidueAhead'
  <2>1. PICK where : Leaves(c, where)
    BY <1>3 DEF Suspend, Yield
  <2>2. UNCHANGED <<ring, cross, overflowed>>
    BY <1>3 DEF Suspend, Yield
  <2>3. QED
    BY <1>2, <2>1, <2>2, ResidueKept
<1>4. ASSUME NEW c \in Coro, Forward(c), state[c] # "queued"
      PROVE  ~overflowed' => /\ ~overflowed /\ cross' = cross
                             /\ \A x \in residue : In(x, ring) => In(x, ring')
  <2>1. ~In(c, ring) /\ ~In(c, cross)
    BY <1>4 DEF HandleInv, StatesTrue, Listed
  <2>2. QED
    BY <1>1, <1>4, <2>1, ForwardFills
<1>5. ASSUME NEW c \in Coro, SyncOp(c)
      PROVE  ResidueAhead'
  <2>1. Leaves(c, "queued") /\ Forward(c)
    BY <1>5 DEF SyncOp
  <2>2. QED
    BY <1>2, <1>4, <2>1, ResidueKept
<1>6. ASSUME NEW c \in Coro, NEW d \in Coro, Spawn(c, d)
      PROVE  ResidueAhead'
  <2>1. /\ Forward(d) /\ state[d] = "held" /\ state' = [state EXCEPT ![d] = "queued"]
        /\ UNCHANGED <<at, pass, residue>>
    BY <1>6 DEF Spawn
  <2>2. \A x \in residue : state'[x] = state[x]
    BY <1>1, <2>1
  <2>3. QED
    BY <1>4, <2>1, <2>2, ResidueKept
<1>7. ASSUME NEW c \in Coro, StopSelf(c)
      PROVE  ResidueAhead'
  <2>1. UNCHANGED <<ring, cross, overflowed, state, at, pass, residue>>
    BY <1>7 DEF StopSelf, queues, loop
  <2>2. QED
    BY <2>1, ResidueKept
<1>8. ASSUME NEW c \in Coro, IoReady(c)
      PROVE  ResidueAhead'
  <2>1. /\ UNCHANGED <<ring, cross, overflowed, at, pass, residue>>
        /\ state[c] = "io" /\ state' = [state EXCEPT ![c] = "ready"]
    BY <1>8 DEF IoReady, queues, loop
  <2>2. \A x \in residue : state'[x] = state[x]
    BY <1>1, <2>1
  <2>3. QED
    BY <2>1, <2>2, ResidueKept
<1>9. ASSUME NEW t \in Thread, Stop(t) \/ Wakeup(t)
      PROVE  ResidueAhead'
  <2>1. UNCHANGED <<ring, cross, overflowed, state, at, pass, residue>>
    BY <1>9 DEF Stop, Wakeup, queues, loop
  <2>2. QED
    BY <2>1, ResidueKept
<1>10. ASSUME NEW t \in Thread, NEW c \in Coro, Post(t, c)
       PROVE  ResidueAhead'
  <2>1. /\ UNCHANGED <<ring, overflowed, at, pass, residue>> /\ cross' = Append(cross, c)
        /\ state[c] = "held" /\ state' = [state EXCEPT ![c] = "queued"]
    BY <1>10 DEF Post, loop
  <2>2. \A x \in residue : state'[x] = state[x] /\ x # c
    BY <1>1, <2>1
  <2>3. \A x \in residue : In(x, cross') => In(x, cross)
    BY <1>1, <2>1, <2>2, Pushed DEF HandleInv, TypeOK
  <2>4. QED
    BY <2>1, <2>2, <2>3, ResidueKept
<1>11. QED
  BY <1>3, <1>5, <1>6, <1>7, <1>8, <1>9, <1>10 DEF CoroStep, ThreadStep

LEMMA NextResidue == ResidueInv /\ [Next]_vars => ResidueInv'
<1> SUFFICES ASSUME ResidueInv, [Next]_vars
             PROVE  ResidueInv'
  OBVIOUS
<1>1. HandleInv' /\ PassesInOrder'
  BY NextHandles, PassesStep DEF ResidueInv, HandleInv
<1>2. ResidueAhead'
  <2>1. CASE UNCHANGED vars
    <3>1. UNCHANGED <<ring, cross, overflowed, state, at, pass, residue>>
      BY <2>1 DEF vars, queues, loop
    <3>2. QED
      BY <3>1, ResidueKept
  <2>2. QED
    BY <1>1, <2>1, LoopResidue, OthersResidue DEF Next
<1>3. QED
  BY <1>1, <1>2 DEF ResidueInv

\* drain_residual_coroutines: what was queued when the loop saw will_stop_ has
\* been resumed when the backend is closed, unless the ring has overflowed.
THEOREM Drained == Spec => []ResidueResumed
<1>1. ResidueInv => ResidueResumed
  BY DEF ResidueInv, ResidueAhead, ResidueResumed
<1>2. QED
  BY <1>1, InitResidue, NextResidue, PTL DEF Spec

-----------------------------------------------------------------------------
(* The barrier: the inductive invariant.                                    *)

\* started_ follows the life of the io_context.
StartedFollows == \A c \in Ctx : /\ life[c] \in {"none", "created"} => ~started[c]
                                 /\ life[c] \in {"starting", "running"} => started[c]

\* While nothing is torn down, ready_count only grows: what a thread has read
\* of it is a lower bound.
ReadIsLow == TornDown = {}
             => \A c \in Ctx : runner[c] \in {"compare", "wait", "blocked"}
                               => cur[c] <= readyCount

BarrierInv == BarrierTypeOK /\ StartedFollows /\ CountsExact /\ ReadIsLow
-----------------------------------------------------------------------------
(* Counting.                                                                *)

LEMMA SubsetsFinite ==
  ASSUME NEW S \in SUBSET Ctx
  PROVE  IsFiniteSet(S) /\ Cardinality(S) \in Nat
BY CtxAssumption, FS_Subset, FS_CardinalityType

LEMMA CountOneMore ==
  ASSUME NEW S \in SUBSET Ctx, NEW T \in SUBSET Ctx, NEW c \in Ctx,
         c \notin S, T = S \cup {c}
  PROVE  Cardinality(T) = Cardinality(S) + 1
BY SubsetsFinite, FS_AddElement

LEMMA CountOneLess ==
  ASSUME NEW S \in SUBSET Ctx, NEW T \in SUBSET Ctx, NEW c \in Ctx,
         c \in S, T = S \ {c}
  PROVE  Cardinality(T) = Cardinality(S) - 1
BY SubsetsFinite, FS_RemoveElement

\* The counters are those of a type: the sets they count are finite.
LEMMA CountsAreNat == CountsExact => createCount \in Nat /\ readyCount \in Nat
BY SubsetsFinite DEF CountsExact, Existing, Ready
-----------------------------------------------------------------------------
(* Initial states.                                                          *)

LEMMA InitBarrier == BarrierInit => BarrierInv
<1> SUFFICES ASSUME BarrierInit PROVE BarrierInv
  OBVIOUS
<1>1. BarrierTypeOK
  BY DEF BarrierInit, BarrierTypeOK, Life, RunnerState
<1>2. StartedFollows /\ ReadIsLow
  BY DEF BarrierInit, StartedFollows, ReadIsLow
<1>3. Existing = {} /\ Ready = {}
  BY DEF BarrierInit, Existing, Ready, Exists, CountsAsReady
<1>4. CountsExact
  BY <1>3, FS_EmptySet DEF BarrierInit, CountsExact
<1>5. QED
  BY <1>1, <1>2, <1>4 DEF BarrierInv
-----------------------------------------------------------------------------
(* The counters.                                                            *)

LEMMA CountsStep ==
  BarrierTypeOK /\ StartedFollows /\ CountsExact /\ [BarrierNext]_barrierVars => CountsExact'
<1> SUFFICES ASSUME BarrierTypeOK, StartedFollows, CountsExact, [BarrierNext]_barrierVars
             PROVE  CountsExact'
  OBVIOUS
<1>1. /\ Existing \in SUBSET Ctx /\ Ready \in SUBSET Ctx
      /\ Existing' \in SUBSET Ctx /\ Ready' \in SUBSET Ctx
  BY DEF Existing, Ready
<1>2. ASSUME UNCHANGED counts, Existing' = Existing, Ready' = Ready
      PROVE  CountsExact'
  BY <1>2 DEF CountsExact, counts
<1>3. ASSUME UNCHANGED <<life, started>>
      PROVE  Existing' = Existing /\ Ready' = Ready
  BY <1>3 DEF Existing, Ready, Exists, CountsAsReady
<1>4. CASE UNCHANGED barrierVars
  BY <1>2, <1>3, <1>4 DEF barrierVars, object
<1>5. ASSUME NEW c \in Ctx, Construct(c)
      PROVE  CountsExact'
  <2>1. c \notin Existing /\ Existing' = Existing \cup {c}
    BY <1>5 DEF Construct, Existing, Exists, BarrierTypeOK
  <2>2. Ready' = Ready
    BY <1>5 DEF Construct, Ready, CountsAsReady, StartedFollows, BarrierTypeOK
  <2>3. Cardinality(Existing') = Cardinality(Existing) + 1
    BY <1>1, <2>1, CountOneMore
  <2>4. QED
    BY <1>5, <2>2, <2>3 DEF Construct, CountsExact
<1>6. ASSUME NEW c \in Ctx, Start(c)
      PROVE  CountsExact'
  <2>1. c \notin Ready /\ Ready' = Ready \cup {c}
    BY <1>6 DEF Start, Ready, CountsAsReady, StartedFollows, BarrierTypeOK
  <2>2. Existing' = Existing
    BY <1>6 DEF Start, Existing, Exists, BarrierTypeOK
  <2>3. Cardinality(Ready') = Cardinality(Ready) + 1
    BY <1>1, <2>1, CountOneMore
  <2>4. QED
    BY <1>6, <2>2, <2>3 DEF Start, CountsExact
<1>7. ASSUME NEW c \in Ctx, StartThread(c) \/ Destroy(c) \/ Join(c)
      PROVE  CountsExact'
  <2>1. UNCHANGED counts /\ UNCHANGED started
    BY <1>7 DEF StartThread, Destroy, Join, object
  <2>2. PICK v \in Life : /\ life' = [life EXCEPT ![c] = v]
                          /\ v \notin {"none", "unready", "uncreated", "gone"}
    BY <1>7 DEF StartThread, Destroy, Join, Life
  <2>3. life[c] \notin {"none", "unready", "uncreated", "gone"}
    BY <1>7, DestroyedAssumption DEF StartThread, Destroy, Join
  <2>4. Existing' = Existing
    BY <2>2, <2>3 DEF Existing, Exists, BarrierTypeOK
  <2>5. Ready' = Ready
    BY <2>1, <2>2, <2>3 DEF Ready, CountsAsReady, BarrierTypeOK
  <2>6. QED
    BY <1>2, <2>1, <2>4, <2>5
<1>8. ASSUME NEW c \in Ctx, Unready(c)
      PROVE  CountsExact'
  <2>1. Existing' = Existing
    BY <1>8 DEF Unready, Existing, Exists, BarrierTypeOK
  <2>2. CASE started[c]
    <3>1. c \in Ready /\ Ready' = Ready \ {c}
      BY <1>8, <2>2 DEF Unready, Ready, CountsAsReady, BarrierTypeOK, object
    <3>2. Cardinality(Ready') = Cardinality(Ready) - 1
      BY <1>1, <3>1, CountOneLess
    <3>3. QED
      BY <1>8, <2>1, <2>2, <3>2 DEF Unready, CountsExact
  <2>3. CASE ~started[c]
    <3>1. Ready' = Ready
      BY <1>8, <2>3 DEF Unready, Ready, CountsAsReady, BarrierTypeOK, object
    <3>2. readyCount' = readyCount
      BY <1>8, <2>3, CountsAreNat DEF Unready
    <3>3. QED
      BY <1>8, <2>1, <3>1, <3>2 DEF Unready, CountsExact
  <2>4. QED
    BY <2>2, <2>3
<1>9. ASSUME NEW c \in Ctx, Uncreate(c)
      PROVE  CountsExact'
  <2>1. c \in Existing /\ Existing' = Existing \ {c}
    BY <1>9 DEF Uncreate, Existing, Exists, BarrierTypeOK
  <2>2. Ready' = Ready
    BY <1>9 DEF Uncreate, Ready, CountsAsReady, BarrierTypeOK, object
  <2>3. Cardinality(Existing') = Cardinality(Existing) - 1
    BY <1>1, <2>1, CountOneLess
  <2>4. QED
    BY <1>9, <2>2, <2>3 DEF Uncreate, CountsExact
<1>10. ASSUME NEW c \in Ctx, NotifyIfOpen(c)
       PROVE  CountsExact'
  <2>1. Existing' = Existing /\ Ready' = Ready
    BY <1>10 DEF NotifyIfOpen, Existing, Exists, Ready, CountsAsReady, BarrierTypeOK, object
  <2>2. QED
    BY <1>2, <1>10, <2>1 DEF NotifyIfOpen
<1>11. ASSUME NEW c \in Ctx, CanStop(c) \/ RunnerStep(c)
       PROVE  CountsExact'
  <2>1. UNCHANGED counts /\ UNCHANGED <<life, started>>
    BY <1>11 DEF CanStop, RunnerStep, LoadReady, Compare, Closed, Open, Wait, Exit, object
  <2>2. QED
    BY <1>2, <1>3, <2>1
<1>12. QED
  BY <1>4, <1>5, <1>6, <1>7, <1>8, <1>9, <1>10, <1>11 DEF BarrierNext, OwnerCarriesOn
-----------------------------------------------------------------------------
(* The other parts.                                                         *)

LEMMA BarrierTypeStep == BarrierTypeOK /\ CountsExact' /\ [BarrierNext]_barrierVars => BarrierTypeOK'
<1> SUFFICES ASSUME BarrierTypeOK, CountsExact', [BarrierNext]_barrierVars
             PROVE  BarrierTypeOK'
  OBVIOUS
<1>1. createCount' \in Nat /\ readyCount' \in Nat
  <2>1. Existing' \in SUBSET Ctx /\ Ready' \in SUBSET Ctx
    BY DEF Existing, Ready
  <2>2. QED
    BY <2>1, SubsetsFinite DEF CountsExact
<1>2. NotifyAll \in [Ctx -> RunnerState]
  BY DEF NotifyAll, BarrierTypeOK, RunnerState
<1>3. CASE UNCHANGED barrierVars
  BY <1>3 DEF barrierVars, counts, object, BarrierTypeOK
<1>4. ASSUME NEW c \in Ctx, Construct(c)
      PROVE  BarrierTypeOK'
  BY <1>1, <1>4 DEF Construct, BarrierTypeOK, Life
<1>5. ASSUME NEW c \in Ctx, Start(c)
      PROVE  BarrierTypeOK'
  BY <1>1, <1>5 DEF Start, BarrierTypeOK, Life
<1>6. ASSUME NEW c \in Ctx, CanStop(c) \/ Destroy(c) \/ Join(c) \/ Unready(c)
      PROVE  BarrierTypeOK'
  BY <1>1, <1>6 DEF CanStop, Destroy, Join, Unready, BarrierTypeOK, Life, counts, object
<1>7. ASSUME NEW c \in Ctx, StartThread(c)
      PROVE  BarrierTypeOK'
  <2>1. runner' \in [Ctx -> RunnerState]
    BY <1>2, <1>7 DEF StartThread, RunnerState
  <2>2. QED
    BY <1>1, <1>7, <2>1 DEF StartThread, BarrierTypeOK, Life, counts, object
<1>8. ASSUME NEW c \in Ctx, Uncreate(c)
      PROVE  BarrierTypeOK'
  BY <1>1, <1>8 DEF Uncreate, BarrierTypeOK, Life, object
<1>9. ASSUME NEW c \in Ctx, NotifyIfOpen(c)
      PROVE  BarrierTypeOK'
  <2>1. runner' \in [Ctx -> RunnerState]
    BY <1>2, <1>9 DEF NotifyIfOpen, BarrierTypeOK
  <2>2. QED
    BY <1>1, <1>9, <2>1 DEF NotifyIfOpen, BarrierTypeOK, Life, counts, object
<1>10. ASSUME NEW c \in Ctx, RunnerStep(c)
       PROVE  BarrierTypeOK'
  <2>1. runner' \in [Ctx -> RunnerState]
    BY <1>10 DEF RunnerStep, LoadReady, Compare, Closed, Open, Wait, Exit, BarrierTypeOK, RunnerState
  <2>2. cur' \in [Ctx -> Nat]
    BY <1>10 DEF RunnerStep, LoadReady, Compare, Closed, Open, Wait, Exit, BarrierTypeOK
  <2>3. UNCHANGED <<counts, object, life>>
    BY <1>10 DEF RunnerStep, LoadReady, Compare, Closed, Open, Wait, Exit
  <2>4. QED
    BY <1>1, <2>1, <2>2, <2>3 DEF BarrierTypeOK, object
<1>11. QED
  BY <1>3, <1>4, <1>5, <1>6, <1>7, <1>8, <1>9, <1>10 DEF BarrierNext, OwnerCarriesOn

LEMMA StartedFollowsStep ==
  BarrierTypeOK /\ StartedFollows /\ [BarrierNext]_barrierVars => StartedFollows'
<1> SUFFICES ASSUME BarrierTypeOK, StartedFollows, [BarrierNext]_barrierVars
             PROVE  StartedFollows'
  OBVIOUS
<1>1. ASSUME UNCHANGED <<life, started>>
      PROVE  StartedFollows'
  BY <1>1 DEF StartedFollows
<1>2. CASE UNCHANGED barrierVars
  BY <1>1, <1>2 DEF barrierVars, object
<1>3. ASSUME NEW c \in Ctx, Construct(c) \/ Start(c) \/ StartThread(c)
      PROVE  StartedFollows'
  BY <1>3 DEF Construct, Start, StartThread, object, StartedFollows, BarrierTypeOK
<1>4. ASSUME NEW c \in Ctx,
             Destroy(c) \/ Join(c) \/ Unready(c) \/ Uncreate(c) \/ NotifyIfOpen(c)
      PROVE  StartedFollows'
  BY <1>4 DEF Destroy, Join, Unready, Uncreate, NotifyIfOpen, object, StartedFollows, BarrierTypeOK
<1>5. ASSUME NEW c \in Ctx, CanStop(c) \/ RunnerStep(c)
      PROVE  StartedFollows'
  <2>1. UNCHANGED <<life, started>>
    BY <1>5 DEF CanStop, RunnerStep, LoadReady, Compare, Closed, Open, Wait, Exit, object
  <2>2. QED
    BY <1>1, <2>1
<1>6. QED
  BY <1>2, <1>3, <1>4, <1>5 DEF BarrierNext, OwnerCarriesOn

LEMMA ReadIsLowStep == BarrierTypeOK /\ ReadIsLow /\ [BarrierNext]_barrierVars => ReadIsLow'
<1> SUFFICES ASSUME BarrierTypeOK, ReadIsLow, [BarrierNext]_barrierVars, TornDown' = {},
                    NEW d \in Ctx, runner'[d] \in {"compare", "wait", "blocked"}
             PROVE  cur'[d] <= readyCount'
  BY DEF ReadIsLow
<1>1. life' \in [Ctx -> Life] => \A c \in Ctx : life'[c] \notin {"unready", "uncreated", "gone"}
  BY DEF TornDown
<1> DEFINE Low == TornDown = {} /\ runner[d] \in {"compare", "wait", "blocked"}
<1>2. readyCount \in Int /\ cur[d] \in Int /\ (Low => cur[d] <= readyCount)
  BY DEF ReadIsLow, BarrierTypeOK
<1>3. CASE UNCHANGED barrierVars
  BY <1>2, <1>3 DEF barrierVars, counts, object, TornDown
<1>4. ASSUME NEW c \in Ctx, Construct(c) \/ Start(c) \/ CanStop(c) \/ Destroy(c) \/ Join(c)
      PROVE  cur'[d] <= readyCount'
  <2>1. UNCHANGED <<runner, cur>>
    BY <1>4 DEF Construct, Start, CanStop, Destroy, Join
  <2>2. readyCount' \in {readyCount, readyCount + 1}
    BY <1>4 DEF Construct, Start, CanStop, Destroy, Join, counts
  <2>3. TornDown = {}
    BY <1>4, DestroyedAssumption
    DEF Construct, Start, CanStop, Destroy, Join, TornDown, BarrierTypeOK
  <2>4. QED
    BY <1>2, <2>1, <2>2, <2>3
<1>5. ASSUME NEW c \in Ctx, StartThread(c)
      PROVE  cur'[d] <= readyCount'
  <2>1. UNCHANGED <<cur, counts>>
    BY <1>5 DEF StartThread
  <2>2. TornDown = {}
    BY <1>5 DEF StartThread, TornDown, BarrierTypeOK
  <2>3. runner[d] \in {"compare", "wait", "blocked"}
    BY <1>5 DEF StartThread, NotifyAll, BarrierTypeOK
  <2>4. QED
    BY <1>2, <2>1, <2>2, <2>3 DEF counts
<1>6. ASSUME NEW c \in Ctx, Unready(c) \/ Uncreate(c) \/ NotifyIfOpen(c)
      PROVE  FALSE
  BY <1>6 DEF Unready, Uncreate, NotifyIfOpen, TornDown, BarrierTypeOK
<1>7. ASSUME NEW c \in Ctx, RunnerStep(c)
      PROVE  cur'[d] <= readyCount'
  <2>1. UNCHANGED <<readyCount, life>>
    BY <1>7 DEF RunnerStep, LoadReady, Compare, Closed, Open, Wait, Exit, counts
  <2>2. TornDown = {}
    BY <2>1 DEF TornDown
  <2>3. CASE c = d /\ LoadReady(c)
    BY <1>2, <2>1, <2>3 DEF LoadReady, BarrierTypeOK
  <2>4. CASE ~(c = d /\ LoadReady(c))
    <3>1. cur'[d] = cur[d]
      BY <1>7, <2>4 DEF RunnerStep, LoadReady, Compare, Closed, Open, Wait, Exit, BarrierTypeOK
    <3>2. runner[d] \in {"compare", "wait", "blocked"}
      BY <1>7, <2>4 DEF RunnerStep, LoadReady, Compare, Closed, Open, Wait, Exit, BarrierTypeOK
    <3>3. QED
      BY <1>2, <2>1, <2>2, <3>1, <3>2
  <2>5. QED
    BY <2>3, <2>4
<1>8. QED
  BY <1>3, <1>4, <1>5, <1>6, <1>7 DEF BarrierNext, OwnerCarriesOn

LEMMA NextBarrier == BarrierInv /\ [BarrierNext]_barrierVars => BarrierInv'
BY CountsStep, BarrierTypeStep, StartedFollowsStep, ReadIsLowStep DEF BarrierInv

LEMMA BarrierInvariant == BarrierSpec => []BarrierInv
BY InitBarrier, NextBarrier, PTL DEF BarrierSpec
-----------------------------------------------------------------------------
(* The theorems.                                                            *)

\* Type correctness.
THEOREM BarrierTypes == BarrierSpec => []BarrierTypeOK
<1>1. BarrierInv => BarrierTypeOK
  BY DEF BarrierInv
<1>2. QED
  BY <1>1, BarrierInvariant, PTL

\* create_count and ready_count count the io_contexts that exist and those that
\* are started, at every step of every constructor, start() and destructor.
THEOREM CountersExact == BarrierSpec => []CountsExact
<1>1. BarrierInv => CountsExact
  BY DEF BarrierInv
<1>2. QED
  BY <1>1, BarrierInvariant, PTL

\* Typed and exact.
THEOREM CountersKept == BarrierSpec => []CountersSound
BY BarrierTypes, CountersExact, PTL DEF CountersSound

\* The barrier holds: an event loop that passes it, while nothing has been torn
\* down, finds every io_context started.
THEOREM BarrierHeld == BarrierSpec => BarrierHolds
<1> DEFINE Passes(c) == /\ runner[c] = "compare" /\ runner'[c] = "loop"
                        /\ TornDown = {}
<1>1. ASSUME BarrierInv, [BarrierNext]_barrierVars, NEW c \in Ctx, Passes(c), NEW d \in Existing
      PROVE  started[d]
  <2>1. cur[c] <= readyCount
    BY <1>1 DEF BarrierInv, ReadIsLow
  <2>2. Compare(c)
    <3>1. runner \in [Ctx -> RunnerState] /\ runner[c] = "compare" /\ runner'[c] = "loop"
      BY <1>1 DEF BarrierInv, BarrierTypeOK
    <3>2. CASE UNCHANGED barrierVars
      BY <3>1, <3>2 DEF barrierVars
    <3>3. ASSUME NEW e \in Ctx, Construct(e) \/ Start(e) \/ CanStop(e) \/ Destroy(e)
                                \/ Join(e) \/ Unready(e) \/ Uncreate(e)
          PROVE  FALSE
      BY <3>1, <3>3 DEF Construct, Start, CanStop, Destroy, Join, Unready, Uncreate
    <3>4. ASSUME NEW e \in Ctx, StartThread(e) \/ NotifyIfOpen(e)
          PROVE  FALSE
      BY <3>1, <3>4 DEF StartThread, NotifyIfOpen, NotifyAll
    <3>5. ASSUME NEW e \in Ctx, RunnerStep(e)
          PROVE  e = c /\ Compare(e)
      BY <3>1, <3>5 DEF RunnerStep, LoadReady, Compare, Closed, Open, Wait, Exit
    <3>6. QED
      BY <1>1, <3>2, <3>3, <3>4, <3>5 DEF BarrierNext, OwnerCarriesOn
  <2>3. ~(cur[c] < createCount)
    BY <1>1, <2>2 DEF Compare, Closed, BarrierInv, BarrierTypeOK
  <2>4. createCount <= readyCount
    BY <1>1, <2>1, <2>3 DEF BarrierInv, BarrierTypeOK
  <2>5. Ready \in SUBSET Existing /\ Existing \in SUBSET Ctx
    <3>1. ASSUME NEW e \in Ready
          PROVE  e \in Existing
      BY <1>1, <3>1 DEF Ready, Existing, Exists, CountsAsReady, BarrierInv, StartedFollows
    <3>2. QED
      BY <3>1 DEF Existing
  <2>6. Ready = Existing
    <3>1. IsFiniteSet(Existing) /\ Cardinality(Existing) \in Nat
      BY <2>5, SubsetsFinite
    <3>2. IsFiniteSet(Ready) /\ Cardinality(Ready) \in Nat
      BY <2>5, SubsetsFinite
    <3>3. Cardinality(Existing) <= Cardinality(Ready)
      BY <1>1, <2>4 DEF BarrierInv, CountsExact
    <3>4. QED
      BY <2>5, <3>1, <3>2, <3>3, FS_Subset
  <2>7. QED
    BY <1>1, <2>6 DEF Ready, CountsAsReady
<1>2. BarrierInv /\ [BarrierNext]_barrierVars
        => [\A c \in Ctx : Passes(c) => \A d \in Existing : started[d]]_barrierVars
  BY <1>1
<1>3. QED
  BY <1>2, BarrierInvariant, PTL DEF BarrierSpec, BarrierHolds
=============================================================================
