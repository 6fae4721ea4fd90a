------------------------------- MODULE Semaphore -------------------------------
(***************************************************************************)
(* coronet::counting_semaphore (semaphore.hpp, semaphore.cpp), shared by   *)
(* the coroutines of several io_contexts, each io_context one thread.      *)
(*                                                                         *)
(* Each action is one access to shared memory that another thread can tell *)
(* from the next: a compare-and-swap loop on counter_ is one step, since   *)
(* its failed rounds change nothing, and the spinlock is taken and left    *)
(* together with the access next to it.  A coroutine may release without   *)
(* having acquired, as a producer does.                                    *)
(*                                                                         *)
(* Waiters are linked through acquire_awaiters, which live in their        *)
(* coroutines' frames and end when co_await acquire() does.  Here a list   *)
(* is a sequence of coroutines.  The code can read an awaiter that is gone *)
(* and resume a coroutine that was resumed: it has no defined behaviour    *)
(* then, undefined says which of them happened, and the model stops.       *)
(***************************************************************************)
EXTENDS Integers, Sequences, FiniteSets, SequencesExt

CONSTANTS Coro,        (* the coroutines that use the semaphore              *)
          Ctx,         (* the io_contexts                                    *)
          home,        (* the io_context a coroutine runs on                 *)
          NoCoro,      (* no coroutine                                       *)
          Desired,     (* the units there are at first                       *)
          MaxUpdate,   (* the most units one release gives                   *)
          MaxCount     (* bound: releases that would raise counter_ above it *)
                       (* are left out                                       *)

ASSUME HomeAssumption == /\ home \in [Coro -> Ctx] /\ NoCoro \notin Coro
                         /\ IsFiniteSet(Coro) /\ IsFiniteSet(Ctx) /\ Ctx # {}
ASSUME CountAssumption == Desired \in Nat /\ MaxUpdate \in Nat /\ MaxCount \in Nat

VARIABLES
    counter,     (* counter_                                                *)
    stack,       (* the list that awaiting_ heads, the newest waiter first  *)
    toResume,    (* to_resume_, the oldest waiter first                     *)
    notifier,    (* who holds notifier_mtx_                                 *)
    consumed,    (* consumed_ of each coroutine's awaiter                   *)
    pc,          (* where each coroutine is                                 *)
    current,     (* the coroutine each io_context runs                      *)
    posted,      (* whether a waiter's handle is queued on its io_context   *)
    todo,        (* release: the units it has added and not yet disposed of *)
    taken,       (* try_release: the list being reversed                    *)
    line,        (* try_release: resume_head, as the list it heads          *)
    picked,      (* release: awaken_awaiter                                 *)
    gaveUp,      (* a release found all its waiters consumed at the second  *)
                 (* look, and did not ask awaiting_ again                   *)
    undefined    (* what undefined behaviour there was                      *)

lists == <<stack, toResume>>
acquirer == <<consumed, posted>>
releaser == <<notifier, todo, taken, line, picked, gaveUp>>
vars == <<counter, lists, acquirer, releaser, pc, current, undefined>>
-----------------------------------------------------------------------------
InAcquire == {"recheck", "consume", "post self", "waiting"}
InRelease == {"try", "reverse", "subtract", "post"}
Label == {"idle", "insert"} \cup InAcquire \cup InRelease

\* The coroutine runs, in a program that still has defined behaviour.
Runs(c) == current[home[c]] = c /\ undefined = "nothing"

\* The coroutine leaves its thread to the io_context's other coroutines.
LeaveThread(c) == current' = [current EXCEPT ![home[c]] = NoCoro]

Goto(c, label) == pc' = [pc EXCEPT ![c] = label]

\* spawn_handle(w): w's handle is queued on its io_context.  A handle of a
\* coroutine that is queued already, or that no longer waits, resumes a
\* coroutine that is not suspended there.
SpawnHandle(w) == IF posted[w] \/ pc[w] \notin InAcquire
                  THEN /\ undefined' = "resumed twice"
                       /\ UNCHANGED posted
                  ELSE /\ posted' = [posted EXCEPT ![w] = TRUE]
                       /\ UNCHANGED undefined

\* What is left of a list when its first consumed awaiters are skipped.
Skip(s) == LET fresh == {i \in DOMAIN s : ~consumed[s[i]]}
           IN  IF fresh = {} THEN <<>> ELSE SubSeq(s, Min(fresh), Len(s))

\* The awaiters that are read by doing so.
ReadBySkip(s) == {s[i] : i \in {j \in DOMAIN s : \A k \in 1..(j - 1) : consumed[s[k]]}}

\* A list, or a release, still points to the coroutine's awaiter.
PointedTo(c) == \/ c \in ToSet(stack) \cup ToSet(toResume)
                \/ \E d \in Coro : c \in {picked[d]} \cup ToSet(taken[d]) \cup ToSet(line[d])

Init == /\ counter = Desired
        /\ stack = <<>> /\ toResume = <<>>
        /\ notifier = NoCoro
        /\ consumed = [c \in Coro |-> FALSE]
        /\ pc = [c \in Coro |-> "idle"]
        /\ current = [x \in Ctx |-> NoCoro]
        /\ posted = [c \in Coro |-> FALSE]
        /\ todo = [c \in Coro |-> 0]
        /\ taken = [c \in Coro |-> <<>>]
        /\ line = [c \in Coro |-> <<>>]
        /\ picked = [c \in Coro |-> NoCoro]
        /\ gaveUp = FALSE
        /\ undefined = "nothing"
-----------------------------------------------------------------------------
(* The io_context.                                                          *)

\* do_worker_part resumes a coroutine: one with something else to do, or one
\* whose wait is over (await_resume; its awaiter ends).
Resume(c) == /\ undefined = "nothing"
             /\ current[home[c]] = NoCoro
             /\ pc[c] = "idle" \/ (pc[c] = "waiting" /\ posted[c])
             /\ current' = [current EXCEPT ![home[c]] = c]
             /\ posted' = [posted EXCEPT ![c] = FALSE]
             /\ Goto(c, "idle")
             /\ UNCHANGED <<counter, lists, consumed, releaser, undefined>>

\* The coroutine suspends on something else.
Yield(c) == /\ Runs(c)
            /\ pc[c] = "idle"
            /\ LeaveThread(c)
            /\ UNCHANGED <<counter, lists, acquirer, releaser, pc, undefined>>
-----------------------------------------------------------------------------
(* acquire.                                                                 *)

TakeUnit == /\ counter > 0
            /\ counter' = counter - 1

\* try_acquire that succeeds; one that fails changes nothing.
TryAcquire(c) == /\ Runs(c)
                 /\ pc[c] = "idle"
                 /\ TakeUnit
                 /\ UNCHANGED <<lists, acquirer, releaser, pc, current, undefined>>

\* await_ready: there is a unit...
AcquireReady(c) == /\ Runs(c)
                   /\ pc[c] = "idle"
                   /\ TakeUnit
                   /\ UNCHANGED <<lists, acquirer, releaser, pc, current, undefined>>

\* FAULT of AcquireSuspend: the counter is decremented whatever it is.
AcquireSuspendTakes(c) == /\ Runs(c)
                          /\ pc[c] = "idle"
                          /\ counter <= 0
                          /\ counter' = counter - 1
                          /\ consumed' = [consumed EXCEPT ![c] = FALSE]
                          /\ Goto(c, "insert")
                          /\ UNCHANGED <<lists, posted, releaser, current, undefined>>

\* ...or there is none; await_suspend begins, with a new awaiter.  When the
\* coroutine's last one is still pointed to, the new one takes its place there.
AcquireSuspend(c) == /\ Runs(c)
                     /\ pc[c] = "idle"
                     /\ counter <= 0
                     /\ consumed' = [consumed EXCEPT ![c] = FALSE]
                     /\ Goto(c, "insert")
                     /\ undefined' = IF PointedTo(c) THEN "dead awaiter" ELSE undefined
                     /\ UNCHANGED <<counter, lists, posted, releaser, current>>

\* The awaiter becomes the head of the list...
Insert(c) == /\ Runs(c)
             /\ pc[c] = "insert"
             /\ stack' = <<c>> \o stack
             /\ Goto(c, "recheck")
             /\ UNCHANGED <<counter, toResume, acquirer, releaser, current, undefined>>

\* FAULT of Recheck: the counter is not looked at again.
RecheckNever(c) == /\ Runs(c)
                   /\ pc[c] = "recheck"
                   /\ Goto(c, "waiting")
                   /\ LeaveThread(c)
                   /\ UNCHANGED <<counter, lists, acquirer, releaser, undefined>>

\* ...and the counter is looked at again: the coroutine takes a unit that has
\* come meanwhile, or sleeps.
Recheck(c) == /\ Runs(c)
              /\ pc[c] = "recheck"
              /\ \/ /\ TakeUnit
                    /\ Goto(c, "consume")
                    /\ UNCHANGED current
                 \/ /\ counter <= 0
                    /\ Goto(c, "waiting")
                    /\ LeaveThread(c)
                    /\ UNCHANGED counter
              /\ UNCHANGED <<lists, acquirer, releaser, undefined>>

\* Whoever took a unit so marks its awaiter...
Consume(c) == /\ Runs(c)
              /\ pc[c] = "consume"
              /\ consumed' = [consumed EXCEPT ![c] = TRUE]
              /\ Goto(c, "post self")
              /\ UNCHANGED <<counter, lists, posted, releaser, current, undefined>>

\* ...and queues itself.
PostSelf(c) == /\ Runs(c)
               /\ pc[c] = "post self"
               /\ SpawnHandle(c)
               /\ Goto(c, "waiting")
               /\ LeaveThread(c)
               /\ UNCHANGED <<counter, lists, consumed, releaser>>
-----------------------------------------------------------------------------
(* release.                                                                 *)

\* release(n): the units are added before anybody is looked for.
Release(c, n) == /\ Runs(c)
                 /\ pc[c] = "idle"
                 /\ counter + n <= MaxCount
                 /\ counter' = counter + n
                 /\ todo' = [todo EXCEPT ![c] = n]
                 /\ Goto(c, "try")
                 /\ UNCHANGED <<lists, acquirer, notifier, taken, line, picked, gaveUp,
                                current, undefined>>

\* The awaiters that the coroutine's next step in try_release reads.
Reads(c) ==
    CASE pc[c] = "try" -> ReadBySkip(toResume)
      [] pc[c] = "reverse" /\ taken[c] # <<>> -> {Head(taken[c])}
      [] pc[c] = "reverse" /\ taken[c] = <<>> -> ReadBySkip(line[c])
      [] OTHER -> {}

ReadsDead(c) == \E w \in Reads(c) : pc[w] \notin InAcquire

\* try_release reads an awaiter whose coroutine has resumed and left it.
ReadDead(c) == /\ Runs(c)
               /\ pc[c] = "try" => notifier = NoCoro
               /\ ReadsDead(c)
               /\ undefined' = "dead awaiter"
               /\ UNCHANGED <<counter, lists, acquirer, releaser, pc, current>>

\* try_release, under notifier_mtx_: what is cached, or the whole list.
Fetch(c) == /\ Runs(c)
            /\ pc[c] = "try"
            /\ notifier = NoCoro
            /\ ~ReadsDead(c)
            /\ notifier' = c
            /\ line' = [line EXCEPT ![c] = Skip(toResume)]
            /\ \/ /\ Skip(toResume) # <<>>
                  /\ UNCHANGED <<stack, taken>>
               \/ /\ Skip(toResume) = <<>>
                  /\ taken' = [taken EXCEPT ![c] = stack]
                  /\ stack' = <<>>
            /\ Goto(c, "reverse")
            /\ UNCHANGED <<counter, toResume, acquirer, todo, picked, gaveUp, current, undefined>>

\* FAULT of Relink: the list keeps its order, the newest waiter first.
RelinkNot(c) == /\ Runs(c)
                /\ pc[c] = "reverse"
                /\ taken[c] # <<>>
                /\ ~ReadsDead(c)
                /\ LET node == Head(taken[c])
                   IN  line' = [line EXCEPT ![c] = IF consumed[node] THEN @ ELSE Append(@, node)]
                /\ taken' = [taken EXCEPT ![c] = Tail(@)]
                /\ UNCHANGED <<counter, lists, acquirer, notifier, todo, picked, gaveUp,
                               pc, current, undefined>>

\* It reverses the list it took, awaiter by awaiter, dropping the consumed.
Relink(c) == /\ Runs(c)
             /\ pc[c] = "reverse"
             /\ taken[c] # <<>>
             /\ ~ReadsDead(c)
             /\ LET node == Head(taken[c])
                IN  line' = [line EXCEPT ![c] = IF consumed[node] THEN @ ELSE <<node>> \o @]
             /\ taken' = [taken EXCEPT ![c] = Tail(@)]
             /\ UNCHANGED <<counter, lists, acquirer, notifier, todo, picked, gaveUp,
                            pc, current, undefined>>

\* try_release found nobody: the units stay in the counter.
KeepUnits(c) == /\ todo' = [todo EXCEPT ![c] = 0]
                /\ Goto(c, "idle")
                /\ UNCHANGED picked

\* FAULT of Pick: a list of consumed awaiters is not taken for an empty one.
PickUnchecked(c) == /\ Runs(c)
                    /\ pc[c] = "reverse"
                    /\ taken[c] = <<>>
                    /\ ~ReadsDead(c)
                    /\ notifier' = NoCoro
                    /\ line' = [line EXCEPT ![c] = <<>>]
                    /\ \/ /\ line[c] = <<>>
                          /\ KeepUnits(c)
                          /\ UNCHANGED toResume
                       \/ /\ line[c] # <<>>
                          /\ toResume' = IF Len(Skip(line[c])) < 2 THEN <<>>
                                         ELSE Tail(Skip(line[c]))
                          /\ picked' = [picked EXCEPT ![c] = IF Skip(line[c]) = <<>> THEN NoCoro
                                                             ELSE Head(Skip(line[c]))]
                          /\ Goto(c, "subtract")
                          /\ UNCHANGED todo
                    /\ UNCHANGED <<counter, stack, acquirer, taken, gaveUp, current, undefined>>

\* FAULT of Pick: the rest of the list is not cached.
PickDrop(c) == /\ Runs(c)
               /\ pc[c] = "reverse"
               /\ taken[c] = <<>>
               /\ ~ReadsDead(c)
               /\ notifier' = NoCoro
               /\ line' = [line EXCEPT ![c] = <<>>]
               /\ toResume' = <<>>
               /\ \/ /\ Skip(line[c]) = <<>>
                     /\ KeepUnits(c)
                  \/ /\ Skip(line[c]) # <<>>
                     /\ picked' = [picked EXCEPT ![c] = Head(Skip(line[c]))]
                     /\ Goto(c, "subtract")
                     /\ UNCHANGED todo
               /\ UNCHANGED <<counter, stack, acquirer, taken, gaveUp, current, undefined>>

\* It skips who was consumed meanwhile, and takes the first of the others.
Pick(c) == /\ Runs(c)
           /\ pc[c] = "reverse"
           /\ taken[c] = <<>>
           /\ ~ReadsDead(c)
           /\ notifier' = NoCoro
           /\ line' = [line EXCEPT ![c] = <<>>]
           /\ \/ /\ line[c] = <<>>
                 /\ KeepUnits(c)
                 /\ UNCHANGED <<toResume, gaveUp>>
              \/ /\ line[c] # <<>> /\ Skip(line[c]) = <<>>
                 /\ toResume' = <<>>
                 /\ KeepUnits(c)
                 /\ gaveUp' = TRUE
              \/ /\ Skip(line[c]) # <<>>
                 /\ toResume' = Tail(Skip(line[c]))
                 /\ picked' = [picked EXCEPT ![c] = Head(Skip(line[c]))]
                 /\ Goto(c, "subtract")
                 /\ UNCHANGED <<todo, gaveUp>>
           /\ UNCHANGED <<counter, stack, acquirer, taken, current, undefined>>

\* The unit is the waiter's...
Subtract(c) == /\ Runs(c)
               /\ pc[c] = "subtract"
               /\ counter' = counter - 1
               /\ todo' = [todo EXCEPT ![c] = @ - 1]
               /\ Goto(c, "post")
               /\ UNCHANGED <<lists, acquirer, notifier, taken, line, picked, gaveUp,
                              current, undefined>>

\* ...which is queued; and so on while there are units to give.
Post(c) == /\ Runs(c)
           /\ pc[c] = "post"
           /\ SpawnHandle(picked[c])
           /\ picked' = [picked EXCEPT ![c] = NoCoro]
           /\ Goto(c, IF todo[c] > 0 THEN "try" ELSE "idle")
           /\ UNCHANGED <<counter, lists, consumed, notifier, todo, taken, line, gaveUp, current>>
-----------------------------------------------------------------------------
Acquire(c) == \/ TryAcquire(c) \/ AcquireReady(c) \/ AcquireSuspend(c)
              \/ Insert(c) \/ Recheck(c) \/ Consume(c) \/ PostSelf(c)

TryRelease(c) == Fetch(c) \/ Relink(c) \/ Pick(c) \/ ReadDead(c)

Next == \E c \in Coro : \/ Resume(c) \/ Yield(c)
                        \/ Acquire(c)
                        \/ \E n \in 1..MaxUpdate : Release(c, n)
                        \/ TryRelease(c) \/ Subtract(c) \/ Post(c)

Spec == Init /\ [][Next]_vars
-----------------------------------------------------------------------------
TypeOK == /\ counter \in Int
          /\ stack \in Seq(Coro) /\ toResume \in Seq(Coro)
          /\ notifier \in Coro \cup {NoCoro}
          /\ consumed \in [Coro -> BOOLEAN]
          /\ pc \in [Coro -> Label]
          /\ current \in [Ctx -> Coro \cup {NoCoro}]
          /\ posted \in [Coro -> BOOLEAN]
          /\ todo \in [Coro -> 0..MaxUpdate]
          /\ taken \in [Coro -> Seq(Coro)] /\ line \in [Coro -> Seq(Coro)]
          /\ picked \in [Coro -> Coro \cup {NoCoro}]
          /\ \A c \in Coro : picked[c] \in Coro <=> pc[c] \in {"subtract", "post"}
          /\ gaveUp \in BOOLEAN
          /\ undefined \in {"nothing", "dead awaiter", "resumed twice"}

\* The units that releases have added and not yet given or left.
Units == {u \in Coro \X (1..MaxUpdate) : u[2] <= todo[u[1]]}
InFlight == Cardinality(Units)

\* Everyone on a list, the next to be served first: the list that try_release
\* works on stands for to_resume_, which it has yet to update.
WaitQueue ==
    (IF notifier = NoCoro THEN toResume ELSE Reverse(taken[notifier]) \o line[notifier])
        \o Reverse(stack)

\* The waiters that a release has chosen and not yet queued.
Chosen == {picked[c] : c \in Coro} \ {NoCoro}

\* A coroutine that waits, and has not taken a unit for itself, is on one list
\* once, or in the hands of one release, until its handle is queued: no
\* reversal, no list that is cached, and no consumed awaiter that is skipped
\* drops a waiter or keeps one that has been served.
WaitersListed ==
    /\ TypeOK
    /\ \A c \in Coro :
        pc[c] \in {"recheck", "waiting"} /\ ~consumed[c] /\ ~posted[c] /\ undefined = "nothing"
        => Cardinality({i \in DOMAIN WaitQueue : WaitQueue[i] = c})
               = IF c \in Chosen THEN 0 ELSE 1

\* The unit that a release gives can be taken a second time while it is in
\* flight, but only by other io_contexts: the counter falls below the units in
\* flight by what the others can have in flight, and never with one io_context.
OvergrantBounded == counter - InFlight >= MaxUpdate * (1 - Cardinality(Ctx))

\* When nobody is inside acquire or release, nobody sleeps for a unit that is
\* there: a release that finds no waiter is seen by the waiter's second look at
\* the counter.  The exception is what gaveUp records.
NoLostWakeup ==
    /\ \A c \in Coro : pc[c] \in {"idle", "waiting"}
    /\ counter > 0 /\ ~gaveUp /\ undefined = "nothing"
    => \A c \in Coro : pc[c] = "waiting" => posted[c]

\* Units and waiters: neither given twice beyond that, nor missed.
UnitsMeetWaiters == OvergrantBounded /\ NoLostWakeup

\* Waiters are served in the order in which they were linked to the list,
\* across reversals and the seam between cache and list, except those that
\* have served themselves.
ServedInOrder ==
    [][\A i, j \in DOMAIN WaitQueue : i < j =>
         LET before == WaitQueue[i]
             after == WaitQueue[j]
         IN  /\ after \in Chosen' \ Chosen => consumed[before]
             /\ \A k, l \in DOMAIN WaitQueue' :
                    WaitQueue'[k] = before /\ WaitQueue'[l] = after => k < l]_vars
-----------------------------------------------------------------------------
(* What a comment promises and the code does not do.                        *)

\* semaphore.cpp: the second look at the counter prevents lost wakeups.
NoneForgotten ==
    /\ \A c \in Coro : pc[c] \in {"idle", "waiting"}
    /\ counter > 0 /\ undefined = "nothing"
    => \A c \in Coro : pc[c] = "waiting" => posted[c]
=============================================================================
