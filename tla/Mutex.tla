-------------------------------- MODULE Mutex --------------------------------
(***************************************************************************)
(* coronet::mutex (mutex.hpp, mutex.cpp): a coroutine lock shared by the   *)
(* coroutines of several io_contexts, each io_context one thread.          *)
(*                                                                         *)
(* The code keeps the lock's state and the head of the list of waiters in  *)
(* one atomic word, awaiting_: not_locked, locked_no_awaiting (null), or   *)
(* the newest lock_awaiter, linked by next_ to the older ones.  Here that  *)
(* word is the pair locked, stack, and AwaitingWord is what a load of it   *)
(* returns.  A compare-and-swap compares heads only, as the code does: a   *)
(* waiter whose expected head left the list and came back is pushed on the *)
(* list as it is now, because its next_ names that head and no more.       *)
(*                                                                         *)
(* Each action is one access to shared memory, so the steps of coroutines  *)
(* on different io_contexts interleave; coroutines of one io_context       *)
(* interleave only where one suspends.  A waiter's lock_awaiter lives in   *)
(* its coroutine's frame: it may be read only while the waiter sleeps.     *)
(***************************************************************************)
EXTENDS Naturals, Sequences

CONSTANTS Coro,               (* the coroutines that use the mutex           *)
          Ctx,                (* the io_contexts, one event loop thread each *)
          home,               (* the io_context a coroutine runs on          *)
          NotLocked,          (* mutex::not_locked                           *)
          LockedNoAwaiting    (* mutex::locked_no_awaiting                   *)

ASSUME HomeAssumption == home \in [Coro -> Ctx]
ASSUME WordAssumption == /\ NotLocked \notin Coro
                         /\ LockedNoAwaiting \notin Coro
                         /\ NotLocked # LockedNoAwaiting

VARIABLES
    locked,      (* awaiting_ # not_locked                                  *)
    stack,       (* the list that awaiting_ heads, the newest waiter first  *)
    toResume,    (* to_resume_: the reversed list, the oldest waiter first  *)
    pc,          (* where each coroutine is                                 *)
    sched,       (* whether it is queued on its io_context, running, asleep *)
    expected,    (* register_awaiting's old_state                           *)
    resumeHead   (* unlock's resume_head, as the list it heads              *)

vars == <<locked, stack, toResume, pc, sched, expected, resumeHead>>
-----------------------------------------------------------------------------
AwaitingWord == IF ~locked THEN NotLocked
                ELSE IF stack = <<>> THEN LockedNoAwaiting ELSE Head(stack)

Word == Coro \cup {NotLocked, LockedNoAwaiting}

\* The list unlock builds in place: the oldest waiter comes first.
Reversed(s) == [i \in 1..Len(s) |-> s[Len(s) + 1 - i]]

InUnlock == {"cas", "exchange", "pop", "spawn"}
Label == {"idle", "register", "waiting", "critical", "leaving"} \cup InUnlock

Running(c) == sched[c] = "running"

\* The coroutine leaves the thread but stays in its io_context's queues
\* (it yields, or awaits something that is not the mutex and is done).
StepOffThread(c) == sched' = [sched EXCEPT ![c] = "ready"]

Init == /\ locked = FALSE
        /\ stack = <<>>
        /\ toResume = <<>>
        /\ pc = [c \in Coro |-> "idle"]
        /\ sched = [c \in Coro |-> "ready"]
        /\ expected = [c \in Coro |-> NotLocked]
        /\ resumeHead = [c \in Coro |-> <<>>]
-----------------------------------------------------------------------------
\* do_worker_part: the event loop resumes one coroutine, and runs it alone.
Resume(c) == /\ sched[c] = "ready"
             /\ \A d \in Coro : home[d] = home[c] => ~Running(d)
             /\ sched' = [sched EXCEPT ![c] = "running"]
             /\ UNCHANGED <<locked, stack, toResume, pc, expected, resumeHead>>

\* A coroutine suspends on something else, outside or, once, inside the
\* critical section: a coroutine lock may be held across a suspension.
Yield(c) == /\ Running(c)
            /\ pc[c] \in {"idle", "critical"}
            /\ pc' = [pc EXCEPT ![c] = IF @ = "critical" THEN "leaving" ELSE @]
            /\ StepOffThread(c)
            /\ UNCHANGED <<locked, stack, toResume, expected, resumeHead>>

\* try_lock: one compare-and-swap; on failure the coroutine goes elsewhere.
TryLock(c) == /\ Running(c)
              /\ pc[c] = "idle"
              /\ \/ /\ AwaitingWord = NotLocked
                    /\ locked' = TRUE
                    /\ pc' = [pc EXCEPT ![c] = "critical"]
                    /\ UNCHANGED sched
                 \/ /\ AwaitingWord # NotLocked
                    /\ StepOffThread(c)
                    /\ UNCHANGED <<locked, pc>>
              /\ UNCHANGED <<stack, toResume, expected, resumeHead>>

\* co_await lock(): await_suspend enters register_awaiting, which loads
\* the word.
Lock(c) == /\ Running(c)
           /\ pc[c] = "idle"
           /\ pc' = [pc EXCEPT ![c] = "register"]
           /\ expected' = [expected EXCEPT ![c] = AwaitingWord]
           /\ UNCHANGED <<locked, stack, toResume, sched, resumeHead>>

\* FAULT of RegisterAcquire: the lock is seen free and entered, not marked held.
RegisterAcquireNoMark(c) == /\ Running(c)
                            /\ pc[c] = "register"
                            /\ expected[c] = NotLocked
                            /\ AwaitingWord = expected[c]
                            /\ pc' = [pc EXCEPT ![c] = "critical"]
                            /\ UNCHANGED <<locked, stack, toResume, sched, expected, resumeHead>>

\* The lock was seen free and still is: acquired without suspending.
RegisterAcquire(c) == /\ Running(c)
                      /\ pc[c] = "register"
                      /\ expected[c] = NotLocked
                      /\ AwaitingWord = expected[c]
                      /\ locked' = TRUE
                      /\ pc' = [pc EXCEPT ![c] = "critical"]
                      /\ UNCHANGED <<stack, toResume, sched, expected, resumeHead>>

\* FAULT of RegisterEnqueue: a store where the code compares and swaps.
RegisterEnqueueBlind(c) == /\ Running(c)
                           /\ pc[c] = "register"
                           /\ expected[c] # NotLocked
                           /\ stack' = <<c>> \o stack
                           /\ pc' = [pc EXCEPT ![c] = "waiting"]
                           /\ sched' = [sched EXCEPT ![c] = "suspended"]
                           /\ UNCHANGED <<locked, toResume, expected, resumeHead>>

\* FAULT of RegisterEnqueue: locked_no_awaiting taken for a lock_awaiter.
RegisterEnqueueSentinel(c) == /\ Running(c)
                              /\ pc[c] = "register"
                              /\ expected[c] # NotLocked
                              /\ AwaitingWord = expected[c]
                              /\ stack' = <<c>> \o (IF stack = <<>> THEN <<AwaitingWord>> ELSE stack)
                              /\ pc' = [pc EXCEPT ![c] = "waiting"]
                              /\ sched' = [sched EXCEPT ![c] = "suspended"]
                              /\ UNCHANGED <<locked, toResume, expected, resumeHead>>

\* The lock was seen held, and the list's head has not moved: the awaiter
\* becomes the head and the coroutine sleeps.
RegisterEnqueue(c) == /\ Running(c)
                      /\ pc[c] = "register"
                      /\ expected[c] # NotLocked
                      /\ AwaitingWord = expected[c]
                      /\ stack' = <<c>> \o stack
                      /\ pc' = [pc EXCEPT ![c] = "waiting"]
                      /\ sched' = [sched EXCEPT ![c] = "suspended"]
                      /\ UNCHANGED <<locked, toResume, expected, resumeHead>>

\* The word changed since it was read: the failed compare-and-swap reloads it.
RegisterRetry(c) == /\ Running(c)
                    /\ pc[c] = "register"
                    /\ AwaitingWord # expected[c]
                    /\ expected' = [expected EXCEPT ![c] = AwaitingWord]
                    /\ UNCHANGED <<locked, stack, toResume, pc, sched, resumeHead>>

\* unlock: what the previous unlock left over is served first.
Unlock(c) == /\ Running(c)
             /\ pc[c] \in {"critical", "leaving"}
             /\ resumeHead' = [resumeHead EXCEPT ![c] = toResume]
             /\ pc' = [pc EXCEPT ![c] = IF toResume = <<>> THEN "cas" ELSE "pop"]
             /\ UNCHANGED <<locked, stack, toResume, sched, expected>>

\* FAULT of UnlockRelease: not_locked is stored over whatever awaiting_ holds.
UnlockReleaseBlind(c) == /\ Running(c)
                         /\ pc[c] = "cas"
                         /\ locked' = FALSE
                         /\ stack' = <<>>
                         /\ pc' = [pc EXCEPT ![c] = "idle"]
                         /\ StepOffThread(c)
                         /\ UNCHANGED <<toResume, expected, resumeHead>>

\* unlock's compare-and-swap to not_locked: it succeeds if nobody waits.
UnlockRelease(c) == /\ Running(c)
                    /\ pc[c] = "cas"
                    /\ \/ /\ AwaitingWord = LockedNoAwaiting
                          /\ locked' = FALSE
                          /\ pc' = [pc EXCEPT ![c] = "idle"]
                          /\ StepOffThread(c)
                       \/ /\ AwaitingWord # LockedNoAwaiting
                          /\ pc' = [pc EXCEPT ![c] = "exchange"]
                          /\ UNCHANGED <<locked, sched>>
                    /\ UNCHANGED <<stack, toResume, expected, resumeHead>>

\* FAULT of UnlockExchange: the list is taken as it is, the newest waiter first.
UnlockExchangeLifo(c) == /\ Running(c)
                         /\ pc[c] = "exchange"
                         /\ locked' = TRUE
                         /\ stack' = <<>>
                         /\ resumeHead' = [resumeHead EXCEPT ![c] = stack]
                         /\ pc' = [pc EXCEPT ![c] = "pop"]
                         /\ UNCHANGED <<toResume, sched, expected>>

\* FAULT of UnlockExchange: the list is exchanged for not_locked.
UnlockExchangeFree(c) == /\ Running(c)
                         /\ pc[c] = "exchange"
                         /\ locked' = FALSE
                         /\ stack' = <<>>
                         /\ resumeHead' = [resumeHead EXCEPT ![c] = Reversed(stack)]
                         /\ pc' = [pc EXCEPT ![c] = "pop"]
                         /\ UNCHANGED <<toResume, sched, expected>>

\* unlock takes the whole list, leaving the lock held, and reverses it.
UnlockExchange(c) == /\ Running(c)
                     /\ pc[c] = "exchange"
                     /\ locked' = TRUE
                     /\ stack' = <<>>
                     /\ resumeHead' = [resumeHead EXCEPT ![c] = Reversed(stack)]
                     /\ pc' = [pc EXCEPT ![c] = "pop"]
                     /\ UNCHANGED <<toResume, sched, expected>>

\* FAULT of UnlockPop: the rest of the list is dropped.
UnlockPopDrop(c) == /\ Running(c)
                    /\ pc[c] = "pop"
                    /\ toResume' = <<>>
                    /\ pc' = [pc EXCEPT ![c] = "spawn"]
                    /\ UNCHANGED <<locked, stack, sched, expected, resumeHead>>

\* FAULT of UnlockPop: the waiter being resumed stays on the list.
UnlockPopKeep(c) == /\ Running(c)
                    /\ pc[c] = "pop"
                    /\ toResume' = resumeHead[c]
                    /\ pc' = [pc EXCEPT ![c] = "spawn"]
                    /\ UNCHANGED <<locked, stack, sched, expected, resumeHead>>

\* unlock keeps the rest of the list for the unlocks to come ...
UnlockPop(c) == /\ Running(c)
                /\ pc[c] = "pop"
                /\ toResume' = Tail(resumeHead[c])
                /\ pc' = [pc EXCEPT ![c] = "spawn"]
                /\ UNCHANGED <<locked, stack, sched, expected, resumeHead>>

\* ... and queues the first waiter on its own io_context, the lock now its.
UnlockSpawn(c) == /\ Running(c)
                  /\ pc[c] = "spawn"
                  /\ LET w == Head(resumeHead[c])
                     IN  /\ pc' = [pc EXCEPT ![c] = "idle", ![w] = "critical"]
                         /\ sched' = [sched EXCEPT ![c] = "ready", ![w] = "ready"]
                  /\ resumeHead' = [resumeHead EXCEPT ![c] = <<>>]
                  /\ UNCHANGED <<locked, stack, toResume, expected>>

Step(c) == \/ Yield(c) \/ TryLock(c) \/ Lock(c)
           \/ RegisterAcquire(c) \/ RegisterEnqueue(c) \/ RegisterRetry(c)
           \/ Unlock(c) \/ UnlockRelease(c) \/ UnlockExchange(c)
           \/ UnlockPop(c) \/ UnlockSpawn(c)

Next == \E c \in Coro : Resume(c) \/ Step(c)

Spec == Init /\ [][Next]_vars

\* A thread runs on (WF), and an event loop's queue is first in, first out:
\* a coroutine that is queued again and again is resumed (SF).
Fairness == \A c \in Coro : WF_vars(Step(c)) /\ SF_vars(Resume(c))

FairSpec == Spec /\ Fairness
-----------------------------------------------------------------------------
TypeOK == /\ locked \in BOOLEAN
          /\ stack \in Seq(Coro)
          /\ toResume \in Seq(Coro)
          /\ pc \in [Coro -> Label]
          /\ sched \in [Coro -> {"ready", "running", "suspended"}]
          /\ expected \in [Coro -> Word]
          /\ resumeHead \in [Coro -> Seq(Coro)]

\* The coroutine owns the lock: it is in the critical section or in unlock.
Holds(c) == pc[c] \in {"critical", "leaving"} \cup InUnlock

Elems(s) == {s[i] : i \in 1..Len(s)}
NoRepeat(s) == \A i, j \in 1..Len(s) : s[i] = s[j] => i = j

\* The waiters already taken off awaiting_ and not yet resumed; between the
\* exchange and the pop they are known to the unlocking coroutine alone.
Fetched == IF \E c \in Coro : pc[c] = "pop"
           THEN resumeHead[CHOOSE c \in Coro : pc[c] = "pop"] ELSE toResume

WaitQueue == Fetched \o Reversed(stack)

\* The waiters that unlock has chosen and is about to queue.
Chosen == {Head(resumeHead[c]) : c \in {d \in Coro : pc[d] = "spawn"}}

\* At most one coroutine, of all the io_contexts, is between acquiring the
\* lock (at once, by try_lock, or by being resumed by unlock) and the end of
\* its unlock; to_resume_, which is not atomic, relies on it.
MutualExclusion == \A c, d \in Coro : Holds(c) /\ Holds(d) => c = d

\* No waiter is lost or resumed twice: the coroutines that sleep in lock()
\* are exactly those on awaiting_, on the reversed list and in unlock's
\* hands, each of them once, whatever races with unlock's CAS and exchange.
WaitersListed ==
    /\ {c \in Coro : pc[c] = "waiting"} = Elems(WaitQueue) \cup Chosen
    /\ Elems(WaitQueue) \cap Chosen = {}
    /\ NoRepeat(WaitQueue)

\* A coroutine never sleeps on a mutex that nobody will unlock: a lock that
\* is seen free, or found free after a failed compare-and-swap, has no queue.
SleeperHasHolder == (\E c \in Coro : pc[c] = "waiting") => \E d \in Coro : Holds(d)

\* The assertions of unlock: the mutex is locked on entry (mutex.cpp:50), the
\* exchange returns a list (mutex.cpp:63), there is a waiter to resume
\* (mutex.cpp:75); and of ~mutex, when nobody uses it (mutex.cpp:12-13).
UnlockAsserts ==
    /\ \A c \in Coro :
         /\ pc[c] \in {"critical", "leaving"} => AwaitingWord # NotLocked
         /\ pc[c] = "exchange" => AwaitingWord \in Coro
         /\ pc[c] \in {"pop", "spawn"} => resumeHead[c] # <<>>
    /\ (\A c \in Coro : pc[c] = "idle") => AwaitingWord = NotLocked /\ toResume = <<>>

\* unlock reads next_, resume_ctx_ and awaken_coro_ of lock_awaiters that live
\* in other coroutines' frames: each of them must still be asleep in lock().
AwaitersAlive ==
    \A c \in Coro : pc[c] \in {"pop", "spawn"} =>
        \A i \in 1..Len(resumeHead[c]) :
            i = 1 \/ pc[c] = "pop" => sched[resumeHead[c][i]] = "suspended"

\* The lists, which are walked by one thread while others push: they hold who
\* sleeps in lock(), once each, and nobody whose frame may be gone.
ListSound == TypeOK /\ WaitersListed /\ AwaitersAlive

\* The word, which says what the coroutines rely on: one holder at a time, no
\* sleeper without one, and what unlock asserts of it.
HolderSound == MutualExclusion /\ SleeperHasHolder /\ UnlockAsserts

\* Who owns the lock, as a client sees it: from the moment unlock has chosen
\* a waiter the lock is the waiter's.
NoOwner == NotLocked
Owner == IF \E c \in Coro : pc[c] = "spawn"
         THEN Head(resumeHead[CHOOSE c \in Coro : pc[c] = "spawn"])
         ELSE IF \E c \in Coro : Holds(c) THEN CHOOSE c \in Coro : Holds(c) ELSE NoOwner

Abstract == INSTANCE FifoLock WITH Client <- Coro, owner <- Owner, queue <- WaitQueue

\* The word, the two lists and the handoff together are a first-in first-out
\* lock: served in the order of arrival, never taken past a waiter.
ImplementsFifoLock == Abstract!LockSpec

\* A coroutine whose lock() suspended is eventually given the lock, whatever
\* the others do, if every coroutine leaves its critical section.
WaiterServed == \A c \in Coro : pc[c] = "waiting" ~> pc[c] = "critical"
=============================================================================
