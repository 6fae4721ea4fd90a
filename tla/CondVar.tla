-------------------------------- MODULE CondVar --------------------------------
(***************************************************************************)
(* coronet::condition_variable (condition_variable.hpp, .cpp): condition   *)
(* variables of one mutex, used by coroutines of several io_contexts.      *)
(*                                                                         *)
(* The mutex is what module Mutex is shown to implement, FifoLock.  A      *)
(* waiter is linked to awaiting_, unlocks and sleeps; a notifier passes it *)
(* on to the mutex (register_awaiting), which resumes it when it owns the  *)
(* mutex again.  Each step is one critical section of notifier_mtx_ or one *)
(* other access to shared memory.  A cv_wait_awaiter lives in its          *)
(* coroutine's frame; undefined says that one was read that was gone, and  *)
(* there the model stops.                                                  *)
(***************************************************************************)
EXTENDS Naturals, Sequences, FiniteSets, SequencesExt

CONSTANTS Coro,      (* the coroutines                                       *)
          Ctx,       (* the io_contexts, one thread each                     *)
          home,      (* the io_context a coroutine runs on                   *)
          Cv,        (* the condition variables                              *)
          Notifier,  (* the coroutines that notify each of them              *)
          NoCoro     (* no coroutine                                         *)

ASSUME HomeAssumption == home \in [Coro -> Ctx] /\ NoCoro \notin Coro
ASSUME NotifierAssumption == Notifier \in [Cv -> SUBSET Coro] /\ Cv # {}

VARIABLES
    owner,       (* the mutex: who owns it                                   *)
    lockQueue,   (* the mutex: who waits for it, the next to be served first *)
    awaiting,    (* the list that awaiting_ heads, the newest waiter first   *)
    cache,       (* the list from to_resume_head_, the oldest waiter first   *)
    tail,        (* to_resume_tail_                                          *)
    at,          (* where each coroutine is in an operation                  *)
    on,          (* the condition variable the operation is of               *)
    hands,       (* the waiters a notifier has taken off the lists           *)
    ready,       (* the coroutines that are queued on their io_contexts      *)
    current,     (* the coroutine each io_context runs                       *)
    undefined    (* whether there was undefined behaviour                    *)

mutex == <<owner, lockQueue>>
lists == <<awaiting, cache, tail>>
op == <<at, on, hands>>
cvVars == <<mutex, lists, op, ready, current, undefined>>
-----------------------------------------------------------------------------
Place == {"out", "locking", "unlock", "asleep",
          "exchange", "store", "register",
          "new", "new next", "cached", "cached next"}

Mutex == INSTANCE FifoLock WITH Client <- Coro, NoOwner <- NoCoro, queue <- lockQueue

\* The coroutine runs, in a program that still has defined behaviour.
Runs(c) == current[home[c]] = c /\ ~undefined

Idle(c) == Runs(c) /\ at[c] = "out"

Goto(c, place) == at' = [at EXCEPT ![c] = place]

LeaveThread(c) == current' = [current EXCEPT ![home[c]] = NoCoro]

CvInit == /\ Mutex!LockInit
          /\ awaiting = [v \in Cv |-> <<>>]
          /\ cache = [v \in Cv |-> <<>>]
          /\ tail = [v \in Cv |-> NoCoro]
          /\ at = [c \in Coro |-> "out"]
          /\ on = [c \in Coro |-> CHOOSE v \in Cv : TRUE]
          /\ hands = [c \in Coro |-> <<>>]
          /\ ready = Coro
          /\ current = [x \in Ctx |-> NoCoro]
          /\ undefined = FALSE

\* The waiter whose next_ a notify_all is about to read.
Advancing == {Head(hands[c]) : c \in {d \in Coro : at[d] \in {"new next", "cached next"}}}

\* do_worker_part resumes a coroutine.  One that returns from wait takes its
\* cv_wait_awaiter with it.
Resume(c) == /\ ~undefined
             /\ c \in ready
             /\ current[home[c]] = NoCoro
             /\ current' = [current EXCEPT ![home[c]] = c]
             /\ ready' = ready \ {c}
             /\ Goto(c, "out")
             /\ undefined' = (c \in Advancing)
             /\ UNCHANGED <<mutex, lists, on, hands>>

\* The coroutine suspends on something else.
Yield(c) == /\ Idle(c)
            /\ ready' = ready \cup {c}
            /\ LeaveThread(c)
            /\ UNCHANGED <<mutex, lists, op, undefined>>
-----------------------------------------------------------------------------
(* The mutex.                                                               *)

\* lock(): at once, or asleep until the mutex is handed over.
Lock(c) == /\ Idle(c)
           /\ \/ /\ Mutex!Take(c)
                 /\ UNCHANGED <<at, current>>
              \/ /\ Mutex!Join(c)
                 /\ Goto(c, "locking")
                 /\ LeaveThread(c)
           /\ UNCHANGED <<lists, on, hands, ready, undefined>>

\* unlock(): the mutex is free, or its first waiter's and the waiter queued.
GiveUp == \/ /\ Mutex!Free
             /\ UNCHANGED ready
          \/ /\ Mutex!HandOff
             /\ ready' = ready \cup {Head(lockQueue)}

Unlock(c) == /\ Idle(c)
             /\ owner = c
             /\ GiveUp
             /\ UNCHANGED <<lists, op, current, undefined>>

\* register_awaiting and co_spawn, for another coroutine that waits: it owns
\* the mutex and is queued, or it waits for the mutex.
Register(w) == \/ /\ Mutex!Take(w)
                  /\ ready' = ready \cup {w}
               \/ /\ Mutex!Join(w)
                  /\ UNCHANGED ready
-----------------------------------------------------------------------------
(* wait.                                                                    *)

\* wait(mtx): the coroutine is linked first (it should own the mutex, and
\* nothing tests that)...
Wait(c, v) == /\ Idle(c)
              /\ awaiting' = [awaiting EXCEPT ![v] = <<c>> \o @]
              /\ on' = [on EXCEPT ![c] = v]
              /\ Goto(c, "unlock")
              /\ UNCHANGED <<mutex, cache, tail, hands, ready, current, undefined>>

\* ...and then unlocks and sleeps.
UnlockAhead(c) == /\ Runs(c)
                  /\ at[c] = "unlock"
                  /\ GiveUp
                  /\ Goto(c, "asleep")
                  /\ LeaveThread(c)
                  /\ UNCHANGED <<lists, on, hands, undefined>>
-----------------------------------------------------------------------------
(* notify_one.                                                              *)

\* FAULT of NotifyOne: nobody looks at the cache.
NotifyOneNew(c, v) == /\ Idle(c)
                      /\ c \in Notifier[v]
                      /\ on' = [on EXCEPT ![c] = v]
                      /\ tail' = [tail EXCEPT ![v] = NoCoro]
                      /\ Goto(c, "exchange")
                      /\ UNCHANGED <<mutex, awaiting, cache, hands, ready, current, undefined>>

\* The first waiter of the cache...
NotifyOne(c, v) == /\ Idle(c)
                   /\ c \in Notifier[v]
                   /\ on' = [on EXCEPT ![c] = v]
                   /\ \/ /\ cache[v] # <<>>
                         /\ hands' = [hands EXCEPT ![c] = <<Head(cache[v])>>]
                         /\ cache' = [cache EXCEPT ![v] = Tail(@)]
                         /\ Goto(c, "register")
                         /\ UNCHANGED tail
                      \/ /\ cache[v] = <<>>
                         /\ tail' = [tail EXCEPT ![v] = NoCoro]
                         /\ Goto(c, "exchange")
                         /\ UNCHANGED <<cache, hands>>
                   /\ UNCHANGED <<mutex, awaiting, ready, current, undefined>>

\* FAULT of Exchange: the list is not reversed.
ExchangeAsIs(c) == /\ Runs(c)
                   /\ at[c] = "exchange"
                   /\ awaiting' = [awaiting EXCEPT ![on[c]] = <<>>]
                   /\ hands' = [hands EXCEPT ![c] = awaiting[on[c]]]
                   /\ Goto(c, IF awaiting[on[c]] = <<>> THEN "out" ELSE "store")
                   /\ UNCHANGED <<mutex, cache, tail, on, ready, current, undefined>>

\* FAULT of Exchange: an empty list is not told from another.
ExchangeUnchecked(c) == /\ Runs(c)
                        /\ at[c] = "exchange"
                        /\ awaiting' = [awaiting EXCEPT ![on[c]] = <<>>]
                        /\ hands' = [hands EXCEPT ![c] = Reverse(awaiting[on[c]])]
                        /\ Goto(c, "store")
                        /\ UNCHANGED <<mutex, cache, tail, on, ready, current, undefined>>

\* ...or everyone on awaiting_, reversed...
Exchange(c) == /\ Runs(c)
               /\ at[c] = "exchange"
               /\ awaiting' = [awaiting EXCEPT ![on[c]] = <<>>]
               /\ hands' = [hands EXCEPT ![c] = Reverse(awaiting[on[c]])]
               /\ Goto(c, IF awaiting[on[c]] = <<>> THEN "out" ELSE "store")
               /\ UNCHANGED <<mutex, cache, tail, on, ready, current, undefined>>

\* FAULT of Store: the one to be notified is cached with the others.
StoreAll(c) == /\ Runs(c)
               /\ at[c] = "store"
               /\ LET v == on[c]
                  IN  /\ cache' = [cache EXCEPT ![v] = hands[c]]
                      /\ tail' = [tail EXCEPT ![v] = Last(hands[c])]
               /\ hands' = [hands EXCEPT ![c] = <<Head(@)>>]
               /\ Goto(c, "register")
               /\ UNCHANGED <<mutex, awaiting, on, ready, current, undefined>>

\* ...of whom all but the first become the cache.  If there is a cache by now,
\* its first waiter is notified and the first of the others linked to its tail:
\* the reversal has not linked that one to the rest.
Store(c) == /\ Runs(c)
            /\ at[c] = "store"
            /\ LET v == on[c]
                   linked == IF tail[v] = Last(cache[v])
                             THEN Append(cache[v], Head(hands[c])) ELSE cache[v]
               IN  /\ \/ /\ cache[v] = <<>>
                         /\ cache' = [cache EXCEPT ![v] = Tail(hands[c])]
                         /\ hands' = [hands EXCEPT ![c] = <<Head(@)>>]
                      \/ /\ cache[v] # <<>>
                         /\ cache' = [cache EXCEPT ![v] = Tail(linked)]
                         /\ hands' = [hands EXCEPT ![c] = <<Head(cache[v])>>]
                   /\ tail' = [tail EXCEPT ![v] = Last(hands[c])]
            /\ Goto(c, "register")
            /\ UNCHANGED <<mutex, awaiting, on, ready, current, undefined>>

\* FAULT of RegisterOne: the waiter is queued though it waits for the mutex.
RegisterOneSpawn(c) == /\ Runs(c)
                       /\ at[c] = "register"
                       /\ Mutex!Take(Head(hands[c])) \/ Mutex!Join(Head(hands[c]))
                       /\ ready' = ready \cup {Head(hands[c])}
                       /\ hands' = [hands EXCEPT ![c] = <<>>]
                       /\ Goto(c, "out")
                       /\ UNCHANGED <<lists, on, current, undefined>>

\* The waiter is passed on to the mutex.
RegisterOne(c) == /\ Runs(c)
                  /\ at[c] = "register"
                  /\ Register(Head(hands[c]))
                  /\ hands' = [hands EXCEPT ![c] = <<>>]
                  /\ Goto(c, "out")
                  /\ UNCHANGED <<lists, on, current, undefined>>
-----------------------------------------------------------------------------
(* notify_all.                                                              *)

\* Everyone on awaiting_...
NotifyAll(c, v) == /\ Idle(c)
                   /\ c \in Notifier[v]
                   /\ on' = [on EXCEPT ![c] = v]
                   /\ hands' = [hands EXCEPT ![c] = awaiting[v]]
                   /\ awaiting' = [awaiting EXCEPT ![v] = <<>>]
                   /\ Goto(c, "new")
                   /\ UNCHANGED <<mutex, cache, tail, ready, current, undefined>>

\* ...is passed on to the mutex, one by one...
RegisterNext(c) == /\ Runs(c)
                   /\ at[c] \in {"new", "cached"}
                   /\ hands[c] # <<>>
                   /\ Register(Head(hands[c]))
                   /\ Goto(c, IF at[c] = "new" THEN "new next" ELSE "cached next")
                   /\ UNCHANGED <<lists, on, hands, current, undefined>>

\* ...each one's next_ read afterwards...
Advance(c) == /\ Runs(c)
              /\ at[c] \in {"new next", "cached next"}
              /\ hands' = [hands EXCEPT ![c] = Tail(@)]
              /\ Goto(c, IF at[c] = "new next" THEN "new" ELSE "cached")
              /\ UNCHANGED <<mutex, lists, on, ready, current, undefined>>

\* ...and then everyone of the cache.
TakeCache(c) == /\ Runs(c)
                /\ at[c] = "new"
                /\ hands[c] = <<>>
                /\ hands' = [hands EXCEPT ![c] = cache[on[c]]]
                /\ cache' = [cache EXCEPT ![on[c]] = <<>>]
                /\ Goto(c, "cached")
                /\ UNCHANGED <<mutex, awaiting, tail, on, ready, current, undefined>>

AllNotified(c) == /\ Runs(c)
                  /\ at[c] = "cached"
                  /\ hands[c] = <<>>
                  /\ Goto(c, "out")
                  /\ UNCHANGED <<mutex, lists, on, hands, ready, current, undefined>>
-----------------------------------------------------------------------------
\* What a coroutine does once it is in an operation.
Continue(c) == \/ UnlockAhead(c) \/ Exchange(c) \/ Store(c) \/ RegisterOne(c)
               \/ RegisterNext(c) \/ Advance(c) \/ TakeCache(c) \/ AllNotified(c)

Next == \E c \in Coro :
            \/ Resume(c) \/ Yield(c) \/ (owner # c /\ Lock(c)) \/ Unlock(c) \/ Continue(c)
            \/ \E v \in Cv : (owner = c /\ Wait(c, v)) \/ NotifyOne(c, v) \/ NotifyAll(c, v)

Spec == CvInit /\ [][Next]_cvVars
-----------------------------------------------------------------------------
TypeOK == /\ owner \in Coro \cup {NoCoro}
          /\ lockQueue \in Seq(Coro)
          /\ awaiting \in [Cv -> Seq(Coro)] /\ cache \in [Cv -> Seq(Coro)]
          /\ tail \in [Cv -> Coro \cup {NoCoro}]
          /\ at \in [Coro -> Place]
          /\ on \in [Coro -> Cv]
          /\ hands \in [Coro -> Seq(Coro)]
          /\ ready \subseteq Coro
          /\ current \in [Ctx -> Coro \cup {NoCoro}]
          /\ undefined \in BOOLEAN
          /\ \A c \in Coro : at[c] \in {"store", "register", "new next", "cached next"}
                             => hands[c] # <<>>

\* The waiters that c has taken off the lists and not yet passed on.
InHands(c) == IF at[c] \in {"new next", "cached next"} THEN Tail(hands[c]) ELSE hands[c]

\* The lists that coroutines wait on, and who is on each.
ListName == ({"awaiting", "cache"} \X Cv) \cup ({"hands"} \X Coro) \cup {<<"mutex", NoCoro>>}
ListAt(l) == CASE l[1] = "awaiting" -> awaiting[l[2]]
               [] l[1] = "cache"    -> cache[l[2]]
               [] l[1] = "hands"    -> InHands(l[2])
               [] OTHER             -> lockQueue

\* The coroutine waits for a notification or, notified, for the mutex.
Waits(c) == at[c] \in {"unlock", "asleep"} /\ c \notin ready

\* It waits, in lock() or in wait().
Suspended(c) == Waits(c) \/ (at[c] = "locking" /\ c \notin ready)

\* The waiters nobody has chosen yet, the next one first.
Line(v) == LET taking == {c \in Coro : at[c] = "store" /\ on[c] = v}
           IN  (IF taking = {} THEN cache[v] ELSE hands[CHOOSE c \in taking : TRUE])
                   \o Reverse(awaiting[v])

\* Each condition variable is notified from one io_context only.
OneNotifyingThread ==
    \A v \in Cv : \A c, d \in Notifier[v] : home[c] = home[d]

\* co_await wait() and lock() return with the mutex: a coroutine that is queued
\* to do so owns it already, whoever notified or unlocked.
ReturnsWithMutex ==
    \A c \in ready : at[c] \in {"unlock", "asleep", "locking"} => owner = c

\* A coroutine that waits, for a notification or for the mutex, is on one list
\* once: awaiting_, the cache, the mutex's, or the one in a notifier's hands.
ListedOnce ==
    \A c \in Coro : Suspended(c) =>
        \E l \in ListName : \E i \in DOMAIN ListAt(l) :
            /\ ListAt(l)[i] = c
            /\ \A m \in ListName : \A j \in DOMAIN ListAt(m) :
                   ListAt(m)[j] = c => m = l /\ j = i

WaitersListed == OneNotifyingThread => ListedOnce

\* Who waits is kept, and who returns has the mutex.
WaitersSound == TypeOK /\ WaitersListed /\ ReturnsWithMutex

\* notify_one returns without a waiter only if there is none: everyone who
\* waits on the condition variable has been passed on to the mutex.
NotifyFindsWaiter ==
    [][OneNotifyingThread =>
         \A c \in Coro : at[c] = "exchange" /\ at'[c] = "out" =>
             \A w \in Coro : Waits(w) /\ on[w] = on[c] => w \in ToSet(lockQueue)]_cvVars

\* notify_one chooses whoever has waited longest, across the reversal and the
\* seam between the cache and awaiting_; notify_all may take anyone.
ServedInOrder ==
    [][OneNotifyingThread =>
         \A v \in Cv : \A i, j \in DOMAIN Line(v) : i < j =>
             /\ \A c \in Coro : at'[c] = "register" /\ on'[c] = v /\ hands[c] # hands'[c]
                              => hands'[c] # <<Line(v)[j]>>
             /\ \A k, l \in DOMAIN Line(v)' :
                    Line(v)'[k] = Line(v)[i] /\ Line(v)'[l] = Line(v)[j] => k < l]_cvVars
=============================================================================
