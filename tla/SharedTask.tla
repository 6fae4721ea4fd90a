----------------------------- MODULE SharedTask -----------------------------
(***************************************************************************)
(* shared_task (shared_task.hpp): a coroutine started by the first that    *)
(* awaits it and awaited by many, on several io_contexts.  waiters_ is one *)
(* atomic word: not started, ready, or the head of the list of waiters,    *)
(* newest first; the list is a sequence here.  Every action is one access  *)
(* to that word or to what it guards; a compare-and-swap loop is one step, *)
(* for its failed rounds change nothing.                                   *)
(***************************************************************************)
EXTENDS Threads, Naturals, FiniteSets, SequencesExt

CONSTANTS Waiter,      (* the coroutines that may co_await the shared task  *)
          home,        (* the io_context a coroutine runs on                *)
          Shared       (* the shared coroutine                              *)

VARIABLES
    pc,        (* where each coroutine is                                   *)
    phase,     (* what waiters_ says: "not started", "started", "ready"     *)
    waiters,   (* and the list it heads                                     *)
    hand,      (* the rest of the list final_awaiter walks                  *)
    cursor,    (* the waiter it has posted and whose next it reads          *)
    body,      (* where the shared coroutine is                             *)
    bodyOn,    (* the thread it is on, or will be resumed on                *)
    outcome,   (* its value or exception                                    *)
    refs,      (* ref_count_                                                *)
    held,      (* whether the code that made the task still holds it        *)
    late       (* the waiters whose next was read when they were gone       *)

sharedVars == <<phase, waiters, hand, cursor, body, bodyOn, outcome, refs, held, late>>
listVars == <<phase, waiters, hand, cursor>>
bodyVars == <<body, bodyOn, outcome, late>>
refVars == <<refs, held>>

\* The call of the coroutine function, and n copies made of the task: nothing
\* has started.
SharedInit(n) ==
    /\ phase = "not started" /\ waiters = <<>> /\ hand = <<>> /\ cursor = <<>>
    /\ body = "initial" /\ bodyOn \in Thread /\ outcome = "none"
    /\ refs = 1 + n /\ held = TRUE /\ late = {}

At(w, label) == Runs(home[w], w) /\ pc[w] = label
Goto(w, label) == pc' = [pc EXCEPT ![w] = label]
-----------------------------------------------------------------------------
\* await_ready
AwaitReady(w) ==
    /\ At(w, "query")
    /\ Goto(w, IF phase = "ready" THEN "resume" ELSE "suspend")
    /\ UNCHANGED <<stack, queue, sharedVars>>

\* try_await: whoever turns the word from not started runs the body, inline.
StartBody(w) ==
    /\ At(w, "suspend") /\ phase = "not started"
    /\ phase' = "started"
    /\ body' = "run" /\ bodyOn' = home[w]
    /\ Goto(w, "started it")
    /\ Resume(home[w], Shared)
    /\ UNCHANGED <<queue, waiters, hand, cursor, outcome, late, refVars>>

\* FAULT of Ready: the list is not looked at again before the push.
ReadyBefore == FALSE

\* waiters_ says that the task is done.
Ready == phase = "ready"

\* The rest of try_await: not suspended when the task is ready, else in front
\* of the list.
TryAwait(w) ==
    /\ At(w, "suspend") \/ At(w, "started it")
    /\ phase # "not started"
    /\ IF Ready
       THEN Goto(w, "resume") /\ UNCHANGED <<stack, waiters>>
       ELSE /\ waiters' = <<w>> \o waiters
            /\ Goto(w, "waiting")
            /\ Leave(home[w])
    /\ UNCHANGED <<queue, phase, hand, cursor, bodyVars, refVars>>

\* The io_context resumes a waiter that has been posted.
ResumeWaiter(w) ==
    /\ pc[w] = "waiting"
    /\ RunNext(home[w], w)
    /\ Goto(w, "resume")
    /\ UNCHANGED sharedVars
-----------------------------------------------------------------------------
\* The body suspends on something else, once at most here, is posted again,
\* and is resumed.
BodyParks == /\ body = "run" /\ Runs(bodyOn, Shared)
             /\ body' = "parked"
             /\ Leave(bodyOn)
             /\ UNCHANGED <<queue, pc, listVars, bodyOn, outcome, late, refVars>>

BodyWakes == /\ body = "parked"
             /\ body' = "posted"
             /\ queue' = Posted(bodyOn, Shared)
             /\ UNCHANGED <<stack, pc, listVars, bodyOn, outcome, late, refVars>>

BodyResumes == /\ body = "posted"
               /\ RunNext(bodyOn, Shared)
               /\ body' = "again"
               /\ UNCHANGED <<pc, listVars, bodyOn, outcome, late, refVars>>

\* return_value or unhandled_exception
BodyReturns(v) == /\ body \in {"run", "again"} /\ Runs(bodyOn, Shared)
                  /\ outcome' = v
                  /\ body' = "final"
                  /\ UNCHANGED <<stack, queue, pc, listVars, bodyOn, late, refVars>>

\* final_awaiter::await_suspend: the exchange takes the list.
Publish == /\ body = "final" /\ phase = "started"
           /\ phase' = "ready"
           /\ hand' = waiters
           /\ waiters' = <<>>
           /\ UNCHANGED <<stack, queue, pc, cursor, bodyVars, refVars>>

\* waiter->resume_ctx->spawn_handle(waiter->continuation)
PostWaiter == /\ hand # <<>> /\ cursor = <<>>
              /\ queue' = Posted(home[Head(hand)], Head(hand))
              /\ cursor' = <<Head(hand)>>
              /\ UNCHANGED <<stack, pc, phase, waiters, hand, bodyVars, refVars>>

\* waiter = waiter->next, from a waiter that may be gone by now: the slot is
\* taken to hold what it held.
NextWaiter == /\ cursor # <<>>
              /\ late' = IF pc[Head(cursor)] \in {"waiting", "resume"} THEN late
                         ELSE late \cup {Head(cursor)}
              /\ hand' = Tail(hand)
              /\ cursor' = <<>>
              /\ UNCHANGED <<stack, queue, pc, phase, waiters, body, bodyOn, outcome, refVars>>

\* await_suspend returns: the coroutine is done, its resumer goes on.
BodyEnds == /\ body = "final" /\ phase = "ready" /\ hand = <<>>
            /\ body' = "done"
            /\ Leave(bodyOn)
            /\ UNCHANGED <<queue, pc, listVars, bodyOn, outcome, late, refVars>>
-----------------------------------------------------------------------------
\* ~shared_task: the last reference destroys the coroutine.
Unref == refs' = refs - 1

\* The code that made the shared task lets go of it.
DropHeld == /\ held
            /\ held' = FALSE
            /\ Unref
            /\ UNCHANGED <<stack, queue, pc, listVars, bodyVars>>

BodyStep == \/ BodyParks \/ BodyWakes \/ BodyResumes
            \/ \E v \in {"value", "exception"} : BodyReturns(v)
            \/ Publish \/ PostWaiter \/ NextWaiter \/ BodyEnds
WaiterStep(w) == AwaitReady(w) \/ StartBody(w) \/ TryAwait(w) \/ ResumeWaiter(w)
SharedStep == BodyStep \/ DropHeld \/ \E w \in Waiter : WaiterStep(w)
-----------------------------------------------------------------------------
SharedTypeOK ==
    /\ stack \in [Thread -> Seq(DOMAIN pc \cup {Shared})]
    /\ queue \in [Thread -> Seq(DOMAIN pc \cup {Shared})]
    /\ phase \in {"not started", "started", "ready"}
    /\ waiters \in Seq(Waiter) /\ hand \in Seq(Waiter) /\ cursor \in Seq(Waiter)
    /\ body \in {"initial", "run", "parked", "posted", "again", "final", "done"}
    /\ bodyOn \in Thread /\ outcome \in {"none", "value", "exception"}
    /\ refs \in Nat /\ held \in BOOLEAN /\ late \subseteq Waiter

Times(s, w) == Cardinality({i \in DOMAIN s : s[i] = w})
Unposted == IF cursor = <<>> THEN hand ELSE Tail(hand)

\* A waiter that is suspended is in exactly one place from which it will be
\* resumed, whichever of try_await and final_awaiter came first, and one that
\* is not is in none; a result is read only once there is one.
WaitersKept ==
    /\ SharedTypeOK
    /\ \A w \in Waiter :
         /\ Times(waiters \o Unposted, w) + (IF pc[w] = "waiting" THEN Times(queue[home[w]], w) ELSE 0)
               = IF pc[w] = "waiting" THEN 1 ELSE 0
         /\ pc[w] = "resume" => outcome # "none"
    /\ phase # "started" => waiters = <<>>

\* The frame lives as long as anything uses it, and goes when its last user
\* does; final_awaiter reads a waiter that may be gone only when that one
\* belongs to another io_context.
FrameAlive(users) ==
    /\ refs = Cardinality(users) + (IF held THEN 1 ELSE 0)
    /\ refs = 0 => /\ body \in {"initial", "final", "done"}
                   /\ waiters \o Unposted = <<>>
    /\ \A w \in late : home[w] # bodyOn
=============================================================================
