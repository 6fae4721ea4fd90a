---------------------------- MODULE ProactorLoop ----------------------------
(***************************************************************************)
(* What the loop of an io_context does around a proactor that completes    *)
(* operations, io_uring's or IOCP's, and one other thread that spawns      *)
(* coroutines on it and stops it.  EventLoop has the queues in detail and  *)
(* EpollIo the third proactor; here they are as much as the completions    *)
(* need: who waits for what, and when the loop may sleep.                  *)
(***************************************************************************)
EXTENDS Naturals, Sequences, FiniteSets, SequencesExt

CONSTANTS Coro,      (* the coroutines                                      *)
          Wake       (* the completion that stands for a wakeup             *)

ASSUME LoopAssumption == Wake \notin Coro \X {1, 2}

VARIABLES at,        (* where the loop is                                   *)
          ring,      (* the coroutines to resume                            *)
          cross,     (* cross_queue                                         *)
          out,       (* the coroutines that are not spawned yet             *)
          ended,     (* the coroutines that have ended                      *)
          stop,      (* will_stop_                                          *)
          waking,    (* the other thread is about to call wakeup()          *)
          awaits,    (* per coroutine: the awaiters of its expression       *)
          reap       (* requests_to_reap                                    *)

loopVars == <<at, ring, cross, out, ended, stop, waking, awaits, reap>>
queues == <<ring, cross, out, ended, stop, waking>>

\* "undefined" is after a use of a null pointer.
Places == {"drain", "work", "submit", "complete", "wait", "residue", "closing",
           "closed", "undefined"}

Suspended == Coro \ (out \cup ended \cup ToSet(ring) \cup ToSet(cross))

LoopInit ==
    /\ at = "drain" /\ ring = <<>> /\ cross = <<>>
    /\ out = Coro /\ ended = {} /\ stop = FALSE /\ waking = FALSE
    /\ awaits = [c \in Coro |-> <<>>]
    /\ reap = 0

\* FAULT of Spawn: the test for an empty queue comes after the push.
SpawnLateTest(c) ==
    /\ c \in out /\ ~waking
    /\ cross' = Append(cross, c)
    /\ out' = out \ {c}
    /\ waking' = (cross' = <<>>)
    /\ UNCHANGED <<at, ring, ended, stop, awaits, reap>>

\* co_spawn from the other thread, which calls wakeup() next if the queue was empty.
Spawn(c) ==
    /\ c \in out /\ ~waking
    /\ cross' = Append(cross, c)
    /\ out' = out \ {c}
    /\ waking' = (cross = <<>>)
    /\ UNCHANGED <<at, ring, ended, stop, awaits, reap>>

\* can_stop from the other thread, wakeup() being next.
CanStop == /\ ~stop /\ ~waking
           /\ stop' = TRUE /\ waking' = TRUE
           /\ UNCHANGED <<at, ring, cross, out, ended, awaits, reap>>

Shared == \/ \E c \in Coro : Spawn(c)
          \/ CanStop

\* The loop's condition, and drain_cross_thread; after the loop the same once
\* more by drain_residual_coroutines.
Drain == /\ at = "drain"
         /\ at' = IF stop THEN "residue" ELSE "work"
         /\ ring' = ring \o cross
         /\ cross' = <<>>
         /\ UNCHANGED <<out, ended, stop, waking, awaits, reap>>

\* do_worker_part resumes c, the oldest of the ring; what a coroutine does up to its
\* next co_await is one step, for nobody else sees any of it.
Resumes(c) == /\ at \in {"work", "residue"} /\ ring # <<>>
              /\ c = Head(ring)
              /\ ring' = Tail(ring)

WorkDone(next) == /\ at = "work" /\ ring = <<>>
                  /\ at' = next
                  /\ UNCHANGED <<queues, awaits, reap>>

\* It ends.
Return(c) == /\ Resumes(c)
             /\ ended' = ended \cup {c}
             /\ UNCHANGED <<at, cross, out, stop, waking, awaits, reap>>

\* handle_completion: the operation was the last that c waits for.
Awakens(c) == /\ ring' = Append(ring, c)
              /\ awaits' = [awaits EXCEPT ![c] = <<>>]

LoopTypeOK ==
    /\ at \in Places
    /\ ring \in Seq(Coro) /\ cross \in Seq(Coro)
    /\ out \cup ended \subseteq Coro /\ stop \in BOOLEAN /\ waking \in BOOLEAN
    /\ \A c \in Coro : Len(awaits[c]) <= 2
    /\ reap \in Nat
=============================================================================
