------------------------------ MODULE EventLoop ------------------------------
(***************************************************************************)
(* One io_context with the epoll backend: its event loop thread            *)
(* (io_context::run), the queues of coroutine handles the loop serves      *)
(* (worker_meta), the eventfd that wakes it (epoll_proactor), and the      *)
(* other threads that post handles to it or stop it.                       *)
(*                                                                         *)
(* A handle travels: another thread puts it into cross_queue, the loop     *)
(* moves cross_queue into a batch, the batch into the ring, and resumes    *)
(* what the ring holds.  A coroutine that yields goes to deferred_tasks,   *)
(* one whose I/O completed to the ring.                                    *)
(*                                                                         *)
(* The steps of the loop thread are as fine as other threads can see them: *)
(* a critical section of cross_mtx, a system call on the eventfd or the    *)
(* epoll instance, an access to will_stop_.                                *)
(***************************************************************************)
EXTENDS Naturals, Sequences, FiniteSets

CONSTANTS Coro,      (* the coroutines that run on this io_context         *)
          Thread,    (* the other threads: io_contexts, the main thread    *)
          RingCap,   (* config::swap_capacity                              *)
          MaxEvents, (* max_events_: what one epoll_wait returns           *)
          MaxPosts,  (* bound: posts of coroutines to their own loop that  *)
                     (* one pass of do_worker_part serves                  *)
          NoCoro,    (* no coroutine is being resumed                      *)
          Wake       (* the eventfd's event among the events epoll returns *)

ASSUME CapAssumption == {RingCap, MaxEvents} \subseteq Nat \ {0} /\ MaxPosts \in Nat
ASSUME NameAssumption == NoCoro \notin Coro /\ Wake \notin Coro

VARIABLES
    ring,        (* reap_swap between the cursors of reap_cur              *)
    cross,       (* cross_queue                                            *)
    batch,       (* drain_cross_thread's batch                             *)
    deferred,    (* deferred_tasks                                         *)
    overflowed,  (* forward_task has logged "reap_swap overflow"           *)
    state,       (* where each coroutine is                                *)
    current,     (* the coroutine the loop is resuming                     *)
    at,          (* where the loop is                                      *)
    pass,        (* 0: the loop; 1: the first pass of                      *)
                 (* drain_residual_coroutines; 2..4: its three rounds      *)
    posts,       (* posts to the own loop made in this pass                *)
    willStop,    (* will_stop_                                             *)
    readable,    (* the eventfd's counter is not zero                      *)
    edge,        (* the eventfd is on the epoll instance's ready list      *)
    late,        (* the events that the last epoll_wait had no room for:   *)
                 (* they are first on the ready list                       *)
    fetched,     (* ready_events_ from ready_pos_ on                       *)
    residue,     (* history: queued when the loop ended and not resumed yet *)
    thread       (* what each other thread has still to do                 *)

queues == <<ring, cross, batch, deferred, overflowed>>
loop == <<current, at, pass, posts>>
kernel == <<readable, edge, late>>
vars == <<queues, state, loop, willStop, kernel, fetched, residue, thread>>
-----------------------------------------------------------------------------
\* "held": its handle is with whoever will post it; "io": the kernel has its
\* operation; "ready": the kernel has its event; "fetched": the loop has it.
CoroState == {"held", "queued", "running", "io", "ready", "fetched", "done"}
LoopState == {"check", "drain cross", "forward", "drain deferred", "work",
              "poll", "arm", "again", "exited"}

Queued == {c \in Coro : state[c] = "queued"}
KernelReady == {c \in Coro : state[c] = "ready"}

\* A write to the eventfd; after deinit there is none to write to.
WriteEventfd == IF at = "exited" THEN UNCHANGED kernel
                ELSE readable' = TRUE /\ edge' = TRUE /\ UNCHANGED late

\* FAULT of Forward: the cursor's push is not asked whether the ring is full.
ForwardUnchecked(c) == /\ ring' = Append(ring, c)
                       /\ UNCHANGED <<cross, overflowed>>

\* FAULT of Forward: a handle that the ring has no room for is dropped.
ForwardDrop(c) == /\ ring' = IF Len(ring) < RingCap THEN Append(ring, c) ELSE ring
                  /\ UNCHANGED <<cross, overflowed>>

\* forward_task: into the ring, or into cross_queue when the ring is full.
Forward(c) == IF Len(ring) < RingCap
              THEN /\ ring' = Append(ring, c)
                   /\ UNCHANGED <<cross, overflowed>>
              ELSE /\ cross' = Append(cross, c)
                   /\ overflowed' = TRUE
                   /\ UNCHANGED ring

Init == /\ ring = <<>> /\ cross = <<>> /\ batch = <<>> /\ deferred = <<>>
        /\ overflowed = FALSE
        /\ state = [c \in Coro |-> "held"]
        /\ current = NoCoro
        /\ at = "check" /\ pass = 0 /\ posts = 0
        /\ willStop = FALSE
        /\ readable = FALSE /\ edge = FALSE /\ late = {}
        /\ fetched = {}
        /\ residue = {}
        /\ thread = [t \in Thread |-> "idle"]
-----------------------------------------------------------------------------
(* The other threads.                                                       *)

\* FAULT of Post: the test for an empty queue comes after the push.
PostLateTest(t, c) == /\ thread[t] = "idle"
                      /\ state[c] = "held"
                      /\ cross' = Append(cross, c)
                      /\ state' = [state EXCEPT ![c] = "queued"]
                      /\ thread' = [thread EXCEPT ![t] = IF cross' = <<>> THEN "wakeup" ELSE @]
                      /\ UNCHANGED <<ring, batch, deferred, overflowed, loop, willStop,
                                     kernel, fetched, residue>>

\* co_spawn_cross, under cross_mtx: only the thread that finds cross_queue
\* empty will wake the loop, and it does so after it has released the lock.
Post(t, c) == /\ thread[t] = "idle"
              /\ state[c] = "held"
              /\ cross' = Append(cross, c)
              /\ state' = [state EXCEPT ![c] = "queued"]
              /\ thread' = [thread EXCEPT ![t] = IF cross = <<>> THEN "wakeup" ELSE @]
              /\ UNCHANGED <<ring, batch, deferred, overflowed, loop, willStop,
                             kernel, fetched, residue>>

\* FAULT of Stop: the flag is set and nobody woken.
StopQuiet(t) == /\ thread[t] = "idle"
                /\ ~willStop
                /\ willStop' = TRUE
                /\ UNCHANGED <<queues, state, loop, kernel, fetched, residue, thread>>

\* can_stop from another thread: the flag first, then the wakeup.
Stop(t) == /\ thread[t] = "idle"
           /\ ~willStop
           /\ willStop' = TRUE
           /\ thread' = [thread EXCEPT ![t] = "wakeup"]
           /\ UNCHANGED <<queues, state, loop, kernel, fetched, residue>>

\* epoll_proactor::wakeup.
Wakeup(t) == /\ thread[t] = "wakeup"
             /\ WriteEventfd
             /\ thread' = [thread EXCEPT ![t] = "idle"]
             /\ UNCHANGED <<queues, state, loop, willStop, fetched, residue>>

\* The kernel finds the descriptor ready that a coroutine waits for.
IoReady(c) == /\ state[c] = "io"
              /\ at # "exited"
              /\ state' = [state EXCEPT ![c] = "ready"]
              /\ UNCHANGED <<queues, loop, willStop, kernel, fetched, residue, thread>>
-----------------------------------------------------------------------------
(* The loop thread: the phases of run().                                    *)

\* while (!will_stop_)
Check == /\ at = "check"
         /\ at' = "drain cross"
         /\ pass' = IF willStop THEN 1 ELSE 0
         /\ residue' = IF willStop THEN Queued ELSE {}
         /\ UNCHANGED <<queues, state, current, posts, willStop, kernel, fetched, thread>>

\* drain_cross_thread, under cross_mtx.
DrainCross == /\ at = "drain cross"
              /\ batch' = cross
              /\ cross' = <<>>
              /\ at' = "forward"
              /\ UNCHANGED <<ring, deferred, overflowed, state, current, pass, posts,
                             willStop, kernel, fetched, residue, thread>>

\* FAULT of ForwardBatch: the newest handle of the batch first.
ForwardBatchLifo == /\ at = "forward"
                    /\ batch # <<>>
                    /\ Forward(batch[Len(batch)])
                    /\ batch' = SubSeq(batch, 1, Len(batch) - 1)
                    /\ UNCHANGED <<deferred, state, loop, willStop, kernel, fetched,
                                   residue, thread>>

\* drain_cross_thread, its batch one handle at a time.
ForwardBatch == /\ at = "forward"
                /\ batch # <<>>
                /\ Forward(Head(batch))
                /\ batch' = Tail(batch)
                /\ UNCHANGED <<deferred, state, loop, willStop, kernel, fetched, residue, thread>>

BatchDone == /\ at = "forward"
             /\ batch = <<>>
             /\ at' = "drain deferred"
             /\ UNCHANGED <<queues, state, current, pass, posts, willStop, kernel,
                            fetched, residue, thread>>

\* drain_deferred.
ForwardDeferred == /\ at = "drain deferred"
                   /\ deferred # <<>>
                   /\ Forward(Head(deferred))
                   /\ deferred' = Tail(deferred)
                   /\ UNCHANGED <<batch, state, loop, willStop, kernel, fetched, residue, thread>>

DeferredDone == /\ at = "drain deferred"
                /\ deferred = <<>>
                /\ at' = "work"
                /\ UNCHANGED <<queues, state, current, pass, posts, willStop, kernel,
                               fetched, residue, thread>>

\* schedule and resume: the oldest handle of the ring.
Resume == /\ at = "work"
          /\ current = NoCoro
          /\ ring # <<>>
          /\ current' = Head(ring)
          /\ ring' = Tail(ring)
          /\ state' = [state EXCEPT ![Head(ring)] = "running"]
          /\ residue' = residue \ {Head(ring)}
          /\ UNCHANGED <<cross, batch, deferred, overflowed, at, pass, posts,
                         willStop, kernel, fetched, thread>>

\* do_worker_part (or work_once) finds the ring empty.
WorkDone == /\ at = "work"
            /\ current = NoCoro
            /\ ring = <<>>
            /\ at' = IF pass = 0 THEN "poll" ELSE "again"
            /\ posts' = 0
            /\ UNCHANGED <<queues, state, current, pass, willStop, kernel,
                           fetched, residue, thread>>

\* FAULT of Again: work_once is the whole drain, no round follows.
AgainNever == /\ at = "again"
              /\ at' = "exited"
              /\ readable' = FALSE /\ edge' = FALSE /\ late' = {}
              /\ fetched' = {}
              /\ posts' = 0
              /\ UNCHANGED <<queues, state, current, pass, willStop, residue, thread>>

\* drain_residual_coroutines between its passes: a round follows while the
\* ring (and only the ring) holds a handle, three rounds at most.  Then deinit.
Again == /\ at = "again"
         /\ IF ring # <<>> /\ pass < 4
            THEN /\ at' = "drain cross"
                 /\ pass' = pass + 1
                 /\ UNCHANGED <<kernel, fetched>>
            ELSE /\ at' = "exited"
                 /\ readable' = FALSE /\ edge' = FALSE /\ late' = {}
                 /\ fetched' = {}
                 /\ UNCHANGED pass
         /\ posts' = 0
         /\ UNCHANGED <<queues, state, current, willStop, residue, thread>>

\* What epoll_wait has to report.  An edge that finds the counter at zero is no
\* event.
Events == (IF readable /\ edge THEN {Wake} ELSE {}) \cup KernelReady

\* fill_ready_queue: epoll_wait, without a timeout, once the events it
\* returned before are used up.  It returns MaxEvents at most, and from the ready
\* list what has waited longest: what had no room comes first the next time.
EpollWait == /\ at = "poll"
             /\ fetched = {}
             /\ Events # {}
             /\ \E part \in SUBSET Events :
                  /\ Cardinality(part) <= MaxEvents
                  /\ part = Events \/ Cardinality(part) = MaxEvents
                  /\ part \subseteq late \/ late \subseteq part
                  /\ fetched' = part
                  /\ edge' = (Wake \in Events \ part)
                  /\ late' = IF late \subseteq part THEN Events \ part ELSE late \ part
                  /\ state' = [c \in Coro |-> IF c \in part THEN "fetched" ELSE state[c]]
             /\ UNCHANGED <<queues, loop, willStop, readable, residue, thread>>

\* A signal ends an epoll_wait that has nothing to report: EINTR, no event,
\* and the loop goes round.
Interrupted == /\ at = "poll"
               /\ fetched = {}
               /\ Events = {}
               /\ at' = "check"
               /\ UNCHANGED <<queues, state, current, pass, posts, willStop, kernel,
                              fetched, residue, thread>>

\* wait_completion takes the eventfd's event: drain_eventfd...
DrainEventfd == /\ at = "poll"
                /\ Wake \in fetched
                /\ fetched' = fetched \ {Wake}
                /\ readable' = FALSE
                /\ at' = "arm"
                /\ UNCHANGED <<queues, state, current, pass, posts, willStop, edge, late,
                               residue, thread>>

\* FAULT of ArmEventfd: wait_completion waits on instead of returning to run.
ArmEventfdStay == /\ at = "arm"
                  /\ edge' = (edge \/ readable)
                  /\ at' = "poll"
                  /\ UNCHANGED <<queues, state, current, pass, posts, willStop, readable,
                                 late, fetched, residue, thread>>

\* ...and arm_eventfd: EPOLL_CTL_MOD reports a counter that is not zero.
ArmEventfd == /\ at = "arm"
              /\ edge' = (edge \/ readable)
              /\ at' = "check"
              /\ UNCHANGED <<queues, state, current, pass, posts, willStop, readable,
                             late, fetched, residue, thread>>

\* wait_completion takes the event of a coroutine's I/O, performs the I/O,
\* and handle_completion forwards the coroutine.
Complete(c) == /\ at = "poll"
               /\ c \in fetched
               /\ fetched' = fetched \ {c}
               /\ Forward(c)
               /\ state' = [state EXCEPT ![c] = "queued"]
               /\ at' = "check"
               /\ UNCHANGED <<batch, deferred, current, pass, posts, willStop, kernel,
                              residue, thread>>
-----------------------------------------------------------------------------
(* The loop thread: what a coroutine does while it is resumed.              *)

\* The coroutine leaves the thread, to where: resume() returns to
\* do_worker_part, or in the first pass of the drain to work_once.
Leaves(c, where) == /\ at = "work"
                    /\ current = c
                    /\ current' = NoCoro
                    /\ state' = [state EXCEPT ![c] = where]
                    /\ at' = IF pass = 1 THEN "again" ELSE at
                    /\ UNCHANGED <<batch, pass, willStop, kernel, fetched, residue, thread>>

\* It returns, it awaits an operation of a descriptor, or it awaits something
\* after which somebody else posts its handle (a mutex, a channel, a child).
Suspend(c) == /\ \E where \in {"done", "io", "held"} : Leaves(c, where)
              /\ UNCHANGED <<ring, cross, deferred, overflowed, posts>>

\* yield(): defer_task.
Yield(c) == /\ Leaves(c, "queued")
            /\ deferred' = Append(deferred, c)
            /\ UNCHANGED <<ring, cross, overflowed, posts>>

\* An operation that needs no event (nop, close): await_suspend forwards it.
SyncOp(c) == /\ posts < MaxPosts
             /\ Leaves(c, "queued")
             /\ Forward(c)
             /\ posts' = posts + 1
             /\ UNCHANGED deferred

\* co_spawn or spawn_handle on the coroutine's own io_context: forward_task.
Spawn(c, d) == /\ at = "work"
               /\ current = c
               /\ state[d] = "held"
               /\ posts < MaxPosts
               /\ Forward(d)
               /\ state' = [state EXCEPT ![d] = "queued"]
               /\ posts' = posts + 1
               /\ UNCHANGED <<batch, deferred, current, at, pass, willStop, kernel,
                              fetched, residue, thread>>

\* FAULT of StopSelf: the loop's own thread needs no wakeup.
StopSelfQuiet(c) == /\ at = "work"
                    /\ current = c
                    /\ willStop' = TRUE
                    /\ UNCHANGED <<queues, state, loop, kernel, fetched, residue, thread>>

\* can_stop from a coroutine of this io_context.
StopSelf(c) == /\ at = "work"
               /\ current = c
               /\ willStop' = TRUE
               /\ WriteEventfd
               /\ UNCHANGED <<queues, state, loop, fetched, residue, thread>>
-----------------------------------------------------------------------------
LoopStep == \/ Check \/ DrainCross \/ ForwardBatch \/ BatchDone
            \/ ForwardDeferred \/ DeferredDone \/ Resume \/ WorkDone \/ Again
            \/ EpollWait \/ DrainEventfd \/ ArmEventfd
            \/ \E c \in Coro : Complete(c)

CoroStep(c) == \/ Suspend(c) \/ Yield(c) \/ SyncOp(c) \/ StopSelf(c)
               \/ \E d \in Coro : Spawn(c, d)

ThreadStep(t) == \/ Stop(t) \/ Wakeup(t)
                 \/ \E c \in Coro : Post(t, c)

Next == \/ LoopStep \/ Interrupted
        \/ \E c \in Coro : CoroStep(c) \/ IoReady(c)
        \/ \E t \in Thread : ThreadStep(t)

Spec == Init /\ [][Next]_vars

\* Threads run: the loop's, the coroutine it resumes (which leaves the thread
\* in the end: MaxPosts bounds what it does before), and a thread that is
\* about to write to the eventfd.  Nothing forces the kernel to find a
\* descriptor ready, a signal to arrive, or anyone to post or to stop.
Fairness == /\ WF_vars(LoopStep)
            /\ \A c \in Coro : WF_vars(Suspend(c) \/ Yield(c) \/ SyncOp(c))
            /\ \A t \in Thread : WF_vars(Wakeup(t))

FairSpec == Spec /\ Fairness
-----------------------------------------------------------------------------
TypeOK == /\ ring \in Seq(Coro) /\ Len(ring) <= RingCap
          /\ cross \in Seq(Coro) /\ batch \in Seq(Coro) /\ deferred \in Seq(Coro)
          /\ overflowed \in BOOLEAN
          /\ state \in [Coro -> CoroState]
          /\ current \in Coro \cup {NoCoro}
          /\ at \in LoopState /\ pass \in 0..4 /\ posts \in 0..MaxPosts
          /\ willStop \in BOOLEAN
          /\ readable \in BOOLEAN /\ edge \in BOOLEAN
          /\ fetched \subseteq Coro \cup {Wake} /\ late \subseteq Coro \cup {Wake}
          /\ residue \subseteq Coro
          /\ thread \in [Thread -> {"idle", "wakeup"}]

Places(c, s) == {i \in 1..Len(s) : s[i] = c}
Line == ring \o batch \o cross
Blocked == at = "poll" /\ fetched = {}
WakeupComing == \/ readable /\ edge
                \/ \E t \in Thread : thread[t] = "wakeup"

\* A handle is never lost and never queued twice: it is in the queues exactly
\* once from the moment it is posted, deferred or completed until the loop
\* resumes it, through every move between the queues, the ring's overflow
\* included.  A handle queued twice would resume a destroyed frame.
HandlesConserved ==
    /\ TypeOK
    /\ \A c \in Coro :
         /\ Cardinality(Places(c, Line \o deferred)) = IF state[c] = "queued" THEN 1 ELSE 0
         /\ state[c] = "running" <=> current = c
         /\ c \in fetched => state[c] = "fetched"

\* The wakeup that co_spawn_cross leaves to the thread that found cross_queue
\* empty is enough: the loop never sleeps in epoll_wait while cross_queue holds
\* a handle, unless a write to the eventfd is on its way or will be seen.
PostsWake == Blocked /\ cross # <<>> /\ ~overflowed => WakeupComing

\* The loop never sleeps in epoll_wait, deaf to can_stop, whichever thread or
\* coroutine called it and wherever the loop was.
StopWakes == Blocked /\ willStop => WakeupComing

\* No post and no request to stop is slept over.
NoWakeLost == PostsWake /\ StopWakes

\* Handles posted by other threads are resumed in the order of their posts,
\* and no handle passes another inside the ring, while the ring has not
\* overflowed.
FifoKept == [][\A c, d \in Coro : \A i, j \in DOMAIN Line, k, l \in DOMAIN Line' :
                 /\ ~overflowed'
                 /\ i < j /\ Line[i] = c /\ Line[j] = d
                 /\ Line'[k] = c /\ Line'[l] = d
                 => k < l]_vars

\* Shutdown: every coroutine that was queued when the loop saw will_stop_ is
\* resumed at least once before the backend is closed, if the ring has room.
ResidueResumed == at = "exited" /\ ~overflowed => residue = {}

\* A handle another thread posted is resumed in the end, if the loop is not
\* stopped first and the ring does not overflow.
PostsRun == \A c \in Coro : (Places(c, cross) # {} /\ ~overflowed)
                            ~> (state[c] = "running" \/ at = "exited" \/ overflowed)

\* A coroutine whose descriptor became ready is resumed in the end, if the
\* loop is not stopped first and the ring does not overflow.
IoRuns == \A c \in Coro : (state[c] = "ready")
                          ~> (state[c] = "running" \/ at = "exited" \/ overflowed)

\* can_stop ends the event loop's thread, so join() returns.
StopEnds == willStop ~> at = "exited"

\* What the loop owes in the end: to who posts, to who awaits, to who stops it.
LoopServes == PostsRun /\ IoRuns /\ StopEnds
-----------------------------------------------------------------------------
(* What the comments promise and the code does not do.                      *)

\* doc/BugFixed.md, on do_completion_part: with coroutines deferred and no I/O
\* in flight the wait must not block, for nothing would wake the loop.
DeferredNeverBlocks == Blocked /\ deferred # <<>>
                       => \/ WakeupComing
                          \/ \E c \in Coro : state[c] \in {"io", "ready"}
=============================================================================
