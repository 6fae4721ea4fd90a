------------------------------- MODULE EpollIo -------------------------------
(***************************************************************************)
(* The I/O awaitables of the epoll backend on one io_context: awaiters in  *)
(* coroutine frames (epoll_awaiter_base and its derived classes), chains   *)
(* of two (chained_awaiter), the descriptors and their one-shot            *)
(* registrations with the epoll instance (register_fd), the events the     *)
(* loop has fetched and not yet served, and the threads of file_io_pool.   *)
(*                                                                         *)
(* A registration and an event hold a pointer to an awaiter, <<coroutine,  *)
(* 1 or 2>> here; nothing in the code checks that it is still there.       *)
(*                                                                         *)
(* The loop's own thread is the only one that touches descriptors, apart   *)
(* from the pool's threads and the kernel: its steps are the calls it      *)
(* makes.  How other threads post to it and wake it is EventLoop's matter. *)
(***************************************************************************)
EXTENDS Integers, Sequences, FiniteSets

CONSTANTS Coro,      (* the coroutines of the io_context                   *)
          Worker,    (* the threads of file_io_pool                        *)
          MaxFd,     (* how many descriptors the process may have open     *)
          Kind,      (* the operations the program uses, some of AllKinds  *)
          Duplex,    (* may two coroutines use one socket at a time?       *)
          MaxSync,   (* bound: closes in one pass of do_worker_part        *)
          MaxReap,   (* bound: chains are awaited while requests_to_reap   *)
                     (* is not above it                                    *)
          NoCoro     (* no coroutine is being resumed                      *)

\* "past" is a timeout of no length: a deadline that is over when it is
\* awaited.  shutdown and nop are like close: not asynchronous.
AllKinds == {"recv", "accept", "send", "file", "timer", "past", "close"}

ASSUME IoAssumption == /\ MaxFd \in Nat /\ MaxSync \in Nat /\ MaxReap \in Nat
                       /\ Kind \subseteq AllKinds
                       /\ Duplex \in BOOLEAN
                       /\ NoCoro \notin Coro /\ IsFiniteSet(Coro)

Fd == 1..MaxFd
NoFd == 0                      \* the code's -1
NoCtx == <<NoCoro, 0>>
Ctx == Coro \X {1, 2}

VARIABLES
    file,        (* what each descriptor refers to                         *)
    ready,       (* the directions in which descriptors are ready          *)
    registered,  (* the armed registrations of the epoll instance          *)
    awaiter,     (* the awaiters each coroutine has constructed            *)
    stage,       (* which of them the coroutine waits for, 0 if for none   *)
    done,        (* io_info_.result of that one has been written           *)
    reap,        (* requests_to_reap                                       *)
    ring,        (* the coroutines to resume                               *)
    current,     (* the coroutine the loop is resuming                     *)
    at,          (* "work", "poll" or "complete": where the loop is, or    *)
                 (* "undefined" after a call of a null pointer             *)
    fetched,     (* ready_events_ from ready_pos_ on                       *)
    taken,       (* the context whose completion_info is handled           *)
    sync,        (* closes in this pass of do_worker_part                  *)
    pool,        (* file_io_pool's queue                                   *)
    worker       (* what each of its threads does, and for which context   *)

kernel == <<file, ready, registered>>
frames == <<awaiter, stage, done, reap>>
loop == <<ring, current, at, fetched, taken, sync>>
files == <<pool, worker>>
vars == <<kernel, frames, loop, files>>
-----------------------------------------------------------------------------
(* The kernel's side of a descriptor.                                       *)

Free == {f \in Fd : file[f] = "none"}

\* The number the next open, socket, accept, eventfd or timerfd gets.
NextFd == IF Free = {} THEN NoFd
          ELSE CHOOSE f \in Free : \A g \in Free : f <= g

Open(f, what) == IF f = NoFd THEN file ELSE [file EXCEPT ![f] = what]

\* close takes the descriptor out of the epoll instance as well.
Close(f) == IF f = NoFd THEN UNCHANGED kernel
            ELSE /\ file' = [file EXCEPT ![f] = "none"]
                 /\ ready' = {d \in ready : d[1] # f}
                 /\ registered' = {r \in registered : r.fd # f}

\* The direction an operation waits for.
Direction(kind) == IF kind = "send" THEN "out" ELSE "in"

\* register_fd: EPOLL_CTL_ADD, or MOD, which replaces what the descriptor was
\* registered for.  A descriptor below zero is not registered: it returns.
Register(f, kind, x) ==
    IF f = NoFd THEN registered
    ELSE {r \in registered : r.fd # f}
         \cup {[fd |-> f, dir |-> Direction(kind), ctx |-> x]}

Init == /\ file = [f \in Fd |-> "none"] /\ ready = {} /\ registered = {}
        /\ awaiter = [c \in Coro |-> <<>>]
        /\ stage = [c \in Coro |-> 0]
        /\ done = [c \in Coro |-> FALSE]
        /\ reap = 0
        /\ ring \in {s \in [1..Cardinality(Coro) -> Coro] :
                       \A i, j \in DOMAIN s : s[i] = s[j] => i = j}
        /\ current = NoCoro /\ at = "work" /\ fetched = {} /\ taken = NoCtx
        /\ sync = 0
        /\ pool = <<>>
        /\ worker = [w \in Worker |-> [does |-> "waits", ctx |-> NoCtx]]
-----------------------------------------------------------------------------
(* The loop resumes a coroutine, which opens sockets and awaits I/O.        *)

Resume == /\ at = "work" /\ current = NoCoro
          /\ ring # <<>>
          /\ current' = Head(ring)
          /\ ring' = Tail(ring)
          /\ UNCHANGED <<kernel, frames, at, fetched, taken, sync, files>>

\* create_tcp, or a listening socket; it throws when there is no descriptor.
CreateSocket == /\ current # NoCoro
                /\ awaiter[current] = <<>>
                /\ NextFd # NoFd
                /\ file' = Open(NextFd, "socket")
                /\ UNCHANGED <<ready, registered, frames, loop, files>>

InUse(f) == \E d \in Coro \ {current} : \E k \in DOMAIN awaiter[d] : awaiter[d][k].fd = f

\* The descriptors an awaiter may be constructed with.  A file's own number
\* does not matter; a timer's is made by its constructor.
Choices(kind) ==
    CASE kind = "file" -> {NoFd}
      [] kind \in {"timer", "past"} -> {NextFd}
      [] OTHER -> {f \in Fd : file[f] = "socket" /\ (Duplex \/ ~InUse(f))}

\* FAULT of Construct: the operation is not counted.
ConstructUncounted(kind, f) ==
    /\ current # NoCoro
    /\ \/ awaiter[current] = <<>>
       \/ Len(awaiter[current]) = 1 /\ reap <= MaxReap
    /\ kind = "close" => sync < MaxSync
    /\ awaiter' = [awaiter EXCEPT ![current] = Append(@, [kind |-> kind, fd |-> f])]
    /\ file' = IF kind \in {"timer", "past"} THEN Open(f, "timerfd") ELSE file
    /\ UNCHANGED <<reap, ready, registered, stage, done, loop, files>>

\* The constructor of an awaiter; for a timeout it makes and sets the timer.
Construct(kind, f) ==
    /\ current # NoCoro
    /\ \/ awaiter[current] = <<>>
       \/ Len(awaiter[current]) = 1 /\ reap <= MaxReap
    /\ kind = "close" => sync < MaxSync
    /\ awaiter' = [awaiter EXCEPT ![current] = Append(@, [kind |-> kind, fd |-> f])]
    /\ reap' = IF kind = "close" THEN reap ELSE reap + 1
    /\ file' = IF kind \in {"timer", "past"} THEN Open(f, "timerfd") ELSE file
    /\ UNCHANGED <<ready, registered, stage, done, loop, files>>

\* do_issue_io and register_with_epoll of awaiter k of c.  A file operation
\* gets an eventfd, which is registered in its place, and goes to the pool.
\* What is not asynchronous, the first of a chain, does nothing here.
Issue(c, k) ==
    LET op == awaiter[c][k] IN
    CASE op.kind = "close" -> UNCHANGED <<file, registered, awaiter, pool>>
      [] op.kind = "file" ->
           /\ file' = Open(NextFd, "eventfd")
           /\ awaiter' = [awaiter EXCEPT ![c][k].fd = NextFd]
           /\ registered' = Register(NextFd, op.kind, <<c, k>>)
           /\ pool' = Append(pool, <<c, k>>)
      [] OTHER ->
           /\ registered' = IF op.fd \in Free THEN registered    \* EBADF, logged
                            ELSE Register(op.fd, op.kind, <<c, k>>)
           /\ UNCHANGED <<file, awaiter, pool>>

\* await_suspend of what is not asynchronous: done at once, and the coroutine
\* goes straight to the ring.
AwaitClose ==
    /\ current # NoCoro
    /\ Len(awaiter[current]) = 1
    /\ awaiter[current][1].kind = "close"
    /\ Close(awaiter[current][1].fd)
    /\ awaiter' = [awaiter EXCEPT ![current] = <<>>]
    /\ ring' = Append(ring, current)
    /\ current' = NoCoro
    /\ sync' = sync + 1
    /\ UNCHANGED <<stage, done, reap, at, fetched, taken, files>>

\* await_suspend of an asynchronous operation or of a chain, which counts
\* itself once more.
Await ==
    /\ current # NoCoro
    /\ \/ Len(awaiter[current]) = 1 /\ awaiter[current][1].kind # "close" /\ reap' = reap
       \/ Len(awaiter[current]) = 2 /\ reap' = reap + 1
    /\ Issue(current, 1)
    /\ stage' = [stage EXCEPT ![current] = 1]
    /\ current' = NoCoro
    /\ UNCHANGED <<ready, done, ring, at, fetched, taken, sync, worker>>
-----------------------------------------------------------------------------
(* The loop polls and completes.                                            *)

WorkDone == /\ at = "work" /\ current = NoCoro
            /\ ring = <<>>
            /\ at' = "poll"
            /\ sync' = 0
            /\ UNCHANGED <<kernel, frames, ring, current, fetched, taken, files>>

Firing == {r \in registered : <<r.fd, r.dir>> \in ready}

\* FAULT of EpollWait: no EPOLLONESHOT, the registrations stay armed.
EpollWaitStay == /\ at = "poll" /\ fetched = {}
                 /\ Firing # {}
                 /\ fetched' = {r.ctx : r \in Firing}
                 /\ UNCHANGED <<kernel, frames, ring, current, at, taken, sync, files>>

\* FAULT of EpollWait: ready_events_ is refilled while it still holds events.
EpollWaitRefill == /\ at = "poll"
                   /\ Firing # {}
                   /\ registered' = registered \ Firing
                   /\ fetched' = {r.ctx : r \in Firing}
                   /\ UNCHANGED <<file, ready, frames, ring, current, at, taken, sync, files>>

\* fill_ready_queue: epoll_wait returns what is ready and disarms it.
EpollWait == /\ at = "poll" /\ fetched = {}
             /\ Firing # {}
             /\ registered' = registered \ Firing
             /\ fetched' = {r.ctx : r \in Firing}
             /\ UNCHANGED <<file, ready, frames, ring, current, at, taken, sync, files>>

\* recv, recvfrom, send, sendto, and connect's look at SO_ERROR.
Transfer(f, dir) == /\ ready' = ready \ {<<f, dir>>}
                    /\ UNCHANGED <<file, registered>>

\* accept4: a new descriptor, or an error.
Accept(f) == /\ ready' = ready \ {<<f, "in">>}
             /\ file' \in {file} \cup (IF <<f, "in">> \in ready
                                       THEN {Open(NextFd, "socket")} ELSE {})
             /\ UNCHANGED registered

\* FAULT of Perform: the eventfd and the timerfd are not closed.
PerformLeak(x) ==
    LET op == awaiter[x[1]][x[2]] IN
    /\ at = "poll" /\ x \in fetched
    /\ fetched' = fetched \ {x}
    /\ IF op.kind = "accept" THEN Accept(op.fd) ELSE Transfer(op.fd, Direction(op.kind))
    /\ awaiter' = IF op.kind \in {"file", "timer", "past"}
                  THEN [awaiter EXCEPT ![x[1]][x[2]].fd = NoFd] ELSE awaiter
    /\ done' = IF op.kind = "file" THEN done ELSE [done EXCEPT ![x[1]] = TRUE]
    /\ taken' = x
    /\ at' = "complete"
    /\ UNCHANGED <<stage, reap, ring, current, sync, files>>

\* wait_completion: the next event's perform.  A file operation has been
\* performed by the pool; here its eventfd is closed, like a timer's timerfd.
Perform(x) ==
    LET op == awaiter[x[1]][x[2]]
        own == op.kind \in {"file", "timer", "past"} IN
    /\ at = "poll" /\ x \in fetched
    /\ fetched' = fetched \ {x}
    /\ CASE own               -> Close(op.fd)
         [] op.kind = "accept" -> Accept(op.fd)
         [] OTHER             -> Transfer(op.fd, Direction(op.kind))
    /\ awaiter' = IF own THEN [awaiter EXCEPT ![x[1]][x[2]].fd = NoFd] ELSE awaiter
    /\ done' = IF op.kind = "file" THEN done ELSE [done EXCEPT ![x[1]] = TRUE]
    /\ taken' = x
    /\ at' = "complete"
    /\ UNCHANGED <<stage, reap, ring, current, sync, files>>

\* The second operation of the chain is not asynchronous: its constructor has
\* left chain_dispatch_fn null.
CallsNull == LET ops == awaiter[taken[1]] IN
             taken[2] < Len(ops) /\ ops[taken[2] + 1].kind = "close"

\* handle_completion calls that null pointer; the loop's story ends here.
IssueNull == /\ at = "complete"
             /\ CallsNull
             /\ at' = "undefined"
             /\ UNCHANGED <<kernel, frames, ring, current, fetched, taken, sync, files>>

\* handle_completion: a chain goes on with its second operation, anything else
\* is over and its coroutine goes to the ring.
Complete ==
    LET c == taken[1] IN
    /\ at = "complete"
    /\ ~CallsNull
    /\ done' = [done EXCEPT ![c] = FALSE]
    /\ IF taken[2] < Len(awaiter[c])
       THEN /\ Issue(c, taken[2] + 1)
            /\ stage' = [stage EXCEPT ![c] = taken[2] + 1]
            /\ UNCHANGED <<reap, ring>>
       ELSE /\ ring' = Append(ring, c)
            /\ stage' = [stage EXCEPT ![c] = 0]
            /\ awaiter' = [awaiter EXCEPT ![c] = <<>>]
            /\ reap' = reap - 1
            /\ UNCHANGED <<file, registered, pool>>
    /\ taken' = NoCtx
    /\ at' = "work"
    /\ UNCHANGED <<ready, current, fetched, sync, worker>>
-----------------------------------------------------------------------------
(* The threads of file_io_pool, and the world.                              *)

PoolTake(w) == /\ worker[w].does = "waits"
               /\ pool # <<>>
               /\ worker' = [worker EXCEPT ![w] = [does |-> "io", ctx |-> Head(pool)]]
               /\ pool' = Tail(pool)
               /\ UNCHANGED <<kernel, frames, loop>>

\* FAULT of FileIo: the eventfd is written to before the I/O is done.
FileIoLate(w) == /\ worker[w].does = "io"
                 /\ worker' = [worker EXCEPT ![w].does = "signals"]
                 /\ UNCHANGED <<kernel, frames, loop, pool>>

\* The read or write, and its result into the awaiter.
FileIo(w) == /\ worker[w].does = "io"
             /\ done' = [done EXCEPT ![worker[w].ctx[1]] = TRUE]
             /\ worker' = [worker EXCEPT ![w].does = "signals"]
             /\ UNCHANGED <<kernel, awaiter, stage, reap, loop, pool>>

\* FAULT of Signal: the eventfd is not written to.
SignalQuiet(w) == /\ worker[w].does = "signals"
                  /\ worker' = [worker EXCEPT ![w] = [does |-> "waits", ctx |-> NoCtx]]
                  /\ UNCHANGED <<kernel, frames, loop, pool>>

\* The write to the awaiter's eventfd, the last the pool has to do with it.
Signal(w) == LET x == worker[w].ctx
                 f == awaiter[x[1]][x[2]].fd IN
             /\ worker[w].does = "signals"
             /\ ready' = IF f = NoFd THEN ready ELSE ready \cup {<<f, "in">>}
             /\ worker' = [worker EXCEPT ![w] = [does |-> "waits", ctx |-> NoCtx]]
             /\ UNCHANGED <<file, registered, frames, loop, pool>>

\* Data, room, a connection or an error is there at a socket somebody is
\* registered for.  It may have been there before: adding or modifying a
\* registration looks at the descriptor, so that the order makes no difference.
SocketReady(r) == /\ file[r.fd] = "socket"
                  /\ ready' = ready \cup {<<r.fd, r.dir>>}
                  /\ ready' # ready
                  /\ UNCHANGED <<file, registered, frames, loop, files>>

TimersOn(f) == {c \in Coro : \E k \in DOMAIN awaiter[c] :
                   awaiter[c][k] = [kind |-> "timer", fd |-> f]}

\* A timer expires.  timerfd_settime with a time of zero has disarmed it, so
\* that a "past" one never does.
Expire(f) == /\ file[f] = "timerfd"
             /\ TimersOn(f) # {}
             /\ <<f, "in">> \notin ready
             /\ ready' = ready \cup {<<f, "in">>}
             /\ UNCHANGED <<file, registered, frames, loop, files>>

LoopNext == \/ Resume \/ CreateSocket \/ AwaitClose \/ Await
            \/ \E kind \in Kind : \E f \in Choices(kind) : Construct(kind, f)
            \/ WorkDone \/ EpollWait \/ Complete \/ IssueNull
            \/ \E x \in Ctx : Perform(x)

WorkerNext(w) == PoolTake(w) \/ FileIo(w) \/ Signal(w)

WorldNext == \/ \E r \in registered : SocketReady(r)
             \/ \E f \in Fd : Expire(f)

Next == LoopNext \/ WorldNext \/ \E w \in Worker : WorkerNext(w)

Spec == Init /\ [][Next]_vars

\* The loop's thread and the pool's run, a resumed coroutine comes to an
\* await, and time passes.
FairSpec == /\ Spec
            /\ WF_vars(LoopNext)
            /\ \A w \in Worker : WF_vars(WorkerNext(w))
            /\ \A f \in Fd : WF_vars(Expire(f))
-----------------------------------------------------------------------------
(* What is checked.                                                         *)

\* The variables keep their types.  requests_to_reap is unsigned: it may count
\* more than will complete, as chains make it, and is never taken below zero,
\* which handle_completion asserts.
TypeOK == /\ file \in [Fd -> {"none", "socket", "eventfd", "timerfd"}]
          /\ ready \subseteq Fd \X {"in", "out"}
          /\ registered \subseteq [fd : Fd, dir : {"in", "out"}, ctx : Ctx]
          /\ awaiter \in [Coro -> Seq([kind : Kind, fd : Fd \cup {NoFd}])]
          /\ stage \in [Coro -> 0..2] /\ done \in [Coro -> BOOLEAN]
          /\ \A c \in Coro : stage[c] <= Len(awaiter[c]) /\ Len(awaiter[c]) <= 2
          /\ reap \in Nat
          /\ ring \in Seq(Coro)
          /\ current \in Coro \cup {NoCoro}
          /\ at \in {"work", "poll", "complete", "undefined"}
          /\ fetched \subseteq Ctx /\ taken \in Ctx \cup {NoCtx}
          /\ sync \in 0..MaxSync
          /\ pool \in Seq(Ctx)
          /\ worker \in [Worker -> [does : {"waits", "io", "signals"}, ctx : Ctx \cup {NoCtx}]]

Awaited == {x \in Ctx : stage[x[1]] = x[2]}
InPool == {pool[i] : i \in 1..Len(pool)} \cup {worker[w].ctx : w \in Worker}
Armed == {r.ctx : r \in registered}

\* The frames that others point into are alive: whatever the epoll instance
\* will report, the loop has fetched or the pool works on, is the operation its
\* coroutine is suspended in, and is pointed to once, so that nothing is
\* performed twice or into the frame of a coroutine that has gone on.
ContextsAlive ==
    /\ Armed \cup fetched \cup InPool \cup {taken} \subseteq Awaited \cup {NoCtx}
    /\ Armed \cap fetched = {} /\ taken \notin Armed \cup fetched
    /\ \A r, s \in registered : r.fd = s.fd \/ r.ctx = s.ctx => r = s
    /\ \A r \in registered : awaiter[r.ctx[1]][r.ctx[2]].fd = r.fd
    /\ \A i, j \in 1..Len(pool) : pool[i] = pool[j] => i = j
    /\ \A w \in Worker : \A i \in 1..Len(pool) : pool[i] # worker[w].ctx
    /\ \A v, w \in Worker : worker[v].ctx = worker[w].ctx /\ v # w => worker[v].ctx = NoCtx

\* Nobody is forgotten: the operation a coroutine is suspended in is armed in
\* the epoll instance, or its event is fetched or being handled; a file
\* operation is moreover in the pool until its eventfd is readable.  Out of
\* this are operations register_fd could not be given a descriptor for, and
\* close at the head of a chain: these are never resumed.
NoneForgotten ==
    \A x \in Awaited :
      LET op == awaiter[x[1]][x[2]] IN
      op.fd # NoFd /\ op.kind # "close"
      => /\ x \in Armed \cup fetched \cup {taken}
         /\ op.kind = "file" => x \in InPool \/ <<op.fd, "in">> \in ready

\* Descriptors of their own: every eventfd and timerfd belongs to exactly one
\* awaiter, which closes it; none is left open, and none is closed under
\* another's feet when its number is given out anew.
DescriptorsOwned ==
    \A f \in Fd :
      LET owners == {x \in Ctx : x[2] <= Len(awaiter[x[1]]) /\ awaiter[x[1]][x[2]].fd = f}
      IN \/ file[f] = "none" /\ owners = {}
         \/ file[f] = "socket"
         \/ /\ file[f] \in {"eventfd", "timerfd"}
            /\ Cardinality(owners) = 1
            /\ \A x \in owners : (file[f] = "eventfd") <=> (awaiter[x[1]][x[2]].kind = "file")

\* What others point to is there: the frames they point into, and the
\* descriptors they wait for.
FramesSafe == TypeOK /\ ContextsAlive /\ DescriptorsOwned

Kinds(ops) == [i \in 1..Len(ops) |-> ops[i].kind]
Left(c) == IF stage[c] = 0 THEN <<>>
           ELSE SubSeq(Kinds(awaiter[c]), stage[c] + (IF done[c] THEN 1 ELSE 0), Len(awaiter[c]))
Abstract == INSTANCE AsyncIo WITH Client <- Coro, Operation <- Kind,
                                  suspended <- {c \in Coro : stage[c] # 0},
                                  todo <- [c \in Coro |-> Left(c)]

\* Every operation a coroutine awaited is performed once, in the order of the
\* chain, before the coroutine is queued again: with events served long after
\* they were fetched, threads of the pool, and descriptors used again.
ImplementsAsyncIo == Abstract!IoSpec

Able(x) == LET op == awaiter[x[1]][x[2]] IN
           /\ x \in Awaited
           /\ op.fd # NoFd /\ op.kind # "close"
           /\ \/ op.kind \in {"file", "timer"}
              \/ <<op.fd, Direction(op.kind)>> \in ready

\* A coroutine is not kept waiting: an operation that got a descriptor is
\* completed once its socket is ready, its file I/O done or its time over.
Served == \A x \in Ctx : Able(x) ~> x \notin Awaited \/ at = "undefined"
=============================================================================
