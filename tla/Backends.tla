------------------------------ MODULE Backends ------------------------------
(***************************************************************************)
(* A build has one backend; what the loop and the coroutines rely on is    *)
(* the same for both that complete operations, and is stated here.         *)
(***************************************************************************)
EXTENDS Uring, Iocp

VARIABLE backend   (* "io_uring" or "iocp"                                  *)

backendVars == <<loopVars, uringVars, iocpVars, backend>>

BackendsInit == /\ LoopInit /\ UringInit /\ IocpInit
                /\ backend \in {"io_uring", "iocp"}

OnUring(step) == backend = "io_uring" /\ step /\ UNCHANGED <<iocpVars, backend>>
OnIocp(step) == backend = "iocp" /\ step /\ UNCHANGED <<uringVars, backend>>

Loop == OnUring(UringLoop) \/ OnIocp(IocpLoop)
OtherThread == OnUring(UringWakeup) \/ OnIocp(IocpWakeup)
Performed(c) == OnUring(UringFinishes(c)) \/ OnIocp(PoolPosts(c))
TimeAndEvents == OnUring(efd /\ KernelWakes) \/ OnIocp(TimerThread)

\* The threads run, time passes, and the kernel finishes what depends on nobody; what
\* waits for a peer, such as a recv, may wait for ever.
BackendsSpec ==
    /\ BackendsInit
    /\ [][OnUring(UringNext) \/ OnIocp(IocpNext)]_backendVars
    /\ WF_backendVars(Loop) /\ WF_backendVars(OtherThread) /\ WF_backendVars(TimeAndEvents)
    /\ \A c \in Coro : WF_backendVars(Performed(c))
-----------------------------------------------------------------------------
Defined == at \notin {"closing", "closed", "undefined"}

InFlight(x) == IF backend = "io_uring" THEN UringInFlight(x) ELSE IocpInFlight(x)

\* The operations of a coroutine that waits: all of them with io_uring, which has
\* the entries of a chain at once, and with IOCP the one that was issued last.
Awaited(c) == 1..Len(awaits[c])

\* Every coroutine that waits waits for exactly one completion of each of its
\* operations that was handed over, and no operation comes back twice or for a
\* coroutine that has gone on; requests_to_reap counts them.  Only an operation
\* that failed to be issued is lost (GetNothing).
CompletionsMatched ==
    /\ UringTypeOK /\ IocpTypeOK
    /\ Defined => /\ \A x \in Coro \X {1, 2} : InFlight(x) <= 1
                  /\ \A x \in Coro \X {1, 2} : InFlight(x) = 1 => x[2] \in Awaited(x[1])
                  /\ \A c \in Suspended : \E k \in Awaited(c) : InFlight(<<c, k>>) = 1 \/ <<c, k>> \in dropped
                  /\ reap = Cardinality({x \in Coro \X {1, 2} : InFlight(x) = 1}) + Cardinality(dropped)

\* The second operation of a chain does not begin, let alone end, before the first
\* has ended.
ChainInOrder ==
    Defined => \A c \in Suspended : Len(awaits[c]) = 2 /\ <<c, 1>> \notin dropped =>
        IF backend = "io_uring"
        THEN LET there == {e.op : e \in kern \cup ToSet(sq)} IN
             <<c, 1>> \in there => <<c, 2>> \in there
        ELSE InFlight(<<c, 1>>) = 1 <=> <<c, 2>> \in held

\* The loop waits for completions with nothing to wait for.
Asleep == \/ backend = "io_uring" /\ at = "wait" /\ cq = <<>>
          \/ backend = "iocp" /\ at = "complete" /\ port = <<>>

\* arm_eventfd has found the submission queue full: nothing listens to the eventfd.
Deaf == backend = "io_uring" /\ Wake \notin {e.op : e \in kern \cup ToSet(sq)} \cup ToSet(cq)

\* The loop never sleeps beside a coroutine in cross_queue, or after can_stop,
\* unless a wakeup is on its way, or could not be armed.
WakeKept == Asleep /\ ~Deaf /\ (cross # <<>> \/ stop) => waking \/ efd

\* Timeouts are posted in the order of their deadlines, whatever the order of
\* their submission and the state of the timer thread.
TimersInOrder ==
    [][\A i \in DOMAIN expired :
          expired[i].op \notin {t.op : t \in ToSet(expired' \o heap')}
          => \A t \in ToSet(expired' \o heap') : expired[i].left <= t.left]_<<heap, expired>>

\* An operation that the kernel, the pool or the timer thread finishes by itself
\* resumes its coroutine in the end, unless it was lost or the loop ended first.
Prompt(c) == /\ c \in Suspended /\ awaits[c] # <<>>
             /\ \A k \in Awaited(c) : awaits[c][k] \in PromptKinds

IoServed == \A c \in Coro :
    Prompt(c) ~> (c \notin Suspended \/ ~Defined \/ at = "residue" \/ Deaf)
=============================================================================
