-------------------------------- MODULE Iocp --------------------------------
(***************************************************************************)
(* The IOCP backend (iocp_proactor, iocp_operation, win_awaiter_base and   *)
(* its derived classes, chained_awaiter): an operation object that an      *)
(* awaiter acquires, hands over to whoever performs the operation - the    *)
(* kernel, the loop's thread itself, the pool for file I/O, the timer      *)
(* thread - and that comes back through the completion port.               *)
(*                                                                         *)
(* An operation object is named by its awaiter, <<c, 1>> or <<c, 2>>: one  *)
(* that is used again has been reset, and is as new.                       *)
(***************************************************************************)
EXTENDS ProactorLoop, Integers

CONSTANT IocpExpr    (* the expressions that are awaited: one operation, or *)
                     (* two joined by operator&&                            *)

\* Who performs an operation.
StreamKinds == {"recv", "send", "accept", "connect"}
DatagramKinds == {"recvfrom", "sendto"}
SocketKinds == StreamKinds \cup DatagramKinds
SyncKinds == {"close", "shutdown", "nop", "yield"}
PoolKinds == {"read", "write"}
TimerKinds == {"timeout"}
IocpKinds == SocketKinds \cup SyncKinds \cup PoolKinds \cup TimerKinds

ASSUME IocpAssumption == \A e \in IocpExpr : e \in Seq(IocpKinds) /\ Len(e) \in 1..2

\* How long a timeout lasts, and how late the timer thread is at most, in
\* units of time: two timeouts in flight can end in either order.
Durations == 1..2
MaxLate == 1

VARIABLES held,      (* the operation objects their awaiters still own      *)
          pending,   (* those the kernel has                                *)
          pool,      (* those of win_file_io_pool                           *)
          heap,      (* those of win_timer_thread, in the order of their    *)
                     (* submission, with the time that is left              *)
          expired,   (* those its thread has taken to post them             *)
          port,      (* the completion port                                 *)
          work,      (* outstanding_work_                                   *)
          dropped    (* those wait_completion has taken and let go          *)

iocpVars == <<held, pending, pool, heap, expired, port, work, dropped>>

IocpInit == /\ held = {} /\ pending = {} /\ pool = {} /\ heap = <<>> /\ expired = <<>>
            /\ port = <<>> /\ work = 0 /\ dropped = {}

\* A packet of the port: an operation object and its ready_, or a wakeup.
Packet(x, ready) == [op |-> x, ready |-> ready]
Wakeup == Packet(Wake, TRUE)

\* on_sync_completion: ready_ is set and the object posted, by whichever thread.
\* A port that is closed refuses it, and that thread recycles the object.
OnSyncCompletion(x, packets) ==
    port' = IF at = "closed" THEN packets ELSE Append(packets, Packet(x, TRUE))
-----------------------------------------------------------------------------
\* FAULT of IssueSocket: reset_for_reuse leaves ready_ set, and on_pending posts
\* the object that the kernel will post.
IssueSocketUnreset(x, kind, packets) ==
    /\ kind \in SocketKinds
    /\ pending' = pending \cup {x}
    /\ port' = Append(packets, Packet(x, TRUE))
    /\ UNCHANGED <<pool, heap>>

\* A socket's operation: the call pends or has succeeded, and the kernel will post
\* the object (on_pending finds ready_ clear); or it fails, and finish_issue posts
\* the object itself, with ready_ still clear.
IssueSocket(x, kind, packets) ==
    /\ kind \in SocketKinds
    /\ \/ pending' = pending \cup {x} /\ port' = packets
       \/ port' = Append(packets, Packet(x, FALSE)) /\ UNCHANGED pending
    /\ UNCHANGED <<pool, heap>>

\* win_close, win_shutdown and win_nop perform the operation here and now.
IssueSync(x, kind, packets) == /\ kind \in SyncKinds
                         /\ OnSyncCompletion(x, packets)
                         /\ UNCHANGED <<pending, pool, heap>>

\* win_read and win_write leave it to the pool.
IssueFile(x, kind, packets) == /\ kind \in PoolKinds
                         /\ pool' = pool \cup {x}
                         /\ port' = packets
                         /\ UNCHANGED <<pending, heap>>

\* win_timeout leaves it to the timer thread.
IssueTimer(x, kind, packets) ==
    /\ kind \in TimerKinds
    /\ \E d \in Durations : heap' = Append(heap, [op |-> x, left |-> d])
    /\ port' = packets
    /\ UNCHANGED <<pending, pool>>

\* issue_io, the port being left with packets.
Issue(x, kind, packets) ==
    \/ IssueSocket(x, kind, packets) \/ IssueSync(x, kind, packets)
    \/ IssueFile(x, kind, packets) \/ IssueTimer(x, kind, packets)

\* acquire_operation: an object that is as new, whether it was recycled or not.
\* The first of an expression hands its own over at once.
Acquired(c, expression) == held \cup {<<c, k>> : k \in 2..Len(expression)}

\* The coroutine c constructs the awaiters of an expression, each with an object
\* of its own, and await_suspend (of a chained_awaiter, if there are
\* two) issues the first.
IocpAwait(c, expression) ==
    /\ Resumes(c)
    /\ awaits' = [awaits EXCEPT ![c] = expression]
    /\ held' = Acquired(c, expression)
    /\ work' = work + 1
    /\ reap' = reap + 1
    /\ Issue(<<c, 1>>, expression[1], port)
    /\ UNCHANGED <<at, cross, out, ended, stop, waking, expired, dropped>>
-----------------------------------------------------------------------------
(* The loop's thread in wait_completion, which waits even when it is to stop. *)

Dequeues == at = "complete" /\ port # <<>> /\ at' = "drain"

\* A wakeup; or an operation whose ready_ is clear, on which it returns 0.
GetNothing ==
    /\ Dequeues
    /\ Head(port) = Wakeup \/ ~Head(port).ready
    /\ port' = Tail(port)
    /\ dropped' = dropped \cup ({Head(port).op} \ {Wake})
    /\ UNCHANGED <<queues, awaits, reap, held, pending, pool, heap, expired, work>>

\* handle_completion of the first of a chain issues the second...
GetFirst ==
    LET x == Head(port).op
        next == <<x[1], 2>>
    IN
    /\ Dequeues
    /\ x # Wake /\ Head(port).ready /\ next \in held
    /\ held' = held \ {next}
    /\ Issue(next, awaits[x[1]][2], Tail(port))
    /\ UNCHANGED <<queues, awaits, reap, expired, work, dropped>>

\* ...and of the last forwards the coroutine.
GetLast ==
    LET x == Head(port).op IN
    /\ Dequeues
    /\ x # Wake /\ Head(port).ready /\ <<x[1], 2>> \notin held
    /\ port' = Tail(port)
    /\ reap' = reap - 1
    /\ work' = work - 1
    /\ Awakens(x[1])
    /\ UNCHANGED <<cross, out, ended, stop, waking, held, pending, pool, heap, expired, dropped>>

\* can_stop by a coroutine of the loop.
IocpStopHere == /\ at = "work" /\ ring # <<>> /\ ~stop
                /\ stop' = TRUE
                /\ port' = Append(port, Wakeup)
                /\ UNCHANGED <<at, ring, cross, out, ended, waking, awaits, reap,
                               held, pending, pool, heap, expired, work, dropped>>

\* deinit lets go of what comes back while there is work, for a second at most...
StartDeinit == /\ at = "residue" /\ ring = <<>>
               /\ at' = "closing"
               /\ UNCHANGED <<queues, awaits, reap, iocpVars>>

Discard == /\ at = "closing" /\ work > 0 /\ port # <<>>
           /\ port' = Tail(port)
           /\ work' = IF Head(port) = Wakeup THEN work ELSE work - 1
           /\ UNCHANGED <<at, queues, awaits, reap, held, pending, pool, heap, expired, dropped>>

\* ...and closes the port.  An operation that comes later finds it closed.
IocpDeinit == /\ at = "closing"
              /\ at' = "closed"
              /\ port' = <<>> /\ work' = 0
              /\ UNCHANGED <<queues, awaits, reap, held, pending, pool, heap, expired, dropped>>
-----------------------------------------------------------------------------
(* The other threads, and the kernel.                                       *)

IocpWakeup == /\ waking
              /\ waking' = FALSE
              /\ port' = IF at = "closed" THEN port ELSE Append(port, Wakeup)
              /\ UNCHANGED <<at, ring, cross, out, ended, stop, awaits, reap,
                             held, pending, pool, heap, expired, work, dropped>>

\* The kernel completes an operation, whose ready_ on_pending has set.
KernelPosts(x) == /\ x \in pending
                  /\ pending' = pending \ {x}
                  /\ OnSyncCompletion(x, port)
                  /\ UNCHANGED <<loopVars, held, pool, heap, expired, work, dropped>>

\* A thread of the pool has read or written for c.
PoolPosts(c) == \E x \in pool :
    /\ x[1] = c
    /\ pool' = pool \ {x}
    /\ OnSyncCompletion(x, port)
    /\ UNCHANGED <<loopVars, held, pending, heap, expired, work, dropped>>

\* A unit of time passes, the timer thread being no more than MaxLate behind.
Later(timers) == [i \in DOMAIN timers |-> [timers[i] EXCEPT !.left = @ - 1]]
TimePasses == /\ heap # <<>>
              /\ \A t \in ToSet(heap \o expired) : t.left > 0 - MaxLate
              /\ heap' = Later(heap) /\ expired' = Later(expired)
              /\ UNCHANGED <<loopVars, held, pending, pool, port, work, dropped>>

\* FAULT of Earlier: the timeouts are a queue.
EarlierFifo(i, j) == i < j

\* operator< of entry: by deadline, and by submission among the same.
Earlier(i, j) == heap[i].left < heap[j].left \/ (heap[i].left = heap[j].left /\ i < j)

\* The ways to list all of places.
Listings(places) == Bijection(1..Cardinality(places), places)

\* The timer thread takes every timeout that has expired, and then posts them.
TakeExpired ==
    LET due == {i \in DOMAIN heap : heap[i].left <= 0} IN
    /\ expired = <<>> /\ due # {}
    /\ \E taken \in Listings(due) :
         /\ \A j, k \in DOMAIN taken : j < k => Earlier(taken[j], taken[k])
         /\ expired' = [k \in DOMAIN taken |-> heap[taken[k]]]
    /\ \E kept \in Listings(DOMAIN heap \ due) :
         /\ \A j, k \in DOMAIN kept : j < k => kept[j] < kept[k]
         /\ heap' = [k \in DOMAIN kept |-> heap[kept[k]]]
    /\ UNCHANGED <<loopVars, held, pending, pool, port, work, dropped>>

TimerPosts == /\ expired # <<>>
              /\ OnSyncCompletion(Head(expired).op, port)
              /\ expired' = Tail(expired)
              /\ UNCHANGED <<loopVars, held, pending, pool, heap, work, dropped>>

TimerThread == TimePasses \/ TakeExpired \/ TimerPosts

IocpLoop ==
    \/ (Drain \/ WorkDone("complete") \/ \E c \in Coro : Return(c)) /\ UNCHANGED iocpVars
    \/ \E c \in Coro, e \in IocpExpr : IocpAwait(c, e)
    \/ IocpStopHere
    \/ GetNothing \/ GetFirst \/ GetLast
    \/ StartDeinit \/ Discard \/ IocpDeinit

IocpNext ==
    \/ IocpLoop
    \/ Shared /\ UNCHANGED iocpVars
    \/ IocpWakeup
    \/ \E x \in pending : KernelPosts(x)
    \/ \E c \in Coro : PoolPosts(c)
    \/ TimerThread
-----------------------------------------------------------------------------
\* How many places an operation is in, from issue_io to handle_completion.
IocpInFlight(x) ==
    Cardinality({x} \cap pending) + Cardinality({x} \cap pool)
    + Cardinality({i \in DOMAIN heap : heap[i].op = x})
    + Cardinality({i \in DOMAIN expired : expired[i].op = x})
    + Cardinality({i \in DOMAIN port : port[i].op = x})

IocpTypeOK ==
    /\ LoopTypeOK
    /\ held \cup pending \cup pool \cup dropped \subseteq Coro \X {1, 2}
    /\ \A i \in DOMAIN heap : heap[i].left \in (0 - MaxLate)..2
    /\ work \in Nat
=============================================================================
