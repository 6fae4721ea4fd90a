------------------------------- MODULE FifoLock -------------------------------
(***************************************************************************)
(* What coronet::mutex promises, and nothing of how: one owner at a time,  *)
(* waiters served in the order in which they joined the queue, and a lock  *)
(* that is handed directly from its owner to the first waiter, so that no  *)
(* newcomer can take it past the queue.                                    *)
(***************************************************************************)
EXTENDS Naturals, Sequences

CONSTANTS Client,   (* whoever may own the lock             *)
          NoOwner   (* the owner of a lock that nobody holds *)

VARIABLES owner,    (* the holder, or NoOwner               *)
          queue     (* the waiters, the next to be served first *)

lockVars == <<owner, queue>>

LockInit == /\ owner = NoOwner
            /\ queue = <<>>

\* A free lock is taken: by lock() on its fast path, or by try_lock().
Take(c) == /\ owner = NoOwner
           /\ queue = <<>>
           /\ owner' = c
           /\ UNCHANGED queue

\* lock() on a lock that is held: the client joins the end of the queue.  A
\* condition variable may queue its waiter while the waiter still unlocks.
Join(c) == /\ owner # NoOwner
           /\ \A i \in 1..Len(queue) : queue[i] # c
           /\ queue' = Append(queue, c)
           /\ UNCHANGED owner

\* unlock() with nobody waiting.
Free == /\ owner # NoOwner
        /\ queue = <<>>
        /\ owner' = NoOwner
        /\ UNCHANGED queue

\* unlock() with somebody waiting: the first waiter becomes the owner.
HandOff == /\ owner # NoOwner
           /\ queue # <<>>
           /\ owner' = Head(queue)
           /\ queue' = Tail(queue)

LockNext == \/ \E c \in Client : Take(c) \/ Join(c)
            \/ Free
            \/ HandOff

LockSpec == LockInit /\ [][LockNext]_lockVars
=============================================================================
