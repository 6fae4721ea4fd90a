------------------------------- MODULE Uring -------------------------------
(***************************************************************************)
(* The io_uring backend (io_uring_proactor, io_uring_awaiter and its       *)
(* derived classes, uring_link_io): awaiters that fill an entry of the     *)
(* submission queue when they are constructed, chains that the kernel runs *)
(* by the link flag of the first entry, and the read of an eventfd that is *)
(* kept in flight so that wakeup() ends the wait for completions.          *)
(***************************************************************************)
EXTENDS ProactorLoop

CONSTANTS UringExpr,  (* the expressions that are awaited: one operation, or *)
                      (* two joined by operator&&                            *)
          Entries,    (* the size of the submission queue                   *)
          MaxFail     (* bound: calls of io_uring_enter that fail           *)

\* Operations the kernel may keep until the peer acts, and those it will finish.
PeerKinds == {"recv", "send", "accept", "connect", "recvfrom", "sendto"}
PromptKinds == {"close", "shutdown", "read", "write", "openat", "nop", "yield", "timeout"}

ASSUME UringAssumption ==
    /\ Entries \in Nat \ {0} /\ MaxFail \in Nat
    /\ \A e \in UringExpr : e \in Seq(PeerKinds \cup PromptKinds) /\ Len(e) \in 1..2

VARIABLES sq,        (* the entries not submitted, in order                 *)
          toSubmit,  (* requests_to_submit                                  *)
          kern,      (* the entries the kernel has                          *)
          cq,        (* the completion queue                                *)
          efd,       (* the eventfd has been written to                     *)
          fails      (* the calls that have failed                          *)

uringVars == <<sq, toSubmit, kern, cq, efd, fails>>
device == <<kern, cq, efd, fails>>

\* An entry points at an awaiter, <<c, 1>> or <<c, 2>>.
Entry(x) == [op |-> x, link |-> FALSE]

\* The kernel has the read of the eventfd once the ring is initialised.
UringInit ==
    /\ sq = <<>> /\ toSubmit = 0 /\ kern = {Entry(Wake)} /\ cq = <<>>
    /\ efd = FALSE /\ fails = 0
-----------------------------------------------------------------------------
\* FAULT of Linked: the flag is not set.
Unlinked(entries) == entries

\* operator&&: the link flag of the first of two.
Linked(entries) == IF Len(entries) = 2 THEN [entries EXCEPT ![1].link = TRUE] ELSE entries

\* The coroutine c constructs the awaiters of an expression, each with an entry
\* from get_sq_entry, which may give a null pointer, and suspends.
UringAwait(c, expression) ==
    LET entries == [k \in DOMAIN expression |-> Entry(<<c, k>>)] IN
    /\ Resumes(c)
    /\ IF Len(sq) + Len(entries) > Entries
       THEN at' = "undefined" /\ UNCHANGED <<cross, out, ended, stop, waking, awaits, reap, uringVars>>
       ELSE /\ sq' = sq \o Linked(entries)
            /\ awaits' = [awaits EXCEPT ![c] = expression]
            /\ reap' = reap + Len(entries)
            /\ toSubmit' = toSubmit + Len(entries)
            /\ UNCHANGED <<at, cross, out, ended, stop, waking, device>>
-----------------------------------------------------------------------------
\* FAULT of Submits: entries that a failed call has not taken are forgotten.
SubmitsOnce(entries) ==
    \/ kern' = kern \cup ToSet(entries) /\ sq' = <<>> /\ UNCHANGED fails
    \/ fails < MaxFail /\ fails' = fails + 1 /\ sq' = <<>> /\ UNCHANGED kern

\* submit: the kernel takes the entries, or the call fails and they stay.
Submits(entries) ==
    \/ kern' = kern \cup ToSet(entries) /\ sq' = <<>> /\ UNCHANGED fails
    \/ fails < MaxFail /\ fails' = fails + 1 /\ sq' = entries /\ UNCHANGED kern

\* poll_submission forgets the count even when the call fails.
PollSubmission ==
    /\ at = "submit"
    /\ at' = "complete"
    /\ toSubmit' = 0
    /\ IF toSubmit # 0 THEN Submits(sq) ELSE UNCHANGED <<sq, kern, fails>>
    /\ UNCHANGED <<queues, awaits, reap, cq, efd>>

\* do_completion_part does not wait once the loop is to stop.
DoCompletion == /\ at = "complete"
                /\ at' = IF stop THEN "drain" ELSE "wait"
                /\ UNCHANGED <<queues, awaits, reap, uringVars>>

\* wait_completion without a completion: submit(true).  It comes back when
\* there is one, or fails, and wait_completion returns 0.
WaitSubmit ==
    /\ at = "wait" /\ cq = <<>>
    /\ Submits(sq)
    /\ kern' # kern \/ fails' # fails
    /\ at' = IF fails' # fails THEN "drain" ELSE at
    /\ UNCHANGED <<queues, awaits, reap, toSubmit, cq, efd>>

\* wait_completion takes the eventfd's completion and arms it again, which
\* submits, unless there is no entry left for it.
TakeWake ==
    /\ at = "wait" /\ cq # <<>> /\ Head(cq) = Wake
    /\ cq' = Tail(cq)
    /\ IF Len(sq) < Entries
       THEN Submits(Append(sq, Entry(Wake)))
       ELSE UNCHANGED <<sq, kern, fails>>
    /\ at' = "drain"
    /\ UNCHANGED <<queues, awaits, reap, toSubmit, efd>>

\* Or another one, for handle_completion: that of the first of a chain has no
\* handle.
TakeCompletion ==
    LET x == Head(cq)
        c == x[1]
    IN  /\ at = "wait" /\ cq # <<>> /\ x # Wake
        /\ cq' = Tail(cq)
        /\ at' = "drain"
        /\ reap' = reap - 1
        /\ IF x[2] = Len(awaits[c]) THEN Awakens(c) ELSE UNCHANGED <<ring, awaits>>
        /\ UNCHANGED <<cross, out, ended, stop, waking, sq, toSubmit, kern, efd, fails>>

\* write to the eventfd.
UringWakeup == /\ waking
               /\ waking' = FALSE
               /\ efd' = TRUE
               /\ UNCHANGED <<at, ring, cross, out, ended, stop, awaits, reap, sq, toSubmit,
                              kern, cq, fails>>

\* can_stop by a coroutine of the loop.
UringStopHere == /\ at = "work" /\ ring # <<>> /\ ~stop
                 /\ stop' = TRUE
                 /\ efd' = TRUE
                 /\ UNCHANGED <<at, ring, cross, out, ended, waking, awaits, reap, sq,
                                toSubmit, kern, cq, fails>>

\* deinit closes the eventfd and the ring.
UringDeinit == /\ at = "residue" /\ ring = <<>>
               /\ at' = "closed"
               /\ sq' = <<>> /\ kern' = {} /\ cq' = <<>>
               /\ UNCHANGED <<queues, awaits, reap, toSubmit, efd, fails>>
-----------------------------------------------------------------------------
(* The kernel.                                                              *)

Follower(e) == {d \in kern : e.link /\ d.op = <<e.op[1], 2>>}
Started(e) == \A d \in kern : e \notin Follower(d)

\* An operation completes.  When it fails the one linked to it is cancelled.
KernelCompletes(e, ok) ==
    LET c == e.op[1]
        cancelled == IF ok THEN {} ELSE Follower(e)
    IN  /\ e \in kern /\ e.op # Wake /\ Started(e)
        /\ kern' = kern \ ({e} \cup cancelled)
        /\ cq' = cq \o <<e.op>> \o [i \in 1..Cardinality(cancelled) |-> <<c, 2>>]
        /\ UNCHANGED <<loopVars, sq, toSubmit, efd, fails>>

\* The read of the eventfd; with EFD_NONBLOCK it may also complete with EAGAIN.
KernelWakes == /\ Entry(Wake) \in kern
               /\ kern' = kern \ {Entry(Wake)}
               /\ cq' = Append(cq, Wake)
               /\ efd' = FALSE
               /\ UNCHANGED <<loopVars, sq, toSubmit, fails>>

UringLoop ==
    \/ (Drain \/ WorkDone("submit") \/ \E c \in Coro : Return(c)) /\ UNCHANGED uringVars
    \/ \E c \in Coro, e \in UringExpr : UringAwait(c, e)
    \/ UringStopHere
    \/ PollSubmission \/ DoCompletion \/ WaitSubmit \/ TakeWake \/ TakeCompletion
    \/ UringDeinit

\* The kernel finishes an operation of c that depends on nobody.
UringFinishes(c) == \E e \in kern : /\ e.op \in {<<c, 1>>, <<c, 2>>}
                                    /\ awaits[c][e.op[2]] \in PromptKinds
                                    /\ \E ok \in BOOLEAN : KernelCompletes(e, ok)

UringNext ==
    \/ UringLoop
    \/ Shared /\ UNCHANGED uringVars
    \/ UringWakeup
    \/ \E e \in kern, ok \in BOOLEAN : KernelCompletes(e, ok)
    \/ KernelWakes
-----------------------------------------------------------------------------
\* How many places an entry is in, from its awaiter's construction to
\* handle_completion.
UringInFlight(x) ==
    Cardinality({e \in kern : e.op = x})
    + Cardinality({i \in DOMAIN sq : sq[i].op = x})
    + Cardinality({i \in DOMAIN cq : cq[i] = x})

UringTypeOK ==
    /\ LoopTypeOK
    /\ Len(sq) <= Entries /\ toSubmit \in Nat /\ efd \in BOOLEAN
    /\ \A i \in DOMAIN sq : sq[i].op = Wake \/ sq[i].op \in Coro \X {1, 2}
    /\ fails \in 0..MaxFail
=============================================================================
