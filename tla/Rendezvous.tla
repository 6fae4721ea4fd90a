------------------------------ MODULE Rendezvous ------------------------------
(***************************************************************************)
(* coronet::channel<T, 0> (channel.hpp): one place for an item, and a      *)
(* sender that waits until its item has been taken.  The sender waits on   *)
(* acquired_cv_ after it has unlocked the mutex, and waiting unlocks it    *)
(* once more.  Unlocking a mutex that is free fails the assertion of       *)
(* mutex::unlock and dereferences not_locked in a build without it: there  *)
(* undefined is set and the model stops.                                   *)
(***************************************************************************)
EXTENDS CondVar

CONSTANTS Released,  (* release_cv_                   *)
          Acquired,  (* acquired_cv_                  *)
          Item,      (* what goes through the channel *)
          NoItem     (* raw memory                    *)

VARIABLES
    stored,      (* stored_buf_                                             *)
    released,    (* released_                                               *)
    doing,       (* the part of an operation each coroutine is in           *)
    item         (* the item it releases, or has acquired                   *)

place == <<stored, released>>
rendezvousVars == <<cvVars, place, doing, item>>
-----------------------------------------------------------------------------
Sender == Notifier[Released]
Receiver == Notifier[Acquired]

RendezvousInit == /\ CvInit
                  /\ stored = NoItem
                  /\ released = FALSE
                  /\ doing = [c \in Coro |-> "nothing"]
                  /\ item = [c \in Coro |-> NoItem]

Doing(c, what) == Idle(c) /\ doing[c] = what

Enter(c) == Resume(c) /\ UNCHANGED <<place, doing, item>>
Leave(c) == doing[c] = "nothing" /\ Yield(c) /\ UNCHANGED <<place, doing, item>>

\* co_await mtx_.lock().
Begin(c, what, v) == /\ doing[c] = "nothing"
                     /\ Lock(c)
                     /\ doing' = [doing EXCEPT ![c] = what]
                     /\ item' = [item EXCEPT ![c] = v]
                     /\ UNCHANGED place

\* unlock(), by whoever: of a mutex that is free it is undefined.
UnlockAny == \/ /\ GiveUp
                /\ UNCHANGED undefined
             \/ /\ owner = NoCoro
                /\ undefined' = TRUE
                /\ UNCHANGED <<mutex, ready>>

\* acquire waits until released_...
AwaitReleased(c) == /\ Doing(c, "acquire")
                    /\ ~released
                    /\ Wait(c, Released)
                    /\ UNCHANGED <<place, doing, item>>

\* ...moves the item out, and unlocks...
Acquire(c) == /\ Doing(c, "acquire")
              /\ released
              /\ item' = [item EXCEPT ![c] = stored]
              /\ stored' = NoItem
              /\ released' = FALSE
              /\ UnlockAny
              /\ doing' = [doing EXCEPT ![c] = "notify acquired"]
              /\ UNCHANGED <<lists, op, current>>

\* ...release constructs the item, whatever is there, and unlocks...
Release(c) == /\ Doing(c, "release")
              /\ stored' = item[c]
              /\ released' = TRUE
              /\ UnlockAny
              /\ doing' = [doing EXCEPT ![c] = "notify released"]
              /\ UNCHANGED <<lists, op, current, item>>

\* ...and each notifies the other.
NotifyOther(c) == /\ \/ /\ doing[c] = "notify acquired"
                        /\ NotifyOne(c, Acquired)
                        /\ doing' = [doing EXCEPT ![c] = "nothing"]
                     \/ /\ doing[c] = "notify released"
                        /\ NotifyOne(c, Released)
                        /\ doing' = [doing EXCEPT ![c] = "handshake"]
                  /\ item' = [item EXCEPT ![c] = NoItem]
                  /\ UNCHANGED place

\* The sender looks whether its item is gone, and waits, without the mutex.
AwaitAcquired(c) == /\ Doing(c, "handshake")
                    /\ released
                    /\ Wait(c, Acquired)
                    /\ UNCHANGED <<place, doing, item>>

Finish(c) == /\ Doing(c, "handshake")
             /\ ~released
             /\ doing' = [doing EXCEPT ![c] = "nothing"]
             /\ UNCHANGED <<cvVars, place, item>>

Proceed(c) == Continue(c) /\ UNCHANGED <<place, doing, item>>

\* A sender that waits unlocks a mutex that is free.
UnlockFree(c) == /\ Runs(c)
                 /\ at[c] = "unlock"
                 /\ owner = NoCoro
                 /\ undefined' = TRUE
                 /\ UNCHANGED <<mutex, lists, op, ready, current, place, doing, item>>

RendezvousNext ==
    \E c \in Coro : \/ Enter(c) \/ Leave(c)
                    \/ c \in Receiver /\ Begin(c, "acquire", NoItem)
                    \/ c \in Sender /\ \E v \in Item : Begin(c, "release", v)
                    \/ AwaitReleased(c) \/ Acquire(c) \/ Release(c)
                    \/ AwaitAcquired(c) \/ Finish(c)
                    \/ NotifyOther(c) \/ Proceed(c) \/ UnlockFree(c)

RendezvousSpec == RendezvousInit /\ [][RendezvousNext]_rendezvousVars
-----------------------------------------------------------------------------
(* What an assertion says and the code does not do.                         *)

\* mutex.cpp: unlock finds the mutex locked.
UnlocksLocked == ~undefined
=============================================================================
