-------------------------------- MODULE Channel --------------------------------
(***************************************************************************)
(* coronet::channel<T, capacity> (channel.hpp) with a capacity of one or   *)
(* more: a ring of items under a mutex, and the condition variables        *)
(* not_empty_cv_ and not_full_cv_.  channel<T, 1> keeps its one slot in an *)
(* optional, which is a ring of one.  Whoever releases notifies NotEmpty,  *)
(* whoever acquires or drops notifies NotFull.                             *)
(***************************************************************************)
EXTENDS CondVar

CONSTANTS NotEmpty,  (* not_empty_cv_                 *)
          NotFull,   (* not_full_cv_                  *)
          Capacity,  (* capacity                      *)
          Item,      (* what goes through the channel *)
          NoItem     (* raw memory                    *)

ASSUME ChannelAssumption == /\ Cv = {NotEmpty, NotFull} /\ NotEmpty # NotFull
                            /\ Capacity \in Nat \ {0}
                            /\ NoItem \notin Item

VARIABLES
    buf,         (* buf_                                                    *)
    first,       (* first_, as an index                                     *)
    last,        (* last_, as an index                                      *)
    size,        (* size_                                                   *)
    doing,       (* the operation each coroutine is in                      *)
    item         (* the item it releases, or has acquired                   *)

ring == <<buf, first, last, size>>
channelVars == <<cvVars, ring, doing, item>>
-----------------------------------------------------------------------------
Producer == Notifier[NotEmpty]
Consumer == Notifier[NotFull]

Slot == 0..(Capacity - 1)
Operation == {"nothing", "acquire", "drop", "release", "notify not full", "notify not empty"}

ChannelInit == /\ CvInit
               /\ buf = [s \in Slot |-> NoItem]
               /\ first = 0 /\ last = 0 /\ size = 0
               /\ doing = [c \in Coro |-> "nothing"]
               /\ item = [c \in Coro |-> NoItem]

\* A coroutine that does not use the channel runs, or lets others run.
Enter(c) == Resume(c) /\ UNCHANGED <<ring, doing, item>>
Leave(c) == doing[c] = "nothing" /\ Yield(c) /\ UNCHANGED <<ring, doing, item>>

\* An operation begins: co_await mtx_.lock().
Begin(c, what, v) == /\ doing[c] = "nothing"
                     /\ Lock(c)
                     /\ doing' = [doing EXCEPT ![c] = what]
                     /\ item' = [item EXCEPT ![c] = v]
                     /\ UNCHANGED ring

Holds(c, what) == Idle(c) /\ owner = c /\ doing[c] = what

Empty == size = 0
\* FAULT of Full: one item too many.
FullLate == size > Capacity
Full == size = Capacity

\* Nothing to take, or no room: wait(mtx_, predicate) waits until there is.
AwaitItem(c) == /\ Holds(c, "acquire") \/ Holds(c, "drop")
                /\ Empty
                /\ Wait(c, NotEmpty)
                /\ UNCHANGED <<ring, doing, item>>

AwaitRoom(c) == /\ Holds(c, "release")
                /\ Full
                /\ Wait(c, NotFull)
                /\ UNCHANGED <<ring, doing, item>>

Wrap(s) == IF s >= Capacity THEN s - Capacity ELSE s

\* The item is destroyed, and pop_one.
PopOne == /\ buf' = [buf EXCEPT ![first] = NoItem]
          /\ first' = Wrap(first + 1)
          /\ size' = size - 1
          /\ UNCHANGED last

\* FAULT of PushOne: last_ runs past the end.
PushOneOn(v) == /\ buf' = [buf EXCEPT ![last] = v]
                /\ last' = last + 1
                /\ size' = size + 1
                /\ UNCHANGED first

\* An item is constructed, and push_one.
PushOne(v) == /\ buf' = [buf EXCEPT ![last] = v]
              /\ last' = Wrap(last + 1)
              /\ size' = size + 1
              /\ UNCHANGED first

\* The first item leaves the ring, and the mutex is unlocked.
Acquire(c) == /\ Holds(c, "acquire")
              /\ ~Empty
              /\ item' = [item EXCEPT ![c] = buf[first]]
              /\ PopOne
              /\ Unlock(c)
              /\ doing' = [doing EXCEPT ![c] = "notify not full"]

\* FAULT of Drop: the producers are not notified.
DropSilent(c) == /\ Holds(c, "drop")
                 /\ ~Empty
                 /\ PopOne
                 /\ Unlock(c)
                 /\ doing' = [doing EXCEPT ![c] = "nothing"]
                 /\ UNCHANGED item

Drop(c) == /\ Holds(c, "drop")
           /\ ~Empty
           /\ PopOne
           /\ Unlock(c)
           /\ doing' = [doing EXCEPT ![c] = "notify not full"]
           /\ UNCHANGED item

\* An item enters it, and the mutex is unlocked.
Release(c) == /\ Holds(c, "release")
              /\ ~Full
              /\ PushOne(item[c])
              /\ Unlock(c)
              /\ doing' = [doing EXCEPT ![c] = "notify not empty"]
              /\ item' = [item EXCEPT ![c] = NoItem]

\* Then the other side is notified.
NotifyOther(c) == /\ \/ doing[c] = "notify not full" /\ NotifyOne(c, NotFull)
                     \/ doing[c] = "notify not empty" /\ NotifyOne(c, NotEmpty)
                  /\ doing' = [doing EXCEPT ![c] = "nothing"]
                  /\ item' = [item EXCEPT ![c] = NoItem]
                  /\ UNCHANGED ring

Notify(c) == Continue(c) /\ UNCHANGED <<ring, doing, item>>

ChannelNext ==
    \E c \in Coro : \/ Enter(c) \/ Leave(c)
                    \/ c \in Consumer /\ (Begin(c, "acquire", NoItem) \/ Begin(c, "drop", NoItem))
                    \/ c \in Producer /\ \E v \in Item : Begin(c, "release", v)
                    \/ AwaitItem(c) \/ AwaitRoom(c)
                    \/ Acquire(c) \/ Drop(c) \/ Release(c)
                    \/ NotifyOther(c) \/ Notify(c)

ChannelSpec == ChannelInit /\ [][ChannelNext]_channelVars
-----------------------------------------------------------------------------
ChannelTypeOK == /\ TypeOK
                 /\ buf \in [Slot -> Item \cup {NoItem}]
                 /\ first \in Slot /\ last \in Slot
                 /\ size \in 0..Capacity
                 /\ doing \in [Coro -> Operation]
                 /\ item \in [Coro -> Item \cup {NoItem}]

\* The items in the ring, the first in first.
Items == [k \in 1..size |-> buf[Wrap(first + k - 1)]]

Queue == INSTANCE BoundedQueue WITH Client <- Coro, queue <- Items, value <- item

\* The channel is a queue of bounded length, whatever the condition variables
\* do: an item comes out once, in its turn, whole, and none is overwritten.
ImplementsBoundedQueue == Queue!QueueSpec

\* Nobody is about to do anything: a coroutine uses no channel, or sleeps.
Quiet == \A c \in Coro : \/ at[c] = "out" /\ doing[c] = "nothing"
                         \/ at[c] \in {"locking", "asleep"} /\ c \notin ready

SleepsOn(v) == \E c \in Coro : at[c] = "asleep" /\ on[c] = v

\* Then nobody sleeps for an item that is there, for room that is there, or for
\* the mutex.
Satisfied == Quiet => /\ SleepsOn(NotEmpty) => Empty
                      /\ SleepsOn(NotFull) => Full
                      /\ owner = NoCoro /\ lockQueue = <<>>

\* Releases of one thread and acquires of one thread never leave anybody asleep
\* for what is there: a notification that finds nobody has nobody to wake, and
\* one that an overtaken waiter gets is made up for by whoever overtook it.
NobodyForgotten == ChannelTypeOK /\ (OneNotifyingThread => Satisfied)
-----------------------------------------------------------------------------
(* What a comment promises and the code does not do.                        *)

\* channel.hpp: whoever waits for an item or for room is resumed when there is.
WokenWhenAvailable == Satisfied
=============================================================================
