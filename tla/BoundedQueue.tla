----------------------------- MODULE BoundedQueue -----------------------------
(***************************************************************************)
(* What a channel<T, capacity> promises, and nothing of how: items come    *)
(* out once each, in the order in which they went in, and at most capacity *)
(* of them are inside.                                                     *)
(***************************************************************************)
EXTENDS Naturals, Sequences

CONSTANTS Client,    (* whoever uses the queue                  *)
          Item,      (* what goes through it                    *)
          NoItem,    (* the value of a client that has no item  *)
          Capacity   (* the most items inside                   *)

VARIABLES queue,     (* the items inside, the first in first    *)
          value      (* the item a client offers or has got     *)

queueVars == <<queue, value>>

QueueInit == /\ queue = <<>>
             /\ value = [c \in Client |-> NoItem]

\* A client makes up its mind what to put, or is done with what it got.
Choose(c, v) == /\ value' = [value EXCEPT ![c] = v]
                /\ UNCHANGED queue

Put(c) == /\ Len(queue) < Capacity
          /\ value[c] # NoItem
          /\ queue' = Append(queue, value[c])
          /\ value' = [value EXCEPT ![c] = NoItem]

Get(c) == /\ queue # <<>>
          /\ value' = [value EXCEPT ![c] = Head(queue)]
          /\ queue' = Tail(queue)

Discard == /\ queue # <<>>
           /\ queue' = Tail(queue)
           /\ UNCHANGED value

QueueNext == \/ \E c \in Client : \/ Put(c) \/ Get(c)
                                  \/ \E v \in Item \cup {NoItem} : value[c] = NoItem /\ Choose(c, v)
                                  \/ value[c] # NoItem /\ Choose(c, NoItem)
             \/ Discard

QueueSpec == QueueInit /\ [][QueueNext]_queueVars
=============================================================================
