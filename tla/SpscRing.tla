------------------------------ MODULE SpscRing ------------------------------
(***************************************************************************)
(* reap_swap, the ring of coroutines that are ready to go on, and its      *)
(* cursors reap_cur (spsc_cursor): two counters that only ever grow, and   *)
(* wrap around where their type ends.  EventLoop takes the ring for a      *)
(* sequence; here is why it may.                                           *)
(***************************************************************************)
EXTENDS Naturals, Sequences

CONSTANTS Handle,       (* the coroutines                                   *)
          NoHandle,     (* nullptr                                          *)
          Bits,         (* the width of cur_t, 32                           *)
          SwapCapacity  (* swap_capacity, 16384                             *)

\* The static_assert of spsc_cursor, and what cur_t(-1) as "none" needs; and what
\* follows for the mask from the first two, as the provers know nothing of powers.
ASSUME RingAssumption == /\ Bits \in Nat
                         /\ \E b \in 0..Bits - 1 : SwapCapacity = 2^b
                         /\ NoHandle \notin Handle
                         /\ 2^Bits \in Nat /\ SwapCapacity \in Nat \ {0}
                         /\ SwapCapacity < 2^Bits /\ 2^Bits % SwapCapacity = 0

VARIABLES head_, tail_,
          reap_swap,    (* what each slot was last given                    *)
          offered       (* what the worker is to forward, and what schedule
                           has given it                                     *)

ringVars == <<head_, tail_, reap_swap, offered>>

Side == {"forward", "schedule"}

RingInit == /\ head_ = 0 /\ tail_ = 0
            /\ reap_swap = [s \in 0..SwapCapacity - 1 |-> NoHandle]
            /\ offered = [side \in Side |-> NoHandle]

\* The arithmetic of cur_t, and the mask that makes a slot of a cursor.
Successor(i) == (i + 1) % 2^Bits
Minus(i, j) == (i + 2^Bits - j) % 2^Bits
Slot(i) == i % SwapCapacity

Size == Minus(tail_, head_)

\* FAULT of Full: the last slot is thought to be there to tell full from empty.
FullEarly == Size >= SwapCapacity - 1

\* FAULT of Full: the sum wraps, and the difference does not.
FullSum == tail_ >= head_ + SwapCapacity

Full == Size >= SwapCapacity

Offer(side, h) == offered' = [offered EXCEPT ![side] = h]

\* A coroutine is ready to go on.
Readied(h) == /\ offered["forward"] = NoHandle
            /\ Offer("forward", h)
            /\ UNCHANGED <<head_, tail_, reap_swap>>

\* forward_task
Push == /\ offered["forward"] # NoHandle /\ ~Full
        /\ reap_swap' = [reap_swap EXCEPT ![Slot(tail_)] = offered["forward"]]
        /\ tail_' = Successor(tail_)
        /\ Offer("forward", NoHandle)
        /\ UNCHANGED head_

\* push has returned cur_t(-1), and the handle goes to cross_queue.
Overflow == /\ offered["forward"] # NoHandle /\ Full
            /\ Offer("forward", NoHandle)
            /\ UNCHANGED <<head_, tail_, reap_swap>>

\* schedule
Pop == /\ offered["schedule"] = NoHandle /\ head_ # tail_
       /\ Offer("schedule", reap_swap[Slot(head_)])
       /\ head_' = Successor(head_)
       /\ UNCHANGED <<tail_, reap_swap>>

\* The coroutine runs until it suspends.
Resumed == /\ offered["schedule"] # NoHandle
           /\ Offer("schedule", NoHandle)
           /\ UNCHANGED <<head_, tail_, reap_swap>>

RingNext == (\E h \in Handle : Readied(h)) \/ Push \/ Overflow \/ Pop \/ Resumed

RingSpec == RingInit /\ [][RingNext]_ringVars
-----------------------------------------------------------------------------
Contents == [i \in 1..Size |-> reap_swap[Slot((head_ + i - 1) % 2^Bits)]]

Queue == INSTANCE BoundedQueue
             WITH Client <- Side, Item <- Handle, NoItem <- NoHandle,
                  Capacity <- SwapCapacity, queue <- Contents, value <- offered

\* The ring is a queue of SwapCapacity handles, wherever its cursors stand and
\* across the end of their type, and it turns a handle away only when it is full.
RingIsQueue ==
    /\ Queue!QueueSpec
    /\ [][ /\ offered["forward"] # NoHandle /\ offered'["forward"] = NoHandle
           /\ tail_' = tail_
           => Len(Contents) = SwapCapacity ]_ringVars
=============================================================================
