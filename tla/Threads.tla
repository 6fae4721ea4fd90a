------------------------------ MODULE Threads ------------------------------
(***************************************************************************)
(* What the coroutine types of the library see of the threads of the       *)
(* io_contexts: each runs one coroutine at a time, resume() nests, and a   *)
(* handle that is posted waits its turn in the queue of its io_context.    *)
(* How a handle travels through the ring, the cross queue and the wakeups  *)
(* is the subject of EventLoop.                                            *)
(***************************************************************************)
EXTENDS Sequences

CONSTANTS Thread       (* the io_contexts, each with its thread            *)

VARIABLES stack,       (* the coroutines a thread is inside, innermost first *)
          queue        (* the handles posted to an io_context              *)

Runs(x, h) == stack[x] # <<>> /\ Head(stack[x]) = h

\* handle.resume() on thread x; the caller goes on when h suspends.
Resume(x, h) == stack' = [stack EXCEPT ![x] = <<h>> \o @]

\* await_suspend returned h: symmetric transfer, h takes the place of the caller.
Transfer(x, h) == stack' = [stack EXCEPT ![x] = <<h>> \o Tail(@)]

\* The running coroutine suspends with no successor.
Leave(x) == stack' = [stack EXCEPT ![x] = Tail(@)]

\* The queues after h has been posted to the io_context of x.
Posted(x, h) == [queue EXCEPT ![x] = Append(@, h)]

\* The loop resumes the handle at the front of its queue.
RunNext(x, h) == /\ stack[x] = <<>>
                 /\ queue[x] # <<>>
                 /\ h = Head(queue[x])
                 /\ queue' = [queue EXCEPT ![x] = Tail(@)]
                 /\ Resume(x, h)
=============================================================================
