-------------------------------- MODULE Task --------------------------------
(***************************************************************************)
(* task<T>, task<void> and trivial_task (task.hpp, trivial_task.hpp): lazy *)
(* coroutines, the object that owns each frame, the chain of those that    *)
(* await one another, and the frames' memory with its per-thread pools.    *)
(*                                                                         *)
(* A frame is the memory of a coroutine and the coroutine in it.  Bodies   *)
(* are arbitrary: a running coroutine makes tasks, hands them on, awaits   *)
(* or drops them, gives one away with co_spawn, suspends on something else,*)
(* returns or throws.  Only the owner of a task awaits it, once, which is  *)
(* what task's move-only type is for.                                      *)
(***************************************************************************)
EXTENDS Threads, Naturals, FiniteSets, SequencesExt

CONSTANTS Frame,       (* the blocks of memory frames are made of           *)
          SizeOf,      (* the size of each block                            *)
          Overaligned, (* the sizes operator new(size, align_val_t) is for  *)
          PoolSlots,   (* kSlots                                            *)
          Main,        (* a thread that is not an io_context's              *)
          Noop         (* std::noop_coroutine(), and no owner               *)

ASSUME FrameAssumption == IsFiniteSet(Frame) /\ Noop \notin Frame /\ Main \notin Thread
ASSUME PoolAssumption == PoolSlots \in Nat

VARIABLES fr,    (* per frame: where it is, its promise and who owns it     *)
          pool,  (* per thread: the slots of its frame_pool                 *)
          got    (* per frame: what its last co_await of a task returned    *)

taskVars == <<stack, queue, fr, pool, got>>

Kind == {"value", "void", "trivial"}      (* task<T>, task<void>, trivial_task *)
Suspended == {"initial", "await", "parked", "woken", "final"}
Place == {"heap", "pool", "run"} \cup Suspended
Live == {f \in Frame : fr[f].at \in Suspended \cup {"run"}}

Unused(place) == [at |-> place, kind |-> "void", parent |-> Noop, owner |-> Noop,
                  detached |-> FALSE, result |-> "mono", on |-> Main]
-----------------------------------------------------------------------------
\* operator new and operator delete of task_promise_base.

Fitting(slots, size) == {i \in 1..Len(slots) : SizeOf[slots[i]] = size}
FirstFit(slots, size) ==
    CHOOSE i \in Fitting(slots, size) : \A j \in Fitting(slots, size) : i <= j
\* FAULT of Taken: the last slot goes, whichever block was found.
TakenLast(slots, i) == SubSeq(slots, 1, Len(slots) - 1)

\* The last slot fills the gap.
Taken(slots, i) == SubSeq([slots EXCEPT ![i] = slots[Len(slots)]], 1, Len(slots) - 1)

\* Of the blocks s, as many are kept as there is room for.
Kept(slots, s) == LET room == PoolSlots - Len(slots)
                  IN  slots \o SubSeq(s, 1, IF room < Len(s) THEN room ELSE Len(s))

\* Frames of trivial_task and overaligned frames do not use the pool.
Pools(k, size) == k # "trivial" /\ size \notin Overaligned

\* f is a block that operator new may return on thread x, and the slots it leaves.
FromPool(x, f, k) == Pools(k, SizeOf[f]) /\ Fitting(pool[x], SizeOf[f]) # {}
Allocates(x, f, k) == IF FromPool(x, f, k) THEN f = pool[x][FirstFit(pool[x], SizeOf[f])]
                                           ELSE fr[f].at = "heap"
Remaining(x, f, k) == IF FromPool(x, f, k) THEN Taken(pool[x], FirstFit(pool[x], SizeOf[f]))
                                           ELSE pool[x]

\* The frames destroyed with f: those of the tasks it holds, and of theirs.
Tree(f) == {g \in Frame : \A S \in SUBSET Frame :
                f \in S /\ (\A h \in Frame : fr[h].owner \in S => h \in S) => g \in S}

\* They go to the pool of x, those that use it, or to the heap.
Freed(x, gone) ==
    LET pooled == {g \in gone : Pools(fr[g].kind, SizeOf[g])}
        slots  == Kept(pool[x], SetToSeq(pooled))
    IN  /\ pool' = [pool EXCEPT ![x] = slots]
        /\ fr' = [f \in Frame |-> IF f \notin gone THEN fr[f]
                                  ELSE Unused(IF f \in ToSet(slots) THEN "pool" ELSE "heap")]
-----------------------------------------------------------------------------
TaskInit ==
    /\ stack = [x \in Thread |-> <<>>]
    /\ queue = [x \in Thread |-> <<>>]
    /\ fr = [f \in Frame |-> Unused("heap")]
    /\ pool = [x \in Thread \cup {Main} |-> <<>>]
    /\ got = [f \in Frame |-> "nothing"]

\* A call of a coroutine function: the frame, its promise, and the task
\* returned to h before the body runs.
Call(x, h) ==
    \E f \in Frame, k \in Kind :
        /\ Allocates(x, f, k)
        /\ pool' = [pool EXCEPT ![x] = Remaining(x, f, k)]
        /\ fr' = [fr EXCEPT ![f] = [Unused("initial") EXCEPT !.kind = k, !.owner = h]]
        /\ UNCHANGED <<stack, queue, got>>

\* The tasks that h may still await, or drop.
Holds(h, c) == fr[c].owner = h /\ fr[c].at \in {"initial", "final"}

\* task(task &&): a task not awaited yet becomes an argument of another.
Give(h, c, g) ==
    /\ Holds(h, c) /\ Holds(h, g) /\ c # g
    /\ fr[c].at = "initial" /\ fr[g].at = "initial"
    /\ fr' = [fr EXCEPT ![c].owner = g]
    /\ UNCHANGED <<stack, queue, pool, got>>

\* ~task, and operator= of a task that holds a frame.
Drop(x, h, c) == /\ Holds(h, c)
                 /\ Freed(x, Tree(c))
                 /\ UNCHANGED <<stack, queue, got>>

\* result(): the value, the exception again, or terminate.
Result(p) == CASE p.result = "exception" -> "exception"
               [] p.kind # "value" \/ p.result = "value" -> "value"
               [] OTHER -> "terminate"

\* co_await of a task that is done does not suspend; a trivial_task is never
\* ready, so that one is awaited only once.
AwaitDone(h, c) ==
    /\ Holds(h, c)
    /\ fr[c].at = "final" /\ fr[c].kind # "trivial"
    /\ got' = [got EXCEPT ![h] = Result(fr[c])]
    /\ UNCHANGED <<stack, queue, fr, pool>>

\* FAULT of Promised: the task does not learn who awaits it.
PromisedOrphan(h, c) == [fr EXCEPT ![c].at = "run", ![h].at = "await"]

\* set_parent, and the handover.
Promised(h, c) == [fr EXCEPT ![c].parent = h, ![c].at = "run", ![h].at = "await"]

\* Else the awaiting coroutine becomes the task's parent, and the task runs in
\* its place.
Await(x, h, c) ==
    /\ Holds(h, c)
    /\ fr[c].at = "initial"
    /\ fr' = Promised(h, c)
    /\ Transfer(x, c)
    /\ UNCHANGED <<queue, pool, got>>

\* The promise once the body has ended with v: return_value, return_void or
\* unhandled_exception, which a trivial_task swallows.
Ended(h, v) ==
    [fr[h] EXCEPT !.at = "final",
                  !.result = IF fr[h].kind = "value" \/ (fr[h].kind = "void" /\ v = "exception")
                             THEN v ELSE "mono"]

\* final_suspend of a detached task does not suspend: the frame is destroyed,
\* with the tasks it holds, whatever the result.
EndDetached(x, h) ==
    /\ fr[h].detached
    /\ Freed(x, Tree(h))
    /\ Leave(x)
    /\ UNCHANGED <<queue, got>>

\* That of any other task transfers to the parent, which reads the result.
EndTask(x, h, v) ==
    LET p == fr[h].parent
        ended == [fr EXCEPT ![h] = Ended(h, v)]
    IN  /\ ~fr[h].detached /\ fr[h].kind # "trivial"
        /\ IF p = Noop
           THEN fr' = ended /\ Leave(x) /\ UNCHANGED got
           ELSE /\ fr' = [ended EXCEPT ![p].at = "run"]
                /\ Transfer(x, p)
                /\ got' = [got EXCEPT ![p] = Result(Ended(h, v))]
        /\ UNCHANGED <<queue, pool>>

\* That of a trivial_task posts the parent to the thread's io_context.
EndTrivial(x, h) ==
    /\ fr[h].kind = "trivial"
    /\ fr' = [fr EXCEPT ![h] = Ended(h, "value")]
    /\ Leave(x)
    /\ queue' = Posted(x, fr[h].parent)
    /\ UNCHANGED <<pool, got>>

\* co_await of something that is not a task, and its completion: the handle
\* comes back to the io_context that ran the coroutine.
Park(x, h) == /\ fr' = [fr EXCEPT ![h].at = "parked", ![h].on = x]
              /\ Leave(x)
              /\ UNCHANGED <<queue, pool, got>>

Wake(f) == /\ fr[f].at = "parked"
           /\ fr' = [fr EXCEPT ![f].at = "woken", ![f].on = Main]
           /\ queue' = Posted(fr[f].on, f)
           /\ UNCHANGED <<stack, pool, got>>

\* io_context::co_spawn on the io_context of y: detach, then post the handle.
Spawn(h, c, y) ==
    /\ Holds(h, c) /\ fr[c].at = "initial" /\ fr[c].kind = "void"
    /\ fr' = [fr EXCEPT ![c].detached = TRUE, ![c].owner = Noop]
    /\ queue' = Posted(y, c)
    /\ UNCHANGED <<stack, pool, got>>

\* A thread that is no io_context's makes a task and spawns it on that of y.
MainSpawn(y) ==
    \E f \in Frame :
        /\ Allocates(Main, f, "void")
        /\ pool' = [pool EXCEPT ![Main] = Remaining(Main, f, "void")]
        /\ fr' = [fr EXCEPT ![f] = [Unused("initial") EXCEPT !.detached = TRUE]]
        /\ queue' = Posted(y, f)
        /\ UNCHANGED <<stack, got>>

\* Or it calls co_spawn(), which has nowhere to send it: ~task frees the frame.
MainDrop ==
    \E f \in Frame :
        /\ Allocates(Main, f, "void")
        /\ LET slots == Remaining(Main, f, "void")
               kept  == IF Pools("void", SizeOf[f]) THEN Kept(slots, <<f>>) ELSE slots
           IN  /\ pool' = [pool EXCEPT ![Main] = kept]
               /\ fr' = [fr EXCEPT ![f].at = IF f \in ToSet(kept) THEN "pool" ELSE "heap"]
        /\ UNCHANGED <<stack, queue, got>>

\* The loop of the io_context resumes the next handle.
Run(x) == \E f \in Frame : /\ RunNext(x, f)
                           /\ fr' = [fr EXCEPT ![f].at = "run"]
                           /\ UNCHANGED <<pool, got>>

Step(x, h) ==
    /\ Runs(x, h)
    /\ \/ Call(x, h)
       \/ \E c, g \in Frame : Give(h, c, g)
       \/ \E c \in Frame : Drop(x, h, c) \/ AwaitDone(h, c) \/ Await(x, h, c)
       \/ \E c \in Frame, y \in Thread : Spawn(h, c, y)
       \/ \E v \in {"value", "exception"} : EndTask(x, h, v)
       \/ EndDetached(x, h)
       \/ EndTrivial(x, h)
       \/ Park(x, h)

TaskNext == \/ \E x \in Thread : Run(x) \/ MainSpawn(x) \/ \E h \in Frame : Step(x, h)
            \/ \E f \in Frame : Wake(f)
            \/ MainDrop

TaskSpec == TaskInit /\ [][TaskNext]_taskVars
-----------------------------------------------------------------------------
TypeOK ==
    /\ stack \in [Thread -> Seq(Frame)] /\ queue \in [Thread -> Seq(Frame)]
    /\ fr \in [Frame -> [at : Place, kind : Kind, parent : Frame \cup {Noop},
                         owner : Frame \cup {Noop}, detached : BOOLEAN,
                         result : {"mono", "value", "exception"}, on : Thread \cup {Main}]]
    /\ pool \in [Thread \cup {Main} -> Seq(Frame)]
    /\ got \in [Frame -> {"nothing", "value", "exception", "terminate"}]

\* How often f is on the sequences q, one for each thread.
Places(q, f) == UNION {{x} \X {i \in DOMAIN q[x] : q[x][i] = f} : x \in DOMAIN q}
Queued(f) == Cardinality(Places(queue, f))
Pooled(f) == Cardinality(Places(pool, f))

\* Every block is where it is once: in a pool, on the heap or in use.  No
\* coroutine is lost, since one that is not running and has no owner is queued
\* or waits for something; and none outlives the frame its owner lives in.
FramesAccounted ==
    /\ TypeOK
    /\ \A x \in DOMAIN pool : Len(pool[x]) <= PoolSlots
    /\ \A f \in Frame : Pooled(f) = IF fr[f].at = "pool" THEN 1 ELSE 0
    /\ \A f \in Live : \/ fr[f].owner \in Live
                       \/ /\ fr[f].detached
                          /\ fr[f].at # "final"
                          /\ fr[f].at \in {"initial", "woken"} => Queued(f) = 1

\* Those that a coroutine's co_await keeps suspended.
Awaited(h) == {c \in Frame : fr[c].parent = h /\ fr[c].at \notin {"final", "heap", "pool"}}

\* A suspended coroutine has exactly one way to go on, and it is taken once:
\* the one task it awaits, its own handle in a queue, or its wakeup.  A task
\* that is under way has its parent waiting for it, and whoever reads the
\* result of a task finds one.
ChainSound ==
    /\ \A h \in Live :
        /\ fr[h].at = "await" => Cardinality(Awaited(h)) + Queued(h) = 1
        /\ fr[h].at \notin {"await", "woken", "initial"} => Queued(h) = 0
        /\ fr[h].at # "await" => Awaited(h) = {}
        /\ fr[h].at \in {"run", "await", "parked", "woken"} /\ ~fr[h].detached
              => fr[h].parent \in Live
        /\ fr[h].at = "run" <=> \E x \in Thread : stack[x] = <<h>>
        /\ got[h] # "terminate"
    /\ \A x \in Thread : Len(stack[x]) <= 1

\* A frame is accounted for, and so is who goes on after whom.
TasksSound == FramesAccounted /\ ChainSound
=============================================================================
