----------------------------- MODULE StartBarrier -----------------------------
(***************************************************************************)
(* The life of io_contexts: constructor, start(), the event loop's thread, *)
(* destructor, and the barrier between them (io_context_meta): no event    *)
(* loop begins before every io_context that was created has been started.  *)
(*                                                                         *)
(* The barrier is two global counters.  A thread that finds ready_count    *)
(* below create_count blocks in ready_count.wait(cur), which by the rules  *)
(* of std::atomic returns only when a notification finds a value other     *)
(* than cur.  Each step below is one access to shared memory.              *)
(*                                                                         *)
(* The event loop between the barrier and the thread's end is EventLoop's  *)
(* subject; here a thread past the barrier ends once will_stop_ is set.    *)
(***************************************************************************)
EXTENDS Integers, FiniteSets

CONSTANTS Ctx,       (* the io_contexts                                      *)
          Owner,     (* the threads that create and destroy them             *)
          owner,     (* the thread that does so for an io_context            *)
          Destroyed  (* what the program destroys before it ends: contexts   *)
                     (* that run, contexts that were only created, or both   *)

ASSUME OwnerAssumption == owner \in [Ctx -> Owner]
ASSUME DestroyedAssumption == Destroyed \subseteq {"created", "running"}
ASSUME CtxAssumption == IsFiniteSet(Ctx)

VARIABLES
    createCount,  (* g_io_context_meta.create_count               *)
    readyCount,   (* g_io_context_meta.ready_count                *)
    id,           (* id_                                          *)
    started,      (* started_                                     *)
    willStopOf,   (* will_stop_                                   *)
    life,         (* what the owner has done with each io_context *)
    runner,       (* where the event loop's thread is             *)
    cur           (* wait_all_ready's cur; the destructor's old-1 *)

counts == <<createCount, readyCount>>
object == <<id, started, willStopOf>>
barrierVars == <<counts, object, life, runner, cur>>
-----------------------------------------------------------------------------
Life == {"none", "created", "starting", "running", "stopping", "joined",
         "unready", "uncreated", "gone"}
RunnerState == {"none", "load", "compare", "wait", "blocked", "loop", "exited"}

\* The owner is between two operations: it is in no start() or destructor.
AtLeisure(o) == \A c \in Ctx : owner[c] = o
                    => life[c] \in {"none", "created", "running", "gone"}

\* ready_count.notify_all(): whoever is blocked looks at ready_count again.
NotifyAll == [c \in Ctx |-> IF runner[c] = "blocked" THEN "wait" ELSE runner[c]]

BarrierInit == /\ createCount = 0 /\ readyCount = 0
        /\ id = [c \in Ctx |-> 0]
        /\ started = [c \in Ctx |-> FALSE]
        /\ willStopOf = [c \in Ctx |-> FALSE]
        /\ life = [c \in Ctx |-> "none"]
        /\ runner = [c \in Ctx |-> "none"]
        /\ cur = [c \in Ctx |-> 0]
-----------------------------------------------------------------------------
(* The owner.                                                               *)

\* The constructor.
Construct(c) == /\ life[c] = "none"
                /\ AtLeisure(owner[c])
                /\ createCount' = createCount + 1
                /\ id' = [id EXCEPT ![c] = createCount]
                /\ life' = [life EXCEPT ![c] = "created"]
                /\ UNCHANGED <<readyCount, started, willStopOf, runner, cur>>

\* start(): ready_count...
Start(c) == /\ life[c] = "created"
            /\ AtLeisure(owner[c])
            /\ started' = [started EXCEPT ![c] = TRUE]
            /\ readyCount' = readyCount + 1
            /\ life' = [life EXCEPT ![c] = "starting"]
            /\ UNCHANGED <<createCount, id, willStopOf, runner, cur>>

\* FAULT of StartThread: the thread starts and nobody is notified.
StartThreadQuiet(c) == /\ life[c] = "starting"
                       /\ runner' = [runner EXCEPT ![c] = "load"]
                       /\ life' = [life EXCEPT ![c] = "running"]
                       /\ UNCHANGED <<counts, object, cur>>

\* ...its notification, and the thread.
StartThread(c) == /\ life[c] = "starting"
                  /\ runner' = [NotifyAll EXCEPT ![c] = "load"]
                  /\ life' = [life EXCEPT ![c] = "running"]
                  /\ UNCHANGED <<counts, object, cur>>

\* can_stop(), from anywhere.
CanStop(c) == /\ life[c] \in {"created", "running"}
              /\ willStopOf' = [willStopOf EXCEPT ![c] = TRUE]
              /\ UNCHANGED <<counts, id, started, life, runner, cur>>

\* The destructor: can_stop...
Destroy(c) == /\ life[c] \in Destroyed
              /\ AtLeisure(owner[c])
              /\ willStopOf' = [willStopOf EXCEPT ![c] = TRUE]
              /\ life' = [life EXCEPT ![c] = "stopping"]
              /\ UNCHANGED <<counts, id, started, runner, cur>>

\* ...join...
Join(c) == /\ life[c] = "stopping"
           /\ runner[c] \in {"none", "exited"}
           /\ life' = [life EXCEPT ![c] = "joined"]
           /\ UNCHANGED <<counts, object, runner, cur>>

\* FAULT of Unready: also for an io_context that was never started.
UnreadyAlways(c) == /\ life[c] = "joined"
                    /\ readyCount' = readyCount - 1
                    /\ life' = [life EXCEPT ![c] = "unready"]
                    /\ UNCHANGED <<createCount, object, runner, cur>>

\* FAULT of Unready: ready_count keeps counting io_contexts that are gone.
UnreadyNever(c) == /\ life[c] = "joined"
                   /\ life' = [life EXCEPT ![c] = "unready"]
                   /\ UNCHANGED <<counts, object, runner, cur>>

\* ...ready_count, if start() was called...
Unready(c) == /\ life[c] = "joined"
              /\ readyCount' = readyCount - (IF started[c] THEN 1 ELSE 0)
              /\ life' = [life EXCEPT ![c] = "unready"]
              /\ UNCHANGED <<createCount, object, runner, cur>>

\* ...create_count...
Uncreate(c) == /\ life[c] = "unready"
               /\ createCount' = createCount - 1
               /\ life' = [life EXCEPT ![c] = "uncreated"]
               /\ cur' = [cur EXCEPT ![c] = createCount - 1]
               /\ UNCHANGED <<readyCount, object, runner>>

\* ...and a notification if that opened the barrier.
NotifyIfOpen(c) == /\ life[c] = "uncreated"
                   /\ runner' = IF cur[c] <= readyCount THEN NotifyAll ELSE runner
                   /\ life' = [life EXCEPT ![c] = "gone"]
                   /\ cur' = [cur EXCEPT ![c] = 0]
                   /\ UNCHANGED <<counts, object>>
-----------------------------------------------------------------------------
(* The event loop's thread.                                                 *)

\* wait_all_ready reads ready_count...
LoadReady(c) == /\ runner[c] = "load"
                /\ cur' = [cur EXCEPT ![c] = readyCount]
                /\ runner' = [runner EXCEPT ![c] = "compare"]
                /\ UNCHANGED <<counts, object, life>>

Closed(c) == /\ runner' = [runner EXCEPT ![c] = "wait"]
             /\ UNCHANGED cur

Open(c) == /\ runner' = [runner EXCEPT ![c] = "loop"]
           /\ cur' = [cur EXCEPT ![c] = 0]

\* FAULT of Compare: the thread does not count its own io_context.
CompareOthers(c) == /\ runner[c] = "compare"
                    /\ IF cur[c] < createCount - 1 THEN Closed(c) ELSE Open(c)
                    /\ UNCHANGED <<counts, object, life>>

\* ...and then create_count: the barrier is closed or open.
Compare(c) == /\ runner[c] = "compare"
              /\ IF cur[c] < createCount THEN Closed(c) ELSE Open(c)
              /\ UNCHANGED <<counts, object, life>>

\* ready_count.wait(cur).
Wait(c) == /\ runner[c] = "wait"
           /\ runner' = [runner EXCEPT ![c] = IF readyCount = cur[c]
                                              THEN "blocked" ELSE "load"]
           /\ UNCHANGED <<counts, object, life, cur>>

\* The event loop and the end of the thread.
Exit(c) == /\ runner[c] = "loop"
           /\ willStopOf[c]
           /\ runner' = [runner EXCEPT ![c] = "exited"]
           /\ UNCHANGED <<counts, object, life, cur>>
-----------------------------------------------------------------------------
\* What the owner does once it has begun an operation.
OwnerCarriesOn(c) == \/ StartThread(c) \/ Join(c) \/ Unready(c)
                     \/ Uncreate(c) \/ NotifyIfOpen(c)

RunnerStep(c) == LoadReady(c) \/ Compare(c) \/ Wait(c) \/ Exit(c)

BarrierNext == \E c \in Ctx : \/ Construct(c) \/ Start(c) \/ CanStop(c) \/ Destroy(c)
                       \/ OwnerCarriesOn(c)
                       \/ RunnerStep(c)

BarrierSpec == BarrierInit /\ [][BarrierNext]_barrierVars

\* A thread runs; nothing obliges a program to create, start, stop or destroy.
BarrierFairness == \A c \in Ctx : WF_barrierVars(OwnerCarriesOn(c)) /\ WF_barrierVars(RunnerStep(c))

BarrierFairSpec == BarrierSpec /\ BarrierFairness
-----------------------------------------------------------------------------
Exists(c) == life[c] \notin {"none", "uncreated", "gone"}
CountsAsReady(c) == started[c] /\ life[c] \notin {"unready", "uncreated", "gone"}

AtBarrier(c) == runner[c] \in {"load", "compare", "wait", "blocked"}
PastBarrier(c) == runner[c] \in {"loop", "exited"}

Existing == {c \in Ctx : Exists(c)}
Ready == {c \in Ctx : CountsAsReady(c)}
TornDown == {c \in Ctx : life[c] \in {"unready", "uncreated", "gone"}}

BarrierTypeOK == /\ createCount \in Nat /\ readyCount \in Nat
          /\ id \in [Ctx -> Nat]
          /\ started \in [Ctx -> BOOLEAN] /\ willStopOf \in [Ctx -> BOOLEAN]
          /\ life \in [Ctx -> Life]
          /\ runner \in [Ctx -> RunnerState]
          /\ cur \in [Ctx -> Nat]

\* The counters count what they are meant to count at every step of every
\* constructor, start and destructor: no destructor leaves a stale
\* ready_count behind, or takes back one that start() never gave.
CountsExact == /\ createCount = Cardinality(Existing)
               /\ readyCount = Cardinality(Ready)

\* And they are natural numbers: what one destructor takes back, start or a
\* constructor has given.
CountersSound == BarrierTypeOK /\ CountsExact

\* While no io_context has been torn down, an event loop passes the barrier
\* only when every io_context there is has been started, although the barrier
\* compares a ready_count it read before with the create_count of now.
BarrierHolds ==
    [][\A c \in Ctx : /\ runner[c] = "compare" /\ runner'[c] = "loop"
                      /\ TornDown = {}
                      => \A d \in Existing : started[d]]_barrierVars

\* A thread at the barrier passes it once its condition has come true, if it
\* stays true and no io_context is torn down meanwhile.
BarrierOpens == \A c \in Ctx :
    (AtBarrier(c) /\ createCount <= readyCount)
        ~> (PastBarrier(c) \/ createCount > readyCount \/ TornDown # {})
=============================================================================
