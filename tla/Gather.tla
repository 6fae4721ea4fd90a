------------------------------- MODULE Gather -------------------------------
(***************************************************************************)
(* all, any and some (co/when_all.hpp): a parent spawns its children on    *)
(* its own io_context and suspends until all of them, the first, or the    *)
(* first few have ended.  A child awaits one thing: here a shared_task     *)
(* that children of several parents share, or something of its own.        *)
(* A child that throws takes part in nothing: its frame goes, and nobody   *)
(* is told.                                                                *)
(***************************************************************************)
EXTENDS SharedTask

CONSTANTS Parent,      (* the coroutines that call all, any or some         *)
          parentOf,    (* whose child each waiter is                        *)
          MaxNeed      (* bound: the most that some() asks for              *)

ASSUME GatherAssumption ==
    /\ parentOf \in [Waiter -> Parent]
    /\ home \in [Waiter \cup Parent -> Thread]
    /\ \A w \in Waiter : home[w] = home[parentOf[w]]
    /\ MaxNeed \in Nat
    /\ IsFiniteSet(Waiter) /\ IsFiniteSet(Parent)
    /\ Waiter \cap Parent = {} /\ Shared \notin Waiter \cup Parent

VARIABLES
    mode,      (* what each parent calls                                    *)
    need,      (* needed of when_any_state                                  *)
    sharing,   (* the children that await the shared task                   *)
    val,       (* what each child's co_await returned                       *)
    remaining, (* remaining of when_all_state                               *)
    awaiting,  (* the parents whose handle is in awaiting                   *)
    resumed,   (* resumed of when_any_state                                 *)
    results,   (* the children in results, or whose storage is constructed  *)
    taken,     (* what await_resume returned                                *)
    order      (* history: the children in the order they completed         *)

stateVars == <<remaining, awaiting, resumed, results, taken>>
gatherVars == <<mode, need, sharing, val, stateVars, order>>
vars == <<stack, queue, pc, sharedVars, gatherVars>>

Children(p) == {c \in Waiter : parentOf[c] = p}
InOrder(p) == SetToSeq(Children(p))
-----------------------------------------------------------------------------
GatherInit ==
    /\ mode \in [Parent -> {"all", "any", "some"}]
    /\ need \in [Parent -> 0..MaxNeed]
    /\ \A p \in Parent : mode[p] # "some" => need[p] = 1
    /\ \A p \in Parent : mode[p] # "all" => Cardinality(Children(p)) >= 2
    /\ sharing \in SUBSET Waiter
    /\ SharedInit(Cardinality(sharing))
    /\ val = [c \in Waiter |-> "none"]
    /\ remaining = [p \in Parent |-> Cardinality(Children(p))]
    /\ awaiting = {} /\ resumed = {}
    /\ results = [p \in Parent |-> <<>>]
    /\ taken = [p \in Parent |-> <<>>]
    /\ order = [p \in Parent |-> <<>>]
    /\ pc = [h \in Waiter \cup Parent |-> IF h \in Parent THEN "start" ELSE "new"]
    /\ queue = [x \in Thread |-> SetToSeq({p \in Parent : home[p] = x})]
    /\ stack = [x \in Thread |-> <<>>]

\* The io_context runs a coroutine for the first time.
Begin(h) == /\ pc[h] \in {"start", "queued"}
            /\ RunNext(home[h], h)
            /\ Goto(h, CASE h \in Parent -> "spawn"
                         [] h \in sharing -> "query"
                         [] OTHER -> "own")
            /\ UNCHANGED <<sharedVars, gatherVars>>

\* co_spawn of every child; a copy of the shared task moves into its frame.
SpawnAll(p) ==
    /\ At(p, "spawn")
    /\ queue' = [queue EXCEPT ![home[p]] = @ \o InOrder(p)]
    /\ pc' = [h \in DOMAIN pc |-> IF h \in Children(p) THEN "queued"
                                  ELSE IF h = p THEN "spawned" ELSE pc[h]]
    /\ UNCHANGED <<stack, sharedVars, gatherVars>>

\* co_await awaiter{st}
AwaitState(p) ==
    /\ At(p, "spawned")
    /\ awaiting' = awaiting \cup {p}
    /\ Goto(p, "asleep")
    /\ Leave(home[p])
    /\ UNCHANGED <<queue, sharedVars, mode, need, sharing, val,
                   remaining, resumed, results, taken, order>>

\* A child that awaits something of its own may suspend, is posted, goes on.
OwnParks(c) == /\ At(c, "own")
               /\ Goto(c, "parked")
               /\ Leave(home[c])
               /\ UNCHANGED <<queue, sharedVars, gatherVars>>

OwnWakes(c) == /\ pc[c] = "parked"
               /\ Goto(c, "posted")
               /\ queue' = Posted(home[c], c)
               /\ UNCHANGED <<stack, sharedVars, gatherVars>>

OwnResumes(c) == /\ pc[c] = "posted"
                 /\ RunNext(home[c], c)
                 /\ Goto(c, "back")
                 /\ UNCHANGED <<sharedVars, gatherVars>>

\* await_resume of what the child awaits: a value, or an exception that ends
\* the child before it counts.
Receives(c, v) == /\ val' = [val EXCEPT ![c] = v]
                  /\ Goto(c, IF v = "value" THEN "complete" ELSE "unwind")
                  /\ UNCHANGED <<stack, queue, sharedVars, mode, need, sharing,
                                 stateVars, order>>

OwnReturns(c) == (At(c, "own") \/ At(c, "back")) /\ \E v \in {"value", "exception"} : Receives(c, v)
SharedReturns(c) == At(c, "resume") /\ c \in Waiter /\ Receives(c, outcome)
-----------------------------------------------------------------------------
\* awaiting.resume(), on the stack of the child; without it the child ends.
Wakeup(c, p, last) ==
    IF last THEN /\ pc' = [pc EXCEPT ![c] = "unwind", ![p] = "resume"]
                 /\ Resume(home[c], p)
            ELSE Goto(c, "unwind") /\ UNCHANGED stack

\* FAULT of LastChild: the child that counts down to zero is not the last.
LastChildLate(p) == remaining[p] = 0

\* count_down reaches zero.
LastChild(p) == remaining[p] = 1

\* all_run_one: the result goes to its slot, then count_down.
CountDown(c) ==
    LET p == parentOf[c] IN
    /\ At(c, "complete") /\ mode[p] = "all"
    /\ results' = [results EXCEPT ![p] = Append(@, c)]
    /\ order' = [order EXCEPT ![p] = Append(@, c)]
    /\ remaining' = [remaining EXCEPT ![p] = @ - 1]
    /\ Wakeup(c, p, LastChild(p))
    /\ UNCHANGED <<queue, sharedVars, mode, need, sharing, val, awaiting, resumed, taken>>

\* FAULT of TooLate: a child completes after the parent has been resumed.
TooLateNever(p) == FALSE

\* The test of resumed.
TooLate(p) == p \in resumed

\* any_run_one: on_complete, under the lock of the state.
OnComplete(c) ==
    LET p == parentOf[c]
        done == Len(results[p]) + 1 >= need[p]
    IN
    /\ At(c, "complete") /\ mode[p] # "all"
    /\ order' = [order EXCEPT ![p] = Append(@, c)]
    /\ IF TooLate(p)
       THEN Goto(c, "unwind") /\ UNCHANGED <<stack, results, resumed>>
       ELSE /\ results' = [results EXCEPT ![p] = Append(@, c)]
            /\ resumed' = IF done THEN resumed \cup {p} ELSE resumed
            /\ Wakeup(c, p, done)
    /\ UNCHANGED <<queue, sharedVars, mode, need, sharing, val, remaining, awaiting, taken>>

\* The child's frame goes, and its copy of the shared task with it.
ChildEnds(c) ==
    /\ At(c, "unwind") /\ c \in Waiter
    /\ Goto(c, "over")
    /\ Leave(home[c])
    /\ IF c \in sharing THEN Unref ELSE UNCHANGED refs
    /\ UNCHANGED <<queue, listVars, bodyVars, held, gatherVars>>

\* await_resume of the parent's awaiter: take(), the winner, or the results.
\* resumed is set again, without the lock.
TakeResults(p) ==
    /\ At(p, "resume") /\ p \in Parent
    /\ taken' = [taken EXCEPT ![p] = IF mode[p] = "any" THEN SubSeq(results[p], 1, 1)
                                     ELSE results[p]]
    /\ resumed' = IF mode[p] = "all" THEN resumed ELSE resumed \cup {p}
    /\ Goto(p, "finish")
    /\ UNCHANGED <<stack, queue, sharedVars, mode, need, sharing, val,
                   remaining, awaiting, results, order>>

ParentEnds(p) == /\ At(p, "finish")
                 /\ Goto(p, "over")
                 /\ Leave(home[p])
                 /\ UNCHANGED <<queue, sharedVars, gatherVars>>

ChildStep(c) == \/ OwnParks(c) \/ OwnWakes(c) \/ OwnResumes(c) \/ OwnReturns(c)
                \/ SharedReturns(c) \/ CountDown(c) \/ OnComplete(c) \/ ChildEnds(c)
ParentStep(p) == SpawnAll(p) \/ AwaitState(p) \/ TakeResults(p) \/ ParentEnds(p)
Next == \/ SharedStep /\ UNCHANGED gatherVars
        \/ \E h \in Parent \cup Waiter : Begin(h)
        \/ \E c \in Waiter : ChildStep(c)
        \/ \E p \in Parent : ParentStep(p)

\* The threads go on, and what a coroutine awaits does come: no behaviour is
\* infinite here, so that it is enough that steps are taken while there are any.
Spec == GatherInit /\ [][Next]_vars /\ WF_vars(Next)
-----------------------------------------------------------------------------
\* shared_task as the children use it: no waiter is lost or resumed twice,
\* and the frame outlives its users, across io_contexts.
SharedSound == /\ WaitersKept
               /\ FrameAlive({c \in sharing : pc[c] # "over"})

\* The parent is resumed once, when its handle is there to resume, and gets
\* what its children completed first, in the order they did: nothing that
\* ends later changes it.
ResultsRight ==
    \A p \in Parent :
        /\ pc[p] = "resume" => p \in awaiting /\ taken[p] = <<>>
        /\ pc[p] \in {"finish", "over"} =>
             /\ taken[p] = SubSeq(order[p], 1, CASE mode[p] = "all" -> Cardinality(Children(p))
                                                 [] mode[p] = "any" \/ need[p] = 0 -> 1
                                                 [] OTHER -> need[p])
             /\ \A c \in ToSet(taken[p]) : val[c] = "value"

\* As many children returned a value as the parent waits for.
Enough(p) == Cardinality({c \in Children(p) : val[c] = "value"}) >=
                 CASE mode[p] = "all" -> Cardinality(Children(p))
                   [] mode[p] = "any" \/ need[p] = 0 -> 1
                   [] OTHER -> need[p]

\* In the end every child has ended, and so has each parent enough of whose
\* children returned.
GatherReturns == <>[](/\ \A c \in Waiter : pc[c] = "over"
                      /\ \A p \in Parent : Enough(p) => pc[p] = "over")
=============================================================================
