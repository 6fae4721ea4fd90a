----------------------------- MODULE DataTypes -----------------------------
(***************************************************************************)
(* The types of the library that share no state: tasks, generators (which  *)
(* run inside the calls of their consumer and never suspend the thread:    *)
(* await_transform is deleted in them), sockets as owners of descriptors,  *)
(* and the ring a worker keeps its ready coroutines in.  A behaviour is    *)
(* therefore one of a single type, as subject says.                        *)
(***************************************************************************)
EXTENDS Task, Generator, Sockets, SpscRing

VARIABLES subject

TypesInit == /\ subject \in {"tasks", "generators", "sockets", "ring"}
             /\ TaskInit /\ GenInit /\ SocketsInit /\ RingInit

TypesNext ==
    /\ \/ subject = "tasks" /\ TaskNext /\ UNCHANGED <<genVars, sockVars, ringVars>>
       \/ subject = "generators" /\ GenNext /\ UNCHANGED <<taskVars, sockVars, ringVars>>
       \/ subject = "sockets" /\ SocketsNext /\ UNCHANGED <<taskVars, genVars, ringVars>>
       \/ subject = "ring" /\ RingNext /\ UNCHANGED <<taskVars, genVars, sockVars>>
    /\ UNCHANGED subject

TypesSpec == TypesInit /\ [][TypesNext]_<<subject, taskVars, genVars, sockVars, ringVars>>
=============================================================================
