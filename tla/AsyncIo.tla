------------------------------- MODULE AsyncIo -------------------------------
(***************************************************************************)
(* What co_await of an I/O operation, or of two joined by operator&&,      *)
(* promises: the coroutine is suspended, every operation it named is       *)
(* performed exactly once and in the order it was named, and only then is  *)
(* the coroutine made runnable again.                                      *)
(***************************************************************************)
EXTENDS Sequences

CONSTANTS Client,      (* the coroutines                                   *)
          Operation    (* the operations they may await                    *)

VARIABLES suspended,   (* the coroutines that await I/O                    *)
          todo         (* the operations each one still waits for          *)

ioVars == <<suspended, todo>>

IoInit == /\ suspended = {}
          /\ todo = [c \in Client |-> <<>>]

\* co_await: one operation or two.
Submit(c, ops) == /\ c \notin suspended
                  /\ suspended' = suspended \cup {c}
                  /\ todo' = [todo EXCEPT ![c] = ops]

\* The first operation that is left takes its effect.
Accomplish(c) == /\ c \in suspended
                 /\ todo[c] # <<>>
                 /\ todo' = [todo EXCEPT ![c] = Tail(@)]
                 /\ UNCHANGED suspended

\* The coroutine is runnable again once nothing is left.
Release(c) == /\ c \in suspended
              /\ todo[c] = <<>>
              /\ suspended' = suspended \ {c}
              /\ UNCHANGED todo

IoNext == \E c \in Client :
             \/ \E p, q \in Operation : Submit(c, <<p>>) \/ Submit(c, <<p, q>>)
             \/ Accomplish(c)
             \/ Release(c)

IoSpec == IoInit /\ [][IoNext]_ioVars
=============================================================================
