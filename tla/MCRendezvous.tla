----------------------------- MODULE MCRendezvous -----------------------------
\* The instance of Rendezvous that TLC checks: one sender and one receiver on
\* one io_context.
EXTENDS Rendezvous

CONSTANTS s, r,                (* coroutines               *)
          A,                   (* the io_context           *)
          acquired, release    (* the condition variables  *)

Together == (s :> A) @@ (r :> A)
Sides == (release :> {s}) @@ (acquired :> {r})
=============================================================================
