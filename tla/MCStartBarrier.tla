---------------------------- MODULE MCStartBarrier ----------------------------
\* The instances of StartBarrier that TLC checks.
EXTENDS StartBarrier, TLC

CONSTANTS a, b, c,      (* io_contexts                 *)
          main, helper  (* the threads that own them   *)

\* One thread owns them all, as in the tests and examples.
OwnedByMain == (a :> main) @@ (b :> main) @@ (c :> main)

\* Two threads create and destroy io_contexts at the same time.
OwnedByBoth == (a :> main) @@ (b :> main) @@ (c :> helper)
=============================================================================
