------------------------------- MODULE MCMutex -------------------------------
\* The instance of Mutex that TLC checks.
EXTENDS Mutex, TLC

CONSTANTS a1, a2, b1, b2,   (* coroutines   *)
          A, B              (* io_contexts  *)

\* Two io_contexts of two coroutines: three can wait while one holds the mutex,
\* a lock can race with a lock, and with an unlock.
TwoByTwo == (a1 :> A) @@ (a2 :> A) @@ (b1 :> B) @@ (b2 :> B)
=============================================================================
