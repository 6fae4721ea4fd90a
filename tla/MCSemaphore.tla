----------------------------- MODULE MCSemaphore -----------------------------
\* The instances of Semaphore that TLC checks.
EXTENDS Semaphore

CONSTANTS a, b, c,   (* coroutines   *)
          A, B, C    (* io_contexts  *)

\* Every coroutine has a thread of its own: two can be at any place of acquire
\* while the third releases.
OneEach == (a :> A) @@ (b :> B) @@ (c :> C)

\* Two of the three share a thread.
OneAndTwo == (a :> A) @@ (b :> B) @@ (c :> B)
=============================================================================
