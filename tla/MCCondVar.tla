------------------------------- MODULE MCCondVar -------------------------------
\* The instances of CondVar that TLC checks.
EXTENDS CondVar

CONSTANTS n1, n2, w1, w2, w3, (* coroutines              *)
          A, B,             (* io_contexts             *)
          cv                (* the condition variable  *)

\* Three can wait, two of them on another thread than the one who notifies;
\* that thread has a second coroutine, which notifies and waits as well.
OnTwo == (n1 :> A) @@ (n2 :> A) @@ (w1 :> B) @@ (w2 :> B) @@ (w3 :> B)
NotifiedFromA == (cv :> {n1, n2})
=============================================================================
