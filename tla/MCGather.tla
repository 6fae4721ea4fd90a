------------------------------ MODULE MCGather ------------------------------
\* The instances of Gather that TLC checks.
EXTENDS Gather

CONSTANTS p1, p2,            (* parents     *)
          c1, c2, c3,        (* children    *)
          x1, x2             (* io_contexts *)

Parents == (c1 :> p1) @@ (c2 :> p1) @@ (c3 :> p2)
Homes == (p1 :> x1) @@ (c1 :> x1) @@ (c2 :> x1) @@ (p2 :> x2) @@ (c3 :> x2)
=============================================================================
