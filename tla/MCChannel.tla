------------------------------- MODULE MCChannel -------------------------------
\* The instances of Channel that TLC checks.
EXTENDS Channel

CONSTANTS p1, p2, c1, c2,    (* coroutines               *)
          A, B,              (* io_contexts              *)
          empty, full        (* the condition variables  *)

\* The producers share one io_context, the consumers another.
Apart == (p1 :> A) @@ (p2 :> A) @@ (c1 :> B) @@ (c2 :> B)
\* Either io_context has a producer and a consumer.
Mixed == (p1 :> A) @@ (p2 :> B) @@ (c1 :> A) @@ (c2 :> B)

ProducersAndConsumers == (empty :> {p1, p2}) @@ (full :> {c1, c2})
=============================================================================
