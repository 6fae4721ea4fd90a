---------------------------- MODULE MCDataTypes ----------------------------
\* The instances of Task, Generator, Sockets and SpscRing that TLC checks.
EXTENDS DataTypes

CONSTANTS f1, f2, f3,   (* frames of tasks        *)
          x1, x2,       (* io_contexts            *)
          g1, g2, g3,   (* frames of generators   *)
          o1, o2, o3,   (* socket objects         *)
          d1, d2,       (* descriptors            *)
          s1, s2,       (* OpenSSL sessions       *)
          h1, h2        (* coroutines that are ready *)

Sizes == (f1 :> "small") @@ (f2 :> "large") @@ (f3 :> "over")

\* A generator with the default allocator, one of a given type with state and a
\* wide alignment, and one whose allocator's type is erased.
At(base, size, kind, state, align) ==
    [base |-> base, size |-> size, kind |-> kind, state |-> state, align |-> align]
Layouts == (g1 :> At(16, 40, "plain", 0, 1)) @@ (g2 :> At(48, 56, "typed", 64, 32))
           @@ (g3 :> At(16, 24, "erased", 24, 8))

\* Everything that is not told apart by its size or its place in memory.
Alike == Permutations({x1, x2}) \cup Permutations({o1, o2, o3})
         \cup Permutations({d1, d2}) \cup Permutations({s1, s2})
=============================================================================
