----------------------------- MODULE Generator -----------------------------
(***************************************************************************)
(* generator (generator.hpp): coroutines that yield a sequence of values   *)
(* to a consumer that pulls them through an iterator, and that splice the  *)
(* values of another generator into their own with elements_of.            *)
(*                                                                         *)
(* Bodies are arbitrary.  A body may also consume generators of its own,   *)
(* so that iterators nest inside a chain of spliced generators.            *)
(***************************************************************************)
EXTENDS Naturals, Sequences, SequencesExt

CONSTANTS Gen,       (* the frames of generators                            *)
          User,      (* the code that consumes a generator and is not one   *)
          None,
          Yields,    (* bound: values each frame yields                     *)
          Layout     (* per frame: its address and size, and its allocator  *)

ASSUME GenAssumption == User \notin Gen /\ None \notin Gen \cup {User}

\* An alignment is a power of two, memory is aligned to blocks of 16 bytes, and
\* the size of a type is a multiple of its alignment.
ASSUME LayoutAssumption ==
    \A g \in Gen :
        LET l == Layout[g]
        IN  /\ l.base \in Nat /\ l.base % 16 = 0 /\ l.size \in Nat
            /\ l.kind \in {"plain", "typed", "erased"}
            /\ l.align \in {1, 2, 4, 8} \/ (l.align \in Nat \ {0} /\ l.align % 16 = 0)
            /\ l.state \in Nat /\ l.state % l.align = 0 /\ (l.kind = "plain" => l.state = 0)

VARIABLES gen,       (* per frame: its promise, and the awaitable it holds  *)
          calls,     (* the resume() calls under way, innermost first       *)
          raised,    (* per body: whose exception it is to deal with        *)
          caught,    (* the frames whose exceptions were caught             *)
          log,       (* per frame: what its body has yielded                *)
          seen       (* per frame: what was read through its iterator       *)

genVars == <<gen, calls, raised, caught, log, seen>>
-----------------------------------------------------------------------------
\* _Promise_allocator: the bytes of a frame and what is kept behind it, the
\* function that frees it where the allocator's type is erased and the
\* allocator where it has state.  kind is "plain" for ::operator new[].

Block == 16          (* sizeof(_Aligned_block)                              *)
Fn == 8              (* sizeof(_Dealloc_fn)                                 *)
RoundUp(n, a) == ((n + a - 1) \div a) * a
Widest(a) == IF a > Block THEN a ELSE Block

Allocation(size, l) ==
    CASE l.kind = "plain"    -> size + Fn
      [] l.kind = "typed"    -> Block * ((IF l.state = 0 THEN size + Block - 1
                                          ELSE size + l.state + Widest(l.align) - 1) \div Block)
      [] l.kind = "erased"   -> Block * ((IF l.state = 0 THEN size + Fn + Block - 1
                                          ELSE size + Fn + l.state + Widest(l.align) - 1) \div Block)

\* operator delete finds these again from the size of the frame alone.
GivenBack(size, l) ==
    IF l.kind = "plain" THEN size + Fn
    ELSE LET behind == IF l.kind = "erased" THEN size + Fn ELSE size
             last   == IF l.state = 0 THEN Block - 1 ELSE l.state + Widest(l.align) - 1
         IN  Block * ((behind + last) \div Block)

StoredAt(l) == RoundUp(l.base + l.size + (IF l.kind = "erased" THEN Fn ELSE 0), l.align)

\* A frame goes back whole, and what is kept behind it is inside the block.
LayoutSound(l) ==
    /\ GivenBack(l.size, l) = Allocation(l.size, l)
    /\ l.kind # "typed" => l.size + Fn <= Allocation(l.size, l)
    /\ l.state # 0 => /\ StoredAt(l) >= l.base + l.size
                      /\ StoredAt(l) + l.state <= l.base + Allocation(l.size, l)
-----------------------------------------------------------------------------
Blank == [at |-> "none", owner |-> None, top |-> None, info |-> None,
          root |-> None, val |-> 0]

GenInit ==
    /\ gen = [g \in Gen |-> Blank]
    /\ calls = <<>>
    /\ raised = [h \in Gen \cup {User} |-> None]
    /\ caught = {}
    /\ log = [g \in Gen |-> <<>>]
    /\ seen = [g \in Gen |-> <<>>]

\* Who runs: the body that the innermost resume() is in, else the consumer.
Runner == IF calls = <<>> THEN User ELSE calls[1].in
Alive(g) == gen[g].at \notin {"none", "gone"}
Made(h, g) == [Blank EXCEPT !.at = "initial", !.owner = h, !.top = g]

\* The frames destroyed with g.
GenTree(g) == {c \in Gen : \A S \in SUBSET Gen :
                  g \in S /\ (\A d \in Gen : gen[d].owner \in S => d \in S) => c \in S}
Locals(h) == {c \in Gen : Alive(c) /\ c \in GenTree(h) /\ c # h}
Destroyed(gs, gone) == [c \in Gen |-> IF c \in gone /\ gs[c].at # "none"
                                      THEN [gs[c] EXCEPT !.at = "gone"] ELSE gs[c]]

\* Control is in f, within the innermost resume().
SwitchTo(f) == calls' = <<[calls[1] EXCEPT !.in = f]>> \o Tail(calls)

\* A call of a generator function by h.
Make(h, g) ==
    /\ gen[g].at = "none"
    /\ gen' = [gen EXCEPT ![g] = Made(h, g)]
    /\ UNCHANGED <<calls, raised, caught, log, seen>>

\* begin(), and operator++ of the iterator: resume the generator, or the one
\* that produced the current value.
BeginGen(h, g) ==
    /\ gen[g].owner = h /\ gen[g].at = "initial"
    /\ gen' = [gen EXCEPT ![g].at = "run"]
    /\ calls' = <<[it |-> g, in |-> g]>> \o calls
    /\ UNCHANGED <<raised, caught, log, seen>>

Increment(h, g) ==
    /\ gen[g].owner = h /\ gen[g].info = None
    /\ gen[g].at \in {"yield", "nest"}
    /\ gen' = [gen EXCEPT ![gen[g].top].at = "run"]
    /\ calls' = <<[it |-> g, in |-> gen[g].top]>> \o calls
    /\ UNCHANGED <<raised, caught, log, seen>>

\* co_yield of a value: the consumer goes on and reads it through the iterator.
YieldValue(h) ==
    LET entry == [by |-> h, n |-> gen[h].val + 1]
        it    == calls[1].it
    IN  /\ gen[h].val < Yields
        /\ gen' = [gen EXCEPT ![h].at = "yield", ![h].val = @ + 1]
        /\ calls' = Tail(calls)
        /\ log' = [log EXCEPT ![h] = Append(@, entry)]
        /\ LET top == gen[it].top
           IN  seen' = [seen EXCEPT ![it] = Append(@, [by |-> top, n |-> gen'[top].val])]
        /\ UNCHANGED <<raised, caught>>

\* FAULT of Nested: every generator takes itself for the outermost.
NestedFlat(gs, h, g) ==
    [gs EXCEPT ![h].at = "nest", ![h].root = h, ![g].info = h, ![g].at = "run",
               ![h].top = g]

\* _Nested_awaitable::await_suspend: the promises once h splices g in.
Nested(gs, h, g) ==
    LET root == IF gs[h].info # None THEN gs[gs[h].info].root ELSE h
    IN  [gs EXCEPT ![h].at = "nest", ![h].root = root, ![g].info = h, ![g].at = "run",
                   ![root].top = g]

\* co_yield elements_of: of a generator that h made, or of another range, for
\* which the promise makes a generator itself.
YieldElements(h, g) ==
    /\ \/ gen[g].owner = h /\ gen[g].at = "initial" /\ gen' = Nested(gen, h, g)
       \/ gen[g].at = "none" /\ gen' = Nested([gen EXCEPT ![g] = Made(h, g)], h, g)
    /\ SwitchTo(g)
    /\ log' = [log EXCEPT ![h] = Append(@, [by |-> g, n |-> 0])]
    /\ UNCHANGED <<raised, caught, seen>>

\* FAULT of Throws: an exception that ends a spliced generator is forgotten.
ThrowsLost(h, threw) ==
    raised' = [raised EXCEPT ![h] = None,
                             ![gen[h].owner] = IF threw /\ gen[h].info = None THEN h ELSE @]

\* unhandled_exception: to the awaitable of the generator that splices h in,
\* else out of resume() to the consumer.
Throws(h, threw) ==
    LET to == IF gen[h].info # None THEN gen[h].info ELSE gen[h].owner
    IN  raised' = [raised EXCEPT ![h] = None,
                                 ![to] = IF threw THEN h ELSE @]

\* FAULT of Unnested: the iterator still stands on the generator that has ended.
UnnestedStale(gs, p) == [gs EXCEPT ![p].at = "run"]

\* _Final_awaiter: control is back in p, which the iterator stands on again.
Unnested(gs, p) == [gs EXCEPT ![p].at = "run", ![gs[p].root].top = p]

\* The body of h ends, which destroys the generators in its scope, and
\* _Final_awaiter hands control to the generator that splices h in, whose
\* awaitable then destroys h, or back to the consumer.
Finish(h, threw) ==
    LET p    == gen[h].info
        done == Destroyed([gen EXCEPT ![h].at = "done", ![h].info = None], Locals(h))
    IN  /\ raised[h] # None => threw
        /\ IF p = None
           THEN gen' = done /\ calls' = Tail(calls)
           ELSE /\ gen' = Destroyed(Unnested(done, p), {h})
                /\ SwitchTo(p)
        /\ Throws(h, threw)
        /\ log' = IF threw THEN [log EXCEPT ![h] = Append(@, [by |-> h, n |-> 0])] ELSE log
        /\ UNCHANGED <<caught, seen>>

Catch(h) ==
    /\ raised[h] # None
    /\ caught' = caught \cup {raised[h]}
    /\ raised' = [raised EXCEPT ![h] = None]
    /\ UNCHANGED <<gen, calls, log, seen>>

\* ~generator.
Release(h, g) ==
    /\ gen[g].owner = h /\ Alive(g)
    /\ gen' = Destroyed(gen, GenTree(g))
    /\ UNCHANGED <<calls, raised, caught, log, seen>>

GenNext ==
    LET h == Runner IN
    \/ /\ raised[h] = None
       /\ \E g \in Gen : \/ Make(h, g) \/ BeginGen(h, g) \/ Increment(h, g) \/ Release(h, g)
                         \/ h # User /\ YieldElements(h, g)
    \/ raised[h] = None /\ h # User /\ YieldValue(h)
    \/ h # User /\ \E threw \in BOOLEAN : Finish(h, threw)
    \/ Catch(h)

GenSpec == GenInit /\ [][GenNext]_genVars
-----------------------------------------------------------------------------
\* What the first i entries of a generator's log stand for: its values, with those
\* of each generator it splices in at their place.
Upto[e \in Gen \X Nat] ==
    LET g == e[1]
        i == e[2]
    IN  IF i \notin DOMAIN log[g] THEN <<>>
        ELSE Upto[<<g, i - 1>>] \o
             (IF log[g][i].n # 0 THEN <<log[g][i]>>
              ELSE IF log[g][i].by = g THEN <<>>
              ELSE Upto[<<log[g][i].by, Len(log[log[g][i].by])>>])

Flat(g) == Upto[<<g, Len(log[g])>>]

\* What is read through an iterator is the flattening of the tree of
\* generators under it, whatever is spliced into what and wherever bodies
\* consume generators of their own or give up with an exception.
Spliced(g) == \E h \in Gen \ {g} : [by |-> g, n |-> 0] \in ToSet(log[h])
Flattened == \A g \in Gen : seen[g] = IF Spliced(g) THEN <<>> ELSE Flat(g)

Threw(g) == \E i \in DOMAIN log[g] : log[g][i] = [by |-> g, n |-> 0]

\* An iterator that is not being advanced stands on the frame that yielded
\* last, or at the end; that frame and those it is spliced into are alive, know
\* their root, and resume() is never called on one that runs or has ended.
IteratorSound ==
    /\ \A g \in Gen : Alive(g) =>
        /\ gen[g].owner = User \/ Alive(gen[g].owner)
        /\ gen[g].info # None => gen[gen[g].info].at = "nest"
        /\ gen[g].at = "nest" => \E c \in Gen : gen[c].info = g
        /\ gen[g].at = "done" => gen[g].top = g
        /\ gen[g].at \in {"yield", "nest"} /\ gen[g].info = None
           /\ (\A i \in DOMAIN calls : calls[i].it # g)
              => gen[gen[g].top].at = "yield"
        /\ LayoutSound(Layout[g])
    /\ \A i \in DOMAIN calls : /\ gen[calls[i].it].top = calls[i].in
                               /\ gen[calls[i].in].at = "run"

\* An exception that ends a body is delivered once, to the generator that
\* splices it in or to its consumer, which catches it or ends with it.
ErrorsDelivered ==
    \A g \in Gen : Threw(g) =>
        LET h == gen[g].owner
        IN  \/ raised[h] = g
            \/ g \in caught
            \/ h \in Gen /\ Threw(h)

\* A generator yields what it should, its iterators can go on, and it ends with
\* the exception of its body if that has one.
GeneratorsSound == Flattened /\ IteratorSound /\ ErrorsDelivered
=============================================================================
