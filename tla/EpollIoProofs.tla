---------------------------- MODULE EpollIoProofs ----------------------------
(***************************************************************************)
(* Proofs about EpollIo, for every set of coroutines and of pool threads,  *)
(* any number of descriptors and any choice of operations, when no two     *)
(* coroutines use one socket at a time: what the epoll instance, the       *)
(* fetched events and the pool point into is alive, every descriptor has   *)
(* its owner, and no suspended operation is forgotten.                     *)
(*                                                                         *)
(* The proofs speak of awaiters by their context <<coroutine, 1 or 2>>:    *)
(* which there are, of what kind, with which descriptor.  A lemma for each *)
(* step of the model says what it does to these.                           *)
(***************************************************************************)
EXTENDS EpollIo, SequenceTheorems, FiniteSetTheorems, WellFoundedInduction, TLAPS

-----------------------------------------------------------------------------
(* The awaiters, by context.                                                *)

Made == {x \in Ctx : x[2] <= Len(awaiter[x[1]])}
kindOf == [x \in Made |-> awaiter[x[1]][x[2]].kind]
fdOf == [x \in Made |-> awaiter[x[1]][x[2]].fd]

\* The contexts the pool has yet to do the I/O of, and those it has yet to
\* signal.
Undone == {pool[i] : i \in 1..Len(pool)}
          \cup {worker[w].ctx : w \in {v \in Worker : worker[v].does = "io"}}
Unsignalled == {worker[w].ctx : w \in {v \in Worker : worker[v].does = "signals"}}

\* The operations with a descriptor of their own, and what it refers to.
Own == {"file", "timer", "past"}
Source(kind) == CASE kind = "file" -> "eventfd"
                  [] kind \in {"timer", "past"} -> "timerfd"
                  [] OTHER -> "socket"
-----------------------------------------------------------------------------
(* The inductive invariant.                                                 *)

\* A coroutine is being resumed, waits in the ring, or is suspended; only one
\* that is being resumed or suspended has awaiters.
TurnInv ==
    /\ at # "work" => current = NoCoro
    /\ taken = NoCtx <=> at \in {"work", "poll"}
    /\ current # NoCoro => stage[current] = 0
    /\ \A c \in Coro : stage[c] = 0 => ~done[c] /\ (c # current => awaiter[c] = <<>>)
    /\ \A i \in 1..Len(ring) : ring[i] # current /\ stage[ring[i]] = 0
    /\ \A i, j \in 1..Len(ring) : ring[i] = ring[j] => i = j
    /\ \A x \in Made : x[1] = current /\ kindOf[x] = "close" => sync < MaxSync

\* requests_to_reap covers the suspended coroutines and the one that is about
\* to suspend.
Busy == {c \in Coro : stage[c] # 0}
Counted == IF current # NoCoro /\ awaiter[current] # <<>> /\ awaiter[current][1].kind # "close"
           THEN 1 ELSE 0
ReapInv == Cardinality(Busy) + Counted <= reap

\* Descriptors and their owners.
OwnInv ==
    /\ \A x \in Made : fdOf[x] # NoFd => file[fdOf[x]] = Source(kindOf[x])
    /\ \A x, y \in Made : fdOf[x] = fdOf[y] /\ fdOf[x] # NoFd
                            => x[1] = y[1] /\ (kindOf[x] \in Own => x = y)
    /\ \A f \in Fd : file[f] \in {"eventfd", "timerfd"} => \E x \in Made : fdOf[x] = f
    /\ \A d \in ready : file[d[1]] # "none"
    /\ \A x \in Made : kindOf[x] = "file" /\ fdOf[x] # NoFd => x \in Awaited
    /\ \A x \in Made : kindOf[x] \in Own /\ (x = taken \/ x[2] < stage[x[1]]) => fdOf[x] = NoFd

\* What points to an awaiter that waits for an event.
ArmInv ==
    /\ \A r \in registered : /\ r.ctx \in Awaited /\ kindOf[r.ctx] # "close"
                             /\ fdOf[r.ctx] = r.fd /\ r.dir = Direction(kindOf[r.ctx])
                             /\ r.ctx \notin fetched /\ r.ctx # taken
    /\ \A r, s \in registered : r.ctx = s.ctx => r = s
    /\ \A x \in fetched : x \in Awaited /\ kindOf[x] # "close" /\ fdOf[x] # NoFd
    /\ taken \notin fetched
    /\ taken # NoCtx => taken \in Awaited /\ kindOf[taken] # "close"

\* What points to an awaiter the pool works for.
PoolInv ==
    /\ \A x \in Undone \cup Unsignalled : x \in Awaited /\ kindOf[x] = "file"
    /\ Undone \cap Unsignalled = {}
    /\ \A w \in Worker : worker[w].does = "waits" <=> worker[w].ctx = NoCtx
    /\ \A i, j \in 1..Len(pool) : pool[i] = pool[j] => i = j
    /\ \A w \in Worker : \A i \in 1..Len(pool) : pool[i] # worker[w].ctx
    /\ \A v, w \in Worker : worker[v].ctx = worker[w].ctx /\ v # w => worker[v].ctx = NoCtx

\* What has been written into an awaiter, and what is known of its eventfd.
DoneInv ==
    \A x \in Awaited :
        /\ kindOf[x] # "file" => (done[x[1]] <=> x = taken)
        /\ kindOf[x] = "file" =>
             /\ done[x[1]] <=> x \notin Undone
             /\ x \in fetched \cup {taken} => x \notin Undone \cup Unsignalled
             /\ fdOf[x] # NoFd =>
                  (<<fdOf[x], "in">> \in ready <=> x \notin Undone \cup Unsignalled)

\* Who waits for an event is pointed to.
KeptInv == \A x \in Awaited : fdOf[x] # NoFd /\ kindOf[x] # "close"
                                => x \in Armed \cup fetched \cup {taken}

PointInv == ArmInv /\ PoolInv /\ DoneInv /\ KeptInv
IInv == TypeOK /\ TurnInv /\ ReapInv /\ OwnInv /\ PointInv
-----------------------------------------------------------------------------
(* The operators.                                                           *)

Op == [kind : Kind, fd : Fd \cup {NoFd}]

\* A context is a coroutine with 1 or 2, and NoCtx is none.
LEMMA Contexts ==
  /\ NoCtx \notin Ctx
  /\ \A x \in Ctx : x[1] \in Coro /\ x[2] \in {1, 2} /\ x = <<x[1], x[2]>>
  /\ \A c \in Coro : <<c, 1>> \in Ctx /\ <<c, 2>> \in Ctx
  /\ \A x, y \in Ctx : x[1] = y[1] /\ x[2] = y[2] => x = y
BY IoAssumption DEF NoCtx, Ctx

\* What the types say of the awaiters.
LEMMA Awaiters ==
  ASSUME TypeOK
  PROVE  /\ Made \subseteq Ctx
         /\ \A c \in Coro : \A k \in {1, 2} : <<c, k>> \in Made <=> k <= Len(awaiter[c])
         /\ kindOf \in [Made -> Kind] /\ fdOf \in [Made -> Fd \cup {NoFd}]
         /\ Awaited \subseteq Made
         /\ \A x \in Ctx : x \in Awaited <=> stage[x[1]] = x[2]
         /\ \A x, y \in Awaited : x[1] = y[1] => x = y
<1>1. Made \subseteq Ctx
  BY DEF Made
<1>2. \A c \in Coro : \A k \in {1, 2} : <<c, k>> \in Made <=> k <= Len(awaiter[c])
  BY Contexts DEF Made
<1>3. \A x \in Made : awaiter[x[1]][x[2]] \in Op
  <2> TAKE x \in Made
  <2>1. x[1] \in Coro /\ x[2] \in {1, 2} /\ x[2] <= Len(awaiter[x[1]])
    BY Contexts DEF Made
  <2>2. awaiter[x[1]] \in Seq(Op) /\ Len(awaiter[x[1]]) \in Nat
    BY <2>1, LenProperties DEF TypeOK, Op
  <2>3. x[2] \in 1..Len(awaiter[x[1]])
    BY <2>1, <2>2
  <2> QED
    BY <2>2, <2>3, ElementOfSeq
<1>4. kindOf \in [Made -> Kind]
  BY <1>3 DEF kindOf, Op
<1>5. fdOf \in [Made -> Fd \cup {NoFd}]
  BY <1>3 DEF fdOf, Op
<1>6. \A x \in Ctx : x \in Awaited <=> stage[x[1]] = x[2]
  BY DEF Awaited
<1>7. Awaited \subseteq Made
  BY Contexts DEF Awaited, Made, TypeOK
<1>8. \A x, y \in Awaited : x[1] = y[1] => x = y
  BY Contexts DEF Awaited
<1> QED
  BY <1>1, <1>2, <1>4, <1>5, <1>6, <1>7, <1>8

\* A set of natural numbers that is not empty has a least element.
LEMMA LeastExists ==
  ASSUME NEW S \in SUBSET Nat, S # {}
  PROVE  \E f \in S : \A g \in S : f <= g
<1> DEFINE R == OpToRel(<, Nat)
<1>1. IsWellFoundedOn(R, Nat)
  BY NatLessThanWellFounded
<1>2. \A x, y \in Nat : <<y, x>> \in R <=> y < x
  BY SMT DEF OpToRel
<1> HIDE DEF R
<1>3. PICK x \in S : \A y \in S : ~ (<<y, x>> \in R)
  BY <1>1, WFMin, Zenon
<1>4. ASSUME NEW y \in S PROVE x <= y
  <2>1. x \in Nat /\ y \in Nat
    BY <1>4
  <2>2. ~(<<y, x>> \in R)
    BY <1>3, <1>4
  <2>3. ~(y < x)
    BY <1>2, <2>1, <2>2
  <2> QED
    BY <2>1, <2>3
<1> QED
  BY <1>4

\* The next descriptor is free, or there is none.
LEMMA NextFree ==
  /\ NextFd # NoFd => NextFd \in Fd /\ file[NextFd] = "none"
  /\ NextFd \in Fd \cup {NoFd}
<1>1. CASE Free = {}
  BY <1>1 DEF NextFd, NoFd, Fd
<1>2. CASE Free # {}
  <2>1. Free \in SUBSET Nat
    BY IoAssumption DEF Free, Fd
  <2>2. \E f \in Free : \A g \in Free : f <= g
    BY <1>2, <2>1, LeastExists
  <2>3. NextFd \in Free
    BY <1>2, <2>2 DEF NextFd
  <2> QED
    BY <2>3 DEF Free
<1> QED
  BY <1>1, <1>2

\* The coroutine c has got a new awaiter.
LEMMA AwaiterAdded ==
  ASSUME TypeOK, NEW c \in Coro, NEW op \in Op, Len(awaiter[c]) <= 1,
         awaiter' = [awaiter EXCEPT ![c] = Append(@, op)]
  PROVE  /\ awaiter' \in [Coro -> Seq(Op)]
         /\ \A d \in Coro : Len(awaiter'[d]) = IF d = c THEN Len(awaiter[c]) + 1
                                               ELSE Len(awaiter[d])
         /\ \E x \in Ctx : /\ x = <<c, Len(awaiter[c]) + 1>>
                           /\ x \notin Made /\ Made' = Made \cup {x}
                           /\ kindOf'[x] = op.kind /\ fdOf'[x] = op.fd
         /\ \A x \in Made : kindOf'[x] = kindOf[x] /\ fdOf'[x] = fdOf[x]
<1> DEFINE s == awaiter[c]
           n == Len(s)
           t == Append(s, op)
<1>1. s \in Seq(Op) /\ n \in {0, 1}
  <2>1. s \in Seq(Op)
    BY DEF TypeOK, Op
  <2>2. n \in Nat
    BY <2>1, LenProperties
  <2>3. n <= 1
    OBVIOUS
  <2> HIDE DEF n
  <2>4. n \in {0, 1}
    BY <2>2, <2>3
  <2> QED
    BY <2>1, <2>4
<1>2. t \in Seq(Op) /\ Len(t) = n + 1 /\ t[n + 1] = op /\ \A i \in 1..n : t[i] = s[i]
  BY <1>1, AppendProperties
<1>3. awaiter' = [awaiter EXCEPT ![c] = t]
  OBVIOUS
<1> HIDE DEF t, n
<1>4. awaiter' \in [Coro -> Seq(Op)] /\ awaiter'[c] = t /\ \A d \in Coro \ {c} : awaiter'[d] = awaiter[d]
  <2>1. awaiter \in [Coro -> Seq(Op)]
    BY DEF TypeOK, Op
  <2> HIDE DEF s
  <2> QED
    BY <1>2, <1>3, <2>1
<1>5. \A d \in Coro : Len(awaiter'[d]) = IF d = c THEN n + 1 ELSE Len(awaiter[d])
  BY <1>2, <1>4
<1> DEFINE x == <<c, n + 1>>
<1>6. x \in Ctx /\ x[1] = c /\ x[2] = n + 1
  BY <1>1 DEF Ctx
<1>7. x \notin Made
  BY <1>1, <1>6 DEF Made, n
<1>8. ASSUME NEW y \in Ctx PROVE y \in Made' <=> y \in Made \/ y = x
  <2>1. y \in Made' <=> y[2] <= Len(awaiter'[y[1]])
    BY DEF Made
  <2>2. y \in Made <=> y[2] <= Len(awaiter[y[1]])
    BY DEF Made
  <2>3. y[1] \in Coro /\ y[2] \in {1, 2} /\ y = <<y[1], y[2]>>
    BY Contexts
  <2>4. CASE y[1] = c
    <3>1. Len(awaiter'[y[1]]) = n + 1 /\ Len(awaiter[y[1]]) = n
      BY <1>5, <2>3, <2>4 DEF n
    <3>2. y = x <=> y[2] = n + 1
      BY <2>3, <2>4, <1>6
    <3> HIDE DEF x
    <3> QED
      BY <2>1, <2>2, <2>3, <3>1, <3>2, <1>1
  <2>5. CASE y[1] # c
    BY <1>5, <2>1, <2>2, <2>3, <2>5, <1>6
  <2> QED
    BY <2>4, <2>5
<1>9. Made' = Made \cup {x}
  <2>1. Made' \subseteq Ctx /\ Made \subseteq Ctx
    BY DEF Made
  <2> HIDE DEF x
  <2> QED
    BY <2>1, <1>6, <1>8
<1>10. awaiter'[x[1]][x[2]] = op
  BY <1>2, <1>4, <1>6
<1>11. ASSUME NEW y \in Made PROVE awaiter'[y[1]][y[2]] = awaiter[y[1]][y[2]]
  <2>1. y[1] \in Coro /\ y[2] \in {1, 2} /\ y[2] <= Len(awaiter[y[1]])
    BY Contexts DEF Made
  <2>2. CASE y[1] = c
    BY <1>1, <1>2, <1>4, <2>1, <2>2 DEF n
  <2>3. CASE y[1] # c
    BY <1>4, <2>1, <2>3
  <2> QED
    BY <2>2, <2>3
<1>12. kindOf'[x] = op.kind /\ fdOf'[x] = op.fd
  BY <1>9, <1>10 DEF kindOf, fdOf
<1>13. \A y \in Made : kindOf'[y] = kindOf[y] /\ fdOf'[y] = fdOf[y]
  <2> TAKE y \in Made
  <2>1. y \in Made'
    BY <1>9
  <2>2. kindOf[y] = awaiter[y[1]][y[2]].kind /\ fdOf[y] = awaiter[y[1]][y[2]].fd
    BY DEF kindOf, fdOf
  <2>3. kindOf'[y] = awaiter'[y[1]][y[2]].kind /\ fdOf'[y] = awaiter'[y[1]][y[2]].fd
    BY <2>1 DEF kindOf, fdOf
  <2> QED
    BY <1>11, <2>2, <2>3
<1> QED
  BY <1>4, <1>5, <1>6, <1>7, <1>9, <1>12, <1>13 DEF n

\* The coroutine c has no awaiter any more.
LEMMA AwaitersGone ==
  ASSUME TypeOK, NEW c \in Coro, awaiter' = [awaiter EXCEPT ![c] = <<>>]
  PROVE  /\ awaiter' \in [Coro -> Seq(Op)]
         /\ \A d \in Coro : Len(awaiter'[d]) = IF d = c THEN 0 ELSE Len(awaiter[d])
         /\ Made' = {x \in Made : x[1] # c}
         /\ \A x \in Made' : kindOf'[x] = kindOf[x] /\ fdOf'[x] = fdOf[x]
<1>1. awaiter \in [Coro -> Seq(Op)]
  BY DEF TypeOK, Op
<1>2. <<>> \in Seq(Op) /\ Len(<<>>) = 0
  BY EmptySeq
<1>3. awaiter' \in [Coro -> Seq(Op)] /\ awaiter'[c] = <<>> /\ \A d \in Coro \ {c} : awaiter'[d] = awaiter[d]
  BY <1>1, <1>2
<1>4. \A d \in Coro : Len(awaiter'[d]) = IF d = c THEN 0 ELSE Len(awaiter[d])
  BY <1>2, <1>3
<1>5. ASSUME NEW x \in Ctx PROVE x \in Made' <=> x \in Made /\ x[1] # c
  BY <1>4, Contexts DEF Made
<1>6. Made' = {x \in Made : x[1] # c}
  <2>1. Made' \subseteq Ctx /\ Made \subseteq Ctx
    BY DEF Made
  <2> QED
    BY <1>5, <2>1
<1>7. ASSUME NEW x \in Made' PROVE kindOf'[x] = kindOf[x] /\ fdOf'[x] = fdOf[x]
  <2>1. x \in Made /\ x[1] \in Coro \ {c}
    BY <1>6, Contexts DEF Made
  <2>2. kindOf[x] = awaiter[x[1]][x[2]].kind /\ fdOf[x] = awaiter[x[1]][x[2]].fd
    BY <2>1 DEF kindOf, fdOf
  <2>3. kindOf'[x] = awaiter'[x[1]][x[2]].kind /\ fdOf'[x] = awaiter'[x[1]][x[2]].fd
    BY DEF kindOf, fdOf
  <2> QED
    BY <1>3, <2>1, <2>2, <2>3
<1> QED
  BY <1>3, <1>4, <1>6, <1>7

\* The awaiter x has got another descriptor.
LEMMA DescriptorSet ==
  ASSUME TypeOK, NEW x \in Made, NEW f \in Fd \cup {NoFd},
         awaiter' = [awaiter EXCEPT ![x[1]][x[2]].fd = f]
  PROVE  /\ awaiter' \in [Coro -> Seq(Op)]
         /\ \A d \in Coro : Len(awaiter'[d]) = Len(awaiter[d])
         /\ Made' = Made
         /\ \A y \in Made : kindOf'[y] = kindOf[y] /\ fdOf'[y] = IF y = x THEN f ELSE fdOf[y]
<1> DEFINE c == x[1]
           k == x[2]
           s == awaiter[c]
           op == [s[k] EXCEPT !.fd = f]
           t == [s EXCEPT ![k] = op]
<1>0. c \in Coro /\ k \in {1, 2} /\ k <= Len(s) /\ x = <<c, k>> /\ x \in Ctx
  BY Contexts DEF Made
<1>1. awaiter \in [Coro -> Seq(Op)]
  BY DEF TypeOK, Op
<1>2. s \in Seq(Op) /\ Len(s) \in Nat
  BY <1>0, <1>1, LenProperties
<1> DEFINE n == Len(s)
<1>3. k \in 1..n
  <2> HIDE DEF s, k, c
  <2> QED
    BY <1>0, <1>2
<1>4. s[k] \in Op
  BY <1>2, <1>3, ElementOfSeq
<1>5. op \in Op /\ op.kind = s[k].kind /\ op.fd = f
  BY <1>4 DEF Op
<1>6. awaiter' = [awaiter EXCEPT ![c] = t]
  OBVIOUS
<1> HIDE DEF op
<1>7. t \in Seq(Op) /\ Len(t) = n /\ t[k] = op /\ \A j \in 1..n : j # k => t[j] = s[j]
  <2> HIDE DEF s, k
  <2> QED
    BY <1>2, <1>3, <1>5, ExceptSeq
<1> HIDE DEF t, n
<1>8. awaiter' \in [Coro -> Seq(Op)] /\ awaiter'[c] = t /\ \A d \in Coro \ {c} : awaiter'[d] = awaiter[d]
  <2> HIDE DEF s, c
  <2> QED
    BY <1>0, <1>1, <1>6, <1>7
<1>9. \A d \in Coro : Len(awaiter'[d]) = Len(awaiter[d])
  BY <1>7, <1>8 DEF n
<1>10. Made' = Made
  BY <1>9, Contexts DEF Made
<1>11. ASSUME NEW y \in Made
       PROVE  kindOf'[y] = kindOf[y] /\ fdOf'[y] = IF y = x THEN f ELSE fdOf[y]
  <2>1. y[1] \in Coro /\ y[2] \in {1, 2} /\ y[2] <= Len(awaiter[y[1]]) /\ y = <<y[1], y[2]>>
    BY Contexts DEF Made
  <2>2. kindOf[y] = awaiter[y[1]][y[2]].kind /\ fdOf[y] = awaiter[y[1]][y[2]].fd
    BY DEF kindOf, fdOf
  <2>3. kindOf'[y] = awaiter'[y[1]][y[2]].kind /\ fdOf'[y] = awaiter'[y[1]][y[2]].fd
    BY <1>10 DEF kindOf, fdOf
  <2>4. CASE y = x
    BY <1>5, <1>7, <1>8, <2>2, <2>3, <2>4
  <2>5. CASE y # x
    <3>1. awaiter'[y[1]][y[2]] = awaiter[y[1]][y[2]]
      <4>1. CASE y[1] = c
        <5>1. y[2] # k
          BY <1>0, <2>1, <2>5, <4>1
        <5>2. awaiter'[y[1]] = t /\ awaiter[y[1]] = s
          BY <1>8, <4>1
        <5>3. y[2] \in 1..n
          BY <1>2, <2>1, <4>1 DEF n
        <5> QED
          BY <1>7, <5>1, <5>2, <5>3
      <4>2. CASE y[1] # c
        BY <1>8, <2>1, <4>2
      <4> QED
        BY <4>1, <4>2
    <3> QED
      BY <2>2, <2>3, <2>5, <3>1
  <2> QED
    BY <2>4, <2>5
<1> QED
  BY <1>8, <1>9, <1>10, <1>11

\* The coroutine c waits for its awaiter k now, or for none.
LEMMA StageSet ==
  ASSUME TypeOK, NEW c \in Coro, NEW k \in 0..2, stage' = [stage EXCEPT ![c] = k]
  PROVE  /\ stage' \in [Coro -> 0..2]
         /\ \A x \in Ctx : x \in Awaited' <=> IF x[1] = c THEN x[2] = k ELSE x \in Awaited
<1>1. stage' \in [Coro -> 0..2] /\ stage'[c] = k /\ \A d \in Coro \ {c} : stage'[d] = stage[d]
  BY DEF TypeOK
<1>2. ASSUME NEW x \in Ctx
      PROVE  x \in Awaited' <=> IF x[1] = c THEN x[2] = k ELSE x \in Awaited
  <2>1. x[1] \in Coro
    BY Contexts
  <2>2. x \in Awaited' <=> stage'[x[1]] = x[2]
    BY DEF Awaited
  <2>3. x \in Awaited <=> stage[x[1]] = x[2]
    BY DEF Awaited
  <2> QED
    BY <1>1, <2>1, <2>2, <2>3
<1> QED
  BY <1>1, <1>2

\* Nobody has an operation of another kind under way when nothing of the
\* awaiters changes.
LEMMA AwaitersKept ==
  ASSUME awaiter' = awaiter
  PROVE  Made' = Made /\ kindOf' = kindOf /\ fdOf' = fdOf
BY DEF Made, kindOf, fdOf

\* What the pool has to do stays the same.
LEMMA PoolKept ==
  ASSUME pool' = pool, worker' = worker
  PROVE  Undone' = Undone /\ Unsignalled' = Unsignalled
BY DEF Undone, Unsignalled

\* The pool gets the context x to do.
LEMMA PoolAdded ==
  ASSUME TypeOK, NEW x \in Ctx, pool' = Append(pool, x), worker' = worker
  PROVE  /\ pool' \in Seq(Ctx)
         /\ Undone' = Undone \cup {x} /\ Unsignalled' = Unsignalled
         /\ \A i \in 1..Len(pool') : \/ i \in 1..Len(pool) /\ pool'[i] = pool[i]
                                     \/ i = Len(pool) + 1 /\ pool'[i] = x
<1>1. pool \in Seq(Ctx)
  BY DEF TypeOK
<1> DEFINE n == Len(pool)
<1>2. n \in Nat /\ pool' \in Seq(Ctx) /\ Len(pool') = n + 1 /\ pool'[n + 1] = x
      /\ \A i \in 1..n : pool'[i] = pool[i]
  BY <1>1, AppendProperties, LenProperties
<1> HIDE DEF n
<1>3. \A i \in 1..Len(pool') : \/ i \in 1..n /\ pool'[i] = pool[i]
                               \/ i = n + 1 /\ pool'[i] = x
  <2> DEFINE m == Len(pool')
  <2>1. m = n + 1
    BY <1>2
  <2> HIDE DEF m
  <2>2. \A i \in 1..m : i \in 1..n \/ i = n + 1
    BY <1>2, <2>1
  <2>3. \A i \in 1..m : \/ i \in 1..n /\ pool'[i] = pool[i]
                        \/ i = n + 1 /\ pool'[i] = x
    BY <1>2, <2>2
  <2> QED
    BY <2>3 DEF m
<1>4. {pool'[i] : i \in 1..Len(pool')} = {pool[i] : i \in 1..n} \cup {x}
  <2>1. \A i \in 1..n : i \in 1..Len(pool')
    BY <1>2
  <2>2. n + 1 \in 1..Len(pool')
    BY <1>2
  <2> QED
    BY <1>2, <1>3, <2>1, <2>2
<1>5. Undone' = Undone \cup {x}
  <2>1. Undone' = {pool'[i] : i \in 1..Len(pool')}
                 \cup {worker[w].ctx : w \in {v \in Worker : worker[v].does = "io"}}
    BY DEF Undone
  <2>2. Undone = {pool[i] : i \in 1..n}
                 \cup {worker[w].ctx : w \in {v \in Worker : worker[v].does = "io"}}
    BY DEF Undone, n
  <2> HIDE DEF n
  <2> QED
    BY <1>4, <2>1, <2>2
<1>6. Unsignalled' = Unsignalled
  BY DEF Unsignalled
<1> QED
  BY <1>2, <1>3, <1>5, <1>6 DEF n

-----------------------------------------------------------------------------
(* The issue of an operation.                                               *)

\* What do_issue_io and register_with_epoll find: nobody points to an awaiter
\* of the coroutine, and what it has performed has no descriptor any more.
Issuable(c, k) ==
    /\ <<c, k>> \in Made
    /\ taken = NoCtx \/ taken[1] = c
    /\ \A x \in Ctx : x[1] = c => x \notin Armed \cup fetched \cup Undone \cup Unsignalled
    /\ \A x \in Made : x[1] = c /\ kindOf[x] = "file" => fdOf[x] = NoFd
    /\ \A x \in Made : x[1] = c /\ x[2] < k /\ kindOf[x] \in Own => fdOf[x] = NoFd

IssueStep(c, k) ==
    /\ Issue(c, k)
    /\ stage' = [stage EXCEPT ![c] = k] /\ done' = [done EXCEPT ![c] = FALSE]
    /\ taken' = NoCtx
    /\ UNCHANGED <<ready, fetched, worker>>

\* A registration for x in addition to those there are.
Registration(x, kind, f) == [fd |-> f, dir |-> Direction(kind), ctx |-> x]

\* What the issue of an operation does.
LEMMA Issued ==
  ASSUME TypeOK, OwnInv, ArmInv, NEW c \in Coro, NEW k \in {1, 2}, NEW x, x = <<c, k>>,
         Issuable(c, k), IssueStep(c, k)
  PROVE  /\ awaiter' \in [Coro -> Seq(Op)]
         /\ \A d \in Coro : Len(awaiter'[d]) = Len(awaiter[d])
         /\ Made' = Made
         /\ \A y \in Made : kindOf'[y] = kindOf[y] /\ (y # x => fdOf'[y] = fdOf[y])
         /\ IF kindOf[x] = "file"
            THEN /\ fdOf'[x] = NextFd /\ file' = Open(NextFd, "eventfd")
                 /\ pool' = Append(pool, x)
            ELSE fdOf'[x] = fdOf[x] /\ file' = file /\ pool' = pool
         /\ registered' = IF fdOf'[x] = NoFd \/ kindOf[x] = "close" THEN registered
                          ELSE registered \cup {Registration(x, kindOf[x], fdOf'[x])}
<1> DEFINE op == awaiter[c][k]
<1>1. x \in Made /\ x \in Ctx /\ x[1] = c /\ x[2] = k
  BY DEF Issuable, Made
<1>2. kindOf[x] = op.kind /\ fdOf[x] = op.fd
  BY <1>1 DEF kindOf, fdOf
<1>3. kindOf \in [Made -> Kind] /\ fdOf \in [Made -> Fd \cup {NoFd}] /\ Awaited \subseteq Made
  BY Awaiters
<1>4. awaiter \in [Coro -> Seq(Op)]
  BY DEF TypeOK, Op
<1>5. Issue(c, k)
  BY DEF IssueStep
<1> HIDE DEF op
<1>6. NoFd \notin Fd
  BY DEF NoFd, Fd
<1>7. \A r \in registered : r.fd \in Fd /\ r.ctx \in Made /\ fdOf[r.ctx] = r.fd /\ r.ctx[1] # c
  <2> TAKE r \in registered
  <2>1. r.fd \in Fd /\ r.ctx \in Ctx /\ r.ctx \in Armed
    BY DEF TypeOK, Armed
  <2>2. r.ctx \in Made /\ fdOf[r.ctx] = r.fd
    BY <1>3 DEF ArmInv
  <2>3. r.ctx[1] # c
    BY <2>1 DEF Issuable
  <2> QED
    BY <2>1, <2>2, <2>3
<1>8. CASE op.kind = "close"
  <2>1. file' = file /\ registered' = registered /\ awaiter' = awaiter /\ pool' = pool
    BY <1>5, <1>8 DEF Issue, op
  <2>2. Made' = Made /\ kindOf' = kindOf /\ fdOf' = fdOf
    BY <2>1, AwaitersKept
  <2> QED
    BY <1>2, <1>4, <1>8, <2>1, <2>2
<1>9. CASE op.kind = "file"
  <2>1. file' = Open(NextFd, "eventfd") /\ awaiter' = [awaiter EXCEPT ![c][k].fd = NextFd]
        /\ registered' = Register(NextFd, "file", x) /\ pool' = Append(pool, x)
    BY <1>5, <1>9 DEF Issue, op
  <2>2. NextFd \in Fd \cup {NoFd} /\ (NextFd # NoFd => NextFd \in Fd /\ file[NextFd] = "none")
    BY NextFree
  <2>3. awaiter' = [awaiter EXCEPT ![x[1]][x[2]].fd = NextFd]
    BY <1>1, <2>1
  <2>4. /\ awaiter' \in [Coro -> Seq(Op)]
        /\ \A d \in Coro : Len(awaiter'[d]) = Len(awaiter[d])
        /\ Made' = Made
        /\ \A y \in Made : kindOf'[y] = kindOf[y] /\ fdOf'[y] = IF y = x THEN NextFd ELSE fdOf[y]
    BY <1>1, <2>2, <2>3, DescriptorSet
  <2>5. ASSUME NEW r \in registered PROVE r.fd # NextFd
    <3>1. file[r.fd] = Source(kindOf[r.ctx]) /\ r.fd \in Fd
      BY <1>6, <1>7 DEF OwnInv
    <3>2. file[r.fd] # "none"
      BY <3>1 DEF Source
    <3> QED
      BY <1>6, <2>2, <3>1, <3>2
  <2>6. registered' = IF NextFd = NoFd THEN registered
                      ELSE registered \cup {Registration(x, "file", NextFd)}
    BY <2>1, <2>5 DEF Register, Registration
  <2> QED
    BY <1>1, <1>2, <1>9, <2>1, <2>4, <2>6
<1>10. CASE op.kind \notin {"close", "file"}
  <2>1. /\ registered' = IF op.fd \in Free THEN registered ELSE Register(op.fd, op.kind, x)
        /\ file' = file /\ awaiter' = awaiter /\ pool' = pool
    BY <1>5, <1>10 DEF Issue, op
  <2>2. Made' = Made /\ kindOf' = kindOf /\ fdOf' = fdOf
    BY <2>1, AwaitersKept
  <2>3. op.fd \notin Free
    <3>1. op.fd # NoFd => file[op.fd] = Source(op.kind)
      BY <1>1, <1>2 DEF OwnInv
    <3>2. op.fd # NoFd => file[op.fd] # "none"
      BY <3>1 DEF Source
    <3> QED
      BY <1>6, <3>2 DEF Free
  <2>4. ASSUME NEW r \in registered, op.fd # NoFd PROVE r.fd # op.fd
    BY <1>1, <1>2, <1>7, <2>4 DEF OwnInv
  <2>5. registered' = IF op.fd = NoFd THEN registered
                      ELSE registered \cup {Registration(x, op.kind, op.fd)}
    <3>1. registered' = Register(op.fd, op.kind, x)
      BY <2>1, <2>3
    <3>2. CASE op.fd = NoFd
      BY <3>1, <3>2 DEF Register
    <3>3. CASE op.fd # NoFd
      <4>1. {r \in registered : r.fd # op.fd} = registered
        BY <2>4, <3>3
      <4> QED
        BY <3>1, <3>3, <4>1 DEF Register, Registration
    <3> QED
      BY <3>2, <3>3
  <2> QED
    BY <1>2, <1>4, <1>10, <2>1, <2>2, <2>5
<1> QED
  BY <1>8, <1>9, <1>10

\* After the issue the operation is registered for, or the pool's, and nothing
\* else has changed.
LEMMA IssueKeeps ==
  ASSUME TypeOK, OwnInv, PointInv, NEW c \in Coro, NEW k \in {1, 2},
         Issuable(c, k), IssueStep(c, k)
  PROVE  /\ file' \in [Fd -> {"none", "socket", "eventfd", "timerfd"}]
         /\ registered' \subseteq [fd : Fd, dir : {"in", "out"}, ctx : Ctx]
         /\ awaiter' \in [Coro -> Seq(Op)]
         /\ \A d \in Coro : Len(awaiter'[d]) = Len(awaiter[d])
         /\ stage' \in [Coro -> 0..2] /\ done' \in [Coro -> BOOLEAN]
         /\ pool' \in Seq(Ctx)
         /\ OwnInv' /\ PointInv'
<1> DEFINE x == <<c, k>>
           f == fdOf'[x]
           kind == kindOf[x]
<1>1. /\ awaiter' \in [Coro -> Seq(Op)]
      /\ \A d \in Coro : Len(awaiter'[d]) = Len(awaiter[d])
      /\ Made' = Made
      /\ \A y \in Made : kindOf'[y] = kindOf[y] /\ (y # x => fdOf'[y] = fdOf[y])
      /\ IF kind = "file"
         THEN f = NextFd /\ file' = Open(NextFd, "eventfd") /\ pool' = Append(pool, x)
         ELSE f = fdOf[x] /\ file' = file /\ pool' = pool
      /\ registered' = IF f = NoFd \/ kind = "close" THEN registered
                       ELSE registered \cup {Registration(x, kind, f)}
  <2> HIDE DEF f, kind
  <2> DEFINE y == x
  <2> HIDE DEF y
  <2>1. y = <<c, k>> /\ y = x
    BY DEF y
  <2> HIDE DEF x
  <2> QED
    BY <2>1, Issued DEF PointInv, f, kind
<1>2. x \in Made /\ x \in Ctx /\ x[1] = c /\ x[2] = k /\ x # NoCtx
  BY Contexts DEF Issuable, Made
<1>3. /\ stage' = [stage EXCEPT ![c] = k] /\ done' = [done EXCEPT ![c] = FALSE]
      /\ taken' = NoCtx /\ ready' = ready /\ fetched' = fetched /\ worker' = worker
  BY DEF IssueStep
<1>4. /\ taken = NoCtx \/ taken[1] = c
      /\ \A y \in Ctx : y[1] = c => y \notin Armed \cup fetched \cup Undone \cup Unsignalled
      /\ \A y \in Made : y[1] = c /\ kindOf[y] = "file" => fdOf[y] = NoFd
      /\ \A y \in Made : y[1] = c /\ y[2] < k /\ kindOf[y] \in Own => fdOf[y] = NoFd
  BY DEF Issuable
<1>5. /\ Made \subseteq Ctx /\ kindOf \in [Made -> Kind] /\ fdOf \in [Made -> Fd \cup {NoFd}]
      /\ Awaited \subseteq Made /\ \A y, z \in Awaited : y[1] = z[1] => y = z
      /\ \A y \in Ctx : y \in Awaited <=> stage[y[1]] = y[2]
  BY Awaiters
<1>6. /\ stage' \in [Coro -> 0..2]
      /\ \A y \in Ctx : y \in Awaited' <=> IF y[1] = c THEN y[2] = k ELSE y \in Awaited
  <2>1. k \in 0..2
    OBVIOUS
  <2> QED
    BY <1>3, <2>1, StageSet
<1>7. /\ done' \in [Coro -> BOOLEAN] /\ ~done'[c]
      /\ \A d \in Coro \ {c} : done'[d] = done[d]
  BY <1>3 DEF TypeOK
<1>8. /\ NoFd \notin Fd /\ NextFd \in Fd \cup {NoFd}
      /\ NextFd # NoFd => NextFd \in Fd /\ file[NextFd] = "none"
  BY NextFree DEF NoFd, Fd
<1>9. /\ pool' \in Seq(Ctx) /\ Unsignalled' = Unsignalled
      /\ Undone' = IF kind = "file" THEN Undone \cup {x} ELSE Undone
  <2>1. CASE kind = "file"
    BY <1>1, <1>2, <1>3, <2>1, PoolAdded
  <2>2. CASE kind # "file"
    BY <1>1, <1>3, <2>2, PoolKept DEF TypeOK
  <2> QED
    BY <2>1, <2>2
<1> HIDE DEF x, f, kind
<1>10. file \in [Fd -> {"none", "socket", "eventfd", "timerfd"}] /\ ready \subseteq Fd \X {"in", "out"}
       /\ registered \subseteq [fd : Fd, dir : {"in", "out"}, ctx : Ctx]
  BY DEF TypeOK
<1>11. /\ file' \in [Fd -> {"none", "socket", "eventfd", "timerfd"}]
       /\ \A g \in Fd : file'[g] = IF kind = "file" /\ g = f THEN "eventfd" ELSE file[g]
  <2>1. CASE kind = "file" /\ f # NoFd
    <3>1. f \in Fd /\ file' = [file EXCEPT ![f] = "eventfd"]
      BY <1>1, <1>8, <2>1 DEF Open
    <3> QED
      BY <1>10, <2>1, <3>1
  <2>2. CASE kind # "file" \/ f = NoFd
    <3>1. file' = file
      BY <1>1, <2>2 DEF Open
    <3> QED
      BY <1>8, <1>10, <2>2, <3>1
  <2> QED
    BY <2>1, <2>2
<1>12. f \in Fd \cup {NoFd}
  BY <1>1, <1>2, <1>5, <1>8
<1>13. /\ registered' \subseteq [fd : Fd, dir : {"in", "out"}, ctx : Ctx]
       /\ \A r \in registered' : \/ r \in registered
                                 \/ /\ f # NoFd /\ kind # "close"
                                    /\ r.fd = f /\ r.dir = Direction(kind) /\ r.ctx = x
       /\ registered \subseteq registered'
       /\ f # NoFd /\ kind # "close" => x \in Armed'
  <2>1. f # NoFd => Registration(x, kind, f) \in [fd : Fd, dir : {"in", "out"}, ctx : Ctx]
    BY <1>2, <1>12 DEF Registration, Direction
  <2>2. Registration(x, kind, f).fd = f /\ Registration(x, kind, f).dir = Direction(kind)
        /\ Registration(x, kind, f).ctx = x
    BY DEF Registration
  <2> QED
    BY <1>1, <1>10, <2>1, <2>2 DEF Armed
<1>14. \A g \in Fd : f = g /\ kind = "file" => file[g] = "none"
  BY <1>1, <1>8
<1>15. \A y \in Made : fdOf[y] # NoFd => file[fdOf[y]] # "none"
  BY DEF OwnInv, Source
<1>16. OwnInv'
  <2>1. \A y \in Made : fdOf'[y] # NoFd => file'[fdOf'[y]] = Source(kindOf'[y])
    <3> SUFFICES ASSUME NEW y \in Made, fdOf'[y] # NoFd
                 PROVE  file'[fdOf'[y]] = Source(kindOf'[y])
      OBVIOUS
    <3>1. CASE y = x /\ kind = "file"
      BY <1>1, <1>11, <1>12, <3>1 DEF Source, f, kind
    <3>2. CASE y # x \/ kind # "file"
      <4>1. fdOf'[y] = fdOf[y] /\ kindOf'[y] = kindOf[y] /\ fdOf[y] \in Fd
        BY <1>1, <1>5, <3>2 DEF f, kind
      <4>2. file[fdOf[y]] = Source(kindOf[y])
        BY <4>1, <1>8 DEF OwnInv
      <4> QED
        BY <1>8, <1>11, <1>14, <1>15, <4>1, <4>2
    <3> QED
      BY <3>1, <3>2
  <2>2. \A y, z \in Made : fdOf'[y] = fdOf'[z] /\ fdOf'[y] # NoFd
                            => y[1] = z[1] /\ (kindOf'[y] \in Own => y = z)
    <3> SUFFICES ASSUME NEW y \in Made, NEW z \in Made, fdOf'[y] = fdOf'[z], fdOf'[y] # NoFd
                 PROVE  y[1] = z[1] /\ (kindOf'[y] \in Own => y = z)
      OBVIOUS
    <3>1. CASE kind = "file"
      <4>1. \A v \in Made : v # x => fdOf'[v] = fdOf[v] /\ fdOf[v] \in Fd \cup {NoFd}
        BY <1>1, <1>5
      <4>2. \A v \in Made : v # x /\ f # NoFd => fdOf'[v] # f
        BY <1>8, <1>14, <1>15, <1>12, <3>1, <4>1
      <4>3. CASE y = x \/ z = x
        BY <4>2, <4>3 DEF f
      <4>4. CASE y # x /\ z # x
        BY <1>1, <4>1, <4>4 DEF OwnInv
      <4> QED
        BY <4>3, <4>4
    <3>2. CASE kind # "file"
      BY <1>1, <3>2 DEF OwnInv, f, kind
    <3> QED
      BY <3>1, <3>2
  <2>3. \A g \in Fd : file'[g] \in {"eventfd", "timerfd"} => \E y \in Made : fdOf'[y] = g
    <3> SUFFICES ASSUME NEW g \in Fd, file'[g] \in {"eventfd", "timerfd"}
                 PROVE  \E y \in Made : fdOf'[y] = g
      OBVIOUS
    <3>1. CASE kind = "file" /\ g = f
      BY <1>2, <3>1 DEF f
    <3>2. CASE ~(kind = "file" /\ g = f)
      <4>1. file[g] \in {"eventfd", "timerfd"}
        BY <1>11, <3>2
      <4>2. PICK y \in Made : fdOf[y] = g
        BY <4>1 DEF OwnInv
      <4>3. kind = "file" => y # x
        BY <1>4, <1>2, <1>8, <4>2 DEF kind
      <4> QED
        BY <1>1, <4>2, <4>3 DEF f
    <3> QED
      BY <3>1, <3>2
  <2>4. \A d \in ready : file'[d[1]] # "none"
    <3>1. \A d \in ready : d[1] \in Fd /\ file[d[1]] # "none"
      BY <1>10 DEF OwnInv
    <3> QED
      BY <1>11, <3>1
  <2>5. \A y \in Made : kindOf'[y] = "file" /\ fdOf'[y] # NoFd => y \in Awaited'
    <3> SUFFICES ASSUME NEW y \in Made, kindOf'[y] = "file", fdOf'[y] # NoFd
                 PROVE  y \in Awaited'
      OBVIOUS
    <3>1. CASE y = x
      BY <1>2, <1>6, <3>1
    <3>2. CASE y # x
      BY <1>1, <1>4, <1>5, <1>6, <3>2 DEF OwnInv
    <3> QED
      BY <3>1, <3>2
  <2>6. \A y \in Made : kindOf'[y] \in Own /\ (y = taken' \/ y[2] < stage'[y[1]])
                        => fdOf'[y] = NoFd
    <3> SUFFICES ASSUME NEW y \in Made, kindOf'[y] \in Own, y = taken' \/ y[2] < stage'[y[1]]
                 PROVE  fdOf'[y] = NoFd
      OBVIOUS
    <3>1. y[1] \in Coro /\ y \in Ctx /\ y # NoCtx /\ kindOf[y] \in Own
      BY <1>1, <1>5, Contexts
    <3>2. y[2] < stage'[y[1]]
      BY <1>3, <3>1
    <3>3. CASE y[1] = c
      <4>1. stage'[y[1]] = k
        BY <1>3, <3>3 DEF TypeOK
      <4>2. y # x /\ y[2] < k
        BY <1>2, <3>2, <4>1
      <4> QED
        BY <1>1, <1>4, <3>1, <3>3, <4>2
    <3>4. CASE y[1] # c
      <4>1. stage'[y[1]] = stage[y[1]]
        BY <1>3, <3>1, <3>4 DEF TypeOK
      <4>2. y # x
        BY <1>2, <3>4
      <4> QED
        BY <1>1, <3>1, <3>2, <4>1, <4>2 DEF OwnInv
    <3> QED
      BY <3>3, <3>4
  <2> QED
    BY <1>1, <1>3, <2>1, <2>2, <2>3, <2>4, <2>5, <2>6 DEF OwnInv
<1>17. \A y \in Awaited : y[1] # c => y \in Awaited' /\ y # x
  BY <1>2, <1>5, <1>6
<1>18. ArmInv'
  <2>1. ASSUME NEW r \in registered'
        PROVE  /\ r.ctx \in Awaited' /\ kindOf'[r.ctx] # "close"
               /\ fdOf'[r.ctx] = r.fd /\ r.dir = Direction(kindOf'[r.ctx])
               /\ r.ctx \notin fetched' /\ r.ctx # taken'
    <3>1. CASE r \in registered
      <4>1. /\ r.ctx \in Awaited /\ kindOf[r.ctx] # "close"
            /\ fdOf[r.ctx] = r.fd /\ r.dir = Direction(kindOf[r.ctx])
            /\ r.ctx \notin fetched
        BY <3>1 DEF PointInv, ArmInv
      <4>2. r.ctx \in Armed
        BY <3>1 DEF Armed
      <4>3. r.ctx \in Ctx /\ r.ctx \in Made /\ r.ctx[1] # c
        BY <1>4, <1>5, <4>1, <4>2
      <4>4. r.ctx # NoCtx
        BY <4>3, Contexts
      <4> QED
        BY <1>1, <1>3, <1>17, <4>1, <4>3, <4>4
    <3>2. CASE /\ f # NoFd /\ kind # "close"
               /\ r.fd = f /\ r.dir = Direction(kind) /\ r.ctx = x
      <4>1. x \in Awaited' /\ x \notin fetched
        BY <1>2, <1>4, <1>6
      <4> QED
        BY <1>1, <1>2, <1>3, <3>2, <4>1 DEF f, kind
    <3> QED
      BY <1>13, <3>1, <3>2
  <2>2. \A r, s \in registered' : r.ctx = s.ctx => r = s
    <3>1. \A r \in registered : r.ctx # x
      BY <1>2, <1>4 DEF Armed
    <3>2. \A r, s \in registered : r.ctx = s.ctx => r = s
      BY DEF PointInv, ArmInv
    <3>3. registered' = registered \/ registered' = registered \cup {Registration(x, kind, f)}
      BY <1>1
    <3>4. Registration(x, kind, f).ctx = x
      BY DEF Registration
    <3> QED
      BY <3>1, <3>2, <3>3, <3>4
  <2>3. \A y \in fetched' : y \in Awaited' /\ kindOf'[y] # "close" /\ fdOf'[y] # NoFd
    <3> TAKE y \in fetched'
    <3>1. y \in fetched /\ y \in Awaited /\ kindOf[y] # "close" /\ fdOf[y] # NoFd
      BY <1>3 DEF PointInv, ArmInv
    <3>2. y \in Made /\ y[1] # c
      BY <1>4, <1>5, <3>1
    <3> QED
      BY <1>1, <1>17, <3>1, <3>2
  <2>4. taken' \notin fetched' /\ taken' = NoCtx
    BY <1>3, Contexts DEF TypeOK
  <2> QED
    BY <2>1, <2>2, <2>3, <2>4 DEF ArmInv
<1>19. PoolInv'
  <2>1. \A y \in Undone \cup Unsignalled : y \in Awaited /\ kindOf[y] = "file" /\ y[1] # c
    BY <1>4, <1>5 DEF PointInv, PoolInv
  <2>2. \A y \in Undone' \cup Unsignalled' : y \in Awaited' /\ kindOf'[y] = "file"
    <3>1. x \in Awaited'
      BY <1>2, <1>6
    <3> QED
      BY <1>1, <1>2, <1>5, <1>9, <1>17, <2>1, <3>1 DEF kind
  <2>3. Undone' \cap Unsignalled' = {}
    BY <1>2, <1>4, <1>9 DEF PointInv, PoolInv
  <2>4. x \notin Undone /\ x \notin Unsignalled
    BY <1>2, <1>4
  <2>5. \A i \in 1..Len(pool) : pool[i] # x
    BY <2>4 DEF Undone
  <2>6. \A w \in Worker : worker[w].ctx # x
    <3> TAKE w \in Worker
    <3>1. worker[w].does \in {"waits", "io", "signals"}
      BY DEF TypeOK
    <3>2. worker[w].does = "waits" <=> worker[w].ctx = NoCtx
      BY DEF PointInv, PoolInv
    <3> QED
      BY <1>2, <2>4, <3>1, <3>2 DEF Undone, Unsignalled
  <2>7. \A w \in Worker : worker[w].does = "waits" <=> worker[w].ctx = NoCtx
    BY DEF PointInv, PoolInv
  <2>8. \A v, w \in Worker : worker[v].ctx = worker[w].ctx /\ v # w => worker[v].ctx = NoCtx
    BY DEF PointInv, PoolInv
  <2>9. /\ \A i, j \in 1..Len(pool) : pool[i] = pool[j] => i = j
        /\ \A w \in Worker : \A i \in 1..Len(pool) : pool[i] # worker[w].ctx
    BY DEF PointInv, PoolInv
  <2>10. /\ \A i, j \in 1..Len(pool') : pool'[i] = pool'[j] => i = j
         /\ \A w \in Worker : \A i \in 1..Len(pool') : pool'[i] # worker[w].ctx
    <3>1. CASE kind = "file"
      <4>1. \A i \in 1..Len(pool') :
                \/ i \in 1..Len(pool) /\ pool'[i] = pool[i]
                \/ i = Len(pool) + 1 /\ pool'[i] = x
        BY <1>1, <1>2, <1>3, <3>1, PoolAdded
      <4> QED
        BY <2>5, <2>6, <2>9, <4>1
    <3>2. CASE kind # "file"
      BY <1>1, <2>9, <3>2
    <3> QED
      BY <3>1, <3>2
  <2> QED
    BY <1>3, <2>2, <2>3, <2>7, <2>8, <2>10 DEF PoolInv
<1>20. DoneInv'
  <2> SUFFICES ASSUME NEW y \in Awaited'
               PROVE  /\ kindOf'[y] # "file" => (done'[y[1]] <=> y = taken')
                      /\ kindOf'[y] = "file" =>
                           /\ done'[y[1]] <=> y \notin Undone'
                           /\ y \in fetched' \cup {taken'} => y \notin Undone' \cup Unsignalled'
                           /\ fdOf'[y] # NoFd =>
                                (<<fdOf'[y], "in">> \in ready' <=> y \notin Undone' \cup Unsignalled')
    BY DEF DoneInv
  <2>1. y \in Ctx /\ y[1] \in Coro /\ y # NoCtx
    BY Contexts DEF Awaited
  <2>2. CASE y[1] = c
    <3>1. y = x
      BY <1>2, <1>6, <2>1, <2>2, Contexts
    <3>2. ~done'[y[1]] /\ y # taken' /\ y \notin fetched'
      BY <1>2, <1>3, <1>4, <1>7, <3>1
    <3>3. kindOf'[y] = kind
      BY <1>1, <1>2, <3>1 DEF kind
    <3>4. kind = "file" => y \in Undone'
      BY <1>9, <3>1
    <3>5. ASSUME kind = "file", fdOf'[y] # NoFd PROVE <<fdOf'[y], "in">> \notin ready
      <4>1. fdOf'[y] \in Fd /\ file[fdOf'[y]] = "none"
        BY <1>1, <1>8, <3>1, <3>5 DEF f
      <4> QED
        BY <4>1 DEF OwnInv
    <3> QED
      BY <1>3, <3>2, <3>3, <3>4, <3>5
  <2>3. CASE y[1] # c
    <3>1. y \in Awaited /\ y \in Made /\ y # x
      BY <1>2, <1>5, <1>6, <2>1, <2>3
    <3>2. kindOf'[y] = kindOf[y] /\ fdOf'[y] = fdOf[y] /\ done'[y[1]] = done[y[1]]
      BY <1>1, <1>7, <2>1, <2>3, <3>1
    <3>3. y # taken /\ y # taken'
      BY <1>3, <1>4, <2>1, <2>3
    <3>4. (y \in Undone' <=> y \in Undone) /\ (y \in Unsignalled' <=> y \in Unsignalled)
      BY <1>9, <3>1
    <3> QED
      BY <1>3, <3>1, <3>2, <3>3, <3>4 DEF PointInv, DoneInv
  <2> QED
    BY <2>2, <2>3
<1>21. KeptInv'
  <2> SUFFICES ASSUME NEW y \in Awaited', fdOf'[y] # NoFd, kindOf'[y] # "close"
               PROVE  y \in Armed' \cup fetched' \cup {taken'}
    BY DEF KeptInv
  <2>1. y \in Ctx /\ y[1] \in Coro /\ y # NoCtx
    BY Contexts DEF Awaited
  <2>2. CASE y[1] = c
    <3>1. y = x
      BY <1>2, <1>6, <2>1, <2>2, Contexts
    <3> QED
      BY <1>1, <1>2, <1>13, <3>1 DEF f, kind
  <2>3. CASE y[1] # c
    <3>1. y \in Awaited /\ y \in Made /\ y # x
      BY <1>2, <1>5, <1>6, <2>1, <2>3
    <3>2. y \in Armed \cup fetched
      BY <1>1, <1>4, <2>1, <2>3, <3>1 DEF PointInv, KeptInv
    <3>3. Armed \subseteq Armed'
      BY <1>13 DEF Armed
    <3> QED
      BY <1>3, <3>2, <3>3
  <2> QED
    BY <2>2, <2>3
<1> QED
  BY <1>1, <1>6, <1>7, <1>9, <1>11, <1>13, <1>16, <1>18, <1>19, <1>20, <1>21 DEF PointInv

-----------------------------------------------------------------------------
(* What a step leaves alone.                                                *)

LEMMA TurnFrame ==
  ASSUME TurnInv, UNCHANGED <<at, current, taken, stage, done, awaiter, ring, sync>>
  PROVE  TurnInv'
BY AwaitersKept DEF TurnInv

LEMMA ReapFrame ==
  ASSUME ReapInv, UNCHANGED <<stage, current, awaiter, reap>>
  PROVE  ReapInv'
BY DEF ReapInv, Busy, Counted

LEMMA OwnFrame ==
  ASSUME OwnInv, UNCHANGED <<file, ready, awaiter, stage, taken>>
  PROVE  OwnInv'
BY AwaitersKept DEF OwnInv, Awaited

LEMMA PointFrame ==
  ASSUME PointInv,
         UNCHANGED <<registered, awaiter, stage, taken, fetched, ready, done, pool, worker>>
  PROVE  PointInv'
<1>1. Made' = Made /\ kindOf' = kindOf /\ fdOf' = fdOf
  BY AwaitersKept
<1>2. Undone' = Undone /\ Unsignalled' = Unsignalled
  BY PoolKept
<1>3. Awaited' = Awaited /\ Armed' = Armed
  BY DEF Awaited, Armed
<1> QED
  BY <1>1, <1>2, <1>3 DEF PointInv, ArmInv, PoolInv, DoneInv, KeptInv

\* The suspended coroutines are finitely many.
LEMMA BusyFinite ==
  /\ IsFiniteSet(Busy) /\ Cardinality(Busy) \in Nat
  /\ \A c \in Coro \ Busy : Cardinality(Busy \cup {c}) = Cardinality(Busy) + 1
  /\ \A c \in Busy : Cardinality(Busy \ {c}) = Cardinality(Busy) - 1
<1>1. IsFiniteSet(Busy)
  BY IoAssumption, FS_Subset DEF Busy
<1> HIDE DEF Busy
<1> QED
  BY <1>1, FS_CardinalityType, FS_AddElement, FS_RemoveElement DEF Busy

-----------------------------------------------------------------------------
(* The initial states.                                                      *)

LEMMA InitOK == Init => IInv
<1> SUFFICES ASSUME Init PROVE IInv
  OBVIOUS
<1>1. Cardinality(Coro) \in Nat
  BY IoAssumption, FS_CardinalityType
<1>2. ring \in [1..Cardinality(Coro) -> Coro]
      /\ \A i, j \in DOMAIN ring : ring[i] = ring[j] => i = j
  BY DEF Init
<1>3. ring \in Seq(Coro) /\ Len(ring) = Cardinality(Coro) /\ DOMAIN ring = 1..Len(ring)
  BY <1>1, <1>2, SeqDef, LenProperties
<1>4. \A c \in Coro : awaiter[c] = <<>> /\ Len(awaiter[c]) = 0 /\ stage[c] = 0 /\ ~done[c]
  BY EmptySeq DEF Init
<1>5. awaiter \in [Coro -> Seq(Op)]
  BY EmptySeq DEF Init
<1>6. TypeOK
  <2>1. /\ file \in [Fd -> {"none", "socket", "eventfd", "timerfd"}]
        /\ ready \subseteq Fd \X {"in", "out"}
        /\ registered \subseteq [fd : Fd, dir : {"in", "out"}, ctx : Ctx]
    BY DEF Init
  <2>2. stage \in [Coro -> 0..2] /\ done \in [Coro -> BOOLEAN]
        /\ \A c \in Coro : stage[c] <= Len(awaiter[c]) /\ Len(awaiter[c]) <= 2
    BY <1>4 DEF Init
  <2>3. /\ reap \in Nat /\ current \in Coro \cup {NoCoro}
        /\ at \in {"work", "poll", "complete", "undefined"}
        /\ fetched \subseteq Ctx /\ taken \in Ctx \cup {NoCtx} /\ sync \in 0..MaxSync
    BY IoAssumption DEF Init
  <2>4. pool \in Seq(Ctx)
    BY EmptySeq DEF Init
  <2>5. worker \in [Worker -> [does : {"waits", "io", "signals"}, ctx : Ctx \cup {NoCtx}]]
    BY DEF Init
  <2> QED
    BY <1>3, <1>5, <2>1, <2>2, <2>3, <2>4, <2>5 DEF TypeOK, Op
<1>7. Made = {} /\ Awaited = {}
  <2>1. \A x \in Ctx : x[1] \in Coro /\ x[2] \in {1, 2}
    BY Contexts
  <2> QED
    BY <1>4, <2>1 DEF Made, Awaited
<1>8. TurnInv
  <2>1. \A i \in 1..Len(ring) : ring[i] # NoCoro /\ stage[ring[i]] = 0
    BY <1>1, <1>2, <1>3, <1>4, IoAssumption
  <2>2. \A i, j \in 1..Len(ring) : ring[i] = ring[j] => i = j
    BY <1>2, <1>3
  <2>3. current = NoCoro /\ at = "work" /\ taken = NoCtx
    BY DEF Init
  <2> QED
    BY <1>4, <1>7, <2>1, <2>2, <2>3 DEF TurnInv
<1>9. ReapInv
  <2>1. Busy = {}
    BY <1>4 DEF Busy
  <2> QED
    BY <2>1, FS_EmptySet DEF Init, ReapInv, Counted
<1>10. OwnInv
  BY <1>7 DEF Init, OwnInv
<1>11. PointInv
  <2>1. Undone = {} /\ Unsignalled = {}
    BY EmptySeq DEF Init, Undone, Unsignalled
  <2>2. Len(pool) = 0
    BY EmptySeq DEF Init
  <2> QED
    BY <1>7, <2>1, <2>2 DEF Init, PointInv, ArmInv, PoolInv, DoneInv, KeptInv
<1> QED
  BY <1>6, <1>8, <1>9, <1>10, <1>11 DEF IInv
-----------------------------------------------------------------------------
(* The loop resumes a coroutine, which opens sockets and awaits I/O.        *)

LEMMA ResumeOK == IInv /\ Resume => IInv'
<1> SUFFICES ASSUME IInv, Resume PROVE IInv'
  OBVIOUS
<1> USE DEF IInv
<1> DEFINE n == Len(ring)
<1>1. /\ at = "work" /\ current = NoCoro /\ ring # <<>>
      /\ current' = Head(ring) /\ ring' = Tail(ring)
      /\ UNCHANGED <<kernel, frames, at, fetched, taken, sync, files>>
  BY DEF Resume
<1>2. ring \in Seq(Coro) /\ n \in Nat
  BY LenProperties DEF TypeOK
<1>3. /\ n >= 1 /\ current' \in Coro /\ current' = ring[1]
      /\ ring' \in Seq(Coro) /\ Len(ring') = n - 1
      /\ \A i \in 1..Len(ring') : i + 1 \in 1..n /\ ring'[i] = ring[i + 1]
  <2>1. /\ current' \in Coro /\ current' = ring[1] /\ ring' \in Seq(Coro) /\ Len(ring') = n - 1
        /\ n >= 1 /\ \A i \in 1..(n - 1) : ring'[i] = ring[i + 1]
    BY <1>1, <1>2, HeadTailProperties, EmptySeq
  <2> HIDE DEF n
  <2>2. \A i \in 1..(n - 1) : i + 1 \in 1..n
    BY <1>2
  <2> QED
    BY <2>1, <2>2
<1> HIDE DEF n
<1>4. 1 \in 1..n
  BY <1>2, <1>3
<1>5. /\ \A i \in 1..n : ring[i] # current /\ stage[ring[i]] = 0
      /\ \A i, j \in 1..n : ring[i] = ring[j] => i = j
  BY DEF TurnInv, n
<1>6. TypeOK'
  BY <1>1, <1>3 DEF TypeOK, kernel, frames, files
<1>7. current' # NoCoro /\ current' # current /\ stage[current'] = 0 /\ awaiter[current'] = <<>>
  BY <1>1, <1>3, <1>4, <1>5, IoAssumption DEF TurnInv
<1>8. TurnInv'
  <2>1. \A i \in 1..Len(ring') : ring'[i] # current' /\ stage[ring'[i]] = 0
    <3> TAKE i \in 1..Len(ring')
    <3>1. i \in Nat /\ i >= 1 /\ i + 1 # 1 /\ i + 1 \in 1..n /\ ring'[i] = ring[i + 1]
      BY <1>2, <1>3
    <3> QED
      BY <1>3, <1>4, <1>5, <3>1
  <2>2. \A i, j \in 1..Len(ring') : ring'[i] = ring'[j] => i = j
    <3> TAKE i, j \in 1..Len(ring')
    <3>1. i \in Int /\ j \in Int /\ i + 1 \in 1..n /\ j + 1 \in 1..n
          /\ ring'[i] = ring[i + 1] /\ ring'[j] = ring[j + 1]
      BY <1>2, <1>3
    <3>2. ring[i + 1] = ring[j + 1] => i + 1 = j + 1
      BY <1>5, <3>1
    <3> QED
      BY <3>1, <3>2
  <2>3. \A c \in Coro : stage[c] = 0 => ~done[c] /\ awaiter[c] = <<>>
    BY <1>1, IoAssumption DEF TurnInv
  <2>4. \A x \in Made : x[1] # current'
    <3>1. \A x \in Made : x[2] \in {1, 2} /\ x[2] <= Len(awaiter[x[1]])
      BY Contexts DEF Made
    <3> QED
      BY <1>7, <3>1, EmptySeq
  <2>5. Made' = Made /\ kindOf' = kindOf
    BY <1>1, AwaitersKept DEF frames
  <2> QED
    BY <1>1, <1>7, <2>1, <2>2, <2>3, <2>4, <2>5 DEF TurnInv, frames
<1>9. ReapInv'
  BY <1>1, <1>7 DEF ReapInv, Counted, Busy, frames
<1>10. OwnInv' /\ PointInv'
  BY <1>1, OwnFrame, PointFrame DEF kernel, frames, files
<1> QED
  BY <1>6, <1>8, <1>9, <1>10

LEMMA WorkDoneOK == IInv /\ WorkDone => IInv'
<1> SUFFICES ASSUME IInv, WorkDone PROVE IInv'
  OBVIOUS
<1> USE DEF IInv
<1>1. /\ at = "work" /\ current = NoCoro /\ at' = "poll" /\ sync' = 0
      /\ UNCHANGED <<kernel, frames, ring, current, fetched, taken, files>>
  BY DEF WorkDone
<1>2. TypeOK'
  <2>1. sync' \in 0..MaxSync
    BY <1>1, IoAssumption
  <2> QED
    BY <1>1, <2>1 DEF TypeOK, kernel, frames, files
<1>3. TurnInv'
  <2>1. Made' = Made /\ kindOf' = kindOf /\ Made \subseteq Ctx
    BY <1>1, AwaitersKept DEF frames, Made
  <2>2. \A x \in Made : x[1] # current
    BY <1>1, <2>1, Contexts, IoAssumption
  <2> QED
    BY <1>1, <2>1, <2>2 DEF TurnInv, frames
<1>4. ReapInv' /\ OwnInv' /\ PointInv'
  BY <1>1, ReapFrame, OwnFrame, PointFrame DEF kernel, frames, files
<1> QED
  BY <1>2, <1>3, <1>4

LEMMA IssueNullOK == IInv /\ IssueNull => IInv'
<1> SUFFICES ASSUME IInv, IssueNull PROVE IInv'
  OBVIOUS
<1> USE DEF IInv
<1>1. /\ at = "complete" /\ at' = "undefined"
      /\ UNCHANGED <<kernel, frames, ring, current, fetched, taken, sync, files>>
  BY DEF IssueNull
<1>2. TypeOK'
  BY <1>1 DEF TypeOK, kernel, frames, files
<1>3. TurnInv'
  <2>1. Made' = Made /\ kindOf' = kindOf
    BY <1>1, AwaitersKept DEF frames
  <2> QED
    BY <1>1, <2>1 DEF TurnInv, frames
<1>4. ReapInv' /\ OwnInv' /\ PointInv'
  BY <1>1, ReapFrame, OwnFrame, PointFrame DEF kernel, frames, files
<1> QED
  BY <1>2, <1>3, <1>4

\* A socket is opened under a number that is free, or none is, and something is
\* no longer ready.
LEMMA SocketOpened ==
  ASSUME TypeOK, OwnInv,
         \/ file' = file
         \/ \E f \in Fd : file[f] = "none" /\ file' = [file EXCEPT ![f] = "socket"],
         ready' \subseteq ready, UNCHANGED <<awaiter, stage>>,
         taken' = taken \/ (taken' \in Made /\ kindOf[taken'] \notin Own)
  PROVE  file' \in [Fd -> {"none", "socket", "eventfd", "timerfd"}] /\ OwnInv'
<1>1. /\ file' \in [Fd -> {"none", "socket", "eventfd", "timerfd"}]
      /\ \A g \in Fd : file'[g] = file[g] \/ (file[g] = "none" /\ file'[g] = "socket")
  <2>1. CASE file' = file
    BY <2>1 DEF TypeOK
  <2>2. CASE \E f \in Fd : file[f] = "none" /\ file' = [file EXCEPT ![f] = "socket"]
    BY <2>2 DEF TypeOK
  <2> QED
    BY <2>1, <2>2
<1>2. Made' = Made /\ kindOf' = kindOf /\ fdOf' = fdOf /\ Awaited' = Awaited
  BY AwaitersKept DEF Awaited
<1>3. fdOf \in [Made -> Fd \cup {NoFd}]
  BY Awaiters
<1>4. \A x \in Made : fdOf[x] # NoFd => file'[fdOf[x]] = Source(kindOf[x])
  <2> SUFFICES ASSUME NEW x \in Made, fdOf[x] # NoFd
               PROVE  file'[fdOf[x]] = Source(kindOf[x])
    OBVIOUS
  <2>1. fdOf[x] \in Fd /\ file[fdOf[x]] = Source(kindOf[x])
    BY <1>3 DEF OwnInv
  <2>2. file[fdOf[x]] # "none"
    BY <2>1 DEF Source
  <2> QED
    BY <1>1, <2>1, <2>2
<1>5. \A d \in ready' : file'[d[1]] # "none"
  <2>1. \A d \in ready : d[1] \in Fd /\ file[d[1]] # "none"
    BY DEF OwnInv, TypeOK
  <2> QED
    BY <1>1, <2>1
<1>6. \A g \in Fd : file'[g] \in {"eventfd", "timerfd"} => \E x \in Made : fdOf[x] = g
  BY <1>1 DEF OwnInv
<1>7. OwnInv'
  BY <1>2, <1>4, <1>5, <1>6 DEF OwnInv
<1> QED
  BY <1>1, <1>7

LEMMA CreateSocketOK == IInv /\ CreateSocket => IInv'
<1> SUFFICES ASSUME IInv, CreateSocket PROVE IInv'
  OBVIOUS
<1> USE DEF IInv
<1>1. /\ NextFd # NoFd /\ file' = Open(NextFd, "socket")
      /\ UNCHANGED <<ready, registered, frames, loop, files>>
  BY DEF CreateSocket
<1>2. NextFd \in Fd /\ file[NextFd] = "none"
  BY <1>1, NextFree
<1>3. file' = [file EXCEPT ![NextFd] = "socket"]
  BY <1>1 DEF Open
<1>4. file' \in [Fd -> {"none", "socket", "eventfd", "timerfd"}] /\ OwnInv'
  <2>1. \E f \in Fd : file[f] = "none" /\ file' = [file EXCEPT ![f] = "socket"]
    BY <1>2, <1>3
  <2> QED
    BY <1>1, <2>1, SocketOpened DEF frames, loop
<1>5. TypeOK'
  BY <1>1, <1>4 DEF TypeOK, frames, loop, files
<1>6. TurnInv' /\ ReapInv' /\ PointInv'
  BY <1>1, TurnFrame, ReapFrame, PointFrame DEF frames, loop, files
<1> QED
  BY <1>4, <1>5, <1>6

\* The coroutine being resumed has nothing under way.
LEMMA CurrentIdle ==
  ASSUME IInv, current # NoCoro
  PROVE  /\ current \in Coro /\ at = "work" /\ taken = NoCtx
         /\ stage[current] = 0 /\ ~done[current]
         /\ \A x \in Awaited : x[1] # current
         /\ \A x \in Ctx : x[1] = current => x \notin Armed \cup fetched \cup Undone \cup Unsignalled
         /\ \A x \in Made : x[1] = current /\ kindOf[x] = "file" => fdOf[x] = NoFd
<1> USE DEF IInv
<1>1. current \in Coro /\ at = "work" /\ taken = NoCtx /\ stage[current] = 0 /\ ~done[current]
  BY DEF TypeOK, TurnInv
<1>2. \A x \in Awaited : x[1] # current
  BY <1>1, Contexts DEF Awaited
<1>3. Armed \cup fetched \cup Undone \cup Unsignalled \subseteq Awaited
  BY DEF PointInv, ArmInv, PoolInv, Armed
<1> QED
  BY <1>1, <1>2, <1>3 DEF OwnInv

\* await_suspend issues the first operation of the coroutine, which has not been
\* issued before.
LEMMA AwaitIssues ==
  ASSUME IInv, Await
  PROVE  /\ <<current, 1>> \in Made /\ \A x \in Made : x[2] \in {1, 2}
         /\ Issuable(current, 1) /\ IssueStep(current, 1)
<1> USE DEF IInv
<1> DEFINE c == current
<1>1. /\ c # NoCoro
      /\ \/ Len(awaiter[c]) = 1 /\ awaiter[c][1].kind # "close" /\ reap' = reap
         \/ Len(awaiter[c]) = 2 /\ reap' = reap + 1
      /\ Issue(c, 1)
      /\ stage' = [stage EXCEPT ![c] = 1]
      /\ current' = NoCoro
      /\ UNCHANGED <<ready, done, ring, at, fetched, taken, sync, worker>>
  BY DEF Await
<1>2. /\ c \in Coro /\ at = "work" /\ taken = NoCtx
      /\ stage[c] = 0 /\ ~done[c]
      /\ \A x \in Ctx : x[1] = c => x \notin Armed \cup fetched \cup Undone \cup Unsignalled
      /\ \A x \in Made : x[1] = c /\ kindOf[x] = "file" => fdOf[x] = NoFd
  BY <1>1, CurrentIdle
<1> HIDE DEF c
<1>3. <<c, 1>> \in Made /\ \A x \in Made : x[2] \in {1, 2}
  <2>1. \A k \in {1, 2} : <<c, k>> \in Made <=> k <= Len(awaiter[c])
    BY <1>2, Awaiters
  <2>2. 1 <= Len(awaiter[c])
    <3>1. PICK n \in {1, 2} : Len(awaiter[c]) = n
      BY <1>1
    <3> QED
      BY <3>1
  <2>3. <<c, 1>> \in Made
    BY <2>1, <2>2
  <2> QED
    BY <2>3, Contexts DEF Made
<1>4. Issuable(c, 1)
  BY <1>2, <1>3 DEF Issuable
<1>5. IssueStep(c, 1)
  <2>1. done' = [done EXCEPT ![c] = FALSE]
    BY <1>1, <1>2 DEF TypeOK
  <2> QED
    BY <1>1, <1>2, <2>1 DEF IssueStep
<1> QED
  BY <1>3, <1>4, <1>5 DEF c

LEMMA AwaitOK == IInv /\ Await => IInv'
<1> SUFFICES ASSUME IInv, Await PROVE IInv'
  OBVIOUS
<1> USE DEF IInv
<1> DEFINE c == current
<1>1. /\ c # NoCoro
      /\ \/ Len(awaiter[c]) = 1 /\ awaiter[c][1].kind # "close" /\ reap' = reap
         \/ Len(awaiter[c]) = 2 /\ reap' = reap + 1
      /\ Issue(c, 1)
      /\ stage' = [stage EXCEPT ![c] = 1]
      /\ current' = NoCoro
      /\ UNCHANGED <<ready, done, ring, at, fetched, taken, sync, worker>>
  BY DEF Await
<1>2. /\ c \in Coro /\ at = "work" /\ taken = NoCtx
      /\ stage[c] = 0 /\ ~done[c]
      /\ \A x \in Ctx : x[1] = c => x \notin Armed \cup fetched \cup Undone \cup Unsignalled
      /\ \A x \in Made : x[1] = c /\ kindOf[x] = "file" => fdOf[x] = NoFd
  BY <1>1, CurrentIdle
<1> HIDE DEF c
<1>3. <<c, 1>> \in Made /\ \A x \in Made : x[2] \in {1, 2}
  BY AwaitIssues DEF c
<1>4. Issuable(c, 1)
  BY AwaitIssues DEF c
<1>5. IssueStep(c, 1)
  BY AwaitIssues DEF c
<1>6. /\ file' \in [Fd -> {"none", "socket", "eventfd", "timerfd"}]
      /\ registered' \subseteq [fd : Fd, dir : {"in", "out"}, ctx : Ctx]
      /\ awaiter' \in [Coro -> Seq(Op)]
      /\ \A d \in Coro : Len(awaiter'[d]) = Len(awaiter[d])
      /\ stage' \in [Coro -> 0..2] /\ done' \in [Coro -> BOOLEAN]
      /\ pool' \in Seq(Ctx)
      /\ OwnInv' /\ PointInv'
  <2>1. 1 \in {1, 2}
    OBVIOUS
  <2> QED
    BY <1>2, <1>4, <1>5, <2>1, IssueKeeps
<1>7. \A d \in Coro : stage'[d] = IF d = c THEN 1 ELSE stage[d]
  BY <1>1, <1>2 DEF TypeOK
<1>8. TypeOK'
  <2>1. \A d \in Coro : stage'[d] <= Len(awaiter'[d]) /\ Len(awaiter'[d]) <= 2
    <3> TAKE d \in Coro
    <3>1. Len(awaiter'[d]) = Len(awaiter[d]) /\ stage[d] <= Len(awaiter[d]) /\ Len(awaiter[d]) <= 2
      BY <1>6 DEF TypeOK
    <3>2. CASE d = c
      BY <1>1, <1>7, <3>1, <3>2
    <3>3. CASE d # c
      BY <1>7, <3>1, <3>3
    <3> QED
      BY <3>2, <3>3
  <2>2. reap' \in Nat
    BY <1>1 DEF TypeOK
  <2> QED
    BY <1>1, <1>6, <2>1, <2>2 DEF TypeOK, Op
<1>9. TurnInv'
  <2>1. \A d \in Coro : stage'[d] = 0 => ~done[d] /\ awaiter'[d] = <<>>
    <3> SUFFICES ASSUME NEW d \in Coro, stage'[d] = 0 PROVE ~done[d] /\ awaiter'[d] = <<>>
      OBVIOUS
    <3>1. d # c /\ stage[d] = 0
      BY <1>7
    <3>2. ~done[d] /\ awaiter[d] = <<>>
      BY <3>1 DEF TurnInv, c
    <3>3. Len(awaiter'[d]) = 0 /\ awaiter'[d] \in Seq(Op)
      BY <1>6, <3>2, EmptySeq
    <3> QED
      BY <3>2, <3>3, EmptySeq
  <2>2. \A i \in 1..Len(ring) : ring[i] # NoCoro /\ stage'[ring[i]] = 0
    <3> TAKE i \in 1..Len(ring)
    <3>1. ring[i] \in Coro
      BY ElementOfSeq DEF TypeOK
    <3>2. ring[i] # c /\ stage[ring[i]] = 0
      BY DEF TurnInv, c
    <3> QED
      BY <1>7, <3>1, <3>2, IoAssumption
  <2>3. \A x \in Made' : x[1] # NoCoro
    BY Contexts, IoAssumption DEF Made
  <2> QED
    BY <1>1, <1>2, <2>1, <2>2, <2>3 DEF TurnInv
<1>10. ReapInv'
  <2>1. Busy' = Busy \cup {c} /\ c \in Coro \ Busy
    BY <1>2, <1>7 DEF Busy
  <2>2. Cardinality(Busy') = Cardinality(Busy) + 1 /\ Cardinality(Busy) \in Nat
    BY <2>1, BusyFinite
  <2>3. Counted' = 0
    BY <1>1 DEF Counted
  <2>4. Cardinality(Busy) + Counted <= reap /\ reap \in Nat /\ Counted \in {0, 1}
    BY DEF ReapInv, TypeOK, Counted
  <2>5. Len(awaiter[c]) = 1 => Counted = 1
    <3>1. Len(awaiter[c]) = 1 => awaiter[c] # <<>> /\ awaiter[c][1].kind # "close"
      BY <1>1, EmptySeq
    <3> QED
      BY <1>1, <3>1 DEF Counted, c
  <2>6. (Len(awaiter[c]) = 1 /\ reap' = reap) \/ reap' = reap + 1
    BY <1>1
  <2> QED
    BY <2>2, <2>3, <2>4, <2>5, <2>6 DEF ReapInv
<1> QED
  BY <1>6, <1>8, <1>9, <1>10

LEMMA AwaitCloseOK == IInv /\ AwaitClose => IInv'
<1> SUFFICES ASSUME IInv, AwaitClose PROVE IInv'
  OBVIOUS
<1> USE DEF IInv
<1> DEFINE c == current
           f == awaiter[c][1].fd
           x == <<c, 1>>
<1>1. /\ c # NoCoro /\ Len(awaiter[c]) = 1 /\ awaiter[c][1].kind = "close"
      /\ Close(f)
      /\ awaiter' = [awaiter EXCEPT ![c] = <<>>]
      /\ ring' = Append(ring, c) /\ current' = NoCoro /\ sync' = sync + 1
      /\ UNCHANGED <<stage, done, reap, at, fetched, taken, files>>
  BY DEF AwaitClose
<1>2. /\ c \in Coro /\ at = "work" /\ taken = NoCtx
      /\ stage[c] = 0 /\ ~done[c]
      /\ \A y \in Awaited : y[1] # c
      /\ \A y \in Ctx : y[1] = c => y \notin Armed \cup fetched \cup Undone \cup Unsignalled
      /\ \A y \in Made : y[1] = c /\ kindOf[y] = "file" => fdOf[y] = NoFd
  BY <1>1, CurrentIdle
<1> HIDE DEF c
<1>3. x \in Made /\ x[1] = c /\ \A y \in Made : y[1] = c => y = x
  <2>0. \A k \in {1, 2} : <<c, k>> \in Made <=> k <= Len(awaiter[c])
    BY <1>2, Awaiters
  <2>1. <<c, 1>> \in Made /\ <<c, 2>> \notin Made
    BY <1>1, <2>0
  <2>2. \A y \in Made : y[2] \in {1, 2} /\ y = <<y[1], y[2]>>
    BY Contexts DEF Made
  <2> QED
    BY <2>1, <2>2
<1>4. kindOf[x] = "close" /\ fdOf[x] = f
  BY <1>1, <1>3 DEF kindOf, fdOf
<1> HIDE DEF x, f
<1>5. /\ Made \subseteq Ctx /\ kindOf \in [Made -> Kind] /\ fdOf \in [Made -> Fd \cup {NoFd}]
      /\ Awaited \subseteq Made
  BY Awaiters
<1>6. /\ awaiter' \in [Coro -> Seq(Op)]
      /\ \A d \in Coro : Len(awaiter'[d]) = IF d = c THEN 0 ELSE Len(awaiter[d])
      /\ Made' = {y \in Made : y[1] # c}
      /\ \A y \in Made' : kindOf'[y] = kindOf[y] /\ fdOf'[y] = fdOf[y]
  BY <1>1, <1>2, AwaitersGone
<1>7. NoFd \notin Fd /\ f \in Fd \cup {NoFd}
  BY <1>3, <1>4, <1>5 DEF NoFd, Fd
<1>8. /\ file' \in [Fd -> {"none", "socket", "eventfd", "timerfd"}]
      /\ \A g \in Fd : file'[g] = IF g = f THEN "none" ELSE file[g]
      /\ ready' \subseteq ready /\ \A d \in ready : d \in ready' <=> d[1] # f
      /\ registered' = {r \in registered : r.fd # f}
  <2>1. CASE f = NoFd
    <3>1. UNCHANGED <<file, ready, registered>>
      BY <1>1, <2>1 DEF Close, kernel
    <3>2. \A d \in ready : d[1] \in Fd
      BY DEF TypeOK
    <3>3. \A r \in registered : r.fd \in Fd
      BY DEF TypeOK
    <3> QED
      BY <1>7, <2>1, <3>1, <3>2, <3>3 DEF TypeOK
  <2>2. CASE f # NoFd
    BY <1>1, <1>7, <2>2 DEF Close, TypeOK
  <2> QED
    BY <2>1, <2>2
\* Nobody else uses the socket.
<1>9. \A y \in Made' : fdOf[y] # f \/ fdOf[y] = NoFd
  BY <1>3, <1>4, <1>6 DEF OwnInv
<1>10. registered' = registered
  <2>1. \A r \in registered : r.ctx \in Awaited /\ fdOf[r.ctx] = r.fd /\ r.fd \in Fd
    BY DEF PointInv, ArmInv, TypeOK
  <2>2. \A r \in registered : r.fd # f
    BY <1>2, <1>5, <1>6, <1>7, <1>9, <2>1
  <2> QED
    BY <1>8, <2>2
<1>11. Awaited' = Awaited /\ Awaited \subseteq Made' /\ Armed' = Armed
  BY <1>1, <1>2, <1>5, <1>6, <1>10 DEF Awaited, Armed
<1>12. Undone' = Undone /\ Unsignalled' = Unsignalled
  BY <1>1, PoolKept DEF files
<1>13. /\ ring' \in Seq(Coro) /\ Len(ring') = Len(ring) + 1 /\ Len(ring) \in Nat
       /\ ring'[Len(ring) + 1] = c /\ \A i \in 1..Len(ring) : ring'[i] = ring[i]
  BY <1>1, <1>2, AppendProperties, LenProperties DEF TypeOK
<1>14. TypeOK'
  <2>1. \A d \in Coro : stage[d] <= Len(awaiter'[d]) /\ Len(awaiter'[d]) <= 2
    <3> TAKE d \in Coro
    <3>1. CASE d = c
      BY <1>2, <1>6, <3>1
    <3>2. CASE d # c
      BY <1>6, <3>2 DEF TypeOK
    <3> QED
      BY <3>1, <3>2
  <2>2. sync' \in 0..MaxSync
    BY <1>1, <1>3, <1>4, IoAssumption DEF TurnInv, TypeOK, c
  <2>3. ready' \subseteq Fd \X {"in", "out"}
    BY <1>8 DEF TypeOK
  <2> QED
    BY <1>1, <1>6, <1>8, <1>10, <1>13, <2>1, <2>2, <2>3 DEF TypeOK, Op, files
<1>15. TurnInv'
  <2>1. \A d \in Coro : stage[d] = 0 => ~done[d] /\ awaiter'[d] = <<>>
    <3> SUFFICES ASSUME NEW d \in Coro, stage[d] = 0 PROVE ~done[d] /\ awaiter'[d] = <<>>
      OBVIOUS
    <3>1. ~done[d] /\ (d # c => awaiter[d] = <<>>)
      BY DEF TurnInv, c
    <3> QED
      BY <1>1, <1>2, <3>1 DEF TypeOK
  <2>2. \A i \in 1..Len(ring) : ring[i] # c /\ stage[ring[i]] = 0 /\ ring[i] \in Coro
    BY ElementOfSeq DEF TurnInv, c, TypeOK
  <2>3. \A i \in 1..Len(ring') : i \in 1..Len(ring) \/ i = Len(ring) + 1
    <3> DEFINE n == Len(ring)
               m == Len(ring')
    <3>1. n \in Nat /\ m = n + 1
      BY <1>13
    <3> HIDE DEF n, m
    <3>2. \A i \in 1..m : i \in 1..n \/ i = n + 1
      BY <3>1
    <3> QED
      BY <3>2 DEF n, m
  <2>4. \A i \in 1..Len(ring') : ring'[i] # NoCoro /\ stage[ring'[i]] = 0
    <3> TAKE i \in 1..Len(ring')
    <3>1. CASE i \in 1..Len(ring)
      BY <1>13, <2>2, <3>1, IoAssumption
    <3>2. CASE i = Len(ring) + 1
      <4>1. ring'[i] = c
        BY <1>13, <3>2
      <4> QED
        BY <1>1, <1>2, <4>1
    <3> QED
      BY <2>3, <3>1, <3>2
  <2>5. \A i, j \in 1..Len(ring) : ring[i] = ring[j] => i = j
    BY DEF TurnInv
  <2>6. \A i, j \in 1..Len(ring') : ring'[i] = ring'[j] => i = j
    BY <1>13, <2>2, <2>3, <2>5
  <2>7. \A y \in Made' : y[1] # NoCoro
    BY Contexts, IoAssumption DEF Made
  <2> QED
    BY <1>1, <1>2, <2>1, <2>4, <2>6, <2>7 DEF TurnInv
<1>16. ReapInv'
  <2>1. Counted' = 0 /\ Counted \in {0, 1}
    BY <1>1 DEF Counted
  <2>2. Cardinality(Busy) \in Nat /\ Busy' = Busy /\ reap' = reap
    BY <1>1, BusyFinite DEF Busy
  <2> QED
    BY <2>1, <2>2 DEF ReapInv, TypeOK
<1>17. OwnInv'
  <2>1. \A y \in Made' : y \in Made /\ y[1] # c /\ (fdOf[y] # NoFd => fdOf[y] \in Fd)
    BY <1>5, <1>6
  <2>2. \A y \in Made' : fdOf'[y] # NoFd => file'[fdOf'[y]] = Source(kindOf'[y])
    BY <1>6, <1>8, <1>9, <2>1 DEF OwnInv
  <2>3. \A y, z \in Made' : fdOf'[y] = fdOf'[z] /\ fdOf'[y] # NoFd
                             => y[1] = z[1] /\ (kindOf'[y] \in Own => y = z)
    BY <1>6, <2>1 DEF OwnInv
  <2>4. ASSUME NEW g \in Fd, file'[g] \in {"eventfd", "timerfd"} PROVE \E y \in Made' : fdOf'[y] = g
    <3>1. file[g] \in {"eventfd", "timerfd"} /\ g # f
      BY <1>8, <2>4
    <3>2. PICK y \in Made : fdOf[y] = g
      BY <3>1 DEF OwnInv
    <3>3. y[1] # c
      BY <1>3, <1>4, <3>1, <3>2
    <3> QED
      BY <1>6, <3>2, <3>3
  <2>5. \A d \in ready' : file'[d[1]] # "none"
    <3>1. \A d \in ready : d[1] \in Fd /\ file[d[1]] # "none"
      BY DEF OwnInv, TypeOK
    <3> QED
      BY <1>8, <3>1
  <2>6. \A y \in Made' : kindOf'[y] = "file" /\ fdOf'[y] # NoFd => y \in Awaited'
    BY <1>6, <1>11, <2>1 DEF OwnInv
  <2>7. \A y \in Made' : kindOf'[y] \in Own /\ (y = taken' \/ y[2] < stage'[y[1]]) => fdOf'[y] = NoFd
    BY <1>1, <1>6, <2>1 DEF OwnInv
  <2> QED
    BY <2>2, <2>3, <2>4, <2>5, <2>6, <2>7 DEF OwnInv
<1>18. ArmInv'
  BY <1>1, <1>6, <1>10, <1>11 DEF ArmInv, PointInv
<1>19. PoolInv'
  BY <1>1, <1>6, <1>11, <1>12 DEF PoolInv, PointInv, files
<1>20. DoneInv'
  <2>1. \A y \in Awaited : /\ kindOf'[y] = kindOf[y] /\ fdOf'[y] = fdOf[y]
                           /\ fdOf[y] # NoFd => (<<fdOf[y], "in">> \in ready' <=> <<fdOf[y], "in">> \in ready)
    BY <1>6, <1>8, <1>9, <1>11
  <2> QED
    BY <1>1, <1>11, <1>12, <2>1 DEF DoneInv, PointInv
<1>21. KeptInv'
  BY <1>1, <1>6, <1>11 DEF KeptInv, PointInv
<1> QED
  BY <1>14, <1>15, <1>16, <1>17, <1>18, <1>19, <1>20, <1>21 DEF PointInv

LEMMA ConstructOK ==
  ASSUME ~Duplex, IInv, NEW kind \in Kind, NEW f \in Choices(kind), Construct(kind, f)
  PROVE  IInv'
<1> USE DEF IInv
<1> DEFINE c == current
           s == awaiter[c]
           n == Len(s)
           op == [kind |-> kind, fd |-> f]
           x == <<c, n + 1>>
<1>1. /\ c # NoCoro
      /\ s = <<>> \/ n = 1
      /\ kind = "close" => sync < MaxSync
      /\ awaiter' = [awaiter EXCEPT ![c] = Append(@, op)]
      /\ reap' = IF kind = "close" THEN reap ELSE reap + 1
      /\ file' = IF kind \in {"timer", "past"} THEN Open(f, "timerfd") ELSE file
      /\ UNCHANGED <<ready, registered, stage, done, loop, files>>
  BY DEF Construct
<1>2. /\ c \in Coro /\ at = "work" /\ taken = NoCtx
      /\ stage[c] = 0 /\ ~done[c]
      /\ \A y \in Awaited : y[1] # c
  BY <1>1, CurrentIdle
<1>3. /\ NoFd \notin Fd /\ f \in Fd \cup {NoFd}
      /\ kind = "file" => f = NoFd
      /\ kind \in {"timer", "past"} => f = NoFd \/ (f \in Fd /\ file[f] = "none")
      /\ kind \notin {"file", "timer", "past"} => f \in Fd /\ file[f] = "socket" /\ ~InUse(f)
  BY NextFree DEF Choices, NoFd, Fd
<1> HIDE DEF c
<1>4. s \in Seq(Op) /\ n \in {0, 1}
  <2>1. s \in Seq(Op)
    BY <1>2 DEF TypeOK, Op
  <2>2. s = <<>> => n = 0
    BY EmptySeq
  <2> QED
    BY <1>1, <2>1, <2>2
<1>5. op \in Op
  BY <1>3 DEF Op
<1> HIDE DEF s, n, op, x
<1>6. n <= 1
  BY <1>4
<1>7. /\ awaiter' \in [Coro -> Seq(Op)]
      /\ \A d \in Coro : Len(awaiter'[d]) = IF d = c THEN n + 1 ELSE Len(awaiter[d])
      /\ x \in Ctx /\ x \notin Made /\ Made' = Made \cup {x} /\ x[1] = c /\ x[2] = n + 1
      /\ kindOf'[x] = kind /\ fdOf'[x] = f
      /\ \A y \in Made : kindOf'[y] = kindOf[y] /\ fdOf'[y] = fdOf[y]
  <2>1. op.kind = kind /\ op.fd = f
    BY DEF op
  <2>2. Len(awaiter[c]) <= 1
    BY <1>6 DEF n, s
  <2>3. /\ awaiter' \in [Coro -> Seq(Op)]
        /\ \A d \in Coro : Len(awaiter'[d]) = IF d = c THEN Len(awaiter[c]) + 1 ELSE Len(awaiter[d])
        /\ \E y \in Ctx : /\ y = <<c, Len(awaiter[c]) + 1>>
                          /\ y \notin Made /\ Made' = Made \cup {y}
                          /\ kindOf'[y] = op.kind /\ fdOf'[y] = op.fd
        /\ \A y \in Made : kindOf'[y] = kindOf[y] /\ fdOf'[y] = fdOf[y]
    BY <1>1, <1>2, <1>5, <2>2, AwaiterAdded
  <2>4. n = Len(awaiter[c]) /\ x = <<c, Len(awaiter[c]) + 1>>
    BY DEF n, s, x
  <2>5. x[1] = c /\ x[2] = n + 1
    BY DEF x
  <2> QED
    BY <2>1, <2>3, <2>4, <2>5
<1>8. /\ Made \subseteq Ctx /\ kindOf \in [Made -> Kind] /\ fdOf \in [Made -> Fd \cup {NoFd}]
      /\ Awaited \subseteq Made /\ \A y \in Made : y[1] \in Coro /\ y[2] \in {1, 2}
  BY Awaiters, Contexts
<1>9. /\ file' \in [Fd -> {"none", "socket", "eventfd", "timerfd"}]
      /\ \A g \in Fd : file'[g] = IF g = f /\ kind \in {"timer", "past"} THEN "timerfd" ELSE file[g]
      /\ \A g \in Fd : g = f /\ kind \in {"timer", "past"} => file[g] = "none"
  <2>1. CASE kind \in {"timer", "past"} /\ f # NoFd
    BY <1>1, <1>3, <2>1 DEF Open, TypeOK
  <2>2. CASE kind \notin {"timer", "past"} \/ f = NoFd
    BY <1>1, <1>3, <2>2 DEF Open, TypeOK
  <2> QED
    BY <2>1, <2>2
<1>10. Awaited' = Awaited /\ Armed' = Armed
  BY <1>1 DEF Awaited, Armed
<1>11. Undone' = Undone /\ Unsignalled' = Unsignalled
  BY <1>1, PoolKept DEF files
<1>12. \A y \in Awaited : kindOf'[y] = kindOf[y] /\ fdOf'[y] = fdOf[y]
  BY <1>7, <1>8
<1>13. TypeOK'
  <2>1. \A d \in Coro : stage[d] <= Len(awaiter'[d]) /\ Len(awaiter'[d]) <= 2
    <3> TAKE d \in Coro
    <3>1. CASE d = c
      BY <1>2, <1>4, <1>7, <3>1
    <3>2. CASE d # c
      BY <1>7, <3>2 DEF TypeOK
    <3> QED
      BY <3>1, <3>2
  <2>2. reap' \in Nat
    BY <1>1 DEF TypeOK
  <2> QED
    BY <1>1, <1>7, <1>9, <2>1, <2>2 DEF TypeOK, Op, loop, files
<1>14. TurnInv'
  <2>1. \A d \in Coro : stage[d] = 0 => ~done[d] /\ (d # c => awaiter'[d] = <<>>)
    <3> SUFFICES ASSUME NEW d \in Coro, stage[d] = 0 PROVE ~done[d] /\ (d # c => awaiter'[d] = <<>>)
      OBVIOUS
    <3>1. ~done[d] /\ (d # c => awaiter[d] = <<>>)
      BY DEF TurnInv, c
    <3> QED
      BY <1>1, <1>2, <3>1 DEF TypeOK
  <2>2. \A y \in Made' : y[1] = c /\ kindOf'[y] = "close" => sync < MaxSync
    BY <1>1, <1>7 DEF TurnInv, c
  <2> QED
    BY <1>1, <1>2, <2>1, <2>2 DEF TurnInv, loop, c
<1>15. ReapInv'
  <2>1. Cardinality(Busy) \in Nat /\ Busy' = Busy /\ reap \in Nat
    BY <1>1, BusyFinite DEF Busy, TypeOK
  <2>2. Cardinality(Busy) + Counted <= reap /\ Counted \in {0, 1}
    BY DEF ReapInv, Counted
  <2>3. CASE kind # "close"
    <3>1. Counted' \in {0, 1}
      BY DEF Counted
    <3>2. reap' = reap + 1
      BY <1>1, <2>3
    <3>3. Cardinality(Busy) + Counted' <= reap + 1
      BY <2>1, <2>2, <3>1
    <3> QED
      BY <2>1, <3>2, <3>3 DEF ReapInv
  <2>4. CASE kind = "close"
    <3>1. Counted' <= Counted
      <4>1. awaiter'[c] = Append(s, op)
        BY <1>1, <1>2 DEF TypeOK, s
      <4>2. CASE n = 0
        <5>1. s = <<>>
          BY <1>4, <4>2, EmptySeq DEF n
        <5>2. awaiter'[c] # <<>> /\ awaiter'[c][1] = op
          BY <1>5, <4>1, <5>1, EmptySeq, AppendProperties
        <5>3. awaiter'[c][1].kind = "close"
          BY <2>4, <5>2 DEF op
        <5>4. Counted' = 0
          BY <1>1, <5>3 DEF Counted, c, loop
        <5> QED
          BY <2>2, <5>4
      <4>3. CASE n = 1
        <5>1. s # <<>> /\ awaiter'[c][1] = s[1] /\ awaiter'[c] # <<>>
          BY <1>4, <1>5, <4>1, <4>3, EmptySeq, AppendProperties DEF n
        <5>2. Counted' = Counted
          BY <1>1, <5>1 DEF Counted, c, loop, s
        <5> QED
          BY <2>2, <5>2
      <4> QED
        BY <1>4, <4>2, <4>3
    <3>2. Counted' \in {0, 1}
      BY DEF Counted
    <3>3. reap' = reap
      BY <1>1, <2>4
    <3>4. Cardinality(Busy) + Counted' <= reap
      BY <2>1, <2>2, <3>1, <3>2
    <3> QED
      BY <2>1, <3>3, <3>4 DEF ReapInv
  <2> QED
    BY <2>3, <2>4
<1>16. OwnInv'
  <2>1. \A y \in Made : fdOf[y] # NoFd => fdOf[y] \in Fd /\ file[fdOf[y]] = Source(kindOf[y])
                                          /\ file[fdOf[y]] # "none"
    BY <1>8 DEF OwnInv, Source
  \* Whoever has the number f too is an awaiter of c for the same socket.
  <2>2. ASSUME NEW y \in Made, fdOf[y] = f, f # NoFd
        PROVE  y[1] = c /\ kindOf[y] \notin Own /\ kind \notin Own
    <3>1. file[f] = Source(kindOf[y]) /\ file[f] # "none"
      BY <2>1, <2>2
    <3>2. kind \notin Own /\ file[f] = "socket" /\ ~InUse(f)
      BY <1>3, <2>2, <3>1 DEF Own
    <3>3. kindOf[y] \notin Own
      BY <3>1, <3>2 DEF Source, Own
    <3>4. y[1] = c
      <4> SUFFICES ASSUME y[1] # c PROVE FALSE
        OBVIOUS
      <4>1. y[1] \in Coro \ {current} /\ y[2] \in {1, 2} /\ y[2] <= Len(awaiter[y[1]])
        BY <1>8 DEF c, Made
      <4>2. awaiter[y[1]] \in Seq(Op)
        BY <4>1 DEF TypeOK, Op
      <4>3. y[2] \in DOMAIN awaiter[y[1]]
        BY <4>1, <4>2, LenProperties
      <4>4. awaiter[y[1]][y[2]].fd = f
        BY <2>2 DEF fdOf
      <4> QED
        BY <3>2, <4>1, <4>3, <4>4 DEF InUse
    <3> QED
      BY <3>2, <3>3, <3>4
  <2>3. \A y \in Made' : fdOf'[y] # NoFd => file'[fdOf'[y]] = Source(kindOf'[y])
    <3> SUFFICES ASSUME NEW y \in Made', fdOf'[y] # NoFd
                 PROVE  file'[fdOf'[y]] = Source(kindOf'[y])
      OBVIOUS
    <3>1. CASE y = x
      BY <1>3, <1>7, <1>9, <3>1 DEF Source
    <3>2. CASE y \in Made
      BY <1>7, <1>9, <2>1, <3>2
    <3> QED
      BY <1>7, <3>1, <3>2
  <2>4. \A y, z \in Made' : fdOf'[y] = fdOf'[z] /\ fdOf'[y] # NoFd
                             => y[1] = z[1] /\ (kindOf'[y] \in Own => y = z)
    <3> SUFFICES ASSUME NEW y \in Made', NEW z \in Made', fdOf'[y] = fdOf'[z], fdOf'[y] # NoFd
                 PROVE  y[1] = z[1] /\ (kindOf'[y] \in Own => y = z)
      OBVIOUS
    <3>1. CASE y \in Made /\ z \in Made
      BY <1>7, <3>1 DEF OwnInv
    <3>2. CASE y = x /\ z = x
      BY <3>2
    <3>3. CASE y = x /\ z \in Made
      BY <1>7, <2>2, <3>3
    <3>4. CASE y \in Made /\ z = x
      BY <1>7, <2>2, <3>4
    <3> QED
      BY <1>7, <3>1, <3>2, <3>3, <3>4
  <2>5. \A g \in Fd : file'[g] \in {"eventfd", "timerfd"} => \E y \in Made' : fdOf'[y] = g
    BY <1>7, <1>9 DEF OwnInv
  <2>6. \A d \in ready' : file'[d[1]] # "none"
    <3>1. \A d \in ready : d[1] \in Fd /\ file[d[1]] # "none"
      BY DEF OwnInv, TypeOK
    <3> QED
      BY <1>1, <1>9, <3>1
  <2>7. \A y \in Made' : kindOf'[y] = "file" /\ fdOf'[y] # NoFd => y \in Awaited'
    BY <1>3, <1>7, <1>10 DEF OwnInv
  <2>8. \A y \in Made' : kindOf'[y] \in Own /\ (y = taken' \/ y[2] < stage'[y[1]]) => fdOf'[y] = NoFd
    <3>1. taken' = taken /\ stage' = stage
      BY <1>1 DEF loop
    <3>2. x # taken /\ ~(x[2] < stage[x[1]])
      BY <1>2, <1>4, <1>7, Contexts
    <3> QED
      BY <1>7, <3>1, <3>2 DEF OwnInv
  <2> QED
    BY <2>3, <2>4, <2>5, <2>6, <2>7, <2>8 DEF OwnInv
<1>17. ArmInv'
  BY <1>1, <1>10, <1>12 DEF ArmInv, PointInv, loop
<1>18. PoolInv'
  BY <1>1, <1>10, <1>11, <1>12 DEF PoolInv, PointInv, files
<1>19. DoneInv'
  BY <1>1, <1>10, <1>11, <1>12 DEF DoneInv, PointInv, loop
<1>20. KeptInv'
  BY <1>1, <1>10, <1>12 DEF KeptInv, PointInv, loop
<1> QED
  BY <1>13, <1>14, <1>15, <1>16, <1>17, <1>18, <1>19, <1>20 DEF PointInv

-----------------------------------------------------------------------------
(* The events, and the threads of the pool.                                 *)

LEMMA EpollWaitOK == IInv /\ EpollWait => IInv'
<1> SUFFICES ASSUME IInv, EpollWait PROVE IInv'
  OBVIOUS
<1> USE DEF IInv
<1>1. /\ at = "poll" /\ fetched = {}
      /\ registered' = registered \ Firing
      /\ fetched' = {r.ctx : r \in Firing}
      /\ UNCHANGED <<file, ready, frames, ring, current, at, taken, sync, files>>
  BY DEF EpollWait
<1>2. Firing \subseteq registered /\ \A r \in Firing : <<r.fd, r.dir>> \in ready
  BY DEF Firing
<1>3. Made' = Made /\ kindOf' = kindOf /\ fdOf' = fdOf /\ Awaited' = Awaited
  BY <1>1, AwaitersKept DEF frames, Awaited
<1>4. Undone' = Undone /\ Unsignalled' = Unsignalled
  BY <1>1, PoolKept DEF files
<1>5. \A r \in registered : /\ r.ctx \in Awaited /\ kindOf[r.ctx] # "close" /\ r.ctx # taken
                            /\ fdOf[r.ctx] = r.fd /\ r.dir = Direction(kindOf[r.ctx])
                            /\ r.fd \in Fd /\ r.fd # NoFd /\ r.ctx \in Ctx
  BY DEF PointInv, ArmInv, TypeOK, Fd, NoFd
<1>6. TypeOK'
  BY <1>1, <1>2, <1>5 DEF TypeOK, frames, files
<1>7. TurnInv' /\ ReapInv' /\ OwnInv'
  BY <1>1, TurnFrame, ReapFrame, OwnFrame DEF frames
<1>8. ArmInv'
  <2>1. \A r, s \in registered : r.ctx = s.ctx => r = s
    BY DEF PointInv, ArmInv
  <2>2. \A r \in registered' : r \in registered /\ r.ctx \notin fetched'
    BY <1>1, <1>2, <2>1
  <2>3. \A x \in fetched' : x \in Awaited /\ kindOf[x] # "close" /\ fdOf[x] # NoFd /\ x # taken
    BY <1>1, <1>2, <1>5
  <2>4. taken # NoCtx => taken \in Awaited /\ kindOf[taken] # "close"
    BY DEF PointInv, ArmInv
  <2> QED
    BY <1>1, <1>3, <1>5, <2>1, <2>2, <2>3, <2>4 DEF ArmInv
<1>9. PoolInv'
  BY <1>1, <1>3, <1>4 DEF PointInv, PoolInv, files
<1>10. DoneInv'
  <2>1. \A x \in fetched' : kindOf[x] = "file" => x \notin Undone \cup Unsignalled
    <3> SUFFICES ASSUME NEW r \in Firing, kindOf[r.ctx] = "file"
                 PROVE  r.ctx \notin Undone \cup Unsignalled
      BY <1>1
    <3>1. r \in registered /\ <<r.fd, r.dir>> \in ready
      BY <1>2
    <3>2. r.ctx \in Awaited /\ fdOf[r.ctx] = r.fd /\ r.fd # NoFd /\ r.dir = "in"
      BY <1>5, <3>1 DEF Direction
    <3> QED
      BY <3>1, <3>2 DEF PointInv, DoneInv
  <2> QED
    BY <1>1, <1>3, <1>4, <2>1 DEF PointInv, DoneInv, frames
<1>11. KeptInv'
  <2>1. Armed \subseteq Armed' \cup fetched'
    BY <1>1 DEF Armed
  <2> QED
    BY <1>1, <1>3, <2>1 DEF PointInv, KeptInv
<1> QED
  BY <1>6, <1>7, <1>8, <1>9, <1>10, <1>11 DEF PointInv

\* Readiness of what is no eventfd is nothing the invariant speaks of.
LEMMA ReadyAdded ==
  ASSUME IInv, NEW f \in Fd, NEW dir \in {"in", "out"}, file[f] \in {"socket", "timerfd"},
         ready' = ready \cup {<<f, dir>>},
         UNCHANGED <<file, registered, frames, loop, files>>
  PROVE  IInv'
<1> USE DEF IInv
<1>1. Made' = Made /\ kindOf' = kindOf /\ fdOf' = fdOf /\ Awaited' = Awaited /\ Armed' = Armed
  BY AwaitersKept DEF frames, Awaited, Armed
<1>2. Undone' = Undone /\ Unsignalled' = Unsignalled
  BY PoolKept DEF files
<1>3. TypeOK'
  <2>1. ready \subseteq Fd \X {"in", "out"}
    BY DEF TypeOK
  <2>2. ready' \subseteq Fd \X {"in", "out"}
    BY <2>1
  <2> QED
    BY <2>2 DEF TypeOK, frames, loop, files
<1>4. TurnInv' /\ ReapInv'
  BY TurnFrame, ReapFrame DEF frames, loop
<1>5. OwnInv'
  BY <1>1 DEF OwnInv, frames, loop
<1>6. ArmInv' /\ PoolInv' /\ KeptInv'
  BY <1>1, <1>2 DEF PointInv, ArmInv, PoolInv, KeptInv, loop, files
<1>7. DoneInv'
  <2>1. \A x \in Awaited : kindOf[x] = "file" /\ fdOf[x] # NoFd
                           => (<<fdOf[x], "in">> \in ready' <=> <<fdOf[x], "in">> \in ready)
    <3> SUFFICES ASSUME NEW x \in Awaited, kindOf[x] = "file", fdOf[x] # NoFd
                 PROVE  fdOf[x] # f
      OBVIOUS
    <3>1. x \in Made
      BY Awaiters
    <3>2. file[fdOf[x]] = "eventfd"
      BY <3>1 DEF OwnInv, Source
    <3> QED
      BY <3>2
  <2> QED
    BY <1>1, <1>2, <2>1 DEF PointInv, DoneInv, frames, loop
<1> QED
  BY <1>3, <1>4, <1>5, <1>6, <1>7 DEF PointInv

LEMMA WorldOK == IInv /\ WorldNext => IInv'
<1> SUFFICES ASSUME IInv, WorldNext PROVE IInv'
  OBVIOUS
<1>1. ASSUME NEW r \in registered, SocketReady(r) PROVE IInv'
  <2>1. r.fd \in Fd /\ r.dir \in {"in", "out"}
    BY DEF IInv, TypeOK
  <2> QED
    BY <1>1, <2>1, ReadyAdded DEF SocketReady
<1>2. ASSUME NEW f \in Fd, Expire(f) PROVE IInv'
  <2>1. "in" \in {"in", "out"}
    OBVIOUS
  <2> QED
    BY <1>2, <2>1, ReadyAdded DEF Expire
<1> QED
  BY <1>1, <1>2 DEF WorldNext

\* What a thread of the pool does is its own affair.
LEMMA WorkerSet ==
  ASSUME TypeOK, NEW w \in Worker, NEW does \in {"waits", "io", "signals"},
         NEW x \in Ctx \cup {NoCtx}, worker' = [worker EXCEPT ![w] = [does |-> does, ctx |-> x]]
  PROVE  /\ worker' \in [Worker -> [does : {"waits", "io", "signals"}, ctx : Ctx \cup {NoCtx}]]
         /\ worker'[w].does = does /\ worker'[w].ctx = x
         /\ \A v \in Worker : v # w => worker'[v] = worker[v]
BY DEF TypeOK

\* A thread that works for a context is the only one, and it is queued no more.
LEMMA WorkerAlone ==
  ASSUME IInv, NEW w \in Worker, worker[w].does # "waits"
  PROVE  /\ worker[w].ctx \in Awaited /\ worker[w].ctx \in Ctx /\ kindOf[worker[w].ctx] = "file"
         /\ \A v \in Worker : v # w => worker[v].ctx # worker[w].ctx
         /\ \A i \in 1..Len(pool) : pool[i] # worker[w].ctx
         /\ worker[w].does = "io" => /\ worker[w].ctx \in Undone
                                     /\ worker[w].ctx \notin Unsignalled
         /\ worker[w].does = "signals" => /\ worker[w].ctx \in Unsignalled
                                          /\ worker[w].ctx \notin Undone
<1> USE DEF IInv
<1>1. worker[w].does \in {"io", "signals"} /\ worker[w].ctx # NoCtx
  BY DEF TypeOK, PointInv, PoolInv
<1>2. /\ worker[w].does = "io" => worker[w].ctx \in Undone
      /\ worker[w].does = "signals" => worker[w].ctx \in Unsignalled
  BY DEF Undone, Unsignalled
<1>3. worker[w].ctx \in Awaited /\ kindOf[worker[w].ctx] = "file"
  BY <1>1, <1>2 DEF PointInv, PoolInv
<1> QED
  BY <1>1, <1>2, <1>3 DEF PointInv, PoolInv, Awaited

LEMMA PoolTakeOK == \A w \in Worker : IInv /\ PoolTake(w) => IInv'
<1> SUFFICES ASSUME IInv, NEW w \in Worker, PoolTake(w) PROVE IInv'
  OBVIOUS
<1> USE DEF IInv
<1> DEFINE n == Len(pool)
           x == Head(pool)
<1>1. /\ worker[w].does = "waits" /\ pool # <<>>
      /\ worker' = [worker EXCEPT ![w] = [does |-> "io", ctx |-> x]]
      /\ pool' = Tail(pool)
      /\ UNCHANGED <<kernel, frames, loop>>
  BY DEF PoolTake
<1>2. pool \in Seq(Ctx) /\ n \in Nat
  BY LenProperties DEF TypeOK
<1>3. /\ n >= 1 /\ x \in Ctx /\ x = pool[1]
      /\ pool' \in Seq(Ctx) /\ Len(pool') = n - 1
      /\ \A i \in 1..Len(pool') : i + 1 \in 1..n /\ pool'[i] = pool[i + 1]
  <2>1. /\ x \in Ctx /\ x = pool[1] /\ pool' \in Seq(Ctx) /\ Len(pool') = n - 1
        /\ n >= 1 /\ \A i \in 1..(n - 1) : pool'[i] = pool[i + 1]
    BY <1>1, <1>2, HeadTailProperties, EmptySeq
  <2> HIDE DEF n, x
  <2>2. \A i \in 1..(n - 1) : i + 1 \in 1..n
    BY <1>2
  <2> QED
    BY <2>1, <2>2
<1> HIDE DEF n, x
<1>4. 1 \in 1..n /\ x # NoCtx
  BY <1>2, <1>3, Contexts
<1>5. /\ worker' \in [Worker -> [does : {"waits", "io", "signals"}, ctx : Ctx \cup {NoCtx}]]
      /\ worker'[w].does = "io" /\ worker'[w].ctx = x
      /\ \A v \in Worker : v # w => worker'[v] = worker[v]
  BY <1>1, <1>3, WorkerSet
<1>6. /\ \A i, j \in 1..n : pool[i] = pool[j] => i = j
      /\ \A v \in Worker : \A i \in 1..n : pool[i] # worker[v].ctx
      /\ \A v \in Worker : worker[v].does = "waits" <=> worker[v].ctx = NoCtx
      /\ \A u, v \in Worker : worker[u].ctx = worker[v].ctx /\ u # v => worker[u].ctx = NoCtx
  BY DEF PointInv, PoolInv, n
<1>7. \A i \in 1..Len(pool') : pool'[i] # x
  <2> TAKE i \in 1..Len(pool')
  <2>1. i \in Nat /\ i >= 1 /\ i + 1 # 1 /\ i + 1 \in 1..n /\ pool'[i] = pool[i + 1]
    BY <1>2, <1>3
  <2> QED
    BY <1>3, <1>4, <1>6, <2>1
<1>8. \A i \in 2..n : i - 1 \in 1..Len(pool') /\ pool'[i - 1] = pool[i]
  <2> TAKE i \in 2..n
  <2>1. i - 1 \in 1..Len(pool') /\ (i - 1) + 1 = i
    BY <1>2, <1>3
  <2> QED
    BY <1>3, <2>1
<1>9. Unsignalled' = Unsignalled
  BY <1>1, <1>5 DEF Unsignalled
<1>10. Undone' = Undone
  <2>1. \A y \in Undone' : y \in Undone
    <3> SUFFICES ASSUME NEW y \in Undone' PROVE y \in Undone
      OBVIOUS
    <3>1. CASE \E i \in 1..Len(pool') : y = pool'[i]
      BY <1>3, <3>1 DEF Undone, n
    <3>2. CASE \E v \in Worker : worker'[v].does = "io" /\ y = worker'[v].ctx
      <4>1. PICK v \in Worker : worker'[v].does = "io" /\ y = worker'[v].ctx
        BY <3>2
      <4>2. CASE v = w
        BY <1>3, <1>4, <1>5, <4>1, <4>2 DEF Undone, n
      <4>3. CASE v # w
        BY <1>5, <4>1, <4>3 DEF Undone
      <4> QED
        BY <4>2, <4>3
    <3> QED
      BY <3>1, <3>2 DEF Undone
  <2>2. \A y \in Undone : y \in Undone'
    <3> SUFFICES ASSUME NEW y \in Undone PROVE y \in Undone'
      OBVIOUS
    <3>1. CASE \E i \in 1..n : y = pool[i]
      <4>1. PICK i \in 1..n : y = pool[i]
        BY <3>1
      <4>2. CASE i = 1
        BY <1>3, <1>5, <4>1, <4>2 DEF Undone
      <4>3. CASE i # 1
        <5>1. i \in 2..n
          BY <1>2, <4>3
        <5> QED
          BY <1>8, <4>1, <5>1 DEF Undone
      <4> QED
        BY <4>2, <4>3
    <3>2. CASE \E v \in Worker : worker[v].does = "io" /\ y = worker[v].ctx
      <4>1. PICK v \in Worker : worker[v].does = "io" /\ y = worker[v].ctx
        BY <3>2
      <4>2. v # w
        BY <1>1, <4>1
      <4> QED
        BY <1>5, <4>1, <4>2 DEF Undone
    <3> QED
      BY <3>1, <3>2 DEF Undone, n
  <2> QED
    BY <2>1, <2>2
<1>11. TypeOK'
  BY <1>1, <1>3, <1>5 DEF TypeOK, kernel, frames, loop
<1>12. TurnInv' /\ ReapInv' /\ OwnInv'
  BY <1>1, TurnFrame, ReapFrame, OwnFrame DEF kernel, frames, loop
<1>13. Made' = Made /\ kindOf' = kindOf /\ fdOf' = fdOf /\ Awaited' = Awaited /\ Armed' = Armed
  BY <1>1, AwaitersKept DEF frames, kernel, Awaited, Armed
<1>14. ArmInv' /\ DoneInv' /\ KeptInv'
  BY <1>1, <1>9, <1>10, <1>13 DEF PointInv, ArmInv, DoneInv, KeptInv, kernel, frames, loop
<1>15. PoolInv'
  <2>1. \A v \in Worker : worker'[v].does = "waits" <=> worker'[v].ctx = NoCtx
    BY <1>4, <1>5, <1>6
  <2>2. \A i, j \in 1..Len(pool') : pool'[i] = pool'[j] => i = j
    <3> TAKE i, j \in 1..Len(pool')
    <3>1. i \in Int /\ j \in Int /\ i + 1 \in 1..n /\ j + 1 \in 1..n
          /\ pool'[i] = pool[i + 1] /\ pool'[j] = pool[j + 1]
      BY <1>2, <1>3
    <3>2. pool[i + 1] = pool[j + 1] => i + 1 = j + 1
      BY <1>6, <3>1
    <3> QED
      BY <3>1, <3>2
  <2>3. \A v \in Worker : \A i \in 1..Len(pool') : pool'[i] # worker'[v].ctx
    BY <1>3, <1>5, <1>6, <1>7
  <2>4. \A u, v \in Worker : worker'[u].ctx = worker'[v].ctx /\ u # v => worker'[u].ctx = NoCtx
    BY <1>3, <1>4, <1>5, <1>6
  <2>5. \A y \in Undone \cup Unsignalled : y \in Awaited /\ kindOf[y] = "file"
    BY DEF PointInv, PoolInv
  <2>6. Undone \cap Unsignalled = {}
    BY DEF PointInv, PoolInv
  <2> QED
    BY <1>9, <1>10, <1>13, <2>1, <2>2, <2>3, <2>4, <2>5, <2>6 DEF PoolInv
<1> QED
  BY <1>11, <1>12, <1>14, <1>15 DEF PointInv

LEMMA FileIoOK == \A w \in Worker : IInv /\ FileIo(w) => IInv'
<1> SUFFICES ASSUME IInv, NEW w \in Worker, FileIo(w) PROVE IInv'
  OBVIOUS
<1> USE DEF IInv
<1> DEFINE x == worker[w].ctx
<1>1. /\ worker[w].does = "io"
      /\ done' = [done EXCEPT ![x[1]] = TRUE]
      /\ worker' = [worker EXCEPT ![w].does = "signals"]
      /\ UNCHANGED <<kernel, awaiter, stage, reap, loop, pool>>
  BY DEF FileIo
<1>2. /\ x \in Awaited /\ x \in Ctx /\ kindOf[x] = "file"
      /\ \A v \in Worker : v # w => worker[v].ctx # x
      /\ \A i \in 1..Len(pool) : pool[i] # x
      /\ x \in Undone /\ x \notin Unsignalled
  BY <1>1, WorkerAlone
<1>3. /\ worker' \in [Worker -> [does : {"waits", "io", "signals"}, ctx : Ctx \cup {NoCtx}]]
      /\ worker'[w].does = "signals" /\ worker'[w].ctx = x
      /\ \A v \in Worker : v # w => worker'[v] = worker[v]
  BY <1>1 DEF TypeOK
<1> HIDE DEF x
<1>4. Undone' = Undone \ {x}
  <2>1. \A y \in Undone' : y \in Undone /\ y # x
    BY <1>1, <1>2, <1>3 DEF Undone, loop
  <2>2. \A y \in Undone : y # x => y \in Undone'
    <3> SUFFICES ASSUME NEW y \in Undone, y # x PROVE y \in Undone'
      OBVIOUS
    <3>1. CASE \E i \in 1..Len(pool) : y = pool[i]
      BY <1>1, <3>1 DEF Undone
    <3>2. CASE \E v \in Worker : worker[v].does = "io" /\ y = worker[v].ctx
      BY <1>3, <3>2 DEF Undone, x
    <3> QED
      BY <3>1, <3>2 DEF Undone
  <2> QED
    BY <2>1, <2>2
<1>5. Unsignalled' = Unsignalled \cup {x}
  <2>1. \A y \in Unsignalled' : y \in Unsignalled \/ y = x
    BY <1>3 DEF Unsignalled
  <2>2. \A y \in Unsignalled : y \in Unsignalled'
    BY <1>1, <1>3 DEF Unsignalled
  <2>3. x \in Unsignalled'
    BY <1>3 DEF Unsignalled
  <2> QED
    BY <2>1, <2>2, <2>3
<1>6. x[1] \in Coro /\ stage[x[1]] # 0 /\ x # NoCtx
  BY <1>2, Contexts DEF Awaited
<1>7. done' \in [Coro -> BOOLEAN] /\ done'[x[1]] /\ \A d \in Coro \ {x[1]} : done'[d] = done[d]
  BY <1>1, <1>6 DEF TypeOK
<1>8. Made' = Made /\ kindOf' = kindOf /\ fdOf' = fdOf /\ Awaited' = Awaited /\ Armed' = Armed
  BY <1>1, AwaitersKept DEF kernel, Awaited, Armed
<1>9. TypeOK'
  BY <1>1, <1>3, <1>7 DEF TypeOK, kernel, loop
<1>10. TurnInv'
  BY <1>1, <1>6, <1>7, <1>8 DEF TurnInv, loop
<1>11. ReapInv' /\ OwnInv'
  BY <1>1, ReapFrame, OwnFrame DEF kernel, loop
<1>12. ArmInv' /\ KeptInv'
  BY <1>1, <1>8 DEF PointInv, ArmInv, KeptInv, kernel, loop
<1>13. PoolInv'
  <2>1. \A y \in Undone' \cup Unsignalled' : y \in Awaited /\ kindOf[y] = "file"
    BY <1>2, <1>4, <1>5 DEF PointInv, PoolInv
  <2>2. Undone' \cap Unsignalled' = {}
    BY <1>4, <1>5 DEF PointInv, PoolInv
  <2>3. \A v \in Worker : worker'[v].does = "waits" <=> worker'[v].ctx = NoCtx
    BY <1>3, <1>6 DEF PointInv, PoolInv
  <2>4. \A v \in Worker : worker'[v].ctx = worker[v].ctx
    BY <1>3 DEF x
  <2> QED
    BY <1>1, <1>8, <2>1, <2>2, <2>3, <2>4 DEF PointInv, PoolInv
<1>14. DoneInv'
  <2> SUFFICES ASSUME NEW y \in Awaited
               PROVE  /\ kindOf[y] # "file" => (done'[y[1]] <=> y = taken)
                      /\ kindOf[y] = "file" =>
                           /\ done'[y[1]] <=> y \notin Undone'
                           /\ y \in fetched \cup {taken} => y \notin Undone' \cup Unsignalled'
                           /\ fdOf[y] # NoFd =>
                                (<<fdOf[y], "in">> \in ready <=> y \notin Undone' \cup Unsignalled')
    BY <1>1, <1>8 DEF DoneInv, kernel, loop
  <2>1. CASE y = x
    BY <1>2, <1>4, <1>5, <1>7, <2>1 DEF PointInv, DoneInv
  <2>2. CASE y # x
    <3>1. y[1] \in Coro \ {x[1]}
      BY <1>2, <2>2, Awaiters, Contexts
    <3>2. done'[y[1]] = done[y[1]]
      BY <1>7, <3>1
    <3>3. (y \in Undone' <=> y \in Undone) /\ (y \in Unsignalled' <=> y \in Unsignalled)
      BY <1>4, <1>5, <2>2
    <3> QED
      BY <3>2, <3>3 DEF PointInv, DoneInv
  <2> QED
    BY <2>1, <2>2
<1> QED
  BY <1>9, <1>10, <1>11, <1>12, <1>13, <1>14 DEF PointInv

LEMMA SignalOK == \A w \in Worker : IInv /\ Signal(w) => IInv'
<1> SUFFICES ASSUME IInv, NEW w \in Worker, Signal(w) PROVE IInv'
  OBVIOUS
<1> USE DEF IInv
<1> DEFINE x == worker[w].ctx
           f == awaiter[x[1]][x[2]].fd
<1>1. /\ worker[w].does = "signals"
      /\ ready' = IF f = NoFd THEN ready ELSE ready \cup {<<f, "in">>}
      /\ worker' = [worker EXCEPT ![w] = [does |-> "waits", ctx |-> NoCtx]]
      /\ UNCHANGED <<file, registered, frames, loop, pool>>
  BY DEF Signal
<1>2. /\ x \in Awaited /\ x \in Ctx /\ kindOf[x] = "file"
      /\ \A v \in Worker : v # w => worker[v].ctx # x
      /\ \A i \in 1..Len(pool) : pool[i] # x
      /\ x \in Unsignalled /\ x \notin Undone
  BY <1>1, WorkerAlone
<1>3. /\ worker' \in [Worker -> [does : {"waits", "io", "signals"}, ctx : Ctx \cup {NoCtx}]]
      /\ worker'[w].does = "waits" /\ worker'[w].ctx = NoCtx
      /\ \A v \in Worker : v # w => worker'[v] = worker[v]
  BY <1>1, WorkerSet
<1>4. x \in Made /\ fdOf[x] = f /\ f \in Fd \cup {NoFd}
  <2>1. x \in Made /\ fdOf \in [Made -> Fd \cup {NoFd}]
    BY <1>2, Awaiters
  <2> QED
    BY <2>1 DEF fdOf
<1> HIDE DEF f
<1>5. Undone' = Undone
  <2>1. \A v \in Worker : worker'[v].does = "io" <=> worker[v].does = "io"
    BY <1>1, <1>3
  <2>2. \A v \in Worker : worker'[v].does = "io" => worker'[v].ctx = worker[v].ctx
    BY <1>3
  <2> QED
    BY <1>1, <2>1, <2>2 DEF Undone
<1>6. Unsignalled' = Unsignalled \ {x}
  <2>1. \A y \in Unsignalled' : y \in Unsignalled /\ y # x
    BY <1>2, <1>3 DEF Unsignalled
  <2>2. \A y \in Unsignalled : y # x => y \in Unsignalled'
    BY <1>3 DEF Unsignalled
  <2> QED
    BY <2>1, <2>2
<1> HIDE DEF x
<1>7. Made' = Made /\ kindOf' = kindOf /\ fdOf' = fdOf /\ Awaited' = Awaited /\ Armed' = Armed
  BY <1>1, AwaitersKept DEF frames, Awaited, Armed
<1>8. TypeOK'
  <2>1. ready \subseteq Fd \X {"in", "out"}
    BY DEF TypeOK
  <2>2. ready' \subseteq Fd \X {"in", "out"}
    BY <1>1, <1>4, <2>1
  <2> QED
    BY <1>1, <1>3, <2>2 DEF TypeOK, frames, loop
<1>9. TurnInv' /\ ReapInv'
  BY <1>1, TurnFrame, ReapFrame DEF frames, loop
<1>10. f # NoFd => file[f] = "eventfd"
  BY <1>2, <1>4 DEF OwnInv, Source
<1>11. OwnInv'
  <2>1. \A d \in ready' : file[d[1]] # "none"
    BY <1>1, <1>10 DEF OwnInv
  <2> QED
    BY <1>1, <1>7, <2>1 DEF OwnInv, frames, loop
<1>12. ArmInv' /\ KeptInv'
  BY <1>1, <1>7 DEF PointInv, ArmInv, KeptInv, loop
<1>13. PoolInv'
  <2>1. \A y \in Undone' \cup Unsignalled' : y \in Awaited /\ kindOf[y] = "file"
    BY <1>5, <1>6 DEF PointInv, PoolInv
  <2>2. Undone' \cap Unsignalled' = {}
    BY <1>5, <1>6 DEF PointInv, PoolInv
  <2>3. \A v \in Worker : worker'[v].does = "waits" <=> worker'[v].ctx = NoCtx
    BY <1>3 DEF PointInv, PoolInv
  <2>4. \A v \in Worker : worker'[v].ctx = worker[v].ctx \/ worker'[v].ctx = NoCtx
    BY <1>3
  <2>5. \A i \in 1..Len(pool) : pool[i] # NoCtx
    BY Contexts, ElementOfSeq DEF TypeOK
  <2> QED
    BY <1>1, <1>7, <2>1, <2>2, <2>3, <2>4, <2>5 DEF PointInv, PoolInv
<1>14. DoneInv'
  <2> SUFFICES ASSUME NEW y \in Awaited
               PROVE  /\ kindOf[y] # "file" => (done[y[1]] <=> y = taken)
                      /\ kindOf[y] = "file" =>
                           /\ done[y[1]] <=> y \notin Undone'
                           /\ y \in fetched \cup {taken} => y \notin Undone' \cup Unsignalled'
                           /\ fdOf[y] # NoFd =>
                                (<<fdOf[y], "in">> \in ready' <=> y \notin Undone' \cup Unsignalled')
    BY <1>1, <1>7 DEF DoneInv, frames, loop
  <2>1. CASE y = x
    BY <1>1, <1>2, <1>4, <1>5, <1>6, <2>1 DEF PointInv, DoneInv
  <2>2. CASE y # x
    <3>1. kindOf[y] = "file" /\ fdOf[y] # NoFd => fdOf[y] # f
      <4>1. y \in Made
        BY Awaiters
      <4> QED
        BY <1>4, <2>2, <4>1 DEF OwnInv, Own
    <3>2. kindOf[y] = "file" /\ fdOf[y] # NoFd
             => (<<fdOf[y], "in">> \in ready' <=> <<fdOf[y], "in">> \in ready)
      BY <1>1, <3>1
    <3>3. (y \in Undone' <=> y \in Undone) /\ (y \in Unsignalled' <=> y \in Unsignalled)
      BY <1>5, <1>6, <2>2
    <3> QED
      BY <3>2, <3>3 DEF PointInv, DoneInv
  <2> QED
    BY <2>1, <2>2
<1> QED
  BY <1>8, <1>9, <1>11, <1>12, <1>13, <1>14 DEF PointInv

\* What a performed operation of its own descriptor leaves.
LEMMA OwnClosed ==
  ASSUME TypeOK, OwnInv, NEW x \in Awaited, kindOf[x] \in Own, fdOf[x] # NoFd,
         file' = [file EXCEPT ![fdOf[x]] = "none"],
         ready' = {d \in ready : d[1] # fdOf[x]},
         awaiter' = [awaiter EXCEPT ![x[1]][x[2]].fd = NoFd],
         stage' = stage, taken' = x
  PROVE  file' \in [Fd -> {"none", "socket", "eventfd", "timerfd"}] /\ OwnInv'
<1> DEFINE f == fdOf[x]
<1>1. /\ x \in Made /\ fdOf \in [Made -> Fd \cup {NoFd}]
      /\ \A y, z \in Awaited : y[1] = z[1] => y = z
  BY Awaiters
<1>2. /\ Made' = Made
      /\ \A y \in Made : kindOf'[y] = kindOf[y] /\ fdOf'[y] = IF y = x THEN NoFd ELSE fdOf[y]
  <2>1. NoFd \in Fd \cup {NoFd}
    OBVIOUS
  <2> QED
    BY <1>1, <2>1, DescriptorSet
<1>3. f \in Fd /\ NoFd \notin Fd
  BY <1>1 DEF NoFd, Fd
<1>4. \A y \in Made : y # x => fdOf[y] # f
  BY <1>1 DEF OwnInv
<1>5. Awaited' = Awaited
  BY DEF Awaited
<1> HIDE DEF f
<1>6. /\ file' \in [Fd -> {"none", "socket", "eventfd", "timerfd"}]
      /\ \A g \in Fd : file'[g] = IF g = f THEN "none" ELSE file[g]
  BY <1>3 DEF TypeOK, f
<1>7. \A y \in Made' : fdOf'[y] # NoFd => file'[fdOf'[y]] = Source(kindOf'[y])
  BY <1>1, <1>2, <1>4, <1>6 DEF OwnInv
<1>8. \A y, z \in Made' : fdOf'[y] = fdOf'[z] /\ fdOf'[y] # NoFd
                          => y[1] = z[1] /\ (kindOf'[y] \in Own => y = z)
  BY <1>2 DEF OwnInv
<1>9. ASSUME NEW g \in Fd, file'[g] \in {"eventfd", "timerfd"} PROVE \E y \in Made' : fdOf'[y] = g
  <2>1. file[g] \in {"eventfd", "timerfd"} /\ g # f
    BY <1>6, <1>9
  <2>2. PICK y \in Made : fdOf[y] = g
    BY <2>1 DEF OwnInv
  <2>3. y # x
    BY <2>1, <2>2 DEF f
  <2> QED
    BY <1>2, <2>2, <2>3
<1>10. \A d \in ready' : file'[d[1]] # "none"
  <2>1. \A d \in ready : d[1] \in Fd /\ file[d[1]] # "none"
    BY DEF OwnInv, TypeOK
  <2>2. \A d \in ready' : d \in ready /\ d[1] # f
    BY DEF f
  <2> QED
    BY <1>6, <2>1, <2>2
<1>11. \A y \in Made' : kindOf'[y] = "file" /\ fdOf'[y] # NoFd => y \in Awaited'
  BY <1>2, <1>5 DEF OwnInv
<1>12. \A y \in Made' : kindOf'[y] \in Own /\ (y = taken' \/ y[2] < stage'[y[1]]) => fdOf'[y] = NoFd
  BY <1>2 DEF OwnInv
<1> QED
  BY <1>6, <1>7, <1>8, <1>9, <1>10, <1>11, <1>12 DEF OwnInv

LEMMA PerformOK == \A x \in Ctx : IInv /\ Perform(x) => IInv'
<1> SUFFICES ASSUME IInv, NEW x \in Ctx, Perform(x) PROVE IInv'
  OBVIOUS
<1> USE DEF IInv
<1> DEFINE op == awaiter[x[1]][x[2]]
           c == x[1]
           own == kindOf[x] \in Own
           f == fdOf[x]
<1>0. x \in fetched /\ x \in Awaited /\ x \in Made /\ op.kind = kindOf[x] /\ op.fd = f
  <2>1. x \in fetched /\ x \in Awaited /\ x \in Made
    BY Awaiters DEF Perform, PointInv, ArmInv
  <2> QED
    BY <2>1 DEF kindOf, fdOf
<1>1. /\ at = "poll"
      /\ fetched' = fetched \ {x}
      /\ own => Close(f)
      /\ ~own /\ kindOf[x] = "accept" => Accept(f)
      /\ ~own /\ kindOf[x] # "accept" => Transfer(f, Direction(kindOf[x]))
      /\ awaiter' = IF own THEN [awaiter EXCEPT ![x[1]][x[2]].fd = NoFd] ELSE awaiter
      /\ done' = IF kindOf[x] = "file" THEN done ELSE [done EXCEPT ![c] = TRUE]
      /\ taken' = x /\ at' = "complete"
      /\ UNCHANGED <<stage, reap, ring, current, sync, files>>
  <2> HIDE DEF op
  <2>1. /\ at = "poll"
        /\ fetched' = fetched \ {x}
        /\ op.kind \in Own => Close(op.fd)
        /\ op.kind \notin Own /\ op.kind = "accept" => Accept(op.fd)
        /\ op.kind \notin Own /\ op.kind # "accept" => Transfer(op.fd, Direction(op.kind))
        /\ awaiter' = IF op.kind \in Own THEN [awaiter EXCEPT ![x[1]][x[2]].fd = NoFd] ELSE awaiter
        /\ done' = IF op.kind = "file" THEN done ELSE [done EXCEPT ![x[1]] = TRUE]
        /\ taken' = x /\ at' = "complete"
        /\ UNCHANGED <<stage, reap, ring, current, sync, files>>
    BY DEF Perform, Own, op
  <2>2. op.kind = kindOf[x] /\ op.fd = f
    BY <1>0
  <2> HIDE DEF f
  <2> QED
    BY <2>1, <2>2
<1> HIDE DEF op
<1>2. /\ kindOf[x] # "close" /\ f # NoFd /\ taken = NoCtx /\ current = NoCoro
      /\ c \in Coro /\ stage[c] # 0 /\ x # NoCtx /\ f \in Fd
  <2>1. f \in Fd \cup {NoFd}
    BY <1>0, Awaiters
  <2> QED
    BY <1>0, <1>1, <2>1, Contexts DEF PointInv, ArmInv, TurnInv, Awaited
<1>3. /\ Made \subseteq Ctx /\ kindOf \in [Made -> Kind] /\ fdOf \in [Made -> Fd \cup {NoFd}]
      /\ Awaited \subseteq Made /\ \A y, z \in Awaited : y[1] = z[1] => y = z
  BY Awaiters
<1>4. /\ awaiter' \in [Coro -> Seq(Op)] /\ \A d \in Coro : Len(awaiter'[d]) = Len(awaiter[d])
      /\ Made' = Made
      /\ \A y \in Made : kindOf'[y] = kindOf[y] /\ fdOf'[y] = IF own /\ y = x THEN NoFd ELSE fdOf[y]
  <2>1. CASE own
    <3>1. awaiter' = [awaiter EXCEPT ![x[1]][x[2]].fd = NoFd] /\ NoFd \in Fd \cup {NoFd}
      BY <1>1, <2>1
    <3> QED
      BY <1>0, <2>1, <3>1, DescriptorSet
  <2>2. CASE ~own
    <3>1. awaiter' = awaiter
      BY <1>1, <2>2
    <3> QED
      BY <2>2, <3>1, AwaitersKept DEF TypeOK, Op
  <2> QED
    BY <2>1, <2>2
<1>5. Awaited' = Awaited
  BY <1>1 DEF Awaited
<1>6. Undone' = Undone /\ Unsignalled' = Unsignalled
  BY <1>1, PoolKept DEF files
<1>7. /\ done' \in [Coro -> BOOLEAN] /\ done'[c]
      /\ \A d \in Coro \ {c} : done'[d] = done[d]
  <2>1. CASE kindOf[x] = "file"
    <3>1. done[c]
      BY <1>0, <2>1 DEF PointInv, DoneInv
    <3> QED
      BY <1>1, <2>1, <3>1 DEF TypeOK
  <2>2. CASE kindOf[x] # "file"
    BY <1>1, <1>2, <2>2 DEF TypeOK
  <2> QED
    BY <2>1, <2>2
<1>8. \A r \in registered : /\ r.ctx \in Awaited /\ r.ctx # x /\ fdOf[r.ctx] = r.fd
                            /\ r.fd \in Fd /\ r.fd # NoFd
  BY <1>0 DEF PointInv, ArmInv, TypeOK, Fd, NoFd
<1>9. /\ file' \in [Fd -> {"none", "socket", "eventfd", "timerfd"}]
      /\ registered' = registered /\ ready' \subseteq ready
      /\ \A d \in ready : d[1] # f => d \in ready'
      /\ OwnInv'
  <2>1. CASE own
    <3>1. /\ file' = [file EXCEPT ![f] = "none"]
          /\ ready' = {d \in ready : d[1] # f}
          /\ registered' = {r \in registered : r.fd # f}
      BY <1>1, <1>2, <2>1 DEF Close
    <3>2. \A r \in registered : r.fd # f
      BY <1>0, <1>2, <1>3, <1>8, <2>1 DEF OwnInv
    <3>3. registered' = registered
      BY <3>1, <3>2
    <3>4. file' \in [Fd -> {"none", "socket", "eventfd", "timerfd"}] /\ OwnInv'
      BY <1>0, <1>1, <1>2, <2>1, <3>1, OwnClosed
    <3> QED
      BY <3>1, <3>3, <3>4
  <2>2. CASE ~own
    <3>1. /\ registered' = registered /\ ready' \subseteq ready
          /\ \A d \in ready : d[1] # f => d \in ready'
      <4>1. CASE kindOf[x] = "accept"
        <5>1. registered' = registered /\ ready' = ready \ {<<f, "in">>}
          BY <1>1, <2>2, <4>1 DEF Accept
        <5> QED
          BY <5>1
      <4>2. CASE kindOf[x] # "accept"
        <5>1. registered' = registered /\ ready' = ready \ {<<f, Direction(kindOf[x])>>}
          BY <1>1, <2>2, <4>2 DEF Transfer
        <5> QED
          BY <5>1
      <4> QED
        BY <4>1, <4>2
    <3>2. \/ file' = file
          \/ \E g \in Fd : file[g] = "none" /\ file' = [file EXCEPT ![g] = "socket"]
      <4>1. CASE kindOf[x] = "accept"
        <5>1. file' = file \/ file' = Open(NextFd, "socket")
          BY <1>1, <2>2, <4>1 DEF Accept
        <5> QED
          BY <5>1, NextFree DEF Open
      <4>2. CASE kindOf[x] # "accept"
        BY <1>1, <2>2, <4>2 DEF Transfer
      <4> QED
        BY <4>1, <4>2
    <3>3. awaiter' = awaiter /\ stage' = stage /\ taken' \in Made /\ kindOf[taken'] \notin Own
      BY <1>0, <1>1, <2>2
    <3> QED
      BY <3>1, <3>2, <3>3, SocketOpened
  <2> QED
    BY <2>1, <2>2
<1> HIDE DEF f, own
<1>10. Armed' = Armed
  BY <1>9 DEF Armed
<1>11. TypeOK'
  <2>1. \A d \in Coro : stage[d] <= Len(awaiter'[d]) /\ Len(awaiter'[d]) <= 2
    BY <1>4 DEF TypeOK
  <2>2. ready' \subseteq Fd \X {"in", "out"}
    BY <1>9 DEF TypeOK
  <2> QED
    BY <1>1, <1>4, <1>7, <1>9, <2>1, <2>2 DEF TypeOK, Op, files
<1>12. TurnInv'
  <2>1. \A d \in Coro : stage[d] = 0 => ~done'[d] /\ awaiter'[d] = <<>>
    <3> SUFFICES ASSUME NEW d \in Coro, stage[d] = 0 PROVE ~done'[d] /\ awaiter'[d] = <<>>
      OBVIOUS
    <3>1. ~done[d] /\ awaiter[d] = <<>> /\ d # c
      BY <1>2, IoAssumption DEF TurnInv
    <3>2. Len(awaiter'[d]) = 0 /\ awaiter'[d] \in Seq(Op)
      BY <1>4, <3>1, EmptySeq
    <3> QED
      BY <1>7, <3>1, <3>2, EmptySeq
  <2>2. \A y \in Made' : y[1] # NoCoro
    BY Contexts, IoAssumption DEF Made
  <2> QED
    BY <1>1, <1>2, <2>1, <2>2 DEF TurnInv
<1>13. ReapInv'
  <2>1. Counted' = 0 /\ Counted = 0
    BY <1>1, <1>2 DEF Counted
  <2> QED
    BY <1>1, <2>1 DEF ReapInv, Busy
<1>14. ArmInv'
  <2>1. \A y \in Awaited : y # x => kindOf'[y] = kindOf[y] /\ fdOf'[y] = fdOf[y]
    BY <1>3, <1>4
  <2>2. \A r \in registered : /\ r.ctx # x /\ kindOf[r.ctx] # "close"
                              /\ fdOf[r.ctx] = r.fd /\ r.dir = Direction(kindOf[r.ctx])
                              /\ r.ctx \notin fetched /\ r.ctx \in Awaited
    BY <1>8 DEF PointInv, ArmInv
  <2>3. \A r, s \in registered : r.ctx = s.ctx => r = s
    BY DEF PointInv, ArmInv
  <2>4. \A y \in fetched' : y \in fetched /\ y # x /\ y \in Awaited /\ kindOf[y] # "close" /\ fdOf[y] # NoFd
    BY <1>1 DEF PointInv, ArmInv
  <2>5. taken' \in Awaited /\ kindOf'[taken'] # "close" /\ taken' \notin fetched'
    BY <1>0, <1>1, <1>2, <1>4
  <2> QED
    BY <1>1, <1>5, <1>9, <2>1, <2>2, <2>3, <2>4, <2>5 DEF ArmInv
<1>15. PoolInv'
  BY <1>1, <1>3, <1>4, <1>5, <1>6 DEF PointInv, PoolInv, files
<1>16. DoneInv'
  <2> SUFFICES ASSUME NEW y \in Awaited
               PROVE  /\ kindOf'[y] # "file" => (done'[y[1]] <=> y = x)
                      /\ kindOf'[y] = "file" =>
                           /\ done'[y[1]] <=> y \notin Undone
                           /\ y \in fetched' \cup {x} => y \notin Undone \cup Unsignalled
                           /\ fdOf'[y] # NoFd =>
                                (<<fdOf'[y], "in">> \in ready' <=> y \notin Undone \cup Unsignalled)
    BY <1>1, <1>5, <1>6 DEF DoneInv
  <2>1. y \in Made /\ y[1] \in Coro
    BY <1>3, Contexts
  <2>2. CASE y = x
    <3>1. kindOf[x] = "file" => fdOf'[x] = NoFd
      BY <1>0, <1>4 DEF own, Own
    <3>2. kindOf[x] = "file" => x \notin Undone \cup Unsignalled
      BY <1>0 DEF PointInv, DoneInv
    <3> QED
      BY <1>0, <1>4, <1>7, <2>2, <3>1, <3>2
  <2>3. CASE y # x
    <3>1. y[1] # c /\ y # taken
      BY <1>0, <1>2, <1>3, <2>1, <2>3, Contexts
    <3>2. kindOf'[y] = kindOf[y] /\ fdOf'[y] = fdOf[y] /\ done'[y[1]] = done[y[1]]
      BY <1>4, <1>7, <2>1, <2>3, <3>1
    <3>3. kindOf[y] = "file" /\ fdOf[y] # NoFd => fdOf[y] # f
      BY <1>0, <2>1, <2>3 DEF OwnInv, Own, f
    <3>4. kindOf[y] = "file" /\ fdOf[y] # NoFd
             => (<<fdOf[y], "in">> \in ready' <=> <<fdOf[y], "in">> \in ready)
      BY <1>9, <3>3
    <3>5. y \in fetched' <=> y \in fetched
      BY <1>1, <2>3
    <3> QED
      BY <2>3, <3>1, <3>2, <3>4, <3>5 DEF PointInv, DoneInv
  <2> QED
    BY <2>2, <2>3
<1>17. KeptInv'
  <2>1. \A y \in Awaited : y # x => kindOf'[y] = kindOf[y] /\ fdOf'[y] = fdOf[y] /\ y # taken
    BY <1>2, <1>3, <1>4, Contexts
  <2> QED
    BY <1>1, <1>5, <1>10, <2>1 DEF PointInv, KeptInv
<1> QED
  BY <1>9, <1>11, <1>12, <1>13, <1>14, <1>15, <1>16, <1>17 DEF PointInv

\* What handle_completion knows of the operation it handles.
LEMMA TakenHandled ==
  ASSUME IInv, at = "complete"
  PROVE  /\ taken \in Awaited /\ taken \in Made /\ current = NoCoro
         /\ taken[1] \in Coro /\ taken[2] \in {1, 2} /\ taken = <<taken[1], taken[2]>>
         /\ stage[taken[1]] = taken[2] /\ done[taken[1]]
         /\ \A x \in Awaited : x[1] = taken[1] => x = taken
         /\ \A x \in Ctx : x[1] = taken[1]
                             => x \notin Armed \cup fetched \cup Undone \cup Unsignalled
         /\ \A x \in Made : x[1] = taken[1] /\ kindOf[x] = "file" => fdOf[x] = NoFd
         /\ \A x \in Made : x[1] = taken[1] /\ x[2] <= taken[2] /\ kindOf[x] \in Own => fdOf[x] = NoFd
<1> USE DEF IInv
<1>1. taken # NoCtx /\ current = NoCoro
  BY DEF TurnInv
<1>2. taken \in Awaited /\ taken \in Made /\ taken \in Ctx /\ kindOf[taken] # "close"
  BY <1>1, Awaiters DEF PointInv, ArmInv, Awaited
<1>3. /\ taken[1] \in Coro /\ taken[2] \in {1, 2} /\ taken = <<taken[1], taken[2]>>
      /\ stage[taken[1]] = taken[2]
  BY <1>2, Contexts DEF Awaited
<1>4. \A x \in Awaited : x[1] = taken[1] => x = taken
  BY <1>2, Awaiters
<1>5. Armed \cup fetched \cup Undone \cup Unsignalled \subseteq Awaited
  BY DEF PointInv, ArmInv, PoolInv, Armed
<1>6. taken \notin Armed /\ taken \notin fetched
  BY DEF PointInv, ArmInv, Armed
<1>7. done[taken[1]] /\ taken \notin Undone /\ taken \notin Unsignalled
  <2>1. CASE kindOf[taken] = "file"
    BY <1>2, <2>1 DEF PointInv, DoneInv
  <2>2. CASE kindOf[taken] # "file"
    BY <1>2, <2>2 DEF PointInv, DoneInv, PoolInv
  <2> QED
    BY <2>1, <2>2
<1>8. \A x \in Made : x[1] = taken[1] /\ kindOf[x] \in Own /\ x[2] <= taken[2] => fdOf[x] = NoFd
  <2> SUFFICES ASSUME NEW x \in Made, x[1] = taken[1], kindOf[x] \in Own, x[2] <= taken[2]
               PROVE  fdOf[x] = NoFd
    OBVIOUS
  <2>1. x \in Ctx /\ x[2] \in {1, 2}
    BY Contexts DEF Made
  <2>2. x = taken \/ x[2] < stage[x[1]]
    <3>1. CASE x[2] = taken[2]
      BY <1>2, <2>1, <3>1, Contexts
    <3>2. CASE x[2] # taken[2]
      BY <1>3, <2>1, <3>2
    <3> QED
      BY <3>1, <3>2
  <2> QED
    BY <2>2 DEF OwnInv
<1>9. \A x \in Made : x[1] = taken[1] /\ kindOf[x] = "file" => fdOf[x] = NoFd
  <2> SUFFICES ASSUME NEW x \in Made, x[1] = taken[1], kindOf[x] = "file", fdOf[x] # NoFd
               PROVE  FALSE
    OBVIOUS
  <2>1. x = taken
    BY <1>4 DEF OwnInv
  <2> QED
    BY <1>3, <1>8, <2>1 DEF Own
<1> QED
  BY <1>1, <1>2, <1>3, <1>4, <1>5, <1>6, <1>7, <1>8, <1>9

\* handle_completion issues the second operation of a chain.
LEMMA ContinueOK ==
  ASSUME IInv, Complete, taken[2] < Len(awaiter[taken[1]])
  PROVE  IInv' /\ Issuable(taken[1], taken[2] + 1) /\ IssueStep(taken[1], taken[2] + 1)
         /\ taken[2] = 1 /\ Len(awaiter[taken[1]]) = 2
<1> USE DEF IInv
<1> DEFINE c == taken[1]
           k == taken[2]
<1>1. /\ at = "complete"
      /\ done' = [done EXCEPT ![c] = FALSE]
      /\ Issue(c, k + 1) /\ stage' = [stage EXCEPT ![c] = k + 1]
      /\ UNCHANGED <<reap, ring>>
      /\ taken' = NoCtx /\ at' = "work"
      /\ UNCHANGED <<ready, current, fetched, sync, worker>>
  BY DEF Complete
<1>2. /\ taken \in Awaited /\ taken \in Made /\ current = NoCoro
      /\ c \in Coro /\ k \in {1, 2} /\ taken = <<c, k>> /\ stage[c] = k /\ done[c]
      /\ \A x \in Ctx : x[1] = c => x \notin Armed \cup fetched \cup Undone \cup Unsignalled
      /\ \A x \in Made : x[1] = c /\ kindOf[x] = "file" => fdOf[x] = NoFd
      /\ \A x \in Made : x[1] = c /\ x[2] <= k /\ kindOf[x] \in Own => fdOf[x] = NoFd
  BY <1>1, TakenHandled
<1> HIDE DEF c, k
<1>3. k = 1 /\ Len(awaiter[c]) = 2
  <2>1. Len(awaiter[c]) <= 2 /\ Len(awaiter[c]) \in Nat
    BY <1>2, LenProperties DEF TypeOK
  <2>2. k < Len(awaiter[c])
    BY DEF k, c
  <2>3. k \in {1, 2}
    BY <1>2
  <2> DEFINE n == Len(awaiter[c])
  <2>4. n \in Nat /\ n <= 2 /\ k < n
    BY <2>1, <2>2
  <2> HIDE DEF n
  <2>5. k = 1 /\ n = 2
    BY <2>3, <2>4
  <2> QED
    BY <2>5 DEF n
<1>4. <<c, 2>> \in Made
  BY <1>2, <1>3, Awaiters
<1>5. Issuable(c, 2)
  <2>1. taken[1] = c
    BY DEF c
  <2>2. \A x \in Made : x[2] \in {1, 2} /\ (x[2] < 2 => x[2] <= k)
    BY <1>3, Contexts DEF Made
  <2> QED
    BY <1>2, <1>4, <2>1, <2>2 DEF Issuable
<1>6. k + 1 = 2
  BY <1>3
<1>7. IssueStep(c, 2)
  BY <1>1, <1>6 DEF IssueStep
<1>8. /\ file' \in [Fd -> {"none", "socket", "eventfd", "timerfd"}]
      /\ registered' \subseteq [fd : Fd, dir : {"in", "out"}, ctx : Ctx]
      /\ awaiter' \in [Coro -> Seq(Op)]
      /\ \A d \in Coro : Len(awaiter'[d]) = Len(awaiter[d])
      /\ stage' \in [Coro -> 0..2] /\ done' \in [Coro -> BOOLEAN]
      /\ pool' \in Seq(Ctx)
      /\ OwnInv' /\ PointInv'
  <2>1. 2 \in {1, 2}
    OBVIOUS
  <2> QED
    BY <1>2, <1>5, <1>7, <2>1, IssueKeeps
<1>9. \A d \in Coro : stage'[d] = IF d = c THEN 2 ELSE stage[d]
  BY <1>1, <1>2, <1>6 DEF TypeOK
<1>10. \A d \in Coro : d # c => done'[d] = done[d]
  BY <1>1 DEF TypeOK
<1>11. TypeOK'
  <2>1. \A d \in Coro : stage'[d] <= Len(awaiter'[d]) /\ Len(awaiter'[d]) <= 2
    <3> TAKE d \in Coro
    <3>1. Len(awaiter'[d]) = Len(awaiter[d]) /\ stage[d] <= Len(awaiter[d]) /\ Len(awaiter[d]) <= 2
      BY <1>8 DEF TypeOK
    <3>2. CASE d = c
      BY <1>3, <1>9, <3>1, <3>2
    <3>3. CASE d # c
      BY <1>9, <3>1, <3>3
    <3> QED
      BY <3>2, <3>3
  <2> QED
    BY <1>1, <1>8, <2>1 DEF TypeOK, Op
<1>12. TurnInv'
  <2>1. \A d \in Coro : stage'[d] = 0 => ~done'[d] /\ awaiter'[d] = <<>>
    <3> SUFFICES ASSUME NEW d \in Coro, stage'[d] = 0 PROVE ~done'[d] /\ awaiter'[d] = <<>>
      OBVIOUS
    <3>1. d # c /\ stage[d] = 0
      BY <1>9
    <3>2. ~done'[d] /\ awaiter[d] = <<>>
      BY <1>2, <1>10, <3>1, IoAssumption DEF TurnInv
    <3>3. Len(awaiter'[d]) = 0 /\ awaiter'[d] \in Seq(Op)
      BY <1>8, <3>2, EmptySeq
    <3> QED
      BY <3>2, <3>3, EmptySeq
  <2>2. \A i \in 1..Len(ring) : ring[i] # NoCoro /\ stage'[ring[i]] = 0
    <3> TAKE i \in 1..Len(ring)
    <3>1. ring[i] \in Coro
      BY ElementOfSeq DEF TypeOK
    <3>2. stage[ring[i]] = 0
      BY DEF TurnInv
    <3>3. ring[i] # c
      BY <1>2, <3>2
    <3> QED
      BY <1>9, <3>1, <3>2, <3>3, IoAssumption
  <2>3. \A x \in Made' : x[1] # NoCoro
    BY Contexts, IoAssumption DEF Made
  <2> QED
    BY <1>1, <1>2, <2>1, <2>2, <2>3 DEF TurnInv
<1>13. ReapInv'
  <2>1. Busy' = Busy
    BY <1>2, <1>9 DEF Busy
  <2>2. Counted' = 0 /\ Counted = 0
    BY <1>1, <1>2 DEF Counted
  <2> QED
    BY <1>1, <2>1, <2>2 DEF ReapInv
<1> QED
  BY <1>3, <1>5, <1>6, <1>7, <1>8, <1>11, <1>12, <1>13 DEF c, k

\* handle_completion ends what the coroutine awaited.
LEMMA EndOK ==
  ASSUME IInv, Complete, ~(taken[2] < Len(awaiter[taken[1]]))
  PROVE  IInv' /\ Len(awaiter[taken[1]]) = taken[2]
<1> USE DEF IInv
<1> DEFINE c == taken[1]
           k == taken[2]
<1>1. /\ at = "complete"
      /\ done' = [done EXCEPT ![c] = FALSE]
      /\ ring' = Append(ring, c)
      /\ stage' = [stage EXCEPT ![c] = 0]
      /\ awaiter' = [awaiter EXCEPT ![c] = <<>>]
      /\ reap' = reap - 1
      /\ UNCHANGED <<file, registered, pool>>
      /\ taken' = NoCtx /\ at' = "work"
      /\ UNCHANGED <<ready, current, fetched, sync, worker>>
  BY DEF Complete
<1>2. /\ taken \in Awaited /\ taken \in Made /\ current = NoCoro
      /\ c \in Coro /\ k \in {1, 2} /\ taken = <<c, k>> /\ stage[c] = k /\ done[c]
      /\ \A x \in Awaited : x[1] = c => x = taken
      /\ \A x \in Ctx : x[1] = c => x \notin Armed \cup fetched \cup Undone \cup Unsignalled
      /\ \A x \in Made : x[1] = c /\ kindOf[x] = "file" => fdOf[x] = NoFd
      /\ \A x \in Made : x[1] = c /\ x[2] <= k /\ kindOf[x] \in Own => fdOf[x] = NoFd
  BY <1>1, TakenHandled
<1> HIDE DEF c, k
<1>3. Len(awaiter[c]) = k
  <2>1. stage[c] <= Len(awaiter[c]) /\ Len(awaiter[c]) \in Nat
    BY <1>2, LenProperties DEF TypeOK
  <2>2. ~(k < Len(awaiter[c]))
    BY DEF k, c
  <2> QED
    BY <1>2, <2>1, <2>2
<1>4. /\ awaiter' \in [Coro -> Seq(Op)]
      /\ \A d \in Coro : Len(awaiter'[d]) = IF d = c THEN 0 ELSE Len(awaiter[d])
      /\ Made' = {x \in Made : x[1] # c}
      /\ \A x \in Made' : kindOf'[x] = kindOf[x] /\ fdOf'[x] = fdOf[x]
  BY <1>1, <1>2, AwaitersGone
<1>5. /\ stage' \in [Coro -> 0..2]
      /\ \A x \in Ctx : x \in Awaited' <=> IF x[1] = c THEN x[2] = 0 ELSE x \in Awaited
  <2>1. 0 \in 0..2
    OBVIOUS
  <2> QED
    BY <1>1, <1>2, <2>1, StageSet
<1>6. /\ Awaited' = Awaited \ {taken}
      /\ \A x \in Awaited' : x \in Made' /\ x \in Made /\ x[1] # c
  <2>1. \A x \in Ctx : x[2] # 0
    BY Contexts
  <2>2. Awaited \subseteq Ctx /\ Awaited' \subseteq Ctx /\ Awaited \subseteq Made /\ taken[1] = c
    BY Awaiters DEF Awaited, c
  <2>3. \A x \in Ctx : x \in Awaited' <=> x \in Awaited /\ x[1] # c
    BY <1>5, <2>1, Zenon
  <2>4. \A x \in Awaited : x[1] = c <=> x = taken
    BY <1>2, <2>2, Zenon
  <2>5. Awaited' = Awaited \ {taken}
    BY <2>2, <2>3, <2>4, Zenon
  <2>6. \A x \in Awaited' : x \in Made /\ x[1] # c
    BY <2>2, <2>3, Zenon
  <2>7. \A x \in Made : x[1] # c => x \in Made'
    BY <1>4, Zenon
  <2> QED
    BY <2>5, <2>6, <2>7, Zenon
<1>7. /\ \A d \in Coro : stage'[d] = IF d = c THEN 0 ELSE stage[d]
      /\ done' \in [Coro -> BOOLEAN]
      /\ \A d \in Coro : done'[d] <=> d # c /\ done[d]
  BY <1>1, <1>2 DEF TypeOK
<1>8. Undone' = Undone /\ Unsignalled' = Unsignalled /\ Armed' = Armed
  BY <1>1, PoolKept DEF Armed
<1>9. /\ ring' \in Seq(Coro) /\ Len(ring') = Len(ring) + 1 /\ Len(ring) \in Nat
      /\ ring'[Len(ring) + 1] = c /\ \A i \in 1..Len(ring) : ring'[i] = ring[i]
  BY <1>1, <1>2, AppendProperties, LenProperties DEF TypeOK
<1>10. Busy' = Busy \ {c} /\ c \in Busy
  BY <1>2, <1>7 DEF Busy
<1>11. Cardinality(Busy') = Cardinality(Busy) - 1 /\ Cardinality(Busy) \in Nat
       /\ Cardinality(Busy') >= 0
  <2>1. Cardinality(Busy) \in Nat /\ Cardinality(Busy \ {c}) = Cardinality(Busy) - 1
    BY <1>10, BusyFinite
  <2>2. IsFiniteSet(Busy \ {c})
    BY BusyFinite, FS_Subset
  <2>3. Cardinality(Busy \ {c}) \in Nat
    BY <2>2, FS_CardinalityType
  <2> QED
    BY <1>10, <2>1, <2>3
<1>12. Counted = 0 /\ Counted' = 0
  BY <1>1, <1>2 DEF Counted
<1>13. reap' \in Nat /\ ReapInv'
  <2>1. Cardinality(Busy) <= reap /\ reap \in Nat
    BY <1>11, <1>12 DEF ReapInv, TypeOK
  <2> QED
    BY <1>1, <1>11, <1>12, <2>1 DEF ReapInv
<1>14. TypeOK'
  <2>1. \A d \in Coro : stage'[d] <= Len(awaiter'[d]) /\ Len(awaiter'[d]) <= 2
    <3> TAKE d \in Coro
    <3>1. CASE d = c
      BY <1>4, <1>7, <3>1
    <3>2. CASE d # c
      BY <1>4, <1>7, <3>2 DEF TypeOK
    <3> QED
      BY <3>1, <3>2
  <2> QED
    BY <1>1, <1>4, <1>5, <1>7, <1>9, <1>13, <2>1 DEF TypeOK, Op
<1>15. TurnInv'
  <2>1. \A d \in Coro : stage'[d] = 0 => ~done'[d] /\ awaiter'[d] = <<>>
    <3> SUFFICES ASSUME NEW d \in Coro, stage'[d] = 0 PROVE ~done'[d] /\ awaiter'[d] = <<>>
      OBVIOUS
    <3>1. CASE d = c
      BY <1>1, <1>7, <3>1 DEF TypeOK
    <3>2. CASE d # c
      <4>1. ~done[d] /\ awaiter[d] = <<>>
        BY <1>2, <1>7, <3>2, IoAssumption DEF TurnInv
      <4> QED
        BY <1>1, <1>7, <3>2, <4>1 DEF TypeOK
    <3> QED
      BY <3>1, <3>2
  <2>2. \A i \in 1..Len(ring) : ring[i] # c /\ stage[ring[i]] = 0 /\ ring[i] \in Coro
    <3> TAKE i \in 1..Len(ring)
    <3>1. ring[i] \in Coro /\ stage[ring[i]] = 0
      BY ElementOfSeq DEF TurnInv, TypeOK
    <3> QED
      BY <1>2, <3>1
  <2>3. \A i \in 1..Len(ring') : i \in 1..Len(ring) \/ i = Len(ring) + 1
    <3> DEFINE n == Len(ring)
               m == Len(ring')
    <3>1. n \in Nat /\ m = n + 1
      BY <1>9
    <3> HIDE DEF n, m
    <3>2. \A i \in 1..m : i \in 1..n \/ i = n + 1
      BY <3>1
    <3> QED
      BY <3>2 DEF n, m
  <2>4. \A i \in 1..Len(ring') : ring'[i] # NoCoro /\ stage'[ring'[i]] = 0
    <3> TAKE i \in 1..Len(ring')
    <3>1. CASE i \in 1..Len(ring)
      BY <1>7, <1>9, <2>2, <3>1, IoAssumption
    <3>2. CASE i = Len(ring) + 1
      <4>1. ring'[i] = c
        BY <1>9, <3>2
      <4> QED
        BY <1>2, <1>7, <4>1, IoAssumption
    <3> QED
      BY <2>3, <3>1, <3>2
  <2>5. \A i, j \in 1..Len(ring) : ring[i] = ring[j] => i = j
    BY DEF TurnInv
  <2>6. \A i, j \in 1..Len(ring') : ring'[i] = ring'[j] => i = j
    BY <1>9, <2>2, <2>3, <2>5
  <2>7. \A y \in Made' : y[1] # NoCoro
    BY Contexts, IoAssumption DEF Made
  <2> QED
    BY <1>1, <1>2, <2>1, <2>4, <2>6, <2>7 DEF TurnInv
<1>16. OwnInv'
  <2>1. \A y \in Made : y[1] \in Coro /\ y[2] \in {1, 2} /\ y[2] <= Len(awaiter[y[1]])
    BY Contexts DEF Made
  \* Nothing of its own is left open.
  <2>2. \A y \in Made : y[1] = c /\ kindOf[y] \in Own => fdOf[y] = NoFd
    BY <1>2, <1>3, <2>1
  <2>3. ASSUME NEW g \in Fd, file[g] \in {"eventfd", "timerfd"} PROVE \E y \in Made' : fdOf'[y] = g
    <3>1. PICK y \in Made : fdOf[y] = g
      BY <2>3 DEF OwnInv
    <3>2. g # NoFd
      BY DEF NoFd, Fd
    <3>3. kindOf[y] \in Own
      <4>1. file[g] = Source(kindOf[y])
        BY <3>1, <3>2 DEF OwnInv
      <4> QED
        BY <2>3, <4>1 DEF Source, Own
    <3>4. y[1] # c
      BY <2>2, <3>1, <3>2, <3>3
    <3> QED
      BY <1>4, <3>1, <3>4
  <2>4. \A y \in Made' : y \in Made /\ y[1] # c
    BY <1>4
  <2>5. \A y \in Made' : kindOf'[y] = "file" /\ fdOf'[y] # NoFd => y \in Awaited'
    <3> SUFFICES ASSUME NEW y \in Made', kindOf'[y] = "file", fdOf'[y] # NoFd PROVE y \in Awaited'
      OBVIOUS
    <3>1. y \in Awaited
      BY <1>4, <2>4 DEF OwnInv
    <3>2. y # taken
      BY <2>4 DEF c
    <3> QED
      BY <1>6, <3>1, <3>2
  <2>6. \A y \in Made' : kindOf'[y] \in Own /\ (y = taken' \/ y[2] < stage'[y[1]]) => fdOf'[y] = NoFd
    <3>1. \A y \in Made' : y # NoCtx /\ stage'[y[1]] = stage[y[1]]
      BY <1>7, <2>1, <2>4, Contexts DEF Made
    <3> QED
      BY <1>1, <1>4, <2>4, <3>1 DEF OwnInv
  <2> QED
    BY <1>1, <1>4, <2>3, <2>4, <2>5, <2>6 DEF OwnInv
<1>17. ArmInv'
  <2>1. \A r \in registered : r.ctx \in Awaited /\ r.ctx # taken
    BY DEF PointInv, ArmInv
  <2>2. \A x \in fetched : x \in Awaited /\ x # taken
    BY DEF PointInv, ArmInv
  <2>3. \A x \in Awaited' : kindOf'[x] = kindOf[x] /\ fdOf'[x] = fdOf[x] /\ x # NoCtx
    BY <1>4, <1>6, Contexts DEF Made
  <2>4. NoCtx \notin fetched
    BY Contexts DEF TypeOK
  <2> QED
    BY <1>1, <1>6, <2>1, <2>2, <2>3, <2>4 DEF PointInv, ArmInv
<1>18. PoolInv'
  <2>1. \A x \in Undone \cup Unsignalled : x \in Awaited' /\ kindOf'[x] = "file"
    <3> TAKE x \in Undone \cup Unsignalled
    <3>1. x \in Awaited /\ kindOf[x] = "file"
      BY DEF PointInv, PoolInv
    <3>2. x # taken
      BY <1>2, Awaiters, Contexts DEF Made, c
    <3> QED
      BY <1>4, <1>6, <3>1, <3>2
  <2> QED
    BY <1>1, <1>8, <2>1 DEF PointInv, PoolInv
<1>19. DoneInv'
  <2> SUFFICES ASSUME NEW y \in Awaited'
               PROVE  /\ kindOf'[y] # "file" => (done'[y[1]] <=> y = taken')
                      /\ kindOf'[y] = "file" =>
                           /\ done'[y[1]] <=> y \notin Undone
                           /\ y \in fetched \cup {taken'} => y \notin Undone \cup Unsignalled
                           /\ fdOf'[y] # NoFd =>
                                (<<fdOf'[y], "in">> \in ready <=> y \notin Undone \cup Unsignalled)
    BY <1>1, <1>8 DEF DoneInv
  <2>1. y \in Awaited /\ y # taken /\ y[1] # c /\ y[1] \in Coro /\ y # NoCtx
    BY <1>6, Contexts DEF Made
  <2>2. kindOf'[y] = kindOf[y] /\ fdOf'[y] = fdOf[y] /\ (done'[y[1]] <=> done[y[1]])
    BY <1>4, <1>6, <1>7, <2>1
  <2> QED
    BY <1>1, <2>1, <2>2 DEF PointInv, DoneInv
<1>20. KeptInv'
  <2>1. \A y \in Awaited' : y \in Awaited /\ y # taken /\ kindOf'[y] = kindOf[y] /\ fdOf'[y] = fdOf[y]
    BY <1>4, <1>6
  <2> QED
    BY <1>1, <1>8, <2>1 DEF PointInv, KeptInv
<1> QED
  BY <1>3, <1>13, <1>14, <1>15, <1>16, <1>17, <1>18, <1>19, <1>20 DEF PointInv, c, k

LEMMA CompleteOK == IInv /\ Complete => IInv'
<1>1. CASE taken[2] < Len(awaiter[taken[1]])
  BY <1>1, ContinueOK
<1>2. CASE ~(taken[2] < Len(awaiter[taken[1]]))
  BY <1>2, EndOK
<1> QED
  BY <1>1, <1>2
-----------------------------------------------------------------------------
(* The theorems.                                                            *)

\* The invariant is inductive when no two coroutines use one socket at a time.
LEMMA Inductive == ASSUME ~Duplex, IInv, [Next]_vars PROVE IInv'
<1>1. CASE LoopNext
  <2>1. CASE Resume
    BY <2>1, ResumeOK
  <2>2. CASE CreateSocket
    BY <2>2, CreateSocketOK
  <2>3. CASE AwaitClose
    BY <2>3, AwaitCloseOK
  <2>4. CASE Await
    BY <2>4, AwaitOK
  <2>5. ASSUME NEW kind \in Kind, NEW f \in Choices(kind), Construct(kind, f) PROVE IInv'
    BY <2>5, ConstructOK
  <2>6. CASE WorkDone
    BY <2>6, WorkDoneOK
  <2>7. CASE EpollWait
    BY <2>7, EpollWaitOK
  <2>8. CASE Complete
    BY <2>8, CompleteOK
  <2>9. CASE IssueNull
    BY <2>9, IssueNullOK
  <2>10. CASE \E x \in Ctx : Perform(x)
    BY <2>10, PerformOK
  <2> QED
    BY <1>1, <2>1, <2>2, <2>3, <2>4, <2>5, <2>6, <2>7, <2>8, <2>9, <2>10, Zenon DEF LoopNext
<1>2. CASE WorldNext
  BY <1>2, WorldOK
<1>3. ASSUME NEW w \in Worker, WorkerNext(w) PROVE IInv'
  BY <1>3, PoolTakeOK, FileIoOK, SignalOK, Zenon DEF WorkerNext
<1>4. CASE UNCHANGED vars
  <2>1. UNCHANGED <<file, ready, registered, awaiter, stage, done, reap, ring, current, at,
                    fetched, taken, sync, pool, worker>>
    BY <1>4 DEF vars, kernel, frames, loop, files
  <2>2. TypeOK'
    BY <2>1 DEF IInv, TypeOK
  <2> QED
    BY <2>1, <2>2, TurnFrame, ReapFrame, OwnFrame, PointFrame DEF IInv
<1> QED
  BY <1>1, <1>2, <1>3, <1>4, Zenon DEF Next

\* The invariant holds in every reachable state: of the epoll backend's loop,
\* its registrations, its fetched events and its pool.
THEOREM Invariance == ASSUME ~Duplex PROVE Spec => []IInv
<1>1. IInv /\ [Next]_vars => IInv'
  BY Inductive
<1> QED
  BY <1>1, InitOK, PTL DEF Spec

\* The types are kept, requests_to_reap among them: it is never taken below
\* zero, which handle_completion asserts.
THEOREM TypeCorrect == ASSUME ~Duplex PROVE Spec => []TypeOK
<1>1. IInv => TypeOK
  BY DEF IInv
<1> QED
  BY <1>1, Invariance, PTL

\* What others point to is there: whatever is registered, fetched, handled or in
\* the pool is the operation its coroutine is suspended in, and every eventfd
\* and timerfd has the one awaiter that closes it.
THEOREM FramesKept == ASSUME ~Duplex PROVE Spec => []FramesSafe
<1>1. ASSUME IInv PROVE FramesSafe
  <2> USE <1>1 DEF IInv
  <2>1. ContextsAlive
    <3>1. InPool \subseteq Awaited \cup {NoCtx}
      <4>1. \A w \in Worker : worker[w].ctx # NoCtx => worker[w].does # "waits"
        BY DEF PointInv, PoolInv
      <4>2. \A w \in Worker : worker[w].ctx \in Awaited \cup {NoCtx}
        BY <4>1, WorkerAlone
      <4>3. \A i \in 1..Len(pool) : pool[i] \in Awaited
        BY DEF PointInv, PoolInv, Undone
      <4> QED
        BY <4>2, <4>3 DEF InPool
    <3>2. Armed \cup fetched \cup {taken} \subseteq Awaited \cup {NoCtx}
      BY DEF PointInv, ArmInv, Armed
    <3>3. Armed \cap fetched = {} /\ taken \notin Armed \cup fetched
      BY DEF PointInv, ArmInv, Armed
    <3>4. \A r \in registered : /\ r.ctx \in Awaited /\ r.ctx \in Made
                                /\ fdOf[r.ctx] = r.fd /\ r.fd # NoFd
      <4>1. \A r \in registered : r.ctx \in Awaited /\ fdOf[r.ctx] = r.fd
        BY DEF PointInv, ArmInv
      <4>2. \A r \in registered : r.fd \in Fd
        BY DEF TypeOK
      <4>3. NoFd \notin Fd
        BY IoAssumption DEF Fd, NoFd
      <4> QED
        BY <4>1, <4>2, <4>3, Awaiters
    <3>5. \A r, s \in registered : r.fd = s.fd => r.ctx = s.ctx
      BY <3>4, Awaiters DEF OwnInv
    <3>6. \A r, s \in registered : r.ctx = s.ctx => r = s
      BY DEF PointInv, ArmInv
    <3>7. \A r \in registered : awaiter[r.ctx[1]][r.ctx[2]].fd = r.fd
      BY <3>4 DEF fdOf
    <3>8. /\ \A i, j \in 1..Len(pool) : pool[i] = pool[j] => i = j
          /\ \A w \in Worker : \A i \in 1..Len(pool) : pool[i] # worker[w].ctx
          /\ \A v, w \in Worker : worker[v].ctx = worker[w].ctx /\ v # w => worker[v].ctx = NoCtx
      BY DEF PointInv, PoolInv
    <3> QED
      BY <3>1, <3>2, <3>3, <3>5, <3>6, <3>7, <3>8 DEF ContextsAlive
  <2>2. DescriptorsOwned
    <3> SUFFICES ASSUME NEW f \in Fd
                 PROVE  LET owners == {x \in Ctx : x[2] <= Len(awaiter[x[1]])
                                                   /\ awaiter[x[1]][x[2]].fd = f}
                        IN \/ file[f] = "none" /\ owners = {}
                           \/ file[f] = "socket"
                           \/ /\ file[f] \in {"eventfd", "timerfd"}
                              /\ Cardinality(owners) = 1
                              /\ \A x \in owners : (file[f] = "eventfd")
                                                    <=> (awaiter[x[1]][x[2]].kind = "file")
      BY DEF DescriptorsOwned
    <3> DEFINE owners == {x \in Ctx : x[2] <= Len(awaiter[x[1]]) /\ awaiter[x[1]][x[2]].fd = f}
    <3>1. f # NoFd /\ file[f] \in {"none", "socket", "eventfd", "timerfd"}
      BY IoAssumption DEF TypeOK, Fd, NoFd
    <3>2. \A x \in Made : x \in owners <=> fdOf[x] = f
      BY DEF Made, fdOf
    <3>3. owners \subseteq Made
      BY DEF Made
    <3>4. \A x \in owners : kindOf[x] = awaiter[x[1]][x[2]].kind
      BY <3>3 DEF kindOf
    <3> HIDE DEF owners
    <3>5. \A x \in owners : file[f] = Source(kindOf[x])
      BY <3>1, <3>2, <3>3 DEF OwnInv
    <3>6. CASE file[f] = "none"
      <4>1. owners = {}
        BY <3>5, <3>6 DEF Source
      <4> QED
        BY <3>6, <4>1 DEF owners
    <3>7. CASE file[f] = "socket"
      BY <3>7
    <3>8. CASE file[f] \in {"eventfd", "timerfd"}
      <4>1. PICK x \in Made : fdOf[x] = f
        BY <3>8 DEF OwnInv
      <4>2. kindOf[x] \in Own
        BY <3>2, <3>5, <3>8, <4>1 DEF Source, Own
      <4>3. owners = {x}
        BY <3>1, <3>2, <3>3, <4>1, <4>2 DEF OwnInv
      <4>4. Cardinality(owners) = 1
        BY <4>3, FS_Singleton
      <4>5. \A y \in owners : (file[f] = "eventfd") <=> (kindOf[y] = "file")
        BY <3>5, <3>8 DEF Source
      <4>6. \A y \in owners : (file[f] = "eventfd") <=> (awaiter[y[1]][y[2]].kind = "file")
        BY <3>4, <4>5
      <4> QED
        BY <3>8, <4>4, <4>6 DEF owners
    <3> QED
      BY <3>1, <3>6, <3>7, <3>8
  <2> QED
    BY <2>1, <2>2 DEF FramesSafe
<1> QED
  BY <1>1, Invariance, PTL

\* Nobody is forgotten: a suspended operation that got its descriptor is armed,
\* fetched or handled, and a file operation moreover in the pool until its
\* eventfd is readable.
THEOREM NobodyDropped == ASSUME ~Duplex PROVE Spec => []NoneForgotten
<1>1. ASSUME IInv PROVE NoneForgotten
  <2> USE <1>1 DEF IInv
  <2> SUFFICES ASSUME NEW x \in Awaited, awaiter[x[1]][x[2]].fd # NoFd,
                      awaiter[x[1]][x[2]].kind # "close"
               PROVE  /\ x \in Armed \cup fetched \cup {taken}
                      /\ awaiter[x[1]][x[2]].kind = "file"
                           => x \in InPool \/ <<awaiter[x[1]][x[2]].fd, "in">> \in ready
    BY DEF NoneForgotten
  <2>1. x \in Made
    BY Awaiters
  <2>2. kindOf[x] = awaiter[x[1]][x[2]].kind /\ fdOf[x] = awaiter[x[1]][x[2]].fd
    BY <2>1 DEF kindOf, fdOf
  <2>3. x \in Armed \cup fetched \cup {taken}
    BY <2>2 DEF PointInv, KeptInv
  <2>4. kindOf[x] = "file" => x \in Undone \cup Unsignalled \/ <<fdOf[x], "in">> \in ready
    BY <2>2 DEF PointInv, DoneInv
  <2>5. Undone \cup Unsignalled \subseteq InPool
    BY DEF Undone, Unsignalled, InPool
  <2> QED
    BY <2>2, <2>3, <2>4, <2>5
<1> QED
  BY <1>1, Invariance, PTL
-----------------------------------------------------------------------------
(* The refinement: what is left of an await.                                *)

\* What is left of ops when its operation k is awaited, and d says whether it
\* has been performed.
Rest(ops, k, d) == SubSeq(Kinds(ops), k + (IF d THEN 1 ELSE 0), Len(ops))

\* A sequence from its first element on is the sequence; from its last one on
\* it is that element.
LEMMA SubSeqEnds ==
  ASSUME NEW S, NEW s \in Seq(S), NEW n \in Nat, Len(s) = n
  PROVE  /\ SubSeq(s, 1, n) = s
         /\ n > 0 => SubSeq(s, n, n) = <<s[n]>>
<1>1. \A i \in 1..n : s[i] \in S
  BY ElementOfSeq
<1>2. SubSeq(s, 1, n) = s
  <2> DEFINE t == SubSeq(s, 1, n)
  <2>1. t \in Seq(S) /\ Len(t) = n /\ \A i \in 1..n : t[i] = s[i]
    BY <1>1, SubSeqProperties
  <2> HIDE DEF t
  <2>2. t = s
    BY <2>1, SeqEqual
  <2> QED
    BY <2>2 DEF t
<1>3. ASSUME n > 0 PROVE SubSeq(s, n, n) = <<s[n]>>
  <2> DEFINE t == SubSeq(s, n, n)
  <2>1. \A i \in n..n : s[i] \in S
    BY <1>1, <1>3
  <2>2. t \in Seq(S) /\ Len(t) = 1 /\ t[1] = s[n]
    BY <2>1, SubSeqProperties
  <2> HIDE DEF t
  <2>3. t = <<s[n]>>
    BY <2>2
  <2> QED
    BY <2>3 DEF t
<1> QED
  BY <1>2, <1>3

\* What is left of one operation or of two.
LEMMA RestOfOne ==
  ASSUME NEW s \in Seq(Op), Len(s) = 1
  PROVE  /\ s[1].kind \in Kind
         /\ Rest(s, 1, FALSE) = <<s[1].kind>>
         /\ Rest(s, 1, TRUE) = <<>>
<1>1. s[1].kind \in Kind
  <2>1. 1 \in 1..Len(s)
    OBVIOUS
  <2>2. s[1] \in Op
    BY <2>1, ElementOfSeq
  <2> QED
    BY <2>2 DEF Op
<1>2. Kinds(s) = <<s[1].kind>>
  BY DEF Kinds
<1> DEFINE a == s[1].kind
           t == <<a>>
<1>3. SubSeq(t, 1, 1) = t /\ SubSeq(t, 2, 1) = <<>>
  <2>1. t \in Seq(Kind) /\ Len(t) = 1
    BY <1>1
  <2> HIDE DEF t
  <2> QED
    BY <2>1, SubSeqEnds, SubSeqEmpty
<1> QED
  BY <1>1, <1>2, <1>3 DEF Rest

LEMMA RestOfTwo ==
  ASSUME NEW s \in Seq(Op), Len(s) = 2
  PROVE  /\ s[1].kind \in Kind /\ s[2].kind \in Kind
         /\ Rest(s, 1, FALSE) = <<s[1].kind, s[2].kind>>
         /\ Rest(s, 1, TRUE) = <<s[2].kind>>
         /\ Rest(s, 2, FALSE) = <<s[2].kind>>
         /\ Rest(s, 2, TRUE) = <<>>
<1>1. s[1].kind \in Kind /\ s[2].kind \in Kind
  <2>1. 1 \in 1..Len(s) /\ 2 \in 1..Len(s)
    OBVIOUS
  <2>2. s[1] \in Op /\ s[2] \in Op
    BY <2>1, ElementOfSeq
  <2> QED
    BY <2>2 DEF Op
<1>2. Kinds(s) = <<s[1].kind, s[2].kind>>
  BY DEF Kinds
<1> DEFINE a == s[1].kind
           b == s[2].kind
           t == <<a, b>>
<1>3. SubSeq(t, 1, 2) = t /\ SubSeq(t, 2, 2) = <<b>> /\ SubSeq(t, 3, 2) = <<>>
  <2>1. t \in Seq(Kind) /\ Len(t) = 2 /\ t[2] = b
    BY <1>1
  <2> HIDE DEF t, b
  <2> QED
    BY <2>1, SubSeqEnds, SubSeqEmpty
<1> QED
  BY <1>1, <1>2, <1>3 DEF Rest

\* Performing the operation that is awaited takes the first of what is left.
LEMMA RestTail ==
  ASSUME NEW s \in Seq(Op), NEW n \in {1, 2}, Len(s) = n, NEW k \in {1, 2}, k <= n
  PROVE  Rest(s, k, FALSE) # <<>> /\ Rest(s, k, TRUE) = Tail(Rest(s, k, FALSE))
<1>1. CASE n = 1
  <2>1. k = 1
    BY <1>1
  <2> DEFINE a == s[1].kind
  <2>2. Rest(s, 1, FALSE) = <<a>> /\ Rest(s, 1, TRUE) = <<>>
    BY <1>1, RestOfOne
  <2>3. <<a>> # <<>> /\ Tail(<<a>>) = <<>>
    OBVIOUS
  <2> QED
    BY <2>1, <2>2, <2>3
<1>2. CASE n = 2
  <2> DEFINE a == s[1].kind
             b == s[2].kind
  <2>1. /\ Rest(s, 1, FALSE) = <<a, b>> /\ Rest(s, 1, TRUE) = <<b>>
        /\ Rest(s, 2, FALSE) = <<b>> /\ Rest(s, 2, TRUE) = <<>>
    BY <1>2, RestOfTwo
  <2>2. /\ <<a, b>> # <<>> /\ Tail(<<a, b>>) = <<b>>
        /\ <<b>> # <<>> /\ Tail(<<b>>) = <<>>
    OBVIOUS
  <2> HIDE DEF a, b
  <2>3. CASE k = 1
    BY <2>1, <2>2, <2>3
  <2>4. CASE k = 2
    BY <2>1, <2>2, <2>4
  <2> QED
    BY <2>3, <2>4
<1> QED
  BY <1>1, <1>2

LEMMA LeftIsRest ==
  /\ \A c \in Coro : stage[c] = 0 => Left(c) = <<>>
  /\ \A c \in Coro : stage[c] # 0 => Left(c) = Rest(awaiter[c], stage[c], done[c])
BY DEF Left, Rest

\* The operations of c are of the kinds they were of.
LEMMA KindsKept ==
  ASSUME TypeOK, NEW c \in Coro, Len(awaiter'[c]) = Len(awaiter[c]),
         \A x \in Made : x[1] = c => x \in Made' /\ kindOf'[x] = kindOf[x]
  PROVE  Kinds(awaiter'[c]) = Kinds(awaiter[c])
<1> DEFINE n == Len(awaiter[c])
<1>1. n \in Nat /\ n <= 2
  BY LenProperties DEF TypeOK
<1>2. ASSUME NEW i \in 1..n PROVE awaiter'[c][i].kind = awaiter[c][i].kind
  <2> DEFINE x == <<c, i>>
  <2>1. i \in {1, 2} /\ i <= n
    <3> HIDE DEF n
    <3> QED
      BY <1>1
  <2>2. x \in Made /\ x[1] = c /\ x[2] = i
    BY <2>1, Awaiters
  <2>3. x \in Made' /\ kindOf'[x] = kindOf[x]
    BY <2>2
  <2>4. kindOf[x] = awaiter[x[1]][x[2]].kind
    BY <2>2 DEF kindOf
  <2>5. kindOf'[x] = awaiter'[x[1]][x[2]].kind
    BY <2>3 DEF kindOf
  <2> HIDE DEF x
  <2> QED
    BY <2>2, <2>3, <2>4, <2>5
<1> QED
  BY <1>2 DEF Kinds

\* What is left of the await of c is left after the step.
LEMMA LeftKept ==
  ASSUME TypeOK, NEW c \in Coro, stage'[c] = stage[c], done'[c] = done[c],
         stage[c] # 0 => /\ Len(awaiter'[c]) = Len(awaiter[c])
                         /\ \A x \in Made : x[1] = c => x \in Made' /\ kindOf'[x] = kindOf[x]
  PROVE  Left(c)' = Left(c)
<1>1. CASE stage[c] = 0
  BY <1>1 DEF Left
<1>2. CASE stage[c] # 0
  <2>1. Kinds(awaiter'[c]) = Kinds(awaiter[c])
    BY <1>2, KindsKept
  <2> QED
    BY <1>2, <2>1 DEF Left
<1> QED
  BY <1>1, <1>2

\* The steps of the abstract specification.
IoStep == [Abstract!IoNext]_(Abstract!ioVars)

LEMMA Stutters ==
  ASSUME \A c \in Coro : (stage'[c] = 0 <=> stage[c] = 0) /\ Left(c)' = Left(c)
  PROVE  IoStep
<1>1. {c \in Coro : stage'[c] # 0} = {c \in Coro : stage[c] # 0}
  OBVIOUS
<1>2. [c \in Coro |-> Left(c)]' = [c \in Coro |-> Left(c)]
  OBVIOUS
<1> QED
  BY <1>1, <1>2 DEF IoStep, Abstract!ioVars

\* The operation c waits for is performed.
LEMMA Accomplishes ==
  ASSUME TypeOK, NEW c \in Coro, stage' = stage, stage[c] # 0, ~done[c], done'[c],
         \A d \in Coro \ {c} : done'[d] = done[d],
         \A d \in Coro : Len(awaiter'[d]) = Len(awaiter[d]),
         \A x \in Made : x \in Made' /\ kindOf'[x] = kindOf[x]
  PROVE  IoStep
<1> DEFINE s == awaiter[c]
           k == stage[c]
<1>1. s \in Seq(Op) /\ k \in {1, 2} /\ done[c] = FALSE
  <2>1. k \in {1, 2}
    BY DEF TypeOK
  <2>2. done[c] = FALSE
    BY DEF TypeOK
  <2> QED
    BY <2>1, <2>2 DEF TypeOK, Op
<1>2. PICK n \in {1, 2} : Len(s) = n /\ k <= n
  <2>1. Len(s) \in Nat /\ Len(s) <= 2 /\ k <= Len(s)
    BY <1>1, LenProperties DEF TypeOK
  <2> DEFINE n == Len(s)
  <2> HIDE DEF s, k
  <2>2. n \in Nat /\ n <= 2 /\ k <= n
    BY <2>1
  <2> HIDE DEF n
  <2>3. n \in {1, 2}
    BY <1>1, <2>2
  <2> QED
    BY <2>2, <2>3 DEF n
<1>3. Left(c) = Rest(s, k, FALSE)
  BY <1>1 DEF Left, Rest
<1>4. Left(c)' = Rest(s, k, TRUE)
  <2>1. Kinds(awaiter'[c]) = Kinds(awaiter[c]) /\ Len(awaiter'[c]) = Len(awaiter[c])
    BY KindsKept
  <2> QED
    BY <1>1, <2>1 DEF Left, Rest
<1>5. Left(c) # <<>> /\ Left(c)' = Tail(Left(c))
  <2> HIDE DEF s, k
  <2> QED
    BY <1>1, <1>2, <1>3, <1>4, RestTail
<1>6. \A d \in Coro \ {c} : Left(d)' = Left(d)
  BY LeftKept
<1> DEFINE todo == [d \in Coro |-> Left(d)]
<1>7. todo' = [todo EXCEPT ![c] = Tail(@)]
  BY <1>5, <1>6
<1>8. c \in {d \in Coro : stage[d] # 0} /\ todo[c] # <<>>
  BY <1>5
<1>9. Abstract!Accomplish(c)
  BY <1>7, <1>8 DEF Abstract!Accomplish
<1> QED
  BY <1>9 DEF IoStep, Abstract!IoNext

LEMMA AwaitRefines == IInv /\ Await => IoStep
<1> SUFFICES ASSUME IInv, Await PROVE IoStep
  OBVIOUS
<1>0. PICK c \in Coro : c = current
  BY CurrentIdle DEF Await
<1>1. /\ c \in Coro /\ stage[c] = 0
      /\ stage' = [stage EXCEPT ![c] = 1]
      /\ \E n \in {1, 2} : Len(awaiter[c]) = n
      /\ Issuable(c, 1) /\ IssueStep(c, 1)
  BY <1>0, CurrentIdle, AwaitIssues DEF Await
<1>2. /\ \A d \in Coro : Len(awaiter'[d]) = Len(awaiter[d])
      /\ \A x \in Made : x \in Made' /\ kindOf'[x] = kindOf[x]
  BY <1>1, Issued DEF IInv, PointInv
<1>3. stage'[c] = 1 /\ done'[c] = FALSE
  BY <1>1 DEF IssueStep, IInv, TypeOK
<1>4. \A d \in Coro \ {c} : stage'[d] = stage[d] /\ done'[d] = done[d]
  BY <1>1 DEF IssueStep, IInv, TypeOK
<1>5. \A d \in Coro \ {c} : Left(d)' = Left(d)
  BY <1>2, <1>4, LeftKept DEF IInv
<1> DEFINE s == awaiter[c]
<1>6. Left(c)' = Rest(s, 1, FALSE)
  <2>1. Kinds(awaiter'[c]) = Kinds(awaiter[c]) /\ Len(awaiter'[c]) = Len(awaiter[c])
    BY <1>1, <1>2, KindsKept DEF IInv
  <2>2. Left(c)' = SubSeq(Kinds(awaiter'[c]), 1 + (IF done'[c] THEN 1 ELSE 0), Len(awaiter'[c]))
    BY <1>3 DEF Left
  <2>3. (IF done'[c] THEN 1 ELSE 0) = 0 /\ (IF FALSE THEN 1 ELSE 0) = 0
    BY <1>3
  <2> QED
    BY <2>1, <2>2, <2>3 DEF Rest
<1>7. s \in Seq(Op)
  BY <1>1 DEF IInv, TypeOK, Op
<1> DEFINE suspended == {d \in Coro : stage[d] # 0}
           todo == [d \in Coro |-> Left(d)]
<1>8. c \notin suspended /\ suspended' = suspended \cup {c}
  BY <1>1, <1>3, <1>4
<1>9. ASSUME NEW ops, Left(c)' = ops PROVE todo' = [todo EXCEPT ![c] = ops]
  <2>1. \A d \in Coro : todo'[d] = IF d = c THEN ops ELSE todo[d]
    BY <1>5, <1>9
  <2>2. todo' = [d \in Coro |-> todo'[d]]
    OBVIOUS
  <2> QED
    BY <1>1, <2>1, <2>2
<1>10. \E p, q \in Kind : Left(c)' = <<p>> \/ Left(c)' = <<p, q>>
  <2> HIDE DEF s
  <2>1. CASE Len(s) = 1
    BY <1>6, <1>7, <2>1, RestOfOne
  <2>2. CASE Len(s) = 2
    BY <1>6, <1>7, <2>2, RestOfTwo
  <2> QED
    BY <1>1, <2>1, <2>2 DEF s
<1>11. PICK p, q \in Kind : Left(c)' = <<p>> \/ Left(c)' = <<p, q>>
  BY <1>10
<1>12. todo' = [todo EXCEPT ![c] = <<p>>] \/ todo' = [todo EXCEPT ![c] = <<p, q>>]
  BY <1>9, <1>11
<1>13. Abstract!Submit(c, <<p>>) \/ Abstract!Submit(c, <<p, q>>)
  BY <1>8, <1>12 DEF Abstract!Submit
<1> QED
  BY <1>1, <1>13 DEF IoStep, Abstract!IoNext

LEMMA ContinueRefines ==
  ASSUME IInv, Complete, taken[2] < Len(awaiter[taken[1]])
  PROVE  IoStep
<1>0. PICK c \in Coro : c = taken[1]
  BY TakenHandled DEF Complete
<1>1. /\ Issuable(c, 2) /\ IssueStep(c, 2) /\ taken[2] = 1 /\ Len(awaiter[c]) = 2
  <2>1. taken[2] = 1 /\ taken[2] + 1 = 2
    BY ContinueOK
  <2> QED
    BY <1>0, <2>1, ContinueOK
<1>2. c \in Coro /\ stage[c] = 1 /\ done[c]
  BY <1>0, <1>1, TakenHandled DEF Complete
<1>3. /\ \A d \in Coro : Len(awaiter'[d]) = Len(awaiter[d])
      /\ \A x \in Made : x \in Made' /\ kindOf'[x] = kindOf[x]
  BY <1>1, <1>2, Issued DEF IInv, PointInv
<1>4. stage'[c] = 2 /\ done'[c] = FALSE
  BY <1>1, <1>2 DEF IssueStep, IInv, TypeOK
<1>5. \A d \in Coro \ {c} : stage'[d] = stage[d] /\ done'[d] = done[d]
  BY <1>1, <1>2 DEF IssueStep, IInv, TypeOK
<1>6. \A d \in Coro \ {c} : Left(d)' = Left(d)
  BY <1>3, <1>5, LeftKept DEF IInv
<1> DEFINE s == awaiter[c]
<1>7. s \in Seq(Op) /\ Len(s) = 2
  BY <1>1, <1>2 DEF IInv, TypeOK, Op
<1>8. Left(c) = Rest(s, 1, TRUE)
  BY <1>2 DEF Left, Rest
<1>9. Left(c)' = Rest(s, 2, FALSE)
  <2>1. Kinds(awaiter'[c]) = Kinds(awaiter[c]) /\ Len(awaiter'[c]) = Len(awaiter[c])
    BY <1>2, <1>3, KindsKept DEF IInv
  <2>2. Left(c)' = SubSeq(Kinds(awaiter'[c]), 2 + (IF done'[c] THEN 1 ELSE 0), Len(awaiter'[c]))
    BY <1>4 DEF Left
  <2>3. (IF done'[c] THEN 1 ELSE 0) = 0 /\ (IF FALSE THEN 1 ELSE 0) = 0
    BY <1>4
  <2> QED
    BY <2>1, <2>2, <2>3 DEF Rest
<1>10. Left(c)' = Left(c)
  <2> HIDE DEF s
  <2> QED
    BY <1>7, <1>8, <1>9, RestOfTwo
<1> QED
  <2>1. \A d \in Coro : Left(d)' = Left(d)
    BY <1>6, <1>10
  <2>2. \A d \in Coro : stage'[d] = 0 <=> stage[d] = 0
    BY <1>2, <1>4, <1>5
  <2> QED
    BY <2>1, <2>2, Stutters

LEMMA EndRefines ==
  ASSUME IInv, Complete, ~(taken[2] < Len(awaiter[taken[1]]))
  PROVE  IoStep
<1>0. PICK c \in Coro : c = taken[1]
  BY TakenHandled DEF Complete
<1>1. /\ done' = [done EXCEPT ![c] = FALSE] /\ stage' = [stage EXCEPT ![c] = 0]
      /\ awaiter' = [awaiter EXCEPT ![c] = <<>>]
  BY <1>0 DEF Complete
<1>2. /\ c \in Coro /\ stage[c] = taken[2] /\ taken[2] \in {1, 2} /\ done[c]
      /\ Len(awaiter[c]) = taken[2]
  BY <1>0, TakenHandled, EndOK DEF Complete
<1>3. /\ \A d \in Coro \ {c} : /\ stage'[d] = stage[d] /\ done'[d] = done[d]
                               /\ awaiter'[d] = awaiter[d]
      /\ stage'[c] = 0
  BY <1>1, <1>2 DEF IInv, TypeOK
<1>4. \A d \in Coro \ {c} : Left(d)' = Left(d)
  BY <1>3 DEF Left
<1>5. Left(c)' = <<>>
  <2>1. stage'[c] = 0
    BY <1>3
  <2> QED
    BY <2>1 DEF Left
<1> DEFINE s == awaiter[c]
           k == taken[2]
<1>6. s \in Seq(Op) /\ Len(s) = k /\ k \in {1, 2}
  BY <1>2 DEF IInv, TypeOK, Op
<1>7. Left(c) = Rest(s, k, TRUE)
  BY <1>2 DEF Left, Rest
<1>8. Left(c) = <<>>
  <2> HIDE DEF s, k
  <2> QED
    BY <1>6, <1>7, RestOfOne, RestOfTwo
<1> DEFINE suspended == {d \in Coro : stage[d] # 0}
           todo == [d \in Coro |-> Left(d)]
<1>9. c \in suspended /\ suspended' = suspended \ {c}
  BY <1>2, <1>3
<1>10. todo' = todo /\ todo[c] = <<>>
  <2>1. \A d \in Coro : Left(d)' = Left(d)
    BY <1>4, <1>5, <1>8
  <2> QED
    BY <1>2, <1>8, <2>1
<1>11. Abstract!Release(c)
  BY <1>9, <1>10 DEF Abstract!Release
<1>12. c \in Coro
  BY <1>2
<1> QED
  BY <1>11, <1>12 DEF IoStep, Abstract!IoNext

LEMMA PerformRefines == \A x \in Ctx : IInv /\ Perform(x) => IoStep
<1> SUFFICES ASSUME IInv, NEW x \in Ctx, Perform(x) PROVE IoStep
  OBVIOUS
<1> USE DEF IInv
<1> DEFINE c == x[1]
<1>1. /\ x \in fetched /\ x \in Awaited /\ x \in Made /\ x # taken
      /\ awaiter[x[1]][x[2]].kind = kindOf[x]
  <2>1. x \in fetched /\ x \in Awaited /\ x \in Made /\ x # taken
    BY Awaiters DEF Perform, PointInv, ArmInv
  <2> QED
    BY <2>1 DEF kindOf
<1>2. c \in Coro /\ stage[c] # 0
  BY <1>1, Contexts DEF Awaited
<1>3. /\ stage' = stage
      /\ done' = IF kindOf[x] = "file" THEN done ELSE [done EXCEPT ![c] = TRUE]
      /\ \/ awaiter' = awaiter
         \/ awaiter' = [awaiter EXCEPT ![x[1]][x[2]].fd = NoFd]
  BY <1>1 DEF Perform
<1>4. /\ \A d \in Coro : Len(awaiter'[d]) = Len(awaiter[d])
      /\ \A y \in Made : y \in Made' /\ kindOf'[y] = kindOf[y]
  <2>1. CASE awaiter' = awaiter
    BY <2>1 DEF Made, kindOf
  <2>2. CASE awaiter' = [awaiter EXCEPT ![x[1]][x[2]].fd = NoFd]
    <3>1. NoFd \in Fd \cup {NoFd}
      OBVIOUS
    <3> QED
      BY <1>1, <2>2, <3>1, DescriptorSet
  <2> QED
    BY <1>3, <2>1, <2>2
<1>5. CASE kindOf[x] = "file"
  <2>1. \A d \in Coro : Left(d)' = Left(d)
    BY <1>3, <1>4, <1>5, LeftKept
  <2> QED
    BY <1>3, <2>1, Stutters
<1>6. CASE kindOf[x] # "file"
  <2>1. ~done[c]
    BY <1>1, <1>6 DEF PointInv, DoneInv
  <2>2. done'[c] /\ \A d \in Coro \ {c} : done'[d] = done[d]
    BY <1>2, <1>3, <1>6 DEF TypeOK
  <2> HIDE DEF c
  <2> QED
    BY <1>2, <1>3, <1>4, <2>1, <2>2, Accomplishes
<1> QED
  BY <1>5, <1>6

LEMMA FileIoRefines == \A w \in Worker : IInv /\ FileIo(w) => IoStep
<1> SUFFICES ASSUME IInv, NEW w \in Worker, FileIo(w) PROVE IoStep
  OBVIOUS
<1> USE DEF IInv
<1> DEFINE x == worker[w].ctx
           c == x[1]
<1>1. /\ worker[w].does = "io"
      /\ done' = [done EXCEPT ![c] = TRUE]
      /\ UNCHANGED <<awaiter, stage>>
  BY DEF FileIo
<1>2. x \in Awaited /\ x \in Ctx /\ kindOf[x] = "file" /\ x \in Undone
  BY <1>1, WorkerAlone
<1>3. c \in Coro /\ stage[c] # 0 /\ ~done[c]
  <2>1. c \in Coro /\ stage[c] # 0
    BY <1>2, Contexts DEF Awaited
  <2>2. ~done[c]
    BY <1>2 DEF PointInv, DoneInv
  <2> QED
    BY <2>1, <2>2
<1> HIDE DEF c
<1>4. done'[c] /\ \A d \in Coro \ {c} : done'[d] = done[d]
  BY <1>1, <1>3 DEF TypeOK
<1>5. /\ \A d \in Coro : Len(awaiter'[d]) = Len(awaiter[d])
      /\ \A y \in Made : y \in Made' /\ kindOf'[y] = kindOf[y]
  BY <1>1 DEF Made, kindOf
<1> QED
  BY <1>1, <1>3, <1>4, <1>5, Accomplishes

\* The constructor of an awaiter and a close concern the coroutine that runs,
\* which awaits nothing.
LEMMA RunningRefines ==
  ASSUME IInv, AwaitClose \/ \E kind \in Kind : \E f \in Choices(kind) : Construct(kind, f)
  PROVE  IoStep
<1> USE DEF IInv
<1> DEFINE c == current
<1>1. c # NoCoro /\ UNCHANGED <<stage, done>>
  BY DEF AwaitClose, Construct, loop
<1>2. PICK ops : awaiter' = [awaiter EXCEPT ![c] = ops]
  BY DEF AwaitClose, Construct
<1>3. c \in Coro /\ stage[c] = 0
  BY <1>1, CurrentIdle
<1> HIDE DEF c
<1>4. \A d \in Coro \ {c} : awaiter'[d] = awaiter[d]
  BY <1>2, <1>3 DEF TypeOK
<1>5. \A d \in Coro : Left(d)' = Left(d)
  BY <1>1, <1>3, <1>4 DEF Left
<1> QED
  BY <1>1, <1>5, Stutters

LEMMA IdleRefines == ASSUME UNCHANGED <<awaiter, stage, done>> PROVE IoStep
<1>1. \A d \in Coro : Left(d)' = Left(d)
  BY DEF Left
<1> QED
  BY <1>1, Stutters

LEMMA StepRefines == ASSUME IInv, [Next]_vars PROVE IoStep
<1>1. CASE LoopNext
  <2>1. CASE Resume \/ CreateSocket \/ WorkDone \/ EpollWait \/ IssueNull
    BY <2>1, IdleRefines
       DEF Resume, CreateSocket, WorkDone, EpollWait, IssueNull, frames
  <2>2. CASE AwaitClose \/ \E kind \in Kind : \E f \in Choices(kind) : Construct(kind, f)
    BY <2>2, RunningRefines, Zenon
  <2>3. CASE Await
    BY <2>3, AwaitRefines
  <2>4. CASE Complete
    BY <2>4, ContinueRefines, EndRefines
  <2>5. CASE \E x \in Ctx : Perform(x)
    BY <2>5, PerformRefines
  <2> QED
    BY <1>1, <2>1, <2>2, <2>3, <2>4, <2>5, Zenon DEF LoopNext
<1>2. CASE WorldNext
  BY <1>2, IdleRefines DEF WorldNext, SocketReady, Expire, frames
<1>3. ASSUME NEW w \in Worker, WorkerNext(w) PROVE IoStep
  <2>1. CASE PoolTake(w) \/ Signal(w)
    BY <2>1, IdleRefines DEF PoolTake, Signal, frames
  <2>2. CASE FileIo(w)
    BY <2>2, FileIoRefines
  <2> QED
    BY <1>3, <2>1, <2>2, Zenon DEF WorkerNext
<1>4. CASE UNCHANGED vars
  BY <1>4, IdleRefines DEF vars, frames
<1> QED
  BY <1>1, <1>2, <1>3, <1>4, Zenon DEF Next

\* What co_await of I/O promises is kept: every operation a coroutine awaited is
\* performed once, in the order of the chain, and only then is the coroutine
\* runnable again, whatever the order of events, of pool threads and of
\* descriptors given out anew.
THEOREM Refinement == ASSUME ~Duplex PROVE Spec => ImplementsAsyncIo
<1>1. Init => Abstract!IoInit
  <2> SUFFICES ASSUME Init PROVE Abstract!IoInit
    OBVIOUS
  <2>1. \A c \in Coro : stage[c] = 0 /\ Left(c) = <<>>
    BY DEF Init, Left
  <2> QED
    BY <2>1 DEF Abstract!IoInit
<1>2. IInv /\ [Next]_vars => [Abstract!IoNext]_(Abstract!ioVars)
  BY StepRefines DEF IoStep
<1> QED
  BY <1>1, <1>2, Invariance, PTL DEF Spec, ImplementsAsyncIo, Abstract!IoSpec
=============================================================================
