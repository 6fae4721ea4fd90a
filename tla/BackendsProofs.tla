--------------------------- MODULE BackendsProofs ---------------------------
(***************************************************************************)
(* Proofs about Backends: what holds of io_uring and of IOCP for any       *)
(* coroutines, any expressions of one or two operations, and any size of   *)
(* the submission queue.  UringOK and IocpOK are the inductive invariants  *)
(* of the two; WakeInv and Deadlines rest on the types they give.          *)
(***************************************************************************)
EXTENDS Backends, SequenceTheorems, FiniteSetTheorems, TLAPS

\* What a completion may be for: an operation, or a wakeup.
Ops == Coro \X {1, 2}
Woken == Ops \cup {Wake}

Kind == PeerKinds \cup PromptKinds
Sqes == [op : Woken, link : BOOLEAN]
Timer == [op : Ops, left : (0 - MaxLate)..2]
Pkt == [op : Woken, ready : BOOLEAN]

\* s holds x, and no member of X twice.
In(x, s) == \E i \in 1..Len(s) : s[i] = x
Distinct(X, s) == \A i, j \in 1..Len(s) : s[i] = s[j] /\ s[i] \in X => i = j

\* One of the entries s is for x, and no two are for the same member of X.
OpIn(x, s) == \E i \in 1..Len(s) : s[i].op = x
OpsDistinct(X, s) == \A i, j \in 1..Len(s) : s[i].op = s[j].op /\ s[i].op \in X => i = j

\* Wherever x and y are in s, x is before y.
OrderIn(x, y, s) == \A i, j \in 1..Len(s) : s[i] = x /\ s[j] = y => i < j
-----------------------------------------------------------------------------
(* The inductive invariant.                                                 *)

LoopTypes ==
    /\ at \in Places
    /\ ring \in Seq(Coro) /\ cross \in Seq(Coro)
    /\ out \subseteq Coro /\ ended \subseteq Coro
    /\ stop \in BOOLEAN /\ waking \in BOOLEAN
    /\ awaits \in [Coro -> Seq(Kind)] /\ \A c \in Coro : Len(awaits[c]) \in 0..2
    /\ reap \in Nat

UringTypes ==
    /\ sq \in Seq(Sqes) /\ Len(sq) <= Entries
    /\ toSubmit \in Nat
    /\ kern \subseteq Sqes
    /\ cq \in Seq(Woken)
    /\ efd \in BOOLEAN /\ fails \in 0..MaxFail

IocpTypes ==
    /\ held \subseteq Ops /\ pending \subseteq Ops /\ pool \subseteq Ops /\ dropped \subseteq Ops
    /\ heap \in Seq(Timer) /\ expired \in Seq(Timer) /\ port \in Seq(Pkt)
    /\ work \in Nat

\* A coroutine is in one place.
CorosApart ==
    /\ Distinct(Coro, ring) /\ Distinct(Coro, cross)
    /\ \A c \in Coro : In(c, ring) => ~In(c, cross)
    /\ \A c \in out \cup ended : ~In(c, ring) /\ ~In(c, cross)
    /\ out \cap ended = {}

Types == LoopTypes /\ CorosApart

\* io_uring: the entries q that are not submitted, those of the kernel k, and the
\* completions p.
OpOf(x, k) == \E e \in k : e.op = x
Flying(q, k, p) == {x \in Ops : OpIn(x, q) \/ OpOf(x, k) \/ In(x, p)}

EntriesApart(q, k, p) ==
    /\ OpsDistinct(Ops, q) /\ Distinct(Ops, p)
    /\ \A e, f \in k : e.op = f.op /\ e.op \in Ops => e = f
    /\ \A x \in Ops : /\ OpIn(x, q) => ~OpOf(x, k) /\ ~In(x, p)
                      /\ OpOf(x, k) => ~In(x, p)

\* The flag of the first of a chain is set, and the second is not ahead of it; w
\* are the expressions.
ChainsLinked(w, q, k, p) ==
    /\ \A i \in 1..Len(q) : q[i].link => q[i].op \in Coro \X {1}
    /\ \A e \in k : e.link => e.op \in Coro \X {1}
    /\ \A c \in Coro : Len(w[c]) = 2 =>
          /\ \A i \in 1..Len(q) : q[i].op = <<c, 1>> => q[i].link /\ OpIn(<<c, 2>>, q)
          /\ \A e \in k : e.op = <<c, 1>> => e.link /\ OpOf(<<c, 2>>, k)
          /\ OrderIn(<<c, 1>>, <<c, 2>>, p)

\* The operations of an expression of c of length n.
OpsOf(c, n) == {<<c, j>> : j \in 1..n}

\* The entries m of such an expression: one, or two of which the first is linked.
Made(c, n, m) ==
    /\ c \in Coro /\ n \in {1, 2}
    /\ m \in Seq(Sqes) /\ Len(m) = n
    /\ m[1].op = <<c, 1>> /\ (m[1].link <=> n = 2)
    /\ n = 2 => m[2].op = <<c, 2>> /\ ~m[2].link

\* Who waits, waits for operations in flight, the last of its expression among
\* them, and these are counted.
UringWaits(flying) ==
    /\ \A x \in flying : x[1] \in Suspended /\ x[2] <= Len(awaits[x[1]])
    /\ \A c \in Suspended : Len(awaits[c]) # 0 /\ <<c, Len(awaits[c])>> \in flying
    /\ IsFiniteSet(flying) /\ reap = Cardinality(flying)

UringInv == /\ EntriesApart(sq, kern, cq)
            /\ ChainsLinked(awaits, sq, kern, cq)
            /\ UringWaits(Flying(sq, kern, cq))

UringOK == Types /\ UringTypes /\ (Defined => UringInv)

\* IOCP: the objects of the kernel k, of the pool l, of the timer thread h and e, and
\* of the port p.
Issued(k, l, h, e, p) ==
    {x \in Ops : x \in k \/ x \in l \/ OpIn(x, h) \/ OpIn(x, e) \/ OpIn(x, p)}

ObjectsApart(k, l, h, e, p) ==
    /\ OpsDistinct(Ops, h) /\ OpsDistinct(Ops, e) /\ OpsDistinct(Ops, p)
    /\ \A x \in Ops : /\ x \in k => x \notin l /\ ~OpIn(x, h) /\ ~OpIn(x, e) /\ ~OpIn(x, p)
                      /\ x \in l => ~OpIn(x, h) /\ ~OpIn(x, e) /\ ~OpIn(x, p)
                      /\ OpIn(x, h) => ~OpIn(x, e) /\ ~OpIn(x, p)
                      /\ OpIn(x, e) => ~OpIn(x, p)

\* Who waits, waits for one operation of its expression, in flight or let go; the
\* second of a chain is held while that is the first.
IocpWaits(there) ==
    /\ \A x \in there \cup held : x[1] \in Suspended /\ x[2] <= Len(awaits[x[1]])
    /\ \A c \in Suspended : Len(awaits[c]) # 0 /\ (<<c, 1>> \in there <=> <<c, 2>> \notin there)
    /\ \A c \in Suspended : Len(awaits[c]) = 2 => (<<c, 2>> \in held <=> <<c, 1>> \in there)
    /\ \A c \in Coro : <<c, 1>> \notin held
    /\ IsFiniteSet(there) /\ reap = Cardinality(there) /\ work = reap

Flown == Issued(pending, pool, heap, expired, port)

IocpInv == /\ ObjectsApart(pending, pool, heap, expired, port)
           /\ Flown \cap dropped = {}
           /\ IocpWaits(Flown \cup dropped)

IocpOK == Types /\ IocpTypes /\ (Defined => IocpInv)
-----------------------------------------------------------------------------
(* Sequences.                                                               *)

\* What appending to a sequence adds to it.
LEMMA Pushed ==
  ASSUME NEW S, NEW X, NEW s \in Seq(S), NEW h \in S
  PROVE  /\ Append(s, h) \in Seq(S)
         /\ \A x : In(x, Append(s, h)) <=> In(x, s) \/ x = h
         /\ Distinct(X, s) /\ (h \in X => ~In(h, s)) => Distinct(X, Append(s, h))
<1> DEFINE t == Append(s, h)
<1>1. /\ t \in Seq(S) /\ Len(t) = Len(s) + 1 /\ Len(s) \in Nat
      /\ \A i \in 1..Len(s) : t[i] = s[i]
      /\ t[Len(s) + 1] = h
  BY AppendProperties, LenProperties
<1> HIDE DEF t
<1>2. ASSUME NEW x
      PROVE  In(x, t) <=> In(x, s) \/ x = h
  BY <1>1 DEF In
<1>3. ASSUME Distinct(X, s), h \in X => ~In(h, s)
      PROVE  Distinct(X, t)
  BY <1>1, <1>3 DEF In, Distinct
<1>4. QED
  BY <1>1, <1>2, <1>3 DEF t

LEMMA OpPushed ==
  ASSUME NEW S, NEW X, NEW s \in Seq(S), NEW h \in S
  PROVE  /\ Append(s, h) \in Seq(S)
         /\ \A x : OpIn(x, Append(s, h)) <=> OpIn(x, s) \/ x = h.op
         /\ OpsDistinct(X, s) /\ (h.op \in X => ~OpIn(h.op, s))
            => OpsDistinct(X, Append(s, h))
<1> DEFINE t == Append(s, h)
<1>1. /\ t \in Seq(S) /\ Len(t) = Len(s) + 1 /\ Len(s) \in Nat
      /\ \A i \in 1..Len(s) : t[i] = s[i]
      /\ t[Len(s) + 1] = h
  BY AppendProperties, LenProperties
<1> HIDE DEF t
<1>2. ASSUME NEW x
      PROVE  OpIn(x, t) <=> OpIn(x, s) \/ x = h.op
  BY <1>1 DEF OpIn
<1>3. ASSUME OpsDistinct(X, s), h.op \in X => ~OpIn(h.op, s)
      PROVE  OpsDistinct(X, t)
  BY <1>1, <1>3 DEF OpIn, OpsDistinct
<1>4. QED
  BY <1>1, <1>2, <1>3 DEF t

\* What taking the head of a sequence takes from it.
LEMMA Popped ==
  ASSUME NEW S, NEW X, NEW s \in Seq(S), s # <<>>
  PROVE  /\ Head(s) \in S /\ Tail(s) \in Seq(S)
         /\ \A x : In(x, s) <=> In(x, Tail(s)) \/ x = Head(s)
         /\ Distinct(X, s) => /\ Distinct(X, Tail(s))
                              /\ Head(s) \in X => ~In(Head(s), Tail(s))
<1> DEFINE t == Tail(s)
<1>1. /\ Len(s) \in Nat \ {0} /\ Head(s) = s[1] /\ Head(s) \in S
      /\ t \in Seq(S) /\ Len(t) = Len(s) - 1
      /\ \A i \in 1..Len(t) : t[i] = s[i + 1]
  BY HeadTailProperties, EmptySeq
<1> HIDE DEF t
<1>2. ASSUME NEW x
      PROVE  In(x, s) <=> In(x, t) \/ x = Head(s)
  <2>1. ASSUME NEW i \in 1..Len(t), t[i] = x
        PROVE  In(x, s)
    <3>1. i + 1 \in 1..Len(s) /\ s[i + 1] = x
      BY <1>1, <2>1
    <3>2. QED
      BY <3>1 DEF In
  <2>2. ASSUME NEW i \in 1..Len(s), s[i] = x, x # Head(s)
        PROVE  In(x, t)
    <3>1. i - 1 \in 1..Len(t) /\ t[i - 1] = s[i]
      BY <1>1, <2>2
    <3>2. QED
      BY <2>2, <3>1 DEF In
  <2>3. 1 \in 1..Len(s)
    BY <1>1
  <2>4. QED
    BY <1>1, <2>1, <2>2, <2>3 DEF In
<1>3. ASSUME Distinct(X, s)
      PROVE  Distinct(X, t) /\ (Head(s) \in X => ~In(Head(s), t))
  <2>1. ASSUME NEW i \in 1..Len(t), NEW j \in 1..Len(t), t[i] = t[j], t[i] \in X
        PROVE  i = j
    <3>1. /\ i + 1 \in 1..Len(s) /\ j + 1 \in 1..Len(s)
          /\ s[i + 1] = s[j + 1] /\ s[i + 1] \in X
      BY <1>1, <2>1
    <3>2. i + 1 = j + 1
      BY <1>3, <3>1 DEF Distinct
    <3>3. QED
      BY <1>1, <3>2
  <2>2. ASSUME NEW i \in 1..Len(t), t[i] = Head(s), Head(s) \in X
        PROVE  FALSE
    <3>1. /\ i + 1 \in 1..Len(s) /\ 1 \in 1..Len(s) /\ i + 1 # 1
          /\ s[i + 1] = s[1] /\ s[1] \in X
      BY <1>1, <2>2
    <3>2. QED
      BY <1>3, <3>1 DEF Distinct
  <2>3. QED
    BY <2>1, <2>2 DEF Distinct, In
<1>4. QED
  BY <1>1, <1>2, <1>3 DEF t

LEMMA OpPopped ==
  ASSUME NEW S, NEW X, NEW s \in Seq(S), s # <<>>
  PROVE  /\ Head(s) \in S /\ Tail(s) \in Seq(S)
         /\ \A x : OpIn(x, s) <=> OpIn(x, Tail(s)) \/ x = Head(s).op
         /\ OpsDistinct(X, s) => /\ OpsDistinct(X, Tail(s))
                                 /\ Head(s).op \in X => ~OpIn(Head(s).op, Tail(s))
<1> DEFINE t == Tail(s)
<1>1. /\ Len(s) \in Nat \ {0} /\ Head(s) = s[1] /\ Head(s) \in S
      /\ t \in Seq(S) /\ Len(t) = Len(s) - 1
      /\ \A i \in 1..Len(t) : t[i] = s[i + 1]
  BY HeadTailProperties, EmptySeq
<1> HIDE DEF t
<1>2. ASSUME NEW x
      PROVE  OpIn(x, s) <=> OpIn(x, t) \/ x = Head(s).op
  <2>1. ASSUME NEW i \in 1..Len(t), t[i].op = x
        PROVE  OpIn(x, s)
    <3>1. i + 1 \in 1..Len(s) /\ s[i + 1].op = x
      BY <1>1, <2>1
    <3>2. QED
      BY <3>1 DEF OpIn
  <2>2. ASSUME NEW i \in 1..Len(s), s[i].op = x, x # Head(s).op
        PROVE  OpIn(x, t)
    <3>1. i - 1 \in 1..Len(t) /\ t[i - 1] = s[i]
      BY <1>1, <2>2
    <3>2. QED
      BY <2>2, <3>1 DEF OpIn
  <2>3. 1 \in 1..Len(s)
    BY <1>1
  <2>4. QED
    BY <1>1, <2>1, <2>2, <2>3 DEF OpIn
<1>3. ASSUME OpsDistinct(X, s)
      PROVE  OpsDistinct(X, t) /\ (Head(s).op \in X => ~OpIn(Head(s).op, t))
  <2>1. ASSUME NEW i \in 1..Len(t), NEW j \in 1..Len(t), t[i].op = t[j].op, t[i].op \in X
        PROVE  i = j
    <3>1. /\ i + 1 \in 1..Len(s) /\ j + 1 \in 1..Len(s)
          /\ s[i + 1].op = s[j + 1].op /\ s[i + 1].op \in X
      BY <1>1, <2>1
    <3>2. i + 1 = j + 1
      BY <1>3, <3>1 DEF OpsDistinct
    <3>3. QED
      BY <1>1, <3>2
  <2>2. ASSUME NEW i \in 1..Len(t), t[i].op = Head(s).op, Head(s).op \in X
        PROVE  FALSE
    <3>1. /\ i + 1 \in 1..Len(s) /\ 1 \in 1..Len(s) /\ i + 1 # 1
          /\ s[i + 1].op = s[1].op /\ s[1].op \in X
      BY <1>1, <2>2
    <3>2. QED
      BY <1>3, <3>1 DEF OpsDistinct
  <2>3. QED
    BY <2>1, <2>2 DEF OpsDistinct, OpIn
<1>4. QED
  BY <1>1, <1>2, <1>3 DEF t

\* What one sequence holds after another.
LEMMA Joined ==
  ASSUME NEW S, NEW s \in Seq(S), NEW t \in Seq(S)
  PROVE  /\ s \o t \in Seq(S)
         /\ \A x \in S : In(x, s \o t) <=> In(x, s) \/ In(x, t)
         /\ Distinct(S, s) /\ Distinct(S, t) /\ (\A x \in S : ~(In(x, s) /\ In(x, t)))
            => Distinct(S, s \o t)
<1> DEFINE u == s \o t
<1>1. /\ u \in Seq(S) /\ Len(u) = Len(s) + Len(t)
      /\ Len(s) \in Nat /\ Len(t) \in Nat
      /\ \A i \in 1..Len(s) : u[i] = s[i] /\ u[i] \in S
      /\ \A i \in 1..Len(t) : u[Len(s) + i] = t[i]
      /\ \A i \in 1..Len(u) : i <= Len(s) \/ \E j \in 1..Len(t) : i = Len(s) + j
      /\ \A i \in 1..Len(u) : u[i] \in S
  <2>1. /\ u \in Seq(S) /\ Len(u) = Len(s) + Len(t)
        /\ Len(s) \in Nat /\ Len(t) \in Nat
        /\ \A i \in 1..(Len(s) + Len(t)) : u[i] = IF i <= Len(s) THEN s[i] ELSE t[i - Len(s)]
    BY ConcatProperties, LenProperties
  <2>2. \A i \in 1..Len(u) : u[i] \in S
    BY <2>1, ElementOfSeq
  <2>3. \A i \in 1..Len(u) : i <= Len(s) \/ \E j \in 1..Len(t) : i = Len(s) + j
    <3>1. ASSUME NEW i \in 1..Len(u), ~(i <= Len(s))
          PROVE  \E j \in 1..Len(t) : i = Len(s) + j
      <4>1. i - Len(s) \in 1..Len(t) /\ i = Len(s) + (i - Len(s))
        BY <2>1, <3>1
      <4>2. QED
        BY <4>1
    <3>2. QED
      BY <3>1
  <2> HIDE DEF u
  <2>4. ASSUME NEW i \in 1..Len(t)
        PROVE  u[Len(s) + i] = t[i]
    <3>1. /\ Len(s) + i \in 1..(Len(s) + Len(t))
          /\ ~(Len(s) + i <= Len(s)) /\ (Len(s) + i) - Len(s) = i
      BY <2>1
    <3>2. QED
      BY <2>1, <3>1
  <2>5. ASSUME NEW i \in 1..Len(s)
        PROVE  u[i] = s[i] /\ u[i] \in S
    <3>1. i \in 1..(Len(s) + Len(t)) /\ i <= Len(s) /\ i \in 1..Len(u)
      BY <2>1
    <3>2. QED
      BY <2>1, <2>2, <3>1
  <2>6. QED
    BY <2>1, <2>2, <2>3, <2>4, <2>5
<1> HIDE DEF u
<1>2. ASSUME NEW x \in S
      PROVE  In(x, u) <=> In(x, s) \/ In(x, t)
  <2>1. ASSUME NEW i \in 1..Len(u), u[i] = x
        PROVE  In(x, s) \/ In(x, t)
    <3>1. CASE i <= Len(s)
      <4>1. i \in 1..Len(s) /\ s[i] = x
        BY <1>1, <2>1, <3>1
      <4>2. QED
        BY <4>1 DEF In
    <3>2. CASE ~(i <= Len(s))
      <4>1. PICK j \in 1..Len(t) : i = Len(s) + j
        BY <1>1, <3>2
      <4>2. t[j] = x
        BY <1>1, <2>1, <4>1
      <4>3. QED
        BY <4>2 DEF In
    <3>3. QED
      BY <3>1, <3>2
  <2>2. ASSUME NEW i \in 1..Len(s), s[i] = x
        PROVE  In(x, u)
    <3>1. i \in 1..Len(u) /\ u[i] = x
      BY <1>1, <2>2
    <3>2. QED
      BY <3>1 DEF In
  <2>3. ASSUME NEW j \in 1..Len(t), t[j] = x
        PROVE  In(x, u)
    <3>1. Len(s) + j \in 1..Len(u) /\ u[Len(s) + j] = x
      BY <1>1, <2>3
    <3>2. QED
      BY <3>1 DEF In
  <2>4. QED
    BY <2>1, <2>2, <2>3 DEF In
<1>3. ASSUME Distinct(S, s), Distinct(S, t), \A x \in S : ~(In(x, s) /\ In(x, t))
      PROVE  Distinct(S, u)
  <2> SUFFICES ASSUME NEW i \in 1..Len(u), NEW j \in 1..Len(u), u[i] = u[j]
               PROVE  i = j
    BY DEF Distinct
  <2>1. CASE i <= Len(s) /\ j <= Len(s)
    BY <1>1, <1>3, <2>1 DEF Distinct
  <2>2. CASE ~(i <= Len(s)) /\ ~(j <= Len(s))
    <3>1. PICK k \in 1..Len(t) : i = Len(s) + k
      BY <1>1, <2>2
    <3>2. PICK l \in 1..Len(t) : j = Len(s) + l
      BY <1>1, <2>2
    <3>3. t[k] = t[l]
      BY <1>1, <3>1, <3>2
    <3>4. QED
      BY <1>3, <3>1, <3>2, <3>3 DEF Distinct
  <2>3. ASSUME NEW k \in 1..Len(u), NEW l \in 1..Len(u), k <= Len(s), ~(l <= Len(s)), u[k] = u[l]
        PROVE  FALSE
    <3>1. PICK n \in 1..Len(t) : l = Len(s) + n
      BY <1>1, <2>3
    <3>2. s[k] = t[n] /\ s[k] \in S /\ k \in 1..Len(s)
      BY <1>1, <2>3, <3>1
    <3>3. QED
      BY <1>3, <3>2 DEF In
  <2>4. QED
    BY <2>1, <2>2, <2>3
<1>4. QED
  BY <1>1, <1>2, <1>3 DEF u

\* x comes before y in s, if both do.
LEMMA OrderPushed ==
  ASSUME NEW S, NEW s \in Seq(S), NEW h \in S, NEW x, NEW y,
         OrderIn(x, y, s), h = x => ~In(y, s)
  PROVE  x # y => OrderIn(x, y, Append(s, h))
<1> DEFINE t == Append(s, h)
<1>1. /\ Len(t) = Len(s) + 1 /\ Len(s) \in Nat
      /\ \A i \in 1..Len(s) : t[i] = s[i]
      /\ t[Len(s) + 1] = h
  BY AppendProperties, LenProperties
<1> HIDE DEF t
<1>2. ASSUME NEW i \in 1..Len(t), NEW j \in 1..Len(t), t[i] = x, t[j] = y, x # y
      PROVE  i < j
  <2>1. CASE i \in 1..Len(s) /\ j \in 1..Len(s)
    BY <1>1, <1>2, <2>1 DEF OrderIn
  <2>2. CASE i = Len(s) + 1
    <3>1. j \in 1..Len(s) /\ s[j] = y /\ h = x
      BY <1>1, <1>2, <2>2
    <3>2. QED
      BY <3>1 DEF In
  <2>3. CASE i \in 1..Len(s) /\ j = Len(s) + 1
    BY <1>1, <2>3
  <2>4. QED
    BY <1>1, <2>1, <2>2, <2>3
<1>3. QED
  BY <1>2 DEF OrderIn, t

LEMMA OrderPopped ==
  ASSUME NEW S, NEW s \in Seq(S), s # <<>>, NEW x, NEW y, OrderIn(x, y, s)
  PROVE  OrderIn(x, y, Tail(s)) /\ (Head(s) = y => ~In(x, s))
<1> DEFINE t == Tail(s)
<1>1. /\ Len(s) \in Nat \ {0} /\ Head(s) = s[1]
      /\ t \in Seq(S) /\ Len(t) = Len(s) - 1
      /\ \A i \in 1..Len(t) : t[i] = s[i + 1]
  BY HeadTailProperties, EmptySeq
<1> HIDE DEF t
<1>2. ASSUME NEW i \in 1..Len(t), NEW j \in 1..Len(t), t[i] = x, t[j] = y
      PROVE  i < j
  <2>1. i + 1 \in 1..Len(s) /\ j + 1 \in 1..Len(s) /\ s[i + 1] = x /\ s[j + 1] = y
    BY <1>1, <1>2
  <2>2. i + 1 < j + 1
    BY <2>1 DEF OrderIn
  <2>3. QED
    BY <1>1, <2>2
<1>3. ASSUME Head(s) = y, NEW i \in 1..Len(s), s[i] = x
      PROVE  FALSE
  <2>1. 1 \in 1..Len(s) /\ ~(i < 1)
    BY <1>1
  <2>2. QED
    BY <1>1, <1>3, <2>1 DEF OrderIn
<1>4. QED
  BY <1>2, <1>3 DEF OrderIn, In, t

\* How often what is there once is there.
LEMMA CountIn ==
  ASSUME NEW S, NEW X, NEW s \in Seq(S), Distinct(X, s), NEW x \in X
  PROVE  Cardinality({i \in DOMAIN s : s[i] = x}) = IF In(x, s) THEN 1 ELSE 0
<1> DEFINE P == {i \in DOMAIN s : s[i] = x}
<1>1. DOMAIN s = 1..Len(s)
  BY LenProperties
<1>2. CASE In(x, s)
  <2>1. PICK i \in 1..Len(s) : s[i] = x
    BY <1>2 DEF In
  <2>2. P = {i}
    BY <1>1, <2>1 DEF Distinct
  <2>3. QED
    BY <1>2, <2>2, FS_Singleton
<1>3. CASE ~In(x, s)
  <2>1. P = {}
    BY <1>1, <1>3 DEF In
  <2>2. QED
    BY <1>3, <2>1, FS_EmptySet
<1>4. QED
  BY <1>2, <1>3

LEMMA CountOpIn ==
  ASSUME NEW S, NEW X, NEW s \in Seq(S), OpsDistinct(X, s), NEW x \in X
  PROVE  Cardinality({i \in DOMAIN s : s[i].op = x}) = IF OpIn(x, s) THEN 1 ELSE 0
<1> DEFINE P == {i \in DOMAIN s : s[i].op = x}
<1>1. DOMAIN s = 1..Len(s)
  BY LenProperties
<1>2. CASE OpIn(x, s)
  <2>1. PICK i \in 1..Len(s) : s[i].op = x
    BY <1>2 DEF OpIn
  <2>2. P = {i}
    BY <1>1, <2>1 DEF OpsDistinct
  <2>3. QED
    BY <1>2, <2>2, FS_Singleton
<1>3. CASE ~OpIn(x, s)
  <2>1. P = {}
    BY <1>1, <1>3 DEF OpIn
  <2>2. QED
    BY <1>3, <2>1, FS_EmptySet
<1>4. QED
  BY <1>2, <1>3

\* What a sequence holds, as a set.
LEMMA SetOfSeq ==
  ASSUME NEW S, NEW s \in Seq(S)
  PROVE  /\ \A x : x \in ToSet(s) <=> In(x, s)
         /\ ToSet(s) \subseteq S
         /\ \A x : (\E e \in ToSet(s) : e.op = x) <=> OpIn(x, s)
<1>1. DOMAIN s = 1..Len(s) /\ \A i \in 1..Len(s) : s[i] \in S
  BY LenProperties, ElementOfSeq
<1>2. \A e : e \in ToSet(s) <=> \E i \in 1..Len(s) : s[i] = e
  BY <1>1 DEF ToSet
<1>3. QED
  BY <1>1, <1>2 DEF In, OpIn
-----------------------------------------------------------------------------
(* Coroutines.                                                              *)

LEMMA SuspendedMeans ==
  ASSUME LoopTypes, NEW c
  PROVE  c \in Suspended <=> c \in Coro /\ c \notin out /\ c \notin ended
                             /\ ~In(c, ring) /\ ~In(c, cross)
BY SetOfSeq DEF Suspended, LoopTypes

\* The same afterwards.
LEMMA SuspendedNext ==
  ASSUME LoopTypes', NEW c
  PROVE  c \in Suspended' <=> c \in Coro /\ c \notin out' /\ c \notin ended'
                              /\ ~In(c, ring') /\ ~In(c, cross')
<1>1. ring' \in Seq(Coro) /\ cross' \in Seq(Coro)
  BY DEF LoopTypes
<1>2. /\ c \in ToSet(ring') <=> In(c, ring')
      /\ c \in ToSet(cross') <=> In(c, cross')
  BY <1>1, SetOfSeq
<1>3. QED
  BY <1>2 DEF Suspended

\* Spawn, the drain and the end of a coroutine leave who waits.
LEMMA SpawnStep ==
  ASSUME Types, NEW c \in Coro, Spawn(c)
  PROVE  LoopTypes' /\ CorosApart' /\ Suspended' = Suspended
<1>1. /\ c \in out /\ cross' = Append(cross, c) /\ out' = out \ {c}
      /\ waking' = (cross = <<>>)
      /\ UNCHANGED <<at, ring, ended, stop, awaits, reap>>
  BY DEF Spawn
<1>2. LoopTypes /\ cross \in Seq(Coro) /\ ring \in Seq(Coro)
  BY DEF Types, LoopTypes
<1>3. /\ cross' \in Seq(Coro)
      /\ \A x : In(x, cross') <=> In(x, cross) \/ x = c
      /\ Distinct(Coro, cross')
  BY <1>1, <1>2, Pushed DEF Types, CorosApart
<1>4. CorosApart'
  BY <1>1, <1>3 DEF Types, CorosApart
<1>5. LoopTypes'
  BY <1>1, <1>3 DEF Types, LoopTypes
<1>6. QED
  BY <1>1, <1>2, <1>3, <1>4, <1>5, SuspendedMeans, SuspendedNext DEF LoopTypes

LEMMA DrainStep ==
  ASSUME Types, Drain
  PROVE  LoopTypes' /\ CorosApart' /\ Suspended' = Suspended
<1>1. /\ at' \in {"residue", "work"} /\ ring' = ring \o cross /\ cross' = <<>>
      /\ UNCHANGED <<out, ended, stop, waking, awaits, reap>>
  BY DEF Drain
<1>2. LoopTypes /\ cross \in Seq(Coro) /\ ring \in Seq(Coro)
  BY DEF Types, LoopTypes
<1>3. cross' \in Seq(Coro) /\ (\A x : ~In(x, cross')) /\ Distinct(Coro, cross')
  BY <1>1 DEF In, Distinct
<1>4. /\ ring' \in Seq(Coro)
      /\ \A x \in Coro : In(x, ring') <=> In(x, ring) \/ In(x, cross)
      /\ Distinct(Coro, ring')
  BY <1>1, <1>2, Joined DEF Types, CorosApart
<1>5. CorosApart'
  BY <1>1, <1>2, <1>3, <1>4 DEF Types, CorosApart, LoopTypes
<1>6. LoopTypes'
  BY <1>1, <1>3, <1>4 DEF Types, LoopTypes, Places
<1>7. QED
  BY <1>1, <1>2, <1>3, <1>4, <1>5, <1>6, SuspendedMeans, SuspendedNext

\* A coroutine that is resumed is in no queue.
LEMMA ResumeStep ==
  ASSUME Types, NEW c \in Coro, Resumes(c), UNCHANGED <<cross, out, ended>>
  PROVE  /\ ring' \in Seq(Coro)
         /\ CorosApart'
         /\ c \notin Suspended /\ c \notin out /\ c \notin ended
         /\ ~In(c, ring') /\ ~In(c, cross')
         /\ LoopTypes' => Suspended' = Suspended \cup {c}
<1>1. ring # <<>> /\ c = Head(ring) /\ ring' = Tail(ring)
  BY DEF Resumes
<1>2. LoopTypes /\ cross \in Seq(Coro) /\ ring \in Seq(Coro)
  BY DEF Types, LoopTypes
<1>3. /\ ring' \in Seq(Coro)
      /\ \A x : In(x, ring) <=> In(x, ring') \/ x = c
      /\ Distinct(Coro, ring') /\ ~In(c, ring')
  BY <1>1, <1>2, Popped DEF Types, CorosApart
<1>4. CorosApart'
  BY <1>3 DEF Types, CorosApart
<1>5. c \notin Suspended /\ c \notin out /\ c \notin ended /\ ~In(c, cross)
  BY <1>2, <1>3, SuspendedMeans DEF Types, CorosApart
<1>6. QED
  BY <1>2, <1>3, <1>4, <1>5, SuspendedMeans, SuspendedNext

LEMMA ReturnStep ==
  ASSUME Types, NEW c \in Coro, Return(c)
  PROVE  LoopTypes' /\ CorosApart' /\ Suspended' = Suspended
<1>1. /\ Resumes(c) /\ ended' = ended \cup {c}
      /\ UNCHANGED <<at, cross, out, stop, waking, awaits, reap>>
  BY DEF Return
<1>2. LoopTypes /\ cross \in Seq(Coro) /\ ring \in Seq(Coro)
  BY DEF Types, LoopTypes
<1>3. ring # <<>> /\ c = Head(ring) /\ ring' = Tail(ring)
  BY <1>1 DEF Resumes
<1>4. /\ ring' \in Seq(Coro)
      /\ \A x : In(x, ring) <=> In(x, ring') \/ x = c
      /\ Distinct(Coro, ring') /\ ~In(c, ring')
  BY <1>2, <1>3, Popped DEF Types, CorosApart
<1>5. c \notin Suspended /\ c \notin out /\ c \notin ended /\ ~In(c, cross)
  BY <1>2, <1>4, SuspendedMeans DEF Types, CorosApart
<1>6. CorosApart'
  BY <1>1, <1>4, <1>5 DEF Types, CorosApart
<1>7. LoopTypes'
  BY <1>1, <1>4 DEF Types, LoopTypes
<1>8. QED
  BY <1>1, <1>2, <1>4, <1>5, <1>6, <1>7, SuspendedMeans, SuspendedNext

\* A coroutine whose operation has completed waits no more.
LEMMA AwakenStep ==
  ASSUME Types, NEW c \in Suspended, Awakens(c),
         at' \in Places, reap' \in Nat, UNCHANGED <<cross, out, ended, stop, waking>>
  PROVE  LoopTypes' /\ CorosApart' /\ Suspended' = Suspended \ {c}
<1>1. ring' = Append(ring, c) /\ awaits' = [awaits EXCEPT ![c] = <<>>]
  BY DEF Awakens
<1>2. LoopTypes /\ cross \in Seq(Coro) /\ ring \in Seq(Coro)
  BY DEF Types, LoopTypes
<1>3. c \in Coro /\ c \notin out /\ c \notin ended /\ ~In(c, ring) /\ ~In(c, cross)
  BY <1>2, SuspendedMeans
<1>4. /\ ring' \in Seq(Coro)
      /\ \A x : In(x, ring') <=> In(x, ring) \/ x = c
      /\ Distinct(Coro, ring')
  BY <1>1, <1>2, <1>3, Pushed DEF Types, CorosApart
<1>5. CorosApart'
  BY <1>3, <1>4 DEF Types, CorosApart
<1>6. awaits' \in [Coro -> Seq(Kind)] /\ \A d \in Coro : Len(awaits'[d]) \in 0..2
  BY <1>1, <1>2, <1>3, EmptySeq DEF LoopTypes
<1>7. LoopTypes'
  BY <1>2, <1>4, <1>6 DEF LoopTypes
<1>8. QED
  BY <1>2, <1>3, <1>4, <1>5, <1>7, SuspendedMeans, SuspendedNext

\* The coroutines are where they were.
LEMMA CorosFramed ==
  ASSUME Types, UNCHANGED <<ring, cross, out, ended>>
  PROVE  CorosApart' /\ Suspended' = Suspended
BY DEF Types, CorosApart, Suspended

-----------------------------------------------------------------------------
(* io_uring: where the entries go.                                          *)

\* What is in flight, by its places.
LEMMA FlyingMeans ==
  ASSUME NEW q, NEW k, NEW p, NEW x
  PROVE  x \in Flying(q, k, p) <=> x \in Ops /\ (OpIn(x, q) \/ OpOf(x, k) \/ In(x, p))
BY DEF Flying

\* The read of the eventfd is no operation: it comes and goes without notice.
LEMMA WakeListed ==
  ASSUME NEW w, NEW q \in Seq(Sqes), NEW k \in SUBSET Sqes, NEW p \in Seq(Woken),
         EntriesApart(q, k, p), ChainsLinked(w, q, k, p)
  PROVE  LET r == Append(q, Entry(Wake)) IN
         /\ r \in Seq(Sqes) /\ Len(r) = Len(q) + 1
         /\ EntriesApart(r, k, p) /\ ChainsLinked(w, r, k, p)
         /\ Flying(r, k, p) = Flying(q, k, p)
<1> DEFINE r == Append(q, Entry(Wake))
<1>1. Entry(Wake) \in Sqes /\ Entry(Wake).op = Wake /\ ~Entry(Wake).link /\ Wake \notin Ops
  BY LoopAssumption DEF Entry, Sqes, Woken, Ops
<1>2. /\ r \in Seq(Sqes) /\ Len(r) = Len(q) + 1 /\ Len(q) \in Nat
      /\ \A i \in 1..Len(q) : r[i] = q[i]
      /\ r[Len(q) + 1] = Entry(Wake)
  BY <1>1, AppendProperties, LenProperties
<1>3. /\ \A x : OpIn(x, r) <=> OpIn(x, q) \/ x = Wake
      /\ OpsDistinct(Ops, q) => OpsDistinct(Ops, r)
  BY <1>1, OpPushed
<1> HIDE DEF r
<1>4. EntriesApart(r, k, p)
  BY <1>1, <1>3 DEF EntriesApart
<1>5. \A i \in 1..Len(r) : \/ i \in 1..Len(q) /\ r[i] = q[i]
                           \/ ~r[i].link /\ r[i].op \notin Ops
  BY <1>1, <1>2
<1>6. \A c \in Coro : <<c, 1>> \in Ops
  BY DEF Ops
<1>7. ChainsLinked(w, r, k, p)
  BY <1>3, <1>5, <1>6 DEF ChainsLinked
<1>8. Flying(r, k, p) = Flying(q, k, p)
  BY <1>1, <1>3 DEF Flying
<1>9. QED
  BY <1>2, <1>4, <1>7, <1>8 DEF r

LEMMA WakeHeard ==
  ASSUME NEW w, NEW q \in Seq(Sqes), NEW k \in SUBSET Sqes, NEW p \in Seq(Woken),
         EntriesApart(q, k, p), ChainsLinked(w, q, k, p),
         p # <<>>, Head(p) = Wake
  PROVE  /\ Tail(p) \in Seq(Woken)
         /\ EntriesApart(q, k, Tail(p)) /\ ChainsLinked(w, q, k, Tail(p))
         /\ Flying(q, k, Tail(p)) = Flying(q, k, p)
<1>1. Wake \notin Ops
  BY LoopAssumption DEF Ops
<1>2. /\ Tail(p) \in Seq(Woken)
      /\ \A x : In(x, p) <=> In(x, Tail(p)) \/ x = Wake
      /\ Distinct(Ops, p) => Distinct(Ops, Tail(p))
  BY Popped
<1>3. EntriesApart(q, k, Tail(p))
  BY <1>2 DEF EntriesApart
<1>4. ChainsLinked(w, q, k, Tail(p))
  BY OrderPopped DEF ChainsLinked
<1>5. Flying(q, k, Tail(p)) = Flying(q, k, p)
  BY <1>1, <1>2 DEF Flying
<1>6. QED
  BY <1>2, <1>3, <1>4, <1>5

LEMMA WakeFires ==
  ASSUME NEW w, NEW q \in Seq(Sqes), NEW k \in SUBSET Sqes, NEW p \in Seq(Woken),
         EntriesApart(q, k, p), ChainsLinked(w, q, k, p)
  PROVE  LET l == k \ {Entry(Wake)}
             r == Append(p, Wake)
         IN  /\ l \in SUBSET Sqes /\ r \in Seq(Woken)
             /\ EntriesApart(q, l, r) /\ ChainsLinked(w, q, l, r)
             /\ Flying(q, l, r) = Flying(q, k, p)
<1> DEFINE l == k \ {Entry(Wake)}
           r == Append(p, Wake)
<1>1. Wake \notin Ops /\ Entry(Wake).op = Wake /\ Wake \in Woken
  BY LoopAssumption DEF Entry, Woken, Ops
<1>2. /\ r \in Seq(Woken)
      /\ \A x : In(x, r) <=> In(x, p) \/ x = Wake
      /\ Distinct(Ops, p) => Distinct(Ops, r)
  BY <1>1, Pushed
<1>3. /\ \A x \in Ops : OpOf(x, l) <=> OpOf(x, k)
      /\ \A e \in l : e \in k
  BY <1>1 DEF OpOf
<1>4. EntriesApart(q, l, r)
  BY <1>1, <1>2, <1>3 DEF EntriesApart
<1>5. ASSUME NEW c \in Coro, Len(w[c]) = 2
      PROVE  OrderIn(<<c, 1>>, <<c, 2>>, r)
  <2>1. <<c, 1>> # Wake /\ <<c, 1>> # <<c, 2>>
    BY <1>1 DEF Ops
  <2>2. OrderIn(<<c, 1>>, <<c, 2>>, p)
    BY <1>5 DEF ChainsLinked
  <2>3. QED
    BY <1>1, <2>1, <2>2, OrderPushed
<1>6. \A c \in Coro : <<c, 2>> \in Ops
  BY DEF Ops
<1>7. ChainsLinked(w, q, l, r)
  BY <1>3, <1>5, <1>6 DEF ChainsLinked
<1>8. Flying(q, l, r) = Flying(q, k, p)
  BY <1>1, <1>2, <1>3 DEF Flying
<1>9. QED
  BY <1>2, <1>4, <1>7, <1>8

\* The kernel takes the entries: they stay in flight.
LEMMA SubmittedFly ==
  ASSUME NEW q \in Seq(Sqes), NEW k \in SUBSET Sqes, NEW p \in Seq(Woken),
         NEW l, l = k \cup ToSet(q)
  PROVE  Flying(<<>>, l, p) = Flying(q, k, p)
<1>1. \A x : (\E e \in ToSet(q) : e.op = x) <=> OpIn(x, q)
  BY SetOfSeq
<1>2. \A x : OpOf(x, l) <=> OpOf(x, k) \/ OpIn(x, q)
  BY <1>1 DEF OpOf
<1>3. \A x : ~OpIn(x, <<>>)
  BY DEF OpIn
<1>4. QED
  BY <1>2, <1>3 DEF Flying

\* A chain is whole, wherever it is.
LEMMA Submitted ==
  ASSUME NEW w, NEW q \in Seq(Sqes), NEW k \in SUBSET Sqes, NEW p \in Seq(Woken),
         EntriesApart(q, k, p), ChainsLinked(w, q, k, p),
         NEW l, l = k \cup ToSet(q)
  PROVE  /\ l \in SUBSET Sqes
         /\ EntriesApart(<<>>, l, p) /\ ChainsLinked(w, <<>>, l, p)
<1>1. /\ ToSet(q) \subseteq Sqes
      /\ \A e : e \in ToSet(q) <=> In(e, q)
      /\ \A x : (\E e \in ToSet(q) : e.op = x) <=> OpIn(x, q)
  BY SetOfSeq
<1>2. \A x : OpOf(x, l) <=> OpOf(x, k) \/ OpIn(x, q)
  BY <1>1 DEF OpOf
<1>3. \A e \in l : e \in k \/ \E i \in 1..Len(q) : q[i] = e
  BY <1>1 DEF In
<1>4. \A x : ~OpIn(x, <<>>)
  BY DEF OpIn
<1>5. OpsDistinct(Ops, <<>>)
  BY DEF OpsDistinct
<1>6. ASSUME NEW e \in l, NEW f \in l, e.op = f.op, e.op \in Ops
      PROVE  e = f
  <2>1. CASE e \in k /\ f \in k
    BY <1>6, <2>1 DEF EntriesApart
  <2>2. CASE e \notin k /\ f \notin k
    BY <1>3, <1>6, <2>2 DEF EntriesApart, OpsDistinct
  <2>3. ASSUME NEW g \in l, NEW h \in l, g.op = h.op, g.op \in Ops, g \in k, h \notin k
        PROVE  FALSE
    BY <1>3, <2>3 DEF EntriesApart, OpOf, OpIn
  <2>4. QED
    BY <1>6, <2>1, <2>2, <2>3
<1>7. EntriesApart(<<>>, l, p)
  BY <1>2, <1>4, <1>5, <1>6 DEF EntriesApart
<1>8. ChainsLinked(w, <<>>, l, p)
  <2>1. ASSUME NEW e \in l, e.link
        PROVE  e.op \in Coro \X {1}
    BY <1>3, <2>1 DEF ChainsLinked
  <2>2. ASSUME NEW c \in Coro, Len(w[c]) = 2, NEW e \in l, e.op = <<c, 1>>
        PROVE  e.link /\ OpOf(<<c, 2>>, l)
    BY <1>2, <1>3, <2>2 DEF ChainsLinked
  <2>3. \A c \in Coro : Len(w[c]) = 2 => OrderIn(<<c, 1>>, <<c, 2>>, p)
    BY DEF ChainsLinked
  <2>4. 1..Len(<<>>) = {}
    OBVIOUS
  <2>5. QED
    BY <2>1, <2>2, <2>3, <2>4 DEF ChainsLinked
<1>9. QED
  BY <1>1, <1>7, <1>8

\* An operation that has begun completes: it stays in flight.
LEMMA CompletedFly ==
  ASSUME NEW q \in Seq(Sqes), NEW k \in SUBSET Sqes, NEW p \in Seq(Woken),
         EntriesApart(q, k, p), NEW e \in k, e.op \in Ops
  PROVE  LET l == k \ {e}
             r == Append(p, e.op)
         IN  /\ l \in SUBSET Sqes /\ r \in Seq(Woken)
             /\ EntriesApart(q, l, r)
             /\ Flying(q, l, r) = Flying(q, k, p)
<1> DEFINE l == k \ {e}
           r == Append(p, e.op)
<1>1. e.op \in Woken
  BY DEF Woken
<1>2. OpOf(e.op, k) /\ ~In(e.op, p) /\ ~OpIn(e.op, q)
  BY DEF EntriesApart, OpOf
<1>3. /\ r \in Seq(Woken)
      /\ \A x : In(x, r) <=> In(x, p) \/ x = e.op
      /\ Distinct(Ops, r)
  BY <1>1, <1>2, Pushed DEF EntriesApart
<1>4. /\ \A x \in Ops : OpOf(x, l) <=> OpOf(x, k) /\ x # e.op
      /\ \A d \in l : d \in k
  BY DEF OpOf, EntriesApart
<1> HIDE DEF l
<1>5. EntriesApart(q, l, r)
  BY <1>2, <1>3, <1>4 DEF EntriesApart
<1>6. Flying(q, l, r) = Flying(q, k, p)
  BY <1>2, <1>3, <1>4 DEF Flying
<1>7. QED
  BY <1>3, <1>4, <1>5, <1>6 DEF l

\* The chains are as they should be when what has no other before it completes.
LEMMA Completed ==
  ASSUME NEW w, NEW q \in Seq(Sqes), NEW k \in SUBSET Sqes, NEW p \in Seq(Woken),
         EntriesApart(q, k, p), ChainsLinked(w, q, k, p),
         NEW e \in k, e.op \in Ops,
         \A d \in k : d.link => e.op # <<d.op[1], 2>>
  PROVE  ChainsLinked(w, q, k \ {e}, Append(p, e.op))
<1> DEFINE l == k \ {e}
           r == Append(p, e.op)
<1>1. e.op \in Woken
  BY DEF Woken
<1>2. /\ \A x \in Ops : OpOf(x, l) <=> OpOf(x, k) /\ x # e.op
      /\ \A d \in l : d \in k /\ (d.op = e.op => FALSE)
  BY DEF OpOf, EntriesApart
<1> HIDE DEF l
<1>3. ASSUME NEW c \in Coro, Len(w[c]) = 2
      PROVE  OrderIn(<<c, 1>>, <<c, 2>>, r)
  <2>1. <<c, 1>> # <<c, 2>> /\ <<c, 2>> \in Ops
    BY DEF Ops
  <2>2. OrderIn(<<c, 1>>, <<c, 2>>, p)
    BY <1>3 DEF ChainsLinked
  <2>3. ASSUME e.op = <<c, 1>>
        PROVE  ~In(<<c, 2>>, p)
    <3>1. OpOf(<<c, 2>>, k)
      BY <1>3, <2>3 DEF ChainsLinked
    <3>2. QED
      BY <2>1, <3>1 DEF EntriesApart
  <2>4. QED
    BY <1>1, <2>1, <2>2, <2>3, OrderPushed
<1>4. ASSUME NEW c \in Coro, Len(w[c]) = 2, NEW d \in l, d.op = <<c, 1>>
      PROVE  d.link /\ OpOf(<<c, 2>>, l)
  <2>1. d.link /\ OpOf(<<c, 2>>, k)
    BY <1>2, <1>4 DEF ChainsLinked
  <2>2. e.op # <<c, 2>>
    BY <1>2, <1>4, <2>1
  <2>3. QED
    BY <1>2, <2>1, <2>2 DEF Ops
<1>5. ChainsLinked(w, q, l, r)
  BY <1>2, <1>3, <1>4 DEF ChainsLinked
<1>6. QED
  BY <1>5 DEF l

\* Its completion is taken: it is in flight no more.
LEMMA TakenFly ==
  ASSUME NEW q \in Seq(Sqes), NEW k \in SUBSET Sqes, NEW p \in Seq(Woken),
         EntriesApart(q, k, p), p # <<>>, Head(p) \in Ops
  PROVE  /\ Tail(p) \in Seq(Woken)
         /\ EntriesApart(q, k, Tail(p))
         /\ Head(p) \in Flying(q, k, p)
         /\ Flying(q, k, Tail(p)) = Flying(q, k, p) \ {Head(p)}
         /\ ~OpIn(Head(p), q) /\ ~OpOf(Head(p), k)
<1>1. /\ Tail(p) \in Seq(Woken)
      /\ \A x : In(x, p) <=> In(x, Tail(p)) \/ x = Head(p)
      /\ Distinct(Ops, Tail(p)) /\ ~In(Head(p), Tail(p))
  BY Popped DEF EntriesApart
<1>2. EntriesApart(q, k, Tail(p))
  BY <1>1 DEF EntriesApart
<1>3. ~OpIn(Head(p), q) /\ ~OpOf(Head(p), k)
  BY <1>1 DEF EntriesApart
<1>4. Head(p) \in Flying(q, k, p) /\ Flying(q, k, Tail(p)) = Flying(q, k, p) \ {Head(p)}
  BY <1>1, <1>3 DEF Flying
<1>5. QED
  BY <1>1, <1>2, <1>3, <1>4

\* The last of an expression has nobody behind it.
LEMMA Taken ==
  ASSUME NEW w, NEW q \in Seq(Sqes), NEW k \in SUBSET Sqes, NEW p \in Seq(Woken),
         EntriesApart(q, k, p), ChainsLinked(w, q, k, p),
         p # <<>>, Head(p) \in Ops
  PROVE  /\ ChainsLinked(w, q, k, Tail(p))
         /\ \A c \in Coro : Head(p) = <<c, 2>> /\ Len(w[c]) = 2
                            => <<c, 1>> \notin Flying(q, k, p)
<1>1. ChainsLinked(w, q, k, Tail(p))
  BY OrderPopped DEF ChainsLinked
<1>2. ~OpIn(Head(p), q) /\ ~OpOf(Head(p), k)
  BY TakenFly
<1>3. ASSUME NEW c \in Coro, Head(p) = <<c, 2>>, Len(w[c]) = 2
      PROVE  <<c, 1>> \notin Flying(q, k, p)
  <2>1. ~In(<<c, 1>>, p)
    BY <1>3, OrderPopped DEF ChainsLinked
  <2>2. ~OpIn(<<c, 1>>, q)
    BY <1>2, <1>3 DEF ChainsLinked, OpIn
  <2>3. ~OpOf(<<c, 1>>, k)
    BY <1>2, <1>3 DEF ChainsLinked, OpOf
  <2>4. QED
    BY <2>1, <2>2, <2>3, FlyingMeans
<1>4. QED
  BY <1>1, <1>3

\* The entries of an expression: one, or two of which the first is linked.
LEMMA EntriesMade ==
  ASSUME NEW c \in Coro, NEW n \in {1, 2},
         NEW b \in Seq(Sqes), Len(b) = n,
         b[1] = Entry(<<c, 1>>), n = 2 => b[2] = Entry(<<c, 2>>)
  PROVE  Made(c, n, Linked(b))
<1>1. \A j \in {1, 2} : Entry(<<c, j>>) \in Sqes
  BY DEF Entry, Sqes, Woken, Ops
<1>2. b \in Seq(Sqes)
  OBVIOUS
<1>3. Len(b) = n /\ b[1] = Entry(<<c, 1>>) /\ (n = 2 => b[2] = Entry(<<c, 2>>))
  OBVIOUS
<1>4. /\ Linked(b) \in Seq(Sqes) /\ Len(Linked(b)) = n
      /\ Linked(b)[1].op = <<c, 1>> /\ (Linked(b)[1].link <=> n = 2)
      /\ n = 2 => Linked(b)[2].op = <<c, 2>> /\ ~Linked(b)[2].link
  <2>1. CASE n = 1
    <3>1. Linked(b) = b
      BY <1>3, <2>1 DEF Linked
    <3>2. b[1].op = <<c, 1>> /\ ~b[1].link
      BY <1>3 DEF Entry
    <3>3. QED
      BY <1>2, <1>3, <2>1, <3>1, <3>2
  <2>2. CASE n = 2
    <3> DEFINE f == [b[1] EXCEPT !.link = TRUE]
    <3>1. Linked(b) = [b EXCEPT ![1].link = TRUE]
      BY <1>3, <2>2 DEF Linked
    <3>2. [b EXCEPT ![1].link = TRUE] = [b EXCEPT ![1] = [b[1] EXCEPT !.link = TRUE]]
      OBVIOUS
    <3>3. b[1] \in Sqes /\ b[1].op = <<c, 1>>
      BY <1>1, <1>3 DEF Entry
    <3>4. f \in Sqes /\ f.op = <<c, 1>> /\ f.link
      BY <3>3 DEF Sqes
    <3>5. Linked(b) = [b EXCEPT ![1] = f]
      BY <3>1, <3>2
    <3> HIDE DEF f
    <3>6. 1 \in 1..Len(b) /\ 2 \in 1..Len(b)
      BY <1>3, <2>2
    <3>7. /\ Linked(b) \in Seq(Sqes) /\ Len(Linked(b)) = 2
          /\ Linked(b)[1] = f /\ Linked(b)[2] = b[2]
      BY <1>2, <1>3, <2>2, <3>4, <3>5, <3>6, ExceptSeq
    <3>8. b[2].op = <<c, 2>> /\ ~b[2].link
      BY <1>3, <2>2 DEF Entry
    <3>9. QED
      BY <2>2, <3>4, <3>7, <3>8
  <2>3. QED
    BY <2>1, <2>2
<1>5. QED
  BY <1>4 DEF Made

\* What the entries m of an expression add to others.
LEMMA EntriesIn ==
  ASSUME NEW q \in Seq(Sqes), NEW c, NEW n, NEW m, Made(c, n, m)
  PROVE  /\ q \o m \in Seq(Sqes) /\ Len(q \o m) = Len(q) + n
         /\ \A x : OpIn(x, q \o m) <=> OpIn(x, q) \/ x = <<c, 1>> \/ (n = 2 /\ x = <<c, 2>>)
<1> DEFINE r == q \o m
<1>1. /\ m \in Seq(Sqes) /\ Len(m) = n /\ n \in {1, 2}
      /\ m[1].op = <<c, 1>> /\ (n = 2 => m[2].op = <<c, 2>>)
  BY DEF Made
<1>2. /\ r \in Seq(Sqes) /\ Len(r) = Len(q) + n
      /\ Len(q) \in Nat /\ n \in {1, 2}
      /\ \A i \in 1..(Len(q) + n) : r[i] = IF i <= Len(q) THEN q[i] ELSE m[i - Len(q)]
  BY <1>1, ConcatProperties, LenProperties
<1> HIDE DEF r
<1>3. /\ \A i \in 1..Len(q) : i \in 1..Len(r) /\ r[i] = q[i]
      /\ Len(q) + 1 \in 1..Len(r)
      /\ n = 2 => Len(q) + 2 \in 1..Len(r)
  BY <1>2
<1>4. r[Len(q) + 1] = m[1]
  <2>1. Len(q) + 1 \in 1..(Len(q) + n) /\ ~(Len(q) + 1 <= Len(q))
        /\ (Len(q) + 1) - Len(q) = 1
    BY <1>2
  <2>2. QED
    BY <1>2, <2>1
<1>5. n = 2 => r[Len(q) + 2] = m[2]
  <2>1. n = 2 => /\ Len(q) + 2 \in 1..(Len(q) + n) /\ ~(Len(q) + 2 <= Len(q))
                      /\ (Len(q) + 2) - Len(q) = 2
    BY <1>2
  <2>2. QED
    BY <1>2, <2>1
<1>6. \A i \in 1..Len(r) : \/ i \in 1..Len(q)
                           \/ i = Len(q) + 1
                           \/ i = Len(q) + 2 /\ n = 2
  BY <1>2
<1>7. \A x : OpIn(x, r) <=> OpIn(x, q) \/ x = <<c, 1>> \/ (n = 2 /\ x = <<c, 2>>)
  <2>1. ASSUME NEW x, NEW i \in 1..Len(r), r[i].op = x
        PROVE  OpIn(x, q) \/ x = <<c, 1>> \/ (n = 2 /\ x = <<c, 2>>)
    BY <1>1, <1>3, <1>4, <1>5, <1>6, <2>1 DEF OpIn
  <2>2. ASSUME NEW x, OpIn(x, q) \/ x = <<c, 1>> \/ (n = 2 /\ x = <<c, 2>>)
        PROVE  OpIn(x, r)
    BY <1>1, <1>3, <1>4, <1>5, <2>2 DEF OpIn
  <2>3. QED
    BY <2>1, <2>2 DEF OpIn
<1>8. QED
  BY <1>2, <1>7 DEF r

LEMMA EntriesFly ==
  ASSUME NEW q \in Seq(Sqes), NEW k, NEW p, NEW c, NEW n, NEW m, Made(c, n, m)
  PROVE  Flying(q \o m, k, p) = Flying(q, k, p) \cup OpsOf(c, n)
<1> DEFINE r == q \o m
<1>1. /\ \A x : OpIn(x, r) <=> OpIn(x, q) \/ x = <<c, 1>> \/ (n = 2 /\ x = <<c, 2>>)
      /\ c \in Coro /\ n \in {1, 2}
  BY EntriesIn DEF Made
<1> HIDE DEF r
<1>2. OpsOf(c, n) = {<<c, 1>>} \cup {x \in {<<c, 2>>} : n = 2}
  BY <1>1 DEF OpsOf
<1>3. <<c, 1>> \in Ops /\ <<c, 2>> \in Ops
  BY <1>1 DEF Ops
<1>4. Flying(r, k, p) = Flying(q, k, p) \cup OpsOf(c, n)
  BY <1>1, <1>2, <1>3 DEF Flying
<1>5. QED
  BY <1>4 DEF r

\* Nothing is there twice, and the first of a chain is linked.
LEMMA EntriesAdded ==
  ASSUME NEW w \in [Coro -> Seq(Kind)], NEW q \in Seq(Sqes), NEW k \in SUBSET Sqes,
         NEW p \in Seq(Woken),
         EntriesApart(q, k, p), ChainsLinked(w, q, k, p),
         NEW c \in Coro, NEW e \in Seq(Kind), NEW n \in {1, 2}, Len(e) = n,
         NEW m, Made(c, n, m),
         <<c, 1>> \notin Flying(q, k, p), <<c, 2>> \notin Flying(q, k, p),
         NEW r, r = q \o m,
         NEW v, v = [w EXCEPT ![c] = e]
  PROVE  /\ EntriesApart(r, k, p) /\ ChainsLinked(v, r, k, p)
<1>1. /\ m \in Seq(Sqes) /\ Len(m) = n
      /\ m[1].op = <<c, 1>> /\ (m[1].link <=> n = 2)
      /\ n = 2 => m[2].op = <<c, 2>> /\ ~m[2].link
  BY DEF Made
<1>2. /\ r \in Seq(Sqes) /\ Len(r) = Len(q) + n
      /\ Len(q) \in Nat
      /\ \A i \in 1..(Len(q) + n) : r[i] = IF i <= Len(q) THEN q[i] ELSE m[i - Len(q)]
  BY <1>1, ConcatProperties, LenProperties
<1>3. /\ \A i \in 1..Len(q) : i \in 1..Len(r) /\ r[i] = q[i]
      /\ Len(q) + 1 \in 1..Len(r)
      /\ n = 2 => Len(q) + 2 \in 1..Len(r)
  BY <1>2
<1>4. r[Len(q) + 1] = m[1]
  <2>1. Len(q) + 1 \in 1..(Len(q) + n) /\ ~(Len(q) + 1 <= Len(q))
        /\ (Len(q) + 1) - Len(q) = 1
    BY <1>2
  <2>2. QED
    BY <1>2, <2>1
<1>5. n = 2 => r[Len(q) + 2] = m[2]
  <2>1. n = 2 => /\ Len(q) + 2 \in 1..(Len(q) + n) /\ ~(Len(q) + 2 <= Len(q))
                      /\ (Len(q) + 2) - Len(q) = 2
    BY <1>2
  <2>2. QED
    BY <1>2, <2>1
<1>6. \A i \in 1..Len(r) : \/ i \in 1..Len(q)
                           \/ i = Len(q) + 1
                           \/ i = Len(q) + 2 /\ n = 2
  BY <1>2
<1>7. <<c, 1>> \in Ops /\ <<c, 2>> \in Ops /\ <<c, 1>> # <<c, 2>>
  BY DEF Ops
<1>8. /\ ~OpIn(<<c, 1>>, q) /\ ~OpOf(<<c, 1>>, k) /\ ~In(<<c, 1>>, p)
      /\ ~OpIn(<<c, 2>>, q) /\ ~OpOf(<<c, 2>>, k) /\ ~In(<<c, 2>>, p)
  BY <1>7, FlyingMeans
<1>9. \A x : OpIn(x, r) <=> OpIn(x, q) \/ x = <<c, 1>> \/ (n = 2 /\ x = <<c, 2>>)
  BY EntriesIn
<1>10. OpsDistinct(Ops, r)
  <2> SUFFICES ASSUME NEW i \in 1..Len(r), NEW j \in 1..Len(r), r[i].op = r[j].op, r[i].op \in Ops
               PROVE  i = j
    BY DEF OpsDistinct
  <2>1. CASE i \in 1..Len(q) /\ j \in 1..Len(q)
    BY <1>3, <2>1 DEF EntriesApart, OpsDistinct
  <2>2. ASSUME NEW a \in 1..Len(q), NEW z \in 1..Len(r), r[a].op = r[z].op, z \notin 1..Len(q)
        PROVE  FALSE
    <3>1. z = Len(q) + 1 \/ (z = Len(q) + 2 /\ n = 2)
      BY <1>6, <2>2
    <3>2. r[z].op = <<c, 1>> \/ r[z].op = <<c, 2>>
      BY <1>1, <1>4, <1>5, <3>1
    <3>3. q[a].op = <<c, 1>> \/ q[a].op = <<c, 2>>
      BY <1>3, <2>2, <3>2
    <3>4. QED
      BY <1>8, <3>3 DEF OpIn
  <2>3. CASE i \notin 1..Len(q) /\ j \notin 1..Len(q)
    BY <1>1, <1>4, <1>5, <1>6, <1>7, <2>3
  <2>4. QED
    BY <2>1, <2>2, <2>3
<1>11. EntriesApart(r, k, p)
  BY <1>8, <1>9, <1>10 DEF EntriesApart
<1>13. ASSUME NEW i \in 1..Len(r), r[i].link
       PROVE  r[i].op \in Coro \X {1}
  <2>1. CASE i \in 1..Len(q)
    BY <1>3, <1>13, <2>1 DEF ChainsLinked
  <2>2. CASE i = Len(q) + 1
    <3>1. <<c, 1>> \in Coro \X {1}
      OBVIOUS
    <3>2. QED
      BY <1>1, <1>4, <2>2, <3>1
  <2>3. QED
    BY <1>1, <1>5, <1>6, <1>13, <2>1, <2>2
<1>14. ASSUME NEW d \in Coro, Len(v[d]) = 2
       PROVE  /\ \A i \in 1..Len(r) : r[i].op = <<d, 1>> => r[i].link /\ OpIn(<<d, 2>>, r)
              /\ \A f \in k : f.op = <<d, 1>> => f.link /\ OpOf(<<d, 2>>, k)
              /\ OrderIn(<<d, 1>>, <<d, 2>>, p)
  <2>1. CASE d = c
    <3>1. n = 2
      BY <1>14, <2>1
    <3>2. ASSUME NEW i \in 1..Len(r), r[i].op = <<c, 1>>
          PROVE  r[i].link /\ OpIn(<<c, 2>>, r)
      <4>1. i \notin 1..Len(q)
        BY <1>3, <1>8, <3>2 DEF OpIn
      <4>2. QED
        BY <1>1, <1>4, <1>5, <1>6, <1>7, <1>9, <3>1, <3>2, <4>1
    <3>3. QED
      BY <1>8, <2>1, <3>2 DEF OpOf, OrderIn, In
  <2>2. CASE d # c
    <3>1. Len(w[d]) = 2
      BY <1>14, <2>2
    <3>2. ASSUME NEW i \in 1..Len(r), r[i].op = <<d, 1>>
          PROVE  i \in 1..Len(q) /\ r[i] = q[i]
      BY <1>1, <1>3, <1>4, <1>5, <1>6, <2>2, <3>2
    <3>3. QED
      BY <1>9, <3>1, <3>2 DEF ChainsLinked
  <2>3. QED
    BY <2>1, <2>2
<1>15. \A f \in k : f.link => f.op \in Coro \X {1}
  BY DEF ChainsLinked
<1>16. ChainsLinked(v, r, k, p)
  BY <1>13, <1>14, <1>15 DEF ChainsLinked
<1>17. QED
  BY <1>11, <1>16

-----------------------------------------------------------------------------
(* io_uring: the steps.                                                     *)

\* What is in flight stays so, and nobody begins or ceases to wait.
LEMMA UringMoved ==
  ASSUME UringOK, Types', UringTypes', Suspended' = Suspended,
         UNCHANGED <<awaits, reap>>, Defined' => Defined,
         Defined => /\ EntriesApart(sq', kern', cq')
                    /\ ChainsLinked(awaits, sq', kern', cq')
                    /\ Flying(sq', kern', cq') = Flying(sq, kern, cq)
  PROVE  UringOK'
<1>1. ASSUME Defined'
      PROVE  UringInv'
  <2>1. Defined /\ UringInv
    BY <1>1 DEF UringOK
  <2>2. EntriesApart(sq, kern, cq)' /\ ChainsLinked(awaits, sq, kern, cq)'
    <3>1. EntriesApart(sq', kern', cq') /\ ChainsLinked(awaits', sq', kern', cq')
      BY <2>1
    <3>2. QED
      BY <3>1 DEF EntriesApart, ChainsLinked, OpOf, OpIn, In, OrderIn, OpsDistinct, Distinct
  <2>3. UringWaits(Flying(sq, kern, cq))
    BY <2>1 DEF UringInv
  <2>4. UringWaits(Flying(sq, kern, cq))'
    <3>1. Flying(sq, kern, cq)' = Flying(sq', kern', cq')
      BY DEF Flying, OpIn, OpOf, In
    <3>2. Flying(sq, kern, cq)' = Flying(sq, kern, cq)
      BY <2>1, <3>1
    <3>3. QED
      BY <2>3, <3>2 DEF UringWaits
  <2>5. QED
    BY <2>2, <2>4 DEF UringInv
<1>2. QED
  BY <1>1 DEF UringOK

LEMMA UringLoopStep ==
  ASSUME UringOK, Types', UringTypes', Suspended' = Suspended, Defined' => Defined,
         UNCHANGED <<sq, kern, cq, awaits, reap>>
  PROVE  UringOK'
<1>1. /\ EntriesApart(sq, kern, cq) <=> EntriesApart(sq', kern', cq')
      /\ ChainsLinked(awaits, sq, kern, cq) <=> ChainsLinked(awaits, sq', kern', cq')
      /\ Flying(sq', kern', cq') = Flying(sq, kern, cq)
  OBVIOUS
<1>2. QED
  BY <1>1, UringMoved DEF UringOK, UringInv

\* The kernel takes the entries q, or they stay.
LEMMA SubmitsStep ==
  ASSUME NEW q \in Seq(Sqes), UringTypes, Len(q) <= Entries, NEW p \in Seq(Woken),
         Submits(q)
  PROVE  /\ sq' \in Seq(Sqes) /\ Len(sq') <= Entries
         /\ kern' \subseteq Sqes /\ fails' \in 0..MaxFail
         /\ EntriesApart(q, kern, p) /\ ChainsLinked(awaits, q, kern, p)
            => /\ EntriesApart(sq', kern', p) /\ ChainsLinked(awaits, sq', kern', p)
               /\ Flying(sq', kern', p) = Flying(q, kern, p)
<1> USE UringAssumption
<1>1. CASE kern' = kern \cup ToSet(q) /\ sq' = <<>> /\ UNCHANGED fails
  <2>1. sq' \in Seq(Sqes) /\ Len(sq') = 0
    BY <1>1, EmptySeq
  <2>2. EntriesApart(q, kern, p) /\ ChainsLinked(awaits, q, kern, p)
        => /\ EntriesApart(sq', kern', p) /\ ChainsLinked(awaits, sq', kern', p)
           /\ Flying(sq', kern', p) = Flying(q, kern, p)
    <3>1. kern \in SUBSET Sqes
      BY DEF UringTypes
    <3>2. ASSUME EntriesApart(q, kern, p), ChainsLinked(awaits, q, kern, p),
                 NEW l, l = kern \cup ToSet(q)
          PROVE  /\ EntriesApart(<<>>, l, p) /\ ChainsLinked(awaits, <<>>, l, p)
                 /\ Flying(<<>>, l, p) = Flying(q, kern, p)
      BY <3>1, <3>2, Submitted, SubmittedFly
    <3>3. sq' = <<>> /\ kern' = kern \cup ToSet(q)
      BY <1>1
    <3>4. QED
      BY <3>2, <3>3
  <2>3. kern' \subseteq Sqes
    BY <1>1, SetOfSeq DEF UringTypes
  <2>4. QED
    BY <1>1, <2>1, <2>2, <2>3 DEF UringTypes
<1>2. CASE fails < MaxFail /\ fails' = fails + 1 /\ sq' = q /\ UNCHANGED kern
  <2>1. fails' \in 0..MaxFail
    BY <1>2 DEF UringTypes
  <2>2. QED
    BY <1>2, <2>1 DEF UringTypes
<1>3. QED
  BY <1>1, <1>2 DEF Submits

LEMMA PollSubmissionStep == ASSUME UringOK, PollSubmission PROVE UringOK'
<1>1. /\ at = "submit" /\ at' = "complete" /\ toSubmit' = 0
      /\ UNCHANGED <<ring, cross, out, ended, stop, waking, awaits, reap, cq, efd>>
  BY DEF PollSubmission, queues
<1>2. Types' /\ Suspended' = Suspended
  BY <1>1, CorosFramed DEF UringOK, Types, LoopTypes, Places
<1>3. CASE UNCHANGED <<sq, kern, fails>>
  BY <1>1, <1>2, <1>3, UringLoopStep DEF UringOK, UringTypes, Defined
<1>4. CASE Submits(sq)
  <2>1. /\ sq' \in Seq(Sqes) /\ Len(sq') <= Entries
        /\ kern' \subseteq Sqes /\ fails' \in 0..MaxFail
        /\ EntriesApart(sq, kern, cq) /\ ChainsLinked(awaits, sq, kern, cq)
           => /\ EntriesApart(sq', kern', cq) /\ ChainsLinked(awaits, sq', kern', cq)
              /\ Flying(sq', kern', cq) = Flying(sq, kern, cq)
    BY <1>4, SubmitsStep DEF UringOK, UringTypes
  <2>2. UringTypes'
    BY <1>1, <2>1 DEF UringOK, UringTypes
  <2>3. cq' = cq /\ Defined
    BY <1>1 DEF Defined
  <2>4. QED
    BY <1>1, <1>2, <2>1, <2>2, <2>3, UringMoved DEF UringOK, UringInv
<1>5. QED
  BY <1>3, <1>4 DEF PollSubmission

LEMMA WaitSubmitStep == ASSUME UringOK, WaitSubmit PROVE UringOK'
<1>1. /\ at = "wait" /\ at' \in {"drain", "wait"} /\ Submits(sq)
      /\ UNCHANGED <<ring, cross, out, ended, stop, waking, awaits, reap, toSubmit, cq, efd>>
  BY DEF WaitSubmit, queues
<1>2. Types' /\ Suspended' = Suspended
  BY <1>1, CorosFramed DEF UringOK, Types, LoopTypes, Places
<1>3. /\ sq' \in Seq(Sqes) /\ Len(sq') <= Entries
      /\ kern' \subseteq Sqes /\ fails' \in 0..MaxFail
      /\ EntriesApart(sq, kern, cq) /\ ChainsLinked(awaits, sq, kern, cq)
         => /\ EntriesApart(sq', kern', cq) /\ ChainsLinked(awaits, sq', kern', cq)
            /\ Flying(sq', kern', cq) = Flying(sq, kern, cq)
  BY <1>1, SubmitsStep DEF UringOK, UringTypes
<1>4. UringTypes'
  BY <1>1, <1>3 DEF UringOK, UringTypes
<1>5. cq' = cq /\ Defined
  BY <1>1 DEF Defined
<1>6. QED
  BY <1>1, <1>2, <1>3, <1>4, <1>5, UringMoved DEF UringOK, UringInv

LEMMA TakeWakeStep == ASSUME UringOK, TakeWake PROVE UringOK'
<1>1. /\ at = "wait" /\ cq # <<>> /\ Head(cq) = Wake /\ cq' = Tail(cq) /\ at' = "drain"
      /\ UNCHANGED <<ring, cross, out, ended, stop, waking, awaits, reap, toSubmit, efd>>
  BY DEF TakeWake, queues
<1>2. Types' /\ Suspended' = Suspended
  BY <1>1, CorosFramed DEF UringOK, Types, LoopTypes, Places
<1>3. Defined /\ UringInv /\ UringTypes
  BY <1>1 DEF UringOK, Defined
<1>4. /\ cq' \in Seq(Woken)
      /\ EntriesApart(sq, kern, cq') /\ ChainsLinked(awaits, sq, kern, cq')
      /\ Flying(sq, kern, cq') = Flying(sq, kern, cq)
  BY <1>1, <1>3, WakeHeard DEF UringInv, UringTypes
<1>5. CASE UNCHANGED <<sq, kern, fails>>
  <2>1. UringTypes'
    BY <1>1, <1>3, <1>4, <1>5 DEF UringTypes
  <2>2. QED
    BY <1>1, <1>2, <1>3, <1>4, <1>5, <2>1, UringMoved
<1>6. CASE Len(sq) < Entries /\ Submits(Append(sq, Entry(Wake)))
  <2> DEFINE q == Append(sq, Entry(Wake))
  <2>1. /\ q \in Seq(Sqes) /\ Len(q) = Len(sq) + 1
        /\ EntriesApart(q, kern, cq') /\ ChainsLinked(awaits, q, kern, cq')
        /\ Flying(q, kern, cq') = Flying(sq, kern, cq')
    <3>1. sq \in Seq(Sqes) /\ kern \in SUBSET Sqes
      BY <1>3 DEF UringTypes
    <3>2. QED
      BY <1>4, <3>1, WakeListed
  <2>2. Len(q) <= Entries
    BY <1>3, <1>6, <2>1, UringAssumption, LenProperties DEF UringTypes
  <2> HIDE DEF q
  <2>3. /\ sq' \in Seq(Sqes) /\ Len(sq') <= Entries
        /\ kern' \subseteq Sqes /\ fails' \in 0..MaxFail
        /\ EntriesApart(sq', kern', cq') /\ ChainsLinked(awaits, sq', kern', cq')
        /\ Flying(sq', kern', cq') = Flying(q, kern, cq')
    BY <1>3, <1>4, <1>6, <2>1, <2>2, SubmitsStep DEF q
  <2>4. UringTypes'
    BY <1>1, <1>3, <1>4, <2>3 DEF UringTypes
  <2>5. QED
    BY <1>1, <1>2, <1>3, <1>4, <2>1, <2>3, <2>4, UringMoved
<1>7. QED
  BY <1>5, <1>6 DEF TakeWake

\* The invariant of the next state, from its parts.
LEMMA UringInvNext ==
  ASSUME EntriesApart(sq', kern', cq'), ChainsLinked(awaits', sq', kern', cq'),
         NEW F, F = Flying(sq', kern', cq'),
         NEW S, S = Suspended',
         \A x \in F : x[1] \in S /\ x[2] <= Len(awaits'[x[1]]),
         \A c \in S : Len(awaits'[c]) # 0 /\ <<c, Len(awaits'[c])>> \in F,
         IsFiniteSet(F), reap' = Cardinality(F)
  PROVE  UringInv'
<1>1. EntriesApart(sq, kern, cq)' /\ ChainsLinked(awaits, sq, kern, cq)'
  BY DEF EntriesApart, ChainsLinked, OpOf, OpIn, In, OrderIn, OpsDistinct, Distinct
<1>2. Flying(sq, kern, cq)' = F
  BY DEF Flying, OpIn, OpOf, In
<1>3. UringWaits(Flying(sq, kern, cq))'
  BY <1>2 DEF UringWaits
<1>4. QED
  BY <1>1, <1>3 DEF UringInv

\* A coroutine begins to wait for all of its operations.
LEMMA UringAwaitStep ==
  ASSUME UringOK, NEW c \in Coro, NEW e \in UringExpr, UringAwait(c, e)
  PROVE  UringOK'
<1> DEFINE b == [k \in DOMAIN e |-> Entry(<<c, k>>)]
           m == Linked(b)
<1>1. /\ Resumes(c) /\ UNCHANGED <<cross, out, ended, stop, waking>>
      /\ at \in {"work", "residue"}
  BY DEF UringAwait, Resumes
<1>2. Defined /\ UringInv /\ UringTypes /\ Types /\ LoopTypes
  BY <1>1 DEF UringOK, Types, Defined
<1>3. /\ ring' \in Seq(Coro) /\ CorosApart' /\ c \notin Suspended
      /\ LoopTypes' => Suspended' = Suspended \cup {c}
  BY <1>1, <1>2, ResumeStep
<1>4. CASE at' = "undefined" /\ UNCHANGED <<cross, out, ended, stop, waking, awaits, reap, uringVars>>
  <2>1. LoopTypes'
    BY <1>2, <1>3, <1>4 DEF LoopTypes, Places
  <2>2. UringTypes'
    BY <1>2, <1>4 DEF UringTypes, uringVars
  <2>3. ~Defined'
    BY <1>4 DEF Defined
  <2>4. QED
    BY <1>3, <2>1, <2>2, <2>3 DEF UringOK, Types
<1>5. CASE /\ ~(Len(sq) + Len(b) > Entries) /\ sq' = sq \o m
           /\ awaits' = [awaits EXCEPT ![c] = e]
           /\ reap' = reap + Len(b) /\ toSubmit' = toSubmit + Len(b)
           /\ UNCHANGED <<at, kern, cq, efd, fails>>
  <2>1. PICK n \in {1, 2} : Len(e) = n
    BY UringAssumption
  <2>2. e \in Seq(Kind)
    BY UringAssumption DEF Kind
  <2>3. DOMAIN e = 1..n
    BY <2>1, <2>2, LenProperties
  <2>4. /\ b \in Seq(Sqes) /\ Len(b) = n
        /\ b[1] = Entry(<<c, 1>>) /\ (n = 2 => b[2] = Entry(<<c, 2>>))
    <3>1. \A k \in {1, 2} : Entry(<<c, k>>) \in Sqes
      BY DEF Entry, Sqes, Woken, Ops
    <3>2. \A k \in 1..n : k \in {1, 2}
      OBVIOUS
    <3>3. b \in [1..n -> Sqes]
      BY <2>3, <3>1, <3>2
    <3>4. b \in Seq(Sqes)
      BY <2>3, <3>3, SeqDef
    <3>5. QED
      BY <2>3, <3>4
  <2>5. Made(c, n, m)
    <3> HIDE DEF b
    <3>1. QED
      BY <2>4, EntriesMade
  <2> HIDE DEF m, b
  <2> DEFINE F == Flying(sq, kern, cq)
  <2>6. <<c, 1>> \notin F /\ <<c, 2>> \notin F
    BY <1>2, <1>3 DEF UringInv, UringWaits
  <2>7. /\ sq \in Seq(Sqes) /\ kern \in SUBSET Sqes /\ cq \in Seq(Woken)
        /\ awaits \in [Coro -> Seq(Kind)] /\ Len(sq) \in Nat
    BY <1>2, LenProperties DEF UringTypes, LoopTypes
  <2>8. /\ sq' \in Seq(Sqes) /\ Len(sq') = Len(sq) + n
        /\ EntriesApart(sq', kern, cq) /\ ChainsLinked(awaits', sq', kern, cq)
        /\ Flying(sq', kern, cq) = F \cup OpsOf(c, n)
    <3> DEFINE q == sq \o m
               v == [awaits EXCEPT ![c] = e]
    <3>1. sq' = q /\ awaits' = v
      BY <1>5
    <3>2. /\ q \in Seq(Sqes) /\ Len(q) = Len(sq) + n
          /\ Flying(q, kern, cq) = F \cup OpsOf(c, n)
      BY <2>5, <2>7, EntriesIn, EntriesFly
    <3>3. EntriesApart(q, kern, cq) /\ ChainsLinked(v, q, kern, cq)
      BY <1>2, <2>1, <2>2, <2>5, <2>6, <2>7, EntriesAdded DEF UringInv
    <3> HIDE DEF q, v
    <3>4. QED
      BY <3>1, <3>2, <3>3
  <2>9. UringTypes'
    BY <1>2, <1>5, <2>4, <2>7, <2>8, UringAssumption DEF UringTypes
  <2>10. /\ awaits'[c] = e /\ \A d \in Coro : d # c => awaits'[d] = awaits[d]
         /\ awaits' \in [Coro -> Seq(Kind)]
    BY <1>5, <2>2, <2>7
  <2>11. LoopTypes'
    <3>1. \A d \in Coro : Len(awaits'[d]) \in 0..2
      <4>1. Len(awaits'[c]) \in 0..2
        BY <2>1, <2>10
      <4>2. QED
        BY <1>2, <2>10, <4>1 DEF LoopTypes
    <3>2. reap' \in Nat
      BY <1>2, <1>5, <2>4 DEF LoopTypes
    <3>3. QED
      BY <3>1, <3>2, <1>1, <1>2, <1>3, <1>5, <2>1, <2>5, <2>10 DEF LoopTypes
  <2> HIDE DEF F
  <2>12. IsFiniteSet(F) /\ reap = Cardinality(F) /\ reap \in Nat
    BY <1>2 DEF UringInv, UringWaits, LoopTypes, F
  <2> DEFINE G == F \cup OpsOf(c, n)
  <2>13. IsFiniteSet(G) /\ reap' = Cardinality(G)
    <3>1. reap' = reap + n
      BY <1>5, <2>4
    <3> DEFINE H == F \cup {<<c, 1>>}
    <3>2. IsFiniteSet(H) /\ Cardinality(H) = reap + 1
      BY <2>6, <2>12, FS_AddElement DEF F
    <3>3. n = 1 => G = H
      BY DEF OpsOf
    <3>4. n = 2 => G = H \cup {<<c, 2>>} /\ <<c, 2>> \notin H
      BY <2>6 DEF OpsOf, F
    <3> HIDE DEF G, H
    <3>5. n = 2 => IsFiniteSet(G) /\ Cardinality(G) = (reap + 1) + 1
      BY <3>2, <3>4, FS_AddElement
    <3>6. QED
      BY <2>12, <3>1, <3>2, <3>3, <3>5
  <2>14. \A x \in G : x[1] \in Suspended' /\ x[2] <= Len(awaits'[x[1]])
    <3> SUFFICES ASSUME NEW x \in G
                 PROVE  x[1] \in Suspended' /\ x[2] <= Len(awaits'[x[1]])
      OBVIOUS
    <3>1. CASE x \in F
      <4>1. x[1] \in Suspended /\ x[2] <= Len(awaits[x[1]])
        BY <1>2, <3>1 DEF UringInv, UringWaits, F
      <4>2. x[1] \in Coro /\ x[1] # c
        BY <1>2, <1>3, <4>1 DEF Suspended
      <4>3. QED
        BY <1>3, <2>10, <2>11, <4>1, <4>2
    <3>2. CASE x \in OpsOf(c, n)
      <4>1. PICK j \in 1..n : x = <<c, j>>
        BY <3>2 DEF OpsOf
      <4>2. x[1] = c /\ x[2] = j /\ j <= n
        BY <2>1, <4>1
      <4>3. QED
        BY <1>3, <2>1, <2>10, <2>11, <4>2
    <3>3. QED
      BY <3>1, <3>2
  <2>15. \A d \in Suspended' : Len(awaits'[d]) # 0 /\ <<d, Len(awaits'[d])>> \in G
    <3> SUFFICES ASSUME NEW d \in Suspended'
                 PROVE  Len(awaits'[d]) # 0 /\ <<d, Len(awaits'[d])>> \in G
      OBVIOUS
    <3>1. CASE d = c
      <4>1. Len(awaits'[d]) = n /\ n # 0 /\ n \in 1..n
        BY <2>1, <2>10, <3>1
      <4>2. QED
        BY <3>1, <4>1 DEF OpsOf
    <3>2. CASE d # c
      <4>1. d \in Suspended /\ d \in Coro
        BY <1>3, <2>11, <3>2 DEF Suspended
      <4>2. QED
        BY <1>2, <2>10, <3>2, <4>1 DEF UringInv, UringWaits, F
    <3>3. QED
      BY <3>1, <3>2
  <2>16. /\ EntriesApart(sq', kern', cq') /\ ChainsLinked(awaits', sq', kern', cq')
         /\ G = Flying(sq', kern', cq')
    BY <1>5, <2>8
  <2> HIDE DEF G
  <2>17. UringInv'
    BY <2>13, <2>14, <2>15, <2>16, UringInvNext
  <2>18. QED
    BY <1>3, <2>9, <2>11, <2>17 DEF UringOK, Types
<1>6. QED
  BY <1>4, <1>5 DEF UringAwait, uringVars, device

LEMMA TakeCompletionStep == ASSUME UringOK, TakeCompletion PROVE UringOK'
<1> DEFINE x == Head(cq)
           c == x[1]
           F == Flying(sq, kern, cq)
<1>1. /\ at = "wait" /\ cq # <<>> /\ x # Wake /\ cq' = Tail(cq) /\ at' = "drain"
      /\ reap' = reap - 1
      /\ IF x[2] = Len(awaits[c]) THEN Awakens(c) ELSE UNCHANGED <<ring, awaits>>
      /\ UNCHANGED <<cross, out, ended, stop, waking, sq, toSubmit, kern, efd, fails>>
  BY DEF TakeCompletion
<1>2. Defined /\ UringInv /\ UringTypes /\ Types /\ LoopTypes
  BY <1>1 DEF UringOK, Types, Defined
<1>3. /\ sq \in Seq(Sqes) /\ kern \in SUBSET Sqes /\ cq \in Seq(Woken)
      /\ awaits \in [Coro -> Seq(Kind)] /\ \A d \in Coro : Len(awaits[d]) \in 0..2
      /\ EntriesApart(sq, kern, cq) /\ ChainsLinked(awaits, sq, kern, cq)
  BY <1>2 DEF UringTypes, LoopTypes, UringInv
<1>4. x \in Ops
  BY <1>1, <1>3, Popped DEF Woken
<1>5. x = <<c, x[2]>> /\ c \in Coro /\ x[2] \in {1, 2}
  BY <1>4 DEF Ops
<1>6. /\ cq' \in Seq(Woken)
      /\ EntriesApart(sq, kern, cq') /\ ChainsLinked(awaits, sq, kern, cq')
      /\ x \in F /\ Flying(sq, kern, cq') = F \ {x}
      /\ \A d \in Coro : x = <<d, 2>> /\ Len(awaits[d]) = 2 => <<d, 1>> \notin F
  BY <1>1, <1>3, <1>4, Taken, TakenFly
<1>7. /\ \A y \in F : y[1] \in Suspended /\ y[2] <= Len(awaits[y[1]]) /\ y \in Ops
      /\ \A d \in Suspended : Len(awaits[d]) # 0 /\ <<d, Len(awaits[d])>> \in F
      /\ IsFiniteSet(F) /\ reap = Cardinality(F)
  BY <1>2 DEF UringInv, UringWaits, Flying
<1> DEFINE G == F \ {x}
<1> HIDE DEF x, F
<1>8. IsFiniteSet(G) /\ reap' = Cardinality(G) /\ reap' \in Nat
  <2>1. IsFiniteSet(G) /\ Cardinality(G) = Cardinality(F) - 1
    BY <1>6, <1>7, FS_RemoveElement
  <2>2. Cardinality(G) \in Nat
    BY <2>1, FS_CardinalityType
  <2>3. QED
    BY <1>1, <1>7, <2>1, <2>2
<1>9. UringTypes'
  BY <1>1, <1>2, <1>6 DEF UringTypes
<1>10. G = Flying(sq', kern', cq')
  BY <1>1, <1>6
<1>11. CASE x[2] = Len(awaits[c])
  <2>1. c \in Suspended /\ Awakens(c)
    BY <1>1, <1>6, <1>7, <1>11
  <2>2. LoopTypes' /\ CorosApart' /\ Suspended' = Suspended \ {c}
    BY <1>1, <1>2, <1>8, <2>1, AwakenStep DEF Places
  <2>3. awaits'[c] = <<>> /\ \A d \in Coro : d # c => awaits'[d] = awaits[d]
    BY <1>3, <1>5, <2>1 DEF Awakens
  <2>4. Len(awaits'[c]) # 2
    BY <2>3
  <2>5. EntriesApart(sq', kern', cq') /\ ChainsLinked(awaits', sq', kern', cq')
    <3>1. ChainsLinked(awaits', sq, kern, cq')
      <4>1. ASSUME NEW w, NEW v, NEW p, ChainsLinked(w, sq, kern, p),
                   \A d \in Coro : Len(v[d]) = 2 => Len(w[d]) = 2
            PROVE  ChainsLinked(v, sq, kern, p)
        BY <4>1 DEF ChainsLinked
      <4>2. \A d \in Coro : Len(awaits'[d]) = 2 => Len(awaits[d]) = 2
        BY <2>3, <2>4
      <4>3. QED
        BY <1>6, <4>1, <4>2
    <3>2. QED
      BY <1>1, <1>6, <3>1
  <2>6. ASSUME NEW y \in G
        PROVE  y[1] \in Suspended' /\ y[2] <= Len(awaits'[y[1]])
    <3>1. y \in Ops /\ y[1] \in Suspended /\ y[2] <= Len(awaits[y[1]])
      BY <1>7
    <3>2. y = <<y[1], y[2]>> /\ y[1] \in Coro /\ y[2] \in {1, 2}
      BY <3>1 DEF Ops
    <3>3. y[1] # c
      <4>1. SUFFICES ASSUME y[1] = c
                     PROVE  FALSE
        OBVIOUS
      <4>2. y[2] # x[2]
        BY <1>5, <3>2, <4>1
      <4>3. y[2] = 1 /\ x[2] = 2
        <5>1. y[2] <= x[2]
          BY <1>11, <3>1, <4>1
        <5>2. QED
          BY <1>5, <3>2, <4>2, <5>1
      <4>4. QED
        BY <1>5, <1>6, <1>11, <3>2, <4>1, <4>3
    <3>4. QED
      BY <2>2, <2>3, <3>1, <3>2, <3>3
  <2>7. \A d \in Suspended' : Len(awaits'[d]) # 0 /\ <<d, Len(awaits'[d])>> \in G
    BY <1>5, <1>7, <2>2, <2>3 DEF Suspended
  <2>8. UringInv'
    BY <1>8, <1>10, <2>5, <2>6, <2>7, UringInvNext
  <2>9. QED
    BY <1>9, <2>2, <2>8 DEF UringOK, Types
<1>12. CASE x[2] # Len(awaits[c])
  <2>1. UNCHANGED <<ring, awaits>>
    BY <1>1, <1>12
  <2>2. CorosApart' /\ Suspended' = Suspended
    BY <1>1, <1>2, <2>1, CorosFramed
  <2>3. LoopTypes'
    BY <1>1, <1>2, <1>8, <2>1 DEF LoopTypes, Places
  <2>4. EntriesApart(sq', kern', cq') /\ ChainsLinked(awaits', sq', kern', cq')
    BY <1>1, <1>6, <2>1
  <2>5. \A y \in G : y[1] \in Suspended' /\ y[2] <= Len(awaits'[y[1]])
    BY <1>7, <2>1, <2>2
  <2>6. \A d \in Suspended' : Len(awaits'[d]) # 0 /\ <<d, Len(awaits'[d])>> \in G
    <3> SUFFICES ASSUME NEW d \in Suspended
                 PROVE  <<d, Len(awaits[d])>> # x
      BY <1>7, <2>1, <2>2
    <3>1. QED
      BY <1>12
  <2>7. UringInv'
    BY <1>8, <1>10, <2>4, <2>5, <2>6, UringInvNext
  <2>8. QED
    BY <1>9, <2>2, <2>3, <2>7 DEF UringOK, Types
<1>13. QED
  BY <1>11, <1>12

\* Completions posted together are posted one by one.
LEMMA PostedTogether ==
  ASSUME NEW S, NEW p \in Seq(S), NEW x \in S, NEW y \in S, NEW n \in Nat
  PROVE  LET r == p \o <<x>> \o [i \in 1..n |-> y] IN
         /\ r \in Seq(S)
         /\ \A z : In(z, p) => In(z, r)
         /\ n = 0 => r = Append(p, x)
         /\ n = 1 => r = Append(Append(p, x), y)
<1> DEFINE t == [i \in 1..n |-> y]
           a == Append(p, x)
<1>1. t \in Seq(S) /\ Len(t) = n
  <2>1. t \in [1..n -> S]
    OBVIOUS
  <2>2. QED
    BY <2>1, SeqDef
<1>2. p \o <<x>> = a /\ a \in Seq(S)
  BY AppendProperties
<1>3. a \o t \in Seq(S)
  BY <1>1, <1>2, ConcatProperties
<1>7. ASSUME NEW z, In(z, p)
      PROVE  In(z, a \o t)
  <2>1. PICK i \in 1..Len(p) : p[i] = z
    BY <1>7 DEF In
  <2>2. Len(a) = Len(p) + 1 /\ Len(p) \in Nat /\ a[i] = z
    BY <2>1, AppendProperties, LenProperties
  <2>3. i \in 1..Len(a \o t) /\ (a \o t)[i] = z
    BY <1>1, <1>2, <2>2, ConcatProperties
  <2>4. QED
    BY <2>3 DEF In
<1>4. ASSUME n = 0
      PROVE  a \o t = a
  <2>1. t = <<>>
    BY <1>1, <1>4, EmptySeq
  <2>2. QED
    BY <1>2, <2>1, ConcatEmptySeq
<1>5. ASSUME n = 1
      PROVE  a \o t = Append(a, y)
  <2>1. t = <<y>>
    <3>1. <<y>> \in Seq(S) /\ Len(<<y>>) = 1 /\ <<y>>[1] = y
      OBVIOUS
    <3>2. t[1] = y
      BY <1>5
    <3> HIDE DEF t
    <3>3. \A i \in 1..Len(t) : t[i] = <<y>>[i]
      BY <1>1, <1>5, <3>1, <3>2
    <3>4. QED
      BY <1>1, <1>5, <3>1, <3>3, SeqEqual
  <2>2. a \o <<y>> = Append(a, y)
    BY <1>2, AppendProperties
  <2>3. QED
    BY <2>1, <2>2
<1> HIDE DEF t, a
<1>6. QED
  BY <1>2, <1>3, <1>4, <1>5, <1>7 DEF t, a

\* No more than two entries could be cancelled.
LEMMA CancelledFew ==
  ASSUME UringTypes, NEW e \in kern, e.op # Wake, NEW ok \in BOOLEAN
  PROVE  Cardinality(IF ok THEN {} ELSE Follower(e)) \in Nat
<1> DEFINE y == <<e.op[1], 2>>
           cancelled == IF ok THEN {} ELSE Follower(e)
           T == {[op |-> y, link |-> TRUE], [op |-> y, link |-> FALSE]}
<1>1. cancelled \subseteq T
  <2> SUFFICES ASSUME NEW d \in cancelled
               PROVE  d \in T
    OBVIOUS
  <2>1. d \in Sqes /\ d.op = y
    BY DEF Follower, UringTypes
  <2>2. d = [op |-> d.op, link |-> d.link] /\ d.link \in BOOLEAN
    BY <2>1 DEF Sqes
  <2>3. QED
    BY <2>1, <2>2
<1>2. IsFiniteSet(T)
  <2> DEFINE a == [op |-> y, link |-> TRUE]
             b == [op |-> y, link |-> FALSE]
  <2>1. T = {a} \cup {b}
    OBVIOUS
  <2> HIDE DEF T, a, b
  <2>2. IsFiniteSet({a} \cup {b})
    BY FS_Singleton, FS_AddElement
  <2>3. QED
    BY <2>1, <2>2
<1>3. IsFiniteSet(cancelled)
  BY <1>1, <1>2, FS_Subset
<1>4. QED
  BY <1>3, FS_CardinalityType

LEMMA KernelCompletesStep ==
  ASSUME UringOK, NEW e \in kern, NEW ok \in BOOLEAN, KernelCompletes(e, ok)
  PROVE  UringOK'
<1> DEFINE c == e.op[1]
           y == <<c, 2>>
           cancelled == IF ok THEN {} ELSE Follower(e)
           n == Cardinality(cancelled)
<1>1. /\ e.op # Wake /\ Started(e)
      /\ kern' = kern \ ({e} \cup cancelled)
      /\ cq' = cq \o <<e.op>> \o [i \in 1..n |-> y]
      /\ UNCHANGED <<loopVars, sq, toSubmit, efd, fails>>
  BY DEF KernelCompletes
<1>2. /\ Types /\ UringTypes /\ kern \in SUBSET Sqes /\ sq \in Seq(Sqes) /\ cq \in Seq(Woken)
  BY DEF UringOK, UringTypes
<1>3. e \in Sqes /\ e.op \in Ops
  BY <1>1, <1>2 DEF Sqes, Woken
<1>4. c \in Coro /\ y \in Ops /\ e.op \in Woken /\ y \in Woken
  BY <1>3 DEF Ops, Woken
<1>5. /\ cancelled \subseteq kern
      /\ \A d \in cancelled : e.link /\ d.op = y
  BY DEF Follower
<1>6. Types' /\ Suspended' = Suspended /\ UNCHANGED <<awaits, reap>>
      /\ UNCHANGED <<sq, toSubmit, efd, fails>>
  <2>1. UNCHANGED <<at, ring, cross, out, ended, stop, waking, awaits, reap>>
    BY <1>1 DEF loopVars
  <2>2. CorosApart' /\ Suspended' = Suspended
    BY <1>2, <2>1, CorosFramed
  <2>3. LoopTypes'
    BY <1>2, <2>1 DEF Types, LoopTypes
  <2>4. QED
    BY <1>1, <2>1, <2>2, <2>3 DEF Types
<1>7. Defined' <=> Defined
  BY <1>1 DEF Defined, loopVars
<1>8. n \in Nat
  BY <1>1, <1>2, CancelledFew
<1> HIDE DEF c, y, cancelled
<1>9. /\ cq' \in Seq(Woken)
      /\ n = 0 => cq' = Append(cq, e.op)
      /\ n = 1 => cq' = Append(Append(cq, e.op), y)
  <2> HIDE DEF n
  <2>1. QED
    BY <1>1, <1>2, <1>4, <1>8, PostedTogether
<1>10. UringTypes'
  BY <1>1, <1>2, <1>6, <1>9 DEF UringTypes
<1>11. ASSUME Defined
       PROVE  /\ EntriesApart(sq', kern', cq')
              /\ ChainsLinked(awaits, sq', kern', cq')
              /\ Flying(sq', kern', cq') = Flying(sq, kern, cq)
  <2> DEFINE k == kern \ {e}
             p == Append(cq, e.op)
  <2>1. EntriesApart(sq, kern, cq) /\ ChainsLinked(awaits, sq, kern, cq)
    BY <1>11 DEF UringOK, UringInv
  <2>2. \A d \in kern : d.link => e.op # <<d.op[1], 2>>
    BY <1>1 DEF Started, Follower
  <2>3. /\ k \in SUBSET Sqes /\ p \in Seq(Woken)
        /\ EntriesApart(sq, k, p) /\ ChainsLinked(awaits, sq, k, p)
        /\ Flying(sq, k, p) = Flying(sq, kern, cq)
    BY <1>2, <1>3, <2>1, <2>2, Completed, CompletedFly
  <2>4. CASE cancelled = {}
    <3>1. n = 0
      BY <2>4, FS_EmptySet
    <3>2. kern' = k /\ cq' = p
      BY <1>1, <1>9, <2>4, <3>1
    <3>3. QED
      BY <1>6, <2>3, <3>2
  <2>5. CASE cancelled # {}
    <3>1. PICK d \in cancelled : TRUE
      BY <2>5
    <3>2. d \in kern /\ d.op = y /\ e.link
      BY <1>5, <3>1
    <3>3. cancelled = {d}
      BY <1>4, <1>5, <2>1, <3>1, <3>2 DEF EntriesApart
    <3>4. n = 1
      BY <3>3, FS_Singleton
    <3>5. e.op = <<c, 1>>
      <4>1. e.op \in Coro \X {1}
        BY <2>1, <3>2 DEF ChainsLinked
      <4>2. QED
        BY <4>1 DEF c
    <3>6. d # e /\ d \in k
      BY <3>2, <3>5 DEF y
    <3>7. \A f \in k : f.link => d.op # <<f.op[1], 2>>
      <4> SUFFICES ASSUME NEW f \in k, f.link, d.op = <<f.op[1], 2>>
                   PROVE  FALSE
        OBVIOUS
      <4>1. f \in kern /\ f # e /\ f.op \in Coro \X {1}
        BY <2>1 DEF ChainsLinked
      <4>2. f.op = <<c, 1>>
        BY <3>2, <4>1 DEF y
      <4>3. QED
        BY <1>3, <2>1, <3>5, <4>1, <4>2 DEF EntriesApart
    <3>8. kern' = k \ {d} /\ cq' = Append(p, d.op)
      BY <1>1, <1>9, <3>2, <3>3, <3>4
    <3> HIDE DEF k, p
    <3> DEFINE l == k \ {d}
               r == Append(p, d.op)
    <3>9. /\ EntriesApart(sq, l, r) /\ ChainsLinked(awaits, sq, l, r)
          /\ Flying(sq, l, r) = Flying(sq, k, p)
      BY <1>2, <1>4, <2>3, <3>2, <3>6, <3>7, Completed, CompletedFly
    <3> HIDE DEF l, r
    <3>10. QED
      BY <1>6, <2>3, <3>8, <3>9 DEF l, r
  <2>6. QED
    BY <2>4, <2>5
<1>12. QED
  BY <1>6, <1>7, <1>10, <1>11, UringMoved

LEMMA KernelWakesStep == ASSUME UringOK, KernelWakes PROVE UringOK'
<1> DEFINE l == kern \ {Entry(Wake)}
           r == Append(cq, Wake)
<1>1. kern' = l /\ cq' = r /\ efd' = FALSE /\ UNCHANGED <<loopVars, sq, toSubmit, fails>>
  BY DEF KernelWakes
<1>2. UNCHANGED <<at, ring, cross, out, ended, stop, waking, awaits, reap, sq>>
  BY <1>1 DEF loopVars
<1>3. Types' /\ Suspended' = Suspended
  BY <1>2, CorosFramed DEF UringOK, Types, LoopTypes
<1>4. /\ UringTypes /\ kern \in SUBSET Sqes /\ sq \in Seq(Sqes) /\ cq \in Seq(Woken)
      /\ Wake \in Woken
  BY DEF UringOK, UringTypes, Woken
<1>5. r \in Seq(Woken) /\ l \in SUBSET Sqes
  BY <1>4, Pushed
<1>6. UringTypes'
  BY <1>1, <1>2, <1>4, <1>5 DEF UringTypes
<1>7. ASSUME Defined
      PROVE  /\ EntriesApart(sq, l, r) /\ ChainsLinked(awaits, sq, l, r)
             /\ Flying(sq, l, r) = Flying(sq, kern, cq)
  <2>1. EntriesApart(sq, kern, cq) /\ ChainsLinked(awaits, sq, kern, cq)
    BY <1>7 DEF UringOK, UringInv
  <2>2. QED
    BY <1>4, <2>1, WakeFires
<1> HIDE DEF l, r
<1>8. Defined => /\ EntriesApart(sq', kern', cq')
                 /\ ChainsLinked(awaits, sq', kern', cq')
                 /\ Flying(sq', kern', cq') = Flying(sq, kern, cq)
  BY <1>1, <1>2, <1>7
<1>9. Defined' <=> Defined
  BY <1>2 DEF Defined
<1>10. QED
  BY <1>2, <1>3, <1>6, <1>8, <1>9, UringMoved

\* The steps that move no entry.
LEMMA UringQuietStep ==
  ASSUME UringOK,
         \/ (Drain \/ WorkDone("submit") \/ \E c \in Coro : Return(c)) /\ UNCHANGED uringVars
         \/ UringStopHere \/ DoCompletion \/ UringWakeup
         \/ Shared /\ UNCHANGED uringVars
  PROVE  UringOK'
<1>1. Types /\ LoopTypes /\ UringTypes
  BY DEF UringOK, Types
<1>2. CASE Drain /\ UNCHANGED uringVars
  <2>1. Types' /\ Suspended' = Suspended
    BY <1>1, <1>2, DrainStep DEF Types
  <2>2. UringTypes' /\ (Defined' => Defined) /\ UNCHANGED <<sq, kern, cq, awaits, reap>>
    BY <1>1, <1>2 DEF UringTypes, uringVars, Defined, Drain
  <2>3. QED
    BY <2>1, <2>2, UringLoopStep
<1>3. ASSUME NEW c \in Coro, Return(c) /\ UNCHANGED uringVars
      PROVE  UringOK'
  <2>1. Types' /\ Suspended' = Suspended
    BY <1>1, <1>3, ReturnStep DEF Types
  <2>2. UringTypes' /\ (Defined' => Defined) /\ UNCHANGED <<sq, kern, cq, awaits, reap>>
    BY <1>1, <1>3 DEF UringTypes, uringVars, Defined, Return
  <2>3. QED
    BY <2>1, <2>2, UringLoopStep
<1>4. ASSUME NEW c \in Coro, Spawn(c) /\ UNCHANGED uringVars
      PROVE  UringOK'
  <2>1. Types' /\ Suspended' = Suspended
    BY <1>1, <1>4, SpawnStep DEF Types
  <2>2. UringTypes' /\ (Defined' => Defined) /\ UNCHANGED <<sq, kern, cq, awaits, reap>>
    BY <1>1, <1>4 DEF UringTypes, uringVars, Defined, Spawn
  <2>3. QED
    BY <2>1, <2>2, UringLoopStep
<1>5. CASE \/ WorkDone("submit") /\ UNCHANGED uringVars
           \/ UringStopHere \/ DoCompletion \/ UringWakeup
           \/ CanStop /\ UNCHANGED uringVars
  <2>1. /\ UNCHANGED <<ring, cross, out, ended, sq, kern, cq, awaits, reap, toSubmit, fails>>
        /\ at' \in Places /\ (Defined' => Defined)
        /\ stop' \in BOOLEAN /\ waking' \in BOOLEAN /\ efd' \in BOOLEAN
    BY <1>1, <1>5
       DEF WorkDone, UringStopHere, DoCompletion, CanStop, UringWakeup, LoopTypes, UringTypes,
           queues, uringVars, Places, Defined
  <2>2. CorosApart' /\ Suspended' = Suspended
    BY <1>1, <2>1, CorosFramed
  <2>3. LoopTypes' /\ UringTypes'
    BY <1>1, <2>1 DEF LoopTypes, UringTypes
  <2>4. QED
    BY <2>1, <2>2, <2>3, UringLoopStep DEF Types
<1>6. QED
  BY <1>2, <1>3, <1>4, <1>5 DEF Shared

LEMMA UringDeinitStep == ASSUME UringOK, UringDeinit PROVE UringOK'
<1>1. /\ at' = "closed" /\ sq' = <<>> /\ kern' = {} /\ cq' = <<>>
      /\ UNCHANGED <<ring, cross, out, ended, stop, waking, awaits, reap, toSubmit, efd, fails>>
  BY DEF UringDeinit, queues
<1>2. Types /\ LoopTypes /\ UringTypes
  BY DEF UringOK, Types
<1>3. CorosApart'
  BY <1>1, <1>2, CorosFramed
<1>4. LoopTypes'
  BY <1>1, <1>2 DEF LoopTypes, Places
<1>5. sq' \in Seq(Sqes) /\ Len(sq') <= Entries /\ cq' \in Seq(Woken) /\ kern' \subseteq Sqes
  <2>1. Len(sq') = 0
    BY <1>1
  <2>2. QED
    BY <1>1, <2>1, UringAssumption
<1>6. UringTypes'
  BY <1>1, <1>2, <1>5 DEF UringTypes
<1>7. ~Defined'
  BY <1>1 DEF Defined
<1>8. QED
  BY <1>3, <1>4, <1>6, <1>7 DEF UringOK, Types

\* At the beginning, and in every step.
LEMMA UringStarts == ASSUME LoopInit, UringInit PROVE UringOK
<1>1. /\ at = "drain" /\ ring = <<>> /\ cross = <<>> /\ out = Coro /\ ended = {}
      /\ stop = FALSE /\ waking = FALSE /\ awaits = [c \in Coro |-> <<>>] /\ reap = 0
      /\ sq = <<>> /\ toSubmit = 0 /\ kern = {Entry(Wake)} /\ cq = <<>>
      /\ efd = FALSE /\ fails = 0
  BY DEF LoopInit, UringInit
<1>2. /\ \A x : ~In(x, <<>>) /\ ~OpIn(x, <<>>)
      /\ \A X : Distinct(X, <<>>) /\ OpsDistinct(X, <<>>)
      /\ 1..Len(<<>>) = {}
  BY DEF In, OpIn, Distinct, OpsDistinct
<1>3. CorosApart
  BY <1>1, <1>2 DEF CorosApart
<1>4. LoopTypes
  <2>1. \A c \in Coro : awaits[c] = <<>>
    BY <1>1
  <2>2. awaits \in [Coro -> Seq(Kind)] /\ \A c \in Coro : Len(awaits[c]) \in 0..2
    BY <1>1, <2>1, EmptySeq
  <2>3. QED
    BY <1>1, <2>2, EmptySeq DEF LoopTypes, Places
<1>5. UringTypes
  <2>1. Entry(Wake) \in Sqes
    BY DEF Entry, Sqes, Woken
  <2>2. sq \in Seq(Sqes) /\ Len(sq) = 0 /\ cq \in Seq(Woken)
    BY <1>1, EmptySeq
  <2>3. kern \subseteq Sqes
    BY <1>1, <2>1
  <2>4. toSubmit \in Nat /\ efd \in BOOLEAN /\ fails \in 0..MaxFail /\ Entries \in Nat
    <3>1. Entries \in Nat /\ MaxFail \in Nat
      BY UringAssumption
    <3>2. fails = 0 /\ efd = FALSE /\ toSubmit = 0
      BY <1>1
    <3>3. fails \in 0..MaxFail /\ toSubmit \in Nat
      BY <3>1, <3>2
    <3>4. efd \in BOOLEAN
      BY <3>2
    <3>5. QED
      BY <3>1, <3>3, <3>4
  <2>5. QED
    BY <2>2, <2>3, <2>4 DEF UringTypes
<1>6. \A x \in Ops : ~OpOf(x, kern)
  BY <1>1, LoopAssumption DEF OpOf, Entry, Ops
<1>7. EntriesApart(sq, kern, cq)
  BY <1>1, <1>2, <1>6 DEF EntriesApart
<1>8. ChainsLinked(awaits, sq, kern, cq)
  <2>1. \A c \in Coro : Len(awaits[c]) = 0
    BY <1>1
  <2>2. \A e \in kern : ~e.link
    BY <1>1 DEF Entry
  <2>3. QED
    BY <1>1, <1>2, <2>1, <2>2 DEF ChainsLinked
<1>9. Flying(sq, kern, cq) = {}
  BY <1>1, <1>2, <1>6 DEF Flying
<1>10. Suspended = {}
  BY <1>1 DEF Suspended
<1>11. UringWaits(Flying(sq, kern, cq))
  BY <1>1, <1>9, <1>10, FS_EmptySet DEF UringWaits
<1>12. QED
  BY <1>3, <1>4, <1>5, <1>7, <1>8, <1>11 DEF UringOK, Types, UringInv

LEMMA UringStep == ASSUME UringOK, UringNext PROVE UringOK'
<1>1. CASE \/ (Drain \/ WorkDone("submit") \/ \E c \in Coro : Return(c)) /\ UNCHANGED uringVars
           \/ UringStopHere \/ DoCompletion \/ UringWakeup
           \/ Shared /\ UNCHANGED uringVars
  BY <1>1, UringQuietStep
<1>2. ASSUME NEW c \in Coro, NEW e \in UringExpr, UringAwait(c, e)
      PROVE  UringOK'
  BY <1>2, UringAwaitStep
<1>3. CASE PollSubmission \/ WaitSubmit
  BY <1>3, PollSubmissionStep, WaitSubmitStep
<1>4. CASE TakeWake \/ TakeCompletion
  BY <1>4, TakeWakeStep, TakeCompletionStep
<1>5. CASE UringDeinit \/ KernelWakes
  BY <1>5, UringDeinitStep, KernelWakesStep
<1>6. ASSUME NEW e \in kern, NEW ok \in BOOLEAN, KernelCompletes(e, ok)
      PROVE  UringOK'
  BY <1>6, KernelCompletesStep
<1>7. CASE UringLoop
  <2>1. CASE \E c \in Coro, e \in UringExpr : UringAwait(c, e)
    BY <1>2, <2>1, Zenon
  <2>2. CASE (Drain \/ WorkDone("submit") \/ \E c \in Coro : Return(c)) /\ UNCHANGED uringVars
    BY <1>1, <2>2, Zenon
  <2>3. CASE UringStopHere \/ DoCompletion
    BY <1>1, <2>3, Zenon
  <2>4. QED
    BY <1>3, <1>4, <1>5, <1>7, <2>1, <2>2, <2>3, Zenon DEF UringLoop
<1>8. CASE \E e \in kern, ok \in BOOLEAN : KernelCompletes(e, ok)
  BY <1>6, <1>8, Zenon
<1>9. QED
  BY <1>1, <1>5, <1>7, <1>8, Zenon DEF UringNext

-----------------------------------------------------------------------------
(* IOCP: where the objects go.                                              *)

LEMMA FlownNext ==
  Flown' = Issued(pending', pool', heap', expired', port')
BY DEF Flown, Issued, OpIn

\* The invariant of the next state, from its parts.
LEMMA IocpInvNext ==
  ASSUME ObjectsApart(pending', pool', heap', expired', port'),
         NEW F, F = Issued(pending', pool', heap', expired', port'),
         F \cap dropped' = {},
         NEW U, U = F \cup dropped',
         NEW S, S = Suspended',
         \A x \in U \cup held' : x[1] \in S /\ x[2] <= Len(awaits'[x[1]]),
         \A c \in S : Len(awaits'[c]) # 0 /\ (<<c, 1>> \in U <=> <<c, 2>> \notin U),
         \A c \in S : Len(awaits'[c]) = 2 => (<<c, 2>> \in held' <=> <<c, 1>> \in U),
         \A c \in Coro : <<c, 1>> \notin held',
         IsFiniteSet(U), reap' = Cardinality(U), work' = reap'
  PROVE  IocpInv'
<1>1. ObjectsApart(pending, pool, heap, expired, port)'
  BY DEF ObjectsApart, OpIn, OpsDistinct
<1>2. Flown' = F
  BY FlownNext
<1>3. (Flown \cup dropped)' = U
  BY <1>2
<1>4. IocpWaits(Flown \cup dropped)'
  BY <1>3 DEF IocpWaits
<1>5. QED
  BY <1>1, <1>2, <1>4 DEF IocpInv

\* What is in flight or let go stays so, and nobody begins or ceases to wait.
LEMMA IocpMoved ==
  ASSUME IocpOK, Types', IocpTypes', Suspended' = Suspended,
         UNCHANGED <<awaits, reap, work, held>>, Defined' => Defined,
         NEW F, F = Issued(pending', pool', heap', expired', port'),
         Defined => /\ ObjectsApart(pending', pool', heap', expired', port')
                    /\ F \cap dropped' = {}
                    /\ F \cup dropped' = Flown \cup dropped
  PROVE  IocpOK'
<1>1. ASSUME Defined'
      PROVE  IocpInv'
  <2>1. Defined /\ IocpInv
    BY <1>1 DEF IocpOK
  <2>2. IocpWaits(Flown \cup dropped)
    BY <2>1 DEF IocpInv
  <2>3. (Flown \cup dropped)' = Flown \cup dropped
    BY <2>1, FlownNext
  <2>4. IocpWaits(Flown \cup dropped)'
    BY <2>2, <2>3 DEF IocpWaits
  <2>5. ObjectsApart(pending, pool, heap, expired, port)'
    BY <2>1 DEF ObjectsApart, OpIn, OpsDistinct
  <2>6. (Flown \cap dropped)' = {}
    BY <2>1, FlownNext
  <2>7. QED
    BY <2>4, <2>5, <2>6 DEF IocpInv
<1>2. QED
  BY <1>1 DEF IocpOK

\* No object goes anywhere.
LEMMA IocpLoopStep ==
  ASSUME IocpOK, Types', IocpTypes', Suspended' = Suspended, Defined' => Defined,
         UNCHANGED <<awaits, reap, iocpVars>>
  PROVE  IocpOK'
<1>1. UNCHANGED <<held, pending, pool, heap, expired, port, work, dropped>>
  BY DEF iocpVars
<1> DEFINE F == Issued(pending', pool', heap', expired', port')
<1>2. F = Flown
  BY <1>1 DEF Flown
<1>3. ObjectsApart(pending, pool, heap, expired, port)
      <=> ObjectsApart(pending', pool', heap', expired', port')
  BY <1>1
<1> HIDE DEF F
<1>4. Defined => /\ ObjectsApart(pending', pool', heap', expired', port')
                 /\ F \cap dropped' = {} /\ F \cup dropped' = Flown \cup dropped
  BY <1>1, <1>2, <1>3 DEF IocpOK, IocpInv
<1>5. QED
  BY <1>1, <1>4, IocpMoved DEF F

LEMMA PacketPosted ==
  ASSUME NEW p \in Seq(Pkt), NEW x \in Woken, NEW r \in BOOLEAN
  PROVE  /\ Append(p, Packet(x, r)) \in Seq(Pkt)
         /\ \A y : OpIn(y, Append(p, Packet(x, r))) <=> OpIn(y, p) \/ y = x
         /\ OpsDistinct(Ops, p) /\ (x \in Ops => ~OpIn(x, p))
            => OpsDistinct(Ops, Append(p, Packet(x, r)))
<1>1. Packet(x, r) \in Pkt /\ Packet(x, r).op = x
  BY DEF Packet, Pkt
<1>2. QED
  BY <1>1, OpPushed

\* Whoever completes an operation posts it, if the port is open.
LEMMA CompletionPosted ==
  ASSUME NEW p \in Seq(Pkt), NEW x \in Ops, OnSyncCompletion(x, p)
  PROVE  /\ port' \in Seq(Pkt)
         /\ at # "closed" => /\ \A y : OpIn(y, port') <=> OpIn(y, p) \/ y = x
                             /\ OpsDistinct(Ops, p) /\ ~OpIn(x, p) => OpsDistinct(Ops, port')
<1>1. x \in Woken /\ TRUE \in BOOLEAN
  BY DEF Woken
<1> DEFINE q == Append(p, Packet(x, TRUE))
<1>2. /\ q \in Seq(Pkt)
      /\ \A y : OpIn(y, q) <=> OpIn(y, p) \/ y = x
      /\ OpsDistinct(Ops, p) /\ (x \in Ops => ~OpIn(x, p)) => OpsDistinct(Ops, q)
  BY <1>1, PacketPosted
<1>3. port' = IF at = "closed" THEN p ELSE q
  BY DEF OnSyncCompletion
<1> HIDE DEF q
<1>4. QED
  BY <1>2, <1>3

\* The kernel, the pool and the timer thread complete operations.
LEMMA KernelPostsStep == ASSUME IocpOK, NEW x \in pending, KernelPosts(x) PROVE IocpOK'
<1>1. /\ pending' = pending \ {x} /\ OnSyncCompletion(x, port)
      /\ UNCHANGED <<loopVars, held, pool, heap, expired, work, dropped>>
  BY DEF KernelPosts
<1>2. UNCHANGED <<at, ring, cross, out, ended, stop, waking, awaits, reap, held, pool, heap, expired, work, dropped>>
  BY <1>1 DEF loopVars
<1>3. Types' /\ Suspended' = Suspended
  BY <1>2, CorosFramed DEF IocpOK, Types, LoopTypes
<1>4. IocpTypes /\ x \in Ops /\ port \in Seq(Pkt)
  BY DEF IocpOK, IocpTypes
<1>5. /\ port' \in Seq(Pkt)
      /\ at # "closed" => /\ \A y : OpIn(y, port') <=> OpIn(y, port) \/ y = x
                          /\ OpsDistinct(Ops, port) /\ ~OpIn(x, port) => OpsDistinct(Ops, port')
  BY <1>1, <1>4, CompletionPosted
<1>6. IocpTypes'
  BY <1>1, <1>2, <1>4, <1>5 DEF IocpTypes
<1>7. (Defined' <=> Defined) /\ (Defined => at # "closed")
  BY <1>2 DEF Defined
<1> DEFINE F == Issued(pending', pool', heap', expired', port')
<1>8. ASSUME Defined
      PROVE  /\ ObjectsApart(pending', pool', heap', expired', port')
             /\ F \cap dropped' = {} /\ F \cup dropped' = Flown \cup dropped
  <2>1. ObjectsApart(pending, pool, heap, expired, port) /\ Flown \cap dropped = {}
    BY <1>8 DEF IocpOK, IocpInv
  <2>2. ObjectsApart(pending', pool', heap', expired', port')
    BY <1>1, <1>2, <1>4, <1>5, <1>7, <1>8, <2>1 DEF ObjectsApart
  <2>3. F = Flown
    BY <1>1, <1>2, <1>4, <1>5, <1>7, <1>8 DEF Issued, Flown
  <2>4. QED
    BY <1>2, <2>1, <2>2, <2>3
<1> HIDE DEF F
<1>9. QED
  BY <1>2, <1>3, <1>6, <1>7, <1>8, IocpMoved DEF F

LEMMA PoolPostsStep == ASSUME IocpOK, NEW c \in Coro, PoolPosts(c) PROVE IocpOK'
<1>1. PICK x \in pool : /\ pool' = pool \ {x} /\ OnSyncCompletion(x, port)
                        /\ UNCHANGED <<loopVars, held, pending, heap, expired, work, dropped>>
  BY DEF PoolPosts
<1>2. UNCHANGED <<at, ring, cross, out, ended, stop, waking, awaits, reap, held, pending, heap, expired, work, dropped>>
  BY <1>1 DEF loopVars
<1>3. Types' /\ Suspended' = Suspended
  BY <1>2, CorosFramed DEF IocpOK, Types, LoopTypes
<1>4. IocpTypes /\ x \in Ops /\ port \in Seq(Pkt)
  BY DEF IocpOK, IocpTypes
<1>5. /\ port' \in Seq(Pkt)
      /\ at # "closed" => /\ \A y : OpIn(y, port') <=> OpIn(y, port) \/ y = x
                          /\ OpsDistinct(Ops, port) /\ ~OpIn(x, port) => OpsDistinct(Ops, port')
  BY <1>1, <1>4, CompletionPosted
<1>6. IocpTypes'
  BY <1>1, <1>2, <1>4, <1>5 DEF IocpTypes
<1>7. (Defined' <=> Defined) /\ (Defined => at # "closed")
  BY <1>2 DEF Defined
<1> DEFINE F == Issued(pending', pool', heap', expired', port')
<1>8. ASSUME Defined
      PROVE  /\ ObjectsApart(pending', pool', heap', expired', port')
             /\ F \cap dropped' = {} /\ F \cup dropped' = Flown \cup dropped
  <2>1. ObjectsApart(pending, pool, heap, expired, port) /\ Flown \cap dropped = {}
    BY <1>8 DEF IocpOK, IocpInv
  <2>2. ObjectsApart(pending', pool', heap', expired', port')
    BY <1>1, <1>2, <1>4, <1>5, <1>7, <1>8, <2>1 DEF ObjectsApart
  <2>3. F = Flown
    BY <1>1, <1>2, <1>4, <1>5, <1>7, <1>8 DEF Issued, Flown
  <2>4. QED
    BY <1>2, <2>1, <2>2, <2>3
<1> HIDE DEF F
<1>9. QED
  BY <1>2, <1>3, <1>6, <1>7, <1>8, IocpMoved DEF F

LEMMA TimerPostsStep == ASSUME IocpOK, TimerPosts PROVE IocpOK'
<1> DEFINE x == Head(expired).op
<1>1. /\ expired # <<>> /\ OnSyncCompletion(x, port) /\ expired' = Tail(expired)
      /\ UNCHANGED <<loopVars, held, pending, pool, heap, work, dropped>>
  BY DEF TimerPosts
<1>2. UNCHANGED <<at, ring, cross, out, ended, stop, waking, awaits, reap, held, pending, pool, heap, work, dropped>>
  BY <1>1 DEF loopVars
<1>3. Types' /\ Suspended' = Suspended
  BY <1>2, CorosFramed DEF IocpOK, Types, LoopTypes
<1>4. IocpTypes /\ port \in Seq(Pkt) /\ expired \in Seq(Timer)
  BY DEF IocpOK, IocpTypes
<1>5. /\ Head(expired) \in Timer /\ expired' \in Seq(Timer)
      /\ \A y : OpIn(y, expired) <=> OpIn(y, expired') \/ y = x
      /\ OpsDistinct(Ops, expired) => OpsDistinct(Ops, expired') /\ (x \in Ops => ~OpIn(x, expired'))
  BY <1>1, <1>4, OpPopped
<1>6. x \in Ops
  BY <1>5 DEF Timer
<1> HIDE DEF x
<1>7. /\ port' \in Seq(Pkt)
      /\ at # "closed" => /\ \A y : OpIn(y, port') <=> OpIn(y, port) \/ y = x
                          /\ OpsDistinct(Ops, port) /\ ~OpIn(x, port) => OpsDistinct(Ops, port')
  BY <1>1, <1>4, <1>6, CompletionPosted
<1>8. IocpTypes'
  BY <1>1, <1>2, <1>4, <1>5, <1>7 DEF IocpTypes
<1>9. (Defined' <=> Defined) /\ (Defined => at # "closed")
  BY <1>2 DEF Defined
<1> DEFINE F == Issued(pending', pool', heap', expired', port')
<1>10. ASSUME Defined
       PROVE  /\ ObjectsApart(pending', pool', heap', expired', port')
              /\ F \cap dropped' = {} /\ F \cup dropped' = Flown \cup dropped
  <2>1. ObjectsApart(pending, pool, heap, expired, port) /\ Flown \cap dropped = {}
    BY <1>10 DEF IocpOK, IocpInv
  <2>2. ObjectsApart(pending', pool', heap', expired', port')
    BY <1>2, <1>5, <1>6, <1>7, <1>9, <1>10, <2>1 DEF ObjectsApart
  <2>3. F = Flown
    BY <1>2, <1>5, <1>6, <1>7, <1>9, <1>10 DEF Issued, Flown
  <2>4. QED
    BY <1>2, <2>1, <2>2, <2>3
<1> HIDE DEF F
<1>11. QED
  BY <1>2, <1>3, <1>8, <1>9, <1>10, IocpMoved DEF F

\* The length of a sequence, by its domain.
LEMMA LenIs ==
  ASSUME NEW S, NEW s \in Seq(S), NEW n \in Nat, DOMAIN s = 1..n
  PROVE  Len(s) = n
<1> DEFINE m == Len(s)
<1>1. m \in Nat /\ 1..m = 1..n
  BY LenProperties
<1> HIDE DEF m
<1>2. m > 0 => m \in 1..n
  BY <1>1
<1>3. n > 0 => n \in 1..m
  BY <1>1
<1>4. m = n
  BY <1>1, <1>2, <1>3
<1>5. QED
  BY <1>4 DEF m

\* Time passes for every timeout.
LEMMA TimersLater ==
  ASSUME NEW s \in Seq(Timer), \A i \in 1..Len(s) : s[i].left > 0 - MaxLate,
         NEW t, t = Later(s)
  PROVE  /\ t \in Seq(Timer) /\ Len(t) = Len(s)
         /\ \A i \in 1..Len(s) : t[i].op = s[i].op /\ t[i].left = s[i].left - 1
         /\ \A x : OpIn(x, t) <=> OpIn(x, s)
         /\ OpsDistinct(Ops, s) => OpsDistinct(Ops, t)
<1>1. DOMAIN s = 1..Len(s) /\ Len(s) \in Nat
  BY LenProperties
<1>2. ASSUME NEW i \in 1..Len(s)
      PROVE  [s[i] EXCEPT !.left = @ - 1] \in Timer
  <2>1. s[i] \in Timer /\ s[i].left > 0 - MaxLate
    BY <1>2, ElementOfSeq
  <2>2. s[i].left - 1 \in (0 - MaxLate)..2
    BY <2>1 DEF Timer, MaxLate
  <2>3. QED
    BY <2>1, <2>2 DEF Timer
<1>3. t = [i \in 1..Len(s) |-> [s[i] EXCEPT !.left = @ - 1]]
  BY <1>1 DEF Later
<1>4. t \in [1..Len(s) -> Timer]
  BY <1>2, <1>3
<1>5. t \in Seq(Timer) /\ Len(t) = Len(s)
  <2>1. t \in Seq(Timer)
    BY <1>1, <1>4, SeqDef
  <2>2. DOMAIN t = 1..Len(s)
    BY <1>4
  <2>3. QED
    BY <1>1, <2>1, <2>2, LenIs
<1>6. ASSUME NEW i \in 1..Len(s)
      PROVE  t[i].op = s[i].op /\ t[i].left = s[i].left - 1
  <2>1. s[i] \in Timer
    BY <1>6, ElementOfSeq
  <2>2. t[i] = [s[i] EXCEPT !.left = @ - 1]
    BY <1>3
  <2>3. QED
    BY <2>1, <2>2 DEF Timer
<1>7. \A x : OpIn(x, t) <=> OpIn(x, s)
  BY <1>5, <1>6 DEF OpIn
<1>8. OpsDistinct(Ops, s) => OpsDistinct(Ops, t)
  BY <1>5, <1>6 DEF OpsDistinct
<1>9. QED
  BY <1>5, <1>6, <1>7, <1>8

\* The timeouts at some places of a sequence, in some order.
Picks(t, n, f, P, s) ==
    /\ s \in Seq(Timer) /\ P \subseteq 1..Len(s)
    /\ n \in Nat /\ f \in Bijection(1..n, P)
    /\ t \in [1..n -> Timer] /\ \A k \in 1..n : t[k] = s[f[k]]

LEMMA TimersChosen ==
  ASSUME NEW t, NEW n, NEW f, NEW P, NEW s, Picks(t, n, f, P, s)
  PROVE  /\ t \in Seq(Timer) /\ Len(t) = n
         /\ \A k \in 1..n : f[k] \in P /\ t[k] = s[f[k]]
         /\ \A i \in P : \E k \in 1..n : f[k] = i
         /\ \A x : OpIn(x, t) <=> \E i \in P : s[i].op = x
         /\ OpsDistinct(Ops, s) => OpsDistinct(Ops, t)
<1>3. /\ s \in Seq(Timer) /\ P \subseteq 1..Len(s)
      /\ n \in Nat /\ f \in Bijection(1..n, P)
  BY DEF Picks
<1>1. /\ f \in [1..n -> P]
      /\ \A i, j \in 1..n : f[i] = f[j] => i = j
      /\ \A i \in P : \E k \in 1..n : f[k] = i
  BY <1>3 DEF Bijection, Injection, Surjection, IsInjective
<1>2. \A k \in 1..n : f[k] \in P /\ s[f[k]] \in Timer
  BY <1>1, <1>3, ElementOfSeq
<1>4. t \in [1..n -> Timer] /\ \A k \in 1..n : t[k] = s[f[k]]
  BY DEF Picks
<1>5. t \in Seq(Timer) /\ Len(t) = n
  <2>1. t \in Seq(Timer)
    BY <1>3, <1>4, SeqDef
  <2>2. DOMAIN t = 1..n
    BY <1>4
  <2>3. QED
    BY <1>3, <2>1, <2>2, LenIs
<1>6. ASSUME NEW x
      PROVE  OpIn(x, t) <=> \E i \in P : s[i].op = x
  <2>1. ASSUME NEW k \in 1..n, t[k].op = x
        PROVE  \E i \in P : s[i].op = x
    <3>1. f[k] \in P /\ s[f[k]].op = x
      BY <1>2, <1>4, <2>1
    <3>2. QED
      BY <3>1
  <2>2. ASSUME NEW i \in P, s[i].op = x
        PROVE  \E k \in 1..n : t[k].op = x
    <3>1. PICK k \in 1..n : f[k] = i
      BY <1>1
    <3>2. t[k].op = x
      BY <1>4, <2>2, <3>1
    <3>3. QED
      BY <3>2
  <2>3. QED
    BY <1>5, <2>1, <2>2 DEF OpIn
<1>7. ASSUME OpsDistinct(Ops, s)
      PROVE  OpsDistinct(Ops, t)
  <2> SUFFICES ASSUME NEW i \in 1..n, NEW j \in 1..n, t[i].op = t[j].op, t[i].op \in Ops
               PROVE  i = j
    BY <1>5 DEF OpsDistinct
  <2>1. /\ f[i] \in 1..Len(s) /\ f[j] \in 1..Len(s)
        /\ s[f[i]].op = s[f[j]].op /\ s[f[i]].op \in Ops
    BY <1>2, <1>3, <1>4
  <2>2. f[i] = f[j]
    BY <1>7, <2>1 DEF OpsDistinct
  <2>3. QED
    BY <1>1, <2>2
<1>8. QED
  BY <1>1, <1>2, <1>4, <1>5, <1>6, <1>7

LEMMA TimePassed ==
  ASSUME IocpTypes, TimePasses
  PROVE  /\ heap' \in Seq(Timer) /\ Len(heap') = Len(heap)
         /\ \A i \in 1..Len(heap) : heap'[i].op = heap[i].op /\ heap'[i].left = heap[i].left - 1
         /\ \A x : OpIn(x, heap') <=> OpIn(x, heap)
         /\ OpsDistinct(Ops, heap) => OpsDistinct(Ops, heap')
         /\ expired' \in Seq(Timer) /\ Len(expired') = Len(expired)
         /\ \A i \in 1..Len(expired) : /\ expired'[i].op = expired[i].op
                                       /\ expired'[i].left = expired[i].left - 1
         /\ \A x : OpIn(x, expired') <=> OpIn(x, expired)
         /\ OpsDistinct(Ops, expired) => OpsDistinct(Ops, expired')
<1>1. /\ heap' = Later(heap) /\ expired' = Later(expired)
      /\ \A t \in ToSet(heap \o expired) : t.left > 0 - MaxLate
  BY DEF TimePasses
<1>2. heap \in Seq(Timer) /\ expired \in Seq(Timer)
  BY DEF IocpTypes
<1>3. /\ heap \o expired \in Seq(Timer)
      /\ \A t \in Timer : In(t, heap \o expired) <=> In(t, heap) \/ In(t, expired)
  BY <1>2, Joined
<1>4. \A t : t \in ToSet(heap \o expired) <=> In(t, heap \o expired)
  BY <1>3, SetOfSeq
<1>5. \A i \in 1..Len(heap) : heap[i].left > 0 - MaxLate
  <2> SUFFICES ASSUME NEW i \in 1..Len(heap)
               PROVE  heap[i].left > 0 - MaxLate
    OBVIOUS
  <2>1. heap[i] \in Timer /\ In(heap[i], heap)
    BY <1>2, ElementOfSeq DEF In
  <2>2. QED
    BY <1>1, <1>3, <1>4, <2>1
<1>6. \A i \in 1..Len(expired) : expired[i].left > 0 - MaxLate
  <2> SUFFICES ASSUME NEW i \in 1..Len(expired)
               PROVE  expired[i].left > 0 - MaxLate
    OBVIOUS
  <2>1. expired[i] \in Timer /\ In(expired[i], expired)
    BY <1>2, ElementOfSeq DEF In
  <2>2. QED
    BY <1>1, <1>3, <1>4, <2>1
<1>7. /\ heap' \in Seq(Timer) /\ Len(heap') = Len(heap)
      /\ \A i \in 1..Len(heap) : heap'[i].op = heap[i].op /\ heap'[i].left = heap[i].left - 1
      /\ \A x : OpIn(x, heap') <=> OpIn(x, heap)
      /\ OpsDistinct(Ops, heap) => OpsDistinct(Ops, heap')
  BY <1>1, <1>2, <1>5, TimersLater
<1>8. QED
  BY <1>1, <1>2, <1>6, <1>7, TimersLater

LEMMA ExpiredTaken ==
  ASSUME IocpTypes, TakeExpired
  PROVE  /\ expired = <<>> /\ heap' \in Seq(Timer) /\ expired' \in Seq(Timer)
         /\ \A x : OpIn(x, heap) <=> OpIn(x, heap') \/ OpIn(x, expired')
         /\ OpsDistinct(Ops, heap) => /\ OpsDistinct(Ops, heap') /\ OpsDistinct(Ops, expired')
                                      /\ \A x \in Ops : OpIn(x, heap') => ~OpIn(x, expired')
         /\ \A i, j \in 1..Len(expired') : i < j => expired'[i].left <= expired'[j].left
         /\ \A i \in 1..Len(expired') : expired'[i].left <= 0
         /\ \A i \in 1..Len(heap') : heap'[i].left > 0
<1> DEFINE due == {i \in DOMAIN heap : heap[i].left <= 0}
           rest == DOMAIN heap \ due
           n == Cardinality(due)
           m == Cardinality(rest)
<1>1. heap \in Seq(Timer) /\ DOMAIN heap = 1..Len(heap) /\ Len(heap) \in Nat
  BY LenProperties DEF IocpTypes
<1>2. due \in SUBSET (1..Len(heap)) /\ rest \in SUBSET (1..Len(heap))
  BY <1>1
<1>3. n \in Nat /\ m \in Nat
  <2>1. IsFiniteSet(1..Len(heap))
    BY <1>1, FS_Interval
  <2>2. IsFiniteSet(due) /\ IsFiniteSet(rest)
    BY <1>2, <2>1, FS_Subset
  <2>3. QED
    BY <2>2, FS_CardinalityType
<1> DEFINE Order(f) == \A j, k \in 1..n : j < k => Earlier(f[j], f[k])
           Chosen(f) == [k \in DOMAIN f |-> heap[f[k]]]
<1>4. \E taken \in Bijection(1..n, due), kept \in Bijection(1..m, rest) :
         Order(taken) /\ expired' = Chosen(taken) /\ heap' = Chosen(kept)
  <2>1. PICK taken \in Listings(due) :
           /\ \A j, k \in DOMAIN taken : j < k => Earlier(taken[j], taken[k])
           /\ expired' = Chosen(taken)
    BY DEF TakeExpired
  <2>2. taken \in Bijection(1..n, due) /\ DOMAIN taken = 1..n
    BY DEF Listings, Bijection, Injection
  <2>3. Order(taken)
    BY <2>1, <2>2
  <2>4. PICK kept \in Listings(rest) : heap' = Chosen(kept)
    BY DEF TakeExpired
  <2>5. kept \in Bijection(1..m, rest)
    BY DEF Listings
  <2> HIDE DEF Order, Chosen, due, rest, n, m
  <2>6. QED
    BY <2>1, <2>2, <2>3, <2>4, <2>5, Zenon
<1>5. PICK taken \in Bijection(1..n, due), kept \in Bijection(1..m, rest) :
         Order(taken) /\ expired' = Chosen(taken) /\ heap' = Chosen(kept)
  BY <1>4
<1>7. \A i \in 1..Len(heap) : heap[i] \in Timer /\ heap[i].left \in Int
  <2>1. \A i \in 1..Len(heap) : heap[i] \in Timer
    BY <1>1, ElementOfSeq
  <2>2. \A t \in Timer : t.left \in Int
    BY DEF Timer, MaxLate
  <2>3. QED
    BY <2>1, <2>2
<1>8. \A i \in 1..Len(heap) : /\ i \in due <=> heap[i].left <= 0
                              /\ i \in rest <=> ~(heap[i].left <= 0)
  BY <1>1
<1> HIDE DEF due, rest, n, m
<1>6. ASSUME NEW P \in SUBSET (1..Len(heap)), NEW l \in Nat, NEW f \in Bijection(1..l, P)
      PROVE  Picks(Chosen(f), l, f, P, heap)
  <2>1. f \in [1..l -> P]
    BY DEF Bijection, Injection
  <2>2. \A k \in 1..l : heap[f[k]] \in Timer
    BY <1>7, <2>1
  <2>3. Chosen(f) \in [1..l -> Timer] /\ \A k \in 1..l : Chosen(f)[k] = heap[f[k]]
    BY <2>1, <2>2
  <2>4. QED
    BY <1>1, <2>3 DEF Picks
<1> HIDE DEF Chosen
<1>18. Picks(expired', n, taken, due, heap) /\ Picks(heap', m, kept, rest, heap)
  BY <1>2, <1>3, <1>5, <1>6
<1>9. /\ expired' \in Seq(Timer) /\ Len(expired') = n
      /\ \A k \in 1..n : taken[k] \in due /\ expired'[k] = heap[taken[k]]
      /\ \A x : OpIn(x, expired') <=> \E i \in due : heap[i].op = x
      /\ OpsDistinct(Ops, heap) => OpsDistinct(Ops, expired')
  BY <1>18, TimersChosen
<1>10. /\ heap' \in Seq(Timer) /\ Len(heap') = m
       /\ \A k \in 1..m : kept[k] \in rest /\ heap'[k] = heap[kept[k]]
       /\ \A x : OpIn(x, heap') <=> \E i \in rest : heap[i].op = x
       /\ OpsDistinct(Ops, heap) => OpsDistinct(Ops, heap')
  BY <1>18, TimersChosen
<1>11. \A x : OpIn(x, heap) <=> OpIn(x, heap') \/ OpIn(x, expired')
  BY <1>2, <1>8, <1>9, <1>10 DEF OpIn
<1>12. ASSUME OpsDistinct(Ops, heap), NEW x \in Ops, OpIn(x, heap'), OpIn(x, expired')
       PROVE  FALSE
  <2>1. PICK i \in rest : heap[i].op = x
    BY <1>10, <1>12
  <2>2. PICK j \in due : heap[j].op = x
    BY <1>9, <1>12
  <2>3. i \in 1..Len(heap) /\ j \in 1..Len(heap)
    BY <1>2
  <2>4. i = j
    BY <1>12, <2>1, <2>2, <2>3 DEF OpsDistinct
  <2>5. QED
    BY <1>8, <2>3, <2>4
<1>13. ASSUME NEW i \in 1..n
       PROVE  expired'[i].left <= 0 /\ expired'[i].left \in Int
  BY <1>2, <1>7, <1>8, <1>9
<1>14. ASSUME NEW i \in 1..n, NEW j \in 1..n, i < j
       PROVE  expired'[i].left <= expired'[j].left
  <2>1. heap[taken[i]].left < heap[taken[j]].left \/ heap[taken[i]].left = heap[taken[j]].left
    BY <1>5, <1>14 DEF Earlier
  <2>2. expired'[i].left = heap[taken[i]].left /\ expired'[j].left = heap[taken[j]].left
    BY <1>9
  <2>3. QED
    BY <1>13, <2>1, <2>2
<1>15. ASSUME NEW i \in 1..m
       PROVE  heap'[i].left > 0
  <2>1. kept[i] \in rest /\ kept[i] \in 1..Len(heap) /\ heap'[i].left = heap[kept[i]].left
    BY <1>2, <1>10
  <2>2. heap[kept[i]].left \in Int /\ ~(heap[kept[i]].left <= 0)
    BY <1>7, <1>8, <2>1
  <2>3. QED
    BY <2>1, <2>2
<1>16. expired = <<>>
  BY DEF TakeExpired
<1>17. QED
  BY <1>9, <1>10, <1>11, <1>12, <1>13, <1>14, <1>15, <1>16

LEMMA TimePassesStep == ASSUME IocpOK, TimePasses \/ TakeExpired PROVE IocpOK'
<1>1. UNCHANGED <<loopVars, held, pending, pool, port, work, dropped>>
  BY DEF TimePasses, TakeExpired
<1>2. UNCHANGED <<at, ring, cross, out, ended, stop, waking, awaits, reap, held, pending, pool, port, work, dropped>>
  BY <1>1 DEF loopVars
<1>3. Types' /\ Suspended' = Suspended
  BY <1>2, CorosFramed DEF IocpOK, Types, LoopTypes
<1>4. IocpTypes
  BY DEF IocpOK
<1>5. /\ heap' \in Seq(Timer) /\ expired' \in Seq(Timer)
      /\ \A x \in Ops : OpIn(x, heap) \/ OpIn(x, expired) <=> OpIn(x, heap') \/ OpIn(x, expired')
      /\ /\ OpsDistinct(Ops, heap) /\ OpsDistinct(Ops, expired)
         /\ \A x \in Ops : OpIn(x, heap) => ~OpIn(x, expired)
         => /\ OpsDistinct(Ops, heap') /\ OpsDistinct(Ops, expired')
            /\ \A x \in Ops : OpIn(x, heap') => ~OpIn(x, expired')
  <2>1. CASE TimePasses
    BY <1>4, <2>1, TimePassed
  <2>2. CASE TakeExpired
    <3>1. \A x : ~OpIn(x, <<>>)
      BY DEF OpIn
    <3>2. QED
      BY <1>4, <2>2, <3>1, ExpiredTaken
  <2>3. QED
    BY <2>1, <2>2
<1>6. IocpTypes'
  BY <1>2, <1>4, <1>5 DEF IocpTypes
<1>7. Defined' <=> Defined
  BY <1>2 DEF Defined
<1> DEFINE F == Issued(pending', pool', heap', expired', port')
<1>8. ASSUME Defined
      PROVE  /\ ObjectsApart(pending', pool', heap', expired', port')
             /\ F \cap dropped' = {} /\ F \cup dropped' = Flown \cup dropped
  <2>1. ObjectsApart(pending, pool, heap, expired, port) /\ Flown \cap dropped = {}
    BY <1>8 DEF IocpOK, IocpInv
  <2>2. ObjectsApart(pending', pool', heap', expired', port')
    BY <1>2, <1>5, <2>1 DEF ObjectsApart
  <2>3. F = Flown
    BY <1>2, <1>5 DEF Issued, Flown
  <2>4. QED
    BY <1>2, <2>1, <2>2, <2>3
<1> HIDE DEF F
<1>9. QED
  BY <1>2, <1>3, <1>6, <1>7, <1>8, IocpMoved DEF F

\* What is issued is somewhere.
LEMMA IssuedMeans ==
  ASSUME NEW k, NEW l, NEW h, NEW e, NEW p, NEW x
  PROVE  x \in Issued(k, l, h, e, p)
         <=> x \in Ops /\ (x \in k \/ x \in l \/ OpIn(x, h) \/ OpIn(x, e) \/ OpIn(x, p))
BY DEF Issued

\* An operation is issued, the port being left with p.
LEMMA IssueStep ==
  ASSUME IocpTypes, at # "closed", NEW p \in Seq(Pkt), NEW x \in Ops, NEW kind,
         Issue(x, kind, p), expired' = expired
  PROVE  /\ pending' \subseteq Ops /\ pool' \subseteq Ops
         /\ heap' \in Seq(Timer) /\ port' \in Seq(Pkt)
         /\ OpIn(Wake, p) => OpIn(Wake, port')
         /\ ObjectsApart(pending, pool, heap, expired, p) /\ x \notin Issued(pending, pool, heap, expired, p)
            => /\ ObjectsApart(pending', pool', heap', expired', port')
               /\ Issued(pending', pool', heap', expired', port')
                  = Issued(pending, pool, heap, expired, p) \cup {x}
<1> DEFINE F == Issued(pending, pool, heap, expired, p)
           G == Issued(pending', pool', heap', expired', port')
<1>1. /\ pending \subseteq Ops /\ pool \subseteq Ops /\ heap \in Seq(Timer)
  BY DEF IocpTypes
<1>2. x \notin F <=> x \notin pending /\ x \notin pool /\ ~OpIn(x, heap) /\ ~OpIn(x, expired) /\ ~OpIn(x, p)
  BY DEF Issued
<1>3. ASSUME pending' = pending \cup {x}, UNCHANGED <<pool, heap>>, port' = p
      PROVE  ObjectsApart(pending, pool, heap, expired, p) /\ x \notin F
             => ObjectsApart(pending', pool', heap', expired', port') /\ G = F \cup {x}
  <2>1. G = F \cup {x}
    BY <1>3 DEF Issued
  <2>2. ObjectsApart(pending, pool, heap, expired, p) /\ x \notin F
        => ObjectsApart(pending', pool', heap', expired', port')
    BY <1>2, <1>3 DEF ObjectsApart
  <2>3. QED
    BY <2>1, <2>2
<1>4. ASSUME pool' = pool \cup {x}, UNCHANGED <<pending, heap>>, port' = p
      PROVE  ObjectsApart(pending, pool, heap, expired, p) /\ x \notin F
             => ObjectsApart(pending', pool', heap', expired', port') /\ G = F \cup {x}
  <2>1. G = F \cup {x}
    BY <1>4 DEF Issued
  <2>2. ObjectsApart(pending, pool, heap, expired, p) /\ x \notin F
        => ObjectsApart(pending', pool', heap', expired', port')
    BY <1>2, <1>4 DEF ObjectsApart
  <2>3. QED
    BY <2>1, <2>2
<1>5. ASSUME UNCHANGED <<pending, pool, heap>>, port' \in Seq(Pkt),
             \A y : OpIn(y, port') <=> OpIn(y, p) \/ y = x,
             OpsDistinct(Ops, p) /\ ~OpIn(x, p) => OpsDistinct(Ops, port')
      PROVE  ObjectsApart(pending, pool, heap, expired, p) /\ x \notin F
             => ObjectsApart(pending', pool', heap', expired', port') /\ G = F \cup {x}
  <2>1. G = F \cup {x}
    BY <1>5 DEF Issued
  <2>2. ObjectsApart(pending, pool, heap, expired, p) /\ x \notin F
        => ObjectsApart(pending', pool', heap', expired', port')
    BY <1>2, <1>5 DEF ObjectsApart
  <2>3. QED
    BY <2>1, <2>2
<1>6. ASSUME UNCHANGED <<pending, pool>>, port' = p,
             \A y : OpIn(y, heap') <=> OpIn(y, heap) \/ y = x,
             OpsDistinct(Ops, heap) /\ ~OpIn(x, heap) => OpsDistinct(Ops, heap')
      PROVE  ObjectsApart(pending, pool, heap, expired, p) /\ x \notin F
             => ObjectsApart(pending', pool', heap', expired', port') /\ G = F \cup {x}
  <2>1. G = F \cup {x}
    BY <1>6 DEF Issued
  <2>2. ObjectsApart(pending, pool, heap, expired, p) /\ x \notin F
        => ObjectsApart(pending', pool', heap', expired', port')
    BY <1>2, <1>6 DEF ObjectsApart
  <2>3. QED
    BY <2>1, <2>2
<1>7. x \in Woken /\ Wake # x
  BY LoopAssumption DEF Woken, Ops
<1> HIDE DEF F, G
<1>8. CASE IssueSocket(x, kind, p)
  <2>1. CASE pending' = pending \cup {x} /\ port' = p /\ UNCHANGED <<pool, heap>>
    BY <1>1, <1>3, <2>1 DEF F, G
  <2>2. CASE port' = Append(p, Packet(x, FALSE)) /\ UNCHANGED <<pending, pool, heap>>
    <3>1. /\ port' \in Seq(Pkt)
          /\ \A y : OpIn(y, port') <=> OpIn(y, p) \/ y = x
          /\ OpsDistinct(Ops, p) /\ (x \in Ops => ~OpIn(x, p)) => OpsDistinct(Ops, port')
      BY <1>7, <2>2, PacketPosted
    <3>2. QED
      BY <1>1, <1>5, <2>2, <3>1 DEF F, G
  <2>3. QED
    BY <1>8, <2>1, <2>2 DEF IssueSocket
<1>9. CASE IssueSync(x, kind, p)
  <2>1. OnSyncCompletion(x, p) /\ UNCHANGED <<pending, pool, heap>>
    BY <1>9 DEF IssueSync
  <2>2. /\ port' \in Seq(Pkt)
        /\ \A y : OpIn(y, port') <=> OpIn(y, p) \/ y = x
        /\ OpsDistinct(Ops, p) /\ ~OpIn(x, p) => OpsDistinct(Ops, port')
    BY <2>1, CompletionPosted
  <2>3. QED
    BY <1>1, <1>5, <2>1, <2>2 DEF F, G
<1>10. CASE IssueFile(x, kind, p)
  <2>1. pool' = pool \cup {x} /\ UNCHANGED <<pending, heap>> /\ port' = p
    BY <1>10 DEF IssueFile
  <2>2. QED
    BY <1>1, <1>4, <2>1 DEF F, G
<1>11. CASE IssueTimer(x, kind, p)
  <2>1. PICK d \in Durations : heap' = Append(heap, [op |-> x, left |-> d])
    BY <1>11 DEF IssueTimer
  <2>2. UNCHANGED <<pending, pool>> /\ port' = p
    BY <1>11 DEF IssueTimer
  <2> DEFINE t == [op |-> x, left |-> d]
  <2>3. d \in (0 - MaxLate)..2
    BY DEF Durations, MaxLate
  <2>4. t \in Timer /\ t.op = x
    BY <2>3 DEF Timer
  <2> HIDE DEF t
  <2>5. /\ heap' \in Seq(Timer)
        /\ \A y : OpIn(y, heap') <=> OpIn(y, heap) \/ y = x
        /\ OpsDistinct(Ops, heap) /\ (x \in Ops => ~OpIn(x, heap)) => OpsDistinct(Ops, heap')
    BY <1>1, <2>1, <2>4, OpPushed DEF t
  <2>6. QED
    BY <1>1, <1>6, <2>2, <2>5 DEF F, G
<1>12. QED
  BY <1>8, <1>9, <1>10, <1>11 DEF Issue

-----------------------------------------------------------------------------
(* IOCP: the steps.                                                         *)

\* A coroutine begins to wait for the first of its operations.
LEMMA IocpAwaitStep ==
  ASSUME IocpOK, NEW c \in Coro, NEW e \in IocpExpr, IocpAwait(c, e)
  PROVE  IocpOK'
<1> DEFINE x == <<c, 1>>
           F == Flown
           U == F \cup dropped
<1>1. /\ Resumes(c) /\ at \in {"work", "residue"}
      /\ awaits' = [awaits EXCEPT ![c] = e]
      /\ held' = Acquired(c, e) /\ work' = work + 1 /\ reap' = reap + 1
      /\ Issue(x, e[1], port)
      /\ UNCHANGED <<at, cross, out, ended, stop, waking, expired, dropped>>
  BY DEF IocpAwait, Resumes
<1>2. Defined /\ at # "closed" /\ IocpInv /\ IocpTypes /\ Types /\ LoopTypes
  BY <1>1 DEF IocpOK, Types, Defined
<1>3. /\ ring' \in Seq(Coro) /\ CorosApart' /\ c \notin Suspended
      /\ LoopTypes' => Suspended' = Suspended \cup {c}
  BY <1>1, <1>2, ResumeStep
<1>4. PICK n \in {1, 2} : Len(e) = n
  BY IocpAssumption
<1>5. e \in Seq(Kind)
  <2>1. IocpKinds \subseteq Kind
    BY DEF IocpKinds, SocketKinds, StreamKinds, DatagramKinds, SyncKinds, PoolKinds, TimerKinds,
           Kind, PeerKinds, PromptKinds
  <2>2. e \in Seq(IocpKinds)
    BY IocpAssumption
  <2>3. QED
    BY <2>1, <2>2, SeqMonotonic
<1>6. awaits \in [Coro -> Seq(Kind)] /\ port \in Seq(Pkt)
  BY <1>2 DEF LoopTypes, IocpTypes
<1>7. /\ awaits'[c] = e /\ \A d \in Coro : d # c => awaits'[d] = awaits[d]
      /\ awaits' \in [Coro -> Seq(Kind)]
  BY <1>1, <1>5, <1>6
<1>8. LoopTypes'
  <2>1. \A d \in Coro : Len(awaits'[d]) \in 0..2
    <3>1. Len(awaits'[c]) \in 0..2
      BY <1>4, <1>7
    <3>2. QED
      BY <1>2, <1>7, <3>1 DEF LoopTypes
  <2>2. reap' \in Nat
    BY <1>1, <1>2 DEF LoopTypes
  <2>3. QED
    BY <1>1, <1>2, <1>3, <1>7, <2>1, <2>2 DEF LoopTypes
<1>9. Suspended' = Suspended \cup {c}
  BY <1>3, <1>8
<1>10. /\ \A y \in U \cup held : y[1] \in Suspended /\ y[2] <= Len(awaits[y[1]]) /\ y \in Ops
       /\ \A d \in Suspended : Len(awaits[d]) # 0 /\ (<<d, 1>> \in U <=> <<d, 2>> \notin U)
       /\ \A d \in Suspended : Len(awaits[d]) = 2 => (<<d, 2>> \in held <=> <<d, 1>> \in U)
       /\ \A d \in Coro : <<d, 1>> \notin held
       /\ IsFiniteSet(U) /\ reap = Cardinality(U) /\ work = reap
       /\ F \cap dropped = {}
  BY <1>2 DEF IocpInv, IocpWaits, IocpTypes, Flown, Issued
<1>11. x \in Ops /\ x \notin U /\ x \notin held /\ <<c, 2>> \notin U /\ <<c, 2>> \notin held
  BY <1>3, <1>10 DEF Ops
<1>12. ObjectsApart(pending, pool, heap, expired, port)
  BY <1>2 DEF IocpInv
<1> DEFINE G == Issued(pending', pool', heap', expired', port')
<1>13. /\ pending' \subseteq Ops /\ pool' \subseteq Ops
       /\ heap' \in Seq(Timer) /\ port' \in Seq(Pkt)
       /\ ObjectsApart(pending', pool', heap', expired', port') /\ G = F \cup {x}
  <2>1. x \notin Issued(pending, pool, heap, expired, port)
    BY <1>11 DEF Flown
  <2>2. expired' = expired
    BY <1>1
  <2> HIDE DEF x, G
  <2>3. /\ ObjectsApart(pending', pool', heap', expired', port')
        /\ Issued(pending', pool', heap', expired', port')
           = Issued(pending, pool, heap, expired, port) \cup {x}
        /\ pending' \subseteq Ops /\ pool' \subseteq Ops
        /\ heap' \in Seq(Timer) /\ port' \in Seq(Pkt)
    BY <1>1, <1>2, <1>6, <1>11, <1>12, <2>1, <2>2, IssueStep
  <2>4. QED
    BY <2>3 DEF G, Flown
<1>14. held' = held \cup {y \in {<<c, 2>>} : n = 2}
  <2>1. {<<c, k>> : k \in 2..n} = {y \in {<<c, 2>>} : n = 2}
    OBVIOUS
  <2>2. QED
    BY <1>1, <1>4, <2>1 DEF Acquired
<1>15. IocpTypes'
  <2>1. held' \subseteq Ops /\ work' \in Nat
    BY <1>1, <1>2, <1>14 DEF IocpTypes, Ops
  <2>2. QED
    BY <1>1, <1>2, <1>13, <2>1 DEF IocpTypes
<1> DEFINE V == G \cup dropped'
<1> HIDE DEF F, G
<1>16. V = U \cup {x} /\ G \cap dropped' = {}
  BY <1>1, <1>10, <1>11, <1>13
<1>17. IsFiniteSet(V) /\ reap' = Cardinality(V) /\ work' = reap'
  <2> HIDE DEF U, V, x
  <2>1. IsFiniteSet(V) /\ Cardinality(V) = Cardinality(U) + 1
    BY <1>10, <1>11, <1>16, FS_AddElement
  <2>2. QED
    BY <1>1, <1>10, <2>1
<1> HIDE DEF U, V
<1>18. ASSUME NEW y \in V \cup held'
       PROVE  y[1] \in Suspended' /\ y[2] <= Len(awaits'[y[1]])
  <2>1. CASE y \in U \cup held
    <3>1. y[1] \in Suspended /\ y[2] <= Len(awaits[y[1]])
      BY <1>10, <2>1
    <3>2. y[1] \in Coro /\ y[1] # c
      BY <1>3, <3>1 DEF Suspended
    <3>3. QED
      BY <1>7, <1>9, <3>1, <3>2
  <2>2. CASE y = <<c, 1>>
    BY <1>4, <1>7, <1>9, <2>2
  <2>3. CASE y = <<c, 2>> /\ n = 2
    <3>1. y[1] = c /\ y[2] = 2 /\ Len(awaits'[c]) = n
      BY <1>4, <1>7, <2>3
    <3>2. Len(awaits'[y[1]]) = 2
      BY <2>3, <3>1
    <3>3. y[1] \in Suspended'
      BY <1>9, <3>1
    <3>4. QED
      BY <3>1, <3>2, <3>3
  <2>4. QED
    BY <1>14, <1>16, <2>1, <2>2, <2>3
<1>19. ASSUME NEW d \in Suspended'
       PROVE  /\ Len(awaits'[d]) # 0 /\ (<<d, 1>> \in V <=> <<d, 2>> \notin V)
              /\ Len(awaits'[d]) = 2 => (<<d, 2>> \in held' <=> <<d, 1>> \in V)
  <2>1. CASE d = c
    <3>1. <<c, 1>> \in V
      BY <1>16
    <3>2. <<c, 2>> \notin V
      BY <1>11, <1>16
    <3>3. <<c, 2>> \in held' <=> n = 2
      BY <1>11, <1>14
    <3>4. Len(awaits'[c]) = n
      BY <1>4, <1>7
    <3>5. QED
      BY <2>1, <3>1, <3>2, <3>3, <3>4
  <2>2. CASE d # c
    <3>1. d \in Suspended /\ d \in Coro
      BY <1>9, <2>2 DEF Suspended
    <3>2. awaits'[d] = awaits[d]
      BY <1>7, <2>2, <3>1
    <3>3. \A k \in {1, 2} : <<d, k>> \in V <=> <<d, k>> \in U
      BY <1>16, <2>2
    <3>4. \A k \in {1, 2} : <<d, k>> \in held' <=> <<d, k>> \in held
      BY <1>14, <2>2
    <3>5. QED
      BY <1>10, <3>1, <3>2, <3>3, <3>4
  <2>3. QED
    BY <2>1, <2>2
<1>20. \A d \in Coro : <<d, 1>> \notin held'
  <2>1. \A d \in Coro : <<d, 1>> # <<c, 2>>
    OBVIOUS
  <2>2. QED
    BY <1>10, <1>14, <2>1
<1>21. IocpInv'
  BY <1>13, <1>16, <1>17, <1>18, <1>19, <1>20, IocpInvNext DEF G, V
<1>22. QED
  BY <1>3, <1>8, <1>15, <1>21 DEF IocpOK, Types

\* A packet is taken from the port.
LEMMA PortPopped ==
  ASSUME IocpTypes, port # <<>>, NEW x, x = Head(port).op
  PROVE  LET p == Tail(port)
             F == Issued(pending, pool, heap, expired, p)
         IN  /\ x \in Woken /\ p \in Seq(Pkt)
             /\ \A y : OpIn(y, port) <=> OpIn(y, p) \/ y = x
             /\ ObjectsApart(pending, pool, heap, expired, port)
                => /\ ObjectsApart(pending, pool, heap, expired, p)
                   /\ F = Flown \ {x} /\ (x \in Ops => x \in Flown)
<1> DEFINE p == Tail(port)
           F == Issued(pending, pool, heap, expired, p)
<1>1. port \in Seq(Pkt)
  BY DEF IocpTypes
<1>2. /\ Head(port) \in Pkt /\ p \in Seq(Pkt)
      /\ \A y : OpIn(y, port) <=> OpIn(y, p) \/ y = x
      /\ OpsDistinct(Ops, port) => OpsDistinct(Ops, p) /\ (x \in Ops => ~OpIn(x, p))
  BY <1>1, OpPopped
<1>3. x \in Woken
  BY <1>2 DEF Pkt
<1> HIDE DEF p
<1>4. ASSUME ObjectsApart(pending, pool, heap, expired, port)
      PROVE  /\ ObjectsApart(pending, pool, heap, expired, p)
             /\ F = Flown \ {x} /\ (x \in Ops => x \in Flown)
  <2>1. ObjectsApart(pending, pool, heap, expired, p)
    BY <1>2, <1>4 DEF ObjectsApart
  <2>2. F = Flown \ {x}
    BY <1>2, <1>4 DEF ObjectsApart, Issued, Flown
  <2>3. x \in Ops => x \in Flown
    BY <1>2 DEF Issued, Flown
  <2>4. QED
    BY <2>1, <2>2, <2>3
<1>5. QED
  BY <1>2, <1>3, <1>4 DEF p

LEMMA GetNothingStep == ASSUME IocpOK, GetNothing PROVE IocpOK'
<1> DEFINE x == Head(port).op
<1>1. /\ at = "complete" /\ port # <<>> /\ at' = "drain" /\ port' = Tail(port)
      /\ dropped' = dropped \cup ({x} \ {Wake})
      /\ UNCHANGED <<ring, cross, out, ended, stop, waking, awaits, reap, held, pending, pool, heap, expired, work>>
  BY DEF GetNothing, Dequeues, queues
<1>2. Types' /\ Suspended' = Suspended
  BY <1>1, CorosFramed DEF IocpOK, Types, LoopTypes, Places
<1>3. Defined /\ IocpInv /\ IocpTypes /\ ObjectsApart(pending, pool, heap, expired, port)
  BY <1>1 DEF IocpOK, Defined, IocpInv
<1> DEFINE F == Issued(pending', pool', heap', expired', port')
<1>4. /\ x \in Woken /\ port' \in Seq(Pkt)
      /\ ObjectsApart(pending', pool', heap', expired', port')
      /\ F = Flown \ {x} /\ (x \in Ops => x \in Flown)
  <2> DEFINE p == Tail(port)
  <2>1. /\ x \in Woken /\ p \in Seq(Pkt)
        /\ ObjectsApart(pending, pool, heap, expired, p)
        /\ Issued(pending, pool, heap, expired, p) = Flown \ {x} /\ (x \in Ops => x \in Flown)
    BY <1>1, <1>3, PortPopped
  <2> HIDE DEF p, x
  <2>2. port' = p
    BY <1>1 DEF p
  <2>3. QED
    BY <1>1, <2>1, <2>2
<1> HIDE DEF x, F
<1>5. Flown \cap dropped = {} /\ Wake \notin Ops /\ Flown \subseteq Ops
  BY <1>3, LoopAssumption DEF IocpInv, Flown, Issued, Ops
<1>6. F \cap dropped' = {} /\ F \cup dropped' = Flown \cup dropped
  BY <1>1, <1>4, <1>5 DEF Woken
<1>7. IocpTypes'
  <2>1. dropped' \subseteq Ops
    BY <1>1, <1>3, <1>4 DEF IocpTypes, Woken
  <2>2. QED
    BY <1>1, <1>3, <1>4, <2>1 DEF IocpTypes
<1>8. QED
  BY <1>1, <1>2, <1>3, <1>4, <1>6, <1>7, IocpMoved DEF F

LEMMA GetFirstStep == ASSUME IocpOK, GetFirst PROVE IocpOK'
<1> DEFINE x == Head(port).op
           c == x[1]
           next == <<c, 2>>
           U == Flown \cup dropped
<1>1. /\ at = "complete" /\ port # <<>> /\ at' = "drain" /\ x # Wake /\ next \in held
      /\ held' = held \ {next}
      /\ Issue(next, awaits[c][2], Tail(port))
      /\ UNCHANGED <<ring, cross, out, ended, stop, waking, awaits, reap, expired, work, dropped>>
  BY DEF GetFirst, Dequeues, queues
<1>2. Types' /\ Suspended' = Suspended
  BY <1>1, CorosFramed DEF IocpOK, Types, LoopTypes, Places
<1>3. /\ Defined /\ at # "closed" /\ IocpInv /\ IocpTypes
      /\ ObjectsApart(pending, pool, heap, expired, port)
  BY <1>1 DEF IocpOK, Defined, IocpInv
<1>4. /\ \A d \in Coro : Len(awaits[d]) \in 0..2
      /\ \A y \in U \cup held : y[1] \in Suspended /\ y[2] <= Len(awaits[y[1]]) /\ y \in Ops
      /\ \A d \in Suspended : d \in Coro /\ Len(awaits[d]) # 0 /\ (<<d, 1>> \in U <=> <<d, 2>> \notin U)
      /\ \A d \in Suspended : Len(awaits[d]) = 2 => (<<d, 2>> \in held <=> <<d, 1>> \in U)
      /\ \A d \in Coro : <<d, 1>> \notin held
      /\ IsFiniteSet(U) /\ reap = Cardinality(U) /\ work = reap
      /\ Flown \cap dropped = {}
  BY <1>3 DEF IocpOK, Types, LoopTypes, IocpInv, IocpWaits, IocpTypes, Flown, Issued, Suspended
<1> DEFINE p == Tail(port)
           E == Issued(pending, pool, heap, expired, p)
           F == Issued(pending', pool', heap', expired', port')
<1>5. /\ x \in Woken /\ p \in Seq(Pkt)
      /\ ObjectsApart(pending, pool, heap, expired, p)
      /\ E = Flown \ {x} /\ (x \in Ops => x \in Flown)
  BY <1>1, <1>3, PortPopped
<1>6. x \in Ops /\ x \in Flown
  BY <1>1, <1>5 DEF Woken
<1>7. c \in Coro /\ (x = <<c, 1>> \/ x = <<c, 2>>)
  BY <1>6 DEF Ops
<1> HIDE DEF x
<1>8. c \in Suspended /\ Len(awaits[c]) = 2
  <2>1. next[1] = c /\ next[2] = 2 /\ next \in U \cup held
    BY <1>1
  <2>2. c \in Suspended /\ 2 <= Len(awaits[c])
    BY <1>4, <2>1
  <2>3. QED
    BY <1>4, <1>7, <2>2
<1>9. x = <<c, 1>> /\ next \notin U /\ next \in Ops /\ x # next
  <2>1. <<c, 1>> \in U /\ next \notin U
    BY <1>1, <1>4, <1>8
  <2>2. QED
    BY <1>1, <1>4, <1>6, <1>7, <2>1
<1>10. /\ pending' \subseteq Ops /\ pool' \subseteq Ops
       /\ heap' \in Seq(Timer) /\ port' \in Seq(Pkt)
       /\ ObjectsApart(pending', pool', heap', expired', port')
       /\ F = E \cup {next}
  <2>1. next \notin E
    BY <1>5, <1>9
  <2>2. expired' = expired
    BY <1>1
  <2> HIDE DEF next, p, c
  <2>3. Issue(next, awaits[c][2], p)
    BY <1>1 DEF p
  <2>4. QED
    BY <1>3, <1>5, <1>9, <2>1, <2>2, <2>3, IssueStep
<1>11. IocpTypes'
  BY <1>1, <1>3, <1>10 DEF IocpTypes
<1> DEFINE V == F \cup dropped'
<1> HIDE DEF E, F, c, p
<1>12. V = (U \ {x}) \cup {next} /\ F \cap dropped' = {}
  BY <1>1, <1>4, <1>5, <1>6, <1>9, <1>10
<1>13. IsFiniteSet(V) /\ reap' = Cardinality(V) /\ work' = reap'
  <2> DEFINE W == U \ {x}
  <2>1. x \in U /\ next \notin W
    BY <1>6, <1>9
  <2>2. reap \in Nat
    BY DEF IocpOK, Types, LoopTypes
  <2> HIDE DEF U, V, next
  <2>3. IsFiniteSet(W) /\ Cardinality(W) = Cardinality(U) - 1
    BY <1>4, <2>1, FS_RemoveElement
  <2> HIDE DEF W
  <2>4. IsFiniteSet(W \cup {next}) /\ Cardinality(W \cup {next}) = Cardinality(W) + 1
    BY <2>1, <2>3, FS_AddElement
  <2>5. QED
    BY <1>1, <1>4, <1>12, <2>2, <2>3, <2>4 DEF W
<1>14. ASSUME NEW y \in V \cup held'
       PROVE  y[1] \in Suspended' /\ y[2] <= Len(awaits'[y[1]])
  <2>1. y \in U \cup held
    BY <1>1, <1>12
  <2>2. QED
    BY <1>1, <1>2, <1>4, <2>1
<1>15. ASSUME NEW d \in Suspended'
       PROVE  /\ Len(awaits'[d]) # 0 /\ (<<d, 1>> \in V <=> <<d, 2>> \notin V)
              /\ Len(awaits'[d]) = 2 => (<<d, 2>> \in held' <=> <<d, 1>> \in V)
  <2>1. d \in Suspended /\ awaits' = awaits
    BY <1>1, <1>2
  <2>2. CASE d = c
    BY <1>1, <1>4, <1>8, <1>9, <1>12, <2>1, <2>2
  <2>3. CASE d # c
    <3>1. \A k \in {1, 2} : <<d, k>> \in V <=> <<d, k>> \in U
      BY <1>9, <1>12, <2>3
    <3>2. \A k \in {1, 2} : <<d, k>> \in held' <=> <<d, k>> \in held
      BY <1>1, <2>3
    <3>3. QED
      BY <1>4, <2>1, <3>1, <3>2
  <2>4. QED
    BY <2>2, <2>3
<1>16. \A d \in Coro : <<d, 1>> \notin held'
  BY <1>1, <1>4
<1> HIDE DEF V
<1>17. IocpInv'
  BY <1>10, <1>12, <1>13, <1>14, <1>15, <1>16, IocpInvNext DEF F, V
<1>18. QED
  BY <1>2, <1>11, <1>17 DEF IocpOK

\* The last of an expression resumes its coroutine.
LEMMA GetLastStep == ASSUME IocpOK, GetLast PROVE IocpOK'
<1> DEFINE x == Head(port).op
           c == x[1]
           U == Flown \cup dropped
           F == Issued(pending', pool', heap', expired', port')
<1>1. /\ at = "complete" /\ port # <<>> /\ at' = "drain" /\ x # Wake /\ <<c, 2>> \notin held
      /\ port' = Tail(port) /\ reap' = reap - 1 /\ work' = work - 1
      /\ Awakens(c)
      /\ UNCHANGED <<cross, out, ended, stop, waking, held, pending, pool, heap, expired, dropped>>
  BY DEF GetLast, Dequeues
<1>2. /\ Defined /\ IocpInv /\ IocpTypes /\ Types /\ LoopTypes /\ reap \in Nat
      /\ ObjectsApart(pending, pool, heap, expired, port)
  BY <1>1 DEF IocpOK, Defined, IocpInv, Types, LoopTypes
<1>3. /\ \A y \in U \cup held : y[1] \in Suspended /\ y[2] <= Len(awaits[y[1]]) /\ y \in Ops
      /\ \A d \in Suspended : d \in Coro /\ Len(awaits[d]) # 0 /\ (<<d, 1>> \in U <=> <<d, 2>> \notin U)
      /\ \A d \in Suspended : Len(awaits[d]) = 2 => (<<d, 2>> \in held <=> <<d, 1>> \in U)
      /\ \A d \in Coro : <<d, 1>> \notin held
      /\ IsFiniteSet(U) /\ reap = Cardinality(U) /\ work = reap
      /\ Flown \cap dropped = {}
  BY <1>2 DEF IocpInv, IocpWaits, IocpTypes, Flown, Issued, Suspended
<1>4. /\ x \in Woken /\ port' \in Seq(Pkt)
      /\ ObjectsApart(pending', pool', heap', expired', port')
      /\ F = Flown \ {x} /\ (x \in Ops => x \in Flown)
  <2> DEFINE p == Tail(port)
  <2>1. /\ x \in Woken /\ p \in Seq(Pkt)
        /\ ObjectsApart(pending, pool, heap, expired, p)
        /\ Issued(pending, pool, heap, expired, p) = Flown \ {x} /\ (x \in Ops => x \in Flown)
    BY <1>1, <1>2, PortPopped
  <2> HIDE DEF p, x
  <2>2. port' = p
    BY <1>1 DEF p
  <2>3. QED
    BY <1>1, <2>1, <2>2
<1>5. x \in Ops /\ x \in Flown
  BY <1>1, <1>4 DEF Woken
<1>6. c \in Coro /\ (x = <<c, 1>> \/ x = <<c, 2>>)
  BY <1>5 DEF Ops
<1> HIDE DEF x, F
<1>7. c \in Suspended /\ x \in U
  BY <1>3, <1>5
<1> HIDE DEF c
<1> DEFINE V == F \cup dropped'
<1>8. V = U \ {x} /\ F \cap dropped' = {}
  BY <1>1, <1>3, <1>4, <1>5
<1>9. IsFiniteSet(V) /\ reap' = Cardinality(V) /\ work' = reap' /\ reap' \in Nat
  <2> HIDE DEF U, V
  <2>1. IsFiniteSet(V) /\ Cardinality(V) = Cardinality(U) - 1
    BY <1>3, <1>7, <1>8, FS_RemoveElement
  <2>2. Cardinality(V) \in Nat
    BY <2>1, FS_CardinalityType
  <2>3. QED
    BY <1>1, <1>3, <2>1, <2>2
<1>10. LoopTypes' /\ CorosApart' /\ Suspended' = Suspended \ {c}
  BY <1>1, <1>2, <1>7, <1>9, AwakenStep DEF Places, Types
<1>11. awaits'[c] = <<>> /\ \A d \in Coro : d # c => awaits'[d] = awaits[d]
  BY <1>1, <1>2, <1>6 DEF Awakens, LoopTypes
<1>12. IocpTypes'
  BY <1>1, <1>2, <1>4, <1>9 DEF IocpTypes
<1> HIDE DEF V, U
<1>13. <<c, 1>> \notin V \cup held' /\ <<c, 2>> \notin V \cup held'
  <2>1. <<c, 1>> \notin held' /\ <<c, 2>> \notin held'
    BY <1>1, <1>3, <1>6
  <2>2. <<c, 1>> \in U <=> <<c, 2>> \notin U
    BY <1>3, <1>7
  <2>3. QED
    BY <1>6, <1>7, <1>8, <2>1, <2>2
<1>14. ASSUME NEW y \in V \cup held'
       PROVE  y[1] \in Suspended' /\ y[2] <= Len(awaits'[y[1]])
  <2>1. y \in U \cup held
    BY <1>1, <1>8
  <2>2. y \in Ops /\ y[1] \in Suspended /\ y[2] <= Len(awaits[y[1]])
    BY <1>3, <2>1
  <2>3. y[1] \in Coro /\ (y = <<y[1], 1>> \/ y = <<y[1], 2>>)
    BY <2>2 DEF Ops
  <2>4. y[1] # c
    BY <1>13, <2>3
  <2>5. QED
    BY <1>10, <1>11, <2>2, <2>3, <2>4
<1>15. ASSUME NEW d \in Suspended'
       PROVE  /\ Len(awaits'[d]) # 0 /\ (<<d, 1>> \in V <=> <<d, 2>> \notin V)
              /\ Len(awaits'[d]) = 2 => (<<d, 2>> \in held' <=> <<d, 1>> \in V)
  <2>1. d \in Suspended /\ d # c /\ d \in Coro
    BY <1>3, <1>10
  <2>2. awaits'[d] = awaits[d] /\ held' = held
    BY <1>1, <1>11, <2>1
  <2>3. (<<d, 1>> \in V <=> <<d, 1>> \in U) /\ (<<d, 2>> \in V <=> <<d, 2>> \in U)
    BY <1>6, <1>8, <2>1
  <2>4. /\ Len(awaits[d]) # 0 /\ (<<d, 1>> \in U <=> <<d, 2>> \notin U)
        /\ Len(awaits[d]) = 2 => (<<d, 2>> \in held <=> <<d, 1>> \in U)
    BY <1>3, <2>1
  <2>5. Len(awaits'[d]) = Len(awaits[d])
    BY <2>2
  <2> DEFINE n == Len(awaits'[d])
             m == Len(awaits[d])
  <2> HIDE DEF n, m, U, V
  <2>6. QED
    <3>1. n = m /\ m # 0 /\ (m = 2 => (<<d, 2>> \in held <=> <<d, 1>> \in U))
      BY <2>4, <2>5 DEF n, m
    <3>2. n # 0 /\ (n = 2 => (<<d, 2>> \in held' <=> <<d, 1>> \in V))
      BY <2>2, <2>3, <3>1
    <3>3. <<d, 1>> \in V <=> <<d, 2>> \notin V
      BY <2>3, <2>4
    <3>4. QED
      BY <3>2, <3>3 DEF n
<1>16. \A d \in Coro : <<d, 1>> \notin held'
  BY <1>1, <1>3
<1>17. IocpInv'
  <2>1. /\ \A y \in V \cup held' : y[1] \in Suspended' /\ y[2] <= Len(awaits'[y[1]])
        /\ \A d \in Suspended' : Len(awaits'[d]) # 0 /\ (<<d, 1>> \in V <=> <<d, 2>> \notin V)
        /\ \A d \in Suspended' : Len(awaits'[d]) = 2 => (<<d, 2>> \in held' <=> <<d, 1>> \in V)
    BY <1>14, <1>15
  <2>2. V = F \cup dropped' /\ F = Issued(pending', pool', heap', expired', port')
    BY DEF V, F
  <2>3. QED
    BY <1>4, <1>8, <1>9, <1>16, <2>1, <2>2, IocpInvNext
<1>18. QED
  BY <1>10, <1>12, <1>17 DEF IocpOK, Types

\* A wakeup is posted.
LEMMA WokenStep == ASSUME IocpOK, IocpStopHere \/ IocpWakeup PROVE IocpOK'
<1> DEFINE q == Append(port, Wakeup)
<1>1. /\ port' = q \/ (port' = port /\ at = "closed")
      /\ stop' \in {stop, TRUE} /\ waking' \in {waking, FALSE}
      /\ UNCHANGED <<at, ring, cross, out, ended, awaits, reap, held, pending, pool, heap, expired, work, dropped>>
  BY DEF IocpStopHere, IocpWakeup
<1>2. LoopTypes /\ CorosApart /\ IocpTypes /\ port \in Seq(Pkt)
  BY DEF IocpOK, Types, IocpTypes
<1>3. CorosApart' /\ Suspended' = Suspended
  BY <1>1, <1>2, CorosFramed DEF Types
<1>4. LoopTypes'
  BY <1>1, <1>2 DEF LoopTypes
<1>5. /\ q \in Seq(Pkt)
      /\ \A y : OpIn(y, q) <=> OpIn(y, port) \/ y = Wake
      /\ OpsDistinct(Ops, port) /\ (Wake \in Ops => ~OpIn(Wake, port)) => OpsDistinct(Ops, q)
  <2>1. Wake \in Woken /\ TRUE \in BOOLEAN
    BY DEF Woken
  <2>2. QED
    BY <1>2, <2>1, PacketPosted DEF Wakeup
<1> HIDE DEF q
<1>6. IocpTypes'
  BY <1>1, <1>2, <1>5 DEF IocpTypes
<1>7. (Defined' <=> Defined) /\ (Defined => port' = q)
  BY <1>1 DEF Defined
<1> DEFINE F == Issued(pending', pool', heap', expired', port')
<1>8. ASSUME Defined
      PROVE  /\ ObjectsApart(pending', pool', heap', expired', port')
             /\ F \cap dropped' = {} /\ F \cup dropped' = Flown \cup dropped
  <2>1. ObjectsApart(pending, pool, heap, expired, port) /\ Flown \cap dropped = {}
    BY <1>8 DEF IocpOK, IocpInv
  <2>2. Wake \notin Ops
    BY LoopAssumption DEF Ops
  <2>3. ObjectsApart(pending', pool', heap', expired', port')
    BY <1>1, <1>5, <1>7, <1>8, <2>1, <2>2 DEF ObjectsApart
  <2>4. F = Flown
    BY <1>1, <1>5, <1>7, <1>8, <2>2 DEF Issued, Flown
  <2>5. QED
    BY <1>1, <2>1, <2>3, <2>4
<1> HIDE DEF F
<1>9. QED
  BY <1>1, <1>3, <1>4, <1>6, <1>7, <1>8, IocpMoved DEF F, Types

\* The steps that move no object, and those after which nothing is required.
LEMMA IocpQuietStep ==
  ASSUME IocpOK,
         \/ (Drain \/ WorkDone("complete") \/ \E c \in Coro : Return(c)) /\ UNCHANGED iocpVars
         \/ Shared /\ UNCHANGED iocpVars
  PROVE  IocpOK'
<1>1. Types /\ LoopTypes /\ IocpTypes
  BY DEF IocpOK, Types
<1>2. IocpTypes'
  BY <1>1 DEF IocpTypes, iocpVars
<1>3. CASE Drain /\ UNCHANGED iocpVars
  <2>1. Types' /\ Suspended' = Suspended
    BY <1>1, <1>3, DrainStep DEF Types
  <2>2. (Defined' => Defined) /\ UNCHANGED <<awaits, reap, iocpVars>>
    BY <1>3 DEF Defined, Drain
  <2>3. QED
    BY <1>2, <2>1, <2>2, IocpLoopStep
<1>4. ASSUME NEW c \in Coro, Return(c) /\ UNCHANGED iocpVars
      PROVE  IocpOK'
  <2>1. Types' /\ Suspended' = Suspended
    BY <1>1, <1>4, ReturnStep DEF Types
  <2>2. (Defined' => Defined) /\ UNCHANGED <<awaits, reap, iocpVars>>
    BY <1>4 DEF Defined, Return
  <2>3. QED
    BY <1>2, <2>1, <2>2, IocpLoopStep
<1>5. ASSUME NEW c \in Coro, Spawn(c) /\ UNCHANGED iocpVars
      PROVE  IocpOK'
  <2>1. Types' /\ Suspended' = Suspended
    BY <1>1, <1>5, SpawnStep DEF Types
  <2>2. (Defined' => Defined) /\ UNCHANGED <<awaits, reap, iocpVars>>
    BY <1>5 DEF Defined, Spawn
  <2>3. QED
    BY <1>2, <2>1, <2>2, IocpLoopStep
<1>6. CASE (WorkDone("complete") \/ CanStop) /\ UNCHANGED iocpVars
  <2>1. /\ UNCHANGED <<ring, cross, out, ended, awaits, reap, iocpVars>>
        /\ at' \in Places /\ (Defined' => Defined)
        /\ stop' \in BOOLEAN /\ waking' \in BOOLEAN
    BY <1>1, <1>6 DEF WorkDone, CanStop, LoopTypes, queues, Places, Defined
  <2>2. CorosApart' /\ Suspended' = Suspended
    BY <1>1, <2>1, CorosFramed DEF Types
  <2>3. LoopTypes'
    BY <1>1, <2>1 DEF LoopTypes
  <2>4. QED
    BY <1>2, <2>1, <2>2, <2>3, IocpLoopStep DEF Types
<1>7. QED
  BY <1>3, <1>4, <1>5, <1>6 DEF Shared

LEMMA IocpEndStep == ASSUME IocpOK, StartDeinit \/ Discard \/ IocpDeinit PROVE IocpOK'
<1>1. /\ at' \in {"closing", "closed"}
      /\ port' = port \/ port' = <<>> \/ (port # <<>> /\ port' = Tail(port))
      /\ work' = work \/ work' = 0 \/ (work > 0 /\ work' = work - 1)
      /\ UNCHANGED <<ring, cross, out, ended, stop, waking, awaits, reap, held, pending, pool, heap, expired, dropped>>
  BY DEF StartDeinit, Discard, IocpDeinit, queues, iocpVars
<1>2. LoopTypes /\ CorosApart /\ IocpTypes /\ port \in Seq(Pkt) /\ work \in Nat
  BY DEF IocpOK, Types, IocpTypes
<1>3. CorosApart'
  BY <1>1, <1>2, CorosFramed DEF Types
<1>4. LoopTypes'
  BY <1>1, <1>2 DEF LoopTypes, Places
<1>5. port' \in Seq(Pkt)
  <2>1. port # <<>> => Tail(port) \in Seq(Pkt)
    BY <1>2, HeadTailProperties
  <2>2. QED
    BY <1>1, <1>2, <2>1, EmptySeq
<1>6. work' \in Nat
  BY <1>1, <1>2
<1>7. IocpTypes'
  BY <1>1, <1>2, <1>5, <1>6 DEF IocpTypes
<1>8. ~Defined'
  BY <1>1 DEF Defined
<1>9. QED
  BY <1>3, <1>4, <1>7, <1>8 DEF IocpOK, Types

\* At the beginning, and in every step.
LEMMA IocpStarts == ASSUME LoopInit, IocpInit PROVE IocpOK
<1>1. /\ at = "drain" /\ ring = <<>> /\ cross = <<>> /\ out = Coro /\ ended = {}
      /\ stop = FALSE /\ waking = FALSE /\ awaits = [c \in Coro |-> <<>>] /\ reap = 0
  BY DEF LoopInit
<1>2. /\ held = {} /\ pending = {} /\ pool = {} /\ dropped = {} /\ work = 0
      /\ heap = <<>> /\ expired = <<>> /\ port = <<>>
  BY DEF IocpInit
<1>3. /\ \A x : ~In(x, <<>>) /\ ~OpIn(x, <<>>)
      /\ \A X : Distinct(X, <<>>) /\ OpsDistinct(X, <<>>)
  BY DEF In, OpIn, Distinct, OpsDistinct
<1>4. CorosApart
  BY <1>1, <1>3 DEF CorosApart
<1>5. LoopTypes
  <2>1. \A c \in Coro : awaits[c] = <<>>
    BY <1>1
  <2>2. awaits \in [Coro -> Seq(Kind)] /\ \A c \in Coro : Len(awaits[c]) \in 0..2
    BY <1>1, <2>1, EmptySeq
  <2>3. QED
    BY <1>1, <2>2, EmptySeq DEF LoopTypes, Places
<1>6. IocpTypes
  BY <1>2, EmptySeq DEF IocpTypes
<1>7. ObjectsApart(pending, pool, heap, expired, port)
  BY <1>2, <1>3 DEF ObjectsApart
<1>8. Flown = {}
  BY <1>2, <1>3 DEF Flown, Issued
<1>9. Flown \cup dropped = {} /\ Flown \cap dropped = {}
  BY <1>2, <1>8
<1>10. Suspended = {}
  BY <1>1 DEF Suspended
<1>11. IocpWaits(Flown \cup dropped)
  BY <1>1, <1>2, <1>9, <1>10, FS_EmptySet DEF IocpWaits
<1>12. QED
  BY <1>4, <1>5, <1>6, <1>7, <1>9, <1>11 DEF IocpOK, Types, IocpInv

LEMMA IocpStep == ASSUME IocpOK, IocpNext PROVE IocpOK'
<1>1. CASE \/ (Drain \/ WorkDone("complete") \/ \E c \in Coro : Return(c)) /\ UNCHANGED iocpVars
           \/ Shared /\ UNCHANGED iocpVars
  BY <1>1, IocpQuietStep
<1>2. ASSUME NEW c \in Coro, NEW e \in IocpExpr, IocpAwait(c, e)
      PROVE  IocpOK'
  BY <1>2, IocpAwaitStep
<1>3. CASE IocpStopHere \/ IocpWakeup
  BY <1>3, WokenStep
<1>4. CASE GetNothing \/ GetFirst \/ GetLast
  BY <1>4, GetNothingStep, GetFirstStep, GetLastStep
<1>5. CASE StartDeinit \/ Discard \/ IocpDeinit
  BY <1>5, IocpEndStep
<1>6. CASE IocpLoop
  <2>1. CASE \E c \in Coro, e \in IocpExpr : IocpAwait(c, e)
    BY <1>2, <2>1, Zenon
  <2>2. CASE (Drain \/ WorkDone("complete") \/ \E c \in Coro : Return(c)) /\ UNCHANGED iocpVars
    BY <1>1, <2>2, Zenon
  <2>3. QED
    BY <1>3, <1>4, <1>5, <1>6, <2>1, <2>2, Zenon DEF IocpLoop
<1>7. CASE \E x \in pending : KernelPosts(x)
  BY <1>7, KernelPostsStep
<1>8. CASE \E c \in Coro : PoolPosts(c)
  BY <1>8, PoolPostsStep
<1>9. CASE TimerThread
  BY <1>9, TimePassesStep, TimerPostsStep DEF TimerThread
<1>10. QED
  BY <1>1, <1>3, <1>6, <1>7, <1>8, <1>9, Zenon DEF IocpNext
-----------------------------------------------------------------------------
(* Both.  The variables of the other backend stay as they were.             *)

UringIdle == sq = <<>> /\ toSubmit = 0 /\ kern = {Entry(Wake)} /\ cq = <<>> /\ efd = FALSE /\ fails = 0
IocpIdle == /\ held = {} /\ pending = {} /\ pool = {} /\ dropped = {} /\ work = 0
            /\ heap = <<>> /\ expired = <<>> /\ port = <<>>

BackendsOK == \/ backend = "io_uring" /\ UringOK /\ IocpIdle
              \/ backend = "iocp" /\ IocpOK /\ UringIdle

LEMMA BackendsStarts == BackendsInit => BackendsOK
<1> SUFFICES ASSUME BackendsInit
             PROVE  BackendsOK
  OBVIOUS
<1>1. UringOK /\ IocpOK
  BY UringStarts, IocpStarts DEF BackendsInit
<1>2. UringIdle /\ IocpIdle /\ backend \in {"io_uring", "iocp"}
  BY DEF BackendsInit, UringInit, IocpInit, UringIdle, IocpIdle
<1>3. QED
  BY <1>1, <1>2 DEF BackendsOK

LEMMA BackendsStep ==
  BackendsOK /\ [OnUring(UringNext) \/ OnIocp(IocpNext)]_backendVars => BackendsOK'
<1> SUFFICES ASSUME BackendsOK, [OnUring(UringNext) \/ OnIocp(IocpNext)]_backendVars
             PROVE  BackendsOK'
  OBVIOUS
<1>1. CASE OnUring(UringNext)
  <2>1. backend = "io_uring" /\ backend' = backend /\ UringOK /\ IocpIdle
    BY <1>1 DEF OnUring, BackendsOK
  <2>2. UringOK'
    BY <1>1, <2>1, UringStep DEF OnUring
  <2>3. IocpIdle'
    BY <1>1, <2>1 DEF OnUring, iocpVars, IocpIdle
  <2>4. QED
    BY <2>1, <2>2, <2>3 DEF BackendsOK
<1>2. CASE OnIocp(IocpNext)
  <2>1. backend = "iocp" /\ backend' = backend /\ IocpOK /\ UringIdle
    BY <1>2 DEF OnIocp, BackendsOK
  <2>2. IocpOK'
    BY <1>2, <2>1, IocpStep DEF OnIocp
  <2>3. UringIdle'
    BY <1>2, <2>1 DEF OnIocp, uringVars, UringIdle
  <2>4. QED
    BY <2>1, <2>2, <2>3 DEF BackendsOK
<1>3. CASE UNCHANGED backendVars
  <2>1. /\ UNCHANGED <<at, ring, cross, out, ended, stop, waking, awaits, reap>>
        /\ UNCHANGED iocpVars /\ UNCHANGED uringVars /\ backend' = backend
    BY <1>3 DEF backendVars, loopVars
  <2>2. UNCHANGED <<sq, toSubmit, kern, cq, efd, fails>>
    BY <2>1 DEF uringVars
  <2>3. ASSUME Types
        PROVE  Types' /\ Suspended' = Suspended
    BY <2>1, <2>3, CorosFramed DEF Types, LoopTypes
  <2>4. (Defined' => Defined)
    BY <2>1 DEF Defined
  <2>5. ASSUME UringOK
        PROVE  UringOK'
    <3>1. Types' /\ Suspended' = Suspended
      BY <2>3, <2>5 DEF UringOK
    <3>2. UringTypes'
      BY <2>2, <2>5 DEF UringOK, UringTypes
    <3>3. QED
      BY <2>1, <2>2, <2>4, <2>5, <3>1, <3>2, UringLoopStep
  <2>6. ASSUME IocpOK
        PROVE  IocpOK'
    <3>1. Types' /\ Suspended' = Suspended
      BY <2>3, <2>6 DEF IocpOK
    <3>2. IocpTypes'
      BY <2>1, <2>6 DEF IocpOK, IocpTypes, iocpVars
    <3>3. QED
      BY <2>1, <2>4, <2>6, <3>1, <3>2, IocpLoopStep
  <2>7. (UringIdle => UringIdle') /\ (IocpIdle => IocpIdle')
    BY <2>1 DEF UringIdle, IocpIdle, uringVars, iocpVars
  <2>8. QED
    BY <2>1, <2>5, <2>6, <2>7 DEF BackendsOK
<1>4. QED
  BY <1>1, <1>2, <1>3

-----------------------------------------------------------------------------
(* The wakeups.                                                             *)

\* A wakeup is on its way, or has come.
WakeComing == waking \/ efd \/ In(Wake, cq) \/ OpIn(Wake, port)

\* When there is something to wake the loop for, and it is not about to look anyway.
WakeInv ==
    /\ cross # <<>> => WakeComing \/ at = "drain" \/ ~Defined
    /\ backend = "io_uring" /\ at = "wait" /\ stop => WakeComing
    /\ backend = "iocp" /\ stop => WakeComing \/ at \in {"drain", "residue"} \/ ~Defined

\* A step that takes no wakeup keeps the others, unless the loop then looks.
LEMMA UringWakes == ASSUME BackendsOK, WakeInv, OnUring(UringNext) PROVE WakeInv'
<1>1. /\ backend = "io_uring" /\ backend' = backend /\ port' = port
      /\ UringNext /\ UringTypes /\ cq \in Seq(Woken)
  BY DEF OnUring, iocpVars, BackendsOK, UringOK, UringTypes
<1>2. OpIn(Wake, port)' <=> OpIn(Wake, port)
  BY <1>1 DEF OpIn
<1>3. cq' = cq => (In(Wake, cq)' <=> In(Wake, cq))
  BY DEF In
<1>4. CASE Drain /\ UNCHANGED uringVars
  BY <1>1, <1>4 DEF Drain, WakeInv
<1>5. CASE /\ WorkDone("submit") \/ PollSubmission \/ \E c \in Coro : Return(c)
           /\ UNCHANGED <<cq, efd>>
  <2>1. /\ at # "drain" /\ at' \in {at, "submit", "complete"} /\ at # "wait"
        /\ UNCHANGED <<cross, stop, waking>> /\ (Defined' <=> Defined)
    BY <1>5 DEF WorkDone, PollSubmission, Return, Resumes, queues, Defined
  <2>2. WakeComing' <=> WakeComing
    BY <1>2, <1>3, <1>5, <2>1 DEF WakeComing
  <2>3. QED
    BY <1>1, <2>1, <2>2 DEF WakeInv
<1>6. ASSUME NEW c \in Coro, NEW e \in UringExpr, UringAwait(c, e)
      PROVE  WakeInv'
  <2>1. /\ at \in {"work", "residue"} /\ at' \in {at, "undefined"}
        /\ UNCHANGED <<cross, stop, waking, cq, efd>>
    BY <1>6 DEF UringAwait, Resumes, uringVars, device
  <2>2. WakeComing' <=> WakeComing
    BY <1>2, <1>3, <2>1 DEF WakeComing
  <2>3. QED
    BY <1>1, <2>1, <2>2 DEF WakeInv, Defined
<1>7. CASE DoCompletion
  <2>1. /\ at = "complete" /\ at' = (IF stop THEN "drain" ELSE "wait")
        /\ UNCHANGED <<cross, stop, waking, cq, efd>>
    BY <1>7 DEF DoCompletion, queues, uringVars
  <2>2. WakeComing' <=> WakeComing
    BY <1>2, <1>3, <2>1 DEF WakeComing
  <2>3. QED
    BY <1>1, <2>1, <2>2 DEF WakeInv, Defined
<1>8. CASE WaitSubmit
  <2>1. /\ at = "wait" /\ at' \in {"drain", "wait"}
        /\ UNCHANGED <<cross, stop, waking, cq, efd>>
    BY <1>8 DEF WaitSubmit, queues
  <2>2. WakeComing' <=> WakeComing
    BY <1>2, <1>3, <2>1 DEF WakeComing
  <2>3. QED
    BY <1>1, <2>1, <2>2 DEF WakeInv, Defined
<1>9. CASE TakeWake \/ TakeCompletion
  BY <1>1, <1>9 DEF TakeWake, TakeCompletion, WakeInv
<1>10. CASE UringDeinit
  BY <1>1, <1>10 DEF UringDeinit, WakeInv, Defined
<1>11. CASE UringStopHere \/ UringWakeup
  <2>1. WakeComing'
    BY <1>11 DEF UringStopHere, UringWakeup, WakeComing
  <2>2. QED
    BY <1>1, <2>1 DEF WakeInv
<1>12. ASSUME NEW e \in kern, NEW ok \in BOOLEAN, KernelCompletes(e, ok)
       PROVE  WakeInv'
  <2> DEFINE y == <<e.op[1], 2>>
             n == Cardinality(IF ok THEN {} ELSE Follower(e))
  <2>1. /\ e.op # Wake /\ cq' = cq \o <<e.op>> \o [i \in 1..n |-> y]
        /\ UNCHANGED <<at, cross, stop, waking, efd>>
    BY <1>12 DEF KernelCompletes, loopVars
  <2>2. n \in Nat
    BY <1>1, <2>1, CancelledFew
  <2>3. e.op \in Woken /\ y \in Woken
    <3>1. e.op \in Ops
      BY <1>1, <2>1 DEF UringTypes, Sqes, Woken
    <3>2. QED
      BY <3>1 DEF Ops, Woken
  <2> HIDE DEF y, n
  <2>4. In(Wake, cq) => In(Wake, cq')
    <3> DEFINE r == cq \o <<e.op>> \o [i \in 1..n |-> y]
    <3>1. \A z : In(z, cq) => In(z, r)
      BY <1>1, <2>2, <2>3, PostedTogether
    <3> HIDE DEF r
    <3>2. cq' = r
      BY <2>1 DEF r
    <3>3. QED
      BY <3>1, <3>2
  <2>5. WakeComing => WakeComing'
    BY <1>2, <2>1, <2>4 DEF WakeComing, In
  <2>6. Defined' <=> Defined
    BY <2>1 DEF Defined
  <2>7. QED
    BY <1>1, <2>1, <2>5, <2>6 DEF WakeInv
<1>13. CASE KernelWakes
  <2>1. /\ cq' = Append(cq, Wake) /\ UNCHANGED <<at, cross, stop, waking>>
    BY <1>13 DEF KernelWakes, loopVars
  <2>2. In(Wake, cq')
    <3>1. Wake \in Woken
      BY DEF Woken
    <3>2. QED
      BY <1>1, <2>1, <3>1, Pushed
  <2>3. WakeComing'
    BY <2>2 DEF WakeComing, In
  <2>4. QED
    BY <1>1, <2>3 DEF WakeInv
<1>14. ASSUME NEW c \in Coro, Spawn(c) /\ UNCHANGED uringVars
       PROVE  WakeInv'
  <2>1. /\ ~waking /\ waking' = (cross = <<>>)
        /\ UNCHANGED <<at, stop, cq, efd>>
    BY <1>14 DEF Spawn, uringVars
  <2>2. CASE cross = <<>>
    <3>1. WakeComing'
      BY <2>1, <2>2 DEF WakeComing
    <3>2. QED
      BY <1>1, <3>1 DEF WakeInv
  <2>3. CASE cross # <<>>
    <3>1. WakeComing => WakeComing'
      BY <1>2, <1>3, <2>1 DEF WakeComing
    <3>2. Defined' <=> Defined
      BY <2>1 DEF Defined
    <3>3. QED
      BY <1>1, <2>1, <2>3, <3>1, <3>2 DEF WakeInv
  <2>4. QED
    BY <2>2, <2>3
<1>15. CASE CanStop
  <2>1. WakeComing'
    BY <1>15 DEF CanStop, WakeComing
  <2>2. QED
    BY <1>1, <2>1 DEF WakeInv
<1>16. CASE UringLoop
  <2>1. CASE \E c \in Coro, e \in UringExpr : UringAwait(c, e)
    BY <1>6, <2>1
  <2>2. CASE (Drain \/ WorkDone("submit") \/ \E c \in Coro : Return(c)) /\ UNCHANGED uringVars
    <3>1. UNCHANGED <<cq, efd>>
      BY <2>2 DEF uringVars
    <3>2. QED
      BY <1>4, <1>5, <2>2, <3>1
  <2>3. CASE PollSubmission
    <3>1. UNCHANGED <<cq, efd>>
      BY <2>3 DEF PollSubmission
    <3>2. QED
      BY <1>5, <2>3, <3>1
  <2>4. QED
    BY <1>7, <1>8, <1>9, <1>10, <1>11, <1>16, <2>1, <2>2, <2>3, Zenon DEF UringLoop
<1>17. CASE Shared /\ UNCHANGED uringVars
  BY <1>14, <1>15, <1>17 DEF Shared
<1>18. CASE \E e \in kern, ok \in BOOLEAN : KernelCompletes(e, ok)
  BY <1>12, <1>18
<1>19. QED
  BY <1>1, <1>11, <1>13, <1>16, <1>17, <1>18, Zenon DEF UringNext

\* What is issued takes no wakeup.
LEMMA IssueKeepsWake ==
  ASSUME IocpTypes, at # "closed", NEW p \in Seq(Pkt), NEW x \in Ops, NEW kind, Issue(x, kind, p)
  PROVE  OpIn(Wake, p) => OpIn(Wake, port')
<1>1. x \in Woken
  BY DEF Woken
<1>2. \/ port' = p
      \/ port' = Append(p, Packet(x, TRUE))
      \/ port' = Append(p, Packet(x, FALSE))
  BY DEF Issue, IssueSocket, IssueSync, IssueFile, IssueTimer, OnSyncCompletion
<1>3. \A r \in BOOLEAN : OpIn(Wake, p) => OpIn(Wake, Append(p, Packet(x, r)))
  BY <1>1, PacketPosted
<1>4. QED
  BY <1>2, <1>3

\* Nor does what is completed, while the port is open.
LEMMA PostKeepsWake ==
  ASSUME IocpTypes, NEW x \in Ops, OnSyncCompletion(x, port)
  PROVE  OpIn(Wake, port) => OpIn(Wake, port') \/ at = "closed"
BY CompletionPosted DEF IocpTypes

LEMMA IocpWakes == ASSUME BackendsOK, WakeInv, OnIocp(IocpNext) PROVE WakeInv'
<1>1. /\ backend = "iocp" /\ backend' = backend /\ cq' = cq /\ efd' = efd
      /\ IocpNext /\ IocpTypes /\ port \in Seq(Pkt)
  BY DEF OnIocp, uringVars, BackendsOK, IocpOK, IocpTypes
<1>2. In(Wake, cq)' <=> In(Wake, cq)
  BY <1>1 DEF In
<1>3. OpIn(Wake, port)' <=> OpIn(Wake, port')
  BY DEF OpIn
<1> DEFINE Kept == OpIn(Wake, port) => OpIn(Wake, port')
\* Nothing but a wakeup may be missed, and that only if the loop then looks.
<1>4. ASSUME UNCHANGED <<cross, stop, waking>>, at' = at, at # "closed" => Kept
      PROVE  WakeInv'
  <2>1. Defined' <=> Defined
    BY <1>4 DEF Defined
  <2>2. Defined => (WakeComing => WakeComing')
    BY <1>1, <1>2, <1>3, <1>4 DEF WakeComing, Defined
  <2>3. QED
    BY <1>1, <1>4, <2>1, <2>2 DEF WakeInv
<1>5. CASE Drain /\ UNCHANGED iocpVars
  BY <1>1, <1>5 DEF Drain, WakeInv
<1>6. CASE WorkDone("complete") /\ UNCHANGED iocpVars
  <2>1. /\ at = "work" /\ at' = "complete" /\ UNCHANGED <<cross, stop, waking, port>>
    BY <1>6 DEF WorkDone, queues, iocpVars
  <2>2. WakeComing' <=> WakeComing
    BY <1>1, <1>2, <1>3, <2>1 DEF WakeComing
  <2>3. QED
    BY <1>1, <2>1, <2>2 DEF WakeInv, Defined
<1>7. CASE (\E c \in Coro : Return(c)) /\ UNCHANGED iocpVars
  <2>1. /\ UNCHANGED <<cross, stop, waking, at, port>>
    BY <1>7 DEF Return, iocpVars
  <2>2. QED
    BY <1>4, <2>1
<1>8. ASSUME NEW c \in Coro, NEW e \in IocpExpr, IocpAwait(c, e)
      PROVE  WakeInv'
  <2>1. /\ UNCHANGED <<cross, stop, waking, at>> /\ Issue(<<c, 1>>, e[1], port) /\ at # "closed"
    BY <1>8 DEF IocpAwait, Resumes
  <2>2. <<c, 1>> \in Ops
    BY DEF Ops
  <2>3. Kept
    BY <1>1, <2>1, <2>2, IssueKeepsWake
  <2>4. QED
    BY <1>4, <2>1, <2>3
<1>9. CASE IocpStopHere \/ IocpWakeup
  <2>1. port' = Append(port, Wakeup) \/ (at = "closed" /\ at' = at)
    BY <1>9 DEF IocpStopHere, IocpWakeup
  <2>2. CASE port' = Append(port, Wakeup)
    <3>1. Wake \in Woken /\ TRUE \in BOOLEAN
      BY DEF Woken
    <3>2. OpIn(Wake, port')
      BY <1>1, <2>2, <3>1, PacketPosted DEF Wakeup
    <3>3. WakeComing'
      BY <1>3, <3>2 DEF WakeComing
    <3>4. QED
      BY <1>1, <3>3 DEF WakeInv
  <2>3. CASE at' = "closed"
    BY <1>1, <2>3 DEF WakeInv, Defined
  <2>4. QED
    BY <2>1, <2>2, <2>3
<1>10. CASE GetNothing \/ GetFirst \/ GetLast
  BY <1>1, <1>10 DEF GetNothing, GetFirst, GetLast, Dequeues, WakeInv
<1>11. CASE StartDeinit \/ Discard \/ IocpDeinit
  BY <1>1, <1>11 DEF StartDeinit, Discard, IocpDeinit, WakeInv, Defined
<1>12. ASSUME NEW c \in Coro, Spawn(c) /\ UNCHANGED iocpVars
       PROVE  WakeInv'
  <2>1. /\ ~waking /\ waking' = (cross = <<>>)
        /\ UNCHANGED <<at, stop, port>>
    BY <1>12 DEF Spawn, iocpVars
  <2>2. CASE cross = <<>>
    <3>1. WakeComing'
      BY <2>1, <2>2 DEF WakeComing
    <3>2. QED
      BY <1>1, <3>1 DEF WakeInv
  <2>3. CASE cross # <<>>
    <3>1. WakeComing => WakeComing'
      BY <1>1, <1>2, <1>3, <2>1 DEF WakeComing
    <3>2. Defined' <=> Defined
      BY <2>1 DEF Defined
    <3>3. QED
      BY <1>1, <2>1, <2>3, <3>1, <3>2 DEF WakeInv
  <2>4. QED
    BY <2>2, <2>3
<1>13. CASE CanStop
  <2>1. WakeComing'
    BY <1>13 DEF CanStop, WakeComing
  <2>2. QED
    BY <1>1, <2>1 DEF WakeInv
<1>14. ASSUME NEW x \in pending, KernelPosts(x)
       PROVE  WakeInv'
  <2>1. x \in Ops /\ OnSyncCompletion(x, port) /\ UNCHANGED <<cross, stop, waking, at>>
    BY <1>1, <1>14 DEF KernelPosts, loopVars, IocpTypes
  <2>2. QED
    BY <1>1, <1>4, <2>1, PostKeepsWake
<1>15. ASSUME NEW c \in Coro, PoolPosts(c)
       PROVE  WakeInv'
  <2>1. PICK x \in pool : OnSyncCompletion(x, port)
    BY <1>15 DEF PoolPosts
  <2>2. x \in Ops /\ UNCHANGED <<cross, stop, waking, at>>
    BY <1>1, <1>15 DEF PoolPosts, loopVars, IocpTypes
  <2>3. QED
    BY <1>1, <1>4, <2>1, <2>2, PostKeepsWake
<1>16. CASE TimerThread
  <2>1. UNCHANGED <<cross, stop, waking, at>>
    BY <1>16 DEF TimerThread, TimePasses, TakeExpired, TimerPosts, loopVars
  <2>2. CASE TimePasses \/ TakeExpired
    <3>1. port' = port
      BY <2>2 DEF TimePasses, TakeExpired
    <3>2. QED
      BY <1>4, <2>1, <3>1
  <2>3. CASE TimerPosts
    <3>1. expired # <<>> /\ expired \in Seq(Timer) /\ OnSyncCompletion(Head(expired).op, port)
      BY <1>1, <2>3 DEF TimerPosts, IocpTypes
    <3>2. Head(expired) \in Timer
      BY <3>1, HeadTailProperties
    <3>3. Head(expired).op \in Ops
      BY <3>2 DEF Timer
    <3>4. QED
      BY <1>1, <1>4, <2>1, <3>1, <3>3, PostKeepsWake
  <2>4. QED
    BY <1>16, <2>2, <2>3 DEF TimerThread
<1>17. CASE IocpLoop
  <2>1. CASE \E c \in Coro, e \in IocpExpr : IocpAwait(c, e)
    BY <1>8, <2>1
  <2>2. CASE (Drain \/ WorkDone("complete") \/ \E c \in Coro : Return(c)) /\ UNCHANGED iocpVars
    BY <1>5, <1>6, <1>7, <2>2, Zenon
  <2>3. QED
    BY <1>9, <1>10, <1>11, <1>17, <2>1, <2>2, Zenon DEF IocpLoop
<1>18. CASE Shared /\ UNCHANGED iocpVars
  BY <1>12, <1>13, <1>18 DEF Shared
<1>19. CASE \E x \in pending : KernelPosts(x)
  BY <1>14, <1>19
<1>20. CASE \E c \in Coro : PoolPosts(c)
  BY <1>15, <1>20
<1>21. QED
  BY <1>1, <1>9, <1>16, <1>17, <1>18, <1>19, <1>20, Zenon DEF IocpNext

LEMMA WakeStep ==
  BackendsOK /\ WakeInv /\ [OnUring(UringNext) \/ OnIocp(IocpNext)]_backendVars => WakeInv'
<1> SUFFICES ASSUME BackendsOK, WakeInv, [OnUring(UringNext) \/ OnIocp(IocpNext)]_backendVars
             PROVE  WakeInv'
  OBVIOUS
<1>1. ASSUME UNCHANGED backendVars
      PROVE  WakeInv'
  <2>1. UNCHANGED <<at, cross, stop, waking, efd, cq, port, backend>>
    BY <1>1 DEF backendVars, loopVars, uringVars, iocpVars
  <2>2. (Defined' <=> Defined) /\ (WakeComing' <=> WakeComing)
    BY <2>1 DEF Defined, WakeComing, In, OpIn
  <2>3. QED
    BY <2>1, <2>2 DEF WakeInv
<1>2. QED
  BY <1>1, UringWakes, IocpWakes

LEMMA WakeInvImplies == BackendsOK /\ WakeInv => WakeKept
<1> SUFFICES ASSUME BackendsOK, WakeInv, Asleep, cross # <<>> \/ stop
             PROVE  waking \/ efd
  BY DEF WakeKept
<1>1. ~In(Wake, <<>>) /\ ~OpIn(Wake, <<>>)
  BY DEF In, OpIn
<1>2. CASE backend = "io_uring"
  <2>1. at = "wait" /\ cq = <<>> /\ port = <<>>
    BY <1>2 DEF Asleep, BackendsOK, IocpIdle
  <2>2. WakeComing
    BY <1>2, <2>1 DEF WakeInv, Defined
  <2>3. QED
    BY <1>1, <2>1, <2>2 DEF WakeComing
<1>3. CASE backend = "iocp"
  <2>1. at = "complete" /\ cq = <<>> /\ port = <<>>
    BY <1>3 DEF Asleep, BackendsOK, UringIdle
  <2>2. WakeComing
    BY <1>3, <2>1 DEF WakeInv, Defined
  <2>3. QED
    BY <1>1, <2>1, <2>2 DEF WakeComing
<1>4. QED
  BY <1>2, <1>3 DEF BackendsOK

-----------------------------------------------------------------------------
(* The deadlines.                                                           *)

\* What the timer thread has taken has expired, is in the order of the deadlines,
\* and ahead of what it has not taken.
Deadlines ==
    /\ \A i, j \in 1..Len(expired) : i < j => expired[i].left <= expired[j].left
    /\ \A i \in 1..Len(expired) : expired[i].left <= 0
    /\ \A i \in 1..Len(expired), j \in 1..Len(heap) : expired[i].left <= heap[j].left

LEMMA LeftInt == ASSUME NEW s \in Seq(Timer) PROVE \A i \in 1..Len(s) : s[i].left \in Int
<1>1. \A i \in 1..Len(s) : s[i] \in Timer
  BY ElementOfSeq
<1>2. \A t \in Timer : t.left \in Int
  BY DEF Timer, MaxLate
<1>3. QED
  BY <1>1, <1>2

\* A timeout that is issued has not expired.
LEMMA IssueKeepsDeadlines ==
  ASSUME IocpTypes, Deadlines, NEW p, NEW x \in Ops, NEW kind, Issue(x, kind, p),
         expired' = expired
  PROVE  Deadlines'
<1>1. heap \in Seq(Timer) /\ expired \in Seq(Timer)
  BY DEF IocpTypes
<1>2. \A i \in 1..Len(expired) : expired[i].left \in Int
  BY <1>1, LeftInt
<1>3. heap' = heap \/ \E d \in Durations : heap' = Append(heap, [op |-> x, left |-> d])
  BY DEF Issue, IssueSocket, IssueSync, IssueFile, IssueTimer
<1>4. CASE heap' = heap
  BY <1>4 DEF Deadlines
<1>5. ASSUME NEW d \in Durations, heap' = Append(heap, [op |-> x, left |-> d])
      PROVE  Deadlines'
  <2> DEFINE t == [op |-> x, left |-> d]
  <2>1. t.left = d /\ d > 0 /\ d \in Int /\ t \in Timer
    BY DEF Durations, Timer, MaxLate
  <2> HIDE DEF t
  <2>2. /\ Len(heap') = Len(heap) + 1 /\ Len(heap) \in Nat
        /\ \A j \in 1..Len(heap) : heap'[j] = heap[j]
        /\ heap'[Len(heap) + 1] = t
    BY <1>1, <1>5, <2>1, AppendProperties, LenProperties DEF t
  <2>3. ASSUME NEW i \in 1..Len(expired), NEW j \in 1..Len(heap')
        PROVE  expired[i].left <= heap'[j].left
    <3>1. expired[i].left <= 0
      BY DEF Deadlines
    <3>2. CASE j \in 1..Len(heap)
      BY <2>2, <3>2 DEF Deadlines
    <3>3. CASE j = Len(heap) + 1
      BY <1>2, <2>1, <2>2, <3>1, <3>3
    <3>4. QED
      BY <2>2, <3>2, <3>3
  <2>4. QED
    BY <2>3 DEF Deadlines
<1>6. QED
  BY <1>3, <1>4, <1>5

\* What an action does with the timeouts.
LEMMA TimersKept ==
  ASSUME BackendsOK, OnUring(UringNext) \/ OnIocp(IocpNext)
  PROVE  \/ UNCHANGED <<heap, expired>>
         \/ IocpTypes /\ expired' = expired /\ \E x \in Ops : \E kind, p : Issue(x, kind, p)
         \/ IocpTypes /\ TimerThread
<1>1. CASE OnUring(UringNext)
  BY <1>1 DEF OnUring, iocpVars
<1>2. CASE OnIocp(IocpNext)
  <2>1. IocpOK /\ IocpTypes /\ IocpNext
    BY <1>2 DEF OnIocp, BackendsOK, IocpOK
  <2>2. ASSUME NEW c \in Coro, NEW e \in IocpExpr, IocpAwait(c, e)
        PROVE  expired' = expired /\ \E x \in Ops : \E kind, p : Issue(x, kind, p)
    <3>1. <<c, 1>> \in Ops
      BY DEF Ops
    <3>2. QED
      BY <2>2, <3>1 DEF IocpAwait
  <2>3. ASSUME GetFirst
        PROVE  expired' = expired /\ \E x \in Ops : \E kind, p : Issue(x, kind, p)
    <3> DEFINE x == <<Head(port).op[1], 2>>
    <3>1. x \in Ops
      BY <2>1, <2>3 DEF GetFirst, IocpTypes
    <3>2. QED
      BY <2>3, <3>1 DEF GetFirst
  <2>4. CASE \/ (Drain \/ WorkDone("complete") \/ \E c \in Coro : Return(c)) /\ UNCHANGED iocpVars
             \/ Shared /\ UNCHANGED iocpVars
    BY <2>4 DEF iocpVars
  <2>5. CASE \/ IocpStopHere \/ IocpWakeup \/ GetNothing \/ GetLast
             \/ StartDeinit \/ Discard \/ IocpDeinit
    BY <2>5 DEF IocpStopHere, IocpWakeup, GetNothing, GetLast, StartDeinit, Discard, IocpDeinit,
                iocpVars
  <2>6. CASE \/ \E x \in pending : KernelPosts(x)
             \/ \E c \in Coro : PoolPosts(c)
    BY <2>6 DEF KernelPosts, PoolPosts
  <2>7. CASE IocpLoop
    BY <2>1, <2>2, <2>3, <2>4, <2>5, <2>7, Zenon DEF IocpLoop
  <2>8. QED
    BY <2>1, <2>4, <2>5, <2>6, <2>7, Zenon DEF IocpNext
<1>3. QED
  BY <1>1, <1>2

LEMMA TimerThreadDeadlines ==
  ASSUME IocpTypes, Deadlines, TimerThread
  PROVE  Deadlines'
<1>1. heap \in Seq(Timer) /\ expired \in Seq(Timer)
  BY DEF IocpTypes
<1>2. /\ \A i \in 1..Len(expired) : expired[i].left \in Int
      /\ \A i \in 1..Len(heap) : heap[i].left \in Int
  BY <1>1, LeftInt
<1>3. CASE TimePasses
  <2>1. /\ Len(heap') = Len(heap) /\ Len(expired') = Len(expired)
        /\ \A i \in 1..Len(heap) : heap'[i].left = heap[i].left - 1
        /\ \A i \in 1..Len(expired) : expired'[i].left = expired[i].left - 1
    BY <1>3, TimePassed
  <2>2. /\ \A i \in 1..Len(heap) : heap[i].left \in Int
        /\ \A i \in 1..Len(expired) : expired[i].left \in Int
    BY <1>2
  <2>3. ASSUME NEW i \in 1..Len(expired')
        PROVE  /\ expired'[i].left <= 0
               /\ \A j \in 1..Len(expired') : i < j => expired'[i].left <= expired'[j].left
    <3>1. i \in 1..Len(expired) /\ expired[i].left <= 0 /\ expired[i].left \in Int
      BY <2>1, <2>2 DEF Deadlines
    <3>2. ASSUME NEW j \in 1..Len(expired'), i < j
          PROVE  expired'[i].left <= expired'[j].left
      <4>1. j \in 1..Len(expired) /\ expired[i].left <= expired[j].left
        BY <2>1, <3>1, <3>2 DEF Deadlines
      <4>2. QED
        BY <2>1, <2>2, <3>1, <4>1
    <3>3. QED
      BY <2>1, <3>1, <3>2
  <2>4. \A i \in 1..Len(expired'), j \in 1..Len(heap') : expired'[i].left <= heap'[j].left
    BY <2>1, <2>2 DEF Deadlines
  <2>5. QED
    BY <2>3, <2>4 DEF Deadlines
<1>4. CASE TakeExpired
  <2>1. /\ \A i, j \in 1..Len(expired') : i < j => expired'[i].left <= expired'[j].left
        /\ \A i \in 1..Len(expired') : expired'[i].left <= 0
        /\ \A i \in 1..Len(heap') : heap'[i].left > 0
        /\ heap' \in Seq(Timer) /\ expired' \in Seq(Timer)
    BY <1>4, ExpiredTaken
  <2>2. /\ \A i \in 1..Len(expired') : expired'[i].left \in Int
        /\ \A i \in 1..Len(heap') : heap'[i].left \in Int
    BY <2>1, LeftInt
  <2>3. ASSUME NEW i \in 1..Len(expired'), NEW j \in 1..Len(heap')
        PROVE  expired'[i].left <= heap'[j].left
    <3>1. expired'[i].left <= 0 /\ heap'[j].left > 0
      BY <2>1
    <3>2. QED
      BY <2>2, <3>1
  <2>4. QED
    BY <2>1, <2>3 DEF Deadlines
<1>5. CASE TimerPosts
  <2>1. expired # <<>> /\ expired' = Tail(expired) /\ heap' = heap
    BY <1>5 DEF TimerPosts
  <2>2. /\ Len(expired') = Len(expired) - 1 /\ Len(expired) \in Nat
        /\ \A i \in 1..Len(expired') : expired'[i] = expired[i + 1] /\ i + 1 \in 1..Len(expired)
    BY <1>1, <2>1, HeadTailProperties, LenProperties
  <2>3. \A i, j \in 1..Len(expired') : i < j => i + 1 < j + 1
    BY <2>2
  <2>4. QED
    BY <2>1, <2>2, <2>3 DEF Deadlines
<1>6. QED
  BY <1>3, <1>4, <1>5 DEF TimerThread

LEMMA DeadlinesStep ==
  BackendsOK /\ Deadlines /\ [OnUring(UringNext) \/ OnIocp(IocpNext)]_backendVars => Deadlines'
<1> SUFFICES ASSUME BackendsOK, Deadlines, [OnUring(UringNext) \/ OnIocp(IocpNext)]_backendVars
             PROVE  Deadlines'
  OBVIOUS
<1>1. CASE UNCHANGED <<heap, expired>>
  BY <1>1 DEF Deadlines
<1>2. ASSUME IocpTypes, expired' = expired, NEW x \in Ops, NEW kind, NEW p, Issue(x, kind, p)
      PROVE  Deadlines'
  BY <1>2, IssueKeepsDeadlines
<1>3. CASE IocpTypes /\ TimerThread
  BY <1>3, TimerThreadDeadlines
<1>4. UNCHANGED backendVars => UNCHANGED <<heap, expired>>
  BY DEF backendVars, iocpVars
<1>5. QED
  BY <1>1, <1>2, <1>3, <1>4, TimersKept

\* What is posted expired first.
LEMMA DeadlinesImply ==
  BackendsOK /\ BackendsOK' /\ Deadlines /\ [OnUring(UringNext) \/ OnIocp(IocpNext)]_backendVars
  => \A i \in DOMAIN expired :
          expired[i].op \notin {t.op : t \in ToSet(expired' \o heap')}
          => \A t \in ToSet(expired' \o heap') : expired[i].left <= t.left
<1> SUFFICES ASSUME BackendsOK, BackendsOK', Deadlines,
                    [OnUring(UringNext) \/ OnIocp(IocpNext)]_backendVars,
                    NEW i \in DOMAIN expired,
                    expired[i].op \notin {t.op : t \in ToSet(expired' \o heap')},
                    NEW u \in ToSet(expired' \o heap')
             PROVE  expired[i].left <= u.left
  OBVIOUS
<1>1. /\ heap \in Seq(Timer) /\ expired \in Seq(Timer)
      /\ heap' \in Seq(Timer) /\ expired' \in Seq(Timer)
  BY EmptySeq DEF BackendsOK, IocpOK, IocpTypes, IocpIdle
<1>2. /\ expired' \o heap' \in Seq(Timer)
      /\ \A t \in Timer : In(t, expired' \o heap') <=> In(t, expired') \/ In(t, heap')
  BY <1>1, Joined
<1>3. /\ \A t : t \in ToSet(expired' \o heap') <=> In(t, expired' \o heap')
      /\ ToSet(expired' \o heap') \subseteq Timer
  BY <1>2, SetOfSeq
<1>4. i \in 1..Len(expired) /\ DOMAIN expired = 1..Len(expired) /\ Len(expired) \in Nat
  BY <1>1, LenProperties
\* It is no more among what the timer thread has taken.
<1>5. \A j \in 1..Len(expired') : expired'[j].op # expired[i].op
  <2> SUFFICES ASSUME NEW j \in 1..Len(expired'), expired'[j].op = expired[i].op
               PROVE  FALSE
    OBVIOUS
  <2>1. In(expired'[j], expired') /\ expired'[j] \in Timer
    BY <1>1, ElementOfSeq DEF In
  <2>2. expired'[j] \in ToSet(expired' \o heap')
    BY <1>2, <1>3, <2>1
  <2>3. QED
    BY <2>2
<1>6. expired' # expired
  BY <1>4, <1>5
<1>7. CASE IocpTypes /\ TimePasses
  <2>1. /\ Len(expired') = Len(expired)
        /\ \A j \in 1..Len(expired) : expired'[j].op = expired[j].op
    BY <1>7, TimePassed
  <2>2. QED
    BY <1>4, <1>5, <2>1
<1>8. CASE IocpTypes /\ TakeExpired
  <2>1. expired = <<>>
    BY <1>8, ExpiredTaken
  <2>2. QED
    BY <1>4, <2>1
<1>9. CASE TimerPosts
  <2>1. expired # <<>> /\ expired' = Tail(expired) /\ heap' = heap
    BY <1>9 DEF TimerPosts
  <2>2. /\ Len(expired') = Len(expired) - 1
        /\ \A j \in 1..Len(expired') : expired'[j] = expired[j + 1] /\ j + 1 \in 1..Len(expired)
    BY <1>1, <1>4, <2>1, HeadTailProperties
  <2>3. i = 1
    <3>1. SUFFICES ASSUME i # 1
                   PROVE  FALSE
      OBVIOUS
    <3>2. i - 1 \in 1..Len(expired') /\ (i - 1) + 1 = i
      BY <1>4, <2>2, <3>1
    <3>3. expired'[i - 1] = expired[i]
      BY <2>2, <3>2
    <3>4. QED
      BY <1>5, <3>2, <3>3
  <2>4. u \in Timer /\ (In(u, expired') \/ In(u, heap))
    BY <1>2, <1>3, <2>1
  <2>5. CASE In(u, heap)
    BY <1>4, <2>5 DEF In, Deadlines
  <2>6. CASE In(u, expired')
    <3>1. PICK j \in 1..Len(expired') : expired'[j] = u
      BY <2>6 DEF In
    <3>2. u = expired[j + 1] /\ j + 1 \in 1..Len(expired) /\ 1 < j + 1 /\ 1 \in 1..Len(expired)
      BY <1>4, <2>2, <3>1
    <3>3. QED
      BY <2>3, <3>2 DEF Deadlines
  <2>7. QED
    BY <2>4, <2>5, <2>6
<1>10. UNCHANGED backendVars => expired' = expired
  BY DEF backendVars, iocpVars
<1>11. QED
  BY <1>6, <1>7, <1>8, <1>9, <1>10, TimersKept DEF TimerThread

-----------------------------------------------------------------------------
(* What the invariant says of the places an operation is in.                *)

LEMMA UringCount ==
  ASSUME UringTypes, EntriesApart(sq, kern, cq), NEW x \in Ops
  PROVE  UringInFlight(x) = IF x \in Flying(sq, kern, cq) THEN 1 ELSE 0
<1>1. sq \in Seq(Sqes) /\ cq \in Seq(Woken)
  BY DEF UringTypes
<1> DEFINE a == Cardinality({e \in kern : e.op = x})
           b == Cardinality({i \in DOMAIN sq : sq[i].op = x})
           d == Cardinality({i \in DOMAIN cq : cq[i] = x})
<1>2. a = IF OpOf(x, kern) THEN 1 ELSE 0
  <2>1. CASE OpOf(x, kern)
    <3>1. PICK e \in kern : e.op = x
      BY <2>1 DEF OpOf
    <3>2. {f \in kern : f.op = x} = {e}
      BY <3>1 DEF EntriesApart
    <3>3. QED
      BY <2>1, <3>2, FS_Singleton
  <2>2. CASE ~OpOf(x, kern)
    <3>1. {f \in kern : f.op = x} = {}
      BY <2>2 DEF OpOf
    <3>2. QED
      BY <2>2, <3>1, FS_EmptySet
  <2>3. QED
    BY <2>1, <2>2
<1>3. b = IF OpIn(x, sq) THEN 1 ELSE 0
  BY <1>1, CountOpIn DEF EntriesApart
<1>4. d = IF In(x, cq) THEN 1 ELSE 0
  BY <1>1, CountIn DEF EntriesApart
<1>5. UringInFlight(x) = a + b + d
  BY DEF UringInFlight
<1> HIDE DEF a, b, d
<1>6. (OpIn(x, sq) => ~OpOf(x, kern) /\ ~In(x, cq)) /\ (OpOf(x, kern) => ~In(x, cq))
  BY DEF EntriesApart
<1>7. x \in Flying(sq, kern, cq) <=> OpIn(x, sq) \/ OpOf(x, kern) \/ In(x, cq)
  BY DEF Flying
<1>8. QED
  BY <1>2, <1>3, <1>4, <1>5, <1>6, <1>7

LEMMA IocpCount ==
  ASSUME IocpTypes, ObjectsApart(pending, pool, heap, expired, port), NEW x \in Ops
  PROVE  IocpInFlight(x) = IF x \in Flown THEN 1 ELSE 0
<1>1. heap \in Seq(Timer) /\ expired \in Seq(Timer) /\ port \in Seq(Pkt)
  BY DEF IocpTypes
<1> DEFINE a == Cardinality({x} \cap pending)
           b == Cardinality({x} \cap pool)
           d == Cardinality({i \in DOMAIN heap : heap[i].op = x})
           e == Cardinality({i \in DOMAIN expired : expired[i].op = x})
           f == Cardinality({i \in DOMAIN port : port[i].op = x})
<1>2. ASSUME NEW S
      PROVE  Cardinality({x} \cap S) = IF x \in S THEN 1 ELSE 0
  <2>1. CASE x \in S
    <3>1. {x} \cap S = {x}
      BY <2>1
    <3>2. QED
      BY <2>1, <3>1, FS_Singleton
  <2>2. CASE x \notin S
    <3>1. {x} \cap S = {}
      BY <2>2
    <3>2. QED
      BY <2>2, <3>1, FS_EmptySet
  <2>3. QED
    BY <2>1, <2>2
<1>3. d = IF OpIn(x, heap) THEN 1 ELSE 0
  BY <1>1, CountOpIn DEF ObjectsApart
<1>4. e = IF OpIn(x, expired) THEN 1 ELSE 0
  BY <1>1, CountOpIn DEF ObjectsApart
<1>5. f = IF OpIn(x, port) THEN 1 ELSE 0
  BY <1>1, CountOpIn DEF ObjectsApart
<1>6. a = (IF x \in pending THEN 1 ELSE 0) /\ b = (IF x \in pool THEN 1 ELSE 0)
  BY <1>2
<1>7. IocpInFlight(x) = a + b + d + e + f
  BY DEF IocpInFlight
<1> HIDE DEF a, b, d, e, f
<1>8. /\ x \in pending => x \notin pool /\ ~OpIn(x, heap) /\ ~OpIn(x, expired) /\ ~OpIn(x, port)
      /\ x \in pool => ~OpIn(x, heap) /\ ~OpIn(x, expired) /\ ~OpIn(x, port)
      /\ OpIn(x, heap) => ~OpIn(x, expired) /\ ~OpIn(x, port)
      /\ OpIn(x, expired) => ~OpIn(x, port)
  BY DEF ObjectsApart
<1>9. x \in Flown <=> \/ x \in pending \/ x \in pool
                      \/ OpIn(x, heap) \/ OpIn(x, expired) \/ OpIn(x, port)
  BY DEF Flown, Issued
<1>10. QED
  BY <1>3, <1>4, <1>5, <1>6, <1>7, <1>8, <1>9

\* The types as the runs state them.
LEMMA TypesMatch == BackendsOK => UringTypeOK /\ IocpTypeOK
<1> SUFFICES ASSUME BackendsOK
             PROVE  UringTypeOK /\ IocpTypeOK
  OBVIOUS
<1>1. LoopTypes
  BY DEF BackendsOK, UringOK, IocpOK, Types
<1>2. LoopTypeOK
  <2>1. \A c \in Coro : Len(awaits[c]) <= 2
    <3> SUFFICES ASSUME NEW c \in Coro
                 PROVE  Len(awaits[c]) <= 2
      OBVIOUS
    <3>1. Len(awaits[c]) \in 0..2
      BY <1>1 DEF LoopTypes
    <3> DEFINE n == Len(awaits[c])
    <3>2. n \in 0..2
      BY <3>1
    <3> HIDE DEF n
    <3>3. n <= 2
      BY <3>2
    <3>4. QED
      BY <3>3 DEF n
  <2>2. out \cup ended \subseteq Coro
    BY <1>1 DEF LoopTypes
  <2>3. QED
    BY <1>1, <2>1, <2>2 DEF LoopTypes, LoopTypeOK
<1>3. UringTypeOK
  <2>1. CASE UringTypes
    <3>1. sq \in Seq(Sqes) /\ DOMAIN sq = 1..Len(sq) /\ \A i \in 1..Len(sq) : sq[i] \in Sqes
      BY <2>1, LenProperties, ElementOfSeq DEF UringTypes
    <3>2. \A e \in Sqes : e.op = Wake \/ e.op \in Coro \X {1, 2}
      BY DEF Sqes, Woken, Ops
    <3>3. QED
      BY <1>2, <2>1, <3>1, <3>2 DEF UringTypes, UringTypeOK
  <2>2. CASE UringIdle
    <3>1. Len(sq) = 0 /\ DOMAIN sq = {}
      BY <2>2 DEF UringIdle
    <3>2. Entries \in Nat /\ MaxFail \in Nat
      BY UringAssumption
    <3>3. toSubmit = 0 /\ efd = FALSE /\ fails = 0
      BY <2>2 DEF UringIdle
    <3>4. efd \in BOOLEAN
      BY <3>3
    <3>5. Len(sq) <= Entries /\ toSubmit \in Nat /\ fails \in 0..MaxFail
      BY <3>1, <3>2, <3>3
    <3>6. QED
      BY <1>2, <3>1, <3>4, <3>5 DEF UringTypeOK
  <2>3. QED
    BY <2>1, <2>2 DEF BackendsOK, UringOK
<1>4. IocpTypeOK
  <2>1. CASE IocpTypes
    <3>1. heap \in Seq(Timer) /\ DOMAIN heap = 1..Len(heap) /\ \A i \in 1..Len(heap) : heap[i] \in Timer
      BY <2>1, LenProperties, ElementOfSeq DEF IocpTypes
    <3>2. \A t \in Timer : t.left \in (0 - MaxLate)..2
      BY DEF Timer
    <3>3. QED
      BY <1>2, <2>1, <3>1, <3>2 DEF IocpTypes, IocpTypeOK, Ops
  <2>2. CASE IocpIdle
    BY <1>2, <2>2 DEF IocpIdle, IocpTypeOK
  <2>3. QED
    BY <2>1, <2>2 DEF BackendsOK, IocpOK
<1>5. QED
  BY <1>3, <1>4

\* From the operations in flight, F, to what is said of each.
LEMMA Matched ==
  ASSUME NEW F \in SUBSET Ops,
         \A x \in Ops : InFlight(x) = IF x \in F THEN 1 ELSE 0,
         F \cap dropped = {}, IsFiniteSet(F \cup dropped), reap = Cardinality(F \cup dropped),
         \A x \in F : x[2] <= Len(awaits[x[1]]),
         \A c \in Suspended : \E k \in Awaited(c) : <<c, k>> \in Ops /\ <<c, k>> \in F \cup dropped
  PROVE  /\ \A x \in Coro \X {1, 2} : InFlight(x) <= 1
         /\ \A x \in Coro \X {1, 2} : InFlight(x) = 1 => x[2] \in Awaited(x[1])
         /\ \A c \in Suspended : \E k \in Awaited(c) : InFlight(<<c, k>>) = 1 \/ <<c, k>> \in dropped
         /\ reap = Cardinality({x \in Coro \X {1, 2} : InFlight(x) = 1}) + Cardinality(dropped)
<1>1. \A x \in Ops : InFlight(x) <= 1
  <2> SUFFICES ASSUME NEW x \in Ops
               PROVE  InFlight(x) <= 1
    OBVIOUS
  <2>1. InFlight(x) = 0 \/ InFlight(x) = 1
    OBVIOUS
  <2>2. QED
    BY <2>1
<1>2. \A x \in Ops : InFlight(x) = 1 <=> x \in F
  OBVIOUS
<1>3. ASSUME NEW x \in Ops, InFlight(x) = 1
      PROVE  x[2] \in Awaited(x[1])
  <2>1. x \in F /\ x[2] <= Len(awaits[x[1]]) /\ x[2] \in {1, 2}
    BY <1>2, <1>3 DEF Ops
  <2> DEFINE n == Len(awaits[x[1]])
             k == x[2]
  <2>2. k <= n /\ k \in {1, 2}
    BY <2>1
  <2> HIDE DEF n, k
  <2>3. k \in 1..n
    BY <2>2
  <2>4. QED
    BY <2>3 DEF Awaited, n, k
<1>4. \A c \in Suspended : \E k \in Awaited(c) : InFlight(<<c, k>>) = 1 \/ <<c, k>> \in dropped
  BY <1>2
<1>5. {x \in Ops : InFlight(x) = 1} = F
  BY <1>2
<1>6. reap = Cardinality(F) + Cardinality(dropped)
  <2>1. IsFiniteSet(F) /\ IsFiniteSet(dropped)
    <3>1. F \subseteq F \cup dropped /\ dropped \subseteq F \cup dropped
      OBVIOUS
    <3>2. QED
      BY <3>1, FS_Subset
  <2>2. Cardinality(F \cup dropped) = Cardinality(F) + Cardinality(dropped) - Cardinality(F \cap dropped)
    BY <2>1, FS_Union
  <2>3. Cardinality(F \cap dropped) = 0
    BY FS_EmptySet
  <2>4. Cardinality(F) \in Nat /\ Cardinality(dropped) \in Nat
    BY <2>1, FS_CardinalityType
  <2>5. QED
    BY <2>2, <2>3, <2>4
<1>7. QED
  BY <1>1, <1>3, <1>4, <1>5, <1>6 DEF Ops

LEMMA OKImpliesMatched == BackendsOK => CompletionsMatched
<1> SUFFICES ASSUME BackendsOK, Defined
             PROVE  /\ \A x \in Coro \X {1, 2} : InFlight(x) <= 1
                    /\ \A x \in Coro \X {1, 2} : InFlight(x) = 1 => x[2] \in Awaited(x[1])
                    /\ \A c \in Suspended : \E k \in Awaited(c) : InFlight(<<c, k>>) = 1 \/ <<c, k>> \in dropped
                    /\ reap = Cardinality({x \in Coro \X {1, 2} : InFlight(x) = 1}) + Cardinality(dropped)
  BY TypesMatch DEF CompletionsMatched
<1>1. \A c \in Suspended : c \in Coro /\ Len(awaits[c]) \in 0..2
  BY DEF BackendsOK, UringOK, IocpOK, Types, LoopTypes, Suspended
<1>2. CASE backend = "io_uring"
  <2> DEFINE F == Flying(sq, kern, cq)
  <2>1. UringTypes /\ EntriesApart(sq, kern, cq) /\ UringWaits(F) /\ dropped = {}
    BY <1>2 DEF BackendsOK, UringOK, UringInv, IocpIdle
  <2>2. F \in SUBSET Ops
    BY DEF Flying
  <2>3. \A x \in Ops : InFlight(x) = IF x \in F THEN 1 ELSE 0
    BY <1>2, <2>1, UringCount DEF InFlight
  <2> HIDE DEF F
  <2>4. /\ \A x \in F : x[2] <= Len(awaits[x[1]])
        /\ \A c \in Suspended : Len(awaits[c]) # 0 /\ <<c, Len(awaits[c])>> \in F
        /\ IsFiniteSet(F) /\ reap = Cardinality(F)
    BY <2>1 DEF UringWaits
  <2>5. F \cap dropped = {} /\ F \cup dropped = F
    BY <2>1
  <2>6. ASSUME NEW c \in Suspended
        PROVE  \E k \in Awaited(c) : <<c, k>> \in Ops /\ <<c, k>> \in F \cup dropped
    <3> DEFINE n == Len(awaits[c])
    <3>1. n \in 0..2 /\ n # 0 /\ <<c, n>> \in F
      BY <1>1, <2>4
    <3> HIDE DEF n
    <3>2. n \in 1..n
      BY <3>1
    <3>3. n \in Awaited(c)
      BY <3>2 DEF Awaited, n
    <3>4. QED
      BY <2>2, <2>5, <3>1, <3>3
  <2>7. QED
    BY <2>2, <2>3, <2>4, <2>5, <2>6, Matched
<1>3. CASE backend = "iocp"
  <2>1. /\ IocpTypes /\ ObjectsApart(pending, pool, heap, expired, port)
        /\ IocpWaits(Flown \cup dropped) /\ Flown \cap dropped = {}
    BY <1>3 DEF BackendsOK, IocpOK, IocpInv
  <2>2. Flown \in SUBSET Ops /\ dropped \subseteq Ops
    BY <2>1 DEF Flown, Issued, IocpTypes
  <2>3. \A x \in Ops : InFlight(x) = IF x \in Flown THEN 1 ELSE 0
    BY <1>3, <2>1, IocpCount DEF InFlight
  <2>4. /\ \A x \in Flown \cup dropped : x[1] \in Suspended /\ x[2] <= Len(awaits[x[1]])
        /\ \A c \in Suspended : <<c, 1>> \in Flown \cup dropped <=> <<c, 2>> \notin Flown \cup dropped
        /\ IsFiniteSet(Flown \cup dropped) /\ reap = Cardinality(Flown \cup dropped)
    BY <2>1 DEF IocpWaits
  <2>5. ASSUME NEW c \in Suspended
        PROVE  \E k \in Awaited(c) : <<c, k>> \in Ops /\ <<c, k>> \in Flown \cup dropped
    <3>1. PICK k \in {1, 2} : <<c, k>> \in Flown \cup dropped
      BY <2>4
    <3> DEFINE x == <<c, k>>
               n == Len(awaits[c])
    <3>2. x[1] = c /\ x[2] = k /\ x \in Flown \cup dropped
      BY <3>1
    <3>3. k <= n
      BY <2>4, <3>2
    <3>4. n \in 0..2
      BY <1>1
    <3> HIDE DEF n
    <3>5. k \in 1..n
      BY <3>3, <3>4
    <3>6. k \in Awaited(c)
      BY <3>5 DEF Awaited, n
    <3>7. QED
      BY <2>2, <3>1, <3>6
  <2>6. QED
    BY <2>2, <2>3, <2>1, <2>4, <2>5, Matched
<1>4. QED
  BY <1>2, <1>3 DEF BackendsOK

LEMMA OKImpliesChained == BackendsOK => ChainInOrder
<1> SUFFICES ASSUME BackendsOK, Defined, NEW c \in Suspended,
                    Len(awaits[c]) = 2, <<c, 1>> \notin dropped
             PROVE  IF backend = "io_uring"
                    THEN LET there == {e.op : e \in kern \cup ToSet(sq)} IN
                         <<c, 1>> \in there => <<c, 2>> \in there
                    ELSE InFlight(<<c, 1>>) = 1 <=> <<c, 2>> \in held
  BY Zenon DEF ChainInOrder
<1>1. c \in Coro /\ <<c, 1>> \in Ops
  BY DEF Suspended, Ops
<1>2. CASE backend = "io_uring"
  <2> DEFINE there == {e.op : e \in kern \cup ToSet(sq)}
  <2>1. sq \in Seq(Sqes) /\ ChainsLinked(awaits, sq, kern, cq)
    BY <1>2 DEF BackendsOK, UringOK, UringTypes, UringInv
  <2>2. \A x : (\E e \in ToSet(sq) : e.op = x) <=> OpIn(x, sq)
    BY <2>1, SetOfSeq
  <2>3. \A x : x \in there <=> OpOf(x, kern) \/ OpIn(x, sq)
    BY <2>2 DEF OpOf
  <2>4. OpOf(<<c, 1>>, kern) => OpOf(<<c, 2>>, kern)
    BY <1>1, <2>1 DEF ChainsLinked, OpOf
  <2>5. OpIn(<<c, 1>>, sq) => OpIn(<<c, 2>>, sq)
    BY <1>1, <2>1 DEF ChainsLinked, OpIn
  <2> HIDE DEF there
  <2>6. <<c, 1>> \in there => <<c, 2>> \in there
    BY <2>3, <2>4, <2>5
  <2>7. QED
    BY <1>2, <2>6 DEF there
<1>3. CASE backend = "iocp"
  <2>1. /\ IocpTypes /\ ObjectsApart(pending, pool, heap, expired, port)
        /\ IocpWaits(Flown \cup dropped)
    BY <1>3 DEF BackendsOK, IocpOK, IocpInv
  <2>2. InFlight(<<c, 1>>) = IF <<c, 1>> \in Flown THEN 1 ELSE 0
    BY <1>1, <1>3, <2>1, IocpCount DEF InFlight
  <2>3. <<c, 2>> \in held <=> <<c, 1>> \in Flown \cup dropped
    BY <2>1 DEF IocpWaits
  <2>4. QED
    BY <1>3, <2>2, <2>3
<1>4. QED
  BY <1>2, <1>3 DEF BackendsOK
-----------------------------------------------------------------------------
\* Whoever waits is waited for by exactly one completion of each operation that it
\* handed over, and requests_to_reap counts them (io_uring_awaiter,
\* win_awaiter_base, handle_completion).
THEOREM Accounted == BackendsSpec => []CompletionsMatched
<1>1. BackendsInit => BackendsOK
  BY BackendsStarts
<1>2. BackendsOK /\ [OnUring(UringNext) \/ OnIocp(IocpNext)]_backendVars => BackendsOK'
  BY BackendsStep
<1>3. BackendsOK => CompletionsMatched
  BY OKImpliesMatched
<1>4. QED
  BY <1>1, <1>2, <1>3, PTL DEF BackendsSpec

\* The second operation of a chain begins when the first has ended (uring_link_io,
\* chained_awaiter).
THEOREM Chained == BackendsSpec => []ChainInOrder
<1>1. BackendsInit => BackendsOK
  BY BackendsStarts
<1>2. BackendsOK /\ [OnUring(UringNext) \/ OnIocp(IocpNext)]_backendVars => BackendsOK'
  BY BackendsStep
<1>3. BackendsOK => ChainInOrder
  BY OKImpliesChained
<1>4. QED
  BY <1>1, <1>2, <1>3, PTL DEF BackendsSpec

\* The loop does not sleep over a coroutine of cross_queue, or over can_stop, with
\* no wakeup on its way (co_spawn, can_stop, wakeup).
THEOREM Woke == BackendsSpec => []WakeKept
<1>1. BackendsInit => BackendsOK /\ WakeInv
  <2>1. BackendsInit => WakeInv
    BY DEF BackendsInit, LoopInit, WakeInv
  <2>2. QED
    BY <2>1, BackendsStarts
<1>2. BackendsOK /\ WakeInv /\ [OnUring(UringNext) \/ OnIocp(IocpNext)]_backendVars
      => BackendsOK' /\ WakeInv'
  BY BackendsStep, WakeStep
<1>3. BackendsOK /\ WakeInv => WakeKept
  BY WakeInvImplies
<1>4. QED
  BY <1>1, <1>2, <1>3, PTL DEF BackendsSpec

\* Timeouts are posted in the order of their deadlines (win_timer_thread::worker).
THEOREM InOrderOfDeadlines == BackendsSpec => TimersInOrder
<1> DEFINE Posts == \A i \in DOMAIN expired :
              expired[i].op \notin {t.op : t \in ToSet(expired' \o heap')}
              => \A t \in ToSet(expired' \o heap') : expired[i].left <= t.left
<1>1. BackendsInit => BackendsOK /\ Deadlines
  <2>1. BackendsInit => Deadlines
    BY DEF BackendsInit, IocpInit, Deadlines
  <2>2. QED
    BY <2>1, BackendsStarts
<1>2. BackendsOK /\ Deadlines /\ [OnUring(UringNext) \/ OnIocp(IocpNext)]_backendVars
      => BackendsOK' /\ Deadlines'
  BY BackendsStep, DeadlinesStep
<1>3. BackendsOK /\ BackendsOK' /\ Deadlines /\ [OnUring(UringNext) \/ OnIocp(IocpNext)]_backendVars
      => Posts
  BY DeadlinesImply
<1>4. BackendsOK /\ BackendsOK' /\ Deadlines /\ [OnUring(UringNext) \/ OnIocp(IocpNext)]_backendVars
      => [Posts]_<<heap, expired>>
  BY <1>3, Zenon
<1>5. BackendsSpec => [][Posts]_<<heap, expired>>
  <2> HIDE DEF Posts
  <2>1. QED
    BY <1>1, <1>2, <1>4, PTL DEF BackendsSpec
<1>6. QED
  BY <1>5 DEF TimersInOrder

=============================================================================
