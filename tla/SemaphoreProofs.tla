---------------------------- MODULE SemaphoreProofs ----------------------------
(***************************************************************************)
(* Proofs about Semaphore, for any finite sets of coroutines and contexts, *)
(* any first count and any updates: who waits is kept, how far the counter *)
(* falls, no wakeup is lost, and waiters are served in their order.        *)
(***************************************************************************)
EXTENDS Semaphore, SequenceTheorems, FiniteSetTheorems, TLAPS

-----------------------------------------------------------------------------
(* The inductive invariant.                                                 *)

\* x is on s; and nobody is on s twice; and nobody is on s and t.
In(x, s) == \E i \in 1..Len(s) : s[i] = x
Distinct(s) == \A i, j \in 1..Len(s) : s[i] = s[j] => i = j
Apart(s, t) == \A x \in Coro : ~(In(x, s) /\ In(x, t))

\* Only a coroutine that runs is inside acquire or release, one of them has the
\* lists in its hands, and a release has units to give until it has given them.
PlaceInv ==
    /\ \A c \in Coro : pc[c] \notin {"idle", "waiting"} => current[home[c]] = c
    /\ \A c \in Coro : notifier = c <=> pc[c] = "reverse"
    /\ \A c \in Coro : notifier # c => taken[c] = <<>> /\ line[c] = <<>>
    /\ \A c \in Coro : pc[c] \in {"try", "reverse", "subtract"} => todo[c] > 0
    /\ \A c \in Coro : pc[c] \notin InRelease => todo[c] = 0

\* to_resume_ as a release leaves it that has found all of it consumed, and has
\* found nobody else so far.
Left == IF notifier \in Coro /\ line[notifier] = <<>> THEN toResume ELSE <<>>

\* A list, or a release, still points to x's awaiter (PointedTo, in positions).
Points(x) == \/ In(x, stack) \/ In(x, toResume)
             \/ \E d \in Coro : x = picked[d] \/ In(x, taken[d]) \/ In(x, line[d])

\* Whoever is linked, chosen or left behind is so once, and whoever is about to
\* be linked is not.
OnceInv ==
    /\ Distinct(WaitQueue) /\ Distinct(Left) /\ Apart(WaitQueue, Left)
    /\ \A d \in Coro : ~In(picked[d], WaitQueue) /\ ~In(picked[d], Left)
    /\ \A d, e \in Coro : picked[d] = picked[e] /\ picked[d] \in Coro => d = e
    /\ \A c \in Coro : pc[c] = "insert" => ~Points(c)
    /\ \A c \in Coro : In(c, Left) => consumed[c]

\* Whoever waits is linked or chosen, and whoever has served itself is queued:
\* nobody has when it looks at the counter again.
KeptInv ==
    /\ \A c \in Coro : pc[c] \in {"recheck", "waiting"} /\ ~consumed[c] /\ ~posted[c]
                         => In(c, WaitQueue) \/ c \in Chosen
    /\ \A c \in Coro : pc[c] = "waiting" /\ consumed[c] => posted[c]
    /\ \A c \in Coro : pc[c] \in {"insert", "recheck"} => ~consumed[c]

\* c sleeps and nobody has chosen it.
Sleeps(c) == pc[c] = "waiting" /\ ~posted[c]

\* While somebody sleeps on a list the units that are there are in flight, and
\* this without those of a release that has found nobody before that one came.
UnitsInv ==
    /\ (\E c \in Coro : Sleeps(c) /\ In(c, WaitQueue)) => counter <= InFlight
    /\ \A d \in Coro : (/\ notifier = d /\ line[d] = <<>>
                        /\ \E c \in Coro : Sleeps(c) /\ In(c, stack))
                         => counter <= InFlight - todo[d]

Defined == undefined = "nothing"
IInv == /\ TypeOK /\ PlaceInv /\ OvergrantBounded
        /\ Defined => OnceInv /\ KeptInv /\ (gaveUp \/ UnitsInv)
-----------------------------------------------------------------------------
(* Sequences.                                                               *)

LEMMA Indices ==
  ASSUME NEW s \in Seq(Coro)
  PROVE  /\ Len(s) \in Nat /\ DOMAIN s = 1..Len(s)
         /\ \A i \in 1..Len(s) : s[i] \in Coro
         /\ \A x : x \in ToSet(s) <=> In(x, s)
<1>1. Len(s) \in Nat /\ DOMAIN s = 1..Len(s)
  BY LenProperties
<1>2. \A i \in 1..Len(s) : s[i] \in Coro
  BY ElementOfSeq
<1>3. \A x : x \in ToSet(s) <=> In(x, s)
  BY <1>1 DEF ToSet, In
<1>4. QED
  BY <1>1, <1>2, <1>3

LEMMA EmptyList ==
  /\ <<>> \in Seq(Coro) /\ Len(<<>>) = 0
  /\ \A x : ~In(x, <<>>)
  /\ Distinct(<<>>) /\ Reverse(<<>>) = <<>>
<1>1. <<>> \in Seq(Coro) /\ Len(<<>>) = 0
  BY EmptySeq
<1>2. QED
  BY <1>1 DEF In, Distinct, Reverse

\* What is on two lists, one behind the other.
LEMMA Joined ==
  ASSUME NEW s \in Seq(Coro), NEW t \in Seq(Coro)
  PROVE  /\ s \o t \in Seq(Coro) /\ Len(s \o t) = Len(s) + Len(t)
         /\ \A i \in 1..Len(s) : (s \o t)[i] = s[i]
         /\ \A i \in 1..Len(t) : (s \o t)[Len(s) + i] = t[i]
         /\ \A i \in Len(s) + 1..Len(s) + Len(t) : (s \o t)[i] = t[i - Len(s)]
         /\ \A x : In(x, s \o t) <=> In(x, s) \/ In(x, t)
         /\ Distinct(s \o t) <=> Distinct(s) /\ Distinct(t) /\ Apart(s, t)
<1> DEFINE u == s \o t
           m == Len(s)
           n == Len(t)
<1>1. m \in Nat /\ n \in Nat /\ \A i \in 1..m : s[i] \in Coro
  BY Indices
<1>2. /\ u \in Seq(Coro) /\ Len(u) = m + n
      /\ \A i \in 1..m + n : u[i] = IF i <= m THEN s[i] ELSE t[i - m]
  BY ConcatProperties
<1> HIDE DEF u, m, n
<1>3. /\ \A i \in 1..m : u[i] = s[i]
      /\ \A i \in 1..n : u[m + i] = t[i]
      /\ \A i \in m + 1..m + n : u[i] = t[i - m]
  <2>1. \A i \in 1..m : i \in 1..m + n /\ i <= m
    BY <1>1
  <2>2. \A i \in 1..n : m + i \in 1..m + n /\ ~(m + i <= m) /\ (m + i) - m = i
    BY <1>1
  <2>3. \A i \in m + 1..m + n : i \in 1..m + n /\ ~(i <= m)
    BY <1>1
  <2>4. QED
    BY <1>2, <2>1, <2>2, <2>3
<1>4. \A i \in 1..m + n : i \in 1..m \/ i - m \in 1..n
  BY <1>1
<1>5. \A i \in 1..n : m + i \in 1..m + n
  BY <1>1
<1>6. \A i \in 1..m : i \in 1..m + n
  BY <1>1
<1>7. ASSUME NEW x
      PROVE  In(x, u) <=> In(x, s) \/ In(x, t)
  <2>1. In(x, u) <=> \E i \in 1..m + n : u[i] = x
    BY <1>2 DEF In
  <2>2. (In(x, s) <=> \E i \in 1..m : s[i] = x) /\ (In(x, t) <=> \E i \in 1..n : t[i] = x)
    BY DEF In, m, n
  <2>3. \A i \in 1..m + n : i \in 1..m \/ (i - m \in 1..n /\ u[i] = t[i - m])
    BY <1>1, <1>2
  <2>4. QED
    BY <1>3, <1>5, <1>6, <2>1, <2>2, <2>3
<1>8. ASSUME Distinct(u)
      PROVE  Distinct(s) /\ Distinct(t) /\ Apart(s, t)
  <2>1. \A i, j \in 1..m + n : u[i] = u[j] => i = j
    BY <1>2, <1>8 DEF Distinct
  <2>2. \A i, j \in 1..m : s[i] = s[j] => i = j
    BY <1>3, <1>6, <2>1
  <2>3. ASSUME NEW i \in 1..n, NEW j \in 1..n, t[i] = t[j]
        PROVE  i = j
    <3>1. m + i = m + j
      BY <1>3, <1>5, <2>1, <2>3
    <3>2. QED
      BY <1>1, <3>1
  <2>4. ASSUME NEW x \in Coro, In(x, s), In(x, t)
        PROVE  FALSE
    <3>1. PICK i \in 1..m : s[i] = x
      BY <2>4 DEF In, m
    <3>2. PICK j \in 1..n : t[j] = x
      BY <2>4 DEF In, n
    <3>3. i = m + j
      BY <1>3, <1>5, <1>6, <2>1, <3>1, <3>2
    <3>4. QED
      BY <1>1, <3>3
  <2>5. QED
    BY <2>2, <2>3, <2>4 DEF Distinct, Apart, m, n
<1>9. ASSUME Distinct(s), Distinct(t), Apart(s, t), NEW i \in 1..m + n, NEW j \in 1..m + n,
             u[i] = u[j]
      PROVE  i = j
  <2>1. /\ \A k, l \in 1..m : s[k] = s[l] => k = l
        /\ \A k, l \in 1..n : t[k] = t[l] => k = l
    BY <1>9 DEF Distinct, m, n
  <2>2. \A k \in 1..m, l \in 1..n : s[k] # t[l]
    BY <1>1, <1>9 DEF Apart, In, m, n
  <2>3. \A k \in 1..m + n : \/ k \in 1..m /\ u[k] = s[k]
                            \/ k - m \in 1..n /\ u[k] = t[k - m]
    BY <1>1, <1>2
  <2>4. CASE i \in 1..m /\ u[i] = s[i]
    BY <1>9, <2>1, <2>2, <2>3, <2>4
  <2>5. CASE i - m \in 1..n /\ u[i] = t[i - m]
    <3>1. j - m \in 1..n /\ u[j] = t[j - m]
      BY <1>9, <2>2, <2>3, <2>5
    <3>2. i - m = j - m
      BY <1>9, <2>1, <2>5, <3>1
    <3>3. QED
      BY <1>1, <3>2
  <2>6. QED
    BY <2>3, <2>4, <2>5
<1>10. QED
  BY <1>2, <1>3, <1>7, <1>8, <1>9 DEF Distinct, u, m, n

LEMMA Reversed ==
  ASSUME NEW s \in Seq(Coro)
  PROVE  /\ Reverse(s) \in Seq(Coro) /\ Len(Reverse(s)) = Len(s)
         /\ \A i \in 1..Len(s) : Reverse(s)[i] = s[(Len(s) - i) + 1]
         /\ \A x : In(x, Reverse(s)) <=> In(x, s)
<1> DEFINE r == Reverse(s)
           n == Len(s)
<1>1. n \in Nat /\ \A i \in 1..n : s[i] \in Coro /\ (n - i) + 1 \in 1..n
  BY Indices
<1>2. r = [i \in 1..n |-> s[(n - i) + 1]]
  BY DEF Reverse
<1> HIDE DEF r, n
<1>3. r \in [1..n -> Coro]
  BY <1>1, <1>2
<1>4. r \in Seq(Coro) /\ Len(r) = n
  BY <1>1, <1>3, SeqDef, LenProperties
<1>5. \A i \in 1..n : r[i] = s[(n - i) + 1]
  BY <1>2
<1>6. ASSUME NEW x
      PROVE  In(x, r) <=> In(x, s)
  <2>1. (In(x, r) <=> \E i \in 1..n : r[i] = x) /\ (In(x, s) <=> \E i \in 1..n : s[i] = x)
    BY <1>4 DEF In, n
  <2>2. ASSUME NEW i \in 1..n
        PROVE  s[i] = r[(n - i) + 1]
    <3>1. (n - i) + 1 \in 1..n /\ (n - ((n - i) + 1)) + 1 = i
      BY <1>1
    <3>2. QED
      BY <1>5, <3>1
  <2>3. QED
    BY <1>1, <1>5, <2>1, <2>2
<1>7. QED
  BY <1>4, <1>5, <1>6 DEF r, n

\* The one that is pushed on a list is the last of the list reversed.
LEMMA ReversedPush ==
  ASSUME NEW s \in Seq(Coro), NEW x \in Coro
  PROVE  /\ <<x>> \o s \in Seq(Coro)
         /\ Reverse(<<x>> \o s) = Reverse(s) \o <<x>>
<1> DEFINE one == <<x>>
           t == one \o s
           n == Len(s)
           r == Reverse(s)
<1>1. one \in Seq(Coro) /\ Len(one) = 1 /\ one[1] = x
  OBVIOUS
<1>2. n \in Nat
  BY Indices
<1> HIDE DEF one
<1>3. /\ t \in Seq(Coro) /\ Len(t) = 1 + n /\ t[1] = x
      /\ \A i \in 1..n : t[1 + i] = s[i]
  <2>1. /\ t \in Seq(Coro) /\ Len(t) = Len(one) + n
        /\ \A i \in 1..Len(one) : t[i] = one[i]
        /\ \A i \in 1..n : t[Len(one) + i] = s[i]
    BY <1>1, Joined
  <2>2. QED
    BY <1>1, <2>1
<1>4. r \in Seq(Coro) /\ Len(r) = n /\ \A i \in 1..n : r[i] = s[(n - i) + 1]
  BY Reversed
<1>5. /\ r \o one \in Seq(Coro) /\ Len(r \o one) = n + 1 /\ (r \o one)[n + 1] = x
      /\ \A i \in 1..n : (r \o one)[i] = r[i]
  <2>1. /\ r \o one \in Seq(Coro) /\ Len(r \o one) = Len(r) + Len(one)
        /\ \A i \in 1..Len(r) : (r \o one)[i] = r[i]
        /\ \A i \in 1..Len(one) : (r \o one)[Len(r) + i] = one[i]
    BY <1>1, <1>4, Joined
  <2>2. QED
    BY <1>1, <1>4, <2>1
<1>6. /\ Reverse(t) \in Seq(Coro) /\ Len(Reverse(t)) = 1 + n
      /\ \A i \in 1..1 + n : Reverse(t)[i] = t[((1 + n) - i) + 1]
  <2>1. /\ Reverse(t) \in Seq(Coro) /\ Len(Reverse(t)) = Len(t)
        /\ \A i \in 1..Len(t) : Reverse(t)[i] = t[(Len(t) - i) + 1]
    BY <1>3, Reversed
  <2>2. QED
    BY <1>3, <2>1
<1> HIDE DEF t, n, r
<1>7. ASSUME NEW i \in 1..1 + n
      PROVE  Reverse(t)[i] = (r \o one)[i]
  <2>1. CASE i = n + 1
    <3>1. ((1 + n) - i) + 1 = 1
      BY <1>2, <2>1
    <3>2. QED
      BY <1>3, <1>5, <1>6, <2>1, <3>1
  <2>2. CASE i # n + 1
    <3>1. i \in 1..n /\ (n - i) + 1 \in 1..n /\ ((1 + n) - i) + 1 = 1 + ((n - i) + 1)
      BY <1>2, <2>2
    <3>2. QED
      BY <1>3, <1>4, <1>5, <1>6, <3>1
  <2>3. QED
    BY <2>1, <2>2
<1>8. Reverse(t) = r \o one
  <2>1. Len(Reverse(t)) = Len(r \o one)
    BY <1>2, <1>5, <1>6
  <2>2. \A i \in 1..Len(Reverse(t)) : Reverse(t)[i] = (r \o one)[i]
    BY <1>6, <1>7
  <2>3. QED
    BY <1>5, <1>6, <2>1, <2>2, SeqEqual
<1>9. QED
  BY <1>3, <1>8 DEF t, r, one

\* A set of natural numbers that is not empty has a least element.
LEMMA LeastExists ==
  ASSUME NEW S \in SUBSET Nat, S # {}
  PROVE  Min(S) \in S /\ \A g \in S : Min(S) <= g
<1> DEFINE R == OpToRel(<, Nat)
<1>1. IsWellFoundedOn(R, Nat)
  BY NatLessThanWellFounded
<1>2. \A x, y \in Nat : <<y, x>> \in R <=> y < x
  BY SMT DEF OpToRel
<1> HIDE DEF R
<1>3. PICK x \in S : \A y \in S : ~ (<<y, x>> \in R)
  BY <1>1, WFMin, Zenon
<1>4. \A y \in S : x <= y
  <2>1. \A y \in S : ~(y < x) /\ x \in Nat /\ y \in Nat
    BY <1>2, <1>3
  <2>2. QED
    BY <2>1
<1>5. QED
  BY <1>4 DEF Min

\* Skip drops what is consumed in front.
LEMMA Skipped ==
  ASSUME NEW s \in Seq(Coro)
  PROVE  \E m \in 0..Len(s) :
            /\ \A i \in 1..m : consumed[s[i]]
            /\ m < Len(s) => ~consumed[s[m + 1]]
            /\ Skip(s) \in Seq(Coro) /\ Len(Skip(s)) = Len(s) - m
            /\ \A i \in 1..Len(s) - m : Skip(s)[i] = s[m + i]
<1> DEFINE fresh == {i \in DOMAIN s : ~consumed[s[i]]}
           n == Len(s)
<1>1. n \in Nat /\ DOMAIN s = 1..n /\ \A i \in 1..n : s[i] \in Coro
  BY Indices
<1>2. fresh \in SUBSET Nat /\ fresh \subseteq 1..n
  BY <1>1
<1>3. Skip(s) = IF fresh = {} THEN <<>> ELSE SubSeq(s, Min(fresh), n)
  BY DEF Skip
<1>4. \A i \in 1..n : i \in fresh <=> ~consumed[s[i]]
  BY <1>1
<1> HIDE DEF fresh, n
<1>5. CASE fresh = {}
  <2>1. Skip(s) = <<>>
    BY <1>3, <1>5
  <2>2. <<>> \in Seq(Coro) /\ Len(<<>>) = 0
    BY EmptyList
  <2>3. n \in 0..n /\ n - n = 0 /\ ~(n < n)
    BY <1>1
  <2>4. \A i \in 1..n : consumed[s[i]]
    BY <1>4, <1>5
  <2>5. QED
    BY <2>1, <2>2, <2>3, <2>4 DEF n
<1>6. CASE fresh # {}
  <2> DEFINE k == Min(fresh)
  <2>1. k \in fresh /\ \A g \in fresh : k <= g
    BY <1>2, <1>6, LeastExists
  <2>2. k \in 1..n /\ Skip(s) = SubSeq(s, k, n)
    BY <1>2, <1>3, <1>6, <2>1
  <2> HIDE DEF k
  <2>3. \A i \in k..n : s[i] \in Coro
    BY <1>1, <2>2
  <2>4. /\ SubSeq(s, k, n) \in Seq(Coro)
        /\ Len(SubSeq(s, k, n)) = IF k <= n THEN n - k + 1 ELSE 0
        /\ \A i \in 1..n - k + 1 : SubSeq(s, k, n)[i] = s[k + i - 1]
    BY <1>1, <2>2, <2>3, SubSeqProperties
  <2>5. k - 1 \in 0..n /\ n - (k - 1) = n - k + 1 /\ k <= n /\ (k - 1) + 1 = k
    BY <1>1, <2>2
  <2>6. \A i \in 1..k - 1 : consumed[s[i]]
    <3>1. \A i \in 1..k - 1 : i \in 1..n /\ ~(k <= i)
      BY <1>1, <2>2
    <3>2. QED
      BY <1>4, <2>1, <3>1
  <2>7. ~consumed[s[k]]
    BY <1>4, <2>1, <2>2
  <2>8. \A i \in 1..n - (k - 1) : Skip(s)[i] = s[(k - 1) + i]
    <3>1. \A i \in 1..n - k + 1 : k + i - 1 = (k - 1) + i
      BY <1>1, <2>2
    <3>2. QED
      BY <2>2, <2>4, <2>5, <3>1
  <2>9. /\ Skip(s) \in Seq(Coro) /\ Len(Skip(s)) = n - (k - 1)
    BY <2>2, <2>4, <2>5
  <2>10. QED
    BY <2>5, <2>6, <2>7, <2>8, <2>9 DEF n
<1>7. QED
  BY <1>5, <1>6

-----------------------------------------------------------------------------
(* The units in flight.                                                     *)

LEMMA Constants_ == /\ home \in [Coro -> Ctx] /\ NoCoro \notin Coro
                    /\ IsFiniteSet(Coro) /\ IsFiniteSet(Ctx)
                    /\ Desired \in Nat /\ MaxUpdate \in Nat
                    /\ Cardinality(Ctx) \in Nat /\ Cardinality(Ctx) >= 1
<1>1. Cardinality(Ctx) \in Nat /\ Cardinality(Ctx) # 0
  BY HomeAssumption, FS_CardinalityType, FS_EmptySet
<1>2. Cardinality(Ctx) >= 1
  BY <1>1
<1>3. QED
  BY <1>1, <1>2, HomeAssumption, CountAssumption

\* The units in flight when f is how many each release has, those of c, and those
\* of the others.
UnitsIn(f) == {u \in Coro \X (1..MaxUpdate) : u[2] <= f[u[1]]}
UnitsOf(c, n) == {c} \X (1..n)
OthersIn(f, c) == {u \in UnitsIn(f) : u[1] # c}

LEMMA FlyingIn ==
  ASSUME NEW f \in [Coro -> 0..MaxUpdate]
  PROVE  /\ IsFiniteSet(UnitsIn(f)) /\ Cardinality(UnitsIn(f)) \in Nat
         /\ \A c \in Coro : /\ Cardinality(UnitsIn(f)) = Cardinality(OthersIn(f, c)) + f[c]
                            /\ Cardinality(OthersIn(f, c)) \in Nat
         /\ (\A c \in Coro : f[c] = 0) => Cardinality(UnitsIn(f)) = 0
<1> DEFINE M == 1..MaxUpdate
<1>1. MaxUpdate \in Nat /\ IsFiniteSet(Coro \X M)
  <2>1. MaxUpdate \in Nat /\ IsFiniteSet(Coro)
    BY Constants_
  <2>2. IsFiniteSet(M)
    BY <2>1, FS_Interval
  <2> HIDE DEF M
  <2>3. QED
    BY <2>1, <2>2, FS_Product
<1>2. UnitsIn(f) \in SUBSET (Coro \X M)
  BY DEF UnitsIn
<1>3. IsFiniteSet(UnitsIn(f)) /\ Cardinality(UnitsIn(f)) \in Nat
  BY <1>1, <1>2, FS_Subset, FS_CardinalityType
<1>4. ASSUME NEW c \in Coro
      PROVE  /\ Cardinality(OthersIn(f, c)) \in Nat
             /\ Cardinality(UnitsIn(f)) = Cardinality(OthersIn(f, c)) + f[c]
  <2> DEFINE n == f[c]
             own == UnitsOf(c, n)
  <2>1. n \in Nat /\ n <= MaxUpdate
    BY <1>1
  <2>2. OthersIn(f, c) \in SUBSET UnitsIn(f)
    BY DEF OthersIn
  <2>3. IsFiniteSet(OthersIn(f, c)) /\ Cardinality(OthersIn(f, c)) \in Nat
    BY <1>3, <2>2, FS_Subset, FS_CardinalityType
  <2>4. IsFiniteSet({c}) /\ Cardinality({c}) = 1
    BY FS_Singleton
  <2>5. IsFiniteSet(1..n) /\ Cardinality(1..n) = n
    <3>1. /\ IsFiniteSet(1..n)
          /\ Cardinality(1..n) = IF 1 > n THEN 0 ELSE n - 1 + 1
      BY <2>1, FS_Interval
    <3>2. QED
      BY <2>1, <3>1
  <2>6. IsFiniteSet(own) /\ Cardinality(own) = 1 * n
    <3> DEFINE one == {c}
               interval == 1..n
    <3>1. own = one \X interval
      BY DEF UnitsOf
    <3> HIDE DEF one, interval, own
    <3>2. QED
      BY <2>4, <2>5, <3>1, FS_Product DEF one, interval
  <2>7. UnitsIn(f) = OthersIn(f, c) \cup own
    <3>1. ASSUME NEW u \in UnitsIn(f)
          PROVE  u \in OthersIn(f, c) \/ u \in own
      <4>1. u[1] \in Coro /\ u[2] \in M /\ u = <<u[1], u[2]>> /\ u[2] <= f[u[1]]
        BY DEF UnitsIn
      <4>2. CASE u[1] = c
        <5>1. u[2] \in 1..n
          BY <2>1, <4>1, <4>2
        <5>2. QED
          BY <4>1, <4>2, <5>1 DEF UnitsOf
      <4>3. CASE u[1] # c
        BY <4>3 DEF OthersIn
      <4>4. QED
        BY <4>2, <4>3
    <3>2. ASSUME NEW u \in own
          PROVE  u \in UnitsIn(f)
      <4>1. u[1] = c /\ u[2] \in 1..n /\ u = <<u[1], u[2]>>
        BY DEF UnitsOf
      <4>2. u[2] \in M /\ u[2] <= f[c]
        BY <1>1, <2>1, <4>1
      <4>3. QED
        BY <4>1, <4>2 DEF UnitsIn
    <3>3. QED
      BY <2>2, <3>1, <3>2
  <2>8. OthersIn(f, c) \cap own = {}
    BY DEF OthersIn, UnitsOf
  <2>9. Cardinality({}) = 0
    BY FS_EmptySet
  <2> HIDE DEF own, n
  <2>10. Cardinality(UnitsIn(f)) = Cardinality(OthersIn(f, c)) + Cardinality(own) - 0
    <3>1. Cardinality(OthersIn(f, c) \cup own)
             = Cardinality(OthersIn(f, c)) + Cardinality(own) - Cardinality(OthersIn(f, c) \cap own)
      BY <2>3, <2>6, FS_Union
    <3>2. QED
      BY <2>7, <2>8, <2>9, <3>1
  <2>11. QED
    BY <2>1, <2>3, <2>6, <2>10 DEF n
<1>5. ASSUME \A c \in Coro : f[c] = 0
      PROVE  Cardinality(UnitsIn(f)) = 0
  <2>1. UnitsIn(f) = {}
    BY <1>1, <1>5 DEF UnitsIn
  <2>2. QED
    BY <2>1, FS_EmptySet
<1>6. QED
  BY <1>3, <1>4, <1>5

\* A release that changes its own units leaves the others'.
LEMMA Fly ==
  ASSUME todo \in [Coro -> 0..MaxUpdate], NEW c \in Coro, NEW n \in 0..MaxUpdate,
         todo' = [todo EXCEPT ![c] = n]
  PROVE  /\ InFlight' = InFlight - todo[c] + n
         /\ InFlight \in Nat /\ InFlight' \in Nat /\ todo[c] <= InFlight
<1>1. todo' \in [Coro -> 0..MaxUpdate] /\ todo'[c] = n
  OBVIOUS
<1>2. MaxUpdate \in Nat
  BY Constants_
<1>3. OthersIn(todo', c) = OthersIn(todo, c)
  <2>1. \A u : u[1] \in Coro /\ u[1] # c => todo'[u[1]] = todo[u[1]]
    OBVIOUS
  <2>2. \A u : u \in UnitsIn(todo) /\ u[1] # c <=> u \in UnitsIn(todo') /\ u[1] # c
    BY <2>1 DEF UnitsIn
  <2>3. QED
    BY <2>2 DEF OthersIn
<1>4. /\ InFlight \in Nat /\ Cardinality(OthersIn(todo, c)) \in Nat
      /\ InFlight = Cardinality(OthersIn(todo, c)) + todo[c]
  BY FlyingIn DEF InFlight, Units, UnitsIn
<1>5. /\ InFlight' \in Nat
      /\ InFlight' = Cardinality(OthersIn(todo', c)) + todo'[c]
  BY <1>1, FlyingIn DEF InFlight, Units, UnitsIn
<1>6. todo[c] \in Nat /\ n \in Nat
  BY <1>2
<1>7. QED
  BY <1>1, <1>3, <1>4, <1>5, <1>6

LEMMA Flying ==
  ASSUME todo \in [Coro -> 0..MaxUpdate]
  PROVE  /\ InFlight \in Nat
         /\ \A c \in Coro : todo[c] \in Nat /\ todo[c] <= InFlight
         /\ (\A c \in Coro : todo[c] = 0) => InFlight = 0
<1>1. /\ IsFiniteSet(UnitsIn(todo)) /\ Cardinality(UnitsIn(todo)) \in Nat
      /\ \A c \in Coro : /\ Cardinality(UnitsIn(todo)) = Cardinality(OthersIn(todo, c)) + todo[c]
                         /\ Cardinality(OthersIn(todo, c)) \in Nat
      /\ (\A c \in Coro : todo[c] = 0) => Cardinality(UnitsIn(todo)) = 0
  BY FlyingIn
<1>2. InFlight = Cardinality(UnitsIn(todo))
  BY DEF InFlight, Units, UnitsIn
<1>3. \A c \in Coro : todo[c] \in Nat
  BY Constants_
<1>4. QED
  BY <1>1, <1>2, <1>3

\* While a coroutine that is not in release runs, the others fill at most the other
\* contexts.
LEMMA FlyingElsewhere ==
  ASSUME TypeOK, PlaceInv, NEW c \in Coro, current[home[c]] = c, todo[c] = 0
  PROVE  InFlight <= MaxUpdate * (Cardinality(Ctx) - 1)
<1> DEFINE M == 1..MaxUpdate
           X == Ctx \ {home[c]}
           f == [u \in Units |-> <<home[u[1]], u[2]>>]
<1>1. /\ MaxUpdate \in Nat /\ Cardinality(Ctx) \in Nat /\ IsFiniteSet(Ctx)
      /\ home \in [Coro -> Ctx] /\ NoCoro \notin Coro
  BY Constants_
<1>2. \A d \in Coro : todo[d] > 0 => current[home[d]] = d
  BY DEF PlaceInv, InRelease
<1>3. \A u \in Units : u[1] \in Coro /\ u[2] \in M /\ u = <<u[1], u[2]>> /\ u[2] <= todo[u[1]]
  BY DEF Units
<1>4. \A u \in Units : current[home[u[1]]] = u[1] /\ home[u[1]] \in X
  <2>1. ASSUME NEW u \in Units
        PROVE  current[home[u[1]]] = u[1] /\ home[u[1]] \in X
    <3>1. todo[u[1]] > 0
      <4>1. todo[u[1]] \in Nat /\ u[2] >= 1 /\ u[2] \in Nat /\ u[2] <= todo[u[1]]
        <5>1. todo \in [Coro -> 0..MaxUpdate] /\ u[1] \in Coro /\ u[2] \in M
          BY <1>3 DEF TypeOK
        <5>2. QED
          BY <1>1, <1>3, <5>1
      <4>2. QED
        BY <4>1
    <3>2. current[home[u[1]]] = u[1]
      BY <1>2, <1>3, <3>1
    <3>3. home[u[1]] # home[c]
      BY <3>1, <3>2
    <3>4. QED
      BY <1>1, <1>3, <3>2, <3>3
  <2>2. QED
    BY <2>1
<1>5. f \in Injection(Units, X \X M)
  <2>1. \A u \in Units : f[u] = <<home[u[1]], u[2]>> /\ f[u] \in X \X M
    BY <1>3, <1>4
  <2>2. ASSUME NEW u \in Units, NEW v \in Units, f[u] = f[v]
        PROVE  u = v
    <3>1. home[u[1]] = home[v[1]] /\ u[2] = v[2]
      BY <2>1, <2>2
    <3>2. u[1] = v[1]
      BY <1>4, <3>1
    <3>3. QED
      BY <1>3, <3>1, <3>2
  <2>3. QED
    <3>1. f \in [Units -> X \X M]
      BY <2>1
    <3>2. IsInjective(f)
      BY <2>2 DEF IsInjective
    <3>3. QED
      BY <3>1, <3>2 DEF Injection
<1>6. IsFiniteSet(X) /\ Cardinality(X) = Cardinality(Ctx) - 1
  <2>1. home[c] \in Ctx
    BY <1>1
  <2>2. QED
    BY <1>1, <2>1, FS_RemoveElement
<1>7. IsFiniteSet(M) /\ Cardinality(M) = MaxUpdate
  <2>1. IsFiniteSet(M) /\ Cardinality(M) = IF 1 > MaxUpdate THEN 0 ELSE MaxUpdate - 1 + 1
    BY <1>1, FS_Interval
  <2>2. QED
    BY <1>1, <2>1
<1> HIDE DEF M, X, f
<1>8. IsFiniteSet(X \X M) /\ Cardinality(X \X M) = Cardinality(X) * Cardinality(M)
  BY <1>6, <1>7, FS_Product
<1>9. InFlight <= Cardinality(X \X M)
  BY <1>5, <1>8, FS_Injection DEF InFlight
<1>10. (Cardinality(Ctx) - 1) * MaxUpdate = MaxUpdate * (Cardinality(Ctx) - 1)
  BY <1>1
<1>11. QED
  BY <1>6, <1>7, <1>8, <1>9, <1>10

-----------------------------------------------------------------------------
(* The types.                                                               *)

LEMMA InitType == ASSUME Init PROVE TypeOK
<1>1. Desired \in Nat /\ MaxUpdate \in Nat /\ NoCoro \notin Coro
  BY Constants_
<1>2. <<>> \in Seq(Coro) /\ 0 \in 0..MaxUpdate /\ "idle" \in Label
  BY <1>1, EmptyList DEF Label
<1>3. counter \in Int /\ todo \in [Coro -> 0..MaxUpdate] /\ pc \in [Coro -> Label]
  BY <1>1, <1>2 DEF Init
<1>4. /\ stack \in Seq(Coro) /\ toResume \in Seq(Coro)
      /\ taken \in [Coro -> Seq(Coro)] /\ line \in [Coro -> Seq(Coro)]
  BY <1>2 DEF Init
<1>5. \A c \in Coro : picked[c] = NoCoro /\ pc[c] = "idle"
  BY DEF Init
<1>6. QED
  BY <1>1, <1>3, <1>4, <1>5 DEF Init, TypeOK

\* What the variables that belong to coroutines may become in a step of c.
Local(c) ==
    /\ consumed' = consumed \/ \E b \in BOOLEAN : consumed' = [consumed EXCEPT ![c] = b]
    /\ pc' = pc \/ \E l \in Label : pc' = [pc EXCEPT ![c] = l]
    /\ current' = current \/ \E w \in {c, NoCoro} : current' = [current EXCEPT ![home[c]] = w]
    /\ posted' = posted \/ \E w \in Coro, b \in BOOLEAN : posted' = [posted EXCEPT ![w] = b]
    /\ todo' = todo \/ \E n \in 0..MaxUpdate : todo' = [todo EXCEPT ![c] = n]
    /\ taken' = taken \/ \E s \in Seq(Coro) : taken' = [taken EXCEPT ![c] = s]
    /\ line' = line \/ \E s \in Seq(Coro) : line' = [line EXCEPT ![c] = s]
    /\ \/ picked' = picked /\ (pc[c] \in {"subtract", "post"} <=> pc'[c] \in {"subtract", "post"})
       \/ picked' = [picked EXCEPT ![c] = NoCoro] /\ pc'[c] \notin {"subtract", "post"}
       \/ pc'[c] \in {"subtract", "post"} /\ \E w \in Coro : picked' = [picked EXCEPT ![c] = w]

\* And the others.
Common ==
    /\ counter' \in Int
    /\ stack' \in Seq(Coro) /\ toResume' \in Seq(Coro)
    /\ notifier' \in Coro \cup {NoCoro}
    /\ gaveUp' \in BOOLEAN /\ undefined' \in {"nothing", "dead awaiter", "resumed twice"}

LEMMA TypeKept == ASSUME TypeOK, NEW c \in Coro, Local(c), Common PROVE TypeOK'
<1>1. consumed' \in [Coro -> BOOLEAN] /\ posted' \in [Coro -> BOOLEAN]
  <2>1. consumed \in [Coro -> BOOLEAN] /\ posted \in [Coro -> BOOLEAN]
    BY DEF TypeOK
  <2>2. QED
    BY <2>1 DEF Local
<1>2. pc' \in [Coro -> Label] /\ \A d \in Coro : d # c => pc'[d] = pc[d]
  <2>1. pc \in [Coro -> Label]
    BY DEF TypeOK
  <2>2. QED
    BY <2>1 DEF Local
<1>3. current' \in [Ctx -> Coro \cup {NoCoro}]
  <2>1. current \in [Ctx -> Coro \cup {NoCoro}]
    BY DEF TypeOK
  <2>2. QED
    BY <2>1 DEF Local
<1>4. todo' \in [Coro -> 0..MaxUpdate]
  <2>1. todo \in [Coro -> 0..MaxUpdate]
    BY DEF TypeOK
  <2>2. QED
    BY <2>1 DEF Local
<1>5. taken' \in [Coro -> Seq(Coro)] /\ line' \in [Coro -> Seq(Coro)]
  <2>1. taken \in [Coro -> Seq(Coro)] /\ line \in [Coro -> Seq(Coro)]
    BY DEF TypeOK
  <2>2. QED
    BY <2>1 DEF Local
<1>6. picked' \in [Coro -> Coro \cup {NoCoro}] /\ \A d \in Coro : d # c => picked'[d] = picked[d]
  <2>1. picked \in [Coro -> Coro \cup {NoCoro}]
    BY DEF TypeOK
  <2>2. QED
    BY <2>1 DEF Local
<1>9. picked'[c] \in Coro <=> pc'[c] \in {"subtract", "post"}
  <2>1. NoCoro \notin Coro /\ (picked[c] \in Coro <=> pc[c] \in {"subtract", "post"})
    BY Constants_ DEF TypeOK
  <2>2. picked \in [Coro -> Coro \cup {NoCoro}]
    BY DEF TypeOK
  <2>3. QED
    BY <2>1, <2>2 DEF Local
<1>10. \A d \in Coro : picked'[d] \in Coro <=> pc'[d] \in {"subtract", "post"}
  BY <1>2, <1>6, <1>9 DEF TypeOK
<1>11. QED
  BY <1>1, <1>2, <1>3, <1>4, <1>5, <1>6, <1>10 DEF TypeOK, Common

\* What is in the hands of release is a list, and the first of it a coroutine.
LEMMA Lists ==
  ASSUME TypeOK, NEW c \in Coro
  PROVE  /\ stack \in Seq(Coro) /\ toResume \in Seq(Coro)
         /\ taken[c] \in Seq(Coro) /\ line[c] \in Seq(Coro)
         /\ Skip(toResume) \in Seq(Coro) /\ Skip(line[c]) \in Seq(Coro)
         /\ taken[c] # <<>> => Head(taken[c]) \in Coro /\ Tail(taken[c]) \in Seq(Coro)
         /\ Skip(line[c]) # <<>> => /\ Head(Skip(line[c])) \in Coro
                                    /\ Tail(Skip(line[c])) \in Seq(Coro)
<1>1. /\ stack \in Seq(Coro) /\ toResume \in Seq(Coro)
      /\ taken[c] \in Seq(Coro) /\ line[c] \in Seq(Coro)
  BY DEF TypeOK
<1>2. Skip(toResume) \in Seq(Coro) /\ Skip(line[c]) \in Seq(Coro)
  BY <1>1, Skipped
<1>3. QED
  BY <1>1, <1>2, HeadTailProperties

LEMMA SpawnHandles ==
  ASSUME TypeOK, Defined, NEW w \in Coro, SpawnHandle(w)
  PROVE  /\ undefined' \in {"nothing", "resumed twice"}
         /\ posted' = posted \/ posted' = [posted EXCEPT ![w] = TRUE]
         /\ undefined' = "nothing" => /\ posted' = [posted EXCEPT ![w] = TRUE]
                                      /\ ~posted[w] /\ pc[w] \in InAcquire
BY DEF SpawnHandle, Defined

Operation(c) == \/ Resume(c) \/ Yield(c) \/ Acquire(c)
                \/ \E n \in 1..MaxUpdate : Release(c, n)
                \/ TryRelease(c) \/ Subtract(c) \/ Post(c)

\* Each operation of c is local in this sense.
LEMMA OperationLocal ==
  ASSUME TypeOK, PlaceInv, NEW c \in Coro, Operation(c)
  PROVE  Local(c) /\ Common
<1>1. /\ MaxUpdate \in Nat
      /\ \A n \in 1..MaxUpdate : n \in 0..MaxUpdate /\ n \in Int
  BY Constants_
<1>2. \A l \in InAcquire \cup InRelease \cup {"idle", "insert"} : l \in Label
  BY DEF Label
<1>3. counter \in Int /\ counter - 1 \in Int
  <2>1. counter \in Int
    BY DEF TypeOK
  <2>2. QED
    BY <2>1
<1>4. /\ stack \in Seq(Coro) /\ toResume \in Seq(Coro) /\ <<>> \in Seq(Coro)
      /\ notifier \in Coro \cup {NoCoro} /\ gaveUp \in BOOLEAN
      /\ undefined \in {"nothing", "dead awaiter", "resumed twice"}
      /\ pc \in [Coro -> Label]
  BY EmptyList DEF TypeOK
<1>5. todo[c] \in 0..MaxUpdate
  BY DEF TypeOK
<1>6. /\ \A n \in 1..MaxUpdate : counter + n \in Int
      /\ 0 \in 0..MaxUpdate
      /\ todo[c] > 0 => todo[c] - 1 \in 0..MaxUpdate
  BY <1>1, <1>3, <1>5
<1>7. Local(c) /\ Common
  <2> USE <1>3, <1>4 DEF Local, Common, Goto, LeaveThread, lists, acquirer, releaser, Label, InAcquire,
          InRelease
  <2>1. CASE Resume(c)
    BY <2>1 DEF Resume
  <2>2. CASE Yield(c)
    BY <2>2 DEF Yield
  <2>3. CASE TryAcquire(c) \/ AcquireReady(c)
    BY <2>3 DEF TryAcquire, AcquireReady, TakeUnit
  <2>4. CASE AcquireSuspend(c)
    BY <2>4 DEF AcquireSuspend
  <2>5. CASE Insert(c)
    <3>1. <<c>> \o stack \in Seq(Coro)
      BY ReversedPush
    <3>2. QED
      BY <2>5, <3>1 DEF Insert
  <2>6. CASE Recheck(c)
    BY <2>6 DEF Recheck, TakeUnit
  <2>7. CASE Consume(c)
    BY <2>7 DEF Consume
  <2>8. CASE PostSelf(c)
    BY <2>8 DEF PostSelf, SpawnHandle
  <2>9. ASSUME NEW n \in 1..MaxUpdate, Release(c, n)
        PROVE  Local(c) /\ Common
    <3>1. counter + n \in Int
      BY <1>6
    <3>2. QED
      BY <1>1, <2>9, <3>1 DEF Release
  <2>10. CASE ReadDead(c)
    BY <2>10 DEF ReadDead
  <2>11. CASE Fetch(c)
    <3>1. Skip(toResume) \in Seq(Coro)
      BY Lists
    <3>2. QED
      BY <2>11, <3>1 DEF Fetch
  <2>12. CASE Relink(c)
    <3> DEFINE node == Head(taken[c])
    <3>1. node \in Coro /\ Tail(taken[c]) \in Seq(Coro) /\ line[c] \in Seq(Coro)
      BY <2>12, Lists DEF Relink
    <3>2. <<node>> \o line[c] \in Seq(Coro)
      BY <3>1, ReversedPush
    <3>3. /\ line' = [line EXCEPT ![c] = IF consumed[node] THEN line[c] ELSE <<node>> \o line[c]]
          /\ taken' = [taken EXCEPT ![c] = Tail(taken[c])]
      BY <2>12 DEF Relink, TypeOK
    <3> HIDE DEF node
    <3>4. QED
      BY <2>12, <3>1, <3>2, <3>3 DEF Relink
  <2>13. CASE Pick(c)
    <3>1. Skip(line[c]) # <<>> => /\ Head(Skip(line[c])) \in Coro
                                  /\ Tail(Skip(line[c])) \in Seq(Coro)
      BY Lists
    <3>2. 0 \in 0..MaxUpdate
      BY <1>6
    <3>3. QED
      BY <2>13, <3>1, <3>2 DEF Pick, KeepUnits
  <2>14. CASE Subtract(c)
    <3>1. /\ todo[c] - 1 \in 0..MaxUpdate
          /\ todo' = [todo EXCEPT ![c] = todo[c] - 1]
      <4>1. todo[c] > 0
        BY <2>14 DEF Subtract, PlaceInv
      <4>2. QED
        BY <1>6, <2>14, <4>1 DEF Subtract
    <3>2. QED
      BY <2>14, <3>1 DEF Subtract
  <2>15. CASE Post(c)
    <3>1. picked[c] \in Coro
      BY <2>15 DEF Post, TypeOK
    <3>2. QED
      BY <2>15, <3>1 DEF Post, SpawnHandle
  <2>16. QED
    BY <2>1, <2>2, <2>3, <2>4, <2>5, <2>6, <2>7, <2>8, <2>9, <2>10, <2>11, <2>12, <2>13, <2>14, <2>15
       DEF Operation, Acquire, TryRelease
<1>8. QED
  BY <1>7

\* What is not c's stays.
LEMMA OthersStay ==
  ASSUME TypeOK, NEW c \in Coro, Local(c)
  PROVE  /\ \A d \in Coro : d # c => /\ pc'[d] = pc[d] /\ todo'[d] = todo[d]
                                     /\ consumed'[d] = consumed[d] /\ picked'[d] = picked[d]
                                     /\ taken'[d] = taken[d] /\ line'[d] = line[d]
         /\ \A x \in Ctx : x # home[c] => current'[x] = current[x]
<1>1. \A d \in Coro : d # c => pc'[d] = pc[d] /\ todo'[d] = todo[d]
  <2>1. pc \in [Coro -> Label] /\ todo \in [Coro -> 0..MaxUpdate]
    BY DEF TypeOK
  <2>2. QED
    BY <2>1 DEF Local
<1>2. \A d \in Coro : d # c => consumed'[d] = consumed[d] /\ picked'[d] = picked[d]
  <2>1. consumed \in [Coro -> BOOLEAN] /\ picked \in [Coro -> Coro \cup {NoCoro}]
    BY DEF TypeOK
  <2>2. QED
    BY <2>1 DEF Local
<1>3. \A d \in Coro : d # c => taken'[d] = taken[d] /\ line'[d] = line[d]
  <2>1. taken \in [Coro -> Seq(Coro)] /\ line \in [Coro -> Seq(Coro)]
    BY DEF TypeOK
  <2>2. QED
    BY <2>1 DEF Local
<1>4. \A x \in Ctx : x # home[c] => current'[x] = current[x]
  <2>1. current \in [Ctx -> Coro \cup {NoCoro}]
    BY DEF TypeOK
  <2>2. QED
    BY <2>1 DEF Local
<1>5. QED
  BY <1>1, <1>2, <1>3, <1>4

\* What PlaceInv says of one coroutine.
Placed(c) ==
    /\ pc[c] \notin {"idle", "waiting"} => current[home[c]] = c
    /\ notifier = c <=> pc[c] = "reverse"
    /\ notifier # c => taken[c] = <<>> /\ line[c] = <<>>
    /\ pc[c] \in {"try", "reverse", "subtract"} => todo[c] > 0
    /\ pc[c] \notin InRelease => todo[c] = 0

LEMMA PlaceKept ==
  ASSUME TypeOK, PlaceInv, NEW c \in Coro, Local(c), current[home[c]] \in {c, NoCoro},
         notifier' = notifier \/ (notifier \in {c, NoCoro} /\ notifier' \in {c, NoCoro}),
         Placed(c)'
  PROVE  PlaceInv'
<1>1. NoCoro \notin Coro /\ home \in [Coro -> Ctx]
  BY Constants_
<1>2. ASSUME NEW d \in Coro, d # c
      PROVE  Placed(d)'
  <2>1. /\ pc'[d] = pc[d] /\ todo'[d] = todo[d] /\ taken'[d] = taken[d] /\ line'[d] = line[d]
        /\ home[d] # home[c] => current'[home[d]] = current[home[d]]
    BY <1>1, <1>2, OthersStay
  <2>2. Placed(d)
    BY DEF PlaceInv, Placed
  <2>3. current[home[d]] = d => home[d] # home[c]
    BY <1>1, <1>2
  <2>4. notifier' = d <=> notifier = d
    BY <1>1, <1>2
  <2>5. pc'[d] \notin {"idle", "waiting"} => current'[home[d]] = d
    BY <2>1, <2>2, <2>3 DEF Placed
  <2>6. QED
    BY <2>1, <2>2, <2>4, <2>5 DEF Placed
<1>3. \A d \in Coro : Placed(d)'
  BY <1>2
<1>4. QED
  BY <1>3 DEF PlaceInv, Placed

LEMMA StepPlace ==
  ASSUME TypeOK, PlaceInv, NEW c \in Coro, Operation(c)
  PROVE  TypeOK' /\ PlaceInv'
<1>1. Local(c) /\ TypeOK'
  BY OperationLocal, TypeKept
<1>2. Placed(c) /\ home[c] \in Ctx /\ NoCoro \notin Coro
  BY Constants_ DEF PlaceInv, Placed
<1>3. /\ pc \in [Coro -> Label] /\ current \in [Ctx -> Coro \cup {NoCoro}]
      /\ todo \in [Coro -> 0..MaxUpdate] /\ todo[c] \in Int
      /\ taken \in [Coro -> Seq(Coro)] /\ line \in [Coro -> Seq(Coro)]
      /\ notifier \in Coro \cup {NoCoro}
  <2>1. todo \in [Coro -> 0..MaxUpdate] /\ MaxUpdate \in Nat
    BY Constants_ DEF TypeOK
  <2>2. todo[c] \in Int
    BY <2>1
  <2>3. QED
    BY <2>1, <2>2 DEF TypeOK
<1>4. /\ current[home[c]] \in {c, NoCoro}
      /\ notifier' = notifier \/ (notifier \in {c, NoCoro} /\ notifier' \in {c, NoCoro})
      /\ Placed(c)'
  <2> USE <1>2, <1>3 DEF Placed, Goto, LeaveThread, Runs, lists, acquirer, releaser, InRelease
  <2>1. CASE Resume(c)
    BY <2>1 DEF Resume
  <2>2. CASE Yield(c)
    BY <2>2 DEF Yield
  <2>3. CASE TryAcquire(c) \/ AcquireReady(c)
    BY <2>3 DEF TryAcquire, AcquireReady
  <2>4. CASE AcquireSuspend(c)
    BY <2>4 DEF AcquireSuspend
  <2>5. CASE Insert(c)
    BY <2>5 DEF Insert
  <2>6. CASE Recheck(c)
    BY <2>6 DEF Recheck
  <2>7. CASE Consume(c)
    BY <2>7 DEF Consume
  <2>8. CASE PostSelf(c)
    BY <2>8 DEF PostSelf
  <2>9. ASSUME NEW n \in 1..MaxUpdate, Release(c, n)
        PROVE  /\ current[home[c]] \in {c, NoCoro}
               /\ notifier' = notifier \/ (notifier \in {c, NoCoro} /\ notifier' \in {c, NoCoro})
               /\ Placed(c)'
    <3>1. n > 0
      BY Constants_
    <3>2. QED
      BY <2>9, <3>1 DEF Release
  <2>10. CASE ReadDead(c)
    BY <2>10 DEF ReadDead
  <2>11. CASE Fetch(c)
    BY <2>11 DEF Fetch
  <2>12. CASE Relink(c)
    BY <2>12 DEF Relink
  <2>13. CASE Pick(c)
    BY <2>13 DEF Pick, KeepUnits
  <2>14. CASE Subtract(c)
    BY <2>14 DEF Subtract
  <2>15. CASE Post(c)
    BY <2>15 DEF Post
  <2>16. QED
    BY <2>1, <2>2, <2>3, <2>4, <2>5, <2>6, <2>7, <2>8, <2>9, <2>10, <2>11, <2>12, <2>13, <2>14, <2>15
       DEF Operation, Acquire, TryRelease
<1>5. QED
  BY <1>1, <1>4, PlaceKept

-----------------------------------------------------------------------------
(* How far the counter falls.                                               *)

\* A unit is taken by a coroutine that is not in release.
LEMMA StepBound ==
  ASSUME TypeOK, PlaceInv, OvergrantBounded, NEW c \in Coro, Operation(c)
  PROVE  OvergrantBounded'
<1> DEFINE bound == MaxUpdate * (1 - Cardinality(Ctx))
<1>1. /\ todo \in [Coro -> 0..MaxUpdate] /\ counter \in Int
      /\ MaxUpdate \in Nat /\ Cardinality(Ctx) \in Nat /\ bound \in Int
  <2>1. /\ todo \in [Coro -> 0..MaxUpdate] /\ counter \in Int
        /\ MaxUpdate \in Nat /\ Cardinality(Ctx) \in Nat
    BY Constants_ DEF TypeOK
  <2>2. MaxUpdate \in Int /\ 1 - Cardinality(Ctx) \in Int
    BY <2>1
  <2>3. QED
    BY <2>1, <2>2
<1>2. InFlight \in Nat /\ counter - InFlight >= bound
  BY <1>1, Flying DEF OvergrantBounded
<1>3. bound' = bound
  OBVIOUS
<1>4. ASSUME counter' = counter, todo' = todo
      PROVE  OvergrantBounded'
  <2>1. InFlight' = InFlight
    BY <1>4 DEF InFlight, Units
  <2>2. QED
    BY <1>4, <2>1 DEF OvergrantBounded
<1>5. ASSUME TakeUnit, Runs(c), pc[c] \notin InRelease, todo' = todo
      PROVE  OvergrantBounded'
  <2>1. current[home[c]] = c /\ todo[c] = 0
    BY <1>5 DEF Runs, PlaceInv
  <2>2. InFlight <= MaxUpdate * (Cardinality(Ctx) - 1)
    BY <2>1, FlyingElsewhere
  <2>3. InFlight' = InFlight
    BY <1>5 DEF InFlight, Units
  <2>4. counter' >= 0 /\ counter' \in Int
    BY <1>1, <1>5 DEF TakeUnit
  <2>5. MaxUpdate * (Cardinality(Ctx) - 1) = 0 - bound
    BY <1>1
  <2> HIDE DEF bound
  <2>6. InFlight <= 0 - bound
    BY <2>2, <2>5
  <2>7. counter' - InFlight' >= bound
    <3>1. \A x, y, b \in Int : x >= 0 /\ y <= 0 - b => x - y >= b
      OBVIOUS
    <3>2. counter' \in Int /\ InFlight \in Int /\ bound \in Int
      BY <1>1, <1>2, <2>4
    <3>3. counter' - InFlight >= bound
      BY <2>4, <2>6, <3>1, <3>2
    <3>4. QED
      BY <2>3, <3>3
  <2>8. QED
    BY <2>7 DEF OvergrantBounded, bound
<1>6. ASSUME NEW n \in 0..MaxUpdate, NEW k \in Int, todo' = [todo EXCEPT ![c] = n],
             counter' = counter + k, k >= n - todo[c]
      PROVE  OvergrantBounded'
  <2>1. InFlight' = InFlight - todo[c] + n /\ InFlight' \in Nat
    BY <1>1, <1>6, Fly
  <2>2. n \in Int /\ todo[c] \in Int
    BY <1>1
  <2> HIDE DEF bound
  <2>3. counter' - InFlight' >= bound
    BY <1>1, <1>2, <1>6, <2>1, <2>2
  <2>4. QED
    BY <2>3 DEF OvergrantBounded, bound
<1>7. todo[c] \in 0..MaxUpdate /\ todo[c] \in Int /\ 0 \in 0..MaxUpdate
  BY <1>1
<1> HIDE DEF bound
<1>8. ASSUME NEW n \in 1..MaxUpdate, Release(c, n)
      PROVE  OvergrantBounded'
  <2>1. todo[c] = 0 /\ n \in Int /\ n \in 0..MaxUpdate /\ n >= n - 0
    BY <1>1, <1>8 DEF Release, PlaceInv, InRelease
  <2>2. QED
    BY <1>6, <1>8, <2>1 DEF Release
<1>9. CASE Pick(c)
  <2>1. counter' = counter /\ (todo' = todo \/ todo' = [todo EXCEPT ![c] = 0])
    BY <1>9 DEF Pick, KeepUnits
  <2>2. counter' = counter + 0 /\ 0 >= 0 - todo[c]
    BY <1>1, <1>7, <2>1
  <2>3. QED
    BY <1>4, <1>6, <1>7, <2>1, <2>2
<1>10. CASE Subtract(c)
  <2>1. todo[c] > 0
    BY <1>10 DEF Subtract, PlaceInv
  <2>2. /\ counter' = counter + (0 - 1) /\ 0 - 1 >= (todo[c] - 1) - todo[c]
        /\ todo[c] - 1 \in 0..MaxUpdate /\ 0 - 1 \in Int
    BY <1>1, <1>7, <1>10, <2>1 DEF Subtract
  <2>3. todo' = [todo EXCEPT ![c] = todo[c] - 1]
    BY <1>10 DEF Subtract
  <2>4. QED
    BY <1>6, <2>2, <2>3
<1>11. CASE TryAcquire(c) \/ AcquireReady(c) \/ Recheck(c)
  BY <1>4, <1>5, <1>11 DEF TryAcquire, AcquireReady, Recheck, releaser, InRelease
<1>12. CASE Resume(c) \/ Yield(c) \/ AcquireSuspend(c) \/ Insert(c) \/ Consume(c) \/ PostSelf(c)
  BY <1>4, <1>12 DEF Resume, Yield, AcquireSuspend, Insert, Consume, PostSelf, releaser
<1>13. CASE ReadDead(c) \/ Fetch(c) \/ Relink(c) \/ Post(c)
  BY <1>4, <1>13 DEF ReadDead, Fetch, Relink, Post, releaser
<1>14. QED
  BY <1>8, <1>9, <1>10, <1>11, <1>12, <1>13 DEF Operation, Acquire, TryRelease

-----------------------------------------------------------------------------
(* The queue of waiters.                                                    *)

\* What of it comes before the list that awaiting_ heads.
Ahead == IF notifier = NoCoro THEN toResume ELSE Reverse(taken[notifier]) \o line[notifier]

\* t is q without some of D, in the same order.
Thins(q, t, D) ==
    \E f \in [1..Len(t) -> 1..Len(q)] :
        /\ \A k \in 1..Len(t) : t[k] = q[f[k]]
        /\ \A k, l \in 1..Len(t) : k < l => f[k] < f[l]
        /\ \A i \in 1..Len(q) : q[i] \in D \/ \E k \in 1..Len(t) : f[k] = i

\* y is behind x.
Behind(q, x, y) == \E i, j \in 1..Len(q) : i < j /\ q[i] = x /\ q[j] = y

LEMMA Thinned ==
  ASSUME NEW q \in Seq(Coro), NEW t \in Seq(Coro), NEW D, Thins(q, t, D)
  PROVE  /\ \A x : In(x, t) => In(x, q)
         /\ \A x : In(x, q) => In(x, t) \/ x \in D
         /\ Distinct(q) => Distinct(t)
         /\ \A x, y : Behind(t, x, y) => Behind(q, x, y)
<1> DEFINE m == Len(q)
           n == Len(t)
<1>1. m \in Nat /\ n \in Nat
  BY Indices
<1>2. PICK f \in [1..n -> 1..m] :
        /\ \A k \in 1..n : t[k] = q[f[k]]
        /\ \A k, l \in 1..n : k < l => f[k] < f[l]
        /\ \A i \in 1..m : q[i] \in D \/ \E k \in 1..n : f[k] = i
  BY DEF Thins
<1> HIDE DEF m, n
<1>3. \A k \in 1..n : f[k] \in 1..m
  BY <1>2
<1>4. ASSUME NEW k \in 1..n, NEW l \in 1..n, f[k] = f[l]
      PROVE  k = l
  <2>1. ~(f[k] < f[l]) /\ ~(f[l] < f[k])
    BY <1>1, <1>3, <1>4
  <2>2. ~(k < l) /\ ~(l < k)
    BY <1>2, <2>1
  <2>3. QED
    BY <1>1, <2>2
<1>5. /\ \A x : In(x, t) <=> \E k \in 1..n : t[k] = x
      /\ \A x : In(x, q) <=> \E i \in 1..m : q[i] = x
  BY DEF In, m, n
<1>6. \A x : In(x, t) => In(x, q)
  BY <1>2, <1>3, <1>5
<1>7. \A x : In(x, q) => In(x, t) \/ x \in D
  BY <1>2, <1>5
<1>8. ASSUME Distinct(q)
      PROVE  Distinct(t)
  <2>1. \A i, j \in 1..m : q[i] = q[j] => i = j
    BY <1>8 DEF Distinct, m
  <2>2. \A k, l \in 1..n : t[k] = t[l] => k = l
    BY <1>2, <1>3, <1>4, <2>1
  <2>3. QED
    BY <2>2 DEF Distinct, n
<1>9. ASSUME NEW x, NEW y, Behind(t, x, y)
      PROVE  Behind(q, x, y)
  <2>1. PICK k, l \in 1..n : k < l /\ t[k] = x /\ t[l] = y
    BY <1>9 DEF Behind, n
  <2>2. f[k] \in 1..m /\ f[l] \in 1..m /\ f[k] < f[l] /\ q[f[k]] = x /\ q[f[l]] = y
    BY <1>2, <1>3, <2>1
  <2>3. QED
    BY <2>2 DEF Behind, m
<1>10. QED
  BY <1>6, <1>7, <1>8, <1>9

\* To drop what is in front.
LEMMA DropThins ==
  ASSUME NEW s \in Seq(Coro), NEW t \in Seq(Coro), NEW r \in Seq(Coro), NEW D, NEW m \in 0..Len(s),
         Len(t) = Len(s) - m, \A k \in 1..Len(s) - m : t[k] = s[m + k],
         \A i \in 1..m : s[i] \in D
  PROVE  Thins(s \o r, t \o r, D)
<1> DEFINE a == Len(s)
           b == Len(r)
           q == s \o r
           u == t \o r
           f == [k \in 1..a - m + b |-> m + k]
<1>1. a \in Nat /\ b \in Nat /\ m \in Nat /\ m <= a /\ Len(t) = a - m
  BY Indices
<1>2. /\ Len(q) = a + b
      /\ \A i \in 1..a : q[i] = s[i]
      /\ \A i \in a + 1..a + b : q[i] = r[i - a]
  BY Joined
<1>3. /\ Len(u) = a - m + b
      /\ \A i \in 1..a - m : u[i] = t[i]
      /\ \A i \in (a - m) + 1..a - m + b : u[i] = r[i - (a - m)]
  <2>1. /\ Len(u) = Len(t) + b
        /\ \A i \in 1..Len(t) : u[i] = t[i]
        /\ \A i \in Len(t) + 1..Len(t) + b : u[i] = r[i - Len(t)]
    BY Joined
  <2>2. QED
    BY <1>1, <2>1
<1>4. \A k \in 1..a - m : t[k] = s[m + k]
  OBVIOUS
<1> HIDE DEF a, b, q, u
<1>5. f \in [1..Len(u) -> 1..Len(q)]
  BY <1>1, <1>2, <1>3
<1>6. ASSUME NEW k \in 1..Len(u)
      PROVE  u[k] = q[f[k]] /\ f[k] = m + k
  <2>1. f[k] = m + k
    BY <1>3
  <2>2. CASE k <= a - m
    <3>1. k \in 1..a - m /\ m + k \in 1..a
      BY <1>1, <1>3, <2>2
    <3>2. QED
      BY <1>2, <1>3, <1>4, <2>1, <3>1
  <2>3. CASE ~(k <= a - m)
    <3>1. /\ k \in (a - m) + 1..a - m + b /\ m + k \in a + 1..a + b
          /\ k - (a - m) = (m + k) - a
      <4>1. k \in Int /\ k > a - m /\ k <= a - m + b
        BY <1>1, <1>3, <2>3
      <4>2. a \in Int /\ m \in Int /\ b \in Int
        BY <1>1
      <4>3. QED
        BY <4>1, <4>2
    <3>2. QED
      BY <1>2, <1>3, <2>1, <3>1
  <2>4. QED
    BY <2>1, <2>2, <2>3
<1>7. \A k, l \in 1..Len(u) : k < l => f[k] < f[l]
  BY <1>1, <1>3, <1>6
<1>8. ASSUME NEW i \in 1..Len(q)
      PROVE  q[i] \in D \/ \E k \in 1..Len(u) : f[k] = i
  <2>1. CASE i <= m
    <3>1. i \in 1..m /\ i \in 1..a
      BY <1>1, <1>2, <2>1
    <3>2. QED
      BY <1>2, <3>1
  <2>2. CASE ~(i <= m)
    <3>1. i - m \in 1..Len(u) /\ m + (i - m) = i
      BY <1>1, <1>2, <1>3, <2>2
    <3>2. QED
      BY <1>6, <3>1
  <2>3. QED
    BY <2>1, <2>2
<1>9. Thins(q, u, D)
  BY <1>5, <1>6, <1>7, <1>8 DEF Thins
<1>10. QED
  BY <1>9 DEF q, u

\* To drop one.
LEMMA DeleteThins ==
  ASSUME NEW s \in Seq(Coro), NEW r \in Seq(Coro), NEW h \in Coro, NEW D, h \in D
  PROVE  Thins(s \o (<<h>> \o r), s \o r, D)
<1> DEFINE a == Len(s)
           b == Len(r)
           one == <<h>>
           w == one \o r
           q == s \o w
           u == s \o r
           f == [k \in 1..a + b |-> IF k <= a THEN k ELSE k + 1]
<1>1. a \in Nat /\ b \in Nat
  BY Indices
<1>2. one \in Seq(Coro) /\ Len(one) = 1 /\ one[1] = h
  OBVIOUS
<1> HIDE DEF one
<1>3. w \in Seq(Coro) /\ Len(w) = 1 + b /\ w[1] = h /\ \A i \in 2..1 + b : w[i] = r[i - 1]
  <2>1. /\ w \in Seq(Coro) /\ Len(w) = Len(one) + b
        /\ \A i \in 1..Len(one) : w[i] = one[i]
        /\ \A i \in Len(one) + 1..Len(one) + b : w[i] = r[i - Len(one)]
    BY <1>2, Joined
  <2>2. QED
    BY <1>1, <1>2, <2>1
<1> HIDE DEF w
<1>4. /\ Len(q) = a + (1 + b)
      /\ \A i \in 1..a : q[i] = s[i]
      /\ \A i \in a + 1..a + (1 + b) : q[i] = w[i - a]
  <2>1. /\ Len(q) = a + Len(w)
        /\ \A i \in 1..a : q[i] = s[i]
        /\ \A i \in a + 1..a + Len(w) : q[i] = w[i - a]
    BY <1>3, Joined
  <2>2. QED
    BY <1>3, <2>1
<1>5. /\ Len(u) = a + b
      /\ \A i \in 1..a : u[i] = s[i]
      /\ \A i \in a + 1..a + b : u[i] = r[i - a]
  BY Joined
<1> HIDE DEF a, b, q, u
<1>6. \A k \in 1..a + b : /\ k <= a => k \in 1..a
                          /\ ~(k <= a) => /\ k \in a + 1..a + b /\ k + 1 \in a + 1..a + (1 + b)
                                          /\ (k + 1) - a \in 2..1 + b /\ ((k + 1) - a) - 1 = k - a
  BY <1>1
<1>7. \A k \in 1..a + b : f[k] = IF k <= a THEN k ELSE k + 1
  OBVIOUS
<1>8. f \in [1..Len(u) -> 1..Len(q)]
  BY <1>1, <1>4, <1>5
<1>9. \A k \in 1..Len(u) : u[k] = q[f[k]]
  <2>1. ASSUME NEW k \in 1..a + b
        PROVE  u[k] = q[f[k]]
    <3>1. CASE k <= a
      BY <1>4, <1>5, <1>6, <1>7, <3>1
    <3>2. CASE ~(k <= a)
      <4>1. u[k] = r[k - a]
        BY <1>5, <1>6, <3>2
      <4>2. q[k + 1] = w[(k + 1) - a]
        BY <1>4, <1>6, <3>2
      <4>3. w[(k + 1) - a] = r[k - a]
        BY <1>3, <1>6, <3>2
      <4>4. QED
        BY <1>7, <3>2, <4>1, <4>2, <4>3
    <3>3. QED
      BY <3>1, <3>2
  <2>2. QED
    BY <1>5, <2>1
<1>10. \A k, l \in 1..Len(u) : k < l => f[k] < f[l]
  BY <1>1, <1>5, <1>7
<1>11. ASSUME NEW i \in 1..Len(q)
       PROVE  q[i] \in D \/ \E k \in 1..Len(u) : f[k] = i
  <2>1. CASE i <= a
    <3>1. i \in 1..a + b
      BY <1>1, <1>4, <2>1
    <3>2. QED
      BY <1>5, <1>7, <2>1, <3>1
  <2>2. CASE i = a + 1
    <3>1. i \in a + 1..a + (1 + b) /\ i - a = 1
      BY <1>1, <2>2
    <3>2. QED
      BY <1>3, <1>4, <3>1
  <2>3. CASE i > a + 1
    <3>1. i - 1 \in 1..a + b /\ ~(i - 1 <= a) /\ (i - 1) + 1 = i
      BY <1>1, <1>4, <2>3
    <3>2. QED
      BY <1>5, <1>7, <3>1
  <2>4. i \in Int /\ a \in Int
    BY <1>1, <1>4
  <2>5. i <= a \/ i = a + 1 \/ i > a + 1
    BY <2>4
  <2>6. QED
    BY <2>1, <2>2, <2>3, <2>5
<1>12. Thins(q, u, D)
  BY <1>8, <1>9, <1>10, <1>11 DEF Thins
<1>13. QED
  BY <1>12 DEF q, u, w, one

\* A list that is not empty is its head before its tail.
LEMMA Popped ==
  ASSUME NEW s \in Seq(Coro), s # <<>>
  PROVE  /\ Head(s) \in Coro /\ Tail(s) \in Seq(Coro)
         /\ s = <<Head(s)>> \o Tail(s)
         /\ Reverse(s) = Reverse(Tail(s)) \o <<Head(s)>>
<1> DEFINE h == Head(s)
           t == Tail(s)
           one == <<h>>
           u == one \o t
<1>1. /\ h \in Coro /\ t \in Seq(Coro) /\ Len(t) = Len(s) - 1
      /\ \A i \in 1..Len(t) : t[i] = s[i + 1]
  BY HeadTailProperties
<1>2. Len(s) \in Nat \ {0} /\ h = s[1]
  BY EmptySeq
<1>3. one \in Seq(Coro) /\ Len(one) = 1 /\ one[1] = h
  BY <1>1
<1> HIDE DEF h, t, one
<1>4. /\ u \in Seq(Coro) /\ Len(u) = Len(one) + Len(t)
      /\ \A i \in 1..Len(one) : u[i] = one[i]
      /\ \A i \in Len(one) + 1..Len(one) + Len(t) : u[i] = t[i - Len(one)]
  BY <1>1, <1>3, Joined
<1>5. Len(u) = Len(s)
  BY <1>1, <1>2, <1>3, <1>4
<1>6. ASSUME NEW i \in 1..Len(s)
      PROVE  s[i] = u[i]
  <2>1. CASE i = 1
    BY <1>2, <1>3, <1>4, <2>1
  <2>2. CASE i # 1
    <3>1. i - 1 \in 1..Len(t) /\ (i - 1) + 1 = i /\ i \in 1 + 1..1 + Len(t)
      BY <1>1, <1>2, <2>2
    <3>2. QED
      BY <1>1, <1>3, <1>4, <3>1
  <2>3. QED
    BY <2>1, <2>2
<1>7. s = u
  BY <1>4, <1>5, <1>6, SeqEqual
<1>8. Reverse(u) = Reverse(t) \o <<h>>
  BY <1>1, ReversedPush DEF one
<1>9. QED
  BY <1>1, <1>7, <1>8 DEF h, t, one

Served == {x \in Coro : consumed[x]}

LEMMA SkipThins ==
  ASSUME NEW s \in Seq(Coro), NEW r \in Seq(Coro)
  PROVE  Thins(s \o r, Skip(s) \o r, Served)
<1>1. PICK m \in 0..Len(s) :
        /\ \A i \in 1..m : consumed[s[i]]
        /\ m < Len(s) => ~consumed[s[m + 1]]
        /\ Skip(s) \in Seq(Coro) /\ Len(Skip(s)) = Len(s) - m
        /\ \A i \in 1..Len(s) - m : Skip(s)[i] = s[m + i]
  BY Skipped
<1>2. \A i \in 1..m : s[i] \in Served
  <2>1. \A i \in 1..m : i \in 1..Len(s)
    BY Indices
  <2>2. \A i \in 1..m : s[i] \in Coro
    BY <2>1, Indices
  <2>3. QED
    BY <1>1, <2>2 DEF Served
<1>3. QED
  BY <1>1, <1>2, DropThins

LEMMA Queues ==
  ASSUME TypeOK
  PROVE  /\ Reverse(stack) \in Seq(Coro) /\ Ahead \in Seq(Coro)
         /\ WaitQueue \in Seq(Coro) /\ WaitQueue = Ahead \o Reverse(stack)
         /\ Left \in Seq(Coro) /\ toResume \in Seq(Coro)
         /\ \A x : In(x, stack) => In(x, WaitQueue)
<1>1. /\ stack \in Seq(Coro) /\ toResume \in Seq(Coro) /\ notifier \in Coro \cup {NoCoro}
      /\ \A d \in Coro : taken[d] \in Seq(Coro) /\ line[d] \in Seq(Coro)
  BY DEF TypeOK
<1>2. Reverse(stack) \in Seq(Coro) /\ \A x : In(x, Reverse(stack)) <=> In(x, stack)
  BY <1>1, Reversed
<1>3. Ahead \in Seq(Coro)
  <2>1. CASE notifier = NoCoro
    BY <1>1, <2>1 DEF Ahead
  <2>2. CASE notifier # NoCoro
    <3>1. taken[notifier] \in Seq(Coro) /\ line[notifier] \in Seq(Coro)
      BY <1>1, <2>2
    <3>2. Reverse(taken[notifier]) \in Seq(Coro)
      BY <3>1, Reversed
    <3>3. QED
      BY <2>2, <3>1, <3>2, Joined DEF Ahead
  <2>3. QED
    BY <2>1, <2>2
<1>4. WaitQueue = Ahead \o Reverse(stack)
  BY DEF WaitQueue, Ahead
<1>5. WaitQueue \in Seq(Coro) /\ \A x : In(x, Reverse(stack)) => In(x, WaitQueue)
  BY <1>2, <1>3, <1>4, Joined
<1>6. Left \in Seq(Coro)
  BY <1>1, EmptyList DEF Left
<1>7. QED
  BY <1>1, <1>2, <1>3, <1>4, <1>5, <1>6

\* Most steps leave the queue alone.
LEMMA SameQueue ==
  ASSUME UNCHANGED <<stack, toResume, notifier, taken, line>>
  PROVE  WaitQueue' = WaitQueue /\ Left' = Left
BY DEF WaitQueue, Left

\* A new waiter is behind the others.
LEMMA InsertQueue ==
  ASSUME TypeOK, NEW c \in Coro, Insert(c)
  PROVE  WaitQueue' = WaitQueue \o <<c>> /\ Left' = Left
<1>1. /\ Reverse(stack) \in Seq(Coro) /\ Ahead \in Seq(Coro)
      /\ WaitQueue = Ahead \o Reverse(stack) /\ stack \in Seq(Coro) /\ <<c>> \in Seq(Coro)
  <2>1. stack \in Seq(Coro)
    BY DEF TypeOK
  <2>2. <<c>> \in Seq(Coro)
    OBVIOUS
  <2>3. QED
    BY <2>1, <2>2, Queues
<1>2. UNCHANGED <<toResume, notifier, taken, line>> /\ stack' = <<c>> \o stack
  BY DEF Insert, releaser
<1>3. Ahead' = Ahead /\ Left' = Left
  BY <1>2 DEF Ahead, Left
<1>4. Reverse(stack') = Reverse(stack) \o <<c>>
  BY <1>1, <1>2, ReversedPush
<1>5. WaitQueue' = Ahead' \o Reverse(stack')
  BY DEF WaitQueue, Ahead
<1>6. (Ahead \o Reverse(stack)) \o <<c>> = Ahead \o (Reverse(stack) \o <<c>>)
  BY <1>1, ConcatAssociative
<1>7. QED
  BY <1>1, <1>3, <1>4, <1>5, <1>6

\* A release fetches what is cached and not consumed, or everything else.
LEMMA FetchQueue ==
  ASSUME TypeOK, PlaceInv, NEW c \in Coro, Fetch(c)
  PROVE  /\ WaitQueue = toResume \o Reverse(stack)
         /\ WaitQueue' = Skip(toResume) \o Reverse(stack)
         /\ \/ Left' = <<>>
            \/ Skip(toResume) = <<>> /\ Left' = toResume
<1>1. /\ stack \in Seq(Coro) /\ toResume \in Seq(Coro) /\ Reverse(stack) \in Seq(Coro)
      /\ Skip(toResume) \in Seq(Coro) /\ <<>> \in Seq(Coro) /\ Reverse(<<>>) = <<>>
      /\ line \in [Coro -> Seq(Coro)] /\ taken \in [Coro -> Seq(Coro)] /\ NoCoro \notin Coro
  BY Lists, Queues, EmptyList, Constants_ DEF TypeOK
<1>2. /\ notifier = NoCoro /\ notifier' = c /\ toResume' = toResume
      /\ line' = [line EXCEPT ![c] = Skip(toResume)]
      /\ \/ Skip(toResume) # <<>> /\ UNCHANGED <<stack, taken>>
         \/ Skip(toResume) = <<>> /\ taken' = [taken EXCEPT ![c] = stack] /\ stack' = <<>>
  BY DEF Fetch
<1>3. taken[c] = <<>>
  BY <1>1, <1>2 DEF PlaceInv
<1>4. WaitQueue = toResume \o Reverse(stack)
  BY <1>2 DEF WaitQueue
<1>5. line'[c] = Skip(toResume) /\ c # NoCoro
  BY <1>1, <1>2
<1>6. WaitQueue' = (Reverse(taken'[c]) \o line'[c]) \o Reverse(stack')
  BY <1>2, <1>5 DEF WaitQueue
<1>7. CASE Skip(toResume) # <<>> /\ UNCHANGED <<stack, taken>>
  <2>1. Reverse(taken'[c]) \o line'[c] = Skip(toResume)
    BY <1>1, <1>3, <1>5, <1>7, ConcatEmptySeq
  <2>2. Left' = <<>>
    BY <1>2, <1>5, <1>7 DEF Left
  <2>3. QED
    BY <1>4, <1>6, <1>7, <2>1, <2>2
<1>8. CASE Skip(toResume) = <<>> /\ taken' = [taken EXCEPT ![c] = stack] /\ stack' = <<>>
  <2>1. taken'[c] = stack /\ line'[c] = <<>>
    BY <1>1, <1>5, <1>8
  <2>2. Reverse(taken'[c]) \o line'[c] = Reverse(stack)
    BY <1>1, <2>1, ConcatEmptySeq
  <2>3. WaitQueue' = Reverse(stack) \o <<>>
    BY <1>1, <1>6, <1>8, <2>2
  <2>4. Reverse(stack) \o <<>> = Reverse(stack) /\ <<>> \o Reverse(stack) = Reverse(stack)
    BY <1>1, ConcatEmptySeq
  <2>5. Left' = toResume
    BY <1>2, <2>1 DEF Left
  <2>6. QED
    BY <1>4, <1>8, <2>3, <2>4, <2>5
<1>9. QED
  BY <1>2, <1>7, <1>8

\* Four sequences joined from the left, or from the right.
FromLeft(a, b, c, d) == ((a \o b) \o c) \o d
FromRight(a, b, c, d) == a \o (b \o (c \o d))

LEMMA FourJoined ==
  ASSUME NEW a \in Seq(Coro), NEW b \in Seq(Coro), NEW c \in Seq(Coro), NEW d \in Seq(Coro)
  PROVE  FromLeft(a, b, c, d) = FromRight(a, b, c, d)
<1>1. a \o b \in Seq(Coro) /\ c \o d \in Seq(Coro)
  BY ConcatProperties
<1>2. ((a \o b) \o c) \o d = (a \o b) \o (c \o d)
  BY <1>1, ConcatAssociative
<1>3. (a \o b) \o (c \o d) = a \o (b \o (c \o d))
  BY <1>1, ConcatAssociative
<1>4. QED
  BY <1>2, <1>3 DEF FromLeft, FromRight

\* To reverse the list it took keeps the queue, but for who is consumed.
LEMMA RelinkQueue ==
  ASSUME TypeOK, PlaceInv, NEW c \in Coro, Relink(c)
  PROVE  /\ WaitQueue' = WaitQueue \/ Thins(WaitQueue, WaitQueue', Served)
         /\ WaitQueue' \in Seq(Coro)
         /\ Left' = <<>> \/ Left' = Left
<1> DEFINE node == Head(taken[c])
           A == Reverse(Tail(taken[c]))
           L == line[c]
           R == Reverse(stack)
           N == <<node>>
<1>1. notifier = c /\ c # NoCoro
  BY Constants_ DEF Relink, PlaceInv
<1>2. /\ node \in Coro /\ Tail(taken[c]) \in Seq(Coro)
      /\ Reverse(taken[c]) = A \o N
  <2>1. taken[c] \in Seq(Coro) /\ taken[c] # <<>>
    BY DEF TypeOK, Relink
  <2>2. QED
    BY <2>1, Popped
<1>3. A \in Seq(Coro) /\ L \in Seq(Coro) /\ R \in Seq(Coro) /\ N \in Seq(Coro)
  <2>1. A \in Seq(Coro)
    BY <1>2, Reversed
  <2>2. L \in Seq(Coro) /\ R \in Seq(Coro)
    BY Lists, Queues
  <2>3. QED
    BY <1>2, <2>1, <2>2
<1>4. /\ notifier' = c /\ stack' = stack /\ toResume' = toResume
      /\ taken'[c] = Tail(taken[c])
      /\ line'[c] = IF consumed[node] THEN L ELSE N \o L
  <2>1. line \in [Coro -> Seq(Coro)] /\ taken \in [Coro -> Seq(Coro)]
    BY DEF TypeOK
  <2>2. QED
    BY <1>1, <2>1 DEF Relink, lists
<1>5. WaitQueue = ((A \o N) \o L) \o R
  BY <1>1, <1>2 DEF WaitQueue
<1>6. WaitQueue' = (A \o line'[c]) \o R
  BY <1>1, <1>4 DEF WaitQueue
<1>7. Left = IF L = <<>> THEN toResume ELSE <<>>
  BY <1>1 DEF Left
<1>8. Left' = IF line'[c] = <<>> THEN toResume ELSE <<>>
  BY <1>4 DEF Left
<1>9. N # <<>>
  OBVIOUS
<1> HIDE DEF A, L, R, N, node
<1>10. CASE ~consumed[node]
  <2>1. line'[c] = N \o L
    BY <1>4, <1>10
  <2>2. (A \o N) \o L = A \o (N \o L)
    BY <1>3, ConcatAssociative
  <2>3. N \o L # <<>> /\ A \o (N \o L) \in Seq(Coro)
    BY <1>3, <1>9, ConcatEqualIffEmpty, ConcatProperties
  <2>4. (A \o (N \o L)) \o R \in Seq(Coro)
    BY <1>3, <2>3, ConcatProperties
  <2>5. QED
    BY <1>5, <1>6, <1>8, <2>1, <2>2, <2>3, <2>4
<1>11. CASE consumed[node]
  <2>1. line'[c] = L
    BY <1>4, <1>11
  <2>2. N \o L \in Seq(Coro) /\ L \o R \in Seq(Coro) /\ A \o L \in Seq(Coro)
    BY <1>3, ConcatProperties
  <2>3. (A \o L) \o R = A \o (L \o R)
    BY <1>3, ConcatAssociative
  <2>4. ((A \o N) \o L) \o R = A \o (N \o (L \o R))
    <3>1. FromLeft(A, N, L, R) = FromRight(A, N, L, R)
      BY <1>3, FourJoined
    <3>2. QED
      BY <3>1 DEF FromLeft, FromRight
  <2>5. node \in Served
    BY <1>2, <1>11 DEF Served
  <2>6. Thins(A \o (N \o (L \o R)), A \o (L \o R), Served)
    BY <1>2, <1>3, <2>2, <2>5, DeleteThins DEF N
  <2>7. (A \o L) \o R \in Seq(Coro)
    BY <1>3, <2>2, ConcatProperties
  <2>8. QED
    BY <1>5, <1>6, <1>7, <1>8, <2>1, <2>3, <2>4, <2>6, <2>7
<1>12. QED
  BY <1>10, <1>11

\* What a release picks from is before what has come since.
LEMMA PickQueue ==
  ASSUME TypeOK, PlaceInv, NEW c \in Coro, Pick(c)
  PROVE  /\ WaitQueue = line[c] \o Reverse(stack)
         /\ WaitQueue' = toResume' \o Reverse(stack)
         /\ Left = (IF line[c] = <<>> THEN toResume ELSE <<>>)
         /\ Left' = <<>>
<1>1. notifier = c /\ c # NoCoro /\ NoCoro \notin Coro
  BY Constants_ DEF Pick, PlaceInv
<1>2. notifier' = NoCoro /\ stack' = stack /\ taken[c] = <<>>
  BY DEF Pick
<1>3. Reverse(taken[c]) \o line[c] = line[c]
  BY <1>2, Lists, EmptyList, ConcatEmptySeq
<1>4. QED
  BY <1>1, <1>2, <1>3 DEF WaitQueue, Left

-----------------------------------------------------------------------------
(* Where the waiters are.                                                   *)

LEMMA PartsIn ==
  ASSUME NEW s \in Seq(Coro)
  PROVE  /\ \A x : In(x, Skip(s)) => In(x, s)
         /\ Skip(s) = <<>> => \A x \in Coro : In(x, s) => consumed[x]
         /\ s # <<>> => In(Head(s), s) /\ \A x : In(x, Tail(s)) => In(x, s)
<1>1. PICK m \in 0..Len(s) :
        /\ \A i \in 1..m : consumed[s[i]]
        /\ m < Len(s) => ~consumed[s[m + 1]]
        /\ Skip(s) \in Seq(Coro) /\ Len(Skip(s)) = Len(s) - m
        /\ \A i \in 1..Len(s) - m : Skip(s)[i] = s[m + i]
  BY Skipped
<1> DEFINE n == Len(s)
<1>2. n \in Nat
  BY Indices
<1>3. \A x : In(x, s) <=> \E i \in 1..n : s[i] = x
  BY DEF In
<1>4. ASSUME NEW x, In(x, Skip(s))
      PROVE  In(x, s)
  <2>1. PICK k \in 1..n - m : Skip(s)[k] = x
    BY <1>1, <1>4 DEF In
  <2>2. m + k \in 1..n
    BY <1>2
  <2>3. QED
    BY <1>1, <1>3, <2>1, <2>2
<1>5. ASSUME Skip(s) = <<>>, NEW x \in Coro, In(x, s)
      PROVE  consumed[x]
  <2>1. m = n
    <3>1. Len(Skip(s)) = 0 /\ Len(Skip(s)) = n - m
      BY <1>1, <1>5, EmptyList
    <3> HIDE DEF n
    <3>2. QED
      BY <1>2, <3>1
  <2>2. QED
    BY <1>1, <1>3, <1>5, <2>1
<1>6. ASSUME s # <<>>
      PROVE  In(Head(s), s) /\ \A x : In(x, Tail(s)) => In(x, s)
  <2>1. Len(s) \in Nat \ {0} /\ Head(s) = s[1]
    BY <1>6, EmptySeq
  <2>2. 1 \in 1..Len(s)
    BY <2>1
  <2>3. /\ Len(Tail(s)) = Len(s) - 1 /\ \A i \in 1..Len(Tail(s)) : Tail(s)[i] = s[i + 1]
    BY <1>6, HeadTailProperties
  <2>4. \A i \in 1..Len(s) - 1 : i + 1 \in 1..Len(s)
    BY <2>1
  <2>5. QED
    BY <2>1, <2>2, <2>3, <2>4 DEF In
<1>7. QED
  BY <1>4, <1>5, <1>6

\* The steps that leave the lists alone take nobody for a release either.
Unlisted(c) ==
    /\ UNCHANGED <<stack, toResume, notifier, taken, line>>
    /\ \A d \in Coro : picked'[d] \in {picked[d], NoCoro}

LEMMA Frames ==
  ASSUME TypeOK, PlaceInv, NEW c \in Coro, Operation(c)
  PROVE  Unlisted(c) \/ Insert(c) \/ Fetch(c) \/ Relink(c) \/ Pick(c)
<1>1. picked \in [Coro -> Coro \cup {NoCoro}]
  BY DEF TypeOK
<1>2. CASE Post(c)
  BY <1>1, <1>2 DEF Post, Unlisted, lists
<1>3. ASSUME NEW n \in 1..MaxUpdate, Release(c, n)
      PROVE  Unlisted(c)
  BY <1>3 DEF Release, Unlisted, lists
<1>4. CASE Resume(c) \/ Yield(c) \/ TryAcquire(c) \/ AcquireReady(c) \/ AcquireSuspend(c)
  BY <1>4 DEF Resume, Yield, TryAcquire, AcquireReady, AcquireSuspend, Unlisted, lists, releaser
<1>5. CASE Recheck(c) \/ Consume(c) \/ PostSelf(c) \/ ReadDead(c) \/ Subtract(c)
  BY <1>5 DEF Recheck, Consume, PostSelf, ReadDead, Subtract, Unlisted, lists, releaser
<1>6. QED
  BY <1>2, <1>3, <1>4, <1>5 DEF Operation, Acquire, TryRelease

\* Only Insert points to a coroutine that was not pointed to.
LEMMA PointsKept ==
  ASSUME TypeOK, PlaceInv, NEW c \in Coro, Operation(c), NEW x \in Coro, Points(x)'
  PROVE  Points(x) \/ (Insert(c) /\ x = c)
<1>1. /\ NoCoro \notin Coro /\ stack \in Seq(Coro) /\ toResume \in Seq(Coro)
      /\ taken \in [Coro -> Seq(Coro)] /\ line \in [Coro -> Seq(Coro)]
      /\ picked \in [Coro -> Coro \cup {NoCoro}]
      /\ \A y : ~In(y, <<>>)
  BY Constants_, EmptyList DEF TypeOK
<1>2. CASE Unlisted(c)
  BY <1>1, <1>2 DEF Unlisted, Points
<1>3. CASE Insert(c)
  <2>1. UNCHANGED <<toResume, taken, line, picked>> /\ stack' = <<c>> \o stack
    BY <1>3 DEF Insert, releaser
  <2>2. <<c>> \in Seq(Coro) /\ (In(x, <<c>>) => x = c)
    BY DEF In
  <2>3. In(x, stack') => In(x, stack) \/ x = c
    BY <1>1, <2>1, <2>2, Joined
  <2>4. QED
    BY <1>3, <2>1, <2>3 DEF Points
<1>4. CASE Fetch(c)
  <2>1. /\ toResume' = toResume /\ picked' = picked
        /\ line' = [line EXCEPT ![c] = Skip(toResume)]
        /\ \/ UNCHANGED <<stack, taken>>
           \/ taken' = [taken EXCEPT ![c] = stack] /\ stack' = <<>>
    BY <1>4 DEF Fetch
  <2>2. In(x, Skip(toResume)) => In(x, toResume)
    BY <1>1, PartsIn
  <2>3. \A d \in Coro : /\ line'[d] = line[d] \/ line'[d] = Skip(toResume)
                        /\ taken'[d] = taken[d] \/ taken'[d] = stack
    BY <1>1, <2>1
  <2>4. In(x, stack') => In(x, stack)
    BY <1>1, <2>1
  <2>5. QED
    BY <2>1, <2>2, <2>3, <2>4 DEF Points
<1>5. CASE Relink(c)
  <2> DEFINE node == Head(taken[c])
  <2>1. /\ UNCHANGED <<stack, toResume, picked>> /\ taken[c] # <<>>
        /\ taken' = [taken EXCEPT ![c] = Tail(taken[c])]
        /\ line' = [line EXCEPT ![c] = IF consumed[node] THEN line[c] ELSE <<node>> \o line[c]]
    BY <1>5 DEF Relink, lists
  <2>2. In(node, taken[c]) /\ \A y : In(y, Tail(taken[c])) => In(y, taken[c])
    BY <1>1, <2>1, PartsIn
  <2>3. node \in Coro
    BY <1>1, <2>1, Popped
  <2> HIDE DEF node
  <2>4. <<node>> \in Seq(Coro) /\ (In(x, <<node>>) => x = node)
    BY <2>3 DEF In
  <2>5. line[c] \in Seq(Coro)
    BY <1>1
  <2>6. In(x, <<node>> \o line[c]) => x = node \/ In(x, line[c])
    BY <2>4, <2>5, Joined
  <2>7. \A d \in Coro : /\ In(x, line'[d]) => In(x, line[d]) \/ In(x, taken[c])
                        /\ In(x, taken'[d]) => In(x, taken[d]) \/ In(x, taken[c])
    BY <1>1, <2>1, <2>2, <2>6
  <2>8. QED
    BY <2>1, <2>7 DEF Points
<1>6. CASE Pick(c)
  <2> DEFINE s == Skip(line[c])
  <2>1. /\ UNCHANGED <<stack, taken>> /\ line' = [line EXCEPT ![c] = <<>>]
        /\ \/ toResume' = toResume /\ picked' = picked
           \/ toResume' = <<>> /\ picked' = picked
           \/ /\ s # <<>> /\ toResume' = Tail(s)
              /\ picked' = [picked EXCEPT ![c] = Head(s)]
    BY <1>6 DEF Pick, KeepUnits
  <2>2. s \in Seq(Coro) /\ \A y : In(y, s) => In(y, line[c])
    BY Lists, PartsIn
  <2> HIDE DEF s
  <2>3. s # <<>> => In(Head(s), line[c]) /\ \A y : In(y, Tail(s)) => In(y, line[c])
    BY <2>2, PartsIn
  <2>4. In(x, toResume') => In(x, toResume) \/ In(x, line[c])
    BY <1>1, <2>1, <2>3
  <2>5. \A d \in Coro : /\ x = picked'[d] => x = picked[d] \/ In(x, line[c])
                        /\ In(x, line'[d]) => In(x, line[d])
    BY <1>1, <2>1, <2>3
  <2>6. QED
    BY <2>1, <2>4, <2>5 DEF Points
<1>7. QED
  BY <1>2, <1>3, <1>4, <1>5, <1>6, Frames

LEMMA PointsPointed ==
  ASSUME TypeOK, NEW x \in Coro, Points(x)
  PROVE  PointedTo(x)
<1>1. /\ stack \in Seq(Coro) /\ toResume \in Seq(Coro)
      /\ \A d \in Coro : taken[d] \in Seq(Coro) /\ line[d] \in Seq(Coro)
  BY DEF TypeOK
<1>2. /\ In(x, stack) => x \in ToSet(stack)
      /\ In(x, toResume) => x \in ToSet(toResume)
      /\ \A d \in Coro : /\ In(x, taken[d]) => x \in ToSet(taken[d])
                         /\ In(x, line[d]) => x \in ToSet(line[d])
  BY <1>1, Indices
<1>3. QED
  BY <1>2 DEF Points, PointedTo

\* The one that a release picks is behind consumed waiters only, and leaves the queue.
LEMMA PickedHead ==
  ASSUME TypeOK, PlaceInv, NEW c \in Coro, Pick(c), Skip(line[c]) # <<>>, Distinct(WaitQueue)
  PROVE  /\ picked' = [picked EXCEPT ![c] = picked'[c]] /\ picked'[c] \in Coro
         /\ In(picked'[c], WaitQueue) /\ ~In(picked'[c], WaitQueue')
         /\ Thins(WaitQueue, WaitQueue', Served \cup {picked'[c]})
         /\ \E m \in 1..Len(WaitQueue) : /\ WaitQueue[m] = picked'[c]
                                         /\ \A i \in 1..m - 1 : consumed[WaitQueue[i]]
<1> DEFINE L == line[c]
           R == Reverse(stack)
           s == Skip(L)
           h == Head(s)
           t == Tail(s)
           one == <<h>>
<1>1. L \in Seq(Coro) /\ R \in Seq(Coro) /\ s \in Seq(Coro)
  BY Lists, Queues
<1>2. h \in Coro /\ t \in Seq(Coro) /\ s = one \o t /\ Len(t) = Len(s) - 1 /\ s[1] = h
      /\ \A i \in 1..Len(t) : t[i] = s[i + 1]
  <2>1. h \in Coro /\ t \in Seq(Coro) /\ s = one \o t
    BY <1>1, Popped
  <2>2. Len(t) = Len(s) - 1 /\ \A i \in 1..Len(t) : t[i] = s[i + 1]
    BY <1>1, HeadTailProperties
  <2>3. QED
    BY <2>1, <2>2
<1>3. L # <<>>
  <2>1. Skip(<<>>) = <<>>
    BY DEF Skip
  <2>2. QED
    BY <2>1
<1>4. /\ picked' = [picked EXCEPT ![c] = h] /\ picked'[c] = h /\ toResume' = t
  <2>1. picked \in [Coro -> Coro \cup {NoCoro}]
    BY DEF TypeOK
  <2>2. QED
    BY <1>3, <2>1 DEF Pick
<1>5. WaitQueue = L \o R /\ WaitQueue' = t \o R
  BY <1>4, PickQueue
<1>6. PICK m \in 0..Len(L) :
        /\ \A i \in 1..m : consumed[L[i]]
        /\ m < Len(L) => ~consumed[L[m + 1]]
        /\ Skip(L) \in Seq(Coro) /\ Len(Skip(L)) = Len(L) - m
        /\ \A i \in 1..Len(L) - m : Skip(L)[i] = L[m + i]
  <2> HIDE DEF L
  <2>1. QED
    BY <1>1, Skipped
<1>7. one \in Seq(Coro) /\ In(h, one)
  BY <1>2 DEF In
<1>8. Len(L) \in Nat /\ Len(t) \in Nat /\ \A i \in 1..Len(L) : L[i] \in Coro
  BY <1>1, <1>2, Indices
<1>8a. Len(s) = Len(L) - m /\ \A i \in 1..Len(L) - m : s[i] = L[m + i]
  BY <1>6
<1> HIDE DEF L, R, s, h, t, one
<1>9. /\ m + 1 \in 1..Len(L) /\ m + 1 \in 0..Len(L) /\ Len(t) = Len(L) - (m + 1)
      /\ 1 \in 1..Len(L) - m
  BY <1>2, <1>6, <1>8, <1>8a
<1>10. \A k \in 1..Len(L) - (m + 1) : t[k] = L[(m + 1) + k]
  <2>1. ASSUME NEW k \in 1..Len(L) - (m + 1)
        PROVE  t[k] = L[(m + 1) + k]
    <3>1. k \in 1..Len(t) /\ k + 1 \in 1..Len(L) - m /\ m + (k + 1) = (m + 1) + k
      BY <1>8, <1>9
    <3>2. t[k] = s[k + 1] /\ s[k + 1] = L[m + (k + 1)]
      BY <1>2, <1>6, <1>8a, <3>1
    <3>3. QED
      BY <3>1, <3>2
  <2>2. QED
    BY <2>1
<1>11. L[m + 1] = h
  BY <1>2, <1>6, <1>9, <1>8a
<1>12. \A i \in 1..m + 1 : L[i] \in Served \cup {h}
  <2>1. ASSUME NEW i \in 1..m + 1
        PROVE  L[i] \in Served \cup {h}
    <3>1. i = m + 1 \/ (i \in 1..m /\ i \in 1..Len(L))
      BY <1>8, <1>9
    <3>2. QED
      BY <1>6, <1>8, <1>11, <3>1 DEF Served
  <2>2. QED
    BY <2>1
<1>13. Thins(L \o R, t \o R, Served \cup {h})
  <2>1. m + 1 \in 0..Len(L) /\ Len(t) = Len(L) - (m + 1)
    BY <1>9
  <2>2. QED
    BY <1>1, <1>2, <1>10, <1>12, <2>1, DropThins
<1>14. ~In(h, t \o R)
  <2>1. Thins(L \o R, s \o R, Served) /\ L \o R \in Seq(Coro) /\ s \o R \in Seq(Coro)
        /\ t \o R \in Seq(Coro)
    BY <1>1, <1>2, SkipThins, ConcatProperties DEF s
  <2>2. Distinct(s \o R)
    BY <1>5, <2>1, Thinned
  <2>3. s \o R = one \o (t \o R)
    BY <1>1, <1>2, <1>7, ConcatAssociative
  <2>4. Apart(one, t \o R)
    BY <1>7, <2>1, <2>2, <2>3, Joined
  <2>5. QED
    BY <1>2, <1>7, <2>4 DEF Apart
<1>15. /\ m + 1 \in 1..Len(L \o R) /\ (L \o R)[m + 1] = h
       /\ \A i \in 1..(m + 1) - 1 : consumed[(L \o R)[i]]
  <2>1. /\ Len(L \o R) = Len(L) + Len(R) /\ Len(R) \in Nat
        /\ \A i \in 1..Len(L) : (L \o R)[i] = L[i]
    BY <1>1, Indices, Joined
  <2>2. m + 1 \in 1..Len(L \o R)
    BY <1>8, <1>9, <2>1
  <2>3. \A i \in 1..(m + 1) - 1 : i \in 1..m /\ i \in 1..Len(L)
    BY <1>8, <1>9
  <2>4. QED
    BY <1>6, <1>9, <1>11, <2>1, <2>2, <2>3
<1>16. In(h, L \o R)
  BY <1>15 DEF In
<1>17. QED
  BY <1>2, <1>4, <1>5, <1>13, <1>14, <1>15, <1>16

\* A step is one of a program that still has defined behaviour; if it still has
\* then, a coroutine that is about to be linked is one that AcquireSuspend began.
LEMMA Beginning ==
  ASSUME TypeOK, NEW c \in Coro, Operation(c)
  PROVE  /\ Defined
         /\ Defined' /\ pc'[c] = "insert" => AcquireSuspend(c) /\ ~Points(c)
         /\ consumed' = consumed \/ AcquireSuspend(c) \/ Consume(c)
<1> USE DEF Defined, Runs, Goto, acquirer
<1>1. pc \in [Coro -> Label]
  BY DEF TypeOK
<1>2. CASE AcquireSuspend(c)
  BY <1>2, PointsPointed DEF AcquireSuspend
<1>3. ASSUME NEW n \in 1..MaxUpdate, Release(c, n)
      PROVE  Defined /\ pc'[c] # "insert" /\ consumed' = consumed
  BY <1>1, <1>3 DEF Release
<1>4. CASE Resume(c) \/ Yield(c) \/ TryAcquire(c) \/ AcquireReady(c) \/ Insert(c) \/ Recheck(c)
  BY <1>1, <1>4 DEF Resume, Yield, TryAcquire, AcquireReady, Insert, Recheck
<1>5. CASE Consume(c) \/ PostSelf(c) \/ ReadDead(c) \/ Subtract(c) \/ Post(c)
  BY <1>1, <1>5 DEF Consume, PostSelf, ReadDead, Subtract, Post
<1>6. CASE Fetch(c) \/ Relink(c) \/ Pick(c)
  BY <1>1, <1>6 DEF Fetch, Relink, Pick, KeepUnits
<1>7. QED
  BY <1>2, <1>3, <1>4, <1>5, <1>6 DEF Operation, Acquire, TryRelease

LEMMA StepInsert ==
  ASSUME TypeOK, PlaceInv, OnceInv, NEW c \in Coro, Operation(c), Defined',
         NEW x \in Coro, pc'[x] = "insert"
  PROVE  ~Points(x)'
<1>1. CASE x = c
  <2>1. AcquireSuspend(c) /\ ~Points(c)
    BY <1>1, Beginning
  <2>2. ~Insert(c)
    BY <2>1 DEF AcquireSuspend, Insert
  <2>3. QED
    BY <1>1, <2>1, <2>2, PointsKept
<1>2. CASE x # c
  <2>1. pc'[x] = pc[x]
    BY <1>2, OperationLocal, OthersStay
  <2>2. ~Points(x)
    BY <2>1 DEF OnceInv
  <2>3. QED
    BY <1>2, <2>2, PointsKept
<1>3. QED
  BY <1>1, <1>2

\* Who is linked, picked or left is not about to be linked.
LEMMA NotInserting ==
  ASSUME TypeOK, OnceInv, NEW c \in Coro, pc[c] = "insert"
  PROVE  /\ ~In(c, WaitQueue) /\ ~In(c, Left) /\ \A d \in Coro : c # picked[d]
<1>1. ~Points(c)
  BY DEF OnceInv
<1>2. ~In(c, stack) /\ ~In(c, toResume) /\ \A x : ~In(x, <<>>)
  BY <1>1, EmptyList DEF Points
<1>3. \A d \in Coro : c # picked[d] /\ ~In(c, taken[d]) /\ ~In(c, line[d])
  BY <1>1 DEF Points
<1>4. /\ stack \in Seq(Coro) /\ toResume \in Seq(Coro) /\ notifier \in Coro \cup {NoCoro}
      /\ \A d \in Coro : taken[d] \in Seq(Coro) /\ line[d] \in Seq(Coro)
  BY DEF TypeOK
<1>5. ~In(c, Ahead)
  <2>1. CASE notifier = NoCoro
    BY <1>2, <2>1 DEF Ahead
  <2>2. CASE notifier # NoCoro
    <3>1. taken[notifier] \in Seq(Coro) /\ line[notifier] \in Seq(Coro) /\ notifier \in Coro
      BY <1>4, <2>2
    <3>2. Reverse(taken[notifier]) \in Seq(Coro) /\ ~In(c, Reverse(taken[notifier]))
      BY <1>3, <3>1, Reversed
    <3>3. QED
      BY <1>3, <2>2, <3>1, <3>2, Joined DEF Ahead
  <2>3. QED
    BY <2>1, <2>2
<1>6. ~In(c, WaitQueue)
  <2>1. Reverse(stack) \in Seq(Coro) /\ ~In(c, Reverse(stack))
    BY <1>2, <1>4, Reversed
  <2>2. QED
    BY <1>5, <2>1, Joined, Queues
<1>7. QED
  BY <1>2, <1>3, <1>6 DEF Left

\* Nobody is in the queue twice, nor both in it and left behind.
LEMMA StepQueue ==
  ASSUME TypeOK, PlaceInv, OnceInv, NEW c \in Coro, Operation(c)
  PROVE  Distinct(WaitQueue') /\ Distinct(Left') /\ Apart(WaitQueue', Left')
<1>1. /\ Distinct(WaitQueue) /\ Distinct(Left) /\ Apart(WaitQueue, Left)
      /\ WaitQueue \in Seq(Coro) /\ Left \in Seq(Coro) /\ Reverse(stack) \in Seq(Coro)
      /\ toResume \in Seq(Coro)
  BY Queues DEF OnceInv
<1>2. Distinct(<<>>) /\ \A x : ~In(x, <<>>)
  BY EmptyList
<1>3. CASE Unlisted(c)
  <2>1. WaitQueue' = WaitQueue /\ Left' = Left
    BY <1>3, SameQueue DEF Unlisted
  <2>2. QED
    BY <1>1, <2>1
<1>4. CASE Insert(c)
  <2>1. WaitQueue' = WaitQueue \o <<c>> /\ Left' = Left
    BY <1>4, InsertQueue
  <2>2. pc[c] = "insert"
    BY <1>4 DEF Insert
  <2>3. ~In(c, WaitQueue) /\ ~In(c, Left)
    BY <2>2, NotInserting
  <2>4. /\ <<c>> \in Seq(Coro) /\ \A x : In(x, <<c>>) => x = c
        /\ Distinct(<<c>>)
    BY DEF In, Distinct
  <2>5. Apart(WaitQueue, <<c>>)
    BY <2>3, <2>4 DEF Apart
  <2>6. Distinct(WaitQueue \o <<c>>) /\ \A x : In(x, WaitQueue \o <<c>>) => In(x, WaitQueue) \/ x = c
    BY <1>1, <2>4, <2>5, Joined
  <2>7. QED
    BY <1>1, <2>1, <2>3, <2>6 DEF Apart
<1>5. CASE Fetch(c)
  <2> DEFINE R == Reverse(stack)
             s == Skip(toResume)
  <2>1. /\ WaitQueue = toResume \o R /\ WaitQueue' = s \o R
        /\ \/ Left' = <<>>
           \/ s = <<>> /\ Left' = toResume
    BY <1>5, FetchQueue
  <2>2. s \in Seq(Coro) /\ Thins(toResume \o R, s \o R, Served)
    BY <1>1, Lists, SkipThins
  <2> HIDE DEF s
  <2>3. s \o R \in Seq(Coro)
    BY <1>1, <2>2, Joined
  <2>4. Distinct(s \o R)
    BY <1>1, <2>1, <2>2, <2>3, Thinned
  <2>5. Distinct(toResume) /\ Apart(toResume, R)
    BY <1>1, <2>1, Joined
  <2>6. CASE Left' = <<>>
    BY <1>2, <2>1, <2>4, <2>6 DEF Apart
  <2>7. CASE s = <<>> /\ Left' = toResume
    <3>1. WaitQueue' = R
      BY <1>1, <2>1, <2>7, ConcatEmptySeq
    <3>2. QED
      BY <2>1, <2>4, <2>5, <2>7, <3>1 DEF Apart
  <2>8. QED
    BY <2>1, <2>6, <2>7
<1>6. CASE Relink(c)
  <2>1. /\ WaitQueue' = WaitQueue \/ Thins(WaitQueue, WaitQueue', Served)
        /\ WaitQueue' \in Seq(Coro)
        /\ Left' = <<>> \/ Left' = Left
    BY <1>6, RelinkQueue
  <2>2. Distinct(WaitQueue') /\ \A x : In(x, WaitQueue') => In(x, WaitQueue)
    BY <1>1, <2>1, Thinned
  <2>3. QED
    BY <1>1, <1>2, <2>1, <2>2 DEF Apart
<1>7. CASE Pick(c)
  <2>1. /\ WaitQueue = line[c] \o Reverse(stack) /\ WaitQueue' = toResume' \o Reverse(stack)
        /\ Left = (IF line[c] = <<>> THEN toResume ELSE <<>>)
        /\ Left' = <<>>
    BY <1>7, PickQueue
  <2>2. Distinct(WaitQueue')
    <3>1. CASE line[c] = <<>>
      <4>1. toResume' = toResume
        <5>1. Skip(<<>>) = <<>>
          BY DEF Skip
        <5>2. QED
          BY <1>7, <3>1, <5>1 DEF Pick
      <4>2. WaitQueue = Reverse(stack)
        BY <1>1, <2>1, <3>1, ConcatEmptySeq
      <4>3. Apart(toResume, Reverse(stack))
        BY <1>1, <2>1, <3>1, <4>2 DEF Apart
      <4>4. QED
        BY <1>1, <2>1, <3>1, <4>1, <4>2, <4>3, Joined
    <3>2. CASE line[c] # <<>> /\ Skip(line[c]) = <<>>
      <4>1. WaitQueue' = Reverse(stack)
        BY <1>1, <1>7, <2>1, <3>2, ConcatEmptySeq DEF Pick
      <4>2. line[c] \in Seq(Coro)
        BY Lists
      <4>3. QED
        BY <1>1, <2>1, <4>1, <4>2, Joined
    <3>3. CASE Skip(line[c]) # <<>>
      <4>1. Thins(WaitQueue, WaitQueue', Served \cup {picked'[c]})
        BY <1>1, <1>7, <3>3, PickedHead
      <4>2. toResume' \in Seq(Coro)
        BY <1>7, OperationLocal DEF Common
      <4>3. WaitQueue' \in Seq(Coro)
        BY <1>1, <2>1, <4>2, Joined
      <4>4. QED
        BY <1>1, <4>1, <4>3, Thinned
    <3>4. QED
      BY <3>1, <3>2, <3>3
  <2>3. QED
    BY <1>2, <2>1, <2>2 DEF Apart
<1>8. QED
  BY <1>3, <1>4, <1>5, <1>6, <1>7, Frames

\* Whoever is left behind is consumed.
LEMMA StepLeft ==
  ASSUME TypeOK, PlaceInv, OnceInv, NEW c \in Coro, Operation(c), Defined',
         NEW x \in Coro, In(x, Left')
  PROVE  consumed'[x]
<1>1. ~In(x, <<>>) /\ consumed \in [Coro -> BOOLEAN] /\ pc \in [Coro -> Label]
  BY EmptyList DEF TypeOK
<1>2. consumed[x] /\ In(x, toResume)
  <2>1. CASE Left' = Left
    BY <1>1, <2>1 DEF OnceInv, Left
  <2>2. CASE Fetch(c)
    <3>1. Skip(toResume) = <<>> /\ Left' = toResume
      BY <1>1, <2>2, FetchQueue
    <3>2. toResume \in Seq(Coro)
      BY DEF TypeOK
    <3>3. QED
      BY <3>1, <3>2, PartsIn
  <2>3. Left' = Left \/ Left' = <<>> \/ Fetch(c)
    BY Frames, SameQueue, InsertQueue, RelinkQueue, PickQueue DEF Unlisted
  <2>4. QED
    BY <1>1, <2>1, <2>2, <2>3
<1>3. CASE AcquireSuspend(c)
  <2>1. pc'[c] = "insert" /\ consumed' = [consumed EXCEPT ![c] = FALSE]
    BY <1>1, <1>3 DEF AcquireSuspend, Goto
  <2>2. ~In(c, toResume)
    BY <2>1, Beginning DEF Points
  <2>3. QED
    BY <1>1, <1>2, <2>1, <2>2
<1>4. CASE Consume(c)
  BY <1>1, <1>2, <1>4 DEF Consume
<1>5. QED
  BY <1>2, <1>3, <1>4, Beginning

\* Whoever a release has picked is nowhere else.
LEMMA StepPicked ==
  ASSUME TypeOK, PlaceInv, OnceInv, NEW c \in Coro, Operation(c), TypeOK'
  PROVE  /\ \A d \in Coro : ~In(picked'[d], WaitQueue') /\ ~In(picked'[d], Left')
         /\ \A d, e \in Coro : picked'[d] = picked'[e] /\ picked'[d] \in Coro => d = e
<1>1. /\ \A d \in Coro : ~In(picked[d], WaitQueue) /\ ~In(picked[d], Left)
      /\ \A d, e \in Coro : picked[d] = picked[e] /\ picked[d] \in Coro => d = e
      /\ Distinct(WaitQueue)
  BY DEF OnceInv
<1>2. /\ \A x : ~In(x, <<>>)
      /\ WaitQueue \in Seq(Coro) /\ Left \in Seq(Coro) /\ Reverse(stack) \in Seq(Coro)
      /\ toResume \in Seq(Coro)
  BY EmptyList, Queues
<1>3. /\ NoCoro \notin Coro
      /\ picked \in [Coro -> Coro \cup {NoCoro}] /\ picked' \in [Coro -> Coro \cup {NoCoro}]
  BY Constants_ DEF TypeOK
<1>4. ~In(NoCoro, WaitQueue) /\ ~In(NoCoro, Left)
  <2>1. /\ \A i \in 1..Len(WaitQueue) : WaitQueue[i] \in Coro
        /\ \A i \in 1..Len(Left) : Left[i] \in Coro
    BY <1>2, Indices
  <2>2. QED
    BY <1>3, <2>1 DEF In
<1>5. ASSUME \A d \in Coro : picked'[d] \in {picked[d], NoCoro},
             \A x \in Coro \cup {NoCoro} :
                /\ In(x, WaitQueue') => \/ In(x, WaitQueue) \/ In(x, Left)
                                        \/ (x \in Coro /\ \A d \in Coro : x # picked[d])
                /\ In(x, Left') => In(x, Left) \/ In(x, WaitQueue)
      PROVE  /\ \A d \in Coro : ~In(picked'[d], WaitQueue') /\ ~In(picked'[d], Left')
             /\ \A d, e \in Coro : picked'[d] = picked'[e] /\ picked'[d] \in Coro => d = e
  <2>1. ASSUME NEW d \in Coro
        PROVE  ~In(picked'[d], WaitQueue') /\ ~In(picked'[d], Left')
    BY <1>1, <1>3, <1>4, <1>5, <2>1
  <2>2. \A d, e \in Coro : picked'[d] = picked'[e] /\ picked'[d] \in Coro => d = e
    BY <1>1, <1>3, <1>5
  <2>3. QED
    BY <2>1, <2>2
<1>6. CASE Unlisted(c)
  <2>1. WaitQueue' = WaitQueue /\ Left' = Left
    BY <1>6, SameQueue DEF Unlisted
  <2>2. QED
    BY <1>5, <1>6, <2>1 DEF Unlisted
<1>7. CASE Insert(c)
  <2>1. WaitQueue' = WaitQueue \o <<c>> /\ Left' = Left /\ picked' = picked
    BY <1>7, InsertQueue DEF Insert, releaser
  <2>2. \A d \in Coro : c # picked[d]
    BY <1>7, NotInserting DEF Insert
  <2>3. <<c>> \in Seq(Coro) /\ \A x : In(x, <<c>>) => x = c
    BY DEF In
  <2>4. \A x : In(x, WaitQueue \o <<c>>) => In(x, WaitQueue) \/ x = c
    BY <1>2, <2>3, Joined
  <2>5. QED
    BY <1>5, <2>1, <2>2, <2>4
<1>8. CASE Fetch(c)
  <2> DEFINE R == Reverse(stack)
             s == Skip(toResume)
  <2>1. /\ WaitQueue = toResume \o R /\ WaitQueue' = s \o R
        /\ Left' = <<>> \/ Left' = toResume
    BY <1>8, FetchQueue
  <2>2. s \in Seq(Coro) /\ \A x : In(x, s) => In(x, toResume)
    BY <1>2, Lists, PartsIn
  <2> HIDE DEF s, R
  <2>3. /\ \A x : In(x, toResume \o R) <=> In(x, toResume) \/ In(x, R)
        /\ \A x : In(x, s \o R) <=> In(x, s) \/ In(x, R)
    BY <1>2, <2>2, Joined DEF R
  <2>4. picked' = picked
    BY <1>8 DEF Fetch
  <2>5. QED
    BY <1>2, <1>5, <2>1, <2>2, <2>3, <2>4
<1>9. CASE Relink(c)
  <2>1. /\ WaitQueue' = WaitQueue \/ Thins(WaitQueue, WaitQueue', Served)
        /\ WaitQueue' \in Seq(Coro)
        /\ Left' = <<>> \/ Left' = Left
    BY <1>9, RelinkQueue
  <2>2. \A x : In(x, WaitQueue') => In(x, WaitQueue)
    BY <1>2, <2>1, Thinned
  <2>3. picked' = picked
    BY <1>9 DEF Relink
  <2>4. QED
    BY <1>2, <1>5, <2>1, <2>2, <2>3
<1>10. CASE Pick(c)
  <2>1. /\ WaitQueue = line[c] \o Reverse(stack) /\ WaitQueue' = toResume' \o Reverse(stack)
        /\ Left = (IF line[c] = <<>> THEN toResume ELSE <<>>)
        /\ Left' = <<>> /\ toResume' \in Seq(Coro) /\ line[c] \in Seq(Coro)
    BY <1>10, PickQueue, Lists DEF TypeOK
  <2>2. /\ \A x : In(x, WaitQueue) <=> In(x, line[c]) \/ In(x, Reverse(stack))
        /\ \A x : In(x, WaitQueue') <=> In(x, toResume') \/ In(x, Reverse(stack))
    BY <1>2, <2>1, Joined
  <2>3. CASE line[c] = <<>>
    <3>1. Skip(<<>>) = <<>>
      BY DEF Skip
    <3>2. toResume' = toResume /\ picked' = picked
      BY <1>10, <2>3, <3>1 DEF Pick, KeepUnits
    <3>3. QED
      BY <1>2, <1>5, <2>1, <2>2, <2>3, <3>2
  <2>4. CASE line[c] # <<>> /\ Skip(line[c]) = <<>>
    <3>1. toResume' = <<>> /\ picked' = picked
      BY <1>10, <2>4 DEF Pick, KeepUnits
    <3>2. QED
      BY <1>2, <1>5, <2>1, <2>2, <3>1
  <2>5. CASE Skip(line[c]) # <<>>
    <3> DEFINE h == picked'[c]
    <3>1. /\ picked' = [picked EXCEPT ![c] = h] /\ h \in Coro
          /\ In(h, WaitQueue) /\ ~In(h, WaitQueue')
          /\ Thins(WaitQueue, WaitQueue', Served \cup {h})
      BY <1>1, <1>10, <2>5, PickedHead
    <3> HIDE DEF h
    <3>2. WaitQueue' \in Seq(Coro)
      BY <1>2, <2>1, Joined
    <3>3. \A x : In(x, WaitQueue') => In(x, WaitQueue)
      BY <1>2, <3>1, <3>2, Thinned
    <3>4. \A d \in Coro : d # c => picked'[d] = picked[d]
      BY <1>3, <3>1
    <3>5. \A d \in Coro : h # picked[d]
      BY <1>1, <3>1
    <3>6. picked'[c] = h
      BY DEF h
    <3>7. ASSUME NEW d \in Coro
          PROVE  ~In(picked'[d], WaitQueue') /\ ~In(picked'[d], Left')
      BY <1>1, <1>2, <2>1, <3>1, <3>3, <3>4, <3>6
    <3>8. ASSUME NEW d \in Coro, NEW e \in Coro, picked'[d] = picked'[e], picked'[d] \in Coro
          PROVE  d = e
      BY <1>1, <3>4, <3>5, <3>6, <3>8
    <3>9. QED
      BY <3>7, <3>8
  <2>6. QED
    BY <2>3, <2>4, <2>5
<1>11. QED
  BY <1>6, <1>7, <1>8, <1>9, <1>10, Frames

LEMMA StepOnce ==
  ASSUME TypeOK, PlaceInv, OnceInv, NEW c \in Coro, Operation(c), Defined', TypeOK'
  PROVE  OnceInv'
<1>1. Distinct(WaitQueue') /\ Distinct(Left') /\ Apart(WaitQueue', Left')
  BY StepQueue
<1>2. /\ \A d \in Coro : ~In(picked'[d], WaitQueue') /\ ~In(picked'[d], Left')
      /\ \A d, e \in Coro : picked'[d] = picked'[e] /\ picked'[d] \in Coro => d = e
  BY StepPicked
<1>3. \A x \in Coro : pc'[x] = "insert" => ~Points(x)'
  BY StepInsert
<1>4. \A x \in Coro : In(x, Left') => consumed'[x]
  BY StepLeft
<1>5. QED
  BY <1>1, <1>2, <1>3, <1>4 DEF OnceInv

-----------------------------------------------------------------------------
(* Who waits, and the units that are there.                                 *)

\* Who waits in the queue still does, or is consumed or chosen.
LEMMA StillWaits ==
  ASSUME TypeOK, PlaceInv, OnceInv, NEW c \in Coro, Operation(c), NEW x \in Coro,
         In(x, WaitQueue)
  PROVE  In(x, WaitQueue') \/ consumed[x] \/ x \in Chosen'
<1>1. /\ \A y : ~In(y, <<>>) /\ Distinct(WaitQueue)
      /\ WaitQueue \in Seq(Coro) /\ Reverse(stack) \in Seq(Coro)
      /\ toResume \in Seq(Coro) /\ NoCoro \notin Coro
  BY EmptyList, Queues, Constants_ DEF OnceInv
<1>2. CASE Unlisted(c)
  BY <1>2, SameQueue DEF Unlisted
<1>3. CASE Insert(c)
  <2>1. WaitQueue' = WaitQueue \o <<c>>
    BY <1>3, InsertQueue
  <2>2. <<c>> \in Seq(Coro)
    OBVIOUS
  <2>3. QED
    BY <1>1, <2>1, <2>2, Joined
<1>4. CASE Fetch(c)
  <2>1. /\ WaitQueue = toResume \o Reverse(stack)
        /\ WaitQueue' = Skip(toResume) \o Reverse(stack)
    BY <1>4, FetchQueue
  <2>2. Thins(WaitQueue, WaitQueue', Served)
    BY <1>1, <2>1, SkipThins
  <2>3. WaitQueue' \in Seq(Coro)
    BY <1>1, <2>1, Lists, Joined
  <2>4. QED
    BY <1>1, <2>2, <2>3, Thinned DEF Served
<1>5. CASE Relink(c)
  <2>1. /\ WaitQueue' = WaitQueue \/ Thins(WaitQueue, WaitQueue', Served)
        /\ WaitQueue' \in Seq(Coro)
    BY <1>5, RelinkQueue
  <2>2. QED
    BY <1>1, <2>1, Thinned DEF Served
<1>6. CASE Pick(c)
  <2>1. /\ WaitQueue = line[c] \o Reverse(stack) /\ WaitQueue' = toResume' \o Reverse(stack)
        /\ toResume' \in Seq(Coro) /\ line[c] \in Seq(Coro)
    BY <1>6, PickQueue, Lists, OperationLocal DEF Common
  <2>2. /\ In(x, WaitQueue) <=> In(x, line[c]) \/ In(x, Reverse(stack))
        /\ In(x, WaitQueue') <=> In(x, toResume') \/ In(x, Reverse(stack))
    BY <1>1, <2>1, Joined
  <2>3. CASE Skip(line[c]) = <<>>
    <3>1. In(x, line[c]) => consumed[x]
      BY <2>1, <2>3, PartsIn
    <3>2. QED
      BY <2>2, <3>1
  <2>4. CASE Skip(line[c]) # <<>>
    <3>1. /\ Thins(WaitQueue, WaitQueue', Served \cup {picked'[c]}) /\ picked'[c] \in Coro
      BY <1>1, <1>6, <2>4, PickedHead
    <3>2. WaitQueue' \in Seq(Coro)
      BY <1>1, <2>1, Joined
    <3>3. In(x, WaitQueue') \/ x \in Served \cup {picked'[c]}
      BY <1>1, <3>1, <3>2, Thinned
    <3>4. picked'[c] \in Chosen'
      BY <1>1, <3>1 DEF Chosen
    <3>5. QED
      BY <3>3, <3>4 DEF Served
  <2>5. QED
    BY <2>3, <2>4
<1>7. QED
  BY <1>2, <1>3, <1>4, <1>5, <1>6, Frames

\* Who is in the queue was, but for the one that Insert links and for those that were
\* left behind.
LEMMA WaitedBefore ==
  ASSUME TypeOK, PlaceInv, OnceInv, NEW c \in Coro, Operation(c), NEW x \in Coro,
         In(x, WaitQueue')
  PROVE  \/ In(x, WaitQueue) /\ ~(Pick(c) /\ line[c] = <<>>)
         \/ Insert(c) /\ x = c
         \/ Pick(c) /\ line[c] = <<>> /\ (In(x, Left) \/ In(x, stack))
<1>1. /\ \A y : ~In(y, <<>>) /\ Distinct(WaitQueue)
      /\ WaitQueue \in Seq(Coro) /\ Reverse(stack) \in Seq(Coro)
      /\ toResume \in Seq(Coro) /\ stack \in Seq(Coro)
  BY EmptyList, Queues DEF OnceInv, TypeOK
<1>2. Pick(c) => pc[c] = "reverse" /\ taken[c] = <<>> /\ notifier' = NoCoro
  BY DEF Pick
<1>3. CASE Unlisted(c)
  <2>1. notifier = c => ~Pick(c)
    BY <1>2, <1>3, Constants_ DEF Unlisted
  <2>2. Pick(c) => notifier = c
    BY <1>2 DEF PlaceInv
  <2>3. QED
    BY <1>3, <2>1, <2>2, SameQueue DEF Unlisted
<1>4. CASE Insert(c)
  <2>1. WaitQueue' = WaitQueue \o <<c>> /\ ~Pick(c)
    BY <1>2, <1>4, InsertQueue DEF Insert
  <2>2. <<c>> \in Seq(Coro) /\ (In(x, <<c>>) => x = c)
    BY DEF In
  <2>3. QED
    BY <1>1, <1>4, <2>1, <2>2, Joined
<1>5. CASE Fetch(c)
  <2>1. /\ WaitQueue = toResume \o Reverse(stack) /\ ~Pick(c)
        /\ WaitQueue' = Skip(toResume) \o Reverse(stack)
    BY <1>2, <1>5, FetchQueue DEF Fetch
  <2>2. Thins(WaitQueue, WaitQueue', Served)
    BY <1>1, <2>1, SkipThins
  <2>3. WaitQueue' \in Seq(Coro)
    BY <1>1, <2>1, Lists, Joined
  <2>4. QED
    BY <1>1, <2>1, <2>2, <2>3, Thinned
<1>6. CASE Relink(c)
  <2>1. /\ WaitQueue' = WaitQueue \/ Thins(WaitQueue, WaitQueue', Served)
        /\ WaitQueue' \in Seq(Coro) /\ ~Pick(c)
    BY <1>2, <1>6, RelinkQueue DEF Relink
  <2>2. QED
    BY <1>1, <2>1, Thinned
<1>7. CASE Pick(c)
  <2>1. /\ WaitQueue = line[c] \o Reverse(stack) /\ WaitQueue' = toResume' \o Reverse(stack)
        /\ Left = (IF line[c] = <<>> THEN toResume ELSE <<>>)
        /\ toResume' \in Seq(Coro) /\ line[c] \in Seq(Coro)
    BY <1>7, PickQueue, Lists, OperationLocal DEF Common
  <2>2. /\ In(x, WaitQueue) <=> In(x, line[c]) \/ In(x, Reverse(stack))
        /\ In(x, WaitQueue') <=> In(x, toResume') \/ In(x, Reverse(stack))
        /\ In(x, Reverse(stack)) <=> In(x, stack)
    BY <1>1, <2>1, Joined, Reversed
  <2>3. CASE line[c] = <<>>
    <3>1. Skip(<<>>) = <<>>
      BY DEF Skip
    <3>2. toResume' = toResume
      BY <1>7, <2>3, <3>1 DEF Pick
    <3>3. QED
      BY <1>7, <2>1, <2>2, <2>3, <3>2
  <2>4. CASE line[c] # <<>> /\ Skip(line[c]) = <<>>
    <3>1. toResume' = <<>>
      BY <1>7, <2>4 DEF Pick
    <3>2. QED
      BY <1>1, <2>2, <2>4, <3>1
  <2>5. CASE line[c] # <<>> /\ Skip(line[c]) # <<>>
    <3>1. Thins(WaitQueue, WaitQueue', Served \cup {picked'[c]})
      BY <1>1, <1>7, <2>5, PickedHead
    <3>2. WaitQueue' \in Seq(Coro)
      BY <1>1, <2>1, Joined
    <3>3. QED
      BY <1>1, <2>5, <3>1, <3>2, Thinned
  <2>6. QED
    BY <2>3, <2>4, <2>5
<1>8. QED
  BY <1>3, <1>4, <1>5, <1>6, <1>7, Frames

\* What a step of c does to who waits.
LEMMA Moves ==
  ASSUME TypeOK, PlaceInv, NEW c \in Coro, Operation(c), Defined'
  PROVE  /\ \A x \in Coro : x # c /\ posted[x] => posted'[x]
         /\ pc'[c] = "waiting" => \/ posted'[c]
                                  \/ /\ Recheck(c) /\ pc[c] = "recheck" /\ counter <= 0
                                     /\ counter' = counter
         /\ pc'[c] = "recheck" => Insert(c)
         /\ pc'[c] = "insert" => AcquireSuspend(c)
         /\ gaveUp => gaveUp'
         /\ \A x \in Coro : x \in Chosen => x \in Chosen' \/ posted'[x]
<1> USE DEF Goto, acquirer, releaser
<1>1. /\ pc \in [Coro -> Label] /\ posted \in [Coro -> BOOLEAN]
      /\ picked \in [Coro -> Coro \cup {NoCoro}] /\ NoCoro \notin Coro
  BY Constants_ DEF TypeOK
<1>2. picked' = picked => Chosen' = Chosen
  BY DEF Chosen
<1>3. CASE \/ Resume(c) \/ Yield(c) \/ TryAcquire(c) \/ AcquireReady(c) \/ AcquireSuspend(c)
           \/ Insert(c) \/ Consume(c)
  <2>1. /\ picked' = picked /\ gaveUp' = gaveUp
        /\ posted' = posted \/ posted' = [posted EXCEPT ![c] = FALSE]
    BY <1>3 DEF Resume, Yield, TryAcquire, AcquireReady, AcquireSuspend, Insert, Consume
  <2>2. \/ pc'[c] \in {"idle", "post self"}
        \/ pc'[c] = "insert" /\ AcquireSuspend(c)
        \/ pc'[c] = "recheck" /\ Insert(c)
    BY <1>1, <1>3 DEF Resume, Yield, TryAcquire, AcquireReady, AcquireSuspend, Insert, Consume
  <2>3. \A x \in Coro : x # c /\ posted[x] => posted'[x]
    BY <1>1, <2>1
  <2>4. QED
    BY <1>2, <2>1, <2>2, <2>3
<1>4. CASE Recheck(c)
  <2>1. /\ picked' = picked /\ gaveUp' = gaveUp /\ posted' = posted
        /\ pc[c] = "recheck"
        /\ \/ pc'[c] = "consume"
           \/ pc'[c] = "waiting" /\ counter <= 0 /\ counter' = counter
    BY <1>1, <1>4 DEF Recheck
  <2>2. QED
    BY <1>2, <1>4, <2>1
<1>5. ASSUME NEW n \in 1..MaxUpdate, Release(c, n)
      PROVE  /\ \A x \in Coro : posted[x] => posted'[x]
             /\ pc'[c] = "try" /\ gaveUp' = gaveUp /\ picked' = picked
  BY <1>1, <1>5 DEF Release
<1>6. CASE PostSelf(c)
  <2>1. posted' = [posted EXCEPT ![c] = TRUE] /\ pc'[c] = "waiting" /\ gaveUp' = gaveUp /\ picked' = picked
    <3>1. posted' = [posted EXCEPT ![c] = TRUE]
      BY <1>6, SpawnHandles, Beginning DEF PostSelf, Defined
    <3>2. QED
      BY <1>1, <1>6, <3>1 DEF PostSelf
  <2>2. QED
    BY <1>1, <1>2, <2>1
<1>7. CASE ReadDead(c)
  BY <1>7 DEF ReadDead, Defined
<1>8. CASE Fetch(c) \/ Relink(c) \/ Subtract(c)
  BY <1>1, <1>2, <1>8 DEF Fetch, Relink, Subtract
<1>9. CASE Pick(c)
  <2>1. picked[c] = NoCoro
    BY <1>1, <1>9 DEF Pick, TypeOK
  <2>2. \A d \in Coro : d # c => picked'[d] = picked[d]
    BY <1>1, <1>9 DEF Pick, KeepUnits
  <2>3. \A x \in Coro : x \in Chosen => x \in Chosen'
    BY <1>1, <2>1, <2>2 DEF Chosen
  <2>4. posted' = posted /\ pc'[c] \in {"idle", "subtract"} /\ (gaveUp => gaveUp')
    BY <1>1, <1>9 DEF Pick, KeepUnits
  <2>5. QED
    BY <2>3, <2>4
<1>10. CASE Post(c)
  <2>1. picked[c] \in Coro
    BY <1>10 DEF Post, TypeOK
  <2>2. posted' = [posted EXCEPT ![picked[c]] = TRUE]
    BY <1>10, <2>1, SpawnHandles, Beginning DEF Post, Defined
  <2>3. \A x \in Coro : x \in Chosen => x \in Chosen' \/ posted'[x]
    <3>1. \A d \in Coro : d # c => picked'[d] = picked[d]
      BY <1>1, <1>10 DEF Post
    <3>2. posted'[picked[c]]
      BY <1>1, <2>1, <2>2
    <3>3. QED
      BY <1>1, <3>1, <3>2 DEF Chosen
  <2>4. pc'[c] \in {"try", "idle"} /\ gaveUp' = gaveUp
    BY <1>1, <1>10 DEF Post
  <2>5. QED
    BY <1>1, <2>2, <2>3, <2>4
<1>11. QED
  BY <1>2, <1>3, <1>4, <1>5, <1>6, <1>7, <1>8, <1>9, <1>10 DEF Operation, Acquire, TryRelease

LEMMA StepKept ==
  ASSUME TypeOK, PlaceInv, OnceInv, KeptInv, NEW c \in Coro, Operation(c), Defined'
  PROVE  KeptInv'
<1>1. /\ consumed \in [Coro -> BOOLEAN] /\ posted \in [Coro -> BOOLEAN]
      /\ pc \in [Coro -> Label]
  BY DEF TypeOK
<1>2. \A x \in Coro : x # c => pc'[x] = pc[x] /\ consumed'[x] = consumed[x]
  BY OperationLocal, OthersStay
<1>3. Insert(c) \/ Recheck(c) => consumed' = consumed /\ posted' = posted
  BY DEF Insert, Recheck, acquirer
<1>4. ASSUME NEW x \in Coro, pc'[x] \in {"recheck", "waiting"}, ~consumed'[x], ~posted'[x]
      PROVE  In(x, WaitQueue') \/ x \in Chosen'
  <2>1. CASE Insert(c) /\ x = c
    <3>1. WaitQueue' = WaitQueue \o <<c>> /\ WaitQueue \in Seq(Coro)
      BY <2>1, InsertQueue, Queues
    <3>2. <<c>> \in Seq(Coro) /\ In(c, <<c>>)
      BY DEF In
    <3>3. QED
      BY <2>1, <3>1, <3>2, Joined
  <2>2. CASE ~(Insert(c) /\ x = c)
    <3>1. pc[x] \in {"recheck", "waiting"} /\ ~consumed[x] /\ ~posted[x]
      <4>1. CASE x = c
        BY <1>3, <1>4, <2>2, <4>1, Moves
      <4>2. CASE x # c
        BY <1>2, <1>4, <4>2, Moves
      <4>3. QED
        BY <4>1, <4>2
    <3>2. In(x, WaitQueue) \/ x \in Chosen
      BY <3>1 DEF KeptInv
    <3>3. QED
      BY <1>4, <3>1, <3>2, StillWaits, Moves
  <2>3. QED
    BY <2>1, <2>2
<1>5. ASSUME NEW x \in Coro, pc'[x] = "waiting", consumed'[x]
      PROVE  posted'[x]
  <2>1. CASE x = c
    BY <1>3, <1>5, <2>1, Moves DEF KeptInv
  <2>2. CASE x # c
    BY <1>2, <1>5, <2>2, Moves DEF KeptInv
  <2>3. QED
    BY <2>1, <2>2
<1>6. ASSUME NEW x \in Coro, pc'[x] \in {"insert", "recheck"}
      PROVE  ~consumed'[x]
  <2>1. CASE x = c
    <3>1. CASE Insert(c)
      BY <1>3, <2>1, <3>1 DEF KeptInv, Insert
    <3>2. CASE AcquireSuspend(c)
      BY <1>1, <2>1, <3>2 DEF AcquireSuspend
    <3>3. QED
      BY <1>6, <2>1, <3>1, <3>2, Moves
  <2>2. CASE x # c
    BY <1>2, <1>6, <2>2 DEF KeptInv
  <2>3. QED
    BY <2>1, <2>2
<1>7. QED
  BY <1>4, <1>5, <1>6 DEF KeptInv

\* A step adds no more units to the counter than to those in flight, but for a release
\* that leaves its own where they are.
LEMMA UnitsMove ==
  ASSUME TypeOK, PlaceInv, NEW c \in Coro, Operation(c)
  PROVE  /\ counter \in Int /\ counter' \in Int /\ InFlight \in Nat /\ InFlight' \in Nat
         /\ ~Pick(c) => counter' - InFlight' <= counter - InFlight
         /\ Pick(c) => /\ counter' = counter
                       /\ \/ /\ Skip(line[c]) # <<>> /\ InFlight' = InFlight
                          \/ /\ line[c] # <<>> /\ Skip(line[c]) = <<>> /\ gaveUp'
                          \/ /\ line[c] = <<>> /\ InFlight' = InFlight - todo[c]
         /\ \A d \in Coro : todo[d] \in Nat /\ todo[d] <= InFlight
<1>1. /\ todo \in [Coro -> 0..MaxUpdate] /\ counter \in Int /\ MaxUpdate \in Nat
      /\ InFlight \in Nat /\ \A d \in Coro : todo[d] \in Nat /\ todo[d] <= InFlight
  BY Flying, Constants_ DEF TypeOK
<1>2. counter' \in Int
  BY OperationLocal DEF Common
<1>3. todo' = todo => InFlight' = InFlight
  BY DEF InFlight, Units
<1>4. ASSUME todo' = todo, counter' = counter \/ counter' = counter - 1
      PROVE  counter' - InFlight' <= counter - InFlight /\ InFlight' \in Nat
  BY <1>1, <1>3, <1>4
<1>5. ASSUME NEW n \in 1..MaxUpdate, Release(c, n)
      PROVE  counter' - InFlight' <= counter - InFlight /\ InFlight' \in Nat
  <2>1. n \in 0..MaxUpdate /\ n \in Int /\ todo[c] = 0
    BY <1>1, <1>5 DEF Release, PlaceInv, InRelease
  <2>2. InFlight' = InFlight - todo[c] + n /\ InFlight' \in Nat
    BY <1>1, <1>5, <2>1, Fly DEF Release
  <2>3. counter' = counter + n
    BY <1>5 DEF Release
  <2>4. QED
    BY <1>1, <2>1, <2>2, <2>3
<1>6. CASE Subtract(c)
  <2>1. todo[c] > 0 /\ todo[c] \in 0..MaxUpdate
    BY <1>1, <1>6 DEF Subtract, PlaceInv
  <2>2. todo[c] - 1 \in 0..MaxUpdate /\ todo' = [todo EXCEPT ![c] = todo[c] - 1]
    BY <1>1, <1>6, <2>1 DEF Subtract
  <2>3. InFlight' = InFlight - todo[c] + (todo[c] - 1) /\ InFlight' \in Nat
    BY <1>1, <2>2, Fly
  <2>4. counter' = counter - 1 /\ ~Pick(c)
    BY <1>6 DEF Subtract, Pick
  <2>5. counter' - InFlight' <= counter - InFlight
    BY <1>1, <2>1, <2>3, <2>4
  <2>6. QED
    BY <1>1, <1>2, <2>3, <2>4, <2>5
<1>7. CASE Pick(c)
  <2>1. Skip(<<>>) = <<>>
    BY DEF Skip
  <2>2. counter' = counter
    BY <1>7 DEF Pick
  <2>3. CASE Skip(line[c]) # <<>>
    <3>1. todo' = todo
      BY <1>7, <2>1, <2>3 DEF Pick
    <3>2. QED
      BY <1>1, <1>2, <1>3, <1>7, <2>2, <2>3, <3>1
  <2>4. CASE Skip(line[c]) = <<>>
    <3>1. todo' = [todo EXCEPT ![c] = 0] /\ (line[c] # <<>> => gaveUp')
      BY <1>7, <2>1, <2>4 DEF Pick, KeepUnits
    <3>2. 0 \in 0..MaxUpdate
      BY <1>1
    <3>3. InFlight' = InFlight - todo[c] + 0 /\ InFlight' \in Nat
      BY <1>1, <3>1, <3>2, Fly
    <3>4. InFlight' = InFlight - todo[c]
      BY <1>1, <3>3
    <3>5. QED
      BY <1>1, <1>2, <1>7, <2>2, <2>4, <3>1, <3>3, <3>4
  <2>5. QED
    BY <2>3, <2>4
<1>8. CASE TryAcquire(c) \/ AcquireReady(c) \/ Recheck(c)
  <2>1. todo' = todo /\ (counter' = counter \/ counter' = counter - 1)
    BY <1>8 DEF TryAcquire, AcquireReady, Recheck, TakeUnit, releaser
  <2>2. ~Pick(c)
    BY <1>8 DEF TryAcquire, AcquireReady, Recheck, Pick
  <2>3. QED
    BY <1>1, <1>2, <1>4, <2>1, <2>2
<1>9. CASE Resume(c) \/ Yield(c) \/ AcquireSuspend(c) \/ Insert(c) \/ Consume(c) \/ PostSelf(c)
  <2>1. todo' = todo /\ counter' = counter
    BY <1>9 DEF Resume, Yield, AcquireSuspend, Insert, Consume, PostSelf, releaser
  <2>2. ~Pick(c)
    BY <1>9 DEF Resume, Yield, AcquireSuspend, Insert, Consume, PostSelf, Pick
  <2>3. QED
    BY <1>1, <1>2, <1>4, <2>1, <2>2
<1>10. CASE Fetch(c) \/ Relink(c) \/ Post(c)
  <2>1. todo' = todo /\ counter' = counter
    BY <1>10 DEF Fetch, Relink, Post
  <2>2. ~Pick(c)
    BY <1>10 DEF Fetch, Relink, Post, Pick
  <2>3. QED
    BY <1>1, <1>2, <1>4, <2>1, <2>2
<1>11. CASE ReadDead(c) /\ ~Pick(c)
  BY <1>1, <1>2, <1>4, <1>11 DEF ReadDead, releaser
<1>12. ASSUME NEW n \in 1..MaxUpdate, Release(c, n)
       PROVE  ~Pick(c)
  BY <1>12 DEF Release, Pick
<1>13. QED
  BY <1>1, <1>2, <1>5, <1>6, <1>7, <1>8, <1>9, <1>10, <1>11, <1>12 DEF Operation, Acquire, TryRelease

\* Whoever sleeps did before, but for the one whose second look has found no unit.
LEMMA SleptBefore ==
  ASSUME TypeOK, PlaceInv, NEW c \in Coro, Operation(c), Defined', NEW x \in Coro, Sleeps(x)'
  PROVE  \/ Sleeps(x)
         \/ x = c /\ Recheck(c) /\ counter <= 0 /\ counter' = counter
<1>1. x # c => pc'[x] = pc[x]
  BY OperationLocal, OthersStay
<1>2. QED
  BY <1>1, Moves DEF Sleeps

LEMMA StepUnits ==
  ASSUME TypeOK, PlaceInv, OnceInv, KeptInv, NEW c \in Coro, Operation(c), Defined',
         gaveUp \/ UnitsInv
  PROVE  gaveUp' \/ UnitsInv'
<1>1. SUFFICES ASSUME UnitsInv, ~gaveUp'
               PROVE  UnitsInv'
  BY Moves
<1>2. /\ counter \in Int /\ counter' \in Int /\ InFlight \in Nat /\ InFlight' \in Nat
      /\ ~Pick(c) => counter' - InFlight' <= counter - InFlight
      /\ \A d \in Coro : todo[d] \in Nat /\ todo[d] <= InFlight
  BY UnitsMove
<1>2a. \A a, b, e, g \in Int : a - b <= e - g /\ e <= g => a <= b
  OBVIOUS
<1>2b. counter' \in Int /\ InFlight' \in Int /\ counter \in Int /\ InFlight \in Int
  BY <1>2
<1>3. /\ stack \in Seq(Coro) /\ pc \in [Coro -> Label]
      /\ line \in [Coro -> Seq(Coro)] /\ NoCoro \notin Coro
      /\ \A x : ~In(x, <<>>)
  BY EmptyList, Constants_ DEF TypeOK
<1>4. CASE Recheck(c) /\ counter <= 0 /\ counter' = counter
  <2>1. todo' = todo
    BY <1>4 DEF Recheck, releaser
  <2>2. InFlight' = InFlight
    BY <2>1 DEF InFlight, Units
  <2>3. counter' <= InFlight'
    BY <1>2, <1>4, <2>2
  <2>4. \A d \in Coro : counter' <= InFlight' - todo'[d]
    BY <1>2, <1>4, <2>1, <2>2
  <2>5. QED
    BY <2>3, <2>4 DEF UnitsInv
<1>5. CASE ~(Recheck(c) /\ counter <= 0 /\ counter' = counter)
  <2>1. \A x \in Coro : Sleeps(x)' => Sleeps(x)
    BY <1>5, SleptBefore
  <2>2. ASSUME Insert(c)
        PROVE  ~Sleeps(c)
    BY <2>2 DEF Insert, Sleeps
  <2>3. ASSUME NEW x \in Coro, Sleeps(x)', In(x, WaitQueue')
        PROVE  counter' <= InFlight'
    <3>1. Sleeps(x) /\ ~(Insert(c) /\ x = c)
      BY <2>1, <2>2, <2>3
    <3>2. CASE In(x, WaitQueue) /\ ~(Pick(c) /\ line[c] = <<>>)
      <4>1. counter <= InFlight
        BY <1>1, <3>1, <3>2 DEF UnitsInv
      <4>2. CASE ~Pick(c)
        <5>1. counter' - InFlight' <= counter - InFlight
          BY <1>2, <4>2
        <5>2. QED
          BY <1>2a, <1>2b, <4>1, <5>1
      <4>3. CASE Pick(c)
        <5>1. counter' = counter /\ InFlight' = InFlight
          BY <1>1, <3>2, <4>3, UnitsMove
        <5>2. QED
          BY <4>1, <5>1
      <4>4. QED
        BY <4>2, <4>3
    <3>3. CASE Pick(c) /\ line[c] = <<>> /\ (In(x, Left) \/ In(x, stack))
      <4>1. ~In(x, Left)
        <5>1. In(x, Left) => consumed[x]
          BY DEF OnceInv
        <5>2. QED
          BY <3>1, <5>1 DEF KeptInv, Sleeps
      <4>2. notifier = c
        BY <3>3 DEF Pick, PlaceInv
      <4>3. counter <= InFlight - todo[c]
        BY <1>1, <3>1, <3>3, <4>1, <4>2 DEF UnitsInv
      <4>4. Skip(<<>>) = <<>>
        BY DEF Skip
      <4>5. counter' = counter /\ InFlight' = InFlight - todo[c]
        BY <3>3, <4>4, UnitsMove
      <4>6. QED
        BY <4>3, <4>5
    <3>4. QED
      BY <2>3, <3>1, <3>2, <3>3, WaitedBefore
  <2>4. ASSUME NEW d \in Coro, notifier' = d, line'[d] = <<>>,
               NEW x \in Coro, Sleeps(x)', In(x, stack')
        PROVE  counter' <= InFlight' - todo'[d]
    <3>1. Sleeps(x) /\ ~(Insert(c) /\ x = c)
      BY <2>1, <2>2, <2>4
    <3>2. ~Pick(c)
      BY <1>3, <2>4 DEF Pick
    <3>3. ~Fetch(c)
      <4>1. SUFFICES ASSUME Fetch(c)
                     PROVE  FALSE
        OBVIOUS
      <4>2. d = c /\ line'[c] = Skip(toResume)
        BY <1>3, <2>4, <4>1 DEF Fetch
      <4>3. stack' = <<>>
        BY <2>4, <4>1, <4>2 DEF Fetch
      <4>4. QED
        BY <1>3, <2>4, <4>3
    <3>4. Unlisted(c) \/ Insert(c) \/ Relink(c)
      BY <3>2, <3>3, Frames
    <3>5. notifier = d
      BY <2>4, <3>4 DEF Unlisted, Insert, Relink, releaser
    <3>6. In(x, stack)
      <4>1. CASE Insert(c)
        <5>1. stack' = <<c>> \o stack
          BY <4>1 DEF Insert
        <5>2. <<c>> \in Seq(Coro) /\ (In(x, <<c>>) => x = c)
          BY DEF In
        <5>3. QED
          BY <1>3, <2>4, <3>1, <4>1, <5>1, <5>2, Joined
      <4>2. CASE Unlisted(c) \/ Relink(c)
        BY <2>4, <4>2 DEF Unlisted, Relink, lists
      <4>3. QED
        BY <3>4, <4>1, <4>2
    <3>7. line[d] = <<>> /\ todo'[d] = todo[d]
      <4>1. CASE d # c
        BY <2>4, <4>1, OperationLocal, OthersStay
      <4>2. CASE d = c
        <5>1. pc[c] = "reverse"
          BY <3>5, <4>2 DEF PlaceInv
        <5>2. todo' = todo /\ (line' = line \/ Relink(c))
          <6>1. ~ReadDead(c) \/ ~Relink(c)
            BY DEF ReadDead, Relink
          <6>2. ReadDead(c) \/ Relink(c)
            BY <3>2, <5>1 DEF Operation, Acquire, TryRelease, Resume, Yield, TryAcquire, AcquireReady,
               AcquireSuspend, Insert, Recheck, Consume, PostSelf, Release, Fetch, Subtract, Post
          <6>3. QED
            BY <6>2 DEF ReadDead, Relink, releaser
        <5>3. CASE Relink(c)
          <6> DEFINE node == Head(taken[c])
                     N == <<node>>
          <6>1. line'[c] = IF consumed[node] THEN line[c] ELSE N \o line[c]
            BY <1>3, <5>3 DEF Relink
          <6>2. N # <<>> /\ N \in Seq(Coro)
            <7>1. node \in Coro
              BY <5>3, Lists DEF Relink
            <7>2. QED
              BY <7>1
          <6>3. line[c] \in Seq(Coro)
            BY <1>3
          <6> HIDE DEF N, node
          <6>4. N \o line[c] # <<>>
            BY <6>2, <6>3, ConcatEqualIffEmpty
          <6>5. QED
            BY <2>4, <4>2, <5>2, <6>1, <6>4
        <5>4. QED
          BY <2>4, <4>2, <5>2, <5>3
      <4>3. QED
        BY <4>1, <4>2
    <3>8. counter <= InFlight - todo[d]
      BY <1>1, <3>1, <3>5, <3>6, <3>7 DEF UnitsInv
    <3>9. todo[d] \in Nat
      BY <1>2
    <3>10. QED
      BY <1>2, <3>2, <3>7, <3>8, <3>9
  <2>5. QED
    BY <2>3, <2>4 DEF UnitsInv
<1>6. QED
  BY <1>4, <1>5

-----------------------------------------------------------------------------
(* The invariant holds.                                                     *)

LEMMA InitInv == ASSUME Init PROVE IInv
<1>1. TypeOK
  BY InitType
<1>2. /\ \A c \in Coro : /\ pc[c] = "idle" /\ todo[c] = 0 /\ taken[c] = <<>> /\ line[c] = <<>>
                         /\ ~consumed[c] /\ picked[c] = NoCoro
      /\ notifier = NoCoro /\ stack = <<>> /\ toResume = <<>> /\ counter = Desired
  BY DEF Init
<1>3. PlaceInv
  BY <1>2, Constants_ DEF PlaceInv
<1>4. /\ \A x : ~In(x, <<>>)
      /\ <<>> \in Seq(Coro) /\ Distinct(<<>>) /\ Reverse(<<>>) = <<>>
  BY EmptyList
<1>5. WaitQueue = <<>> /\ Left = <<>>
  <2>1. <<>> \o <<>> = <<>>
    BY <1>4, ConcatEmptySeq
  <2>2. QED
    BY <1>2, <1>4, <2>1, Constants_ DEF WaitQueue, Left
<1>6. OnceInv
  BY <1>2, <1>4, <1>5, Constants_ DEF OnceInv, Apart
<1>7. KeptInv
  BY <1>2 DEF KeptInv
<1>8. UnitsInv
  BY <1>2, <1>4, <1>5, Constants_ DEF UnitsInv
<1>9. OvergrantBounded
  <2>1. InFlight = 0
    BY <1>1, <1>2, Flying DEF TypeOK
  <2>2. /\ MaxUpdate \in Nat /\ Desired \in Nat /\ Cardinality(Ctx) \in Nat /\ IsFiniteSet(Ctx)
        /\ Cardinality(Ctx) >= 1
    BY Constants_
  <2>3. Cardinality(Ctx) - 1 \in Nat
    BY <2>2
  <2>4. MaxUpdate * (Cardinality(Ctx) - 1) \in Nat
    BY <2>2, <2>3
  <2>5. MaxUpdate * (1 - Cardinality(Ctx)) = 0 - MaxUpdate * (Cardinality(Ctx) - 1)
    BY <2>2
  <2> DEFINE b == MaxUpdate * (Cardinality(Ctx) - 1)
  <2>6. b \in Nat /\ MaxUpdate * (1 - Cardinality(Ctx)) = 0 - b
    BY <2>4, <2>5
  <2> HIDE DEF b
  <2>7. Desired - 0 >= 0 - b
    BY <2>2, <2>6
  <2>8. QED
    BY <1>2, <2>1, <2>6, <2>7 DEF OvergrantBounded
<1>10. QED
  BY <1>1, <1>3, <1>6, <1>7, <1>8, <1>9 DEF IInv

LEMMA Inductive == ASSUME IInv, [Next]_vars PROVE IInv'
<1>1. CASE UNCHANGED vars
  <2>1. /\ UNCHANGED <<counter, stack, toResume, consumed, posted, notifier, todo, taken, line, picked>>
        /\ UNCHANGED <<gaveUp, pc, current, undefined>>
    BY <1>1 DEF vars, lists, acquirer, releaser
  <2>2. TypeOK' /\ PlaceInv' /\ OvergrantBounded'
    BY <2>1 DEF IInv, TypeOK, PlaceInv, OvergrantBounded, InFlight, Units
  <2>3. WaitQueue' = WaitQueue /\ Left' = Left /\ Chosen' = Chosen /\ InFlight' = InFlight
    BY <2>1 DEF WaitQueue, Left, Chosen, InFlight, Units
  <2>4. OnceInv => OnceInv'
    BY <2>1, <2>3 DEF OnceInv, Points
  <2>5. KeptInv => KeptInv'
    BY <2>1, <2>3 DEF KeptInv
  <2>6. UnitsInv => UnitsInv'
    BY <2>1, <2>3 DEF UnitsInv, Sleeps
  <2>7. QED
    BY <2>1, <2>2, <2>4, <2>5, <2>6 DEF IInv, Defined
<1>2. CASE Next
  <2>1. PICK c \in Coro : Operation(c)
    BY <1>2 DEF Next, Operation
  <2>2. TypeOK /\ PlaceInv /\ OvergrantBounded /\ Defined
    BY <2>1, Beginning DEF IInv
  <2>3. OnceInv /\ KeptInv /\ (gaveUp \/ UnitsInv)
    BY <2>2 DEF IInv
  <2>4. TypeOK' /\ PlaceInv' /\ OvergrantBounded'
    BY <2>1, <2>2, StepPlace, StepBound
  <2>5. Defined' => OnceInv' /\ KeptInv' /\ (gaveUp' \/ UnitsInv')
    BY <2>1, <2>2, <2>3, <2>4, StepOnce, StepKept, StepUnits
  <2>6. QED
    BY <2>4, <2>5 DEF IInv
<1>3. QED
  BY <1>1, <1>2

THEOREM Invariance == Spec => []IInv
BY InitInv, Inductive, PTL DEF Spec

\* A coroutine that waits and has not served itself is linked once, or in the hands of
\* one release, until its handle is queued: semaphore.cpp's try_release loses nobody
\* when it reverses the list, caches the rest of it and skips who was consumed.
THEOREM NobodyMislaid == Spec => []WaitersListed
<1>1. ASSUME IInv
      PROVE  WaitersListed
  <2>1. TypeOK
    BY <1>1 DEF IInv
  <2>2. ASSUME NEW c \in Coro, pc[c] \in {"recheck", "waiting"}, ~consumed[c], ~posted[c], Defined
        PROVE  Cardinality({i \in DOMAIN WaitQueue : WaitQueue[i] = c}) = IF c \in Chosen THEN 0 ELSE 1
    <3> DEFINE places == {i \in DOMAIN WaitQueue : WaitQueue[i] = c}
    <3>1. OnceInv /\ KeptInv
      BY <1>1, <2>2 DEF IInv
    <3>2. DOMAIN WaitQueue = 1..Len(WaitQueue)
      BY <2>1, Queues, Indices
    <3>3. CASE c \in Chosen
      <4>1. ~In(c, WaitQueue)
        BY <3>1, <3>3 DEF Chosen, OnceInv
      <4>2. places = {}
        BY <3>2, <4>1 DEF In
      <4>3. QED
        BY <3>3, <4>2, FS_EmptySet
    <3>4. CASE c \notin Chosen
      <4>1. In(c, WaitQueue)
        BY <2>2, <3>1, <3>4 DEF KeptInv
      <4>2. PICK k \in 1..Len(WaitQueue) : WaitQueue[k] = c
        BY <4>1 DEF In
      <4>3. places = {k}
        BY <3>1, <3>2, <4>2 DEF OnceInv, Distinct
      <4>4. QED
        BY <3>4, <4>3, FS_Singleton
    <3>5. QED
      BY <3>3, <3>4
  <2>3. QED
    BY <2>1, <2>2 DEF WaitersListed, Defined
<1>2. QED
  BY <1>1, Invariance, PTL

\* A unit that a release gives is given twice only while other io_contexts can take it,
\* and nobody sleeps for a unit that is there: the second look at counter_ in
\* await_suspend and the order of release (count first, then look for waiters) meet.
THEOREM UnitsMet == Spec => []UnitsMeetWaiters
<1>1. ASSUME IInv
      PROVE  UnitsMeetWaiters
  <2>1. TypeOK /\ PlaceInv /\ OvergrantBounded
    BY <1>1 DEF IInv
  <2>2. ASSUME \A c \in Coro : pc[c] \in {"idle", "waiting"}, counter > 0, ~gaveUp, Defined,
               NEW c \in Coro, pc[c] = "waiting", ~posted[c]
        PROVE  FALSE
    <3>1. KeptInv /\ UnitsInv
      BY <1>1, <2>2 DEF IInv
    <3>2. \A d \in Coro : todo[d] = 0
      BY <2>1, <2>2 DEF PlaceInv, InRelease
    <3>3. InFlight = 0
      BY <2>1, <3>2, Flying DEF TypeOK
    <3>4. c \notin Chosen
      <4>1. \A d \in Coro : picked[d] \notin Coro
        BY <2>1, <2>2 DEF TypeOK
      <4>2. QED
        BY <4>1 DEF Chosen
    <3>5. Sleeps(c) /\ In(c, WaitQueue)
      BY <2>2, <3>1, <3>4 DEF KeptInv, Sleeps
    <3>6. counter <= InFlight /\ counter \in Int
      BY <2>1, <3>1, <3>5 DEF UnitsInv, TypeOK
    <3>7. QED
      BY <2>2, <3>3, <3>6
  <2>3. NoLostWakeup
    BY <2>2 DEF NoLostWakeup, Defined
  <2>4. QED
    BY <2>1, <2>3 DEF UnitsMeetWaiters
<1>2. QED
  BY <1>1, Invariance, PTL

-----------------------------------------------------------------------------
(* The order in which waiters are served.                                   *)

\* t keeps q's order.
Keeps(q, t) ==
    \A i, j \in 1..Len(q), k, l \in 1..Len(t) : i < j /\ t[k] = q[i] /\ t[l] = q[j] => k < l

LEMMA ThinnedKeeps ==
  ASSUME NEW q \in Seq(Coro), NEW t \in Seq(Coro), NEW D, Thins(q, t, D), Distinct(q)
  PROVE  Keeps(q, t)
<1>1. SUFFICES ASSUME NEW i \in 1..Len(q), NEW j \in 1..Len(q), i < j,
                      NEW k \in 1..Len(t), NEW l \in 1..Len(t), t[k] = q[i], t[l] = q[j]
               PROVE  k < l
  BY DEF Keeps
<1>2. \A x, y : Behind(t, x, y) => Behind(q, x, y)
  BY Thinned
<1>3. Len(q) \in Nat /\ Len(t) \in Nat
  BY Indices
<1>4. k # l
  <2>1. SUFFICES ASSUME k = l
                 PROVE  FALSE
    OBVIOUS
  <2>2. q[i] = q[j]
    BY <1>1, <2>1
  <2>3. i = j
    BY <2>2 DEF Distinct
  <2>4. QED
    BY <1>1, <1>3, <2>3
<1>5. ~(l < k)
  <2>1. SUFFICES ASSUME l < k
                 PROVE  FALSE
    OBVIOUS
  <2>2. Behind(t, q[j], q[i])
    BY <1>1, <2>1 DEF Behind
  <2>3. PICK m, n \in 1..Len(q) : m < n /\ q[m] = q[j] /\ q[n] = q[i]
    BY <1>2, <2>2 DEF Behind
  <2>4. m = j /\ n = i
    BY <2>3 DEF Distinct
  <2>5. QED
    BY <1>1, <1>3, <2>3, <2>4
<1>6. QED
  BY <1>3, <1>4, <1>5

\* So does a list that is longer at its end, or in front.
LEMMA LongerKeeps ==
  ASSUME NEW q \in Seq(Coro), NEW s \in Seq(Coro)
  PROVE  /\ Distinct(q \o s) => Keeps(q, q \o s)
         /\ Distinct(s \o q) => Keeps(q, s \o q)
         /\ Distinct(q) => Keeps(q, q)
<1> DEFINE a == Len(q)
           b == Len(s)
           u == q \o s
           v == s \o q
<1>1. a \in Nat /\ b \in Nat
  BY Indices
<1>2. Len(u) = a + b /\ \A i \in 1..a : u[i] = q[i]
  BY Joined
<1>3. Len(v) = b + a /\ \A i \in 1..a : v[b + i] = q[i]
  BY Joined
<1> HIDE DEF a, b, u, v
<1>4. ASSUME Distinct(u), NEW i \in 1..a, NEW j \in 1..a, i < j,
             NEW k \in 1..Len(u), NEW l \in 1..Len(u), u[k] = q[i], u[l] = q[j]
      PROVE  k < l
  <2>1. i \in 1..Len(u) /\ j \in 1..Len(u)
    BY <1>1, <1>2
  <2>2. u[k] = u[i] /\ u[l] = u[j]
    BY <1>2, <1>4
  <2>3. k = i /\ l = j
    BY <1>4, <2>1, <2>2 DEF Distinct
  <2>4. QED
    BY <1>4, <2>3
<1>5. ASSUME Distinct(v), NEW i \in 1..a, NEW j \in 1..a, i < j,
             NEW k \in 1..Len(v), NEW l \in 1..Len(v), v[k] = q[i], v[l] = q[j]
      PROVE  k < l
  <2>1. b + i \in 1..Len(v) /\ b + j \in 1..Len(v)
    BY <1>1, <1>3
  <2>2. v[k] = v[b + i] /\ v[l] = v[b + j]
    BY <1>3, <1>5
  <2>3. k = b + i /\ l = b + j
    BY <1>5, <2>1, <2>2 DEF Distinct
  <2>4. QED
    BY <1>1, <1>5, <2>3
<1>6. ASSUME Distinct(q), NEW i \in 1..a, NEW j \in 1..a, i < j,
             NEW k \in 1..a, NEW l \in 1..a, q[k] = q[i], q[l] = q[j]
      PROVE  k < l
  <2>1. k = i /\ l = j
    BY <1>6 DEF Distinct, a
  <2>2. QED
    BY <1>6, <2>1
<1>7. QED
  BY <1>4, <1>5, <1>6 DEF Keeps, a, u, v

LEMMA StepOrder ==
  ASSUME TypeOK, PlaceInv, OnceInv, NEW c \in Coro, Operation(c)
  PROVE  Keeps(WaitQueue, WaitQueue')
<1>1. /\ Distinct(WaitQueue) /\ Distinct(WaitQueue')
      /\ WaitQueue \in Seq(Coro) /\ Reverse(stack) \in Seq(Coro) /\ toResume \in Seq(Coro)
  BY StepQueue, Queues DEF OnceInv
<1>2. CASE Unlisted(c)
  BY <1>1, <1>2, SameQueue, LongerKeeps DEF Unlisted
<1>3. CASE Insert(c)
  <2>1. WaitQueue' = WaitQueue \o <<c>> /\ <<c>> \in Seq(Coro)
    BY <1>3, InsertQueue
  <2>2. QED
    BY <1>1, <2>1, LongerKeeps
<1>4. CASE Fetch(c)
  <2>1. /\ WaitQueue = toResume \o Reverse(stack)
        /\ WaitQueue' = Skip(toResume) \o Reverse(stack)
    BY <1>4, FetchQueue
  <2>2. Thins(WaitQueue, WaitQueue', Served)
    BY <1>1, <2>1, SkipThins
  <2>3. WaitQueue' \in Seq(Coro)
    BY <1>1, <2>1, Lists, Joined
  <2>4. QED
    BY <1>1, <2>2, <2>3, ThinnedKeeps
<1>5. CASE Relink(c)
  <2>1. /\ WaitQueue' = WaitQueue \/ Thins(WaitQueue, WaitQueue', Served)
        /\ WaitQueue' \in Seq(Coro)
    BY <1>5, RelinkQueue
  <2>2. QED
    BY <1>1, <2>1, ThinnedKeeps, LongerKeeps
<1>6. CASE Pick(c)
  <2>1. /\ WaitQueue = line[c] \o Reverse(stack) /\ WaitQueue' = toResume' \o Reverse(stack)
        /\ toResume' \in Seq(Coro) /\ line[c] \in Seq(Coro)
    BY <1>6, PickQueue, Lists, OperationLocal DEF Common
  <2>2. WaitQueue' \in Seq(Coro)
    BY <1>1, <2>1, Joined
  <2>3. CASE line[c] = <<>>
    <3>1. WaitQueue = Reverse(stack)
      BY <1>1, <2>1, <2>3, ConcatEmptySeq
    <3>2. QED
      BY <1>1, <2>1, <3>1, LongerKeeps
  <2>4. CASE line[c] # <<>> /\ Skip(line[c]) = <<>>
    <3>1. toResume' = Skip(line[c])
      BY <1>6, <2>4 DEF Pick
    <3>2. QED
      BY <1>1, <2>1, <2>2, <3>1, SkipThins, ThinnedKeeps
  <2>5. CASE Skip(line[c]) # <<>>
    BY <1>1, <1>6, <2>2, <2>5, PickedHead, ThinnedKeeps
  <2>6. QED
    BY <2>3, <2>4, <2>5
<1>7. QED
  BY <1>2, <1>3, <1>4, <1>5, <1>6, Frames

LEMMA QueueKept ==
  ASSUME TypeOK, PlaceInv, OnceInv, NEW c \in Coro, Operation(c)
  PROVE  WaitQueue' \in Seq(Coro)
<1>1. WaitQueue \in Seq(Coro) /\ Reverse(stack) \in Seq(Coro) /\ toResume' \in Seq(Coro)
  BY Queues, OperationLocal DEF Common
<1>2. CASE Unlisted(c)
  BY <1>1, <1>2, SameQueue DEF Unlisted
<1>3. CASE Insert(c)
  <2>1. <<c>> \in Seq(Coro)
    OBVIOUS
  <2>2. QED
    BY <1>1, <1>3, <2>1, InsertQueue, Joined
<1>4. CASE Fetch(c)
  <2>1. WaitQueue' = Skip(toResume) \o Reverse(stack)
    BY <1>4, FetchQueue
  <2>2. Skip(toResume) \in Seq(Coro)
    BY Lists
  <2>3. QED
    BY <1>1, <2>1, <2>2, Joined
<1>5. CASE Pick(c)
  BY <1>1, <1>5, PickQueue, Joined
<1>6. QED
  BY <1>2, <1>3, <1>4, <1>5, RelinkQueue, Frames

\* A release chooses somebody only when it picks.
LEMMA NewlyChosen ==
  ASSUME TypeOK, PlaceInv, NEW c \in Coro, Operation(c), NEW x \in Chosen', x \notin Chosen
  PROVE  Pick(c) /\ Skip(line[c]) # <<>> /\ x = picked'[c]
<1>1. /\ picked \in [Coro -> Coro \cup {NoCoro}] /\ NoCoro \notin Coro
  BY Constants_ DEF TypeOK
<1>2. PICK d \in Coro : x = picked'[d]
  BY DEF Chosen
<1>3. x # NoCoro /\ picked[d] # x
  BY <1>2 DEF Chosen
<1>4. ~Unlisted(c) /\ picked' # picked
  BY <1>2, <1>3 DEF Unlisted
<1>5. Pick(c)
  BY <1>4, Frames DEF Insert, Fetch, Relink, releaser
<1>6. Skip(line[c]) # <<>>
  <2>1. Skip(<<>>) = <<>>
    BY DEF Skip
  <2>2. QED
    BY <1>4, <1>5, <2>1 DEF Pick, KeepUnits
<1>7. d = c
  <2>1. line[c] # <<>>
    <3>1. Skip(<<>>) = <<>>
      BY DEF Skip
    <3>2. QED
      BY <1>6, <3>1
  <2>2. \A e \in Coro : e # c => picked'[e] = picked[e]
    BY <1>1, <1>5, <1>6, <2>1 DEF Pick
  <2>3. QED
    BY <1>2, <1>3, <2>2
<1>8. QED
  BY <1>2, <1>5, <1>6, <1>7

\* Waiters are served in the order in which they were linked, across the reversal of
\* the list and the seam between to_resume_ and awaiting_, except those that have served
\* themselves.
THEOREM InTheirOrder == Spec => ServedInOrder
<1> DEFINE Order ==
      \A i, j \in DOMAIN WaitQueue : i < j =>
         LET before == WaitQueue[i]
             after == WaitQueue[j]
         IN  /\ after \in Chosen' \ Chosen => consumed[before]
             /\ \A k, l \in DOMAIN WaitQueue' :
                    WaitQueue'[k] = before /\ WaitQueue'[l] = after => k < l
<1>1. ASSUME IInv, IInv', Next
      PROVE  Order
  <2>1. PICK c \in Coro : Operation(c)
    BY <1>1 DEF Next, Operation
  <2>2. TypeOK /\ PlaceInv /\ Defined /\ TypeOK'
    BY <1>1, <2>1, Beginning DEF IInv
  <2>3. OnceInv
    BY <1>1, <2>2 DEF IInv
  <2>4. Keeps(WaitQueue, WaitQueue')
    BY <2>1, <2>2, <2>3, StepOrder
  <2>5. DOMAIN WaitQueue = 1..Len(WaitQueue)
    BY <2>2, Queues, Indices
  <2>6. DOMAIN WaitQueue' = 1..Len(WaitQueue')
    <3>1. WaitQueue' \in Seq(Coro)
      BY <2>1, <2>2, <2>3, QueueKept
    <3>2. QED
      BY <3>1, Indices
  <2>7. ASSUME NEW i \in 1..Len(WaitQueue), NEW j \in 1..Len(WaitQueue), i < j,
               WaitQueue[j] \in Chosen' \ Chosen
        PROVE  consumed[WaitQueue[i]]
    <3>1. Pick(c) /\ Skip(line[c]) # <<>> /\ WaitQueue[j] = picked'[c]
      BY <2>1, <2>2, <2>7, NewlyChosen
    <3>2. PICK m \in 1..Len(WaitQueue) : /\ WaitQueue[m] = picked'[c]
                                         /\ \A k \in 1..m - 1 : consumed[WaitQueue[k]]
      BY <2>2, <2>3, <3>1, PickedHead DEF OnceInv
    <3>3. m = j
      BY <2>3, <3>1, <3>2 DEF OnceInv, Distinct
    <3>4. i \in 1..m - 1
      BY <2>7, <3>3
    <3>5. QED
      BY <3>2, <3>4
  <2>8. QED
    BY <2>4, <2>5, <2>6, <2>7 DEF Keeps
<1>2. ASSUME IInv, IInv', [Next]_vars
      PROVE  [Order]_vars
  BY <1>1, <1>2
<1>3. QED
  BY <1>2, Invariance, PTL DEF Spec, ServedInOrder
=============================================================================
