---------------------------- MODULE ChannelProofs ----------------------------
(***************************************************************************)
(* Proofs about CondVar and Channel, for every set of coroutines,          *)
(* io_contexts, condition variables and items, and every capacity: the     *)
(* condition variables keep whoever waits and notify in order; the ring    *)
(* implements the bounded queue, whatever the condition variables do; and  *)
(* nobody sleeps for what is there.                                        *)
(***************************************************************************)
EXTENDS Channel, SequenceTheorems, FiniteSetTheorems, TLAPS

-----------------------------------------------------------------------------
(* The condition variables: the inductive invariant.                        *)

\* x is on s; nobody is on s twice; nobody is on s and t.
In(x, s) == \E i \in 1..Len(s) : s[i] = x
Distinct(s) == \A i, j \in 1..Len(s) : s[i] = s[j] => i = j
Apart(s, t) == \A x \in Coro : ~(In(x, s) /\ In(x, t))

\* What a notifier is doing.
Notifies == {"exchange", "store", "register", "new", "new next", "cached", "cached next"}

\* Only a coroutine that runs is inside notify, or between linking itself and
\* unlocking; and it holds waiters only while it has to pass them on.
OpInv == /\ \A c \in Coro : at[c] \in Notifies \cup {"unlock"} => current[home[c]] = c
         /\ \A c \in Coro : at[c] \in Notifies => c \in Notifier[on[c]]
         /\ \A c \in Coro : at[c] \notin Notifies \ {"exchange"} => hands[c] = <<>>
         /\ \A c \in Coro : at[c] = "register" => Len(hands[c]) = 1

\* Who is queued does not run, who runs does not sleep, and who is queued to
\* return from lock or wait owns the mutex, as does whoever is about to unlock.
MutexInv == /\ owner = NoCoro => lockQueue = <<>>
            /\ \A c \in Coro : at[c] = "unlock" => owner = c /\ c \notin ready
            /\ \A c \in ready : current[home[c]] # c
            /\ \A c \in Coro : current[home[c]] = c => at[c] \notin {"locking", "asleep"}
            /\ ReturnsWithMutex

\* The lists, as one function; who is on none of them twice, nor on two; and
\* who is on one of them.
Lists == [l \in ListName |-> ListAt(l)]
Once(f) == /\ \A l \in ListName : Distinct(f[l])
           /\ \A l, m \in ListName : l # m => Apart(f[l], f[m])
On(x, f) == \E l \in ListName : In(x, f[l])

\* Whoever is on a list waits, and on a list of what it waits for.
ListInv == /\ Once(Lists)
           /\ \A x \in Coro : On(x, Lists) => Suspended(x)
           /\ \A v \in Cv, x \in Coro : In(x, awaiting[v]) \/ In(x, cache[v]) => on[x] = v
           /\ \A d, x \in Coro : In(x, InHands(d)) => on[x] = on[d]

\* Whoever waits is on a list, and the cache is empty while a notifier looks for
\* someone to put there: this much needs one notifying thread.
KeptInv == OneNotifyingThread =>
               /\ \A c \in Coro : Suspended(c) => On(c, Lists)
               /\ \A c \in Coro : at[c] \in {"exchange", "store"} => cache[on[c]] = <<>>

CondVarInv == TypeOK /\ OpInv /\ MutexInv /\ ListInv /\ KeptInv
(* Sequences.                                                               *)

LEMMA Indices ==
  ASSUME NEW s \in Seq(Coro)
  PROVE  /\ Len(s) \in Nat /\ DOMAIN s = 1..Len(s)
         /\ \A i \in 1..Len(s) : s[i] \in Coro
         /\ \A x : x \in ToSet(s) <=> In(x, s)
<1>1. Len(s) \in Nat /\ DOMAIN s = 1..Len(s)
  BY LenProperties
<1>2. \A i \in 1..Len(s) : s[i] \in Coro
  BY ElementOfSeq
<1>3. \A x : x \in ToSet(s) <=> In(x, s)
  BY <1>1 DEF ToSet, In
<1>4. QED
  BY <1>1, <1>2, <1>3

LEMMA EmptyList ==
  /\ <<>> \in Seq(Coro) /\ Len(<<>>) = 0
  /\ \A x : ~In(x, <<>>)
  /\ Distinct(<<>>) /\ Reverse(<<>>) = <<>>
<1>1. <<>> \in Seq(Coro) /\ Len(<<>>) = 0
  BY EmptySeq
<1>2. QED
  BY <1>1 DEF In, Distinct, Reverse

\* What is on two lists, one behind the other.
LEMMA Joined ==
  ASSUME NEW s \in Seq(Coro), NEW t \in Seq(Coro)
  PROVE  /\ s \o t \in Seq(Coro) /\ Len(s \o t) = Len(s) + Len(t)
         /\ \A i \in 1..Len(s) : (s \o t)[i] = s[i]
         /\ \A i \in 1..Len(t) : (s \o t)[Len(s) + i] = t[i]
         /\ \A i \in Len(s) + 1..Len(s) + Len(t) : (s \o t)[i] = t[i - Len(s)]
         /\ \A x : In(x, s \o t) <=> In(x, s) \/ In(x, t)
         /\ Distinct(s \o t) <=> Distinct(s) /\ Distinct(t) /\ Apart(s, t)
<1> DEFINE u == s \o t
           m == Len(s)
           n == Len(t)
<1>1. m \in Nat /\ n \in Nat /\ \A i \in 1..m : s[i] \in Coro
  BY Indices
<1>2. /\ u \in Seq(Coro) /\ Len(u) = m + n
      /\ \A i \in 1..m + n : u[i] = IF i <= m THEN s[i] ELSE t[i - m]
  BY ConcatProperties
<1> HIDE DEF u, m, n
<1>3. /\ \A i \in 1..m : u[i] = s[i]
      /\ \A i \in 1..n : u[m + i] = t[i]
      /\ \A i \in m + 1..m + n : u[i] = t[i - m]
  <2>1. \A i \in 1..m : i \in 1..m + n /\ i <= m
    BY <1>1
  <2>2. \A i \in 1..n : m + i \in 1..m + n /\ ~(m + i <= m) /\ (m + i) - m = i
    BY <1>1
  <2>3. \A i \in m + 1..m + n : i \in 1..m + n /\ ~(i <= m)
    BY <1>1
  <2>4. QED
    BY <1>2, <2>1, <2>2, <2>3
<1>4. \A i \in 1..m + n : i \in 1..m \/ i - m \in 1..n
  BY <1>1
<1>5. \A i \in 1..n : m + i \in 1..m + n
  BY <1>1
<1>6. \A i \in 1..m : i \in 1..m + n
  BY <1>1
<1>7. ASSUME NEW x
      PROVE  In(x, u) <=> In(x, s) \/ In(x, t)
  <2>1. In(x, u) <=> \E i \in 1..m + n : u[i] = x
    BY <1>2 DEF In
  <2>2. (In(x, s) <=> \E i \in 1..m : s[i] = x) /\ (In(x, t) <=> \E i \in 1..n : t[i] = x)
    BY DEF In, m, n
  <2>3. \A i \in 1..m + n : i \in 1..m \/ (i - m \in 1..n /\ u[i] = t[i - m])
    BY <1>1, <1>2
  <2>4. QED
    BY <1>3, <1>5, <1>6, <2>1, <2>2, <2>3
<1>8. ASSUME Distinct(u)
      PROVE  Distinct(s) /\ Distinct(t) /\ Apart(s, t)
  <2>1. \A i, j \in 1..m + n : u[i] = u[j] => i = j
    BY <1>2, <1>8 DEF Distinct
  <2>2. \A i, j \in 1..m : s[i] = s[j] => i = j
    BY <1>3, <1>6, <2>1
  <2>3. ASSUME NEW i \in 1..n, NEW j \in 1..n, t[i] = t[j]
        PROVE  i = j
    <3>1. m + i = m + j
      BY <1>3, <1>5, <2>1, <2>3
    <3>2. QED
      BY <1>1, <3>1
  <2>4. ASSUME NEW x \in Coro, In(x, s), In(x, t)
        PROVE  FALSE
    <3>1. PICK i \in 1..m : s[i] = x
      BY <2>4 DEF In, m
    <3>2. PICK j \in 1..n : t[j] = x
      BY <2>4 DEF In, n
    <3>3. i = m + j
      BY <1>3, <1>5, <1>6, <2>1, <3>1, <3>2
    <3>4. QED
      BY <1>1, <3>3
  <2>5. QED
    BY <2>2, <2>3, <2>4 DEF Distinct, Apart, m, n
<1>9. ASSUME Distinct(s), Distinct(t), Apart(s, t), NEW i \in 1..m + n, NEW j \in 1..m + n,
             u[i] = u[j]
      PROVE  i = j
  <2>1. /\ \A k, l \in 1..m : s[k] = s[l] => k = l
        /\ \A k, l \in 1..n : t[k] = t[l] => k = l
    BY <1>9 DEF Distinct, m, n
  <2>2. \A k \in 1..m, l \in 1..n : s[k] # t[l]
    BY <1>1, <1>9 DEF Apart, In, m, n
  <2>3. \A k \in 1..m + n : \/ k \in 1..m /\ u[k] = s[k]
                            \/ k - m \in 1..n /\ u[k] = t[k - m]
    BY <1>1, <1>2
  <2>4. CASE i \in 1..m /\ u[i] = s[i]
    BY <1>9, <2>1, <2>2, <2>3, <2>4
  <2>5. CASE i - m \in 1..n /\ u[i] = t[i - m]
    <3>1. j - m \in 1..n /\ u[j] = t[j - m]
      BY <1>9, <2>2, <2>3, <2>5
    <3>2. i - m = j - m
      BY <1>9, <2>1, <2>5, <3>1
    <3>3. QED
      BY <1>1, <3>2
  <2>6. QED
    BY <2>3, <2>4, <2>5
<1>10. QED
  BY <1>2, <1>3, <1>7, <1>8, <1>9 DEF Distinct, u, m, n

LEMMA Reversed ==
  ASSUME NEW s \in Seq(Coro)
  PROVE  /\ Reverse(s) \in Seq(Coro) /\ Len(Reverse(s)) = Len(s)
         /\ \A i \in 1..Len(s) : Reverse(s)[i] = s[(Len(s) - i) + 1]
         /\ \A x : In(x, Reverse(s)) <=> In(x, s)
<1> DEFINE r == Reverse(s)
           n == Len(s)
<1>1. n \in Nat /\ \A i \in 1..n : s[i] \in Coro /\ (n - i) + 1 \in 1..n
  BY Indices
<1>2. r = [i \in 1..n |-> s[(n - i) + 1]]
  BY DEF Reverse
<1> HIDE DEF r, n
<1>3. r \in [1..n -> Coro]
  BY <1>1, <1>2
<1>4. r \in Seq(Coro) /\ Len(r) = n
  BY <1>1, <1>3, SeqDef, LenProperties
<1>5. \A i \in 1..n : r[i] = s[(n - i) + 1]
  BY <1>2
<1>6. ASSUME NEW x
      PROVE  In(x, r) <=> In(x, s)
  <2>1. (In(x, r) <=> \E i \in 1..n : r[i] = x) /\ (In(x, s) <=> \E i \in 1..n : s[i] = x)
    BY <1>4 DEF In, n
  <2>2. ASSUME NEW i \in 1..n
        PROVE  s[i] = r[(n - i) + 1]
    <3>1. (n - i) + 1 \in 1..n /\ (n - ((n - i) + 1)) + 1 = i
      BY <1>1
    <3>2. QED
      BY <1>5, <3>1
  <2>3. QED
    BY <1>1, <1>5, <2>1, <2>2
<1>7. QED
  BY <1>4, <1>5, <1>6 DEF r, n

\* The one that is pushed on a list is the last of the list reversed.
LEMMA ReversedPush ==
  ASSUME NEW s \in Seq(Coro), NEW x \in Coro
  PROVE  /\ <<x>> \o s \in Seq(Coro)
         /\ Reverse(<<x>> \o s) = Reverse(s) \o <<x>>
<1> DEFINE one == <<x>>
           t == one \o s
           n == Len(s)
           r == Reverse(s)
<1>1. one \in Seq(Coro) /\ Len(one) = 1 /\ one[1] = x
  OBVIOUS
<1>2. n \in Nat
  BY Indices
<1> HIDE DEF one
<1>3. /\ t \in Seq(Coro) /\ Len(t) = 1 + n /\ t[1] = x
      /\ \A i \in 1..n : t[1 + i] = s[i]
  <2>1. /\ t \in Seq(Coro) /\ Len(t) = Len(one) + n
        /\ \A i \in 1..Len(one) : t[i] = one[i]
        /\ \A i \in 1..n : t[Len(one) + i] = s[i]
    BY <1>1, Joined
  <2>2. QED
    BY <1>1, <2>1
<1>4. r \in Seq(Coro) /\ Len(r) = n /\ \A i \in 1..n : r[i] = s[(n - i) + 1]
  BY Reversed
<1>5. /\ r \o one \in Seq(Coro) /\ Len(r \o one) = n + 1 /\ (r \o one)[n + 1] = x
      /\ \A i \in 1..n : (r \o one)[i] = r[i]
  <2>1. /\ r \o one \in Seq(Coro) /\ Len(r \o one) = Len(r) + Len(one)
        /\ \A i \in 1..Len(r) : (r \o one)[i] = r[i]
        /\ \A i \in 1..Len(one) : (r \o one)[Len(r) + i] = one[i]
    BY <1>1, <1>4, Joined
  <2>2. QED
    BY <1>1, <1>4, <2>1
<1>6. /\ Reverse(t) \in Seq(Coro) /\ Len(Reverse(t)) = 1 + n
      /\ \A i \in 1..1 + n : Reverse(t)[i] = t[((1 + n) - i) + 1]
  <2>1. /\ Reverse(t) \in Seq(Coro) /\ Len(Reverse(t)) = Len(t)
        /\ \A i \in 1..Len(t) : Reverse(t)[i] = t[(Len(t) - i) + 1]
    BY <1>3, Reversed
  <2>2. QED
    BY <1>3, <2>1
<1> HIDE DEF t, n, r
<1>7. ASSUME NEW i \in 1..1 + n
      PROVE  Reverse(t)[i] = (r \o one)[i]
  <2>1. CASE i = n + 1
    <3>1. ((1 + n) - i) + 1 = 1
      BY <1>2, <2>1
    <3>2. QED
      BY <1>3, <1>5, <1>6, <2>1, <3>1
  <2>2. CASE i # n + 1
    <3>1. i \in 1..n /\ (n - i) + 1 \in 1..n /\ ((1 + n) - i) + 1 = 1 + ((n - i) + 1)
      BY <1>2, <2>2
    <3>2. QED
      BY <1>3, <1>4, <1>5, <1>6, <3>1
  <2>3. QED
    BY <2>1, <2>2
<1>8. Reverse(t) = r \o one
  <2>1. Len(Reverse(t)) = Len(r \o one)
    BY <1>2, <1>5, <1>6
  <2>2. \A i \in 1..Len(Reverse(t)) : Reverse(t)[i] = (r \o one)[i]
    BY <1>6, <1>7
  <2>3. QED
    BY <1>5, <1>6, <2>1, <2>2, SeqEqual
<1>9. QED
  BY <1>3, <1>8 DEF t, r, one

\* A list that is not empty is its head before its tail.
LEMMA Beheaded ==
  ASSUME NEW s \in Seq(Coro), s # <<>>
  PROVE  /\ Head(s) \in Coro /\ Tail(s) \in Seq(Coro)
         /\ s = <<Head(s)>> \o Tail(s)
         /\ Reverse(s) = Reverse(Tail(s)) \o <<Head(s)>>
<1> DEFINE h == Head(s)
           t == Tail(s)
           one == <<h>>
           u == one \o t
<1>1. /\ h \in Coro /\ t \in Seq(Coro) /\ Len(t) = Len(s) - 1
      /\ \A i \in 1..Len(t) : t[i] = s[i + 1]
  BY HeadTailProperties
<1>2. Len(s) \in Nat \ {0} /\ h = s[1]
  BY EmptySeq
<1>3. one \in Seq(Coro) /\ Len(one) = 1 /\ one[1] = h
  BY <1>1
<1> HIDE DEF h, t, one
<1>4. /\ u \in Seq(Coro) /\ Len(u) = Len(one) + Len(t)
      /\ \A i \in 1..Len(one) : u[i] = one[i]
      /\ \A i \in Len(one) + 1..Len(one) + Len(t) : u[i] = t[i - Len(one)]
  BY <1>1, <1>3, Joined
<1>5. Len(u) = Len(s)
  BY <1>1, <1>2, <1>3, <1>4
<1>6. ASSUME NEW i \in 1..Len(s)
      PROVE  s[i] = u[i]
  <2>1. CASE i = 1
    BY <1>2, <1>3, <1>4, <2>1
  <2>2. CASE i # 1
    <3>1. i - 1 \in 1..Len(t) /\ (i - 1) + 1 = i /\ i \in 1 + 1..1 + Len(t)
      BY <1>1, <1>2, <2>2
    <3>2. QED
      BY <1>1, <1>3, <1>4, <3>1
  <2>3. QED
    BY <2>1, <2>2
<1>7. s = u
  BY <1>4, <1>5, <1>6, SeqEqual
<1>8. Reverse(u) = Reverse(t) \o <<h>>
  BY <1>1, ReversedPush DEF one
<1>9. QED
  BY <1>1, <1>7, <1>8 DEF h, t, one


\* A list of one, a list one is added to, and a list that is taken from.
LEMMA Single ==
  ASSUME NEW x \in Coro
  PROVE  /\ <<x>> \in Seq(Coro) /\ Len(<<x>>) = 1 /\ Distinct(<<x>>)
         /\ \A y : In(y, <<x>>) <=> y = x
<1>1. <<x>> \in Seq(Coro) /\ Len(<<x>>) = 1 /\ <<x>>[1] = x
  OBVIOUS
<1> DEFINE s == <<x>>
<1> HIDE DEF s
<1>2. \A i \in 1..Len(s) : i = 1
  BY <1>1 DEF s
<1>3. 1 \in 1..Len(s)
  BY <1>1 DEF s
<1>4. QED
  BY <1>1, <1>2, <1>3 DEF In, Distinct, s

LEMMA Added ==
  ASSUME NEW s \in Seq(Coro), NEW x \in Coro
  PROVE  /\ <<x>> \o s \in Seq(Coro) /\ Append(s, x) \in Seq(Coro) /\ Append(s, x) = s \o <<x>>
         /\ \A y : In(y, <<x>> \o s) <=> y = x \/ In(y, s)
         /\ \A y : In(y, Append(s, x)) <=> y = x \/ In(y, s)
         /\ Distinct(<<x>> \o s) <=> Distinct(s) /\ ~In(x, s)
         /\ Distinct(Append(s, x)) <=> Distinct(s) /\ ~In(x, s)
<1> DEFINE one == <<x>>
<1>1. one \in Seq(Coro) /\ Distinct(one) /\ \A y : In(y, one) <=> y = x
  BY Single
<1>2. Append(s, x) = s \o one /\ Append(s, x) \in Seq(Coro)
  BY AppendIsConcat, AppendProperties
<1> HIDE DEF one
<1>3. /\ one \o s \in Seq(Coro)
      /\ \A y : In(y, one \o s) <=> In(y, one) \/ In(y, s)
      /\ Distinct(one \o s) <=> Distinct(one) /\ Distinct(s) /\ Apart(one, s)
  BY <1>1, Joined
<1>4. /\ \A y : In(y, s \o one) <=> In(y, s) \/ In(y, one)
      /\ Distinct(s \o one) <=> Distinct(s) /\ Distinct(one) /\ Apart(s, one)
  BY <1>1, Joined
<1>5. (Apart(one, s) <=> ~In(x, s)) /\ (Apart(s, one) <=> ~In(x, s))
  BY <1>1, Zenon DEF Apart
<1>6. QED
  BY <1>1, <1>2, <1>3, <1>4, <1>5 DEF one

LEMMA Taken ==
  ASSUME NEW s \in Seq(Coro), s # <<>>
  PROVE  /\ Head(s) \in Coro /\ Tail(s) \in Seq(Coro) /\ Last(s) \in Coro
         /\ s = <<Head(s)>> \o Tail(s) /\ In(Head(s), s)
         /\ \A y : In(y, s) <=> y = Head(s) \/ In(y, Tail(s))
         /\ Distinct(s) <=> Distinct(Tail(s)) /\ ~In(Head(s), Tail(s))
         /\ Len(s) = 1 => Tail(s) = <<>>
<1> DEFINE h == Head(s)
           t == Tail(s)
<1>1. h \in Coro /\ t \in Seq(Coro) /\ s = <<h>> \o t
  BY Beheaded
<1>2. Len(s) \in Nat \ {0} /\ Len(t) = Len(s) - 1
  BY HeadTailProperties, EmptySeq
<1>3. Last(s) \in Coro
  <2>1. Len(s) \in 1..Len(s)
    BY <1>2
  <2>2. QED
    BY <2>1, ElementOfSeq DEF Last
<1>4. Len(s) = 1 => t = <<>>
  <2>1. Len(s) = 1 => Len(t) = 0
    BY <1>2
  <2> HIDE DEF t
  <2>2. QED
    BY <1>1, <2>1, EmptySeq
<1> HIDE DEF h, t
<1>5. /\ \A y : In(y, <<h>> \o t) <=> y = h \/ In(y, t)
      /\ Distinct(<<h>> \o t) <=> Distinct(t) /\ ~In(h, t)
  BY <1>1, Added
<1>6. QED
  BY <1>1, <1>3, <1>4, <1>5 DEF h, t

LEMMA ReversedOnce ==
  ASSUME NEW s \in Seq(Coro), Distinct(s)
  PROVE  Distinct(Reverse(s))
<1> DEFINE r == Reverse(s)
           n == Len(s)
<1>1. n \in Nat /\ Len(r) = n /\ \A i \in 1..n : r[i] = s[(n - i) + 1]
  BY Reversed, Indices
<1>2. \A i, j \in 1..n : s[i] = s[j] => i = j
  BY DEF Distinct, n
<1> HIDE DEF r, n
<1>3. ASSUME NEW i \in 1..n, NEW j \in 1..n, r[i] = r[j]
      PROVE  i = j
  <2>1. (n - i) + 1 \in 1..n /\ (n - j) + 1 \in 1..n
    BY <1>1
  <2>2. (n - i) + 1 = (n - j) + 1
    BY <1>1, <1>2, <1>3, <2>1
  <2>3. QED
    BY <1>1, <2>2
<1>4. QED
  BY <1>1, <1>3 DEF Distinct, r
(* Types.                                                                   *)

LEMMA Given == /\ home \in [Coro -> Ctx] /\ NoCoro \notin Coro
               /\ Notifier \in [Cv -> SUBSET Coro] /\ Cv # {}
  BY HomeAssumption, NotifierAssumption

\* What the variables that belong to c may become in a step of c.
Local(c) ==
    /\ at' = at \/ \E p \in Place : at' = [at EXCEPT ![c] = p]
    /\ on' = on \/ \E v \in Cv : on' = [on EXCEPT ![c] = v]
    /\ hands' = hands \/ \E s \in Seq(Coro) : hands' = [hands EXCEPT ![c] = s]
    /\ at'[c] \in {"store", "register", "new next", "cached next"} => hands'[c] # <<>>
    /\ current' = current \/ \E w \in {c, NoCoro} : current' = [current EXCEPT ![home[c]] = w]

\* And the others.
Common ==
    /\ owner' \in Coro \cup {NoCoro} /\ lockQueue' \in Seq(Coro)
    /\ awaiting' = awaiting \/ \E v \in Cv, s \in Seq(Coro) : awaiting' = [awaiting EXCEPT ![v] = s]
    /\ cache' = cache \/ \E v \in Cv, s \in Seq(Coro) : cache' = [cache EXCEPT ![v] = s]
    /\ tail' = tail \/ \E v \in Cv, w \in Coro \cup {NoCoro} : tail' = [tail EXCEPT ![v] = w]
    /\ ready' \subseteq Coro /\ undefined' \in BOOLEAN

\* A step of c leaves the variables of the others alone.
LEMMA OthersStay ==
  ASSUME TypeOK, NEW c \in Coro, Local(c)
  PROVE  /\ at' \in [Coro -> Place] /\ on' \in [Coro -> Cv] /\ hands' \in [Coro -> Seq(Coro)]
         /\ \A d \in Coro : d # c => /\ at'[d] = at[d] /\ on'[d] = on[d] /\ hands'[d] = hands[d]
                                     /\ InHands(d)' = InHands(d)
<1>1. at' \in [Coro -> Place] /\ \A d \in Coro : d # c => at'[d] = at[d]
  <2>1. at \in [Coro -> Place]
    BY DEF TypeOK
  <2>2. QED
    BY <2>1 DEF Local
<1>2. on' \in [Coro -> Cv] /\ \A d \in Coro : d # c => on'[d] = on[d]
  <2>1. on \in [Coro -> Cv]
    BY DEF TypeOK
  <2>2. QED
    BY <2>1 DEF Local
<1>3. hands' \in [Coro -> Seq(Coro)] /\ \A d \in Coro : d # c => hands'[d] = hands[d]
  <2>1. hands \in [Coro -> Seq(Coro)]
    BY DEF TypeOK
  <2>2. QED
    BY <2>1 DEF Local
<1>4. QED
  BY <1>1, <1>2, <1>3 DEF InHands

LEMMA TypeKept == ASSUME TypeOK, NEW c \in Coro, Local(c), Common PROVE TypeOK'
<1>1. /\ at' \in [Coro -> Place] /\ on' \in [Coro -> Cv] /\ hands' \in [Coro -> Seq(Coro)]
      /\ \A d \in Coro : d # c => at'[d] = at[d] /\ hands'[d] = hands[d]
  BY OthersStay
<1>2. current' \in [Ctx -> Coro \cup {NoCoro}]
  <2>1. current \in [Ctx -> Coro \cup {NoCoro}]
    BY DEF TypeOK
  <2>2. QED
    BY <2>1 DEF Local
<1>3. awaiting' \in [Cv -> Seq(Coro)]
  <2>1. awaiting \in [Cv -> Seq(Coro)]
    BY DEF TypeOK
  <2>2. QED
    BY <2>1 DEF Common
<1>4. cache' \in [Cv -> Seq(Coro)]
  <2>1. cache \in [Cv -> Seq(Coro)]
    BY DEF TypeOK
  <2>2. QED
    BY <2>1 DEF Common
<1>5. tail' \in [Cv -> Coro \cup {NoCoro}]
  <2>1. tail \in [Cv -> Coro \cup {NoCoro}]
    BY DEF TypeOK
  <2>2. QED
    BY <2>1 DEF Common
<1>6. \A d \in Coro : at'[d] \in {"store", "register", "new next", "cached next"} => hands'[d] # <<>>
  <2>1. at'[c] \in {"store", "register", "new next", "cached next"} => hands'[c] # <<>>
    BY DEF Local
  <2>2. \A d \in Coro : at[d] \in {"store", "register", "new next", "cached next"} => hands[d] # <<>>
    BY DEF TypeOK
  <2>3. QED
    BY <1>1, <2>1, <2>2
<1>7. QED
  BY <1>1, <1>2, <1>3, <1>4, <1>5, <1>6 DEF TypeOK, Common

\* The lists that a step may work on.
LEMMA Parts ==
  ASSUME TypeOK, NEW c \in Coro
  PROVE  /\ hands[c] \in Seq(Coro) /\ lockQueue \in Seq(Coro) /\ InHands(c) \in Seq(Coro)
         /\ on[c] \in Cv /\ at[c] \in Place
         /\ \A v \in Cv : awaiting[v] \in Seq(Coro) /\ cache[v] \in Seq(Coro)
         /\ at[c] \in {"store", "register", "new next", "cached next"} => hands[c] # <<>>
<1>1. /\ hands[c] \in Seq(Coro) /\ lockQueue \in Seq(Coro)
      /\ on[c] \in Cv /\ at[c] \in Place
      /\ \A v \in Cv : awaiting[v] \in Seq(Coro) /\ cache[v] \in Seq(Coro)
      /\ at[c] \in {"store", "register", "new next", "cached next"} => hands[c] # <<>>
  BY DEF TypeOK
<1>2. hands[c] # <<>> => Tail(hands[c]) \in Seq(Coro)
  BY <1>1, Taken
<1>3. QED
  BY <1>1, <1>2 DEF InHands

LEMMA InitType == ASSUME CvInit PROVE TypeOK
<1>1. (CHOOSE v \in Cv : TRUE) \in Cv /\ <<>> \in Seq(Coro)
  BY Given, EmptyList
<1>2. "out" \in Place /\ "out" \notin {"store", "register", "new next", "cached next"}
  BY DEF Place
<1>3. /\ awaiting \in [Cv -> Seq(Coro)] /\ cache \in [Cv -> Seq(Coro)]
      /\ hands \in [Coro -> Seq(Coro)] /\ lockQueue \in Seq(Coro)
  BY <1>1 DEF CvInit, Mutex!LockInit
<1>4. on \in [Coro -> Cv] /\ at \in [Coro -> Place] /\ \A c \in Coro : at[c] = "out"
  BY <1>1, <1>2 DEF CvInit
<1>5. QED
  BY <1>2, <1>3, <1>4 DEF CvInit, Mutex!LockInit, TypeOK
(* The steps.                                                               *)

\* Whoever gives the mutex up leaves it free, or to the first of its queue.
LEMMA GivenUp ==
  ASSUME TypeOK, GiveUp
  PROVE  /\ owner # NoCoro
         /\ \/ /\ lockQueue = <<>> /\ lockQueue' = <<>>
               /\ owner' = NoCoro /\ ready' = ready
            \/ /\ lockQueue # <<>> /\ lockQueue' = Tail(lockQueue)
               /\ owner' = Head(lockQueue) /\ ready' = ready \cup {Head(lockQueue)}
               /\ Head(lockQueue) \in Coro
         /\ owner' \in Coro \cup {NoCoro} /\ lockQueue' \in Seq(Coro) /\ ready' \subseteq Coro
<1>1. lockQueue \in Seq(Coro) /\ ready \subseteq Coro /\ <<>> \in Seq(Coro)
  BY EmptyList DEF TypeOK
<1>2. lockQueue # <<>> => Head(lockQueue) \in Coro /\ Tail(lockQueue) \in Seq(Coro)
  BY <1>1, Taken
<1>3. QED
  BY <1>1, <1>2 DEF GiveUp, Mutex!Free, Mutex!HandOff

\* Whoever is passed on to the mutex owns it, or joins its queue.
LEMMA Registered ==
  ASSUME TypeOK, NEW w \in Coro, Register(w)
  PROVE  /\ \/ /\ owner = NoCoro /\ lockQueue = <<>> /\ lockQueue' = lockQueue
               /\ owner' = w /\ ready' = ready \cup {w}
            \/ /\ owner # NoCoro /\ lockQueue' = Append(lockQueue, w)
               /\ owner' = owner /\ ready' = ready
         /\ owner' \in Coro \cup {NoCoro} /\ lockQueue' \in Seq(Coro) /\ ready' \subseteq Coro
<1>1. /\ lockQueue \in Seq(Coro) /\ ready \subseteq Coro /\ owner \in Coro \cup {NoCoro}
      /\ Append(lockQueue, w) \in Seq(Coro)
  BY Added DEF TypeOK
<1>2. QED
  BY <1>1 DEF Register, Mutex!Take, Mutex!Join

\* What c does outside wait and notify.
Plain(c) == Resume(c) \/ Yield(c) \/ (owner # c /\ Lock(c)) \/ Unlock(c)
Waiting(c) == (\E v \in Cv : owner = c /\ Wait(c, v)) \/ UnlockAhead(c)
One(c) == (\E v \in Cv : NotifyOne(c, v)) \/ Exchange(c) \/ Store(c) \/ RegisterOne(c)
All(c) == \/ \E v \in Cv : NotifyAll(c, v)
          \/ RegisterNext(c) \/ Advance(c) \/ TakeCache(c) \/ AllNotified(c)
Acts(c) == Plain(c) \/ Waiting(c) \/ One(c) \/ All(c)

LEMMA Steps == Next <=> \E c \in Coro : Acts(c)
  BY DEF Next, Continue, Acts, Plain, Waiting, One, All


LEMMA Places == /\ \A p \in Notifies \cup {"out", "locking", "unlock", "asleep"} : p \in Place
  BY DEF Place, Notifies

\* Every operation of c is local in this sense.
LEMMA ActsLocal ==
  ASSUME TypeOK, NEW c \in Coro, Acts(c)
  PROVE  Local(c) /\ Common
<1>1. /\ hands[c] \in Seq(Coro) /\ lockQueue \in Seq(Coro)
      /\ on[c] \in Cv /\ at[c] \in Place
      /\ \A v \in Cv : awaiting[v] \in Seq(Coro) /\ cache[v] \in Seq(Coro)
      /\ at[c] \in {"store", "register", "new next", "cached next"} => hands[c] # <<>>
  BY Parts
<1>2. owner \in Coro \cup {NoCoro} /\ ready \subseteq Coro /\ undefined \in BOOLEAN
  BY DEF TypeOK
<1>3. /\ <<>> \in Seq(Coro) /\ c \in Coro
      /\ \A s \in Seq(Coro) : s # <<>> => /\ Tail(s) \in Seq(Coro) /\ Head(s) \in Coro
                                          /\ Last(s) \in Coro
  BY EmptyList, Taken
<1>4. /\ \A x \in Coro : <<x>> \in Seq(Coro) /\ <<x>> # <<>>
      /\ \A s \in Seq(Coro), x \in Coro : <<x>> \o s \in Seq(Coro)
      /\ \A s \in Seq(Coro) : Reverse(s) \in Seq(Coro) /\ (s # <<>> => Reverse(s) # <<>>)
  <2>1. ASSUME NEW s \in Seq(Coro), s # <<>>
        PROVE  Reverse(s) # <<>>
    <3>1. In(Head(s), s) /\ (In(Head(s), Reverse(s)) <=> In(Head(s), s))
      BY <2>1, Taken, Reversed
    <3>2. QED
      BY <3>1, EmptyList
  <2>2. \A x \in Coro : <<x>> \in Seq(Coro) /\ <<x>> # <<>>
    OBVIOUS
  <2>3. QED
    BY <2>1, <2>2, Added, Reversed
<1>5. at \in [Coro -> Place]
  BY DEF TypeOK
<1>6. CASE Resume(c)
  <2>1. at'[c] = "out"
    BY <1>5, <1>6 DEF Resume, Goto
  <2>2. Local(c)
    BY <1>5, <1>6, <2>1, Places DEF Resume, Local, Goto
  <2>3. (c \in Advancing) \in BOOLEAN
    OBVIOUS
  <2>4. Common
    BY <1>1, <1>2, <1>6, <2>3 DEF Resume, Common, mutex, lists
  <2>5. QED
    BY <2>2, <2>4
<1>7. CASE Yield(c)
  BY <1>1, <1>2, <1>3, <1>5, <1>7, Places
     DEF Yield, Idle, Runs, Local, Common, LeaveThread, mutex, lists, op
<1>8. CASE Lock(c)
  <2>1. Append(lockQueue, c) \in Seq(Coro)
    BY <1>1, Added
  <2>2. QED
    BY <1>1, <1>2, <1>3, <1>5, <1>8, <2>1, Places
       DEF Lock, Idle, Runs, Local, Common, LeaveThread, Goto, Mutex!Take, Mutex!Join, lists
<1>9. CASE Unlock(c)
  <2>1. owner' \in Coro \cup {NoCoro} /\ lockQueue' \in Seq(Coro) /\ ready' \subseteq Coro
    BY <1>9, GivenUp DEF Unlock
  <2>2. QED
    BY <1>1, <1>2, <1>3, <1>5, <1>9, <2>1 DEF Unlock, Idle, Runs, Local, Common, lists, op
<1>10. CASE \E v \in Cv : Wait(c, v)
  <2>1. PICK v \in Cv : Wait(c, v)
    BY <1>10
  <2>2. <<c>> \o awaiting[v] \in Seq(Coro)
    BY <1>1, <1>4
  <2>3. Common
    BY <1>1, <1>2, <2>1, <2>2 DEF Wait, Common, mutex
  <2>4. QED
    BY <1>1, <1>5, <2>1, <2>3, Places DEF Wait, Idle, Runs, Local, Goto
<1>11. CASE UnlockAhead(c)
  <2>1. owner' \in Coro \cup {NoCoro} /\ lockQueue' \in Seq(Coro) /\ ready' \subseteq Coro
    BY <1>11, GivenUp DEF UnlockAhead
  <2>2. QED
    BY <1>1, <1>2, <1>3, <1>5, <1>11, <2>1, Places
       DEF UnlockAhead, Runs, Local, Common, LeaveThread, Goto, lists
<1>12. CASE \E v \in Cv : NotifyOne(c, v)
  <2>1. PICK v \in Cv : NotifyOne(c, v)
    BY <1>12
  <2>2. cache[v] # <<>> => /\ Tail(cache[v]) \in Seq(Coro) /\ Head(cache[v]) \in Coro
                           /\ <<Head(cache[v])>> \in Seq(Coro) /\ <<Head(cache[v])>> # <<>>
    BY <1>1, <1>3, <1>4
  <2>3. Common
    BY <1>1, <1>2, <2>1, <2>2 DEF NotifyOne, Common, mutex
  <2>4. on' = [on EXCEPT ![c] = v] /\ current' = current
    BY <2>1 DEF NotifyOne
  <2>5. CASE at' = [at EXCEPT ![c] = "exchange"] /\ hands' = hands
    <3>1. at'[c] = "exchange" /\ "exchange" \in Place
      BY <1>5, <2>5, Places DEF Notifies
    <3>2. (\E p \in Place : at' = [at EXCEPT ![c] = p]) /\ \E u \in Cv : on' = [on EXCEPT ![c] = u]
      BY <2>4, <2>5, <3>1
    <3>3. QED
      BY <2>3, <2>4, <2>5, <3>1, <3>2 DEF Local
  <2>6. CASE /\ cache[v] # <<>> /\ at' = [at EXCEPT ![c] = "register"]
             /\ hands' = [hands EXCEPT ![c] = <<Head(cache[v])>>]
    <3>1. hands'[c] = <<Head(cache[v])>>
      BY <2>6 DEF TypeOK
    <3>2. "register" \in Place /\ hands'[c] # <<>>
      BY <2>2, <2>6, <3>1, Places DEF Notifies
    <3>3. /\ \E p \in Place : at' = [at EXCEPT ![c] = p]
          /\ \E u \in Cv : on' = [on EXCEPT ![c] = u]
          /\ \E s \in Seq(Coro) : hands' = [hands EXCEPT ![c] = s]
      BY <2>2, <2>4, <2>6, <3>2
    <3>4. QED
      BY <2>3, <2>4, <3>2, <3>3 DEF Local
  <2>7. QED
    BY <2>1, <2>3, <2>5, <2>6 DEF NotifyOne, Goto
<1>13. CASE Exchange(c)
  <2>1. Reverse(awaiting[on[c]]) \in Seq(Coro)
    BY <1>1, <1>4
  <2>2. awaiting[on[c]] # <<>> => Reverse(awaiting[on[c]]) # <<>>
    BY <1>1, <1>4
  <2>3. Common
    BY <1>1, <1>2, <1>3, <1>13 DEF Exchange, Common, mutex
  <2>4. /\ hands' = [hands EXCEPT ![c] = Reverse(awaiting[on[c]])]
        /\ hands'[c] = Reverse(awaiting[on[c]]) /\ on' = on /\ current' = current
    BY <1>13 DEF Exchange, TypeOK
  <2>5. CASE awaiting[on[c]] = <<>> /\ at' = [at EXCEPT ![c] = "out"]
    <3>1. at'[c] = "out" /\ "out" \in Place
      BY <1>5, <2>5, Places
    <3>2. /\ \E p \in Place : at' = [at EXCEPT ![c] = p]
          /\ \E s \in Seq(Coro) : hands' = [hands EXCEPT ![c] = s]
      BY <2>1, <2>4, <2>5, <3>1
    <3>3. QED
      BY <2>3, <2>4, <3>1, <3>2 DEF Local
  <2>6. CASE awaiting[on[c]] # <<>> /\ at' = [at EXCEPT ![c] = "store"]
    <3>1. "store" \in Place /\ hands'[c] # <<>>
      BY <2>2, <2>4, <2>6, Places DEF Notifies
    <3>2. /\ \E p \in Place : at' = [at EXCEPT ![c] = p]
          /\ \E s \in Seq(Coro) : hands' = [hands EXCEPT ![c] = s]
      BY <2>1, <2>4, <2>6, <3>1
    <3>3. QED
      BY <2>3, <2>4, <3>1, <3>2 DEF Local
  <2>7. QED
    BY <1>13, <2>3, <2>5, <2>6 DEF Exchange, Goto
<1>14. CASE Store(c)
  <2> DEFINE v == on[c]
             linked == IF tail[v] = Last(cache[v]) THEN Append(cache[v], Head(hands[c])) ELSE cache[v]
  <2>1. hands[c] # <<>> /\ v \in Cv
    BY <1>1, <1>14 DEF Store
  <2>2. Tail(hands[c]) \in Seq(Coro) /\ Head(hands[c]) \in Coro /\ Last(hands[c]) \in Coro
    BY <1>1, <1>3, <2>1
  <2>3. cache[v] # <<>> => Tail(linked) \in Seq(Coro) /\ Head(cache[v]) \in Coro
    <3>1. Append(cache[v], Head(hands[c])) \in Seq(Coro) /\ Append(cache[v], Head(hands[c])) # <<>>
      <4> DEFINE h == Head(hands[c])
      <4> HIDE DEF h, v
      <4>1. h \in Coro /\ cache[v] \in Seq(Coro)
        BY <1>1, <2>1, <2>2 DEF h
      <4>2. Append(cache[v], h) \in Seq(Coro) /\ In(h, Append(cache[v], h))
        BY <4>1, Added
      <4>3. QED
        BY <4>2, EmptyList DEF h
    <3>2. QED
      BY <1>1, <1>3, <2>1, <3>1
  <2> HIDE DEF v, linked
  <2>4. /\ \/ /\ cache' = [cache EXCEPT ![v] = Tail(hands[c])]
              /\ hands' = [hands EXCEPT ![c] = <<Head(hands[c])>>]
           \/ /\ cache[v] # <<>>
              /\ cache' = [cache EXCEPT ![v] = Tail(linked)]
              /\ hands' = [hands EXCEPT ![c] = <<Head(cache[v])>>]
        /\ tail' = [tail EXCEPT ![v] = Last(hands[c])]
        /\ at' = [at EXCEPT ![c] = "register"]
        /\ owner' = owner /\ lockQueue' = lockQueue /\ awaiting' = awaiting /\ on' = on
        /\ ready' = ready /\ current' = current /\ undefined' = undefined
    BY <1>14 DEF Store, Goto, mutex, v, linked
  <2>5. Common
    BY <1>1, <1>2, <2>1, <2>2, <2>3, <2>4 DEF Common
  <2>6. \E x \in Coro : hands' = [hands EXCEPT ![c] = <<x>>]
    BY <2>2, <2>3, <2>4
  <2>7. \E s \in Seq(Coro) : hands' = [hands EXCEPT ![c] = s] /\ s # <<>>
    BY <1>4, <2>6
  <2>8. hands'[c] # <<>>
    BY <2>7 DEF TypeOK
  <2>9. QED
    BY <1>5, <2>4, <2>5, <2>7, <2>8, Places DEF Local, Notifies
<1>15. CASE RegisterOne(c)
  <2>1. Head(hands[c]) \in Coro
    BY <1>1, <1>3, <1>15 DEF RegisterOne
  <2>2. owner' \in Coro \cup {NoCoro} /\ lockQueue' \in Seq(Coro) /\ ready' \subseteq Coro
    BY <1>15, <2>1, Registered DEF RegisterOne
  <2>3. QED
    BY <1>1, <1>2, <1>3, <1>5, <1>15, <2>2, Places DEF RegisterOne, Runs, Local, Common, Goto, lists
<1>16. CASE \E v \in Cv : NotifyAll(c, v)
  <2>1. PICK v \in Cv : NotifyAll(c, v)
    BY <1>16
  <2>2. Common
    BY <1>1, <1>2, <1>3, <2>1 DEF NotifyAll, Common, mutex
  <2>3. QED
    BY <1>1, <1>5, <2>1, <2>2, Places DEF NotifyAll, Local, Goto, Notifies
<1>17. CASE RegisterNext(c)
  <2>1. Head(hands[c]) \in Coro
    BY <1>1, <1>3, <1>17 DEF RegisterNext
  <2>2. owner' \in Coro \cup {NoCoro} /\ lockQueue' \in Seq(Coro) /\ ready' \subseteq Coro
    BY <1>17, <2>1, Registered DEF RegisterNext
  <2>3. Common
    BY <1>17, <1>2, <2>2 DEF RegisterNext, Common, lists
  <2>4. QED
    BY <1>1, <1>5, <1>17, <2>3, Places DEF RegisterNext, Local, Goto, Notifies
<1>18. CASE Advance(c)
  <2>1. Tail(hands[c]) \in Seq(Coro)
    BY <1>1, <1>3, <1>18 DEF Advance
  <2>2. Common
    BY <1>1, <1>2, <1>18 DEF Advance, Common, mutex, lists
  <2>3. at'[c] \in {"new", "cached"}
    BY <1>5, <1>18 DEF Advance, Goto
  <2>4. QED
    BY <1>5, <1>18, <2>1, <2>2, <2>3, Places DEF Advance, Local, Goto, Notifies
<1>19. CASE TakeCache(c)
  <2>1. Common
    BY <1>1, <1>2, <1>3, <1>19 DEF TakeCache, Common, mutex
  <2>2. QED
    BY <1>1, <1>5, <1>19, <2>1, Places DEF TakeCache, Local, Goto, Notifies
<1>20. CASE AllNotified(c)
  BY <1>1, <1>2, <1>5, <1>20, Places DEF AllNotified, Local, Common, Goto, mutex, lists
<1>21. QED
  BY <1>6, <1>7, <1>8, <1>9, <1>10, <1>11, <1>12, <1>13, <1>14, <1>15, <1>16, <1>17, <1>18,
     <1>19, <1>20 DEF Acts, Plain, Waiting, One, All
(* Who runs, and what a notifier has in its hands.                          *)

\* A step of c leaves whoever else runs, and starts nobody else.
LEMMA OthersRun ==
  ASSUME TypeOK, NEW c \in Coro, Acts(c), NEW d \in Coro, d # c
  PROVE  current'[home[d]] = d <=> current[home[d]] = d
<1>1. current \in [Ctx -> Coro \cup {NoCoro}] /\ home[c] \in Ctx /\ home[d] \in Ctx /\ d # NoCoro
  BY Given DEF TypeOK
<1>2. current[home[c]] \in {c, NoCoro}
  BY DEF Acts, Plain, Waiting, One, All, Resume, Yield, Lock, Unlock, UnlockAhead, Wait,
         NotifyOne, Exchange, Store, RegisterOne, NotifyAll, RegisterNext, Advance, TakeCache,
         AllNotified, Idle, Runs
<1>3. current' = current \/ \E w \in {c, NoCoro} : current' = [current EXCEPT ![home[c]] = w]
  BY ActsLocal DEF Local
<1>4. QED
  BY <1>1, <1>2, <1>3

\* What OpInv says of one coroutine.
Own(d) == /\ at[d] \in Notifies \cup {"unlock"} => current[home[d]] = d
          /\ at[d] \in Notifies => d \in Notifier[on[d]]
          /\ at[d] \notin Notifies \ {"exchange"} => hands[d] = <<>>
          /\ at[d] = "register" => Len(hands[d]) = 1

LEMMA StepOwn ==
  ASSUME TypeOK, OpInv, NEW c \in Coro, Acts(c)
  PROVE  OpInv'
<1>1. Own(c)
  BY DEF OpInv, Own
<1>2. /\ at \in [Coro -> Place] /\ on \in [Coro -> Cv] /\ hands \in [Coro -> Seq(Coro)]
      /\ current \in [Ctx -> Coro \cup {NoCoro}] /\ home[c] \in Ctx
  BY Given DEF TypeOK
<1>3. \A x : Len(<<x>>) = 1
  OBVIOUS
<1>4. Own(c)'
  <2>1. CASE Plain(c)
    <3>1. at[c] = "out" => hands[c] = <<>>
      BY <1>1 DEF Own, Notifies
    <3>2. Resume(c) => Own(c)'
      <4>1. ASSUME Resume(c)
            PROVE  at'[c] = "out" /\ hands' = hands /\ current[home[c]] = NoCoro
        BY <1>2, <4>1 DEF Resume, Goto
      <4>2. Resume(c) => hands[c] = <<>>
        BY <1>1, Given DEF Resume, Own, Notifies
      <4>3. QED
        BY <4>1, <4>2 DEF Own, Notifies
    <3>3. Yield(c) => Own(c)'
      BY <1>2, <3>1 DEF Yield, Idle, op, Own, Notifies
    <3>4. Lock(c) => Own(c)'
      <4>1. Lock(c) => at'[c] \in {"out", "locking"} /\ hands' = hands /\ at[c] = "out"
        BY <1>2 DEF Lock, Idle, Goto
      <4>2. QED
        BY <3>1, <4>1 DEF Own, Notifies
    <3>5. Unlock(c) => Own(c)'
      BY <1>2, <3>1 DEF Unlock, Idle, op, Own, Notifies
    <3>6. QED
      BY <2>1, <3>2, <3>3, <3>4, <3>5 DEF Plain
  <2>2. CASE Waiting(c)
    <3>1. ASSUME NEW v \in Cv, Wait(c, v)
          PROVE  Own(c)'
      <4>1. /\ at'[c] = "unlock" /\ hands' = hands /\ at[c] = "out"
            /\ current' = current /\ current[home[c]] = c
        BY <1>2, <3>1 DEF Wait, Idle, Runs, Goto
      <4>2. QED
        BY <1>1, <4>1 DEF Own, Notifies
    <3>2. UnlockAhead(c) => Own(c)'
      <4>1. UnlockAhead(c) => at'[c] = "asleep" /\ hands' = hands /\ at[c] = "unlock"
        BY <1>2 DEF UnlockAhead, Goto
      <4>2. QED
        BY <1>1, <4>1 DEF Own, Notifies
    <3>3. QED
      BY <2>2, <3>1, <3>2 DEF Waiting
  <2>3. CASE One(c)
    <3>1. ASSUME NEW v \in Cv, NotifyOne(c, v)
          PROVE  Own(c)'
      <4>1. /\ on'[c] = v /\ current' = current /\ current[home[c]] = c
            /\ c \in Notifier[v] /\ at[c] = "out"
        BY <1>2, <3>1 DEF NotifyOne, Idle, Runs
      <4>2. \/ at'[c] = "exchange" /\ hands' = hands
            \/ at'[c] = "register" /\ hands'[c] = <<Head(cache[v])>>
        BY <1>2, <3>1 DEF NotifyOne, Goto
      <4>3. QED
        BY <1>1, <1>3, <4>1, <4>2 DEF Own, Notifies
    <3>2. Exchange(c) => Own(c)'
      <4>1. ASSUME Exchange(c)
            PROVE  /\ on' = on /\ current' = current /\ current[home[c]] = c
                   /\ at[c] = "exchange" /\ hands'[c] = Reverse(awaiting[on[c]])
                   /\ at'[c] = IF awaiting[on[c]] = <<>> THEN "out" ELSE "store"
        BY <1>2, <4>1 DEF Exchange, Runs, Goto
      <4>2. QED
        BY <1>1, <4>1, EmptyList DEF Own, Notifies
    <3>3. Store(c) => Own(c)'
      <4>1. ASSUME Store(c)
            PROVE  /\ on' = on /\ current' = current /\ current[home[c]] = c
                   /\ at[c] = "store" /\ at'[c] = "register"
                   /\ \E x : hands'[c] = <<x>>
        BY <1>2, <4>1 DEF Store, Runs, Goto
      <4>2. QED
        BY <1>1, <1>3, <4>1 DEF Own, Notifies
    <3>4. RegisterOne(c) => Own(c)'
      <4>1. RegisterOne(c) => at'[c] = "out" /\ hands'[c] = <<>>
        BY <1>2 DEF RegisterOne, Goto
      <4>2. QED
        BY <4>1 DEF Own, Notifies
    <3>5. QED
      BY <2>3, <3>1, <3>2, <3>3, <3>4 DEF One
  <2>4. CASE All(c)
    <3>1. ASSUME NEW v \in Cv, NotifyAll(c, v)
          PROVE  Own(c)'
      <4>1. /\ on'[c] = v /\ current' = current /\ current[home[c]] = c
            /\ c \in Notifier[v] /\ at'[c] = "new"
        BY <1>2, <3>1 DEF NotifyAll, Idle, Runs, Goto
      <4>2. QED
        BY <4>1 DEF Own, Notifies
    <3>2. ASSUME RegisterNext(c) \/ Advance(c) \/ TakeCache(c)
          PROVE  Own(c)'
      <4>1. /\ on' = on /\ current' = current /\ current[home[c]] = c
            /\ at[c] \in Notifies
            /\ at'[c] \in {"new", "new next", "cached", "cached next"}
        BY <1>2, <3>2 DEF RegisterNext, Advance, TakeCache, Runs, Goto, Notifies
      <4>2. QED
        BY <1>1, <4>1 DEF Own, Notifies
    <3>3. AllNotified(c) => Own(c)'
      <4>1. AllNotified(c) => at'[c] = "out" /\ hands'[c] = <<>>
        BY <1>2 DEF AllNotified, Goto
      <4>2. QED
        BY <4>1 DEF Own, Notifies
    <3>4. QED
      BY <2>4, <3>1, <3>2, <3>3 DEF All
  <2>5. QED
    BY <2>1, <2>2, <2>3, <2>4 DEF Acts
<1>5. ASSUME NEW d \in Coro, d # c
      PROVE  Own(d)'
  <2>1. at'[d] = at[d] /\ on'[d] = on[d] /\ hands'[d] = hands[d]
    BY <1>5, ActsLocal, OthersStay
  <2>2. current'[home[d]] = d <=> current[home[d]] = d
    BY <1>5, OthersRun
  <2>3. Own(d)
    BY DEF OpInv, Own
  <2>4. QED
    BY <2>1, <2>2, <2>3 DEF Own
<1>6. QED
  BY <1>4, <1>5 DEF OpInv, Own
(* The lists as one function.                                               *)

Aw(v) == <<"awaiting", v>>
Ca(v) == <<"cache", v>>
Ha(d) == <<"hands", d>>
Mu == <<"mutex", NoCoro>>

LEMMA Names ==
  /\ \A v \in Cv : Aw(v) \in ListName /\ Ca(v) \in ListName
  /\ \A d \in Coro : Ha(d) \in ListName
  /\ Mu \in ListName
  /\ \A l \in ListName : \/ \E v \in Cv : l = Aw(v) \/ l = Ca(v)
                         \/ \E d \in Coro : l = Ha(d)
                         \/ l = Mu
  /\ \A u, v : /\ (Aw(u) = Aw(v) <=> u = v) /\ (Ca(u) = Ca(v) <=> u = v)
               /\ (Ha(u) = Ha(v) <=> u = v)
               /\ Aw(u) # Ca(v) /\ Aw(u) # Ha(v) /\ Ca(u) # Ha(v)
               /\ Aw(u) # Mu /\ Ca(u) # Mu /\ Ha(u) # Mu
BY DEF ListName, Aw, Ca, Ha, Mu

\* Who is on which list, before a step and after it.
LEMMA ListsAt ==
  /\ \A v \in Cv : Lists[Aw(v)] = awaiting[v] /\ Lists[Ca(v)] = cache[v]
  /\ \A d \in Coro : Lists[Ha(d)] = InHands(d)
  /\ Lists[Mu] = lockQueue
<1>1. \A l \in ListName : Lists[l] = ListAt(l)
  BY DEF Lists
<1>2. /\ \A v \in Cv : Aw(v) \in ListName /\ Ca(v) \in ListName
      /\ \A d \in Coro : Ha(d) \in ListName
      /\ Mu \in ListName
  BY Names
<1>3. /\ \A v \in Cv : ListAt(Aw(v)) = awaiting[v] /\ ListAt(Ca(v)) = cache[v]
      /\ \A d \in Coro : ListAt(Ha(d)) = InHands(d)
      /\ ListAt(Mu) = lockQueue
  BY DEF ListAt, Aw, Ca, Ha, Mu
<1>4. QED
  BY <1>1, <1>2, <1>3

LEMMA ListsAfter ==
  /\ \A v \in Cv : Lists'[Aw(v)] = awaiting'[v] /\ Lists'[Ca(v)] = cache'[v]
  /\ \A d \in Coro : Lists'[Ha(d)] = InHands(d)'
  /\ Lists'[Mu] = lockQueue'
<1>1. \A l \in ListName : Lists'[l] = ListAt(l)'
  BY DEF Lists
<1>2. /\ \A v \in Cv : Aw(v) \in ListName /\ Ca(v) \in ListName
      /\ \A d \in Coro : Ha(d) \in ListName
      /\ Mu \in ListName
  BY Names
<1>3. /\ \A v \in Cv : ListAt(Aw(v))' = awaiting'[v] /\ ListAt(Ca(v))' = cache'[v]
      /\ \A d \in Coro : ListAt(Ha(d))' = InHands(d)'
      /\ ListAt(Mu)' = lockQueue'
  BY DEF ListAt, Aw, Ca, Ha, Mu
<1>4. QED
  BY <1>1, <1>2, <1>3

\* f becomes g: between a and b nobody is doubled, and nobody turns up who was
\* on neither but the newcomer n.
Shift(f, g, a, b, n) ==
    /\ \A l \in ListName : l # a /\ l # b => g[l] = f[l]
    /\ Distinct(g[a]) /\ Distinct(g[b]) /\ (a # b => Apart(g[a], g[b]))
    /\ \A x \in Coro : In(x, g[a]) \/ In(x, g[b]) => In(x, f[a]) \/ In(x, f[b]) \/ x = n

LEMMA Shifted ==
  ASSUME NEW f, NEW g, NEW a \in ListName, NEW b \in ListName, NEW n,
         Once(f), ~On(n, f), Shift(f, g, a, b, n)
  PROVE  Once(g) /\ \A x \in Coro : On(x, g) => On(x, f) \/ x = n
<1>1. /\ \A l \in ListName : Distinct(f[l])
      /\ \A l, m \in ListName : l # m => \A x \in Coro : ~(In(x, f[l]) /\ In(x, f[m]))
  BY DEF Once, Apart
<1>2. /\ \A l \in ListName : l # a /\ l # b => g[l] = f[l]
      /\ Distinct(g[a]) /\ Distinct(g[b]) /\ (a # b => Apart(g[a], g[b]))
      /\ \A x \in Coro : In(x, g[a]) \/ In(x, g[b]) => In(x, f[a]) \/ In(x, f[b]) \/ x = n
  BY DEF Shift
<1>3. \A l \in ListName : ~In(n, f[l])
  BY DEF On
<1>4. ASSUME NEW l \in ListName
      PROVE  Distinct(g[l])
  BY <1>1, <1>2
<1>5. ASSUME NEW l \in ListName, NEW m \in ListName, l # m, NEW x \in Coro,
             In(x, g[l]), In(x, g[m])
      PROVE  FALSE
  <2>1. CASE l \in {a, b} /\ m \in {a, b}
    <3>1. a # b => ~(In(x, g[a]) /\ In(x, g[b]))
      BY <1>2 DEF Apart
    <3>2. QED
      BY <1>5, <2>1, <3>1
  <2>2. CASE l \in {a, b} /\ m \notin {a, b}
    <3>1. In(x, f[m])
      BY <1>2, <1>5, <2>2
    <3>2. In(x, f[a]) \/ In(x, f[b]) \/ x = n
      BY <1>2, <1>5, <2>2
    <3>3. QED
      BY <1>1, <1>3, <2>2, <3>1, <3>2
  <2>3. CASE l \notin {a, b} /\ m \in {a, b}
    <3>1. In(x, f[l])
      BY <1>2, <1>5, <2>3
    <3>2. In(x, f[a]) \/ In(x, f[b]) \/ x = n
      BY <1>2, <1>5, <2>3
    <3>3. QED
      BY <1>1, <1>3, <2>3, <3>1, <3>2
  <2>4. CASE l \notin {a, b} /\ m \notin {a, b}
    BY <1>1, <1>2, <1>5, <2>4
  <2>5. QED
    BY <2>1, <2>2, <2>3, <2>4
<1>6. ASSUME NEW x \in Coro, On(x, g)
      PROVE  On(x, f) \/ x = n
  <2>1. PICK l \in ListName : In(x, g[l])
    BY <1>6 DEF On
  <2>2. CASE l \in {a, b}
    BY <1>2, <2>1, <2>2 DEF On
  <2>3. CASE l \notin {a, b}
    BY <1>2, <2>1, <2>3 DEF On
  <2>4. QED
    BY <2>2, <2>3
<1>7. QED
  BY <1>4, <1>5, <1>6 DEF Once, Apart

\* And nobody but r is dropped.
Retains(f, g, a, b, r) ==
    \A x \in Coro : In(x, f[a]) \/ In(x, f[b]) => In(x, g[a]) \/ In(x, g[b]) \/ x = r

LEMMA NobodyDropped ==
  ASSUME NEW f, NEW g, NEW a \in ListName, NEW b \in ListName, NEW n, NEW r,
         Shift(f, g, a, b, n), Retains(f, g, a, b, r)
  PROVE  \A x \in Coro : On(x, f) => On(x, g) \/ x = r
<1>1. \A l \in ListName : l # a /\ l # b => g[l] = f[l]
  BY DEF Shift
<1>2. SUFFICES ASSUME NEW x \in Coro, On(x, f)
               PROVE  On(x, g) \/ x = r
  OBVIOUS
<1>3. PICK l \in ListName : In(x, f[l])
  BY <1>2 DEF On
<1>4. CASE l \in {a, b}
  BY <1>3, <1>4 DEF On, Retains
<1>5. CASE l \notin {a, b}
  BY <1>1, <1>3, <1>5 DEF On
<1>6. QED
  BY <1>4, <1>5
(* What each operation does to the lists.                                   *)

\* Nothing but a and b changes.
OnlyAt(a, b) ==
    /\ \A v \in Cv : Aw(v) # a /\ Aw(v) # b => awaiting'[v] = awaiting[v]
    /\ \A v \in Cv : Ca(v) # a /\ Ca(v) # b => cache'[v] = cache[v]
    /\ \A d \in Coro : Ha(d) # a /\ Ha(d) # b => InHands(d)' = InHands(d)
    /\ Mu # a /\ Mu # b => lockQueue' = lockQueue

LEMMA Elsewhere ==
  ASSUME NEW a, NEW b, OnlyAt(a, b)
  PROVE  \A l \in ListName : l # a /\ l # b => Lists'[l] = Lists[l]
<1>1. SUFFICES ASSUME NEW l \in ListName, l # a, l # b
               PROVE  Lists'[l] = Lists[l]
  OBVIOUS
<1>2. \/ \E v \in Cv : l = Aw(v) \/ l = Ca(v)
      \/ \E d \in Coro : l = Ha(d)
      \/ l = Mu
  BY Names
<1>3. CASE \E v \in Cv : l = Aw(v)
  BY <1>1, <1>3, ListsAt, ListsAfter DEF OnlyAt
<1>4. CASE \E v \in Cv : l = Ca(v)
  BY <1>1, <1>4, ListsAt, ListsAfter DEF OnlyAt
<1>5. CASE \E d \in Coro : l = Ha(d)
  BY <1>1, <1>5, ListsAt, ListsAfter DEF OnlyAt
<1>6. CASE l = Mu
  BY <1>1, <1>6, ListsAt, ListsAfter DEF OnlyAt
<1>7. QED
  BY <1>2, <1>3, <1>4, <1>5, <1>6

\* A step brings nobody but n on the lists, and takes nobody but r away.
Effect(n, r) == /\ Once(Lists')
                /\ \A x \in Coro : On(x, Lists') => (On(x, Lists) /\ x # r) \/ x = n
Kept(n, r) == \A x \in Coro : (On(x, Lists) /\ x # r) \/ x = n => On(x, Lists')

LEMMA NobodyListed == ASSUME TypeOK PROVE ~On(NoCoro, Lists)
<1>1. SUFFICES ASSUME NEW l \in ListName, In(NoCoro, Lists[l])
               PROVE  FALSE
  BY DEF On
<1>2. Lists[l] \in Seq(Coro)
  <2>1. \/ \E v \in Cv : l = Aw(v) \/ l = Ca(v)
        \/ \E d \in Coro : l = Ha(d)
        \/ l = Mu
    BY Names
  <2>2. /\ \A v \in Cv : awaiting[v] \in Seq(Coro) /\ cache[v] \in Seq(Coro)
        /\ lockQueue \in Seq(Coro)
    BY DEF TypeOK
  <2>3. \A d \in Coro : InHands(d) \in Seq(Coro)
    BY Parts
  <2>4. QED
    BY <2>1, <2>2, <2>3, ListsAt
<1>3. QED
  BY <1>1, <1>2, Given, Indices DEF In

\* The lists as they were.
LEMMA SameLists ==
  ASSUME ListInv, awaiting' = awaiting, cache' = cache, lockQueue' = lockQueue,
         \A d \in Coro : InHands(d)' = InHands(d)
  PROVE  Effect(NoCoro, NoCoro) /\ Kept(NoCoro, NoCoro)
<1>1. \A l \in ListName : Lists'[l] = Lists[l]
  <2>1. \A l \in ListName : l # Mu /\ l # Mu => Lists'[l] = Lists[l]
    <3>1. OnlyAt(Mu, Mu)
      BY DEF OnlyAt
    <3>2. QED
      BY <3>1, Elsewhere
  <2>2. QED
    BY <2>1, ListsAt, ListsAfter
<1>2. Once(Lists') /\ \A x : On(x, Lists') <=> On(x, Lists)
  BY <1>1 DEF ListInv, Once, On
<1>3. NoCoro \notin Coro
  BY Given
<1>4. QED
  BY <1>2, <1>3 DEF Effect, Kept

\* Waiters go from a to b.
LEMMA Passed ==
  ASSUME TypeOK, ListInv, NEW a \in ListName, NEW b \in ListName, a # b,
         OnlyAt(a, b),
         Distinct(Lists'[a]), Distinct(Lists'[b]), Apart(Lists'[a], Lists'[b]),
         \A x \in Coro : In(x, Lists'[a]) \/ In(x, Lists'[b]) => In(x, Lists[a]) \/ In(x, Lists[b])
  PROVE  /\ Effect(NoCoro, NoCoro)
         /\ (\A x \in Coro : In(x, Lists[a]) \/ In(x, Lists[b])
                             => In(x, Lists'[a]) \/ In(x, Lists'[b])) => Kept(NoCoro, NoCoro)
<1>1. Shift(Lists, Lists', a, b, NoCoro)
  BY Elsewhere DEF Shift
<1>2. Once(Lists) /\ ~On(NoCoro, Lists) /\ NoCoro \notin Coro
  BY NobodyListed, Given DEF ListInv
<1> DEFINE f == Lists
           g == Lists'
<1> HIDE DEF f, g
<1>3. Shift(f, g, a, b, NoCoro) /\ Once(f) /\ ~On(NoCoro, f)
  BY <1>1, <1>2 DEF f, g
<1>4. Once(g) /\ \A x \in Coro : On(x, g) => On(x, f) \/ x = NoCoro
  BY <1>3, Shifted
<1>5. ASSUME \A x \in Coro : In(x, f[a]) \/ In(x, f[b]) => In(x, g[a]) \/ In(x, g[b])
      PROVE  \A x \in Coro : On(x, f) => On(x, g) \/ x = NoCoro
  <2>1. Retains(f, g, a, b, NoCoro)
    BY <1>5 DEF Retains
  <2>2. QED
    BY <1>3, <2>1, NobodyDropped
<1>6. QED
  BY <1>2, <1>4, <1>5 DEF Effect, Kept, f, g

\* n joins a.
LEMMA JoinedOne ==
  ASSUME TypeOK, ListInv, NEW a \in ListName, NEW n \in Coro, ~On(n, Lists),
         OnlyAt(a, a),
         Distinct(Lists'[a]), \A x \in Coro : In(x, Lists'[a]) <=> In(x, Lists[a]) \/ x = n
  PROVE  Effect(n, NoCoro) /\ Kept(n, NoCoro)
<1>1. Shift(Lists, Lists', a, a, n)
  BY Elsewhere DEF Shift
<1>2. Once(Lists) /\ NoCoro \notin Coro
  BY Given DEF ListInv
<1>3. On(n, Lists')
  BY DEF On
<1> DEFINE f == Lists
           g == Lists'
<1> HIDE DEF f, g
<1>4. Shift(f, g, a, a, n) /\ Once(f) /\ ~On(n, f)
  BY <1>1, <1>2 DEF f, g
<1>5. Once(g) /\ \A x \in Coro : On(x, g) => On(x, f) \/ x = n
  BY <1>4, Shifted
<1>6. Retains(f, g, a, a, NoCoro)
  BY DEF f, g, Retains
<1>7. \A x \in Coro : On(x, f) => On(x, g) \/ x = NoCoro
  BY <1>4, <1>6, NobodyDropped
<1>8. QED
  BY <1>2, <1>3, <1>5, <1>7 DEF Effect, Kept, f, g

\* r leaves a.
LEMMA LeftOne ==
  ASSUME TypeOK, ListInv, NEW a \in ListName, NEW r \in Coro,
         OnlyAt(a, a),
         Distinct(Lists'[a]), In(r, Lists[a]),
         \A x \in Coro : In(x, Lists'[a]) <=> In(x, Lists[a]) /\ x # r
  PROVE  Effect(NoCoro, r) /\ Kept(NoCoro, r)
<1>1. Shift(Lists, Lists', a, a, NoCoro)
  BY Elsewhere DEF Shift
<1>2. Once(Lists) /\ ~On(NoCoro, Lists) /\ NoCoro \notin Coro
  BY NobodyListed, Given DEF ListInv
<1>3. ~On(r, Lists')
  <2>1. ASSUME NEW l \in ListName, In(r, Lists'[l])
        PROVE  FALSE
    <3>1. l # a /\ In(r, Lists[l])
      BY <2>1, Elsewhere
    <3>2. Apart(Lists[l], Lists[a])
      BY <1>2, <3>1 DEF Once
    <3>3. QED
      BY <3>1, <3>2 DEF Apart
  <2>2. QED
    BY <2>1 DEF On
<1> DEFINE f == Lists
           g == Lists'
<1> HIDE DEF f, g
<1>4. Shift(f, g, a, a, NoCoro) /\ Once(f) /\ ~On(NoCoro, f)
  BY <1>1, <1>2 DEF f, g
<1>5. Once(g) /\ \A x \in Coro : On(x, g) => On(x, f) \/ x = NoCoro
  BY <1>4, Shifted
<1>6. Retains(f, g, a, a, r)
  BY DEF f, g, Retains
<1>7. \A x \in Coro : On(x, f) => On(x, g) \/ x = r
  BY <1>4, <1>6, NobodyDropped
<1>8. QED
  BY <1>2, <1>3, <1>5, <1>7 DEF Effect, Kept, f, g
\* Each list is one of coroutines, without doubles; and two have nobody in common.
LEMMA ListsTyped ==
  ASSUME TypeOK, ListInv
  PROVE  /\ \A l \in ListName : Lists[l] \in Seq(Coro) /\ Distinct(Lists[l])
         /\ \A l, m \in ListName : l # m => Apart(Lists[l], Lists[m])
         /\ \A l \in ListName, x \in Coro : In(x, Lists[l]) => On(x, Lists) /\ Suspended(x)
<1>1. ASSUME NEW l \in ListName
      PROVE  Lists[l] \in Seq(Coro)
  <2>1. \/ \E v \in Cv : l = Aw(v) \/ l = Ca(v)
        \/ \E d \in Coro : l = Ha(d)
        \/ l = Mu
    BY Names
  <2>2. /\ \A v \in Cv : awaiting[v] \in Seq(Coro) /\ cache[v] \in Seq(Coro)
        /\ lockQueue \in Seq(Coro)
    BY DEF TypeOK
  <2>3. \A d \in Coro : InHands(d) \in Seq(Coro)
    BY Parts
  <2>4. QED
    BY <2>1, <2>2, <2>3, ListsAt
<1>2. /\ \A l \in ListName : Distinct(Lists[l])
      /\ \A l, m \in ListName : l # m => Apart(Lists[l], Lists[m])
  BY DEF ListInv, Once
<1>3. \A l \in ListName, x \in Coro : In(x, Lists[l]) => On(x, Lists)
  BY DEF On
<1>4. \A x \in Coro : On(x, Lists) => Suspended(x)
  BY DEF ListInv
<1>5. QED
  BY <1>1, <1>2, <1>3, <1>4

SameHands == \A d \in Coro : InHands(d)' = InHands(d)

\* unlock, from anywhere.
LEMMA GiveUpLists ==
  ASSUME TypeOK, ListInv, GiveUp, awaiting' = awaiting, cache' = cache, SameHands
  PROVE  \/ /\ owner' = NoCoro /\ lockQueue' = <<>> /\ ready' = ready
            /\ Effect(NoCoro, NoCoro) /\ Kept(NoCoro, NoCoro)
         \/ \E h \in Coro : /\ owner' = h /\ ready' = ready \cup {h} /\ On(h, Lists)
                            /\ Effect(NoCoro, h) /\ Kept(NoCoro, h)
<1>1. CASE lockQueue = <<>> /\ lockQueue' = <<>> /\ owner' = NoCoro /\ ready' = ready
  <2>1. lockQueue' = lockQueue
    BY <1>1
  <2>2. Effect(NoCoro, NoCoro) /\ Kept(NoCoro, NoCoro)
    BY <2>1, SameLists DEF SameHands
  <2>3. QED
    BY <1>1, <2>2
<1>2. CASE /\ lockQueue # <<>> /\ lockQueue' = Tail(lockQueue)
           /\ owner' = Head(lockQueue) /\ ready' = ready \cup {Head(lockQueue)}
  <2> DEFINE h == Head(lockQueue)
  <2>1. Lists[Mu] = lockQueue /\ Lists'[Mu] = Tail(lockQueue) /\ Mu \in ListName
    BY <1>2, ListsAt, ListsAfter, Names
  <2>2. lockQueue \in Seq(Coro) /\ Distinct(lockQueue)
    BY <2>1, ListsTyped
  <2>3. /\ h \in Coro /\ In(h, lockQueue)
        /\ \A x : In(x, lockQueue) <=> x = h \/ In(x, Tail(lockQueue))
        /\ Distinct(Tail(lockQueue)) /\ ~In(h, Tail(lockQueue))
    BY <1>2, <2>2, Taken
  <2>4. OnlyAt(Mu, Mu)
    BY DEF OnlyAt, SameHands
  <2> HIDE DEF h
  <2>5. /\ Distinct(Lists'[Mu]) /\ In(h, Lists[Mu])
        /\ \A x \in Coro : In(x, Lists'[Mu]) <=> In(x, Lists[Mu]) /\ x # h
    BY <2>1, <2>3
  <2>6. Effect(NoCoro, h) /\ Kept(NoCoro, h)
    BY <2>1, <2>3, <2>4, <2>5, LeftOne
  <2>7. On(h, Lists)
    BY <2>1, <2>5 DEF On
  <2>8. QED
    BY <1>2, <2>3, <2>6, <2>7 DEF h
<1>3. QED
  BY <1>1, <1>2, GivenUp

\* The next waiter that c has in hand goes to the mutex.
LEMMA RegisterLists ==
  ASSUME TypeOK, ListInv, NEW c \in Coro, awaiting' = awaiting, cache' = cache,
         \A d \in Coro : d # c => InHands(d)' = InHands(d),
         InHands(c) # <<>>, InHands(c)' = Tail(InHands(c)), Register(Head(InHands(c)))
  PROVE  \/ /\ owner # NoCoro /\ owner' = owner /\ ready' = ready
            /\ Effect(NoCoro, NoCoro) /\ Kept(NoCoro, NoCoro)
         \/ \E w \in Coro : /\ owner = NoCoro /\ owner' = w /\ ready' = ready \cup {w}
                            /\ lockQueue' = lockQueue /\ On(w, Lists)
                            /\ Effect(NoCoro, w) /\ Kept(NoCoro, w)
<1> DEFINE w == Head(InHands(c))
           rest == Tail(InHands(c))
           a == Ha(c)
<1>1. /\ Lists[a] = InHands(c) /\ Lists'[a] = rest /\ a \in ListName
      /\ Lists[Mu] = lockQueue /\ Lists'[Mu] = lockQueue' /\ Mu \in ListName /\ a # Mu
  BY ListsAt, ListsAfter, Names
<1>2. /\ Lists[a] \in Seq(Coro) /\ Distinct(Lists[a])
      /\ lockQueue \in Seq(Coro) /\ Distinct(lockQueue) /\ Apart(Lists[a], lockQueue)
  BY <1>1, ListsTyped
<1>3. /\ w \in Coro /\ rest \in Seq(Coro) /\ In(w, Lists[a])
      /\ \A x : In(x, Lists[a]) <=> x = w \/ In(x, rest)
      /\ Distinct(rest) /\ ~In(w, rest)
  BY <1>1, <1>2, Taken
<1> HIDE DEF w, rest, a
<1>4. On(w, Lists)
  BY <1>1, <1>3 DEF On
<1>5. CASE /\ owner = NoCoro /\ lockQueue = <<>> /\ lockQueue' = lockQueue
           /\ owner' = w /\ ready' = ready \cup {w}
  <2>1. OnlyAt(a, a)
    BY <1>5 DEF OnlyAt, a
  <2>2. Distinct(Lists'[a]) /\ \A x \in Coro : In(x, Lists'[a]) <=> In(x, Lists[a]) /\ x # w
    BY <1>1, <1>3
  <2>3. Effect(NoCoro, w) /\ Kept(NoCoro, w)
    BY <1>1, <1>3, <2>1, <2>2, LeftOne
  <2>4. QED
    BY <1>3, <1>4, <1>5, <2>3
<1>6. CASE /\ owner # NoCoro /\ lockQueue' = Append(lockQueue, w)
           /\ owner' = owner /\ ready' = ready
  <2>1. OnlyAt(a, Mu)
    BY <1>6 DEF OnlyAt, a
  <2>2. ~In(w, lockQueue)
    BY <1>2, <1>3 DEF Apart
  <2>3. /\ Distinct(lockQueue')
        /\ \A x : In(x, lockQueue') <=> x = w \/ In(x, lockQueue)
    BY <1>2, <1>3, <1>6, <2>2, Added
  <2>4. Apart(Lists'[a], Lists'[Mu])
    BY <1>1, <1>2, <1>3, <2>3 DEF Apart
  <2>5. /\ Distinct(Lists'[a]) /\ Distinct(Lists'[Mu])
        /\ \A x \in Coro : In(x, Lists'[a]) \/ In(x, Lists'[Mu]) <=> In(x, Lists[a]) \/ In(x, Lists[Mu])
    BY <1>1, <1>3, <2>3
  <2>6. Effect(NoCoro, NoCoro) /\ Kept(NoCoro, NoCoro)
    BY <1>1, <2>1, <2>4, <2>5, Passed
  <2>7. QED
    BY <1>6, <2>6
<1>7. QED
  BY <1>3, <1>5, <1>6, Registered DEF w

\* A whole list goes into the hands of c.
LEMMA TakeLists ==
  ASSUME TypeOK, ListInv, NEW c \in Coro, NEW a \in ListName, a # Ha(c), OnlyAt(a, Ha(c)),
         Lists[Ha(c)] = <<>>, Lists'[a] = <<>>,
         Lists'[Ha(c)] = Lists[a] \/ Lists'[Ha(c)] = Reverse(Lists[a])
  PROVE  Effect(NoCoro, NoCoro) /\ Kept(NoCoro, NoCoro)
<1> DEFINE b == Ha(c)
           s == Lists[a]
           t == Lists'[b]
<1>1. b \in ListName /\ s \in Seq(Coro) /\ Distinct(s)
  BY Names, ListsTyped
<1>2. Distinct(t) /\ \A x : In(x, t) <=> In(x, s)
  BY <1>1, Reversed, ReversedOnce
<1>3. Distinct(<<>>) /\ \A x : ~In(x, <<>>)
  BY EmptyList
<1>4. /\ Distinct(Lists'[a]) /\ Distinct(Lists'[b]) /\ Apart(Lists'[a], Lists'[b])
      /\ \A x \in Coro : In(x, Lists'[a]) \/ In(x, Lists'[b]) <=> In(x, Lists[a]) \/ In(x, Lists[b])
  BY <1>2, <1>3 DEF Apart
<1> HIDE DEF b, s, t
<1>5. a # b /\ OnlyAt(a, b)
  BY DEF b
<1>6. QED
  BY <1>1, <1>4, <1>5, Passed
(* What each operation does: one of seven things.                           *)

Asleep == {"locking", "unlock", "asleep"}

\* Nothing for the mutex, except that a waiter may join its queue.
QuietDeed(c) ==
    /\ owner' = owner /\ (owner = NoCoro => lockQueue' = lockQueue) /\ ready' = ready
    /\ current[home[c]] = c /\ current' = current /\ at[c] \notin Asleep /\ at'[c] \notin Asleep
    /\ Effect(NoCoro, NoCoro) /\ (OneNotifyingThread => Kept(NoCoro, NoCoro))

\* c begins to run, stops running, or takes the mutex.
StartDeed(c) ==
    /\ owner' = owner /\ lockQueue' = lockQueue
    /\ \/ /\ c \in ready /\ ready' = ready \ {c} /\ at'[c] = "out"
          /\ current[home[c]] = NoCoro /\ current'[home[c]] = c
       \/ /\ ready' = ready \cup {c} /\ at[c] = "out" /\ at'[c] = "out"
          /\ current[home[c]] = c /\ current'[home[c]] = NoCoro
    /\ Effect(NoCoro, NoCoro) /\ Kept(NoCoro, NoCoro)
TakeDeed(c) ==
    /\ owner = NoCoro /\ owner' = c /\ ready' = ready
    /\ current[home[c]] = c /\ current' = current /\ at[c] = "out" /\ at'[c] = "out"
    /\ Effect(NoCoro, NoCoro) /\ Kept(NoCoro, NoCoro)

\* c begins to wait, for the mutex or for a notification.
WaitDeed(c) ==
    /\ owner' = owner /\ owner # NoCoro /\ ready' = ready
    /\ current[home[c]] = c /\ at[c] = "out"
    /\ \/ at'[c] = "locking" /\ current'[home[c]] = NoCoro
       \/ at'[c] = "unlock" /\ current' = current /\ owner = c
    /\ Effect(c, NoCoro) /\ Kept(c, NoCoro)

\* c unlocks, or goes to sleep.
GiveDeed(c) ==
    /\ owner = c /\ current[home[c]] = c
    /\ \/ at[c] = "out" /\ at'[c] = "out" /\ current' = current
       \/ at[c] = "unlock" /\ at'[c] = "asleep" /\ current'[home[c]] = NoCoro
    /\ \/ /\ owner' = NoCoro /\ lockQueue' = <<>> /\ ready' = ready
          /\ Effect(NoCoro, NoCoro) /\ Kept(NoCoro, NoCoro)
       \/ \E h \in Coro : /\ owner' = h /\ ready' = ready \cup {h} /\ On(h, Lists)
                          /\ Effect(NoCoro, h) /\ Kept(NoCoro, h)

\* c gives the mutex to a waiter.
PassDeed(c) ==
    /\ current[home[c]] = c /\ current' = current /\ at[c] \notin Asleep /\ at'[c] \notin Asleep
    /\ \E w \in Coro : /\ owner = NoCoro /\ owner' = w /\ ready' = ready \cup {w}
                       /\ On(w, Lists) /\ Effect(NoCoro, w) /\ Kept(NoCoro, w)

Deed(c) == \/ QuietDeed(c) \/ StartDeed(c) \/ TakeDeed(c) \/ WaitDeed(c) \/ GiveDeed(c)
           \/ PassDeed(c)

CvPremise(c) == TypeOK /\ OpInv /\ MutexInv /\ ListInv /\ KeptInv /\ c \in Coro

\* Outside notify nobody has waiters in hand, and who runs there is on no list.
LEMMA EmptyHands ==
  ASSUME NEW c, CvPremise(c)
  PROVE  /\ at[c] \notin Notifies \ {"exchange"} => hands[c] = <<>> /\ InHands(c) = <<>>
         /\ at[c] \notin Asleep => ~On(c, Lists)
         /\ at[c] \notin {"new next", "cached next"} => InHands(c) = hands[c]
<1>1. at[c] \notin Notifies \ {"exchange"} => hands[c] = <<>>
  BY DEF CvPremise, OpInv
<1>2. On(c, Lists) => at[c] \in Asleep
  BY DEF CvPremise, ListInv, Suspended, Waits, Asleep
<1>3. QED
  BY <1>1, <1>2 DEF InHands, Notifies

LEMMA PlainDeed ==
  ASSUME NEW c, CvPremise(c), Plain(c)
  PROVE  Deed(c)
<1>1. /\ at \in [Coro -> Place] /\ current \in [Ctx -> Coro \cup {NoCoro}]
      /\ home[c] \in Ctx /\ c \in Coro /\ TypeOK /\ ListInv /\ lockQueue \in Seq(Coro)
  BY Given DEF CvPremise, TypeOK
<1>2. \A d \in Coro : d # c => InHands(d)' = InHands(d)
  BY <1>1, ActsLocal, OthersStay DEF Acts
<1>3. at'[c] \in {"out", "locking"} /\ hands' = hands => InHands(c)' = hands[c]
  BY DEF InHands
<1>4. ASSUME Resume(c)
      PROVE  Deed(c)
  <2>1. /\ owner' = owner /\ lockQueue' = lockQueue /\ awaiting' = awaiting /\ cache' = cache
        /\ c \in ready /\ ready' = ready \ {c} /\ at'[c] = "out" /\ hands' = hands
        /\ current[home[c]] = NoCoro /\ current'[home[c]] = c
    BY <1>1, <1>4 DEF Resume, Goto, mutex, lists
  <2>2. at[c] \notin Notifies \cup {"unlock"}
    BY <1>1, <2>1, Given DEF CvPremise, OpInv
  <2>3. SameHands
    BY <1>2, <1>3, <2>1, <2>2, EmptyHands DEF SameHands
  <2>4. QED
    BY <1>1, <2>1, <2>3, SameLists DEF Deed, StartDeed, SameHands
<1>5. ASSUME Yield(c)
      PROVE  Deed(c)
  <2>1. /\ owner' = owner /\ lockQueue' = lockQueue /\ awaiting' = awaiting /\ cache' = cache
        /\ ready' = ready \cup {c} /\ at[c] = "out" /\ at' = at /\ hands' = hands
        /\ current[home[c]] = c /\ current'[home[c]] = NoCoro
    BY <1>1, <1>5 DEF Yield, Idle, Runs, LeaveThread, mutex, lists, op
  <2>2. SameHands
    BY <2>1 DEF SameHands, InHands
  <2>3. QED
    BY <1>1, <2>1, <2>2, SameLists DEF Deed, StartDeed, SameHands
<1>6. ASSUME Lock(c)
      PROVE  Deed(c)
  <2>1. /\ awaiting' = awaiting /\ cache' = cache /\ ready' = ready /\ hands' = hands
        /\ at[c] = "out" /\ current[home[c]] = c
    BY <1>6 DEF Lock, Idle, Runs, lists
  <2>2. InHands(c) = <<>> /\ hands[c] = <<>> /\ ~On(c, Lists)
    BY <2>1, EmptyHands DEF Asleep, Notifies
  <2>3. CASE Mutex!Take(c) /\ UNCHANGED <<at, current>>
    <3>1. SameHands
      BY <2>1, <2>3 DEF SameHands, InHands
    <3>2. owner = NoCoro /\ owner' = c /\ lockQueue' = lockQueue
      BY <2>3 DEF Mutex!Take
    <3>3. QED
      BY <1>1, <2>1, <2>3, <3>1, <3>2, SameLists DEF Deed, TakeDeed, SameHands
  <2>4. CASE Mutex!Join(c) /\ Goto(c, "locking") /\ LeaveThread(c)
    <3>1. /\ owner' = owner /\ owner # NoCoro /\ lockQueue' = Append(lockQueue, c)
          /\ at'[c] = "locking" /\ current'[home[c]] = NoCoro
      BY <1>1, <2>4 DEF Mutex!Join, Goto, LeaveThread
    <3>2. SameHands
      BY <1>2, <1>3, <2>1, <2>2, <3>1 DEF SameHands
    <3>3. OnlyAt(Mu, Mu) /\ Mu \in ListName
      BY <2>1, <3>2, Names DEF OnlyAt, SameHands
    <3>4. /\ Lists[Mu] = lockQueue /\ Lists'[Mu] = Append(lockQueue, c)
          /\ Distinct(lockQueue) /\ ~In(c, lockQueue)
      BY <1>1, <2>2, <3>1, <3>3, ListsAt, ListsAfter, ListsTyped DEF On
    <3>5. /\ Distinct(Lists'[Mu])
          /\ \A x \in Coro : In(x, Lists'[Mu]) <=> In(x, Lists[Mu]) \/ x = c
      <4>1. /\ Distinct(Append(lockQueue, c))
            /\ \A x : In(x, Append(lockQueue, c)) <=> x = c \/ In(x, lockQueue)
        BY <1>1, <3>4, Added
      <4>2. QED
        BY <3>4, <4>1, Zenon
    <3>6. Effect(c, NoCoro) /\ Kept(c, NoCoro)
      BY <1>1, <2>2, <3>3, <3>5, JoinedOne
    <3>7. QED
      BY <2>1, <3>1, <3>6 DEF Deed, WaitDeed
  <2>5. QED
    BY <1>6, <2>3, <2>4 DEF Lock
<1>7. ASSUME Unlock(c)
      PROVE  Deed(c)
  <2>1. /\ awaiting' = awaiting /\ cache' = cache /\ at' = at /\ hands' = hands
        /\ current' = current /\ at[c] = "out" /\ current[home[c]] = c /\ owner = c /\ GiveUp
    BY <1>7 DEF Unlock, Idle, Runs, lists, op
  <2>2. SameHands
    BY <2>1 DEF SameHands, InHands
  <2>3. \/ /\ owner' = NoCoro /\ lockQueue' = <<>> /\ ready' = ready
           /\ Effect(NoCoro, NoCoro) /\ Kept(NoCoro, NoCoro)
        \/ \E h \in Coro : /\ owner' = h /\ ready' = ready \cup {h} /\ On(h, Lists)
                           /\ Effect(NoCoro, h) /\ Kept(NoCoro, h)
    BY <1>1, <2>1, <2>2, GiveUpLists
  <2>4. QED
    BY <2>1, <2>3 DEF Deed, GiveDeed
<1>8. QED
  BY <1>4, <1>5, <1>6, <1>7 DEF Plain

LEMMA WaitingDeed ==
  ASSUME NEW c, CvPremise(c), Waiting(c)
  PROVE  Deed(c)
<1>1. /\ at \in [Coro -> Place] /\ current \in [Ctx -> Coro \cup {NoCoro}]
      /\ home[c] \in Ctx /\ c \in Coro /\ TypeOK /\ ListInv /\ c # NoCoro
      /\ awaiting \in [Cv -> Seq(Coro)]
  BY Given DEF CvPremise, TypeOK
<1>2. \A d \in Coro : d # c => InHands(d)' = InHands(d)
  BY <1>1, ActsLocal, OthersStay DEF Acts
<1>3. at'[c] \in {"unlock", "asleep"} /\ hands' = hands => InHands(c)' = hands[c]
  BY DEF InHands
<1>4. ASSUME NEW v \in Cv, owner = c, Wait(c, v)
      PROVE  Deed(c)
  <2>1. /\ owner' = owner /\ lockQueue' = lockQueue /\ cache' = cache
        /\ awaiting' = [awaiting EXCEPT ![v] = <<c>> \o awaiting[v]]
        /\ ready' = ready /\ hands' = hands /\ current' = current
        /\ at[c] = "out" /\ at'[c] = "unlock" /\ current[home[c]] = c
    BY <1>1, <1>4 DEF Wait, Idle, Runs, Goto, mutex
  <2>2. InHands(c) = <<>> /\ hands[c] = <<>> /\ ~On(c, Lists)
    BY <2>1, EmptyHands DEF Asleep, Notifies
  <2>3. SameHands
    BY <1>2, <1>3, <2>1, <2>2 DEF SameHands
  <2> DEFINE a == Aw(v)
  <2>4. a \in ListName /\ OnlyAt(a, a)
    <3>1. \A u \in Cv : Aw(u) # a => awaiting'[u] = awaiting[u]
      BY <1>1, <2>1
    <3>2. QED
      BY <2>1, <2>3, <3>1, Names DEF OnlyAt, SameHands
  <2>5. /\ Lists[a] = awaiting[v] /\ Lists'[a] = <<c>> \o awaiting[v]
        /\ awaiting[v] \in Seq(Coro) /\ Distinct(awaiting[v]) /\ ~In(c, awaiting[v])
    <3>1. Lists[a] = awaiting[v] /\ Lists'[a] = awaiting'[v]
      BY ListsAt, ListsAfter
    <3>2. awaiting'[v] = <<c>> \o awaiting[v] /\ awaiting[v] \in Seq(Coro)
      BY <1>1, <2>1
    <3>3. Distinct(Lists[a]) /\ ~In(c, Lists[a])
      BY <1>1, <2>2, <2>4, ListsTyped DEF On
    <3>4. QED
      BY <3>1, <3>2, <3>3
  <2> HIDE DEF a
  <2>6. /\ Distinct(Lists'[a])
        /\ \A x \in Coro : In(x, Lists'[a]) <=> In(x, Lists[a]) \/ x = c
    BY <1>1, <2>5, Added
  <2>7. Effect(c, NoCoro) /\ Kept(c, NoCoro)
    BY <1>1, <2>2, <2>4, <2>6, JoinedOne
  <2>8. QED
    BY <1>1, <1>4, <2>1, <2>7 DEF Deed, WaitDeed
<1>5. ASSUME UnlockAhead(c)
      PROVE  Deed(c)
  <2>1. /\ awaiting' = awaiting /\ cache' = cache /\ hands' = hands
        /\ at[c] = "unlock" /\ at'[c] = "asleep"
        /\ current[home[c]] = c /\ current'[home[c]] = NoCoro /\ GiveUp
    BY <1>1, <1>5 DEF UnlockAhead, Runs, Goto, LeaveThread, lists
  <2>2. InHands(c) = <<>> /\ hands[c] = <<>> /\ owner = c
    BY <1>1, <2>1, EmptyHands DEF CvPremise, MutexInv, Notifies
  <2>3. SameHands
    BY <1>2, <1>3, <2>1, <2>2 DEF SameHands
  <2>4. \/ /\ owner' = NoCoro /\ lockQueue' = <<>> /\ ready' = ready
           /\ Effect(NoCoro, NoCoro) /\ Kept(NoCoro, NoCoro)
        \/ \E h \in Coro : /\ owner' = h /\ ready' = ready \cup {h} /\ On(h, Lists)
                           /\ Effect(NoCoro, h) /\ Kept(NoCoro, h)
    BY <1>1, <2>1, <2>3, GiveUpLists
  <2>5. QED
    BY <2>1, <2>2, <2>4 DEF Deed, GiveDeed
<1>6. QED
  BY <1>4, <1>5 DEF Waiting
LEMMA OneDeed ==
  ASSUME NEW c, CvPremise(c), One(c)
  PROVE  Deed(c)
<1>1. /\ at \in [Coro -> Place] /\ on \in [Coro -> Cv] /\ hands \in [Coro -> Seq(Coro)]
      /\ awaiting \in [Cv -> Seq(Coro)] /\ cache \in [Cv -> Seq(Coro)]
      /\ c \in Coro /\ TypeOK /\ ListInv
  BY DEF CvPremise, TypeOK
<1>2. \A d \in Coro : d # c => InHands(d)' = InHands(d)
  BY <1>1, ActsLocal, OthersStay DEF Acts
<1>3. at'[c] \notin {"new next", "cached next"} => InHands(c)' = hands'[c]
  BY DEF InHands
<1>4. Ha(c) \in ListName /\ Lists[Ha(c)] = InHands(c) /\ Lists'[Ha(c)] = InHands(c)'
  BY <1>1, Names, ListsAt, ListsAfter
<1>5. ASSUME NEW v \in Cv, NotifyOne(c, v)
      PROVE  Deed(c)
  <2>1. /\ owner' = owner /\ lockQueue' = lockQueue /\ awaiting' = awaiting
        /\ ready' = ready /\ current' = current
        /\ at[c] = "out" /\ current[home[c]] = c
    BY <1>5 DEF NotifyOne, Idle, Runs, mutex
  <2>2. InHands(c) = <<>> /\ hands[c] = <<>>
    BY <2>1, EmptyHands DEF Notifies
  <2>3. CASE at'[c] = "exchange" /\ cache' = cache /\ hands' = hands
    <3>1. SameHands
      BY <1>2, <1>3, <2>2, <2>3 DEF SameHands
    <3>2. QED
      BY <1>1, <2>1, <2>3, <3>1, SameLists DEF Deed, QuietDeed, SameHands, Asleep
  <2>4. CASE /\ at'[c] = "register" /\ cache[v] # <<>> /\ hands'[c] = <<Head(cache[v])>>
             /\ cache' = [cache EXCEPT ![v] = Tail(cache[v])]
    <3> DEFINE a == Ca(v)
               b == Ha(c)
               h == Head(cache[v])
               rest == Tail(cache[v])
    <3>1. /\ a \in ListName /\ b \in ListName /\ a # b
          /\ Lists[a] = cache[v] /\ Lists'[a] = rest
          /\ Lists[b] = <<>> /\ Lists'[b] = <<h>>
      <4>1. cache'[v] = rest
        BY <1>1, <2>4
      <4>2. a \in ListName /\ a # b
        BY Names
      <4>3. Lists[a] = cache[v] /\ Lists'[a] = cache'[v]
        BY ListsAt, ListsAfter
      <4>4. QED
        BY <1>3, <1>4, <2>2, <2>4, <4>1, <4>2, <4>3
    <3>2. OnlyAt(a, b)
      <4>1. \A u \in Cv : Ca(u) # a => cache'[u] = cache[u]
        BY <1>1, <2>4
      <4>2. \A d \in Coro : Ha(d) # b => InHands(d)' = InHands(d)
        BY <1>2
      <4>3. QED
        BY <2>1, <4>1, <4>2 DEF OnlyAt
    <3>3. Lists[a] \in Seq(Coro) /\ Distinct(Lists[a])
      BY <1>1, <3>1, ListsTyped
    <3>4. /\ h \in Coro /\ \A x : In(x, Lists[a]) <=> x = h \/ In(x, rest)
          /\ Distinct(rest) /\ ~In(h, rest)
      BY <2>4, <3>1, <3>3, Taken
    <3>5. /\ Distinct(<<h>>) /\ \A x : In(x, <<h>>) <=> x = h
          /\ \A x : ~In(x, <<>>)
      BY <3>4, Single, EmptyList
    <3> HIDE DEF a, b, h, rest
    <3>6. Distinct(Lists'[a]) /\ Distinct(Lists'[b]) /\ Apart(Lists'[a], Lists'[b])
      BY <3>1, <3>4, <3>5 DEF Apart
    <3>7. \A x \in Coro : In(x, Lists'[a]) \/ In(x, Lists'[b]) <=> In(x, Lists[a]) \/ In(x, Lists[b])
      BY <3>1, <3>4, <3>5
    <3>8. Effect(NoCoro, NoCoro) /\ Kept(NoCoro, NoCoro)
      BY <1>1, <3>1, <3>2, <3>6, <3>7, Passed
    <3>9. QED
      BY <2>1, <2>4, <3>8 DEF Deed, QuietDeed, Asleep
  <2>5. QED
    BY <1>1, <1>5, <2>3, <2>4 DEF NotifyOne, Goto
<1>6. ASSUME Exchange(c)
      PROVE  Deed(c)
  <2> DEFINE v == on[c]
             a == Aw(v)
  <2>1. /\ owner' = owner /\ lockQueue' = lockQueue /\ cache' = cache
        /\ awaiting' = [awaiting EXCEPT ![v] = <<>>] /\ hands'[c] = Reverse(awaiting[v])
        /\ ready' = ready /\ current' = current /\ v \in Cv
        /\ at[c] = "exchange" /\ at'[c] \in {"out", "store"} /\ current[home[c]] = c
    BY <1>1, <1>6 DEF Exchange, Runs, Goto, mutex
  <2>2. InHands(c) = <<>>
    BY <2>1, EmptyHands DEF Notifies
  <2>3. /\ a \in ListName /\ a # Ha(c) /\ Lists[a] = awaiting[v] /\ Lists'[a] = <<>>
    <3>1. awaiting'[v] = <<>>
      BY <1>1, <2>1
    <3>2. QED
      BY <2>1, <3>1, Names, ListsAt, ListsAfter
  <2>4. OnlyAt(a, Ha(c))
    <3>1. \A u \in Cv : Aw(u) # a => awaiting'[u] = awaiting[u]
      BY <1>1, <2>1
    <3>2. \A d \in Coro : Ha(d) # Ha(c) => InHands(d)' = InHands(d)
      BY <1>2
    <3>3. QED
      BY <2>1, <3>1, <3>2 DEF OnlyAt
  <2>5. Lists[Ha(c)] = <<>> /\ Lists'[Ha(c)] = Reverse(Lists[a])
    BY <1>3, <1>4, <2>1, <2>2, <2>3
  <2> HIDE DEF a
  <2>6. Effect(NoCoro, NoCoro) /\ Kept(NoCoro, NoCoro)
    BY <1>1, <2>3, <2>4, <2>5, TakeLists
  <2>7. QED
    BY <2>1, <2>6 DEF Deed, QuietDeed, Asleep
<1>7. ASSUME Store(c)
      PROVE  Deed(c)
  <2> DEFINE v == on[c]
             h == Head(hands[c])
             rest == Tail(hands[c])
             k == Head(cache[v])
             linked == IF tail[v] = Last(cache[v]) THEN Append(cache[v], h) ELSE cache[v]
             a == Ha(c)
             b == Ca(v)
  <2>1. /\ owner' = owner /\ lockQueue' = lockQueue /\ awaiting' = awaiting
        /\ ready' = ready /\ current' = current /\ v \in Cv
        /\ at[c] = "store" /\ at'[c] = "register" /\ current[home[c]] = c
        /\ hands[c] # <<>> /\ hands[c] \in Seq(Coro) /\ cache[v] \in Seq(Coro)
    <3>1. at[c] = "store" => hands[c] # <<>>
      BY <1>1 DEF TypeOK
    <3>2. QED
      BY <1>1, <1>7, <3>1 DEF Store, Runs, Goto, mutex
  <2>2. \/ cache[v] = <<>> /\ cache' = [cache EXCEPT ![v] = rest] /\ hands'[c] = <<h>>
        \/ cache[v] # <<>> /\ cache' = [cache EXCEPT ![v] = Tail(linked)] /\ hands'[c] = <<k>>
    BY <1>1, <1>7 DEF Store
  <2>3. /\ a \in ListName /\ b \in ListName /\ a # b
        /\ Lists[a] = hands[c] /\ Lists[b] = cache[v]
        /\ Lists'[a] = hands'[c] /\ Lists'[b] = cache'[v]
    <3>1. InHands(c) = hands[c] /\ InHands(c)' = hands'[c]
      BY <1>3, <2>1 DEF InHands
    <3>2. QED
      BY <1>4, <2>1, <3>1, Names, ListsAt, ListsAfter
  <2>4. OnlyAt(a, b)
    <3>1. \A u \in Cv : Ca(u) # b => cache'[u] = cache[u]
      BY <1>1, <2>2
    <3>2. \A d \in Coro : Ha(d) # a => InHands(d)' = InHands(d)
      BY <1>2
    <3>3. QED
      BY <2>1, <3>1, <3>2 DEF OnlyAt
  <2>5. /\ h \in Coro /\ rest \in Seq(Coro) /\ Distinct(rest) /\ ~In(h, rest)
        /\ \A x : In(x, hands[c]) <=> x = h \/ In(x, rest)
    <3>1. Distinct(hands[c])
      BY <1>1, <2>3, ListsTyped
    <3>2. QED
      BY <2>1, <3>1, Taken
  <2>6. \A x \in Coro : Distinct(<<x>>) /\ \A y : In(y, <<x>>) <=> y = x
    BY Single
  <2>7. Distinct(cache[v]) /\ Apart(hands[c], cache[v])
    BY <1>1, <2>3, ListsTyped
  <2>8. CASE cache[v] = <<>> /\ cache' = [cache EXCEPT ![v] = rest] /\ hands'[c] = <<h>>
    <3>1. Lists'[a] = <<h>> /\ Lists'[b] = rest /\ Lists[b] = <<>>
      BY <1>1, <2>1, <2>3, <2>8
    <3>2. \A x : ~In(x, <<>>)
      BY EmptyList
    <3> HIDE DEF a, b, h, rest, v
    <3>3. Distinct(Lists'[a]) /\ Distinct(Lists'[b]) /\ Apart(Lists'[a], Lists'[b])
      BY <2>5, <2>6, <3>1 DEF Apart
    <3>4. \A x \in Coro : In(x, Lists'[a]) \/ In(x, Lists'[b]) <=> In(x, Lists[a]) \/ In(x, Lists[b])
      BY <2>3, <2>5, <2>6, <3>1, <3>2
    <3>5. Effect(NoCoro, NoCoro) /\ Kept(NoCoro, NoCoro)
      BY <1>1, <2>3, <2>4, <3>3, <3>4, Passed
    <3>6. QED
      BY <2>1, <3>5 DEF Deed, QuietDeed, Asleep
  <2>9. CASE /\ cache[v] # <<>> /\ cache' = [cache EXCEPT ![v] = Tail(linked)]
             /\ hands'[c] = <<k>>
    <3>1. Lists'[a] = <<k>> /\ Lists'[b] = Tail(linked)
      BY <1>1, <2>1, <2>3, <2>9
    <3>2. k \in Coro /\ In(k, cache[v])
      BY <2>1, <2>9, Taken
    <3>3. /\ linked \in Seq(Coro) /\ linked # <<>> /\ Head(linked) = k /\ Distinct(linked)
          /\ \A x : In(x, linked) => x = h \/ In(x, cache[v])
      <4>1. ~In(h, cache[v]) /\ h \in Coro
        BY <2>5, <2>7 DEF Apart
      <4> HIDE DEF h, v
      <4> DEFINE s == cache[v]
                 t == Append(s, h)
      <4>2. /\ t \in Seq(Coro) /\ Distinct(t)
            /\ \A x : In(x, t) <=> x = h \/ In(x, s)
        BY <2>1, <2>7, <4>1, Added
      <4>3. Len(s) \in Nat \ {0} /\ s[1] = Head(s)
        BY <2>1, <2>9, EmptySeq
      <4>4. t # <<>> /\ Head(t) = Head(s)
        <5>1. Len(t) = Len(s) + 1 /\ \A i \in 1..Len(s) : t[i] = s[i]
          BY <2>1, <4>1, AppendProperties
        <5> HIDE DEF t, s
        <5>2. Len(t) # 0 /\ t[1] = s[1]
          BY <4>3, <5>1
        <5>3. QED
          BY <4>2, <4>3, <5>2, EmptySeq
      <4>5. QED
        BY <2>1, <2>7, <2>9, <4>2, <4>4 DEF k
    <3> HIDE DEF a, b, h, rest, v, k, linked
    <3>4. /\ Tail(linked) \in Seq(Coro) /\ Distinct(Tail(linked)) /\ ~In(k, Tail(linked))
          /\ \A x : In(x, linked) <=> x = k \/ In(x, Tail(linked))
      BY <3>3, Taken
    <3>5. Distinct(Lists'[a]) /\ Distinct(Lists'[b]) /\ Apart(Lists'[a], Lists'[b])
      BY <2>6, <3>1, <3>2, <3>4 DEF Apart
    <3>6. \A x \in Coro : In(x, Lists'[a]) \/ In(x, Lists'[b]) => In(x, Lists[a]) \/ In(x, Lists[b])
      BY <2>3, <2>5, <2>6, <3>1, <3>2, <3>3, <3>4
    <3>7. Effect(NoCoro, NoCoro)
      BY <1>1, <2>3, <2>4, <3>5, <3>6, Passed
    <3>8. ~OneNotifyingThread
      BY <1>1, <2>1, <2>9 DEF CvPremise, KeptInv, v
    <3>9. QED
      BY <2>1, <3>7, <3>8 DEF Deed, QuietDeed, Asleep
  <2>10. QED
    BY <2>2, <2>8, <2>9
<1>8. ASSUME RegisterOne(c)
      PROVE  Deed(c)
  <2>1. /\ awaiting' = awaiting /\ cache' = cache /\ current' = current
        /\ at[c] = "register" /\ at'[c] = "out" /\ current[home[c]] = c
        /\ hands'[c] = <<>> /\ Register(Head(hands[c]))
    BY <1>1, <1>8 DEF RegisterOne, Runs, Goto, lists
  <2>2. hands[c] # <<>> /\ Tail(hands[c]) = <<>> /\ InHands(c) = hands[c]
    <3>1. hands[c] # <<>> /\ hands[c] \in Seq(Coro) /\ Len(hands[c]) = 1
      BY <1>1, <2>1 DEF TypeOK, CvPremise, OpInv
    <3>2. Tail(hands[c]) = <<>>
      BY <3>1, Taken
    <3>3. QED
      BY <2>1, <3>1, <3>2 DEF InHands
  <2>3. InHands(c)' = Tail(InHands(c))
    BY <1>3, <2>1, <2>2
  <2>4. \/ /\ owner # NoCoro /\ owner' = owner /\ ready' = ready
           /\ Effect(NoCoro, NoCoro) /\ Kept(NoCoro, NoCoro)
        \/ \E w \in Coro : /\ owner = NoCoro /\ owner' = w /\ ready' = ready \cup {w}
                           /\ lockQueue' = lockQueue /\ On(w, Lists)
                           /\ Effect(NoCoro, w) /\ Kept(NoCoro, w)
    BY <1>1, <1>2, <2>1, <2>2, <2>3, RegisterLists
  <2>5. QED
    BY <2>1, <2>4 DEF Deed, QuietDeed, PassDeed, Asleep
<1>9. QED
  BY <1>5, <1>6, <1>7, <1>8 DEF One
LEMMA AllDeed ==
  ASSUME NEW c, CvPremise(c), All(c)
  PROVE  Deed(c)
<1>1. /\ at \in [Coro -> Place] /\ on \in [Coro -> Cv] /\ hands \in [Coro -> Seq(Coro)]
      /\ awaiting \in [Cv -> Seq(Coro)] /\ cache \in [Cv -> Seq(Coro)]
      /\ c \in Coro /\ TypeOK /\ ListInv
  BY DEF CvPremise, TypeOK
<1>2. \A d \in Coro : d # c => InHands(d)' = InHands(d)
  BY <1>1, ActsLocal, OthersStay DEF Acts
<1>3. at'[c] \notin {"new next", "cached next"} => InHands(c)' = hands'[c]
  BY DEF InHands
<1>4. Ha(c) \in ListName /\ Lists[Ha(c)] = InHands(c) /\ Lists'[Ha(c)] = InHands(c)'
  BY <1>1, Names, ListsAt, ListsAfter
<1>5. ASSUME NEW v \in Cv, NotifyAll(c, v)
      PROVE  Deed(c)
  <2> DEFINE a == Aw(v)
  <2>1. /\ owner' = owner /\ lockQueue' = lockQueue /\ cache' = cache
        /\ awaiting' = [awaiting EXCEPT ![v] = <<>>] /\ hands'[c] = awaiting[v]
        /\ ready' = ready /\ current' = current
        /\ at[c] = "out" /\ at'[c] = "new" /\ current[home[c]] = c
    BY <1>1, <1>5 DEF NotifyAll, Idle, Runs, Goto, mutex
  <2>2. InHands(c) = <<>>
    BY <2>1, EmptyHands DEF Notifies
  <2>3. /\ a \in ListName /\ a # Ha(c) /\ Lists[a] = awaiting[v] /\ Lists'[a] = <<>>
    <3>1. awaiting'[v] = <<>>
      BY <1>1, <2>1
    <3>2. a \in ListName /\ a # Ha(c)
      BY Names
    <3>3. QED
      BY <3>1, <3>2, ListsAt, ListsAfter
  <2>4. OnlyAt(a, Ha(c))
    <3>1. \A u \in Cv : Aw(u) # a => awaiting'[u] = awaiting[u]
      BY <1>1, <2>1
    <3>2. \A d \in Coro : Ha(d) # Ha(c) => InHands(d)' = InHands(d)
      BY <1>2
    <3>3. QED
      BY <2>1, <3>1, <3>2 DEF OnlyAt
  <2>5. Lists[Ha(c)] = <<>> /\ Lists'[Ha(c)] = Lists[a]
    BY <1>3, <1>4, <2>1, <2>2, <2>3
  <2> HIDE DEF a
  <2>6. Effect(NoCoro, NoCoro) /\ Kept(NoCoro, NoCoro)
    BY <1>1, <2>3, <2>4, <2>5, TakeLists
  <2>7. QED
    BY <2>1, <2>6 DEF Deed, QuietDeed, Asleep
<1>6. ASSUME RegisterNext(c)
      PROVE  Deed(c)
  <2>1. /\ awaiting' = awaiting /\ cache' = cache /\ current' = current /\ hands' = hands
        /\ at[c] \in {"new", "cached"} /\ at'[c] \in {"new next", "cached next"}
        /\ current[home[c]] = c
        /\ hands[c] # <<>> /\ Register(Head(hands[c]))
    BY <1>1, <1>6 DEF RegisterNext, Runs, Goto, lists
  <2>2. InHands(c) = hands[c] /\ InHands(c)' = Tail(InHands(c))
    BY <2>1 DEF InHands
  <2>3. \/ /\ owner # NoCoro /\ owner' = owner /\ ready' = ready
           /\ Effect(NoCoro, NoCoro) /\ Kept(NoCoro, NoCoro)
        \/ \E w \in Coro : /\ owner = NoCoro /\ owner' = w /\ ready' = ready \cup {w}
                           /\ lockQueue' = lockQueue /\ On(w, Lists)
                           /\ Effect(NoCoro, w) /\ Kept(NoCoro, w)
    BY <1>1, <1>2, <2>1, <2>2, RegisterLists
  <2>4. QED
    BY <2>1, <2>3 DEF Deed, QuietDeed, PassDeed, Asleep
<1>7. ASSUME Advance(c)
      PROVE  Deed(c)
  <2>1. /\ owner' = owner /\ lockQueue' = lockQueue /\ awaiting' = awaiting /\ cache' = cache
        /\ ready' = ready /\ current' = current
        /\ at[c] \in {"new next", "cached next"} /\ at'[c] \in {"new", "cached"}
        /\ current[home[c]] = c /\ hands'[c] = Tail(hands[c])
    BY <1>1, <1>7 DEF Advance, Runs, Goto, mutex, lists
  <2>2. InHands(c)' = InHands(c)
    BY <2>1 DEF InHands
  <2>3. SameHands
    BY <1>2, <2>2 DEF SameHands
  <2>4. QED
    BY <1>1, <2>1, <2>3, SameLists DEF Deed, QuietDeed, SameHands, Asleep
<1>8. ASSUME TakeCache(c)
      PROVE  Deed(c)
  <2> DEFINE v == on[c]
             a == Ca(v)
  <2>1. /\ owner' = owner /\ lockQueue' = lockQueue /\ awaiting' = awaiting
        /\ cache' = [cache EXCEPT ![v] = <<>>] /\ hands'[c] = cache[v]
        /\ ready' = ready /\ current' = current /\ v \in Cv /\ hands[c] = <<>>
        /\ at[c] = "new" /\ at'[c] = "cached" /\ current[home[c]] = c
    BY <1>1, <1>8 DEF TakeCache, Runs, Goto, mutex
  <2>2. InHands(c) = <<>>
    BY <2>1 DEF InHands
  <2>3. /\ a \in ListName /\ a # Ha(c) /\ Lists[a] = cache[v] /\ Lists'[a] = <<>>
    <3>1. cache'[v] = <<>>
      BY <1>1, <2>1
    <3>2. a \in ListName /\ a # Ha(c)
      BY <2>1, Names
    <3>3. QED
      BY <2>1, <3>1, <3>2, ListsAt, ListsAfter
  <2>4. OnlyAt(a, Ha(c))
    <3>1. \A u \in Cv : Ca(u) # a => cache'[u] = cache[u]
      BY <1>1, <2>1
    <3>2. \A d \in Coro : Ha(d) # Ha(c) => InHands(d)' = InHands(d)
      BY <1>2
    <3>3. QED
      BY <2>1, <3>1, <3>2 DEF OnlyAt
  <2>5. Lists[Ha(c)] = <<>> /\ Lists'[Ha(c)] = Lists[a]
    BY <1>3, <1>4, <2>1, <2>2, <2>3
  <2> HIDE DEF a
  <2>6. Effect(NoCoro, NoCoro) /\ Kept(NoCoro, NoCoro)
    BY <1>1, <2>3, <2>4, <2>5, TakeLists
  <2>7. QED
    BY <2>1, <2>6 DEF Deed, QuietDeed, Asleep
<1>9. ASSUME AllNotified(c)
      PROVE  Deed(c)
  <2>1. /\ owner' = owner /\ lockQueue' = lockQueue /\ awaiting' = awaiting /\ cache' = cache
        /\ ready' = ready /\ current' = current /\ hands' = hands
        /\ at[c] = "cached" /\ at'[c] = "out" /\ current[home[c]] = c
    BY <1>1, <1>9 DEF AllNotified, Runs, Goto, mutex, lists
  <2>2. InHands(c)' = InHands(c)
    BY <2>1 DEF InHands
  <2>3. SameHands
    BY <1>2, <2>2 DEF SameHands
  <2>4. QED
    BY <1>1, <2>1, <2>3, SameLists DEF Deed, QuietDeed, SameHands, Asleep
<1>10. QED
  BY <1>5, <1>6, <1>7, <1>8, <1>9 DEF All

LEMMA DeedOf == ASSUME NEW c, CvPremise(c), Acts(c) PROVE Deed(c)
  BY PlainDeed, WaitingDeed, OneDeed, AllDeed DEF Acts
-----------------------------------------------------------------------------
(* The mutex, and who waits.                                                *)

\* Who waits is who is on a list, as long as that is so.
LEMMA StepMutex ==
  ASSUME NEW c, CvPremise(c), Acts(c)
  PROVE  MutexInv'
<1>1. /\ \A d \in Coro : d # c => at'[d] = at[d]
      /\ \A d \in Coro : d # c => (current'[home[d]] = d <=> current[home[d]] = d)
      /\ c \in Coro /\ c # NoCoro
  BY ActsLocal, OthersStay, OthersRun, Given DEF CvPremise
<1>2. /\ owner = NoCoro => lockQueue = <<>>
      /\ \A d \in Coro : at[d] = "unlock" => owner = d /\ d \notin ready
      /\ \A d \in ready : current[home[d]] # d
      /\ \A d \in Coro : current[home[d]] = d => at[d] \notin {"locking", "asleep"}
      /\ \A d \in ready : at[d] \in Asleep => owner = d
      /\ ready \subseteq Coro /\ NoCoro \notin Coro
  BY Given DEF CvPremise, TypeOK, MutexInv, ReturnsWithMutex, Asleep
<1>3. \A d \in Coro : On(d, Lists) => at[d] \in Asleep /\ d \notin ready
  BY DEF CvPremise, ListInv, Suspended, Waits, Asleep
<1>4. at[c] = "unlock" => current[home[c]] = c
  BY DEF CvPremise, OpInv
<1>5. SUFFICES /\ owner' = NoCoro => lockQueue' = <<>>
               /\ \A d \in Coro : at'[d] = "unlock" => owner' = d /\ d \notin ready'
               /\ \A d \in ready' : current'[home[d]] # d
               /\ \A d \in Coro : current'[home[d]] = d => at'[d] \notin {"locking", "asleep"}
               /\ \A d \in ready' : at'[d] \in Asleep => owner' = d
  BY DEF MutexInv, ReturnsWithMutex, Asleep
<1>6. CASE QuietDeed(c)
  BY <1>1, <1>2, <1>6, Zenon DEF QuietDeed, Asleep
<1>7. CASE StartDeed(c)
  BY <1>1, <1>2, <1>4, <1>7 DEF StartDeed, Asleep
<1>8. CASE TakeDeed(c)
  BY <1>1, <1>2, <1>8 DEF TakeDeed, Asleep
<1>9. CASE WaitDeed(c)
  BY <1>1, <1>2, <1>9 DEF WaitDeed, Asleep
<1>10. CASE GiveDeed(c)
  BY <1>1, <1>2, <1>3, <1>10 DEF GiveDeed, Asleep
<1>11. CASE PassDeed(c)
  BY <1>1, <1>2, <1>3, <1>11 DEF PassDeed, Asleep
<1>12. QED
  BY <1>6, <1>7, <1>8, <1>9, <1>10, <1>11, DeedOf DEF Deed

\* A step that lists n and takes r from the lists makes n wait, and r go on.
Sleeps(n, r) == \A x \in Coro : Suspended(x)' <=> (Suspended(x) /\ x # r) \/ x = n

LEMMA StepSleeps ==
  ASSUME NEW c, CvPremise(c), Acts(c)
  PROVE  \E n, r \in Coro \cup {NoCoro} :
            /\ Sleeps(n, r) /\ Effect(n, r)
            /\ OneNotifyingThread => Kept(n, r)
<1>1. /\ \A d \in Coro : d # c => at'[d] = at[d]
      /\ c \in Coro /\ c # NoCoro
  BY ActsLocal, OthersStay, Given DEF CvPremise
<1>2. /\ \A d \in Coro : at[d] = "unlock" => owner = d /\ d \notin ready
      /\ \A d \in ready : current[home[d]] # d
      /\ \A d \in Coro : current[home[d]] = d => at[d] \notin {"locking", "asleep"}
      /\ ready \subseteq Coro /\ NoCoro \notin Coro
  BY Given DEF CvPremise, TypeOK, MutexInv
<1>3. \A d \in Coro : /\ Suspended(d) <=> at[d] \in Asleep /\ d \notin ready
                      /\ Suspended(d)' <=> at'[d] \in Asleep /\ d \notin ready'
                      /\ On(d, Lists) => Suspended(d)
  BY DEF CvPremise, ListInv, Suspended, Waits, Asleep
<1>4. at[c] \notin Notifies \cup {"unlock"} \/ current[home[c]] = c
  BY DEF CvPremise, OpInv
<1>5. CASE QuietDeed(c)
  <2>1. Sleeps(NoCoro, NoCoro)
    BY <1>1, <1>2, <1>3, <1>5 DEF QuietDeed, Sleeps, Asleep
  <2>2. QED
    BY <1>5, <2>1 DEF QuietDeed
<1>6. CASE StartDeed(c)
  <2>1. Sleeps(NoCoro, NoCoro)
    BY <1>1, <1>2, <1>3, <1>6 DEF StartDeed, Sleeps, Asleep
  <2>2. QED
    BY <1>6, <2>1 DEF StartDeed
<1>7. CASE TakeDeed(c)
  <2>1. Sleeps(NoCoro, NoCoro)
    BY <1>1, <1>2, <1>3, <1>7 DEF TakeDeed, Sleeps, Asleep
  <2>2. QED
    BY <1>7, <2>1 DEF TakeDeed
<1>8. CASE WaitDeed(c)
  <2>1. Sleeps(c, NoCoro)
    BY <1>1, <1>2, <1>3, <1>8 DEF WaitDeed, Sleeps, Asleep
  <2>2. QED
    BY <1>1, <1>8, <2>1 DEF WaitDeed
<1>9. CASE GiveDeed(c)
  <2>1. CASE owner' = NoCoro /\ ready' = ready /\ Effect(NoCoro, NoCoro) /\ Kept(NoCoro, NoCoro)
    <3>1. Sleeps(NoCoro, NoCoro)
      BY <1>1, <1>2, <1>3, <1>9, <2>1 DEF GiveDeed, Sleeps, Asleep
    <3>2. QED
      BY <2>1, <3>1
  <2>2. ASSUME NEW h \in Coro, ready' = ready \cup {h}, Effect(NoCoro, h), Kept(NoCoro, h)
        PROVE  Sleeps(NoCoro, h)
    BY <1>1, <1>2, <1>3, <1>9, <2>2 DEF GiveDeed, Sleeps, Asleep
  <2>3. QED
    BY <1>9, <2>1, <2>2 DEF GiveDeed
<1>10. CASE PassDeed(c)
  <2>1. ASSUME NEW w \in Coro, ready' = ready \cup {w}
        PROVE  Sleeps(NoCoro, w)
    BY <1>1, <1>2, <1>3, <1>10, <2>1 DEF PassDeed, Sleeps, Asleep
  <2>2. QED
    BY <1>10, <2>1 DEF PassDeed
<1>11. QED
  BY <1>5, <1>6, <1>7, <1>8, <1>9, <1>10, DeedOf DEF Deed

\* So everyone on a list waits, and with one notifying thread also the reverse.
LEMMA StepListed ==
  ASSUME NEW c, CvPremise(c), Acts(c)
  PROVE  /\ Once(Lists')
         /\ \A x \in Coro : On(x, Lists') => Suspended(x)'
         /\ OneNotifyingThread => \A x \in Coro : Suspended(x)' => On(x, Lists')
<1>1. PICK n \in Coro \cup {NoCoro}, r \in Coro \cup {NoCoro} :
            /\ Sleeps(n, r) /\ Effect(n, r)
            /\ OneNotifyingThread => Kept(n, r)
  BY StepSleeps
<1>2. /\ \A x \in Coro : On(x, Lists) => Suspended(x)
      /\ OneNotifyingThread => \A x \in Coro : Suspended(x) => On(x, Lists)
  BY DEF CvPremise, ListInv, KeptInv
<1>3. QED
  BY <1>1, <1>2 DEF Sleeps, Effect, Kept
(* What each waits for.                                                     *)

OnInv == /\ \A v \in Cv, x \in Coro : In(x, awaiting[v]) \/ In(x, cache[v]) => on[x] = v
         /\ \A d, x \in Coro : In(x, InHands(d)) => on[x] = on[d]

LEMMA Listed == /\ \A v \in Cv, x \in Coro : In(x, awaiting[v]) \/ In(x, cache[v]) => On(x, Lists)
                /\ \A d, x \in Coro : In(x, InHands(d)) => On(x, Lists)
                /\ \A x \in Coro : In(x, lockQueue) => On(x, Lists)
BY Names, ListsAt DEF On

LEMMA StepOn ==
  ASSUME NEW c, CvPremise(c), Acts(c)
  PROVE  OnInv'
<1>1. /\ at \in [Coro -> Place] /\ on \in [Coro -> Cv] /\ hands \in [Coro -> Seq(Coro)]
      /\ awaiting \in [Cv -> Seq(Coro)] /\ cache \in [Cv -> Seq(Coro)]
      /\ c \in Coro /\ TypeOK /\ ListInv
  BY DEF CvPremise, TypeOK
<1>2. \A d \in Coro : d # c => InHands(d)' = InHands(d) /\ on'[d] = on[d]
  BY <1>1, ActsLocal, OthersStay
<1>3. /\ at[c] \notin Notifies \ {"exchange"} => hands[c] = <<>> /\ InHands(c) = <<>>
      /\ at[c] \notin Asleep => ~On(c, Lists)
      /\ at[c] \notin {"new next", "cached next"} => InHands(c) = hands[c]
      /\ at'[c] \notin {"new next", "cached next"} => InHands(c)' = hands'[c]
  BY EmptyHands DEF InHands
<1>4. /\ \A v \in Cv, x \in Coro : In(x, awaiting[v]) \/ In(x, cache[v]) => on[x] = v
      /\ \A d, x \in Coro : In(x, InHands(d)) => on[x] = on[d]
  BY <1>1 DEF ListInv
<1>5. on' = on \/ ~On(c, Lists)
  <2>1. on' # on => at[c] = "out"
    BY DEF Acts, Plain, Waiting, One, All, Resume, Yield, Lock, Unlock, UnlockAhead, Wait,
           NotifyOne, Exchange, Store, RegisterOne, NotifyAll, RegisterNext, Advance, TakeCache,
           AllNotified, Idle, op
  <2>2. QED
    BY <1>3, <2>1 DEF Asleep
<1>6. \A x \in Coro : On(x, Lists) => on'[x] = on[x]
  BY <1>2, <1>5
<1>7. ASSUME \A v \in Cv, x \in Coro : In(x, awaiting'[v]) => In(x, awaiting[v]) \/ on'[x] = v,
             \A v \in Cv, x \in Coro : In(x, cache'[v]) => In(x, cache[v]) \/ on'[x] = v,
             \A x \in Coro : In(x, InHands(c)') => on'[x] = on'[c]
      PROVE  OnInv'
  <2>1. ASSUME NEW v \in Cv, NEW x \in Coro, In(x, awaiting'[v]) \/ In(x, cache'[v])
        PROVE  on'[x] = v
    BY <1>4, <1>6, <1>7, <2>1, Listed
  <2>2. ASSUME NEW d \in Coro, NEW x \in Coro, In(x, InHands(d)')
        PROVE  on'[x] = on'[d]
    <3>1. CASE d = c
      BY <1>7, <2>2, <3>1
    <3>2. CASE d # c
      <4>1. In(x, InHands(d)) /\ on'[d] = on[d]
        BY <1>2, <2>2, <3>2
      <4>2. QED
        BY <1>4, <1>6, <4>1, Listed
    <3>3. QED
      BY <3>1, <3>2
  <2>3. QED
    BY <2>1, <2>2 DEF OnInv
<1>8. ASSUME awaiting' = awaiting, cache' = cache, on' = on,
             \A x \in Coro : In(x, InHands(c)') => In(x, InHands(c))
      PROVE  OnInv'
  BY <1>1, <1>4, <1>7, <1>8
<1>9. \A s \in Seq(Coro) : s # <<>> => /\ Head(s) \in Coro /\ Tail(s) \in Seq(Coro) /\ In(Head(s), s)
                                       /\ \A x : In(x, Tail(s)) => In(x, s)
  BY Taken
<1>10. \A x : ~In(x, <<>>)
  BY EmptyList
<1>11. CASE Plain(c)
  <2>1. awaiting' = awaiting /\ cache' = cache /\ on' = on
    BY <1>11 DEF Plain, Resume, Yield, Lock, Unlock, lists, op
  <2>2. hands' = hands
    BY <1>11 DEF Plain, Resume, Yield, Lock, Unlock, op
  <2>3. at[c] \notin Notifies /\ at'[c] \notin {"new next", "cached next"}
    <3>1. current[home[c]] = c \/ at[c] \notin Notifies
      BY <1>1 DEF CvPremise, OpInv
    <3>2. Resume(c) => current[home[c]] # c
      BY <1>1, Given DEF Resume
    <3>3. Yield(c) \/ Lock(c) \/ Unlock(c) => at[c] = "out" /\ at'[c] \in {"out", "locking"}
      BY <1>1 DEF Yield, Lock, Unlock, Idle, op, Goto
    <3>4. Resume(c) => at'[c] = "out"
      BY <1>1 DEF Resume, Goto
    <3>5. QED
      BY <1>11, <3>1, <3>2, <3>3, <3>4 DEF Plain, Notifies
  <2>4. InHands(c)' = <<>>
    BY <1>3, <2>2, <2>3
  <2>5. QED
    BY <1>8, <1>10, <2>1, <2>4
<1>12. CASE Waiting(c)
  <2>1. ASSUME NEW v \in Cv, Wait(c, v)
        PROVE  OnInv'
    <3>1. /\ awaiting' = [awaiting EXCEPT ![v] = <<c>> \o awaiting[v]] /\ cache' = cache
          /\ on'[c] = v /\ hands' = hands /\ at[c] = "out" /\ at'[c] = "unlock"
      BY <1>1, <2>1 DEF Wait, Idle, Goto
    <3>2. InHands(c)' = <<>>
      BY <1>3, <3>1 DEF Notifies
    <3>3. ASSUME NEW u \in Cv, NEW x \in Coro, In(x, awaiting'[u])
          PROVE  In(x, awaiting[u]) \/ on'[x] = u
      <4>1. CASE u # v
        BY <1>1, <3>1, <3>3, <4>1
      <4>2. CASE u = v
        <5>1. awaiting'[v] = <<c>> \o awaiting[v] /\ awaiting[v] \in Seq(Coro)
          BY <1>1, <3>1
        <5>2. In(x, awaiting'[v]) => x = c \/ In(x, awaiting[v])
          BY <1>1, <5>1, Added
        <5>3. QED
          BY <3>1, <3>3, <4>2, <5>2
      <4>3. QED
        BY <4>1, <4>2
    <3>4. QED
      BY <1>7, <1>10, <3>1, <3>2, <3>3
  <2>2. ASSUME UnlockAhead(c)
        PROVE  OnInv'
    <3>1. /\ awaiting' = awaiting /\ cache' = cache /\ on' = on /\ hands' = hands
          /\ at[c] = "unlock" /\ at'[c] = "asleep"
      BY <1>1, <2>2 DEF UnlockAhead, Goto, lists
    <3>2. InHands(c)' = <<>>
      BY <1>3, <3>1 DEF Notifies
    <3>3. QED
      BY <1>8, <1>10, <3>1, <3>2
  <2>3. QED
    BY <1>12, <2>1, <2>2 DEF Waiting
<1>13. CASE One(c)
  <2>1. ASSUME NEW v \in Cv, NotifyOne(c, v)
        PROVE  OnInv'
    <3>1. awaiting' = awaiting /\ on'[c] = v /\ at[c] = "out"
      BY <1>1, <2>1 DEF NotifyOne, Idle
    <3>2. CASE cache' = cache /\ hands' = hands /\ at'[c] = "exchange"
      <4>1. InHands(c)' = <<>>
        BY <1>3, <3>1, <3>2 DEF Notifies
      <4>2. QED
        BY <1>7, <1>10, <3>1, <3>2, <4>1
    <3>3. CASE /\ cache[v] # <<>> /\ cache' = [cache EXCEPT ![v] = Tail(cache[v])]
               /\ hands'[c] = <<Head(cache[v])>> /\ at'[c] = "register"
      <4>1. \A u \in Cv, x \in Coro : In(x, cache'[u]) => In(x, cache[u])
        BY <1>1, <1>9, <3>3
      <4>2. Head(cache[v]) \in Coro /\ In(Head(cache[v]), cache[v])
        BY <1>1, <1>9, <3>3
      <4>3. on'[Head(cache[v])] = v
        BY <1>4, <1>6, <4>2, Listed
      <4>4. \A x \in Coro : In(x, InHands(c)') => x = Head(cache[v])
        BY <1>3, <3>3, <4>2, Single
      <4>5. QED
        BY <1>7, <3>1, <4>1, <4>3, <4>4
    <3>4. QED
      BY <1>1, <2>1, <3>2, <3>3 DEF NotifyOne, Goto
  <2>2. ASSUME Exchange(c)
        PROVE  OnInv'
    <3>1. /\ awaiting' = [awaiting EXCEPT ![on[c]] = <<>>] /\ cache' = cache /\ on' = on
          /\ hands'[c] = Reverse(awaiting[on[c]]) /\ on[c] \in Cv
          /\ at'[c] \in {"out", "store"}
      BY <1>1, <2>2 DEF Exchange, Goto
    <3>2. \A u \in Cv, x \in Coro : In(x, awaiting'[u]) => In(x, awaiting[u])
      BY <1>1, <1>10, <3>1
    <3>3. \A x : In(x, InHands(c)') => In(x, awaiting[on[c]])
      <4>1. awaiting[on[c]] \in Seq(Coro) /\ InHands(c)' = Reverse(awaiting[on[c]])
        BY <1>1, <1>3, <3>1
      <4>2. \A x : In(x, Reverse(awaiting[on[c]])) <=> In(x, awaiting[on[c]])
        BY <4>1, Reversed
      <4>3. QED
        BY <4>1, <4>2, Zenon
    <3>4. QED
      BY <1>4, <1>7, <3>1, <3>2, <3>3
  <2>3. ASSUME Store(c)
        PROVE  OnInv'
    <3> DEFINE v == on[c]
               h == Head(hands[c])
               k == Head(cache[v])
               linked == IF tail[v] = Last(cache[v]) THEN Append(cache[v], h) ELSE cache[v]
    <3>1. /\ awaiting' = awaiting /\ on' = on /\ v \in Cv
          /\ at[c] = "store" /\ at'[c] = "register"
          /\ hands[c] # <<>> /\ hands[c] \in Seq(Coro) /\ cache[v] \in Seq(Coro)
      <4>1. at[c] = "store" => hands[c] # <<>>
        BY <1>1 DEF TypeOK
      <4>2. QED
        BY <1>1, <2>3, <4>1 DEF Store, Goto
    <3>2. \/ /\ cache' = [cache EXCEPT ![v] = Tail(hands[c])] /\ hands'[c] = <<h>>
          \/ /\ cache[v] # <<>> /\ cache' = [cache EXCEPT ![v] = Tail(linked)] /\ hands'[c] = <<k>>
      BY <1>1, <2>3 DEF Store
    <3>3. InHands(c) = hands[c] /\ InHands(c)' = hands'[c] /\ h \in Coro /\ In(h, hands[c])
      BY <1>3, <1>9, <3>1
    <3>4. \A x \in Coro : In(x, hands[c]) => on'[x] = v
      <4>1. \A x \in Coro : In(x, InHands(c)) => on[x] = on[c]
        BY <1>1, <1>4
      <4>2. QED
        BY <3>1, <3>3, <4>1
    <3>5. \A x \in Coro : In(x, cache[v]) => on'[x] = v
      BY <1>4, <3>1
    <3>6. \A x \in Coro : In(x, InHands(c)') => on'[x] = v
      <4>1. cache[v] # <<>> => k \in Coro /\ In(k, cache[v])
        BY <1>9, <3>1
      <4>2. \A y \in Coro : \A x : In(x, <<y>>) => x = y
        BY Single
      <4> HIDE DEF h, k
      <4>3. QED
        BY <3>2, <3>3, <3>4, <3>5, <4>1, <4>2
    <3>7. ASSUME NEW u \in Cv, NEW x \in Coro, In(x, cache'[u])
          PROVE  In(x, cache[u]) \/ on'[x] = u
      <4>1. CASE u # v
        BY <1>1, <3>2, <3>7, <4>1
      <4>2. CASE u = v
        <5>1. CASE cache'[v] = Tail(hands[c])
          BY <1>9, <3>1, <3>4, <3>7, <4>2, <5>1
        <5>2. CASE cache[v] # <<>> /\ cache'[v] = Tail(linked)
          <6>1. linked \in Seq(Coro) /\ linked # <<>> /\ \A y : In(y, linked) => y = h \/ In(y, cache[v])
            <7> HIDE DEF h, v
            <7>1. h \in Coro /\ cache[v] \in Seq(Coro)
              BY <3>1, <3>3
            <7>2. /\ Append(cache[v], h) \in Seq(Coro)
                  /\ \A y : In(y, Append(cache[v], h)) <=> y = h \/ In(y, cache[v])
              BY <7>1, Added
            <7>3. Append(cache[v], h) # <<>>
              BY <7>2, <1>10
            <7>4. QED
              BY <3>1, <5>2, <7>2, <7>3
          <6>2. \A y : In(y, Tail(linked)) => In(y, linked)
            BY <1>9, <6>1
          <6> HIDE DEF linked, h
          <6>3. QED
            BY <3>3, <3>4, <3>5, <3>7, <4>2, <5>2, <6>1, <6>2
        <5>3. QED
          BY <1>1, <3>1, <3>2, <5>1, <5>2
      <4>3. QED
        BY <4>1, <4>2
    <3>8. QED
      BY <1>1, <1>7, <3>1, <3>6, <3>7
  <2>4. ASSUME RegisterOne(c)
        PROVE  OnInv'
    <3>1. /\ awaiting' = awaiting /\ cache' = cache /\ on' = on
          /\ hands'[c] = <<>> /\ at'[c] = "out"
      BY <1>1, <2>4 DEF RegisterOne, Goto, lists
    <3>2. QED
      BY <1>3, <1>8, <1>10, <3>1
  <2>5. QED
    BY <1>13, <2>1, <2>2, <2>3, <2>4 DEF One
<1>14. CASE All(c)
  <2>1. ASSUME NEW v \in Cv, NotifyAll(c, v)
        PROVE  OnInv'
    <3>1. /\ awaiting' = [awaiting EXCEPT ![v] = <<>>] /\ cache' = cache /\ on'[c] = v
          /\ hands'[c] = awaiting[v] /\ at'[c] = "new"
      BY <1>1, <2>1 DEF NotifyAll, Goto
    <3>2. \A u \in Cv, x \in Coro : In(x, awaiting'[u]) => In(x, awaiting[u])
      BY <1>1, <1>10, <3>1
    <3>3. \A x \in Coro : In(x, InHands(c)') => on'[x] = v
      BY <1>3, <1>4, <1>6, <3>1, Listed
    <3>4. QED
      BY <1>7, <3>1, <3>2, <3>3
  <2>2. ASSUME RegisterNext(c)
        PROVE  OnInv'
    <3>1. /\ awaiting' = awaiting /\ cache' = cache /\ on' = on /\ hands' = hands
          /\ hands[c] # <<>> /\ hands[c] \in Seq(Coro)
          /\ at[c] \in {"new", "cached"} /\ at'[c] \in {"new next", "cached next"}
      BY <1>1, <2>2 DEF RegisterNext, Goto, lists
    <3>2. InHands(c) = hands[c] /\ InHands(c)' = Tail(hands[c])
      BY <3>1 DEF InHands
    <3>3. \A x : In(x, InHands(c)') => In(x, InHands(c))
      <4>1. \A x : In(x, Tail(hands[c])) => In(x, hands[c])
        BY <1>9, <3>1
      <4>2. QED
        BY <3>2, <4>1, Zenon
    <3>4. QED
      BY <1>8, <3>1, <3>3
  <2>3. ASSUME Advance(c)
        PROVE  OnInv'
    <3>1. /\ awaiting' = awaiting /\ cache' = cache /\ on' = on /\ hands'[c] = Tail(hands[c])
          /\ at[c] \in {"new next", "cached next"} /\ at'[c] \in {"new", "cached"}
      BY <1>1, <2>3 DEF Advance, Goto, lists
    <3>2. InHands(c)' = InHands(c)
      BY <3>1 DEF InHands
    <3>3. QED
      BY <1>8, <3>1, <3>2
  <2>4. ASSUME TakeCache(c)
        PROVE  OnInv'
    <3>1. /\ cache' = [cache EXCEPT ![on[c]] = <<>>] /\ awaiting' = awaiting /\ on' = on
          /\ hands'[c] = cache[on[c]] /\ at'[c] = "cached" /\ on[c] \in Cv
      BY <1>1, <2>4 DEF TakeCache, Goto
    <3>2. \A u \in Cv, x \in Coro : In(x, cache'[u]) => In(x, cache[u])
      BY <1>1, <1>10, <3>1
    <3>3. \A x \in Coro : In(x, InHands(c)') => on'[x] = on'[c]
      BY <1>3, <1>4, <3>1
    <3>4. QED
      BY <1>7, <3>1, <3>2, <3>3
  <2>5. ASSUME AllNotified(c)
        PROVE  OnInv'
    <3>1. /\ awaiting' = awaiting /\ cache' = cache /\ on' = on /\ hands' = hands
          /\ at[c] = "cached" /\ at'[c] = "out"
      BY <1>1, <2>5 DEF AllNotified, Goto, lists
    <3>2. QED
      BY <1>3, <1>8, <3>1
  <2>6. QED
    BY <1>14, <2>1, <2>2, <2>3, <2>4, <2>5 DEF All
<1>15. QED
  BY <1>11, <1>12, <1>13, <1>14 DEF Acts
(* Who is notified.                                                         *)

\* With one notifying thread one coroutine at a time notifies a variable.
LEMMA OneNotifier ==
  ASSUME OpInv, OneNotifyingThread, TypeOK, NEW c \in Coro, NEW d \in Coro,
         at[d] \in Notifies, on[d] \in Cv, c \in Notifier[on[d]], current[home[c]] = c
  PROVE  c = d
<1>1. d \in Notifier[on[d]] /\ current[home[d]] = d
  BY DEF OpInv
<1>2. home[c] = home[d]
  BY <1>1 DEF OneNotifyingThread
<1>3. QED
  BY <1>1, <1>2

LEMMA StepCache ==
  ASSUME NEW c, CvPremise(c), Acts(c), OneNotifyingThread, NEW d \in Coro,
         at'[d] \in {"exchange", "store"}
  PROVE  cache'[on'[d]] = <<>>
<1>1. /\ at \in [Coro -> Place] /\ on \in [Coro -> Cv] /\ cache \in [Cv -> Seq(Coro)]
      /\ c \in Coro /\ TypeOK /\ OpInv
  BY DEF CvPremise, TypeOK
<1>2. at[d] \in {"exchange", "store"} => cache[on[d]] = <<>>
  BY DEF CvPremise, KeptInv
<1>3. CASE d = c
  <2>1. CASE \E v \in Cv : NotifyOne(c, v)
    <3>1. PICK v \in Cv : NotifyOne(c, v)
      BY <2>1
    <3>2. on'[c] = v /\ (at'[c] = "register" \/ cache'[v] = <<>>)
      BY <1>1, <3>1 DEF NotifyOne, Goto
    <3>3. QED
      BY <1>3, <3>2
  <2>2. CASE Exchange(c)
    BY <1>1, <1>2, <1>3, <2>2 DEF Exchange
  <2>3. CASE ~Exchange(c) /\ ~\E v \in Cv : NotifyOne(c, v)
    <3>1. at'[c] \notin {"exchange", "store"}
      <4>1. CASE Plain(c)
        <5>1. Resume(c) => at'[c] = "out"
          BY <1>1 DEF Resume, Goto
        <5>2. Yield(c) \/ Unlock(c) => at'[c] = "out"
          BY DEF Yield, Unlock, Idle, op
        <5>3. Lock(c) => at'[c] \in {"out", "locking"}
          BY <1>1 DEF Lock, Idle, Goto
        <5>4. QED
          BY <4>1, <5>1, <5>2, <5>3 DEF Plain
      <4>2. CASE Waiting(c)
        BY <1>1, <4>2 DEF Waiting, Wait, UnlockAhead, Goto
      <4>3. CASE One(c)
        BY <1>1, <2>3, <4>3 DEF One, Store, RegisterOne, Goto
      <4>4. CASE All(c)
        BY <1>1, <4>4 DEF All, NotifyAll, RegisterNext, Advance, TakeCache, AllNotified, Goto
      <4>5. QED
        BY <4>1, <4>2, <4>3, <4>4 DEF Acts
    <3>2. QED
      BY <1>3, <3>1
  <2>4. QED
    BY <2>1, <2>2, <2>3
<1>4. CASE d # c
  <2>1. at'[d] = at[d] /\ on'[d] = on[d]
    BY <1>1, <1>4, ActsLocal, OthersStay
  <2>2. at[d] \in Notifies /\ on[d] \in Cv /\ cache[on[d]] = <<>>
    BY <1>1, <1>2, <2>1 DEF Notifies
  <2>3. ~(c \in Notifier[on[d]] /\ current[home[c]] = c)
    BY <1>1, <1>4, <2>2, OneNotifier
  <2>4. cache'[on[d]] = cache[on[d]] \/ cache'[on[d]] = <<>>
    <3>1. ASSUME NEW v \in Cv, NotifyOne(c, v)
          PROVE  cache'[on[d]] = cache[on[d]]
      <4>1. v # on[d]
        BY <2>3, <3>1 DEF NotifyOne, Idle, Runs
      <4>2. QED
        BY <1>1, <2>2, <3>1, <4>1 DEF NotifyOne
    <3>2. ASSUME Store(c)
          PROVE  cache'[on[d]] = cache[on[d]]
      <4>1. at[c] = "store" /\ current[home[c]] = c
        BY <3>2 DEF Store, Runs
      <4>2. on[c] # on[d]
        BY <1>1, <2>3, <4>1 DEF OpInv, Notifies
      <4>3. QED
        BY <1>1, <2>2, <3>2, <4>2 DEF Store
    <3>3. TakeCache(c) => cache'[on[d]] \in {cache[on[d]], <<>>}
      BY <1>1, <2>2 DEF TakeCache
    <3>4. QED
      BY <3>1, <3>2, <3>3
         DEF Acts, Plain, Waiting, One, All, Resume, Yield, Lock, Unlock, UnlockAhead, Wait,
             Exchange, RegisterOne, NotifyAll, RegisterNext, Advance, AllNotified, lists
  <2>5. QED
    BY <2>1, <2>2, <2>4
<1>5. QED
  BY <1>3, <1>4

LEMMA CvInitial == ASSUME CvInit PROVE CondVarInv
<1>1. TypeOK
  BY InitType
<1>2. /\ owner = NoCoro /\ lockQueue = <<>> /\ ready = Coro
      /\ \A c \in Coro : at[c] = "out" /\ hands[c] = <<>>
      /\ \A v \in Cv : awaiting[v] = <<>> /\ cache[v] = <<>>
      /\ \A x \in Ctx : current[x] = NoCoro
  BY DEF CvInit, Mutex!LockInit
<1>3. /\ home \in [Coro -> Ctx] /\ NoCoro \notin Coro
  BY Given
<1>4. OpInv
  BY <1>2 DEF OpInv, Notifies
<1>5. MutexInv
  BY <1>2, <1>3 DEF MutexInv, ReturnsWithMutex
<1>6. \A d \in Coro : InHands(d) = <<>>
  BY <1>2 DEF InHands
<1>7. \A l \in ListName : Lists[l] = <<>>
  BY <1>2, <1>6, Names, ListsAt
<1>8. Distinct(<<>>) /\ \A x : ~In(x, <<>>)
  BY EmptyList
<1>9. Once(Lists) /\ \A x : ~On(x, Lists)
  BY <1>7, <1>8 DEF Once, On, Apart
<1>10. ListInv
  BY <1>2, <1>6, <1>8, <1>9 DEF ListInv
<1>11. KeptInv
  BY <1>2 DEF KeptInv, Suspended, Waits
<1>12. QED
  BY <1>1, <1>4, <1>5, <1>10, <1>11 DEF CondVarInv

LEMMA CvInductive == ASSUME CondVarInv, [Next]_cvVars PROVE CondVarInv'
<1>1. ASSUME NEW c \in Coro, Acts(c)
      PROVE  CondVarInv'
  <2>1. CvPremise(c)
    BY DEF CondVarInv, CvPremise
  <2>2. TypeOK'
    BY <1>1, <2>1, ActsLocal, TypeKept DEF CvPremise
  <2>3. OpInv'
    BY <1>1, <2>1, StepOwn DEF CvPremise
  <2>4. MutexInv'
    BY <1>1, <2>1, StepMutex
  <2>5. ListInv'
    BY <1>1, <2>1, StepListed, StepOn DEF ListInv, OnInv
  <2>6. KeptInv'
    <3>1. OneNotifyingThread' <=> OneNotifyingThread
      BY DEF OneNotifyingThread
    <3>2. OneNotifyingThread => /\ \A x \in Coro : Suspended(x)' => On(x, Lists')
                                /\ \A d \in Coro : at'[d] \in {"exchange", "store"} => cache'[on'[d]] = <<>>
      BY <1>1, <2>1, StepListed, StepCache
    <3>3. QED
      BY <3>1, <3>2 DEF KeptInv, On
  <2>7. QED
    BY <2>2, <2>3, <2>4, <2>5, <2>6 DEF CondVarInv
<1>2. ASSUME UNCHANGED cvVars
      PROVE  CondVarInv'
  <2>1. /\ owner' = owner /\ lockQueue' = lockQueue /\ awaiting' = awaiting /\ cache' = cache
        /\ tail' = tail /\ at' = at /\ on' = on /\ hands' = hands /\ ready' = ready
        /\ current' = current /\ undefined' = undefined
    BY <1>2 DEF cvVars, mutex, lists, op
  <2>2. TypeOK' /\ OpInv' /\ MutexInv'
    BY <2>1 DEF CondVarInv, TypeOK, OpInv, MutexInv, ReturnsWithMutex
  <2>3. (\A d : InHands(d)' = InHands(d)) /\ \A d : Suspended(d)' <=> Suspended(d)
    BY <2>1 DEF InHands, Suspended, Waits
  <2>4. \A l : ListAt(l)' = ListAt(l)
    BY <2>1, <2>3 DEF ListAt
  <2>5. Lists' = Lists
    BY <2>4 DEF Lists
  <2>6. ListInv' /\ KeptInv'
    BY <2>1, <2>3, <2>5 DEF CondVarInv, ListInv, KeptInv, Once, On, OneNotifyingThread
  <2>7. QED
    BY <2>2, <2>6 DEF CondVarInv
<1>3. QED
  BY <1>1, <1>2, Steps

LEMMA CvInvariance == Spec => []CondVarInv
<1>1. CvInit => CondVarInv
  BY CvInitial
<1>2. CondVarInv /\ [Next]_cvVars => CondVarInv'
  BY CvInductive
<1>3. QED
  BY <1>1, <1>2, PTL DEF Spec

\* A coroutine that waits is on one list once.
THEOREM WaitersKept == Spec => []WaitersSound
<1>1. ASSUME CondVarInv, OneNotifyingThread, NEW c \in Coro, Suspended(c)
      PROVE  \E l \in ListName : \E i \in DOMAIN ListAt(l) :
                /\ ListAt(l)[i] = c
                /\ \A m \in ListName : \A j \in DOMAIN ListAt(m) :
                       ListAt(m)[j] = c => m = l /\ j = i
  <2>1. On(c, Lists)
    BY <1>1 DEF CondVarInv, KeptInv
  <2>2. /\ \A l \in ListName : Lists[l] \in Seq(Coro) /\ Distinct(Lists[l])
        /\ \A l, m \in ListName : l # m => Apart(Lists[l], Lists[m])
    BY <1>1, ListsTyped DEF CondVarInv
  <2>3. \A l \in ListName : ListAt(l) = Lists[l] /\ DOMAIN Lists[l] = 1..Len(Lists[l])
    BY <2>2, Indices DEF Lists
  <2>4. PICK l \in ListName : In(c, Lists[l])
    BY <2>1 DEF On
  <2>5. PICK i \in 1..Len(Lists[l]) : Lists[l][i] = c
    BY <2>4 DEF In
  <2>6. ASSUME NEW m \in ListName, NEW j \in 1..Len(Lists[m]), Lists[m][j] = c
        PROVE  m = l /\ j = i
    <3>1. In(c, Lists[m])
      BY <2>6 DEF In
    <3>2. m = l
      BY <2>2, <2>4, <3>1 DEF Apart
    <3>3. QED
      BY <2>2, <2>5, <2>6, <3>2 DEF Distinct
  <2>7. QED
    BY <2>3, <2>5, <2>6
<1>2. CondVarInv => WaitersSound
  BY <1>1 DEF WaitersSound, WaitersListed, ListedOnce, CondVarInv, MutexInv
<1>3. QED
  BY <1>2, CvInvariance, PTL

\* Who looks for a waiter and finds none has seen both lists empty.
LEMMA NoneFound ==
  ASSUME CondVarInv, [Next]_cvVars, NEW c \in Coro, at[c] = "exchange", at'[c] = "out"
  PROVE  Runs(c) /\ awaiting[on[c]] = <<>>
<1>1. at'[c] # at[c]
  OBVIOUS
<1>2. PICK d \in Coro : Acts(d)
  BY <1>1, Steps DEF cvVars, op
<1>3. TypeOK
  BY DEF CondVarInv
<1>4. d = c
  BY <1>1, <1>2, <1>3, ActsLocal, OthersStay
<1>5. Exchange(c) \/ Resume(c)
  BY <1>2, <1>4 DEF Acts, Plain, Waiting, One, All, Yield, Lock, Unlock, UnlockAhead, Wait,
         NotifyOne, Store, RegisterOne, NotifyAll, RegisterNext, Advance, TakeCache, AllNotified,
         Idle
<1>6. ~Resume(c)
  <2>1. current[home[c]] = c
    BY DEF CondVarInv, OpInv, Notifies
  <2>2. QED
    BY <2>1, Given DEF Resume
<1>7. at \in [Coro -> Place]
  BY <1>3 DEF TypeOK
<1>8. QED
  BY <1>5, <1>6, <1>7 DEF Exchange, Goto

LEMMA NobodyLeft ==
  ASSUME CondVarInv, [Next]_cvVars, OneNotifyingThread,
         NEW c \in Coro, at[c] = "exchange", at'[c] = "out",
         NEW w \in Coro, Waits(w), on[w] = on[c]
  PROVE  w \in ToSet(lockQueue)
<1> DEFINE v == on[c]
<1>1. v \in Cv /\ lockQueue \in Seq(Coro) /\ hands[c] = <<>>
  <2>1. at[c] \notin Notifies \ {"exchange"}
    BY DEF Notifies
  <2>2. QED
    BY <2>1, Parts DEF CondVarInv, OpInv
<1>2. awaiting[v] = <<>> /\ cache[v] = <<>> /\ Runs(c)
  BY NoneFound DEF CondVarInv, KeptInv
<1>3. On(w, Lists)
  BY DEF CondVarInv, KeptInv, Suspended
<1>4. PICK l \in ListName : In(w, Lists[l])
  BY <1>3 DEF On
<1>5. \A x : ~In(x, <<>>)
  BY EmptyList
<1>6. ASSUME NEW u \in Cv, l = Aw(u) \/ l = Ca(u)
      PROVE  FALSE
  <2>1. In(w, awaiting[u]) \/ In(w, cache[u])
    BY <1>4, <1>6, ListsAt
  <2>2. u = v
    BY <2>1 DEF CondVarInv, ListInv
  <2>3. QED
    BY <1>2, <1>5, <2>1, <2>2
<1>7. ASSUME NEW d \in Coro, l = Ha(d)
      PROVE  FALSE
  <2>1. In(w, InHands(d))
    BY <1>4, <1>7, ListsAt
  <2>2. on[d] = v
    BY <2>1 DEF CondVarInv, ListInv
  <2>3. d # c
    BY <1>1, <1>5, <2>1 DEF InHands
  <2>4. hands[d] # <<>>
    BY <1>5, <2>1 DEF InHands, CondVarInv, TypeOK
  <2>5. at[d] \in Notifies
    BY <2>4 DEF CondVarInv, OpInv
  <2>6. c \in Notifier[v] /\ current[home[c]] = c
    BY <1>2 DEF CondVarInv, OpInv, Notifies, Runs
  <2>7. QED
    BY <1>1, <2>2, <2>3, <2>5, <2>6, OneNotifier DEF CondVarInv
<1>8. l = Mu
  BY <1>6, <1>7, Names
<1>9. QED
  BY <1>1, <1>4, <1>8, ListsAt, Indices

\* notify_one returns without a waiter only if there is none.
THEOREM EmptyHanded == Spec => NotifyFindsWaiter
<1>1. CondVarInv /\ [Next]_cvVars
        => (OneNotifyingThread =>
              \A c \in Coro : at[c] = "exchange" /\ at'[c] = "out" =>
                  \A w \in Coro : Waits(w) /\ on[w] = on[c] => w \in ToSet(lockQueue))
  BY NobodyLeft
<1>2. QED
  BY <1>1, CvInvariance, PTL DEF Spec, NotifyFindsWaiter
-----------------------------------------------------------------------------
(* The order in which waiters are notified.                                 *)

\* t keeps q's order.
Keeps(q, t) ==
    \A i, j \in 1..Len(q), k, l \in 1..Len(t) : i < j /\ t[k] = q[i] /\ t[l] = q[j] => k < l

\* t is q from m on.
From(q, t, m) == m + Len(t) <= Len(q) /\ \A k \in 1..Len(t) : q[m + k] = t[k]

LEMMA PartKeeps ==
  ASSUME NEW q \in Seq(Coro), NEW t \in Seq(Coro), NEW m \in Nat, From(q, t, m), Distinct(q)
  PROVE  Keeps(q, t) /\ Keeps(t, q)
<1> DEFINE a == Len(q)
           b == Len(t)
<1>1. a \in Nat /\ b \in Nat /\ m + b <= a /\ \A k \in 1..b : q[m + k] = t[k]
  BY Indices DEF From
<1>2. \A i, j \in 1..a : q[i] = q[j] => i = j
  BY DEF Distinct
<1> HIDE DEF a, b
<1>3. \A k \in 1..b : m + k \in 1..a
  BY <1>1
<1>4. \A i \in 1..a, k \in 1..b : t[k] = q[i] => i = m + k
  BY <1>1, <1>2, <1>3
<1>5. ASSUME NEW i \in 1..a, NEW j \in 1..a, NEW k \in 1..b, NEW l \in 1..b,
             t[k] = q[i], t[l] = q[j]
      PROVE  i < j <=> k < l
  <2>1. i = m + k /\ j = m + l
    BY <1>4, <1>5
  <2>2. QED
    BY <1>1, <2>1
<1>6. QED
  BY <1>5 DEF Keeps, a, b

\* Of two lists, one behind the other, either may go, or the first of the first.
LEMMA CutKeeps ==
  ASSUME NEW s \in Seq(Coro), NEW r \in Seq(Coro), Distinct(s \o r)
  PROVE  /\ Keeps(s \o r, s \o r) /\ Keeps(s \o r, s) /\ Keeps(s, s \o r) /\ Keeps(s \o r, r)
         /\ s # <<>> => Keeps(s \o r, Tail(s) \o r)
<1> DEFINE q == s \o r
           a == Len(s)
           b == Len(r)
<1>1. a \in Nat /\ b \in Nat
  BY Indices
<1>2. /\ q \in Seq(Coro) /\ Len(q) = a + b
      /\ \A i \in 1..a : q[i] = s[i]
      /\ \A i \in 1..b : q[a + i] = r[i]
  BY Joined
<1> HIDE DEF q
<1>3. From(q, q, 0) /\ From(q, s, 0)
  BY <1>1, <1>2 DEF From
<1>4. From(q, r, a)
  BY <1>1, <1>2 DEF From
<1>5. ASSUME s # <<>>
      PROVE  Keeps(q, Tail(s) \o r)
  <2> DEFINE h == <<Head(s)>>
             t == Tail(s)
             u == t \o r
  <2>1. /\ Head(s) \in Coro /\ t \in Seq(Coro) /\ s = h \o t
    BY <1>5, Taken
  <2>2. h \in Seq(Coro) /\ Len(h) = 1
    BY <2>1, Single
  <2> HIDE DEF h, t
  <2>3. u \in Seq(Coro)
    BY <2>1, Joined
  <2>4. q = h \o u
    <3>1. h \in Seq(Coro) /\ t \in Seq(Coro)
      BY <2>1, <2>2
    <3>2. (h \o t) \o r = h \o (t \o r)
      BY <3>1, ConcatAssociative
    <3>3. QED
      BY <2>1, <3>2 DEF q
  <2> HIDE DEF u
  <2>5. Len(q) = 1 + Len(u) /\ \A i \in 1..Len(u) : q[1 + i] = u[i]
    <3>1. /\ Len(h \o u) = Len(h) + Len(u)
          /\ \A i \in 1..Len(u) : (h \o u)[Len(h) + i] = u[i]
      BY <2>2, <2>3, Joined
    <3>2. QED
      BY <2>2, <2>4, <3>1
  <2>6. Len(u) \in Nat
    BY <2>3, Indices
  <2>7. From(q, u, 1)
    BY <2>5, <2>6 DEF From
  <2>8. QED
    BY <1>2, <2>3, <2>7, PartKeeps DEF q, u, t
<1>6. QED
  BY <1>1, <1>2, <1>3, <1>4, <1>5, PartKeeps DEF q

\* Where the next one to be notified stands.
Foremost(a, o, h, k, v) ==
    LET taking == {c \in Coro : a[c] = "store" /\ o[c] = v}
    IN  IF taking = {} THEN k[v] ELSE h[CHOOSE c \in taking : TRUE]

LEMMA Foremosts ==
  ASSUME NEW a, NEW o, NEW h, NEW k, NEW v
  PROVE  /\ (\A d \in Coro : ~(a[d] = "store" /\ o[d] = v)) => Foremost(a, o, h, k, v) = k[v]
         /\ \A c \in Coro : /\ a[c] = "store" /\ o[c] = v
                            /\ \A d \in Coro : a[d] = "store" /\ o[d] = v => d = c
                            => Foremost(a, o, h, k, v) = h[c]
<1> DEFINE taking == {c \in Coro : a[c] = "store" /\ o[c] = v}
<1>1. Foremost(a, o, h, k, v) = IF taking = {} THEN k[v] ELSE h[CHOOSE c \in taking : TRUE]
  BY DEF Foremost
<1>2. ASSUME NEW c \in Coro, a[c] = "store", o[c] = v,
             \A d \in Coro : a[d] = "store" /\ o[d] = v => d = c
      PROVE  taking = {c}
  BY <1>2
<1> HIDE DEF taking
<1>3. ASSUME NEW c, taking = {c}
      PROVE  Foremost(a, o, h, k, v) = h[c]
  BY <1>1, <1>3
<1>4. ASSUME \A d \in Coro : ~(a[d] = "store" /\ o[d] = v)
      PROVE  taking = {}
  BY <1>4 DEF taking
<1>5. QED
  BY <1>1, <1>2, <1>3, <1>4

LEMMA ForemostTyped ==
  ASSUME NEW a, NEW o, NEW h \in [Coro -> Seq(Coro)], NEW k, NEW v, k[v] \in Seq(Coro)
  PROVE  Foremost(a, o, h, k, v) \in Seq(Coro)
<1> DEFINE taking == {c \in Coro : a[c] = "store" /\ o[c] = v}
<1>1. Foremost(a, o, h, k, v) = IF taking = {} THEN k[v] ELSE h[CHOOSE c \in taking : TRUE]
  BY DEF Foremost
<1>2. taking # {} => (CHOOSE c \in taking : TRUE) \in Coro
  OBVIOUS
<1>3. QED
  BY <1>1, <1>2

LEMMA Lines ==
  ASSUME NEW v \in Cv
  PROVE  /\ Line(v) = Foremost(at, on, hands, cache, v) \o Reverse(awaiting[v])
         /\ Line(v)' = Foremost(at', on', hands', cache', v) \o Reverse(awaiting'[v])
BY DEF Line, Foremost

\* Nobody else notifies what c notifies.
LEMMA Alone ==
  ASSUME CondVarInv, OneNotifyingThread, NEW c \in Coro, current[home[c]] = c, NEW v \in Cv, c \in Notifier[v],
         NEW d \in Coro, at[d] \in Notifies, on[d] = v
  PROVE  d = c
BY OneNotifier DEF CondVarInv

LEMMA LineTyped ==
  ASSUME CondVarInv, OneNotifyingThread, NEW v \in Cv
  PROVE  LET f == Foremost(at, on, hands, cache, v)
         IN  /\ f \in Seq(Coro) /\ Line(v) \in Seq(Coro) /\ Distinct(Line(v))
             /\ Reverse(awaiting[v]) \in Seq(Coro)
             /\ \A x \in Coro : In(x, Line(v)) => On(x, Lists)
<1> DEFINE f == Foremost(at, on, hands, cache, v)
           r == Reverse(awaiting[v])
<1>1. TypeOK /\ Once(Lists) /\ awaiting[v] \in Seq(Coro) /\ cache[v] \in Seq(Coro)
  BY DEF CondVarInv, ListInv, TypeOK
<1>2. ASSUME NEW l \in ListName, l # Aw(v), f = Lists[l], f \in Seq(Coro)
      PROVE  /\ f \in Seq(Coro) /\ Distinct(f) /\ Apart(f, awaiting[v])
             /\ \A x \in Coro : In(x, f) => On(x, Lists)
  BY <1>1, <1>2, Names, ListsAt DEF Once, On
<1>3. /\ f \in Seq(Coro) /\ Distinct(f) /\ Apart(f, awaiting[v])
      /\ \A x \in Coro : In(x, f) => On(x, Lists)
  <2>1. CASE \A d \in Coro : ~(at[d] = "store" /\ on[d] = v)
    <3>1. f = cache[v]
      BY <2>1, Foremosts
    <3> HIDE DEF f
    <3>2. QED
      BY <1>1, <1>2, <3>1, Names, ListsAt
  <2>2. ASSUME NEW d \in Coro, at[d] = "store", on[d] = v
        PROVE  f = hands[d] /\ hands[d] = InHands(d) /\ hands[d] \in Seq(Coro)
    <3>1. current[home[d]] = d /\ d \in Notifier[v]
      BY <2>2 DEF CondVarInv, OpInv, Notifies
    <3>2. \A e \in Coro : at[e] = "store" /\ on[e] = v => e = d
      BY <3>1, Alone DEF Notifies
    <3>3. f = hands[d]
      BY <2>2, <3>2, Foremosts
    <3>4. hands[d] \in Seq(Coro) /\ hands[d] = InHands(d)
      BY <1>1, <2>2, Parts DEF InHands
    <3>5. QED
      BY <3>3, <3>4
  <2> HIDE DEF f
  <2>3. CASE \E d \in Coro : at[d] = "store" /\ on[d] = v
    <3>1. PICK d \in Coro : at[d] = "store" /\ on[d] = v
      BY <2>3
    <3>2. f = Lists[Ha(d)] /\ f \in Seq(Coro)
      BY <2>2, <3>1, ListsAt
    <3>3. Ha(d) \in ListName /\ Ha(d) # Aw(v)
      BY Names
    <3>4. QED
      BY <1>2, <3>2, <3>3
  <2>4. QED
    BY <2>1, <2>3
<1>4. r \in Seq(Coro) /\ Distinct(r) /\ \A x : In(x, r) <=> In(x, awaiting[v])
  <2>1. Distinct(awaiting[v])
    BY <1>1, Names, ListsAt DEF Once
  <2>2. QED
    BY <1>1, <2>1, Reversed, ReversedOnce
<1>5. Line(v) = f \o r
  BY Lines
<1> HIDE DEF f, r
<1>6. Apart(f, r)
  BY <1>3, <1>4 DEF Apart
<1>7. /\ f \o r \in Seq(Coro) /\ Distinct(f \o r)
      /\ \A x : In(x, f \o r) <=> In(x, f) \/ In(x, r)
  BY <1>3, <1>4, <1>6, Joined
<1>8. \A x \in Coro : In(x, awaiting[v]) => On(x, Lists)
  BY Listed
<1>9. QED
  BY <1>3, <1>4, <1>5, <1>7, <1>8 DEF f, r

\* A step of c that neither begins nor ends a store on v.
Aside(c, v) == ~(at[c] = "store" /\ on[c] = v) /\ ~(at'[c] = "store" /\ on'[c] = v)

LEMMA ForemostStays ==
  ASSUME TypeOK, NEW c \in Coro, Acts(c), NEW v \in Cv, Aside(c, v)
  PROVE  /\ cache'[v] = cache[v]
              => Foremost(at', on', hands', cache', v) = Foremost(at, on, hands, cache, v)
         /\ (\A d \in Coro : ~(at[d] = "store" /\ on[d] = v))
              => /\ Foremost(at, on, hands, cache, v) = cache[v]
                 /\ Foremost(at', on', hands', cache', v) = cache'[v]
<1>1. \A d \in Coro : d # c => at'[d] = at[d] /\ on'[d] = on[d] /\ hands'[d] = hands[d]
  BY ActsLocal, OthersStay
<1> DEFINE taking == {d \in Coro : at[d] = "store" /\ on[d] = v}
           after == {d \in Coro : at'[d] = "store" /\ on'[d] = v}
<1>2. taking = after /\ c \notin taking
  BY <1>1 DEF Aside
<1>3. /\ Foremost(at, on, hands, cache, v)
           = IF taking = {} THEN cache[v] ELSE hands[CHOOSE d \in taking : TRUE]
      /\ Foremost(at', on', hands', cache', v)
           = IF after = {} THEN cache'[v] ELSE hands'[CHOOSE d \in after : TRUE]
  BY DEF Foremost
<1>4. (\A d \in Coro : ~(at[d] = "store" /\ on[d] = v)) => taking = {}
  OBVIOUS
<1>5. \A d \in taking : d \in Coro /\ d # c
  BY <1>2
<1> HIDE DEF taking, after
<1>6. taking # {} => (CHOOSE d \in taking : TRUE) \in taking
  OBVIOUS
<1>7. QED
  BY <1>1, <1>2, <1>3, <1>4, <1>5, <1>6

\* The operations that change the line of v, and how.
LEMMA StepLine ==
  ASSUME CondVarInv, CondVarInv', OneNotifyingThread, NEW c \in Coro, Acts(c), NEW v \in Cv
  PROVE  Keeps(Line(v), Line(v)')
<1> DEFINE f == Foremost(at, on, hands, cache, v)
           g == Foremost(at', on', hands', cache', v)
           r == Reverse(awaiting[v])
<1>1. /\ at \in [Coro -> Place] /\ on \in [Coro -> Cv] /\ hands \in [Coro -> Seq(Coro)]
      /\ awaiting \in [Cv -> Seq(Coro)] /\ cache \in [Cv -> Seq(Coro)]
      /\ TypeOK
  BY DEF CondVarInv, TypeOK
<1>2. Line(v) = f \o r /\ Line(v)' = g \o Reverse(awaiting'[v])
  BY Lines
<1>3. f \in Seq(Coro) /\ r \in Seq(Coro) /\ Distinct(f \o r)
  BY <1>2, LineTyped
<1>4. \A x \in Coro : In(x, f \o r) => On(x, Lists)
  BY <1>2, LineTyped
<1>5. Aside(c, v) /\ cache'[v] = cache[v] => g = f
  BY <1>1, ForemostStays
<1>6. Reverse(<<>>) = <<>> /\ <<>> \in Seq(Coro)
  BY EmptyList
<1>7. ASSUME current[home[c]] = c, c \in Notifier[v], at[c] # "store"
      PROVE  /\ f = cache[v]
             /\ Aside(c, v) => g = cache'[v]
  <2>1. \A d \in Coro : ~(at[d] = "store" /\ on[d] = v)
    BY <1>7, Alone DEF Notifies
  <2>2. f = cache[v]
    BY <2>1, Foremosts
  <2>3. Aside(c, v) => g = cache'[v]
    BY <1>1, <2>1, ForemostStays
  <2>4. QED
    BY <2>2, <2>3
<1> HIDE DEF f, g, r
<1>8. /\ Keeps(f \o r, f \o r) /\ Keeps(f \o r, f) /\ Keeps(f \o r, r)
      /\ f # <<>> => Keeps(f \o r, Tail(f) \o r)
      /\ f \o <<>> = f /\ <<>> \o f = f /\ r \o <<>> = r /\ <<>> \o r = r
  BY <1>3, CutKeeps, ConcatEmptySeq
<1>9. CASE Plain(c)
  <2>1. awaiting' = awaiting /\ cache' = cache /\ hands' = hands
    BY <1>9 DEF Plain, Resume, Yield, Lock, Unlock, lists, op
  <2>2. at[c] # "store" /\ at'[c] # "store"
    <3>1. at[c] # "store"
      BY <1>1, <1>9, Given DEF Plain, Resume, Yield, Lock, Unlock, Idle, CondVarInv, OpInv, Notifies
    <3>2. at'[c] # "store"
      BY <1>1, <1>9 DEF Plain, Resume, Yield, Lock, Unlock, Idle, Goto, op
    <3>3. QED
      BY <3>1, <3>2
  <2>3. Line(v)' = f \o r
    BY <1>2, <1>5, <2>1, <2>2 DEF Aside, r
  <2>4. QED
    BY <1>2, <1>8, <2>3
<1>10. CASE Waiting(c)
  <2>1. at[c] # "store" /\ at'[c] # "store" /\ cache' = cache
    BY <1>1, <1>10 DEF Waiting, Wait, UnlockAhead, Idle, Goto, lists
  <2>2. g = f
    BY <1>5, <2>1 DEF Aside
  <2>3. CASE awaiting'[v] = awaiting[v]
    BY <1>2, <1>8, <2>2, <2>3 DEF r
  <2>4. CASE awaiting'[v] = <<c>> \o awaiting[v] /\ at[c] = "out"
    <3>1. Reverse(awaiting'[v]) = r \o <<c>>
      BY <1>1, <2>4, ReversedPush DEF r
    <3>2. <<c>> \in Seq(Coro) /\ f \o r \in Seq(Coro)
      BY <1>3, Joined, Single
    <3>3. (f \o r) \o <<c>> = f \o (r \o <<c>>)
      BY <1>3, <3>2, ConcatAssociative
    <3>4. ~In(c, f \o r)
      <4>1. ~Suspended(c)
        BY <2>4 DEF Suspended, Waits
      <4>2. QED
        BY <1>4, <4>1 DEF CondVarInv, ListInv
    <3>5. Distinct((f \o r) \o <<c>>)
      <4> DEFINE q == f \o r
      <4>1. q \in Seq(Coro) /\ Distinct(q) /\ ~In(c, q)
        BY <1>3, <3>2, <3>4
      <4> HIDE DEF q
      <4>2. Distinct(Append(q, c)) /\ Append(q, c) = q \o <<c>>
        BY <4>1, Added
      <4>3. QED
        BY <4>2 DEF q
    <3>6. Keeps(f \o r, (f \o r) \o <<c>>)
      BY <3>2, <3>5, CutKeeps
    <3>7. QED
      BY <1>2, <2>2, <3>1, <3>3, <3>6
  <2>5. QED
    <3>1. UnlockAhead(c) => awaiting' = awaiting
      BY DEF UnlockAhead, lists
    <3>2. ASSUME NEW u \in Cv, Wait(c, u)
          PROVE  \/ awaiting'[v] = awaiting[v]
                 \/ awaiting'[v] = <<c>> \o awaiting[v] /\ at[c] = "out"
      BY <1>1, <3>2 DEF Wait, Idle
    <3>3. QED
      BY <1>10, <2>3, <2>4, <3>1, <3>2 DEF Waiting
<1>11. CASE One(c)
  <2>1. ASSUME NEW u \in Cv, NotifyOne(c, u)
        PROVE  Keeps(Line(v), Line(v)')
    <3>1. /\ awaiting' = awaiting /\ at[c] = "out" /\ at'[c] # "store"
          /\ u = v => current[home[c]] = c /\ c \in Notifier[v]
      BY <1>1, <2>1 DEF NotifyOne, Idle, Runs, Goto
    <3>2. Line(v)' = g \o r /\ Aside(c, v)
      BY <1>2, <3>1 DEF r, Aside
    <3>3. CASE cache'[v] = cache[v]
      BY <1>2, <1>5, <1>8, <3>2, <3>3
    <3>4. CASE u = v /\ cache[v] # <<>> /\ cache'[v] = Tail(cache[v])
      <4>1. f = cache[v] /\ g = Tail(f) /\ f # <<>>
        BY <1>7, <3>1, <3>2, <3>4
      <4>2. QED
        BY <1>2, <1>8, <3>2, <4>1
    <3>5. QED
      BY <1>1, <2>1, <3>3, <3>4 DEF NotifyOne
  <2>2. ASSUME Exchange(c)
        PROVE  Keeps(Line(v), Line(v)')
    <3>1. /\ at[c] = "exchange" /\ cache' = cache
          /\ awaiting' = [awaiting EXCEPT ![on[c]] = <<>>] /\ on' = on
          /\ hands'[c] = Reverse(awaiting[on[c]])
          /\ at'[c] = IF awaiting[on[c]] = <<>> THEN "out" ELSE "store"
      BY <1>1, <2>2 DEF Exchange, Goto
    <3>2. CASE on[c] # v
      <4>1. awaiting'[v] = awaiting[v] /\ Aside(c, v)
        BY <1>1, <3>1, <3>2 DEF Aside
      <4>2. Line(v)' = f \o r
        BY <1>2, <1>5, <3>1, <4>1 DEF r
      <4>3. QED
        BY <1>2, <1>8, <4>2
    <3>3. CASE on[c] = v
      <4>1. current[home[c]] = c /\ c \in Notifier[v] /\ cache[v] = <<>>
        BY <3>1, <3>3 DEF CondVarInv, OpInv, KeptInv, Notifies
      <4>2. f = <<>> /\ awaiting'[v] = <<>> /\ hands'[c] = r
        BY <1>1, <1>7, <3>1, <3>3, <4>1 DEF r
      <4>3. g = r
        <5>1. CASE awaiting[v] = <<>>
          <6>1. Aside(c, v)
            BY <3>1, <3>3, <5>1 DEF Aside
          <6>2. QED
            BY <1>5, <1>6, <3>1, <4>2, <5>1, <6>1 DEF r
        <5>2. CASE awaiting[v] # <<>>
          <6>1. at'[c] = "store" /\ on'[c] = v
            BY <3>1, <3>3, <5>2
          <6>2. \A d \in Coro : at'[d] = "store" /\ on'[d] = v => d = c
            <7>1. \A d \in Coro : d # c => at'[d] = at[d] /\ on'[d] = on[d]
              BY <1>1, ActsLocal, OthersStay
            <7>2. \A d \in Coro : at[d] = "store" /\ on[d] = v => d = c
              BY <4>1, Alone DEF Notifies
            <7>3. QED
              BY <7>1, <7>2
          <6>3. g = hands'[c]
            BY <6>1, <6>2, Foremosts DEF g
          <6>4. QED
            BY <4>2, <6>3
        <5>3. QED
          BY <5>1, <5>2
      <4>4. Line(v) = r /\ Line(v)' = r
        BY <1>2, <1>6, <1>8, <4>2, <4>3
      <4>5. QED
        BY <1>8, <4>2, <4>4
    <3>4. QED
      BY <3>2, <3>3
  <2>3. ASSUME Store(c)
        PROVE  Keeps(Line(v), Line(v)')
    <3>1. /\ at[c] = "store" /\ at'[c] = "register" /\ on' = on /\ awaiting' = awaiting
      BY <1>1, <2>3 DEF Store, Goto
    <3>2. Line(v)' = g \o r
      BY <1>2, <3>1 DEF r
    <3>3. CASE on[c] # v
      <4>1. cache'[v] = cache[v] /\ Aside(c, v)
        BY <1>1, <2>3, <3>1, <3>3 DEF Store, Aside
      <4>2. QED
        BY <1>2, <1>5, <1>8, <3>2, <4>1
    <3>4. CASE on[c] = v
      <4>1. current[home[c]] = c /\ c \in Notifier[v] /\ cache[v] = <<>> /\ hands[c] # <<>>
        BY <3>1, <3>4 DEF CondVarInv, TypeOK, OpInv, KeptInv, Notifies
      <4>2. \A d \in Coro : at[d] = "store" /\ on[d] = v => d = c
        BY <4>1, Alone DEF Notifies
      <4>3. f = hands[c]
        BY <3>1, <3>4, <4>2, Foremosts DEF f
      <4>4. \A d \in Coro : ~(at'[d] = "store" /\ on'[d] = v)
        <5>1. \A d \in Coro : d # c => at'[d] = at[d] /\ on'[d] = on[d]
          BY <1>1, ActsLocal, OthersStay
        <5>2. QED
          BY <3>1, <4>2, <5>1
      <4>5. g = cache'[v]
        BY <4>4, Foremosts DEF g
      <4>6. cache'[v] = Tail(hands[c])
        BY <1>1, <2>3, <3>4, <4>1 DEF Store
      <4>7. QED
        BY <1>2, <1>8, <3>2, <4>1, <4>3, <4>5, <4>6
    <3>5. QED
      BY <3>3, <3>4
  <2>4. ASSUME RegisterOne(c)
        PROVE  Keeps(Line(v), Line(v)')
    <3>1. awaiting' = awaiting /\ cache' = cache /\ Aside(c, v)
      BY <1>1, <2>4 DEF RegisterOne, Goto, Aside, lists
    <3>2. QED
      BY <1>2, <1>5, <1>8, <3>1 DEF r
  <2>5. QED
    BY <1>11, <2>1, <2>2, <2>3, <2>4 DEF One
<1>12. CASE All(c)
  <2>1. Aside(c, v)
    BY <1>1, <1>12
       DEF All, NotifyAll, RegisterNext, Advance, TakeCache, AllNotified, Idle, Goto, Aside
  <2>2. ASSUME NEW u \in Cv, NotifyAll(c, u)
        PROVE  Keeps(Line(v), Line(v)')
    <3>1. cache' = cache /\ awaiting'[v] \in {awaiting[v], <<>>}
      BY <1>1, <2>2 DEF NotifyAll
    <3>2. Line(v)' \in {f \o r, f}
      BY <1>2, <1>5, <1>6, <1>8, <2>1, <3>1 DEF r
    <3>3. QED
      BY <1>2, <1>8, <3>2
  <2>3. ASSUME TakeCache(c)
        PROVE  Keeps(Line(v), Line(v)')
    <3>1. /\ awaiting' = awaiting /\ cache' = [cache EXCEPT ![on[c]] = <<>>]
          /\ current[home[c]] = c /\ at[c] = "new"
      BY <2>3 DEF TakeCache, Runs
    <3>2. Line(v)' = g \o r
      BY <1>2, <3>1 DEF r
    <3>3. CASE on[c] # v
      <4>1. cache'[v] = cache[v]
        BY <1>1, <3>1, <3>3
      <4>2. QED
        BY <1>2, <1>5, <1>8, <2>1, <3>2, <4>1
    <3>4. CASE on[c] = v
      <4>1. c \in Notifier[v]
        BY <3>1, <3>4 DEF CondVarInv, OpInv, Notifies
      <4>2. g = <<>>
        BY <1>1, <1>7, <2>1, <3>1, <3>4, <4>1
      <4>3. QED
        BY <1>2, <1>8, <3>2, <4>2
    <3>5. QED
      BY <3>3, <3>4
  <2>4. ASSUME RegisterNext(c) \/ Advance(c) \/ AllNotified(c)
        PROVE  Keeps(Line(v), Line(v)')
    <3>1. awaiting' = awaiting /\ cache' = cache
      BY <2>4 DEF RegisterNext, Advance, AllNotified, lists
    <3>2. QED
      BY <1>2, <1>5, <1>8, <2>1, <3>1 DEF r
  <2>5. QED
    BY <1>12, <2>2, <2>3, <2>4 DEF All
<1>13. QED
  BY <1>9, <1>10, <1>11, <1>12 DEF Acts

\* Whoever notify_one takes is the first in the line.
LEMMA StepChosen ==
  ASSUME CondVarInv, OneNotifyingThread, NEW c \in Coro, Acts(c), NEW v \in Cv, NEW d \in Coro,
         at'[d] = "register", on'[d] = v, hands[d] # hands'[d]
  PROVE  hands'[d] = <<Line(v)[1]>> /\ Line(v) # <<>>
<1> DEFINE f == Foremost(at, on, hands, cache, v)
           r == Reverse(awaiting[v])
<1>1. /\ at \in [Coro -> Place] /\ on \in [Coro -> Cv] /\ hands \in [Coro -> Seq(Coro)]
      /\ awaiting \in [Cv -> Seq(Coro)] /\ cache \in [Cv -> Seq(Coro)]
      /\ TypeOK
  BY DEF CondVarInv, TypeOK
<1>2. d = c
  BY <1>1, ActsLocal, OthersStay
<1>3. Line(v) = f \o r /\ f \in Seq(Coro) /\ r \in Seq(Coro)
  BY Lines, LineTyped
<1>4. ASSUME f # <<>>
      PROVE  Line(v)[1] = Head(f) /\ Line(v) # <<>>
  <2> HIDE DEF f, r
  <2>1. Len(f) \in Nat /\ Len(f) # 0 /\ Len(r) \in Nat
    BY <1>3, <1>4, Indices, EmptySeq
  <2>2. Len(f \o r) = Len(f) + Len(r) /\ (f \o r)[1] = f[1]
    <3>1. 1 \in 1..Len(f)
      BY <2>1
    <3>2. QED
      BY <1>3, <3>1, Joined
  <2>3. Len(f \o r) # 0
    BY <2>1, <2>2
  <2>4. Len(<<>>) = 0
    BY EmptyList
  <2>5. Line(v) # <<>>
    BY <1>3, <2>3, <2>4
  <2>6. Head(f) = f[1]
    BY <1>3, <1>4, HeadTailProperties
  <2>7. QED
    BY <1>3, <2>2, <2>5, <2>6
<1>5. (\E u \in Cv : NotifyOne(c, u)) \/ Store(c)
  <2>1. ~Plain(c)
    BY <1>2 DEF Plain, Resume, Yield, Lock, Unlock, op
  <2>2. ~Waiting(c)
    BY <1>2 DEF Waiting, Wait, UnlockAhead
  <2>3. ~Exchange(c) /\ ~RegisterOne(c)
    BY <1>1, <1>2 DEF Exchange, RegisterOne, Goto
  <2>4. ~All(c)
    BY <1>1, <1>2 DEF All, NotifyAll, RegisterNext, Advance, TakeCache, AllNotified, Goto
  <2>5. QED
    BY <2>1, <2>2, <2>3, <2>4 DEF Acts, One
<1>6. ASSUME NEW u \in Cv, NotifyOne(c, u)
      PROVE  hands'[c] = <<Head(f)>> /\ f # <<>>
  <2>1. /\ u = v /\ at[c] = "out" /\ current[home[c]] = c /\ c \in Notifier[v]
        /\ cache[v] # <<>> /\ hands'[c] = <<Head(cache[v])>>
    BY <1>1, <1>2, <1>6 DEF NotifyOne, Idle, Runs, Goto
  <2>2. \A e \in Coro : ~(at[e] = "store" /\ on[e] = v)
    BY <2>1, Alone DEF Notifies
  <2>3. f = cache[v]
    BY <2>2, Foremosts
  <2>4. QED
    BY <2>1, <2>3
<1>7. ASSUME Store(c)
      PROVE  hands'[c] = <<Head(f)>> /\ f # <<>>
  <2>1. on[c] = v /\ at[c] = "store" /\ Runs(c)
    BY <1>2, <1>7 DEF Store
  <2>2. cache[v] = <<>> /\ hands[c] # <<>> /\ current[home[c]] = c /\ c \in Notifier[v]
    BY <2>1 DEF CondVarInv, TypeOK, OpInv, KeptInv, Notifies
  <2>3. \A e \in Coro : at[e] = "store" /\ on[e] = v => e = c
    BY <2>2, Alone DEF Notifies
  <2>4. f = hands[c]
    BY <2>1, <2>3, Foremosts
  <2>5. hands'[c] = <<Head(hands[c])>>
    BY <1>1, <1>7, <2>1, <2>2 DEF Store
  <2>6. QED
    BY <2>2, <2>4, <2>5
<1>8. QED
  BY <1>2, <1>4, <1>5, <1>6, <1>7

\* notify_one serves whoever has waited longest, and nothing changes the order.
THEOREM LongestFirst == Spec => ServedInOrder
<1>1. ASSUME CondVarInv, CondVarInv', [Next]_cvVars, OneNotifyingThread, NEW v \in Cv,
             NEW i \in DOMAIN Line(v), NEW j \in DOMAIN Line(v), i < j
      PROVE  /\ \A c \in Coro : at'[c] = "register" /\ on'[c] = v /\ hands[c] # hands'[c]
                              => hands'[c] # <<Line(v)[j]>>
             /\ \A k, l \in DOMAIN Line(v)' :
                    Line(v)'[k] = Line(v)[i] /\ Line(v)'[l] = Line(v)[j] => k < l
  <2> DEFINE q == Line(v)
             t == Line(v)'
  <2>1. /\ q \in Seq(Coro) /\ Distinct(q) /\ DOMAIN q = 1..Len(q) /\ Len(q) \in Nat
    BY <1>1, LineTyped, Indices
  <2>2. t \in Seq(Coro) /\ DOMAIN t = 1..Len(t)
    <3>1. t \in Seq(Coro)
      <4>1. /\ hands' \in [Coro -> Seq(Coro)] /\ cache'[v] \in Seq(Coro)
            /\ awaiting'[v] \in Seq(Coro)
        BY <1>1 DEF CondVarInv, TypeOK
      <4>2. Foremost(at', on', hands', cache', v) \in Seq(Coro)
        BY <4>1, ForemostTyped
      <4>3. Reverse(awaiting'[v]) \in Seq(Coro)
        BY <4>1, Reversed
      <4>4. QED
        BY <4>2, <4>3, Lines, Joined
    <3>2. QED
      BY <3>1, Indices
  <2> HIDE DEF q, t
  <2>3. Next => \E c \in Coro : Acts(c)
    BY Steps
  <2>4. Keeps(q, t)
    <3>1. ASSUME NEW c \in Coro, Acts(c)
          PROVE  Keeps(q, t)
      BY <1>1, <3>1, StepLine DEF q, t
    <3>2. ASSUME UNCHANGED cvVars
          PROVE  Keeps(q, t)
      <4>1. t = q
        BY <3>2 DEF cvVars, lists, op, Line, q, t
      <4>2. <<>> \in Seq(Coro) /\ q \o <<>> = q
        BY <2>1, EmptyList, ConcatEmptySeq
      <4>3. QED
        BY <2>1, <4>1, <4>2, CutKeeps
    <3>3. QED
      BY <1>1, <2>3, <3>1, <3>2
  <2>5. ASSUME NEW c \in Coro, at'[c] = "register", on'[c] = v, hands[c] # hands'[c]
        PROVE  hands'[c] # <<q[j]>>
    <3>1. \E e \in Coro : Acts(e)
      BY <1>1, <2>3, <2>5 DEF cvVars, op
    <3>2. hands'[c] = <<q[1]>> /\ q # <<>>
      BY <1>1, <2>5, <3>1, StepChosen DEF q
    <3>3. i \in 1..Len(q) /\ j \in 1..Len(q) /\ 1 \in 1..Len(q) /\ j # 1
      BY <1>1, <2>1 DEF q
    <3>4. q[j] # q[1]
      BY <2>1, <3>3 DEF Distinct
    <3>5. QED
      BY <3>2, <3>4
  <2>6. \A k, l \in DOMAIN t : t[k] = q[i] /\ t[l] = q[j] => k < l
    <3>1. i \in 1..Len(q) /\ j \in 1..Len(q)
      BY <1>1, <2>1 DEF q
    <3>2. QED
      BY <1>1, <2>2, <2>4, <3>1 DEF Keeps
  <2>7. QED
    BY <2>5, <2>6 DEF q, t
<1>2. CondVarInv /\ CondVarInv' /\ [Next]_cvVars
        => (OneNotifyingThread =>
             \A v \in Cv : \A i, j \in DOMAIN Line(v) : i < j =>
                 /\ \A c \in Coro : at'[c] = "register" /\ on'[c] = v /\ hands[c] # hands'[c]
                                  => hands'[c] # <<Line(v)[j]>>
                 /\ \A k, l \in DOMAIN Line(v)' :
                        Line(v)'[k] = Line(v)[i] /\ Line(v)'[l] = Line(v)[j] => k < l)
  BY <1>1
<1>3. QED
  BY <1>2, CvInvariance, PTL DEF Spec, ServedInOrder
-----------------------------------------------------------------------------
(* The channel: the inductive invariant.                                    *)

\* size_ items follow first_ in the ring, and last_ is where they end.
RingInv == /\ buf \in [Slot -> Item \cup {NoItem}]
           /\ first \in Slot /\ last \in Slot
           /\ size \in 0..Capacity
           /\ last = Wrap(first + size)
           /\ \A k \in 1..size : buf[Wrap(first + k - 1)] \in Item

\* What each coroutine carries at each operation.
ItemInv == /\ item \in [Coro -> Item \cup {NoItem}]
           /\ doing \in [Coro -> Operation]
           /\ \A c \in Coro : /\ doing[c] = "release" => item[c] \in Item
                              /\ doing[c] \notin {"release", "notify not full"}
                                 => item[c] = NoItem

IInv == RingInv /\ ItemInv
-----------------------------------------------------------------------------
(* The ring.                                                                *)

LEMMA WrapSlot == ASSUME NEW s \in 0..(2 * Capacity - 1) PROVE Wrap(s) \in Slot
  BY ChannelAssumption DEF Wrap, Slot

\* The first size_ + 1 places from first_ are different slots while there is room.
LEMMA FreeSlot ==
  ASSUME RingInv, size < Capacity, NEW k \in 1..size
  PROVE  /\ Wrap(first + k - 1) \in Slot
         /\ Wrap(first + k - 1) # last
  BY ChannelAssumption DEF RingInv, Wrap, Slot

\* first_ is the slot of no other item.
LEMMA FirstSlot ==
  ASSUME RingInv, NEW k \in 2..size
  PROVE  /\ Wrap(first + k - 1) \in Slot
         /\ Wrap(first + k - 1) # first
  BY ChannelAssumption DEF RingInv, Wrap, Slot

LEMMA ItemsSeq ==
  ASSUME RingInv
  PROVE  /\ Items \in Seq(Item)
         /\ Len(Items) = size
         /\ \A k \in 1..size : Items[k] = buf[Wrap(first + k - 1)]
<1>1. size \in Nat
  BY ChannelAssumption DEF RingInv
<1>2. Items \in [1..size -> Item]
  BY DEF RingInv, Items
<1>3. QED
  BY <1>1, <1>2 DEF Items

LEMMA ItemsPrimed ==
  ASSUME RingInv'
  PROVE  /\ Items' \in Seq(Item)
         /\ Len(Items') = size'
         /\ \A k \in 1..size' : Items'[k] = buf'[Wrap(first' + k - 1)]
<1>1. size' \in Nat
  BY ChannelAssumption DEF RingInv
<1>2. Items' = [k \in 1..size' |-> buf'[Wrap(first' + k - 1)]]
  BY DEF Items, Wrap
<1>3. \A k \in 1..size' : buf'[Wrap(first' + k - 1)] \in Item
  BY DEF RingInv, Wrap
<1>4. Items' \in [1..size' -> Item]
  BY <1>2, <1>3
<1>5. QED
  BY <1>1, <1>2, <1>4

\* push_one adds an item behind the others.
LEMMA Pushed ==
  ASSUME RingInv, size < Capacity, NEW v \in Item, PushOne(v)
  PROVE  RingInv' /\ Items' = Append(Items, v)
<1>1. /\ buf' = [buf EXCEPT ![last] = v]
      /\ last' = Wrap(last + 1)
      /\ size' = size + 1
      /\ first' = first
  BY DEF PushOne
<1>2. /\ buf' \in [Slot -> Item \cup {NoItem}]
      /\ first' \in Slot /\ last' \in Slot
      /\ size' \in 0..Capacity
      /\ last' = Wrap(first' + size')
  BY <1>1, ChannelAssumption DEF RingInv, Wrap, Slot
<1>3. \A k \in 1..size : buf'[Wrap(first + k - 1)] = buf[Wrap(first + k - 1)]
  BY <1>1, FreeSlot DEF RingInv
<1>4. Wrap(first + size' - 1) = last /\ buf'[last] = v
  BY <1>1, ChannelAssumption DEF RingInv, Wrap, Slot
<1>5. \A k \in 1..size' : buf'[Wrap(first' + k - 1)] \in Item
  <2> SUFFICES ASSUME NEW k \in 1..size'
               PROVE  buf'[Wrap(first' + k - 1)] \in Item
    OBVIOUS
  <2>1. CASE k = size'
    BY <2>1, <1>1, <1>4
  <2>2. CASE k # size'
    <3>1. k \in 1..size
      BY <2>2, <1>1, ChannelAssumption DEF RingInv
    <3>2. QED
      BY <3>1, <1>1, <1>3 DEF RingInv
  <2>3. QED
    BY <2>1, <2>2
<1>6. RingInv'
  BY <1>2, <1>5 DEF RingInv, Wrap, Slot
<1>7. Items' = Append(Items, v)
  <2>1. /\ Items \in Seq(Item) /\ Len(Items) = size
        /\ \A k \in 1..size : Items[k] = buf[Wrap(first + k - 1)]
    BY ItemsSeq
  <2>2. /\ Items' \in Seq(Item) /\ Len(Items') = size'
        /\ \A k \in 1..size' : Items'[k] = buf'[Wrap(first' + k - 1)]
    BY <1>6, ItemsPrimed
  <2>3. /\ Append(Items, v) \in Seq(Item)
        /\ Len(Append(Items, v)) = size'
        /\ \A k \in 1..size : Append(Items, v)[k] = Items[k]
        /\ Append(Items, v)[size'] = v
    BY <2>1, <1>1, AppendProperties
  <2>4. ASSUME NEW k \in 1..size'
        PROVE  Items'[k] = Append(Items, v)[k]
    <3>1. CASE k = size'
      BY <3>1, <2>2, <2>3, <1>1, <1>4
    <3>2. CASE k # size'
      <4>1. k \in 1..size
        BY <3>2, <1>1, ChannelAssumption DEF RingInv
      <4>2. QED
        BY <4>1, <1>1, <1>3, <2>1, <2>2, <2>3
    <3>3. QED
      BY <3>1, <3>2
  <2>5. QED
    BY <2>2, <2>3, <2>4, SeqEqual
<1>8. QED
  BY <1>6, <1>7

\* pop_one takes the first away.
LEMMA Popped ==
  ASSUME RingInv, size > 0, PopOne
  PROVE  /\ RingInv'
         /\ Items # <<>>
         /\ buf[first] = Head(Items) /\ buf[first] \in Item
         /\ Items' = Tail(Items)
<1>1. /\ buf' = [buf EXCEPT ![first] = NoItem]
      /\ first' = Wrap(first + 1)
      /\ size' = size - 1
      /\ last' = last
  BY DEF PopOne
<1>2. /\ buf' \in [Slot -> Item \cup {NoItem}]
      /\ first' \in Slot /\ last' \in Slot
      /\ size' \in 0..Capacity
      /\ last' = Wrap(first' + size')
  BY <1>1, ChannelAssumption DEF RingInv, Wrap, Slot
<1>3. ASSUME NEW k \in 1..size'
      PROVE  /\ k + 1 \in 2..size
             /\ Wrap(first' + k - 1) = Wrap(first + (k + 1) - 1)
  BY <1>1, ChannelAssumption DEF RingInv, Wrap, Slot
<1>4. ASSUME NEW k \in 1..size'
      PROVE  buf'[Wrap(first' + k - 1)] = buf[Wrap(first + (k + 1) - 1)]
  <2>1. /\ Wrap(first + (k + 1) - 1) \in Slot
        /\ Wrap(first + (k + 1) - 1) # first
    BY <1>3, FirstSlot
  <2>2. QED
    BY <2>1, <1>1, <1>3 DEF RingInv
<1>5. \A k \in 1..size' : buf'[Wrap(first' + k - 1)] \in Item
  <2> SUFFICES ASSUME NEW k \in 1..size'
               PROVE  buf'[Wrap(first' + k - 1)] \in Item
    OBVIOUS
  <2>1. k + 1 \in 1..size
    BY <1>3, ChannelAssumption DEF RingInv
  <2>2. QED
    BY <2>1, <1>4 DEF RingInv
<1>6. RingInv'
  BY <1>2, <1>5 DEF RingInv, Wrap, Slot
<1>7. /\ Items \in Seq(Item) /\ Len(Items) = size
      /\ \A k \in 1..size : Items[k] = buf[Wrap(first + k - 1)]
  BY ItemsSeq
<1>8. Items # <<>> /\ Head(Items) = Items[1]
  BY <1>7
<1>9. Wrap(first + 1 - 1) = first /\ 1 \in 1..size
  BY ChannelAssumption DEF RingInv, Wrap, Slot
<1>10. buf[first] = Head(Items) /\ buf[first] \in Item
  BY <1>7, <1>8, <1>9 DEF RingInv
<1>11. Items' = Tail(Items)
  <2>1. /\ Items' \in Seq(Item) /\ Len(Items') = size'
        /\ \A k \in 1..size' : Items'[k] = buf'[Wrap(first' + k - 1)]
    BY <1>6, ItemsPrimed
  <2>2. /\ Tail(Items) \in Seq(Item)
        /\ Len(Tail(Items)) = size'
        /\ \A k \in 1..size' : Tail(Items)[k] = Items[k + 1]
    BY <1>1, <1>7, <1>8, HeadTailProperties
  <2>3. ASSUME NEW k \in 1..size'
        PROVE  Items'[k] = Tail(Items)[k]
    <3>1. k + 1 \in 1..size
      BY <1>3, ChannelAssumption DEF RingInv
    <3>2. QED
      BY <3>1, <1>4, <1>7, <2>1, <2>2
  <2>4. QED
    BY <2>1, <2>2, <2>3, SeqEqual
<1>12. QED
  BY <1>6, <1>8, <1>10, <1>11

\* What the mutex and the condition variables do is nothing to the ring.
LEMMA RingKept ==
  ASSUME UNCHANGED ring
  PROVE  (RingInv => RingInv') /\ Items' = Items
<1>1. UNCHANGED <<buf, first, last, size>>
  BY DEF ring
<1>2. QED
  BY <1>1 DEF RingInv, Items, Wrap, Slot
-----------------------------------------------------------------------------
(* Every step keeps the invariant and is a step of the bounded queue, or    *)
(* none.                                                                    *)

QueueStep == Queue!QueueNext \/ UNCHANGED <<Items, item>>

LEMMA InitInvariant == ChannelInit => IInv /\ Queue!QueueInit
<1> SUFFICES ASSUME ChannelInit PROVE IInv /\ Queue!QueueInit
  OBVIOUS
<1>1. RingInv
  BY ChannelAssumption DEF ChannelInit, RingInv, Wrap, Slot
<1>2. ItemInv
  BY DEF ChannelInit, ItemInv, Operation
<1>3. Items = <<>>
  BY <1>1, ItemsSeq DEF ChannelInit
<1>4. item = [c \in Coro |-> NoItem]
  BY DEF ChannelInit
<1>5. QED
  BY <1>1, <1>2, <1>3, <1>4 DEF IInv, Queue!QueueInit

\* Resuming, yielding, waiting and notifying leave items alone.
LEMMA KeepStep ==
  ASSUME IInv, UNCHANGED <<ring, doing, item>>
  PROVE  IInv' /\ QueueStep
<1>1. RingInv' /\ Items' = Items
  BY RingKept DEF IInv
<1>2. doing' = doing /\ item' = item
  OBVIOUS
<1>3. ItemInv'
  BY <1>2 DEF IInv, ItemInv
<1>4. QED
  BY <1>1, <1>2, <1>3 DEF IInv, QueueStep

LEMMA BeginStep ==
  ASSUME IInv, NEW c \in Coro, NEW what \in {"acquire", "drop", "release"},
         NEW v \in Item \cup {NoItem},
         IF what = "release" THEN v \in Item ELSE v = NoItem,
         Begin(c, what, v)
  PROVE  IInv' /\ QueueStep
<1>1. /\ doing[c] = "nothing"
      /\ doing' = [doing EXCEPT ![c] = what]
      /\ item' = [item EXCEPT ![c] = v]
      /\ UNCHANGED ring
  BY DEF Begin
<1>2. RingInv' /\ Items' = Items
  BY <1>1, RingKept DEF IInv
<1>3. ItemInv'
  BY <1>1 DEF IInv, ItemInv, Operation
<1>4. item[c] = NoItem
  BY <1>1 DEF IInv, ItemInv
<1>5. Queue!Choose(c, v)
  BY <1>1, <1>2 DEF Queue!Choose
<1>6. QED
  BY <1>2, <1>3, <1>4, <1>5 DEF IInv, QueueStep, Queue!QueueNext

LEMMA AcquireStep ==
  ASSUME IInv, NEW c \in Coro, Acquire(c)
  PROVE  IInv' /\ QueueStep
<1>1. /\ ~Empty /\ PopOne
      /\ item' = [item EXCEPT ![c] = buf[first]]
      /\ doing' = [doing EXCEPT ![c] = "notify not full"]
  BY DEF Acquire
<1>2. RingInv /\ size > 0
  <2>1. RingInv
    BY DEF IInv
  <2>2. size # 0
    BY <1>1 DEF Empty
  <2>3. QED
    BY <2>1, <2>2 DEF RingInv
<1>3. /\ RingInv'
      /\ Items # <<>>
      /\ buf[first] = Head(Items) /\ buf[first] \in Item
      /\ Items' = Tail(Items)
  BY <1>1, <1>2, Popped
<1>4. ItemInv'
  BY <1>1, <1>3 DEF IInv, ItemInv, Operation
<1>5. Queue!Get(c)
  BY <1>1, <1>3 DEF Queue!Get
<1>6. QED
  BY <1>3, <1>4, <1>5 DEF IInv, QueueStep, Queue!QueueNext

LEMMA DropStep ==
  ASSUME IInv, NEW c \in Coro, Drop(c)
  PROVE  IInv' /\ QueueStep
<1>1. /\ doing[c] = "drop" /\ ~Empty /\ PopOne
      /\ item' = item
      /\ doing' = [doing EXCEPT ![c] = "notify not full"]
  BY DEF Drop, Holds
<1>2. RingInv /\ size > 0
  <2>1. RingInv
    BY DEF IInv
  <2>2. size # 0
    BY <1>1 DEF Empty
  <2>3. QED
    BY <2>1, <2>2 DEF RingInv
<1>3. RingInv' /\ Items # <<>> /\ Items' = Tail(Items)
  BY <1>1, <1>2, Popped
<1>4. ItemInv'
  BY <1>1 DEF IInv, ItemInv, Operation
<1>5. Queue!Discard
  BY <1>1, <1>3 DEF Queue!Discard
<1>6. QED
  BY <1>3, <1>4, <1>5 DEF IInv, QueueStep, Queue!QueueNext

LEMMA ReleaseStep ==
  ASSUME IInv, NEW c \in Coro, Release(c)
  PROVE  IInv' /\ QueueStep
<1>1. /\ doing[c] = "release" /\ ~Full /\ PushOne(item[c])
      /\ doing' = [doing EXCEPT ![c] = "notify not empty"]
      /\ item' = [item EXCEPT ![c] = NoItem]
  BY DEF Release, Holds
<1>2. RingInv /\ size < Capacity
  <2>1. RingInv
    BY DEF IInv
  <2>2. size # Capacity
    BY <1>1 DEF Full
  <2>3. QED
    BY <2>1, <2>2, ChannelAssumption DEF RingInv
<1>3. item[c] \in Item
  BY <1>1 DEF IInv, ItemInv
<1>4. RingInv' /\ Items' = Append(Items, item[c])
  BY <1>1, <1>2, <1>3, Pushed
<1>5. ItemInv'
  BY <1>1 DEF IInv, ItemInv, Operation
<1>6. Len(Items) < Capacity /\ item[c] # NoItem
  BY <1>2, <1>3, ItemsSeq, ChannelAssumption
<1>7. Queue!Put(c)
  BY <1>1, <1>4, <1>6 DEF Queue!Put
<1>8. QED
  BY <1>4, <1>5, <1>7 DEF IInv, QueueStep, Queue!QueueNext

LEMMA NotifyStep ==
  ASSUME IInv, NEW c \in Coro, NotifyOther(c)
  PROVE  IInv' /\ QueueStep
<1>1. /\ doing' = [doing EXCEPT ![c] = "nothing"]
      /\ item' = [item EXCEPT ![c] = NoItem]
      /\ UNCHANGED ring
  BY DEF NotifyOther
<1>2. RingInv' /\ Items' = Items
  BY <1>1, RingKept DEF IInv
<1>3. ItemInv'
  BY <1>1 DEF IInv, ItemInv, Operation
<1>4. CASE item[c] = NoItem
  <2>1. item' = item
    BY <1>1, <1>4 DEF IInv, ItemInv
  <2>2. QED
    BY <1>2, <1>3, <2>1 DEF IInv, QueueStep
<1>5. CASE item[c] # NoItem
  <2>1. Queue!Choose(c, NoItem)
    BY <1>1, <1>2 DEF Queue!Choose
  <2>2. QED
    BY <1>2, <1>3, <1>5, <2>1 DEF IInv, QueueStep, Queue!QueueNext
<1>6. QED
  BY <1>4, <1>5

LEMMA StepInvariant == IInv /\ [ChannelNext]_channelVars => IInv' /\ QueueStep
<1> SUFFICES ASSUME IInv, [ChannelNext]_channelVars
             PROVE  IInv' /\ QueueStep
  OBVIOUS
<1>1. ASSUME NEW c \in Coro, Enter(c) \/ Leave(c) \/ AwaitItem(c) \/ AwaitRoom(c) \/ Notify(c)
      PROVE  IInv' /\ QueueStep
  <2>1. UNCHANGED <<ring, doing, item>>
    BY <1>1 DEF Enter, Leave, AwaitItem, AwaitRoom, Notify
  <2>2. QED
    BY <2>1, KeepStep
<1>2. ASSUME NEW c \in Coro, Begin(c, "acquire", NoItem) \/ Begin(c, "drop", NoItem)
      PROVE  IInv' /\ QueueStep
  BY <1>2, BeginStep
<1>3. ASSUME NEW c \in Coro, NEW v \in Item, Begin(c, "release", v)
      PROVE  IInv' /\ QueueStep
  BY <1>3, BeginStep
<1>4. CASE UNCHANGED channelVars
  <2>1. UNCHANGED <<ring, doing, item>>
    BY <1>4 DEF channelVars
  <2>2. QED
    BY <2>1, KeepStep
<1>5. QED
  BY <1>1, <1>2, <1>3, <1>4, AcquireStep, DropStep, ReleaseStep, NotifyStep DEF ChannelNext

LEMMA Invariance == ChannelSpec => []IInv
<1>1. ChannelInit => IInv
  BY InitInvariant
<1>2. IInv /\ [ChannelNext]_channelVars => IInv'
  BY StepInvariant
<1>3. QED
  BY <1>1, <1>2, PTL DEF ChannelSpec
-----------------------------------------------------------------------------
(* The channel is a bounded queue.                                          *)

\* What the channel promises, for every capacity: items come out once, in the
\* order in which they went in, and at most capacity of them are inside.
THEOREM Refinement == ChannelSpec => ImplementsBoundedQueue
<1>1. ChannelInit => Queue!QueueInit
  BY InitInvariant
<1>2. IInv /\ [ChannelNext]_channelVars => [Queue!QueueNext]_(Queue!queueVars)
  BY StepInvariant DEF QueueStep, Queue!queueVars
<1>3. QED
  BY <1>1, <1>2, Invariance, PTL DEF ChannelSpec, ImplementsBoundedQueue, Queue!QueueSpec
-----------------------------------------------------------------------------
(* The channel's wakeups: the inductive invariant.                          *)

\* What waits on v, what notifies it, and what is there for those who wait.
Wants(v) == IF v = NotEmpty THEN {"acquire", "drop"} ELSE {"release"}
Makes(v) == IF v = NotEmpty THEN "notify not empty" ELSE "notify not full"
Supply(v) == IF v = NotEmpty THEN size ELSE Capacity - size

\* The mutex is x's, or will be.
Claimed(x) == x \in ready \/ In(x, lockQueue)

\* The waiters that nobody has notified.
Unchosen(v) == {w \in Coro : at[w] \in {"unlock", "asleep"} /\ on[w] = v /\ ~Claimed(w)}

\* Whoever will look for what is there, or notify somebody who will.
Serving(v) == {c \in Coro : \/ doing[c] \in Wants(v) /\ c \notin Unchosen(v)
                            \/ doing[c] = Makes(v)
                            \/ at[c] \in {"exchange", "store", "register"} /\ on[c] = v}

\* How each part of an operation goes with the mutex and the condition variables.
InUse == {"acquire", "drop", "release"}
NotifyingOne == {"exchange", "store", "register"}
UseInv == /\ ~undefined
          /\ \A c \in Coro :
                /\ at[c] \in {"out", "locking", "unlock", "asleep"} \cup NotifyingOne
                /\ at[c] \in {"unlock", "asleep"} => doing[c] \in Wants(on[c])
                /\ at[c] = "locking" => doing[c] \in InUse
                /\ at[c] \in NotifyingOne => doing[c] = "nothing"
                /\ owner = c => doing[c] \in InUse
                /\ owner = c /\ at[c] \in {"locking", "asleep"} => c \in ready
                /\ at[c] = "locking" => Claimed(c)

\* The coroutines that use the channel, of which there are finitely many.
Users == {c \in Coro : doing[c] # "nothing" \/ at[c] # "out"}

\* While somebody waits unnotified, there is somebody on the way for everything
\* that is there.
ServedInv == OneNotifyingThread =>
                \A v \in Cv : Unchosen(v) # {} => Supply(v) <= Cardinality(Serving(v))

WakeInv == CondVarInv /\ IInv /\ UseInv /\ IsFiniteSet(Users) /\ ServedInv
-----------------------------------------------------------------------------
(* The channel's steps are steps of the condition variables.                *)

ChannelStep(c) == \/ Enter(c) \/ Leave(c)
                  \/ c \in Consumer /\ (Begin(c, "acquire", NoItem) \/ Begin(c, "drop", NoItem))
                  \/ c \in Producer /\ \E v \in Item : Begin(c, "release", v)
                  \/ AwaitItem(c) \/ AwaitRoom(c)
                  \/ Acquire(c) \/ Drop(c) \/ Release(c)
                  \/ NotifyOther(c) \/ Notify(c)

LEMMA ChannelSteps == ChannelNext <=> \E c \in Coro : ChannelStep(c)
  BY DEF ChannelNext, ChannelStep

LEMMA OwnStep ==
  ASSUME UseInv, NEW c \in Coro, ChannelStep(c)
  PROVE  Acts(c)
<1>1. NotEmpty \in Cv /\ NotFull \in Cv
  BY ChannelAssumption
<1>2. doing[c] = "nothing" => owner # c
  BY DEF UseInv, InUse
<1>3. Enter(c) \/ Leave(c) => Plain(c)
  BY DEF Enter, Leave, Plain
<1>4. ASSUME NEW what, NEW v, Begin(c, what, v)
      PROVE  Plain(c)
  BY <1>2, <1>4 DEF Begin, Plain
<1>5. AwaitItem(c) \/ AwaitRoom(c) => Waiting(c)
  BY <1>1 DEF AwaitItem, AwaitRoom, Holds, Waiting
<1>6. Acquire(c) \/ Drop(c) \/ Release(c) => Plain(c)
  BY DEF Acquire, Drop, Release, Plain
<1>7. NotifyOther(c) => One(c)
  BY <1>1 DEF NotifyOther, One
<1>8. Notify(c) => Waiting(c) \/ One(c) \/ All(c)
  BY DEF Notify, Continue, Waiting, One, All
<1>9. QED
  BY <1>3, <1>4, <1>5, <1>6, <1>7, <1>8 DEF ChannelStep, Acts

\* Who owns the mutex after a step, and who will.
LEMMA NewOwner ==
  ASSUME CondVarInv, NEW c \in Coro, Acts(c), NEW d \in Coro, owner' = d, owner # d
  PROVE  \/ d = c /\ Lock(c) /\ at' = at
         \/ d \in ready' /\ Suspended(d)
<1>1. TypeOK /\ \A x \in Coro : On(x, Lists) => Suspended(x)
  BY DEF CondVarInv, ListInv
<1>2. NoCoro \notin Coro /\ at \in [Coro -> Place]
  BY <1>1, Given DEF TypeOK
<1>3. ASSUME GiveUp
      PROVE  d \in ready' /\ Suspended(d)
  <2>1. lockQueue # <<>> /\ d = Head(lockQueue) /\ ready' = ready \cup {d}
    BY <1>1, <1>2, <1>3, GivenUp
  <2>2. In(d, lockQueue)
    <3>1. lockQueue \in Seq(Coro)
      BY <1>1 DEF TypeOK
    <3>2. QED
      BY <2>1, <3>1, Taken
  <2>3. QED
    BY <1>1, <2>1, <2>2, Listed
<1>4. ASSUME hands[c] # <<>>, Register(Head(hands[c])), In(Head(hands[c]), InHands(c))
      PROVE  d \in ready' /\ Suspended(d)
  <2>1. Head(hands[c]) \in Coro
    BY <1>1, <1>4, Parts, Taken
  <2>2. d = Head(hands[c]) /\ ready' = ready \cup {d}
    BY <1>1, <1>4, <2>1, Registered
  <2>3. QED
    BY <1>1, <1>4, <2>2, Listed
<1>5. RegisterOne(c) \/ RegisterNext(c)
        => hands[c] # <<>> /\ Register(Head(hands[c])) /\ In(Head(hands[c]), InHands(c))
  <2>1. at[c] = "register" => hands[c] # <<>>
    BY <1>1 DEF TypeOK
  <2>2. hands[c] # <<>> => In(Head(hands[c]), hands[c])
    BY <1>1, Parts, Taken
  <2>3. QED
    BY <2>1, <2>2 DEF RegisterOne, RegisterNext, InHands
<1>6. Lock(c) => d = c /\ at' = at
  BY DEF Lock, Mutex!Take, Mutex!Join
<1>7. QED
  BY <1>3, <1>4, <1>5, <1>6
     DEF Acts, Plain, Waiting, One, All, Resume, Yield, Lock, Unlock, Wait, UnlockAhead, NotifyOne,
         Exchange, Store, NotifyAll, Advance, TakeCache, AllNotified, mutex, lists

\* Whoever has a claim keeps it, unless it returns with the mutex.
LEMMA ClaimKept ==
  ASSUME TypeOK, NEW c \in Coro, Acts(c), NEW d \in Coro, Claimed(d), ~(d = c /\ Resume(c))
  PROVE  Claimed(d)'
<1>1. lockQueue \in Seq(Coro)
  BY DEF TypeOK
<1>2. ASSUME GiveUp
      PROVE  Claimed(d)'
  <2>1. lockQueue # <<>> => \A y : In(y, lockQueue) <=> y = Head(lockQueue) \/ In(y, Tail(lockQueue))
    BY <1>1, Taken
  <2>2. QED
    BY <1>2, <2>1, GivenUp DEF Claimed
<1>3. ASSUME NEW w \in Coro, Register(w)
      PROVE  Claimed(d)'
  <2>1. \A y : In(y, Append(lockQueue, w)) <=> y = w \/ In(y, lockQueue)
    BY <1>1, Added
  <2>2. QED
    BY <1>3, <2>1, Registered DEF Claimed
<1>4. ASSUME lockQueue' = lockQueue \/ lockQueue' = Append(lockQueue, c), ready \ {d} \subseteq ready',
             d \in ready => d \in ready'
      PROVE  Claimed(d)'
  <2>1. \A y : In(y, Append(lockQueue, c)) <=> y = c \/ In(y, lockQueue)
    BY <1>1, Added
  <2>2. QED
    BY <1>4, <2>1 DEF Claimed
<1>5. CASE Plain(c)
  <2>1. Unlock(c) => GiveUp
    BY DEF Unlock
  <2>2. Lock(c) => (lockQueue' = lockQueue \/ lockQueue' = Append(lockQueue, c)) /\ ready' = ready
    BY DEF Lock, Mutex!Take, Mutex!Join
  <2>3. Yield(c) => lockQueue' = lockQueue /\ ready \subseteq ready'
    BY DEF Yield, mutex
  <2>4. Resume(c) => lockQueue' = lockQueue /\ (d \in ready => d \in ready')
    BY DEF Resume, mutex
  <2>5. Resume(c) => Claimed(d)'
    BY <2>4 DEF Claimed
  <2>6. QED
    BY <1>2, <1>4, <1>5, <2>1, <2>2, <2>3, <2>5 DEF Plain
<1>6. CASE Waiting(c)
  <2>1. UnlockAhead(c) => GiveUp
    BY DEF UnlockAhead
  <2>2. (\E v \in Cv : Wait(c, v)) => lockQueue' = lockQueue /\ ready' = ready
    BY DEF Wait, mutex
  <2>3. QED
    BY <1>2, <1>4, <1>6, <2>1, <2>2 DEF Waiting
<1>7. CASE One(c) \/ All(c)
  <2>1. RegisterOne(c) \/ RegisterNext(c) => Head(hands[c]) \in Coro /\ Register(Head(hands[c]))
    <3>1. hands[c] \in Seq(Coro) /\ (at[c] = "register" => hands[c] # <<>>)
      BY DEF TypeOK
    <3>2. hands[c] # <<>> => Head(hands[c]) \in Coro
      BY <3>1, Taken
    <3>3. QED
      BY <3>1, <3>2 DEF RegisterOne, RegisterNext
  <2>2. ~(RegisterOne(c) \/ RegisterNext(c)) => lockQueue' = lockQueue /\ ready' = ready
    BY <1>7 DEF One, All, NotifyOne, Exchange, Store, NotifyAll, Advance, TakeCache, AllNotified,
                mutex
  <2>3. QED
    BY <1>3, <1>4, <2>1, <2>2
<1>8. QED
  BY <1>5, <1>6, <1>7 DEF Acts

\* Only the coroutine that acts leaves its io_context's queue.
LEMMA QueuedStay ==
  ASSUME TypeOK, NEW c \in Coro, Acts(c)
  PROVE  ready \ {c} \subseteq ready'
<1>1. GiveUp => ready \subseteq ready'
  BY DEF GiveUp
<1>2. \A w : Register(w) => ready \subseteq ready'
  BY DEF Register
<1>3. QED
  BY <1>1, <1>2
     DEF Acts, Plain, Waiting, One, All, Resume, Yield, Lock, Unlock, Wait, UnlockAhead, NotifyOne,
         Exchange, Store, RegisterOne, NotifyAll, RegisterNext, Advance, TakeCache, AllNotified

\* Nobody else's operation changes.
LEMMA OthersUse ==
  ASSUME TypeOK, IInv, UseInv, NEW c \in Coro, ChannelStep(c), NEW d \in Coro, d # c
  PROVE  at'[d] = at[d] /\ on'[d] = on[d] /\ doing'[d] = doing[d]
<1>1. Acts(c)
  BY OwnStep
<1>2. at'[d] = at[d] /\ on'[d] = on[d]
  BY <1>1, ActsLocal, OthersStay
<1>3. doing \in [Coro -> Operation]
  BY DEF IInv, ItemInv
<1>4. doing'[d] = doing[d]
  BY <1>3 DEF ChannelStep, Enter, Leave, Begin, AwaitItem, AwaitRoom, Acquire, Drop, Release,
              NotifyOther, Notify
<1>5. QED
  BY <1>2, <1>4

\* A part of an operation, what it does with the condition variables, and where
\* it leaves the coroutine.
Turn(c, a, b, e) == at[c] = a /\ at'[c] = b /\ doing'[c] = e

LEMMA Turns ==
  ASSUME CondVarInv, IInv, UseInv, NEW c \in Coro, ChannelStep(c)
  PROVE  \/ Enter(c) /\ Turn(c, at[c], "out", doing[c]) /\ owner' = owner
         \/ Leave(c) /\ Turn(c, "out", "out", "nothing") /\ owner' = owner /\ doing[c] = "nothing"
         \/ \E what \in InUse :
               /\ doing[c] = "nothing" /\ owner # c
               /\ \/ Turn(c, "out", "out", what) /\ owner' = c
                  \/ Turn(c, "out", "locking", what) /\ owner' = owner /\ Claimed(c)'
         \/ \E v \in Cv : /\ Wait(c, v) /\ Turn(c, "out", "unlock", doing[c]) /\ doing[c] \in Wants(v)
                          /\ Supply(v) = 0 /\ owner' = owner /\ on'[c] = v
         \/ \E v \in Cv : /\ doing[c] \in Wants(v) /\ owner' # c
                          /\ \E u \in Cv \ {v} : Turn(c, "out", "out", Makes(u))
         \/ \E v \in Cv, b \in {"exchange", "register"} :
               /\ doing[c] = Makes(v) /\ owner' = owner /\ owner # c
               /\ Turn(c, "out", b, "nothing") /\ on'[c] = v
         \/ /\ UnlockAhead(c) /\ Turn(c, "unlock", "asleep", doing[c]) /\ on'[c] = on[c]
            /\ owner' = c => c \in ready'
         \/ /\ Exchange(c) \/ Store(c) \/ RegisterOne(c)
            /\ at[c] \in NotifyingOne /\ at'[c] \in NotifyingOne \cup {"out"}
            /\ doing'[c] = doing[c] /\ on'[c] = on[c]
            /\ owner' # c
<1>1. /\ at \in [Coro -> Place] /\ on \in [Coro -> Cv] /\ lockQueue \in Seq(Coro) /\ TypeOK
      /\ \A x \in Coro : On(x, Lists) => Suspended(x)
  BY DEF CondVarInv, TypeOK, ListInv
<1>2. doing \in [Coro -> Operation] /\ NoCoro \notin Coro
  BY Given DEF IInv, ItemInv
<1>3. Cv = {NotEmpty, NotFull} /\ NotEmpty # NotFull
  BY ChannelAssumption
<1>4. /\ \A v \in Cv : Wants(v) \subseteq InUse
      /\ doing[c] \in {"nothing", Makes(NotEmpty), Makes(NotFull)} => owner # c
  BY <1>3 DEF Wants, InUse, Makes, UseInv
<1>5. Acts(c)
  BY OwnStep
<1>6. ASSUME GiveUp, owner' = c
      PROVE  c \in ready' /\ Suspended(c)
  <2>1. lockQueue # <<>> /\ c = Head(lockQueue) /\ ready' = ready \cup {c}
    BY <1>1, <1>2, <1>6, GivenUp
  <2>2. In(c, lockQueue)
    BY <1>1, <2>1, Taken
  <2>3. QED
    BY <1>1, <2>1, <2>2, Listed
<1>7. CASE Enter(c)
  BY <1>1, <1>7 DEF Enter, Resume, Goto, mutex, Turn
<1>8. CASE Leave(c)
  BY <1>1, <1>8 DEF Leave, Yield, Idle, op, mutex, Turn
<1>9. ASSUME NEW what \in InUse, NEW v, Begin(c, what, v)
      PROVE  /\ doing[c] = "nothing" /\ owner # c
             /\ \/ Turn(c, "out", "out", what) /\ owner' = c
                \/ Turn(c, "out", "locking", what) /\ owner' = owner /\ Claimed(c)'
  <2>1. doing[c] = "nothing" /\ at[c] = "out" /\ doing'[c] = what /\ Lock(c)
    BY <1>2, <1>9 DEF Begin, Lock, Idle
  <2>2. In(c, Append(lockQueue, c))
    BY <1>1, Added
  <2>3. \/ owner' = c /\ at' = at
        \/ owner' = owner /\ at'[c] = "locking" /\ lockQueue' = Append(lockQueue, c)
    BY <1>1, <2>1 DEF Lock, Mutex!Take, Mutex!Join, Goto
  <2>4. QED
    BY <1>4, <2>1, <2>2, <2>3 DEF Turn, Claimed
<1>10. ASSUME NEW v \in Cv, Wait(c, v), doing' = doing, doing[c] \in Wants(v), Supply(v) = 0
       PROVE  /\ Turn(c, "out", "unlock", doing[c])
              /\ owner' = owner /\ on'[c] = v
  BY <1>1, <1>10 DEF Wait, Idle, Goto, Turn, mutex
<1>11. CASE AwaitItem(c)
  <2>1. Wait(c, NotEmpty) /\ doing' = doing /\ doing[c] \in Wants(NotEmpty) /\ Supply(NotEmpty) = 0
    BY <1>11 DEF AwaitItem, Holds, Empty, Wants, Supply
  <2>2. QED
    BY <1>3, <1>10, <2>1
<1>12. CASE AwaitRoom(c)
  <2>1. size = Capacity /\ Capacity \in Nat
    BY <1>12, ChannelAssumption DEF AwaitRoom, Full
  <2>2. /\ Wait(c, NotFull) /\ doing' = doing /\ doing[c] \in Wants(NotFull)
        /\ Supply(NotFull) = Capacity - size
    BY <1>3, <1>12 DEF AwaitRoom, Holds, Wants, Supply
  <2>3. Supply(NotFull) = 0
    BY <2>1, <2>2
  <2>4. QED
    BY <1>3, <1>10, <2>2, <2>3
<1>13. ASSUME NEW v \in Cv, NEW u \in Cv \ {v}, doing[c] \in Wants(v), Unlock(c), doing'[c] = Makes(u)
       PROVE  owner' # c /\ Turn(c, "out", "out", Makes(u))
  <2>1. at[c] = "out" /\ at' = at /\ GiveUp
    BY <1>13 DEF Unlock, Idle, op
  <2>2. ~Suspended(c)
    BY <2>1 DEF Suspended, Waits
  <2>3. QED
    BY <1>6, <1>13, <2>1, <2>2 DEF Turn
<1>14. CASE Acquire(c) \/ Drop(c)
  <2>1. doing[c] \in Wants(NotEmpty) /\ Unlock(c) /\ doing'[c] = Makes(NotFull)
    BY <1>2, <1>3, <1>14 DEF Acquire, Drop, Holds, Wants, Makes
  <2>2. QED
    BY <1>3, <1>13, <2>1
<1>15. CASE Release(c)
  <2>1. doing[c] \in Wants(NotFull) /\ Unlock(c) /\ doing'[c] = Makes(NotEmpty)
    BY <1>2, <1>3, <1>15 DEF Release, Holds, Wants, Makes
  <2>2. QED
    BY <1>3, <1>13, <2>1
<1>16. ASSUME NEW v \in Cv, doing[c] = Makes(v), NotifyOne(c, v), doing'[c] = "nothing"
       PROVE  /\ owner' = owner /\ owner # c /\ on'[c] = v
              /\ \E b \in {"exchange", "register"} : Turn(c, "out", b, "nothing")
  BY <1>1, <1>3, <1>4, <1>16 DEF NotifyOne, Idle, Goto, Turn, mutex
<1>17. CASE NotifyOther(c)
  <2>1. \E v \in Cv : doing[c] = Makes(v) /\ NotifyOne(c, v) /\ doing'[c] = "nothing"
    BY <1>2, <1>3, <1>17 DEF NotifyOther, Makes
  <2>2. QED
    BY <1>16, <2>1
<1>18. CASE Notify(c)
  <2>1. doing' = doing /\ Continue(c)
    BY <1>18 DEF Notify
  <2>2. at[c] \notin {"new", "new next", "cached", "cached next"}
    BY DEF UseInv, NotifyingOne
  <2>3. UnlockAhead(c) \/ Exchange(c) \/ Store(c) \/ RegisterOne(c)
    BY <2>1, <2>2 DEF Continue, RegisterNext, Advance, TakeCache, AllNotified
  <2>4. CASE UnlockAhead(c)
    BY <1>1, <1>6, <2>1, <2>4 DEF UnlockAhead, Goto, Turn
  <2>5. CASE Exchange(c) \/ Store(c) \/ RegisterOne(c)
    <3>1. at[c] \in NotifyingOne /\ at'[c] \in NotifyingOne \cup {"out"} /\ on' = on
      BY <1>1, <2>5 DEF Exchange, Store, RegisterOne, Goto, NotifyingOne
    <3>2. owner # c /\ ~Suspended(c) /\ ~Lock(c)
      BY <1>4, <3>1 DEF UseInv, NotifyingOne, Suspended, Waits, Lock, Idle
    <3>3. owner' # c
      BY <1>5, <3>2, NewOwner
    <3>4. QED
      BY <2>1, <2>5, <3>1, <3>3
  <2>6. QED
    BY <2>3, <2>4, <2>5
<1>19. {"acquire", "drop", "release"} \subseteq InUse
  BY DEF InUse
<1>20. (\E what \in InUse : \E v : Begin(c, what, v))
         => \E what \in InUse :
               /\ doing[c] = "nothing" /\ owner # c
               /\ \/ Turn(c, "out", "out", what) /\ owner' = c
                  \/ Turn(c, "out", "locking", what) /\ owner' = owner /\ Claimed(c)'
  BY <1>9
<1>21. QED
  BY <1>7, <1>8, <1>11, <1>12, <1>14, <1>15, <1>17, <1>18, <1>19, <1>20 DEF ChannelStep

\* Nothing that is undefined happens: a channel never notifies everyone.
LEMMA StaysDefined ==
  ASSUME UseInv, NEW c \in Coro, Acts(c)
  PROVE  ~undefined'
<1>1. Advancing = {}
  BY DEF Advancing, UseInv, NotifyingOne
<1>2. ~undefined
  BY DEF UseInv
<1>3. QED
  BY <1>1, <1>2
     DEF Acts, Plain, Waiting, One, All, Resume, Yield, Lock, Unlock, Wait, UnlockAhead, NotifyOne,
         Exchange, Store, RegisterOne, NotifyAll, RegisterNext, Advance, TakeCache, AllNotified

Fits(d) == /\ at[d] \in {"out", "locking", "unlock", "asleep"} \cup NotifyingOne
           /\ at[d] \in {"unlock", "asleep"} => doing[d] \in Wants(on[d])
           /\ at[d] = "locking" => doing[d] \in InUse
           /\ at[d] \in NotifyingOne => doing[d] = "nothing"
           /\ owner = d => doing[d] \in InUse
           /\ owner = d /\ at[d] \in {"locking", "asleep"} => d \in ready
           /\ at[d] = "locking" => Claimed(d)

LEMMA UseKept ==
  ASSUME CondVarInv, IInv, UseInv, NEW c \in Coro, ChannelStep(c)
  PROVE  UseInv'
<1>1. Acts(c) /\ TypeOK
  BY OwnStep DEF CondVarInv
<1>2. \A d \in Coro : Fits(d)
  BY DEF UseInv, Fits
<1>3. \A v : Wants(v) \subseteq InUse
  BY DEF Wants, InUse
<1>4. ASSUME NEW d \in Coro, d # c
      PROVE  Fits(d)'
  <2>1. at'[d] = at[d] /\ on'[d] = on[d] /\ doing'[d] = doing[d]
    BY <1>1, <1>4, OthersUse
  <2>2. owner' = d => owner = d \/ (d \in ready' /\ Suspended(d))
    BY <1>1, <1>4, NewOwner
  <2>3. Suspended(d) => doing[d] \in InUse
    <3>1. Suspended(d) => at[d] \in {"unlock", "asleep", "locking"}
      BY DEF Suspended, Waits
    <3>2. QED
      BY <1>2, <1>3, <3>1 DEF Fits
  <2>4. d \in ready => d \in ready'
    BY <1>1, <1>4, QueuedStay
  <2>5. Claimed(d) => Claimed(d)'
    BY <1>1, <1>4, ClaimKept
  <2>6. doing'[d] \in Wants(on'[d]) <=> doing[d] \in Wants(on[d])
    BY <2>1
  <2>7. QED
    BY <1>2, <2>1, <2>2, <2>3, <2>4, <2>5, <2>6 DEF Fits, Wants
<1>5. Fits(c)'
  <2>1. CASE Turn(c, at[c], "out", doing[c]) /\ owner' = owner
    BY <1>2, <2>1 DEF Fits, Turn, NotifyingOne
  <2>2. CASE Turn(c, "out", "out", "nothing") /\ owner' = owner /\ doing[c] = "nothing"
    BY <1>2, <2>2 DEF Fits, Turn, NotifyingOne
  <2>3. ASSUME NEW what \in InUse,
               \/ Turn(c, "out", "out", what)
               \/ Turn(c, "out", "locking", what) /\ owner' = owner /\ Claimed(c)' /\ owner # c
        PROVE  Fits(c)'
    BY <2>3 DEF Fits, Turn, NotifyingOne
  <2>4. ASSUME NEW v \in Cv, Turn(c, "out", "unlock", doing[c]), doing[c] \in Wants(v), on'[c] = v
        PROVE  Fits(c)'
    BY <1>3, <2>4 DEF Fits, Turn, NotifyingOne, Wants
  <2>5. ASSUME NEW e, Turn(c, "out", "out", e), owner' # c
        PROVE  Fits(c)'
    BY <2>5 DEF Fits, Turn, NotifyingOne
  <2>6. ASSUME NEW b \in {"exchange", "register"}, Turn(c, "out", b, "nothing"), owner' = owner, owner # c
        PROVE  Fits(c)'
    BY <2>6 DEF Fits, Turn, NotifyingOne
  <2>7. CASE /\ Turn(c, "unlock", "asleep", doing[c]) /\ on'[c] = on[c]
             /\ owner' = c => c \in ready'
    <3>1. doing[c] \in Wants(on[c]) /\ doing[c] \in InUse
      BY <1>2, <1>3, <2>7 DEF Fits, Turn
    <3>2. QED
      BY <2>7, <3>1 DEF Fits, Turn, NotifyingOne, Wants
  <2>8. CASE /\ at[c] \in NotifyingOne /\ at'[c] \in NotifyingOne \cup {"out"}
             /\ doing'[c] = doing[c] /\ owner' # c
    BY <1>2, <2>8 DEF Fits, NotifyingOne
  <2>9. QED
    BY <2>1, <2>2, <2>3, <2>4, <2>5, <2>6, <2>7, <2>8, Turns
<1>6. ~undefined'
  BY <1>1, StaysDefined
<1>7. QED
  BY <1>4, <1>5, <1>6 DEF UseInv, Fits
-----------------------------------------------------------------------------
(* Who waits, and who serves.                                               *)

\* Nobody waits anew but whoever is just linked.
LEMMA UnchosenBefore ==
  ASSUME CondVarInv, IInv, UseInv, NEW c \in Coro, ChannelStep(c), NEW v \in Cv, NEW w \in Coro,
         w \in Unchosen(v)'
  PROVE  w \in Unchosen(v) \/ (w = c /\ Wait(c, v))
<1>1. Acts(c) /\ TypeOK /\ at \in [Coro -> Place]
  BY OwnStep DEF CondVarInv, TypeOK
<1>2. at'[w] \in {"unlock", "asleep"} /\ on'[w] = v /\ ~Claimed(w)'
  BY DEF Unchosen
<1>3. CASE w # c
  BY <1>1, <1>2, <1>3, OthersUse, ClaimKept DEF Unchosen
<1>4. CASE w = c
  <2>1. \/ \E u \in Cv : Wait(c, u) /\ on'[c] = u
        \/ UnlockAhead(c) /\ at[c] = "unlock" /\ on'[c] = on[c]
    BY <1>2, <1>4, Turns DEF Turn, NotifyingOne
  <2>2. CASE \E u \in Cv : Wait(c, u) /\ on'[c] = u
    BY <1>2, <1>4, <2>2
  <2>3. CASE UnlockAhead(c) /\ at[c] = "unlock" /\ on'[c] = on[c]
    <3>1. ~Resume(c)
      BY <1>1, <2>3, <1>2, <1>4 DEF Resume, Goto
    <3>2. ~Claimed(c)
      BY <1>1, <1>2, <1>4, <3>1, ClaimKept
    <3>3. QED
      BY <1>2, <1>4, <2>3, <3>2 DEF Unchosen
  <2>4. QED
    BY <2>1, <2>2, <2>3
<1>5. QED
  BY <1>3, <1>4

\* Nobody stops serving but the coroutine that acts.
LEMMA OthersServe ==
  ASSUME CondVarInv, IInv, UseInv, NEW c \in Coro, ChannelStep(c), NEW v \in Cv
  PROVE  Serving(v) \ {c} \subseteq Serving(v)'
<1>1. SUFFICES ASSUME NEW d \in Coro, d # c, d \in Serving(v)
               PROVE  d \in Serving(v)'
  BY DEF Serving
<1>2. at'[d] = at[d] /\ on'[d] = on[d] /\ doing'[d] = doing[d]
  BY <1>1, OthersUse DEF CondVarInv
<1>3. d \in Unchosen(v)' => d \in Unchosen(v)
  BY <1>1, UnchosenBefore
<1>4. QED
  BY <1>1, <1>2, <1>3 DEF Serving, Wants, Makes

\* What a set has less or more when one leaves or joins.
LEMMA Counted ==
  ASSUME NEW S, NEW T, IsFiniteSet(S), IsFiniteSet(T), NEW c, S \ {c} \subseteq T
  PROVE  /\ Cardinality(S) \in Nat /\ Cardinality(T) \in Nat
         /\ Cardinality(S) <= Cardinality(T) + 1
         /\ c \in T \/ c \notin S => Cardinality(S) <= Cardinality(T)
         /\ c \in T /\ c \notin S => Cardinality(S) + 1 <= Cardinality(T)
         /\ \A w \in T : w \notin S => Cardinality(S) <= Cardinality(T)
<1>1. Cardinality(S) \in Nat /\ Cardinality(T) \in Nat
  BY FS_CardinalityType
<1>2. /\ IsFiniteSet(S \ {c})
      /\ Cardinality(S \ {c}) = IF c \in S THEN Cardinality(S) - 1 ELSE Cardinality(S)
  BY FS_RemoveElement
<1>3. Cardinality(S \ {c}) <= Cardinality(T)
  BY <1>2, FS_Subset
<1>4. ASSUME c \in T \/ c \notin S
      PROVE  Cardinality(S) <= Cardinality(T)
  BY <1>4, FS_Subset
<1>5. ASSUME NEW w \in T, w \notin S \ {c}
      PROVE  Cardinality(S \ {c}) + 1 <= Cardinality(T)
  <2>1. (S \ {c}) \subseteq T \ {w}
    BY <1>5
  <2>2. IsFiniteSet(T \ {w}) /\ Cardinality(T \ {w}) = Cardinality(T) - 1
    BY <1>5, FS_RemoveElement
  <2>3. Cardinality(S \ {c}) <= Cardinality(T \ {w})
    BY <2>1, <2>2, FS_Subset
  <2>4. Cardinality(S \ {c}) \in Nat
    BY <1>2, FS_CardinalityType
  <2>5. QED
    BY <1>1, <2>2, <2>3, <2>4
<1> DEFINE s == Cardinality(S)
           t == Cardinality(T)
           r == Cardinality(S \ {c})
<1>6. /\ s \in Nat /\ t \in Nat /\ r \in Nat /\ r <= t
      /\ r = IF c \in S THEN s - 1 ELSE s
  BY <1>1, <1>2, <1>3, FS_CardinalityType
<1>7. c \in T \/ c \notin S => s <= t
  BY <1>4
<1>8. c \in T /\ c \notin S => r + 1 <= t
  BY <1>5
<1>9. \A w \in T : w \notin S => r + 1 <= t
  BY <1>5
<1> HIDE DEF s, t, r
<1>10. /\ s <= t + 1
       /\ c \in T /\ c \notin S => s + 1 <= t
       /\ r + 1 <= t => s <= t
  BY <1>6, <1>8
<1>11. QED
  BY <1>1, <1>7, <1>9, <1>10 DEF s, t, r

LEMMA Kinds ==
  ASSUME NEW w \in Cv, NEW u \in Cv
  PROVE  /\ Makes(u) \notin Wants(w) /\ "nothing" \notin Wants(w) /\ Makes(u) # "nothing"
         /\ u # w => Makes(u) # Makes(w)
         /\ \A e \in Wants(u) : e \in Wants(w) => u = w
BY ChannelAssumption DEF Wants, Makes

\* What is there for those who wait changes only when an item comes or goes.
LEMMA Stock ==
  ASSUME IInv, NEW c \in Coro, ChannelStep(c), NEW v \in Cv
  PROVE  /\ Supply(v) \in Nat
         /\ (\A w, u \in Cv : ~(doing[c] \in Wants(w) /\ doing'[c] = Makes(u))) => Supply(v)' = Supply(v)
         /\ \A w, u \in Cv :
               doing[c] \in Wants(w) /\ doing'[c] = Makes(u) =>
                   /\ u # w
                   /\ v = w => Supply(v)' = Supply(v) - 1
                   /\ v = u => Supply(v)' = Supply(v) + 1
<1>1. /\ Cv = {NotEmpty, NotFull} /\ NotEmpty # NotFull /\ Capacity \in Nat
      /\ size \in 0..Capacity /\ doing \in [Coro -> Operation]
  BY ChannelAssumption DEF IInv, RingInv, ItemInv
<1>2. Supply(v) \in Nat
  BY <1>1 DEF Supply
<1>3. CASE size' = size /\ doing'[c] \notin {Makes(NotEmpty), Makes(NotFull)}
  BY <1>1, <1>2, <1>3 DEF Supply
<1>4. CASE size' = size /\ doing' = doing
  <2>1. Supply(v)' = Supply(v)
    BY <1>4 DEF Supply
  <2>2. \A w, u \in Cv : ~(doing[c] \in Wants(w) /\ doing'[c] = Makes(u))
    BY <1>4, Kinds
  <2>3. QED
    BY <1>2, <2>1, <2>2
<1>5. CASE size' = size - 1 /\ doing[c] \in Wants(NotEmpty) /\ doing'[c] = Makes(NotFull)
  <2>1. /\ v = NotEmpty => Supply(v)' = Supply(v) - 1
        /\ v = NotFull => Supply(v)' = Supply(v) + 1
    BY <1>1, <1>5 DEF Supply
  <2>2. \A w, u \in Cv : doing[c] \in Wants(w) /\ doing'[c] = Makes(u) => w = NotEmpty /\ u = NotFull
    BY <1>1, <1>5, Kinds
  <2>3. QED
    BY <1>1, <1>2, <1>5, <2>1, <2>2
<1>6. CASE size' = size + 1 /\ doing[c] \in Wants(NotFull) /\ doing'[c] = Makes(NotEmpty)
  <2>1. /\ v = NotFull => Supply(v)' = Supply(v) - 1
        /\ v = NotEmpty => Supply(v)' = Supply(v) + 1
    BY <1>1, <1>6 DEF Supply
  <2>2. \A w, u \in Cv : doing[c] \in Wants(w) /\ doing'[c] = Makes(u) => w = NotFull /\ u = NotEmpty
    BY <1>1, <1>6, Kinds
  <2>3. QED
    BY <1>1, <1>2, <1>6, <2>1, <2>2
<1>7. CASE Enter(c) \/ Leave(c) \/ AwaitItem(c) \/ AwaitRoom(c) \/ Notify(c)
  BY <1>4, <1>7 DEF Enter, Leave, AwaitItem, AwaitRoom, Notify, ring
<1>8. ASSUME NEW what \in InUse, NEW e, Begin(c, what, e)
      PROVE  size' = size /\ doing'[c] \notin {Makes(NotEmpty), Makes(NotFull)}
  BY <1>1, <1>8 DEF Begin, ring, Makes, InUse
<1>9. CASE Acquire(c) \/ Drop(c)
  BY <1>1, <1>5, <1>9 DEF Acquire, Drop, Holds, PopOne, Wants, Makes
<1>10. CASE Release(c)
  BY <1>1, <1>6, <1>10 DEF Release, Holds, PushOne, Wants, Makes
<1>11. CASE NotifyOther(c)
  <2>1. size' = size /\ doing'[c] = "nothing"
    BY <1>1, <1>11 DEF NotifyOther, ring
  <2>2. QED
    BY <1>3, <2>1 DEF Makes
<1>12. {"acquire", "drop", "release"} \subseteq InUse
  BY DEF InUse
<1>13. QED
  BY <1>3, <1>7, <1>8, <1>9, <1>10, <1>11, <1>12 DEF ChannelStep

\* Whoever is passed on to the mutex serves from now on.
LEMMA Awoken ==
  ASSUME CondVarInv, IInv, UseInv, NEW c \in Coro, ChannelStep(c), RegisterOne(c),
         NEW v \in Cv, on[c] = v
  PROVE  \E w \in Serving(v)' : w \notin Serving(v)
<1>1. TypeOK /\ Once(Lists) /\ lockQueue \in Seq(Coro)
  BY DEF CondVarInv, ListInv, TypeOK
<1>2. hands[c] \in Seq(Coro) /\ hands[c] # <<>> /\ at[c] = "register"
  BY <1>1, Parts DEF RegisterOne
<1>3. PICK w \in Coro : Register(w) /\ In(w, InHands(c))
  <2>1. /\ Head(hands[c]) \in Coro /\ Register(Head(hands[c]))
        /\ In(Head(hands[c]), InHands(c))
    BY <1>2, Taken DEF RegisterOne, InHands
  <2>2. QED
    BY <2>1
<1>4. Suspended(w) /\ on[w] = v
  BY <1>3, Listed DEF CondVarInv, ListInv
<1>5. ~In(w, lockQueue)
  <2>1. Ha(c) \in ListName /\ Mu \in ListName /\ Ha(c) # Mu
    BY Names
  <2>2. Apart(Lists[Ha(c)], Lists[Mu])
    BY <1>1, <2>1 DEF Once
  <2>3. QED
    BY <1>3, <2>2, ListsAt DEF Apart
<1>6. at[w] \in {"unlock", "asleep"} /\ ~Claimed(w)
  <2>1. w \notin ready /\ at[w] \in {"unlock", "asleep", "locking"}
    BY <1>4 DEF Suspended, Waits
  <2>2. QED
    BY <1>3, <1>5, <2>1 DEF Claimed, UseInv
<1>7. doing[w] \in Wants(v)
  BY <1>3, <1>4, <1>6 DEF UseInv
<1>8. w \notin Serving(v)
  <2>1. w \in Unchosen(v)
    BY <1>3, <1>4, <1>6 DEF Unchosen
  <2>2. doing[w] # Makes(v) /\ at[w] \notin {"exchange", "store", "register"}
    BY <1>6, <1>7 DEF Wants, Makes
  <2>3. QED
    BY <2>1, <2>2 DEF Serving
<1>9. Claimed(w)'
  <2>1. In(w, Append(lockQueue, w))
    BY <1>1, <1>3, Added
  <2>2. w \in ready' \/ lockQueue' = Append(lockQueue, w)
    BY <1>1, <1>3, Registered
  <2>3. QED
    BY <2>1, <2>2 DEF Claimed
<1>10. doing'[w] \in Wants(v)
  <2>1. w # c
    BY <1>2, <1>6
  <2>2. QED
    BY <1>1, <1>3, <1>7, <2>1, OthersUse
<1>11. on'[c] = v
  BY DEF RegisterOne
<1>12. w \in Serving(v)'
  <2>1. w \notin Unchosen(v)'
    BY <1>9 DEF Unchosen
  <2>2. QED
    BY <1>3, <1>10, <1>11, <2>1 DEF Serving, Wants
<1>13. QED
  BY <1>8, <1>11, <1>12

LEMMA UsersFinite ==
  ASSUME TypeOK, IInv, UseInv, NEW c \in Coro, ChannelStep(c), IsFiniteSet(Users)
  PROVE  IsFiniteSet(Users')
<1>1. Users' \subseteq Users \cup {c}
  BY OthersUse DEF Users
<1>2. IsFiniteSet(Users \cup {c})
  BY FS_AddElement
<1>3. QED
  BY <1>1, <1>2, FS_Subset

LEMMA ServersFinite ==
  ASSUME NEW v \in Cv
  PROVE  /\ IsFiniteSet(Users) => IsFiniteSet(Serving(v))
         /\ IsFiniteSet(Users') => IsFiniteSet(Serving(v)')
<1>1. /\ Serving(v) \subseteq Users
      /\ Serving(v)' \subseteq Users'
  BY DEF Serving, Users, Wants, Makes
<1>2. QED
  BY <1>1, FS_Subset

\* Whoever stops serving has passed its turn on, has found nobody to pass it on
\* to, or has taken what was there.
LEMMA LeavesServing ==
  ASSUME CondVarInv, IInv, UseInv, OneNotifyingThread, NEW c \in Coro, ChannelStep(c), NEW v \in Cv,
         Unchosen(v) # {}, c \in Serving(v), c \notin Serving(v)'
  PROVE  \/ \E w \in Serving(v)' : w \notin Serving(v)
         \/ Supply(v) = 0 /\ Supply(v)' = Supply(v)
         \/ \E u \in Cv : doing[c] \in Wants(v) /\ doing'[c] = Makes(u) /\ u # v
<1>1. Acts(c) /\ TypeOK /\ at \in [Coro -> Place]
  BY OwnStep DEF CondVarInv, TypeOK
<1>2. /\ \/ doing[c] \in Wants(v) /\ c \notin Unchosen(v)
         \/ doing[c] = Makes(v)
         \/ at[c] \in NotifyingOne /\ on[c] = v
      /\ ~(doing'[c] \in Wants(v) /\ c \notin Unchosen(v)')
      /\ doing'[c] # Makes(v)
      /\ ~(at'[c] \in NotifyingOne /\ on'[c] = v)
  <2>1. \/ doing[c] \in Wants(v) /\ c \notin Unchosen(v)
        \/ doing[c] = Makes(v)
        \/ at[c] \in NotifyingOne /\ on[c] = v
    BY DEF Serving, NotifyingOne
  <2>2. Serving(v)' = {d \in Coro : \/ doing'[d] \in Wants(v) /\ d \notin Unchosen(v)'
                                    \/ doing'[d] = Makes(v)
                                    \/ at'[d] \in NotifyingOne /\ on'[d] = v}
    BY DEF Serving, NotifyingOne, Wants, Makes
  <2>3. QED
    BY <2>1, <2>2
<1>3. c \in Unchosen(v)' => c \in Unchosen(v) \/ Wait(c, v)
  BY UnchosenBefore
<1>4. at'[c] = "out" => c \notin Unchosen(v)'
  BY DEF Unchosen
<1>5. at[c] \in NotifyingOne => doing[c] = "nothing" /\ current[home[c]] = c
  BY DEF UseInv, CondVarInv, OpInv, NotifyingOne, Notifies
<1>6. ~(Enter(c) /\ Turn(c, at[c], "out", doing[c]))
  <2>1. Enter(c) => current[home[c]] # c
    BY Given DEF Enter, Resume
  <2>2. QED
    BY <1>2, <1>4, <1>5, <2>1 DEF Turn
<1>7. ~(doing[c] = "nothing" /\ at[c] = "out")
  BY <1>2, Kinds DEF NotifyingOne
<1>8. ASSUME NEW u \in Cv, Wait(c, u), Turn(c, "out", "unlock", doing[c]), doing[c] \in Wants(u),
             Supply(u) = 0, on'[c] = u
      PROVE  Supply(v) = 0 /\ Supply(v)' = Supply(v)
  <2>1. u = v
    BY <1>2, <1>8, Kinds DEF Turn, NotifyingOne
  <2>2. \A w, e \in Cv : ~(doing[c] \in Wants(w) /\ doing'[c] = Makes(e))
    BY <1>8, Kinds DEF Turn
  <2>3. QED
    BY <1>8, <2>1, <2>2, Stock
<1>9. ASSUME NEW w \in Cv, NEW u \in Cv \ {w}, doing[c] \in Wants(w), Turn(c, "out", "out", Makes(u))
      PROVE  doing[c] \in Wants(v) /\ doing'[c] = Makes(u) /\ u # v
  BY <1>2, <1>9, Kinds DEF Turn, NotifyingOne
<1>10. ASSUME NEW w \in Cv, NEW b \in {"exchange", "register"}, doing[c] = Makes(w),
              Turn(c, "out", b, "nothing"), on'[c] = w
       PROVE  FALSE
  BY <1>2, <1>10, Kinds DEF Turn, NotifyingOne
<1>11. ~(UnlockAhead(c) /\ Turn(c, "unlock", "asleep", doing[c]))
  <2>1. Wait(c, v) => at[c] = "out"
    BY DEF Wait, Idle
  <2>2. at[c] = "unlock" => doing[c] \in Wants(on[c]) /\ on[c] \in Cv
    BY <1>1, Parts DEF UseInv
  <2>3. QED
    BY <1>2, <1>3, <2>1, <2>2, Kinds DEF Turn, NotifyingOne
<1>12. ASSUME Exchange(c) \/ Store(c) \/ RegisterOne(c),
              at[c] \in NotifyingOne, at'[c] \in NotifyingOne \cup {"out"},
              doing'[c] = doing[c], on'[c] = on[c]
       PROVE  \E w \in Serving(v)' : w \notin Serving(v)
  <2>1. on[c] = v /\ at'[c] = "out"
    BY <1>2, <1>5, <1>12, Kinds
  <2>2. CASE Exchange(c)
    <3>1. at[c] = "exchange" /\ Next
      BY <1>1, <2>2, Steps DEF Exchange
    <3>2. \A w \in Coro : Waits(w) /\ on[w] = v => w \in ToSet(lockQueue)
      BY <2>1, <3>1, NobodyLeft
    <3>3. \A w \in Coro : Waits(w) /\ on[w] = v => In(w, lockQueue)
      BY <1>1, <3>2, Parts, Indices
    <3>4. Unchosen(v) = {}
      BY <3>3 DEF Unchosen, Claimed, Waits
    <3>5. QED
      BY <3>4
  <2>3. CASE Store(c)
    BY <1>1, <2>1, <2>3 DEF Store, Goto
  <2>4. CASE RegisterOne(c)
    BY <2>1, <2>4, Awoken
  <2>5. QED
    BY <1>12, <2>2, <2>3, <2>4
<1>13. QED
  BY <1>6, <1>7, <1>8, <1>9, <1>10, <1>11, <1>12, Turns DEF Turn

LEMMA StepServed ==
  ASSUME CondVarInv, IInv, UseInv, IsFiniteSet(Users), ServedInv, OneNotifyingThread,
         NEW c \in Coro, ChannelStep(c), NEW v \in Cv, Unchosen(v)' # {}
  PROVE  Supply(v)' <= Cardinality(Serving(v)')
<1> DEFINE S == Serving(v)
           T == Serving(v)'
           s == Cardinality(S)
           t == Cardinality(T)
           n == Supply(v)
           m == Supply(v)'
<1>1. IsFiniteSet(S) /\ IsFiniteSet(T) /\ S \ {c} \subseteq T
  BY UsersFinite, ServersFinite, OthersServe DEF CondVarInv
<1>2. /\ s \in Nat /\ t \in Nat
      /\ s <= t + 1
      /\ c \in T \/ c \notin S => s <= t
      /\ c \in T /\ c \notin S => s + 1 <= t
      /\ (\E w \in T : w \notin S) => s <= t
  <2> HIDE DEF S, T
  <2>1. /\ Cardinality(S) \in Nat /\ Cardinality(T) \in Nat
        /\ Cardinality(S) <= Cardinality(T) + 1
        /\ c \in T \/ c \notin S => Cardinality(S) <= Cardinality(T)
        /\ c \in T /\ c \notin S => Cardinality(S) + 1 <= Cardinality(T)
        /\ \A w \in T : w \notin S => Cardinality(S) <= Cardinality(T)
    BY <1>1, Counted
  <2>2. QED
    BY <2>1
<1>3. /\ n \in Nat
      /\ (\A w, u \in Cv : ~(doing[c] \in Wants(w) /\ doing'[c] = Makes(u))) => m = n
      /\ \A w, u \in Cv :
            doing[c] \in Wants(w) /\ doing'[c] = Makes(u) =>
                /\ u # w
                /\ v = w => m = n - 1
                /\ v = u => m = n + 1
  BY Stock
<1>4. CASE Unchosen(v) = {}
  <2>1. PICK w \in Coro : w \in Unchosen(v)'
    BY DEF Unchosen
  <2>2. w = c /\ Wait(c, v)
    BY <1>4, <2>1, UnchosenBefore
  <2>3. at'[c] = "unlock" /\ on'[c] = v
    <3>1. at \in [Coro -> Place] /\ on \in [Coro -> Cv]
      BY DEF CondVarInv, TypeOK
    <3>2. QED
      BY <2>2, <3>1 DEF Wait, Goto
  <2>4. n = 0 /\ doing'[c] = doing[c] /\ doing[c] \in Wants(v)
    BY <2>3, Turns DEF Turn, NotifyingOne
  <2>5. \A x, u \in Cv : ~(doing[c] \in Wants(x) /\ doing'[c] = Makes(u))
    BY <2>4, Kinds
  <2> HIDE DEF s, t, n, m
  <2>6. m = 0
    BY <1>3, <2>4, <2>5
  <2>7. m <= t
    BY <1>2, <2>6
  <2>8. QED
    BY <2>7 DEF m, t
<1>5. CASE Unchosen(v) # {}
  <2>1. n <= s
    BY <1>5 DEF ServedInv
  <2>2. ASSUME NEW w \in Cv, doing[c] \in Wants(w), doing'[c] = Makes(v)
        PROVE  c \in T /\ c \notin S
    <3>1. w # v
      BY <1>3, <2>2
    <3>2. c \in T
      BY <2>2 DEF Serving, Makes
    <3>3. doing[c] \notin Wants(v) /\ doing[c] # Makes(v) /\ doing[c] # "nothing"
      BY <2>2, <3>1, Kinds
    <3>4. at[c] \notin NotifyingOne
      BY <3>3 DEF UseInv
    <3>5. QED
      BY <3>2, <3>3, <3>4 DEF Serving, NotifyingOne
  <2>3. ASSUME c \in S, c \notin T, \A u \in Cv : ~(doing[c] \in Wants(v) /\ doing'[c] = Makes(u))
        PROVE  (\E w \in T : w \notin S) \/ (n = 0 /\ m = n)
    BY <1>5, <2>3, LeavesServing
  <2> HIDE DEF S, T, s, t, n, m
  <2>4. s \in Nat /\ t \in Nat /\ n \in Nat /\ s <= t + 1
    BY <1>2, <1>3
  <2>5. /\ m = n - 1 => m <= t
        /\ m = n + 1 /\ s + 1 <= t => m <= t
        /\ m = n /\ (s <= t \/ n = 0) => m <= t
    BY <2>4, <2>1
  <2>6. CASE \E u \in Cv : doing[c] \in Wants(v) /\ doing'[c] = Makes(u)
    <3>1. m = n - 1
      BY <1>3, <2>6
    <3>2. QED
      <4>1. m <= t
        BY <2>5, <3>1
      <4>2. QED
        BY <4>1 DEF m, t, T
  <2>7. CASE \E w \in Cv : doing[c] \in Wants(w) /\ doing'[c] = Makes(v)
    <3>1. m = n + 1
      BY <1>3, <2>7
    <3>2. s + 1 <= t
      BY <1>2, <2>2, <2>7
    <3>3. m <= t
      BY <2>5, <3>1, <3>2
    <3>4. QED
      BY <3>3 DEF m, t, T
  <2>8. CASE \A w, u \in Cv : ~(doing[c] \in Wants(w) /\ doing'[c] = Makes(u))
    <3>1. m = n
      BY <1>3, <2>8
    <3>2. s <= t \/ n = 0
      BY <1>2, <2>3, <2>8
    <3>3. m <= t
      BY <2>5, <3>1, <3>2
    <3>4. QED
      BY <3>3 DEF m, t, T
  <2>9. ASSUME NEW w \in Cv, NEW u \in Cv, doing[c] \in Wants(w), doing'[c] = Makes(u)
        PROVE  v = w \/ v = u
    <3>1. u # w
      BY <1>3, <2>9
    <3>2. QED
      BY <2>9, <3>1, ChannelAssumption
  <2>10. QED
    BY <2>6, <2>7, <2>8, <2>9
<1>6. QED
  BY <1>4, <1>5
-----------------------------------------------------------------------------
(* The theorem on the channel's wakeups.                                    *)

LEMMA NobodyServes == ASSUME \A c \in Coro : doing[c] = "nothing" /\ at[c] = "out"
                      PROVE  /\ UseInv <=> ~undefined /\ owner \notin Coro
                             /\ Users = {} /\ \A v \in Cv : Unchosen(v) = {}
  BY DEF UseInv, NotifyingOne, InUse, Users, Unchosen

LEMMA WakeInitial == ASSUME ChannelInit PROVE WakeInv
<1>1. CondVarInv /\ IInv
  BY CvInitial, InitInvariant DEF ChannelInit
<1>2. /\ \A c \in Coro : doing[c] = "nothing" /\ at[c] = "out"
      /\ ~undefined /\ owner = NoCoro
  BY DEF ChannelInit, CvInit, Mutex!LockInit
<1>3. NoCoro \notin Coro
  BY Given
<1>4. UseInv /\ Users = {} /\ \A v \in Cv : Unchosen(v) = {}
  BY <1>2, <1>3, NobodyServes
<1>5. QED
  BY <1>1, <1>4, FS_EmptySet DEF WakeInv, ServedInv

LEMMA WakeInductive == ASSUME WakeInv, [ChannelNext]_channelVars PROVE WakeInv'
<1>1. IInv'
  BY StepInvariant DEF WakeInv
<1>2. ASSUME NEW c \in Coro, ChannelStep(c)
      PROVE  WakeInv'
  <2>1. CondVarInv'
    <3>1. Next
      BY <1>2, OwnStep, Steps DEF WakeInv
    <3>2. QED
      BY <3>1, CvInductive DEF WakeInv
  <2>2. UseInv'
    BY <1>2, UseKept DEF WakeInv
  <2>3. IsFiniteSet(Users')
    BY <1>2, UsersFinite DEF WakeInv, CondVarInv
  <2>4. ASSUME OneNotifyingThread, NEW v \in Cv, Unchosen(v)' # {}
        PROVE  Supply(v)' <= Cardinality(Serving(v)')
    BY <1>2, <2>4, StepServed DEF WakeInv
  <2>5. ServedInv'
    BY <2>4 DEF ServedInv, OneNotifyingThread
  <2>6. QED
    BY <1>1, <2>1, <2>2, <2>3, <2>5 DEF WakeInv
<1>3. ASSUME UNCHANGED channelVars
      PROVE  WakeInv'
  <2>1. CondVarInv'
    BY <1>3, CvInductive DEF WakeInv, channelVars
  <2>2. /\ owner' = owner /\ lockQueue' = lockQueue /\ at' = at /\ on' = on /\ ready' = ready
        /\ undefined' = undefined /\ size' = size /\ doing' = doing
    BY <1>3 DEF channelVars, cvVars, mutex, op, ring
  <2>3. \A x : Claimed(x)' <=> Claimed(x)
    BY <2>2 DEF Claimed
  <2>4. UseInv' /\ Users' = Users
    BY <2>2, <2>3 DEF WakeInv, UseInv, Users, Wants
  <2>5. \A v : Unchosen(v)' = Unchosen(v) /\ Supply(v)' = Supply(v)
    BY <2>2, <2>3 DEF Unchosen, Supply
  <2>6. \A v : Serving(v)' = Serving(v)
    BY <2>2, <2>5 DEF Serving, Wants, Makes
  <2>7. ServedInv'
    BY <2>5, <2>6 DEF WakeInv, ServedInv, OneNotifyingThread
  <2>8. QED
    BY <1>1, <2>1, <2>4, <2>7 DEF WakeInv
<1>4. QED
  BY <1>2, <1>3, ChannelSteps

LEMMA WakeInvariance == ChannelSpec => []WakeInv
<1>1. ChannelInit => WakeInv
  BY WakeInitial
<1>2. WakeInv /\ [ChannelNext]_channelVars => WakeInv'
  BY WakeInductive
<1>3. QED
  BY <1>1, <1>2, PTL DEF ChannelSpec

\* When nobody is about to do anything nobody owns the mutex, nor waits for it.
LEMMA QuietMutex ==
  ASSUME WakeInv, Quiet
  PROVE  owner = NoCoro /\ lockQueue = <<>> /\ \A x \in Coro : at[x] \in {"locking", "asleep"} => ~Claimed(x)
<1>1. ASSUME NEW c \in Coro, owner = c
      PROVE  FALSE
  <2>1. /\ doing[c] \in InUse
        /\ at[c] \in {"locking", "asleep"} => c \in ready
    BY <1>1 DEF WakeInv, UseInv
  <2>2. QED
    BY <2>1 DEF Quiet, InUse
<1>2. owner = NoCoro /\ lockQueue = <<>>
  BY <1>1 DEF WakeInv, CondVarInv, TypeOK, MutexInv
<1>3. \A x : ~In(x, lockQueue)
  BY <1>2, EmptyList
<1>4. QED
  BY <1>2, <1>3 DEF Quiet, Claimed

\* Then whoever sleeps has not been notified, and nobody serves.
LEMMA QuietServes ==
  ASSUME WakeInv, Quiet, NEW v \in Cv, SleepsOn(v)
  PROVE  Unchosen(v) # {} /\ Serving(v) = {}
<1>1. Unchosen(v) # {}
  BY QuietMutex DEF SleepsOn, Unchosen
<1>2. ASSUME NEW d \in Coro, d \in Serving(v)
      PROVE  FALSE
  <2>1. at[d] \notin {"locking", "exchange", "store", "register"}
    BY QuietMutex DEF Quiet, WakeInv, UseInv
  <2>2. \/ doing[d] \in Wants(v) /\ d \notin Unchosen(v)
        \/ doing[d] = Makes(v)
    BY <1>2, <2>1 DEF Serving
  <2>3. CASE doing[d] = "nothing"
    BY <2>2, <2>3, Kinds
  <2>4. CASE at[d] = "asleep"
    <3>1. doing[d] \in Wants(on[d]) /\ on[d] \in Cv
      BY <2>4 DEF WakeInv, UseInv, CondVarInv, TypeOK
    <3>2. on[d] = v
      BY <2>2, <3>1, Kinds
    <3>3. d \in Unchosen(v)
      BY <2>4, <3>2, QuietMutex DEF Unchosen
    <3>4. QED
      BY <2>2, <3>1, <3>2, <3>3, Kinds
  <2>5. QED
    BY <2>1, <2>3, <2>4 DEF Quiet
<1>3. QED
  BY <1>1, <1>2 DEF Serving

\* Channel.NobodyForgotten: with one thread that releases and one that acquires,
\* nobody sleeps for an item or for room that is there while nobody is on the way
\* to look for it.  This is what the notifications of acquire, drop and release
\* are for, for every capacity and however many coroutines.
THEOREM Woken == ChannelSpec => []NobodyForgotten
<1>1. WakeInv => ChannelTypeOK
  BY DEF WakeInv, CondVarInv, IInv, RingInv, ItemInv, ChannelTypeOK
<1>2. ASSUME WakeInv, OneNotifyingThread, Quiet, NEW v \in Cv, SleepsOn(v)
      PROVE  Supply(v) = 0
  <2>1. Supply(v) <= Cardinality(Serving(v))
    BY <1>2, QuietServes DEF WakeInv, ServedInv
  <2>2. Cardinality(Serving(v)) = 0
    BY <1>2, QuietServes, FS_EmptySet
  <2>3. Supply(v) \in Nat
    BY <1>2, ChannelAssumption DEF WakeInv, IInv, RingInv, Supply
  <2> DEFINE n == Supply(v)
             s == Cardinality(Serving(v))
  <2>4. n <= s /\ s = 0 /\ n \in Nat
    BY <2>1, <2>2, <2>3
  <2> HIDE DEF n, s
  <2>5. n = 0
    BY <2>4
  <2>6. QED
    BY <2>5 DEF n
<1>3. NotEmpty \in Cv /\ NotFull \in Cv /\ NotEmpty # NotFull
  BY ChannelAssumption
<1>4. ASSUME WakeInv, OneNotifyingThread, Quiet
      PROVE  /\ SleepsOn(NotEmpty) => Empty
             /\ SleepsOn(NotFull) => Full
  <2>1. SleepsOn(NotEmpty) => size = 0
    BY <1>2, <1>3, <1>4 DEF Supply
  <2>2. SleepsOn(NotFull) => Capacity - size = 0
    BY <1>2, <1>3, <1>4 DEF Supply
  <2>3. Capacity \in Nat /\ size \in Nat
    BY <1>4, ChannelAssumption DEF WakeInv, IInv, RingInv
  <2>4. QED
    BY <2>1, <2>2, <2>3 DEF Empty, Full
<1>5. WakeInv => NobodyForgotten
  BY <1>1, <1>4, QuietMutex DEF NobodyForgotten, Satisfied
<1>6. QED
  BY <1>5, WakeInvariance, PTL
=============================================================================
