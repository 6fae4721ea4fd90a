------------------------------- MODULE TlsProofs -------------------------------
(***************************************************************************)
(* Proofs about Tls, for records of any number of parts, a raw_buf_ of any *)
(* size, any number of records and of failures of the network: what the    *)
(* sessions say goes through the buffers whole and in order, nothing is    *)
(* withheld, and a stream that has ended was delivered completely.         *)
(*                                                                         *)
(* The parts of a stream are numbered, so that a buffer holds a run of     *)
(* consecutive numbers: the proofs speak of the number before the first    *)
(* and of the lengths, never of the sequences as wholes.                   *)
(***************************************************************************)
EXTENDS Tls, SequenceTheorems, FiniteSetTheorems, TLAPS

-----------------------------------------------------------------------------
(* The inductive invariant.                                                 *)

Hands == {"hello", "flight", "finished", "alert"}
Record == Hands \cup {"data", "bye"}
Ends == {"close", "close_graceful", "last_round"}
Op == Ends \cup {"none", "handshake", "recv", "send", "shutdown_write"}
Place == {"idle", "gone", "ssl", "flush", "recv", "close"}
Then == {"none", "return", "established", "recv", "again", "close"}

TypeOK == /\ act \in [End -> [op : Op, at : Place, then : Then]]
          /\ made \in [End -> Seq(Record)] /\ got \in [End -> Nat]
          /\ dead \subseteq End
          /\ wbio \in [End -> Seq(Nat)] /\ unsent \in [End -> Seq(Nat)]
          /\ wire \in [End -> Seq(Nat)] /\ rbio \in [End -> Seq(Nat)]
          /\ handshake_done \subseteq End /\ closed \subseteq End /\ fd \subseteq End
          /\ reset \in BOOLEAN
          /\ ret \in [End -> {"none", "done", "zero", "fatal"}]
          /\ delivered \in [End -> Nat]

\* Where the operations are: which of them reads the network, which closes.
ActOK(e) ==
    LET a == act[e] IN
    /\ a.op = "none" <=> a.at \in {"idle", "gone"}
    /\ a.at = "flush" <=> a.then # "none"
    /\ a.op \in Ends => e \in closed
    /\ e \in closed => a.op \in Ends \/ a.at = "gone"
    /\ a.at = "recv" \/ a.then = "recv" => a.op # "close"
    /\ a.then = "return" => a.op \notin Ends \cup {"handshake"}
    /\ a.then = "established" => a.op = "handshake"
    /\ a.then = "again" => a.op = "close_graceful"
    /\ a.at = "close" \/ a.then = "close" => a.op \in {"handshake", "close", "last_round"}
    /\ a.then = "close" => a.op \in Ends
    /\ e \in fd <=> a.at # "gone"

\* The records that an end makes in the handshake come before all others.
First(e) == IF e = "client" THEN 2 ELSE 1

MadeOK(e) ==
    /\ \A i \in 1..Len(made[e]) :
         /\ i <= First(e) <=> made[e][i] \in Hands
         /\ made[e][i] \in {"hello", "finished"} => e = "client"
         /\ made[e][i] = "flight" => e = "server"
         /\ e = "client" => (i = 1 <=> made[e][i] = "hello")
    /\ \A i, j \in 1..Len(made[e]) : i < j /\ made[e][i] = "bye" => made[e][j] # "data"

\* How far the handshake of an end is.
HandshakeOK(e, p) ==
    LET a == act[e] IN
    /\ a.op = "handshake" => Len(made[e]) <= First(e)
    /\ a.op = "handshake" /\ (a.at \in {"ssl", "recv"} \/ a.then = "recv") =>
         /\ e = "client" => got[e] = 0 /\ Len(made[e]) <= 1
         /\ e = "server" => got[e] <= 1 /\ Len(made[e]) = got[e]
    /\ (a.op # "handshake" /\ a.at # "gone") \/ a.then = "established" =>
         Len(made[e]) >= First(e) /\ got[e] >= First(p)

\* A session that is dead has said close_notify before, or refused a handshake.
DeadOK(e) == e \in dead => \/ Said(e)
                           \/ act[e].op = "handshake" /\ act[e].at = "close"
                           \/ act[e].at = "gone"

\* What is flushed before the session is called and before the network is read.
FlushedOK(e) ==
    /\ ~reset /\ (\/ act[e].at \in {"ssl", "recv", "idle"}
                  \/ act[e].at = "close" /\ e \in closed)
         => wbio[e] = <<>> /\ unsent[e] = <<>>
    /\ e \in closed /\ act[e].at # "ssl" => Said(e)

\* The numbers of s are consecutive, from the one after b on.
From(s, b) == \A i \in 1..Len(s) : s[i] = b + i

\* The last part of what e has made that p has taken, that has reached p's read
\* BIO, the network, raw_buf_, and the write BIO.
Taken(p) == got[p] * Parts
Fed(p) == Taken(p) + Len(rbio[p])
Sent(e, p) == Fed(p) + Len(wire[e])
Drawn(e, p) == Sent(e, p) + Len(unsent[e])
Written(e, p) == Drawn(e, p) + Len(wbio[e])
Due(e) == Len(made[e]) * Parts

FlowOK(e, p) ==
    /\ got[p] <= Len(made[e])
    /\ Fed(p) <= Due(e)
    /\ From(rbio[p], Taken(p))
    /\ reset => wire[e] = <<>>
    /\ ~reset /\ act[p].at # "gone" =>
         /\ From(wire[e], Fed(p)) /\ From(unsent[e], Sent(e, p)) /\ From(wbio[e], Drawn(e, p))
         /\ Written(e, p) <= Due(e)
         /\ Written(e, p) < Due(e) => act[e].at = "gone" /\ Data(e) = 0
    /\ act[e].at = "gone" => wbio[e] = <<>> /\ unsent[e] = <<>>

\* What recv has delivered, and what it knows when it reports the end.
EndOK(e, p) ==
    /\ act[e].op = "recv" /\ (act[e].at = "recv" \/ act[e].then = "recv") =>
         Len(rbio[e]) < Parts /\ e \notin dead
    /\ e \notin dead => delivered[e] = DataIn(p, got[e])
    /\ ret[e] = "zero" => /\ act[e].at = "idle"
                          /\ ~reset => /\ delivered[e] = Data(p)
                                       /\ Said(p) \/ act[p].at = "gone"

EndInv(e) == ActOK(e) /\ MadeOK(e) /\ DeadOK(e) /\ FlushedOK(e)
PairInv(e, p) == HandshakeOK(e, p) /\ FlowOK(e, p) /\ EndOK(e, p)

IInv == /\ TypeOK
        /\ \A e \in End : EndInv(e)
        /\ \A e, p \in End : e # p => PairInv(e, p)
-----------------------------------------------------------------------------
(* The ends, the parts, and runs of consecutive numbers.                    *)

LEMMA TwoEnds ==
  /\ \A e \in End : Peer(e) \in End /\ Peer(e) # e
  /\ \A e, p \in End : e # p => Peer(e) = p /\ End = {e, p}
<1>1. \A e \in End : \E p \in End : p # e
  BY DEF End
<1>2. \A e \in End : Peer(e) \in End /\ Peer(e) # e
  BY <1>1 DEF Peer
<1> QED
  BY <1>2 DEF End

LEMMA Numbers ==
  /\ Parts \in Nat /\ Parts >= 1 /\ RawSize \in Nat /\ RawSize >= 1
  /\ \A n \in Nat : n * Parts \in Nat /\ (n + 1) * Parts = n * Parts + Parts
  /\ \A m, n \in Nat : m <= n => m * Parts <= n * Parts /\ (n - m) * Parts = n * Parts - m * Parts
  /\ \A m, n \in Nat : m * Parts + Parts <= n * Parts => m < n
  /\ \A m, n \in Nat : n * Parts < m * Parts + Parts => n <= m
<1>1. Parts \in Nat /\ Parts >= 1 /\ RawSize \in Nat /\ RawSize >= 1
  BY TlsAssumption
<1>2. \A n \in Nat : n * Parts \in Nat /\ (n + 1) * Parts = n * Parts + Parts
  BY <1>1
<1>3. \A m, n \in Nat : (n - m) * Parts = n * Parts - m * Parts
  BY <1>1
<1>4. \A d \in Nat : d * Parts >= 0 /\ (d >= 1 => d * Parts >= Parts)
  BY <1>1
<1>5. ASSUME NEW m \in Nat, NEW n \in Nat, m <= n PROVE m * Parts <= n * Parts
  <2>1. n - m \in Nat /\ (n - m) * Parts = n * Parts - m * Parts
    BY <1>3, <1>5
  <2>2. (n - m) * Parts >= 0
    BY <1>4, <2>1
  <2>3. n * Parts \in Nat /\ m * Parts \in Nat
    BY <1>2
  <2> QED
    BY <2>1, <2>2, <2>3
<1>6. ASSUME NEW m \in Nat, NEW n \in Nat, n < m PROVE n * Parts + Parts <= m * Parts
  <2>1. m - n \in Nat /\ m - n >= 1 /\ (m - n) * Parts = m * Parts - n * Parts
    BY <1>3, <1>6
  <2>2. (m - n) * Parts >= Parts
    BY <1>4, <2>1
  <2>3. n * Parts \in Nat /\ m * Parts \in Nat
    BY <1>2
  <2> QED
    BY <1>1, <2>1, <2>2, <2>3
<1>7. ASSUME NEW m \in Nat, NEW n \in Nat, m * Parts + Parts <= n * Parts PROVE m < n
  <2>1. CASE n <= m
    <3>1. n * Parts <= m * Parts
      BY <1>5, <2>1
    <3>2. n * Parts \in Nat /\ m * Parts \in Nat
      BY <1>2
    <3> QED
      BY <1>1, <1>7, <3>1, <3>2
  <2> QED
    BY <2>1
<1>8. ASSUME NEW m \in Nat, NEW n \in Nat, n * Parts < m * Parts + Parts PROVE n <= m
  <2>1. CASE m < n
    <3>1. m * Parts + Parts <= n * Parts
      BY <1>6, <2>1
    <3>2. n * Parts \in Nat /\ m * Parts \in Nat
      BY <1>2
    <3> QED
      BY <1>1, <1>8, <3>1, <3>2
  <2> QED
    BY <2>1
<1> QED
  BY <1>1, <1>2, <1>3, <1>5, <1>7, <1>8

\* A piece of a sequence is a sequence, and of a run it is a run.
LEMMA FromPiece ==
  ASSUME NEW s \in Seq(Nat), NEW k \in Nat, NEW n \in Nat, n <= Len(s)
  PROVE  /\ SubSeq(s, k + 1, n) \in Seq(Nat)
         /\ Len(SubSeq(s, k + 1, n)) = IF k <= n THEN n - k ELSE 0
         /\ \A b \in Nat : From(s, b) => From(SubSeq(s, k + 1, n), b + k)
<1> DEFINE t == SubSeq(s, k + 1, n)
<1>1. \A i \in (k + 1)..n : s[i] \in Nat
  <2> TAKE i \in (k + 1)..n
  <2>1. i \in 1..Len(s)
    BY LenProperties
  <2> QED
    BY <2>1, ElementOfSeq
<1>2. /\ t \in Seq(Nat)
      /\ Len(t) = IF k + 1 <= n THEN n - (k + 1) + 1 ELSE 0
      /\ \A i \in 1..(n - (k + 1) + 1) : t[i] = s[(k + 1) + i - 1]
  BY <1>1, SubSeqProperties
<1> HIDE DEF t
<1>3. Len(t) = IF k <= n THEN n - k ELSE 0
  BY <1>2
<1>4. ASSUME NEW b \in Nat, From(s, b) PROVE From(t, b + k)
  <2> SUFFICES ASSUME NEW i \in 1..Len(t) PROVE t[i] = b + k + i
    BY DEF From
  <2>1. i \in 1..(n - (k + 1) + 1) /\ k <= n
    BY <1>3
  <2>2. t[i] = s[k + i]
    BY <1>2, <2>1
  <2>3. k + i \in 1..Len(s)
    BY <2>1, LenProperties
  <2> QED
    BY <1>4, <2>2, <2>3 DEF From
<1> QED
  BY <1>2, <1>3, <1>4 DEF t

\* A run of the first parts of a buffer, and what stays there.
LEMMA SplitAt ==
  ASSUME NEW s \in Seq(Nat), NEW n \in 1..Len(s)
  PROVE  LET head == SubSeq(s, 1, n)
             tail == SubSeq(s, n + 1, Len(s))
         IN  /\ head \in Seq(Nat) /\ Len(head) = n
             /\ tail \in Seq(Nat) /\ Len(tail) = Len(s) - n
             /\ \A b \in Nat : From(s, b) => From(head, b) /\ From(tail, b + n)
<1> DEFINE l == Len(s)
           head == SubSeq(s, 1, n)
           tail == SubSeq(s, n + 1, l)
<1>1. l \in Nat /\ l <= Len(s) /\ n \in Nat /\ n <= l
  BY LenProperties
<1>2. /\ head \in Seq(Nat) /\ Len(head) = n
      /\ \A b \in Nat : From(s, b) => From(head, b)
  <2>1. /\ SubSeq(s, 0 + 1, n) \in Seq(Nat)
        /\ Len(SubSeq(s, 0 + 1, n)) = IF 0 <= n THEN n - 0 ELSE 0
        /\ \A b \in Nat : From(s, b) => From(SubSeq(s, 0 + 1, n), b + 0)
    <3>1. 0 \in Nat
      OBVIOUS
    <3> QED
      BY <1>1, <3>1, FromPiece
  <2> QED
    BY <1>1, <2>1
<1>3. /\ tail \in Seq(Nat) /\ Len(tail) = l - n
      /\ \A b \in Nat : From(s, b) => From(tail, b + n)
  <2> HIDE DEF l
  <2>1. /\ SubSeq(s, n + 1, l) \in Seq(Nat)
        /\ Len(SubSeq(s, n + 1, l)) = IF n <= l THEN l - n ELSE 0
        /\ \A b \in Nat : From(s, b) => From(SubSeq(s, n + 1, l), b + n)
    BY <1>1, FromPiece
  <2> QED
    BY <1>1, <2>1
<1> QED
  BY <1>2, <1>3

\* What raw_buf_ has room for of a buffer, and what stays there.
LEMMA Split ==
  ASSUME NEW s \in Seq(Nat)
  PROVE  LET m == Min({RawSize, Len(s)})
             head == SubSeq(s, 1, m)
             tail == SubSeq(s, RawSize + 1, Len(s))
         IN  /\ head \in Seq(Nat) /\ tail \in Seq(Nat)
             /\ Len(head) + Len(tail) = Len(s)
             /\ s # <<>> => Len(head) >= 1
             /\ \A b \in Nat : From(s, b) => From(head, b) /\ From(tail, b + Len(head))
<1> DEFINE m == Min({RawSize, Len(s)})
           n == Len(s)
<1>1. n \in Nat /\ RawSize \in Nat /\ RawSize >= 1 /\ (s # <<>> => n >= 1)
  BY LenProperties, Numbers, EmptySeq
<1>2. m \in Nat /\ m = IF RawSize <= n THEN RawSize ELSE n
  <2> HIDE DEF n
  <2>1. \E x \in {RawSize, n} : \A y \in {RawSize, n} : x <= y
    BY <1>1
  <2>2. Min({RawSize, n}) \in {RawSize, n} /\ \A y \in {RawSize, n} : Min({RawSize, n}) <= y
    BY <2>1 DEF Min
  <2> QED
    BY <1>1, <2>2 DEF n
<1> HIDE DEF m
<1> DEFINE head == SubSeq(s, 1, m)
           tail == SubSeq(s, RawSize + 1, n)
<1>3. head \in Seq(Nat) /\ Len(head) = m /\ \A b \in Nat : From(s, b) => From(head, b)
  <2>1. /\ SubSeq(s, 0 + 1, m) \in Seq(Nat)
        /\ Len(SubSeq(s, 0 + 1, m)) = IF 0 <= m THEN m - 0 ELSE 0
        /\ \A b \in Nat : From(s, b) => From(SubSeq(s, 0 + 1, m), b + 0)
    <3>1. 0 \in Nat /\ m <= Len(s)
      BY <1>1, <1>2
    <3> QED
      BY <1>2, <3>1, FromPiece
  <2> QED
    BY <1>2, <2>1
<1>4. /\ tail \in Seq(Nat) /\ Len(tail) = n - m
      /\ \A b \in Nat : From(s, b) => From(tail, b + RawSize)
  <2>1. /\ SubSeq(s, RawSize + 1, n) \in Seq(Nat)
        /\ Len(SubSeq(s, RawSize + 1, n)) = IF RawSize <= n THEN n - RawSize ELSE 0
        /\ \A b \in Nat : From(s, b) => From(SubSeq(s, RawSize + 1, n), b + RawSize)
    BY <1>1, FromPiece
  <2> HIDE DEF n
  <2> QED
    BY <1>1, <1>2, <2>1
<1> HIDE DEF n, head, tail
<1>5. ASSUME NEW b \in Nat, From(s, b) PROVE From(tail, b + m)
  <2>1. CASE m = RawSize
    BY <1>4, <1>5, <2>1
  <2>2. CASE m # RawSize
    <3>1. Len(tail) = 0
      BY <1>1, <1>2, <1>4, <2>2
    <3> QED
      BY <3>1 DEF From
  <2> QED
    BY <2>1, <2>2
<1>6. head \in Seq(Nat) /\ tail \in Seq(Nat)
  BY <1>3, <1>4
<1>7. Len(head) + Len(tail) = n /\ (s # <<>> => Len(head) >= 1)
  BY <1>1, <1>2, <1>3, <1>4
<1>8. \A b \in Nat : From(s, b) => From(head, b) /\ From(tail, b + Len(head))
  BY <1>3, <1>5
<1> QED
  BY <1>6, <1>7, <1>8 DEF head, tail, m, n

\* Two runs, the second of which goes on where the first ends, are a run.
LEMMA FromConcat ==
  ASSUME NEW s \in Seq(Nat), NEW t \in Seq(Nat), NEW b \in Nat,
         From(s, b), From(t, b + Len(s))
  PROVE  /\ s \o t \in Seq(Nat) /\ Len(s \o t) = Len(s) + Len(t)
         /\ From(s \o t, b)
<1>1. /\ s \o t \in Seq(Nat) /\ Len(s \o t) = Len(s) + Len(t)
      /\ \A i \in 1..(Len(s) + Len(t)) : (s \o t)[i] = IF i <= Len(s) THEN s[i] ELSE t[i - Len(s)]
  BY ConcatProperties
<1> DEFINE u == s \o t
<1> HIDE DEF u
<1>2. ASSUME NEW i \in 1..Len(u) PROVE u[i] = b + i
  <2>1. /\ Len(s) \in Nat /\ Len(t) \in Nat /\ i \in 1..(Len(s) + Len(t))
        /\ u[i] = IF i <= Len(s) THEN s[i] ELSE t[i - Len(s)]
    BY <1>1, LenProperties DEF u
  <2>2. CASE i <= Len(s)
    BY <2>1, <2>2 DEF From
  <2>3. CASE ~(i <= Len(s))
    <3>1. i - Len(s) \in 1..Len(t)
      BY <2>1, <2>3
    <3>2. t[i - Len(s)] = b + Len(s) + (i - Len(s))
      BY <3>1 DEF From
    <3> QED
      BY <2>1, <2>3, <3>2
  <2> QED
    BY <2>2, <2>3
<1> QED
  BY <1>1, <1>2 DEF From, u

\* The parts of some records are a run, and a run is the parts of the records.
LEMMA StreamIsRun ==
  ASSUME NEW m \in Nat, NEW n \in Nat, m <= n
  PROVE  /\ Stream(m, n) \in Seq(Nat) /\ Len(Stream(m, n)) = n * Parts - m * Parts
         /\ From(Stream(m, n), m * Parts)
         /\ \A i \in 1..Len(Stream(m, n)) : Stream(m, n)[i] = m * Parts + i
<1> DEFINE l == (n - m) * Parts
           b == m * Parts
<1>1. l \in Nat /\ b \in Nat /\ l = n * Parts - m * Parts
  <2>1. n * Parts - m * Parts = (n - m) * Parts /\ n - m \in Nat
    BY Numbers
  <2>2. (n - m) * Parts \in Nat
    BY <2>1, Numbers
  <2> QED
    BY <2>1, <2>2, Numbers
<1>2. Stream(m, n) = [i \in 1..l |-> b + i]
  BY DEF Stream
<1> HIDE DEF l, b
<1>3. /\ Stream(m, n) \in Seq(Nat) /\ Len(Stream(m, n)) = l
      /\ \A i \in 1..l : Stream(m, n)[i] = b + i
  BY <1>1, <1>2
<1> QED
  BY <1>1, <1>3 DEF From, b

\* A run is known by its length and what comes before it.
LEMMA RunsEqual ==
  ASSUME NEW s \in Seq(Nat), NEW t \in Seq(Nat), NEW b \in Nat,
         From(s, b), From(t, b), Len(s) = Len(t)
  PROVE  s = t
BY SeqEqual DEF From
-----------------------------------------------------------------------------
(* What the session of an end answers.                                      *)

\* A record that the read BIO has whole is the next one of the peer.
LEMMA RecordReady ==
  ASSUME IInv, NEW e \in End, NEW p \in End, e # p, Ready(e)
  PROVE  Intact(e) /\ got[e] < Len(made[p]) /\ Len(rbio[e]) >= Parts
<1> DEFINE n == Len(made[p])
           l == Len(rbio[e])
<1>1. /\ got[e] \in Nat /\ rbio[e] \in Seq(Nat) /\ l >= Parts
      /\ From(rbio[e], got[e] * Parts) /\ got[e] * Parts + l <= n * Parts
  BY DEF IInv, TypeOK, PairInv, FlowOK, Fed, Due, Taken, Ready
<1>2. n \in Nat /\ l \in Nat /\ got[e] * Parts \in Nat /\ n * Parts \in Nat
  BY <1>1, LenProperties, Numbers DEF IInv, TypeOK
<1> HIDE DEF n, l
<1>3. got[e] < n
  <2>1. got[e] * Parts + Parts <= n * Parts
    BY <1>1, <1>2, Numbers
  <2> QED
    BY <1>1, <1>2, <2>1, Numbers
<1>4. Intact(e)
  <2> DEFINE b == got[e] * Parts
             s == SubSeq(rbio[e], 1, Parts)
             t == Stream(got[e], got[e] + 1)
  <2>1. s \in Seq(Nat) /\ Len(s) = Parts /\ From(s, b)
    <3> DEFINE r == rbio[e]
    <3>1. r \in Seq(Nat) /\ b \in Nat /\ From(r, b) /\ 0 \in Nat /\ Parts \in Nat /\ Parts <= Len(r)
      BY <1>1, <1>2, Numbers DEF l
    <3> HIDE DEF r, b
    <3>2. /\ SubSeq(r, 0 + 1, Parts) \in Seq(Nat)
          /\ Len(SubSeq(r, 0 + 1, Parts)) = IF 0 <= Parts THEN Parts - 0 ELSE 0
          /\ From(SubSeq(r, 0 + 1, Parts), b + 0)
      BY <3>1, FromPiece
    <3> QED
      BY <3>1, <3>2 DEF r
  <2>2. t \in Seq(Nat) /\ Len(t) = Parts /\ From(t, b)
    <3>1. t \in Seq(Nat) /\ Len(t) = (got[e] + 1) * Parts - got[e] * Parts /\ From(t, got[e] * Parts)
      BY <1>1, StreamIsRun
    <3>2. (got[e] + 1) * Parts = got[e] * Parts + Parts
      BY <1>1, Numbers
    <3> QED
      BY <1>2, <3>1, <3>2, Numbers
  <2> HIDE DEF s, t, b
  <2>3. s = t
    BY <1>2, <2>1, <2>2, RunsEqual DEF b
  <2> QED
    BY <2>3 DEF Intact, s, t
<1> QED
  BY <1>1, <1>3, <1>4 DEF n, l

\* The answer of a call that reads a record.
LEMMA Reading ==
  ASSUME IInv, NEW e \in End, NEW p \in End, e # p,
         NEW answers, NEW answer \in Reads(e, answers)
  PROVE  \/ answer = Answer(0, <<>>, "want_read") /\ Len(rbio[e]) < Parts
         \/ answer \in answers /\ got[e] < Len(made[p]) /\ Len(rbio[e]) >= Parts
<1>1. CASE Ready(e)
  BY <1>1, RecordReady DEF Reads
<1>2. CASE ~Ready(e)
  <2>1. Len(rbio[e]) \in Nat /\ Parts \in Nat
    BY LenProperties, Numbers DEF IInv, TypeOK
  <2> QED
    BY <1>2, <2>1 DEF Reads, Ready, WantRead
<1> QED
  BY <1>1, <1>2

\* A record that an end may make next.
Fits(e, k) ==
    /\ k \in Record
    /\ Len(made[e]) + 1 <= First(e) <=> k \in Hands
    /\ k \in {"hello", "finished"} => e = "client"
    /\ k = "flight" => e = "server"
    /\ e = "client" => (Len(made[e]) = 0 <=> k = "hello")
    /\ k = "data" => ~Said(e)

\* An answer that takes t records, makes those of m and says what s says.
Sound(e, p, t, m, s) ==
    /\ t \in {0, 1} /\ s \in {"done", "zero", "fatal", "want_read"}
    /\ m = <<>> \/ \E k \in Record : m = <<k>> /\ Fits(e, k)
    /\ t = 1 => got[e] < Len(made[p]) /\ Len(rbio[e]) >= Parts

OfHandshake(e, p, t, m, s) ==
    LET n == Len(made[e]) + Len(m) IN
    /\ n <= First(e) /\ s # "zero"
    /\ t = 1 => s = "fatal" \/ made[p][got[e] + 1] # "data"
    /\ s = "done" => n >= First(e) /\ got[e] + t >= First(p)
    /\ s = "want_read" => /\ e = "client" => got[e] + t = 0 /\ n <= 1
                          /\ e = "server" => got[e] + t <= 1 /\ n = got[e] + t

OfRecv(e, p, t, m, s) ==
    /\ m = <<>>
    /\ s = "want_read" => t = 0 /\ Len(rbio[e]) < Parts /\ e \notin dead
    /\ s = "done" => t = 1 /\ made[p][got[e] + 1] = "data"
    /\ s = "zero" => \/ t = 0 /\ Heard(e)
                     \/ t = 1 /\ made[p][got[e] + 1] = "bye"

\* send and the operations that shut down.
OfWriter(e, p, t, s) == t = 1 => s = "fatal" \/ made[p][got[e] + 1] # "data"

\* close_notify has been said, if only by this answer.
OfEnd(e, m) == Said(e) \/ m = <<"bye">>

\* What the handshake answers.  The server waits for hello and the client,
\* that has said it, for the server's flight: a record that another end may
\* make, or make later, cannot be there.
LEMMA HandshakeAnswers ==
  ASSUME IInv, NEW e \in End, NEW p \in End, e # p, At(e, "ssl"), act[e].op = "handshake",
         e \notin dead, NEW answer \in DoHandshake(e)
  PROVE  /\ Sound(e, p, answer.takes, answer.emits, answer.says)
         /\ OfHandshake(e, p, answer.takes, answer.emits, answer.says)
<1> DEFINE n == Len(made[e])
           g == got[e]
           r == made[p][g + 1]
<1>1. /\ n \in Nat /\ g \in Nat /\ Len(made[p]) \in Nat
      /\ e = "client" => g = 0 /\ n <= 1
      /\ e = "server" => g <= 1 /\ n = g
  BY LenProperties DEF IInv, TypeOK, At, PairInv, HandshakeOK
<1>2. (e = "client" /\ p = "server") \/ (e = "server" /\ p = "client")
  BY DEF End
<1>3. made[e] = <<>> <=> n = 0
  BY EmptySeq DEF IInv, TypeOK
<1>4. ASSUME g < Len(made[p]) PROVE
        /\ g + 1 <= First(p) <=> r \in Hands
        /\ r \in {"hello", "finished"} => p = "client"
        /\ r = "flight" => p = "server"
        /\ p = "client" => (g = 0 <=> r = "hello")
  <2>1. g + 1 \in 1..Len(made[p])
    BY <1>1, <1>4
  <2> HIDE DEF g
  <2> QED
    BY <1>1, <2>1 DEF IInv, EndInv, MadeOK
<1>5. Peer(e) = p
  BY TwoEnds
<1> HIDE DEF n, g
<1>6. CASE e = "client" /\ made[e] = <<>>
  <2>1. answer = Answer(0, <<"hello">>, "want_read")
    BY <1>6 DEF DoHandshake
  <2>2. n = 0 /\ g = 0 /\ Len(<<"hello">>) = 1
    BY <1>1, <1>3, <1>6
  <2>3. Fits(e, "hello")
    BY <1>6, <2>2 DEF Fits, First, Record, Hands, n
  <2> QED
    BY <1>6, <2>1, <2>2, <2>3 DEF Sound, OfHandshake, Answer, First, Record, Hands, n, g
<1>7. CASE ~(e = "client" /\ made[e] = <<>>)
  <2> DEFINE hello == r = "hello" /\ answer \in {Answer(1, <<"flight">>, "want_read"), Fatal(<<"alert">>)}
             flight == r = "flight" /\ answer \in {Answer(1, <<"finished">>, "done"), Fatal(<<"alert">>)}
             finished == r = "finished" /\ answer = Answer(1, <<>>, "done")
             other == answer = Fatal(<<>>)
  <2>1. \/ answer = Answer(0, <<>>, "want_read") /\ Len(rbio[e]) < Parts
        \/ /\ g < Len(made[p]) /\ Len(rbio[e]) >= Parts
           /\ hello \/ flight \/ finished \/ other
    <3> DEFINE answers == CASE Arriving(e) = "hello" -> {Answer(1, <<"flight">>, "want_read"),
                                                 Fatal(<<"alert">>)}
                    [] Arriving(e) = "flight" -> {Answer(1, <<"finished">>, "done"),
                                                  Fatal(<<"alert">>)}
                    [] Arriving(e) = "finished" -> {Answer(1, <<>>, "done")}
                    [] OTHER -> {Fatal(<<>>)}
    <3>1. answer \in Reads(e, answers)
      BY <1>7 DEF DoHandshake
    <3>2. Arriving(e) = r
      BY <1>5 DEF Arriving, g
    <3>3. answer \in answers => hello \/ flight \/ finished \/ other
      BY <3>2
    <3> HIDE DEF answers, hello, flight, finished, other
    <3> QED
      BY <3>1, <3>3, Reading DEF g
  <2>2. n = 0 => e = "server"
    BY <1>2, <1>3, <1>7
  <2>3. CASE answer = Answer(0, <<>>, "want_read")
    <3>1. Len(<<>>) = 0
      OBVIOUS
    <3> QED
      BY <1>1, <1>2, <2>2, <2>3, <3>1 DEF Sound, OfHandshake, Answer, First, n, g
  <2>4. CASE g < Len(made[p]) /\ Len(rbio[e]) >= Parts /\ hello
    <3>1. p = "client" /\ e = "server" /\ g = 0 /\ n = 0
      BY <1>1, <1>2, <1>4, <2>4
    <3>2. Fits(e, "flight") /\ Fits(e, "alert")
      BY <3>1 DEF Fits, First, Record, Hands, n
    <3>3. Len(<<"flight">>) = 1 /\ Len(<<"alert">>) = 1
      OBVIOUS
    <3>4. CASE answer = Answer(1, <<"flight">>, "want_read")
      <4>1. Sound(e, p, 1, <<"flight">>, "want_read")
        BY <2>4, <3>2 DEF Sound, Record, Hands, g
      <4>2. OfHandshake(e, p, 1, <<"flight">>, "want_read")
        BY <2>4, <3>1, <3>3 DEF OfHandshake, First, n, g
      <4> QED
        BY <3>4, <4>1, <4>2 DEF Answer
    <3>5. CASE answer = Answer(1, <<"alert">>, "fatal")
      <4>1. Sound(e, p, 1, <<"alert">>, "fatal")
        BY <2>4, <3>2 DEF Sound, Record, Hands, g
      <4>2. OfHandshake(e, p, 1, <<"alert">>, "fatal")
        BY <3>1, <3>3 DEF OfHandshake, First, n, g
      <4> QED
        BY <3>5, <4>1, <4>2 DEF Answer
    <3> QED
      BY <2>4, <3>4, <3>5 DEF Fatal
  <2>5. CASE g < Len(made[p]) /\ Len(rbio[e]) >= Parts /\ flight
    <3>1. p = "server" /\ e = "client" /\ g = 0 /\ n = 1
      BY <1>1, <1>2, <1>4, <2>2, <2>5
    <3>2. Fits(e, "finished") /\ Fits(e, "alert")
      BY <3>1 DEF Fits, First, Record, Hands, n
    <3>3. Len(<<"finished">>) = 1 /\ Len(<<"alert">>) = 1
      OBVIOUS
    <3>4. CASE answer = Answer(1, <<"finished">>, "done")
      <4>1. Sound(e, p, 1, <<"finished">>, "done")
        BY <2>5, <3>2 DEF Sound, Record, Hands, g
      <4>2. OfHandshake(e, p, 1, <<"finished">>, "done")
        BY <2>5, <3>1, <3>3 DEF OfHandshake, First, n, g
      <4> QED
        BY <3>4, <4>1, <4>2 DEF Answer
    <3>5. CASE answer = Answer(1, <<"alert">>, "fatal")
      <4>1. Sound(e, p, 1, <<"alert">>, "fatal")
        BY <2>5, <3>2 DEF Sound, Record, Hands, g
      <4>2. OfHandshake(e, p, 1, <<"alert">>, "fatal")
        BY <3>1, <3>3 DEF OfHandshake, First, n, g
      <4> QED
        BY <3>5, <4>1, <4>2 DEF Answer
    <3> QED
      BY <2>5, <3>4, <3>5 DEF Fatal
  <2>6. CASE g < Len(made[p]) /\ Len(rbio[e]) >= Parts /\ finished
    <3>1. p = "client" /\ e = "server" /\ g = 1 /\ n = 1
      BY <1>1, <1>2, <1>4, <2>6
    <3>2. Len(<<>>) = 0
      OBVIOUS
    <3> QED
      BY <2>6, <3>1, <3>2 DEF Sound, OfHandshake, Answer, First, n, g
  <2>7. CASE g < Len(made[p]) /\ Len(rbio[e]) >= Parts /\ other
    <3>1. Len(<<>>) = 0
      OBVIOUS
    <3> QED
      BY <1>1, <1>2, <2>7, <3>1 DEF Sound, OfHandshake, Answer, Fatal, First, n, g
  <2> QED
    BY <2>1, <2>3, <2>4, <2>5, <2>6, <2>7
<1> QED
  BY <1>6, <1>7

\* After the handshake the records are data, and close_notify once.
LEMMA AfterHandshake ==
  ASSUME IInv, NEW e \in End, NEW p \in End, e # p, At(e, "ssl"),
         act[e].op \in {"recv", "send", "shutdown_write"} \cup Ends
  PROVE  /\ Fits(e, "bye")
         /\ ~Said(e) => Fits(e, "data")
         /\ got[e] < Len(made[p]) => made[p][got[e] + 1] \in {"data", "bye"}
<1>1. /\ Len(made[e]) \in Nat /\ got[e] \in Nat /\ Len(made[p]) \in Nat
      /\ Len(made[e]) >= First(e) /\ got[e] >= First(p) /\ made[p] \in Seq(Record)
  BY LenProperties DEF IInv, TypeOK, At, PairInv, HandshakeOK, Ends
<1>2. First(e) \in {1, 2} /\ First(p) \in {1, 2} /\ (e = "client" => First(e) = 2)
  BY DEF First
<1>3. Fits(e, "bye") /\ (~Said(e) => Fits(e, "data"))
  BY <1>1, <1>2 DEF Fits, Record, Hands
<1>4. ASSUME got[e] < Len(made[p]) PROVE made[p][got[e] + 1] \in {"data", "bye"}
  <2>1. got[e] + 1 \in 1..Len(made[p]) /\ ~(got[e] + 1 <= First(p))
    BY <1>1, <1>2, <1>4
  <2>2. made[p][got[e] + 1] \in Record
    BY <1>1, <2>1, ElementOfSeq
  <2>3. made[p][got[e] + 1] \notin Hands
    BY <2>1 DEF IInv, EndInv, MadeOK
  <2> QED
    BY <2>2, <2>3 DEF Record
<1> QED
  BY <1>3, <1>4

LEMMA RecvAnswers ==
  ASSUME IInv, NEW e \in End, NEW p \in End, e # p, At(e, "ssl"), act[e].op = "recv",
         e \notin dead, NEW answer \in SslRead(e)
  PROVE  /\ Sound(e, p, answer.takes, answer.emits, answer.says)
         /\ OfRecv(e, p, answer.takes, answer.emits, answer.says) /\ answer.says # "fatal"
<1> DEFINE r == made[p][got[e] + 1]
<1>1. got[e] < Len(made[p]) => r \in {"data", "bye"}
  BY AfterHandshake
<1>2. Arriving(e) = r
  BY TwoEnds DEF Arriving
<1> HIDE DEF r
<1>3. CASE answer = Answer(0, <<>>, "zero") /\ Heard(e)
  BY <1>3 DEF Answer, Sound, OfRecv
<1>4. CASE answer = Answer(0, <<>>, "want_read") /\ Len(rbio[e]) < Parts
  BY <1>4 DEF Answer, Sound, OfRecv
<1>5. CASE /\ answer = Answer(1, <<>>, IF r = "bye" THEN "zero" ELSE "done")
           /\ got[e] < Len(made[p]) /\ Len(rbio[e]) >= Parts
  BY <1>1, <1>5 DEF Answer, Sound, OfRecv, r
<1>6. \/ answer = Answer(0, <<>>, "zero") /\ Heard(e)
      \/ answer \in Reads(e, {Answer(1, <<>>, IF r = "bye" THEN "zero" ELSE "done")})
  BY <1>2 DEF SslRead
<1> DEFINE answers == {Answer(1, <<>>, IF r = "bye" THEN "zero" ELSE "done")}
<1>7. answer \in answers => answer = Answer(1, <<>>, IF r = "bye" THEN "zero" ELSE "done")
  OBVIOUS
<1> HIDE DEF answers
<1> QED
  BY <1>3, <1>4, <1>5, <1>6, <1>7, Reading DEF answers

LEMMA SendAnswers ==
  ASSUME IInv, NEW e \in End, NEW p \in End, e # p, At(e, "ssl"), act[e].op = "send",
         NEW answer \in SslWrite(e)
  PROVE  /\ Sound(e, p, answer.takes, answer.emits, answer.says)
         /\ OfWriter(e, p, answer.takes, answer.says)
         /\ answer.says \in {"done", "fatal"} /\ (answer.says # "done" => answer.emits = <<>> /\ Said(e))
<1>1. CASE answer = Answer(0, <<>>, "fatal") /\ Said(e)
  BY <1>1 DEF Answer, Sound, OfWriter
<1>2. CASE answer = Answer(0, <<"data">>, "done") /\ ~Said(e)
  <2>1. Fits(e, "data")
    BY <1>2, AfterHandshake
  <2>2. Sound(e, p, 0, <<"data">>, "done")
    BY <2>1 DEF Sound, Record
  <2> QED
    BY <1>2, <2>2 DEF Answer, OfWriter
<1> QED
  BY <1>1, <1>2 DEF SslWrite

LEMMA ShutdownAnswers ==
  ASSUME IInv, NEW e \in End, NEW p \in End, e # p, At(e, "ssl"),
         act[e].op \in Ends \cup {"shutdown_write"}, NEW answer \in SslShutdown(e)
  PROVE  /\ Sound(e, p, answer.takes, answer.emits, answer.says)
         /\ OfWriter(e, p, answer.takes, answer.says)
         /\ OfEnd(e, answer.emits) /\ (answer.says = "fatal" => Said(e))
<1> DEFINE r == made[p][got[e] + 1]
           last == IF r = "bye" THEN Answer(1, <<>>, "done") ELSE Fatal(<<>>)
           answers == {last}
<1>1. /\ Fits(e, "bye")
      /\ got[e] < Len(made[p]) => r \in {"data", "bye"}
  BY AfterHandshake
<1>2. Arriving(e) = r
  BY TwoEnds DEF Arriving
<1>3. CASE answer = Answer(0, <<"bye">>, "done")
  <2>1. Sound(e, p, 0, <<"bye">>, "done")
    BY <1>1 DEF Sound, Record
  <2> QED
    BY <1>3, <2>1 DEF Answer, OfWriter, OfEnd
<1>4. CASE Said(e) /\ answer \in {Answer(0, <<>>, "done"), Answer(0, <<>>, "want_read")}
  BY <1>4 DEF Answer, Sound, OfWriter, OfEnd
<1>5. CASE Said(e) /\ answer = last /\ got[e] < Len(made[p]) /\ Len(rbio[e]) >= Parts
  <2>1. \/ answer = Answer(1, <<>>, "done") /\ r # "data"
        \/ answer = Answer(1, <<>>, "fatal")
    BY <1>5 DEF Fatal
  <2> QED
    BY <1>5, <2>1 DEF Answer, Sound, OfWriter, OfEnd
<1>6. answer \in answers => answer = last
  OBVIOUS
<1>7. \/ answer = Answer(0, <<"bye">>, "done")
      \/ Said(e) /\ answer = Answer(0, <<>>, "done")
      \/ Said(e) /\ answer \in Reads(e, answers)
  BY <1>2 DEF SslShutdown
<1> HIDE DEF answers, last
<1> QED
  BY <1>3, <1>4, <1>5, <1>6, <1>7, Reading

\* Every answer of the session to the operation an end is in.
LEMMA SessionAnswers ==
  ASSUME IInv, NEW e \in End, NEW p \in End, e # p, At(e, "ssl"),
         NEW answer \in Session(e, act[e].op)
  PROVE  /\ Sound(e, p, answer.takes, answer.emits, answer.says)
         /\ act[e].op = "handshake" => OfHandshake(e, p, answer.takes, answer.emits, answer.says)
         /\ act[e].op = "recv" => OfRecv(e, p, answer.takes, answer.emits, answer.says)
         /\ act[e].op \in Ends \cup {"send", "shutdown_write"} =>
              OfWriter(e, p, answer.takes, answer.says)
         /\ act[e].op \in Ends => OfEnd(e, answer.emits)
         /\ act[e].op = "send" /\ answer.says # "done" => answer.emits = <<>>
         /\ act[e].op = "send" => answer.says # "want_read"
         /\ answer.says = "fatal" /\ act[e].op # "handshake" => Said(e)
         /\ e \in dead => answer.says = "fatal"
<1> DEFINE t == answer.takes
           m == answer.emits
           s == answer.says
<1>1. act[e].op \in Op /\ act[e].op # "none"
  BY DEF IInv, TypeOK, EndInv, ActOK, At
<1>2. CASE e \in dead
  <2>1. answer = Answer(0, <<>>, "fatal")
    BY <1>2 DEF Session
  <2>2. t = 0 /\ m = <<>> /\ s = "fatal" /\ Len(m) = 0
    BY <2>1 DEF Answer
  <2>3. act[e].op # "handshake" => Said(e)
    BY <1>2 DEF IInv, EndInv, DeadOK, At
  <2>4. act[e].op = "handshake" => Len(made[e]) \in Nat /\ Len(made[e]) <= First(e)
    BY LenProperties DEF IInv, TypeOK, PairInv, HandshakeOK
  <2> HIDE DEF t, m, s
  <2>5. Sound(e, p, t, m, s)
    BY <2>2 DEF Sound
  <2>6. act[e].op = "handshake" => OfHandshake(e, p, t, m, s)
    BY <2>2, <2>4 DEF OfHandshake
  <2>7. OfRecv(e, p, t, m, s) /\ OfWriter(e, p, t, s)
    BY <2>2 DEF OfRecv, OfWriter
  <2>8. act[e].op \in Ends => OfEnd(e, m)
    BY <2>3 DEF OfEnd, Ends
  <2> QED
    BY <2>2, <2>3, <2>5, <2>6, <2>7, <2>8 DEF t, m, s
<1>3. CASE e \notin dead /\ act[e].op = "handshake"
  <2>1. answer \in DoHandshake(e)
    BY <1>3 DEF Session
  <2> QED
    BY <1>3, <2>1, HandshakeAnswers DEF Ends
<1>4. CASE e \notin dead /\ act[e].op = "recv"
  <2>1. answer \in SslRead(e)
    BY <1>4 DEF Session
  <2> QED
    BY <1>4, <2>1, RecvAnswers DEF Ends
<1>5. CASE e \notin dead /\ act[e].op = "send"
  <2>1. answer \in SslWrite(e)
    BY <1>5 DEF Session
  <2> QED
    BY <1>5, <2>1, SendAnswers DEF Ends
<1>6. CASE e \notin dead /\ act[e].op \in Ends \cup {"shutdown_write"}
  <2>1. answer \in SslShutdown(e)
    BY <1>6 DEF Session, Ends
  <2> QED
    BY <1>6, <2>1, ShutdownAnswers DEF Ends
<1> QED
  BY <1>1, <1>2, <1>3, <1>4, <1>5, <1>6 DEF Op
-----------------------------------------------------------------------------
(* What a step of an end leaves alone.                                      *)

\* Nothing changes that is p's.
Still(p) ==
    /\ act'[p] = act[p] /\ made'[p] = made[p] /\ got'[p] = got[p]
    /\ (p \in dead') = (p \in dead)
    /\ wbio'[p] = wbio[p] /\ unsent'[p] = unsent[p] /\ rbio'[p] = rbio[p]
    /\ (p \in closed') = (p \in closed) /\ (p \in fd') = (p \in fd)
    /\ delivered'[p] = delivered[p] /\ ret'[p] = ret[p]
    /\ reset => reset'

LEMMA EndStill ==
  ASSUME NEW e \in End, NEW p \in End, Still(p), EndInv(p), HandshakeOK(p, e)
  PROVE  EndInv(p)' /\ HandshakeOK(p, e)'
<1>1. ActOK(p)'
  BY DEF Still, EndInv, ActOK
<1>2. MadeOK(p)'
  BY DEF Still, EndInv, MadeOK
<1>3. DeadOK(p)'
  BY DEF Still, EndInv, DeadOK, Said, Contains
<1>4. FlushedOK(p)'
  BY DEF Still, EndInv, FlushedOK, Said, Contains
<1>5. HandshakeOK(p, e)'
  BY DEF Still, HandshakeOK
<1> QED
  BY <1>1, <1>2, <1>3, <1>4, <1>5 DEF EndInv

LEMMA DeliveredStill ==
  ASSUME NEW e \in End, NEW p \in End, Still(p), EndOK(p, e),
         made'[e] = made[e], act[e].at = "gone" => act'[e].at = "gone"
  PROVE  EndOK(p, e)'
BY DEF Still, EndOK, DataIn, Data, Said, Contains

\* What has been delivered is known still when no result is.
LEMMA CountStill ==
  ASSUME NEW e \in End, NEW p \in End, EndOK(e, p),
         made'[p] = made[p], got'[e] = got[e], (e \in dead') = (e \in dead),
         delivered'[e] = delivered[e], ret'[e] # "zero",
         act'[e].op = "recv" /\ (act'[e].at = "recv" \/ act'[e].then = "recv") =>
           Len(rbio'[e]) < Parts /\ e \notin dead'
  PROVE  EndOK(e, p)'
<1>1. \A n : DataIn(p, n)' = DataIn(p, n)
  BY DEF DataIn
<1> QED
  BY <1>1 DEF EndOK

LEMMA FlowStill ==
  ASSUME NEW e \in End, NEW p \in End, FlowOK(e, p),
         made'[e] = made[e], got'[p] = got[p], rbio'[p] = rbio[p],
         wire'[e] = wire[e], unsent'[e] = unsent[e], wbio'[e] = wbio[e],
         reset' = reset, act[p].at = "gone" => act'[p].at = "gone",
         (act'[e].at = "gone") = (act[e].at = "gone")
  PROVE  FlowOK(e, p)'
BY DEF FlowOK, Taken, Fed, Sent, Drawn, Written, Due, From, DataIn, Data

\* The invariant is that of both ends and of both pairs.
LEMMA OfBoth ==
  ASSUME NEW e \in End, NEW p \in End, e # p, TypeOK',
         EndInv(e)', EndInv(p)', HandshakeOK(e, p)', HandshakeOK(p, e)',
         FlowOK(e, p)', FlowOK(p, e)', EndOK(e, p)', EndOK(p, e)'
  PROVE  IInv'
<1>1. End = {e, p}
  BY TwoEnds
<1>2. PairInv(e, p)' /\ PairInv(p, e)'
  BY DEF PairInv
<1>3. \A x \in End : EndInv(x)'
  BY <1>1
<1>4. \A x, y \in End : x # y => PairInv(x, y)'
  BY <1>1, <1>2
<1> QED
  BY <1>3, <1>4 DEF IInv
-----------------------------------------------------------------------------
(* The initial states, and the operations that start.                       *)

LEMMA InitOK == Init => IInv
<1> SUFFICES ASSUME Init PROVE IInv
  OBVIOUS
<1>1. <<>> \in Seq(Nat) /\ <<>> \in Seq(Record) /\ Len(<<>>) = 0
  BY EmptySeq
<1>2. TypeOK
  BY <1>1 DEF Init, TypeOK, In, Op, Place, Then
<1>3. ASSUME NEW e \in End PROVE EndInv(e)
  BY <1>1 DEF Init, EndInv, ActOK, MadeOK, DeadOK, FlushedOK, In, Ends
<1>4. ASSUME NEW e \in End, NEW p \in End, e # p PROVE PairInv(e, p)
  <2>1. got[p] = 0 /\ made[e] = <<>> /\ Len(made[e]) = 0 /\ 0 * Parts = 0
    BY <1>1, Numbers DEF Init
  <2>2. Taken(p) = 0 /\ Due(e) = 0
    BY <2>1 DEF Taken, Due
  <2>3. Fed(p) = 0 /\ Sent(e, p) = 0 /\ Drawn(e, p) = 0 /\ Written(e, p) = 0
    BY <1>1, <2>2 DEF Init, Fed, Sent, Drawn, Written
  <2>4. FlowOK(e, p)
    BY <1>1, <2>1, <2>2, <2>3 DEF Init, FlowOK, From, In
  <2>5. HandshakeOK(e, p)
    BY <1>1 DEF Init, HandshakeOK, In, First
  <2>6. EndOK(e, p)
    <3>1. DataIn(p, 0) = 0
      <4>1. {i \in 1..0 : made[p][i] = "data"} = {}
        OBVIOUS
      <4> QED
        BY <4>1, FS_EmptySet DEF DataIn
    <3> QED
      BY <3>1 DEF Init, EndOK, In
  <2> QED
    BY <2>4, <2>5, <2>6 DEF PairInv
<1> QED
  BY <1>2, <1>3, <1>4 DEF IInv

\* recv, send and shutdown_write start on a socket whose buffers are empty.
LEMMA CallStep ==
  ASSUME IInv, NEW e \in End, NEW p \in End, e # p,
         NEW op \in {"recv", "send", "shutdown_write"}, Call(e, op)
  PROVE  IInv'
<1>1. /\ act'[e] = In(op, "ssl", "none") /\ act[e].at = "idle" /\ act'[p] = act[p]
      /\ ret'[e] = "none" /\ ret'[p] = ret[p] /\ e \notin closed
  BY DEF Call, IInv, TypeOK, At
<1>2. TypeOK'
  <2>1. In(op, "ssl", "none") \in [op : Op, at : Place, then : Then]
    BY DEF In, Op, Place, Then, Ends
  <2> QED
    BY <2>1 DEF Call, IInv, TypeOK, sessionVars, bufferVars, socketVars, linkVars
<1>3. Still(p)
  BY <1>1 DEF Still, Call, sessionVars, bufferVars, socketVars, linkVars
<1>4. EndInv(p)' /\ HandshakeOK(p, e)'
  BY <1>3, EndStill DEF IInv, PairInv
<1>5. EndOK(p, e)'
  BY <1>1, <1>3, DeliveredStill DEF IInv, PairInv, Call, sessionVars
<1>6. FlowOK(e, p)' /\ FlowOK(p, e)'
  <2>1. /\ act'[e].at # "gone" /\ act[e].at # "gone"
        /\ UNCHANGED <<made, got, rbio, wire, unsent, wbio, reset>>
    BY <1>1 DEF Call, sessionVars, bufferVars, linkVars, In
  <2> QED
    BY <1>1, <2>1, FlowStill DEF IInv, PairInv
<1>7. ActOK(e)'
  BY <1>1 DEF IInv, EndInv, ActOK, Call, socketVars, In, Ends
<1>8. MadeOK(e)'
  BY DEF IInv, EndInv, MadeOK, Call, sessionVars
<1>9. DeadOK(e)'
  BY <1>1 DEF IInv, EndInv, DeadOK, Call, sessionVars, Said, Contains
<1>10. FlushedOK(e)'
  BY <1>1 DEF IInv, EndInv, FlushedOK, Call, bufferVars, linkVars, socketVars, In
<1>11. HandshakeOK(e, p)'
  <2>1. act[e].op # "handshake"
    BY <1>1 DEF IInv, EndInv, ActOK
  <2> QED
    BY <1>1, <2>1 DEF IInv, PairInv, HandshakeOK, Call, sessionVars, In
<1>12. EndOK(e, p)'
  BY <1>1, CountStill DEF IInv, PairInv, Call, sessionVars, In
<1> QED
  BY <1>2, <1>4, <1>5, <1>6, <1>7, <1>8, <1>9, <1>10, <1>11, <1>12, OfBoth DEF EndInv

\* So does a close, which notes that it has.
LEMMA CloseStep ==
  ASSUME IInv, NEW e \in End, NEW p \in End, e # p,
         NEW op \in {"close", "close_graceful"}, Close(e, op)
  PROVE  IInv'
<1>1. /\ act'[e] = In(op, "ssl", "none") /\ act[e].at = "idle" /\ act'[p] = act[p]
      /\ ret'[e] = "none" /\ ret'[p] = ret[p] /\ e \in closed' /\ (p \in closed') = (p \in closed)
  BY DEF Close, IInv, TypeOK, At
<1>2. TypeOK'
  <2>1. In(op, "ssl", "none") \in [op : Op, at : Place, then : Then]
    BY DEF In, Op, Place, Then, Ends
  <2> QED
    BY <2>1 DEF Close, IInv, TypeOK, sessionVars, bufferVars, linkVars
<1>3. Still(p)
  BY <1>1 DEF Still, Close, sessionVars, bufferVars, linkVars
<1>4. EndInv(p)' /\ HandshakeOK(p, e)'
  BY <1>3, EndStill DEF IInv, PairInv
<1>5. EndOK(p, e)'
  BY <1>1, <1>3, DeliveredStill DEF IInv, PairInv, Close, sessionVars
<1>6. FlowOK(e, p)' /\ FlowOK(p, e)'
  <2>1. /\ act'[e].at # "gone" /\ act[e].at # "gone"
        /\ UNCHANGED <<made, got, rbio, wire, unsent, wbio, reset>>
    BY <1>1 DEF Close, sessionVars, bufferVars, linkVars, In
  <2> QED
    BY <1>1, <2>1, FlowStill DEF IInv, PairInv
<1>7. ActOK(e)'
  BY <1>1 DEF IInv, EndInv, ActOK, Close, In, Ends
<1>8. MadeOK(e)'
  BY DEF IInv, EndInv, MadeOK, Close, sessionVars
<1>9. DeadOK(e)'
  BY <1>1 DEF IInv, EndInv, DeadOK, Close, sessionVars, Said, Contains
<1>10. FlushedOK(e)'
  BY <1>1 DEF IInv, EndInv, FlushedOK, Close, bufferVars, linkVars, In
<1>11. HandshakeOK(e, p)'
  <2>1. act[e].op # "handshake"
    BY <1>1 DEF IInv, EndInv, ActOK
  <2> QED
    BY <1>1, <2>1 DEF IInv, PairInv, HandshakeOK, Close, sessionVars, In
<1>12. EndOK(e, p)'
  BY <1>1, CountStill DEF IInv, PairInv, Close, sessionVars, In
<1> QED
  BY <1>2, <1>4, <1>5, <1>6, <1>7, <1>8, <1>9, <1>10, <1>11, <1>12, OfBoth DEF EndInv
-----------------------------------------------------------------------------
(* The operations that end.                                                 *)

\* A handshake makes no data.
LEMMA NoData ==
  ASSUME IInv, NEW e \in End, Len(made[e]) <= First(e)
  PROVE  Data(e) = 0
<1>1. {i \in 1..Len(made[e]) : made[e][i] = "data"} = {}
  <2> SUFFICES ASSUME NEW i \in 1..Len(made[e]), made[e][i] = "data" PROVE FALSE
    OBVIOUS
  <2>1. Len(made[e]) \in Nat /\ First(e) \in Nat
    BY LenProperties DEF IInv, TypeOK, First
  <2>2. made[e][i] \in Hands
    BY <2>1 DEF IInv, EndInv, MadeOK
  <2> QED
    BY <2>2 DEF Hands
<1> QED
  BY <1>1, FS_EmptySet DEF Data, DataIn

\* A socket that goes takes no data with it that was to be sent: a close has
\* flushed, and a handshake that is refused has none.
LEMMA FreeStep ==
  ASSUME IInv, NEW e \in End, NEW p \in End, e # p, act[e].at \in {"idle", "close"},
         act' = [act EXCEPT ![e] = Gone], Free(e),
         UNCHANGED <<sessionVars, wire, handshake_done, closed, linkVars>>
  PROVE  IInv'
<1>1. /\ act'[e] = Gone /\ act'[p] = act[p] /\ ret'[e] = "none" /\ ret'[p] = ret[p]
      /\ rbio'[e] = <<>> /\ wbio'[e] = <<>> /\ unsent'[e] = <<>>
      /\ rbio'[p] = rbio[p] /\ wbio'[p] = wbio[p] /\ unsent'[p] = unsent[p]
      /\ (p \in fd') = (p \in fd) /\ e \notin fd'
  BY DEF Free, IInv, TypeOK
<1>2. UNCHANGED <<made, got, dead, wire, closed, reset, delivered>>
  BY DEF Free, sessionVars, linkVars
<1>3. TypeOK'
  <2>1. Gone \in [op : Op, at : Place, then : Then] /\ <<>> \in Seq(Nat)
    BY DEF Gone, In, Op, Place, Then, Ends
  <2> QED
    BY <1>2, <2>1 DEF Free, IInv, TypeOK
<1>4. Still(p)
  BY <1>1, <1>2 DEF Still
<1>5. EndInv(p)' /\ HandshakeOK(p, e)'
  BY <1>4, EndStill DEF IInv, PairInv
<1>6. EndOK(p, e)'
  BY <1>1, <1>2, <1>4, DeliveredStill DEF IInv, PairInv, Gone, In
<1>7. FlowOK(p, e)'
  <2>1. Len(<<>>) = 0 /\ Len(rbio[e]) \in Nat /\ Taken(e) \in Nat /\ Due(p) \in Nat
    BY LenProperties, Numbers DEF IInv, TypeOK, Taken, Due
  <2>2. Taken(e)' = Taken(e) /\ Due(p)' = Due(p)
    BY <1>2 DEF Taken, Due
  <2>3. /\ got[e] <= Len(made[p]) /\ Fed(e) <= Due(p) /\ (reset => wire[p] = <<>>)
        /\ act[p].at = "gone" => wbio[p] = <<>> /\ unsent[p] = <<>>
    BY DEF IInv, PairInv, FlowOK
  <2>4. Fed(e)' = Taken(e) + 0
    BY <1>1, <2>1, <2>2 DEF Fed
  <2>5. Fed(e)' <= Due(p)'
    BY <2>1, <2>2, <2>3, <2>4 DEF Fed
  <2>6. From(rbio[e], Taken(e))'
    BY <1>1, <2>1 DEF From
  <2>7. act'[e].at = "gone"
    BY <1>1 DEF Gone, In
  <2> QED
    BY <1>1, <1>2, <2>3, <2>5, <2>6, <2>7 DEF FlowOK
<1>8. FlowOK(e, p)'
  <2>1. /\ Taken(p)' = Taken(p) /\ Fed(p)' = Fed(p) /\ Due(e)' = Due(e) /\ Sent(e, p)' = Sent(e, p)
        /\ Data(e)' = Data(e) /\ act'[e].at = "gone" /\ act[e].at # "gone"
    BY <1>1, <1>2 DEF Taken, Fed, Due, Sent, Data, DataIn, Gone, In
  <2>2. Len(<<>>) = 0 /\ Sent(e, p) \in Nat /\ Len(unsent[e]) \in Nat /\ Len(wbio[e]) \in Nat /\ Due(e) \in Nat
    <3>1. /\ Len(unsent[e]) \in Nat /\ Len(wbio[e]) \in Nat /\ Len(wire[e]) \in Nat
          /\ Len(rbio[p]) \in Nat /\ Len(made[e]) \in Nat /\ got[p] \in Nat
      BY LenProperties DEF IInv, TypeOK
    <3>2. Taken(p) \in Nat /\ Due(e) \in Nat
      BY <3>1, Numbers DEF Taken, Due
    <3> QED
      BY <3>1, <3>2 DEF Fed, Sent
  <2>3. Drawn(e, p)' = Sent(e, p) /\ Written(e, p)' = Sent(e, p)
    BY <1>1, <2>1, <2>2 DEF Drawn, Written
  <2>4. Written(e, p) = Sent(e, p) + Len(unsent[e]) + Len(wbio[e])
    BY DEF Written, Drawn
  <2>5. FlowOK(e, p)
    BY DEF IInv, PairInv
  <2>6. ASSUME ~reset, act[p].at # "gone", Sent(e, p) < Due(e) PROVE Data(e) = 0
    <3>1. CASE wbio[e] = <<>> /\ unsent[e] = <<>>
      BY <2>1, <2>2, <2>4, <2>5, <2>6, <3>1 DEF FlowOK
    <3>2. CASE ~(wbio[e] = <<>> /\ unsent[e] = <<>>)
      <4>1. act[e].at = "close" /\ e \notin closed
        BY <2>6, <3>2 DEF IInv, EndInv, FlushedOK
      <4>2. act[e].op = "handshake"
        BY <4>1 DEF IInv, EndInv, ActOK, Ends
      <4> QED
        BY <4>2, NoData DEF IInv, PairInv, HandshakeOK
    <3> QED
      BY <3>1, <3>2
  <2>7. From(unsent[e], Sent(e, p))' /\ From(wbio[e], Drawn(e, p))'
    BY <1>1, <2>2 DEF From
  <2>8. From(rbio[p], Taken(p))' /\ (From(wire[e], Fed(p)) => From(wire[e], Fed(p))')
    BY <1>1, <1>2, <2>1, <2>5 DEF From, FlowOK
  <2>9. ~reset /\ act[p].at # "gone" => Written(e, p)' <= Due(e)'
    BY <2>1, <2>2, <2>3, <2>4, <2>5 DEF FlowOK
  <2> QED
    BY <1>1, <1>2, <2>1, <2>3, <2>5, <2>6, <2>7, <2>8, <2>9 DEF FlowOK
<1>9. ActOK(e)'
  BY <1>1, <1>2 DEF ActOK, Gone, In, Ends
<1>10. MadeOK(e)'
  BY <1>2 DEF IInv, EndInv, MadeOK
<1>11. DeadOK(e)'
  BY <1>1 DEF DeadOK, Gone, In
<1>12. FlushedOK(e)'
  BY <1>1, <1>2 DEF IInv, EndInv, FlushedOK, Said, Contains
<1>13. HandshakeOK(e, p)'
  BY <1>1, <1>2 DEF HandshakeOK, Gone, In
<1>14. EndOK(e, p)'
  BY <1>1, <1>2, CountStill DEF IInv, PairInv, Gone, In
<1> QED
  BY <1>3, <1>5, <1>6, <1>7, <1>8, <1>9, <1>10, <1>11, <1>12, <1>13, <1>14, OfBoth DEF EndInv

LEMMA DestroyStep ==
  ASSUME IInv, NEW e \in End, NEW p \in End, e # p, Destroy(e)
  PROVE  IInv'
BY FreeStep DEF Destroy, At

LEMMA TcpCloseStep ==
  ASSUME IInv, NEW e \in End, NEW p \in End, e # p, TcpClose(e)
  PROVE  IInv'
BY FreeStep DEF TcpClose, At

\* The connection breaks: what both ends have is as it was.
LEMMA ResetStep ==
  ASSUME IInv, NEW e \in End, NEW p \in End, e # p, Reset
  PROVE  IInv'
<1>1. /\ UNCHANGED <<act, made, got, dead, wbio, unsent, rbio, handshake_done, closed, fd, ret, delivered>>
      /\ reset' = TRUE /\ wire' = [x \in End |-> <<>>]
  BY DEF Reset, sessionVars, socketVars, resultVars
<1>2. TypeOK'
  <2>1. <<>> \in Seq(Nat)
    OBVIOUS
  <2> QED
    BY <1>1, <2>1 DEF IInv, TypeOK
<1>3. Still(e) /\ Still(p)
  BY <1>1 DEF Still
<1>4. EndInv(e)' /\ EndInv(p)' /\ HandshakeOK(e, p)' /\ HandshakeOK(p, e)'
  BY <1>3, EndStill DEF IInv, PairInv
<1>5. EndOK(e, p)' /\ EndOK(p, e)'
  BY <1>1, <1>3, DeliveredStill DEF IInv, PairInv
<1>6. ASSUME NEW x \in End, NEW y \in End, FlowOK(x, y) PROVE FlowOK(x, y)'
  BY <1>1, <1>6 DEF FlowOK, Taken, Fed, Due, From
<1>7. FlowOK(e, p)' /\ FlowOK(p, e)'
  BY <1>6 DEF IInv, PairInv
<1> QED
  BY <1>2, <1>4, <1>5, <1>7, OfBoth
-----------------------------------------------------------------------------
(* The network.                                                             *)

LEMMA Sizes ==
  ASSUME TypeOK, NEW e \in End, NEW p \in End
  PROVE  /\ Len(rbio[p]) \in Nat /\ Len(wire[e]) \in Nat /\ Len(unsent[e]) \in Nat /\ Len(wbio[e]) \in Nat
         /\ Len(made[e]) \in Nat /\ got[p] \in Nat
         /\ Taken(p) \in Nat /\ Fed(p) \in Nat /\ Sent(e, p) \in Nat /\ Drawn(e, p) \in Nat
         /\ Written(e, p) \in Nat /\ Due(e) \in Nat
<1>1. /\ Len(unsent[e]) \in Nat /\ Len(wbio[e]) \in Nat /\ Len(wire[e]) \in Nat
      /\ Len(rbio[p]) \in Nat /\ Len(made[e]) \in Nat /\ got[p] \in Nat
  BY LenProperties DEF TypeOK
<1>2. Taken(p) \in Nat /\ Due(e) \in Nat
  BY <1>1, Numbers DEF Taken, Due
<1>3. Fed(p) \in Nat
  BY <1>1, <1>2 DEF Fed
<1>4. Sent(e, p) \in Nat
  BY <1>1, <1>3 DEF Sent
<1>5. Drawn(e, p) \in Nat
  BY <1>1, <1>4 DEF Drawn
<1>6. Written(e, p) \in Nat
  BY <1>1, <1>5 DEF Written
<1> QED
  BY <1>1, <1>2, <1>3, <1>4, <1>5, <1>6

\* What is sent next comes before what stays in the write BIO.
LEMMA ChunkRun ==
  ASSUME TypeOK, NEW e \in End
  PROVE  /\ Chunk(e) \in Seq(Nat) /\ Filled(e) \in [End -> Seq(Nat)]
         /\ \A x \in End \ {e} : Filled(e)[x] = wbio[x]
         /\ Len(Chunk(e)) + Len(Filled(e)[e]) = Len(unsent[e]) + Len(wbio[e])
         /\ Chunk(e) = <<>> => unsent[e] = <<>> /\ wbio[e] = <<>> /\ Filled(e)[e] = <<>>
         /\ \A b \in Nat : From(unsent[e], b) /\ From(wbio[e], b + Len(unsent[e])) =>
              From(Chunk(e), b) /\ From(Filled(e)[e], b + Len(Chunk(e)))
<1>1. unsent[e] \in Seq(Nat) /\ wbio[e] \in Seq(Nat) /\ wbio \in [End -> Seq(Nat)]
  BY DEF TypeOK
<1>2. CASE unsent[e] # <<>>
  BY <1>1, <1>2 DEF Chunk, Filled
<1>3. CASE unsent[e] = <<>>
  <2> DEFINE s == wbio[e]
             head == SubSeq(s, 1, Min({RawSize, Len(s)}))
             tail == SubSeq(s, RawSize + 1, Len(s))
  <2>1. /\ head \in Seq(Nat) /\ tail \in Seq(Nat)
        /\ Len(head) + Len(tail) = Len(s)
        /\ s # <<>> => Len(head) >= 1
        /\ \A b \in Nat : From(s, b) => From(head, b) /\ From(tail, b + Len(head))
    BY <1>1, Split
  <2>2. Chunk(e) = head /\ Filled(e) = [wbio EXCEPT ![e] = tail]
    BY <1>3 DEF Chunk, Filled
  <2> HIDE DEF s, head, tail
  <2>3. Len(head) \in Nat /\ Len(tail) \in Nat /\ Len(s) \in Nat /\ s \in Seq(Nat)
    BY <1>1, <2>1, LenProperties DEF s
  <2>4. Len(unsent[e]) = 0
    BY <1>3
  <2>5. Filled(e)[e] = tail /\ Filled(e) \in [End -> Seq(Nat)] /\ \A x \in End \ {e} : Filled(e)[x] = wbio[x]
    BY <1>1, <2>1, <2>2
  <2>6. ASSUME head = <<>> PROVE s = <<>> /\ tail = <<>>
    <3>1. Len(head) = 0
      BY <2>6
    <3>2. s = <<>>
      BY <2>1, <3>1
    <3>3. Len(tail) = 0
      BY <2>1, <2>3, <3>1, <3>2
    <3> QED
      BY <2>1, <3>2, <3>3, EmptySeq
  <2>7. Len(head) + Len(tail) = Len(unsent[e]) + Len(s)
    BY <2>1, <2>3, <2>4
  <2>8. \A b \in Nat : From(s, b + Len(unsent[e])) => From(head, b) /\ From(tail, b + Len(head))
    BY <2>1, <2>4
  <2> QED
    BY <1>3, <2>1, <2>2, <2>5, <2>6, <2>7, <2>8 DEF s
<1> QED
  BY <1>2, <1>3

\* A part of the chunk moves to the network, and the numbers do not change.
LEMMA FlushSendStep ==
  ASSUME IInv, NEW e \in End, NEW p \in End, e # p, FlushSend(e)
  PROVE  IInv'
<1> DEFINE c == Chunk(e)
           f == Filled(e)[e]
<1>1. PICK n \in 1..Len(c) :
        /\ wire' = [wire EXCEPT ![e] = @ \o SubSeq(c, 1, n)]
        /\ unsent' = [unsent EXCEPT ![e] = Unsent(e, n)]
  BY DEF FlushSend
<1> DEFINE head == SubSeq(c, 1, n)
           tail == SubSeq(c, n + 1, Len(c))
<1>2. /\ UNCHANGED <<act, made, got, dead, rbio, handshake_done, closed, fd, reset, ret, delivered>>
      /\ ~reset /\ act[e].at = "flush"
      /\ wbio' = Filled(e)
  BY DEF FlushSend, At, sessionVars, socketVars, linkVars, resultVars
<1>3. /\ c \in Seq(Nat) /\ Filled(e) \in [End -> Seq(Nat)]
      /\ \A x \in End \ {e} : Filled(e)[x] = wbio[x]
      /\ Len(c) + Len(f) = Len(unsent[e]) + Len(wbio[e])
      /\ \A b \in Nat : From(unsent[e], b) /\ From(wbio[e], b + Len(unsent[e])) =>
           From(c, b) /\ From(f, b + Len(c))
  BY ChunkRun DEF IInv
<1> HIDE DEF c, f
<1>4. Len(c) \in Nat /\ n \in Nat /\ n <= Len(c) /\ Len(f) \in Nat
  BY <1>3, LenProperties DEF f
<1>5. /\ head \in Seq(Nat) /\ Len(head) = n
      /\ tail \in Seq(Nat) /\ Len(tail) = Len(c) - n
      /\ \A b \in Nat : From(c, b) => From(head, b) /\ From(tail, b + n)
  BY <1>3, SplitAt
<1> HIDE DEF head, tail
<1>6. /\ wire' = [wire EXCEPT ![e] = @ \o head] /\ unsent' = [unsent EXCEPT ![e] = tail]
  BY <1>1 DEF Unsent, head, tail, c
<1>7. /\ wire'[e] = wire[e] \o head /\ unsent'[e] = tail /\ wbio'[e] = f
      /\ wire'[p] = wire[p] /\ unsent'[p] = unsent[p] /\ wbio'[p] = wbio[p]
  BY <1>2, <1>3, <1>6 DEF IInv, TypeOK, f
<1> DEFINE w == wire[e] \o head
<1>8. w \in Seq(Nat) /\ Len(w) = Len(wire[e]) + n
  <2>1. wire[e] \in Seq(Nat)
    BY DEF IInv, TypeOK
  <2> QED
    BY <1>5, <2>1, ConcatProperties
<1> HIDE DEF w
<1>9. TypeOK'
  BY <1>2, <1>3, <1>5, <1>6, <1>8 DEF IInv, TypeOK, w
<1>10. Still(p)
  BY <1>2, <1>7 DEF Still
<1>11. EndInv(p)' /\ HandshakeOK(p, e)'
  BY <1>10, EndStill DEF IInv, PairInv
<1>12. EndOK(p, e)'
  BY <1>2, <1>10, DeliveredStill DEF IInv, PairInv
<1>13. FlowOK(p, e)'
  BY <1>2, <1>7, FlowStill DEF IInv, PairInv
<1>14. FlowOK(e, p)'
  <2>1. /\ Len(wire[e]) \in Nat /\ Len(unsent[e]) \in Nat /\ Len(wbio[e]) \in Nat
        /\ Fed(p) \in Nat /\ Sent(e, p) \in Nat /\ Drawn(e, p) \in Nat
    BY Sizes DEF IInv
  <2>2. /\ Taken(p)' = Taken(p) /\ Fed(p)' = Fed(p) /\ Due(e)' = Due(e)
        /\ Data(e)' = Data(e)
    BY <1>2 DEF Taken, Fed, Due, Data, DataIn
  <2>3. Sent(e, p)' = Sent(e, p) + n
    BY <1>4, <1>7, <1>8, <2>1, <2>2 DEF Sent, w
  <2>4. Drawn(e, p)' = Sent(e, p) + Len(c)
    BY <1>4, <1>5, <1>7, <2>1, <2>3 DEF Drawn
  <2>5. Written(e, p)' = Written(e, p)
    <3>1. Written(e, p)' = Sent(e, p) + Len(c) + Len(f)
      BY <1>7, <2>4 DEF Written
    <3>2. Written(e, p) = Sent(e, p) + Len(unsent[e]) + Len(wbio[e])
      BY DEF Written, Drawn
    <3> DEFINE x == Len(c)
               y == Len(f)
               u == Len(unsent[e])
               v == Len(wbio[e])
               z == Sent(e, p)
    <3>3. x + y = u + v
      BY <1>3
    <3>4. x \in Nat /\ y \in Nat /\ u \in Nat /\ v \in Nat /\ z \in Nat
      BY <1>4, <2>1
    <3>5. Written(e, p)' = z + x + y /\ Written(e, p) = z + u + v
      BY <3>1, <3>2
    <3> HIDE DEF x, y, u, v, z
    <3> QED
      BY <3>3, <3>4, <3>5
  <2>6. FlowOK(e, p)
    BY DEF IInv, PairInv
  <2>7. ASSUME act[p].at # "gone"
        PROVE  From(wire[e], Fed(p))' /\ From(unsent[e], Sent(e, p))' /\ From(wbio[e], Drawn(e, p))'
    <3>1. From(wire[e], Fed(p)) /\ From(unsent[e], Sent(e, p)) /\ From(wbio[e], Sent(e, p) + Len(unsent[e]))
      BY <1>2, <2>6, <2>7 DEF FlowOK, Drawn
    <3>2. From(c, Sent(e, p)) /\ From(f, Sent(e, p) + Len(c))
      BY <1>3, <2>1, <3>1
    <3>3. From(head, Fed(p) + Len(wire[e])) /\ From(tail, Sent(e, p) + n)
      BY <1>5, <2>1, <3>2 DEF Sent
    <3>4. From(w, Fed(p))
      BY <1>5, <2>1, <3>1, <3>3, FromConcat DEF w, IInv, TypeOK
    <3> QED
      BY <1>7, <2>2, <2>3, <2>4, <3>2, <3>3, <3>4 DEF From, w
  <2>8. From(rbio[p], Taken(p))'
    BY <1>2, <2>2, <2>6 DEF From, FlowOK
  <2> QED
    BY <1>2, <2>2, <2>5, <2>6, <2>7, <2>8 DEF FlowOK
<1>15. ActOK(e)'
  BY <1>2 DEF IInv, EndInv, ActOK
<1>16. MadeOK(e)'
  BY <1>2 DEF IInv, EndInv, MadeOK
<1>17. DeadOK(e)'
  BY <1>2 DEF IInv, EndInv, DeadOK, Said, Contains
<1>18. FlushedOK(e)'
  BY <1>2 DEF IInv, EndInv, FlushedOK, Said, Contains
<1>19. HandshakeOK(e, p)'
  BY <1>2 DEF IInv, PairInv, HandshakeOK
<1>20. EndOK(e, p)'
  <2>1. ret[e] # "zero" /\ EndOK(e, p)
    BY <1>2 DEF IInv, PairInv, EndOK
  <2>2. act'[e].op = "recv" /\ (act'[e].at = "recv" \/ act'[e].then = "recv") =>
          Len(rbio'[e]) < Parts /\ e \notin dead'
    BY <1>2, <2>1 DEF EndOK
  <2> QED
    BY <1>2, <2>1, <2>2, CountStill
<1> QED
  BY <1>9, <1>11, <1>12, <1>13, <1>14, <1>15, <1>16, <1>17, <1>18, <1>19, <1>20, OfBoth DEF EndInv

\* A flush that ends on a connection that holds has emptied both buffers.
LEMMA FlushedStep ==
  ASSUME IInv, NEW e \in End, NEW p \in End, e # p, Flushed(e)
  PROVE  IInv'
<1> DEFINE a == act[e]
           next == CASE a.then \in {"return", "established"} -> Idle
                     [] a.then = "again" -> In("last_round", "ssl", "none")
                     [] OTHER -> In(a.op, a.then, "none")
<1>1. /\ UNCHANGED <<made, got, dead, wire, rbio, closed, fd, reset, ret, delivered>>
      /\ act[e].at = "flush" /\ (Chunk(e) # <<>> => reset)
      /\ wbio' = Filled(e) /\ unsent' = [unsent EXCEPT ![e] = <<>>]
      /\ act' = [act EXCEPT ![e] = next]
  BY DEF Flushed, At, sessionVars, linkVars, resultVars
<1>2. /\ Filled(e) \in [End -> Seq(Nat)]
      /\ \A x \in End \ {e} : Filled(e)[x] = wbio[x]
      /\ ~reset => unsent[e] = <<>> /\ wbio[e] = <<>> /\ Filled(e)[e] = <<>>
  BY <1>1, ChunkRun DEF IInv
<1>3. /\ a \in [op : Op, at : Place, then : Then] /\ a.op # "none" /\ a.then # "none" /\ a.at = "flush"
  BY <1>1 DEF IInv, TypeOK, EndInv, ActOK
<1>4. \/ next = Idle /\ a.then \in {"return", "established"}
      \/ next = In("last_round", "ssl", "none") /\ a.then = "again"
      \/ next = In(a.op, a.then, "none") /\ a.then \in {"recv", "close"}
  BY <1>3 DEF Then
<1>5. next \in [op : Op, at : Place, then : Then] /\ next.at \in {"idle", "ssl", "recv", "close"} /\ next.then = "none"
  BY <1>3, <1>4 DEF Idle, In, Op, Place, Then, Ends
<1> HIDE DEF next
<1>6. /\ act'[e] = next /\ act'[p] = act[p] /\ unsent'[e] = <<>> /\ unsent'[p] = unsent[p] /\ wbio'[p] = wbio[p]
      /\ ~reset => wbio'[e] = wbio[e] /\ unsent'[e] = unsent[e] /\ wbio'[e] = <<>>
  BY <1>1, <1>2 DEF IInv, TypeOK
<1>7. TypeOK'
  <2>1. <<>> \in Seq(Nat)
    OBVIOUS
  <2>2. handshake_done' \subseteq End
    BY DEF Flushed, IInv, TypeOK
  <2> QED
    BY <1>1, <1>2, <1>5, <2>1, <2>2 DEF IInv, TypeOK
<1>8. Still(p)
  BY <1>1, <1>6 DEF Still
<1>9. EndInv(p)' /\ HandshakeOK(p, e)'
  BY <1>8, EndStill DEF IInv, PairInv
<1>10. EndOK(p, e)'
  BY <1>1, <1>8, DeliveredStill DEF IInv, PairInv
<1>11. FlowOK(p, e)'
  BY <1>1, <1>6, FlowStill DEF IInv, PairInv
<1>12. FlowOK(e, p)'
  <2>1. CASE ~reset
    <3>1. (act'[e].at = "gone") = (act[e].at = "gone")
      BY <1>1, <1>5, <1>6
    <3> QED
      BY <1>1, <1>6, <2>1, <3>1, FlowStill DEF IInv, PairInv
  <2>2. CASE reset
    BY <1>1, <1>5, <1>6, <2>2 DEF IInv, PairInv, FlowOK, Taken, Fed, Due, From
  <2> QED
    BY <2>1, <2>2
<1>13. ActOK(e) /\ EndOK(e, p) /\ HandshakeOK(e, p) /\ FlushedOK(e) /\ DeadOK(e)
  BY DEF IInv, EndInv, PairInv
<1>14. ActOK(e)'
  BY <1>1, <1>3, <1>4, <1>6, <1>13 DEF ActOK, Idle, In, Ends
<1>15. MadeOK(e)'
  BY <1>1 DEF IInv, EndInv, MadeOK
<1>16. DeadOK(e)'
  BY <1>1, <1>13 DEF DeadOK, Said, Contains
<1>17. FlushedOK(e)'
  BY <1>1, <1>6, <1>13 DEF FlushedOK, Said, Contains
<1>18. HandshakeOK(e, p)'
  BY <1>1, <1>3, <1>4, <1>6, <1>13 DEF HandshakeOK, ActOK, Idle, In
<1>19. EndOK(e, p)'
  <2>1. ret'[e] # "zero"
    BY <1>1, <1>13 DEF EndOK
  <2>2. act'[e].op = "recv" /\ (act'[e].at = "recv" \/ act'[e].then = "recv") =>
          Len(rbio'[e]) < Parts /\ e \notin dead'
    BY <1>1, <1>4, <1>6, <1>13 DEF EndOK, Idle, In
  <2> QED
    BY <1>1, <1>13, <2>1, <2>2, CountStill
<1> QED
  BY <1>7, <1>9, <1>10, <1>11, <1>12, <1>14, <1>15, <1>16, <1>17, <1>18, <1>19, OfBoth DEF EndInv

\* What a receive brings leaves the network for the read BIO.
LEMMA TcpRecvStep ==
  ASSUME IInv, NEW e \in End, NEW p \in End, e # p, TcpRecv(e)
  PROVE  IInv'
<1> DEFINE s == wire[p]
<1>1. PICK n \in 1..Len(s) :
        /\ rbio' = [rbio EXCEPT ![e] = @ \o SubSeq(s, 1, n)]
        /\ wire' = [wire EXCEPT ![p] = SubSeq(@, n + 1, Len(@))]
  <2>1. Peer(e) = p
    BY TwoEnds
  <2> QED
    BY <2>1 DEF TcpRecv
<1>2. /\ UNCHANGED <<made, got, dead, wbio, unsent, handshake_done, closed, fd, reset, ret, delivered>>
      /\ act[e].at = "recv"
      /\ act' = [act EXCEPT ![e] = In(@.op, "ssl", "none")]
  BY DEF TcpRecv, Goto, At, sessionVars, socketVars, linkVars, resultVars
<1> DEFINE head == SubSeq(s, 1, n)
           tail == SubSeq(s, n + 1, Len(s))
           r == rbio[e] \o head
<1>3. s \in Seq(Nat) /\ rbio[e] \in Seq(Nat) /\ ~reset
  <2>1. s \in Seq(Nat) /\ s # <<>>
    BY LenProperties, EmptySeq DEF IInv, TypeOK
  <2> QED
    BY <2>1 DEF IInv, TypeOK, PairInv, FlowOK
<1>4. /\ head \in Seq(Nat) /\ tail \in Seq(Nat)
      /\ Len(head) + Len(tail) = Len(s)
      /\ \A b \in Nat : From(s, b) => From(head, b) /\ From(tail, b + Len(head))
  <2>1. /\ head \in Seq(Nat) /\ Len(head) = n
        /\ tail \in Seq(Nat) /\ Len(tail) = Len(s) - n
        /\ \A b \in Nat : From(s, b) => From(head, b) /\ From(tail, b + n)
    BY <1>3, SplitAt
  <2>2. Len(s) \in Nat /\ n \in Nat
    BY <1>3, LenProperties
  <2> HIDE DEF s, head, tail
  <2> QED
    BY <2>1, <2>2
<1>5. rbio' = [rbio EXCEPT ![e] = r] /\ wire' = [wire EXCEPT ![p] = tail]
  BY <1>1 DEF IInv, TypeOK
<1> HIDE DEF s, head, tail
<1>6. r \in Seq(Nat) /\ Len(r) = Len(rbio[e]) + Len(head)
  BY <1>3, <1>4, ConcatProperties
<1> HIDE DEF r
<1>7. /\ act'[e] = In(act[e].op, "ssl", "none") /\ act'[p] = act[p]
      /\ rbio'[e] = r /\ rbio'[p] = rbio[p] /\ wire'[p] = tail /\ wire'[e] = wire[e]
  BY <1>2, <1>5 DEF IInv, TypeOK
<1>8. TypeOK'
  <2>1. In(act[e].op, "ssl", "none") \in [op : Op, at : Place, then : Then]
    BY DEF IInv, TypeOK, In, Place, Then
  <2> QED
    BY <1>2, <1>4, <1>5, <1>6, <2>1 DEF IInv, TypeOK
<1>9. Still(p)
  BY <1>2, <1>7 DEF Still
<1>10. EndInv(p)' /\ HandshakeOK(p, e)'
  BY <1>9, EndStill DEF IInv, PairInv
<1>11. EndOK(p, e)'
  BY <1>2, <1>9, DeliveredStill DEF IInv, PairInv
<1>12. FlowOK(e, p)'
  <2>1. (act'[e].at = "gone") = (act[e].at = "gone")
    BY <1>2, <1>7 DEF In
  <2> QED
    BY <1>2, <1>7, <2>1, FlowStill DEF IInv, PairInv
<1>13. FlowOK(p, e)'
  <2>1. /\ Len(s) \in Nat /\ Len(rbio[e]) \in Nat /\ Len(unsent[p]) \in Nat /\ Len(wbio[p]) \in Nat
        /\ Taken(e) \in Nat /\ Fed(e) \in Nat /\ Sent(p, e) \in Nat /\ Drawn(p, e) \in Nat /\ Due(p) \in Nat
    BY Sizes DEF IInv, s
  <2>2. Len(head) \in Nat /\ Len(tail) \in Nat
    BY <1>4, LenProperties
  <2>3. /\ Taken(e)' = Taken(e) /\ Due(p)' = Due(p) /\ Data(p)' = Data(p)
    BY <1>2 DEF Taken, Due, Data, DataIn
  <2>4. Fed(e)' = Fed(e) + Len(head)
    <3> DEFINE t == Taken(e)
               x == Len(rbio[e])
               y == Len(head)
    <3>1. Fed(e)' = t + Len(r) /\ Fed(e) = t + x /\ Len(r) = x + y
      BY <1>6, <1>7, <2>3 DEF Fed
    <3>2. t \in Nat /\ x \in Nat /\ y \in Nat
      BY <2>1, <2>2
    <3> HIDE DEF t, x, y
    <3>3. Fed(e)' = Fed(e) + y
      BY <3>1, <3>2
    <3> QED
      BY <3>3 DEF y
  <2>5. Sent(p, e)' = Sent(p, e)
    <3>1. Sent(p, e)' = Fed(e) + Len(head) + Len(tail)
      BY <1>7, <2>4 DEF Sent
    <3>2. Sent(p, e) = Fed(e) + Len(s)
      BY DEF Sent, s
    <3> DEFINE f == Fed(e)
               x == Len(head)
               y == Len(tail)
    <3>3. f \in Nat /\ x \in Nat /\ y \in Nat /\ x + y = Len(s)
      BY <1>4, <2>1, <2>2
    <3>4. Sent(p, e)' = f + x + y /\ Sent(p, e) = f + Len(s)
      BY <3>1, <3>2
    <3> HIDE DEF f, x, y
    <3> QED
      BY <3>3, <3>4
  <2>6. Drawn(p, e)' = Drawn(p, e) /\ Written(p, e)' = Written(p, e)
    BY <1>2, <2>5 DEF Drawn, Written
  <2>7. /\ got[e] <= Len(made[p]) /\ From(rbio[e], Taken(e))
        /\ From(s, Fed(e)) /\ From(unsent[p], Sent(p, e)) /\ From(wbio[p], Drawn(p, e))
        /\ Written(p, e) <= Due(p)
        /\ Written(p, e) < Due(p) => act[p].at = "gone" /\ Data(p) = 0
        /\ act[p].at = "gone" => wbio[p] = <<>> /\ unsent[p] = <<>>
    BY <1>2, <1>3 DEF IInv, PairInv, FlowOK, s
  <2>8. From(head, Fed(e)) /\ From(tail, Fed(e) + Len(head))
    BY <1>4, <2>1, <2>7
  <2>9. From(r, Taken(e))
    <3>1. From(head, Taken(e) + Len(rbio[e]))
      BY <2>8 DEF Fed
    <3> QED
      BY <1>3, <1>4, <2>1, <2>7, <3>1, FromConcat DEF r
  <2>10. Fed(e)' <= Due(p)'
    <3>1. Written(p, e) = Fed(e) + Len(s) + Len(unsent[p]) + Len(wbio[p])
      BY DEF Written, Drawn, Sent, s
    <3>2. Len(head) <= Len(s)
      BY <1>4, <2>2
    <3> DEFINE f == Fed(e)
               x == Len(head)
               y == Len(s)
               u == Len(unsent[p])
               v == Len(wbio[p])
               d == Due(p)
    <3>3. f + y + u + v <= d /\ x <= y
      BY <2>7, <3>1, <3>2
    <3>4. f \in Nat /\ x \in Nat /\ y \in Nat /\ u \in Nat /\ v \in Nat /\ d \in Nat
      BY <2>1, <2>2
    <3>5. Fed(e)' = f + x /\ Due(p)' = d
      BY <2>3, <2>4
    <3> HIDE DEF f, x, y, u, v, d
    <3> QED
      BY <3>3, <3>4, <3>5
  <2>11. From(rbio[e], Taken(e))' /\ From(wire[p], Fed(e))'
    BY <1>7, <2>3, <2>4, <2>8, <2>9 DEF From
  <2>12. From(unsent[p], Sent(p, e))' /\ From(wbio[p], Drawn(p, e))'
    BY <1>2, <2>5, <2>6, <2>7 DEF From
  <2> QED
    BY <1>2, <1>3, <1>7, <2>3, <2>6, <2>7, <2>10, <2>11, <2>12 DEF FlowOK
<1>14. ActOK(e) /\ EndOK(e, p) /\ HandshakeOK(e, p) /\ FlushedOK(e) /\ DeadOK(e)
  BY DEF IInv, EndInv, PairInv
<1>15. ActOK(e)'
  BY <1>2, <1>7, <1>14 DEF ActOK, In
<1>16. MadeOK(e)'
  BY <1>2 DEF IInv, EndInv, MadeOK
<1>17. DeadOK(e)'
  BY <1>2, <1>14 DEF DeadOK, Said, Contains
<1>18. FlushedOK(e)'
  BY <1>2, <1>7, <1>14 DEF FlushedOK, In
<1>19. HandshakeOK(e, p)'
  BY <1>2, <1>7, <1>14 DEF HandshakeOK, In
<1>20. EndOK(e, p)'
  <2>1. ret'[e] # "zero"
    BY <1>2, <1>14 DEF EndOK
  <2> QED
    BY <1>2, <1>7, <1>14, <2>1, CountStill DEF In
<1> QED
  BY <1>8, <1>10, <1>11, <1>12, <1>13, <1>15, <1>16, <1>17, <1>18, <1>19, <1>20, OfBoth DEF EndInv

\* Where there is no data at all there is none at the start.
LEMMA DataPrefix ==
  ASSUME TypeOK, NEW p \in End, Data(p) = 0, NEW n \in Nat, n <= Len(made[p])
  PROVE  DataIn(p, n) = 0
<1> DEFINE l == Len(made[p])
           few == {i \in 1..n : made[p][i] = "data"}
           all == {i \in 1..l : made[p][i] = "data"}
<1>1. l \in Nat /\ n <= l
  BY LenProperties DEF TypeOK
<1>2. Cardinality(all) = 0
  BY DEF Data, DataIn
<1> HIDE DEF l
<1>3. few \subseteq all /\ all \subseteq 1..l
  BY <1>1
<1>4. IsFiniteSet(1..l)
  BY <1>1, FS_Interval
<1>5. IsFiniteSet(all)
  BY <1>3, <1>4, FS_Subset
<1> HIDE DEF all
<1>6. all = {}
  BY <1>2, <1>5, FS_EmptySet
<1>7. few = {}
  BY <1>3, <1>6
<1> QED
  BY <1>7, FS_EmptySet DEF DataIn

\* A recv that finds the peer's socket gone has taken every whole record, and
\* the peer took no data with it.
LEMMA TcpEndsStep ==
  ASSUME IInv, NEW e \in End, NEW p \in End, e # p, TcpEnds(e)
  PROVE  IInv'
<1> DEFINE a == act[e]
           next == CASE a.op \in {"handshake", "last_round"} -> In(a.op, "close", "none")
                     [] a.op = "close_graceful" -> In("last_round", "ssl", "none")
                     [] OTHER -> Idle
<1>1. Peer(e) = p
  BY TwoEnds
<1>2. /\ UNCHANGED <<made, got, dead, wbio, unsent, wire, rbio, handshake_done, closed, fd, reset, delivered>>
      /\ a.at = "recv" /\ wire[p] = <<>> /\ (reset \/ p \notin fd)
      /\ act' = [act EXCEPT ![e] = next]
      /\ ret' = IF a.op # "recv" THEN ret ELSE [ret EXCEPT ![e] = IF reset THEN "fatal" ELSE "zero"]
  BY <1>1 DEF TcpEnds, At, sessionVars, bufferVars, socketVars, linkVars
<1>3. ActOK(e) /\ EndOK(e, p) /\ HandshakeOK(e, p) /\ FlushedOK(e) /\ DeadOK(e) /\ FlowOK(p, e) /\ ActOK(p)
  BY DEF IInv, EndInv, PairInv
<1>4. a \in [op : Op, at : Place, then : Then] /\ a.op \notin {"none", "close"}
  BY <1>2, <1>3 DEF IInv, TypeOK, ActOK
<1>5. \/ next = In(a.op, "close", "none") /\ a.op \in {"handshake", "last_round"}
      \/ next = In("last_round", "ssl", "none") /\ a.op = "close_graceful"
      \/ next = Idle /\ a.op \in {"recv", "send", "shutdown_write"}
  BY <1>4 DEF Op, Ends
<1>6. next \in [op : Op, at : Place, then : Then] /\ next.at \in {"idle", "ssl", "close"} /\ next.then = "none"
  BY <1>4, <1>5 DEF Idle, In, Op, Place, Then, Ends
<1> HIDE DEF next
<1>7. /\ act'[e] = next /\ act'[p] = act[p] /\ ret'[p] = ret[p]
      /\ a.op # "recv" => ret'[e] = ret[e]
      /\ a.op = "recv" => ret'[e] = IF reset THEN "fatal" ELSE "zero"
  BY <1>2 DEF IInv, TypeOK
<1>8. TypeOK'
  BY <1>2, <1>6 DEF IInv, TypeOK
<1>9. Still(p)
  BY <1>2, <1>7 DEF Still
<1>10. EndInv(p)' /\ HandshakeOK(p, e)'
  BY <1>9, EndStill DEF IInv, PairInv
<1>11. EndOK(p, e)'
  BY <1>2, <1>9, DeliveredStill DEF IInv, PairInv
<1>12. FlowOK(e, p)' /\ FlowOK(p, e)'
  <2>1. (act'[e].at = "gone") = (act[e].at = "gone")
    BY <1>2, <1>6, <1>7
  <2> QED
    BY <1>2, <1>7, <2>1, FlowStill DEF IInv, PairInv
<1>13. ActOK(e)'
  BY <1>2, <1>3, <1>4, <1>5, <1>7 DEF ActOK, Idle, In, Ends
<1>14. MadeOK(e)'
  BY <1>2 DEF IInv, EndInv, MadeOK
<1>15. DeadOK(e)'
  BY <1>2, <1>3 DEF DeadOK, Said, Contains
<1>16. FlushedOK(e)'
  BY <1>2, <1>3 DEF FlushedOK, Said, Contains
<1>17. HandshakeOK(e, p)'
  BY <1>2, <1>3, <1>4, <1>5, <1>7 DEF HandshakeOK, Idle, In
<1>18. EndOK(e, p)'
  <2>1. CASE ~(a.op = "recv" /\ ~reset)
    <3>1. ret'[e] # "zero"
      BY <1>2, <1>3, <1>7, <2>1 DEF EndOK
    <3> QED
      BY <1>2, <1>3, <1>6, <1>7, <3>1, CountStill
  <2>2. CASE a.op = "recv" /\ ~reset
    <3>1. act'[e] = Idle /\ ret'[e] = "zero" /\ act[p].at = "gone" /\ e \notin dead /\ Len(rbio[e]) < Parts
      BY <1>2, <1>3, <1>5, <1>7, <2>2 DEF EndOK, ActOK
    <3>2. delivered[e] = DataIn(p, got[e])
      BY <1>3, <3>1 DEF EndOK
    <3>3. /\ wbio[p] = <<>> /\ unsent[p] = <<>> /\ got[e] <= Len(made[p])
          /\ Written(p, e) <= Due(p)
          /\ Written(p, e) < Due(p) => Data(p) = 0
      BY <1>2, <1>3, <2>2, <3>1 DEF FlowOK
    <3>4. got[e] \in Nat /\ Len(made[p]) \in Nat /\ Len(rbio[e]) \in Nat /\ Taken(e) \in Nat /\ Due(p) \in Nat
      BY Sizes DEF IInv
    <3>5. Written(p, e) = Taken(e) + Len(rbio[e])
      BY <1>2, <3>3, <3>4 DEF Written, Drawn, Sent, Fed
    <3>6. ASSUME Written(p, e) = Due(p) PROVE delivered[e] = Data(p)
      <4>1. Due(p) < Taken(e) + Parts
        BY <3>1, <3>4, <3>5, <3>6, Numbers
      <4>2. Len(made[p]) <= got[e]
        BY <3>4, <4>1, Numbers DEF Due, Taken
      <4>3. Len(made[p]) = got[e]
        BY <3>3, <3>4, <4>2
      <4>4. Data(p) = DataIn(p, got[e])
        BY <4>3 DEF Data
      <4> QED
        BY <3>2, <4>4
    <3>7. ASSUME Written(p, e) < Due(p) PROVE delivered[e] = Data(p)
      <4>1. DataIn(p, got[e]) = 0
        BY <3>3, <3>4, <3>7, DataPrefix DEF IInv
      <4> QED
        BY <3>2, <3>3, <3>7, <4>1
    <3>8. delivered[e] = Data(p)
      BY <3>3, <3>4, <3>5, <3>6, <3>7
    <3>9. DataIn(p, got[e])' = DataIn(p, got[e]) /\ Data(p)' = Data(p) /\ delivered'[e] = delivered[e]
      BY <1>2 DEF DataIn, Data
    <3>10. act'[e].at = "idle" /\ act'[e].op = "none" /\ act'[p].at = "gone"
      BY <1>7, <3>1 DEF Idle, In
    <3> QED
      BY <3>1, <3>2, <3>8, <3>9, <3>10 DEF EndOK
  <2> QED
    BY <2>1, <2>2
<1> QED
  BY <1>8, <1>10, <1>11, <1>12, <1>13, <1>14, <1>15, <1>16, <1>17, <1>18, OfBoth DEF EndInv
-----------------------------------------------------------------------------
(* A call of the session.                                                   *)

\* What the session may answer to the operation.
Lawful(e, p, t, m, s) ==
    LET op == act[e].op IN
    /\ Sound(e, p, t, m, s)
    /\ op = "handshake" => OfHandshake(e, p, t, m, s)
    /\ op = "recv" => OfRecv(e, p, t, m, s)
    /\ op \in Ends \cup {"send", "shutdown_write"} => OfWriter(e, p, t, s)
    /\ op \in Ends => OfEnd(e, m)
    /\ op = "send" /\ s # "done" => m = <<>>
    /\ op = "send" => s # "want_read"
    /\ s = "fatal" /\ op # "handshake" => Said(e)
    /\ e \in dead => s = "fatal"

\* Where the operation goes on.
Goes(b, op, s) ==
    \/ b = In(op, "flush", "recv") /\ s = "want_read" /\ op # "close"
    \/ b = In(op, "flush", "established") /\ op = "handshake" /\ s = "done"
    \/ b = In(op, "close", "none") /\ op = "handshake" /\ s \notin {"done", "want_read"}
    \/ b = Idle /\ op \in {"recv", "send"} /\ s \notin {"done", "want_read"}
    \/ /\ b = In(op, "flush", "return") /\ op \in {"recv", "send", "shutdown_write"}
       /\ s # "want_read" /\ (op = "recv" => s = "done")
    \/ b = In(op, "flush", "close") /\ op \in {"close", "last_round"}
    \/ b = In(op, "flush", "again") /\ op = "close_graceful"

\* The step of e's session that takes t records, makes those of m and says s.
Answered(e, p, t, m, s) ==
    /\ act[e].at = "ssl" /\ Lawful(e, p, t, m, s) /\ Goes(act'[e], act[e].op, s)
    /\ made'[e] = made[e] \o m
    /\ wbio'[e] = wbio[e] \o Stream(Len(made[e]), Len(made[e]) + Len(m))
    /\ rbio'[e] = SubSeq(rbio[e], t * Parts + 1, Len(rbio[e]))
    /\ got'[e] = got[e] + t
    /\ dead' = IF s = "fatal" THEN dead \cup {e} ELSE dead
    /\ act[e].op # "recv" \/ s = "want_read" => ret'[e] = ret[e] /\ delivered'[e] = delivered[e]
    /\ act[e].op = "recv" /\ s # "want_read" =>
         ret'[e] = s /\ delivered'[e] = IF s = "done" THEN delivered[e] + 1 ELSE delivered[e]
    /\ act'[p] = act[p] /\ made'[p] = made[p] /\ wbio'[p] = wbio[p] /\ rbio'[p] = rbio[p]
    /\ got'[p] = got[p] /\ ret'[p] = ret[p] /\ delivered'[p] = delivered[p]
    /\ UNCHANGED <<unsent, wire, handshake_done, closed, fd, reset>>

LEMMA WhereItGoes ==
  ASSUME NEW op \in Op, op # "none", NEW s \in {"done", "zero", "fatal", "want_read"}, op = "send" => s # "want_read"
  PROVE  LET next == FollowUp(op, s)
         IN  Goes(IF next[1] = "idle" THEN Idle ELSE In(op, next[1], next[2]), op, s)
BY DEF FollowUp, Goes, Op, Ends

LEMMA SessionStep ==
  ASSUME IInv, NEW e \in End, NEW p \in End, e # p, SslStep(e)
  PROVE  \E t \in {0, 1}, s \in {"done", "zero", "fatal", "want_read"}, m \in Seq(Record) : Answered(e, p, t, m, s)
<1> DEFINE a == act[e]
<1>1. PICK answer \in Session(e, a.op) :
        LET next == FollowUp(a.op, answer.says) IN
         /\ Takes(e, answer)
         /\ act' = [act EXCEPT ![e] = IF next[1] = "idle" THEN Idle ELSE In(@.op, next[1], next[2])]
         /\ IF a.op # "recv" \/ answer.says = "want_read" THEN UNCHANGED resultVars
            ELSE /\ ret' = [ret EXCEPT ![e] = answer.says]
                 /\ delivered' = [delivered EXCEPT ![e] = IF answer.says = "done" THEN @ + 1 ELSE @]
  BY DEF SslStep
<1> DEFINE t == answer.takes
           m == answer.emits
           s == answer.says
           next == FollowUp(a.op, s)
           b == IF next[1] = "idle" THEN Idle ELSE In(a.op, next[1], next[2])
<1>2. a.at = "ssl" /\ UNCHANGED <<unsent, wire, handshake_done, closed, fd, reset>>
  BY DEF SslStep, At, socketVars, linkVars
<1>3. Lawful(e, p, t, m, s)
  BY <1>2, SessionAnswers DEF Lawful, At
<1>4. t \in {0, 1} /\ s \in {"done", "zero", "fatal", "want_read"} /\ m \in Seq(Record)
  <2>1. t \in {0, 1} /\ s \in {"done", "zero", "fatal", "want_read"} /\ (m = <<>> \/ \E k \in Record : m = <<k>>)
    BY <1>3 DEF Lawful, Sound
  <2> HIDE DEF t, m, s
  <2>2. <<>> \in Seq(Record) /\ \A k \in Record : <<k>> \in Seq(Record)
    OBVIOUS
  <2> QED
    BY <2>1, <2>2
<1>5. Goes(b, a.op, s)
  <2>1. a.op \in Op /\ a.op # "none" /\ (a.op = "send" => s # "want_read")
    BY <1>2, <1>3 DEF IInv, TypeOK, EndInv, ActOK, Lawful
  <2> HIDE DEF s
  <2> QED
    BY <1>4, <2>1, WhereItGoes
<1>6. act' = [act EXCEPT ![e] = b]
  BY <1>1
<1>7. /\ made' = [made EXCEPT ![e] = @ \o m]
      /\ wbio' = [wbio EXCEPT ![e] = @ \o Stream(Len(made[e]), Len(made[e]) + Len(m))]
      /\ rbio' = [rbio EXCEPT ![e] = SubSeq(@, t * Parts + 1, Len(@))]
      /\ got' = [got EXCEPT ![e] = @ + t]
      /\ dead' = IF s = "fatal" THEN dead \cup {e} ELSE dead
  BY <1>1 DEF Takes
<1>8. IF a.op # "recv" \/ s = "want_read" THEN UNCHANGED <<ret, delivered>>
      ELSE /\ ret' = [ret EXCEPT ![e] = s]
           /\ delivered' = [delivered EXCEPT ![e] = IF s = "done" THEN @ + 1 ELSE @]
  BY <1>1 DEF resultVars
<1> HIDE DEF t, m, s, b
<1>9. /\ act'[e] = b /\ act'[p] = act[p] /\ made'[p] = made[p] /\ wbio'[p] = wbio[p] /\ rbio'[p] = rbio[p]
      /\ got'[p] = got[p] /\ made'[e] = made[e] \o m /\ got'[e] = got[e] + t
      /\ wbio'[e] = wbio[e] \o Stream(Len(made[e]), Len(made[e]) + Len(m))
      /\ rbio'[e] = SubSeq(rbio[e], t * Parts + 1, Len(rbio[e]))
  BY <1>6, <1>7 DEF IInv, TypeOK
<1>10. /\ ret'[p] = ret[p] /\ delivered'[p] = delivered[p]
       /\ a.op # "recv" \/ s = "want_read" => ret'[e] = ret[e] /\ delivered'[e] = delivered[e]
       /\ a.op = "recv" /\ s # "want_read" =>
            ret'[e] = s /\ delivered'[e] = IF s = "done" THEN delivered[e] + 1 ELSE delivered[e]
  BY <1>8 DEF IInv, TypeOK
<1>11. Answered(e, p, t, m, s)
  BY <1>2, <1>3, <1>5, <1>7, <1>9, <1>10 DEF Answered
<1> QED
  BY <1>4, <1>11

\* The records of an end grow by those of the answer.
LEMMA MadeGrows ==
  ASSUME IInv, NEW e \in End, NEW p \in End, NEW t, NEW m \in Seq(Record), NEW s, Answered(e, p, t, m, s)
  PROVE  /\ made'[e] \in Seq(Record) /\ Len(made[e]) \in Nat /\ Len(m) \in {0, 1}
         /\ Len(made'[e]) = Len(made[e]) + Len(m)
         /\ \A i \in 1..Len(made[e]) : made'[e][i] = made[e][i]
         /\ Len(m) = 0 => m = <<>>
         /\ Len(m) = 1 => m = <<made'[e][Len(made[e]) + 1]>> /\ Fits(e, made'[e][Len(made[e]) + 1])
<1> DEFINE old == made[e]
           new == old \o m
<1>1. old \in Seq(Record) /\ Len(old) \in Nat /\ Len(m) \in Nat
  BY LenProperties DEF IInv, TypeOK
<1>2. /\ new \in Seq(Record) /\ Len(new) = Len(old) + Len(m)
      /\ \A i \in 1..(Len(old) + Len(m)) : new[i] = IF i <= Len(old) THEN old[i] ELSE m[i - Len(old)]
  BY <1>1, ConcatProperties
<1>3. made'[e] = new
  BY DEF Answered
<1>4. m = <<>> \/ \E k \in Record : m = <<k>> /\ Fits(e, k)
  BY DEF Answered, Lawful, Sound
<1>5. Len(m) \in {0, 1} /\ (Len(m) = 0 => m = <<>>)
  BY <1>4
<1>6. Len(m) = 1 => m = <<m[1]>> /\ Fits(e, m[1])
  BY <1>4
<1> HIDE DEF old, new
<1>7. \A i \in 1..Len(old) : new[i] = old[i]
  BY <1>1, <1>2
<1>8. Len(m) = 1 => new[Len(old) + 1] = m[1]
  BY <1>1, <1>2
<1> QED
  BY <1>1, <1>2, <1>3, <1>5, <1>6, <1>7, <1>8 DEF old

\* What is said stays said, and an end of the stream that is said is heard.
LEMMA SaidGrows ==
  ASSUME IInv, NEW e \in End, NEW p \in End, NEW t, NEW m \in Seq(Record), NEW s, Answered(e, p, t, m, s)
  PROVE  /\ Said(e) => Said(e)'
         /\ OfEnd(e, m) => Said(e)'
<1> DEFINE n == Len(made[e])
           l == Len(made'[e])
<1>1. /\ n \in Nat /\ Len(m) \in {0, 1} /\ l = n + Len(m)
      /\ \A i \in 1..n : made'[e][i] = made[e][i]
      /\ Len(m) = 1 => m = <<made'[e][n + 1]>>
  BY MadeGrows
<1>2. Said(e)' = \E i \in 1..l : made'[e][i] = "bye"
  BY DEF Said, Contains
<1>3. Said(e) = \E i \in 1..n : made[e][i] = "bye"
  BY DEF Said, Contains
<1> HIDE DEF n, l
<1>4. ASSUME Said(e) PROVE Said(e)'
  <2>1. PICK i \in 1..n : made[e][i] = "bye"
    BY <1>3, <1>4
  <2>2. made'[e][i] = "bye"
    BY <1>1, <2>1
  <2>3. i \in 1..l
    BY <1>1
  <2> QED
    BY <1>2, <2>2, <2>3
<1>5. ASSUME m = <<"bye">> PROVE Said(e)'
  <2>1. Len(m) = 1
    BY <1>5
  <2>2. l = n + 1 /\ made'[e][n + 1] = "bye"
    BY <1>1, <1>5, <2>1
  <2> QED
    BY <1>1, <1>2, <2>2
<1> QED
  BY <1>4, <1>5 DEF OfEnd

LEMMA AnsweredMade ==
  ASSUME IInv, NEW e \in End, NEW p \in End, NEW t, NEW m \in Seq(Record), NEW s, Answered(e, p, t, m, s)
  PROVE  MadeOK(e)'
<1> DEFINE n == Len(made[e])
           l == Len(made'[e])
           k == made'[e][n + 1]
<1>1. /\ n \in Nat /\ (l = n \/ (l = n + 1 /\ Fits(e, k)))
      /\ \A i \in 1..n : made'[e][i] = made[e][i]
  <2>1. /\ n \in Nat /\ Len(m) \in {0, 1} /\ l = n + Len(m)
        /\ \A i \in 1..n : made'[e][i] = made[e][i]
        /\ Len(m) = 1 => Fits(e, k)
    BY MadeGrows
  <2>2. CASE Len(m) = 0
    BY <2>1, <2>2
  <2>3. CASE Len(m) = 1
    BY <2>1, <2>3
  <2> QED
    BY <2>1, <2>2, <2>3
<1>2. /\ l = n + 1 => k \in Record /\ (n + 1 <= First(e) <=> k \in Hands)
      /\ l = n + 1 /\ k \in {"hello", "finished"} => e = "client"
      /\ l = n + 1 /\ k = "flight" => e = "server"
      /\ l = n + 1 /\ e = "client" => (n = 0 <=> k = "hello")
      /\ l = n + 1 /\ k = "data" => ~Said(e)
  BY <1>1 DEF Fits
<1>3. Said(e) = \E i \in 1..n : made[e][i] = "bye"
  BY DEF Said, Contains
<1>4. /\ \A i \in 1..n :
           /\ i <= First(e) <=> made[e][i] \in Hands
           /\ made[e][i] \in {"hello", "finished"} => e = "client"
           /\ made[e][i] = "flight" => e = "server"
           /\ e = "client" => (i = 1 <=> made[e][i] = "hello")
      /\ \A i, j \in 1..n : i < j /\ made[e][i] = "bye" => made[e][j] # "data"
  BY DEF IInv, EndInv, MadeOK
<1> HIDE DEF n, l
<1>5. ASSUME NEW i \in 1..l
      PROVE  /\ i <= First(e) <=> made'[e][i] \in Hands
             /\ made'[e][i] \in {"hello", "finished"} => e = "client"
             /\ made'[e][i] = "flight" => e = "server"
             /\ e = "client" => (i = 1 <=> made'[e][i] = "hello")
  <2>1. CASE i \in 1..n
    BY <1>1, <1>4, <2>1
  <2>2. CASE i \notin 1..n
    <3>1. i = n + 1 /\ l = n + 1
      BY <1>1, <2>2
    <3> QED
      BY <1>1, <1>2, <3>1
  <2> QED
    BY <2>1, <2>2
<1>6. ASSUME NEW i \in 1..l, NEW j \in 1..l, i < j, made'[e][i] = "bye" PROVE made'[e][j] # "data"
  <2>1. i \in 1..n
    BY <1>1, <1>6
  <2>2. made[e][i] = "bye"
    BY <1>1, <1>6, <2>1
  <2>3. CASE j \in 1..n
    BY <1>1, <1>4, <1>6, <2>1, <2>2, <2>3
  <2>4. CASE j \notin 1..n
    <3>1. j = n + 1 /\ l = n + 1
      BY <1>1, <2>4
    <3> QED
      BY <1>2, <1>3, <2>1, <2>2, <3>1
  <2> QED
    BY <2>3, <2>4
<1> QED
  BY <1>5, <1>6 DEF MadeOK, l

LEMMA AnsweredEnd ==
  ASSUME IInv, NEW e \in End, NEW p \in End, e # p,
         NEW t, NEW m \in Seq(Record), NEW s, Answered(e, p, t, m, s)
  PROVE  ActOK(e)' /\ DeadOK(e)' /\ FlushedOK(e)' /\ HandshakeOK(e, p)'
<1> DEFINE a == act[e]
           b == act'[e]
<1>1. /\ a.at = "ssl" /\ Lawful(e, p, t, m, s) /\ Goes(b, a.op, s)
      /\ UNCHANGED <<unsent, closed, fd, reset>>
      /\ dead' = IF s = "fatal" THEN dead \cup {e} ELSE dead
      /\ got'[e] = got[e] + t
      /\ wbio'[e] = wbio[e] \o Stream(Len(made[e]), Len(made[e]) + Len(m))
  BY DEF Answered
<1>2. ActOK(e) /\ DeadOK(e) /\ FlushedOK(e) /\ HandshakeOK(e, p)
  BY DEF IInv, EndInv, PairInv
<1>3. a \in [op : Op, at : Place, then : Then] /\ a.op # "none" /\ e \in fd
  BY <1>1, <1>2 DEF IInv, TypeOK, ActOK
<1>4. ActOK(e)'
  BY <1>1, <1>2, <1>3 DEF ActOK, Goes, Idle, In, Ends, Op
<1>5. DeadOK(e)'
  <2>1. CASE a.op = "handshake"
    <3>1. e \in dead => Said(e)
      BY <1>1, <1>2 DEF DeadOK
    <3>2. s = "fatal" => b.op = "handshake" /\ b.at = "close"
      BY <1>1, <2>1 DEF Goes, In
    <3> QED
      BY <1>1, <3>1, <3>2, SaidGrows DEF DeadOK
  <2>2. CASE a.op # "handshake"
    <3>1. s = "fatal" \/ e \in dead => Said(e)
      BY <1>1, <2>2 DEF Lawful
    <3> QED
      BY <1>1, <3>1, SaidGrows DEF DeadOK
  <2> QED
    BY <2>1, <2>2
<1>6. e \in closed => Said(e)'
  BY <1>1, <1>2, SaidGrows DEF ActOK, Lawful
<1>7. ASSUME ~reset, \/ b.at \in {"ssl", "recv", "idle"}
                     \/ b.at = "close" /\ e \in closed
      PROVE  wbio'[e] = <<>> /\ unsent'[e] = <<>>
  <2>1. a.op \in {"recv", "send"} /\ s \notin {"done", "want_read"}
    BY <1>1, <1>2, <1>7 DEF Goes, Idle, In, ActOK, Ends
  <2>2. m = <<>>
    BY <1>1, <2>1 DEF Lawful, OfRecv
  <2>3. wbio[e] = <<>> /\ unsent[e] = <<>>
    BY <1>1, <1>2, <1>7 DEF FlushedOK
  <2>4. wbio'[e] = <<>>
    <3> DEFINE n == Len(made[e])
               z == Stream(n, n + 0)
    <3>1. n \in Nat
      BY MadeGrows
    <3>2. z \in Seq(Nat) /\ Len(z) = 0
      <4> HIDE DEF n
      <4>1. z \in Seq(Nat) /\ Len(z) = (n + 0) * Parts - n * Parts
        <5>1. n + 0 \in Nat /\ n <= n + 0
          BY <3>1
        <5> QED
          BY <3>1, <5>1, StreamIsRun
      <4> QED
        BY <3>1, <4>1, Numbers
    <3>3. wbio'[e] = <<>> \o z
      <4>1. Len(m) = 0
        BY <2>2
      <4> QED
        BY <1>1, <2>3, <4>1
    <3> HIDE DEF z
    <3>4. z = <<>>
      BY <3>2, EmptySeq
    <3> QED
      BY <3>3, <3>4
  <2> QED
    BY <1>1, <2>3, <2>4
<1>8. FlushedOK(e)'
  BY <1>1, <1>6, <1>7 DEF FlushedOK
<1>9. HandshakeOK(e, p)'
  <2> DEFINE n == Len(made[e])
             l == Len(made'[e])
             g == got[e]
  <2>1. /\ n \in Nat /\ Len(m) \in {0, 1} /\ l = n + Len(m) /\ g \in Nat /\ t \in {0, 1}
    BY <1>1, MadeGrows DEF IInv, TypeOK, Lawful, Sound
  <2>2. CASE a.op = "handshake"
    <3>1. OfHandshake(e, p, t, m, s)
      BY <1>1, <2>2 DEF Lawful
    <3>2. /\ l <= First(e)
          /\ s = "done" => l >= First(e) /\ g + t >= First(p)
          /\ s = "want_read" => /\ e = "client" => g + t = 0 /\ l <= 1
                                /\ e = "server" => g + t <= 1 /\ l = g + t
      BY <2>1, <3>1 DEF OfHandshake
    <3>3. \/ b = In("handshake", "flush", "recv") /\ s = "want_read"
          \/ b = In("handshake", "flush", "established") /\ s = "done"
          \/ b = In("handshake", "close", "none")
      BY <1>1, <2>2 DEF Goes
    <3> QED
      BY <1>1, <3>2, <3>3 DEF HandshakeOK, In
  <2>3. CASE a.op # "handshake"
    <3>1. n >= First(e) /\ g >= First(p)
      BY <1>1, <1>2, <2>3 DEF HandshakeOK
    <3>2. First(e) \in Nat /\ First(p) \in Nat
      BY DEF First
    <3>3. l >= First(e) /\ g + t >= First(p)
      BY <2>1, <3>1, <3>2
    <3>4. b.op # "handshake"
      BY <1>1, <2>3 DEF Goes, In, Idle
    <3> QED
      BY <1>1, <3>3, <3>4 DEF HandshakeOK
  <2> QED
    BY <2>2, <2>3
<1> QED
  BY <1>4, <1>5, <1>8, <1>9

\* The records that are made go into the write BIO behind what is there.
LEMMA AnsweredFlows ==
  ASSUME IInv, NEW e \in End, NEW p \in End, e # p,
         NEW t, NEW m \in Seq(Record), NEW s, Answered(e, p, t, m, s)
  PROVE  FlowOK(e, p)' /\ wbio'[e] \in Seq(Nat)
<1> DEFINE n == Len(made[e])
           x == Len(m)
           z == Stream(n, n + x)
           w == wbio[e] \o z
<1>1. n \in Nat /\ x \in {0, 1} /\ Len(made'[e]) = n + x
  BY MadeGrows
<1>2. /\ act[e].at # "gone" /\ act'[e].at # "gone" /\ act'[p] = act[p] /\ wbio'[e] = w
      /\ got'[p] = got[p] /\ rbio'[p] = rbio[p]
      /\ UNCHANGED <<unsent, wire, reset>>
  BY DEF Answered, Goes, In, Idle
<1> HIDE DEF n, x
<1>3. z \in Seq(Nat) /\ Len(z) = (n + x) * Parts - n * Parts /\ From(z, n * Parts)
  <2>1. n + x \in Nat /\ n <= n + x
    BY <1>1
  <2> QED
    BY <1>1, <2>1, StreamIsRun
<1> HIDE DEF z
<1>4. wbio[e] \in Seq(Nat)
  BY DEF IInv, TypeOK
<1>5. w \in Seq(Nat) /\ Len(w) = Len(wbio[e]) + Len(z)
  BY <1>3, <1>4, ConcatProperties
<1>6. /\ Drawn(e, p) \in Nat /\ Due(e) \in Nat /\ Len(wbio[e]) \in Nat /\ got[p] \in Nat /\ Fed(p) \in Nat
      /\ Written(e, p) \in Nat
  BY Sizes DEF IInv
<1>7. /\ Fed(p)' = Fed(p) /\ Sent(e, p)' = Sent(e, p) /\ Drawn(e, p)' = Drawn(e, p) /\ Taken(p)' = Taken(p)
      /\ Written(e, p)' = Drawn(e, p) + Len(w) /\ Due(e)' = (n + x) * Parts /\ Due(e) = n * Parts
  BY <1>1, <1>2 DEF Fed, Sent, Drawn, Taken, Written, Due, n
<1>8. /\ got[p] <= n /\ Fed(p) <= Due(e) /\ From(rbio[p], Taken(p)) /\ (reset => wire[e] = <<>>)
      /\ ~reset /\ act[p].at # "gone" =>
           /\ From(wire[e], Fed(p)) /\ From(unsent[e], Sent(e, p)) /\ From(wbio[e], Drawn(e, p))
           /\ Written(e, p) <= Due(e) /\ ~(Written(e, p) < Due(e))
  BY <1>2 DEF IInv, PairInv, FlowOK, n
<1>9. got'[p] <= Len(made'[e]) /\ Fed(p)' <= Due(e)'
  <2>1. (n + x) * Parts \in Nat /\ n * Parts <= (n + x) * Parts
    BY <1>1, Numbers
  <2> QED
    BY <1>1, <1>2, <1>6, <1>7, <1>8, <2>1
<1>10. ASSUME ~reset, act[p].at # "gone"
       PROVE  From(w, Drawn(e, p)) /\ Written(e, p)' = Due(e)'
  <2>1. Drawn(e, p) + Len(wbio[e]) = n * Parts
    BY <1>6, <1>7, <1>8, <1>10 DEF Written
  <2>2. From(z, Drawn(e, p) + Len(wbio[e]))
    BY <1>3, <2>1
  <2>3. From(w, Drawn(e, p))
    BY <1>3, <1>4, <1>6, <1>8, <1>10, <2>2, FromConcat
  <2> DEFINE d == Drawn(e, p)
             y == Len(wbio[e])
             u == n * Parts
             v == (n + x) * Parts
  <2>4. d \in Nat /\ y \in Nat /\ u \in Nat /\ v \in Nat /\ u <= v /\ d + y = u
    BY <1>1, <1>6, <2>1, Numbers
  <2>5. Len(w) = y + (v - u) /\ Written(e, p)' = d + Len(w) /\ Due(e)' = v
    BY <1>3, <1>5, <1>7
  <2> HIDE DEF d, y, u, v
  <2>6. Written(e, p)' = v
    BY <2>4, <2>5
  <2> QED
    BY <2>3, <2>5, <2>6
<1> HIDE DEF w
<1>11. From(rbio[p], Taken(p))' /\ (From(wire[e], Fed(p)) => From(wire[e], Fed(p))')
  BY <1>2, <1>7, <1>8 DEF From
<1>12. (From(unsent[e], Sent(e, p)) => From(unsent[e], Sent(e, p))') /\ (From(w, Drawn(e, p)) => From(wbio[e], Drawn(e, p))')
  BY <1>2, <1>7 DEF From
<1>13. Due(e)' \in Nat
  BY <1>1, <1>7, Numbers
<1> QED
  BY <1>2, <1>5, <1>8, <1>9, <1>10, <1>11, <1>12, <1>13 DEF FlowOK

\* The record that is taken was the first in the read BIO.
LEMMA AnsweredTakes ==
  ASSUME IInv, NEW e \in End, NEW p \in End, e # p,
         NEW t, NEW m \in Seq(Record), NEW s, Answered(e, p, t, m, s)
  PROVE  /\ FlowOK(p, e)' /\ rbio'[e] \in Seq(Nat)
         /\ t = 0 => Len(rbio'[e]) = Len(rbio[e])
<1> DEFINE r == rbio[e]
           l == Len(r)
           x == t * Parts
           r2 == SubSeq(r, x + 1, l)
<1>1. /\ t \in {0, 1} /\ (t = 1 => got[e] < Len(made[p]) /\ l >= Parts)
      /\ act[e].at # "gone" /\ act'[p] = act[p] /\ made'[p] = made[p] /\ wbio'[p] = wbio[p]
      /\ got'[e] = got[e] + t /\ rbio'[e] = r2
      /\ UNCHANGED <<unsent, wire, reset>>
  BY DEF Answered, Lawful, Sound
<1>2. r \in Seq(Nat) /\ l \in Nat /\ got[e] \in Nat /\ Taken(e) \in Nat /\ Fed(e) \in Nat /\ Len(made[p]) \in Nat
  BY Sizes DEF IInv, TypeOK
<1>3. x \in Nat /\ x <= l /\ (t = 0 => x = 0) /\ (got[e] + t) * Parts = Taken(e) + x
  <2>1. 0 * Parts = 0 /\ 1 * Parts = Parts
    BY Numbers
  <2>2. got[e] + 0 = got[e] /\ (got[e] + 1) * Parts = got[e] * Parts + Parts /\ Parts \in Nat
    BY <1>2, Numbers
  <2>3. CASE t = 0
    <3>1. x = 0 /\ (got[e] + t) * Parts = got[e] * Parts
      BY <2>1, <2>2, <2>3
    <3> HIDE DEF x
    <3> QED
      BY <1>2, <3>1 DEF Taken
  <2>4. CASE t = 1
    <3>1. x = Parts /\ (got[e] + t) * Parts = got[e] * Parts + Parts
      BY <2>1, <2>2, <2>4
    <3> HIDE DEF x
    <3> QED
      BY <1>1, <1>2, <2>2, <2>4, <3>1 DEF Taken
  <2> QED
    BY <1>1, <2>3, <2>4
<1> HIDE DEF r, l, x
<1>4. /\ r2 \in Seq(Nat) /\ Len(r2) = l - x
      /\ \A b \in Nat : From(r, b) => From(r2, b + x)
  <2>1. l <= Len(r)
    BY <1>2 DEF l
  <2>2. /\ SubSeq(r, x + 1, l) \in Seq(Nat)
        /\ Len(SubSeq(r, x + 1, l)) = IF x <= l THEN l - x ELSE 0
        /\ \A b \in Nat : From(r, b) => From(SubSeq(r, x + 1, l), b + x)
    BY <1>2, <1>3, <2>1, FromPiece
  <2> QED
    BY <1>3, <2>2
<1> HIDE DEF r2
<1>5. Taken(e)' = Taken(e) + x
  BY <1>1, <1>3 DEF Taken
<1>6. Fed(e)' = Fed(e)
  <2>1. Fed(e)' = Taken(e) + x + Len(r2) /\ Fed(e) = Taken(e) + l
    BY <1>1, <1>5 DEF Fed, l, r
  <2> QED
    BY <1>2, <1>3, <1>4, <2>1
<1>7. From(rbio[e], Taken(e))'
  <2>1. From(r, Taken(e))
    BY DEF IInv, PairInv, FlowOK, r
  <2>2. From(r2, Taken(e) + x)
    BY <1>2, <1>4, <2>1
  <2> QED
    BY <1>1, <1>5, <2>2 DEF From
<1>8. /\ Sent(p, e)' = Sent(p, e) /\ Drawn(p, e)' = Drawn(p, e) /\ Written(p, e)' = Written(p, e)
      /\ Due(p)' = Due(p) /\ Data(p)' = Data(p)
  BY <1>1, <1>6 DEF Sent, Drawn, Written, Due, Data, DataIn
<1>9. FlowOK(p, e)
  BY DEF IInv, PairInv
<1>10. got'[e] <= Len(made'[p])
  BY <1>1, <1>2, <1>9 DEF FlowOK
<1>11. FlowOK(p, e)'
  BY <1>1, <1>6, <1>7, <1>8, <1>9, <1>10 DEF FlowOK, From
<1> QED
  BY <1>1, <1>3, <1>4, <1>11, <1>2 DEF l, r

\* The next record counts when it is data, and nothing counts after the end.
LEMMA DataNext ==
  ASSUME TypeOK, NEW p \in End, NEW n \in Nat, n < Len(made[p])
  PROVE  DataIn(p, n + 1) = DataIn(p, n) + IF made[p][n + 1] = "data" THEN 1 ELSE 0
<1> DEFINE old == {i \in 1..n : made[p][i] = "data"}
           new == {i \in 1..(n + 1) : made[p][i] = "data"}
<1>1. IsFiniteSet(old) /\ n + 1 \notin old
  <2>1. IsFiniteSet(1..n) /\ old \subseteq 1..n
    BY FS_Interval
  <2>2. n + 1 \notin 1..n
    OBVIOUS
  <2> QED
    BY <2>1, <2>2, FS_Subset
<1>2. new = IF made[p][n + 1] = "data" THEN old \cup {n + 1} ELSE old
  <2>1. 1..(n + 1) = 1..n \cup {n + 1}
    OBVIOUS
  <2>2. new = old \cup {i \in {n + 1} : made[p][i] = "data"}
    BY <2>1
  <2> QED
    BY <2>2
<1>3. Cardinality(old) \in Nat /\ Cardinality(old \cup {n + 1}) = Cardinality(old) + 1
  <2>1. n + 1 \in old \cup {n + 1}
    OBVIOUS
  <2> HIDE DEF old
  <2> QED
    BY <1>1, FS_AddElement, FS_CardinalityType
<1>4. DataIn(p, n) = Cardinality(old) /\ DataIn(p, n + 1) = Cardinality(new)
  BY DEF DataIn
<1> HIDE DEF old, new
<1>5. CASE made[p][n + 1] = "data"
  BY <1>2, <1>3, <1>4, <1>5
<1>6. CASE made[p][n + 1] # "data"
  BY <1>2, <1>3, <1>4, <1>6
<1> QED
  BY <1>5, <1>6

LEMMA DataOver ==
  ASSUME TypeOK, NEW p \in End, MadeOK(p), NEW n \in Nat, n <= Len(made[p]),
         NEW i \in 1..Len(made[p]), i <= n \/ i = n + 1, made[p][i] = "bye"
  PROVE  DataIn(p, n) = Data(p)
<1> DEFINE l == Len(made[p])
           few == {j \in 1..n : made[p][j] = "data"}
           all == {j \in 1..l : made[p][j] = "data"}
<1>1. l \in Nat /\ n <= l
  BY LenProperties DEF TypeOK
<1>2. \A j \in 1..l : made[p][j] = "data" => j <= i
  BY <1>1 DEF MadeOK
<1>3. \A j \in 1..l : made[p][j] = "data" => j # i
  OBVIOUS
<1> HIDE DEF l
<1>4. \A j \in 1..l : made[p][j] = "data" => j \in 1..n
  BY <1>1, <1>2, <1>3
<1>5. few = all
  BY <1>1, <1>4
<1> QED
  BY <1>5 DEF DataIn, Data, l

\* What recv returns is what it has delivered, and its end is that of the data.
LEMMA AnsweredCounts ==
  ASSUME IInv, NEW e \in End, NEW p \in End, e # p,
         NEW t, NEW m \in Seq(Record), NEW s, Answered(e, p, t, m, s)
  PROVE  EndOK(e, p)'
<1> DEFINE a == act[e]
           g == got[e]
           k == made[p][g + 1]
<1>1. /\ a.at = "ssl" /\ Lawful(e, p, t, m, s) /\ Goes(act'[e], a.op, s)
      /\ act'[p] = act[p] /\ made'[p] = made[p] /\ got'[e] = g + t /\ UNCHANGED reset
      /\ dead' = IF s = "fatal" THEN dead \cup {e} ELSE dead
      /\ a.op # "recv" \/ s = "want_read" => ret'[e] = ret[e] /\ delivered'[e] = delivered[e]
      /\ a.op = "recv" /\ s # "want_read" =>
           ret'[e] = s /\ delivered'[e] = IF s = "done" THEN delivered[e] + 1 ELSE delivered[e]
  BY DEF Answered
<1>2. EndOK(e, p) /\ ActOK(e) /\ MadeOK(p) /\ TypeOK
  BY DEF IInv, EndInv, PairInv
<1>3. /\ t \in {0, 1} /\ g \in Nat /\ Len(made[p]) \in Nat /\ g <= Len(made[p])
      /\ t = 1 => g < Len(made[p])
      /\ delivered[e] \in Nat /\ s \in {"done", "zero", "fatal", "want_read"}
  BY <1>1, Sizes DEF IInv, TypeOK, PairInv, FlowOK, Lawful, Sound
<1>4. \A n : DataIn(p, n)' = DataIn(p, n)
  BY <1>1 DEF DataIn
<1>5. ret[e] # "zero"
  BY <1>1, <1>2 DEF EndOK
<1>6. ASSUME act'[e].op = "recv", act'[e].at = "recv" \/ act'[e].then = "recv"
      PROVE  Len(rbio'[e]) < Parts /\ e \notin dead'
  <2>1. a.op = "recv" /\ s = "want_read"
    BY <1>1, <1>6 DEF Goes, In, Idle
  <2>2. t = 0 /\ Len(rbio[e]) < Parts /\ e \notin dead
    BY <1>1, <2>1 DEF Lawful, OfRecv
  <2> QED
    BY <1>1, <2>1, <2>2, AnsweredTakes
<1>7. g < Len(made[p]) => DataIn(p, g + 1) = DataIn(p, g) + IF k = "data" THEN 1 ELSE 0
  BY <1>2, <1>3, DataNext
<1>8. ASSUME e \notin dead' PROVE delivered'[e] = DataIn(p, g + t)
  <2>1. e \notin dead /\ s # "fatal" /\ delivered[e] = DataIn(p, g)
    BY <1>1, <1>2, <1>8 DEF EndOK
  <2>2. CASE a.op = "recv"
    <3>1. /\ s = "want_read" => t = 0
          /\ s = "done" => t = 1 /\ k = "data"
          /\ s = "zero" => t = 0 \/ k = "bye"
      BY <1>1, <2>2 DEF Lawful, OfRecv
    <3>2. CASE t = 0
      <4>1. g + t = g /\ s # "done"
        BY <1>3, <3>1, <3>2
      <4> QED
        BY <1>1, <2>1, <2>2, <4>1
    <3>3. CASE t = 1 /\ s = "done"
      BY <1>1, <1>3, <1>7, <2>1, <2>2, <3>1, <3>3
    <3>4. CASE t = 1 /\ s = "zero"
      <4>1. DataIn(p, g + t) = DataIn(p, g) + 0 /\ delivered'[e] = delivered[e]
        BY <1>1, <1>3, <1>7, <2>1, <2>2, <3>1, <3>4
      <4> QED
        BY <1>3, <2>1, <4>1
    <3> QED
      BY <1>3, <2>1, <3>1, <3>2, <3>3, <3>4
  <2>3. CASE a.op # "recv"
    <3>1. a.op \in Ends \cup {"handshake", "send", "shutdown_write"}
      BY <1>1, <1>2, <2>3 DEF ActOK, TypeOK, Op
    <3>2. t = 1 => k # "data"
      BY <1>1, <2>1, <3>1 DEF Lawful, OfHandshake, OfWriter
    <3>3. delivered'[e] = DataIn(p, g)
      BY <1>1, <2>1, <2>3
    <3>4. CASE t = 0
      <4>1. g + t = g
        BY <1>3, <3>4
      <4> QED
        BY <3>3, <4>1
    <3>5. CASE t = 1
      <4>1. DataIn(p, g + t) = DataIn(p, g) + 0
        BY <1>3, <1>7, <3>2, <3>5
      <4> QED
        BY <1>3, <2>1, <3>3, <4>1
    <3> QED
      BY <1>3, <3>4, <3>5
  <2> QED
    BY <2>2, <2>3
<1>9. ASSUME ret'[e] = "zero"
      PROVE  act'[e].at = "idle" /\ delivered'[e] = Data(p) /\ Said(p)
  <2>1. a.op = "recv" /\ s = "zero" /\ delivered'[e] = delivered[e]
    BY <1>1, <1>5, <1>9
  <2>2. act'[e].at = "idle" /\ e \notin dead
    BY <1>1, <2>1 DEF Goes, In, Idle, Lawful
  <2>3. delivered[e] = DataIn(p, g)
    BY <1>2, <2>2 DEF EndOK
  <2>4. PICK i \in 1..Len(made[p]) : (i <= g \/ i = g + 1) /\ made[p][i] = "bye"
    <3>1. (t = 0 /\ Heard(e)) \/ (t = 1 /\ k = "bye")
      BY <1>1, <2>1 DEF Lawful, OfRecv
    <3>2. CASE t = 1 /\ k = "bye"
      <4>1. g + 1 \in 1..Len(made[p])
        BY <1>3, <3>2
      <4> QED
        BY <3>2, <4>1
    <3>3. CASE Heard(e)
      <4> DEFINE q == made[p]
                 h == SubSeq(q, 1, g)
      <4>1. Contains(h, "bye")
        BY <3>3, TwoEnds DEF Heard
      <4>2. \A i \in 1..g : q[i] \in Record
        <5> TAKE i \in 1..g
        <5>1. i \in 1..Len(q) /\ q \in Seq(Record)
          BY <1>2, <1>3 DEF TypeOK
        <5> QED
          BY <5>1, ElementOfSeq
      <4>3. /\ Len(h) = IF 1 <= g THEN g - 1 + 1 ELSE 0
            /\ \A i \in 1..(g - 1 + 1) : h[i] = q[1 + i - 1]
        BY <1>3, <4>2, SubSeqProperties
      <4> HIDE DEF h
      <4>4. PICK i \in 1..Len(h) : h[i] = "bye"
        BY <4>1 DEF Contains
      <4>5. i \in 1..g /\ q[i] = "bye"
        BY <1>3, <4>3, <4>4
      <4>6. i \in 1..Len(made[p]) /\ i <= g
        BY <1>3, <4>5
      <4> QED
        BY <4>5, <4>6
    <3> QED
      BY <3>1, <3>2, <3>3
  <2>5. DataIn(p, g) = Data(p)
    BY <1>2, <1>3, <2>4, DataOver
  <2>6. Said(p)
    BY <2>4 DEF Said, Contains
  <2> QED
    BY <2>1, <2>2, <2>3, <2>5, <2>6
<1>10. Data(p)' = Data(p) /\ (Said(p))' = Said(p)
  BY <1>1 DEF Data, DataIn, Said, Contains
<1>11. DataIn(p, got[e])' = DataIn(p, g + t)
  BY <1>1 DEF DataIn
<1> HIDE DEF g
<1> QED
  BY <1>6, <1>8, <1>9, <1>10, <1>11 DEF EndOK

\* What the peer has delivered, it has: records that are made later are no
\* part of it, and none of them is data when the end of the stream is.
LEMMA AnsweredLater ==
  ASSUME IInv, NEW e \in End, NEW p \in End, e # p,
         NEW t, NEW m \in Seq(Record), NEW s, Answered(e, p, t, m, s)
  PROVE  EndOK(p, e)'
<1> DEFINE n == Len(made[e])
           l == Len(made'[e])
<1>1. /\ act[e].at = "ssl" /\ act'[p] = act[p] /\ got'[p] = got[p] /\ rbio'[p] = rbio[p]
      /\ (p \in dead') = (p \in dead) /\ delivered'[p] = delivered[p] /\ ret'[p] = ret[p] /\ reset' = reset
  BY DEF Answered
<1>2. /\ n \in Nat /\ Len(m) \in {0, 1} /\ l = n + Len(m)
      /\ \A i \in 1..n : made'[e][i] = made[e][i]
      /\ Len(m) = 1 => Fits(e, made'[e][n + 1])
  BY MadeGrows
<1>3. EndOK(p, e) /\ got[p] \in Nat /\ got[p] <= n
  BY Sizes DEF IInv, PairInv, FlowOK
<1>4. ASSUME NEW i \in Nat, i <= n PROVE {j \in 1..i : made'[e][j] = "data"} = {j \in 1..i : made[e][j] = "data"}
  BY <1>2, <1>4
<1>5. DataIn(e, got[p])' = DataIn(e, got[p])
  BY <1>1, <1>3, <1>4 DEF DataIn
<1>6. ASSUME Said(e) PROVE Data(e)' = Data(e)
  <2>1. \A j \in 1..l : made'[e][j] = "data" => j \in 1..n
    <3> SUFFICES ASSUME NEW j \in 1..l, j \notin 1..n PROVE made'[e][j] # "data"
      OBVIOUS
    <3>1. CASE Len(m) = 0
      BY <1>2, <3>1
    <3>2. CASE Len(m) = 1
      <4>1. j = n + 1
        BY <1>2, <3>2
      <4> QED
        BY <1>2, <1>6, <3>2, <4>1 DEF Fits
    <3> QED
      BY <1>2, <3>1, <3>2
  <2>2. 1..n \subseteq 1..l
    BY <1>2
  <2>3. {j \in 1..l : made'[e][j] = "data"} = {j \in 1..n : made'[e][j] = "data"}
    BY <2>1, <2>2
  <2>4. {j \in 1..l : made'[e][j] = "data"} = {j \in 1..n : made[e][j] = "data"}
    BY <1>2, <1>4, <2>3
  <2> QED
    BY <2>4 DEF Data, DataIn
<1>7. ret[p] = "zero" /\ ~reset => Said(e)
  BY <1>1, <1>3 DEF EndOK
<1>8. Said(e) => Said(e)'
  BY SaidGrows
<1> HIDE DEF n, l
<1> QED
  BY <1>1, <1>3, <1>5, <1>6, <1>7, <1>8 DEF EndOK

LEMMA SslStepOK ==
  ASSUME IInv, NEW e \in End, NEW p \in End, e # p, SslStep(e)
  PROVE  IInv'
<1>1. PICK t \in {0, 1}, s \in {"done", "zero", "fatal", "want_read"}, m \in Seq(Record) : Answered(e, p, t, m, s)
  BY SessionStep
<1>2. ActOK(e)' /\ DeadOK(e)' /\ FlushedOK(e)' /\ HandshakeOK(e, p)'
  BY <1>1, AnsweredEnd
<1>3. MadeOK(e)'
  BY <1>1, AnsweredMade
<1>4. FlowOK(e, p)' /\ wbio'[e] \in Seq(Nat)
  BY <1>1, AnsweredFlows
<1>5. FlowOK(p, e)' /\ rbio'[e] \in Seq(Nat)
  BY <1>1, AnsweredTakes
<1>6. EndOK(e, p)'
  BY <1>1, AnsweredCounts
<1>7. EndOK(p, e)'
  BY <1>1, AnsweredLater
<1>8. Still(p)
  BY <1>1 DEF Still, Answered
<1>9. EndInv(p)' /\ HandshakeOK(p, e)'
  BY <1>8, EndStill DEF IInv, PairInv
<1>10. TypeOK'
  <2>1. made'[e] \in Seq(Record)
    BY <1>1, MadeGrows
  <2>2. act'[e] \in [op : Op, at : Place, then : Then]
    <3>1. act[e].op \in Op /\ Goes(act'[e], act[e].op, s)
      BY <1>1 DEF Answered, IInv, TypeOK
    <3> QED
      BY <3>1 DEF Goes, Idle, In, Op, Place, Then
  <2>3. /\ got'[e] \in Nat /\ dead' \subseteq End /\ delivered'[e] \in Nat /\ ret'[e] \in {"none", "done", "zero", "fatal"}
    <3>1. /\ got'[e] = got[e] + t /\ dead' = IF s = "fatal" THEN dead \cup {e} ELSE dead
          /\ act[e].op # "recv" \/ s = "want_read" => ret'[e] = ret[e] /\ delivered'[e] = delivered[e]
          /\ act[e].op = "recv" /\ s # "want_read" =>
               ret'[e] = s /\ delivered'[e] = IF s = "done" THEN delivered[e] + 1 ELSE delivered[e]
      BY <1>1 DEF Answered
    <3>2. got[e] \in Nat /\ delivered[e] \in Nat /\ ret[e] \in {"none", "done", "zero", "fatal"} /\ dead \subseteq End
      BY DEF IInv, TypeOK
    <3> QED
      BY <3>1, <3>2
  <2>4. /\ act'[p] = act[p] /\ made'[p] = made[p] /\ wbio'[p] = wbio[p] /\ rbio'[p] = rbio[p]
        /\ got'[p] = got[p] /\ ret'[p] = ret[p] /\ delivered'[p] = delivered[p]
        /\ UNCHANGED <<unsent, wire, handshake_done, closed, fd, reset>>
    BY <1>1 DEF Answered
  <2>5. PICK answer \in Session(e, act[e].op) :
          /\ Takes(e, answer)
          /\ \E b : act' = [act EXCEPT ![e] = b]
          /\ (\E r : ret' = [ret EXCEPT ![e] = r]) \/ ret' = ret
          /\ (\E d : delivered' = [delivered EXCEPT ![e] = d]) \/ delivered' = delivered
    BY DEF SslStep, resultVars
  <2>6. made' \in [End -> Seq(Record)]
    BY <2>1, <2>5 DEF Takes, IInv, TypeOK
  <2>7. wbio' \in [End -> Seq(Nat)] /\ rbio' \in [End -> Seq(Nat)]
    BY <1>4, <1>5, <2>5 DEF Takes, IInv, TypeOK
  <2>8. got' \in [End -> Nat]
    BY <2>3, <2>5 DEF Takes, IInv, TypeOK
  <2>9. act' \in [End -> [op : Op, at : Place, then : Then]]
    BY <2>2, <2>5 DEF IInv, TypeOK
  <2>10. ret' \in [End -> {"none", "done", "zero", "fatal"}]
    BY <2>3, <2>5 DEF IInv, TypeOK
  <2>11. delivered' \in [End -> Nat]
    BY <2>3, <2>5 DEF IInv, TypeOK
  <2> QED
    BY <2>3, <2>4, <2>6, <2>7, <2>8, <2>9, <2>10, <2>11 DEF IInv, TypeOK
<1> QED
  BY <1>2, <1>3, <1>4, <1>5, <1>6, <1>7, <1>9, <1>10, OfBoth DEF EndInv
-----------------------------------------------------------------------------
(* The theorems.                                                            *)

LEMMA Inductive == IInv /\ [Next]_vars => IInv'
<1> SUFFICES ASSUME IInv, [Next]_vars PROVE IInv'
  OBVIOUS
<1>1. ASSUME NEW e \in End, Works(e) \/ Destroy(e) PROVE IInv'
  <2>1. Peer(e) \in End /\ Peer(e) # e
    BY TwoEnds
  <2> QED
    BY <1>1, <2>1, SslStepOK, FlushSendStep, FlushedStep, TcpRecvStep, TcpEndsStep, TcpCloseStep, DestroyStep DEF Works
<1>2. ASSUME NEW e \in End, NEW op \in {"recv", "send", "shutdown_write"}, Call(e, op) PROVE IInv'
  <2>1. Peer(e) \in End /\ Peer(e) # e
    BY TwoEnds
  <2> QED
    BY <1>2, <2>1, CallStep
<1>3. ASSUME NEW e \in End, NEW op \in {"close", "close_graceful"}, Close(e, op) PROVE IInv'
  <2>1. Peer(e) \in End /\ Peer(e) # e
    BY TwoEnds
  <2> QED
    BY <1>3, <2>1, CloseStep
<1>4. CASE Break \/ Refuse
  <2>1. "client" \in End /\ "server" \in End /\ "client" # "server"
    BY DEF End
  <2> QED
    BY <1>4, <2>1, ResetStep DEF Break, Refuse
<1>5. CASE UNCHANGED vars
  <2>1. UNCHANGED <<act, made, got, dead, wbio, unsent, wire, rbio, handshake_done, closed, fd, reset, ret, delivered>>
    BY <1>5 DEF vars, sessionVars, bufferVars, socketVars, linkVars, resultVars
  <2>2. TypeOK'
    BY <2>1 DEF IInv, TypeOK
  <2>3. ASSUME NEW e \in End, NEW p \in End, e # p PROVE EndInv(p)' /\ HandshakeOK(p, e)'
    <3>1. Still(p)
      BY <2>1 DEF Still
    <3> QED
      BY <2>3, <3>1, EndStill DEF IInv, PairInv
  <2>4. ASSUME NEW e \in End, NEW p \in End, e # p PROVE EndOK(p, e)'
    <3>1. Still(p)
      BY <2>1 DEF Still
    <3> QED
      BY <2>1, <2>4, <3>1, DeliveredStill DEF IInv, PairInv
  <2>5. ASSUME NEW e \in End, NEW p \in End, e # p PROVE FlowOK(e, p)'
    BY <2>1, <2>5, FlowStill DEF IInv, PairInv
  <2>6. PICK e \in End : Peer(e) \in End /\ Peer(e) # e
    BY TwoEnds DEF End
  <2> QED
    BY <2>2, <2>3, <2>4, <2>5, <2>6, OfBoth
<1> QED
  BY <1>1, <1>2, <1>3, <1>4, <1>5 DEF Next

\* The state of both ends and of the network keeps its types, with all that is
\* known of where the operations, the handshake and the records are
\* (tls_socket's operations, one coroutine for each end).
THEOREM Invariance == Spec => []IInv
<1>1. Init => IInv
  BY InitOK
<1>2. IInv /\ [Next]_vars => IInv'
  BY Inductive
<1> QED
  BY <1>1, <1>2, PTL DEF Spec

\* Nothing is withheld: flush_wbio has emptied both buffers before the network
\* is read, before an operation returns and before the socket closes.
THEOREM AllFlushed == Spec => []NothingWithheld
<1>1. IInv => NothingWithheld
  BY DEF IInv, EndInv, FlushedOK, NothingWithheld, At
<1> QED
  BY <1>1, Invariance, PTL

\* The end of the stream is not reported before all the data is delivered.
THEOREM EndReached == Spec => []FullyReceived
<1>1. IInv => FullyReceived
  <2> SUFFICES ASSUME IInv, NEW e \in End, ret[e] = "zero", ~reset PROVE delivered[e] = Data(Peer(e))
    BY DEF FullyReceived
  <2>1. Peer(e) \in End /\ e # Peer(e)
    BY TwoEnds
  <2>2. EndOK(e, Peer(e))
    BY <2>1 DEF IInv, PairInv
  <2> QED
    BY <2>2 DEF EndOK
<1> QED
  BY <1>1, Invariance, PTL

\* What is between two sessions is what one has produced and the other has not
\* taken: the four buffers are one run of numbers.
LEMMA PipelineIsRun ==
  ASSUME IInv, NEW e \in End, NEW p \in End, e # p, ~reset, act[p].at # "gone"
  PROVE  /\ Pipeline(e) \in Seq(Nat) /\ From(Pipeline(e), Taken(p))
         /\ Taken(p) + Len(Pipeline(e)) = Written(e, p)
<1> DEFINE a == rbio[p]
           b == wire[e]
           c == unsent[e]
           d == wbio[e]
           ab == a \o b
           abc == ab \o c
<1>1. /\ a \in Seq(Nat) /\ b \in Seq(Nat) /\ c \in Seq(Nat) /\ d \in Seq(Nat)
      /\ Taken(p) \in Nat /\ Len(a) \in Nat /\ Len(b) \in Nat /\ Len(c) \in Nat /\ Len(d) \in Nat
  BY Sizes DEF IInv, TypeOK
<1> DEFINE w == Taken(p)
           k == Len(a)
           l == Len(b)
           n == Len(c)
           o == Len(d)
<1>2. /\ From(a, w) /\ From(b, w + k) /\ From(c, w + k + l) /\ From(d, w + k + l + n)
      /\ Written(e, p) = w + k + l + n + o
  BY DEF IInv, PairInv, FlowOK, Fed, Sent, Drawn, Written
<1>3. Pipeline(e) = abc \o d
  BY TwoEnds DEF Pipeline
<1>4. w \in Nat /\ k \in Nat /\ l \in Nat /\ n \in Nat /\ o \in Nat
  BY <1>1
<1> HIDE DEF a, b, c, d, w
<1>5. ab \in Seq(Nat) /\ Len(ab) = k + l /\ From(ab, w)
  BY <1>1, <1>2, <1>4, FromConcat
<1> HIDE DEF ab, k, l
<1>6. abc \in Seq(Nat) /\ Len(abc) = k + l + n /\ From(abc, w)
  <2>1. From(c, w + Len(ab))
    <3>1. w + Len(ab) = w + k + l
      BY <1>4, <1>5
    <3> QED
      BY <1>2, <3>1
  <2> QED
    BY <1>1, <1>4, <1>5, <2>1, FromConcat
<1> HIDE DEF abc, n
<1>7. abc \o d \in Seq(Nat) /\ Len(abc \o d) = k + l + n + o /\ From(abc \o d, w)
  <2>1. From(d, w + Len(abc))
    <3>1. w + Len(abc) = w + k + l + n
      BY <1>4, <1>6
    <3> QED
      BY <1>2, <3>1
  <2> QED
    BY <1>1, <1>4, <1>6, <2>1, FromConcat
<1> HIDE DEF o
<1>8. w + (k + l + n + o) = w + k + l + n + o
  BY <1>4
<1> QED
  BY <1>2, <1>3, <1>7, <1>8 DEF w

\* No part of a record is lost, repeated or moved between the sessions, for
\* records and a raw_buf_ of any sizes and sends and receives of any lengths.
THEOREM RecordsKept == Spec => []RecordsIntact
<1>1. IInv => RecordsIntact
  <2> SUFFICES ASSUME IInv, NEW e \in End, ~reset, ~At(Peer(e), "gone")
               PROVE  Pipeline(e) = LET due == Stream(got[Peer(e)], Len(made[e]))
                                    IN IF At(e, "gone") THEN SubSeq(due, 1, Len(Pipeline(e))) ELSE due
    BY DEF RecordsIntact
  <2>1. PICK p \in End : p = Peer(e) /\ e # p
    BY TwoEnds
  <2> DEFINE s == Pipeline(e)
             due == Stream(got[p], Len(made[e]))
  <2>2. s \in Seq(Nat) /\ From(s, Taken(p)) /\ Taken(p) + Len(s) = Written(e, p)
    BY <2>1, PipelineIsRun DEF At
  <2>3. got[p] \in Nat /\ Len(made[e]) \in Nat /\ Taken(p) \in Nat /\ Due(e) \in Nat /\ Len(s) \in Nat
    BY <2>2, Sizes, LenProperties DEF IInv
  <2>4. /\ got[p] <= Len(made[e]) /\ Written(e, p) <= Due(e)
        /\ Written(e, p) < Due(e) => act[e].at = "gone"
    BY <2>1 DEF IInv, PairInv, FlowOK, At
  <2>5. due \in Seq(Nat) /\ Len(due) = Due(e) - Taken(p) /\ From(due, Taken(p))
    BY <2>3, <2>4, StreamIsRun DEF Due, Taken
  <2> HIDE DEF s, due
  <2>6. CASE act[e].at = "gone"
    <3>1. Len(s) <= Len(due)
      BY <2>2, <2>3, <2>4, <2>5
    <3> DEFINE q == SubSeq(due, 1, Len(s))
    <3>2. q \in Seq(Nat) /\ Len(q) = Len(s) /\ From(q, Taken(p))
      <4>1. /\ SubSeq(due, 0 + 1, Len(s)) \in Seq(Nat)
            /\ Len(SubSeq(due, 0 + 1, Len(s))) = IF 0 <= Len(s) THEN Len(s) - 0 ELSE 0
            /\ \A b \in Nat : From(due, b) => From(SubSeq(due, 0 + 1, Len(s)), b + 0)
        BY <2>3, <2>5, <3>1, FromPiece
      <4> QED
        BY <2>3, <2>5, <4>1
    <3> HIDE DEF q
    <3>3. s = q
      BY <2>2, <2>3, <3>2, RunsEqual
    <3> QED
      BY <2>1, <2>6, <3>3 DEF At, q, s, due
  <2>7. CASE act[e].at # "gone"
    <3>1. Len(s) = Len(due)
      BY <2>2, <2>3, <2>4, <2>5, <2>7
    <3>2. s = due
      BY <2>2, <2>3, <2>5, <3>1, RunsEqual
    <3> QED
      BY <2>1, <2>7, <3>2 DEF At, s, due
  <2> QED
    BY <2>6, <2>7
<1> QED
  BY <1>1, Invariance, PTL
=============================================================================
