--------------------------------- MODULE Tls ---------------------------------
(***************************************************************************)
(* tls_socket (net/tls/tls_socket.hpp): TLS over a TCP socket, by an       *)
(* OpenSSL session that reads and writes memory BIOs.  Each end is used by *)
(* one coroutine; every call of the session may leave bytes in the write   *)
(* BIO, which flush_wbio moves to the network through raw_buf_, and may    *)
(* ask for bytes, which recv brings from the network to the read BIO.      *)
(*                                                                         *)
(* The session is external: what it takes, leaves and answers is Session.  *)
(* A record is the kind of what it carries, and its bytes are Parts parts: *)
(* the parts of what an end has produced are numbered along its stream, so *)
(* a part that is lost, repeated or out of place shows.                    *)
(***************************************************************************)
EXTENDS Naturals, Sequences, FiniteSets, SequencesExt

CONSTANTS Parts,     (* parts of a record                                    *)
          RawSize,   (* kRawBufSize, in parts                                *)
          Buffer,    (* parts the connection holds in one direction: what    *)
                     (* the sockets of both ends have room for               *)
          MaxData,   (* bound: the records of data that an end sends         *)
          MaxResets  (* bound: how often the network fails                   *)

ASSUME TlsAssumption == /\ {Parts, RawSize, Buffer} \subseteq Nat \ {0}
                        /\ {MaxData, MaxResets} \subseteq Nat

End == {"client", "server"}
Peer(e) == CHOOSE p \in End : p # e

VARIABLES
    act,     (* what the coroutine of an end is in: the operation, where it
                waits, and what follows the flush it is in                  *)
    made,    (* the records the session of an end has produced              *)
    got,     (* how many records of its peer it has taken                   *)
    dead,    (* the ends whose session had a fatal error                    *)
    wbio,    (* the write BIO: parts of what the end has produced           *)
    unsent,  (* the part of raw_buf_ that flush_wbio has still to send      *)
    wire,    (* the parts an end has sent and its peer has not received     *)
    rbio,    (* the read BIO: parts of what the peer has produced           *)
    handshake_done,
    closed,  (* closed_                                                     *)
    fd,      (* the ends whose TCP socket is open                           *)
    reset,   (* the connection is broken                                    *)
    resets,  (* how often the network has failed by itself                  *)
    ret,     (* what the last recv of an end returned                       *)
    delivered (* how many records of data recv has delivered                *)

bufferVars == <<wbio, unsent, wire, rbio>>
sessionVars == <<made, got, dead>>
socketVars == <<handshake_done, closed, fd>>
resultVars == <<ret, delivered>>
linkVars == <<reset, resets>>
vars == <<act, sessionVars, bufferVars, socketVars, linkVars, resultVars>>

In(op, at, then) == [op |-> op, at |-> at, then |-> then]
Idle == In("none", "idle", "none")
Gone == In("none", "gone", "none")

At(e, at) == act[e].at = at
Goto(e, at, then) == act' = [act EXCEPT ![e] = In(@.op, at, then)]
Return(e) == act' = [act EXCEPT ![e] = Idle]

\* The records of data among the first n that an end has produced, or among all.
DataIn(e, n) == Cardinality({i \in 1..n : made[e][i] = "data"})
Data(e) == DataIn(e, Len(made[e]))
\* close_notify
Said(e) == Contains(made[e], "bye")
Heard(e) == Contains(SubSeq(made[Peer(e)], 1, got[e]), "bye")

\* The parts of records m+1 to n, in order.
Stream(m, n) == [i \in 1..((n - m) * Parts) |-> m * Parts + i]
Pipeline(e) == rbio[Peer(e)] \o wire[e] \o unsent[e] \o wbio[e]
-----------------------------------------------------------------------------
(* The OpenSSL session.                                                    *)

\* The next record is in the read BIO, or the parts there are not a record.
Ready(e) == Len(rbio[e]) >= Parts
Intact(e) == SubSeq(rbio[e], 1, Parts) = Stream(got[e], got[e] + 1)
Arriving(e) == made[Peer(e)][got[e] + 1]

Answer(takes, emits, says) == [takes |-> takes, emits |-> emits, says |-> says]
WantRead == Answer(0, <<>>, "want_read")
Fatal(emits) == Answer(1, emits, "fatal")

\* What a call answers that has to read a record to go on.  To what is no record
\* it says an alert.
Reads(e, answers) ==
    IF ~Ready(e) THEN {WantRead}
    ELSE IF ~Intact(e) THEN {Fatal(<<"alert">>)}
    ELSE answers

\* A peer's certificate or parameters may be refused.
DoHandshake(e) ==
    IF e = "client" /\ made[e] = <<>>
    THEN {Answer(0, <<"hello">>, "want_read")}
    ELSE Reads(e, CASE Arriving(e) = "hello" -> {Answer(1, <<"flight">>, "want_read"),
                                                 Fatal(<<"alert">>)}
                    [] Arriving(e) = "flight" -> {Answer(1, <<"finished">>, "done"),
                                                  Fatal(<<"alert">>)}
                    [] Arriving(e) = "finished" -> {Answer(1, <<>>, "done")}
                    [] OTHER -> {Fatal(<<>>)})

SslRead(e) ==
    IF Heard(e) THEN {Answer(0, <<>>, "zero")}
    ELSE Reads(e, {Answer(1, <<>>, IF Arriving(e) = "bye" THEN "zero" ELSE "done")})

SslWrite(e) == IF Said(e) THEN {Answer(0, <<>>, "fatal")}
               ELSE {Answer(0, <<"data">>, "done")}

\* The first call says close_notify, a later one looks for the peer's: data
\* there is an error.
SslShutdown(e) ==
    IF ~Said(e) THEN {Answer(0, <<"bye">>, "done")}
    ELSE IF Heard(e) THEN {Answer(0, <<>>, "done")}
    ELSE Reads(e, {IF Arriving(e) = "bye" THEN Answer(1, <<>>, "done") ELSE Fatal(<<>>)})

Session(e, op) ==
    IF e \in dead THEN {Answer(0, <<>>, "fatal")}
    ELSE CASE op = "handshake" -> DoHandshake(e)
           [] op = "recv" -> SslRead(e)
           [] op = "send" -> SslWrite(e)
           [] OTHER -> SslShutdown(e)

Takes(e, answer) ==
    LET n == Len(made[e]) IN
    /\ made' = [made EXCEPT ![e] = @ \o answer.emits]
    /\ wbio' = [wbio EXCEPT ![e] = @ \o Stream(n, n + Len(answer.emits))]
    /\ rbio' = [rbio EXCEPT ![e] = SubSeq(@, answer.takes * Parts + 1, Len(@))]
    /\ got' = [got EXCEPT ![e] = @ + answer.takes]
    /\ dead' = IF answer.says = "fatal" THEN dead \cup {e} ELSE dead
-----------------------------------------------------------------------------
\* connect and accept_socket have a connected socket, and start the handshake.
Init == /\ act = [e \in End |-> In("handshake", "ssl", "none")]
        /\ made = [e \in End |-> <<>>]
        /\ got = [e \in End |-> 0]
        /\ dead = {}
        /\ wbio = [e \in End |-> <<>>] /\ unsent = [e \in End |-> <<>>]
        /\ wire = [e \in End |-> <<>>] /\ rbio = [e \in End |-> <<>>]
        /\ handshake_done = {} /\ closed = {} /\ fd = End
        /\ reset = FALSE /\ resets = 0
        /\ ret = [e \in End |-> "none"]
        /\ delivered = [e \in End |-> 0]

\* recv, send or shutdown_write on a socket that is up.
Call(e, op) ==
    /\ At(e, "idle")
    /\ e \in handshake_done \ closed
    /\ op = "send" => Data(e) < MaxData
    /\ act' = [act EXCEPT ![e] = In(op, "ssl", "none")]
    /\ ret' = [ret EXCEPT ![e] = "none"]
    /\ UNCHANGED <<sessionVars, bufferVars, socketVars, linkVars, delivered>>

\* close and close_graceful
Close(e, op) ==
    /\ At(e, "idle")
    /\ e \notin closed
    /\ closed' = closed \cup {e}
    /\ act' = [act EXCEPT ![e] = In(op, "ssl", "none")]
    /\ ret' = [ret EXCEPT ![e] = "none"]
    /\ UNCHANGED <<sessionVars, bufferVars, handshake_done, fd, linkVars, delivered>>

\* The session and its BIOs go, and the socket with them.
Free(e) == /\ fd' = fd \ {e}
           /\ rbio' = [rbio EXCEPT ![e] = <<>>]
           /\ wbio' = [wbio EXCEPT ![e] = <<>>]
           /\ unsent' = [unsent EXCEPT ![e] = <<>>]
           /\ ret' = [ret EXCEPT ![e] = "none"]
           /\ UNCHANGED delivered

\* ~tls_socket: no close_notify.
Destroy(e) ==
    /\ At(e, "idle")
    /\ act' = [act EXCEPT ![e] = Gone]
    /\ Free(e)
    /\ UNCHANGED <<sessionVars, wire, handshake_done, closed, linkVars>>

\* FAULT of FollowUp: close frees the session with close_notify still in it.
FollowUpUnsaid(op, says) ==
    IF op = "close" THEN <<"close", "none">>
    ELSE IF says = "want_read" THEN <<"flush", "recv">>
    ELSE CASE op = "handshake" -> IF says = "done" THEN <<"flush", "established">> ELSE <<"close", "none">>
           [] op = "last_round" -> <<"flush", "close">>
           [] op \in {"recv", "send"} /\ says # "done" -> <<"idle", "none">>
           [] OTHER -> <<"flush", "return">>

\* FAULT of FollowUp: send returns with its record still in the write BIO.
FollowUpUnsent(op, says) ==
    IF op = "send" THEN <<"idle", "none">>
    ELSE IF op \in {"close", "last_round"} THEN <<"flush", "close">>
    ELSE IF says = "want_read" THEN <<"flush", "recv">>
    ELSE CASE op = "handshake" -> IF says = "done" THEN <<"flush", "established">> ELSE <<"close", "none">>
           [] op = "recv" /\ says # "done" -> <<"idle", "none">>
           [] OTHER -> <<"flush", "return">>

\* FAULT of FollowUp: the network is read before what the session says is sent.
FollowUpUnflushed(op, says) ==
    IF says = "want_read" THEN <<"recv", "none">>
    ELSE CASE op \in {"close", "last_round"} -> <<"flush", "close">>
           [] op = "handshake" -> IF says = "done" THEN <<"flush", "established">> ELSE <<"close", "none">>
           [] op \in {"recv", "send"} /\ says # "done" -> <<"idle", "none">>
           [] OTHER -> <<"flush", "return">>

\* Where an operation goes on after the session's answer, and after the flush
\* if that comes first.  close does not look at the answer, close_graceful
\* ends a round with whatever is not a wish to read.  A handshake that is
\* refused throws, and the socket goes with what the session wanted to say.
FollowUp(op, says) ==
    IF op = "close" THEN <<"flush", "close">>
    ELSE IF says = "want_read" THEN <<"flush", "recv">>
    ELSE CASE op = "close_graceful" -> <<"flush", "again">>
           [] op = "last_round" -> <<"flush", "close">>
           [] op = "handshake" -> IF says = "done" THEN <<"flush", "established">> ELSE <<"close", "none">>
           [] op \in {"recv", "send"} /\ says # "done" -> <<"idle", "none">>
           [] OTHER -> <<"flush", "return">>

\* A call of the session.
SslStep(e) ==
    /\ At(e, "ssl")
    /\ \E answer \in Session(e, act[e].op) :
         LET next == FollowUp(act[e].op, answer.says) IN
         /\ Takes(e, answer)
         /\ act' = [act EXCEPT ![e] = IF next[1] = "idle" THEN Idle ELSE In(@.op, next[1], next[2])]
         /\ IF act[e].op # "recv" \/ answer.says = "want_read" THEN UNCHANGED resultVars
            ELSE /\ ret' = [ret EXCEPT ![e] = answer.says]
                 /\ delivered' = [delivered EXCEPT ![e] = IF answer.says = "done" THEN @ + 1 ELSE @]
    /\ UNCHANGED <<unsent, wire, socketVars, linkVars>>

\* flush_wbio: raw_buf_ is filled from the write BIO when it has been sent.
Chunk(e) == IF unsent[e] # <<>> THEN unsent[e]
            ELSE SubSeq(wbio[e], 1, Min({RawSize, Len(wbio[e])}))
Filled(e) == IF unsent[e] # <<>> THEN wbio
             ELSE [wbio EXCEPT ![e] = SubSeq(@, RawSize + 1, Len(@))]

\* FAULT of Unsent: a partial send is followed by the whole buffer.
UnsentAll(e, n) == IF n = Len(Chunk(e)) THEN <<>> ELSE Chunk(e)

\* total += sent
Unsent(e, n) == SubSeq(Chunk(e), n + 1, Len(Chunk(e)))

\* co_await tcp_.send waits for room, and takes part of the bytes or all of them.
FlushSend(e) ==
    /\ At(e, "flush")
    /\ ~reset
    /\ \E n \in 1..Len(Chunk(e)) :
         /\ Len(wire[e]) + n <= Buffer
         /\ wire' = [wire EXCEPT ![e] = @ \o SubSeq(Chunk(e), 1, n)]
         /\ unsent' = [unsent EXCEPT ![e] = Unsent(e, n)]
    /\ wbio' = Filled(e)
    /\ UNCHANGED <<act, sessionVars, rbio, socketVars, linkVars, resultVars>>

\* The end of the flush, with a send that failed or nothing more to send.
Flushed(e) ==
    /\ At(e, "flush")
    /\ Chunk(e) # <<>> => reset
    /\ wbio' = Filled(e)
    /\ unsent' = [unsent EXCEPT ![e] = <<>>]
    /\ act' = [act EXCEPT ![e] = CASE @.then \in {"return", "established"} -> Idle
                                   [] @.then = "again" -> In("last_round", "ssl", "none")
                                   [] OTHER -> In(@.op, @.then, "none")]
    /\ handshake_done' = IF act[e].then = "established" THEN handshake_done \cup {e}
                         ELSE handshake_done
    /\ UNCHANGED <<sessionVars, wire, rbio, closed, fd, linkVars, resultVars>>

\* co_await tcp_.recv(raw_buf_) brings what has arrived, part of what was sent and no
\* more than there is room for, and BIO_write feeds it to the session.
TcpRecv(e) ==
    /\ At(e, "recv")
    /\ \E n \in 1..Len(wire[Peer(e)]) :
         /\ n <= RawSize
         /\ rbio' = [rbio EXCEPT ![e] = @ \o SubSeq(wire[Peer(e)], 1, n)]
         /\ wire' = [wire EXCEPT ![Peer(e)] = SubSeq(@, n + 1, Len(@))]
    /\ Goto(e, "ssl", "none")
    /\ UNCHANGED <<sessionVars, wbio, unsent, socketVars, linkVars, resultVars>>

\* It returns nothing or an error: the handshake throws, which destroys the
\* socket, close_graceful ends its round, and every other operation returns.
TcpEnds(e) ==
    /\ At(e, "recv")
    /\ wire[Peer(e)] = <<>>
    /\ reset \/ Peer(e) \notin fd
    /\ act' = [act EXCEPT ![e] = CASE @.op \in {"handshake", "last_round"} -> In(@.op, "close", "none")
                                   [] @.op = "close_graceful" -> In("last_round", "ssl", "none")
                                   [] OTHER -> Idle]
    /\ ret' = IF act[e].op # "recv" THEN ret
              ELSE [ret EXCEPT ![e] = IF reset THEN "fatal" ELSE "zero"]
    /\ UNCHANGED <<sessionVars, bufferVars, socketVars, linkVars, delivered>>

\* SSL_free, and co_await tcp_.close().
TcpClose(e) ==
    /\ At(e, "close")
    /\ act' = [act EXCEPT ![e] = Gone]
    /\ Free(e)
    /\ UNCHANGED <<sessionVars, wire, handshake_done, closed, linkVars>>

\* The connection breaks: what is on the way is lost.
Reset == /\ ~reset
         /\ reset' = TRUE
         /\ wire' = [e \in End |-> <<>>]
         /\ UNCHANGED <<act, sessionVars, wbio, unsent, rbio, socketVars, resultVars>>

\* It breaks by itself...
Break == Reset /\ resets < MaxResets /\ resets' = resets + 1

\* ...or because bytes came for a socket that is closed.
Refuse == /\ \E e \in End \ fd : wire[Peer(e)] # <<>>
          /\ Reset
          /\ UNCHANGED resets

Works(e) == SslStep(e) \/ FlushSend(e) \/ Flushed(e) \/ TcpRecv(e) \/ TcpEnds(e) \/ TcpClose(e)

Next == \/ \E e \in End : Works(e) \/ Destroy(e)
        \/ \E e \in End, op \in {"recv", "send", "shutdown_write"} : Call(e, op)
        \/ \E e \in End, op \in {"close", "close_graceful"} : Close(e, op)
        \/ Break \/ Refuse

Spec == Init /\ [][Next]_vars
\* The io_context runs a coroutine whose operation has completed, what is sent
\* arrives, and the system of an end answers for a socket that is closed.  Nobody is
\* forced to call anything, so nobody to read.
FairSpec == Spec /\ WF_vars(Refuse) /\ \A e \in End : WF_vars(Works(e))
-----------------------------------------------------------------------------
\* Between the sessions no part of a record is lost, repeated or moved,
\* whatever the sizes of the sends and of the receives, while the connection
\* holds and neither end has given up (flush_wbio, BIO_read and BIO_write
\* around raw_buf_).
RecordsIntact ==
    \A e \in End : ~reset /\ ~At(Peer(e), "gone") =>
        Pipeline(e) = LET due == Stream(got[Peer(e)], Len(made[e]))
                      IN IF At(e, "gone") THEN SubSeq(due, 1, Len(Pipeline(e))) ELSE due

\* An end that waits for the network, returns to its caller or closes has sent
\* all that its session wanted to say, and an end that closes has said
\* close_notify: the peer never waits for bytes that sit in a BIO.
NothingWithheld ==
    \A e \in End :
        ~reset /\ (act[e].at \in {"recv", "idle"} \/ (At(e, "close") /\ e \in closed)) =>
            wbio[e] = <<>> /\ unsent[e] = <<>> /\ (e \in closed => Said(e))

\* A recv that reports the end of the stream has delivered all of the data
\* that the peer has sent, whether it was close_notify that ended it or the
\* peer's socket.
FullyReceived ==
    \A e \in End : ret[e] = "zero" /\ ~reset => delivered[e] = Data(Peer(e))

\* The connection is full, and its other end does not read.
Blocked(e) == /\ At(e, "flush") /\ Chunk(e) # <<>> /\ ~reset
              /\ Len(wire[e]) = Buffer
              /\ Peer(e) \in fd /\ ~At(Peer(e), "recv")

\* A handshake ends, in success or by throwing, with as little room in the connection
\* as may be: the flushes come before the reads, and who has something to say
\* has a peer that reads.  A send or a close ends as well, unless its bytes find
\* no room for ever because the peer never reads again: it waits for nothing else.
CallsEnd ==
    \A e \in End :
        /\ act[e].op = "handshake" ~> act[e].op = "none"
        /\ act[e].op \in {"send", "close"} ~> (act[e].op = "none" \/ []Blocked(e))
=============================================================================
