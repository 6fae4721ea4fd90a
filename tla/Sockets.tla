------------------------------ MODULE Sockets ------------------------------
(***************************************************************************)
(* The socket types (socket_base, tcp_socket, udp_socket, tcp_acceptor,    *)
(* tls_socket, tls_acceptor) as owners: of a descriptor of the process     *)
(* and, for tls_socket, of an OpenSSL session.  They are moved, assigned,  *)
(* closed and destroyed while the rest of the process opens and closes     *)
(* descriptors, so that the number of one that is closed soon is           *)
(* another's.  What is sent and received is the matter of EpollIo, Uring,  *)
(* Iocp and Tls.                                                           *)
(***************************************************************************)
EXTENDS Naturals, FiniteSets, SequencesExt

CONSTANTS Object,      (* the variables that hold a socket                  *)
          Fd,          (* the descriptors                                   *)
          Session,     (* the OpenSSL sessions                              *)
          Invalid,     (* platform::invalid_socket                          *)
          Errno,       (* a descriptor below zero that is not invalid       *)
          MaxClosing   (* bound: the closes that are not performed yet      *)

ASSUME SocketAssumption == /\ {Invalid, Errno} \cap Fd = {}
                           /\ Invalid \notin Session /\ Invalid # Errno

VARIABLES
    type,     (* "none" for an object that is not there, "building" in the
                 constructor of tcp_acceptor, "plain" or "tls"              *)
    sockfd_,
    ssl_,     (* Invalid for a null pointer                                 *)
    closed_,  (* the tls_sockets that are closed or moved from              *)
    busy,     (* those in close() or a handshake                            *)
    closing,  (* what async::close has been given and not closed yet        *)
    open,     (* the descriptors the process has open                       *)
    others,   (* those of them that are no socket object's                  *)
    sessions  (* the sessions that are allocated                            *)

sockVars == <<type, sockfd_, ssl_, closed_, busy, closing, open, others, sessions>>

SocketsInit == /\ type = [o \in Object |-> "none"]
               /\ sockfd_ = [o \in Object |-> Invalid]
               /\ ssl_ = [o \in Object |-> Invalid]
               /\ closed_ = {} /\ busy = {} /\ closing = <<>>
               /\ open = {} /\ others = {} /\ sessions = {}

\* close(2) of a descriptor, whosever it is; of anything else it is an error.
Closes(f) == open' = open \ {f} /\ others' = others \ {f}

\* The destructor's close, of nothing if there is nothing.
Releases(o) == Closes(sockfd_[o]) /\ sessions' = sessions \ {ssl_[o]}

Ends(o) == /\ type' = [type EXCEPT ![o] = "none"]
           /\ sockfd_' = [sockfd_ EXCEPT ![o] = Invalid]
           /\ ssl_' = [ssl_ EXCEPT ![o] = Invalid]
           /\ closed_' = closed_ \ {o}

\* An object its owner may use: it is there, and no coroutine of it suspended.
Usable(o) == type[o] \in {"plain", "tls"} /\ o \notin busy
-----------------------------------------------------------------------------
\* create_tcp and create_udp, which throw if there is no descriptor, and the
\* first of tcp_acceptor's constructor.
Create(o, as) == /\ type[o] = "none"
                 /\ \E f \in Fd \ open :
                      /\ open' = open \cup {f}
                      /\ sockfd_' = [sockfd_ EXCEPT ![o] = f]
                 /\ type' = [type EXCEPT ![o] = as]
                 /\ UNCHANGED <<ssl_, closed_, busy, closing, others, sessions>>

\* accept_socket and accept_with_peer make a socket of whatever accept returned,
\* an error too.
AcceptSocket(o, l) ==
    /\ type[o] = "none" /\ Usable(l)
    /\ type' = [type EXCEPT ![o] = "plain"]
    /\ \/ \E f \in Fd \ open : /\ sockfd_[l] \in Fd
                               /\ open' = open \cup {f}
                               /\ sockfd_' = [sockfd_ EXCEPT ![o] = f]
       \/ sockfd_' = [sockfd_ EXCEPT ![o] = Errno] /\ UNCHANGED open
    /\ UNCHANGED <<ssl_, closed_, busy, closing, others, sessions>>

\* bind, listen and the setters of options return the socket as it is; after
\* those that it calls, tcp_acceptor's constructor is done.
Configured(o) == /\ type[o] = "building"
                 /\ type' = [type EXCEPT ![o] = "plain"]
                 /\ UNCHANGED <<sockfd_, ssl_, closed_, busy, closing, open, others, sessions>>

\* Or one of these throws, and the exception leaves the constructor or the scope
\* that holds the socket.
SetterThrows(o) == /\ type[o] = "building" \/ (Usable(o) /\ type[o] = "plain")
                   /\ Ends(o) /\ Releases(o)
                   /\ UNCHANGED <<busy, closing>>

\* The end of an object's scope.
Destroy(o) == /\ Usable(o)
              /\ Ends(o) /\ Releases(o)
              /\ UNCHANGED <<busy, closing>>

\* FAULT of Emptied: the object that is moved from keeps what it had.
EmptiedNot(fds, p) == fds

\* What moving leaves behind.
Emptied(fds, p) == [fds EXCEPT ![p] = Invalid]

\* The move constructor, by which tasks return their sockets.
MoveConstruct(o, p) ==
    /\ type[o] = "none" /\ Usable(p)
    /\ type' = [type EXCEPT ![o] = type[p]]
    /\ sockfd_' = [Emptied(sockfd_, p) EXCEPT ![o] = sockfd_[p]]
    /\ ssl_' = [ssl_ EXCEPT ![o] = ssl_[p], ![p] = Invalid]
    /\ closed_' = {c \in closed_ : c # p} \cup {c \in {o} : p \in closed_}
                  \cup {c \in {p} : type[p] = "tls"}
    /\ UNCHANGED <<busy, closing, open, others, sessions>>

\* The move assignment of a socket_base swaps with a temporary that takes the old
\* descriptor with it; that of a tls_socket frees the old session first.
MoveAssign(o, p) ==
    /\ o # p /\ Usable(o) /\ Usable(p) /\ type[o] = type[p]
    /\ Releases(o)
    /\ sockfd_' = [Emptied(sockfd_, p) EXCEPT ![o] = sockfd_[p]]
    /\ ssl_' = [ssl_ EXCEPT ![o] = ssl_[p], ![p] = Invalid]
    /\ closed_' = {c \in closed_ : c \notin {o, p}} \cup {c \in {o} : p \in closed_}
                  \cup {c \in {p} : type[p] = "tls"}
    /\ UNCHANGED <<type, busy, closing>>

\* A tls_socket is made of a tcp_socket, and its handshake begins; or SSL_new
\* fails, and the member that has taken the descriptor closes it.
MakeTls(o, p) ==
    /\ type[o] = "none" /\ Usable(p) /\ type[p] = "plain"
    /\ \/ \E s \in Session \ sessions :
            /\ sessions' = sessions \cup {s}
            /\ type' = [type EXCEPT ![o] = "tls"]
            /\ sockfd_' = [Emptied(sockfd_, p) EXCEPT ![o] = sockfd_[p]]
            /\ ssl_' = [ssl_ EXCEPT ![o] = s]
            /\ busy' = busy \cup {o}
            /\ UNCHANGED <<open, others>>
       \/ /\ Closes(sockfd_[p])
          /\ sockfd_' = Emptied(sockfd_, p)
          /\ UNCHANGED <<type, ssl_, busy, sessions>>
    /\ UNCHANGED <<closed_, closing>>

\* The handshake is over, and the object is returned; or it throws.
HandshakeEnds(o) ==
    /\ o \in busy \ closed_
    /\ busy' = busy \ {o}
    /\ \/ UNCHANGED <<type, sockfd_, ssl_, closed_, open, others, sessions>>
       \/ Ends(o) /\ Releases(o)
    /\ UNCHANGED closing

\* FAULT of CloseCall: it is for the close itself to invalidate sockfd_.
CloseCallLate(o) == /\ Len(closing) < MaxClosing
                    /\ closing' = Append(closing, sockfd_[o])
                    /\ UNCHANGED sockfd_

\* socket_base::close takes the descriptor out of the object, for async::close.
CloseCall(o) == /\ Len(closing) < MaxClosing
                /\ closing' = Append(closing, sockfd_[o])
                /\ sockfd_' = Emptied(sockfd_, o)

Close(o) == /\ Usable(o) /\ type[o] = "plain"
            /\ CloseCall(o)
            /\ UNCHANGED <<type, ssl_, closed_, busy, open, others, sessions>>

\* tls_socket::close and close_graceful suspend to say so to the peer...
TlsClose(o) == /\ Usable(o) /\ type[o] = "tls"
               /\ o \notin closed_
               /\ closed_' = closed_ \cup {o}
               /\ busy' = busy \cup {o}
               /\ UNCHANGED <<type, sockfd_, ssl_, closing, open, others, sessions>>

\* ...and free the session and close the socket.
TlsClosed(o) == /\ o \in busy \cap closed_
                /\ busy' = busy \ {o}
                /\ sessions' = sessions \ {ssl_[o]}
                /\ ssl_' = [ssl_ EXCEPT ![o] = Invalid]
                /\ CloseCall(o)
                /\ UNCHANGED <<type, closed_, open, others>>

\* The loop, the kernel or await_suspend performs a close.
PerformClose == \E i \in DOMAIN closing :
                   /\ Closes(closing[i])
                   /\ closing' = RemoveAt(closing, i)
                   /\ UNCHANGED <<type, sockfd_, ssl_, closed_, busy, sessions>>

\* Timers, eventfds and files take numbers and give them back.
OtherOpens == \E f \in Fd \ open : /\ open' = open \cup {f} /\ others' = others \cup {f}
                                   /\ UNCHANGED <<type, sockfd_, ssl_, closed_, busy, closing, sessions>>
OtherCloses == \E f \in others : /\ Closes(f)
                                 /\ UNCHANGED <<type, sockfd_, ssl_, closed_, busy, closing, sessions>>

SocketsNext ==
    \/ \E o \in Object, as \in {"building", "plain"} : Create(o, as)
    \/ \E o \in Object : \/ Configured(o) \/ SetterThrows(o) \/ Destroy(o) \/ HandshakeEnds(o)
                         \/ Close(o) \/ TlsClose(o) \/ TlsClosed(o)
    \/ \E o, p \in Object : \/ AcceptSocket(o, p) \/ MoveConstruct(o, p) \/ MoveAssign(o, p)
                            \/ MakeTls(o, p)
    \/ PerformClose \/ OtherOpens \/ OtherCloses

SocketsSpec == SocketsInit /\ [][SocketsNext]_sockVars
-----------------------------------------------------------------------------
Holders(f) == Cardinality({o \in Object : sockfd_[o] = f})
              + Cardinality({i \in DOMAIN closing : closing[i] = f})

\* A descriptor that is open and not the others' is held once, by an object or by
\* a close on its way, so that it is closed, and closed once; and what is held is
\* open and nobody else's, although every number is used again at once.  The same
\* goes for the sessions.
OwnedOnce ==
    /\ \A f \in Fd : Holders(f) = IF f \in open \ others THEN 1 ELSE 0
    /\ \A s \in Session : Cardinality({o \in Object : ssl_[o] = s})
                          = IF s \in sessions THEN 1 ELSE 0
    /\ others \subseteq open
    /\ \A o \in Object : type[o] = "tls" /\ ssl_[o] = Invalid => o \in closed_
=============================================================================
