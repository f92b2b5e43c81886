------------------------------ MODULE SslSocket ------------------------------
(***************************************************************************)
(* net::ssl::socket (net/ssl/socket.h, net/ssl/socket.cpp): a net::socket  *)
(* and an SSL structure that uses its descriptor.  The net::socket is an   *)
(* instance of module Socket, whose connect() runs inside of connect().    *)
(*                                                                         *)
(* Senders are the sockets of net::sender objects, used as the secure      *)
(* callbacks of sender.h and sender::send() use them; Others are built     *)
(* from accepted connections, as in test_ssl_socket.cpp, and may use every *)
(* operation.  Each is used by one thread.                                 *)
(*                                                                         *)
(* Of OpenSSL: a call writes what the protocol owes (out) and reads units  *)
(* from the peer until it is done, must wait, or fails.  What a unit is    *)
(* (data, close_notify, a part of a record, garbage) is chosen when it is  *)
(* read.  Every read() and write() is one action; an interrupted one is    *)
(* repeated at once and left out.                                          *)
(***************************************************************************)
EXTENDS Integers, FiniteSets

CONSTANTS
  Senders,      \* sockets of net::sender objects
  Others,       \* sockets built from accepted connections
  Descriptor,   \* the numbers of the table of descriptors
  Record,       \* units of a record, on the wire
  Room,         \* units that the kernel buffers for a connection
  MaxWaiting,   \* bound: units that wait to be received
  MaxUnits      \* bound: units that all peers send

ASSUME SslSocketAssumption ==
  /\ Senders \cap Others = {} /\ IsFiniteSet(Senders) /\ IsFiniteSet(Others)
  /\ Descriptor \subseteq Nat /\ IsFiniteSet(Descriptor)
  /\ Record \in Nat \ {0} /\ Room \in Nat \ {0}
  /\ MaxWaiting \in Nat /\ MaxUnits \in Nat

Object == Senders \cup Others

VARIABLES
  fd, kernel, pc, target, pos, len, result,  \* _M_sock: see module Socket
  ssl,      \* ssl[s]: what _M_ssl points to
  heap,     \* SSL structures that exist
  at,       \* at[s]: the operation of s and where it is
  want,     \* want[s]: the direction that the operation waits for
  verdict,  \* verdict[s]: what the last operation of s returned
  units     \* units that peers have sent

tcpVars == <<pc, target, pos, len, result>>
opVars  == <<at, want, verdict>>
vars == <<fd, kernel, tcpVars, ssl, heap, opVars, units>>

TCP == INSTANCE Socket WITH Size <- Record

None == TCP!None

(* state: what the SSL structure knows (finishing: one more unit written   *)
(* ends the handshake); bio: the descriptor it was given; out: units it    *)
(* has still to write; closing: it has sent, or has still to write, its    *)
(* close_notify; peer: it has read that of the peer, or was told to count  *)
(* it as received.                                                         *)
NoSsl  == [state |-> "none", bio |-> None, out |-> 0, closing |-> FALSE,
           peer |-> "open"]

(* SSL_new(), SSL_set_fd() and SSL_set_connect_state() or                  *)
(* SSL_set_accept_state(): the client speaks first.                        *)
NewSsl(s) == [NoSsl EXCEPT !.state = "handshake", !.bio = fd[s],
                           !.out = IF s \in Senders THEN 1 ELSE 0]

Init ==
  /\ TCP!Init
  /\ ssl = [s \in Object |-> NoSsl] /\ heap = 0
  /\ at = [s \in Object |-> "idle"] /\ want = [s \in Object |-> "none"]
  /\ verdict = [s \in Object |-> "none"] /\ units = 0

Kernel(s) == kernel[fd[s]]
Alive(s)  == Kernel(s).state = "connected"

Goto(s, label) == /\ at' = [at EXCEPT ![s] = label]
                  /\ UNCHANGED <<want, verdict>>

(* An operation begins; it returns. *)
Call(s, label) == /\ at[s] = "idle"
                  /\ at' = [at EXCEPT ![s] = label]
                  /\ verdict' = [verdict EXCEPT ![s] = "none"]
                  /\ UNCHANGED want
Return(s, r)   == /\ at' = [at EXCEPT ![s] = "idle"]
                  /\ want' = [want EXCEPT ![s] = "none"]
                  /\ verdict' = [verdict EXCEPT ![s] = r]

Ssl(s, fields) == ssl' = [ssl EXCEPT ![s] = fields]

(* SSL_free() of the structure, if there is one. *)
Free(s) == /\ Ssl(s, NoSsl)
           /\ heap' = IF ssl[s].state = "none" THEN heap ELSE heap - 1

-----------------------------------------------------------------------------
(* close(), and the constructor that takes the descriptor of a net::socket.*)

(* _M_sock.close() and SSL_free(). *)
Shut(s) ==
  /\ IF fd[s] = None THEN UNCHANGED <<fd, kernel>> ELSE TCP!Release(s)
  /\ Free(s)

Close(s) ==
  /\ at[s] = "idle" /\ fd[s] # None
  /\ Shut(s)
  /\ Return(s, "none")
  /\ UNCHANGED <<tcpVars, units>>

(* accept() of a connection into a net::socket, from which s is built. *)
Construct(s) ==
  /\ s \in Others /\ at[s] = "idle" /\ fd[s] = None
  /\ \E d \in TCP!FreeDescriptors :
       /\ TCP!Lowest(d)
       /\ fd' = [fd EXCEPT ![s] = d]
       /\ kernel' = [kernel EXCEPT ![d] = TCP!Opened("connected")]
  /\ Return(s, "none")
  /\ UNCHANGED <<tcpVars, ssl, heap, units>>

-----------------------------------------------------------------------------
(* connect() and handshake().                                              *)

(* sender::connect() of an object without a descriptor. *)
StartConnect(s) ==
  /\ s \in Senders /\ fd[s] = None
  /\ \/ TCP!Create(s, "connect") /\ Call(s, "connect")
     \/ at[s] = "idle" /\ TCP!CreateFails(s) /\ Return(s, "failed")
  /\ UNCHANGED <<ssl, heap, units>>

(* Inside of net::socket::connect(). *)
TcpConnects(s) ==
  /\ at[s] = "connect"
  /\ TCP!ConnectStarts(s) \/ TCP!WaitConnect(s) \/ TCP!CheckError(s)
  /\ UNCHANGED <<ssl, heap, opVars, units>>

(* net::socket::connect() has returned. *)
TcpReturns(s) ==
  /\ at[s] = "connect" /\ pc[s] = "idle"
  /\ IF result[s] = "connected" THEN Goto(s, "client") ELSE Return(s, "failed")
  /\ UNCHANGED <<fd, kernel, tcpVars, ssl, heap, units>>

(* handshake() of an accepted connection. *)
StartHandshake(s) ==
  /\ s \in Others /\ fd[s] # None /\ ssl[s].state = "none"
  /\ Call(s, "server")
  /\ UNCHANGED <<fd, kernel, tcpVars, ssl, heap, units>>

(* Mutant of HandshakeFails: connect() leaves the descriptor open. *)
HandshakeFailsOpen(s) ==
  /\ Free(s)
  /\ Return(s, "failed")
  /\ UNCHANGED <<fd, kernel, tcpVars, units>>

(* Mutant of HandshakeFails: the SSL structure is not freed. *)
HandshakeFailsLeaks(s) ==
  /\ Ssl(s, NoSsl) /\ UNCHANGED heap
  /\ IF at[s] = "client" THEN TCP!Release(s) ELSE UNCHANGED <<fd, kernel>>
  /\ Return(s, "failed")
  /\ UNCHANGED <<tcpVars, units>>

(* handshake() frees the SSL structure; connect() also closes the socket. *)
HandshakeFails(s) ==
  /\ Free(s)
  /\ IF at[s] = "client" THEN TCP!Release(s) ELSE UNCHANGED <<fd, kernel>>
  /\ Return(s, "failed")
  /\ UNCHANGED <<tcpVars, units>>

Handshaking(s) == at[s] \in {"client", "server"} /\ want[s] = "none"
Unfinished     == {"handshake", "finishing"}

(* SSL_new() and SSL_set_fd(), which may fail. *)
Prepare(s) ==
  /\ Handshaking(s) /\ ssl[s].state = "none"
  /\ \/ /\ Ssl(s, NewSsl(s)) /\ heap' = heap + 1
        /\ UNCHANGED <<fd, kernel, tcpVars, opVars, units>>
     \/ HandshakeFails(s)

(* A unit from the peer is read. *)
Get(s) == /\ Alive(s) /\ Kernel(s).waiting > 0
          /\ kernel' = [kernel EXCEPT ![fd[s]].waiting = @ - 1]
          /\ UNCHANGED <<fd, tcpVars, units>>

(* SSL_do_handshake() reads: it is finished, it has to answer and goes on, *)
(* or is finished then, it needs more, or it is refused.                   *)
HandshakeReads(s) ==
  /\ Handshaking(s) /\ ssl[s].state = "handshake" /\ ssl[s].out = 0
  /\ \/ /\ Get(s)
        /\ Ssl(s, [ssl[s] EXCEPT !.state = "secure"])
        /\ Return(s, "secured")
        /\ UNCHANGED heap
     \/ /\ Get(s)
        /\ \E answer \in {0, 1} : Ssl(s, [ssl[s] EXCEPT !.out = answer])
        /\ UNCHANGED <<heap, opVars>>
     \/ /\ Get(s)
        /\ Ssl(s, [ssl[s] EXCEPT !.state = "finishing", !.out = 1])
        /\ UNCHANGED <<heap, opVars>>
     \/ Kernel(s).waiting > 0 /\ HandshakeFails(s)
     \/ Kernel(s).waiting = 0 /\ Kernel(s).eof /\ HandshakeFails(s)

(* It writes the answer after which it is finished. *)
HandshakeWrites(s) ==
  /\ Handshaking(s) /\ ssl[s].state = "finishing"
  /\ Alive(s) /\ Kernel(s).room > 0
  /\ kernel' = [kernel EXCEPT ![fd[s]].room = @ - 1]
  /\ Ssl(s, [ssl[s] EXCEPT !.state = "secure", !.out = 0])
  /\ Return(s, "secured")
  /\ UNCHANGED <<fd, tcpVars, heap, units>>

-----------------------------------------------------------------------------
(* What all the operations share: writing, and waiting.                    *)

Timed   == {"client", "server", "send", "recv", "shutuni", "shutbi",
            "shutagain", "drain"}
Reading == {"recv", "tryrecv", "check", "drain"}
Sending == {"send", "trysend"}
Closing == {"shutuni", "shutbi"}

Writing(s) ==
  /\ want[s] = "none" /\ ssl[s].out > 0 /\ ssl[s].state # "broken"
  /\ \/ at[s] \in {"client", "server"}
     \/ at[s] \in Sending /\ ~ssl[s].closing
     \/ at[s] \in Closing /\ ssl[s].closing

(* One unit is written. *)
Put(s) ==
  /\ Writing(s) /\ ssl[s].state # "finishing" /\ Alive(s) /\ Kernel(s).room > 0
  /\ kernel' = [kernel EXCEPT ![fd[s]].room = @ - 1]
  /\ Ssl(s, [ssl[s] EXCEPT !.out = @ - 1])
  /\ UNCHANGED <<fd, tcpVars, heap, opVars, units>>

(* Mutant of SendFails: the sender keeps the connection. *)
SendFailsOpen(s) ==
  /\ Return(s, "failed")
  /\ UNCHANGED <<fd, kernel, ssl, heap, tcpVars, units>>

(* send() returns false; sender::send() then disconnects. *)
SendFails(s) ==
  /\ IF s \in Senders THEN Shut(s) ELSE UNCHANGED <<fd, kernel, ssl, heap>>
  /\ Return(s, "failed")
  /\ UNCHANGED <<tcpVars, units>>

(* Mutant of Offer: a record is added to the rest of the one before. *)
OfferAgain(s) == Ssl(s, [ssl[s] EXCEPT !.out = @ + Record])

(* The record of the next send(): a new one, or the rest of one that was   *)
(* not finished, which the caller must offer again; none after the         *)
(* close_notify.                                                           *)
Offer(s) == IF ssl[s].out = 0 /\ ~ssl[s].closing
            THEN Ssl(s, [ssl[s] EXCEPT !.out = Record])
            ELSE UNCHANGED ssl

(* recv() has returned -1, or data: connection_closed_by_peer() is false   *)
(* and sender::send() goes on; other callers get the result.               *)
Received(s, r) == IF at[s] = "check" THEN Goto(s, "offer") ELSE Return(s, r)

(* The operation ends because a wait has timed out, or because it is not   *)
(* allowed to wait.                                                        *)
GivesUp(s) ==
  \/ at[s] \in {"client", "server"} /\ HandshakeFails(s)
  \/ at[s] \in Sending /\ SendFails(s)
  \/ /\ at[s] \notin {"client", "server"} \cup Sending
     /\ Received(s, "failed")
     /\ UNCHANGED <<fd, kernel, tcpVars, ssl, heap, units>>

(* Mutant of Wants: what to wait for is mixed up. *)
WantsTheOther(s, direction) ==
  IF at[s] \in Timed
  THEN /\ want' = [want EXCEPT ![s] = IF direction = "read" THEN "write"
                                      ELSE "read"]
       /\ UNCHANGED <<fd, kernel, tcpVars, ssl, heap, at, verdict, units>>
  ELSE GivesUp(s)

(* SSL_ERROR_WANT_READ or SSL_ERROR_WANT_WRITE. *)
Wants(s, direction) ==
  IF at[s] \in Timed
  THEN /\ want' = [want EXCEPT ![s] = direction]
       /\ UNCHANGED <<fd, kernel, tcpVars, ssl, heap, at, verdict, units>>
  ELSE GivesUp(s)

NothingToRead(s) == Alive(s) /\ Kernel(s).waiting = 0 /\ ~Kernel(s).eof
NoRoom(s)        == Alive(s) /\ Kernel(s).room = 0

(* A call must wait: for what it is about, or, when keys are renegotiated  *)
(* meanwhile, for the other direction.                                     *)
Blocks(s) ==
  /\ want[s] = "none"
  /\ \/ Writing(s) /\ NoRoom(s) /\ Wants(s, "write")
     \/ Writing(s) /\ at[s] \in Sending /\ NothingToRead(s) /\ Wants(s, "read")
     \/ /\ \/ Handshaking(s) /\ ssl[s].state = "handshake" /\ ssl[s].out = 0
           \/ at[s] \in Reading \cup {"shutagain"} /\ ssl[s].state = "secure"
              /\ ssl[s].peer = "open"
        /\ \/ NothingToRead(s) /\ Wants(s, "read")
           \/ at[s] \in Reading /\ NoRoom(s) /\ Wants(s, "write")

(* wait_readable() and wait_writable(): poll() is not repeated. *)
Wait(s) ==
  /\ want[s] # "none"
  /\ \/ /\ \/ Kernel(s).state = "reset"
           \/ want[s] = "write" /\ Kernel(s).room > 0
           \/ want[s] = "read" /\ (Kernel(s).waiting > 0 \/ Kernel(s).eof)
        /\ want' = [want EXCEPT ![s] = "none"]
        /\ UNCHANGED <<fd, kernel, tcpVars, ssl, heap, at, verdict, units>>
     \/ GivesUp(s)

-----------------------------------------------------------------------------
(* send() and recv(), with and without a timeout.                          *)

HasSsl(s) == s \in Others /\ ssl[s].state \in {"secure", "broken"}

StartSend(s) ==
  /\ HasSsl(s)
  /\ \E label \in Sending : Call(s, label)
  /\ Offer(s)
  /\ UNCHANGED <<fd, kernel, tcpVars, heap, units>>

(* sender::send(): connected() looks at the descriptor only.  First        *)
(* connection_closed_by_peer() calls recv() without a timeout.             *)
StartSenderSend(s) ==
  /\ s \in Senders /\ fd[s] # None
  /\ Call(s, "check")
  /\ UNCHANGED <<fd, kernel, tcpVars, ssl, heap, units>>

SenderSends(s) ==
  /\ at[s] = "offer"
  /\ Offer(s)
  /\ Goto(s, "send")
  /\ UNCHANGED <<fd, kernel, tcpVars, heap, units>>

SendReturns(s) ==
  /\ at[s] \in Sending /\ want[s] = "none"
  /\ ssl[s].out = 0 /\ ~ssl[s].closing
  /\ Return(s, "sent")
  /\ UNCHANGED <<fd, kernel, tcpVars, ssl, heap, units>>

StartReceive(s) ==
  /\ HasSsl(s)
  /\ \E label \in {"recv", "tryrecv"} : Call(s, label)
  /\ UNCHANGED <<fd, kernel, tcpVars, ssl, heap, units>>

(* recv() returns 0: the peer has sent its close_notify.  sender::send()   *)
(* disconnects; shutdown() is done.                                        *)
EndOfStream(s) ==
  \/ at[s] = "check" /\ SendFails(s)
  \/ /\ at[s] # "check"
     /\ Return(s, IF at[s] = "drain" THEN "closedbi" ELSE "eof")
     /\ UNCHANGED <<fd, kernel, tcpVars, ssl, heap, units>>

(* SSL_read() of a unit: data, which shutdown() discards; the peer's       *)
(* close_notify, which it reports then; or no data yet.                    *)
ReadsUnit(s) ==
  /\ at[s] \in Reading /\ want[s] = "none"
  /\ ssl[s].state = "secure" /\ ssl[s].peer = "open"
  /\ Get(s)
  /\ \/ /\ IF at[s] = "drain" THEN UNCHANGED opVars ELSE Received(s, "received")
        /\ UNCHANGED ssl
     \/ Ssl(s, [ssl[s] EXCEPT !.peer = "read"]) /\ UNCHANGED opVars
     \/ UNCHANGED <<ssl, opVars>>
  /\ UNCHANGED heap

ReadsEnd(s) ==
  /\ at[s] \in Reading /\ want[s] = "none" /\ ssl[s].peer = "read"
  /\ EndOfStream(s)

-----------------------------------------------------------------------------
(* shutdown().                                                             *)

(* Unidirectional: the close_notify of the peer counts as received, from   *)
(* now on.  If its own was already sent, a bidirectional one reads at once.*)
StartShutdown(s) ==
  /\ HasSsl(s)
  /\ \/ /\ Call(s, "shutuni")
        /\ Ssl(s, [ssl[s] EXCEPT !.peer = IF @ = "open" THEN "assumed" ELSE @])
     \/ /\ Call(s, IF ssl[s].closing /\ ssl[s].out = 0 THEN "shutagain" ELSE "shutbi")
        /\ UNCHANGED ssl
  /\ UNCHANGED <<fd, kernel, tcpVars, heap, units>>

(* SSL_shutdown() begins to send the close_notify. *)
Notify(s) ==
  /\ at[s] \in Closing /\ want[s] = "none" /\ ssl[s].state = "secure"
  /\ ~ssl[s].closing /\ ssl[s].out = 0
  /\ Ssl(s, [ssl[s] EXCEPT !.closing = TRUE, !.out = 1])
  /\ UNCHANGED <<fd, kernel, tcpVars, heap, opVars, units>>

(* Mutant of Notified: shutdown() does not wait for the peer. *)
NotifiedAtOnce(s) ==
  /\ at[s] \in Closing /\ want[s] = "none"
  /\ ssl[s].closing /\ ssl[s].out = 0
  /\ Return(s, IF at[s] = "shutuni" THEN "closeduni" ELSE "closedbi")
  /\ UNCHANGED <<fd, kernel, tcpVars, ssl, heap, units>>

(* SSL_shutdown() returns 1, or 0: data of the peer are discarded then. *)
Notified(s) ==
  /\ at[s] \in Closing /\ want[s] = "none"
  /\ ssl[s].closing /\ ssl[s].out = 0
  /\ IF at[s] = "shutuni" THEN Return(s, "closeduni")
     ELSE IF ssl[s].peer # "open" THEN Return(s, "closedbi") ELSE Goto(s, "drain")
  /\ UNCHANGED <<fd, kernel, tcpVars, ssl, heap, units>>

(* SSL_shutdown() once more: it looks for the close_notify of the peer. *)
ShutdownReads(s) ==
  /\ at[s] = "shutagain" /\ want[s] = "none" /\ ssl[s].state = "secure"
  /\ \/ /\ ssl[s].peer = "open" /\ Get(s)
        /\ \E peer \in {"open", "read"} : Ssl(s, [ssl[s] EXCEPT !.peer = peer])
        /\ UNCHANGED <<heap, opVars>>
     \/ /\ ssl[s].peer # "open"
        /\ Return(s, "closedbi")
        /\ UNCHANGED <<fd, kernel, tcpVars, ssl, heap, units>>

-----------------------------------------------------------------------------
(* An SSL_...() call fails: the connection is reset, or it ends without a  *)
(* close_notify, or the peer has sent garbage; or it was broken before, or *)
(* the protocol does not allow the call (a record or a close_notify after  *)
(* the close_notify, a close_notify in the middle of a record, reading     *)
(* when the peer's close_notify was only assumed).                         *)
Breaks(s) ==
  /\ at[s] \in Reading \cup Sending \cup Closing \cup {"shutagain"}
  /\ want[s] = "none"
  /\ \/ ssl[s].state = "broken"
     \/ Kernel(s).state = "reset"
     \/ at[s] \in Reading /\ ssl[s].peer = "assumed"
     \/ at[s] \in Reading \cup {"shutagain"} /\ ssl[s].peer = "open"
        /\ (Kernel(s).waiting > 0 \/ Kernel(s).eof)
     \/ at[s] \in Sending /\ ssl[s].closing
     \/ at[s] \in Closing /\ ~ssl[s].closing /\ ssl[s].out > 0
  /\ IF at[s] \in Sending /\ s \in Senders THEN SendFails(s)
     ELSE /\ \E state \in {ssl[s].state, "broken"} :
               Ssl(s, [ssl[s] EXCEPT !.state = state])
          /\ Received(s, "failed")
          /\ UNCHANGED <<fd, kernel, tcpVars, heap, units>>

(* The handshake fails because the connection is reset. *)
HandshakeBreaks(s) ==
  /\ Handshaking(s) /\ ssl[s].state \in Unfinished /\ ~Alive(s)
  /\ HandshakeFails(s)

-----------------------------------------------------------------------------
(* Peers and network, as in module Socket; peers send so many units only.  *)
Network(d) ==
  /\ TCP!Network(d)
  /\ units' = IF kernel'[d].waiting > kernel[d].waiting THEN units + 1 ELSE units
  /\ units' <= MaxUnits
  /\ UNCHANGED <<ssl, heap, opVars>>

Files(d) == TCP!Files(d) /\ UNCHANGED <<ssl, heap, opVars, units>>

Step(s) ==
  \/ TcpConnects(s) \/ TcpReturns(s) \/ Prepare(s) \/ HandshakeReads(s)
  \/ HandshakeWrites(s) \/ HandshakeBreaks(s) \/ Put(s) \/ Blocks(s) \/ Wait(s)
  \/ SenderSends(s) \/ SendReturns(s) \/ ReadsUnit(s) \/ ReadsEnd(s)
  \/ Notify(s) \/ Notified(s) \/ ShutdownReads(s) \/ Breaks(s)

Use(s) ==
  \/ StartConnect(s) \/ Construct(s) \/ StartHandshake(s) \/ Close(s)
  \/ StartSend(s) \/ StartSenderSend(s) \/ StartReceive(s) \/ StartShutdown(s)

Next == \/ \E s \in Object : Step(s) \/ Use(s)
        \/ \E d \in Descriptor : Network(d) \/ Files(d)

Spec == Init /\ [][Next]_vars

(* Inside of an operation a thread goes on; each poll() has its timeout. *)
FairSpec == Spec /\ \A s \in Object : WF_vars(Step(s))

-----------------------------------------------------------------------------
(* Properties.                                                             *)

Labels == {"idle", "connect", "client", "server", "send", "trysend", "offer",
           "recv", "tryrecv", "check", "shutuni", "shutbi", "shutagain", "drain"}

(* Members and locals have their types. *)
TypeOK ==
  /\ fd \in [Object -> Descriptor \cup {None}]
  /\ ssl \in [Object -> [state: {"none", "secure", "broken"} \cup Unfinished,
                        bio: Descriptor \cup {None}, out: 0..Record,
                        closing: BOOLEAN, peer: {"open", "read", "assumed"}]]
  /\ heap \in Nat /\ units \in 0..MaxUnits
  /\ at \in [Object -> Labels]
  /\ want \in [Object -> {"none", "read", "write"}]
  /\ verdict \in [Object -> {"none", "failed", "secured", "sent", "received",
                             "eof", "closeduni", "closedbi"}]

(* An operation that uses _M_ssl finds a structure whose handshake is done *)
(* and whose descriptor is the open socket of the same object: never a     *)
(* null pointer, never a number that another object or file has now.  For  *)
(* the sender this rests on connect() alone, since it asks the descriptor  *)
(* only.                                                                   *)
SecureWhenUsed ==
  \A s \in Object :
    at[s] \in Reading \cup Sending \cup Closing \cup {"offer", "shutagain"} =>
      /\ ssl[s].state \in {"secure", "broken"}
      /\ ssl[s].bio = fd[s] /\ fd[s] # None
      /\ Kernel(s).state \in {"connected", "reset"}

(* Wherever an operation fails, no SSL structure is leaked or freed twice, *)
(* and every open socket is held by one object.                            *)
ResourcesOwned ==
  /\ heap = Cardinality({s \in Object : ssl[s].state # "none"})
  /\ TCP!DescriptorsOwned

(* A sender offers a record only on a connection on which every earlier    *)
(* record was written to its end: the rest of a record that failed is not  *)
(* followed by another one.                                                *)
RecordsWhole == \A s \in Senders : at[s] \in {"idle", "check", "offer"}
                                     => ssl[s].out = 0

(* shutdown() returns true only if its close_notify was written, and, when *)
(* bidirectional, if the peer's was read - unless an earlier unidirectional*)
(* one has told the SSL structure to count it as received.                 *)
ShutdownIsTrue ==
  \A s \in Object :
    /\ verdict[s] \in {"closeduni", "closedbi"}
         => ssl[s].closing /\ ssl[s].out = 0
    /\ verdict[s] = "closedbi" => ssl[s].peer # "open"

(* Every operation returns, if peers do not send for ever: shutdown()      *)
(* discards what they send as long as they send.                           *)
OperationsReturn == \A s \in Object : at[s] # "idle" ~> at[s] = "idle"
=============================================================================
