-------------------------- MODULE SslSocketProofs ---------------------------
(***************************************************************************)
(* What threads rely on when they use _M_ssl, who owns the SSL structures  *)
(* and the descriptors, and what is true when shutdown() returns, for any  *)
(* numbers of objects, descriptors and units.                              *)
(*                                                                         *)
(* None of the properties is inductive.  That an operation finds a secured *)
(* structure rests on what is true between the operations: the sender asks *)
(* for the descriptor only, so whoever holds one outside of connect() must *)
(* also hold a secured structure, and connect() must come out of every     *)
(* failure with neither.  Fine(s) says so of one object.  Every step of an *)
(* object is one of four on the descriptors (NetEffect) and one of three   *)
(* on the structures (SslEffect); none disturbs another object (Frame).    *)
(***************************************************************************)
EXTENDS SslSocket, FiniteSetTheorems, TLAPS

Entry == [state: TCP!States, room: Int, waiting: Int, eof: BOOLEAN, stream: {<<>>}]

Structure == [state: {"none", "handshake", "finishing", "secure", "broken"},
              bio: Descriptor \cup {None}, out: 0..Record,
              closing: BOOLEAN, peer: {"open", "read", "assumed"}]

Verdicts == {"none", "failed", "secured", "sent", "received", "eof",
             "closeduni", "closedbi"}

(* The types, also those of the net::socket. *)
TypeInv ==
  /\ fd \in [Object -> Descriptor \cup {None}]
  /\ kernel \in [Descriptor -> Entry]
  /\ pc \in [Object -> {"idle", "connect", "waitconnect", "check"}]
  /\ result \in [Object -> TCP!Results]
  /\ ssl \in [Object -> Structure]
  /\ units \in 0..MaxUnits
  /\ at \in [Object -> Labels]
  /\ want \in [Object -> {"none", "read", "write"}]
  /\ verdict \in [Object -> Verdicts]

SenderLabels == {"idle", "connect", "client", "check", "offer", "send"}
OtherLabels  == {"idle", "server", "send", "trysend", "recv", "tryrecv",
                 "shutuni", "shutbi", "shutagain", "drain"}

(* The labels at which _M_ssl is used. *)
Using == Reading \cup Sending \cup Closing \cup {"offer", "shutagain"}

(* Inside of net::socket::connect(): there is a descriptor until it fails. *)
TcpFine(s) ==
  /\ at[s] # "connect" => pc[s] = "idle"
  /\ at[s] = "connect" /\ pc[s] # "idle" => fd[s] # None
  /\ at[s] = "connect" /\ pc[s] = "idle" =>
       IF result[s] = "connected"
       THEN fd[s] # None /\ Kernel(s).state \in {"connected", "reset"}
       ELSE fd[s] = None

(* The structure and the descriptor of an object belong together. *)
LinkFine(s) ==
  /\ ssl[s].state # "none" => fd[s] # None /\ ssl[s].bio = fd[s]
  /\ at[s] # "connect" /\ fd[s] # None => Kernel(s).state \in {"connected", "reset"}
  /\ at[s] = "connect" => ssl[s].state = "none"
  /\ at[s] \in {"client", "server"} =>
       fd[s] # None /\ ssl[s].state \in {"none", "handshake", "finishing"}
  /\ at[s] \notin {"client", "server"} =>
       ssl[s].state \notin {"handshake", "finishing"}
  /\ at[s] \in Using => ssl[s].state \in {"secure", "broken"}
  /\ s \in Senders /\ at[s] \notin {"connect", "client"} /\ fd[s] # None =>
       ssl[s].state \in {"secure", "broken"}
  /\ s \in Senders => at[s] \in SenderLabels
  /\ s \in Others => at[s] \in OtherLabels

(* Waiting, records and close_notify. *)
ProtocolFine(s) ==
  /\ want[s] # "none" => at[s] \in Timed
  /\ ssl[s].state = "none" => ssl[s].out = 0
  /\ s \in Senders /\ at[s] \in {"idle", "check", "offer"} => ssl[s].out = 0
  /\ at[s] # "idle" => verdict[s] = "none"
  /\ at[s] \in {"drain", "shutagain"} => ssl[s].closing /\ ssl[s].out = 0
  /\ verdict[s] \in {"closeduni", "closedbi"} => ssl[s].closing /\ ssl[s].out = 0
  /\ verdict[s] = "closedbi" => ssl[s].peer # "open"

Fine(s) == TcpFine(s) /\ LinkFine(s) /\ ProtocolFine(s)

SslInv == TypeInv /\ ResourcesOwned /\ \A s \in Object : Fine(s)

-----------------------------------------------------------------------------
(* What a step of s does to the table of descriptors: nothing, a change of *)
(* its own connection, close(), socket() or accept().                      *)
NetEffect(s) ==
  \/ UNCHANGED <<fd, kernel>>
  \/ /\ fd[s] # None /\ UNCHANGED fd
     /\ \E k \in Entry : /\ k.state \notin TCP!NoSocket
                         /\ kernel' = [kernel EXCEPT ![fd[s]] = k]
  \/ fd[s] # None /\ TCP!Release(s)
  \/ /\ fd[s] = None
     /\ \E d \in TCP!FreeDescriptors, x \in {"new", "connected"} :
          /\ fd' = [fd EXCEPT ![s] = d]
          /\ kernel' = [kernel EXCEPT ![d] = TCP!Opened(x)]

(* What it does to the structures: a change of its own, SSL_new(), or      *)
(* SSL_free().                                                             *)
SslEffect(s) ==
  \/ /\ heap' = heap
     /\ \E x \in Structure : /\ x.state = "none" <=> ssl[s].state = "none"
                             /\ Ssl(s, x)
  \/ ssl[s].state = "none" /\ heap' = heap + 1 /\ Ssl(s, NewSsl(s))
  \/ Free(s)

(* What it does to the places of the threads. *)
OpEffect(s) ==
  /\ \E l \in Labels : at' = [at EXCEPT ![s] = l]
  /\ \E w \in {"none", "read", "write"} : want' = [want EXCEPT ![s] = w]
  /\ \E v \in Verdicts : verdict' = [verdict EXCEPT ![s] = v]

TcpEffect(s) ==
  /\ \E l \in {"idle", "connect", "waitconnect", "check"} : pc' = [pc EXCEPT ![s] = l]
  /\ \E r \in TCP!Results : result' = [result EXCEPT ![s] = r]

(* Descriptors that are not open, or were just opened, have their type. *)
LEMMA Entries ==
  /\ TCP!Closed \in Entry /\ TCP!Closed.state = "free"
  /\ \A x \in TCP!States : TCP!Opened(x) \in Entry /\ TCP!Opened(x).state = x
BY SslSocketAssumption DEF TCP!Closed, TCP!Opened, Entry, TCP!States

(* A number of the table is not -1. *)
LEMMA Numbers == \A d \in Descriptor : d # None
BY SslSocketAssumption DEF None, TCP!None

(* The descriptor of an object is an open socket. *)
LEMMA Holds ==
  ASSUME SslInv, NEW s \in Object, fd[s] # None
  PROVE  /\ fd[s] \in Descriptor /\ kernel[fd[s]] \in Entry
         /\ kernel[fd[s]].state \notin TCP!NoSocket
<1>1. fd[s] \in Descriptor
  BY DEF SslInv, TypeInv
<1> QED BY <1>1 DEF SslInv, TypeInv, ResourcesOwned, TCP!DescriptorsOwned

(* Every socket keeps its one owner, and other objects their connections. *)
LEMMA NetStep ==
  ASSUME SslInv, NEW s \in Object, NetEffect(s)
  PROVE  /\ fd' \in [Object -> Descriptor \cup {None}]
         /\ kernel' \in [Descriptor -> Entry]
         /\ TCP!DescriptorsOwned'
         /\ \A t \in Object \ {s} :
              /\ fd'[t] = fd[t]
              /\ fd[t] # None => kernel'[fd[t]] = kernel[fd[t]]
<1>1. /\ fd \in [Object -> Descriptor \cup {None}]
      /\ kernel \in [Descriptor -> Entry] /\ TCP!DescriptorsOwned
  BY DEF SslInv, TypeInv, ResourcesOwned
<1>2. CASE UNCHANGED <<fd, kernel>>
  BY <1>1, <1>2 DEF TCP!DescriptorsOwned
<1>3. ASSUME fd[s] # None, UNCHANGED fd, NEW k \in Entry, k.state \notin TCP!NoSocket,
             kernel' = [kernel EXCEPT ![fd[s]] = k]
      PROVE  /\ kernel' \in [Descriptor -> Entry] /\ TCP!DescriptorsOwned'
             /\ \A t \in Object \ {s} : fd[t] # None => kernel'[fd[t]] = kernel[fd[t]]
  <2>1. fd[s] \in Descriptor /\ kernel[fd[s]].state \notin TCP!NoSocket
    BY <1>3, Holds
  <2>2. /\ kernel' \in [Descriptor -> Entry]
        /\ \A e \in Descriptor : kernel'[e] = IF e = fd[s] THEN k ELSE kernel[e]
    BY <1>1, <1>3
  <2>3. TCP!DescriptorsOwned'
    BY <1>1, <1>3, <2>1, <2>2 DEF TCP!DescriptorsOwned
  <2>4. \A t \in Object \ {s} : fd[t] # None => fd[t] # fd[s] /\ fd[t] \in Descriptor
    BY <1>1, <1>3 DEF TCP!DescriptorsOwned, None
  <2> QED BY <2>2, <2>3, <2>4
<1>4. CASE fd[s] # None /\ TCP!Release(s)
  <2>1. fd[s] \in Descriptor
    BY <1>4, Holds
  <2>2. /\ fd' \in [Object -> Descriptor \cup {None}]
        /\ \A t \in Object : fd'[t] = IF t = s THEN None ELSE fd[t]
    BY <1>1, <1>4 DEF TCP!Release, None
  <2>3. /\ kernel' \in [Descriptor -> Entry]
        /\ \A e \in Descriptor :
             kernel'[e] = IF e = fd[s] THEN TCP!Closed ELSE kernel[e]
    BY <1>1, <1>4, Entries DEF TCP!Release
  <2>4. \A t \in Object \ {s} : fd[t] # None => fd[t] # fd[s] /\ fd[t] \in Descriptor
    BY <1>1, <1>4 DEF TCP!DescriptorsOwned, None
  <2>5. \A t, u \in Object : fd'[t] = fd'[u] /\ fd'[t] # None => t = u
    BY <1>1, <2>2 DEF TCP!DescriptorsOwned, None
  <2>6. ASSUME NEW e \in Descriptor
        PROVE  kernel'[e].state \notin TCP!NoSocket <=> \E t \in Object : fd'[t] = e
    <3>1. CASE e = fd[s]
      BY <2>2, <2>3, <2>4, <3>1, Entries, Numbers DEF TCP!NoSocket
    <3>2. CASE e # fd[s]
      BY <1>1, <2>2, <2>3, <3>2, Numbers DEF TCP!DescriptorsOwned
    <3> QED BY <3>1, <3>2
  <2>7. TCP!DescriptorsOwned'
    BY <2>5, <2>6 DEF TCP!DescriptorsOwned, None
  <2> QED BY <2>2, <2>3, <2>4, <2>7
<1>5. ASSUME fd[s] = None, NEW d \in TCP!FreeDescriptors, NEW x \in {"new", "connected"},
             fd' = [fd EXCEPT ![s] = d], kernel' = [kernel EXCEPT ![d] = TCP!Opened(x)]
      PROVE  /\ fd' \in [Object -> Descriptor \cup {None}]
             /\ kernel' \in [Descriptor -> Entry] /\ TCP!DescriptorsOwned'
             /\ \A t \in Object \ {s} :
                  /\ fd'[t] = fd[t]
                  /\ fd[t] # None => kernel'[fd[t]] = kernel[fd[t]]
  <2>1. d \in Descriptor /\ kernel[d].state = "free"
    BY DEF TCP!FreeDescriptors
  <2>2. /\ fd' \in [Object -> Descriptor \cup {None}]
        /\ \A t \in Object : fd'[t] = IF t = s THEN d ELSE fd[t]
    BY <1>1, <1>5, <2>1
  <2>3. /\ kernel' \in [Descriptor -> Entry]
        /\ \A e \in Descriptor :
             kernel'[e] = IF e = d THEN TCP!Opened(x) ELSE kernel[e]
    BY <1>1, <1>5, Entries DEF TCP!States
  <2>4. TCP!Opened(x).state \notin TCP!NoSocket
    BY Entries DEF TCP!States, TCP!NoSocket
  <2>5. \A t \in Object : fd[t] # d /\ (fd[t] # None => fd[t] \in Descriptor)
    BY <1>1, <2>1 DEF TCP!DescriptorsOwned, TCP!NoSocket
  <2>6. \A t, u \in Object : fd'[t] = fd'[u] /\ fd'[t] # None => t = u
    BY <1>1, <2>2, <2>5 DEF TCP!DescriptorsOwned, None
  <2>7. ASSUME NEW e \in Descriptor
        PROVE  kernel'[e].state \notin TCP!NoSocket <=> \E t \in Object : fd'[t] = e
    <3>1. CASE e = d
      BY <2>2, <2>3, <2>4, <3>1
    <3>2. CASE e # d
      BY <1>1, <1>5, <2>2, <2>3, <3>2, Numbers DEF TCP!DescriptorsOwned
    <3> QED BY <3>1, <3>2
  <2>8. TCP!DescriptorsOwned'
    BY <2>6, <2>7 DEF TCP!DescriptorsOwned, None
  <2> QED BY <2>2, <2>3, <2>5, <2>8
<1> QED BY <1>1, <1>2, <1>3, <1>4, <1>5 DEF NetEffect

(* The structures that exist are those that objects have. *)
LEMMA HeapStep ==
  ASSUME SslInv, NEW s \in Object, SslEffect(s)
  PROVE  /\ ssl' \in [Object -> Structure]
         /\ heap' = Cardinality({t \in Object : ssl'[t].state # "none"})
         /\ \A t \in Object \ {s} : ssl'[t] = ssl[t]
<1> DEFINE Old == {t \in Object : ssl[t].state # "none"}
           New == {t \in Object : ssl'[t].state # "none"}
<1>1. /\ ssl \in [Object -> Structure] /\ heap = Cardinality(Old)
      /\ fd[s] \in Descriptor \cup {None}
  BY DEF SslInv, TypeInv, ResourcesOwned
<1>2. IsFiniteSet(Old)
  <2>1. IsFiniteSet(Object)
    BY SslSocketAssumption, FS_Union DEF Object
  <2> QED BY <2>1, FS_Subset
<1>3. NoSsl \in Structure /\ NoSsl.state = "none"
  BY SslSocketAssumption DEF NoSsl, Structure
<1>4. NewSsl(s) \in Structure /\ NewSsl(s).state = "handshake"
  <2> DEFINE first == IF s \in Senders THEN 1 ELSE 0
  <2>1. first \in 0..Record
    BY SslSocketAssumption
  <2>2. NewSsl(s) = [NoSsl EXCEPT !.state = "handshake", !.bio = fd[s], !.out = first]
    BY DEF NewSsl
  <2> HIDE DEF first
  <2>3. NewSsl(s) = [state |-> "handshake", bio |-> fd[s], out |-> first,
                     closing |-> FALSE, peer |-> "open"]
    BY <2>2 DEF NoSsl
  <2> QED BY <1>1, <2>1, <2>3 DEF Structure
<1>5. ASSUME NEW x \in Structure, Ssl(s, x)
      PROVE  /\ ssl' \in [Object -> Structure] /\ ssl'[s] = x
             /\ \A t \in Object \ {s} : ssl'[t] = ssl[t]
  BY <1>1, <1>5 DEF Ssl
<1>6. ASSUME heap' = heap, NEW x \in Structure,
             x.state = "none" <=> ssl[s].state = "none", Ssl(s, x)
      PROVE  heap' = Cardinality(New)
  <2>1. New = Old
    BY <1>5, <1>6
  <2> QED BY <1>1, <1>6, <2>1
<1>7. CASE ssl[s].state = "none" /\ heap' = heap + 1 /\ Ssl(s, NewSsl(s))
  <2>1. New = Old \cup {s} /\ s \notin Old
    BY <1>4, <1>5, <1>7
  <2>2. Cardinality(New) = Cardinality(Old) + 1
    BY <1>2, <2>1, FS_AddElement
  <2> QED BY <1>1, <1>4, <1>5, <1>7, <2>2
<1>8. CASE Free(s)
  <2>1. Ssl(s, NoSsl)
    BY <1>8 DEF Free
  <2>2. New = Old \ {s}
    BY <1>3, <1>5, <2>1
  <2>3. Cardinality(New) = IF s \in Old THEN Cardinality(Old) - 1 ELSE Cardinality(Old)
    BY <1>2, <2>2, FS_RemoveElement
  <2> QED BY <1>1, <1>3, <1>5, <1>8, <2>1, <2>3 DEF Free
<1> QED BY <1>5, <1>6, <1>7, <1>8 DEF SslEffect

(* A step of s keeps the invariant if it leaves s as it has to be. *)
LEMMA Frame ==
  ASSUME SslInv, NEW s \in Object, NetEffect(s), SslEffect(s), OpEffect(s),
         TcpEffect(s), units' \in 0..MaxUnits, Fine(s)'
  PROVE  SslInv'
<1>1. /\ fd' \in [Object -> Descriptor \cup {None}]
      /\ kernel' \in [Descriptor -> Entry] /\ TCP!DescriptorsOwned'
      /\ \A t \in Object \ {s} :
           /\ fd'[t] = fd[t]
           /\ fd[t] # None => kernel'[fd[t]] = kernel[fd[t]]
  BY NetStep
<1>2. /\ ssl' \in [Object -> Structure]
      /\ heap' = Cardinality({t \in Object : ssl'[t].state # "none"})
      /\ \A t \in Object \ {s} : ssl'[t] = ssl[t]
  BY HeapStep
<1>3. /\ at' \in [Object -> Labels]
      /\ want' \in [Object -> {"none", "read", "write"}]
      /\ verdict' \in [Object -> Verdicts]
      /\ \A t \in Object \ {s} : /\ at'[t] = at[t] /\ want'[t] = want[t]
                                  /\ verdict'[t] = verdict[t]
  BY DEF OpEffect, SslInv, TypeInv
<1>4. /\ pc' \in [Object -> {"idle", "connect", "waitconnect", "check"}]
      /\ result' \in [Object -> TCP!Results]
      /\ \A t \in Object \ {s} : pc'[t] = pc[t] /\ result'[t] = result[t]
  BY DEF TcpEffect, SslInv, TypeInv
<1>5. ASSUME NEW t \in Object \ {s} PROVE Fine(t)'
  <2>1. Fine(t)
    BY DEF SslInv
  <2>2. TcpFine(t)'
    BY <1>1, <1>3, <1>4, <2>1 DEF Fine, TcpFine, Kernel
  <2>3. LinkFine(t)'
    BY <1>1, <1>2, <1>3, <2>1 DEF Fine, LinkFine, Kernel
  <2>4. ProtocolFine(t)'
    BY <1>2, <1>3, <2>1 DEF Fine, ProtocolFine
  <2> QED BY <2>2, <2>3, <2>4 DEF Fine
<1>6. TypeInv'
  BY <1>1, <1>2, <1>3, <1>4 DEF TypeInv
<1> QED BY <1>1, <1>2, <1>5, <1>6 DEF SslInv, ResourcesOwned

-----------------------------------------------------------------------------
(* Steps of s outside of net::socket::connect() that keep its descriptor.  *)

(* The connection of s at most changes in what it buffers. *)
SameNet(s) ==
  /\ UNCHANGED <<fd, tcpVars, heap, units>>
  /\ \/ UNCHANGED kernel
     \/ /\ fd[s] # None
        /\ \E k \in Entry : /\ k.state = kernel[fd[s]].state
                            /\ kernel' = [kernel EXCEPT ![fd[s]] = k]

(* What has to be true of s at label l with verdict v and structure x. *)
Allowed(s, l, v, x) ==
  /\ l \in IF s \in Senders THEN SenderLabels \ {"connect"} ELSE OtherLabels
  /\ x.state = "none" => x.out = 0
  /\ l \in {"client", "server"} =>
       fd[s] # None /\ x.state \in {"none", "handshake", "finishing"}
  /\ l \notin {"client", "server"} => x.state \notin {"handshake", "finishing"}
  /\ l \in Using => x.state \in {"secure", "broken"}
  /\ s \in Senders /\ l # "client" /\ fd[s] # None => x.state \in {"secure", "broken"}
  /\ s \in Senders /\ l \in {"idle", "check", "offer"} => x.out = 0
  /\ l # "idle" => v = "none"
  /\ l \in {"drain", "shutagain"} => x.closing /\ x.out = 0
  /\ v \in {"closeduni", "closedbi"} => x.closing /\ x.out = 0
  /\ v = "closedbi" => x.peer # "open"

(* Before the step it is so. *)
LEMMA Before ==
  ASSUME SslInv, NEW s \in Object, at[s] # "connect"
  PROVE  /\ Allowed(s, at[s], verdict[s], ssl[s])
         /\ pc[s] = "idle" /\ ssl[s] \in Structure
         /\ ssl[s].state # "none" => fd[s] # None /\ ssl[s].bio = fd[s]
         /\ fd[s] # None => Kernel(s).state \in {"connected", "reset"}
BY DEF SslInv, TypeInv, Fine, TcpFine, LinkFine, ProtocolFine, Allowed, Object

LEMMA LocalStep ==
  ASSUME SslInv, NEW s \in Object, at[s] # "connect", SameNet(s),
         NEW l \in Labels, NEW v \in Verdicts, NEW x \in Structure,
         Ssl(s, x), x.state = "none" <=> ssl[s].state = "none", x.bio = ssl[s].bio,
         at' = [at EXCEPT ![s] = l], verdict' = [verdict EXCEPT ![s] = v],
         NEW w \in {"none", "read", "write"}, want' = [want EXCEPT ![s] = w],
         w # "none" => l \in Timed, Allowed(s, l, v, x)
  PROVE  SslInv'
<1>1. /\ at'[s] = l /\ want'[s] = w /\ verdict'[s] = v
      /\ ssl'[s] = x /\ fd'[s] = fd[s]
      /\ pc'[s] = pc[s] /\ result'[s] = result[s] /\ units' \in 0..MaxUnits
  BY DEF SslInv, TypeInv, Ssl, SameNet, tcpVars
<1>2. fd[s] # None => Kernel(s)'.state = Kernel(s).state
  BY Holds DEF SameNet, Kernel, SslInv, TypeInv
<1>3. NetEffect(s)
  BY Holds DEF SameNet, NetEffect
<1>4. SslEffect(s) /\ OpEffect(s)
  BY DEF SslEffect, OpEffect, SameNet
<1>7. TcpEffect(s)
  <2>1. /\ pc' = [pc EXCEPT ![s] = pc[s]] /\ result' = [result EXCEPT ![s] = result[s]]
        /\ pc[s] \in {"idle", "connect", "waitconnect", "check"}
        /\ result[s] \in TCP!Results
    BY DEF SameNet, tcpVars, SslInv, TypeInv
  <2> QED BY <2>1 DEF TcpEffect
<1>5. l # "connect"
  BY DEF Allowed, SenderLabels, OtherLabels
<1>6. Fine(s)'
  <2>1. TcpFine(s)'
    BY <1>1, <1>5, Before DEF TcpFine
  <2>2. LinkFine(s)'
    BY <1>1, <1>2, <1>5, Before, SslSocketAssumption DEF LinkFine, Allowed, Object
  <2>3. ProtocolFine(s)'
    BY <1>1 DEF ProtocolFine, Allowed
  <2> QED BY <2>1, <2>2, <2>3 DEF Fine
<1> QED BY <1>1, <1>3, <1>4, <1>6, <1>7, Frame

(* A step that changes only the place of s, or returns. *)
LEMMA GotoStep ==
  ASSUME SslInv, NEW s \in Object, at[s] # "connect", SameNet(s), UNCHANGED ssl,
         NEW l \in Labels, Goto(s, l), want[s] = "none",
         Allowed(s, l, verdict[s], ssl[s])
  PROVE  SslInv'
<1>1. /\ verdict' = [verdict EXCEPT ![s] = verdict[s]]
      /\ want' = [want EXCEPT ![s] = want[s]] /\ Ssl(s, ssl[s])
      /\ ssl[s] \in Structure /\ verdict[s] \in Verdicts
      /\ want[s] \in {"none", "read", "write"}
  BY DEF Goto, Ssl, SslInv, TypeInv
<1> QED BY <1>1, LocalStep DEF Goto

LEMMA ReturnStep ==
  ASSUME SslInv, NEW s \in Object, at[s] # "connect", SameNet(s), UNCHANGED ssl,
         NEW r \in Verdicts, Return(s, r), Allowed(s, "idle", r, ssl[s])
  PROVE  SslInv'
<1>1. Ssl(s, ssl[s]) /\ ssl[s] \in Structure /\ "idle" \in Labels
  BY DEF Ssl, SslInv, TypeInv, Labels
<1> QED BY <1>1, LocalStep DEF Return

(* An operation begins. *)
LEMMA CallStep ==
  ASSUME SslInv, NEW s \in Object, SameNet(s),
         NEW l \in Labels, Call(s, l), NEW x \in Structure, Ssl(s, x),
         x.state = "none" <=> ssl[s].state = "none", x.bio = ssl[s].bio,
         Allowed(s, l, "none", x)
  PROVE  SslInv'
<1>1. /\ want' = [want EXCEPT ![s] = "none"]
      /\ at[s] # "connect" /\ "none" \in Verdicts
  <2>1. Fine(s) /\ at[s] = "idle" /\ want' = want
    BY DEF SslInv, Call
  <2>2. want[s] = "none"
    BY <2>1 DEF Fine, ProtocolFine, Timed
  <2> QED BY <2>1, <2>2 DEF SslInv, TypeInv, Verdicts
<1> QED BY <1>1, LocalStep DEF Call

(* A step inside of an operation that changes the structure. *)
LEMMA SslStep ==
  ASSUME SslInv, NEW s \in Object, at[s] # "connect", SameNet(s), UNCHANGED opVars,
         NEW x \in Structure, Ssl(s, x),
         x.state = "none" <=> ssl[s].state = "none", x.bio = ssl[s].bio,
         Allowed(s, at[s], verdict[s], x)
  PROVE  SslInv'
<1>1. /\ verdict' = [verdict EXCEPT ![s] = verdict[s]]
      /\ want' = [want EXCEPT ![s] = want[s]] /\ at' = [at EXCEPT ![s] = at[s]]
      /\ verdict[s] \in Verdicts /\ at[s] \in Labels
      /\ want[s] \in {"none", "read", "write"}
      /\ want[s] # "none" => at[s] \in Timed
  BY DEF opVars, SslInv, TypeInv, Fine, ProtocolFine
<1> QED BY <1>1, LocalStep

(* Reading and writing a unit. *)
LEMMA Buffering ==
  ASSUME SslInv, NEW s \in Object, fd[s] # None, NEW n \in Int,
         \/ kernel' = [kernel EXCEPT ![fd[s]].waiting = n]
         \/ kernel' = [kernel EXCEPT ![fd[s]].room = n],
         UNCHANGED <<fd, tcpVars, heap, units>>
  PROVE  SameNet(s)
<1>1. fd[s] \in Descriptor /\ kernel[fd[s]] \in Entry
  BY Holds
<1>2. CASE kernel' = [kernel EXCEPT ![fd[s]].waiting = n]
  <2> DEFINE k == [kernel[fd[s]] EXCEPT !.waiting = n]
  <2>1. k \in Entry /\ k.state = kernel[fd[s]].state
    BY <1>1 DEF Entry
  <2>2. kernel' = [kernel EXCEPT ![fd[s]] = k]
    BY <1>2
  <2> HIDE DEF k
  <2> QED BY <2>1, <2>2 DEF SameNet
<1>3. CASE kernel' = [kernel EXCEPT ![fd[s]].room = n]
  <2> DEFINE k == [kernel[fd[s]] EXCEPT !.room = n]
  <2>1. k \in Entry /\ k.state = kernel[fd[s]].state
    BY <1>1 DEF Entry
  <2>2. kernel' = [kernel EXCEPT ![fd[s]] = k]
    BY <1>3
  <2> HIDE DEF k
  <2> QED BY <2>1, <2>2 DEF SameNet
<1> QED BY <1>2, <1>3

LEMMA GetStep ==
  ASSUME SslInv, NEW s \in Object, fd[s] # None, Get(s), UNCHANGED heap
  PROVE  SameNet(s)
<1>1. kernel[fd[s]].waiting - 1 \in Int
  BY Holds DEF Entry
<1> QED BY <1>1, Buffering DEF Get

(* A field of a structure changes in its range. *)
Differs(y, x, state, out, closing, peer) ==
  /\ y \in Structure /\ y.bio = x.bio
  /\ y.state = state /\ y.out = out /\ y.closing = closing /\ y.peer = peer

LEMMA StateUpdate ==
  ASSUME NEW x \in Structure, NEW st \in {"none", "handshake", "finishing", "secure", "broken"}
  PROVE  Differs([x EXCEPT !.state = st], x, st, x.out, x.closing, x.peer)
BY DEF Structure, Differs

LEMMA StateOutUpdate ==
  ASSUME NEW x \in Structure, NEW n \in 0..Record,
         NEW st \in {"none", "handshake", "finishing", "secure", "broken"}
  PROVE  Differs([x EXCEPT !.state = st, !.out = n], x, st, n, x.closing, x.peer)
BY DEF Structure, Differs

LEMMA OutUpdate ==
  ASSUME NEW x \in Structure, NEW n \in 0..Record
  PROVE  Differs([x EXCEPT !.out = n], x, x.state, n, x.closing, x.peer)
BY DEF Structure, Differs

LEMMA PeerUpdate ==
  ASSUME NEW x \in Structure, NEW p \in {"open", "read", "assumed"}
  PROVE  Differs([x EXCEPT !.peer = p], x, x.state, x.out, x.closing, p)
BY DEF Structure, Differs

LEMMA NotifyUpdate ==
  ASSUME NEW x \in Structure, NEW n \in 0..Record
  PROVE  Differs([x EXCEPT !.closing = TRUE, !.out = n], x, x.state, n, TRUE, x.peer)
BY DEF Structure, Differs

-----------------------------------------------------------------------------
(* Steps that free the structure: close(), and failures.                   *)

(* UNCHANGED tcpVars is one of the effects on the net::socket. *)
LEMMA SameTcp ==
  ASSUME SslInv, NEW s \in Object, UNCHANGED tcpVars
  PROVE  TcpEffect(s) /\ pc'[s] = pc[s] /\ result'[s] = result[s]
<1>1. /\ pc' = [pc EXCEPT ![s] = pc[s]] /\ result' = [result EXCEPT ![s] = result[s]]
      /\ pc[s] \in {"idle", "connect", "waitconnect", "check"}
      /\ result[s] \in TCP!Results
  BY DEF tcpVars, SslInv, TypeInv
<1> QED BY <1>1 DEF TcpEffect, tcpVars

(* The structure goes and the operation ends; a sender does not keep the   *)
(* descriptor.                                                             *)
LEMMA DropStep ==
  ASSUME SslInv, NEW s \in Object, at[s] # "connect", Free(s),
         NEW r \in {"none", "failed"}, Return(s, r), UNCHANGED <<tcpVars, units>>,
         \/ fd[s] # None /\ TCP!Release(s)
         \/ UNCHANGED <<fd, kernel>> /\ (s \in Others \/ fd[s] = None)
  PROVE  SslInv'
<1>1. /\ at'[s] = "idle" /\ want'[s] = "none" /\ verdict'[s] = r /\ ssl'[s] = NoSsl
      /\ units' \in 0..MaxUnits
  BY DEF SslInv, TypeInv, Free, Ssl, Return
<1>2. TcpEffect(s) /\ pc'[s] = pc[s] /\ result'[s] = result[s]
  BY SameTcp
<1>3. NetEffect(s)
  BY DEF NetEffect
<1>4. SslEffect(s) /\ OpEffect(s)
  BY DEF SslEffect, OpEffect, Return, Labels, Verdicts
<1>5. /\ fd'[s] = None \/ (s \in Others /\ fd'[s] = fd[s] /\ kernel' = kernel)
      /\ fd'[s] # None => fd[s] # None
  BY DEF TCP!Release, None, SslInv, TypeInv
<1>6. Fine(s)'
  <2>1. TcpFine(s)'
    BY <1>1, <1>2, Before DEF TcpFine
  <2>2. LinkFine(s)'
    BY <1>1, <1>5, Before, SslSocketAssumption
    DEF LinkFine, Kernel, NoSsl, Using, Reading, Sending, Closing,
        SenderLabels, OtherLabels
  <2>3. ProtocolFine(s)'
    BY <1>1 DEF ProtocolFine, NoSsl
  <2> QED BY <2>1, <2>2, <2>3 DEF Fine
<1> QED BY <1>1, <1>2, <1>3, <1>4, <1>6, Frame

LEMMA HandshakeFailsStep ==
  ASSUME SslInv, NEW s \in Object, at[s] \in {"client", "server"}, HandshakeFails(s)
  PROVE  SslInv'
<1>1. fd[s] # None /\ (at[s] # "client" => s \in Others)
  BY Before DEF Allowed, SenderLabels, Object
<1> QED BY <1>1, DropStep DEF HandshakeFails

LEMMA ShutStep ==
  ASSUME SslInv, NEW s \in Object, at[s] # "connect", Shut(s),
         NEW r \in {"none", "failed"}, Return(s, r), UNCHANGED <<tcpVars, units>>
  PROVE  SslInv'
BY DropStep DEF Shut

LEMMA CloseStep ==
  ASSUME SslInv, NEW s \in Object, Close(s)
  PROVE  SslInv'
BY ShutStep DEF Close

(* The operation of s ends, and everything else stays. *)
LEMMA FailedStep ==
  ASSUME SslInv, NEW s \in Others, at[s] \notin {"connect", "server"},
         NEW r \in Verdicts \ {"closeduni", "closedbi"}, Return(s, r),
         UNCHANGED <<fd, kernel, tcpVars, ssl, heap, units>>
  PROVE  SslInv'
<1>1. s \in Object /\ s \notin Senders
  BY SslSocketAssumption DEF Object
<1>2. Allowed(s, "idle", r, ssl[s])
  BY <1>1, Before DEF Allowed, OtherLabels, Using, Reading, Sending, Closing
<1>3. SameNet(s)
  BY DEF SameNet
<1> QED BY <1>1, <1>2, <1>3, ReturnStep

LEMMA SendFailsStep ==
  ASSUME SslInv, NEW s \in Object, at[s] \in Sending \cup {"check"}, SendFails(s)
  PROVE  SslInv'
<1>1. CASE s \in Senders
  BY <1>1, ShutStep DEF SendFails, Sending
<1>2. CASE s \notin Senders
  BY <1>2, FailedStep DEF SendFails, Object, Sending, Verdicts
<1> QED BY <1>1, <1>2

(* recv() has returned: the sender goes on to send. *)
LEMMA ReceivedStep ==
  ASSUME SslInv, NEW s \in Object, SameNet(s), UNCHANGED ssl,
         at[s] \notin {"connect", "client", "server", "idle"} \cup Sending,
         at[s] # "offer", NEW r \in {"failed", "received"}, Received(s, r)
  PROVE  SslInv'
<1>1. Allowed(s, at[s], verdict[s], ssl[s])
  BY Before
<1>2. CASE at[s] = "check"
  <2>1. Allowed(s, "offer", verdict[s], ssl[s])
    BY <1>1, <1>2, SslSocketAssumption
    DEF Allowed, SenderLabels, OtherLabels, Using, Reading, Object
  <2>2. want[s] = "none"
    BY <1>2 DEF SslInv, Fine, ProtocolFine, Timed
  <2> QED BY <1>2, <2>1, <2>2, GotoStep DEF Received, Labels
<1>3. CASE at[s] # "check"
  <2>1. s \notin Senders
    BY <1>1, <1>3 DEF Allowed, SenderLabels, Sending
  <2>2. Allowed(s, "idle", r, ssl[s])
    BY <1>1, <2>1 DEF Allowed, OtherLabels, Using, Reading, Sending, Closing
  <2> QED BY <1>3, <2>2, ReturnStep DEF Received, Verdicts
<1> QED BY <1>2, <1>3

(* The operation gives up, or waits. *)
LEMMA GivesUpStep ==
  ASSUME SslInv, NEW s \in Object, at[s] \notin {"connect", "idle", "offer"}, GivesUp(s)
  PROVE  SslInv'
<1>1. CASE at[s] \in {"client", "server"} /\ HandshakeFails(s)
  BY <1>1, HandshakeFailsStep
<1>2. CASE at[s] \in Sending /\ SendFails(s)
  BY <1>2, SendFailsStep
<1>3. CASE /\ at[s] \notin {"client", "server"} \cup Sending
           /\ Received(s, "failed")
           /\ UNCHANGED <<fd, kernel, tcpVars, ssl, heap, units>>
  BY <1>3, ReceivedStep DEF SameNet
<1> QED BY <1>1, <1>2, <1>3 DEF GivesUp

LEMMA WantStep ==
  ASSUME SslInv, NEW s \in Object, NEW w \in {"none", "read", "write"},
         at[s] \in Timed, want' = [want EXCEPT ![s] = w],
         UNCHANGED <<fd, kernel, tcpVars, ssl, heap, at, verdict, units>>
  PROVE  SslInv'
<1>1. /\ Ssl(s, ssl[s]) /\ at' = [at EXCEPT ![s] = at[s]]
      /\ verdict' = [verdict EXCEPT ![s] = verdict[s]]
      /\ at[s] \in Labels /\ verdict[s] \in Verdicts /\ ssl[s] \in Structure
  BY DEF Ssl, SslInv, TypeInv
<1>2. at[s] # "connect" /\ SameNet(s)
  BY DEF Timed, SameNet
<1> QED BY <1>1, <1>2, Before, LocalStep

LEMMA WantsStep ==
  ASSUME SslInv, NEW s \in Object, at[s] \notin {"connect", "idle", "offer"},
         NEW direction \in {"read", "write"}, Wants(s, direction)
  PROVE  SslInv'
BY WantStep, GivesUpStep DEF Wants

LEMMA BlocksStep ==
  ASSUME SslInv, NEW s \in Object, Blocks(s)
  PROVE  SslInv'
<1>1. at[s] \notin {"connect", "idle", "offer"}
  BY DEF Blocks, Writing, Handshaking, Reading, Sending, Closing
<1> QED BY <1>1, WantsStep DEF Blocks

LEMMA WaitStep ==
  ASSUME SslInv, NEW s \in Object, Wait(s)
  PROVE  SslInv'
<1>1. at[s] \in Timed
  BY DEF Wait, SslInv, Fine, ProtocolFine
<1>2. at[s] \notin {"connect", "idle", "offer"}
  BY <1>1 DEF Timed
<1> QED BY <1>1, <1>2, WantStep, GivesUpStep DEF Wait

-----------------------------------------------------------------------------
(* The handshake.                                                          *)

LEMMA PrepareStep ==
  ASSUME SslInv, NEW s \in Object, Prepare(s)
  PROVE  SslInv'
<1>1. at[s] \in {"client", "server"} /\ ssl[s].state = "none"
  BY DEF Prepare, Handshaking
<1>2. CASE HandshakeFails(s)
  BY <1>1, <1>2, HandshakeFailsStep
<1>3. CASE /\ Ssl(s, NewSsl(s)) /\ heap' = heap + 1
           /\ UNCHANGED <<fd, kernel, tcpVars, opVars, units>>
  <2>1. /\ ssl'[s] = NewSsl(s) /\ at'[s] = at[s] /\ want'[s] = want[s]
        /\ verdict'[s] = verdict[s] /\ fd' = fd /\ kernel' = kernel
        /\ units' \in 0..MaxUnits
    BY <1>3 DEF Ssl, SslInv, TypeInv, opVars
  <2>2. NewSsl(s).state = "handshake" /\ NewSsl(s).bio = fd[s]
    BY DEF NewSsl, NoSsl
  <2>3. NetEffect(s) /\ SslEffect(s)
    BY <1>1, <1>3 DEF NetEffect, SslEffect
  <2>4. OpEffect(s)
    <3>1. /\ at' = [at EXCEPT ![s] = at[s]] /\ want' = [want EXCEPT ![s] = want[s]]
          /\ verdict' = [verdict EXCEPT ![s] = verdict[s]] /\ at[s] \in Labels
          /\ want[s] \in {"none", "read", "write"} /\ verdict[s] \in Verdicts
      BY <1>3 DEF opVars, SslInv, TypeInv
    <3> QED BY <3>1 DEF OpEffect
  <2>5. TcpEffect(s) /\ pc'[s] = pc[s] /\ result'[s] = result[s]
    BY <1>3, SameTcp
  <2>6. Fine(s)
    BY DEF SslInv
  <2>7. TcpFine(s)'
    BY <1>1, <2>1, <2>5, <2>6 DEF Fine, TcpFine
  <2>8. LinkFine(s)'
    BY <1>1, <2>1, <2>2, <2>6
    DEF Fine, LinkFine, Kernel, Using, Reading, Sending, Closing
  <2>9. ProtocolFine(s)'
    BY <1>1, <2>1, <2>2, <2>6 DEF Fine, ProtocolFine
  <2> QED BY <2>1, <2>3, <2>4, <2>5, <2>7, <2>8, <2>9, Frame DEF Fine
<1> QED BY <1>2, <1>3 DEF Prepare

LEMMA HandshakeReadsStep ==
  ASSUME SslInv, NEW s \in Object, HandshakeReads(s)
  PROVE  SslInv'
<1>1. /\ at[s] \in {"client", "server"} /\ at[s] # "connect"
      /\ ssl[s].state = "handshake" /\ ssl[s].out = 0
  BY DEF HandshakeReads, Handshaking
<1>2. /\ Allowed(s, at[s], verdict[s], ssl[s]) /\ ssl[s] \in Structure
      /\ fd[s] # None
  BY <1>1, Before
<1>3. CASE /\ Get(s) /\ Ssl(s, [ssl[s] EXCEPT !.state = "secure"])
           /\ Return(s, "secured") /\ UNCHANGED heap
  <2> DEFINE x == [ssl[s] EXCEPT !.state = "secure"]
  <2>1. /\ x \in Structure /\ x.state = "secure" /\ x.bio = ssl[s].bio
        /\ x.out = 0 /\ Ssl(s, x)
    BY <1>1, <1>2, <1>3, StateUpdate DEF Differs
  <2> HIDE DEF x
  <2>2. Allowed(s, "idle", "secured", x)
    BY <1>1, <1>2, <2>1
    DEF Allowed, SenderLabels, OtherLabels, Using, Reading, Sending, Closing
  <2>3. SameNet(s)
    BY <1>2, <1>3, GetStep
  <2> QED BY <1>1, <1>3, <2>1, <2>2, <2>3, LocalStep DEF Return, Labels, Verdicts
<1>4. ASSUME Get(s), NEW answer \in {0, 1}, Ssl(s, [ssl[s] EXCEPT !.out = answer]),
             UNCHANGED <<heap, opVars>>
      PROVE  SslInv'
  <2> DEFINE x == [ssl[s] EXCEPT !.out = answer]
  <2>1. answer \in 0..Record
    BY SslSocketAssumption
  <2>2. /\ x \in Structure /\ x.state = "handshake" /\ x.bio = ssl[s].bio
        /\ x.closing = ssl[s].closing /\ x.peer = ssl[s].peer /\ Ssl(s, x)
    BY <1>1, <1>2, <1>4, <2>1, OutUpdate DEF Differs
  <2> HIDE DEF x
  <2>3. Allowed(s, at[s], verdict[s], x)
    BY <1>1, <1>2, <2>2 DEF Allowed, Using, Reading, Sending, Closing
  <2>4. SameNet(s)
    BY <1>2, <1>4, GetStep
  <2> QED BY <1>1, <1>4, <2>2, <2>3, <2>4, SslStep
<1>5. CASE /\ Get(s) /\ Ssl(s, [ssl[s] EXCEPT !.state = "finishing", !.out = 1])
           /\ UNCHANGED <<heap, opVars>>
  <2> DEFINE x == [ssl[s] EXCEPT !.state = "finishing", !.out = 1]
  <2>1. 1 \in 0..Record
    BY SslSocketAssumption
  <2>2. /\ x \in Structure /\ x.state = "finishing" /\ x.bio = ssl[s].bio
        /\ x.closing = ssl[s].closing /\ x.peer = ssl[s].peer /\ Ssl(s, x)
    <3>1. Differs(x, ssl[s], "finishing", 1, ssl[s].closing, ssl[s].peer)
      BY <1>2, <2>1, StateOutUpdate
    <3>2. Ssl(s, x)
      BY <1>5
    <3> HIDE DEF x
    <3> QED BY <3>1, <3>2 DEF Differs
  <2> HIDE DEF x
  <2>3. Allowed(s, at[s], verdict[s], x)
    BY <1>1, <1>2, <2>2 DEF Allowed, Using, Reading, Sending, Closing
  <2>4. SameNet(s)
    BY <1>2, <1>5, GetStep
  <2> QED BY <1>1, <1>5, <2>2, <2>3, <2>4, SslStep
<1>6. CASE HandshakeFails(s)
  BY <1>1, <1>6, HandshakeFailsStep
<1> QED BY <1>3, <1>4, <1>5, <1>6 DEF HandshakeReads

LEMMA HandshakeWritesStep ==
  ASSUME SslInv, NEW s \in Object, HandshakeWrites(s)
  PROVE  SslInv'
<1>1. /\ at[s] \in {"client", "server"} /\ at[s] # "connect"
      /\ ssl[s].state = "finishing"
  BY DEF HandshakeWrites, Handshaking
<1>2. /\ Allowed(s, at[s], verdict[s], ssl[s]) /\ ssl[s] \in Structure
      /\ fd[s] # None
  BY <1>1, Before
<1> DEFINE x == [ssl[s] EXCEPT !.state = "secure", !.out = 0]
<1>3. 0 \in 0..Record
  BY SslSocketAssumption
<1>4. /\ x \in Structure /\ x.state = "secure" /\ x.bio = ssl[s].bio
      /\ x.out = 0 /\ Ssl(s, x)
  BY <1>2, <1>3, StateOutUpdate DEF Differs, HandshakeWrites
<1> HIDE DEF x
<1>5. Allowed(s, "idle", "secured", x)
  BY <1>1, <1>2, <1>4
  DEF Allowed, SenderLabels, OtherLabels, Using, Reading, Sending, Closing
<1>6. SameNet(s)
  <2>1. kernel[fd[s]].room - 1 \in Int
    BY <1>2, Holds DEF Entry
  <2> QED BY <1>2, <2>1, Buffering DEF HandshakeWrites
<1> QED BY <1>1, <1>4, <1>5, <1>6, LocalStep
        DEF HandshakeWrites, Return, Labels, Verdicts

LEMMA HandshakeBreaksStep ==
  ASSUME SslInv, NEW s \in Object, HandshakeBreaks(s)
  PROVE  SslInv'
BY HandshakeFailsStep DEF HandshakeBreaks, Handshaking

-----------------------------------------------------------------------------
(* Writing, send() and recv().                                             *)

(* Where _M_ssl is used, it is secured. *)
LEMMA InUse ==
  ASSUME SslInv, NEW s \in Object, at[s] \in Using
  PROVE  /\ at[s] # "connect" /\ fd[s] # None /\ ssl[s] \in Structure
         /\ ssl[s].state \in {"secure", "broken"} /\ verdict[s] = "none"
         /\ Allowed(s, at[s], "none", ssl[s])
<1>1. at[s] \notin {"connect", "idle"}
  BY DEF Using, Reading, Sending, Closing
<1>2. Allowed(s, at[s], verdict[s], ssl[s]) /\ ssl[s] \in Structure
      /\ (ssl[s].state # "none" => fd[s] # None)
  BY <1>1, Before
<1> QED BY <1>1, <1>2 DEF Allowed

(* An operation of an accepted connection may begin. *)
LEMMA Secured ==
  ASSUME SslInv, NEW s \in Object, at[s] = "idle", HasSsl(s)
  PROVE  /\ s \notin Senders /\ ssl[s] \in Structure
         /\ ssl[s].state \in {"secure", "broken"}
BY SslSocketAssumption DEF HasSsl, SslInv, TypeInv

LEMMA PutStep ==
  ASSUME SslInv, NEW s \in Object, Put(s)
  PROVE  SslInv'
<1>1. /\ at[s] \in {"client", "server"} \cup Sending \cup Closing
      /\ at[s] \notin {"connect", "idle"} /\ ssl[s].out > 0
  BY DEF Put, Writing, Sending, Closing
<1>2. /\ Allowed(s, at[s], verdict[s], ssl[s]) /\ ssl[s] \in Structure
      /\ (ssl[s].state # "none" => fd[s] # None)
  BY <1>1, Before
<1>3. ssl[s].state # "none" /\ ssl[s].out \in 0..Record /\ ssl[s].out - 1 \in 0..Record
  BY <1>1, <1>2, SslSocketAssumption DEF Allowed, Structure
<1> DEFINE x == [ssl[s] EXCEPT !.out = ssl[s].out - 1]
<1>4. /\ Differs(x, ssl[s], ssl[s].state, ssl[s].out - 1, ssl[s].closing, ssl[s].peer)
      /\ Ssl(s, x)
  BY <1>2, <1>3, OutUpdate DEF Put, Ssl
<1> HIDE DEF x
<1>5. Allowed(s, at[s], verdict[s], x)
  BY <1>1, <1>2, <1>4 DEF Allowed, Differs, Sending, Closing
<1>6. SameNet(s)
  <2>1. kernel[fd[s]].room - 1 \in Int
    BY <1>2, <1>3, Holds DEF Entry
  <2> QED BY <1>2, <1>3, <2>1, Buffering DEF Put
<1> QED BY <1>1, <1>4, <1>5, <1>6, SslStep DEF Put, Differs

(* What send() offers. *)
LEMMA Offers ==
  ASSUME SslInv, NEW s \in Object, ssl[s].state \in {"secure", "broken"}, Offer(s)
  PROVE  \E n \in 0..Record :
           \E x \in Structure :
             /\ Ssl(s, x)
             /\ Differs(x, ssl[s], ssl[s].state, n, ssl[s].closing, ssl[s].peer)
<1>1. ssl[s] \in Structure /\ ssl[s].out \in 0..Record
  BY DEF SslInv, TypeInv, Structure
<1>2. CASE ssl[s].out = 0 /\ ~ssl[s].closing
  <2> DEFINE x == [ssl[s] EXCEPT !.out = Record]
  <2>1. Record \in 0..Record
    BY SslSocketAssumption
  <2>2. Differs(x, ssl[s], ssl[s].state, Record, ssl[s].closing, ssl[s].peer)
    BY <1>1, <2>1, OutUpdate
  <2>3. Ssl(s, x)
    BY <1>2 DEF Offer
  <2> HIDE DEF x
  <2> QED BY <2>1, <2>2, <2>3 DEF Differs
<1>3. CASE ~(ssl[s].out = 0 /\ ~ssl[s].closing)
  <2>1. Ssl(s, ssl[s])
    BY <1>3 DEF Offer, Ssl, SslInv, TypeInv
  <2>2. Differs(ssl[s], ssl[s], ssl[s].state, ssl[s].out, ssl[s].closing, ssl[s].peer)
    BY <1>1 DEF Differs
  <2> QED BY <1>1, <2>1, <2>2
<1> QED BY <1>2, <1>3

LEMMA StartSendStep ==
  ASSUME SslInv, NEW s \in Object, StartSend(s)
  PROVE  SslInv'
<1>1. PICK l \in Sending : Call(s, l)
  BY DEF StartSend
<1>2. at[s] = "idle" /\ l \in Labels /\ SameNet(s)
  BY <1>1 DEF Call, Sending, Labels, StartSend, SameNet
<1>3. s \notin Senders /\ ssl[s].state \in {"secure", "broken"}
  BY <1>2, Secured DEF StartSend
<1>4. PICK n \in 0..Record, x \in Structure :
         /\ Ssl(s, x)
         /\ Differs(x, ssl[s], ssl[s].state, n, ssl[s].closing, ssl[s].peer)
  BY <1>3, Offers DEF StartSend
<1>5. Allowed(s, l, "none", x)
  BY <1>3, <1>4 DEF Allowed, Differs, OtherLabels, Sending
<1> QED BY <1>1, <1>2, <1>3, <1>4, <1>5, CallStep DEF Differs

LEMMA SenderSendsStep ==
  ASSUME SslInv, NEW s \in Object, SenderSends(s)
  PROVE  SslInv'
<1>1. at[s] = "offer" /\ at[s] \in Using /\ SameNet(s) /\ Goto(s, "send")
  BY DEF SenderSends, Using, SameNet
<1>2. /\ at[s] # "connect" /\ fd[s] # None /\ ssl[s].state \in {"secure", "broken"}
      /\ verdict[s] = "none" /\ Allowed(s, at[s], "none", ssl[s])
  BY <1>1, InUse
<1>3. PICK n \in 0..Record, x \in Structure :
         /\ Ssl(s, x)
         /\ Differs(x, ssl[s], ssl[s].state, n, ssl[s].closing, ssl[s].peer)
  BY <1>2, Offers DEF SenderSends
<1>4. Allowed(s, "send", "none", x)
  BY <1>1, <1>2, <1>3 DEF Allowed, Differs, SenderLabels, OtherLabels
<1>5. /\ at' = [at EXCEPT ![s] = "send"] /\ "send" \in Labels /\ "send" \in Timed
      /\ verdict' = [verdict EXCEPT ![s] = "none"] /\ "none" \in Verdicts
      /\ want' = [want EXCEPT ![s] = want[s]] /\ want[s] \in {"none", "read", "write"}
  BY <1>1, <1>2 DEF Goto, Labels, Timed, Verdicts, SslInv, TypeInv
<1> QED BY <1>1, <1>2, <1>3, <1>4, <1>5, LocalStep DEF Differs

LEMMA SendReturnsStep ==
  ASSUME SslInv, NEW s \in Object, SendReturns(s)
  PROVE  SslInv'
<1>1. at[s] \in Using /\ SameNet(s) /\ "sent" \in Verdicts
  BY DEF SendReturns, Using, SameNet, Verdicts
<1>2. at[s] # "connect" /\ Allowed(s, at[s], "none", ssl[s])
  BY <1>1, InUse
<1>3. Allowed(s, "idle", "sent", ssl[s])
  BY <1>1, <1>2
  DEF SendReturns, Allowed, Using, Reading, Sending, Closing, SenderLabels, OtherLabels
<1> QED BY <1>1, <1>2, <1>3, ReturnStep DEF SendReturns

(* Calls that do not change the structure. *)
LEMMA PlainCallStep ==
  ASSUME SslInv, NEW s \in Object, NEW l \in Labels, Call(s, l),
         UNCHANGED <<fd, kernel, tcpVars, ssl, heap, units>>,
         Allowed(s, l, "none", ssl[s])
  PROVE  SslInv'
<1>1. Ssl(s, ssl[s]) /\ ssl[s] \in Structure /\ SameNet(s)
  BY DEF Ssl, SslInv, TypeInv, SameNet
<1> QED BY <1>1, CallStep

LEMMA StartSenderSendStep ==
  ASSUME SslInv, NEW s \in Object, StartSenderSend(s)
  PROVE  SslInv'
<1>1. at[s] = "idle" /\ Allowed(s, at[s], verdict[s], ssl[s]) /\ "check" \in Labels
  BY Before DEF StartSenderSend, Call, Labels
<1>2. Allowed(s, "check", "none", ssl[s])
  BY <1>1 DEF Allowed, StartSenderSend, SenderLabels
<1> QED BY <1>1, <1>2, PlainCallStep DEF StartSenderSend

LEMMA StartReceiveStep ==
  ASSUME SslInv, NEW s \in Object, StartReceive(s)
  PROVE  SslInv'
<1>1. PICK l \in {"recv", "tryrecv"} : Call(s, l)
  BY DEF StartReceive
<1>2. at[s] = "idle" /\ l \in Labels
  BY <1>1 DEF Call, Labels
<1>3. s \notin Senders /\ ssl[s].state \in {"secure", "broken"}
  BY <1>2, Secured DEF StartReceive
<1>4. Allowed(s, l, "none", ssl[s])
  BY <1>2, <1>3, Before DEF Allowed, OtherLabels
<1> QED BY <1>1, <1>2, <1>4, PlainCallStep DEF StartReceive

LEMMA StartHandshakeStep ==
  ASSUME SslInv, NEW s \in Object, StartHandshake(s)
  PROVE  SslInv'
<1>1. at[s] = "idle" /\ Allowed(s, at[s], verdict[s], ssl[s]) /\ "server" \in Labels
  BY Before DEF StartHandshake, Call, Labels
<1>2. Allowed(s, "server", "none", ssl[s])
  BY <1>1, SslSocketAssumption
  DEF Allowed, StartHandshake, OtherLabels, Using, Reading, Sending, Closing
<1> QED BY <1>1, <1>2, PlainCallStep DEF StartHandshake

LEMMA ReadsUnitStep ==
  ASSUME SslInv, NEW s \in Object, ReadsUnit(s)
  PROVE  SslInv'
<1>1. at[s] \in Reading /\ at[s] \in Using /\ Get(s) /\ UNCHANGED heap
  BY DEF ReadsUnit, Using
<1>2. /\ at[s] # "connect" /\ fd[s] # None /\ ssl[s] \in Structure
      /\ ssl[s].state \in {"secure", "broken"} /\ verdict[s] = "none"
      /\ Allowed(s, at[s], "none", ssl[s])
  BY <1>1, InUse
<1>3. SameNet(s)
  BY <1>1, <1>2, GetStep
<1>4. CASE UNCHANGED <<ssl, opVars>>
  <2>1. Ssl(s, ssl[s])
    BY <1>4 DEF Ssl, SslInv, TypeInv
  <2> QED BY <1>2, <1>3, <1>4, <2>1, SslStep
<1>5. CASE UNCHANGED ssl /\ Received(s, "received")
  BY <1>1, <1>3, <1>5, ReceivedStep DEF Reading, Sending
<1>6. CASE Ssl(s, [ssl[s] EXCEPT !.peer = "read"]) /\ UNCHANGED opVars
  <2> DEFINE x == [ssl[s] EXCEPT !.peer = "read"]
  <2>1. /\ Differs(x, ssl[s], ssl[s].state, ssl[s].out, ssl[s].closing, "read")
        /\ Ssl(s, x)
    BY <1>2, <1>6, PeerUpdate
  <2> HIDE DEF x
  <2>2. Allowed(s, at[s], verdict[s], x)
    BY <1>1, <1>2, <2>1 DEF Allowed, Differs, Reading
  <2> QED BY <1>2, <1>3, <1>6, <2>1, <2>2, SslStep DEF Differs
<1> QED BY <1>4, <1>5, <1>6 DEF ReadsUnit

LEMMA ReadsEndStep ==
  ASSUME SslInv, NEW s \in Object, ReadsEnd(s)
  PROVE  SslInv'
<1>1. at[s] \in Reading /\ at[s] \in Using /\ ssl[s].peer = "read"
  BY DEF ReadsEnd, Using
<1>2. at[s] # "connect" /\ Allowed(s, at[s], "none", ssl[s])
  BY <1>1, InUse
<1>3. CASE at[s] = "check" /\ SendFails(s)
  BY <1>3, SendFailsStep
<1>4. CASE /\ at[s] # "check"
           /\ Return(s, IF at[s] = "drain" THEN "closedbi" ELSE "eof")
           /\ UNCHANGED <<fd, kernel, tcpVars, ssl, heap, units>>
  <2>1. PICK r \in {"closedbi", "eof"} : /\ Return(s, r)
                                         /\ r = "closedbi" => at[s] = "drain"
    BY <1>4
  <2>2. s \notin Senders
    BY <1>1, <1>2, <1>4 DEF Allowed, SenderLabels, Reading
  <2>3. Allowed(s, "idle", r, ssl[s])
    BY <1>1, <1>2, <2>1, <2>2
    DEF Allowed, OtherLabels, Using, Reading, Sending, Closing
  <2>4. SameNet(s) /\ r \in Verdicts
    BY <1>4 DEF SameNet, Verdicts
  <2> QED BY <1>2, <1>4, <2>1, <2>3, <2>4, ReturnStep
<1> QED BY <1>3, <1>4 DEF ReadsEnd, EndOfStream

-----------------------------------------------------------------------------
(* shutdown(), and calls that fail.                                        *)

LEMMA StartShutdownStep ==
  ASSUME SslInv, NEW s \in Object, StartShutdown(s)
  PROVE  SslInv'
<1>1. at[s] = "idle" /\ SameNet(s)
  BY DEF StartShutdown, Call, SameNet
<1>2. s \notin Senders /\ ssl[s] \in Structure /\ ssl[s].state \in {"secure", "broken"}
  BY <1>1, Secured DEF StartShutdown
<1>3. CASE /\ Call(s, "shutuni")
           /\ Ssl(s, [ssl[s] EXCEPT !.peer = IF @ = "open" THEN "assumed" ELSE @])
  <2> DEFINE p == IF ssl[s].peer = "open" THEN "assumed" ELSE ssl[s].peer
             x == [ssl[s] EXCEPT !.peer = p]
  <2>1. p \in {"open", "read", "assumed"} /\ Ssl(s, x)
    BY <1>2, <1>3 DEF Structure
  <2> HIDE DEF p
  <2>2. Differs(x, ssl[s], ssl[s].state, ssl[s].out, ssl[s].closing, p)
    BY <1>2, <2>1, PeerUpdate
  <2> HIDE DEF x
  <2>3. Allowed(s, "shutuni", "none", x) /\ "shutuni" \in Labels
    BY <1>2, <2>2 DEF Allowed, Differs, OtherLabels, Labels
  <2> QED BY <1>1, <1>2, <1>3, <2>1, <2>2, <2>3, CallStep DEF Differs
<1>4. CASE /\ Call(s, IF ssl[s].closing /\ ssl[s].out = 0 THEN "shutagain" ELSE "shutbi")
           /\ UNCHANGED ssl
  <2>1. PICK l \in {"shutagain", "shutbi"} :
           /\ Call(s, l)
           /\ l = "shutagain" => ssl[s].closing /\ ssl[s].out = 0
    BY <1>4
  <2>2. Allowed(s, l, "none", ssl[s]) /\ l \in Labels
    BY <1>2, <2>1 DEF Allowed, OtherLabels, Labels
  <2> QED BY <1>4, <2>1, <2>2, PlainCallStep DEF StartShutdown
<1> QED BY <1>3, <1>4 DEF StartShutdown

LEMMA NotifyStep ==
  ASSUME SslInv, NEW s \in Object, Notify(s)
  PROVE  SslInv'
<1>1. at[s] \in Closing /\ at[s] \in Using /\ SameNet(s) /\ UNCHANGED opVars
  BY DEF Notify, Using, SameNet
<1>2. /\ at[s] # "connect" /\ ssl[s] \in Structure /\ verdict[s] = "none"
      /\ Allowed(s, at[s], "none", ssl[s])
  BY <1>1, InUse
<1> DEFINE x == [ssl[s] EXCEPT !.closing = TRUE, !.out = 1]
<1>3. Differs(x, ssl[s], ssl[s].state, 1, TRUE, ssl[s].peer) /\ Ssl(s, x)
  <2>1. 1 \in 0..Record
    BY SslSocketAssumption
  <2> QED BY <1>2, <2>1, NotifyUpdate DEF Notify
<1> HIDE DEF x
<1>4. Allowed(s, at[s], verdict[s], x)
  BY <1>1, <1>2, <1>3 DEF Allowed, Differs, Closing, Notify
<1> QED BY <1>1, <1>2, <1>3, <1>4, SslStep DEF Differs

LEMMA NotifiedStep ==
  ASSUME SslInv, NEW s \in Object, Notified(s)
  PROVE  SslInv'
<1>1. /\ at[s] \in Closing /\ at[s] \in Using /\ SameNet(s) /\ UNCHANGED ssl
      /\ want[s] = "none" /\ ssl[s].closing /\ ssl[s].out = 0
  BY DEF Notified, Using, SameNet
<1>2. /\ at[s] # "connect" /\ Allowed(s, at[s], "none", ssl[s]) /\ verdict[s] = "none"
      /\ ssl[s].state \in {"secure", "broken"}
  BY <1>1, InUse
<1>3. s \notin Senders
  BY <1>1, <1>2 DEF Allowed, SenderLabels, Closing
<1>4. ASSUME NEW r \in {"closeduni", "closedbi"}, Return(s, r),
             r = "closedbi" => ssl[s].peer # "open"
      PROVE  SslInv'
  <2>1. Allowed(s, "idle", r, ssl[s]) /\ r \in Verdicts
    BY <1>1, <1>2, <1>3, <1>4
    DEF Allowed, OtherLabels, Using, Reading, Sending, Closing, Verdicts
  <2> QED BY <1>1, <1>2, <1>4, <2>1, ReturnStep
<1>5. CASE Goto(s, "drain")
  <2>1. Allowed(s, "drain", verdict[s], ssl[s]) /\ "drain" \in Labels
    BY <1>1, <1>2, <1>3 DEF Allowed, OtherLabels, Labels
  <2> QED BY <1>1, <1>2, <1>5, <2>1, GotoStep
<1> QED BY <1>4, <1>5 DEF Notified

LEMMA ShutdownReadsStep ==
  ASSUME SslInv, NEW s \in Object, ShutdownReads(s)
  PROVE  SslInv'
<1>1. at[s] = "shutagain" /\ at[s] \in Using
  BY DEF ShutdownReads, Using
<1>2. /\ at[s] # "connect" /\ fd[s] # None /\ ssl[s] \in Structure
      /\ Allowed(s, at[s], "none", ssl[s]) /\ verdict[s] = "none"
  BY <1>1, InUse
<1>3. ASSUME Get(s), UNCHANGED <<heap, opVars>>, NEW p \in {"open", "read"},
             Ssl(s, [ssl[s] EXCEPT !.peer = p])
      PROVE  SslInv'
  <2> DEFINE x == [ssl[s] EXCEPT !.peer = p]
  <2>1. /\ Differs(x, ssl[s], ssl[s].state, ssl[s].out, ssl[s].closing, p)
        /\ Ssl(s, x)
    BY <1>2, <1>3, PeerUpdate
  <2> HIDE DEF x
  <2>2. Allowed(s, at[s], verdict[s], x)
    BY <1>1, <1>2, <2>1 DEF Allowed, Differs
  <2>3. SameNet(s)
    BY <1>2, <1>3, GetStep
  <2> QED BY <1>2, <1>3, <2>1, <2>2, <2>3, SslStep DEF Differs
<1>4. CASE /\ ssl[s].peer # "open" /\ Return(s, "closedbi")
           /\ UNCHANGED <<fd, kernel, tcpVars, ssl, heap, units>>
  <2>1. Allowed(s, "idle", "closedbi", ssl[s]) /\ "closedbi" \in Verdicts /\ SameNet(s)
    BY <1>1, <1>2, <1>4
    DEF Allowed, SenderLabels, OtherLabels, Using, Reading, Sending, Closing,
        Verdicts, SameNet
  <2> QED BY <1>2, <1>4, <2>1, ReturnStep
<1> QED BY <1>3, <1>4 DEF ShutdownReads

LEMMA BreaksStep ==
  ASSUME SslInv, NEW s \in Object, Breaks(s)
  PROVE  SslInv'
<1>1. at[s] \in Using /\ at[s] # "offer" /\ want[s] = "none"
  BY DEF Breaks, Using, Reading, Sending, Closing
<1>2. /\ at[s] # "connect" /\ fd[s] # None /\ ssl[s] \in Structure
      /\ ssl[s].state \in {"secure", "broken"} /\ verdict[s] = "none"
      /\ Allowed(s, at[s], "none", ssl[s])
  BY <1>1, InUse
<1>3. CASE at[s] \in Sending /\ s \in Senders /\ SendFails(s)
  BY <1>3, SendFailsStep
<1>4. ASSUME ~(at[s] \in Sending /\ s \in Senders), Received(s, "failed"),
             NEW st \in {ssl[s].state, "broken"}, Ssl(s, [ssl[s] EXCEPT !.state = st]),
             UNCHANGED <<fd, kernel, tcpVars, heap, units>>
      PROVE  SslInv'
  <2> DEFINE x == [ssl[s] EXCEPT !.state = st]
  <2>1. /\ Differs(x, ssl[s], st, ssl[s].out, ssl[s].closing, ssl[s].peer)
        /\ Ssl(s, x) /\ st \in {"secure", "broken"}
    BY <1>2, <1>4, StateUpdate
  <2> HIDE DEF x
  <2>2. SameNet(s)
    BY <1>4 DEF SameNet
  <2>3. CASE at[s] = "check" /\ Goto(s, "offer")
    <3>1. Allowed(s, "offer", "none", x)
      BY <1>2, <2>1, <2>3, SslSocketAssumption
      DEF Allowed, Differs, SenderLabels, OtherLabels
    <3>2. /\ at' = [at EXCEPT ![s] = "offer"] /\ want' = [want EXCEPT ![s] = "none"]
          /\ verdict' = [verdict EXCEPT ![s] = "none"]
          /\ "offer" \in Labels /\ "none" \in Verdicts
      BY <1>1, <1>2, <2>3 DEF Goto, SslInv, TypeInv, Labels, Verdicts
    <3> QED BY <1>2, <2>1, <2>2, <3>1, <3>2, LocalStep DEF Differs
  <2>4. CASE at[s] # "check" /\ Return(s, "failed")
    <3>1. s \notin Senders
      BY <1>1, <1>2, <1>4, <2>4
      DEF Allowed, SenderLabels, Using, Reading, Closing, Sending
    <3>2. Allowed(s, "idle", "failed", x) /\ "idle" \in Labels /\ "failed" \in Verdicts
      BY <1>2, <2>1, <3>1
      DEF Allowed, Differs, OtherLabels, Using, Reading, Sending, Closing, Labels, Verdicts
    <3> QED BY <1>2, <2>1, <2>2, <2>4, <3>2, LocalStep DEF Differs, Return
  <2> QED BY <1>4, <2>3, <2>4 DEF Received
<1> QED BY <1>3, <1>4 DEF Breaks

-----------------------------------------------------------------------------
(* connect(), and the constructor.                                         *)

(* Nothing happens to the structures, or to the operation. *)
LEMMA SameSsl ==
  ASSUME SslInv, NEW s \in Object, UNCHANGED <<ssl, heap>>
  PROVE  SslEffect(s)
<1>1. Ssl(s, ssl[s]) /\ ssl[s] \in Structure
  BY DEF Ssl, SslInv, TypeInv
<1> QED BY <1>1 DEF SslEffect

LEMMA SameOp ==
  ASSUME SslInv, NEW s \in Object, UNCHANGED opVars
  PROVE  /\ OpEffect(s) /\ at'[s] = at[s] /\ want'[s] = want[s]
         /\ verdict'[s] = verdict[s]
<1>1. /\ at' = [at EXCEPT ![s] = at[s]] /\ want' = [want EXCEPT ![s] = want[s]]
      /\ verdict' = [verdict EXCEPT ![s] = verdict[s]] /\ at[s] \in Labels
      /\ want[s] \in {"none", "read", "write"} /\ verdict[s] \in Verdicts
  BY DEF opVars, SslInv, TypeInv
<1> QED BY <1>1 DEF OpEffect, opVars

(* Where the structure of s is none and s does not use it, all is well but *)
(* for the descriptor.                                                     *)
LEMMA Without ==
  ASSUME SslInv, NEW s \in Object, ssl[s].state = "none", UNCHANGED <<ssl, heap>>,
         at'[s] \in {"idle", "connect", "client"}, s \in Others => at'[s] = "idle",
         at'[s] \in {"connect", "client"} => verdict'[s] = "none",
         verdict'[s] \notin {"closeduni", "closedbi"}, want'[s] = "none",
         fd'[s] # None /\ s \in Senders => at'[s] \in {"connect", "client"},
         fd'[s] # None /\ at'[s] # "connect"
           => kernel'[fd'[s]].state \in {"connected", "reset"},
         at'[s] = "client" => fd'[s] # None
  PROVE  LinkFine(s)' /\ ProtocolFine(s)'
<1>1. ssl'[s] = ssl[s] /\ ssl[s].out = 0
  BY DEF SslInv, Fine, ProtocolFine
<1>2. LinkFine(s)'
  BY <1>1, SslSocketAssumption
  DEF LinkFine, Kernel, Using, Reading, Sending, Closing, SenderLabels, OtherLabels
<1>3. ProtocolFine(s)'
  BY <1>1 DEF ProtocolFine
<1> QED BY <1>2, <1>3

(* An object without a descriptor has no structure. *)
LEMMA NoStructure ==
  ASSUME SslInv, NEW s \in Object, fd[s] = None \/ at[s] = "connect"
  PROVE  ssl[s].state = "none"
BY DEF SslInv, Fine, LinkFine

LEMMA ConstructStep ==
  ASSUME SslInv, NEW s \in Object, Construct(s)
  PROVE  SslInv'
<1>1. PICK d \in TCP!FreeDescriptors :
         /\ fd' = [fd EXCEPT ![s] = d]
         /\ kernel' = [kernel EXCEPT ![d] = TCP!Opened("connected")]
  BY DEF Construct
<1>2. /\ s \in Others /\ s \notin Senders /\ at[s] = "idle" /\ fd[s] = None
      /\ UNCHANGED <<tcpVars, ssl, heap, units>> /\ Return(s, "none")
  BY SslSocketAssumption DEF Construct
<1>3. NetEffect(s)
  BY <1>1, <1>2 DEF NetEffect
<1>4. TcpEffect(s) /\ pc'[s] = pc[s] /\ result'[s] = result[s] /\ SslEffect(s)
  BY <1>2, SameTcp, SameSsl
<1>5. /\ OpEffect(s) /\ at'[s] = "idle" /\ want'[s] = "none" /\ verdict'[s] = "none"
      /\ units' \in 0..MaxUnits
  BY <1>2 DEF OpEffect, Return, Labels, Verdicts, SslInv, TypeInv
<1>6. fd'[s] = d /\ kernel'[fd'[s]].state = "connected"
  BY <1>1, Entries DEF SslInv, TypeInv, TCP!FreeDescriptors, TCP!States
<1>7. LinkFine(s)' /\ ProtocolFine(s)'
  BY <1>2, <1>5, <1>6, NoStructure, Without
<1>8. TcpFine(s)'
  BY <1>2, <1>4, <1>5, Before DEF TcpFine
<1> QED BY <1>3, <1>4, <1>5, <1>7, <1>8, Frame DEF Fine

LEMMA StartConnectStep ==
  ASSUME SslInv, NEW s \in Object, StartConnect(s)
  PROVE  SslInv'
<1>1. /\ s \in Senders /\ s \notin Others /\ fd[s] = None /\ at[s] = "idle"
      /\ UNCHANGED <<ssl, heap, units>> /\ units' \in 0..MaxUnits
  BY SslSocketAssumption DEF StartConnect, Call, SslInv, TypeInv
<1>2. SslEffect(s) /\ ssl[s].state = "none" /\ want[s] = "none"
  BY <1>1, SameSsl, NoStructure DEF SslInv, Fine, ProtocolFine, Timed
<1>3. CASE TCP!Create(s, "connect") /\ Call(s, "connect")
  <2>1. PICK d \in TCP!FreeDescriptors :
           /\ fd' = [fd EXCEPT ![s] = d]
           /\ kernel' = [kernel EXCEPT ![d] = TCP!Opened("new")]
    BY <1>3 DEF TCP!Create
  <2>2. NetEffect(s)
    BY <1>1, <2>1 DEF NetEffect
  <2>3. /\ TcpEffect(s) /\ pc'[s] = "connect"
    BY <1>3 DEF TcpEffect, TCP!Create, TCP!Call, TCP!Goto, TCP!Results, SslInv, TypeInv
  <2>4. at'[s] = "connect" /\ want'[s] = "none" /\ verdict'[s] = "none"
    BY <1>2, <1>3 DEF Call, SslInv, TypeInv
  <2>5. OpEffect(s)
    <3>1. want' = [want EXCEPT ![s] = "none"]
      BY <1>2, <1>3 DEF Call, SslInv, TypeInv
    <3> QED BY <1>3, <3>1 DEF OpEffect, Call, Labels, Verdicts
  <2>6. fd'[s] # None
    BY <2>1, Numbers DEF SslInv, TypeInv, TCP!FreeDescriptors
  <2>7. LinkFine(s)' /\ ProtocolFine(s)'
    BY <1>1, <1>2, <2>4, Without
  <2>8. TcpFine(s)'
    BY <2>3, <2>4, <2>6 DEF TcpFine
  <2> QED BY <1>1, <1>2, <2>2, <2>3, <2>5, <2>7, <2>8, Frame DEF Fine
<1>4. CASE TCP!CreateFails(s) /\ Return(s, "failed")
  <2>1. fd' = fd /\ kernel' = kernel /\ NetEffect(s)
    BY <1>4 DEF TCP!CreateFails, TCP!Fail, NetEffect
  <2>2. TcpEffect(s) /\ pc'[s] = "idle"
    BY <1>4
    DEF TcpEffect, TCP!CreateFails, TCP!Fail, TCP!Return, TCP!Goto, TCP!Results,
        SslInv, TypeInv
  <2>3. OpEffect(s) /\ at'[s] = "idle" /\ want'[s] = "none" /\ verdict'[s] = "failed"
    BY <1>4 DEF OpEffect, Return, Labels, Verdicts, SslInv, TypeInv
  <2>4. LinkFine(s)' /\ ProtocolFine(s)'
    BY <1>1, <1>2, <2>1, <2>3, Without
  <2>5. TcpFine(s)'
    BY <2>2, <2>3 DEF TcpFine
  <2> QED BY <1>1, <1>2, <2>1, <2>2, <2>3, <2>4, <2>5, Frame DEF Fine
<1> QED BY <1>3, <1>4 DEF StartConnect

LEMMA TcpConnectsStep ==
  ASSUME SslInv, NEW s \in Object, TcpConnects(s)
  PROVE  SslInv'
<1>1. /\ at[s] = "connect" /\ UNCHANGED <<ssl, heap, opVars, units>>
      /\ pc[s] \in {"connect", "waitconnect", "check"} /\ units' \in 0..MaxUnits
  BY DEF TcpConnects, TCP!ConnectStarts, TCP!WaitConnect, TCP!CheckError, SslInv, TypeInv
<1>2. /\ SslEffect(s) /\ OpEffect(s) /\ at'[s] = "connect" /\ want'[s] = want[s]
      /\ verdict'[s] = verdict[s] /\ ssl[s].state = "none"
  BY <1>1, SameSsl, SameOp, NoStructure
<1>3. /\ fd[s] # None /\ s \notin Others /\ want[s] = "none" /\ verdict[s] = "none"
  BY <1>1 DEF SslInv, Fine, TcpFine, LinkFine, ProtocolFine, OtherLabels, Timed
<1>4. LinkFine(s)' /\ ProtocolFine(s)'
  BY <1>1, <1>2, <1>3, Without
<1>5. /\ fd[s] \in Descriptor /\ kernel[fd[s]] \in Entry
  BY <1>3, Holds
<1>6. CASE TCP!Abandon(s)
  <2>1. NetEffect(s) /\ fd'[s] = None
    BY <1>3, <1>6 DEF TCP!Abandon, TCP!Release, NetEffect, None, SslInv, TypeInv
  <2>2. TcpEffect(s) /\ pc'[s] = "idle" /\ result'[s] = "failed"
    BY <1>6
    DEF TcpEffect, TCP!Abandon, TCP!Return, TCP!Goto, TCP!Results, SslInv, TypeInv
  <2>3. TcpFine(s)'
    BY <1>2, <2>1, <2>2 DEF TcpFine
  <2> QED BY <1>1, <1>2, <1>4, <2>1, <2>2, <2>3, Frame DEF Fine
<1>7. ASSUME NEW st \in {"connected", "pending"}, NEW l \in {"check", "waitconnect"},
             kernel' = [kernel EXCEPT ![fd[s]].state = st], TCP!Goto(s, l),
             UNCHANGED <<fd, result>>
      PROVE  SslInv'
  <2> DEFINE k == [kernel[fd[s]] EXCEPT !.state = st]
  <2>1. k \in Entry /\ k.state = st /\ kernel' = [kernel EXCEPT ![fd[s]] = k]
    BY <1>5, <1>7 DEF Entry, TCP!States
  <2> HIDE DEF k
  <2>2. NetEffect(s)
    BY <1>3, <1>7, <2>1 DEF NetEffect, TCP!NoSocket
  <2>3. TcpEffect(s) /\ pc'[s] # "idle"
    <3>1. result' = [result EXCEPT ![s] = result[s]] /\ result[s] \in TCP!Results
      BY <1>7 DEF SslInv, TypeInv
    <3> QED BY <1>7, <3>1 DEF TcpEffect, TCP!Goto, SslInv, TypeInv
  <2>4. TcpFine(s)'
    BY <1>2, <1>3, <1>7, <2>3 DEF TcpFine
  <2> QED BY <1>1, <1>2, <1>4, <2>2, <2>3, <2>4, Frame DEF Fine
<1>8. CASE TCP!GoOn(s, "check")
  <2>1. fd' = fd /\ NetEffect(s)
    BY <1>8 DEF TCP!GoOn, NetEffect
  <2>2. TcpEffect(s) /\ pc'[s] # "idle"
    <3>1. result' = [result EXCEPT ![s] = result[s]] /\ result[s] \in TCP!Results
      BY <1>8 DEF TCP!GoOn, SslInv, TypeInv
    <3> QED BY <1>8, <3>1 DEF TcpEffect, TCP!GoOn, TCP!Goto, SslInv, TypeInv
  <2>3. TcpFine(s)'
    BY <1>2, <1>3, <2>1, <2>2 DEF TcpFine
  <2> QED BY <1>1, <1>2, <1>4, <2>1, <2>2, <2>3, Frame DEF Fine
<1>9. CASE TCP!State(s) = "connected" /\ TCP!Fail(s, "connected")
  <2>1. fd' = fd /\ kernel' = kernel /\ NetEffect(s)
    BY <1>9 DEF TCP!Fail, NetEffect
  <2>2. TcpEffect(s) /\ pc'[s] = "idle" /\ result'[s] = "connected"
    BY <1>9 DEF TcpEffect, TCP!Fail, TCP!Return, TCP!Goto, TCP!Results, SslInv, TypeInv
  <2>3. TcpFine(s)'
    BY <1>2, <1>3, <1>9, <2>1, <2>2 DEF TcpFine, Kernel, TCP!State
  <2> QED BY <1>1, <1>2, <1>4, <2>1, <2>2, <2>3, Frame DEF Fine
<1>10. CASE TCP!ConnectStarts(s)
  BY <1>6, <1>7, <1>10 DEF TCP!ConnectStarts
<1>11. CASE TCP!WaitConnect(s)
  BY <1>6, <1>8, <1>11 DEF TCP!WaitConnect
<1>12. CASE TCP!CheckError(s)
  BY <1>6, <1>9, <1>12 DEF TCP!CheckError
<1> QED BY <1>10, <1>11, <1>12 DEF TcpConnects

LEMMA TcpReturnsStep ==
  ASSUME SslInv, NEW s \in Object, TcpReturns(s)
  PROVE  SslInv'
<1>1. /\ at[s] = "connect" /\ pc[s] = "idle" /\ fd' = fd /\ kernel' = kernel
      /\ UNCHANGED <<tcpVars, ssl, heap, units>> /\ units' \in 0..MaxUnits
  BY DEF TcpReturns, SslInv, TypeInv
<1>2. /\ SslEffect(s) /\ TcpEffect(s) /\ pc'[s] = "idle" /\ ssl[s].state = "none"
      /\ NetEffect(s)
  BY <1>1, SameSsl, SameTcp, NoStructure DEF NetEffect
<1>3. /\ s \notin Others /\ want[s] = "none" /\ verdict[s] = "none"
      /\ IF result[s] = "connected"
         THEN fd[s] # None /\ Kernel(s).state \in {"connected", "reset"}
         ELSE fd[s] = None
  BY <1>1 DEF SslInv, Fine, TcpFine, LinkFine, ProtocolFine, OtherLabels, Timed
<1>4. CASE result[s] = "connected" /\ Goto(s, "client")
  <2>1. at'[s] = "client" /\ want'[s] = "none" /\ verdict'[s] = "none"
    BY <1>3, <1>4 DEF Goto, SslInv, TypeInv
  <2>2. OpEffect(s)
    <3>1. /\ at' = [at EXCEPT ![s] = "client"] /\ want' = [want EXCEPT ![s] = "none"]
          /\ verdict' = [verdict EXCEPT ![s] = "none"]
      BY <1>3, <1>4 DEF Goto, SslInv, TypeInv
    <3> QED BY <3>1 DEF OpEffect, Labels, Verdicts
  <2>3. LinkFine(s)' /\ ProtocolFine(s)'
    BY <1>1, <1>2, <1>3, <1>4, <2>1, Without DEF Kernel
  <2>4. TcpFine(s)'
    BY <1>2, <2>1 DEF TcpFine
  <2> QED BY <1>1, <1>2, <2>2, <2>3, <2>4, Frame DEF Fine
<1>5. CASE result[s] # "connected" /\ Return(s, "failed")
  <2>1. OpEffect(s) /\ at'[s] = "idle" /\ want'[s] = "none" /\ verdict'[s] = "failed"
    BY <1>5 DEF OpEffect, Return, Labels, Verdicts, SslInv, TypeInv
  <2>2. LinkFine(s)' /\ ProtocolFine(s)'
    BY <1>1, <1>2, <1>3, <1>5, <2>1, Without
  <2>3. TcpFine(s)'
    BY <1>2, <2>1 DEF TcpFine
  <2> QED BY <1>1, <1>2, <2>1, <2>2, <2>3, Frame DEF Fine
<1> QED BY <1>4, <1>5 DEF TcpReturns

-----------------------------------------------------------------------------
(* Peers, network and files.                                               *)

(* The kernel changes descriptor d: sockets stay sockets, and connections  *)
(* stay connections, even when they are reset.                             *)
LEMMA ChangeStep ==
  ASSUME SslInv, NEW d \in Descriptor, NEW k \in Entry, TCP!Change(d, k),
         k.state \in TCP!NoSocket <=> kernel[d].state \in TCP!NoSocket,
         kernel[d].state \in {"connected", "reset"} => k.state \in {"connected", "reset"},
         UNCHANGED <<ssl, heap, opVars>>, units' \in 0..MaxUnits
  PROVE  SslInv'
<1>1. /\ fd' = fd /\ pc' = pc /\ result' = result /\ ssl' = ssl /\ heap' = heap
      /\ at' = at /\ want' = want /\ verdict' = verdict
      /\ kernel' = [kernel EXCEPT ![d] = k]
  BY DEF TCP!Change, opVars
<1>2. TypeInv /\ ResourcesOwned
  BY DEF SslInv
<1>3. /\ kernel' \in [Descriptor -> Entry]
      /\ \A e \in Descriptor : kernel'[e] = IF e = d THEN k ELSE kernel[e]
  BY <1>1, <1>2 DEF TypeInv
<1>4. TypeInv'
  BY <1>1, <1>2, <1>3 DEF TypeInv
<1>5. ResourcesOwned'
  BY <1>1, <1>2, <1>3 DEF ResourcesOwned, TCP!DescriptorsOwned
<1>6. ASSUME NEW s \in Object PROVE Fine(s)'
  <2>1. Fine(s) /\ (fd[s] # None => fd[s] \in Descriptor)
    BY <1>2 DEF SslInv, TypeInv
  <2>2. fd[s] # None /\ Kernel(s).state \in {"connected", "reset"}
          => Kernel(s)'.state \in {"connected", "reset"}
    BY <1>1, <1>3, <2>1 DEF Kernel
  <2>3. TcpFine(s)'
    BY <1>1, <2>1, <2>2 DEF Fine, TcpFine
  <2>4. LinkFine(s)'
    BY <1>1, <2>1, <2>2 DEF Fine, LinkFine
  <2>5. ProtocolFine(s)'
    BY <1>1, <2>1 DEF Fine, ProtocolFine
  <2> QED BY <2>3, <2>4, <2>5 DEF Fine
<1> QED BY <1>4, <1>5, <1>6 DEF SslInv

LEMMA NetworkStep ==
  ASSUME SslInv, NEW d \in Descriptor, Network(d)
  PROVE  SslInv'
<1>1. /\ kernel[d] \in Entry /\ kernel \in [Descriptor -> Entry]
      /\ UNCHANGED <<ssl, heap, opVars>>
  BY DEF SslInv, TypeInv, Network
<1>2. units' \in 0..MaxUnits
  BY SslSocketAssumption DEF Network, SslInv, TypeInv
<1>3. PICK k \in Entry :
        /\ TCP!Change(d, k)
        /\ kernel[d].state \in {"pending", "connected", "listening"}
        /\ k.state \in {"connected", "refused", "reset", "listening"}
        /\ kernel[d].state = "connected" => k.state \in {"connected", "reset"}
  <2>1. ASSUME NEW k, k \in Entry, TCP!Change(d, k),
               kernel[d].state \in {"pending", "connected", "listening"},
               k.state \in {"connected", "refused", "reset", "listening"},
               kernel[d].state = "connected" => k.state \in {"connected", "reset"}
        PROVE  \E j \in Entry :
                 /\ TCP!Change(d, j)
                 /\ kernel[d].state \in {"pending", "connected", "listening"}
                 /\ j.state \in {"connected", "refused", "reset", "listening"}
                 /\ kernel[d].state = "connected" => j.state \in {"connected", "reset"}
    BY <2>1
  <2>2. ASSUME NEW st \in {"connected", "refused", "reset"}
        PROVE  LET k == [kernel[d] EXCEPT !.state = st]
               IN k \in Entry /\ k.state = st
    BY <1>1 DEF Entry, TCP!States
  <2>3. LET k == [kernel[d] EXCEPT !.room = @ + 1]
        IN k \in Entry /\ k.state = kernel[d].state
    BY <1>1 DEF Entry
  <2>4. LET k == [kernel[d] EXCEPT !.eof = TRUE]
        IN k \in Entry /\ k.state = kernel[d].state
    BY <1>1 DEF Entry
  <2>5. LET k == [kernel[d] EXCEPT !.waiting = @ + 1]
        IN k \in Entry /\ k.state = kernel[d].state
    BY <1>1 DEF Entry
  <2>6. LET k == [kernel[d] EXCEPT !.waiting = @ - 1]
        IN k \in Entry /\ k.state = kernel[d].state
    BY <1>1 DEF Entry
  <2>7. TCP!Network(d)
    BY DEF Network
  <2> QED BY <2>1, <2>2, <2>3, <2>4, <2>5, <2>6, <2>7 DEF TCP!Network
<1>4. kernel[d].state \notin TCP!NoSocket /\ k.state \notin TCP!NoSocket
  BY <1>3 DEF TCP!NoSocket
<1>5. kernel[d].state \in {"connected", "reset"} => k.state \in {"connected", "reset"}
  BY <1>3
<1> QED BY <1>1, <1>2, <1>3, <1>4, <1>5, ChangeStep

LEMMA FilesStep ==
  ASSUME SslInv, NEW d \in Descriptor, Files(d)
  PROVE  SslInv'
<1>1. UNCHANGED <<ssl, heap, opVars>> /\ units' \in 0..MaxUnits
  BY DEF Files, SslInv, TypeInv
<1>2. CASE d \in TCP!FreeDescriptors /\ TCP!Change(d, [TCP!Closed EXCEPT !.state = "file"])
  <2> DEFINE k == [TCP!Closed EXCEPT !.state = "file"]
  <2>1. k \in Entry /\ k.state = "file"
    BY Entries DEF Entry, TCP!States
  <2>2. kernel[d].state = "free" /\ TCP!Change(d, k)
    BY <1>2 DEF TCP!FreeDescriptors
  <2> HIDE DEF k
  <2> QED BY <1>1, <2>1, <2>2, ChangeStep DEF TCP!NoSocket
<1>3. CASE kernel[d].state = "file" /\ TCP!Change(d, TCP!Closed)
  BY <1>1, <1>3, Entries, ChangeStep DEF TCP!NoSocket
<1> QED BY <1>2, <1>3 DEF Files, TCP!Files

-----------------------------------------------------------------------------
(* The invariant holds.                                                    *)

LEMMA SslInit == Init => SslInv
<1> SUFFICES ASSUME Init PROVE SslInv
  OBVIOUS
<1>1. /\ fd = [s \in Object |-> None] /\ kernel = [d \in Descriptor |-> TCP!Closed]
      /\ pc = [s \in Object |-> "idle"] /\ result = [s \in Object |-> "none"]
      /\ ssl = [s \in Object |-> NoSsl] /\ heap = 0 /\ units = 0
      /\ at = [s \in Object |-> "idle"] /\ want = [s \in Object |-> "none"]
      /\ verdict = [s \in Object |-> "none"]
  BY DEF Init, TCP!Init, None
<1>2. /\ NoSsl \in Structure /\ NoSsl.state = "none" /\ NoSsl.out = 0
  BY SslSocketAssumption DEF NoSsl, Structure
<1>3. TypeInv
  BY <1>1, <1>2, Entries, SslSocketAssumption DEF TypeInv, TCP!Results, Labels, Verdicts
<1>4. ResourcesOwned
  <2>1. {s \in Object : ssl[s].state # "none"} = {}
    BY <1>1, <1>2
  <2>2. TCP!DescriptorsOwned
    BY <1>1, Entries, Numbers DEF TCP!DescriptorsOwned, TCP!NoSocket, None
  <2> QED BY <1>1, <2>1, <2>2, FS_EmptySet DEF ResourcesOwned
<1>5. ASSUME NEW s \in Object PROVE Fine(s)
  BY <1>1, <1>2
  DEF Fine, TcpFine, LinkFine, ProtocolFine, Using, Reading, Sending, Closing,
      SenderLabels, OtherLabels
<1> QED BY <1>3, <1>4, <1>5 DEF SslInv

LEMMA SslNext == SslInv /\ [Next]_vars => SslInv'
<1> SUFFICES ASSUME SslInv, [Next]_vars PROVE SslInv'
  OBVIOUS
<1>1. ASSUME NEW s \in Object, Step(s) PROVE SslInv'
  BY <1>1, TcpConnectsStep, TcpReturnsStep, PrepareStep, HandshakeReadsStep,
     HandshakeWritesStep, HandshakeBreaksStep, PutStep, BlocksStep, WaitStep, SenderSendsStep,
     SendReturnsStep, ReadsUnitStep, ReadsEndStep, NotifyStep, NotifiedStep,
     ShutdownReadsStep, BreaksStep
  DEF Step
<1>2. ASSUME NEW s \in Object, Use(s) PROVE SslInv'
  BY <1>2, StartConnectStep, ConstructStep, StartHandshakeStep, CloseStep,
     StartSendStep, StartSenderSendStep, StartReceiveStep, StartShutdownStep
  DEF Use
<1>3. ASSUME NEW d \in Descriptor, Network(d) \/ Files(d) PROVE SslInv'
  BY <1>3, NetworkStep, FilesStep
<1>4. CASE UNCHANGED vars
  <2>1. /\ fd' = fd /\ kernel' = kernel /\ pc' = pc /\ result' = result /\ ssl' = ssl
        /\ heap' = heap /\ units' = units /\ at' = at /\ want' = want
        /\ verdict' = verdict
    BY <1>4 DEF vars, tcpVars, opVars
  <2>2. TypeInv'
    BY <2>1 DEF SslInv, TypeInv
  <2>3. ResourcesOwned'
    BY <2>1 DEF SslInv, ResourcesOwned, TCP!DescriptorsOwned
  <2>4. ASSUME NEW s \in Object PROVE Fine(s)'
    BY <2>1 DEF SslInv, Fine, TcpFine, LinkFine, ProtocolFine, Kernel
  <2> QED BY <2>2, <2>3, <2>4 DEF SslInv
<1> QED BY <1>1, <1>2, <1>3, <1>4 DEF Next

LEMMA SslInvariance == Spec => []SslInv
BY SslInit, SslNext, PTL DEF Spec

(* Members and locals of net::ssl::socket have their types. *)
THEOREM TypeCorrect == Spec => []TypeOK
<1>1. SslInv => TypeOK
  <2> SUFFICES ASSUME SslInv PROVE TypeOK
    OBVIOUS
  <2>1. heap \in Nat
    <3> DEFINE Made == {s \in Object : ssl[s].state # "none"}
    <3>1. IsFiniteSet(Made)
      <4>1. IsFiniteSet(Object)
        BY SslSocketAssumption, FS_Union DEF Object
      <4> QED BY <4>1, FS_Subset
    <3>2. heap = Cardinality(Made)
      BY DEF SslInv, ResourcesOwned
    <3> HIDE DEF Made
    <3> QED BY <3>1, <3>2, FS_CardinalityType
  <2>2. {"none", "secure", "broken"} \cup Unfinished
          = {"none", "handshake", "finishing", "secure", "broken"}
    BY DEF Unfinished
  <2> QED BY <2>1, <2>2 DEF SslInv, TypeInv, TypeOK, Structure, Verdicts
<1> QED BY <1>1, SslInvariance, PTL

(* Every operation that uses _M_ssl finds a structure whose handshake is   *)
(* done, on the open socket of its own object.                             *)
THEOREM UsesSecured == Spec => []SecureWhenUsed
<1>1. SslInv => SecureWhenUsed
  <2> SUFFICES ASSUME SslInv, NEW s \in Object, at[s] \in Using
               PROVE  /\ ssl[s].state \in {"secure", "broken"}
                      /\ ssl[s].bio = fd[s] /\ fd[s] # None
                      /\ Kernel(s).state \in {"connected", "reset"}
    BY DEF SecureWhenUsed, Using
  <2> QED BY InUse, Before
<1> QED BY <1>1, SslInvariance, PTL

(* No SSL structure and no descriptor leaks or is freed twice, whichever   *)
(* operation fails where.                                                  *)
THEOREM OwnsResources == Spec => []ResourcesOwned
<1>1. SslInv => ResourcesOwned
  BY DEF SslInv
<1> QED BY <1>1, SslInvariance, PTL

(* A sender offers a record only after the whole of the one before. *)
THEOREM WritesWholeRecords == Spec => []RecordsWhole
<1>1. SslInv => RecordsWhole
  BY DEF SslInv, Fine, ProtocolFine, RecordsWhole, Object
<1> QED BY <1>1, SslInvariance, PTL

(* shutdown() returns true only if the close_notify was written, and, when *)
(* bidirectional, if that of the peer was read or counted as received.     *)
THEOREM ShutsDownTruly == Spec => []ShutdownIsTrue
<1>1. SslInv => ShutdownIsTrue
  BY DEF SslInv, Fine, ProtocolFine, ShutdownIsTrue
<1> QED BY <1>1, SslInvariance, PTL
=============================================================================
