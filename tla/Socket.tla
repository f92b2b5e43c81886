------------------------------- MODULE Socket -------------------------------
(***************************************************************************)
(* net::socket (net/socket.h, net/socket.cpp): objects that hold at most   *)
(* one non-blocking descriptor each, used by one thread each, on one table *)
(* of descriptors, from which the kernel always takes the lowest free one  *)
(* and in which the process also has files.                                *)
(*                                                                         *)
(* Every system call is one action.  A call that is interrupted and        *)
(* repeated at once changes nothing and is left out; poll() is not         *)
(* repeated.  As in the programs of the repository, connect(), listen()    *)
(* and accept() are called for objects without a descriptor, connect()     *)
(* with a timeout.  Addresses, options and half-closed connections are     *)
(* left out, and so is the setter of the descriptor.                       *)
(***************************************************************************)
EXTENDS Integers, Sequences, FiniteSets

CONSTANTS
  Object,       \* the objects of class net::socket
  Descriptor,   \* the numbers of the table of descriptors
  Size,         \* units of data in one call of send()
  Room,         \* units that the kernel buffers for a connection
  MaxWaiting    \* bound: what waits to be received or accepted

ASSUME SocketAssumption ==
  /\ Descriptor \subseteq Nat /\ IsFiniteSet(Descriptor)
  /\ Size \in Nat \ {0} /\ Room \in Nat \ {0} /\ MaxWaiting \in Nat

VARIABLES
  fd,       \* fd[s]: _M_fd
  kernel,   \* kernel[d]: what the kernel knows of descriptor d
  pc,       \* pc[s]: where the thread that uses s is
  target,   \* target[s]: the object that accept() of s shall fill
  pos, len, \* pos[s], len[s]: b and len of send(): next unit, units left
  result    \* result[s]: what the last operation of s returned

vars == <<fd, kernel, pc, target, pos, len, result>>

None == -1

(* A descriptor that is not open, and one that was just opened.            *)
Closed == [state |-> "free", room |-> 0, waiting |-> 0, eof |-> FALSE,
           stream |-> <<>>]
Opened(state) == [state |-> state, room |-> Room, waiting |-> 0, eof |-> FALSE,
                  stream |-> <<>>]

FreeDescriptors == {d \in Descriptor : kernel[d].state = "free"}

(* The descriptor that the kernel gives next. *)
Lowest(d) == \A e \in FreeDescriptors : d <= e

State(s) == kernel[fd[s]].state

Init ==
  /\ fd = [s \in Object |-> None]
  /\ kernel = [d \in Descriptor |-> Closed]
  /\ pc = [s \in Object |-> "idle"]
  /\ target = [s \in Object |-> s]
  /\ pos = [s \in Object |-> 1] /\ len = [s \in Object |-> 0]
  /\ result = [s \in Object |-> "none"]

Goto(s, label) == pc' = [pc EXCEPT ![s] = label]

(* An operation of s begins. *)
Call(s, label) == /\ pc[s] = "idle"
                  /\ Goto(s, label)
                  /\ result' = [result EXCEPT ![s] = "none"]

sendVars == <<pos, len>>

(* The operation of s returns, and its locals are gone. *)
Return(s, r) == /\ Goto(s, "idle")
                /\ result' = [result EXCEPT ![s] = r]
                /\ pos' = [pos EXCEPT ![s] = 1] /\ len' = [len EXCEPT ![s] = 0]

(* The operation of s goes on, waits, or returns, without any other effect. *)
GoOn(s, label) == /\ Goto(s, label)
                  /\ UNCHANGED <<fd, kernel, target, sendVars, result>>
Fail(s, r)     == /\ Return(s, r)
                  /\ UNCHANGED <<fd, kernel, target>>

-----------------------------------------------------------------------------
(* Descriptors.                                                            *)

(* socket() at the beginning of connect() and listen(). *)
Create(s, label) ==
  /\ fd[s] = None
  /\ \E d \in FreeDescriptors :
       /\ Lowest(d)
       /\ fd' = [fd EXCEPT ![s] = d]
       /\ kernel' = [kernel EXCEPT ![d] = Opened("new")]
  /\ Call(s, label)
  /\ UNCHANGED <<target, sendVars>>

(* No descriptor is left. *)
CreateFails(s) ==
  /\ pc[s] = "idle" /\ fd[s] = None
  /\ FreeDescriptors = {}
  /\ Fail(s, "failed")

(* Mutant of Release: the object still holds the number. *)
ReleaseKeepsNumber(s) ==
  /\ kernel' = [kernel EXCEPT ![fd[s]] = Closed]
  /\ UNCHANGED fd

(* close() of the descriptor, and _M_fd = -1. *)
Release(s) ==
  /\ kernel' = [kernel EXCEPT ![fd[s]] = Closed]
  /\ fd' = [fd EXCEPT ![s] = None]

(* A failure that gives up the descriptor. *)
Abandon(s) == /\ Release(s)
              /\ Return(s, "failed")
              /\ UNCHANGED target

Close(s) ==
  /\ pc[s] = "idle" /\ fd[s] # None
  /\ Release(s)
  /\ result' = [result EXCEPT ![s] = "none"]
  /\ UNCHANGED <<pc, target, sendVars>>

(* The constructor of t that takes the descriptor of s. *)
Move(s, t) ==
  /\ pc[s] = "idle" /\ pc[t] = "idle" /\ fd[s] # None /\ fd[t] = None
  /\ fd' = [fd EXCEPT ![t] = fd[s], ![s] = None]
  /\ result' = [result EXCEPT ![s] = "none", ![t] = "none"]
  /\ UNCHANGED <<kernel, pc, target, sendVars>>

-----------------------------------------------------------------------------
(* connect() with a timeout.                                               *)

(* connect(): established at once, in progress, or failed. *)
ConnectStarts(s) ==
  /\ pc[s] = "connect"
  /\ \/ \E how \in {<<"connected", "check">>, <<"pending", "waitconnect">>} :
          /\ kernel' = [kernel EXCEPT ![fd[s]].state = how[1]]
          /\ Goto(s, how[2])
          /\ UNCHANGED <<fd, target, sendVars, result>>
     \/ Abandon(s)

(* poll(): writable when the attempt has ended; timeouts and signals end   *)
(* the operation.                                                          *)
WaitConnect(s) ==
  /\ pc[s] = "waitconnect"
  /\ \/ State(s) # "pending" /\ GoOn(s, "check")
     \/ Abandon(s)

(* Mutant of CheckError: a writable socket is taken for a connected one. *)
CheckErrorSkipped(s) ==
  /\ pc[s] = "check"
  /\ Fail(s, "connected")

(* get_socket_error(). *)
CheckError(s) ==
  /\ pc[s] = "check"
  /\ IF State(s) = "connected" THEN Fail(s, "connected") ELSE Abandon(s)

-----------------------------------------------------------------------------
(* listen() and accept(), with and without a timeout.                      *)

(* The options, bind() and listen(): one of them may fail. *)
Listen(s) ==
  /\ pc[s] = "listen"
  /\ \/ /\ kernel' = [kernel EXCEPT ![fd[s]].state = "listening"]
        /\ Return(s, "listening")
        /\ UNCHANGED <<fd, target>>
     \/ Abandon(s)

(* accept() of s into t, which nobody else uses meanwhile.  Without a      *)
(* timeout only the last attempt is made.                                  *)
StartAccept(s, t) ==
  /\ pc[s] = "idle" /\ fd[s] # None /\ State(s) = "listening"
  /\ pc[t] = "idle" /\ fd[t] = None
  /\ target' = [target EXCEPT ![s] = t]
  /\ \E label \in {"accept", "acceptlast"} :
       pc' = [pc EXCEPT ![s] = label, ![t] = "lent"]
  /\ result' = [result EXCEPT ![s] = "none", ![t] = "none"]
  /\ UNCHANGED <<fd, kernel, sendVars>>

AcceptReturns(s, r) == /\ pc' = [pc EXCEPT ![s] = "idle", ![target[s]] = "idle"]
                       /\ result' = [result EXCEPT ![s] = r]
                       /\ target' = [target EXCEPT ![s] = s]
                       /\ UNCHANGED sendVars

Accept(s) ==
  /\ pc[s] \in {"accept", "acceptlast"}
  /\ kernel[fd[s]].waiting > 0
  /\ \E d \in FreeDescriptors :
       /\ Lowest(d)
       /\ fd' = [fd EXCEPT ![target[s]] = d]
       /\ kernel' = [kernel EXCEPT ![fd[s]].waiting = @ - 1,
                                   ![d] = Opened("connected")]
  /\ AcceptReturns(s, "accepted")

(* Nobody to accept; or any other error, as when no descriptor is left or   *)
(* the peer has given up.                                                  *)
AcceptFails(s) ==
  \/ /\ pc[s] = "accept" /\ kernel[fd[s]].waiting = 0
     /\ GoOn(s, "waitaccept")
  \/ /\ pc[s] \in {"accept", "acceptlast"}
     /\ AcceptReturns(s, "failed")
     /\ UNCHANGED <<fd, kernel>>

WaitAccept(s) ==
  /\ pc[s] = "waitaccept"
  /\ \/ kernel[fd[s]].waiting > 0 /\ GoOn(s, "acceptlast")
     \/ AcceptReturns(s, "failed") /\ UNCHANGED <<fd, kernel>>

-----------------------------------------------------------------------------
(* send() with a timeout.                                                  *)

HasConnection(s) == fd[s] # None /\ State(s) \in {"connected", "reset"}

StartSend(s) ==
  /\ HasConnection(s)
  /\ Call(s, "send")
  /\ pos' = [pos EXCEPT ![s] = 1] /\ len' = [len EXCEPT ![s] = Size]
  /\ kernel' = [kernel EXCEPT ![fd[s]].stream = <<>>]
  /\ UNCHANGED <<fd, target>>

(* The kernel takes n units from pos on, and has room for them. *)
Takes(d, from, n) ==
  [kernel EXCEPT ![d].room = @ - n,
                 ![d].stream = @ \o [i \in 1..n |-> from + i - 1]]

(* Mutant of SendSome: the units taken are offered again. *)
SendSomeAgain(s) ==
  /\ pc[s] = "send" /\ State(s) = "connected"
  /\ \E n \in 1..len[s] :
       /\ n <= kernel[fd[s]].room
       /\ kernel' = Takes(fd[s], pos[s], n)
       /\ IF n = len[s] THEN Return(s, "sent")
          ELSE /\ len' = [len EXCEPT ![s] = @ - n]
               /\ UNCHANGED <<pc, result, pos>>
  /\ UNCHANGED <<fd, target>>

(* Mutant of SendSome: the loop goes on when nothing is left. *)
SendSomeMore(s) ==
  /\ pc[s] = "send" /\ State(s) = "connected"
  /\ \E n \in 1..len[s] :
       /\ n <= kernel[fd[s]].room
       /\ kernel' = Takes(fd[s], pos[s], n)
       /\ pos' = [pos EXCEPT ![s] = @ + n]
       /\ len' = [len EXCEPT ![s] = @ - n]
  /\ UNCHANGED <<fd, target, pc, result>>

SendSome(s) ==
  /\ pc[s] = "send" /\ State(s) = "connected"
  /\ \E n \in 1..len[s] :
       /\ n <= kernel[fd[s]].room
       /\ kernel' = Takes(fd[s], pos[s], n)
       /\ IF n = len[s] THEN Return(s, "sent")
          ELSE /\ pos' = [pos EXCEPT ![s] = @ + n]
               /\ len' = [len EXCEPT ![s] = @ - n]
               /\ UNCHANGED <<pc, result>>
  /\ UNCHANGED <<fd, target>>

(* The call would block, or the connection is broken. *)
SendNothing(s) ==
  /\ pc[s] = "send"
  /\ \/ State(s) = "connected" /\ kernel[fd[s]].room = 0 /\ GoOn(s, "waitsend")
     \/ State(s) = "reset" /\ Fail(s, "failed")

(* Mutant of WaitSend: a wait that timed out is repeated. *)
WaitSendForEver(s) ==
  /\ pc[s] = "waitsend"
  /\ \/ (kernel[fd[s]].room > 0 \/ State(s) = "reset") /\ GoOn(s, "send")
     \/ GoOn(s, "waitsend")

WaitSend(s) ==
  /\ pc[s] = "waitsend"
  /\ \/ (kernel[fd[s]].room > 0 \/ State(s) = "reset") /\ GoOn(s, "send")
     \/ Fail(s, "failed")

-----------------------------------------------------------------------------
(* recv(), with and without a timeout.                                     *)

StartReceive(s) ==
  /\ HasConnection(s)
  /\ \E label \in {"recv", "recvlast"} : Call(s, label)
  /\ UNCHANGED <<fd, kernel, target, sendVars>>

Receive(s) ==
  /\ pc[s] \in {"recv", "recvlast"}
  /\ LET k == kernel[fd[s]]
     IN \/ /\ k.state = "connected" /\ k.waiting > 0
           /\ kernel' = [kernel EXCEPT ![fd[s]].waiting = @ - 1]
           /\ Return(s, "received")
           /\ UNCHANGED <<fd, target>>
        \/ k.state = "connected" /\ k.waiting = 0 /\ k.eof /\ Fail(s, "eof")
        \/ k.state = "reset" /\ Fail(s, "failed")
        \/ /\ k.state = "connected" /\ k.waiting = 0 /\ ~k.eof
           /\ IF pc[s] = "recv" THEN GoOn(s, "waitrecv") ELSE Fail(s, "failed")

WaitReceive(s) ==
  /\ pc[s] = "waitrecv"
  /\ LET k == kernel[fd[s]]
     IN \/ (k.waiting > 0 \/ k.eof \/ k.state = "reset") /\ GoOn(s, "recvlast")
        \/ Fail(s, "failed")

-----------------------------------------------------------------------------
(* The peers and the network.                                              *)

Change(d, k) == /\ kernel' = [kernel EXCEPT ![d] = k]
                /\ UNCHANGED <<fd, pc, target, sendVars, result>>

Network(d) ==
  LET k == kernel[d]
  IN \/ \E state \in {"connected", "refused"} :
          k.state = "pending" /\ Change(d, [k EXCEPT !.state = state])
     \/ k.state = "connected" /\ Change(d, [k EXCEPT !.state = "reset"])
     \/ /\ k.state = "connected" /\ k.room < Room
        /\ Change(d, [k EXCEPT !.room = @ + 1])
     \/ k.state = "connected" /\ ~k.eof /\ Change(d, [k EXCEPT !.eof = TRUE])
     \/ /\ k.state \in {"connected", "listening"} /\ ~k.eof
        /\ k.waiting < MaxWaiting
        /\ Change(d, [k EXCEPT !.waiting = @ + 1])
     \/ /\ k.state = "listening" /\ k.waiting > 0
        /\ Change(d, [k EXCEPT !.waiting = @ - 1])

(* The same process opens and closes files, as net::sender does. *)
Files(d) ==
  \/ d \in FreeDescriptors /\ Lowest(d) /\ Change(d, [Closed EXCEPT !.state = "file"])
  \/ kernel[d].state = "file" /\ Change(d, Closed)

(* What the thread that uses s does inside of an operation. *)
Step(s) ==
  \/ ConnectStarts(s) \/ WaitConnect(s) \/ CheckError(s) \/ Listen(s)
  \/ Accept(s) \/ AcceptFails(s) \/ WaitAccept(s)
  \/ SendSome(s) \/ SendNothing(s) \/ WaitSend(s)
  \/ Receive(s) \/ WaitReceive(s)

(* What it is free to do outside of one. *)
Use(s) ==
  \/ Create(s, "connect") \/ Create(s, "listen") \/ CreateFails(s) \/ Close(s)
  \/ StartSend(s) \/ StartReceive(s)
  \/ \E t \in Object \ {s} : StartAccept(s, t) \/ Move(s, t)

Next == \/ \E s \in Object : Step(s) \/ Use(s)
        \/ \E d \in Descriptor : Network(d) \/ Files(d)

Spec == Init /\ [][Next]_vars

(* Inside of an operation a thread goes on; each poll() has its timeout.   *)
FairSpec == Spec /\ \A s \in Object : WF_vars(Step(s))

-----------------------------------------------------------------------------
(* Properties.                                                             *)

Labels == {"idle", "lent", "connect", "waitconnect", "check", "listen",
           "accept", "acceptlast", "waitaccept", "send", "waitsend",
           "recv", "recvlast", "waitrecv"}

States == {"free", "file", "new", "pending", "refused", "connected", "reset",
           "listening"}

(* The states of numbers that belong to no object. *)
NoSocket == {"free", "file"}

Results == {"none", "connected", "listening", "accepted", "sent", "received",
            "eof", "failed"}

(* Members, locals and what the kernel keeps have their types and ranges.  *)
TypeOK ==
  /\ fd \in [Object -> Descriptor \cup {None}]
  /\ kernel \in [Descriptor -> [state: States, room: 0..Room, eof: BOOLEAN,
                               waiting: 0..MaxWaiting, stream: Seq(1..Size)]]
  /\ pc \in [Object -> Labels] /\ target \in [Object -> Object]
  /\ pos \in [Object -> 1..Size] /\ len \in [Object -> 0..Size]
  /\ result \in [Object -> Results]

(* Whatever fails, times out or is moved, every open socket is held by     *)
(* exactly one object, and no object holds a number that is free again or  *)
(* that of a file: nothing leaks, and no object closes or writes to what   *)
(* belongs to another.                                                     *)
DescriptorsOwned ==
  /\ \A d \in Descriptor :
       kernel[d].state \notin NoSocket <=> \E s \in Object : fd[s] = d
  /\ \A s, t \in Object : fd[s] = fd[t] /\ fd[s] # None => s = t

(* connect() returns true only for a connection that was established (and  *)
(* may have been reset since), and an idle object holds no other kind of   *)
(* descriptor: net::sender takes every descriptor for a connection.        *)
ConnectIsTrue ==
  \A s \in Object :
    pc[s] = "idle" /\ fd[s] # None
      => State(s) \in {"connected", "reset", "listening"}

(* What the kernel has taken of the data is always their beginning, each   *)
(* unit once, however it splits them; all of it when send() returns true.  *)
SendsPrefix ==
  \A s \in Object :
    LET stream == kernel[fd[s]].stream
    IN /\ pc[s] \in {"send", "waitsend"} =>
            /\ stream = [i \in 1..Len(stream) |-> i]
            /\ Len(stream) + len[s] = Size
       /\ result[s] = "sent" => stream = [i \in 1..Size |-> i]

(* Every operation returns, even if no peer ever does anything. *)
OperationsReturn == \A s \in Object : pc[s] # "idle" ~> pc[s] = "idle"
=============================================================================
