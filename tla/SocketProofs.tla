---------------------------- MODULE SocketProofs ----------------------------
(***************************************************************************)
(* The descriptors of module Socket and what is sent through them, for any *)
(* number of objects, any table of descriptors, any size of data and of    *)
(* buffers.                                                                *)
(*                                                                         *)
(* That every open descriptor has one owner is not inductive: a thread     *)
(* inside of an operation must hold a descriptor, or it would close the    *)
(* number -1; and the object that accept() fills must hold none, and be    *)
(* filled by one thread only (Reliance).                                   *)
(***************************************************************************)
EXTENDS Socket, SequenceTheorems, TLAPS

(* Labels inside of an operation. *)
Sending   == {"send", "waitsend"}
Receiving == {"recv", "recvlast", "waitrecv"}
Accepting == {"accept", "acceptlast", "waitaccept"}

(* What a thread relies on at a label. *)
Reliance ==
  /\ \A s \in Object : pc[s] \notin {"idle", "lent"} => fd[s] # None
  /\ \A s \in Object :
       pc[s] \in Sending \cup Receiving => State(s) \in {"connected", "reset"}
  /\ \A s \in Object : pc[s] \in Accepting =>
       /\ State(s) = "listening"
       /\ pc[target[s]] = "lent" /\ fd[target[s]] = None
  /\ \A s, t \in Object :
       pc[s] \in Accepting /\ pc[t] \in Accepting /\ target[s] = target[t]
         => s = t

(* The unit that is next and the number left fit. *)
SendOK == \A s \in Object : pc[s] \in Sending => pos[s] + len[s] = Size + 1

(* What the kernel keeps of a descriptor. *)
Entry == [state: States, room: 0..Room, eof: BOOLEAN,
          waiting: 0..MaxWaiting, stream: Seq(1..Size)]

SocketInv == TypeOK /\ SendOK /\ Reliance /\ DescriptorsOwned /\ ConnectIsTrue

(* A descriptor that is not open has the fields of every descriptor. *)
LEMMA ClosedEntry == Closed \in Entry /\ Closed.state = "free"
BY SocketAssumption DEF Closed, Entry, States

(* So has one that was just opened. *)
LEMMA OpenedEntry ==
  ASSUME NEW x \in States
  PROVE  Opened(x) \in Entry /\ Opened(x).state = x
BY SocketAssumption DEF Opened, Entry, States

(* A descriptor keeps its type when one of its fields changes in its range. *)
LEMMA EntryUpdates ==
  ASSUME NEW e \in Entry
  PROVE  /\ \A x \in States :
              [e EXCEPT !.state = x] \in Entry /\ [e EXCEPT !.state = x].state = x
         /\ \A w \in 0..MaxWaiting :
              /\ [e EXCEPT !.waiting = w] \in Entry
              /\ [e EXCEPT !.waiting = w].state = e.state
         /\ \A r \in 0..Room :
              /\ [e EXCEPT !.room = r] \in Entry
              /\ [e EXCEPT !.room = r].state = e.state
         /\ \A q \in Seq(1..Size) :
              /\ [e EXCEPT !.stream = q] \in Entry
              /\ [e EXCEPT !.stream = q].state = e.state
         /\ /\ [e EXCEPT !.eof = TRUE] \in Entry
            /\ [e EXCEPT !.eof = TRUE].state = e.state
         /\ e.waiting \in 0..MaxWaiting /\ e.room \in 0..Room
         /\ e.waiting > 0 => e.waiting - 1 \in 0..MaxWaiting
         /\ e.waiting < MaxWaiting => e.waiting + 1 \in 0..MaxWaiting
         /\ e.room < Room => e.room + 1 \in 0..Room
<1>1. e.waiting \in 0..MaxWaiting /\ e.room \in 0..Room
  BY DEF Entry
<1>2. /\ e.waiting > 0 => e.waiting - 1 \in 0..MaxWaiting
      /\ e.waiting < MaxWaiting => e.waiting + 1 \in 0..MaxWaiting
      /\ e.room < Room => e.room + 1 \in 0..Room
  BY <1>1, SocketAssumption
<1> QED BY <1>1, <1>2 DEF Entry

-----------------------------------------------------------------------------
(* No descriptor but those in D begins or ceases to be open. *)
SameOpen(D) ==
  \A d \in Descriptor \ D :
    kernel'[d].state \in NoSocket <=> kernel[d].state \in NoSocket

(* Every open descriptor keeps its owner when none is opened, closed or moved. *)
LEMMA OwnersKept ==
  ASSUME TypeOK, DescriptorsOwned, SameOpen({}), UNCHANGED fd
  PROVE  DescriptorsOwned'
BY DEF TypeOK, DescriptorsOwned, SameOpen

(* An object without a descriptor takes one that nobody held. *)
LEMMA OwnerGained ==
  ASSUME TypeOK, DescriptorsOwned, NEW s \in Object, NEW d \in Descriptor,
         fd[s] = None, kernel[d].state = "free", kernel'[d].state \notin NoSocket,
         SameOpen({d}), fd' = [fd EXCEPT ![s] = d]
  PROVE  DescriptorsOwned'
<1>0. d # None
  BY SocketAssumption DEF None
<1>1. \A t \in Object : fd'[t] = IF t = s THEN d ELSE fd[t]
  BY DEF TypeOK
<1>2. \A t \in Object : fd[t] # d
  BY DEF DescriptorsOwned, NoSocket
<1>3. \A t, u \in Object : fd'[t] = fd'[u] /\ fd'[t] # None => t = u
  BY <1>1, <1>2 DEF DescriptorsOwned
<1>4. ASSUME NEW e \in Descriptor
      PROVE  kernel'[e].state \notin NoSocket <=> \E t \in Object : fd'[t] = e
  <2>1. CASE e = d
    BY <1>1, <2>1
  <2>2. CASE e # d
    <3>1. e # None
      BY SocketAssumption DEF None
    <3>2. kernel'[e].state \notin NoSocket <=> \E t \in Object : fd[t] = e
      BY <2>2 DEF SameOpen, DescriptorsOwned
    <3>3. \A t \in Object : fd[t] = e <=> fd'[t] = e
      BY <1>1, <2>2, <3>1
    <3> QED BY <3>2, <3>3
  <2> QED BY <2>1, <2>2
<1> QED BY <1>3, <1>4 DEF DescriptorsOwned

(* close() takes the descriptor from its only owner. *)
LEMMA OwnerLost ==
  ASSUME TypeOK, DescriptorsOwned, NEW s \in Object, fd[s] # None, Release(s)
  PROVE  DescriptorsOwned'
<1> DEFINE d == fd[s]
<1>0. d \in Descriptor /\ d # None
  BY DEF TypeOK
<1>1. \A t \in Object : fd'[t] = IF t = s THEN None ELSE fd[t]
  BY DEF TypeOK, Release
<1>2. \A t \in Object : fd[t] = d => t = s
  BY DEF DescriptorsOwned
<1>3. \A t, u \in Object : fd'[t] = fd'[u] /\ fd'[t] # None => t = u
  BY <1>1 DEF DescriptorsOwned
<1>4. ASSUME NEW e \in Descriptor
      PROVE  kernel'[e].state \notin NoSocket <=> \E t \in Object : fd'[t] = e
  <2>0. e # None
    BY SocketAssumption DEF None
  <2>1. CASE e = d
    <3>1. kernel'[e].state = "free"
      BY <2>1 DEF Release, TypeOK, Closed
    <3> QED BY <1>1, <1>2, <2>0, <2>1, <3>1 DEF NoSocket
  <2>2. CASE e # d
    <3>1. kernel'[e] = kernel[e]
      BY <2>2 DEF Release, TypeOK
    <3>2. \A t \in Object : fd[t] = e <=> fd'[t] = e
      BY <1>1, <2>0, <2>2
    <3> QED BY <3>1, <3>2 DEF DescriptorsOwned
  <2> QED BY <2>1, <2>2
<1> QED BY <1>3, <1>4 DEF DescriptorsOwned

(* A descriptor that is moved has one owner, the new one. *)
LEMMA OwnerMoved ==
  ASSUME TypeOK, DescriptorsOwned, NEW s \in Object, NEW t \in Object,
         Move(s, t)
  PROVE  DescriptorsOwned'
<1>1. s # t /\ fd[s] # None /\ fd[t] = None /\ kernel' = kernel
  BY DEF Move
<1>2. \A u \in Object :
        fd'[u] = IF u = s THEN None ELSE IF u = t THEN fd[s] ELSE fd[u]
  BY <1>1 DEF Move, TypeOK
<1>3. \A u, v \in Object : fd'[u] = fd'[v] /\ fd'[u] # None => u = v
  BY <1>1, <1>2 DEF DescriptorsOwned
<1>4. ASSUME NEW e \in Descriptor
      PROVE  kernel'[e].state \notin NoSocket <=> \E u \in Object : fd'[u] = e
  <2>1. e # None
    BY SocketAssumption DEF None
  <2>2. (\E u \in Object : fd[u] = e) <=> (\E u \in Object : fd'[u] = e)
    BY <1>1, <1>2, <2>1
  <2> QED BY <1>1, <2>2 DEF DescriptorsOwned
<1> QED BY <1>3, <1>4 DEF DescriptorsOwned

-----------------------------------------------------------------------------
(* socket() in connect() and listen(). *)
LEMMA CreateStep ==
  ASSUME SocketInv, NEW s \in Object, NEW label \in {"connect", "listen"},
         Create(s, label)
  PROVE  SocketInv'
<1>1. PICK d \in FreeDescriptors :
         /\ fd' = [fd EXCEPT ![s] = d]
         /\ kernel' = [kernel EXCEPT ![d] = Opened("new")]
  BY DEF Create
<1>2. Opened("new") \in Entry /\ Opened("new").state = "new"
  BY OpenedEntry DEF States
<1>3. d \in Descriptor /\ kernel[d].state = "free" /\ d # None
  BY SocketAssumption DEF FreeDescriptors, None
<1>4. TypeOK'
  BY <1>1, <1>2, <1>3
     DEF Create, Call, Goto, sendVars, TypeOK, Entry, Labels, SocketInv,
         Results
<1>5. SendOK'
  BY DEF SendOK, SocketInv, Create, Call, Goto, sendVars, Sending, TypeOK
<1>6. Reliance'
  BY <1>1, <1>2, <1>3
     DEF Create, Call, Goto, sendVars, TypeOK, SocketInv, Reliance,
         DescriptorsOwned, State, Sending, Receiving, Accepting
<1>7. DescriptorsOwned'
  <2>1. SameOpen({d}) /\ kernel'[d].state \notin NoSocket
    BY <1>1, <1>2, <1>3 DEF SameOpen, SocketInv, TypeOK, NoSocket
  <2> QED BY <1>1, <1>3, <2>1, OwnerGained DEF SocketInv, Create
<1>8. ConnectIsTrue'
  BY <1>1, <1>2, <1>3
     DEF Create, Call, Goto, sendVars, TypeOK, SocketInv, DescriptorsOwned,
         ConnectIsTrue, State
<1> QED BY <1>4, <1>5, <1>6, <1>7, <1>8 DEF SocketInv

(* A failure after socket() closes the descriptor, and no other. *)
LEMMA AbandonStep ==
  ASSUME SocketInv, NEW s \in Object, pc[s] \notin {"idle", "lent"} \cup Accepting, Abandon(s)
  PROVE  SocketInv'
<1>1. fd[s] # None /\ fd[s] \in Descriptor
  BY DEF SocketInv, Reliance, TypeOK
<1>2. Closed \in Entry /\ Closed.state = "free"
  BY ClosedEntry
<1>4. TypeOK'
  BY <1>1, <1>2, SocketAssumption
     DEF Abandon, Release, Return, Goto, TypeOK, Entry, Labels, SocketInv,
         Results
<1>5. SendOK'
  BY DEF SendOK, SocketInv, Abandon, Return, Goto, Sending, TypeOK
<1>6. Reliance'
  BY <1>1
     DEF Abandon, Release, Return, Goto, TypeOK, SocketInv, Reliance,
         DescriptorsOwned, State, Sending, Receiving, Accepting
<1>7. DescriptorsOwned'
  BY <1>1, OwnerLost DEF SocketInv, Abandon
<1>8. ConnectIsTrue'
  BY <1>1
     DEF Abandon, Release, Return, Goto, TypeOK, SocketInv, DescriptorsOwned,
         ConnectIsTrue, State
<1> QED BY <1>4, <1>5, <1>6, <1>7, <1>8 DEF SocketInv

(* An operation returns and leaves every descriptor where it is. *)
LEMMA ReturnStep ==
  ASSUME SocketInv, NEW s \in Object, NEW r \in Results,
         pc[s] \notin {"lent"} \cup Accepting,
         fd[s] # None => State(s) \in {"connected", "reset", "listening"},
         Fail(s, r)
  PROVE  SocketInv'
<1>4. TypeOK'
  BY SocketAssumption DEF Fail, Return, Goto, TypeOK, Labels, SocketInv
<1>5. SendOK'
  BY DEF SendOK, SocketInv, Fail, Return, Goto, Sending, TypeOK
<1>6. Reliance'
  BY
     DEF Fail, Return, Goto, TypeOK, SocketInv, Reliance, State, Sending,
         Receiving, Accepting
<1>7. DescriptorsOwned'
  BY DEF SocketInv, Fail, DescriptorsOwned
<1>8. ConnectIsTrue'
  BY DEF Fail, Return, Goto, TypeOK, SocketInv, ConnectIsTrue, State
<1> QED BY <1>4, <1>5, <1>6, <1>7, <1>8 DEF SocketInv

(* An operation goes on, or waits, and keeps what it relies on. *)
LEMMA GoOnStep ==
  ASSUME SocketInv, NEW s \in Object, NEW label \in Labels,
         \/ {pc[s], label} \subseteq {"connect", "waitconnect", "check", "listen"}
         \/ {pc[s], label} \subseteq Sending
         \/ {pc[s], label} \subseteq Receiving
         \/ {pc[s], label} \subseteq Accepting,
         GoOn(s, label)
  PROVE  SocketInv'
<1>4. TypeOK'
  BY DEF GoOn, Goto, sendVars, TypeOK, Labels, SocketInv
<1>5. SendOK'
  BY
     DEF SendOK, SocketInv, GoOn, Goto, sendVars, Sending, Receiving,
         Accepting, TypeOK
<1>6. Reliance'
  BY
     DEF GoOn, Goto, TypeOK, SocketInv, Reliance, State, Sending, Receiving,
         Accepting
<1>7. DescriptorsOwned'
  BY DEF SocketInv, GoOn, DescriptorsOwned
<1>8. ConnectIsTrue'
  BY
     DEF GoOn, Goto, TypeOK, SocketInv, ConnectIsTrue, State, Sending,
         Receiving, Accepting
<1> QED BY <1>4, <1>5, <1>6, <1>7, <1>8 DEF SocketInv

(* A step of s that changes what the kernel keeps of its descriptor. *)
EntryStep(s, k) ==
  /\ k \in Entry /\ k.state \notin NoSocket
  /\ kernel' = [kernel EXCEPT ![fd[s]] = k]
  /\ fd[s] # None
  /\ UNCHANGED <<fd, target>>

(* Such a step disturbs no other object, since no other has the descriptor. *)
LEMMA EntryOwners ==
  ASSUME SocketInv, NEW s \in Object, NEW k, EntryStep(s, k)
  PROVE  /\ DescriptorsOwned'
         /\ kernel' \in [Descriptor -> Entry]
         /\ fd[s] \in Descriptor
         /\ kernel'[fd[s]] = k
         /\ \A t \in Object : t # s /\ fd[t] # None => kernel'[fd[t]] = kernel[fd[t]]
<1>1. fd[s] \in Descriptor
  BY DEF SocketInv, TypeOK, EntryStep
<1>2. kernel \in [Descriptor -> Entry]
  BY DEF SocketInv, TypeOK, Entry
<1>3. kernel' \in [Descriptor -> Entry] /\ kernel'[fd[s]] = k
  BY <1>1, <1>2 DEF EntryStep
<1>4. kernel[fd[s]].state \notin NoSocket
  BY <1>1 DEF SocketInv, DescriptorsOwned
<1>5. SameOpen({})
  BY <1>1, <1>2, <1>4 DEF SameOpen, EntryStep
<1>6. DescriptorsOwned'
  BY <1>5, OwnersKept DEF SocketInv, EntryStep
<1>7. \A t \in Object : t # s /\ fd[t] # None => kernel'[fd[t]] = kernel[fd[t]]
  BY <1>1, <1>2 DEF SocketInv, DescriptorsOwned, EntryStep, TypeOK
<1> QED BY <1>1, <1>3, <1>6, <1>7

(* A step of an operation that changes its own descriptor keeps the invariant,
   if what the thread relies on at its next label is true of the descriptor. *)
LEMMA EntryPreserves ==
  ASSUME SocketInv, NEW s \in Object, NEW k, EntryStep(s, k),
         NEW label \in Labels \ (Accepting \cup {"lent"}),
         pc[s] \notin Accepting \cup {"lent"}, Goto(s, label), result' \in [Object -> Results],
         label \in Sending \cup Receiving => k.state \in {"connected", "reset"},
         label = "idle" => k.state \in {"connected", "reset", "listening"},
         pos' \in [Object -> 1..Size], len' \in [Object -> 0..Size],
         label \in Sending => pos'[s] + len'[s] = Size + 1,
         \A t \in Object \ {s} : pos'[t] = pos[t] /\ len'[t] = len[t]
  PROVE  SocketInv'
<1>1. /\ DescriptorsOwned'
      /\ kernel' \in [Descriptor -> Entry]
      /\ kernel'[fd[s]] = k
      /\ \A t \in Object : t # s /\ fd[t] # None => kernel'[fd[t]] = kernel[fd[t]]
  BY EntryOwners
<1>2. fd' = fd /\ target' = target /\ fd[s] # None
  BY DEF EntryStep
<1>3. \A t \in Object : pc'[t] = IF t = s THEN label ELSE pc[t]
  BY DEF Goto, SocketInv, TypeOK
<1>4. TypeOK'
  BY <1>1, <1>2 DEF Goto, TypeOK, SocketInv, Entry
<1>5. SendOK'
  BY <1>3 DEF SendOK, SocketInv
<1>6. Reliance'
  <2>1. ASSUME NEW t \in Object, pc'[t] \notin {"idle", "lent"}
        PROVE  fd'[t] # None
    BY <1>2, <1>3, <2>1 DEF SocketInv, Reliance
  <2>2. ASSUME NEW t \in Object, pc'[t] \in Sending \cup Receiving
        PROVE  kernel'[fd'[t]].state \in {"connected", "reset"}
    <3>1. CASE t = s
      BY <1>1, <1>2, <1>3, <2>2, <3>1
    <3>2. CASE t # s
      <4>1. pc[t] \in Sending \cup Receiving /\ fd[t] # None
        BY <1>3, <2>2, <3>2 DEF SocketInv, Reliance, Sending, Receiving
      <4>2. kernel[fd[t]].state \in {"connected", "reset"}
        BY <4>1 DEF SocketInv, Reliance, State
      <4> QED BY <1>1, <1>2, <3>2, <4>1, <4>2
    <3> QED BY <3>1, <3>2
  <2>3. ASSUME NEW t \in Object, pc'[t] \in Accepting
        PROVE  /\ t # s /\ pc[t] \in Accepting /\ target[t] \in Object
               /\ kernel'[fd'[t]].state = "listening"
               /\ pc'[target'[t]] = "lent" /\ fd'[target'[t]] = None
    <3>1. t # s /\ pc[t] \in Accepting
      BY <1>3, <2>3
    <3>2. /\ kernel[fd[t]].state = "listening" /\ fd[t] # None
          /\ target[t] \in Object /\ pc[target[t]] = "lent" /\ fd[target[t]] = None
      BY <3>1 DEF SocketInv, TypeOK, Reliance, State, Accepting
    <3> QED BY <1>1, <1>2, <1>3, <3>1, <3>2
  <2> QED BY <1>2, <2>1, <2>2, <2>3 DEF SocketInv, Reliance, State
<1>7. ConnectIsTrue'
  BY <1>1, <1>2, <1>3 DEF SocketInv, ConnectIsTrue, State
<1> QED BY <1>1, <1>4, <1>5, <1>6, <1>7 DEF SocketInv

(* The number that an object holds is that of an open descriptor. *)
LEMMA HoldsDescriptor ==
  ASSUME SocketInv, NEW s \in Object, fd[s] # None
  PROVE  /\ fd[s] \in Descriptor /\ kernel[fd[s]] \in Entry
         /\ State(s) \notin NoSocket /\ kernel[fd[s]].state = State(s)
<1>1. fd[s] \in Descriptor
  BY DEF SocketInv, TypeOK
<1> QED BY <1>1 DEF SocketInv, TypeOK, Entry, State, DescriptorsOwned

(* connect() after socket(). *)
LEMMA ConnectSteps ==
  ASSUME SocketInv, NEW s \in Object,
         ConnectStarts(s) \/ WaitConnect(s) \/ CheckError(s)
  PROVE  SocketInv'
<1> USE DEF Accepting, Sending, Receiving
<1>1. ASSUME pc[s] \in {"connect", "waitconnect", "check"}, Abandon(s) PROVE SocketInv'
  BY <1>1, AbandonStep
<1>2. CASE ConnectStarts(s)
  <2>1. fd[s] # None
    BY <1>2 DEF ConnectStarts, SocketInv, Reliance
  <2>2. ASSUME NEW state \in {"connected", "pending"}, NEW label \in {"check", "waitconnect"},
               pc[s] = "connect",
               kernel' = [kernel EXCEPT ![fd[s]].state = state],
               Goto(s, label), UNCHANGED <<fd, target, sendVars, result>>
        PROVE  SocketInv'
    <3> DEFINE k == [kernel[fd[s]] EXCEPT !.state = state]
    <3>1. k \in Entry /\ k.state = state
      BY <2>1, HoldsDescriptor DEF Entry, States
    <3>2. kernel' = [kernel EXCEPT ![fd[s]] = k]
      BY <2>2
    <3>3. EntryStep(s, k)
      BY <2>1, <2>2, <3>1, <3>2 DEF EntryStep, NoSocket
    <3>4. /\ pos' \in [Object -> 1..Size] /\ len' \in [Object -> 0..Size]
          /\ pos' = pos /\ len' = len /\ result' \in [Object -> Results]
      BY <2>2 DEF SocketInv, TypeOK, sendVars
    <3> HIDE DEF k
    <3> QED BY <2>2, <3>1, <3>3, <3>4, EntryPreserves DEF Labels
  <2> QED BY <1>1, <1>2, <2>2 DEF ConnectStarts
<1>3. CASE WaitConnect(s)
  BY <1>1, <1>3, GoOnStep DEF WaitConnect, Labels
<1>4. CASE CheckError(s)
  BY <1>1, <1>4, ReturnStep DEF CheckError, Results
<1> QED BY <1>2, <1>3, <1>4

(* listen() after socket(). *)
LEMMA ListenStep ==
  ASSUME SocketInv, NEW s \in Object, Listen(s)
  PROVE  SocketInv'
<1> USE DEF Accepting, Sending, Receiving
<1>1. CASE Abandon(s)
  BY <1>1, AbandonStep DEF Listen
<1>2. CASE /\ kernel' = [kernel EXCEPT ![fd[s]].state = "listening"]
           /\ Return(s, "listening")
           /\ UNCHANGED <<fd, target>>
  <2> DEFINE k == [kernel[fd[s]] EXCEPT !.state = "listening"]
  <2>1. fd[s] # None
    BY DEF Listen, SocketInv, Reliance
  <2>2. k \in Entry /\ k.state = "listening"
    BY <2>1, HoldsDescriptor DEF Entry, States
  <2>3. kernel' = [kernel EXCEPT ![fd[s]] = k]
    BY <1>2
  <2>4. EntryStep(s, k)
    BY <1>2, <2>1, <2>2, <2>3 DEF EntryStep, NoSocket
  <2>5. /\ pos' \in [Object -> 1..Size] /\ len' \in [Object -> 0..Size]
        /\ \A t \in Object \ {s} : pos'[t] = pos[t] /\ len'[t] = len[t]
        /\ result' \in [Object -> Results]
    BY <1>2, SocketAssumption DEF Return, SocketInv, TypeOK, Results
  <2> HIDE DEF k
  <2> QED BY <1>2, <2>2, <2>4, <2>5, EntryPreserves DEF Return, Listen, Labels
<1> QED BY <1>1, <1>2 DEF Listen

(* close() of an idle object. *)
LEMMA CloseStep ==
  ASSUME SocketInv, NEW s \in Object, Close(s)
  PROVE  SocketInv'
<1>1. fd[s] # None /\ fd[s] \in Descriptor
  BY DEF SocketInv, Close, TypeOK
<1>2. Closed \in Entry /\ Closed.state = "free"
  BY ClosedEntry
<1>4. TypeOK'
  BY <1>1, <1>2 DEF Close, Release, TypeOK, Entry, SocketInv, Results, sendVars
<1>5. SendOK'
  BY DEF SendOK, SocketInv, Close, sendVars
<1>6. Reliance'
  BY <1>1
     DEF Close, Release, TypeOK, SocketInv, Reliance, DescriptorsOwned,
         State, Sending, Receiving, Accepting
<1>7. DescriptorsOwned'
  BY <1>1, OwnerLost DEF SocketInv, Close
<1>8. ConnectIsTrue'
  BY <1>1
     DEF Close, Release, TypeOK, SocketInv, DescriptorsOwned, ConnectIsTrue,
         State
<1> QED BY <1>4, <1>5, <1>6, <1>7, <1>8 DEF SocketInv

(* The constructor that moves. *)
LEMMA MoveStep ==
  ASSUME SocketInv, NEW s \in Object, NEW t \in Object, Move(s, t)
  PROVE  SocketInv'
<1>4. TypeOK'
  BY DEF Move, TypeOK, SocketInv, Results, sendVars
<1>5. SendOK'
  BY DEF SendOK, SocketInv, Move, sendVars
<1>6. Reliance'
  <2>1. \A u \in Object :
          fd'[u] = IF u = s THEN None ELSE IF u = t THEN fd[s] ELSE fd[u]
    BY DEF Move, SocketInv, TypeOK
  <2>2. /\ pc' = pc /\ kernel' = kernel /\ target' = target
        /\ target \in [Object -> Object]
        /\ pc[s] = "idle" /\ pc[t] = "idle"
    BY DEF Move, SocketInv, TypeOK
  <2>3. \A u \in Object : pc[u] # "idle" => fd'[u] = fd[u]
    BY <2>1, <2>2
  <2>4. ASSUME NEW u \in Object, pc[u] \in Accepting
        PROVE  target[u] \in Object /\ pc[target[u]] = "lent" /\ fd'[target[u]] = None
    BY <2>2, <2>3, <2>4 DEF SocketInv, Reliance
  <2> QED BY <2>2, <2>3, <2>4
          DEF SocketInv, Reliance, State, Sending, Receiving, Accepting
<1>7. DescriptorsOwned'
  BY OwnerMoved DEF SocketInv
<1>8. ConnectIsTrue'
  BY DEF Move, TypeOK, SocketInv, ConnectIsTrue, State
<1> QED BY <1>4, <1>5, <1>6, <1>7, <1>8 DEF SocketInv

-----------------------------------------------------------------------------
(* accept() borrows an object that nobody else fills. *)
LEMMA StartAcceptStep ==
  ASSUME SocketInv, NEW s \in Object, NEW t \in Object, StartAccept(s, t)
  PROVE  SocketInv'
<1>1. PICK label \in {"accept", "acceptlast"} :
        pc' = [pc EXCEPT ![s] = label, ![t] = "lent"]
  BY DEF StartAccept
<1>2. /\ s # t /\ fd[s] # None /\ State(s) = "listening" /\ fd[t] = None
      /\ pc[s] = "idle" /\ pc[t] = "idle"
      /\ fd' = fd /\ kernel' = kernel /\ pos' = pos /\ len' = len
  BY DEF StartAccept, sendVars
<1>3. \A u \in Object :
        /\ pc'[u] = IF u = s THEN label ELSE IF u = t THEN "lent" ELSE pc[u]
        /\ target'[u] = IF u = s THEN t ELSE target[u]
        /\ target[u] \in Object
  BY <1>1, <1>2 DEF StartAccept, SocketInv, TypeOK
<1>4. TypeOK'
  BY <1>1, <1>2 DEF StartAccept, TypeOK, SocketInv, Labels, Results
<1>5. SendOK'
  BY <1>2, <1>3 DEF SendOK, SocketInv, Sending
<1>6. Reliance'
  <2>1. ASSUME NEW u \in Object, pc'[u] \in Accepting
        PROVE  /\ target'[u] \in Object /\ pc'[target'[u]] = "lent"
               /\ fd[target'[u]] = None /\ kernel[fd[u]].state = "listening"
               /\ u # s => pc[u] \in Accepting /\ target[u] # t
    <3>1. CASE u = s
      BY <1>2, <1>3, <3>1 DEF State
    <3>2. CASE u # s
      <4>1. pc[u] \in Accepting
        BY <1>3, <2>1, <3>2 DEF Accepting
      <4>2. pc[target[u]] = "lent" /\ fd[target[u]] = None
            /\ kernel[fd[u]].state = "listening"
        BY <4>1 DEF SocketInv, Reliance, State
      <4> QED BY <1>2, <1>3, <3>2, <4>1, <4>2
    <3> QED BY <3>1, <3>2
  <2>2. ASSUME NEW u \in Object, NEW v \in Object, pc'[u] \in Accepting,
               pc'[v] \in Accepting, target'[u] = target'[v]
        PROVE  u = v
    BY <1>3, <2>1, <2>2 DEF SocketInv, Reliance
  <2>3. \A u \in Object : pc'[u] \notin {"idle", "lent"} => fd[u] # None
    BY <1>2, <1>3 DEF SocketInv, Reliance
  <2>4. \A u \in Object : pc'[u] \in Sending \cup Receiving =>
          kernel[fd[u]].state \in {"connected", "reset"}
    BY <1>3 DEF SocketInv, Reliance, State, Sending, Receiving
  <2> QED BY <1>2, <2>1, <2>2, <2>3, <2>4 DEF Reliance, State
<1>7. DescriptorsOwned'
  BY <1>2 DEF SocketInv, DescriptorsOwned
<1>8. ConnectIsTrue'
  BY <1>2, <1>3 DEF SocketInv, ConnectIsTrue, State
<1> QED BY <1>4, <1>5, <1>6, <1>7, <1>8 DEF SocketInv

(* accept() gives back the object it filled, and no other. *)
LEMMA AcceptEnds ==
  ASSUME SocketInv, NEW s \in Object, pc[s] \in Accepting, NEW r \in Results,
         AcceptReturns(s, r)
  PROVE  /\ target[s] \in Object /\ target[s] # s /\ fd[target[s]] = None
         /\ fd[s] # None /\ State(s) = "listening" /\ pos' = pos /\ len' = len
         /\ pc' \in [Object -> Labels] /\ target' \in [Object -> Object]
         /\ result' \in [Object -> Results]
         /\ \A u \in Object :
              /\ pc'[u] = IF u \in {s, target[s]} THEN "idle" ELSE pc[u]
              /\ pc'[u] \in Accepting =>
                   /\ pc[u] \in Accepting /\ u # s
                   /\ target'[u] = target[u] /\ target[u] # target[s]
                   /\ target[u] \in Object /\ target[u] # s
                   /\ pc'[target[u]] = "lent"
<1>1. /\ target[s] \in Object /\ target[s] # s /\ fd[target[s]] = None
      /\ fd[s] # None /\ State(s) = "listening"
  BY DEF SocketInv, Reliance, TypeOK, Accepting
<1>2. /\ pos' = pos /\ len' = len
      /\ pc' \in [Object -> Labels] /\ target' \in [Object -> Object]
      /\ result' \in [Object -> Results]
  BY <1>1 DEF AcceptReturns, sendVars, SocketInv, TypeOK, Labels
<1>3. \A u \in Object :
        /\ pc'[u] = IF u \in {s, target[s]} THEN "idle" ELSE pc[u]
        /\ u # s => target'[u] = target[u]
  BY <1>1 DEF AcceptReturns, SocketInv, TypeOK
<1>4. ASSUME NEW u \in Object, pc'[u] \in Accepting
      PROVE  /\ pc[u] \in Accepting /\ u # s
             /\ target'[u] = target[u] /\ target[u] # target[s]
             /\ target[u] \in Object /\ target[u] # s
             /\ pc'[target[u]] = "lent"
  <2>1. pc[u] \in Accepting /\ u # s
    BY <1>3, <1>4 DEF Accepting
  <2>2. target[u] # target[s] /\ pc[target[u]] = "lent" /\ target[u] \in Object
    BY <2>1 DEF SocketInv, Reliance, TypeOK
  <2>3. target[u] # s
    BY <2>2 DEF Accepting
  <2> QED BY <1>3, <2>1, <2>2, <2>3
<1> QED BY <1>1, <1>2, <1>3, <1>4

(* accept() returns without a connection. *)
LEMMA AcceptReturnsStep ==
  ASSUME SocketInv, NEW s \in Object, pc[s] \in Accepting, NEW r \in Results,
         AcceptReturns(s, r), UNCHANGED <<fd, kernel>>
  PROVE  SocketInv'
<1>1. /\ fd[target[s]] = None /\ fd[s] # None /\ State(s) = "listening"
      /\ fd' = fd /\ kernel' = kernel
  BY AcceptEnds
<1>2. TypeOK'
  BY <1>1, AcceptEnds DEF SocketInv, TypeOK
<1>3. SendOK'
  BY AcceptEnds DEF SendOK, SocketInv, Sending
<1>4. Reliance'
  <2>1. \A u \in Object : pc'[u] \notin {"idle", "lent"} => fd[u] # None
    BY AcceptEnds DEF SocketInv, Reliance
  <2>2. \A u \in Object : pc'[u] \in Sending \cup Receiving =>
          State(u) \in {"connected", "reset"}
    BY AcceptEnds DEF SocketInv, Reliance, Sending, Receiving
  <2>3. \A u \in Object : pc'[u] \in Accepting =>
          /\ State(u) = "listening" /\ pc'[target'[u]] = "lent"
          /\ fd[target'[u]] = None /\ target'[u] = target[u] /\ pc[u] \in Accepting
    BY AcceptEnds DEF SocketInv, Reliance
  <2>4. \A u, v \in Object :
          pc'[u] \in Accepting /\ pc'[v] \in Accepting /\ target'[u] = target'[v]
            => u = v
    BY <2>3 DEF SocketInv, Reliance
  <2> QED BY <1>1, <2>1, <2>2, <2>3, <2>4 DEF Reliance, State
<1>5. DescriptorsOwned'
  BY <1>1 DEF SocketInv, DescriptorsOwned
<1>6. ConnectIsTrue'
  BY <1>1, AcceptEnds DEF SocketInv, ConnectIsTrue, State
<1> QED BY <1>2, <1>3, <1>4, <1>5, <1>6 DEF SocketInv

(* accept() fills the object with a new descriptor. *)
LEMMA AcceptStep ==
  ASSUME SocketInv, NEW s \in Object, Accept(s)
  PROVE  SocketInv'
<1> DEFINE t == target[s]
<1>1. pc[s] \in Accepting /\ AcceptReturns(s, "accepted") /\ "accepted" \in Results
  BY DEF Accept, Accepting, Results
<1>2. PICK d \in FreeDescriptors :
        /\ fd' = [fd EXCEPT ![t] = d]
        /\ kernel' = [kernel EXCEPT ![fd[s]].waiting = @ - 1,
                                    ![d] = Opened("connected")]
  BY DEF Accept
<1>3. d \in Descriptor /\ kernel[d].state = "free" /\ d # None
  BY SocketAssumption DEF FreeDescriptors, None
<1>4. /\ t \in Object /\ t # s /\ fd[t] = None
      /\ fd[s] # None /\ State(s) = "listening"
      /\ pos' = pos /\ len' = len
  BY <1>1, AcceptEnds
<1>5. fd[s] \in Descriptor /\ kernel[fd[s]] \in Entry /\ fd[s] # d
  BY <1>3, <1>4, HoldsDescriptor
<1>6. Opened("connected") \in Entry /\ Opened("connected").state = "connected"
  BY OpenedEntry DEF States
<1>7. kernel \in [Descriptor -> Entry] /\ kernel[fd[s]].waiting > 0
  BY DEF SocketInv, TypeOK, Entry, Accept
<1> DEFINE k == [kernel[fd[s]] EXCEPT !.waiting = @ - 1]
<1>8. k \in Entry /\ k.state = "listening"
  BY <1>4, <1>5, <1>7, EntryUpdates DEF State
<1>9. kernel' = [[kernel EXCEPT ![fd[s]] = k] EXCEPT ![d] = Opened("connected")]
  BY <1>2, <1>5, <1>7
<1> HIDE DEF k
<1>10. /\ kernel' \in [Descriptor -> Entry]
       /\ \A e \in Descriptor :
            kernel'[e].state = IF e = d THEN "connected" ELSE kernel[e].state
  BY <1>3, <1>4, <1>5, <1>6, <1>7, <1>8, <1>9 DEF State
<1>11. \A u \in Object : fd'[u] = IF u = t THEN d ELSE fd[u]
  BY <1>2, <1>4 DEF SocketInv, TypeOK
<1>12. TypeOK'
  <2>1. fd' \in [Object -> Descriptor \cup {None}]
    BY <1>2, <1>3 DEF SocketInv, TypeOK
  <2> QED BY <1>1, <1>4, <1>10, <2>1, AcceptEnds DEF SocketInv, TypeOK, Entry
<1>13. SendOK'
  BY <1>1, AcceptEnds DEF SendOK, SocketInv, Sending
<1>14. ASSUME NEW u \in Object, u # t, fd[u] # None
       PROVE  kernel'[fd'[u]].state = kernel[fd[u]].state
  <2>1. fd'[u] = fd[u] /\ fd[u] \in Descriptor
    BY <1>11, <1>14 DEF SocketInv, TypeOK
  <2>2. fd[u] # d
    BY <1>3, <2>1 DEF SocketInv, DescriptorsOwned, NoSocket
  <2> QED BY <1>10, <2>1, <2>2
<1>15. pc'[t] = "idle" /\ kernel'[fd'[t]].state = "connected"
  BY <1>1, <1>3, <1>4, <1>10, <1>11, AcceptEnds
<1>16. Reliance'
  <2>1. \A u \in Object : pc'[u] \notin {"idle", "lent"} => u # t /\ fd[u] # None
    BY <1>1, <1>4, AcceptEnds DEF SocketInv, Reliance
  <2>2. ASSUME NEW u \in Object, pc'[u] \in Sending \cup Receiving
        PROVE  kernel'[fd'[u]].state \in {"connected", "reset"}
    <3>1. u # t /\ fd[u] # None /\ pc[u] \in Sending \cup Receiving
      BY <1>1, <1>4, <2>1, <2>2, AcceptEnds DEF Sending, Receiving
    <3> QED BY <3>1, <1>14 DEF SocketInv, Reliance, State
  <2>3. ASSUME NEW u \in Object, pc'[u] \in Accepting
        PROVE  /\ kernel'[fd'[u]].state = "listening" /\ pc'[target'[u]] = "lent"
               /\ fd'[target'[u]] = None /\ target'[u] = target[u] /\ pc[u] \in Accepting
    <3>1. /\ pc[u] \in Accepting /\ target'[u] = target[u] /\ target[u] # t
          /\ target[u] \in Object /\ pc'[target[u]] = "lent"
      BY <1>1, <2>3, AcceptEnds
    <3>2. u # t /\ fd[u] # None
      BY <2>1, <2>3 DEF Accepting
    <3>3. kernel[fd[u]].state = "listening" /\ fd[target[u]] = None
      BY <3>1 DEF SocketInv, Reliance, State
    <3> QED BY <1>11, <1>14, <3>1, <3>2, <3>3
  <2>4. \A u, v \in Object :
          pc'[u] \in Accepting /\ pc'[v] \in Accepting /\ target'[u] = target'[v]
            => u = v
    BY <2>3 DEF SocketInv, Reliance
  <2>5. \A u \in Object : pc'[u] \notin {"idle", "lent"} => fd'[u] # None
    BY <1>11, <2>1
  <2> QED BY <2>2, <2>3, <2>4, <2>5 DEF Reliance, State
<1>17. DescriptorsOwned'
  <2>1. SameOpen({d}) /\ kernel'[d].state \notin NoSocket
    BY <1>3, <1>10 DEF SameOpen, NoSocket
  <2> QED BY <1>2, <1>3, <1>4, <2>1, OwnerGained DEF SocketInv
<1>18. ConnectIsTrue'
  <2>1. ASSUME NEW u \in Object, u # t, pc'[u] = "idle", fd'[u] # None
        PROVE  kernel'[fd'[u]].state \in {"connected", "reset", "listening"}
    <3>1. fd[u] # None
      BY <1>11, <2>1
    <3>2. CASE u = s
      BY <1>4, <1>14, <2>1, <3>2 DEF State
    <3>3. CASE u # s
      <4>1. pc[u] = "idle"
        BY <1>1, <2>1, <3>3, AcceptEnds
      <4> QED BY <1>14, <2>1, <3>1, <4>1 DEF SocketInv, ConnectIsTrue, State
    <3> QED BY <3>2, <3>3
  <2> QED BY <1>15, <2>1 DEF ConnectIsTrue, State
<1> QED BY <1>12, <1>13, <1>16, <1>17, <1>18 DEF SocketInv

(* The three steps of accept(). *)
LEMMA AcceptSteps ==
  ASSUME SocketInv, NEW s \in Object,
         Accept(s) \/ AcceptFails(s) \/ WaitAccept(s)
  PROVE  SocketInv'
<1>1. ASSUME pc[s] \in Accepting, AcceptReturns(s, "failed"), UNCHANGED <<fd, kernel>>
      PROVE  SocketInv'
  BY <1>1, AcceptReturnsStep DEF Results
<1>2. CASE AcceptFails(s)
  BY <1>1, <1>2, GoOnStep DEF AcceptFails, Accepting, Labels
<1>3. CASE WaitAccept(s)
  BY <1>1, <1>3, GoOnStep DEF WaitAccept, Accepting, Labels
<1> QED BY <1>2, <1>3, AcceptStep

-----------------------------------------------------------------------------
(* The steps of send(). *)
LEMMA SendSteps ==
  ASSUME SocketInv, NEW s \in Object,
         StartSend(s) \/ SendSome(s) \/ SendNothing(s) \/ WaitSend(s)
  PROVE  SocketInv'
<1>1. CASE StartSend(s)
  <2> DEFINE k == [kernel[fd[s]] EXCEPT !.stream = <<>>]
  <2>1. fd[s] # None /\ State(s) \in {"connected", "reset"} /\ pc[s] = "idle"
    BY <1>1 DEF StartSend, HasConnection, Call
  <2>2. k \in Entry /\ k.state = State(s)
    BY <2>1, HoldsDescriptor, EntryUpdates, EmptySeq
  <2>3. kernel' = [kernel EXCEPT ![fd[s]] = k]
    BY <1>1 DEF StartSend
  <2>4. EntryStep(s, k)
    BY <1>1, <2>1, <2>2, <2>3 DEF EntryStep, StartSend, NoSocket
  <2>5. /\ pos' \in [Object -> 1..Size] /\ len' \in [Object -> 0..Size]
        /\ pos'[s] + len'[s] = Size + 1
        /\ \A t \in Object \ {s} : pos'[t] = pos[t] /\ len'[t] = len[t]
        /\ result' \in [Object -> Results] /\ Goto(s, "send")
    BY <1>1, SocketAssumption DEF StartSend, Call, SocketInv, TypeOK, Results
  <2> HIDE DEF k
  <2> QED BY <2>1, <2>2, <2>4, <2>5, EntryPreserves
          DEF Labels, Accepting, Sending, Receiving
<1>2. CASE SendSome(s)
  <2>1. fd[s] # None /\ State(s) = "connected" /\ pc[s] = "send"
    BY <1>2 DEF SendSome, SocketInv, Reliance
  <2>2. PICK n \in 1..len[s] :
          /\ n <= kernel[fd[s]].room
          /\ kernel' = Takes(fd[s], pos[s], n)
          /\ IF n = len[s] THEN Return(s, "sent")
             ELSE /\ pos' = [pos EXCEPT ![s] = @ + n]
                  /\ len' = [len EXCEPT ![s] = @ - n]
                  /\ UNCHANGED <<pc, result>>
    BY <1>2 DEF SendSome
  <2>3. pos[s] \in 1..Size /\ len[s] \in 0..Size /\ pos[s] + len[s] = Size + 1
    BY <2>1 DEF SocketInv, TypeOK, SendOK, Sending
  <2> DEFINE units == [i \in 1..n |-> pos[s] + i - 1]
             k == [kernel[fd[s]] EXCEPT !.room = @ - n, !.stream = @ \o units]
  <2>4. units \in Seq(1..Size)
    <3>1. units \in [1..n -> 1..Size]
      BY <2>3, SocketAssumption
    <3>2. n \in Nat
      BY <2>3
    <3> HIDE DEF units
    <3> QED BY <3>1, <3>2, SeqDef
  <2>5. kernel[fd[s]] \in Entry /\ kernel[fd[s]].state = "connected"
    BY <2>1, HoldsDescriptor
  <2>6. kernel[fd[s]].stream \o units \in Seq(1..Size)
    BY <2>4, <2>5, ConcatProperties DEF Entry
  <2>7. kernel[fd[s]].room - n \in 0..Room
    <3>1. kernel[fd[s]].room \in 0..Room
      BY <2>5 DEF Entry
    <3>2. n <= kernel[fd[s]].room /\ n \in Nat
      BY <2>2, <2>3
    <3> QED BY <3>1, <3>2, SocketAssumption
  <2>8. kernel' = [kernel EXCEPT ![fd[s]] = k]
    BY <2>2 DEF Takes
  <2> HIDE DEF units
  <2>9. k \in Entry /\ k.state = "connected"
    BY <2>5, <2>6, <2>7 DEF Entry
  <2> HIDE DEF k
  <2>10. EntryStep(s, k)
    BY <1>2, <2>1, <2>8, <2>9 DEF EntryStep, SendSome, NoSocket
  <2>11. CASE n = len[s]
    <3>1. /\ pos' \in [Object -> 1..Size] /\ len' \in [Object -> 0..Size]
          /\ \A t \in Object \ {s} : pos'[t] = pos[t] /\ len'[t] = len[t]
          /\ result' \in [Object -> Results] /\ Goto(s, "idle")
      <4>1. Return(s, "sent")
        BY <2>2, <2>11
      <4> QED BY <4>1, SocketAssumption DEF Return, SocketInv, TypeOK, Results
    <3> QED BY <2>1, <2>9, <2>10, <3>1, EntryPreserves
            DEF Labels, Accepting, Sending, Receiving
  <2>12. CASE n # len[s]
    <3>1. /\ pos' = [pos EXCEPT ![s] = @ + n] /\ len' = [len EXCEPT ![s] = @ - n]
          /\ pc' = pc /\ result' = result
      BY <2>2, <2>12
    <3>2. pos[s] + n \in 1..Size /\ len[s] - n \in 0..Size
      BY <2>3, <2>12, SocketAssumption
    <3>3. /\ pos' \in [Object -> 1..Size] /\ len' \in [Object -> 0..Size]
          /\ pos'[s] + len'[s] = Size + 1
          /\ \A t \in Object \ {s} : pos'[t] = pos[t] /\ len'[t] = len[t]
      BY <2>3, <3>1, <3>2, SocketAssumption DEF SocketInv, TypeOK
    <3>4. result' \in [Object -> Results] /\ Goto(s, "send")
      BY <2>1, <3>1 DEF Goto, SocketInv, TypeOK
    <3> QED BY <2>1, <2>9, <2>10, <3>3, <3>4, EntryPreserves
            DEF Labels, Accepting, Sending, Receiving
  <2> QED BY <2>11, <2>12
<1>3. CASE SendNothing(s) \/ WaitSend(s)
  <2>1. pc[s] \in Sending /\ State(s) \in {"connected", "reset"}
    BY <1>3 DEF SendNothing, WaitSend, Sending, SocketInv, Reliance
  <2> QED BY <1>3, <2>1, GoOnStep, ReturnStep
          DEF SendNothing, WaitSend, Sending, Accepting, Labels, Results
<1> QED BY <1>1, <1>2, <1>3

(* The steps of recv(). *)
LEMMA ReceiveSteps ==
  ASSUME SocketInv, NEW s \in Object,
         StartReceive(s) \/ Receive(s) \/ WaitReceive(s)
  PROVE  SocketInv'
<1>1. CASE StartReceive(s)
  <2>1. PICK label \in {"recv", "recvlast"} : Call(s, label)
    BY <1>1 DEF StartReceive
  <2>2. fd[s] # None /\ State(s) \in {"connected", "reset"} /\ pc[s] = "idle"
    BY <1>1, <2>1 DEF StartReceive, HasConnection, Call
  <2> DEFINE k == kernel[fd[s]]
  <2>3. k \in Entry /\ k.state = State(s)
    BY <2>2, HoldsDescriptor
  <2>4. kernel' = [kernel EXCEPT ![fd[s]] = k]
    BY <1>1, <2>2 DEF StartReceive, SocketInv, TypeOK
  <2> HIDE DEF k
  <2>5. EntryStep(s, k)
    BY <1>1, <2>2, <2>3, <2>4 DEF EntryStep, StartReceive, NoSocket
  <2>6. /\ pos' = pos /\ len' = len /\ result' \in [Object -> Results]
        /\ pos \in [Object -> 1..Size] /\ len \in [Object -> 0..Size]
        /\ Goto(s, label)
    BY <1>1, <2>1 DEF StartReceive, Call, SocketInv, TypeOK, Results, sendVars
  <2> QED BY <2>2, <2>3, <2>5, <2>6, EntryPreserves
          DEF Labels, Accepting, Sending, Receiving
<1>2. CASE Receive(s)
  <2>1. /\ pc[s] \in {"recv", "recvlast"} /\ fd[s] # None
        /\ State(s) \in {"connected", "reset"}
    BY <1>2 DEF Receive, Receiving, SocketInv, Reliance
  <2>2. CASE /\ kernel[fd[s]].waiting > 0 /\ Return(s, "received")
             /\ kernel' = [kernel EXCEPT ![fd[s]].waiting = @ - 1]
             /\ UNCHANGED <<fd, target>>
    <3> DEFINE k == [kernel[fd[s]] EXCEPT !.waiting = @ - 1]
    <3>1. k \in Entry /\ k.state = State(s)
      BY <2>1, <2>2, HoldsDescriptor, EntryUpdates
    <3>2. kernel' = [kernel EXCEPT ![fd[s]] = k]
      BY <2>2
    <3>3. EntryStep(s, k)
      BY <2>1, <2>2, <3>1, <3>2 DEF EntryStep, NoSocket
    <3>4. /\ pos' \in [Object -> 1..Size] /\ len' \in [Object -> 0..Size]
          /\ \A t \in Object \ {s} : pos'[t] = pos[t] /\ len'[t] = len[t]
          /\ result' \in [Object -> Results] /\ Goto(s, "idle")
      BY <2>2, SocketAssumption DEF Return, SocketInv, TypeOK, Results
    <3> HIDE DEF k
    <3> QED BY <2>1, <3>1, <3>3, <3>4, EntryPreserves
            DEF Labels, Accepting, Sending, Receiving
  <2>3. CASE Fail(s, "eof") \/ Fail(s, "failed")
    BY <2>1, <2>3, ReturnStep DEF Accepting, Results
  <2>4. CASE pc[s] = "recv" /\ GoOn(s, "waitrecv")
    BY <2>4, GoOnStep DEF Receiving, Labels
  <2> QED BY <1>2, <2>2, <2>3, <2>4 DEF Receive
<1>3. CASE WaitReceive(s)
  <2>1. pc[s] = "waitrecv" /\ State(s) \in {"connected", "reset"}
    BY <1>3 DEF WaitReceive, Receiving, SocketInv, Reliance
  <2> QED BY <1>3, <2>1, GoOnStep, ReturnStep
          DEF WaitReceive, Receiving, Accepting, Labels, Results
<1> QED BY <1>1, <1>2, <1>3

(* Peers change what the kernel keeps, and neither open nor close a descriptor. *)
LEMMA NetworkStep ==
  ASSUME SocketInv, NEW d \in Descriptor, Network(d)
  PROVE  SocketInv'
<1>1. kernel[d] \in Entry
  BY DEF SocketInv, TypeOK, Entry
<1>2. PICK k \in Entry :
        /\ Change(d, k)
        /\ \/ kernel[d].state = "pending" /\ k.state \in {"connected", "refused"}
           \/ kernel[d].state = "connected" /\ k.state \in {"connected", "reset"}
           \/ kernel[d].state = "listening" /\ k.state = "listening"
  <2> DEFINE e == kernel[d]
             Result(k) == /\ k \in Entry
                          /\ Change(d, k)
                          /\ \/ e.state = "pending" /\ k.state \in {"connected", "refused"}
                             \/ e.state = "connected" /\ k.state \in {"connected", "reset"}
                             \/ e.state = "listening" /\ k.state = "listening"
  <2>1. ASSUME NEW state \in {"connected", "refused"}, e.state = "pending",
               Change(d, [e EXCEPT !.state = state])
        PROVE  Result([e EXCEPT !.state = state])
    <3> DEFINE f == [e EXCEPT !.state = state]
    <3>1. state \in States
      BY DEF States
    <3>2. f \in Entry /\ f.state = state
      BY <1>1, <3>1, EntryUpdates
    <3>3. Change(d, f)
      BY <2>1
    <3> HIDE DEF f
    <3>4. Result(f)
      BY <2>1, <3>2, <3>3
    <3> QED BY <3>4 DEF f
  <2>2. ASSUME e.state = "connected", Change(d, [e EXCEPT !.state = "reset"])
        PROVE  Result([e EXCEPT !.state = "reset"])
    BY <1>1, <2>2, EntryUpdates DEF States
  <2>3. ASSUME e.state = "connected", e.room < Room,
               Change(d, [e EXCEPT !.room = @ + 1])
        PROVE  Result([e EXCEPT !.room = @ + 1])
    BY <1>1, <2>3, EntryUpdates
  <2>4. ASSUME e.state = "connected", Change(d, [e EXCEPT !.eof = TRUE])
        PROVE  Result([e EXCEPT !.eof = TRUE])
    BY <1>1, <2>4, EntryUpdates
  <2>5. ASSUME e.state \in {"connected", "listening"}, e.waiting < MaxWaiting,
               Change(d, [e EXCEPT !.waiting = @ + 1])
        PROVE  Result([e EXCEPT !.waiting = @ + 1])
    BY <1>1, <2>5, EntryUpdates
  <2>6. ASSUME e.state = "listening", e.waiting > 0,
               Change(d, [e EXCEPT !.waiting = @ - 1])
        PROVE  Result([e EXCEPT !.waiting = @ - 1])
    BY <1>1, <2>6, EntryUpdates
  <2>7. \E k : Result(k)
    <3> HIDE DEF Result
    <3> QED BY <2>1, <2>2, <2>3, <2>4, <2>5, <2>6 DEF Network
  <2> QED BY <2>7
<1>3. /\ fd' = fd /\ pc' = pc /\ target' = target /\ pos' = pos /\ len' = len
      /\ result' = result /\ kernel' = [kernel EXCEPT ![d] = k]
  BY <1>2 DEF Change, sendVars
<1>4. TypeOK'
  BY <1>3 DEF SocketInv, TypeOK, Entry
<1>5. \A e \in Descriptor : kernel'[e] = IF e = d THEN k ELSE kernel[e]
  BY <1>3 DEF SocketInv, TypeOK
<1>6. \A s \in Object : fd[s] # None => fd[s] \in Descriptor
  BY DEF SocketInv, TypeOK
<1>7. Reliance'
  BY <1>2, <1>3, <1>5, <1>6
     DEF SocketInv, Reliance, State, Sending, Receiving, Accepting
<1>8. DescriptorsOwned'
  BY <1>2, <1>3, <1>5, OwnersKept DEF SameOpen, SocketInv, NoSocket
<1>9. ConnectIsTrue'
  BY <1>2, <1>3, <1>5, <1>6 DEF SocketInv, ConnectIsTrue, State
<1>10. SendOK'
  BY <1>3 DEF SocketInv, SendOK
<1> QED BY <1>4, <1>7, <1>8, <1>9, <1>10 DEF SocketInv

(* Files change neither sockets nor objects. *)
LEMMA FilesStep ==
  ASSUME SocketInv, NEW d \in Descriptor, Files(d)
  PROVE  SocketInv'
<1>1. Closed \in Entry /\ Closed.state = "free"
  BY ClosedEntry
<1>2. PICK k \in Entry :
        Change(d, k) /\ kernel[d].state \in NoSocket /\ k.state \in NoSocket
  <2>1. [Closed EXCEPT !.state = "file"] \in Entry
        /\ [Closed EXCEPT !.state = "file"].state = "file"
    BY <1>1, EntryUpdates DEF States
  <2> QED BY <1>1, <2>1 DEF Files, FreeDescriptors, NoSocket
<1>3. /\ fd' = fd /\ pc' = pc /\ target' = target /\ pos' = pos /\ len' = len
      /\ result' = result /\ kernel' = [kernel EXCEPT ![d] = k]
  BY <1>2 DEF Change, sendVars
<1>4. TypeOK'
  BY <1>3 DEF SocketInv, TypeOK, Entry
<1>5. \A e \in Descriptor : kernel'[e] = IF e = d THEN k ELSE kernel[e]
  BY <1>3 DEF SocketInv, TypeOK
<1>6. \A s \in Object : fd[s] # None => kernel'[fd[s]] = kernel[fd[s]]
  BY <1>2, <1>5 DEF SocketInv, TypeOK, DescriptorsOwned, NoSocket
<1>7. Reliance'
  BY <1>3, <1>6 DEF SocketInv, Reliance, State, Sending, Receiving, Accepting
<1>8. DescriptorsOwned'
  BY <1>2, <1>3, <1>5, OwnersKept DEF SameOpen, SocketInv
<1>9. ConnectIsTrue'
  BY <1>3, <1>6 DEF SocketInv, ConnectIsTrue, State
<1>10. SendOK'
  BY <1>3 DEF SocketInv, SendOK
<1> QED BY <1>4, <1>7, <1>8, <1>9, <1>10 DEF SocketInv

-----------------------------------------------------------------------------
(* Every step keeps the invariant. *)
LEMMA SocketStep == SocketInv /\ [Next]_vars => SocketInv'
<1> SUFFICES ASSUME SocketInv, [Next]_vars PROVE SocketInv'
  OBVIOUS
<1>1. ASSUME NEW s \in Object, Step(s) PROVE SocketInv'
  BY <1>1, ConnectSteps, ListenStep, AcceptSteps, SendSteps, ReceiveSteps
     DEF Step
<1>2. ASSUME NEW s \in Object, Use(s) PROVE SocketInv'
  <2>1. CASE CreateFails(s)
    BY <2>1, ReturnStep DEF CreateFails, Accepting, Results
  <2> QED BY <1>2, <2>1, CreateStep, CloseStep, SendSteps, ReceiveSteps,
             StartAcceptStep, MoveStep DEF Use
<1>3. CASE UNCHANGED vars
  BY <1>3 DEF vars, SocketInv, TypeOK, SendOK, Reliance, DescriptorsOwned,
              ConnectIsTrue, State
<1> QED BY <1>1, <1>2, <1>3, NetworkStep, FilesStep DEF Next

(* The invariant holds at the beginning. *)
LEMMA SocketInit == Init => SocketInv
<1> SUFFICES ASSUME Init PROVE SocketInv
  OBVIOUS
<1>1. Closed \in Entry /\ Closed.state = "free"
  BY ClosedEntry
<1>2. TypeOK
  BY <1>1, SocketAssumption DEF Init, TypeOK, Entry, Labels, Results
<1>3. DescriptorsOwned
  BY <1>1, SocketAssumption DEF Init, DescriptorsOwned, None, NoSocket
<1>4. SendOK /\ Reliance /\ ConnectIsTrue
  BY DEF Init, SendOK, Reliance, ConnectIsTrue, Sending, Receiving, Accepting
<1> QED BY <1>2, <1>3, <1>4 DEF SocketInv

(* What threads rely on and who owns what hold in every state of net::socket. *)
THEOREM SocketInvariant == Spec => []SocketInv
BY SocketInit, SocketStep, PTL DEF Spec

(* Members, locals and descriptors always have their types: no send() runs past
   the end of its data or counts below zero. *)
THEOREM SocketTypes == Spec => []TypeOK
<1>1. SocketInv => TypeOK
  BY DEF SocketInv
<1> QED BY <1>1, SocketInvariant, PTL

(* Of any number of objects, every open descriptor has exactly one owner: no
   failure of connect(), listen() or accept() leaks one, none is closed twice. *)
THEOREM Owned == Spec => []DescriptorsOwned
<1>1. SocketInv => DescriptorsOwned
  BY DEF SocketInv
<1> QED BY <1>1, SocketInvariant, PTL

(* connect() returns true only for an established connection. *)
THEOREM Connected == Spec => []ConnectIsTrue
<1>1. SocketInv => ConnectIsTrue
  BY DEF SocketInv
<1> QED BY <1>1, SocketInvariant, PTL

-----------------------------------------------------------------------------
(* What the kernel has taken.  That send() has returned true says something *)
(* of the stream only while the object still holds the descriptor.         *)
SentOK == \A s \in Object : result[s] = "sent" => pc[s] = "idle" /\ fd[s] # None

StreamInv == SendsPrefix /\ SentOK

(* Of an object: its stream is the same, and it did not begin to rely on it. *)
StreamSame(s) ==
  /\ fd'[s] = fd[s]
  /\ fd[s] # None => kernel'[fd[s]].stream = kernel[fd[s]].stream
  /\ pc'[s] \in Sending => pc[s] \in Sending /\ len'[s] = len[s]
  /\ result'[s] = "sent" => result[s] = "sent" /\ pc'[s] = "idle"

(* Of an object: it relies on no stream. *)
StreamUnused(s) == pc'[s] \notin Sending /\ result'[s] # "sent"

(* A step after which every object has its stream, or relies on none. *)
LEMMA StreamsKept ==
  ASSUME SocketInv, StreamInv,
         \A s \in Object : StreamSame(s) \/ StreamUnused(s)
  PROVE  StreamInv'
<1> SUFFICES ASSUME NEW s \in Object
             PROVE  /\ pc'[s] \in Sending =>
                         /\ kernel'[fd'[s]].stream = [i \in 1..Len(kernel'[fd'[s]].stream) |-> i]
                         /\ Len(kernel'[fd'[s]].stream) + len'[s] = Size
                    /\ result'[s] = "sent" =>
                         /\ kernel'[fd'[s]].stream = [i \in 1..Size |-> i]
                         /\ pc'[s] = "idle" /\ fd'[s] # None
  BY DEF StreamInv, SendsPrefix, SentOK, Sending
<1>1. CASE StreamUnused(s)
  BY <1>1 DEF StreamUnused
<1>2. CASE StreamSame(s)
  <2>1. pc[s] \in Sending => fd[s] # None
    BY DEF SocketInv, Reliance, Sending
  <2> QED BY <1>2, <2>1 DEF StreamSame, StreamInv, SendsPrefix, SentOK, Sending
<1> QED BY <1>1, <1>2

(* The steps that touch no stream: they set other fields, or none. *)
LEMMA QuietStreams ==
  ASSUME SocketInv, StreamInv, NEW s \in Object, fd' = fd,
         \A d \in Descriptor : kernel'[d].stream = kernel[d].stream,
         \A t \in Object \ {s} :
           pc'[t] = pc[t] /\ result'[t] = result[t] /\ len'[t] = len[t],
         StreamSame(s) \/ StreamUnused(s)
  PROVE  StreamInv'
<1>1. \A t \in Object : fd[t] # None => fd[t] \in Descriptor
  BY DEF SocketInv, TypeOK
<1>2. \A t \in Object \ {s} : StreamSame(t)
  BY <1>1 DEF StreamSame, StreamInv, SentOK
<1> QED BY <1>2, StreamsKept

(* An operation returns something else than that all was sent, or goes on. *)
LEMMA StreamFail ==
  ASSUME SocketInv, StreamInv, NEW s \in Object, NEW r \in Results \ {"sent"},
         Fail(s, r)
  PROVE  StreamInv'
<1>1. StreamUnused(s)
  BY DEF Fail, Return, Goto, StreamUnused, SocketInv, TypeOK, Sending
<1>2. \A t \in Object \ {s} :
        pc'[t] = pc[t] /\ result'[t] = result[t] /\ len'[t] = len[t]
  BY DEF Fail, Return, Goto, SocketInv, TypeOK
<1> QED BY <1>1, <1>2, QuietStreams DEF Fail

LEMMA StreamGoOn ==
  ASSUME SocketInv, StreamInv, NEW s \in Object, NEW label \in Labels,
         pc[s] # "idle", label \in Sending => pc[s] \in Sending, GoOn(s, label)
  PROVE  StreamInv'
<1>1. StreamSame(s)
  BY DEF GoOn, Goto, StreamSame, SocketInv, TypeOK, Sending, StreamInv, SentOK,
         sendVars
<1>2. \A t \in Object \ {s} :
        pc'[t] = pc[t] /\ result'[t] = result[t] /\ len'[t] = len[t]
  BY DEF GoOn, Goto, SocketInv, TypeOK, sendVars
<1> QED BY <1>1, <1>2, QuietStreams DEF GoOn

(* A descriptor that an object gives up, or gets, is in no other stream. *)
LEMMA StreamRelease ==
  ASSUME SocketInv, StreamInv, NEW s \in Object, fd[s] # None, Release(s),
         \A t \in Object \ {s} :
           pc'[t] = pc[t] /\ result'[t] = result[t] /\ len'[t] = len[t],
         StreamUnused(s)
  PROVE  StreamInv'
<1>1. \A t \in Object \ {s} : fd[t] # None => fd[t] # fd[s] /\ fd[t] \in Descriptor
  BY DEF SocketInv, DescriptorsOwned, TypeOK
<1>2. \A t \in Object \ {s} : fd'[t] = fd[t]
  BY DEF Release, SocketInv, TypeOK
<1>3. \A t \in Object \ {s} : fd[t] # None => kernel'[fd[t]] = kernel[fd[t]]
  BY <1>1 DEF Release, SocketInv, TypeOK
<1>4. \A t \in Object \ {s} : StreamSame(t)
  BY <1>2, <1>3 DEF StreamSame, StreamInv, SentOK
<1> QED BY <1>4, StreamsKept

LEMMA StreamAbandon ==
  ASSUME SocketInv, StreamInv, NEW s \in Object, fd[s] # None, Abandon(s)
  PROVE  StreamInv'
<1>1. StreamUnused(s)
  BY DEF Abandon, Return, Goto, StreamUnused, SocketInv, TypeOK, Sending
<1>2. \A t \in Object \ {s} :
        pc'[t] = pc[t] /\ result'[t] = result[t] /\ len'[t] = len[t]
  BY DEF Abandon, Return, Goto, SocketInv, TypeOK
<1> QED BY <1>1, <1>2, StreamRelease DEF Abandon

LEMMA StreamGain ==
  ASSUME SocketInv, StreamInv, NEW s \in Object, NEW d \in FreeDescriptors,
         fd' = [fd EXCEPT ![s] = d],
         \A e \in Descriptor \ {d} : kernel'[e].stream = kernel[e].stream,
         StreamUnused(s),
         \A t \in Object \ {s} :
           \/ StreamUnused(t)
           \/ pc'[t] = pc[t] /\ result'[t] = result[t] /\ len'[t] = len[t]
  PROVE  StreamInv'
<1>1. \A t \in Object : fd[t] # None => fd[t] # d /\ fd[t] \in Descriptor
  BY DEF SocketInv, DescriptorsOwned, TypeOK, FreeDescriptors, NoSocket
<1>2. \A t \in Object \ {s} : fd'[t] = fd[t]
  BY DEF SocketInv, TypeOK
<1>3. \A t \in Object \ {s} : StreamSame(t) \/ StreamUnused(t)
  BY <1>1, <1>2 DEF StreamSame, StreamInv, SentOK
<1> QED BY <1>3, StreamsKept

-----------------------------------------------------------------------------
(* connect() and listen(). *)
LEMMA StreamConnect ==
  ASSUME SocketInv, StreamInv, NEW s \in Object,
         ConnectStarts(s) \/ WaitConnect(s) \/ CheckError(s) \/ Listen(s)
  PROVE  StreamInv'
<1>1. fd[s] # None /\ pc[s] \in {"connect", "waitconnect", "check", "listen"}
  BY DEF ConnectStarts, WaitConnect, CheckError, Listen, SocketInv, Reliance
<1>2. CASE Abandon(s)
  BY <1>1, <1>2, StreamAbandon
<1>3. ASSUME NEW state \in States, NEW label \in Labels \ Sending,
             kernel' = [kernel EXCEPT ![fd[s]].state = state],
             Goto(s, label), UNCHANGED <<fd, target, sendVars, result>>
      PROVE  StreamInv'
  <2>1. \A d \in Descriptor : kernel'[d].stream = kernel[d].stream
    BY <1>3 DEF SocketInv, TypeOK
  <2>2. /\ \A t \in Object \ {s} :
             pc'[t] = pc[t] /\ result'[t] = result[t] /\ len'[t] = len[t]
        /\ StreamUnused(s)
    BY <1>1, <1>3 DEF Goto, sendVars, SocketInv, TypeOK, StreamUnused, StreamInv, SentOK
  <2> QED BY <1>3, <2>1, <2>2, QuietStreams
<1>4. CASE /\ kernel' = [kernel EXCEPT ![fd[s]].state = "listening"]
           /\ Return(s, "listening")
           /\ UNCHANGED <<fd, target>>
  <2>1. \A d \in Descriptor : kernel'[d].stream = kernel[d].stream
    BY <1>4 DEF SocketInv, TypeOK
  <2>2. /\ \A t \in Object \ {s} :
             pc'[t] = pc[t] /\ result'[t] = result[t] /\ len'[t] = len[t]
        /\ StreamUnused(s)
    BY <1>4 DEF Return, Goto, SocketInv, TypeOK, StreamUnused, Sending
  <2> QED BY <1>4, <2>1, <2>2, QuietStreams
<1>5. CASE ConnectStarts(s)
  <2>1. /\ {"connected", "pending"} \subseteq States
        /\ {"check", "waitconnect"} \subseteq Labels \ Sending
    BY DEF States, Labels, Sending
  <2> QED BY <1>2, <1>3, <1>5, <2>1 DEF ConnectStarts
<1>6. CASE WaitConnect(s)
  BY <1>1, <1>2, <1>6, StreamGoOn DEF WaitConnect, Labels, Sending
<1>7. CASE CheckError(s)
  BY <1>2, <1>7, StreamFail DEF CheckError, Results
<1>8. CASE Listen(s)
  BY <1>2, <1>4, <1>8 DEF Listen
<1> QED BY <1>5, <1>6, <1>7, <1>8

(* accept(). *)
LEMMA StreamAccept ==
  ASSUME SocketInv, StreamInv, NEW s \in Object,
         Accept(s) \/ AcceptFails(s) \/ WaitAccept(s)
  PROVE  StreamInv'
<1>1. pc[s] \in Accepting
  BY DEF Accept, AcceptFails, WaitAccept, Accepting
<1>2. target[s] \in Object /\ pc[target[s]] = "lent"
  BY <1>1 DEF SocketInv, Reliance, TypeOK
<1>3. ASSUME NEW r \in {"accepted", "failed"}, AcceptReturns(s, r)
      PROVE  /\ StreamUnused(s) /\ StreamUnused(target[s])
             /\ \A t \in Object \ {s, target[s]} :
                  pc'[t] = pc[t] /\ result'[t] = result[t] /\ len'[t] = len[t]
  BY <1>1, <1>2, <1>3
     DEF AcceptReturns, sendVars, SocketInv, TypeOK, StreamUnused, Sending,
         Accepting, StreamInv, SentOK
<1>4. CASE AcceptReturns(s, "failed") /\ UNCHANGED <<fd, kernel>>
  <2>1. \A t \in Object : StreamSame(t) \/ StreamUnused(t)
    BY <1>3, <1>4 DEF StreamSame, StreamInv, SentOK
  <2> QED BY <2>1, StreamsKept
<1>5. CASE Accept(s)
  <2>1. PICK d \in FreeDescriptors :
          /\ fd' = [fd EXCEPT ![target[s]] = d]
          /\ kernel' = [kernel EXCEPT ![fd[s]].waiting = @ - 1,
                                      ![d] = Opened("connected")]
    BY <1>5 DEF Accept
  <2>2. \A e \in Descriptor \ {d} : kernel'[e].stream = kernel[e].stream
    BY <2>1 DEF SocketInv, TypeOK
  <2>3. /\ StreamUnused(target[s])
        /\ \A t \in Object \ {target[s]} :
             \/ StreamUnused(t)
             \/ pc'[t] = pc[t] /\ result'[t] = result[t] /\ len'[t] = len[t]
    BY <1>3, <1>5 DEF Accept
  <2> QED BY <1>2, <2>1, <2>2, <2>3, StreamGain
<1>6. CASE GoOn(s, "waitaccept") \/ GoOn(s, "acceptlast")
  BY <1>1, <1>6, StreamGoOn DEF Accepting, Sending, Labels
<1> QED BY <1>4, <1>5, <1>6 DEF AcceptFails, WaitAccept

(* A step that changes the stream of s, and of no other object. *)
LEMMA StreamFollows ==
  ASSUME SocketInv, StreamInv, NEW s \in Object, NEW stream,
         \A t \in Object \ {s} : StreamSame(t),
         fd'[s] = fd[s], fd[s] # None, kernel'[fd[s]].stream = stream,
         pc'[s] \in Sending => /\ stream = [i \in 1..Len(stream) |-> i]
                               /\ Len(stream) + len'[s] = Size,
         result'[s] = "sent" => pc'[s] = "idle" /\ stream = [i \in 1..Size |-> i]
  PROVE  StreamInv'
<1>1. \A t \in Object : pc[t] \in Sending => fd[t] # None
  BY DEF SocketInv, Reliance, Sending
<1>2. ASSUME NEW t \in Object \ {s}
      PROVE  /\ pc'[t] \in Sending =>
                  /\ kernel'[fd'[t]].stream = [i \in 1..Len(kernel'[fd'[t]].stream) |-> i]
                  /\ Len(kernel'[fd'[t]].stream) + len'[t] = Size
             /\ result'[t] = "sent" =>
                  /\ kernel'[fd'[t]].stream = [i \in 1..Size |-> i]
                  /\ pc'[t] = "idle" /\ fd'[t] # None
  BY <1>1, <1>2 DEF StreamSame, StreamInv, SendsPrefix, SentOK, Sending
<1> QED BY <1>2 DEF StreamInv, SendsPrefix, SentOK, Sending

(* The steps of send(): what the kernel takes next is what follows. *)
LEMMA StreamSend ==
  ASSUME SocketInv, StreamInv, NEW s \in Object,
         StartSend(s) \/ SendSome(s) \/ SendNothing(s) \/ WaitSend(s)
  PROVE  StreamInv'
<1>1. fd[s] # None /\ fd[s] \in Descriptor
  <2>1. fd[s] # None
    BY DEF StartSend, HasConnection, SendSome, SendNothing, WaitSend, SocketInv,
           Reliance
  <2> QED BY <2>1 DEF SocketInv, TypeOK
<1>2. \A t \in Object \ {s} : fd[t] # None => fd[t] # fd[s] /\ fd[t] \in Descriptor
  BY <1>1 DEF SocketInv, DescriptorsOwned, TypeOK
<1>3. CASE SendNothing(s) \/ WaitSend(s)
  BY <1>3, StreamGoOn, StreamFail
     DEF SendNothing, WaitSend, Sending, Labels, Results
<1>4. CASE StartSend(s)
  <2>1. \A t \in Object \ {s} : StreamSame(t)
    BY <1>2, <1>4
       DEF StartSend, Call, Goto, StreamSame, SocketInv, TypeOK, StreamInv, SentOK
  <2>2. /\ pc'[s] = "send" /\ result'[s] = "none" /\ len'[s] = Size /\ fd' = fd
        /\ kernel'[fd[s]].stream = <<>>
    BY <1>1, <1>4 DEF StartSend, Call, Goto, SocketInv, TypeOK
  <2>3. <<>> = [i \in 1..Len(<<>>) |-> i] /\ Len(<<>>) + Size = Size
    BY SocketAssumption
  <2> QED BY <1>1, <2>1, <2>2, <2>3, StreamFollows
<1>5. CASE SendSome(s)
  <2>1. PICK n \in 1..len[s] :
          /\ kernel' = Takes(fd[s], pos[s], n)
          /\ IF n = len[s] THEN Return(s, "sent")
             ELSE /\ pos' = [pos EXCEPT ![s] = @ + n]
                  /\ len' = [len EXCEPT ![s] = @ - n]
                  /\ UNCHANGED <<pc, result>>
    BY <1>5 DEF SendSome
  <2>2. pc[s] = "send" /\ fd' = fd
    BY <1>5 DEF SendSome
  <2> DEFINE old   == kernel[fd[s]].stream
             units == [i \in 1..n |-> pos[s] + i - 1]
  <2>3. /\ old \in Seq(1..Size) /\ Len(old) \in Nat
        /\ old = [i \in 1..Len(old) |-> i] /\ Len(old) + len[s] = Size
    BY <1>1, <2>2, LenProperties DEF SocketInv, TypeOK, StreamInv, SendsPrefix
  <2>4. len[s] \in 0..Size /\ pos[s] = Len(old) + 1
    <3>1. pos[s] \in 1..Size /\ len[s] \in 0..Size /\ pos[s] + len[s] = Size + 1
      BY <2>2 DEF SocketInv, TypeOK, SendOK, Sending
    <3> HIDE DEF old
    <3> QED BY <2>3, <3>1, SocketAssumption
  <2>5. units \in Seq(1..Size) /\ Len(units) = n
    <3>1. units \in [1..n -> 1..Size] /\ n \in Nat
      BY <2>3, <2>4, SocketAssumption
    <3>2. DOMAIN units = 1..n
      OBVIOUS
    <3> HIDE DEF units
    <3>3. units \in Seq(1..Size)
      BY <3>1, SeqDef
    <3> QED BY <3>1, <3>2, <3>3, LenProperties
  <2>6. /\ old \o units = [i \in 1..Len(old \o units) |-> i]
        /\ Len(old \o units) = Len(old) + n
    <3> HIDE DEF old, units
    <3>1. /\ old \o units \in Seq(1..Size)
          /\ Len(old \o units) = Len(old) + n
          /\ \A i \in 1..(Len(old) + n) :
               (old \o units)[i] = IF i <= Len(old) THEN old[i] ELSE units[i - Len(old)]
      BY <2>3, <2>5, ConcatProperties
    <3>2. \A i \in 1..(Len(old) + n) : (old \o units)[i] = i
      BY <2>3, <2>4, <3>1 DEF units
    <3>3. old \o units \in [1..Len(old \o units) -> 1..Size]
      BY <3>1, LenProperties
    <3> QED BY <3>1, <3>2, <3>3
  <2>7. kernel'[fd[s]].stream = old \o units
    <3>1. kernel \in [Descriptor -> Entry]
      BY DEF SocketInv, TypeOK, Entry
    <3> DEFINE k == [kernel[fd[s]] EXCEPT !.room = @ - n, !.stream = @ \o units]
    <3>2. kernel' = [kernel EXCEPT ![fd[s]] = k]
      BY <2>1 DEF Takes
    <3> HIDE DEF units
    <3>3. k.stream = kernel[fd[s]].stream \o units
      BY <1>1, <3>1 DEF Entry
    <3> HIDE DEF k
    <3> QED BY <1>1, <3>1, <3>2, <3>3
  <2>8. \A t \in Object \ {s} : fd[t] # None => kernel'[fd[t]] = kernel[fd[t]]
    BY <1>2, <2>1 DEF Takes, SocketInv, TypeOK
  <2> HIDE DEF old, units
  <2>9. CASE n = len[s]
    <3>1. Return(s, "sent")
      BY <2>1, <2>9
    <3>2. /\ pc'[s] = "idle" /\ result'[s] = "sent"
          /\ \A t \in Object \ {s} :
               pc'[t] = pc[t] /\ result'[t] = result[t] /\ len'[t] = len[t]
      BY <3>1 DEF Return, Goto, SocketInv, TypeOK
    <3>3. \A t \in Object \ {s} : StreamSame(t)
      BY <2>2, <2>8, <3>2 DEF StreamSame, StreamInv, SentOK
    <3>4. old \o units = [i \in 1..Size |-> i]
      BY <2>3, <2>6, <2>9
    <3> QED BY <1>1, <2>2, <2>7, <3>2, <3>3, <3>4, StreamFollows DEF Sending
  <2>10. CASE n # len[s]
    <3>1. /\ pc' = pc /\ result' = result /\ len'[s] = len[s] - n
          /\ \A t \in Object \ {s} : len'[t] = len[t]
      BY <2>1, <2>10 DEF SocketInv, TypeOK
    <3>2. \A t \in Object \ {s} : StreamSame(t)
      BY <2>2, <2>8, <3>1 DEF StreamSame, StreamInv, SentOK
    <3>3. Len(old \o units) + len'[s] = Size
      BY <2>3, <2>4, <2>6, <3>1, SocketAssumption
    <3>4. result[s] # "sent"
      BY <2>2 DEF StreamInv, SentOK
    <3> QED BY <1>1, <2>2, <2>6, <2>7, <3>1, <3>2, <3>3, <3>4, StreamFollows
  <2> QED BY <2>9, <2>10
<1> QED BY <1>3, <1>4, <1>5

(* The steps of recv() read, and write nothing. *)
LEMMA StreamReceive ==
  ASSUME SocketInv, StreamInv, NEW s \in Object,
         StartReceive(s) \/ Receive(s) \/ WaitReceive(s)
  PROVE  StreamInv'
<1>1. CASE StartReceive(s)
  <2>1. /\ StreamUnused(s) /\ UNCHANGED <<fd, kernel>>
        /\ \A t \in Object \ {s} :
             pc'[t] = pc[t] /\ result'[t] = result[t] /\ len'[t] = len[t]
    BY <1>1 DEF StartReceive, Call, Goto, sendVars, SocketInv, TypeOK,
                StreamUnused, Sending
  <2> QED BY <2>1, QuietStreams
<1>2. CASE /\ kernel' = [kernel EXCEPT ![fd[s]].waiting = @ - 1]
           /\ Return(s, "received") /\ UNCHANGED <<fd, target>>
  <2>1. \A d \in Descriptor : kernel'[d].stream = kernel[d].stream
    BY <1>2 DEF SocketInv, TypeOK
  <2>2. /\ StreamUnused(s)
        /\ \A t \in Object \ {s} :
             pc'[t] = pc[t] /\ result'[t] = result[t] /\ len'[t] = len[t]
    BY <1>2 DEF Return, Goto, SocketInv, TypeOK, StreamUnused, Sending
  <2> QED BY <1>2, <2>1, <2>2, QuietStreams
<1>3. CASE Fail(s, "eof") \/ Fail(s, "failed")
  BY <1>3, StreamFail DEF Results
<1>4. CASE pc[s] \in Receiving /\ (GoOn(s, "waitrecv") \/ GoOn(s, "recvlast"))
  BY <1>4, StreamGoOn DEF Receiving, Sending, Labels
<1> QED BY <1>1, <1>2, <1>3, <1>4 DEF Receive, WaitReceive, Receiving

(* What a thread does outside of an operation. *)
LEMMA StreamUse ==
  ASSUME SocketInv, StreamInv, NEW s \in Object, Use(s)
  PROVE  StreamInv'
<1>1. ASSUME NEW label \in {"connect", "listen"}, Create(s, label)
      PROVE  StreamInv'
  <2>1. PICK d \in FreeDescriptors :
          /\ fd' = [fd EXCEPT ![s] = d]
          /\ kernel' = [kernel EXCEPT ![d] = Opened("new")]
    BY <1>1 DEF Create
  <2>2. \A e \in Descriptor \ {d} : kernel'[e].stream = kernel[e].stream
    BY <2>1 DEF SocketInv, TypeOK
  <2>3. /\ StreamUnused(s)
        /\ \A t \in Object \ {s} :
             pc'[t] = pc[t] /\ result'[t] = result[t] /\ len'[t] = len[t]
    BY <1>1 DEF Create, Call, Goto, sendVars, SocketInv, TypeOK, StreamUnused, Sending
  <2> QED BY <2>1, <2>2, <2>3, StreamGain
<1>2. CASE CreateFails(s)
  BY <1>2, StreamFail DEF CreateFails, Results
<1>3. CASE Close(s)
  <2>1. /\ StreamUnused(s)
        /\ \A t \in Object \ {s} :
             pc'[t] = pc[t] /\ result'[t] = result[t] /\ len'[t] = len[t]
    BY <1>3 DEF Close, sendVars, SocketInv, TypeOK, StreamUnused, Sending
  <2> QED BY <1>3, <2>1, StreamRelease DEF Close
<1>4. ASSUME NEW t \in Object \ {s}, StartAccept(s, t) \/ Move(s, t)
      PROVE  StreamInv'
  <2>1. \A u \in {s, t} : StreamUnused(u)
    BY <1>4 DEF StartAccept, Move, SocketInv, TypeOK, StreamUnused, Sending
  <2>2. \A u \in Object \ {s, t} :
          /\ pc'[u] = pc[u] /\ result'[u] = result[u] /\ len'[u] = len[u]
          /\ fd'[u] = fd[u] /\ kernel' = kernel
    BY <1>4 DEF StartAccept, Move, sendVars, SocketInv, TypeOK
  <2>3. \A u \in Object : StreamSame(u) \/ StreamUnused(u)
    BY <2>1, <2>2 DEF StreamSame, StreamInv, SentOK
  <2> QED BY <2>3, StreamsKept
<1> QED BY <1>1, <1>2, <1>3, <1>4, StreamSend, StreamReceive DEF Use

(* Every step keeps the streams. *)
LEMMA StreamStep ==
  ASSUME SocketInv, StreamInv, [Next]_vars
  PROVE  StreamInv'
<1>1. ASSUME NEW d \in Descriptor, Network(d) \/ Files(d)
      PROVE  StreamInv'
  <2>1. PICK k : Change(d, k) /\ (kernel[d].state \in NoSocket \/ k.stream = kernel[d].stream)
    BY <1>1 DEF Network, Files, FreeDescriptors, NoSocket, SocketInv, TypeOK
  <2>2. \A s \in Object :
          fd[s] # None => kernel'[fd[s]].stream = kernel[fd[s]].stream
    BY <2>1 DEF Change, SocketInv, TypeOK, DescriptorsOwned
  <2>3. \A s \in Object : StreamSame(s)
    BY <2>1, <2>2 DEF Change, sendVars, StreamSame, StreamInv, SentOK
  <2> QED BY <2>3, StreamsKept
<1>2. CASE UNCHANGED vars
  BY <1>2 DEF vars, StreamInv, SendsPrefix, SentOK
<1> QED BY <1>1, <1>2, StreamConnect, StreamAccept, StreamSend, StreamReceive,
           StreamUse DEF Next, Step

(* send() of any size, whatever the kernel takes at a time: what it has taken
   is the beginning of the data, and all of it when send() returns true. *)
THEOREM SentInOrder == Spec => []SendsPrefix
<1>1. Init => StreamInv
  BY DEF Init, StreamInv, SendsPrefix, SentOK
<1>2. SocketInv /\ StreamInv /\ [Next]_vars => StreamInv'
  BY StreamStep
<1>3. StreamInv => SendsPrefix
  BY DEF StreamInv
<1> QED BY <1>1, <1>2, <1>3, SocketInvariant, PTL DEF Spec
=============================================================================
