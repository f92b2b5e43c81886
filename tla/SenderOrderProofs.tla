------------------------- MODULE SenderOrderProofs --------------------------
(***************************************************************************)
(* Types, order and ownership of the buffers of module Sender, for every   *)
(* number of producers, every limit of the queue, any number of failures,  *)
(* restarts and deaths of the process.                                     *)
(*                                                                         *)
(* The type invariant alone is not inductive: it needs to know at which    *)
(* labels a thread holds a batch, the name of a file it may open, or a     *)
(* file that exists (ControlOK).                                           *)
(*                                                                         *)
(* Of every step only what it does to the queue, to the batches and to the *)
(* allocator matters for order: there are five ways (BufferStep).  Order   *)
(* is inductive together with the types.  Ownership needs order: a thread  *)
(* gives up the first buffer of its batch, and it holds that buffer no     *)
(* more only because it does not stand a second time further back.         *)
(***************************************************************************)
EXTENDS Sender, SequenceTheorems, TLAPS

(* The labels at which a thread holds a batch of buffers it has popped.    *)
Holding == {"stat", "open", "write", "put", "connect", "send"}

(* What a thread relies on at a label.                                     *)
ControlOK ==
  /\ \A t \in Threads : batch[t] # <<>> <=> pc[t] \in Holding
  /\ \A t \in Threads : pc[t] = "open" => fd[t] \in Nat
  /\ pc[Runner] \in {"map", "sendfile", "unlink"} => file \in DOMAIN files

TypeInv == TypeOK /\ ControlOK

-----------------------------------------------------------------------------
(* Sequences of numbers.                                                   *)

(* What write() makes of a file consists of units of the file, of the unit *)
(* written, and of holes.                                                  *)
LEMMA WriteAtType ==
  ASSUME NEW S, NEW c \in Seq(S), NEW i \in Nat, NEW v \in S, Hole \in S
  PROVE  WriteAt(c, i, v) \in Seq(S)
<1> DEFINE n == IF i > Len(c) THEN i ELSE Len(c)
           f == [j \in 1..n |->
                   IF j = i THEN v ELSE IF j <= Len(c) THEN c[j] ELSE Hole]
<1>1. n \in Nat
  BY LenProperties
<1>2. f \in [1..n -> S]
  <2> SUFFICES ASSUME NEW j \in 1..n PROVE f[j] \in S
    OBVIOUS
  <2>1. CASE j = i
    BY <2>1
  <2>2. CASE j # i /\ j <= Len(c)
    BY <2>2, <1>1, ElementOfSeq, LenProperties
  <2>3. CASE j # i /\ ~(j <= Len(c))
    BY <2>3
  <2> QED BY <2>1, <2>2, <2>3
<1> QED
  BY <1>1, <1>2, SeqDef DEF WriteAt

(* Giving up the first buffer of a sequence. *)
LEMMA TailType ==
  ASSUME NEW S, NEW s \in Seq(S), s # <<>>
  PROVE  /\ Head(s) \in S
         /\ Tail(s) \in Seq(S)
         /\ Tail(s) # <<>> <=> Len(s) > 1
<1>1. Head(s) \in S /\ Tail(s) \in Seq(S) /\ Len(Tail(s)) = Len(s) - 1
  BY HeadTailProperties
<1>2. Tail(s) # <<>> <=> Len(Tail(s)) # 0
  BY <1>1, EmptySeq
<1>3. Len(s) \in Nat /\ Len(s) # 0
  BY LenProperties, EmptySeq
<1> QED BY <1>1, <1>2, <1>3

(* Counting one further. *)
LEMMA Increment ==
  ASSUME NEW S, NEW f \in [S -> Nat], NEW x \in S
  PROVE  [f EXCEPT ![x] = @ + 1] \in [S -> Nat] /\ f[x] \in Nat
OBVIOUS

(* The bounds count with natural numbers. *)
LEMMA SpendType ==
  ASSUME budget \in [Kinds -> Nat], NEW kind \in Kinds, NEW limit,
         Spend(kind, limit)
  PROVE  budget' \in [Kinds -> Nat]
BY DEF Spend

(* A failure that the environment injects counts like any other bound. *)
LEMMA FaultType ==
  ASSUME budget \in [Kinds -> Nat], Fault
  PROVE  budget' \in [Kinds -> Nat]
BY SpendType DEF Fault, Kinds

(* The connection hands over accepted buffers only. *)
LEMMA TransmitType ==
  ASSUME accepted \in Nat, partial \in Seq(0..accepted),
         delivered \in Seq(1..accepted), Chunks \in Nat,
         NEW unit \in 0..accepted, Transmit(unit)
  PROVE  /\ partial' \in Seq(0..accepted)
         /\ delivered' \in Seq(1..accepted)
<1> DEFINE stream == Append(partial, unit)
           before == Len(stream) - Chunks
<1>1. stream \in Seq(0..accepted) /\ Len(stream) \in Nat
  BY AppendProperties, LenProperties
<1>2. ASSUME before >= 0
      PROVE  SubSeq(stream, 1, before) \in Seq(0..accepted)
  <2>1. before \in Int /\ \A i \in 1..before : i \in 1..Len(stream)
    BY <1>1, <1>2
  <2>2. \A i \in 1..before : stream[i] \in 0..accepted
    BY <1>1, <2>1, ElementOfSeq
  <2> QED BY <2>1, <2>2, SubSeqProperties
<1>3. ASSUME unit # Hole
      PROVE  Append(delivered, unit) \in Seq(1..accepted)
  BY <1>3, AppendProperties DEF Hole
<1> QED BY <1>1, <1>2, <1>3 DEF Transmit

(* The numbers that the reasoning below computes with. *)
LEMMA Counts ==
  ASSUME TypeOK
  PROVE  accepted \in Nat /\ MaxMessages \in Nat /\ Chunks \in Nat
BY SenderAssumption DEF TypeOK

(* What push_front() leaves behind, whichever failure led to it. *)
LEMMA PushFrontType ==
  ASSUME TypeInv, PushFront, Runner \in Threads
  PROVE  /\ queue' \in Seq(1..accepted)
         /\ batch' \in [Threads -> Seq(1..accepted)]
         /\ batch' = [batch EXCEPT ![Runner] = <<>>]
         /\ pc' = [pc EXCEPT ![Runner] = "check"]
         /\ errorSending' = TRUE
         /\ UNCHANGED <<accepted, returned, lost, state, running>>
BY ConcatProperties, EmptySeq DEF PushFront, TypeInv, TypeOK, Goto

-----------------------------------------------------------------------------
(* Every step preserves the type invariant.                                *)

(* start(), stop(), and the end of the process. *)
LEMMA OwnerTypes ==
  ASSUME TypeInv, Start \/ Stop \/ Join \/ Crash
  PROVE  TypeInv'
<1> USE SenderAssumption DEF TypeInv, Threads, queueVars, diskVars, netVars,
        scanVars, ctlVars, Goto
<1>1. CASE Start
  <2>1. budget' \in [Kinds -> Nat]
    BY <1>1, SpendType DEF Start, Kinds, TypeOK
  <2>2. TypeOK'
    BY <1>1, <2>1 DEF Start, TypeOK, ControlOK, Labels, Holding
  <2>3. ControlOK'
    BY <1>1 DEF Start, TypeOK, ControlOK, Labels, Holding
  <2> QED BY <2>2, <2>3
<1>2. CASE Stop
  <2>1. budget' \in [Kinds -> Nat]
    BY <1>2, SpendType DEF Stop, Kinds, TypeOK
  <2>2. TypeOK'
    BY <1>2, <2>1 DEF Stop, TypeOK, ControlOK, Labels, Holding
  <2>3. ControlOK'
    BY <1>2 DEF Stop, TypeOK, ControlOK, Labels, Holding
  <2> QED BY <2>2, <2>3
<1>3. CASE Join
  <2>1. TypeOK'
    BY <1>3 DEF TypeOK, Labels, Join
  <2>2. ControlOK'
    BY <1>3 DEF TypeOK, ControlOK, Holding, Join
  <2> QED BY <2>1, <2>2
<1>4. CASE Crash
  <2>1. budget' \in [Kinds -> Nat]
    BY <1>4, SpendType DEF Crash, Kinds, TypeOK
  <2>2. TypeOK'
    BY <1>4, <2>1, EmptySeq DEF Crash, None, TypeOK, ControlOK, Labels, Holding
  <2>3. ControlOK'
    BY <1>4 DEF Crash, TypeOK, ControlOK, Labels, Holding
  <2> QED BY <2>2, <2>3
<1> QED BY <1>1, <1>2, <1>3, <1>4

(* send(), but for the saving of the queue. *)
LEMMA SendTypes ==
  ASSUME TypeInv, NEW p \in Producers,
         RequestFiles(p) \/ \E k \in 1..MaxRange : Send(p, k)
  PROVE  TypeInv'
<1> USE SenderAssumption DEF TypeInv, Threads, queueVars, diskVars, netVars,
        scanVars, ctlVars, Goto
<1>1. CASE RequestFiles(p)
  <2>1. TypeOK'
    BY <1>1 DEF TypeOK, Labels, RequestFiles
  <2>2. ControlOK'
    BY <1>1 DEF TypeOK, ControlOK, Holding, RequestFiles
  <2> QED BY <2>1, <2>2
<1>2. ASSUME NEW k \in 1..MaxRange, Send(p, k) PROVE TypeInv'
  <2>0. /\ k \in Nat /\ accepted' = accepted + k
        /\ accepted + k <= MaxMessages
    BY <1>2 DEF Send
  <2>1. /\ accepted' \in 0..MaxMessages
        /\ 1..accepted \subseteq 1..accepted'
        /\ 0..accepted \subseteq 0..accepted'
    BY <2>0, Counts
  <2>2. [i \in 1..k |-> accepted + i] \in Seq(1..accepted')
    <3>1. [i \in 1..k |-> accepted + i] \in [1..k -> 1..accepted']
      BY <2>0, Counts
    <3> QED BY <2>0, <3>1, SeqDef
  <2>3. \A s \in Seq(1..accepted) : s \in Seq(1..accepted')
    BY <2>1, SeqMonotonic
  <2>4. \A s \in Seq(0..accepted) : s \in Seq(0..accepted')
    BY <2>1, SeqMonotonic
  <2>5. queue' \in Seq(1..accepted')
    BY <1>2, <2>2, <2>3, ConcatProperties DEF Send, TypeOK
  <2>6. /\ batch' \in [Threads -> Seq(1..accepted')]
        /\ delivered' \in Seq(1..accepted')
    BY <1>2, <2>3 DEF Send, TypeOK
  <2>7. /\ files' \in [DOMAIN files' -> Seq(0..accepted')]
        /\ partial' \in Seq(0..accepted')
    BY <1>2, <2>4 DEF Send, TypeOK
  <2>8. pc' \in [Threads -> Labels]
    BY <1>2 DEF Send, TypeOK, Labels
  <2>9. TypeOK'
    BY <1>2, <2>0, <2>1, <2>3, <2>5, <2>6, <2>7, <2>8 DEF Send, TypeOK
  <2>10. ControlOK'
    BY <1>2 DEF Send, TypeOK, ControlOK, Labels, Holding
  <2> QED BY <2>9, <2>10
<1> QED BY <1>1, <1>2

(* save_buffers(), in whatever thread. *)
LEMMA SaveTypes ==
  ASSUME TypeInv, NEW t \in Threads, SaveStep(t)
  PROVE  TypeInv'
<1> USE SenderAssumption DEF TypeInv, Threads, queueVars, diskVars, netVars,
        scanVars, ctlVars, Goto
<1>1. CASE SavePop(t)
  <2>1. TypeOK'
    BY <1>1, EmptySeq DEF TypeOK, Labels, SavePop, Saved
  <2>2. ControlOK'
    BY <1>1 DEF TypeOK, ControlOK, Holding, SavePop, Saved
  <2> QED BY <2>1, <2>2
<1>2. CASE SaveStat(t)
  <2>0. cnt' \in [Threads -> Nat] /\ cnt[t] \in Nat
    BY <1>2, Increment DEF SaveStat, TypeOK
  <2>1. CASE cnt[t] \in DOMAIN files
    <3>1. TypeOK'
      BY <1>2, <2>0, <2>1 DEF SaveStat, TypeOK
    <3>2. ControlOK'
      BY <1>2, <2>1 DEF SaveStat, ControlOK
    <3> QED BY <3>1, <3>2
  <2>2. CASE cnt[t] \notin DOMAIN files
    <3>0. fd' \in [Threads -> Nat \cup {None, Unlinked}] /\ pc' \in [Threads -> Labels]
      BY <1>2, <2>0, <2>2 DEF SaveStat, TypeOK, Labels
    <3>1. TypeOK'
      BY <1>2, <2>0, <2>2, <3>0 DEF SaveStat, TypeOK
    <3>2. ControlOK'
      BY <1>2, <2>2 DEF SaveStat, TypeOK, ControlOK, Labels, Holding
    <3> QED BY <3>1, <3>2
  <2> QED BY <2>1, <2>2
<1>3. CASE SaveOpen(t)
  <2>1. TypeOK'
    <3>1. fd[t] \in Nat
      BY <1>3 DEF SaveOpen, ControlOK
    <3>2. DOMAIN files' = DOMAIN files \cup {fd[t]}
      BY <1>3 DEF SaveOpen
    <3>3. files' \in [DOMAIN files' -> Seq(0..accepted)]
      BY <1>3, <3>2, EmptySeq DEF SaveOpen, TypeOK
    <3> QED BY <1>3, <3>1, <3>2, <3>3 DEF SaveOpen, TypeOK, Labels
  <2>2. ControlOK'
    BY <1>3 DEF TypeOK, ControlOK, Holding, SaveOpen
  <2> QED BY <2>1, <2>2
<1>4. CASE SaveWrite(t)
  <2>1. Head(batch[t]) \in 1..accepted
    BY <1>4, TailType DEF SaveWrite, TypeOK, ControlOK, Holding
  <2>2. /\ DOMAIN files' = DOMAIN files
        /\ files' \in [DOMAIN files -> Seq(0..accepted)]
    <3>1. CASE fd[t] \in DOMAIN files
      <4>0. off[t] \in Nat /\ files[fd[t]] \in Seq(0..accepted)
        BY <3>1 DEF TypeOK
      <4>1. /\ off[t] + 1 \in Nat
            /\ Head(batch[t]) \in 0..accepted /\ Hole \in 0..accepted
        BY <2>1, <4>0, Counts DEF Hole
      <4>2. WriteAt(files[fd[t]], off[t] + 1, Head(batch[t])) \in Seq(0..accepted)
        BY <4>0, <4>1, WriteAtType
      <4> QED BY <1>4, <3>1, <4>2 DEF SaveWrite, TypeOK
    <3>2. CASE fd[t] \notin DOMAIN files
      BY <1>4, <3>2 DEF SaveWrite, TypeOK
    <3> QED BY <3>1, <3>2
  <2>3. /\ fd' \in [Threads -> Nat \cup {None, Unlinked}]
        /\ pc' \in [Threads -> Labels]
    BY <1>4 DEF SaveWrite, TypeOK, Labels
  <2>4. TypeOK'
    <3>1. off' \in [Threads -> Nat]
      BY <1>4, Increment DEF SaveWrite, TypeOK
    <3> QED BY <1>4, <2>2, <2>3, <3>1 DEF SaveWrite, TypeOK
  <2>5. ControlOK'
    BY <1>4, <2>2 DEF SaveWrite, TypeOK, ControlOK, Labels, Holding
  <2> QED BY <2>4, <2>5
<1>5. CASE SavePut(t)
  <2>0. batch[t] # <<>>
    BY <1>5 DEF SavePut, Saved, TypeOK, ControlOK, Holding
  <2>1. /\ Head(batch[t]) \in 1..accepted
        /\ Tail(batch[t]) \in Seq(1..accepted)
        /\ Tail(batch[t]) # <<>> <=> Len(batch[t]) > 1
    BY <2>0, TailType DEF TypeOK
  <2>2. TypeOK'
    BY <1>5, <2>1 DEF SavePut, Saved, TypeOK, ControlOK, Labels, Holding
  <2>3. ControlOK'
    BY <1>5, <2>1 DEF SavePut, Saved, TypeOK, ControlOK, Labels, Holding
  <2> QED BY <2>2, <2>3
<1> QED BY <1>1, <1>2, <1>3, <1>4, <1>5 DEF SaveStep

(* The loop of run(). *)
LEMMA LoopTypes ==
  ASSUME TypeInv, LoopStep
  PROVE  TypeInv'
<1> USE SenderAssumption DEF TypeInv, Threads, queueVars, diskVars, netVars,
        scanVars, ctlVars, Goto
<1>1. CASE TooSoon
  <2>1. TypeOK'
    BY <1>1 DEF TypeOK, Labels, TooSoon
  <2>2. ControlOK'
    BY <1>1 DEF TypeOK, ControlOK, Holding, TooSoon
  <2> QED BY <2>1, <2>2
<1>2. CASE Reconnect
  <2>1. TypeOK'
    BY <1>2 DEF TypeOK, Labels, Reconnect, Connect
  <2>2. ControlOK'
    BY <1>2 DEF TypeOK, ControlOK, Holding, Reconnect, Connect
  <2> QED BY <2>1, <2>2
<1>3. CASE ReconnectFails
  <2>1. budget' \in [Kinds -> Nat]
    BY <1>3, FaultType DEF ReconnectFails, ConnectFails, TypeOK
  <2>2. TypeOK'
    BY <1>3, <2>1 DEF ReconnectFails, TypeOK, ControlOK, Labels, Holding
  <2>3. ControlOK'
    BY <1>3 DEF ReconnectFails, TypeOK, ControlOK, Labels, Holding
  <2> QED BY <2>2, <2>3
<1>4. CASE Dispatch
  <2>1. TypeOK'
    BY <1>4 DEF TypeOK, Labels, Dispatch
  <2>2. ControlOK'
    BY <1>4 DEF TypeOK, ControlOK, Holding, Dispatch
  <2> QED BY <2>1, <2>2
<1>5. CASE Check
  <2>1. TypeOK'
    BY <1>5 DEF TypeOK, Labels, Check
  <2>2. ControlOK'
    BY <1>5 DEF TypeOK, ControlOK, Holding, Check
  <2> QED BY <2>1, <2>2
<1> QED BY <1>1, <1>2, <1>3, <1>4, <1>5 DEF LoopStep

(* The queued buffers in run(). *)
LEMMA QueueTypes ==
  ASSUME TypeInv, QueueStep
  PROVE  TypeInv'
<1> USE SenderAssumption DEF TypeInv, Threads, queueVars, diskVars, netVars,
        scanVars, ctlVars, Goto
<1>1. CASE PopAll
  <2>1. TypeOK'
    BY <1>1, EmptySeq DEF TypeOK, Labels, PopAll
  <2>2. ControlOK'
    BY <1>1 DEF TypeOK, ControlOK, Holding, PopAll
  <2> QED BY <2>1, <2>2
<1>2. CASE PopWait
  <2>1. TypeOK'
    BY <1>2 DEF TypeOK, Labels, PopWait
  <2>2. ControlOK'
    BY <1>2 DEF TypeOK, ControlOK, Holding, PopWait
  <2> QED BY <2>1, <2>2
<1>3. CASE PopTimeout
  <2>1. connected' \in BOOLEAN /\ partial' \in Seq(0..accepted)
    BY <1>3, EmptySeq DEF PopTimeout, Disconnect, TypeOK
  <2>2. TypeOK'
    <3>1. UNCHANGED delivered
      BY <1>3 DEF PopTimeout
    <3> QED BY <1>3, <2>1, <3>1 DEF PopTimeout, TypeOK, ControlOK, Labels, Holding
  <2>3. ControlOK'
    BY <1>3 DEF PopTimeout, TypeOK, ControlOK, Labels, Holding
  <2> QED BY <2>2, <2>3
<1>4. CASE BatchConnect
  <2>1. TypeOK'
    BY <1>4 DEF TypeOK, Labels, BatchConnect, Connect
  <2>2. ControlOK'
    BY <1>4 DEF TypeOK, ControlOK, Holding, BatchConnect, Connect
  <2> QED BY <2>1, <2>2
<1>5. CASE BatchConnectFails
  <2>1. budget' \in [Kinds -> Nat]
    BY <1>5, FaultType DEF BatchConnectFails, ConnectFails, TypeOK
  <2>2. TypeOK'
    BY <1>5, <2>1, PushFrontType DEF BatchConnectFails, TypeOK, ControlOK, Labels, Holding
  <2>3. ControlOK'
    BY <1>5, PushFrontType DEF BatchConnectFails, TypeOK, ControlOK, Labels, Holding
  <2> QED BY <2>2, <2>3
<1>6. CASE BatchTransmit
  <2>1. Head(batch[Runner]) \in 1..accepted
    BY <1>6, TailType DEF BatchTransmit, TypeOK, ControlOK, Labels, Holding
  <2>2. partial' \in Seq(0..accepted) /\ delivered' \in Seq(1..accepted)
    <3>1. Transmit(Head(batch[Runner])) /\ Head(batch[Runner]) \in 0..accepted
      BY <1>6, <2>1 DEF BatchTransmit
    <3> QED BY <3>1, Counts, TransmitType DEF TypeOK
  <2>3. TypeOK'
    <3>1. off' \in [Threads -> Nat]
      BY <1>6, Increment DEF BatchTransmit, TypeOK
    <3> QED BY <1>6, <2>2, <3>1 DEF BatchTransmit, TypeOK
  <2>4. ControlOK'
    BY <1>6 DEF BatchTransmit, TypeOK, ControlOK, Labels, Holding
  <2> QED BY <2>3, <2>4
<1>7. CASE BatchSendFails
  <2>1. budget' \in [Kinds -> Nat]
    BY <1>7, FaultType DEF BatchSendFails, TypeOK
  <2>2. connected' \in BOOLEAN /\ partial' \in Seq(0..accepted)
    BY <1>7, EmptySeq DEF BatchSendFails, Disconnect
  <2>3. TypeOK'
    BY <1>7, <2>1, <2>2, PushFrontType DEF BatchSendFails, TypeOK, ControlOK, Labels, Holding
  <2>4. ControlOK'
    BY <1>7, PushFrontType DEF BatchSendFails, TypeOK, ControlOK, Labels, Holding
  <2> QED BY <2>3, <2>4
<1>8. CASE BatchPut
  <2>0. batch[Runner] # <<>>
    BY <1>8 DEF BatchPut, TypeOK, ControlOK, Holding
  <2>1. /\ Head(batch[Runner]) \in 1..accepted
        /\ Tail(batch[Runner]) \in Seq(1..accepted)
        /\ Tail(batch[Runner]) # <<>> <=> Len(batch[Runner]) > 1
    BY <2>0, TailType DEF TypeOK
  <2>2. TypeOK'
    BY <1>8, <2>1 DEF BatchPut, TypeOK, ControlOK, Labels, Holding
  <2>3. ControlOK'
    BY <1>8, <2>1 DEF BatchPut, TypeOK, ControlOK, Labels, Holding
  <2> QED BY <2>2, <2>3
<1> QED BY <1>1, <1>2, <1>3, <1>4, <1>5, <1>6, <1>7, <1>8 DEF QueueStep

(* The files in run(). *)
LEMMA FilesTypes ==
  ASSUME TypeInv, FilesStep
  PROVE  TypeInv'
<1> USE SenderAssumption DEF TypeInv, Threads, queueVars, diskVars, netVars,
        scanVars, ctlVars, Goto
<1>1. CASE FilesConnect
  <2>1. TypeOK'
    BY <1>1 DEF TypeOK, Labels, FilesConnect, Connect
  <2>2. ControlOK'
    BY <1>1 DEF TypeOK, ControlOK, Holding, FilesConnect, Connect
  <2> QED BY <2>1, <2>2
<1>2. CASE FilesConnectFails
  <2>1. budget' \in [Kinds -> Nat]
    BY <1>2, FaultType DEF FilesConnectFails, ConnectFails, TypeOK
  <2>2. connected' \in BOOLEAN
    BY <1>2 DEF FilesConnectFails, Connect, TypeOK
  <2>3. TypeOK'
    BY <1>2, <2>1, <2>2 DEF FilesConnectFails, TypeOK, ControlOK, Labels, Holding
  <2>4. ControlOK'
    BY <1>2 DEF FilesConnectFails, TypeOK, ControlOK, Labels, Holding
  <2> QED BY <2>3, <2>4
<1>3. CASE NextFile
  <2>1. PICK n \in DOMAIN files : /\ file' = n
                                  /\ fsize' = Len(files[n])
                                  /\ pending' = pending \ {n}
    BY <1>3 DEF NextFile
  <2>2. files[n] \in Seq(0..accepted) /\ n \in Nat
    BY DEF TypeOK
  <2>3. fsize' \in Nat
    BY <2>1, <2>2, LenProperties
  <2>4. TypeOK'
    BY <1>3, <2>1, <2>2, <2>3 DEF NextFile, TypeOK, ControlOK, Labels, Holding
  <2>5. ControlOK'
    BY <1>3, <2>1 DEF NextFile, TypeOK, ControlOK, Labels, Holding
  <2> QED BY <2>4, <2>5
<1>4. CASE ScanEnd
  <2>1. TypeOK'
    BY <1>4 DEF TypeOK, Labels, ScanEnd
  <2>2. ControlOK'
    BY <1>4 DEF TypeOK, ControlOK, Holding, ScanEnd
  <2> QED BY <2>1, <2>2
<1>5. CASE MapFile
  <2>1. TypeOK'
    BY <1>5 DEF TypeOK, Labels, MapFile
  <2>2. ControlOK'
    BY <1>5 DEF TypeOK, ControlOK, Holding, MapFile
  <2> QED BY <2>1, <2>2
<1>6. CASE FileTransmit
  <2>1. files[file] \in Seq(0..accepted)
    BY <1>6 DEF FileTransmit, TypeOK, ControlOK
  <2>2. files[file][off[Runner] + 1] \in 0..accepted
    <3>1. off[Runner] \in Nat /\ Len(files[file]) \in Nat
      BY <2>1, LenProperties DEF TypeOK
    <3>2. off[Runner] < Len(files[file])
      BY <1>6 DEF FileTransmit
    <3>3. off[Runner] + 1 \in 1..Len(files[file])
      BY <3>1, <3>2
    <3> QED BY <2>1, <3>3, ElementOfSeq
  <2>3. partial' \in Seq(0..accepted) /\ delivered' \in Seq(1..accepted)
    <3>1. Transmit(files[file][off[Runner] + 1])
      BY <1>6 DEF FileTransmit
    <3> QED BY <2>2, <3>1, Counts, TransmitType DEF TypeOK
  <2>4. TypeOK'
    <3>1. off' \in [Threads -> Nat]
      BY <1>6, Increment DEF FileTransmit, TypeOK
    <3> QED BY <1>6, <2>3, <3>1 DEF FileTransmit, TypeOK
  <2>5. ControlOK'
    BY <1>6 DEF FileTransmit, TypeOK, ControlOK, Labels, Holding
  <2> QED BY <2>4, <2>5
<1>7. CASE FileSendFails
  <2>1. budget' \in [Kinds -> Nat]
    BY <1>7, FaultType DEF FileSendFails, TypeOK
  <2>2. connected' \in BOOLEAN /\ partial' \in Seq(0..accepted)
    BY <1>7, EmptySeq DEF FileSendFails, Disconnect
  <2>3. TypeOK'
    BY <1>7, <2>1, <2>2 DEF FileSendFails, TypeOK, ControlOK, Labels, Holding
  <2>4. ControlOK'
    BY <1>7 DEF FileSendFails, TypeOK, ControlOK, Labels, Holding
  <2> QED BY <2>3, <2>4
<1>8. CASE FileSent
  <2>1. TypeOK'
    BY <1>8 DEF TypeOK, Labels, FileSent
  <2>2. ControlOK'
    BY <1>8 DEF TypeOK, ControlOK, Holding, FileSent
  <2> QED BY <2>1, <2>2
<1>9. CASE UnlinkFile
  <2>1. TypeOK'
    BY <1>9 DEF TypeOK, Labels, UnlinkFile, Unlinked
  <2>2. ControlOK'
    BY <1>9 DEF TypeOK, ControlOK, Holding, UnlinkFile, Unlinked
  <2> QED BY <2>1, <2>2
<1> QED BY <1>1, <1>2, <1>3, <1>4, <1>5, <1>6, <1>7, <1>8, <1>9 DEF FilesStep

(* Every step of the sender keeps the types and what threads rely on. *)
LEMMA TypeStep == TypeInv /\ [Next]_vars => TypeInv'
<1> SUFFICES ASSUME TypeInv, [Next]_vars PROVE TypeInv'
  OBVIOUS
<1>1. CASE Start \/ Stop \/ Join \/ Crash
  BY <1>1, OwnerTypes
<1>2. ASSUME NEW p \in Producers,
             (\E k \in 1..MaxRange : Send(p, k)) \/ ProducerStep(p)
      PROVE  TypeInv'
  <2>1. p \in Threads
    BY DEF Threads
  <2> QED BY <1>2, <2>1, SendTypes, SaveTypes DEF ProducerStep
<1>3. CASE RunnerStep
  <2>1. Runner \in Threads
    BY DEF Threads
  <2> QED BY <1>3, <2>1, LoopTypes, QueueTypes, FilesTypes, SaveTypes
          DEF RunnerStep
<1>4. CASE UNCHANGED vars
  BY <1>4 DEF vars, TypeInv, TypeOK, ControlOK, queueVars, diskVars, netVars,
              scanVars, ctlVars
<1> QED BY <1>1, <1>2, <1>3, <1>4 DEF Next

(* A new sender has them. *)
LEMMA TypeInit == Init => TypeInv
<1> SUFFICES ASSUME Init PROVE TypeInv
  OBVIOUS
<1>1. TypeOK
  <2>1. /\ queue \in Seq(1..accepted) /\ partial \in Seq(0..accepted)
        /\ batch \in [Threads -> Seq(1..accepted)]
        /\ delivered \in Seq(1..accepted)
    BY EmptySeq DEF Init
  <2>2. DOMAIN files = {} /\ files \in [DOMAIN files -> Seq(0..accepted)]
    BY DEF Init
  <2>3. /\ accepted \in 0..MaxMessages
        /\ returned \in SUBSET (1..accepted) /\ lost \in SUBSET (1..accepted)
    BY SenderAssumption DEF Init
  <2>4. /\ fd \in [Threads -> Nat \cup {None, Unlinked}]
        /\ cnt \in [Threads -> Nat] /\ off \in [Threads -> Nat]
        /\ pc \in [Threads -> Labels] /\ budget \in [Kinds -> Nat]
    BY DEF Init, Labels
  <2> QED BY <2>1, <2>2, <2>3, <2>4 DEF Init, TypeOK
<1>2. ControlOK
  BY SenderAssumption DEF Init, ControlOK, Threads, Holding
<1> QED BY <1>1, <1>2 DEF TypeInv

(* The type invariant, with what it relies on, holds in every state.       *)
THEOREM TypeInvariant == Spec => []TypeInv
BY TypeInit, TypeStep, PTL DEF Spec

(* Every variable always has the type of the field or local it stands for: *)
(* no thread takes a buffer from an empty batch, opens a file without a    *)
(* name, or reads a file that is not there.                                *)
THEOREM TypeCorrect == Spec => []TypeOK
<1>1. TypeInv => TypeOK
  BY DEF TypeInv
<1> QED BY TypeInvariant, <1>1, PTL

-----------------------------------------------------------------------------
(* What a step does to buffers.                                            *)

(* send() adds k new buffers. *)
Accepts(k) == /\ accepted' = accepted + k
              /\ queue' = queue \o [i \in 1..k |-> accepted + i]
              /\ UNCHANGED <<batch, returned, lost>>

(* Thread t, which holds no buffers, takes all that are queued. *)
Takes(t) == /\ batch[t] = <<>>
            /\ queue' = <<>>
            /\ batch' = [batch EXCEPT ![t] = queue]
            /\ UNCHANGED <<accepted, returned, lost>>

(* Thread t gives its first buffer to the allocator. *)
Puts(t) == /\ batch[t] # <<>>
           /\ returned' = returned \cup {Head(batch[t])}
           /\ batch' = [batch EXCEPT ![t] = Tail(@)]
           /\ UNCHANGED <<queue, accepted, lost>>

(* The runner pushes back what it could not send. *)
Restores == /\ queue' = batch[Runner] \o queue
            /\ batch' = [batch EXCEPT ![Runner] = <<>>]
            /\ UNCHANGED <<accepted, returned, lost>>

(* The process dies. *)
Dies == /\ queue' = <<>> /\ batch' = [t \in Threads |-> <<>>]
        /\ lost' = (1..accepted) \ returned
        /\ UNCHANGED <<accepted, returned>>

BufferStep == \/ \E k \in Nat : Accepts(k)
              \/ \E t \in Threads : Takes(t) \/ Puts(t)
              \/ Restores \/ Dies

(* Every step that touches a buffer is one of them.                        *)
LEMMA StepsOfBuffers ==
  ASSUME TypeInv, [Next]_vars
  PROVE  BufferStep \/ UNCHANGED queueVars
<1> USE SenderAssumption DEF TypeInv, Threads, queueVars
<1>1. CASE Start \/ Stop \/ Join
  BY <1>1 DEF Start, Stop, Join
<1>2. CASE Crash
  BY <1>2 DEF Crash, BufferStep, Dies
<1>3. ASSUME NEW p \in Producers, NEW k \in 1..MaxRange, Send(p, k)
      PROVE  BufferStep
  BY <1>3 DEF Send, BufferStep, Accepts
<1>4. ASSUME NEW p \in Producers, RequestFiles(p)
      PROVE  UNCHANGED queueVars
  BY <1>4 DEF RequestFiles
<1>5. ASSUME NEW t \in Threads, SaveStep(t)
      PROVE  BufferStep \/ UNCHANGED queueVars
  <2>1. CASE SavePop(t)
    BY <2>1 DEF SavePop, BufferStep, Takes, ControlOK, Holding
  <2>2. CASE SavePut(t)
    BY <2>2 DEF SavePut, BufferStep, Puts, ControlOK, Holding
  <2>3. CASE SaveStat(t) \/ SaveOpen(t) \/ SaveWrite(t)
    BY <2>3 DEF SaveStat, SaveOpen, SaveWrite
  <2> QED BY <1>5, <2>1, <2>2, <2>3 DEF SaveStep
<1>6. CASE LoopStep
  BY <1>6 DEF LoopStep, TooSoon, Reconnect, ReconnectFails, Dispatch, Check
<1>7. CASE QueueStep
  <2>1. CASE PopAll
    BY <2>1 DEF PopAll, BufferStep, Takes, ControlOK, Holding
  <2>2. CASE BatchPut
    BY <2>2 DEF BatchPut, BufferStep, Puts, ControlOK, Holding
  <2>3. CASE BatchConnectFails \/ BatchSendFails
    BY <2>3 DEF BatchConnectFails, BatchSendFails, PushFront, BufferStep,
                Restores
  <2>4. CASE PopWait \/ PopTimeout \/ BatchConnect \/ BatchTransmit
    BY <2>4 DEF PopWait, PopTimeout, BatchConnect, BatchTransmit
  <2> QED BY <1>7, <2>1, <2>2, <2>3, <2>4 DEF QueueStep
<1>8. CASE FilesStep
  BY <1>8 DEF FilesStep, FilesConnect, FilesConnectFails, NextFile, ScanEnd,
              MapFile, FileTransmit, FileSendFails, FileSent, UnlinkFile
<1>9. CASE UNCHANGED vars
  BY <1>9 DEF vars
<1> QED BY <1>1, <1>2, <1>3, <1>4, <1>5, <1>6, <1>7, <1>8, <1>9
        DEF Next, ProducerStep, RunnerStep

-----------------------------------------------------------------------------
(* Increasing sequences, and the sets of their elements.                   *)

(* Giving up the first element keeps a sequence increasing. *)
LEMMA IncreasingTail ==
  ASSUME NEW S, NEW s \in Seq(S), s # <<>>, Increasing(s)
  PROVE  Increasing(Tail(s))
<1>1. Len(s) \in Nat /\ Len(Tail(s)) = Len(s) - 1
  BY HeadTailProperties, LenProperties
<1>2. \A i \in 1..Len(Tail(s)) : i + 1 \in 1..Len(s) /\ Tail(s)[i] = s[i + 1]
  BY <1>1, HeadTailProperties
<1> QED BY <1>1, <1>2 DEF Increasing

(* A part of an increasing sequence is increasing.                         *)
LEMMA IncreasingParts ==
  ASSUME NEW S, NEW s \in Seq(S), NEW t \in Seq(S), Increasing(s \o t)
  PROVE  Increasing(s) /\ Increasing(t)
<1>1. /\ Len(s) \in Nat /\ Len(t) \in Nat /\ Len(s \o t) = Len(s) + Len(t)
      /\ \A i \in 1..Len(s) : (s \o t)[i] = s[i]
      /\ \A i \in 1..Len(t) : (s \o t)[Len(s) + i] = t[i]
  BY ConcatProperties, LenProperties
<1>2. Increasing(s)
  BY <1>1 DEF Increasing
<1>3. Increasing(t)
  <2> SUFFICES ASSUME NEW i \in 1..Len(t), NEW j \in 1..Len(t), i < j
               PROVE  t[i] < t[j]
    BY DEF Increasing
  <2>1. /\ Len(s) + i \in 1..Len(s \o t) /\ Len(s) + j \in 1..Len(s \o t)
        /\ Len(s) + i < Len(s) + j
    BY <1>1
  <2> QED BY <1>1, <2>1 DEF Increasing
<1> QED BY <1>2, <1>3

(* The first element of a concatenation can be dropped from its first part. *)
LEMMA TailConcat ==
  ASSUME NEW S, NEW s \in Seq(S), NEW t \in Seq(S), s # <<>>
  PROVE  Tail(s \o t) = Tail(s) \o t /\ s \o t # <<>>
<1>1. /\ Len(s) \in Nat /\ Len(t) \in Nat /\ Len(s) # 0
      /\ s \o t \in Seq(S) /\ Len(s \o t) = Len(s) + Len(t)
      /\ \A i \in 1..Len(s \o t) :
           (s \o t)[i] = IF i <= Len(s) THEN s[i] ELSE t[i - Len(s)]
  BY ConcatProperties, LenProperties, EmptySeq
<1>2. s \o t # <<>>
  BY <1>1, EmptySeq
<1>3. /\ Tail(s) \in Seq(S) /\ Len(Tail(s)) = Len(s) - 1
      /\ \A i \in 1..Len(Tail(s)) : Tail(s)[i] = s[i + 1]
  BY HeadTailProperties
<1>4. /\ Tail(s \o t) \in Seq(S) /\ Len(Tail(s \o t)) = Len(s \o t) - 1
      /\ \A i \in 1..Len(Tail(s \o t)) : Tail(s \o t)[i] = (s \o t)[i + 1]
  BY <1>1, <1>2, HeadTailProperties
<1>5. /\ Tail(s) \o t \in Seq(S) /\ Len(Tail(s) \o t) = Len(s) - 1 + Len(t)
      /\ \A i \in 1..Len(Tail(s) \o t) :
           (Tail(s) \o t)[i] = IF i <= Len(s) - 1 THEN Tail(s)[i]
                                                  ELSE t[i - (Len(s) - 1)]
  BY <1>3, ConcatProperties
<1>6. ASSUME NEW i \in 1..Len(Tail(s \o t))
      PROVE  Tail(s \o t)[i] = (Tail(s) \o t)[i]
  <2>1. i \in 1..(Len(s) + Len(t) - 1) /\ i + 1 \in 1..Len(s \o t)
    BY <1>1, <1>4
  <2>2. Tail(s \o t)[i] = IF i + 1 <= Len(s) THEN s[i + 1]
                                             ELSE t[i + 1 - Len(s)]
    BY <1>1, <1>4, <2>1
  <2>3. i + 1 <= Len(s) <=> i <= Len(s) - 1
    BY <1>1, <2>1
  <2>4. i + 1 - Len(s) = i - (Len(s) - 1)
    BY <1>1, <2>1
  <2>5. CASE i <= Len(s) - 1
    BY <1>1, <1>3, <1>5, <2>1, <2>2, <2>3, <2>5
  <2>6. CASE ~(i <= Len(s) - 1)
    BY <1>1, <1>5, <2>1, <2>2, <2>3, <2>4, <2>6
  <2> QED BY <2>5, <2>6
<1> QED BY <1>1, <1>2, <1>4, <1>5, <1>6, SeqEqual

(* New buffers have greater numbers than all the old ones.                 *)
LEMMA IncreasingGrows ==
  ASSUME NEW a \in Nat, NEW k \in Nat, NEW s \in Seq(1..a), Increasing(s)
  PROVE  Increasing(s \o [i \in 1..k |-> a + i])
<1> DEFINE n == [i \in 1..k |-> a + i]
<1>1. n \in Seq(Nat) /\ Len(n) = k
  <2>1. n \in [1..k -> Nat]
    OBVIOUS
  <2> QED BY <2>1, SeqDef, LenProperties
<1>2. s \in Seq(Nat)
  <2>1. 1..a \subseteq Nat
    OBVIOUS
  <2> QED BY <2>1, SeqMonotonic
<1>3. /\ Len(s) \in Nat /\ Len(s \o n) = Len(s) + k
      /\ \A i \in 1..Len(s \o n) :
           (s \o n)[i] = IF i <= Len(s) THEN s[i] ELSE n[i - Len(s)]
  BY <1>1, <1>2, ConcatProperties, LenProperties
<1> SUFFICES ASSUME NEW i \in 1..Len(s \o n), NEW j \in 1..Len(s \o n), i < j
             PROVE  (s \o n)[i] < (s \o n)[j]
  BY DEF Increasing
<1>4. CASE j <= Len(s)
  BY <1>3, <1>4 DEF Increasing
<1>5. CASE ~(j <= Len(s))
  <2>1. j - Len(s) \in 1..k /\ (s \o n)[j] = a + (j - Len(s))
    BY <1>3, <1>5
  <2>2. CASE i <= Len(s)
    <3>1. s[i] \in 1..a
      BY <1>3, <2>2, ElementOfSeq
    <3> QED BY <1>3, <2>1, <2>2, <3>1
  <2>3. CASE ~(i <= Len(s))
    <3>1. i - Len(s) \in 1..k /\ (s \o n)[i] = a + (i - Len(s))
      BY <1>3, <2>3
    <3> QED BY <1>3, <2>1, <3>1
  <2> QED BY <2>2, <2>3
<1> QED BY <1>4, <1>5

(* A concatenation holds what its parts hold. *)
LEMMA ToSetConcat ==
  ASSUME NEW S, NEW s \in Seq(S), NEW t \in Seq(S)
  PROVE  ToSet(s \o t) = ToSet(s) \cup ToSet(t)
<1>1. /\ Len(s) \in Nat /\ Len(t) \in Nat /\ Len(s \o t) = Len(s) + Len(t)
      /\ DOMAIN s = 1..Len(s) /\ DOMAIN t = 1..Len(t)
      /\ DOMAIN (s \o t) = 1..Len(s \o t)
      /\ \A i \in 1..Len(s \o t) :
           (s \o t)[i] = IF i <= Len(s) THEN s[i] ELSE t[i - Len(s)]
  BY ConcatProperties, LenProperties
<1>2. ASSUME NEW x \in ToSet(s \o t) PROVE x \in ToSet(s) \cup ToSet(t)
  <2>1. PICK i \in 1..Len(s \o t) : x = (s \o t)[i]
    BY <1>1 DEF ToSet
  <2>2. CASE i <= Len(s)
    BY <1>1, <2>1, <2>2 DEF ToSet
  <2>3. CASE ~(i <= Len(s))
    <3>1. i - Len(s) \in DOMAIN t /\ x = t[i - Len(s)]
      BY <1>1, <2>1, <2>3
    <3> QED BY <3>1 DEF ToSet
  <2> QED BY <2>2, <2>3
<1>3. ASSUME NEW x \in ToSet(s) PROVE x \in ToSet(s \o t)
  <2>1. PICK i \in 1..Len(s) : x = s[i]
    BY <1>1 DEF ToSet
  <2>2. i \in DOMAIN (s \o t) /\ (s \o t)[i] = x
    BY <1>1, <2>1
  <2> QED BY <2>2 DEF ToSet
<1>4. ASSUME NEW x \in ToSet(t) PROVE x \in ToSet(s \o t)
  <2>1. PICK i \in 1..Len(t) : x = t[i]
    BY <1>1 DEF ToSet
  <2>2. i + Len(s) \in DOMAIN (s \o t) /\ (s \o t)[i + Len(s)] = x
    BY <1>1, <2>1
  <2> QED BY <2>2 DEF ToSet
<1> QED BY <1>2, <1>3, <1>4

(* In an increasing sequence the first element occurs once: giving it up   *)
(* removes it.                                                             *)
LEMMA ToSetTail ==
  ASSUME NEW S, NEW s \in Seq(S), s # <<>>, S \subseteq Nat, Increasing(s)
  PROVE  ToSet(Tail(s)) = ToSet(s) \ {Head(s)}
<1>1. /\ Tail(s) \in Seq(S) /\ Len(Tail(s)) = Len(s) - 1
      /\ \A i \in 1..Len(Tail(s)) : Tail(s)[i] = s[i + 1]
  BY HeadTailProperties
<1>2. /\ Len(s) \in Nat \ {0} /\ Head(s) = s[1]
      /\ DOMAIN s = 1..Len(s) /\ DOMAIN Tail(s) = 1..Len(Tail(s))
  BY <1>1, EmptySeq, LenProperties
<1>3. \A i \in 1..Len(s) : s[i] \in Nat
  BY ElementOfSeq
<1>4. \A i \in 2..Len(s) : s[i] # s[1] /\ i - 1 \in 1..Len(Tail(s))
                           /\ Tail(s)[i - 1] = s[i]
  BY <1>1, <1>2, <1>3 DEF Increasing
<1>5. ASSUME NEW x \in ToSet(Tail(s))
      PROVE  x \in ToSet(s) /\ x # Head(s)
  <2>1. PICK i \in 1..Len(Tail(s)) : x = Tail(s)[i]
    BY <1>2 DEF ToSet
  <2>2. i + 1 \in 2..Len(s) /\ x = s[i + 1]
    BY <1>1, <1>2, <2>1
  <2> QED BY <1>2, <1>4, <2>2 DEF ToSet
<1>6. ASSUME NEW x \in ToSet(s), x # Head(s)
      PROVE  x \in ToSet(Tail(s))
  <2>1. PICK i \in 1..Len(s) : x = s[i]
    BY <1>2 DEF ToSet
  <2>2. i \in 2..Len(s)
    BY <1>2, <1>6, <2>1
  <2> QED BY <1>2, <1>4, <2>1, <2>2 DEF ToSet
<1> QED BY <1>5, <1>6

(* The buffers that send() adds are those numbered after all the old ones. *)
LEMMA ToSetNew ==
  ASSUME NEW a \in Nat, NEW k \in Nat
  PROVE  ToSet([i \in 1..k |-> a + i]) = (a + 1)..(a + k)
<1>1. ASSUME NEW x \in (a + 1)..(a + k)
      PROVE  x \in ToSet([i \in 1..k |-> a + i])
  <2>1. x - a \in 1..k /\ [i \in 1..k |-> a + i][x - a] = x
    OBVIOUS
  <2> QED BY <2>1 DEF ToSet
<1>2. ASSUME NEW x \in ToSet([i \in 1..k |-> a + i])
      PROVE  x \in (a + 1)..(a + k)
  BY DEF ToSet
<1> QED BY <1>1, <1>2

(* An empty queue or batch holds nothing. *)
LEMMA ToSetEmpty == ToSet(<<>>) = {}
BY DEF ToSet

-----------------------------------------------------------------------------
(* Order.                                                                  *)

(* Accepting adds greater numbers at the end; taking moves the whole queue *)
(* to an empty batch; putting back and dying only shorten; restoring joins *)
(* the batch of run() and the queue in the order they already have.        *)
LEMMA InOrderStep ==
  TypeInv /\ QueueInOrder /\ [Next]_vars => QueueInOrder'
<1> SUFFICES ASSUME TypeInv, QueueInOrder, [Next]_vars PROVE QueueInOrder'
  OBVIOUS
<1> DEFINE S == 1..accepted
<1>1. /\ accepted \in Nat /\ queue \in Seq(S)
      /\ \A t \in Threads : batch[t] \in Seq(S) /\ Increasing(batch[t])
      /\ Runner \in Threads /\ DOMAIN batch = Threads
      /\ Increasing(batch[Runner] \o queue)
  BY Counts DEF TypeInv, TypeOK, QueueInOrder, Threads
<1>2. Increasing(<<>>) /\ <<>> \in Seq(S)
  BY EmptySeq DEF Increasing
<1>3. Increasing(queue)
  BY <1>1, IncreasingParts
<1>4. ASSUME NEW s \in Seq(S) PROVE <<>> \o s = s /\ s \o <<>> = s
  BY ConcatEmptySeq
<1>5. ASSUME NEW k \in Nat, Accepts(k) PROVE QueueInOrder'
  <2> DEFINE new == [i \in 1..k |-> accepted + i]
             N == 1..(accepted + k)
  <2>1. batch[Runner] \in Seq(N) /\ queue \in Seq(N) /\ new \in Seq(N)
    <3>1. S \subseteq N /\ new \in [1..k -> N]
      BY <1>1
    <3> QED BY <1>1, <3>1, SeqMonotonic, SeqDef
  <2>2. batch[Runner] \o (queue \o new) = (batch[Runner] \o queue) \o new
    <3>1. \A a, b, c \in Seq(N) : (a \o b) \o c = a \o (b \o c)
      BY ConcatAssociative
    <3> HIDE DEF N, new
    <3> QED BY <2>1, <3>1, Zenon
  <2>3. batch[Runner] \o queue \in Seq(S)
    BY <1>1, ConcatProperties
  <2>4. Increasing((batch[Runner] \o queue) \o new)
    BY <1>1, <2>3, IncreasingGrows
  <2> QED BY <1>1, <1>5, <2>2, <2>4 DEF Accepts, QueueInOrder
<1>6. ASSUME NEW t \in Threads, Takes(t) PROVE QueueInOrder'
  <2>1. \A u \in Threads : batch'[u] = IF u = t THEN queue ELSE batch[u]
    BY <1>1, <1>6 DEF Takes
  <2>2. Increasing(batch'[Runner] \o queue')
    BY <1>1, <1>3, <1>4, <1>6, <2>1 DEF Takes
  <2> QED BY <1>1, <1>3, <2>1, <2>2 DEF QueueInOrder
<1>7. ASSUME NEW t \in Threads, Puts(t) PROVE QueueInOrder'
  <2>1. \A u \in Threads :
          batch'[u] = IF u = t THEN Tail(batch[t]) ELSE batch[u]
    BY <1>1, <1>7 DEF Puts
  <2>2. Increasing(Tail(batch[t]))
    BY <1>1, <1>7, IncreasingTail DEF Puts
  <2>3. CASE t = Runner
    <3>1. Increasing(Tail(batch[Runner]) \o queue)
      <4>1. batch[Runner] # <<>>
        BY <1>7, <2>3 DEF Puts
      <4>2. /\ Tail(batch[Runner] \o queue) = Tail(batch[Runner]) \o queue
            /\ batch[Runner] \o queue # <<>>
        BY <1>1, <4>1, TailConcat
      <4>3. batch[Runner] \o queue \in Seq(S)
        BY <1>1, ConcatProperties
      <4> QED BY <1>1, <4>2, <4>3, IncreasingTail
    <3> QED BY <1>1, <1>7, <2>1, <2>2, <2>3, <3>1 DEF QueueInOrder, Puts
  <2>4. CASE t # Runner
    BY <1>1, <1>7, <2>1, <2>2, <2>4 DEF QueueInOrder, Puts
  <2> QED BY <2>3, <2>4
<1>8. CASE Restores
  <2>1. \A u \in Threads : batch'[u] = IF u = Runner THEN <<>> ELSE batch[u]
    BY <1>1, <1>8 DEF Restores
  <2>2. batch[Runner] \o queue \in Seq(S)
    BY <1>1, ConcatProperties
  <2>3. Increasing(batch'[Runner] \o queue')
    BY <1>1, <1>4, <1>8, <2>1, <2>2 DEF Restores
  <2> QED BY <1>1, <1>2, <2>1, <2>3 DEF QueueInOrder
<1>9. CASE Dies
  <2>1. batch'[Runner] \o queue' = <<>>
    BY <1>1, <1>2, <1>4, <1>9 DEF Dies
  <2> QED BY <1>1, <1>2, <1>9, <2>1 DEF Dies, QueueInOrder
<1>10. CASE UNCHANGED queueVars
  BY <1>10 DEF queueVars, QueueInOrder
<1> QED BY <1>5, <1>6, <1>7, <1>8, <1>9, <1>10, StepsOfBuffers DEF BufferStep

(* Nothing is queued or held when the sender is created. *)
LEMMA InOrderInit == Init => QueueInOrder
<1> SUFFICES ASSUME Init PROVE QueueInOrder
  OBVIOUS
<1>1. Runner \in Threads /\ <<>> \in Seq(Nat) /\ <<>> \o <<>> = <<>>
  BY EmptySeq, ConcatEmptySeq DEF Threads
<1> QED BY <1>1 DEF Init, QueueInOrder, Increasing

(* Order and types, which are inductive together. *)
LEMMA OrderInvariant == Spec => [](TypeInv /\ QueueInOrder)
BY TypeInit, TypeStep, InOrderInit, InOrderStep, PTL DEF Spec

(* The queue and every batch hold the buffers in the order in which send() *)
(* accepted them, and everything in the batch of run() is older than       *)
(* everything in the queue, whatever is pushed back, spilled or restarted. *)
THEOREM InOrder == Spec => []QueueInOrder
<1>1. TypeInv /\ QueueInOrder => QueueInOrder
  OBVIOUS
<1> QED BY OrderInvariant, <1>1, PTL

-----------------------------------------------------------------------------
(* Ownership.                                                              *)

(* Buffers that do not exist yet are nowhere.                              *)
LEMMA NobodyHasNewBuffers ==
  ASSUME TypeInv, NEW m \in Nat, m > accepted
  PROVE  /\ ~InQueue(m) /\ \A t \in Threads : ~InBatch(t, m)
         /\ m \notin returned /\ m \notin lost
<1>1. accepted \in Nat /\ m \notin 1..accepted
  BY Counts DEF TypeInv
<1>2. ASSUME NEW s \in Seq(1..accepted) PROVE m \notin ToSet(s)
  BY <1>1, ElementOfSeq, LenProperties DEF ToSet
<1> QED BY <1>1, <1>2 DEF TypeInv, TypeOK, InQueue, InBatch

(* Every step moves buffers between owners and never copies or drops one:  *)
(* send() adds new ones, taking empties the queue, putting back hands the  *)
(* first buffer of one batch to the allocator, dying loses all the rest.   *)
LEMMA OwnedOnceStep ==
  TypeInv /\ QueueInOrder /\ OneOwner /\ [Next]_vars
    => OneOwner'
<1> SUFFICES ASSUME TypeInv, QueueInOrder, OneOwner, [Next]_vars
             PROVE  OneOwner'
  OBVIOUS
<1> DEFINE S == 1..accepted
<1>1. /\ accepted \in Nat /\ queue \in Seq(S) /\ S \subseteq Nat
      /\ \A t \in Threads : batch[t] \in Seq(S) /\ Increasing(batch[t])
      /\ Runner \in Threads /\ DOMAIN batch = Threads
  BY Counts DEF TypeInv, TypeOK, QueueInOrder, Threads
<1>2. ASSUME NEW k \in Nat, Accepts(k) PROVE OneOwner'
  <2> DEFINE new == [i \in 1..k |-> accepted + i]
             N == 1..(accepted + k)
  <2>1. ToSet(queue') = ToSet(queue) \cup (accepted + 1)..(accepted + k)
    <3>1. queue \in Seq(N) /\ new \in Seq(N)
      <4>1. S \subseteq N /\ new \in [1..k -> N]
        BY <1>1
      <4> QED BY <1>1, <4>1, SeqMonotonic, SeqDef
    <3>2. ToSet(new) = (accepted + 1)..(accepted + k)
      BY <1>1, ToSetNew
    <3>3. queue' = queue \o new
      BY <1>2 DEF Accepts
    <3>4. ToSet(queue \o new) = ToSet(queue) \cup ToSet(new)
      <4> HIDE DEF N, new
      <4> QED BY <3>1, ToSetConcat
    <3>5. ToSet(queue') = ToSet(queue \o new)
      <4> HIDE DEF new
      <4> QED BY <3>3
    <3> HIDE DEF N, new
    <3> QED BY <3>2, <3>4, <3>5
  <2> SUFFICES ASSUME NEW m \in 1..accepted'
               PROVE  /\ InMemory(m)' <=> m \notin returned' \cup lost'
                      /\ m \notin returned' \cap lost'
                      /\ InQueue(m)' => \A t \in Threads : ~InBatch(t, m)'
                      /\ \A t, u \in Threads :
                           InBatch(t, m)' /\ InBatch(u, m)' => t = u
    BY DEF OneOwner
  <2>2. /\ accepted' = accepted + k /\ m \in Nat
        /\ UNCHANGED <<batch, returned, lost>>
    BY <1>1, <1>2 DEF Accepts
  <2>3. \A t \in Threads : InBatch(t, m)' <=> InBatch(t, m)
    BY <2>2 DEF InBatch
  <2>4. CASE m \in S
    <3>1. InQueue(m)' <=> InQueue(m)
      BY <1>1, <2>1, <2>4 DEF InQueue
    <3> QED BY <2>2, <2>3, <2>4, <3>1 DEF OneOwner, InMemory
  <2>5. CASE m \notin S
    <3>1. m > accepted /\ InQueue(m)'
      BY <1>1, <2>1, <2>2, <2>5 DEF InQueue
    <3> QED BY <2>2, <2>3, <3>1, NobodyHasNewBuffers DEF InMemory
  <2> QED BY <2>4, <2>5
<1> SUFFICES ASSUME \/ \E t \in Threads : Takes(t) \/ Puts(t)
                    \/ Restores \/ Dies \/ UNCHANGED queueVars
             PROVE  OneOwner'
  BY <1>2, StepsOfBuffers DEF BufferStep
<1>3. UNCHANGED accepted
  BY DEF Takes, Puts, Restores, Dies, queueVars
<1> SUFFICES ASSUME NEW m \in S
             PROVE  /\ InMemory(m)' <=> m \notin returned' \cup lost'
                    /\ m \notin returned' \cap lost'
                    /\ InQueue(m)' => \A t \in Threads : ~InBatch(t, m)'
                    /\ \A t, u \in Threads :
                         InBatch(t, m)' /\ InBatch(u, m)' => t = u
  BY <1>3 DEF OneOwner
<1>4. /\ InMemory(m) <=> m \notin returned \cup lost
      /\ m \notin returned \cap lost
      /\ InQueue(m) => \A t \in Threads : ~InBatch(t, m)
      /\ \A t, u \in Threads : InBatch(t, m) /\ InBatch(u, m) => t = u
  BY DEF OneOwner
<1>5. ASSUME NEW t \in Threads, Takes(t)
      PROVE  /\ ~InQueue(m)' /\ ~InBatch(t, m)
             /\ InBatch(t, m)' <=> InQueue(m)
             /\ \A u \in Threads \ {t} : InBatch(u, m)' <=> InBatch(u, m)
             /\ UNCHANGED <<returned, lost>>
  BY <1>1, <1>5, ToSetEmpty DEF Takes, InQueue, InBatch
<1>6. ASSUME NEW t \in Threads, Puts(t)
      PROVE  /\ InQueue(m)' <=> InQueue(m)
             /\ InBatch(t, Head(batch[t]))
             /\ InBatch(t, m)' <=> InBatch(t, m) /\ m # Head(batch[t])
             /\ \A u \in Threads \ {t} : InBatch(u, m)' <=> InBatch(u, m)
             /\ returned' = returned \cup {Head(batch[t])}
             /\ UNCHANGED lost
  <2>1. batch[t] # <<>> /\ batch[t] \in Seq(S)
    BY <1>1, <1>6 DEF Puts
  <2>2. ToSet(Tail(batch[t])) = ToSet(batch[t]) \ {Head(batch[t])}
    BY <1>1, <2>1, ToSetTail
  <2>3. Head(batch[t]) \in ToSet(batch[t])
    <3>1. /\ Len(batch[t]) \in Nat \ {0} /\ DOMAIN batch[t] = 1..Len(batch[t])
          /\ Head(batch[t]) = batch[t][1]
      BY <2>1, EmptySeq, LenProperties
    <3> QED BY <3>1 DEF ToSet
  <2> QED BY <1>1, <1>6, <2>2, <2>3 DEF Puts, InQueue, InBatch
<1>7. ASSUME Restores
      PROVE  /\ InQueue(m)' <=> InQueue(m) \/ InBatch(Runner, m)
             /\ ~InBatch(Runner, m)'
             /\ \A u \in Threads \ {Runner} : InBatch(u, m)' <=> InBatch(u, m)
             /\ UNCHANGED <<returned, lost>>
  <2>1. ToSet(batch[Runner] \o queue) = ToSet(batch[Runner]) \cup ToSet(queue)
    BY <1>1, ToSetConcat
  <2> QED BY <1>1, <1>7, <2>1, ToSetEmpty DEF Restores, InQueue, InBatch
<1>8. ASSUME Dies
      PROVE  /\ ~InQueue(m)' /\ \A t \in Threads : ~InBatch(t, m)'
             /\ UNCHANGED returned /\ lost' = S \ returned
  BY <1>1, <1>8, ToSetEmpty DEF Dies, InQueue, InBatch
<1>9. CASE \E t \in Threads : Takes(t)
  BY <1>4, <1>5, <1>9 DEF InMemory
<1>10. CASE \E t \in Threads : Puts(t)
  BY <1>4, <1>6, <1>10 DEF InMemory
<1>11. CASE Restores
  BY <1>1, <1>4, <1>7, <1>11 DEF InMemory
<1>12. CASE Dies
  BY <1>4, <1>8, <1>12 DEF InMemory
<1>13. CASE UNCHANGED queueVars
  BY <1>4, <1>13 DEF queueVars, InMemory, InQueue, InBatch
<1> QED BY <1>9, <1>10, <1>11, <1>12, <1>13

(* Before the first send() there is no buffer to own. *)
LEMMA OwnedOnceInit == Init => OneOwner
BY DEF Init, OneOwner

(* Where saves succeed, every buffer has one owner throughout. *)
LEMMA OneOwnerInvariant == Spec => []OneOwner
BY OrderInvariant, OwnedOnceInit, OwnedOnceStep, PTL DEF Spec

(* Every accepted buffer is in the queue, or in the batch of one thread,   *)
(* or it was put back to the allocator, or it was lost when the process    *)
(* died, and never two of these: producers that spill and the runner that  *)
(* sends, pushes back and saves never share or leak a buffer.  Spec leaves *)
(* out the save at the end of run() that fails.                            *)
THEOREM OwnedOnce == Spec => []BufferOwnedOnce
<1>1. OneOwner => BufferOwnedOnce
  BY DEF BufferOwnedOnce
<1> QED BY <1>1, OneOwnerInvariant, PTL

=============================================================================
