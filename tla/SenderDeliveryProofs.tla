------------------------ MODULE SenderDeliveryProofs -------------------------
(***************************************************************************)
(* What the peer of module Sender receives, while the process lives        *)
(* (MaxCrashes = 0): whole buffers one behind the other, in order as long  *)
(* as no buffer goes by way of the disk, and each at most once whatever is *)
(* spilled and whatever fails.                                             *)
(***************************************************************************)
EXTENDS SenderDurabilityProofs

-----------------------------------------------------------------------------
(* Framing: the stream is never left in the middle of a buffer.            *)

(* The first k units of the content of buffer m. *)
Units(k, m) == [i \in 1..k |-> m]

(* The stream ends with the k units of m that are sent so far. *)
Begun(k, m) == \/ k < Chunks /\ partial = Units(k, m)
               \/ k = Chunks /\ partial = <<>>

WholeFile(n) == \E m \in 1..accepted : files[n] = Whole(m)

(* Every file but the one run() is writing holds a whole buffer. *)
Written ==
  /\ pc[Runner] = "open" => fd[Runner] \notin DOMAIN files
  /\ pc[Runner] = "write" =>
       /\ off[Runner] < Chunks /\ fd[Runner] \in DOMAIN files
       /\ files[fd[Runner]] = Units(off[Runner], Head(batch[Runner]))
  /\ \A n \in DOMAIN files :
       WholeFile(n) \/ (pc[Runner] = "write" /\ n = fd[Runner])

(* An incomplete buffer is the one that is being sent. *)
Framed ==
  /\ pc[Runner] \in {"send", "scan", "map", "sendfile", "unlink"} => connected
  /\ pc[Runner] \in {"map", "sendfile"} => fsize = Chunks
  /\ pc[Runner] = "send" => Begun(off[Runner], Head(batch[Runner]))
  /\ pc[Runner] = "sendfile" =>
       \E m \in 1..accepted : files[file] = Whole(m) /\ Begun(off[Runner], m)
  /\ pc[Runner] \notin {"send", "sendfile"} => partial = <<>>

FrameInv == Outside /\ Written /\ Framed

(* k units of a buffer. *)
LEMMA UnitsSeq ==
  ASSUME NEW k \in Nat, NEW m
  PROVE  /\ Units(k, m) \in Seq({m}) /\ Len(Units(k, m)) = k
         /\ \A i \in 1..k : Units(k, m)[i] = m
         /\ Units(0, m) = <<>>
<1>1. Units(k, m) \in [1..k -> {m}] /\ Units(0, m) \in [1..0 -> {m}]
  BY DEF Units
<1>2. Units(k, m) \in Seq({m}) /\ Len(Units(k, m)) = k
  BY <1>1, SeqDef, LenProperties
<1>3. Units(0, m) \in Seq({m}) /\ Len(Units(0, m)) = 0
  BY <1>1, SeqDef, LenProperties
<1> QED BY <1>2, <1>3, EmptySeq DEF Units

(* No units at all: nothing of a buffer is sent yet. *)
LEMMA NoUnits == 0 < Chunks /\ \A m : Units(0, m) = <<>>
<1>1. ASSUME NEW m PROVE Units(0, m) = <<>>
  BY UnitsSeq
<1> QED BY <1>1, SenderAssumption

(* The connection accepts one more unit of the buffer that is being sent:  *)
(* with the last one, the buffer is handed over.                           *)
LEMMA TransmitFramed ==
  ASSUME TypeInv, NEW m \in 1..accepted, NEW k \in Nat, k < Chunks, Begun(k, m),
         Transmit(m)
  PROVE  /\ Begun(k + 1, m)'
         /\ k + 1 < Chunks => delivered' = delivered
         /\ k + 1 = Chunks => delivered' = Append(delivered, m)
<1>1. Chunks \in Nat /\ accepted \in Nat /\ m # Hole /\ partial = Units(k, m)
  BY Counts DEF TypeInv, Begun, Hole
<1> DEFINE stream == Append(partial, m)
           before == Len(stream) - Chunks
<1>2. stream = Units(k + 1, m) /\ Len(stream) = k + 1
  <2>1. /\ partial \in Seq({m}) /\ Len(partial) = k
        /\ \A i \in 1..k : partial[i] = m
    BY <1>1, UnitsSeq
  <2>2. /\ stream \in Seq({m}) /\ Len(stream) = k + 1
        /\ \A i \in 1..k : stream[i] = m
        /\ stream[k + 1] = m
    BY <2>1, AppendProperties
  <2>3. /\ Units(k + 1, m) \in Seq({m}) /\ Len(Units(k + 1, m)) = k + 1
        /\ \A i \in 1..(k + 1) : Units(k + 1, m)[i] = m
    <3>1. k + 1 \in Nat
      OBVIOUS
    <3> QED BY <3>1, UnitsSeq
  <2> HIDE DEF stream
  <2>4. \A i \in 1..Len(stream) : stream[i] = Units(k + 1, m)[i]
    BY <2>2, <2>3
  <2> QED BY <2>2, <2>3, <2>4, SeqEqual
<1>3. CASE k + 1 < Chunks
  <2>1. ~(before >= 0)
    BY <1>1, <1>2, <1>3
  <2>2. partial' = stream /\ delivered' = delivered
    BY <2>1 DEF Transmit
  <2> QED BY <1>1, <1>2, <1>3, <2>2 DEF Begun
<1>4. CASE k + 1 = Chunks
  <2>1. before = 0 /\ Len(stream) = Chunks
    BY <1>1, <1>2, <1>4
  <2>2. SubSeq(stream, 1, Chunks) = Whole(m)
    <3>1. Whole(m) \in Seq({m}) /\ Len(Whole(m)) = Chunks /\ stream = Whole(m)
      BY <1>1, <1>2, <1>4, UnitsSeq DEF Whole, Units
    <3> HIDE DEF stream
    <3>2. SubSeq(Whole(m), 1, Len(Whole(m))) = Whole(m)
      <4>1. SubSeq(Whole(m), 1, Chunks) = [i \in 1..Chunks |-> Whole(m)[1 + i - 1]]
        BY <1>1, <3>1
      <4>2. \A i \in 1..Chunks : Whole(m)[1 + i - 1] = m
        BY <1>1 DEF Whole
      <4> QED BY <3>1, <4>1, <4>2 DEF Whole
    <3> QED BY <3>1, <3>2
  <2>3. SubSeq(stream, 1, 0) = <<>>
    BY <1>1, <1>2, SubSeqProperties, EmptySeq
  <2> HIDE DEF stream
  <2>4. partial' = SubSeq(stream, 1, before) /\ delivered' = Append(delivered, m)
    <3>1. before >= 0 /\ SubSeq(stream, before + 1, Len(stream)) = Whole(m)
      BY <2>1, <2>2
    <3> QED BY <1>1, <3>1 DEF Transmit, stream
  <2>5. partial' = <<>>
    BY <2>1, <2>3, <2>4
  <2> QED BY <1>1, <1>4, <2>4, <2>5 DEF Begun
<1> QED BY <1>1, <1>3, <1>4

(* Buffers that are accepted later do not change what is a whole file. *)
LEMMA WholeFileKept ==
  ASSUME TypeInv, accepted' \in Nat, accepted' >= accepted, NEW n \in DOMAIN files,
         n \in DOMAIN files', files'[n] = files[n], WholeFile(n)
  PROVE  WholeFile(n)'
<1>1. accepted \in Nat
  BY Counts DEF TypeInv
<1> QED BY <1>1 DEF WholeFile

(* A step that touches no file and leaves the stream at the end of a       *)
(* buffer, with run() at a place where it is not in the middle of          *)
(* something.                                                              *)
LEMMA QuietFrame ==
  ASSUME TypeInv, TypeInv', FrameInv, Outside', UNCHANGED <<files, accepted>>, partial' = <<>>,
         pc[Runner] # "write",
         pc'[Runner] \notin {"open", "write", "send", "map", "sendfile"},
         pc'[Runner] \in {"scan", "unlink"} => connected'
  PROVE  FrameInv'
<1>1. accepted' \in Nat /\ accepted' >= accepted
  BY Counts DEF TypeInv
<1>2. \A n \in DOMAIN files : WholeFile(n)'
  BY <1>1, WholeFileKept DEF FrameInv, Written
<1> QED BY <1>2 DEF FrameInv, Written, Framed

(* A step of somebody else: run() stays where it is. *)
LEMMA ElsewhereFrame ==
  ASSUME TypeInv, FrameInv, Outside', accepted' \in Nat, accepted' >= accepted,
         pc'[Runner] = pc[Runner],
         UNCHANGED <<batch, files, fd, off, partial, connected, file, fsize>>
  PROVE  FrameInv'
<1>1. accepted \in Nat /\ \A n \in DOMAIN files : WholeFile(n) => WholeFile(n)'
  BY Counts, WholeFileKept DEF TypeInv
<1>2. Written'
  BY <1>1 DEF FrameInv, Written
<1>3. \A k, m : Begun(k, m)' <=> Begun(k, m)
  BY DEF Begun
<1>4. Framed'
  BY <1>1, <1>3 DEF FrameInv, Framed
<1> QED BY <1>2, <1>4 DEF FrameInv

LEMMA OthersFramed ==
  ASSUME MaxCrashes = 0, TypeInv, FrameInv, Outside',
         \/ Start \/ Stop \/ Join \/ Crash \/ UNCHANGED vars
         \/ \E p \in Producers, k \in 1..MaxRange : Send(p, k)
  PROVE  FrameInv'
<1>1. /\ pc \in [Threads -> Labels] /\ Runner \in Threads /\ Owner \in Producers
      /\ Runner \notin Producers /\ accepted \in Nat
  BY SenderAssumption, Counts DEF TypeInv, TypeOK, Threads
<1>2. CASE Start \/ Join
  <2>1. pc'[Runner] \in {"loop", "none"} /\ pc[Runner] \in {"none", "done"}
    BY <1>1, <1>2 DEF Start, Join, Goto, Threads
  <2>2. UNCHANGED <<files, accepted, partial>>
    BY <1>2 DEF Start, Join, queueVars, diskVars, netVars
  <2>3. partial = <<>>
    BY <2>1 DEF FrameInv, Framed
  <2>4. TypeInv'
    BY <1>2, OwnerTypes
  <2> QED BY <2>1, <2>2, <2>3, <2>4, QuietFrame
<1>3. CASE Stop
  BY <1>1, <1>3, ElsewhereFrame
  DEF Stop, Goto, queueVars, diskVars, netVars, scanVars
<1>4. CASE Crash
  <2>1. budget["crashes"] \in Nat /\ budget["crashes"] < 0
    BY <1>4 DEF Crash, Spend, TypeInv, TypeOK, Kinds
  <2> QED BY <2>1
<1>5. ASSUME NEW p \in Producers, NEW k \in 1..MaxRange, Send(p, k)
      PROVE  FrameInv'
  <2>1. /\ pc'[Runner] = pc[Runner] /\ accepted' = accepted + k /\ k \in Nat
        /\ UNCHANGED <<batch, files, fd, off, partial, connected, file, fsize>>
    BY <1>1, <1>5 DEF Send, Goto, diskVars, netVars, scanVars
  <2>2. accepted' \in Nat /\ accepted' >= accepted
    BY <1>1, <2>1
  <2> QED BY <2>1, <2>2, ElsewhereFrame
<1>6. CASE UNCHANGED vars
  <2>1. /\ UNCHANGED <<pc, accepted, batch, files, fd, off, partial, connected>>
        /\ UNCHANGED <<file, fsize>>
    BY <1>6 DEF vars, queueVars, diskVars, netVars, scanVars
  <2> QED BY <1>1, <2>1, ElsewhereFrame
<1> QED BY <1>2, <1>3, <1>4, <1>5, <1>6

LEMMA LoopFramed ==
  ASSUME TypeInv, TypeInv', FrameInv, Outside', LoopStep
  PROVE  FrameInv'
<1>1. pc \in [Threads -> Labels] /\ Runner \in Threads
  BY DEF TypeInv, TypeOK, Threads
<1>2. /\ UNCHANGED <<files, accepted, partial>>
      /\ pc'[Runner] \in {"check", "dispatch", "pop", "files", "loop", "save"}
      /\ pc[Runner] \in {"loop", "dispatch", "check"}
  BY <1>1 DEF LoopStep, TooSoon, Reconnect, ReconnectFails, Dispatch, Check, Goto,
              queueVars, diskVars, netVars
<1>3. partial = <<>>
  BY <1>2 DEF FrameInv, Framed
<1> QED BY <1>2, <1>3, QuietFrame

(* run() saves what is left in the queue. *)
LEMMA SaveFramed ==
  ASSUME TypeInv, TypeInv', FrameInv, Outside', SaveStep(Runner)
  PROVE  FrameInv'
<1>1. /\ pc \in [Threads -> Labels] /\ Runner \in Threads
      /\ off \in [Threads -> Nat] /\ off[Runner] \in Nat
      /\ fd \in [Threads -> Nat \cup {None, Unlinked}]
      /\ batch \in [Threads -> Seq(1..accepted)] /\ Chunks \in Nat \ {0}
      /\ accepted \in Nat
  BY SenderAssumption, Counts DEF TypeInv, TypeOK, Threads
<1>2. /\ partial = <<>> /\ partial' = <<>> /\ accepted' = accepted
      /\ pc'[Runner] \in {"done", "stat", "open", "write", "put"}
  <2>1. pc[Runner] \in {"save", "stat", "open", "write", "put"}
    BY DEF SaveStep, SavePop, SaveStat, SaveOpen, SaveWrite, SavePut
  <2>2. partial = <<>>
    BY <2>1 DEF FrameInv, Framed
  <2> QED BY <1>1, <2>2
          DEF SaveStep, SavePop, SaveStat, SaveOpen, SaveWrite, SavePut, Goto, Saved,
              netVars, queueVars
<1>3. Framed'
  BY <1>2 DEF Framed
<1>4. \A n \in DOMAIN files : (n \in DOMAIN files' /\ files'[n] = files[n] /\ WholeFile(n)) => WholeFile(n)'
  BY <1>1, <1>2, WholeFileKept
<1> DEFINE m == Head(batch[Runner])
           n == fd[Runner]
<1>5. CASE SavePop(Runner) \/ SavePut(Runner)
  <2>1. /\ pc'[Runner] \in {"stat", "done"} /\ files' = files
        /\ pc[Runner] \in {"save", "put"}
    BY <1>1, <1>5 DEF SavePop, SavePut, Saved, Goto, diskVars
  <2> QED BY <1>3, <1>4, <2>1 DEF FrameInv, Written
<1>6. CASE SaveStat(Runner)
  <2>1. pc[Runner] = "stat" /\ files' = files
    BY <1>6 DEF SaveStat
  <2>2. \/ pc'[Runner] = "stat"
        \/ pc'[Runner] = "open" /\ fd'[Runner] \notin DOMAIN files
    BY <1>1, <1>6 DEF SaveStat, Goto
  <2> QED BY <1>3, <1>4, <2>1, <2>2 DEF FrameInv, Written
<1>7. CASE SaveOpen(Runner)
  <2>1. /\ pc[Runner] = "open" /\ n \notin DOMAIN files
        /\ pc'[Runner] = "write" /\ off'[Runner] = 0 /\ fd' = fd /\ batch' = batch
    BY <1>1, <1>7 DEF SaveOpen, Goto, FrameInv, Written, queueVars
  <2>2. /\ DOMAIN files' = DOMAIN files \cup {n} /\ files'[n] = <<>>
        /\ \A j \in DOMAIN files : files'[j] = files[j]
    BY <1>7, <2>1 DEF SaveOpen
  <2>3. files'[n] = Units(0, m)
    BY <2>2, UnitsSeq
  <2> HIDE DEF m, n
  <2>4. \A j \in DOMAIN files : WholeFile(j)'
    BY <1>4, <2>1, <2>2 DEF FrameInv, Written
  <2>5. 0 < Chunks
    BY <1>1
  <2> QED BY <1>3, <2>1, <2>2, <2>3, <2>4, <2>5 DEF FrameInv, Written, m, n
<1>8. CASE SaveWrite(Runner)
  <2>1. /\ pc[Runner] = "write" /\ off[Runner] < Chunks /\ n \in DOMAIN files
        /\ files[n] = Units(off[Runner], m)
        /\ batch' = batch /\ off'[Runner] = off[Runner] + 1
    BY <1>1, <1>8 DEF SaveWrite, FrameInv, Written, queueVars
  <2>2. WriteAt(files[n], off[Runner] + 1, m) = Units(off[Runner] + 1, m)
    <3> HIDE DEF m, n
    <3>1. WriteAt([i \in 1..off[Runner] |-> m], off[Runner] + 1, m)
                = [i \in 1..(off[Runner] + 1) |-> m]
      BY <1>1, WriteNext
    <3> QED BY <2>1, <3>1, Zenon DEF Units
  <2>3. /\ DOMAIN files' = DOMAIN files
        /\ files'[n] = Units(off[Runner] + 1, m)
        /\ \A j \in DOMAIN files \ {n} : files'[j] = files[j]
    BY <1>8, <2>1, <2>2 DEF SaveWrite, TypeInv, TypeOK
  <2>4. \A j \in DOMAIN files \ {n} : WholeFile(j)'
    BY <1>4, <2>1, <2>3 DEF FrameInv, Written
  <2>5. CASE off[Runner] + 1 = Chunks
    <3>1. pc'[Runner] = "put"
      BY <1>1, <1>8, <2>5 DEF SaveWrite, Goto
    <3>2. m \in 1..accepted
      BY <1>1, <2>1, TailType DEF TypeInv, ControlOK, Holding
    <3>3. files'[n] = Whole(m)
      BY <2>3, <2>5 DEF Whole, Units
    <3>4. ASSUME NEW j \in DOMAIN files' PROVE WholeFile(j)'
      <4>1. CASE j = n
        <5> HIDE DEF m, n
        <5> QED BY <1>2, <3>2, <3>3, <4>1 DEF WholeFile
      <4>2. CASE j # n
        BY <2>3, <2>4, <4>2
      <4> QED BY <4>1, <4>2
    <3> QED BY <1>3, <3>1, <3>4 DEF FrameInv, Written
  <2>6. CASE off[Runner] + 1 # Chunks
    <3>1. pc'[Runner] = "write" /\ fd' = fd
      BY <1>1, <1>8, <2>1, <2>6 DEF SaveWrite
    <3>2. off[Runner] + 1 < Chunks
      <4>1. off[Runner] < Chunks
        BY <2>1
      <4> QED BY <1>1, <2>6, <4>1
    <3>3. files'[n] = Units(off'[Runner], Head(batch'[Runner])) /\ n = fd'[Runner]
      BY <2>1, <2>3, <3>1
    <3> HIDE DEF m, n
    <3> QED BY <1>3, <2>1, <2>3, <2>4, <3>1, <3>2, <3>3 DEF FrameInv, Written
  <2> QED BY <2>5, <2>6
<1> QED BY <1>5, <1>6, <1>7, <1>8 DEF SaveStep

(* run() sends its batch: after a failure the connection is closed, and    *)
(* with the last unit of a buffer the stream is at its end.                *)
LEMMA QueueFramed ==
  ASSUME TypeInv, TypeInv', FrameInv, Outside', QueueStep
  PROVE  FrameInv'
<1>1. /\ pc \in [Threads -> Labels] /\ Runner \in Threads
      /\ off \in [Threads -> Nat] /\ off[Runner] \in Nat /\ Chunks \in Nat \ {0}
      /\ batch \in [Threads -> Seq(1..accepted)] /\ accepted \in Nat
  BY SenderAssumption, Counts DEF TypeInv, TypeOK, Threads
<1>2. /\ UNCHANGED <<files, accepted>>
      /\ pc[Runner] \in {"pop", "wait", "connect", "send"}
  BY DEF QueueStep, PopAll, PopWait, PopTimeout, BatchConnect, BatchConnectFails,
         BatchTransmit, BatchSendFails, BatchPut, PushFront, queueVars, diskVars
<1>3. CASE PopAll \/ PopWait \/ PopTimeout \/ BatchConnectFails \/ BatchSendFails
  <2>1. pc'[Runner] \in {"connect", "wait", "check"}
    BY <1>1, <1>3 DEF PopAll, PopWait, PopTimeout, BatchConnectFails, BatchSendFails,
                      PushFront, Goto
  <2>2. partial' = <<>>
    <3>1. CASE BatchSendFails
      BY <3>1 DEF BatchSendFails, Disconnect
    <3>2. CASE PopAll \/ PopWait \/ PopTimeout \/ BatchConnectFails
      <4>1. partial = <<>>
        BY <3>2 DEF PopAll, PopWait, PopTimeout, BatchConnectFails, FrameInv, Framed
      <4> QED BY <3>2, <4>1
              DEF PopAll, PopWait, PopTimeout, BatchConnectFails, Disconnect, netVars
    <3> QED BY <1>3, <3>1, <3>2
  <2> QED BY <1>2, <2>1, <2>2, QuietFrame
<1>4. ASSUME pc'[Runner] \in {"send", "check"}, Framed' PROVE FrameInv'
  <2>1. \A n \in DOMAIN files : WholeFile(n)'
    BY <1>1, <1>2, WholeFileKept DEF FrameInv, Written
  <2> QED BY <1>2, <1>4, <2>1 DEF FrameInv, Written
<1> DEFINE m == Head(batch[Runner])
<1>5. CASE BatchConnect
  <2>1. /\ pc'[Runner] = "send" /\ off'[Runner] = 0 /\ connected' = TRUE
        /\ partial' = partial /\ partial = <<>>
    BY <1>1, <1>5 DEF BatchConnect, Connect, Goto, FrameInv, Framed
  <2>2. Begun(off[Runner], Head(batch[Runner]))'
    BY <2>1, NoUnits DEF Begun
  <2>3. Framed'
    BY <2>1, <2>2 DEF Framed
  <2> QED BY <1>4, <2>1, <2>3
<1>6. CASE BatchTransmit
  <2>1. /\ pc[Runner] = "send" /\ off[Runner] < Chunks /\ Transmit(m) /\ connected
        /\ pc' = pc /\ off'[Runner] = off[Runner] + 1 /\ connected' = connected
        /\ UNCHANGED batch
    BY <1>1, <1>6 DEF BatchTransmit, queueVars, FrameInv, Framed
  <2>2. PICK x \in 1..accepted, k \in Nat : x = m /\ k = off[Runner]
    <3>1. batch[Runner] # <<>> /\ batch[Runner] \in Seq(1..accepted)
      BY <1>1, <2>1 DEF TypeInv, ControlOK, Holding
    <3>2. m \in 1..accepted
      BY <3>1, TailType
    <3> QED BY <1>1, <3>2
  <2>3. Begun(k + 1, x)'
    <3>1. Begun(k, x) /\ k < Chunks /\ Transmit(x)
      BY <2>1, <2>2 DEF FrameInv, Framed
    <3> QED BY <3>1, TransmitFramed
  <2>4. Framed'
    BY <2>1, <2>2, <2>3 DEF Framed
  <2> QED BY <1>4, <2>1, <2>4
<1>7. CASE BatchPut
  <2>1. /\ pc'[Runner] \in {"send", "check"} /\ off'[Runner] = 0
        /\ connected' = connected /\ partial' = partial
        /\ pc[Runner] = "send" /\ off[Runner] = Chunks
    BY <1>1, <1>7 DEF BatchPut, Goto, netVars
  <2>2. connected /\ partial = <<>>
    BY <1>1, <2>1 DEF FrameInv, Framed, Begun
  <2>3. Begun(off[Runner], Head(batch[Runner]))'
    BY <2>1, <2>2, NoUnits DEF Begun
  <2>4. Framed'
    BY <2>1, <2>2, <2>3 DEF Framed
  <2> QED BY <1>4, <2>1, <2>4
<1> QED BY <1>3, <1>5, <1>6, <1>7 DEF QueueStep

(* run() sends files: nobody else touches them, so what it sends is whole. *)
LEMMA FilesFramed ==
  ASSUME TypeInv, TypeInv', FrameInv, Outside', FilesStep
  PROVE  FrameInv'
<1>1. /\ pc \in [Threads -> Labels] /\ Runner \in Threads
      /\ off \in [Threads -> Nat] /\ off[Runner] \in Nat /\ Chunks \in Nat \ {0}
      /\ accepted \in Nat
  BY SenderAssumption, Counts DEF TypeInv, TypeOK, Threads
<1>2. /\ accepted' = accepted
      /\ pc[Runner] \in {"files", "scan", "map", "sendfile", "unlink"}
  BY DEF FilesStep, FilesConnect, FilesConnectFails, NextFile, ScanEnd, MapFile,
         FileTransmit, FileSendFails, FileSent, UnlinkFile, queueVars
<1>3. /\ \A n \in DOMAIN files : WholeFile(n)
      /\ pc[Runner] \in {"scan", "map", "sendfile", "unlink"} => connected
      /\ pc[Runner] # "sendfile" => partial = <<>>
  BY <1>2 DEF FrameInv, Written, Framed
<1>4. ASSUME files' = files, pc'[Runner] \in {"map", "sendfile"}, Framed'
      PROVE  FrameInv'
  <2>1. \A n \in DOMAIN files : WholeFile(n)'
    BY <1>1, <1>2, <1>3, <1>4, WholeFileKept
  <2> QED BY <1>4, <2>1 DEF FrameInv, Written
<1>5. CASE FilesConnect \/ FilesConnectFails \/ ScanEnd \/ FileSendFails
  <2>1. /\ files' = files /\ pc'[Runner] \in {"scan", "check"}
        /\ pc'[Runner] = "scan" => connected'
    BY <1>1, <1>5 DEF FilesConnect, FilesConnectFails, ScanEnd, FileSendFails, Goto,
                      Connect, diskVars
  <2>2. partial' = <<>>
    <3>1. CASE FileSendFails
      BY <3>1 DEF FileSendFails, Disconnect
    <3>2. CASE FilesConnect \/ FilesConnectFails \/ ScanEnd
      BY <1>3, <3>2 DEF FilesConnect, FilesConnectFails, ScanEnd, netVars
    <3> QED BY <1>5, <3>1, <3>2
  <2> QED BY <1>2, <2>1, <2>2, QuietFrame
<1>6. CASE NextFile
  <2>1. PICK n \in DOMAIN files : file' = n /\ fsize' = Len(files[n])
    BY <1>6 DEF NextFile
  <2>2. /\ pc[Runner] = "scan" /\ pc'[Runner] = "map" /\ files' = files
        /\ connected' = connected /\ partial' = partial
    BY <1>1, <1>6 DEF NextFile, Goto, diskVars, netVars
  <2>3. fsize' = Chunks
    BY <1>3, <2>1, WholeUnits DEF WholeFile
  <2>4. Framed'
    BY <1>3, <2>2, <2>3 DEF Framed
  <2> QED BY <1>4, <2>2, <2>4
<1>7. CASE MapFile
  <2>1. /\ pc[Runner] = "map" /\ pc'[Runner] \in {"sendfile", "unlink"}
        /\ off'[Runner] = 0 /\ UNCHANGED <<files, connected, partial, file, fsize>>
    BY <1>1, <1>7 DEF MapFile, Goto, diskVars, netVars, scanVars
  <2>2. CASE pc'[Runner] = "unlink"
    BY <1>2, <1>3, <2>1, <2>2, QuietFrame
  <2>3. CASE pc'[Runner] = "sendfile"
    <3>1. PICK m \in 1..accepted : files[file] = Whole(m)
      BY <1>3, <2>1 DEF WholeFile, TypeInv, ControlOK
    <3>2. Begun(0, m)'
      BY <1>3, <2>1, NoUnits DEF Begun
    <3>3. fsize = Chunks
      BY <2>1 DEF FrameInv, Framed
    <3>4. Framed'
      BY <1>2, <1>3, <2>1, <2>3, <3>1, <3>2, <3>3 DEF Framed
    <3> QED BY <1>4, <2>1, <2>3, <3>4
  <2> QED BY <2>1, <2>2, <2>3
<1>8. CASE FileTransmit
  <2>1. /\ pc[Runner] = "sendfile" /\ pc' = pc /\ off[Runner] < fsize
        /\ Transmit(files[file][off[Runner] + 1])
        /\ off'[Runner] = off[Runner] + 1 /\ fsize = Chunks
        /\ UNCHANGED <<files, connected, file, fsize>>
    BY <1>1, <1>8 DEF FileTransmit, diskVars, scanVars, FrameInv, Framed
  <2>2. PICK m \in 1..accepted, k \in Nat :
           files[file] = Whole(m) /\ Begun(k, m) /\ k = off[Runner]
    BY <1>1, <2>1 DEF FrameInv, Framed
  <2>3. k < Chunks /\ files[file][k + 1] = m
    <3>1. k < Chunks
      BY <2>1, <2>2
    <3>2. k + 1 \in 1..Chunks
      BY <1>1, <3>1
    <3> QED BY <2>2, <3>1, <3>2, WholeUnits
  <2>4. Begun(k + 1, m)'
    <3>1. Transmit(m)
      BY <2>1, <2>2, <2>3
    <3> QED BY <2>2, <2>3, <3>1, TransmitFramed
  <2>5. Framed'
    BY <1>2, <1>3, <2>1, <2>2, <2>4 DEF Framed
  <2> QED BY <1>4, <2>1, <2>5
<1>9. CASE FileSent
  <2>1. /\ pc[Runner] = "sendfile" /\ pc'[Runner] = "unlink"
        /\ off[Runner] = fsize /\ fsize = Chunks
        /\ UNCHANGED <<files, connected, partial>>
    BY <1>1, <1>9 DEF FileSent, Goto, diskVars, netVars, FrameInv, Framed
  <2>2. partial = <<>>
    BY <1>1, <2>1 DEF FrameInv, Framed, Begun
  <2> QED BY <1>2, <1>3, <2>1, <2>2, QuietFrame
<1>10. CASE UnlinkFile
  <2>1. /\ pc[Runner] = "unlink" /\ pc'[Runner] = "scan"
        /\ DOMAIN files' \subseteq DOMAIN files
        /\ \A n \in DOMAIN files' : files'[n] = files[n]
        /\ UNCHANGED <<connected, partial>>
    BY <1>1, <1>10 DEF UnlinkFile, Goto, netVars
  <2>2. \A n \in DOMAIN files' : WholeFile(n)'
    BY <1>1, <1>2, <1>3, <2>1, WholeFileKept
  <2> QED BY <1>3, <2>1, <2>2 DEF FrameInv, Written, Framed
<1> QED BY <1>5, <1>6, <1>7, <1>8, <1>9, <1>10 DEF FilesStep

LEMMA FrameStep ==
  ASSUME MaxCrashes = 0, TypeInv, TypeInv', FrameInv, [Next]_vars, NoSpill'
  PROVE  FrameInv'
<1>1. Outside' /\ Outside
  BY OutsideStep DEF FrameInv
<1>2. CASE \/ Start \/ Stop \/ Join \/ Crash \/ UNCHANGED vars
           \/ \E p \in Producers, k \in 1..MaxRange : Send(p, k)
  BY <1>1, <1>2, OthersFramed
<1>3. ASSUME NEW p \in Producers, ProducerStep(p)
      PROVE  FALSE
  BY <1>1, <1>3 DEF ProducerStep, RequestFiles, SaveStep, SavePop, SaveStat, SaveOpen,
                    SaveWrite, SavePut, Outside
<1>4. CASE RunnerStep
  BY <1>1, <1>4, LoopFramed, QueueFramed, FilesFramed, SaveFramed DEF RunnerStep
<1> QED BY <1>2, <1>3, <1>4 DEF Next

LEMMA FrameInit == Init => FrameInv
<1> SUFFICES ASSUME Init PROVE FrameInv
  OBVIOUS
<1>1. pc[Runner] = "none" /\ DOMAIN files = {} /\ partial = <<>>
  BY DEF Init, Threads
<1>2. Outside
  BY SenderAssumption DEF Init, Outside, Threads
<1> QED BY <1>1, <1>2 DEF FrameInv, Written, Framed

LEMMA FrameInvariant ==
  ASSUME MaxCrashes = 0
  PROVE  Spec /\ []NoSpill => [](TypeInv /\ FrameInv)
<1>1. TypeInv /\ TypeInv' /\ FrameInv /\ [Next]_vars /\ NoSpill' => FrameInv'
  BY FrameStep
<1> QED BY <1>1, FrameInit, TypeInvariant, PTL DEF Spec

(* After a failure, the connection on which part of a buffer was sent is   *)
(* not used again, whatever fails and however often the sender is stopped  *)
(* and restarted, as long as the process lives and nobody spills.          *)
THEOREM KeepsFraming ==
  ASSUME MaxCrashes = 0
  PROVE  Spec /\ []NoSpill => []FramingIntact
<1>1. TypeInv /\ FrameInv => FramingIntact
  <2> SUFFICES ASSUME TypeInv, FrameInv, partial # <<>>
               PROVE  /\ connected /\ pc[Runner] \in {"send", "sendfile"}
                      /\ Len(partial) = off[Runner]
    BY DEF FramingIntact
  <2>1. connected /\ pc[Runner] \in {"send", "sendfile"}
    BY DEF FrameInv, Framed
  <2>2. \E m : partial = Units(off[Runner], m)
    BY <2>1 DEF FrameInv, Framed, Begun
  <2>3. off[Runner] \in Nat
    BY DEF TypeInv, TypeOK, Threads
  <2> QED BY <2>1, <2>2, <2>3, UnitsSeq
<1> QED BY <1>1, FrameInvariant, PTL

-----------------------------------------------------------------------------
(* Order: the peer receives the buffers in the order of acceptance.        *)

(* Nobody calls save_buffers(): no producer finds the queue too long, and  *)
(* run() does not end.                                                     *)
NobodySaves == \A t \in Threads : pc[t] # "save"

(* The numbers from a on. *)
Consecutive(s, a) == \A i \in 1..Len(s) : s[i] = a + i - 1

(* What run() has popped and what is still queued. *)
Unsent == batch[Runner] \o queue

(* The first of them: until it goes back to the allocator, a buffer that   *)
(* is handed over belongs to the batch.                                    *)
First == IF pc[Runner] = "send" /\ off[Runner] = Chunks
         THEN Len(delivered)
         ELSE Len(delivered) + 1

(* Nothing is missing between what is handed over and what is not. *)
Sequential ==
  /\ Consecutive(delivered, 1)
  /\ Consecutive(Unsent, First)
  /\ Len(Unsent) = accepted - First + 1

(* The disk is out of it. *)
QueueOnly ==
  /\ DOMAIN files = {}
  /\ pc[Runner] \in {"none", "loop", "check", "dispatch", "pop", "wait", "connect",
                     "send", "files", "scan"}

OrderInv == FrameInv /\ Sequential /\ QueueOnly

(* A step that leaves alone what is handed over and what is not. *)
LEMMA QuietOrder ==
  ASSUME TypeInv, FrameInv', Sequential, QueueOnly', UNCHANGED <<accepted, delivered>>,
         Unsent' = Unsent, First' = First
  PROVE  OrderInv' /\ UNCHANGED Ordered!vars
BY DEF OrderInv, Sequential, Consecutive, Ordered!vars

(* send() numbers the buffers it accepts consecutively. *)
LEMMA SendOrdered ==
  ASSUME TypeInv, FrameInv', OrderInv, NEW p \in Producers, NEW k \in 1..MaxRange, Send(p, k)
  PROVE  OrderInv' /\ Ordered!Accept
<1> DEFINE new == [i \in 1..k |-> accepted + i]
<1>1. /\ accepted \in Nat /\ k \in Nat \ {0} /\ accepted' = accepted + k
      /\ queue' = queue \o new
      /\ pc'[Runner] = pc[Runner]
      /\ UNCHANGED <<delivered, batch, off, files>>
  <2>1. accepted \in Nat /\ k \in Nat \ {0}
    BY SenderAssumption, Counts DEF TypeInv
  <2>2. pc'[Runner] = pc[Runner]
    BY SenderAssumption DEF Send, Goto, TypeInv, TypeOK, Threads
  <2> QED BY <2>1, <2>2 DEF Send, diskVars, netVars
<1>2. /\ queue \in Seq(Nat) /\ batch[Runner] \in Seq(Nat) /\ delivered \in Seq(Nat)
  <2>1. /\ queue \in Seq(1..accepted) /\ batch[Runner] \in Seq(1..accepted)
        /\ delivered \in Seq(1..accepted)
    BY DEF TypeInv, TypeOK, Threads
  <2>2. 1..accepted \subseteq Nat
    BY <1>1
  <2> QED BY <2>1, <2>2, SeqMonotonic
<1>3. new \in Seq(Nat) /\ Len(new) = k
  <2>1. new \in [1..k -> Nat]
    BY <1>1
  <2> QED BY <1>1, <2>1, SeqDef, LenProperties
<1>4. Unsent' = Unsent \o new /\ Unsent \in Seq(Nat)
  <2> HIDE DEF new
  <2>1. batch[Runner] \o (queue \o new) = (batch[Runner] \o queue) \o new
    <3>1. \A s, t, u \in Seq(Nat) : (s \o t) \o u = s \o (t \o u)
      BY ConcatAssociative
    <3> QED BY <1>2, <1>3, <3>1, Zenon
  <2>2. Unsent' = batch[Runner] \o (queue \o new)
    BY <1>1 DEF Unsent
  <2> QED BY <1>2, <2>1, <2>2, ConcatProperties DEF Unsent
<1>5. /\ Len(Unsent) \in Nat /\ Len(Unsent') = Len(Unsent) + k
      /\ \A i \in 1..Len(Unsent) : Unsent'[i] = Unsent[i]
      /\ \A i \in 1..k : Unsent'[Len(Unsent) + i] = new[i]
  <2> HIDE DEF new
  <2> QED BY <1>1, <1>3, <1>4, ConcatProperties, LenProperties
<1>6. First' = First /\ First \in Nat
  BY <1>1, <1>2, LenProperties DEF First
<1>7. Consecutive(Unsent, First)'
  <2> SUFFICES ASSUME NEW i \in 1..Len(Unsent') PROVE Unsent'[i] = First + i - 1
    BY <1>6 DEF Consecutive
  <2>1. CASE i \in 1..Len(Unsent)
    BY <1>5, <2>1 DEF OrderInv, Sequential, Consecutive
  <2>2. CASE i \notin 1..Len(Unsent)
    <3>1. i - Len(Unsent) \in 1..k /\ i = Len(Unsent) + (i - Len(Unsent))
      BY <1>1, <1>5, <2>2
    <3>2. Unsent'[i] = accepted + (i - Len(Unsent))
      BY <1>5, <3>1
    <3>3. Len(Unsent) = accepted - First + 1
      BY DEF OrderInv, Sequential
    <3>4. i \in Nat
      BY <1>1, <1>5
    <3> HIDE DEF new
    <3> QED BY <1>1, <1>5, <1>6, <3>2, <3>3, <3>4
  <2> QED BY <2>1, <2>2
<1>8. Len(Unsent') = accepted' - First' + 1
  BY <1>1, <1>5, <1>6 DEF OrderInv, Sequential
<1>9. Sequential' /\ QueueOnly'
  BY <1>1, <1>7, <1>8 DEF OrderInv, Sequential, QueueOnly, Consecutive
<1> QED BY <1>1, <1>9 DEF OrderInv, Ordered!Accept

(* Taking the queue, and pushing the batch back, keep the buffers in the   *)
(* sequence they are in.                                                   *)
LEMMA UnsentKept ==
  ASSUME TypeInv,
         \/ /\ batch[Runner] = <<>> /\ queue' = <<>>
            /\ batch'[Runner] = queue
         \/ /\ queue' = batch[Runner] \o queue
            /\ batch'[Runner] = <<>>
  PROVE  Unsent' = Unsent
<1>1. queue \in Seq(1..accepted) /\ batch[Runner] \in Seq(1..accepted)
  BY DEF TypeInv, TypeOK, Threads
<1>2. Unsent \in Seq(1..accepted)
  BY <1>1, ConcatProperties DEF Unsent
<1>3. CASE batch[Runner] = <<>> /\ queue' = <<>> /\ batch'[Runner] = queue
  <2>1. Unsent' = queue \o <<>> /\ Unsent = <<>> \o queue
    BY <1>3, Zenon DEF Unsent
  <2> QED BY <1>1, <2>1, ConcatEmptySeq
<1>4. CASE queue' = batch[Runner] \o queue /\ batch'[Runner] = <<>>
  <2>1. Unsent' = <<>> \o Unsent
    BY <1>4, Zenon DEF Unsent
  <2> QED BY <1>2, <2>1, ConcatEmptySeq
<1> QED BY <1>3, <1>4

(* run() hands over the first buffer that is not handed over yet. *)
LEMMA QueueOrdered ==
  ASSUME TypeInv, FrameInv', OrderInv, QueueStep
  PROVE  OrderInv' /\ (Ordered!Deliver \/ UNCHANGED Ordered!vars)
<1>1. /\ pc \in [Threads -> Labels] /\ Runner \in Threads
      /\ off \in [Threads -> Nat] /\ off[Runner] \in Nat /\ Chunks \in Nat \ {0}
      /\ batch \in [Threads -> Seq(1..accepted)] /\ accepted \in Nat
      /\ queue \in Seq(1..accepted) /\ delivered \in Seq(1..accepted)
      /\ Len(delivered) \in Nat
  BY SenderAssumption, Counts, LenProperties DEF TypeInv, TypeOK, Threads
<1>2. FrameInv /\ Sequential /\ QueueOnly
  BY DEF OrderInv
<1>3. UNCHANGED <<files, accepted>> /\ QueueOnly'
  BY <1>1, <1>2
  DEF QueueStep, PopAll, PopWait, PopTimeout, BatchConnect, BatchConnectFails,
      BatchTransmit, BatchSendFails, BatchPut, PushFront, Goto, queueVars, diskVars,
      QueueOnly
<1>4. CASE PopAll \/ PopWait \/ PopTimeout \/ BatchConnectFails \/ BatchSendFails
  <2>1. /\ delivered' = delivered /\ pc'[Runner] # "send"
        /\ pc[Runner] = "send" => off[Runner] < Chunks
    BY <1>1, <1>4 DEF PopAll, PopWait, PopTimeout, BatchConnectFails, BatchSendFails,
                      PushFront, Goto, netVars
  <2>2. First' = First
    BY <1>1, <2>1 DEF First
  <2>3. Unsent' = Unsent
    <3>1. CASE PopWait \/ PopTimeout
      BY <3>1 DEF PopWait, PopTimeout, Unsent, queueVars
    <3>2. CASE PopAll
      <4>1. batch[Runner] = <<>>
        BY <1>1, <3>2 DEF PopAll, TypeInv, ControlOK, Holding
      <4> QED BY <1>1, <3>2, <4>1, UnsentKept DEF PopAll
    <3>3. CASE BatchConnectFails \/ BatchSendFails
      BY <1>1, <3>3, UnsentKept DEF BatchConnectFails, BatchSendFails, PushFront
    <3> QED BY <1>4, <3>1, <3>2, <3>3
  <2> QED BY <1>2, <1>3, <2>1, <2>2, <2>3, QuietOrder
<1>5. CASE BatchConnect
  <2>1. /\ delivered' = delivered /\ pc[Runner] = "connect" /\ off'[Runner] = 0
        /\ UNCHANGED <<batch, queue>>
    BY <1>1, <1>5 DEF BatchConnect, queueVars
  <2>2. First' = First /\ Unsent' = Unsent
    BY <1>1, <2>1 DEF First, Unsent
  <2> QED BY <1>2, <1>3, <2>1, <2>2, QuietOrder
<1>6. ASSUME pc[Runner] = "send"
      PROVE  /\ batch[Runner] # <<>> /\ batch[Runner] \in Seq(1..accepted)
             /\ Unsent \in Seq(1..accepted) /\ Len(Unsent) \in Nat \ {0}
             /\ Head(batch[Runner]) = First /\ First \in 1..accepted
             /\ Tail(Unsent) = Tail(batch[Runner]) \o queue
  <2>1. batch[Runner] # <<>> /\ batch[Runner] \in Seq(1..accepted)
    BY <1>1, <1>6 DEF TypeInv, ControlOK, Holding
  <2>2. /\ Unsent \in Seq(1..accepted) /\ Len(batch[Runner]) \in Nat \ {0}
        /\ Len(Unsent) = Len(batch[Runner]) + Len(queue)
        /\ Unsent[1] = batch[Runner][1] /\ Len(queue) \in Nat
    BY <1>1, <2>1, ConcatProperties, LenProperties, EmptySeq DEF Unsent
  <2>3. First \in Nat
    BY <1>1 DEF First
  <2>4. Unsent[1] = First
    BY <1>2, <2>2, <2>3 DEF Sequential, Consecutive
  <2>5. Head(batch[Runner]) = batch[Runner][1]
    BY <2>1, HeadTailProperties
  <2>6. Head(batch[Runner]) \in 1..accepted
    BY <2>1, TailType
  <2>7. Tail(Unsent) = Tail(batch[Runner]) \o queue
    BY <1>1, <2>1, TailConcat DEF Unsent
  <2> QED BY <2>1, <2>2, <2>4, <2>5, <2>6, <2>7
<1>7. CASE BatchTransmit
  <2>1. /\ pc[Runner] = "send" /\ off[Runner] < Chunks
        /\ Transmit(Head(batch[Runner]))
        /\ pc' = pc /\ off'[Runner] = off[Runner] + 1
        /\ UNCHANGED <<batch, queue>>
    BY <1>1, <1>7 DEF BatchTransmit, queueVars
  <2>2. PICK m \in 1..accepted, k \in Nat :
           m = Head(batch[Runner]) /\ k = off[Runner]
    BY <1>1, <1>6, <2>1
  <2>3. Begun(k, m) /\ k < Chunks /\ Transmit(m)
    BY <1>2, <2>1, <2>2 DEF FrameInv, Framed
  <2>4. /\ k + 1 < Chunks => delivered' = delivered
        /\ k + 1 = Chunks => delivered' = Append(delivered, m)
    BY <2>3, TransmitFramed
  <2>5. Unsent' = Unsent
    BY <2>1 DEF Unsent
  <2>6. CASE k + 1 < Chunks
    <3>1. First' = First
      BY <1>1, <2>1, <2>2, <2>4, <2>6 DEF First
    <3> QED BY <1>2, <1>3, <2>4, <2>5, <2>6, <3>1, QuietOrder
  <2>7. CASE k + 1 = Chunks
    <3>1. /\ delivered' = Append(delivered, m) /\ m = First
          /\ First = Len(delivered) + 1
      BY <1>1, <1>6, <2>1, <2>2, <2>4, <2>7 DEF First
    <3>2. /\ Len(delivered') = Len(delivered) + 1
          /\ \A i \in 1..Len(delivered) : delivered'[i] = delivered[i]
          /\ delivered'[Len(delivered) + 1] = m
      BY <1>1, <3>1, AppendProperties
    <3>3. First' = First
      BY <1>1, <2>1, <2>2, <2>7, <3>1, <3>2 DEF First
    <3>4. Consecutive(delivered, 1)'
      <4> SUFFICES ASSUME NEW i \in 1..Len(delivered') PROVE delivered'[i] = 1 + i - 1
        BY DEF Consecutive
      <4>1. CASE i \in 1..Len(delivered)
        BY <1>2, <3>2, <4>1 DEF Sequential, Consecutive
      <4>2. CASE i \notin 1..Len(delivered)
        <5>1. i = Len(delivered) + 1
          BY <1>1, <3>2, <4>2
        <5> QED BY <1>1, <3>1, <3>2, <5>1
      <4> QED BY <4>1, <4>2
    <3>5. Sequential'
      BY <1>2, <1>3, <2>5, <3>3, <3>4 DEF Sequential, Consecutive
    <3>6. Ordered!Deliver
      <4>1. \A i \in 1..Len(delivered) : delivered[i] # m
        BY <1>1, <1>2, <3>1 DEF Sequential, Consecutive
      <4> QED BY <1>3, <3>1, <4>1 DEF Ordered!Deliver
    <3> QED BY <1>3, <3>5, <3>6 DEF OrderInv
  <2>8. k + 1 < Chunks \/ k + 1 = Chunks
    BY <1>1, <2>3
  <2> QED BY <2>6, <2>7, <2>8
<1>8. CASE BatchPut
  <2>1. /\ pc[Runner] = "send" /\ off[Runner] = Chunks
        /\ batch'[Runner] = Tail(batch[Runner]) /\ off'[Runner] = 0
        /\ UNCHANGED <<queue, delivered>>
    BY <1>1, <1>8 DEF BatchPut, netVars
  <2>2. First = Len(delivered) /\ First' = Len(delivered) + 1
    BY <1>1, <2>1 DEF First
  <2>3. Unsent' = Tail(Unsent)
    BY <1>6, <2>1 DEF Unsent
  <2>4. /\ Len(Unsent') = Len(Unsent) - 1 /\ Len(Unsent) \in Nat \ {0}
        /\ \A i \in 1..Len(Unsent') : Unsent'[i] = Unsent[i + 1]
    BY <1>6, <2>1, <2>3, HeadTailProperties, EmptySeq
  <2>5. Consecutive(Unsent, First)'
    <3> SUFFICES ASSUME NEW i \in 1..Len(Unsent') PROVE Unsent'[i] = First' + i - 1
      BY DEF Consecutive
    <3>1. i + 1 \in 1..Len(Unsent) /\ i \in Nat
      BY <2>4
    <3>2. Unsent'[i] = First + (i + 1) - 1
      BY <1>2, <2>4, <3>1 DEF Sequential, Consecutive
    <3> QED BY <1>1, <2>2, <3>1, <3>2
  <2>6. Len(Unsent') = accepted' - First' + 1
    BY <1>1, <1>2, <1>3, <2>2, <2>4 DEF Sequential
  <2>7. Sequential'
    BY <1>2, <2>1, <2>5, <2>6 DEF Sequential, Consecutive
  <2> QED BY <1>3, <2>1, <2>7 DEF OrderInv, Ordered!vars
<1> QED BY <1>4, <1>5, <1>7, <1>8 DEF QueueStep

LEMMA OrderStep ==
  ASSUME MaxCrashes = 0, TypeInv, FrameInv', OrderInv, [Next]_vars, NobodySaves'
  PROVE  OrderInv' /\ [Ordered!Next]_(Ordered!vars)
<1>1. /\ pc \in [Threads -> Labels] /\ Runner \in Threads /\ Owner \in Producers
      /\ Runner \notin Producers /\ accepted \in Nat /\ pc'[Runner] # "save"
  BY SenderAssumption, Counts DEF TypeInv, TypeOK, Threads, NobodySaves
<1>2. FrameInv /\ Outside /\ Sequential /\ QueueOnly
  BY DEF OrderInv, FrameInv
<1>3. ASSUME UNCHANGED <<accepted, delivered, queue, batch, files>>,
             \/ /\ pc'[Runner] = pc[Runner]
                /\ off'[Runner] = off[Runner]
             \/ /\ pc[Runner] # "send"
                /\ pc'[Runner] \in {"none", "loop", "check", "dispatch", "pop", "wait",
                                    "connect", "files", "scan"}
      PROVE  OrderInv' /\ UNCHANGED Ordered!vars
  <2>1. Unsent' = Unsent /\ First' = First /\ QueueOnly'
    BY <1>2, <1>3 DEF Unsent, First, QueueOnly
  <2> QED BY <1>2, <1>3, <2>1, QuietOrder
<1>4. CASE Start \/ Stop \/ Join
  <2>1. UNCHANGED <<accepted, delivered, queue, batch, files, off>>
    BY <1>4 DEF Start, Stop, Join, queueVars, diskVars, netVars
  <2>2. \/ pc'[Runner] = pc[Runner]
        \/ pc[Runner] # "send" /\ pc'[Runner] \in {"none", "loop"}
    BY <1>1, <1>4 DEF Start, Stop, Join, Goto
  <2> QED BY <1>3, <2>1, <2>2
<1>5. CASE Crash
  <2>1. budget["crashes"] \in Nat /\ budget["crashes"] < 0
    BY <1>5 DEF Crash, Spend, TypeInv, TypeOK, Kinds
  <2> QED BY <2>1
<1>6. ASSUME NEW p \in Producers, NEW k \in 1..MaxRange, Send(p, k)
      PROVE  OrderInv' /\ Ordered!Accept
  BY <1>6, SendOrdered
<1>7. ASSUME NEW p \in Producers, ProducerStep(p)
      PROVE  FALSE
  BY <1>2, <1>7 DEF ProducerStep, RequestFiles, SaveStep, SavePop, SaveStat, SaveOpen,
                    SaveWrite, SavePut, Outside
<1>8. CASE LoopStep
  <2>1. UNCHANGED <<accepted, delivered, queue, batch, files>>
    BY <1>8 DEF LoopStep, TooSoon, Reconnect, ReconnectFails, Dispatch, Check,
                queueVars, diskVars, netVars
  <2>2. /\ pc[Runner] # "send"
        /\ pc'[Runner] \in {"loop", "check", "dispatch", "pop", "files", "save"}
    BY <1>1, <1>8 DEF LoopStep, TooSoon, Reconnect, ReconnectFails, Dispatch, Check, Goto
  <2> QED BY <1>1, <1>3, <2>1, <2>2
<1>9. CASE QueueStep
  BY <1>9, QueueOrdered DEF Ordered!Next
<1>10. CASE FilesStep
  <2>1. pc[Runner] \in {"files", "scan"} /\ ~NextFile
    BY <1>2, <1>10
    DEF FilesStep, FilesConnect, FilesConnectFails, NextFile, ScanEnd, MapFile,
        FileTransmit, FileSendFails, FileSent, UnlinkFile, QueueOnly
  <2>2. FilesConnect \/ FilesConnectFails \/ ScanEnd
    BY <1>10, <2>1 DEF FilesStep, MapFile, FileTransmit, FileSendFails, FileSent, UnlinkFile
  <2>3. /\ UNCHANGED <<accepted, delivered, queue, batch, files>>
        /\ pc'[Runner] \in {"scan", "check"}
    BY <1>1, <2>2 DEF FilesConnect, FilesConnectFails, ScanEnd, Goto, queueVars, diskVars, netVars
  <2> QED BY <1>3, <2>1, <2>3
<1>11. CASE SaveStep(Runner)
  BY <1>2, <1>11 DEF SaveStep, SavePop, SaveStat, SaveOpen, SaveWrite, SavePut, QueueOnly
<1>12. CASE UNCHANGED vars
  <2>1. UNCHANGED <<accepted, delivered, queue, batch, files, pc, off>>
    BY <1>12 DEF vars, queueVars, diskVars, netVars
  <2> QED BY <1>3, <2>1
<1> QED BY <1>4, <1>5, <1>6, <1>7, <1>8, <1>9, <1>10, <1>11, <1>12
        DEF Next, RunnerStep, Ordered!Next

(* As long as no buffer goes by way of the disk, the sender implements the *)
(* outbox that hands over every buffer once and in the order in which      *)
(* send() accepted it, whatever connections fail in the meantime.          *)
THEOREM InOrderOutbox ==
  ASSUME MaxCrashes = 0
  PROVE  Spec /\ []NobodySaves => DeliversInOrder
<1>1. Init => OrderInv /\ Ordered!Init
  <2> SUFFICES ASSUME Init PROVE OrderInv /\ Ordered!Init
    OBVIOUS
  <2>1. /\ pc[Runner] = "none" /\ DOMAIN files = {} /\ delivered = <<>> /\ accepted = 0
        /\ batch[Runner] = <<>> /\ queue = <<>>
    BY DEF Init, Threads
  <2>2. Unsent = <<>>
    BY <2>1, ConcatEmptySeq, EmptySeq DEF Unsent
  <2>3. Len(<<>>) = 0
    OBVIOUS
  <2>4. First = 1
    BY <2>1, <2>3 DEF First
  <2>5. Sequential
    BY <2>1, <2>2, <2>3, <2>4 DEF Sequential, Consecutive
  <2> QED BY <2>1, <2>5, FrameInit DEF OrderInv, QueueOnly, Ordered!Init
<1>2. NobodySaves => NoSpill
  BY DEF NobodySaves, NoSpill, Threads
<1>3. TypeInv /\ FrameInv' /\ OrderInv /\ [Next]_vars /\ NobodySaves' =>
        OrderInv' /\ [Ordered!Next]_(Ordered!vars)
  BY OrderStep
<1> QED BY <1>1, <1>2, <1>3, FrameInvariant, TypeInvariant, PTL
        DEF Spec, DeliversInOrder, Ordered!Spec

-----------------------------------------------------------------------------
(* At most once: whatever is spilled, and whatever files are lost on the   *)
(* way, nothing of a buffer that was handed over is left to be sent again. *)

(* File n has units of buffer m. *)
Has(n, m) == n \in DOMAIN files /\ m \in ToSet(files[n])

(* Buffer m is nowhere but in the files N: it is not queued, and a thread  *)
(* that has it is writing it into such a file, or into a file that nobody  *)
(* can open any more, or has just done so.                                 *)
Only(N, m) ==
  /\ ~InQueue(m)
  /\ \A t \in Threads : InBatch(t, m) =>
       /\ m = Head(batch[t])
       /\ \/ pc[t] = "put"
          \/ pc[t] = "write" /\ fd[t] \in N \cup {Unlinked}
  /\ \A n \in DOMAIN files : Has(n, m) => n \in N

(* Nothing of m is left to be sent. *)
Gone(m) == Only({}, m)

(* No file is longer than a buffer. *)
Sizes ==
  /\ \A n \in DOMAIN files : Len(files[n]) <= Chunks
  /\ \A t \in Threads : pc[t] = "write" => off[t] < Chunks
  /\ fsize <= Chunks
  /\ pc[Runner] = "send" => off[Runner] <= Chunks
  /\ pc[Runner] = "sendfile" => off[Runner] <= fsize

(* A buffer is in one file, and then nowhere else. *)
Placed ==
  /\ \A n \in DOMAIN files : \A m \in 1..accepted : Has(n, m) => Only({n}, m)
  /\ \A t \in Threads : pc[t] = "write" => Only({fd[t]}, Head(batch[t]))

(* Units of m are handed over, or are at the end of the stream. *)
Emitted(m) == Delivered(m) \/ m \in ToSet(partial)

(* The buffer, or the file, that run() is about to finish with. *)
Finishing(m) ==
  \/ pc[Runner] = "send" /\ m = Head(batch[Runner])
  \/ pc[Runner] \in {"sendfile", "unlink"} /\ Only({file}, m)

Spent == \A m \in 1..accepted : Emitted(m) => Gone(m) \/ Finishing(m)

(* While run() sends a buffer or a file, it has not handed it over, and    *)
(* only as many units as it has sent can be units of it.                   *)
Fresh ==
  pc[Runner] \in {"send", "sendfile"} /\ off[Runner] < Chunks =>
    /\ off[Runner] <= Len(partial)
    /\ \A m \in 1..accepted : Delivered(m) => Gone(m)
    /\ \A i \in 1..(Len(partial) - off[Runner]) :
         partial[i] # Hole => Gone(partial[i])

OnceInv == Sizes /\ Placed /\ Spent /\ Fresh

(* Where a buffer can come from: it gets into the queue when run() pushes  *)
(* back what it could not send, and into a batch from the queue.           *)
LEMMA BufferMoves ==
  ASSUME MaxCrashes = 0, TypeInv, QueueInOrder, [Next]_vars, NEW m \in 1..accepted
  PROVE  /\ InQueue(m)' => InQueue(m) \/ (InBatch(Runner, m) /\ pc[Runner] \in {"connect", "send"})
         /\ \A t \in Threads : InBatch(t, m)' =>
              \/ InQueue(m)
              \/ InBatch(t, m) /\ (batch'[t] = batch[t] \/ m # Head(batch[t]))
<1> DEFINE S == 1..accepted
<1>1. /\ accepted \in Nat /\ queue \in Seq(S) /\ S \subseteq Nat
      /\ \A t \in Threads : batch[t] \in Seq(S) /\ Increasing(batch[t])
      /\ Runner \in Threads /\ DOMAIN batch = Threads
  BY Counts DEF TypeInv, TypeOK, QueueInOrder, Threads
<1>2. ~Crash
  <2> SUFFICES ASSUME Crash PROVE FALSE
    OBVIOUS
  <2>1. budget["crashes"] \in Nat /\ budget["crashes"] < 0
    BY DEF Crash, Spend, TypeInv, TypeOK, Kinds
  <2> QED BY <2>1
<1>3. ASSUME NEW k \in Nat, Accepts(k)
      PROVE  /\ InQueue(m)' => InQueue(m)
             /\ batch' = batch
  <2> DEFINE new == [i \in 1..k |-> accepted + i]
             N == 1..(accepted + k)
  <2>1. queue \in Seq(N) /\ new \in Seq(N)
    <3>1. S \subseteq N /\ new \in [1..k -> N]
      BY <1>1
    <3> QED BY <1>1, <3>1, SeqMonotonic, SeqDef
  <2>2. m \notin ToSet(new)
    <3>1. ToSet(new) = (accepted + 1)..(accepted + k)
      BY <1>1, ToSetNew
    <3> HIDE DEF new
    <3> QED BY <1>1, <3>1
  <2>3. queue' = queue \o new /\ batch' = batch
    BY <1>3 DEF Accepts
  <2> HIDE DEF N, new
  <2>4. ToSet(queue \o new) = ToSet(queue) \cup ToSet(new)
    BY <2>1, ToSetConcat
  <2>5. ToSet(queue') = ToSet(queue) \cup ToSet(new)
    BY <2>3, <2>4
  <2> QED BY <2>2, <2>3, <2>5 DEF InQueue
<1>4. ASSUME NEW t \in Threads, Takes(t)
      PROVE  /\ ~InQueue(m)'
             /\ InBatch(t, m)' => InQueue(m)
             /\ \A u \in Threads \ {t} : batch'[u] = batch[u]
  BY <1>1, <1>4, ToSetEmpty DEF Takes, InQueue, InBatch
<1>5. ASSUME NEW t \in Threads, Puts(t)
      PROVE  /\ InQueue(m)' => InQueue(m)
             /\ InBatch(t, m)' => InBatch(t, m) /\ m # Head(batch[t])
             /\ \A u \in Threads \ {t} : batch'[u] = batch[u]
  <2>1. batch[t] # <<>> /\ batch[t] \in Seq(S)
    BY <1>1, <1>5 DEF Puts
  <2>2. ToSet(Tail(batch[t])) = ToSet(batch[t]) \ {Head(batch[t])}
    BY <1>1, <2>1, ToSetTail
  <2> QED BY <1>1, <1>5, <2>2 DEF Puts, InQueue, InBatch
<1>6. ASSUME PushFront
      PROVE  /\ InQueue(m)' => InQueue(m) \/ InBatch(Runner, m)
             /\ \A u \in Threads : InBatch(u, m)' => batch'[u] = batch[u]
  <2>1. ToSet(batch[Runner] \o queue) = ToSet(batch[Runner]) \cup ToSet(queue)
    BY <1>1, ToSetConcat
  <2>2. queue' = batch[Runner] \o queue /\ batch' = [batch EXCEPT ![Runner] = <<>>]
    BY <1>6 DEF PushFront
  <2>3. ToSet(queue') = ToSet(batch[Runner]) \cup ToSet(queue)
    BY <2>1, <2>2
  <2>4. ASSUME NEW u \in Threads, InBatch(u, m)' PROVE batch'[u] = batch[u]
    <3>1. CASE u = Runner
      BY <1>1, <2>2, <2>4, <3>1, ToSetEmpty DEF InBatch
    <3>2. CASE u # Runner
      BY <1>1, <2>2, <3>2
    <3> QED BY <3>1, <3>2
  <2> QED BY <2>3, <2>4 DEF InQueue, InBatch
<1>7. CASE UNCHANGED queueVars
  BY <1>7 DEF queueVars, InQueue, InBatch
<1>8. CASE BatchConnectFails \/ BatchSendFails
  <2>1. PushFront /\ pc[Runner] \in {"connect", "send"}
    BY <1>8 DEF BatchConnectFails, BatchSendFails
  <2> QED BY <1>6, <2>1 DEF InBatch
<1>9. \/ \E k \in Nat : Accepts(k)
      \/ \E t \in Threads : Takes(t) \/ Puts(t)
      \/ BatchConnectFails \/ BatchSendFails \/ UNCHANGED queueVars
  <2> USE SenderAssumption DEF TypeInv, Threads, queueVars
  <2>1. CASE Start \/ Stop \/ Join
    BY <2>1 DEF Start, Stop, Join
  <2>2. ASSUME NEW p \in Producers, NEW k \in 1..MaxRange, Send(p, k)
        PROVE  \E j \in Nat : Accepts(j)
    BY <2>2 DEF Send, Accepts
  <2>3. ASSUME NEW p \in Producers, RequestFiles(p)
        PROVE  UNCHANGED queueVars
    BY <2>3 DEF RequestFiles
  <2>4. ASSUME NEW t \in Threads, SaveStep(t)
        PROVE  Takes(t) \/ Puts(t) \/ UNCHANGED queueVars
    <3>1. CASE SavePop(t)
      BY <3>1 DEF SavePop, Takes, ControlOK, Holding
    <3>2. CASE SavePut(t)
      BY <3>2 DEF SavePut, Puts, ControlOK, Holding
    <3>3. CASE SaveStat(t) \/ SaveOpen(t) \/ SaveWrite(t)
      BY <3>3 DEF SaveStat, SaveOpen, SaveWrite
    <3> QED BY <2>4, <3>1, <3>2, <3>3 DEF SaveStep
  <2>5. CASE LoopStep
    BY <2>5 DEF LoopStep, TooSoon, Reconnect, ReconnectFails, Dispatch, Check
  <2>6. CASE QueueStep
    <3>1. CASE PopAll
      BY <3>1 DEF PopAll, Takes, ControlOK, Holding
    <3>2. CASE BatchPut
      BY <3>2 DEF BatchPut, Puts, ControlOK, Holding
    <3>3. CASE PopWait \/ PopTimeout \/ BatchConnect \/ BatchTransmit
      BY <3>3 DEF PopWait, PopTimeout, BatchConnect, BatchTransmit
    <3> QED BY <2>6, <3>1, <3>2, <3>3 DEF QueueStep
  <2>7. CASE FilesStep
    BY <2>7 DEF FilesStep, FilesConnect, FilesConnectFails, NextFile, ScanEnd,
                MapFile, FileTransmit, FileSendFails, FileSent, UnlinkFile
  <2>8. CASE UNCHANGED vars
    BY <2>8 DEF vars
  <2> QED BY <1>2, <2>1, <2>2, <2>3, <2>4, <2>5, <2>6, <2>7, <2>8
          DEF Next, ProducerStep, RunnerStep
<1>10. CASE \E t \in Threads : Takes(t)
  <2>1. PICK t \in Threads : Takes(t)
    BY <1>10
  <2>2. \A u \in Threads \ {t} : InBatch(u, m)' <=> InBatch(u, m)
    BY <1>4, <2>1 DEF InBatch
  <2> QED BY <1>4, <2>1, <2>2
<1>11. CASE \E t \in Threads : Puts(t)
  <2>1. PICK t \in Threads : Puts(t)
    BY <1>11
  <2>2. \A u \in Threads \ {t} : InBatch(u, m)' <=> InBatch(u, m)
    BY <1>5, <2>1 DEF InBatch
  <2> QED BY <1>5, <2>1, <2>2
<1>12. CASE \E k \in Nat : Accepts(k)
  BY <1>3, <1>12 DEF InBatch
<1> QED BY <1>7, <1>8, <1>9, <1>10, <1>11, <1>12

(* A thread that writes a file goes on with it, even if its name has been  *)
(* removed, and gives up the buffer when the file is written.              *)
LEMMA WriterMoves ==
  ASSUME MaxCrashes = 0, TypeInv, [Next]_vars, NEW t \in Threads
  PROVE  /\ pc[t] = "write" =>
              \/ pc'[t] = "put" /\ batch'[t] = batch[t]
              \/ /\ pc'[t] = "write" /\ batch'[t] = batch[t]
                 /\ \/ fd'[t] = fd[t]
                    \/ fd'[t] = Unlinked /\ UnlinkFile /\ fd[t] = file
                 /\ UnlinkFile => fd'[t] # file
         /\ pc[t] = "put" =>
              \/ pc'[t] = "put" /\ batch'[t] = batch[t]
              \/ batch'[t] = Tail(batch[t])
<1>1. /\ pc \in [Threads -> Labels] /\ Runner \in Threads /\ Owner \in Threads
      /\ batch \in [Threads -> Seq(1..accepted)] /\ Producers \subseteq Threads
      /\ fd \in [Threads -> Nat \cup {None, Unlinked}]
      /\ file \in Nat \cup {None} /\ file # Unlinked
  <2>1. file \in Nat \cup {None} /\ file # Unlinked
    BY DEF TypeInv, TypeOK, None, Unlinked
  <2> QED BY <2>1, SenderAssumption DEF TypeInv, TypeOK, Threads
<1> SUFFICES ASSUME pc[t] \in {"write", "put"}
             PROVE  \/ pc'[t] = "put" /\ batch'[t] = batch[t]
                    \/ /\ pc[t] = "write" /\ pc'[t] = "write" /\ batch'[t] = batch[t]
                       /\ \/ fd'[t] = fd[t]
                          \/ fd'[t] = Unlinked /\ UnlinkFile /\ fd[t] = file
                       /\ UnlinkFile => fd'[t] # file
                    \/ pc[t] = "put" /\ batch'[t] = Tail(batch[t])
  OBVIOUS
<1>2. ASSUME ~UnlinkFile, UNCHANGED <<pc[t], batch[t], fd[t]>>
      PROVE  \/ pc'[t] = "put" /\ batch'[t] = batch[t]
             \/ /\ pc[t] = "write" /\ pc'[t] = "write" /\ batch'[t] = batch[t]
                /\ \/ fd'[t] = fd[t]
                   \/ fd'[t] = Unlinked /\ UnlinkFile /\ fd[t] = file
                /\ UnlinkFile => fd'[t] # file
  BY <1>2
<1>3. CASE UnlinkFile
  <2>1. /\ pc[Runner] = "unlink" /\ batch' = batch
        /\ fd'[t] = IF fd[t] = file /\ pc[t] = "write" THEN Unlinked ELSE fd[t]
        /\ t # Runner
    BY <1>3 DEF UnlinkFile, queueVars
  <2>2. pc'[t] = pc[t]
    BY <1>1, <1>3, <2>1 DEF UnlinkFile, Goto
  <2> QED BY <1>1, <1>3, <2>1, <2>2
<1> SUFFICES ASSUME ~UnlinkFile
             PROVE  \/ UNCHANGED <<pc[t], batch[t], fd[t]>>
                    \/ pc'[t] = "put" /\ batch'[t] = batch[t]
                    \/ /\ pc[t] = "write" /\ pc'[t] = "write" /\ batch'[t] = batch[t]
                       /\ fd'[t] = fd[t]
                    \/ pc[t] = "put" /\ batch'[t] = Tail(batch[t])
  BY <1>2, <1>3
<1> USE <1>1 DEF Goto, queueVars, diskVars
<1>4. CASE Start \/ Stop \/ Join
  BY <1>4 DEF Start, Stop, Join
<1>5. CASE Crash
  <2>1. budget["crashes"] \in Nat /\ budget["crashes"] < 0
    BY <1>5 DEF Crash, Spend, TypeInv, TypeOK, Kinds
  <2> QED BY <2>1
<1>6. ASSUME NEW p \in Producers, NEW k \in 1..MaxRange, Send(p, k)
      PROVE  UNCHANGED <<pc[t], batch[t], fd[t]>>
  BY <1>6 DEF Send
<1>7. ASSUME NEW p \in Producers, RequestFiles(p)
      PROVE  UNCHANGED <<pc[t], batch[t], fd[t]>>
  BY <1>7 DEF RequestFiles
<1>8. ASSUME NEW u \in Threads, SaveStep(u), u # t
      PROVE  UNCHANGED <<pc[t], batch[t], fd[t]>>
  BY <1>8 DEF SaveStep, SavePop, SaveStat, SaveOpen, SaveWrite, SavePut
<1>9. CASE SaveWrite(t)
  BY <1>9 DEF SaveWrite
<1>10. CASE SavePut(t)
  BY <1>10 DEF SavePut
<1>11. CASE SavePop(t) \/ SaveStat(t) \/ SaveOpen(t)
  BY <1>11 DEF SavePop, SaveStat, SaveOpen
<1>12. CASE LoopStep
  BY <1>12 DEF LoopStep, TooSoon, Reconnect, ReconnectFails, Dispatch, Check
<1>13. CASE QueueStep
  BY <1>13 DEF QueueStep, PopAll, PopWait, PopTimeout, BatchConnect, BatchConnectFails,
               BatchTransmit, BatchSendFails, BatchPut, PushFront
<1>14. CASE FilesStep
  BY <1>14 DEF FilesStep, FilesConnect, FilesConnectFails, NextFile, ScanEnd,
               MapFile, FileTransmit, FileSendFails, FileSent
<1>15. CASE UNCHANGED vars
  BY <1>15 DEF vars
<1> QED BY <1>4, <1>5, <1>6, <1>7, <1>8, <1>9, <1>10, <1>11, <1>12, <1>13, <1>14, <1>15
        DEF Next, ProducerStep, RunnerStep, SaveStep

(* What write() adds to a file is the unit that is written. *)
LEMMA WriteAtAdds ==
  ASSUME NEW S, NEW c \in Seq(S), NEW i \in Nat, NEW v, NEW m, m # Hole,
         m \in ToSet(WriteAt(c, i, v))
  PROVE  m = v \/ m \in ToSet(c)
<1>1. PICK j \in DOMAIN WriteAt(c, i, v) : WriteAt(c, i, v)[j] = m
  BY DEF ToSet
<1>2. Len(c) \in Nat /\ DOMAIN c = 1..Len(c)
  BY LenProperties
<1>3. /\ j \in 1..(IF i > Len(c) THEN i ELSE Len(c))
      /\ m = IF j = i THEN v ELSE IF j <= Len(c) THEN c[j] ELSE Hole
  BY <1>1 DEF WriteAt
<1>4. CASE j = i
  BY <1>3, <1>4
<1>5. CASE j # i
  <2>1. j \in DOMAIN c /\ m = c[j]
    BY <1>2, <1>3, <1>5
  <2> QED BY <2>1 DEF ToSet
<1> QED BY <1>4, <1>5

(* The length of what write() leaves. *)
LEMMA WriteAtLen ==
  ASSUME NEW S, NEW c \in Seq(S), NEW i \in Nat, NEW v, NEW k \in Nat, i <= k, Len(c) <= k
  PROVE  Len(WriteAt(c, i, v)) <= k
<1>1. Len(c) \in Nat
  BY LenProperties
<1> DEFINE n == IF i > Len(c) THEN i ELSE Len(c)
<1>2. n \in Nat /\ n <= k
  BY <1>1
<1> DEFINE f == [j \in 1..n |-> IF j = i THEN v ELSE IF j <= Len(c) THEN c[j] ELSE Hole]
<1>3. WriteAt(c, i, v) = f
  BY DEF WriteAt
<1> HIDE DEF n
<1>4. Len(f) = n
  BY <1>2
<1> HIDE DEF f
<1> QED BY <1>2, <1>3, <1>4

(* The steps that touch files. *)
LEMMA FilesTouched ==
  ASSUME [Next]_vars, ~UnlinkFile, ~\E t \in Threads : SaveOpen(t) \/ SaveWrite(t)
  PROVE  files' = files
<1> USE DEF diskVars
<1>1. CASE Start \/ Stop \/ Join \/ Crash
  BY <1>1 DEF Start, Stop, Join, Crash
<1>2. ASSUME NEW p \in Producers, NEW k \in 1..MaxRange, Send(p, k)
      PROVE  files' = files
  BY <1>2 DEF Send
<1>3. ASSUME NEW p \in Producers, RequestFiles(p)
      PROVE  files' = files
  BY <1>3 DEF RequestFiles
<1>4. ASSUME NEW t \in Threads, SaveStep(t)
      PROVE  files' = files
  BY <1>4 DEF SaveStep, SavePop, SaveStat, SavePut
<1>5. CASE LoopStep \/ QueueStep
  BY <1>5 DEF LoopStep, TooSoon, Reconnect, ReconnectFails, Dispatch, Check,
              QueueStep, PopAll, PopWait, PopTimeout, BatchConnect, BatchConnectFails,
              BatchTransmit, BatchSendFails, BatchPut
<1>6. CASE FilesStep
  BY <1>6 DEF FilesStep, FilesConnect, FilesConnectFails, NextFile, ScanEnd,
              MapFile, FileTransmit, FileSendFails, FileSent
<1>7. CASE UNCHANGED vars
  BY <1>7 DEF vars
<1> QED BY <1>1, <1>2, <1>3, <1>4, <1>5, <1>6, <1>7
        DEF Next, ProducerStep, RunnerStep, Threads

(* Where a unit in a file can come from. *)
LEMMA FileMoves ==
  ASSUME TypeInv, [Next]_vars, NEW m \in 1..accepted, NEW n, Has(n, m)'
  PROVE  /\ n \in DOMAIN files
         /\ \/ Has(n, m)
            \/ \E t \in Threads : /\ pc[t] = "write" /\ fd[t] = n
                                  /\ m = Head(batch[t]) /\ SaveWrite(t)
         /\ UnlinkFile => n # file
<1>1. /\ accepted \in Nat /\ \A x \in DOMAIN files : files[x] \in Seq(0..accepted)
      /\ off \in [Threads -> Nat] /\ m # Hole
  BY Counts DEF TypeInv, TypeOK, Hole
<1>2. n \in DOMAIN files' /\ m \in ToSet(files'[n])
  BY DEF Has
<1>3. ASSUME files' = files
      PROVE  Has(n, m)
  BY <1>3 DEF Has
<1>4. CASE UnlinkFile
  <2>1. files' = [j \in DOMAIN files \ {file} |-> files[j]]
    BY <1>4 DEF UnlinkFile
  <2> QED BY <1>2, <2>1 DEF Has
<1>5. ASSUME NEW t \in Threads, SaveOpen(t)
      PROVE  Has(n, m)
  <2>1. files' = [j \in DOMAIN files \cup {fd[t]} |->
                 IF j = fd[t] THEN <<>> ELSE files[j]]
    BY <1>5 DEF SaveOpen
  <2>2. n # fd[t]
    BY <1>2, <2>1, ToSetEmpty
  <2> QED BY <1>2, <2>1, <2>2 DEF Has
<1>6. ASSUME NEW t \in Threads, SaveWrite(t), ~Has(n, m)
      PROVE  /\ pc[t] = "write" /\ fd[t] = n /\ m = Head(batch[t])
             /\ n \in DOMAIN files
  <2>1. pc[t] = "write"
    BY <1>6 DEF SaveWrite
  <2>2. files' # files
    BY <1>3, <1>6
  <2>3. /\ fd[t] \in DOMAIN files
        /\ files' = [files EXCEPT ![fd[t]] = WriteAt(@, off[t] + 1, Head(batch[t]))]
    BY <1>6, <2>2 DEF SaveWrite
  <2>4. n \in DOMAIN files /\ (n # fd[t] => files'[n] = files[n])
    BY <1>2, <2>3
  <2>5. n = fd[t]
    BY <1>2, <1>6, <2>4 DEF Has
  <2>6. files'[n] = WriteAt(files[n], off[t] + 1, Head(batch[t]))
    BY <2>3, <2>5
  <2>7. off[t] + 1 \in Nat /\ files[n] \in Seq(0..accepted)
    BY <1>1, <2>4
  <2>8. m = Head(batch[t]) \/ m \in ToSet(files[n])
    BY <1>1, <1>2, <2>6, <2>7, WriteAtAdds
  <2> QED BY <1>6, <2>1, <2>4, <2>5, <2>8 DEF Has
<1>7. UnlinkFile => ~\E t \in Threads : SaveOpen(t) \/ SaveWrite(t)
  <2> SUFFICES ASSUME UnlinkFile, NEW t \in Threads, SaveOpen(t) \/ SaveWrite(t)
               PROVE  FALSE
    OBVIOUS
  <2>1. t # Runner /\ Runner \in Threads /\ pc \in [Threads -> Labels]
    BY DEF UnlinkFile, SaveOpen, SaveWrite, Threads, TypeInv, TypeOK
  <2>2. pc'[Runner] = "scan" /\ pc[Runner] = "unlink"
    BY <2>1 DEF UnlinkFile, Goto
  <2>3. pc'[Runner] = pc[Runner]
    BY <2>1 DEF SaveOpen, SaveWrite, Goto
  <2> QED BY <2>2, <2>3
<1> QED BY <1>3, <1>4, <1>5, <1>6, <1>7, FilesTouched DEF Has

(* A thread that holds a batch has its first buffer. *)
LEMMA HoldsHead ==
  ASSUME TypeInv, NEW t \in Threads, pc[t] \in Holding
  PROVE  /\ batch[t] \in Seq(1..accepted) /\ batch[t] # <<>>
         /\ Head(batch[t]) \in 1..accepted /\ InBatch(t, Head(batch[t]))
         /\ Tail(batch[t]) # batch[t]
<1>1. batch[t] \in Seq(1..accepted) /\ batch[t] # <<>>
  BY DEF TypeInv, TypeOK, ControlOK
<1>2. /\ Len(batch[t]) \in Nat \ {0} /\ DOMAIN batch[t] = 1..Len(batch[t])
      /\ Head(batch[t]) = batch[t][1] /\ Len(Tail(batch[t])) = Len(batch[t]) - 1
  BY <1>1, EmptySeq, LenProperties, HeadTailProperties
<1>3. InBatch(t, Head(batch[t]))
  BY <1>2 DEF InBatch, ToSet
<1>4. Tail(batch[t]) # batch[t]
  <2>1. Len(Tail(batch[t])) # Len(batch[t])
    BY <1>2
  <2> QED BY <2>1, Zenon
<1> QED BY <1>1, <1>3, <1>4, TailType

(* A buffer that is confined to some files stays so, and removing a file   *)
(* confines it to the others.                                              *)
LEMMA OnlyStep ==
  ASSUME MaxCrashes = 0, TypeInv, QueueInOrder, [Next]_vars,
         NEW m \in 1..accepted, NEW N, NEW M, Only(N, m),
         \/ M = N
         \/ UnlinkFile /\ M = N \ {file}
  PROVE  Only(M, m)'
<1>1. ~InQueue(m)'
  <2>1. Runner \in Threads
    BY DEF Threads
  <2>2. ~InQueue(m) /\ (InBatch(Runner, m) => pc[Runner] \in {"put", "write"})
    BY <2>1 DEF Only
  <2> QED BY <2>2, BufferMoves
<1>2. ASSUME NEW t \in Threads, InBatch(t, m)'
      PROVE  /\ m = Head(batch'[t])
             /\ \/ pc'[t] = "put"
                \/ pc'[t] = "write" /\ fd'[t] \in M \cup {Unlinked}
  <2>1. InBatch(t, m) /\ m = Head(batch[t]) /\ batch'[t] = batch[t]
    BY <1>2, BufferMoves DEF Only
  <2>2. CASE pc[t] = "put"
    <3>1. Tail(batch[t]) # batch[t]
      BY <2>2, HoldsHead DEF Holding
    <3> QED BY <2>1, <2>2, <3>1, WriterMoves
  <2>3. CASE pc[t] = "write" /\ fd[t] \in N \cup {Unlinked}
    BY <2>1, <2>3, WriterMoves
  <2> QED BY <2>1, <2>2, <2>3 DEF Only
<1>3. ASSUME NEW n, Has(n, m)'
      PROVE  n \in M
  <2>1. n \in DOMAIN files /\ (UnlinkFile => n # file) /\ n # Unlinked
    <3>1. n \in DOMAIN files /\ (UnlinkFile => n # file)
      BY <1>3, FileMoves
    <3>2. n \in Nat
      BY <3>1 DEF TypeInv, TypeOK
    <3> QED BY <3>1, <3>2 DEF Unlinked
  <2>2. CASE Has(n, m)
    BY <2>1, <2>2 DEF Only
  <2>3. ASSUME NEW t \in Threads, pc[t] = "write", fd[t] = n, m = Head(batch[t])
        PROVE  n \in N
    <3>1. InBatch(t, m)
      BY <2>3, HoldsHead DEF Holding
    <3> QED BY <2>1, <2>3, <3>1 DEF Only
  <2> QED BY <1>3, <2>1, <2>2, <2>3, FileMoves
<1> QED BY <1>1, <1>2, <1>3 DEF Only

(* The same for all the buffers and all the files at once. *)
OnlyKept == \A m \in 1..accepted : \A N : Only(N, m) => Only(N, m)'

LEMMA OnlyKeptStep ==
  ASSUME MaxCrashes = 0, TypeInv, QueueInOrder, [Next]_vars
  PROVE  OnlyKept
BY OnlyStep DEF OnlyKept

(* A thread begins to write the file it has opened. *)
LEMMA WriteStarts ==
  ASSUME MaxCrashes = 0, TypeInv, [Next]_vars, NEW t \in Threads,
         pc[t] # "write", pc'[t] = "write"
  PROVE  SaveOpen(t)
<1> USE DEF Goto
<1>1. /\ pc \in [Threads -> Labels] /\ Runner \in Threads /\ Owner \in Threads
      /\ Producers \subseteq Threads
  BY SenderAssumption DEF TypeInv, TypeOK, Threads
<1>2. CASE Start \/ Stop \/ Join \/ Crash
  BY <1>1, <1>2 DEF Start, Stop, Join, Crash
<1>3. ASSUME NEW p \in Producers, NEW k \in 1..MaxRange, Send(p, k)
      PROVE  FALSE
  BY <1>1, <1>3 DEF Send
<1>4. ASSUME NEW p \in Producers, RequestFiles(p)
      PROVE  FALSE
  BY <1>1, <1>4 DEF RequestFiles
<1>5. ASSUME NEW u \in Threads, SaveStep(u)
      PROVE  SaveOpen(t)
  <2>1. CASE SaveOpen(u)
    <3>1. u = t
      BY <1>1, <2>1 DEF SaveOpen
    <3> QED BY <2>1, <3>1
  <2>2. CASE SavePop(u) \/ SaveStat(u) \/ SaveWrite(u) \/ SavePut(u)
    BY <1>1, <2>2 DEF SavePop, SaveStat, SaveWrite, SavePut, Saved
  <2> QED BY <1>5, <2>1, <2>2 DEF SaveStep
<1>6. CASE LoopStep \/ QueueStep
  BY <1>1, <1>6
  DEF LoopStep, TooSoon, Reconnect, ReconnectFails, Dispatch, Check,
      QueueStep, PopAll, PopWait, PopTimeout, BatchConnect, BatchConnectFails,
      BatchTransmit, BatchSendFails, BatchPut, PushFront
<1>7. CASE FilesStep
  BY <1>1, <1>7
  DEF FilesStep, FilesConnect, FilesConnectFails, NextFile, ScanEnd,
      MapFile, FileTransmit, FileSendFails, FileSent, UnlinkFile
<1>8. CASE UNCHANGED vars
  BY <1>8 DEF vars
<1> QED BY <1>1, <1>2, <1>3, <1>4, <1>5, <1>6, <1>7, <1>8
        DEF Next, ProducerStep, RunnerStep

(* A file that has units of a buffer is the only one that has. *)
LEMMA PlacedStep ==
  ASSUME MaxCrashes = 0, TypeInv, TypeInv', QueueInOrder, OneOwner, Placed, [Next]_vars
  PROVE  Placed'
<1>1. OnlyKept
  BY OnlyKeptStep
<1>2. ASSUME NEW t \in Threads, pc'[t] = "write"
      PROVE  Only({fd[t]}, Head(batch[t]))'
  <2>1. CASE pc[t] = "write"
    <3>1. PICK m \in 1..accepted, n \in {fd[t]} : m = Head(batch[t]) /\ Only({n}, m)
      BY <2>1, HoldsHead DEF Holding, Placed
    <3>2. Head(batch'[t]) = m
      BY <1>2, <2>1, <3>1, WriterMoves
    <3>3. CASE fd'[t] = n
      BY <1>1, <3>1, <3>2, <3>3 DEF OnlyKept
    <3>4. CASE fd'[t] # n
      <4>1. fd'[t] = Unlinked /\ UnlinkFile /\ file = n
        BY <1>2, <2>1, <3>1, <3>4, WriterMoves
      <4>2. {} = {n} \ {file}
        BY <4>1
      <4>3. Only({}, m)'
        BY <3>1, <4>1, <4>2, OnlyStep
      <4> QED BY <3>2, <4>3 DEF Only
    <3> QED BY <3>3, <3>4
  <2>2. CASE pc[t] # "write"
    <3>1. SaveOpen(t)
      BY <1>2, <2>2, WriteStarts
    <3>2. PICK x \in 1..accepted, n \in {fd[t]} : x = Head(batch[t])
      BY <3>1, HoldsHead DEF SaveOpen, Holding
    <3>3. InBatch(t, x) /\ pc[t] = "open"
      BY <3>1, <3>2, HoldsHead DEF SaveOpen, Holding
    <3>4. ~InQueue(x) /\ \A u \in Threads : InBatch(u, x) => u = t
      BY <3>2, <3>3 DEF OneOwner
    <3>5. \A j \in DOMAIN files : ~Has(j, x)
      BY <3>2, <3>3 DEF Placed, Only
    <3>6. /\ UNCHANGED <<queue, batch, fd>>
          /\ files' = [j \in DOMAIN files \cup {n} |->
                         IF j = n THEN <<>> ELSE files[j]]
      BY <3>1, <3>2 DEF SaveOpen, queueVars
    <3>7. \A j \in DOMAIN files' : ~Has(j, x)'
      BY <3>5, <3>6, ToSetEmpty DEF Has
    <3>8. Only({n}, x)'
      BY <1>2, <3>2, <3>4, <3>6, <3>7 DEF Only, InQueue, InBatch
    <3> QED BY <3>2, <3>6, <3>8
  <2> QED BY <2>1, <2>2
<1>3. ASSUME NEW n \in DOMAIN files', NEW m \in 1..accepted', Has(n, m)'
      PROVE  Only({n}, m)'
  <2>1. m \in 1..accepted
    <3>1. CASE files' = files
      <4>1. files[n] \in Seq(0..accepted) /\ m \in ToSet(files[n]) /\ m # 0
        BY <1>3, <3>1 DEF Has, TypeInv, TypeOK
      <4>2. m \in 0..accepted
        BY <4>1, ElementOfSeq, LenProperties DEF ToSet
      <4> QED BY <4>1, <4>2, Counts DEF TypeInv
    <3>2. CASE files' # files
      <4>1. accepted' = accepted
        BY <3>2, FilesTouched DEF UnlinkFile, SaveOpen, SaveWrite, queueVars
      <4> QED BY <4>1
    <3> QED BY <3>1, <3>2
  <2>2. Only({n}, m)
    <3>1. CASE Has(n, m)
      BY <2>1, <3>1 DEF Placed, Has
    <3>2. CASE ~Has(n, m)
      BY <1>3, <2>1, <3>2, FileMoves DEF Placed
    <3> QED BY <3>1, <3>2
  <2> QED BY <1>1, <2>1, <2>2 DEF OnlyKept
<1> QED BY <1>2, <1>3 DEF Placed

(* A step that touches no file leaves the sizes as they are if it leaves   *)
(* every thread that writes or sends alone.                                *)
LEMMA SizesKept ==
  ASSUME Sizes, UNCHANGED <<files, fsize>>,
         \A t \in Threads : pc'[t] = "write" => pc[t] = "write" /\ off'[t] = off[t],
         \/ pc'[Runner] \notin {"send", "sendfile"}
         \/ pc'[Runner] = pc[Runner] /\ off'[Runner] = off[Runner]
  PROVE  Sizes'
BY DEF Sizes

LEMMA SizesStep ==
  ASSUME MaxCrashes = 0, TypeInv, Sizes, [Next]_vars
  PROVE  Sizes'
<1>1. /\ pc \in [Threads -> Labels] /\ Runner \in Threads /\ Owner \in Threads
      /\ Producers \subseteq Threads /\ Runner \notin Producers /\ Owner # Runner
      /\ off \in [Threads -> Nat] /\ off[Runner] \in Nat /\ Chunks \in Nat \ {0} /\ fsize \in Nat
  BY SenderAssumption DEF TypeInv, TypeOK, Threads
<1> USE DEF Goto
<1>2. CASE Start \/ Stop \/ Join
  BY <1>1, <1>2, SizesKept DEF Start, Stop, Join, diskVars, scanVars
<1>3. CASE Crash
  <2>1. budget["crashes"] \in Nat /\ budget["crashes"] < 0
    BY <1>3 DEF Crash, Spend, TypeInv, TypeOK, Kinds
  <2> QED BY <2>1
<1>4. ASSUME NEW p \in Producers, NEW k \in 1..MaxRange, Send(p, k)
      PROVE  Sizes'
  BY <1>1, <1>4, SizesKept DEF Send, diskVars, scanVars
<1>5. ASSUME NEW p \in Producers, RequestFiles(p)
      PROVE  Sizes'
  BY <1>1, <1>5, SizesKept DEF RequestFiles, diskVars, scanVars
<1>6. ASSUME NEW t \in Threads, SaveStep(t)
      PROVE  Sizes'
  <2>1. \/ pc'[Runner] \notin {"send", "sendfile"}
        \/ pc'[Runner] = pc[Runner] /\ off'[Runner] = off[Runner]
    BY <1>1, <1>6 DEF SaveStep, SavePop, SaveStat, SaveOpen, SaveWrite, SavePut, Saved
  <2>2. CASE SavePop(t) \/ SaveStat(t) \/ SavePut(t)
    BY <1>1, <2>1, <2>2, SizesKept
    DEF SavePop, SaveStat, SavePut, Saved, diskVars, scanVars
  <2>3. ASSUME fsize' = fsize, \A n \in DOMAIN files' : Len(files'[n]) <= Chunks,
               pc'[t] = "write" => off'[t] < Chunks,
               \A u \in Threads \ {t} : pc'[u] = pc[u] /\ off'[u] = off[u]
        PROVE  Sizes'
    BY <2>1, <2>3 DEF Sizes
  <2>4. CASE SaveOpen(t)
    <3>1. /\ fsize' = fsize /\ off'[t] = 0
          /\ \A u \in Threads \ {t} : pc'[u] = pc[u] /\ off'[u] = off[u]
          /\ files' = [n \in DOMAIN files \cup {fd[t]} |->
                         IF n = fd[t] THEN <<>> ELSE files[n]]
      BY <1>1, <2>4 DEF SaveOpen, scanVars
    <3>2. \A n \in DOMAIN files' : Len(files'[n]) <= Chunks
      <4>1. Len(<<>>) <= Chunks
        BY <1>1
      <4> QED BY <3>1, <4>1 DEF Sizes
    <3>3. off'[t] < Chunks
      BY <1>1, <3>1
    <3> QED BY <2>3, <3>1, <3>2, <3>3
  <2>5. CASE SaveWrite(t)
    <3>1. /\ fsize' = fsize /\ off'[t] = off[t] + 1 /\ off[t] < Chunks /\ off[t] \in Nat
          /\ \A u \in Threads \ {t} : pc'[u] = pc[u] /\ off'[u] = off[u]
          /\ pc'[t] = "write" => off[t] + 1 # Chunks
      BY <1>1, <2>5 DEF SaveWrite, scanVars, Sizes
    <3>2. pc'[t] = "write" => off'[t] < Chunks
      BY <1>1, <3>1
    <3>3. \A n \in DOMAIN files' : Len(files'[n]) <= Chunks
      <4>1. CASE files' = files
        BY <4>1 DEF Sizes
      <4>2. CASE files' # files
        <5>1. /\ fd[t] \in DOMAIN files
              /\ files' = [files EXCEPT ![fd[t]] = WriteAt(@, off[t] + 1, Head(batch[t]))]
          BY <2>5, <4>2 DEF SaveWrite
        <5>2. /\ files[fd[t]] \in Seq(0..accepted) /\ Len(files[fd[t]]) <= Chunks
              /\ off[t] + 1 \in Nat /\ off[t] + 1 <= Chunks
          <6>1. files[fd[t]] \in Seq(0..accepted) /\ Len(files[fd[t]]) <= Chunks
            BY <5>1 DEF TypeInv, TypeOK, Sizes
          <6> QED BY <1>1, <3>1, <6>1
        <5>3. Len(WriteAt(files[fd[t]], off[t] + 1, Head(batch[t]))) <= Chunks
          BY <1>1, <5>2, WriteAtLen
        <5> QED BY <5>1, <5>3 DEF Sizes
      <4> QED BY <4>1, <4>2
    <3> QED BY <2>3, <3>1, <3>2, <3>3
  <2> QED BY <1>6, <2>2, <2>4, <2>5 DEF SaveStep
<1>7. CASE LoopStep
  BY <1>1, <1>7, SizesKept
  DEF LoopStep, TooSoon, Reconnect, ReconnectFails, Dispatch, Check, diskVars, scanVars
<1>8. CASE QueueStep
  <2>1. CASE PopAll \/ PopWait \/ PopTimeout \/ BatchConnectFails \/ BatchSendFails
    BY <1>1, <2>1, SizesKept
    DEF PopAll, PopWait, PopTimeout, BatchConnectFails, BatchSendFails, PushFront,
        diskVars, scanVars
  <2>2. CASE BatchConnect \/ BatchTransmit \/ BatchPut
    <3>1. /\ UNCHANGED <<files, fsize>> /\ pc'[Runner] \in {"send", "check"}
          /\ \A t \in Threads \ {Runner} : pc'[t] = pc[t] /\ off'[t] = off[t]
      BY <1>1, <2>2 DEF BatchConnect, BatchTransmit, BatchPut, diskVars, scanVars
    <3>2. pc'[Runner] = "send" => off'[Runner] <= Chunks
      BY <1>1, <2>2 DEF BatchConnect, BatchTransmit, BatchPut
    <3> QED BY <3>1, <3>2 DEF Sizes
  <2> QED BY <1>8, <2>1, <2>2 DEF QueueStep
<1>9. CASE FilesStep
  <2>1. CASE FilesConnect \/ FilesConnectFails \/ ScanEnd \/ FileSendFails \/ FileSent
    BY <1>1, <2>1, SizesKept
    DEF FilesConnect, FilesConnectFails, ScanEnd, FileSendFails, FileSent, diskVars, scanVars
  <2>2. CASE NextFile
    <3>1. /\ pc'[Runner] = "map" /\ files' = files
          /\ \A t \in Threads \ {Runner} : pc'[t] = pc[t]
          /\ off' = off
          /\ \E n \in DOMAIN files : fsize' = Len(files[n])
      BY <1>1, <2>2 DEF NextFile, diskVars
    <3> QED BY <3>1 DEF Sizes
  <2>3. CASE MapFile \/ FileTransmit
    <3>1. /\ UNCHANGED <<files, fsize>> /\ pc'[Runner] \in {"unlink", "sendfile"}
          /\ \A t \in Threads \ {Runner} : pc'[t] = pc[t] /\ off'[t] = off[t]
      BY <1>1, <2>3 DEF MapFile, FileTransmit, diskVars, scanVars
    <3>2. pc'[Runner] = "sendfile" => off'[Runner] <= fsize
      BY <1>1, <2>3 DEF MapFile, FileTransmit
    <3> QED BY <3>1, <3>2 DEF Sizes
  <2>4. CASE UnlinkFile
    <3>1. /\ fsize' = fsize /\ off' = off /\ pc'[Runner] = "scan"
          /\ \A t \in Threads \ {Runner} : pc'[t] = pc[t]
          /\ files' = [n \in DOMAIN files \ {file} |-> files[n]]
      BY <1>1, <2>4 DEF UnlinkFile, scanVars
    <3> QED BY <3>1 DEF Sizes
  <2> QED BY <1>9, <2>1, <2>2, <2>3, <2>4 DEF FilesStep
<1>10. CASE UNCHANGED vars
  BY <1>10, SizesKept DEF vars, diskVars, scanVars
<1> QED BY <1>2, <1>3, <1>4, <1>5, <1>6, <1>7, <1>8, <1>9, <1>10
        DEF Next, ProducerStep, RunnerStep, Threads

(* The connection accepts a unit u, after k units of which no earlier one  *)
(* in the stream is a unit of u: only the last unit of a buffer hands one  *)
(* over.                                                                   *)
LEMMA TransmitLast ==
  ASSUME TypeInv, NEW u \in 0..accepted, NEW k \in Nat, k < Chunks, k <= Len(partial),
         Transmit(u), u # Hole => \A i \in 1..(Len(partial) - k) : partial[i] # u
  PROVE  /\ k + 1 < Chunks => delivered' = delivered /\ partial' = Append(partial, u)
         /\ \/ delivered' = delivered
            \/ u # Hole /\ delivered' = Append(delivered, u)
         /\ \A m : m \in ToSet(partial') => m \in ToSet(partial) \/ m = u
<1>1. /\ Chunks \in Nat \ {0} /\ accepted \in Nat /\ partial \in Seq(0..accepted)
      /\ Len(partial) \in Nat /\ DOMAIN partial = 1..Len(partial)
  BY SenderAssumption, Counts, LenProperties DEF TypeInv, TypeOK
<1> DEFINE stream == Append(partial, u)
           before == Len(stream) - Chunks
<1>2. /\ stream \in Seq(0..accepted) /\ Len(stream) = Len(partial) + 1
      /\ \A i \in 1..Len(partial) : stream[i] = partial[i]
  BY <1>1, AppendProperties
<1>3. ToSet(stream) = ToSet(partial) \cup {u}
  BY <1>1, ToSetAppend
<1>4. CASE /\ u # Hole /\ before >= 0
           /\ SubSeq(stream, before + 1, Len(stream)) = Whole(u)
           /\ delivered' = Append(delivered, u)
           /\ partial' = SubSeq(stream, 1, before)
  <2>1. before \in Nat /\ before <= Len(partial) /\ before + 1 \in 1..Len(stream)
    BY <1>1, <1>2, <1>4
  <2>2. stream[before + 1] = u
    <3> HIDE DEF stream, before
    <3>1. SubSeq(stream, before + 1, Len(stream))[1] = u
      <4>1. Whole(u)[1] = u
        BY <1>1, WholeUnits
      <4> QED BY <1>4, <4>1
    <3>2. SubSeq(stream, before + 1, Len(stream))[1] = stream[before + 1]
      BY <1>1, <1>2, <2>1
    <3> QED BY <3>1, <3>2
  <2>3. ~(k + 1 < Chunks)
    <3> SUFFICES ASSUME k + 1 < Chunks PROVE FALSE
      OBVIOUS
    <3>1. before + 1 \in 1..(Len(partial) - k)
      BY <1>1, <1>2, <2>1
    <3>2. before + 1 \in 1..Len(partial)
      BY <1>1, <3>1
    <3> HIDE DEF before, stream
    <3>3. partial[before + 1] = u
      BY <1>2, <2>2, <3>2
    <3> QED BY <1>4, <3>1, <3>3
  <2>4. ASSUME NEW m, m \in ToSet(partial') PROVE m \in ToSet(partial)
    <3> HIDE DEF stream, before
    <3>1. \A i \in 1..before : i \in 1..Len(partial) /\ stream[i] = partial[i]
      BY <1>1, <1>2, <2>1
    <3>2. /\ \A i \in 1..before : SubSeq(stream, 1, before)[i] = stream[i]
          /\ DOMAIN SubSeq(stream, 1, before) = 1..before
      BY <1>1, <1>2, <2>1
    <3>3. PICK i \in DOMAIN partial' : m = partial'[i]
      BY <2>4 DEF ToSet
    <3>4. i \in 1..before /\ m = partial[i]
      BY <1>4, <3>1, <3>2, <3>3
    <3> QED BY <1>1, <3>1, <3>4 DEF ToSet
  <2> QED BY <1>4, <2>3, <2>4
<1>5. CASE delivered' = delivered /\ partial' = stream
  BY <1>3, <1>5
<1> QED BY <1>4, <1>5 DEF Transmit

(* What is handed over, or is in the stream, are accepted buffers. *)
LEMMA EmittedAccepted ==
  ASSUME TypeInv, NEW m \in Nat \ {0}, Emitted(m)
  PROVE  m \in 1..accepted
<1>1. /\ delivered \in Seq(0..accepted) /\ partial \in Seq(0..accepted)
      /\ accepted \in Nat
  <2>1. 1..accepted \subseteq 0..accepted /\ accepted \in Nat
    BY Counts DEF TypeInv
  <2> QED BY <2>1, SeqMonotonic DEF TypeInv, TypeOK
<1>2. ASSUME NEW s \in Seq(0..accepted), m \in ToSet(s) PROVE m \in 0..accepted
  <2>1. PICK i \in 1..Len(s) : m = s[i]
    BY <1>2, LenProperties DEF ToSet
  <2> QED BY <2>1, ElementOfSeq
<1>3. m \in 0..accepted
  BY <1>1, <1>2 DEF Emitted, Delivered
<1> QED BY <1>1, <1>3

(* A step after which run() has not begun to send anything, or nothing of  *)
(* it.                                                                     *)
LEMMA SpentClean ==
  ASSUME TypeInv, TypeInv',
         \A m \in 1..accepted' : Emitted(m)' => Gone(m)',
         \/ off'[Runner] = 0
         \/ pc'[Runner] \notin {"send", "sendfile"}
  PROVE  Spent' /\ Fresh'
<1>1. Spent'
  BY DEF Spent
<1>2. ASSUME off'[Runner] = 0 PROVE Fresh'
  <2>1. /\ Len(partial') \in Nat /\ DOMAIN partial' = 1..Len(partial')
        /\ partial' \in Seq(0..accepted') /\ accepted' \in Nat
    BY LenProperties DEF TypeInv, TypeOK
  <2>2. ASSUME NEW i \in 1..Len(partial'), partial'[i] # Hole
        PROVE  Gone(partial[i])'
    <3>1. PICK m : m = partial'[i]
      OBVIOUS
    <3>2. m \in 1..accepted'
      <4>1. m \in 0..accepted'
        BY <2>1, <2>2, <3>1, ElementOfSeq
      <4> QED BY <2>1, <2>2, <3>1, <4>1 DEF Hole
    <3>3. Emitted(m)'
      BY <2>1, <3>1 DEF Emitted, ToSet
    <3> QED BY <3>1, <3>2, <3>3
  <2>3. \A m \in 1..accepted' : Delivered(m)' => Gone(m)'
    BY DEF Emitted
  <2>4. Len(partial') - off'[Runner] = Len(partial') /\ off'[Runner] <= Len(partial')
    BY <1>2, <2>1
  <2> QED BY <2>2, <2>3, <2>4 DEF Fresh
<1> QED BY <1>1, <1>2 DEF Fresh

(* A step of somebody else. *)
LEMMA SpentElsewhere ==
  ASSUME TypeInv, OnlyKept, Spent, Fresh, accepted' \in Nat, accepted' >= accepted,
         UNCHANGED <<partial, delivered, file>>,
         pc'[Runner] = pc[Runner], off'[Runner] = off[Runner],
         batch'[Runner] = batch[Runner]
  PROVE  Spent' /\ Fresh'
<1>1. /\ accepted \in Nat /\ \A m \in 1..accepted : Gone(m) => Gone(m)'
  BY Counts DEF TypeInv, OnlyKept, Gone
<1>2. ASSUME NEW m \in 1..accepted', Emitted(m)' PROVE Emitted(m) /\ m \in 1..accepted
  <2>1. Emitted(m)
    BY <1>2 DEF Emitted, Delivered
  <2> QED BY <1>2, <2>1, EmittedAccepted
<1>3. Spent'
  <2> SUFFICES ASSUME NEW m \in 1..accepted', Emitted(m)'
               PROVE  Gone(m)' \/ Finishing(m)'
    BY DEF Spent
  <2>1. m \in 1..accepted /\ (Gone(m) \/ Finishing(m))
    BY <1>2 DEF Spent
  <2>2. PICK f : f = file
    OBVIOUS
  <2>3. Only({f}, m) => Only({f}, m)'
    BY <2>1 DEF OnlyKept
  <2> QED BY <1>1, <2>1, <2>2, <2>3 DEF Finishing
<1>4. Fresh'
  <2> SUFFICES ASSUME pc[Runner] \in {"send", "sendfile"}, off[Runner] < Chunks
               PROVE  /\ off[Runner] <= Len(partial)
                      /\ \A m \in 1..accepted' : Delivered(m)' => Gone(m)'
                      /\ \A i \in 1..(Len(partial) - off[Runner]) :
                           partial[i] # Hole => Gone(partial[i])'
    BY DEF Fresh
  <2>1. \A m \in 1..accepted' : Delivered(m)' => Gone(m)'
    <3> SUFFICES ASSUME NEW m \in 1..accepted', Delivered(m)' PROVE Gone(m)'
      OBVIOUS
    <3>1. Emitted(m)' /\ Delivered(m)
      BY DEF Emitted, Delivered
    <3> QED BY <1>1, <1>2, <3>1 DEF Fresh
  <2>2. ASSUME NEW i \in 1..(Len(partial) - off[Runner]), partial[i] # Hole
        PROVE  Gone(partial[i])'
    <3>1. PICK m : m = partial[i]
      OBVIOUS
    <3>2. i \in 1..Len(partial) /\ partial \in Seq(0..accepted)
      BY LenProperties DEF TypeInv, TypeOK, Threads
    <3>3. m \in 1..accepted
      <4>1. m \in 0..accepted
        BY <3>1, <3>2, ElementOfSeq
      <4> QED BY <1>1, <2>2, <3>1, <4>1 DEF Hole
    <3>4. Gone(m)
      BY <2>2, <3>1 DEF Fresh
    <3>5. Gone(m)'
      BY <1>1, <3>3, <3>4
    <3> QED BY <3>1, <3>5
  <2> QED BY <2>1, <2>2 DEF Fresh
<1> QED BY <1>3, <1>4

(* ToSetAppend, quantified. *)
LEMMA ToSetAppends ==
  \A S : \A e \in S : \A s \in Seq(S) : ToSet(Append(s, e)) = ToSet(s) \cup {e}
BY ToSetAppend

(* A unit of x, of which nothing is handed over, goes into the stream.     *)
LEMMA TransmitOnce ==
  ASSUME TypeInv, TypeInv', OnlyKept, Spent, Fresh,
         pc[Runner] \in {"send", "sendfile"}, pc'[Runner] = pc[Runner],
         off'[Runner] = off[Runner] + 1, off[Runner] < Chunks, accepted' = accepted,
         NEW x \in 0..accepted, Transmit(x), x # Hole => ~Gone(x),
         \A m \in 1..accepted : Finishing(m) => Finishing(m)',
         x # Hole => Finishing(x)
  PROVE  /\ Spent' /\ Fresh'
         /\ Unordered!Deliver \/ UNCHANGED Unordered!vars
<1>1. /\ Chunks \in Nat \ {0} /\ accepted \in Nat /\ off[Runner] \in Nat
      /\ partial \in Seq(0..accepted) /\ delivered \in Seq(1..accepted)
      /\ Len(partial) \in Nat /\ DOMAIN partial = 1..Len(partial)
  BY SenderAssumption, Counts, LenProperties DEF TypeInv, TypeOK, Threads
<1>2. PICK k \in Nat : k = off[Runner]
  BY <1>1
<1>3. /\ k <= Len(partial) /\ k < Chunks
      /\ \A m \in 1..accepted : Delivered(m) => Gone(m)
      /\ \A i \in 1..(Len(partial) - k) : partial[i] # Hole => Gone(partial[i])
  BY <1>2 DEF Fresh
<1>4. x # Hole => \A i \in 1..(Len(partial) - k) : partial[i] # x
  BY <1>3
<1>5. /\ k + 1 < Chunks => delivered' = delivered /\ partial' = Append(partial, x)
      /\ \/ delivered' = delivered
         \/ x # Hole /\ delivered' = Append(delivered, x)
      /\ \A m : m \in ToSet(partial') => m \in ToSet(partial) \/ m = x
  BY <1>3, <1>4, TransmitLast
<1>6. ASSUME NEW m \in 1..accepted, Emitted(m)' PROVE Emitted(m) \/ m = x
  <2>1. CASE m \in ToSet(partial')
    BY <1>5, <2>1 DEF Emitted
  <2>2. CASE Delivered(m)' /\ delivered' = delivered
    BY <2>2 DEF Emitted, Delivered
  <2>3. CASE Delivered(m)' /\ x # Hole /\ delivered' = Append(delivered, x)
    <3>1. x \in 1..accepted
      BY <1>1, <2>3 DEF Hole
    <3>2. delivered \in Seq(1..accepted)
      BY <1>1
    <3>3. \A s \in Seq(1..accepted) : ToSet(Append(s, x)) = ToSet(s) \cup {x}
      BY <3>1, ToSetAppends, Zenon
    <3>4. ToSet(Append(delivered, x)) = ToSet(delivered) \cup {x}
      BY <3>2, <3>3, Zenon
    <3> QED BY <2>3, <3>4 DEF Emitted, Delivered
  <2> QED BY <1>5, <1>6, <2>1, <2>2, <2>3 DEF Emitted
<1>7. \A m \in 1..accepted : Gone(m) => Gone(m)'
  BY DEF OnlyKept, Gone
<1>8. Spent'
  <2> SUFFICES ASSUME NEW m \in 1..accepted, Emitted(m)'
               PROVE  Gone(m)' \/ Finishing(m)'
    BY DEF Spent
  <2>1. CASE Emitted(m)
    BY <1>7, <2>1 DEF Spent
  <2>2. CASE m = x
    <3>1. x # Hole
      BY <2>2 DEF Hole
    <3> QED BY <2>2, <3>1
  <2> QED BY <1>6, <2>1, <2>2
<1>9. Fresh'
  <2> SUFFICES ASSUME off'[Runner] < Chunks
               PROVE  /\ off'[Runner] <= Len(partial')
                      /\ \A m \in 1..accepted' : Delivered(m)' => Gone(m)'
                      /\ \A i \in 1..(Len(partial') - off'[Runner]) :
                           partial'[i] # Hole => Gone(partial[i])'
    BY DEF Fresh
  <2>1. k + 1 < Chunks /\ off'[Runner] = k + 1
    BY <1>2
  <2>2. delivered' = delivered /\ partial' = Append(partial, x)
    BY <1>5, <2>1
  <2>3. /\ Len(partial') = Len(partial) + 1
        /\ \A i \in 1..Len(partial) : partial'[i] = partial[i]
    BY <1>1, <2>2, AppendProperties
  <2>4. /\ off'[Runner] <= Len(partial')
        /\ Len(partial') - off'[Runner] = Len(partial) - k
    BY <1>1, <1>3, <2>1, <2>3
  <2>5. \A m \in 1..accepted' : Delivered(m)' => Gone(m)'
    BY <1>3, <1>7, <2>2 DEF Delivered
  <2>6. ASSUME NEW i \in 1..(Len(partial) - k), partial'[i] # Hole
        PROVE  Gone(partial[i])'
    <3>1. i \in 1..Len(partial)
      BY <1>1, <1>3
    <3>2. PICK m : m = partial[i] /\ m = partial'[i]
      BY <2>3, <3>1
    <3>3. m \in 1..accepted
      <4>1. m \in 0..accepted
        BY <1>1, <3>1, <3>2, ElementOfSeq
      <4> QED BY <1>1, <2>6, <3>2, <4>1 DEF Hole
    <3>4. Gone(m)
      BY <1>3, <2>6, <3>2
    <3>5. Gone(m)'
      BY <1>7, <3>3, <3>4
    <3> QED BY <3>2, <3>5
  <2> QED BY <2>4, <2>5, <2>6
<1>10. ASSUME x # Hole, delivered' = Append(delivered, x)
       PROVE  Unordered!Deliver
  <2>1. x \in 1..accepted /\ ~Delivered(x)
    <3>1. x \in 1..accepted
      BY <1>1, <1>10 DEF Hole
    <3> QED BY <1>3, <1>10, <3>1
  <2>2. \A i \in 1..Len(delivered) : delivered[i] # x
    BY <1>1, <2>1, LenProperties DEF Delivered, ToSet
  <2> QED BY <1>10, <2>1, <2>2 DEF Unordered!Deliver
<1> QED BY <1>5, <1>8, <1>9, <1>10 DEF Unordered!vars

(* run() sends its batch. *)
LEMMA QueueOnce ==
  ASSUME TypeInv, TypeInv', OneOwner', OnlyKept, OnceInv, QueueStep
  PROVE  /\ Spent' /\ Fresh'
         /\ Unordered!Deliver \/ UNCHANGED Unordered!vars
<1>1. /\ pc \in [Threads -> Labels] /\ Runner \in Threads
      /\ off \in [Threads -> Nat] /\ off[Runner] \in Nat /\ Chunks \in Nat \ {0}
      /\ batch \in [Threads -> Seq(1..accepted)] /\ accepted \in Nat
  BY SenderAssumption, Counts DEF TypeInv, TypeOK, Threads
<1>2. /\ UNCHANGED <<accepted, file>>
      /\ pc[Runner] \in {"pop", "wait", "connect", "send"}
  BY DEF QueueStep, PopAll, PopWait, PopTimeout, BatchConnect, BatchConnectFails,
         BatchTransmit, BatchSendFails, BatchPut, PushFront, queueVars, scanVars
<1>3. \A m \in 1..accepted : Gone(m) => Gone(m)'
  BY DEF OnlyKept, Gone
<1>4. Spent /\ Fresh /\ Placed /\ Sizes
  BY DEF OnceInv
<1>5. CASE PopAll \/ PopWait \/ PopTimeout \/ BatchConnectFails \/ BatchConnect
  <2>1. /\ delivered' = delivered /\ partial' \in {partial, <<>>}
        /\ pc[Runner] # "send"
        /\ off'[Runner] = 0 \/ pc'[Runner] \notin {"send", "sendfile"}
    BY <1>1, <1>5
    DEF PopAll, PopWait, PopTimeout, BatchConnectFails, BatchConnect, PushFront, Goto,
        Disconnect, netVars
  <2>2. ASSUME NEW m \in 1..accepted, Emitted(m)' PROVE Gone(m)'
    <3>1. Emitted(m)
      BY <2>1, <2>2, ToSetEmpty DEF Emitted, Delivered
    <3>2. Gone(m)
      BY <1>2, <1>4, <2>1, <3>1 DEF Spent, Finishing
    <3> QED BY <1>3, <3>2
  <2>3. Spent' /\ Fresh'
    BY <1>2, <2>1, <2>2, SpentClean
  <2> QED BY <1>2, <2>1, <2>3 DEF Unordered!vars
<1>6. CASE BatchSendFails
  <2>1. /\ delivered' = delivered /\ partial' = <<>>
        /\ pc[Runner] = "send" /\ off[Runner] < Chunks /\ pc'[Runner] = "check"
    BY <1>1, <1>6 DEF BatchSendFails, PushFront, Goto, Disconnect
  <2>2. ASSUME NEW m \in 1..accepted, Emitted(m)' PROVE Gone(m)'
    <3>1. Delivered(m)
      BY <2>1, <2>2, ToSetEmpty DEF Emitted, Delivered
    <3> QED BY <1>3, <1>4, <2>1, <3>1 DEF Fresh
  <2>3. Spent' /\ Fresh'
    BY <1>2, <2>1, <2>2, SpentClean
  <2> QED BY <1>2, <2>1, <2>3 DEF Unordered!vars
<1>7. ASSUME pc[Runner] = "send"
      PROVE  /\ Head(batch[Runner]) \in 1..accepted
             /\ ~Gone(Head(batch[Runner]))
             /\ \A n \in DOMAIN files : ~Has(n, Head(batch[Runner]))
  <2>1. Head(batch[Runner]) \in 1..accepted /\ InBatch(Runner, Head(batch[Runner]))
    BY <1>1, <1>7, HoldsHead DEF Holding
  <2> QED BY <1>1, <1>4, <1>7, <2>1 DEF Gone, Only, Placed
<1>8. CASE BatchTransmit
  <2>1. /\ pc[Runner] = "send" /\ off[Runner] < Chunks
        /\ Transmit(Head(batch[Runner]))
        /\ pc' = pc /\ off'[Runner] = off[Runner] + 1 /\ batch' = batch
    BY <1>1, <1>8 DEF BatchTransmit, queueVars
  <2>2. PICK x \in 0..accepted : x = Head(batch[Runner])
    BY <1>1, <1>7, <2>1
  <2>3. /\ Transmit(x) /\ ~Gone(x) /\ Finishing(x)
        /\ \A m \in 1..accepted : Finishing(m) => Finishing(m)'
    BY <1>7, <2>1, <2>2 DEF Finishing
  <2> QED BY <1>2, <1>4, <2>1, <2>3, TransmitOnce
<1>9. CASE BatchPut
  <2>1. PICK x \in 1..accepted : x = Head(batch[Runner])
    BY <1>7, <1>9 DEF BatchPut
  <2>2. /\ pc[Runner] = "send" /\ off'[Runner] = 0 /\ returned' = returned \cup {x}
        /\ UNCHANGED <<delivered, partial, files>>
    BY <1>1, <1>9, <2>1 DEF BatchPut, diskVars, netVars
  <2>3. Gone(x)'
    <3>1. ~InMemory(x)'
      BY <1>2, <2>1, <2>2 DEF OneOwner
    <3>2. \A n \in DOMAIN files' : ~Has(n, x)'
      BY <1>7, <2>1, <2>2 DEF Has
    <3> QED BY <3>1, <3>2 DEF Gone, Only, InMemory
  <2>4. ASSUME NEW m \in 1..accepted, Emitted(m)' PROVE Gone(m)'
    <3>1. Emitted(m)
      BY <2>2, <2>4 DEF Emitted, Delivered
    <3>2. Gone(m) \/ m = x
      BY <1>4, <2>1, <2>2, <3>1 DEF Spent, Finishing
    <3> QED BY <1>3, <2>3, <3>2
  <2>5. Spent' /\ Fresh'
    BY <1>2, <2>2, <2>4, SpentClean
  <2> QED BY <1>2, <2>2, <2>5 DEF Unordered!vars
<1> QED BY <1>5, <1>6, <1>8, <1>9 DEF QueueStep

(* run() sends files. *)
LEMMA FilesOnce ==
  ASSUME MaxCrashes = 0, TypeInv, TypeInv', QueueInOrder, OnlyKept, OnceInv, FilesStep
  PROVE  /\ Spent' /\ Fresh'
         /\ Unordered!Deliver \/ UNCHANGED Unordered!vars
<1>1. /\ pc \in [Threads -> Labels] /\ Runner \in Threads
      /\ off \in [Threads -> Nat] /\ off[Runner] \in Nat /\ Chunks \in Nat \ {0}
      /\ accepted \in Nat /\ fsize \in Nat
  BY SenderAssumption, Counts DEF TypeInv, TypeOK, Threads
<1>2. /\ UNCHANGED accepted
      /\ pc[Runner] \in {"files", "scan", "map", "sendfile", "unlink"}
  BY DEF FilesStep, FilesConnect, FilesConnectFails, NextFile, ScanEnd, MapFile,
         FileTransmit, FileSendFails, FileSent, UnlinkFile, queueVars
<1>3. \A m \in 1..accepted : Gone(m) => Gone(m)'
  BY DEF OnlyKept, Gone
<1>4. Spent /\ Fresh /\ Placed /\ Sizes
  BY DEF OnceInv
<1>5. CASE FilesConnect \/ FilesConnectFails \/ NextFile \/ ScanEnd \/ MapFile
  <2>1. /\ delivered' = delivered /\ partial' = partial
        /\ pc[Runner] \in {"files", "scan", "map"}
        /\ off'[Runner] = 0 \/ pc'[Runner] \notin {"send", "sendfile"}
    BY <1>1, <1>5
    DEF FilesConnect, FilesConnectFails, NextFile, ScanEnd, MapFile, Goto, netVars
  <2>2. ASSUME NEW m \in 1..accepted, Emitted(m)' PROVE Gone(m)'
    <3>1. Emitted(m)
      BY <2>1, <2>2 DEF Emitted, Delivered
    <3>2. Gone(m)
      BY <1>4, <2>1, <3>1 DEF Spent, Finishing
    <3> QED BY <1>3, <3>2
  <2>3. Spent' /\ Fresh'
    BY <1>2, <2>1, <2>2, SpentClean
  <2> QED BY <1>2, <2>1, <2>3 DEF Unordered!vars
<1>6. CASE FileSendFails
  <2>1. /\ delivered' = delivered /\ partial' = <<>>
        /\ pc[Runner] = "sendfile" /\ off[Runner] < fsize /\ pc'[Runner] = "check"
    BY <1>1, <1>6 DEF FileSendFails, Goto, Disconnect
  <2>2. off[Runner] < Chunks
    BY <1>1, <1>4, <2>1 DEF Sizes
  <2>3. ASSUME NEW m \in 1..accepted, Emitted(m)' PROVE Gone(m)'
    <3>1. Delivered(m)
      BY <2>1, <2>3, ToSetEmpty DEF Emitted, Delivered
    <3> QED BY <1>3, <1>4, <2>1, <2>2, <3>1 DEF Fresh
  <2>4. Spent' /\ Fresh'
    BY <1>2, <2>1, <2>3, SpentClean
  <2> QED BY <1>2, <2>1, <2>4 DEF Unordered!vars
<1>7. CASE FileTransmit
  <2>1. /\ pc[Runner] = "sendfile" /\ file \in DOMAIN files /\ pc' = pc
        /\ off[Runner] < Len(files[file]) /\ off[Runner] < fsize
        /\ Transmit(files[file][off[Runner] + 1])
        /\ off'[Runner] = off[Runner] + 1 /\ file' = file
    BY <1>1, <1>7 DEF FileTransmit, TypeInv, ControlOK, scanVars
  <2>2. off[Runner] < Chunks
    BY <1>1, <1>4, <2>1 DEF Sizes
  <2>3. /\ files[file] \in Seq(0..accepted) /\ DOMAIN files[file] = 1..Len(files[file])
        /\ Len(files[file]) \in Nat
    BY <2>1, LenProperties DEF TypeInv, TypeOK
  <2>4. off[Runner] + 1 \in 1..Len(files[file])
    BY <1>1, <2>1, <2>3
  <2>5. PICK x \in 0..accepted : x = files[file][off[Runner] + 1]
    BY <2>3, <2>4, ElementOfSeq
  <2>6. Has(file, x) /\ Transmit(x)
    BY <2>1, <2>3, <2>4, <2>5 DEF Has, ToSet
  <2>7. PICK f \in DOMAIN files : f = file
    BY <2>1
  <2>8. x # Hole => ~Gone(x) /\ Finishing(x)
    <3> SUFFICES ASSUME x # Hole PROVE ~Gone(x) /\ Finishing(x)
      OBVIOUS
    <3>1. x \in 1..accepted
      BY <1>1, <2>5 DEF Hole
    <3>2. ~Gone(x)
      BY <2>6, <2>7 DEF Gone, Only
    <3>3. Only({f}, x)
      BY <1>4, <2>6, <2>7, <3>1 DEF Placed
    <3> QED BY <2>1, <2>7, <3>2, <3>3 DEF Finishing
  <2>9. ASSUME NEW m \in 1..accepted, Finishing(m) PROVE Finishing(m)'
    <3>1. Only({f}, m)
      BY <2>1, <2>7, <2>9 DEF Finishing
    <3>2. Only({f}, m)'
      BY <3>1 DEF OnlyKept
    <3> QED BY <2>1, <2>7, <3>2 DEF Finishing
  <2> QED BY <1>2, <1>4, <2>1, <2>2, <2>6, <2>8, <2>9, TransmitOnce
<1>8. CASE FileSent
  <2>1. /\ pc[Runner] = "sendfile" /\ pc'[Runner] = "unlink"
        /\ UNCHANGED <<delivered, partial, file>>
    BY <1>1, <1>8 DEF FileSent, Goto, netVars, scanVars
  <2>2. ASSUME NEW m \in 1..accepted, Emitted(m)' PROVE Gone(m)' \/ Finishing(m)'
    <3>1. PICK f : f = file
      OBVIOUS
    <3>2. Gone(m) \/ Only({f}, m)
      <4>1. Emitted(m)
        BY <2>1, <2>2 DEF Emitted, Delivered
      <4> QED BY <1>4, <2>1, <3>1, <4>1 DEF Spent, Finishing
    <3>3. Only({f}, m) => Only({f}, m)'
      BY DEF OnlyKept
    <3> QED BY <1>3, <2>1, <3>1, <3>2, <3>3 DEF Finishing
  <2>3. Spent' /\ Fresh'
    BY <1>2, <2>1, <2>2 DEF Spent, Fresh
  <2> QED BY <1>2, <2>1, <2>3 DEF Unordered!vars
<1>9. CASE UnlinkFile
  <2>1. /\ pc[Runner] = "unlink" /\ pc'[Runner] = "scan"
        /\ UNCHANGED <<delivered, partial>>
    BY <1>1, <1>9 DEF UnlinkFile, Goto, netVars
  <2>2. PICK f : f = file
    OBVIOUS
  <2>3. ASSUME NEW m \in 1..accepted, Emitted(m)' PROVE Gone(m)'
    <3>1. Gone(m) \/ Only({f}, m)
      <4>1. Emitted(m)
        BY <2>1, <2>3 DEF Emitted, Delivered
      <4> QED BY <1>4, <2>1, <2>2, <4>1 DEF Spent, Finishing
    <3>2. ASSUME Only({f}, m) PROVE Only({}, m)'
      <4>1. {} = {f} \ {file} /\ [Next]_vars
        BY <1>9, <2>2 DEF Next, RunnerStep, FilesStep
      <4> QED BY <1>9, <3>2, <4>1, OnlyStep
    <3> QED BY <1>3, <3>1, <3>2 DEF Gone
  <2>4. Spent' /\ Fresh'
    BY <1>2, <2>1, <2>3, SpentClean
  <2> QED BY <1>2, <2>1, <2>4 DEF Unordered!vars
<1> QED BY <1>5, <1>6, <1>7, <1>8, <1>9 DEF FilesStep

LEMMA OnceStep ==
  ASSUME MaxCrashes = 0, TypeInv, TypeInv', QueueInOrder, OneOwner, OneOwner',
         OnceInv, [Next]_vars
  PROVE  OnceInv' /\ [Unordered!Next]_(Unordered!vars)
<1>1. OnlyKept /\ Placed' /\ Sizes'
  BY OnlyKeptStep, PlacedStep, SizesStep DEF OnceInv
<1>2. Spent /\ Fresh
  BY DEF OnceInv
<1> SUFFICES Spent' /\ Fresh' /\ (Unordered!Next \/ UNCHANGED Unordered!vars)
  BY <1>1 DEF OnceInv
<1>3. /\ pc \in [Threads -> Labels] /\ Runner \in Threads /\ Owner \in Threads
      /\ Producers \subseteq Threads /\ Runner \notin Producers /\ Owner # Runner
      /\ accepted \in Nat
      /\ off \in [Threads -> Nat] /\ batch \in [Threads -> Seq(1..accepted)]
  BY SenderAssumption, Counts DEF TypeInv, TypeOK, Threads
<1>4. ASSUME UNCHANGED <<accepted, partial, delivered>>,
             pc[Runner] \notin {"send", "sendfile", "unlink"},
             pc'[Runner] \notin {"send", "sendfile", "unlink"}
      PROVE  Spent' /\ Fresh' /\ UNCHANGED Unordered!vars
  <2>1. ASSUME NEW m \in 1..accepted, Emitted(m)' PROVE Gone(m)'
    <3>1. Gone(m)
      <4>1. Emitted(m)
        BY <1>4, <2>1 DEF Emitted, Delivered
      <4> QED BY <1>2, <1>4, <4>1 DEF Spent, Finishing
    <3> QED BY <1>1, <3>1 DEF Gone, OnlyKept
  <2>2. Spent' /\ Fresh'
    BY <1>4, <2>1, SpentClean
  <2> QED BY <1>4, <2>2 DEF Unordered!vars
<1>5. ASSUME accepted' = accepted, UNCHANGED <<partial, delivered, file>>,
             pc'[Runner] = pc[Runner], off'[Runner] = off[Runner],
             batch'[Runner] = batch[Runner]
      PROVE  Spent' /\ Fresh' /\ UNCHANGED Unordered!vars
  <2>1. accepted' \in Nat /\ accepted' >= accepted
    BY <1>3, <1>5
  <2>2. Spent' /\ Fresh'
    BY <1>1, <1>2, <1>5, <2>1, SpentElsewhere
  <2> QED BY <1>5, <2>2 DEF Unordered!vars
<1> USE DEF Goto, queueVars, netVars, scanVars
<1>6. CASE Start \/ Join
  BY <1>3, <1>4, <1>6 DEF Start, Join
<1>7. CASE Stop
  BY <1>3, <1>5, <1>7 DEF Stop
<1>8. CASE Crash
  <2>1. budget["crashes"] \in Nat /\ budget["crashes"] < 0
    BY <1>8 DEF Crash, Spend, TypeInv, TypeOK, Kinds
  <2> QED BY <2>1
<1>9. ASSUME NEW p \in Producers, NEW k \in 1..MaxRange, Send(p, k)
      PROVE  Spent' /\ Fresh' /\ Unordered!Accept
  <2>1. /\ pc'[Runner] = pc[Runner] /\ accepted' = accepted + k /\ k \in Nat \ {0}
        /\ UNCHANGED <<batch, off, partial, delivered, file>>
    <3>1. k \in Nat \ {0}
      BY SenderAssumption
    <3> QED BY <1>3, <1>9, <3>1 DEF Send
  <2>2. accepted' \in Nat /\ accepted' > accepted /\ accepted' >= accepted
    BY <1>3, <2>1
  <2>3. Spent' /\ Fresh'
    BY <1>1, <1>2, <2>1, <2>2, SpentElsewhere
  <2> QED BY <2>1, <2>2, <2>3 DEF Unordered!Accept
<1>10. ASSUME NEW p \in Producers, RequestFiles(p)
       PROVE  Spent' /\ Fresh' /\ UNCHANGED Unordered!vars
  BY <1>3, <1>5, <1>10 DEF RequestFiles
<1>11. ASSUME NEW p \in Producers, SaveStep(p)
       PROVE  Spent' /\ Fresh' /\ UNCHANGED Unordered!vars
  <2>1. /\ pc'[Runner] = pc[Runner] /\ off'[Runner] = off[Runner]
        /\ batch'[Runner] = batch[Runner]
    BY <1>3, <1>11 DEF SaveStep, SavePop, SaveStat, SaveOpen, SaveWrite, SavePut
  <2>2. UNCHANGED <<accepted, partial, delivered, file>>
    BY <1>11 DEF SaveStep, SavePop, SaveStat, SaveOpen, SaveWrite, SavePut
  <2> QED BY <1>5, <2>1, <2>2
<1>12. CASE SaveStep(Runner)
  BY <1>3, <1>4, <1>12 DEF SaveStep, SavePop, SaveStat, SaveOpen, SaveWrite, SavePut, Saved
<1>13. CASE LoopStep
  BY <1>3, <1>4, <1>13
  DEF LoopStep, TooSoon, Reconnect, ReconnectFails, Dispatch, Check
<1>14. CASE QueueStep
  BY <1>1, <1>14, QueueOnce DEF Unordered!Next
<1>15. CASE FilesStep
  BY <1>1, <1>15, FilesOnce DEF Unordered!Next
<1>16. CASE UNCHANGED vars
  BY <1>5, <1>16 DEF vars
<1> QED BY <1>6, <1>7, <1>8, <1>9, <1>10, <1>11, <1>12, <1>13, <1>14, <1>15, <1>16
        DEF Next, ProducerStep, RunnerStep, Unordered!Next

(* While the process lives, the sender implements the outbox that hands    *)
(* over every buffer at most once, however many producers spill, whatever  *)
(* connections fail, whatever files they overwrite or lose for each other, *)
(* and however often the sender is stopped and restarted.                  *)
THEOREM AtMostOnceOutbox ==
  ASSUME MaxCrashes = 0
  PROVE  Spec => DeliversAtMostOnce
<1>1. Init => OnceInv /\ Unordered!Init
  <2> SUFFICES ASSUME Init PROVE OnceInv /\ Unordered!Init
    OBVIOUS
  <2>1. /\ DOMAIN files = {} /\ delivered = <<>> /\ partial = <<>> /\ accepted = 0
        /\ \A t \in Threads : pc[t] \in {"none", "idle"}
        /\ Runner \in Threads /\ fsize = 0
    BY DEF Init, Threads
  <2>2. Sizes
    BY <2>1, SenderAssumption DEF Sizes
  <2>3. Placed /\ Spent /\ Fresh
    BY <2>1 DEF Placed, Spent, Fresh
  <2> QED BY <2>1, <2>2, <2>3 DEF OnceInv, Unordered!Init
<1>2. TypeInv /\ TypeInv' /\ QueueInOrder /\ OneOwner /\ OneOwner'
        /\ OnceInv /\ [Next]_vars
      => OnceInv' /\ [Unordered!Next]_(Unordered!vars)
  BY OnceStep
<1> QED BY <1>1, <1>2, OrderInvariant, OneOwnerInvariant, PTL
        DEF Spec, DeliversAtMostOnce, Unordered!Spec
=============================================================================
