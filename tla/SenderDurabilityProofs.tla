----------------------- MODULE SenderDurabilityProofs ------------------------
(***************************************************************************)
(* What becomes of the buffers that module Sender has accepted: what run() *)
(* leaves in memory when it ends, and what is left on disk and handed over *)
(* through failures, restarts and deaths of the process.                   *)
(*                                                                         *)
(* Two hypotheses mark what the code does not survive, as the runs that    *)
(* expect a violation show.  NoSpill: no producer finds the queue too long *)
(* (a producer that saves while send_files() scans can lose buffers).  And *)
(* files can be mapped (MapMayFail is FALSE): a file that cannot be mapped *)
(* is removed.                                                             *)
(*                                                                         *)
(* That no buffer is lost is not inductive.  It needs to know what the     *)
(* file that is written, or sent, holds so far (SafeInv).                  *)
(***************************************************************************)
EXTENDS SenderOrderProofs

(* The last k units of c are units of m. *)
EndsWith(c, k, m) == Len(c) >= k /\ \A i \in 1..k : c[Len(c) - k + i] = m

(* Buffer m is handed over, or k units of it are and there are more. *)
Sending(m, k) == Delivered(m) \/ (k < Chunks /\ EndsWith(partial, k, m))

(* No producer calls save_buffers(). *)
NoSpill == \A p \in Producers : pc[p] # "save"

(* So every producer is outside of it. *)
Outside == \A p \in Producers : pc[p] \in {"idle", "joining"}

(* What run() has written of the file of the first buffer of its batch: it *)
(* is a new file, which nobody else writes.                                *)
WritesNew ==
  LET m == Head(batch[Runner])
      n == fd[Runner]
  IN /\ pc[Runner] = "open" => n \notin DOMAIN files
     /\ pc[Runner] = "write" => /\ off[Runner] < Chunks
                                /\ n \in DOMAIN files
                                /\ files[n] = [i \in 1..off[Runner] |-> m]
     /\ pc[Runner] = "put" => OnDisk(m)

(* What run() has sent. *)
SendsAll ==
  /\ pc[Runner] = "send" => Sending(Head(batch[Runner]), off[Runner])
  /\ pc[Runner] \in {"map", "sendfile"} => fsize = Len(files[file])
  /\ pc[Runner] = "sendfile" =>
       \A m \in 1..accepted : files[file] = Whole(m) => Sending(m, off[Runner])
  /\ pc[Runner] = "unlink" =>
       \A m \in 1..accepted : files[file] = Whole(m) => Delivered(m)

(* What the allocator has back is on disk or handed over. *)
ReturnedSafe == \A m \in returned : OnDisk(m) \/ Delivered(m)

SafeInv == Outside /\ WritesNew /\ SendsAll /\ ReturnedSafe

-----------------------------------------------------------------------------
(* What the connection accepts.                                            *)

(* A sequence holds the element that is appended, and keeps the others. *)
LEMMA ToSetAppend ==
  ASSUME NEW S, NEW s \in Seq(S), NEW e \in S
  PROVE  ToSet(Append(s, e)) = ToSet(s) \cup {e}
<1>1. /\ Len(s) \in Nat /\ DOMAIN s = 1..Len(s)
      /\ Append(s, e) \in Seq(S) /\ Len(Append(s, e)) = Len(s) + 1
      /\ \A i \in 1..Len(s) : Append(s, e)[i] = s[i]
      /\ Append(s, e)[Len(s) + 1] = e
  BY AppendProperties, LenProperties
<1>2. DOMAIN Append(s, e) = 1..(Len(s) + 1)
  BY <1>1, LenProperties
<1>3. ASSUME NEW x \in ToSet(Append(s, e)) PROVE x \in ToSet(s) \cup {e}
  <2>1. PICK i \in 1..(Len(s) + 1) : x = Append(s, e)[i]
    BY <1>2 DEF ToSet
  <2>2. CASE i = Len(s) + 1
    BY <1>1, <2>1, <2>2
  <2>3. CASE i # Len(s) + 1
    <3>1. i \in 1..Len(s)
      BY <1>1, <2>3
    <3> QED BY <1>1, <2>1, <3>1 DEF ToSet
  <2> QED BY <2>2, <2>3
<1>4. ASSUME NEW x \in ToSet(s) PROVE x \in ToSet(Append(s, e))
  <2>1. PICK i \in 1..Len(s) : x = s[i]
    BY <1>1 DEF ToSet
  <2>2. i \in DOMAIN Append(s, e) /\ Append(s, e)[i] = x
    BY <1>1, <1>2, <2>1
  <2> QED BY <2>2 DEF ToSet
<1>5. e \in ToSet(Append(s, e))
  <2>1. Len(s) + 1 \in DOMAIN Append(s, e)
    BY <1>1, <1>2
  <2> QED BY <1>1, <2>1 DEF ToSet
<1> QED BY <1>3, <1>4, <1>5

(* What is handed over stays so. *)
LEMMA TransmitKeeps ==
  ASSUME TypeInv, NEW unit \in 0..accepted, Transmit(unit), NEW m, Delivered(m)
  PROVE  Delivered(m)'
<1>1. delivered \in Seq(1..accepted) /\ accepted \in Nat
  BY Counts DEF TypeInv, TypeOK
<1>2. CASE delivered' = Append(delivered, unit) /\ unit # Hole
  <2>1. unit \in 1..accepted
    BY <1>1, <1>2 DEF Hole
  <2>2. ToSet(delivered') = ToSet(delivered) \cup {unit}
    BY <1>1, <1>2, <2>1, ToSetAppend
  <2> QED BY <2>2 DEF Delivered
<1>3. CASE UNCHANGED delivered
  BY <1>3 DEF Delivered
<1> QED BY <1>2, <1>3 DEF Transmit

(* One more unit of m: with the last one, m is handed over. *)
LEMMA TransmitSends ==
  ASSUME TypeInv, NEW m \in 1..accepted, NEW k \in Nat, k < Chunks,
         Sending(m, k), Transmit(m)
  PROVE  Sending(m, k + 1)'
<1>1. /\ accepted \in Nat /\ Chunks \in Nat /\ m \in 0..accepted /\ m # Hole
      /\ delivered \in Seq(1..accepted) /\ partial \in Seq(0..accepted)
  BY Counts DEF TypeInv, TypeOK, Hole
<1> DEFINE stream == Append(partial, m)
           before == Len(stream) - Chunks
<1>2. /\ stream \in Seq(0..accepted) /\ Len(partial) \in Nat
      /\ Len(stream) = Len(partial) + 1
      /\ \A i \in 1..Len(partial) : stream[i] = partial[i]
      /\ stream[Len(partial) + 1] = m
  BY <1>1, AppendProperties, LenProperties
<1>3. CASE Delivered(m)
  BY <1>1, <1>3, TransmitKeeps DEF Sending
<1>4. CASE delivered' = Append(delivered, m)
  <2>1. ToSet(Append(delivered, m)) = ToSet(delivered) \cup {m}
    BY <1>1, ToSetAppend
  <2> QED BY <1>4, <2>1 DEF Sending, Delivered
<1>5. CASE /\ EndsWith(partial, k, m) /\ partial' = stream
           /\ ~(before >= 0 /\ SubSeq(stream, before + 1, Len(stream)) = Whole(m))
  <2>1. Len(stream) >= k + 1 /\ \A i \in 1..(k + 1) : stream[Len(stream) - (k + 1) + i] = m
    <3> HIDE DEF stream
    <3>1. Len(partial) >= k
      BY <1>5 DEF EndsWith
    <3>2. ASSUME NEW i \in 1..(k + 1) PROVE stream[Len(stream) - (k + 1) + i] = m
      <4>1. Len(stream) - (k + 1) + i = Len(partial) - k + i
        BY <1>2
      <4>2. CASE i = k + 1
        BY <1>2, <4>1, <4>2
      <4>3. CASE i \in 1..k
        <5>1. partial[Len(partial) - k + i] = m
          BY <1>5, <4>3 DEF EndsWith
        <5>2. Len(partial) - k + i \in 1..Len(partial)
          BY <1>2, <3>1, <4>3
        <5> QED BY <1>2, <4>1, <5>1, <5>2
      <4> QED BY <4>2, <4>3
    <3> QED BY <1>2, <3>1, <3>2
  <2>2. k + 1 # Chunks
    <3> SUFFICES ASSUME k + 1 = Chunks PROVE FALSE
      OBVIOUS
    <3>1. before \in Nat /\ before + Chunks = Len(stream)
      BY <1>1, <1>2, <2>1
    <3>2. \A i \in 1..Chunks : stream[before + i] = m
      BY <1>1, <1>2, <2>1, <3>1
    <3>3. SubSeq(stream, before + 1, Len(stream)) = [i \in 1..Chunks |-> stream[before + i]]
      <4> HIDE DEF stream
      <4>1. before + 1 \in Int /\ Len(stream) \in Int
        BY <1>1, <1>2, <3>1
      <4>2. Len(stream) - (before + 1) + 1 = Chunks
        BY <1>1, <1>2, <3>1
      <4>3. \A i \in 1..Chunks : before + 1 + i - 1 = before + i
        BY <1>1, <3>1
      <4> HIDE DEF before
      <4>4. SubSeq(stream, before + 1, Len(stream))
              = [i \in 1..Chunks |-> stream[before + 1 + i - 1]]
        BY <1>1, <3>1, <4>1, <4>2
      <4> QED BY <4>3, <4>4
    <3> HIDE DEF stream, before
    <3>4. SubSeq(stream, before + 1, Len(stream)) = Whole(m)
      BY <3>2, <3>3 DEF Whole
    <3> QED BY <1>5, <3>1, <3>4
  <2> HIDE DEF stream
  <2> QED BY <1>1, <1>5, <2>1, <2>2 DEF Sending, EndsWith
<1>6. \/ delivered' = Append(delivered, m)
      \/ /\ partial' = stream
         /\ ~(before >= 0 /\ SubSeq(stream, before + 1, Len(stream)) = Whole(m))
  BY <1>1 DEF Transmit
<1> QED BY <1>3, <1>4, <1>5, <1>6 DEF Sending

(* Nothing of m is sent yet. *)
LEMMA SendsNothing ==
  ASSUME TypeInv, NEW m PROVE Sending(m, 0)
<1>1. Len(partial) \in Nat /\ Chunks > 0
  BY SenderAssumption, LenProperties DEF TypeInv, TypeOK
<1> QED BY <1>1 DEF Sending, EndsWith

-----------------------------------------------------------------------------
(* Every step, if nobody spills.                                           *)

(* A buffer that is intact on disk stays there until it is handed over. *)
Kept == \A m \in 1..accepted : OnDisk(m) => OnDisk(m)' \/ Delivered(m)'

(* The labels at which run() is in the middle of something. *)
Busy == {"open", "write", "put", "send", "map", "sendfile", "unlink"}

(* Producers do not get into save_buffers(). *)
LEMMA OutsideStep ==
  ASSUME TypeInv, Outside, [Next]_vars, NoSpill'
  PROVE  Outside'
<1> USE SenderAssumption DEF Outside, Goto
<1>1. pc \in [Threads -> Labels] /\ Runner \notin Producers /\ Owner \in Producers
      /\ Producers \subseteq Threads
  BY DEF TypeInv, TypeOK, Threads
<1>2. CASE Start \/ Stop \/ Join \/ Crash
  BY <1>1, <1>2 DEF Start, Stop, Join, Crash
<1>3. ASSUME NEW p \in Producers, NEW k \in 1..MaxRange, Send(p, k)
      PROVE  Outside'
  <2>1. \A q \in Producers : pc'[q] \in {pc[q], "idle", "save"}
    BY <1>1, <1>3 DEF Send
  <2> QED BY <2>1 DEF NoSpill
<1>4. ASSUME NEW p \in Producers, ProducerStep(p)
      PROVE  FALSE
  BY <1>4 DEF ProducerStep, RequestFiles, SaveStep, SavePop, SaveStat, SaveOpen,
              SaveWrite, SavePut
<1>5. CASE RunnerStep
  <2>1. \A p \in Producers : pc'[p] = pc[p]
    <3>1. CASE LoopStep
      BY <1>1, <3>1 DEF LoopStep, TooSoon, Reconnect, ReconnectFails, Dispatch, Check
    <3>2. CASE QueueStep
      BY <1>1, <3>2
      DEF QueueStep, PopAll, PopWait, PopTimeout, BatchConnect, BatchConnectFails,
          BatchTransmit, BatchSendFails, BatchPut, PushFront
    <3>3. CASE FilesStep
      BY <1>1, <3>3
      DEF FilesStep, FilesConnect, FilesConnectFails, NextFile, ScanEnd, MapFile,
          FileTransmit, FileSendFails, FileSent, UnlinkFile
    <3>4. CASE SaveStep(Runner)
      BY <1>1, <3>4 DEF SaveStep, SavePop, SaveStat, SaveOpen, SaveWrite, SavePut
    <3> QED BY <1>5, <3>1, <3>2, <3>3, <3>4 DEF RunnerStep
  <2> QED BY <2>1
<1>6. CASE UNCHANGED vars
  BY <1>6 DEF vars
<1> QED BY <1>2, <1>3, <1>4, <1>5, <1>6 DEF Next

(* A step that leaves the files, what is handed over and the allocator     *)
(* alone, and run() at a place where it is not in the middle of something. *)
LEMMA QuietStep ==
  ASSUME SafeInv, Outside', UNCHANGED <<files, delivered, returned>>,
         pc'[Runner] \notin Busy
  PROVE  SafeInv' /\ Kept
<1>1. WritesNew' /\ SendsAll'
  BY DEF WritesNew, SendsAll, Busy
<1>2. ReturnedSafe' /\ Kept
  BY DEF SafeInv, ReturnedSafe, Kept, OnDisk, Delivered
<1> QED BY <1>1, <1>2 DEF SafeInv

(* No file has units of buffers that were not accepted. *)
LEMMA OldContent ==
  ASSUME TypeInv, NEW n \in DOMAIN files, NEW m, files[n] = Whole(m)
  PROVE  m \in 0..accepted
<1>1. files[n] \in Seq(0..accepted) /\ 1 \in 1..Chunks /\ Chunks \in Nat
  BY SenderAssumption DEF TypeInv, TypeOK
<1>2. Len(files[n]) = Chunks /\ files[n][1] = m
  BY <1>1 DEF Whole
<1> QED BY <1>1, <1>2, ElementOfSeq

(* send() without a spill, and stop(): run() stays where it is. *)
LEMMA ElsewhereStep ==
  ASSUME TypeInv, SafeInv, Outside', accepted' \in Nat, accepted' >= accepted,
         pc'[Runner] = pc[Runner],
         UNCHANGED <<batch, files, fd, off, delivered, partial, returned, file, fsize>>
  PROVE  SafeInv' /\ Kept
<1>1. /\ accepted \in Nat
      /\ \A m : /\ OnDisk(m)' <=> OnDisk(m)
                /\ Delivered(m)' <=> Delivered(m)
                /\ \A k : Sending(m, k)' <=> Sending(m, k)
  BY Counts DEF TypeInv, OnDisk, Delivered, Sending
<1>2. WritesNew'
  BY <1>1 DEF SafeInv, WritesNew
<1>3. SendsAll'
  <2>1. ASSUME pc[Runner] \in {"sendfile", "unlink"}, NEW m \in 1..accepted',
               files[file] = Whole(m)
        PROVE  m \in 1..accepted
    <3>1. m \in 0..accepted
      BY <2>1, OldContent DEF TypeInv, ControlOK
    <3> QED BY <1>1, <3>1
  <2> QED BY <1>1, <2>1 DEF SafeInv, SendsAll
<1>4. ReturnedSafe' /\ Kept
  BY <1>1 DEF SafeInv, ReturnedSafe, Kept
<1> QED BY <1>2, <1>3, <1>4 DEF SafeInv

LEMMA OwnerSafe ==
  ASSUME TypeInv, SafeInv, Outside', Start \/ Stop \/ Join \/ Crash
  PROVE  SafeInv' /\ Kept
<1>1. /\ pc \in [Threads -> Labels] /\ Runner \in Threads /\ Runner # Owner
      /\ accepted \in Nat
  BY SenderAssumption, Counts DEF TypeInv, TypeOK, Threads
<1>2. CASE Start \/ Join \/ Crash
  <2>1. pc'[Runner] \notin Busy
    BY <1>1, <1>2 DEF Start, Join, Crash, Goto, Busy
  <2>2. UNCHANGED <<files, delivered, returned>>
    BY <1>2 DEF Start, Join, Crash, queueVars, diskVars, netVars
  <2> QED BY <2>1, <2>2, QuietStep
<1>3. CASE Stop
  BY <1>1, <1>3, ElsewhereStep DEF Stop, Goto, queueVars, diskVars, netVars, scanVars
<1> QED BY <1>2, <1>3

LEMMA SendSafe ==
  ASSUME TypeInv, SafeInv, Outside', NEW p \in Producers, NEW k \in 1..MaxRange,
         Send(p, k)
  PROVE  SafeInv' /\ Kept
<1>1. /\ pc \in [Threads -> Labels] /\ Runner # p /\ accepted \in Nat /\ k \in Nat
  BY SenderAssumption, Counts DEF TypeInv, TypeOK
<1>2. pc'[Runner] = pc[Runner] /\ accepted' = accepted + k
  BY <1>1 DEF Send, Goto, Threads
<1>3. accepted' \in Nat /\ accepted' >= accepted
  BY <1>1, <1>2
<1> QED BY <1>2, <1>3, ElsewhereStep DEF Send, diskVars, netVars, scanVars

LEMMA LoopSafe ==
  ASSUME TypeInv, SafeInv, Outside', LoopStep
  PROVE  SafeInv' /\ Kept
<1>1. pc \in [Threads -> Labels] /\ Runner \in Threads
  BY DEF TypeInv, TypeOK, Threads
<1>2. UNCHANGED <<files, delivered, returned>> /\ pc'[Runner] \notin Busy
  BY <1>1 DEF LoopStep, TooSoon, Reconnect, ReconnectFails, Dispatch, Check, Goto,
              Busy, queueVars, diskVars, netVars
<1> QED BY <1>2, QuietStep

(* The next unit of a buffer is written behind the others. *)
LEMMA WriteNext ==
  ASSUME NEW k \in Nat, NEW m
  PROVE  /\ WriteAt([i \in 1..k |-> m], k + 1, m) = [i \in 1..(k + 1) |-> m]
         /\ Len([i \in 1..k |-> m]) = k
<1> DEFINE c == [i \in 1..k |-> m]
<1>1. c \in Seq({m}) /\ Len(c) = k
  <2>1. c \in [1..k -> {m}]
    OBVIOUS
  <2> QED BY <2>1, SeqDef, LenProperties
<1>2. \A j \in 1..k : c[j] = m
  OBVIOUS
<1> HIDE DEF c
<1>3. WriteAt(c, k + 1, m) = [j \in 1..(k + 1) |-> m]
  <2>1. (IF k + 1 > Len(c) THEN k + 1 ELSE Len(c)) = k + 1
    BY <1>1
  <2>2. \A j \in 1..(k + 1) :
          (IF j = k + 1 THEN m ELSE IF j <= Len(c) THEN c[j] ELSE Hole) = m
    BY <1>1, <1>2
  <2> QED BY <2>1, <2>2 DEF WriteAt
<1> QED BY <1>1, <1>3 DEF c

(* run() saves what is left: every file is new, and whole before the       *)
(* buffer goes back.                                                       *)
LEMMA SaveSafe ==
  ASSUME TypeInv, SafeInv, Outside', SaveStep(Runner)
  PROVE  SafeInv' /\ Kept
<1>1. /\ pc \in [Threads -> Labels] /\ Runner \in Threads
      /\ off \in [Threads -> Nat] /\ off[Runner] \in Nat
      /\ fd \in [Threads -> Nat \cup {None, Unlinked}]
      /\ batch \in [Threads -> Seq(1..accepted)] /\ Chunks \in Nat \ {0}
  BY SenderAssumption DEF TypeInv, TypeOK, Threads
<1> DEFINE m == Head(batch[Runner])
           n == fd[Runner]
<1>2. CASE SavePop(Runner)
  BY <1>1, <1>2, QuietStep DEF SavePop, Saved, Goto, Busy, netVars
<1>3. CASE SaveStat(Runner)
  <2>1. UNCHANGED <<files, delivered, returned>>
    BY <1>3 DEF SaveStat, queueVars, netVars
  <2>2. CASE cnt[Runner] \in DOMAIN files
    BY <1>1, <1>3, <2>1, <2>2, QuietStep DEF SaveStat, Busy
  <2>3. CASE cnt[Runner] \notin DOMAIN files
    <3>1. fd'[Runner] = cnt[Runner] /\ pc'[Runner] = "open"
      BY <1>1, <1>3, <2>3 DEF SaveStat, Goto
    <3>2. WritesNew' /\ SendsAll'
      BY <2>1, <2>3, <3>1 DEF WritesNew, SendsAll
    <3>3. ReturnedSafe' /\ Kept
      BY <2>1 DEF SafeInv, ReturnedSafe, Kept, OnDisk, Delivered
    <3> QED BY <3>2, <3>3 DEF SafeInv
  <2> QED BY <2>2, <2>3
<1>4. CASE SaveOpen(Runner)
  <2>1. /\ pc[Runner] = "open" /\ n \notin DOMAIN files
        /\ pc'[Runner] = "write" /\ off'[Runner] = 0 /\ fd' = fd /\ batch' = batch
        /\ UNCHANGED <<delivered, returned>>
    BY <1>1, <1>4 DEF SaveOpen, Goto, SafeInv, WritesNew, queueVars, netVars
  <2>2. /\ DOMAIN files' = DOMAIN files \cup {n} /\ files'[n] = <<>>
        /\ \A j \in DOMAIN files : files'[j] = files[j]
    BY <1>4, <2>1 DEF SaveOpen
  <2>3. \A x : OnDisk(x) => OnDisk(x)'
    BY <2>2 DEF OnDisk
  <2>4. WritesNew' /\ SendsAll'
    BY <1>1, <2>1, <2>2 DEF WritesNew, SendsAll
  <2>5. ReturnedSafe' /\ Kept
    BY <2>1, <2>3 DEF SafeInv, ReturnedSafe, Kept, Delivered
  <2> QED BY <2>4, <2>5 DEF SafeInv
<1>5. CASE SaveWrite(Runner)
  <2>1. /\ pc[Runner] = "write" /\ off[Runner] < Chunks /\ n \in DOMAIN files
        /\ files[n] = [i \in 1..off[Runner] |-> m]
        /\ batch' = batch /\ UNCHANGED <<delivered, returned>>
        /\ off'[Runner] = off[Runner] + 1
    BY <1>1, <1>5 DEF SaveWrite, SafeInv, WritesNew, queueVars, netVars
  <2>2. /\ WriteAt(files[n], off[Runner] + 1, m) = [i \in 1..(off[Runner] + 1) |-> m]
        /\ Len(files[n]) = off[Runner]
    <3> HIDE DEF m, n
    <3>1. /\ WriteAt([i \in 1..off[Runner] |-> m], off[Runner] + 1, m)
                = [i \in 1..(off[Runner] + 1) |-> m]
          /\ Len([i \in 1..off[Runner] |-> m]) = off[Runner]
      BY <1>1, WriteNext
    <3> QED BY <2>1, <3>1, Zenon
  <2>3. /\ DOMAIN files' = DOMAIN files
        /\ files'[n] = [i \in 1..(off[Runner] + 1) |-> m]
        /\ \A j \in DOMAIN files \ {n} : files'[j] = files[j]
    BY <1>5, <2>1, <2>2 DEF SaveWrite, TypeInv, TypeOK
  <2>4. \A x : OnDisk(x) => OnDisk(x)'
    <3> SUFFICES ASSUME NEW x, NEW j \in DOMAIN files, files[j] = Whole(x)
                 PROVE  OnDisk(x)'
      BY DEF OnDisk
    <3>1. Len(files[j]) = Chunks
      <4>1. Len(Whole(x)) = Chunks
        BY <1>1, WriteNext DEF Whole
      <4> QED BY <4>1
    <3>2. j # n
      BY <1>1, <2>1, <2>2, <3>1
    <3> QED BY <2>3, <3>2 DEF OnDisk
  <2>5. ReturnedSafe' /\ Kept
    BY <2>1, <2>4 DEF SafeInv, ReturnedSafe, Kept, Delivered
  <2>6. CASE off[Runner] + 1 = Chunks
    <3>1. pc'[Runner] = "put"
      BY <1>1, <1>5, <2>6 DEF SaveWrite, Goto
    <3>2. OnDisk(m)'
      BY <2>1, <2>3, <2>6 DEF OnDisk, Whole
    <3>3. WritesNew' /\ SendsAll'
      BY <2>1, <3>1, <3>2 DEF WritesNew, SendsAll
    <3> QED BY <2>5, <3>3 DEF SafeInv
  <2>7. CASE off[Runner] + 1 # Chunks
    <3>1. pc'[Runner] = "write" /\ fd' = fd
      BY <1>1, <1>5, <2>1, <2>7 DEF SaveWrite
    <3>2. off[Runner] + 1 < Chunks
      BY <1>1, <2>1, <2>7
    <3>3. WritesNew' /\ SendsAll'
      BY <2>1, <2>3, <3>1, <3>2 DEF WritesNew, SendsAll
    <3> QED BY <2>5, <3>3 DEF SafeInv
  <2> QED BY <2>6, <2>7
<1>6. CASE SavePut(Runner)
  <2>1. /\ pc'[Runner] \notin Busy /\ returned' = returned \cup {m}
        /\ files' = files /\ delivered' = delivered
    BY <1>1, <1>6 DEF SavePut, Saved, Goto, Busy, diskVars, netVars
  <2>2. OnDisk(m)
    BY <1>6 DEF SavePut, SafeInv, WritesNew
  <2>3. WritesNew' /\ SendsAll'
    BY <2>1 DEF WritesNew, SendsAll, Busy
  <2>4. ReturnedSafe' /\ Kept
    BY <2>1, <2>2 DEF SafeInv, ReturnedSafe, Kept, OnDisk, Delivered
  <2> QED BY <2>3, <2>4 DEF SafeInv
<1> QED BY <1>2, <1>3, <1>4, <1>5, <1>6 DEF SaveStep

(* run() sends its batch: a buffer goes back after its last unit. *)
LEMMA QueueSafe ==
  ASSUME TypeInv, SafeInv, Outside', QueueStep
  PROVE  SafeInv' /\ Kept
<1>1. /\ pc \in [Threads -> Labels] /\ Runner \in Threads
      /\ off \in [Threads -> Nat] /\ off[Runner] \in Nat /\ Chunks \in Nat \ {0}
      /\ batch \in [Threads -> Seq(1..accepted)]
  BY SenderAssumption DEF TypeInv, TypeOK, Threads
<1> DEFINE m == Head(batch[Runner])
<1>2. CASE PopAll \/ PopWait \/ PopTimeout \/ BatchConnectFails \/ BatchSendFails
  <2>1. pc'[Runner] \notin Busy
    BY <1>1, <1>2 DEF PopAll, PopWait, PopTimeout, BatchConnectFails, BatchSendFails,
                      PushFront, Goto, Busy
  <2>2. UNCHANGED <<files, delivered, returned>>
    BY <1>2 DEF PopAll, PopWait, PopTimeout, BatchConnectFails, BatchSendFails,
                PushFront, queueVars, diskVars, netVars
  <2> QED BY <2>1, <2>2, QuietStep
<1>3. CASE BatchConnect
  <2>1. /\ pc'[Runner] = "send" /\ off'[Runner] = 0
        /\ UNCHANGED <<files, delivered, returned, partial, batch>>
    BY <1>1, <1>3 DEF BatchConnect, Goto, queueVars, diskVars
  <2>2. Sending(m, 0)'
    <3>1. Sending(m, 0)
      BY SendsNothing
    <3> QED BY <2>1, <3>1 DEF Sending, Delivered
  <2>3. WritesNew' /\ SendsAll'
    BY <2>1, <2>2 DEF WritesNew, SendsAll
  <2>4. ReturnedSafe' /\ Kept
    BY <2>1 DEF SafeInv, ReturnedSafe, Kept, OnDisk, Delivered
  <2> QED BY <2>3, <2>4 DEF SafeInv
<1>4. CASE BatchTransmit
  <2>1. /\ pc[Runner] = "send" /\ off[Runner] < Chunks /\ Transmit(m)
        /\ pc' = pc /\ off'[Runner] = off[Runner] + 1
        /\ UNCHANGED <<files, returned, batch>>
    BY <1>1, <1>4 DEF BatchTransmit, queueVars, diskVars
  <2>2. PICK x \in 1..accepted, k \in Nat : x = m /\ k = off[Runner]
    <3>1. batch[Runner] # <<>> /\ batch[Runner] \in Seq(1..accepted)
      BY <1>1, <2>1 DEF TypeInv, ControlOK, Holding
    <3>2. m \in 1..accepted
      BY <3>1, TailType
    <3> QED BY <1>1, <3>2
  <2>3. Sending(x, k) /\ k < Chunks /\ Transmit(x)
    BY <2>1, <2>2 DEF SafeInv, SendsAll
  <2>4. Sending(x, k + 1)'
    BY <2>3, TransmitSends
  <2>5. WritesNew' /\ SendsAll'
    BY <2>1, <2>2, <2>4 DEF WritesNew, SendsAll
  <2>6. \A y : Delivered(y) => Delivered(y)'
    <3>1. x \in 0..accepted
      BY <2>2, Counts DEF TypeInv
    <3> QED BY <2>3, <3>1, TransmitKeeps
  <2>7. ReturnedSafe' /\ Kept
    BY <2>1, <2>6 DEF SafeInv, ReturnedSafe, Kept, OnDisk
  <2> QED BY <2>5, <2>7 DEF SafeInv
<1>5. CASE BatchPut
  <2>1. /\ pc[Runner] = "send" /\ off[Runner] = Chunks
        /\ pc'[Runner] \in {"send", "check"} /\ off'[Runner] = 0
        /\ returned' = returned \cup {m}
        /\ UNCHANGED <<files, delivered, partial>>
    BY <1>1, <1>5 DEF BatchPut, Goto, diskVars, netVars
  <2>2. Delivered(m)
    BY <1>1, <2>1 DEF SafeInv, SendsAll, Sending
  <2>3. \A x : Sending(x, 0)'
    <3>1. \A x : Sending(x, 0)
      BY SendsNothing
    <3> QED BY <2>1, <3>1 DEF Sending, Delivered
  <2>4. WritesNew' /\ SendsAll'
    BY <2>1, <2>3 DEF WritesNew, SendsAll
  <2>5. ReturnedSafe' /\ Kept
    BY <2>1, <2>2 DEF SafeInv, ReturnedSafe, Kept, OnDisk, Delivered
  <2> QED BY <2>4, <2>5 DEF SafeInv
<1> QED BY <1>2, <1>3, <1>4, <1>5 DEF QueueStep

(* A whole content has the units of a buffer. *)
LEMMA WholeUnits ==
  ASSUME NEW m
  PROVE  Len(Whole(m)) = Chunks /\ \A i \in 1..Chunks : Whole(m)[i] = m
<1>1. Chunks \in Nat
  BY SenderAssumption
<1> QED BY <1>1, WriteNext DEF Whole

(* run() sends files: a file is removed after its last unit was sent. *)
LEMMA FilesSafe ==
  ASSUME TypeInv, SafeInv, Outside', FilesStep, ~MapMayFail
  PROVE  SafeInv' /\ Kept
<1>1. /\ pc \in [Threads -> Labels] /\ Runner \in Threads
      /\ off \in [Threads -> Nat] /\ off[Runner] \in Nat /\ Chunks \in Nat \ {0}
  BY SenderAssumption DEF TypeInv, TypeOK, Threads
<1>2. CASE FilesConnect \/ FilesConnectFails \/ ScanEnd \/ FileSendFails
  <2>1. pc'[Runner] \notin Busy
    BY <1>1, <1>2 DEF FilesConnect, FilesConnectFails, ScanEnd, FileSendFails, Goto, Busy
  <2>2. UNCHANGED <<files, delivered, returned>>
    BY <1>2 DEF FilesConnect, FilesConnectFails, ScanEnd, FileSendFails,
                queueVars, diskVars, netVars
  <2> QED BY <2>1, <2>2, QuietStep
<1>3. CASE NextFile
  <2>1. /\ pc'[Runner] = "map" /\ fsize' = Len(files'[file'])
        /\ UNCHANGED <<files, delivered, returned>>
    BY <1>1, <1>3 DEF NextFile, Goto, queueVars, diskVars, netVars
  <2>2. WritesNew' /\ SendsAll'
    BY <2>1 DEF WritesNew, SendsAll
  <2>3. ReturnedSafe' /\ Kept
    BY <2>1 DEF SafeInv, ReturnedSafe, Kept, OnDisk, Delivered
  <2> QED BY <2>2, <2>3 DEF SafeInv
<1>4. CASE MapFile
  <2>1. /\ pc[Runner] = "map" /\ off'[Runner] = 0
        /\ UNCHANGED <<files, delivered, partial, returned, file, fsize, accepted>>
        /\ \/ pc'[Runner] = "sendfile"
           \/ pc'[Runner] = "unlink" /\ fsize = 0
    BY <1>1, <1>4 DEF MapFile, Goto, queueVars, diskVars, netVars, scanVars
  <2>2. fsize = Len(files[file])
    BY <2>1 DEF SafeInv, SendsAll
  <2>3. \A m : Sending(m, 0)'
    <3>1. \A m : Sending(m, 0)
      BY SendsNothing
    <3> QED BY <2>1, <3>1 DEF Sending, Delivered
  <2>4. fsize = 0 => \A m : files[file] # Whole(m)
    <3>1. \A m : Len(Whole(m)) # 0
      BY <1>1, WholeUnits
    <3> QED BY <2>2, <3>1
  <2>5. WritesNew' /\ SendsAll'
    BY <2>1, <2>2, <2>3, <2>4 DEF WritesNew, SendsAll
  <2>6. ReturnedSafe' /\ Kept
    BY <2>1 DEF SafeInv, ReturnedSafe, Kept, OnDisk, Delivered
  <2> QED BY <2>5, <2>6 DEF SafeInv
<1>5. CASE FileTransmit
  <2>1. /\ pc[Runner] = "sendfile" /\ file \in DOMAIN files /\ pc' = pc
        /\ off[Runner] < Len(files[file]) /\ fsize = Len(files[file])
        /\ Transmit(files[file][off[Runner] + 1])
        /\ off'[Runner] = off[Runner] + 1
        /\ UNCHANGED <<files, returned, file, fsize, accepted>>
    BY <1>1, <1>5 DEF FileTransmit, TypeInv, ControlOK, SafeInv, SendsAll,
                      queueVars, diskVars, scanVars
  <2>2. PICK unit \in 0..accepted, k \in Nat :
           unit = files[file][k + 1] /\ k = off[Runner]
    <3>1. files[file] \in Seq(0..accepted)
      BY <2>1 DEF TypeInv, TypeOK
    <3>2. off[Runner] + 1 \in 1..Len(files[file])
      BY <1>1, <2>1, <3>1, LenProperties
    <3> QED BY <1>1, <3>1, <3>2, ElementOfSeq
  <2>3. ASSUME NEW m \in 1..accepted, files[file] = Whole(m) PROVE Sending(m, k + 1)'
    <3>1. k < Chunks /\ unit = m
      <4>1. k < Chunks
        BY <2>1, <2>2, <2>3, WholeUnits
      <4>2. k + 1 \in 1..Chunks
        BY <1>1, <4>1
      <4> QED BY <2>2, <2>3, <4>1, <4>2, WholeUnits
    <3>2. Sending(m, k) /\ Transmit(m)
      BY <2>1, <2>2, <2>3, <3>1 DEF SafeInv, SendsAll
    <3> QED BY <3>1, <3>2, TransmitSends
  <2>4. WritesNew' /\ SendsAll'
    BY <2>1, <2>2, <2>3 DEF WritesNew, SendsAll
  <2>5. \A x : Delivered(x) => Delivered(x)'
    BY <2>1, <2>2, TransmitKeeps
  <2>6. ReturnedSafe' /\ Kept
    BY <2>1, <2>5 DEF SafeInv, ReturnedSafe, Kept, OnDisk
  <2> QED BY <2>4, <2>6 DEF SafeInv
<1>6. CASE FileSent
  <2>1. /\ pc[Runner] = "sendfile" /\ off[Runner] = fsize /\ pc'[Runner] = "unlink"
        /\ fsize = Len(files[file])
        /\ UNCHANGED <<files, delivered, returned, file, accepted>>
    BY <1>1, <1>6 DEF FileSent, Goto, SafeInv, SendsAll, queueVars, diskVars, netVars,
                      scanVars
  <2>2. ASSUME NEW m \in 1..accepted, files[file] = Whole(m) PROVE Delivered(m)
    <3>1. off[Runner] = Chunks
      BY <2>1, <2>2, WholeUnits
    <3>2. Sending(m, off[Runner])
      BY <2>1, <2>2 DEF SafeInv, SendsAll
    <3> QED BY <1>1, <3>1, <3>2 DEF Sending
  <2>3. WritesNew' /\ SendsAll'
    BY <2>1, <2>2 DEF WritesNew, SendsAll, Delivered
  <2>4. ReturnedSafe' /\ Kept
    BY <2>1 DEF SafeInv, ReturnedSafe, Kept, OnDisk, Delivered
  <2> QED BY <2>3, <2>4 DEF SafeInv
<1>7. CASE UnlinkFile
  <2>1. /\ pc[Runner] = "unlink" /\ pc'[Runner] = "scan"
        /\ files' = [n \in DOMAIN files \ {file} |-> files[n]]
        /\ UNCHANGED <<delivered, returned, accepted>>
    BY <1>1, <1>7 DEF UnlinkFile, Goto, queueVars, netVars
  <2>2. ASSUME NEW m \in 1..accepted, OnDisk(m) PROVE OnDisk(m)' \/ Delivered(m)'
    <3>1. PICK n \in DOMAIN files : files[n] = Whole(m)
      BY <2>2 DEF OnDisk
    <3>2. CASE n = file
      BY <2>1, <3>1, <3>2 DEF SafeInv, SendsAll, Delivered
    <3>3. CASE n # file
      <4>1. n \in DOMAIN files' /\ files'[n] = Whole(m)
        BY <2>1, <3>1, <3>3
      <4> QED BY <4>1 DEF OnDisk
    <3> QED BY <3>2, <3>3
  <2>3. WritesNew' /\ SendsAll'
    BY <2>1 DEF WritesNew, SendsAll
  <2>4. Kept
    BY <2>2 DEF Kept
  <2>5. ReturnedSafe'
    <3>1. returned \subseteq 1..accepted
      BY DEF TypeInv, TypeOK
    <3>2. \A m : Delivered(m) => Delivered(m)'
      BY <2>1 DEF Delivered
    <3> QED BY <2>1, <2>2, <3>1, <3>2 DEF SafeInv, ReturnedSafe
  <2> QED BY <2>3, <2>4, <2>5 DEF SafeInv
<1> QED BY <1>2, <1>3, <1>4, <1>5, <1>6, <1>7 DEF FilesStep

LEMMA SafeStep ==
  ASSUME TypeInv, SafeInv, [Next]_vars, NoSpill', ~MapMayFail
  PROVE  SafeInv' /\ Kept
<1>1. Outside' /\ Outside
  BY OutsideStep DEF SafeInv
<1>2. CASE Start \/ Stop \/ Join \/ Crash
  BY <1>1, <1>2, OwnerSafe
<1>3. ASSUME NEW p \in Producers, NEW k \in 1..MaxRange, Send(p, k)
      PROVE  SafeInv' /\ Kept
  BY <1>1, <1>3, SendSafe
<1>4. ASSUME NEW p \in Producers, ProducerStep(p)
      PROVE  FALSE
  BY <1>1, <1>4 DEF ProducerStep, RequestFiles, SaveStep, SavePop, SaveStat, SaveOpen,
                    SaveWrite, SavePut, Outside
<1>5. CASE RunnerStep
  BY <1>1, <1>5, LoopSafe, QueueSafe, FilesSafe, SaveSafe DEF RunnerStep
<1>6. CASE UNCHANGED vars
  <2>1. /\ UNCHANGED <<pc, accepted, batch, files, fd, off, delivered, partial>>
        /\ UNCHANGED <<returned, file, fsize>>
    BY <1>6 DEF vars, queueVars, diskVars, netVars, scanVars
  <2>2. accepted' \in Nat /\ accepted' >= accepted
    BY <2>1, Counts DEF TypeInv
  <2> QED BY <1>1, <2>1, <2>2, ElsewhereStep
<1> QED BY <1>2, <1>3, <1>4, <1>5, <1>6 DEF Next

LEMMA SafeInit == Init => SafeInv
<1> SUFFICES ASSUME Init PROVE SafeInv
  OBVIOUS
<1>1. pc[Runner] = "none" /\ returned = {}
  BY DEF Init, Threads
<1>2. Outside
  BY SenderAssumption DEF Init, Outside, Threads
<1> QED BY <1>1, <1>2 DEF SafeInv, WritesNew, SendsAll, ReturnedSafe

(* No accepted buffer is lost but by the death of the process that has it  *)
(* in memory: whatever connections fail, and however often the sender is   *)
(* stopped, restarted or killed, provided that nobody spills and that      *)
(* files can be mapped.                                                    *)
THEOREM LosesNothing ==
  ASSUME ~MapMayFail
  PROVE  Spec /\ []NoSpill => []NoMessageLost
<1>1. TypeInv /\ SafeInv /\ [Next]_vars /\ NoSpill' => SafeInv'
  BY SafeStep
<1>2. OneOwner /\ SafeInv => NoMessageLost
  BY DEF OneOwner, SafeInv, ReturnedSafe, NoMessageLost
<1> QED BY <1>1, <1>2, SafeInit, TypeInvariant, OneOwnerInvariant, PTL DEF Spec

(* What is intact on disk stays there until it is handed over, under the   *)
(* same conditions.                                                        *)
THEOREM KeepsFiles ==
  ASSUME ~MapMayFail
  PROVE  Spec /\ []NoSpill => DurableUntilDelivered
<1>1. TypeInv /\ SafeInv /\ [Next]_vars /\ NoSpill' => SafeInv'
  BY SafeStep
<1>2. TypeInv /\ SafeInv /\ [Next]_vars /\ NoSpill' =>
        [\A m \in 1..accepted : OnDisk(m) => OnDisk(m)' \/ Delivered(m)']_vars
  BY SafeStep DEF Kept
<1> QED BY <1>1, <1>2, SafeInit, TypeInvariant, PTL DEF Spec, DurableUntilDelivered

-----------------------------------------------------------------------------
(* What run() leaves in memory when it ends.                               *)

(* With one producer, nobody sends any more when run() saves the queue:    *)
(* its owner waits for it in stop().                                       *)
Saving == {"stat", "open", "write", "put", "done"}

ExitInv ==
  /\ ~running /\ pc[Runner] # "none" => pc[Owner] = "joining"
  /\ pc[Runner] \in Saving \cup {"save"} => ~running
  /\ pc[Runner] \in Saving => queue = <<>>

LEMMA ExitStep ==
  ASSUME Producers = {Owner}, TypeInv, ExitInv, [Next]_vars
  PROVE  ExitInv'
<1> USE SenderAssumption DEF ExitInv, Goto, Saving
<1>1. pc \in [Threads -> Labels] /\ Runner \in Threads /\ Owner \in Threads
      /\ Owner # Runner
  BY DEF TypeInv, TypeOK, Threads
<1>2. CASE Start \/ Stop \/ Join \/ Crash
  BY <1>1, <1>2 DEF Start, Stop, Join, Crash, queueVars, ctlVars
<1>3. ASSUME NEW k \in 1..MaxRange, Send(Owner, k) PROVE ExitInv'
  BY <1>1, <1>3 DEF Send, ctlVars
<1>4. CASE ProducerStep(Owner)
  <2>1. /\ running' = running /\ pc'[Runner] = pc[Runner] /\ pc[Owner] # "joining"
        /\ queue' = queue \/ queue' = <<>>
    BY <1>1, <1>4
    DEF ProducerStep, RequestFiles, SaveStep, SavePop, SaveStat, SaveOpen, SaveWrite,
        SavePut, queueVars, ctlVars
  <2> QED BY <2>1
<1>5. CASE SaveStep(Runner)
  <2>1. /\ running' = running /\ pc'[Owner] = pc[Owner] /\ pc[Runner] # "none"
        /\ pc[Runner] \in Saving \cup {"save"} /\ pc'[Runner] \in Saving
        /\ queue' = <<>>
    BY <1>1, <1>5
    DEF SaveStep, SavePop, SaveStat, SaveOpen, SaveWrite, SavePut, Saved,
        queueVars, ctlVars
  <2> QED BY <2>1
<1>6. CASE LoopStep \/ QueueStep \/ FilesStep
  <2>1. /\ running' = running /\ pc'[Owner] = pc[Owner] /\ pc[Runner] # "none"
        /\ pc'[Runner] \notin Saving
        /\ pc'[Runner] = "save" => ~running
    <3>1. CASE LoopStep
      BY <1>1, <3>1 DEF LoopStep, TooSoon, Reconnect, ReconnectFails, Dispatch, Check,
                        ctlVars
    <3>2. CASE QueueStep
      BY <1>1, <3>2
      DEF QueueStep, PopAll, PopWait, PopTimeout, BatchConnect, BatchConnectFails,
          BatchTransmit, BatchSendFails, BatchPut, PushFront, ctlVars
    <3>3. CASE FilesStep
      BY <1>1, <3>3
      DEF FilesStep, FilesConnect, FilesConnectFails, NextFile, ScanEnd, MapFile,
          FileTransmit, FileSendFails, FileSent, UnlinkFile, ctlVars
    <3> QED BY <1>6, <3>1, <3>2, <3>3
  <2> QED BY <2>1
<1>7. CASE UNCHANGED vars
  BY <1>7 DEF vars, queueVars, ctlVars
<1> QED BY <1>2, <1>3, <1>4, <1>5, <1>6, <1>7 DEF Next, RunnerStep

(* When the thread of a sender with one producer has ended, every buffer   *)
(* it was given is out of memory, whatever failed and whoever spilled.     *)
(* With more producers this is not so: send() does not look whether the    *)
(* thread still runs.                                                      *)
THEOREM SavesQueueAtExit ==
  ASSUME Producers = {Owner}
  PROVE  Spec => []QueueSavedAtExit
<1>1. Init => ExitInv
  BY SenderAssumption DEF Init, ExitInv, Threads, Saving
<1>2. TypeInv /\ ExitInv /\ [Next]_vars => ExitInv'
  BY ExitStep
<1>3. TypeInv /\ ExitInv => QueueSavedAtExit
  <2> SUFFICES ASSUME TypeInv, ExitInv, pc[Runner] = "done"
               PROVE  \A m \in 1..accepted : ~InMemory(m)
    BY DEF QueueSavedAtExit
  <2>1. queue = <<>> /\ pc[Owner] = "joining"
    <3>1. ~running
      BY DEF ExitInv, Saving
    <3> QED BY <3>1 DEF ExitInv, Saving
  <2>2. \A t \in Threads : pc[t] \notin Holding
    BY <2>1 DEF Threads, Holding
  <2>3. \A t \in Threads : batch[t] = <<>>
    BY <2>2 DEF TypeInv, ControlOK
  <2> QED BY <2>1, <2>3, ToSetEmpty DEF InMemory, InQueue, InBatch
<1> QED BY <1>1, <1>2, <1>3, TypeInvariant, PTL DEF Spec
=============================================================================
