------------------------------- MODULE Sender -------------------------------
(***************************************************************************)
(* net::sender (net/sender.h, net/sender.cpp): producers hand buffers to   *)
(* send(); one thread, run(), sends them to a peer.  Buffers that cannot   *)
(* be sent are spilled to files of a directory, by the producer that finds *)
(* the queue too long and by run() when it ends, and are sent from there.  *)
(*                                                                         *)
(* Granularity.  Everything between a lock and its unlock of the queue is  *)
(* one action; every system call on the directory and on the connection    *)
(* is one action.  A buffer is named by its position in the order of       *)
(* acceptance, and its content is Chunks units, each written to a file or  *)
(* accepted by the connection as a whole.  The queue is the sequence that  *)
(* module Buffers implements with linked buffers.                          *)
(*                                                                         *)
(* Abstractions.  The clock: a test of an elapsed time against             *)
(* reconnection_time or idle_timeout may come out either way.  Plain and   *)
(* TLS connections behave alike at this level.  In Spec saves succeed; in  *)
(* SpecSaveFails the save at the end of run() may fail, and then it does   *)
(* for ever.  What a failure that ends, or one of a producer, does to the  *)
(* linked buffers is in module Buffers.                                    *)
(***************************************************************************)
EXTENDS Integers, Sequences, SequencesExt

CONSTANTS
  Producers,        \* threads that call send()
  Owner,            \* the producer that also calls start() and stop()
  Runner,           \* the thread that start() creates, executing run()
  MaxQueued,        \* max_queued_buffers
  Chunks,           \* units in the content of a buffer
  PeerReachable,    \* can a connection be established at all?
  MapMayFail,       \* can open() or mmap() of a file to be sent fail?
  MaxMessages,      \* bound: buffers accepted
  MaxRange,         \* bound: buffers in one call of send()
  MaxFaults,        \* bound: failures of the connection, or Unlimited
  MaxStarts,        \* bound: calls of start()
  MaxStops,         \* bound: calls of stop()
  MaxCrashes        \* bound: deaths of the process

Unlimited == -1

ASSUME SenderAssumption ==
  /\ Owner \in Producers
  /\ Runner \notin Producers
  /\ MaxQueued \in Nat /\ Chunks \in Nat \ {0}
  /\ PeerReachable \in BOOLEAN /\ MapMayFail \in BOOLEAN
  /\ MaxMessages \in Nat /\ MaxRange \in Nat
  /\ MaxFaults \in Nat \cup {Unlimited}
  /\ MaxStarts \in Nat /\ MaxStops \in Nat /\ MaxCrashes \in Nat
  /\ PeerReachable \/ MaxFaults = Unlimited

Threads == Producers \cup {Runner}

VARIABLES
  queue,        \* _M_buffers, as the sequence of the buffers it links
  batch,        \* batch[t]: the buffers from first to last that t has popped
  accepted,     \* number of buffers pushed by send()
  returned,     \* buffers given back to the allocator
  lost,         \* buffers in memory when the process died
  files,        \* the regular files of the directory: name -> content
  fd,           \* fd[t]: name of the file t writes; Unlinked, or None
  cnt,          \* cnt[t]: 'count' of save_buffers(), the next name to try
  off,          \* off[t]: units of the current file or buffer already done
  state,        \* _M_state
  running,      \* _M_running
  errorSending, \* error_sending of run()
  pc,           \* pc[t]: where thread t is
  connected,    \* the socket has a descriptor
  partial,      \* units of an incomplete buffer at the end of the stream
  delivered,    \* buffers handed over whole to a connection, in order
  file,         \* name of the file send_files() handles
  fsize,        \* its size when stat() was called
  pending,      \* names present at opendir() that readdir() still owes
  budget        \* calls and failures that have happened, for the bounds

queueVars == <<queue, batch, accepted, returned, lost>>
diskVars  == <<files, fd, cnt>>
netVars   == <<connected, partial, delivered>>
scanVars  == <<file, fsize, pending>>
ctlVars   == <<state, running, errorSending>>
vars == <<queueVars, diskVars, off, ctlVars, pc, netVars, scanVars, budget>>

None     == -1   \* no file
Unlinked == -2   \* an open file whose name has been removed
Hole     == 0    \* a unit of a file that was never written

(* What the bounds limit. *)
Kinds == {"faults", "starts", "stops", "crashes"}

(* The content of buffer m. *)
Whole(m) == [i \in 1..Chunks |-> m]

(* One more of what the bounds limit. *)
Spend(kind, limit) == /\ budget[kind] < limit
                      /\ budget' = [budget EXCEPT ![kind] = @ + 1]

(* A failure that the environment injects; it consumes the budget. *)
Fault == IF MaxFaults = Unlimited
         THEN UNCHANGED budget
         ELSE Spend("faults", MaxFaults)

Goto(t, label) == pc' = [pc EXCEPT ![t] = label]

Init ==
  /\ queue = <<>> /\ batch = [t \in Threads |-> <<>>]
  /\ accepted = 0 /\ returned = {} /\ lost = {}
  /\ files = [n \in {} |-> <<>>]
  /\ fd = [t \in Threads |-> None]
  /\ cnt = [t \in Threads |-> 0] /\ off = [t \in Threads |-> 0]
  /\ state = "sending_files" /\ running = FALSE /\ errorSending = FALSE
  /\ pc = [t \in Threads |-> IF t = Runner THEN "none" ELSE "idle"]
  /\ connected = FALSE /\ partial = <<>> /\ delivered = <<>>
  /\ file = None /\ fsize = 0 /\ pending = {}
  /\ budget = [kind \in Kinds |-> 0]

-----------------------------------------------------------------------------
(* The owner: start() and stop().                                          *)

(* start() of a sender that is not running creates the thread.  Its other  *)
(* outcomes (bad address, no such directory) change nothing.  The state    *)
(* and the connection keep the values an earlier run() left.               *)
Start ==
  /\ pc[Owner] = "idle" /\ ~running /\ pc[Runner] = "none"
  /\ Spend("starts", MaxStarts)
  /\ running' = TRUE /\ errorSending' = FALSE
  /\ Goto(Runner, "loop")
  /\ UNCHANGED <<queueVars, diskVars, off, state, netVars, scanVars>>

(* stop() clears the flag and waits for the thread. *)
Stop ==
  /\ pc[Owner] = "idle" /\ running
  /\ Spend("stops", MaxStops)
  /\ running' = FALSE
  /\ Goto(Owner, "joining")
  /\ UNCHANGED <<queueVars, diskVars, off, state, errorSending, netVars,
                 scanVars>>

Join ==
  /\ pc[Owner] = "joining" /\ pc[Runner] = "done"
  /\ pc' = [pc EXCEPT ![Owner] = "idle", ![Runner] = "none"]
  /\ UNCHANGED <<queueVars, diskVars, off, ctlVars, netVars, scanVars, budget>>

-----------------------------------------------------------------------------
(* The producers: send().                                                  *)

(* push_back of one buffer or of a chain, and the test of the count it     *)
(* returned.                                                               *)
Send(p, k) ==
  /\ pc[p] = "idle"
  /\ accepted + k <= MaxMessages
  /\ queue' = queue \o [i \in 1..k |-> accepted + i]
  /\ accepted' = accepted + k
  /\ Goto(p, IF Len(queue') > MaxQueued THEN "save" ELSE "idle")
  /\ UNCHANGED <<batch, returned, lost, diskVars, off, ctlVars, netVars,
                 scanVars, budget>>

(* After save_buffers(): there are files to be sent. *)
RequestFiles(p) ==
  /\ pc[p] = "saved"
  /\ state' = "sending_files"
  /\ Goto(p, "idle")
  /\ UNCHANGED <<queueVars, diskVars, off, running, errorSending, netVars,
                 scanVars, budget>>

-----------------------------------------------------------------------------
(* save_buffers() and save_buffer(), by a producer or by run() at its end. *)

(* Where a thread goes when save_buffers() returns. *)
Saved(t) == IF t = Runner THEN "done" ELSE "saved"

(* Mutant of SavePop: the list is not emptied. *)
SavePopKeepsQueue(t) ==
  /\ pc[t] = "save"
  /\ batch' = [batch EXCEPT ![t] = queue]
  /\ cnt' = [cnt EXCEPT ![t] = 0]
  /\ Goto(t, IF queue = <<>> THEN Saved(t) ELSE "stat")
  /\ UNCHANGED <<queue, accepted, returned, lost, files, fd, off, ctlVars,
                 netVars, scanVars, budget>>

(* pop() of all the queued buffers. *)
SavePop(t) ==
  /\ pc[t] = "save"
  /\ batch' = [batch EXCEPT ![t] = queue]
  /\ queue' = <<>>
  /\ cnt' = [cnt EXCEPT ![t] = 0]
  /\ Goto(t, IF queue = <<>> THEN Saved(t) ELSE "stat")
  /\ UNCHANGED <<accepted, returned, lost, files, fd, off, ctlVars, netVars,
                 scanVars, budget>>

(* Mutant of SaveStat: the counter runs downwards. *)
SaveStatDown(t) ==
  /\ pc[t] = "stat"
  /\ cnt' = [cnt EXCEPT ![t] = @ - 1]
  /\ IF cnt[t] \in DOMAIN files
     THEN UNCHANGED <<fd, pc>>
     ELSE /\ fd' = [fd EXCEPT ![t] = cnt[t]]
          /\ Goto(t, "open")
  /\ UNCHANGED <<queueVars, files, off, ctlVars, netVars, scanVars, budget>>

(* One stat() of the search for a name that is not in use. *)
SaveStat(t) ==
  /\ pc[t] = "stat"
  /\ cnt' = [cnt EXCEPT ![t] = @ + 1]
  /\ IF cnt[t] \in DOMAIN files
     THEN UNCHANGED <<fd, pc>>
     ELSE /\ fd' = [fd EXCEPT ![t] = cnt[t]]
          /\ Goto(t, "open")
  /\ UNCHANGED <<queueVars, files, off, ctlVars, netVars, scanVars, budget>>

(* open() with O_CREAT and O_TRUNC: an existing file becomes empty. *)
SaveOpen(t) ==
  /\ pc[t] = "open"
  /\ files' = [n \in DOMAIN files \cup {fd[t]} |->
                 IF n = fd[t] THEN <<>> ELSE files[n]]
  /\ off' = [off EXCEPT ![t] = 0]
  /\ Goto(t, "write")
  /\ UNCHANGED <<queueVars, fd, cnt, ctlVars, netVars, scanVars, budget>>

(* The content c after unit v was written at position i. *)
WriteAt(c, i, v) ==
  [j \in 1..(IF i > Len(c) THEN i ELSE Len(c)) |->
     IF j = i THEN v ELSE IF j <= Len(c) THEN c[j] ELSE Hole]

(* One write(); after the last one the file is closed.  A file that was    *)
(* removed meanwhile takes the data with it.                               *)
SaveWrite(t) ==
  /\ pc[t] = "write"
  /\ off' = [off EXCEPT ![t] = @ + 1]
  /\ IF fd[t] \in DOMAIN files
     THEN files' = [files EXCEPT ![fd[t]] =
                      WriteAt(@, off[t] + 1, Head(batch[t]))]
     ELSE UNCHANGED files
  /\ IF off[t] + 1 = Chunks
     THEN fd' = [fd EXCEPT ![t] = None] /\ Goto(t, "put")
     ELSE UNCHANGED <<fd, pc>>
  /\ UNCHANGED <<queueVars, cnt, ctlVars, netVars, scanVars, budget>>

(* The saved buffer goes back to the allocator. *)
SavePut(t) ==
  /\ pc[t] = "put"
  /\ returned' = returned \cup {Head(batch[t])}
  /\ batch' = [batch EXCEPT ![t] = Tail(@)]
  /\ Goto(t, IF Len(batch[t]) > 1 THEN "stat" ELSE Saved(t))
  /\ UNCHANGED <<queue, accepted, lost, diskVars, off, ctlVars, netVars,
                 scanVars, budget>>

(* A buffer cannot be saved at the end of run(), and cannot for ever: the  *)
(* file is not created, or it is removed when a write() fails.  The buffer *)
(* goes back to the allocator, and save_buffers(), which does not advance, *)
(* tries the same one again: every round is like this one.                 *)
SaveFails ==
  /\ pc[Runner] \in {"open", "write"}
  /\ returned' = returned \cup {Head(batch[Runner])}
  /\ Goto(Runner, "failing")
  /\ IF pc[Runner] = "write"
     THEN /\ files' = [n \in DOMAIN files \ {fd[Runner]} |-> files[n]]
          /\ fd' = [t \in Threads |->
                      IF t = Runner THEN None
                      ELSE IF fd[t] = fd[Runner] /\ pc[t] = "write" THEN Unlinked
                      ELSE fd[t]]
     ELSE files' = files /\ fd' = [fd EXCEPT ![Runner] = None]
  /\ UNCHANGED <<queue, batch, accepted, lost, cnt, off, ctlVars, netVars,
                 scanVars, budget>>

SaveStep(t) == \/ SavePop(t) \/ SaveStat(t) \/ SaveOpen(t)
               \/ SaveWrite(t) \/ SavePut(t)

-----------------------------------------------------------------------------
(* The connection.                                                         *)

(* connect() succeeds at once when there is already a connection. *)
Connect == /\ connected \/ PeerReachable
           /\ connected' = TRUE

(* connect() fails. *)
ConnectFails == ~connected /\ Fault

(* The connection accepts one more unit of what is being sent.  When its   *)
(* last Chunks units are a whole content, that buffer is handed over.      *)
Transmit(unit) ==
  LET stream == Append(partial, unit)
      before == Len(stream) - Chunks
  IN IF unit # Hole /\ before >= 0
        /\ SubSeq(stream, before + 1, Len(stream)) = Whole(unit)
     THEN /\ delivered' = Append(delivered, unit)
          /\ partial' = SubSeq(stream, 1, before)
     ELSE /\ partial' = stream
          /\ UNCHANGED delivered

(* Mutant of Disconnect: the connection stays as it is. *)
DisconnectForgotten == UNCHANGED <<connected, partial>>

(* send() gives up: the connection is closed. *)
Disconnect == connected' = FALSE /\ partial' = <<>>

-----------------------------------------------------------------------------
(* run(): the loop.                                                        *)

(* After an error: not yet time for a new attempt. *)
TooSoon ==
  /\ pc[Runner] = "loop" /\ errorSending
  /\ Goto(Runner, "check")
  /\ UNCHANGED <<queueVars, diskVars, off, ctlVars, netVars, scanVars, budget>>

(* After an error: an attempt to connect that succeeds. *)
Reconnect ==
  /\ pc[Runner] = "loop" /\ errorSending
  /\ Connect
  /\ errorSending' = FALSE
  /\ Goto(Runner, "dispatch")
  /\ UNCHANGED <<queueVars, diskVars, off, state, running, partial, delivered,
                 scanVars, budget>>

(* After an error: an attempt to connect that fails. *)
ReconnectFails ==
  /\ pc[Runner] = "loop" /\ errorSending
  /\ ConnectFails
  /\ Goto(Runner, "check")
  /\ UNCHANGED <<queueVars, diskVars, off, ctlVars, netVars, scanVars>>

(* The test of _M_state. *)
Dispatch ==
  /\ \/ pc[Runner] = "dispatch"
     \/ pc[Runner] = "loop" /\ ~errorSending
  /\ Goto(Runner, IF state = "sending_queued_buffers" THEN "pop" ELSE "files")
  /\ UNCHANGED <<queueVars, diskVars, off, ctlVars, netVars, scanVars, budget>>

(* Mutant of Check: the loop goes on until the queue is empty. *)
CheckDrains ==
  /\ pc[Runner] = "check"
  /\ Goto(Runner, IF running \/ queue # <<>> THEN "loop" ELSE "save")
  /\ UNCHANGED <<queueVars, diskVars, off, ctlVars, netVars, scanVars, budget>>

(* Mutant of Check: nothing is saved at the end. *)
CheckForgetsSave ==
  /\ pc[Runner] = "check"
  /\ Goto(Runner, IF running THEN "loop" ELSE "done")
  /\ UNCHANGED <<queueVars, diskVars, off, ctlVars, netVars, scanVars, budget>>

(* The condition of the loop. *)
Check ==
  /\ pc[Runner] = "check"
  /\ Goto(Runner, IF running THEN "loop" ELSE "save")
  /\ UNCHANGED <<queueVars, diskVars, off, ctlVars, netVars, scanVars, budget>>

-----------------------------------------------------------------------------
(* run(): sending queued buffers.                                          *)

(* The timed pop() finds buffers, at once or after having waited. *)
PopAll ==
  /\ pc[Runner] \in {"pop", "wait"}
  /\ queue # <<>>
  /\ batch' = [batch EXCEPT ![Runner] = queue]
  /\ queue' = <<>>
  /\ Goto(Runner, "connect")
  /\ UNCHANGED <<accepted, returned, lost, diskVars, off, ctlVars, netVars,
                 scanVars, budget>>

(* The timed pop() finds no buffers and waits. *)
PopWait ==
  /\ pc[Runner] = "pop" /\ queue = <<>>
  /\ Goto(Runner, "wait")
  /\ UNCHANGED <<queueVars, diskVars, off, ctlVars, netVars, scanVars, budget>>

(* The wait times out, which is not followed by another look at the queue; *)
(* a connection that has been idle for long is closed.                     *)
PopTimeout ==
  /\ pc[Runner] = "wait"
  /\ \/ UNCHANGED netVars
     \/ connected /\ Disconnect /\ UNCHANGED delivered
  /\ Goto(Runner, "check")
  /\ UNCHANGED <<queueVars, diskVars, off, ctlVars, scanVars, budget>>

(* Mutant of PushFront: the batch goes behind what was accepted meanwhile. *)
PushedToBack ==
  /\ queue' = queue \o batch[Runner]
  /\ batch' = [batch EXCEPT ![Runner] = <<>>]
  /\ errorSending' = TRUE
  /\ Goto(Runner, "check")
  /\ UNCHANGED <<accepted, returned, lost, state, running>>

(* Mutant of PushFront: the batch is dropped. *)
PushFrontForgotten ==
  /\ batch' = [batch EXCEPT ![Runner] = <<>>]
  /\ errorSending' = TRUE
  /\ Goto(Runner, "check")
  /\ UNCHANGED <<queue, accepted, returned, lost, state, running>>

(* push_front() of what could not be sent. *)
PushFront ==
  /\ queue' = batch[Runner] \o queue
  /\ batch' = [batch EXCEPT ![Runner] = <<>>]
  /\ errorSending' = TRUE
  /\ Goto(Runner, "check")
  /\ UNCHANGED <<accepted, returned, lost, state, running>>

BatchConnect ==
  /\ pc[Runner] = "connect"
  /\ Connect
  /\ off' = [off EXCEPT ![Runner] = 0]
  /\ Goto(Runner, "send")
  /\ UNCHANGED <<queueVars, diskVars, ctlVars, partial, delivered, scanVars,
                 budget>>

BatchConnectFails ==
  /\ pc[Runner] = "connect"
  /\ ConnectFails
  /\ PushFront
  /\ UNCHANGED <<diskVars, off, netVars, scanVars>>

(* The connection accepts a unit of the first buffer of the batch. *)
BatchTransmit ==
  /\ pc[Runner] = "send" /\ off[Runner] < Chunks
  /\ Transmit(Head(batch[Runner]))
  /\ off' = [off EXCEPT ![Runner] = @ + 1]
  /\ UNCHANGED <<queueVars, diskVars, ctlVars, pc, connected, scanVars, budget>>

(* The peer has closed the connection, or it accepts no more. *)
BatchSendFails ==
  /\ pc[Runner] = "send" /\ off[Runner] < Chunks
  /\ Fault
  /\ Disconnect
  /\ PushFront
  /\ UNCHANGED <<diskVars, off, delivered, scanVars>>

(* The buffer is sent: it goes back to the allocator. *)
BatchPut ==
  /\ pc[Runner] = "send" /\ off[Runner] = Chunks
  /\ returned' = returned \cup {Head(batch[Runner])}
  /\ batch' = [batch EXCEPT ![Runner] = Tail(@)]
  /\ off' = [off EXCEPT ![Runner] = 0]
  /\ Goto(Runner, IF Len(batch[Runner]) > 1 THEN "send" ELSE "check")
  /\ UNCHANGED <<queue, accepted, lost, diskVars, ctlVars, netVars, scanVars,
                 budget>>

-----------------------------------------------------------------------------
(* run(): send_files() and send_file().                                    *)

FilesConnect ==
  /\ pc[Runner] = "files"
  /\ Connect
  /\ pending' = DOMAIN files
  /\ Goto(Runner, "scan")
  /\ UNCHANGED <<queueVars, diskVars, off, ctlVars, partial, delivered, file,
                 fsize, budget>>

(* connect() fails, or opendir() does. *)
FilesConnectFails ==
  /\ pc[Runner] = "files"
  /\ \/ ConnectFails /\ UNCHANGED connected
     \/ Connect /\ Fault
  /\ errorSending' = TRUE
  /\ Goto(Runner, "check")
  /\ UNCHANGED <<queueVars, diskVars, off, state, running, partial, delivered,
                 scanVars>>

(* readdir() and stat().  Files created since opendir() may or may not be  *)
(* returned.                                                               *)
NextFile ==
  /\ pc[Runner] = "scan"
  /\ \E n \in DOMAIN files :
       /\ file' = n
       /\ fsize' = Len(files[n])
       /\ pending' = pending \ {n}
  /\ Goto(Runner, "map")
  /\ UNCHANGED <<queueVars, diskVars, off, ctlVars, netVars, budget>>

(* Mutant of ScanEnd: the state stays, the queue is never looked at. *)
ScanEndKeepsState ==
  /\ pc[Runner] = "scan" /\ pending = {}
  /\ errorSending' = FALSE
  /\ Goto(Runner, "check")
  /\ UNCHANGED <<queueVars, diskVars, off, state, running, netVars, scanVars,
                 budget>>

(* Mutant of ScanEnd: the loop ends while entries are left. *)
ScanEndEarly ==
  /\ pc[Runner] = "scan"
  /\ state' = "sending_queued_buffers"
  /\ errorSending' = FALSE
  /\ Goto(Runner, "check")
  /\ UNCHANGED <<queueVars, diskVars, off, running, netVars, scanVars, budget>>

(* readdir() has no more entries. *)
ScanEnd ==
  /\ pc[Runner] = "scan" /\ pending = {}
  /\ state' = "sending_queued_buffers"
  /\ errorSending' = FALSE
  /\ Goto(Runner, "check")
  /\ UNCHANGED <<queueVars, diskVars, off, running, netVars, scanVars, budget>>

(* open() and mmap() of the file.  A file that cannot be mapped, which is  *)
(* the case of an empty one, counts as sent.                               *)
MapFile ==
  /\ pc[Runner] = "map"
  /\ off' = [off EXCEPT ![Runner] = 0]
  /\ \/ fsize > 0 /\ Goto(Runner, "sendfile")
     \/ fsize = 0 /\ Goto(Runner, "unlink")
     \/ MapMayFail /\ Goto(Runner, "unlink")
  /\ UNCHANGED <<queueVars, diskVars, ctlVars, netVars, scanVars, budget>>

(* The connection accepts a unit of the mapped file. *)
FileTransmit ==
  /\ pc[Runner] = "sendfile"
  /\ off[Runner] < fsize /\ off[Runner] < Len(files[file])
  /\ Transmit(files[file][off[Runner] + 1])
  /\ off' = [off EXCEPT ![Runner] = @ + 1]
  /\ UNCHANGED <<queueVars, diskVars, ctlVars, pc, connected, scanVars, budget>>

(* Mutant of FileSendFails: the file is removed all the same. *)
FileSendFailureIgnored ==
  /\ pc[Runner] = "sendfile"
  /\ off[Runner] < fsize
  /\ \/ Fault
     \/ off[Runner] >= Len(files[file]) /\ UNCHANGED budget
  /\ Disconnect
  /\ Goto(Runner, "unlink")
  /\ UNCHANGED <<queueVars, diskVars, off, ctlVars, delivered, scanVars>>

(* The peer has closed the connection, or it accepts no more, or the file  *)
(* has become shorter than its mapping (EFAULT).                           *)
FileSendFails ==
  /\ pc[Runner] = "sendfile"
  /\ off[Runner] < fsize
  /\ \/ Fault
     \/ off[Runner] >= Len(files[file]) /\ UNCHANGED budget
  /\ Disconnect
  /\ errorSending' = TRUE
  /\ Goto(Runner, "check")
  /\ UNCHANGED <<queueVars, diskVars, off, state, running, delivered, scanVars>>

FileSent ==
  /\ pc[Runner] = "sendfile" /\ off[Runner] = fsize
  /\ Goto(Runner, "unlink")
  /\ UNCHANGED <<queueVars, diskVars, off, ctlVars, netVars, scanVars, budget>>

(* Mutant of UnlinkFile: the file that was sent stays. *)
UnlinkForgotten ==
  /\ pc[Runner] = "unlink"
  /\ Goto(Runner, "scan")
  /\ UNCHANGED <<queueVars, diskVars, off, ctlVars, netVars, scanVars, budget>>

(* unlink(): a thread that still writes the file goes on without a name. *)
UnlinkFile ==
  /\ pc[Runner] = "unlink"
  /\ files' = [n \in DOMAIN files \ {file} |-> files[n]]
  /\ fd' = [t \in Threads |->
              IF fd[t] = file /\ pc[t] = "write" THEN Unlinked ELSE fd[t]]
  /\ Goto(Runner, "scan")
  /\ UNCHANGED <<queueVars, cnt, off, ctlVars, netVars, scanVars, budget>>

-----------------------------------------------------------------------------
(* The process dies and a new one creates the sender anew: what was in     *)
(* memory is lost, the directory stays as it is.                           *)
Crash ==
  /\ Spend("crashes", MaxCrashes)
  /\ lost' = (1..accepted) \ returned
  /\ queue' = <<>> /\ batch' = [t \in Threads |-> <<>>]
  /\ fd' = [t \in Threads |-> None]
  /\ cnt' = [t \in Threads |-> 0] /\ off' = [t \in Threads |-> 0]
  /\ state' = "sending_files" /\ running' = FALSE /\ errorSending' = FALSE
  /\ pc' = [t \in Threads |-> IF t = Runner THEN "none" ELSE "idle"]
  /\ connected' = FALSE /\ partial' = <<>>
  /\ file' = None /\ fsize' = 0 /\ pending' = {}
  /\ UNCHANGED <<accepted, returned, files, delivered>>

LoopStep  == TooSoon \/ Reconnect \/ ReconnectFails \/ Dispatch \/ Check
QueueStep == \/ PopAll \/ PopWait \/ PopTimeout
             \/ BatchConnect \/ BatchConnectFails
             \/ BatchTransmit \/ BatchSendFails \/ BatchPut
FilesStep == \/ FilesConnect \/ FilesConnectFails \/ NextFile \/ ScanEnd
             \/ MapFile \/ FileTransmit \/ FileSendFails \/ FileSent
             \/ UnlinkFile

RunnerStep == LoopStep \/ QueueStep \/ FilesStep \/ SaveStep(Runner)

ProducerStep(p) == SaveStep(p) \/ RequestFiles(p)

Next ==
  \/ Start \/ Stop \/ Join \/ Crash
  \/ \E p \in Producers : (\E k \in 1..MaxRange : Send(p, k))
                          \/ ProducerStep(p)
  \/ RunnerStep

Spec == Init /\ [][Next]_vars

(* The same where the save at the end of run() may fail for ever. *)
SpecSaveFails == Init /\ [][Next \/ SaveFails]_vars

(* No thread stays in a step for ever: every system call is bounded by a   *)
(* timeout, every lock is released.  Time passes in every iteration, so an *)
(* attempt to connect that is possible again and again is made.            *)
Fairness ==
  /\ WF_vars(RunnerStep) /\ WF_vars(Join)
  /\ \A p \in Producers : WF_vars(ProducerStep(p))
  /\ SF_vars(Reconnect)

FairSpec == Spec /\ Fairness

FairSpecSaveFails == SpecSaveFails /\ Fairness

-----------------------------------------------------------------------------
(* Properties.                                                             *)

Labels == {"idle", "save", "stat", "open", "write", "put", "saved", "joining",
           "none", "loop", "check", "dispatch", "pop", "wait", "connect",
           "send", "files", "scan", "map", "sendfile", "unlink", "done",
           "failing"}

(* Every variable keeps the kind of value its field or local has. *)
TypeOK ==
  /\ queue \in Seq(1..accepted) /\ batch \in [Threads -> Seq(1..accepted)]
  /\ accepted \in 0..MaxMessages
  /\ returned \in SUBSET (1..accepted) /\ lost \in SUBSET (1..accepted)
  /\ DOMAIN files \subseteq Nat /\ files \in [DOMAIN files -> Seq(0..accepted)]
  /\ fd \in [Threads -> Nat \cup {None, Unlinked}]
  /\ cnt \in [Threads -> Nat] /\ off \in [Threads -> Nat]
  /\ state \in {"sending_files", "sending_queued_buffers"}
  /\ running \in BOOLEAN /\ errorSending \in BOOLEAN
  /\ pc \in [Threads -> Labels]
  /\ connected \in BOOLEAN /\ partial \in Seq(0..accepted)
  /\ delivered \in Seq(1..accepted)
  /\ file \in Nat \cup {None} /\ fsize \in Nat /\ pending \in SUBSET Nat
  /\ budget \in [Kinds -> Nat]

Increasing(s) == \A i, j \in 1..Len(s) : i < j => s[i] < s[j]

InQueue(m)    == m \in ToSet(queue)
InBatch(t, m) == m \in ToSet(batch[t])
InMemory(m)   == InQueue(m) \/ \E t \in Threads : InBatch(t, m)
OnDisk(m)     == \E n \in DOMAIN files : files[n] = Whole(m)
Delivered(m)  == m \in ToSet(delivered)

(* Buffers stay in the order in which send() accepted them: in the queue,  *)
(* in every popped batch, and when run() pushes the unsent rest of its     *)
(* batch back in front of what was accepted meanwhile.                     *)
QueueInOrder ==
  /\ Increasing(batch[Runner] \o queue)
  /\ \A t \in Threads : Increasing(batch[t])

(* Every accepted buffer has exactly one owner: the queue, one thread that *)
(* has popped it, or the allocator it was put back to.  None is leaked,    *)
(* none is put back while somebody still uses it.                          *)
OneOwner ==
  \A m \in 1..accepted :
    /\ InMemory(m) <=> m \notin returned \cup lost
    /\ m \notin returned \cap lost
    /\ InQueue(m) => \A t \in Threads : ~InBatch(t, m)
    /\ \A t, u \in Threads : InBatch(t, m) /\ InBatch(u, m) => t = u

(* Every buffer has one owner until the save at the end of run() fails,    *)
(* which puts a buffer back that it goes on using.                         *)
BufferOwnedOnce == pc[Runner] # "failing" => OneOwner

(* An accepted buffer is in memory, intact on disk, or handed over, unless *)
(* it was in memory when the process died.                                 *)
NoMessageLost ==
  \A m \in 1..accepted : InMemory(m) \/ OnDisk(m) \/ Delivered(m) \/ m \in lost

(* A buffer that is intact on disk stays there until it is handed over,    *)
(* across connections, stops, restarts and deaths of the process.          *)
DurableUntilDelivered ==
  [][\A m \in 1..accepted : OnDisk(m) => OnDisk(m)' \/ Delivered(m)']_vars

(* When the thread has ended, nothing it was given is left in memory.      *)
QueueSavedAtExit == pc[Runner] = "done" => \A m \in 1..accepted : ~InMemory(m)

(* An incomplete buffer is at the end of the stream of a connection only   *)
(* while that buffer is being sent: after a failure the connection is      *)
(* never used again, so the peer never sees a fragment followed by more.   *)
FramingIntact ==
  partial # <<>> => /\ connected
                    /\ pc[Runner] \in {"send", "sendfile"}
                    /\ Len(partial) = off[Runner]

(* While two threads save buffers, they write different files. *)
DistinctNames ==
  \A t, u \in Threads :
    t # u /\ pc[t] = "write" /\ pc[u] = "write" => fd[t] # fd[u]

(* When send_files() reports success, no file is left. *)
ScanLeavesNoFile == [][ScanEnd => DOMAIN files = {}]_vars

(* With run() alive, a connection that fails finitely often and no spill,  *)
(* every accepted buffer is handed over.                                   *)
EventuallyDelivered ==
  \A m \in 1..MaxMessages : m <= accepted /\ running ~> Delivered(m)

(* run() sends every file it finds when it starts in the state of sending  *)
(* files, whatever connections fail.                                       *)
FilesEventuallySent ==
  \A n \in 0..MaxMessages :
    n \in DOMAIN files /\ running /\ state = "sending_files"
      ~> n \notin DOMAIN files \/ ~running

(* stop() returns, because run() notices the flag wherever it is, unless   *)
(* the save with which run() ends keeps failing: then save_buffers() never *)
(* gets to the next buffer, and pthread_join() waits for ever.             *)
StopReturns ==
  pc[Owner] = "joining" ~> pc[Owner] # "joining" \/ pc[Runner] = "failing"

(* The promise of the sender, with and without the order. *)
Ordered   == INSTANCE Outbox WITH InOrder <- TRUE
Unordered == INSTANCE Outbox WITH InOrder <- FALSE

(* Without a spill, buffers are handed over once each, in order. *)
DeliversInOrder == Ordered!Spec

(* Whatever is spilled and whatever fails, no buffer is handed over twice. *)
DeliversAtMostOnce == Unordered!Spec
=============================================================================
