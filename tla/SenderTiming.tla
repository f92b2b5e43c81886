---------------------------- MODULE SenderTiming ----------------------------
(***************************************************************************)
(* The times of net::sender (net/sender.h, net/sender.cpp).  run() reads   *)
(* the clock once per iteration into _M_current_time; connect() and send() *)
(* store that time, and not the time at which they happen, in              *)
(* _M_last_socket_operation; both timeouts compare the two.                *)
(*                                                                         *)
(* Real time passes in ticks, Ticks of them in a second; time() cuts off   *)
(* the fraction.  Of absolute times only differences matter: lag is the    *)
(* real time since the clock was read, gap the difference of the two       *)
(* members, in seconds, which no comparison distinguishes beyond the       *)
(* longest timeout.  A wait or a sleep (250 ms) takes one tick, an         *)
(* operation on the socket any number of ticks up to a bound.  time() is   *)
(* the wall clock: it may be set, forward and back, so many times and by   *)
(* so many ticks, of which run() learns when it reads the clock.  Buffers  *)
(* and files are only there or not; what happens to them is in module      *)
(* Sender, as is stop().                                                   *)
(***************************************************************************)
EXTENDS Integers, FiniteSetsExt

CONSTANTS
  IdleTimeout,       \* idle_timeout, in seconds
  ReconnectionTime,  \* reconnection_time, in seconds
  Ticks,             \* ticks in a second
  MaxTicks,          \* bound: ticks that one operation on the socket takes
  MaxSends,          \* bound: buffers in a batch, files in the directory
  MaxBack,           \* bound: ticks by which the clock is set back
  MaxForward,        \* bound: ticks by which it is set forward
  MaxSettings,       \* bound: how often it is set
  MaxOpenFailures    \* bound: failures of opendir()

ASSUME SenderTimingAssumption ==
  /\ IdleTimeout \in Nat /\ ReconnectionTime \in Nat \ {0}
  /\ Ticks \in Nat \ {0} /\ MaxTicks \in Nat /\ MaxSends \in Nat \ {0}
  /\ MaxBack \in Nat /\ MaxForward \in Nat /\ MaxSettings \in Nat
  /\ MaxOpenFailures \in Nat

VARIABLES
  phase,      \* ticks since the second began, when the clock was read
  lag,        \* ticks since _M_current_time was read
  gap,        \* _M_current_time - _M_last_socket_operation
  error,      \* error_sending
  connected,  \* the socket has a descriptor
  state,      \* _M_state
  queued,     \* are there queued buffers?
  onDisk,     \* are there files that no scan has found yet?
  quiet,      \* producers have stopped to send
  left,       \* buffers of the batch, or files found, still to be sent
  pc,         \* where run() is
  settings, openFailures,  \* what the bounds limit
  refused,    \* history: the last attempt to connect has failed
  sinceTry,   \* history: ticks since it began
  sinceUse,   \* history: ticks since the last operation on the socket ended
  useLag,     \* history: lag when it ended
  tryAhead,   \* history: ticks the clock was set forward since that attempt
  useAhead    \* history: the same since that operation

history == <<refused, sinceTry, sinceUse, useLag, tryAhead, useAhead>>
world   == <<state, queued, onDisk, quiet>>
budget  == <<settings, openFailures>>
vars == <<phase, lag, gap, error, connected, world, left, pc, budget, history>>

(* No comparison tells greater values apart. *)
Horizon == Max({IdleTimeout, ReconnectionTime})
Cut(seconds) == Min({seconds, Horizon})
CutTicks(t)  == Min({t, Ticks * Horizon})

(* time() of an object that was never used: _M_last_socket_operation = 0. *)
Init ==
  /\ phase = 0 /\ lag = 0 /\ gap = Horizon
  /\ error = FALSE /\ connected = FALSE
  /\ state = "sending_files" /\ queued = FALSE /\ onDisk \in BOOLEAN
  /\ quiet = FALSE /\ left = 0 /\ pc = "loop"
  /\ settings = 0 /\ openFailures = 0
  /\ refused = FALSE /\ sinceTry = 0 /\ sinceUse = 0 /\ useLag = 0
  /\ tryAhead = 0 /\ useAhead = 0

(* n ticks pass in a wait or a sleep. *)
Wait(n) == /\ lag' = lag + n
           /\ sinceTry' = CutTicks(sinceTry + n)
           /\ sinceUse' = CutTicks(sinceUse + n)
           /\ UNCHANGED <<refused, useLag, tryAhead, useAhead>>

(* An operation on the socket ends after n ticks. *)
Used(n) == /\ lag' = lag + n
           /\ sinceUse' = 0
           /\ useLag' = CutTicks(lag + n)
           /\ useAhead' = 0

-----------------------------------------------------------------------------
(* connect() and send() of the sender.                                     *)

(* Mutant of SaveTime: the time is not saved. *)
SaveTimeForgotten == UNCHANGED gap

(* _M_last_socket_operation = _M_current_time. *)
SaveTime == gap' = 0

(* connect() returns at once if there is a connection. *)
StillConnected == connected /\ UNCHANGED <<lag, gap, connected, history>>

(* An attempt to connect, which succeeds or not. *)
Attempt(success) ==
  /\ ~connected
  /\ SaveTime
  /\ connected' = success /\ refused' = ~success
  /\ \E n \in 0..MaxTicks : Used(n) /\ sinceTry' = CutTicks(n)
  /\ tryAhead' = 0

Connect == StillConnected \/ Attempt(TRUE)

(* send() of a buffer or of a file; when it fails, it disconnects. *)
Send(success) ==
  /\ SaveTime
  /\ connected' = success
  /\ \E n \in 0..MaxTicks : Used(n) /\ sinceTry' = CutTicks(sinceTry + n)
  /\ UNCHANGED <<refused, tryAhead>>

-----------------------------------------------------------------------------
(* The loop of run().                                                      *)

Goto(label) == pc' = label

(* Mutant of ReadClock: a test that fails starts the delay anew. *)
ReadClockStartsAnew ==
  /\ pc = "loop"
  /\ LET t == phase + lag
         g == Cut(gap + t \div Ticks)
     IN /\ phase' = t % Ticks
        /\ gap' = IF error /\ g < ReconnectionTime THEN 0 ELSE g
        /\ Goto(IF ~error THEN "dispatch"
                ELSE IF g >= ReconnectionTime THEN "reconnect" ELSE "sleep")
  /\ lag' = 0
  /\ UNCHANGED <<error, connected, world, left, budget, history>>

(* The clock, which may have been set meanwhile, is read; after an error,  *)
(* the reconnection time is tested.                                        *)
ReadClock ==
  /\ pc = "loop"
  /\ \E step \in (-MaxBack)..MaxForward :
       LET t == phase + lag + step
       IN /\ settings' = IF step # 0 THEN settings + 1 ELSE settings
          /\ settings' <= MaxSettings
          /\ gap' = Cut(gap + t \div Ticks)
          /\ phase' = t % Ticks
          /\ tryAhead' = CutTicks(tryAhead + Max({step, 0}))
          /\ useAhead' = CutTicks(useAhead + Max({step, 0}))
  /\ lag' = 0
  /\ Goto(IF ~error THEN "dispatch"
          ELSE IF gap' >= ReconnectionTime THEN "reconnect" ELSE "sleep")
  /\ UNCHANGED <<error, connected, world, left, openFailures, refused, sinceTry,
                 sinceUse, useLag>>

(* Mutant of Sleep: run() does not sleep. *)
SleepForgotten ==
  /\ pc = "sleep"
  /\ Goto("loop")
  /\ UNCHANGED <<phase, lag, gap, error, connected, world, left, budget, history>>

Sleep ==
  /\ pc = "sleep"
  /\ Wait(1)
  /\ Goto("loop")
  /\ UNCHANGED <<phase, gap, error, connected, world, left, budget>>

Reconnect ==
  /\ pc = "reconnect"
  /\ \/ Connect /\ error' = FALSE /\ Goto("dispatch")
     \/ Attempt(FALSE) /\ error' = TRUE /\ Goto("sleep")
  /\ UNCHANGED <<phase, world, left, budget>>

Dispatch ==
  /\ pc = "dispatch"
  /\ Goto(IF state = "sending_queued_buffers" THEN "pop" ELSE "files")
  /\ UNCHANGED <<phase, lag, gap, error, connected, world, left, budget, history>>

-----------------------------------------------------------------------------
(* Queued buffers.                                                         *)

(* pop() finds buffers, at once or when it has waited. *)
PopSome ==
  /\ pc = "pop" /\ queued
  /\ \E n \in {0, 1} : Wait(n)
  /\ queued' = FALSE /\ left' \in 1..MaxSends
  /\ Goto("connect")
  /\ UNCHANGED <<phase, gap, error, connected, state, onDisk, quiet, budget>>

(* Mutant of PopNone: the connection counts as used. *)
PopNoneCounts ==
  /\ pc = "pop"
  /\ Wait(1)
  /\ connected' = (connected /\ gap < IdleTimeout)
  /\ gap' = 0
  /\ Goto("loop")
  /\ UNCHANGED <<phase, error, world, left, budget>>

(* Mutant of PopNone: the wrong timeout. *)
PopNoneSoon ==
  /\ pc = "pop"
  /\ Wait(1)
  /\ connected' = (connected /\ gap < ReconnectionTime)
  /\ Goto("loop")
  /\ UNCHANGED <<phase, gap, error, world, left, budget>>

(* pop() times out, also when a buffer has just been pushed; a connection  *)
(* that has been idle is closed.                                           *)
PopNone ==
  /\ pc = "pop"
  /\ Wait(1)
  /\ connected' = (connected /\ gap < IdleTimeout)
  /\ Goto("loop")
  /\ UNCHANGED <<phase, gap, error, world, left, budget>>

(* The batch, or its rest, is pushed back. *)
PushBack == /\ queued' = TRUE /\ error' = TRUE
            /\ Goto("loop")
            /\ UNCHANGED <<state, onDisk, quiet>>

BatchConnect ==
  /\ pc = "connect"
  /\ \/ Connect /\ Goto("send") /\ UNCHANGED <<error, world>>
     \/ Attempt(FALSE) /\ PushBack
  /\ UNCHANGED <<phase, left, budget>>

(* Mutant of BatchSend: the loop does not stop at the last buffer. *)
BatchSendGoesOn ==
  /\ pc = "send"
  /\ \/ /\ Send(TRUE) /\ left' = left - 1
        /\ UNCHANGED <<pc, error, world>>
     \/ Send(FALSE) /\ PushBack /\ UNCHANGED left
  /\ UNCHANGED <<phase, budget>>

(* The next buffer of the batch. *)
BatchSend ==
  /\ pc = "send"
  /\ \/ /\ Send(TRUE) /\ left' = left - 1
        /\ Goto(IF left > 1 THEN "send" ELSE "loop")
        /\ UNCHANGED <<error, world>>
     \/ Send(FALSE) /\ PushBack /\ UNCHANGED left
  /\ UNCHANGED <<phase, budget>>

-----------------------------------------------------------------------------
(* Files.                                                                  *)

FilesFail == error' = TRUE /\ Goto("loop") /\ UNCHANGED <<state, queued, quiet>>

(* connect() and opendir(), each of which may fail. *)
FilesConnect ==
  /\ pc = "files"
  /\ \/ /\ Connect
        /\ left' \in IF onDisk THEN 1..MaxSends ELSE {0}
        /\ onDisk' = FALSE
        /\ Goto("scan")
        /\ UNCHANGED <<error, state, queued, quiet, openFailures>>
     \/ Attempt(FALSE) /\ FilesFail /\ UNCHANGED <<onDisk, left, openFailures>>
     \/ /\ Connect /\ FilesFail
        /\ openFailures < MaxOpenFailures /\ openFailures' = openFailures + 1
        /\ UNCHANGED <<onDisk, left>>
  /\ UNCHANGED <<phase, settings>>

(* The next file; one that cannot be mapped is passed over. *)
FileSend ==
  /\ pc = "scan" /\ left > 0
  /\ \/ Send(TRUE) /\ left' = left - 1 /\ UNCHANGED <<pc, error, world>>
     \/ left' = left - 1 /\ UNCHANGED <<lag, gap, connected, history, pc, error, world>>
     \/ Send(FALSE) /\ FilesFail /\ onDisk' = TRUE /\ UNCHANGED left
  /\ UNCHANGED <<phase, budget>>

(* No file is left; one saved meanwhile is not found. *)
ScanEnd ==
  /\ pc = "scan" /\ left = 0
  /\ state' = "sending_queued_buffers" /\ error' = FALSE
  /\ Goto("loop")
  /\ UNCHANGED <<phase, lag, gap, connected, queued, onDisk, quiet, left,
                 budget, history>>

-----------------------------------------------------------------------------
(* Producers: send(), also when it spills, until they stop.                *)
Produce ==
  /\ ~quiet
  /\ \/ queued' = TRUE /\ UNCHANGED <<state, onDisk, quiet>>
     \/ /\ state' = "sending_files" /\ onDisk' = TRUE /\ queued' = FALSE
        /\ UNCHANGED quiet
     \/ quiet' = TRUE /\ UNCHANGED <<state, queued, onDisk>>
  /\ UNCHANGED <<phase, lag, gap, error, connected, left, pc, budget, history>>

Run == \/ ReadClock \/ Sleep \/ Reconnect \/ Dispatch
       \/ PopSome \/ PopNone \/ BatchConnect \/ BatchSend
       \/ FilesConnect \/ FileSend \/ ScanEnd

Next == Run \/ Produce

Spec == Init /\ [][Next]_vars

(* run() goes on: each of its waits and calls ends. *)
FairSpec == Spec /\ WF_vars(Run)

-----------------------------------------------------------------------------
(* Properties.                                                             *)

(* Members, locals and histories have their ranges. *)
TypeOK ==
  /\ phase \in 0..(Ticks - 1) /\ lag \in Nat
  /\ gap \in (-MaxBack * MaxSettings)..Horizon
  /\ error \in BOOLEAN /\ connected \in BOOLEAN /\ refused \in BOOLEAN
  /\ state \in {"sending_files", "sending_queued_buffers"}
  /\ queued \in BOOLEAN /\ onDisk \in BOOLEAN /\ quiet \in BOOLEAN
  /\ left \in 0..MaxSends
  /\ pc \in {"loop", "sleep", "reconnect", "dispatch", "pop", "connect", "send",
             "files", "scan"}
  /\ settings \in 0..MaxSettings /\ openFailures \in 0..MaxOpenFailures
  /\ {sinceTry, sinceUse, useLag, tryAhead, useAhead}
       \subseteq 0..(Ticks * Horizon)

(* An attempt to connect that follows a failed one begins reconnection_time*)
(* after that one began, but for the second that time() cuts off, the wait *)
(* that preceded the failed one, and what the wall clock was set forward   *)
(* meanwhile, which the code takes for time that has passed: however       *)
(* operations last, wherever in the loop they fail, and though the stored  *)
(* time is older than they are.                                            *)
AttemptsApart ==
  pc \in {"reconnect", "connect", "files"} /\ ~connected /\ refused
    => sinceTry + tryAhead >= Ticks * (ReconnectionTime - 1)

(* A connection is closed as idle only if idle_timeout has passed, but for *)
(* the second that time() cuts off and what the clock was set forward,     *)
(* since the iteration of its last use began: the time that this iteration *)
(* took is missing from the timeout.                                       *)
IdleCloseJustified ==
  [][pc = "pop" /\ connected /\ ~connected'
       => sinceUse' + useLag + useAhead > Ticks * (IdleTimeout - 1)]_vars

(* An error is followed by another attempt in the end, also when the clock *)
(* is set, finitely often.                                                 *)
ErrorIsRetried == error ~> pc = "reconnect"

(* When producers have stopped, a connection is closed in the end. *)
IdleIsClosed == quiet ~> ~connected

(* run() does not spin: time passes, or something is sent, when opendir()  *)
(* fails finitely often.  While it goes on failing with a connection open, *)
(* run() repeats connect() and opendir() without a wait.                   *)
NoSpin == []<><<\/ lag' > lag
                \/ pc \in {"send", "scan"} /\ left' < left>>_vars
=============================================================================
