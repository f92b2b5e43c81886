------------------------ MODULE SenderTimingProofs --------------------------
(***************************************************************************)
(* The timeouts of module SenderTiming, for every choice of idle_timeout,  *)
(* reconnection_time and resolution of the clock: its variables have their *)
(* ranges, attempts to connect are reconnection_time apart, and what is    *)
(* closed as idle has been.  All three rest on one inductive invariant,    *)
(* which compares the difference of the two members that the code compares *)
(* with the real time that has passed and what the clock was set forward.  *)
(***************************************************************************)
EXTENDS SenderTiming, TLAPS

-----------------------------------------------------------------------------
(* Arithmetic.                                                             *)

LEMMA MaxOfTwo ==
  ASSUME NEW a \in Int, NEW b \in Int
  PROVE  /\ Max({a, b}) \in {a, b}
         /\ Max({a, b}) >= a /\ Max({a, b}) >= b
<1>1. \E x \in {a, b} : \A y \in {a, b} : x >= y
  BY SMT
<1> QED BY <1>1 DEF Max

LEMMA MinOfTwo ==
  ASSUME NEW a \in Int, NEW b \in Int
  PROVE  /\ Min({a, b}) \in {a, b}
         /\ Min({a, b}) <= a /\ Min({a, b}) <= b
<1>1. \E x \in {a, b} : \A y \in {a, b} : x <= y
  BY SMT
<1> QED BY <1>1 DEF Min

LEMMA TimesPlus ==
  ASSUME NEW a \in Int, NEW b \in Int, NEW c \in Int
  PROVE  /\ a * b \in Int
         /\ a * (b + c) = a * b + a * c
BY SMT

LEMMA TimesMonotonic ==
  ASSUME NEW a \in Nat, NEW b \in Int, NEW c \in Int, b <= c
  PROVE  a * b <= a * c
BY SMT

LEMMA DivMod ==
  ASSUME NEW t \in Int, NEW d \in Int, d > 0
  PROVE  /\ t \div d \in Int
         /\ t % d \in 0..(d - 1)
         /\ d * (t \div d) + (t % d) = t
<1>1. t \div d \in Int /\ t % d \in 0..(d - 1)
  BY SMT
<1>2. d * (t \div d) + (t % d) = t
  BY SMT
<1> QED BY <1>1, <1>2

LEMMA DivAtLeast ==
  ASSUME NEW t \in Int, NEW d \in Int, d > 0, NEW b \in Nat, t >= -b
  PROVE  t \div d >= -b
<1>1. PICK q \in Int, r \in 0..(d - 1) : q = t \div d /\ d * q + r = t
  BY DivMod
<1>2. SUFFICES ASSUME q <= -b - 1 PROVE FALSE
  BY <1>1
<1>3. d * q <= d * (-b - 1)
  BY <1>1, <1>2, TimesMonotonic
<1>4. d * (-b - 1) <= -b - d
  BY SMT
<1> QED BY <1>1, <1>3, <1>4

(* No timeout is longer than Horizon; what is cut does not grow. *)
LEMMA Horizons ==
  /\ Horizon \in Nat /\ Horizon >= IdleTimeout /\ Horizon >= ReconnectionTime
  /\ Ticks * Horizon \in Nat
  /\ Ticks * Horizon >= Ticks * IdleTimeout
  /\ Ticks * Horizon >= Ticks * ReconnectionTime
<1>1. Horizon \in Nat /\ Horizon >= IdleTimeout /\ Horizon >= ReconnectionTime
  <2>1. IdleTimeout \in Nat /\ ReconnectionTime \in Nat
    BY SenderTimingAssumption
  <2>2. /\ Horizon \in {IdleTimeout, ReconnectionTime}
        /\ Horizon >= IdleTimeout /\ Horizon >= ReconnectionTime
    BY <2>1, MaxOfTwo DEF Horizon
  <2> QED BY <2>1, <2>2
<1>2. Ticks * Horizon \in Int /\ Ticks * 0 = 0
  BY <1>1, SenderTimingAssumption, TimesPlus
<1> QED BY <1>1, <1>2, SenderTimingAssumption, TimesMonotonic

LEMMA Cuts ==
  /\ \A s \in Int : /\ Cut(s) \in Int /\ Cut(s) <= s /\ Cut(s) <= Horizon
                    /\ Cut(s) = s \/ Cut(s) = Horizon
  /\ \A t \in Nat : /\ CutTicks(t) \in 0..(Ticks * Horizon)
                    /\ CutTicks(t) = t \/ CutTicks(t) = Ticks * Horizon
<1>1. ASSUME NEW s \in Int
      PROVE  /\ Cut(s) \in Int /\ Cut(s) <= s /\ Cut(s) <= Horizon
             /\ Cut(s) = s \/ Cut(s) = Horizon
  <2>1. Horizon \in Int
    BY Horizons
  <2> QED BY <2>1, MinOfTwo DEF Cut
<1>2. ASSUME NEW t \in Nat
      PROVE  /\ CutTicks(t) \in 0..(Ticks * Horizon)
             /\ CutTicks(t) = t \/ CutTicks(t) = Ticks * Horizon
  BY Horizons, MinOfTwo DEF CutTicks
<1> QED BY <1>1, <1>2

-----------------------------------------------------------------------------
(* The inductive invariant.                                                *)

(* A batch is not empty until its last buffer is sent. *)
Batched == pc \in {"connect", "send"} => left > 0

(* A refused attempt is an error, and run() does nothing about the queue   *)
(* and the files before the attempt that succeeds.                         *)
Refusal ==
  /\ refused => error /\ ~connected
  /\ pc \in {"dispatch", "pop", "connect", "send", "files", "scan"} => ~error
  /\ pc \in {"send", "scan"} => connected

(* Without a connection the clock was read just now, but for one wait.     *)
Prompt == ~connected =>
            /\ pc \in {"reconnect", "dispatch", "pop", "files"} => lag = 0
            /\ pc = "connect" => lag <= 1

(* The seconds that the code sees, and the time since it read the clock,   *)
(* have really passed since the refused attempt began, or the clock was set*)
(* forward, but for the second that time() cuts off, and but for the wait. *)
TryElapsed ==
  refused => \/ Ticks * gap + phase + lag <= Ticks + sinceTry + tryAhead
             \/ sinceTry = Ticks * Horizon
             \/ tryAhead = Ticks * Horizon

(* The same since the last use of a connection. *)
UseElapsed ==
  connected =>
    \/ Ticks * gap + phase + lag < Ticks + sinceUse + useLag + useAhead
    \/ sinceUse = Ticks * Horizon
    \/ useLag = Ticks * Horizon
    \/ useAhead = Ticks * Horizon

(* run() tries again only when it sees that reconnection_time has passed. *)
Due == pc = "reconnect" => gap >= ReconnectionTime

(* The times: every setting of the clock costs the difference MaxBack at   *)
(* most.                                                                   *)
Times ==
  /\ lag \in Nat /\ gap \in Int
  /\ -(MaxBack * settings) <= gap /\ gap <= Horizon
  /\ connected \in BOOLEAN /\ refused \in BOOLEAN
  /\ sinceTry \in 0..(Ticks * Horizon) /\ sinceUse \in 0..(Ticks * Horizon)
  /\ useLag \in 0..(Ticks * Horizon)
  /\ tryAhead \in 0..(Ticks * Horizon) /\ useAhead \in 0..(Ticks * Horizon)
  /\ TryElapsed /\ UseElapsed

(* The variables that Times does not mention. *)
Numbers ==
  /\ phase \in 0..(Ticks - 1) /\ left \in 0..MaxSends
  /\ settings \in 0..MaxSettings /\ openFailures \in 0..MaxOpenFailures

Flags ==
  /\ error \in BOOLEAN
  /\ state \in {"sending_files", "sending_queued_buffers"}
  /\ queued \in BOOLEAN /\ onDisk \in BOOLEAN /\ quiet \in BOOLEAN
  /\ pc \in {"loop", "sleep", "reconnect", "dispatch", "pop", "connect", "send",
             "files", "scan"}

Places == Numbers /\ Flags

TimingInv == Times /\ Places /\ Batched /\ Refusal /\ Prompt /\ Due

LEMMA BackBound ==
  ASSUME NEW s \in 0..MaxSettings
  PROVE  /\ MaxBack * s \in Nat /\ MaxBack * MaxSettings \in Nat
         /\ -MaxBack * MaxSettings <= -(MaxBack * s)
<1>1. MaxBack \in Nat /\ MaxSettings \in Nat /\ s \in Nat /\ s <= MaxSettings
  BY SenderTimingAssumption
<1>2. MaxBack * s \in Nat /\ MaxBack * MaxSettings \in Nat
  BY <1>1, SMT
<1>3. MaxBack * s <= MaxBack * MaxSettings
  BY <1>1, TimesMonotonic
<1>4. -MaxBack * MaxSettings = -(MaxBack * MaxSettings)
  BY <1>1, SMT
<1> QED BY <1>2, <1>3, <1>4

LEMMA TypesImplied == TimingInv => TypeOK
<1> SUFFICES ASSUME Times, Places PROVE TypeOK
  BY DEF TimingInv
<1>1. gap \in (-MaxBack * MaxSettings)..Horizon
  <2>1. gap >= -MaxBack * MaxSettings /\ -MaxBack * MaxSettings \in Int
    BY BackBound, SenderTimingAssumption DEF Times, Places, Numbers, Flags
  <2> QED BY <2>1, Horizons DEF Times
<1> QED BY <1>1 DEF TypeOK, Times, Places, Numbers, Flags

(* A wait passes in the code's time and in real time. *)
LEMMA WaitKeeps ==
  ASSUME Times, Places, NEW n \in Nat, Wait(n), UNCHANGED <<phase, gap, settings>>,
         connected' \in BOOLEAN, connected' => connected
  PROVE  Times'
<1>1. /\ lag \in Nat /\ lag' = lag + n /\ refused' = refused /\ useLag' = useLag
      /\ sinceTry' = CutTicks(sinceTry + n) /\ sinceUse' = CutTicks(sinceUse + n)
      /\ sinceTry \in Nat /\ sinceUse \in Nat /\ useLag \in Nat /\ phase \in Nat
      /\ tryAhead' = tryAhead /\ useAhead' = useAhead
      /\ tryAhead \in Nat /\ useAhead \in Nat
      /\ Ticks * Horizon \in Nat /\ Ticks * gap \in Int
      /\ sinceTry <= Ticks * Horizon /\ sinceUse <= Ticks * Horizon
  BY Horizons, SenderTimingAssumption, TimesPlus DEF Times, Places, Numbers, Flags, Wait
<1>2. /\ sinceTry' \in 0..(Ticks * Horizon)
      /\ sinceTry' = sinceTry + n \/ sinceTry' = Ticks * Horizon
  BY <1>1, Cuts
<1>3. /\ sinceUse' \in 0..(Ticks * Horizon)
      /\ sinceUse' = sinceUse + n \/ sinceUse' = Ticks * Horizon
  BY <1>1, Cuts
<1>4. PICK g \in Int, h \in Nat, d \in Nat :
        g = Ticks * gap /\ h = Ticks * Horizon /\ d = Ticks /\ g = Ticks * gap'
  BY <1>1, SenderTimingAssumption
<1>5. TryElapsed'
  <2>1. refused => \/ g + phase + lag <= d + sinceTry + tryAhead
                   \/ sinceTry = h \/ tryAhead = h
    BY <1>4 DEF Times, TryElapsed
  <2>2. sinceTry = h => sinceTry' = h
    BY <1>1, <1>2, <1>4
  <2>3. refused => \/ g + phase + (lag + n) <= d + sinceTry' + tryAhead
                   \/ sinceTry' = h \/ tryAhead = h
    <3>1. sinceTry' = h \/ sinceTry' = sinceTry + n
      BY <1>2, <1>4
    <3> QED BY <1>1, <1>4, <2>1, <2>2, <3>1
  <2> QED BY <1>1, <1>4, <2>3 DEF TryElapsed
<1>6. UseElapsed'
  <2>1. connected => \/ g + phase + lag < d + sinceUse + useLag + useAhead
                     \/ sinceUse = h \/ useLag = h \/ useAhead = h
    BY <1>4 DEF Times, UseElapsed
  <2>2. sinceUse = h => sinceUse' = h
    BY <1>1, <1>3, <1>4
  <2>3. connected => \/ g + phase + (lag + n) < d + sinceUse' + useLag + useAhead
                     \/ sinceUse' = h \/ useLag = h \/ useAhead = h
    <3>1. sinceUse' = h \/ sinceUse' = sinceUse + n
      BY <1>3, <1>4
    <3> QED BY <1>1, <1>4, <2>1, <2>2, <3>1
  <2> QED BY <1>1, <1>4, <2>3 DEF UseElapsed
<1>7. tryAhead' \in 0..(Ticks * Horizon) /\ useAhead' \in 0..(Ticks * Horizon)
  BY <1>1 DEF Times
<1> QED BY <1>1, <1>2, <1>3, <1>5, <1>6, <1>7 DEF Times

(* An attempt to connect begins when the clock was read at most one wait   *)
(* ago; from then on its time counts.                                      *)
LEMMA AttemptKeeps ==
  ASSUME Times, Places, NEW b \in BOOLEAN, Attempt(b), lag <= 1,
         UNCHANGED <<phase, settings>>
  PROVE  Times'
<1>1. PICK n \in 0..MaxTicks : Used(n) /\ sinceTry' = CutTicks(n)
  BY DEF Attempt
<1>2. /\ lag \in Nat /\ n \in Nat /\ lag' = lag + n /\ gap' = 0
      /\ connected' = b /\ refused' = ~b /\ tryAhead' = 0
      /\ sinceUse' = 0 /\ useLag' = CutTicks(lag + n) /\ useAhead' = 0
      /\ phase \in 0..(Ticks - 1) /\ Ticks \in Nat /\ Ticks * 0 = 0
      /\ Ticks * Horizon \in Nat /\ Horizon \in Nat /\ MaxBack * settings \in Nat
  BY <1>1, Horizons, BackBound, SenderTimingAssumption
  DEF Times, Places, Numbers, Flags, Attempt, SaveTime, Used
<1>3. /\ sinceTry' \in 0..(Ticks * Horizon)
      /\ sinceTry' = n \/ sinceTry' = Ticks * Horizon
  BY <1>1, <1>2, Cuts
<1>4. /\ useLag' \in 0..(Ticks * Horizon)
      /\ useLag' = lag + n \/ useLag' = Ticks * Horizon
  BY <1>2, Cuts
<1>5. TryElapsed'
  <2>1. Ticks * gap' = 0 /\ phase' = phase
    BY <1>2
  <2>2. 0 + phase + (lag + n) <= Ticks + n + 0
    BY <1>2
  <2>3. \/ Ticks * gap' + phase' + lag' <= Ticks + sinceTry' + tryAhead'
        \/ sinceTry' = Ticks * Horizon
    BY <1>2, <1>3, <2>1, <2>2
  <2> QED BY <2>3 DEF TryElapsed
<1>6. UseElapsed'
  BY <1>2, <1>4 DEF UseElapsed
<1> QED BY <1>2, <1>3, <1>4, <1>5, <1>6 DEF Times

(* A transmission is a use of the connection. *)
LEMMA SendKeeps ==
  ASSUME Times, Places, NEW b \in BOOLEAN, Send(b), ~refused,
         UNCHANGED <<phase, settings>>
  PROVE  Times'
<1>1. PICK n \in 0..MaxTicks : Used(n) /\ sinceTry' = CutTicks(sinceTry + n)
  BY DEF Send
<1>2. /\ lag \in Nat /\ n \in Nat /\ lag' = lag + n /\ gap' = 0
      /\ connected' = b /\ refused' = refused /\ sinceTry \in Nat
      /\ tryAhead' = tryAhead
      /\ sinceUse' = 0 /\ useLag' = CutTicks(lag + n) /\ useAhead' = 0
      /\ phase \in 0..(Ticks - 1) /\ Ticks \in Nat /\ Ticks * 0 = 0
      /\ Ticks * Horizon \in Nat /\ Horizon \in Nat /\ MaxBack * settings \in Nat
  BY <1>1, Horizons, BackBound, SenderTimingAssumption
  DEF Times, Places, Numbers, Flags, Send, SaveTime, Used
<1>3. sinceTry' \in 0..(Ticks * Horizon)
  BY <1>1, <1>2, Cuts
<1>4. /\ useLag' \in 0..(Ticks * Horizon)
      /\ useLag' = lag + n \/ useLag' = Ticks * Horizon
  BY <1>2, Cuts
<1>5. TryElapsed'
  BY <1>2 DEF TryElapsed
<1>6. UseElapsed'
  BY <1>2, <1>4 DEF UseElapsed
<1> QED BY <1>2, <1>3, <1>4, <1>5, <1>6 DEF Times

(* What nothing happens to. *)
LEMMA TimesKept ==
  ASSUME Times, UNCHANGED <<phase, lag, gap, connected, settings, history>>
  PROVE  Times'
BY DEF Times, TryElapsed, UseElapsed, history

(* Reading the clock turns the time since the last reading, and what the   *)
(* clock was set, into seconds and a rest, which are not longer; what it   *)
(* was set forward is counted.                                             *)
LEMMA ReadClockKeeps ==
  ASSUME Times, Places, ReadClock
  PROVE  Times' /\ phase' \in 0..(Ticks - 1) /\ settings' \in 0..MaxSettings
<1>1. /\ phase \in Nat /\ lag \in Nat /\ gap \in Int /\ settings \in 0..MaxSettings
      /\ Ticks \in Nat \ {0} /\ MaxBack \in Nat /\ MaxSettings \in Nat
      /\ MaxForward \in Nat
      /\ Horizon \in Nat /\ Ticks * Horizon \in Nat /\ Ticks * gap \in Int
      /\ sinceTry \in Nat /\ sinceUse \in Nat /\ useLag \in Nat
      /\ tryAhead \in 0..(Ticks * Horizon) /\ useAhead \in 0..(Ticks * Horizon)
  BY Horizons, SenderTimingAssumption, TimesPlus DEF Times, Places, Numbers, Flags
<1>2. PICK step \in (-MaxBack)..MaxForward :
        /\ settings' = IF step # 0 THEN settings + 1 ELSE settings
        /\ settings' <= MaxSettings
        /\ gap' = Cut(gap + (phase + lag + step) \div Ticks)
        /\ phase' = (phase + lag + step) % Ticks
        /\ tryAhead' = CutTicks(tryAhead + Max({step, 0}))
        /\ useAhead' = CutTicks(useAhead + Max({step, 0}))
  BY DEF ReadClock
<1>3. PICK t \in Int : t = phase + lag + step /\ step \in Int
  BY <1>1
<1>4. PICK q \in Int, r \in 0..(Ticks - 1) :
        q = t \div Ticks /\ r = t % Ticks /\ Ticks * q + r = t
  BY <1>1, <1>3, DivMod
<1>5. /\ phase' = r /\ lag' = 0 /\ gap' = Cut(gap + q)
      /\ UNCHANGED <<connected, refused, sinceTry, sinceUse, useLag>>
  BY <1>2, <1>3, <1>4 DEF ReadClock
<1>6. /\ gap' \in Int /\ gap' <= gap + q /\ gap' <= Horizon
      /\ gap' = gap + q \/ gap' = Horizon
  <2>1. gap + q \in Int
    BY <1>1
  <2> QED BY <1>5, <2>1, Cuts
<1>7. settings' \in 0..MaxSettings
  BY <1>1, <1>2
<1>8. -(MaxBack * settings') <= gap'
  <2>1. PICK m \in Nat, k \in Nat : m = MaxBack * settings /\ k = MaxBack * settings'
    BY <1>1, <1>7, BackBound
  <2>2. step # 0 => k = m + MaxBack
    <3>1. MaxBack * (settings + 1) = MaxBack * settings + MaxBack * 1
      BY <1>1, TimesPlus
    <3> QED BY <1>1, <1>2, <2>1, <3>1
  <2>3. step = 0 => k = m
    BY <1>2, <2>1
  <2>4. -m <= gap
    BY <2>1 DEF Times
  <2>5. q >= -MaxBack /\ (step = 0 => q >= 0)
    <3>1. t >= -MaxBack /\ (step = 0 => t >= -0)
      BY <1>1, <1>2, <1>3
    <3> QED BY <1>1, <1>4, <3>1, DivAtLeast
  <2>6. -k <= gap'
    BY <1>1, <1>6, <2>1, <2>2, <2>3, <2>4, <2>5
  <2> QED BY <2>1, <2>6
<1>9. PICK ahead \in Nat : ahead = Max({step, 0}) /\ step <= ahead
  <2>1. /\ Max({step, 0}) \in {step, 0}
        /\ Max({step, 0}) >= step /\ Max({step, 0}) >= 0
    BY <1>3, MaxOfTwo
  <2> QED BY <1>3, <2>1
<1>10. PICK h \in Nat, d \in Nat : h = Ticks * Horizon /\ d = Ticks
  BY <1>1
<1>11. /\ tryAhead' \in 0..h /\ (tryAhead' = tryAhead + ahead \/ tryAhead' = h)
       /\ useAhead' \in 0..h /\ (useAhead' = useAhead + ahead \/ useAhead' = h)
       /\ tryAhead \in 0..h /\ useAhead \in 0..h
  <2>1. tryAhead + ahead \in Nat /\ useAhead + ahead \in Nat
    BY <1>1, <1>9
  <2> QED BY <1>1, <1>2, <1>9, <1>10, <2>1, Cuts
<1>12. PICK g \in Int, g2 \in Int :
        g = Ticks * gap /\ g2 = Ticks * gap' /\ g2 + r <= g + phase + lag + ahead
  <2>1. Ticks * gap' <= Ticks * (gap + q)
    <3>1. gap' <= gap + q /\ gap + q \in Int /\ gap' \in Int /\ Ticks \in Nat
      BY <1>1, <1>6
    <3> QED BY <3>1, TimesMonotonic
  <2>2. Ticks * (gap + q) = Ticks * gap + Ticks * q
    BY <1>1, TimesPlus
  <2>3. PICK a \in Int, b \in Int, c \in Int :
          a = Ticks * gap /\ b = Ticks * q /\ c = Ticks * gap'
    <3>1. Ticks \in Int /\ q \in Int /\ gap' \in Int
      BY <1>1, <1>6
    <3>2. Ticks * q \in Int
      BY <3>1, TimesPlus
    <3>3. Ticks * gap' \in Int
      BY <3>1, TimesPlus
    <3> QED BY <1>1, <3>2, <3>3
  <2>4. c <= a + b /\ b + r = phase + lag + step
    BY <1>3, <1>4, <2>1, <2>2, <2>3
  <2>5. c + r <= a + phase + lag + ahead
    BY <1>1, <1>3, <1>4, <1>9, <2>3, <2>4
  <2> QED BY <2>3, <2>5
<1>13. TryElapsed'
  <2>1. refused => \/ g + phase + lag <= d + sinceTry + tryAhead
                   \/ sinceTry = h \/ tryAhead = h
    BY <1>10, <1>12 DEF Times, TryElapsed
  <2>2. tryAhead = h => tryAhead' = h
    BY <1>9, <1>11
  <2>3. refused => \/ g2 + r + 0 <= d + sinceTry + tryAhead'
                   \/ sinceTry = h \/ tryAhead' = h
    BY <1>1, <1>9, <1>10, <1>11, <1>12, <2>1, <2>2
  <2> QED BY <1>5, <1>10, <1>12, <2>3 DEF TryElapsed
<1>14. UseElapsed'
  <2>1. connected => \/ g + phase + lag < d + sinceUse + useLag + useAhead
                     \/ sinceUse = h \/ useLag = h \/ useAhead = h
    BY <1>10, <1>12 DEF Times, UseElapsed
  <2>2. useAhead = h => useAhead' = h
    BY <1>9, <1>11
  <2>3. connected => \/ g2 + r + 0 < d + sinceUse + useLag + useAhead'
                     \/ sinceUse = h \/ useLag = h \/ useAhead' = h
    BY <1>1, <1>9, <1>10, <1>11, <1>12, <2>1, <2>2
  <2> QED BY <1>5, <1>10, <1>12, <2>3 DEF UseElapsed
<1> QED
  BY <1>4, <1>5, <1>6, <1>7, <1>8, <1>10, <1>11, <1>13, <1>14 DEF Times

(* Every step preserves the invariant. *)
LEMMA TimingStep ==
  ASSUME TimingInv, [Next]_vars
  PROVE  TimingInv'
<1> USE SenderTimingAssumption
<1>0. Times /\ Places /\ Batched /\ Refusal /\ Prompt /\ Due
  BY DEF TimingInv
<1>1. CASE ReadClock
  <2>1. Times' /\ Places' /\ lag' = 0
    BY <1>0, <1>1, ReadClockKeeps DEF ReadClock, Places, Numbers, Flags, Goto, world
  <2>2. Batched' /\ Refusal' /\ Prompt' /\ Due'
    BY <1>0, <1>1, <2>1
    DEF ReadClock, Goto, Batched, Refusal, Prompt, Due, Times, Places, Numbers, Flags,
        history
  <2> QED BY <2>1, <2>2 DEF TimingInv
<1>2. CASE Sleep
  <2>1. Times'
    BY <1>0, <1>2, WaitKeeps DEF Sleep, budget, Times
  <2>2. Places' /\ Batched' /\ Refusal' /\ Prompt' /\ Due'
    BY <1>0, <1>2
    DEF Sleep, Wait, Goto, Batched, Refusal, Prompt, Due, Places, Numbers, Flags,
        world, budget
  <2> QED BY <2>1, <2>2 DEF TimingInv
<1>3. CASE Reconnect
  <2>1. CASE StillConnected
    <3>1. Times'
      BY <1>0, <1>3, <2>1, TimesKept DEF Reconnect, StillConnected, budget
    <3> QED
      BY <1>0, <1>3, <2>1, <3>1
      DEF Reconnect, StillConnected, Attempt, Goto, Batched, Refusal, Prompt, Due,
          Places, Numbers, Flags, TimingInv, world, budget, history
  <2>2. CASE \E b \in BOOLEAN : Attempt(b) /\ pc' = (IF b THEN "dispatch" ELSE "sleep")
                               /\ error' = ~b
    <3>1. PICK b \in BOOLEAN : Attempt(b) /\ pc' = (IF b THEN "dispatch" ELSE "sleep")
                               /\ error' = ~b
      BY <2>2
    <3>2. lag <= 1
      BY <1>0, <1>3, <3>1 DEF Prompt, Reconnect, Attempt, Times
    <3>3. Times'
      BY <1>0, <1>3, <3>1, <3>2, AttemptKeeps DEF Reconnect, budget
    <3> QED
      BY <1>0, <1>3, <3>1, <3>3
      DEF Reconnect, Attempt, Goto, Batched, Refusal, Prompt, Due,
          Places, Numbers, Flags, TimingInv, world, budget
  <2> QED BY <1>3, <2>1, <2>2 DEF Reconnect, Connect, Goto
<1>4. CASE Dispatch
  <2>1. Times'
    BY <1>0, <1>4, TimesKept DEF Dispatch, budget
  <2> QED
    BY <1>0, <1>4, <2>1
    DEF Dispatch, Goto, Batched, Refusal, Prompt, Due, Places, Numbers, Flags,
        TimingInv, world, budget, history
<1>5. CASE PopSome
  <2>1. PICK n \in {0, 1} : Wait(n)
    BY <1>5 DEF PopSome
  <2>2. Times'
    BY <1>0, <1>5, <2>1, WaitKeeps DEF PopSome, budget, Times
  <2>3. Numbers' /\ Batched' /\ Due'
    BY <1>0, <1>5 DEF PopSome, Goto, Batched, Due, Places, Numbers, budget
  <2>6. Flags' /\ Refusal'
    BY <1>0, <1>5, <2>1 DEF PopSome, Wait, Goto, Refusal, Places, Flags
  <2>4. ~connected => lag' <= 1
    <3>1. ~connected => lag = 0
      BY <1>0, <1>5 DEF PopSome, Prompt
    <3> QED BY <2>1, <3>1 DEF Wait
  <2>5. Prompt'
    BY <1>5, <2>4 DEF PopSome, Goto, Prompt
  <2> QED BY <2>2, <2>3, <2>5, <2>6 DEF TimingInv, Places
<1>6. CASE PopNone
  <2>1. connected' \in BOOLEAN /\ (connected' => connected)
    BY <1>6 DEF PopNone
  <2>2. Times'
    BY <1>0, <1>6, <2>1, WaitKeeps DEF PopNone, budget
  <2> QED
    BY <1>0, <1>6, <2>1, <2>2
    DEF PopNone, Wait, Goto, Batched, Refusal, Prompt, Due, Places, Numbers, Flags,
        TimingInv, world, budget
<1>7. CASE BatchConnect
  <2>1. CASE StillConnected
    <3>1. Times'
      BY <1>0, <1>7, <2>1, TimesKept DEF BatchConnect, StillConnected, budget
    <3> QED
      BY <1>0, <1>7, <2>1, <3>1
      DEF BatchConnect, StillConnected, Attempt, PushBack, Goto, Batched, Refusal,
          Prompt, Due, Places, Numbers, Flags, TimingInv, world, budget, history
  <2>2. ASSUME NEW b \in BOOLEAN, Attempt(b),
               IF b THEN Goto("send") /\ UNCHANGED <<error, world>> ELSE PushBack
        PROVE  TimingInv'
    <3>2. lag <= 1
      BY <1>0, <1>7, <2>2 DEF Prompt, BatchConnect, Attempt, Times
    <3>3. Times'
      BY <1>0, <1>7, <2>2, <3>2, AttemptKeeps DEF BatchConnect, budget
    <3>4. Numbers' /\ Batched'
      BY <1>0, <1>7 DEF BatchConnect, Batched, Places, Numbers, budget
    <3>5. connected' = b /\ refused' = ~b /\ pc = "connect" /\ ~error
      BY <1>0, <1>7, <2>2 DEF BatchConnect, Attempt, Refusal
    <3>6. Flags'
      BY <1>0, <2>2 DEF PushBack, Goto, Places, Flags, world
    <3>7. \/ pc' = "send" /\ ~error' /\ ~refused' /\ connected'
          \/ pc' = "loop" /\ error' /\ ~connected'
      BY <2>2, <3>5 DEF PushBack, Goto
    <3>8. Refusal' /\ Prompt' /\ Due'
      BY <3>7 DEF Refusal, Prompt, Due
    <3> QED BY <3>3, <3>4, <3>6, <3>8 DEF TimingInv, Places
  <2> QED BY <1>7, <2>1, <2>2 DEF BatchConnect, Connect
<1>8. CASE BatchSend
  <2>1. PICK b \in BOOLEAN :
          /\ Send(b)
          /\ IF b THEN /\ left' = left - 1 /\ UNCHANGED <<error, world>>
                       /\ Goto(IF left > 1 THEN "send" ELSE "loop")
             ELSE PushBack /\ UNCHANGED left
    BY <1>8 DEF BatchSend
  <2>2. Times'
    BY <1>0, <1>8, <2>1, SendKeeps DEF BatchSend, Refusal, budget
  <2>3. Numbers' /\ Batched'
    BY <1>0, <1>8, <2>1
    DEF BatchSend, PushBack, Goto, Batched, Places, Numbers, budget
  <2>4. connected' = b /\ refused' = refused /\ pc = "send" /\ ~error /\ ~refused
    BY <1>0, <1>8, <2>1 DEF BatchSend, Send, Refusal
  <2>5. Flags'
    BY <1>0, <2>1 DEF PushBack, Goto, Places, Flags, world
  <2>6. \/ b /\ pc' \in {"send", "loop"} /\ error' = error
        \/ ~b /\ pc' = "loop" /\ error' = TRUE
    BY <2>1 DEF PushBack, Goto
  <2>7. Refusal' /\ Prompt' /\ Due'
    BY <2>4, <2>6 DEF Refusal, Prompt, Due
  <2> QED BY <2>2, <2>3, <2>5, <2>7 DEF TimingInv, Places
<1>9. CASE FilesConnect
  <2>0. /\ pc = "files" /\ UNCHANGED <<phase, settings>>
        /\ Places'
    <3>1. Numbers'
      <4>1. /\ UNCHANGED <<phase, settings>>
            /\ left' = left \/ left' \in 1..MaxSends \/ left' \in {0}
            /\ \/ openFailures' = openFailures
               \/ /\ openFailures < MaxOpenFailures
                  /\ openFailures' = openFailures + 1
        <5>1. \/ /\ left' \in IF onDisk THEN 1..MaxSends ELSE {0}
                 /\ openFailures' = openFailures
              \/ left' = left /\ openFailures' = openFailures
              \/ /\ left' = left /\ openFailures < MaxOpenFailures
                 /\ openFailures' = openFailures + 1
          BY <1>9 DEF FilesConnect
        <5>2. UNCHANGED <<phase, settings>>
          BY <1>9 DEF FilesConnect
        <5> QED BY <5>1, <5>2
      <4>2. Numbers
        BY <1>0 DEF Places
      <4> QED BY <4>1, <4>2 DEF Numbers
    <3>2. Flags'
      <4>1. /\ UNCHANGED <<state, queued, quiet>> /\ pc' \in {"scan", "loop"}
            /\ error' = error \/ error' = TRUE
            /\ onDisk' = onDisk \/ onDisk' = FALSE
        BY <1>9 DEF FilesConnect, FilesFail, Goto
      <4>2. Flags
        BY <1>0 DEF Places
      <4> QED BY <4>1, <4>2 DEF Flags
    <3> QED BY <1>9, <3>1, <3>2 DEF FilesConnect, Places
  <2>1. CASE StillConnected
    <3>1. Times'
      BY <1>0, <2>0, <2>1, TimesKept DEF StillConnected
    <3> QED
      BY <1>0, <1>9, <2>0, <2>1, <3>1
      DEF FilesConnect, StillConnected, Attempt, FilesFail, Goto, Batched, Refusal,
          Prompt, Due, TimingInv, history
  <2>2. ASSUME NEW b \in BOOLEAN, Attempt(b) PROVE TimingInv'
    <3>2. lag <= 1
      BY <1>0, <2>0, <2>2 DEF Prompt, Attempt, Times
    <3>3. Times'
      BY <1>0, <2>0, <2>2, <3>2, AttemptKeeps
    <3>4. Batched' /\ Refusal' /\ Prompt' /\ Due'
      <4>1. \/ pc' = "scan" /\ connected' /\ ~refused' /\ error' = error
            \/ pc' = "loop" /\ error'
        BY <1>9, <2>2
        DEF FilesConnect, StillConnected, Connect, Attempt, FilesFail, Goto
      <4>2. connected' = b /\ refused' = ~b
        BY <2>2 DEF Attempt
      <4>3. ~error
        BY <1>0, <2>0 DEF Refusal
      <4>4. \/ pc' = "scan" /\ connected' /\ ~refused' /\ ~error'
            \/ pc' = "loop" /\ error' /\ (refused' => ~connected')
        BY <4>1, <4>2, <4>3
      <4>5. Refusal'
        BY <4>4 DEF Refusal
      <4> QED BY <4>4, <4>5 DEF Batched, Prompt, Due
    <3> QED BY <2>0, <3>3, <3>4 DEF TimingInv
  <2> QED BY <1>9, <2>1, <2>2 DEF FilesConnect, Connect
<1>10. CASE FileSend
  <2>0. Places' /\ Batched' /\ Prompt' /\ Due' /\ UNCHANGED <<phase, settings>>
    <3>1. Numbers'
      <4>1. /\ UNCHANGED <<phase, settings, openFailures>>
            /\ left > 0 /\ (left' = left \/ left' = left - 1)
        BY <1>10 DEF FileSend, budget
      <4>2. Numbers
        BY <1>0 DEF Places
      <4> QED BY <4>1, <4>2 DEF Numbers
    <3>2. pc' \in {"scan", "loop"} /\ UNCHANGED <<phase, settings>>
      BY <1>10 DEF FileSend, FilesFail, Goto, budget
    <3>3. Flags'
      BY <1>0, <1>10 DEF FileSend, FilesFail, Goto, Places, Flags, world
    <3> QED BY <3>1, <3>2, <3>3 DEF Places, Batched, Prompt, Due
  <2>1. Refusal'
    <3>1. ~refused /\ ~error /\ connected /\ pc = "scan"
      BY <1>0, <1>10 DEF FileSend, Refusal
    <3>2. /\ refused' = refused
          /\ \/ pc' = "scan" /\ error' = error /\ connected'
             \/ pc' = "loop"
      BY <1>10, <3>1 DEF FileSend, Send, FilesFail, Goto, history
    <3> QED BY <3>1, <3>2 DEF Refusal
  <2>2. CASE UNCHANGED <<lag, gap, connected, history>>
    BY <1>0, <2>0, <2>1, <2>2, TimesKept DEF TimingInv
  <2>3. ASSUME NEW b \in BOOLEAN, Send(b) PROVE TimingInv'
    <3>1. ~refused
      BY <1>0, <1>10 DEF FileSend, Refusal
    <3>2. Times'
      BY <1>0, <2>0, <2>3, <3>1, SendKeeps
    <3> QED BY <2>0, <2>1, <3>2 DEF TimingInv
  <2> QED BY <1>10, <2>2, <2>3 DEF FileSend
<1>11. CASE ScanEnd
  <2>1. Times'
    BY <1>0, <1>11, TimesKept DEF ScanEnd, budget
  <2> QED
    BY <1>0, <1>11, <2>1
    DEF ScanEnd, Goto, Batched, Refusal, Prompt, Due, Places, Numbers, Flags,
        TimingInv, budget, history
<1>12. CASE Produce \/ UNCHANGED vars
  <2>1. UNCHANGED <<phase, lag, gap, error, connected, left, pc, budget, history>>
    BY <1>12 DEF Produce, vars
  <2>2. Times'
    BY <1>0, <2>1, TimesKept DEF budget
  <2>3. Places'
    BY <1>0, <1>12, <2>1 DEF Produce, Places, Numbers, Flags, vars, world, budget
  <2>4. Batched' /\ Refusal' /\ Prompt' /\ Due'
    BY <1>0, <2>1 DEF Batched, Refusal, Prompt, Due, history
  <2> QED BY <2>2, <2>3, <2>4 DEF TimingInv
<1> QED
  BY <1>1, <1>2, <1>3, <1>4, <1>5, <1>6, <1>7, <1>8, <1>9, <1>10, <1>11, <1>12
  DEF Next, Run

LEMMA TimingInit == Init => TimingInv
<1> SUFFICES ASSUME Init PROVE TimingInv
  OBVIOUS
<1>1. /\ MaxBack * settings = 0 /\ Horizon \in Nat /\ Ticks * Horizon \in Nat
      /\ Ticks \in Nat \ {0}
  BY Horizons, SenderTimingAssumption DEF Init
<1>2. TryElapsed /\ UseElapsed
  BY DEF Init, TryElapsed, UseElapsed
<1>3. Times
  <2>1. /\ gap = Horizon /\ lag = 0 /\ sinceTry = 0 /\ sinceUse = 0 /\ useLag = 0
        /\ tryAhead = 0 /\ useAhead = 0
        /\ connected = FALSE /\ refused = FALSE
    BY DEF Init
  <2>2. -(MaxBack * settings) <= gap
    BY <1>1, <2>1
  <2>3. 0 \in 0..(Ticks * Horizon) /\ gap \in Int /\ gap <= Horizon
    BY <1>1, <2>1
  <2> QED BY <1>2, <2>1, <2>2, <2>3 DEF Times
<1>4. Places
  <2>1. Numbers
    BY <1>1, SenderTimingAssumption DEF Init, Numbers
  <2>2. Flags
    BY DEF Init, Flags
  <2> QED BY <2>1, <2>2 DEF Places
<1> QED
  BY <1>3, <1>4 DEF Init, TimingInv, Batched, Refusal, Prompt, Due

(* The invariant, as an invariant. *)
LEMMA TimingInvariant == Spec => []TimingInv
BY TimingInit, TimingStep, PTL DEF Spec

(* A second less: what is longer by a second is longer by its ticks. *)
LEMMA SecondLess ==
  ASSUME NEW s \in Int PROVE Ticks * (s - 1) = Ticks * s - Ticks /\ Ticks * s \in Int
<1>1. Ticks * (s + (-1)) = Ticks * s + Ticks * (-1) /\ Ticks * s \in Int
  BY SenderTimingAssumption, TimesPlus
<1> QED BY <1>1, SenderTimingAssumption

LEMMA IdleLongEnough ==
  ASSUME NEW d \in Nat, d > 0, NEW i \in Int, NEW g \in Int, NEW h \in Int,
         NEW rest \in Nat, NEW use \in Nat, NEW use2 \in Nat, NEW back \in Nat,
         NEW ahead \in Nat, i <= g, i <= h, use2 = use + 1 \/ use2 = h,
         g + rest < d + use + back + ahead \/ use = h \/ back = h \/ ahead = h
  PROVE  use2 + back + ahead > i - d
BY SMT

-----------------------------------------------------------------------------
(* All variables keep their ranges, the time that the code believes has    *)
(* passed above all, which goes below zero when the clock is set back.     *)
THEOREM TimesTyped == Spec => []TypeOK
BY TimingInvariant, TypesImplied, PTL

(* A new attempt to connect that follows a refused one begins              *)
(* reconnection_time after that one began, but for the second that time()  *)
(* cuts off and for what the clock was set forward meanwhile, for all      *)
(* times that waits, calls and iterations may take and all settings of the *)
(* clock.                                                                  *)
THEOREM AttemptsSpaced == Spec => []AttemptsApart
<1>1. TimingInv => AttemptsApart
  <2> SUFFICES ASSUME TimingInv, refused, ~connected,
                      pc \in {"reconnect", "connect", "files"}
               PROVE  sinceTry + tryAhead >= Ticks * (ReconnectionTime - 1)
    BY DEF AttemptsApart
  <2>1. pc = "reconnect" /\ gap >= ReconnectionTime
    BY DEF TimingInv, Refusal, Due
  <2>2. /\ phase \in Nat /\ lag \in Nat /\ gap \in Int /\ sinceTry \in Nat
        /\ tryAhead \in Nat /\ Ticks \in Nat \ {0} /\ ReconnectionTime \in Nat
    BY SenderTimingAssumption, Horizons DEF TimingInv, Times, Places, Numbers
  <2>3. PICK g \in Int, r \in Int, h \in Int :
          /\ g = Ticks * gap /\ r = Ticks * ReconnectionTime /\ h = Ticks * Horizon
          /\ Ticks * (ReconnectionTime - 1) = r - Ticks
    BY <2>2, SecondLess, Horizons
  <2>4. r <= g /\ r <= h
    BY <2>1, <2>2, <2>3, TimesMonotonic, Horizons
  <2>5. \/ g + phase + lag <= Ticks + sinceTry + tryAhead
        \/ sinceTry = h \/ tryAhead = h
    BY <2>3 DEF TimingInv, Times, TryElapsed
  <2>6. sinceTry + tryAhead >= r - Ticks
    BY <2>2, <2>3, <2>4, <2>5
  <2> QED BY <2>3, <2>6
<1> QED BY <1>1, TimingInvariant, PTL

(* pop() times out and run() closes the connection only if it has not been *)
(* used for idle_timeout, but for the second that time() cuts off, for     *)
(* what the clock was set forward meanwhile and for the time that the      *)
(* iteration of its last use had taken.                                    *)
THEOREM IdleClosesJustified == Spec => IdleCloseJustified
<1>1. ASSUME TimingInv, [Next]_vars, pc = "pop", connected, ~connected'
      PROVE  sinceUse' + useLag + useAhead > Ticks * (IdleTimeout - 1)
  <2>1. gap >= IdleTimeout /\ sinceUse' = CutTicks(sinceUse + 1) /\ gap \in Int
    <3>1. PopNone
      BY <1>1
      DEF Next, Run, ReadClock, Sleep, Reconnect, Dispatch, PopSome, BatchConnect,
          BatchSend, FilesConnect, FileSend, ScanEnd, Produce, vars
    <3>2. gap \in Int /\ IdleTimeout \in Nat
      BY <1>1, SenderTimingAssumption DEF TimingInv, Times
    <3>3. connected' = (connected /\ gap < IdleTimeout)
      BY <3>1 DEF PopNone
    <3>4. ~(gap < IdleTimeout)
      BY <1>1, <3>3
    <3> QED BY <3>1, <3>2, <3>4 DEF PopNone, Wait
  <2>2. /\ phase \in Nat /\ lag \in Nat /\ sinceUse \in Nat /\ useLag \in Nat
        /\ useAhead \in Nat /\ Ticks \in Nat \ {0} /\ IdleTimeout \in Nat
    BY <1>1, SenderTimingAssumption, Horizons DEF TimingInv, Times, Places, Numbers
  <2>3. PICK g \in Int, i \in Int, h \in Int :
          /\ g = Ticks * gap /\ i = Ticks * IdleTimeout /\ h = Ticks * Horizon
          /\ Ticks * (IdleTimeout - 1) = i - Ticks
    BY <2>1, <2>2, SecondLess, Horizons
  <2>4. i <= g /\ i <= h
    BY <2>1, <2>2, <2>3, TimesMonotonic, Horizons
  <2>5. \/ g + phase + lag < Ticks + sinceUse + useLag + useAhead
        \/ sinceUse = h \/ useLag = h \/ useAhead = h
    BY <1>1, <2>3 DEF TimingInv, Times, UseElapsed
  <2>6. sinceUse' \in Nat /\ (sinceUse' = sinceUse + 1 \/ sinceUse' = h)
    BY <2>1, <2>2, <2>3, Cuts
  <2>7. sinceUse' + useLag + useAhead > i - Ticks
    <3>1. PICK rest \in Nat, d \in Nat, use \in Nat, use2 \in Nat, lg \in Nat,
              ah \in Nat :
            /\ rest = phase + lag /\ d = Ticks /\ d > 0
            /\ use = sinceUse /\ use2 = sinceUse' /\ lg = useLag /\ ah = useAhead
      BY <2>2, <2>6
    <3>2. /\ g + rest < d + use + lg + ah \/ use = h \/ lg = h \/ ah = h
          /\ use2 = use + 1 \/ use2 = h
          /\ i <= g /\ i <= h /\ d > 0
          /\ i \in Int /\ g \in Int /\ h \in Int
      BY <2>2, <2>3, <2>4, <2>5, <2>6, <3>1
    <3>3. use2 + lg + ah > i - d
      BY <3>2, IdleLongEnough
    <3> QED BY <3>1, <3>3
  <2> QED BY <2>3, <2>7
<1>2. TimingInv /\ [Next]_vars
      => [pc = "pop" /\ connected /\ ~connected'
            => sinceUse' + useLag + useAhead > Ticks * (IdleTimeout - 1)]_vars
  BY <1>1
<1> QED BY <1>2, TimingInvariant, PTL DEF Spec, IdleCloseJustified
=============================================================================
