---------------------------- MODULE Timing_proofs ----------------------------
(***************************************************************************)
(* What is done in time.  First the timer, on a clock of any size, for any *)
(* periods callers may use and for any uptime.                             *)
(*                                                                         *)
(* Then the MPPT controller, whose commands wait for timers: type          *)
(* correctness and the properties of the run, for every value of the       *)
(* constants.  A pass is a composition of small steps on the record: a     *)
(* lemma for each of them says that it keeps Good, and another what it     *)
(* does to the time the updates need.                                      *)
(***************************************************************************)
EXTENDS PassiveTimer, MPPTController, TLAPS


(***************************************************************************)
(* Arithmetic of a clock that wraps.                                       *)
(***************************************************************************)
LEMMA RangePositive == Range \in Nat /\ Range > 0 /\ Half \in Nat /\ Half < Range
BY TimerAssumption DEF Range

LEMMA Remainder ==
    ASSUME NEW R \in Nat, R > 0, NEW x \in Int
    PROVE  /\ x % R \in 0 .. R - 1
           /\ x \div R \in Int
           /\ x = R * (x \div R) + (x % R)
BY SMT

LEMMA RemainderUnique ==
    ASSUME NEW R \in Nat, R > 0, NEW q \in Int, NEW r \in 0 .. R - 1
    PROVE  (R * q + r) % R = r
BY SMT

(* What the clock shows d later, d less than one turn.                     *)
LEMMA ClockLater ==
    ASSUME NEW R \in Nat, R > 0, NEW x \in Int, NEW d \in 0 .. R - 1
    PROVE  (x + d) % R = IF (x % R) + d < R THEN (x % R) + d ELSE (x % R) + d - R
<1> DEFINE q == x \div R
           r == x % R
<1>1. q \in Int /\ r \in 0 .. R - 1 /\ x = R * q + r
  BY Remainder
<1> HIDE DEF q, r
<1>2. CASE r + d < R
  <2>1. r + d \in 0 .. R - 1 /\ x + d = R * q + (r + d)
    BY <1>1, <1>2
  <2>2. QED
    BY <1>1, <1>2, <2>1, RemainderUnique DEF r
<1>3. CASE ~(r + d < R)
  <2>1. r + d - R \in 0 .. R - 1 /\ q + 1 \in Int /\ x + d = R * (q + 1) + (r + d - R)
    BY <1>1, <1>3, SMT
  <2>2. (R * (q + 1) + (r + d - R)) % R = r + d - R
    BY <2>1, RemainderUnique
  <2>3. QED
    BY <1>1, <1>3, <2>1, <2>2 DEF r
<1>4. QED
  BY <1>2, <1>3

(* Adding on the clock and adding in time agree: the sum of setMilliSeconds *)
(* and advanceMilliSeconds "may wrap, but that's by design".               *)
LEMMA Wrapped ==
    ASSUME NEW R \in Nat, R > 0, NEW x \in Int, NEW d \in 0 .. R - 1
    PROVE  (x + d) % R = ((x % R) + d) % R
<1> DEFINE r == x % R
<1>1. r \in 0 .. R - 1
  BY Remainder
<1>2. (x + d) % R = IF r + d < R THEN r + d ELSE r + d - R
  BY ClockLater
<1> HIDE DEF r
<1>3. r % R = r
  BY <1>1, SMT
<1>4. (r + d) % R = IF (r % R) + d < R THEN (r % R) + d ELSE (r % R) + d - R
  BY <1>1, ClockLater
<1>5. (x + d) % R = (r + d) % R
  BY <1>2, <1>3, <1>4
<1>6. QED
  BY <1>5 DEF r

-----------------------------------------------------------------------------
(* The clock value the timer holds is the one of the time it was set for,  *)
(* and that time is never half a turn of the clock ahead.                  *)
TimerInv ==
    /\ TimerTypeOK
    /\ endTime = due % Range
    /\ due - now < Half

(* Before its time, a timer is less than Half from it: the clock has then  *)
(* not reached endTime, or has yet to wrap and is past Half.               *)
LEMMA Early == TimerInv => NeverEarly
<1> SUFFICES ASSUME TimerInv, now < due PROVE ~expired
  BY DEF TimerInv, TimerTypeOK, NeverEarly
<1> DEFINE d == due - now
<1>1. now \in Int /\ d \in 0 .. Range - 1 /\ d < Half /\ 0 < d /\ due = now + d
  BY RangePositive DEF TimerInv, TimerTypeOK
<1>2. millis \in 0 .. Range - 1
  BY <1>1, RangePositive, Remainder DEF millis
<1>3. endTime = IF millis + d < Range THEN millis + d ELSE millis + d - Range
  BY <1>1, RangePositive, ClockLater DEF TimerInv, millis
<1>4. QED
  BY <1>1, <1>2, <1>3, RangePositive DEF expired, Range

(* After its time, the clock is where endTime was plus the delay, less one *)
(* turn if it wrapped in between.                                          *)
LEMMA Delay ==
    ASSUME TimerInv, due <= now, now - due < Range
    PROVE  /\ endTime \in 0 .. Range - 1
           /\ millis = IF endTime + (now - due) < Range
                       THEN endTime + (now - due)
                       ELSE endTime + (now - due) - Range
<1> DEFINE d == now - due
<1>1. due \in Int /\ d \in 0 .. Range - 1 /\ now = due + d /\ endTime = due % Range
  BY RangePositive DEF TimerInv, TimerTypeOK
<1> HIDE DEF d
<1>2. endTime \in 0 .. Range - 1
  BY <1>1, RangePositive, Remainder
<1>3. millis = (due + d) % Range
  BY <1>1 DEF millis
<1>4. (due + d) % Range = IF endTime + d < Range THEN endTime + d ELSE endTime + d - Range
  BY <1>1, RangePositive, ClockLater
<1>5. QED
  BY <1>2, <1>3, <1>4 DEF d

LEMMA HalfTurn == TimerInv => ExpiredUntilHalfTurn
<1> SUFFICES ASSUME TimerInv, due <= now, now - due < Half
             PROVE  expired <=> (millis < Half <=> due % Range < Half)
  BY DEF ExpiredUntilHalfTurn
<1>1. now \in Nat /\ due \in Nat /\ endTime = due % Range
  BY DEF TimerInv, TimerTypeOK
<1>2. QED
  BY <1>1, Delay, RangePositive DEF expired, Range

LEMMA Elapsed == TimerInv => ElapsedIsExact
<1> SUFFICES ASSUME TimerInv, due <= now, now - due < Range PROVE elapsedTime = now - due
  BY DEF ElapsedIsExact
<1>1. now \in Nat /\ due \in Nat
  BY DEF TimerInv, TimerTypeOK
<1>2. QED
  BY <1>1, Delay, RangePositive DEF elapsedTime

-----------------------------------------------------------------------------
LEMMA TimerInitStep == TimerInit => TimerInv
<1> SUFFICES ASSUME TimerInit PROVE TimerInv
  OBVIOUS
<1>1. 0 % Range = 0
  BY RangePositive, SMT
<1>2. QED
  BY <1>1, TimerAssumption, RangePositive DEF TimerInit, TimerInv, TimerTypeOK

LEMMA Period == ASSUME NEW ms \in Periods PROVE ms \in 0 .. Range - 1 /\ ms < Half
BY TimerAssumption, RangePositive

(* The timer's bookkeeping is kept by every call and by time: setting puts *)
(* the expiry less than Half away, and an advance starts from an expiry    *)
(* that is past.                                                           *)
THEOREM TimerStep == TimerInv /\ [TimerNext]_timerVars => TimerInv'
<1> SUFFICES ASSUME TimerInv, [TimerNext]_timerVars PROVE TimerInv'
  OBVIOUS
<1>0. now \in Nat /\ due \in Nat /\ endTime = due % Range /\ due - now < Half
  BY DEF TimerInv, TimerTypeOK
<1>1. ASSUME NEW ms \in Periods, setMilliSeconds(ms) PROVE TimerInv'
  <2>1. (now + ms) % Range = (millis + ms) % Range
    <3>1. now \in Int /\ ms \in 0 .. Range - 1
      BY <1>0, Period
    <3>2. (now + ms) % Range = ((now % Range) + ms) % Range
      BY <3>1, RangePositive, Wrapped
    <3>3. QED
      BY <3>2 DEF millis
  <2>2. now + ms \in Nat /\ (now + ms) % Range \in 0 .. Range - 1
    BY <1>0, Period, RangePositive, Remainder
  <2>3. QED
    BY <1>0, <1>1, <2>1, <2>2, Period, RangePositive DEF setMilliSeconds, TimerInv, TimerTypeOK
<1>2. ASSUME NEW ms \in Periods, advanceMilliSeconds(ms) PROVE TimerInv'
  <2>1. due <= now
    BY <1>2, Early DEF advanceMilliSeconds, NeverEarly
  <2>2. (due + ms) % Range = (endTime + ms) % Range
    <3>1. due \in Int /\ ms \in 0 .. Range - 1
      BY <1>0, Period
    <3>2. (due + ms) % Range = ((due % Range) + ms) % Range
      BY <3>1, RangePositive, Wrapped
    <3>3. QED
      BY <1>0, <3>2
  <2>3. due + ms \in Nat /\ (due + ms) % Range \in 0 .. Range - 1
    BY <1>0, Period, RangePositive, Remainder
  <2>4. QED
    BY <1>0, <1>2, <2>1, <2>2, <2>3, Period, RangePositive
       DEF advanceMilliSeconds, TimerInv, TimerTypeOK
<1>3. ASSUME NEW ms \in 1 .. MaxGap, TimePasses(ms) PROVE TimerInv'
  BY <1>3, TimerAssumption, RangePositive DEF TimePasses, TimerInv, TimerTypeOK
<1>4. CASE UNCHANGED timerVars
  BY <1>4 DEF timerVars, TimerInv, TimerTypeOK
<1>5. QED
  BY <1>1, <1>2, <1>3, <1>4 DEF TimerNext

THEOREM TimerInvariance == TimerSpec => []TimerInv
BY TimerInitStep, TimerStep, PTL DEF TimerSpec

(* PassiveTimer::expired is never early: PassiveTimer.cpp:71-83.           *)
THEOREM TimerNeverEarly == TimerSpec => []NeverEarly
BY TimerInvariance, Early, PTL

(* When exactly PassiveTimer::expired sees that the time has come: until   *)
(* the clock next passes Half or wraps, and not after.                     *)
THEOREM TimerSeenUntilHalfTurn == TimerSpec => []ExpiredUntilHalfTurn
BY TimerInvariance, HalfTurn, PTL

(* PassiveTimer::elapsedTime measures right across a wrap.                 *)
THEOREM TimerElapsed == TimerSpec => []ElapsedIsExact
BY TimerInvariance, Elapsed, PTL

-----------------------------------------------------------------------------
(* The MPPT controller.                                                    *)

Bool(b) == IF b THEN 1 ELSE 0

Good(d) ==
    /\ d \in Device
    /\ d.unanswered <= d.abandoned + Bool(d.commandOutstanding)

LEMMA Constants ==
    /\ CommandTimeout \in Nat /\ CommandTimeout > 0
    /\ PingPeriod \in Nat /\ PingPeriod > 0
    /\ HistoryPeriod \in Nat /\ HistoryPeriod > 0
    /\ HistoryRegisters \in Nat /\ HistoryRegisters > 0
    /\ BlockPeriod \in Nat /\ BlockPeriod > 0
    /\ MaxUnanswered \in Nat /\ MaxUnanswered > 0
BY CommandAssumption

USE Constants

LEMMA Fields ==
    ASSUME NEW d \in Device
    PROVE  /\ d.nextHistoryRegister \in 0 .. HistoryRegisters - 1
           /\ d.historyTimer \in -HistoryPeriod .. HistoryPeriod
           /\ d.pingTimer \in -PingPeriod .. PingPeriod
           /\ d.commandOutstanding \in BOOLEAN
           /\ d.commandTimeout \in 0 .. CommandTimeout
           /\ d.unanswered \in 0 .. MaxUnanswered
           /\ d.abandoned \in 0 .. MaxUnanswered
BY DEF Device

(* A command is only sent when none is outstanding.                        *)
LEMMA SendCommandGood ==
    ASSUME NEW d, Good(d), clearToSend(d)
    PROVE  /\ Good(sendCommand(d))
           /\ sendCommand(d).historyTimer = d.historyTimer
           /\ sendCommand(d).nextHistoryRegister = d.nextHistoryRegister
<1>1. PICK n : n = UpTo(MaxUnanswered, d.unanswered + 1)
  OBVIOUS
<1>2. d \in Device /\ d.unanswered <= d.abandoned
  BY Fields, SMT DEF Good, Bool, clearToSend
<1>3. n \in 0 .. MaxUnanswered /\ n <= d.abandoned + 1
  BY <1>1, <1>2, Fields, SMT DEF UpTo
<1>4. sendCommand(d) = [d EXCEPT !.commandOutstanding = TRUE,
                                 !.commandTimeout = CommandTimeout, !.unanswered = n]
  BY <1>1 DEF sendCommand
<1>5. PICK e : e = sendCommand(d)
  OBVIOUS
<1>6. e \in Device
  <2>1. PICK t : t = CommandTimeout /\ t \in 0 .. CommandTimeout
    OBVIOUS
  <2>2. e = [d EXCEPT !.commandOutstanding = TRUE, !.commandTimeout = t, !.unanswered = n]
    BY <1>4, <1>5, <2>1
  <2> QED
    BY <1>2, <1>3, <2>1, <2>2 DEF Device
<1>7. /\ e.unanswered = n /\ e.abandoned = d.abandoned /\ e.commandOutstanding
      /\ e.historyTimer = d.historyTimer
      /\ e.nextHistoryRegister = d.nextHistoryRegister
  BY <1>2, <1>4, <1>5 DEF Device
<1> QED
  BY <1>3, <1>5, <1>6, <1>7 DEF Good, Bool

LEMMA UpdateGood ==
    ASSUME NEW d, Good(d), NEW u
    PROVE  Good(Update(d, u))
<1>1. CASE u \in d.pending /\ clearToSend(d)
  <2>1. PICK e : e = sendCommand(d)
    OBVIOUS
  <2>2. Good(e)
    BY <1>1, <2>1, SendCommandGood
  <2>3. Update(d, u) = [e EXCEPT !.pending = @ \ {u}]
    BY <1>1, <2>1 DEF Update, sendUpdate
  <2> QED
    BY <2>2, <2>3, SMT DEF Good, Device, Bool
<1>2. CASE ~(u \in d.pending /\ clearToSend(d))
  BY <1>2 DEF Update
<1> QED
  BY <1>1, <1>2

LEMMA HistoryGood ==
    ASSUME NEW d, Good(d)
    PROVE  Good(History(d))
<1>1. CASE d.historyTimer <= 0 /\ clearToSend(d)
  <2>1. PICK e : e = sendCommand(d)
    OBVIOUS
  <2>2. Good(e) /\ e.historyTimer <= 0
    BY <1>1, <2>1, SendCommandGood
  <2>3. e.nextHistoryRegister = d.nextHistoryRegister
    BY <1>1, <2>1, SendCommandGood
  <2>4. PICK r, h :
            /\ r = IF d.nextHistoryRegister + 1 = HistoryRegisters
                   THEN 0 ELSE e.nextHistoryRegister + 1
            /\ h = IF d.nextHistoryRegister + 1 = HistoryRegisters
                   THEN e.historyTimer + HistoryPeriod ELSE e.historyTimer
    OBVIOUS
  <2>5. /\ e.nextHistoryRegister \in 0 .. HistoryRegisters - 1
        /\ e.historyTimer \in -HistoryPeriod .. HistoryPeriod
    BY <2>2, Fields DEF Good
  <2>6. /\ r \in 0 .. HistoryRegisters - 1
        /\ h \in -HistoryPeriod .. HistoryPeriod
    BY <2>2, <2>3, <2>4, <2>5, SMT
  <2>7. PICK f : f = [e EXCEPT !.nextHistoryRegister = r, !.historyTimer = h]
    OBVIOUS
  <2>8. f = History(d)
    BY <1>1, <2>1, <2>4, <2>7 DEF History, walkThroughHistory
  <2>9. f \in Device
    BY <2>2, <2>6, <2>7 DEF Good, Device
  <2>10. /\ f.unanswered = e.unanswered /\ f.abandoned = e.abandoned
         /\ f.commandOutstanding = e.commandOutstanding
    BY <2>2, <2>7 DEF Good, Device
  <2> QED
    BY <2>2, <2>8, <2>9, <2>10 DEF Good
<1>2. CASE ~(d.historyTimer <= 0 /\ clearToSend(d))
  BY <1>2 DEF History
<1> QED
  BY <1>1, <1>2

(* An answer frees the slot of the newest command, but is one less of the  *)
(* unanswered; with the last of them nothing is left of those abandoned.   *)
LEMMA AnsweredGood ==
    ASSUME NEW d, Good(d), d.unanswered > 0
    PROVE  /\ Good(Answered(d))
           /\ Good([Answered(d) EXCEPT !.commandOutstanding = FALSE])
<1>1. PICK n, a : n = d.unanswered - 1 /\ a = (IF d.unanswered = 1 THEN 0 ELSE d.abandoned)
  OBVIOUS
<1>2. d \in Device
  BY DEF Good
<1>3. n \in 0 .. MaxUnanswered /\ a \in 0 .. MaxUnanswered /\ n <= a
  BY <1>1, <1>2, Fields, SMT DEF Good, Bool
<1>4. Answered(d) = [d EXCEPT !.unanswered = n, !.abandoned = a]
  BY <1>1 DEF Answered
<1>5. PICK e, f : e = Answered(d) /\ f = [Answered(d) EXCEPT !.commandOutstanding = FALSE]
  OBVIOUS
<1>6. e \in Device
  BY <1>2, <1>3, <1>4, <1>5 DEF Device
<1>7. /\ e.unanswered = n /\ e.abandoned = a
      /\ e.commandOutstanding = d.commandOutstanding
  BY <1>2, <1>4, <1>5 DEF Device
<1>8. f \in Device /\ f.unanswered = n /\ f.abandoned = a /\ ~f.commandOutstanding
  BY <1>5, <1>6, <1>7 DEF Device
<1>9. Good(e)
  BY <1>2, <1>3, <1>6, <1>7, Fields, SMT DEF Good, Bool
<1>10. Good(f)
  BY <1>3, <1>8, SMT DEF Good, Bool
<1> QED
  BY <1>5, <1>9, <1>10

LEMMA ProcessInputGood ==
    ASSUME NEW d, Good(d), NEW input \in Inputs(d)
    PROVE  Good(processInput(d, input))
BY AnsweredGood DEF Inputs, processInput

LEMMA PingGood ==
    ASSUME NEW d, Good(d)
    PROVE  Good(Ping(d))
<1>1. CASE d.pingTimer <= 0 /\ clearToSend(d)
  <2>1. PICK e : e = sendCommand(d)
    OBVIOUS
  <2>2. Good(e)
    BY <1>1, <2>1, SendCommandGood
  <2>3. Ping(d) = [e EXCEPT !.pingTimer = PingPeriod]
    BY <1>1, <2>1 DEF Ping, resendPing
  <2> QED
    BY <2>2, <2>3, SMT DEF Good, Device, Bool
<1>2. CASE ~(d.pingTimer <= 0 /\ clearToSend(d))
  BY <1>2 DEF Ping
<1> QED
  BY <1>1, <1>2

(* The command that timed out joins the abandoned.                         *)
LEMMA TimeOutGood ==
    ASSUME NEW d, Good(d)
    PROVE  Good(TimeOut(d))
<1>1. CASE d.commandOutstanding /\ d.commandTimeout = 0
  <2>1. PICK a : a = (IF d.unanswered = 0 THEN 0 ELSE UpTo(MaxUnanswered, d.abandoned + 1))
    OBVIOUS
  <2>2. d \in Device
    BY DEF Good
  <2>3. a \in 0 .. MaxUnanswered /\ d.unanswered <= a
    BY <1>1, <2>1, <2>2, Fields, SMT DEF Good, Bool, UpTo
  <2>4. TimeOut(d) = [d EXCEPT !.commandOutstanding = FALSE, !.abandoned = a]
    BY <1>1, <2>1 DEF TimeOut
  <2>5. PICK e : e = TimeOut(d)
    OBVIOUS
  <2>6. e \in Device
    BY <2>2, <2>3, <2>4, <2>5 DEF Device
  <2>7. e.unanswered = d.unanswered /\ e.abandoned = a /\ ~e.commandOutstanding
    BY <2>2, <2>4, <2>5 DEF Device
  <2> QED
    BY <2>2, <2>3, <2>5, <2>6, <2>7, Fields, SMT DEF Good, Bool
<1>2. CASE ~(d.commandOutstanding /\ d.commandTimeout = 0)
  BY <1>2 DEF TimeOut
<1> QED
  BY <1>1, <1>2

LEMMA LaterGood ==
    ASSUME NEW d, Good(d), NEW ticks \in 0 .. 1
    PROVE  Good(Later(d, ticks))
<1>1. PICK h, p, t : /\ h = LessTicks(d.historyTimer, ticks, -HistoryPeriod)
                     /\ p = LessTicks(d.pingTimer, ticks, -PingPeriod)
                     /\ t = LessTicks(d.commandTimeout, ticks, 0)
  OBVIOUS
<1>2. d \in Device
  BY DEF Good
<1>3. /\ h \in -HistoryPeriod .. HistoryPeriod
      /\ p \in -PingPeriod .. PingPeriod
      /\ t \in 0 .. CommandTimeout
  BY <1>1, <1>2, Fields, SMT DEF LessTicks
<1>4. Later(d, ticks) =
        [d EXCEPT !.historyTimer = h, !.pingTimer = p, !.commandTimeout = t]
  BY <1>1 DEF Later
<1>5. PICK e : e = Later(d, ticks)
  OBVIOUS
<1>6. e \in Device
  BY <1>2, <1>3, <1>4, <1>5 DEF Device
<1>7. /\ e.unanswered = d.unanswered /\ e.abandoned = d.abandoned
      /\ e.commandOutstanding = d.commandOutstanding
  BY <1>2, <1>4, <1>5 DEF Device
<1> QED
  BY <1>5, <1>6, <1>7 DEF Good

(***************************************************************************)
(* Why the updates leave in time.  Wait is how long the command that holds *)
(* the slot may keep it, and each update but the last takes a Slot.  A     *)
(* ping can come in between when an answer frees the slot in the middle of *)
(* a pass; it takes over from a command that had at least a tick to go,    *)
(* and there is one only in a block.  All this together is less than the   *)
(* time before the next block.                                             *)
(***************************************************************************)
Slot == CommandTimeout + 1

For(d, u) == IF u \in d.pending THEN Slot ELSE 0

Wait(d) == IF d.commandOutstanding THEN d.commandTimeout + 1 ELSE 0

PingWait(d, b) == IF d.pingTimer <= b THEN CommandTimeout ELSE 0

Need(d, b) == Wait(d) + For(d, 1) + For(d, 2) + For(d, 3) - Slot + PingWait(d, b)

InTime(d, b) == d.pending # {} => Need(d, b) < b

(* Half way through the pass, the slot is taken if an update still waits.  *)
Mid(d, b) == d.pending # {} => d.commandOutstanding /\ Need(d, b) < b

(* At its end, a tick is won, or will be by the command that was sent.     *)
Done(d, b) ==
    d.pending # {} => IF d.commandOutstanding
                      THEN d.commandTimeout > 0 /\ Need(d, b) < b
                      ELSE Need(d, b) + 1 < b

LEMMA SendCommandIs ==
    ASSUME NEW d \in Device, NEW e, e = sendCommand(d)
    PROVE  /\ e.pending = d.pending /\ e.pingTimer = d.pingTimer
           /\ e.commandOutstanding /\ e.commandTimeout = CommandTimeout
BY DEF sendCommand, Device

LEMMA UpdateInTime ==
    ASSUME NEW d, Good(d), NEW b \in Nat, InTime(d, b), NEW u \in Updates
    PROVE  /\ InTime(Update(d, u), b)
           /\ ~Update(d, u).commandOutstanding => Update(d, u) = d /\ u \notin d.pending
<1>1. d \in Device
  BY DEF Good
<1>2. CASE u \in d.pending /\ clearToSend(d)
  <2>1. PICK e : e = sendCommand(d)
    OBVIOUS
  <2>2. PICK f : f = [e EXCEPT !.pending = @ \ {u}]
    OBVIOUS
  <2>3. e \in Device
    BY <1>2, <2>1, SendCommandGood DEF Good
  <2>4. /\ f.pending = d.pending \ {u} /\ f.pingTimer = d.pingTimer
        /\ f.commandOutstanding /\ f.commandTimeout = CommandTimeout
    <3>1. /\ e.pending = d.pending /\ e.pingTimer = d.pingTimer
          /\ e.commandOutstanding /\ e.commandTimeout = CommandTimeout
      BY <1>1, <2>1, SendCommandIs
    <3> QED
      BY <2>2, <2>3, <3>1 DEF Device
  <2>5. f = Update(d, u)
    BY <1>2, <2>1, <2>2 DEF Update, sendUpdate
  <2>6. Need(d, b) < b /\ ~d.commandOutstanding
    BY <1>2 DEF InTime, clearToSend
  <2>7. Need(f, b) = Need(d, b)
    <3>1. For(d, 1) + For(d, 2) + For(d, 3) = For(f, 1) + For(f, 2) + For(f, 3) + Slot
      BY <1>2, <2>4, SMT DEF For, Updates, Slot
    <3>2. Wait(d) = 0 /\ Wait(f) = Slot /\ PingWait(d, b) = PingWait(f, b)
      BY <2>4, <2>6 DEF Wait, Slot, PingWait
    <3>3. /\ For(d, 1) \in Int /\ For(d, 2) \in Int /\ For(d, 3) \in Int
          /\ For(f, 1) \in Int /\ For(f, 2) \in Int /\ For(f, 3) \in Int
          /\ Slot \in Int /\ PingWait(d, b) \in Int
      BY DEF For, Slot, PingWait
    <3> QED
      BY <3>1, <3>2, <3>3 DEF Need
  <2> QED
    BY <2>4, <2>5, <2>6, <2>7 DEF InTime
<1>3. CASE ~(u \in d.pending /\ clearToSend(d))
  BY <1>3 DEF Update, clearToSend
<1> QED
  BY <1>2, <1>3

LEMMA SentInTime ==
    ASSUME NEW d, Good(d), NEW b \in Nat, InTime(d, b)
    PROVE  Mid(History(AllUpdates(d)), b)
<1>1. PICK e, f, g : e = Update(d, 1) /\ f = Update(e, 2) /\ g = Update(f, 3)
  OBVIOUS
<1>2. g = AllUpdates(d)
  BY <1>1 DEF AllUpdates
<1>3. Good(e) /\ Good(f) /\ Good(g)
  BY <1>1, UpdateGood
<1>4. InTime(e, b) /\ (~e.commandOutstanding => e = d /\ 1 \notin d.pending)
  BY <1>1, UpdateInTime DEF Updates
<1>5. InTime(f, b) /\ (~f.commandOutstanding => f = e /\ 2 \notin e.pending)
  BY <1>1, <1>3, <1>4, UpdateInTime DEF Updates
<1>6. InTime(g, b) /\ (~g.commandOutstanding => g = f /\ 3 \notin f.pending)
  BY <1>1, <1>3, <1>5, UpdateInTime DEF Updates
<1>7. g.pending \subseteq Updates
  BY <1>3 DEF Good, Device
<1>8. CASE g.commandOutstanding
  BY <1>2, <1>6, <1>8 DEF History, clearToSend, InTime, Mid
<1>9. CASE ~g.commandOutstanding
  <2>1. g.pending = {}
    BY <1>4, <1>5, <1>6, <1>7, <1>9 DEF Updates
  <2>2. History(g).pending = {}
    <3>1. CASE History(g) = g
      BY <2>1, <3>1
    <3>2. CASE History(g) = walkThroughHistory(g)
      <4>1. PICK h : h = sendCommand(g)
        OBVIOUS
      <4>2. h.pending = {}
        BY <1>3, <2>1, <4>1, SendCommandIs DEF Good
      <4>3. h \in Device
        BY <1>3, <1>9, <4>1, SendCommandGood DEF Good, clearToSend
      <4> QED
        BY <3>2, <4>1, <4>2, <4>3 DEF walkThroughHistory, Device
    <3> QED
      BY <3>1, <3>2 DEF History
  <2> QED
    BY <1>2, <2>2 DEF Mid
<1> QED
  BY <1>8, <1>9

(* How the fields that matter come out of the parts of VEDirectService.    *)
LEMMA AnsweredIs ==
    ASSUME NEW d \in Device, d.unanswered > 0, NEW e,
           e = [Answered(d) EXCEPT !.commandOutstanding = FALSE]
    PROVE  /\ e.pending = d.pending /\ e.pingTimer = d.pingTimer
           /\ e.historyTimer = d.historyTimer
           /\ e.nextHistoryRegister = d.nextHistoryRegister
           /\ ~e.commandOutstanding
BY DEF Answered, Device

LEMMA TimeOutIs ==
    ASSUME NEW d, Good(d), d.commandOutstanding, d.commandTimeout = 0, NEW e, e = TimeOut(d)
    PROVE  /\ e.pending = d.pending /\ e.pingTimer = d.pingTimer
           /\ e.historyTimer = d.historyTimer
           /\ e.nextHistoryRegister = d.nextHistoryRegister
           /\ ~e.commandOutstanding
<1>1. PICK a : a = (IF d.unanswered = 0 THEN 0 ELSE UpTo(MaxUnanswered, d.abandoned + 1))
  OBVIOUS
<1>2. e = [d EXCEPT !.commandOutstanding = FALSE, !.abandoned = a]
  BY <1>1 DEF TimeOut
<1>3. d \in Device
  BY DEF Good
<1> QED
  BY <1>2, <1>3 DEF Device

LEMMA PingIs ==
    ASSUME NEW d, Good(d), d.pingTimer <= 0, clearToSend(d), NEW e, e = Ping(d)
    PROVE  /\ e.pending = d.pending /\ e.pingTimer = PingPeriod
           /\ e.historyTimer = d.historyTimer
           /\ e.nextHistoryRegister = d.nextHistoryRegister
           /\ e.commandOutstanding /\ e.commandTimeout = CommandTimeout
<1>1. PICK f : f = sendCommand(d)
  OBVIOUS
<1>2. f \in Device /\ f.pending = d.pending /\ f.commandOutstanding
      /\ f.commandTimeout = CommandTimeout /\ f.historyTimer = d.historyTimer
      /\ f.nextHistoryRegister = d.nextHistoryRegister
  BY <1>1, SendCommandGood, SendCommandIs DEF Good
<1>3. e = [f EXCEPT !.pingTimer = PingPeriod]
  BY <1>1 DEF Ping, resendPing
<1> QED
  BY <1>2, <1>3 DEF Device

(* Need as numbers: what waits, and the ping, apart.                       *)
LEMMA NeedIs ==
    ASSUME NEW d, Good(d), NEW b \in Nat
    PROVE  /\ Wait(d) \in Nat /\ PingWait(d, b) \in Nat
           /\ For(d, 1) + For(d, 2) + For(d, 3) - Slot \in Int
           /\ Need(d, b) = Wait(d) + (For(d, 1) + For(d, 2) + For(d, 3) - Slot) + PingWait(d, b)
           /\ d.pending # {} => For(d, 1) + For(d, 2) + For(d, 3) - Slot >= 0
<1>1. d \in Device
  BY DEF Good
<1>2. Wait(d) \in Nat /\ PingWait(d, b) \in Nat /\ Slot \in Nat
  BY <1>1, Fields DEF Wait, PingWait, Slot
<1>3. For(d, 1) \in {0, Slot} /\ For(d, 2) \in {0, Slot} /\ For(d, 3) \in {0, Slot}
  BY DEF For
<1>4. d.pending # {} => For(d, 1) = Slot \/ For(d, 2) = Slot \/ For(d, 3) = Slot
  BY <1>1 DEF For, Device, Updates
<1> QED
  BY <1>2, <1>3, <1>4 DEF Need

LEMMA ServedInTime ==
    ASSUME NEW d, Good(d), NEW b \in 0 .. BlockPeriod, Mid(d, b), NEW input \in Inputs(d)
    PROVE  Done(VEDirectService(d, input), b)
<1> b \in Nat
  OBVIOUS
<1>1. PICK e, f, g : e = processInput(d, input) /\ f = Ping(e) /\ g = TimeOut(f)
  OBVIOUS
<1>2. g = VEDirectService(d, input)
  BY <1>1 DEF VEDirectService
<1>3. Good(e) /\ Good(f) /\ Good(g)
  BY <1>1, ProcessInputGood, PingGood, TimeOutGood
<1>4. d \in Device /\ e \in Device /\ f \in Device /\ g \in Device
  BY <1>3 DEF Good
<1> DEFINE L(x) == For(x, 1) + For(x, 2) + For(x, 3) - Slot
<1>5. SUFFICES ASSUME g.pending # {}
               PROVE  IF g.commandOutstanding
                      THEN g.commandTimeout > 0 /\ Need(g, b) < b
                      ELSE Need(g, b) + 1 < b
  BY <1>2 DEF Done
<1>6. f.pending = g.pending
  BY <1>1, <1>3, <1>4, TimeOutIs DEF TimeOut
<1>7. e.pending = g.pending
  BY <1>1, <1>3, <1>6, PingIs DEF Ping
<1>8. CASE input = "answer"
  <2>1. d.unanswered > 0
    BY <1>8 DEF Inputs
  <2>2. e = [Answered(d) EXCEPT !.commandOutstanding = FALSE]
    BY <1>1, <1>8 DEF processInput
  <2>3. /\ e.pending = d.pending /\ e.pingTimer = d.pingTimer
        /\ ~e.commandOutstanding
    BY <1>4, <2>1, <2>2, AnsweredIs
  <2>4. d.commandOutstanding /\ Need(d, b) < b
    BY <1>5, <1>7, <2>3 DEF Mid
  <2>5. Wait(e) = 0 /\ Wait(d) >= 1 /\ L(e) = L(d) /\ PingWait(e, b) = PingWait(d, b)
    BY <1>4, <2>3, <2>4, Fields DEF Wait, For, PingWait
  <2>6. Need(e, b) + 1 < b
    BY <1>3, <2>4, <2>5, NeedIs
  <2>7. CASE e.pingTimer <= 0
    <3>1. /\ f.pingTimer = PingPeriod
          /\ f.commandOutstanding /\ f.commandTimeout = CommandTimeout
      BY <1>1, <1>3, <2>3, <2>7, PingIs DEF clearToSend
    <3>2. g = f
      BY <1>1, <3>1 DEF TimeOut
    <3>3. L(f) = L(e)
      BY <1>6, <1>7 DEF For
    <3>4. PingWait(e, b) = CommandTimeout /\ PingWait(f, b) = 0
      BY <1>4, <2>7, <3>1, PaceAssumption, Fields DEF PingWait
    <3>5. Wait(f) = CommandTimeout + 1
      BY <3>1 DEF Wait
    <3>6. Need(f, b) = Need(e, b) + 1
      <4>1. /\ Need(f, b) = Wait(f) + L(f) + PingWait(f, b)
            /\ Need(e, b) = Wait(e) + L(e) + PingWait(e, b) /\ L(e) \in Int
        BY <1>3, NeedIs
      <4> HIDE DEF L
      <4> QED
        BY <2>5, <3>3, <3>4, <3>5, <4>1
    <3> QED
      BY <2>6, <3>1, <3>2, <3>6
  <2>8. CASE ~(e.pingTimer <= 0)
    <3>1. g = e
      BY <1>1, <2>3, <2>8 DEF Ping, TimeOut
    <3> QED
      BY <2>3, <2>6, <3>1
  <2> QED
    BY <2>7, <2>8
<1>9. CASE input # "answer"
  <2>1. e = d
    BY <1>1, <1>9 DEF processInput
  <2>2. d.commandOutstanding /\ Need(d, b) < b
    BY <1>5, <1>7, <2>1 DEF Mid
  <2>3. f = d
    BY <1>1, <2>1, <2>2 DEF Ping, clearToSend
  <2>4. CASE d.commandTimeout = 0
    <3>1. g.pingTimer = d.pingTimer /\ ~g.commandOutstanding
      BY <1>1, <2>2, <2>3, <2>4, TimeOutIs
    <3>2. Wait(d) = 1 /\ Wait(g) = 0 /\ L(g) = L(d) /\ PingWait(g, b) = PingWait(d, b)
      BY <1>6, <2>2, <2>3, <2>4, <3>1 DEF Wait, For, PingWait
    <3>3. Need(g, b) + 1 = Need(d, b)
      BY <1>3, <3>2, NeedIs
    <3> QED
      BY <2>2, <3>1, <3>3
  <2>5. CASE d.commandTimeout # 0
    <3>1. g = d
      BY <1>1, <2>3, <2>5 DEF TimeOut
    <3> QED
      BY <1>4, <2>2, <2>5, <3>1, Fields
  <2> QED
    BY <2>4, <2>5
<1> QED
  BY <1>8, <1>9

(* A tick later: the command in the slot, the ping and the next block are  *)
(* all a tick closer.                                                      *)
LEMMA LaterInTime ==
    ASSUME NEW d, Good(d), NEW b \in Nat, Done(d, b), NEW ticks \in 0 .. 1
    PROVE  InTime(Later(d, ticks), LessTicks(b, ticks, 0))
<1>1. PICK e, c : e = Later(d, ticks) /\ c = LessTicks(b, ticks, 0)
  OBVIOUS
<1>2. PICK h, p, t : /\ h = LessTicks(d.historyTimer, ticks, -HistoryPeriod)
                     /\ p = LessTicks(d.pingTimer, ticks, -PingPeriod)
                     /\ t = LessTicks(d.commandTimeout, ticks, 0)
  OBVIOUS
<1>3. d \in Device
  BY DEF Good
<1>4. e = [d EXCEPT !.historyTimer = h, !.pingTimer = p, !.commandTimeout = t]
  BY <1>1, <1>2 DEF Later
<1>5. /\ e.pending = d.pending /\ e.pingTimer = p /\ e.commandTimeout = t
      /\ e.commandOutstanding = d.commandOutstanding
  BY <1>3, <1>4 DEF Device
<1>6. Good(e)
  BY <1>1, LaterGood
<1> DEFINE L(x) == For(x, 1) + For(x, 2) + For(x, 3) - Slot
<1>7. SUFFICES ASSUME d.pending # {}
               PROVE  Need(e, c) < c
  BY <1>1, <1>5 DEF InTime
<1>8. c \in Nat
  BY <1>1 DEF LessTicks
<1>9. Need(d, b) >= 0
  BY <1>7, NeedIs
<1>10. b > 0 /\ Need(d, b) < b
  BY <1>7, <1>9, NeedIs DEF Done
<1>11. c = b - ticks
  BY <1>1, <1>10 DEF LessTicks
<1>12. L(e) = L(d)
  BY <1>5 DEF For
<1>13. PingWait(e, c) <= PingWait(d, b)
  <2>1. p <= c => d.pingTimer <= b
    BY <1>2, <1>3, <1>8, <1>11, Fields DEF LessTicks
  <2> QED
    BY <1>5, <2>1 DEF PingWait
<1>14. CASE d.commandOutstanding
  <2>1. d.commandTimeout > 0
    BY <1>7, <1>14 DEF Done
  <2>2. t = d.commandTimeout - ticks
    BY <1>2, <1>3, <2>1, Fields DEF LessTicks
  <2>3. Wait(e) = Wait(d) - ticks
    BY <1>3, <1>5, <1>14, <2>2, Fields DEF Wait
  <2> QED
    BY <1>6, <1>8, <1>10, <1>11, <1>12, <1>13, <2>3, NeedIs
<1>15. CASE ~d.commandOutstanding
  <2>1. Wait(e) = 0 /\ Wait(d) = 0
    BY <1>5, <1>15 DEF Wait
  <2>2. Need(d, b) + 1 < b
    BY <1>7, <1>15 DEF Done
  <2> QED
    BY <1>6, <1>8, <1>11, <1>12, <1>13, <2>1, <2>2, NeedIs
<1> QED
  BY <1>14, <1>15

(* When a block comes nothing waits any more: at worst there are the rest  *)
(* of a command, two updates and a ping to wait for.                       *)
LEMMA BlockInTime ==
    ASSUME NEW e, Good(e)
    PROVE  InTime(e, BlockPeriod)
<1>1. e \in Device
  BY DEF Good
<1>2. Wait(e) <= Slot /\ PingWait(e, BlockPeriod) <= CommandTimeout
  BY <1>1, Fields DEF Wait, PingWait, Slot
<1>3. For(e, 1) \in {0, Slot} /\ For(e, 2) \in {0, Slot} /\ For(e, 3) \in {0, Slot}
  BY DEF For
<1>4. Wait(e) \in Nat /\ PingWait(e, BlockPeriod) \in Nat /\ Slot \in Nat
  BY NeedIs DEF Slot
<1>5. Need(e, BlockPeriod) < 4 * Slot
  BY <1>2, <1>3, <1>4 DEF Need, Slot
<1> QED
  BY <1>5, PaceAssumption, NeedIs DEF InTime, Slot

-----------------------------------------------------------------------------
IInv == TypeOK /\ CommandsAccountedFor /\ InTime(mppt, blockTimer)

LEMMA InitIInv == Init => IInv
<1> SUFFICES ASSUME Init PROVE IInv
  OBVIOUS
<1>1. TypeOK /\ CommandsAccountedFor
  BY SMT DEF Init, TypeOK, CommandsAccountedFor, Device
<1>2. InTime(mppt, blockTimer)
  BY DEF Init, InTime
<1> QED
  BY <1>1, <1>2 DEF IInv

LEMMA NextIInv == IInv /\ [Next]_vars => IInv'
<1> SUFFICES ASSUME Good(mppt), blockTimer \in 0 .. BlockPeriod,
                    InTime(mppt, blockTimer), [Next]_vars
             PROVE  /\ Good(mppt') /\ blockTimer' \in 0 .. BlockPeriod
                    /\ InTime(mppt', blockTimer')
  BY DEF IInv, TypeOK, CommandsAccountedFor, Good, Bool
<1> blockTimer \in Nat
  OBVIOUS
<1>1. CASE service
  <2>1. PICK sent, input, ticks :
            /\ sent = History(AllUpdates(mppt))
            /\ input \in Inputs(sent) /\ ticks \in 0 .. 1
            /\ mppt' = Later(VEDirectService(sent, input), ticks)
            /\ blockTimer' = LessTicks(blockTimer, ticks, 0)
    BY <1>1 DEF service
  <2>2. PICK served : served = VEDirectService(sent, input)
    OBVIOUS
  <2>3. Good(sent)
    BY <2>1, UpdateGood, HistoryGood DEF AllUpdates
  <2>4. Good(served)
    <3>1. Good(processInput(sent, input))
      BY <2>1, <2>3, ProcessInputGood
    <3>2. Good(Ping(processInput(sent, input)))
      BY <3>1, PingGood
    <3> QED
      BY <2>2, <3>2, TimeOutGood DEF VEDirectService
  <2>5. Good(mppt')
    BY <2>1, <2>2, <2>4, LaterGood
  <2>6. blockTimer' \in 0 .. BlockPeriod
    BY <2>1, SMT DEF LessTicks
  <2>7. Mid(sent, blockTimer)
    BY <2>1, SentInTime
  <2>8. Done(served, blockTimer)
    BY <2>1, <2>2, <2>3, <2>7, ServedInTime
  <2>9. InTime(mppt', blockTimer')
    BY <2>1, <2>2, <2>4, <2>8, LaterInTime
  <2> QED
    BY <2>5, <2>6, <2>9
<1>2. CASE BlockReceived
  <2>1. PICK updates \in SUBSET Updates : mppt' = [mppt EXCEPT !.pending = @ \cup updates]
    BY <1>2 DEF BlockReceived
  <2>2. mppt' \in Device /\ mppt'.unanswered = mppt.unanswered
        /\ mppt'.abandoned = mppt.abandoned
        /\ mppt'.commandOutstanding = mppt.commandOutstanding
    BY <2>1 DEF Good, Device
  <2>3. Good(mppt')
    BY <2>2 DEF Good
  <2> QED
    BY <1>2, <2>3, BlockInTime DEF BlockReceived
<1>3. CASE Lost
  <2>1. Good(mppt')
    BY <1>3, AnsweredGood DEF Lost
  <2>2. /\ mppt'.pending = mppt.pending /\ mppt'.pingTimer = mppt.pingTimer
        /\ mppt'.commandOutstanding = mppt.commandOutstanding
        /\ mppt'.commandTimeout = mppt.commandTimeout
    BY <1>3 DEF Lost, Answered, Good, Device
  <2>3. InTime(mppt', blockTimer)
    BY <2>2 DEF InTime, Need, Wait, For, PingWait
  <2> QED
    BY <1>3, <2>1, <2>3 DEF Lost
<1>4. CASE UNCHANGED vars
  BY <1>4 DEF vars
<1> QED
  BY <1>1, <1>2, <1>3, <1>4 DEF Next

(* Whatever the timers and the numbers of registers and periods are, the   *)
(* state of the command slot stays within its type: the index of the walk  *)
(* in range, no timer above its period.                                    *)
THEOREM MPPTTypeCorrect == Spec => []TypeOK
<1>1. Spec => []IInv
  BY InitIInv, NextIInv, PTL DEF Spec
<1> QED
  BY <1>1, PTL DEF IInv

(* Whatever is lost or late, no more commands are under way than were      *)
(* abandoned by a timeout, and the one that holds the slot.                *)
THEOREM MPPTCommandsAccountedFor == Spec => []CommandsAccountedFor
<1>1. Spec => []IInv
  BY InitIInv, NextIInv, PTL DEF Spec
<1> QED
  BY <1>1, PTL DEF IInv

(* The hardest promise of the slot: for every pace that satisfies          *)
(* PaceAssumption no value of the BMV is overwritten by the next before it *)
(* was sent.                                                               *)
THEOREM MPPTUpdatesLeaveInTime == Spec => []UpdatesLeaveInTime
<1>1. Spec => []IInv
  BY InitIInv, NextIInv, PTL DEF Spec
<1>2. IInv => UpdatesLeaveInTime
  <2> SUFFICES ASSUME IInv, blockTimer = 0, mppt.pending # {} PROVE FALSE
    BY DEF UpdatesLeaveInTime
  <2>1. Good(mppt) /\ Need(mppt, 0) < 0
    BY DEF IInv, TypeOK, CommandsAccountedFor, Good, Bool, InTime
  <2> QED
    BY <2>1, NeedIs
<1> QED
  BY <1>1, <1>2, PTL

-----------------------------------------------------------------------------
(***************************************************************************)
(* Why the polls are in time.  While a ping or a walk is due the slot is   *)
(* never left free, so that what still has to be sent before it, its load, *)
(* shrinks by a tick in every tick; a block adds three slots, once in a    *)
(* BlockPeriod.  Weighed against the time since the last block the load    *)
(* therefore shrinks at a constant Pace, and a poll that is due cannot     *)
(* wait longer than Most over Pace.                                        *)
(***************************************************************************)
Pace == BlockPeriod - 3 * Slot

Most == BlockPeriod * (Slot * (HistoryRegisters + 8))

IsRoom(w) ==
    /\ w \in 1 .. PingPeriod
    /\ 2 * w <= HistoryPeriod
    /\ Most < Pace * w

Bound(timer, load, b) ==
    timer <= 0 =>
        BlockPeriod * load + 3 * Slot * (BlockPeriod - b) <= Most + Pace * timer

LEMMA Product ==
    ASSUME NEW m \in Nat, NEW n \in Nat
    PROVE  m * n \in Nat
BY SMT

LEMMA ProductGrows ==
    ASSUME NEW m \in Nat, NEW a \in Int, NEW b \in Int, a <= b
    PROVE  m * a <= m * b
BY SMT

(* The numbers the bounds are made of.                                     *)
LEMMA PaceIs ==
    /\ Slot \in Nat /\ Slot > 0 /\ Pace \in Nat /\ Pace > 0
    /\ BlockPeriod = Pace + 3 * Slot
    /\ Most \in Nat
<1>1. Slot \in Nat /\ Slot > 0 /\ Pace \in Nat /\ Pace > 0
  BY PaceAssumption DEF Slot, Pace
<1>2. BlockPeriod = Pace + 3 * Slot
  BY <1>1 DEF Pace
<1>3. Slot * (HistoryRegisters + 8) \in Nat
  BY <1>1, Product
<1> QED
  BY <1>1, <1>2, <1>3, Product DEF Most

(* A load that does not grow keeps its bound.                              *)
LEMMA BoundStays ==
    ASSUME NEW t \in Int, NEW l \in Int, NEW k \in Int, k <= l,
           NEW b \in 0 .. BlockPeriod, Bound(t, l, b)
    PROVE  Bound(t, k, b)
<1>1. BlockPeriod * k <= BlockPeriod * l
  BY ProductGrows
<1>2. BlockPeriod * k \in Int /\ BlockPeriod * l \in Int
  OBVIOUS
<1> QED
  BY <1>1, <1>2, PaceIs DEF Bound

LEMMA BoundTicks ==
    ASSUME NEW t \in Int, t <= 0, NEW l \in Int, NEW k \in Int, k + 1 <= l,
           NEW b \in 0 .. BlockPeriod, Bound(t, l, b)
    PROVE  Bound(t - 1, k, LessTicks(b, 1, 0))
<1>1. BlockPeriod * k <= BlockPeriod * l - BlockPeriod
  <2>1. BlockPeriod * k <= BlockPeriod * (l - 1)
    BY ProductGrows
  <2> QED
    BY <2>1
<1>2. PICK c : c = LessTicks(b, 1, 0) /\ c \in Int /\ b - 1 <= c
  BY DEF LessTicks
<1>3. 3 * Slot * (BlockPeriod - c) <= 3 * Slot * (BlockPeriod - b) + 3 * Slot
  <2>1. 3 * Slot * (BlockPeriod - c) <= 3 * Slot * (BlockPeriod - b + 1)
    <3>1. 3 * Slot \in Nat
      BY PaceIs
    <3> QED
      BY <1>2, <3>1, ProductGrows
  <2> QED
    BY <2>1, PaceIs
<1>4. Pace * (t - 1) = Pace * t - Pace
  BY PaceIs
<1>5. BlockPeriod * l + 3 * Slot * (BlockPeriod - b) <= Most + Pace * t
  BY DEF Bound
<1>6. /\ BlockPeriod * l \in Int /\ BlockPeriod * k \in Int /\ Pace * t \in Int
      /\ 3 * Slot * (BlockPeriod - b) \in Int /\ 3 * Slot * (BlockPeriod - c) \in Int
  BY <1>2, PaceIs
<1>7. BlockPeriod * k + 3 * Slot * (BlockPeriod - c) <= Most + Pace * (t - 1)
  <2> QED
    BY <1>1, <1>3, <1>4, <1>5, <1>6, PaceIs
<1> QED
  BY <1>2, <1>7 DEF Bound

(* A block adds three slots, and puts the timer of blocks back.            *)
LEMMA BoundTakesBlock ==
    ASSUME NEW t \in Int, NEW l \in Int, NEW k \in Int, k <= l + 3 * Slot, Bound(t, l, 0)
    PROVE  Bound(t, k, BlockPeriod)
<1> SUFFICES ASSUME t <= 0
             PROVE  BlockPeriod * k + 3 * Slot * (BlockPeriod - BlockPeriod) <= Most + Pace * t
  BY DEF Bound
<1>1. BlockPeriod * k <= BlockPeriod * l + BlockPeriod * (3 * Slot)
  <2>1. BlockPeriod * k <= BlockPeriod * (l + 3 * Slot)
    BY PaceIs, ProductGrows
  <2> QED
    BY <2>1, PaceIs
<1>2. BlockPeriod * l + 3 * Slot * (BlockPeriod - 0) <= Most + Pace * t
  BY DEF Bound
<1>3. 3 * Slot * (BlockPeriod - 0) = BlockPeriod * (3 * Slot)
  BY PaceIs
<1>4. 3 * Slot * (BlockPeriod - BlockPeriod) = 0
  BY PaceIs
<1>5. /\ BlockPeriod * l \in Int /\ BlockPeriod * k \in Int /\ Pace * t \in Int
      /\ BlockPeriod * (3 * Slot) \in Int
  BY PaceIs
<1> QED
  BY <1>1, <1>2, <1>3, <1>4, <1>5, PaceIs

(* When a poll becomes due its load is at most a walk and five slots.      *)
LEMMA BoundStarts ==
    ASSUME NEW l \in Int, l <= Slot * (HistoryRegisters + 5), NEW b \in 0 .. BlockPeriod
    PROVE  Bound(0, l, b)
<1>1. Slot * (HistoryRegisters + 5) \in Int
  BY PaceIs
<1>2. BlockPeriod * l <= BlockPeriod * (Slot * (HistoryRegisters + 5))
  BY <1>1, ProductGrows
<1>3. 3 * Slot * (BlockPeriod - b) <= 3 * Slot * BlockPeriod
  <2>1. 3 * Slot \in Nat
    BY PaceIs
  <2> QED
    BY <2>1, ProductGrows
<1>4. Most = BlockPeriod * (Slot * (HistoryRegisters + 5)) + 3 * Slot * BlockPeriod
  BY PaceIs DEF Most
<1>5. /\ BlockPeriod * l \in Int /\ BlockPeriod * (Slot * (HistoryRegisters + 5)) \in Int
      /\ 3 * Slot * BlockPeriod \in Int /\ 3 * Slot * (BlockPeriod - b) \in Int
  BY <1>1, PaceIs
<1>6. Pace * 0 = 0
  BY PaceIs
<1> QED
  BY <1>2, <1>3, <1>4, <1>5, <1>6 DEF Bound

LEMMA BoundHolds ==
    ASSUME NEW w, IsRoom(w), NEW t \in Int, NEW l \in Nat, NEW b \in 0 .. BlockPeriod,
           Bound(t, l, b)
    PROVE  t > -w
<1> w \in Nat
  BY DEF IsRoom
<1> SUFFICES ASSUME t <= -w PROVE FALSE
  OBVIOUS
<1>1. BlockPeriod * l \in Nat /\ 3 * Slot * (BlockPeriod - b) \in Nat
  <2>1. 3 * Slot \in Nat /\ BlockPeriod - b \in Nat
    BY PaceIs
  <2> QED
    BY <2>1, Product
<1>2. Pace * t <= Pace * (-w)
  BY PaceIs, ProductGrows
<1>3. Pace * (-w) = -(Pace * w)
  BY PaceIs
<1>4. Pace * w \in Int /\ Pace * t \in Int
  BY PaceIs
<1>5. BlockPeriod * l + 3 * Slot * (BlockPeriod - b) <= Most + Pace * t
  BY DEF Bound, IsRoom
<1> QED
  BY <1>1, <1>2, <1>3, <1>4, <1>5, PaceIs DEF IsRoom

(***************************************************************************)
(* The loads.  A walk comes before the ping only if it is due within w of  *)
(* it, and the ping before the end of the walk likewise.                   *)
(***************************************************************************)
Cost(d) == Wait(d) + For(d, 1) + For(d, 2) + For(d, 3)

WalkLeft(d) == Slot * (HistoryRegisters - d.nextHistoryRegister)

WalkAhead(d, w) == IF d.historyTimer - d.pingTimer >= w THEN 0 ELSE WalkLeft(d)

PingAhead(d, w) == IF d.pingTimer - d.historyTimer >= w THEN 0 ELSE Slot

PingLoad(d, w) == Cost(d) + WalkAhead(d, w)

WalkLoad(d, w) == Cost(d) + WalkLeft(d) + PingAhead(d, w)

LEMMA LoadsAre ==
    ASSUME NEW d \in Device, NEW w
    PROVE  /\ Cost(d) \in Nat /\ WalkLeft(d) \in Nat
           /\ WalkAhead(d, w) \in Nat /\ PingAhead(d, w) \in Nat
           /\ PingLoad(d, w) \in Nat /\ PingLoad(d, w) <= Slot * (HistoryRegisters + 5)
           /\ WalkLoad(d, w) \in Nat /\ WalkLoad(d, w) <= Slot * (HistoryRegisters + 5)
<1>1. Wait(d) \in 0 .. Slot
  BY Fields, PaceIs DEF Wait, Slot
<1>2. For(d, 1) \in {0, Slot} /\ For(d, 2) \in {0, Slot} /\ For(d, 3) \in {0, Slot}
  BY DEF For
<1>3. Cost(d) \in 0 .. 4 * Slot
  BY <1>1, <1>2, PaceIs DEF Cost
<1>4. WalkLeft(d) \in 0 .. Slot * HistoryRegisters
  <2>1. HistoryRegisters - d.nextHistoryRegister \in Nat
    BY Fields
  <2>2. HistoryRegisters - d.nextHistoryRegister <= HistoryRegisters
    BY Fields
  <2>3. WalkLeft(d) \in Nat
    BY <2>1, Product, PaceIs DEF WalkLeft
  <2>4. WalkLeft(d) <= Slot * HistoryRegisters
    BY <2>1, <2>2, ProductGrows, PaceIs DEF WalkLeft
  <2>5. Slot * HistoryRegisters \in Nat
    BY Product, PaceIs
  <2> QED
    BY <2>3, <2>4, <2>5
<1>5. Slot * HistoryRegisters \in Nat
  BY Product, PaceIs
<1>6. WalkAhead(d, w) \in 0 .. Slot * HistoryRegisters
  BY <1>4, <1>5 DEF WalkAhead
<1>7. PingAhead(d, w) \in 0 .. Slot
  BY PaceIs DEF PingAhead
<1>8. Slot * (HistoryRegisters + 5) = Slot * HistoryRegisters + 5 * Slot
  BY PaceIs
<1>9. PingLoad(d, w) \in 0 .. Slot * HistoryRegisters + 5 * Slot
  BY <1>3, <1>5, <1>6, PaceIs DEF PingLoad
<1>10. WalkLoad(d, w) \in 0 .. Slot * HistoryRegisters + 5 * Slot
  BY <1>3, <1>4, <1>5, <1>7, PaceIs DEF WalkLoad
<1> QED
  BY <1>3, <1>4, <1>5, <1>6, <1>7, <1>8, <1>9, <1>10, PaceIs

(* The loads depend on these fields only.                                  *)
LEMMA SameLoads ==
    ASSUME NEW d, NEW e, NEW w, Cost(e) = Cost(d),
           e.historyTimer = d.historyTimer, e.pingTimer = d.pingTimer,
           e.nextHistoryRegister = d.nextHistoryRegister
    PROVE  PingLoad(e, w) = PingLoad(d, w) /\ WalkLoad(e, w) = WalkLoad(d, w)
BY DEF PingLoad, WalkLoad, WalkAhead, PingAhead, WalkLeft

(* A value that is sent costs in the slot what it cost while it waited.    *)
LEMMA UpdateCosts ==
    ASSUME NEW d, Good(d), NEW u \in Updates
    PROVE  /\ Good(Update(d, u)) /\ Cost(Update(d, u)) = Cost(d)
           /\ Update(d, u).historyTimer = d.historyTimer
           /\ Update(d, u).pingTimer = d.pingTimer
           /\ Update(d, u).nextHistoryRegister = d.nextHistoryRegister
<1>1. d \in Device
  BY DEF Good
<1>2. CASE u \in d.pending /\ clearToSend(d)
  <2>1. PICK e : e = sendCommand(d)
    OBVIOUS
  <2>2. PICK f : f = [e EXCEPT !.pending = @ \ {u}]
    OBVIOUS
  <2>3. e \in Device
    BY <1>2, <2>1, SendCommandGood DEF Good
  <2>4. /\ e.pending = d.pending /\ e.pingTimer = d.pingTimer
        /\ e.commandOutstanding /\ e.commandTimeout = CommandTimeout
    BY <1>1, <2>1, SendCommandIs
  <2>5. /\ e.historyTimer = d.historyTimer
        /\ e.nextHistoryRegister = d.nextHistoryRegister
    BY <1>2, <2>1, SendCommandGood
  <2>6. /\ f.pending = d.pending \ {u} /\ f.pingTimer = d.pingTimer
        /\ f.commandOutstanding /\ f.commandTimeout = CommandTimeout
        /\ f.historyTimer = d.historyTimer
        /\ f.nextHistoryRegister = d.nextHistoryRegister
    BY <2>2, <2>3, <2>4, <2>5 DEF Device
  <2>7. f = Update(d, u)
    BY <1>2, <2>1, <2>2 DEF Update, sendUpdate
  <2>8. For(d, 1) + For(d, 2) + For(d, 3) = For(f, 1) + For(f, 2) + For(f, 3) + Slot
    BY <1>2, <2>6, SMT DEF For, Updates, Slot
  <2>9. Wait(d) = 0 /\ Wait(f) = Slot
    BY <1>2, <2>6 DEF Wait, Slot, clearToSend
  <2>10. /\ For(d, 1) \in Int /\ For(d, 2) \in Int /\ For(d, 3) \in Int
         /\ For(f, 1) \in Int /\ For(f, 2) \in Int /\ For(f, 3) \in Int
    BY PaceIs DEF For
  <2>11. Cost(f) = Cost(d)
    BY <2>8, <2>9, <2>10, PaceIs DEF Cost
  <2> QED
    BY <2>6, <2>7, <2>11, UpdateGood
<1>3. CASE ~(u \in d.pending /\ clearToSend(d))
  BY <1>3 DEF Update
<1> QED
  BY <1>2, <1>3

LEMMA UpdatesCost ==
    ASSUME NEW d, Good(d), NEW e, e = AllUpdates(d)
    PROVE  /\ Good(e) /\ Cost(e) = Cost(d)
           /\ e.historyTimer = d.historyTimer /\ e.pingTimer = d.pingTimer
           /\ e.nextHistoryRegister = d.nextHistoryRegister
<1>1. PICK f, g : f = Update(d, 1) /\ g = Update(f, 2)
  OBVIOUS
<1>2. /\ Good(f) /\ Cost(f) = Cost(d)
      /\ f.historyTimer = d.historyTimer /\ f.pingTimer = d.pingTimer
      /\ f.nextHistoryRegister = d.nextHistoryRegister
  BY <1>1, UpdateCosts DEF Updates
<1>3. /\ Good(g) /\ Cost(g) = Cost(f)
      /\ g.historyTimer = f.historyTimer /\ g.pingTimer = f.pingTimer
      /\ g.nextHistoryRegister = f.nextHistoryRegister
  BY <1>1, <1>2, UpdateCosts DEF Updates
<1>4. e = Update(g, 3)
  BY <1>1 DEF AllUpdates
<1> QED
  BY <1>2, <1>3, <1>4, UpdateCosts DEF Updates

(* A request of the walk takes from what is left of it what it costs in    *)
(* the slot; with the last one the walk is not due again for so long that  *)
(* the ping comes before it.                                               *)
LEMMA RequestIs ==
    ASSUME NEW d, Good(d), d.historyTimer <= 0, clearToSend(d), NEW e, e = History(d)
    PROVE  /\ Good(e) /\ e.commandOutstanding /\ e.pingTimer = d.pingTimer
           /\ Cost(e) = Cost(d) + Slot
           /\ IF d.nextHistoryRegister + 1 = HistoryRegisters
              THEN e.nextHistoryRegister = 0 /\ e.historyTimer = d.historyTimer + HistoryPeriod
              ELSE /\ e.nextHistoryRegister = d.nextHistoryRegister + 1
                   /\ e.historyTimer = d.historyTimer
<1>1. d \in Device
  BY DEF Good
<1>2. PICK f : f = sendCommand(d)
  OBVIOUS
<1>3. /\ f \in Device /\ f.historyTimer = d.historyTimer
      /\ f.nextHistoryRegister = d.nextHistoryRegister
  BY <1>2, SendCommandGood DEF Good
<1>4. /\ f.pending = d.pending /\ f.pingTimer = d.pingTimer
      /\ f.commandOutstanding /\ f.commandTimeout = CommandTimeout
  BY <1>1, <1>2, SendCommandIs
<1>5. PICK r, h :
          /\ r = IF d.nextHistoryRegister + 1 = HistoryRegisters
                 THEN 0 ELSE f.nextHistoryRegister + 1
          /\ h = IF d.nextHistoryRegister + 1 = HistoryRegisters
                 THEN f.historyTimer + HistoryPeriod ELSE f.historyTimer
  OBVIOUS
<1>6. e = [f EXCEPT !.nextHistoryRegister = r, !.historyTimer = h]
  BY <1>2, <1>5 DEF History, walkThroughHistory
<1>7. /\ e.pending = d.pending /\ e.pingTimer = d.pingTimer
      /\ e.commandOutstanding /\ e.commandTimeout = CommandTimeout
      /\ e.nextHistoryRegister = r /\ e.historyTimer = h
  BY <1>3, <1>4, <1>6 DEF Device
<1>8. For(e, 1) = For(d, 1) /\ For(e, 2) = For(d, 2) /\ For(e, 3) = For(d, 3)
  BY <1>7 DEF For
<1>9. Wait(e) = Slot /\ Wait(d) = 0
  BY <1>7 DEF Wait, Slot, clearToSend
<1>10. Cost(e) = Cost(d) + Slot
  <2>1. For(d, 1) \in Int /\ For(d, 2) \in Int /\ For(d, 3) \in Int
    BY PaceIs DEF For
  <2> QED
    BY <1>8, <1>9, <2>1, PaceIs DEF Cost
<1>11. Good(e)
  BY HistoryGood
<1> QED
  BY <1>3, <1>5, <1>7, <1>10, <1>11

LEMMA WalkLeftShrinks ==
    ASSUME NEW d \in Device, NEW e, e.nextHistoryRegister = d.nextHistoryRegister + 1
    PROVE  WalkLeft(e) + Slot = WalkLeft(d)
<1>1. d.nextHistoryRegister \in Int
  BY Fields
<1> QED
  BY <1>1, PaceIs DEF WalkLeft

LEMMA WalkLeftEnds ==
    ASSUME NEW d \in Device, d.nextHistoryRegister + 1 = HistoryRegisters
    PROVE  WalkLeft(d) = Slot
<1>1. HistoryRegisters - d.nextHistoryRegister = 1
  BY Fields
<1> QED
  BY <1>1, PaceIs DEF WalkLeft

(* The requests before a ping that is due were in its load.                *)
LEMMA SentPingLoad ==
    ASSUME NEW w, IsRoom(w), NEW d, Good(d), d.pingTimer > -w, d.pingTimer <= 0,
           d.historyTimer > -w, NEW e, e = History(AllUpdates(d))
    PROVE  /\ Good(e) /\ e.pingTimer = d.pingTimer /\ e.historyTimer > -w
           /\ PingLoad(e, w) <= PingLoad(d, w)
<1> w \in Nat /\ 2 * w <= HistoryPeriod
  BY DEF IsRoom
<1>1. PICK f : f = AllUpdates(d)
  OBVIOUS
<1>2. /\ Good(f) /\ Cost(f) = Cost(d)
      /\ f.historyTimer = d.historyTimer /\ f.pingTimer = d.pingTimer
      /\ f.nextHistoryRegister = d.nextHistoryRegister
  BY <1>1, UpdatesCost
<1>3. PingLoad(f, w) = PingLoad(d, w)
  BY <1>2, SameLoads
<1>4. d \in Device /\ f \in Device
  BY <1>2 DEF Good
<1>5. d.pingTimer \in Int /\ d.historyTimer \in Int
  BY <1>4, Fields
<1>6. CASE f.historyTimer <= 0 /\ clearToSend(f)
  <2>1. /\ Good(e) /\ e.pingTimer = f.pingTimer /\ Cost(e) = Cost(f) + Slot
        /\ IF f.nextHistoryRegister + 1 = HistoryRegisters
           THEN e.nextHistoryRegister = 0 /\ e.historyTimer = f.historyTimer + HistoryPeriod
           ELSE /\ e.nextHistoryRegister = f.nextHistoryRegister + 1
                /\ e.historyTimer = f.historyTimer
    BY <1>1, <1>2, <1>6, RequestIs
  <2>2. ~(f.historyTimer - f.pingTimer >= w)
    BY <1>2, <1>5, <1>6
  <2>3. PingLoad(f, w) = Cost(f) + WalkLeft(f)
    BY <2>2 DEF PingLoad, WalkAhead
  <2>4. e \in Device /\ Cost(f) \in Nat /\ WalkLeft(f) \in Nat /\ WalkLeft(e) \in Nat
    BY <1>4, <2>1, LoadsAre DEF Good
  <2>5. CASE f.nextHistoryRegister + 1 = HistoryRegisters
    <3>1. e.historyTimer - e.pingTimer >= w
      BY <1>2, <1>5, <2>1, <2>5
    <3>2. PingLoad(e, w) = Cost(e)
      BY <2>1, <2>4, <3>1, PaceIs DEF PingLoad, WalkAhead
    <3>3. PingLoad(e, w) = PingLoad(f, w)
      BY <1>4, <2>1, <2>3, <2>5, <3>2, WalkLeftEnds
    <3>4. e.historyTimer > -w
      BY <1>2, <1>5, <2>1, <2>5
    <3>5. PingLoad(e, w) \in Nat
      BY <2>4, LoadsAre
    <3> QED
      BY <1>2, <1>3, <2>1, <3>3, <3>4, <3>5
  <2>6. CASE f.nextHistoryRegister + 1 # HistoryRegisters
    <3>1. ~(e.historyTimer - e.pingTimer >= w)
      BY <2>1, <2>2, <2>6
    <3>2. PingLoad(e, w) = Cost(e) + WalkLeft(e)
      BY <3>1 DEF PingLoad, WalkAhead
    <3>3. WalkLeft(e) + Slot = WalkLeft(f)
      BY <1>4, <2>1, <2>6, WalkLeftShrinks
    <3>4. PingLoad(e, w) = PingLoad(f, w)
      BY <2>1, <2>3, <2>4, <3>2, <3>3, PaceIs
    <3>5. PingLoad(e, w) \in Nat
      BY <2>4, LoadsAre
    <3> QED
      BY <1>2, <1>3, <2>1, <2>6, <3>4, <3>5
  <2> QED
    BY <2>5, <2>6
<1>7. CASE ~(f.historyTimer <= 0 /\ clearToSend(f))
  <2>1. e = f
    BY <1>1, <1>7 DEF History
  <2>2. PingLoad(e, w) \in Nat
    BY <1>4, <2>1, LoadsAre
  <2> QED
    BY <1>2, <1>3, <2>1, <2>2
<1> QED
  BY <1>6, <1>7

(* A walk that is due is over, or has the slot or waits for it.            *)
LEMMA SentWalkLoad ==
    ASSUME NEW w, IsRoom(w), NEW d, Good(d), d.historyTimer > -w, d.historyTimer <= 0,
           NEW e, e = History(AllUpdates(d))
    PROVE  /\ Good(e) /\ e.pingTimer = d.pingTimer
           /\ \/ e.historyTimer >= w
              \/ /\ e.historyTimer = d.historyTimer /\ e.commandOutstanding
                 /\ WalkLoad(e, w) <= WalkLoad(d, w)
<1> w \in Nat /\ 2 * w <= HistoryPeriod
  BY DEF IsRoom
<1>1. PICK f : f = AllUpdates(d)
  OBVIOUS
<1>2. /\ Good(f) /\ Cost(f) = Cost(d)
      /\ f.historyTimer = d.historyTimer /\ f.pingTimer = d.pingTimer
      /\ f.nextHistoryRegister = d.nextHistoryRegister
  BY <1>1, UpdatesCost
<1>3. WalkLoad(f, w) = WalkLoad(d, w)
  BY <1>2, SameLoads
<1>4. d \in Device /\ f \in Device
  BY <1>2 DEF Good
<1>5. d.pingTimer \in Int /\ d.historyTimer \in Int
  BY <1>4, Fields
<1>6. CASE clearToSend(f)
  <2>1. /\ Good(e) /\ e.pingTimer = f.pingTimer /\ Cost(e) = Cost(f) + Slot
        /\ e.commandOutstanding
        /\ IF f.nextHistoryRegister + 1 = HistoryRegisters
           THEN e.nextHistoryRegister = 0 /\ e.historyTimer = f.historyTimer + HistoryPeriod
           ELSE /\ e.nextHistoryRegister = f.nextHistoryRegister + 1
                /\ e.historyTimer = f.historyTimer
    BY <1>1, <1>2, <1>6, RequestIs
  <2>2. CASE f.nextHistoryRegister + 1 = HistoryRegisters
    BY <1>2, <1>5, <2>1, <2>2
  <2>3. CASE f.nextHistoryRegister + 1 # HistoryRegisters
    <3>1. WalkLeft(e) + Slot = WalkLeft(f)
      BY <1>4, <2>1, <2>3, WalkLeftShrinks
    <3>2. PingAhead(e, w) = PingAhead(f, w)
      BY <2>1, <2>3 DEF PingAhead
    <3>3. /\ Cost(f) \in Nat /\ WalkLeft(f) \in Nat /\ WalkLeft(e) \in Nat
          /\ PingAhead(f, w) \in Nat
      BY <1>4, <2>1, LoadsAre DEF Good
    <3>4. WalkLoad(e, w) = WalkLoad(f, w) /\ WalkLoad(f, w) \in Nat
      BY <2>1, <3>1, <3>2, <3>3, PaceIs DEF WalkLoad
    <3> QED
      BY <1>2, <1>3, <2>1, <2>3, <3>4
  <2> QED
    BY <2>2, <2>3
<1>7. CASE ~clearToSend(f)
  <2>1. e = f
    BY <1>1, <1>7 DEF History
  <2>2. WalkLoad(e, w) \in Nat
    BY <1>4, <2>1, LoadsAre
  <2> QED
    BY <1>2, <1>3, <1>7, <2>1, <2>2 DEF clearToSend
<1> QED
  BY <1>6, <1>7

-----------------------------------------------------------------------------
(* What a pass may do to the two timers.                                   *)
LEMMA SentTimers ==
    ASSUME NEW d, Good(d), NEW e, e = History(AllUpdates(d))
    PROVE  /\ Good(e) /\ e.pingTimer = d.pingTimer
           /\ d.historyTimer > 0 => e.historyTimer = d.historyTimer
<1>1. PICK f : f = AllUpdates(d)
  OBVIOUS
<1>2. /\ Good(f) /\ f.historyTimer = d.historyTimer /\ f.pingTimer = d.pingTimer
  BY <1>1, UpdatesCost
<1>3. CASE f.historyTimer <= 0 /\ clearToSend(f)
  <2>1. Good(e) /\ e.pingTimer = f.pingTimer
    BY <1>1, <1>2, <1>3, RequestIs
  <2>2. ~(d.historyTimer > 0)
    BY <1>2, <1>3, Fields DEF Good
  <2> QED
    BY <1>2, <2>1, <2>2
<1>4. CASE ~(f.historyTimer <= 0 /\ clearToSend(f))
  BY <1>1, <1>2, <1>4 DEF History
<1> QED
  BY <1>3, <1>4

LEMMA ServedTimers ==
    ASSUME NEW d, Good(d), NEW input \in Inputs(d), NEW e, e = VEDirectService(d, input)
    PROVE  /\ Good(e) /\ e.historyTimer = d.historyTimer
           /\ e.pingTimer \in {d.pingTimer, PingPeriod}
<1>1. PICK f, g : f = processInput(d, input) /\ g = Ping(f) /\ e = TimeOut(g)
  BY DEF VEDirectService
<1>2. Good(f) /\ Good(g) /\ Good(e)
  BY <1>1, ProcessInputGood, PingGood, TimeOutGood
<1>3. f.historyTimer = d.historyTimer /\ f.pingTimer = d.pingTimer
  <2>1. CASE input = "answer"
    <3>1. d \in Device /\ d.unanswered > 0
      BY <2>1 DEF Inputs, Good
    <3> QED
      BY <1>1, <2>1, <3>1, AnsweredIs DEF processInput
  <2>2. CASE input # "answer"
    BY <1>1, <2>2 DEF processInput
  <2> QED
    BY <2>1, <2>2
<1>4. g.historyTimer = f.historyTimer /\ g.pingTimer \in {f.pingTimer, PingPeriod}
  BY <1>1, <1>2, PingIs DEF Ping
<1>5. e.historyTimer = g.historyTimer /\ e.pingTimer = g.pingTimer
  BY <1>1, <1>2, TimeOutIs DEF TimeOut
<1> QED
  BY <1>2, <1>3, <1>4, <1>5

(* A command that leaves the slot costs no more.                           *)
LEMMA CostFalls ==
    ASSUME NEW d \in Device, NEW e, e.pending = d.pending,
           d.commandOutstanding, ~e.commandOutstanding
    PROVE  Cost(e) + 1 <= Cost(d)
<1>1. Wait(e) = 0 /\ Wait(d) \in Int /\ Wait(d) >= 1
  BY Fields DEF Wait
<1>2. For(e, 1) = For(d, 1) /\ For(e, 2) = For(d, 2) /\ For(e, 3) = For(d, 3)
  BY DEF For
<1>3. For(d, 1) \in Int /\ For(d, 2) \in Int /\ For(d, 3) \in Int
  BY PaceIs DEF For
<1> QED
  BY <1>1, <1>2, <1>3 DEF Cost

(* A tick is won, or will be by the command that holds the slot.           *)
Eased(d, k, l) ==
    /\ k <= l
    /\ (d.commandOutstanding /\ d.commandTimeout > 0) \/ k + 1 <= l

LEMMA TimeOutEases ==
    ASSUME NEW d, Good(d), d.commandOutstanding, NEW e, e = TimeOut(d), NEW w
    PROVE  /\ e.pingTimer = d.pingTimer
           /\ Eased(e, PingLoad(e, w), PingLoad(d, w))
           /\ Eased(e, WalkLoad(e, w), WalkLoad(d, w))
<1>1. d \in Device /\ e \in Device
  BY TimeOutGood DEF Good
<1>2. CASE d.commandTimeout = 0
  <2>1. /\ e.pending = d.pending /\ e.pingTimer = d.pingTimer
        /\ e.historyTimer = d.historyTimer
        /\ e.nextHistoryRegister = d.nextHistoryRegister
        /\ ~e.commandOutstanding
    BY <1>2, TimeOutIs
  <2>2. Cost(e) + 1 <= Cost(d)
    BY <1>1, <2>1, CostFalls
  <2>3. /\ WalkAhead(e, w) = WalkAhead(d, w) /\ WalkLeft(e) = WalkLeft(d)
        /\ PingAhead(e, w) = PingAhead(d, w)
    BY <2>1 DEF WalkAhead, PingAhead, WalkLeft
  <2>4. /\ Cost(d) \in Nat /\ Cost(e) \in Nat /\ WalkAhead(d, w) \in Nat
        /\ WalkLeft(d) \in Nat /\ PingAhead(d, w) \in Nat
    BY <1>1, LoadsAre
  <2>5. PingLoad(e, w) + 1 <= PingLoad(d, w) /\ WalkLoad(e, w) + 1 <= WalkLoad(d, w)
    BY <2>2, <2>3, <2>4 DEF PingLoad, WalkLoad
  <2>6. /\ PingLoad(e, w) \in Nat /\ WalkLoad(e, w) \in Nat
        /\ PingLoad(d, w) \in Nat /\ WalkLoad(d, w) \in Nat
    BY <1>1, LoadsAre
  <2> QED
    BY <2>1, <2>5, <2>6 DEF Eased
<1>3. CASE d.commandTimeout # 0
  <2>1. e = d
    BY <1>3 DEF TimeOut
  <2>2. d.commandTimeout > 0
    BY <1>1, <1>3, Fields
  <2>3. PingLoad(d, w) \in Nat /\ WalkLoad(d, w) \in Nat
    BY <1>1, LoadsAre
  <2> QED
    BY <2>1, <2>2, <2>3 DEF Eased
<1> QED
  BY <1>2, <1>3

(* A ping that is due is sent, or the slot is taken.                       *)
LEMMA ServedPingLoad ==
    ASSUME NEW w, NEW d, Good(d), d.pingTimer <= 0, NEW input \in Inputs(d),
           NEW e, e = VEDirectService(d, input)
    PROVE  \/ e.pingTimer = PingPeriod
           \/ e.pingTimer = d.pingTimer /\ Eased(e, PingLoad(e, w), PingLoad(d, w))
<1>1. PICK f, g : f = processInput(d, input) /\ g = Ping(f) /\ e = TimeOut(g)
  BY DEF VEDirectService
<1>2. Good(f) /\ Good(g)
  BY <1>1, ProcessInputGood, PingGood
<1>3. d \in Device
  BY DEF Good
<1>4. CASE input = "answer"
  <2>1. /\ f.pingTimer = d.pingTimer /\ ~f.commandOutstanding
    BY <1>1, <1>3, <1>4, AnsweredIs DEF Inputs, processInput
  <2>2. g.pingTimer = PingPeriod
    BY <1>1, <1>2, <2>1, PingIs DEF clearToSend
  <2> QED
    BY <1>1, <1>2, <2>2, TimeOutIs DEF TimeOut
<1>5. CASE input # "answer"
  <2>1. f = d
    BY <1>1, <1>5 DEF processInput
  <2>2. CASE d.commandOutstanding
    <3>1. g = d
      BY <1>1, <2>1, <2>2 DEF Ping, clearToSend
    <3> QED
      BY <1>1, <2>2, <3>1, TimeOutEases
  <2>3. CASE ~d.commandOutstanding
    <3>1. g.pingTimer = PingPeriod
      BY <1>1, <1>2, <2>1, <2>3, PingIs DEF clearToSend
    <3> QED
      BY <1>1, <1>2, <3>1, TimeOutIs DEF TimeOut
  <2> QED
    BY <2>2, <2>3
<1> QED
  BY <1>4, <1>5

(* While a walk is due one ping at most comes in between, into a slot that *)
(* an answer has freed.                                                    *)
LEMMA ServedWalkLoad ==
    ASSUME NEW w, IsRoom(w), NEW d, Good(d), d.historyTimer > -w, d.historyTimer <= 0,
           d.commandOutstanding, NEW input \in Inputs(d),
           NEW e, e = VEDirectService(d, input)
    PROVE  Eased(e, WalkLoad(e, w), WalkLoad(d, w))
<1> w \in Nat /\ w <= PingPeriod
  BY DEF IsRoom
<1>1. PICK f, g : f = processInput(d, input) /\ g = Ping(f) /\ e = TimeOut(g)
  BY DEF VEDirectService
<1>2. Good(f) /\ Good(g) /\ Good(e)
  BY <1>1, ProcessInputGood, PingGood, TimeOutGood
<1>3. d \in Device /\ f \in Device /\ g \in Device
  BY <1>2 DEF Good
<1>4. CASE input = "answer"
  <2>1. /\ f.pending = d.pending /\ f.pingTimer = d.pingTimer
        /\ f.historyTimer = d.historyTimer
        /\ f.nextHistoryRegister = d.nextHistoryRegister
        /\ ~f.commandOutstanding
    BY <1>1, <1>3, <1>4, AnsweredIs DEF Inputs, processInput
  <2>2. Cost(f) + 1 <= Cost(d)
    BY <1>3, <2>1, CostFalls
  <2>3. WalkLeft(f) = WalkLeft(d) /\ PingAhead(f, w) = PingAhead(d, w)
    BY <2>1 DEF PingAhead, WalkLeft
  <2>4. /\ Cost(d) \in Nat /\ Cost(f) \in Nat
        /\ WalkLeft(d) \in Nat /\ PingAhead(d, w) \in Nat
        /\ WalkLoad(d, w) \in Nat /\ WalkLoad(f, w) \in Nat
    BY <1>3, LoadsAre
  <2>5. WalkLoad(f, w) + 1 <= WalkLoad(d, w)
    BY <2>2, <2>3, <2>4 DEF WalkLoad
  <2>6. CASE f.pingTimer <= 0
    <3>1. /\ g.pending = f.pending /\ g.pingTimer = PingPeriod
          /\ g.historyTimer = f.historyTimer
          /\ g.nextHistoryRegister = f.nextHistoryRegister
          /\ g.commandOutstanding /\ g.commandTimeout = CommandTimeout
      BY <1>1, <1>2, <2>1, <2>6, PingIs DEF clearToSend
    <3>2. e = g
      BY <1>1, <3>1 DEF TimeOut
    <3>3. Cost(g) = Cost(f) + Slot
      <4>1. For(g, 1) = For(f, 1) /\ For(g, 2) = For(f, 2) /\ For(g, 3) = For(f, 3)
        BY <3>1 DEF For
      <4>2. Wait(g) = Slot /\ Wait(f) = 0
        BY <2>1, <3>1 DEF Wait, Slot
      <4>3. For(f, 1) \in Int /\ For(f, 2) \in Int /\ For(f, 3) \in Int
        BY PaceIs DEF For
      <4> QED
        BY <4>1, <4>2, <4>3, PaceIs DEF Cost
    <3>4. PingAhead(f, w) = Slot
      <4>1. ~(f.pingTimer - f.historyTimer >= w)
        BY <1>3, <2>1, <2>6, Fields
      <4> QED
        BY <4>1 DEF PingAhead
    <3>5. PingAhead(g, w) = 0
      <4>1. g.pingTimer - g.historyTimer >= w
        BY <1>3, <2>1, <3>1, Fields
      <4> QED
        BY <4>1 DEF PingAhead
    <3>6. WalkLeft(g) = WalkLeft(f)
      BY <3>1 DEF WalkLeft
    <3>7. WalkLoad(g, w) = WalkLoad(f, w)
      BY <2>3, <2>4, <3>3, <3>4, <3>5, <3>6, PaceIs DEF WalkLoad
    <3> QED
      BY <2>4, <2>5, <3>2, <3>7 DEF Eased
  <2>7. CASE ~(f.pingTimer <= 0)
    <3>1. e = f
      BY <1>1, <2>1, <2>7 DEF Ping, TimeOut
    <3> QED
      BY <2>4, <2>5, <3>1 DEF Eased
  <2> QED
    BY <2>6, <2>7
<1>5. CASE input # "answer"
  <2>1. g = d
    BY <1>1, <1>5 DEF processInput, Ping, clearToSend
  <2> QED
    BY <1>1, <2>1, TimeOutEases
<1> QED
  BY <1>4, <1>5

(* A tick takes the same from both timers, and a tick from the command     *)
(* that holds the slot.                                                    *)
LEMMA LaterIs ==
    ASSUME NEW d, Good(d), NEW ticks \in 0 .. 1, NEW e, e = Later(d, ticks),
           d.historyTimer > -HistoryPeriod, d.pingTimer > -PingPeriod
    PROVE  /\ Good(e) /\ e.pending = d.pending
           /\ e.commandOutstanding = d.commandOutstanding
           /\ e.commandTimeout = LessTicks(d.commandTimeout, ticks, 0)
           /\ e.nextHistoryRegister = d.nextHistoryRegister
           /\ e.historyTimer = d.historyTimer - ticks
           /\ e.pingTimer = d.pingTimer - ticks
<1>1. PICK h, p, t : /\ h = LessTicks(d.historyTimer, ticks, -HistoryPeriod)
                     /\ p = LessTicks(d.pingTimer, ticks, -PingPeriod)
                     /\ t = LessTicks(d.commandTimeout, ticks, 0)
  OBVIOUS
<1>2. d \in Device
  BY DEF Good
<1>3. h = d.historyTimer - ticks /\ p = d.pingTimer - ticks
  BY <1>1, <1>2, Fields DEF LessTicks
<1>4. e = [d EXCEPT !.historyTimer = h, !.pingTimer = p, !.commandTimeout = t]
  BY <1>1 DEF Later
<1>5. /\ e.pending = d.pending /\ e.pingTimer = p /\ e.commandTimeout = t
      /\ e.commandOutstanding = d.commandOutstanding /\ e.historyTimer = h
      /\ e.nextHistoryRegister = d.nextHistoryRegister
  BY <1>2, <1>4 DEF Device
<1> QED
  BY <1>1, <1>3, <1>5, LaterGood

LEMMA LaterLoads ==
    ASSUME NEW d, Good(d), NEW ticks \in 0 .. 1, NEW e, e = Later(d, ticks),
           d.historyTimer > -HistoryPeriod, d.pingTimer > -PingPeriod, NEW w
    PROVE  /\ PingLoad(e, w) <= PingLoad(d, w) /\ WalkLoad(e, w) <= WalkLoad(d, w)
           /\ ticks = 1 /\ d.commandOutstanding /\ d.commandTimeout > 0 =>
                 /\ PingLoad(e, w) + 1 <= PingLoad(d, w)
                 /\ WalkLoad(e, w) + 1 <= WalkLoad(d, w)
<1>1. /\ Good(e) /\ e.pending = d.pending
      /\ e.commandOutstanding = d.commandOutstanding
      /\ e.commandTimeout = LessTicks(d.commandTimeout, ticks, 0)
      /\ e.nextHistoryRegister = d.nextHistoryRegister
      /\ e.historyTimer = d.historyTimer - ticks
      /\ e.pingTimer = d.pingTimer - ticks
  BY LaterIs
<1>2. d \in Device /\ e \in Device
  BY <1>1 DEF Good
<1>3. /\ d.historyTimer \in Int /\ d.pingTimer \in Int
      /\ d.commandTimeout \in Nat
  BY <1>2, Fields
<1>4. Wait(e) <= Wait(d)
  BY <1>1, <1>3 DEF Wait, LessTicks
<1>5. ticks = 1 /\ d.commandOutstanding /\ d.commandTimeout > 0 => Wait(e) + 1 <= Wait(d)
  BY <1>1, <1>3 DEF Wait, LessTicks
<1>6. For(e, 1) = For(d, 1) /\ For(e, 2) = For(d, 2) /\ For(e, 3) = For(d, 3)
  BY <1>1 DEF For
<1>7. /\ For(d, 1) \in Int /\ For(d, 2) \in Int /\ For(d, 3) \in Int
      /\ Wait(e) \in Int /\ Wait(d) \in Int
  BY <1>2, PaceIs, Fields DEF For, Wait
<1>8. /\ Cost(e) <= Cost(d)
      /\ ticks = 1 /\ d.commandOutstanding /\ d.commandTimeout > 0 => Cost(e) + 1 <= Cost(d)
  BY <1>4, <1>5, <1>6, <1>7 DEF Cost
<1>9. /\ e.historyTimer - e.pingTimer = d.historyTimer - d.pingTimer
      /\ e.pingTimer - e.historyTimer = d.pingTimer - d.historyTimer
  BY <1>1, <1>3
<1>10. WalkLeft(e) = WalkLeft(d)
  BY <1>1 DEF WalkLeft
<1>11. WalkAhead(e, w) = WalkAhead(d, w) /\ PingAhead(e, w) = PingAhead(d, w)
  BY <1>9, <1>10 DEF WalkAhead, PingAhead
<1>12. /\ Cost(d) \in Nat /\ Cost(e) \in Nat /\ WalkAhead(d, w) \in Nat
       /\ WalkLeft(d) \in Nat /\ PingAhead(d, w) \in Nat
  BY <1>2, LoadsAre
<1> QED
  BY <1>8, <1>10, <1>11, <1>12 DEF PingLoad, WalkLoad

PollsBound(d, b, w) ==
    /\ Bound(d.pingTimer, PingLoad(d, w), b)
    /\ Bound(d.historyTimer, WalkLoad(d, w), b)

LEMMA PollsBoundHolds ==
    ASSUME NEW w, IsRoom(w), NEW d, Good(d), NEW b \in 0 .. BlockPeriod, PollsBound(d, b, w)
    PROVE  d.pingTimer > -w /\ d.historyTimer > -w
<1>1. d \in Device
  BY DEF Good
<1>2. /\ PingLoad(d, w) \in Nat /\ WalkLoad(d, w) \in Nat
      /\ d.pingTimer \in Int /\ d.historyTimer \in Int
  BY <1>1, LoadsAre, Fields
<1> QED
  BY <1>2, BoundHolds DEF PollsBound

(* A poll that is not due, or that just becomes due.                       *)
LEMMA BoundFresh ==
    ASSUME NEW t \in Int, t >= 0, NEW l \in Int, l <= Slot * (HistoryRegisters + 5),
           NEW b \in 0 .. BlockPeriod
    PROVE  Bound(t, l, b)
<1>1. CASE t = 0
  BY <1>1, BoundStarts
<1>2. CASE t > 0
  BY <1>2 DEF Bound
<1> QED
  BY <1>1, <1>2

(* A load that eased in the pass, and then a tick or none.                 *)
LEMMA BoundEases ==
    ASSUME NEW t \in Int, t <= 0, NEW l \in Int, NEW k \in Int, k <= l,
           NEW ticks \in 0 .. 1, ticks = 1 => k + 1 <= l,
           NEW b \in 0 .. BlockPeriod, Bound(t, l, b), NEW c, c = LessTicks(b, ticks, 0)
    PROVE  Bound(t - ticks, k, c)
<1>1. CASE ticks = 0
  <2>1. c = b /\ t - ticks = t
    BY <1>1 DEF LessTicks
  <2> QED
    BY <2>1, BoundStays
<1>2. CASE ticks = 1
  BY <1>2, BoundTicks
<1> QED
  BY <1>1, <1>2

LEMMA ServiceKeepsPollsBound ==
    ASSUME NEW w, IsRoom(w), NEW d, Good(d), NEW b \in 0 .. BlockPeriod, PollsBound(d, b, w),
           NEW sent, sent = History(AllUpdates(d)), NEW input \in Inputs(sent),
           NEW ticks \in 0 .. 1, NEW e, e = Later(VEDirectService(sent, input), ticks),
           NEW c, c = LessTicks(b, ticks, 0)
    PROVE  PollsBound(e, c, w)
<1> w \in Nat /\ w >= 1 /\ w <= PingPeriod /\ 2 * w <= HistoryPeriod
  BY DEF IsRoom
<1>1. PICK served : served = VEDirectService(sent, input)
  OBVIOUS
<1>2. d.pingTimer > -w /\ d.historyTimer > -w
  BY PollsBoundHolds
<1>3. /\ Good(sent) /\ sent.pingTimer = d.pingTimer
      /\ d.historyTimer > 0 => sent.historyTimer = d.historyTimer
  BY SentTimers
<1>4. /\ Good(served) /\ served.historyTimer = sent.historyTimer
      /\ served.pingTimer \in {sent.pingTimer, PingPeriod}
  BY <1>1, <1>3, ServedTimers
<1>5. d \in Device /\ sent \in Device /\ served \in Device
  BY <1>3, <1>4 DEF Good
<1>6. /\ d.pingTimer \in Int /\ d.historyTimer \in Int
      /\ served.pingTimer \in Int /\ served.historyTimer \in Int
  BY <1>5, Fields
<1>7. sent.historyTimer > -w
  <2>1. CASE d.historyTimer > 0
    BY <1>2, <1>3, <2>1
  <2>2. CASE ~(d.historyTimer > 0)
    <3>1. sent.historyTimer >= w \/ sent.historyTimer = d.historyTimer
      BY <1>2, <1>6, <2>2, SentWalkLoad
    <3> QED
      BY <1>2, <1>4, <1>6, <3>1
  <2> QED
    BY <2>1, <2>2
<1>8. served.historyTimer > -HistoryPeriod /\ served.pingTimer > -PingPeriod
  BY <1>2, <1>3, <1>4, <1>6, <1>7
<1>9. /\ Good(e) /\ e.historyTimer = served.historyTimer - ticks
      /\ e.pingTimer = served.pingTimer - ticks
  BY <1>1, <1>4, <1>8, LaterIs
<1>10. /\ PingLoad(e, w) <= PingLoad(served, w) /\ WalkLoad(e, w) <= WalkLoad(served, w)
       /\ ticks = 1 /\ served.commandOutstanding /\ served.commandTimeout > 0 =>
             /\ PingLoad(e, w) + 1 <= PingLoad(served, w)
             /\ WalkLoad(e, w) + 1 <= WalkLoad(served, w)
  BY <1>1, <1>4, <1>8, LaterLoads
<1>11. e \in Device
  BY <1>9 DEF Good
<1>12. /\ PingLoad(e, w) \in Nat /\ PingLoad(e, w) <= Slot * (HistoryRegisters + 5)
       /\ WalkLoad(e, w) \in Nat /\ WalkLoad(e, w) <= Slot * (HistoryRegisters + 5)
  BY <1>11, LoadsAre
<1>13. /\ PingLoad(served, w) \in Nat /\ WalkLoad(served, w) \in Nat
       /\ PingLoad(sent, w) \in Nat /\ WalkLoad(sent, w) \in Nat
       /\ PingLoad(d, w) \in Nat /\ WalkLoad(d, w) \in Nat
  BY <1>5, LoadsAre
<1>14. c \in 0 .. BlockPeriod
  BY DEF LessTicks
<1>15. Bound(e.pingTimer, PingLoad(e, w), c)
  <2>1. CASE d.pingTimer > 0 \/ served.pingTimer = PingPeriod
    <3>1. e.pingTimer \in Int /\ e.pingTimer >= 0
      BY <1>3, <1>4, <1>6, <1>9, <2>1
    <3> QED
      BY <1>12, <1>14, <3>1, BoundFresh
  <2>2. CASE ~(d.pingTimer > 0) /\ served.pingTimer # PingPeriod
    <3>1. d.pingTimer <= 0
      BY <1>6, <2>2
    <3>2. PingLoad(sent, w) <= PingLoad(d, w)
      BY <1>2, <3>1, SentPingLoad
    <3>3. /\ served.pingTimer = sent.pingTimer
          /\ Eased(served, PingLoad(served, w), PingLoad(sent, w))
      BY <1>1, <1>3, <2>2, <3>1, ServedPingLoad
    <3>4. PingLoad(e, w) <= PingLoad(d, w)
      BY <1>10, <1>12, <1>13, <3>2, <3>3 DEF Eased
    <3>5. ticks = 1 => PingLoad(e, w) + 1 <= PingLoad(d, w)
      BY <1>10, <1>12, <1>13, <3>2, <3>3 DEF Eased
    <3>6. Bound(d.pingTimer, PingLoad(d, w), b)
      BY DEF PollsBound
    <3>7. Bound(d.pingTimer - ticks, PingLoad(e, w), c)
      <4>1. /\ PingLoad(d, w) \in Int /\ PingLoad(e, w) \in Int
            /\ d.pingTimer \in Int
        BY <1>6, <1>12, <1>13
      <4> QED
        BY <3>1, <3>4, <3>5, <3>6, <4>1, BoundEases
    <3> QED
      BY <1>3, <1>9, <3>3, <3>7
  <2> QED
    BY <2>1, <2>2
<1>16. Bound(e.historyTimer, WalkLoad(e, w), c)
  <2>1. CASE sent.historyTimer > 0
    <3>1. e.historyTimer \in Int /\ e.historyTimer >= 0
      BY <1>4, <1>6, <1>9, <2>1
    <3> QED
      BY <1>12, <1>14, <3>1, BoundFresh
  <2>2. CASE ~(sent.historyTimer > 0)
    <3>1. d.historyTimer <= 0
      BY <1>3, <1>6, <2>2
    <3>2. /\ sent.historyTimer = d.historyTimer /\ sent.commandOutstanding
          /\ WalkLoad(sent, w) <= WalkLoad(d, w)
      BY <1>2, <1>4, <1>6, <2>2, <3>1, SentWalkLoad
    <3>3. Eased(served, WalkLoad(served, w), WalkLoad(sent, w))
      BY <1>1, <1>2, <1>3, <3>1, <3>2, ServedWalkLoad
    <3>4. WalkLoad(e, w) <= WalkLoad(d, w)
      BY <1>10, <1>12, <1>13, <3>2, <3>3 DEF Eased
    <3>5. ticks = 1 => WalkLoad(e, w) + 1 <= WalkLoad(d, w)
      BY <1>10, <1>12, <1>13, <3>2, <3>3 DEF Eased
    <3>6. Bound(d.historyTimer, WalkLoad(d, w), b)
      BY DEF PollsBound
    <3>7. Bound(d.historyTimer - ticks, WalkLoad(e, w), c)
      <4>1. /\ WalkLoad(d, w) \in Int /\ WalkLoad(e, w) \in Int
            /\ d.historyTimer \in Int
        BY <1>6, <1>12, <1>13
      <4> QED
        BY <3>1, <3>4, <3>5, <3>6, <4>1, BoundEases
    <3> QED
      BY <1>4, <1>9, <3>2, <3>7
  <2> QED
    BY <2>1, <2>2
<1> QED
  BY <1>15, <1>16 DEF PollsBound

LEMMA NextPollsBound ==
    ASSUME NEW w, IsRoom(w), IInv, PollsBound(mppt, blockTimer, w), [Next]_vars
    PROVE  PollsBound(mppt', blockTimer', w)
<1>1. Good(mppt) /\ blockTimer \in 0 .. BlockPeriod
  BY DEF IInv, TypeOK, CommandsAccountedFor, Good, Bool
<1>2. CASE service
  <2>1. PICK sent, input, ticks :
            /\ sent = History(AllUpdates(mppt))
            /\ input \in Inputs(sent) /\ ticks \in 0 .. 1
            /\ mppt' = Later(VEDirectService(sent, input), ticks)
            /\ blockTimer' = LessTicks(blockTimer, ticks, 0)
    BY <1>2 DEF service
  <2> QED
    BY <1>1, <2>1, ServiceKeepsPollsBound
<1>3. CASE BlockReceived
  <2>1. PICK updates \in SUBSET Updates : mppt' = [mppt EXCEPT !.pending = @ \cup updates]
    BY <1>3 DEF BlockReceived
  <2>2. /\ mppt \in Device /\ mppt' \in Device
        /\ mppt'.commandOutstanding = mppt.commandOutstanding
        /\ mppt'.commandTimeout = mppt.commandTimeout
        /\ mppt'.pingTimer = mppt.pingTimer /\ mppt'.historyTimer = mppt.historyTimer
        /\ mppt'.nextHistoryRegister = mppt.nextHistoryRegister
    BY <1>1, <2>1 DEF Good, Device
  <2>3. Wait(mppt') = Wait(mppt) /\ Wait(mppt) \in Int
    BY <2>2, Fields DEF Wait
  <2>4. \A u \in Updates : /\ For(mppt', u) \in Int /\ For(mppt, u) \in Int
                           /\ For(mppt', u) <= For(mppt, u) + Slot
    BY PaceIs DEF For
  <2>5. Cost(mppt') <= Cost(mppt) + 3 * Slot
    <3>1. /\ For(mppt', 1) <= For(mppt, 1) + Slot /\ For(mppt', 2) <= For(mppt, 2) + Slot
          /\ For(mppt', 3) <= For(mppt, 3) + Slot
          /\ For(mppt', 1) \in Int /\ For(mppt', 2) \in Int /\ For(mppt', 3) \in Int
          /\ For(mppt, 1) \in Int /\ For(mppt, 2) \in Int /\ For(mppt, 3) \in Int
      BY <2>4 DEF Updates
    <3> QED
      BY <2>3, <3>1, PaceIs DEF Cost
  <2>6. /\ WalkAhead(mppt', w) = WalkAhead(mppt, w) /\ WalkLeft(mppt') = WalkLeft(mppt)
        /\ PingAhead(mppt', w) = PingAhead(mppt, w)
    BY <2>2 DEF WalkAhead, PingAhead, WalkLeft
  <2>7. /\ Cost(mppt) \in Nat /\ Cost(mppt') \in Nat /\ WalkAhead(mppt, w) \in Nat
        /\ WalkLeft(mppt) \in Nat /\ PingAhead(mppt, w) \in Nat
        /\ PingLoad(mppt, w) \in Nat /\ WalkLoad(mppt, w) \in Nat
        /\ PingLoad(mppt', w) \in Nat /\ WalkLoad(mppt', w) \in Nat
    BY <2>2, LoadsAre
  <2>8. /\ PingLoad(mppt', w) <= PingLoad(mppt, w) + 3 * Slot
        /\ WalkLoad(mppt', w) <= WalkLoad(mppt, w) + 3 * Slot
    BY <2>5, <2>6, <2>7, PaceIs DEF PingLoad, WalkLoad
  <2>9. mppt.pingTimer \in Int /\ mppt.historyTimer \in Int
    BY <2>2, Fields
  <2>10. blockTimer = 0 /\ blockTimer' = BlockPeriod
    BY <1>3 DEF BlockReceived
  <2>11. Bound(mppt.pingTimer, PingLoad(mppt', w), BlockPeriod)
    BY <2>7, <2>8, <2>9, <2>10, BoundTakesBlock DEF PollsBound
  <2>12. Bound(mppt.historyTimer, WalkLoad(mppt', w), BlockPeriod)
    BY <2>7, <2>8, <2>9, <2>10, BoundTakesBlock DEF PollsBound
  <2> QED
    BY <2>2, <2>10, <2>11, <2>12 DEF PollsBound
<1>4. CASE Lost
  <2>1. /\ mppt'.pending = mppt.pending /\ mppt'.pingTimer = mppt.pingTimer
        /\ mppt'.historyTimer = mppt.historyTimer
        /\ mppt'.nextHistoryRegister = mppt.nextHistoryRegister
        /\ mppt'.commandOutstanding = mppt.commandOutstanding
        /\ mppt'.commandTimeout = mppt.commandTimeout /\ blockTimer' = blockTimer
    BY <1>1, <1>4 DEF Lost, Answered, Good, Device
  <2>2. Cost(mppt') = Cost(mppt)
    BY <2>1 DEF Cost, Wait, For
  <2>3. PingLoad(mppt', w) = PingLoad(mppt, w) /\ WalkLoad(mppt', w) = WalkLoad(mppt, w)
    BY <2>1, <2>2, SameLoads
  <2> QED
    BY <2>1, <2>3 DEF PollsBound
<1>5. CASE UNCHANGED vars
  <2>1. mppt' = mppt /\ blockTimer' = blockTimer
    BY <1>5 DEF vars
  <2> QED
    BY <2>1
<1> QED
  BY <1>2, <1>3, <1>4, <1>5 DEF Next

(* Where there is room, whatever is lost, a ping is sent before the next   *)
(* one would be due, and a walk is over before the next.                   *)
THEOREM MPPTPollsInTime ==
    ASSUME RoomForPolls(CommandTimeout, PingPeriod, HistoryPeriod, HistoryRegisters, BlockPeriod)
    PROVE  Spec => []PollsInTime
<1>1. PICK w \in 1 .. PingPeriod : IsRoom(w)
  BY DEF RoomForPolls, IsRoom, Most, Pace, Slot
<1> DEFINE PInv == IInv /\ PollsBound(mppt, blockTimer, w)
<1>2. Init => PInv
  <2> SUFFICES ASSUME Init PROVE PInv
    OBVIOUS
  <2>1. mppt.historyTimer > 0 /\ mppt.pingTimer > 0 /\ mppt \in Device
    BY DEF Init
  <2>2. PollsBound(mppt, blockTimer, w)
    BY <2>1, Fields DEF PollsBound, Bound
  <2> QED
    BY <2>2, InitIInv
<1>3. PInv /\ [Next]_vars => PInv'
  BY <1>1, NextIInv, NextPollsBound
<1>4. PInv => PollsInTime
  <2> SUFFICES ASSUME PInv PROVE PollsInTime
    OBVIOUS
  <2>1. Good(mppt) /\ blockTimer \in 0 .. BlockPeriod
    BY DEF IInv, TypeOK, CommandsAccountedFor, Good, Bool
  <2>2. mppt.pingTimer > -w /\ mppt.historyTimer > -w
    BY <1>1, <2>1, PollsBoundHolds
  <2>3. mppt.pingTimer \in Int /\ mppt.historyTimer \in Int
    BY <2>1, Fields DEF Good
  <2> QED
    BY <1>1, <2>2, <2>3 DEF PollsInTime, IsRoom
<1> HIDE DEF PInv
<1> QED
  BY <1>2, <1>3, <1>4, PTL DEF Spec

(* The periods of the code leave room: 200 ms for an answer, 30 s for a    *)
(* ping, 60 s for a walk through 31 registers, and the BMV's second, in    *)
(* passes of 25, 10 and 1 ms.                                              *)
THEOREM CodeLeavesRoom ==
    /\ RoomForPolls(8, 1200, 2400, 31, 40)
    /\ RoomForPolls(20, 3000, 6000, 31, 100)
    /\ RoomForPolls(200, 30000, 60000, 31, 1000)
<1>1. RoomForPolls(8, 1200, 2400, 31, 40)
  <2>1. 1100 \in 1 .. 1200 /\ 2 * 1100 <= 2400 /\ 40 * (9 * 39) < (40 - 3 * 9) * 1100
    OBVIOUS
  <2> QED
    BY <2>1 DEF RoomForPolls
<1>2. RoomForPolls(20, 3000, 6000, 31, 100)
  <2>1. 3000 \in 1 .. 3000 /\ 2 * 3000 <= 6000 /\ 100 * (21 * 39) < (100 - 3 * 21) * 3000
    OBVIOUS
  <2> QED
    BY <2>1 DEF RoomForPolls
<1>3. RoomForPolls(200, 30000, 60000, 31, 1000)
  <2>1. /\ 30000 \in 1 .. 30000 /\ 2 * 30000 <= 60000
        /\ 1000 * (201 * 39) < (1000 - 3 * 201) * 30000
    OBVIOUS
  <2> QED
    BY <2>1 DEF RoomForPolls
<1> QED
  BY <1>1, <1>2, <1>3
=============================================================================
