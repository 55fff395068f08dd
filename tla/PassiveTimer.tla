---------------------------- MODULE PassiveTimer ----------------------------
(***************************************************************************)
(* PassiveTimer on the clock of the board, which counts milliseconds in    *)
(* 2 * Half values and starts again at 0 after some fifty days.  The timer *)
(* holds the clock value at which it is to expire and is asked, now and    *)
(* then, whether it has.                                                   *)
(*                                                                         *)
(* now and due are what the timer cannot see: the time since the start and *)
(* the time the timer was set for, neither of which wraps.                 *)
(***************************************************************************)
EXTENDS Integers

CONSTANTS
    Half,     \* halfMilliTimerRange, 2^31
    Periods,  \* what timers are set to or advanced by
    MaxGap,   \* bound: the longest time between two looks at the clock
    Horizon   \* bound: how long a behaviour runs

Range == 2 * Half

ASSUME TimerAssumption ==
    /\ Half \in Nat \ {0}
    /\ Periods \subseteq 0 .. Half - 1  \* fatalError for any other
    /\ MaxGap \in Nat

VARIABLES now, endTime, due

timerVars == <<now, endTime, due>>

millis == now % Range

TimerInit ==
    /\ now = 0
    /\ endTime = 0
    /\ due = 0

expired_WithoutHalves == millis >= endTime

expired_Strict ==
    /\ ~(millis >= Half /\ endTime < Half)
    /\ millis > endTime

expired ==
    /\ ~(millis >= Half /\ endTime < Half)
    /\ millis >= endTime

elapsedTime_OffByOne ==
    IF millis >= endTime THEN millis - endTime ELSE Range - 1 - endTime + millis

(* 0xffffffff - endTime + 1 cannot wrap: endTime is not 0 there.           *)
elapsedTime ==
    IF millis >= endTime THEN millis - endTime ELSE Range - 1 - endTime + 1 + millis

setMilliSeconds(ms) ==
    /\ endTime' = (millis + ms) % Range
    /\ due' = now + ms
    /\ UNCHANGED now

(* Callers advance a timer when they have seen it expire.                  *)
advanceMilliSeconds(ms) ==
    /\ expired
    /\ endTime' = (endTime + ms) % Range
    /\ due' = due + ms
    /\ UNCHANGED now

TimePasses(ms) ==
    /\ now + ms <= Horizon
    /\ now' = now + ms
    /\ UNCHANGED <<endTime, due>>

TimerNext ==
    \/ \E ms \in Periods : setMilliSeconds(ms) \/ advanceMilliSeconds(ms)
    \/ \E ms \in 1 .. MaxGap : TimePasses(ms)

TimerSpec == TimerInit /\ [][TimerNext]_timerVars

-----------------------------------------------------------------------------
TimerTypeOK ==
    /\ now \in Nat
    /\ endTime \in 0 .. Range - 1
    /\ due \in Nat

(* A timer does not expire before its time, across any number of wraps of  *)
(* the clock: PassiveTimer.cpp:74-77.                                      *)
NeverEarly == expired => due <= now

(* What is seen of an expiry, exactly: for Half milliseconds after its     *)
(* time a timer reads as expired until the clock crosses 0 or Half.        *)
ExpiredUntilHalfTurn ==
    (due <= now /\ now - due < Half) =>
        (expired <=> (millis < Half <=> due % Range < Half))

(* elapsedTime is the time since the timer was due, for one turn of the    *)
(* clock.                                                                  *)
ElapsedIsExact ==
    (due <= now /\ now - due < Range) => elapsedTime = now - due
=============================================================================
