--------------------------- MODULE MPPTController ---------------------------
(***************************************************************************)
(* The HEX commands one MPPT controller is sent: battery values from the   *)
(* BMV, the requests of the history walk and the pings of VEDirectDevice   *)
(* share a slot that an answer or a timeout frees.                         *)
(*                                                                         *)
(* One action is one MPPTController::service, written as what its          *)
(* statements do to the record mppt, one after the other.  The fields of   *)
(* the record are the members of the class, unanswered and abandoned       *)
(* aside.                                                                  *)
(*                                                                         *)
(* Time goes by in ticks; a timer is the number of ticks it has left, not  *)
(* positive once it has expired.  A pass of loop() takes at most one tick: *)
(* of 50 ms, the slowest the code's periods allow for.                     *)
(* The wrap of the clock is left out (PassiveTimer), and so are the values *)
(* of commands and answers.                                                *)
(***************************************************************************)
EXTENDS Integers

CONSTANTS
    CommandTimeout,     \* commandTimeoutMSec, in ticks
    PingPeriod,         \* PING_RESEND_DELAY
    HistoryPeriod,      \* historyWalkSeconds
    HistoryRegisters,   \* numberHistoryRegisters
    BlockPeriod,        \* the least time between two text blocks of the BMV
    MaxUnanswered       \* bound: commands the device has not answered

ASSUME CommandAssumption ==
    /\ {CommandTimeout, PingPeriod, HistoryPeriod, HistoryRegisters, BlockPeriod,
        MaxUnanswered} \subseteq Nat \ {0}

(* The code's 200 ms and 30 s, and the 1 s of the BMV: 4, 600, 20 ticks.   *)
ASSUME PaceAssumption ==
    /\ BlockPeriod >= 4 * (CommandTimeout + 1)
    /\ PingPeriod > BlockPeriod

(* Voltage, temperature and current, as service() looks at them.           *)
Updates == 1 .. 3

VARIABLES
    mppt,
    blockTimer      \* ticks before the next block of the BMV may come

vars == <<mppt, blockTimer>>

(* unanswered counts the commands that may still be answered, abandoned    *)
(* those that timed out since it was 0.                                    *)
Device ==
    [pending : SUBSET Updates,              \* battery...UpdatePending
     nextHistoryRegister : 0 .. HistoryRegisters - 1,
     historyTimer : -HistoryPeriod .. HistoryPeriod,
     pingTimer : -PingPeriod .. PingPeriod,
     commandOutstanding : BOOLEAN,
     commandTimeout : 0 .. CommandTimeout,
     unanswered : 0 .. MaxUnanswered,
     abandoned : 0 .. MaxUnanswered]

Init ==
    /\ mppt \in {d \in Device :
                    /\ d.pending = {} /\ d.nextHistoryRegister = 0
                    /\ d.historyTimer > 0 /\ d.pingTimer > 0
                    /\ ~d.commandOutstanding /\ d.commandTimeout = 0
                    /\ d.unanswered = 0 /\ d.abandoned = 0}
    /\ blockTimer = 0

-----------------------------------------------------------------------------
(***************************************************************************)
(* The statements of service(), on a record d.                             *)
(***************************************************************************)
UpTo(max, n) == IF n < max THEN n ELSE max

clearToSend(d) == ~d.commandOutstanding

sendCommand(d) ==
    [d EXCEPT !.commandOutstanding = TRUE,
              !.commandTimeout = CommandTimeout,
              !.unanswered = UpTo(MaxUnanswered, @ + 1)]

(* sendBatteryVoltage, sendBatteryTemperature, sendBatteryCurrent          *)
sendUpdate(d, u) == [sendCommand(d) EXCEPT !.pending = @ \ {u}]

Update(d, u) == IF u \in d.pending /\ clearToSend(d) THEN sendUpdate(d, u) ELSE d

AllUpdates(d) == Update(Update(Update(d, 1), 2), 3)

(* Mutant: the register is not set back to the first one.                  *)
walkThroughHistory_NoWrap(d) ==
    LET last == d.nextHistoryRegister + 1 = HistoryRegisters IN
    [sendCommand(d) EXCEPT
        !.nextHistoryRegister = @ + 1,
        !.historyTimer = IF last THEN @ + HistoryPeriod ELSE @]

(* Mutant: the timer is never advanced.                                    *)
walkThroughHistory_NoAdvance(d) ==
    [sendCommand(d) EXCEPT !.nextHistoryRegister = (@ + 1) % HistoryRegisters]

walkThroughHistory(d) ==
    LET last == d.nextHistoryRegister + 1 = HistoryRegisters IN
    [sendCommand(d) EXCEPT
        !.nextHistoryRegister = IF last THEN 0 ELSE @ + 1,
        !.historyTimer = IF last THEN @ + HistoryPeriod ELSE @]

History(d) ==
    IF d.historyTimer <= 0 /\ clearToSend(d) THEN walkThroughHistory(d) ELSE d

(* What the byte read in this pass completes: nothing, the answer to the   *)
(* oldest command that was not answered, or a message sent unasked.        *)
Inputs(d) == {"nothing", "async"} \cup (IF d.unanswered > 0 THEN {"answer"} ELSE {})

Answered(d) ==
    [d EXCEPT !.unanswered = @ - 1,
              !.abandoned = IF d.unanswered = 1 THEN 0 ELSE @]

(* Mutant: hexProtocolAsyncResponseReceived too says that the command was  *)
(* answered.                                                               *)
processInput_AsyncClears(d, input) ==
    CASE input = "answer" -> [Answered(d) EXCEPT !.commandOutstanding = FALSE]
      [] input = "async" -> [d EXCEPT !.commandOutstanding = FALSE]
      [] input = "nothing" -> d

(* An answer that comes late frees the slot of another command.            *)
processInput(d, input) ==
    IF input = "answer" THEN [Answered(d) EXCEPT !.commandOutstanding = FALSE] ELSE d

resendPing(d) == [sendCommand(d) EXCEPT !.pingTimer = PingPeriod]

Ping(d) == IF d.pingTimer <= 0 /\ clearToSend(d) THEN resendPing(d) ELSE d

TimeOut(d) ==
    IF d.commandOutstanding /\ d.commandTimeout = 0
    THEN [d EXCEPT !.commandOutstanding = FALSE,
                   !.abandoned = IF d.unanswered = 0 THEN 0 ELSE UpTo(MaxUnanswered, @ + 1)]
    ELSE d

VEDirectService(d, input) == TimeOut(Ping(processInput(d, input)))

(* The ticks that go by from this pass to the next.                        *)
LessTicks(n, ticks, min) == IF n - ticks > min THEN n - ticks ELSE min

Later(d, ticks) ==
    [d EXCEPT !.historyTimer = LessTicks(@, ticks, -HistoryPeriod),
              !.pingTimer = LessTicks(@, ticks, -PingPeriod),
              !.commandTimeout = LessTicks(@, ticks, 0)]

(* Mutant: the history comes before the updates.                           *)
service_HistoryFirst ==
    LET sent == AllUpdates(History(mppt)) IN
    \E input \in Inputs(sent), ticks \in 0 .. 1 :
        /\ mppt' = Later(VEDirectService(sent, input), ticks)
        /\ blockTimer' = LessTicks(blockTimer, ticks, 0)

service ==
    LET sent == History(AllUpdates(mppt)) IN
    \E input \in Inputs(sent), ticks \in 0 .. 1 :
        /\ mppt' = Later(VEDirectService(sent, input), ticks)
        /\ blockTimer' = LessTicks(blockTimer, ticks, 0)

-----------------------------------------------------------------------------
(* processTextBlock of the BMV hands on the fields of a block, each of     *)
(* which sets or clears the value of every MPPT controller.                *)
BlockReceived ==
    /\ blockTimer = 0
    /\ blockTimer' = BlockPeriod
    /\ \E updates \in SUBSET Updates : mppt' = [mppt EXCEPT !.pending = @ \cup updates]

(* A command or its answer gets lost.                                      *)
Lost ==
    /\ mppt.unanswered > 0
    /\ mppt' = Answered(mppt)
    /\ UNCHANGED blockTimer

Next == service \/ BlockReceived \/ Lost

Spec == Init /\ [][Next]_vars

-----------------------------------------------------------------------------
TypeOK ==
    /\ mppt \in Device
    /\ blockTimer \in 0 .. BlockPeriod

(* With every answer lost, and requests of the history and pings in        *)
(* between, the slot is free often enough: when the BMV may speak again    *)
(* all it said before has been sent, so that no update is overwritten.     *)
UpdatesLeaveInTime == blockTimer = 0 => mppt.pending = {}

(* More than one command is under way only after commands that timed out,  *)
(* and then no more than those: clearToSend holds back the next until an   *)
(* answer, of whatever command, or the timeout has freed the slot.         *)
CommandsAccountedFor ==
    mppt.unanswered <= mppt.abandoned + (IF mppt.commandOutstanding THEN 1 ELSE 0)

(* What the polls have to share the slot with while they wait: a walk      *)
(* through the history, a ping, the rest of another command, and three     *)
(* updates in every block.  They have room if all this is sent within some *)
(* w ticks, before the next ping and twice before the next walk.           *)
RoomForPolls(timeout, ping, history, registers, block) ==
    LET slot == timeout + 1 IN
    \E w \in 1 .. ping :
        /\ 2 * w <= history
        /\ block * (slot * (registers + 8)) < (block - 3 * slot) * w

(* VEDirectDevice.cpp:83-84 "We periodically ping each device so that we   *)
(* keep them in HEX Protocol mode": service looks at the ping last, yet,   *)
(* whatever is lost, one that is due is sent before the next one would be. *)
(* And a walk through the history is over before the next one is due.      *)
(* So it is where there is RoomForPolls: with the code's periods, for      *)
(* passes of up to 25 ms.  With passes of 50 ms, and every answer lost, a  *)
(* ping can be later than that.                                            *)
PollsInTime == mppt.pingTimer > -PingPeriod /\ mppt.historyTimer > -HistoryPeriod
=============================================================================
