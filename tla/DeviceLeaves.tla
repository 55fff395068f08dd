---------------------------- MODULE DeviceLeaves ----------------------------
(***************************************************************************)
(* From the line of a device to a leaf and to its subscribers, and from    *)
(* the BMV's text by way of a command to the leaves of an MPPT controller. *)
(*                                                                         *)
(* A behaviour follows one wire: a text field or a register of one device, *)
(* with the leaf it feeds.  Messages come in whole (VEDirectText); commands *)
(* are sent when their slot is free (MPPTController) and the device may    *)
(* take the value, refuse it, or not answer.  The subscriber has been      *)
(* there from the beginning; how many there are and how the filters find   *)
(* the leaf is DataModel.                                                  *)
(***************************************************************************)
EXTENDS MPPTWiring, BMVWiring

CONSTANTS
    Texts,              \* values of text fields
    MPPTRegisters,      \* the IDs of registers that are looked at
    BMVRegisters,
    Fills               \* first bytes of the data of a hex message

ASSUME LeavesAssumption ==
    /\ MPPTRegisters \subseteq MPPTRegisterIds
    /\ BMVRegisters \subseteq BMVRegisterIds
    /\ Fills \subseteq 0 .. 255
    /\ \A text \in Texts :
          /\ text \in [kind : {"number", "hex", "---", "ON", "OFF", "other"}, n : Int, length : Nat]
          /\ text.kind \in {"---", "ON", "OFF"} => text \in {Dashes, On, Off}

VARIABLES
    wire,
    leaf,       \* the leaf at its end
    told,       \* what the subscriber was told last
    last,       \* the last message
    ok,         \* what set() returned for it
    update,     \* battery...UpdatePending and battery...Update
    command,    \* the command on the line to the MPPT controller
    sense       \* the leaf of the MPPT controller's sense register

(* update, command and sense carry, as a ghost, the text they come from.   *)
vars == <<wire, leaf, told, last, ok, update, command, sense>>

Wire(kind, device, key, name) == [kind |-> kind, device |-> device, key |-> key, leaf |-> name]

TextWires ==
    {Wire("text", "MPPT", label, MPPTFieldMap[label]) : label \in DOMAIN MPPTFieldMap} \cup
    {Wire("text", "BMV", label, BMVFieldMap[label]) : label \in DOMAIN BMVFieldMap}

RegisterWires ==
    {Wire("hex", "MPPT", id, "none") : id \in {i \in MPPTRegisters : MPPTRegisterLeaf(i) = <<>>}} \cup
    {Wire("hex", "BMV", id, "none") : id \in BMVRegisters} \cup
    {Wire("hex", "MPPT", id, MPPTRegisterLeaf(id)[1].leaf) :
        id \in MPPTRegisters \cap {VoltageSense, TemperatureSense, CurrentSense}} \cup
    {Wire("hex", "MPPT", w[1], w[2]) :
        w \in {i \in MPPTRegisters : MPPTRegisterClass[i] = "DailyHistory"
                                     /\ MPPTRegisterLeaf(i) # <<>>} \X Range(DayLeaves)}

None == [kind |-> "none"]

Init ==
    /\ wire \in TextWires \cup RegisterWires
    /\ leaf = NoLeaf
    /\ told = NoText
    /\ last = None
    /\ ok = TRUE
    /\ update = [pending |-> FALSE, value |-> 0, from |-> None]
    /\ command = [bytes |-> <<>>, from |-> None]
    /\ sense = [leaf |-> NoLeaf, from |-> None]

-----------------------------------------------------------------------------
RegisterClass(w) ==
    IF w.device = "MPPT" THEN MPPTRegisterClass[w.key] ELSE BMVRegisterClass[w.key]

RegisterDigits(w) ==
    IF w.device = "MPPT" /\ MPPTRegisterLeaf(w.key) # <<>> THEN MPPTRegisterLeaf(w.key)[1].digits
    ELSE 0

IsHistory(w) == w.kind = "hex" /\ RegisterClass(w) \in {"DailyHistory", "TotalHistory"}

LeafClass(w) ==
    IF w.kind = "hex" /\ IsHistory(w) THEN DayClass(w.leaf)
    ELSE IF w.device = "MPPT" THEN MPPTLeafClass(w.leaf) ELSE BMVLeafClass(w.leaf)

TakeReading(class, l, reading) ==
    IF reading.value = <<>> THEN RemoveValue(l) ELSE Assign(class, l, reading.value[1])

Told(effect) == IF effect.sent = <<>> THEN told ELSE effect.sent[1]

-----------------------------------------------------------------------------
(***************************************************************************)
(* The BMV's own fields tell the MPPT controllers what they show.  The     *)
(* conversions are those of the calls from one to the other.               *)
(***************************************************************************)
clearBatteryVoltage == MaxOf("uint16")
clearBatteryTemperature == MaxOf("int16")
clearBatteryCurrent == MaxOf("int32")

setBatteryVoltage(voltageMV) == Wrap("uint16", Wrap("uint32", voltageMV) \div 10)
setBatteryTemperature(temperatureC) == Wrap("uint16", Wrap("int16", temperatureC * 100))
setBatteryCurrent(currentMA) == currentMA

UpdateValue(field, text) ==
    CASE field = "voltage" -> IF HasValue("int32", text) THEN setBatteryVoltage(text.n)
                              ELSE clearBatteryVoltage
      [] field = "temperature" -> IF HasValue("int16", text) THEN setBatteryTemperature(text.n)
                                  ELSE clearBatteryTemperature
      [] field = "current" -> IF HasValue("int32", text) THEN setBatteryCurrent(text.n)
                              ELSE clearBatteryCurrent

TellsMPPTs(w) == w.device = "BMV" /\ w.leaf \in {"voltage", "temperature", "current"}

(* processTextBlock: the field of the wire is set.                         *)
processTextField ==
    \E text \in Texts :
        LET class == IF wire.device = "MPPT" THEN MPPTFieldClass(wire.leaf)
                     ELSE BMVFieldClass(wire.leaf)
            arguments == IF wire.device = "MPPT" THEN MPPTFieldArguments(wire.leaf)
                         ELSE BMVFieldArguments(wire.leaf)
            reading == FieldSet(class, text, arguments)
            effect == TakeReading(LeafClass(wire), leaf, reading)
        IN  /\ wire.kind = "text"
            /\ leaf' = effect.leaf
            /\ told' = Told(effect)
            /\ ok' = reading.ok
            /\ last' = text
            /\ update' = IF TellsMPPTs(wire)
                         THEN [pending |-> TRUE, value |-> UpdateValue(wire.leaf, text), from |-> text]
                         ELSE update
            /\ UNCHANGED <<wire, command, sense>>

-----------------------------------------------------------------------------
(***************************************************************************)
(* Hex messages.                                                           *)
(***************************************************************************)
SizesOf(class) ==
    CASE class \in {"UInt8", "UInt8OnOff"} -> <<1, 1>>
      [] class \in {"UInt16", "UInt16Range", "Int16"} -> <<1, 2>>
      [] class = "UInt24" -> <<1, 3>>
      [] class \in {"UInt32", "Int32", "String20", "String32"} -> <<1, 4>>
      [] class = "TotalHistory" -> TotalHistorySizes
      [] class = "DailyHistory" -> DailyHistorySizes

Sum(sizes) ==
    LET sum[i \in 0 .. Len(sizes)] == IF i = 0 THEN 0 ELSE sum[i - 1] + sizes[i]
    IN  sum[Len(sizes)]

(* What a device sends: flags, in a history record the version, and data   *)
(* that counts up from a first byte; too short or too long by some bytes.  *)
HexContents ==
    [kind : {"register"}, flags : {0, 4}, version : {0, 1}, fill : Fills, extra : {-1, 0, 1}]

DataByte(content, i) == (content.fill + i) % 256

Payload(class, content) ==
    LET size == Sum(SizesOf(class)) + content.extra - 1 IN
    <<content.flags>> \o
    [i \in 1 .. size |-> IF i = 1 /\ class \in {"TotalHistory", "DailyHistory"}
                         THEN content.version ELSE DataByte(content, i)]

Response(code, registerID, payload) ==
    appendChecksum(appendUInt16(<<code>>, registerID) \o payload)

(* The cursor has read the ID; the register starts from a list of its own. *)
BehindID(message) == [parseUInt(message, Start, 2) EXCEPT !.values = <<>>]

(* hexProtocolGetResponseReceived and its like, of a register in the map.  *)
SetRegister(w, message) ==
    RegisterSet(RegisterClass(w), message, BehindID(message), RegisterDigits(w))

(* A history record that is refused leaves the leaves as they are.         *)
TakeRegister(w, l, reading) ==
    IF w.leaf = "none" \/ (IsHistory(w) /\ ~reading.ok) THEN [leaf |-> l, sent |-> <<>>]
    ELSE IF IsHistory(w) THEN Assign(DayClass(w.leaf), l, reading.value[1][w.leaf])
    ELSE TakeReading(LeafClass(w), l, reading)

(* The handlers of GET, SET and ASYNC messages do the same with them.      *)
hexMessageReceived ==
    \E content \in HexContents, code \in {GetResponse, AsyncResponse} :
        LET message == Response(code, wire.key, Payload(RegisterClass(wire), content))
            reading == SetRegister(wire, message)
            effect == TakeRegister(wire, leaf, reading)
        IN  /\ wire.kind = "hex"
            /\ leaf' = effect.leaf
            /\ told' = Told(effect)
            /\ ok' = reading.ok
            /\ last' = content
            /\ UNCHANGED <<wire, update, command, sense>>

-----------------------------------------------------------------------------
(***************************************************************************)
(* A battery value on its way to the MPPT controller.                      *)
(***************************************************************************)
SenseRegister(w) ==
    CASE w.leaf = "voltage" -> VoltageSense
      [] w.leaf = "temperature" -> TemperatureSense
      [] w.leaf = "current" -> CurrentSense

sendUpdate ==
    /\ update.pending
    /\ command.bytes = <<>>
    /\ command' = [bytes |-> IF wire.leaf = "current" THEN sendSet32(CurrentSense, update.value)
                             ELSE sendSet16(SenseRegister(wire), update.value),
                   from |-> update.from]
    /\ update' = [update EXCEPT !.pending = FALSE]
    /\ UNCHANGED <<wire, leaf, told, last, ok, sense>>

(* What the device sees in a command that passes its checksum: the answer  *)
(* repeats ID and data, with flags of its own.                             *)
CommandData(bytes) == SubSeq(bytes, 5, Len(bytes) - 1)

Answer(bytes, flags) ==
    appendChecksum(<<SetResponse>> \o SubSeq(bytes, 2, 3) \o <<flags>> \o CommandData(bytes))

hexProtocolSetResponseReceived ==
    \E flags \in {0, 4} :
        LET w == Wire("hex", "MPPT", SenseRegister(wire), MPPTRegisterLeaf(SenseRegister(wire))[1].leaf)
            message == Answer(command.bytes, flags)
            effect == TakeRegister(w, sense.leaf, SetRegister(w, message))
        IN  /\ command.bytes # <<>>
            /\ SumOfBytes(command.bytes) = ChecksumOfMessage
            /\ sense' = [leaf |-> effect.leaf, from |-> command.from]
            /\ command' = [bytes |-> <<>>, from |-> None]
            /\ UNCHANGED <<wire, leaf, told, last, ok, update>>

(* Nothing comes back, and the command times out.                          *)
CommandTimesOut ==
    /\ command.bytes # <<>>
    /\ command' = [bytes |-> <<>>, from |-> None]
    /\ UNCHANGED <<wire, leaf, told, last, ok, update, sense>>

Next ==
    \/ processTextField
    \/ hexMessageReceived
    \/ sendUpdate
    \/ hexProtocolSetResponseReceived
    \/ CommandTimesOut

Spec == Init /\ [][Next]_vars

-----------------------------------------------------------------------------
(* The number the data bytes of a content stand for, from one place on.    *)
DataNumber(content, first, size) ==
    LET weight == <<1, 256, 65536, 16777216>>
        weighted == [i \in 1 .. size |-> DataByte(content, first + i - 1) * (weight[i] % Word)]
    IN  Sum(weighted) % Word

Magnitude(n) == IF n < 0 THEN -n ELSE n

(* Where a leaf of a day finds its bytes.                                  *)
DayPlace(name) ==
    LET i == CHOOSE i \in DOMAIN DayLeaves : DayLeaves[i] = name IN
    [first |-> Sum(SubSeq(DailyHistorySizes, 1, i + 1)), size |-> DailyHistorySizes[i + 2]]

ShowsContent(w, v, content) ==
    LET place == IF IsHistory(w) THEN DayPlace(w.leaf)
                 ELSE [first |-> 1, size |-> SizesOf(RegisterClass(w))[2]]
    IN  v.value % Modulus(IF place.size = 4 THEN "uint32"
                          ELSE IF place.size = 2 THEN "uint16" ELSE "uint8") =
        DataNumber(content, place.first, place.size)

(* The dashes and the words a field excepts read as the largest number.    *)
(* An Int16 leaf keeps the low 16 bits of a number that has more, and the  *)
(* voltage of the BMV those of a tenth of its mV: it is looked at as far   *)
(* as they hold.                                                           *)
ShowsText(w, v, text) ==
    IF LeafClass(w).kind = "string" THEN v = Keep(LeafClass(w).size, text)
    ELSE IF text = Dashes \/ (w.leaf = "timeToGo" /\ text = Number(-1))
    THEN v.value \in {MaxOf("uint8"), MaxOf("uint16"), MaxOf("uint32")}
    ELSE IF LeafClass(w) = Int16Leaf THEN v.value = Wrap("int16", text.n)
    ELSE IF w.leaf = "voltage" /\ w.device = "BMV"
    THEN InRange("int16", Quotient(text.n, 10)) =>
            Magnitude(v.value) = Magnitude(text.n) \div 10
    ELSE Magnitude(v.value) = Magnitude(text.n)

(* A leaf tells of the last message of its wire and never of one before:   *)
(* the very number when set() took the message, nothing when it did not.   *)
(* The exceptions: the dashes may be no value, and the history of an MPPT  *)
(* controller keeps the record it has when one is refused.                 *)
LeafTellsLastMessage ==
    last # None /\ wire.leaf # "none" =>
        IF ~ok THEN IsHistory(wire) \/ ~leaf.hasBeenSet
        ELSE IF leaf.hasBeenSet
        THEN IF wire.kind = "text" THEN ShowsText(wire, leaf.value[1], last)
             ELSE ShowsContent(wire, leaf.value[1], last)
        ELSE last = Dashes

(* Whoever subscribes now is told what the others were told last: nothing, *)
(* after a removal; else the same text, out of another buffer.             *)
LateSubscriberIsToldTheSame ==
    wire.leaf # "none" =>
        SendRetainedValue(LeafClass(wire), leaf) = IF told = NoText THEN <<>> ELSE <<told>>

(* No text loses its end but that of the Int16 leaves of the BMV, whose    *)
(* buffers have four characters: -1500 W is published as -150.             *)
OnlyInt16TextsAreCut ==
    Len(told) = 2 =>
        /\ wire.device = "BMV" /\ wire.leaf \in {"power", "temperature", "monitorMode"}
        /\ told[1].value > 9999 \/ told[1].value < -999

(* A register takes a message exactly when its flags are clear, its length *)
(* is that of the register and, in a history record, its version is known. *)
(* The two classes of string registers take none: they do not get past the *)
(* first character.                                                        *)
RegistersReadTheirLayout ==
    wire.kind = "hex" /\ last # None =>
        (ok <=> /\ last.flags = 0 /\ last.extra = 0
                /\ RegisterClass(wire) \notin {"String20", "String32"}
                /\ RegisterClass(wire) = "TotalHistory" => last.version = 1
                /\ RegisterClass(wire) = "DailyHistory" => last.version = 0)

(* What the BMV read in the controller's unit.                             *)
SenseValue(w, text) ==
    CASE w.leaf = "voltage" ->
            IF HasValue("int32", text) THEN text.n \div 10 ELSE MaxOf("uint16")
      [] w.leaf = "temperature" ->
            IF HasValue("int16", text) THEN 100 * text.n ELSE MaxOf("int16")
      [] w.leaf = "current" ->
            IF HasValue("int32", text) THEN text.n ELSE MaxOf("int32")

(* The numbers the registers have room for.                                *)
InSenseRange(w, text) ==
    text.kind = "number" =>
        CASE w.leaf = "voltage" -> InRange("uint16", text.n \div 10)
          [] w.leaf = "temperature" -> InRange("int16", 100 * text.n) \/ ~HasValue("int16", text)
          [] w.leaf = "current" -> TRUE

(* The sense leaves of an MPPT controller show what the BMV read, in the   *)
(* controller's unit, from the command that was taken: rounded down to     *)
(* 10 mV, in 1/100 of a degree, in mA.  After dashes they show the largest *)
(* number: of 16 bits, 655.35 V and 327.67 degrees.  A command always      *)
(* passes the device's checksum.                                           *)
MPPTShowsBMV ==
    /\ command.bytes # <<>> => SumOfBytes(command.bytes) = ChecksumOfMessage
    /\ sense.leaf.hasBeenSet /\ InSenseRange(wire, sense.from) =>
            sense.leaf.value[1].value = SenseValue(wire, sense.from)
=============================================================================
