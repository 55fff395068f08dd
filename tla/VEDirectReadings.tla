-------------------------- MODULE VEDirectReadings --------------------------
(***************************************************************************)
(* What a register makes of a hex message and a field of a text: one       *)
(* operator for the set() of each class.                                   *)
(*                                                                         *)
(* A reading is what set() returns and the value for the leaf: <<v>>, or   *)
(* <<>> when the leaf's value is removed.  Registers without a leaf drop   *)
(* it.                                                                     *)
(***************************************************************************)
EXTENDS VEDirectHex

Reading(value) == [ok |-> TRUE, value |-> <<value>>]
Removal == [ok |-> TRUE, value |-> <<>>]
Failure == [ok |-> FALSE, value |-> <<>>]

-----------------------------------------------------------------------------
(***************************************************************************)
(* Registers.  c is the cursor behind the register's ID; flags come first. *)
(***************************************************************************)
Checked(c, value) ==
    IF c.parseError \/ c.values[1] # 0 THEN Failure ELSE Reading(value)

Unsigned(message, c, size, type, digits) ==
    LET d == ParseAll(message, c, <<1, size>>) IN Checked(d, Scaled(type, d.values[2], digits))

Signed(message, c, type, digits) ==
    LET d == expectedEnd(message, parseInt(message, parseUInt(message, c, 1), type)) IN
    Checked(d, Scaled(type, d.values[2], digits))

UInt8Register(message, c, digits) == Unsigned(message, c, 1, "uint8", digits)
UInt8OnOffRegister(message, c, digits) == Unsigned(message, c, 1, "uint8", 0)
UInt16Register(message, c, digits) == Unsigned(message, c, 2, "uint16", digits)
UInt16RangeRegister(message, c, digits) == Unsigned(message, c, 2, "uint16", 0)
UInt24Register(message, c, digits) == Unsigned(message, c, 3, "uint32", digits)
UInt32Register(message, c, digits) == Unsigned(message, c, 4, "uint32", digits)
Int16Register(message, c, digits) == Signed(message, c, "int16", digits)
Int32Register(message, c, digits) == Signed(message, c, "int32", digits)

(* parseString never reads past its first character.                       *)
ReadString(message, c) ==
    LET d == expectedEnd(message, parseString(message, parseUInt(message, c, 1)))
    IN  Checked(d, "string")

String20Register(message, c, digits) == ReadString(message, c)
String32Register(message, c, digits) == ReadString(message, c)

(* The history records: flags, the version, then these sizes.  A record of *)
(* another version is refused before anything else is looked at.           *)
TotalHistorySizes ==
    <<1, 1>> \o <<1, 1, 1, 1, 1>> \o <<4, 4, 2, 2, 1, 2>> \o [reserved \in 1 .. 13 |-> 1]

MPPTTotalHistoryRegister(message, c, digits) ==
    LET d == ParseAll(message, c, TotalHistorySizes) IN
    IF d.values[2] # 1 THEN Failure ELSE Checked(d, "total history")

DailyHistorySizes == <<1, 1, 4, 4, 2, 2, 1, 1, 1, 1, 1, 2, 2, 2, 4, 2, 2, 2>>

(* What MPPTDailyHistoryLeaves::set gives to each leaf of a day, in the    *)
(* order of the record.  The number of the day has none.                   *)
DayLeaves ==
    <<"yield", "consumed", "batteryVoltageMaximum", "batteryVoltageMinimum", "errorDatabase",
      "error0", "error1", "error2", "error3", "timeBulk", "timeAbsorption", "timeFloat",
      "powerMaximum", "batteryCurrentMaximum", "panelVoltageMaximum">>

DayClass(leaf) ==
    CASE leaf \in {"yield", "consumed"} -> ScaledUInt32Leaf
      [] leaf \in {"batteryVoltageMaximum", "batteryVoltageMinimum", "batteryCurrentMaximum",
                   "panelVoltageMaximum"} -> ScaledUInt16Leaf
      [] leaf \in {"errorDatabase", "error0", "error1", "error2", "error3"} -> UInt8Leaf
      [] leaf \in {"timeBulk", "timeAbsorption", "timeFloat"} -> UInt16Leaf
      [] leaf = "powerMaximum" -> UInt32Leaf

DayDigits(leaf) ==
    CASE leaf = "batteryCurrentMaximum" -> 1
      [] leaf \in {"yield", "consumed", "batteryVoltageMaximum", "batteryVoltageMinimum",
                   "panelVoltageMaximum"} -> 2
      [] OTHER -> 0

DayValues(values) ==
    [leaf \in Range(DayLeaves) |->
        LET i == CHOOSE i \in DOMAIN DayLeaves : DayLeaves[i] = leaf IN
        [value |-> values[i + 2], denominatorExponent |-> DayDigits(leaf)]]

MPPTDailyHistoryRegister(message, c, digits) ==
    LET d == ParseAll(message, c, DailyHistorySizes) IN
    IF d.values[2] # 0 THEN Failure ELSE Checked(d, DayValues(d.values))

RegisterSet(class, message, c, digits) ==
    CASE class = "UInt8" -> UInt8Register(message, c, digits)
      [] class = "UInt8OnOff" -> UInt8OnOffRegister(message, c, digits)
      [] class = "UInt16" -> UInt16Register(message, c, digits)
      [] class = "UInt16Range" -> UInt16RangeRegister(message, c, digits)
      [] class = "UInt24" -> UInt24Register(message, c, digits)
      [] class = "UInt32" -> UInt32Register(message, c, digits)
      [] class = "Int16" -> Int16Register(message, c, digits)
      [] class = "Int32" -> Int32Register(message, c, digits)
      [] class = "String20" -> String20Register(message, c, digits)
      [] class = "String32" -> String32Register(message, c, digits)
      [] class = "TotalHistory" -> MPPTTotalHistoryRegister(message, c, digits)
      [] class = "DailyHistory" -> MPPTDailyHistoryRegister(message, c, digits)

-----------------------------------------------------------------------------
(***************************************************************************)
(* Fields.  The value of a text field is a number, a hex number with its   *)
(* 0x, one of the words the code knows, or anything else.                  *)
(***************************************************************************)
Number(n) == [kind |-> "number", n |-> n, length |-> TextLength(Plain("int32", n))]
HexNumber(n) == [kind |-> "hex", n |-> n, length |-> 6]
Dashes == [kind |-> "---", n |-> 0, length |-> 3]
On == [kind |-> "ON", n |-> 1, length |-> 2]
Off == [kind |-> "OFF", n |-> 0, length |-> 3]
Other(length) == [kind |-> "other", n |-> 0, length |-> length]

(* to_arithmetic<type>: has_value.                                         *)
HasValue(type, text) == text.kind = "number" /\ InRange(type, text.n)

(* What a field is built with.  Where there is an exception, the dashes    *)
(* read as the largest number of the type.                                 *)
FieldArguments(class, digits, invert, exceptionMatch) ==
    [digits |-> digits, invert |-> invert, exceptionMatch |-> exceptionMatch,
     exceptionValue |-> CASE class = "UInt8" -> MaxOf("uint8")
                          [] class \in {"UInt16", "HexUInt16"} -> MaxOf("uint16")
                          [] OTHER -> MaxOf("uint32")]

Inverted(invert, n) == IF invert THEN -n ELSE n

(* The int32_t that was read is stored as an int16_t.  This class alone    *)
(* does not know the dashes.                                               *)
Int16Field(text, f) ==
    IF HasValue("int32", text) THEN Reading(Plain("int16", Inverted(f.invert, text.n)))
    ELSE Failure

(* The fields with an exception: the text exceptionMatch, and the dashes,  *)
(* stand for exceptionValue.                                               *)
IsException(text, f) == text = Dashes \/ <<text>> = f.exceptionMatch

Excepted(type, text, f) == Reading(Plain(type, f.exceptionValue))

PlainField(type, text, f) ==
    IF IsException(text, f) THEN Excepted(type, text, f)
    ELSE IF HasValue(type, text) THEN Reading(Plain(type, text.n)) ELSE Failure

UInt8Field(text, f) == PlainField("uint8", text, f)
UInt16Field(text, f) == PlainField("uint16", text, f)

(* The member exceptionValue has but 16 bits.                              *)
UInt32Field(text, f) ==
    PlainField("uint32", text, [f EXCEPT !.exceptionValue = Wrap("uint16", @)])

HexField(type, text, f) ==
    IF IsException(text, f) THEN Excepted(type, text, f)
    ELSE IF text.kind = "hex" /\ InRange(type, text.n) THEN Reading(Plain(type, text.n))
    ELSE Failure

HexUInt16Field(text, f) == HexField("uint16", text, f)
HexUInt32Field(text, f) == HexField("uint32", text, f)

(* The scaled fields take the dashes for no value.                         *)
ScaledField(type, text, f) ==
    IF text = Dashes THEN Removal
    ELSE IF HasValue(type, text)
         THEN Reading(Scaled(type, Inverted(f.invert, text.n), f.digits))
         ELSE Failure

ScaledUInt16Field(text, f) == ScaledField("uint16", text, [f EXCEPT !.invert = FALSE])
ScaledUInt32Field(text, f) == ScaledField("uint32", text, [f EXCEPT !.invert = FALSE])
ScaledInt32Field(text, f) == ScaledField("int32", text, f)

OnOffField(text, f) ==
    IF text \in {On, Off} THEN Reading(Bool(text = On)) ELSE Failure

StringField(text, f) == Reading(text)

(* The BMV's own: what is shown, the MPPT controllers are told elsewhere.  *)
BMVVoltageField(text, f) ==
    IF text = Dashes THEN Removal
    ELSE IF HasValue("int32", text) THEN Reading(ScaledInt16(Quotient(text.n, 10), 2))
    ELSE Failure

BMVTemperatureField(text, f) ==
    IF text = Dashes THEN Removal
    ELSE IF HasValue("int16", text) THEN Reading(Plain("int16", text.n)) ELSE Failure

BMVCurrentField(text, f) ==
    IF text = Dashes THEN Removal
    ELSE IF HasValue("int32", text) THEN Reading(ScaledInt32(text.n, 3)) ELSE Failure

FieldSet(class, text, f) ==
    CASE class = "Int16" -> Int16Field(text, f)
      [] class = "UInt8" -> UInt8Field(text, f)
      [] class = "UInt16" -> UInt16Field(text, f)
      [] class = "UInt32" -> UInt32Field(text, f)
      [] class = "HexUInt16" -> HexUInt16Field(text, f)
      [] class = "HexUInt32" -> HexUInt32Field(text, f)
      [] class = "ScaledUInt16" -> ScaledUInt16Field(text, f)
      [] class = "ScaledUInt32" -> ScaledUInt32Field(text, f)
      [] class = "ScaledInt32" -> ScaledInt32Field(text, f)
      [] class = "OnOff" -> OnOffField(text, f)
      [] class = "String" -> StringField(text, f)
      [] class = "BMVVoltage" -> BMVVoltageField(text, f)
      [] class = "BMVTemperature" -> BMVTemperatureField(text, f)
      [] class = "BMVCurrent" -> BMVCurrentField(text, f)
=============================================================================
