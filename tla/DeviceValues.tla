---------------------------- MODULE DeviceValues ----------------------------
(***************************************************************************)
(* The numbers of the firmware and the leaves that show them: the integer  *)
(* types of C++, the scaled numbers of FixedPoint, and the leaves with a   *)
(* retained value, one class for each type.                                *)
(*                                                                         *)
(* Word is the number of values of a 32 bit integer: a constant, since TLC *)
(* counts no further than 2^31.  Everything else has its own width.  The   *)
(* characters of a text are left out; whether it fits in its buffer is     *)
(* not.                                                                    *)
(***************************************************************************)
EXTENDS Integers, Sequences, FiniteSets

CONSTANT Word

ASSUME WordAssumption == Word \in Nat /\ Word % 65536 = 0 /\ Word \div 65536 \in 2 .. 65536

Modulus(type) ==
    CASE type \in {"uint8", "int8"} -> 256
      [] type \in {"uint16", "int16"} -> 65536
      [] type \in {"uint32", "int32"} -> Word

IsSigned(type) == type \in {"int8", "int16", "int32"}

(* The conversion of n to the type, and whether it changes nothing.        *)
Wrap(type, n) ==
    LET r == n % Modulus(type) IN
    IF IsSigned(type) /\ 2 * r >= Modulus(type) THEN r - Modulus(type) ELSE r

InRange(type, n) == Wrap(type, n) = n

MaxOf(type) == IF IsSigned(type) THEN Modulus(type) \div 2 - 1 ELSE Modulus(type) - 1

(* n / d of C++ rounds towards 0.                                          *)
Quotient(n, d) == IF n >= 0 THEN n \div d ELSE -((-n) \div d)

-----------------------------------------------------------------------------
(***************************************************************************)
(* FixedPoint.  Two scaled numbers differ (!=) when value or exponent do:  *)
(* when the records do.                                                    *)
(***************************************************************************)
Scaled(type, value, denominatorExponent) ==
    [value |-> Wrap(type, value), denominatorExponent |-> denominatorExponent]

ScaledUInt16(value, digits) == Scaled("uint16", value, digits)
ScaledInt16(value, digits) == Scaled("int16", value, digits)
ScaledUInt32(value, digits) == Scaled("uint32", value, digits)
ScaledInt32(value, digits) == Scaled("int32", value, digits)

(* An unscaled number, and a bool, as the leaves hold them.                *)
Plain(type, value) == Scaled(type, value, 0)
Bool(b) == Plain("uint8", IF b THEN 1 ELSE 0)

(* The characters toString and etl::to_string need.                        *)
PowersOfTen == <<10, 100, 1000, 10000, 100000, 1000000, 10000000, 100000000, 1000000000>>

DigitsOf(n) == 1 + Cardinality({k \in DOMAIN PowersOfTen : PowersOfTen[k] <= n})

TextLength(v) ==
    LET magnitude == IF v.value < 0 THEN -v.value ELSE v.value
        whole == v.denominatorExponent + 1
        digits == IF DigitsOf(magnitude) < whole THEN whole ELSE DigitsOf(magnitude)
    IN  digits + (IF v.value < 0 THEN 1 ELSE 0)
               + (IF v.denominatorExponent > 0 THEN 1 ELSE 0)

-----------------------------------------------------------------------------
(***************************************************************************)
(* The leaves.  A class is the room its buffers have for the text of a     *)
(* value, when it is published and when it is sent to a new subscriber.    *)
(* A string has no other buffer than the one that keeps it.                *)
(***************************************************************************)
NumberLeaf(published, retained) ==
    [kind |-> "number", published |-> published, retained |-> retained]

(* Mutant: the buffer of a UInt16 leaf has no room for the fifth digit.    *)
UInt16Leaf_ShortBuffer == NumberLeaf(4, 4)

BoolLeaf == NumberLeaf(12, 2)
UInt8Leaf == NumberLeaf(12, 3)
UInt16Leaf == NumberLeaf(12, 5)
UInt32Leaf == NumberLeaf(12, 12)
Int16Leaf == NumberLeaf(4, 4)
ScaledUInt16Leaf == NumberLeaf(14, 14)
ScaledInt16Leaf == NumberLeaf(14, 14)
ScaledUInt32Leaf == NumberLeaf(14, 14)
ScaledInt32Leaf == NumberLeaf(14, 14)
StringLeaf(size) == [kind |-> "string", size |-> size]

(* What a subscriber is told: <<>> is the empty text that takes a retained *)
(* value away, <<v>> the text of v, <<v, "cut">> as much of it as there    *)
(* was room for.                                                           *)
NoText == <<>>

Text(room, v) == IF TextLength(v) <= room THEN <<v>> ELSE <<v, "cut">>

(* A string is what was said and its length; too long a one loses its end. *)
Keep(size, s) == IF s.length <= size THEN s ELSE [s EXCEPT !.length = size]

Stored(class, v) == IF class.kind = "string" THEN Keep(class.size, v) ELSE v

PublishedText(class, v) == IF class.kind = "string" THEN <<v>> ELSE Text(class.published, v)

RetainedText(class, v) == IF class.kind = "string" THEN <<v>> ELSE Text(class.retained, v)

NoLeaf == [hasBeenSet |-> FALSE, value |-> <<>>]

(* operator = and removeValue: the leaf after them and what they publish,  *)
(* a sequence of no text or of one.                                        *)
(* Mutant: a value that was taken away is not set when it comes back.      *)
Assign_OnlyIfChanged(class, leaf, v) ==
    IF leaf.value # <<v>>
    THEN [leaf |-> [hasBeenSet |-> TRUE, value |-> <<Stored(class, v)>>],
          sent |-> <<PublishedText(class, Stored(class, v))>>]
    ELSE [leaf |-> leaf, sent |-> <<>>]

Assign(class, leaf, v) ==
    IF ~leaf.hasBeenSet \/ leaf.value # <<v>>
    THEN [leaf |-> [hasBeenSet |-> TRUE, value |-> <<Stored(class, v)>>],
          sent |-> <<PublishedText(class, Stored(class, v))>>]
    ELSE [leaf |-> leaf, sent |-> <<>>]

(* Mutant: the subscribers are not told.                                   *)
RemoveValue_Silent(leaf) == [leaf |-> [leaf EXCEPT !.hasBeenSet = FALSE], sent |-> <<>>]

RemoveValue(leaf) ==
    IF leaf.hasBeenSet
    THEN [leaf |-> [leaf EXCEPT !.hasBeenSet = FALSE], sent |-> <<NoText>>]
    ELSE [leaf |-> leaf, sent |-> <<>>]

(* sendRetainedValue: what a new subscriber is told, if anything.          *)
SendRetainedValue(class, leaf) ==
    IF leaf.hasBeenSet THEN <<RetainedText(class, leaf.value[1])>> ELSE <<>>
=============================================================================
