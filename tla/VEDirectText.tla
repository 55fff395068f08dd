---------------------------- MODULE VEDirectText ----------------------------
(***************************************************************************)
(* VEDirectDevice::processInput: the state machine that takes the bytes of *)
(* a VE.Direct line apart into blocks of text fields and hex messages, and *)
(* the checksums that guard both.                                          *)
(*                                                                         *)
(* One action is one byte: service() reads at most one in a pass.  The     *)
(* device sends items, blocks or hex messages; a byte of an item may be    *)
(* lost, once between two blocks that get through, and the firmware may    *)
(* start in the middle of a block.                                         *)
(*                                                                         *)
(* Abstractions.  Bytes and sums are the real ones.  The device sends one  *)
(* item after the other, each when the one before has been read.  What     *)
(* the fields and the commands do with what they are given is left out.    *)
(* Of the error counters only whether one that is published has gone up is *)
(* kept.                                                                   *)
(***************************************************************************)
EXTENDS Integers, Sequences, SequencesExt

CONSTANTS
    Blocks,             \* what the device says: sequences of <<label, value>>
    HexMessages,        \* sequences of bytes, the checksum last
    MaxLabelLength,     \* VEDirectTextField::MAX_LABEL_LENGTH
    MaxValueLength,     \* VEDirectTextField::MAX_VALUE_LENGTH
    MaxFields,          \* VE_DIRECT_MAX_TEXT_FIELDS_PER_BLOCK
    MaxHexInRow,        \* bound: hex messages sent between two blocks
    MaxHexMessage       \* HEX_PROTOCOL_MAX_MESSAGE_LENGTH

LineFeed == 10
CarriageReturn == 13
Tab == 9
Colon == 58
ChecksumLabel == <<67, 104, 101, 99, 107, 115, 117, 109>>

Byte == 0 .. 255

ASSUME TextAssumption ==
    /\ {MaxLabelLength, MaxValueLength, MaxFields, MaxHexInRow, MaxHexMessage} \subseteq Nat
    /\ \A b \in Blocks : b \in Seq(Seq(Byte) \X Seq(Byte)) /\ Len(b) \in 1 .. MaxFields
    /\ HexMessages \subseteq Seq(Byte)
    /\ Len(ChecksumLabel) <= MaxLabelLength

VARIABLES
    state,
    textChecksum,
    label,          \* textField
    value,
    textBlock,
    hexMessage,
    overrun,        \* a field was pushed on a full textBlock
    counted,        \* an error was counted since the last good block or hex message
    wire,           \* bytes of the item still to be read
    item,           \* the item the device sends
    applied,        \* the block or message taken while it was sent
    inStep,         \* nothing was lost since the last block, itself whole
    lossy,          \* a byte was lost since the last good block or in its last item
    gap             \* a block was not applied since then

textVars == <<textChecksum, label, value, textBlock, overrun>>
itemVars == <<item, inStep>>
blockVars == <<counted, applied, lossy, gap>>
vars == <<state, textChecksum, label, value, textBlock, hexMessage, overrun, counted,
          wire, item, applied, inStep, lossy, gap>>

-----------------------------------------------------------------------------
(***************************************************************************)
(* What the device sends.                                                  *)
(***************************************************************************)
SumOf(bytes) ==
    LET sum[i \in 0 .. Len(bytes)] == IF i = 0 THEN 0 ELSE (sum[i - 1] + bytes[i]) % 256
    IN  sum[Len(bytes)]

FieldBytes(field) == <<CarriageReturn, LineFeed>> \o field[1] \o <<Tab>> \o field[2]

(* A block ends in a field for the byte that makes its sum 0.              *)
Fields(b) == Append(b, <<ChecksumLabel, <<>>>>)

BlockBytes(b) ==
    LET bytes == FlattenSeq([k \in 1 .. Len(b) + 1 |-> FieldBytes(Fields(b)[k])])
    IN  Append(bytes, (256 - SumOf(bytes)) % 256)

HexDigit(n) == IF n < 10 THEN 48 + n ELSE 55 + n

(* A colon, the command as one digit, two digits for each byte, a newline. *)
HexBytes(m) ==
    [i \in 1 .. 2 * Len(m) + 1 |->
        IF i = 1 THEN Colon
        ELSE IF i = 2 * Len(m) + 1 THEN LineFeed
        ELSE IF i % 2 = 0 THEN HexDigit(m[i \div 2] % 16)
        ELSE HexDigit(m[(i + 1) \div 2] \div 16)]

Text(b) == <<"text", b>>
Hex(m) == <<"hex", m>>
Nothing == <<"nothing">>

IsText(content) == content[1] = "text"

(* What is sent, whether all of it arrives, and how many hex messages      *)
(* there were since the last block.                                        *)
Item(content, whole) ==
    [content |-> content, whole |-> whole,
     hexes |-> IF IsText(content) THEN 0 ELSE item.hexes + 1]

-----------------------------------------------------------------------------
(***************************************************************************)
(* Hex messages: VEDirectHexMessage.                                       *)
(***************************************************************************)
HexReset ==
    [message |-> <<>>, checksum |-> 85, inputByte |-> 0, onLowNibble |-> TRUE,
     messageInError |-> FALSE]

IsHexValue(c) == c \in 48 .. 57 \cup 65 .. 70
HexValue(c) == IF c <= 57 THEN c - 48 ELSE c - 55

(* One more than the buffer holds stands for is_truncated.                 *)
PushByte(m, b) == IF Len(m) <= MaxHexMessage THEN Append(m, b) ELSE m

(* inputCharacter, of a character that does not end the message.           *)
HexInput(h, c) ==
    LET byte == h.inputByte + HexValue(c) IN
    IF ~IsHexValue(c) THEN [h EXCEPT !.messageInError = TRUE]
    ELSE IF h.onLowNibble
    THEN [h EXCEPT !.message = PushByte(@, byte), !.checksum = (@ - byte) % 256,
                   !.inputByte = byte, !.onLowNibble = FALSE]
    ELSE [h EXCEPT !.inputByte = 16 * HexValue(c), !.onLowNibble = TRUE]

HexCounted(h) == Len(h.message) < 2 \/ h.checksum # 0

HexValid(h) ==
    /\ ~h.messageInError /\ ~h.onLowNibble
    /\ ~HexCounted(h)
    /\ Len(h.message) <= MaxHexMessage

-----------------------------------------------------------------------------
Init ==
    /\ state = "IDLE"
    /\ textChecksum = 0
    /\ label = <<>>
    /\ value = <<>>
    /\ textBlock = <<>>
    /\ hexMessage = HexReset
    /\ overrun = FALSE
    /\ counted = FALSE
    /\ applied = Nothing
    /\ inStep = FALSE
    /\ lossy = FALSE
    /\ gap = FALSE
    /\ \E b \in Blocks : \E n \in 1 .. Len(BlockBytes(b)) :
          /\ wire = SubSeq(BlockBytes(b), n, Len(BlockBytes(b)))
          /\ item = [content |-> Text(b), whole |-> n = 1, hexes |-> 0]

(* The device sends bytes for content, all of them or all but one.         *)
Sends(content, bytes) ==
    /\ wire = <<>>
    /\ \/ wire' = bytes /\ item' = Item(content, TRUE) /\ UNCHANGED lossy
       \/ /\ ~lossy
          /\ \E n \in 1 .. Len(bytes) : wire' = RemoveAt(bytes, n)
          /\ item' = Item(content, FALSE)
          /\ lossy' = TRUE
    /\ applied' = Nothing
    /\ gap' = (IsText(content) /\ (gap \/ (IsText(item.content) /\ applied = Nothing)))
    /\ counted' = (IsText(content) /\ counted)
    /\ inStep' = (item.whole /\ (IsText(item.content) \/ inStep))
    /\ UNCHANGED <<state, textVars, hexMessage>>

SendsBlock == \E b \in Blocks : Sends(Text(b), BlockBytes(b))
SendsHexMessage ==
    /\ item.hexes < MaxHexInRow
    /\ \E m \in HexMessages : Sends(Hex(m), HexBytes(m))

-----------------------------------------------------------------------------
(***************************************************************************)
(* processCharInput, by the state it is in.                                *)
(***************************************************************************)
addToTextCheckSum(c) == textChecksum' = (textChecksum + c) % 256

Input(s) ==
    /\ ~overrun
    /\ state = s
    /\ wire # <<>>
    /\ wire' = Tail(wire)
    /\ UNCHANGED itemVars

StartsHexMessage ==
    /\ state' = "IN_HEX_PROTOCOL_MESSAGE"
    /\ hexMessage' = HexReset
    /\ UNCHANGED <<textVars, blockVars>>

idleInput_KeepsBlock(c) ==
    /\ Input("IDLE")
    /\ \/ c = Colon /\ StartsHexMessage
       \/ /\ c \in {LineFeed, CarriageReturn}
          /\ state' = IF c = LineFeed THEN "START_TEXT_MESSAGE" ELSE "IDLE"
          /\ addToTextCheckSum(c)
          /\ UNCHANGED <<label, value, textBlock, overrun, hexMessage, blockVars>>
       \/ /\ c \notin {Colon, LineFeed, CarriageReturn}
          /\ state' = "IN_RUNT_MESSAGE"
          /\ counted' = TRUE
          /\ UNCHANGED <<textVars, hexMessage, applied, lossy, gap>>

idleInput_IgnoresReturn(c) ==
    /\ Input("IDLE")
    /\ \/ c = Colon /\ StartsHexMessage
       \/ /\ c = LineFeed
          /\ state' = "START_TEXT_MESSAGE"
          /\ textBlock' = <<>>
          /\ addToTextCheckSum(c)
          /\ UNCHANGED <<label, value, overrun, hexMessage, blockVars>>
       \/ /\ c = CarriageReturn
          /\ UNCHANGED <<state, textVars, hexMessage, blockVars>>
       \/ /\ c \notin {Colon, LineFeed, CarriageReturn}
          /\ state' = "IN_RUNT_MESSAGE"
          /\ counted' = TRUE
          /\ UNCHANGED <<textVars, hexMessage, applied, lossy, gap>>

idleInput(c) ==
    /\ Input("IDLE")
    /\ \/ c = Colon /\ StartsHexMessage
       \/ /\ c = LineFeed
          /\ state' = "START_TEXT_MESSAGE"
          /\ textBlock' = <<>>
          /\ addToTextCheckSum(c)
          /\ UNCHANGED <<label, value, overrun, hexMessage, blockVars>>
       \/ /\ c = CarriageReturn
          /\ addToTextCheckSum(c)
          /\ UNCHANGED <<state, label, value, textBlock, overrun, hexMessage, blockVars>>
       \/ /\ c \notin {Colon, LineFeed, CarriageReturn}
          /\ state' = "IN_RUNT_MESSAGE"
          /\ counted' = TRUE
          /\ UNCHANGED <<textVars, hexMessage, applied, lossy, gap>>

(* The newline that ends a runt starts a block; the return before it is    *)
(* not in the sum.                                                         *)
runtMessageInput(c) ==
    /\ Input("IN_RUNT_MESSAGE")
    /\ \/ c = Colon /\ StartsHexMessage
       \/ /\ c = LineFeed
          /\ state' = "START_TEXT_MESSAGE"
          /\ textBlock' = <<>>
          /\ textChecksum' = LineFeed
          /\ UNCHANGED <<label, value, overrun, hexMessage, blockVars>>
       \/ /\ c \notin {Colon, LineFeed}
          /\ UNCHANGED <<state, textVars, hexMessage, blockVars>>

startTextMessageInput(c) ==
    /\ Input("START_TEXT_MESSAGE")
    /\ \/ c = Colon /\ StartsHexMessage
       \/ /\ c # Colon
          /\ label' = <<c>>
          /\ value' = <<>>
          /\ addToTextCheckSum(c)
          /\ state' = "IN_TEXT_FIELD_LABEL"
          /\ UNCHANGED <<textBlock, overrun, hexMessage, blockVars>>

(* A string that is full drops what is pushed on it.                       *)
Push(string, c, max) == IF Len(string) < max THEN Append(string, c) ELSE string

inTextFieldLabelInput(c) ==
    /\ Input("IN_TEXT_FIELD_LABEL")
    /\ addToTextCheckSum(c)
    /\ IF c # Tab
       THEN label' = Push(label, c, MaxLabelLength) /\ UNCHANGED state
       ELSE /\ state' = IF label = ChecksumLabel THEN "IN_TEXT_CHECKSUM"
                                                 ELSE "IN_TEXT_FIELD_VALUE"
            /\ UNCHANGED label
    /\ UNCHANGED <<value, textBlock, overrun, hexMessage, blockVars>>

(* A field too many is written behind the end of textBlock, and nothing    *)
(* can be said of what follows: the machine stops here.                    *)
inTextFieldValueInput(c) ==
    /\ Input("IN_TEXT_FIELD_VALUE")
    /\ addToTextCheckSum(c)
    /\ \/ /\ c = LineFeed
          /\ state' = "START_TEXT_MESSAGE"
          /\ IF Len(textBlock) < MaxFields
             THEN textBlock' = Append(textBlock, <<label, value>>) /\ UNCHANGED overrun
             ELSE overrun' = TRUE /\ UNCHANGED textBlock
          /\ UNCHANGED value
       \/ /\ c # LineFeed
          /\ value' = IF c = CarriageReturn THEN value ELSE Push(value, c, MaxValueLength)
          /\ UNCHANGED <<state, textBlock, overrun>>
    /\ UNCHANGED <<label, hexMessage, blockVars>>

GoodBlock ==
    /\ applied' = Text(textBlock)
    /\ counted' = FALSE
    /\ lossy' = (lossy /\ wire' # <<>>)
    /\ gap' = FALSE

BadBlock_Uncounted == UNCHANGED blockVars

BadBlock == counted' = TRUE /\ UNCHANGED <<applied, lossy, gap>>

textChecksumInput_KeepsSum(c) ==
    /\ Input("IN_TEXT_CHECKSUM")
    /\ addToTextCheckSum(c)
    /\ IF (textChecksum + c) % 256 = 0 THEN GoodBlock ELSE BadBlock
    /\ state' = "IDLE"
    /\ UNCHANGED <<label, value, textBlock, overrun, hexMessage>>

(* processTextBlock hands on the fields if the sum is right.               *)
textChecksumInput(c) ==
    /\ Input("IN_TEXT_CHECKSUM")
    /\ IF (textChecksum + c) % 256 = 0 THEN GoodBlock ELSE BadBlock
    /\ textChecksum' = 0
    /\ state' = "IDLE"
    /\ UNCHANGED <<label, value, textBlock, overrun, hexMessage>>

(* The newline completes the message.                                      *)
hexMessageCompleted ==
    /\ Input("IN_HEX_PROTOCOL_MESSAGE")
    /\ Head(wire) = LineFeed
    /\ applied' = IF HexValid(hexMessage) THEN Hex(hexMessage.message) ELSE applied
    /\ counted' = (counted \/ HexCounted(hexMessage))
    /\ textChecksum' = 0
    /\ state' = "IDLE"
    /\ UNCHANGED <<label, value, textBlock, overrun, hexMessage, lossy, gap>>

inputCharacter(c) ==
    /\ Input("IN_HEX_PROTOCOL_MESSAGE")
    /\ c # LineFeed
    /\ hexMessage' = HexInput(hexMessage, c)
    /\ UNCHANGED <<state, textVars, blockVars>>

processCharInput ==
    LET c == Head(wire) IN
    \/ idleInput(c)
    \/ runtMessageInput(c)
    \/ startTextMessageInput(c)
    \/ inTextFieldLabelInput(c)
    \/ inTextFieldValueInput(c)
    \/ textChecksumInput(c)
    \/ inputCharacter(c)
    \/ hexMessageCompleted

Next == SendsBlock \/ SendsHexMessage \/ processCharInput

Spec == Init /\ [][Next]_vars

-----------------------------------------------------------------------------
(* What a device says: labels and values that fit, without the bytes that  *)
(* set fields and messages apart, and hex messages that fit and add up.    *)
NoneOf(bytes, string) == \A i \in DOMAIN string : string[i] \notin bytes

WellFormedField(field) ==
    /\ field[1] # ChecksumLabel
    /\ Len(field[1]) \in 1 .. MaxLabelLength
    /\ NoneOf({CarriageReturn, LineFeed, Tab, Colon}, field[1])
    /\ Len(field[2]) <= MaxValueLength
    /\ NoneOf({CarriageReturn, LineFeed, Colon}, field[2])

WellFormedMessage(m) == Len(m) \in 2 .. MaxHexMessage /\ m[1] < 16 /\ SumOf(m) = 85

WellFormed ==
    /\ Len(ChecksumLabel) < MaxLabelLength
    /\ \A b \in Blocks : \A k \in DOMAIN b : WellFormedField(b[k])
    /\ \A m \in HexMessages : WellFormedMessage(m)

Done == wire = <<>> /\ ~overrun

(* Whatever state noise or a start in mid-stream left the machine in, one  *)
(* whole block brings it back to where the next one starts, with nothing   *)
(* in the sum.                                                             *)
OneBlockResyncs ==
    Done /\ item.whole /\ IsText(item.content) => state = "IDLE" /\ textChecksum = 0

(* Once in step, every whole block and every whole hex message is taken.   *)
WholeIsApplied == Done /\ item.whole /\ inStep => applied = item.content

(* No block and no message is made out of the pieces of others.  (A sum of *)
(* 8 bits lets one wrong block in 256 through; none of these.)             *)
AppliedWasSent ==
    applied # Nothing =>
        applied \in {Text(b) : b \in Blocks} \cup {Hex(m) : m \in HexMessages}

(* Between text blocks alone none gets lost in silence: before one gets    *)
(* through after others did not, a published error counter has gone up.    *)
(* Hex messages in between can hide the loss: a block whose Checksum label *)
(* is damaged goes on in the next one's, and the end of a hex message      *)
(* discards it.                                                            *)
NoSilentGap ==
    [][gap /\ ~gap' => counted]_vars

(* textBlock is large enough for what the device sends.                    *)
OverrunNeedsLoss == overrun => lossy
=============================================================================
