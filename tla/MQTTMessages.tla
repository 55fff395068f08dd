---------------------------- MODULE MQTTMessages ----------------------------
(***************************************************************************)
(* How the broker reads a packet: the parse() of the messages a client     *)
(* sends and the second walk over the topic filters, and how a remaining   *)
(* length is written.                                                      *)
(*                                                                         *)
(* A packet is its type, the flags of its fixed header, and the bytes that *)
(* follow it.  The packet reader has checked how many there are.           *)
(***************************************************************************)
EXTENDS Integers, Sequences, FiniteSets, SequencesExt

CONSTANTS
    maxTopicNameLength,
    MAX_MQTT_CLIENT_ID_LENGTH

ASSUME LengthAssumption ==
    /\ maxTopicNameLength \in Nat
    /\ MAX_MQTT_CLIENT_ID_LENGTH \in Nat \ {0}

UInt16At(body, pos) == 256 * body[pos] + body[pos + 1]

Bit(flags, mask) == (flags \div mask) % 2 = 1

-----------------------------------------------------------------------------
(***************************************************************************)
(* A cursor over the strings of a packet: the position of the next byte    *)
(* and the lengths of the strings behind it.  The bytes that remain are    *)
(* those from pos on.                                                      *)
(***************************************************************************)
Cursor(pos) == [pos |-> pos, ok |-> TRUE, lengths |-> <<>>]

Remaining(body, c) == Len(body) - c.pos + 1

Fail(c) == [c EXCEPT !.ok = FALSE]

(* grabString: the same step, for a packet that parses.                    *)
grabString(body, c) ==
    LET length == UInt16At(body, c.pos) IN
    [c EXCEPT !.pos = @ + 2 + length, !.lengths = Append(@, length)]

parseString(body, c) ==
    IF ~c.ok \/ Remaining(body, c) < 2 \/ 2 + UInt16At(body, c.pos) > Remaining(body, c)
    THEN Fail(c) ELSE grabString(body, c)

parseStrings(body, c, n) ==
    LET parsed[i \in 0 .. n] == IF i = 0 THEN c ELSE parseString(body, parsed[i - 1])
    IN  parsed[n]

-----------------------------------------------------------------------------
(***************************************************************************)
(* CONNECT.  The variable header has ten bytes.                            *)
(***************************************************************************)
ConnectFlags(p) == p.body[8]

cleanSession(p) == Bit(ConnectFlags(p), 2)
hasWill(p) == Bit(ConnectFlags(p), 4)
willQoS(p) == (ConnectFlags(p) \div 8) % 4
willRetain(p) == Bit(ConnectFlags(p), 32)
hasPassword(p) == Bit(ConnectFlags(p), 64)
hasUserName(p) == Bit(ConnectFlags(p), 128)

ConnectHeaderParses(p) ==
    /\ p.flags = 0
    /\ Len(p.body) >= 10
    /\ SubSeq(p.body, 1, 6) = <<0, 4, 77, 81, 84, 84>>
    /\ ~Bit(ConnectFlags(p), 1)
    /\ IF hasWill(p) THEN willQoS(p) <= 2 ELSE willQoS(p) = 0 /\ ~willRetain(p)

ConnectStrings(p) ==
    1 + (IF hasWill(p) THEN 2 ELSE 0) + (IF hasUserName(p) THEN 1 ELSE 0)
      + (IF hasPassword(p) THEN 1 ELSE 0)

(* MQTTConnectMessage::parse: the lengths of the strings, the client ID's  *)
(* first.                                                                  *)
ConnectParse(p) ==
    IF ~ConnectHeaderParses(p) THEN Fail(Cursor(11))
    ELSE LET c == parseStrings(p.body, Cursor(11), ConnectStrings(p)) IN
         IF Remaining(p.body, c) # 0 THEN Fail(c) ELSE c

Accepted == 0
RefusedProtocolVersion == 1
RefusedIdentifier == 2
RefusedUnavailable == 3
RefusedNameOrPassword == 4

(* sanityCheck, and what the connection refuses after it, of a message     *)
(* that parsed with a client ID of this length.                            *)
Refusal(p, idLength) ==
    CASE p.body[7] # 4 -> RefusedProtocolVersion
      [] p.body[7] = 4 /\ idLength = 0 /\ ~cleanSession(p) -> RefusedIdentifier
      [] OTHER -> IF hasWill(p) THEN RefusedUnavailable
                  ELSE IF hasUserName(p) \/ hasPassword(p) THEN RefusedNameOrPassword
                  ELSE IF idLength > MAX_MQTT_CLIENT_ID_LENGTH THEN RefusedIdentifier
                  ELSE Accepted

-----------------------------------------------------------------------------
(***************************************************************************)
(* SUBSCRIBE and UNSUBSCRIBE: a packet ID, then filters, in a SUBSCRIBE    *)
(* each with a QoS.                                                        *)
(***************************************************************************)
packetId(p) == UInt16At(p.body, 1)

FilterHeaderParses(p) ==
    p.flags = 2 /\ Len(p.body) >= 2 /\ packetId(p) # 0 /\ Len(p.body) > 2

QoSBytes(p) == IF p.type = "SUBSCRIBE" THEN 1 ELSE 0

(* The body of the loop.                                                   *)
parseTopicFilter(p, c) ==
    LET d == parseString(p.body, c) IN
    IF ~d.ok \/ Last(d.lengths) = 0 \/ Remaining(p.body, d) < QoSBytes(p) THEN Fail(d)
    ELSE IF p.type = "SUBSCRIBE" /\ p.body[d.pos] > 2 THEN Fail(d)
    ELSE [d EXCEPT !.pos = @ + QoSBytes(p)]

(* do ... while: as often as bytes remain, and at least once.              *)
FiltersParse(p) ==
    LET more(c) == IF ~c.ok \/ Remaining(p.body, c) = 0 THEN c ELSE parseTopicFilter(p, c)
        parsed[i \in 0 .. Len(p.body)] == IF i = 0 THEN Cursor(3) ELSE more(parsed[i - 1])
    IN  IF FilterHeaderParses(p) THEN parsed[Len(p.body)] ELSE Fail(Cursor(3))

(* getTopicFilter, called n times: the walk that checks nothing.           *)
(* Mutant: the QoS is not stepped over.                                    *)
getTopicFilters_SkipNoQoS(p, n) ==
    LET after[i \in 0 .. n] == IF i = 0 THEN Cursor(3) ELSE grabString(p.body, after[i - 1])
    IN  after[n]

getTopicFilters(p, n) ==
    LET after[i \in 0 .. n] ==
            IF i = 0 THEN Cursor(3)
            ELSE [grabString(p.body, after[i - 1]) EXCEPT !.pos = @ + QoSBytes(p)]
    IN  after[n]

(* copyTo: whether the filter fits.                                        *)
copyTo(length) == length <= maxTopicNameLength

(* PINGREQ and DISCONNECT.                                                 *)
BareParse(p) == p.flags = 0 /\ p.body = <<>>

-----------------------------------------------------------------------------
(* The longest remaining length of MQTT 3.1.1.                             *)
MaxRemainingLength == 128 * 128 * 128 * 128 - 1

(* mqttWriteRemainingLength: seven bits a byte, the lowest first.          *)
RemainingLengthBytes[n \in 0 .. MaxRemainingLength] ==
    IF n < 128 THEN <<n>> ELSE <<128 + (n % 128)>> \o RemainingLengthBytes[n \div 128]
=============================================================================
