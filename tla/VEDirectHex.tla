----------------------------- MODULE VEDirectHex -----------------------------
(***************************************************************************)
(* The bytes of the VE.Direct HEX protocol: VEDirectHexCommandMessage      *)
(* builds a command, VEDirectHexMessage parses an answer with a cursor.    *)
(* How the line is taken apart into messages is VEDirectText.              *)
(*                                                                         *)
(* A message is its bytes: the command or response, a nibble on the line,  *)
(* first, the checksum last.                                               *)
(***************************************************************************)
EXTENDS DeviceValues, SequencesExt

ChecksumOfMessage == \h55
PingCommand == 1
GetCommand == 7
SetCommand == 8
GetResponse == 7
SetResponse == 8
AsyncResponse == 10

SumOfBytes(bytes) ==
    LET sum[i \in 0 .. Len(bytes)] == IF i = 0 THEN 0 ELSE (sum[i - 1] + bytes[i]) % 256
    IN  sum[Len(bytes)]

(* What setCommand sets out with and every append takes its byte from.     *)
Checksum(bytes) == (ChecksumOfMessage - SumOfBytes(bytes)) % 256

-----------------------------------------------------------------------------
(***************************************************************************)
(* Commands.                                                               *)
(***************************************************************************)
SetOut(command) == <<command>>

appendUInt16(message, value) == message \o <<value % 256, value \div 256>>

(* Mutant: the third byte is forgotten.                                    *)
appendUInt32_DropsByte(message, value) ==
    message \o <<value % 256, (value \div 256) % 256, 0, value \div 16777216>>

appendUInt32(message, value) ==
    message \o <<value % 256, (value \div 256) % 256, (value \div 65536) % 256,
                 value \div 16777216>>

appendFlags(message, flags) == Append(message, flags)

appendChecksum(message) == Append(message, Checksum(message))

resendPing == appendChecksum(SetOut(PingCommand))

sendGet(registerID) ==
    appendChecksum(appendFlags(appendUInt16(SetOut(GetCommand), registerID), 0))

SetPrefix(registerID) == appendFlags(appendUInt16(SetOut(SetCommand), registerID), 0)

sendSet16(registerID, value) ==
    appendChecksum(appendUInt16(SetPrefix(registerID), Wrap("uint16", value)))

sendSet32(registerID, value) ==
    appendChecksum(appendUInt32(SetPrefix(registerID), Wrap("uint32", value)))

-----------------------------------------------------------------------------
(***************************************************************************)
(* The cursor: readPos, the number of bytes read, whether one was missing, *)
(* and the numbers that were read.  A failed read yields 0 and stays where *)
(* it is; the next, if it is shorter, may succeed.                         *)
(***************************************************************************)
Start == [readPos |-> 1, parseError |-> FALSE, values |-> <<>>]

(* Mutant: the checksum counts as one of the bytes that remain.            *)
remainingBytes_WithChecksum(message, c) == Len(message) - c.readPos

remainingBytes(message, c) == Len(message) - c.readPos - 1

(* The number in so many bytes, the lowest first.                          *)
LittleEndian(bytes) ==
    LET size == Len(bytes)
        n[i \in 0 .. size] ==
            IF i = 0 THEN 0 ELSE (n[i - 1] * 256 + bytes[size + 1 - i]) % Word
    IN  n[size]

(* parseUInt8, 16, 24 and 32: one and the same but for the size.           *)
parseUInt(message, c, size) ==
    IF remainingBytes(message, c) < size
    THEN [c EXCEPT !.parseError = TRUE, !.values = Append(@, 0)]
    ELSE [c EXCEPT !.readPos = @ + size,
                   !.values = Append(@, LittleEndian(
                                  SubSeq(message, c.readPos + 1, c.readPos + size)))]

(* parseInt16 and 32 read the same bytes and give them a sign.             *)
parseInt(message, c, type) ==
    LET u == parseUInt(message, c, IF type = "int16" THEN 2 ELSE 4) IN
    [u EXCEPT !.values[Len(u.values)] = Wrap(type, @)]

(* parseString: message[readPos]++ counts the byte up and leaves readPos   *)
(* where it is.  The first byte after the flags is read again and again.   *)
parseString(message, c) ==
    IF remainingBytes(message, c) < 1 THEN [c EXCEPT !.parseError = TRUE] ELSE c

expectedEnd(message, c) ==
    IF remainingBytes(message, c) # 0 THEN [c EXCEPT !.parseError = TRUE] ELSE c

(* A message read as numbers of these sizes, to its end.                   *)
ParseAll(message, c, sizes) ==
    LET d[i \in 0 .. Len(sizes)] ==
            IF i = 0 THEN c ELSE parseUInt(message, d[i - 1], sizes[i])
    IN  expectedEnd(message, d[Len(sizes)])
=============================================================================
