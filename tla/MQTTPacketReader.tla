-------------------------- MODULE MQTTPacketReader --------------------------
(***************************************************************************)
(* MQTTPacketReader: cuts the bytes of one TCP connection into MQTT        *)
(* packets.  A packet is a type byte, one to four length bytes and a       *)
(* payload; the bytes come in pieces of any size, and the reader keeps     *)
(* what it has in its buffer from one service of the connection to the     *)
(* next.                                                                   *)
(*                                                                         *)
(* One action is one turn of the loop in readInput (in READING_LENGTH, of  *)
(* the loop in readLength).  More bytes may arrive between any two: the    *)
(* code asks available() once and then works with the answer.              *)
(*                                                                         *)
(* Abstractions.  A length byte carries a digit below LengthBase and a     *)
(* continuation bit worth LengthBase; the protocol has LengthBase = 128.   *)
(* The peer sends members of Packets, at most MaxPackets of them.          *)
(***************************************************************************)
EXTENDS Integers, Sequences, FiniteSets

CONSTANTS
    LengthBase,     \* 128: the digits of a remaining length
    MaxPacketSize,  \* maxPacketSize: bytes in the buffer
    Packets,        \* what a peer may send, as sequences of bytes
    MaxPackets      \* bound: packets the peer sends

Byte == 0 .. 2 * LengthBase - 1

MinHeaderSize == 2
MaxHeaderSize == 5

ASSUME ReaderAssumption ==
    /\ LengthBase \in Nat /\ LengthBase >= 2
    /\ MaxPacketSize \in Nat /\ MaxPacketSize >= MaxHeaderSize
    /\ MaxPackets \in Nat
    /\ Packets \subseteq Seq(Byte)

VARIABLES
    sent,               \* packets the peer has sent
    starts,             \* where each of them starts in the stream
    stream,             \* their bytes, one after the other
    arrived,            \* bytes of the stream that have reached the TCP client
    readPos,            \* bytes of the stream the reader has taken from it
    closed,             \* the reader closed the TCP client
    availableToRead,    \* of readInput; 0 outside it
    state,
    buffer,             \* buffer[0 .. bytesInBuffer - 1]
    fixedHeaderLength,
    remainingLength,
    totalLength,
    delivered           \* packets readInput has returned

peerVars == <<sent, starts, stream, arrived>>
lengthVars == <<fixedHeaderLength, remainingLength, totalLength>>
vars == <<sent, starts, stream, arrived, readPos, closed, availableToRead, state, buffer,
          fixedHeaderLength, remainingLength, totalLength, delivered>>

Init ==
    /\ sent = <<>>
    /\ starts = <<>>
    /\ stream = <<>>
    /\ arrived = 0
    /\ readPos = 0
    /\ closed = FALSE
    /\ availableToRead = 0
    /\ state = "READING_HEADER_START"
    /\ buffer = <<>>
    /\ fixedHeaderLength = 0
    /\ remainingLength = 0
    /\ totalLength = 0
    /\ delivered = <<>>

-----------------------------------------------------------------------------
(***************************************************************************)
(* The network.                                                            *)
(***************************************************************************)
PeerSends(p) ==
    /\ Len(sent) < MaxPackets
    /\ sent' = Append(sent, p)
    /\ starts' = Append(starts, Len(stream))
    /\ stream' = stream \o p
    /\ UNCHANGED <<arrived, readPos, closed, availableToRead, state, buffer, lengthVars,
                   delivered>>

Arrives(n) ==
    /\ arrived' = arrived + n
    /\ UNCHANGED <<sent, starts, stream, readPos, closed, availableToRead, state, buffer,
                   lengthVars, delivered>>

-----------------------------------------------------------------------------
(***************************************************************************)
(* The length bytes.                                                       *)
(***************************************************************************)
Continues(b) == b >= LengthBase

remainingLengthComplete_Unbounded(buf) ==
    /\ Len(buf) >= MinHeaderSize
    /\ ~Continues(buf[Len(buf)])

(* remainingLengthComplete, on what is in the buffer.                      *)
remainingLengthComplete(buf) ==
    /\ Len(buf) >= MinHeaderSize
    /\ Len(buf) = MaxHeaderSize \/ ~Continues(buf[Len(buf)])

(* What the k-th length byte adds.  "byte & 0x7f * multiplier" masks the   *)
(* byte with 127 * 128^(k-1): all the digit of the first byte, only the    *)
(* continuation bit of the second, nothing of the others.                  *)
LengthPart(b, k) ==
    CASE k = 1 -> b % LengthBase
      [] k = 2 -> b - (b % LengthBase)
      [] OTHER -> 0

determineRemainingLength(buf) ==
    LET part(k) == IF k < Len(buf) THEN LengthPart(buf[k + 1], k) ELSE 0
    IN  part(1) + part(2) + part(3) + part(4)

-----------------------------------------------------------------------------
(***************************************************************************)
(* readInput and the steps of its loop.                                    *)
(***************************************************************************)
Unread == arrived - readPos

Smaller(m, n) == IF m <= n THEN m ELSE n

(* The bytes TCPClient::read returns when asked for n.                     *)
Incoming(n) == SubSeq(stream, readPos + 1, readPos + Smaller(n, Unread))

Consume(got) ==
    /\ readPos' = readPos + Len(got)
    /\ availableToRead' = availableToRead - Len(got)

(* readUpTo: how many bytes to ask for to have length bytes in the buffer. *)
amountToRead(length) == Smaller(availableToRead, length - Len(buffer))

InState(s) == availableToRead > 0 /\ state = s /\ UNCHANGED peerVars

ReadInput ==
    /\ availableToRead = 0
    /\ ~closed
    /\ Unread > 0
    /\ availableToRead' = Unread
    /\ UNCHANGED <<peerVars, readPos, closed, state, buffer, lengthVars, delivered>>

readHeaderStart ==
    /\ InState("READING_HEADER_START")
    /\ LET got == Incoming(amountToRead(1)) IN
          /\ buffer' = buffer \o got
          /\ Consume(got)
          /\ IF Len(buffer \o got) = 1
             THEN state' = "READING_LENGTH" /\ fixedHeaderLength' = 1
             ELSE UNCHANGED <<state, fixedHeaderLength>>
    /\ UNCHANGED <<closed, remainingLength, totalLength, delivered>>

TooBig(size) == size > MaxPacketSize

(* One length byte; the last one decides what to do with the packet.       *)
readLength ==
    /\ InState("READING_LENGTH")
    /\ LET got  == Incoming(1)
           buf  == buffer \o got
           size == Len(buf) + determineRemainingLength(buf)
       IN /\ buffer' = buf
          /\ Consume(got)
          /\ fixedHeaderLength' = Len(buf)
          /\ \/ /\ ~remainingLengthComplete(buf)
                /\ UNCHANGED <<state, closed, remainingLength, totalLength>>
             \/ /\ remainingLengthComplete(buf)
                /\ Continues(buf[Len(buf)])
                /\ remainingLength' = determineRemainingLength(buf)
                /\ state' = "IN_ERROR"
                /\ closed' = TRUE
                /\ UNCHANGED totalLength
             \/ /\ remainingLengthComplete(buf)
                /\ ~Continues(buf[Len(buf)])
                /\ remainingLength' = determineRemainingLength(buf)
                /\ totalLength' = size
                /\ state' = IF TooBig(size) THEN "SKIPPING_PAYLOAD"
                                           ELSE "READING_PAYLOAD"
                /\ UNCHANGED closed
    /\ UNCHANGED delivered

reset_KeepsBuffer ==
    /\ state' = "READING_HEADER_START"
    /\ UNCHANGED buffer
    /\ fixedHeaderLength' = 0
    /\ remainingLength' = 0
    /\ totalLength' = 0

reset ==
    /\ state' = "READING_HEADER_START"
    /\ buffer' = <<>>
    /\ fixedHeaderLength' = 0
    /\ remainingLength' = 0
    /\ totalLength' = 0

(* readInput returns after one look at the payload, whatever it got.       *)
readPayload ==
    /\ InState("READING_PAYLOAD")
    /\ availableToRead' = 0
    /\ LET got == Incoming(amountToRead(totalLength))
           buf == buffer \o got
       IN /\ readPos' = readPos + Len(got)
          /\ \/ /\ Len(buf) = totalLength
                /\ delivered' = Append(delivered, buf)
                /\ reset
             \/ /\ Len(buf) # totalLength
                /\ buffer' = buf
                /\ UNCHANGED <<state, lengthVars, delivered>>
    /\ UNCHANGED closed

(* availableToRead does not go down: the loop goes on with it.             *)
skippingPayload ==
    /\ InState("SKIPPING_PAYLOAD")
    /\ LET skipped == Smaller(Smaller(availableToRead, remainingLength), Unread) IN
          /\ readPos' = readPos + skipped
          /\ \/ /\ remainingLength = skipped
                /\ reset
             \/ /\ remainingLength # skipped
                /\ remainingLength' = remainingLength - skipped
                /\ UNCHANGED <<state, buffer, fixedHeaderLength, totalLength>>
    /\ UNCHANGED <<closed, availableToRead, delivered>>

inError ==
    /\ InState("IN_ERROR")
    /\ availableToRead' = 0
    /\ UNCHANGED <<readPos, closed, state, buffer, lengthVars, delivered>>

Reader ==
    \/ ReadInput
    \/ readHeaderStart
    \/ readLength
    \/ readPayload
    \/ skippingPayload
    \/ inError

Next ==
    \/ \E p \in Packets : PeerSends(p)
    \/ \E n \in 1 .. Len(stream) - arrived : Arrives(n)
    \/ Reader

Spec == Init /\ [][Next]_vars

(* MQTTConnection::service calls readInput in every pass of the loop.      *)
FairSpec == Spec /\ WF_vars(Reader)

-----------------------------------------------------------------------------
(* The header of p, type and length, is its first h bytes.                 *)
HeaderIs(p, h) ==
    /\ h \in MinHeaderSize .. MaxHeaderSize
    /\ h <= Len(p)
    /\ \A j \in MinHeaderSize .. h - 1 : Continues(p[j])
    /\ h = MaxHeaderSize \/ ~Continues(p[h])

(* The packets that the code gets right: those whose length bytes do not   *)
(* end, which are refused, and those with as many bytes as                 *)
(* determineRemainingLength says.                                          *)
Understood(p) ==
    \E h \in MinHeaderSize .. MaxHeaderSize :
        /\ HeaderIs(p, h)
        /\ \/ Continues(p[h])
           \/ Len(p) = h + determineRemainingLength(SubSeq(p, 1, h))

Readable == \A p \in Packets : Understood(p)

(* A packet the reader says it can buffer: MQTTPacketReader.cpp:76.        *)
Fits(p) == Len(p) <= MaxPacketSize

(* How many of the first i packets of ps that is.                          *)
Fitting(ps, i) == Cardinality({j \in 1 .. i : Fits(ps[j])})

(* The packets handed to the connection are the packets the peer sent,     *)
(* byte for byte and in order, however the stream was cut; the ones that   *)
(* do not fit are left out.                                                *)
DeliveredInOrder ==
    /\ Len(delivered) <= Fitting(sent, Len(sent))
    /\ \A i \in 1 .. Len(sent) :
          LET n == Fitting(sent, i)
          IN  Fits(sent[i]) /\ n <= Len(delivered) => delivered[n] = sent[i]

(* A packet that has arrived is handed on.  One without payload, such as   *)
(* PINGREQ or DISCONNECT, has to wait for a byte of the next: the loop of  *)
(* readInput ends before readPayload is called.                            *)
ArrivedIsDelivered ==
    \A i \in 1 .. MaxPackets :
        /\ i <= Len(sent)
        /\ arrived >= starts[i] + Len(sent[i])
        /\ Len(sent[i]) > MinHeaderSize \/ arrived > starts[i] + Len(sent[i])
        ~> \/ i <= Len(sent) /\ Len(delivered) >= Fitting(sent, i)
           \/ state = "IN_ERROR"

(* MQTTPacketReader.cpp:77 "We skip packets that are bigger than we can    *)
(* buffer": they go, and what comes after them is read as packets again.   *)
BigPacketsAreSkipped == DeliveredInOrder
=============================================================================
