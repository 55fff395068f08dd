----------------------------- MODULE MQTTAnswers -----------------------------
(***************************************************************************)
(* One TCP connection and its session, from the packets that arrive to the *)
(* bytes that leave: parsing, the handlers of MQTTConnection and           *)
(* MQTTSession, and the writes of each answer.  The pools and the pairing  *)
(* are MQTTBroker's, the subscriptions DataModel's: here a session is      *)
(* found or not, and a filter is taken or not.                             *)
(*                                                                         *)
(* A write puts on the stream what the TCP stack has room for and succeeds *)
(* when that was all.  Every message finds some room of Rooms: the stack   *)
(* sends between any two.                                                  *)
(*                                                                         *)
(* A handler that logs publishes: the end of a line that is not debug sets *)
(* leaves of the log (Logger), and a session that subscribed to them is    *)
(* told before the handler goes on, as long as it has its connection.      *)
(***************************************************************************)
EXTENDS MQTTMessages

CONSTANTS
    maxTopicsPerSubscribeMessage,
    Rooms,          \* bytes the stack takes of a message
    FirstPackets,   \* what a client sends first, and
    LaterPackets,   \* what it sends then: see Encoded
    Publications,   \* lengths of topic and value of what is published
    logDepth,       \* leaves of the log, which a line sets once each at most
    MaxMeanwhile,   \* bound: PUBLISHes of several lines and of retained values
    MaxSent         \* bound: messages on the stream

(* The remaining length of a SUBACK is a uint8_t.                          *)
ASSUME TopicsAssumption == maxTopicsPerSubscribeMessage \in 1 .. 253

(* The length of a topic is a uint16_t.                                    *)
ASSUME LengthsAssumption ==
    /\ Rooms \subseteq Nat
    /\ \A publication \in Publications :
        /\ publication.topic \in 0 .. 256 * 256 - 1
        /\ publication.value \in Nat
        /\ publication.topic + 2 + publication.value <= MaxRemainingLength

ASSUME LogAssumption == logDepth \in Nat /\ MaxMeanwhile \in Nat

VARIABLES
    session,   \* "none" before it is paired, "open"; "ended" and "waiting" without connection
    clean,     \* MQTTSession::cleanSession
    output,    \* the messages written and the counters of messages sent
    running,   \* "yes", "halted" in errorExit, or "undefined" behaviour
    last       \* ghost: the last packet, the session before it, whether one was found

vars == <<session, clean, output, running, last>>

NoPacket == [packet |-> <<>>, before |-> "none", paired |-> FALSE, filters |-> <<>>]

Init ==
    /\ session \in {"none", "open"}
    /\ clean \in BOOLEAN
    /\ output = [stream |-> <<>>, connection |-> 0, session |-> 0, publishSent |-> 0,
                 publishDropped |-> 0]
    /\ running = "yes"
    /\ last = NoPacket

-----------------------------------------------------------------------------
(***************************************************************************)
(* The client.  It means a CONNECT, filters, or nothing, and encodes that; *)
(* what arrives may be damaged.                                            *)
(***************************************************************************)
StringBytes(length) == <<length \div 256, length % 256>> \o [i \in 1 .. length |-> 65]

FilterBytes(meant, filter) ==
    StringBytes(filter.length) \o IF meant.type = "SUBSCRIBE" THEN <<filter.QoS>> ELSE <<>>

(* Of the strings of a CONNECT: the client ID, a will's topic and message, *)
(* a user name, a password.                                                *)
StringLengths(meant) ==
    <<meant.idLength>> \o [i \in 1 .. (IF meant.will THEN 2 ELSE 0)
                                     + (IF meant.userName THEN 1 ELSE 0)
                                     + (IF meant.password THEN 1 ELSE 0) |-> 1]

Flag(b, mask) == IF b THEN mask ELSE 0

BodyOf(meant) ==
    CASE meant.type = "CONNECT" ->
            <<0, 4, 77, 81, 84, 84, meant.level,
              Flag(meant.reserved, 1) + Flag(meant.clean, 2) + Flag(meant.will, 4)
              + 8 * meant.willQoS + Flag(meant.willRetain, 32) + Flag(meant.password, 64)
              + Flag(meant.userName, 128), 0, 60>>
            \o FlattenSeq([i \in DOMAIN StringLengths(meant) |->
                                StringBytes(StringLengths(meant)[i])])
      [] meant.type \in {"SUBSCRIBE", "UNSUBSCRIBE"} ->
            <<0, meant.id>> \o FlattenSeq([i \in DOMAIN meant.filters |->
                                              FilterBytes(meant, meant.filters[i])])
      [] OTHER -> <<>>

(* Where the low byte of the first string's length is.                     *)
LengthPlace(meant) == IF meant.type = "CONNECT" THEN 12 ELSE 4

Damaged(meant, body) ==
    CASE meant.damage = "none" -> body
      [] meant.damage = "short" -> Front(body)
      [] meant.damage = "long" -> Append(body, 65)
      [] meant.damage = "runt" -> SubSeq(body, 1, 1)
      [] meant.damage = "name" -> [body EXCEPT ![6] = 73]
      [] meant.damage = "length" -> [body EXCEPT ![LengthPlace(meant)] = @ + 1]

Encoded(meant) ==
    [type |-> meant.type, flags |-> meant.flags, body |-> Damaged(meant, BodyOf(meant))]

-----------------------------------------------------------------------------
(***************************************************************************)
(* Writing.                                                                *)
(***************************************************************************)
Write(w, length) ==
    LET n == IF length < w.room THEN length ELSE w.room IN
    IF ~w.ok THEN w ELSE [room |-> w.room - n, bytes |-> w.bytes + n, ok |-> n = length]

(* What the client takes for the length of the message: of a remaining     *)
(* length it reads four bytes at most.                                     *)
ReadLength(lengthBytes) ==
    LET bits(i) == IF i <= Len(lengthBytes) THEN lengthBytes[i] % 128 ELSE 0 IN
    1 + Len(lengthBytes) + bits(1) + 128 * (bits(2) + 128 * (bits(3) + 128 * bits(4)))

(* A message: the remaining length the code computes, and its writes after *)
(* the fixed header.                                                       *)
Message(kind, answer, remainingLength, writes) ==
    [kind |-> kind, answer |-> answer, lengthBytes |-> RemainingLengthBytes[remainingLength],
     writes |-> writes]

ConnectAck(code) == Message("CONNACK", code, 2, <<2>>)

SubscribeAck(results) == Message("SUBACK", results, 2 + Len(results), <<2, Len(results)>>)

UnsubscribeAck == Message("UNSUBACK", 0, 2, <<2>>)

PingResponse == Message("PINGRESP", 0, 0, <<>>)

PublishMessage(publication) ==
    Message("PUBLISH", 0, publication.topic + 2 + publication.value,
            <<2, publication.topic, publication.value>>)

(* Each byte of the length is a write, each write the end if it fails.     *)
Writes(message) == <<1>> \o [i \in DOMAIN message.lengthBytes |-> 1] \o message.writes

Written(message, room) ==
    LET after[i \in 0 .. Len(Writes(message))] ==
            IF i = 0 THEN [room |-> room, bytes |-> 0, ok |-> TRUE]
            ELSE Write(after[i - 1], Writes(message)[i])
    IN  after[Len(Writes(message))]

OnStream(message, room) ==
    [kind |-> message.kind, answer |-> message.answer,
     expected |-> ReadLength(message.lengthBytes), written |-> Written(message, room).bytes]

IsSent(message, room) == Written(message, room).ok

(* sender counts the message when it was written whole.                    *)
(* Mutant: it is counted before the result is known.                       *)
Send_CountsEvery(o, sender, message, room) ==
    [o EXCEPT !.stream = Append(@, OnStream(message, room)), ![sender] = @ + 1]

Send(o, sender, message, room) ==
    [o EXCEPT !.stream = Append(@, OnStream(message, room)),
              ![sender] = IF IsSent(message, room) THEN @ + 1 ELSE @]

sendPublishMessage(o, publication, room) ==
    LET sent == IsSent(PublishMessage(publication), room) IN
    [Send(o, "session", PublishMessage(publication), room) EXCEPT
        !.publishSent = IF sent THEN @ + 1 ELSE @,
        !.publishDropped = IF sent THEN @ ELSE @ + 1]

-----------------------------------------------------------------------------
(***************************************************************************)
(* MQTTSession.                                                            *)
(***************************************************************************)
(* What is published to the session while a handler works: nothing, if it  *)
(* is not subscribed, or up to n values, each in room of its own.          *)
Published(o, n) ==
    LET upTo[i \in 0 .. n] ==
            IF i = 0 THEN {o}
            ELSE upTo[i - 1] \cup {sendPublishMessage(before, publication, room) :
                                      before \in upTo[i - 1], publication \in Publications,
                                      room \in Rooms}
    IN  upTo[n]

LogLine(o) == Published(o, logDepth)

(* Several lines, and the retained values of what is subscribed to.        *)
Meanwhile(o) == Published(o, MaxMeanwhile)

(* handleConnectionSendFailure.                                            *)
Left == IF clean' THEN "ended" ELSE "waiting"

(* An answer behind o.  One that fails is logged, and only then the        *)
(* session gives up its connection.                                        *)
(* Mutant: the session goes on.                                            *)
Answer_GoesOn(o, message, room) ==
    LET answered == Send(o, "session", message, room) IN
    /\ output' \in IF IsSent(message, room) THEN {answered} ELSE LogLine(answered)
    /\ session' = "open"
    /\ UNCHANGED running

Answer(o, message, room) ==
    LET answered == Send(o, "session", message, room) IN
    /\ output' \in IF IsSent(message, room) THEN {answered} ELSE LogLine(answered)
    /\ session' = IF IsSent(message, room) THEN "open" ELSE Left
    /\ UNCHANGED running

(* The handler logs why, and shutdown logs that, before the connection is  *)
(* given up.                                                               *)
shutdown ==
    /\ session' = "ended"
    /\ output' \in Meanwhile(output)
    /\ UNCHANGED running

(* A CONNECT on a session: its flag counts, whatever else it says.  o is   *)
(* the output so far.                                                      *)
connectMessageReceived(o, p, room) ==
    IF ConnectParse(p).ok
    THEN clean' = cleanSession(p) /\ Answer(o, ConnectAck(Accepted), room)
    ELSE /\ running' = "halted"
         /\ output' \in Meanwhile(o)
         /\ UNCHANGED <<session, clean>>

SubscribeResults(n, filters, refused) ==
    [i \in 1 .. n |-> IF copyTo(filters[i]) /\ i \notin refused THEN 0 ELSE 128]

(* With too many filters the session is shut down, and the handler goes on *)
(* with it: what it is by then is not defined.                             *)
subscribeMessageReceived(p, room) ==
    LET c == FiltersParse(p)
        n == Len(c.lengths)
    IN  /\ UNCHANGED clean
        /\ IF ~c.ok THEN shutdown
           ELSE IF n > maxTopicsPerSubscribeMessage
           THEN /\ running' = "undefined"
                /\ session' = "ended"
                /\ output' \in Meanwhile(output)
           ELSE \E o \in Meanwhile(output), refused \in SUBSET (1 .. n) :
                    Answer(o, SubscribeAck(SubscribeResults(n, getTopicFilters(p, n).lengths,
                                                            refused)), room)

unsubscribeMessageReceived(p, room) ==
    /\ UNCHANGED clean
    /\ IF ~FiltersParse(p).ok THEN shutdown
       ELSE \E o \in Meanwhile(output) : Answer(o, UnsubscribeAck, room)

pingRequestMessageReceived(p, room) ==
    /\ UNCHANGED clean
    /\ IF BareParse(p) THEN Answer(output, PingResponse, room) ELSE shutdown

(* DISCONNECT, well formed or not, what only a server sends, and the two   *)
(* reserved types.                                                         *)
Ending == {"DISCONNECT", "CONNACK", "SUBACK", "UNSUBACK", "PINGRESP", "RESERVED"}

(* PUBLISH and its acknowledgements are not implemented.                   *)
Ignored == {"PUBLISH", "PUBREC"}

(* What arrives is a packet of some type, and bytes.                       *)
ASSUME PacketAssumption ==
    \A meant \in FirstPackets \cup LaterPackets :
        Encoded(meant) \in
            [type : {"CONNECT", "SUBSCRIBE", "UNSUBSCRIBE", "PINGREQ"} \cup Ending \cup Ignored,
             flags : 0 .. 15,
             body : Seq(0 .. 255)]

UInt16 == 0 .. 256 * 256 - 1

(* What a client can mean, and what can become of it.                      *)
ASSUME MeantAssumption ==
    \A meant \in FirstPackets \cup LaterPackets :
        CASE meant.type = "CONNECT" ->
                /\ meant.damage \in {"none", "short", "long", "runt", "name", "length"}
                /\ {meant.reserved, meant.clean, meant.will, meant.willRetain, meant.password,
                    meant.userName} \subseteq BOOLEAN
                /\ meant.level \in 0 .. 255 /\ meant.willQoS \in 0 .. 3
                /\ meant.idLength \in UInt16
          [] meant.type \in {"SUBSCRIBE", "UNSUBSCRIBE"} ->
                /\ meant.damage \in {"none", "short", "long", "runt", "length"}
                /\ meant.id \in 0 .. 255
                /\ meant.filters \in Seq([length : UInt16, QoS : 0 .. 255])
          [] meant.type \in Ignored -> meant.damage = "none"
          [] OTHER -> meant.damage \in {"none", "long"}

(* A filter that was cut elsewhere can make a packet as good as the one    *)
(* that was meant, and nobody could tell: that is not what damage is here. *)
ASSUME DamageAssumption ==
    \A meant \in FirstPackets \cup LaterPackets :
        meant.damage = "length" =>
            ~(IF meant.type = "CONNECT" THEN ConnectParse(Encoded(meant)).ok
              ELSE FiltersParse(Encoded(meant)).ok)

SessionMessage(p, room) ==
    CASE p.type = "CONNECT" -> connectMessageReceived(output, p, room)
      [] p.type = "SUBSCRIBE" -> subscribeMessageReceived(p, room)
      [] p.type = "UNSUBSCRIBE" -> unsubscribeMessageReceived(p, room)
      [] p.type = "PINGREQ" -> pingRequestMessageReceived(p, room)
      [] p.type \in Ending -> shutdown /\ UNCHANGED clean
      [] p.type \in Ignored -> /\ output' \in LogLine(output)
                               /\ UNCHANGED <<session, clean, running>>

-----------------------------------------------------------------------------
(***************************************************************************)
(* MQTTConnection.  A client that is refused keeps its connection; so does *)
(* one whose CONNECT does not parse, since nobody looks at what            *)
(* processMessage returns.  What they log is not told to them: they have   *)
(* no session.  One that was found has its connection already when the     *)
(* pairing is logged, and may have been subscribed to the log before.      *)
(***************************************************************************)
Refuse(code, room) ==
    /\ output' = Send(output, "connection", ConnectAck(code), room)
    /\ UNCHANGED <<session, clean, running>>

processConnectMessage(p, room, paired) ==
    LET c == ConnectParse(p) IN
    IF ~c.ok THEN UNCHANGED <<session, clean, output, running>>
    ELSE IF Refusal(p, c.lengths[1]) # Accepted THEN Refuse(Refusal(p, c.lengths[1]), room)
    ELSE IF paired THEN \E o \in LogLine(output) : connectMessageReceived(o, p, room)
    ELSE Refuse(RefusedUnavailable, room)

processMessage(p, room, paired) ==
    IF session = "open" THEN SessionMessage(p, room)
    ELSE IF p.type = "CONNECT" THEN processConnectMessage(p, room, paired)
    ELSE UNCHANGED <<session, clean, output, running>>

HasRoom == running = "yes" /\ Len(output.stream) < MaxSent

(* MQTTConnection::service finds a packet.                                 *)
service ==
    /\ HasRoom
    /\ session \in {"none", "open"}
    /\ \E meant \in IF last = NoPacket /\ output.stream = <<>> THEN FirstPackets ELSE LaterPackets :
       \E room \in Rooms,
          paired \in IF session = "none" THEN BOOLEAN ELSE {TRUE} :
        LET p == Encoded(meant) IN
        /\ processMessage(p, room, paired)
        /\ last' = [packet |-> meant, before |-> session, paired |-> paired,
                    filters |-> IF p.type \in {"SUBSCRIBE", "UNSUBSCRIBE"} /\ FiltersParse(p).ok
                                THEN getTopicFilters(p, Len(FiltersParse(p).lengths)).lengths
                                ELSE <<>>]

(* MQTTSession::publish: a leaf is updated.                                *)
publish ==
    /\ HasRoom
    /\ session = "open"
    /\ \E publication \in Publications, room \in Rooms :
        output' = sendPublishMessage(output, publication, room)
    /\ UNCHANGED <<session, clean, running, last>>

Next == service \/ publish

Spec == Init /\ [][Next]_vars

-----------------------------------------------------------------------------
(* The packets MQTT 3.1.1 allows, told from what the client means, but for *)
(* DISCONNECT: those a session lives on after.                             *)
IsLegal(meant) ==
    /\ meant.damage = "none"
    /\ CASE meant.type = "CONNECT" ->
              /\ meant.flags = 0 /\ ~meant.reserved
              /\ meant.willQoS \in IF meant.will THEN 0 .. 2 ELSE {0}
              /\ meant.willRetain => meant.will
         [] meant.type \in {"SUBSCRIBE", "UNSUBSCRIBE"} ->
              /\ meant.flags = 2 /\ meant.id # 0 /\ meant.filters # <<>>
              /\ \A filter \in Range(meant.filters) :
                    filter.length > 0 /\ (meant.type = "SUBSCRIBE" => filter.QoS <= 2)
         [] meant.type = "PINGREQ" -> meant.flags = 0
         [] OTHER -> meant.type \in Ignored

(* The CONNECTs this broker takes: of version 4, without a will, a user    *)
(* name or a password, and named unless the session is clean.              *)
IsWelcome(meant) ==
    /\ meant.type = "CONNECT" /\ IsLegal(meant) /\ meant.level = 4
    /\ ~meant.will /\ ~meant.userName /\ ~meant.password
    /\ meant.idLength <= MAX_MQTT_CLIENT_ID_LENGTH
    /\ meant.idLength = 0 => meant.clean

(* A session's answer that the client cannot read whole.                   *)
IsBrokenAnswer(e) ==
    /\ e.written < e.expected
    /\ e.kind # "PUBLISH"
    /\ e.kind = "CONNACK" => e.answer = Accepted

Filters(meant) ==
    IF meant.type \in {"SUBSCRIBE", "UNSUBSCRIBE"} THEN meant.filters ELSE <<>>

(* A packet is served as what its client meant, or not at all.  A session  *)
(* is paired by a CONNECT the broker welcomes and by no other; an open one *)
(* lives on exactly when the packet is legal and its answer was written    *)
(* whole; the filters that are gone through are those that were meant, and *)
(* a SUBACK answers each, with a failure if it is too long.  The two cases *)
(* the code is not ready for: a session's CONNECT that does not parse      *)
(* stops the device, and more filters than a SUBACK has room for is        *)
(* undefined.                                                              *)
ServedAsMeant ==
    last # NoPacket =>
        LET meant == last.packet
            tooMany == Len(Filters(meant)) > maxTopicsPerSubscribeMessage
                       /\ meant.type = "SUBSCRIBE"
            broken == \E e \in Range(output.stream) : IsBrokenAnswer(e)
        IN  /\ last.before = "none" =>
                /\ session = "open" => IsWelcome(meant) /\ last.paired
                /\ session = "none" => ~(IsWelcome(meant) /\ last.paired)
                /\ session \in {"ended", "waiting"} => broken
                /\ running = "yes"
            /\ last.before = "open" =>
                /\ running = "halted" <=> meant.type = "CONNECT" /\ ~IsLegal(meant)
                /\ running = "undefined" <=> IsLegal(meant) /\ tooMany
                /\ session = "open" /\ running = "yes" => IsLegal(meant)
                /\ IsLegal(meant) => session = "open" \/ broken \/ tooMany
            /\ last.filters = IF IsLegal(meant) THEN [i \in DOMAIN Filters(meant) |->
                                                          Filters(meant)[i].length]
                              ELSE <<>>
            /\ session = "open" /\ meant.type = "SUBSCRIBE" /\ last.before = "open" =>
                \E e \in Range(output.stream) :
                    /\ e.kind = "SUBACK" /\ Len(e.answer) = Len(meant.filters)
                    /\ \A i \in DOMAIN e.answer :
                        meant.filters[i].length > maxTopicNameLength => e.answer[i] = 128

(* After a message that was written in part the client takes the next for  *)
(* the rest of it.  A session whose answer is broken is gone, and what the *)
(* client still gets is the line that says so: no answer, and no more than *)
(* a PUBLISH for each leaf of the log.  What may be followed by anything:  *)
(* a broken PUBLISH, which is dropped and forgotten, and a broken refusal  *)
(* of a connection that stays.                                             *)
OnlyLogFollowsBrokenAnswer ==
    \A i \in DOMAIN output.stream :
        /\ output.stream[i].written <= output.stream[i].expected
        /\ IsBrokenAnswer(output.stream[i]) =>
              /\ session \in {"ended", "waiting"}
              /\ Len(output.stream) - i <= logDepth
              /\ \A j \in i + 1 .. Len(output.stream) : output.stream[j].kind = "PUBLISH"

(* What the statistics count as sent is what a client could read whole,    *)
(* and every PUBLISH is either sent or dropped.                            *)
CountersMatchStream ==
    LET Whole(kinds) == Cardinality({i \in DOMAIN output.stream :
                            /\ output.stream[i].kind \in kinds
                            /\ output.stream[i].written = output.stream[i].expected})
    IN  /\ output.connection + output.session =
                Whole({"CONNACK", "SUBACK", "UNSUBACK", "PINGRESP", "PUBLISH"})
        /\ output.publishSent = Whole({"PUBLISH"})
        /\ output.publishSent + output.publishDropped =
                Cardinality({i \in DOMAIN output.stream : output.stream[i].kind = "PUBLISH"})
=============================================================================
