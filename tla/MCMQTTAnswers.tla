---------------------------- MODULE MCMQTTAnswers ----------------------------
(* The packets of a client for TLC.                                        *)
EXTENDS MQTTAnswers

Filter(length, QoS) == [length |-> length, QoS |-> QoS]

Connect(flags, damage) ==
    [type : {"CONNECT"}, flags : flags, damage : damage, level : {4}, reserved : {FALSE},
     clean : BOOLEAN, will : BOOLEAN, willQoS : {0, 1, 3}, willRetain : BOOLEAN,
     password : BOOLEAN, userName : BOOLEAN, idLength : {0, 1, 3}]

PlainConnect ==
    [type |-> "CONNECT", flags |-> 0, damage |-> "none", level |-> 4, reserved |-> FALSE,
     clean |-> TRUE, will |-> FALSE, willQoS |-> 0, willRetain |-> FALSE, password |-> FALSE,
     userName |-> FALSE, idLength |-> 1]

Connects ==
    Connect({0}, {"none"}) \cup
    {c \in Connect({0}, {"short", "long", "length"}) : c.willQoS = 0 /\ ~c.willRetain} \cup
    {[PlainConnect EXCEPT !.damage = d] : d \in {"runt", "name"}} \cup
    {[PlainConnect EXCEPT !.flags = 2], [PlainConnect EXCEPT !.level = 3],
     [PlainConnect EXCEPT !.reserved = TRUE]}

Request(types, flags, ids, damage, filters) ==
    [type : types, flags : flags, id : ids, damage : damage, filters : filters]

Some == {Filter(length, QoS) : length \in {0, 1, 3}, QoS \in {2, 3}}
Three == <<Filter(1, 0), Filter(2, 1), Filter(3, 2)>>

Requests ==
    LET types == {"SUBSCRIBE", "UNSUBSCRIBE"}
        lists == UNION {[1 .. n -> Some] : n \in 1 .. 2} \cup {Three}
    IN  Request(types, {2}, {1}, {"none", "short", "long", "length"}, lists) \cup
        Request(types, {2}, {1}, {"none", "runt"}, {<<>>}) \cup
        Request(types, {0, 2}, {0, 1}, {"none"}, {<<Filter(1, 0)>>})

Bare(types, damage, flags) == [type : types, damage : damage, flags : flags]

Others ==
    Bare({"PINGREQ", "DISCONNECT"}, {"none", "long"}, {0, 1}) \cup
    Bare({"SUBACK", "RESERVED", "PUBREC"}, {"none"}, {0})

MCFirstPackets == Connects \cup Requests \cup Others

MCLaterPackets ==
    {PlainConnect, [PlainConnect EXCEPT !.clean = FALSE], [PlainConnect EXCEPT !.level = 3],
     [PlainConnect EXCEPT !.damage = "short"]} \cup
    Request({"SUBSCRIBE", "UNSUBSCRIBE"}, {2}, {1}, {"none"}, {<<Filter(1, 0)>>}) \cup
    Bare({"PINGREQ"}, {"none"}, {0})

(* Remaining lengths of 127 and 128.                                       *)
MCPublications == {[topic |-> 120, value |-> 5], [topic |-> 126, value |-> 0]}
=============================================================================
