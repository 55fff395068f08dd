------------------------- MODULE MCMQTTPacketReader -------------------------
(* Packets for TLC: a type byte, the length, and a payload that counts up. *)
EXTENDS MQTTPacketReader

(* The remaining length n as the protocol encodes it, in one or two bytes. *)
LengthBytes(n) ==
    IF n < LengthBase THEN <<n>> ELSE <<(n % LengthBase) + LengthBase, n \div LengthBase>>

Packet(type, n) == <<type>> \o LengthBytes(n) \o [i \in 1 .. n |-> i % LengthBase]

BadLength == <<3>> \o [i \in 1 .. 5 |-> LengthBase]

(* PINGREQ, DISCONNECT and SUBSCRIBE have the high bit of the type byte set. *)
High == LengthBase + 1

(* Without payload, the largest that fits, one that does not, a bad one.    *)
MCPackets == {Packet(High, 0), Packet(High, 3), Packet(1, 5), BadLength}
MCJumbo == {Packet(2, 1), Packet(1, 15)}

ASSUME ReadableAssumption == Packets = MCPackets => Readable
ASSUME JumboAssumption == Packets = MCJumbo => ~Readable
=============================================================================
