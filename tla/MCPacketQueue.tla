--------------------------- MODULE MCPacketQueue ---------------------------
(* Two producers, one consumer, two packets. *)
EXTENDS PacketQueue

CONSTANTS p1, p2, c1, a, b

MCProducers == {p1, p2}
MCConsumers == {c1}
MCPackets == {a, b}
=============================================================================
