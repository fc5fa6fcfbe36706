---------------------------- MODULE MCPacketConn ----------------------------
(* Instance of PacketConn for TLC. *)
EXTENDS PacketConn
OneWant == {3}
=============================================================================
