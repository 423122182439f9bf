--------------------------- MODULE MCPacketFraming ---------------------------
(* Instance of PacketFraming for TLC. *)
EXTENDS PacketFraming
=============================================================================
