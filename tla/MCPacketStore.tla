--------------------------- MODULE MCPacketStore ---------------------------
(* Model-checking instance of PacketStore.                                 *)
EXTENDS PacketStore
=============================================================================
