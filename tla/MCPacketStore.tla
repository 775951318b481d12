--------------------------- MODULE MCPacketStore ----------------------------
(***************************************************************************)
(* Model checking of PacketStore: three servers in front of one giraffe-db *)
(* and two tenants.  Packets share no state but the one request a server   *)
(* serves at a time, so one packet is enough for what can go wrong here.   *)
(***************************************************************************)
EXTENDS PacketStore
=============================================================================
