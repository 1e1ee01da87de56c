---------------------------- MODULE MCPacketFilter ----------------------------
(***************************************************************************)
(* PacketFilter for TLC: headers of two binary digits.                     *)
(***************************************************************************)
EXTENDS PacketFilter, TLC
===============================================================================
