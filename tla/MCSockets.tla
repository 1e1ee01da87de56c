------------------------------- MODULE MCSockets -------------------------------
(***************************************************************************)
(* Sockets for TLC: one listener and one data socket.                      *)
(***************************************************************************)
EXTENDS Sockets, TLC
===============================================================================
