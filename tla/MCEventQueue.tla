----------------------------- MODULE MCEventQueue -----------------------------
(***************************************************************************)
(* EventQueue for TLC: the main thread and one other.                      *)
(***************************************************************************)
EXTENDS EventQueue, TLC
===============================================================================
