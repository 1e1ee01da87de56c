---------------------------- MODULE MCClientLife ----------------------------
(***************************************************************************)
(* ClientLife with the bounds of the configuration.                        *)
(***************************************************************************)
EXTENDS ClientLife

=============================================================================
