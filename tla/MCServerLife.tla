---------------------------- MODULE MCServerLife ----------------------------
(***************************************************************************)
(* ServerLife with the bounds of the configuration, and its mutants.       *)
(***************************************************************************)
EXTENDS ServerLife

=============================================================================
