---------------------------- MODULE MCClipboard ----------------------------
(* Instances of Clipboard for TLC. *)
EXTENDS Clipboard, TLC

CONSTANTS c1, c2, v1

Symmetric == Permutations(Client) \cup Permutations(Value)
=============================================================================
