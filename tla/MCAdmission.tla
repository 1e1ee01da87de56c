----------------------------- MODULE MCAdmission -----------------------------
(* Admission with connections that are alike.                              *)
EXTENDS Admission, TLC

Symmetry == Permutations(Conn)
=============================================================================
