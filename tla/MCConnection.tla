---------------------------- MODULE MCConnection ----------------------------
(* Instances of Connection for TLC. *)
EXTENDS Connection, TLC

HandleSymmetry == Permutations(Handles)
=============================================================================
