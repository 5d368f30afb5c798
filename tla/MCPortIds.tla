------------------------------ MODULE MCPortIds ------------------------------
(* Threads that allocate IDs of a machine word small enough to run out. *)
EXTENDS PortIds, TLC

CONSTANTS t1, t2, t3
=============================================================================
