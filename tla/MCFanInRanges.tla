---------------------------- MODULE MCFanInRanges ---------------------------
(* An instance of FanInRanges for TLC: words of 0 .. 5 that overflow soon. *)
EXTENDS FanInRanges
=============================================================================
