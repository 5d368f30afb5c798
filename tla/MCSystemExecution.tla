-------------------------- MODULE MCSystemExecution -------------------------
(* A pipeline of two prepared processes, and one task spawned beside it. *)
EXTENDS SystemExecution, TLC

CONSTANTS source, sink, extra

Pipeline == (source :> {}) @@ (sink :> {source}) @@ (extra :> {})
=============================================================================
