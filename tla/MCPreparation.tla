--------------------------- MODULE MCPreparation ----------------------------
(* A source with two outputs and a sink with two inputs.  One input takes both *)
(* outputs, the other takes only one of them.                                  *)
EXTENDS Preparation, TLC

CONSTANTS out, copy, in, narrow, source, sink, T

AllOfT      == [p \in Ports |-> T]
PortRanges  == (out :> {1}) @@ (copy :> {1, 2}) @@ (in :> {1, 2}) @@ (narrow :> {1})
BlockPorts  == (source :> {out, copy}) @@ (sink :> {in, narrow})
SourceTyped == [p \in Ports |-> IF p = out THEN T ELSE None]
=============================================================================
