----------------------------- MODULE MCPipeline ------------------------------
(* A prepared block whose exported output is connected to a spawned writer. *)
EXTENDS Pipeline, TLC

CONSTANTS block, writer

InOrder  == <<block, writer>>
Upstream == (block :> {}) @@ (writer :> {block})
=============================================================================
