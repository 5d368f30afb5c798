------------------------------ MODULE MCFanIn -------------------------------
(* Instances of FanIn for TLC. *)
EXTENDS FanIn, TLC

CONSTANTS a, b, c

\* Three producers, of which only the last must send; the input takes two.
OneEach      == (a :> 0) @@ (b :> 1) @@ (c :> 2)
LastRequired == [p \in Producers |-> IF p = 2 THEN 1 ELSE 0]
RoomLeft     == [p \in Producers |-> IF p = 2 THEN 2 ELSE 1]

\* Two producers, of which the first has two clones and must send.
Clones        == (a :> 0) @@ (b :> 0) @@ (c :> 1)
FirstRequired == [p \in Producers |-> IF p = 0 THEN 1 ELSE 0]
NoLimit       == [p \in Producers |-> None]
CloneSymmetry == Permutations({a, b})

\* Two producers that compete for two payloads.
OneOfTwo     == (a :> 0) @@ (c :> 1)
NoneRequired == [p \in Producers |-> 0]
TwoAtMost    == [p \in Producers |-> 2]

\* The last handle begins two sends, the others one.
TwoForLast == [h \in Handles |-> IF h = c THEN 2 ELSE 1]

\* ... or three, which overfill a queue of two.
ThreeForLast == [h \in Handles |-> IF h = c THEN 3 ELSE 1]
=============================================================================
