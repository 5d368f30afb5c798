------------------------------- MODULE Stream -------------------------------
(***************************************************************************)
(* What a connection promises: accepted payloads are delivered in order,   *)
(* without loss or repetition, at most Max of them; the stream ends once,  *)
(* either completely (everything accepted was delivered), or cut by a      *)
(* disconnect marker, or aborted by its receiver; and an end that delivers *)
(* fewer than Min payloads is reported as a shortfall.                     *)
(***************************************************************************)
EXTENDS Integers, Sequences

CONSTANTS Payload, Min, Max, None

VARIABLES accepted, delivered, ending

vars == <<accepted, delivered, ending>>

Ends == {"complete", "short", "cut", "cutshort", "aborted"}

Init ==
  /\ accepted = <<>> /\ delivered = <<>>
  /\ ending = IF Max = 0 THEN "complete" ELSE "open"

\* A drained stream accepts nothing more; a cut one may, to no effect.
Accept ==
  /\ ending \notin {"complete", "short"}
  /\ Max # None => Len(accepted) < Max
  /\ \E p \in Payload : accepted' = Append(accepted, p)
  /\ UNCHANGED <<delivered, ending>>

Deliver ==
  /\ ending = "open" /\ Len(delivered) < Len(accepted)
  /\ delivered' = Append(delivered, accepted[Len(delivered) + 1])
  /\ ending' = IF Max = Len(delivered') THEN "complete" ELSE "open"
  /\ UNCHANGED accepted

End ==
  /\ ending = "open"
  /\ ending' \in Ends
  /\ ending' \in {"complete", "short"} => delivered = accepted
  /\ ending' \in {"short", "cutshort"} => Len(delivered) < Min
  /\ ending' \in {"complete", "cut"} => Len(delivered) >= Min
  /\ UNCHANGED <<accepted, delivered>>

Next == Accept \/ Deliver \/ End

Spec == Init /\ [][Next]_vars
=============================================================================
