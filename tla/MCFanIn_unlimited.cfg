\* Two producers without maxima; the first has two clones and must send.
SPECIFICATION Spec
CONSTANTS
  a = a  b = b  c = c
  N = 2
  Handles = {a, b, c}
  Owner <- Clones
  None = None
  Min = 2
  Max = None
  PMin <- FirstRequired
  PMax <- NoLimit
  Cap = 1
  Ops = {"message", "connect"}
  Calls <- TwoForLast
SYMMETRY CloneSymmetry
INVARIANTS EndIsComplete FairTurns
CHECK_DEADLOCK FALSE
