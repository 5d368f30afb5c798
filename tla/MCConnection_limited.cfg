\* Three clones, a limit of two payloads of which one is required, a queue of one.
SPECIFICATION Spec
CONSTANTS
  h1 = h1  h2 = h2  h3 = h3
  Handles = {h1, h2, h3}
  None = None
  Min = 1
  Max = 2
  Cap = 1
  Ops = {"message", "disconnect"}
  Calls = 2
SYMMETRY HandleSymmetry
INVARIANTS QuotaExact PermitsInUse SendOutcome NothingLost
CHECK_DEADLOCK FALSE
