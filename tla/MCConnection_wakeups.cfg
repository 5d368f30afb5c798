\* Three clones and one payload in all; the receiver may stop receiving for ever.
SPECIFICATION TaskSpec
CONSTANTS
  h1 = h1  h2 = h2  h3 = h3
  Handles = {h1, h2, h3}
  None = None
  Min = 0
  Max = 1
  Cap = 1
  Ops = {"message", "connect", "watch"}
  Calls = 1
INVARIANT WatchTruthful
PROPERTY EndWakesWaiters
CHECK_DEADLOCK FALSE
