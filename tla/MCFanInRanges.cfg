\* Up to three producers, with bounds that add up to usize::MAX and beyond it.
SPECIFICATION Spec
CONSTANTS
  UMax = 5
  Bounds = {0, 1, 2, 5}
  Ports = 3
  None = None
INVARIANTS TypeOK ValidatedPrepares RefusedIsImpossible SharesExact
CHECK_DEADLOCK FALSE
