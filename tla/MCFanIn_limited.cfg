\* Three producers share two payloads, of which one is reserved for the last.
SPECIFICATION Spec
CONSTANTS
  a = a  b = b  c = c
  N = 3
  Handles = {a, b, c}
  Owner <- OneEach
  None = None
  Min = 1
  Max = 2
  PMin <- LastRequired
  PMax <- RoomLeft
  Cap = 1
  Ops = {"message"}
  Calls <- TwoForLast
INVARIANTS BudgetKept RefusalJustified FullIsComplete EndIsComplete
CHECK_DEADLOCK FALSE
