\* Two clones, no maximum, a minimum of two: the path that uses the queue alone.
SPECIFICATION Spec
CONSTANTS
  h1 = h1  h2 = h2  h3 = h3
  Handles = {h1, h2}
  None = None
  Min = 2
  Max = None
  Cap = 1
  Ops = {"message", "disconnect", "watch"}
  Calls = 2
PROPERTY ImplementsStream
CHECK_DEADLOCK FALSE
