\* A receiver that keeps receiving.
SPECIFICATION ConsumerSpec
CONSTANTS
  h1 = h1  h2 = h2  h3 = h3
  Handles = {h1, h2}
  None = None
  Min = 1
  Max = 2
  Cap = 1
  Ops = {"message", "disconnect"}
  Calls = 2
PROPERTIES ImplementsStream SendsFinish Delivery StreamEnds
CHECK_DEADLOCK FALSE
