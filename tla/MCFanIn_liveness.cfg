\* Two producers compete for two payloads; the receiver may stop for ever.
SPECIFICATION TaskSpec
CONSTANTS
  a = a  b = b  c = c
  N = 2
  Handles = {a, c}
  Owner <- OneOfTwo
  None = None
  Min = 0
  Max = 2
  PMin <- NoneRequired
  PMax <- TwoAtMost
  Cap = 2
  Ops = {"message", "disconnect"}
  Calls <- ThreeForLast
PROPERTIES ShareEndWakesSends MergeEnds Delivery
CHECK_DEADLOCK FALSE
