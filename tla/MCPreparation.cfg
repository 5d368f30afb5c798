\* Four ports, two blocks, two types; four calls and edits.
SPECIFICATION Spec
CONSTANTS
  out = out  copy = copy  in = in  narrow = narrow
  source = source  sink = sink  T = T  Message = Message
  Inputs = {in, narrow}
  Outputs = {out, copy}
  Types = {T, Message}
  Type <- AllOfT
  Declared <- PortRanges
  Names = {source, sink}
  Owned <- BlockPorts
  BlockType <- SourceTyped
  BlockRange = {in}
  None = None
  Capacities = {2, 5}
  MaxPermits = 4
  Top = 3
  Calls = 4
INVARIANTS NeverPanics BuilderIsConsistent ClaimsAreLive PreparedIsWired
CHECK_DEADLOCK FALSE
