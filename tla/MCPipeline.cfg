\* Two processes, queues of one, four payloads: enough to fill both processes
\* and the queues behind them.
SPECIFICATION DrivenSpec
CONSTANTS
  block = block  writer = writer
  Prepared = {block}
  Spawnable = {writer}
  Feeds <- Upstream
  Exported = {block}
  None = None
  Chain <- InOrder
  Cap = 1
  Payloads = 4
INVARIANTS Delivered BlockedFromOutside
PROPERTY ImplementsExecution
CHECK_DEADLOCK FALSE
