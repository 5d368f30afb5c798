\* The source reads an exported input, the sink what the source sends.
SPECIFICATION FairSpec
CONSTANTS
  source = source  sink = sink  extra = extra
  Prepared = {source, sink}
  Spawnable = {extra}
  Feeds <- Pipeline
  Exported = {source}
  None = None
INVARIANTS OkIsTotal ReturnMeansStopped CauseIsFirst
PROPERTIES ExecuteReturns DropStops
CHECK_DEADLOCK FALSE
