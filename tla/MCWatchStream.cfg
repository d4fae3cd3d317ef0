CONSTANTS
  Changes <- MCChanges
  Kinds = {1, 2, 3}
  BufferSize = 2
  ZeroTime <- MCZeroTime
SPECIFICATION FairSpec
INVARIANTS
  WatchTypeOK
PROPERTIES
  FeedPromise
  CloseUnblocks
  LossNoticed
CHECK_DEADLOCK FALSE
