CONSTANTS
  Changes <- MCChanges
  Kinds = {1, 2, 3}
  BufferSize = 2
  ZeroTime <- MCZeroTime
SPECIFICATION Spec
INVARIANTS
  CancelErrorIsContexts
CHECK_DEADLOCK FALSE
