CONSTANTS
  NumCalls = 2
  Workload <- MCWorkload
  Together <- MCTogether
  DefaultTimeout = 30
  Dials <- MCDials
  Endpoints = {"unix://sock"}
  Rejections <- MCRejections
  Visible <- MCVisible
  Answers <- MCAnswers
  Named <- MCNamed
  Now = 100
  ZeroTime <- MCZeroTime
  Two63 = 1024
  len <- MCLen
SPECIFICATION Spec
INVARIANTS
  ClientTypeOK
  FixedOptionsWin
  CatalogComplete
  ErrorTellsEffect
  ExpiryAsAsked
  RoundTrips
  NothingLost
PROPERTIES
  Returns
CHECK_DEADLOCK FALSE
