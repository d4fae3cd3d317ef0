SPECIFICATION Spec
CONSTANTS
  TicksPerSecond = 2
  IntMax = 63
  DefaultTTL = 4
  DefaultSkew = 2
  DefaultMaxTTL = 4
  c1 = c1
  c2 = c2
  Calls = {c1, c2}
  MessageIDs = {"id", "empty"}
  Challenges <- MCNoChallenge
  Publics = {"key"}
  RequestTTLs = {0}
  ResponseKeys = {"k1"}
  ResponseTTLs = {4, 12}
  Drifts <- MCNoDrift
  Deviations = {"none", "extremeTimes"}
  Skews = {0}
  MaxTTLs = {0}
  MaxTime = 6
  MaxResponses = 1
INVARIANTS SpanWithinMaxTTL
CHECK_DEADLOCK FALSE
