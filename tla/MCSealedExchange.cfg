SPECIFICATION Spec
CONSTANTS
  TicksPerSecond = 2
  IntMax = 63
  DefaultTTL = 4
  DefaultSkew = 2
  DefaultMaxTTL = 4
  c1 = c1
  c2 = c2
  Calls = {c1, c2}
  MessageIDs = {"id", "empty"}
  Challenges <- MCChallenges
  Publics = {"key", "wrongLength", "lowOrder"}
  RequestTTLs = {0}
  ResponseKeys = {"k1"}
  ResponseTTLs = {4, 12}
  Drifts <- MCDrifts
  Deviations = {"none", "otherSender", "requestOnly", "unknownCrit", "noExpiry", "shortNonce", "twoRecipients", "otherRecipient", "otherSigner"}
  Skews = {0}
  MaxTTLs = {0}
  MaxTime = 6
  MaxResponses = 1
SYMMETRY CallSymmetry
INVARIANTS ExchangeTypeOK AnswersOwnRequest AnswersAreRecent HonestAnswersOpen
CHECK_DEADLOCK FALSE
