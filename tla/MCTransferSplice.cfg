SPECIFICATION Spec
CONSTANTS
  FixedHeaderLen = 2
  PrefixLen = 2
  TagLen = 1
  NonceLen = 1
  CEKLen = 1
  MaxChunkSize = 2
  KEMCtLen <- MCKEMCtLen
  EmptyReads = FALSE
  Streams = {"s1", "s2"}
  SuiteArgs = {"MLKEM512", "AES256GCM"}
  ChunkArgs = {2}
  CEKArgs = {"k1"}
  Seeds = {"d1"}
  PlainLens = {1, 3}
  ReadErrors = FALSE
  WriteErrors = FALSE
  StrayLens = {2}
  ReaderErrors = FALSE
  SinkErrors = FALSE
  MaxFaults = 1
  OtherKeys = {"kx"}
PROPERTIES KeepsPromise
INVARIANTS RecoversOwnCEK NonceUnique CutClassified
CHECK_DEADLOCK FALSE
