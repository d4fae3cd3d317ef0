SPECIFICATION Spec
CONSTANTS
  FixedHeaderLen = 2
  PrefixLen = 2
  TagLen = 1
  NonceLen = 1
  CEKLen = 1
  MaxChunkSize = 2
  KEMCtLen <- MCKEMCtLen
  EmptyReads = FALSE
  Streams = {"s1"}
  SuiteArgs = {"AES256GCM"}
  ChunkArgs = {1, 2}
  CEKArgs = {"k1"}
  Seeds = {}
  PlainLens = {0, 1, 2, 3}
  ReadErrors = FALSE
  WriteErrors = FALSE
  StrayLens = {2}
  ReaderErrors = FALSE
  SinkErrors = FALSE
  MaxFaults = 0
  OtherKeys = {}
INVARIANTS FullChunksEndEmpty
CHECK_DEADLOCK FALSE
