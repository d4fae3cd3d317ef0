SPECIFICATION Spec
CONSTANTS
  FixedHeaderLen = 2
  PrefixLen = 2
  TagLen = 1
  NonceLen = 1
  CEKLen = 1
  MaxChunkSize = 2
  KEMCtLen <- MCKEMCtLen
  EmptyReads = FALSE
  Streams = {"s1"}
  SuiteArgs = {"AES256GCM"}
  ChunkArgs = {2}
  CEKArgs = {"k1"}
  Seeds = {}
  PlainLens = {0, 3}
  ReadErrors = TRUE
  WriteErrors = TRUE
  StrayLens = {2, 4}
  ReaderErrors = TRUE
  SinkErrors = TRUE
  MaxFaults = 2
  OtherKeys = {}
INVARIANTS OutputIsPrefix SuccessIsComplete CutClassified SuccessIsWholeLength
CHECK_DEADLOCK FALSE
