SPECIFICATION Spec
CONSTANTS
  FixedHeaderLen = 2
  PrefixLen = 2
  TagLen = 1
  NonceLen = 1
  CEKLen = 1
  MaxChunkSize = 2
  KEMCtLen <- MCKEMCtLen
  EmptyReads = FALSE
  Streams = {"s1"}
  SuiteArgs = {"MLKEM512"}
  ChunkArgs = {2}
  CEKArgs = {"k1"}
  Seeds = {"d1"}
  PlainLens = {1}
  ReadErrors = FALSE
  WriteErrors = FALSE
  StrayLens = {2}
  ReaderErrors = FALSE
  SinkErrors = FALSE
  MaxFaults = 1
  OtherKeys = {}
INVARIANTS CutHeaderIsShort
CHECK_DEADLOCK FALSE
