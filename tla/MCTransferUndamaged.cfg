SPECIFICATION FairSpec
CONSTANTS
  FixedHeaderLen = 2
  PrefixLen = 2
  TagLen = 1
  NonceLen = 1
  CEKLen = 1
  MaxChunkSize = 3
  KEMCtLen <- MCKEMCtLen
  EmptyReads = FALSE
  Streams = {"s1"}
  SuiteArgs = {"AES256GCM", "ChaCha20Poly1305", "MLKEM512", "MLKEM768", "MLKEM1024", "unknown"}
  ChunkArgs = {0, 1, 2, 3, 4}
  CEKArgs = {"generate", "nil", "k1", "badLength"}
  Seeds = {"d1"}
  PlainLens = {0, 1, 2, 3, 4, 5, 6}
  ReadErrors = TRUE
  WriteErrors = TRUE
  StrayLens = {2}
  ReaderErrors = FALSE
  SinkErrors = FALSE
  MaxFaults = 0
  OtherKeys = {"kx"}
INVARIANTS WriterTypeOK NonceUnique ChunksContiguous FinalEndsPlaintext WireIsReference
PROPERTIES WriterReturns UndamagedDecrypts
CHECK_DEADLOCK FALSE
