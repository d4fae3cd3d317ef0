SPECIFICATION FairSpec
CONSTANTS
  FixedHeaderLen = 2
  PrefixLen = 2
  TagLen = 1
  NonceLen = 1
  CEKLen = 1
  MaxChunkSize = 2
  KEMCtLen <- MCKEMCtLen
  EmptyReads = TRUE
  MaxAvail = 6
  MaxBuf = 5
INVARIANTS NoByteLost AtomicOutcome
PROPERTIES Terminates
