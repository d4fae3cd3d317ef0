---------------------------- MODULE StreamWriter ----------------------------
(***************************************************************************)
(* EncryptAEAD, EncryptMLKEM and writeChunks of stream/stream.go.          *)
(*                                                                         *)
(* Each element of Streams is one call, running in a goroutine of its own. *)
(* The random stream id and salt of a call are fresh, so the call's name   *)
(* stands for both.  The plaintext of call s is plain[s] bytes, byte k of  *)
(* it being <<s, k>>; a chunk is the interval [src, lo, have]: have bytes  *)
(* of the source of call src after the first lo.  One action is one call   *)
(* of dst.Write or one readFull, with the computation that follows it.     *)
(***************************************************************************)
EXTENDS IdealAEAD

CONSTANTS
  Streams,     \* the Encrypt calls
  SuiteArgs,   \* suites callers pass
  ChunkArgs,   \* chunk sizes callers pass
  CEKArgs,     \* "generate", "nil", "badLength", or the name of a provided CEK
  Seeds,       \* recipients' ML-KEM seeds
  PlainLens,   \* lengths of plaintexts
  ReadErrors,  \* may src.Read fail?
  WriteErrors  \* may dst.Write fail?

ASSUME ArgsAssumption ==
  /\ ChunkArgs \subseteq Int
  /\ PlainLens \subseteq Nat
  /\ ReadErrors \in BOOLEAN
  /\ WriteErrors \in BOOLEAN

VARIABLES
  wpc,      \* [Streams -> where the call is]
  werr,     \* [Streams -> error returned, "" for none]
  crypto,   \* [Streams -> chunkCrypto with the header to write]
  plain,    \* [Streams -> length of the plaintext]
  taken,    \* [Streams -> bytes read from src]
  current,  \* [Streams -> chunk about to be sealed]
  next,     \* [Streams -> chunk read ahead]
  index,    \* [Streams -> index of current]
  record,   \* [Streams -> record being written]
  wire      \* [Streams -> cells written to dst]

writerVars == <<wpc, werr, crypto, plain, taken, current, next, index, record,
                wire, sealed>>

NoCrypto == [suiteID |-> "", alg |-> "", chunkSize |-> 0, streamID |-> "",
             messageKey |-> "", cek |-> "", recipient |-> "", header |-> <<>>]

NoRecord == [alg |-> ""]

Chunk(s, lo, have) == [src |-> s, lo |-> lo, have |-> have]

WriterInit ==
  /\ wpc = [s \in Streams |-> "idle"]
  /\ werr = [s \in Streams |-> ""]
  /\ crypto = [s \in Streams |-> NoCrypto]
  /\ plain \in [Streams -> PlainLens]
  /\ taken = [s \in Streams |-> 0]
  /\ current = [s \in Streams |-> Chunk(s, 0, 0)]
  /\ next = [s \in Streams |-> Chunk(s, 0, 0)]
  /\ index = [s \in Streams |-> 0]
  /\ record = [s \in Streams |-> NoRecord]
  /\ wire = [s \in Streams |-> <<>>]
  /\ sealed = {}

\* The call returns err.
WriterFail(s, err) ==
  /\ wpc' = [wpc EXCEPT ![s] = "failed"]
  /\ werr' = [werr EXCEPT ![s] = err]

WriterGoto(s, pc) == wpc' = [wpc EXCEPT ![s] = pc] /\ UNCHANGED werr

(***************************************************************************)
(* The entry points, up to the call of writeChunks.                        *)
(***************************************************************************)

\* GenerateCEK() and ProvidedCEK(nil) are the same CEKSource.
CEKOf(s, cekArg) ==
  IF cekArg \in {"generate", "nil"} THEN [generatedBy |-> s] ELSE [provided |-> cekArg]

\* The chunkCrypto and header for call s, with who can open it: the CEK and,
\* for ML-KEM, the recipient's seed.
CryptoFor(s, suite, alg, chunkSize, cekArg, recipient, kemHeader) ==
  [suiteID |-> suite, alg |-> alg, chunkSize |-> chunkSize, streamID |-> s,
   messageKey |-> deriveMessageKey(s, CEKOf(s, cekArg), suite, s),
   cek |-> CEKOf(s, cekArg), recipient |-> recipient,
   header |-> Cells(HeaderObj(writeFixedHeader(suite, chunkSize, s, s))) \o kemHeader]

\* Mutant of EncryptAEADError: the chunk size is not validated.
EncryptAEADUnvalidated(suite, cekArg, chunkSize) ==
  IF suite \notin AEADSuites THEN "ErrSuiteMismatch"
  ELSE IF cekArg = "badLength" THEN "ErrBadCEKLength"
  ELSE ""

EncryptAEADError(suite, cekArg, chunkSize) ==
  IF suite \notin AEADSuites THEN "ErrSuiteMismatch"
  ELSE IF ~validChunkSize(chunkSize) THEN "ErrBadChunkSize"
  ELSE IF cekArg = "badLength" THEN "ErrBadCEKLength"
  ELSE ""

EncryptAEAD(s, suite, cekArg, chunkSize) ==
  LET err == EncryptAEADError(suite, cekArg, chunkSize)
  IN /\ wpc[s] = "idle"
     /\ \/ err # "" /\ WriterFail(s, err) /\ UNCHANGED crypto
        \/ /\ err = ""
           /\ crypto' = [crypto EXCEPT ![s] =
                CryptoFor(s, suite, chunkAEADForSuite(suite), chunkSize,
                          cekArg, "", <<>>)]
           /\ WriterGoto(s, "header")
     /\ UNCHANGED <<plain, taken, current, next, index, record, wire, sealed>>

EncryptMLKEMError(suite, public, chunkSize) ==
  IF ~isMLKEM(suite) THEN "ErrSuiteMismatch"
  ELSE IF ~validChunkSize(chunkSize) THEN "ErrBadChunkSize"
  ELSE IF public.suite # suite THEN "ErrBadPublicKey"
  ELSE ""

EncryptMLKEM(s, suite, public, chunkSize) ==
  LET err == EncryptMLKEMError(suite, public, chunkSize)
      cek == CEKOf(s, "generate")
      env == wrapCEK(public, suite, cek, buildCEKWrapAAD(suite, s), s)
  IN /\ wpc[s] = "idle"
     /\ \/ err # "" /\ WriterFail(s, err) /\ UNCHANGED <<crypto, sealed>>
        \/ /\ err = ""
           /\ sealed' = sealed \cup {env.wrapped}
           /\ crypto' = [crypto EXCEPT ![s] =
                CryptoFor(s, suite, "AES256GCM", chunkSize, "generate",
                          public.seed, serializeKEMHeader(env))]
           /\ WriterGoto(s, "header")
     /\ UNCHANGED <<plain, taken, current, next, index, record, wire>>

(***************************************************************************)
(* writeChunks.                                                            *)
(***************************************************************************)

\* dst.Write(bytes): all of it, or an error after some of it.
Write(s, bytes, pc) ==
  \/ wire' = [wire EXCEPT ![s] = @ \o bytes] /\ WriterGoto(s, pc)
  \/ /\ WriteErrors
     /\ \E n \in 0 .. Len(bytes) :
          wire' = [wire EXCEPT ![s] = @ \o SubSeq(bytes, 1, n)]
     /\ WriterFail(s, "writeError")

\* readFull(src, buf) with a buffer of chunkSize bytes returned n.
ReadChunk(s, n) ==
  /\ n \in readFullCounts(plain[s] - taken[s], crypto[s].chunkSize)
  /\ taken' = [taken EXCEPT ![s] = @ + n]

SourceError(s) ==
  /\ ReadErrors
  /\ wpc[s] \in {"first", "next"}
  /\ WriterFail(s, "readError")
  /\ UNCHANGED <<crypto, plain, taken, current, next, index, record, wire, sealed>>

WriteHeader(s) ==
  /\ wpc[s] = "header"
  /\ Write(s, crypto[s].header, "first")
  /\ UNCHANGED <<crypto, plain, taken, current, next, index, record, sealed>>

ReadFirst(s) ==
  /\ wpc[s] = "first"
  /\ \E n \in readFullCounts(plain[s] - taken[s], crypto[s].chunkSize) :
       /\ ReadChunk(s, n)
       /\ current' = [current EXCEPT ![s] = Chunk(s, taken[s], n)]
  /\ WriterGoto(s, "next")
  /\ UNCHANGED <<crypto, plain, next, index, record, wire, sealed>>

\* The record of chunk, the final one when nothing was read ahead.
SealChunk(s, chunk, isFinal) ==
  LET c == crypto[s]
  IN aeadSeal(c.alg, c.messageKey, chunkNonce(index[s]), chunk,
       buildChunkAAD(c.suiteID, c.streamID, index[s], isFinal, chunk.have, c.chunkSize))

\* Mutant of ReadNext: a short read ahead already marks current as final.
ReadNextShortIsFinal(s) ==
  /\ wpc[s] = "next"
  /\ \E n \in readFullCounts(plain[s] - taken[s], crypto[s].chunkSize) :
       /\ ReadChunk(s, n)
       /\ next' = [next EXCEPT ![s] = Chunk(s, taken[s], n)]
       /\ record' = [record EXCEPT ![s] =
            SealChunk(s, current[s], n < crypto[s].chunkSize)]
  /\ sealed' = sealed \cup {record'[s]}
  /\ WriterGoto(s, "prefix")
  /\ UNCHANGED <<crypto, plain, current, index, wire>>

\* Mutant of ReadNext: with nothing read ahead, it waits for more.
ReadNextWaits(s) ==
  /\ wpc[s] = "next"
  /\ \E n \in readFullCounts(plain[s] - taken[s], crypto[s].chunkSize) \ {0} :
       /\ ReadChunk(s, n)
       /\ next' = [next EXCEPT ![s] = Chunk(s, taken[s], n)]
       /\ record' = [record EXCEPT ![s] = SealChunk(s, current[s], FALSE)]
  /\ sealed' = sealed \cup {record'[s]}
  /\ WriterGoto(s, "prefix")
  /\ UNCHANGED <<crypto, plain, current, index, wire>>

\* Read one chunk ahead, then seal current.
ReadNext(s) ==
  /\ wpc[s] = "next"
  /\ \E n \in readFullCounts(plain[s] - taken[s], crypto[s].chunkSize) :
       /\ ReadChunk(s, n)
       /\ next' = [next EXCEPT ![s] = Chunk(s, taken[s], n)]
       /\ record' = [record EXCEPT ![s] = SealChunk(s, current[s], n = 0)]
  /\ sealed' = sealed \cup {record'[s]}
  /\ WriterGoto(s, "prefix")
  /\ UNCHANGED <<crypto, plain, current, index, wire>>

\* Mutant of WritePrefix: the length of the chunk, not of the sealed record.
WritePrefixOfChunk(s) ==
  /\ wpc[s] = "prefix"
  /\ Write(s, Cells(PrefixObj(current[s].have)), "record")
  /\ UNCHANGED <<crypto, plain, taken, current, next, index, record, sealed>>

WritePrefix(s) ==
  /\ wpc[s] = "prefix"
  /\ Write(s, Cells(PrefixObj(current[s].have + TagLen)), "record")
  /\ UNCHANGED <<crypto, plain, taken, current, next, index, record, sealed>>

\* Mutant of WriteRecord: the index is not advanced.
WriteRecordSameIndex(s) ==
  /\ wpc[s] = "record"
  /\ Write(s, Cells(RecordObj(record[s], current[s].have)),
           IF record[s].aad.isFinal THEN "ok" ELSE "next")
  /\ current' = IF wpc'[s] = "next" THEN [current EXCEPT ![s] = next[s]] ELSE current
  /\ UNCHANGED <<crypto, plain, taken, next, index, record, sealed>>

\* Mutant of WriteRecord: the chunk read ahead does not become current.
WriteRecordKeepsCurrent(s) ==
  /\ wpc[s] = "record"
  /\ Write(s, Cells(RecordObj(record[s], current[s].have)),
           IF record[s].aad.isFinal THEN "ok" ELSE "next")
  /\ \/ wpc'[s] = "failed" /\ UNCHANGED index
     \/ wpc'[s] # "failed" /\ index' = [index EXCEPT ![s] = @ + 1]
  /\ UNCHANGED <<crypto, plain, taken, current, next, record, sealed>>

\* The record, then the loop's end or its next iteration.
WriteRecord(s) ==
  /\ wpc[s] = "record"
  /\ Write(s, Cells(RecordObj(record[s], current[s].have)),
           IF record[s].aad.isFinal THEN "ok" ELSE "next")
  /\ \/ /\ wpc'[s] = "failed"
        /\ UNCHANGED <<index, current>>
     \/ /\ wpc'[s] = "ok"
        /\ index' = [index EXCEPT ![s] = @ + 1]
        /\ UNCHANGED current
     \/ /\ wpc'[s] = "next"
        /\ index' = [index EXCEPT ![s] = @ + 1]
        /\ current' = [current EXCEPT ![s] = next[s]]
  /\ UNCHANGED <<crypto, plain, taken, next, record, sealed>>

WriterCall(s) ==
  \E suite \in SuiteArgs, size \in ChunkArgs :
    \/ \E cekArg \in CEKArgs : EncryptAEAD(s, suite, cekArg, size)
    \/ \E seed \in Seeds, of \in SuiteArgs \cap KEMSuites :
         EncryptMLKEM(s, suite, PublicKeyFromSeed(seed, of), size)

\* The steps of a call that has begun.
WriterStep(s) ==
  \/ WriteHeader(s) \/ ReadFirst(s) \/ ReadNext(s)
  \/ WritePrefix(s) \/ WriteRecord(s)

WriterNext ==
  \E s \in Streams : WriterCall(s) \/ WriterStep(s) \/ SourceError(s)

WriterSpec == WriterInit /\ [][WriterNext]_writerVars

-----------------------------------------------------------------------------
WriterPCs == {"idle", "header", "first", "next", "prefix", "record", "ok", "failed"}

Chunks == [src : Streams, lo : Nat, have : Nat]

WriterTypeOK ==
  /\ wpc \in [Streams -> WriterPCs]
  /\ plain \in [Streams -> Nat]
  /\ taken \in [Streams -> Nat]
  /\ index \in [Streams -> Nat]
  /\ current \in [Streams -> Chunks]
  /\ next \in [Streams -> Chunks]
  /\ \A s \in Streams :
       /\ wpc[s] \notin {"idle", "failed"} => validChunkSize(crypto[s].chunkSize)
       /\ taken[s] <= plain[s]

\* The records that hold a chunk (the others wrap a CEK).
ChunkRecords == {r \in sealed : r.aad.magic = "BSLA"}

\* No key and nonce seal twice: what chunkNonce's comment claims ("a counter
\* nonce guarantees (key, nonce) uniqueness"), over all the calls of the
\* process, calls given the same CEK and calls that failed included.
NonceUnique ==
  \A q, r \in sealed : q.key = r.key /\ q.nonce = r.nonce => q = r

\* The records of one stream, in the order of their index, are adjacent
\* pieces of its plaintext that begin at its first byte.
ChunksContiguous ==
  \A r \in ChunkRecords :
    /\ r.aad.index = 0 => r.pt.lo = 0
    /\ \A q \in ChunkRecords :
         q.key = r.key /\ q.aad.index + 1 = r.aad.index
           => q.pt.lo + q.pt.have = r.pt.lo

\* A record is marked final only when it ends where the plaintext ends, and
\* then no record of the stream follows it (writeChunks reads one chunk
\* ahead for this).
FinalEndsPlaintext ==
  \A r \in ChunkRecords : r.aad.isFinal =>
    /\ r.pt.lo + r.pt.have = plain[r.aad.streamID]
    /\ \A q \in ChunkRecords : q.key = r.key => q.aad.index <= r.aad.index

\* A call that passed its checks returns, with or without an error.
WriterReturns ==
  \A s \in Streams : wpc[s] = "header" ~> wpc[s] \in {"ok", "failed"}

-----------------------------------------------------------------------------
\* The container that a call with chunkCrypto c should produce from n bytes
\* of plaintext, from the definition of the format: where its pieces lie,
\* without the loop that writes them.

\* Is there a record i?  The first always; another when bytes are left.
HasRecord(c, n, i) == i = 0 \/ i * c.chunkSize < n

\* The bytes of plaintext in record i.
RecordHave(c, n, i) == Least(c.chunkSize, n - i * c.chunkSize)

\* The cells before record i, and those up to its end.
RecordStart(c, i) == Len(c.header) + i * (PrefixLen + c.chunkSize + TagLen)

RecordEnd(c, n, i) == RecordStart(c, i) + PrefixLen + RecordHave(c, n, i) + TagLen

ReferenceRecord(c, n, i) ==
  aeadSeal(c.alg, c.messageKey, chunkNonce(i),
    Chunk(c.streamID, i * c.chunkSize, RecordHave(c, n, i)),
    buildChunkAAD(c.suiteID, c.streamID, i, ~HasRecord(c, n, i + 1),
                  RecordHave(c, n, i), c.chunkSize))

\* As far as cells goes, obj is what follows its first start cells.
Holds(cells, start, obj) ==
  \A k \in 1 .. obj.size :
    start + k <= Len(cells) => cells[start + k] = [obj |-> obj, at |-> k]

\* The prefix and the body of record i are in their places.
RecordLaid(c, n, cells, i) ==
  /\ Holds(cells, RecordStart(c, i), PrefixObj(RecordHave(c, n, i) + TagLen))
  /\ Holds(cells, RecordStart(c, i) + PrefixLen,
           RecordObj(ReferenceRecord(c, n, i), RecordHave(c, n, i)))

\* cells is a prefix of the container.
LaidOut(c, n, cells) ==
  /\ \A k \in 1 .. Len(c.header) : k <= Len(cells) => cells[k] = c.header[k]
  /\ \A i \in 0 .. n : HasRecord(c, n, i) =>
       /\ RecordLaid(c, n, cells, i)
       /\ HasRecord(c, n, i + 1) \/ Len(cells) <= RecordEnd(c, n, i)

\* cells is all of the container.
WholeContainer(c, n, cells) ==
  /\ LaidOut(c, n, cells)
  /\ \E i \in 0 .. n :
       /\ HasRecord(c, n, i) /\ ~HasRecord(c, n, i + 1)
       /\ Len(cells) = RecordEnd(c, n, i)

\* What a call has written is at every moment a prefix of the reference
\* container, and all of it when the call returns nil: writeChunks cuts the
\* plaintext at multiples of the chunk size, and the last piece is final, also
\* when it is a full one.
WireIsReference ==
  \A s \in Streams :
    /\ wire[s] # <<>> => LaidOut(crypto[s], plain[s], wire[s])
    /\ wpc[s] = "ok" => WholeContainer(crypto[s], plain[s], wire[s])

\* "Two full chunks exactly => third (empty) chunk is the final marker"
\* (stream_test.go): a plaintext of full chunks ends with an empty record.
\* It does not: see README.md and MCTransferFullChunks.cfg.
FullChunksEndEmpty ==
  \A s \in Streams :
    wpc[s] = "ok" /\ plain[s] > 0 /\ plain[s] % crypto[s].chunkSize = 0 =>
      \E r \in ChunkRecords : r.aad.streamID = s /\ r.aad.isFinal /\ r.pt.have = 0

=============================================================================
