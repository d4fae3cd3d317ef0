------------------------- MODULE StreamWriterProofs -------------------------
(***************************************************************************)
(* Proofs about StreamWriter, for every set of calls, every argument and   *)
(* every length.                                                           *)
(***************************************************************************)
EXTENDS StreamWriter, SequenceTheorems, TLAPS

USE DEF WriterGoto, WriterFail

Running == {"header", "first", "next", "prefix", "record", "ok"}

\* Typing, with what EXCEPT needs to know of the structured variables.
WTyping ==
  /\ WriterTypeOK
  /\ DOMAIN crypto = Streams
  /\ DOMAIN record = Streams
  /\ \A s \in Streams : wpc[s] \in Running => crypto[s].chunkSize \in Nat \ {0}

\* What readFull returns is within what was asked for and what there is.
LEMMA ReadFullCount ==
  ASSUME NEW avail \in Nat, NEW n \in Nat, NEW k \in readFullCounts(avail, n)
  PROVE  /\ k \in Nat /\ k <= avail /\ k <= n
         /\ ~EmptyReads /\ k = 0 /\ n # 0 => avail = 0
  BY EmptyReadsAssumption DEF readFullCounts, Least

\* The fields of a chunkCrypto that the proofs use.
LEMMA CryptoFields ==
  ASSUME NEW s, NEW suite, NEW alg, NEW size, NEW cekArg, NEW recipient, NEW kemHeader
  PROVE  LET c == CryptoFor(s, suite, alg, size, cekArg, recipient, kemHeader)
         IN /\ c.chunkSize = size
            /\ c.streamID = s
            /\ c.suiteID = suite
            /\ c.cek = CEKOf(s, cekArg)
            /\ c.messageKey = deriveMessageKey(s, CEKOf(s, cekArg), suite, s)
  BY DEF CryptoFor

\* Only valid chunk sizes pass the checks of the entry points.
LEMMA CheckedSize ==
  ASSUME NEW suite, NEW size \in ChunkArgs, NEW cekArg, NEW public,
         \/ EncryptAEADError(suite, cekArg, size) = ""
         \/ EncryptMLKEMError(suite, public, size) = ""
  PROVE  validChunkSize(size) /\ size \in Nat \ {0}
  BY ArgsAssumption, LengthAssumption
  DEF EncryptAEADError, EncryptMLKEMError, validChunkSize

LEMMA TypingInit == WriterInit => WTyping
<1> SUFFICES ASSUME WriterInit PROVE WTyping
  OBVIOUS
<1>1. plain \in [Streams -> Nat]
  BY ArgsAssumption DEF WriterInit
<1>2. current \in [Streams -> Chunks] /\ next \in [Streams -> Chunks]
  BY DEF WriterInit, Chunk, Chunks
<1>3. wpc \in [Streams -> WriterPCs] /\ \A s \in Streams : wpc[s] = "idle"
  BY DEF WriterInit, WriterPCs
<1>4. /\ taken \in [Streams -> Nat] /\ index \in [Streams -> Nat]
      /\ \A s \in Streams : taken[s] = 0
  BY DEF WriterInit
<1>5. DOMAIN crypto = Streams /\ DOMAIN record = Streams
  BY DEF WriterInit
<1>6. \A s \in Streams : taken[s] <= plain[s]
  BY <1>1, <1>4
<1> QED BY <1>1, <1>2, <1>3, <1>4, <1>5, <1>6 DEF WTyping, WriterTypeOK, Running

LEMMA TypingNext == WTyping /\ [WriterNext]_writerVars => WTyping'
<1> SUFFICES ASSUME WTyping, [WriterNext]_writerVars PROVE WTyping'
  OBVIOUS
<1>1. ASSUME NEW s \in Streams, NEW suite \in SuiteArgs, NEW size \in ChunkArgs,
             NEW cekArg \in CEKArgs, EncryptAEAD(s, suite, cekArg, size)
      PROVE  WTyping'
  <2>1. CASE EncryptAEADError(suite, cekArg, size) # ""
    BY <1>1, <2>1 DEF EncryptAEAD, WTyping, WriterTypeOK, WriterPCs, Running
  <2>2. CASE EncryptAEADError(suite, cekArg, size) = ""
    <3>1. /\ crypto'[s].chunkSize = size
          /\ \A t \in Streams \ {s} : crypto'[t] = crypto[t]
          /\ DOMAIN crypto' = Streams
      <4>1. PICK alg, to, kemHeader : crypto' = [crypto EXCEPT ![s] =
              CryptoFor(s, suite, alg, size, cekArg, to, kemHeader)]
        BY <1>1, <2>2 DEF EncryptAEAD
      <4> QED BY <4>1, CryptoFields DEF WTyping
    <3>2. /\ wpc' = [wpc EXCEPT ![s] = "header"]
          /\ UNCHANGED <<plain, taken, index, current, next, record>>
      BY <1>1, <2>2 DEF EncryptAEAD
    <3> QED
      BY <2>2, <3>1, <3>2, CheckedSize DEF WTyping, WriterTypeOK, WriterPCs, Running
  <2> QED BY <2>1, <2>2
<1>2. ASSUME NEW s \in Streams, NEW suite \in SuiteArgs, NEW size \in ChunkArgs,
             NEW public, EncryptMLKEM(s, suite, public, size)
      PROVE  WTyping'
  <2>1. CASE EncryptMLKEMError(suite, public, size) # ""
    BY <1>2, <2>1 DEF EncryptMLKEM, WTyping, WriterTypeOK, WriterPCs, Running
  <2>2. CASE EncryptMLKEMError(suite, public, size) = ""
    <3>1. /\ crypto'[s].chunkSize = size
          /\ \A t \in Streams \ {s} : crypto'[t] = crypto[t]
          /\ DOMAIN crypto' = Streams
      <4>1. PICK kemHeader : crypto' = [crypto EXCEPT ![s] =
              CryptoFor(s, suite, "AES256GCM", size, "generate", public.seed, kemHeader)]
        BY <1>2, <2>2 DEF EncryptMLKEM
      <4> QED BY <4>1, CryptoFields DEF WTyping
    <3>2. /\ wpc' = [wpc EXCEPT ![s] = "header"]
          /\ UNCHANGED <<plain, taken, index, current, next, record>>
      BY <1>2, <2>2 DEF EncryptMLKEM
    <3> QED
      BY <2>2, <3>1, <3>2, CheckedSize DEF WTyping, WriterTypeOK, WriterPCs, Running
  <2> QED BY <2>1, <2>2
<1>3. ASSUME NEW s \in Streams, WriteHeader(s) PROVE WTyping'
  BY <1>3 DEF WriteHeader, Write, WTyping, WriterTypeOK, WriterPCs, Running
<1>4. ASSUME NEW s \in Streams, ReadFirst(s) PROVE WTyping'
  <2>1. PICK n \in readFullCounts(plain[s] - taken[s], crypto[s].chunkSize) :
          /\ ReadChunk(s, n)
          /\ current' = [current EXCEPT ![s] = Chunk(s, taken[s], n)]
    BY <1>4 DEF ReadFirst
  <2>2. plain[s] - taken[s] \in Nat /\ crypto[s].chunkSize \in Nat
    BY <1>4 DEF ReadFirst, WTyping, WriterTypeOK, Running
  <2>3. n \in Nat /\ n <= plain[s] - taken[s]
    BY <2>2, ReadFullCount
  <2> QED
    BY <1>4, <2>1, <2>3
    DEF ReadFirst, ReadChunk, Chunk, Chunks, WTyping, WriterTypeOK, WriterPCs, Running
<1>5. ASSUME NEW s \in Streams, ReadNext(s) PROVE WTyping'
  <2>1. PICK n \in readFullCounts(plain[s] - taken[s], crypto[s].chunkSize) :
          /\ ReadChunk(s, n)
          /\ next' = [next EXCEPT ![s] = Chunk(s, taken[s], n)]
          /\ record' = [record EXCEPT ![s] = SealChunk(s, current[s], n = 0)]
    BY <1>5 DEF ReadNext
  <2>2. plain[s] - taken[s] \in Nat /\ crypto[s].chunkSize \in Nat
    BY <1>5 DEF ReadNext, WTyping, WriterTypeOK, Running
  <2>3. n \in Nat /\ n <= plain[s] - taken[s]
    BY <2>2, ReadFullCount
  <2> QED
    BY <1>5, <2>1, <2>3
    DEF ReadNext, ReadChunk, Chunk, Chunks, WTyping, WriterTypeOK, WriterPCs, Running
<1>6. ASSUME NEW s \in Streams, WritePrefix(s) PROVE WTyping'
  BY <1>6 DEF WritePrefix, Write, WTyping, WriterTypeOK, WriterPCs, Running
<1>7. ASSUME NEW s \in Streams, WriteRecord(s) PROVE WTyping'
  <2>1. /\ wpc' \in [Streams -> WriterPCs]
        /\ \A t \in Streams : wpc'[t] \in Running => wpc[t] \in Running
    BY <1>7 DEF WriteRecord, Write, WTyping, WriterTypeOK, WriterPCs, Running
  <2>2. /\ index' \in [Streams -> Nat]
        /\ current' \in [Streams -> Chunks]
        /\ UNCHANGED <<crypto, plain, taken, next, record>>
    BY <1>7 DEF WriteRecord, WTyping, WriterTypeOK
  <2> QED BY <2>1, <2>2 DEF WTyping, WriterTypeOK, WriterPCs, Running
<1>8. ASSUME NEW s \in Streams, SourceError(s) PROVE WTyping'
  BY <1>8 DEF SourceError, WTyping, WriterTypeOK, WriterPCs, Running
<1>9. CASE UNCHANGED writerVars
  BY <1>9 DEF writerVars, WTyping, WriterTypeOK
<1> QED
  BY <1>1, <1>2, <1>3, <1>4, <1>5, <1>6, <1>7, <1>8, <1>9
  DEF WriterNext, WriterCall, WriterStep

\* Every state of every behaviour of the Encrypt calls is well typed: chunk
\* sizes that reach writeChunks are valid, and no more is taken from the
\* source than it has.
THEOREM WriterTypes == WriterSpec => []WriterTypeOK
<1>1. WriterSpec => []WTyping
  BY TypingInit, TypingNext, PTL DEF WriterSpec
<1>2. WTyping => WriterTypeOK
  BY DEF WTyping
<1> QED BY <1>1, <1>2, PTL

-----------------------------------------------------------------------------
\* The invariant behind the safety properties.  NonceUnique and its
\* companions speak of records only; they are inductive together with where
\* the call that sealed a record is now.

\* Of a record that holds a chunk: the call it belongs to is past its first
\* read, the record is bound to that call's key and position, and only the
\* record being written has the index the call is at.
ChunkRecordOK(r) ==
  LET s == r.aad.streamID
  IN /\ s \in Streams
     /\ r.aad.index \in Nat /\ r.pt.lo \in Nat /\ r.pt.have \in Nat
     /\ r.pt.src = s
     /\ r.pt.lo + r.pt.have <= plain[s]
     /\ r.nonce = chunkNonce(r.aad.index)
     /\ r.key.streamID = s
     /\ wpc[s] \in {"next", "prefix", "record", "ok", "failed"}
     /\ r.aad.index <= index[s]
     /\ r.aad.index = index[s] => wpc[s] \in {"prefix", "record", "failed"}

\* Of a record that wraps a CEK: it is the one of the call it names.
WrapRecordOK(r) ==
  /\ r.aad.streamID \in Streams
  /\ crypto[r.aad.streamID].suiteID # ""
  /\ r.pt.cek = crypto[r.aad.streamID].cek
  /\ wpc[r.aad.streamID] # "idle"
  /\ r.nonce = [randomOf |-> r.aad.streamID]

RecordsOK ==
  \A r \in sealed :
    \/ r.aad.magic = "BSLA" /\ ChunkRecordOK(r)
    \/ r.aad.magic = "BSLK" /\ WrapRecordOK(r)

\* A call seals one record for each index and wraps one CEK.
RecordsUnique ==
  \A q, r \in sealed :
    /\ q.aad.magic = r.aad.magic /\ q.aad.streamID = r.aad.streamID
    /\ r.aad.magic = "BSLA" => q.aad.index = r.aad.index
    => q = r

\* Where a call is in its plaintext and which record it is writing.
CallOK(s) ==
  /\ wpc[s] \in Running =>
       crypto[s].messageKey.streamID = s /\ crypto[s].streamID = s
  /\ wpc[s] \in {"idle", "header", "first"} => taken[s] = 0 /\ index[s] = 0
  /\ wpc[s] \in {"next", "prefix", "record"} =>
       /\ current[s].src = s
       /\ index[s] = 0 => current[s].lo = 0
       /\ \A r \in ChunkRecords :
            r.aad.streamID = s /\ r.aad.index + 1 = index[s]
              => r.pt.lo + r.pt.have = current[s].lo
  /\ wpc[s] = "next" => taken[s] = current[s].lo + current[s].have
  /\ wpc[s] \in {"prefix", "record"} =>
       /\ next[s].src = s
       /\ next[s].lo = current[s].lo + current[s].have
       /\ taken[s] = next[s].lo + next[s].have
       /\ record[s] \in ChunkRecords
       /\ record[s].pt = current[s]
       /\ record[s].aad.streamID = s
       /\ record[s].aad.index = index[s]

\* Adjacent records, by stream.
Contiguous ==
  \A r \in ChunkRecords :
    /\ r.aad.index = 0 => r.pt.lo = 0
    /\ \A q \in ChunkRecords :
         q.aad.streamID = r.aad.streamID /\ q.aad.index + 1 = r.aad.index
           => q.pt.lo + q.pt.have = r.pt.lo

\* Of final records: the call seals nothing after one.
FinalOK ==
  \A r \in ChunkRecords : r.aad.isFinal =>
    /\ wpc[r.aad.streamID] # "next"
    /\ ~EmptyReads => r.pt.lo + r.pt.have = plain[r.aad.streamID]
    /\ \A q \in ChunkRecords :
         q.aad.streamID = r.aad.streamID => q.aad.index <= r.aad.index

WriterInv ==
  /\ WTyping
  /\ RecordsOK
  /\ RecordsUnique
  /\ \A s \in Streams : CallOK(s)
  /\ Contiguous
  /\ FinalOK

\* A counter nonce is no random one, and each kind is injective.
LEMMA NonceKinds ==
  ASSUME NEW i, NEW s PROVE chunkNonce(i) # [randomOf |-> s]
  BY DEF chunkNonce

LEMMA NonceInjective ==
  ASSUME NEW i, NEW j
  PROVE  /\ chunkNonce(i) = chunkNonce(j) => i = j
         /\ [randomOf |-> i] = [randomOf |-> j] => i = j
<1>1. chunkNonce(i).counter = i /\ chunkNonce(j).counter = j
  BY DEF chunkNonce
<1>2. [randomOf |-> i].randomOf = i /\ [randomOf |-> j].randomOf = j
  OBVIOUS
<1> QED BY <1>1, <1>2

LEMMA InvImplies ==
  ASSUME WriterInv
  PROVE  NonceUnique /\ ChunksContiguous /\ (~EmptyReads => FinalEndsPlaintext)
<1>1. NonceUnique
  <2> SUFFICES ASSUME NEW q \in sealed, NEW r \in sealed, q.key = r.key, q.nonce = r.nonce
               PROVE q = r
    BY DEF NonceUnique
  <2>1. q.aad.magic = r.aad.magic
    BY NonceKinds, ZenonT(60) DEF WriterInv, RecordsOK, ChunkRecordOK, WrapRecordOK
  <2>2. CASE r.aad.magic = "BSLA"
    <3>1. q.aad.streamID = r.aad.streamID
      BY <2>1, <2>2 DEF WriterInv, RecordsOK, ChunkRecordOK
    <3>2. q.nonce = chunkNonce(q.aad.index) /\ r.nonce = chunkNonce(r.aad.index)
      BY <2>1, <2>2 DEF WriterInv, RecordsOK, ChunkRecordOK
    <3>3. q.aad.index = r.aad.index
      BY <3>2, NonceInjective
    <3> QED BY <2>1, <3>1, <3>3 DEF WriterInv, RecordsUnique
  <2>3. CASE r.aad.magic = "BSLK"
    <3>1. /\ q.nonce = [randomOf |-> q.aad.streamID]
          /\ r.nonce = [randomOf |-> r.aad.streamID]
      BY <2>1, <2>3 DEF WriterInv, RecordsOK, WrapRecordOK
    <3>2. q.aad.streamID = r.aad.streamID
      BY <3>1, NonceInjective
    <3> QED BY <2>1, <2>3, <3>2 DEF WriterInv, RecordsUnique
  <2> QED BY <2>2, <2>3 DEF WriterInv, RecordsOK
<1>2. \A q, r \in ChunkRecords : q.key = r.key => q.aad.streamID = r.aad.streamID
  BY DEF WriterInv, RecordsOK, ChunkRecordOK, ChunkRecords
<1>3. ChunksContiguous
  BY <1>2 DEF ChunksContiguous, WriterInv, Contiguous
<1>4. ~EmptyReads => FinalEndsPlaintext
  BY <1>2 DEF FinalEndsPlaintext, WriterInv, FinalOK
<1> QED BY <1>1, <1>3, <1>4

LEMMA InvInit == WriterInit => WriterInv
<1> SUFFICES ASSUME WriterInit PROVE WriterInv
  OBVIOUS
<1>1. WTyping
  BY TypingInit
<1>2. sealed = {} /\ ChunkRecords = {}
  BY DEF WriterInit, ChunkRecords
<1>3. \A s \in Streams : wpc[s] = "idle" /\ taken[s] = 0 /\ index[s] = 0
  BY DEF WriterInit
<1>4. \A s \in Streams : CallOK(s)
  BY <1>3 DEF CallOK, Running
<1> QED
  BY <1>1, <1>2, <1>4 DEF WriterInv, RecordsOK, RecordsUnique, Contiguous, FinalOK

\* A message key is bound to its stream id.
LEMMA MessageKeyStream ==
  ASSUME NEW salt, NEW cek, NEW suite, NEW id
  PROVE  deriveMessageKey(salt, cek, suite, id).streamID = id
  BY DEF deriveMessageKey

\* Steps that seal nothing: records keep their properties as long as the call
\* they belong to does not go back.
LEMMA QuietStep ==
  ASSUME WriterInv, WTyping', sealed' = sealed, plain' = plain,
         NEW s \in Streams,
         \A t \in Streams \ {s} :
           /\ wpc'[t] = wpc[t] /\ index'[t] = index[t] /\ taken'[t] = taken[t]
           /\ current'[t] = current[t] /\ next'[t] = next[t]
           /\ record'[t] = record[t] /\ crypto'[t] = crypto[t],
         wpc[s] # "idle" => wpc'[s] # "idle" /\ crypto'[s] = crypto[s],
         wpc[s] \in {"next", "prefix", "record"} =>
           wpc'[s] \in {"next", "prefix", "record", "ok", "failed"},
         index'[s] = index[s] =>
           \/ wpc'[s] = wpc[s] \/ wpc'[s] = "failed" \/ wpc[s] \in {"idle", "header", "first"}
           \/ wpc[s] = "prefix" /\ wpc'[s] = "record",
         index'[s] \in {index[s], index[s] + 1},
         wpc[s] \in {"ok", "failed"} => wpc'[s] = wpc[s],
         wpc'[s] = "next" => \A r \in ChunkRecords : r.aad.streamID = s => ~r.aad.isFinal,
         CallOK(s)'
  PROVE  WriterInv'
<1>1. ChunkRecords' = ChunkRecords
  BY DEF ChunkRecords
<1>2. RecordsOK'
  <2> SUFFICES ASSUME NEW r \in sealed
               PROVE  \/ r.aad.magic = "BSLA" /\ ChunkRecordOK(r)'
                      \/ r.aad.magic = "BSLK" /\ WrapRecordOK(r)'
    BY DEF RecordsOK
  <2>1. CASE r.aad.magic = "BSLA"
    <3>1. ChunkRecordOK(r)
      BY <2>1 DEF WriterInv, RecordsOK
    <3>2. index[s] \in Nat
      BY DEF WriterInv, WTyping, WriterTypeOK
    <3> QED BY <2>1, <3>1, <3>2 DEF ChunkRecordOK
  <2>2. CASE r.aad.magic = "BSLK"
    <3>1. WrapRecordOK(r)
      BY <2>2 DEF WriterInv, RecordsOK
    <3>2. /\ wpc'[r.aad.streamID] # "idle"
          /\ crypto'[r.aad.streamID] = crypto[r.aad.streamID]
      BY <3>1 DEF WrapRecordOK
    <3> QED BY <2>2, <3>1, <3>2 DEF WrapRecordOK
  <2> QED BY <2>1, <2>2 DEF WriterInv, RecordsOK
<1>3. RecordsUnique'
  BY DEF WriterInv, RecordsUnique
<1>4. \A t \in Streams : CallOK(t)'
  BY <1>1 DEF WriterInv, CallOK
<1>5. Contiguous'
  BY <1>1 DEF WriterInv, Contiguous
<1>6. FinalOK'
  <2>1. \A r \in ChunkRecords : r.aad.streamID \in Streams
    BY DEF WriterInv, RecordsOK, ChunkRecordOK, ChunkRecords
  <2> QED BY <1>1, <2>1 DEF WriterInv, FinalOK
<1> QED BY <1>2, <1>3, <1>4, <1>5, <1>6 DEF WriterInv

LEMMA InvNext == WriterInv /\ [WriterNext]_writerVars => WriterInv'
<1> SUFFICES ASSUME WriterInv, [WriterNext]_writerVars PROVE WriterInv'
  OBVIOUS
<1>0. WTyping /\ WTyping'
  BY TypingNext DEF WriterInv
<1>1. ASSUME NEW s \in Streams, NEW suite \in SuiteArgs, NEW size \in ChunkArgs,
             NEW cekArg \in CEKArgs, EncryptAEAD(s, suite, cekArg, size)
      PROVE  WriterInv'
  <2>1. CallOK(s) /\ wpc[s] = "idle"
    BY <1>1 DEF WriterInv, EncryptAEAD
  <2>2. /\ wpc'[s] \in {"header", "failed"}
        /\ \A t \in Streams \ {s} : wpc'[t] = wpc[t] /\ crypto'[t] = crypto[t]
        /\ UNCHANGED <<plain, taken, current, next, index, record, sealed>>
    BY <1>0, <1>1 DEF EncryptAEAD, WTyping, WriterTypeOK
  <2>3. wpc'[s] = "header" =>
          crypto'[s].messageKey.streamID = s /\ crypto'[s].streamID = s
    <3> SUFFICES ASSUME wpc'[s] = "header"
                 PROVE  crypto'[s].messageKey.streamID = s /\ crypto'[s].streamID = s
      OBVIOUS
    <3>1. PICK alg, to, kemHeader : crypto' = [crypto EXCEPT ![s] =
            CryptoFor(s, suite, alg, size, cekArg, to, kemHeader)]
      BY <1>0, <1>1 DEF EncryptAEAD, WTyping, WriterTypeOK
    <3> QED BY <1>0, <3>1, CryptoFields, MessageKeyStream DEF WTyping
  <2>4. CallOK(s)'
    BY <2>1, <2>2, <2>3 DEF CallOK, Running
  <2> QED BY <1>0, <2>1, <2>2, <2>4, QuietStep
<1>2. ASSUME NEW s \in Streams, NEW suite \in SuiteArgs, NEW size \in ChunkArgs,
             NEW public, EncryptMLKEM(s, suite, public, size)
      PROVE  WriterInv'
  <2>1. CallOK(s) /\ wpc[s] = "idle"
    BY <1>2 DEF WriterInv, EncryptMLKEM
  <2>2. CASE EncryptMLKEMError(suite, public, size) # ""
    <3>1. /\ wpc'[s] = "failed"
          /\ \A t \in Streams \ {s} : wpc'[t] = wpc[t]
          /\ UNCHANGED <<crypto, plain, taken, current, next, index, record, sealed>>
      BY <1>0, <1>2, <2>2 DEF EncryptMLKEM, WTyping, WriterTypeOK
    <3>2. CallOK(s)'
      BY <2>1, <3>1 DEF CallOK, Running
    <3> QED BY <1>0, <2>1, <3>1, <3>2, QuietStep
  <2>3. CASE EncryptMLKEMError(suite, public, size) = ""
    <3> DEFINE env == wrapCEK(public, suite, CEKOf(s, "generate"),
                              buildCEKWrapAAD(suite, s), s)
               w == env.wrapped
    <3>1. /\ wpc' = [wpc EXCEPT ![s] = "header"]
          /\ UNCHANGED <<plain, taken, current, next, index, record>>
          /\ sealed' = sealed \cup {w}
          /\ crypto' = [crypto EXCEPT ![s] =
               CryptoFor(s, suite, "AES256GCM", size, "generate", public.seed,
                         serializeKEMHeader(env))]
      BY <1>2, <2>3 DEF EncryptMLKEM
    <3>2. /\ w.aad.magic = "BSLK" /\ w.aad.streamID = s
          /\ w.nonce = [randomOf |-> s] /\ w.pt.cek = CEKOf(s, "generate")
      BY DEF wrapCEK, aeadSeal, buildCEKWrapAAD
    <3> HIDE DEF env, w
    <3>3. /\ wpc'[s] = "header"
          /\ \A t \in Streams \ {s} : wpc'[t] = wpc[t] /\ crypto'[t] = crypto[t]
      BY <1>0, <3>1 DEF WTyping, WriterTypeOK
    <3>4. /\ crypto'[s].messageKey.streamID = s /\ crypto'[s].streamID = s
          /\ crypto'[s].suiteID # "" /\ crypto'[s].cek = CEKOf(s, "generate")
      <4>0. suite # ""
        BY <2>3 DEF EncryptMLKEMError, isMLKEM, KEMSuites
      <4>1. PICK kemHeader : crypto' = [crypto EXCEPT ![s] =
              CryptoFor(s, suite, "AES256GCM", size, "generate", public.seed, kemHeader)]
        BY <3>1
      <4>2. crypto'[s] =
              CryptoFor(s, suite, "AES256GCM", size, "generate", public.seed, kemHeader)
        BY <1>0, <4>1 DEF WTyping
      <4>3. /\ crypto'[s].streamID = s /\ crypto'[s].suiteID = suite
            /\ crypto'[s].cek = CEKOf(s, "generate")
            /\ crypto'[s].messageKey = deriveMessageKey(s, CEKOf(s, "generate"), suite, s)
        BY <4>2, CryptoFields
      <4>4. crypto'[s].messageKey.streamID = s
        BY <4>3, MessageKeyStream
      <4>5. crypto'[s].suiteID # ""
        BY <4>0, <4>3
      <4> QED BY <4>3, <4>4, <4>5
    <3>5. ChunkRecords' = ChunkRecords
      BY <3>1, <3>2 DEF ChunkRecords
    <3>6. \A r \in sealed : r.aad.streamID # s
      BY <2>1 DEF WriterInv, RecordsOK, ChunkRecordOK, WrapRecordOK
    <3>7. RecordsOK'
      <4>1. WrapRecordOK(w)'
        BY <3>2, <3>3, <3>4 DEF WrapRecordOK
      <4>2. ASSUME NEW r \in sealed
            PROVE  \/ r.aad.magic = "BSLA" /\ ChunkRecordOK(r)'
                   \/ r.aad.magic = "BSLK" /\ WrapRecordOK(r)'
        <5>1. r.aad.streamID \in Streams
          BY DEF WriterInv, RecordsOK, ChunkRecordOK, WrapRecordOK
        <5>2. /\ wpc'[r.aad.streamID] = wpc[r.aad.streamID]
              /\ crypto'[r.aad.streamID] = crypto[r.aad.streamID]
          BY <3>3, <3>6, <5>1
        <5>3. CASE r.aad.magic = "BSLA" /\ ChunkRecordOK(r)
          BY <3>1, <5>2, <5>3 DEF ChunkRecordOK
        <5>4. CASE r.aad.magic = "BSLK" /\ WrapRecordOK(r)
          BY <5>2, <5>4 DEF WrapRecordOK
        <5> QED BY <5>3, <5>4 DEF WriterInv, RecordsOK
      <4> QED BY <3>1, <3>2, <4>1, <4>2 DEF RecordsOK
    <3>8. RecordsUnique'
      BY <3>1, <3>2, <3>6 DEF WriterInv, RecordsUnique
    <3>9. \A t \in Streams : CallOK(t)'
      <4>1. CallOK(s)'
        BY <2>1, <3>1, <3>3, <3>4 DEF CallOK, Running
      <4>2. ASSUME NEW t \in Streams \ {s} PROVE CallOK(t)'
        BY <3>1, <3>3, <3>5 DEF WriterInv, CallOK, Running
      <4> QED BY <4>1, <4>2
    <3>10. Contiguous'
      BY <3>5 DEF WriterInv, Contiguous
    <3>11. FinalOK'
      <4>1. \A r \in ChunkRecords : r.aad.streamID \in Streams \ {s}
        BY <3>6 DEF WriterInv, RecordsOK, ChunkRecordOK, ChunkRecords
      <4> QED BY <3>1, <3>3, <3>5, <4>1 DEF WriterInv, FinalOK
    <3> QED BY <1>0, <3>7, <3>8, <3>9, <3>10, <3>11 DEF WriterInv
  <2> QED BY <2>2, <2>3
<1>3. ASSUME NEW s \in Streams, WriteHeader(s) PROVE WriterInv'
  <2>1. CallOK(s)
    BY DEF WriterInv
  <2>2. /\ wpc[s] = "header" /\ wpc'[s] \in {"first", "failed"}
        /\ \A t \in Streams \ {s} : wpc'[t] = wpc[t]
        /\ UNCHANGED <<crypto, plain, taken, current, next, index, record, sealed>>
    BY <1>0, <1>3 DEF WriteHeader, Write, WTyping, WriterTypeOK
  <2>3. CallOK(s)'
    BY <2>1, <2>2 DEF CallOK, Running
  <2> QED BY <1>0, <2>2, <2>3, QuietStep
<1>4. ASSUME NEW s \in Streams, ReadFirst(s) PROVE WriterInv'
  <2>1. CallOK(s) /\ wpc[s] = "first"
    BY <1>4 DEF WriterInv, ReadFirst
  <2>2. PICK n \in readFullCounts(plain[s] - taken[s], crypto[s].chunkSize) :
          /\ taken' = [taken EXCEPT ![s] = @ + n]
          /\ current' = [current EXCEPT ![s] = Chunk(s, taken[s], n)]
    BY <1>4 DEF ReadFirst, ReadChunk
  <2>3. /\ taken[s] = 0 /\ index[s] = 0
        /\ n \in Nat
    <3>1. plain[s] - taken[s] \in Nat /\ crypto[s].chunkSize \in Nat
      BY <1>0, <2>1 DEF WTyping, WriterTypeOK, Running
    <3>2. n \in Nat
      BY <3>1, ReadFullCount
    <3> QED BY <2>1, <3>2 DEF CallOK
  <2>4. /\ wpc'[s] = "next"
        /\ current'[s] = Chunk(s, 0, n) /\ taken'[s] = n
        /\ \A t \in Streams \ {s} : /\ wpc'[t] = wpc[t] /\ taken'[t] = taken[t]
                                   /\ current'[t] = current[t]
        /\ UNCHANGED <<crypto, plain, next, index, record, sealed>>
    BY <1>0, <1>4, <2>2, <2>3 DEF ReadFirst, WTyping, WriterTypeOK
  <2>5. \A r \in ChunkRecords : r.aad.streamID # s
    BY <2>1 DEF WriterInv, RecordsOK, ChunkRecordOK, ChunkRecords
  <2>6. CallOK(s)'
    BY <2>1, <2>3, <2>4, <2>5 DEF CallOK, Running, Chunk, ChunkRecords
  <2> QED BY <1>0, <2>1, <2>4, <2>5, <2>6, QuietStep
<1>5. ASSUME NEW s \in Streams, ReadNext(s) PROVE WriterInv'
  <2>1. CallOK(s) /\ wpc[s] = "next"
    BY <1>5 DEF WriterInv, ReadNext
  <2>2. PICK n \in readFullCounts(plain[s] - taken[s], crypto[s].chunkSize) :
          /\ taken' = [taken EXCEPT ![s] = @ + n]
          /\ next' = [next EXCEPT ![s] = Chunk(s, taken[s], n)]
          /\ record' = [record EXCEPT ![s] = SealChunk(s, current[s], n = 0)]
    BY <1>5 DEF ReadNext, ReadChunk
  <2>0. PICK w : w = SealChunk(s, current[s], n = 0)
    OBVIOUS
  <2>3. /\ w.aad.magic = "BSLA" /\ w.aad.streamID = s /\ w.aad.index = index[s]
        /\ w.aad.isFinal = (n = 0) /\ w.pt = current[s]
        /\ w.key.streamID = s /\ w.nonce = chunkNonce(index[s])
    <3>1. crypto[s].messageKey.streamID = s /\ crypto[s].streamID = s
      BY <2>1 DEF CallOK, Running
    <3>2. w.key = crypto[s].messageKey /\ w.pt = current[s] /\ w.nonce = chunkNonce(index[s])
      BY <2>0 DEF SealChunk, aeadSeal
    <3>3. w.aad = buildChunkAAD(crypto[s].suiteID, crypto[s].streamID, index[s], n = 0,
                                current[s].have, crypto[s].chunkSize)
      BY <2>0 DEF SealChunk, aeadSeal
    <3>4. /\ w.aad.magic = "BSLA" /\ w.aad.streamID = crypto[s].streamID
          /\ w.aad.index = index[s] /\ w.aad.isFinal = (n = 0)
      BY <3>3 DEF buildChunkAAD
    <3> QED BY <3>1, <3>2, <3>4
  <2>4. /\ wpc'[s] = "prefix" /\ record'[s] = w /\ next'[s] = Chunk(s, taken[s], n)
        /\ taken'[s] = taken[s] + n
        /\ \A t \in Streams \ {s} : /\ wpc'[t] = wpc[t] /\ taken'[t] = taken[t]
                                   /\ next'[t] = next[t] /\ record'[t] = record[t]
        /\ UNCHANGED <<crypto, plain, current, index>>
        /\ sealed' = sealed \cup {w}
    BY <1>0, <1>5, <2>0, <2>2 DEF ReadNext, WTyping, WriterTypeOK
  <2>5. n \in Nat /\ (~EmptyReads /\ n = 0 => taken[s] = plain[s])
    <3>1. /\ plain[s] \in Nat /\ taken[s] \in Nat /\ plain[s] - taken[s] \in Nat
          /\ crypto[s].chunkSize \in Nat \ {0}
      BY <1>0, <2>1 DEF WTyping, WriterTypeOK, Running
    <3>2. n \in Nat /\ (~EmptyReads /\ n = 0 => plain[s] - taken[s] = 0)
      BY <3>1, ReadFullCount
    <3> QED BY <3>1, <3>2
  <2>6. /\ index[s] \in Nat /\ current[s].lo \in Nat /\ current[s].have \in Nat
        /\ current[s].src = s /\ taken[s] = current[s].lo + current[s].have
        /\ current[s].lo + current[s].have <= plain[s]
    BY <1>0, <2>1 DEF WTyping, WriterTypeOK, WriterInv, Chunks, CallOK
  <2>7. ChunkRecords' = ChunkRecords \cup {w}
    BY <2>3, <2>4 DEF ChunkRecords
  <2>8. \A r \in ChunkRecords :
          /\ r.aad.streamID \in Streams /\ r.aad.index \in Nat
          /\ r.aad.streamID = s => r.aad.index < index[s] /\ ~r.aad.isFinal
    <3>1. \A r \in ChunkRecords : ChunkRecordOK(r)
      BY DEF WriterInv, RecordsOK, ChunkRecords
    <3>2. \A r \in ChunkRecords : r.aad.streamID = s => ~r.aad.isFinal
      BY <2>1 DEF WriterInv, FinalOK
    <3>3. ASSUME NEW r \in ChunkRecords, r.aad.streamID = s PROVE r.aad.index < index[s]
      <4>1. r.aad.index \in Nat /\ r.aad.index <= index[s] /\ r.aad.index # index[s]
        BY <2>1, <3>1, <3>3 DEF ChunkRecordOK
      <4> QED BY <2>6, <4>1
    <3>4. \A r \in ChunkRecords : r.aad.streamID \in Streams /\ r.aad.index \in Nat
      BY <3>1 DEF ChunkRecordOK
    <3> QED BY <3>2, <3>3, <3>4
  <2>9. RecordsOK'
    <3>1. ChunkRecordOK(w)'
      BY <2>3, <2>4, <2>6 DEF ChunkRecordOK
    <3>2. ASSUME NEW r \in sealed
          PROVE  \/ r.aad.magic = "BSLA" /\ ChunkRecordOK(r)'
                 \/ r.aad.magic = "BSLK" /\ WrapRecordOK(r)'
      <4>1. CASE r.aad.magic = "BSLA" /\ ChunkRecordOK(r)
        BY <2>1, <2>4, <4>1 DEF ChunkRecordOK
      <4>2. CASE r.aad.magic = "BSLK" /\ WrapRecordOK(r)
        BY <2>4, <4>2 DEF WrapRecordOK
      <4> QED BY <4>1, <4>2 DEF WriterInv, RecordsOK
    <3> QED BY <2>3, <2>4, <3>1, <3>2 DEF RecordsOK
  <2>10. RecordsUnique'
    BY <2>3, <2>4, <2>6, <2>8 DEF WriterInv, RecordsUnique, ChunkRecords
  <2>11. \A t \in Streams : CallOK(t)'
    <3>1. CallOK(s)'
      BY <2>1, <2>3, <2>4, <2>6, <2>7 DEF CallOK, Running, Chunk
    <3>2. ASSUME NEW t \in Streams \ {s} PROVE CallOK(t)'
      BY <2>3, <2>4, <2>7 DEF WriterInv, CallOK, Running
    <3> QED BY <3>1, <3>2
  <2>12. Contiguous'
    <3>1. index[s] = 0 => current[s].lo = 0
      BY <2>1 DEF CallOK
    <3>2. \A q \in ChunkRecords : q.aad.streamID = s /\ q.aad.index + 1 = index[s]
            => q.pt.lo + q.pt.have = current[s].lo
      BY <2>1 DEF CallOK
    <3>3. \A q \in ChunkRecords :
            q.aad.streamID = s => index[s] + 1 # q.aad.index
      BY <2>6, <2>8
    <3>4. index[s] + 1 # index[s]
      BY <2>6
    <3> QED BY <2>3, <2>7, <3>1, <3>2, <3>3, <3>4 DEF WriterInv, Contiguous
  <2>13. FinalOK'
    <3>0. \A q \in ChunkRecords : q.aad.streamID = s => q.aad.index <= index[s]
      BY <2>6, <2>8
    <3>1. w.aad.isFinal /\ ~EmptyReads => w.pt.lo + w.pt.have = plain[s]
      BY <2>3, <2>5, <2>6
    <3>2. ASSUME NEW r \in ChunkRecords, r.aad.isFinal
          PROVE  r.aad.streamID \in Streams \ {s}
      BY <2>8, <3>2
    <3> QED BY <2>3, <2>4, <2>6, <2>7, <3>0, <3>1, <3>2 DEF WriterInv, FinalOK
  <2> QED BY <1>0, <2>9, <2>10, <2>11, <2>12, <2>13 DEF WriterInv
<1>6. ASSUME NEW s \in Streams, WritePrefix(s) PROVE WriterInv'
  <2>1. CallOK(s)
    BY DEF WriterInv
  <2>2. /\ wpc[s] = "prefix" /\ wpc'[s] \in {"record", "failed"}
        /\ \A t \in Streams \ {s} : wpc'[t] = wpc[t]
        /\ UNCHANGED <<crypto, plain, taken, current, next, index, record, sealed>>
    BY <1>0, <1>6 DEF WritePrefix, Write, WTyping, WriterTypeOK
  <2>3. CallOK(s)'
    BY <2>1, <2>2 DEF CallOK, Running, ChunkRecords
  <2> QED BY <1>0, <2>2, <2>3, QuietStep
<1>7. ASSUME NEW s \in Streams, WriteRecord(s) PROVE WriterInv'
  <2>1. CallOK(s) /\ wpc[s] = "record"
    BY <1>7 DEF WriterInv, WriteRecord
  <2>2. /\ \A t \in Streams \ {s} : wpc'[t] = wpc[t]
        /\ wpc'[s] \in {"next", "ok", "failed"}
        /\ wpc'[s] = "next" => ~record[s].aad.isFinal
    BY <1>0, <1>7, ZenonT(60) DEF WriteRecord, Write, WTyping, WriterTypeOK
  <2>3. /\ \A t \in Streams \ {s} : index'[t] = index[t] /\ current'[t] = current[t]
        /\ wpc'[s] = "failed" => index'[s] = index[s]
        /\ wpc'[s] # "failed" => index'[s] = index[s] + 1
        /\ wpc'[s] = "next" => current'[s] = next[s]
        /\ UNCHANGED <<crypto, plain, taken, next, record, sealed>>
    BY <1>0, <1>7 DEF WriteRecord, WTyping, WriterTypeOK
  <2>4. index[s] \in Nat
    BY <1>0 DEF WTyping, WriterTypeOK
  <2>5. /\ record[s] \in ChunkRecords /\ record[s].aad.streamID = s
        /\ record[s].aad.index = index[s] /\ record[s].pt = current[s]
    BY <2>1 DEF CallOK
  <2>6. ASSUME NEW r \in ChunkRecords, r.aad.streamID = s, r.aad.index = index[s]
        PROVE  r = record[s]
    BY <2>5, <2>6 DEF WriterInv, RecordsUnique, ChunkRecords
  <2>7. ASSUME wpc'[s] = "next", NEW r \in ChunkRecords, r.aad.streamID = s
        PROVE  ~r.aad.isFinal
    <3> SUFFICES ASSUME r.aad.isFinal PROVE FALSE
      OBVIOUS
    <3>1. index[s] <= r.aad.index
      BY <2>5, <2>7 DEF WriterInv, FinalOK
    <3>2. r.aad.index \in Nat /\ r.aad.index <= index[s]
      BY <2>7 DEF WriterInv, RecordsOK, ChunkRecordOK, ChunkRecords
    <3>3. r = record[s]
      BY <2>4, <2>6, <2>7, <3>1, <3>2
    <3> QED BY <2>2, <2>7, <3>3
  <2>8. CallOK(s)'
    <3>1. CASE wpc'[s] \in {"ok", "failed"}
      BY <2>1, <2>2, <2>3, <3>1 DEF CallOK, Running
    <3>2. CASE wpc'[s] = "next"
      <4>1. ChunkRecords' = ChunkRecords
        BY <2>3 DEF ChunkRecords
      <4>2. ASSUME NEW r \in ChunkRecords, r.aad.streamID = s, r.aad.index + 1 = index'[s]
            PROVE  r.pt.lo + r.pt.have = current'[s].lo
        <5>1. r.aad.index \in Nat
          BY DEF WriterInv, RecordsOK, ChunkRecordOK, ChunkRecords
        <5>2. r = record[s]
          BY <2>3, <2>4, <2>6, <3>2, <4>2, <5>1
        <5> QED BY <2>1, <2>3, <2>5, <3>2, <5>2 DEF CallOK
      <4>3. index'[s] # 0
        BY <2>3, <2>4, <3>2
      <4> QED
        BY <2>1, <2>3, <3>2, <4>1, <4>2, <4>3 DEF CallOK, Running
    <3> QED BY <2>2, <3>1, <3>2
  <2> QED BY <1>0, <2>1, <2>2, <2>3, <2>4, <2>7, <2>8, QuietStep
<1>8. ASSUME NEW s \in Streams, SourceError(s) PROVE WriterInv'
  <2>1. CallOK(s)
    BY DEF WriterInv
  <2>2. /\ wpc[s] \in {"first", "next"} /\ wpc'[s] = "failed"
        /\ \A t \in Streams \ {s} : wpc'[t] = wpc[t]
        /\ UNCHANGED <<crypto, plain, taken, current, next, index, record, sealed>>
    BY <1>0, <1>8 DEF SourceError, WTyping, WriterTypeOK
  <2>3. CallOK(s)'
    BY <2>1, <2>2 DEF CallOK, Running
  <2> QED BY <1>0, <2>2, <2>3, QuietStep
<1>9. CASE UNCHANGED writerVars
  <2>1. RecordsOK' /\ RecordsUnique'
    BY <1>9, ZenonT(60) DEF writerVars, WriterInv, RecordsOK, ChunkRecordOK, WrapRecordOK, RecordsUnique
  <2>2. Contiguous' /\ FinalOK' /\ \A s \in Streams : CallOK(s)'
    BY <1>9 DEF writerVars, WriterInv, CallOK, Contiguous, FinalOK, ChunkRecords
  <2> QED BY <1>0, <2>1, <2>2 DEF WriterInv
<1> QED
  BY <1>1, <1>2, <1>3, <1>4, <1>5, <1>6, <1>7, <1>8, <1>9
  DEF WriterNext, WriterCall, WriterStep

LEMMA WriterInvariant == WriterSpec => []WriterInv
  BY InvInit, InvNext, PTL DEF WriterSpec

\* No two records of the process are sealed under the same key and nonce:
\* for any number of concurrent Encrypt calls, also with one CEK for all of
\* them, also when src or dst fails at any point.
THEOREM NoncesNeverRepeat == WriterSpec => []NonceUnique
  BY WriterInvariant, InvImplies, PTL

\* The records of a stream are adjacent pieces of its plaintext, whatever the
\* plaintext's length and the chunk size.
THEOREM ChunksAreContiguous == WriterSpec => []ChunksContiguous
  BY WriterInvariant, InvImplies, PTL

\* With a source that returns no empty reads, a record is marked final only
\* at the end of the plaintext, and nothing is sealed after it.
THEOREM FinalOnlyAtEnd ==
  ASSUME ~EmptyReads
  PROVE  WriterSpec => []FinalEndsPlaintext
<1>1. WriterInv => FinalEndsPlaintext
  BY InvImplies
<1> QED BY <1>1, WriterInvariant, PTL

-----------------------------------------------------------------------------
\* The layout of the containers.

\* Multiples of one number are as far apart as that number.
LEMMA Multiples ==
  ASSUME NEW u \in Nat, NEW i \in Nat, NEW j \in Nat
  PROVE  /\ i * u \in Nat
         /\ (i + 1) * u = i * u + u
         /\ i < j => i * u + u <= j * u
<1>1. i * u \in Nat /\ j * u \in Nat /\ (i + 1) * u = i * u + u
  OBVIOUS
<1>2. ASSUME i < j PROVE i * u + u <= j * u
  <2>1. PICK d \in Nat : j = i + 1 + d
    <3>1. j - i - 1 \in Nat /\ j = i + 1 + (j - i - 1)
      BY <1>2
    <3> QED BY <3>1
  <2>2. j * u = i * u + u + d * u /\ d * u \in Nat /\ i * u \in Nat
    BY <2>1
  <2> QED BY <2>2
<1> QED BY <1>1, <1>2

\* Sequences, whatever their elements.
IsSeq(x) == x \in Seq({x[i] : i \in DOMAIN x})

LEMMA SeqOf ==
  ASSUME NEW S, NEW x \in Seq(S)
  PROVE  IsSeq(x) /\ Len(x) \in Nat /\ DOMAIN x = 1 .. Len(x)
  BY DEF IsSeq

LEMMA SeqConcat ==
  ASSUME NEW a, NEW b, IsSeq(a), IsSeq(b)
  PROVE  /\ IsSeq(a \o b) /\ Len(a) \in Nat /\ Len(b) \in Nat
         /\ Len(a \o b) = Len(a) + Len(b)
         /\ \A k \in 1 .. Len(a) : (a \o b)[k] = a[k]
         /\ \A k \in 1 .. Len(b) : (a \o b)[Len(a) + k] = b[k]
<1>1. PICK S : a \in Seq(S)
  BY DEF IsSeq
<1>2. PICK T : b \in Seq(T)
  BY DEF IsSeq
<1>3. a \in Seq(S \cup T) /\ b \in Seq(S \cup T) /\ Len(a) \in Nat /\ Len(b) \in Nat
  BY <1>1, <1>2
<1>4. /\ a \o b \in Seq(S \cup T)
      /\ Len(a \o b) = Len(a) + Len(b)
      /\ \A i \in 1 .. Len(a) + Len(b) :
           (a \o b)[i] = IF i <= Len(a) THEN a[i] ELSE b[i - Len(a)]
  BY <1>3, ConcatProperties
<1>5. IsSeq(a \o b)
  BY <1>4, SeqOf
<1>6. ASSUME NEW k \in 1 .. Len(a) PROVE (a \o b)[k] = a[k]
  <2>1. k \in 1 .. Len(a) + Len(b) /\ k <= Len(a)
    BY <1>3
  <2> QED BY <1>4, <2>1
<1>7. ASSUME NEW k \in 1 .. Len(b) PROVE (a \o b)[Len(a) + k] = b[k]
  <2>1. /\ Len(a) + k \in 1 .. Len(a) + Len(b) /\ ~(Len(a) + k <= Len(a))
        /\ Len(a) + k - Len(a) = k
    BY <1>3
  <2> QED BY <1>4, <2>1
<1> QED BY <1>3, <1>4, <1>5, <1>6, <1>7

LEMMA SeqInitial ==
  ASSUME NEW a, IsSeq(a), NEW n \in 0 .. Len(a)
  PROVE  /\ IsSeq(SubSeq(a, 1, n)) /\ Len(SubSeq(a, 1, n)) = n
         /\ \A k \in 1 .. n : SubSeq(a, 1, n)[k] = a[k]
<1>1. PICK S : a \in Seq(S)
  BY DEF IsSeq
<1>2. n \in Int /\ \A i \in 1 .. n : a[i] \in S
  BY <1>1
<1>3. /\ SubSeq(a, 1, n) \in Seq(S)
      /\ Len(SubSeq(a, 1, n)) = IF 1 <= n THEN n - 1 + 1 ELSE 0
      /\ \A i \in 1 .. n - 1 + 1 : SubSeq(a, 1, n)[i] = a[1 + i - 1]
  BY <1>2, SubSeqProperties
<1>4. IsSeq(SubSeq(a, 1, n))
  BY <1>3, SeqOf
<1> QED BY <1>1, <1>3, <1>4

LEMMA CellsSeq ==
  ASSUME NEW obj, obj.size \in Nat
  PROVE  /\ IsSeq(Cells(obj)) /\ Len(Cells(obj)) = obj.size
         /\ \A k \in 1 .. obj.size : Cells(obj)[k] = [obj |-> obj, at |-> k]
<1> DEFINE S == {[obj |-> obj, at |-> k] : k \in 1 .. obj.size}
<1>1. Cells(obj) \in Seq(S) /\ Len(Cells(obj)) = obj.size
  BY DEF Cells
<1>2. \A k \in 1 .. obj.size : Cells(obj)[k] = [obj |-> obj, at |-> k]
  BY DEF Cells
<1> QED BY <1>1, <1>2, SeqOf

\* The objects of a container and their sizes.
LEMMA ObjectSizes ==
  /\ \A h : HeaderObj(h).size = FixedHeaderLen
  /\ \A v : PrefixObj(v).size = PrefixLen
  /\ \A r, n : RecordObj(r, n).size = n + TagLen
  BY DEF HeaderObj, PrefixObj, RecordObj

\* Numbers a layout is computed from.
Measured(c, n) == c.chunkSize \in Nat \ {0} /\ Len(c.header) \in Nat /\ n \in Nat

\* Where the records lie: in order, each as long as its chunk and what is
\* added to it, and all but the last with a whole chunk.
LEMMA Geometry ==
  ASSUME NEW c, NEW n, Measured(c, n), NEW i \in Nat
  PROVE  /\ RecordStart(c, i) \in Nat /\ Len(c.header) <= RecordStart(c, i)
         /\ RecordStart(c, 0) = Len(c.header)
         /\ RecordStart(c, i + 1) = RecordStart(c, i) + PrefixLen + c.chunkSize + TagLen
         /\ HasRecord(c, n, i) =>
              /\ i \in 0 .. n
              /\ RecordHave(c, n, i) \in 0 .. c.chunkSize
              /\ RecordEnd(c, n, i) \in Nat
              /\ RecordEnd(c, n, i) <= RecordStart(c, i + 1)
         /\ HasRecord(c, n, i + 1) =>
              /\ HasRecord(c, n, i)
              /\ RecordHave(c, n, i) = c.chunkSize
              /\ RecordEnd(c, n, i) = RecordStart(c, i + 1)
<1> DEFINE u == PrefixLen + c.chunkSize + TagLen
           m == c.chunkSize
           h == Len(c.header)
<1>1. /\ u \in Nat /\ m \in Nat \ {0} /\ n \in Nat /\ PrefixLen \in Nat /\ TagLen \in Nat
      /\ h \in Nat
      /\ u = PrefixLen + m + TagLen
  BY LengthAssumption DEF Measured
<1>2. /\ RecordStart(c, i) = h + i * u
      /\ RecordStart(c, i + 1) = h + (i + 1) * u
      /\ RecordStart(c, 0) = h + 0 * u
  BY DEF RecordStart
<1>3. /\ RecordHave(c, n, i) = IF m < n - i * m THEN m ELSE n - i * m
      /\ RecordEnd(c, n, i) = RecordStart(c, i) + PrefixLen + RecordHave(c, n, i) + TagLen
  BY DEF RecordHave, Least, RecordEnd
<1>4. /\ HasRecord(c, n, i) <=> i = 0 \/ i * m < n
      /\ HasRecord(c, n, i + 1) <=> i + 1 = 0 \/ (i + 1) * m < n
  BY DEF HasRecord
<1>5. c.chunkSize = m /\ Len(c.header) = h
  OBVIOUS
<1> HIDE DEF u, m, h
<1>6. PICK x \in Nat : x = i * u /\ (i + 1) * u = x + u
  BY <1>1, Multiples
<1>7. 0 * u = 0
  BY <1>1
<1>8. PICK y \in Nat : y = i * m /\ (i + 1) * m = y + m
  BY <1>1, Multiples
<1>9. i <= y /\ (i = 0 => y = 0)
  BY <1>1, <1>8
<1>10. /\ RecordStart(c, i) = h + x
       /\ RecordStart(c, i + 1) = h + (x + u)
       /\ RecordStart(c, 0) = h + 0
  BY <1>2, <1>6, <1>7, Zenon
<1>11. /\ RecordHave(c, n, i) = IF m < n - y THEN m ELSE n - y
       /\ HasRecord(c, n, i) <=> i = 0 \/ y < n
       /\ HasRecord(c, n, i + 1) <=> i + 1 = 0 \/ y + m < n
       /\ RecordEnd(c, n, i) = RecordStart(c, i) + PrefixLen + RecordHave(c, n, i) + TagLen
  BY <1>3, <1>4, <1>8, Zenon
<1>12. /\ RecordStart(c, i) \in Nat /\ h <= RecordStart(c, i) /\ RecordStart(c, 0) = h
       /\ RecordStart(c, i + 1) = RecordStart(c, i) + PrefixLen + m + TagLen
       /\ HasRecord(c, n, i) =>
            /\ i \in 0 .. n
            /\ RecordHave(c, n, i) \in 0 .. m
            /\ RecordEnd(c, n, i) \in Nat
            /\ RecordEnd(c, n, i) <= RecordStart(c, i + 1)
       /\ HasRecord(c, n, i + 1) =>
            /\ HasRecord(c, n, i)
            /\ RecordHave(c, n, i) = m
            /\ RecordEnd(c, n, i) = RecordStart(c, i + 1)
  BY <1>1, <1>9, <1>10, <1>11
<1> QED BY <1>5, <1>12, Zenon

LEMMA InOrder ==
  ASSUME NEW c, NEW n, Measured(c, n), NEW i \in Nat, NEW j \in Nat, i < j
  PROVE  /\ RecordStart(c, i + 1) <= RecordStart(c, j)
         /\ HasRecord(c, n, j) => HasRecord(c, n, i) /\ HasRecord(c, n, i + 1)
<1> DEFINE u == PrefixLen + c.chunkSize + TagLen
           m == c.chunkSize
           h == Len(c.header)
<1>1. u \in Nat /\ m \in Nat \ {0} /\ n \in Nat /\ h \in Nat
  BY LengthAssumption DEF Measured
<1>2. RecordStart(c, i + 1) = h + (i + 1) * u /\ RecordStart(c, j) = h + j * u
  BY DEF RecordStart
<1>3. /\ HasRecord(c, n, i) <=> i = 0 \/ i * m < n
      /\ HasRecord(c, n, i + 1) <=> i + 1 = 0 \/ (i + 1) * m < n
      /\ HasRecord(c, n, j) <=> j = 0 \/ j * m < n
  BY DEF HasRecord
<1> HIDE DEF u, m, h
<1>4. PICK x \in Nat, y \in Nat : x = (i + 1) * u /\ y = j * u /\ x <= y
  BY <1>1, Multiples
<1>5. PICK p \in Nat, q \in Nat : p = i * m /\ (i + 1) * m = p + m /\ q = j * m /\ p + m <= q
  BY <1>1, Multiples
<1>6. RecordStart(c, i + 1) = h + x /\ RecordStart(c, j) = h + y
  BY <1>2, <1>4, Zenon
<1>7. /\ HasRecord(c, n, i) <=> i = 0 \/ p < n
      /\ HasRecord(c, n, i + 1) <=> i + 1 = 0 \/ p + m < n
      /\ HasRecord(c, n, j) <=> j = 0 \/ q < n
      /\ p + m <= q /\ x <= y
  BY <1>3, <1>4, <1>5, Zenon
<1> QED BY <1>1, <1>6, <1>7

-----------------------------------------------------------------------------
\* Writing more: what was in its place stays there, what is written next is
\* in its place, and what lies further on is not reached.
LEMMA HoldsKept ==
  ASSUME NEW w, NEW b, IsSeq(w), IsSeq(b), NEW start \in Nat, NEW obj, obj.size \in Nat,
         Holds(w, start, obj), start + obj.size <= Len(w)
  PROVE  Holds(w \o b, start, obj)
<1>1. Len(w) \in Nat /\ \A k \in 1 .. Len(w) : (w \o b)[k] = w[k]
  BY SeqConcat
<1> QED BY <1>1 DEF Holds

LEMMA HoldsWritten ==
  ASSUME NEW w, NEW b, IsSeq(w), IsSeq(b), NEW obj, obj.size \in Nat,
         Len(b) <= obj.size, \A k \in 1 .. Len(b) : b[k] = [obj |-> obj, at |-> k]
  PROVE  Holds(w \o b, Len(w), obj)
<1>1. /\ Len(w) \in Nat /\ Len(b) \in Nat /\ Len(w \o b) = Len(w) + Len(b)
      /\ \A k \in 1 .. Len(b) : (w \o b)[Len(w) + k] = b[k]
  BY SeqConcat
<1> QED BY <1>1 DEF Holds

LEMMA HoldsBeyond ==
  ASSUME NEW w, NEW start \in Nat, NEW obj, obj.size \in Nat, Len(w) \in Nat,
         Len(w) <= start
  PROVE  Holds(w, start, obj)
  BY DEF Holds

\* Everything of record i is within the first size cells.
LEMMA RecordKept ==
  ASSUME NEW c, NEW n, Measured(c, n), NEW w, NEW b, IsSeq(w), IsSeq(b), NEW i \in Nat,
         HasRecord(c, n, i), RecordLaid(c, n, w, i), RecordEnd(c, n, i) <= Len(w)
  PROVE  RecordLaid(c, n, w \o b, i)
<1> DEFINE p == PrefixObj(RecordHave(c, n, i) + TagLen)
           r == RecordObj(ReferenceRecord(c, n, i), RecordHave(c, n, i))
           at == RecordStart(c, i)
<1>1. /\ at \in Nat /\ RecordHave(c, n, i) \in Nat
      /\ PrefixLen \in Nat /\ TagLen \in Nat /\ Len(w) \in Nat
  <2>1. Len(w) \in Nat
    BY SeqConcat
  <2>2. c.chunkSize \in Nat
    BY DEF Measured
  <2> QED BY <2>1, <2>2, Geometry, LengthAssumption
<1>2. p.size = PrefixLen /\ r.size = RecordHave(c, n, i) + TagLen
  BY ObjectSizes
<1>3. Holds(w, at, p) /\ Holds(w, at + PrefixLen, r)
  BY DEF RecordLaid
<1>4. RecordEnd(c, n, i) = at + PrefixLen + RecordHave(c, n, i) + TagLen
  BY DEF RecordEnd
<1> HIDE DEF p, r, at
<1>5. Holds(w \o b, at, p)
  BY <1>1, <1>2, <1>3, <1>4, HoldsKept
<1>6. Holds(w \o b, at + PrefixLen, r)
  <2>1. at + PrefixLen \in Nat /\ at + PrefixLen + r.size <= Len(w) /\ r.size \in Nat
    BY <1>1, <1>2, <1>4
  <2> QED BY <1>3, <2>1, HoldsKept
<1> QED BY <1>5, <1>6 DEF RecordLaid, p, r, at

LEMMA RecordBeyond ==
  ASSUME NEW c, NEW n, Measured(c, n), NEW w, IsSeq(w), NEW i \in Nat,
         HasRecord(c, n, i), Len(w) <= RecordStart(c, i)
  PROVE  RecordLaid(c, n, w, i) /\ Len(w) <= RecordEnd(c, n, i)
<1> DEFINE p == PrefixObj(RecordHave(c, n, i) + TagLen)
           r == RecordObj(ReferenceRecord(c, n, i), RecordHave(c, n, i))
           at == RecordStart(c, i)
<1>1. /\ at \in Nat /\ RecordHave(c, n, i) \in Nat
      /\ PrefixLen \in Nat /\ TagLen \in Nat /\ Len(w) \in Nat
  <2>1. Len(w) \in Nat
    BY SeqConcat
  <2>2. c.chunkSize \in Nat
    BY DEF Measured
  <2> QED BY <2>1, <2>2, Geometry, LengthAssumption
<1>2. p.size = PrefixLen /\ r.size = RecordHave(c, n, i) + TagLen
  BY ObjectSizes
<1>3. RecordEnd(c, n, i) = at + PrefixLen + RecordHave(c, n, i) + TagLen
  BY DEF RecordEnd
<1>4. Len(w) <= at
  OBVIOUS
<1>9. Len(w) <= RecordEnd(c, n, i)
  BY <1>1, <1>3, <1>4
<1> HIDE DEF p, r, at
<1>5. Holds(w, at, p)
  BY <1>1, <1>2, <1>4, HoldsBeyond
<1>6. Holds(w, at + PrefixLen, r)
  <2>1. at + PrefixLen \in Nat /\ Len(w) <= at + PrefixLen /\ r.size \in Nat
    BY <1>1, <1>2, <1>4
  <2> QED BY <1>1, <2>1, HoldsBeyond
<1> QED BY <1>5, <1>6, <1>9 DEF RecordLaid, p, r, at

\* The header, or as much of it as a failing Write got through.
LEMMA LaidHeader ==
  ASSUME NEW c, NEW n, Measured(c, n), NEW w, IsSeq(w), Len(w) <= Len(c.header),
         \A k \in 1 .. Len(w) : w[k] = c.header[k]
  PROVE  LaidOut(c, n, w)
<1> DEFINE h == Len(c.header)
<1>1. h \in Nat /\ Len(w) \in Nat /\ Len(w) <= h /\ n \in Nat
  BY SeqConcat DEF Measured
<1>2. \A k \in 1 .. h : k <= Len(w) => w[k] = c.header[k]
  <2> HIDE DEF h
  <2> QED BY <1>1
<1>3. ASSUME NEW i \in 0 .. n, HasRecord(c, n, i)
      PROVE  RecordLaid(c, n, w, i) /\ Len(w) <= RecordEnd(c, n, i)
  <2>1. i \in Nat
    BY <1>1
  <2>2. h <= RecordStart(c, i) /\ RecordStart(c, i) \in Nat
    BY <2>1, Geometry
  <2>3. Len(w) <= RecordStart(c, i)
    <3> HIDE DEF h
    <3> QED BY <1>1, <2>2
  <2> QED BY <1>3, <2>1, <2>3, RecordBeyond
<1> QED BY <1>2, <1>3 DEF LaidOut

\* The records before and after record i while it is being written.
LEMMA OthersLaid ==
  ASSUME NEW c, NEW n, Measured(c, n), NEW w, NEW b, IsSeq(w), IsSeq(b),
         NEW i \in Nat, HasRecord(c, n, i), LaidOut(c, n, w),
         RecordStart(c, i) <= Len(w), Len(w \o b) <= RecordEnd(c, n, i),
         RecordLaid(c, n, w \o b, i)
  PROVE  Len(c.header) <= Len(w) => LaidOut(c, n, w \o b)
<1>1. /\ Len(w) \in Nat /\ Len(b) \in Nat /\ Len(w \o b) \in Nat /\ IsSeq(w \o b)
      /\ \A k \in 1 .. Len(w) : (w \o b)[k] = w[k]
  BY SeqConcat
<1>2. /\ RecordStart(c, i) \in Nat /\ RecordEnd(c, n, i) \in Nat
      /\ RecordEnd(c, n, i) <= RecordStart(c, i + 1)
      /\ RecordStart(c, i + 1) \in Nat
  BY Geometry, i + 1 \in Nat
<1>3. ASSUME NEW j \in 0 .. n, HasRecord(c, n, j)
      PROVE  /\ RecordLaid(c, n, w \o b, j)
             /\ HasRecord(c, n, j + 1) \/ Len(w \o b) <= RecordEnd(c, n, j)
  <2>0. j \in Nat
    BY DEF Measured
  <2>1. CASE j = i
    BY <2>1
  <2>2. CASE j < i
    <3>1. /\ RecordStart(c, j + 1) <= RecordStart(c, i) /\ HasRecord(c, n, j + 1)
          /\ RecordEnd(c, n, j) <= RecordStart(c, j + 1)
          /\ RecordEnd(c, n, j) \in Nat /\ RecordStart(c, j + 1) \in Nat
      BY <1>3, <2>0, <2>2, Geometry, InOrder, j + 1 \in Nat
    <3>2. RecordEnd(c, n, j) <= Len(w)
      BY <1>1, <1>2, <3>1
    <3>3. RecordLaid(c, n, w, j)
      BY <1>3 DEF LaidOut
    <3> QED BY <1>3, <2>0, <3>1, <3>2, <3>3, RecordKept
  <2>3. CASE i < j
    <3>1. RecordStart(c, i + 1) <= RecordStart(c, j) /\ RecordStart(c, j) \in Nat
      BY <2>0, <2>3, Geometry, InOrder
    <3>2. Len(w \o b) <= RecordStart(c, j)
      BY <1>1, <1>2, <3>1
    <3> QED BY <1>1, <1>3, <2>0, <3>2, RecordBeyond
  <2> QED BY <2>0, <2>1, <2>2, <2>3
<1>4. ASSUME Len(c.header) <= Len(w), NEW k \in 1 .. Len(c.header)
      PROVE  (w \o b)[k] = c.header[k]
  <2>1. PICK h \in Nat : h = Len(c.header)
    BY DEF Measured
  <2>2. h <= Len(w) /\ k \in 1 .. h
    BY <1>4, <2>1, Zenon
  <2>3. k \in 1 .. Len(w) /\ k <= Len(w)
    BY <1>1, <2>2
  <2>4. w[k] = c.header[k]
    BY <1>4, <2>3, Zenon DEF LaidOut
  <2> QED BY <1>1, <2>3, <2>4
<1> QED BY <1>3, <1>4, Zenon DEF LaidOut

LEMMA LaidPrefix ==
  ASSUME NEW c, NEW n, Measured(c, n), NEW w, NEW b, IsSeq(w), IsSeq(b),
         NEW i \in Nat, HasRecord(c, n, i), LaidOut(c, n, w), Len(w) = RecordStart(c, i),
         Len(b) <= PrefixLen,
         \A k \in 1 .. Len(b) :
           b[k] = [obj |-> PrefixObj(RecordHave(c, n, i) + TagLen), at |-> k]
  PROVE  LaidOut(c, n, w \o b)
<1> DEFINE p == PrefixObj(RecordHave(c, n, i) + TagLen)
           r == RecordObj(ReferenceRecord(c, n, i), RecordHave(c, n, i))
           at == RecordStart(c, i)
           have == RecordHave(c, n, i)
<1>1. p.size = PrefixLen /\ r.size = have + TagLen
  BY ObjectSizes
<1>2. at \in Nat /\ have \in Nat /\ PrefixLen \in Nat /\ TagLen \in Nat
  <2>1. c.chunkSize \in Nat
    BY DEF Measured
  <2> QED BY <2>1, Geometry, LengthAssumption
<1>3. /\ Len(w) \in Nat /\ Len(b) \in Nat /\ Len(w \o b) = Len(w) + Len(b) /\ IsSeq(w \o b)
  BY SeqConcat
<1>4. /\ RecordEnd(c, n, i) = at + PrefixLen + have + TagLen
      /\ Len(w) = at /\ Len(b) <= PrefixLen
      /\ \A k \in 1 .. Len(b) : b[k] = [obj |-> p, at |-> k]
  BY DEF RecordEnd
<1>5. RecordLaid(c, n, w \o b, i) <=> Holds(w \o b, at, p) /\ Holds(w \o b, at + PrefixLen, r)
  BY DEF RecordLaid
<1>6. Len(c.header) <= at
  BY Geometry
<1> HIDE DEF p, r, at, have
<1>7. Holds(w \o b, at, p)
  BY <1>1, <1>2, <1>4, HoldsWritten
<1>8. Holds(w \o b, at + PrefixLen, r)
  <2> DEFINE l == Len(w \o b)  m == Len(b)
  <2>1. at + PrefixLen \in Nat /\ r.size \in Nat /\ l \in Nat /\ l <= at + PrefixLen
    <3>1. m \in Nat /\ m <= PrefixLen /\ l = at + m
      BY <1>3, <1>4
    <3> HIDE DEF l, m
    <3> QED BY <3>1, <1>1, <1>2
  <2> QED BY <2>1, HoldsBeyond
<1>9. Len(w \o b) <= RecordEnd(c, n, i)
  BY <1>2, <1>3, <1>4
<1>10. RecordStart(c, i) <= Len(w)
  BY <1>2, <1>4 DEF at
<1>11. Len(c.header) <= Len(w)
  BY <1>4, <1>6, Zenon
<1> QED BY <1>5, <1>7, <1>8, <1>9, <1>10, <1>11, OthersLaid

LEMMA LaidRecord ==
  ASSUME NEW c, NEW n, Measured(c, n), NEW w, NEW b, IsSeq(w), IsSeq(b),
         NEW i \in Nat, HasRecord(c, n, i), LaidOut(c, n, w),
         Len(w) = RecordStart(c, i) + PrefixLen,
         Len(b) <= RecordHave(c, n, i) + TagLen,
         \A k \in 1 .. Len(b) :
           b[k] = [obj |-> RecordObj(ReferenceRecord(c, n, i), RecordHave(c, n, i)), at |-> k]
  PROVE  LaidOut(c, n, w \o b)
<1> DEFINE p == PrefixObj(RecordHave(c, n, i) + TagLen)
           r == RecordObj(ReferenceRecord(c, n, i), RecordHave(c, n, i))
           at == RecordStart(c, i)
           have == RecordHave(c, n, i)
<1>1. p.size = PrefixLen /\ r.size = have + TagLen
  BY ObjectSizes
<1>2. at \in Nat /\ have \in Nat /\ PrefixLen \in Nat /\ TagLen \in Nat /\ i \in 0 .. n
  <2>1. c.chunkSize \in Nat
    BY DEF Measured
  <2> QED BY <2>1, Geometry, LengthAssumption
<1>3. /\ Len(w) \in Nat /\ Len(b) \in Nat /\ Len(w \o b) = Len(w) + Len(b) /\ IsSeq(w \o b)
  BY SeqConcat
<1>4. /\ RecordEnd(c, n, i) = at + PrefixLen + have + TagLen
      /\ Len(w) = at + PrefixLen /\ Len(b) <= have + TagLen
      /\ \A k \in 1 .. Len(b) : b[k] = [obj |-> r, at |-> k]
  BY DEF RecordEnd
<1>5. RecordLaid(c, n, w \o b, i) <=> Holds(w \o b, at, p) /\ Holds(w \o b, at + PrefixLen, r)
  BY DEF RecordLaid
<1>6. Len(c.header) <= at
  BY Geometry
<1>7. Holds(w, at, p)
  BY <1>2 DEF LaidOut, RecordLaid
<1> HIDE DEF p, r, at, have
<1>8. Holds(w \o b, at, p)
  <2>1. p.size \in Nat /\ at + p.size <= Len(w)
    BY <1>1, <1>2, <1>4
  <2> QED BY <1>2, <1>7, <2>1, HoldsKept
<1>9. Holds(w \o b, at + PrefixLen, r)
  <2>1. r.size \in Nat /\ Len(b) <= r.size
    BY <1>1, <1>2, <1>4
  <2>2. Holds(w \o b, Len(w), r)
    BY <1>4, <2>1, HoldsWritten
  <2> QED BY <1>4, <2>2, Zenon
<1>10. Len(w \o b) <= RecordEnd(c, n, i)
  BY <1>2, <1>3, <1>4
<1>11. RecordStart(c, i) <= Len(w)
  BY <1>2, <1>4 DEF at
<1>12. Len(c.header) <= Len(w)
  <2>1. PICK h \in Nat : h = Len(c.header)
    BY DEF Measured
  <2>2. h <= at
    BY <1>6, <2>1, Zenon
  <2>3. h <= Len(w)
    BY <1>2, <1>4, <2>2
  <2> QED BY <2>1, <2>3, Zenon
<1> QED BY <1>5, <1>8, <1>9, <1>10, <1>11, <1>12, OthersLaid

-----------------------------------------------------------------------------
\* The envelope in the header of an ML-KEM call.
Envelope(c) ==
  wrapCEK(PublicKeyFromSeed(c.recipient, c.suiteID), c.suiteID, c.cek,
          buildCEKWrapAAD(c.suiteID, c.streamID), c.streamID)

KEMPart(c) == IF isMLKEM(c.suiteID) THEN serializeKEMHeader(Envelope(c)) ELSE <<>>

\* The chunkCrypto of call s after the checks of its entry point.
Prepared(c, s) ==
  /\ c.suiteID \in Suites /\ validChunkSize(c.chunkSize) /\ c.chunkSize \in Nat \ {0}
  /\ c.streamID = s
  /\ c.alg = chunkAEADForSuite(c.suiteID)
  /\ c.messageKey = deriveMessageKey(s, c.cek, c.suiteID, s)
  /\ "badLength" \notin DOMAIN c.cek
  /\ c.header = Cells(HeaderObj(writeFixedHeader(c.suiteID, c.chunkSize, s, s))) \o KEMPart(c)

\* What call s has sealed so far.
SealedAll(s) ==
  /\ isMLKEM(crypto[s].suiteID) => Envelope(crypto[s]).wrapped \in sealed
  /\ \A j \in Nat : j < index[s] => ReferenceRecord(crypto[s], plain[s], j) \in sealed

\* The chunk about to be sealed, or sealed and being written, is that of the
\* record at index.
AtRecord(s) ==
  /\ HasRecord(crypto[s], plain[s], index[s])
  /\ current[s] = Chunk(s, index[s] * crypto[s].chunkSize,
                        RecordHave(crypto[s], plain[s], index[s]))

\* The record is sealed, and the chunk read ahead is that of the one after it.
ReadAhead(s) ==
  /\ record[s] = ReferenceRecord(crypto[s], plain[s], index[s])
  /\ record[s] \in sealed
  /\ HasRecord(crypto[s], plain[s], index[s] + 1) =>
       /\ next[s] = Chunk(s, (index[s] + 1) * crypto[s].chunkSize,
                          RecordHave(crypto[s], plain[s], index[s] + 1))
       /\ taken[s] = (index[s] + 1) * crypto[s].chunkSize
                       + RecordHave(crypto[s], plain[s], index[s] + 1)

\* How much is written, by where the call is.
Written(s) ==
  /\ wpc[s] \in {"idle", "header"} => wire[s] = <<>>
  /\ wpc[s] = "first" => Len(wire[s]) = Len(crypto[s].header)
  /\ wpc[s] \in {"next", "prefix"} => Len(wire[s]) = RecordStart(crypto[s], index[s])
  /\ wpc[s] = "record" => Len(wire[s]) = RecordStart(crypto[s], index[s]) + PrefixLen
  /\ wpc[s] = "ok" =>
       \E i \in Nat :
         /\ index[s] = i + 1
         /\ HasRecord(crypto[s], plain[s], i) /\ ~HasRecord(crypto[s], plain[s], i + 1)
         /\ Len(wire[s]) = RecordEnd(crypto[s], plain[s], i)

Stage(s) ==
  /\ IsSeq(wire[s])
  /\ wpc[s] \in Running => Prepared(crypto[s], s) /\ SealedAll(s)
  /\ wpc[s] \in Running \/ wire[s] # <<>> => LaidOut(crypto[s], plain[s], wire[s])
  /\ wpc[s] \in {"next", "prefix", "record"} => AtRecord(s)
  /\ wpc[s] = "next" =>
       taken[s] = index[s] * crypto[s].chunkSize + RecordHave(crypto[s], plain[s], index[s])
  /\ wpc[s] \in {"prefix", "record"} => ReadAhead(s)
  /\ Written(s)

\* Inductive together with WriterInv, for sources without empty reads.
LayoutInv ==
  /\ DOMAIN wire = Streams
  /\ \A s \in Streams : Stage(s)

LEMMA EmptyIsSeq == IsSeq(<<>>) /\ Len(<<>>) = 0
  BY DEF IsSeq

\* Something whole at the end of a sequence, and what it leaves alone.
LEMMA HoldsLast ==
  ASSUME NEW w, IsSeq(w), NEW obj, obj.size \in Nat
  PROVE  /\ IsSeq(w \o Cells(obj)) /\ Len(w) \in Nat
         /\ Len(w \o Cells(obj)) = Len(w) + obj.size
         /\ Holds(w \o Cells(obj), Len(w), obj)
         /\ \A start \in Nat : \A other :
              /\ other.size \in Nat /\ Holds(w, start, other)
              /\ start + other.size <= Len(w)
              => Holds(w \o Cells(obj), start, other)
<1>1. /\ IsSeq(Cells(obj)) /\ Len(Cells(obj)) = obj.size
      /\ \A k \in 1 .. obj.size : Cells(obj)[k] = [obj |-> obj, at |-> k]
  BY CellsSeq
<1>2. Holds(w \o Cells(obj), Len(w), obj)
  BY <1>1, HoldsWritten
<1>3. IsSeq(w \o Cells(obj)) /\ Len(w) \in Nat /\ Len(w \o Cells(obj)) = Len(w) + Len(Cells(obj))
  BY <1>1, SeqConcat
<1>4. ASSUME NEW start \in Nat, NEW other, other.size \in Nat, Holds(w, start, other),
             start + other.size <= Len(w)
      PROVE  Holds(w \o Cells(obj), start, other)
  BY <1>1, <1>4, HoldsKept
<1> QED BY <1>1, <1>2, <1>3, <1>4, Zenon

\* The five fields of an envelope lie one after the other.
EnvelopeLaid(cells, from, env) ==
  LET k == KEMCtLen[env.ek.suite]
  IN /\ Holds(cells, from, PrefixObj(k))
     /\ Holds(cells, from + PrefixLen, EncapsulatedKeyObj(env.ek))
     /\ Holds(cells, from + PrefixLen + k, NonceObj(env.nonce))
     /\ Holds(cells, from + PrefixLen + k + NonceLen, PrefixObj(CEKLen + TagLen))
     /\ Holds(cells, from + PrefixLen + k + NonceLen + PrefixLen,
              RecordObj(env.wrapped, CEKLen))

LEMMA EnvelopeSizes ==
  ASSUME NEW env, env.ek.suite \in KEMSuites
  PROVE  /\ PrefixLen \in Nat /\ KEMCtLen[env.ek.suite] \in Nat /\ NonceLen \in Nat
         /\ CEKLen \in Nat /\ TagLen \in Nat
         /\ PrefixObj(KEMCtLen[env.ek.suite]).size = PrefixLen
         /\ EncapsulatedKeyObj(env.ek).size = KEMCtLen[env.ek.suite]
         /\ NonceObj(env.nonce).size = NonceLen
         /\ PrefixObj(CEKLen + TagLen).size = PrefixLen
         /\ RecordObj(env.wrapped, CEKLen).size = CEKLen + TagLen
<1>1. /\ PrefixLen \in Nat /\ KEMCtLen[env.ek.suite] \in Nat /\ NonceLen \in Nat
      /\ CEKLen \in Nat /\ TagLen \in Nat
  BY LengthAssumption
<1>2. /\ PrefixObj(KEMCtLen[env.ek.suite]).size = PrefixLen
      /\ EncapsulatedKeyObj(env.ek).size = KEMCtLen[env.ek.suite]
      /\ NonceObj(env.nonce).size = NonceLen
      /\ PrefixObj(CEKLen + TagLen).size = PrefixLen
      /\ RecordObj(env.wrapped, CEKLen).size = CEKLen + TagLen
  BY DEF PrefixObj, EncapsulatedKeyObj, NonceObj, RecordObj
<1> QED BY <1>1, <1>2

LEMMA EnvelopeSeq ==
  ASSUME NEW env, env.ek.suite \in KEMSuites
  PROVE  /\ IsSeq(serializeKEMHeader(env))
         /\ Len(serializeKEMHeader(env)) =
              PrefixLen + KEMCtLen[env.ek.suite] + NonceLen + PrefixLen + (CEKLen + TagLen)
         /\ EnvelopeLaid(serializeKEMHeader(env), 0, env)
<1> DEFINE k == KEMCtLen[env.ek.suite]
           a == PrefixObj(k)
           b == EncapsulatedKeyObj(env.ek)
           d == NonceObj(env.nonce)
           e == PrefixObj(CEKLen + TagLen)
           f == RecordObj(env.wrapped, CEKLen)
           w1 == Cells(a)
           w2 == w1 \o Cells(b)
           w3 == w2 \o Cells(d)
           w4 == w3 \o Cells(e)
           w5 == w4 \o Cells(f)
<1>1. /\ PrefixLen \in Nat /\ k \in Nat /\ NonceLen \in Nat
      /\ CEKLen \in Nat /\ TagLen \in Nat
      /\ a.size = PrefixLen /\ b.size = k /\ d.size = NonceLen /\ e.size = PrefixLen
      /\ f.size = CEKLen + TagLen
  BY EnvelopeSizes
<1>2. serializeKEMHeader(env) = w5
  BY DEF serializeKEMHeader
<1>3. EnvelopeLaid(w5, 0, env) <=>
        /\ Holds(w5, 0, a) /\ Holds(w5, 0 + PrefixLen, b)
        /\ Holds(w5, 0 + PrefixLen + k, d) /\ Holds(w5, 0 + PrefixLen + k + NonceLen, e)
        /\ Holds(w5, 0 + PrefixLen + k + NonceLen + PrefixLen, f)
  BY DEF EnvelopeLaid
<1>4. IsSeq(w1) /\ Len(w1) = PrefixLen /\ Holds(w1, 0, a)
  <2>1. /\ IsSeq(Cells(a)) /\ Len(Cells(a)) = a.size
        /\ \A j \in 1 .. a.size : Cells(a)[j] = [obj |-> a, at |-> j]
    BY <1>1, CellsSeq
  <2> HIDE DEF a
  <2> QED BY <1>1, <2>1 DEF Holds
<1> HIDE DEF k, a, b, d, e, f, w1
<1>5. /\ IsSeq(w2) /\ Len(w2) = PrefixLen + k
      /\ Holds(w2, 0, a) /\ Holds(w2, PrefixLen, b)
  <2>1. /\ IsSeq(w2) /\ Len(w2) = Len(w1) + b.size /\ Holds(w2, Len(w1), b)
        /\ 0 + a.size <= Len(w1) => Holds(w2, 0, a)
    BY <1>1, <1>4, HoldsLast
  <2> HIDE DEF w2
  <2> QED BY <1>1, <1>4, <2>1
<1> HIDE DEF w2
<1>6. /\ IsSeq(w3) /\ Len(w3) = PrefixLen + k + NonceLen
      /\ Holds(w3, 0, a) /\ Holds(w3, PrefixLen, b) /\ Holds(w3, PrefixLen + k, d)
  <2>1. /\ IsSeq(w3) /\ Len(w3) = Len(w2) + d.size /\ Holds(w3, Len(w2), d)
        /\ 0 + a.size <= Len(w2) => Holds(w3, 0, a)
        /\ PrefixLen + b.size <= Len(w2) => Holds(w3, PrefixLen, b)
    BY <1>1, <1>5, HoldsLast
  <2> HIDE DEF w3
  <2> QED BY <1>1, <1>5, <2>1
<1> HIDE DEF w3
<1>7. /\ IsSeq(w4) /\ Len(w4) = PrefixLen + k + NonceLen + PrefixLen
      /\ Holds(w4, 0, a) /\ Holds(w4, PrefixLen, b) /\ Holds(w4, PrefixLen + k, d)
      /\ Holds(w4, PrefixLen + k + NonceLen, e)
  <2>0. PrefixLen + k \in Nat
    BY <1>1
  <2>1. /\ IsSeq(w4) /\ Len(w4) = Len(w3) + e.size /\ Holds(w4, Len(w3), e)
        /\ 0 + a.size <= Len(w3) => Holds(w4, 0, a)
        /\ PrefixLen + b.size <= Len(w3) => Holds(w4, PrefixLen, b)
        /\ PrefixLen + k + d.size <= Len(w3) => Holds(w4, PrefixLen + k, d)
    BY <1>1, <1>6, <2>0, HoldsLast
  <2> HIDE DEF w4
  <2> QED BY <1>1, <1>6, <2>1
<1> HIDE DEF w4
<1>8. /\ IsSeq(w5) /\ Len(w5) = PrefixLen + k + NonceLen + PrefixLen + (CEKLen + TagLen)
      /\ Holds(w5, 0, a) /\ Holds(w5, PrefixLen, b) /\ Holds(w5, PrefixLen + k, d)
      /\ Holds(w5, PrefixLen + k + NonceLen, e)
      /\ Holds(w5, PrefixLen + k + NonceLen + PrefixLen, f)
  <2>0. PrefixLen + k \in Nat /\ PrefixLen + k + NonceLen \in Nat /\ f.size \in Nat
    BY <1>1
  <2>1. /\ IsSeq(w5) /\ Len(w5) = Len(w4) + f.size /\ Holds(w5, Len(w4), f)
        /\ 0 + a.size <= Len(w4) => Holds(w5, 0, a)
        /\ PrefixLen + b.size <= Len(w4) => Holds(w5, PrefixLen, b)
        /\ PrefixLen + k + d.size <= Len(w4) => Holds(w5, PrefixLen + k, d)
        /\ PrefixLen + k + NonceLen + e.size <= Len(w4) => Holds(w5, PrefixLen + k + NonceLen, e)
    BY <1>1, <1>7, <2>0, HoldsLast
  <2> HIDE DEF w5
  <2> QED BY <1>1, <1>7, <2>1
<1> HIDE DEF w5
<1>9. 0 + PrefixLen = PrefixLen
  BY <1>1
<1>10. EnvelopeLaid(w5, 0, env)
  BY <1>3, <1>8, <1>9, Zenon
<1>11. k = KEMCtLen[env.ek.suite]
  BY DEF k
<1> QED BY <1>2, <1>8, <1>10, <1>11, Zenon

LEMMA EnvelopeSuite ==
  ASSUME NEW c PROVE Envelope(c).ek.suite = c.suiteID
  BY DEF Envelope, wrapCEK

\* A header is a sequence that begins with the fixed header.
LEMMA PreparedHeader ==
  ASSUME NEW c, NEW s, Prepared(c, s)
  PROVE  /\ IsSeq(c.header) /\ IsSeq(KEMPart(c))
         /\ Len(c.header) = FixedHeaderLen + Len(KEMPart(c))
         /\ Len(KEMPart(c)) \in Nat /\ Len(c.header) \in Nat
<1> DEFINE h == HeaderObj(writeFixedHeader(c.suiteID, c.chunkSize, s, s))
<1>1. h.size = FixedHeaderLen /\ FixedHeaderLen \in Nat
  BY ObjectSizes, LengthAssumption
<1>2. IsSeq(Cells(h)) /\ Len(Cells(h)) = FixedHeaderLen
  BY <1>1, CellsSeq
<1>3. IsSeq(KEMPart(c))
  <2>1. CASE isMLKEM(c.suiteID)
    BY <2>1, EnvelopeSeq, EnvelopeSuite DEF KEMPart, isMLKEM
  <2>2. CASE ~isMLKEM(c.suiteID)
    BY <2>2, EmptyIsSeq DEF KEMPart
  <2> QED BY <2>1, <2>2
<1>4. c.header = Cells(h) \o KEMPart(c)
  BY DEF Prepared
<1> HIDE DEF h
<1>5. /\ IsSeq(c.header) /\ Len(KEMPart(c)) \in Nat
      /\ Len(c.header) = FixedHeaderLen + Len(KEMPart(c))
  <2> DEFINE x == Cells(h)
             y == KEMPart(c)
  <2>1. IsSeq(x) /\ IsSeq(y) /\ Len(x) = FixedHeaderLen /\ c.header = x \o y
    BY <1>2, <1>3, <1>4
  <2> HIDE DEF x, y
  <2>2. IsSeq(x \o y) /\ Len(y) \in Nat /\ Len(x \o y) = Len(x) + Len(y)
    BY <2>1, SeqConcat
  <2>3. IsSeq(c.header) /\ Len(y) \in Nat /\ Len(c.header) = FixedHeaderLen + Len(y)
    BY <2>1, <2>2, Zenon
  <2> QED BY <2>3, Zenon DEF y
<1>6. Len(c.header) \in Nat
  BY <1>5, SeqConcat
<1> QED BY <1>3, <1>5, <1>6

LEMMA PreparedMeasured ==
  ASSUME NEW c, NEW s, Prepared(c, s), NEW n \in Nat PROVE Measured(c, n)
  BY PreparedHeader DEF Prepared, Measured

LEMMA LayoutInit == WriterInit => LayoutInv
<1> SUFFICES ASSUME WriterInit PROVE LayoutInv
  OBVIOUS
<1>1. DOMAIN wire = Streams /\ \A s \in Streams : wire[s] = <<>> /\ wpc[s] = "idle"
  BY DEF WriterInit
<1> QED BY <1>1, EmptyIsSeq DEF LayoutInv, Stage, Running, Written

\* A call that does not move keeps its stage.
LEMMA StageKept ==
  ASSUME NEW t \in Streams, Stage(t), sealed \subseteq sealed', plain' = plain,
         wpc'[t] = wpc[t], index'[t] = index[t], taken'[t] = taken[t],
         current'[t] = current[t], next'[t] = next[t], record'[t] = record[t],
         crypto'[t] = crypto[t], wire'[t] = wire[t]
  PROVE  Stage(t)'
<1>1. plain'[t] = plain[t]
  OBVIOUS
<1>2. SealedAll(t) => SealedAll(t)'
  BY <1>1 DEF SealedAll
<1>3. /\ AtRecord(t) => AtRecord(t)'
      /\ ReadAhead(t) => ReadAhead(t)'
      /\ Written(t) => Written(t)'
  BY <1>1 DEF AtRecord, ReadAhead, Written
<1> QED BY <1>1, <1>2, <1>3 DEF Stage

\* A call that fails leaves a prefix of its container.
LEMMA StageFailed ==
  ASSUME NEW s \in Streams, wpc'[s] = "failed", IsSeq(wire'[s]),
         wire'[s] # <<>> => LaidOut(crypto'[s], plain'[s], wire'[s])
  PROVE  Stage(s)'
  BY DEF Stage, Running, Written

\* dst.Write added more to the container: all of bytes, or some of it when
\* it failed.
Adds(s, bytes, pc, more) ==
  /\ IsSeq(more) /\ Len(more) \in Nat /\ Len(bytes) \in Nat
  /\ Len(more) <= Len(bytes)
  /\ \A k \in 1 .. Len(more) : more[k] = bytes[k]
  /\ IsSeq(wire[s]) /\ IsSeq(wire[s] \o more)
  /\ Len(wire[s]) \in Nat /\ Len(wire[s] \o more) = Len(wire[s]) + Len(more)
  /\ wire'[s] = wire[s] \o more
  /\ DOMAIN wire' = Streams
  /\ \A t \in Streams \ {s} : wire'[t] = wire[t] /\ wpc'[t] = wpc[t]
  /\ wpc'[s] = "failed" \/ (wpc'[s] = pc /\ Len(more) = Len(bytes))

LEMMA WriteAdds ==
  ASSUME LayoutInv, wpc \in [Streams -> WriterPCs], NEW s \in Streams, NEW bytes,
         IsSeq(bytes), NEW pc, Write(s, bytes, pc)
  PROVE  \E more : Adds(s, bytes, pc, more)
<1>1. IsSeq(wire[s]) /\ DOMAIN wire = Streams /\ DOMAIN wpc = Streams
  BY DEF LayoutInv, Stage
<1>2. ASSUME NEW more, IsSeq(more), Len(more) <= Len(bytes),
             \A k \in 1 .. Len(more) : more[k] = bytes[k],
             wire' = [wire EXCEPT ![s] = @ \o more],
             \/ wpc' = [wpc EXCEPT ![s] = "failed"]
             \/ wpc' = [wpc EXCEPT ![s] = pc] /\ Len(more) = Len(bytes)
      PROVE  Adds(s, bytes, pc, more)
  <2>1. /\ IsSeq(wire[s] \o more) /\ Len(wire[s]) \in Nat /\ Len(more) \in Nat
        /\ Len(wire[s] \o more) = Len(wire[s]) + Len(more)
    BY <1>1, <1>2, SeqConcat
  <2>2. Len(bytes) \in Nat
    BY SeqConcat
  <2>3. /\ wire'[s] = wire[s] \o more /\ DOMAIN wire' = Streams
        /\ \A t \in Streams \ {s} : wire'[t] = wire[t]
    BY <1>1, <1>2, Zenon
  <2>4. /\ \A t \in Streams \ {s} : wpc'[t] = wpc[t]
        /\ wpc'[s] = "failed" \/ (wpc'[s] = pc /\ Len(more) = Len(bytes))
    <3>1. CASE wpc' = [wpc EXCEPT ![s] = "failed"]
      BY <1>1, <3>1
    <3>2. CASE wpc' = [wpc EXCEPT ![s] = pc] /\ Len(more) = Len(bytes)
      BY <1>1, <3>2
    <3> QED BY <1>2, <3>1, <3>2
  <2> QED BY <1>1, <1>2, <2>1, <2>2, <2>3, <2>4, Zenon DEF Adds
<1>3. CASE wire' = [wire EXCEPT ![s] = @ \o bytes] /\ wpc' = [wpc EXCEPT ![s] = pc]
  <2>1. Len(bytes) <= Len(bytes)
    <3>1. Len(bytes) \in Nat
      BY SeqConcat
    <3> QED BY <3>1
  <2> QED BY <1>2, <1>3, <2>1
<1>4. CASE /\ \E n \in 0 .. Len(bytes) : wire' = [wire EXCEPT ![s] = @ \o SubSeq(bytes, 1, n)]
           /\ wpc' = [wpc EXCEPT ![s] = "failed"]
  <2>1. PICK n \in 0 .. Len(bytes) : wire' = [wire EXCEPT ![s] = @ \o SubSeq(bytes, 1, n)]
    BY <1>4
  <2> DEFINE more == SubSeq(bytes, 1, n)
  <2>2. IsSeq(more) /\ Len(more) = n /\ \A k \in 1 .. n : more[k] = bytes[k]
    BY SeqInitial
  <2>3. Len(bytes) \in Nat
    BY SeqConcat
  <2>4. wire' = [wire EXCEPT ![s] = @ \o more]
    BY <2>1
  <2> HIDE DEF more
  <2>5. Len(more) <= Len(bytes) /\ \A k \in 1 .. Len(more) : more[k] = bytes[k]
    BY <2>2, <2>3
  <2> QED BY <1>2, <1>4, <2>2, <2>4, <2>5
<1> QED BY <1>3, <1>4 DEF Write

\* Reading one chunk ahead tells whether there is another record, and which.
LEMMA AheadOf ==
  ASSUME NEW c, NEW n, Measured(c, n), NEW i \in Nat, HasRecord(c, n, i), ~EmptyReads,
         NEW k \in readFullCounts(n - (i * c.chunkSize + RecordHave(c, n, i)), c.chunkSize)
  PROVE  /\ k = 0 <=> ~HasRecord(c, n, i + 1)
         /\ HasRecord(c, n, i + 1) =>
              /\ i * c.chunkSize + RecordHave(c, n, i) = (i + 1) * c.chunkSize
              /\ k = RecordHave(c, n, i + 1)
<1> DEFINE m == c.chunkSize
<1>1. m \in Nat \ {0} /\ n \in Nat
  BY DEF Measured
<1>2. /\ RecordHave(c, n, i) = IF m < n - i * m THEN m ELSE n - i * m
      /\ RecordHave(c, n, i + 1) = IF m < n - (i + 1) * m THEN m ELSE n - (i + 1) * m
  BY DEF RecordHave, Least
<1>3. /\ HasRecord(c, n, i) <=> i = 0 \/ i * m < n
      /\ HasRecord(c, n, i + 1) <=> i + 1 = 0 \/ (i + 1) * m < n
  BY DEF HasRecord
<1>4. k = LET a == n - (i * m + RecordHave(c, n, i)) IN IF a < m THEN a ELSE m
  BY DEF readFullCounts, Least
<1> HIDE DEF m
<1>5. PICK y \in Nat : y = i * m /\ (i + 1) * m = y + m
  BY <1>1, Multiples
<1>6. i = 0 => y = 0
  BY <1>1, <1>5
<1>7. /\ RecordHave(c, n, i) = IF m < n - y THEN m ELSE n - y
      /\ RecordHave(c, n, i + 1) = IF m < n - (y + m) THEN m ELSE n - (y + m)
      /\ HasRecord(c, n, i) <=> i = 0 \/ y < n
      /\ HasRecord(c, n, i + 1) <=> i + 1 = 0 \/ y + m < n
      /\ k = LET a == n - (y + RecordHave(c, n, i)) IN IF a < m THEN a ELSE m
  BY <1>2, <1>3, <1>4, <1>5, Zenon
<1>8. /\ k = 0 <=> ~HasRecord(c, n, i + 1)
      /\ HasRecord(c, n, i + 1) =>
           /\ y + RecordHave(c, n, i) = y + m
           /\ k = RecordHave(c, n, i + 1)
  BY <1>1, <1>6, <1>7
<1>9. i * m + RecordHave(c, n, i) = y + RecordHave(c, n, i) /\ (i + 1) * m = y + m
  BY <1>5, Zenon
<1>10. /\ k = 0 <=> ~HasRecord(c, n, i + 1)
       /\ HasRecord(c, n, i + 1) =>
            /\ i * m + RecordHave(c, n, i) = (i + 1) * m
            /\ k = RecordHave(c, n, i + 1)
  BY <1>8, <1>9, Zenon
<1> QED BY <1>10 DEF m

\* The first chunk is that of record 0.
LEMMA FirstChunk ==
  ASSUME NEW c, NEW n, Measured(c, n), ~EmptyReads,
         NEW k \in readFullCounts(n - 0, c.chunkSize)
  PROVE  /\ HasRecord(c, n, 0) /\ k = RecordHave(c, n, 0)
         /\ 0 * c.chunkSize = 0 /\ k \in Nat
<1> DEFINE m == c.chunkSize
<1>1. m \in Nat \ {0} /\ n \in Nat
  BY DEF Measured
<1>2. RecordHave(c, n, 0) = IF m < n - 0 * m THEN m ELSE n - 0 * m
  BY DEF RecordHave, Least
<1>3. HasRecord(c, n, 0)
  BY DEF HasRecord
<1>4. k = IF n - 0 < m THEN n - 0 ELSE m
  BY DEF readFullCounts, Least
<1>5. m = c.chunkSize
  OBVIOUS
<1> HIDE DEF m
<1>6. 0 * m = 0
  BY <1>1
<1>7. k = RecordHave(c, n, 0) /\ k \in Nat
  BY <1>1, <1>2, <1>4, <1>6
<1> QED BY <1>3, <1>5, <1>6, <1>7, Zenon

-----------------------------------------------------------------------------
\* The steps of a call keep its stage.  Every one assumes the invariants and
\* that the source gives no empty reads.
LEMMA StageEncrypt ==
  ASSUME WriterInv, LayoutInv, NEW s \in Streams, wpc[s] = "idle",
         wpc' = [wpc EXCEPT ![s] = "header"], NEW c,
         crypto' = [crypto EXCEPT ![s] = c], Prepared(c, s),
         sealed \subseteq sealed', isMLKEM(c.suiteID) => Envelope(c).wrapped \in sealed',
         UNCHANGED <<plain, taken, current, next, index, record, wire>>
  PROVE  LayoutInv'
<1>1. /\ crypto'[s] = c /\ wpc'[s] = "header" /\ wire'[s] = <<>> /\ index'[s] = 0
      /\ \A t \in Streams \ {s} : crypto'[t] = crypto[t] /\ wpc'[t] = wpc[t]
      /\ plain'[s] \in Nat
  BY DEF LayoutInv, Stage, Written, WriterInv, WTyping, WriterTypeOK, CallOK
<1>2. Measured(c, plain'[s])
  BY <1>1, PreparedMeasured
<1>3. LaidOut(c, plain'[s], <<>>)
  <2>1. IsSeq(<<>>) /\ Len(<<>>) = 0 /\ Len(c.header) \in Nat
    BY <1>2, EmptyIsSeq DEF Measured
  <2>2. Len(<<>>) <= Len(c.header)
    <3>1. PICK h \in Nat : h = Len(c.header)
      BY <2>1
    <3>2. 0 <= h
      OBVIOUS
    <3> QED BY <2>1, <3>1, <3>2, Zenon
  <2>3. \A k \in 1 .. Len(<<>>) : <<>>[k] = c.header[k]
    BY <2>1
  <2> QED BY <1>2, <2>1, <2>2, <2>3, LaidHeader
<1>4. Stage(s)'
  <2>1. SealedAll(s)'
    BY <1>1 DEF SealedAll
  <2> QED BY <1>1, <1>3, <2>1, EmptyIsSeq DEF Stage, Written
<1>5. ASSUME NEW t \in Streams \ {s} PROVE Stage(t)'
  BY <1>1, <1>5, StageKept DEF LayoutInv
<1> QED BY <1>4, <1>5 DEF LayoutInv

\* An entry point that refuses its arguments, or a read of the source that
\* fails.
LEMMA StageError ==
  ASSUME WriterInv, LayoutInv, NEW s \in Streams, wpc' = [wpc EXCEPT ![s] = "failed"],
         UNCHANGED <<crypto, plain, taken, current, next, index, record, wire, sealed>>
  PROVE  LayoutInv'
<1>1. /\ wpc'[s] = "failed"
      /\ \A t \in Streams \ {s} : wpc'[t] = wpc[t]
  BY DEF WriterInv, WTyping, WriterTypeOK
<1>2. Stage(s)'
  BY <1>1, StageFailed DEF LayoutInv, Stage
<1>3. ASSUME NEW t \in Streams \ {s} PROVE Stage(t)'
  BY <1>1, <1>3, StageKept DEF LayoutInv
<1> QED BY <1>2, <1>3 DEF LayoutInv

LEMMA StageHeader ==
  ASSUME WriterInv, LayoutInv, NEW s \in Streams, WriteHeader(s)
  PROVE  LayoutInv'
<1>1. /\ wpc[s] = "header" /\ Prepared(crypto[s], s) /\ SealedAll(s) /\ wire[s] = <<>>
      /\ plain[s] \in Nat /\ wpc \in [Streams -> WriterPCs]
  BY DEF WriteHeader, LayoutInv, Stage, Written, Running, WriterInv, WTyping, WriterTypeOK
<1>2. IsSeq(crypto[s].header) /\ Measured(crypto[s], plain[s])
  BY <1>1, PreparedHeader, PreparedMeasured
<1>3. PICK more : Adds(s, crypto[s].header, "first", more)
  BY <1>1, <1>2, WriteAdds DEF WriteHeader
<1>4. UNCHANGED <<crypto, plain, taken, current, next, index, record, sealed>>
  BY DEF WriteHeader
<1>5. /\ IsSeq(wire'[s]) /\ Len(wire'[s]) = Len(more)
      /\ \A k \in 1 .. Len(more) : wire'[s][k] = more[k]
  <2>1. wire'[s] = <<>> \o more /\ IsSeq(more)
    BY <1>1, <1>3, Zenon DEF Adds
  <2> QED BY <2>1, EmptyIsSeq, SeqConcat
<1>6. LaidOut(crypto[s], plain[s], wire'[s])
  <2>1. Len(wire'[s]) <= Len(crypto[s].header)
    BY <1>3, <1>5, Zenon DEF Adds
  <2>2. \A k \in 1 .. Len(wire'[s]) : wire'[s][k] = crypto[s].header[k]
    BY <1>3, <1>5, Zenon DEF Adds
  <2> QED BY <1>2, <1>5, <2>1, <2>2, LaidHeader
<1>7. Stage(s)'
  <2>1. CASE wpc'[s] = "failed"
    BY <1>4, <1>5, <1>6, <2>1, StageFailed
  <2>2. CASE wpc'[s] = "first" /\ Len(more) = Len(crypto[s].header)
    <3>1. SealedAll(s)'
      BY <1>1, <1>4 DEF SealedAll
    <3>2. Written(s)'
      BY <1>4, <1>5, <2>2 DEF Written
    <3> QED BY <1>1, <1>4, <1>5, <1>6, <2>2, <3>1, <3>2 DEF Stage
  <2> QED BY <1>3, <2>1, <2>2 DEF Adds
<1>8. ASSUME NEW t \in Streams \ {s} PROVE Stage(t)'
  BY <1>3, <1>4, <1>8, StageKept DEF LayoutInv, Adds
<1> QED BY <1>3, <1>7, <1>8 DEF LayoutInv, Adds

LEMMA StageFirst ==
  ASSUME WriterInv, LayoutInv, ~EmptyReads, NEW s \in Streams, ReadFirst(s)
  PROVE  LayoutInv'
<1>1. /\ wpc[s] = "first" /\ Prepared(crypto[s], s) /\ SealedAll(s) /\ IsSeq(wire[s])
      /\ LaidOut(crypto[s], plain[s], wire[s]) /\ Len(wire[s]) = Len(crypto[s].header)
      /\ taken[s] = 0 /\ index[s] = 0
      /\ plain[s] \in Nat /\ wpc \in [Streams -> WriterPCs]
      /\ taken \in [Streams -> Nat] /\ current \in [Streams -> Chunks]
  BY DEF ReadFirst, LayoutInv, Stage, Written, Running, WriterInv, WTyping, WriterTypeOK,
         CallOK
<1>2. Measured(crypto[s], plain[s])
  BY <1>1, PreparedMeasured
<1>3. PICK n \in readFullCounts(plain[s] - taken[s], crypto[s].chunkSize) :
        /\ ReadChunk(s, n)
        /\ current' = [current EXCEPT ![s] = Chunk(s, taken[s], n)]
  BY DEF ReadFirst
<1>4. /\ HasRecord(crypto[s], plain[s], 0) /\ n = RecordHave(crypto[s], plain[s], 0)
      /\ 0 * crypto[s].chunkSize = 0 /\ n \in Nat
  BY <1>1, <1>2, <1>3, FirstChunk
<1>5. /\ wpc'[s] = "next" /\ taken'[s] = 0 + n /\ current'[s] = Chunk(s, 0, n)
      /\ UNCHANGED <<crypto, plain, next, index, record, wire, sealed>>
      /\ \A t \in Streams \ {s} :
           wpc'[t] = wpc[t] /\ taken'[t] = taken[t] /\ current'[t] = current[t]
  BY <1>1, <1>3 DEF ReadFirst, ReadChunk
<1>6. AtRecord(s)'
  BY <1>1, <1>4, <1>5, Zenon DEF AtRecord
<1>7. taken'[s] = index'[s] * crypto'[s].chunkSize
                    + RecordHave(crypto'[s], plain'[s], index'[s])
  BY <1>1, <1>4, <1>5, Zenon
<1>8. Len(wire'[s]) = RecordStart(crypto'[s], index'[s])
  <2>1. RecordStart(crypto[s], 0) = Len(crypto[s].header)
    BY <1>2, Geometry
  <2> QED BY <1>1, <1>5, <2>1, Zenon
<1>9. SealedAll(s)'
  BY <1>1, <1>5 DEF SealedAll
<1>10. Stage(s)'
  BY <1>1, <1>5, <1>6, <1>7, <1>8, <1>9 DEF Stage, Written
<1>11. ASSUME NEW t \in Streams \ {s} PROVE Stage(t)'
  BY <1>5, <1>11, StageKept DEF LayoutInv
<1> QED BY <1>5, <1>10, <1>11 DEF LayoutInv

LEMMA StageNext ==
  ASSUME WriterInv, LayoutInv, ~EmptyReads, NEW s \in Streams, ReadNext(s)
  PROVE  LayoutInv'
<1> DEFINE c == crypto[s]
           i == index[s]
           have == RecordHave(c, plain[s], i)
<1>1. /\ wpc[s] = "next" /\ Prepared(c, s) /\ SealedAll(s) /\ IsSeq(wire[s])
      /\ LaidOut(c, plain[s], wire[s]) /\ Len(wire[s]) = RecordStart(c, i)
      /\ HasRecord(c, plain[s], i) /\ current[s] = Chunk(s, i * c.chunkSize, have)
      /\ AtRecord(s)
      /\ taken[s] = i * c.chunkSize + have
      /\ plain[s] \in Nat /\ wpc \in [Streams -> WriterPCs] /\ i \in Nat
      /\ taken \in [Streams -> Nat] /\ next \in [Streams -> Chunks]
      /\ DOMAIN record = Streams
  BY DEF ReadNext, LayoutInv, Stage, Written, AtRecord, Running, WriterInv, WTyping,
         WriterTypeOK
<1>2. Measured(c, plain[s])
  BY <1>1, PreparedMeasured
<1>3. PICK n \in readFullCounts(plain[s] - taken[s], c.chunkSize) :
        /\ ReadChunk(s, n)
        /\ next' = [next EXCEPT ![s] = Chunk(s, taken[s], n)]
        /\ record' = [record EXCEPT ![s] = SealChunk(s, current[s], n = 0)]
  BY DEF ReadNext
<1>4. /\ n = 0 <=> ~HasRecord(c, plain[s], i + 1)
      /\ HasRecord(c, plain[s], i + 1) =>
           /\ taken[s] = (i + 1) * c.chunkSize
           /\ n = RecordHave(c, plain[s], i + 1)
  <2>1. n \in readFullCounts(plain[s] - (i * c.chunkSize + have), c.chunkSize)
    BY <1>1, <1>3
  <2> HIDE DEF c, i
  <2>2. /\ n = 0 <=> ~HasRecord(c, plain[s], i + 1)
        /\ HasRecord(c, plain[s], i + 1) =>
             /\ i * c.chunkSize + have = (i + 1) * c.chunkSize
             /\ n = RecordHave(c, plain[s], i + 1)
    BY <1>1, <1>2, <2>1, AheadOf
  <2> QED BY <1>1, <2>2, Zenon
<1>5. /\ wpc'[s] = "prefix" /\ taken'[s] = taken[s] + n /\ next'[s] = Chunk(s, taken[s], n)
      /\ record'[s] = SealChunk(s, current[s], n = 0)
      /\ sealed' = sealed \cup {record'[s]}
      /\ UNCHANGED <<crypto, plain, current, index, wire>>
      /\ \A t \in Streams \ {s} :
           /\ wpc'[t] = wpc[t] /\ taken'[t] = taken[t] /\ next'[t] = next[t]
           /\ record'[t] = record[t]
  BY <1>1, <1>3 DEF ReadNext, ReadChunk
<1>6. record'[s] = ReferenceRecord(c, plain[s], i)
  <2>1. (n = 0) = ~HasRecord(c, plain[s], i + 1)
    BY <1>4
  <2>2. c.streamID = s
    BY <1>1 DEF Prepared
  <2>3. current[s].have = have
    BY <1>1 DEF Chunk
  <2>4. SealChunk(s, current[s], n = 0) =
          aeadSeal(c.alg, c.messageKey, chunkNonce(i), current[s],
            buildChunkAAD(c.suiteID, c.streamID, i, n = 0, current[s].have, c.chunkSize))
    BY DEF SealChunk
  <2> QED BY <1>1, <1>5, <2>1, <2>2, <2>3, <2>4, Zenon DEF ReferenceRecord
<1>7. ReadAhead(s)'
  <2>1. record'[s] \in sealed'
    BY <1>5
  <2>2. HasRecord(c, plain[s], i + 1) =>
          /\ next'[s] = Chunk(s, (i + 1) * c.chunkSize, RecordHave(c, plain[s], i + 1))
          /\ taken'[s] = (i + 1) * c.chunkSize + RecordHave(c, plain[s], i + 1)
    BY <1>4, <1>5, Zenon
  <2> QED BY <1>5, <1>6, <2>1, <2>2, Zenon DEF ReadAhead
<1>8. AtRecord(s)' /\ SealedAll(s)'
  BY <1>1, <1>5 DEF AtRecord, SealedAll
<1>9. Stage(s)'
  BY <1>1, <1>5, <1>7, <1>8 DEF Stage, Written
<1>10. ASSUME NEW t \in Streams \ {s} PROVE Stage(t)'
  <2>1. sealed \subseteq sealed'
    BY <1>5
  <2> QED BY <1>5, <1>10, <2>1, StageKept DEF LayoutInv
<1> QED BY <1>5, <1>9, <1>10 DEF LayoutInv

LEMMA StagePrefix ==
  ASSUME WriterInv, LayoutInv, NEW s \in Streams, WritePrefix(s)
  PROVE  LayoutInv'
<1> DEFINE c == crypto[s]
           i == index[s]
           have == RecordHave(c, plain[s], i)
           p == PrefixObj(have + TagLen)
<1>1. /\ wpc[s] = "prefix" /\ Prepared(c, s) /\ SealedAll(s) /\ IsSeq(wire[s])
      /\ LaidOut(c, plain[s], wire[s]) /\ Len(wire[s]) = RecordStart(c, i)
      /\ HasRecord(c, plain[s], i) /\ current[s] = Chunk(s, i * c.chunkSize, have)
      /\ AtRecord(s) /\ ReadAhead(s)
      /\ plain[s] \in Nat /\ wpc \in [Streams -> WriterPCs] /\ i \in Nat
  BY DEF WritePrefix, LayoutInv, Stage, Written, AtRecord, Running, WriterInv, WTyping,
         WriterTypeOK
<1>2. Measured(c, plain[s])
  BY <1>1, PreparedMeasured
<1>3. current[s].have = have
  BY <1>1 DEF Chunk
<1>4. /\ IsSeq(Cells(p)) /\ Len(Cells(p)) = PrefixLen
      /\ \A k \in 1 .. PrefixLen : Cells(p)[k] = [obj |-> p, at |-> k]
  <2>1. p.size = PrefixLen /\ PrefixLen \in Nat
    BY ObjectSizes, LengthAssumption
  <2> HIDE DEF p
  <2> QED BY <2>1, CellsSeq
<1>5. PICK more : Adds(s, Cells(p), "record", more)
  <2>1. Write(s, Cells(p), "record")
    BY <1>3 DEF WritePrefix
  <2> HIDE DEF p
  <2> QED BY <1>1, <1>4, <2>1, WriteAdds
<1>6. UNCHANGED <<crypto, plain, taken, current, next, index, record, sealed>>
  BY DEF WritePrefix
<1>7. LaidOut(c, plain[s], wire'[s])
  <2>1. /\ wire'[s] = wire[s] \o more /\ IsSeq(wire[s]) /\ IsSeq(more)
        /\ Len(more) \in Nat /\ Len(more) <= PrefixLen
        /\ \A k \in 1 .. Len(more) : more[k] = Cells(p)[k]
    BY <1>4, <1>5, Zenon DEF Adds
  <2>2. \A k \in 1 .. Len(more) : more[k] = [obj |-> p, at |-> k]
    <3>1. PrefixLen \in Nat
      BY LengthAssumption
    <3>2. \A k \in 1 .. Len(more) : k \in 1 .. PrefixLen
      BY <2>1, <3>1
    <3> QED BY <1>4, <2>1, <3>2, Zenon
  <2>3. LaidOut(c, plain[s], wire[s] \o more)
    <3> HIDE DEF c, i
    <3> QED BY <1>1, <1>2, <2>1, <2>2, LaidPrefix
  <2> QED BY <2>1, <2>3, Zenon
<1>8. Stage(s)'
  <2>0. IsSeq(wire'[s])
    BY <1>5, Zenon DEF Adds
  <2>1. CASE wpc'[s] = "failed"
    BY <1>6, <1>7, <2>0, <2>1, StageFailed
  <2>2. CASE wpc'[s] = "record" /\ Len(more) = Len(Cells(p))
    <3>1. SealedAll(s)' /\ AtRecord(s)' /\ ReadAhead(s)'
      BY <1>1, <1>6 DEF SealedAll, AtRecord, ReadAhead
    <3>2. Len(wire'[s]) = RecordStart(c, i) + PrefixLen
      BY <1>1, <1>4, <1>5, <2>2, Zenon DEF Adds
    <3>3. Written(s)'
      BY <1>6, <2>2, <3>2 DEF Written
    <3> QED BY <1>1, <1>6, <1>7, <2>0, <2>2, <3>1, <3>3 DEF Stage
  <2> QED BY <1>5, <2>1, <2>2 DEF Adds
<1>9. ASSUME NEW t \in Streams \ {s} PROVE Stage(t)'
  BY <1>5, <1>6, <1>9, StageKept DEF LayoutInv, Adds
<1> QED BY <1>5, <1>8, <1>9 DEF LayoutInv, Adds

LEMMA StageRecord ==
  ASSUME WriterInv, LayoutInv, NEW s \in Streams, WriteRecord(s)
  PROVE  LayoutInv'
<1> DEFINE c == crypto[s]
           i == index[s]
           have == RecordHave(c, plain[s], i)
           r == RecordObj(ReferenceRecord(c, plain[s], i), have)
           pc == IF record[s].aad.isFinal THEN "ok" ELSE "next"
<1>1. /\ wpc[s] = "record" /\ Prepared(c, s) /\ SealedAll(s) /\ IsSeq(wire[s])
      /\ LaidOut(c, plain[s], wire[s]) /\ Len(wire[s]) = RecordStart(c, i) + PrefixLen
      /\ HasRecord(c, plain[s], i) /\ current[s] = Chunk(s, i * c.chunkSize, have)
      /\ record[s] = ReferenceRecord(c, plain[s], i) /\ record[s] \in sealed
      /\ HasRecord(c, plain[s], i + 1) =>
           /\ next[s] = Chunk(s, (i + 1) * c.chunkSize, RecordHave(c, plain[s], i + 1))
           /\ taken[s] = (i + 1) * c.chunkSize + RecordHave(c, plain[s], i + 1)
      /\ plain[s] \in Nat /\ wpc \in [Streams -> WriterPCs] /\ i \in Nat
      /\ index \in [Streams -> Nat] /\ current \in [Streams -> Chunks]
  BY DEF WriteRecord, LayoutInv, Stage, Written, AtRecord, ReadAhead, Running, WriterInv,
         WTyping, WriterTypeOK
<1>2. Measured(c, plain[s])
  BY <1>1, PreparedMeasured
<1>3. /\ current[s].have = have /\ have \in Nat /\ TagLen \in Nat /\ PrefixLen \in Nat
      /\ record[s].aad.isFinal = ~HasRecord(c, plain[s], i + 1)
  <2>1. current[s].have = have
    BY <1>1 DEF Chunk
  <2>2. record[s].aad.isFinal = ~HasRecord(c, plain[s], i + 1)
    BY <1>1 DEF ReferenceRecord, aeadSeal, buildChunkAAD
  <2>3. c.chunkSize \in Nat
    BY <1>2 DEF Measured
  <2>4. have \in 0 .. c.chunkSize
    <3> HIDE DEF c, i
    <3> QED BY <1>1, <1>2, Geometry
  <2> QED BY <2>1, <2>2, <2>3, <2>4, LengthAssumption
<1>4. /\ IsSeq(Cells(r)) /\ Len(Cells(r)) = have + TagLen
      /\ \A k \in 1 .. have + TagLen : Cells(r)[k] = [obj |-> r, at |-> k]
  <2>1. r.size = have + TagLen
    BY ObjectSizes
  <2>2. r.size \in Nat
    BY <1>3, <2>1
  <2> HIDE DEF r, have
  <2> QED BY <2>1, <2>2, CellsSeq
<1>5. PICK more : Adds(s, Cells(r), pc, more)
  <2>1. Write(s, Cells(r), pc)
    BY <1>1, <1>3, Zenon DEF WriteRecord
  <2> HIDE DEF r, pc
  <2> QED BY <1>1, <1>4, <2>1, WriteAdds
<1>6. UNCHANGED <<crypto, plain, taken, next, record, sealed>>
  BY DEF WriteRecord
<1>7. LaidOut(c, plain[s], wire'[s])
  <2>1. /\ wire'[s] = wire[s] \o more /\ IsSeq(wire[s]) /\ IsSeq(more)
        /\ Len(more) \in Nat /\ Len(more) <= have + TagLen
        /\ \A k \in 1 .. Len(more) : more[k] = Cells(r)[k]
    BY <1>4, <1>5, Zenon DEF Adds
  <2>2. \A k \in 1 .. Len(more) : more[k] = [obj |-> r, at |-> k]
    <3>1. \A k \in 1 .. Len(more) : k \in 1 .. have + TagLen
      <4> HIDE DEF have
      <4> QED BY <1>3, <2>1
    <3> QED BY <1>4, <2>1, <3>1, Zenon
  <2>3. LaidOut(c, plain[s], wire[s] \o more)
    <3> HIDE DEF c, i
    <3> QED BY <1>1, <1>2, <2>1, <2>2, LaidRecord
  <2> QED BY <2>1, <2>3, Zenon
<1>8. pc = IF HasRecord(c, plain[s], i + 1) THEN "next" ELSE "ok"
  BY <1>3
<1>9. wpc'[s] # "failed" => Len(wire'[s]) = RecordEnd(c, plain[s], i) /\ wpc'[s] = pc
  <2>1. wpc'[s] # "failed" =>
          Len(wire'[s]) = RecordStart(c, i) + PrefixLen + (have + TagLen) /\ wpc'[s] = pc
    BY <1>1, <1>4, <1>5, Zenon DEF Adds
  <2>2. RecordEnd(c, plain[s], i) = RecordStart(c, i) + PrefixLen + have + TagLen
    BY DEF RecordEnd
  <2>3. RecordStart(c, i) \in Nat
    <3> HIDE DEF c, i
    <3> QED BY <1>1, <1>2, Geometry
  <2> HIDE DEF c, i, have, pc
  <2> QED BY <1>3, <2>1, <2>2, <2>3
<1>10. Stage(s)'
  <2>0. IsSeq(wire'[s])
    BY <1>5, Zenon DEF Adds
  <2>1. CASE wpc'[s] = "failed"
    BY <1>6, <1>7, <2>0, <2>1, StageFailed
  <2>2. ASSUME index'[s] = i + 1 PROVE SealedAll(s)'
    <3>1. \A j \in Nat : j < i + 1 => ReferenceRecord(c, plain[s], j) \in sealed
      <4>1. \A j \in Nat : j < i + 1 => j < i \/ j = i
        BY <1>1
      <4> QED BY <1>1, <4>1, Zenon DEF SealedAll
    <3> QED BY <1>1, <1>6, <2>2, <3>1 DEF SealedAll
  <2>3. CASE wpc'[s] = "ok"
    <3>1. index'[s] = i + 1 /\ ~HasRecord(c, plain[s], i + 1)
      BY <1>1, <1>8, <1>9, <2>3 DEF WriteRecord
    <3>2. Written(s)'
      BY <1>1, <1>6, <1>9, <2>3, <3>1 DEF Written
    <3> QED BY <1>1, <1>6, <1>7, <2>0, <2>2, <2>3, <3>1, <3>2 DEF Stage
  <2>4. CASE wpc'[s] = "next"
    <3>1. /\ index'[s] = i + 1 /\ HasRecord(c, plain[s], i + 1) /\ current'[s] = next[s]
      BY <1>1, <1>8, <1>9, <2>4 DEF WriteRecord
    <3>2. RecordEnd(c, plain[s], i) = RecordStart(c, i + 1)
      <4> HIDE DEF c, i
      <4> QED BY <1>1, <1>2, <3>1, Geometry
    <3>3. Written(s)'
      BY <1>6, <1>9, <2>4, <3>1, <3>2 DEF Written
    <3>4. AtRecord(s)'
      BY <1>1, <1>6, <3>1 DEF AtRecord
    <3>5. taken'[s] = index'[s] * crypto'[s].chunkSize
                        + RecordHave(crypto'[s], plain'[s], index'[s])
      BY <1>1, <1>6, <3>1, Zenon
    <3> QED BY <1>1, <1>6, <1>7, <2>0, <2>2, <2>4, <3>1, <3>3, <3>4, <3>5 DEF Stage
  <2> QED BY <1>8, <1>9, <2>1, <2>3, <2>4
<1>11. ASSUME NEW t \in Streams \ {s} PROVE Stage(t)'
  <2>1. index'[t] = index[t] /\ current'[t] = current[t]
    BY <1>1, <1>11 DEF WriteRecord
  <2>2. wire'[t] = wire[t] /\ wpc'[t] = wpc[t]
    BY <1>5, <1>11, Zenon DEF Adds
  <2> QED BY <1>6, <1>11, <2>1, <2>2, StageKept DEF LayoutInv
<1>12. DOMAIN wire' = Streams
  BY <1>5, Zenon DEF Adds
<1> QED BY <1>10, <1>11, <1>12 DEF LayoutInv

\* What the entry points prepare.
LEMMA PreparedAEAD ==
  ASSUME NEW s, NEW suite \in SuiteArgs, NEW size \in ChunkArgs, NEW cekArg,
         EncryptAEADError(suite, cekArg, size) = "", NEW to
  PROVE  LET c == CryptoFor(s, suite, chunkAEADForSuite(suite), size, cekArg, to, <<>>)
         IN Prepared(c, s) /\ ~isMLKEM(c.suiteID)
<1> DEFINE c == CryptoFor(s, suite, chunkAEADForSuite(suite), size, cekArg, to, <<>>)
<1>1. suite \in AEADSuites
  BY DEF EncryptAEADError
<1>2. suite \in Suites /\ ~isMLKEM(suite)
  BY <1>1 DEF Suites, AEADSuites, KEMSuites, isMLKEM
<1>3. validChunkSize(size) /\ size \in Nat \ {0}
  BY CheckedSize
<1>4. /\ c.suiteID = suite /\ c.chunkSize = size /\ c.streamID = s
      /\ c.cek = CEKOf(s, cekArg)
      /\ c.messageKey = deriveMessageKey(s, CEKOf(s, cekArg), suite, s)
  BY DEF CryptoFor
<1>5. /\ c.alg = chunkAEADForSuite(suite)
      /\ c.header = Cells(HeaderObj(writeFixedHeader(suite, size, s, s))) \o <<>>
  BY DEF CryptoFor
<1>6. "badLength" \notin DOMAIN CEKOf(s, cekArg)
  BY DEF CEKOf
<1>7. KEMPart(c) = <<>>
  BY <1>2, <1>4 DEF KEMPart
<1> HIDE DEF c
<1>8. Prepared(c, s)
  BY <1>2, <1>3, <1>4, <1>5, <1>6, <1>7, Zenon DEF Prepared
<1>9. ~isMLKEM(c.suiteID)
  BY <1>2, <1>4, Zenon
<1> QED BY <1>8, <1>9 DEF c

LEMMA PreparedMLKEM ==
  ASSUME NEW s, NEW suite \in SuiteArgs, NEW size \in ChunkArgs, NEW seed, NEW of,
         EncryptMLKEMError(suite, PublicKeyFromSeed(seed, of), size) = ""
  PROVE  LET public == PublicKeyFromSeed(seed, of)
             env == wrapCEK(public, suite, CEKOf(s, "generate"), buildCEKWrapAAD(suite, s), s)
             c == CryptoFor(s, suite, "AES256GCM", size, "generate", public.seed,
                            serializeKEMHeader(env))
         IN Prepared(c, s) /\ Envelope(c) = env
<1> DEFINE public == PublicKeyFromSeed(seed, of)
           env == wrapCEK(public, suite, CEKOf(s, "generate"), buildCEKWrapAAD(suite, s), s)
           c == CryptoFor(s, suite, "AES256GCM", size, "generate", public.seed,
                          serializeKEMHeader(env))
<1>1. isMLKEM(suite) /\ public.suite = suite
  BY DEF EncryptMLKEMError
<1>2. suite \in Suites /\ chunkAEADForSuite(suite) = "AES256GCM"
  BY <1>1 DEF Suites, KEMSuites, isMLKEM, chunkAEADForSuite
<1>3. validChunkSize(size) /\ size \in Nat \ {0}
  BY CheckedSize
<1>4. public = PublicKeyFromSeed(public.seed, suite)
  BY <1>1 DEF PublicKeyFromSeed
<1>5. /\ c.suiteID = suite /\ c.chunkSize = size /\ c.streamID = s
      /\ c.cek = CEKOf(s, "generate")
      /\ c.messageKey = deriveMessageKey(s, CEKOf(s, "generate"), suite, s)
  BY DEF CryptoFor
<1>6. /\ c.alg = "AES256GCM" /\ c.recipient = public.seed
      /\ c.header = Cells(HeaderObj(writeFixedHeader(suite, size, s, s)))
                      \o serializeKEMHeader(env)
  BY DEF CryptoFor
<1>7. "badLength" \notin DOMAIN CEKOf(s, "generate")
  BY DEF CEKOf
<1> HIDE DEF c, public
<1>8. Envelope(c) = env
  BY <1>4, <1>5, <1>6, Zenon DEF Envelope
<1>9. KEMPart(c) = serializeKEMHeader(env)
  BY <1>1, <1>5, <1>8 DEF KEMPart
<1> HIDE DEF env
<1>10. Prepared(c, s)
  BY <1>2, <1>3, <1>5, <1>6, <1>7, <1>9, Zenon DEF Prepared
<1> QED BY <1>8, <1>10 DEF c, env, public

LEMMA LayoutNext ==
  ASSUME ~EmptyReads, WriterInv, LayoutInv, [WriterNext]_writerVars
  PROVE  LayoutInv'
<1>1. ASSUME NEW s \in Streams, NEW suite \in SuiteArgs, NEW size \in ChunkArgs,
             NEW cekArg \in CEKArgs, EncryptAEAD(s, suite, cekArg, size)
      PROVE  LayoutInv'
  <2>1. CASE EncryptAEADError(suite, cekArg, size) # ""
    BY <1>1, <2>1, StageError DEF EncryptAEAD
  <2>2. CASE EncryptAEADError(suite, cekArg, size) = ""
    <3>1. PICK to : crypto' = [crypto EXCEPT ![s] =
            CryptoFor(s, suite, chunkAEADForSuite(suite), size, cekArg, to, <<>>)]
      BY <1>1, <2>2 DEF EncryptAEAD
    <3> DEFINE c == CryptoFor(s, suite, chunkAEADForSuite(suite), size, cekArg, to, <<>>)
    <3>2. Prepared(c, s) /\ ~isMLKEM(c.suiteID)
      BY <2>2, PreparedAEAD
    <3>3. /\ wpc[s] = "idle" /\ wpc' = [wpc EXCEPT ![s] = "header"]
          /\ UNCHANGED <<plain, taken, current, next, index, record, wire>>
          /\ sealed \subseteq sealed'
      BY <1>1, <2>2 DEF EncryptAEAD
    <3>4. crypto' = [crypto EXCEPT ![s] = c]
      BY <3>1
    <3> HIDE DEF c
    <3> QED BY <3>2, <3>3, <3>4, StageEncrypt
  <2> QED BY <2>1, <2>2
<1>2. ASSUME NEW s \in Streams, NEW suite \in SuiteArgs, NEW size \in ChunkArgs,
             NEW seed, NEW of, EncryptMLKEM(s, suite, PublicKeyFromSeed(seed, of), size)
      PROVE  LayoutInv'
  <2> DEFINE public == PublicKeyFromSeed(seed, of)
  <2>1. CASE EncryptMLKEMError(suite, public, size) # ""
    BY <1>2, <2>1, StageError DEF EncryptMLKEM
  <2>2. CASE EncryptMLKEMError(suite, public, size) = ""
    <3> DEFINE env == wrapCEK(public, suite, CEKOf(s, "generate"), buildCEKWrapAAD(suite, s), s)
               c == CryptoFor(s, suite, "AES256GCM", size, "generate", public.seed,
                              serializeKEMHeader(env))
    <3>1. Prepared(c, s) /\ Envelope(c) = env
      BY <2>2, PreparedMLKEM
    <3>2. /\ wpc[s] = "idle" /\ wpc' = [wpc EXCEPT ![s] = "header"]
          /\ UNCHANGED <<plain, taken, current, next, index, record, wire>>
          /\ crypto' = [crypto EXCEPT ![s] = c]
          /\ sealed' = sealed \cup {env.wrapped}
      BY <1>2, <2>2 DEF EncryptMLKEM
    <3> HIDE DEF c, env
    <3>3. sealed \subseteq sealed' /\ Envelope(c).wrapped \in sealed'
      BY <3>1, <3>2
    <3> QED BY <3>1, <3>2, <3>3, StageEncrypt
  <2> QED BY <2>1, <2>2
<1>3. ASSUME NEW s \in Streams, SourceError(s) PROVE LayoutInv'
  BY <1>3, StageError DEF SourceError
<1>4. CASE UNCHANGED writerVars
  <2>1. \A s \in Streams : Stage(s)'
    BY <1>4, StageKept DEF writerVars, LayoutInv
  <2> QED BY <1>4, <2>1 DEF writerVars, LayoutInv
<1> QED
  BY <1>1, <1>2, <1>3, <1>4, StageHeader, StageFirst, StageNext, StagePrefix, StageRecord
  DEF WriterNext, WriterCall, WriterStep

LEMMA LayoutReference ==
  ASSUME WriterInv, LayoutInv PROVE WireIsReference
<1> SUFFICES ASSUME NEW s \in Streams
             PROVE  /\ wire[s] # <<>> => LaidOut(crypto[s], plain[s], wire[s])
                    /\ wpc[s] = "ok" => WholeContainer(crypto[s], plain[s], wire[s])
  BY DEF WireIsReference
<1>1. wire[s] # <<>> => LaidOut(crypto[s], plain[s], wire[s])
  BY DEF LayoutInv, Stage
<1>2. ASSUME wpc[s] = "ok" PROVE WholeContainer(crypto[s], plain[s], wire[s])
  <2>1. /\ Prepared(crypto[s], s) /\ LaidOut(crypto[s], plain[s], wire[s])
        /\ plain[s] \in Nat
    BY <1>2 DEF LayoutInv, Stage, Running, WriterInv, WTyping, WriterTypeOK
  <2>2. PICK i \in Nat :
          /\ HasRecord(crypto[s], plain[s], i) /\ ~HasRecord(crypto[s], plain[s], i + 1)
          /\ Len(wire[s]) = RecordEnd(crypto[s], plain[s], i)
    BY <1>2 DEF LayoutInv, Stage, Written
  <2>3. i \in 0 .. plain[s]
    BY <2>1, <2>2, PreparedMeasured, Geometry
  <2> QED BY <2>1, <2>2, <2>3 DEF WholeContainer
<1> QED BY <1>1, <1>2

\* With sources that give no empty reads, what a call writes is a prefix of
\* the container the format defines, byte for byte, also when it fails at any
\* point, and the whole of it when it returns nil: for every plaintext length
\* (empty and exact multiples included), chunk size and suite.
THEOREM ContainersAreReference ==
  ASSUME ~EmptyReads
  PROVE  WriterSpec => []WireIsReference
<1>1. WriterInit => LayoutInv
  BY LayoutInit
<1>2. WriterInv /\ LayoutInv /\ [WriterNext]_writerVars => LayoutInv'
  BY LayoutNext
<1>3. WriterInv /\ LayoutInv => WireIsReference
  BY LayoutReference
<1> QED BY <1>1, <1>2, <1>3, WriterInvariant, PTL DEF WriterSpec
=============================================================================
