---------------------------- MODULE StreamReader ----------------------------
(***************************************************************************)
(* DecryptAEAD, DecryptMLKEM and readChunks of stream/stream.go, with the  *)
(* CEK recoveries of stream/kem.go: one call on the container store.       *)
(*                                                                         *)
(* One action is one readFull, one RecoverCEK, or the opening and writing  *)
(* of one chunk.                                                           *)
(***************************************************************************)
EXTENDS IdealAEAD

CONSTANTS
  StrayLens,    \* lengths that bytes which are no prefix may spell
  ReaderErrors, \* may src.Read fail under the reader?
  SinkErrors    \* may the reader's dst.Write fail?

ASSUME ReaderAssumption ==
  StrayLens \subseteq Nat /\ ReaderErrors \in BOOLEAN /\ SinkErrors \in BOOLEAN

VARIABLES
  store,     \* the container's cells
  rpc,       \* where the call is
  rerr,      \* error it returned, "" for none
  keyArg,    \* the CEK or the CEKRecovery it was given
  pos,       \* cells consumed
  header,    \* parsed fixed header
  envelope,  \* fields of the KEM envelope read so far
  rkey,      \* message key
  body,      \* cells of the record to open
  nextLen,   \* length of the next record, -1 when there is none
  rindex,    \* index of the record to open
  dst        \* bytes written

readerVars == <<store, rpc, rerr, keyArg, pos, header, envelope, rkey, body,
                nextLen, rindex, dst>>

NoHeader == writeFixedHeader("", 0, "", "")

ReaderInit ==
  /\ store = <<>>
  /\ rpc = "idle"
  /\ rerr = ""
  /\ keyArg = [mode |-> "none"]
  /\ pos = 0
  /\ header = NoHeader
  /\ envelope = <<>>
  /\ rkey = [none |-> ""]
  /\ body = <<>>
  /\ nextLen = -1
  /\ rindex = 0
  /\ dst = <<>>

ReaderFail(err) == rpc' = "failed" /\ rerr' = err

ReaderGoto(pc) == rpc' = pc /\ UNCHANGED rerr

\* readFull asked for n bytes; the counts it may return and the bytes.
Counts(n) == readFullCounts(Len(store) - pos, n)

Bytes(k) == SubSeq(store, pos + 1, pos + k)

\* The values readLenPrefix may decode from PrefixLen cells.
PrefixValues(cells) ==
  LET whole == {o.prefix : o \in {p \in Spelled(cells) : "prefix" \in DOMAIN p}}
  IN IF whole # {} THEN whole ELSE StrayLens

\* Any read of the source may fail.
ReadError ==
  /\ ReaderErrors
  /\ rpc \in {"header", "envelope", "first", "record", "peek"}
  /\ ReaderFail("readError")
  /\ UNCHANGED <<store, keyArg, pos, header, envelope, rkey, body, nextLen,
                 rindex, dst>>

(***************************************************************************)
(* The entry points, up to the call of readChunks.                         *)
(***************************************************************************)

\* DecryptAEAD: cek is [provided |-> _] or [generatedBy |-> _], or a slice
\* of the wrong length.
DecryptAEAD(cek) ==
  /\ rpc = "idle"
  /\ keyArg' = [mode |-> "AEAD", cek |-> cek]
  /\ \/ "badLength" \in DOMAIN cek /\ ReaderFail("ErrBadCEKLength")
     \/ "badLength" \notin DOMAIN cek /\ ReaderGoto("header")
  /\ UNCHANGED <<store, pos, header, envelope, rkey, body, nextLen, rindex, dst>>

\* DecryptMLKEM: recovery is a LocalSeedCEKRecovery (by = "local") or a
\* BrokerCEKRecovery (by = "broker") for a seed and a suite.
DecryptMLKEM(by, seed, suite) ==
  /\ rpc = "idle"
  /\ keyArg' = [mode |-> "MLKEM", by |-> by, seed |-> seed, suite |-> suite]
  /\ ReaderGoto("header")
  /\ UNCHANGED <<store, pos, header, envelope, rkey, body, nextLen, rindex, dst>>

\* parseFixedHeader and the suite check of the entry point.  Bytes that are
\* no header do not begin with the magic.
HeaderError(h) ==
  IF parseFixedHeader(h) # "" THEN parseFixedHeader(h)
  ELSE IF keyArg.mode = "AEAD" /\ h.suite \notin AEADSuites THEN "ErrSuiteMismatch"
  ELSE IF keyArg.mode = "MLKEM" /\ ~isMLKEM(h.suite) THEN "ErrSuiteMismatch"
  ELSE ""

AcceptHeader(h) ==
  /\ header' = h
  /\ \/ /\ keyArg.mode = "AEAD"
        /\ rkey' = deriveMessageKey(h.streamSalt, keyArg.cek, h.suite, h.streamID)
        /\ ReaderGoto("first")
     \/ /\ keyArg.mode = "MLKEM"
        /\ ReaderGoto("envelope")
        /\ UNCHANGED rkey

ReadHeader ==
  /\ rpc = "header"
  /\ \E k \in Counts(FixedHeaderLen) :
       /\ pos' = pos + k
       /\ \/ /\ k # FixedHeaderLen
             /\ ReaderFail("ErrShortHeader")
             /\ UNCHANGED <<header, rkey>>
          \/ /\ k = FixedHeaderLen /\ HeaderOf(Bytes(k)) = {}
             /\ ReaderFail("ErrBadMagic")
             /\ UNCHANGED <<header, rkey>>
          \/ /\ k = FixedHeaderLen
             /\ \E h \in HeaderOf(Bytes(k)) :
                  \/ /\ HeaderError(h) # ""
                     /\ ReaderFail(HeaderError(h))
                     /\ UNCHANGED <<header, rkey>>
                  \/ HeaderError(h) = "" /\ AcceptHeader(h)
  /\ UNCHANGED <<store, keyArg, envelope, body, nextLen, rindex, dst>>

\* readKEMEnvelope, one field at a time: the lengths it insists on.
EnvelopeLens == <<KEMCtLen[header.suite], KEMCtLen[header.suite], NonceLen,
                  CEKLen + TagLen, CEKLen + TagLen>>

IsPrefixField(i) == i \in {1, 4}

ReadEnvelopeField ==
  LET i    == Len(envelope) + 1
      want == IF IsPrefixField(i) THEN PrefixLen ELSE EnvelopeLens[i]
  IN /\ rpc = "envelope"
     /\ \E k \in Counts(want) :
          /\ pos' = pos + k
          /\ \/ /\ k # want
                /\ ReaderFail(IF IsPrefixField(i) /\ k = 0 THEN "ErrShortHeader"
                              ELSE "ErrTruncated")
                /\ UNCHANGED envelope
             \/ /\ k = want /\ IsPrefixField(i)
                /\ \E v \in PrefixValues(Bytes(k)) \ {EnvelopeLens[i]} :
                     ReaderFail("ErrBadKEMCiphertext")
                /\ UNCHANGED envelope
             \/ /\ k = want
                /\ IsPrefixField(i) => EnvelopeLens[i] \in PrefixValues(Bytes(k))
                /\ envelope' = Append(envelope, Bytes(k))
                /\ ReaderGoto(IF i = 5 THEN "recover" ELSE "envelope")
     /\ UNCHANGED <<store, keyArg, header, rkey, body, nextLen, rindex, dst>>

\* What the recovery's key opens the envelope to.
RecoveredCEKs ==
  openCEKLocal(keyArg.seed, keyArg.suite, envelope[2], envelope[3], envelope[5],
               buildCEKWrapAAD(header.suite, header.streamID))

\* The ways RecoverCEK fails.  A local recovery refuses a suite that is not
\* ML-KEM, a seed that is too short or long, and a ciphertext of another
\* parameter set's length; the broker (external) refuses what the key cannot
\* open, may return a key of another length, and the call itself may fail.
RecoverErrors ==
  IF keyArg.by = "broker"
  THEN {"StatusError", "ErrBadCEKLength"}
  ELSE IF ~isMLKEM(keyArg.suite) THEN {"ErrSuiteMismatch"}
  ELSE IF KEMCtLen[keyArg.suite] # Len(envelope[2]) THEN {"ErrBadKEMCiphertext"}
  ELSE IF RecoveredCEKs = {}
  THEN {IF keyArg.seed = "badLength" THEN "ErrBadKEMCiphertext" ELSE "ErrAuthFailed"}
  ELSE {}

RecoverCEK ==
  /\ rpc = "recover"
  /\ \/ \E err \in RecoverErrors : ReaderFail(err) /\ UNCHANGED rkey
     \/ \E cek \in RecoveredCEKs :
          /\ rkey' = deriveMessageKey(header.streamSalt, cek, header.suite,
                                      header.streamID)
          /\ ReaderGoto("first")
  /\ UNCHANGED <<store, keyArg, pos, header, envelope, body, nextLen, rindex, dst>>

(***************************************************************************)
(* readChunks.                                                             *)
(***************************************************************************)

\* Mutant of maxRecord: the tag is forgotten.
maxRecordWithoutTag == header.chunkSize

maxRecord == header.chunkSize + TagLen

\* The first prefix; without one the container is truncated.
ReadFirstPrefix ==
  /\ rpc = "first"
  /\ \E k \in Counts(PrefixLen) :
       /\ pos' = pos + k
       /\ \/ k # PrefixLen /\ ReaderFail("ErrTruncated") /\ UNCHANGED nextLen
          \/ /\ k = PrefixLen
             /\ nextLen' \in PrefixValues(Bytes(k))
             /\ ReaderGoto("record")
  /\ UNCHANGED <<store, keyArg, header, envelope, rkey, body, rindex, dst>>

\* readRecord: a length over the limit is refused before anything is read.
ReadRecord ==
  /\ rpc = "record"
  /\ \/ /\ nextLen > maxRecord
        /\ ReaderFail("ErrChunkTooLarge")
        /\ UNCHANGED <<pos, body>>
     \/ /\ nextLen <= maxRecord
        /\ \E k \in Counts(nextLen) :
             /\ pos' = pos + k
             /\ \/ k # nextLen /\ ReaderFail("ErrTruncated") /\ UNCHANGED body
                \/ k = nextLen /\ body' = Bytes(k) /\ ReaderGoto("peek")
  /\ UNCHANGED <<store, keyArg, header, envelope, rkey, nextLen, rindex, dst>>

\* Mutant of PeekPrefix: a prefix cut short counts as the end.
PeekPrefixLenient ==
  /\ rpc = "peek"
  /\ \E k \in Counts(PrefixLen) :
       /\ pos' = pos + k
       /\ \/ k # PrefixLen /\ nextLen' = -1
          \/ k = PrefixLen /\ nextLen' \in PrefixValues(Bytes(k))
  /\ ReaderGoto("open")
  /\ UNCHANGED <<store, keyArg, header, envelope, rkey, body, rindex, dst>>

\* The prefix after the record: its absence makes the record the final one.
PeekPrefix ==
  /\ rpc = "peek"
  /\ \E k \in Counts(PrefixLen) :
       /\ pos' = pos + k
       /\ \/ k \notin {0, PrefixLen} /\ ReaderFail("ErrTruncated") /\ UNCHANGED nextLen
          \/ k = 0 /\ nextLen' = -1 /\ ReaderGoto("open")
          \/ /\ k = PrefixLen
             /\ nextLen' \in PrefixValues(Bytes(k))
             /\ ReaderGoto("open")
  /\ UNCHANGED <<store, keyArg, header, envelope, rkey, body, rindex, dst>>

isFinal == nextLen = -1

ptLen == Len(body) - TagLen

\* Mutant of OpenedChunks: a record's final flag may be either.
OpenedChunksAnyFinal ==
  UNION {aeadOpen(chunkAEADForSuite(header.suite), rkey, chunkNonce(rindex), body,
                  buildChunkAAD(header.suite, header.streamID, rindex, final, ptLen,
                                header.chunkSize)) : final \in BOOLEAN}

\* Mutant of OpenedChunks: the tag is not verified.
OpenedChunksUnverified ==
  {r.pt : r \in {q \in sealed : /\ q.aad.magic = "BSLA"
                                /\ \E o \in Spelled(body) : "sealed" \in DOMAIN o /\ o.sealed = q}}

\* The plaintexts of the record under the key, nonce and AAD the reader
\* computes for it.
OpenedChunks ==
  aeadOpen(chunkAEADForSuite(header.suite), rkey, chunkNonce(rindex), body,
           buildChunkAAD(header.suite, header.streamID, rindex, isFinal, ptLen,
                         header.chunkSize))

\* Mutant of OpenChunk: a short write goes unnoticed.
OpenChunkShortWrite ==
  /\ rpc = "open"
  /\ \/ /\ Len(body) < TagLen \/ OpenedChunks = {}
        /\ ReaderFail("ErrAuthFailed")
        /\ UNCHANGED <<dst, rindex>>
     \/ /\ Len(body) >= TagLen
        /\ \E chunk \in OpenedChunks : \E n \in 0 .. chunk.have :
             dst' = dst \o PlainBytes(chunk.src, chunk.lo, n)
        /\ \/ isFinal /\ ReaderGoto("ok") /\ UNCHANGED rindex
           \/ ~isFinal /\ ReaderGoto("record") /\ rindex' = rindex + 1
  /\ UNCHANGED <<store, keyArg, pos, header, envelope, rkey, body, nextLen>>

\* Authenticate the record, write its plaintext, go on or return.
OpenChunk ==
  /\ rpc = "open"
  /\ \/ /\ \/ Len(body) < TagLen
           \/ OpenedChunks = {}
           \/ ~isFinal /\ ptLen # header.chunkSize
        /\ ReaderFail("ErrAuthFailed")
        /\ UNCHANGED <<dst, rindex>>
     \/ /\ Len(body) >= TagLen
        /\ isFinal \/ ptLen = header.chunkSize
        /\ \E chunk \in OpenedChunks :
             \/ /\ dst' = dst \o PlainBytes(chunk.src, chunk.lo, chunk.have)
                /\ \/ isFinal /\ ReaderGoto("ok") /\ UNCHANGED rindex
                   \/ ~isFinal /\ ReaderGoto("record") /\ rindex' = rindex + 1
             \/ /\ SinkErrors
                /\ ReaderFail("writeError")
                /\ \E n \in 0 .. chunk.have :
                     dst' = dst \o PlainBytes(chunk.src, chunk.lo, n)
                /\ UNCHANGED rindex
  /\ UNCHANGED <<store, keyArg, pos, header, envelope, rkey, body, nextLen>>

ReaderStep ==
  \/ ReadHeader \/ ReadEnvelopeField \/ RecoverCEK \/ ReadFirstPrefix
  \/ ReadRecord \/ PeekPrefix \/ OpenChunk
=============================================================================
