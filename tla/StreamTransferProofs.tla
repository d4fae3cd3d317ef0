------------------------ MODULE StreamTransferProofs ------------------------
(***************************************************************************)
(* Proofs about StreamTransfer: what a decryption delivers, for every      *)
(* number of containers, every plaintext, every chunk size and every       *)
(* number of damages.  The invariant of the writers is that of             *)
(* StreamWriterProofs.                                                     *)
(***************************************************************************)
EXTENDS StreamTransfer, StreamWriterProofs, SequenceTheorems

USE DEF ReaderGoto, ReaderFail

NoKey == [none |-> ""]

\* Before a message key is derived; in the loop of readChunks.
Opening == {"idle", "header", "envelope", "recover"}
Looping == {"first", "record", "peek", "open"}

\* Record r is of the stream the header names.
Own(r) == r \in ChunkRecords /\ r.aad.streamID = header.streamID

\* dst holds the plaintext up to the end of record r.
UpTo(r) == dst = PlainBytes(header.streamID, 0, r.pt.lo + r.pt.have)

\* What is delivered, by where the call is: up to the record before the one
\* to open, up to a final record, or a prefix.
Delivered ==
  /\ rpc \in Looping /\ rindex # 0 =>
       \E r \in ChunkRecords : Own(r) /\ r.aad.index + 1 = rindex /\ UpTo(r)
  /\ rpc = "ok" => \E r \in ChunkRecords : Own(r) /\ r.aad.isFinal /\ UpTo(r)
  /\ dst # <<>> =>
       \E r \in ChunkRecords, n \in Nat :
         /\ Own(r) /\ n <= r.pt.lo + r.pt.have
         /\ dst = PlainBytes(header.streamID, 0, n)

ReaderInv ==
  /\ rpc \in Opening \cup Looping \cup {"ok", "failed"}
  /\ rpc # "idle" => origin # {}
  /\ rpc \in {"idle", "header"} => pos = 0
  /\ rpc \in Opening => rkey = NoKey /\ rindex = 0 /\ dst = <<>>
  /\ rpc \in Looping \cup {"ok"} => rkey # NoKey
  /\ rpc = "first" => rindex = 0
  /\ rpc \in Looping /\ rindex = 0 => dst = <<>>
  /\ rkey = NoKey => dst = <<>>
  /\ rindex \in Nat
  /\ Delivered

-----------------------------------------------------------------------------
\* A chunk the reader opens is one its stream's call sealed, at the index and
\* with the final flag the reader expects.
LEMMA OpenedIsSealed ==
  ASSUME NEW chunk \in OpenedChunks
  PROVE  \E r \in ChunkRecords :
           /\ Own(r) /\ r.pt = chunk
           /\ r.aad.index = rindex /\ r.aad.isFinal = isFinal
<1> DEFINE aad == buildChunkAAD(header.suite, header.streamID, rindex, isFinal, ptLen,
                                header.chunkSize)
<1>1. PICK r \in sealed : r.aad = aad /\ r.pt = chunk
  BY DEF OpenedChunks, aeadOpen
<1>2. /\ aad.magic = "BSLA" /\ aad.streamID = header.streamID
      /\ aad.index = rindex /\ aad.isFinal = isFinal
  BY DEF buildChunkAAD
<1> QED BY <1>1, <1>2 DEF Own, ChunkRecords

\* Pieces of a plaintext are sequences, and adjacent ones join.
LEMMA PlainBytesSeq ==
  ASSUME NEW s, NEW lo \in Nat, NEW n \in Nat
  PROVE  /\ PlainBytes(s, lo, n) \in Seq({s} \X Nat)
         /\ Len(PlainBytes(s, lo, n)) = n
         /\ \A k \in 1 .. n : PlainBytes(s, lo, n)[k] = <<s, lo + k>>
  BY DEF PlainBytes

LEMMA PlainBytesJoin ==
  ASSUME NEW s, NEW lo \in Nat, NEW n \in Nat
  PROVE  PlainBytes(s, 0, lo) \o PlainBytes(s, lo, n) = PlainBytes(s, 0, lo + n)
<1> DEFINE a == PlainBytes(s, 0, lo)
           b == PlainBytes(s, lo, n)
           c == PlainBytes(s, 0, lo + n)
<1>1. /\ a \in Seq({s} \X Nat) /\ Len(a) = lo /\ \A k \in 1 .. lo : a[k] = <<s, 0 + k>>
      /\ b \in Seq({s} \X Nat) /\ Len(b) = n /\ \A k \in 1 .. n : b[k] = <<s, lo + k>>
      /\ c \in Seq({s} \X Nat) /\ Len(c) = lo + n
      /\ \A k \in 1 .. lo + n : c[k] = <<s, 0 + k>>
  <2>1. 0 \in Nat /\ lo + n \in Nat
    OBVIOUS
  <2>2. /\ a \in Seq({s} \X Nat) /\ Len(a) = lo /\ \A k \in 1 .. lo : a[k] = <<s, 0 + k>>
    BY <2>1, PlainBytesSeq, Zenon
  <2>3. /\ b \in Seq({s} \X Nat) /\ Len(b) = n /\ \A k \in 1 .. n : b[k] = <<s, lo + k>>
    BY PlainBytesSeq, Zenon
  <2>4. /\ c \in Seq({s} \X Nat) /\ Len(c) = lo + n
        /\ \A k \in 1 .. lo + n : c[k] = <<s, 0 + k>>
    BY <2>1, PlainBytesSeq, Zenon
  <2> QED BY <2>2, <2>3, <2>4
<1> HIDE DEF a, b, c
<1>2. /\ a \o b \in Seq({s} \X Nat) /\ Len(a \o b) = lo + n
      /\ \A k \in 1 .. lo + n : (a \o b)[k] = IF k <= lo THEN a[k] ELSE b[k - lo]
  BY <1>1, ConcatProperties, SMTT(30)
<1>3. ASSUME NEW k \in 1 .. lo + n PROVE (a \o b)[k] = c[k]
  <2>1. CASE k <= lo
    <3>1. k \in 1 .. lo
      BY <2>1
    <3> QED BY <1>1, <1>2, <2>1, <3>1
  <2>2. CASE ~(k <= lo)
    <3>1. k - lo \in 1 .. n /\ lo + (k - lo) = 0 + k
      BY <2>2
    <3>2. b[k - lo] = <<s, lo + (k - lo)>>
      BY <1>1, <3>1
    <3> QED BY <1>1, <1>2, <2>2, <3>1, <3>2
  <2> QED BY <2>1, <2>2
<1>4. a \o b = c
  BY <1>1, <1>2, <1>3, SeqEqual
<1> QED BY <1>4 DEF a, b, c

LEMMA PlainBytesNone ==
  ASSUME NEW s PROVE PlainBytes(s, 0, 0) = <<>>
  BY DEF PlainBytes

\* Of a chunk record: it lies within its stream's plaintext.
LEMMA OwnRecord ==
  ASSUME WriterInv, NEW r, Own(r)
  PROVE  /\ header.streamID \in Streams
         /\ r.pt.src = header.streamID
         /\ r.pt.lo \in Nat /\ r.pt.have \in Nat /\ r.aad.index \in Nat
         /\ r.pt.lo + r.pt.have <= plain[header.streamID]
         /\ plain[header.streamID] \in Nat
<1>1. ChunkRecordOK(r) /\ r.aad.streamID = header.streamID
  BY DEF Own, WriterInv, RecordsOK, ChunkRecords
<1>2. header.streamID \in Streams
  BY <1>1 DEF ChunkRecordOK
<1>3. plain[header.streamID] \in Nat
  BY <1>2 DEF WriterInv, WTyping, WriterTypeOK
<1> QED BY <1>1, <1>2, <1>3 DEF ChunkRecordOK

\* The record that is opened continues what was delivered.
LEMMA OpensTheNext ==
  ASSUME WriterInv, ReaderInv, rpc = "open", NEW chunk \in OpenedChunks
  PROVE  \E r \in ChunkRecords :
           /\ Own(r) /\ r.pt = chunk /\ chunk.lo \in Nat /\ chunk.have \in Nat
           /\ r.aad.index = rindex /\ r.aad.isFinal = isFinal
           /\ chunk.src = header.streamID
           /\ dst = PlainBytes(header.streamID, 0, chunk.lo)
<1>1. PICK r \in ChunkRecords : /\ Own(r) /\ r.pt = chunk
                                /\ r.aad.index = rindex /\ r.aad.isFinal = isFinal
  BY OpenedIsSealed
<1>2. /\ r.pt.src = header.streamID /\ r.pt.lo \in Nat /\ r.pt.have \in Nat
  BY <1>1, OwnRecord
<1>3. dst = PlainBytes(header.streamID, 0, r.pt.lo)
  <2>1. CASE rindex = 0
    <3>1. dst = <<>> /\ r.pt.lo = 0
      BY <1>1, <2>1 DEF ReaderInv, Looping, WriterInv, Contiguous
    <3> QED BY <3>1, PlainBytesNone
  <2>2. CASE rindex # 0
    <3>1. PICK q \in ChunkRecords : Own(q) /\ q.aad.index + 1 = rindex /\ UpTo(q)
      BY <2>2 DEF ReaderInv, Delivered, Looping
    <3>2. q.pt.lo + q.pt.have = r.pt.lo
      BY <1>1, <3>1 DEF WriterInv, Contiguous, Own
    <3> QED BY <3>1, <3>2 DEF UpTo
  <2> QED BY <2>1, <2>2
<1> QED BY <1>1, <1>2, <1>3

-----------------------------------------------------------------------------
LEMMA ReaderInvInit == Init => ReaderInv
<1> SUFFICES ASSUME Init PROVE ReaderInv
  OBVIOUS
<1>1. rpc = "idle" /\ pos = 0 /\ rkey = NoKey /\ rindex = 0 /\ dst = <<>>
  BY DEF Init, ReaderInit, NoKey
<1>2. Delivered
  BY <1>1 DEF Delivered, Looping
<1> QED BY <1>1, <1>2 DEF ReaderInv, Opening, Looping

\* A step that delivers nothing and derives no key, within one part of the
\* call, to failure or from the header on.
LEMMA QuietRead ==
  ASSUME ReaderInv, UNCHANGED <<sealed, rkey, rindex, dst, origin>>,
         header' = header \/ rpc' \in Opening,
         \/ rpc' = rpc /\ (rpc \in {"idle", "header"} => pos' = pos)
         \/ rpc' = "failed" /\ rpc # "idle"
         \/ rpc = "idle" /\ rpc' \in {"header", "failed"} /\ pos' = pos /\ origin # {}
         \/ rpc \in {"header", "envelope"} /\ rpc' \in {"envelope", "recover"}
         \/ rpc \in Looping /\ rpc' \in {"record", "peek", "open"}
  PROVE  ReaderInv'
<1>1. ChunkRecords' = ChunkRecords
  BY DEF ChunkRecords
<1>2. Delivered'
  BY <1>1 DEF ReaderInv, Delivered, Own, UpTo, Looping, Opening
<1> QED BY <1>2 DEF ReaderInv, Looping, Opening

LEMMA KeyIsKey ==
  ASSUME NEW salt, NEW cek, NEW suite, NEW id
  PROVE  deriveMessageKey(salt, cek, suite, id) # NoKey
<1>1. DOMAIN deriveMessageKey(salt, cek, suite, id) = {"salt", "ikm", "suite", "streamID"}
  BY DEF deriveMessageKey
<1>2. DOMAIN NoKey = {"none"}
  BY DEF NoKey
<1> QED BY <1>1, <1>2

\* A message key is derived and the loop begins.
LEMMA LoopBegins ==
  ASSUME ReaderInv, rpc \in Opening, rpc' = "first", origin # {},
         rkey' # NoKey, UNCHANGED <<rindex, dst, origin>>
  PROVE  ReaderInv'
  BY DEF ReaderInv, Delivered, Opening, Looping

\* A chunk, or some of it, is delivered.
LEMMA ChunkDelivered ==
  ASSUME WriterInv, ReaderInv, OpenChunk, UNCHANGED <<sealed, origin>>
  PROVE  ReaderInv'
<1>1. /\ rpc = "open" /\ UNCHANGED <<header, rkey, pos>>
  BY DEF OpenChunk
<1>2. ChunkRecords' = ChunkRecords
  BY DEF ChunkRecords
<1>3. CASE rpc' = "failed" /\ UNCHANGED <<dst, rindex>>
  BY <1>1, <1>3, QuietRead
<1>4. CASE \E chunk \in OpenedChunks :
             /\ dst' = dst \o PlainBytes(chunk.src, chunk.lo, chunk.have)
             /\ \/ isFinal /\ rpc' = "ok" /\ UNCHANGED rindex
                \/ ~isFinal /\ rpc' = "record" /\ rindex' = rindex + 1
  <2>1. PICK chunk \in OpenedChunks :
          /\ dst' = dst \o PlainBytes(chunk.src, chunk.lo, chunk.have)
          /\ \/ isFinal /\ rpc' = "ok" /\ UNCHANGED rindex
             \/ ~isFinal /\ rpc' = "record" /\ rindex' = rindex + 1
    BY <1>4
  <2>2. PICK r \in ChunkRecords :
          /\ Own(r) /\ r.pt = chunk /\ chunk.lo \in Nat /\ chunk.have \in Nat
          /\ r.aad.index = rindex /\ r.aad.isFinal = isFinal
          /\ chunk.src = header.streamID
          /\ dst = PlainBytes(header.streamID, 0, chunk.lo)
    BY <1>1, OpensTheNext
  <2>3. dst' = PlainBytes(header.streamID, 0, r.pt.lo + r.pt.have)
    <3>1. PlainBytes(header.streamID, 0, chunk.lo)
            \o PlainBytes(header.streamID, chunk.lo, chunk.have)
            = PlainBytes(header.streamID, 0, chunk.lo + chunk.have)
      BY <2>2, PlainBytesJoin
    <3> QED BY <2>1, <2>2, <3>1
  <2>4. Own(r)' /\ UpTo(r)' /\ r \in ChunkRecords' /\ r.pt.lo + r.pt.have \in Nat
    BY <1>1, <1>2, <2>2, <2>3 DEF Own, UpTo
  <2>5. Delivered'
    <3>1. rpc' \in Looping => r.aad.index + 1 = rindex'
      BY <2>1, <2>2 DEF Looping
    <3>2. rpc' = "ok" => r.aad.isFinal
      BY <2>1, <2>2
    <3>3. \E n \in Nat : /\ n <= r.pt.lo + r.pt.have
                         /\ dst' = PlainBytes(header.streamID', 0, n)
      BY <1>1, <2>3, <2>4
    <3> QED BY <2>4, <3>1, <3>2, <3>3 DEF Delivered
  <2>6. rindex \in Nat /\ rkey # NoKey
    BY <1>1 DEF ReaderInv, Looping
  <2>7. rpc' \in Looping => rindex' # 0
    BY <2>1, <2>6 DEF Looping
  <2> QED BY <1>1, <2>1, <2>5, <2>6, <2>7 DEF ReaderInv, Looping, Opening
<1>5. CASE /\ rpc' = "failed" /\ UNCHANGED rindex
           /\ \E chunk \in OpenedChunks : \E n \in 0 .. chunk.have :
                dst' = dst \o PlainBytes(chunk.src, chunk.lo, n)
  <2>1. PICK chunk \in OpenedChunks : \E n \in 0 .. chunk.have :
          dst' = dst \o PlainBytes(chunk.src, chunk.lo, n)
    BY <1>5
  <2>2. PICK r \in ChunkRecords :
          /\ Own(r) /\ r.pt = chunk /\ chunk.lo \in Nat /\ chunk.have \in Nat
          /\ chunk.src = header.streamID
          /\ dst = PlainBytes(header.streamID, 0, chunk.lo)
    BY <1>1, OpensTheNext
  <2>3. PICK n \in 0 .. chunk.have : dst' = dst \o PlainBytes(chunk.src, chunk.lo, n)
    BY <2>1
  <2>4. n \in Nat /\ chunk.lo + n \in Nat /\ chunk.lo + n <= r.pt.lo + r.pt.have
    BY <2>2, <2>3
  <2>5. dst' = PlainBytes(header.streamID', 0, chunk.lo + n)
    <3>1. PlainBytes(header.streamID, 0, chunk.lo) \o PlainBytes(header.streamID, chunk.lo, n)
            = PlainBytes(header.streamID, 0, chunk.lo + n)
      BY <2>2, <2>4, PlainBytesJoin
    <3> QED BY <1>1, <2>2, <2>3, <3>1
  <2>6. Own(r)' /\ r \in ChunkRecords'
    BY <1>1, <1>2, <2>2 DEF Own
  <2>7. Delivered'
    BY <1>5, <2>4, <2>5, <2>6 DEF Delivered, Looping
  <2>8. rindex \in Nat /\ rkey # NoKey
    BY <1>1 DEF ReaderInv, Looping
  <2> QED BY <1>1, <1>5, <2>7, <2>8 DEF ReaderInv, Looping, Opening
<1> QED BY <1>3, <1>4, <1>5 DEF OpenChunk

LEMMA ReaderInvNext ==
  ASSUME WriterInv, ReaderInv, [Next]_vars PROVE ReaderInv'
<1>1. CASE Writing
  <2>1. rpc = "idle" /\ UNCHANGED <<readerVars, origin>>
    BY <1>1 DEF Writing, ReaderInv, mediumVars
  <2>2. dst' = <<>> /\ rpc' = "idle"
    BY <2>1 DEF readerVars, ReaderInv, Opening
  <2>3. Delivered'
    BY <2>2 DEF Delivered, Looping
  <2> QED BY <2>1, <2>3 DEF readerVars, ReaderInv, Opening, Looping
<1>2. CASE Medium
  <2>1. /\ UNCHANGED <<rpc, header, pos, rkey, rindex, dst, sealed>>
        /\ origin # {} => origin' # {}
    BY <1>2 DEF Medium, Fetch, Truncate, DropBlock, RepeatBlock, SwapBlocks, SpliceBlock,
                AlterHeader, AlterPrefix, Damage, writerVars
  <2>2. Delivered'
    BY <2>1 DEF ReaderInv, Delivered, Own, UpTo, ChunkRecords
  <2> QED BY <2>1, <2>2 DEF ReaderInv
<1>3. ASSUME Reading PROVE ReaderInv'
  <2>1. UNCHANGED <<sealed, origin>>
    BY <1>3 DEF Reading, writerVars, mediumVars
  <2>2. ASSUME ReaderCall PROVE ReaderInv'
    <3>1. /\ origin # {} /\ rpc = "idle" /\ rpc' \in {"header", "failed"}
          /\ UNCHANGED <<pos, header, rkey, rindex, dst>>
      BY <2>2 DEF ReaderCall, DecryptAEAD, DecryptMLKEM
    <3> QED BY <2>1, <3>1, QuietRead
  <2>3. ASSUME ReadHeader PROVE ReaderInv'
    <3>1. rpc = "header" /\ UNCHANGED <<rindex, dst>> /\ origin # {}
      BY <2>3 DEF ReadHeader, ReaderInv
    <3>2. \/ rpc' = "failed" /\ UNCHANGED <<header, rkey>>
          \/ \E h : AcceptHeader(h)
      BY <2>3 DEF ReadHeader
    <3>3. \/ rpc' = "failed" /\ UNCHANGED <<header, rkey>>
          \/ rpc' = "envelope" /\ UNCHANGED rkey
          \/ rpc' = "first" /\ rkey' # NoKey
      BY <3>2, KeyIsKey DEF AcceptHeader
    <3>4. CASE rpc' = "first" /\ rkey' # NoKey
      BY <2>1, <3>1, <3>4, LoopBegins DEF Opening
    <3>5. CASE \/ rpc' = "failed" /\ UNCHANGED <<header, rkey>>
               \/ rpc' = "envelope" /\ UNCHANGED rkey
      BY <2>1, <3>1, <3>5, QuietRead DEF Opening
    <3> QED BY <3>3, <3>4, <3>5
  <2>4. ASSUME ReadEnvelopeField PROVE ReaderInv'
    <3>1. /\ rpc = "envelope" /\ rpc' \in {"failed", "envelope", "recover"}
          /\ UNCHANGED <<header, rkey, rindex, dst>>
      BY <2>4 DEF ReadEnvelopeField
    <3> QED BY <2>1, <3>1, QuietRead
  <2>5. ASSUME RecoverCEK PROVE ReaderInv'
    <3>1. /\ rpc = "recover" /\ UNCHANGED <<header, rindex, dst>> /\ origin # {}
          /\ \/ rpc' = "failed" /\ UNCHANGED rkey
             \/ rpc' = "first" /\ rkey' # NoKey
      BY <2>5, KeyIsKey DEF RecoverCEK, ReaderInv
    <3> QED BY <2>1, <3>1, QuietRead, LoopBegins DEF Opening
  <2>6. ASSUME ReadFirstPrefix PROVE ReaderInv'
    <3>1. /\ rpc = "first" /\ rpc' \in {"failed", "record"}
          /\ UNCHANGED <<header, rkey, rindex, dst>>
      BY <2>6 DEF ReadFirstPrefix
    <3> QED BY <2>1, <3>1, QuietRead DEF Looping
  <2>7. ASSUME ReadRecord PROVE ReaderInv'
    <3>1. /\ rpc = "record" /\ rpc' \in {"failed", "peek"}
          /\ UNCHANGED <<header, rkey, rindex, dst>>
      BY <2>7 DEF ReadRecord
    <3> QED BY <2>1, <3>1, QuietRead DEF Looping
  <2>8. ASSUME PeekPrefix PROVE ReaderInv'
    <3>1. /\ rpc = "peek" /\ rpc' \in {"failed", "open"}
          /\ UNCHANGED <<header, rkey, rindex, dst>>
      BY <2>8 DEF PeekPrefix
    <3> QED BY <2>1, <3>1, QuietRead DEF Looping
  <2>9. ASSUME OpenChunk PROVE ReaderInv'
    BY <2>1, <2>9, ChunkDelivered
  <2>10. ASSUME ReadError PROVE ReaderInv'
    <3>1. /\ rpc # "idle" /\ rpc' = "failed"
          /\ UNCHANGED <<header, rkey, rindex, dst>>
      BY <2>10 DEF ReadError
    <3> QED BY <2>1, <3>1, QuietRead
  <2> QED
    BY <1>3, <2>2, <2>3, <2>4, <2>5, <2>6, <2>7, <2>8, <2>9, <2>10
    DEF Reading, ReaderStep
<1>4. CASE UNCHANGED vars
  <2>1. UNCHANGED <<rpc, pos, header, rkey, rindex, dst, origin, sealed>>
    BY <1>4 DEF vars, readerVars, mediumVars, writerVars
  <2>2. Delivered'
    BY <2>1 DEF ReaderInv, Delivered, Own, UpTo, ChunkRecords
  <2> QED BY <2>1, <2>2 DEF ReaderInv
<1> QED BY <1>1, <1>2, <1>3, <1>4 DEF Next

\* The medium and the reader leave the writers alone.
LEMMA WriterSteps == [Next]_vars => [WriterNext]_writerVars
  BY DEF Next, vars, Writing, Reading, Medium, Fetch, Truncate, DropBlock, RepeatBlock,
         SwapBlocks, SpliceBlock, AlterHeader, AlterPrefix, Damage

LEMMA TransferInvariant == Spec => [](WriterInv /\ ReaderInv)
<1>1. Init => WriterInv /\ ReaderInv
  BY InvInit, ReaderInvInit DEF Init
<1>2. WriterInv /\ ReaderInv /\ [Next]_vars => (WriterInv /\ ReaderInv)'
  BY InvNext, ReaderInvNext, WriterSteps
<1> QED BY <1>1, <1>2, PTL DEF Spec

LEMMA DeliveredPrefix ==
  ASSUME WriterInv, ReaderInv PROVE OutputIsPrefix
<1> SUFFICES ASSUME dst # <<>>
             PROVE  /\ header.streamID \in Streams
                    /\ Len(dst) <= plain[header.streamID]
                    /\ dst = PlainBytes(header.streamID, 0, Len(dst))
  BY DEF OutputIsPrefix
<1>1. PICK r \in ChunkRecords, n \in Nat :
        /\ Own(r) /\ n <= r.pt.lo + r.pt.have
        /\ dst = PlainBytes(header.streamID, 0, n)
  BY DEF ReaderInv, Delivered
<1>2. Len(dst) = n
  BY <1>1, PlainBytesSeq
<1>3. /\ header.streamID \in Streams
      /\ r.pt.lo \in Nat /\ r.pt.have \in Nat
      /\ r.pt.lo + r.pt.have <= plain[header.streamID]
      /\ plain[header.streamID] \in Nat
  BY <1>1, OwnRecord
<1> QED BY <1>1, <1>2, <1>3

\* Whatever is done to a container on its way, dst only ever holds a prefix of
\* the plaintext of the stream its header names.
THEOREM OnlyPrefixes == Spec => []OutputIsPrefix
  BY TransferInvariant, DeliveredPrefix, PTL

LEMMA FinishedIsComplete ==
  ASSUME WriterInv, ReaderInv, ~EmptyReads PROVE SuccessIsComplete
<1> SUFFICES ASSUME rpc = "ok"
             PROVE  /\ header.streamID \in Streams
                    /\ dst = PlainBytes(header.streamID, 0, plain[header.streamID])
  BY DEF SuccessIsComplete
<1>1. PICK r \in ChunkRecords : Own(r) /\ r.aad.isFinal /\ UpTo(r)
  BY DEF ReaderInv, Delivered
<1>2. header.streamID \in Streams
  BY <1>1, OwnRecord
<1>3. r.pt.lo + r.pt.have = plain[header.streamID]
  BY <1>1 DEF WriterInv, FinalOK, Own
<1> QED BY <1>1, <1>2, <1>3 DEF UpTo

\* With sources that return no empty reads, a decryption that returns nil has
\* delivered the whole plaintext, for any damage of the container.
THEOREM SuccessOnlyIfComplete ==
  ASSUME ~EmptyReads
  PROVE  Spec => []SuccessIsComplete
<1>1. WriterInv /\ ReaderInv => SuccessIsComplete
  BY FinishedIsComplete
<1> QED BY <1>1, TransferInvariant, PTL

-----------------------------------------------------------------------------
\* The key of a decryption that recovered its CEK is the stream's own.
OwnKey ==
  keyArg.mode = "MLKEM" /\ rkey # NoKey =>
    /\ header.streamID \in Streams /\ crypto[header.streamID].suiteID # ""
    /\ rkey.ikm = crypto[header.streamID].cek

\* A CEK that an envelope opens to under the header's AAD was wrapped by the
\* call whose stream the header names.
LEMMA RecoveredIsWrapped ==
  ASSUME WriterInv, NEW cek \in RecoveredCEKs
  PROVE  /\ header.streamID \in Streams /\ crypto[header.streamID].suiteID # ""
         /\ cek = crypto[header.streamID].cek
<1> DEFINE aad == buildCEKWrapAAD(header.suite, header.streamID)
<1>1. PICK q \in sealed : q.aad = aad /\ q.pt.cek = cek
  <2>1. PICK key, nonce, pt : pt.cek = cek /\ pt \in aeadOpen("AES256GCM", key, nonce, envelope[5], aad)
    BY DEF RecoveredCEKs, openCEKLocal
  <2> QED BY <2>1 DEF aeadOpen
<1>2. aad.magic = "BSLK" /\ aad.streamID = header.streamID
  BY DEF buildCEKWrapAAD
<1>3. WrapRecordOK(q)
  BY <1>1, <1>2 DEF WriterInv, RecordsOK
<1> QED BY <1>1, <1>2, <1>3 DEF WrapRecordOK

LEMMA OwnKeyNext ==
  ASSUME WriterInv, ReaderInv, OwnKey, [Next]_vars PROVE OwnKey'
<1>1. ASSUME Writing PROVE OwnKey'
  <2>1. rpc = "idle" /\ UNCHANGED rkey
    BY <1>1 DEF Writing, ReaderInv, readerVars
  <2> QED BY <2>1 DEF ReaderInv, OwnKey, Opening
<1>2. ASSUME UNCHANGED <<keyArg, rkey, header, crypto>> PROVE OwnKey'
  BY <1>2 DEF OwnKey
<1>3. ASSUME Medium PROVE OwnKey'
  <2>1. UNCHANGED <<keyArg, rkey, header, crypto>>
    BY <1>3 DEF Medium, Fetch, Truncate, DropBlock, RepeatBlock, SwapBlocks, SpliceBlock,
                AlterHeader, AlterPrefix, Damage, writerVars
  <2> QED BY <1>2, <2>1
<1>4. ASSUME Reading PROVE OwnKey'
  <2>1. UNCHANGED crypto
    BY <1>4 DEF Reading, writerVars
  <2>2. CASE ReaderCall
    <3>1. rpc = "idle" /\ UNCHANGED rkey
      BY <2>2 DEF ReaderCall, DecryptAEAD, DecryptMLKEM
    <3> QED BY <3>1 DEF ReaderInv, OwnKey, Opening
  <2>3. CASE ReadHeader
    <3>1. rkey = NoKey
      BY <2>3 DEF ReadHeader, ReaderInv, Opening
    <3>2. rkey' = rkey \/ keyArg'.mode = "AEAD"
      BY <2>3 DEF ReadHeader, AcceptHeader
    <3> QED BY <3>1, <3>2 DEF OwnKey
  <2>4. CASE RecoverCEK
    <3>1. CASE UNCHANGED rkey
      BY <1>2, <2>1, <2>4, <3>1 DEF RecoverCEK
    <3>2. CASE \E cek \in RecoveredCEKs :
                 rkey' = deriveMessageKey(header.streamSalt, cek, header.suite, header.streamID)
      <4>1. PICK cek \in RecoveredCEKs :
              rkey' = deriveMessageKey(header.streamSalt, cek, header.suite, header.streamID)
        BY <3>2
      <4>2. rkey'.ikm = cek /\ UNCHANGED header
        BY <2>4, <4>1 DEF deriveMessageKey, RecoverCEK
      <4> QED BY <2>1, <4>2, RecoveredIsWrapped DEF OwnKey
    <3> QED BY <2>4, <3>1, <3>2 DEF RecoverCEK
  <2>5. CASE ReadEnvelopeField \/ ReadFirstPrefix \/ ReadRecord \/ PeekPrefix \/ OpenChunk \/ ReadError
    <3>1. UNCHANGED <<keyArg, rkey, header>>
      BY <2>5 DEF ReadEnvelopeField, ReadFirstPrefix, ReadRecord, PeekPrefix, OpenChunk, ReadError
    <3> QED BY <1>2, <2>1, <3>1
  <2> QED BY <1>4, <2>2, <2>3, <2>4, <2>5 DEF Reading, ReaderStep
<1>5. CASE UNCHANGED vars
  BY <1>2, <1>5 DEF vars, readerVars, writerVars
<1> QED BY <1>1, <1>3, <1>4, <1>5 DEF Next

LEMMA OwnKeyRecovers ==
  ASSUME OwnKey PROVE RecoversOwnCEK
<1>1. "ikm" \in DOMAIN rkey => rkey # NoKey
  <2>1. DOMAIN NoKey = {"none"}
    BY DEF NoKey
  <2> QED BY <2>1
<1> QED BY <1>1 DEF OwnKey, RecoversOwnCEK

\* A CEK is recovered only from an envelope that the call of the stream named
\* in the header wrapped: RecoverCEK never returns another stream's CEK.
THEOREM RecoversOnlyOwn == Spec => []RecoversOwnCEK
<1>1. Init => OwnKey
  BY DEF Init, ReaderInit, OwnKey, NoKey
<1>2. (WriterInv /\ ReaderInv) /\ OwnKey /\ [Next]_vars => OwnKey'
  BY OwnKeyNext
<1> QED BY <1>1, <1>2, TransferInvariant, OwnKeyRecovers, PTL DEF Spec

-----------------------------------------------------------------------------
\* The headers in a container, damaged or not, name streams: the medium can
\* exchange stream ids but not make one up.  Needed for the refinement, whose
\* abstract steps are those of a stream.  The chunk sizes and the prefixes in it
\* are numbers, which SuccessIsWholeLength adds up.
HeaderOK(h) ==
  {"streamID", "chunkSize"} \subseteq DOMAIN h /\ h.streamID \in Streams /\ h.chunkSize \in Nat

CellOK(c) ==
  /\ "header" \in DOMAIN c.obj => HeaderOK(c.obj.header)
  /\ "prefix" \in DOMAIN c.obj => c.obj.prefix \in Nat

Named(cells) ==
  /\ cells \in Seq({cells[i] : i \in DOMAIN cells})
  /\ \A i \in DOMAIN cells : CellOK(cells[i])

HeadersNamed ==
  /\ DOMAIN wire = Streams
  /\ \A s \in Streams : Named(crypto[s].header) /\ Named(wire[s])
  /\ Named(store)
  /\ rkey # NoKey => header.streamID \in Streams

LEMMA NamedSeq ==
  ASSUME NEW S, \A c \in S : CellOK(c), NEW cells \in Seq(S)
  PROVE  Named(cells)
<1>1. \A i \in DOMAIN cells : cells[i] \in S
  OBVIOUS
<1>2. cells \in Seq({cells[i] : i \in DOMAIN cells})
  OBVIOUS
<1> QED BY <1>1, <1>2 DEF Named

\* The cells of a container that is Named come from a set of sound ones.
LEMMA NamedElements ==
  ASSUME NEW cells, Named(cells)
  PROVE  \E S : cells \in Seq(S) /\ \A c \in S : CellOK(c)
<1> WITNESS {cells[i] : i \in DOMAIN cells}
<1> QED BY DEF Named

LEMMA NamedConcat ==
  ASSUME NEW a, NEW b, Named(a), Named(b)
  PROVE  Named(a \o b)
<1>1. PICK S : a \in Seq(S) /\ \A c \in S : CellOK(c)
  BY NamedElements
<1>2. PICK T : b \in Seq(T) /\ \A c \in T : CellOK(c)
  BY NamedElements
<1>3. a \in Seq(S \cup T) /\ b \in Seq(S \cup T) /\ \A c \in S \cup T : CellOK(c)
  BY <1>1, <1>2
<1>4. a \o b \in Seq(S \cup T)
  BY <1>3, ConcatProperties
<1> QED BY <1>3, <1>4, NamedSeq

LEMMA NamedSubSeq ==
  ASSUME NEW a, Named(a), NEW m \in Int, NEW n \in Int, 1 <= m, n <= Len(a)
  PROVE  Named(SubSeq(a, m, n))
<1>1. PICK S : a \in Seq(S) /\ \A c \in S : CellOK(c)
  BY NamedElements
<1>2. \A i \in m .. n : a[i] \in S
  BY <1>1
<1>3. SubSeq(a, m, n) \in Seq(S)
  BY <1>2, SubSeqProperties
<1> QED BY <1>1, <1>3, NamedSeq

LEMMA NamedCells ==
  ASSUME NEW obj, obj.size \in Nat,
         "header" \in DOMAIN obj => HeaderOK(obj.header),
         "prefix" \in DOMAIN obj => obj.prefix \in Nat
  PROVE  Named(Cells(obj))
<1> DEFINE S == {[obj |-> obj, at |-> k] : k \in 1 .. obj.size}
<1>1. Cells(obj) \in Seq(S)
  BY DEF Cells
<1>2. \A c \in S : CellOK(c)
  BY DEF CellOK
<1> QED BY <1>1, <1>2, NamedSeq

LEMMA NamedEmpty == Named(<<>>)
  BY DEF Named

\* The objects a writer or the medium puts into a container.
LEMMA NamedHeader ==
  ASSUME NEW h, HeaderOK(h)
  PROVE  Named(Cells(HeaderObj(h)))
<1>1. /\ HeaderObj(h).size \in Nat /\ HeaderObj(h).header = h
      /\ "prefix" \notin DOMAIN HeaderObj(h)
  BY LengthAssumption DEF HeaderObj
<1> QED BY <1>1, NamedCells

LEMMA NamedPrefix ==
  ASSUME NEW n \in Nat PROVE Named(Cells(PrefixObj(n)))
<1>1. /\ PrefixObj(n).size \in Nat /\ "header" \notin DOMAIN PrefixObj(n)
      /\ PrefixObj(n).prefix = n
  BY LengthAssumption DEF PrefixObj
<1> QED BY <1>1, NamedCells

LEMMA NamedRecord ==
  ASSUME NEW r, NEW n \in Nat PROVE Named(Cells(RecordObj(r, n)))
<1>1. /\ RecordObj(r, n).size \in Nat
      /\ "header" \notin DOMAIN RecordObj(r, n) /\ "prefix" \notin DOMAIN RecordObj(r, n)
  BY LengthAssumption DEF RecordObj
<1> QED BY <1>1, NamedCells

LEMMA NamedEnvelope ==
  ASSUME NEW env, env.ek.suite \in KEMSuites PROVE Named(serializeKEMHeader(env))
<1>1. /\ Named(Cells(PrefixObj(KEMCtLen[env.ek.suite])))
      /\ Named(Cells(PrefixObj(CEKLen + TagLen)))
  <2>1. KEMCtLen[env.ek.suite] \in Nat /\ CEKLen + TagLen \in Nat
    BY LengthAssumption
  <2> QED BY <2>1, NamedPrefix
<1>2. Named(Cells(RecordObj(env.wrapped, CEKLen)))
  BY NamedRecord, LengthAssumption
<1>3. Named(Cells(EncapsulatedKeyObj(env.ek)))
  <2>1. /\ EncapsulatedKeyObj(env.ek).size \in Nat
        /\ "header" \notin DOMAIN EncapsulatedKeyObj(env.ek)
        /\ "prefix" \notin DOMAIN EncapsulatedKeyObj(env.ek)
    BY LengthAssumption DEF EncapsulatedKeyObj
  <2> QED BY <2>1, NamedCells
<1>4. Named(Cells(NonceObj(env.nonce)))
  <2>1. /\ NonceObj(env.nonce).size \in Nat
        /\ "header" \notin DOMAIN NonceObj(env.nonce) /\ "prefix" \notin DOMAIN NonceObj(env.nonce)
    BY LengthAssumption DEF NonceObj
  <2> QED BY <2>1, NamedCells
<1> QED BY <1>1, <1>2, <1>3, <1>4, NamedConcat, Zenon DEF serializeKEMHeader

LEMMA NamedWrite ==
  ASSUME HeadersNamed, NEW s \in Streams, NEW bytes, NEW pc, Named(bytes),
         Write(s, bytes, pc)
  PROVE  DOMAIN wire' = Streams /\ \A t \in Streams : Named(wire'[t])
<1>1. \E more : Named(more) /\ wire' = [wire EXCEPT ![s] = @ \o more]
  <2>1. CASE wire' = [wire EXCEPT ![s] = @ \o bytes]
    BY <2>1
  <2>2. CASE \E n \in 0 .. Len(bytes) : wire' = [wire EXCEPT ![s] = @ \o SubSeq(bytes, 1, n)]
    <3>1. PICK n \in 0 .. Len(bytes) : wire' = [wire EXCEPT ![s] = @ \o SubSeq(bytes, 1, n)]
      BY <2>2
    <3>2. Named(SubSeq(bytes, 1, n))
      <4>1. Len(bytes) \in Nat
        BY DEF Named
      <4>2. n \in Int /\ n <= Len(bytes)
        BY <4>1
      <4> QED BY <4>2, NamedSubSeq
    <3> QED BY <3>1, <3>2
  <2> QED BY <2>1, <2>2 DEF Write
<1>2. PICK more : Named(more) /\ wire' = [wire EXCEPT ![s] = @ \o more]
  BY <1>1
<1>3. Named(wire[s]) /\ Named(wire[s] \o more)
  BY <1>2, NamedConcat DEF HeadersNamed
<1> QED BY <1>2, <1>3 DEF HeadersNamed

\* What the writers put into their containers.
LEMMA WritersNamed ==
  ASSUME WriterInv, HeadersNamed, [WriterNext]_writerVars
  PROVE  /\ DOMAIN wire' = Streams
         /\ \A s \in Streams : Named(crypto'[s].header) /\ Named(wire'[s])
<1>1. ASSUME NEW s \in Streams, NEW suite, NEW alg, NEW size \in Nat, NEW cekArg, NEW to,
             NEW kemHeader, Named(kemHeader), UNCHANGED wire,
             crypto' = [crypto EXCEPT ![s] =
                          CryptoFor(s, suite, alg, size, cekArg, to, kemHeader)]
      PROVE  /\ DOMAIN wire' = Streams
             /\ \A t \in Streams : Named(crypto'[t].header) /\ Named(wire'[t])
  <2> DEFINE h == writeFixedHeader(suite, size, s, s)
  <2>1. HeaderOK(h)
    BY DEF writeFixedHeader, HeaderOK
  <2>2. Named(Cells(HeaderObj(h)))
    BY <2>1, NamedHeader
  <2>3. Named(Cells(HeaderObj(h)) \o kemHeader)
    BY <1>1, <2>2, NamedConcat
  <2>4. CryptoFor(s, suite, alg, size, cekArg, to, kemHeader).header
          = Cells(HeaderObj(h)) \o kemHeader
    BY DEF CryptoFor
  <2>5. crypto'[s].header = Cells(HeaderObj(h)) \o kemHeader
    BY <1>1, <2>4 DEF WriterInv, WTyping
  <2>6. \A t \in Streams \ {s} : crypto'[t] = crypto[t]
    BY <1>1 DEF WriterInv, WTyping
  <2> QED BY <1>1, <2>3, <2>5, <2>6 DEF HeadersNamed
<1>2. ASSUME UNCHANGED <<crypto, wire>>
      PROVE  /\ DOMAIN wire' = Streams
             /\ \A t \in Streams : Named(crypto'[t].header) /\ Named(wire'[t])
  BY <1>2 DEF HeadersNamed
<1>3. ASSUME NEW s \in Streams, NEW bytes, NEW pc, Named(bytes), Write(s, bytes, pc),
             UNCHANGED crypto
      PROVE  /\ DOMAIN wire' = Streams
             /\ \A t \in Streams : Named(crypto'[t].header) /\ Named(wire'[t])
  BY <1>3, NamedWrite DEF HeadersNamed
<1> DEFINE Goal == /\ DOMAIN wire' = Streams
                   /\ \A t \in Streams : Named(crypto'[t].header) /\ Named(wire'[t])
<1>4. ASSUME NEW s \in Streams, NEW suite, NEW size \in ChunkArgs, NEW cekArg,
             EncryptAEAD(s, suite, cekArg, size)
      PROVE  Goal
  <2>1. CASE UNCHANGED crypto
    BY <1>2, <1>4, <2>1 DEF EncryptAEAD
  <2>2. CASE /\ EncryptAEADError(suite, cekArg, size) = ""
             /\ crypto' = [crypto EXCEPT ![s] =
                  CryptoFor(s, suite, chunkAEADForSuite(suite), size, cekArg, "", <<>>)]
    <3>1. size \in Nat /\ UNCHANGED wire
      BY <1>4, <2>2, CheckedSize DEF EncryptAEAD
    <3> QED BY <1>1, <2>2, <3>1, NamedEmpty
  <2> QED BY <1>4, <2>1, <2>2 DEF EncryptAEAD
<1>5. ASSUME NEW s \in Streams, NEW suite, NEW size \in ChunkArgs, NEW public,
             EncryptMLKEM(s, suite, public, size)
      PROVE  Goal
  <2> DEFINE env == wrapCEK(public, suite, CEKOf(s, "generate"), buildCEKWrapAAD(suite, s), s)
  <2>1. CASE UNCHANGED crypto
    BY <1>2, <1>5, <2>1 DEF EncryptMLKEM
  <2>2. CASE /\ EncryptMLKEMError(suite, public, size) = ""
             /\ crypto' = [crypto EXCEPT ![s] =
                  CryptoFor(s, suite, "AES256GCM", size, "generate", public.seed,
                            serializeKEMHeader(env))]
    <3>1. suite \in KEMSuites
      BY <2>2 DEF EncryptMLKEMError, isMLKEM
    <3>2. env.ek.suite = suite
      BY DEF wrapCEK
    <3>3. Named(serializeKEMHeader(env))
      BY <3>1, <3>2, NamedEnvelope
    <3>4. size \in Nat /\ UNCHANGED wire
      BY <1>5, <2>2, CheckedSize DEF EncryptMLKEM
    <3> HIDE DEF env
    <3> QED BY <1>1, <2>2, <3>3, <3>4
  <2> QED BY <1>5, <2>1, <2>2 DEF EncryptMLKEM
<1>6. ASSUME NEW s \in Streams, WriteHeader(s) PROVE Goal
  <2>1. Named(crypto[s].header)
    BY DEF HeadersNamed
  <2> QED BY <1>3, <1>6, <2>1 DEF WriteHeader
<1>7. ASSUME NEW s \in Streams, ReadFirst(s) \/ ReadNext(s) \/ SourceError(s) PROVE Goal
  BY <1>2, <1>7 DEF ReadFirst, ReadNext, SourceError
<1>8. ASSUME NEW s \in Streams, WritePrefix(s) PROVE Goal
  <2>1. current[s].have + TagLen \in Nat
    BY LengthAssumption DEF WriterInv, WTyping, WriterTypeOK, Chunks
  <2>2. Named(Cells(PrefixObj(current[s].have + TagLen)))
    BY <2>1, NamedPrefix
  <2> QED BY <1>3, <1>8, <2>2 DEF WritePrefix
<1>9. ASSUME NEW s \in Streams, WriteRecord(s) PROVE Goal
  <2>1. current[s].have \in Nat
    BY DEF WriterInv, WTyping, WriterTypeOK, Chunks
  <2>2. Named(Cells(RecordObj(record[s], current[s].have)))
    BY <2>1, NamedRecord
  <2> QED BY <1>3, <1>9, <2>2 DEF WriteRecord
<1>10. CASE UNCHANGED writerVars
  BY <1>2, <1>10 DEF writerVars
<1> QED
  BY <1>4, <1>5, <1>6, <1>7, <1>8, <1>9, <1>10 DEF WriterNext, WriterCall, WriterStep

LEMMA NamedReplace ==
  ASSUME NEW cells, NEW i, NEW j, NEW others, Named(cells), Named(others),
         i \in 0 .. Len(cells), j \in 0 .. Len(cells)
  PROVE  Named(Replace(cells, i, j, others))
<1>1. Len(cells) \in Nat
  BY DEF Named
<1>2. Named(SubSeq(cells, 1, i))
  BY <1>1, NamedSubSeq
<1>3. Named(SubSeq(cells, j + 1, Len(cells)))
  <2>1. j + 1 \in Int /\ 1 <= j + 1 /\ Len(cells) \in Int
    BY <1>1
  <2> QED BY <1>1, <2>1, NamedSubSeq
<1> QED BY <1>2, <1>3, NamedConcat, Zenon DEF Replace

LEMMA EndsWithin ==
  ASSUME NEW cells, Named(cells), NEW i \in Ends(cells)
  PROVE  i \in 0 .. Len(cells) /\ Len(cells) \in Nat
  BY DEF Ends, Named

\* A header that is parsed names a stream, and so does an altered one.
LEMMA NamedParsed ==
  ASSUME NEW cells, Named(cells), NEW h \in HeaderOf(cells)
  PROVE  HeaderOK(h)
<1>1. PICK o \in Spelled(cells) : "header" \in DOMAIN o /\ o.header = h
  BY DEF HeaderOf
<1>2. cells # <<>> /\ o = cells[1].obj
  BY <1>1 DEF Spelled
<1>3. 1 \in DOMAIN cells
  BY <1>2 DEF Named
<1> QED BY <1>1, <1>2, <1>3 DEF Named, CellOK

LEMMA NamedAltered ==
  ASSUME NEW h, HeaderOK(h), NEW g \in AlteredHeaders(h)
  PROVE  HeaderOK(g)
<1>1. MaxChunkSize \in Nat
  BY LengthAssumption
<1> QED BY <1>1 DEF AlteredHeaders, HeaderOK

\* What the medium makes of a container.
LEMMA MediumNamed ==
  ASSUME HeadersNamed, Medium PROVE Named(store')
<1>1. Named(store) /\ Len(store) \in Nat
  BY DEF HeadersNamed, Named
<1>2. ASSUME NEW cells, Damage(cells), Named(cells) PROVE Named(store')
  BY <1>2 DEF Damage
<1>3. ASSUME NEW s \in Streams, Fetch(s) PROVE Named(store')
  BY <1>3 DEF Fetch, HeadersNamed
<1>4. ASSUME NEW a, NEW i \in Ends(a), NEW j \in Ends(a), Named(a)
      PROVE  Named(SubSeq(a, i + 1, j))
  <2>1. i \in Nat /\ j \in Nat /\ j <= Len(a)
    BY <1>4, EndsWithin
  <2> QED BY <1>4, <2>1, NamedSubSeq
<1>5. ASSUME Truncate PROVE Named(store')
  <2>1. PICK n \in 0 .. Len(store) - 1 : Damage(SubSeq(store, 1, n))
    BY <1>5 DEF Truncate
  <2>2. n \in Int /\ n <= Len(store)
    BY <1>1
  <2>3. Named(SubSeq(store, 1, n))
    BY <1>1, <2>2, NamedSubSeq
  <2> QED BY <1>2, <2>1, <2>3
<1>6. ASSUME DropBlock PROVE Named(store')
  <2>1. PICK i, j \in Ends(store) : Damage(Replace(store, i, j, <<>>))
    BY <1>6 DEF DropBlock
  <2>2. Named(Replace(store, i, j, <<>>))
    BY <1>1, NamedEmpty, NamedReplace, EndsWithin
  <2> QED BY <1>2, <2>1, <2>2
<1>7. ASSUME RepeatBlock PROVE Named(store')
  <2>1. PICK i, j, k \in Ends(store) : Damage(Replace(store, k, k, SubSeq(store, i + 1, j)))
    BY <1>7 DEF RepeatBlock
  <2>2. Named(SubSeq(store, i + 1, j))
    BY <1>1, <1>4
  <2>3. Named(Replace(store, k, k, SubSeq(store, i + 1, j)))
    BY <1>1, <2>2, NamedReplace, EndsWithin
  <2> QED BY <1>2, <2>1, <2>3
<1>8. ASSUME SwapBlocks PROVE Named(store')
  <2>1. PICK i, j, k \in Ends(store) :
          Damage(Replace(store, i, k, SubSeq(store, j + 1, k) \o SubSeq(store, i + 1, j)))
    BY <1>8 DEF SwapBlocks
  <2>2. Named(SubSeq(store, j + 1, k)) /\ Named(SubSeq(store, i + 1, j))
    BY <1>1, <1>4
  <2>3. Named(SubSeq(store, j + 1, k) \o SubSeq(store, i + 1, j))
    BY <2>2, NamedConcat
  <2>4. Named(Replace(store, i, k, SubSeq(store, j + 1, k) \o SubSeq(store, i + 1, j)))
    BY <1>1, <2>3, NamedReplace, EndsWithin
  <2> QED BY <1>2, <2>1, <2>4
<1>9. ASSUME SpliceBlock PROVE Named(store')
  <2>1. PICK t \in Streams : \E i, j \in Ends(store), k, l \in Ends(wire[t]) :
          Damage(Replace(store, i, j, SubSeq(wire[t], k + 1, l)))
    BY <1>9 DEF SpliceBlock
  <2>2. PICK i, j \in Ends(store), k, l \in Ends(wire[t]) :
          Damage(Replace(store, i, j, SubSeq(wire[t], k + 1, l)))
    BY <2>1
  <2>3. Named(wire[t])
    BY DEF HeadersNamed
  <2>4. Named(SubSeq(wire[t], k + 1, l))
    BY <1>4, <2>3
  <2>5. Named(Replace(store, i, j, SubSeq(wire[t], k + 1, l)))
    BY <1>1, <2>4, NamedReplace, EndsWithin
  <2> QED BY <1>2, <2>2, <2>5
<1>10. ASSUME AlterHeader PROVE Named(store')
  <2>1. PICK h \in HeaderOf(SubSeq(store, 1, FixedHeaderLen)) : \E g \in AlteredHeaders(h) :
          Damage(Replace(store, 0, FixedHeaderLen, Cells(HeaderObj(g))))
    BY <1>10 DEF AlterHeader
  <2>2. PICK g \in AlteredHeaders(h) :
          Damage(Replace(store, 0, FixedHeaderLen, Cells(HeaderObj(g))))
    BY <2>1
  <2>3. FixedHeaderLen <= Len(store) /\ FixedHeaderLen \in Nat
    BY <1>10, LengthAssumption DEF AlterHeader
  <2>4. Named(SubSeq(store, 1, FixedHeaderLen))
    BY <1>1, <2>3, NamedSubSeq
  <2>5. Named(Cells(HeaderObj(g)))
    BY <2>4, NamedParsed, NamedAltered, NamedHeader
  <2>6. Named(Replace(store, 0, FixedHeaderLen, Cells(HeaderObj(g))))
    <3>1. 0 \in 0 .. Len(store) /\ FixedHeaderLen \in 0 .. Len(store)
      BY <1>1, <2>3
    <3> QED BY <1>1, <2>5, <3>1, NamedReplace
  <2> QED BY <1>2, <2>2, <2>6
<1>11. ASSUME AlterPrefix PROVE Named(store')
  <2>1. PICK i \in Ends(store), v \in StrayLens :
          /\ i + PrefixLen <= Len(store)
          /\ Damage(Replace(store, i, i + PrefixLen, Cells(PrefixObj(v))))
    BY <1>11 DEF AlterPrefix
  <2>2. i \in 0 .. Len(store) /\ i + PrefixLen \in 0 .. Len(store)
    BY <1>1, <2>1, EndsWithin, LengthAssumption
  <2>3. Named(Replace(store, i, i + PrefixLen, Cells(PrefixObj(v))))
    <3>1. v \in Nat
      BY ReaderAssumption
    <3> QED BY <1>1, <2>2, <3>1, NamedPrefix, NamedReplace
  <2> QED BY <1>2, <2>1, <2>3
<1> QED
  BY <1>3, <1>5, <1>6, <1>7, <1>8, <1>9, <1>10, <1>11, Medium DEF Medium

\* The header the reader accepts names a stream.
LEMMA AcceptedNamed ==
  ASSUME ReaderInv, HeadersNamed, rpc = "header",
         NEW k \in Counts(FixedHeaderLen), NEW h \in HeaderOf(Bytes(k))
  PROVE  HeaderOK(h)
<1>1. Named(store) /\ Len(store) \in Nat /\ pos = 0 /\ FixedHeaderLen \in Nat
  BY LengthAssumption DEF HeadersNamed, Named, ReaderInv
<1>2. k \in Nat /\ k <= Len(store)
  BY <1>1, ReadFullCount DEF Counts
<1>3. Named(Bytes(k))
  <2>1. pos + 1 \in Int /\ pos + k \in Int /\ 1 <= pos + 1 /\ pos + k <= Len(store)
    BY <1>1, <1>2
  <2> QED BY <1>1, <2>1, NamedSubSeq DEF Bytes
<1> QED BY <1>3, NamedParsed

LEMMA HeadersNamedInit == Init => HeadersNamed
<1> SUFFICES ASSUME Init PROVE HeadersNamed
  OBVIOUS
<1>1. /\ DOMAIN wire = Streams /\ store = <<>> /\ rkey = NoKey
      /\ \A s \in Streams : wire[s] = <<>> /\ crypto[s].header = <<>>
  BY DEF Init, ReaderInit, WriterInit, NoCrypto, NoKey
<1> QED BY <1>1, NamedEmpty DEF HeadersNamed

LEMMA HeadersNamedNext ==
  ASSUME WriterInv, ReaderInv, HeadersNamed, [Next]_vars PROVE HeadersNamed'
<1>1. ASSUME UNCHANGED writerVars
      PROVE  /\ DOMAIN wire' = Streams
             /\ \A s \in Streams : Named(crypto'[s].header) /\ Named(wire'[s])
  BY <1>1 DEF HeadersNamed, writerVars
<1>2. CASE Writing
  <2>1. UNCHANGED <<store, rkey, header>> /\ [WriterNext]_writerVars
    BY <1>2 DEF Writing, readerVars
  <2> QED BY <2>1, WritersNamed DEF HeadersNamed
<1>3. CASE Medium
  <2>1. UNCHANGED <<rkey, header>> /\ UNCHANGED writerVars
    BY <1>3 DEF Medium, Fetch, Truncate, DropBlock, RepeatBlock, SwapBlocks, SpliceBlock,
                AlterHeader, AlterPrefix, Damage
  <2> QED BY <1>1, <1>3, <2>1, MediumNamed DEF HeadersNamed
<1>4. CASE Reading
  <2>1. UNCHANGED writerVars /\ UNCHANGED store
    BY <1>4 DEF Reading, ReaderCall, DecryptAEAD, DecryptMLKEM, ReaderStep, ReadHeader,
                ReadEnvelopeField, RecoverCEK, ReadFirstPrefix, ReadRecord, PeekPrefix,
                OpenChunk, ReadError
  <2>2. rkey' # NoKey => header'.streamID \in Streams
    <3>1. CASE ReadHeader
      <4>1. PICK k \in Counts(FixedHeaderLen) :
              \/ UNCHANGED rkey
              \/ \E h \in HeaderOf(Bytes(k)) : header' = h
        BY <3>1 DEF ReadHeader, AcceptHeader
      <4>2. rpc = "header" /\ rkey = NoKey
        BY <3>1 DEF ReadHeader, ReaderInv, Opening
      <4> QED BY <4>1, <4>2, AcceptedNamed DEF HeaderOK
    <3>2. CASE RecoverCEK
      BY <3>2, RecoveredIsWrapped DEF RecoverCEK, HeadersNamed
    <3>3. CASE ~ReadHeader /\ ~RecoverCEK
      <4>1. UNCHANGED <<rkey, header>>
        BY <1>4, <3>3
        DEF Reading, ReaderCall, DecryptAEAD, DecryptMLKEM, ReaderStep, ReadEnvelopeField,
            ReadFirstPrefix, ReadRecord, PeekPrefix, OpenChunk, ReadError
      <4> QED BY <4>1 DEF HeadersNamed
    <3> QED BY <3>1, <3>2, <3>3
  <2> QED BY <1>1, <2>1, <2>2 DEF HeadersNamed
<1>5. CASE UNCHANGED vars
  <2>1. UNCHANGED writerVars /\ UNCHANGED <<store, rkey, header>>
    BY <1>5 DEF vars, readerVars
  <2> QED BY <1>1, <2>1 DEF HeadersNamed
<1> QED BY <1>2, <1>3, <1>4, <1>5 DEF Next

-----------------------------------------------------------------------------
\* The refinement of StreamPromise.

from == IF rkey = NoKey THEN {} ELSE {header.streamID}

verdict == IF rpc \in {"ok", "failed"} THEN rpc ELSE "reading"

\* The two modules' plaintext prefixes are the same.
LEMMA SamePrefix ==
  ASSUME NEW s, NEW n \in Nat
  PROVE  PlainBytes(s, 0, n) = Promise!PrefixOf(s, n)
  BY DEF PlainBytes, Promise!PrefixOf

\* The abstract steps, in terms of StreamTransfer's variables.
LEMMA PromiseFail ==
  ASSUME verdict = "reading", verdict' = "failed", UNCHANGED <<plain, from, dst>>
  PROVE  Promise!Next
  BY DEF Promise!Next, Promise!Fail, from, verdict, NoKey

LEMMA PromiseIdentify ==
  ASSUME NEW s \in Streams, verdict = "reading", from = {}, from' = {s},
         UNCHANGED <<plain, dst, verdict>>
  PROVE  Promise!Next
<1>1. Promise!Identify(s)
  BY DEF Promise!Identify, from, verdict, NoKey
<1> QED BY <1>1 DEF Promise!Next

LEMMA PromiseDeliver ==
  ASSUME NEW s \in Streams, verdict = "reading", from = {s},
         verdict' \in {"reading", "failed"},
         \E n \in Len(dst) .. plain[s] : dst' = Promise!PrefixOf(s, n),
         UNCHANGED <<plain, from>>
  PROVE  Promise!Next
<1>1. Promise!Deliver(s)
  BY DEF Promise!Deliver, from, verdict, NoKey
<1> QED BY <1>1 DEF Promise!Next

LEMMA PromiseFinish ==
  ASSUME NEW s \in Streams, verdict = "reading", from = {s}, verdict' = "ok",
         dst' = Promise!PrefixOf(s, plain[s]), UNCHANGED <<plain, from>>
  PROVE  Promise!Next
<1>1. Promise!Finish(s)
  BY DEF Promise!Finish, from, verdict, NoKey
<1> QED BY <1>1 DEF Promise!Next

\* Opening a chunk fails, delivers or finishes.
LEMMA OpenKeepsPromise ==
  ASSUME WriterInv, ReaderInv, HeadersNamed, ~EmptyReads, OpenChunk, UNCHANGED plain
  PROVE  Promise!Next
<1> DEFINE s == header.streamID
<1>1. /\ rpc = "open" /\ UNCHANGED <<header, rkey>> /\ rkey # NoKey /\ s \in Streams
      /\ rpc' \in {"ok", "record", "failed"}
  BY DEF OpenChunk, ReaderInv, Looping, HeadersNamed
<1>2. from = {s} /\ UNCHANGED from /\ verdict = "reading"
  BY <1>1 DEF from, verdict
<1>3. CASE rpc' = "failed" /\ UNCHANGED dst
  <2>1. verdict' = "failed"
    BY <1>3 DEF verdict
  <2> QED BY <1>2, <1>3, <2>1, PromiseFail
<1>4. ASSUME NEW chunk \in OpenedChunks
      PROVE  /\ chunk.src = s /\ chunk.lo \in Nat /\ chunk.have \in Nat
             /\ dst = PlainBytes(s, 0, chunk.lo) /\ Len(dst) = chunk.lo
             /\ plain[s] \in Nat /\ chunk.lo + chunk.have <= plain[s]
             /\ isFinal => chunk.lo + chunk.have = plain[s]
  <2>1. PICK r \in ChunkRecords :
          /\ Own(r) /\ r.pt = chunk /\ chunk.lo \in Nat /\ chunk.have \in Nat
          /\ r.aad.isFinal = isFinal /\ chunk.src = s
          /\ dst = PlainBytes(s, 0, chunk.lo)
    BY <1>1, OpensTheNext
  <2>2. Len(dst) = chunk.lo
    <3>1. 0 \in Nat
      OBVIOUS
    <3> QED BY <2>1, <3>1, PlainBytesSeq, ZenonT(60)
  <2>3. plain[s] \in Nat /\ chunk.lo + chunk.have <= plain[s]
    BY <2>1, OwnRecord
  <2>4. isFinal => chunk.lo + chunk.have = plain[s]
    BY <2>1 DEF WriterInv, FinalOK, Own
  <2> QED BY <2>1, <2>2, <2>3, <2>4
<1>5. ASSUME NEW chunk \in OpenedChunks, NEW n \in 0 .. chunk.have,
             dst' = dst \o PlainBytes(chunk.src, chunk.lo, n)
      PROVE  /\ chunk.lo + n \in Len(dst) .. plain[s]
             /\ dst' = Promise!PrefixOf(s, chunk.lo + n)
  <2>1. /\ chunk.src = s /\ chunk.lo \in Nat /\ chunk.have \in Nat
        /\ dst = PlainBytes(s, 0, chunk.lo) /\ Len(dst) = chunk.lo
        /\ plain[s] \in Nat /\ chunk.lo + chunk.have <= plain[s]
    BY <1>4
  <2>2. n \in Nat /\ chunk.lo + n \in Nat /\ chunk.lo + n \in Len(dst) .. plain[s]
    BY <2>1
  <2>3. PlainBytes(s, 0, chunk.lo) \o PlainBytes(s, chunk.lo, n) = PlainBytes(s, 0, chunk.lo + n)
    BY <2>1, <2>2, PlainBytesJoin
  <2>4. PlainBytes(s, 0, chunk.lo + n) = Promise!PrefixOf(s, chunk.lo + n)
    BY <2>2, SamePrefix
  <2> QED BY <1>5, <2>1, <2>2, <2>3, <2>4
<1>6. ASSUME NEW chunk \in OpenedChunks,
             dst' = dst \o PlainBytes(chunk.src, chunk.lo, chunk.have),
             isFinal, rpc' = "ok"
      PROVE  Promise!Next
  <2>1. chunk.have \in 0 .. chunk.have /\ chunk.lo + chunk.have = plain[s]
    BY <1>4, <1>6
  <2>2. dst' = Promise!PrefixOf(s, plain[s])
    BY <1>5, <1>6, <2>1
  <2>3. verdict' = "ok"
    BY <1>6 DEF verdict
  <2> QED BY <1>1, <1>2, <2>2, <2>3, PromiseFinish
<1>7. ASSUME NEW chunk \in OpenedChunks, NEW n \in 0 .. chunk.have,
             dst' = dst \o PlainBytes(chunk.src, chunk.lo, n),
             rpc' \in {"record", "failed"}
      PROVE  Promise!Next
  <2>1. \E m \in Len(dst) .. plain[s] : dst' = Promise!PrefixOf(s, m)
    BY <1>5, <1>7
  <2>2. verdict' \in {"reading", "failed"}
    BY <1>7 DEF verdict
  <2> QED BY <1>1, <1>2, <2>1, <2>2, PromiseDeliver
<1>8. ASSUME NEW chunk \in OpenedChunks,
             dst' = dst \o PlainBytes(chunk.src, chunk.lo, chunk.have), rpc' = "record"
      PROVE  Promise!Next
  <2>1. chunk.have \in 0 .. chunk.have
    BY <1>4
  <2> QED BY <1>7, <1>8, <2>1
<1> QED BY <1>3, <1>6, <1>7, <1>8 DEF OpenChunk

\* A step of a writer leaves the plaintexts alone.
LEMMA PlainFixed == [WriterNext]_writerVars => UNCHANGED plain
<1>1. ASSUME NEW s, NEW suite, NEW cekArg, NEW size, EncryptAEAD(s, suite, cekArg, size)
      PROVE  UNCHANGED plain
  BY <1>1 DEF EncryptAEAD
<1>2. ASSUME NEW s, NEW suite, NEW public, NEW size, EncryptMLKEM(s, suite, public, size)
      PROVE  UNCHANGED plain
  BY <1>2 DEF EncryptMLKEM
<1>3. ASSUME NEW s, WriterStep(s) \/ SourceError(s) PROVE UNCHANGED plain
  BY <1>3 DEF WriterStep, WriteHeader, ReadFirst, ReadNext, WritePrefix, WriteRecord,
              SourceError
<1>4. UNCHANGED writerVars => UNCHANGED plain
  BY DEF writerVars
<1> QED BY <1>1, <1>2, <1>3, <1>4 DEF WriterNext, WriterCall

LEMMA PromiseNext ==
  ASSUME WriterInv, ReaderInv, HeadersNamed, ~EmptyReads, [Next]_vars
  PROVE  [Promise!Next]_Promise!promiseVars
<1>1. UNCHANGED plain
  BY PlainFixed, WriterSteps
<1>2. ASSUME UNCHANGED <<from, dst, verdict>> PROVE UNCHANGED Promise!promiseVars
  BY <1>1, <1>2 DEF Promise!promiseVars, from, verdict, NoKey
<1>3. ASSUME UNCHANGED <<from, dst>>, verdict = "reading", verdict' = "failed"
      PROVE  Promise!Next
  BY <1>1, <1>3, PromiseFail
<1>4. ASSUME rkey = NoKey, rkey' # NoKey, header'.streamID \in Streams,
             UNCHANGED dst, verdict = "reading", verdict' = "reading"
      PROVE  Promise!Next
  <2>1. from = {} /\ from' = {header'.streamID}
    BY <1>4 DEF from
  <2> QED BY <1>1, <1>4, <2>1, PromiseIdentify
<1>5. CASE Writing \/ UNCHANGED vars
  <2>1. UNCHANGED readerVars
    BY <1>5 DEF Writing, vars
  <2> QED BY <1>2, <2>1 DEF readerVars, from, verdict
<1>6. CASE Medium
  <2>1. UNCHANGED <<rkey, header, dst, rpc>>
    BY <1>6 DEF Medium, Fetch, Truncate, DropBlock, RepeatBlock, SwapBlocks, SpliceBlock,
                AlterHeader, AlterPrefix, Damage
  <2> QED BY <1>2, <2>1 DEF from, verdict
<1>7. CASE Reading
  <2>1. ASSUME UNCHANGED <<rkey, header, dst>>, rpc \notin {"ok", "failed"}, rpc' # "ok"
        PROVE  [Promise!Next]_Promise!promiseVars
    <3>1. UNCHANGED from /\ verdict = "reading" /\ verdict' \in {"reading", "failed"}
      BY <2>1 DEF from, verdict
    <3> QED BY <1>2, <1>3, <2>1, <3>1
  <2>2. CASE ReaderCall
    <3>1. UNCHANGED <<rkey, header, dst>> /\ rpc = "idle" /\ rpc' \in {"header", "failed"}
      BY <2>2 DEF ReaderCall, DecryptAEAD, DecryptMLKEM
    <3> QED BY <2>1, <3>1
  <2>3. CASE ReadHeader
    <3>1. rpc = "header" /\ rkey = NoKey /\ UNCHANGED dst
      BY <2>3 DEF ReadHeader, ReaderInv, Opening
    <3>2. PICK k \in Counts(FixedHeaderLen) :
            \/ UNCHANGED <<rkey, header>> /\ rpc' = "failed"
            \/ \E h \in HeaderOf(Bytes(k)) : AcceptHeader(h)
      BY <2>3 DEF ReadHeader
    <3>3. CASE UNCHANGED <<rkey, header>> /\ rpc' = "failed"
      BY <2>1, <3>1, <3>3
    <3>4. CASE \E h \in HeaderOf(Bytes(k)) : AcceptHeader(h)
      <4>1. /\ header'.streamID \in Streams
            /\ \/ rpc' = "first" /\ rkey' # NoKey
               \/ rpc' = "envelope" /\ UNCHANGED rkey
        BY <3>1, <3>4, AcceptedNamed, KeyIsKey DEF AcceptHeader, HeaderOK
      <4>2. verdict = "reading" /\ verdict' = "reading"
        BY <3>1, <4>1 DEF verdict
      <4>3. CASE UNCHANGED rkey
        <5>1. UNCHANGED from
          BY <3>1, <4>3 DEF from
        <5> QED BY <1>2, <3>1, <4>2, <5>1
      <4> QED BY <1>4, <3>1, <4>1, <4>2, <4>3
    <3> QED BY <3>2, <3>3, <3>4
  <2>4. CASE RecoverCEK
    <3>1. rpc = "recover" /\ rkey = NoKey /\ UNCHANGED <<header, dst>>
      BY <2>4 DEF RecoverCEK, ReaderInv, Opening
    <3>2. CASE rpc' = "failed" /\ UNCHANGED rkey
      BY <2>1, <3>1, <3>2
    <3>3. CASE rpc' = "first" /\ RecoveredCEKs # {} /\ rkey' # NoKey
      <4>1. header'.streamID \in Streams
        BY <3>1, <3>3, RecoveredIsWrapped
      <4>2. verdict = "reading" /\ verdict' = "reading"
        BY <3>1, <3>3 DEF verdict
      <4> QED BY <1>4, <3>1, <3>3, <4>1, <4>2
    <3> QED BY <2>4, <3>2, <3>3, KeyIsKey DEF RecoverCEK
  <2>5. CASE OpenChunk
    BY <1>1, <2>5, OpenKeepsPromise
  <2>6. CASE ReadEnvelopeField \/ ReadFirstPrefix \/ ReadRecord \/ PeekPrefix \/ ReadError
    <3>1. /\ UNCHANGED <<rkey, header, dst>> /\ rpc' # "ok"
          /\ rpc \in {"header", "envelope", "first", "record", "peek"}
      BY <2>6 DEF ReadEnvelopeField, ReadFirstPrefix, ReadRecord, PeekPrefix, ReadError
    <3> QED BY <2>1, <3>1
  <2> QED BY <1>7, <2>2, <2>3, <2>4, <2>5, <2>6 DEF Reading, ReaderStep
<1> QED BY <1>5, <1>6, <1>7 DEF Next

\* StreamTransfer implements StreamPromise: with sources that return no empty
\* reads, what a receiver sees of a decryption is an ever longer prefix of one
\* stream's plaintext and success only with all of it, for any damage on the
\* way and wherever the call that wrote the container stopped.
THEOREM TransferKeepsPromise ==
  ASSUME ~EmptyReads
  PROVE  Spec => KeepsPromise
<1>1. Init => Promise!Init
  BY TypingInit DEF Init, ReaderInit, WTyping, WriterTypeOK, Promise!Init
<1>2. Init => HeadersNamed
  BY HeadersNamedInit
<1>3. (WriterInv /\ ReaderInv) /\ HeadersNamed /\ [Next]_vars => HeadersNamed'
  BY HeadersNamedNext
<1>4. (WriterInv /\ ReaderInv) /\ HeadersNamed /\ [Next]_vars
        => [Promise!Next]_Promise!promiseVars
  BY PromiseNext
<1> QED BY <1>1, <1>2, <1>3, <1>4, TransferInvariant, PTL DEF Spec, KeepsPromise, Promise!Spec

-----------------------------------------------------------------------------
(***************************************************************************)
(* CutClassified.  The container of a call that returned nil consists of   *)
(* pieces at known places (LayoutInv).  While a cut of it is decrypted     *)
(* with its key the reader stands at the start of one of them (CutAt), so  *)
(* each readFull returns that piece, or the cut lies in it and decides the *)
(* error.                                                                  *)
(***************************************************************************)

\* obj is what follows the first start cells of w, all of it.
Piece(w, start, obj) ==
  /\ start \in Nat /\ obj.size \in Nat
  /\ start + obj.size <= Len(w)
  /\ Holds(w, start, obj)

\* t is w cut short.
CutOf(t, w) ==
  /\ IsSeq(t) /\ IsSeq(w) /\ Len(t) \in Nat /\ Len(w) \in Nat
  /\ Len(t) < Len(w) /\ \A k \in 1 .. Len(t) : t[k] = w[k]

\* x is the k cells of t after the first p.
PartOf(x, t, p, k) ==
  /\ IsSeq(x) /\ Len(x) = k /\ DOMAIN x = 1 .. k
  /\ \A j \in 1 .. k : x[j] = t[p + j]

LEMMA SeqPart ==
  ASSUME NEW t, IsSeq(t), NEW p \in Nat, NEW k \in Nat, p + k <= Len(t)
  PROVE  PartOf(SubSeq(t, p + 1, p + k), t, p, k)
<1> DEFINE S == {t[i] : i \in DOMAIN t}
<1>1. t \in Seq(S)
  BY DEF IsSeq
<1> HIDE DEF S
<1>2. /\ SubSeq(t, p + 1, p + k) \in Seq(S) /\ Len(SubSeq(t, p + 1, p + k)) = k
      /\ \A j \in 1 .. k : SubSeq(t, p + 1, p + k)[j] = t[p + j]
  BY <1>1
<1>3. /\ IsSeq(SubSeq(t, p + 1, p + k))
      /\ DOMAIN SubSeq(t, p + 1, p + k) = 1 .. Len(SubSeq(t, p + 1, p + k))
  BY <1>2, SeqOf
<1> QED
  BY <1>2, <1>3, Zenon DEF PartOf

\* A readFull at the start of a piece of a container that was cut: it
\* returns the piece, or the cut is in the piece and ends what it returns.
LEMMA ReadPiece ==
  ASSUME NEW t, NEW w, CutOf(t, w), ~EmptyReads, NEW p, NEW obj, Piece(w, p, obj),
         p <= Len(t), NEW k \in readFullCounts(Len(t) - p, obj.size)
  PROVE  /\ k \in Nat
         /\ \/ /\ k = obj.size /\ p + k <= Len(t)
               /\ SubSeq(t, p + 1, p + k) = Cells(obj)
            \/ /\ k < obj.size /\ Len(t) = p + k
               /\ w[Len(t) + 1] = [obj |-> obj, at |-> k + 1]
<1> DEFINE z == obj.size
<1>0. z \in Nat /\ p \in Nat /\ Len(t) \in Nat /\ Len(w) \in Nat /\ Len(t) < Len(w)
      /\ k = Least(Len(t) - p, z) /\ p + z <= Len(w)
  BY DEF Piece, CutOf, readFullCounts
<1> DEFINE a == Len(t) b == Len(w)
<1> HIDE DEF z, a, b
<1>00. /\ z \in Nat /\ p \in Nat /\ a \in Nat /\ b \in Nat /\ a < b /\ p <= a
       /\ k = Least(a - p, z) /\ p + z <= b
  BY <1>0 DEF a, b
<1>1. k \in Nat /\ k <= z /\ p + k <= a /\ (k = z \/ (k < z /\ a = p + k))
  BY <1>00 DEF Least
<1>2. ASSUME NEW j \in 1 .. z, p + j <= b PROVE w[p + j] = [obj |-> obj, at |-> j]
  BY <1>2 DEF z, b, Piece, Holds
<1>3. CASE k = z
  <2> DEFINE x == SubSeq(t, p + 1, p + k)
  <2>1. PartOf(x, t, p, k)
    <3>1. IsSeq(t) /\ p \in Nat /\ k \in Nat /\ p + k <= Len(t)
      BY <1>1, <1>00 DEF CutOf, a
    <3> QED
      BY <3>1, SeqPart
  <2> HIDE DEF x
  <2>2. ASSUME NEW j \in 1 .. k PROVE t[p + j] = [obj |-> obj, at |-> j]
    <3>1. p + j \in 1 .. a /\ p + j <= b
      BY <1>1, <1>00
    <3>2. t[p + j] = w[p + j]
      BY <3>1 DEF CutOf, a
    <3> QED
      BY <3>1, <3>2, <1>2, <1>3
  <2>3. x = [j \in 1 .. k |-> x[j]]
    BY <2>1 DEF PartOf, IsSeq
  <2>4. \A j \in 1 .. k : x[j] = [obj |-> obj, at |-> j]
    BY <2>1, <2>2 DEF PartOf
  <2>5. x = [j \in 1 .. k |-> [obj |-> obj, at |-> j]]
    BY <2>3, <2>4
  <2>6. Cells(obj) = [j \in 1 .. k |-> [obj |-> obj, at |-> j]]
    BY <1>3 DEF Cells, z
  <2>7. SubSeq(t, p + 1, p + k) = Cells(obj)
    BY <2>5, <2>6, Zenon DEF x
  <2> QED
    BY <2>7, <1>1, <1>3, Zenon DEF z, a
<1>4. CASE k < z /\ a = p + k
  <2>1. a + 1 = p + (k + 1) /\ k + 1 \in 1 .. z /\ p + (k + 1) <= b
    <3>1. k \in Nat /\ p \in Nat /\ z \in Nat /\ b \in Nat /\ k < z /\ p + z <= b
      BY <1>4, <1>1, <1>00
    <3>2. k + 1 \in 1 .. z /\ p + (k + 1) <= b
      BY <3>1
    <3>3. p + k + 1 = p + (k + 1)
      BY <3>1
    <3> QED
      BY <3>2, <3>3, <1>4
  <2>2. w[a + 1] = [obj |-> obj, at |-> k + 1]
    BY <2>1, <1>2
  <2> QED
    BY <2>2, <1>4, <1>1 DEF z, a
<1> QED
  BY <1>1, <1>3, <1>4

\* The cells of an object spell it and nothing else.
LEMMA SpelledCells ==
  ASSUME NEW obj, obj.size \in Nat \ {0}
  PROVE  Spelled(Cells(obj)) = {obj}
<1>1. /\ IsSeq(Cells(obj)) /\ Len(Cells(obj)) = obj.size
      /\ \A k \in 1 .. obj.size : Cells(obj)[k] = [obj |-> obj, at |-> k]
  BY CellsSeq
<1>2. Cells(obj)[1].obj = obj
  <2>1. 1 \in 1 .. obj.size
    OBVIOUS
  <2>2. Cells(obj)[1] = [obj |-> obj, at |-> 1]
    BY <1>1, <2>1
  <2> QED
    BY <2>2
<1>3. Cells(obj) # <<>>
  BY <1>1, EmptyIsSeq
<1> QED
  BY <1>2, <1>3 DEF Spelled

LEMMA HeaderOfCells ==
  ASSUME NEW h PROVE HeaderOf(Cells(HeaderObj(h))) = {h}
<1>1. Spelled(Cells(HeaderObj(h))) = {HeaderObj(h)}
  <2>1. HeaderObj(h).size \in Nat \ {0}
    BY LengthAssumption DEF HeaderObj
  <2> QED
    BY <2>1, SpelledCells
<1>2. "header" \in DOMAIN HeaderObj(h) /\ HeaderObj(h).header = h
  BY DEF HeaderObj
<1> QED
  BY <1>1, <1>2 DEF HeaderOf

LEMMA PrefixValuesCells ==
  ASSUME NEW v PROVE PrefixValues(Cells(PrefixObj(v))) = {v}
<1>1. Spelled(Cells(PrefixObj(v))) = {PrefixObj(v)}
  <2>1. PrefixObj(v).size \in Nat \ {0}
    BY LengthAssumption DEF PrefixObj
  <2> QED
    BY <2>1, SpelledCells
<1>2. "prefix" \in DOMAIN PrefixObj(v) /\ PrefixObj(v).prefix = v
  BY DEF PrefixObj
<1> QED
  BY <1>1, <1>2 DEF PrefixValues

\* The pieces of the envelope, in order, and the cells before each; the last
\* number is the length of the header.
Fields(c) ==
  LET env == Envelope(c)
  IN <<PrefixObj(KEMCtLen[c.suiteID]), EncapsulatedKeyObj(env.ek), NonceObj(env.nonce),
       PrefixObj(CEKLen + TagLen), RecordObj(env.wrapped, CEKLen)>>

FieldStarts(c) ==
  LET f == FixedHeaderLen  p == PrefixLen  k == KEMCtLen[c.suiteID]
  IN <<f, f + p, f + p + k, f + p + k + NonceLen, f + p + k + NonceLen + p,
       f + p + k + NonceLen + p + (CEKLen + TagLen)>>

FieldLens(c) == <<KEMCtLen[c.suiteID], KEMCtLen[c.suiteID], NonceLen, CEKLen + TagLen,
                  CEKLen + TagLen>>

LEMMA FieldFacts ==
  ASSUME NEW c, NEW s, Prepared(c, s), isMLKEM(c.suiteID), NEW j \in 1 .. 5
  PROVE  /\ FieldStarts(c)[j] \in Nat /\ Fields(c)[j].size \in Nat \ {0}
         /\ FieldStarts(c)[j + 1] = FieldStarts(c)[j] + Fields(c)[j].size
         /\ FixedHeaderLen <= FieldStarts(c)[j]
         /\ FieldStarts(c)[j + 1] <= Len(c.header)
         /\ FieldStarts(c)[6] = Len(c.header)
         /\ Fields(c)[j].size = (IF IsPrefixField(j) THEN PrefixLen ELSE FieldLens(c)[j])
         /\ "prefix" \in DOMAIN Fields(c)[j] <=> IsPrefixField(j)
         /\ IsPrefixField(j) => Fields(c)[j] = PrefixObj(FieldLens(c)[j])
<1> DEFINE k == KEMCtLen[c.suiteID]
           q == Len(KEMPart(c))
<1>1. /\ Envelope(c).ek.suite \in KEMSuites /\ Envelope(c).ek.suite = c.suiteID
      /\ k \in Nat \ {0}
  <2>1. Envelope(c).ek.suite = c.suiteID
    BY EnvelopeSuite
  <2>2. c.suiteID \in KEMSuites
    BY DEF isMLKEM
  <2>3. k \in Nat \ {0}
    BY <2>2, LengthAssumption
  <2> QED
    BY <2>1, <2>2, <2>3
<1>2. q = PrefixLen + k + NonceLen + PrefixLen + (CEKLen + TagLen)
  <2>1. KEMPart(c) = serializeKEMHeader(Envelope(c))
    BY DEF KEMPart
  <2> QED
    BY <2>1, <1>1, EnvelopeSeq
<1>3. Len(c.header) = FixedHeaderLen + q
  BY PreparedHeader
<1> DEFINE g == Len(c.header)
<1>4. g = FixedHeaderLen + q
  BY <1>3
<1> HIDE DEF k, q, g
<1> DEFINE f == FixedHeaderLen  p == PrefixLen
<1>5. FieldStarts(c) = <<f, f + p, f + p + k, f + p + k + NonceLen, f + p + k + NonceLen + p,
       f + p + k + NonceLen + p + (CEKLen + TagLen)>>
  BY DEF FieldStarts, k
<1>6. FieldLens(c) = <<k, k, NonceLen, CEKLen + TagLen, CEKLen + TagLen>>
  BY DEF FieldLens, k
<1> DEFINE env == Envelope(c)
<1>7. Fields(c) = <<PrefixObj(k), EncapsulatedKeyObj(env.ek), NonceObj(env.nonce),
                    PrefixObj(CEKLen + TagLen), RecordObj(env.wrapped, CEKLen)>>
  BY DEF Fields, k
<1>8. /\ PrefixObj(k).size = p /\ EncapsulatedKeyObj(env.ek).size = k
      /\ NonceObj(env.nonce).size = NonceLen /\ PrefixObj(CEKLen + TagLen).size = p
      /\ RecordObj(env.wrapped, CEKLen).size = CEKLen + TagLen
  BY <1>1, EnvelopeSizes DEF k
<1>9. /\ "prefix" \in DOMAIN PrefixObj(k) /\ "prefix" \notin DOMAIN EncapsulatedKeyObj(env.ek)
      /\ "prefix" \notin DOMAIN NonceObj(env.nonce) /\ "prefix" \in DOMAIN PrefixObj(CEKLen + TagLen)
      /\ "prefix" \notin DOMAIN RecordObj(env.wrapped, CEKLen)
  BY DEF PrefixObj, EncapsulatedKeyObj, NonceObj, RecordObj
<1> HIDE DEF env
<1>10. /\ f \in Nat /\ p \in Nat \ {0} /\ NonceLen \in Nat \ {0} /\ CEKLen \in Nat
       /\ CEKLen + TagLen \in Nat \ {0} /\ k \in Nat \ {0}
  BY <1>1, LengthAssumption
<1>11. /\ FieldStarts(c)[j] \in Nat /\ f <= FieldStarts(c)[j]
       /\ FieldStarts(c)[j + 1] <= g /\ FieldStarts(c)[6] = g
       /\ FieldStarts(c)[j + 1] = FieldStarts(c)[j] + 
            (IF IsPrefixField(j) THEN p ELSE FieldLens(c)[j])
  BY <1>2, <1>4, <1>5, <1>6, <1>10 DEF IsPrefixField
<1>12. /\ Fields(c)[j].size \in Nat \ {0}
       /\ Fields(c)[j].size = (IF IsPrefixField(j) THEN p ELSE FieldLens(c)[j])
  BY <1>6, <1>7, <1>8, <1>10 DEF IsPrefixField
<1>13. /\ "prefix" \in DOMAIN Fields(c)[j] <=> IsPrefixField(j)
       /\ IsPrefixField(j) => Fields(c)[j] = PrefixObj(FieldLens(c)[j])
  BY <1>6, <1>7, <1>9 DEF IsPrefixField
<1> QED
  BY <1>11, <1>12, <1>13 DEF g

\* A piece of b is a piece of what begins with a \o b.
LEMMA PieceShifted ==
  ASSUME NEW a, NEW b, NEW w, IsSeq(a), IsSeq(b), Len(w) \in Nat,
         Len(a \o b) <= Len(w), \A k \in 1 .. Len(a \o b) : w[k] = (a \o b)[k],
         NEW start \in Nat, NEW obj, obj.size \in Nat, Holds(b, start, obj),
         start + obj.size <= Len(b)
  PROVE  Piece(w, Len(a) + start, obj)
<1>1. /\ Len(a) \in Nat /\ Len(b) \in Nat /\ Len(a \o b) = Len(a) + Len(b)
      /\ \A k \in 1 .. Len(b) : (a \o b)[Len(a) + k] = b[k]
  BY SeqConcat
<1> DEFINE x == Len(a)  y == Len(b)  z == obj.size
<1> HIDE DEF x, y, z
<1>2. x \in Nat /\ y \in Nat /\ z \in Nat /\ start + z <= y /\ x + y <= Len(w)
  BY <1>1 DEF x, y, z
<1>3. ASSUME NEW k \in 1 .. z PROVE w[x + start + k] = [obj |-> obj, at |-> k]
  <2>1. /\ start + k \in 1 .. y /\ x + (start + k) \in 1 .. x + y
        /\ x + start + k = x + (start + k)
    BY <1>2
  <2>2. b[start + k] = [obj |-> obj, at |-> k]
    BY <2>1 DEF Holds, y, z
  <2>3. (a \o b)[x + (start + k)] = b[start + k]
    BY <1>1, <2>1 DEF x, y
  <2>4. w[x + (start + k)] = (a \o b)[x + (start + k)]
    BY <1>1, <2>1 DEF x, y
  <2> QED
    BY <2>1, <2>2, <2>3, <2>4
<1>4. x + start \in Nat /\ x + start + z <= Len(w)
  BY <1>2
<1>5. Holds(w, x + start, obj)
  BY <1>3 DEF Holds, z
<1> QED
  BY <1>4, <1>5, <1>2 DEF Piece, x, z

\* w begins with the header of c.
Begins(c, w) ==
  /\ Len(w) \in Nat /\ Len(c.header) <= Len(w)
  /\ \A k \in 1 .. Len(c.header) : w[k] = c.header[k]

LEMMA HeaderPiece ==
  ASSUME NEW c, NEW s, Prepared(c, s), NEW w, Begins(c, w)
  PROVE  Piece(w, 0, HeaderObj(writeFixedHeader(c.suiteID, c.chunkSize, s, s)))
<1> DEFINE obj == HeaderObj(writeFixedHeader(c.suiteID, c.chunkSize, s, s))
           a == Cells(obj)
           b == KEMPart(c)
<1>1. obj.size = FixedHeaderLen /\ FixedHeaderLen \in Nat
  BY ObjectSizes, LengthAssumption
<1>2. c.header = a \o b
  BY DEF Prepared
<1> HIDE DEF obj
<1>3. IsSeq(b)
  BY PreparedHeader
<1>4. /\ IsSeq(a) /\ Len(a) = FixedHeaderLen
      /\ \A k \in 1 .. FixedHeaderLen : a[k] = [obj |-> obj, at |-> k]
  BY <1>1, CellsSeq
<1> HIDE DEF a, b
<1>5. /\ Len(b) \in Nat /\ Len(a \o b) = FixedHeaderLen + Len(b)
      /\ \A k \in 1 .. FixedHeaderLen : (a \o b)[k] = a[k]
  BY <1>3, <1>4, SeqConcat
<1>6. FixedHeaderLen <= Len(c.header) /\ Len(c.header) <= Len(w) /\ Len(c.header) \in Nat
  BY <1>1, <1>2, <1>5 DEF Begins
<1>7. ASSUME NEW k \in 1 .. FixedHeaderLen PROVE w[k] = [obj |-> obj, at |-> k]
  <2>1. k \in 1 .. Len(c.header)
    BY <1>6, <1>1
  <2>2. w[k] = c.header[k]
    BY <2>1 DEF Begins
  <2> QED
    BY <2>2, <1>2, <1>4, <1>5
<1>8. Holds(w, 0, obj)
  BY <1>7, <1>1 DEF Holds
<1>9. 0 + FixedHeaderLen <= Len(w)
  BY <1>6, <1>1 DEF Begins
<1>10. Piece(w, 0, obj)
  BY <1>1, <1>8, <1>9 DEF Piece
<1> QED
  BY <1>10 DEF obj

LEMMA FieldPiece ==
  ASSUME NEW c, NEW s, Prepared(c, s), isMLKEM(c.suiteID), NEW w, Begins(c, w),
         NEW j \in 1 .. 5
  PROVE  Piece(w, FieldStarts(c)[j], Fields(c)[j])
<1> DEFINE a == Cells(HeaderObj(writeFixedHeader(c.suiteID, c.chunkSize, s, s)))
           b == serializeKEMHeader(Envelope(c))
           k == KEMCtLen[c.suiteID]
           env == Envelope(c)
<1>1. c.header = a \o b
  BY DEF Prepared, KEMPart
<1>2. IsSeq(a) /\ Len(a) = FixedHeaderLen
  BY CellsSeq, ObjectSizes, LengthAssumption
<1>3. env.ek.suite \in KEMSuites /\ env.ek.suite = c.suiteID
  BY EnvelopeSuite DEF isMLKEM
<1>4. /\ IsSeq(b) /\ EnvelopeLaid(b, 0, env)
      /\ Len(b) = PrefixLen + k + NonceLen + PrefixLen + (CEKLen + TagLen)
  BY <1>3, EnvelopeSeq
<1>5. /\ PrefixLen \in Nat /\ k \in Nat /\ NonceLen \in Nat /\ CEKLen + TagLen \in Nat
      /\ FixedHeaderLen \in Nat
      /\ PrefixObj(k).size = PrefixLen /\ EncapsulatedKeyObj(env.ek).size = k
      /\ NonceObj(env.nonce).size = NonceLen
      /\ PrefixObj(CEKLen + TagLen).size = PrefixLen
      /\ RecordObj(env.wrapped, CEKLen).size = CEKLen + TagLen
  BY <1>3, EnvelopeSizes, LengthAssumption
<1>6. /\ Len(w) \in Nat /\ Len(a \o b) <= Len(w)
      /\ \A i \in 1 .. Len(a \o b) : w[i] = (a \o b)[i]
  BY <1>1 DEF Begins
<1>7. /\ Holds(b, 0, PrefixObj(k))
      /\ Holds(b, 0 + PrefixLen, EncapsulatedKeyObj(env.ek))
      /\ Holds(b, 0 + PrefixLen + k, NonceObj(env.nonce))
      /\ Holds(b, 0 + PrefixLen + k + NonceLen, PrefixObj(CEKLen + TagLen))
      /\ Holds(b, 0 + PrefixLen + k + NonceLen + PrefixLen, RecordObj(env.wrapped, CEKLen))
  BY <1>3, <1>4 DEF EnvelopeLaid
<1>8. /\ Fields(c) = <<PrefixObj(k), EncapsulatedKeyObj(env.ek), NonceObj(env.nonce),
                      PrefixObj(CEKLen + TagLen), RecordObj(env.wrapped, CEKLen)>>
  BY DEF Fields
<1> DEFINE f == FixedHeaderLen  p == PrefixLen
<1>9. FieldStarts(c) = <<f, f + p, f + p + k, f + p + k + NonceLen, f + p + k + NonceLen + p,
       f + p + k + NonceLen + p + (CEKLen + TagLen)>>
  BY DEF FieldStarts
<1> HIDE DEF a, b, k, env
<1>10. ASSUME NEW start \in Nat, NEW obj, obj.size \in Nat, Holds(b, start, obj),
              start + obj.size <= Len(b)
       PROVE  Piece(w, f + start, obj)
  BY <1>2, <1>4, <1>6, <1>10, PieceShifted
<1>11. CASE j = 1
  <2>1. Piece(w, f + 0, PrefixObj(k))
    <3>1. 0 + PrefixObj(k).size <= Len(b) /\ PrefixObj(k).size \in Nat
      BY <1>4, <1>5
    <3> QED
      BY <1>7, <1>10, <3>1
  <2>2. FieldStarts(c)[j] = f + 0 /\ Fields(c)[j] = PrefixObj(k)
    BY <1>5, <1>8, <1>9, <1>11
  <2> QED
    BY <2>1, <2>2
<1>12. CASE j = 2
  <2>1. Piece(w, f + (0 + PrefixLen), EncapsulatedKeyObj(env.ek))
    <3>1. /\ 0 + PrefixLen + EncapsulatedKeyObj(env.ek).size <= Len(b) /\ 0 + PrefixLen \in Nat
          /\ EncapsulatedKeyObj(env.ek).size \in Nat
      BY <1>4, <1>5
    <3> QED
      BY <1>7, <1>10, <3>1
  <2>2. FieldStarts(c)[j] = f + (0 + PrefixLen) /\ Fields(c)[j] = EncapsulatedKeyObj(env.ek)
    BY <1>5, <1>8, <1>9, <1>12
  <2> QED
    BY <2>1, <2>2
<1>13. CASE j = 3
  <2>1. Piece(w, f + (0 + PrefixLen + k), NonceObj(env.nonce))
    <3>1. /\ 0 + PrefixLen + k + NonceObj(env.nonce).size <= Len(b) /\ 0 + PrefixLen + k \in Nat
          /\ NonceObj(env.nonce).size \in Nat
      BY <1>4, <1>5
    <3> QED
      BY <1>7, <1>10, <3>1
  <2>2. FieldStarts(c)[j] = f + (0 + PrefixLen + k) /\ Fields(c)[j] = NonceObj(env.nonce)
    BY <1>5, <1>8, <1>9, <1>13
  <2> QED
    BY <2>1, <2>2
<1>14. CASE j = 4
  <2>1. Piece(w, f + (0 + PrefixLen + k + NonceLen), PrefixObj(CEKLen + TagLen))
    <3>1. /\ 0 + PrefixLen + k + NonceLen + PrefixObj(CEKLen + TagLen).size <= Len(b)
          /\ 0 + PrefixLen + k + NonceLen \in Nat
          /\ PrefixObj(CEKLen + TagLen).size \in Nat
      BY <1>4, <1>5
    <3> QED
      BY <1>7, <1>10, <3>1
  <2>2. /\ FieldStarts(c)[j] = f + (0 + PrefixLen + k + NonceLen)
        /\ Fields(c)[j] = PrefixObj(CEKLen + TagLen)
    BY <1>5, <1>8, <1>9, <1>14
  <2> QED
    BY <2>1, <2>2
<1>15. CASE j = 5
  <2>1. Piece(w, f + (0 + PrefixLen + k + NonceLen + PrefixLen), RecordObj(env.wrapped, CEKLen))
    <3>1. /\ 0 + PrefixLen + k + NonceLen + PrefixLen + RecordObj(env.wrapped, CEKLen).size <= Len(b)
          /\ 0 + PrefixLen + k + NonceLen + PrefixLen \in Nat
          /\ RecordObj(env.wrapped, CEKLen).size \in Nat
      BY <1>4, <1>5
    <3> QED
      BY <1>7, <1>10, <3>1
  <2>2. /\ FieldStarts(c)[j] = f + (0 + PrefixLen + k + NonceLen + PrefixLen)
        /\ Fields(c)[j] = RecordObj(env.wrapped, CEKLen)
    BY <1>5, <1>8, <1>9, <1>15
  <2> QED
    BY <2>1, <2>2
<1> QED
  BY <1>11, <1>12, <1>13, <1>14, <1>15

\* w is all of the container of c for n bytes, m its last record.
Finished(c, n, w, m) ==
  /\ Measured(c, n) /\ LaidOut(c, n, w) /\ Len(w) \in Nat
  /\ m \in Nat /\ HasRecord(c, n, m) /\ ~HasRecord(c, n, m + 1)
  /\ Len(w) = RecordEnd(c, n, m)

LEMMA RecordPieces ==
  ASSUME NEW c, NEW n, NEW w, NEW m, Finished(c, n, w, m), NEW i \in Nat, HasRecord(c, n, i)
  PROVE  /\ i <= m
         /\ RecordStart(c, i) \in Nat /\ RecordHave(c, n, i) \in Nat
         /\ Len(c.header) <= RecordStart(c, i)
         /\ RecordEnd(c, n, i) = RecordStart(c, i) + PrefixLen + (RecordHave(c, n, i) + TagLen)
         /\ Piece(w, RecordStart(c, i), PrefixObj(RecordHave(c, n, i) + TagLen))
         /\ Piece(w, RecordStart(c, i) + PrefixLen,
                  RecordObj(ReferenceRecord(c, n, i), RecordHave(c, n, i)))
         /\ RecordEnd(c, n, i) <= Len(w)
         /\ HasRecord(c, n, i + 1) \/ RecordEnd(c, n, i) = Len(w)
<1>0. /\ Measured(c, n) /\ LaidOut(c, n, w) /\ Len(w) \in Nat /\ m \in Nat
      /\ HasRecord(c, n, m) /\ ~HasRecord(c, n, m + 1) /\ Len(w) = RecordEnd(c, n, m)
  BY DEF Finished
<1>1. i <= m
  <2>1. SUFFICES ASSUME m < i PROVE FALSE
    BY <1>0
  <2>2. HasRecord(c, n, m + 1)
    BY <1>0, <2>1, InOrder
  <2> QED
    BY <2>2, <1>0
<1> DEFINE x == RecordStart(c, i)  v == RecordHave(c, n, i)  g == Len(c.header)
           e == RecordEnd(c, n, i)  l == Len(w)
<1>2. /\ x \in Nat /\ g <= x /\ v \in 0 .. c.chunkSize /\ i \in 0 .. n /\ e \in Nat
      /\ e <= RecordStart(c, i + 1)
  BY <1>0, Geometry
<1>3. v \in Nat /\ g \in Nat
  BY <1>0, <1>2 DEF Measured
<1>4. e = x + PrefixLen + v + TagLen
  BY DEF RecordEnd
<1>5. e <= l
  <2>1. CASE i = m
    BY <2>1, <1>0, <1>2
  <2>2. CASE i < m
    <3>1. RecordStart(c, i + 1) <= RecordStart(c, m)
      BY <1>0, <2>2, InOrder
    <3>2. RecordStart(c, m) \in Nat /\ RecordHave(c, n, m) \in Nat /\ RecordStart(c, i + 1) \in Nat
      <4>1. RecordStart(c, m) \in Nat /\ RecordHave(c, n, m) \in 0 .. c.chunkSize
        BY <1>0, Geometry
      <4>2. RecordStart(c, i + 1) \in Nat
        BY <1>0, Geometry
      <4> QED
        BY <4>1, <4>2, <1>0 DEF Measured
    <3>3. l = RecordStart(c, m) + PrefixLen + RecordHave(c, n, m) + TagLen
      BY <1>0 DEF RecordEnd
    <3> HIDE DEF l, e
    <3>4. RecordStart(c, m) <= l
      BY <3>2, <3>3, LengthAssumption
    <3>5. l \in Nat
      BY <1>0 DEF l
    <3> QED
      BY <3>1, <3>2, <3>4, <3>5, <1>2
  <2> QED
    BY <2>1, <2>2, <1>1, <1>0
<1>6. HasRecord(c, n, i + 1) \/ l <= e
  BY <1>0, <1>2 DEF LaidOut
<1>7. /\ Holds(w, x, PrefixObj(v + TagLen))
      /\ Holds(w, x + PrefixLen, RecordObj(ReferenceRecord(c, n, i), v))
  BY <1>0, <1>2 DEF LaidOut, RecordLaid
<1>8. /\ PrefixObj(v + TagLen).size = PrefixLen
      /\ RecordObj(ReferenceRecord(c, n, i), v).size = v + TagLen
  BY ObjectSizes
<1> HIDE DEF x, v, g, e, l
<1>9. l \in Nat /\ PrefixLen \in Nat /\ TagLen \in Nat
  BY <1>0, LengthAssumption DEF l
<1>10. /\ x + PrefixLen <= l /\ x + PrefixLen \in Nat /\ v + TagLen \in Nat
       /\ x + PrefixLen + (v + TagLen) <= l
       /\ e = x + PrefixLen + (v + TagLen)
       /\ HasRecord(c, n, i + 1) \/ e = l
  BY <1>9, <1>2, <1>3, <1>4, <1>5, <1>6
<1>11. Piece(w, x, PrefixObj(v + TagLen))
  BY <1>2, <1>7, <1>8, <1>9, <1>10 DEF Piece, l
<1>12. Piece(w, x + PrefixLen, RecordObj(ReferenceRecord(c, n, i), v))
  BY <1>2, <1>7, <1>8, <1>9, <1>10 DEF Piece, l
<1> QED
  BY <1>1, <1>2, <1>3, <1>5, <1>10, <1>11, <1>12 DEF x, v, g, e, l

\* The call's bytes begin an object and end before it is whole.
LEMMA SpelledShort ==
  ASSUME NEW t, NEW w, CutOf(t, w), NEW p, NEW obj, Piece(w, p, obj),
         NEW k \in Nat, k < obj.size, Len(t) = p + k
  PROVE  Spelled(SubSeq(t, p + 1, p + k)) = {}
<1> DEFINE x == SubSeq(t, p + 1, p + k)
<1>0. /\ IsSeq(t) /\ p \in Nat /\ obj.size \in Nat /\ p + k <= Len(t)
      /\ Len(t) < Len(w) /\ Len(w) \in Nat
  BY DEF CutOf, Piece
<1>1. PartOf(x, t, p, k)
  BY <1>0, SeqPart
<1> HIDE DEF x
<1>2. ASSUME k # 0 PROVE x[1].obj = obj
  <2>2. /\ 1 \in 1 .. k /\ p + 1 \in 1 .. Len(t) /\ 1 \in 1 .. obj.size /\ p + 1 <= Len(w)
    BY <1>2, <1>0
  <2>3. x[1] = w[p + 1]
    BY <1>1, <2>2 DEF CutOf, PartOf
  <2>4. w[p + 1] = [obj |-> obj, at |-> 1]
    BY <2>2 DEF Piece, Holds
  <2>5. x[1] = [obj |-> obj, at |-> 1]
    BY <2>3, <2>4
  <2> QED
    BY <2>5
<1>3. Len(Cells(obj)) = obj.size
  BY <1>0, CellsSeq
<1>4. k # 0 => x # Cells(x[1].obj)
  BY <1>0, <1>1, <1>2, <1>3 DEF PartOf
<1>5. CASE k = 0
  <2>1. x = <<>>
    BY <1>1, <1>5 DEF PartOf, IsSeq
  <2> QED
    BY <2>1 DEF Spelled, x
<1>6. CASE k # 0
  BY <1>4, <1>6 DEF Spelled, x
<1> QED
  BY <1>5, <1>6

\* The error a cut after n cells of the container w shows as.
PrefixAt(w, n) == "prefix" \in DOMAIN w[n + 1].obj /\ w[n + 1].at = 1

CutError(c, w, n, err) ==
  /\ n < FixedHeaderLen => err = "ErrShortHeader"
  /\ n >= FixedHeaderLen /\ n < Len(c.header) =>
       err = IF PrefixAt(w, n) THEN "ErrShortHeader" ELSE "ErrTruncated"
  /\ n = Len(c.header) => err = "ErrTruncated"
  /\ n > Len(c.header) =>
       err = IF PrefixAt(w, n) THEN "ErrAuthFailed" ELSE "ErrTruncated"

\* Where a decryption of the cut container of s is in it.
AtField(s) ==
  /\ keyArg.mode = "MLKEM"
  /\ IsSeq(envelope) /\ Len(envelope) \in 0 .. 5
  /\ rpc = "envelope" <=> Len(envelope) < 5
  /\ pos = FieldStarts(crypto[s])[Len(envelope) + 1] /\ pos <= Len(store)
  /\ \A j \in 1 .. Len(envelope) : envelope[j] = Cells(Fields(crypto[s])[j])

AtFirst(s) == pos = Len(crypto[s].header) /\ pos <= Len(store) /\ rindex = 0

AtBody(s) ==
  /\ pos = RecordStart(crypto[s], rindex) + PrefixLen /\ pos <= Len(store)
  /\ nextLen = RecordHave(crypto[s], plain[s], rindex) + TagLen

HasBody(s) ==
  body = Cells(RecordObj(ReferenceRecord(crypto[s], plain[s], rindex),
                         RecordHave(crypto[s], plain[s], rindex)))

AtPeek(s) == pos = RecordEnd(crypto[s], plain[s], rindex) /\ pos <= Len(store)

AtOpen(s) ==
  /\ HasRecord(crypto[s], plain[s], rindex + 1)
  /\ \/ nextLen = -1 /\ Len(store) = RecordStart(crypto[s], rindex + 1)
     \/ /\ nextLen = RecordHave(crypto[s], plain[s], rindex + 1) + TagLen
        /\ pos = RecordStart(crypto[s], rindex + 1) + PrefixLen /\ pos <= Len(store)

CutAt(s) ==
  /\ rpc # "ok"
  /\ rpc = "failed" =>
       \/ rerr \in {"readError", "writeError"}
       \/ CutError(crypto[s], wire[s], Len(store), rerr)
  /\ rpc = "header" => pos = 0
  /\ rpc \in {"envelope", "recover"} \cup Looping =>
       header = writeFixedHeader(crypto[s].suiteID, crypto[s].chunkSize, s, s)
  /\ rpc \in {"envelope", "recover"} => AtField(s)
  /\ rpc \in Looping => rkey = crypto[s].messageKey
  /\ rpc = "first" => AtFirst(s)
  /\ rpc \in {"record", "peek", "open"} => HasRecord(crypto[s], plain[s], rindex)
  /\ rpc = "record" => AtBody(s)
  /\ rpc \in {"peek", "open"} => HasBody(s)
  /\ rpc = "peek" => AtPeek(s)
  /\ rpc = "open" => AtOpen(s)

CutInv ==
  /\ rpc \in {"idle", "header"} => envelope = <<>>
  /\ \A s \in Streams : CutShort(s) /\ rpc # "idle" => CutAt(s)

\* What the invariants of the writers say of a finished container and of
\* its first cells.
OnCut(s) ==
  /\ Prepared(crypto[s], s) /\ Begins(crypto[s], wire[s]) /\ CutOf(store, wire[s])
  /\ \E m : Finished(crypto[s], plain[s], wire[s], m)
  /\ isMLKEM(crypto[s].suiteID) => Envelope(crypto[s]).wrapped \in sealed
  /\ \A i \in Nat : HasRecord(crypto[s], plain[s], i) =>
       ReferenceRecord(crypto[s], plain[s], i) \in sealed
  /\ rindex \in Nat

LEMMA CutFacts ==
  ASSUME WriterInv, ReaderInv, LayoutInv, HeadersNamed, NEW s \in Streams, CutShort(s)
  PROVE  OnCut(s)
<1> DEFINE c == crypto[s]  n == plain[s]  w == wire[s]
<1>1. wpc[s] = "ok" /\ Stage(s) /\ n \in Nat /\ rindex \in Nat
  BY DEF CutShort, LayoutInv, WriterInv, WTyping, WriterTypeOK, ReaderInv
<1>2. Prepared(c, s) /\ SealedAll(s) /\ LaidOut(c, n, w) /\ IsSeq(w) /\ Written(s)
  BY <1>1 DEF Stage, Running
<1>3. Measured(c, n)
  BY <1>1, <1>2, PreparedMeasured
<1>4. PICK m \in Nat : /\ index[s] = m + 1
                       /\ HasRecord(c, n, m) /\ ~HasRecord(c, n, m + 1)
                       /\ Len(w) = RecordEnd(c, n, m)
  BY <1>1, <1>2 DEF Written
<1>5. Len(w) \in Nat /\ Len(c.header) <= Len(w)
  <2>1. /\ RecordStart(c, m) \in Nat /\ Len(c.header) <= RecordStart(c, m)
        /\ RecordHave(c, n, m) \in 0 .. c.chunkSize /\ RecordEnd(c, n, m) \in Nat
    BY <1>3, <1>4, Geometry
  <2>2. RecordHave(c, n, m) \in Nat /\ Len(c.header) \in Nat
    BY <2>1, <1>3 DEF Measured
  <2>3. RecordEnd(c, n, m) = RecordStart(c, m) + PrefixLen + RecordHave(c, n, m) + TagLen
    BY DEF RecordEnd
  <2> DEFINE g == Len(c.header)  x == RecordStart(c, m)  v == RecordHave(c, n, m)
             e == RecordEnd(c, n, m)
  <2> HIDE DEF g, x, v, e
  <2>4. g \in Nat /\ x \in Nat /\ g <= x /\ v \in Nat /\ e = x + PrefixLen + v + TagLen
    BY <2>1, <2>2, <2>3 DEF g, x, v, e
  <2>5. g <= e /\ e \in Nat
    BY <2>4, LengthAssumption
  <2> QED
    BY <2>5, <1>4 DEF g, e
<1>6. Finished(c, n, w, m)
  BY <1>2, <1>3, <1>4, <1>5 DEF Finished
<1>7. Begins(c, w)
  <2>1. \A k \in 1 .. Len(c.header) : k <= Len(w) => w[k] = c.header[k]
    BY <1>2 DEF LaidOut
  <2>2. Len(c.header) \in Nat
    BY <1>3 DEF Measured
  <2> DEFINE g == Len(c.header)  l == Len(w)
  <2> HIDE DEF g, l
  <2>3. g \in Nat /\ l \in Nat /\ g <= l
    BY <1>5, <2>2 DEF g, l
  <2>4. \A k \in 1 .. g : k <= l
    BY <2>3
  <2> QED
    BY <1>5, <2>1, <2>4 DEF Begins, g, l
<1>8. CutOf(store, w)
  <2>1. IsSeq(store) /\ Len(store) \in Nat
    <3>1. Named(store)
      BY DEF HeadersNamed
    <3>2. store \in Seq({store[i] : i \in DOMAIN store})
      BY <3>1 DEF Named
    <3> QED
      BY <3>2 DEF IsSeq
  <2>2. Len(store) < Len(w) /\ store = SubSeq(w, 1, Len(store))
    BY DEF CutShort
  <2>3. Len(store) \in 0 .. Len(w)
    BY <2>1, <2>2, <1>5
  <2>4. \A k \in 1 .. Len(store) : store[k] = w[k]
    BY <2>2, <2>3, <1>2, SeqInitial
  <2> QED
    BY <2>1, <2>2, <2>4, <1>2, <1>5 DEF CutOf
<1>9. ASSUME NEW i \in Nat, HasRecord(c, n, i) PROVE ReferenceRecord(c, n, i) \in sealed
  <2>1. i <= m
    BY <1>6, <1>9, RecordPieces
  <2>2. i < index[s]
    BY <2>1, <1>4
  <2> QED
    BY <2>2, <1>2 DEF SealedAll
<1>10. isMLKEM(c.suiteID) => Envelope(c).wrapped \in sealed
  BY <1>2 DEF SealedAll
<1>11. \E l : Finished(c, n, w, l)
  BY <1>6
<1> QED
  BY <1>1, <1>2, <1>7, <1>8, <1>9, <1>10, <1>11 DEF OnCut

\* The call fails, and the error is that of the cut.
LEMMA CutFailed ==
  ASSUME NEW s, UNCHANGED <<store, writerVars>>, rpc' = "failed",
         \/ rerr' \in {"readError", "writeError"}
         \/ CutError(crypto[s], wire[s], Len(store), rerr')
  PROVE  CutAt(s)'
<1>1. store' = store /\ crypto' = crypto /\ wire' = wire
  BY DEF writerVars
<1>2. CutError(crypto[s], wire[s], Len(store), rerr')
        => CutError(crypto'[s], wire'[s], Len(store'), rerr')
  BY <1>1
<1> QED
  BY <1>2 DEF CutAt, Looping

\* Where a short read leaves the cut.
LEMMA ShortPiece ==
  ASSUME NEW w, NEW n, NEW obj, NEW k \in Nat, w[n + 1] = [obj |-> obj, at |-> k + 1]
  PROVE  PrefixAt(w, n) <=> "prefix" \in DOMAIN obj /\ k = 0
<1>1. w[n + 1].obj = obj /\ w[n + 1].at = k + 1
  OBVIOUS
<1>2. k + 1 = 1 <=> k = 0
  OBVIOUS
<1> QED
  BY <1>1, <1>2 DEF PrefixAt

\* A read at the start of a piece.
LEMMA ReadAt ==
  ASSUME NEW s, OnCut(s), ~EmptyReads, NEW obj, Piece(wire[s], pos, obj),
         pos <= Len(store), NEW z, z = obj.size, NEW k \in Counts(z)
  PROVE  /\ k \in Nat
         /\ \/ k = z /\ pos + k <= Len(store) /\ Bytes(k) = Cells(obj)
            \/ /\ k < z /\ Len(store) = pos + k /\ Spelled(Bytes(k)) = {}
               /\ PrefixAt(wire[s], Len(store)) <=> "prefix" \in DOMAIN obj /\ k = 0
<1> DEFINE w == wire[s]
<1>1. CutOf(store, w)
  BY DEF OnCut
<1>2. k \in readFullCounts(Len(store) - pos, obj.size)
  BY DEF Counts
<1> HIDE DEF w
<1>3. Piece(w, pos, obj)
  BY DEF w
<1>4. /\ k \in Nat
      /\ \/ /\ k = obj.size /\ pos + k <= Len(store)
            /\ SubSeq(store, pos + 1, pos + k) = Cells(obj)
         \/ /\ k < obj.size /\ Len(store) = pos + k
            /\ w[Len(store) + 1] = [obj |-> obj, at |-> k + 1]
  BY <1>1, <1>2, <1>3, ReadPiece
<1>5. CASE k < obj.size /\ Len(store) = pos + k
             /\ w[Len(store) + 1] = [obj |-> obj, at |-> k + 1]
  <2>1. Spelled(SubSeq(store, pos + 1, pos + k)) = {}
    BY <1>1, <1>3, <1>4, <1>5, SpelledShort
  <2>2. PrefixAt(w, Len(store)) <=> "prefix" \in DOMAIN obj /\ k = 0
    BY <1>4, <1>5, ShortPiece
  <2> QED
    BY <2>1, <2>2, <1>4, <1>5 DEF Bytes, w
<1> QED
  BY <1>4, <1>5 DEF Bytes

LEMMA ShortInHeader ==
  ASSUME NEW c, NEW s, Prepared(c, s), NEW w, NEW n \in Nat, n < FixedHeaderLen
  PROVE  CutError(c, w, n, "ErrShortHeader")
<1> DEFINE g == Len(c.header)
<1>1. g \in Nat /\ FixedHeaderLen <= g /\ FixedHeaderLen \in Nat
  <2>1. g = FixedHeaderLen + Len(KEMPart(c)) /\ Len(KEMPart(c)) \in Nat
    BY PreparedHeader
  <2> HIDE DEF g
  <2> QED
    BY <2>1, LengthAssumption
<1> HIDE DEF g
<1>2. ~(n >= FixedHeaderLen) /\ n # g /\ ~(n > g)
  BY <1>1
<1> QED
  BY <1>2 DEF CutError, g

LEMMA ShortInEnvelope ==
  ASSUME NEW c, NEW s, Prepared(c, s), NEW w, NEW n \in Nat,
         FixedHeaderLen <= n, n < Len(c.header)
  PROVE  CutError(c, w, n, IF PrefixAt(w, n) THEN "ErrShortHeader" ELSE "ErrTruncated")
<1> DEFINE g == Len(c.header)
<1>1. g \in Nat /\ FixedHeaderLen \in Nat /\ n < g
  BY PreparedHeader, LengthAssumption
<1> HIDE DEF g
<1>2. ~(n < FixedHeaderLen) /\ n # g /\ ~(n > g)
  BY <1>1
<1> QED
  BY <1>2 DEF CutError, g

LEMMA ShortInRecords ==
  ASSUME NEW c, NEW s, Prepared(c, s), NEW w, NEW n \in Nat, Len(c.header) <= n,
         n = Len(c.header) \/ ~PrefixAt(w, n)
  PROVE  CutError(c, w, n, "ErrTruncated")
<1> DEFINE g == Len(c.header)
<1>1. g \in Nat /\ FixedHeaderLen <= g /\ FixedHeaderLen \in Nat /\ g <= n
  <2>1. g = FixedHeaderLen + Len(KEMPart(c)) /\ Len(KEMPart(c)) \in Nat
    BY PreparedHeader
  <2>2. g <= n
    OBVIOUS
  <2> HIDE DEF g
  <2> QED
    BY <2>1, <2>2, LengthAssumption
<1> HIDE DEF g
<1>2. ~(n < FixedHeaderLen) /\ ~(n < g) /\ (n > g => n # g)
  BY <1>1
<1> QED
  BY <1>2 DEF CutError, g

LEMMA BetweenRecords ==
  ASSUME NEW c, NEW s, Prepared(c, s), NEW w, NEW n \in Nat, Len(c.header) < n, PrefixAt(w, n)
  PROVE  CutError(c, w, n, "ErrAuthFailed")
<1> DEFINE g == Len(c.header)
<1>1. g \in Nat /\ FixedHeaderLen <= g /\ FixedHeaderLen \in Nat /\ g < n
  <2>1. g = FixedHeaderLen + Len(KEMPart(c)) /\ Len(KEMPart(c)) \in Nat
    BY PreparedHeader
  <2>2. g < n
    OBVIOUS
  <2> HIDE DEF g
  <2> QED
    BY <2>1, <2>2, LengthAssumption
<1> HIDE DEF g
<1>2. ~(n < FixedHeaderLen) /\ ~(n < g) /\ n # g
  BY <1>1
<1> QED
  BY <1>2 DEF CutError, g

\* The header of a container is accepted by the entry point for its key.
LEMMA HeaderAccepted ==
  ASSUME NEW s, Prepared(crypto[s], s), RightKey(s)
  PROVE  HeaderError(writeFixedHeader(crypto[s].suiteID, crypto[s].chunkSize, s, s)) = ""
<1> DEFINE h == writeFixedHeader(crypto[s].suiteID, crypto[s].chunkSize, s, s)
<1>1. /\ h.magic = TRUE /\ h.version = TRUE /\ h.flags = TRUE
      /\ h.suite = crypto[s].suiteID /\ h.chunkSize = crypto[s].chunkSize
  BY DEF writeFixedHeader
<1>2. crypto[s].suiteID \in Suites /\ validChunkSize(crypto[s].chunkSize)
  BY DEF Prepared
<1>3. keyArg.mode = "AEAD" => crypto[s].suiteID \in AEADSuites
  <2>1. "AEAD" # "MLKEM"
    OBVIOUS
  <2> QED
    BY <2>1 DEF RightKey, isAEADCall
<1>4. keyArg.mode = "MLKEM" => isMLKEM(crypto[s].suiteID)
  <2>1. "AEAD" # "MLKEM"
    OBVIOUS
  <2> QED
    BY <1>2, <2>1 DEF RightKey, isAEADCall, isMLKEM, Suites
<1> HIDE DEF h
<1>5. parseFixedHeader(h) = ""
  BY <1>1, <1>2, Zenon DEF parseFixedHeader
<1>6. HeaderError(h) = ""
  BY <1>1, <1>3, <1>4, <1>5, Zenon DEF HeaderError
<1> QED
  BY <1>6 DEF h

LEMMA CutHeader ==
  ASSUME NEW s \in Streams, OnCut(s), RightKey(s), CutAt(s), ~EmptyReads, envelope = <<>>,
         rpc = "header", ReadHeader, UNCHANGED writerVars, rindex = 0
  PROVE  CutAt(s)'
<1> DEFINE c == crypto[s]  w == wire[s]
           h == writeFixedHeader(c.suiteID, c.chunkSize, s, s)
<1>1. Prepared(c, s) /\ Begins(c, w) /\ CutOf(store, w) /\ pos = 0
  BY DEF OnCut, CutAt
<1>2. Piece(w, 0, HeaderObj(h)) /\ HeaderObj(h).size = FixedHeaderLen
  BY <1>1, HeaderPiece, ObjectSizes
<1>3. PICK k \in Counts(FixedHeaderLen) :
       /\ pos' = pos + k
       /\ \/ /\ k # FixedHeaderLen
             /\ ReaderFail("ErrShortHeader")
             /\ UNCHANGED <<header, rkey>>
          \/ /\ k = FixedHeaderLen /\ HeaderOf(Bytes(k)) = {}
             /\ ReaderFail("ErrBadMagic")
             /\ UNCHANGED <<header, rkey>>
          \/ \E g \in HeaderOf(Bytes(k)) :
               \/ /\ HeaderError(g) # ""
                  /\ ReaderFail(HeaderError(g))
                  /\ UNCHANGED <<header, rkey>>
               \/ HeaderError(g) = "" /\ AcceptHeader(g)
  BY DEF ReadHeader
<1>4. /\ UNCHANGED <<store, keyArg, envelope, rindex>>
  BY DEF ReadHeader
<1>5. /\ k \in Nat
      /\ \/ k = FixedHeaderLen /\ pos + k <= Len(store) /\ Bytes(k) = Cells(HeaderObj(h))
         \/ k < FixedHeaderLen /\ Len(store) = pos + k /\ Spelled(Bytes(k)) = {}
  <2>1. Piece(wire[s], pos, HeaderObj(h)) /\ pos <= Len(store)
    BY <1>1, <1>2 DEF CutOf
  <2> HIDE DEF h
  <2> QED
    BY <1>2, <1>3, <2>1, ReadAt
<1> HIDE DEF h
<1>6. CASE k < FixedHeaderLen /\ Len(store) = pos + k /\ Spelled(Bytes(k)) = {}
  <2>1. HeaderOf(Bytes(k)) = {}
    BY <1>6 DEF HeaderOf
  <2>2. k # FixedHeaderLen
    BY <1>5, <1>6, LengthAssumption
  <2>3. rpc' = "failed" /\ rerr' = "ErrShortHeader"
    BY <1>3, <2>1, <2>2
  <2>4. CutError(c, w, Len(store), "ErrShortHeader")
    <3>1. Len(store) \in Nat /\ Len(store) < FixedHeaderLen
      BY <1>1, <1>5, <1>6
    <3> QED
      BY <3>1, <1>1, ShortInHeader
  <2> QED
    BY <2>3, <2>4, <1>4, CutFailed
<1>7. CASE k = FixedHeaderLen /\ pos + k <= Len(store) /\ Bytes(k) = Cells(HeaderObj(h))
  <2>1. HeaderOf(Bytes(k)) = {h}
    BY <1>7, HeaderOfCells
  <2>2. HeaderError(h) = ""
    BY <1>1, HeaderAccepted DEF h
  <2>3. AcceptHeader(h)
    BY <1>3, <1>7, <2>1, <2>2, Zenon
  <2>4. header' = h /\ pos' = FixedHeaderLen /\ FixedHeaderLen <= Len(store)
    <3>1. header' = h
      BY <2>3 DEF AcceptHeader
    <3>2. pos + k = FixedHeaderLen
      BY <1>1, <1>7, LengthAssumption
    <3> QED
      BY <3>1, <3>2, <1>3, <1>7
  <2>5. /\ h.suite = c.suiteID /\ h.streamID = s /\ h.streamSalt = s
    BY DEF h, writeFixedHeader
  <2>6. /\ crypto' = crypto /\ wire' = wire /\ plain' = plain
    BY DEF writerVars
  <2>7. header' = writeFixedHeader(crypto'[s].suiteID, crypto'[s].chunkSize, s, s)
    BY <2>4, <2>6 DEF h
  <2>8. CASE keyArg.mode = "AEAD"
    <3>1. rpc' = "first" /\ rkey' = deriveMessageKey(s, keyArg.cek, c.suiteID, s)
      BY <2>3, <2>5, <2>8 DEF AcceptHeader
    <3>2. c.suiteID \in AEADSuites /\ keyArg.cek = c.cek
      BY <2>8 DEF RightKey, isAEADCall
    <3>3. rkey' = crypto'[s].messageKey
      BY <3>1, <3>2, <1>1, <2>6 DEF Prepared
    <3>4. ~isMLKEM(c.suiteID)
      BY <3>2 DEF isMLKEM, AEADSuites, KEMSuites
    <3>5. Len(c.header) = FixedHeaderLen
      <4>1. KEMPart(c) = <<>>
        BY <3>4 DEF KEMPart
      <4>2. Len(c.header) = FixedHeaderLen + Len(KEMPart(c))
        BY <1>1, PreparedHeader
      <4> QED
        BY <4>1, <4>2, LengthAssumption
    <3>6. AtFirst(s)'
      <4>1. pos' = Len(crypto'[s].header) /\ pos' <= Len(store') /\ rindex' = 0
        BY <3>5, <2>4, <2>6, <1>4
      <4> QED
        BY <4>1 DEF AtFirst
    <3> QED
      BY <3>1, <3>3, <3>6, <2>7 DEF CutAt, Looping
  <2>9. CASE keyArg.mode = "MLKEM"
    <3>1. rpc' = "envelope"
      BY <2>3, <2>9 DEF AcceptHeader
    <3>2. FieldStarts(c)[1] = FixedHeaderLen
      BY DEF FieldStarts
    <3>3. AtField(s)'
      <4>1. IsSeq(envelope') /\ Len(envelope') = 0 /\ keyArg'.mode = "MLKEM"
        BY <1>4, <2>9, EmptyIsSeq
      <4>2. pos' = FieldStarts(crypto'[s])[Len(envelope') + 1] /\ pos' <= Len(store')
        <5>1. Len(envelope') + 1 = 1
          BY <4>1
        <5> QED
          BY <5>1, <3>2, <2>4, <2>6, <1>4
      <4>3. \A j \in 1 .. Len(envelope') : envelope'[j] = Cells(Fields(crypto'[s])[j])
        BY <4>1
      <4>4. Len(envelope') \in 0 .. 5 /\ Len(envelope') < 5
        BY <4>1
      <4> QED
        BY <3>1, <4>1, <4>2, <4>3, <4>4 DEF AtField
    <3> QED
      BY <3>1, <3>3, <2>7 DEF CutAt, Looping
  <2> QED
    BY <2>8, <2>9 DEF RightKey
<1> QED
  BY <1>5, <1>6, <1>7

LEMMA CutField ==
  ASSUME NEW s \in Streams, OnCut(s), RightKey(s), CutAt(s), ~EmptyReads,
         rpc = "envelope", ReadEnvelopeField, UNCHANGED writerVars
  PROVE  CutAt(s)'
<1> DEFINE c == crypto[s]  w == wire[s]
           i == Len(envelope) + 1
           want == IF IsPrefixField(i) THEN PrefixLen ELSE EnvelopeLens[i]
<1>1. Prepared(c, s) /\ Begins(c, w) /\ CutOf(store, w) /\ AtField(s)
  BY DEF OnCut, CutAt
<1>2. header = writeFixedHeader(c.suiteID, c.chunkSize, s, s)
  BY DEF CutAt
<1>3. /\ keyArg.mode = "MLKEM" /\ IsSeq(envelope) /\ Len(envelope) \in 0 .. 4
      /\ pos = FieldStarts(c)[i] /\ pos <= Len(store)
      /\ \A j \in 1 .. Len(envelope) : envelope[j] = Cells(Fields(c)[j])
  <2>1. Len(envelope) \in 0 .. 5 /\ Len(envelope) < 5
    BY <1>1 DEF AtField
  <2>2. Len(envelope) \in 0 .. 4
    <3> DEFINE l == Len(envelope)
    <3>1. l \in 0 .. 5 /\ l < 5
      BY <2>1
    <3> HIDE DEF l
    <3>2. l \in 0 .. 4
      BY <3>1
    <3> QED
      BY <3>2 DEF l
  <2> QED
    BY <1>1, <2>2 DEF AtField
<1>4. i \in 1 .. 5
  BY <1>3
<1>5. isMLKEM(c.suiteID)
  <2>1. keyArg.mode # "AEAD"
    BY <1>3
  <2> QED
    BY <1>1, <2>1 DEF RightKey, isAEADCall, isMLKEM, Suites, Prepared
<1>6. EnvelopeLens = FieldLens(c)
  <2>1. header.suite = c.suiteID
    BY <1>2 DEF writeFixedHeader
  <2> QED
    BY <2>1 DEF EnvelopeLens, FieldLens
<1>7. PICK k \in Counts(want) :
          /\ pos' = pos + k
          /\ \/ /\ k # want
                /\ ReaderFail(IF IsPrefixField(i) /\ k = 0 THEN "ErrShortHeader"
                              ELSE "ErrTruncated")
                /\ UNCHANGED envelope
             \/ /\ k = want /\ IsPrefixField(i)
                /\ \E v \in PrefixValues(Bytes(k)) \ {EnvelopeLens[i]} :
                     ReaderFail("ErrBadKEMCiphertext")
                /\ UNCHANGED envelope
             \/ /\ k = want
                /\ IsPrefixField(i) => EnvelopeLens[i] \in PrefixValues(Bytes(k))
                /\ envelope' = Append(envelope, Bytes(k))
                /\ ReaderGoto(IF i = 5 THEN "recover" ELSE "envelope")
  BY DEF ReadEnvelopeField
<1>8. UNCHANGED <<store, keyArg, header>>
  BY DEF ReadEnvelopeField
<1> DEFINE obj == Fields(c)[i]
           z == obj.size
           p == FieldStarts(c)[i]
           q == FieldStarts(c)[i + 1]
<1> HIDE DEF i
<1>9. /\ p \in Nat /\ z \in Nat \ {0} /\ q = p + z /\ FixedHeaderLen <= p
      /\ q <= Len(c.header) /\ FieldStarts(c)[6] = Len(c.header)
      /\ z = (IF IsPrefixField(i) THEN PrefixLen ELSE FieldLens(c)[i])
      /\ "prefix" \in DOMAIN obj <=> IsPrefixField(i)
      /\ IsPrefixField(i) => obj = PrefixObj(FieldLens(c)[i])
  BY <1>1, <1>4, <1>5, FieldFacts
<1>10. want = z
  BY <1>6, <1>9
<1>11. Piece(wire[s], pos, obj)
  BY <1>1, <1>3, <1>4, <1>5, FieldPiece
<1> HIDE DEF want, obj
<1>12. /\ k \in Nat
       /\ \/ k = want /\ pos + k <= Len(store) /\ Bytes(k) = Cells(obj)
          \/ /\ k < want /\ Len(store) = pos + k
             /\ PrefixAt(wire[s], Len(store)) <=> "prefix" \in DOMAIN obj /\ k = 0
  BY <1>3, <1>7, <1>10, <1>11, ReadAt
<1> HIDE DEF p, q, z
<1>13. CASE /\ k < want /\ Len(store) = pos + k
            /\ PrefixAt(wire[s], Len(store)) <=> "prefix" \in DOMAIN obj /\ k = 0
  <2>1. k # want
    BY <1>9, <1>10, <1>12, <1>13
  <2> DEFINE n == Len(store)
  <2>2. rpc' = "failed" /\ rerr' = IF PrefixAt(w, n) THEN "ErrShortHeader" ELSE "ErrTruncated"
    BY <1>7, <2>1, <1>9, <1>13
  <2>3. n \in Nat /\ FixedHeaderLen <= n /\ n < Len(c.header)
    <3> DEFINE g == Len(c.header)
    <3>1. g \in Nat /\ pos = p /\ q <= g
      BY <1>1, <1>3, <1>9, PreparedHeader DEF p
    <3> HIDE DEF g, n
    <3>2. n = p + k
      BY <1>13, <3>1 DEF n
    <3>3. n \in Nat /\ FixedHeaderLen <= n /\ n < g
      BY <3>1, <3>2, <1>9, <1>10, <1>12, <1>13, LengthAssumption
    <3> QED
      BY <3>3 DEF g
  <2>4. CutError(c, w, n, IF PrefixAt(w, n) THEN "ErrShortHeader" ELSE "ErrTruncated")
    BY <1>1, <2>3, ShortInEnvelope
  <2>5. CutError(c, w, n, rerr')
    BY <2>2, <2>4
  <2> QED
    BY <2>2, <2>5, <1>8, CutFailed
<1>14. CASE k = want /\ pos + k <= Len(store) /\ Bytes(k) = Cells(obj)
  <2>1. IsPrefixField(i) => PrefixValues(Bytes(k)) = {EnvelopeLens[i]}
    BY <1>6, <1>9, <1>14, PrefixValuesCells
  <2>2. /\ envelope' = Append(envelope, Cells(obj))
        /\ rpc' = IF i = 5 THEN "recover" ELSE "envelope"
    BY <1>7, <1>14, <2>1
  <2>3. /\ crypto' = crypto /\ wire' = wire /\ plain' = plain
    BY DEF writerVars
  <2>4. /\ IsSeq(envelope') /\ Len(envelope') = i
        /\ \A j \in 1 .. i : envelope'[j] = Cells(Fields(c)[j])
    <3> DEFINE x == Cells(obj)  S == {envelope[j] : j \in DOMAIN envelope} \cup {x}
               l == Len(envelope)
    <3>1. envelope \in Seq({envelope[j] : j \in DOMAIN envelope}) /\ x \in S
      BY <1>3 DEF IsSeq
    <3>2. envelope \in Seq(S)
      BY <3>1
    <3> HIDE DEF x, S
    <3>3. /\ Append(envelope, x) \in Seq(S) /\ Len(Append(envelope, x)) = l + 1
          /\ \A j \in 1 .. l : Append(envelope, x)[j] = envelope[j]
          /\ Append(envelope, x)[l + 1] = x
      BY <3>1, <3>2, AppendProperties
    <3>4. i = l + 1 /\ l \in Nat
      BY <1>3 DEF i
    <3>5. IsSeq(envelope')
      BY <3>3, <2>2, SeqOf DEF x
    <3>6. ASSUME NEW j \in 1 .. i PROVE envelope'[j] = Cells(Fields(c)[j])
      <4>1. CASE j = i
        <5>1. envelope'[j] = x
          BY <3>3, <3>4, <2>2, <4>1 DEF x
        <5> QED
          BY <5>1, <4>1 DEF x, obj
      <4>2. CASE j # i
        <5>1. j \in 1 .. l
          BY <3>4, <4>2
        <5>2. envelope'[j] = envelope[j]
          BY <3>3, <2>2, <5>1 DEF x
        <5> QED
          BY <5>1, <5>2, <1>3
      <4> QED
        BY <4>1, <4>2
    <3> QED
      BY <3>3, <3>4, <3>5, <3>6, <2>2 DEF x
  <2>5. pos' = FieldStarts(crypto'[s])[Len(envelope') + 1] /\ pos' <= Len(store')
    <3>1. pos' = q
      BY <1>3, <1>7, <1>9, <1>10, <1>14 DEF p
    <3>2. pos' <= Len(store')
      BY <1>7, <1>8, <1>14
    <3>3. FieldStarts(crypto'[s])[Len(envelope') + 1] = q
      BY <2>3, <2>4 DEF q
    <3> QED
      BY <3>1, <3>2, <3>3
  <2>6. AtField(s)'
    <3>1. Len(envelope') \in 0 .. 5 /\ (rpc' = "envelope" <=> Len(envelope') < 5)
      <4>1. i = 5 => rpc' = "recover"
        BY <2>2
      <4>2. i # 5 => rpc' = "envelope"
        BY <2>2
      <4>3. i < 5 <=> i # 5
        BY <1>4
      <4>4. Len(envelope') \in 0 .. 5
        BY <1>4, <2>4
      <4> QED
        BY <4>1, <4>2, <4>3, <4>4, <2>4
    <3>2. keyArg'.mode = "MLKEM"
      BY <1>3, <1>8
    <3>3. \A j \in 1 .. Len(envelope') : envelope'[j] = Cells(Fields(crypto'[s])[j])
      BY <2>3, <2>4
    <3> QED
      BY <2>4, <2>5, <3>1, <3>2, <3>3 DEF AtField
  <2>7. rpc' \in {"envelope", "recover"}
    BY <2>2
  <2>8. header' = writeFixedHeader(crypto'[s].suiteID, crypto'[s].chunkSize, s, s)
    BY <1>2, <1>8, <2>3
  <2> QED
    BY <2>6, <2>7, <2>8 DEF CutAt, Looping
<1> QED
  BY <1>12, <1>13, <1>14

\* The recovery with the recipient's seed opens the envelope to its CEK.
LEMMA CutRecovered ==
  ASSUME NEW s, Prepared(crypto[s], s), isMLKEM(crypto[s].suiteID),
         Envelope(crypto[s]).wrapped \in sealed,
         keyArg.suite = crypto[s].suiteID, keyArg.seed = crypto[s].recipient,
         header = writeFixedHeader(crypto[s].suiteID, crypto[s].chunkSize, s, s),
         \A j \in 1 .. 5 : envelope[j] = Cells(Fields(crypto[s])[j])
  PROVE  /\ RecoveredCEKs = {crypto[s].cek}
         /\ Len(envelope[2]) = KEMCtLen[crypto[s].suiteID]
<1> DEFINE c == crypto[s]  env == Envelope(c)
           aad == buildCEKWrapAAD(c.suiteID, s)
           pair == PublicKeyFromSeed(c.recipient, c.suiteID)
           Key(ek) == deriveKEMAEADKey(c.suiteID, SharedSecret(pair, ek), ek, pair)
<1>1. c.streamID = s /\ c.suiteID \in KEMSuites
  BY DEF Prepared, isMLKEM
<1>2. env = wrapCEK(pair, c.suiteID, c.cek, aad, s)
  BY <1>1 DEF Envelope
<1>3. /\ env.ek.suite = c.suiteID
      /\ env.wrapped = aeadSeal("AES256GCM", Key(env.ek), env.nonce, [cek |-> c.cek], aad)
  BY <1>2 DEF wrapCEK
<1> DEFINE r == env.wrapped
<1>4. /\ r.alg = "AES256GCM" /\ r.key = Key(env.ek) /\ r.nonce = env.nonce /\ r.aad = aad
      /\ r.pt = [cek |-> c.cek] /\ r \in sealed
  BY <1>3 DEF aeadSeal
<1>5. r.pt.cek = c.cek
  BY <1>4
<1> HIDE DEF env
<1>6. /\ envelope[2] = Cells(EncapsulatedKeyObj(env.ek))
      /\ envelope[3] = Cells(NonceObj(env.nonce))
      /\ envelope[5] = Cells(RecordObj(r, CEKLen))
  BY DEF Fields, env
<1>7. /\ EncapsulatedKeyObj(env.ek).size \in Nat \ {0}
      /\ EncapsulatedKeyObj(env.ek).size = KEMCtLen[c.suiteID]
      /\ NonceObj(env.nonce).size \in Nat \ {0} /\ RecordObj(r, CEKLen).size \in Nat \ {0}
  BY <1>1, <1>3, LengthAssumption DEF EncapsulatedKeyObj, NonceObj, RecordObj
<1>8. /\ Spelled(envelope[2]) = {EncapsulatedKeyObj(env.ek)}
      /\ Spelled(envelope[3]) = {NonceObj(env.nonce)}
      /\ Spelled(envelope[5]) = {RecordObj(r, CEKLen)}
  BY <1>6, <1>7, SpelledCells
<1>9. /\ "ek" \in DOMAIN EncapsulatedKeyObj(env.ek) /\ EncapsulatedKeyObj(env.ek).ek = env.ek
      /\ "nonce" \in DOMAIN NonceObj(env.nonce) /\ NonceObj(env.nonce).nonce = env.nonce
      /\ "sealed" \in DOMAIN RecordObj(r, CEKLen) /\ RecordObj(r, CEKLen).sealed = r
  BY DEF EncapsulatedKeyObj, NonceObj, RecordObj
<1>10. header.suite = c.suiteID /\ header.streamID = s
  BY DEF writeFixedHeader
<1> DEFINE eks == {o.ek : o \in {x \in Spelled(envelope[2]) : "ek" \in DOMAIN x}}
           nonces == {o.nonce : o \in {x \in Spelled(envelope[3]) : "nonce" \in DOMAIN x}}
           opened == UNION {aeadOpen("AES256GCM", Key(ek), nonce, envelope[5], aad) :
                              ek \in eks, nonce \in nonces}
<1>11. RecoveredCEKs = {pt.cek : pt \in opened}
  BY <1>10 DEF RecoveredCEKs, openCEKLocal
<1>12. eks = {env.ek} /\ nonces = {env.nonce}
  BY <1>8, <1>9
<1>13. aeadOpen("AES256GCM", Key(env.ek), env.nonce, envelope[5], aad) = {r.pt}
  <2>1. ASSUME NEW q \in sealed
        PROVE  (\E o \in Spelled(envelope[5]) : "sealed" \in DOMAIN o /\ o.sealed = q) <=> q = r
    BY <1>8, <1>9
  <2> HIDE DEF r, Key, aad
  <2> QED
    BY <2>1, <1>4 DEF aeadOpen
<1> HIDE DEF eks, nonces, Key, aad, r
<1>14. opened = {r.pt}
  BY <1>12, <1>13
<1>15. RecoveredCEKs = {c.cek}
  BY <1>5, <1>11, <1>14
<1>16. Len(envelope[2]) = KEMCtLen[c.suiteID]
  BY <1>6, <1>7, CellsSeq
<1> QED
  BY <1>15, <1>16

LEMMA CutRecover ==
  ASSUME NEW s \in Streams, OnCut(s), RightKey(s), CutAt(s), rindex = 0,
         rpc = "recover", RecoverCEK, UNCHANGED writerVars
  PROVE  CutAt(s)'
<1> DEFINE c == crypto[s]
<1>1. /\ Prepared(c, s) /\ AtField(s)
      /\ header = writeFixedHeader(c.suiteID, c.chunkSize, s, s)
  BY DEF OnCut, CutAt
<1>2. /\ keyArg.mode = "MLKEM" /\ Len(envelope) = 5
      /\ pos = FieldStarts(c)[Len(envelope) + 1] /\ pos <= Len(store)
      /\ \A j \in 1 .. Len(envelope) : envelope[j] = Cells(Fields(c)[j])
  BY <1>1 DEF AtField
<1>3. /\ keyArg.by = "local" /\ keyArg.suite = c.suiteID /\ keyArg.seed = c.recipient
      /\ isMLKEM(c.suiteID)
  <2>1. keyArg.mode # "AEAD"
    BY <1>2
  <2> QED
    BY <1>1, <2>1 DEF RightKey, isAEADCall, isMLKEM, Suites, Prepared
<1>4. pos = Len(c.header)
  <2>1. FieldStarts(c)[6] = Len(c.header)
    <3>1. 1 \in 1 .. 5
      OBVIOUS
    <3> QED
      BY <3>1, <1>1, <1>3, FieldFacts
  <2>2. Len(envelope) + 1 = 6
    BY <1>2
  <2> QED
    BY <1>2, <2>1, <2>2
<1>5. RecoveredCEKs = {c.cek} /\ Len(envelope[2]) = KEMCtLen[c.suiteID]
  <2>1. \A j \in 1 .. 5 : envelope[j] = Cells(Fields(c)[j])
    BY <1>2
  <2>2. Envelope(c).wrapped \in sealed
    BY <1>3 DEF OnCut
  <2> QED
    BY <1>1, <1>3, <2>1, <2>2, CutRecovered
<1>6. RecoverErrors = {}
  <2>1. "local" # "broker"
    OBVIOUS
  <2> QED
    BY <1>3, <1>5, <2>1, Zenon DEF RecoverErrors
<1>7. /\ rkey' = deriveMessageKey(header.streamSalt, c.cek, header.suite, header.streamID)
      /\ rpc' = "first" /\ UNCHANGED <<store, pos, header, rindex>>
  BY <1>5, <1>6 DEF RecoverCEK
<1>8. header.streamSalt = s /\ header.suite = c.suiteID /\ header.streamID = s
  BY <1>1 DEF writeFixedHeader
<1>9. crypto' = crypto
  BY DEF writerVars
<1>10. rkey' = crypto'[s].messageKey
  BY <1>1, <1>7, <1>8, <1>9 DEF Prepared
<1>11. AtFirst(s)'
  BY <1>2, <1>4, <1>7, <1>9 DEF AtFirst
<1>12. header' = writeFixedHeader(crypto'[s].suiteID, crypto'[s].chunkSize, s, s)
  BY <1>1, <1>7, <1>9
<1> QED
  BY <1>7, <1>10, <1>11, <1>12 DEF CutAt, Looping

LEMMA CutFirst ==
  ASSUME NEW s \in Streams, OnCut(s), CutAt(s), ~EmptyReads,
         rpc = "first", ReadFirstPrefix, UNCHANGED writerVars
  PROVE  CutAt(s)'
<1> DEFINE c == crypto[s]  w == wire[s]  n == plain[s]
           v == RecordHave(c, n, 0) + TagLen
<1>1. Prepared(c, s) /\ AtFirst(s) /\ rkey = c.messageKey
      /\ header = writeFixedHeader(c.suiteID, c.chunkSize, s, s)
  BY DEF OnCut, CutAt, Looping
<1>2. PICK m : Finished(c, n, w, m)
  BY DEF OnCut
<1>3. HasRecord(c, n, 0)
  BY DEF HasRecord
<1>4. Piece(w, RecordStart(c, 0), PrefixObj(v))
  BY <1>2, <1>3, RecordPieces
<1>5. RecordStart(c, 0) = Len(c.header) /\ Len(c.header) \in Nat
  <2>1. Measured(c, n)
    BY <1>2 DEF Finished
  <2> QED
    BY <2>1, Geometry DEF Measured
<1>6. pos = Len(c.header) /\ pos <= Len(store) /\ rindex = 0
  BY <1>1 DEF AtFirst
<1>7. PrefixObj(v).size = PrefixLen /\ "prefix" \in DOMAIN PrefixObj(v)
  BY DEF PrefixObj
<1>8. PICK k \in Counts(PrefixLen) :
       /\ pos' = pos + k
       /\ \/ k # PrefixLen /\ ReaderFail("ErrTruncated") /\ UNCHANGED nextLen
          \/ /\ k = PrefixLen
             /\ nextLen' \in PrefixValues(Bytes(k))
             /\ ReaderGoto("record")
  BY DEF ReadFirstPrefix
<1>9. UNCHANGED <<store, header, rkey, rindex>>
  BY DEF ReadFirstPrefix
<1> HIDE DEF v
<1>10. /\ k \in Nat
       /\ \/ k = PrefixLen /\ pos + k <= Len(store) /\ Bytes(k) = Cells(PrefixObj(v))
          \/ /\ k < PrefixLen /\ Len(store) = pos + k
             /\ PrefixAt(wire[s], Len(store)) <=> "prefix" \in DOMAIN PrefixObj(v) /\ k = 0
  BY <1>4, <1>5, <1>6, <1>7, <1>8, ReadAt
<1>11. CASE /\ k < PrefixLen /\ Len(store) = pos + k
            /\ PrefixAt(wire[s], Len(store)) <=> "prefix" \in DOMAIN PrefixObj(v) /\ k = 0
  <2>1. rpc' = "failed" /\ rerr' = "ErrTruncated"
    <3>1. k # PrefixLen
      BY <1>10, <1>11, LengthAssumption
    <3> QED
      BY <1>8, <3>1
  <2>2. /\ Len(store) \in Nat /\ Len(c.header) <= Len(store)
        /\ Len(store) = Len(c.header) \/ ~PrefixAt(w, Len(store))
    <3> DEFINE g == Len(c.header)  l == Len(store)
    <3>1. g \in Nat /\ l = g + k
      BY <1>5, <1>6, <1>11
    <3> HIDE DEF g, l
    <3>2. l \in Nat /\ g <= l /\ (k = 0 => l = g)
      BY <3>1, <1>10
    <3> QED
      BY <3>2, <1>11 DEF g, l
  <2>3. CutError(c, w, Len(store), "ErrTruncated")
    BY <1>1, <2>2, ShortInRecords
  <2> QED
    BY <1>9, <2>1, <2>3, CutFailed
<1>12. CASE k = PrefixLen /\ pos + k <= Len(store) /\ Bytes(k) = Cells(PrefixObj(v))
  <2>1. PrefixValues(Bytes(k)) = {v}
    BY <1>12, PrefixValuesCells
  <2>2. nextLen' = v /\ rpc' = "record"
    BY <1>8, <1>10, <1>12, <2>1, LengthAssumption
  <2>3. crypto' = crypto /\ plain' = plain
    BY DEF writerVars
  <2>4. AtBody(s)'
    <3>1. pos' = RecordStart(crypto'[s], rindex') + PrefixLen /\ pos' <= Len(store')
      BY <1>5, <1>6, <1>8, <1>9, <1>12, <2>3
    <3>2. nextLen' = RecordHave(crypto'[s], plain'[s], rindex') + TagLen
      BY <1>6, <1>9, <2>2, <2>3 DEF v
    <3> QED
      BY <3>1, <3>2 DEF AtBody
  <2>5. HasRecord(crypto'[s], plain'[s], rindex')
    BY <1>3, <1>6, <1>9, <2>3
  <2>6. /\ rkey' = crypto'[s].messageKey
        /\ header' = writeFixedHeader(crypto'[s].suiteID, crypto'[s].chunkSize, s, s)
    BY <1>1, <1>9, <2>3
  <2> QED
    BY <2>2, <2>4, <2>5, <2>6 DEF CutAt, Looping
<1> QED
  BY <1>10, <1>11, <1>12

LEMMA CutRecord ==
  ASSUME NEW s \in Streams, OnCut(s), CutAt(s), ~EmptyReads,
         rpc = "record", ReadRecord, UNCHANGED writerVars
  PROVE  CutAt(s)'
<1> DEFINE c == crypto[s]  w == wire[s]  n == plain[s]  i == rindex
           h == RecordHave(c, n, i)
           obj == RecordObj(ReferenceRecord(c, n, i), h)
           x == RecordStart(c, i)
<1>1. /\ Prepared(c, s) /\ AtBody(s) /\ rkey = c.messageKey /\ HasRecord(c, n, i)
      /\ header = writeFixedHeader(c.suiteID, c.chunkSize, s, s) /\ i \in Nat
  BY DEF OnCut, CutAt, Looping
<1>2. PICK m : Finished(c, n, w, m)
  BY DEF OnCut
<1>3. pos = x + PrefixLen /\ pos <= Len(store) /\ nextLen = h + TagLen
  BY <1>1 DEF AtBody
<1>4. /\ x \in Nat /\ h \in Nat /\ Len(c.header) <= x /\ Piece(w, x + PrefixLen, obj)
      /\ RecordEnd(c, n, i) = x + PrefixLen + (h + TagLen)
  BY <1>1, <1>2, RecordPieces
<1>5. obj.size = h + TagLen /\ "prefix" \notin DOMAIN obj
  BY DEF RecordObj
<1>6. Measured(c, n) /\ Len(c.header) \in Nat
  BY <1>2 DEF Finished, Measured
<1>7. h <= c.chunkSize /\ c.chunkSize \in Nat
  <2>1. h \in 0 .. c.chunkSize
    BY <1>1, <1>6, Geometry
  <2> QED
    BY <2>1, <1>6 DEF Measured
<1>8. nextLen <= maxRecord /\ ~(nextLen > maxRecord)
  <2>1. header.chunkSize = c.chunkSize
    BY <1>1 DEF writeFixedHeader
  <2>2. maxRecord = c.chunkSize + TagLen
    BY <2>1 DEF maxRecord
  <2> DEFINE z == c.chunkSize
  <2>3. h \in Nat /\ z \in Nat /\ h <= z /\ nextLen = h + TagLen /\ maxRecord = z + TagLen
    BY <2>2, <1>3, <1>4, <1>7
  <2> HIDE DEF h, z
  <2> QED
    BY <2>3, LengthAssumption
<1>9. PICK k \in Counts(nextLen) :
             /\ pos' = pos + k
             /\ \/ k # nextLen /\ ReaderFail("ErrTruncated") /\ UNCHANGED body
                \/ k = nextLen /\ body' = Bytes(k) /\ ReaderGoto("peek")
  BY <1>8 DEF ReadRecord
<1>10. UNCHANGED <<store, header, rkey, rindex>>
  BY DEF ReadRecord
<1> HIDE DEF obj, x, h
<1>11. /\ k \in Nat
       /\ \/ k = nextLen /\ pos + k <= Len(store) /\ Bytes(k) = Cells(obj)
          \/ /\ k < nextLen /\ Len(store) = pos + k
             /\ PrefixAt(wire[s], Len(store)) <=> "prefix" \in DOMAIN obj /\ k = 0
  BY <1>3, <1>4, <1>5, <1>9, ReadAt
<1>12. CASE /\ k < nextLen /\ Len(store) = pos + k
            /\ PrefixAt(wire[s], Len(store)) <=> "prefix" \in DOMAIN obj /\ k = 0
  <2>1. rpc' = "failed" /\ rerr' = "ErrTruncated"
    <3>1. k # nextLen
      BY <1>3, <1>4, <1>11, <1>12, LengthAssumption
    <3> QED
      BY <1>9, <3>1
  <2>2. Len(store) \in Nat /\ Len(c.header) <= Len(store)
    <3> DEFINE g == Len(c.header)  l == Len(store)
    <3>1. g \in Nat /\ l = x + PrefixLen + k /\ g <= x
      BY <1>3, <1>4, <1>6, <1>12
    <3> HIDE DEF g, l
    <3>2. l \in Nat /\ g <= l
      BY <3>1, <1>4, <1>11, LengthAssumption
    <3> QED
      BY <3>2 DEF g, l
  <2>3. CutError(c, w, Len(store), "ErrTruncated")
    BY <1>1, <1>5, <1>12, <2>2, ShortInRecords
  <2> QED
    BY <1>10, <2>1, <2>3, CutFailed
<1>13. CASE k = nextLen /\ pos + k <= Len(store) /\ Bytes(k) = Cells(obj)
  <2>1. body' = Cells(obj) /\ rpc' = "peek"
    BY <1>9, <1>13
  <2>2. crypto' = crypto /\ plain' = plain
    BY DEF writerVars
  <2>3. AtPeek(s)'
    <3>1. pos' = RecordEnd(c, n, i)
      BY <1>3, <1>4, <1>9, <1>13
    <3>2. pos' <= Len(store')
      BY <1>9, <1>10, <1>13
    <3> QED
      BY <3>1, <3>2, <1>10, <2>2 DEF AtPeek
  <2>4. HasBody(s)'
    BY <1>10, <2>1, <2>2 DEF HasBody, obj, h
  <2>5. HasRecord(crypto'[s], plain'[s], rindex')
    BY <1>1, <1>10, <2>2
  <2>6. /\ rkey' = crypto'[s].messageKey
        /\ header' = writeFixedHeader(crypto'[s].suiteID, crypto'[s].chunkSize, s, s)
    BY <1>1, <1>10, <2>2
  <2> QED
    BY <2>1, <2>3, <2>4, <2>5, <2>6 DEF CutAt, Looping
<1> QED
  BY <1>11, <1>12, <1>13

LEMMA CutPeek ==
  ASSUME NEW s \in Streams, OnCut(s), CutAt(s), ~EmptyReads,
         rpc = "peek", PeekPrefix, UNCHANGED writerVars
  PROVE  CutAt(s)'
<1> DEFINE c == crypto[s]  w == wire[s]  n == plain[s]  i == rindex
           v == RecordHave(c, n, i + 1) + TagLen
           x == RecordStart(c, i + 1)
<1>1. /\ Prepared(c, s) /\ AtPeek(s) /\ rkey = c.messageKey /\ HasRecord(c, n, i)
      /\ header = writeFixedHeader(c.suiteID, c.chunkSize, s, s) /\ i \in Nat
      /\ HasBody(s) /\ CutOf(store, w)
  BY DEF OnCut, CutAt, Looping
<1>2. PICK m : Finished(c, n, w, m)
  BY DEF OnCut
<1>3. pos = RecordEnd(c, n, i) /\ pos <= Len(store)
  BY <1>1 DEF AtPeek
<1>4. HasRecord(c, n, i + 1)
  <2>1. HasRecord(c, n, i + 1) \/ RecordEnd(c, n, i) = Len(w)
    BY <1>1, <1>2, RecordPieces
  <2>2. Len(store) < Len(w) /\ Len(store) \in Nat /\ Len(w) \in Nat
    BY <1>1 DEF CutOf
  <2>3. pos # Len(w)
    BY <2>2, <1>3
  <2> QED
    BY <2>1, <2>3, <1>3
<1>5. Measured(c, n) /\ Len(c.header) \in Nat
  BY <1>2 DEF Finished, Measured
<1>6. pos = x
  BY <1>1, <1>3, <1>4, <1>5, Geometry
<1>7. x \in Nat /\ Len(c.header) <= x /\ Piece(w, x, PrefixObj(v))
  <2>1. i + 1 \in Nat
    BY <1>1
  <2> QED
    BY <1>2, <1>4, <2>1, RecordPieces
<1>8. PrefixObj(v).size = PrefixLen /\ "prefix" \in DOMAIN PrefixObj(v)
  BY DEF PrefixObj
<1>9. PICK k \in Counts(PrefixLen) :
       /\ pos' = pos + k
       /\ \/ k \notin {0, PrefixLen} /\ ReaderFail("ErrTruncated") /\ UNCHANGED nextLen
          \/ k = 0 /\ nextLen' = -1 /\ ReaderGoto("open")
          \/ /\ k = PrefixLen
             /\ nextLen' \in PrefixValues(Bytes(k))
             /\ ReaderGoto("open")
  BY DEF PeekPrefix
<1>10. UNCHANGED <<store, header, rkey, rindex, body>>
  BY DEF PeekPrefix
<1> HIDE DEF v, x
<1>11. /\ k \in Nat
       /\ \/ k = PrefixLen /\ pos + k <= Len(store) /\ Bytes(k) = Cells(PrefixObj(v))
          \/ /\ k < PrefixLen /\ Len(store) = pos + k
             /\ PrefixAt(wire[s], Len(store)) <=> "prefix" \in DOMAIN PrefixObj(v) /\ k = 0
  BY <1>3, <1>6, <1>7, <1>8, <1>9, ReadAt
<1>12. crypto' = crypto /\ plain' = plain
  BY DEF writerVars
<1>13. ASSUME rpc' = "open", AtOpen(s)' PROVE CutAt(s)'
  <2>1. HasBody(s)'
    BY <1>1, <1>10, <1>12 DEF HasBody
  <2>2. HasRecord(crypto'[s], plain'[s], rindex')
    BY <1>1, <1>10, <1>12
  <2>3. /\ rkey' = crypto'[s].messageKey
        /\ header' = writeFixedHeader(crypto'[s].suiteID, crypto'[s].chunkSize, s, s)
    BY <1>1, <1>10, <1>12
  <2> QED
    BY <1>13, <2>1, <2>2, <2>3 DEF CutAt, Looping
<1>14. CASE /\ k < PrefixLen /\ Len(store) = pos + k
            /\ PrefixAt(wire[s], Len(store)) <=> "prefix" \in DOMAIN PrefixObj(v) /\ k = 0
  <2>0. k # PrefixLen
    BY <1>11, <1>14, LengthAssumption
  <2>1. CASE k = 0
    <3>1. nextLen' = -1 /\ rpc' = "open"
      BY <1>9, <2>0, <2>1
    <3>2. Len(store) = x
      BY <1>6, <1>7, <1>14, <2>1
    <3>3. AtOpen(s)'
      BY <1>4, <1>10, <1>12, <3>1, <3>2 DEF AtOpen, x
    <3> QED
      BY <1>13, <3>1, <3>3
  <2>2. CASE k # 0
    <3>1. rpc' = "failed" /\ rerr' = "ErrTruncated"
      BY <1>9, <2>0, <2>2
    <3>2. Len(store) \in Nat /\ Len(c.header) <= Len(store)
      <4> DEFINE g == Len(c.header)  l == Len(store)
      <4>1. g \in Nat /\ l = x + k /\ g <= x
        BY <1>5, <1>6, <1>7, <1>14
      <4> HIDE DEF g, l
      <4>2. l \in Nat /\ g <= l
        BY <4>1, <1>7, <1>11
      <4> QED
        BY <4>2 DEF g, l
    <3>3. CutError(c, w, Len(store), "ErrTruncated")
      BY <1>1, <1>14, <2>2, <3>2, ShortInRecords
    <3> QED
      BY <1>10, <3>1, <3>3, CutFailed
  <2> QED
    BY <2>1, <2>2
<1>15. CASE k = PrefixLen /\ pos + k <= Len(store) /\ Bytes(k) = Cells(PrefixObj(v))
  <2>1. PrefixValues(Bytes(k)) = {v}
    BY <1>15, PrefixValuesCells
  <2>2. nextLen' = v /\ rpc' = "open"
    <3>1. k # 0
      BY <1>15, LengthAssumption
    <3> QED
      BY <1>9, <1>15, <2>1, <3>1
  <2>3. pos' = x + PrefixLen /\ pos' <= Len(store')
    BY <1>6, <1>9, <1>10, <1>15
  <2>4. AtOpen(s)'
    BY <1>4, <1>10, <1>12, <2>2, <2>3 DEF AtOpen, x, v
  <2> QED
    BY <1>13, <2>2, <2>4
<1> QED
  BY <1>11, <1>14, <1>15

\* What the reader's open of the record i of s gives: the chunk, if the
\* reader takes the record for final exactly when it is.
LEMMA OpensReference ==
  ASSUME NEW s, OnCut(s), HasRecord(crypto[s], plain[s], rindex), HasBody(s),
         rkey = crypto[s].messageKey,
         header = writeFixedHeader(crypto[s].suiteID, crypto[s].chunkSize, s, s)
  PROVE  LET h == RecordHave(crypto[s], plain[s], rindex)
             r == ReferenceRecord(crypto[s], plain[s], rindex)
         IN /\ Len(body) = h + TagLen /\ ptLen = h
            /\ isFinal # ~HasRecord(crypto[s], plain[s], rindex + 1) => OpenedChunks = {}
            /\ isFinal = ~HasRecord(crypto[s], plain[s], rindex + 1) => OpenedChunks # {}
<1> DEFINE c == crypto[s]  n == plain[s]  i == rindex
           h == RecordHave(c, n, i)
           r == ReferenceRecord(c, n, i)
           f == ~HasRecord(c, n, i + 1)
           aad == buildChunkAAD(c.suiteID, s, i, f, h, c.chunkSize)
           want == buildChunkAAD(header.suite, header.streamID, i, isFinal, ptLen,
                                 header.chunkSize)
<1>1. Prepared(c, s) /\ r \in sealed /\ i \in Nat
  BY DEF OnCut
<1>2. PICK m : Finished(c, n, wire[s], m)
  BY DEF OnCut
<1>3. h \in Nat
  BY <1>1, <1>2, RecordPieces
<1>4. c.streamID = s /\ c.alg = chunkAEADForSuite(c.suiteID)
  BY <1>1 DEF Prepared
<1>5. /\ r.alg = c.alg /\ r.key = c.messageKey /\ r.nonce = chunkNonce(i) /\ r.aad = aad
  BY <1>4 DEF ReferenceRecord, aeadSeal
<1>6. /\ header.suite = c.suiteID /\ header.streamID = s /\ header.chunkSize = c.chunkSize
  BY DEF writeFixedHeader
<1> HIDE DEF h, r
<1>7. RecordObj(r, h).size = h + TagLen /\ h + TagLen \in Nat \ {0}
  BY <1>3, LengthAssumption DEF RecordObj
<1>8. body = Cells(RecordObj(r, h))
  BY DEF HasBody, r, h
<1>9. Spelled(body) = {RecordObj(r, h)} /\ Len(body) = h + TagLen
  BY <1>7, <1>8, SpelledCells, CellsSeq
<1>10. ptLen = h
  BY <1>3, <1>9, LengthAssumption DEF ptLen
<1>11. "sealed" \in DOMAIN RecordObj(r, h) /\ RecordObj(r, h).sealed = r
  BY DEF RecordObj
<1>12. want.isFinal = isFinal /\ aad.isFinal = f
  BY DEF buildChunkAAD
<1>13. isFinal = f => want = aad
  BY <1>6, <1>10
<1>14. OpenedChunks = aeadOpen(chunkAEADForSuite(header.suite), rkey, chunkNonce(i), body, want)
  BY DEF OpenedChunks
<1> HIDE DEF aad, want, f
<1>15. ASSUME NEW q \in sealed
       PROVE  (\E o \in Spelled(body) : "sealed" \in DOMAIN o /\ o.sealed = q) <=> q = r
  BY <1>9, <1>11
<1>16. ASSUME isFinal # f PROVE OpenedChunks = {}
  <2>1. want # aad
    BY <1>12, <1>16
  <2> QED
    BY <1>5, <1>14, <1>15, <2>1 DEF aeadOpen
<1>17. ASSUME isFinal = f PROVE OpenedChunks # {}
  <2>1. want = aad
    BY <1>13, <1>17
  <2>2. r.pt \in aeadOpen(chunkAEADForSuite(header.suite), rkey, chunkNonce(i), body, want)
    BY <1>1, <1>4, <1>5, <1>6, <1>15, <2>1 DEF aeadOpen
  <2> QED
    BY <1>14, <2>2
<1> QED
  BY <1>9, <1>10, <1>16, <1>17 DEF h, f

LEMMA CutOpen ==
  ASSUME NEW s \in Streams, OnCut(s), CutAt(s),
         rpc = "open", OpenChunk, UNCHANGED writerVars
  PROVE  CutAt(s)'
<1> DEFINE c == crypto[s]  w == wire[s]  n == plain[s]  i == rindex
           h == RecordHave(c, n, i)
           x == RecordStart(c, i + 1)
           v == RecordHave(c, n, i + 1) + TagLen
<1>1. /\ Prepared(c, s) /\ AtOpen(s) /\ rkey = c.messageKey /\ HasRecord(c, n, i)
      /\ header = writeFixedHeader(c.suiteID, c.chunkSize, s, s) /\ i \in Nat
      /\ HasBody(s) /\ CutOf(store, w)
  BY DEF OnCut, CutAt, Looping
<1>2. PICK m : Finished(c, n, w, m)
  BY DEF OnCut
<1>3. HasRecord(c, n, i + 1) /\ i + 1 \in Nat
  BY <1>1 DEF AtOpen
<1>4. Measured(c, n) /\ Len(c.header) \in Nat
  BY <1>2 DEF Finished, Measured
<1>5. /\ Len(body) = h + TagLen /\ ptLen = h
      /\ isFinal => OpenedChunks = {}
      /\ ~isFinal => OpenedChunks # {}
  <2>1. isFinal \in BOOLEAN
    BY DEF isFinal
  <2>2. /\ Len(body) = h + TagLen /\ ptLen = h
        /\ isFinal # ~HasRecord(c, n, i + 1) => OpenedChunks = {}
        /\ isFinal = ~HasRecord(c, n, i + 1) => OpenedChunks # {}
    BY <1>1, OpensReference
  <2> QED
    BY <1>3, <2>1, <2>2
<1>6. h = c.chunkSize /\ header.chunkSize = c.chunkSize /\ h \in Nat
  <2>1. h = c.chunkSize
    BY <1>1, <1>3, <1>4, Geometry
  <2>2. header.chunkSize = c.chunkSize
    BY <1>1 DEF writeFixedHeader
  <2> QED
    BY <2>1, <2>2, <1>4 DEF Measured
<1>7. /\ x \in Nat /\ Piece(w, x, PrefixObj(v)) /\ RecordHave(c, n, i + 1) \in Nat
  BY <1>2, <1>3, RecordPieces
<1>8. Len(c.header) < x
  <2>1. /\ RecordStart(c, i) \in Nat /\ Len(c.header) <= RecordStart(c, i)
        /\ x = RecordStart(c, i) + PrefixLen + c.chunkSize + TagLen
    BY <1>1, <1>4, Geometry
  <2> DEFINE g == Len(c.header)  y == RecordStart(c, i)  z == c.chunkSize
  <2>2. g \in Nat /\ y \in Nat /\ g <= y /\ x = y + PrefixLen + z + TagLen /\ z \in Nat
    BY <2>1, <1>4, <1>6
  <2> HIDE DEF g, x, y, z
  <2>3. g < x
    BY <2>2, LengthAssumption
  <2> QED
    BY <2>3 DEF g
<1>9. UNCHANGED <<store, keyArg, pos, header, envelope, rkey, body, nextLen>>
  BY DEF OpenChunk
<1>10. crypto' = crypto /\ plain' = plain
  BY DEF writerVars
<1>11. CASE nextLen = -1 /\ Len(store) = x
  <2>1. OpenedChunks = {}
    BY <1>5, <1>11 DEF isFinal
  <2>2. rpc' = "failed" /\ rerr' = "ErrAuthFailed"
    BY <2>1 DEF OpenChunk
  <2>3. PrefixAt(w, x)
    <3>1. 1 \in 1 .. PrefixObj(v).size /\ x + 1 <= Len(w)
      <4>1. PrefixObj(v).size = PrefixLen
        BY DEF PrefixObj
      <4>2. Len(store) < Len(w) /\ Len(w) \in Nat
        BY <1>1 DEF CutOf
      <4>3. x + 1 <= Len(w)
        BY <1>7, <1>11, <4>2
      <4> QED
        BY <4>1, <4>3, LengthAssumption
    <3>2. w[x + 1] = [obj |-> PrefixObj(v), at |-> 1]
      BY <1>7, <3>1 DEF Piece, Holds
    <3>3. "prefix" \in DOMAIN PrefixObj(v)
      BY DEF PrefixObj
    <3> HIDE DEF v, x, w
    <3>4. w[x + 1].obj = PrefixObj(v) /\ w[x + 1].at = 1
      BY <3>2
    <3> QED
      BY <3>3, <3>4 DEF PrefixAt
  <2>4. CutError(c, w, Len(store), "ErrAuthFailed")
    BY <1>1, <1>7, <1>8, <1>11, <2>3, BetweenRecords
  <2> QED
    BY <1>9, <2>2, <2>4, CutFailed
<1>12. CASE nextLen = v /\ pos = x + PrefixLen /\ pos <= Len(store)
  <2>1. ~isFinal
    BY <1>7, <1>12, LengthAssumption DEF isFinal
  <2>2. OpenedChunks # {} /\ ~(Len(body) < TagLen) /\ ptLen = header.chunkSize
    <3> HIDE DEF h
    <3>1. ~(Len(body) < TagLen)
      BY <1>5, <1>6, LengthAssumption
    <3> QED
      BY <1>5, <1>6, <2>1, <3>1
  <2>3. \/ rpc' = "record" /\ rindex' = rindex + 1
        \/ rpc' = "failed" /\ rerr' = "writeError"
    BY <2>1, <2>2 DEF OpenChunk
  <2>4. CASE rpc' = "failed" /\ rerr' = "writeError"
    BY <1>9, <2>4, CutFailed
  <2>5. CASE rpc' = "record" /\ rindex' = rindex + 1
    <3>1. AtBody(s)'
      BY <1>9, <1>10, <1>12, <2>5 DEF AtBody
    <3>2. HasRecord(crypto'[s], plain'[s], rindex')
      BY <1>3, <1>10, <2>5
    <3>3. /\ rkey' = crypto'[s].messageKey
          /\ header' = writeFixedHeader(crypto'[s].suiteID, crypto'[s].chunkSize, s, s)
      BY <1>1, <1>9, <1>10
    <3> QED
      BY <2>5, <3>1, <3>2, <3>3 DEF CutAt, Looping
  <2> QED
    BY <2>3, <2>4, <2>5
<1> QED
  BY <1>1, <1>11, <1>12 DEF AtOpen

\* A call that begins: with the right key it passes the length check.
LEMMA CutCall ==
  ASSUME WriterInv, ReaderInv, LayoutInv, CutInv, NEW s \in Streams,
         ReaderCall, UNCHANGED writerVars, CutShort(s)'
  PROVE  CutAt(s)'
<1>1. wpc'[s] = "ok" /\ RightKey(s)' /\ crypto' = crypto /\ wpc' = wpc
  BY DEF CutShort, writerVars
<1>2. Prepared(crypto[s], s)
  BY <1>1 DEF LayoutInv, Stage, Running
<1>3. "badLength" \notin DOMAIN crypto[s].cek
  BY <1>2 DEF Prepared
<1>4. rpc = "idle" /\ pos' = pos
  BY DEF ReaderCall, DecryptAEAD, DecryptMLKEM
<1>5. pos' = 0
  BY <1>4 DEF ReaderInv
<1>6. rpc' = "header"
  <2>1. CASE \E cek : DecryptAEAD(cek)
    <3>1. PICK cek : DecryptAEAD(cek)
      BY <2>1
    <3>2. keyArg' = [mode |-> "AEAD", cek |-> cek]
      BY <3>1 DEF DecryptAEAD
    <3>3. keyArg'.mode = "AEAD" /\ keyArg'.cek = cek
      BY <3>2
    <3>4. "AEAD" # "MLKEM"
      OBVIOUS
    <3>5. cek = crypto[s].cek
      BY <1>1, <3>3, <3>4 DEF RightKey
    <3> QED
      BY <1>3, <3>1, <3>5 DEF DecryptAEAD
  <2>2. CASE \E by, seed, suite : DecryptMLKEM(by, seed, suite)
    BY <2>2 DEF DecryptMLKEM
  <2> QED
    BY <2>1, <2>2 DEF ReaderCall
<1> QED
  BY <1>5, <1>6 DEF CutAt, Looping

LEMMA CutStep ==
  ASSUME WriterInv, ReaderInv, LayoutInv, HeadersNamed, CutInv, ~EmptyReads,
         NEW s \in Streams, ReaderStep \/ ReadError, UNCHANGED <<writerVars, mediumVars>>,
         CutShort(s)'
  PROVE  CutAt(s)'
<1>1. UNCHANGED <<store, keyArg>> /\ rpc # "idle"
  BY DEF ReaderStep, ReadError, ReadHeader, ReadEnvelopeField, RecoverCEK, ReadFirstPrefix,
         ReadRecord, PeekPrefix, OpenChunk
<1>2. CutShort(s)
  <2>1. /\ crypto' = crypto /\ wire' = wire /\ wpc' = wpc /\ origin' = origin
        /\ store' = store /\ keyArg' = keyArg
    BY <1>1 DEF writerVars, mediumVars
  <2>2. RightKey(s)' => RightKey(s)
    BY <2>1 DEF RightKey, isAEADCall
  <2> QED
    BY <2>1, <2>2 DEF CutShort
<1>3. OnCut(s) /\ CutAt(s) /\ RightKey(s) /\ UNCHANGED writerVars
  BY <1>1, <1>2, CutFacts DEF CutInv, CutShort
<1>4. CASE ReadHeader
  <2>1. rpc = "header" /\ envelope = <<>> /\ rindex = 0
    BY <1>4 DEF ReadHeader, CutInv, ReaderInv, Opening
  <2> QED
    BY <1>3, <1>4, <2>1, CutHeader
<1>5. CASE ReadEnvelopeField
  <2>1. rpc = "envelope"
    BY <1>5 DEF ReadEnvelopeField
  <2> QED
    BY <1>3, <1>5, <2>1, CutField
<1>6. CASE RecoverCEK
  <2>1. rpc = "recover" /\ rindex = 0
    BY <1>6 DEF RecoverCEK, ReaderInv, Opening
  <2> QED
    BY <1>3, <1>6, <2>1, CutRecover
<1>7. CASE ReadFirstPrefix
  <2>1. rpc = "first"
    BY <1>7 DEF ReadFirstPrefix
  <2> QED
    BY <1>3, <1>7, <2>1, CutFirst
<1>8. CASE ReadRecord
  <2>1. rpc = "record"
    BY <1>8 DEF ReadRecord
  <2> QED
    BY <1>3, <1>8, <2>1, CutRecord
<1>9. CASE PeekPrefix
  <2>1. rpc = "peek"
    BY <1>9 DEF PeekPrefix
  <2> QED
    BY <1>3, <1>9, <2>1, CutPeek
<1>10. CASE OpenChunk
  <2>1. rpc = "open"
    BY <1>10 DEF OpenChunk
  <2> QED
    BY <1>3, <1>10, <2>1, CutOpen
<1>11. CASE ReadError
  <2>1. rpc' = "failed" /\ rerr' = "readError"
    BY <1>11 DEF ReadError
  <2> QED
    BY <1>1, <1>3, <2>1, CutFailed
<1> QED
  BY <1>4, <1>5, <1>6, <1>7, <1>8, <1>9, <1>10, <1>11 DEF ReaderStep

LEMMA CutNext ==
  ASSUME ~EmptyReads, WriterInv, ReaderInv, LayoutInv, HeadersNamed, CutInv, [Next]_vars
  PROVE  CutInv'
<1>1. CASE Writing
  <2>1. rpc = "idle" /\ UNCHANGED <<rpc, envelope>>
    BY <1>1 DEF Writing, ReaderInv, readerVars
  <2> QED
    BY <2>1 DEF CutInv
<1>2. CASE Medium
  <2>1. rpc = "idle"
    BY <1>2 DEF Medium, Fetch, Truncate, DropBlock, RepeatBlock, SwapBlocks, SpliceBlock,
                AlterHeader, AlterPrefix, InTransit, ReaderInv
  <2>2. UNCHANGED <<rpc, envelope>>
    BY <1>2 DEF Medium, Fetch, Truncate, DropBlock, RepeatBlock, SwapBlocks, SpliceBlock,
                AlterHeader, AlterPrefix, Damage
  <2> QED
    BY <2>1, <2>2 DEF CutInv
<1>3. CASE Reading
  <2>1. UNCHANGED <<writerVars, mediumVars>>
    BY <1>3 DEF Reading
  <2>2. rpc' \in {"idle", "header"} => envelope' = <<>>
    <3>1. ASSUME ReaderCall PROVE rpc = "idle" /\ envelope' = envelope
      BY <3>1 DEF ReaderCall, DecryptAEAD, DecryptMLKEM
    <3>2. ASSUME ReadHeader PROVE rpc' \notin {"idle", "header"}
      BY <3>2 DEF ReadHeader, AcceptHeader
    <3>3. ASSUME ReadEnvelopeField PROVE rpc' \notin {"idle", "header"}
      BY <3>3 DEF ReadEnvelopeField
    <3>4. ASSUME RecoverCEK PROVE rpc' \notin {"idle", "header"}
      BY <3>4 DEF RecoverCEK
    <3>5. ASSUME ReadFirstPrefix \/ ReadRecord \/ PeekPrefix \/ OpenChunk \/ ReadError
          PROVE  rpc' \notin {"idle", "header"}
      BY <3>5 DEF ReadFirstPrefix, ReadRecord, PeekPrefix, OpenChunk, ReadError
    <3> QED
      BY <1>3, <3>1, <3>2, <3>3, <3>4, <3>5 DEF Reading, ReaderStep, CutInv
  <2>3. ASSUME NEW s \in Streams, CutShort(s)' PROVE CutAt(s)'
    <3>1. CASE ReaderCall
      BY <2>1, <2>3, <3>1, CutCall
    <3>2. CASE ReaderStep \/ ReadError
      BY <2>1, <2>3, <3>2, CutStep
    <3> QED
      BY <1>3, <3>1, <3>2 DEF Reading
  <2> QED
    BY <2>2, <2>3 DEF CutInv
<1>4. CASE UNCHANGED vars
  <2>1. /\ UNCHANGED <<store, rpc, rerr, keyArg, pos, header, envelope, rkey, body, nextLen,
                       rindex, origin, crypto, wire, wpc, plain>>
    BY <1>4 DEF vars, readerVars, mediumVars, writerVars
  <2>2. \A s \in Streams : CutShort(s)' <=> CutShort(s)
    BY <2>1 DEF CutShort, RightKey, isAEADCall
  <2>3. \A s \in Streams : CutAt(s)' <=> CutAt(s)
    BY <2>1 DEF CutAt, AtField, AtFirst, AtBody, HasBody, AtPeek, AtOpen
  <2> QED
    BY <2>1, <2>2, <2>3 DEF CutInv
<1> QED
  BY <1>1, <1>2, <1>3, <1>4 DEF Next

LEMMA ClassifiedCuts ==
  ASSUME WriterInv, ReaderInv, LayoutInv, HeadersNamed, CutInv PROVE CutClassified
<1> SUFFICES ASSUME NEW s \in Streams, CutShort(s), rpc \in {"ok", "failed"},
                    rerr \notin {"readError", "writeError"}
             PROVE  LET n    == Len(store)
                        head == Len(crypto[s].header)
                    IN rerr = CASE n < FixedHeaderLen -> "ErrShortHeader"
                     [] n >= FixedHeaderLen /\ n < head ->
                          IF isPrefixStart(s, n) THEN "ErrShortHeader" ELSE "ErrTruncated"
                     [] n = head -> "ErrTruncated"
                     [] n > head ->
                          IF isPrefixStart(s, n) THEN "ErrAuthFailed" ELSE "ErrTruncated"
  BY DEF CutClassified
<1> DEFINE n == Len(store)  g == Len(crypto[s].header)  c == crypto[s]  w == wire[s]
           f == FixedHeaderLen
<1>1. OnCut(s)
  BY CutFacts
<1>2. CutAt(s) /\ rpc # "ok" /\ CutError(c, w, n, rerr)
  BY DEF CutInv, CutAt
<1>3. isPrefixStart(s, n) <=> PrefixAt(w, n)
  BY DEF isPrefixStart, PrefixAt
<1>4. /\ n < f => rerr = "ErrShortHeader"
      /\ n >= f /\ n < g =>
           rerr = IF isPrefixStart(s, n) THEN "ErrShortHeader" ELSE "ErrTruncated"
      /\ n = g => rerr = "ErrTruncated"
      /\ n > g => rerr = IF isPrefixStart(s, n) THEN "ErrAuthFailed" ELSE "ErrTruncated"
  BY <1>2, <1>3 DEF CutError
<1>5. n \in Nat /\ g \in Nat /\ f \in Nat /\ f <= g
  <2>1. Prepared(c, s) /\ CutOf(store, w)
    BY <1>1 DEF OnCut
  <2>2. g = f + Len(KEMPart(c)) /\ Len(KEMPart(c)) \in Nat
    BY <2>1, PreparedHeader
  <2>3. n \in Nat
    BY <2>1 DEF CutOf
  <2> HIDE DEF g, n
  <2> QED
    BY <2>2, <2>3, LengthAssumption
<1> HIDE DEF n, g, f
<1>6. /\ n < f \/ (n >= f /\ n < g) \/ n = g \/ n > g
      /\ n < f => ~(n >= f /\ n < g) /\ n # g /\ ~(n > g)
      /\ n >= f /\ n < g => ~(n < f) /\ n # g /\ ~(n > g)
      /\ n = g => ~(n < f) /\ ~(n >= f /\ n < g) /\ ~(n > g)
      /\ n > g => ~(n < f) /\ ~(n >= f /\ n < g) /\ n # g
  BY <1>5
<1>7. rerr = CASE n < f -> "ErrShortHeader"
               [] n >= f /\ n < g ->
                    IF isPrefixStart(s, n) THEN "ErrShortHeader" ELSE "ErrTruncated"
               [] n = g -> "ErrTruncated"
               [] n > g ->
                    IF isPrefixStart(s, n) THEN "ErrAuthFailed" ELSE "ErrTruncated"
  BY <1>4, <1>6, Zenon
<1> QED
  BY <1>7, Zenon DEF n, g, f

\* With sources that give no empty reads, a container that is whole but for what
\* was cut off its end is refused with the error that the place of the cut calls
\* for: ErrShortHeader in the header and at the start of an envelope's field,
\* ErrAuthFailed at the start of a record, where the one before was taken for the
\* last, and else ErrTruncated.
THEOREM CutsAreClassified ==
  ASSUME ~EmptyReads
  PROVE  Spec => []CutClassified
<1>1. Init => LayoutInv /\ CutInv
  <2>1. Init => CutInv
    BY DEF Init, ReaderInit, CutInv
  <2> QED
    BY <2>1, LayoutInit DEF Init
<1>2. Init => HeadersNamed
  BY HeadersNamedInit
<1>3. (WriterInv /\ ReaderInv) /\ HeadersNamed /\ [Next]_vars => HeadersNamed'
  BY HeadersNamedNext
<1>4. (WriterInv /\ ReaderInv) /\ LayoutInv /\ [Next]_vars => LayoutInv'
  BY LayoutNext, WriterSteps
<1>5. (WriterInv /\ ReaderInv) /\ LayoutInv /\ HeadersNamed /\ CutInv /\ [Next]_vars => CutInv'
  BY CutNext
<1>6. (WriterInv /\ ReaderInv) /\ LayoutInv /\ HeadersNamed /\ CutInv => CutClassified
  BY ClassifiedCuts
<1> QED
  BY <1>1, <1>2, <1>3, <1>4, <1>5, <1>6, TransferInvariant, PTL DEF Spec

-----------------------------------------------------------------------------
(***************************************************************************)
(* SuccessIsWholeLength.  A reader that goes on has read only whole        *)
(* pieces: the header, prefixes, and bodies that, but for the last, hold   *)
(* a full chunk, which the AEAD vouches for.  So its position is known,    *)
(* whatever the cells are (SizeInv), and at the end it is that of the      *)
(* final record the stream's call sealed.                                  *)
(***************************************************************************)

\* The length of the header of a suite's containers.
HeadLen(suite) ==
  IF isMLKEM(suite) THEN FieldStarts([suiteID |-> suite])[6] ELSE FixedHeaderLen

\* Where record i of a container with the parsed header begins.
StartOf(i) == HeadLen(header.suite) + i * (PrefixLen + header.chunkSize + TagLen)

\* In the envelope: before its next field.
SizedField ==
  /\ isMLKEM(header.suite)
  /\ IsSeq(envelope) /\ Len(envelope) \in 0 .. 5
  /\ rpc = "envelope" <=> Len(envelope) < 5
  /\ pos = FieldStarts([suiteID |-> header.suite])[Len(envelope) + 1]

\* After the last record: it is a final one of the header's stream, and the
\* container ends with it.
SizedEnd ==
  \E r \in ChunkRecords :
    /\ Own(r) /\ r.aad.isFinal /\ r.aad.index = rindex
    /\ r.aad.suite = header.suite /\ r.aad.chunkSize = header.chunkSize
    /\ Len(body) \in Nat /\ r.aad.ptLen = Len(body) - TagLen
    /\ Len(store) = StartOf(rindex) + PrefixLen + Len(body)

SizeInv ==
  /\ rpc \in {"idle", "header"} => envelope = <<>>
  /\ rpc \in {"envelope", "recover"} \cup Looping =>
       pos \in Nat /\ pos <= Len(store) /\ header.chunkSize \in Nat
  /\ rpc \in {"envelope", "recover"} => SizedField
  /\ rpc = "first" => pos = HeadLen(header.suite)
  /\ rpc = "record" => nextLen \in Nat /\ pos = StartOf(rindex) + PrefixLen
  /\ rpc \in {"peek", "open"} => Len(body) \in Nat
  /\ rpc = "peek" => pos = StartOf(rindex) + PrefixLen + Len(body)
  /\ rpc = "open" =>
       \/ isFinal /\ pos = Len(store) /\ pos = StartOf(rindex) + PrefixLen + Len(body)
       \/ nextLen \in Nat /\ pos = StartOf(rindex) + PrefixLen + Len(body) + PrefixLen
  /\ rpc = "ok" => SizedEnd

\* A readFull that returns what was asked for, or the end of the container.
LEMMA ReadWhole ==
  ASSUME ~EmptyReads, Named(store), pos \in Nat, pos <= Len(store),
         NEW n \in Nat, NEW k \in Counts(n)
  PROVE  /\ k \in Nat /\ pos + k \in Nat /\ pos + k <= Len(store)
         /\ Named(Bytes(k)) /\ Len(Bytes(k)) = k
         /\ k = 0 /\ n # 0 => pos = Len(store)
<1> DEFINE l == Len(store)
<1>1. l \in Nat /\ IsSeq(store)
  BY DEF Named, IsSeq
<1>2. Named(store) /\ l = Len(store) /\ Counts(n) = readFullCounts(l - pos, n)
  BY DEF Counts
<1> HIDE DEF l
<1>3. l - pos \in Nat
  BY <1>1, <1>2
<1>4. /\ k \in Nat /\ k <= l - pos /\ (k = 0 /\ n # 0 => l - pos = 0)
  BY <1>2, <1>3, ReadFullCount
<1>5. pos + k \in Nat /\ pos + k <= l /\ (k = 0 /\ n # 0 => pos = l)
  BY <1>1, <1>4
<1>6. pos + 1 \in Int /\ pos + k \in Int /\ 1 <= pos + 1
  BY <1>5
<1>7. Named(Bytes(k))
  BY <1>2, <1>5, <1>6, NamedSubSeq DEF Bytes
<1>8. Len(Bytes(k)) = k
  BY <1>1, <1>2, <1>4, <1>5, SeqPart DEF Bytes, PartOf
<1> QED BY <1>2, <1>4, <1>5, <1>7, <1>8

\* What a prefix may be decoded to.
LEMMA PrefixNumbers ==
  ASSUME NEW cells, Named(cells) PROVE PrefixValues(cells) \subseteq Nat
<1>1. ASSUME NEW o \in Spelled(cells), "prefix" \in DOMAIN o PROVE o.prefix \in Nat
  <2>1. cells # <<>> /\ o = cells[1].obj
    BY <1>1 DEF Spelled
  <2>2. 1 \in DOMAIN cells
    BY <2>1 DEF Named
  <2> QED BY <1>1, <2>1, <2>2 DEF Named, CellOK
<1> QED BY <1>1, ReaderAssumption DEF PrefixValues

\* The fields of the envelope follow one another.
LEMMA FieldSteps ==
  ASSUME NEW suite, isMLKEM(suite), NEW i \in 1 .. 5
  PROVE  LET starts == FieldStarts([suiteID |-> suite])
             lens   == FieldLens([suiteID |-> suite])
             want   == IF IsPrefixField(i) THEN PrefixLen ELSE lens[i]
         IN /\ starts[1] = FixedHeaderLen
            /\ starts[i] \in Nat /\ want \in Nat
            /\ starts[i + 1] = starts[i] + want
<1> DEFINE f == FixedHeaderLen  p == PrefixLen  k == KEMCtLen[suite]
           starts == FieldStarts([suiteID |-> suite])
           lens == FieldLens([suiteID |-> suite])
<1>1. starts = <<f, f + p, f + p + k, f + p + k + NonceLen, f + p + k + NonceLen + p,
                f + p + k + NonceLen + p + (CEKLen + TagLen)>>
  BY DEF FieldStarts
<1>2. lens = <<k, k, NonceLen, CEKLen + TagLen, CEKLen + TagLen>>
  BY DEF FieldLens
<1>3. /\ f \in Nat /\ p \in Nat /\ k \in Nat /\ NonceLen \in Nat /\ CEKLen + TagLen \in Nat
  BY LengthAssumption DEF isMLKEM
<1> HIDE DEF starts, lens, k
<1>4. /\ starts[1] = f /\ starts[i] \in Nat
      /\ (IF IsPrefixField(i) THEN p ELSE lens[i]) \in Nat
      /\ starts[i + 1] = starts[i] + (IF IsPrefixField(i) THEN p ELSE lens[i])
  BY <1>1, <1>2, <1>3 DEF IsPrefixField
<1> QED BY <1>4 DEF starts, lens

\* A header's length is a number, and that of the header a call writes.
LEMMA HeadIsNumber ==
  ASSUME NEW suite PROVE HeadLen(suite) \in Nat
<1>1. CASE isMLKEM(suite)
  <2> DEFINE starts == FieldStarts([suiteID |-> suite])
             want == IF IsPrefixField(5) THEN PrefixLen ELSE FieldLens([suiteID |-> suite])[5]
  <2>1. 5 \in 1 .. 5 /\ 5 + 1 = 6
    OBVIOUS
  <2>2. starts[5] \in Nat /\ want \in Nat /\ starts[6] = starts[5] + want
    BY <1>1, <2>1, FieldSteps
  <2> HIDE DEF starts, want
  <2>3. starts[6] \in Nat
    BY <2>2
  <2> QED BY <1>1, <2>3 DEF HeadLen, starts
<1>2. CASE ~isMLKEM(suite)
  BY <1>2, LengthAssumption DEF HeadLen
<1> QED BY <1>1, <1>2

LEMMA HeadIsHeader ==
  ASSUME NEW c, NEW s, Prepared(c, s)
  PROVE  HeadLen(c.suiteID) = Len(c.header)
<1>1. CASE isMLKEM(c.suiteID)
  <2>1. FieldStarts([suiteID |-> c.suiteID]) = FieldStarts(c)
    BY DEF FieldStarts
  <2>2. FieldStarts(c)[6] = Len(c.header)
    <3>1. 5 \in 1 .. 5
      OBVIOUS
    <3> QED BY <1>1, <3>1, FieldFacts
  <2> QED BY <1>1, <2>1, <2>2 DEF HeadLen
<1>2. CASE ~isMLKEM(c.suiteID)
  <2>1. KEMPart(c) = <<>> /\ Len(KEMPart(c)) = 0
    BY <1>2, EmptyIsSeq DEF KEMPart
  <2>2. Len(c.header) = FixedHeaderLen + Len(KEMPart(c))
    BY PreparedHeader
  <2>3. Len(c.header) = FixedHeaderLen
    BY <2>1, <2>2, LengthAssumption
  <2> QED BY <1>2, <2>3 DEF HeadLen
<1> QED BY <1>1, <1>2

\* The starts of the records are numbers, one record apart.
LEMMA StartsApart ==
  ASSUME header.chunkSize \in Nat, NEW i \in Nat
  PROVE  /\ StartOf(i) \in Nat /\ StartOf(0) = HeadLen(header.suite)
         /\ StartOf(i + 1) = StartOf(i) + (PrefixLen + header.chunkSize + TagLen)
<1> DEFINE u == PrefixLen + header.chunkSize + TagLen  h == HeadLen(header.suite)
<1>1. u \in Nat /\ h \in Nat
  BY LengthAssumption, HeadIsNumber
<1>2. /\ StartOf(i) = h + i * u /\ StartOf(0) = h + 0 * u /\ StartOf(i + 1) = h + (i + 1) * u
  BY DEF StartOf
<1> HIDE DEF u, h
<1>3. i * u \in Nat /\ 0 * u = 0 /\ (i + 1) * u = i * u + u
  BY <1>1, Multiples
<1>4. StartOf(i) \in Nat /\ StartOf(0) = h /\ StartOf(i + 1) = StartOf(i) + u
  BY <1>1, <1>2, <1>3
<1> QED BY <1>4 DEF u, h

\* The header is read and accepted.
LEMMA SizedHeader ==
  ASSUME ~EmptyReads, ReaderInv, HeadersNamed, SizeInv, ReadHeader
  PROVE  SizeInv'
<1>1. rpc = "header" /\ pos = 0 /\ Named(store) /\ envelope = <<>> /\ UNCHANGED <<store, envelope>>
  BY DEF ReadHeader, ReaderInv, HeadersNamed, SizeInv
<1>2. FixedHeaderLen \in Nat /\ pos \in Nat /\ pos <= Len(store) /\ Len(store) \in Nat
  BY <1>1, LengthAssumption DEF Named
<1>3. PICK k \in Counts(FixedHeaderLen) :
        /\ pos' = pos + k
        /\ \/ rpc' = "failed"
           \/ \E h \in HeaderOf(Bytes(k)) :
                k = FixedHeaderLen /\ HeaderError(h) = "" /\ AcceptHeader(h)
  BY DEF ReadHeader
<1>4. CASE rpc' = "failed"
  BY <1>4 DEF SizeInv, Looping
<1>5. CASE \E h \in HeaderOf(Bytes(k)) :
             k = FixedHeaderLen /\ HeaderError(h) = "" /\ AcceptHeader(h)
  <2>1. PICK h \in HeaderOf(Bytes(k)) :
          k = FixedHeaderLen /\ HeaderError(h) = "" /\ AcceptHeader(h)
    BY <1>5
  <2>2. HeaderOK(h)
    BY <1>1, AcceptedNamed
  <2>3. pos' \in Nat /\ pos' <= Len(store') /\ header'.chunkSize \in Nat
    BY <1>1, <1>2, <1>3, <2>1, <2>2, ReadWhole DEF HeaderOK, AcceptHeader
  <2>4. pos' = FixedHeaderLen /\ header' = h
    <3>1. header' = h
      BY <2>1 DEF AcceptHeader
    <3>2. pos' = 0 + FixedHeaderLen
      BY <1>1, <1>3, <2>1
    <3> QED BY <1>2, <3>1, <3>2
  <2>5. CASE keyArg.mode = "AEAD" /\ rpc' = "first"
    <3>1. h.suite \in AEADSuites
      BY <2>1, <2>5 DEF HeaderError
    <3>2. ~isMLKEM(header'.suite)
      BY <2>4, <3>1 DEF AEADSuites, isMLKEM, KEMSuites
    <3>3. pos' = HeadLen(header'.suite)
      BY <2>4, <3>2 DEF HeadLen
    <3> QED BY <2>3, <2>5, <3>3 DEF SizeInv, Looping
  <2>6. CASE keyArg.mode = "MLKEM" /\ rpc' = "envelope"
    <3>1. isMLKEM(h.suite)
      BY <2>1, <2>6 DEF HeaderError
    <3>2. Len(envelope') = 0 /\ IsSeq(envelope')
      BY <1>1, EmptyIsSeq
    <3>3. FieldStarts([suiteID |-> h.suite])[1] = FixedHeaderLen
      <4>1. 1 \in 1 .. 5
        OBVIOUS
      <4> QED BY <3>1, <4>1, FieldSteps
    <3>4. pos' = FieldStarts([suiteID |-> header'.suite])[Len(envelope') + 1]
      BY <2>4, <3>2, <3>3
    <3>5. SizedField'
      BY <2>4, <2>6, <3>1, <3>2, <3>4 DEF SizedField
    <3> QED BY <2>3, <2>6, <3>5 DEF SizeInv, Looping
  <2> QED BY <2>1, <2>5, <2>6 DEF AcceptHeader
<1> QED BY <1>3, <1>4, <1>5

\* A field of the envelope is read.
LEMMA SizedEnvelope ==
  ASSUME ~EmptyReads, HeadersNamed, SizeInv, ReadEnvelopeField
  PROVE  SizeInv'
<1> DEFINE i == Len(envelope) + 1
           want == IF IsPrefixField(i) THEN PrefixLen ELSE EnvelopeLens[i]
           starts == FieldStarts([suiteID |-> header.suite])
<1>1. /\ rpc = "envelope" /\ Named(store) /\ UNCHANGED <<store, header>>
      /\ pos \in Nat /\ pos <= Len(store) /\ header.chunkSize \in Nat /\ SizedField
  BY DEF ReadEnvelopeField, HeadersNamed, SizeInv
<1>2. isMLKEM(header.suite) /\ IsSeq(envelope) /\ Len(envelope) \in 0 .. 5 /\ Len(envelope) < 5
      /\ pos = starts[i]
  BY <1>1 DEF SizedField
<1>3. i \in 1 .. 5 /\ Len(envelope) \in Nat
  BY <1>2
<1>4. EnvelopeLens = FieldLens([suiteID |-> header.suite])
  BY DEF EnvelopeLens, FieldLens
<1>5. want \in Nat /\ starts[i] \in Nat /\ starts[i + 1] = starts[i] + want
  BY <1>2, <1>3, <1>4, FieldSteps
<1>6. PICK k \in Counts(want) :
        /\ pos' = pos + k
        /\ \/ rpc' = "failed"
           \/ /\ k = want
              /\ envelope' = Append(envelope, Bytes(k))
              /\ rpc' = IF i = 5 THEN "recover" ELSE "envelope"
  BY DEF ReadEnvelopeField
<1> HIDE DEF want, starts
<1>7. CASE rpc' = "failed"
  BY <1>7 DEF SizeInv, Looping
<1>8. CASE /\ k = want
           /\ envelope' = Append(envelope, Bytes(k))
           /\ rpc' = IF i = 5 THEN "recover" ELSE "envelope"
  <2>1. pos' \in Nat /\ pos' <= Len(store') /\ header'.chunkSize \in Nat
    BY <1>1, <1>5, <1>6, ReadWhole
  <2>2. IsSeq(envelope') /\ Len(envelope') = i
    <3> DEFINE x == Bytes(k)  S == {envelope[j] : j \in DOMAIN envelope} \cup {x}
    <3>1. envelope \in Seq({envelope[j] : j \in DOMAIN envelope}) /\ x \in S
      BY <1>2 DEF IsSeq
    <3>2. envelope \in Seq(S)
      BY <3>1
    <3> HIDE DEF x, S
    <3>3. Append(envelope, x) \in Seq(S) /\ Len(Append(envelope, x)) = Len(envelope) + 1
      BY <3>1, <3>2, AppendProperties
    <3> QED BY <1>8, <3>3, SeqOf DEF x
  <2> HIDE DEF i
  <2>3. pos' = starts[Len(envelope') + 1]
    BY <1>2, <1>5, <1>6, <1>8, <2>2
  <2>4. Len(envelope') \in 0 .. 5 /\ (rpc' = "envelope" <=> Len(envelope') < 5)
    BY <1>3, <1>8, <2>2
  <2>5. SizedField'
    BY <1>1, <1>2, <2>2, <2>3, <2>4 DEF SizedField, starts
  <2>6. rpc' \in {"envelope", "recover"}
    BY <1>8
  <2> QED BY <2>1, <2>5, <2>6 DEF SizeInv, Looping
<1> QED BY <1>6, <1>7, <1>8

\* The CEK is recovered: the whole header is read.
LEMMA SizedRecover ==
  ASSUME ReaderInv, SizeInv, RecoverCEK
  PROVE  SizeInv'
<1>1. rpc = "recover" /\ UNCHANGED <<store, pos, header>> /\ rpc' \in {"failed", "first"}
  BY DEF RecoverCEK
<1>2. pos \in Nat /\ pos <= Len(store) /\ header.chunkSize \in Nat /\ SizedField
  BY <1>1 DEF SizeInv
<1>3. CASE rpc' = "failed"
  BY <1>3 DEF SizeInv, Looping
<1>4. CASE rpc' = "first"
  <2>1. isMLKEM(header.suite) /\ Len(envelope) \in 0 .. 5 /\ ~(Len(envelope) < 5)
    BY <1>1, <1>2 DEF SizedField
  <2> DEFINE l == Len(envelope)
  <2>2. l + 1 = 6
    <3>1. l \in 0 .. 5 /\ ~(l < 5)
      BY <2>1
    <3> HIDE DEF l
    <3> QED BY <3>1
  <2>3. pos' = HeadLen(header'.suite)
    BY <1>1, <1>2, <2>1, <2>2 DEF SizedField, HeadLen
  <2> QED BY <1>1, <1>2, <1>4, <2>3 DEF SizeInv, Looping
<1> QED BY <1>1, <1>3, <1>4

\* The first prefix is read.
LEMMA SizedFirst ==
  ASSUME ~EmptyReads, ReaderInv, HeadersNamed, SizeInv, ReadFirstPrefix
  PROVE  SizeInv'
<1>1. /\ rpc = "first" /\ Named(store) /\ UNCHANGED <<store, header, rindex>>
      /\ pos \in Nat /\ pos <= Len(store) /\ header.chunkSize \in Nat
      /\ pos = HeadLen(header.suite) /\ rindex = 0 /\ PrefixLen \in Nat
  BY LengthAssumption DEF ReadFirstPrefix, ReaderInv, HeadersNamed, SizeInv, Looping
<1>2. PICK k \in Counts(PrefixLen) :
        /\ pos' = pos + k
        /\ \/ rpc' = "failed"
           \/ k = PrefixLen /\ nextLen' \in PrefixValues(Bytes(k)) /\ rpc' = "record"
  BY DEF ReadFirstPrefix
<1>3. pos' \in Nat /\ pos' <= Len(store') /\ Named(Bytes(k))
  BY <1>1, <1>2, ReadWhole
<1>4. CASE rpc' = "failed"
  BY <1>4 DEF SizeInv, Looping
<1>5. CASE k = PrefixLen /\ nextLen' \in PrefixValues(Bytes(k)) /\ rpc' = "record"
  <2>1. nextLen' \in Nat
    BY <1>3, <1>5, PrefixNumbers
  <2>2. StartOf(rindex') = HeadLen(header.suite) /\ StartOf(rindex)' = StartOf(rindex)
    BY <1>1, StartsApart DEF StartOf
  <2>3. pos' = StartOf(rindex)' + PrefixLen
    BY <1>1, <1>2, <1>5, <2>2
  <2> QED BY <1>1, <1>3, <1>5, <2>1, <2>3 DEF SizeInv, Looping
<1> QED BY <1>2, <1>4, <1>5

\* The body of a record is read.
LEMMA SizedRecord ==
  ASSUME ~EmptyReads, ReaderInv, HeadersNamed, SizeInv, ReadRecord
  PROVE  SizeInv'
<1>1. /\ rpc = "record" /\ Named(store) /\ UNCHANGED <<store, header, rindex>>
      /\ pos \in Nat /\ pos <= Len(store) /\ header.chunkSize \in Nat /\ nextLen \in Nat
      /\ pos = StartOf(rindex) + PrefixLen
  BY DEF ReadRecord, HeadersNamed, SizeInv, Looping
<1>2. CASE rpc' = "failed"
  BY <1>2 DEF SizeInv, Looping
<1>3. CASE \E k \in Counts(nextLen) :
             pos' = pos + k /\ k = nextLen /\ body' = Bytes(k) /\ rpc' = "peek"
  <2>1. PICK k \in Counts(nextLen) :
          pos' = pos + k /\ k = nextLen /\ body' = Bytes(k) /\ rpc' = "peek"
    BY <1>3
  <2>2. pos' \in Nat /\ pos' <= Len(store') /\ Len(body') = k /\ k \in Nat
    BY <1>1, <2>1, ReadWhole
  <2>3. StartOf(rindex)' = StartOf(rindex)
    BY <1>1 DEF StartOf
  <2>4. pos' = StartOf(rindex)' + PrefixLen + Len(body')
    BY <1>1, <2>1, <2>2, <2>3
  <2> QED BY <1>1, <2>1, <2>2, <2>4 DEF SizeInv, Looping
<1> QED BY <1>2, <1>3 DEF ReadRecord

\* What follows the record: the next prefix, or the end of the container.
LEMMA SizedPeek ==
  ASSUME ~EmptyReads, HeadersNamed, SizeInv, PeekPrefix
  PROVE  SizeInv'
<1>1. /\ rpc = "peek" /\ Named(store) /\ UNCHANGED <<store, header, rindex, body>>
      /\ pos \in Nat /\ pos <= Len(store) /\ header.chunkSize \in Nat /\ Len(body) \in Nat
      /\ pos = StartOf(rindex) + PrefixLen + Len(body) /\ PrefixLen \in Nat /\ PrefixLen # 0
  BY LengthAssumption DEF PeekPrefix, HeadersNamed, SizeInv, Looping
<1>2. PICK k \in Counts(PrefixLen) :
        /\ pos' = pos + k
        /\ \/ rpc' = "failed"
           \/ k = 0 /\ nextLen' = -1 /\ rpc' = "open"
           \/ k = PrefixLen /\ nextLen' \in PrefixValues(Bytes(k)) /\ rpc' = "open"
  BY DEF PeekPrefix
<1>3. /\ pos' \in Nat /\ pos' <= Len(store') /\ Named(Bytes(k))
      /\ k = 0 => pos = Len(store)
  BY <1>1, <1>2, ReadWhole
<1>4. StartOf(rindex)' = StartOf(rindex)
  BY <1>1 DEF StartOf
<1>5. CASE rpc' = "failed"
  BY <1>5 DEF SizeInv, Looping
<1>6. CASE k = 0 /\ nextLen' = -1 /\ rpc' = "open"
  <2>1. pos' = pos
    BY <1>1, <1>2, <1>6
  <2>2. pos' = Len(store') /\ pos' = StartOf(rindex)' + PrefixLen + Len(body')
    BY <1>1, <1>3, <1>4, <1>6, <2>1
  <2>3. isFinal'
    BY <1>6 DEF isFinal
  <2> QED BY <1>1, <1>3, <1>6, <2>2, <2>3 DEF SizeInv, Looping
<1>7. CASE k = PrefixLen /\ nextLen' \in PrefixValues(Bytes(k)) /\ rpc' = "open"
  <2>1. nextLen' \in Nat
    BY <1>3, <1>7, PrefixNumbers
  <2>2. pos' = StartOf(rindex)' + PrefixLen + Len(body') + PrefixLen
    BY <1>1, <1>2, <1>4, <1>7
  <2> QED BY <1>1, <1>3, <1>7, <2>1, <2>2 DEF SizeInv, Looping
<1> QED BY <1>2, <1>5, <1>6, <1>7

\* The record is opened: it is of the length its AAD says.
LEMMA SizedOpen ==
  ASSUME ReaderInv, HeadersNamed, SizeInv, OpenChunk, UNCHANGED sealed
  PROVE  SizeInv'
<1>1. /\ rpc = "open" /\ UNCHANGED <<store, pos, header, body, nextLen>>
      /\ pos \in Nat /\ pos <= Len(store) /\ header.chunkSize \in Nat /\ Len(body) \in Nat
      /\ rindex \in Nat /\ PrefixLen \in Nat /\ TagLen \in Nat
      /\ \/ isFinal /\ pos = Len(store) /\ pos = StartOf(rindex) + PrefixLen + Len(body)
         \/ nextLen \in Nat /\ pos = StartOf(rindex) + PrefixLen + Len(body) + PrefixLen
  BY LengthAssumption DEF OpenChunk, ReaderInv, SizeInv, Looping
<1>2. CASE rpc' = "failed"
  BY <1>2 DEF SizeInv, Looping
<1>3. CASE \E chunk \in OpenedChunks : isFinal /\ rpc' = "ok" /\ UNCHANGED rindex
  <2>1. PICK chunk \in OpenedChunks : isFinal /\ rpc' = "ok" /\ UNCHANGED rindex
    BY <1>3
  <2> DEFINE aad == buildChunkAAD(header.suite, header.streamID, rindex, isFinal, ptLen,
                                  header.chunkSize)
  <2>2. PICK r \in sealed : r.aad = aad
    BY <2>1 DEF OpenedChunks, aeadOpen
  <2>3. /\ r.aad.magic = "BSLA" /\ r.aad.streamID = header.streamID /\ r.aad.index = rindex
        /\ r.aad.isFinal = isFinal /\ r.aad.suite = header.suite
        /\ r.aad.chunkSize = header.chunkSize /\ r.aad.ptLen = ptLen
    BY <2>2 DEF buildChunkAAD
  <2> HIDE DEF aad
  <2>4. r \in ChunkRecords' /\ Own(r)'
    BY <1>1, <2>2, <2>3 DEF ChunkRecords, Own
  <2>5. Len(store) = StartOf(rindex) + PrefixLen + Len(body)
    BY <1>1, <2>1 DEF isFinal
  <2>6. StartOf(rindex)' = StartOf(rindex)
    BY <1>1, <2>1 DEF StartOf
  <2>7. SizedEnd'
    BY <1>1, <2>1, <2>3, <2>4, <2>5, <2>6 DEF SizedEnd, ptLen
  <2> QED BY <2>1, <2>7 DEF SizeInv, Looping
<1>4. CASE ~isFinal /\ ptLen = header.chunkSize /\ rpc' = "record" /\ rindex' = rindex + 1
  <2>1. nextLen \in Nat /\ pos = StartOf(rindex) + PrefixLen + Len(body) + PrefixLen
    BY <1>1, <1>4
  <2>2. /\ StartOf(rindex) \in Nat
        /\ StartOf(rindex + 1) = StartOf(rindex) + (PrefixLen + header.chunkSize + TagLen)
    BY <1>1, StartsApart
  <2>3. StartOf(rindex)' = StartOf(rindex + 1)
    BY <1>1, <1>4 DEF StartOf
  <2> DEFINE l == Len(body)  a == StartOf(rindex)  b == StartOf(rindex + 1)
             d == header.chunkSize
  <2>4. l = d + TagLen
    <3>1. l - TagLen = d /\ l \in Nat /\ d \in Nat
      BY <1>1, <1>4 DEF ptLen
    <3> HIDE DEF l, d
    <3> QED BY <1>1, <3>1
  <2>5. pos' = StartOf(rindex)' + PrefixLen
    <3>1. /\ pos = a + PrefixLen + l + PrefixLen /\ b = a + (PrefixLen + d + TagLen)
          /\ l \in Nat /\ a \in Nat /\ d \in Nat
      BY <1>1, <2>1, <2>2
    <3> HIDE DEF l, a, b, d
    <3>2. pos = b + PrefixLen
      BY <1>1, <2>4, <3>1
    <3> QED BY <1>1, <2>3, <3>2 DEF b
  <2> QED BY <1>1, <1>4, <2>1, <2>5 DEF SizeInv, Looping
<1> QED BY <1>2, <1>3, <1>4 DEF OpenChunk

LEMMA SizeNext ==
  ASSUME ~EmptyReads, WriterInv, ReaderInv, HeadersNamed, SizeInv, [Next]_vars
  PROVE  SizeInv'
<1>1. CASE Writing \/ Medium
  <2>1. rpc = "idle" /\ UNCHANGED <<rpc, envelope>>
    BY <1>1 DEF Writing, Medium, Fetch, Truncate, DropBlock, RepeatBlock, SwapBlocks,
                SpliceBlock, AlterHeader, AlterPrefix, InTransit, Damage, ReaderInv, readerVars
  <2> QED BY <2>1 DEF SizeInv, Looping
<1>2. CASE Reading
  <2>1. UNCHANGED sealed
    BY <1>2 DEF Reading, writerVars
  <2>2. CASE ReaderCall
    <3>1. rpc = "idle" /\ rpc' \in {"header", "failed"} /\ envelope' = envelope
      BY <2>2 DEF ReaderCall, DecryptAEAD, DecryptMLKEM
    <3> QED BY <3>1 DEF SizeInv, Looping
  <2>3. CASE ReadError
    <3>1. rpc' = "failed"
      BY <2>3 DEF ReadError
    <3> QED BY <3>1 DEF SizeInv, Looping
  <2> QED
    BY <1>2, <2>1, <2>2, <2>3, SizedHeader, SizedEnvelope, SizedRecover, SizedFirst,
       SizedRecord, SizedPeek, SizedOpen, Zenon
    DEF Reading, ReaderStep
<1>3. CASE UNCHANGED vars
  <2>1. UNCHANGED <<store, rpc, pos, header, envelope, body, nextLen, rindex, sealed>>
    BY <1>3 DEF vars, readerVars, writerVars
  <2>2. /\ SizedField' <=> SizedField
        /\ SizedEnd' <=> SizedEnd
        /\ \A i : StartOf(i)' = StartOf(i)
    BY <2>1 DEF SizedField, SizedEnd, StartOf, Own, ChunkRecords
  <2> QED BY <2>1, <2>2 DEF SizeInv, isFinal
<1> QED BY <1>1, <1>2, <1>3 DEF Next

\* The final record of a stream is the one its call wrote last.
LEMMA WholeIsWhole ==
  ASSUME WriterInv, ReaderInv, LayoutInv, SizeInv PROVE SuccessIsWholeLength
<1> DEFINE s == header.streamID  c == crypto[s]  n == plain[s]
<1> SUFFICES ASSUME rpc = "ok", wpc[s] = "ok" PROVE Len(store) = Len(wire[s])
  BY DEF SuccessIsWholeLength
<1>1. PICK r \in ChunkRecords :
        /\ Own(r) /\ r.aad.isFinal /\ r.aad.index = rindex
        /\ r.aad.suite = header.suite /\ r.aad.chunkSize = header.chunkSize
        /\ Len(body) \in Nat /\ r.aad.ptLen = Len(body) - TagLen
        /\ Len(store) = StartOf(rindex) + PrefixLen + Len(body)
  BY DEF SizeInv, SizedEnd
<1>2. s \in Streams
  BY <1>1, OwnRecord
<1>3. Prepared(c, s) /\ SealedAll(s) /\ Written(s) /\ n \in Nat
  BY <1>2 DEF LayoutInv, Stage, Running, WriterInv, WTyping, WriterTypeOK
<1>4. PICK m \in Nat : /\ index[s] = m + 1
                       /\ HasRecord(c, n, m) /\ ~HasRecord(c, n, m + 1)
                       /\ Len(wire[s]) = RecordEnd(c, n, m)
  BY <1>3 DEF Written
<1> DEFINE q == ReferenceRecord(c, n, m)
<1>5. q \in sealed
  BY <1>3, <1>4 DEF SealedAll
<1>6. /\ q.aad.magic = "BSLA" /\ q.aad.streamID = c.streamID /\ q.aad.index = m
      /\ q.aad.isFinal /\ q.aad.suite = c.suiteID /\ q.aad.chunkSize = c.chunkSize
      /\ q.aad.ptLen = RecordHave(c, n, m)
  BY <1>4 DEF ReferenceRecord, aeadSeal, buildChunkAAD
<1>7. c.streamID = s
  BY <1>3 DEF Prepared
<1> HIDE DEF q, s, c, n
<1>8. q \in ChunkRecords /\ q.aad.streamID = s /\ r.aad.streamID = s
  BY <1>1, <1>5, <1>6, <1>7 DEF ChunkRecords, Own, s
<1>9. r.aad.index <= m /\ m <= r.aad.index /\ r.aad.index \in Nat
  BY <1>1, <1>6, <1>8, OwnRecord DEF WriterInv, FinalOK
<1>10. r = q
  <2>1. q.aad.index = r.aad.index
    BY <1>4, <1>6, <1>9
  <2>2. q.aad.magic = r.aad.magic /\ q \in sealed /\ r \in sealed
    BY <1>1, <1>5, <1>6 DEF ChunkRecords
  <2> QED BY <1>8, <2>1, <2>2 DEF WriterInv, RecordsUnique
<1>11. /\ rindex = m /\ header.suite = c.suiteID /\ header.chunkSize = c.chunkSize
       /\ Len(body) - TagLen = RecordHave(c, n, m)
  BY <1>1, <1>6, <1>10
<1>12. HeadLen(header.suite) = Len(c.header)
  BY <1>3, <1>11, HeadIsHeader
<1>13. StartOf(rindex) = RecordStart(c, m)
  BY <1>11, <1>12 DEF StartOf, RecordStart
<1> DEFINE l == Len(body)  v == RecordHave(c, n, m)  a == RecordStart(c, m)  e == Len(store)
<1>14. /\ l \in Nat /\ TagLen \in Nat /\ PrefixLen \in Nat /\ l - TagLen = v
       /\ e = a + PrefixLen + l /\ a \in Nat
  <2>1. a \in Nat
    BY <1>3, <1>4, PreparedMeasured, Geometry
  <2> QED BY <1>1, <1>11, <1>13, <2>1, LengthAssumption
<1>15. RecordEnd(c, n, m) = a + PrefixLen + v + TagLen
  BY DEF RecordEnd
<1> HIDE DEF l, v, a, e
<1>16. e = a + PrefixLen + v + TagLen
  BY <1>14
<1> QED BY <1>4, <1>15, <1>16 DEF e

\* With sources that give no empty reads, a decryption that returns nil read
\* a container exactly as long as the one the call that its header names wrote,
\* if that call returned nil, whatever was done to the container on its way:
\* nothing stands behind the final record, and nothing was put in before it
\* unless as much was taken out.
THEOREM SuccessIsWhole ==
  ASSUME ~EmptyReads
  PROVE  Spec => []SuccessIsWholeLength
<1>1. Init => LayoutInv /\ SizeInv
  <2>1. Init => SizeInv
    BY DEF Init, ReaderInit, SizeInv, Looping
  <2> QED BY <2>1, LayoutInit DEF Init
<1>2. Init => HeadersNamed
  BY HeadersNamedInit
<1>3. (WriterInv /\ ReaderInv) /\ HeadersNamed /\ [Next]_vars => HeadersNamed'
  BY HeadersNamedNext
<1>4. (WriterInv /\ ReaderInv) /\ LayoutInv /\ [Next]_vars => LayoutInv'
  BY LayoutNext, WriterSteps
<1>5. (WriterInv /\ ReaderInv) /\ HeadersNamed /\ SizeInv /\ [Next]_vars => SizeInv'
  BY SizeNext
<1>6. (WriterInv /\ ReaderInv) /\ LayoutInv /\ SizeInv => SuccessIsWholeLength
  BY WholeIsWhole
<1> QED
  BY <1>1, <1>2, <1>3, <1>4, <1>5, <1>6, TransferInvariant, PTL DEF Spec
=============================================================================
