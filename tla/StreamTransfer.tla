--------------------------- MODULE StreamTransfer ---------------------------
(***************************************************************************)
(* Encryption, a medium and decryption together.  Calls of StreamWriter    *)
(* produce containers, also unfinished ones; a finished or failed call's   *)
(* container is fetched, the medium may damage it up to MaxFaults times,   *)
(* and one call of StreamReader decrypts what arrives.                     *)
(*                                                                         *)
(* The medium is not code of this repository: it loses, repeats, moves and *)
(* exchanges pieces of containers and changes header fields and length     *)
(* prefixes, the damage the package's tests apply.                         *)
(***************************************************************************)
EXTENDS StreamWriter, StreamReader

CONSTANTS
  MaxFaults,    \* damages to the container
  OtherKeys     \* CEKs and seeds that belong to no stream

ASSUME MaxFaultsAssumption == MaxFaults \in Nat

VARIABLES
  origin,   \* the call whose container was fetched: {} or a singleton
  faults    \* damages so far

mediumVars == <<origin, faults>>

vars == <<writerVars, readerVars, mediumVars>>

Init ==
  /\ WriterInit
  /\ ReaderInit
  /\ origin = {}
  /\ faults = 0

-----------------------------------------------------------------------------
\* The medium.

\* One container is fetched once no call is under way.  Calls that go on or
\* start later would add nothing: their steps neither read nor change what the
\* medium and the reader see, except for pieces to splice, and those are all
\* there when the call has ended.
Fetch(s) ==
  /\ origin = {} /\ wpc[s] \in {"ok", "failed"}
  /\ \A t \in Streams : wpc[t] \in {"idle", "ok", "failed"}
  /\ origin' = {s}
  /\ store' = wire[s]
  /\ UNCHANGED <<rpc, rerr, keyArg, pos, header, envelope, rkey, body, nextLen,
                 rindex, dst, faults, writerVars>>

\* The container is in transit and may still be damaged.
InTransit == origin # {} /\ rpc = "idle" /\ faults < MaxFaults

Damage(cells) ==
  /\ cells # store
  /\ store' = cells
  /\ faults' = faults + 1
  /\ UNCHANGED <<rpc, rerr, keyArg, pos, header, envelope, rkey, body, nextLen,
                 rindex, dst, origin, writerVars>>

\* The ends of the objects of a container.
Ends(cells) == {0} \cup {i \in DOMAIN cells : cells[i].at = cells[i].obj.size}

\* cells with those after i up to j replaced by others.
Replace(cells, i, j, others) ==
  SubSeq(cells, 1, i) \o others \o SubSeq(cells, j + 1, Len(cells))

Truncate ==
  /\ InTransit
  /\ \E n \in 0 .. Len(store) - 1 : Damage(SubSeq(store, 1, n))

DropBlock ==
  /\ InTransit
  /\ \E i, j \in Ends(store) : i < j /\ Damage(Replace(store, i, j, <<>>))

RepeatBlock ==
  /\ InTransit
  /\ \E i, j, k \in Ends(store) :
       i < j /\ Damage(Replace(store, k, k, SubSeq(store, i + 1, j)))

SwapBlocks ==
  /\ InTransit
  /\ \E i, j, k \in Ends(store) :
       /\ i < j /\ j < k
       /\ Damage(Replace(store, i, k,
                         SubSeq(store, j + 1, k) \o SubSeq(store, i + 1, j)))

\* A piece of another container in place of a piece of this one.
SpliceBlock ==
  /\ InTransit
  /\ \E t \in Streams \ origin :
       \E i, j \in Ends(store), k, l \in Ends(wire[t]) :
         /\ i <= j /\ k < l
         /\ Damage(Replace(store, i, j, SubSeq(wire[t], k + 1, l)))

\* Field values a damaged header may have.
AlteredHeaders(h) ==
  {[h EXCEPT !.magic = FALSE], [h EXCEPT !.version = FALSE],
   [h EXCEPT !.flags = FALSE]}
    \cup {[h EXCEPT !.suite = suite] : suite \in Suites \cup {"unknown"}}
    \cup {[h EXCEPT !.chunkSize = n] : n \in 0 .. MaxChunkSize + 1}
    \cup {[h EXCEPT !.streamID = s] : s \in Streams}

AlterHeader ==
  /\ InTransit
  /\ FixedHeaderLen <= Len(store)
  /\ \E h \in HeaderOf(SubSeq(store, 1, FixedHeaderLen)) :
       \E g \in AlteredHeaders(h) :
         Damage(Replace(store, 0, FixedHeaderLen, Cells(HeaderObj(g))))

AlterPrefix ==
  /\ InTransit
  /\ \E i \in Ends(store), v \in StrayLens :
       /\ i + PrefixLen <= Len(store)
       /\ "prefix" \in DOMAIN store[i + 1].obj
       /\ Damage(Replace(store, i, i + PrefixLen, Cells(PrefixObj(v))))

Medium ==
  /\ \/ \E s \in Streams : Fetch(s)
     \/ Truncate \/ DropBlock \/ RepeatBlock \/ SwapBlocks \/ SpliceBlock
     \/ AlterHeader \/ AlterPrefix

-----------------------------------------------------------------------------
\* The receiver decrypts with a key of some stream, or with a wrong one.

ReaderCall ==
  /\ origin # {}
  /\ \/ \E s \in Streams : /\ wpc[s] # "idle" /\ crypto[s] # NoCrypto
                           /\ DecryptAEAD(crypto[s].cek)
     \/ \E k \in OtherKeys : DecryptAEAD([provided |-> k])
     \/ DecryptAEAD([badLength |-> TRUE])
     \/ \E by \in {"local", "broker"}, seed \in Seeds \cup OtherKeys, suite \in SuiteArgs :
          DecryptMLKEM(by, seed, suite)
     \/ \E suite \in SuiteArgs : DecryptMLKEM("local", "badLength", suite)

Writing == origin = {} /\ WriterNext /\ UNCHANGED <<readerVars, mediumVars>>

Reading ==
  /\ ReaderCall \/ ReaderStep \/ ReadError
  /\ UNCHANGED <<writerVars, mediumVars>>

Next == Writing \/ Medium \/ Reading

Spec == Init /\ [][Next]_vars

\* A call that has begun goes on: nothing in it waits for anyone but its
\* source, its sink and, under a deadline, the broker.  An error, a damage or
\* a new call is never owed.
FairSpec ==
  /\ Spec
  /\ \A s \in Streams : WF_vars(Writing /\ WriterStep(s))
  /\ WF_vars(Reading /\ ReaderStep)

-----------------------------------------------------------------------------
\* What dst receives is, at every moment and whatever the medium did, a
\* prefix of the plaintext of the stream the container's header names:
\* "failing closed on any tamper, reorder, or truncation" (readChunks).
OutputIsPrefix ==
  dst # <<>> =>
    /\ header.streamID \in Streams
    /\ Len(dst) <= plain[header.streamID]
    /\ dst = PlainBytes(header.streamID, 0, Len(dst))

\* A decryption returns nil only when it delivered the whole plaintext, also
\* when the call that wrote the container failed half way.
SuccessIsComplete ==
  rpc = "ok" =>
    /\ header.streamID \in Streams
    /\ dst = PlainBytes(header.streamID, 0, plain[header.streamID])

\* A CEK that RecoverCEK returned is the one of the stream the header names:
\* an envelope moved to another container of the same recipient is refused
\* (buildCEKWrapAAD binds it), before a record is opened under it.
RecoversOwnCEK ==
  keyArg.mode = "MLKEM" /\ "ikm" \in DOMAIN rkey =>
    /\ header.streamID \in Streams /\ crypto[header.streamID].suiteID # ""
    /\ rkey.ikm = crypto[header.streamID].cek

\* StreamTransfer implements StreamPromise.
Promise ==
  INSTANCE StreamPromise WITH
    out <- dst,
    from <- IF rkey = [none |-> ""] THEN {} ELSE {header.streamID},
    verdict <- IF rpc \in {"ok", "failed"} THEN rpc ELSE "reading"

\* The refinement as a property of the runs.
KeepsPromise == Promise!Spec

isAEADCall(s) == crypto[s].suiteID \in AEADSuites

\* The key the receiver needs for the container of call s.
RightKey(s) ==
  \/ keyArg.mode = "AEAD" /\ isAEADCall(s) /\ keyArg.cek = crypto[s].cek
  \/ /\ keyArg.mode = "MLKEM" /\ keyArg.by = "local" /\ ~isAEADCall(s)
     /\ keyArg.suite = crypto[s].suiteID
     /\ keyArg.seed = crypto[s].recipient

\* An undamaged container decrypts: with the key of the call that wrote it
\* and no I/O error, DecryptAEAD and DecryptMLKEM return nil, for every
\* plaintext length and chunk size (empty, exact multiples, one byte over).
UndamagedDecrypts ==
  \A s \in Streams :
    (origin = {s} /\ faults = 0 /\ wpc[s] = "ok" /\ rpc = "header" /\ RightKey(s))
      ~> rpc = "ok"

\* The container of s was cut and not otherwise damaged, and is decrypted
\* with the right key.
CutShort(s) ==
  /\ origin = {s} /\ wpc[s] = "ok" /\ RightKey(s)
  /\ Len(store) < Len(wire[s]) /\ store = SubSeq(wire[s], 1, Len(store))

\* Byte n + 1 of the container of s is the first of a length prefix.
isPrefixStart(s, n) ==
  "prefix" \in DOMAIN wire[s][n + 1].obj /\ wire[s][n + 1].at = 1

\* Where a cut shows: inside the headers as ErrShortHeader or ErrTruncated,
\* between two records as ErrAuthFailed (the last record that is left was
\* not sealed as final), anywhere else as ErrTruncated.  Never as success,
\* and an error of src or dst is passed on as it is.  This is what the code
\* does, and its test of a dropped final chunk (stream_test.go); CutIsTruncated and
\* CutHeaderIsShort are what the comments on the two errors say.
CutClassified ==
  \A s \in Streams :
    CutShort(s) /\ rpc \in {"ok", "failed"} /\ rerr \notin {"readError", "writeError"} =>
    LET n    == Len(store)
        head == Len(crypto[s].header)
    IN rerr = CASE n < FixedHeaderLen -> "ErrShortHeader"
                [] n >= FixedHeaderLen /\ n < head ->
                     IF isPrefixStart(s, n) THEN "ErrShortHeader" ELSE "ErrTruncated"
                [] n = head -> "ErrTruncated"
                [] n > head ->
                     IF isPrefixStart(s, n) THEN "ErrAuthFailed" ELSE "ErrTruncated"

\* "ErrTruncated is returned when the stream ended before a final-marked chunk
\* was authenticated" (format.go), of a container that was cut in its records
\* and decrypted without an I/O error.  Not so of a cut between two records: see
\* README.md and MCTransferCutRecord.cfg.
CutIsTruncated ==
  \A s \in Streams :
    CutShort(s) /\ rpc = "failed" /\ rerr \notin {"readError", "writeError"}
      /\ Len(store) >= Len(crypto[s].header)
    => rerr = "ErrTruncated"

\* "ErrShortHeader is returned when the header is shorter than the format
\* requires" (format.go), of a container that was cut in its header: the fixed
\* part, and the KEM header that EncryptMLKEM appends to it.  Not so inside a
\* field of the latter: see README.md and MCTransferCutHeader.cfg.
CutHeaderIsShort ==
  \A s \in Streams :
    CutShort(s) /\ rpc = "failed" /\ rerr # "readError"
      /\ Len(store) < Len(crypto[s].header)
    => rerr = "ErrShortHeader"

\* A decryption that returns nil was given a container of exactly the length
\* that its stream's call wrote, if that call returned nil: nothing was put in
\* or behind it, and nothing taken out, that does not make up in length for
\* something else.  For this the reader looks for a prefix behind each record.
SuccessIsWholeLength ==
  rpc = "ok" /\ wpc[header.streamID] = "ok" => Len(store) = Len(wire[header.streamID])

=============================================================================
