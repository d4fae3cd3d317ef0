# Verification of basil-go

basil-go is the Go client of the Basil broker, plus two formats a client
handles by itself: a chunked encryption container (`src/stream`) and sealed
invocations (`src/sealedinvocation`). This project models, in TLA+, the parts of
it that carry state or a protocol, checks them with TLC on small instances, and
proves the properties that matter most with TLAPS for every instance.
`PROJECT.json` lists the components, runs, mutants, findings, hazards and
theorems, and maps every definition to the lines it models.

## Inventory

| component | state | operations | interacts with | what is hard, what makes it correct |
|---|---|---|---|---|
| stream format (`stream/format.go`) | none | header, AAD, nonce, key derivation, seal, open | used by both directions | every authenticated field must be in the AAD: nothing may be moved, repeated or exchanged |
| stream encryption (`stream.go`, `kem.go`) | per call: two chunk buffers, chunk index, message key | `EncryptAEAD`, `EncryptMLKEM`, `writeChunks` | caller's `io.Reader` and `io.Writer`; other calls through a shared CEK | read-ahead decides which chunk is final; key and nonce pairs never repeat; I/O fails at any byte |
| stream decryption | per call: parsed header, envelope, pending record, next length, index | `DecryptAEAD`, `DecryptMLKEM`, `readChunks`, `RecoverCEK` | a medium that cuts, moves and mixes bytes; a broker or a local seed for the CEK | dst only ever has a prefix; success means all of it; undamaged input always succeeds |
| `readFull` | bytes filled | one loop | `io.Reader` | short reads, empty reads, EOF with or after data |
| sealed invocation | per call: the request sent | `BuildRequest`, `OpenResponse` | broker over an untrusted transport, two clocks | crossed, late, repeated and altered responses; rounding and overflow of times |
| RPC client (`basil/client.go` and the unary calls) | connection, default timeout | `Dial`, `Close`, about 35 unary calls, `ListCatalog` | broker over gRPC | a deadline ends a call whose effect has happened; a failed stream must not give a short list |
| change watch (`basil/admin.go`) | a stream and its cancel function | `Watch`, `Recv`, `Events`, `Close` | broker; `Close` from another goroutine | `Close` against `Recv`; `DataLoss` at a full buffer; no gap unnoticed |
| minting (`basil/minting.go`) | none | requests for JWTs, NATS credentials, certificates | broker | zero and negative TTLs; an expiry that is given twice |
| Nix cache client | none kept between calls | describe, enroll, sign; a strict protobuf codec | broker | the codec accepts exactly the well-formed messages (each field once, in order, none missing; overlong varints count as their value); responses echo their ids |
| SPIFFE client (`spiffe/spiffe.go`) | connection, timeout | fetches, watches, sources | go-spiffe | option slices shared between concurrent callers |
| wire definitions (`internal/pb`) | none | the messages and the method stubs | every call | which fields are optional: absent is not empty |
| `basil-sign`, examples | - | - | - | not modelled: straight-line programs over the calls |

## Modules

- `StreamFormat` - constants and operators of the container: suites, headers,
  length prefixes, AADs, nonces, keys, the KEM header. A byte on the wire is a
  *cell*: the object it belongs to and its place in it, so that cutting and
  moving bytes is possible at every byte while no byte value is spelled out.
- `IdealAEAD` - what has been sealed (`sealed`) and when `aeadOpen` succeeds:
  on exactly what was sealed under the same key, nonce and AAD.
- `ReadFull` - the read loop one `Read` at a time. Its `AtomicOutcome` says that
  it returns exactly the counts of `readFullCounts`, which the other modules use
  as one step.
- `StreamWriter` - `EncryptAEAD` and `EncryptMLKEM` up to `writeChunks`, then one
  action per `dst.Write` or `readFull`: `WriteHeader`, `ReadFirst`, `ReadNext`
  (which seals), `WritePrefix`, `WriteRecord`. Any number of calls interleave.
- `StreamReader` - `DecryptAEAD` and `DecryptMLKEM`: `ReadHeader`,
  `ReadEnvelopeField` (five fields), `RecoverCEK` (local seed or broker), then
  the loop `ReadFirstPrefix`, `ReadRecord`, `PeekPrefix`, `OpenChunk`.
- `StreamTransfer` - writers, a medium and a reader. The medium (external)
  truncates, drops, repeats, swaps and splices blocks and alters headers and
  prefixes, at most `MaxFaults` times.
- `StreamPromise` - the abstract specification: the receiver gets pieces of one
  sender's plaintext in order, and is told "complete" only after the last.
  `KeepsPromise` is that `StreamTransfer` implements it.
- `SealedInvocation` - the COSE layers of a sealed message as operators; a
  signature, hash or ciphertext is the record of what went into it. Time is in
  ticks of a fraction of a second since the claims hold whole seconds and the
  parameters do not; `Wrap` is int64 arithmetic.
- `SealedExchange` - `BuildRequest` and `OpenResponse` of concurrent calls, the
  broker's `Respond` and the network (external): a message may be delivered to
  any call, any number of times, at any time, damaged or spliced with another.
  The broker may answer off the profile (`Deviations`) and with a clock that is
  off (`Drifts`).
- `NixCacheCodec` - the strict codec: a message is a sequence of wire fields,
  `scanField` what the scan says of one of them after the ones it has `seen`,
  `preflightNixCacheProto` the first error, `WellFormed` the reference definition
  of what it should accept. The real limits and lengths are used.
- `NixCache` - the calls: `Start` (arguments and `Marshal`), `Receive`
  (`Unmarshal`, echo and key checks), `RPCFails`. The broker (external) answers
  with `Process`; a call may be handed the response to another one, and
  `Deviate` changes one field of a response.
- `BrokerMessages` - the protobuf messages of the broker's API as sets of
  records. An optional field is a set of at most one value, so that absent and
  empty are different; an enum is a number, known to the client or not.
- `BasilAPI` - what each call of `basil/*.go` makes of its arguments and of the
  answer: `refuses` (the argument checks before anything is sent), `rpc` and
  `request` (the method and the message), `unusable` and `result` (what it
  returns). One operator per Go conversion, under its Go name. `Arguments` says
  what a method may be called with: the values of the Go types of its parameters.
- `Broker` (external) - the broker as the log of the requests it has carried out;
  keys, secret versions, ciphertexts and tokens are views of the log, so that what
  one call made can be looked for by another. The bytes it makes up are `Named`
  after their place in the log.
- `SpiffeOptions` - `socketAddr` and `boundOptions` of `spiffe/spiffe.go`.
- `BrokerClient` - `basil.Client` and `spiffe.Client`: `Dial` with its options,
  `Start`, `Receive`, `Fail`, `Expire`, `Cancel`, `Close`, `Break`, and the
  broker's `Handle`. A call's request outlives the call: an error ends the call and
  not what the broker does. `FollowUps` are calls on the result of an earlier one.
  It composes `BasilAPI`, `Broker` and `SpiffeOptions`.
- `WatchStream` - `Watch`, `Recv`, the loop of `Events` and `Close`, with
  cancellation from elsewhere. The broker's bounded buffer and gRPC's queue
  (external) are one queue and the way it ends.
- `ChangeFeed` - the abstract specification of a watch: every change asked for, in
  order, at most once, no gap that is not reported. `FeedPromise` is that
  `WatchStream` implements it.
- `SpiffeSources` - sources opened with one slice of options by concurrent
  goroutines. A Go slice is a place in an array that others may share; `append`
  writes to it when there is room.
- `ReadFullProofs`, `StreamWriterProofs`, `StreamTransferProofs`,
  `WatchStreamProofs`, `SealedExchangeProofs`, `NixCacheProofs`,
  `BasilAPIProofs`, `BrokerClientProofs` - theorems. `BasilAPIProofs` holds what is
  so of the methods of `basil.Client` whatever the state, method by method;
  `BrokerClientProofs` what follows for the calls.
- `MC...` - the same modules with TLC's constants.

Cryptography is symbolic throughout: random values are fresh, hashes and
signatures do not collide, AEAD opens only what was sealed. Wiping of keys,
buffers that are reused, error texts and CBOR or protobuf bytes are left out.
Of the broker it is assumed that an error with a reason means that nothing was
carried out, except for a part of `ImportSet`; the code and `docs/errors.md` treat
such errors that way. It may return a CEK of the wrong length (`ErrBadCEKLength`).
`Dial` may be refused by gRPC or by go-spiffe, for reasons of theirs.

## Runs

| run | question | bounds |
|---|---|---|
| `readfull` | does the read loop lose no byte, end, and return what the other modules assume? | 6 bytes, buffer of 5, all split-ups, empty reads included |
| `transfer_damage` | can two damages make the reader deliver anything but a prefix, or report a success too early, does a success mean a container of the length written, and is a cut reported with the code's own error for its place? | one AEAD container of up to two chunks, finished or not, two damages; failures at every read and write of both sides |
| `transfer_splice` | with pieces of another container: is the CEK recovered always the container's own, are key and nonce pairs unique, and is the promise of `StreamPromise` kept? | two containers under one CEK or for one recipient, AEAD and KEM suites, one damage, a wrong key |
| `transfer_undamaged` | is what an Encrypt call writes the reference container, or a prefix of it; does it return; and does every undamaged container decrypt with the right key? | all suites and key arguments, chunks of 0 to 4 (0 and 4 are invalid), 0 to 6 bytes, failures at every write and read |
| `transfer_emptyreads_complete` | violation: an empty read while encrypting truncates the plaintext without an error | 0 to 3 bytes |
| `sealed` | is what a call opens its own, recent answer, and does an honest answer open? | two calls with one message id and response key, one response, three seconds at two ticks each, drifts of a second either way |
| `sealed_span` | violation: the span of int64 claims wraps | 7-bit integers for 64-bit ones |
| `nix_cache` | does the strict codec accept exactly the well-formed messages, and a call return its own result or an error? | two calls of any method, equal or different in either id, the shortest and longest key ids, names and fingerprints, arguments just outside each rule, one deviation of a response |
| `client` | what a call asks is what is sent and what is answered is what it returns; an error tells whether the request had an effect; a later call finds what an earlier one made; a call with a deadline returns | two calls: of one method and different in at most one argument, of those that meet at the broker (keys, secrets, catalog), or the second on the first one's result; timeouts of 30 and none; two rejections; a catalog of two entries; at every point the connection breaks, is closed, or the context ends |
| `watch` | does a watch keep the promise of `ChangeFeed`, does `Close` end a `Recv` that waits, is a loss noticed? | four changes of three kinds, a buffer of two, every set of kinds |
| `watch_cancel_error` | violation: after a cancellation `Recv` returns the status and not the context's error | as `watch` |
| `spiffe_sources` | violation: two sources opened with one slice with room connect to one socket | two sources, one option, a slice with room for more |

Bounds. The chunk loop treats chunks alike except for the first, a middle one
and the last, and lengths differ in being empty, below, at and above a multiple
of the chunk size; 0 to 6 bytes in chunks of 1 to 3 give all of these. Constant
lengths (header, tag, nonce, prefix) are 1 or 2 so that a cut can fall before,
inside and after each field. In `sealed` the maximum span is two seconds, so
that within three seconds a response can become too old, and response spans are
one legal and one illegal value. The times of `extremeTimes` appear only in
`sealed_span`: with them `AnswersAreRecent` fails for the reason that run shows.

In `nix_cache` the values a response may hold instead of its own are valid in no
field, so that what is accepted is the broker's; the codec has no field that
depends on another, so one deviation reaches each of its branches.
In `client` two calls that differ in one argument are enough for `NothingLost`,
which compares two requests: a conversion that drops a field, or puts one in the place of another, makes
them equal for some such pair. Two fields that are only exchanged lose nothing;
`RoundTrips` finds that where another call reads them. A broken connection, a deadline and a `Close` are
possible between any two steps. In `watch` four changes fill the buffer of two, with
one delivered before and one lost after.
`MaxClockSkew` counts in whole seconds only (`sealedinvocation.go:728`), which
is what `HonestAnswersOpen` says of it.

Fairness. `FairSpec` of `StreamTransfer` and `ReadFull` say that a running call
keeps taking steps: a goroutine that is not blocked runs, and a `Read` or `Write`
of the caller returns. `Write` of a sink that blocks for ever is outside what the
code can promise. The medium is not asked for anything. In `ReadFull` fairness is on the
progress of the source together; failing is never forced. `BrokerClient` asks only
that a deadline that is set is noticed (`Expire`: Go's timers fire and gRPC ends the
call); nothing is asked of the broker or the network. `WatchStream` asks that
gRPC's `Recv` returns once it has a message or an error. Deadlock checking is off
where calls end and nothing is left to do.

Each property of a passing run has a mutant, a version of a modelled definition
with a plausible mistake (a final flag left out of the AAD, a counter that is not
advanced, a response tied by message id only), under which TLC finds it violated.

## Findings

1. `src/stream/stream.go:255`: a `Read` that returns `(0, nil)` during the read
   ahead ends the encryption early, without an error; the container decrypts to
   a shorter plaintext (`transfer_emptyreads_complete`).
2. `src/sealedinvocation/sealedinvocation.go:735`: `exp - iat` may overflow
   (`sealed_span`).
3. `src/basil/admin.go:413`: the comment on `Recv` (line 404) promises the
   context's error after a cancellation; it returns a `*StatusError`
   (`watch_cancel_error`).
4. `src/spiffe/spiffe.go:221`: the bound address is appended to the caller's own
   slice, so that with room in it two concurrent sources write to one place and
   one of them is not bound to its client's socket, as lines 189 and 219 say
   (`spiffe_sources`).
Three comments on the container say something else than the code does. In each the
code is consistent with itself and with what the tests assert, and nothing is lost or
accepted wrongly, but a caller who goes by the comment is misled. The modules state
each comment as a property that no run asks for, since it does not hold; the
configuration named makes TLC print the counterexample
(`tlc -config MCTransferCutRecord.cfg MCStreamTransfer`).

- `src/stream/stream.go:309`: a container that ends between two records ends in
  `ErrAuthFailed`: what is now the last record is opened as the final one. The
  comment on `ErrTruncated` (`format.go:103`) says it "is returned when the stream
  ended before a final-marked chunk was authenticated"; the test of a dropped final
  chunk (`stream_test.go:195`) and the comment on `ErrAuthFailed` (`format.go:106`,
  "reordered or truncated chunk") side with the code. A caller that tells an
  interrupted transfer from tampering by the error takes the one for the other
  (`CutIsTruncated`, `MCTransferCutRecord.cfg`).
- `src/stream/stream.go:412`: a cut inside a field of the KEM header ends in
  `ErrTruncated`; only one right before a length prefix ends in `ErrShortHeader`,
  whose comment (`format.go:87`) says it "is returned when the header is shorter than
  the format requires" (`CutHeaderIsShort`, `MCTransferCutHeader.cfg`).
- `src/stream/stream.go:258`: the last chunk of a plaintext that fills its chunks is
  itself final. A comment in the tests (`stream_test.go:104`) says "Two full chunks
  exactly => third (empty) chunk is the final marker"; the test under it checks a round
  trip, which does not tell the two apart (`FullChunksEndEmpty`,
  `MCTransferFullChunks.cfg`).

`CutClassified` and `WireIsReference` state what the code does in these cases.

`docs/errors.md` calls a bare `Unavailable` retryable. A request that failed so may
have been carried out; `ErrorTellsEffect` leaves that open, and a caller who retries
a mutation may do it twice.

## Proofs

For all values of the constants, under the named assumptions of the modules
(lengths and chunk sizes are natural numbers, `ArgsAssumption`,
`ExchangeAssumption`, `TimeAssumption`; `NixAssumption`: the batch and request ids
are arrays of 16 bytes). Those of the client are

- `ClientAssumption`: a call's arguments are of the Go types of its method's
  parameters (`Arguments`), options are slices, and a client is of one of the two
  packages; an expiry that is asked for lies after 1970 and within int64, as
  every `time.Time` and `time.Duration` of this time does.
- `BrokerAssumption`, of the environment: the bytes the broker makes up at
  different places of its log differ (ciphertexts have fresh nonces, signatures
  and keys are of different messages or made anew); where the model leaves its
  answer open (`Undecided`), the answer is of the service's message type, which
  protobuf decoding ensures; and it says `DECRYPT_FAILED` only of what does not
  decrypt.
- `EmptyAssumption`, `TimeAssumption`, `NowAssumption`: the empty string is a string
  and stands for no bytes; Go's zero time is before 1970; the clock is in int64.

Further hypotheses are stated in the theorem.

- `ReadFullProofs`: `NoByteIsLost` and `LoopIsAtomic`. `ReadFullInv` adds that
  what was taken fits in the buffer and in the source, and that the loop ends
  without an error only when one of the two is used up or a `Read` was empty.
- `StreamWriterProofs`: `WriterTypes`, `NoncesNeverRepeat`,
  `ChunksAreContiguous` and, for sources without empty reads, `FinalOnlyAtEnd`.
  None of them is inductive: that a nonce is new follows only from the index a
  running call holds being above those of all records it sealed. `WriterInv`
  therefore adds: the typing of the calls' state; for each record the key,
  nonce and AAD it was sealed with, as functions of its stream and index; for
  each running call, that its records have the indices below `index` (and that
  index itself while a record is being written), that `current` begins where the
  last record ended and `next` where `current` ends; and that a call with a final
  record seals no more. Each action is one case of the step lemma; steps that
  seal nothing share `QuietStep`.
  `ContainersAreReference` (`WireIsReference`), also without empty reads, compares
  what was written with the container the format defines cell by cell: record i
  lies between `RecordStart` and `RecordEnd`, which are products of the chunk size and
  not sums over the records, so that no induction over the container is needed.
  `LayoutInv` says for every call that the cells written are those of the reference
  (`LaidOut`), how many they are at each place of the code (`Written`), and that the
  chunk in hand and the one read ahead are those of record `index` and the next
  (`AtRecord`, `ReadAhead`): the look-ahead is why the final bit is right.
- `StreamTransferProofs`: `OnlyPrefixes`, `SuccessOnlyIfComplete`,
  `RecoversOnlyOwn` and `TransferKeepsPromise` (the refinement of
  `StreamPromise`), for any number of containers and damages. They rest on
  `WriterInv` and on `ReaderInv`, whose part `Delivered` says that `dst` ends where
  the last record opened ends, and that this record is the one before `rindex` of
  the stream the header names. A record that opens was sealed by that stream's call
  with the index and final flag the reader expects (`OpenedIsSealed`), and records
  of neighbouring indices are adjacent, so each step appends the next piece: the
  medium appears nowhere in the argument. `OwnKey` says the same of the recovered
  CEK, `HeadersNamed` that a header with a stream's id was written before anything
  of that stream arrives. Success as completeness, and with it the refinement,
  needs sources without empty reads: finding 1 is the counterexample without it.
  `CutsAreClassified` (`CutClassified`) follows the reader through a container that
  was cut at any cell: `CutInv` says at each place of the reader that `pos` is the
  layout's place for it, that what it holds of the envelope and of the record are
  the reference's cells, and that it has failed only with the error for the place of
  the cut in the layout (`CutError`). It stands on `LayoutInv`, which says what the
  cells before the cut are. It is about containers that were only cut short, opened
  with the right AEAD key or the right local seed; of containers that go on behind
  their final record it says nothing.
  That is what `SuccessIsWhole` (`SuccessIsWholeLength`) is for, whatever the damage: a
  container that decrypts is as long as the one written, so that nothing hangs on
  behind its final record. `SizeInv` says that the reader's position follows from
  the header's suite, its chunk size and `rindex`, since each record but the final one
  holds a full chunk if it opens at all; the final record that opened is the last
  one its stream's call sealed, which gives `rindex`. `HeadersNamed` adds for this that
  the chunk sizes and prefixes on the wire are numbers.
- `WatchStreamProofs`: `WatchTypes` and `WatchKeepsPromise` (the refinement of
  `ChangeFeed`), for every history, buffer and set of kinds. `WatchInv` says that
  what was delivered and what is queued are, in order, exactly the changes asked for
  between the subscription and `upTo` (`InOrder`, `NoneMissing`), and that a stream
  that is served is up to date (`Reached`).
- `SealedExchangeProofs`: `OpensOwnAnswer`, that `AnswersOwnRequest` always
  holds. `ExchangeInv` adds that each call sends one request and that every
  message of the network is what its sender signed, and, if the broker signed it,
  carries the hash of the request it answers. What arrives has the signature of a
  message of the network (`ArrivedFields`), `verifySign1` makes it that very
  message (`VerifiedIsSent`), and the hash makes its request the call's own
  (`AcceptedIsAnswer`). `ExchangeTyped` has an invariant of its own.
  `OpensOnlyRecent` (`AnswersAreRecent`) adds in `RecentInv` what time each signed
  response claims, as a function of when and with which clock it was made; it holds
  where no sum of times leaves int64 (`TimesFit`) and no response claims the times
  at its ends (`NoExtremeTimes`), which finding 2 shows to be needed.
  `OpensEveryHonest` (`HonestAnswersOpen`) is the converse: `HonestInv` says
  which response was sealed to whom, and that each check of `OpenResponse` passes
  then follows from the rounding of seconds. Its hypotheses are `TimesFit`, the same
  for the caller's clock (`ClockFits`) and that calls bring keys of 32 bytes
  (`KeysOfLength`).
- `NixCacheProofs`: `DecodesStrictly` (`StrictDecode`), `AcceptedCallsAreSent`
  (`AcceptedIsSent`), `ResultOrError` (`NoResultWithError`) and, if a deviating
  broker's values are valid in no field (`OddInvalid`), `ResultIsOwn` (`OwnResult`).
  The scan of a message is a recursive function; what it computes for a message of
  any length is proved with the least number principle (`LeastNat`, from the
  library's well-foundedness of `<`): the first field that is refused is the one
  where the error appears (`Accepted`, `FieldOfAccepted`). That well-formed messages
  keep the size limits needs a bound on a sum over distinct fields (`SizeBound`),
  and that nothing is missing from an accepted message a pigeonhole argument
  (`SameLength`, `NoneLeft`). The inductive invariant `NixInv` says which arguments
  a call holds and of which fields each response is composed; `ResultsInv` that a
  result was composed for a call with the same ids.

- `BasilAPIProofs`: lemmas only, each for all arguments, answers and logs, with one
  case per method. `Faithful` says that a request is a message of its RPC's type and
  that two that are equal were asked with the same arguments, up to `Asked`
  (a lifetime that is not positive is none, claims that are nil are empty);
  `Distinct` that two answers of which one result is made tell the same, up to
  `Told`. `AnswerTyped` says that the broker's answers are of their RPC's type for
  every log that its calls can lead to (`LogOK`), `FollowUpAsking` that a call made
  of a result is again one with arguments of its types. `AllTrip` is the round
  trip: if a call's answer was given when the log was p (`Made`), then a
  call made of its result is answered from every later log, and every answer
  to it is `Good`. Decryption, for example, needs that the broker finds the one
  entry the ciphertext came from, which holds because `Named` bytes
  differ, and because the conversions lose no field of the envelope.
- `BrokerClientProofs`: `ErrorTells` (`ErrorTellsEffect`), `ListsAll`
  (`CatalogComplete`), `ExpiresAsAsked` (`ExpiryAsAsked`) and `FixedWin`
  (`FixedOptionsWin`: no option of the caller's changes the credentials, authority or
  dialer of a `basil.Client`, or the address and authority of a `spiffe.Client`, whose
  dialer the code leaves to the caller), for any number of calls, every set of calls to make, catalog
  and status. None is inductive: what a returned call says of the broker depends on
  what was queued for it, and that on what the broker logged, perhaps after the call
  ended. `ClientInv` is a conjunction of `Sound`, one per call: the log has at most
  one entry for it and none until its request is handled; a message is queued only
  when all of the request was carried out, a status only when nothing was or a part
  of a set (`ReplyTrue`); an error with a reason was such a status, and gRPC's own
  have none (`Errors`); and of a catalog, what was taken and what is queued are
  together its entries, with `EOF` after the last (`CatalogOK`). A step moves one
  call, and the others stay sound because the log only grows (`OthersSound`).
  `MintingInv` follows an expiry from the arguments to the request (`MintRequests`,
  one case per method), the answer and the result (`MintedExpiry`: a broker that
  was given a lifetime and another absolute time has no answer). `OptionsInv` says
  that the options of a client end with the fixed ones; that folding any list of
  options gives a sequence (`ConfiguredSeq`) is an induction with `LeastNat`, and
  the last of the options that sets something decides it (`SettingFixed`).

  `CallsTyped` (`ClientTypeOK`), `NothingIsLost` (`NothingLost`) and `MadeIsFound`
  (`RoundTrips`) are about every message of every method. A step is first reduced to
  what it does to one call and its request (`Evolves`: the call begins, ends,
  takes an entry, gets its reply, or the broker handles its request), and
  the invariants are shown of that. `AskedInv` says that each call was asked with
  arguments of its types, by a client that is there, that what it sent is the
  request of its arguments, and that each entry of the log is the request of
  its call; `AnsweredInv` that a reply is of the RPC's type and that a result is
  made of the reply, which is still there to compare with. `ClientTypeOK` and `NothingLost`
  follow from these and the lemmas on single methods. `RoundTrips` relates two calls
  that may lie far apart, with anything between them. `TripInv` keeps, of a
  call that follows on a result, the call it is made of (`OriginOf`), and of
  every answer the log it was given from, which began the log of now and
  held the entry of the call it follows (`Truth`); so `AllTrip` applies, from the log of
  the first answer to that of the second. `Unbroken` says that no such call is told
  `DECRYPT_FAILED`, neither by what is queued nor by what it returned.

Every safety invariant, action property and refinement that a passing run
checks is proved. Only model-checked is liveness (`Terminates`, `WriterReturns`,
`UndamagedDecrypts`, `Returns`, `CloseUnblocks`, `LossNoticed`), since the prover
handles neither fairness nor `ENABLED`. What theorems exclude by hypothesis is as in
the runs: sources with empty reads (`FinalOnlyAtEnd`, `SuccessOnlyIfComplete`,
`SuccessIsWhole`, `ContainersAreReference`, `CutsAreClassified`, the refinement of `StreamPromise`),
where finding 1 shows what goes wrong, and times that leave int64 (finding 2).

## What is left

Liveness can be proved only with rules that the prover lacks. One hazard has no property
(`PROJECT.json`): a TTL under a second gives a request whose claims end when they
begin, on which the broker alone decides.

## Not modelled

The examples and the command line tool are straight-line programs over the calls
and keep no state. Of the generated code the messages and the client's method stubs
are modelled (the map gives a message the lines of its struct and generated
methods, of which the fields and getters matter), its reflection, its marshalling
and its server side are not: nothing in this repository implements the server.
`ed25519.Verify` panics on a `BrokerPublic` of the wrong length
(`sealedinvocation.go:523`); callers in the model bring keys of the right one.
The `Watch...` methods of `spiffe.Client` hand a callback to go-spiffe. gRPC, go-spiffe and the broker are other projects;
they appear only as environments.
