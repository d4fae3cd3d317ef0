---------------------------- MODULE StreamFormat ----------------------------
(***************************************************************************)
(* The Basil streaming container, stream/format.go and stream/kem.go.      *)
(*                                                                         *)
(* A container is a sequence of CELLS, one per byte.  A cell names the     *)
(* OBJECT it is a byte of (a header, a length prefix, a sealed record...)  *)
(* and its offset in that object, so a reader that starts a field at the   *)
(* wrong byte gets cells that are not one whole object.  Lengths are       *)
(* constants: the code's 61, 4, 16, 12 and 48 bytes scale down to a few    *)
(* cells.                                                                  *)
(*                                                                         *)
(* Cryptography is symbolic.  A key is the record of everything it was     *)
(* derived from; a sealed record is the tuple of what was given to Seal,   *)
(* and Open succeeds only on a record that Seal produced, whole, with the  *)
(* same algorithm, key, nonce and associated data (module IdealAEAD).      *)
(***************************************************************************)
EXTENDS Integers, Sequences

CONSTANTS
  FixedHeaderLen, \* bytes of the fixed header
  PrefixLen,      \* bytes of a length prefix
  TagLen,         \* bytes an AEAD adds to its plaintext
  NonceLen,       \* bytes of an AEAD nonce
  CEKLen,         \* bytes of a content-encryption key
  MaxChunkSize,   \* the largest chunk size
  KEMCtLen,       \* [KEMSuites -> length of an ML-KEM ciphertext]
  EmptyReads      \* may a Read of the byte source return (0, nil)?

AEADSuites == {"AES256GCM", "ChaCha20Poly1305"}

KEMSuites == {"MLKEM512", "MLKEM768", "MLKEM1024"}

Suites == AEADSuites \cup KEMSuites

ASSUME LengthAssumption ==
  /\ FixedHeaderLen \in Nat \ {0}
  /\ PrefixLen \in Nat \ {0}
  /\ TagLen \in Nat \ {0}
  /\ NonceLen \in Nat \ {0}
  /\ CEKLen \in Nat \ {0}
  /\ MaxChunkSize \in Nat \ {0}
  /\ KEMCtLen \in [KEMSuites -> Nat \ {0}]

ASSUME EmptyReadsAssumption == EmptyReads \in BOOLEAN

(***************************************************************************)
(* Suites.                                                                 *)
(***************************************************************************)

\* chunkAEADForSuite for the suites it knows; its boolean is suite \in Suites.
chunkAEADForSuite(suite) ==
  IF suite = "ChaCha20Poly1305" THEN "ChaCha20Poly1305" ELSE "AES256GCM"

\* The boolean of mlKemCiphertextLen; KEMCtLen[suite] is its length.
isMLKEM(suite) == suite \in KEMSuites

validChunkSize(size) == size > 0 /\ size <= MaxChunkSize

(***************************************************************************)
(* The fixed header.  magic, version and flags are TRUE when the field has *)
(* the only value parseFixedHeader accepts.                                *)
(***************************************************************************)

\* Header writeFixedHeader serialises.
writeFixedHeader(suite, chunkSize, streamID, streamSalt) ==
  [magic |-> TRUE, version |-> TRUE, flags |-> TRUE, suite |-> suite,
   chunkSize |-> chunkSize, streamID |-> streamID, streamSalt |-> streamSalt]

\* The error of parseFixedHeader, "" when the header is accepted: the first
\* check that fails, in the order of the code.
parseFixedHeader(h) ==
  IF ~h.magic THEN "ErrBadMagic"
  ELSE IF ~h.version THEN "ErrUnsupportedVersion"
  ELSE IF ~h.flags THEN "ErrReservedFlags"
  ELSE IF h.suite \notin Suites THEN "ErrUnsupportedSuite"
  ELSE IF ~validChunkSize(h.chunkSize) THEN "ErrBadChunkSize"
  ELSE ""

(***************************************************************************)
(* Keys, nonces, associated data and the AEAD.                             *)
(***************************************************************************)

buildChunkAAD(suite, streamID, index, isFinal, ptLen, chunkSize) ==
  [magic |-> "BSLA", suite |-> suite, streamID |-> streamID,
   index |-> index, isFinal |-> isFinal, ptLen |-> ptLen,
   chunkSize |-> chunkSize]

\* Mutant of buildCEKWrapAAD: the wrapped CEK is not bound to its stream.
CEKWrapAADWithoutStream(suite, streamID) ==
  [magic |-> "BSLK", suite |-> suite, streamID |-> ""]

buildCEKWrapAAD(suite, streamID) ==
  [magic |-> "BSLK", suite |-> suite, streamID |-> streamID]

chunkNonce(index) == [counter |-> index]

\* Mutant of deriveMessageKey: the CEK is used as it is.
MessageKeyIsCEK(streamSalt, cek, suite, streamID) == [ikm |-> cek]

deriveMessageKey(streamSalt, cek, suite, streamID) ==
  [salt |-> streamSalt, ikm |-> cek, suite |-> suite, streamID |-> streamID]

deriveKEMAEADKey(suite, sharedSecret, ek, public) ==
  [secret |-> sharedSecret, token |-> suite, ek |-> ek, public |-> public]

aeadSeal(alg, key, nonce, pt, aad) ==
  [alg |-> alg, key |-> key, nonce |-> nonce, pt |-> pt, aad |-> aad]

\* The plaintext bytes of an interval of a source: byte k of source s is
\* the pair <<s, k>>.
PlainBytes(s, lo, n) == [k \in 1 .. n |-> <<s, lo + k>>]

(***************************************************************************)
(* Objects and their cells.                                                *)
(***************************************************************************)

HeaderObj(h) == [header |-> h, size |-> FixedHeaderLen]

PrefixObj(value) == [prefix |-> value, size |-> PrefixLen]

RecordObj(rec, ptLen) == [sealed |-> rec, size |-> ptLen + TagLen]

NonceObj(n) == [nonce |-> n, size |-> NonceLen]

EncapsulatedKeyObj(ek) == [ek |-> ek, size |-> KEMCtLen[ek.suite]]

Cells(obj) == [k \in 1 .. obj.size |-> [obj |-> obj, at |-> k]]

\* The objects a sequence of cells spells exactly: one or none.
Spelled(cells) ==
  IF cells # <<>> /\ cells = Cells(cells[1].obj) THEN {cells[1].obj} ELSE {}

\* The header the bytes spell.
HeaderOf(cells) == {o.header : o \in {p \in Spelled(cells) : "header" \in DOMAIN p}}

(***************************************************************************)
(* The KEM envelope, kem.go.  A seed has the same 64 bytes for every       *)
(* parameter set, so a key pair is a seed together with a suite.           *)
(***************************************************************************)

PublicKeyFromSeed(seed, suite) == [seed |-> seed, suite |-> suite]

\* The secret that decapsulating ek yields under a key pair.  Another key
\* pair of the same suite gives an unrelated secret and no error (ML-KEM's
\* implicit rejection).
SharedSecret(pair, ek) == [pair |-> pair, ek |-> ek]

\* wrapCEK: the envelope that wraps cek for the key pair behind public; the
\* encapsulation and the nonce are drawn at random for this stream.
wrapCEK(public, suite, cek, aad, stream) ==
  LET ek    == [suite |-> suite, randomOf |-> stream]
      key   == deriveKEMAEADKey(suite, SharedSecret(public, ek), ek, public)
      nonce == [randomOf |-> stream]
  IN [ek |-> ek, nonce |-> nonce,
      wrapped |-> aeadSeal("AES256GCM", key, nonce, [cek |-> cek], aad)]

\* serializeKEMHeader: ct length, ciphertext, nonce, wrapped length, wrapped.
serializeKEMHeader(env) ==
  Cells(PrefixObj(KEMCtLen[env.ek.suite])) \o Cells(EncapsulatedKeyObj(env.ek))
    \o Cells(NonceObj(env.nonce))
    \o Cells(PrefixObj(CEKLen + TagLen)) \o Cells(RecordObj(env.wrapped, CEKLen))

(***************************************************************************)
(* readFull: how many bytes it may return of n asked for when the source   *)
(* still has avail.  Module ReadFull shows that its loop gives exactly     *)
(* these.                                                                  *)
(***************************************************************************)
Least(a, b) == IF a < b THEN a ELSE b

readFullCounts(avail, n) ==
  IF EmptyReads THEN 0 .. Least(avail, n) ELSE {Least(avail, n)}

=============================================================================
