-------------------------- MODULE SealedInvocation --------------------------
(***************************************************************************)
(* sealedinvocation/sealedinvocation.go: BuildRequest and OpenResponse,    *)
(* the client's two ends of a sealed invocation, and the COSE layers they  *)
(* share.                                                                  *)
(*                                                                         *)
(* A message is a COSE_Sign1 record around a COSE_Encrypt record.  Keys,   *)
(* signatures, hashes and ciphertexts are symbolic: a signature is the key *)
(* and everything it covers, a ciphertext the key, nonce, plaintext and    *)
(* associated data given to Seal.  An optional header value is {} when it  *)
(* is absent, or has a type the decoder does not take, and {v} otherwise.  *)
(* Issuer and audience are carried and never looked at; they are left out, *)
(* and so is the memory management of the CBOR modes.                      *)
(*                                                                         *)
(* Time is counted in ticks of a fraction of a second, because the claims  *)
(* hold whole seconds and the parameters do not.                           *)
(***************************************************************************)
EXTENDS Integers, Sequences

CONSTANTS
  TicksPerSecond,
  IntMax,         \* the largest int64; sums and differences wrap around it
  DefaultTTL,     \* 2 * time.Minute, in ticks
  DefaultSkew,    \* time.Minute, in ticks
  DefaultMaxTTL   \* 5 * time.Minute, in ticks

ASSUME TimeAssumption ==
  /\ TicksPerSecond \in Nat \ {0}
  /\ {IntMax, DefaultTTL, DefaultSkew, DefaultMaxTTL} \subseteq Nat \ {0}

\* time.Time.Unix and int64(d.Seconds()).
Unix(ticks) == ticks \div TicksPerSecond

\* int64 arithmetic.
Wrap(x) == ((x + IntMax + 1) % (2 * (IntMax + 1))) - IntMax - 1

\* A parameter whose zero value selects a default.
OrDefault(value, default) == IF value = 0 THEN default ELSE value

(***************************************************************************)
(* Claims and the protected header of the COSE_Encrypt layer.              *)
(***************************************************************************)

\* The label of an optional claim that is there.
labelOf(opt, claim) == IF opt[claim] = {} THEN <<>> ELSE <<claim>>

critLabels(opt) ==
  <<"content", "cwt">> \o labelOf(opt, "inReplyTo") \o labelOf(opt, "requestHash")
    \o labelOf(opt, "senderKeyID") \o labelOf(opt, "responseKeyID")
    \o labelOf(opt, "responseSubject") \o labelOf(opt, "freshnessChallenge")

encryptProtected(contentType, claims) ==
  [alg |-> "A256GCM", content |-> contentType, crit |-> critLabels(claims.opt),
   exp |-> IF claims.expiresAt # 0 THEN {claims.expiresAt} ELSE {},
   iat |-> {claims.issuedAt}, cti |-> {claims.messageID}, opt |-> claims.opt]

\* parseEncryptProtected: its error, and the claims it returns.
parseError(m) ==
  IF m.alg # "A256GCM" THEN "Encrypt alg mismatch"
  ELSE IF m.content = "" THEN "missing content type"
  ELSE IF m.iat = {} THEN "missing iat"
  ELSE IF m.cti = {} THEN "missing cti"
  ELSE IF "wrongLength" \in m.opt.freshnessChallenge THEN "freshness challenge length"
  ELSE IF m.crit = <<>> THEN "missing crit"
  ELSE IF m.crit # critLabels(m.opt) THEN "crit mismatch"
  ELSE ""

parseEncryptProtected(m) ==
  [issuedAt |-> CHOOSE t \in m.iat : TRUE,
   expiresAt |-> IF m.exp = {} THEN 0 ELSE CHOOSE t \in m.exp : TRUE,
   messageID |-> CHOOSE id \in m.cti : TRUE, opt |-> m.opt]

(***************************************************************************)
(* The two layers.                                                         *)
(***************************************************************************)

X25519Public(private) == [public |-> private]

\* The secret of an ephemeral key and a recipient key, from either side,
\* and the content key derived from it (kdfContext).
contentKey(ephemeral, public, recipientAlg) ==
  [shared |-> <<ephemeral, public>>, context |-> <<"A256GCM", recipientAlg>>]

\* The COSE_Encrypt record for a protected header; the ephemeral key and the
\* nonce are drawn for this message.
sealEncrypt(protected, plaintext, recipientKeyID, public, draw) ==
  [tag |-> 96, protected |-> protected, iv |-> <<draw>>,
   ciphertext |-> [key |-> contentKey(<<draw>>, public, "ECDH-ES"),
                   nonce |-> <<draw>>, pt |-> plaintext, aad |-> protected],
   recipients |-> <<[alg |-> "ECDH-ES", kid |-> {recipientKeyID},
                     ephemeral |-> <<draw>>]>>]

buildEncrypt(contentType, plaintext, claims, recipientKeyID, public, draw) ==
  sealEncrypt(encryptProtected(contentType, claims), plaintext, recipientKeyID,
              public, draw)

Sign(seed, alg, kid, payload) == [by |-> seed, over |-> <<alg, kid, payload>>]

\* The COSE_Sign1 record around a payload; kid holds the signing key id.
signPayload(payload, kid, seed) ==
  [tag |-> 18, alg |-> "EdDSA", kid |-> kid, payload |-> payload,
   signature |-> Sign(seed, "EdDSA", kid, payload)]

\* buildSealed once its arguments are accepted.
buildSealed(content, plaintext, claims, kid, seed, recipientKid, public, draw) ==
  signPayload(buildEncrypt(content, plaintext, claims, recipientKid, public, draw),
              {kid}, seed)

Sum256(message) == [sha3 |-> message]

\* verifySign1; a kid of another type counts as missing.
verifySign1(message, expectedKid, brokerKey) ==
  IF message.tag # 18 THEN "Sign1 tag"
  ELSE IF message.alg # "EdDSA" THEN "Sign1 alg mismatch"
  ELSE IF message.kid = {} THEN "missing Sign1 kid"
  ELSE IF message.kid # {expectedKid} THEN "Sign1 kid"
  ELSE IF message.signature # Sign(brokerKey, message.alg, message.kid, message.payload)
       THEN "invalid Sign1 signature"
  ELSE ""

\* decodeEncrypt and parseRecipientProtected.
decodeEncrypt(enc) ==
  IF enc.tag # 96 THEN "Encrypt tag"
  ELSE IF Len(enc.recipients) # 1 THEN "recipient count"
  ELSE IF parseError(enc.protected) # "" THEN parseError(enc.protected)
  ELSE IF enc.iv = <<>> THEN "invalid Encrypt nonce"
  ELSE IF enc.recipients[1].alg # "ECDH-ES" THEN "recipient alg mismatch"
  ELSE IF enc.recipients[1].kid = {} THEN "missing recipient kid"
  ELSE IF enc.recipients[1].ephemeral = <<>> THEN "invalid ephemeral public key"
  ELSE ""

openEncrypt(enc, recipientKeyID, private) ==
  LET key == contentKey(enc.recipients[1].ephemeral, X25519Public(private),
                        enc.recipients[1].alg)
  IN IF enc.recipients[1].kid # {recipientKeyID} THEN "recipient kid"
     ELSE IF private = "wrongLength" THEN "X25519 private key"
     ELSE IF enc.recipients[1].ephemeral = <<<<"lowOrder">>>> THEN "ECDH"
     ELSE IF \/ enc.ciphertext.key # key
             \/ enc.ciphertext.nonce # enc.iv
             \/ enc.ciphertext.aad # enc.protected
          THEN "open failed"
     ELSE ""

\* Mutant of validateResponseClaims: no limit on the span.
ResponseClaimsUnlimited(claims, now, skew, maxTTL) ==
  IF claims.issuedAt > Wrap(Unix(now) + Unix(skew)) THEN "issued in the future"
  ELSE IF claims.expiresAt <= claims.issuedAt THEN "non-positive ttl"
  ELSE IF Unix(now) > Wrap(claims.expiresAt + Unix(skew)) THEN "expired"
  ELSE ""

\* Mutant of validateResponseClaims: no skew for a clock that is ahead.
ResponseClaimsNoSkew(claims, now, skew, maxTTL) ==
  IF claims.issuedAt > Unix(now) THEN "issued in the future" ELSE ""

validateResponseClaims(claims, now, skew, maxTTL) ==
  IF claims.issuedAt > Wrap(Unix(now) + Unix(skew)) THEN "issued in the future"
  ELSE IF claims.expiresAt <= claims.issuedAt THEN "non-positive ttl"
  ELSE IF Wrap(claims.expiresAt - claims.issuedAt) > Unix(maxTTL) THEN "ttl too long"
  ELSE IF Unix(now) > Wrap(claims.expiresAt + Unix(skew)) THEN "expired"
  ELSE IF claims.opt.inReplyTo = {} \/ claims.opt.requestHash = {}
       THEN "missing correlation"
  ELSE IF \/ claims.opt.responseKeyID # {} \/ claims.opt.responseSubject # {}
          \/ claims.opt.freshnessChallenge # {}
       THEN "request-only claims"
  ELSE ""

\* Mutant of correlationError: the message id alone ties a response to its
\* request.
CorrelationByID(claims, kid, requestMessage, requestID) ==
  IF claims.opt.inReplyTo # {requestID} THEN "in-reply-to mismatch" ELSE ""

\* The response belongs to the request: sender, message id and hash.  An
\* absent sender key id reads as "".
correlationError(claims, kid, requestMessage, requestID) ==
  IF (IF claims.opt.senderKeyID = {} THEN {""} ELSE claims.opt.senderKeyID) # kid
  THEN "sender key"
  ELSE IF claims.opt.inReplyTo # {requestID} THEN "in-reply-to mismatch"
  ELSE IF claims.opt.requestHash # {Sum256(requestMessage)} THEN "request hash mismatch"
  ELSE ""

\* The decision of OpenResponse on its ResponseParams: the error, "" when it
\* returns the plaintext.  ExpectedContentType "" accepts every content type.
OpenResponseError(params) ==
  LET message == params.Message
      enc     == message.payload
      claims  == parseEncryptProtected(enc.protected)
      sign1   == verifySign1(message, params.BrokerKeyID, params.BrokerKey)
      correl  == correlationError(claims, message.kid, params.Request,
                                  params.RequestMessageID)
      invalid == validateResponseClaims(claims, params.Now,
                                        OrDefault(params.MaxClockSkew, DefaultSkew),
                                        OrDefault(params.MaxTTL, DefaultMaxTTL))
  IN IF sign1 # "" THEN sign1
     ELSE IF decodeEncrypt(enc) # "" THEN decodeEncrypt(enc)
     ELSE IF correl # "" THEN correl
     ELSE IF invalid # "" THEN invalid
     ELSE IF params.ExpectedContentType \notin {"", enc.protected.content} THEN "content type"
     ELSE openEncrypt(enc, params.RecipientKeyID, params.RecipientPrivate)
=============================================================================
