------------------------ MODULE SealedExchangeProofs ------------------------
(***************************************************************************)
(* A call that opens a response has the broker's answer to its own request *)
(* for any number of calls, message ids, keys and responses.  The argument *)
(* is ExchangeInv: what arrives carries a signature of a message of the    *)
(* network, verifySign1 makes it that message, and the request hash in it  *)
(* makes it the answer to the call's request.  What it opens is recent,    *)
(* and what an honest broker answers in time it opens: both follow from    *)
(* the claims each signed response makes and from the rounding of seconds. *)
(***************************************************************************)
EXTENDS SealedExchange, TLAPS

\* The fields of what signPayload builds.
LEMMA SignPayloadFields ==
  ASSUME NEW payload, NEW kid, NEW seed,
         NEW m, m = signPayload(payload, kid, seed)
  PROVE  /\ WellSigned(m)
         /\ m.tag = 18 /\ m.alg = "EdDSA" /\ m.kid = kid /\ m.payload = payload
         /\ m.signature = Sign(seed, "EdDSA", kid, payload)
         /\ m.signature.by = seed
         /\ DOMAIN m = {"tag", "alg", "kid", "payload", "signature"}
<1>1. m.kid = kid /\ m.payload = payload /\ m.signature = Sign(seed, "EdDSA", kid, payload)
      /\ m.tag = 18 /\ m.alg = "EdDSA"
  BY DEF signPayload
<1>2. m.signature.by = seed
  BY <1>1 DEF Sign
<1>3. DOMAIN m = {"tag", "alg", "kid", "payload", "signature"}
  BY DEF signPayload
<1> QED
  BY <1>1, <1>2, <1>3 DEF WellSigned

\* A well-signed message carries the signature of its own fields.
LEMMA WellSignedFields ==
  ASSUME NEW m, WellSigned(m)
  PROVE  m.signature = Sign(m.signature.by, "EdDSA", m.kid, m.payload)
  BY SignPayloadFields DEF WellSigned

\* A signature determines the key and what it covers.
LEMMA SignInjective ==
  ASSUME NEW s1, NEW s2, NEW a1, NEW a2, NEW k1, NEW k2, NEW p1, NEW p2,
         Sign(s1, a1, k1, p1) = Sign(s2, a2, k2, p2)
  PROVE  s1 = s2 /\ a1 = a2 /\ k1 = k2 /\ p1 = p2
<1>1. <<a1, k1, p1>> = <<a2, k2, p2>> /\ s1 = s2
  BY DEF Sign
<1> QED
  BY <1>1

\* A deviating header keeps the request hash (DeviateHeader changes other
\* claims only).
LEMMA HashKept ==
  ASSUME NEW content, NEW claims, NEW deviation,
         DOMAIN claims.opt = {"inReplyTo", "requestHash", "senderKeyID",
                              "responseKeyID", "responseSubject", "freshnessChallenge"}
  PROVE  DeviateHeader(encryptProtected(content, claims), deviation).opt.requestHash
           = claims.opt.requestHash
<1>1. DeviateOpt(claims.opt, deviation).requestHash = claims.opt.requestHash
  BY DEF DeviateOpt
<1>2. encryptProtected(content, claims).opt = claims.opt
  BY DEF encryptProtected
<1>3. ASSUME NEW p
      PROVE DeviateHeader(p, deviation).opt = DeviateOpt(p.opt, deviation)
  BY DEF DeviateHeader
<1> QED
  BY <1>1, <1>2, <1>3

\* What the broker signs for a request carries its hash and its plaintext.
LEMMA ResponseAnswers ==
  ASSUME NEW m, NEW key, NEW ttl, NEW drift, NEW deviation,
         NEW r, r = ResponseTo(m, key, ttl, drift, deviation)
  PROVE  WellSigned(r) /\ (r.signature.by = "brokerSeed" => AnswersTo(r, m))
<1> DEFINE seed == IF deviation = "otherSigner" THEN "otherSeed" ELSE "brokerSeed"
           claims == ResponseClaims(m, ttl, drift)
           header == DeviateHeader(encryptProtected("response", claims), deviation)
           draw == <<"response", Len(answers) + 1>>
           pt == [answerTo |-> Draw(m), from |-> seed]
           inner == sealEncrypt(header, pt, key, SealedTo(key, deviation), draw)
           payload == DeviatePayload(inner, deviation)
<1>1. r = signPayload(payload, {"broker.signing"}, seed)
  BY DEF ResponseTo
<1>2. header.opt.requestHash = {Sum256(m)}
  <2>1. DOMAIN claims.opt = {"inReplyTo", "requestHash", "senderKeyID",
                             "responseKeyID", "responseSubject", "freshnessChallenge"}
    BY DEF ResponseClaims
  <2>2. claims.opt.requestHash = {Sum256(m)}
    BY DEF ResponseClaims
  <2> HIDE DEF claims
  <2>3. QED
    BY <2>1, <2>2, HashKept
<1> HIDE DEF header, claims, draw
<1>3. inner.protected = header /\ inner.ciphertext.pt = pt
  BY DEF sealEncrypt
<1>4. DOMAIN inner = {"tag", "protected", "iv", "ciphertext", "recipients"}
  BY DEF sealEncrypt
<1> HIDE DEF inner
<1>5. payload.protected = header /\ payload.ciphertext.pt = pt
  BY <1>3, <1>4 DEF DeviatePayload
<1> HIDE DEF payload, pt
<1>6. WellSigned(r) /\ r.signature.by = seed /\ r.payload = payload
  BY <1>1, SignPayloadFields
<1>7. ASSUME r.signature.by = "brokerSeed" PROVE AnswersTo(r, m)
  BY <1>7, <1>2, <1>5, <1>6 DEF AnswersTo, pt
<1> QED
  BY <1>6, <1>7

\* A message that verifies under the broker's key and carries the signature
\* of a message of the network is that message.
LEMMA VerifiedIsSent ==
  ASSUME NEW m, NEW x, NEW kid, WellSigned(m),
         NEW tag, NEW alg, NEW kids, NEW payload,
         x = [tag |-> tag, alg |-> alg, kid |-> kids, payload |-> payload,
              signature |-> m.signature],
         verifySign1(x, kid, "brokerSeed") = ""
  PROVE  x = m /\ m.signature.by = "brokerSeed"
<1>1. x.tag = tag /\ x.alg = alg /\ x.kid = kids /\ x.payload = payload
      /\ x.signature = m.signature
  OBVIOUS
<1>2. tag = 18 /\ alg = "EdDSA" /\ m.signature = Sign("brokerSeed", alg, kids, payload)
  BY <1>1 DEF verifySign1
<1>3. m.signature = Sign(m.signature.by, "EdDSA", m.kid, m.payload)
  BY ONLY WellSignedFields, WellSigned(m)
<1>4. Sign("brokerSeed", alg, kids, payload)
        = Sign(m.signature.by, "EdDSA", m.kid, m.payload)
  BY ONLY <1>2, <1>3
<1>6. m.signature.by = "brokerSeed" /\ m.kid = kids /\ m.payload = payload
  BY ONLY <1>4, SignInjective
<1>5. x = signPayload(payload, kids, "brokerSeed")
  BY <1>2 DEF signPayload
<1> QED
  BY <1>5, <1>6 DEF WellSigned

\* No call has opened anything yet and the network is empty.
LEMMA InvInit == Init => ExchangeInv
<1> SUFFICES ASSUME Init PROVE ExchangeInv
  OBVIOUS
<1>1. \A c \in Calls : opening[c].state = "none"
  BY DEF Init, NotTried
<1>2. DOMAIN request = Calls /\ DOMAIN opening = Calls /\ pool = {}
  BY DEF Init
<1>3. OneRequest
  BY DEF Init, OneRequest
<1> QED
  BY <1>1, <1>2, <1>3 DEF ExchangeInv, SignedOK, AnswersOwnRequest

\* The network's changes keep the signature.
LEMMA ArrivedFields ==
  ASSUME NEW m, NEW other, NEW damage, WellSigned(m),
         NEW x, x = Damaged(m, damage) \/ x = Spliced(m, other)
  PROVE  \E tag, alg, kids, payload :
           x = [tag |-> tag, alg |-> alg, kid |-> kids, payload |-> payload,
                signature |-> m.signature]
<1>1. m = [tag |-> 18, alg |-> "EdDSA", kid |-> m.kid, payload |-> m.payload,
           signature |-> m.signature]
  <2>1. m.signature = Sign(m.signature.by, "EdDSA", m.kid, m.payload)
    BY WellSignedFields
  <2>2. m = [tag |-> 18, alg |-> "EdDSA", kid |-> m.kid, payload |-> m.payload,
             signature |-> Sign(m.signature.by, "EdDSA", m.kid, m.payload)]
    BY DEF WellSigned, signPayload
  <2> QED
    BY <2>1, <2>2
<1>2. ASSUME NEW k, NEW p, NEW s, m = [tag |-> 18, alg |-> "EdDSA", kid |-> k,
                                       payload |-> p, signature |-> s]
      PROVE \E tag, alg, kids, payload :
              x = [tag |-> tag, alg |-> alg, kid |-> kids, payload |-> payload,
                   signature |-> s]
  <2>1. CASE damage = "tag" /\ x = Damaged(m, damage)
    <3>1. x = [tag |-> 0, alg |-> "EdDSA", kid |-> k, payload |-> p, signature |-> s]
      BY <1>2, <2>1 DEF Damaged
    <3> QED
      BY <3>1, Zenon
  <2>2. CASE damage = "kid" /\ x = Damaged(m, damage)
    <3>1. x = [tag |-> 18, alg |-> "EdDSA", kid |-> {"other"}, payload |-> p, signature |-> s]
      BY <1>2, <2>2 DEF Damaged
    <3> QED
      BY <3>1, Zenon
  <2>3. CASE damage = "nonce" /\ x = Damaged(m, damage)
    <3>1. x = [m EXCEPT !.payload = [m.payload EXCEPT !.iv = <<>>]]
      BY <2>3 DEF Damaged
    <3>2. x = [tag |-> 18, alg |-> "EdDSA", kid |-> k,
               payload |-> [m.payload EXCEPT !.iv = <<>>], signature |-> s]
      BY <1>2, <3>1
    <3> QED
      BY <3>2, Zenon
  <2>4. CASE damage \notin {"tag", "kid", "nonce"} /\ x = Damaged(m, damage)
    <3>1. x = [tag |-> 18, alg |-> "EdDSA", kid |-> k, payload |-> p, signature |-> s]
      BY <1>2, <2>4 DEF Damaged
    <3> QED
      BY <3>1, Zenon
  <2>5. CASE x = Spliced(m, other)
    <3>1. x = [tag |-> 18, alg |-> "EdDSA", kid |-> k, payload |-> other.payload,
               signature |-> s]
      BY <1>2, <2>5 DEF Spliced
    <3> QED
      BY <3>1, Zenon
  <2> QED
    BY <2>1, <2>2, <2>3, <2>4, <2>5
<1> QED
  BY <1>1, <1>2

\* What the network may make of message m.
Arrived(m, x) ==
  \/ \E damage \in Damages : x = Damaged(m, damage)
  \/ \E other \in pool : x = Spliced(m, other)

\* OpenResponse gives call c the plaintext of x.
Accepts(c, sent, x, skew, maxTTL) == Verdict(c, sent, x, skew, maxTTL) = ""

\* Message x of the network is the broker's answer to sent.
IsAnswer(x, sent) ==
  /\ x \in pool /\ x.signature.by = "brokerSeed"
  /\ x.payload.ciphertext.pt = [answerTo |-> Draw(sent), from |-> "brokerSeed"]

\* What OpenResponse accepts is a message of the network, the broker's answer
\* to the request the call sent.
LEMMA AcceptedIsAnswer ==
  ASSUME SignedOK, NEW c, NEW sent, NEW m \in pool, NEW x, NEW skew, NEW maxTTL,
         Arrived(m, x),
         Accepts(c, sent, x, skew, maxTTL)
  PROVE  IsAnswer(x, sent)
<1>1. WellSigned(m) /\ (m.signature.by = "brokerSeed" => \E r \in pool : AnswersTo(m, r))
  BY DEF SignedOK
<1> DEFINE claims == parseEncryptProtected(x.payload.protected)
           id == parseEncryptProtected(sent.payload.protected).messageID
<1>2. verifySign1(x, "broker.signing", "brokerSeed") = ""
      /\ correlationError(claims, x.kid, sent, id) = ""
  BY DEF Accepts, Verdict, OpenResponseError
<1>3. \E tag, alg, kids, payload :
        x = [tag |-> tag, alg |-> alg, kid |-> kids, payload |-> payload,
             signature |-> m.signature]
  BY ONLY <1>1, ArrivedFields, Arrived(m, x) DEF Arrived
<1>4. x = m /\ m.signature.by = "brokerSeed"
  <2>1. PICK tag, alg, kids, payload :
          x = [tag |-> tag, alg |-> alg, kid |-> kids, payload |-> payload,
               signature |-> m.signature]
    BY <1>3
  <2> QED
    BY ONLY <1>1, <1>2, <2>1, VerifiedIsSent, Zenon
<1>5. claims.opt = x.payload.protected.opt
  BY DEF parseEncryptProtected
<1>6. x.payload.protected.opt.requestHash = {Sum256(sent)}
  <2> HIDE DEF claims, id
  <2>1. claims.opt.requestHash = {Sum256(sent)}
    BY <1>2 DEF correlationError
  <2> QED
    BY <2>1, <1>5
<1>7. PICK r \in pool : AnswersTo(m, r)
  BY <1>1, <1>4
<1>8. Sum256(r) = Sum256(sent)
  <2>1. {Sum256(r)} = {Sum256(sent)}
    BY ONLY <1>4, <1>6, <1>7 DEF AnswersTo
  <2> QED
    BY ONLY <2>1
<1>9. r = sent
  BY ONLY <1>8 DEF Sum256
<1> QED
  BY <1>4, <1>7, <1>9 DEF AnswersTo, IsAnswer

\* Adding a message that is well signed, and the answer to a request of the
\* network if the broker signed it, keeps every message what its sender signed.
LEMMA SignedOKGrows ==
  ASSUME SignedOK, NEW m, WellSigned(m), pool' = pool \cup {m},
         m.signature.by = "brokerSeed" => \E r \in pool : AnswersTo(m, r)
  PROVE  SignedOK'
<1> SUFFICES ASSUME NEW n \in pool'
             PROVE  /\ WellSigned(n)
                    /\ n.signature.by = "brokerSeed" => \E r \in pool' : AnswersTo(n, r)
  BY DEF SignedOK, WellSigned, AnswersTo, Draw, Sum256, signPayload, Sign
<1>1. WellSigned(n) /\ (n.signature.by = "brokerSeed" => \E r \in pool : AnswersTo(n, r))
  BY DEF SignedOK
<1> QED
  BY <1>1

\* Growth of the network leaves what calls opened and sent as it was.
LEMMA OpenedKept ==
  ASSUME AnswersOwnRequest, pool \subseteq pool', opening' = opening,
         request' = request
  PROVE  AnswersOwnRequest'
  BY DEF AnswersOwnRequest, Draw

\* BuildRequest adds a message the broker did not sign, to a call that has
\* opened nothing.
LEMMA BuildRequestKeeps ==
  ASSUME ExchangeInv, NEW c \in Calls, NEW id, NEW challenge,
         NEW seed \in {"clientSeed", "wrongLength"}, NEW public, NEW ttl,
         BuildRequest(c, id, challenge, seed, public, ttl)
  PROVE  ExchangeInv'
<1> DEFINE inner == buildEncrypt("request", [askedBy |-> c],
                                 RequestClaims(c, id, challenge, ttl),
                                 "request.sealing", X25519Public("broker"),
                                 <<"request", c>>)
<1>1. PICK m : m = signPayload(inner, {"client.signing"}, seed)
  OBVIOUS
<1>2. \/ request' = request /\ pool' = pool
      \/ request' = [request EXCEPT ![c] = {m}] /\ pool' = pool \cup {m}
  BY <1>1 DEF BuildRequest, buildSealed
<1>3. opening' = opening /\ request[c] = {}
  BY DEF BuildRequest
<1> HIDE DEF inner
<1>4. WellSigned(m) /\ m.signature.by = seed
  BY <1>1, SignPayloadFields
<1>5. SignedOK'
  <2>1. CASE pool' = pool
    BY <2>1 DEF ExchangeInv, SignedOK, WellSigned, AnswersTo, Draw, Sum256, signPayload, Sign
  <2>2. CASE pool' = pool \cup {m}
    <3>1. m.signature.by # "brokerSeed"
      BY <1>4
    <3> QED
      BY <2>2, <3>1, <1>4, SignedOKGrows DEF ExchangeInv
  <2> QED
    BY <1>2, <2>1, <2>2
<1>6. opening[c].state = "none"
  BY <1>3 DEF ExchangeInv
<1>7. DOMAIN request' = Calls /\ DOMAIN opening' = Calls /\ pool \subseteq pool'
      /\ \A d \in Calls : d # c => request'[d] = request[d]
  BY <1>2, <1>3 DEF ExchangeInv
<1>8. AnswersOwnRequest'
  BY <1>3, <1>6, <1>7 DEF ExchangeInv, AnswersOwnRequest, Draw
<1>9. \A d \in Calls : opening'[d].state # "none" => request'[d] # {}
  BY <1>3, <1>6, <1>7 DEF ExchangeInv
<1>10. OneRequest'
  BY <1>2, <1>7 DEF ExchangeInv, OneRequest
<1> QED
  BY <1>5, <1>7, <1>8, <1>9, <1>10 DEF ExchangeInv

\* The broker's response to a message of the network is its answer.
LEMMA RespondKeeps ==
  ASSUME ExchangeInv, NEW m \in pool, NEW ttl, NEW drift, NEW deviation,
         Respond(m, ttl, drift, deviation)
  PROVE  ExchangeInv'
<1>1. PICK key : pool' = pool \cup {ResponseTo(m, key, ttl, drift, deviation)}
  BY DEF Respond
<1>2. PICK r : r = ResponseTo(m, key, ttl, drift, deviation)
  OBVIOUS
<1>3. WellSigned(r) /\ (r.signature.by = "brokerSeed" => AnswersTo(r, m))
  BY <1>2, ResponseAnswers
<1>4. pool' = pool \cup {r}
  BY <1>1, <1>2
<1>5. SignedOK'
  BY <1>3, <1>4, SignedOKGrows DEF ExchangeInv
<1>6. request' = request /\ opening' = opening
  BY DEF Respond
<1>7. AnswersOwnRequest'
  BY <1>4, <1>6, OpenedKept DEF ExchangeInv
<1> QED
  BY <1>5, <1>6, <1>7 DEF ExchangeInv, OneRequest

\* OpenResponse stores what it accepts, which is the answer to the request,
\* or a refusal.
LEMMA OpenResponseKeeps ==
  ASSUME ExchangeInv, NEW c \in Calls, NEW m \in pool, NEW x, NEW skew, NEW maxTTL,
         Arrived(m, x),
         OpenResponse(c, x, skew, maxTTL)
  PROVE  ExchangeInv'
<1>1. UNCHANGED <<request, pool>>
  BY DEF OpenResponse
<1>2. PICK sent \in request[c] :
        \/ opening' = [opening EXCEPT ![c] = Refused]
        \/ /\ Verdict(c, sent, x, skew, maxTTL) = ""
           /\ opening' = [opening EXCEPT ![c] =
                [state |-> "opened", message |-> x, at |-> now, skew |-> skew,
                 maxTTL |-> maxTTL]]
  BY DEF OpenResponse
<1>3. SignedOK'
  BY <1>1 DEF ExchangeInv, SignedOK, WellSigned, AnswersTo, Draw, Sum256, signPayload, Sign
<1>4. /\ DOMAIN opening' = Calls
      /\ \A d \in Calls : d # c => opening'[d] = opening[d]
  BY <1>2 DEF ExchangeInv
<1>5. \A d \in Calls : opening'[d].state # "none" => request'[d] # {}
  BY <1>1, <1>2, <1>4 DEF ExchangeInv
<1>6. AnswersOwnRequest'
  <2> SUFFICES ASSUME NEW d \in Calls, opening'[d].state = "opened"
               PROVE  /\ opening'[d].message \in pool
                      /\ \A s \in request[d] :
                           opening'[d].message.payload.ciphertext.pt =
                             [answerTo |-> Draw(s), from |-> "brokerSeed"]
    BY <1>1 DEF AnswersOwnRequest, Draw
  <2>1. CASE d # c
    BY <2>1, <1>4 DEF ExchangeInv, AnswersOwnRequest
  <2>2. CASE d = c
    <3>1. Refused.state # "opened"
      BY DEF Refused
    <3>2. opening' # [opening EXCEPT ![c] = Refused]
      BY <2>2, <3>1 DEF ExchangeInv
    <3>3. /\ Verdict(c, sent, x, skew, maxTTL) = ""
          /\ opening' = [opening EXCEPT ![c] =
               [state |-> "opened", message |-> x, at |-> now, skew |-> skew,
                maxTTL |-> maxTTL]]
      BY ONLY <1>2, <3>2
    <3>4. opening'[c].message = x
      BY <3>3 DEF ExchangeInv
    <3>5. /\ x \in pool
          /\ x.payload.ciphertext.pt = [answerTo |-> Draw(sent), from |-> "brokerSeed"]
      <4>1. SignedOK
        BY DEF ExchangeInv
      <4>2. Accepts(c, sent, x, skew, maxTTL)
        BY <3>3 DEF Accepts
      <4>3. IsAnswer(x, sent)
        BY ONLY <4>1, <4>2, m \in pool, Arrived(m, x), AcceptedIsAnswer
      <4> QED
        BY ONLY <4>3 DEF IsAnswer
    <3>6. \A s \in request[c] : s = sent
      BY DEF ExchangeInv, OneRequest
    <3> QED
      BY <2>2, <3>4, <3>5, <3>6
  <2> QED
    BY <2>1, <2>2
<1> QED
  BY <1>1, <1>3, <1>4, <1>5, <1>6 DEF ExchangeInv, OneRequest

\* Every step keeps the invariant.
LEMMA InvStep == ExchangeInv /\ [Next]_vars => ExchangeInv'
<1> SUFFICES ASSUME ExchangeInv, [Next]_vars PROVE ExchangeInv'
  OBVIOUS
<1>1. CASE request' = request /\ pool' = pool /\ opening' = opening
  <2>1. SignedOK'
    BY <1>1 DEF ExchangeInv, SignedOK, WellSigned, AnswersTo, Draw, Sum256, signPayload, Sign
  <2>2. AnswersOwnRequest'
    BY <1>1, OpenedKept DEF ExchangeInv
  <2> QED
    BY <1>1, <2>1, <2>2 DEF ExchangeInv, OneRequest
<1>2. CASE Tick
  BY <1>1, <1>2 DEF Tick
<1>3. CASE UNCHANGED vars
  BY <1>1, <1>3 DEF vars
<1>4. CASE \E c \in Calls, id \in MessageIDs, challenge \in Challenges,
              seed \in {"clientSeed", "wrongLength"}, public \in Publics,
              ttl \in RequestTTLs :
             BuildRequest(c, id, challenge, seed, public, ttl)
  BY <1>4, BuildRequestKeeps
<1>5. CASE \E m \in pool, ttl \in ResponseTTLs, drift \in Drifts,
              deviation \in Deviations :
             Respond(m, ttl, drift, deviation)
  BY <1>5, RespondKeeps
<1>6. ASSUME NEW c \in Calls, NEW m \in pool, NEW skew \in Skews, NEW maxTTL \in MaxTTLs,
             \/ \E damage \in Damages : OpenResponse(c, Damaged(m, damage), skew, maxTTL)
             \/ \E other \in pool : OpenResponse(c, Spliced(m, other), skew, maxTTL)
      PROVE  ExchangeInv'
  <2>1. PICK x : Arrived(m, x) /\ OpenResponse(c, x, skew, maxTTL)
    BY <1>6, Zenon DEF Arrived
  <2> QED
    BY <2>1, OpenResponseKeeps
<1> QED
  BY <1>2, <1>3, <1>4, <1>5, <1>6 DEF Next

\* OpenResponse gives a call only the broker's answer to the bytes it sent,
\* for any number of calls, message ids, response keys and responses, with
\* messages delivered late, repeatedly, to another call or damaged.
THEOREM OpensOwnAnswer == Spec => []AnswersOwnRequest
<1>1. ExchangeInv => AnswersOwnRequest
  BY DEF ExchangeInv
<1> QED
  BY InvInit, InvStep, <1>1, PTL DEF Spec

-----------------------------------------------------------------------------
\* Types.

\* ExchangeTypeOK, and that the functions are functions on the calls.
ExchangeTypes ==
  /\ DOMAIN request = Calls /\ DOMAIN buildErr = Calls /\ DOMAIN opening = Calls
  /\ ExchangeTypeOK

LEMMA TypesInit == Init => ExchangeTypes
<1> SUFFICES ASSUME Init PROVE ExchangeTypes
  OBVIOUS
<1>1. DOMAIN request = Calls /\ DOMAIN buildErr = Calls /\ DOMAIN opening = Calls
  BY Zenon DEF Init
<1>2. now \in 0 .. MaxTime
  <2>1. now = 0
    BY Zenon DEF Init
  <2> QED
    BY <2>1, ExchangeAssumption
<1>3. \A c \in Calls : request[c] = {} /\ own[c] \in ResponseKeys
  BY Zenon DEF Init
<1>4. \A c \in Calls : opening[c].state = "none"
  BY DEF Init, NotTried
<1> QED
  BY <1>1, <1>2, <1>3, <1>4, Zenon DEF ExchangeTypes, ExchangeTypeOK

\* A step of BuildRequest either reports an error and sends nothing, or sends
\* a message and reports none.
LEMMA BuildRequestTypes ==
  ASSUME ExchangeTypes, NEW c \in Calls, NEW id, NEW challenge, NEW seed, NEW public,
         NEW ttl, BuildRequest(c, id, challenge, seed, public, ttl)
  PROVE  ExchangeTypes'
<1>1. PICK m, e :
        /\ request[c] = {} /\ buildErr[c] = ""
        /\ \/ buildErr' = [buildErr EXCEPT ![c] = e] /\ request' = request /\ pool' = pool
           \/ /\ request' = [request EXCEPT ![c] = {m}] /\ pool' = pool \cup {m}
              /\ buildErr' = buildErr
        /\ UNCHANGED <<now, own, answers, opening>>
  BY Zenon DEF BuildRequest
<1>2. DOMAIN request' = Calls /\ DOMAIN buildErr' = Calls
  BY <1>1, Zenon DEF ExchangeTypes
<1>3. \A d \in Calls : d # c => request'[d] = request[d] /\ buildErr'[d] = buildErr[d]
  BY <1>1, Zenon DEF ExchangeTypes
<1>4. buildErr'[c] # "" => request'[c] = {}
  BY <1>1, Zenon DEF ExchangeTypes
<1>5. request'[c] \subseteq pool' /\ pool \subseteq pool'
  BY <1>1 DEF ExchangeTypes
<1>6. opening[c].state = "none"
  BY <1>1, Zenon DEF ExchangeTypes, ExchangeTypeOK
<1>7. now' = now /\ own' = own /\ opening' = opening
  BY <1>1, Zenon
<1> QED
  BY <1>2, <1>3, <1>4, <1>5, <1>6, <1>7, Zenon DEF ExchangeTypes, ExchangeTypeOK

LEMMA OpenResponseTypes ==
  ASSUME ExchangeTypes, NEW c \in Calls, NEW x, NEW skew, NEW maxTTL,
         OpenResponse(c, x, skew, maxTTL)
  PROVE  ExchangeTypes'
<1>1. PICK o : opening' = [opening EXCEPT ![c] = o] /\ request[c] # {}
  BY Zenon DEF OpenResponse
<1>2. UNCHANGED <<now, request, buildErr, own, pool>>
  BY Zenon DEF OpenResponse
<1>3. DOMAIN opening' = Calls /\ \A d \in Calls : d # c => opening'[d] = opening[d]
  BY <1>1, Zenon DEF ExchangeTypes
<1> QED
  BY <1>1, <1>2, <1>3, Zenon DEF ExchangeTypes, ExchangeTypeOK

LEMMA TypesStep == ExchangeTypes /\ [Next]_vars => ExchangeTypes'
<1> SUFFICES ASSUME ExchangeTypes, [Next]_vars PROVE ExchangeTypes'
  OBVIOUS
<1>1. CASE UNCHANGED vars
  BY <1>1, Zenon DEF vars, ExchangeTypes, ExchangeTypeOK
<1>2. CASE Tick
  <2>1. now' \in 0 .. MaxTime
    <3>1. now \in 0 .. MaxTime
      BY Zenon DEF ExchangeTypes, ExchangeTypeOK
    <3> QED
      BY <1>2, <3>1, ExchangeAssumption DEF Tick
  <2> QED
    BY <1>2, <2>1, Zenon DEF Tick, ExchangeTypes, ExchangeTypeOK
<1>3. CASE \E c \in Calls, id \in MessageIDs, challenge \in Challenges,
              seed \in {"clientSeed", "wrongLength"}, public \in Publics,
              ttl \in RequestTTLs :
             BuildRequest(c, id, challenge, seed, public, ttl)
  BY <1>3, BuildRequestTypes, Zenon
<1>4. ASSUME NEW m \in pool, NEW ttl \in ResponseTTLs, NEW drift \in Drifts,
             NEW deviation \in Deviations, Respond(m, ttl, drift, deviation)
      PROVE  ExchangeTypes'
  <2>1. pool \subseteq pool'
    BY <1>4 DEF Respond
  <2>2. UNCHANGED <<now, request, buildErr, own, opening>>
    BY <1>4, Zenon DEF Respond
  <2> QED
    BY <2>1, <2>2, Zenon DEF ExchangeTypes, ExchangeTypeOK
<1>5. ASSUME NEW c \in Calls, NEW m \in pool, NEW skew \in Skews, NEW maxTTL \in MaxTTLs,
             \/ \E damage \in Damages : OpenResponse(c, Damaged(m, damage), skew, maxTTL)
             \/ \E other \in pool : OpenResponse(c, Spliced(m, other), skew, maxTTL)
      PROVE  ExchangeTypes'
  BY <1>5, OpenResponseTypes, Zenon
<1> QED
  BY <1>1, <1>2, <1>3, <1>4, <1>5, Zenon DEF Next

\* Every request a call holds was sent, a call whose BuildRequest failed holds
\* none, and only a call that holds one opens a response.
THEOREM ExchangeTyped == Spec => []ExchangeTypeOK
<1>1. ExchangeTypes => ExchangeTypeOK
  BY Zenon DEF ExchangeTypes
<1> QED
  BY TypesInit, TypesStep, <1>1, PTL DEF Spec

-----------------------------------------------------------------------------
\* Time.

\* The times of the broker's clock, their spans and their sums with the skew
\* are inside int64.
TimesFit ==
  \A t \in 0 .. MaxTime, drift \in Drifts, ttl \in ResponseTTLs :
    /\ -IntMax <= Unix(t + drift)
    /\ Unix(t + drift + ttl) - Unix(t + drift) <= IntMax
    /\ \A skew \in Skews :
         /\ Unix(OrDefault(skew, DefaultSkew)) <= IntMax
         /\ Unix(t + drift + ttl) + Unix(OrDefault(skew, DefaultSkew)) <= IntMax

\* No response claims times at the ends of int64, where the span of
\* validateResponseClaims wraps around, see SpanWithinMaxTTL.
NoExtremeTimes == "extremeTimes" \notin Deviations

\* Seconds round down.
LEMMA UnixBounds ==
  ASSUME NEW t \in Int
  PROVE  /\ Unix(t) \in Int
         /\ Unix(t) * TicksPerSecond <= t
         /\ t < (Unix(t) + 1) * TicksPerSecond
  BY TimeAssumption DEF Unix

LEMMA ModSmall ==
  ASSUME NEW a \in Nat, NEW n \in Nat \ {0}, a < n
  PROVE  a % n = a
  BY SMTT(30)

\* What fits in an int64 does not wrap around.
LEMMA WrapSmall ==
  ASSUME NEW x \in Int, -IntMax - 1 <= x, x <= IntMax
  PROVE  Wrap(x) = x
<1>1. IntMax \in Nat
  BY TimeAssumption
<1> DEFINE a == x + IntMax + 1
           n == 2 * (IntMax + 1)
<1>2. a \in Nat /\ n \in Nat \ {0} /\ a < n
  BY <1>1
<1>3. a % n = a
  <2> HIDE DEF a, n
  <2> QED
    BY <1>2, ModSmall
<1> QED
  BY <1>1, <1>3 DEF Wrap

\* The claims' times pass validateResponseClaims.
TimesPass(iat, exp, t, skew, maxTTL) ==
  /\ ~(exp <= iat)
  /\ ~(Wrap(exp - iat) > Unix(maxTTL))
  /\ ~(Unix(t) > Wrap(exp + Unix(skew)))

\* A response whose times pass is not older than the span and the skew.
LEMMA PassingIsRecent ==
  ASSUME NEW iat \in Int, NEW exp \in Int, NEW t \in Int, NEW at \in Int,
         NEW drift \in Int, NEW skew \in Nat, NEW maxTTL \in Nat,
         iat = Unix(at + drift), -IntMax <= iat, exp - iat <= IntMax,
         exp + Unix(skew) <= IntMax, TimesPass(iat, exp, t, skew, maxTTL)
  PROVE  t - at < drift + (Unix(maxTTL) + Unix(skew) + 1) * TicksPerSecond
<1>1. IntMax \in Nat /\ TicksPerSecond \in Nat \ {0}
  BY TimeAssumption
<1>2. Unix(skew) \in Nat /\ Unix(maxTTL) \in Int
  BY <1>1 DEF Unix
<1>3. Wrap(exp - iat) = exp - iat
  BY <1>1, WrapSmall DEF TimesPass
<1>4. Wrap(exp + Unix(skew)) = exp + Unix(skew)
  BY <1>1, <1>2, WrapSmall DEF TimesPass
<1>5. Unix(t) <= iat + Unix(maxTTL) + Unix(skew)
  <2>1. Unix(t) \in Int
    BY UnixBounds
  <2> QED
    BY <1>2, <1>3, <1>4, <2>1 DEF TimesPass
<1>6. Unix(t) \in Int /\ t < (Unix(t) + 1) * TicksPerSecond
  BY UnixBounds
<1>7. iat * TicksPerSecond <= at + drift
  BY UnixBounds
<1> DEFINE span == Unix(maxTTL) + Unix(skew) + 1
           ut == Unix(t)
<1>8. span \in Int /\ ut \in Int /\ ut + 1 <= iat + span
  BY <1>2, <1>5, <1>6
<1>9. t < (ut + 1) * TicksPerSecond
  BY <1>6
<1> HIDE DEF span, ut
<1>10. (ut + 1) * TicksPerSecond <= (iat + span) * TicksPerSecond
  BY <1>1, <1>8
<1>11. (iat + span) * TicksPerSecond = iat * TicksPerSecond + span * TicksPerSecond
  BY <1>1, <1>8
<1>12. t - at < drift + span * TicksPerSecond
  BY <1>1, <1>7, <1>8, <1>9, <1>10, <1>11
<1> QED
  BY <1>12 DEF span

\* Response n of the broker, with the times it was given.
TimedAs(m, n) ==
  /\ Draw(m) = ResponseDraw(n)
  /\ m.payload.protected.iat = {Unix(answers[n].at + answers[n].drift)}
  /\ m.payload.protected.exp
       \in {{}, {Unix(answers[n].at + answers[n].drift + answers[n].ttl)}}

\* The circumstances of a response.
Circumstances ==
  [request : {Draw(m) : m \in pool}, at : 0 .. MaxTime, ttl : ResponseTTLs,
   drift : Drifts, deviation : Deviations]

\* How long ago call c's response n may have been given.
InTime(c, n) ==
  opening[c].at - answers[n].at <
    answers[n].drift + (Unix(OrDefault(opening[c].maxTTL, DefaultMaxTTL))
                        + Unix(OrDefault(opening[c].skew, DefaultSkew)) + 1)
                       * TicksPerSecond

\* What is opened is a response that was given in time.
OpenedInTime ==
  \A c \in Calls : opening[c].state = "opened" =>
    \E n \in DOMAIN answers : Draw(opening[c].message) = ResponseDraw(n) /\ InTime(c, n)

\* What the broker signed states the time it was signed.
SignedTimes ==
  \A m \in pool : m.signature.by = "brokerSeed" =>
    \E n \in DOMAIN answers : TimedAs(m, n)

RecentInv ==
  /\ now \in 0 .. MaxTime
  /\ DOMAIN opening = Calls
  /\ answers \in Seq(Circumstances)
  /\ SignedOK
  /\ SignedTimes
  /\ OpenedInTime

\* Responses have different draws.
LEMMA DrawInjective ==
  ASSUME NEW n, NEW k, ResponseDraw(n) = ResponseDraw(k)
  PROVE  n = k
<1>1. <<<<"response", n>>>> = <<<<"response", k>>>>
  BY DEF ResponseDraw
<1>2. <<"response", n>> = <<"response", k>>
  BY <1>1
<1> QED
  BY <1>2

\* What is opened in time is recent.
LEMMA InTimeIsRecent == OpenedInTime => AnswersAreRecent
<1> SUFFICES ASSUME OpenedInTime, NEW c \in Calls, NEW n \in DOMAIN answers,
                    OpenedAnswer(c, n)
             PROVE  InTime(c, n)
  BY DEF AnswersAreRecent, InTime
<1>1. PICK k \in DOMAIN answers : Draw(opening[c].message) = ResponseDraw(k) /\ InTime(c, k)
  BY Zenon DEF OpenedInTime, OpenedAnswer
<1>2. n = k
  BY <1>1, DrawInjective, Zenon DEF OpenedAnswer
<1> QED
  BY <1>1, <1>2

\* What the broker builds carries its own draw.
LEMMA ResponseDrawn ==
  ASSUME NEW m, NEW key, NEW ttl, NEW drift, NEW deviation,
         NEW r, r = ResponseTo(m, key, ttl, drift, deviation)
  PROVE  Draw(r) = ResponseDraw(Len(answers) + 1)
<1> DEFINE seed == IF deviation = "otherSigner" THEN "otherSeed" ELSE "brokerSeed"
           header == DeviateHeader(encryptProtected("response", ResponseClaims(m, ttl, drift)),
                                   deviation)
           draw == <<"response", Len(answers) + 1>>
           pt == [answerTo |-> Draw(m), from |-> seed]
           inner == sealEncrypt(header, pt, key, SealedTo(key, deviation), draw)
           payload == DeviatePayload(inner, deviation)
<1>1. r = signPayload(payload, {"broker.signing"}, seed)
  BY DEF ResponseTo
<1> HIDE DEF header, pt
<1>2. inner.ciphertext.nonce = <<draw>>
      /\ DOMAIN inner = {"tag", "protected", "iv", "ciphertext", "recipients"}
  BY DEF sealEncrypt
<1> HIDE DEF inner, draw
<1>3. payload.ciphertext.nonce = <<draw>>
  BY <1>2 DEF DeviatePayload
<1> HIDE DEF payload
<1>4. r.payload = payload
  BY <1>1, SignPayloadFields
<1> QED
  BY <1>3, <1>4 DEF Draw, ResponseDraw, draw

\* What the broker builds carries the times it was given.
LEMMA ResponseTimes ==
  ASSUME NEW m, NEW key, NEW ttl, NEW drift, NEW deviation, deviation # "extremeTimes",
         NEW r, r = ResponseTo(m, key, ttl, drift, deviation)
  PROVE  /\ r.payload.protected.iat = {Unix(now + drift)}
         /\ r.payload.protected.exp \in {{}, {Unix(now + drift + ttl)}}
<1> DEFINE seed == IF deviation = "otherSigner" THEN "otherSeed" ELSE "brokerSeed"
           claims == ResponseClaims(m, ttl, drift)
           plain == encryptProtected("response", claims)
           header == DeviateHeader(plain, deviation)
           draw == <<"response", Len(answers) + 1>>
           pt == [answerTo |-> Draw(m), from |-> seed]
           inner == sealEncrypt(header, pt, key, SealedTo(key, deviation), draw)
           payload == DeviatePayload(inner, deviation)
<1>1. r = signPayload(payload, {"broker.signing"}, seed)
  BY DEF ResponseTo
<1>2. claims.issuedAt = Unix(now + drift) /\ claims.expiresAt = Unix(now + drift + ttl)
  BY DEF ResponseClaims
<1> HIDE DEF claims
<1>3. plain.iat = {Unix(now + drift)} /\ plain.exp \in {{}, {Unix(now + drift + ttl)}}
  BY <1>2 DEF encryptProtected
<1> HIDE DEF plain
<1>4. header.iat = plain.iat /\ header.exp \in {{}, plain.exp}
  BY DEF DeviateHeader
<1> HIDE DEF header, draw, pt
<1>5. inner.protected = header
  BY DEF sealEncrypt
<1>6. DOMAIN inner = {"tag", "protected", "iv", "ciphertext", "recipients"}
  BY DEF sealEncrypt
<1> HIDE DEF inner
<1>7. payload.protected = header
  BY <1>5, <1>6 DEF DeviatePayload
<1> HIDE DEF payload
<1>8. r.payload = payload
  BY <1>1, SignPayloadFields
<1> QED
  BY <1>3, <1>4, <1>7, <1>8

\* The circumstances grow with the network.
LEMMA CircumstancesGrow ==
  ASSUME answers \in Seq(Circumstances), pool \subseteq pool'
  PROVE  answers \in Seq(Circumstances')
<1>1. Circumstances \subseteq Circumstances'
  BY DEF Circumstances, Draw
<1> QED
  BY <1>1

\* A step that gives no answer and opens nothing.
LEMMA RecentKept ==
  ASSUME RecentInv, now' \in 0 .. MaxTime, SignedOK', pool \subseteq pool',
         \A m \in pool' : m \in pool \/ m.signature.by # "brokerSeed",
         answers' = answers, opening' = opening
  PROVE  RecentInv'
<1>1. answers' \in Seq(Circumstances)'
  BY CircumstancesGrow DEF RecentInv
<1>2. SignedTimes'
  <2> SUFFICES ASSUME NEW m \in pool, m.signature.by = "brokerSeed"
               PROVE  \E n \in DOMAIN answers : TimedAs(m, n)'
    BY Zenon DEF SignedTimes
  <2>1. PICK n \in DOMAIN answers : TimedAs(m, n)
    BY Zenon DEF RecentInv, SignedTimes
  <2> QED
    BY <2>1, Zenon DEF TimedAs, Draw, ResponseDraw, Unix
<1>3. OpenedInTime'
  <2>1. OpenedInTime
    BY Zenon DEF RecentInv
  <2> QED
    BY <2>1, Zenon DEF OpenedInTime, InTime, Draw, ResponseDraw, Unix, OrDefault
<1> QED
  BY <1>1, <1>2, <1>3, Zenon DEF RecentInv

\* The broker's response is the next one, with the times of this moment.
LEMMA RespondRecent ==
  ASSUME NoExtremeTimes, RecentInv, SignedOK', NEW m \in pool, NEW ttl \in ResponseTTLs,
         NEW drift \in Drifts, NEW deviation \in Deviations, Respond(m, ttl, drift, deviation)
  PROVE  RecentInv'
<1> DEFINE a == [request |-> Draw(m), at |-> now, ttl |-> ttl, drift |-> drift,
                 deviation |-> deviation]
<1>1. answers' = Append(answers, a) /\ UNCHANGED <<now, opening>>
  BY DEF Respond
<1>2. PICK key : pool' = pool \cup {ResponseTo(m, key, ttl, drift, deviation)}
  BY DEF Respond
<1>3. PICK r : r = ResponseTo(m, key, ttl, drift, deviation)
  OBVIOUS
<1>4. pool' = pool \cup {r}
  BY <1>2, <1>3
<1>5. a \in Circumstances
  <2>1. now \in 0 .. MaxTime
    BY Zenon DEF RecentInv
  <2> QED
    BY <2>1 DEF Circumstances
<1>6. answers \in Seq(Circumstances')
  BY <1>4, CircumstancesGrow DEF RecentInv
<1>7. a \in Circumstances'
  <2>1. Circumstances \subseteq Circumstances'
    BY <1>4 DEF Circumstances, Draw
  <2> QED
    BY <1>5, <2>1
<1> DEFINE S == Circumstances'
<1>8. answers \in Seq(S) /\ a \in S /\ answers' = Append(answers, a)
  BY <1>1, <1>6, <1>7
<1> HIDE DEF S, a
<1>9. /\ answers' \in Seq(S)
      /\ DOMAIN answers \subseteq DOMAIN answers'
      /\ \A n \in DOMAIN answers : answers'[n] = answers[n]
      /\ Len(answers) + 1 \in DOMAIN answers'
      /\ answers'[Len(answers) + 1] = a
  BY <1>8
<1>10. SignedTimes'
  <2> SUFFICES ASSUME NEW x \in pool', x.signature.by = "brokerSeed"
               PROVE  \E n \in DOMAIN answers' : TimedAs(x, n)'
    BY Zenon DEF SignedTimes
  <2>1. CASE x \in pool
    <3>1. PICK n \in DOMAIN answers : TimedAs(x, n)
      BY <2>1, Zenon DEF RecentInv, SignedTimes
    <3>2. n \in DOMAIN answers' /\ answers'[n] = answers[n]
      BY <1>9
    <3> QED
      BY <3>1, <3>2, Zenon DEF TimedAs, Draw, ResponseDraw, Unix
  <2>2. CASE x = r
    <3>0. PICK n : n = Len(answers) + 1
      OBVIOUS
    <3>1. deviation # "extremeTimes"
      BY DEF NoExtremeTimes
    <3>2. /\ Draw(r) = ResponseDraw(n)
          /\ r.payload.protected.iat = {Unix(now + drift)}
          /\ r.payload.protected.exp \in {{}, {Unix(now + drift + ttl)}}
      BY <1>3, <3>0, <3>1, ResponseDrawn, ResponseTimes
    <3>3. a.at = now /\ a.drift = drift /\ a.ttl = ttl
      BY DEF a
    <3>4. n \in DOMAIN answers' /\ answers'[n] = a
      BY <1>9, <3>0
    <3>5. TimedAs(r, n)'
      BY <3>2, <3>3, <3>4 DEF TimedAs, Draw, ResponseDraw, Unix
    <3> QED
      BY <2>2, <3>4, <3>5, Zenon
  <2> QED
    BY <1>4, <2>1, <2>2
<1>11. OpenedInTime'
  <2> SUFFICES ASSUME NEW c \in Calls, opening[c].state = "opened"
               PROVE  \E n \in DOMAIN answers' :
                        Draw(opening[c].message)' = ResponseDraw(n)' /\ InTime(c, n)'
    BY <1>1, Zenon DEF OpenedInTime
  <2>1. PICK n \in DOMAIN answers :
          Draw(opening[c].message) = ResponseDraw(n) /\ InTime(c, n)
    BY Zenon DEF RecentInv, OpenedInTime
  <2>2. n \in DOMAIN answers' /\ answers'[n] = answers[n]
    BY <1>9
  <2> QED
    BY <1>1, <2>1, <2>2, Zenon DEF InTime, Draw, ResponseDraw, Unix, OrDefault
<1>12. now' \in 0 .. MaxTime /\ DOMAIN opening' = Calls
  BY <1>1, Zenon DEF RecentInv
<1> QED
  BY <1>9, <1>10, <1>11, <1>12 DEF RecentInv, S

\* What OpenResponse accepts has passed the checks on its times.
LEMMA AcceptedPasses ==
  ASSUME NEW c, NEW sent, NEW x, NEW skew, NEW maxTTL, NEW claims,
         claims = parseEncryptProtected(x.payload.protected),
         Accepts(c, sent, x, skew, maxTTL)
  PROVE  TimesPass(claims.issuedAt, claims.expiresAt, now,
                   OrDefault(skew, DefaultSkew), OrDefault(maxTTL, DefaultMaxTTL))
<1> DEFINE s == OrDefault(skew, DefaultSkew)
           l == OrDefault(maxTTL, DefaultMaxTTL)
<1>1. validateResponseClaims(claims, now, s, l) = ""
  BY DEF Accepts, Verdict, OpenResponseError
<1> HIDE DEF s, l
<1>2. /\ ~(claims.expiresAt <= claims.issuedAt)
      /\ ~(Wrap(claims.expiresAt - claims.issuedAt) > Unix(l))
      /\ ~(Unix(now) > Wrap(claims.expiresAt + Unix(s)))
  BY <1>1 DEF validateResponseClaims
<1> QED
  BY <1>2, Zenon DEF TimesPass, s, l

\* What a call opens was given in time.
LEMMA AcceptedInTime ==
  ASSUME TimesFit, RecentInv, NEW c \in Calls, NEW sent, NEW m \in pool, NEW x,
         NEW skew \in Skews, NEW maxTTL \in MaxTTLs, Arrived(m, x),
         Accepts(c, sent, x, skew, maxTTL)
  PROVE  \E n \in DOMAIN answers :
           /\ Draw(x) = ResponseDraw(n)
           /\ now - answers[n].at <
                answers[n].drift + (Unix(OrDefault(maxTTL, DefaultMaxTTL))
                                    + Unix(OrDefault(skew, DefaultSkew)) + 1)
                                   * TicksPerSecond
<1>1. x \in pool /\ x.signature.by = "brokerSeed"
  <2>1. SignedOK
    BY Zenon DEF RecentInv
  <2>2. IsAnswer(x, sent)
    BY ONLY <2>1, m \in pool, Arrived(m, x), Accepts(c, sent, x, skew, maxTTL),
            AcceptedIsAnswer
  <2> QED
    BY ONLY <2>2 DEF IsAnswer
<1>2. PICK n \in DOMAIN answers : TimedAs(x, n)
  BY <1>1, Zenon DEF RecentInv, SignedTimes
<1>3. answers[n] \in Circumstances
  <2>1. answers \in Seq(Circumstances)
    BY Zenon DEF RecentInv
  <2> QED
    BY <2>1
<1>4. answers[n].at \in 0 .. MaxTime /\ answers[n].drift \in Drifts
      /\ answers[n].ttl \in ResponseTTLs
  BY <1>3 DEF Circumstances
<1>5. PICK at, drift, ttl :
        at = answers[n].at /\ drift = answers[n].drift /\ ttl = answers[n].ttl
  OBVIOUS
<1>6. at \in 0 .. MaxTime /\ drift \in Drifts /\ ttl \in ResponseTTLs
  BY <1>4, <1>5
<1>7. at \in Int /\ drift \in Int /\ ttl \in Int
  BY <1>6, ExchangeAssumption
<1> DEFINE s == OrDefault(skew, DefaultSkew)
           l == OrDefault(maxTTL, DefaultMaxTTL)
           claims == parseEncryptProtected(x.payload.protected)
           iat == claims.issuedAt
           exp == claims.expiresAt
<1>8. s \in Nat /\ l \in Nat
  BY ExchangeAssumption, TimeAssumption DEF OrDefault
<1>9. iat = Unix(at + drift)
  BY <1>2, <1>5 DEF TimedAs, parseEncryptProtected
<1>10. exp \in {0, Unix(at + drift + ttl)}
  BY <1>2, <1>5 DEF TimedAs, parseEncryptProtected
<1>11. TimesPass(iat, exp, now, s, l)
  BY AcceptedPasses
<1>12. iat \in Int /\ Unix(at + drift + ttl) \in Int /\ exp \in Int
  <2>1. at + drift \in Int /\ at + drift + ttl \in Int
    BY <1>7
  <2> QED
    BY <1>9, <1>10, <2>1, UnixBounds
<1>13. /\ -IntMax <= Unix(at + drift)
       /\ Unix(at + drift + ttl) - Unix(at + drift) <= IntMax
       /\ Unix(s) <= IntMax
       /\ Unix(at + drift + ttl) + Unix(s) <= IntMax
  BY <1>6 DEF TimesFit
<1>14. now \in Int
  BY DEF RecentInv
<1>15. Draw(x) = ResponseDraw(n)
  BY <1>2 DEF TimedAs
<1>16. Unix(s) \in Int
  BY <1>8, UnixBounds
<1> HIDE DEF s, l, claims, iat, exp
<1>17. -IntMax <= iat /\ exp - iat <= IntMax /\ exp + Unix(s) <= IntMax
  BY <1>9, <1>10, <1>12, <1>13, <1>16, TimeAssumption
<1>18. now - at < drift + (Unix(l) + Unix(s) + 1) * TicksPerSecond
  BY <1>7, <1>8, <1>9, <1>11, <1>12, <1>14, <1>17, PassingIsRecent
<1> QED
  BY <1>5, <1>15, <1>18 DEF s, l

\* OpenResponse stores what it accepts, which was given in time.
LEMMA OpenResponseRecent ==
  ASSUME TimesFit, RecentInv, SignedOK', NEW c \in Calls, NEW m \in pool, NEW x,
         NEW skew \in Skews, NEW maxTTL \in MaxTTLs, Arrived(m, x),
         OpenResponse(c, x, skew, maxTTL)
  PROVE  RecentInv'
<1>1. UNCHANGED <<now, pool, answers>>
  BY Zenon DEF OpenResponse
<1>2. PICK sent \in request[c] :
        \/ opening' = [opening EXCEPT ![c] = Refused]
        \/ /\ Accepts(c, sent, x, skew, maxTTL)
           /\ opening' = [opening EXCEPT ![c] =
                [state |-> "opened", message |-> x, at |-> now, skew |-> skew,
                 maxTTL |-> maxTTL]]
  BY DEF OpenResponse, Accepts
<1>3. /\ DOMAIN opening' = Calls
      /\ \A d \in Calls : d # c => opening'[d] = opening[d]
  BY <1>2, Zenon DEF RecentInv
<1>4. OpenedInTime'
  <2> SUFFICES ASSUME NEW d \in Calls, opening'[d].state = "opened"
               PROVE  \E n \in DOMAIN answers :
                        Draw(opening'[d].message) = ResponseDraw(n) /\ InTime(d, n)'
    BY <1>1, Zenon DEF OpenedInTime, Draw, ResponseDraw
  <2>1. CASE d # c
    <3>1. PICK n \in DOMAIN answers :
            Draw(opening[d].message) = ResponseDraw(n) /\ InTime(d, n)
      BY <1>3, <2>1, Zenon DEF RecentInv, OpenedInTime
    <3> QED
      BY <1>1, <1>3, <2>1, <3>1, Zenon DEF InTime, Unix, OrDefault
  <2>2. CASE d = c
    <3>1. Refused.state # "opened"
      BY DEF Refused
    <3>2. opening' # [opening EXCEPT ![c] = Refused]
      BY <2>2, <3>1 DEF RecentInv
    <3>3. /\ Accepts(c, sent, x, skew, maxTTL)
          /\ opening' = [opening EXCEPT ![c] =
               [state |-> "opened", message |-> x, at |-> now, skew |-> skew,
                maxTTL |-> maxTTL]]
      BY ONLY <1>2, <3>2
    <3>4. /\ opening'[c].message = x /\ opening'[c].at = now
          /\ opening'[c].skew = skew /\ opening'[c].maxTTL = maxTTL
      BY <3>3 DEF RecentInv
    <3>5. PICK n \in DOMAIN answers :
            /\ Draw(x) = ResponseDraw(n)
            /\ now - answers[n].at <
                 answers[n].drift + (Unix(OrDefault(maxTTL, DefaultMaxTTL))
                                     + Unix(OrDefault(skew, DefaultSkew)) + 1)
                                    * TicksPerSecond
      BY <3>3, AcceptedInTime
    <3> QED
      BY <1>1, <2>2, <3>4, <3>5, Zenon DEF InTime, Unix, OrDefault
  <2> QED
    BY <2>1, <2>2
<1>5. answers' \in Seq(Circumstances)' /\ SignedTimes' /\ now' \in 0 .. MaxTime
  BY <1>1, Zenon DEF RecentInv, SignedTimes, TimedAs, Circumstances, Draw, ResponseDraw, Unix
<1> QED
  BY <1>3, <1>4, <1>5, Zenon DEF RecentInv

LEMMA RecentInit == Init => RecentInv
<1> SUFFICES ASSUME Init PROVE RecentInv
  OBVIOUS
<1>1. now = 0 /\ pool = {} /\ answers = <<>> /\ DOMAIN opening = Calls
  BY Zenon DEF Init
<1>2. \A c \in Calls : opening[c].state = "none"
  BY DEF Init, NotTried
<1>3. now \in 0 .. MaxTime /\ answers \in Seq(Circumstances)
  BY <1>1, ExchangeAssumption
<1> QED
  BY <1>1, <1>2, <1>3 DEF RecentInv, SignedOK, SignedTimes, OpenedInTime

LEMMA RecentStep ==
  ASSUME TimesFit, NoExtremeTimes, ExchangeInv', RecentInv, [Next]_vars
  PROVE  RecentInv'
<1>1. SignedOK'
  BY Zenon DEF ExchangeInv
<1>2. CASE UNCHANGED vars \/ Tick
  <2>1. UNCHANGED <<pool, answers, opening>>
    BY <1>2, Zenon DEF vars, Tick
  <2>2. now' \in 0 .. MaxTime
    BY <1>2, ExchangeAssumption DEF vars, Tick, RecentInv
  <2> QED
    BY <1>1, <2>1, <2>2, RecentKept
<1>3. ASSUME NEW c \in Calls, NEW id \in MessageIDs, NEW challenge \in Challenges,
             NEW seed \in {"clientSeed", "wrongLength"}, NEW public \in Publics,
             NEW ttl \in RequestTTLs,
             BuildRequest(c, id, challenge, seed, public, ttl)
      PROVE  RecentInv'
  <2>1. PICK m : m = buildSealed("request", [askedBy |-> c],
                                 RequestClaims(c, id, challenge, ttl),
                                 "client.signing", seed, "request.sealing",
                                 X25519Public("broker"), <<"request", c>>)
    OBVIOUS
  <2>2. pool' = pool \/ pool' = pool \cup {m}
    BY <1>3, <2>1, Zenon DEF BuildRequest
  <2>3. m.signature.by = seed
    BY <2>1, SignPayloadFields DEF buildSealed
  <2>4. UNCHANGED <<now, answers, opening>>
    BY <1>3, Zenon DEF BuildRequest
  <2>5. seed # "brokerSeed"
    OBVIOUS
  <2>6. pool \subseteq pool' /\ \A n \in pool' : n \in pool \/ n.signature.by # "brokerSeed"
    BY <2>2, <2>3, <2>5
  <2>7. now' \in 0 .. MaxTime
    BY <2>4, Zenon DEF RecentInv
  <2> QED
    BY <1>1, <2>4, <2>6, <2>7, RecentKept
<1>4. ASSUME NEW m \in pool, NEW ttl \in ResponseTTLs, NEW drift \in Drifts,
             NEW deviation \in Deviations, Respond(m, ttl, drift, deviation)
      PROVE  RecentInv'
  BY <1>1, <1>4, RespondRecent
<1>5. ASSUME NEW c \in Calls, NEW m \in pool, NEW skew \in Skews, NEW maxTTL \in MaxTTLs,
             \/ \E damage \in Damages : OpenResponse(c, Damaged(m, damage), skew, maxTTL)
             \/ \E other \in pool : OpenResponse(c, Spliced(m, other), skew, maxTTL)
      PROVE  RecentInv'
  <2>1. PICK x : Arrived(m, x) /\ OpenResponse(c, x, skew, maxTTL)
    BY <1>5, Zenon DEF Arrived
  <2> QED
    BY <1>1, <2>1, OpenResponseRecent
<1> QED
  BY <1>2, <1>3, <1>4, <1>5, Zenon DEF Next

\* What a call opens was answered at most MaxTTL and MaxClockSkew ago, up to
\* the broker's clock error and a second of rounding, for any clocks, spans
\* and skews whose sums stay inside int64: no replay outlives them.
THEOREM OpensOnlyRecent ==
  ASSUME TimesFit, NoExtremeTimes
  PROVE  Spec => []AnswersAreRecent
<1>1. Init => ExchangeInv /\ RecentInv
  BY InvInit, RecentInit
<1>2. (ExchangeInv /\ RecentInv) /\ [Next]_vars => (ExchangeInv /\ RecentInv)'
  BY InvStep, RecentStep
<1>3. RecentInv => AnswersAreRecent
  BY InTimeIsRecent DEF RecentInv
<1> QED
  BY <1>1, <1>2, <1>3, PTL DEF Spec

-----------------------------------------------------------------------------
\* Honest answers are opened.

\* The client's clock and the skew are inside int64.
ClockFits ==
  \A t \in 0 .. MaxTime, skew \in Skews :
    Unix(t) + Unix(OrDefault(skew, DefaultSkew)) <= IntMax

\* Calls bring X25519 keys of the right length.
KeysOfLength == "wrongLength" \notin ResponseKeys

RequestDraw(c) == <<<<"request", c>>>>

\* The claims of a response to r in the circumstances a.
HonestClaims(r, a) ==
  [issuedAt |-> Unix(a.at + a.drift), expiresAt |-> Unix(a.at + a.drift + a.ttl),
   messageID |-> "response",
   opt |-> [inReplyTo |-> {parseEncryptProtected(r.payload.protected).messageID},
            requestHash |-> {Sum256(r)}, senderKeyID |-> {"broker.signing"},
            responseKeyID |-> {}, responseSubject |-> {}, freshnessChallenge |-> {}]]

\* Response n, to r, sealed to key, of a broker that keeps to the profile.
HonestResponse(r, key, n, a) ==
  signPayload(sealEncrypt(encryptProtected("response", HonestClaims(r, a)),
                          [answerTo |-> Draw(r), from |-> "brokerSeed"], key,
                          X25519Public(key), <<"response", n>>),
              {"broker.signing"}, "brokerSeed")

\* Message m is a request of a call.
IsRequest(m) == \E c \in Calls : Draw(m) = RequestDraw(c) /\ m \in request[c]

\* Message m is response n, and if that is honest, what the profile says.
IsResponse(m, n) ==
  /\ Draw(m) = ResponseDraw(n)
  /\ answers[n].deviation = "none" =>
       \E r \in pool : \E key \in r.payload.protected.opt.responseKeyID :
         answers[n].request = Draw(r) /\ m = HonestResponse(r, key, n, answers[n])

\* Every message of the network is a request or a response.
Known == \A m \in pool : IsRequest(m) \/ \E n \in DOMAIN answers : IsResponse(m, n)

\* A call's request has the call's draw and names the call's response key.
OwnRequests ==
  \A c \in Calls : \A sent \in request[c] :
    Draw(sent) = RequestDraw(c) /\ sent.payload.protected.opt.responseKeyID = {own[c]}

HonestInv ==
  /\ now \in 0 .. MaxTime
  /\ answers \in Seq(Circumstances)
  /\ \A n \in DOMAIN answers : answers[n].at <= now
  /\ DOMAIN request = Calls
  /\ \A c \in Calls : own[c] \in ResponseKeys
  /\ OneRequest
  /\ OwnRequests
  /\ Known

\* Seconds of a sum, and of two times in order.
LEMMA UnixMono ==
  ASSUME NEW a \in Int, NEW b \in Int, NEW k \in Int, a <= b + k * TicksPerSecond
  PROVE  Unix(a) <= Unix(b) + k
<1> DEFINE ua == Unix(a)
           ub == Unix(b)
           T == TicksPerSecond
<1>1. ua \in Int /\ ub \in Int /\ T \in Nat \ {0}
  BY UnixBounds, TimeAssumption
<1>2. ua * T <= a /\ b < (ub + 1) * T
  BY UnixBounds
<1> HIDE DEF ua, ub
<1>3. ua * T < (ub + 1) * T + k * T
  BY <1>1, <1>2
<1>4. (ub + 1) * T + k * T = (ub + 1 + k) * T
  BY <1>1
<1>5. ASSUME ua >= ub + 1 + k PROVE FALSE
  <2>1. ua * T >= (ub + 1 + k) * T
    BY <1>1, <1>5
  <2> QED
    BY <1>1, <1>3, <1>4, <2>1
<1> QED
  BY <1>1, <1>5 DEF ua, ub

\* The times of an honest answer pass validateResponseClaims.
LEMMA HonestTimesPass ==
  ASSUME NEW t \in Nat, NEW at \in Int, NEW drift \in Int, NEW ttl \in Nat,
         NEW skew \in Nat, NEW maxTTL \in Nat,
         at <= t, t <= at + ttl, ttl >= TicksPerSecond,
         ttl <= Unix(maxTTL) * TicksPerSecond,
         drift <= Unix(skew) * TicksPerSecond, -drift <= Unix(skew) * TicksPerSecond,
         -IntMax <= Unix(at + drift),
         Unix(at + drift + ttl) - Unix(at + drift) <= IntMax,
         Unix(at + drift + ttl) + Unix(skew) <= IntMax,
         Unix(t) + Unix(skew) <= IntMax
  PROVE  /\ ~(Unix(at + drift) > Wrap(Unix(t) + Unix(skew)))
         /\ TimesPass(Unix(at + drift), Unix(at + drift + ttl), t, skew, maxTTL)
<1> DEFINE T == TicksPerSecond
           iat == Unix(at + drift)
           exp == Unix(at + drift + ttl)
           ut == Unix(t)
           us == Unix(skew)
           um == Unix(maxTTL)
<1>1. IntMax \in Nat /\ T \in Nat \ {0}
  BY TimeAssumption
<1>2. iat \in Int /\ exp \in Int /\ ut \in Nat /\ us \in Nat /\ um \in Nat
  BY <1>1, UnixBounds DEF Unix
<1>3. iat <= ut + us
  <2>1. at + drift <= t + us * T
    BY <1>1, <1>2
  <2> QED
    BY <1>2, <2>1, UnixMono
<1>4. iat <= exp + (-1)
  <2>1. at + drift <= (at + drift + ttl) + (-1) * T
    BY <1>1
  <2>2. at + drift + ttl \in Int /\ at + drift \in Int
    OBVIOUS
  <2> QED
    BY <1>2, <2>1, <2>2, UnixMono
<1>5. exp <= iat + um
  <2>1. at + drift + ttl <= (at + drift) + um * T
    BY <1>1, <1>2
  <2> QED
    BY <1>2, <2>1, UnixMono
<1>6. ut <= exp + us
  <2>1. t <= (at + drift + ttl) + us * T
    BY <1>1, <1>2
  <2>2. at + drift + ttl \in Int
    OBVIOUS
  <2> QED
    BY <1>2, <2>1, <2>2, UnixMono
<1>7. -IntMax <= iat /\ exp - iat <= IntMax /\ exp + us <= IntMax /\ ut + us <= IntMax
  OBVIOUS
<1> SUFFICES ~(iat > Wrap(ut + us)) /\ ~(exp <= iat) /\ ~(Wrap(exp - iat) > um)
             /\ ~(ut > Wrap(exp + us))
  BY DEF TimesPass
<1> HIDE DEF iat, exp, ut, us, um
<1>8. Wrap(ut + us) = ut + us
  BY <1>1, <1>2, <1>7, WrapSmall
<1>9. Wrap(exp - iat) = exp - iat
  BY <1>1, <1>2, <1>4, <1>7, WrapSmall
<1>10. Wrap(exp + us) = exp + us
  BY <1>1, <1>2, <1>4, <1>7, WrapSmall
<1> QED
  BY <1>2, <1>3, <1>4, <1>5, <1>6, <1>8, <1>9, <1>10

\* What the decoder reads back of claims that encryptProtected encoded.
LEMMA ParsedClaims ==
  ASSUME NEW claims, NEW p, p = encryptProtected("response", claims)
  PROVE  /\ parseEncryptProtected(p).issuedAt = claims.issuedAt
         /\ parseEncryptProtected(p).expiresAt = claims.expiresAt
         /\ parseEncryptProtected(p).opt = claims.opt
         /\ p.alg = "A256GCM" /\ p.content = "response" /\ p.iat = {claims.issuedAt}
         /\ p.cti = {claims.messageID} /\ p.crit = critLabels(claims.opt)
         /\ p.opt = claims.opt
<1>1. /\ p.iat = {claims.issuedAt} /\ p.opt = claims.opt
      /\ p.exp = IF claims.expiresAt # 0 THEN {claims.expiresAt} ELSE {}
      /\ p.alg = "A256GCM" /\ p.content = "response"
      /\ p.cti = {claims.messageID} /\ p.crit = critLabels(claims.opt)
  BY DEF encryptProtected
<1> QED
  BY <1>1 DEF parseEncryptProtected

\* critLabels lists at least the two labels that are always there, and adding
\* none changes nothing.
LEMMA CritSeq ==
  ASSUME NEW opt
  PROVE  critLabels(opt) # <<>> /\ critLabels(opt) \o <<>> = critLabels(opt)
<1> DEFINE L == {"content", "cwt", "inReplyTo", "requestHash", "senderKeyID",
                 "responseKeyID", "responseSubject", "freshnessChallenge"}
<1>1. ASSUME NEW l \in L PROVE labelOf(opt, l) \in Seq(L)
  <2> HIDE DEF L
  <2>1. <<l>> \in Seq(L) /\ <<>> \in Seq(L)
    BY <1>1
  <2> QED
    BY <2>1, Zenon DEF labelOf
<1>2. /\ labelOf(opt, "inReplyTo") \in Seq(L) /\ labelOf(opt, "requestHash") \in Seq(L)
      /\ labelOf(opt, "senderKeyID") \in Seq(L)
      /\ labelOf(opt, "responseKeyID") \in Seq(L)
      /\ labelOf(opt, "responseSubject") \in Seq(L)
      /\ labelOf(opt, "freshnessChallenge") \in Seq(L)
  BY <1>1, Zenon
<1>3. "content" \in L /\ "cwt" \in L
  OBVIOUS
<1> HIDE DEF L
<1>4. \A s, t \in Seq(L) : s \o t \in Seq(L) /\ (s # <<>> => s \o t # <<>>)
                          /\ s \o <<>> = s
  OBVIOUS
<1>5. <<"content", "cwt">> \in Seq(L) /\ <<"content", "cwt">> # <<>>
  BY <1>3
<1> QED
  BY <1>2, <1>4, <1>5 DEF critLabels

\* An honest response in time passes every check of OpenResponse.
LEMMA HonestIsAccepted ==
  ASSUME NEW c, NEW sent, NEW n, NEW a, NEW skew, NEW maxTTL,
         own[c] # "wrongLength",
         ~(Unix(a.at + a.drift)
             > Wrap(Unix(now) + Unix(OrDefault(skew, DefaultSkew)))),
         TimesPass(Unix(a.at + a.drift), Unix(a.at + a.drift + a.ttl), now,
                   OrDefault(skew, DefaultSkew), OrDefault(maxTTL, DefaultMaxTTL))
  PROVE  Accepts(c, sent, HonestResponse(sent, own[c], n, a), skew, maxTTL)
<1>1. PICK claims, p, key, draw, pt :
        /\ claims = HonestClaims(sent, a)
        /\ p = encryptProtected("response", claims)
        /\ key = own[c] /\ draw = <<"response", n>>
        /\ pt = [answerTo |-> Draw(sent), from |-> "brokerSeed"]
  OBVIOUS
<1>2. PICK enc, x :
        /\ enc = sealEncrypt(p, pt, key, X25519Public(key), draw)
        /\ x = signPayload(enc, {"broker.signing"}, "brokerSeed")
  OBVIOUS
<1>3. x = HonestResponse(sent, own[c], n, a)
  BY <1>1, <1>2 DEF HonestResponse
<1> DEFINE s == OrDefault(skew, DefaultSkew)
           l == OrDefault(maxTTL, DefaultMaxTTL)
           parsed == parseEncryptProtected(p)
           id == parseEncryptProtected(sent.payload.protected).messageID
<1>4. verifySign1(x, "broker.signing", "brokerSeed") = ""
  <2>1. /\ x.tag = 18 /\ x.alg = "EdDSA" /\ x.kid = {"broker.signing"} /\ x.payload = enc
        /\ x.signature = Sign("brokerSeed", "EdDSA", {"broker.signing"}, enc)
    BY <1>2, SignPayloadFields
  <2>2. {"broker.signing"} # {}
    OBVIOUS
  <2> QED
    BY <2>1, <2>2, Zenon DEF verifySign1
<1>5. x.payload = enc /\ x.kid = {"broker.signing"}
  BY <1>2, SignPayloadFields
<1>6. /\ enc.tag = 96 /\ enc.protected = p /\ enc.iv = <<draw>>
      /\ enc.ciphertext.key = contentKey(<<draw>>, X25519Public(key), "ECDH-ES")
      /\ enc.ciphertext.nonce = <<draw>> /\ enc.ciphertext.aad = p
      /\ Len(enc.recipients) = 1 /\ enc.recipients[1].alg = "ECDH-ES"
      /\ enc.recipients[1].kid = {key} /\ enc.recipients[1].ephemeral = <<draw>>
  BY <1>2 DEF sealEncrypt
<1>7. /\ claims.issuedAt = Unix(a.at + a.drift) /\ claims.expiresAt = Unix(a.at + a.drift + a.ttl)
      /\ claims.opt.inReplyTo = {id} /\ claims.opt.requestHash = {Sum256(sent)}
      /\ claims.opt.senderKeyID = {"broker.signing"}
      /\ claims.opt.responseKeyID = {} /\ claims.opt.responseSubject = {}
      /\ claims.opt.freshnessChallenge = {}
  BY <1>1 DEF HonestClaims
<1>8. /\ parsed.issuedAt = claims.issuedAt /\ parsed.expiresAt = claims.expiresAt
      /\ parsed.opt = claims.opt
      /\ p.alg = "A256GCM" /\ p.content = "response" /\ p.iat = {claims.issuedAt}
      /\ p.cti = {claims.messageID} /\ p.crit = critLabels(claims.opt)
      /\ p.opt = claims.opt
  <2>1. p = encryptProtected("response", claims)
    BY <1>1
  <2> QED
    BY ONLY <2>1, ParsedClaims, ZenonT(60) DEF parsed
<1>9. <<draw>> # <<>> /\ {key} # {} /\ <<draw>> # <<<<"lowOrder">>>>
  <2>1. draw # <<"lowOrder">>
    BY <1>1
  <2> QED
    BY <2>1
<1> HIDE DEF s, l, parsed, id
<1>10. parseError(p) = ""
  <2>1. p.crit # <<>> /\ p.crit = critLabels(p.opt)
    BY <1>8, CritSeq
  <2>2. p.iat # {} /\ p.cti # {} /\ "wrongLength" \notin p.opt.freshnessChallenge
    BY <1>7, <1>8
  <2>3. p.alg = "A256GCM" /\ p.content = "response" /\ "response" # ""
    BY <1>8
  <2> QED
    BY <2>1, <2>2, <2>3, Zenon DEF parseError
<1>11. decodeEncrypt(enc) = ""
  BY <1>6, <1>9, <1>10, Zenon DEF decodeEncrypt
<1>12. correlationError(parsed, x.kid, sent, id) = ""
  <2>1. parsed.opt.senderKeyID # {} /\ parsed.opt.senderKeyID = x.kid
        /\ parsed.opt.inReplyTo = {id} /\ parsed.opt.requestHash = {Sum256(sent)}
    BY <1>5, <1>7, <1>8
  <2> QED
    BY <2>1, Zenon DEF correlationError
<1>13. validateResponseClaims(parsed, now, s, l) = ""
  <2>1. ~(parsed.issuedAt > Wrap(Unix(now) + Unix(s)))
        /\ TimesPass(parsed.issuedAt, parsed.expiresAt, now, s, l)
    BY <1>7, <1>8 DEF s, l
  <2>2. parsed.opt.inReplyTo # {} /\ parsed.opt.requestHash # {}
        /\ parsed.opt.responseKeyID = {} /\ parsed.opt.responseSubject = {}
        /\ parsed.opt.freshnessChallenge = {}
    BY <1>7, <1>8
  <2> QED
    BY <2>1, <2>2, Zenon DEF validateResponseClaims, TimesPass
<1>14. openEncrypt(enc, key, key) = ""
  <2>1. key # "wrongLength"
    BY <1>1
  <2> QED
    BY <1>6, <1>9, <2>1, Zenon DEF openEncrypt
<1>15. Verdict(c, sent, x, skew, maxTTL) = ""
  <2>1. "response" \in {"", enc.protected.content}
    BY <1>6, <1>8, Zenon
  <2> DEFINE params ==
        [Message |-> x, Request |-> sent, RequestMessageID |-> id,
         ExpectedContentType |-> "response", Now |-> now, MaxClockSkew |-> skew,
         MaxTTL |-> maxTTL, BrokerKeyID |-> "broker.signing", BrokerKey |-> "brokerSeed",
         RecipientKeyID |-> key, RecipientPrivate |-> key]
  <2>2. Verdict(c, sent, x, skew, maxTTL) = OpenResponseError(params)
    BY <1>1, Zenon DEF Verdict, id
  <2>3. /\ params.Message = x /\ params.Request = sent /\ params.RequestMessageID = id
        /\ params.ExpectedContentType = "response" /\ params.Now = now
        /\ params.MaxClockSkew = skew /\ params.MaxTTL = maxTTL
        /\ params.BrokerKeyID = "broker.signing" /\ params.BrokerKey = "brokerSeed"
        /\ params.RecipientKeyID = key /\ params.RecipientPrivate = key
    OBVIOUS
  <2> HIDE DEF params
  <2>4. OpenResponseError(params) = ""
    BY <1>4, <1>5, <1>6, <1>11, <1>12, <1>13, <1>14, <2>1, <2>3, ZenonT(60)
       DEF OpenResponseError, s, l, parsed
  <2> QED
    BY <2>2, <2>4, Zenon
<1> QED
  BY <1>3, <1>15, Zenon DEF Accepts

\* Draws of requests and of responses differ, and those of two calls do.
LEMMA DrawsDiffer ==
  ASSUME NEW c, NEW d, NEW n
  PROVE  /\ RequestDraw(c) # ResponseDraw(n)
         /\ RequestDraw(c) = RequestDraw(d) => c = d
<1>1. ASSUME NEW x, NEW y, <<x>> = <<y>> PROVE x = y
  BY <1>1
<1>2. <<"request", c>> # <<"response", n>>
  OBVIOUS
<1>3. <<"request", c>> = <<"request", d>> => c = d
  OBVIOUS
<1>4. <<<<"request", c>>>> # <<<<"response", n>>>>
  BY <1>1, <1>2
<1>5. <<<<"request", c>>>> = <<<<"request", d>>>> => c = d
  BY <1>1, <1>3
<1> QED
  BY <1>4, <1>5 DEF RequestDraw, ResponseDraw

\* OpenResponse returns the plaintext of every honest answer.
LEMMA HonestOpen ==
  ASSUME TimesFit, ClockFits, KeysOfLength, HonestInv
  PROVE  HonestAnswersOpen
<1> SUFFICES ASSUME NEW c \in Calls, NEW n \in DOMAIN answers, NEW skew \in Skews,
                    NEW maxTTL \in MaxTTLs, Honest(c, n, maxTTL),
                    Apart(n) <= Unix(OrDefault(skew, DefaultSkew)) * TicksPerSecond,
                    NEW sent \in request[c], NEW m \in pool, Draw(m) = ResponseDraw(n)
             PROVE  Accepts(c, sent, m, skew, maxTTL)
  BY Zenon DEF HonestAnswersOpen, Opens, Accepts
<1>1. \A t \in request[c] : t = sent
  BY Zenon DEF HonestInv, OneRequest
<1>2. Draw(sent) = RequestDraw(c) /\ sent.payload.protected.opt.responseKeyID = {own[c]}
  BY Zenon DEF HonestInv, OwnRequests
<1>3. answers[n].request = Draw(sent) /\ answers[n].deviation = "none"
  BY <1>1, Zenon DEF Honest
<1>4. IsResponse(m, n)
  <2>1. ~IsRequest(m)
    BY DrawsDiffer, Zenon DEF IsRequest
  <2>2. PICK k \in DOMAIN answers : IsResponse(m, k)
    BY <2>1, Zenon DEF HonestInv, Known
  <2>3. k = n
    <3>1. ResponseDraw(k) = ResponseDraw(n)
      BY <2>2, Zenon DEF IsResponse
    <3> QED
      BY <3>1, DrawInjective
  <2> QED
    BY <2>2, <2>3
<1>5. PICK r \in pool : \E key \in r.payload.protected.opt.responseKeyID :
        answers[n].request = Draw(r) /\ m = HonestResponse(r, key, n, answers[n])
  BY <1>3, <1>4, Zenon DEF IsResponse
<1>6. r = sent
  <2>1. Draw(r) = RequestDraw(c)
    BY <1>2, <1>3, <1>5, Zenon
  <2>2. IsRequest(r)
    BY <2>1, DrawsDiffer, Zenon DEF HonestInv, Known, IsResponse
  <2>3. r \in request[c]
    BY <2>1, <2>2, DrawsDiffer, Zenon DEF IsRequest
  <2> QED
    BY <1>1, <2>3
<1>7. m = HonestResponse(sent, own[c], n, answers[n])
  BY <1>2, <1>5, <1>6
<1>8. own[c] # "wrongLength"
  BY Zenon DEF HonestInv, KeysOfLength
<1>9. PICK a : a = answers[n]
  OBVIOUS
<1>10. a.at \in 0 .. MaxTime /\ a.drift \in Drifts /\ a.ttl \in ResponseTTLs /\ a.at <= now
       /\ now \in 0 .. MaxTime
  <2>1. answers \in Seq(Circumstances) /\ (\A k \in DOMAIN answers : answers[k].at <= now)
        /\ now \in 0 .. MaxTime
    BY Zenon DEF HonestInv
  <2>2. a \in Circumstances
    BY <1>9, <2>1
  <2>3. a.at <= now
    BY <1>9, <2>1
  <2> QED
    BY <2>1, <2>2, <2>3 DEF Circumstances
<1> DEFINE s == OrDefault(skew, DefaultSkew)
           l == OrDefault(maxTTL, DefaultMaxTTL)
<1>11. s \in Nat /\ l \in Nat
  BY ExchangeAssumption, TimeAssumption DEF OrDefault
<1>12. a.ttl >= TicksPerSecond /\ a.ttl <= Unix(l) * TicksPerSecond /\ now <= a.at + a.ttl
  BY <1>9, Zenon DEF Honest
<1>13. a.at \in Int /\ a.drift \in Int /\ a.ttl \in Nat /\ now \in Nat
  <2>1. /\ \A x \in 0 .. MaxTime : x \in Int /\ x \in Nat
        /\ \A x \in Drifts : x \in Int
        /\ \A x \in ResponseTTLs : x \in Nat
    BY ONLY ExchangeAssumption
  <2> QED
    BY <1>10, <2>1, Zenon
<1>14. Unix(s) \in Int /\ TicksPerSecond \in Int
  BY <1>11, UnixBounds, TimeAssumption
<1>15. a.drift <= Unix(s) * TicksPerSecond /\ -a.drift <= Unix(s) * TicksPerSecond
  <2> DEFINE bound == Unix(s) * TicksPerSecond
  <2>1. bound \in Int
    BY <1>14
  <2>2. (IF a.drift < 0 THEN -a.drift ELSE a.drift) <= bound
    BY <1>9 DEF Apart
  <2> HIDE DEF bound
  <2>3. a.drift <= bound /\ -a.drift <= bound
    BY <1>13, <2>1, <2>2
  <2> QED
    BY <2>3 DEF bound
<1>16. /\ -IntMax <= Unix(a.at + a.drift)
       /\ Unix(a.at + a.drift + a.ttl) - Unix(a.at + a.drift) <= IntMax
       /\ Unix(a.at + a.drift + a.ttl) + Unix(s) <= IntMax
  BY <1>10, Zenon DEF TimesFit
<1>17. Unix(now) + Unix(s) <= IntMax
  BY <1>10, Zenon DEF ClockFits
<1> HIDE DEF s, l
<1>18. /\ ~(Unix(a.at + a.drift) > Wrap(Unix(now) + Unix(s)))
       /\ TimesPass(Unix(a.at + a.drift), Unix(a.at + a.drift + a.ttl), now, s, l)
  BY <1>10, <1>11, <1>12, <1>13, <1>15, <1>16, <1>17, HonestTimesPass
<1>19. Accepts(c, sent, HonestResponse(sent, own[c], n, a), skew, maxTTL)
  BY <1>8, <1>18, HonestIsAccepted, Zenon DEF s, l
<1> QED
  BY <1>7, <1>9, <1>19

\* A message that was a request or a response remains one.
LEMMA KnownKept ==
  ASSUME HonestInv, pool \subseteq pool', NEW m \in pool,
         \A c \in Calls : request[c] \subseteq request'[c],
         DOMAIN answers \subseteq DOMAIN answers',
         \A n \in DOMAIN answers : answers'[n] = answers[n]
  PROVE  IsRequest(m)' \/ \E n \in DOMAIN answers' : IsResponse(m, n)'
<1>1. CASE IsRequest(m)
  BY <1>1, Zenon DEF IsRequest, Draw, RequestDraw
<1>2. CASE \E n \in DOMAIN answers : IsResponse(m, n)
  <2>1. PICK n \in DOMAIN answers : IsResponse(m, n)
    BY <1>2
  <2>2. IsResponse(m, n)'
    <3>1. CASE answers[n].deviation # "none"
      BY <2>1, <3>1, Zenon DEF IsResponse, Draw, ResponseDraw
    <3>2. CASE answers[n].deviation = "none"
      <4>1. PICK r \in pool : \E key \in r.payload.protected.opt.responseKeyID :
              answers[n].request = Draw(r) /\ m = HonestResponse(r, key, n, answers[n])
        BY <2>1, <3>2, Zenon DEF IsResponse
      <4>2. \E key \in r.payload.protected.opt.responseKeyID :
              answers'[n].request = Draw(r) /\ m = HonestResponse(r, key, n, answers'[n])
        BY <4>1, Zenon
      <4> QED
        BY <2>1, <4>1, <4>2, Zenon DEF IsResponse
    <3> QED
      BY <3>1, <3>2
  <2> QED
    BY <2>1, <2>2, Zenon
<1> QED
  BY <1>1, <1>2, Zenon DEF HonestInv, Known

\* A step that neither sends nor answers.
LEMMA HonestKept ==
  ASSUME HonestInv, now' \in 0 .. MaxTime, now <= now',
         UNCHANGED <<request, own, pool, answers>>
  PROVE  HonestInv'
<1>1. answers' \in Seq(Circumstances)' /\ DOMAIN request' = Calls /\ OneRequest' /\ OwnRequests'
      /\ \A c \in Calls : own'[c] \in ResponseKeys
  BY Zenon DEF HonestInv, Circumstances, OneRequest, OwnRequests, Draw, RequestDraw
<1>2. \A n \in DOMAIN answers : answers[n].at <= now'
  <2>1. \A n \in DOMAIN answers : answers[n].at <= now /\ answers[n].at \in Int
    <3>1. answers \in Seq(Circumstances)
      BY Zenon DEF HonestInv
    <3>2. \A n \in DOMAIN answers : answers[n].at <= now
      BY Zenon DEF HonestInv
    <3>3. \A n \in DOMAIN answers : answers[n] \in Circumstances
      BY <3>1
    <3>4. \A a \in Circumstances : a.at \in 0 .. MaxTime
      BY DEF Circumstances
    <3>5. \A x \in 0 .. MaxTime : x \in Int
      BY ExchangeAssumption
    <3> QED
      BY <3>2, <3>3, <3>4, <3>5, Zenon
  <2>2. now \in 0 .. MaxTime
    BY Zenon DEF HonestInv
  <2> QED
    BY <2>1, <2>2
<1>3. Known'
  BY KnownKept, Zenon DEF Known
<1> QED
  BY <1>1, <1>2, <1>3, Zenon DEF HonestInv

LEMMA HonestInit == Init => HonestInv
<1> SUFFICES ASSUME Init PROVE HonestInv
  OBVIOUS
<1>1. now = 0 /\ pool = {} /\ answers = <<>> /\ DOMAIN request = Calls
      /\ \A c \in Calls : request[c] = {} /\ own[c] \in ResponseKeys
  BY Zenon DEF Init
<1>2. now \in 0 .. MaxTime /\ answers \in Seq(Circumstances) /\ DOMAIN answers = {}
  BY <1>1, ExchangeAssumption
<1> QED
  BY <1>1, <1>2, Zenon DEF HonestInv, OneRequest, OwnRequests, Known

\* A request has the draw of its call and names the call's response key.
LEMMA RequestFields ==
  ASSUME NEW c, NEW id, NEW challenge, NEW seed, NEW ttl, NEW m,
         m = buildSealed("request", [askedBy |-> c], RequestClaims(c, id, challenge, ttl),
                         "client.signing", seed, "request.sealing",
                         X25519Public("broker"), <<"request", c>>)
  PROVE  Draw(m) = RequestDraw(c) /\ m.payload.protected.opt.responseKeyID = {own[c]}
<1> DEFINE claims == RequestClaims(c, id, challenge, ttl)
           p == encryptProtected("request", claims)
           enc == sealEncrypt(p, [askedBy |-> c], "request.sealing",
                              X25519Public("broker"), <<"request", c>>)
<1>1. m = signPayload(enc, {"client.signing"}, seed)
  BY DEF buildSealed, buildEncrypt
<1>2. claims.opt.responseKeyID = {own[c]}
  BY DEF RequestClaims
<1> HIDE DEF claims
<1>3. p.opt = claims.opt
  BY DEF encryptProtected
<1> HIDE DEF p
<1>4. enc.protected = p /\ enc.ciphertext.nonce = <<<<"request", c>>>>
  BY DEF sealEncrypt
<1> HIDE DEF enc
<1>5. m.payload = enc
  BY <1>1, SignPayloadFields
<1> QED
  BY <1>2, <1>3, <1>4, <1>5 DEF Draw, RequestDraw

\* BuildRequest sends the call's only request.
LEMMA BuildRequestHonest ==
  ASSUME HonestInv, NEW c \in Calls, NEW id, NEW challenge, NEW seed, NEW public, NEW ttl,
         BuildRequest(c, id, challenge, seed, public, ttl)
  PROVE  HonestInv'
<1>1. PICK m : m = buildSealed("request", [askedBy |-> c],
                               RequestClaims(c, id, challenge, ttl),
                               "client.signing", seed, "request.sealing",
                               X25519Public("broker"), <<"request", c>>)
  OBVIOUS
<1>2. /\ request[c] = {}
      /\ \/ request' = request /\ pool' = pool
         \/ request' = [request EXCEPT ![c] = {m}] /\ pool' = pool \cup {m}
      /\ UNCHANGED <<now, own, answers>>
  BY <1>1, Zenon DEF BuildRequest
<1>3. CASE request' = request /\ pool' = pool
  <2>1. now' \in 0 .. MaxTime /\ now <= now'
    <3>1. now \in 0 .. MaxTime
      BY Zenon DEF HonestInv
    <3> QED
      BY <1>2, <3>1, ExchangeAssumption
  <2> QED
    BY <1>2, <1>3, <2>1, HonestKept, Zenon
<1>4. CASE request' = [request EXCEPT ![c] = {m}] /\ pool' = pool \cup {m}
  <2>1. Draw(m) = RequestDraw(c) /\ m.payload.protected.opt.responseKeyID = {own[c]}
    BY <1>1, RequestFields
  <2>2. DOMAIN request' = Calls /\ request'[c] = {m}
        /\ \A d \in Calls : d # c => request'[d] = request[d]
    BY <1>4 DEF HonestInv
  <2>3. OneRequest' /\ OwnRequests'
    BY <1>2, <2>1, <2>2 DEF HonestInv, OneRequest, OwnRequests, Draw, RequestDraw
  <2>4. pool \subseteq pool' /\ \A d \in Calls : request[d] \subseteq request'[d]
    BY <1>2, <1>4, <2>2
  <2>5. answers' \in Seq(Circumstances)'
    BY <1>2, <2>4, CircumstancesGrow, Zenon DEF HonestInv
  <2>6. Known'
    <3> SUFFICES ASSUME NEW x \in pool'
                 PROVE  IsRequest(x)' \/ \E n \in DOMAIN answers' : IsResponse(x, n)'
      BY Zenon DEF Known
    <3>1. CASE x \in pool
      BY <1>2, <2>4, <3>1, KnownKept, Zenon
    <3>2. CASE x = m
      <4>1. m \in request'[c]
        BY <2>2
      <4>2. IsRequest(m)'
        BY <2>1, <4>1, Zenon DEF IsRequest, Draw, RequestDraw
      <4> QED
        BY <3>2, <4>2
    <3> QED
      BY <1>4, <3>1, <3>2
  <2> QED
    BY <1>2, <2>2, <2>3, <2>5, <2>6, Zenon DEF HonestInv
<1> QED
  BY <1>2, <1>3, <1>4

\* What the broker builds without a deviation is an honest response.
LEMMA PlainResponse ==
  ASSUME NEW m, NEW key, NEW ttl, NEW drift, NEW a,
         a.at = now, a.drift = drift, a.ttl = ttl
  PROVE  ResponseTo(m, key, ttl, drift, "none")
           = HonestResponse(m, key, Len(answers) + 1, a)
<1>1. ResponseClaims(m, ttl, drift) = HonestClaims(m, a)
  BY DEF ResponseClaims, HonestClaims
<1>2. PICK claims, p : claims = HonestClaims(m, a) /\ p = encryptProtected("response", claims)
  OBVIOUS
<1>3. DeviateHeader(p, "none") = p
  <2>1. DeviateOpt(p.opt, "none") = p.opt
    BY DEF DeviateOpt
  <2>2. p.crit = critLabels(p.opt)
    BY <1>2 DEF encryptProtected
  <2>3. critLabels(p.opt) \o <<>> = critLabels(p.opt)
    BY CritSeq
  <2>4. p = [alg |-> p.alg, content |-> p.content, crit |-> p.crit, exp |-> p.exp,
             iat |-> p.iat, cti |-> p.cti, opt |-> p.opt]
    BY <1>2 DEF encryptProtected
  <2>5. DeviateHeader(p, "none")
          = [alg |-> p.alg, content |-> p.content, crit |-> critLabels(p.opt) \o <<>>,
             exp |-> p.exp, iat |-> p.iat, cti |-> p.cti, opt |-> p.opt]
    BY <2>1 DEF DeviateHeader
  <2> QED
    BY <2>2, <2>3, <2>4, <2>5, Zenon
<1>4. /\ \A x : DeviatePayload(x, "none") = x
      /\ SealedTo(key, "none") = X25519Public(key)
  BY DEF DeviatePayload, SealedTo
<1>5. ResponseTo(m, key, ttl, drift, "none")
        = signPayload(sealEncrypt(p, [answerTo |-> Draw(m), from |-> "brokerSeed"], key,
                                  X25519Public(key), <<"response", Len(answers) + 1>>),
                      {"broker.signing"}, "brokerSeed")
  BY <1>1, <1>2, <1>3, <1>4 DEF ResponseTo
<1> QED
  BY <1>2, <1>5 DEF HonestResponse

\* The broker's response is one it keeps account of.
LEMMA RespondHonest ==
  ASSUME HonestInv, NEW m \in pool, NEW ttl \in ResponseTTLs, NEW drift \in Drifts,
         NEW deviation \in Deviations, Respond(m, ttl, drift, deviation)
  PROVE  HonestInv'
<1>1. PICK a : a = [request |-> Draw(m), at |-> now, ttl |-> ttl, drift |-> drift,
                    deviation |-> deviation]
  OBVIOUS
<1>2. answers' = Append(answers, a) /\ UNCHANGED <<now, request, own>>
  BY <1>1 DEF Respond
<1>3. PICK key \in m.payload.protected.opt.responseKeyID :
        pool' = pool \cup {ResponseTo(m, key, ttl, drift, deviation)}
  BY DEF Respond
<1>4. PICK r : r = ResponseTo(m, key, ttl, drift, deviation)
  OBVIOUS
<1>5. pool' = pool \cup {r} /\ pool \subseteq pool'
  BY <1>3, <1>4
<1>6. a \in Circumstances'
  <2>1. now \in 0 .. MaxTime
    BY Zenon DEF HonestInv
  <2> QED
    BY <1>1, <1>5, <2>1 DEF Circumstances, Draw
<1>7. answers \in Seq(Circumstances')
  BY <1>5, CircumstancesGrow, Zenon DEF HonestInv
<1> DEFINE S == Circumstances'
<1>8. answers \in Seq(S) /\ a \in S /\ answers' = Append(answers, a)
  BY <1>2, <1>6, <1>7
<1> HIDE DEF S
<1>9. /\ answers' \in Seq(S)
      /\ DOMAIN answers \subseteq DOMAIN answers'
      /\ \A n \in DOMAIN answers : answers'[n] = answers[n]
      /\ Len(answers) + 1 \in DOMAIN answers'
      /\ answers'[Len(answers) + 1] = a
      /\ \A n \in DOMAIN answers' : n \in DOMAIN answers \/ n = Len(answers) + 1
  BY <1>8
<1>10. \A n \in DOMAIN answers' : answers'[n].at <= now'
  <2>1. a.at <= now
    <3>1. now \in 0 .. MaxTime
      BY Zenon DEF HonestInv
    <3> QED
      BY <1>1, <3>1, ExchangeAssumption
  <2> QED
    BY <1>2, <1>9, <2>1, Zenon DEF HonestInv
<1>11. Known'
  <2> SUFFICES ASSUME NEW x \in pool'
               PROVE  IsRequest(x)' \/ \E n \in DOMAIN answers' : IsResponse(x, n)'
    BY Zenon DEF Known
  <2>1. CASE x \in pool
    <3>1. \A d \in Calls : request[d] \subseteq request'[d]
      BY <1>2
    <3> QED
      BY <1>5, <1>9, <2>1, <3>1, KnownKept, Zenon
  <2>2. CASE x = r
    <3>1. PICK n : n = Len(answers) + 1
      OBVIOUS
    <3>2. n \in DOMAIN answers' /\ answers'[n] = a
      BY <1>9, <3>1
    <3>3. Draw(r) = ResponseDraw(n)
      BY <1>4, <3>1, ResponseDrawn
    <3>4. ASSUME deviation = "none"
          PROVE  r = HonestResponse(m, key, n, a)
      <4>1. a.at = now /\ a.drift = drift /\ a.ttl = ttl
        BY <1>1
      <4> QED
        BY <1>4, <3>1, <3>4, <4>1, PlainResponse
    <3>5. a.deviation = deviation /\ a.request = Draw(m)
      BY <1>1
    <3>6. IsResponse(r, n)'
      <4>1. m \in pool'
        BY <1>5
      <4>2. answers'[n].deviation = "none" =>
              \E y \in pool' : \E k \in y.payload.protected.opt.responseKeyID :
                answers'[n].request = Draw(y) /\ r = HonestResponse(y, k, n, answers'[n])
        BY <3>2, <3>4, <3>5, <4>1, Zenon
      <4> QED
        BY <3>3, <4>2, Zenon DEF IsResponse, Draw, ResponseDraw
    <3> QED
      BY <2>2, <3>2, <3>6, Zenon
  <2> QED
    BY <1>5, <2>1, <2>2
<1>12. now' \in 0 .. MaxTime /\ DOMAIN request' = Calls /\ OneRequest' /\ OwnRequests'
       /\ \A c \in Calls : own'[c] \in ResponseKeys
  BY <1>2, Zenon DEF HonestInv, OneRequest, OwnRequests, Draw, RequestDraw
<1> QED
  BY <1>9, <1>10, <1>11, <1>12, Zenon DEF HonestInv, S

LEMMA HonestStep == HonestInv /\ [Next]_vars => HonestInv'
<1> SUFFICES ASSUME HonestInv, [Next]_vars PROVE HonestInv'
  OBVIOUS
<1>1. now \in 0 .. MaxTime
  BY Zenon DEF HonestInv
<1>2. CASE UNCHANGED <<now, request, own, pool, answers>>
  BY <1>1, <1>2, HonestKept, ExchangeAssumption
<1>3. CASE UNCHANGED vars
  BY <1>2, <1>3, Zenon DEF vars
<1>4. CASE Tick
  <2>1. now' \in 0 .. MaxTime /\ now <= now'
    BY <1>1, <1>4, ExchangeAssumption DEF Tick
  <2>2. UNCHANGED <<request, own, pool, answers>>
    BY <1>4, Zenon DEF Tick
  <2> QED
    BY <2>1, <2>2, HonestKept, Zenon
<1>5. CASE \E c \in Calls, id \in MessageIDs, challenge \in Challenges,
              seed \in {"clientSeed", "wrongLength"}, public \in Publics,
              ttl \in RequestTTLs :
             BuildRequest(c, id, challenge, seed, public, ttl)
  BY <1>5, BuildRequestHonest, Zenon
<1>6. CASE \E m \in pool, ttl \in ResponseTTLs, drift \in Drifts,
              deviation \in Deviations :
             Respond(m, ttl, drift, deviation)
  BY <1>6, RespondHonest, Zenon
<1>7. ASSUME NEW c \in Calls, NEW m \in pool, NEW skew \in Skews, NEW maxTTL \in MaxTTLs,
             \/ \E damage \in Damages : OpenResponse(c, Damaged(m, damage), skew, maxTTL)
             \/ \E other \in pool : OpenResponse(c, Spliced(m, other), skew, maxTTL)
      PROVE  HonestInv'
  BY <1>2, <1>7, Zenon DEF OpenResponse
<1> QED
  BY <1>3, <1>4, <1>5, <1>6, <1>7, Zenon DEF Next

\* OpenResponse never refuses the broker's answer to the call's request that
\* keeps to the profile and is in time, while the clocks differ by no more
\* than the whole seconds of MaxClockSkew, for any clocks, spans and skews
\* whose sums stay inside int64: the checks leave no gap of a second's
\* rounding in which an honest answer is lost.
THEOREM OpensEveryHonest ==
  ASSUME TimesFit, ClockFits, KeysOfLength
  PROVE  Spec => []HonestAnswersOpen
<1>1. HonestInv => HonestAnswersOpen
  BY HonestOpen
<1> QED
  BY HonestInit, HonestStep, <1>1, PTL DEF Spec
=============================================================================
