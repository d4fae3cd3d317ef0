--------------------------- MODULE SealedExchange ---------------------------
(***************************************************************************)
(* Sealed invocations under way: calls that build a request and open what  *)
(* comes back, a network, and the broker.                                  *)
(*                                                                         *)
(* The network and the broker are not code of this repository.  The        *)
(* network delivers a message late, twice, to another call or never, and   *)
(* may damage it.  The broker answers a request with a response of the     *)
(* profile the client's decoder states, or, when it is of another version, *)
(* with one that deviates from it; its clock may be off.                   *)
(***************************************************************************)
EXTENDS SealedInvocation

CONSTANTS
  Calls,         \* client calls
  MessageIDs,    \* message ids callers use: two calls may use the same one
  Challenges,    \* FreshnessChallenge arguments: {} is nil
  Publics,       \* RecipientPublic arguments: "key", "wrongLength", "lowOrder"
  RequestTTLs,   \* TTL arguments, in ticks
  ResponseKeys,  \* X25519 response keys, which are also their key ids
  ResponseTTLs,  \* spans of the broker's responses, in ticks
  Drifts,        \* how far the broker's clock may be ahead, in ticks
  Deviations,    \* how responses may deviate from the profile
  Skews,         \* MaxClockSkew arguments, in ticks
  MaxTTLs,       \* MaxTTL arguments, in ticks
  MaxTime,       \* bound on the clock, in ticks
  MaxResponses   \* bound on the broker's responses

ASSUME ExchangeAssumption ==
  /\ MaxTime \in Nat /\ MaxResponses \in Nat
  /\ RequestTTLs \subseteq Nat /\ ResponseTTLs \subseteq Nat
  /\ Skews \subseteq Nat /\ MaxTTLs \subseteq Nat /\ Drifts \subseteq Int

VARIABLES
  now,      \* the client's clock
  request,  \* each call's request: {} or {message}
  buildErr, \* the error of its BuildRequest
  own,      \* its response key
  pool,     \* messages that are or were on the network
  answers,  \* the circumstances of the broker's responses, in order
  opening   \* how each call's OpenResponse ended

vars == <<now, request, buildErr, own, pool, answers, opening>>

\* The random values a message was sealed with tell it from all others.
Draw(m) == m.payload.ciphertext.nonce

\* Response n of the broker.
ResponseDraw(n) == <<<<"response", n>>>>

NotTried == [state |-> "none"]

Refused == [state |-> "refused"]

Init ==
  /\ now = 0
  /\ request = [c \in Calls |-> {}]
  /\ buildErr = [c \in Calls |-> ""]
  /\ own \in [Calls -> ResponseKeys]
  /\ pool = {}
  /\ answers = <<>>
  /\ opening = [c \in Calls |-> NotTried]

Tick ==
  /\ now < MaxTime
  /\ now' = now + 1
  /\ UNCHANGED <<request, buildErr, own, pool, answers, opening>>

-----------------------------------------------------------------------------
\* BuildRequest: its error for the arguments, in the order of the checks of
\* BuildRequest, buildSealed and buildEncrypt.
BuildRequestError(messageID, challenge, seed, public) ==
  IF messageID \in {"empty", "tooLong"} THEN "message id length"
  ELSE IF "wrongLength" \in challenge THEN "freshness challenge length"
  ELSE IF seed = "wrongLength" THEN "seed length"
  ELSE IF public = "wrongLength" THEN "public key length"
  ELSE IF public = "lowOrder" THEN "ECDH"
  ELSE ""

RequestClaims(c, messageID, challenge, ttl) ==
  [issuedAt |-> Unix(now), expiresAt |-> Unix(now + OrDefault(ttl, DefaultTTL)),
   messageID |-> messageID,
   opt |-> [inReplyTo |-> {}, requestHash |-> {}, senderKeyID |-> {"client.signing"},
            responseKeyID |-> {own[c]}, responseSubject |-> {},
            freshnessChallenge |-> challenge]]

\* Mutant of BuildRequest: the message is sent before the arguments are
\* checked.
BuildRequestUnchecked(c, messageID, challenge, seed, public, ttl) ==
  LET message == buildSealed("request", [askedBy |-> c],
                             RequestClaims(c, messageID, challenge, ttl),
                             "client.signing", seed, "request.sealing",
                             X25519Public("broker"), <<"request", c>>)
  IN /\ request[c] = {} /\ buildErr[c] = ""
     /\ buildErr' = [buildErr EXCEPT ![c] = BuildRequestError(messageID, challenge, seed, public)]
     /\ request' = [request EXCEPT ![c] = {message}]
     /\ pool' = pool \cup {message}
     /\ UNCHANGED <<now, own, answers, opening>>

BuildRequest(c, messageID, challenge, seed, public, ttl) ==
  LET err == BuildRequestError(messageID, challenge, seed, public)
      message == buildSealed("request", [askedBy |-> c],
                             RequestClaims(c, messageID, challenge, ttl),
                             "client.signing", seed, "request.sealing",
                             X25519Public("broker"), <<"request", c>>)
  IN /\ request[c] = {} /\ buildErr[c] = ""
     /\ \/ /\ err # ""
           /\ buildErr' = [buildErr EXCEPT ![c] = err]
           /\ UNCHANGED <<request, pool>>
        \/ /\ err = ""
           /\ request' = [request EXCEPT ![c] = {message}]
           /\ pool' = pool \cup {message}
           /\ UNCHANGED buildErr
     /\ UNCHANGED <<now, own, answers, opening>>

-----------------------------------------------------------------------------
\* The broker.  It reads the request's claims and answers to the response
\* key the request names.

ResponseClaims(m, ttl, drift) ==
  LET asked == parseEncryptProtected(m.payload.protected)
  IN [issuedAt |-> Unix(now + drift), expiresAt |-> Unix(now + drift + ttl),
      messageID |-> "response",
      opt |-> [inReplyTo |-> {asked.messageID}, requestHash |-> {Sum256(m)},
               senderKeyID |-> {"broker.signing"}, responseKeyID |-> {},
               responseSubject |-> {}, freshnessChallenge |-> {}]]

\* Optional claims that deviate from the profile.
DeviateOpt(opt, deviation) ==
  CASE deviation = "otherSender" -> [opt EXCEPT !.senderKeyID = {"other"}]
    [] deviation = "requestOnly" -> [opt EXCEPT !.responseSubject = {"subject"}]
    [] OTHER -> opt

\* A protected header that deviates from the profile.
DeviateHeader(protected, deviation) ==
  LET opt == DeviateOpt(protected.opt, deviation)
  IN [alg |-> protected.alg, content |-> protected.content,
      crit |-> critLabels(opt)
                 \o (IF deviation = "unknownCrit" THEN <<"unknown">> ELSE <<>>),
      exp |-> CASE deviation = "noExpiry" -> {}
                [] deviation = "extremeTimes" -> {IntMax \div 2}
                [] OTHER -> protected.exp,
      iat |-> IF deviation = "extremeTimes" THEN {-IntMax - 1} ELSE protected.iat,
      cti |-> protected.cti, opt |-> opt]

\* A payload that deviates from the profile.
DeviatePayload(payload, deviation) ==
  CASE deviation = "shortNonce" -> [payload EXCEPT !.iv = <<>>]
    [] deviation = "twoRecipients" ->
         [payload EXCEPT !.recipients = payload.recipients \o payload.recipients]
    [] OTHER -> payload

\* The public key a response is sealed to: under "otherRecipient" another
\* one than that of the key id it carries.
SealedTo(key, deviation) ==
  X25519Public(IF deviation = "otherRecipient" THEN "other" ELSE key)

ResponseTo(m, key, ttl, drift, deviation) ==
  LET seed      == IF deviation = "otherSigner" THEN "otherSeed" ELSE "brokerSeed"
      protected == encryptProtected("response", ResponseClaims(m, ttl, drift))
      payload   == sealEncrypt(DeviateHeader(protected, deviation),
                               [answerTo |-> Draw(m), from |-> seed], key,
                               SealedTo(key, deviation),
                               <<"response", Len(answers) + 1>>)
  IN signPayload(DeviatePayload(payload, deviation), {"broker.signing"}, seed)

\* The broker answers a request it received.
Respond(m, ttl, drift, deviation) ==
  /\ Len(answers) < MaxResponses
  /\ \E key \in m.payload.protected.opt.responseKeyID :
       pool' = pool \cup {ResponseTo(m, key, ttl, drift, deviation)}
  /\ answers' = Append(answers, [request |-> Draw(m), at |-> now, ttl |-> ttl,
                                 drift |-> drift, deviation |-> deviation])
  /\ UNCHANGED <<now, request, buildErr, own, opening>>

\* What the network may do to a message on its way.
Damages == {"none", "tag", "kid", "nonce"}

Damaged(m, damage) ==
  CASE damage = "tag" -> [m EXCEPT !.tag = 0]
    [] damage = "kid" -> [m EXCEPT !.kid = {"other"}]
    [] damage = "nonce" -> [m EXCEPT !.payload = [m.payload EXCEPT !.iv = <<>>]]
    [] OTHER -> m

\* One message's signed layer around another's payload.
Spliced(m, other) == [m EXCEPT !.payload = other.payload]

-----------------------------------------------------------------------------
\* What OpenResponse says to call c of a message it received, its own or
\* another's, new or old.
Verdict(c, sent, m, skew, maxTTL) ==
  OpenResponseError(
    [Message |-> m, Request |-> sent,
     RequestMessageID |-> parseEncryptProtected(sent.payload.protected).messageID,
     ExpectedContentType |-> "response", Now |-> now, MaxClockSkew |-> skew,
     MaxTTL |-> maxTTL, BrokerKeyID |-> "broker.signing", BrokerKey |-> "brokerSeed",
     RecipientKeyID |-> own[c], RecipientPrivate |-> own[c]])

\* A call that was refused may try again.
OpenResponse(c, m, skew, maxTTL) ==
  /\ opening[c].state # "opened"
  /\ \E sent \in request[c] :
       LET err == Verdict(c, sent, m, skew, maxTTL)
       IN \/ err # "" /\ opening' = [opening EXCEPT ![c] = Refused]
          \/ /\ err = ""
             /\ opening' = [opening EXCEPT ![c] =
                  [state |-> "opened", message |-> m, at |-> now, skew |-> skew,
                   maxTTL |-> maxTTL]]
  /\ UNCHANGED <<now, request, buildErr, own, pool, answers>>

Next ==
  \/ Tick
  \/ \E c \in Calls, id \in MessageIDs, challenge \in Challenges,
        seed \in {"clientSeed", "wrongLength"}, public \in Publics,
        ttl \in RequestTTLs :
       BuildRequest(c, id, challenge, seed, public, ttl)
  \/ \E m \in pool, ttl \in ResponseTTLs, drift \in Drifts,
        deviation \in Deviations :
       Respond(m, ttl, drift, deviation)
  \/ \E c \in Calls, m \in pool, skew \in Skews, maxTTL \in MaxTTLs :
       \/ \E damage \in Damages : OpenResponse(c, Damaged(m, damage), skew, maxTTL)
       \/ \E other \in pool : OpenResponse(c, Spliced(m, other), skew, maxTTL)

Spec == Init /\ [][Next]_vars

-----------------------------------------------------------------------------
\* Answer n is what call c opened.
OpenedAnswer(c, n) ==
  opening[c].state = "opened" /\ Draw(opening[c].message) = ResponseDraw(n)

ExchangeTypeOK ==
  /\ now \in 0 .. MaxTime
  /\ \A c \in Calls :
       /\ own[c] \in ResponseKeys
       /\ request[c] \subseteq pool
       /\ buildErr[c] # "" => request[c] = {}
       /\ opening[c].state # "none" => request[c] # {}

\* A call that OpenResponse gave a plaintext was given the broker's answer to
\* the very bytes it sent: never another call's answer, also when both used
\* the same message id and response key, nor an altered one.
AnswersOwnRequest ==
  \A c \in Calls : opening[c].state = "opened" =>
    /\ opening[c].message \in pool
    /\ \A sent \in request[c] :
         opening[c].message.payload.ciphertext.pt =
           [answerTo |-> Draw(sent), from |-> "brokerSeed"]

\* An old answer is not taken for a new one: what is opened was answered at
\* most MaxTTL and MaxClockSkew ago, up to the broker's clock error and the
\* rounding to seconds of the two times.
AnswersAreRecent ==
  \A c \in Calls, n \in DOMAIN answers : OpenedAnswer(c, n) =>
    opening[c].at - answers[n].at <
      answers[n].drift + (Unix(OrDefault(opening[c].maxTTL, DefaultMaxTTL))
                          + Unix(OrDefault(opening[c].skew, DefaultSkew)) + 1)
                         * TicksPerSecond

\* Answer n answers call c as the profile wants it, for at least a second and
\* at most the longest span the call accepts, and is still in time.
Honest(c, n, maxTTL) ==
  /\ \E sent \in request[c] : answers[n].request = Draw(sent)
  /\ answers[n].deviation = "none"
  /\ answers[n].ttl >= TicksPerSecond
  /\ answers[n].ttl <= Unix(OrDefault(maxTTL, DefaultMaxTTL)) * TicksPerSecond
  /\ now <= answers[n].at + answers[n].ttl

\* How far apart the clocks were when answer n was given.
Apart(n) == IF answers[n].drift < 0 THEN -answers[n].drift ELSE answers[n].drift

\* OpenResponse returns the plaintext of answer n to call c.
Opens(c, n, skew, maxTTL) ==
  \A sent \in request[c], m \in pool :
    Draw(m) = ResponseDraw(n) => Verdict(c, sent, m, skew, maxTTL) = ""

\* OpenResponse does not refuse an honest answer while the clocks differ by
\* no more than the whole seconds of MaxClockSkew.
HonestAnswersOpen ==
  \A c \in Calls, n \in DOMAIN answers, skew \in Skews, maxTTL \in MaxTTLs :
    /\ Honest(c, n, maxTTL)
    /\ Apart(n) <= Unix(OrDefault(skew, DefaultSkew)) * TicksPerSecond
    => Opens(c, n, skew, maxTTL)

\* "MaxTTL is the maximum exp-iat span" of a response that is opened.
SpanWithinMaxTTL ==
  \A c \in Calls : opening[c].state = "opened" =>
    LET claims == parseEncryptProtected(opening[c].message.payload.protected)
    IN claims.expiresAt - claims.issuedAt
         <= Unix(OrDefault(opening[c].maxTTL, DefaultMaxTTL))

\* Why AnswersOwnRequest is inductive: every message of the network is what
\* its sender signed, and what the broker signed carries the hash of the
\* request it answers.
WellSigned(m) == m = signPayload(m.payload, m.kid, m.signature.by)

AnswersTo(m, r) ==
  /\ m.payload.protected.opt.requestHash = {Sum256(r)}
  /\ m.payload.ciphertext.pt = [answerTo |-> Draw(r), from |-> "brokerSeed"]

SignedOK ==
  \A m \in pool :
    /\ WellSigned(m)
    /\ m.signature.by = "brokerSeed" => \E r \in pool : AnswersTo(m, r)

\* A call sends one request.
OneRequest == \A c \in Calls : \A s, t \in request[c] : s = t

ExchangeInv ==
  /\ DOMAIN request = Calls /\ DOMAIN opening = Calls
  /\ \A c \in Calls : opening[c].state # "none" => request[c] # {}
  /\ OneRequest
  /\ SignedOK
  /\ AnswersOwnRequest
=============================================================================
