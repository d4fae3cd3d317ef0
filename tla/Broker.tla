------------------------------- MODULE Broker -------------------------------
(***************************************************************************)
(* External: the broker that the client talks to, as far as the client's   *)
(* calls can tell.  Its state is the log of the requests it has carried    *)
(* out, [call, rpc, req, keys]; keys, secret versions, ciphertexts and     *)
(* tokens are views of the log, and bytes that it makes up are named for   *)
(* their place in it.                                                      *)
(***************************************************************************)
EXTENDS BasilAPI, SequencesExt

CONSTANTS
  Now,         \* the time at the broker
  Answers(_),  \* the answers to an RPC that the log does not decide
  Named(_)     \* the bytes it makes up for the entry of the log with a number

ASSUME NowAssumption == Now \in Nat /\ Now < Two63

Mutations == {"NewKey", "Import", "ImportSet", "SetSecret", "RotateSecret", "Reload", "Revoke"}
Issues == {"Sign", "Encrypt", "WrapEnvelope", "EncryptNatsCurve"} \cup CredentialMethods

\* Where in the log l a version of a secret was stored, a key was made.
Versions(l, id) ==
  {i \in DOMAIN l : l[i].rpc \in {"SetSecret", "RotateSecret"} /\ l[i].req.SecretId = id}

PublicKeys(l, id) ==
  {i \in DOMAIN l : l[i].rpc \in {"NewKey", "Import"} /\ l[i].req.KeyId = id}

\* The number of version i among vs, and the one with an optional number: no
\* number asks for the latest.
Number(i, vs) == Cardinality({j \in vs : j <= i})

WithNumber(version, vs) ==
  {i \in vs : IF version = {} THEN \A j \in vs : j <= i ELSE Number(i, vs) \in version}

AEADEnvelope(i, q) ==
  [Alg |-> q.Algorithm, KeyVersion |-> i, Nonce |-> Named(i), Ciphertext |-> Named(i)]

KEMEnvelope(i, q) ==
  [KemAlgorithm |-> q.KemAlgorithm, EnvelopeAlgorithm |-> q.EnvelopeAlgorithm,
   KeyVersion |-> i, EncapsulatedKey |-> Named(i), Nonce |-> Named(i),
   Ciphertext |-> Named(i)]

Expiry(q) ==
  {Now + d : d \in q.Ttl} \cup (IF "ExpiresAt" \in DOMAIN q THEN q.ExpiresAt ELSE {})

\* The messages the broker may answer the request q with, where l is its log
\* with this request at the end if it is one that is logged: to a request for
\* a credential, unless it asks for two expiries, and to any other.
Minted(q, l) ==
  IF Cardinality(Expiry(q)) > 1 THEN {}
  ELSE {[Token |-> Named(Len(l)), ExpiresAt |-> Expiry(q)]}

Answer(r, q, l) ==
  LET here == Named(Len(l))
      Opens(S) == {[Plaintext |-> l[i].req.Plaintext] : i \in S}
  IN CASE r \in {"NewKey", "Import"} -> {[KeyId |-> q.KeyId, PublicKey |-> here]}
       [] r = "ImportSet" ->
            {[Keys |-> [k \in DOMAIN q.Entries |->
                          [KeyId |-> q.Entries[k].KeyId, PublicKey |-> here]]]}
       [] r = "GetPublicKey" ->
            {[KeyId |-> q.KeyId, KeyType |-> l[i].req.KeyType, PublicKey |-> Named(i),
              Version |-> Number(i, PublicKeys(l, q.KeyId))] :
                i \in WithNumber(q.Version, PublicKeys(l, q.KeyId))}
       [] r = "Sign" -> {[Signature |-> here]}
       [] r = "Verify" ->
            {[Valid |-> \E i \in DOMAIN l :
                /\ l[i].rpc = "Sign" /\ q.Signature = Named(i)
                /\ l[i].req = [KeyId |-> q.KeyId, Message |-> q.Message,
                               Algorithm |-> q.Algorithm]]}
       [] r = "Encrypt" ->
            {[Envelope |-> {}], [Envelope |-> {AEADEnvelope(Len(l), q)}]}
       [] r = "Decrypt" ->
            Opens({i \in DOMAIN l :
                     /\ l[i].rpc = "Encrypt" /\ q.Envelope = {AEADEnvelope(i, l[i].req)}
                     /\ l[i].req.KeyId = q.KeyId /\ l[i].req.Aad = q.Aad})
       [] r = "WrapEnvelope" ->
            {[Envelope |-> {}], [Envelope |-> {KEMEnvelope(Len(l), q)}]}
       [] r = "UnwrapEnvelope" ->
            Opens({i \in DOMAIN l :
                     /\ l[i].rpc = "WrapEnvelope" /\ q.Envelope = {KEMEnvelope(i, l[i].req)}
                     /\ l[i].req.KeyId = q.KeyId /\ l[i].req.Aad = q.Aad})
       [] r = "EncryptNatsCurve" -> {[Ciphertext |-> here]}
       [] r = "DecryptNatsCurve" ->
            Opens({i \in DOMAIN l :
                     /\ l[i].rpc = "EncryptNatsCurve" /\ q.Ciphertext = Named(i)
                     /\ l[i].req.RecipientPublicXkey = q.KeyId
                     /\ l[i].req.KeyId = q.SenderPublicXkey})
       [] r \in {"SetSecret", "RotateSecret"} -> {[Version |-> Cardinality(Versions(l, q.SecretId))]}
       [] r = "GetSecret" ->
            {[Value |-> IF l[i].rpc = "SetSecret" THEN l[i].req.Value ELSE Named(i),
              Version |-> Number(i, Versions(l, q.SecretId))] :
                i \in WithNumber(q.Version, Versions(l, q.SecretId))}
       [] r = "ValidateNatsJwt" ->
            LET minted == {i \in DOMAIN l : l[i].rpc \in CredentialMethods /\ q.Jwt = Named(i)}
                key == {l[i].req.KeyId : i \in minted}
                signed == [KeyId : key] \cap Range(q.AllowedSigners) # {}
                expiry == UNION {Expiry(l[i].req) : i \in minted}
                One(S, none) == IF S = {} THEN none ELSE CHOOSE x \in S : TRUE
            IN {[Valid |-> signed /\ \A t \in expiry : t > Now, Reason |-> 0,
                 Subject |-> q.Jwt, Issuer |-> One(key, ""), JwtType |-> q.ExpectedType,
                 MatchedSignerKeyId |-> IF signed THEN One(key, "") ELSE "",
                 ExpiresAtUnix |-> One(expiry, 0), IssuedAtUnix |-> Now]}
       [] OTHER -> Answers(r)

\* The RPCs that the log does not decide the answers to.
Undecided ==
  {"UnsealCose", "IssueCertificate", "GetInvocationChallenge", "GetInvocationCapabilities",
   "Reload", "Explain", "Revoke", "Health", "Readiness", "Status"}

Response(r, q, l) == IF r \in CredentialMethods THEN Minted(q, l) ELSE Answer(r, q, l)
=============================================================================
