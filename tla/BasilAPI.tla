------------------------------ MODULE BasilAPI ------------------------------
(***************************************************************************)
(* The methods of basil.Client (basil/*.go, minting to administration) up  *)
(* to their RPC and after it: the arguments they refuse, the request they  *)
(* build from the others, and what they make of the response.  When they   *)
(* run, and against what, is BrokerClient's.                               *)
(*                                                                         *)
(* Arguments are records with the names of the Go parameters or of the     *)
(* fields of the request structs.  A Go pointer, a nil-able slice or an    *)
(* interface value is {} for nil and {value} otherwise.  A time.Time is    *)
(* its number of seconds, ZeroTime for the zero time.                      *)
(***************************************************************************)
EXTENDS BrokerMessages

CONSTANTS
  ZeroTime,     \* the zero time.Time, long before any time that occurs
  Two63,        \* 2^63, as far as TLC's numbers go
  len(_)        \* the length of a byte string

ASSUME TimeAssumption == ZeroTime \in Int /\ ZeroTime < 0 /\ Two63 \in Nat \ {0}

\* A pointer to a string that is nil for the empty one.
nonEmpty(s) == {s} \ {""}

int64(n) == IF n < Two63 THEN n ELSE n - 2 * Two63

InvocationChallengeLen == 32

-----------------------------------------------------------------------------
\* signing.go, keytype.go

\* Unknown key types become the zero value.
keyTypeFromProto(v) == IF v \in KeyType \ {0} THEN v ELSE 0

\* Both kinds of material; ed25519SeedMaterial and pkcs8DERMaterial.
toProto(m) ==
  IF m.kind = "ed25519Seed" THEN [Ed25519Seed |-> m.bytes] ELSE [Pkcs8Der |-> m.bytes]

SigningAlgorithmUnspecified == 0

SignWithAlgorithm(a) ==
  [KeyId |-> a.keyID, Message |-> a.message, Algorithm |-> a.alg]

Sign(a) ==
  SignWithAlgorithm([keyID |-> a.keyID, message |-> a.message,
                     alg |-> SigningAlgorithmUnspecified])

VerifyWithAlgorithm(a) ==
  [KeyId |-> a.keyID, Message |-> a.message, Signature |-> a.signature,
   Algorithm |-> a.alg]

Verify(a) ==
  VerifyWithAlgorithm([keyID |-> a.keyID, message |-> a.message,
                       signature |-> a.signature, alg |-> SigningAlgorithmUnspecified])

GetPublicKey(a) == [KeyId |-> a.keyID, Version |-> a.version]

PublicKey(r) ==
  [KeyID |-> r.KeyId, KeyType |-> keyTypeFromProto(r.KeyType), Bytes |-> r.PublicKey,
   Version |-> r.Version]

NewKey(a) == [KeyId |-> a.keyID, KeyType |-> a.keyType]

Import(a) ==
  [KeyId |-> a.keyID, KeyType |-> a.keyType,
   Material |-> {toProto(m) : m \in a.material}]

ImportSet(a) ==
  [Entries |-> [i \in DOMAIN a.entries |->
     [KeyId |-> a.entries[i].KeyID, KeyType |-> a.entries[i].KeyType,
      Material |-> {toProto(m) : m \in a.entries[i].Material}]]]

KeyHandle(r) == [KeyID |-> r.KeyId, PublicKey |-> r.PublicKey]

-----------------------------------------------------------------------------
\* aead.go

Encrypt(a) ==
  [KeyId |-> a.keyID, Algorithm |-> a.alg, Plaintext |-> a.plaintext, Aad |-> a.aad]

Ciphertext(env) ==
  [Algorithm |-> env.Alg, KeyVersion |-> env.KeyVersion, Nonce |-> env.Nonce,
   Bytes |-> env.Ciphertext]

\* Mutant of ciphertextToProto: the key version is left at its zero value.
CiphertextUnversioned(ct) ==
  {[Alg |-> c.Algorithm, KeyVersion |-> 0, Nonce |-> c.Nonce,
    Ciphertext |-> c.Bytes] : c \in ct}

ciphertextToProto(ct) ==
  {[Alg |-> c.Algorithm, KeyVersion |-> c.KeyVersion, Nonce |-> c.Nonce,
    Ciphertext |-> c.Bytes] : c \in ct}

Decrypt(a) == [KeyId |-> a.keyID, Envelope |-> ciphertextToProto(a.ct), Aad |-> a.aad]

WrapEnvelope(a) ==
  [KeyId |-> a.keyID, KemAlgorithm |-> a.kem, EnvelopeAlgorithm |-> a.env,
   Plaintext |-> a.plaintext, Aad |-> a.aad]

WrappedEnvelope(env) ==
  [KemAlgorithm |-> env.KemAlgorithm, EnvelopeAlgorithm |-> env.EnvelopeAlgorithm,
   KeyVersion |-> env.KeyVersion, EncapsulatedKey |-> env.EncapsulatedKey,
   Nonce |-> env.Nonce, Bytes |-> env.Ciphertext]

kemEnvelopeToProto(env) ==
  {[KemAlgorithm |-> e.KemAlgorithm, EnvelopeAlgorithm |-> e.EnvelopeAlgorithm,
    KeyVersion |-> e.KeyVersion, EncapsulatedKey |-> e.EncapsulatedKey,
    Nonce |-> e.Nonce, Ciphertext |-> e.Bytes] : e \in env}

UnwrapEnvelope(a) ==
  [KeyId |-> a.keyID, Envelope |-> kemEnvelopeToProto(a.env), Aad |-> a.aad]

UnsealCose(a) ==
  [KeyId |-> a.keyID, CoseEncrypt |-> a.coseEncrypt, ExternalAad |-> a.externalAAD]

-----------------------------------------------------------------------------
\* secret.go, invocation.go

GetSecret(a) == [SecretId |-> a.secretID, Version |-> a.version]

SetSecret(a) == [SecretId |-> a.secretID, Value |-> a.value]

RotateSecret(a) == [SecretId |-> a.secretID]

ListCatalog(a) == [Prefix |-> a.prefix]

catalogEntryFromProto(e) ==
  [Name |-> e.Name, Kind |-> e.Kind, LatestVersion |-> e.LatestVersion,
   KeyType |-> {keyTypeFromProto(v) : v \in e.KeyType}]

GetInvocationChallenge(a) ==
  [Jkt |-> a.jkt, CourierObservedSource |-> nonEmpty(a.courierObservedSource)]

InvocationChallenge(r) ==
  [Challenge |-> r.Challenge, Generation |-> r.Generation,
   ExpiresAtUnix |-> r.ExpiresAtUnix]

InvocationCapabilities(r) ==
  [ListenerProfile |-> r.ListenerProfile, RequireChallenge |-> r.RequireChallenge,
   CourierProtocolVersion |-> r.CourierProtocolVersion]

-----------------------------------------------------------------------------
\* minting.go

\* A claims value: a nil interface, JSON text (json.RawMessage, []byte,
\* string) or a Go value that json.Marshal encodes or not.  Its JSON is
\* empty, malformed, an object or other JSON, between white space or not.
Claims ==
  [go : {"nil", "text", "value", "not encodable"}, padded : BOOLEAN,
   json : {"empty", "malformed", "object", "other"}, text : Bytes]

\* The request structs.
JwtRequest == [KeyID : Str, Subject : Str, TTL : Int, Claims : Claims]

NatsUserRequest ==
  [KeyID : Str, SubjectUserNKey : Str, Name : Str, TTL : Int, PubAllow : Strs,
   PubDeny : Strs, SubAllow : Strs, SubDeny : Strs, IssuerAccount : Str]

NatsAccountRequest ==
  [KeyID : Str, SubjectAccountNKey : Str, Name : Str, TTL : Int, SigningKeys : Strs]

NatsOperatorRequest ==
  [KeyID : Str, SubjectOperatorNKey : Str, Name : Str, TTL : Int, SigningKeys : Strs,
   AccountServerURL : Str, SystemAccount : Str]

NatsSignerRequest == [KeyID : Str, SubjectNKey : Str, Name : Str, TTL : Int]

NatsServerRequest == [KeyID : Str, SubjectServerNKey : Str, Name : Str, TTL : Int]

NatsCurveRequest == [KeyID : Str, SubjectCurveNKey : Str, Name : Str, TTL : Int]

NatsCurveEncryptRequest == [KeyID : Str, RecipientPublicXKey : Str, Plaintext : Bytes]

NatsCurveDecryptRequest == [KeyID : Str, SenderPublicXKey : Str, Ciphertext : Bytes]

NatsJwtRequest ==
  [KeyID : Str, Claims : Claims, ExpectedType : Nat, TTL : Int, ExpiresAt : Int,
   IssuedAt : Int, JtiMode : Nat]

\* As its constructors make it: one of the names is empty.
AllowedSigner ==
  {s \in [keyID : Str, natsPublicKey : Str] : s.keyID = "" \/ s.natsPublicKey = ""}

NatsJwtToValidate ==
  [JWT : Str, AllowedSigners : Seq(AllowedSigner), ExpectedType : Nat]

CertificateRequest ==
  [IssuerKeyID : Str, CommonName : Str, DNSSANs : Strs, IPSANs : Strs, TTL : Int]

\* Mutant of durationOrNil: only a negative lifetime is left out.
DurationZeroSent(d) == IF d < 0 THEN {} ELSE {d}

durationOrNil(d) == IF d <= 0 THEN {} ELSE {d}

timestampOrNil(t) == IF t = ZeroTime THEN {} ELSE {t}

\* objectJSON: its error and the bytes, without the white space around them.
objectJSON(v) ==
  [err |-> IF v.go = "nil" THEN "missing JSON object"
           ELSE IF v.go = "not encodable" THEN "invalid"
           ELSE CASE v.json = "empty" -> "missing JSON object"
                  [] v.json = "malformed" -> "malformed JSON"
                  [] v.json = "other" -> "expected JSON object"
                  [] v.json = "object" -> "",
   raw |-> v.text]

optionalObjectJSON(v) ==
  IF v.go = "nil" THEN [err |-> "", raw |-> ""] ELSE objectJSON(v)

MintJwt(a) ==
  [KeyId |-> a.KeyID, Subject |-> nonEmpty(a.Subject), Ttl |-> durationOrNil(a.TTL),
   ExtraClaimsJson |-> optionalObjectJSON(a.Claims).raw]

\* Mutant of MintNatsUser: the denied subscriptions are those of publishing.
MintNatsUserDenyOnce(a) ==
  [KeyId |-> a.KeyID, SubjectUserNkey |-> a.SubjectUserNKey, Name |-> a.Name,
   Ttl |-> durationOrNil(a.TTL), PubAllow |-> a.PubAllow, PubDeny |-> a.PubDeny,
   SubAllow |-> a.SubAllow, SubDeny |-> a.PubDeny,
   IssuerAccount |-> nonEmpty(a.IssuerAccount)]

MintNatsUser(a) ==
  [KeyId |-> a.KeyID, SubjectUserNkey |-> a.SubjectUserNKey, Name |-> a.Name,
   Ttl |-> durationOrNil(a.TTL), PubAllow |-> a.PubAllow, PubDeny |-> a.PubDeny,
   SubAllow |-> a.SubAllow, SubDeny |-> a.SubDeny,
   IssuerAccount |-> nonEmpty(a.IssuerAccount)]

MintNatsAccount(a) ==
  [KeyId |-> a.KeyID, SubjectAccountNkey |-> a.SubjectAccountNKey, Name |-> a.Name,
   Ttl |-> durationOrNil(a.TTL), SigningKeys |-> a.SigningKeys]

MintNatsOperator(a) ==
  [KeyId |-> a.KeyID, SubjectOperatorNkey |-> nonEmpty(a.SubjectOperatorNKey),
   Name |-> a.Name, Ttl |-> durationOrNil(a.TTL), SigningKeys |-> a.SigningKeys,
   AccountServerUrl |-> nonEmpty(a.AccountServerURL),
   SystemAccount |-> nonEmpty(a.SystemAccount)]

MintNatsSigner(a) ==
  [KeyId |-> a.KeyID, SubjectNkey |-> a.SubjectNKey, Name |-> a.Name,
   Ttl |-> durationOrNil(a.TTL)]

MintNatsServer(a) ==
  [KeyId |-> a.KeyID, SubjectServerNkey |-> a.SubjectServerNKey, Name |-> a.Name,
   Ttl |-> durationOrNil(a.TTL)]

MintNatsCurve(a) ==
  [KeyId |-> a.KeyID, SubjectCurveNkey |-> a.SubjectCurveNKey, Name |-> a.Name,
   Ttl |-> durationOrNil(a.TTL)]

EncryptNatsCurve(a) ==
  [KeyId |-> a.KeyID, RecipientPublicXkey |-> a.RecipientPublicXKey,
   Plaintext |-> a.Plaintext]

DecryptNatsCurve(a) ==
  [KeyId |-> a.KeyID, SenderPublicXkey |-> a.SenderPublicXKey,
   Ciphertext |-> a.Ciphertext]

SignNatsJwt(a) ==
  [KeyId |-> a.KeyID, ClaimsJson |-> objectJSON(a.Claims).raw,
   ExpectedType |-> a.ExpectedType, Ttl |-> durationOrNil(a.TTL),
   ExpiresAt |-> timestampOrNil(a.ExpiresAt), IssuedAt |-> timestampOrNil(a.IssuedAt),
   JtiMode |-> a.JtiMode]

\* AllowedSigner.toProto, of a signer that one of the constructors made.
signerToProto(s) ==
  IF s.keyID # "" THEN [KeyId |-> s.keyID] ELSE [NatsPublicKey |-> s.natsPublicKey]

ValidateNatsJwt(a) ==
  [Jwt |-> a.JWT, ExpectedType |-> a.ExpectedType,
   AllowedSigners |-> [i \in DOMAIN a.AllowedSigners |->
                         signerToProto(a.AllowedSigners[i])]]

natsJwtValidationFromProto(r) ==
  LET time(n) == IF n # 0 THEN int64(n) ELSE ZeroTime
  IN [Valid |-> r.Valid, Reason |-> r.Reason, Subject |-> r.Subject,
      Issuer |-> r.Issuer, MatchedSignerKeyID |-> r.MatchedSignerKeyId,
      JWTType |-> r.JwtType, ExpiresAt |-> time(r.ExpiresAtUnix),
      IssuedAt |-> time(r.IssuedAtUnix)]

IssueCertificate(a) ==
  [IssuerKeyId |-> a.IssuerKeyID, CommonName |-> a.CommonName, DnsSans |-> a.DNSSANs,
   IpSans |-> a.IPSANs, Ttl |-> durationOrNil(a.TTL)]

Certificate(r) ==
  [CertChainDER |-> r.CertChainDer, PrivateKeyDER |-> r.PrivateKeyDer,
   CAChainDER |-> r.CaChainDer]

credentialFromProto(r) ==
  [Token |-> r.Token,
   ExpiresAt |-> IF r.ExpiresAt = {} THEN ZeroTime ELSE CHOOSE t \in r.ExpiresAt : TRUE]

-----------------------------------------------------------------------------
\* admin.go, but for Watch

Reload(a) == [Check |-> a.check]

ReloadResult(r) ==
  [Applied |-> r.Applied, Checked |-> r.Checked,
   PreviousGeneration |-> r.PreviousGeneration, NewGeneration |-> r.NewGeneration,
   KeyCount |-> r.KeyCount, GrantCount |-> r.GrantCount, Rejection |-> r.Rejection]

Explain(a) == [Subject |-> a.subject, Op |-> a.op, Key |-> a.key]

\* The text: a word, with the number of a decision that is not known.
explainDecision(d) ==
  CASE d = ExplainDecision.ALLOW -> <<"allow">>
    [] d = ExplainDecision.DENY -> <<"deny">>
    [] OTHER -> <<"UNKNOWN", d>>

ExplainResult(r) ==
  [Subject |-> r.Subject, Op |-> r.Op, Key |-> r.Key,
   Decision |-> explainDecision(r.Decision), Via |-> r.Via, Reason |-> r.Reason,
   MatchedRule |-> r.MatchedRule]

Revoke(a) ==
  [TrustDomain |-> a.trustDomain, Jti |-> a.jti, ExpiresAtUnix |-> a.expiresAtUnix]

RevokeResult(r) ==
  [TrustDomain |-> r.TrustDomain, JTI |-> r.Jti, ExpiresAtUnix |-> r.ExpiresAtUnix,
   Persisted |-> r.Persisted]

Health(r) == [Alive |-> r.Alive, Version |-> r.Version]

Readiness(r) ==
  [Ready |-> r.Ready, Reason |-> r.Reason, Generation |-> r.Generation,
   KeysTotal |-> r.KeysTotal, KeysPresent |-> r.KeysPresent,
   KeysRequiredMissing |-> r.KeysRequiredMissing,
   KeysOptionalMissing |-> r.KeysOptionalMissing]

Status(r) == [Backend |-> r.Backend, Version |-> r.Version, Protocol |-> r.Protocol]

-----------------------------------------------------------------------------
\* Every method: its arguments, its RPC, its checks, its request and its result.

Material == [kind : {"ed25519Seed", "pkcs8DER"}, bytes : Bytes]

EntryToImport == [KeyID : Str, KeyType : Enum, Material : Opt(Material)]

CiphertextStruct == [Algorithm : Enum, KeyVersion : Nat, Nonce : Bytes, Bytes : Bytes]

KemEnvelopeStruct ==
  [KemAlgorithm : Enum, EnvelopeAlgorithm : Enum, KeyVersion : Nat,
   EncapsulatedKey : Bytes, Nonce : Bytes, Bytes : Bytes]

Arguments ==
  [Sign |-> [keyID : Str, message : Bytes],
   SignWithAlgorithm |-> [keyID : Str, message : Bytes, alg : Enum],
   Verify |-> [keyID : Str, message : Bytes, signature : Bytes],
   VerifyWithAlgorithm |-> [keyID : Str, message : Bytes, signature : Bytes, alg : Enum],
   GetPublicKey |-> [keyID : Str, version : Opt(Nat)],
   NewKey |-> [keyID : Str, keyType : Enum],
   Import |-> [keyID : Str, keyType : Enum, material : Opt(Material)],
   ImportSet |-> [entries : Seq(EntryToImport)],
   Encrypt |-> [keyID : Str, alg : Enum, plaintext : Bytes, aad : Opt(Bytes)],
   Decrypt |-> [keyID : Str, ct : Opt(CiphertextStruct), aad : Opt(Bytes)],
   WrapEnvelope |->
     [keyID : Str, kem : Enum, env : Enum, plaintext : Bytes, aad : Opt(Bytes)],
   UnwrapEnvelope |-> [keyID : Str, env : Opt(KemEnvelopeStruct), aad : Opt(Bytes)],
   UnsealCose |-> [keyID : Str, coseEncrypt : Bytes, externalAAD : Opt(Bytes)],
   GetSecret |-> [secretID : Str, version : Opt(Nat)],
   SetSecret |-> [secretID : Str, value : Bytes],
   RotateSecret |-> [secretID : Str],
   ListCatalog |-> [prefix : Opt(Str)],
   GetInvocationChallenge |-> [jkt : Bytes, courierObservedSource : Str],
   GetInvocationCapabilities |-> {<<>>},
   MintJwt |-> JwtRequest, MintNatsUser |-> NatsUserRequest,
   MintNatsAccount |-> NatsAccountRequest, MintNatsOperator |-> NatsOperatorRequest,
   MintNatsSigner |-> NatsSignerRequest, MintNatsServer |-> NatsServerRequest,
   MintNatsCurve |-> NatsCurveRequest, EncryptNatsCurve |-> NatsCurveEncryptRequest,
   DecryptNatsCurve |-> NatsCurveDecryptRequest, SignNatsJwt |-> NatsJwtRequest,
   ValidateNatsJwt |-> NatsJwtToValidate, IssueCertificate |-> CertificateRequest,
   Reload |-> [check : BOOLEAN],
   Explain |-> [subject : Str, op : Str, key : Str],
   Revoke |-> [trustDomain : Str, jti : Str, expiresAtUnix : Nat],
   Health |-> {<<>>}, Readiness |-> {<<>>}, Status |-> {<<>>}]

rpc(op) ==
  IF op = "SignWithAlgorithm" THEN "Sign"
  ELSE IF op = "VerifyWithAlgorithm" THEN "Verify" ELSE op

CredentialMethods ==
  {"MintJwt", "MintNatsUser", "MintNatsAccount", "MintNatsOperator", "MintNatsSigner",
   "MintNatsServer", "MintNatsCurve", "SignNatsJwt"}

\* The arguments that are an error before anything is sent.
refuses(op, a) ==
  CASE op = "Import" -> a.material = {}
    [] op = "ImportSet" -> \E i \in DOMAIN a.entries : a.entries[i].Material = {}
    [] op = "GetInvocationChallenge" -> len(a.jkt) # InvocationChallengeLen
    [] op = "MintJwt" -> optionalObjectJSON(a.Claims).err # ""
    [] op = "SignNatsJwt" -> objectJSON(a.Claims).err # ""
    [] op = "ValidateNatsJwt" ->
         [keyID |-> "", natsPublicKey |-> ""] \in
           {a.AllowedSigners[i] : i \in DOMAIN a.AllowedSigners}
    [] OTHER -> FALSE

request(op, a) ==
  CASE op = "Sign" -> Sign(a)
    [] op = "SignWithAlgorithm" -> SignWithAlgorithm(a)
    [] op = "Verify" -> Verify(a)
    [] op = "VerifyWithAlgorithm" -> VerifyWithAlgorithm(a)
    [] op = "GetPublicKey" -> GetPublicKey(a)
    [] op = "NewKey" -> NewKey(a)
    [] op = "Import" -> Import(a)
    [] op = "ImportSet" -> ImportSet(a)
    [] op = "Encrypt" -> Encrypt(a)
    [] op = "Decrypt" -> Decrypt(a)
    [] op = "WrapEnvelope" -> WrapEnvelope(a)
    [] op = "UnwrapEnvelope" -> UnwrapEnvelope(a)
    [] op = "UnsealCose" -> UnsealCose(a)
    [] op = "GetSecret" -> GetSecret(a)
    [] op = "SetSecret" -> SetSecret(a)
    [] op = "RotateSecret" -> RotateSecret(a)
    [] op = "ListCatalog" -> ListCatalog(a)
    [] op = "GetInvocationChallenge" -> GetInvocationChallenge(a)
    [] op = "MintJwt" -> MintJwt(a)
    [] op = "MintNatsUser" -> MintNatsUser(a)
    [] op = "MintNatsAccount" -> MintNatsAccount(a)
    [] op = "MintNatsOperator" -> MintNatsOperator(a)
    [] op = "MintNatsSigner" -> MintNatsSigner(a)
    [] op = "MintNatsServer" -> MintNatsServer(a)
    [] op = "MintNatsCurve" -> MintNatsCurve(a)
    [] op = "EncryptNatsCurve" -> EncryptNatsCurve(a)
    [] op = "DecryptNatsCurve" -> DecryptNatsCurve(a)
    [] op = "SignNatsJwt" -> SignNatsJwt(a)
    [] op = "ValidateNatsJwt" -> ValidateNatsJwt(a)
    [] op = "IssueCertificate" -> IssueCertificate(a)
    [] op = "Reload" -> Reload(a)
    [] op = "Explain" -> Explain(a)
    [] op = "Revoke" -> Revoke(a)
    [] op \in {"GetInvocationCapabilities", "Health", "Readiness", "Status"} -> <<>>

\* The responses that are an error although the call succeeded.
unusable(op, r) ==
  CASE op \in {"Encrypt", "WrapEnvelope"} -> r.Envelope = {}
    [] op = "GetInvocationChallenge" -> len(r.Challenge) # InvocationChallengeLen
    [] op = "GetInvocationCapabilities" ->
         r.ListenerProfile \notin {ListenerProfile.HOST, ListenerProfile.COURIER}
    [] OTHER -> FALSE

result(op, r) ==
  CASE op \in {"Sign", "SignWithAlgorithm"} -> r.Signature
    [] op \in {"Verify", "VerifyWithAlgorithm"} -> r.Valid
    [] op = "GetPublicKey" -> PublicKey(r)
    [] op \in {"NewKey", "Import"} -> KeyHandle(r)
    [] op = "ImportSet" -> [i \in DOMAIN r.Keys |-> KeyHandle(r.Keys[i])]
    [] op = "Encrypt" -> Ciphertext(CHOOSE env \in r.Envelope : TRUE)
    [] op = "WrapEnvelope" -> WrappedEnvelope(CHOOSE env \in r.Envelope : TRUE)
    [] op \in {"Decrypt", "UnwrapEnvelope", "UnsealCose", "DecryptNatsCurve"} ->
         r.Plaintext
    [] op = "GetSecret" -> [Value |-> r.Value, Version |-> r.Version]
    [] op \in {"SetSecret", "RotateSecret"} -> r.Version
    [] op = "GetInvocationChallenge" -> InvocationChallenge(r)
    [] op = "GetInvocationCapabilities" -> InvocationCapabilities(r)
    [] op \in CredentialMethods -> credentialFromProto(r)
    [] op = "EncryptNatsCurve" -> r.Ciphertext
    [] op = "ValidateNatsJwt" -> natsJwtValidationFromProto(r)
    [] op = "IssueCertificate" -> Certificate(r)
    [] op = "Reload" -> ReloadResult(r)
    [] op = "Explain" -> ExplainResult(r)
    [] op = "Revoke" -> RevokeResult(r)
    [] op = "Health" -> Health(r)
    [] op = "Readiness" -> Readiness(r)
    [] op = "Status" -> Status(r)
=============================================================================
