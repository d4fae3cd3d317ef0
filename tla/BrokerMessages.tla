--------------------------- MODULE BrokerMessages ---------------------------
(***************************************************************************)
(* The messages of the broker's services as the client sees them: the      *)
(* structs and getters of internal/pb/broker.pb.go, and the messages that  *)
(* a method of a service takes and returns (broker_grpc.pb.go).            *)
(*                                                                         *)
(* A message is the record of its fields.  An optional field or a pointer  *)
(* is {} when it is absent and {value} when it is there; a oneof is a      *)
(* record with one of its fields.  Byte strings are opaque, so strings     *)
(* stand for them.  Enumerations are open in proto3: their fields hold any *)
(* number.  Fields of responses that no code of the client reads are left  *)
(* out, and so are the messages it does not use.                           *)
(***************************************************************************)
EXTENDS Integers, Sequences

Opt(S) == {o \in SUBSET S : \A x, y \in o : x = y}

Str == STRING
Bytes == STRING
Strs == Seq(STRING)
Enum == Nat
Duration == Int   \* google.protobuf.Duration
Timestamp == Int  \* google.protobuf.Timestamp

\* The zero value of both, which the provers do not find in STRING by themselves.
ASSUME EmptyAssumption == "" \in Str /\ "" \in Bytes

\* The numbers that the client tells apart.
KeyType == 0 .. 12
ListenerProfile == [UNSPECIFIED |-> 0, HOST |-> 1, COURIER |-> 3]
ExplainDecision == [UNSPECIFIED |-> 0, ALLOW |-> 1, DENY |-> 2]

-----------------------------------------------------------------------------
\* Invocation, signing.

GetInvocationChallengeRequest == [Jkt : Bytes, CourierObservedSource : Opt(Str)]
GetInvocationChallengeResponse ==
  [Challenge : Bytes, Generation : Nat, ExpiresAtUnix : Int]
GetInvocationCapabilitiesRequest == {<<>>}
GetInvocationCapabilitiesResponse ==
  [ListenerProfile : Enum, RequireChallenge : BOOLEAN, CourierProtocolVersion : Nat]

KeyMaterial == [Ed25519Seed : Bytes] \cup [Pkcs8Der : Bytes]
NewKeyRequest == [KeyId : Str, KeyType : Enum]
NewKeyResponse == [KeyId : Str, PublicKey : Bytes]
ImportRequest == [KeyId : Str, KeyType : Enum, Material : Opt(KeyMaterial)]
ImportEntry == [KeyId : Str, KeyType : Enum, Material : Opt(KeyMaterial)]
ImportSetRequest == [Entries : Seq(ImportEntry)]
ImportedKey == [KeyId : Str, PublicKey : Bytes]
ImportSetResponse == [Keys : Seq(ImportedKey)]
SignRequest == [KeyId : Str, Message : Bytes, Algorithm : Enum]
SignResponse == [Signature : Bytes]
VerifyRequest == [KeyId : Str, Message : Bytes, Signature : Bytes, Algorithm : Enum]
VerifyResponse == [Valid : BOOLEAN]
GetPublicKeyRequest == [KeyId : Str, Version : Opt(Nat)]
GetPublicKeyResponse == [KeyId : Str, KeyType : Enum, PublicKey : Bytes, Version : Nat]

-----------------------------------------------------------------------------
\* Encryption, secrets.

CiphertextEnvelope == [Alg : Enum, KeyVersion : Nat, Nonce : Bytes, Ciphertext : Bytes]
KemEnvelope ==
  [KemAlgorithm : Enum, EnvelopeAlgorithm : Enum, KeyVersion : Nat,
   EncapsulatedKey : Bytes, Nonce : Bytes, Ciphertext : Bytes]
EncryptRequest == [KeyId : Str, Algorithm : Enum, Plaintext : Bytes, Aad : Opt(Bytes)]
EncryptResponse == [Envelope : Opt(CiphertextEnvelope)]
DecryptRequest == [KeyId : Str, Envelope : Opt(CiphertextEnvelope), Aad : Opt(Bytes)]
DecryptResponse == [Plaintext : Bytes]
WrapEnvelopeRequest ==
  [KeyId : Str, KemAlgorithm : Enum, EnvelopeAlgorithm : Enum, Plaintext : Bytes,
   Aad : Opt(Bytes)]
WrapEnvelopeResponse == [Envelope : Opt(KemEnvelope)]
UnwrapEnvelopeRequest == [KeyId : Str, Envelope : Opt(KemEnvelope), Aad : Opt(Bytes)]
UnwrapEnvelopeResponse == [Plaintext : Bytes]
UnsealCoseRequest == [KeyId : Str, CoseEncrypt : Bytes, ExternalAad : Opt(Bytes)]
UnsealCoseResponse == [Plaintext : Bytes]

GetSecretRequest == [SecretId : Str, Version : Opt(Nat)]
GetSecretResponse == [Value : Bytes, Version : Nat]
SetSecretRequest == [SecretId : Str, Value : Bytes]
SetSecretResponse == [Version : Nat]
RotateSecretRequest == [SecretId : Str]
RotateSecretResponse == [Version : Nat]
ListCatalogRequest == [Prefix : Opt(Str)]
CatalogEntry == [Name : Str, Kind : Enum, KeyType : Opt(Enum), LatestVersion : Nat]

-----------------------------------------------------------------------------
\* Minting, NATS.

MintJwtRequest ==
  [KeyId : Str, Subject : Opt(Str), Ttl : Opt(Duration), ExtraClaimsJson : Bytes]
MintNatsUserRequest ==
  [KeyId : Str, SubjectUserNkey : Str, Name : Str, Ttl : Opt(Duration), PubAllow : Strs,
   PubDeny : Strs, SubAllow : Strs, SubDeny : Strs, IssuerAccount : Opt(Str)]
MintNatsAccountRequest ==
  [KeyId : Str, SubjectAccountNkey : Str, Name : Str, Ttl : Opt(Duration),
   SigningKeys : Strs]
MintNatsOperatorRequest ==
  [KeyId : Str, SubjectOperatorNkey : Opt(Str), Name : Str, Ttl : Opt(Duration),
   SigningKeys : Strs, AccountServerUrl : Opt(Str), SystemAccount : Opt(Str)]
MintNatsSignerRequest ==
  [KeyId : Str, SubjectNkey : Str, Name : Str, Ttl : Opt(Duration)]
MintNatsServerRequest ==
  [KeyId : Str, SubjectServerNkey : Str, Name : Str, Ttl : Opt(Duration)]
MintNatsCurveRequest ==
  [KeyId : Str, SubjectCurveNkey : Str, Name : Str, Ttl : Opt(Duration)]
EncryptNatsCurveRequest == [KeyId : Str, RecipientPublicXkey : Str, Plaintext : Bytes]
EncryptNatsCurveResponse == [Ciphertext : Bytes]
DecryptNatsCurveRequest == [KeyId : Str, SenderPublicXkey : Str, Ciphertext : Bytes]
DecryptNatsCurveResponse == [Plaintext : Bytes]
SignNatsJwtRequest ==
  [KeyId : Str, ClaimsJson : Bytes, ExpectedType : Enum, Ttl : Opt(Duration),
   ExpiresAt : Opt(Timestamp), IssuedAt : Opt(Timestamp), JtiMode : Enum]
AllowedNatsSigner == [KeyId : Str] \cup [NatsPublicKey : Str]
ValidateNatsJwtRequest ==
  [Jwt : Str, AllowedSigners : Seq(AllowedNatsSigner), ExpectedType : Enum]
ValidateNatsJwtResponse ==
  [Valid : BOOLEAN, Reason : Enum, Subject : Str, Issuer : Str,
   MatchedSignerKeyId : Str, JwtType : Enum, ExpiresAtUnix : Nat, IssuedAtUnix : Nat]
CredentialResponse == [Token : Str, ExpiresAt : Opt(Timestamp)]
IssueCertificateRequest ==
  [IssuerKeyId : Str, CommonName : Str, DnsSans : Strs, IpSans : Strs,
   Ttl : Opt(Duration)]
IssueCertificateResponse ==
  [CertChainDer : Strs, PrivateKeyDer : Bytes, CaChainDer : Strs]

-----------------------------------------------------------------------------
\* Administration.

ReloadRequest == [Check : BOOLEAN]
ReloadRejection == [Reason : Str, Message : Str]
ReloadResponse ==
  [Applied : BOOLEAN, Checked : BOOLEAN, PreviousGeneration : Nat, NewGeneration : Nat,
   KeyCount : Nat, GrantCount : Nat, Rejection : Opt(ReloadRejection)]
ExplainRequest == [Subject : Str, Op : Str, Key : Str]
MatchedRule == [Rule : Str, Via : Str, Action : Str, Target : Str, Subject : Str]
ExplainResponse ==
  [Subject : Str, Op : Str, Key : Str, Decision : Enum, Via : Str, Reason : Str,
   MatchedRule : Opt(MatchedRule)]
RevokeRequest == [TrustDomain : Str, Jti : Str, ExpiresAtUnix : Nat]
RevokeResponse ==
  [TrustDomain : Str, Jti : Str, ExpiresAtUnix : Nat, Persisted : BOOLEAN]
HealthRequest == {<<>>}
HealthResponse == [Alive : BOOLEAN, Version : Str]
ReadinessRequest == {<<>>}
ReadinessResponse ==
  [Ready : BOOLEAN, Reason : Enum, Generation : Nat, KeysTotal : Nat,
   KeysPresent : Nat, KeysRequiredMissing : Nat, KeysOptionalMissing : Nat]
StatusRequest == {<<>>}
StatusResponse == [Backend : Str, Version : Str, Protocol : Nat]
WatchRequest == [Kinds : Seq(Enum)]
KeyRotated == [KeyId : Str, NewVersion : Nat]
BundleChanged == [TrustDomain : Str]
Revoked == [TrustDomain : Str, Id : Str]
Event ==
  [Kind : Enum, At : Opt(Timestamp),
   Detail : Opt([KeyRotated : KeyRotated] \cup [BundleChanged : BundleChanged]
                  \cup [Revoked : Revoked])]

\* The structured detail of a status the broker fails a call with.
BrokerErrorInfo == [Reason : Str, Op : Str]

-----------------------------------------------------------------------------
\* The services: the message each method takes and the one it returns, or
\* streams.

Method(in, out) == [in |-> in, out |-> out]

InvocationServiceClient ==
  [GetInvocationChallenge |->
     Method(GetInvocationChallengeRequest, GetInvocationChallengeResponse),
   GetInvocationCapabilities |->
     Method(GetInvocationCapabilitiesRequest, GetInvocationCapabilitiesResponse)]

SigningServiceClient ==
  [NewKey       |-> Method(NewKeyRequest, NewKeyResponse),
   Import       |-> Method(ImportRequest, NewKeyResponse),
   ImportSet    |-> Method(ImportSetRequest, ImportSetResponse),
   Sign         |-> Method(SignRequest, SignResponse),
   Verify       |-> Method(VerifyRequest, VerifyResponse),
   GetPublicKey |-> Method(GetPublicKeyRequest, GetPublicKeyResponse)]

AeadServiceClient ==
  [Encrypt        |-> Method(EncryptRequest, EncryptResponse),
   Decrypt        |-> Method(DecryptRequest, DecryptResponse),
   WrapEnvelope   |-> Method(WrapEnvelopeRequest, WrapEnvelopeResponse),
   UnwrapEnvelope |-> Method(UnwrapEnvelopeRequest, UnwrapEnvelopeResponse),
   UnsealCose     |-> Method(UnsealCoseRequest, UnsealCoseResponse)]

SecretServiceClient ==
  [GetSecret    |-> Method(GetSecretRequest, GetSecretResponse),
   SetSecret    |-> Method(SetSecretRequest, SetSecretResponse),
   RotateSecret |-> Method(RotateSecretRequest, RotateSecretResponse),
   ListCatalog  |-> Method(ListCatalogRequest, Seq(CatalogEntry))]

MintingServiceClient ==
  [MintJwt          |-> Method(MintJwtRequest, CredentialResponse),
   IssueCertificate |-> Method(IssueCertificateRequest, IssueCertificateResponse)]

NatsServiceClient ==
  [MintNatsUser     |-> Method(MintNatsUserRequest, CredentialResponse),
   MintNatsAccount  |-> Method(MintNatsAccountRequest, CredentialResponse),
   MintNatsOperator |-> Method(MintNatsOperatorRequest, CredentialResponse),
   MintNatsSigner   |-> Method(MintNatsSignerRequest, CredentialResponse),
   MintNatsServer   |-> Method(MintNatsServerRequest, CredentialResponse),
   MintNatsCurve    |-> Method(MintNatsCurveRequest, CredentialResponse),
   EncryptNatsCurve |-> Method(EncryptNatsCurveRequest, EncryptNatsCurveResponse),
   DecryptNatsCurve |-> Method(DecryptNatsCurveRequest, DecryptNatsCurveResponse),
   SignNatsJwt      |-> Method(SignNatsJwtRequest, CredentialResponse),
   ValidateNatsJwt  |-> Method(ValidateNatsJwtRequest, ValidateNatsJwtResponse)]

AdminServiceClient ==
  [Reload    |-> Method(ReloadRequest, ReloadResponse),
   Explain   |-> Method(ExplainRequest, ExplainResponse),
   Revoke    |-> Method(RevokeRequest, RevokeResponse),
   Health    |-> Method(HealthRequest, HealthResponse),
   Readiness |-> Method(ReadinessRequest, ReadinessResponse),
   Status    |-> Method(StatusRequest, StatusResponse),
   Watch     |-> Method(WatchRequest, Seq(Event))]

Methods ==
  [r \in DOMAIN InvocationServiceClient \cup DOMAIN SigningServiceClient
           \cup DOMAIN AeadServiceClient \cup DOMAIN SecretServiceClient
           \cup DOMAIN MintingServiceClient \cup DOMAIN NatsServiceClient
           \cup DOMAIN AdminServiceClient |->
     CASE r \in DOMAIN InvocationServiceClient -> InvocationServiceClient[r]
       [] r \in DOMAIN SigningServiceClient -> SigningServiceClient[r]
       [] r \in DOMAIN AeadServiceClient -> AeadServiceClient[r]
       [] r \in DOMAIN SecretServiceClient -> SecretServiceClient[r]
       [] r \in DOMAIN MintingServiceClient -> MintingServiceClient[r]
       [] r \in DOMAIN NatsServiceClient -> NatsServiceClient[r]
       [] r \in DOMAIN AdminServiceClient -> AdminServiceClient[r]]
=============================================================================
