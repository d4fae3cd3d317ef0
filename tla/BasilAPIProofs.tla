--------------------------- MODULE BasilAPIProofs ---------------------------
(***************************************************************************)
(* What the methods of basil.Client send, and what they make of what the   *)
(* broker answers: requests are of the types of the services, answers are  *)
(* of theirs, the conversions lose nothing, and what a call made is in the *)
(* answers to the calls made of its result.  For every argument and every  *)
(* log of the broker, whichever calls have led to it; which logs and calls *)
(* there can be is BrokerClientProofs'.                                    *)
(***************************************************************************)
EXTENDS BrokerClient, WellFoundedInduction, FiniteSetTheorems, TLAPS

\* Every set of numbers has a least one.
LEMMA LeastNat ==
  ASSUME NEW T, T \subseteq Nat, T # {}
  PROVE  \E x \in T : \A y \in T : x <= y
<1> DEFINE R == OpToRel(<, Nat)
<1>1. IsWellFoundedOn(R, Nat)
  BY NatLessThanWellFounded
<1>2. \A x, y \in Nat : y < x => <<y, x>> \in R
  BY DEF OpToRel
<1> HIDE DEF R
<1>3. PICK x \in T : \A y \in T : ~(<<y, x>> \in R)
  BY <1>1, WFMin
<1>4. ASSUME NEW y \in T PROVE x <= y
  <2>1. x \in Nat /\ y \in Nat
    OBVIOUS
  <2>2. ~(y < x)
    BY <1>2, <1>3, <2>1, Zenon
  <2> QED
    BY <2>1, <2>2
<1> QED
  BY <1>3, <1>4

LEMMA Services ==
  /\ \A r \in DOMAIN InvocationServiceClient : Methods[r] = InvocationServiceClient[r]
  /\ \A r \in DOMAIN SigningServiceClient : Methods[r] = SigningServiceClient[r]
  /\ \A r \in DOMAIN AeadServiceClient : Methods[r] = AeadServiceClient[r]
  /\ \A r \in DOMAIN SecretServiceClient : Methods[r] = SecretServiceClient[r]
  /\ \A r \in DOMAIN MintingServiceClient : Methods[r] = MintingServiceClient[r]
  /\ \A r \in DOMAIN NatsServiceClient : Methods[r] = NatsServiceClient[r]
  /\ \A r \in DOMAIN AdminServiceClient : Methods[r] = AdminServiceClient[r]
  BY SMTT(60) DEF Methods, InvocationServiceClient, SigningServiceClient, AeadServiceClient,
         SecretServiceClient, MintingServiceClient, NatsServiceClient, AdminServiceClient

\* A method's request is a message of its RPC's type, and two requests that
\* are equal ask for the same.
Faithful(op) ==
  /\ \A a \in Arguments[op] : request(op, a) \in Methods[rpc(op)].in
  /\ \A a, b \in Arguments[op] :
       ~refuses(op, a) /\ ~refuses(op, b) /\ request(op, a) = request(op, b)
         => Asked(a) = Asked(b)

\* What Asked makes of a lifetime and of claims.
Lifetime(d) == IF d > 0 THEN d ELSE 0
ClaimsText(v) == IF v.go = "nil" THEN "" ELSE v.text

LEMMA AskedSame ==
  ASSUME NEW a, NEW b, DOMAIN a = DOMAIN b,
         \A f \in DOMAIN a \ {"TTL", "Claims"} : a[f] = b[f],
         "TTL" \in DOMAIN a => Lifetime(a.TTL) = Lifetime(b.TTL),
         "Claims" \in DOMAIN a => ClaimsText(a.Claims) = ClaimsText(b.Claims)
  PROVE  Asked(a) = Asked(b)
<1> DEFINE F(x, f) == CASE f = "TTL" -> Lifetime(x.TTL)
                        [] f = "Claims" -> ClaimsText(x.Claims)
                        [] OTHER -> x[f]
<1>1. /\ Asked(a) = [f \in DOMAIN a |-> F(a, f)]
      /\ Asked(b) = [f \in DOMAIN b |-> F(b, f)]
  BY Zenon DEF Asked, Lifetime, ClaimsText
<1>2. \A f \in DOMAIN a : F(a, f) = F(b, f)
  OBVIOUS
<1> HIDE DEF F
<1> QED
  BY <1>1, <1>2, Zenon

LEMMA NonEmpty ==
  /\ \A s, t : nonEmpty(s) = nonEmpty(t) => s = t
  /\ \A s \in Str : nonEmpty(s) \in Opt(Str)
<1>1. ASSUME NEW s, NEW t, nonEmpty(s) = nonEmpty(t) PROVE s = t
  <2>1. s # "" => s \in nonEmpty(s)
    BY Zenon DEF nonEmpty
  <2>2. t # "" => t \in nonEmpty(t)
    BY Zenon DEF nonEmpty
  <2>3. \A u : (u \in nonEmpty(s) => u = s) /\ (u \in nonEmpty(t) => u = t)
    BY Zenon DEF nonEmpty
  <2> QED
    BY <1>1, <2>1, <2>2, <2>3, Zenon
<1>2. ASSUME NEW s \in Str PROVE nonEmpty(s) \in Opt(Str)
  BY Zenon DEF nonEmpty, Opt
<1> QED
  BY <1>1, <1>2, Zenon

LEMMA Lifetimes ==
  /\ \A s, t \in Int : durationOrNil(s) = durationOrNil(t) => Lifetime(s) = Lifetime(t)
  /\ \A s \in Int : durationOrNil(s) \in Opt(Duration)
  BY DEF durationOrNil, Lifetime, Opt, Duration

LEMMA Times ==
  /\ \A s, t : timestampOrNil(s) = timestampOrNil(t) => s = t
  /\ \A s \in Int : timestampOrNil(s) \in Opt(Timestamp)
<1>1. \A s, t : timestampOrNil(s) = timestampOrNil(t) => s = t
  BY Zenon DEF timestampOrNil
<1>2. \A s \in Int : timestampOrNil(s) \in Opt(Timestamp)
  BY DEF timestampOrNil, Opt, Timestamp
<1> QED
  BY <1>1, <1>2

LEMMA ClaimsBytes ==
  \A v \in Claims : objectJSON(v).raw \in Bytes /\ optionalObjectJSON(v).raw \in Bytes
<1> TAKE v \in Claims
<1>1. v.text \in Bytes
  BY DEF Claims
<1> QED
  BY <1>1, EmptyAssumption, Zenon DEF objectJSON, optionalObjectJSON

LEMMA ClaimsKept ==
  /\ \A v : optionalObjectJSON(v).raw = ClaimsText(v)
  /\ \A v : objectJSON(v).err = "" => objectJSON(v).raw = ClaimsText(v)
<1>1. ASSUME NEW v PROVE objectJSON(v).raw = v.text
  BY Zenon DEF objectJSON
<1>2. ASSUME NEW v PROVE optionalObjectJSON(v).raw = ClaimsText(v)
  BY <1>1, Zenon DEF optionalObjectJSON, ClaimsText
<1>3. ASSUME NEW v, objectJSON(v).err = "" PROVE v.go # "nil"
  <2>1. v.go = "nil" => objectJSON(v).err = "missing JSON object"
    BY Zenon DEF objectJSON
  <2>2. "missing JSON object" # ""
    BY ONLY TRUE
  <2> QED
    BY <1>3, <2>1, <2>2, Zenon
<1> QED
  BY <1>1, <1>2, <1>3, Zenon DEF ClaimsText

LEMMA SignFaithful == Faithful("Sign")
<1>1. Arguments["Sign"] = [keyID : Str, message : Bytes]
  BY Zenon DEF Arguments
<1>2. \A a \in Arguments["Sign"] : Sign(a) \in SignRequest
  BY <1>1 DEF Sign, SignWithAlgorithm, SignRequest, SigningAlgorithmUnspecified, Enum
<1>3. \A a, b \in Arguments["Sign"] : Sign(a) = Sign(b) => a = b
  BY <1>1 DEF Sign, SignWithAlgorithm
<1>4. Methods[rpc("Sign")].in = SignRequest
  BY Services DEF SigningServiceClient, Method, rpc
<1>5. \A a : request("Sign", a) = Sign(a)
  BY Zenon DEF request
<1> QED
  BY <1>2, <1>3, <1>4, <1>5, Zenon DEF Faithful

LEMMA SignWithAlgorithmFaithful == Faithful("SignWithAlgorithm")
<1>1. Arguments["SignWithAlgorithm"] = [keyID : Str, message : Bytes, alg : Enum]
  BY Zenon DEF Arguments
<1>2. \A a \in Arguments["SignWithAlgorithm"] : SignWithAlgorithm(a) \in SignRequest
  BY <1>1 DEF SignWithAlgorithm, SignRequest
<1>3. \A a, b \in Arguments["SignWithAlgorithm"] : SignWithAlgorithm(a) = SignWithAlgorithm(b) => a = b
  BY <1>1 DEF SignWithAlgorithm
<1>4. Methods[rpc("SignWithAlgorithm")].in = SignRequest
  BY Services DEF SigningServiceClient, Method, rpc
<1>5. \A a : request("SignWithAlgorithm", a) = SignWithAlgorithm(a)
  BY Zenon DEF request
<1> QED
  BY <1>2, <1>3, <1>4, <1>5, Zenon DEF Faithful

LEMMA VerifyFaithful == Faithful("Verify")
<1>1. Arguments["Verify"] = [keyID : Str, message : Bytes, signature : Bytes]
  BY Zenon DEF Arguments
<1>2. \A a \in Arguments["Verify"] : Verify(a) \in VerifyRequest
  BY <1>1 DEF Verify, VerifyWithAlgorithm, VerifyRequest, SigningAlgorithmUnspecified, Enum
<1>3. \A a, b \in Arguments["Verify"] : Verify(a) = Verify(b) => a = b
  BY <1>1 DEF Verify, VerifyWithAlgorithm
<1>4. Methods[rpc("Verify")].in = VerifyRequest
  BY Services DEF SigningServiceClient, Method, rpc
<1>5. \A a : request("Verify", a) = Verify(a)
  BY Zenon DEF request
<1> QED
  BY <1>2, <1>3, <1>4, <1>5, Zenon DEF Faithful

LEMMA VerifyWithAlgorithmFaithful == Faithful("VerifyWithAlgorithm")
<1>1. Arguments["VerifyWithAlgorithm"] = [keyID : Str, message : Bytes,
         signature : Bytes, alg : Enum]
  BY Zenon DEF Arguments
<1>2. \A a \in Arguments["VerifyWithAlgorithm"] : VerifyWithAlgorithm(a) \in VerifyRequest
  BY <1>1 DEF VerifyWithAlgorithm, VerifyRequest
<1>3. \A a, b \in Arguments["VerifyWithAlgorithm"] : VerifyWithAlgorithm(a) = VerifyWithAlgorithm(b) => a = b
  BY <1>1 DEF VerifyWithAlgorithm
<1>4. Methods[rpc("VerifyWithAlgorithm")].in = VerifyRequest
  BY Services DEF SigningServiceClient, Method, rpc
<1>5. \A a : request("VerifyWithAlgorithm", a) = VerifyWithAlgorithm(a)
  BY Zenon DEF request
<1> QED
  BY <1>2, <1>3, <1>4, <1>5, Zenon DEF Faithful

LEMMA GetPublicKeyFaithful == Faithful("GetPublicKey")
<1>1. Arguments["GetPublicKey"] = [keyID : Str, version : Opt(Nat)]
  BY Zenon DEF Arguments
<1>2. \A a \in Arguments["GetPublicKey"] : GetPublicKey(a) \in GetPublicKeyRequest
  BY <1>1 DEF GetPublicKey, GetPublicKeyRequest
<1>3. \A a, b \in Arguments["GetPublicKey"] : GetPublicKey(a) = GetPublicKey(b) => a = b
  BY <1>1 DEF GetPublicKey
<1>4. Methods[rpc("GetPublicKey")].in = GetPublicKeyRequest
  BY Services DEF SigningServiceClient, Method, rpc
<1>5. \A a : request("GetPublicKey", a) = GetPublicKey(a)
  BY Zenon DEF request
<1> QED
  BY <1>2, <1>3, <1>4, <1>5, Zenon DEF Faithful

LEMMA NewKeyFaithful == Faithful("NewKey")
<1>1. Arguments["NewKey"] = [keyID : Str, keyType : Enum]
  BY Zenon DEF Arguments
<1>2. \A a \in Arguments["NewKey"] : NewKey(a) \in NewKeyRequest
  BY <1>1 DEF NewKey, NewKeyRequest
<1>3. \A a, b \in Arguments["NewKey"] : NewKey(a) = NewKey(b) => a = b
  BY <1>1 DEF NewKey
<1>4. Methods[rpc("NewKey")].in = NewKeyRequest
  BY Services DEF SigningServiceClient, Method, rpc
<1>5. \A a : request("NewKey", a) = NewKey(a)
  BY Zenon DEF request
<1> QED
  BY <1>2, <1>3, <1>4, <1>5, Zenon DEF Faithful

LEMMA EncryptFaithful == Faithful("Encrypt")
<1>1. Arguments["Encrypt"] = [keyID : Str, alg : Enum, plaintext : Bytes,
         aad : Opt(Bytes)]
  BY Zenon DEF Arguments
<1>2. \A a \in Arguments["Encrypt"] : Encrypt(a) \in EncryptRequest
  BY <1>1 DEF Encrypt, EncryptRequest
<1>3. \A a, b \in Arguments["Encrypt"] : Encrypt(a) = Encrypt(b) => a = b
  BY <1>1 DEF Encrypt
<1>4. Methods[rpc("Encrypt")].in = EncryptRequest
  BY Services DEF AeadServiceClient, Method, rpc
<1>5. \A a : request("Encrypt", a) = Encrypt(a)
  BY Zenon DEF request
<1> QED
  BY <1>2, <1>3, <1>4, <1>5, Zenon DEF Faithful

LEMMA WrapEnvelopeFaithful == Faithful("WrapEnvelope")
<1>1. Arguments["WrapEnvelope"] = [keyID : Str, kem : Enum, env : Enum,
         plaintext : Bytes, aad : Opt(Bytes)]
  BY Zenon DEF Arguments
<1>2. \A a \in Arguments["WrapEnvelope"] : WrapEnvelope(a) \in WrapEnvelopeRequest
  BY <1>1 DEF WrapEnvelope, WrapEnvelopeRequest
<1>3. \A a, b \in Arguments["WrapEnvelope"] : WrapEnvelope(a) = WrapEnvelope(b) => a = b
  BY <1>1 DEF WrapEnvelope
<1>4. Methods[rpc("WrapEnvelope")].in = WrapEnvelopeRequest
  BY Services DEF AeadServiceClient, Method, rpc
<1>5. \A a : request("WrapEnvelope", a) = WrapEnvelope(a)
  BY Zenon DEF request
<1> QED
  BY <1>2, <1>3, <1>4, <1>5, Zenon DEF Faithful

LEMMA UnsealCoseFaithful == Faithful("UnsealCose")
<1>1. Arguments["UnsealCose"] = [keyID : Str, coseEncrypt : Bytes,
         externalAAD : Opt(Bytes)]
  BY Zenon DEF Arguments
<1>2. \A a \in Arguments["UnsealCose"] : UnsealCose(a) \in UnsealCoseRequest
  BY <1>1 DEF UnsealCose, UnsealCoseRequest
<1>3. \A a, b \in Arguments["UnsealCose"] : UnsealCose(a) = UnsealCose(b) => a = b
  BY <1>1 DEF UnsealCose
<1>4. Methods[rpc("UnsealCose")].in = UnsealCoseRequest
  BY Services DEF AeadServiceClient, Method, rpc
<1>5. \A a : request("UnsealCose", a) = UnsealCose(a)
  BY Zenon DEF request
<1> QED
  BY <1>2, <1>3, <1>4, <1>5, Zenon DEF Faithful

LEMMA GetSecretFaithful == Faithful("GetSecret")
<1>1. Arguments["GetSecret"] = [secretID : Str, version : Opt(Nat)]
  BY Zenon DEF Arguments
<1>2. \A a \in Arguments["GetSecret"] : GetSecret(a) \in GetSecretRequest
  BY <1>1 DEF GetSecret, GetSecretRequest
<1>3. \A a, b \in Arguments["GetSecret"] : GetSecret(a) = GetSecret(b) => a = b
  BY <1>1 DEF GetSecret
<1>4. Methods[rpc("GetSecret")].in = GetSecretRequest
  BY Services DEF SecretServiceClient, Method, rpc
<1>5. \A a : request("GetSecret", a) = GetSecret(a)
  BY Zenon DEF request
<1> QED
  BY <1>2, <1>3, <1>4, <1>5, Zenon DEF Faithful

LEMMA SetSecretFaithful == Faithful("SetSecret")
<1>1. Arguments["SetSecret"] = [secretID : Str, value : Bytes]
  BY Zenon DEF Arguments
<1>2. \A a \in Arguments["SetSecret"] : SetSecret(a) \in SetSecretRequest
  BY <1>1 DEF SetSecret, SetSecretRequest
<1>3. \A a, b \in Arguments["SetSecret"] : SetSecret(a) = SetSecret(b) => a = b
  BY <1>1 DEF SetSecret
<1>4. Methods[rpc("SetSecret")].in = SetSecretRequest
  BY Services DEF SecretServiceClient, Method, rpc
<1>5. \A a : request("SetSecret", a) = SetSecret(a)
  BY Zenon DEF request
<1> QED
  BY <1>2, <1>3, <1>4, <1>5, Zenon DEF Faithful

LEMMA RotateSecretFaithful == Faithful("RotateSecret")
<1>1. Arguments["RotateSecret"] = [secretID : Str]
  BY Zenon DEF Arguments
<1>2. \A a \in Arguments["RotateSecret"] : RotateSecret(a) \in RotateSecretRequest
  BY <1>1 DEF RotateSecret, RotateSecretRequest
<1>3. \A a, b \in Arguments["RotateSecret"] : RotateSecret(a) = RotateSecret(b) => a = b
  BY <1>1 DEF RotateSecret
<1>4. Methods[rpc("RotateSecret")].in = RotateSecretRequest
  BY Services DEF SecretServiceClient, Method, rpc
<1>5. \A a : request("RotateSecret", a) = RotateSecret(a)
  BY Zenon DEF request
<1> QED
  BY <1>2, <1>3, <1>4, <1>5, Zenon DEF Faithful

LEMMA ListCatalogFaithful == Faithful("ListCatalog")
<1>1. Arguments["ListCatalog"] = [prefix : Opt(Str)]
  BY Zenon DEF Arguments
<1>2. \A a \in Arguments["ListCatalog"] : ListCatalog(a) \in ListCatalogRequest
  BY <1>1 DEF ListCatalog, ListCatalogRequest
<1>3. \A a, b \in Arguments["ListCatalog"] : ListCatalog(a) = ListCatalog(b) => a = b
  BY <1>1 DEF ListCatalog
<1>4. Methods[rpc("ListCatalog")].in = ListCatalogRequest
  BY Services DEF SecretServiceClient, Method, rpc
<1>5. \A a : request("ListCatalog", a) = ListCatalog(a)
  BY Zenon DEF request
<1> QED
  BY <1>2, <1>3, <1>4, <1>5, Zenon DEF Faithful

LEMMA GetInvocationChallengeFaithful == Faithful("GetInvocationChallenge")
<1>1. Arguments["GetInvocationChallenge"] = [jkt : Bytes, courierObservedSource : Str]
  BY Zenon DEF Arguments
<1>2. \A a \in Arguments["GetInvocationChallenge"] : GetInvocationChallenge(a) \in GetInvocationChallengeRequest
  BY <1>1, NonEmpty DEF GetInvocationChallenge, GetInvocationChallengeRequest
<1>3. \A a, b \in Arguments["GetInvocationChallenge"] : GetInvocationChallenge(a) = GetInvocationChallenge(b) => a = b
  BY <1>1, NonEmpty DEF GetInvocationChallenge
<1>4. Methods[rpc("GetInvocationChallenge")].in = GetInvocationChallengeRequest
  BY Services DEF InvocationServiceClient, Method, rpc
<1>5. \A a : request("GetInvocationChallenge", a) = GetInvocationChallenge(a)
  BY Zenon DEF request
<1> QED
  BY <1>2, <1>3, <1>4, <1>5, Zenon DEF Faithful

LEMMA EncryptNatsCurveFaithful == Faithful("EncryptNatsCurve")
<1>1. Arguments["EncryptNatsCurve"] = NatsCurveEncryptRequest
  BY Zenon DEF Arguments
<1>2. \A a \in Arguments["EncryptNatsCurve"] : EncryptNatsCurve(a) \in EncryptNatsCurveRequest
  BY <1>1 DEF EncryptNatsCurve, EncryptNatsCurveRequest, NatsCurveEncryptRequest
<1>3. \A a, b \in Arguments["EncryptNatsCurve"] : EncryptNatsCurve(a) = EncryptNatsCurve(b) => a = b
  BY <1>1 DEF EncryptNatsCurve, NatsCurveEncryptRequest
<1>4. Methods[rpc("EncryptNatsCurve")].in = EncryptNatsCurveRequest
  BY Services DEF NatsServiceClient, Method, rpc
<1>5. \A a : request("EncryptNatsCurve", a) = EncryptNatsCurve(a)
  BY Zenon DEF request
<1> QED
  BY <1>2, <1>3, <1>4, <1>5, Zenon DEF Faithful

LEMMA DecryptNatsCurveFaithful == Faithful("DecryptNatsCurve")
<1>1. Arguments["DecryptNatsCurve"] = NatsCurveDecryptRequest
  BY Zenon DEF Arguments
<1>2. \A a \in Arguments["DecryptNatsCurve"] : DecryptNatsCurve(a) \in DecryptNatsCurveRequest
  BY <1>1 DEF DecryptNatsCurve, DecryptNatsCurveRequest, NatsCurveDecryptRequest
<1>3. \A a, b \in Arguments["DecryptNatsCurve"] : DecryptNatsCurve(a) = DecryptNatsCurve(b) => a = b
  BY <1>1 DEF DecryptNatsCurve, NatsCurveDecryptRequest
<1>4. Methods[rpc("DecryptNatsCurve")].in = DecryptNatsCurveRequest
  BY Services DEF NatsServiceClient, Method, rpc
<1>5. \A a : request("DecryptNatsCurve", a) = DecryptNatsCurve(a)
  BY Zenon DEF request
<1> QED
  BY <1>2, <1>3, <1>4, <1>5, Zenon DEF Faithful

LEMMA ReloadFaithful == Faithful("Reload")
<1>1. Arguments["Reload"] = [check : BOOLEAN]
  BY Zenon DEF Arguments
<1>2. \A a \in Arguments["Reload"] : Reload(a) \in ReloadRequest
  BY <1>1 DEF Reload, ReloadRequest
<1>3. \A a, b \in Arguments["Reload"] : Reload(a) = Reload(b) => a = b
  BY <1>1 DEF Reload
<1>4. Methods[rpc("Reload")].in = ReloadRequest
  BY Services DEF AdminServiceClient, Method, rpc
<1>5. \A a : request("Reload", a) = Reload(a)
  BY Zenon DEF request
<1> QED
  BY <1>2, <1>3, <1>4, <1>5, Zenon DEF Faithful

LEMMA ExplainFaithful == Faithful("Explain")
<1>1. Arguments["Explain"] = [subject : Str, op : Str, key : Str]
  BY Zenon DEF Arguments
<1>2. \A a \in Arguments["Explain"] : Explain(a) \in ExplainRequest
  BY <1>1 DEF Explain, ExplainRequest
<1>3. \A a, b \in Arguments["Explain"] : Explain(a) = Explain(b) => a = b
  BY <1>1 DEF Explain
<1>4. Methods[rpc("Explain")].in = ExplainRequest
  BY Services DEF AdminServiceClient, Method, rpc
<1>5. \A a : request("Explain", a) = Explain(a)
  BY Zenon DEF request
<1> QED
  BY <1>2, <1>3, <1>4, <1>5, Zenon DEF Faithful

LEMMA RevokeFaithful == Faithful("Revoke")
<1>1. Arguments["Revoke"] = [trustDomain : Str, jti : Str, expiresAtUnix : Nat]
  BY Zenon DEF Arguments
<1>2. \A a \in Arguments["Revoke"] : Revoke(a) \in RevokeRequest
  BY <1>1 DEF Revoke, RevokeRequest
<1>3. \A a, b \in Arguments["Revoke"] : Revoke(a) = Revoke(b) => a = b
  BY <1>1 DEF Revoke
<1>4. Methods[rpc("Revoke")].in = RevokeRequest
  BY Services DEF AdminServiceClient, Method, rpc
<1>5. \A a : request("Revoke", a) = Revoke(a)
  BY Zenon DEF request
<1> QED
  BY <1>2, <1>3, <1>4, <1>5, Zenon DEF Faithful

LEMMA MintJwtFaithful == Faithful("MintJwt")
<1>1. Arguments["MintJwt"] = JwtRequest
  BY Zenon DEF Arguments
<1>2. \A a \in Arguments["MintJwt"] : MintJwt(a) \in MintJwtRequest
  BY <1>1, NonEmpty, Lifetimes, ClaimsBytes DEF MintJwt, MintJwtRequest, JwtRequest
<1>3. ASSUME NEW a \in Arguments["MintJwt"], NEW b \in Arguments["MintJwt"],
             MintJwt(a) = MintJwt(b), ~refuses("MintJwt", a), ~refuses("MintJwt", b)
      PROVE  Asked(a) = Asked(b)
  <2>1. DOMAIN a = DOMAIN b /\ a.TTL \in Int /\ b.TTL \in Int
        /\ a.Claims \in Claims /\ b.Claims \in Claims
    BY <1>1 DEF JwtRequest
  <2>2. /\ \A f \in DOMAIN a \ {"TTL", "Claims"} : a[f] = b[f]
        /\ durationOrNil(a.TTL) = durationOrNil(b.TTL)
        /\ optionalObjectJSON(a.Claims).raw = optionalObjectJSON(b.Claims).raw
    BY <1>1, <1>3, NonEmpty DEF MintJwt, JwtRequest
  <2>3. ClaimsText(a.Claims) = ClaimsText(b.Claims)
    BY <1>3, <2>1, <2>2, ClaimsKept, Zenon DEF refuses
  <2> QED
    BY <2>1, <2>2, <2>3, Lifetimes, AskedSame, Zenon
<1>4. Methods[rpc("MintJwt")].in = MintJwtRequest
  BY Services DEF MintingServiceClient, Method, rpc
<1>5. \A a : request("MintJwt", a) = MintJwt(a)
  BY Zenon DEF request
<1> QED
  BY <1>2, <1>3, <1>4, <1>5, Zenon DEF Faithful

LEMMA MintNatsUserFaithful == Faithful("MintNatsUser")
<1>1. Arguments["MintNatsUser"] = NatsUserRequest
  BY Zenon DEF Arguments
<1>2. \A a \in Arguments["MintNatsUser"] : MintNatsUser(a) \in MintNatsUserRequest
  BY <1>1, NonEmpty, Lifetimes DEF MintNatsUser, MintNatsUserRequest, NatsUserRequest
<1>3. ASSUME NEW a \in Arguments["MintNatsUser"], NEW b \in Arguments["MintNatsUser"],
             MintNatsUser(a) = MintNatsUser(b)
      PROVE  Asked(a) = Asked(b)
  <2>1. DOMAIN a = DOMAIN b /\ a.TTL \in Int /\ b.TTL \in Int /\ "Claims" \notin DOMAIN a
    BY <1>1 DEF NatsUserRequest
  <2>2. /\ \A f \in DOMAIN a \ {"TTL"} : a[f] = b[f]
        /\ durationOrNil(a.TTL) = durationOrNil(b.TTL)
    BY <1>1, <1>3, NonEmpty DEF MintNatsUser, NatsUserRequest
  <2> QED
    BY <2>1, <2>2, Lifetimes, AskedSame, Zenon
<1>4. Methods[rpc("MintNatsUser")].in = MintNatsUserRequest
  BY Services DEF NatsServiceClient, Method, rpc
<1>5. \A a : request("MintNatsUser", a) = MintNatsUser(a)
  BY Zenon DEF request
<1> QED
  BY <1>2, <1>3, <1>4, <1>5, Zenon DEF Faithful

LEMMA MintNatsAccountFaithful == Faithful("MintNatsAccount")
<1>1. Arguments["MintNatsAccount"] = NatsAccountRequest
  BY Zenon DEF Arguments
<1>2. \A a \in Arguments["MintNatsAccount"] : MintNatsAccount(a) \in MintNatsAccountRequest
  BY <1>1, NonEmpty, Lifetimes DEF MintNatsAccount, MintNatsAccountRequest, NatsAccountRequest
<1>3. ASSUME NEW a \in Arguments["MintNatsAccount"], NEW b \in Arguments["MintNatsAccount"],
             MintNatsAccount(a) = MintNatsAccount(b)
      PROVE  Asked(a) = Asked(b)
  <2>1. DOMAIN a = DOMAIN b /\ a.TTL \in Int /\ b.TTL \in Int /\ "Claims" \notin DOMAIN a
    BY <1>1 DEF NatsAccountRequest
  <2>2. /\ \A f \in DOMAIN a \ {"TTL"} : a[f] = b[f]
        /\ durationOrNil(a.TTL) = durationOrNil(b.TTL)
    BY <1>1, <1>3, NonEmpty DEF MintNatsAccount, NatsAccountRequest
  <2> QED
    BY <2>1, <2>2, Lifetimes, AskedSame, Zenon
<1>4. Methods[rpc("MintNatsAccount")].in = MintNatsAccountRequest
  BY Services DEF NatsServiceClient, Method, rpc
<1>5. \A a : request("MintNatsAccount", a) = MintNatsAccount(a)
  BY Zenon DEF request
<1> QED
  BY <1>2, <1>3, <1>4, <1>5, Zenon DEF Faithful

LEMMA MintNatsOperatorFaithful == Faithful("MintNatsOperator")
<1>1. Arguments["MintNatsOperator"] = NatsOperatorRequest
  BY Zenon DEF Arguments
<1>2. \A a \in Arguments["MintNatsOperator"] : MintNatsOperator(a) \in MintNatsOperatorRequest
  BY <1>1, NonEmpty, Lifetimes DEF MintNatsOperator, MintNatsOperatorRequest, NatsOperatorRequest
<1>3. ASSUME NEW a \in Arguments["MintNatsOperator"], NEW b \in Arguments["MintNatsOperator"],
             MintNatsOperator(a) = MintNatsOperator(b)
      PROVE  Asked(a) = Asked(b)
  <2>1. DOMAIN a = DOMAIN b /\ a.TTL \in Int /\ b.TTL \in Int /\ "Claims" \notin DOMAIN a
    BY <1>1 DEF NatsOperatorRequest
  <2>2. /\ \A f \in DOMAIN a \ {"TTL"} : a[f] = b[f]
        /\ durationOrNil(a.TTL) = durationOrNil(b.TTL)
    BY <1>1, <1>3, NonEmpty DEF MintNatsOperator, NatsOperatorRequest
  <2> QED
    BY <2>1, <2>2, Lifetimes, AskedSame, Zenon
<1>4. Methods[rpc("MintNatsOperator")].in = MintNatsOperatorRequest
  BY Services DEF NatsServiceClient, Method, rpc
<1>5. \A a : request("MintNatsOperator", a) = MintNatsOperator(a)
  BY Zenon DEF request
<1> QED
  BY <1>2, <1>3, <1>4, <1>5, Zenon DEF Faithful

LEMMA MintNatsSignerFaithful == Faithful("MintNatsSigner")
<1>1. Arguments["MintNatsSigner"] = NatsSignerRequest
  BY Zenon DEF Arguments
<1>2. \A a \in Arguments["MintNatsSigner"] : MintNatsSigner(a) \in MintNatsSignerRequest
  BY <1>1, NonEmpty, Lifetimes DEF MintNatsSigner, MintNatsSignerRequest, NatsSignerRequest
<1>3. ASSUME NEW a \in Arguments["MintNatsSigner"], NEW b \in Arguments["MintNatsSigner"],
             MintNatsSigner(a) = MintNatsSigner(b)
      PROVE  Asked(a) = Asked(b)
  <2>1. DOMAIN a = DOMAIN b /\ a.TTL \in Int /\ b.TTL \in Int /\ "Claims" \notin DOMAIN a
    BY <1>1 DEF NatsSignerRequest
  <2>2. /\ \A f \in DOMAIN a \ {"TTL"} : a[f] = b[f]
        /\ durationOrNil(a.TTL) = durationOrNil(b.TTL)
    BY <1>1, <1>3, NonEmpty DEF MintNatsSigner, NatsSignerRequest
  <2> QED
    BY <2>1, <2>2, Lifetimes, AskedSame, Zenon
<1>4. Methods[rpc("MintNatsSigner")].in = MintNatsSignerRequest
  BY Services DEF NatsServiceClient, Method, rpc
<1>5. \A a : request("MintNatsSigner", a) = MintNatsSigner(a)
  BY Zenon DEF request
<1> QED
  BY <1>2, <1>3, <1>4, <1>5, Zenon DEF Faithful

LEMMA MintNatsServerFaithful == Faithful("MintNatsServer")
<1>1. Arguments["MintNatsServer"] = NatsServerRequest
  BY Zenon DEF Arguments
<1>2. \A a \in Arguments["MintNatsServer"] : MintNatsServer(a) \in MintNatsServerRequest
  BY <1>1, NonEmpty, Lifetimes DEF MintNatsServer, MintNatsServerRequest, NatsServerRequest
<1>3. ASSUME NEW a \in Arguments["MintNatsServer"], NEW b \in Arguments["MintNatsServer"],
             MintNatsServer(a) = MintNatsServer(b)
      PROVE  Asked(a) = Asked(b)
  <2>1. DOMAIN a = DOMAIN b /\ a.TTL \in Int /\ b.TTL \in Int /\ "Claims" \notin DOMAIN a
    BY <1>1 DEF NatsServerRequest
  <2>2. /\ \A f \in DOMAIN a \ {"TTL"} : a[f] = b[f]
        /\ durationOrNil(a.TTL) = durationOrNil(b.TTL)
    BY <1>1, <1>3, NonEmpty DEF MintNatsServer, NatsServerRequest
  <2> QED
    BY <2>1, <2>2, Lifetimes, AskedSame, Zenon
<1>4. Methods[rpc("MintNatsServer")].in = MintNatsServerRequest
  BY Services DEF NatsServiceClient, Method, rpc
<1>5. \A a : request("MintNatsServer", a) = MintNatsServer(a)
  BY Zenon DEF request
<1> QED
  BY <1>2, <1>3, <1>4, <1>5, Zenon DEF Faithful

LEMMA MintNatsCurveFaithful == Faithful("MintNatsCurve")
<1>1. Arguments["MintNatsCurve"] = NatsCurveRequest
  BY Zenon DEF Arguments
<1>2. \A a \in Arguments["MintNatsCurve"] : MintNatsCurve(a) \in MintNatsCurveRequest
  BY <1>1, NonEmpty, Lifetimes DEF MintNatsCurve, MintNatsCurveRequest, NatsCurveRequest
<1>3. ASSUME NEW a \in Arguments["MintNatsCurve"], NEW b \in Arguments["MintNatsCurve"],
             MintNatsCurve(a) = MintNatsCurve(b)
      PROVE  Asked(a) = Asked(b)
  <2>1. DOMAIN a = DOMAIN b /\ a.TTL \in Int /\ b.TTL \in Int /\ "Claims" \notin DOMAIN a
    BY <1>1 DEF NatsCurveRequest
  <2>2. /\ \A f \in DOMAIN a \ {"TTL"} : a[f] = b[f]
        /\ durationOrNil(a.TTL) = durationOrNil(b.TTL)
    BY <1>1, <1>3, NonEmpty DEF MintNatsCurve, NatsCurveRequest
  <2> QED
    BY <2>1, <2>2, Lifetimes, AskedSame, Zenon
<1>4. Methods[rpc("MintNatsCurve")].in = MintNatsCurveRequest
  BY Services DEF NatsServiceClient, Method, rpc
<1>5. \A a : request("MintNatsCurve", a) = MintNatsCurve(a)
  BY Zenon DEF request
<1> QED
  BY <1>2, <1>3, <1>4, <1>5, Zenon DEF Faithful

LEMMA SignNatsJwtFaithful == Faithful("SignNatsJwt")
<1>1. Arguments["SignNatsJwt"] = NatsJwtRequest
  BY Zenon DEF Arguments
<1>2. \A a \in Arguments["SignNatsJwt"] : SignNatsJwt(a) \in SignNatsJwtRequest
  BY <1>1, NonEmpty, Lifetimes, Times, ClaimsBytes DEF SignNatsJwt, SignNatsJwtRequest, NatsJwtRequest, Enum
<1>3. ASSUME NEW a \in Arguments["SignNatsJwt"], NEW b \in Arguments["SignNatsJwt"],
             SignNatsJwt(a) = SignNatsJwt(b), ~refuses("SignNatsJwt", a), ~refuses("SignNatsJwt", b)
      PROVE  Asked(a) = Asked(b)
  <2>1. DOMAIN a = DOMAIN b /\ a.TTL \in Int /\ b.TTL \in Int
        /\ a.Claims \in Claims /\ b.Claims \in Claims
    BY <1>1 DEF NatsJwtRequest
  <2>2. /\ \A f \in DOMAIN a \ {"TTL", "Claims"} : a[f] = b[f]
        /\ durationOrNil(a.TTL) = durationOrNil(b.TTL)
        /\ objectJSON(a.Claims).raw = objectJSON(b.Claims).raw
    BY <1>1, <1>3, NonEmpty, Times DEF SignNatsJwt, NatsJwtRequest
  <2>3. ClaimsText(a.Claims) = ClaimsText(b.Claims)
    BY <1>3, <2>1, <2>2, ClaimsKept, Zenon DEF refuses
  <2> QED
    BY <2>1, <2>2, <2>3, Lifetimes, AskedSame, Zenon
<1>4. Methods[rpc("SignNatsJwt")].in = SignNatsJwtRequest
  BY Services DEF NatsServiceClient, Method, rpc
<1>5. \A a : request("SignNatsJwt", a) = SignNatsJwt(a)
  BY Zenon DEF request
<1> QED
  BY <1>2, <1>3, <1>4, <1>5, Zenon DEF Faithful

LEMMA IssueCertificateFaithful == Faithful("IssueCertificate")
<1>1. Arguments["IssueCertificate"] = CertificateRequest
  BY Zenon DEF Arguments
<1>2. \A a \in Arguments["IssueCertificate"] : IssueCertificate(a) \in IssueCertificateRequest
  BY <1>1, NonEmpty, Lifetimes DEF IssueCertificate, IssueCertificateRequest, CertificateRequest
<1>3. ASSUME NEW a \in Arguments["IssueCertificate"], NEW b \in Arguments["IssueCertificate"],
             IssueCertificate(a) = IssueCertificate(b)
      PROVE  Asked(a) = Asked(b)
  <2>1. DOMAIN a = DOMAIN b /\ a.TTL \in Int /\ b.TTL \in Int /\ "Claims" \notin DOMAIN a
    BY <1>1 DEF CertificateRequest
  <2>2. /\ \A f \in DOMAIN a \ {"TTL"} : a[f] = b[f]
        /\ durationOrNil(a.TTL) = durationOrNil(b.TTL)
    BY <1>1, <1>3, NonEmpty DEF IssueCertificate, CertificateRequest
  <2> QED
    BY <2>1, <2>2, Lifetimes, AskedSame, Zenon
<1>4. Methods[rpc("IssueCertificate")].in = IssueCertificateRequest
  BY Services DEF MintingServiceClient, Method, rpc
<1>5. \A a : request("IssueCertificate", a) = IssueCertificate(a)
  BY Zenon DEF request
<1> QED
  BY <1>2, <1>3, <1>4, <1>5, Zenon DEF Faithful

LEMMA GetInvocationCapabilitiesFaithful == Faithful("GetInvocationCapabilities")
<1>1. Arguments["GetInvocationCapabilities"] = {<<>>}
  BY Zenon DEF Arguments
<1>2. Methods[rpc("GetInvocationCapabilities")].in = {<<>>}
  BY Services DEF InvocationServiceClient, Method, rpc, GetInvocationCapabilitiesRequest
<1>3. \A a : request("GetInvocationCapabilities", a) = <<>>
  BY Zenon DEF request
<1> QED
  BY <1>1, <1>2, <1>3, Zenon DEF Faithful

LEMMA HealthFaithful == Faithful("Health")
<1>1. Arguments["Health"] = {<<>>}
  BY Zenon DEF Arguments
<1>2. Methods[rpc("Health")].in = {<<>>}
  BY Services DEF AdminServiceClient, Method, rpc, HealthRequest
<1>3. \A a : request("Health", a) = <<>>
  BY Zenon DEF request
<1> QED
  BY <1>1, <1>2, <1>3, Zenon DEF Faithful

LEMMA ReadinessFaithful == Faithful("Readiness")
<1>1. Arguments["Readiness"] = {<<>>}
  BY Zenon DEF Arguments
<1>2. Methods[rpc("Readiness")].in = {<<>>}
  BY Services DEF AdminServiceClient, Method, rpc, ReadinessRequest
<1>3. \A a : request("Readiness", a) = <<>>
  BY Zenon DEF request
<1> QED
  BY <1>1, <1>2, <1>3, Zenon DEF Faithful

LEMMA StatusFaithful == Faithful("Status")
<1>1. Arguments["Status"] = {<<>>}
  BY Zenon DEF Arguments
<1>2. Methods[rpc("Status")].in = {<<>>}
  BY Services DEF AdminServiceClient, Method, rpc, StatusRequest
<1>3. \A a : request("Status", a) = <<>>
  BY Zenon DEF request
<1> QED
  BY <1>1, <1>2, <1>3, Zenon DEF Faithful

\* Both kinds of material stay apart, and so do their bytes.
LEMMA Materials ==
  /\ \A o \in Opt(Material) : {toProto(m) : m \in o} \in Opt(KeyMaterial)
  /\ \A o, p \in Opt(Material) :
       {toProto(m) : m \in o} = {toProto(m) : m \in p} => o = p
<1>1. ASSUME NEW m \in Material PROVE toProto(m) \in KeyMaterial
  BY DEF Material, toProto, KeyMaterial
<1>2. ASSUME NEW m \in Material, NEW n \in Material, toProto(m) = toProto(n) PROVE m = n
  <2>1. m.kind = n.kind
    <3>1. ASSUME NEW x, NEW y PROVE [Ed25519Seed |-> x] # [Pkcs8Der |-> y]
      <4>1. "Ed25519Seed" \in DOMAIN [Ed25519Seed |-> x]
            /\ "Ed25519Seed" \notin DOMAIN [Pkcs8Der |-> y]
        OBVIOUS
      <4> QED
        BY <4>1, Zenon
    <3> QED
      BY <1>2, <3>1 DEF Material, toProto
  <2>2. m.bytes = n.bytes
    BY <1>2, <2>1 DEF Material, toProto
  <2> QED
    BY <2>1, <2>2 DEF Material
<1>3. \A o \in Opt(Material) : o \subseteq Material
  BY Zenon DEF Opt
<1> HIDE DEF Material, KeyMaterial
<1>4. ASSUME NEW o \in Opt(Material) PROVE {toProto(m) : m \in o} \in Opt(KeyMaterial)
  BY <1>1, <1>3, Zenon DEF Opt
<1>5. ASSUME NEW o \in Opt(Material), NEW p \in Opt(Material),
             {toProto(m) : m \in o} = {toProto(m) : m \in p}
      PROVE  o = p
  <2>1. ASSUME NEW m \in o PROVE m \in p
    <3>1. toProto(m) \in {toProto(n) : n \in p}
      BY <1>5, Zenon
    <3> QED
      BY <1>2, <1>3, <3>1, Zenon
  <2>2. ASSUME NEW m \in p PROVE m \in o
    <3>1. toProto(m) \in {toProto(n) : n \in o}
      BY <1>5, Zenon
    <3> QED
      BY <1>2, <1>3, <3>1, Zenon
  <2> QED
    BY <2>1, <2>2, Zenon
<1> QED
  BY <1>4, <1>5, Zenon

LEMMA ImportFaithful == Faithful("Import")
<1>1. Arguments["Import"] = [keyID : Str, keyType : Enum, material : Opt(Material)]
  BY Zenon DEF Arguments
<1>2. \A a \in Arguments["Import"] : Import(a) \in ImportRequest
  BY <1>1, Materials DEF Import, ImportRequest
<1>3. \A a, b \in Arguments["Import"] : Import(a) = Import(b) => a = b
  BY <1>1, Materials DEF Import
<1>4. Methods[rpc("Import")].in = ImportRequest
  BY Services DEF SigningServiceClient, Method, rpc
<1>5. \A a : request("Import", a) = Import(a)
  BY Zenon DEF request
<1> QED
  BY <1>2, <1>3, <1>4, <1>5, Zenon DEF Faithful

LEMMA ImportSetFaithful == Faithful("ImportSet")
<1> DEFINE E(e) == [KeyId |-> e.KeyID, KeyType |-> e.KeyType,
                    Material |-> {toProto(m) : m \in e.Material}]
<1>1. Arguments["ImportSet"] = [entries : Seq(EntryToImport)]
  BY Zenon DEF Arguments
<1>2. /\ \A e \in EntryToImport : E(e) \in ImportEntry
      /\ \A e, f \in EntryToImport : E(e) = E(f) => e = f
  BY Materials DEF EntryToImport, ImportEntry
<1>3. \A a : ImportSet(a) = [Entries |-> [i \in DOMAIN a.entries |-> E(a.entries[i])]]
  BY Zenon DEF ImportSet
<1> HIDE DEF E
<1>4. ASSUME NEW s \in Seq(EntryToImport)
      PROVE  [i \in DOMAIN s |-> E(s[i])] \in Seq(ImportEntry)
  BY <1>2
<1>5. ASSUME NEW s \in Seq(EntryToImport), NEW t \in Seq(EntryToImport),
             [i \in DOMAIN s |-> E(s[i])] = [i \in DOMAIN t |-> E(t[i])]
      PROVE  s = t
  <2>1. DOMAIN s = DOMAIN t /\ \A i \in DOMAIN s : E(s[i]) = E(t[i])
    BY <1>5
  <2>2. \A i \in DOMAIN s : s[i] \in EntryToImport /\ t[i] \in EntryToImport
    BY <2>1
  <2>3. \A i \in DOMAIN s : s[i] = t[i]
    BY <1>2, <2>1, <2>2, Zenon
  <2> QED
    BY <2>1, <2>3
<1>6. ASSUME NEW a \in Arguments["ImportSet"]
      PROVE  /\ a.entries \in Seq(EntryToImport) /\ a = [entries |-> a.entries]
             /\ ImportSet(a) \in ImportSetRequest
  BY <1>1, <1>3, <1>4 DEF ImportSetRequest
<1>7. ASSUME NEW a \in Arguments["ImportSet"], NEW b \in Arguments["ImportSet"],
             ImportSet(a) = ImportSet(b)
      PROVE  a = b
  <2>1. ImportSet(a).Entries = ImportSet(b).Entries
    BY <1>7
  <2>2. [i \in DOMAIN a.entries |-> E(a.entries[i])] = [i \in DOMAIN b.entries |-> E(b.entries[i])]
    BY <1>3, <2>1, Zenon
  <2>3. a.entries = b.entries
    BY <1>5, <1>6, <2>2, Zenon
  <2> QED
    BY <1>6, <2>3, Zenon
<1>8. Methods[rpc("ImportSet")].in = ImportSetRequest
  BY Services DEF SigningServiceClient, Method, rpc
<1>9. \A a : request("ImportSet", a) = ImportSet(a)
  BY Zenon DEF request
<1> QED
  BY <1>6, <1>7, <1>8, <1>9, Zenon DEF Faithful

LEMMA DecryptFaithful == Faithful("Decrypt")
<1> DEFINE E(c) == [Alg |-> c.Algorithm, KeyVersion |-> c.KeyVersion, Nonce |-> c.Nonce,
                    Ciphertext |-> c.Bytes]
<1>1. Arguments["Decrypt"] = [keyID : Str, ct : Opt(CiphertextStruct), aad : Opt(Bytes)]
  BY Zenon DEF Arguments
<1>2. /\ \A c \in CiphertextStruct : E(c) \in CiphertextEnvelope
      /\ \A c, d \in CiphertextStruct : E(c) = E(d) => c = d
  BY DEF CiphertextStruct, CiphertextEnvelope
<1>3. \A ct : ciphertextToProto(ct) = {E(c) : c \in ct}
  BY Zenon DEF ciphertextToProto
<1> HIDE DEF E
<1>4. ASSUME NEW o \in Opt(CiphertextStruct) PROVE ciphertextToProto(o) \in Opt(CiphertextEnvelope)
  <2>1. o \subseteq CiphertextStruct /\ \A c, d \in o : c = d
    BY Zenon DEF Opt
  <2>2. \A x, y \in {E(c) : c \in o} : x \in CiphertextEnvelope /\ x = y
    BY <1>2, <2>1, Zenon
  <2>3. {E(c) : c \in o} \in Opt(CiphertextEnvelope)
    BY <2>2, Zenon DEF Opt
  <2> QED
    BY <1>3, <2>3, Zenon
<1>5. ASSUME NEW o \in Opt(CiphertextStruct), NEW p \in Opt(CiphertextStruct),
             ciphertextToProto(o) = ciphertextToProto(p)
      PROVE  o = p
  <2>1. {E(c) : c \in o} = {E(c) : c \in p}
    BY <1>3, <1>5, Zenon
  <2>2. o \subseteq CiphertextStruct /\ p \subseteq CiphertextStruct
    BY Zenon DEF Opt
  <2>3. ASSUME NEW c \in o PROVE c \in p
    <3>1. E(c) \in {E(d) : d \in p}
      BY <2>1, Zenon
    <3> QED
      BY <1>2, <2>2, <3>1, Zenon
  <2>4. ASSUME NEW c \in p PROVE c \in o
    <3>1. E(c) \in {E(d) : d \in o}
      BY <2>1, Zenon
    <3> QED
      BY <1>2, <2>2, <3>1, Zenon
  <2> QED
    BY <2>3, <2>4, Zenon
<1>6. \A a \in Arguments["Decrypt"] : Decrypt(a) \in DecryptRequest
  BY <1>1, <1>4 DEF Decrypt, DecryptRequest
<1>7. \A a, b \in Arguments["Decrypt"] : Decrypt(a) = Decrypt(b) => a = b
  BY <1>1, <1>5 DEF Decrypt
<1>8. Methods[rpc("Decrypt")].in = DecryptRequest
  BY Services DEF AeadServiceClient, Method, rpc
<1>9. \A a : request("Decrypt", a) = Decrypt(a)
  BY Zenon DEF request
<1> QED
  BY <1>6, <1>7, <1>8, <1>9, Zenon DEF Faithful

LEMMA UnwrapEnvelopeFaithful == Faithful("UnwrapEnvelope")
<1> DEFINE E(e) == [KemAlgorithm |-> e.KemAlgorithm, EnvelopeAlgorithm |-> e.EnvelopeAlgorithm,
                    KeyVersion |-> e.KeyVersion, EncapsulatedKey |-> e.EncapsulatedKey,
                    Nonce |-> e.Nonce, Ciphertext |-> e.Bytes]
<1>1. Arguments["UnwrapEnvelope"] =
        [keyID : Str, env : Opt(KemEnvelopeStruct), aad : Opt(Bytes)]
  BY Zenon DEF Arguments
<1>2. /\ \A c \in KemEnvelopeStruct : E(c) \in KemEnvelope
      /\ \A c, d \in KemEnvelopeStruct : E(c) = E(d) => c = d
  BY DEF KemEnvelopeStruct, KemEnvelope
<1>3. \A env : kemEnvelopeToProto(env) = {E(e) : e \in env}
  BY Zenon DEF kemEnvelopeToProto
<1> HIDE DEF E
<1>4. ASSUME NEW o \in Opt(KemEnvelopeStruct) PROVE kemEnvelopeToProto(o) \in Opt(KemEnvelope)
  <2>1. o \subseteq KemEnvelopeStruct /\ \A c, d \in o : c = d
    BY Zenon DEF Opt
  <2>2. \A x, y \in {E(c) : c \in o} : x \in KemEnvelope /\ x = y
    BY <1>2, <2>1, Zenon
  <2>3. {E(c) : c \in o} \in Opt(KemEnvelope)
    BY <2>2, Zenon DEF Opt
  <2> QED
    BY <1>3, <2>3, Zenon
<1>5. ASSUME NEW o \in Opt(KemEnvelopeStruct), NEW p \in Opt(KemEnvelopeStruct),
             kemEnvelopeToProto(o) = kemEnvelopeToProto(p)
      PROVE  o = p
  <2>1. {E(c) : c \in o} = {E(c) : c \in p}
    BY <1>3, <1>5, Zenon
  <2>2. o \subseteq KemEnvelopeStruct /\ p \subseteq KemEnvelopeStruct
    BY Zenon DEF Opt
  <2>3. ASSUME NEW c \in o PROVE c \in p
    <3>1. E(c) \in {E(d) : d \in p}
      BY <2>1, Zenon
    <3> QED
      BY <1>2, <2>2, <3>1, Zenon
  <2>4. ASSUME NEW c \in p PROVE c \in o
    <3>1. E(c) \in {E(d) : d \in o}
      BY <2>1, Zenon
    <3> QED
      BY <1>2, <2>2, <3>1, Zenon
  <2> QED
    BY <2>3, <2>4, Zenon
<1>6. \A a \in Arguments["UnwrapEnvelope"] : UnwrapEnvelope(a) \in UnwrapEnvelopeRequest
  BY <1>1, <1>4 DEF UnwrapEnvelope, UnwrapEnvelopeRequest
<1>7. \A a, b \in Arguments["UnwrapEnvelope"] : UnwrapEnvelope(a) = UnwrapEnvelope(b) => a = b
  BY <1>1, <1>5 DEF UnwrapEnvelope
<1>8. Methods[rpc("UnwrapEnvelope")].in = UnwrapEnvelopeRequest
  BY Services DEF AeadServiceClient, Method, rpc
<1>9. \A a : request("UnwrapEnvelope", a) = UnwrapEnvelope(a)
  BY Zenon DEF request
<1> QED
  BY <1>6, <1>7, <1>8, <1>9, Zenon DEF Faithful

LEMMA ValidateNatsJwtFaithful == Faithful("ValidateNatsJwt")
<1>1. Arguments["ValidateNatsJwt"] = NatsJwtToValidate
  BY Zenon DEF Arguments
<1>2. ASSUME NEW s \in AllowedSigner
      PROVE  /\ s = [keyID |-> s.keyID, natsPublicKey |-> s.natsPublicKey]
             /\ s.keyID \in Str /\ s.natsPublicKey \in Str
             /\ s.keyID = "" \/ s.natsPublicKey = ""
  <2>1. s \in [keyID : Str, natsPublicKey : Str] /\ (s.keyID = "" \/ s.natsPublicKey = "")
    BY Zenon DEF AllowedSigner
  <2>2. /\ s = [keyID |-> s.keyID, natsPublicKey |-> s.natsPublicKey]
        /\ s.keyID \in Str /\ s.natsPublicKey \in Str
    <3>1. s \in [keyID : Str, natsPublicKey : Str]
      BY <2>1
    <3> QED
      BY ONLY <3>1
  <2> QED
    BY <2>1, <2>2
<1>3. ASSUME NEW x, NEW y
      PROVE  /\ [KeyId |-> x] # [NatsPublicKey |-> y]
             /\ ([KeyId |-> x] = [KeyId |-> y] => x = y)
             /\ ([NatsPublicKey |-> x] = [NatsPublicKey |-> y] => x = y)
  <2>1. "KeyId" \in DOMAIN [KeyId |-> x] /\ "KeyId" \notin DOMAIN [NatsPublicKey |-> y]
    OBVIOUS
  <2>2. [KeyId |-> x] # [NatsPublicKey |-> y]
    BY <2>1, Zenon
  <2>3. /\ [KeyId |-> x].KeyId = x /\ [KeyId |-> y].KeyId = y
        /\ [NatsPublicKey |-> x].NatsPublicKey = x /\ [NatsPublicKey |-> y].NatsPublicKey = y
    OBVIOUS
  <2> QED
    BY <2>2, <2>3, Zenon
<1>4. ASSUME NEW s \in AllowedSigner, NEW t \in AllowedSigner,
             signerToProto(s) = signerToProto(t)
      PROVE  s = t
  <2>1. s.keyID = t.keyID /\ s.natsPublicKey = t.natsPublicKey
    BY <1>2, <1>3, <1>4, Zenon DEF signerToProto
  <2> QED
    BY <1>2, <2>1, Zenon
<1>5. ASSUME NEW s \in AllowedSigner PROVE signerToProto(s) \in AllowedNatsSigner
  <2>1. \A x \in Str : [KeyId |-> x] \in AllowedNatsSigner /\ [NatsPublicKey |-> x] \in AllowedNatsSigner
    BY DEF AllowedNatsSigner
  <2> QED
    BY <1>2, <2>1, Zenon DEF signerToProto
<1>6. ASSUME NEW s \in Seq(AllowedSigner)
      PROVE  [i \in DOMAIN s |-> signerToProto(s[i])] \in Seq(AllowedNatsSigner)
  BY <1>5
<1>7. ASSUME NEW s \in Seq(AllowedSigner), NEW t \in Seq(AllowedSigner),
             [i \in DOMAIN s |-> signerToProto(s[i])] = [i \in DOMAIN t |-> signerToProto(t[i])]
      PROVE  s = t
  <2>1. DOMAIN s = DOMAIN t /\ \A i \in DOMAIN s : signerToProto(s[i]) = signerToProto(t[i])
    BY <1>7
  <2>2. \A i \in DOMAIN s : s[i] \in AllowedSigner /\ t[i] \in AllowedSigner
    BY <2>1
  <2>3. \A i \in DOMAIN s : s[i] = t[i]
    BY <1>4, <2>1, <2>2, Zenon
  <2> QED
    BY <2>1, <2>3
<1>8. \A a \in NatsJwtToValidate : ValidateNatsJwt(a) \in ValidateNatsJwtRequest
  BY <1>6 DEF NatsJwtToValidate, ValidateNatsJwt, ValidateNatsJwtRequest, Enum
<1>9. \A a, b \in NatsJwtToValidate : ValidateNatsJwt(a) = ValidateNatsJwt(b) => a = b
  BY <1>7 DEF NatsJwtToValidate, ValidateNatsJwt
<1>10. Methods[rpc("ValidateNatsJwt")].in = ValidateNatsJwtRequest
  BY Services DEF NatsServiceClient, Method, rpc
<1>11. \A a : request("ValidateNatsJwt", a) = ValidateNatsJwt(a)
  BY Zenon DEF request
<1> QED
  BY <1>1, <1>8, <1>9, <1>10, <1>11, ZenonT(30) DEF Faithful

\* The times of a message are such as the broker gives.
InRange(op, m) ==
  /\ op \in CredentialMethods => ZeroTime \notin m.ExpiresAt
  /\ op = "ValidateNatsJwt" => m.ExpiresAtUnix < Two63 /\ m.IssuedAtUnix < Two63

\* Two messages that a method makes the same result of tell the same.
Distinct(op) ==
  \A m, n \in Methods[rpc(op)].out :
    (/\ ~unusable(op, m) /\ InRange(op, m)
     /\ ~unusable(op, n) /\ InRange(op, n)
     /\ result(op, m) = result(op, n)) => Told(m) = Told(n)


LEMMA SignTold ==
  Distinct("Sign")
<1>1. \A m, n \in SignResponse : m.Signature = n.Signature => m = n
  BY DEF SignResponse
<1>2. Methods[rpc("Sign")].out = SignResponse
  BY Services DEF SigningServiceClient, Method, rpc
<1>3. \A m : result("Sign", m) = m.Signature
  BY Zenon DEF result, CredentialMethods
<1> QED
  BY <1>1, <1>2, <1>3, Zenon DEF Distinct

LEMMA SignWithAlgorithmTold ==
  Distinct("SignWithAlgorithm")
<1>1. \A m, n \in SignResponse : m.Signature = n.Signature => m = n
  BY DEF SignResponse
<1>2. Methods[rpc("SignWithAlgorithm")].out = SignResponse
  BY Services DEF SigningServiceClient, Method, rpc
<1>3. \A m : result("SignWithAlgorithm", m) = m.Signature
  BY Zenon DEF result, CredentialMethods
<1> QED
  BY <1>1, <1>2, <1>3, Zenon DEF Distinct

LEMMA VerifyTold ==
  Distinct("Verify")
<1>1. \A m, n \in VerifyResponse : m.Valid = n.Valid => m = n
  BY DEF VerifyResponse
<1>2. Methods[rpc("Verify")].out = VerifyResponse
  BY Services DEF SigningServiceClient, Method, rpc
<1>3. \A m : result("Verify", m) = m.Valid
  BY Zenon DEF result, CredentialMethods
<1> QED
  BY <1>1, <1>2, <1>3, Zenon DEF Distinct

LEMMA VerifyWithAlgorithmTold ==
  Distinct("VerifyWithAlgorithm")
<1>1. \A m, n \in VerifyResponse : m.Valid = n.Valid => m = n
  BY DEF VerifyResponse
<1>2. Methods[rpc("VerifyWithAlgorithm")].out = VerifyResponse
  BY Services DEF SigningServiceClient, Method, rpc
<1>3. \A m : result("VerifyWithAlgorithm", m) = m.Valid
  BY Zenon DEF result, CredentialMethods
<1> QED
  BY <1>1, <1>2, <1>3, Zenon DEF Distinct

LEMMA NewKeyTold ==
  Distinct("NewKey") /\ Distinct("Import")
<1>1. \A m, n \in NewKeyResponse : KeyHandle(m) = KeyHandle(n) => m = n
  BY DEF NewKeyResponse, KeyHandle
<1>2. Methods[rpc("NewKey")].out = NewKeyResponse
      /\ Methods[rpc("Import")].out = NewKeyResponse
  BY Services DEF SigningServiceClient, Method, rpc
<1>3. \A m : result("NewKey", m) = KeyHandle(m) /\ result("Import", m) = KeyHandle(m)
  BY Zenon DEF result, CredentialMethods
<1> QED
  BY <1>1, <1>2, <1>3, Zenon DEF Distinct

LEMMA DecryptTold ==
  Distinct("Decrypt")
<1>1. \A m, n \in DecryptResponse : m.Plaintext = n.Plaintext => m = n
  BY DEF DecryptResponse
<1>2. Methods[rpc("Decrypt")].out = DecryptResponse
  BY Services DEF AeadServiceClient, Method, rpc
<1>3. \A m : result("Decrypt", m) = m.Plaintext
  BY Zenon DEF result, CredentialMethods
<1> QED
  BY <1>1, <1>2, <1>3, Zenon DEF Distinct

LEMMA UnwrapEnvelopeTold ==
  Distinct("UnwrapEnvelope")
<1>1. \A m, n \in UnwrapEnvelopeResponse : m.Plaintext = n.Plaintext => m = n
  BY DEF UnwrapEnvelopeResponse
<1>2. Methods[rpc("UnwrapEnvelope")].out = UnwrapEnvelopeResponse
  BY Services DEF AeadServiceClient, Method, rpc
<1>3. \A m : result("UnwrapEnvelope", m) = m.Plaintext
  BY Zenon DEF result, CredentialMethods
<1> QED
  BY <1>1, <1>2, <1>3, Zenon DEF Distinct

LEMMA UnsealCoseTold ==
  Distinct("UnsealCose")
<1>1. \A m, n \in UnsealCoseResponse : m.Plaintext = n.Plaintext => m = n
  BY DEF UnsealCoseResponse
<1>2. Methods[rpc("UnsealCose")].out = UnsealCoseResponse
  BY Services DEF AeadServiceClient, Method, rpc
<1>3. \A m : result("UnsealCose", m) = m.Plaintext
  BY Zenon DEF result, CredentialMethods
<1> QED
  BY <1>1, <1>2, <1>3, Zenon DEF Distinct

LEMMA DecryptNatsCurveTold ==
  Distinct("DecryptNatsCurve")
<1>1. \A m, n \in DecryptNatsCurveResponse : m.Plaintext = n.Plaintext => m = n
  BY DEF DecryptNatsCurveResponse
<1>2. Methods[rpc("DecryptNatsCurve")].out = DecryptNatsCurveResponse
  BY Services DEF NatsServiceClient, Method, rpc
<1>3. \A m : result("DecryptNatsCurve", m) = m.Plaintext
  BY Zenon DEF result, CredentialMethods
<1> QED
  BY <1>1, <1>2, <1>3, Zenon DEF Distinct

LEMMA GetSecretTold ==
  Distinct("GetSecret")
<1>1. \A m, n \in GetSecretResponse : [Value |-> m.Value, Version |-> m.Version] = [Value |-> n.Value, Version |-> n.Version] => m = n
  BY DEF GetSecretResponse
<1>2. Methods[rpc("GetSecret")].out = GetSecretResponse
  BY Services DEF SecretServiceClient, Method, rpc
<1>3. \A m : result("GetSecret", m) = [Value |-> m.Value, Version |-> m.Version]
  BY Zenon DEF result, CredentialMethods
<1> QED
  BY <1>1, <1>2, <1>3, Zenon DEF Distinct

LEMMA SetSecretTold ==
  Distinct("SetSecret")
<1>1. \A m, n \in SetSecretResponse : m.Version = n.Version => m = n
  BY DEF SetSecretResponse
<1>2. Methods[rpc("SetSecret")].out = SetSecretResponse
  BY Services DEF SecretServiceClient, Method, rpc
<1>3. \A m : result("SetSecret", m) = m.Version
  BY Zenon DEF result, CredentialMethods
<1> QED
  BY <1>1, <1>2, <1>3, Zenon DEF Distinct

LEMMA RotateSecretTold ==
  Distinct("RotateSecret")
<1>1. \A m, n \in RotateSecretResponse : m.Version = n.Version => m = n
  BY DEF RotateSecretResponse
<1>2. Methods[rpc("RotateSecret")].out = RotateSecretResponse
  BY Services DEF SecretServiceClient, Method, rpc
<1>3. \A m : result("RotateSecret", m) = m.Version
  BY Zenon DEF result, CredentialMethods
<1> QED
  BY <1>1, <1>2, <1>3, Zenon DEF Distinct

LEMMA GetInvocationChallengeTold ==
  Distinct("GetInvocationChallenge")
<1>1. \A m, n \in GetInvocationChallengeResponse : InvocationChallenge(m) = InvocationChallenge(n) => m = n
  BY DEF GetInvocationChallengeResponse, InvocationChallenge
<1>2. Methods[rpc("GetInvocationChallenge")].out = GetInvocationChallengeResponse
  BY Services DEF InvocationServiceClient, Method, rpc
<1>3. \A m : result("GetInvocationChallenge", m) = InvocationChallenge(m)
  BY Zenon DEF result, CredentialMethods
<1> QED
  BY <1>1, <1>2, <1>3, Zenon DEF Distinct

LEMMA GetInvocationCapabilitiesTold ==
  Distinct("GetInvocationCapabilities")
<1>1. \A m, n \in GetInvocationCapabilitiesResponse : InvocationCapabilities(m) = InvocationCapabilities(n) => m = n
  BY DEF GetInvocationCapabilitiesResponse, InvocationCapabilities
<1>2. Methods[rpc("GetInvocationCapabilities")].out = GetInvocationCapabilitiesResponse
  BY Services DEF InvocationServiceClient, Method, rpc
<1>3. \A m : result("GetInvocationCapabilities", m) = InvocationCapabilities(m)
  BY Zenon DEF result, CredentialMethods
<1> QED
  BY <1>1, <1>2, <1>3, Zenon DEF Distinct

LEMMA EncryptNatsCurveTold ==
  Distinct("EncryptNatsCurve")
<1>1. \A m, n \in EncryptNatsCurveResponse : m.Ciphertext = n.Ciphertext => m = n
  BY DEF EncryptNatsCurveResponse
<1>2. Methods[rpc("EncryptNatsCurve")].out = EncryptNatsCurveResponse
  BY Services DEF NatsServiceClient, Method, rpc
<1>3. \A m : result("EncryptNatsCurve", m) = m.Ciphertext
  BY Zenon DEF result, CredentialMethods
<1> QED
  BY <1>1, <1>2, <1>3, Zenon DEF Distinct

LEMMA IssueCertificateTold ==
  Distinct("IssueCertificate")
<1>1. \A m, n \in IssueCertificateResponse : Certificate(m) = Certificate(n) => m = n
  BY DEF IssueCertificateResponse, Certificate
<1>2. Methods[rpc("IssueCertificate")].out = IssueCertificateResponse
  BY Services DEF MintingServiceClient, Method, rpc
<1>3. \A m : result("IssueCertificate", m) = Certificate(m)
  BY Zenon DEF result, CredentialMethods
<1> QED
  BY <1>1, <1>2, <1>3, Zenon DEF Distinct

LEMMA ReloadTold ==
  Distinct("Reload")
<1>1. \A m, n \in ReloadResponse : ReloadResult(m) = ReloadResult(n) => m = n
  BY DEF ReloadResponse, ReloadResult
<1>2. Methods[rpc("Reload")].out = ReloadResponse
  BY Services DEF AdminServiceClient, Method, rpc
<1>3. \A m : result("Reload", m) = ReloadResult(m)
  BY Zenon DEF result, CredentialMethods
<1> QED
  BY <1>1, <1>2, <1>3, Zenon DEF Distinct

LEMMA RevokeTold ==
  Distinct("Revoke")
<1>1. \A m, n \in RevokeResponse : RevokeResult(m) = RevokeResult(n) => m = n
  BY DEF RevokeResponse, RevokeResult
<1>2. Methods[rpc("Revoke")].out = RevokeResponse
  BY Services DEF AdminServiceClient, Method, rpc
<1>3. \A m : result("Revoke", m) = RevokeResult(m)
  BY Zenon DEF result, CredentialMethods
<1> QED
  BY <1>1, <1>2, <1>3, Zenon DEF Distinct

LEMMA HealthTold ==
  Distinct("Health")
<1>1. \A m, n \in HealthResponse : Health(m) = Health(n) => m = n
  BY DEF HealthResponse, Health
<1>2. Methods[rpc("Health")].out = HealthResponse
  BY Services DEF AdminServiceClient, Method, rpc
<1>3. \A m : result("Health", m) = Health(m)
  BY Zenon DEF result, CredentialMethods
<1> QED
  BY <1>1, <1>2, <1>3, Zenon DEF Distinct

LEMMA ReadinessTold ==
  Distinct("Readiness")
<1>1. \A m, n \in ReadinessResponse : Readiness(m) = Readiness(n) => m = n
  BY DEF ReadinessResponse, Readiness
<1>2. Methods[rpc("Readiness")].out = ReadinessResponse
  BY Services DEF AdminServiceClient, Method, rpc
<1>3. \A m : result("Readiness", m) = Readiness(m)
  BY Zenon DEF result, CredentialMethods
<1> QED
  BY <1>1, <1>2, <1>3, Zenon DEF Distinct

LEMMA StatusTold ==
  Distinct("Status")
<1>1. \A m, n \in StatusResponse : Status(m) = Status(n) => m = n
  BY DEF StatusResponse, Status
<1>2. Methods[rpc("Status")].out = StatusResponse
  BY Services DEF AdminServiceClient, Method, rpc
<1>3. \A m : result("Status", m) = Status(m)
  BY Zenon DEF result, CredentialMethods
<1> QED
  BY <1>1, <1>2, <1>3, Zenon DEF Distinct

LEMMA GetPublicKeyTold == Distinct("GetPublicKey")
<1>1. ASSUME NEW m \in GetPublicKeyResponse, NEW n \in GetPublicKeyResponse,
             PublicKey(m) = PublicKey(n)
      PROVE  Told(m) = Told(n)
  <2>1. /\ DOMAIN m = DOMAIN n
        /\ keyTypeFromProto(m.KeyType) = keyTypeFromProto(n.KeyType)
        /\ \A f \in DOMAIN m \ {"KeyType"} : m[f] = n[f]
    BY <1>1 DEF GetPublicKeyResponse, PublicKey
  <2> QED
    BY <2>1, Zenon DEF Told
<1>2. Methods[rpc("GetPublicKey")].out = GetPublicKeyResponse
  BY Services DEF SigningServiceClient, Method, rpc
<1>3. \A m : result("GetPublicKey", m) = PublicKey(m)
  BY Zenon DEF result, CredentialMethods
<1> QED
  BY <1>1, <1>2, <1>3, ZenonT(30) DEF Distinct

LEMMA ImportSetTold == Distinct("ImportSet")
<1>1. \A k, j \in ImportedKey : KeyHandle(k) = KeyHandle(j) => k = j
  BY DEF ImportedKey, KeyHandle
<1>2. ASSUME NEW s \in Seq(ImportedKey), NEW t \in Seq(ImportedKey),
             [i \in DOMAIN s |-> KeyHandle(s[i])] = [i \in DOMAIN t |-> KeyHandle(t[i])]
      PROVE  s = t
  <2>1. DOMAIN s = DOMAIN t /\ \A i \in DOMAIN s : KeyHandle(s[i]) = KeyHandle(t[i])
    BY <1>2
  <2>2. \A i \in DOMAIN s : s[i] \in ImportedKey /\ t[i] \in ImportedKey
    BY <2>1
  <2>3. \A i \in DOMAIN s : s[i] = t[i]
    BY <1>1, <2>1, <2>2, Zenon
  <2> QED
    BY <2>1, <2>3
<1>3. ASSUME NEW m \in ImportSetResponse
      PROVE  m.Keys \in Seq(ImportedKey) /\ m = [Keys |-> m.Keys]
  BY DEF ImportSetResponse
<1>4. Methods[rpc("ImportSet")].out = ImportSetResponse
  BY Services DEF SigningServiceClient, Method, rpc
<1>5. \A m : result("ImportSet", m) = [i \in DOMAIN m.Keys |-> KeyHandle(m.Keys[i])]
  BY Zenon DEF result, CredentialMethods
<1>6. ASSUME NEW m \in ImportSetResponse, NEW n \in ImportSetResponse,
             result("ImportSet", m) = result("ImportSet", n)
      PROVE  m = n
  <2>1. [i \in DOMAIN m.Keys |-> KeyHandle(m.Keys[i])] = [i \in DOMAIN n.Keys |-> KeyHandle(n.Keys[i])]
    BY <1>5, <1>6, Zenon
  <2>2. m.Keys = n.Keys
    BY <1>2, <1>3, <2>1, Zenon
  <2> QED
    BY <1>3, <2>2, Zenon
<1> QED
  BY <1>4, <1>6, Zenon DEF Distinct

\* The one element of a pointer that is not nil.
LEMMA Pointee ==
  ASSUME NEW S, NEW o \in Opt(S), o # {}
  PROVE  (CHOOSE x \in o : TRUE) \in S /\ o = {CHOOSE x \in o : TRUE}
  BY Zenon DEF Opt

LEMMA EncryptTold == Distinct("Encrypt")
<1> DEFINE C(o) == CHOOSE env \in o : TRUE
<1>1. \A x, y \in CiphertextEnvelope : Ciphertext(x) = Ciphertext(y) => x = y
  BY DEF CiphertextEnvelope, Ciphertext
<1>2. ASSUME NEW m \in EncryptResponse
      PROVE  m.Envelope \in Opt(CiphertextEnvelope) /\ m = [Envelope |-> m.Envelope]
  BY DEF EncryptResponse
<1>3. \A m : result("Encrypt", m) = Ciphertext(C(m.Envelope))
  BY Zenon DEF result, CredentialMethods
<1>4. \A m : unusable("Encrypt", m) <=> m.Envelope = {}
  BY DEF unusable
<1>5. \A o \in Opt(CiphertextEnvelope) : o # {} => C(o) \in CiphertextEnvelope /\ o = {C(o)}
  BY Pointee, Zenon
<1>6. Methods[rpc("Encrypt")].out = EncryptResponse
  BY Services DEF AeadServiceClient, Method, rpc
<1> HIDE DEF C
<1>7. ASSUME NEW m \in EncryptResponse, NEW n \in EncryptResponse,
             ~unusable("Encrypt", m), ~unusable("Encrypt", n),
             result("Encrypt", m) = result("Encrypt", n)
      PROVE  m = n
  <2>1. C(m.Envelope) = C(n.Envelope)
    BY <1>1, <1>2, <1>3, <1>4, <1>5, <1>7, Zenon
  <2>2. m.Envelope = n.Envelope
    BY <1>2, <1>4, <1>5, <1>7, <2>1, Zenon
  <2> QED
    BY <1>2, <2>2, Zenon
<1> QED
  BY <1>6, <1>7, Zenon DEF Distinct

LEMMA WrapEnvelopeTold == Distinct("WrapEnvelope")
<1> DEFINE C(o) == CHOOSE env \in o : TRUE
<1>1. \A x, y \in KemEnvelope : WrappedEnvelope(x) = WrappedEnvelope(y) => x = y
  BY DEF KemEnvelope, WrappedEnvelope
<1>2. ASSUME NEW m \in WrapEnvelopeResponse
      PROVE  m.Envelope \in Opt(KemEnvelope) /\ m = [Envelope |-> m.Envelope]
  BY DEF WrapEnvelopeResponse
<1>3. \A m : result("WrapEnvelope", m) = WrappedEnvelope(C(m.Envelope))
  BY Zenon DEF result, CredentialMethods
<1>4. \A m : unusable("WrapEnvelope", m) <=> m.Envelope = {}
  BY DEF unusable
<1>5. \A o \in Opt(KemEnvelope) : o # {} => C(o) \in KemEnvelope /\ o = {C(o)}
  BY Pointee, Zenon
<1>6. Methods[rpc("WrapEnvelope")].out = WrapEnvelopeResponse
  BY Services DEF AeadServiceClient, Method, rpc
<1> HIDE DEF C
<1>7. ASSUME NEW m \in WrapEnvelopeResponse, NEW n \in WrapEnvelopeResponse,
             ~unusable("WrapEnvelope", m), ~unusable("WrapEnvelope", n),
             result("WrapEnvelope", m) = result("WrapEnvelope", n)
      PROVE  m = n
  <2>1. C(m.Envelope) = C(n.Envelope)
    BY <1>1, <1>2, <1>3, <1>4, <1>5, <1>7, Zenon
  <2>2. m.Envelope = n.Envelope
    BY <1>2, <1>4, <1>5, <1>7, <2>1, Zenon
  <2> QED
    BY <1>2, <2>2, Zenon
<1> QED
  BY <1>6, <1>7, Zenon DEF Distinct

LEMMA ExplainTold == Distinct("Explain")
<1>1. \A d, e \in Enum : explainDecision(d) = explainDecision(e) => d = e
  <2>1. \A d : explainDecision(d) = IF d = 1 THEN <<"allow">> ELSE IF d = 2 THEN <<"deny">>
                                    ELSE <<"UNKNOWN", d>>
    BY DEF explainDecision, ExplainDecision
  <2> QED
    BY <2>1
<1>2. \A m, n \in ExplainResponse : ExplainResult(m) = ExplainResult(n) => m = n
  BY <1>1 DEF ExplainResponse, ExplainResult
<1>3. Methods[rpc("Explain")].out = ExplainResponse
  BY Services DEF AdminServiceClient, Method, rpc
<1>4. \A m : result("Explain", m) = ExplainResult(m)
  BY Zenon DEF result, CredentialMethods
<1> QED
  BY <1>2, <1>3, <1>4, Zenon DEF Distinct

LEMMA CredentialTold ==
  ASSUME NEW op \in CredentialMethods PROVE Distinct(op)
<1> DEFINE C(o) == CHOOSE t \in o : TRUE
<1>1. Methods[rpc(op)].out = CredentialResponse
  BY Services DEF CredentialMethods, MintingServiceClient, NatsServiceClient, Method, rpc
<1>2. \A m : result(op, m) = credentialFromProto(m)
  BY Zenon DEF result, CredentialMethods
<1>3. \A m : /\ credentialFromProto(m).Token = m.Token
             /\ credentialFromProto(m).ExpiresAt =
                  IF m.ExpiresAt = {} THEN ZeroTime ELSE C(m.ExpiresAt)
  BY Zenon DEF credentialFromProto
<1>4. \A o \in Opt(Timestamp) : o # {} => C(o) \in o /\ o = {C(o)}
  BY Pointee, Zenon
<1> HIDE DEF C
<1>5. ASSUME NEW m \in CredentialResponse
      PROVE  m.ExpiresAt \in Opt(Timestamp) /\ m = [Token |-> m.Token, ExpiresAt |-> m.ExpiresAt]
  BY DEF CredentialResponse
<1>6. ASSUME NEW m \in CredentialResponse, NEW n \in CredentialResponse,
             InRange(op, m), InRange(op, n), result(op, m) = result(op, n)
      PROVE  m = n
  <2>1. /\ m.Token = n.Token
        /\ (IF m.ExpiresAt = {} THEN ZeroTime ELSE C(m.ExpiresAt)) =
             (IF n.ExpiresAt = {} THEN ZeroTime ELSE C(n.ExpiresAt))
    BY <1>2, <1>3, <1>6, Zenon
  <2>2. ZeroTime \notin m.ExpiresAt /\ ZeroTime \notin n.ExpiresAt
    BY <1>6, Zenon DEF InRange
  <2>3. m.ExpiresAt = n.ExpiresAt
    BY <1>4, <1>5, <2>1, <2>2, Zenon
  <2> QED
    BY <1>5, <2>1, <2>3, Zenon
<1> QED
  BY <1>1, <1>6, Zenon DEF Distinct

LEMMA ValidateNatsJwtTold == Distinct("ValidateNatsJwt")
<1> DEFINE T(n) == IF n # 0 THEN int64(n) ELSE ZeroTime
<1>1. ASSUME NEW m \in Nat, NEW n \in Nat, m < Two63, n < Two63, T(m) = T(n)
      PROVE  m = n
  BY <1>1, TimeAssumption DEF int64
<1>2. \A m : natsJwtValidationFromProto(m) =
        [Valid |-> m.Valid, Reason |-> m.Reason, Subject |-> m.Subject, Issuer |-> m.Issuer,
         MatchedSignerKeyID |-> m.MatchedSignerKeyId, JWTType |-> m.JwtType,
         ExpiresAt |-> T(m.ExpiresAtUnix), IssuedAt |-> T(m.IssuedAtUnix)]
  BY Zenon DEF natsJwtValidationFromProto
<1> HIDE DEF T
<1>3. ASSUME NEW m \in ValidateNatsJwtResponse, NEW n \in ValidateNatsJwtResponse,
             m.ExpiresAtUnix < Two63, m.IssuedAtUnix < Two63,
             n.ExpiresAtUnix < Two63, n.IssuedAtUnix < Two63,
             natsJwtValidationFromProto(m) = natsJwtValidationFromProto(n)
      PROVE  m = n
  <2>1. T(m.ExpiresAtUnix) = T(n.ExpiresAtUnix) /\ T(m.IssuedAtUnix) = T(n.IssuedAtUnix)
    BY <1>2, <1>3
  <2>2. m.ExpiresAtUnix = n.ExpiresAtUnix /\ m.IssuedAtUnix = n.IssuedAtUnix
    <3>1. /\ m.ExpiresAtUnix \in Nat /\ m.IssuedAtUnix \in Nat
          /\ n.ExpiresAtUnix \in Nat /\ n.IssuedAtUnix \in Nat
      BY DEF ValidateNatsJwtResponse
    <3> QED
      BY <1>1, <1>3, <2>1, <3>1, Zenon
  <2>3. /\ m.Valid = n.Valid /\ m.Reason = n.Reason /\ m.Subject = n.Subject
        /\ m.Issuer = n.Issuer /\ m.MatchedSignerKeyId = n.MatchedSignerKeyId
        /\ m.JwtType = n.JwtType
    BY <1>2, <1>3
  <2> QED
    BY <2>2, <2>3 DEF ValidateNatsJwtResponse
<1>4. Methods[rpc("ValidateNatsJwt")].out = ValidateNatsJwtResponse
  BY Services DEF NatsServiceClient, Method, rpc
<1>5. \A m : result("ValidateNatsJwt", m) = natsJwtValidationFromProto(m)
  BY Zenon DEF result, CredentialMethods
<1> QED
  BY <1>3, <1>4, <1>5, Zenon DEF Distinct, InRange

-----------------------------------------------------------------------------
\* The answers of the broker are messages of the types of its services.

\* A log that the broker can have: its entries are requests of the types of
\* its services, and there are no more of them than calls.
LogOK(l) ==
  /\ Len(l) \in 0 .. NumCalls /\ DOMAIN l = 1 .. Len(l)
  /\ \A i \in DOMAIN l : /\ l[i].rpc \in Mutations \cup Issues
                         /\ l[i].req \in Methods[l[i].rpc].in
                         /\ l[i].rpc \in CredentialMethods =>
                              Expiry(l[i].req) \subseteq 1 .. Two63 - 1

\* What is said of an answer to r: that it is a message of its type.
Answered(r) ==
  \A q \in Methods[r].in : \A l :
    LogOK(l) /\ (r \in Mutations \cup Issues => Len(l) # 0)
      => Response(r, q, l) \subseteq Methods[r].out

LEMMA NamedTyped ==
  ASSUME NEW l, LogOK(l)
  PROVE  /\ \A i \in DOMAIN l : Named(i) \in Bytes /\ Named(i) \in Str /\ i \in Nat
         /\ Len(l) # 0 => Named(Len(l)) \in Bytes /\ Named(Len(l)) \in Str /\ Len(l) \in Nat
         /\ \A i, j \in DOMAIN l : Named(i) = Named(j) => i = j
<1>1. NumCalls \in Nat
  BY ClientAssumption, Zenon
<1>2. \A i \in 1 .. NumCalls : Named(i) \in Bytes
  BY BrokerAssumption, Zenon
<1>3. \A i, j \in 1 .. NumCalls : Named(i) = Named(j) => i = j
  BY BrokerAssumption, Zenon
<1>4. PICK n : n = Len(l)
  OBVIOUS
<1>5. n \in 0 .. NumCalls /\ DOMAIN l = 1 .. n
  BY <1>4 DEF LogOK
<1>6. \A i \in DOMAIN l : i \in 1 .. NumCalls /\ i \in Nat
  BY <1>1, <1>5
<1>7. n # 0 => n \in DOMAIN l
  BY <1>1, <1>5
<1> QED
  BY <1>2, <1>3, <1>4, <1>6, <1>7, Zenon DEF Str, Bytes

LEMMA Counted ==
  ASSUME NEW l, LogOK(l)
  PROVE  \A id : /\ Cardinality(Versions(l, id)) \in Nat
                 /\ \A i \in DOMAIN l : /\ Number(i, Versions(l, id)) \in Nat
                                        /\ Number(i, PublicKeys(l, id)) \in Nat
<1>0. NumCalls \in Nat /\ Len(l) \in 0 .. NumCalls /\ DOMAIN l = 1 .. Len(l)
  BY ClientAssumption, Zenon DEF LogOK
<1>1. PICK n \in Nat : DOMAIN l = 1 .. n
  <2>1. PICK n : n = Len(l)
    OBVIOUS
  <2>2. n \in Nat /\ DOMAIN l = 1 .. n
    BY <1>0, <2>1
  <2> QED
    BY <2>2
<1>2. IsFiniteSet(DOMAIN l)
  BY <1>1, FS_Interval
<1>3. \A S : S \subseteq DOMAIN l => Cardinality(S) \in Nat
  BY <1>2, FS_Subset, FS_CardinalityType, Zenon
<1>4. \A id : Versions(l, id) \subseteq DOMAIN l /\ PublicKeys(l, id) \subseteq DOMAIN l
  BY Zenon DEF Versions, PublicKeys
<1>5. ASSUME NEW i, NEW vs, vs \subseteq DOMAIN l PROVE {j \in vs : j <= i} \subseteq DOMAIN l
  BY <1>5, Zenon
<1> QED
  BY <1>3, <1>4, <1>5, Zenon DEF Number

LEMMA SimpleAnswers ==
  ASSUME NEW q, NEW l
  PROVE  /\ Response("Sign", q, l) = {[Signature |-> Named(Len(l))]}
         /\ Response("NewKey", q, l) = {[KeyId |-> q.KeyId, PublicKey |-> Named(Len(l))]}
         /\ Response("Import", q, l) = {[KeyId |-> q.KeyId, PublicKey |-> Named(Len(l))]}
         /\ Response("EncryptNatsCurve", q, l) = {[Ciphertext |-> Named(Len(l))]}
         /\ Response("SetSecret", q, l) = {[Version |-> Cardinality(Versions(l, q.SecretId))]}
         /\ Response("RotateSecret", q, l) = {[Version |-> Cardinality(Versions(l, q.SecretId))]}
  BY SMT DEF Answer, Response, CredentialMethods

LEMMA OtherAnswers ==
  ASSUME NEW r \in Undecided, NEW q, NEW l
  PROVE  Answer(r, q, l) = Answers(r) /\ r \notin CredentialMethods
<1>1. /\ Answer("UnsealCose", q, l) = Answers("UnsealCose")
      /\ Answer("IssueCertificate", q, l) = Answers("IssueCertificate")
      /\ Answer("GetInvocationChallenge", q, l) = Answers("GetInvocationChallenge")
      /\ Answer("GetInvocationCapabilities", q, l) = Answers("GetInvocationCapabilities")
      /\ Answer("Reload", q, l) = Answers("Reload")
      /\ Answer("Explain", q, l) = Answers("Explain")
      /\ Answer("Revoke", q, l) = Answers("Revoke")
      /\ Answer("Health", q, l) = Answers("Health")
      /\ Answer("Readiness", q, l) = Answers("Readiness")
      /\ Answer("Status", q, l) = Answers("Status")
  BY SMT DEF Answer
<1>2. r \notin CredentialMethods
  BY DEF Undecided, CredentialMethods
<1> QED
  BY <1>1, <1>2, Zenon DEF Undecided

LEMMA SimpleAnswered ==
  \A r \in {"Sign", "NewKey", "Import", "EncryptNatsCurve", "SetSecret", "RotateSecret"} : Answered(r)
<1>1. ASSUME NEW l, LogOK(l), Len(l) # 0
      PROVE  /\ [Signature |-> Named(Len(l))] \in SignResponse
             /\ \A q \in NewKeyRequest \cup ImportRequest :
                  [KeyId |-> q.KeyId, PublicKey |-> Named(Len(l))] \in NewKeyResponse
             /\ [Ciphertext |-> Named(Len(l))] \in EncryptNatsCurveResponse
             /\ \A id : [Version |-> Cardinality(Versions(l, id))] \in SetSecretResponse
  <2>1. PICK here : here = Named(Len(l))
    OBVIOUS
  <2>2. here \in Bytes
    BY <1>1, <2>1, NamedTyped, Zenon
  <2>3. \A id : Cardinality(Versions(l, id)) \in Nat
    BY <1>1, Counted, Zenon
  <2>4. /\ [Signature |-> here] \in SignResponse
        /\ \A q \in NewKeyRequest \cup ImportRequest : [KeyId |-> q.KeyId, PublicKey |-> here] \in NewKeyResponse
        /\ [Ciphertext |-> here] \in EncryptNatsCurveResponse
    BY <2>2 DEF SignResponse, NewKeyRequest, ImportRequest, NewKeyResponse, EncryptNatsCurveResponse
  <2>5. ASSUME NEW id PROVE [Version |-> Cardinality(Versions(l, id))] \in SetSecretResponse
    <3>1. PICK n \in Nat : n = Cardinality(Versions(l, id))
      BY <2>3, Zenon
    <3>2. [Version |-> n] \in SetSecretResponse
      BY DEF SetSecretResponse
    <3> QED
      BY <3>1, <3>2, Zenon
  <2> QED
    BY <2>1, <2>4, <2>5, Zenon
<1>2. /\ Methods["Sign"].out = SignResponse /\ Methods["NewKey"].out = NewKeyResponse
      /\ Methods["Import"].out = NewKeyResponse
      /\ Methods["NewKey"].in = NewKeyRequest /\ Methods["Import"].in = ImportRequest
  BY Services DEF SigningServiceClient, Method
<1>5. Methods["EncryptNatsCurve"].out = EncryptNatsCurveResponse
  BY Services DEF NatsServiceClient, Method
<1>6. /\ Methods["SetSecret"].out = SetSecretResponse
      /\ Methods["RotateSecret"].out = RotateSecretResponse
      /\ RotateSecretResponse = SetSecretResponse
  <2>1. /\ Methods["SetSecret"].out = SetSecretResponse
        /\ Methods["RotateSecret"].out = RotateSecretResponse
    BY Services DEF SecretServiceClient, Method
  <2> QED
    BY <2>1, Zenon DEF SetSecretResponse, RotateSecretResponse
<1>3. \A r \in {"Sign", "NewKey", "Import", "EncryptNatsCurve", "SetSecret", "RotateSecret"} :
        r \in Mutations \cup Issues
  BY DEF Mutations, Issues
<1>4. \A S, m : m \in S => {m} \subseteq S
  BY Zenon
<1>7. Answered("Sign")
  <2>1. ASSUME NEW q, NEW l, LogOK(l), Len(l) # 0
        PROVE  Response("Sign", q, l) \subseteq SignResponse
    <3>1. Response("Sign", q, l) = {[Signature |-> Named(Len(l))]}
      BY SimpleAnswers, Zenon
    <3>2. [Signature |-> Named(Len(l))] \in SignResponse
      BY <1>1, <2>1, Zenon
    <3> QED
      BY <1>4, <3>1, <3>2, Zenon
  <2> QED
    BY <1>2, <1>3, <1>5, <1>6, <2>1, Zenon DEF Answered
<1>8. Answered("NewKey")
  <2>1. ASSUME NEW q \in NewKeyRequest, NEW l, LogOK(l), Len(l) # 0
        PROVE  Response("NewKey", q, l) \subseteq NewKeyResponse
    <3>1. Response("NewKey", q, l) = {[KeyId |-> q.KeyId, PublicKey |-> Named(Len(l))]}
      BY SimpleAnswers, Zenon
    <3>2. [KeyId |-> q.KeyId, PublicKey |-> Named(Len(l))] \in NewKeyResponse
      BY <1>1, <2>1, Zenon
    <3> QED
      BY <1>4, <3>1, <3>2, Zenon
  <2> QED
    BY <1>2, <1>3, <1>5, <1>6, <2>1, Zenon DEF Answered
<1>9. Answered("Import")
  <2>1. ASSUME NEW q \in ImportRequest, NEW l, LogOK(l), Len(l) # 0
        PROVE  Response("Import", q, l) \subseteq NewKeyResponse
    <3>1. Response("Import", q, l) = {[KeyId |-> q.KeyId, PublicKey |-> Named(Len(l))]}
      BY SimpleAnswers, Zenon
    <3>2. [KeyId |-> q.KeyId, PublicKey |-> Named(Len(l))] \in NewKeyResponse
      BY <1>1, <2>1, Zenon
    <3> QED
      BY <1>4, <3>1, <3>2, Zenon
  <2> QED
    BY <1>2, <1>3, <1>5, <1>6, <2>1, Zenon DEF Answered
<1>10. Answered("EncryptNatsCurve")
  <2>1. ASSUME NEW q, NEW l, LogOK(l), Len(l) # 0
        PROVE  Response("EncryptNatsCurve", q, l) \subseteq EncryptNatsCurveResponse
    <3>1. Response("EncryptNatsCurve", q, l) = {[Ciphertext |-> Named(Len(l))]}
      BY SimpleAnswers, Zenon
    <3>2. [Ciphertext |-> Named(Len(l))] \in EncryptNatsCurveResponse
      BY <1>1, <2>1, Zenon
    <3> QED
      BY <1>4, <3>1, <3>2, Zenon
  <2> QED
    BY <1>2, <1>3, <1>5, <1>6, <2>1, Zenon DEF Answered
<1>11. Answered("SetSecret")
  <2>1. ASSUME NEW q, NEW l, LogOK(l), Len(l) # 0
        PROVE  Response("SetSecret", q, l) \subseteq SetSecretResponse
    <3>1. Response("SetSecret", q, l) = {[Version |-> Cardinality(Versions(l, q.SecretId))]}
      BY SimpleAnswers, Zenon
    <3>2. [Version |-> Cardinality(Versions(l, q.SecretId))] \in SetSecretResponse
      BY <1>1, <2>1, Zenon
    <3> QED
      BY <1>4, <3>1, <3>2, Zenon
  <2> QED
    BY <1>2, <1>3, <1>5, <1>6, <2>1, Zenon DEF Answered
<1>12. Answered("RotateSecret")
  <2>1. ASSUME NEW q, NEW l, LogOK(l), Len(l) # 0
        PROVE  Response("RotateSecret", q, l) \subseteq SetSecretResponse
    <3>1. Response("RotateSecret", q, l) = {[Version |-> Cardinality(Versions(l, q.SecretId))]}
      BY SimpleAnswers, Zenon
    <3>2. [Version |-> Cardinality(Versions(l, q.SecretId))] \in SetSecretResponse
      BY <1>1, <2>1, Zenon
    <3> QED
      BY <1>4, <3>1, <3>2, Zenon
  <2> QED
    BY <1>2, <1>3, <1>5, <1>6, <2>1, Zenon DEF Answered
<1> QED
  BY <1>7, <1>8, <1>9, <1>10, <1>11, <1>12, Zenon

LEMMA OtherAnswered ==
  \A r \in Undecided : Answered(r)
  BY OtherAnswers, BrokerAssumption, Zenon DEF Answered, Response

-----------------------------------------------------------------------------
\* The answers to the requests on what was made before.

\* What the log holds of request q.
SealedBy(q, l, i) ==
  /\ l[i].rpc = "Encrypt" /\ q.Envelope = {AEADEnvelope(i, l[i].req)}
  /\ l[i].req.KeyId = q.KeyId /\ l[i].req.Aad = q.Aad

WrappedBy(q, l, i) ==
  /\ l[i].rpc = "WrapEnvelope" /\ q.Envelope = {KEMEnvelope(i, l[i].req)}
  /\ l[i].req.KeyId = q.KeyId /\ l[i].req.Aad = q.Aad

CurvedBy(q, l, i) ==
  /\ l[i].rpc = "EncryptNatsCurve" /\ q.Ciphertext = Named(i)
  /\ l[i].req.RecipientPublicXkey = q.KeyId
  /\ l[i].req.KeyId = q.SenderPublicXkey

SignedBy(q, l, i) ==
  /\ l[i].rpc = "Sign" /\ q.Signature = Named(i)
  /\ l[i].req = [KeyId |-> q.KeyId, Message |-> q.Message, Algorithm |-> q.Algorithm]

LEMMA OpenAnswers ==
  ASSUME NEW q, NEW l, NEW m
  PROVE  /\ m \in Response("Decrypt", q, l) <=>
              \E i \in DOMAIN l : SealedBy(q, l, i) /\ m = [Plaintext |-> l[i].req.Plaintext]
         /\ m \in Response("UnwrapEnvelope", q, l) <=>
              \E i \in DOMAIN l : WrappedBy(q, l, i) /\ m = [Plaintext |-> l[i].req.Plaintext]
         /\ m \in Response("DecryptNatsCurve", q, l) <=>
              \E i \in DOMAIN l : CurvedBy(q, l, i) /\ m = [Plaintext |-> l[i].req.Plaintext]
         /\ m \in Response("Verify", q, l) <=>
              m = [Valid |-> \E i \in DOMAIN l : SignedBy(q, l, i)]
<1>1. /\ Response("Decrypt", q, l) =
           {[Plaintext |-> l[i].req.Plaintext] : i \in {j \in DOMAIN l : SealedBy(q, l, j)}}
      /\ Response("UnwrapEnvelope", q, l) =
           {[Plaintext |-> l[i].req.Plaintext] : i \in {j \in DOMAIN l : WrappedBy(q, l, j)}}
      /\ Response("DecryptNatsCurve", q, l) =
           {[Plaintext |-> l[i].req.Plaintext] : i \in {j \in DOMAIN l : CurvedBy(q, l, j)}}
      /\ Response("Verify", q, l) = {[Valid |-> \E i \in DOMAIN l : SignedBy(q, l, i)]}
  BY SMT DEF Answer, Response, CredentialMethods, SealedBy, WrappedBy, CurvedBy, SignedBy
<1> QED
  BY <1>1, SMT

LEMMA MadeAnswers ==
  ASSUME NEW q, NEW l, NEW m
  PROVE  /\ m \in Response("Encrypt", q, l) <=>
              m \in {[Envelope |-> {}], [Envelope |-> {AEADEnvelope(Len(l), q)}]}
         /\ m \in Response("WrapEnvelope", q, l) <=>
              m \in {[Envelope |-> {}], [Envelope |-> {KEMEnvelope(Len(l), q)}]}
         /\ m \in Response("ImportSet", q, l) <=>
              m = [Keys |-> [k \in DOMAIN q.Entries |->
                          [KeyId |-> q.Entries[k].KeyId, PublicKey |-> Named(Len(l))]]]
  BY SMT DEF Answer, Response, CredentialMethods

Found(q, l, i) ==
  [KeyId |-> q.KeyId, KeyType |-> l[i].req.KeyType, PublicKey |-> Named(i),
   Version |-> Number(i, PublicKeys(l, q.KeyId))]

Read(q, l, i) ==
  [Value |-> IF l[i].rpc = "SetSecret" THEN l[i].req.Value ELSE Named(i),
   Version |-> Number(i, Versions(l, q.SecretId))]

LEMMA FoundAnswers ==
  ASSUME NEW q, NEW l, NEW m
  PROVE  /\ m \in Response("GetPublicKey", q, l) <=>
              \E i \in WithNumber(q.Version, PublicKeys(l, q.KeyId)) : m = Found(q, l, i)
         /\ m \in Response("GetSecret", q, l) <=>
              \E i \in WithNumber(q.Version, Versions(l, q.SecretId)) : m = Read(q, l, i)
<1>1. /\ Response("GetPublicKey", q, l) =
           {Found(q, l, i) : i \in WithNumber(q.Version, PublicKeys(l, q.KeyId))}
      /\ Response("GetSecret", q, l) =
           {Read(q, l, i) : i \in WithNumber(q.Version, Versions(l, q.SecretId))}
  BY SMT DEF Answer, Response, CredentialMethods, Found, Read
<1> QED
  BY <1>1, SMT

Minters(q, l) == {i \in DOMAIN l : l[i].rpc \in CredentialMethods /\ q.Jwt = Named(i)}
MinterKeys(q, l) == {l[i].req.KeyId : i \in Minters(q, l)}
MinterExpiry(q, l) == UNION {Expiry(l[i].req) : i \in Minters(q, l)}
Known(q, l) == [KeyId : MinterKeys(q, l)] \cap Range(q.AllowedSigners) # {}
One(S, none) == IF S = {} THEN none ELSE CHOOSE x \in S : TRUE

LEMMA ValidateAnswers ==
  ASSUME NEW q, NEW l
  PROVE  Response("ValidateNatsJwt", q, l) =
           {[Valid |-> Known(q, l) /\ \A t \in MinterExpiry(q, l) : t > Now, Reason |-> 0,
             Subject |-> q.Jwt, Issuer |-> One(MinterKeys(q, l), ""), JwtType |-> q.ExpectedType,
             MatchedSignerKeyId |-> IF Known(q, l) THEN One(MinterKeys(q, l), "") ELSE "",
             ExpiresAtUnix |-> One(MinterExpiry(q, l), 0), IssuedAtUnix |-> Now]}
  BY SMT DEF Answer, Response, CredentialMethods, Minters, MinterKeys, MinterExpiry, Known, One

LEMMA OpenAnswered ==
  Answered("Decrypt") /\ Answered("UnwrapEnvelope") /\ Answered("DecryptNatsCurve")
<1>1. /\ Methods["Encrypt"].in = EncryptRequest /\ Methods["WrapEnvelope"].in = WrapEnvelopeRequest
      /\ Methods["Decrypt"].out = DecryptResponse
      /\ Methods["UnwrapEnvelope"].out = UnwrapEnvelopeResponse
  BY Services DEF AeadServiceClient, Method
<1>2. /\ Methods["EncryptNatsCurve"].in = EncryptNatsCurveRequest
      /\ Methods["DecryptNatsCurve"].out = DecryptNatsCurveResponse
  BY Services DEF NatsServiceClient, Method
<1>3. ASSUME NEW q \in EncryptRequest \cup WrapEnvelopeRequest \cup EncryptNatsCurveRequest
      PROVE  q.Plaintext \in Bytes
  BY DEF EncryptRequest, WrapEnvelopeRequest, EncryptNatsCurveRequest
<1>4. \A p \in Bytes : [Plaintext |-> p] \in [Plaintext : Bytes]
  OBVIOUS
<1>5. /\ DecryptResponse = [Plaintext : Bytes] /\ UnwrapEnvelopeResponse = [Plaintext : Bytes]
      /\ DecryptNatsCurveResponse = [Plaintext : Bytes]
  BY Zenon DEF DecryptResponse, UnwrapEnvelopeResponse, DecryptNatsCurveResponse
<1>6. ASSUME NEW l, LogOK(l), NEW i \in DOMAIN l,
             l[i].rpc \in {"Encrypt", "WrapEnvelope", "EncryptNatsCurve"}
      PROVE  [Plaintext |-> l[i].req.Plaintext] \in [Plaintext : Bytes]
  <2>1. l[i].req \in Methods[l[i].rpc].in
    BY <1>6, Zenon DEF LogOK
  <2>2. l[i].req \in EncryptRequest \cup WrapEnvelopeRequest \cup EncryptNatsCurveRequest
    BY <1>1, <1>2, <1>6, <2>1, Zenon
  <2> QED
    BY <1>3, <1>4, <2>2, Zenon
<1>7. Answered("Decrypt")
  <2>1. ASSUME NEW q, NEW l, LogOK(l), NEW m \in Response("Decrypt", q, l)
        PROVE  m \in DecryptResponse
    <3>2. PICK i \in DOMAIN l : SealedBy(q, l, i) /\ m = [Plaintext |-> l[i].req.Plaintext]
      BY <2>1, OpenAnswers, SMT
    <3>3. [Plaintext |-> l[i].req.Plaintext] \in [Plaintext : Bytes]
      BY <1>6, <2>1, <3>2, Zenon DEF SealedBy
    <3> QED
      BY <1>5, <3>2, <3>3, Zenon
  <2> QED
    BY <1>1, <2>1, Zenon DEF Answered
<1>8. Answered("UnwrapEnvelope")
  <2>1. ASSUME NEW q, NEW l, LogOK(l), NEW m \in Response("UnwrapEnvelope", q, l)
        PROVE  m \in UnwrapEnvelopeResponse
    <3>2. PICK i \in DOMAIN l : WrappedBy(q, l, i) /\ m = [Plaintext |-> l[i].req.Plaintext]
      BY <2>1, OpenAnswers, SMT
    <3>3. [Plaintext |-> l[i].req.Plaintext] \in [Plaintext : Bytes]
      BY <1>6, <2>1, <3>2, Zenon DEF WrappedBy
    <3> QED
      BY <1>5, <3>2, <3>3, Zenon
  <2> QED
    BY <1>1, <2>1, Zenon DEF Answered
<1>9. Answered("DecryptNatsCurve")
  <2>1. ASSUME NEW q, NEW l, LogOK(l), NEW m \in Response("DecryptNatsCurve", q, l)
        PROVE  m \in DecryptNatsCurveResponse
    <3>2. PICK i \in DOMAIN l : CurvedBy(q, l, i) /\ m = [Plaintext |-> l[i].req.Plaintext]
      BY <2>1, OpenAnswers, SMT
    <3>3. [Plaintext |-> l[i].req.Plaintext] \in [Plaintext : Bytes]
      BY <1>6, <2>1, <3>2, Zenon DEF CurvedBy
    <3> QED
      BY <1>5, <3>2, <3>3, Zenon
  <2> QED
    BY <1>2, <2>1, Zenon DEF Answered
<1> QED
  BY <1>7, <1>8, <1>9

LEMMA VerifyAnswered == Answered("Verify")
<1>1. Methods["Verify"].out = VerifyResponse
  BY Services DEF SigningServiceClient, Method
<1>2. \A b \in BOOLEAN : [Valid |-> b] \in VerifyResponse
  BY DEF VerifyResponse
<1>3. ASSUME NEW q, NEW l PROVE Response("Verify", q, l) \subseteq VerifyResponse
  <2>1. PICK b \in BOOLEAN : b = (\E i \in DOMAIN l : SignedBy(q, l, i))
    BY Zenon
  <2>2. \A m \in Response("Verify", q, l) : m = [Valid |-> b]
    BY <2>1, OpenAnswers, SMT
  <2>3. [Valid |-> b] \in VerifyResponse
    BY <1>2, Zenon
  <2> QED
    BY <2>2, <2>3, Zenon
<1> QED
  BY <1>1, <1>3, Zenon DEF Answered

LEMMA EncryptAnswered == Answered("Encrypt") /\ Answered("WrapEnvelope")
<1>1. /\ Methods["Encrypt"].in = EncryptRequest /\ Methods["WrapEnvelope"].in = WrapEnvelopeRequest
      /\ Methods["Encrypt"].out = EncryptResponse
      /\ Methods["WrapEnvelope"].out = WrapEnvelopeResponse
  BY Services DEF AeadServiceClient, Method
<1>2. "Encrypt" \in Issues /\ "WrapEnvelope" \in Issues
  BY DEF Issues
<1>3. ASSUME NEW S PROVE {} \in Opt(S) /\ \A m \in S : {m} \in Opt(S)
  BY Zenon DEF Opt
<1>4. /\ \A o \in Opt(CiphertextEnvelope) : [Envelope |-> o] \in EncryptResponse
      /\ \A o \in Opt(KemEnvelope) : [Envelope |-> o] \in WrapEnvelopeResponse
  BY DEF EncryptResponse, WrapEnvelopeResponse
<1>5. ASSUME NEW q \in EncryptRequest, NEW l, LogOK(l), Len(l) # 0
      PROVE  Response("Encrypt", q, l) \subseteq EncryptResponse
  <2>1. PICK n, here : n = Len(l) /\ here = Named(n)
    OBVIOUS
  <2>2. n \in Nat /\ here \in Bytes
    BY <1>5, <2>1, NamedTyped, Zenon
  <2>3. [Alg |-> q.Algorithm, KeyVersion |-> n, Nonce |-> here, Ciphertext |-> here]
          \in CiphertextEnvelope
    BY <2>2 DEF CiphertextEnvelope, EncryptRequest
  <2>4. AEADEnvelope(n, q) \in CiphertextEnvelope
    BY <2>1, <2>3, Zenon DEF AEADEnvelope
  <2>5. [Envelope |-> {}] \in EncryptResponse /\ [Envelope |-> {AEADEnvelope(n, q)}] \in EncryptResponse
    BY <1>3, <1>4, <2>4, Zenon
  <2>6. \A m \in Response("Encrypt", q, l) : m \in {[Envelope |-> {}], [Envelope |-> {AEADEnvelope(n, q)}]}
    BY <2>1, MadeAnswers, Zenon
  <2> QED
    BY <2>5, <2>6, Zenon
<1>6. ASSUME NEW q \in WrapEnvelopeRequest, NEW l, LogOK(l), Len(l) # 0
      PROVE  Response("WrapEnvelope", q, l) \subseteq WrapEnvelopeResponse
  <2>1. PICK n, here : n = Len(l) /\ here = Named(n)
    OBVIOUS
  <2>2. n \in Nat /\ here \in Bytes
    BY <1>6, <2>1, NamedTyped, Zenon
  <2>3. [KemAlgorithm |-> q.KemAlgorithm, EnvelopeAlgorithm |-> q.EnvelopeAlgorithm,
         KeyVersion |-> n, EncapsulatedKey |-> here, Nonce |-> here, Ciphertext |-> here]
          \in KemEnvelope
    BY <2>2 DEF KemEnvelope, WrapEnvelopeRequest
  <2>4. KEMEnvelope(n, q) \in KemEnvelope
    BY <2>1, <2>3, Zenon DEF KEMEnvelope
  <2>5. /\ [Envelope |-> {}] \in WrapEnvelopeResponse
        /\ [Envelope |-> {KEMEnvelope(n, q)}] \in WrapEnvelopeResponse
    BY <1>3, <1>4, <2>4, Zenon
  <2>6. \A m \in Response("WrapEnvelope", q, l) : m \in {[Envelope |-> {}], [Envelope |-> {KEMEnvelope(n, q)}]}
    BY <2>1, MadeAnswers, Zenon
  <2> QED
    BY <2>5, <2>6, Zenon
<1>7. Answered("Encrypt")
  BY <1>1, <1>2, <1>5, Zenon DEF Answered
<1>8. Answered("WrapEnvelope")
  BY <1>1, <1>2, <1>6, Zenon DEF Answered
<1> QED
  BY <1>7, <1>8

LEMMA ImportSetAnswered == Answered("ImportSet")
<1>1. /\ Methods["ImportSet"].in = ImportSetRequest /\ Methods["ImportSet"].out = ImportSetResponse
      /\ "ImportSet" \in Mutations
  BY Services DEF SigningServiceClient, Method, Mutations
<1>2. ASSUME NEW q \in ImportSetRequest, NEW l, LogOK(l), Len(l) # 0
      PROVE  Response("ImportSet", q, l) \subseteq ImportSetResponse
  <2>1. PICK es, here : es = q.Entries /\ here = Named(Len(l))
    OBVIOUS
  <2>2. es \in Seq(ImportEntry) /\ here \in Bytes
    BY <1>2, <2>1, NamedTyped DEF ImportSetRequest
  <2>3. \A k \in DOMAIN es : [KeyId |-> es[k].KeyId, PublicKey |-> here] \in ImportedKey
    <3> SUFFICES ASSUME NEW k \in DOMAIN es
                 PROVE  [KeyId |-> es[k].KeyId, PublicKey |-> here] \in ImportedKey
      OBVIOUS
    <3>1. PICK e \in ImportEntry : e = es[k]
      BY <2>2
    <3>2. [KeyId |-> e.KeyId, PublicKey |-> here] \in ImportedKey
      BY <2>2 DEF ImportEntry, ImportedKey
    <3> QED
      BY <3>1, <3>2, Zenon
  <2> DEFINE key(k) == [KeyId |-> es[k].KeyId, PublicKey |-> here]
  <2>4. \A k \in DOMAIN es : key(k) \in ImportedKey
    BY <2>3
  <2> HIDE DEF key
  <2>5. [k \in DOMAIN es |-> key(k)] \in Seq(ImportedKey)
    BY <2>2, <2>4
  <2>6. PICK ks \in Seq(ImportedKey) : ks = [k \in DOMAIN es |-> key(k)]
    BY <2>5
  <2>7. [Keys |-> ks] \in ImportSetResponse
    BY DEF ImportSetResponse
  <2>8. \A m \in Response("ImportSet", q, l) : m = [Keys |-> ks]
    <3>1. \A m \in Response("ImportSet", q, l) : m = [Keys |-> [k \in DOMAIN q.Entries |->
                          [KeyId |-> q.Entries[k].KeyId, PublicKey |-> Named(Len(l))]]]
      BY MadeAnswers, ZenonT(30)
    <3>2. ks = [k \in DOMAIN q.Entries |->
                  [KeyId |-> q.Entries[k].KeyId, PublicKey |-> Named(Len(l))]]
      BY <2>1, <2>6, Zenon DEF key
    <3> QED
      BY <3>1, <3>2, Zenon
  <2> QED
    BY <2>7, <2>8, Zenon
<1> QED
  BY <1>1, <1>2, Zenon DEF Answered

LEMMA FoundAnswered == Answered("GetPublicKey") /\ Answered("GetSecret")
<1>1. /\ Methods["GetPublicKey"].out = GetPublicKeyResponse
      /\ Methods["GetPublicKey"].in = GetPublicKeyRequest
      /\ Methods["NewKey"].in = NewKeyRequest /\ Methods["Import"].in = ImportRequest
  BY Services DEF SigningServiceClient, Method
<1>2. /\ Methods["GetSecret"].out = GetSecretResponse /\ Methods["SetSecret"].in = SetSecretRequest
  BY Services DEF SecretServiceClient, Method
<1>3. ASSUME NEW q \in GetPublicKeyRequest, NEW l, LogOK(l),
             NEW i \in PublicKeys(l, q.KeyId)
      PROVE  Found(q, l, i) \in GetPublicKeyResponse
  <2>1. i \in DOMAIN l /\ l[i].rpc \in {"NewKey", "Import"} /\ l[i].req \in Methods[l[i].rpc].in
    BY <1>3, Zenon DEF PublicKeys, LogOK
  <2>2. PICK n, here, req : n = Number(i, PublicKeys(l, q.KeyId)) /\ here = Named(i) /\ req = l[i].req
    OBVIOUS
  <2>3. n \in Nat /\ here \in Bytes /\ req \in NewKeyRequest \cup ImportRequest
    BY <1>1, <1>3, <2>1, <2>2, Counted, NamedTyped, Zenon
  <2>4. [KeyId |-> q.KeyId, KeyType |-> req.KeyType, PublicKey |-> here, Version |-> n]
          \in GetPublicKeyResponse
    BY <2>3 DEF NewKeyRequest, ImportRequest, GetPublicKeyRequest, GetPublicKeyResponse
  <2> QED
    BY <2>2, <2>4, Zenon DEF Found
<1>4. ASSUME NEW q, NEW l, LogOK(l), NEW i \in Versions(l, q.SecretId)
      PROVE  Read(q, l, i) \in GetSecretResponse
  <2>1. i \in DOMAIN l /\ l[i].req \in Methods[l[i].rpc].in
    BY <1>4, Zenon DEF Versions, LogOK
  <2>2. PICK n, value : /\ n = Number(i, Versions(l, q.SecretId))
                        /\ value = IF l[i].rpc = "SetSecret" THEN l[i].req.Value ELSE Named(i)
    OBVIOUS
  <2>3. \A req \in SetSecretRequest : req.Value \in Bytes
    BY DEF SetSecretRequest
  <2>4. n \in Nat /\ value \in Bytes
    BY <1>2, <1>4, <2>1, <2>2, <2>3, Counted, NamedTyped, Zenon
  <2>5. [Value |-> value, Version |-> n] \in GetSecretResponse
    BY <2>4 DEF GetSecretResponse
  <2> QED
    BY <2>2, <2>5, Zenon DEF Read
<1>5. \A version, vs : WithNumber(version, vs) \subseteq vs
  BY Zenon DEF WithNumber
<1>6. Answered("GetPublicKey")
  <2>1. ASSUME NEW q \in GetPublicKeyRequest, NEW l, LogOK(l), NEW m \in Response("GetPublicKey", q, l)
        PROVE  m \in GetPublicKeyResponse
    <3>1. PICK i \in WithNumber(q.Version, PublicKeys(l, q.KeyId)) : m = Found(q, l, i)
      BY <2>1, FoundAnswers, SMT
    <3> QED
      BY <1>3, <1>5, <2>1, <3>1, Zenon
  <2> QED
    BY <1>1, <2>1, Zenon DEF Answered
<1>7. Answered("GetSecret")
  <2>1. ASSUME NEW q, NEW l, LogOK(l), NEW m \in Response("GetSecret", q, l)
        PROVE  m \in GetSecretResponse
    <3>1. PICK i \in WithNumber(q.Version, Versions(l, q.SecretId)) : m = Read(q, l, i)
      BY <2>1, FoundAnswers, SMT
    <3> QED
      BY <1>4, <1>5, <2>1, <3>1, Zenon
  <2> QED
    BY <1>2, <2>1, Zenon DEF Answered
<1> QED
  BY <1>6, <1>7

-----------------------------------------------------------------------------
LEMMA CredentialAnswered ==
  ASSUME NEW op \in CredentialMethods, NEW q, Expiry(q) \subseteq 1 .. Two63 - 1,
         NEW l, LogOK(l), Len(l) # 0, NEW m \in Response(op, q, l)
  PROVE  /\ m \in CredentialResponse /\ InRange(op, m)
         /\ m = [Token |-> Named(Len(l)), ExpiresAt |-> Expiry(q)]
<1>1. PICK E, here : E = Expiry(q) /\ here = Named(Len(l))
  OBVIOUS
<1>2. here \in Str
  BY <1>1, NamedTyped, Zenon
<1>3. ~(Cardinality(E) > 1) /\ m = [Token |-> here, ExpiresAt |-> E]
  BY <1>1, Zenon DEF Response, Minted
<1>4. E \subseteq 1 .. Two63 - 1 /\ Two63 \in Nat \ {0} /\ ZeroTime < 0
  BY <1>1, TimeAssumption
<1>5. IsFiniteSet(E)
  <2>1. 1 \in Int /\ Two63 - 1 \in Int
    BY <1>4
  <2>2. IsFiniteSet(1 .. Two63 - 1)
    BY <2>1, FS_Interval, Zenon
  <2> QED
    BY <1>4, <2>2, FS_Subset, Zenon
<1>6. E \subseteq Int /\ ZeroTime \notin E
  BY <1>4, TimeAssumption
<1>7. ASSUME NEW s \in E, NEW t \in E, s # t PROVE FALSE
  <2>1. Cardinality({s}) = 1 /\ IsFiniteSet({s})
    BY FS_Singleton
  <2>2. Cardinality({s} \cup {t}) = 2
    <3>1. t \notin {s}
      BY <1>7
    <3>2. Cardinality({s} \cup {t}) = Cardinality({s}) + 1
      BY <2>1, <3>1, FS_AddElement, Zenon
    <3> QED
      BY ONLY <2>1, <3>2
  <2>3. {s} \cup {t} \subseteq E
    BY Zenon
  <2>4. Cardinality({s} \cup {t}) <= Cardinality(E)
    BY <1>5, <2>3, FS_Subset, Zenon
  <2>5. Cardinality(E) \in Nat
    BY <1>5, FS_CardinalityType
  <2> QED
    BY <1>3, <2>2, <2>4, <2>5
<1>8. E \in Opt(Timestamp)
  BY <1>6, <1>7 DEF Opt, Timestamp
<1>9. m \in CredentialResponse /\ m.ExpiresAt = E
  BY <1>2, <1>3, <1>8 DEF CredentialResponse
<1>10. op # "ValidateNatsJwt"
  BY DEF CredentialMethods
<1> QED
  BY <1>1, <1>3, <1>6, <1>9, <1>10, Zenon DEF InRange

LEMMA MintersTyped ==
  ASSUME NEW q, NEW l, LogOK(l)
  PROVE  /\ \A k \in MinterKeys(q, l) : k \in Str
         /\ \A t \in MinterExpiry(q, l) : t \in Nat /\ t # 0 /\ t < Two63
<1>1. ASSUME NEW i \in Minters(q, l)
      PROVE  l[i].req.KeyId \in Str /\ Expiry(l[i].req) \subseteq 1 .. Two63 - 1
  <2>1. /\ l[i].rpc \in CredentialMethods /\ l[i].req \in Methods[l[i].rpc].in
        /\ Expiry(l[i].req) \subseteq 1 .. Two63 - 1
    BY <1>1, Zenon DEF LogOK, Minters
  <2>2. /\ Methods["MintNatsUser"].in = MintNatsUserRequest
        /\ Methods["MintNatsAccount"].in = MintNatsAccountRequest
        /\ Methods["MintNatsOperator"].in = MintNatsOperatorRequest
        /\ Methods["MintNatsSigner"].in = MintNatsSignerRequest
        /\ Methods["MintNatsServer"].in = MintNatsServerRequest
        /\ Methods["MintNatsCurve"].in = MintNatsCurveRequest
        /\ Methods["SignNatsJwt"].in = SignNatsJwtRequest
    BY Services DEF NatsServiceClient, Method
  <2>3. Methods["MintJwt"].in = MintJwtRequest
    BY Services DEF MintingServiceClient, Method
  <2>4. l[i].req \in MintJwtRequest \cup MintNatsUserRequest \cup MintNatsAccountRequest
                       \cup MintNatsOperatorRequest \cup MintNatsSignerRequest
                       \cup MintNatsServerRequest \cup MintNatsCurveRequest
                       \cup SignNatsJwtRequest
    BY <2>1, <2>2, <2>3, Zenon DEF CredentialMethods
  <2>5. ASSUME NEW p \in MintJwtRequest \cup MintNatsUserRequest \cup MintNatsAccountRequest
                       \cup MintNatsOperatorRequest \cup MintNatsSignerRequest
                       \cup MintNatsServerRequest \cup MintNatsCurveRequest
                       \cup SignNatsJwtRequest
        PROVE  p.KeyId \in Str
    BY DEF MintJwtRequest, MintNatsUserRequest, MintNatsAccountRequest, MintNatsOperatorRequest,
           MintNatsSignerRequest, MintNatsServerRequest, MintNatsCurveRequest, SignNatsJwtRequest
  <2> QED
    BY <2>1, <2>4, <2>5, Zenon
<1>2. ASSUME NEW t \in 1 .. Two63 - 1 PROVE t \in Nat /\ t # 0 /\ t < Two63
  BY TimeAssumption
<1> QED
  BY <1>1, <1>2, Zenon DEF MinterKeys, MinterExpiry

LEMMA ValidateAnswered ==
  ASSUME NEW q \in ValidateNatsJwtRequest, NEW l, LogOK(l),
         NEW m \in Response("ValidateNatsJwt", q, l)
  PROVE  m \in ValidateNatsJwtResponse /\ InRange("ValidateNatsJwt", m)
<1>1. PICK b, k, s, t :
        /\ b = (Known(q, l) /\ \A e \in MinterExpiry(q, l) : e > Now)
        /\ k = One(MinterKeys(q, l), "")
        /\ s = IF Known(q, l) THEN One(MinterKeys(q, l), "") ELSE ""
        /\ t = One(MinterExpiry(q, l), 0)
  OBVIOUS
<1>2. m = [Valid |-> b, Reason |-> 0, Subject |-> q.Jwt, Issuer |-> k,
           JwtType |-> q.ExpectedType, MatchedSignerKeyId |-> s,
           ExpiresAtUnix |-> t, IssuedAtUnix |-> Now]
  <2>1. m \in {[Valid |-> Known(q, l) /\ \A e \in MinterExpiry(q, l) : e > Now, Reason |-> 0,
             Subject |-> q.Jwt, Issuer |-> One(MinterKeys(q, l), ""), JwtType |-> q.ExpectedType,
             MatchedSignerKeyId |-> IF Known(q, l) THEN One(MinterKeys(q, l), "") ELSE "",
             ExpiresAtUnix |-> One(MinterExpiry(q, l), 0), IssuedAtUnix |-> Now]}
    BY ValidateAnswers, Zenon
  <2> QED
    BY <1>1, <2>1, Zenon
<1>3. b \in BOOLEAN
  BY <1>1, Zenon
<1>4. \A S, none : One(S, none) = none \/ One(S, none) \in S
  BY Zenon DEF One
<1>5. k \in Str /\ s \in Str
  BY <1>1, <1>4, MintersTyped, EmptyAssumption, Zenon
<1>6. t \in Nat /\ t < Two63
  <2>1. t = 0 \/ t \in MinterExpiry(q, l)
    BY <1>1, <1>4, Zenon
  <2>2. 0 \in Nat /\ 0 < Two63
    BY TimeAssumption
  <2> QED
    BY <2>1, <2>2, MintersTyped, Zenon
<1>7. Now \in Nat /\ Now < Two63
  BY NowAssumption
<1>8. q.Jwt \in Str /\ q.ExpectedType \in Enum /\ 0 \in Enum
  BY DEF ValidateNatsJwtRequest, Enum
<1>9. m \in ValidateNatsJwtResponse /\ m.ExpiresAtUnix = t /\ m.IssuedAtUnix = Now
  BY ONLY <1>2, <1>3, <1>5, <1>6, <1>7, <1>8 DEF ValidateNatsJwtResponse
<1>10. "ValidateNatsJwt" \notin CredentialMethods
  BY DEF CredentialMethods
<1> QED
  BY <1>6, <1>7, <1>9, <1>10, Zenon DEF InRange

\* What the broker answers to a request of a method of basil.Client.
LEMMA AnswerTyped ==
  ASSUME NEW op \in DOMAIN Arguments, op # "ListCatalog", NEW q \in Methods[rpc(op)].in,
         op \in CredentialMethods => Expiry(q) \subseteq 1 .. Two63 - 1,
         NEW l, LogOK(l), rpc(op) \in Mutations \cup Issues => Len(l) # 0,
         NEW m \in Response(rpc(op), q, l)
  PROVE  m \in Methods[rpc(op)].out /\ InRange(op, m)
<1>1. /\ Methods["MintNatsUser"].out = CredentialResponse
      /\ Methods["MintNatsAccount"].out = CredentialResponse
      /\ Methods["MintNatsOperator"].out = CredentialResponse
      /\ Methods["MintNatsSigner"].out = CredentialResponse
      /\ Methods["MintNatsServer"].out = CredentialResponse
      /\ Methods["MintNatsCurve"].out = CredentialResponse
      /\ Methods["SignNatsJwt"].out = CredentialResponse
      /\ Methods["ValidateNatsJwt"].out = ValidateNatsJwtResponse
      /\ Methods["ValidateNatsJwt"].in = ValidateNatsJwtRequest
  BY Services DEF NatsServiceClient, Method
<1>2. Methods["MintJwt"].out = CredentialResponse
  BY Services DEF MintingServiceClient, Method
<1>3. CASE op \in CredentialMethods
  <2>1. rpc(op) = op
    BY <1>3 DEF rpc, CredentialMethods
  <2>2. op \in Issues
    BY <1>3, Zenon DEF Issues
  <2>3. Methods[op].out = CredentialResponse
    BY <1>1, <1>2, <1>3, Zenon DEF CredentialMethods
  <2> QED
    BY <1>3, <2>1, <2>2, <2>3, CredentialAnswered, Zenon
<1>4. CASE op = "ValidateNatsJwt"
  <2>1. rpc(op) = op
    BY <1>4 DEF rpc
  <2> QED
    BY <1>1, <1>4, <2>1, ValidateAnswered, Zenon
<1>5. CASE op \notin CredentialMethods /\ op # "ValidateNatsJwt"
  <2>1. rpc(op) \in {"Sign", "NewKey", "Import", "EncryptNatsCurve", "SetSecret", "RotateSecret",
                     "Decrypt", "UnwrapEnvelope", "DecryptNatsCurve", "Verify", "Encrypt",
                     "WrapEnvelope", "ImportSet", "GetPublicKey", "GetSecret"} \cup Undecided
    <3>1. DOMAIN Arguments =
            {"Sign", "SignWithAlgorithm", "Verify", "VerifyWithAlgorithm", "GetPublicKey", "NewKey",
             "Import", "ImportSet", "Encrypt", "Decrypt", "WrapEnvelope", "UnwrapEnvelope",
             "UnsealCose", "GetSecret", "SetSecret", "RotateSecret", "ListCatalog",
             "GetInvocationChallenge", "GetInvocationCapabilities", "EncryptNatsCurve",
             "DecryptNatsCurve", "ValidateNatsJwt", "IssueCertificate", "Reload", "Explain",
             "Revoke", "Health", "Readiness", "Status"} \cup CredentialMethods
      BY DEF Arguments, CredentialMethods
    <3> QED
      BY <1>5, <3>1 DEF rpc, Undecided
  <2>2. Answered(rpc(op))
    BY <2>1, SimpleAnswered, OtherAnswered, OpenAnswered, VerifyAnswered, EncryptAnswered,
       ImportSetAnswered, FoundAnswered, Zenon
  <2> QED
    BY <1>5, <2>2, Zenon DEF Answered, InRange
<1> QED
  BY <1>3, <1>4, <1>5

-----------------------------------------------------------------------------
\* Every method.
LEMMA Listing ==
  DOMAIN Arguments =
    {"Sign", "SignWithAlgorithm", "Verify", "VerifyWithAlgorithm", "GetPublicKey",
     "NewKey", "Encrypt", "WrapEnvelope", "UnsealCose", "GetSecret", "SetSecret",
     "RotateSecret", "ListCatalog", "GetInvocationChallenge", "EncryptNatsCurve",
     "DecryptNatsCurve", "Reload", "Explain", "Revoke", "MintJwt", "MintNatsUser",
     "MintNatsAccount", "MintNatsOperator", "MintNatsSigner", "MintNatsServer",
     "MintNatsCurve", "SignNatsJwt", "IssueCertificate", "GetInvocationCapabilities",
     "Health", "Readiness", "Status", "Import", "ImportSet", "Decrypt",
     "UnwrapEnvelope", "ValidateNatsJwt"}
  BY SMTT(30) DEF Arguments

LEMMA AllFaithful == \A op \in DOMAIN Arguments : Faithful(op)
  BY Listing,
     SignFaithful, SignWithAlgorithmFaithful, VerifyFaithful,
     VerifyWithAlgorithmFaithful, GetPublicKeyFaithful, NewKeyFaithful,
     EncryptFaithful, WrapEnvelopeFaithful, UnsealCoseFaithful, GetSecretFaithful,
     SetSecretFaithful, RotateSecretFaithful, ListCatalogFaithful,
     GetInvocationChallengeFaithful, EncryptNatsCurveFaithful,
     DecryptNatsCurveFaithful, ReloadFaithful, ExplainFaithful, RevokeFaithful,
     MintJwtFaithful, MintNatsUserFaithful, MintNatsAccountFaithful,
     MintNatsOperatorFaithful, MintNatsSignerFaithful, MintNatsServerFaithful,
     MintNatsCurveFaithful, SignNatsJwtFaithful, IssueCertificateFaithful,
     GetInvocationCapabilitiesFaithful, HealthFaithful, ReadinessFaithful,
     StatusFaithful, ImportFaithful, ImportSetFaithful, DecryptFaithful,
     UnwrapEnvelopeFaithful, ValidateNatsJwtFaithful, Zenon

LEMMA AllDistinct == \A op \in DOMAIN Arguments \ {"ListCatalog"} : Distinct(op)
<1>1. \A op \in CredentialMethods : Distinct(op)
  BY CredentialTold, Zenon
<1>2. /\ Distinct("MintJwt") /\ Distinct("MintNatsUser")
      /\ Distinct("MintNatsAccount") /\ Distinct("MintNatsOperator")
      /\ Distinct("MintNatsSigner") /\ Distinct("MintNatsServer")
      /\ Distinct("MintNatsCurve") /\ Distinct("SignNatsJwt")
  BY <1>1, Zenon DEF CredentialMethods
<1> QED
  BY <1>2, Listing,
     SignTold, SignWithAlgorithmTold, VerifyTold, VerifyWithAlgorithmTold,
     GetPublicKeyTold, NewKeyTold, EncryptTold, WrapEnvelopeTold, UnsealCoseTold,
     GetSecretTold, SetSecretTold, RotateSecretTold, GetInvocationChallengeTold,
     EncryptNatsCurveTold, DecryptNatsCurveTold, ReloadTold, ExplainTold, RevokeTold,
     IssueCertificateTold, GetInvocationCapabilitiesTold, HealthTold, ReadinessTold,
     StatusTold, ImportSetTold, DecryptTold, UnwrapEnvelopeTold, ValidateNatsJwtTold,
     ZenonT(30)

\* A call, or what is to be called: its arguments are those of its method.
Asking(x) ==
  /\ x.client = "basil" => x.op \in DOMAIN Arguments
  /\ x.op \in DOMAIN Arguments => x.a \in Arguments[x.op]
  /\ x.op \in DOMAIN Arguments \cup SpiffeMethods
  /\ x.op \in CredentialMethods => Expiry(request(x.op, x.a)) \subseteq 1 .. Two63 - 1
  /\ x.op = "ListCatalog" => Visible(x.a.prefix) \in Seq(CatalogEntry)

-----------------------------------------------------------------------------
\* The results that another call is made of.
LEMMA ResultTyped ==
  ASSUME NEW op, NEW m \in Methods[rpc(op)].out, ~unusable(op, m)
  PROVE  /\ op = "Encrypt" => result(op, m) \in CiphertextStruct
         /\ op = "WrapEnvelope" => result(op, m) \in KemEnvelopeStruct
         /\ op \in {"EncryptNatsCurve", "Sign", "SignWithAlgorithm"} => result(op, m) \in Bytes
         /\ op \in {"SetSecret", "RotateSecret"} => result(op, m) \in Nat
         /\ op \in CredentialMethods => result(op, m).Token \in Str
<1> DEFINE C(o) == CHOOSE env \in o : TRUE
<1>1. ASSUME op = "Encrypt" PROVE result(op, m) \in CiphertextStruct
  <2>1. Methods[rpc("Encrypt")].out = EncryptResponse
    BY Services DEF AeadServiceClient, Method, rpc
  <2>2. m.Envelope \in Opt(CiphertextEnvelope)
    BY <1>1, <2>1 DEF EncryptResponse
  <2>3. unusable("Encrypt", m) <=> m.Envelope = {}
    BY DEF unusable
  <2>4. C(m.Envelope) \in CiphertextEnvelope
    BY <1>1, <2>2, <2>3, Pointee, Zenon
  <2>5. \A env \in CiphertextEnvelope : Ciphertext(env) \in CiphertextStruct
    BY DEF CiphertextEnvelope, Ciphertext, CiphertextStruct
  <2>6. result("Encrypt", m) = Ciphertext(C(m.Envelope))
    BY Zenon DEF result, CredentialMethods
  <2> HIDE DEF C
  <2> QED
    BY <1>1, <2>4, <2>5, <2>6, Zenon
<1>2. ASSUME op = "WrapEnvelope" PROVE result(op, m) \in KemEnvelopeStruct
  <2>1. Methods[rpc("WrapEnvelope")].out = WrapEnvelopeResponse
    BY Services DEF AeadServiceClient, Method, rpc
  <2>2. m.Envelope \in Opt(KemEnvelope)
    BY <1>2, <2>1 DEF WrapEnvelopeResponse
  <2>3. unusable("WrapEnvelope", m) <=> m.Envelope = {}
    BY DEF unusable
  <2>4. C(m.Envelope) \in KemEnvelope
    BY <1>2, <2>2, <2>3, Pointee, Zenon
  <2>5. \A env \in KemEnvelope : WrappedEnvelope(env) \in KemEnvelopeStruct
    BY DEF KemEnvelope, WrappedEnvelope, KemEnvelopeStruct
  <2>6. result("WrapEnvelope", m) = WrappedEnvelope(C(m.Envelope))
    BY Zenon DEF result, CredentialMethods
  <2> HIDE DEF C
  <2> QED
    BY <1>2, <2>4, <2>5, <2>6, Zenon
<1>3. ASSUME op \in {"Sign", "SignWithAlgorithm"} PROVE result(op, m) \in Bytes
  <2>1. Methods[rpc(op)].out = SignResponse
    BY <1>3, Services DEF SigningServiceClient, Method, rpc
  <2>2. m.Signature \in Bytes
    BY <2>1 DEF SignResponse
  <2>3. result(op, m) = m.Signature
    BY <1>3, Zenon DEF result, CredentialMethods
  <2> QED
    BY <2>2, <2>3
<1>4. ASSUME op = "EncryptNatsCurve" PROVE result(op, m) \in Bytes
  <2>1. Methods[rpc(op)].out = EncryptNatsCurveResponse
    BY <1>4, Services DEF NatsServiceClient, Method, rpc
  <2>2. m.Ciphertext \in Bytes
    BY <2>1 DEF EncryptNatsCurveResponse
  <2>3. result(op, m) = m.Ciphertext
    BY <1>4, Zenon DEF result, CredentialMethods
  <2> QED
    BY <2>2, <2>3
<1>5. ASSUME op \in {"SetSecret", "RotateSecret"} PROVE result(op, m) \in Nat
  <2>1. Methods[rpc(op)].out \in {SetSecretResponse, RotateSecretResponse}
    BY <1>5, Services DEF SecretServiceClient, Method, rpc
  <2>2. m.Version \in Nat
    <3>1. m \in SetSecretResponse \cup RotateSecretResponse
      BY <2>1, Zenon
    <3> QED
      BY <3>1 DEF SetSecretResponse, RotateSecretResponse
  <2>3. result(op, m) = m.Version
    BY <1>5, Zenon DEF result, CredentialMethods
  <2> QED
    BY <2>2, <2>3
<1>6. ASSUME op \in CredentialMethods PROVE result(op, m).Token \in Str
  <2>1. Methods[rpc(op)].out = CredentialResponse
    BY <1>6, Services DEF CredentialMethods, MintingServiceClient, NatsServiceClient, Method, rpc
  <2>2. m.Token \in Str
    BY <2>1 DEF CredentialResponse
  <2>3. result(op, m) = credentialFromProto(m)
    BY <1>6, Zenon DEF result, CredentialMethods
  <2>4. credentialFromProto(m).Token = m.Token
    BY Zenon DEF credentialFromProto
  <2> QED
    BY <2>2, <2>3, <2>4, Zenon
<1> QED
  BY <1>1, <1>2, <1>3, <1>4, <1>5, <1>6, Zenon

\* The calls that are made of a result.
Follow(then, args) == [client |-> "basil", op |-> then, a |-> args, deadline |-> FALSE]

LEMMA FollowUpOfEncrypt ==
  ASSUME NEW a, NEW res, NEW z \in FollowUp("Encrypt", a, res)
  PROVE  z = Follow("Decrypt", [keyID |-> a.keyID, ct |-> {res}, aad |-> a.aad])
  BY Zenon DEF FollowUp, Continued, CredentialMethods, Follow

LEMMA FollowUpOfWrap ==
  ASSUME NEW a, NEW res, NEW z \in FollowUp("WrapEnvelope", a, res)
  PROVE  z = Follow("UnwrapEnvelope", [keyID |-> a.keyID, env |-> {res}, aad |-> a.aad])
  BY Zenon DEF FollowUp, Continued, CredentialMethods, Follow

LEMMA FollowUpOfCurve ==
  ASSUME NEW a, NEW res, NEW z \in FollowUp("EncryptNatsCurve", a, res)
  PROVE  z = Follow("DecryptNatsCurve", [KeyID |-> a.RecipientPublicXKey,
                                         SenderPublicXKey |-> a.KeyID, Ciphertext |-> res])
  BY Zenon DEF FollowUp, Continued, CredentialMethods, Follow

LEMMA FollowUpOfSign ==
  ASSUME NEW a, NEW res, NEW z \in FollowUp("Sign", a, res)
  PROVE  z = Follow("Verify", [keyID |-> a.keyID, message |-> a.message, signature |-> res])
  BY Zenon DEF FollowUp, Continued, CredentialMethods, Follow

LEMMA FollowUpOfSignWith ==
  ASSUME NEW a, NEW res, NEW z \in FollowUp("SignWithAlgorithm", a, res)
  PROVE  z = Follow("VerifyWithAlgorithm", [keyID |-> a.keyID, message |-> a.message,
                                            signature |-> res, alg |-> a.alg])
  BY Zenon DEF FollowUp, Continued, CredentialMethods, Follow

LEMMA FollowUpOfSecret ==
  ASSUME NEW op \in {"SetSecret", "RotateSecret"}, NEW a, NEW res, NEW z \in FollowUp(op, a, res)
  PROVE  \E v \in {{}, {res}} : z = Follow("GetSecret", [secretID |-> a.secretID, version |-> v])
  BY Zenon DEF FollowUp, Continued, CredentialMethods, Follow

LEMMA FollowUpOfKey ==
  ASSUME NEW op \in {"NewKey", "Import"}, NEW a, NEW res, NEW z \in FollowUp(op, a, res)
  PROVE  \E v \in {{}, {1}} : z = Follow("GetPublicKey", [keyID |-> a.keyID, version |-> v])
  BY Zenon DEF FollowUp, Continued, CredentialMethods, Follow

LEMMA OnlyContinued ==
  ASSUME NEW op, NEW a, NEW res, op \notin Continued
  PROVE  FollowUp(op, a, res) = {}
  BY Zenon DEF FollowUp, Continued, CredentialMethods

LEMMA FollowUpOfToken ==
  ASSUME NEW op \in CredentialMethods \ {"MintJwt"}, NEW a, NEW res,
         NEW z \in FollowUp(op, a, res)
  PROVE  z = Follow("ValidateNatsJwt",
                    [JWT |-> res.Token, ExpectedType |-> 0,
                     AllowedSigners |-> <<[keyID |-> a.KeyID, natsPublicKey |-> ""]>>])
  BY Zenon DEF FollowUp, Continued, CredentialMethods, Follow

\* The arguments of the calls that are made of results.
LEMMA FollowUpArguments ==
  /\ Arguments["Decrypt"] = [keyID : Str, ct : Opt(CiphertextStruct), aad : Opt(Bytes)]
  /\ Arguments["UnwrapEnvelope"] = [keyID : Str, env : Opt(KemEnvelopeStruct), aad : Opt(Bytes)]
  /\ Arguments["DecryptNatsCurve"] = NatsCurveDecryptRequest
  /\ Arguments["Verify"] = [keyID : Str, message : Bytes, signature : Bytes]
  /\ Arguments["VerifyWithAlgorithm"] =
       [keyID : Str, message : Bytes, signature : Bytes, alg : Enum]
  /\ Arguments["GetSecret"] = [secretID : Str, version : Opt(Nat)]
  /\ Arguments["GetPublicKey"] = [keyID : Str, version : Opt(Nat)]
  /\ Arguments["ValidateNatsJwt"] = NatsJwtToValidate
  BY Zenon DEF Arguments

\* and of those whose result they are made of.
LEMMA ContinuedArguments ==
  /\ Arguments["Encrypt"] = [keyID : Str, alg : Enum, plaintext : Bytes, aad : Opt(Bytes)]
  /\ Arguments["WrapEnvelope"] =
       [keyID : Str, kem : Enum, env : Enum, plaintext : Bytes, aad : Opt(Bytes)]
  /\ Arguments["EncryptNatsCurve"] = NatsCurveEncryptRequest
  /\ Arguments["Sign"] = [keyID : Str, message : Bytes]
  /\ Arguments["SignWithAlgorithm"] = [keyID : Str, message : Bytes, alg : Enum]
  /\ Arguments["SetSecret"] = [secretID : Str, value : Bytes]
  /\ Arguments["RotateSecret"] = [secretID : Str]
  /\ Arguments["NewKey"] = [keyID : Str, keyType : Enum]
  /\ Arguments["Import"] = [keyID : Str, keyType : Enum, material : Opt(Material)]
  BY Zenon DEF Arguments

\* A credential's arguments name the key that signs it.
LEMMA CredentialKey ==
  ASSUME NEW op \in CredentialMethods, NEW a \in Arguments[op] PROVE a.KeyID \in Str
<1>1. /\ Arguments["MintJwt"] = JwtRequest /\ Arguments["MintNatsUser"] = NatsUserRequest
      /\ Arguments["MintNatsAccount"] = NatsAccountRequest
      /\ Arguments["MintNatsOperator"] = NatsOperatorRequest
      /\ Arguments["MintNatsSigner"] = NatsSignerRequest
      /\ Arguments["MintNatsServer"] = NatsServerRequest
      /\ Arguments["MintNatsCurve"] = NatsCurveRequest
      /\ Arguments["SignNatsJwt"] = NatsJwtRequest
  BY Zenon DEF Arguments
<1>2. a \in JwtRequest \cup NatsUserRequest \cup NatsAccountRequest \cup NatsOperatorRequest
              \cup NatsSignerRequest \cup NatsServerRequest \cup NatsCurveRequest
              \cup NatsJwtRequest
  BY <1>1, Zenon DEF CredentialMethods
<1> QED
  BY <1>2 DEF JwtRequest, NatsUserRequest, NatsAccountRequest, NatsOperatorRequest,
              NatsSignerRequest, NatsServerRequest, NatsCurveRequest, NatsJwtRequest

\* What a caller makes of a result is typed.
LEMMA FollowUpAsking ==
  ASSUME NEW op \in DOMAIN Arguments, NEW a \in Arguments[op], NEW m \in Methods[rpc(op)].out,
         ~unusable(op, m), NEW z \in FollowUp(op, a, result(op, m))
  PROVE  Asking(z)
<1> DEFINE Then == {"Decrypt", "UnwrapEnvelope", "DecryptNatsCurve", "Verify",
                    "VerifyWithAlgorithm", "GetSecret", "GetPublicKey", "ValidateNatsJwt"}
<1>1. PICK res : res = result(op, m) /\ z \in FollowUp(op, a, res)
  OBVIOUS
<1>2. /\ op = "Encrypt" => res \in CiphertextStruct
      /\ op = "WrapEnvelope" => res \in KemEnvelopeStruct
      /\ op \in {"EncryptNatsCurve", "Sign", "SignWithAlgorithm"} => res \in Bytes
      /\ op \in {"SetSecret", "RotateSecret"} => res \in Nat
      /\ op \in CredentialMethods => res.Token \in Str
  BY <1>1, ResultTyped, Zenon
<1>3. ASSUME NEW S PROVE {} \in Opt(S) /\ \A s \in S : {s} \in Opt(S)
  BY Zenon DEF Opt
<1>4. ASSUME NEW then \in Then, NEW args \in Arguments[then], z = Follow(then, args)
      PROVE  Asking(z)
  <2>1. z.client = "basil" /\ z.op = then /\ z.a = args
    BY <1>4 DEF Follow
  <2>2. then \in DOMAIN Arguments
    BY Listing
  <2>3. then \notin CredentialMethods /\ then # "ListCatalog"
    BY DEF CredentialMethods
  <2> QED
    BY <2>1, <2>2, <2>3, Zenon DEF Asking
<1>5. CASE op = "Encrypt"
  <2>1. [keyID |-> a.keyID, ct |-> {res}, aad |-> a.aad] \in Arguments["Decrypt"]
    BY <1>2, <1>3, <1>5, FollowUpArguments, ContinuedArguments
  <2>2. z = Follow("Decrypt", [keyID |-> a.keyID, ct |-> {res}, aad |-> a.aad])
    BY <1>1, <1>5, FollowUpOfEncrypt, Zenon
  <2> QED
    BY <1>4, <2>1, <2>2, Zenon
<1>6. CASE op = "WrapEnvelope"
  <2>1. [keyID |-> a.keyID, env |-> {res}, aad |-> a.aad] \in Arguments["UnwrapEnvelope"]
    BY <1>2, <1>3, <1>6, FollowUpArguments, ContinuedArguments
  <2>2. z = Follow("UnwrapEnvelope", [keyID |-> a.keyID, env |-> {res}, aad |-> a.aad])
    BY <1>1, <1>6, FollowUpOfWrap, Zenon
  <2> QED
    BY <1>4, <2>1, <2>2, Zenon
<1>7. CASE op = "EncryptNatsCurve"
  <2> DEFINE args == [KeyID |-> a.RecipientPublicXKey, SenderPublicXKey |-> a.KeyID,
                      Ciphertext |-> res]
  <2>1. args \in Arguments["DecryptNatsCurve"]
    BY <1>2, <1>7, FollowUpArguments, ContinuedArguments
       DEF NatsCurveDecryptRequest, NatsCurveEncryptRequest
  <2>2. z = Follow("DecryptNatsCurve", args)
    BY <1>1, <1>7, FollowUpOfCurve, Zenon
  <2> QED
    BY <1>4, <2>1, <2>2, Zenon
<1>8. CASE op = "Sign"
  <2> DEFINE args == [keyID |-> a.keyID, message |-> a.message, signature |-> res]
  <2>1. args \in Arguments["Verify"]
    BY <1>2, <1>8, FollowUpArguments, ContinuedArguments
  <2>2. z = Follow("Verify", args)
    BY <1>1, <1>8, FollowUpOfSign, Zenon
  <2> QED
    BY <1>4, <2>1, <2>2, Zenon
<1>9. CASE op = "SignWithAlgorithm"
  <2> DEFINE args == [keyID |-> a.keyID, message |-> a.message, signature |-> res, alg |-> a.alg]
  <2>1. args \in Arguments["VerifyWithAlgorithm"]
    BY <1>2, <1>9, FollowUpArguments, ContinuedArguments
  <2>2. z = Follow("VerifyWithAlgorithm", args)
    BY <1>1, <1>9, FollowUpOfSignWith, Zenon
  <2> QED
    BY <1>4, <2>1, <2>2, Zenon
<1>10. CASE op \in {"SetSecret", "RotateSecret"}
  <2>1. PICK v \in {{}, {res}} : z = Follow("GetSecret", [secretID |-> a.secretID, version |-> v])
    <3>1. \E v \in {{}, {res}} :
            z = Follow("GetSecret", [secretID |-> a.secretID, version |-> v])
      BY ONLY <1>1, <1>10, FollowUpOfSecret
    <3> QED
      BY <3>1, Zenon
  <2>2. v \in Opt(Nat)
    BY <1>2, <1>3, <1>10, <2>1, Zenon
  <2>3. a.secretID \in Str
    <3>1. a \in [secretID : Str, value : Bytes] \cup [secretID : Str]
      BY <1>10, ContinuedArguments, Zenon
    <3> QED
      BY <3>1
  <2>4. [secretID |-> a.secretID, version |-> v] \in Arguments["GetSecret"]
    BY <2>2, <2>3, FollowUpArguments
  <2> QED
    BY <1>4, <2>1, <2>4, Zenon
<1>11. CASE op \in {"NewKey", "Import"}
  <2>1. PICK v \in {{}, {1}} : z = Follow("GetPublicKey", [keyID |-> a.keyID, version |-> v])
    BY <1>1, <1>11, FollowUpOfKey, Zenon
  <2>2. v \in Opt(Nat)
    BY <1>3, <2>1
  <2>3. a.keyID \in Str
    <3>1. a \in [keyID : Str, keyType : Enum] \cup
                [keyID : Str, keyType : Enum, material : Opt(Material)]
      BY <1>11, ContinuedArguments, Zenon
    <3> QED
      BY <3>1
  <2>4. [keyID |-> a.keyID, version |-> v] \in Arguments["GetPublicKey"]
    BY <2>2, <2>3, FollowUpArguments
  <2> QED
    BY <1>4, <2>1, <2>4, Zenon
<1>12. CASE op \in CredentialMethods \ {"MintJwt"}
  <2> DEFINE none == ""
             signer == [keyID |-> a.KeyID, natsPublicKey |-> none]
  <2>1. PICK args : args = [JWT |-> res.Token, ExpectedType |-> 0, AllowedSigners |-> <<signer>>]
    OBVIOUS
  <2>2. z = Follow("ValidateNatsJwt", args)
    BY <1>1, <1>12, <2>1, FollowUpOfToken, Zenon
  <2>3. a.KeyID \in Str /\ none \in Str /\ none = "" /\ res.Token \in Str
    BY <1>2, <1>12, CredentialKey, EmptyAssumption, Zenon
  <2> HIDE DEF none
  <2>4. signer \in [keyID : Str, natsPublicKey : Str] /\ signer.natsPublicKey = none
    BY <2>3
  <2>5. signer \in AllowedSigner
    BY <2>3, <2>4, Zenon DEF AllowedSigner
  <2> HIDE DEF signer
  <2>6. <<signer>> \in Seq(AllowedSigner)
    BY <2>5
  <2>7. args \in NatsJwtToValidate
    BY <2>1, <2>3, <2>6 DEF NatsJwtToValidate
  <2> QED
    BY <1>4, <2>2, <2>7, FollowUpArguments, Zenon
<1>13. op \in Continued
  BY <1>1, OnlyContinued, Zenon
<1> QED
  BY <1>5, <1>6, <1>7, <1>8, <1>9, <1>10, <1>11, <1>12, <1>13, Zenon DEF Continued

-----------------------------------------------------------------------------
\* What the broker finds in its log k for a call made of the result of one
\* whose entry is k[i].

LEMMA OpensSealed ==
  ASSUME NEW k, LogOK(k), NEW i \in DOMAIN k, NEW a, k[i].rpc = "Encrypt", k[i].req = Encrypt(a),
         NEW env, env = AEADEnvelope(i, Encrypt(a)),
         NEW q, q = Decrypt([keyID |-> a.keyID, ct |-> {Ciphertext(env)}, aad |-> a.aad])
  PROVE  \A m : m \in Response("Decrypt", q, k) <=> m = [Plaintext |-> a.plaintext]
<1>1. PICK b : b = [keyID |-> a.keyID, ct |-> {Ciphertext(env)}, aad |-> a.aad]
  OBVIOUS
<1>2. b.keyID = a.keyID /\ b.ct = {Ciphertext(env)} /\ b.aad = a.aad
  BY <1>1
<1>3. /\ Encrypt(a).KeyId = a.keyID /\ Encrypt(a).Aad = a.aad
      /\ Encrypt(a).Plaintext = a.plaintext
  BY DEF Encrypt
<1>4. ciphertextToProto({Ciphertext(env)}) = {env}
  <2>1. PICK ct : ct = Ciphertext(env)
    OBVIOUS
  <2>2. ciphertextToProto({ct}) =
          {[Alg |-> ct.Algorithm, KeyVersion |-> ct.KeyVersion, Nonce |-> ct.Nonce,
            Ciphertext |-> ct.Bytes]}
    BY Zenon DEF ciphertextToProto
  <2>3. [Alg |-> ct.Algorithm, KeyVersion |-> ct.KeyVersion, Nonce |-> ct.Nonce,
         Ciphertext |-> ct.Bytes] = env
    BY <2>1 DEF Ciphertext, AEADEnvelope
  <2> QED
    BY <2>1, <2>2, <2>3, Zenon
<1>5. q.KeyId = a.keyID /\ q.Aad = a.aad /\ q.Envelope = {env}
  <2>1. /\ Decrypt(b).KeyId = b.keyID /\ Decrypt(b).Aad = b.aad
        /\ Decrypt(b).Envelope = ciphertextToProto(b.ct)
    BY DEF Decrypt
  <2> QED
    BY <1>1, <1>2, <1>4, <2>1, Zenon
<1>6. SealedBy(q, k, i)
  BY <1>3, <1>5, Zenon DEF SealedBy
<1>7. ASSUME NEW j \in DOMAIN k, SealedBy(q, k, j) PROVE j = i
  <2>1. AEADEnvelope(j, k[j].req) = env
    BY <1>5, <1>7, Zenon DEF SealedBy
  <2>2. AEADEnvelope(j, k[j].req).KeyVersion = j /\ env.KeyVersion = i
    BY DEF AEADEnvelope
  <2> QED
    BY <2>1, <2>2, Zenon
<1>8. k[i].req.Plaintext = a.plaintext
  BY <1>3, Zenon
<1>9. \A m : m \in Response("Decrypt", q, k) <=>
              \E j \in DOMAIN k : SealedBy(q, k, j) /\ m = [Plaintext |-> k[j].req.Plaintext]
  BY ONLY OpenAnswers, SMTT(30)
<1>10. ASSUME NEW m \in Response("Decrypt", q, k) PROVE m = [Plaintext |-> a.plaintext]
  <2>1. PICK j \in DOMAIN k : SealedBy(q, k, j) /\ m = [Plaintext |-> k[j].req.Plaintext]
    BY <1>9, <1>10, Zenon
  <2>2. j = i
    BY <1>7, <2>1, Zenon
  <2> QED
    BY <1>8, <2>1, <2>2, Zenon
<1>11. [Plaintext |-> a.plaintext] \in Response("Decrypt", q, k)
  <2>1. [Plaintext |-> k[i].req.Plaintext] \in Response("Decrypt", q, k)
    BY <1>6, <1>9, Zenon
  <2> QED
    BY <1>8, <2>1, Zenon
<1> QED
  BY <1>10, <1>11, Zenon

LEMMA OpensWrapped ==
  ASSUME NEW k, LogOK(k), NEW i \in DOMAIN k, NEW a, k[i].rpc = "WrapEnvelope",
         k[i].req = WrapEnvelope(a), NEW env, env = KEMEnvelope(i, WrapEnvelope(a)),
         NEW q, q = UnwrapEnvelope([keyID |-> a.keyID, env |-> {WrappedEnvelope(env)},
                                    aad |-> a.aad])
  PROVE  \A m : m \in Response("UnwrapEnvelope", q, k) <=> m = [Plaintext |-> a.plaintext]
<1>1. PICK b : b = [keyID |-> a.keyID, env |-> {WrappedEnvelope(env)}, aad |-> a.aad]
  OBVIOUS
<1>2. b.keyID = a.keyID /\ b.env = {WrappedEnvelope(env)} /\ b.aad = a.aad
  BY <1>1
<1>3. /\ WrapEnvelope(a).KeyId = a.keyID /\ WrapEnvelope(a).Aad = a.aad
      /\ WrapEnvelope(a).Plaintext = a.plaintext
  BY DEF WrapEnvelope
<1>4. kemEnvelopeToProto({WrappedEnvelope(env)}) = {env}
  <2>1. PICK e : e = WrappedEnvelope(env)
    OBVIOUS
  <2>2. kemEnvelopeToProto({e}) =
          {[KemAlgorithm |-> e.KemAlgorithm, EnvelopeAlgorithm |-> e.EnvelopeAlgorithm,
            KeyVersion |-> e.KeyVersion, EncapsulatedKey |-> e.EncapsulatedKey,
            Nonce |-> e.Nonce, Ciphertext |-> e.Bytes]}
    BY Zenon DEF kemEnvelopeToProto
  <2>3. [KemAlgorithm |-> e.KemAlgorithm, EnvelopeAlgorithm |-> e.EnvelopeAlgorithm,
         KeyVersion |-> e.KeyVersion, EncapsulatedKey |-> e.EncapsulatedKey,
         Nonce |-> e.Nonce, Ciphertext |-> e.Bytes] = env
    BY <2>1 DEF WrappedEnvelope, KEMEnvelope
  <2> QED
    BY <2>1, <2>2, <2>3, Zenon
<1>5. q.KeyId = a.keyID /\ q.Aad = a.aad /\ q.Envelope = {env}
  <2>1. /\ UnwrapEnvelope(b).KeyId = b.keyID /\ UnwrapEnvelope(b).Aad = b.aad
        /\ UnwrapEnvelope(b).Envelope = kemEnvelopeToProto(b.env)
    BY DEF UnwrapEnvelope
  <2> QED
    BY <1>1, <1>2, <1>4, <2>1, Zenon
<1>6. WrappedBy(q, k, i)
  BY <1>3, <1>5, Zenon DEF WrappedBy
<1>7. ASSUME NEW j \in DOMAIN k, WrappedBy(q, k, j) PROVE j = i
  <2>1. KEMEnvelope(j, k[j].req) = env
    BY <1>5, <1>7, Zenon DEF WrappedBy
  <2>2. KEMEnvelope(j, k[j].req).KeyVersion = j /\ env.KeyVersion = i
    BY DEF KEMEnvelope
  <2> QED
    BY <2>1, <2>2, Zenon
<1>8. k[i].req.Plaintext = a.plaintext
  BY <1>3, Zenon
<1>9. \A m : m \in Response("UnwrapEnvelope", q, k) <=>
              \E j \in DOMAIN k : WrappedBy(q, k, j) /\ m = [Plaintext |-> k[j].req.Plaintext]
  BY ONLY OpenAnswers, SMTT(30)
<1>10. ASSUME NEW m \in Response("UnwrapEnvelope", q, k) PROVE m = [Plaintext |-> a.plaintext]
  <2>1. PICK j \in DOMAIN k : WrappedBy(q, k, j) /\ m = [Plaintext |-> k[j].req.Plaintext]
    BY <1>9, <1>10, Zenon
  <2>2. j = i
    BY <1>7, <2>1, Zenon
  <2> QED
    BY <1>8, <2>1, <2>2, Zenon
<1>11. [Plaintext |-> a.plaintext] \in Response("UnwrapEnvelope", q, k)
  <2>1. [Plaintext |-> k[i].req.Plaintext] \in Response("UnwrapEnvelope", q, k)
    BY <1>6, <1>9, Zenon
  <2> QED
    BY <1>8, <2>1, Zenon
<1> QED
  BY <1>10, <1>11, Zenon

LEMMA OpensCurved ==
  ASSUME NEW k, LogOK(k), NEW i \in DOMAIN k, NEW a, k[i].rpc = "EncryptNatsCurve",
         k[i].req = EncryptNatsCurve(a),
         NEW q, q = DecryptNatsCurve([KeyID |-> a.RecipientPublicXKey,
                                      SenderPublicXKey |-> a.KeyID, Ciphertext |-> Named(i)])
  PROVE  \A m : m \in Response("DecryptNatsCurve", q, k) <=> m = [Plaintext |-> a.Plaintext]
<1>1. /\ EncryptNatsCurve(a).KeyId = a.KeyID /\ EncryptNatsCurve(a).Plaintext = a.Plaintext
      /\ EncryptNatsCurve(a).RecipientPublicXkey = a.RecipientPublicXKey
  BY DEF EncryptNatsCurve
<1>2. /\ q.KeyId = a.RecipientPublicXKey /\ q.SenderPublicXkey = a.KeyID
      /\ q.Ciphertext = Named(i)
  BY DEF DecryptNatsCurve
<1>3. CurvedBy(q, k, i)
  BY <1>1, <1>2, Zenon DEF CurvedBy
<1>4. ASSUME NEW j \in DOMAIN k, CurvedBy(q, k, j) PROVE j = i
  BY <1>2, <1>4, NamedTyped, Zenon DEF CurvedBy
<1>5. k[i].req.Plaintext = a.Plaintext
  BY <1>1, Zenon
<1>6. \A m : m \in Response("DecryptNatsCurve", q, k) <=>
              \E j \in DOMAIN k : CurvedBy(q, k, j) /\ m = [Plaintext |-> k[j].req.Plaintext]
  BY ONLY OpenAnswers, SMTT(30)
<1>7. ASSUME NEW m \in Response("DecryptNatsCurve", q, k) PROVE m = [Plaintext |-> a.Plaintext]
  <2>1. PICK j \in DOMAIN k : CurvedBy(q, k, j) /\ m = [Plaintext |-> k[j].req.Plaintext]
    BY <1>6, <1>7, Zenon
  <2>2. j = i
    BY <1>4, <2>1, Zenon
  <2> QED
    BY <1>5, <2>1, <2>2, Zenon
<1>8. [Plaintext |-> a.Plaintext] \in Response("DecryptNatsCurve", q, k)
  <2>1. [Plaintext |-> k[i].req.Plaintext] \in Response("DecryptNatsCurve", q, k)
    BY <1>3, <1>6, Zenon
  <2> QED
    BY <1>5, <2>1, Zenon
<1> QED
  BY <1>7, <1>8, Zenon

LEMMA VerifiesSigned ==
  ASSUME NEW k, LogOK(k), NEW i \in DOMAIN k, NEW q, k[i].rpc = "Sign", q.Signature = Named(i),
         k[i].req = [KeyId |-> q.KeyId, Message |-> q.Message, Algorithm |-> q.Algorithm]
  PROVE  \A m : m \in Response("Verify", q, k) <=> m = [Valid |-> TRUE]
<1>1. (\E j \in DOMAIN k : SignedBy(q, k, j)) = TRUE
  BY Zenon DEF SignedBy
<1>2. \A m : m \in Response("Verify", q, k) <=> m = [Valid |-> \E j \in DOMAIN k : SignedBy(q, k, j)]
  BY ONLY OpenAnswers, SMTT(30)
<1> QED
  BY <1>1, <1>2, Zenon

-----------------------------------------------------------------------------
\* Versions are numbered in the order of the log.
LEMMA Numbers ==
  ASSUME NEW vs, NEW n \in Nat, vs \subseteq 1 .. n
  PROVE  /\ \A i, j \in vs : i <= j => Number(i, vs) <= Number(j, vs)
         /\ \A i, j \in vs : Number(i, vs) = Number(j, vs) => i = j
         /\ \A i \in vs : Number(i, vs) \in Nat
<1> DEFINE To(i) == {j \in vs : j <= i}
<1>1. \A i : IsFiniteSet(To(i)) /\ Cardinality(To(i)) \in Nat
  <2>1. IsFiniteSet(1 .. n)
    BY FS_Interval
  <2>2. \A i : To(i) \subseteq 1 .. n
    OBVIOUS
  <2> QED
    BY <2>1, <2>2, FS_Subset, FS_CardinalityType, Zenon
<1>6. ASSUME NEW i \in vs, NEW j \in vs, i <= j PROVE To(i) \subseteq To(j)
  <2> SUFFICES ASSUME NEW e \in vs, e <= i PROVE e <= j
    BY Zenon
  <2>1. i \in Nat /\ j \in Nat /\ e \in Nat
    OBVIOUS
  <2> QED
    BY <1>6, <2>1
<1>2. ASSUME NEW i \in vs, NEW j \in vs, i <= j
      PROVE  Cardinality(To(i)) <= Cardinality(To(j))
  <2>1. To(i) \subseteq To(j)
    BY <1>2, <1>6
  <2> HIDE DEF To
  <2> QED
    BY <1>1, <2>1, FS_Subset
<1>3. ASSUME NEW i \in vs, NEW j \in vs, i < j
      PROVE  Cardinality(To(i)) # Cardinality(To(j))
  <2>1. To(i) \subseteq To(j) /\ j \in To(j) /\ j \notin To(i)
    <3>1. i <= j /\ j <= j /\ ~(j <= i)
      <4>1. i \in Nat /\ j \in Nat
        OBVIOUS
      <4> QED
        BY <1>3, <4>1
    <3> QED
      BY <1>6, <3>1, Zenon
  <2> HIDE DEF To
  <2> QED
    BY <1>1, <2>1, FS_Subset
<1>4. \A i : Number(i, vs) = Cardinality(To(i))
  BY Zenon DEF Number
<1> HIDE DEF To
<1>5. \A i, j \in vs : i < j \/ j < i \/ i = j
  OBVIOUS
<1> QED
  BY <1>1, <1>2, <1>3, <1>4, <1>5, Zenon

\* There is a latest one.
LEMMA Latest ==
  ASSUME NEW vs, NEW n \in Nat, vs \subseteq 1 .. n, vs # {}
  PROVE  \E i \in vs : \A j \in vs : j <= i
<1>1. PICK T : T = {n - i : i \in vs}
  OBVIOUS
<1>2. T \subseteq Nat /\ T # {}
  <2>1. \A i \in vs : n - i \in Nat
    OBVIOUS
  <2>2. \A x \in T : \E i \in vs : x = n - i
    BY <1>1, Zenon
  <2> QED
    BY <1>1, <2>1, <2>2, Zenon
<1>3. PICK x \in T : \A y \in T : x <= y
  BY <1>2, LeastNat
<1>4. PICK i \in vs : x = n - i
  BY <1>1, <1>3
<1>5. ASSUME NEW j \in vs PROVE j <= i
  <2>1. n - j \in T
    BY <1>1
  <2>2. n - i <= n - j
    BY <1>3, <1>4, <2>1
  <2>3. i \in Nat /\ j \in Nat
    OBVIOUS
  <2> QED
    BY <2>2, <2>3
<1> QED
  BY <1>5

-----------------------------------------------------------------------------
LEMMA InLog ==
  ASSUME NEW k, LogOK(k)
  PROVE  \E n \in Nat : \A id : Versions(k, id) \subseteq 1 .. n /\ PublicKeys(k, id) \subseteq 1 .. n
<1>1. PICK n : n = Len(k)
  OBVIOUS
<1>2. n \in 0 .. NumCalls /\ NumCalls \in Nat /\ DOMAIN k = 1 .. n
  BY <1>1, ClientAssumption, Zenon DEF LogOK
<1>3. n \in Nat
  BY <1>2
<1> QED
  BY <1>2, <1>3, Zenon DEF Versions, PublicKeys

LEMMA ReadsStored ==
  ASSUME NEW k, LogOK(k), NEW i \in DOMAIN k, k[i].rpc \in {"SetSecret", "RotateSecret"},
         NEW id, k[i].req.SecretId = id, NEW was, was = Number(i, Versions(k, id)),
         NEW v \in {{}, {was}}, NEW q, q.SecretId = id, q.Version = v
  PROVE  /\ \E m : m \in Response("GetSecret", q, k)
         /\ \A m \in Response("GetSecret", q, k) :
              /\ m.Version >= was
              /\ (k[i].rpc = "SetSecret" /\ m.Version = was) => m.Value = k[i].req.Value
<1>1. q.SecretId = id /\ q.Version = v
  OBVIOUS
<1>2. PICK vs : vs = Versions(k, id)
  OBVIOUS
<1>3. i \in vs
  BY <1>2, Zenon DEF Versions
<1>4. PICK n \in Nat : vs \subseteq 1 .. n
  BY <1>2, InLog, Zenon
<1>5. /\ \A j \in vs : i <= j => Number(i, vs) <= Number(j, vs)
      /\ \A j \in vs : Number(j, vs) = Number(i, vs) => j = i
      /\ \A j \in vs : Number(j, vs) \in Nat
  BY <1>3, <1>4, Numbers, Zenon
<1>6. \A m : m \in Response("GetSecret", q, k) <=>
              \E j \in WithNumber(q.Version, Versions(k, q.SecretId)) : m = Read(q, k, j)
  BY ONLY FoundAnswers, SMT
<1>7. \A m : m \in Response("GetSecret", q, k) <=> \E j \in WithNumber(v, vs) : m = Read(q, k, j)
  <2>1. WithNumber(v, vs) = WithNumber(q.Version, Versions(k, q.SecretId))
    BY <1>1, <1>2
  <2> QED
    BY ONLY <1>6, <2>1
<1>8. \E j : j \in WithNumber(v, vs)
  <2>1. CASE v = {}
    <3>1. PICK j \in vs : \A e \in vs : e <= j
      BY <1>3, <1>4, Latest
    <3> QED
      BY <2>1, <3>1, Zenon DEF WithNumber
  <2>2. CASE v # {}
    <3>1. v = {Number(i, vs)}
      BY <1>2, <2>2, Zenon
    <3> QED
      BY <1>3, <2>2, <3>1, Zenon DEF WithNumber
  <2> QED
    BY <2>1, <2>2
<1>9. ASSUME NEW m, NEW j \in WithNumber(v, vs), m = Read(q, k, j)
      PROVE  /\ m.Version >= was
             /\ (k[i].rpc = "SetSecret" /\ m.Version = was) => m.Value = k[i].req.Value
  <2>1. /\ m.Version = Number(j, vs)
        /\ m.Value = IF k[j].rpc = "SetSecret" THEN k[j].req.Value ELSE Named(j)
    <3>1. /\ Read(q, k, j).Version = Number(j, Versions(k, q.SecretId))
          /\ Read(q, k, j).Value = IF k[j].rpc = "SetSecret" THEN k[j].req.Value ELSE Named(j)
      BY DEF Read
    <3> QED
      BY <1>1, <1>2, <1>9, <3>1, Zenon
  <2>2. j \in vs
    BY Zenon DEF WithNumber
  <2>3. Number(j, vs) \in Nat /\ Number(i, vs) \in Nat
    BY <1>3, <1>5, <2>2, Zenon
  <2>4. Number(i, vs) <= Number(j, vs)
    <3>1. CASE v = {}
      <4>1. i <= j
        BY <1>3, <3>1, Zenon DEF WithNumber
      <4> QED
        BY <1>5, <2>2, <4>1, Zenon
    <3>2. CASE v # {}
      <4>1. Number(j, vs) \in v /\ v = {Number(i, vs)}
        BY <1>2, <3>2, Zenon DEF WithNumber
      <4>2. Number(j, vs) = Number(i, vs)
        BY <4>1, Zenon
      <4> QED
        BY <2>3, <4>2
    <3> QED
      BY <3>1, <3>2
  <2>5. was = Number(i, vs)
    BY <1>2
  <2>6. m.Version >= was
    BY <2>1, <2>3, <2>4, <2>5
  <2>7. m.Version = was => j = i
    BY <1>5, <2>1, <2>2, <2>5, Zenon
  <2> QED
    BY <2>1, <2>6, <2>7, Zenon
<1> QED
  BY <1>7, <1>8, <1>9, Zenon

LEMMA ReadsKey ==
  ASSUME NEW k, LogOK(k), NEW i \in DOMAIN k, k[i].rpc \in {"NewKey", "Import"},
         NEW id, k[i].req.KeyId = id, NEW v \in {{}, {1}},
         NEW q, q.KeyId = id, q.Version = v
  PROVE  /\ \E m : m \in Response("GetPublicKey", q, k)
         /\ \A m \in Response("GetPublicKey", q, k) :
              m.KeyId = id /\ \E j \in PublicKeys(k, id) : m.PublicKey = Named(j)
<1>1. q.KeyId = id /\ q.Version = v
  OBVIOUS
<1>2. PICK vs : vs = PublicKeys(k, id)
  OBVIOUS
<1>3. i \in vs
  BY <1>2, Zenon DEF PublicKeys
<1>4. PICK n \in Nat : vs \subseteq 1 .. n
  BY <1>2, InLog, Zenon
<1>5. \A m : m \in Response("GetPublicKey", q, k) <=>
              \E j \in WithNumber(q.Version, PublicKeys(k, q.KeyId)) : m = Found(q, k, j)
  BY ONLY FoundAnswers, SMT
<1>6. \A m : m \in Response("GetPublicKey", q, k) <=> \E j \in WithNumber(v, vs) : m = Found(q, k, j)
  <2>1. WithNumber(v, vs) = WithNumber(q.Version, PublicKeys(k, q.KeyId))
    BY <1>1, <1>2
  <2> QED
    BY ONLY <1>5, <2>1
<1>7. \E j : j \in WithNumber(v, vs)
  <2>1. CASE v = {}
    <3>1. PICK j \in vs : \A e \in vs : e <= j
      BY <1>3, <1>4, Latest
    <3> QED
      BY <2>1, <3>1, Zenon DEF WithNumber
  <2>2. CASE v # {}
    <3>1. PICK j \in vs : \A e \in vs : j <= e
      BY <1>3, <1>4, LeastNat
    <3>2. {e \in vs : e <= j} = {j}
      <4>1. ASSUME NEW e \in vs, e <= j PROVE e = j
        <5>1. j <= e /\ e \in Nat /\ j \in Nat
          BY <1>4, <3>1
        <5> QED
          BY <4>1, <5>1
      <4>2. j <= j
        BY <1>4, <3>1
      <4> QED
        BY <3>1, <4>1, <4>2, Zenon
    <3>3. Number(j, vs) = 1
      BY <3>2, FS_Singleton, Zenon DEF Number
    <3>4. Number(j, vs) \in v
      BY <2>2, <3>3, Zenon
    <3> QED
      BY <2>2, <3>1, <3>4, Zenon DEF WithNumber
  <2> QED
    BY <2>1, <2>2
<1>8. ASSUME NEW m, NEW j \in WithNumber(v, vs), m = Found(q, k, j)
      PROVE  m.KeyId = id /\ m.PublicKey = Named(j) /\ j \in vs
  <2>1. Found(q, k, j).KeyId = q.KeyId /\ Found(q, k, j).PublicKey = Named(j)
    BY DEF Found
  <2> QED
    BY <1>1, <1>8, <2>1, Zenon DEF WithNumber
<1> QED
  BY <1>2, <1>6, <1>7, <1>8, Zenon

LEMMA ValidatesMinted ==
  ASSUME NEW k, LogOK(k), NEW i \in DOMAIN k, k[i].rpc \in CredentialMethods,
         NEW key, k[i].req.KeyId = key, NEW q, q.Jwt = Named(i),
         q.AllowedSigners = <<[KeyId |-> key]>>
  PROVE  /\ \E m : m \in Response("ValidateNatsJwt", q, k)
         /\ \A m \in Response("ValidateNatsJwt", q, k) :
              /\ m.Valid \in BOOLEAN /\ (m.Valid <=> \A t \in Expiry(k[i].req) : t > Now)
              /\ m.ExpiresAtUnix = One(Expiry(k[i].req), 0)
<1>1. Minters(q, k) = {i}
  BY NamedTyped, Zenon DEF Minters
<1>2. MinterKeys(q, k) = {key} /\ MinterExpiry(q, k) = Expiry(k[i].req)
  BY <1>1, Zenon DEF MinterKeys, MinterExpiry
<1>3. Known(q, k)
  <2>1. PICK s : s = [KeyId |-> key]
    OBVIOUS
  <2>2. s \in [KeyId : {key}]
    BY <2>1
  <2>3. s \in Range(q.AllowedSigners)
    <3>1. DOMAIN <<s>> = {1} /\ <<s>>[1] = s
      OBVIOUS
    <3> QED
      BY <2>1, <3>1, Zenon DEF Range
  <2> QED
    BY <1>2, <2>2, <2>3, Zenon DEF Known
<1>4. PICK valid, owner, at :
        /\ valid = (Known(q, k) /\ \A t \in MinterExpiry(q, k) : t > Now)
        /\ owner = One(MinterKeys(q, k), "") /\ at = One(MinterExpiry(q, k), 0)
  OBVIOUS
<1>5. PICK matched : matched = IF Known(q, k) THEN One(MinterKeys(q, k), "") ELSE ""
  OBVIOUS
<1>6. PICK m : m = [Valid |-> valid, Reason |-> 0, Subject |-> q.Jwt, Issuer |-> owner,
                    JwtType |-> q.ExpectedType, MatchedSignerKeyId |-> matched,
                    ExpiresAtUnix |-> at, IssuedAtUnix |-> Now]
  OBVIOUS
<1>7. Response("ValidateNatsJwt", q, k) = {m}
  BY <1>4, <1>5, <1>6, ValidateAnswers, Zenon
<1>8. m.Valid = valid /\ m.ExpiresAtUnix = at
  BY ONLY <1>6
<1>9. valid \in BOOLEAN /\ (valid <=> \A t \in Expiry(k[i].req) : t > Now)
  BY <1>2, <1>3, <1>4, Zenon
<1> QED
  BY <1>2, <1>4, <1>7, <1>8, <1>9, Zenon

-----------------------------------------------------------------------------
\* p is the log l as it was once.
Initial(p, l) ==
  /\ Len(p) \in Nat /\ DOMAIN p = 1 .. Len(p) /\ DOMAIN p \subseteq DOMAIN l
  /\ \A j \in DOMAIN p : p[j] = l[j]

\* A call of op with a was answered with m, when its entry was the last of
\* the log p; k is the log at a later time, and l at a still later one.
Made(op, a, m, p, k, l) ==
  /\ LogOK(p) /\ LogOK(k) /\ LogOK(l) /\ Initial(p, k) /\ Initial(k, l)
  /\ Len(p) # 0 /\ Len(p) \in DOMAIN k
  /\ k[Len(p)].rpc = rpc(op) /\ k[Len(p)].req = request(op, a)
  /\ m \in Response(rpc(op), request(op, a), p) /\ ~unusable(op, m)

\* What was made is found: got is the result of the call then, made of the
\* result was of op with a.
Good(then, got, op, a, was, l) ==
  /\ then \in {"Decrypt", "UnwrapEnvelope"} => got = a.plaintext
  /\ then = "DecryptNatsCurve" => got = a.Plaintext
  /\ then \in {"Verify", "VerifyWithAlgorithm"} => got
  /\ then = "GetSecret" =>
       /\ got.Version >= was
       /\ (op = "SetSecret" /\ got.Version = was) => got.Value = a.value
  /\ then = "GetPublicKey" =>
       /\ got.KeyID = was.KeyID
       /\ Cardinality(PublicKeys(l, was.KeyID)) = 1 => got.Bytes = was.PublicKey
  /\ then = "ValidateNatsJwt" =>
       /\ got.ExpiresAt = was.ExpiresAt
       /\ got.Valid = (was.ExpiresAt = ZeroTime \/ was.ExpiresAt > Now)

\* The broker answers the call z, and what it may answer is good.
Trips(z, op, a, was, k, l) ==
  /\ \E n : n \in Response(rpc(z.op), request(z.op, z.a), k)
  /\ \A n \in Response(rpc(z.op), request(z.op, z.a), k) :
       Good(z.op, result(z.op, n), op, a, was, l)

LEMMA FollowIs ==
  ASSUME NEW then, NEW b, NEW z, z = Follow(then, b) PROVE z.op = then /\ z.a = b
  BY DEF Follow

LEMMA EncryptTrips ==
  ASSUME NEW a, NEW m, NEW p, NEW k, NEW l, Made("Encrypt", a, m, p, k, l),
         NEW z \in FollowUp("Encrypt", a, result("Encrypt", m))
  PROVE  Trips(z, "Encrypt", a, result("Encrypt", m), k, l)
<1>1. PICK i, env : i = Len(p) /\ env = AEADEnvelope(i, Encrypt(a))
  OBVIOUS
<1>2. /\ request("Encrypt", a) = Encrypt(a)
      /\ \A b : request("Decrypt", b) = Decrypt(b)
  BY Zenon DEF request
<1>3. rpc("Encrypt") = "Encrypt" /\ rpc("Decrypt") = "Decrypt"
  BY DEF rpc
<1>4. /\ LogOK(k) /\ i \in DOMAIN k /\ k[i].rpc = "Encrypt" /\ k[i].req = Encrypt(a)
      /\ m \in Response("Encrypt", Encrypt(a), p) /\ ~unusable("Encrypt", m)
  BY <1>1, <1>2, <1>3, Zenon DEF Made
<1>5. m.Envelope = {env}
  <2>1. m \in {[Envelope |-> {}], [Envelope |-> {AEADEnvelope(Len(p), Encrypt(a))}]}
    BY <1>4, MadeAnswers, SMT
  <2>2. m \in {[Envelope |-> {}], [Envelope |-> {env}]}
    BY <1>1, <2>1, Zenon
  <2>3. m.Envelope # {}
    BY <1>4, Zenon DEF unusable
  <2> QED
    BY ONLY <2>2, <2>3
<1>6. result("Encrypt", m) = Ciphertext(env)
  <2>1. (CHOOSE e \in m.Envelope : TRUE) = env
    BY <1>5
  <2> QED
    BY <2>1, Zenon DEF result, CredentialMethods
<1>7. PICK b : b = [keyID |-> a.keyID, ct |-> {Ciphertext(env)}, aad |-> a.aad]
  OBVIOUS
<1>8. z = Follow("Decrypt", b)
  BY <1>6, <1>7, FollowUpOfEncrypt, Zenon
<1>9. z.op = "Decrypt" /\ z.a = b
  BY <1>8, FollowIs, Zenon
<1>10. \A n : n \in Response("Decrypt", Decrypt(b), k) <=> n = [Plaintext |-> a.plaintext]
  BY <1>1, <1>4, <1>7, OpensSealed, ZenonT(30)
<1>11. result("Decrypt", [Plaintext |-> a.plaintext]) = a.plaintext
  BY Zenon DEF result, CredentialMethods
<1>12. \A was : Good("Decrypt", a.plaintext, "Encrypt", a, was, l)
  BY DEF Good
<1> QED
  BY <1>2, <1>3, <1>9, <1>10, <1>11, <1>12, Zenon DEF Trips

LEMMA WrapTrips ==
  ASSUME NEW a, NEW m, NEW p, NEW k, NEW l, Made("WrapEnvelope", a, m, p, k, l),
         NEW z \in FollowUp("WrapEnvelope", a, result("WrapEnvelope", m))
  PROVE  Trips(z, "WrapEnvelope", a, result("WrapEnvelope", m), k, l)
<1>1. PICK i, env : i = Len(p) /\ env = KEMEnvelope(i, WrapEnvelope(a))
  OBVIOUS
<1>2. /\ request("WrapEnvelope", a) = WrapEnvelope(a)
      /\ \A b : request("UnwrapEnvelope", b) = UnwrapEnvelope(b)
  BY Zenon DEF request
<1>3. rpc("WrapEnvelope") = "WrapEnvelope" /\ rpc("UnwrapEnvelope") = "UnwrapEnvelope"
  BY DEF rpc
<1>4. /\ LogOK(k) /\ i \in DOMAIN k /\ k[i].rpc = "WrapEnvelope" /\ k[i].req = WrapEnvelope(a)
      /\ m \in Response("WrapEnvelope", WrapEnvelope(a), p) /\ ~unusable("WrapEnvelope", m)
  BY <1>1, <1>2, <1>3, Zenon DEF Made
<1>5. m.Envelope = {env}
  <2>1. m \in {[Envelope |-> {}], [Envelope |-> {KEMEnvelope(Len(p), WrapEnvelope(a))}]}
    BY <1>4, MadeAnswers, SMT
  <2>2. m \in {[Envelope |-> {}], [Envelope |-> {env}]}
    BY <1>1, <2>1, Zenon
  <2>3. m.Envelope # {}
    BY <1>4, Zenon DEF unusable
  <2> QED
    BY ONLY <2>2, <2>3
<1>6. result("WrapEnvelope", m) = WrappedEnvelope(env)
  <2>1. (CHOOSE e \in m.Envelope : TRUE) = env
    BY <1>5
  <2> QED
    BY <2>1, Zenon DEF result, CredentialMethods
<1>7. PICK b : b = [keyID |-> a.keyID, env |-> {WrappedEnvelope(env)}, aad |-> a.aad]
  OBVIOUS
<1>8. z = Follow("UnwrapEnvelope", b)
  BY <1>6, <1>7, FollowUpOfWrap, Zenon
<1>9. z.op = "UnwrapEnvelope" /\ z.a = b
  BY <1>8, FollowIs, Zenon
<1>10. \A n : n \in Response("UnwrapEnvelope", UnwrapEnvelope(b), k) <=> n = [Plaintext |-> a.plaintext]
  BY <1>1, <1>4, <1>7, OpensWrapped, ZenonT(30)
<1>11. result("UnwrapEnvelope", [Plaintext |-> a.plaintext]) = a.plaintext
  BY Zenon DEF result, CredentialMethods
<1>12. \A was : Good("UnwrapEnvelope", a.plaintext, "WrapEnvelope", a, was, l)
  BY DEF Good
<1> QED
  BY <1>2, <1>3, <1>9, <1>10, <1>11, <1>12, Zenon DEF Trips

LEMMA CurveTrips ==
  ASSUME NEW a, NEW m, NEW p, NEW k, NEW l, Made("EncryptNatsCurve", a, m, p, k, l),
         NEW z \in FollowUp("EncryptNatsCurve", a, result("EncryptNatsCurve", m))
  PROVE  Trips(z, "EncryptNatsCurve", a, result("EncryptNatsCurve", m), k, l)
<1>1. PICK i : i = Len(p)
  OBVIOUS
<1>2. /\ request("EncryptNatsCurve", a) = EncryptNatsCurve(a)
      /\ \A b : request("DecryptNatsCurve", b) = DecryptNatsCurve(b)
  BY Zenon DEF request
<1>3. rpc("EncryptNatsCurve") = "EncryptNatsCurve" /\ rpc("DecryptNatsCurve") = "DecryptNatsCurve"
  BY DEF rpc
<1>4. /\ LogOK(k) /\ i \in DOMAIN k /\ k[i].rpc = "EncryptNatsCurve"
      /\ k[i].req = EncryptNatsCurve(a)
      /\ m \in Response("EncryptNatsCurve", EncryptNatsCurve(a), p)
  BY <1>1, <1>2, <1>3, Zenon DEF Made
<1>5. result("EncryptNatsCurve", m) = Named(i)
  <2>1. Response("EncryptNatsCurve", EncryptNatsCurve(a), p) = {[Ciphertext |-> Named(Len(p))]}
    BY ONLY SimpleAnswers, SMTT(30)
  <2>2. m = [Ciphertext |-> Named(i)]
    BY <1>1, <1>4, <2>1, Zenon
  <2>3. m.Ciphertext = Named(i)
    BY <2>2
  <2> QED
    BY <2>3, Zenon DEF result, CredentialMethods
<1>6. PICK b : b = [KeyID |-> a.RecipientPublicXKey, SenderPublicXKey |-> a.KeyID,
                    Ciphertext |-> Named(i)]
  OBVIOUS
<1>7. z = Follow("DecryptNatsCurve", b)
  BY <1>5, <1>6, FollowUpOfCurve, Zenon
<1>8. z.op = "DecryptNatsCurve" /\ z.a = b
  BY <1>7, FollowIs, Zenon
<1>9. \A n : n \in Response("DecryptNatsCurve", DecryptNatsCurve(b), k)
                <=> n = [Plaintext |-> a.Plaintext]
  BY <1>4, <1>6, OpensCurved, Zenon
<1>10. result("DecryptNatsCurve", [Plaintext |-> a.Plaintext]) = a.Plaintext
  BY Zenon DEF result, CredentialMethods
<1>11. \A was : Good("DecryptNatsCurve", a.Plaintext, "EncryptNatsCurve", a, was, l)
  BY DEF Good
<1> QED
  BY <1>2, <1>3, <1>8, <1>9, <1>10, <1>11, Zenon DEF Trips

-----------------------------------------------------------------------------
\* Sign is SignWithAlgorithm, and Verify VerifyWithAlgorithm, of no algorithm.
LEMMA SignTrips ==
  ASSUME NEW op \in {"Sign", "SignWithAlgorithm"}, NEW a, NEW m, NEW p, NEW k, NEW l,
         Made(op, a, m, p, k, l), NEW z \in FollowUp(op, a, result(op, m))
  PROVE  Trips(z, op, a, result(op, m), k, l)
<1>1. PICK i : i = Len(p)
  OBVIOUS
<1>2. PICK alg : alg = IF op = "Sign" THEN SigningAlgorithmUnspecified ELSE a.alg
  OBVIOUS
<1>3. request(op, a) = [KeyId |-> a.keyID, Message |-> a.message, Algorithm |-> alg]
  <2>1. /\ request("Sign", a) = Sign(a)
        /\ request("SignWithAlgorithm", a) = SignWithAlgorithm(a)
    BY Zenon DEF request
  <2>2. /\ Sign(a) = [KeyId |-> a.keyID, Message |-> a.message,
                      Algorithm |-> SigningAlgorithmUnspecified]
        /\ SignWithAlgorithm(a) = [KeyId |-> a.keyID, Message |-> a.message, Algorithm |-> a.alg]
    BY DEF Sign, SignWithAlgorithm
  <2>3. "Sign" # "SignWithAlgorithm"
    OBVIOUS
  <2> QED
    BY <1>2, <2>1, <2>2, <2>3, Zenon
<1>4. rpc(op) = "Sign" /\ \A then \in {"Verify", "VerifyWithAlgorithm"} : rpc(then) = "Verify"
  BY DEF rpc
<1>5. /\ LogOK(k) /\ i \in DOMAIN k /\ k[i].rpc = "Sign" /\ k[i].req = request(op, a)
      /\ m \in Response("Sign", request(op, a), p)
  BY <1>1, <1>4, Zenon DEF Made
<1>6. result(op, m) = Named(i)
  <2>1. \A q : Response("Sign", q, p) = {[Signature |-> Named(Len(p))]}
    BY ONLY SimpleAnswers, SMTT(30)
  <2>2. m = [Signature |-> Named(i)]
    BY <1>1, <1>5, <2>1, Zenon
  <2>3. m.Signature = Named(i)
    BY <2>2
  <2> QED
    BY <2>3, Zenon DEF result, CredentialMethods
<1>7. PICK q : q = [KeyId |-> a.keyID, Message |-> a.message, Signature |-> Named(i),
                    Algorithm |-> alg]
  OBVIOUS
<1>8. z.op \in {"Verify", "VerifyWithAlgorithm"} /\ request(z.op, z.a) = q
  <2>1. CASE op = "Sign"
    <3>1. PICK b : b = [keyID |-> a.keyID, message |-> a.message, signature |-> Named(i)]
      OBVIOUS
    <3>2. z = Follow("Verify", b)
      BY <1>6, <2>1, <3>1, FollowUpOfSign, Zenon
    <3>3. z.op = "Verify" /\ z.a = b
      BY <3>2, FollowIs, Zenon
    <3>4. request("Verify", b) = Verify(b)
      BY Zenon DEF request
    <3>5. alg = SigningAlgorithmUnspecified
      BY <1>2, <2>1
    <3>6. Verify(b) = q
      BY <1>7, <3>1, <3>5 DEF Verify, VerifyWithAlgorithm
    <3> QED
      BY <3>3, <3>4, <3>6, Zenon
  <2>2. CASE op = "SignWithAlgorithm"
    <3>1. PICK b : b = [keyID |-> a.keyID, message |-> a.message, signature |-> Named(i),
                        alg |-> a.alg]
      OBVIOUS
    <3>2. z = Follow("VerifyWithAlgorithm", b)
      BY <1>6, <2>2, <3>1, FollowUpOfSignWith, Zenon
    <3>3. z.op = "VerifyWithAlgorithm" /\ z.a = b
      BY <3>2, FollowIs, Zenon
    <3>4. request("VerifyWithAlgorithm", b) = VerifyWithAlgorithm(b)
      BY Zenon DEF request
    <3>5. alg = a.alg
      BY <1>2, <2>2
    <3>6. VerifyWithAlgorithm(b) = q
      BY <1>7, <3>1, <3>5 DEF VerifyWithAlgorithm
    <3> QED
      BY <3>3, <3>4, <3>6, Zenon
  <2> QED
    BY <2>1, <2>2, Zenon
<1>9. \A n : n \in Response("Verify", q, k) <=> n = [Valid |-> TRUE]
  <2>1. q.KeyId = a.keyID /\ q.Message = a.message /\ q.Signature = Named(i) /\ q.Algorithm = alg
    BY <1>7
  <2>2. k[i].req = [KeyId |-> q.KeyId, Message |-> q.Message, Algorithm |-> q.Algorithm]
    BY <1>3, <1>5, <2>1, Zenon
  <2> QED
    BY <1>5, <2>1, <2>2, VerifiesSigned, Zenon
<1>10. \A then \in {"Verify", "VerifyWithAlgorithm"} : result(then, [Valid |-> TRUE]) = TRUE
  BY Zenon DEF result, CredentialMethods
<1>11. \A then \in {"Verify", "VerifyWithAlgorithm"} : \A was : Good(then, TRUE, op, a, was, l)
  BY DEF Good
<1>12. rpc(z.op) = "Verify"
  BY <1>4, <1>8, Zenon
<1> QED
  BY <1>8, <1>9, <1>10, <1>11, <1>12, Zenon DEF Trips

LEMMA SecretTrips ==
  ASSUME NEW op \in {"SetSecret", "RotateSecret"}, NEW a, NEW m, NEW p, NEW k, NEW l,
         Made(op, a, m, p, k, l), NEW z \in FollowUp(op, a, result(op, m))
  PROVE  Trips(z, op, a, result(op, m), k, l)
<1>1. PICK i, id : i = Len(p) /\ id = a.secretID
  OBVIOUS
<1>2. request(op, a).SecretId = id /\ (op = "SetSecret" => request(op, a).Value = a.value)
  <2>1. /\ request("SetSecret", a) = SetSecret(a) /\ request("RotateSecret", a) = RotateSecret(a)
    BY Zenon DEF request
  <2>2. /\ SetSecret(a).SecretId = a.secretID /\ SetSecret(a).Value = a.value
        /\ RotateSecret(a).SecretId = a.secretID
    BY DEF SetSecret, RotateSecret
  <2> QED
    BY <1>1, <2>1, <2>2, Zenon
<1>3. rpc(op) = op /\ rpc("GetSecret") = "GetSecret"
  BY DEF rpc
<1>4. /\ LogOK(k) /\ LogOK(p) /\ Initial(p, k) /\ i \in DOMAIN k /\ k[i].rpc = op
      /\ k[i].req = request(op, a) /\ m \in Response(op, request(op, a), p)
  BY <1>1, <1>3, Zenon DEF Made
<1>5. PICK was : was = Number(i, Versions(k, id))
  OBVIOUS
<1>6. result(op, m) = was
  <2>1. \A q : /\ Response("SetSecret", q, p) = {[Version |-> Cardinality(Versions(p, q.SecretId))]}
               /\ Response("RotateSecret", q, p) = {[Version |-> Cardinality(Versions(p, q.SecretId))]}
    BY ONLY SimpleAnswers, SMTT(30)
  <2>2. m = [Version |-> Cardinality(Versions(p, id))]
    BY <1>2, <1>4, <2>1, Zenon
  <2>3. m.Version = Cardinality(Versions(p, id))
    BY <2>2
  <2>4. Versions(p, id) = {j \in Versions(k, id) : j <= i}
    <3>1. i \in Nat /\ DOMAIN p = 1 .. i /\ DOMAIN p \subseteq DOMAIN k
          /\ \A j \in DOMAIN p : p[j] = k[j]
      BY <1>1, <1>4, Zenon DEF Initial
    <3>2. PICK n \in Nat : DOMAIN k = 1 .. n
      <4>1. PICK n : n = Len(k)
        OBVIOUS
      <4>2. n \in 0 .. NumCalls /\ NumCalls \in Nat /\ DOMAIN k = 1 .. n
        BY <1>4, <4>1, ClientAssumption, Zenon DEF LogOK
      <4>3. n \in Nat
        BY <4>2
      <4> QED
        BY <4>2, <4>3
    <3>3. \A j \in DOMAIN k : j \in DOMAIN p <=> j <= i
      BY <3>1, <3>2
    <3> QED
      BY <3>1, <3>3, Zenon DEF Versions
  <2>5. result(op, m) = m.Version
    BY Zenon DEF result, CredentialMethods
  <2> QED
    BY <1>5, <2>3, <2>4, <2>5, Zenon DEF Number
<1>7. PICK v \in {{}, {was}} : z = Follow("GetSecret", [secretID |-> id, version |-> v])
  <2>1. \E v \in {{}, {was}} : z = Follow("GetSecret", [secretID |-> a.secretID, version |-> v])
    BY ONLY <1>6, z \in FollowUp(op, a, result(op, m)), op \in {"SetSecret", "RotateSecret"},
            FollowUpOfSecret
  <2> QED
    BY <1>1, <2>1, Zenon
<1>8. PICK b, q : b = [secretID |-> id, version |-> v] /\ q = GetSecret(b)
  OBVIOUS
<1>9. z.op = "GetSecret" /\ z.a = b
  <2>1. z = Follow("GetSecret", b)
    BY <1>7, <1>8
  <2> QED
    BY <2>1, FollowIs, Zenon
<1>10. request("GetSecret", b) = q
  BY <1>8, Zenon DEF request
<1>11. /\ \E n : n \in Response("GetSecret", q, k)
       /\ \A n \in Response("GetSecret", q, k) :
            /\ n.Version >= was
            /\ (k[i].rpc = "SetSecret" /\ n.Version = was) => n.Value = k[i].req.Value
  <2>1. q.SecretId = id /\ q.Version = v
    BY <1>8 DEF GetSecret
  <2>2. k[i].rpc \in {"SetSecret", "RotateSecret"} /\ k[i].req.SecretId = id
    BY <1>2, <1>4, Zenon
  <2> QED
    BY ONLY <1>4, <1>5, <1>7, <2>1, <2>2, ReadsStored
<1>12. ASSUME NEW n \in Response("GetSecret", q, k)
       PROVE  Good("GetSecret", result("GetSecret", n), op, a, was, l)
  <2>1. PICK got : got = result("GetSecret", n)
    OBVIOUS
  <2>2. got = [Value |-> n.Value, Version |-> n.Version]
    BY <2>1, Zenon DEF result, CredentialMethods
  <2>3. got.Value = n.Value /\ got.Version = n.Version
    BY <2>2
  <2>4. /\ got.Version >= was
        /\ (op = "SetSecret" /\ got.Version = was) => got.Value = a.value
    BY <1>2, <1>4, <1>11, <2>3, Zenon
  <2>5. "GetSecret" \notin {"Decrypt", "UnwrapEnvelope", "DecryptNatsCurve", "Verify",
                            "VerifyWithAlgorithm", "GetPublicKey", "ValidateNatsJwt"}
    OBVIOUS
  <2> QED
    BY <2>1, <2>4, <2>5, Zenon DEF Good
<1> QED
  BY <1>3, <1>6, <1>9, <1>10, <1>11, <1>12, Zenon DEF Trips

LEMMA KeyTrips ==
  ASSUME NEW op \in {"NewKey", "Import"}, NEW a, NEW m, NEW p, NEW k, NEW l,
         Made(op, a, m, p, k, l), NEW z \in FollowUp(op, a, result(op, m))
  PROVE  Trips(z, op, a, result(op, m), k, l)
<1>1. PICK i, id : i = Len(p) /\ id = a.keyID
  OBVIOUS
<1>2. request(op, a).KeyId = id
  <2>1. /\ request("NewKey", a) = NewKey(a) /\ request("Import", a) = Import(a)
    BY Zenon DEF request
  <2>2. NewKey(a).KeyId = a.keyID /\ Import(a).KeyId = a.keyID
    BY DEF NewKey, Import
  <2> QED
    BY <1>1, <2>1, <2>2, Zenon
<1>3. rpc(op) = op /\ rpc("GetPublicKey") = "GetPublicKey"
  BY DEF rpc
<1>4. /\ LogOK(k) /\ LogOK(l) /\ Initial(k, l) /\ i \in DOMAIN k /\ k[i].rpc = op
      /\ k[i].req = request(op, a) /\ m \in Response(op, request(op, a), p)
  BY <1>1, <1>3, Zenon DEF Made
<1>5. PICK was : was = result(op, m)
  OBVIOUS
<1>6. was.KeyID = id /\ was.PublicKey = Named(i)
  <2>1. \A q : /\ Response("NewKey", q, p) = {[KeyId |-> q.KeyId, PublicKey |-> Named(Len(p))]}
               /\ Response("Import", q, p) = {[KeyId |-> q.KeyId, PublicKey |-> Named(Len(p))]}
    BY ONLY SimpleAnswers, SMTT(30)
  <2>2. m = [KeyId |-> id, PublicKey |-> Named(i)]
    BY <1>1, <1>2, <1>4, <2>1, ZenonT(60)
  <2>3. m.KeyId = id /\ m.PublicKey = Named(i)
    BY <2>2
  <2>4. was = KeyHandle(m)
    BY <1>5, Zenon DEF result, CredentialMethods
  <2>5. KeyHandle(m).KeyID = m.KeyId /\ KeyHandle(m).PublicKey = m.PublicKey
    BY DEF KeyHandle
  <2> QED
    BY <2>3, <2>4, <2>5, Zenon
<1>7. PICK v \in {{}, {1}} : z = Follow("GetPublicKey", [keyID |-> id, version |-> v])
  BY <1>1, FollowUpOfKey, Zenon
<1>8. PICK b, q : b = [keyID |-> id, version |-> v] /\ q = GetPublicKey(b)
  OBVIOUS
<1>9. z.op = "GetPublicKey" /\ z.a = b
  <2>1. z = Follow("GetPublicKey", b)
    BY <1>7, <1>8
  <2> QED
    BY <2>1, FollowIs, Zenon
<1>10. request("GetPublicKey", b) = q
  BY <1>8, Zenon DEF request
<1>11. /\ \E n : n \in Response("GetPublicKey", q, k)
       /\ \A n \in Response("GetPublicKey", q, k) :
            n.KeyId = id /\ \E j \in PublicKeys(k, id) : n.PublicKey = Named(j)
  <2>1. q.KeyId = id /\ q.Version = v
    BY <1>8 DEF GetPublicKey
  <2>2. k[i].rpc \in {"NewKey", "Import"} /\ k[i].req.KeyId = id
    BY <1>2, <1>4, Zenon
  <2> QED
    BY ONLY <1>4, <1>7, <2>1, <2>2, ReadsKey
<1>12. ASSUME NEW n \in Response("GetPublicKey", q, k)
       PROVE  Good("GetPublicKey", result("GetPublicKey", n), op, a, was, l)
  <2>1. PICK got : got = result("GetPublicKey", n)
    OBVIOUS
  <2>2. got.KeyID = n.KeyId /\ got.Bytes = n.PublicKey
    <3>1. got = PublicKey(n)
      BY <2>1, Zenon DEF result, CredentialMethods
    <3>2. PublicKey(n).KeyID = n.KeyId /\ PublicKey(n).Bytes = n.PublicKey
      BY DEF PublicKey
    <3> QED
      BY <3>1, <3>2, Zenon
  <2>3. ASSUME Cardinality(PublicKeys(l, id)) = 1 PROVE got.Bytes = was.PublicKey
    <3>1. PICK j \in PublicKeys(k, id) : n.PublicKey = Named(j)
      BY <1>11, Zenon
    <3>2. j \in PublicKeys(l, id) /\ i \in PublicKeys(l, id)
      BY <1>2, <1>4, Zenon DEF PublicKeys, Initial
    <3>3. j = i
      <4>1. IsFiniteSet(PublicKeys(l, id))
        <5>1. PICK size \in Nat : PublicKeys(l, id) \subseteq 1 .. size
          BY <1>4, InLog, Zenon
        <5>2. IsFiniteSet(1 .. size)
          BY FS_Interval
        <5> QED
          BY <5>1, <5>2, FS_Subset, Zenon
      <4>2. PICK only : PublicKeys(l, id) = {only}
        BY <2>3, <4>1, FS_Singleton, Zenon
      <4> QED
        BY <3>2, <4>2, Zenon
    <3> QED
      BY <1>6, <2>2, <3>1, <3>3, Zenon
  <2>4. "GetPublicKey" \notin {"Decrypt", "UnwrapEnvelope", "DecryptNatsCurve", "Verify",
                               "VerifyWithAlgorithm", "GetSecret", "ValidateNatsJwt"}
    OBVIOUS
  <2> QED
    BY <1>6, <1>11, <2>1, <2>2, <2>3, <2>4, Zenon DEF Good
<1> QED
  BY <1>3, <1>5, <1>9, <1>10, <1>11, <1>12, Zenon DEF Trips

-----------------------------------------------------------------------------
\* A request for a credential names the key of its arguments.
LEMMA MintKey ==
  ASSUME NEW op \in CredentialMethods \ {"MintJwt"}, NEW a
  PROVE  request(op, a).KeyId = a.KeyID
<1>1. /\ request("MintNatsUser", a) = MintNatsUser(a)
      /\ request("MintNatsAccount", a) = MintNatsAccount(a)
      /\ request("MintNatsOperator", a) = MintNatsOperator(a)
      /\ request("MintNatsSigner", a) = MintNatsSigner(a)
      /\ request("MintNatsServer", a) = MintNatsServer(a)
      /\ request("MintNatsCurve", a) = MintNatsCurve(a)
      /\ request("SignNatsJwt", a) = SignNatsJwt(a)
  BY Zenon DEF request
<1>2. /\ MintNatsUser(a).KeyId = a.KeyID /\ MintNatsAccount(a).KeyId = a.KeyID
      /\ MintNatsOperator(a).KeyId = a.KeyID /\ MintNatsSigner(a).KeyId = a.KeyID
      /\ MintNatsServer(a).KeyId = a.KeyID /\ MintNatsCurve(a).KeyId = a.KeyID
      /\ SignNatsJwt(a).KeyId = a.KeyID
  BY Zenon DEF MintNatsUser, MintNatsAccount, MintNatsOperator, MintNatsSigner, MintNatsServer,
               MintNatsCurve, SignNatsJwt
<1> QED
  BY <1>1, <1>2, Zenon DEF CredentialMethods

LEMMA TokenTrips ==
  ASSUME NEW op \in CredentialMethods \ {"MintJwt"}, NEW a, NEW m, NEW p, NEW k, NEW l,
         Made(op, a, m, p, k, l), NEW z \in FollowUp(op, a, result(op, m)), ~refuses(z.op, z.a)
  PROVE  Trips(z, op, a, result(op, m), k, l)
<1>1. PICK i, key, Q, E : i = Len(p) /\ key = a.KeyID /\ Q = request(op, a) /\ E = Expiry(Q)
  OBVIOUS
<1>2. rpc(op) = op /\ rpc("ValidateNatsJwt") = "ValidateNatsJwt"
  BY DEF rpc, CredentialMethods
<1>3. /\ LogOK(k) /\ LogOK(p) /\ Len(p) # 0 /\ i \in DOMAIN k /\ k[i].rpc = op
      /\ k[i].req = Q /\ m \in Response(op, Q, p)
  BY <1>1, <1>2, Zenon DEF Made
<1>4. E \subseteq 1 .. Two63 - 1
  BY <1>1, <1>3, Zenon DEF LogOK
<1>5. m \in CredentialResponse /\ m = [Token |-> Named(i), ExpiresAt |-> E]
  <2>1. Expiry(Q) \subseteq 1 .. Two63 - 1 /\ op \in CredentialMethods
    BY <1>1, <1>4, Zenon
  <2>2. m \in CredentialResponse /\ m = [Token |-> Named(Len(p)), ExpiresAt |-> Expiry(Q)]
    BY <1>3, <2>1, CredentialAnswered, Zenon
  <2> QED
    BY <1>1, <2>2
<1>6. m.Token = Named(i) /\ m.ExpiresAt = E /\ E \in Opt(Timestamp)
  BY <1>5 DEF CredentialResponse
<1>7. PICK was : was = result(op, m)
  OBVIOUS
<1>8. was.Token = Named(i)
      /\ was.ExpiresAt = IF m.ExpiresAt = {} THEN ZeroTime ELSE CHOOSE t \in m.ExpiresAt : TRUE
  <2>1. was = credentialFromProto(m)
    BY <1>7, Zenon DEF result, CredentialMethods
  <2> QED
    BY <1>6, <2>1, Zenon DEF credentialFromProto
<1>9. PICK signer, b : /\ signer = [keyID |-> key, natsPublicKey |-> ""]
                       /\ b = [JWT |-> Named(i), ExpectedType |-> 0, AllowedSigners |-> <<signer>>]
  OBVIOUS
<1>10. z.op = "ValidateNatsJwt" /\ z.a = b
  <2>1. z \in FollowUp(op, a, was)
    BY <1>7
  <2>2. z = Follow("ValidateNatsJwt",
                   [JWT |-> was.Token, ExpectedType |-> 0,
                    AllowedSigners |-> <<[keyID |-> a.KeyID, natsPublicKey |-> ""]>>])
    BY <2>1, FollowUpOfToken, Zenon
  <2>3. z = Follow("ValidateNatsJwt", b)
    BY <1>1, <1>8, <1>9, <2>2, Zenon
  <2> QED
    BY <2>3, FollowIs, Zenon
<1>11. b.JWT = Named(i) /\ b.AllowedSigners = <<signer>>
  BY <1>9, Zenon
<1>12. signer.keyID = key /\ key # ""
  <2>1. signer.keyID = key
    BY <1>9, Zenon
  <2>2. \A s : s = <<signer>> => DOMAIN s = {1} /\ s[1] = signer
    OBVIOUS
  <2>3. [keyID |-> "", natsPublicKey |-> ""] \notin
          {b.AllowedSigners[j] : j \in DOMAIN b.AllowedSigners}
    BY <1>10, Zenon DEF refuses
  <2>4. signer \in {b.AllowedSigners[j] : j \in DOMAIN b.AllowedSigners}
    BY <1>11, <2>2, Zenon
  <2> QED
    BY <1>9, <2>1, <2>3, <2>4, Zenon
<1>13. PICK q : q = ValidateNatsJwt(b)
  OBVIOUS
<1>14. q.Jwt = Named(i) /\ q.AllowedSigners = <<[KeyId |-> key]>>
  <2>1. signerToProto(signer) = [KeyId |-> key]
    BY <1>12, Zenon DEF signerToProto
  <2>2. /\ q.Jwt = b.JWT
        /\ q.AllowedSigners = [j \in DOMAIN b.AllowedSigners |-> signerToProto(b.AllowedSigners[j])]
    BY <1>13, Zenon DEF ValidateNatsJwt
  <2>3. PICK sent : sent = signerToProto(signer)
    OBVIOUS
  <2>4. DOMAIN <<signer>> = {1} /\ <<signer>>[1] = signer
    OBVIOUS
  <2>5. q.AllowedSigners = [j \in {1} |-> sent]
    BY <1>11, <2>2, <2>3, <2>4, Zenon
  <2>6. [j \in {1} |-> sent] = <<sent>>
    OBVIOUS
  <2> QED
    BY <1>11, <2>1, <2>2, <2>3, <2>5, <2>6, Zenon
<1>15. request("ValidateNatsJwt", b) = q
  BY <1>13, Zenon DEF request
<1>16. k[i].req.KeyId = key /\ k[i].rpc \in CredentialMethods
  BY <1>1, <1>3, MintKey, Zenon
<1>17. /\ \E n : n \in Response("ValidateNatsJwt", q, k)
       /\ \A n \in Response("ValidateNatsJwt", q, k) :
            /\ n.Valid \in BOOLEAN /\ (n.Valid <=> \A t \in Expiry(k[i].req) : t > Now)
            /\ n.ExpiresAtUnix = One(Expiry(k[i].req), 0)
  BY ONLY <1>3, <1>14, <1>16, ValidatesMinted
<1>18. ASSUME NEW n \in Response("ValidateNatsJwt", q, k)
       PROVE  Good("ValidateNatsJwt", result("ValidateNatsJwt", n), op, a, was, l)
  <2>1. PICK got, at : got = result("ValidateNatsJwt", n) /\ at = n.ExpiresAtUnix
    OBVIOUS
  <2>2. got.Valid = n.Valid /\ got.ExpiresAt = IF at # 0 THEN int64(at) ELSE ZeroTime
    <3>1. got = natsJwtValidationFromProto(n)
      BY <2>1, Zenon DEF result, CredentialMethods
    <3>2. /\ natsJwtValidationFromProto(n).Valid = n.Valid
          /\ natsJwtValidationFromProto(n).ExpiresAt =
               IF n.ExpiresAtUnix # 0 THEN int64(n.ExpiresAtUnix) ELSE ZeroTime
      BY DEF natsJwtValidationFromProto
    <3> QED
      BY <2>1, <3>1, <3>2, Zenon
  <2>3. n.Valid \in BOOLEAN /\ (n.Valid <=> \A t \in E : t > Now) /\ at = One(E, 0)
    BY <1>1, <1>3, <1>17, <2>1, Zenon
  <2>4. /\ got.ExpiresAt = was.ExpiresAt
        /\ n.Valid <=> (was.ExpiresAt = ZeroTime \/ was.ExpiresAt > Now)
    <3>1. CASE E = {}
      <4>1. was.ExpiresAt = ZeroTime
        BY <1>6, <1>8, <3>1, Zenon
      <4>2. at = 0
        BY <2>3, <3>1, Zenon DEF One
      <4> QED
        BY <2>2, <2>3, <3>1, <4>1, <4>2, Zenon
    <3>2. CASE E # {}
      <4>1. PICK t : E = {t}
        BY <1>6, <3>2 DEF Opt
      <4>2. (CHOOSE x \in E : TRUE) = t
        BY <4>1
      <4>3. was.ExpiresAt = t /\ at = t
        BY <1>6, <1>8, <2>3, <3>2, <4>2, Zenon DEF One
      <4>4. t # 0 /\ int64(t) = t /\ t # ZeroTime
        <5>1. t \in 1 .. Two63 - 1 /\ Two63 \in Nat /\ ZeroTime \in Int /\ ZeroTime < 0
          BY <1>4, <4>1, TimeAssumption
        <5> QED
          BY ONLY <5>1 DEF int64
      <4>5. n.Valid <=> t > Now
        BY <2>3, <4>1, Zenon
      <4> QED
        BY <2>2, <4>3, <4>4, <4>5, Zenon
    <3> QED
      BY <3>1, <3>2
  <2>5. got.Valid = (was.ExpiresAt = ZeroTime \/ was.ExpiresAt > Now)
    BY <2>2, <2>3, <2>4, Zenon
  <2>6. "ValidateNatsJwt" \notin {"Decrypt", "UnwrapEnvelope", "DecryptNatsCurve", "Verify",
                                  "VerifyWithAlgorithm", "GetSecret", "GetPublicKey"}
    OBVIOUS
  <2> QED
    BY <2>1, <2>4, <2>5, <2>6, Zenon DEF Good
<1> QED
  BY <1>2, <1>7, <1>10, <1>15, <1>17, <1>18, Zenon DEF Trips

\* Whatever a call made, the calls made of its result find.
LEMMA AllTrip ==
  ASSUME NEW op, NEW a, NEW m, NEW p, NEW k, NEW l, Made(op, a, m, p, k, l),
         NEW z \in FollowUp(op, a, result(op, m)), ~refuses(z.op, z.a)
  PROVE  Trips(z, op, a, result(op, m), k, l)
<1>1. op \in Continued
  BY OnlyContinued, Zenon
<1>2. CASE op = "Encrypt"
  BY <1>2, EncryptTrips, Zenon
<1>3. CASE op = "WrapEnvelope"
  BY <1>3, WrapTrips, Zenon
<1>4. CASE op = "EncryptNatsCurve"
  BY <1>4, CurveTrips, Zenon
<1>5. CASE op \in {"Sign", "SignWithAlgorithm"}
  BY <1>5, SignTrips, Zenon
<1>6. CASE op \in {"SetSecret", "RotateSecret"}
  BY <1>6, SecretTrips, Zenon
<1>7. CASE op \in {"NewKey", "Import"}
  BY <1>7, KeyTrips, Zenon
<1>8. CASE op \in CredentialMethods \ {"MintJwt"}
  BY <1>8, TokenTrips, Zenon
<1> QED
  BY <1>1, <1>2, <1>3, <1>4, <1>5, <1>6, <1>7, <1>8, Zenon DEF Continued
=============================================================================
