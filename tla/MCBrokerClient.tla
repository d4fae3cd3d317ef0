--------------------------- MODULE MCBrokerClient ---------------------------
(***************************************************************************)
(* Pairs of calls: two of one method that differ in one argument, two that *)
(* meet at the broker, or a call and what is made of its result.           *)
(***************************************************************************)
EXTENDS BrokerClient

MCZeroTime == -1000

MCNamed(i) == ToString(i)

MCLen(b) == IF b = "short" THEN 31 ELSE 32

\* A base argument and those that differ from it in one field.
Vary(base, other) ==
  {base} \cup {[base EXCEPT ![f] = other[f]] : f \in DOMAIN other}

Call(op, args) == {[client |-> "basil", op |-> op, a |-> a, deadline |-> FALSE] : a \in args}

Object(text) == [go |-> "text", padded |-> FALSE, json |-> "object", text |-> text]
NoClaims == [go |-> "nil", padded |-> FALSE, json |-> "empty", text |-> ""]
Array == [go |-> "value", padded |-> FALSE, json |-> "other", text |-> "a"]

Seed(m) == {[kind |-> "ed25519Seed", bytes |-> m]}
Der(m) == {[kind |-> "pkcs8DER", bytes |-> m]}
Entry(k, m) == [KeyID |-> k, KeyType |-> 1, Material |-> m]

Keys ==
  Call("NewKey", {[keyID |-> "k", keyType |-> 1], [keyID |-> "k", keyType |-> 13]})
  \cup Call("Import", {[keyID |-> "k", keyType |-> 1, material |-> m] :
                         m \in {Seed("m"), Der("m"), {}}})
  \cup Call("ImportSet", {[entries |-> <<Entry("k", Seed("m")), Entry("j", Der("m"))>>],
                          [entries |-> <<Entry("k", Seed("m")), Entry("j", {})>>]})

Sealing ==
  Call("Sign", {[keyID |-> "k", message |-> "m"]})
  \cup Call("SignWithAlgorithm",
            Vary([keyID |-> "k", message |-> "m", alg |-> 1], [keyID |-> "j", message |-> "n", alg |-> 2]))
  \cup Call("Encrypt",
            Vary([keyID |-> "k", alg |-> 1, plaintext |-> "p", aad |-> {}],
                 [keyID |-> "j", alg |-> 2, plaintext |-> "q", aad |-> {""}]))
  \cup Call("WrapEnvelope",
            Vary([keyID |-> "k", kem |-> 1, env |-> 1, plaintext |-> "p", aad |-> {}],
                 [keyID |-> "j", kem |-> 4, env |-> 2, plaintext |-> "q", aad |-> {""}]))
  \cup Call("EncryptNatsCurve",
            Vary([KeyID |-> "k", RecipientPublicXKey |-> "j", Plaintext |-> "p"],
                 [KeyID |-> "j", RecipientPublicXKey |-> "k", Plaintext |-> "q"]))
  \cup Call("UnsealCose",
            Vary([keyID |-> "k", coseEncrypt |-> "c", externalAAD |-> {}],
                 [keyID |-> "j", coseEncrypt |-> "d", externalAAD |-> {""}]))

Secrets ==
  Call("SetSecret", {[secretID |-> "s", value |-> v] : v \in {"v", ""}})
  \cup Call("RotateSecret", {[secretID |-> "s"]})
  \cup Call("GetSecret", {[secretID |-> "s", version |-> {}]})
  \cup Call("ListCatalog", {[prefix |-> p] : p \in {{}, {""}, {"k"}}})

Minting ==
  Call("MintJwt",
       Vary([KeyID |-> "k", Subject |-> "", TTL |-> 0, Claims |-> NoClaims],
            [Subject |-> "s", TTL |-> 60, Claims |-> Object("c")])
       \cup {[KeyID |-> "k", Subject |-> "", TTL |-> -60, Claims |-> Array]})
  \cup Call("MintNatsUser",
            Vary([KeyID |-> "k", SubjectUserNKey |-> "u", Name |-> "n", TTL |-> -1, PubAllow |-> <<>>,
                  PubDeny |-> <<>>, SubAllow |-> <<>>, SubDeny |-> <<>>, IssuerAccount |-> ""],
                 [SubjectUserNKey |-> "v", Name |-> "o", TTL |-> 60, PubAllow |-> <<"x">>,
                  PubDeny |-> <<"x">>, SubAllow |-> <<"x">>, SubDeny |-> <<"x">>, IssuerAccount |-> "A"]))
  \cup Call("MintNatsAccount",
            Vary([KeyID |-> "k", SubjectAccountNKey |-> "a", Name |-> "n", TTL |-> 0, SigningKeys |-> <<>>],
                 [SubjectAccountNKey |-> "b", Name |-> "o", TTL |-> 60, SigningKeys |-> <<"x">>]))
  \cup Call("MintNatsOperator",
            Vary([KeyID |-> "k", SubjectOperatorNKey |-> "", Name |-> "n", TTL |-> 0, SigningKeys |-> <<>>,
                  AccountServerURL |-> "", SystemAccount |-> ""],
                 [SubjectOperatorNKey |-> "o", Name |-> "o", SigningKeys |-> <<"x">>,
                  AccountServerURL |-> "o", SystemAccount |-> "o"]))
  \cup Call("MintNatsSigner", Vary([KeyID |-> "k", SubjectNKey |-> "a", Name |-> "b", TTL |-> 0],
                                   [SubjectNKey |-> "b", Name |-> "a"]))
  \cup Call("MintNatsServer", Vary([KeyID |-> "k", SubjectServerNKey |-> "a", Name |-> "b", TTL |-> 0],
                                   [SubjectServerNKey |-> "b", Name |-> "a"]))
  \cup Call("MintNatsCurve", Vary([KeyID |-> "k", SubjectCurveNKey |-> "a", Name |-> "b", TTL |-> 0],
                                  [SubjectCurveNKey |-> "b", Name |-> "a"]))
  \cup Call("SignNatsJwt",
            Vary([KeyID |-> "k", Claims |-> Object("c"), ExpectedType |-> 0, TTL |-> 0,
                  ExpiresAt |-> ZeroTime, IssuedAt |-> ZeroTime, JtiMode |-> 0],
                 [Claims |-> Object("d"), ExpectedType |-> 1, TTL |-> 60, ExpiresAt |-> Now - 1,
                  IssuedAt |-> Now, JtiMode |-> 1])
            \cup {[KeyID |-> "k", Claims |-> NoClaims, ExpectedType |-> 0, TTL |-> 60,
                   ExpiresAt |-> Now, IssuedAt |-> ZeroTime, JtiMode |-> 0],
                  [KeyID |-> "k", Claims |-> Object("c"), ExpectedType |-> 0, TTL |-> 60,
                   ExpiresAt |-> Now, IssuedAt |-> ZeroTime, JtiMode |-> 0]})
  \cup Call("ValidateNatsJwt",
            {[JWT |-> "x", AllowedSigners |-> s, ExpectedType |-> 0] :
               s \in {<<>>, <<[keyID |-> "k", natsPublicKey |-> ""]>>,
                      <<[keyID |-> "", natsPublicKey |-> "k"]>>,
                      <<[keyID |-> "", natsPublicKey |-> ""]>>}})
  \cup Call("IssueCertificate",
            Vary([IssuerKeyID |-> "k", CommonName |-> "c", DNSSANs |-> <<>>, IPSANs |-> <<>>, TTL |-> 0],
                 [CommonName |-> "d", DNSSANs |-> <<"x">>, IPSANs |-> <<"x">>, TTL |-> 60]))

Administration ==
  Call("GetInvocationChallenge",
       {[jkt |-> j, courierObservedSource |-> s] : j \in {"j", "short"}, s \in {"", "s"}})
  \cup Call("GetInvocationCapabilities", {<<>>})
  \cup Call("Reload", {[check |-> TRUE], [check |-> FALSE]})
  \cup Call("Explain", Vary([subject |-> "a", op |-> "b", key |-> "c"],
                            [subject |-> "b", op |-> "c", key |-> "a"]))
  \cup Call("Revoke", Vary([trustDomain |-> "a", jti |-> "b", expiresAtUnix |-> 1],
                           [trustDomain |-> "b", jti |-> "a", expiresAtUnix |-> 2]))
  \cup Call("Health", {<<>>}) \cup Call("Readiness", {<<>>}) \cup Call("Status", {<<>>})

\* A call with a deadline of its own, and one of each of spiffe's methods.
Deadlines == {[client |-> "basil", op |-> "RotateSecret", a |-> [secretID |-> "s"], deadline |-> TRUE]}

Spiffe ==
  {[client |-> "spiffe", op |-> op, a |-> [Audience |-> "a", ExtraAudiences |-> <<>>],
    deadline |-> op = "FetchJWTSVID"] : op \in SpiffeMethods}

MCWorkload == Keys \cup Sealing \cup Secrets \cup Minting \cup Administration \cup Deadlines \cup Spiffe

Meeting == {"NewKey", "Import", "SetSecret", "RotateSecret", "GetSecret", "ListCatalog"}

MCTogether(v, w) ==
  \/ v.op = w.op /\ Cardinality({f \in DOMAIN v.a : v.a[f] # w.a[f]}) <= 1
  \/ {v.op, w.op} \subseteq Meeting

MCOptionLists ==
  {<<>>,
   <<[timeout |-> {}, dialOptions |-> <<[sets |-> "dialer", to |-> "other"],
                                       [sets |-> "address", to |-> "other"],
                                       [sets |-> "authority", to |-> "other"]>>],
     [timeout |-> {30}, dialOptions |-> <<>>], [timeout |-> {0}, dialOptions |-> <<>>]>>}

MCDials ==
  [kind : {"basil"}, path : {"", "sock"}, opts : MCOptionLists]
    \cup [kind : {"spiffe"}, path : {"", "sock", "unix://sock"}, opts : MCOptionLists]

MCRejections ==
  {[code |-> "PermissionDenied", details |-> <<{}, {[Reason |-> "UNAUTHORIZED", Op |-> "op"]}>>],
   [code |-> "Unimplemented", details |-> <<>>]}

MCVisible(prefix) ==
  LET key == [Name |-> "k.a", Kind |-> 1, KeyType |-> {13}, LatestVersion |-> 1]
      value == [Name |-> "v.a", Kind |-> 2, KeyType |-> {}, LatestVersion |-> 2]
  IN IF prefix = {"k"} THEN <<key>> ELSE <<key, value>>

MCAnswers(r) ==
  CASE r = "UnsealCose" -> {[Plaintext |-> "p"], [Plaintext |-> ""]}
    [] r = "IssueCertificate" ->
         Vary([CertChainDer |-> <<"l">>, PrivateKeyDer |-> "p", CaChainDer |-> <<>>],
              [CertChainDer |-> <<"l", "i">>, CaChainDer |-> <<"c">>])
    [] r = "GetInvocationChallenge" ->
         {[Challenge |-> c, Generation |-> 1, ExpiresAtUnix |-> Now + 60] : c \in {"c", "short"}}
    [] r = "GetInvocationCapabilities" ->
         {[ListenerProfile |-> p, RequireChallenge |-> q, CourierProtocolVersion |-> 1] :
            p \in {0, 1, 2, 3}, q \in BOOLEAN}
    [] r = "Reload" ->
         Vary([Applied |-> TRUE, Checked |-> FALSE, PreviousGeneration |-> 1, NewGeneration |-> 2,
               KeyCount |-> 3, GrantCount |-> 4, Rejection |-> {}],
              [Applied |-> FALSE, Rejection |-> {[Reason |-> "r", Message |-> "m"]},
               KeyCount |-> 4])
    [] r = "Explain" ->
         UNION {Vary([Subject |-> "a", Op |-> "b", Key |-> "c", Decision |-> d, Via |-> "v",
                      Reason |-> "", MatchedRule |-> {}],
                     [Decision |-> 2, Reason |-> "v",
                      MatchedRule |-> {[Rule |-> "r", Via |-> "v", Action |-> "a",
                                        Target |-> "t", Subject |-> "s"]}]) : d \in {0, 1, 3}}
    [] r = "Revoke" ->
         Vary([TrustDomain |-> "a", Jti |-> "b", ExpiresAtUnix |-> 1, Persisted |-> TRUE],
              [TrustDomain |-> "b", Jti |-> "a", Persisted |-> FALSE])
    [] r = "Health" -> {[Alive |-> a, Version |-> "1"] : a \in BOOLEAN}
    [] r = "Readiness" ->
         Vary([Ready |-> TRUE, Reason |-> 0, Generation |-> 1, KeysTotal |-> 4, KeysPresent |-> 3,
               KeysRequiredMissing |-> 2, KeysOptionalMissing |-> 1],
              [Ready |-> FALSE, KeysPresent |-> 2, KeysOptionalMissing |-> 2])
    [] r = "Status" -> {[Backend |-> b, Version |-> "1", Protocol |-> 1] : b \in {"1", "2"}}
    [] OTHER -> {[svid |-> "x"]}
=============================================================================
