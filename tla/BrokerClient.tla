---------------------------- MODULE BrokerClient ----------------------------
(***************************************************************************)
(* basil.Client (basil/client.go, errors.go) and the calls made with it,   *)
(* several at a time, on one connection that may break, time out, be       *)
(* cancelled or be closed while the broker carries a request out.          *)
(* spiffe.Client is made the same way and makes its calls under the same   *)
(* timeout and with the same error conversion, so it is a second kind of   *)
(* client here.                                                            *)
(*                                                                         *)
(* A call passes through idle, waiting (in the RPC or in the loop on its   *)
(* stream) and returned.  What becomes of its request at the broker is in  *)
(* wire, which outlives the call: an error ends the call, not the request. *)
(* The broker is external, see Broker.                                     *)
(***************************************************************************)
EXTENDS Broker, SpiffeOptions

CONSTANTS
  NumCalls,       \* bound: the calls made, numbered in the order they start
  Workload,       \* the calls made: [client, op, a (its arguments), deadline (has ctx one)]
  Together(_, _), \* bound: the pairs of calls that are made
  DefaultTimeout, \* of client.go and spiffe.go
  Dials,          \* what Dial is called with: [kind (the package), path, opts]
  Rejections,     \* the statuses the broker refuses requests with
  Visible(_)      \* the catalog entries it lists, of an optional prefix

SpiffeMethods ==
  {"FetchX509SVID", "FetchX509SVIDs", "FetchX509Bundles", "FetchX509Context",
   "FetchJWTSVID", "FetchJWTSVIDs", "FetchJWTBundles", "ValidateJWTSVID"}

\* s is a sequence.
Slice(s) == Len(s) \in Nat /\ s = [k \in 1 .. Len(s) |-> s[k]]

\* Calls and options are of Go's types.  Every expiry that is asked for is
\* after 1970 and before the end of int64.
ASSUME ClientAssumption ==
  /\ NumCalls \in Nat /\ DefaultTimeout \in Nat \ {0}
  /\ \A w \in Workload :
       /\ w.client \in {"basil", "spiffe"}
       /\ w.client = "basil" => w.op \in DOMAIN Arguments /\ w.a \in Arguments[w.op]
       /\ w.client = "spiffe" => w.op \in SpiffeMethods
       /\ w.op \in CredentialMethods => Now + w.a.TTL < Two63
       /\ w.op = "SignNatsJwt" => w.a.ExpiresAt \in {ZeroTime} \cup 1 .. Two63 - 1
  /\ \A d \in Dials :
       /\ d.kind \in {"basil", "spiffe"}
       /\ Slice(d.opts) /\ \A k \in DOMAIN d.opts : Slice(d.opts[k].dialOptions)

\* The broker names the bytes it makes up so that they differ, answers and
\* refuses with messages of the types of its services, and refuses as
\* DECRYPT_FAILED only what does not decrypt.
ASSUME BrokerAssumption ==
  /\ \A i, j \in 1 .. NumCalls : Named(i) \in Bytes /\ (Named(i) = Named(j) => i = j)
  /\ \A r \in Undecided : Answers(r) \subseteq Methods[r].out
  /\ \A w \in Workload : w.op = "ListCatalog" => Visible(w.a.prefix) \in Seq(CatalogEntry)
  /\ \A st \in Rejections :
       /\ st.details \in Seq(Opt(BrokerErrorInfo))
       /\ \A k \in DOMAIN st.details : \A i \in st.details[k] : i.Reason # "DECRYPT_FAILED"

Calls == 1 .. NumCalls

VARIABLES
  client,  \* what Dial has returned
  call,    \* each call: what it was asked and what it has returned
  wire,    \* the request of each call, the broker's replies to it
  log      \* external: what the broker has carried out, in order

vars == <<client, call, wire, log>>

-----------------------------------------------------------------------------
\* errors.go

\* A gRPC status: its code and details, of which {} is one of another type.
GRPCStatus(code, details) == [code |-> code, details |-> details]

Err(kind, code, info) ==
  [kind |-> kind, Code |-> code, Reason |-> info.Reason, Op |-> info.Op]

noInfo == [Reason |-> "", Op |-> ""]
nil == Err("nil", "", noInfo)
clientError == Err("plain", "", noInfo)   \* fmt.Errorf

\* Mutant of FromError: a status without detail gets its code as the reason.
FromErrorCodeAsReason(st) ==
  LET infos == {k \in DOMAIN st.details : st.details[k] # {}}
  IN Err("StatusError", st.code,
         IF infos = {} THEN [Reason |-> st.code, Op |-> ""]
         ELSE CHOOSE i \in st.details[Min(infos)] : TRUE)

\* The first BrokerErrorInfo of the details, if there is one, decides.
FromError(st) ==
  LET infos == {k \in DOMAIN st.details : st.details[k] # {}}
  IN Err("StatusError", st.code,
         IF infos = {} THEN noInfo ELSE CHOOSE i \in st.details[Min(infos)] : TRUE)

-----------------------------------------------------------------------------
\* client.go and spiffe.go: making the client.

\* An Option sets the timeout or adds dial options, [sets, to] each.
applyOption(cfg, opt) ==
  [timeout |-> IF opt.timeout = {} THEN cfg.timeout ELSE CHOOSE d \in opt.timeout : TRUE,
   dialOptions |-> cfg.dialOptions \o opt.dialOptions]

\* The config after the first n options.
configured(opts) ==
  LET config[n \in 0 .. Len(opts)] ==
        IF n = 0 THEN [timeout |-> DefaultTimeout, dialOptions |-> <<>>]
        ELSE applyOption(config[n - 1], opts[n])
  IN config

fixedOptions(kind, socketPath) ==
  IF kind = "basil"
  THEN <<[sets |-> "credentials", to |-> "insecure"], [sets |-> "authority", to |-> "localhost"],
         [sets |-> "dialer", to |-> socketPath]>>
  ELSE boundOptions(socketPath)

\* Mutant of dialOptions: the caller's options come last.
DialOptionsUserLast(kind, socketPath, cfg) == fixedOptions(kind, socketPath) \o cfg.dialOptions

dialOptions(kind, socketPath, cfg) == cfg.dialOptions \o fixedOptions(kind, socketPath)

\* External: the last option that sets something decides.
Setting(opts, what) ==
  opts[Max({k \in DOMAIN opts : opts[k].sets = what})].to

NoClient == [kind |-> "none", state |-> "none", timeout |-> 0, path |-> "", options |-> <<>>]

\* There must be a path, and gRPC or go-spiffe (external) may not accept it or
\* the options.
Dial(kind, socketPath, opts) ==
  /\ client.state \in {"none", "failed"}
  /\ \/ client' = [NoClient EXCEPT !.state = "failed"]
     \/ /\ socketPath # ""
        /\ LET cfg == configured(opts)[Len(opts)]
           IN client' = [kind |-> kind, state |-> "open", timeout |-> cfg.timeout,
                         path |-> socketPath, options |-> dialOptions(kind, socketPath, cfg)]
  /\ UNCHANGED <<call, wire, log>>

-----------------------------------------------------------------------------
\* The calls.

\* Mutant of withTimeout: the timeout is for contexts that have a deadline.
WithTimeoutInverted(w) == w.deadline /\ client.timeout > 0

\* Has the context the RPC gets a deadline?
withTimeout(w) == w.deadline \/ client.timeout > 0

NoCall ==
  [state |-> "idle", client |-> "", op |-> "", a |-> <<>>, deadline |-> FALSE, after |-> 0,
   timed |-> FALSE, entries |-> <<>>, err |-> nil, result |-> {}]

NoRequest == [req |-> {}, handled |-> FALSE, replies |-> <<>>]

Return(c, err, res) ==
  call' = [call EXCEPT ![c].state = "returned", ![c].err = err, ![c].result = res]

\* A method is called: it refuses its arguments, finds the connection closed,
\* or sends its request.  after is the call whose result the arguments hold.
Start(c, w, after) ==
  LET begun == [NoCall EXCEPT !.client = w.client, !.op = w.op, !.a = w.a,
                              !.deadline = w.deadline, !.after = after]
  IN /\ client.state \in {"open", "closed"} /\ client.kind = w.client
     /\ call[c].state = "idle"
     /\ \A d \in 1 .. c - 1 : call[d].state # "idle"
     /\ \/ /\ refuses(w.op, w.a)
           /\ call' = [call EXCEPT ![c] =
                [begun EXCEPT !.state = "returned", !.err = clientError]]
           /\ UNCHANGED wire
        \/ /\ ~refuses(w.op, w.a) /\ client.state = "closed"
           /\ call' = [call EXCEPT ![c] =
                [begun EXCEPT !.state = "returned", !.err = FromError(GRPCStatus("Canceled", <<>>))]]
           /\ UNCHANGED wire
        \/ /\ ~refuses(w.op, w.a) /\ client.state = "open"
           /\ call' = [call EXCEPT ![c] =
                [begun EXCEPT !.state = "waiting", !.timed = withTimeout(w)]]
           /\ wire' = [wire EXCEPT ![c].req =
                {IF w.op \in SpiffeMethods THEN w.a ELSE request(w.op, w.a)}]
     /\ UNCHANGED <<client, log>>

\* Mutant of failed: the catalog ends where its stream fails.
FailedEndsCatalog(c, st) ==
  IF call[c].op = "ListCatalog" THEN Return(c, nil, {call[c].entries})
  ELSE Return(c, FromError(st), {})

\* Mutant of failed: the entries that came are returned with the error.
FailedWithEntries(c, st) == Return(c, FromError(st), {call[c].entries})

\* The RPC, or the receive of ListCatalog's loop, returns an error.
failed(c, st) == Return(c, FromError(st), {})

\* The reply arrives: the RPC returns, or ListCatalog's loop takes one more
\* entry, or ends.  What go-spiffe cannot parse is a plain error, which
\* FromError returns as it is.  The last reply is kept, for the properties.
Receive(c) ==
  /\ call[c].state = "waiting" /\ wire[c].replies # <<>>
  /\ LET reply == Head(wire[c].replies)
         op == call[c].op
     IN \/ /\ reply.kind = "message" /\ op = "ListCatalog"
           /\ call' = [call EXCEPT ![c].entries =
                         Append(@, catalogEntryFromProto(reply.message))]
        \/ /\ reply.kind = "message" /\ op # "ListCatalog"
           /\ \/ /\ unusable(op, reply.message) \/ op \in SpiffeMethods
                 /\ Return(c, clientError, {})
              \/ /\ ~unusable(op, reply.message)
                 /\ Return(c, nil, {IF op \in SpiffeMethods THEN reply.message
                                    ELSE result(op, reply.message)})
        \/ reply.kind = "EOF" /\ Return(c, nil, {call[c].entries})
        \/ reply.kind = "status" /\ failed(c, reply.status)
  /\ wire' = [wire EXCEPT ![c].replies = IF Len(@) > 1 THEN Tail(@) ELSE @]
  /\ UNCHANGED <<client, log>>

\* The connection breaks, the deadline passes or the caller cancels: gRPC
\* ends the call, whatever the broker does with the request.
Fail(c, code) ==
  /\ call[c].state = "waiting"
  /\ failed(c, GRPCStatus(code, <<>>))
  /\ wire' = [wire EXCEPT ![c].replies = <<>>]
  /\ UNCHANGED <<client, log>>

Expire(c) == call[c].timed /\ Fail(c, "DeadlineExceeded")
Cancel(c) == Fail(c, "Canceled")
Break(c) == Fail(c, "Unavailable")

\* Close, which also ends the calls that are waiting.
Close ==
  /\ client.state = "open"
  /\ client' = [client EXCEPT !.state = "closed"]
  /\ call' = [c \in Calls |->
       IF call[c].state # "waiting" THEN call[c]
       ELSE [call[c] EXCEPT !.state = "returned",
                            !.err = FromError(GRPCStatus("Canceled", <<>>))]]
  /\ wire' = [c \in Calls |->
       IF call[c].state # "waiting" THEN wire[c] ELSE [wire[c] EXCEPT !.replies = <<>>]]
  /\ UNCHANGED log

-----------------------------------------------------------------------------
\* External: the broker's side of a call.

Message(m) == [kind |-> "message", message |-> m]
Failure(st) == [kind |-> "status", status |-> st]
EOF == [kind |-> "EOF"]

Logged(c, r, q, keys) ==
  IF r \in Mutations \cup Issues
  THEN Append(log, [call |-> c, rpc |-> r, req |-> q, keys |-> keys]) ELSE log

\* The broker carries a request out, part of it (the imports of a set are
\* sequential), or refuses it, whether anyone still waits for the reply or not.
Handle(c) ==
  LET r == rpc(call[c].op)
      q == CHOOSE q \in wire[c].req : TRUE
      Replies(rs) ==
        wire' = [wire EXCEPT ![c].handled = TRUE,
                             ![c].replies = IF call[c].state = "waiting" THEN rs ELSE <<>>]
      keys == IF r = "ImportSet" THEN Len(q.Entries) ELSE 1
  IN /\ wire[c].req # {} /\ ~wire[c].handled
     /\ \/ /\ r # "ListCatalog"
           /\ \E m \in Response(r, q, Logged(c, r, q, keys)) : Replies(<<Message(m)>>)
           /\ log' = Logged(c, r, q, keys)
        \/ /\ r = "ListCatalog"
           /\ LET es == Visible(q.Prefix)
                  sent(n) == [i \in 1 .. n |-> Message(es[i])]
              IN \/ Replies(sent(Len(es)) \o <<EOF>>)
                 \/ \E n \in 0 .. Len(es), st \in Rejections : Replies(sent(n) \o <<Failure(st)>>)
           /\ UNCHANGED log
        \/ /\ r = "ImportSet"
           /\ \E n \in 1 .. keys - 1 : log' = Logged(c, r, q, n)
           /\ \E st \in Rejections : Replies(<<Failure(st)>>)
        \/ /\ \E st \in Rejections : Replies(<<Failure(st)>>)
           /\ UNCHANGED log
        \/ /\ r # "ListCatalog" /\ Response(r, q, Logged(c, r, q, keys)) = {}
           /\ Replies(<<Failure(GRPCStatus("InvalidArgument",
                                          <<{[Reason |-> "DECRYPT_FAILED", Op |-> r]}>>))>>)
           /\ UNCHANGED log
     /\ UNCHANGED <<client, call>>

-----------------------------------------------------------------------------
\* The calls whose result another call is made of.
Continued ==
  {"Encrypt", "WrapEnvelope", "EncryptNatsCurve", "Sign", "SignWithAlgorithm", "SetSecret",
   "RotateSecret", "NewKey", "Import"} \cup (CredentialMethods \ {"MintJwt"})

\* What a caller does next with the result of a call of op with a: take back
\* what it sealed, check what it signed or minted, read what it stored.
FollowUp(op, a, res) ==
  LET Next_(then, args) == [client |-> "basil", op |-> then, a |-> args, deadline |-> FALSE]
  IN CASE op = "Encrypt" ->
            {Next_("Decrypt", [keyID |-> a.keyID, ct |-> {res}, aad |-> a.aad])}
       [] op = "WrapEnvelope" ->
            {Next_("UnwrapEnvelope", [keyID |-> a.keyID, env |-> {res}, aad |-> a.aad])}
       [] op = "EncryptNatsCurve" ->
            {Next_("DecryptNatsCurve", [KeyID |-> a.RecipientPublicXKey,
                                        SenderPublicXKey |-> a.KeyID, Ciphertext |-> res])}
       [] op = "Sign" ->
            {Next_("Verify", [keyID |-> a.keyID, message |-> a.message, signature |-> res])}
       [] op = "SignWithAlgorithm" ->
            {Next_("VerifyWithAlgorithm", [keyID |-> a.keyID, message |-> a.message,
                                           signature |-> res, alg |-> a.alg])}
       [] op \in {"SetSecret", "RotateSecret"} ->
            {Next_("GetSecret", [secretID |-> a.secretID, version |-> v]) : v \in {{}, {res}}}
       [] op \in {"NewKey", "Import"} ->
            {Next_("GetPublicKey", [keyID |-> a.keyID, version |-> v]) : v \in {{}, {1}}}
       [] op \in CredentialMethods \ {"MintJwt"} ->
            {Next_("ValidateNatsJwt",
                   [JWT |-> res.Token, ExpectedType |-> 0,
                    AllowedSigners |-> <<[keyID |-> a.KeyID, natsPublicKey |-> ""]>>])}
       [] op \notin Continued -> {}

FollowUps(d) == UNION {FollowUp(call[d].op, call[d].a, res) : res \in call[d].result}

Init ==
  /\ client = NoClient
  /\ call = [c \in Calls |-> NoCall]
  /\ wire = [c \in Calls |-> NoRequest]
  /\ log = <<>>

Next ==
  \/ \E d \in Dials : Dial(d.kind, d.path, d.opts)
  \/ \E c \in Calls : \E d \in 0 .. c - 1 :
       \E w \in IF d = 0 THEN {w \in Workload : \A e \in 1 .. c - 1 : Together(call[e], w)}
                ELSE FollowUps(d) : Start(c, w, d)
  \/ \E c \in Calls : Receive(c) \/ Expire(c) \/ Cancel(c) \/ Break(c) \/ Handle(c)
  \/ Close

\* Timers fire.  Nothing else is sure to happen.
Spec == Init /\ [][Next]_vars /\ \A c \in Calls : WF_vars(Expire(c))

-----------------------------------------------------------------------------
\* Every request and every reply is a message of the RPC's type, and every
\* call is in one of its states, with a result exactly when it succeeded.
ClientTypeOK ==
  /\ client.state \in {"none", "failed", "open", "closed"}
  /\ \A c \in Calls :
       LET r == rpc(call[c].op)
           Out == IF r = "ListCatalog" THEN CatalogEntry ELSE Methods[r].out
       IN /\ call[c].state \in {"idle", "waiting", "returned"}
          /\ (call[c].result # {}) = (call[c].state = "returned" /\ call[c].err = nil)
          /\ call[c].op \in DOMAIN Arguments => call[c].a \in Arguments[call[c].op]
          /\ r \in DOMAIN Methods =>
               /\ wire[c].req \in Opt(Methods[r].in)
               /\ \A i \in DOMAIN wire[c].replies :
                    wire[c].replies[i].kind = "message" => wire[c].replies[i].message \in Out

\* What a method's arguments mean: a lifetime that is not positive is none,
\* and white space around claims is nothing.
Asked(a) ==
  [f \in DOMAIN a |->
     CASE f = "TTL" -> IF a.TTL > 0 THEN a.TTL ELSE 0
       [] f = "Claims" -> IF a.Claims.go = "nil" THEN "" ELSE a.Claims.text
       [] OTHER -> a[f]]

\* What a response means: a key type that is not known is none.
Told(m) ==
  [f \in DOMAIN m |-> IF f = "KeyType" THEN keyTypeFromProto(m.KeyType) ELSE m[f]]

\* Two calls of a method that ask for different things send different
\* requests, and two different answers are different results: none of the
\* conversions of basil/*.go drops a field, takes one for another, or takes
\* absent for empty.
NothingLost ==
  \A c, d \in Calls :
    (call[c].op = call[d].op /\ client.kind = "basil") =>
      /\ (wire[c].req # {} /\ wire[c].req = wire[d].req) => Asked(call[c].a) = Asked(call[d].a)
      /\ (/\ call[c].op # "ListCatalog"
          /\ call[c].result # {} /\ call[c].result = call[d].result)
           => Told(wire[c].replies[1].message) = Told(wire[d].replies[1].message)

\* What call x is to get, got, after the call made, which returned was.
AsMade(x, got, made, was, l) ==
  CASE x.op \in {"Decrypt", "UnwrapEnvelope"} -> got = made.a.plaintext
    [] x.op = "DecryptNatsCurve" -> got = made.a.Plaintext
    [] x.op \in {"Verify", "VerifyWithAlgorithm"} -> got
    [] x.op = "GetSecret" ->
         /\ got.Version >= was
         /\ (made.op = "SetSecret" /\ got.Version = was) => got.Value = made.a.value
    [] x.op = "GetPublicKey" ->
         /\ got.KeyID = was.KeyID
         /\ Cardinality(PublicKeys(l, was.KeyID)) = 1 => got.Bytes = was.PublicKey
    [] x.op = "ValidateNatsJwt" ->
         /\ got.ExpiresAt = was.ExpiresAt
         /\ got.Valid = (was.ExpiresAt = ZeroTime \/ was.ExpiresAt > Now)

\* What a call made, a later call finds: Decrypt and UnwrapEnvelope open what
\* Encrypt and WrapEnvelope returned, Verify accepts what Sign returned,
\* GetSecret reads the version SetSecret named, GetPublicKey the key that is
\* there, ValidateNatsJwt accepts a minted token that has not expired and
\* gives its expiry - unless the call fails for another reason.
RoundTrips ==
  \A c \in Calls :
    (call[c].after # 0 /\ call[c].state = "returned") =>
      LET made == call[call[c].after]
          got == CHOOSE x \in call[c].result : TRUE
          was == CHOOSE x \in made.result : TRUE
      IN /\ call[c].err.Reason # "DECRYPT_FAILED"
         /\ call[c].err = nil => AsMade(call[c], got, made, was, log)

\* What the broker has done for a call that returned.  An error with a
\* reason: nothing, or a part of the set to import.  No error: all of it,
\* once.  Only an error without a reason leaves it open.
ErrorTellsEffect ==
  \A c \in Calls :
    LET mine == {i \in DOMAIN log : log[i].call = c}
        r == rpc(call[c].op)
    IN /\ Cardinality(mine) <= 1
       /\ call[c].state = "returned" =>
            /\ call[c].err.Reason # "" =>
                 \A i \in mine : r = "ImportSet" /\ log[i].keys < Len(call[c].a.entries)
            /\ (call[c].err = nil /\ r \in Mutations) =>
                 \E i \in mine : r = "ImportSet" => log[i].keys = Len(call[c].a.entries)

\* A minted credential expires when it was asked to and then only: a
\* lifetime of zero, or a negative one, mints one that never expires.
ExpiryAsAsked ==
  \A c \in Calls :
    (call[c].op \in CredentialMethods /\ call[c].result # {}) =>
      LET a == call[c].a
          absolute == IF call[c].op = "SignNatsJwt" THEN a.ExpiresAt ELSE ZeroTime
      IN \A res \in call[c].result :
           res.ExpiresAt = IF a.TTL > 0 THEN Now + a.TTL ELSE absolute

\* ListCatalog returns every entry or an error, never the part of the list
\* that came before its stream failed.
CatalogComplete ==
  \A c \in Calls :
    call[c].op = "ListCatalog" =>
      \A res \in call[c].result :
        LET es == Visible(call[c].a.prefix)
        IN res = [i \in DOMAIN es |-> catalogEntryFromProto(es[i])]

\* The caller's options come before the fixed ones and override none of them:
\* of a basil.Client the credentials, the authority and the dialer, and so
\* where it connects and as what; of a spiffe.Client the address and the
\* authority.  A dialer among the options of a spiffe.Client is not overridden,
\* and WithClientOptions does not say that it would be.
FixedOptionsWin ==
  client.state \in {"open", "closed"} =>
    /\ Setting(client.options, "authority") = "localhost"
    /\ client.kind = "basil" =>
         /\ Setting(client.options, "credentials") = "insecure"
         /\ Setting(client.options, "dialer") = client.path
    /\ client.kind = "spiffe" =>
         Setting(client.options, "address") = socketAddr(client.path)

\* A call returns if its context has a deadline or the client a timeout,
\* whatever the broker does.
Returns ==
  \A c \in Calls :
    (call[c].state = "waiting" /\ (call[c].deadline \/ client.timeout > 0))
      ~> (call[c].state = "returned")
=============================================================================
