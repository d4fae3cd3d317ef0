------------------------- MODULE BrokerClientProofs -------------------------
(***************************************************************************)
(* Proofs about BrokerClient, for any number of calls of any methods, for  *)
(* every catalog and for every status the broker refuses a request with.   *)
(***************************************************************************)
EXTENDS BasilAPIProofs

-----------------------------------------------------------------------------
\* Operators of the model.

LEMMA SliceSeq ==
  ASSUME NEW s, Slice(s)
  PROVE  s \in Seq({s[k] : k \in 1 .. Len(s)}) /\ DOMAIN s = 1 .. Len(s)
<1>1. Len(s) \in Nat /\ s = [k \in 1 .. Len(s) |-> s[k]]
  BY DEF Slice
<1>2. PICK n \in Nat : n = Len(s)
  BY <1>1
<1>3. s \in [1 .. n -> {s[k] : k \in 1 .. n}]
  BY <1>1, <1>2
<1> QED
  BY <1>2, <1>3, SMT

LEMMA SeqSlice ==
  ASSUME NEW S, NEW s \in Seq(S)
  PROVE  Slice(s)
<1>1. PICK n \in Nat : n = Len(s)
  OBVIOUS
<1>2. s = [k \in 1 .. n |-> s[k]]
  BY <1>1
<1> QED
  BY <1>1, <1>2 DEF Slice

\* The methods that have arguments of two kinds of client do not overlap.
LEMMA TwoKinds ==
  \A op \in SpiffeMethods : op \notin DOMAIN Arguments /\ op \notin CredentialMethods
  BY DEF SpiffeMethods, Arguments, CredentialMethods

\* What the workload's arguments are.
LEMMA WorkloadTyped ==
  ASSUME NEW w \in Workload
  PROVE  /\ w.op = "ImportSet" => Slice(w.a.entries)
         /\ w.op = "ListCatalog" => Slice(Visible(w.a.prefix))
         /\ w.op \in CredentialMethods => w.a.TTL \in Int
<1>1. w.op \notin SpiffeMethods => w.op \in DOMAIN Arguments /\ w.a \in Arguments[w.op]
  BY ClientAssumption, Zenon
<1>2. w.op = "ImportSet" => Slice(w.a.entries)
  <2>1. ASSUME w.op = "ImportSet" PROVE w.a \in [entries : Seq(EntryToImport)]
    <3>1. "ImportSet" \notin SpiffeMethods
      BY DEF SpiffeMethods
    <3>2. Arguments["ImportSet"] = [entries : Seq(EntryToImport)]
      BY Zenon DEF Arguments
    <3> QED
      BY <1>1, <2>1, <3>1, <3>2, Zenon
  <2>2. w.op = "ImportSet" => w.a.entries \in Seq(EntryToImport)
    BY <2>1
  <2> QED
    BY <2>2, SeqSlice, Zenon
<1>3. w.op = "ListCatalog" => Slice(Visible(w.a.prefix))
  BY BrokerAssumption, SeqSlice, Zenon
<1>4. ASSUME w.op \in CredentialMethods PROVE w.a.TTL \in Int
  <2>1. w.op \notin SpiffeMethods
    BY <1>4, TwoKinds, Zenon
  <2>2. w.a \in Arguments[w.op]
    BY <1>1, <2>1, Zenon
  <2>3. /\ Arguments["MintJwt"] = JwtRequest /\ Arguments["MintNatsUser"] = NatsUserRequest
        /\ Arguments["MintNatsAccount"] = NatsAccountRequest
        /\ Arguments["MintNatsOperator"] = NatsOperatorRequest
        /\ Arguments["MintNatsSigner"] = NatsSignerRequest
        /\ Arguments["MintNatsServer"] = NatsServerRequest
        /\ Arguments["MintNatsCurve"] = NatsCurveRequest
        /\ Arguments["SignNatsJwt"] = NatsJwtRequest
    BY Zenon DEF Arguments
  <2>4. w.a \in JwtRequest \cup NatsUserRequest \cup NatsAccountRequest \cup NatsOperatorRequest
                  \cup NatsSignerRequest \cup NatsServerRequest \cup NatsCurveRequest
                  \cup NatsJwtRequest
    BY <1>4, <2>2, <2>3, Zenon DEF CredentialMethods
  <2> QED
    BY <2>4 DEF JwtRequest, NatsUserRequest, NatsAccountRequest, NatsOperatorRequest,
                NatsSignerRequest, NatsServerRequest, NatsCurveRequest, NatsJwtRequest
<1> QED
  BY <1>2, <1>3, <1>4, Zenon

\* An error with a reason: one with a BrokerErrorInfo.
HasReason(err) == err.Reason # ""

LEMMA Errors ==
  /\ clientError # nil /\ ~HasReason(clientError) /\ ~HasReason(nil)
  /\ \A st : FromError(st) # nil
  /\ \A code : ~HasReason(FromError(GRPCStatus(code, <<>>)))
<1>1. ASSUME NEW kind, NEW code, NEW info
      PROVE  Err(kind, code, info).kind = kind /\ Err(kind, code, info).Reason = info.Reason
  BY DEF Err
<1>2. "nil" # "plain" /\ "nil" # "StatusError"
  BY ONLY TRUE
<1>3. noInfo.Reason = ""
  BY Zenon DEF noInfo
<1>4. /\ clientError.kind = "plain" /\ clientError.Reason = noInfo.Reason
      /\ nil.kind = "nil" /\ nil.Reason = noInfo.Reason
  <2>1. PICK none : clientError = Err("plain", none, noInfo) /\ nil = Err("nil", none, noInfo)
    BY Zenon DEF clientError, nil
  <2> QED
    BY ONLY <1>1, <2>1
<1>5. clientError # nil /\ ~HasReason(clientError) /\ ~HasReason(nil)
  BY <1>2, <1>3, <1>4, Zenon DEF HasReason
<1>7. ASSUME NEW st PROVE FromError(st) # nil
  <2>1. PICK info : FromError(st) = Err("StatusError", st.code, info)
    BY Zenon DEF FromError
  <2>2. FromError(st).kind = "StatusError"
    BY <1>1, <2>1
  <2> QED
    BY <1>2, <1>4, <2>2, Zenon
<1>6. ASSUME NEW code PROVE ~HasReason(FromError(GRPCStatus(code, <<>>)))
  <2>1. GRPCStatus(code, <<>>).details = <<>>
    BY Zenon DEF GRPCStatus
  <2>2. \A k : k \notin DOMAIN <<>>
    OBVIOUS
  <2>3. {k \in DOMAIN <<>> : <<>>[k] # {}} = {}
    BY <2>2, Zenon
  <2>4. FromError(GRPCStatus(code, <<>>)) =
          Err("StatusError", GRPCStatus(code, <<>>).code, noInfo)
    BY <2>1, <2>3, Zenon DEF FromError
  <2>5. FromError(GRPCStatus(code, <<>>)).Reason = noInfo.Reason
    BY <1>1, <2>4
  <2> QED
    BY <1>3, <2>5, Zenon DEF HasReason
<1> QED
  BY <1>5, <1>6, <1>7, Zenon

\* The methods that import a set and that list the catalog have these RPCs
\* to themselves.
LEMMA OwnRPC ==
  ASSUME NEW op
  PROVE  /\ rpc(op) = "ImportSet" <=> op = "ImportSet"
         /\ rpc(op) = "ListCatalog" <=> op = "ListCatalog"
  BY DEF rpc

LEMMA Requests ==
  ASSUME NEW a
  PROVE  /\ request("ImportSet", a) = ImportSet(a)
         /\ request("ListCatalog", a) = ListCatalog(a)
  BY Zenon DEF request

LEMMA ImportSetEntries ==
  ASSUME NEW a, Slice(a.entries)
  PROVE  Len(ImportSet(a).Entries) = Len(a.entries)
<1> DEFINE E(k) == [KeyId |-> a.entries[k].KeyID, KeyType |-> a.entries[k].KeyType,
                    Material |-> {toProto(m) : m \in a.entries[k].Material}]
<1>1. DOMAIN a.entries = 1 .. Len(a.entries) /\ Len(a.entries) \in Nat
  BY SliceSeq DEF Slice
<1>2. ImportSet(a).Entries = [k \in 1 .. Len(a.entries) |-> E(k)]
  BY <1>1, Zenon DEF ImportSet
<1> HIDE DEF E
<1>3. PICK n \in Nat : n = Len(a.entries)
  BY <1>1
<1>4. Len([k \in 1 .. n |-> E(k)]) = n
  BY <1>3
<1> QED
  BY <1>2, <1>3, <1>4, Zenon

\* No call on the result of another imports a set, lists the catalog or asks
\* for a credential.
LEMMA FollowUpOps ==
  ASSUME NEW d, NEW w \in FollowUps(d)
  PROVE  w.op # "ImportSet" /\ w.op # "ListCatalog" /\ w.op \notin CredentialMethods
<1> DEFINE Next_(op, args) == [client |-> "basil", op |-> op, a |-> args, deadline |-> FALSE]
           Ops == {"Decrypt", "UnwrapEnvelope", "DecryptNatsCurve", "Verify",
                   "VerifyWithAlgorithm", "GetSecret", "GetPublicKey", "ValidateNatsJwt"}
<1>1. \E op \in Ops : \E args : w = Next_(op, args)
  <2>1. PICK op, a, res : w \in FollowUp(op, a, res)
    BY Zenon DEF FollowUps
  <2> QED
    BY <2>1, Zenon DEF FollowUp, Continued, CredentialMethods
<1>2. PICK op \in Ops : \E args : w = Next_(op, args)
  BY <1>1, Zenon
<1>3. w.op = op
  BY <1>2
<1> QED
  BY <1>3 DEF CredentialMethods

-----------------------------------------------------------------------------
\* What the broker has done for a call, as predicates of the call's record x,
\* the record w of its request and the log l.

Mine(c, l) == {i \in DOMAIN l : l[i].call = c}

Imports(x) == rpc(x.op) = "ImportSet"

\* All of the call's request was carried out; nothing, or a part of a set.
Whole(c, x, l) == \E i \in Mine(c, l) : Imports(x) => l[i].keys = Len(x.a.entries)
PartOnly(c, x, l) == \A i \in Mine(c, l) : Imports(x) /\ l[i].keys < Len(x.a.entries)

\* What a reply tells of the request.
ReplyTrue(c, x, reply, l) ==
  /\ reply.kind = "message" => (rpc(x.op) \in Mutations => Whole(c, x, l))
  /\ reply.kind = "EOF" => rpc(x.op) \notin Mutations
  /\ reply.kind = "status" => PartOnly(c, x, l)

\* The entries of the catalog that the first k messages are converted to.
Converted(es, k) == [i \in 1 .. k |-> catalogEntryFromProto(es[i])]

\* What was taken of a catalog es and what is queued are together its
\* entries, and EOF comes after the last.
CatalogOK(es, x, w) ==
  /\ \A res \in x.result : res = Converted(es, Len(es))
  /\ x.state = "waiting" /\ ~w.handled => x.entries = <<>>
  /\ x.state = "waiting" /\ w.handled => \E k \in 0 .. Len(es) :
       /\ x.entries = Converted(es, k)
       /\ \A j \in DOMAIN w.replies :
            /\ w.replies[j].kind = "message" =>
                 /\ j < Len(w.replies) /\ k + j <= Len(es)
                 /\ w.replies[j].message = es[k + j]
            /\ w.replies[j].kind = "EOF" => k + j = Len(es) + 1

CallFields ==
  {"state", "client", "op", "a", "deadline", "after", "timed", "entries", "err", "result"}

\* The arguments of a call are those of the workload or of a follow-up.
Argued(x) ==
  /\ x.op = "ImportSet" => Slice(x.a.entries)
  /\ x.op = "ListCatalog" => Slice(Visible(x.a.prefix))

\* One call and its request.
Sound(c, x, w, l) ==
  /\ DOMAIN x = CallFields /\ x.state \in {"idle", "waiting", "returned"}
  /\ w = [req |-> w.req, handled |-> w.handled, replies |-> w.replies]
  /\ w.handled \in BOOLEAN /\ (\E S : w.replies \in Seq(S))
  /\ x.state = "idle" => w = NoRequest /\ x = NoCall
  /\ Argued(x)
  /\ \A q \in w.req : (x.op = "ImportSet" => q = ImportSet(x.a))
                      /\ (x.op = "ListCatalog" => q = ListCatalog(x.a))
  /\ \A i, j \in Mine(c, l) : i = j
  /\ ~w.handled => Mine(c, l) = {} /\ w.replies = <<>>
  /\ \A k \in DOMAIN w.replies : ReplyTrue(c, x, w.replies[k], l)
  /\ x.state = "returned" /\ x.err = nil /\ rpc(x.op) \in Mutations => Whole(c, x, l)
  /\ x.state = "returned" /\ HasReason(x.err) => w.handled /\ PartOnly(c, x, l)
  /\ x.op = "ListCatalog" => CatalogOK(Visible(x.a.prefix), x, w)

IsLog(l) == \E S : l \in Seq(S)

ClientInv ==
  /\ call = [c \in Calls |-> call[c]] /\ wire = [c \in Calls |-> wire[c]]
  /\ IsLog(log)
  /\ \A c \in Calls : Sound(c, call[c], wire[c], log)

-----------------------------------------------------------------------------
\* m is the log l and one more entry.
GrownBy(l, m, e) ==
  /\ IsLog(m)
  /\ \A d : d # e.call => Mine(d, m) = Mine(d, l)
  /\ \A d : \A i \in Mine(d, l) : m[i] = l[i]
  /\ \E i : Mine(e.call, m) = Mine(e.call, l) \cup {i} /\ m[i] = e

\* m is l, or l and an entry of call c.
Extended(c, l, m) == m = l \/ \E e : e.call = c /\ m = Append(l, e)

LEMMA LogGrows ==
  ASSUME NEW l, IsLog(l), NEW e
  PROVE  GrownBy(l, Append(l, e), e)
<1>0. PICK m : m = Append(l, e)
  OBVIOUS
<1>1. PICK S : l \in Seq(S)
  BY DEF IsLog
<1>2. l \in Seq(S \cup {e})
  BY <1>1
<1>3. PICK n \in Nat : n = Len(l)
  BY <1>1
<1>4. /\ m \in Seq(S \cup {e}) /\ Len(m) = n + 1
      /\ DOMAIN l = 1 .. n /\ DOMAIN m = 1 .. n + 1
      /\ m[n + 1] = e /\ \A i \in 1 .. n : m[i] = l[i]
  BY <1>0, <1>2, <1>3
<1>5. ASSUME NEW d PROVE Mine(d, m) = Mine(d, l) \cup (IF d = e.call THEN {n + 1} ELSE {})
  BY <1>3, <1>4 DEF Mine
<1>6. IsLog(m)
  BY <1>4 DEF IsLog
<1>7. ASSUME NEW d, NEW i \in Mine(d, l) PROVE m[i] = l[i]
  BY <1>4 DEF Mine
<1>8. ASSUME NEW d, d # e.call PROVE Mine(d, m) = Mine(d, l)
  BY <1>5, <1>8
<1>9. Mine(e.call, m) = Mine(e.call, l) \cup {n + 1} /\ m[n + 1] = e
  BY <1>4, <1>5
<1>10. GrownBy(l, m, e)
  BY <1>6, <1>7, <1>8, <1>9, Zenon DEF GrownBy
<1> QED
  BY <1>0, <1>10

\* What is so for a call stays so while the broker handles another one.
LEMMA OthersSound ==
  ASSUME NEW l, IsLog(l), NEW c, NEW e, e.call = c, NEW d, d # c, NEW x, NEW w,
         Sound(d, x, w, l)
  PROVE  Sound(d, x, w, Append(l, e))
<1>0. PICK m : m = Append(l, e)
  OBVIOUS
<1>1. Mine(d, m) = Mine(d, l) /\ \A i \in Mine(d, l) : m[i] = l[i]
  <2>1. GrownBy(l, m, e)
    BY <1>0, LogGrows, Zenon
  <2> QED
    BY <2>1, Zenon DEF GrownBy
<1>2. /\ Whole(d, x, m) <=> Whole(d, x, l)
      /\ PartOnly(d, x, m) <=> PartOnly(d, x, l)
  BY <1>1, Zenon DEF Whole, PartOnly
<1>3. \A reply : ReplyTrue(d, x, reply, m) <=> ReplyTrue(d, x, reply, l)
  BY <1>2, Zenon DEF ReplyTrue
<1>4. Sound(d, x, w, m)
  BY <1>1, <1>2, <1>3, Zenon DEF Sound
<1> QED
  BY <1>0, <1>4

\* The predicates only ask a call's method and its arguments.
LEMMA SameCall ==
  ASSUME NEW c, NEW l, NEW x, NEW y, y.op = x.op, y.a = x.a
  PROVE  /\ Whole(c, y, l) <=> Whole(c, x, l)
         /\ PartOnly(c, y, l) <=> PartOnly(c, x, l)
         /\ \A reply : ReplyTrue(c, y, reply, l) <=> ReplyTrue(c, x, reply, l)
         /\ Argued(y) <=> Argued(x)
<1>1. /\ Whole(c, y, l) <=> Whole(c, x, l)
      /\ PartOnly(c, y, l) <=> PartOnly(c, x, l)
  BY Zenon DEF Whole, PartOnly, Imports
<1> QED
  BY <1>1, Zenon DEF ReplyTrue, Argued

\* The call returns with an error or a result that tells the truth.
LEMMA ReturnSound ==
  ASSUME NEW c, NEW x, NEW w, NEW l, Sound(c, x, w, l), x.state = "waiting",
         NEW err, NEW res, NEW rs, NEW S, rs \in Seq(S),
         \A k \in DOMAIN rs : ReplyTrue(c, x, rs[k], l),
         w.handled \/ rs = <<>>,
         err = nil /\ rpc(x.op) \in Mutations => Whole(c, x, l),
         HasReason(err) => w.handled /\ PartOnly(c, x, l),
         x.op = "ListCatalog" =>
           \A r \in res : r = Converted(Visible(x.a.prefix), Len(Visible(x.a.prefix)))
  PROVE  Sound(c, [x EXCEPT !.state = "returned", !.err = err, !.result = res],
               [w EXCEPT !.replies = rs], l)
<1>1. PICK y : y = [x EXCEPT !.state = "returned", !.err = err, !.result = res]
  OBVIOUS
<1>2. PICK v : v = [w EXCEPT !.replies = rs]
  OBVIOUS
<1>3. /\ DOMAIN y = CallFields /\ y.state = "returned" /\ y.err = err /\ y.result = res
      /\ y.op = x.op /\ y.a = x.a
  <2>1. DOMAIN x = CallFields
    BY DEF Sound
  <2> QED
    BY ONLY <1>1, <2>1 DEF CallFields
<1>4. v = [req |-> w.req, handled |-> w.handled, replies |-> rs]
  <2>1. w = [req |-> w.req, handled |-> w.handled, replies |-> w.replies]
    BY DEF Sound
  <2>2. PICK q, h, old : q = w.req /\ h = w.handled /\ old = w.replies
    OBVIOUS
  <2> QED
    BY ONLY <1>2, <2>1, <2>2
<1>5. v.req = w.req /\ v.handled = w.handled /\ v.replies = rs
  BY <1>4
<1>6. y.state # "idle" /\ y.state # "waiting"
  BY <1>3
<1>7. x.op = "ListCatalog" => CatalogOK(Visible(y.a.prefix), y, v)
  BY <1>3, <1>6, Zenon DEF CatalogOK
<1>8. Sound(c, y, v, l)
  <2>1. /\ Whole(c, y, l) <=> Whole(c, x, l)
        /\ PartOnly(c, y, l) <=> PartOnly(c, x, l)
        /\ \A reply : ReplyTrue(c, y, reply, l) <=> ReplyTrue(c, x, reply, l)
        /\ Argued(y)
    <3>1. Argued(x)
      BY DEF Sound
    <3> QED
      BY <1>3, <3>1, SameCall, Zenon
  <2> QED
    BY <1>3, <1>4, <1>5, <1>6, <1>7, <2>1, Zenon DEF Sound
<1> QED
  BY <1>1, <1>2, <1>8, Zenon

\* The call fails in gRPC: a status without details.
LEMMA FailSound ==
  ASSUME NEW c, NEW x, NEW w, NEW l, Sound(c, x, w, l), x.state = "waiting", NEW code,
         NEW res \in {{}, x.result}
  PROVE  Sound(c, [x EXCEPT !.state = "returned", !.err = FromError(GRPCStatus(code, <<>>)),
                            !.result = res],
               [w EXCEPT !.replies = <<>>], l)
<1> DEFINE err == FromError(GRPCStatus(code, <<>>))
           rs == <<>>
<1>1. err # nil /\ ~HasReason(err)
  BY Errors, Zenon
<1>2. rs \in Seq({}) /\ \A k \in DOMAIN rs : ReplyTrue(c, x, rs[k], l)
  OBVIOUS
<1>3. x.op = "ListCatalog" =>
        \A r \in res : r = Converted(Visible(x.a.prefix), Len(Visible(x.a.prefix)))
  BY Zenon DEF Sound, CatalogOK
<1> HIDE DEF err
<1>4. Sound(c, [x EXCEPT !.state = "returned", !.err = err, !.result = res],
            [w EXCEPT !.replies = rs], l)
  <2> HIDE DEF rs
  <2>1. w.handled \/ rs = <<>>
    BY DEF rs
  <2> QED
    BY <1>1, <1>2, <1>3, <2>1, ReturnSound, Zenon
<1> QED
  BY <1>4 DEF err

\* The reply at the head of the queue arrives.
Rest(s) == IF Len(s) > 1 THEN Tail(s) ELSE s

Dequeued(c, x, w, l) ==
  LET s == w.replies
      rs == Rest(s)
  IN /\ Head(s) = s[1] /\ 1 \in DOMAIN s /\ w.handled
     /\ Len(s) \in Nat /\ DOMAIN s = 1 .. Len(s)
     /\ Len(s) > 1 => /\ Len(rs) = Len(s) - 1 /\ DOMAIN rs = 1 .. Len(rs)
                      /\ \A k \in DOMAIN rs : rs[k] = s[k + 1]
     /\ \E S : rs \in Seq(S)
     /\ \A k \in DOMAIN rs : ReplyTrue(c, x, rs[k], l)

LEMMA ReplyQueue ==
  ASSUME NEW c, NEW x, NEW w, NEW l, Sound(c, x, w, l), w.replies # <<>>
  PROVE  Dequeued(c, x, w, l)
<1>1. PICK S : w.replies \in Seq(S)
  BY Zenon DEF Sound
<1>2. PICK s, rs : s = w.replies /\ rs = Rest(s)
  OBVIOUS
<1>3. s \in Seq(S) /\ s # <<>> /\ rs = IF Len(s) > 1 THEN Tail(s) ELSE s
  BY <1>1, <1>2 DEF Rest
<1>4. /\ Head(s) = s[1] /\ Len(s) \in Nat /\ Len(s) # 0 /\ DOMAIN s = 1 .. Len(s)
      /\ Len(s) > 1 =>
           Len(rs) = Len(s) - 1 /\ DOMAIN rs = 1 .. Len(rs) /\ \A k \in DOMAIN rs : rs[k] = s[k + 1]
      /\ rs \in Seq(S)
  BY ONLY <1>3
<1>5. 1 \in DOMAIN s /\ \A k \in DOMAIN rs : \E j \in DOMAIN s : rs[k] = s[j]
  <2>1. 1 \in DOMAIN s
    BY ONLY <1>3
  <2>2. ASSUME NEW k \in DOMAIN rs, Len(s) > 1 PROVE k + 1 \in DOMAIN s /\ rs[k] = s[k + 1]
    BY ONLY <1>4, <2>2
  <2>3. Len(s) > 1 \/ rs = s
    BY ONLY <1>3
  <2> QED
    BY <2>1, <2>2, <2>3, Zenon
<1>6. \A k \in DOMAIN rs : ReplyTrue(c, x, rs[k], l)
  BY <1>2, <1>5, Zenon DEF Sound
<1>7. w.handled
  BY Zenon DEF Sound
<1> QED
  BY <1>2, <1>4, <1>5, <1>6, <1>7, Zenon DEF Dequeued

\* ListCatalog's loop takes one more entry.
LEMMA EntrySound ==
  ASSUME NEW c, NEW x, NEW w, NEW l, Sound(c, x, w, l), x.state = "waiting",
         x.op = "ListCatalog", w.replies # <<>>,
         NEW reply, reply = Head(w.replies), reply.kind = "message",
         NEW rs, rs = Rest(w.replies)
  PROVE  Sound(c, [x EXCEPT !.entries = Append(x.entries, catalogEntryFromProto(reply.message))],
               [w EXCEPT !.replies = rs], l)
<1>1. /\ reply = w.replies[1] /\ 1 \in DOMAIN w.replies /\ w.handled
      /\ Len(w.replies) \in Nat /\ DOMAIN w.replies = 1 .. Len(w.replies)
      /\ Len(w.replies) > 1 =>
           /\ Len(rs) = Len(w.replies) - 1 /\ DOMAIN rs = 1 .. Len(rs)
           /\ \A k \in DOMAIN rs : rs[k] = w.replies[k + 1]
      /\ \E S : rs \in Seq(S)
      /\ \A k \in DOMAIN rs : ReplyTrue(c, x, rs[k], l)
  <2>1. Dequeued(c, x, w, l)
    BY ReplyQueue, Zenon
  <2> QED
    BY <2>1, Zenon DEF Dequeued
<1>2. PICK more : more = Append(x.entries, catalogEntryFromProto(reply.message))
  OBVIOUS
<1>3. PICK y : y = [x EXCEPT !.entries = more]
  OBVIOUS
<1>4. PICK v : v = [w EXCEPT !.replies = rs]
  OBVIOUS
<1>5. /\ DOMAIN y = CallFields /\ y.state = x.state /\ y.err = x.err /\ y.result = x.result
      /\ y.op = x.op /\ y.a = x.a /\ y.entries = more
  <2>1. DOMAIN x = CallFields
    BY DEF Sound
  <2> QED
    BY ONLY <1>3, <2>1 DEF CallFields
<1>6. v = [req |-> w.req, handled |-> w.handled, replies |-> rs]
  <2>1. w = [req |-> w.req, handled |-> w.handled, replies |-> w.replies]
    BY DEF Sound
  <2>2. PICK q, h, old : q = w.req /\ h = w.handled /\ old = w.replies
    OBVIOUS
  <2> QED
    BY ONLY <1>4, <2>1, <2>2
<1>7. v.req = w.req /\ v.handled = w.handled /\ v.replies = rs
  BY <1>6
<1>8. PICK es : es = Visible(x.a.prefix)
  OBVIOUS
<1>9. Slice(es) /\ CatalogOK(es, x, w)
  BY <1>8, Zenon DEF Sound, Argued
<1>10. PICK k \in 0 .. Len(es) :
         /\ x.entries = Converted(es, k)
         /\ \A j \in DOMAIN w.replies :
              /\ w.replies[j].kind = "message" =>
                   /\ j < Len(w.replies) /\ k + j <= Len(es)
                   /\ w.replies[j].message = es[k + j]
              /\ w.replies[j].kind = "EOF" => k + j = Len(es) + 1
  BY <1>1, <1>9, Zenon DEF CatalogOK
<1>11. 1 < Len(w.replies) /\ k + 1 <= Len(es) /\ reply.message = es[k + 1]
  BY <1>1, <1>10
<1>12. Len(es) \in Nat /\ k \in Nat /\ k + 1 \in 0 .. Len(es)
  BY <1>9, <1>10, <1>11 DEF Slice
<1>13. more = Converted(es, k + 1)
  <2> DEFINE e(i) == catalogEntryFromProto(es[i])
  <2>1. x.entries = [i \in 1 .. k |-> e(i)] /\ more = Append(x.entries, e(k + 1))
    BY <1>2, <1>10, <1>11 DEF Converted
  <2> HIDE DEF e
  <2>2. PICK s : s = x.entries
    OBVIOUS
  <2>3. s = [i \in 1 .. k |-> e(i)] /\ more = Append(s, e(k + 1)) /\ k \in Nat
    BY <1>12, <2>1, <2>2
  <2>4. s \in Seq({e(i) : i \in 1 .. k + 1}) /\ Len(s) = k
    BY ONLY <2>3
  <2>5. more = [i \in 1 .. k + 1 |-> e(i)]
    BY ONLY <2>3, <2>4
  <2> QED
    BY <2>5 DEF e, Converted
<1>14. ASSUME NEW j \in DOMAIN rs
       PROVE  /\ rs[j].kind = "message" =>
                   /\ j < Len(rs) /\ (k + 1) + j <= Len(es)
                   /\ rs[j].message = es[(k + 1) + j]
              /\ rs[j].kind = "EOF" => (k + 1) + j = Len(es) + 1
  <2>1. /\ rs[j] = w.replies[j + 1] /\ j + 1 \in DOMAIN w.replies /\ j \in Nat
        /\ Len(rs) = Len(w.replies) - 1 /\ k + (j + 1) = (k + 1) + j
        /\ (j < Len(rs) <=> j + 1 < Len(w.replies))
    <3>1. PICK n, s : n = Len(rs) /\ s = w.replies
      OBVIOUS
    <3>2. /\ Len(s) \in Nat /\ Len(s) > 1 /\ n = Len(s) - 1 /\ DOMAIN rs = 1 .. n
          /\ DOMAIN s = 1 .. Len(s) /\ \A i \in DOMAIN rs : rs[i] = s[i + 1]
          /\ j \in DOMAIN rs /\ k \in Nat
      BY <1>1, <1>11, <1>12, <3>1, Zenon
    <3>3. PICK last : last = Len(s)
      OBVIOUS
    <3>4. /\ last \in Nat /\ last > 1 /\ n = last - 1 /\ j \in 1 .. n /\ k \in Nat
          /\ DOMAIN s = 1 .. last
      BY <3>2, <3>3, Zenon
    <3>5. /\ j + 1 \in 1 .. last /\ j \in Nat /\ k + (j + 1) = (k + 1) + j
          /\ (j < n <=> j + 1 < last)
      BY ONLY <3>4
    <3>6. rs[j] = s[j + 1]
      BY <3>2, Zenon
    <3> QED
      BY <3>1, <3>2, <3>3, <3>4, <3>5, <3>6, Zenon
  <2> QED
    BY <1>10, <2>1, Zenon
<1>15. CatalogOK(es, y, v)
  <2>1. \A res \in x.result : res = Converted(es, Len(es))
    BY <1>9, Zenon DEF CatalogOK
  <2>2. /\ y.entries = Converted(es, k + 1)
        /\ \A j \in DOMAIN v.replies :
             /\ v.replies[j].kind = "message" =>
                  /\ j < Len(v.replies) /\ (k + 1) + j <= Len(es)
                  /\ v.replies[j].message = es[(k + 1) + j]
             /\ v.replies[j].kind = "EOF" => (k + 1) + j = Len(es) + 1
    BY <1>5, <1>7, <1>13, <1>14, Zenon
  <2>3. v.handled /\ \A res \in y.result : res = Converted(es, Len(es))
    BY <1>1, <1>5, <1>7, <2>1, Zenon
  <2> QED
    BY <1>12, <2>2, <2>3, Zenon DEF CatalogOK
<1>16. Sound(c, y, v, l)
  <2>1. /\ \A r : ReplyTrue(c, y, r, l) <=> ReplyTrue(c, x, r, l)
        /\ Argued(y)
    <3>1. Argued(x)
      BY DEF Sound
    <3> QED
      BY <1>5, <3>1, SameCall, Zenon
  <2>2. y.state # "idle" /\ y.state # "returned" /\ y.state \in {"idle", "waiting", "returned"}
    BY <1>5
  <2> QED
    BY <1>1, <1>5, <1>6, <1>7, <1>8, <1>15, <2>1, <2>2, Zenon DEF Sound
<1> QED
  BY <1>2, <1>3, <1>4, <1>16, Zenon

\* Replies that list the catalog es.
Listed(es, rs) ==
  \A j \in DOMAIN rs :
    /\ rs[j].kind = "message" => j < Len(rs) /\ j <= Len(es) /\ rs[j].message = es[j]
    /\ rs[j].kind = "EOF" => j = Len(es) + 1

\* The broker has carried the request out, or refused it.
LEMMA HandledSound ==
  ASSUME NEW c, NEW x, NEW w, NEW l, Sound(c, x, w, l), w.req # {}, ~w.handled,
         NEW m, m = l \/ \E e : e.call = c /\ GrownBy(l, m, e),
         NEW rs, NEW S, rs \in Seq(S), \A k \in DOMAIN rs : ReplyTrue(c, x, rs[k], m),
         x.op = "ListCatalog" /\ x.state = "waiting" => Listed(Visible(x.a.prefix), rs)
  PROVE  Sound(c, x, [w EXCEPT !.handled = TRUE, !.replies = rs], m)
<1>1. PICK v : v = [w EXCEPT !.handled = TRUE, !.replies = rs]
  OBVIOUS
<1>2. v = [req |-> w.req, handled |-> TRUE, replies |-> rs]
  <2>1. w = [req |-> w.req, handled |-> w.handled, replies |-> w.replies]
    BY DEF Sound
  <2>2. PICK q, h, old : q = w.req /\ h = w.handled /\ old = w.replies
    OBVIOUS
  <2> QED
    BY ONLY <1>1, <2>1, <2>2
<1>3. v.req = w.req /\ v.handled = TRUE /\ v.replies = rs
  BY <1>2
<1>4. Mine(c, l) = {}
  BY Zenon DEF Sound
<1>5. \A i, j \in Mine(c, m) : i = j
  <2>1. CASE m = l
    BY <1>4, <2>1, Zenon
  <2>2. CASE \E e : e.call = c /\ GrownBy(l, m, e)
    <3>1. PICK e : e.call = c /\ GrownBy(l, m, e)
      BY <2>2, Zenon
    <3>2. PICK i : Mine(c, m) = Mine(c, l) \cup {i}
      BY <3>1, Zenon DEF GrownBy
    <3> QED
      BY <1>4, <3>2
  <2> QED
    BY <2>1, <2>2
<1>6. x.state # "idle"
  <2>1. NoRequest.req = {}
    BY DEF NoRequest
  <2> QED
    BY <2>1, Zenon DEF Sound
<1>7. ~Whole(c, x, l)
  BY <1>4, Zenon DEF Whole
<1>8. ASSUME x.op = "ListCatalog" PROVE CatalogOK(Visible(x.a.prefix), x, v)
  <2>1. PICK es : es = Visible(x.a.prefix)
    OBVIOUS
  <2>2. Len(es) \in Nat /\ CatalogOK(es, x, w)
    BY <1>8, <2>1, Zenon DEF Sound, Argued, Slice
  <2>3. ASSUME x.state = "waiting" PROVE x.entries = Converted(es, 0)
    <3>1. x.entries = <<>>
      BY <2>2, <2>3, Zenon DEF CatalogOK
    <3>2. Converted(es, 0) = <<>>
      BY DEF Converted
    <3> QED
      BY <3>1, <3>2
  <2>4. 0 \in 0 .. Len(es)
    BY <2>2
  <2>5. ASSUME x.state = "waiting"
        PROVE  \A j \in DOMAIN v.replies :
                 /\ v.replies[j].kind = "message" =>
                      /\ j < Len(v.replies) /\ 0 + j <= Len(es)
                      /\ v.replies[j].message = es[0 + j]
                 /\ v.replies[j].kind = "EOF" => 0 + j = Len(es) + 1
    <3>1. \A j \in DOMAIN rs : 0 + j = j
      OBVIOUS
    <3> QED
      BY <1>3, <1>8, <2>1, <2>5, <3>1, Zenon DEF Listed
  <2>6. \A res \in x.result : res = Converted(es, Len(es))
    BY <2>2, Zenon DEF CatalogOK
  <2> QED
    BY <1>3, <2>1, <2>3, <2>4, <2>5, <2>6, Zenon DEF CatalogOK
<1>9. Sound(c, x, v, m)
  BY <1>2, <1>3, <1>5, <1>6, <1>7, <1>8, Zenon DEF Sound
<1> QED
  BY <1>1, <1>9

\* A method is called with arguments of the workload or of a follow-up.
LEMMA BegunSound ==
  ASSUME NEW c, NEW l, NEW w, Sound(c, NoCall, NoRequest, l), NEW y, NEW v,
         DOMAIN y = CallFields, y.op = w.op, y.a = w.a, y.result = {}, y.entries = <<>>,
         Argued(w),
         \/ y.state = "returned" /\ v = NoRequest /\ y.err # nil /\ ~HasReason(y.err)
         \/ /\ y.state = "waiting"
            /\ v = [NoRequest EXCEPT !.req =
                      {IF w.op \in SpiffeMethods THEN w.a ELSE request(w.op, w.a)}]
  PROVE  Sound(c, y, v, l)
<1>1. /\ NoRequest = [req |-> {}, handled |-> FALSE, replies |-> <<>>]
      /\ NoRequest.handled = FALSE /\ NoRequest.replies = <<>> /\ NoRequest.req = {}
  BY DEF NoRequest
<1>2. Mine(c, l) = {}
  BY <1>1, Zenon DEF Sound
<1>3. v = [req |-> v.req, handled |-> FALSE, replies |-> <<>>]
  BY <1>1
<1>4. v.handled = FALSE /\ v.replies = <<>>
  BY <1>3
<1>5. \A k : k \notin DOMAIN v.replies
  BY <1>4
<1>6. \E S : v.replies \in Seq(S)
  BY <1>4
<1>7. /\ y.state # "idle" /\ y.state \in {"waiting", "returned"}
      /\ "waiting" # "returned"
  OBVIOUS
<1>8. ASSUME NEW q \in v.req
      PROVE  /\ w.op = "ImportSet" => q = ImportSet(w.a)
             /\ w.op = "ListCatalog" => q = ListCatalog(w.a)
  <2>1. q = IF w.op \in SpiffeMethods THEN w.a ELSE request(w.op, w.a)
    BY <1>1, <1>8
  <2>2. "ImportSet" \notin SpiffeMethods /\ "ListCatalog" \notin SpiffeMethods
    BY DEF SpiffeMethods
  <2> QED
    BY <2>1, <2>2, Requests, Zenon
<1>9. CatalogOK(Visible(y.a.prefix), y, v)
  BY <1>4, Zenon DEF CatalogOK
<1>10. Argued(y)
  BY Zenon DEF Argued
<1>11. y.state = "idle" \/ y.state = "waiting" \/ y.state = "returned"
  BY <1>7
<1>12. y.state = "returned" => y.err # nil /\ ~HasReason(y.err)
  BY <1>7, Zenon
<1> QED
  BY <1>2, <1>3, <1>4, <1>5, <1>6, <1>7, <1>8, <1>9, <1>10, <1>11, <1>12, Zenon DEF Sound

-----------------------------------------------------------------------------
\* The steps.

\* Only call c moves: to y, with its request at v.
Moved(c, y, v) ==
  /\ call' = [d \in Calls |-> IF d = c THEN y ELSE call[d]]
  /\ wire' = [d \in Calls |-> IF d = c THEN v ELSE wire[d]]

LEMMA MovedInv ==
  ASSUME ClientInv, NEW c \in Calls, NEW y, NEW v, Moved(c, y, v),
         Extended(c, log, log'),
         Sound(c, y, v, log')
  PROVE  ClientInv'
<1>1. /\ call' = [d \in Calls |-> call'[d]] /\ wire' = [d \in Calls |-> wire'[d]]
      /\ call'[c] = y /\ wire'[c] = v
      /\ \A d \in Calls : d # c => call'[d] = call[d] /\ wire'[d] = wire[d]
  BY DEF Moved
<1>2. IsLog(log) /\ \A d \in Calls : Sound(d, call[d], wire[d], log)
  BY DEF ClientInv
<1>3. IsLog(log')
  <2>1. ASSUME NEW e, log' = Append(log, e) PROVE IsLog(log')
    BY <1>2, <2>1, LogGrows, Zenon DEF GrownBy
  <2> QED
    BY <1>2, <2>1, Zenon DEF Extended
<1>4. ASSUME NEW d \in Calls, d # c PROVE Sound(d, call[d], wire[d], log')
  <2>1. ASSUME NEW e, e.call = c, log' = Append(log, e)
        PROVE  Sound(d, call[d], wire[d], log')
    <3>1. IsLog(log) /\ Sound(d, call[d], wire[d], log) /\ d # c
      BY <1>2, <1>4, Zenon
    <3>2. Sound(d, call[d], wire[d], Append(log, e))
      BY <2>1, <3>1, OthersSound
    <3> QED
      BY <2>1, <3>2
  <2> QED
    BY <1>2, <2>1, Zenon DEF Extended
<1>5. \A d \in Calls : Sound(d, call'[d], wire'[d], log')
  BY <1>1, <1>4, Zenon
<1> QED
  BY <1>1, <1>3, <1>5, Zenon DEF ClientInv

LEMMA InitInv ==
  ASSUME Init PROVE ClientInv
<1>1. /\ call = [c \in Calls |-> NoCall] /\ wire = [c \in Calls |-> NoRequest] /\ log = <<>>
  BY DEF Init
<1>2. IsLog(log) /\ \A c : Mine(c, log) = {}
  BY <1>1 DEF IsLog, Mine
<1>3. /\ NoRequest = [req |-> {}, handled |-> FALSE, replies |-> <<>>]
      /\ NoRequest.handled = FALSE /\ NoRequest.replies = <<>> /\ NoRequest.req = {}
      /\ NoRequest = [req |-> NoRequest.req, handled |-> NoRequest.handled,
                      replies |-> NoRequest.replies]
      /\ \A k : k \notin DOMAIN NoRequest.replies
      /\ \E S : NoRequest.replies \in Seq(S)
  BY DEF NoRequest
<1>4. DOMAIN NoCall = CallFields /\ NoCall.state = "idle"
  BY Zenon DEF NoCall, CallFields
<1>5. NoCall.op # "ImportSet" /\ NoCall.op # "ListCatalog"
  <2>1. NoCall.op = ""
    BY Zenon DEF NoCall
  <2>2. "" # "ImportSet" /\ "" # "ListCatalog"
    BY ONLY TRUE
  <2> QED
    BY <2>1, <2>2, Zenon
<1>6. "idle" # "waiting" /\ "idle" # "returned"
  BY ONLY TRUE
<1>7. ASSUME NEW c PROVE Sound(c, NoCall, NoRequest, log)
  BY <1>2, <1>3, <1>4, <1>5, <1>6, Zenon DEF Sound, Argued
<1>8. /\ call = [c \in Calls |-> call[c]] /\ wire = [c \in Calls |-> wire[c]]
      /\ \A c \in Calls : call[c] = NoCall /\ wire[c] = NoRequest
  BY <1>1, Zenon
<1> QED
  BY <1>2, <1>7, <1>8, Zenon DEF ClientInv

\* A record with some of its fields replaced, at one place of a function.
LEMMA RepliesMove ==
  ASSUME ClientInv, NEW c \in Calls, NEW rs, wire' = [wire EXCEPT ![c].replies = rs]
  PROVE  wire' = [d \in Calls |-> IF d = c THEN [wire[c] EXCEPT !.replies = rs] ELSE wire[d]]
  BY DEF ClientInv

LEMMA StartInv ==
  ASSUME ClientInv, NEW c \in Calls, NEW w, NEW after, Argued(w), Start(c, w, after)
  PROVE  ClientInv'
<1>1. PICK begun : begun = [NoCall EXCEPT !.client = w.client, !.op = w.op, !.a = w.a,
                                          !.deadline = w.deadline, !.after = after]
  OBVIOUS
<1>2. call[c] = NoCall /\ wire[c] = NoRequest /\ Sound(c, NoCall, NoRequest, log)
  <2>1. call[c].state = "idle" /\ Sound(c, call[c], wire[c], log)
    BY Zenon DEF Start, ClientInv
  <2>2. call[c] = NoCall /\ wire[c] = NoRequest
    BY <2>1, Zenon DEF Sound
  <2> QED
    BY <2>1, <2>2
<1>3. DOMAIN NoCall = CallFields /\ NoCall.result = {} /\ NoCall.entries = <<>>
  BY Zenon DEF NoCall, CallFields
<1>4. /\ DOMAIN begun = CallFields /\ begun.result = {} /\ begun.entries = <<>>
      /\ begun.op = w.op /\ begun.a = w.a
  <2>1. PICK none : none = NoCall
    OBVIOUS
  <2>2. /\ DOMAIN none = CallFields /\ none.result = {} /\ none.entries = <<>>
        /\ begun = [none EXCEPT !.client = w.client, !.op = w.op, !.a = w.a,
                                !.deadline = w.deadline, !.after = after]
    BY <1>1, <1>3, <2>1
  <2> QED
    BY ONLY <2>2 DEF CallFields
<1>5. log' = log
  BY Zenon DEF Start
<1>6. ASSUME NEW err, err # nil, ~HasReason(err),
             call' = [call EXCEPT ![c] = [begun EXCEPT !.state = "returned", !.err = err]],
             wire' = wire
      PROVE  ClientInv'
  <2>1. PICK y : y = [begun EXCEPT !.state = "returned", !.err = err]
    OBVIOUS
  <2>2. /\ DOMAIN y = CallFields /\ y.result = {} /\ y.entries = <<>>
        /\ y.op = w.op /\ y.a = w.a /\ y.state = "returned" /\ y.err = err
    BY ONLY <1>4, <2>1 DEF CallFields
  <2>3. Sound(c, y, NoRequest, log)
    BY <1>2, <1>6, <2>2, BegunSound, Zenon
  <2>4. Moved(c, y, NoRequest)
    BY <1>2, <1>6, <2>1 DEF Moved, ClientInv
  <2> QED
    BY <1>5, <2>3, <2>4, MovedInv, Zenon DEF Extended
<1>7. CASE /\ refuses(w.op, w.a)
           /\ call' = [call EXCEPT ![c] =
                [begun EXCEPT !.state = "returned", !.err = clientError]]
           /\ UNCHANGED wire
  BY <1>6, <1>7, Errors, Zenon
<1>8. CASE /\ ~refuses(w.op, w.a) /\ client.state = "closed"
           /\ call' = [call EXCEPT ![c] =
                [begun EXCEPT !.state = "returned", !.err = FromError(GRPCStatus("Canceled", <<>>))]]
           /\ UNCHANGED wire
  BY <1>6, <1>8, Errors, Zenon
<1>9. CASE /\ ~refuses(w.op, w.a) /\ client.state = "open"
           /\ call' = [call EXCEPT ![c] =
                [begun EXCEPT !.state = "waiting", !.timed = withTimeout(w)]]
           /\ wire' = [wire EXCEPT ![c].req =
                {IF w.op \in SpiffeMethods THEN w.a ELSE request(w.op, w.a)}]
  <2>1. PICK y, timed : y = [begun EXCEPT !.state = "waiting", !.timed = timed]
                        /\ timed = withTimeout(w)
    OBVIOUS
  <2>2. /\ DOMAIN y = CallFields /\ y.result = {} /\ y.entries = <<>>
        /\ y.op = w.op /\ y.a = w.a /\ y.state = "waiting"
    BY ONLY <1>4, <2>1 DEF CallFields
  <2>3. PICK q : q = IF w.op \in SpiffeMethods THEN w.a ELSE request(w.op, w.a)
    OBVIOUS
  <2>4. PICK v : v = [NoRequest EXCEPT !.req = {q}]
    OBVIOUS
  <2>5. Sound(c, y, v, log)
    BY <1>2, <2>2, <2>3, <2>4, BegunSound, Zenon
  <2>6. Moved(c, y, v)
    <3>1. call' = [call EXCEPT ![c] = y] /\ wire' = [wire EXCEPT ![c].req = {q}]
      BY <1>9, <2>1, <2>3, Zenon
    <3> QED
      BY <1>2, <2>4, <3>1 DEF Moved, ClientInv
  <2> QED
    BY <1>5, <2>5, <2>6, MovedInv, Zenon DEF Extended
<1> QED
  BY <1>1, <1>7, <1>8, <1>9, Zenon DEF Start

LEMMA FailInv ==
  ASSUME ClientInv, NEW c \in Calls, NEW code, Fail(c, code)
  PROVE  ClientInv'
<1>1. /\ call[c].state = "waiting" /\ Return(c, FromError(GRPCStatus(code, <<>>)), {})
      /\ wire' = [wire EXCEPT ![c].replies = <<>>] /\ log' = log
  BY Zenon DEF Fail, failed
<1>2. Sound(c, call[c], wire[c], log)
  BY Zenon DEF ClientInv
<1>3. PICK y, v :
        /\ y = [call[c] EXCEPT !.state = "returned", !.err = FromError(GRPCStatus(code, <<>>)),
                               !.result = {}]
        /\ v = [wire[c] EXCEPT !.replies = <<>>]
  OBVIOUS
<1>4. Sound(c, y, v, log)
  BY <1>1, <1>2, <1>3, FailSound, Zenon
<1>5. Moved(c, y, v)
  <2>1. call' = [d \in Calls |-> IF d = c THEN y ELSE call[d]]
    BY <1>1, <1>3 DEF Return, ClientInv
  <2>2. wire' = [d \in Calls |-> IF d = c THEN v ELSE wire[d]]
    BY <1>1, <1>3, RepliesMove
  <2> QED
    BY <2>1, <2>2 DEF Moved
<1> QED
  BY <1>1, <1>4, <1>5, MovedInv, Zenon DEF Extended

LEMMA CloseInv ==
  ASSUME ClientInv, Close
  PROVE  ClientInv'
<1> DEFINE err == FromError(GRPCStatus("Canceled", <<>>))
<1>1. /\ call' = [c \in Calls |->
           IF call[c].state # "waiting" THEN call[c]
           ELSE [call[c] EXCEPT !.state = "returned", !.err = err]]
      /\ wire' = [c \in Calls |->
           IF call[c].state # "waiting" THEN wire[c] ELSE [wire[c] EXCEPT !.replies = <<>>]]
      /\ log' = log
  BY Zenon DEF Close
<1>2. ASSUME NEW c \in Calls PROVE Sound(c, call'[c], wire'[c], log)
  <2>1. Sound(c, call[c], wire[c], log)
    BY Zenon DEF ClientInv
  <2>2. CASE call[c].state # "waiting"
    <3>1. call'[c] = call[c] /\ wire'[c] = wire[c]
      BY <1>1, <2>2, Zenon
    <3> QED
      BY <2>1, <3>1, Zenon
  <2>3. CASE call[c].state = "waiting"
    <3>1. PICK x, e : x = call[c] /\ e = err
      OBVIOUS
    <3>2. call'[c] = [x EXCEPT !.state = "returned", !.err = e]
          /\ wire'[c] = [wire[c] EXCEPT !.replies = <<>>]
      BY <1>1, <2>3, <3>1, Zenon
    <3>3. DOMAIN x = CallFields
      BY <2>1, <3>1, Zenon DEF Sound
    <3>4. [x EXCEPT !.state = "returned", !.err = e] =
            [x EXCEPT !.state = "returned", !.err = e, !.result = x.result]
      BY ONLY <3>3 DEF CallFields
    <3>5. Sound(c, [x EXCEPT !.state = "returned", !.err = e, !.result = x.result],
                [wire[c] EXCEPT !.replies = <<>>], log)
      <4>1. x.result \in {{}, x.result}
        OBVIOUS
      <4> QED
        BY <2>1, <2>3, <3>1, <4>1, FailSound, Zenon
    <3> QED
      BY <3>2, <3>4, <3>5, Zenon
  <2> QED
    BY <2>2, <2>3
<1> HIDE DEF err
<1>3. /\ call' = [c \in Calls |-> call'[c]] /\ wire' = [c \in Calls |-> wire'[c]]
  BY <1>1, Zenon
<1>4. IsLog(log')
  BY <1>1, Zenon DEF ClientInv
<1> QED
  BY <1>1, <1>2, <1>3, <1>4, Zenon DEF ClientInv

LEMMA ReceiveInv ==
  ASSUME ClientInv, NEW c \in Calls, Receive(c)
  PROVE  ClientInv'
<1>1. PICK x, w, reply, rs :
        /\ x = call[c] /\ w = wire[c] /\ reply = Head(w.replies) /\ rs = Rest(w.replies)
  OBVIOUS
<1>2. /\ x.state = "waiting" /\ w.replies # <<>> /\ log' = log
      /\ wire' = [wire EXCEPT ![c].replies = rs]
  <2>1. Rest(wire[c].replies) =
          IF Len(wire[c].replies) > 1 THEN Tail(wire[c].replies) ELSE wire[c].replies
    BY DEF Rest
  <2>2. wire' = [wire EXCEPT ![c].replies =
                   IF Len(wire[c].replies) > 1 THEN Tail(wire[c].replies) ELSE wire[c].replies]
    BY DEF Receive
  <2> QED
    BY <1>1, <2>1, <2>2, Zenon DEF Receive
<1>3. Sound(c, x, w, log)
  BY <1>1, Zenon DEF ClientInv
<1>4. Dequeued(c, x, w, log)
  BY <1>2, <1>3, ReplyQueue, Zenon
<1>5. PICK v : v = [w EXCEPT !.replies = rs]
  OBVIOUS
<1>6. wire' = [d \in Calls |-> IF d = c THEN v ELSE wire[d]]
  BY <1>1, <1>2, <1>5, RepliesMove
<1>7. /\ reply = w.replies[1] /\ 1 \in DOMAIN w.replies /\ w.handled
      /\ \A k \in DOMAIN rs : ReplyTrue(c, x, rs[k], log)
  BY <1>1, <1>4, Zenon DEF Dequeued
<1>8. PICK S : rs \in Seq(S)
  BY <1>1, <1>4, Zenon DEF Dequeued
<1>9. ReplyTrue(c, x, reply, log)
  BY <1>3, <1>7, Zenon DEF Sound
<1>10. ASSUME NEW err, NEW res, Return(c, err, res),
              err = nil /\ rpc(x.op) \in Mutations => Whole(c, x, log),
              HasReason(err) => PartOnly(c, x, log),
              x.op = "ListCatalog" =>
                \A r \in res : r = Converted(Visible(x.a.prefix), Len(Visible(x.a.prefix)))
       PROVE  ClientInv'
  <2>1. PICK y : y = [x EXCEPT !.state = "returned", !.err = err, !.result = res]
    OBVIOUS
  <2>2. Sound(c, y, v, log)
    BY <1>2, <1>3, <1>5, <1>7, <1>8, <1>10, <2>1, ReturnSound, Zenon
  <2>3. call' = [d \in Calls |-> IF d = c THEN y ELSE call[d]]
    BY <1>1, <1>10, <2>1 DEF Return, ClientInv
  <2>4. Moved(c, y, v)
    BY <1>6, <2>3 DEF Moved
  <2> QED
    BY <1>2, <2>2, <2>4, MovedInv, Zenon DEF Extended
<1>11. CASE /\ reply.kind = "message" /\ x.op = "ListCatalog"
            /\ call' = [call EXCEPT ![c].entries =
                          Append(@, catalogEntryFromProto(reply.message))]
  <2>1. PICK e : e = catalogEntryFromProto(reply.message)
    OBVIOUS
  <2>2. PICK y : y = [x EXCEPT !.entries = Append(x.entries, e)]
    OBVIOUS
  <2>3. Sound(c, y, v, log)
    BY <1>1, <1>2, <1>3, <1>5, <1>11, <2>1, <2>2, EntrySound, Zenon
  <2>4. call' = [d \in Calls |-> IF d = c THEN y ELSE call[d]]
    BY <1>1, <1>11, <2>1, <2>2 DEF ClientInv
  <2>5. Moved(c, y, v)
    BY <1>6, <2>4 DEF Moved
  <2> QED
    BY <1>2, <2>3, <2>5, MovedInv, Zenon DEF Extended
<1>12. CASE /\ reply.kind = "message" /\ x.op # "ListCatalog"
            /\ \/ Return(c, clientError, {})
               \/ Return(c, nil, {IF x.op \in SpiffeMethods THEN reply.message
                                  ELSE result(x.op, reply.message)})
  <2>1. rpc(x.op) \in Mutations => Whole(c, x, log)
    BY <1>9, <1>12, Zenon DEF ReplyTrue
  <2>2. CASE Return(c, clientError, {})
    BY <1>10, <1>12, <2>2, Errors, Zenon
  <2>3. ASSUME NEW res, Return(c, nil, res) PROVE ClientInv'
    BY <1>10, <1>12, <2>1, <2>3, Errors, Zenon
  <2> QED
    BY <1>12, <2>2, <2>3, Zenon
<1>13. CASE reply.kind = "EOF" /\ Return(c, nil, {x.entries})
  <2>1. rpc(x.op) \notin Mutations
    BY <1>9, <1>13, Zenon DEF ReplyTrue
  <2>2. ASSUME x.op = "ListCatalog"
        PROVE  x.entries = Converted(Visible(x.a.prefix), Len(Visible(x.a.prefix)))
    <3>1. PICK es : es = Visible(x.a.prefix)
      OBVIOUS
    <3>2. CatalogOK(es, x, w) /\ Len(es) \in Nat
      BY <1>3, <2>2, <3>1, Zenon DEF Sound, Argued, Slice
    <3>3. PICK k \in 0 .. Len(es) :
            /\ x.entries = Converted(es, k)
            /\ \A j \in DOMAIN w.replies : w.replies[j].kind = "EOF" => k + j = Len(es) + 1
      BY <1>2, <1>7, <3>2, Zenon DEF CatalogOK
    <3>4. k + 1 = Len(es) + 1
      BY <1>7, <1>13, <3>3, Zenon
    <3>5. k = Len(es)
      BY <3>2, <3>3, <3>4
    <3> QED
      BY <3>1, <3>3, <3>5, Zenon
  <2> QED
    BY <1>10, <1>13, <2>1, <2>2, Errors, Zenon
<1>14. CASE reply.kind = "status" /\ Return(c, FromError(reply.status), {})
  <2>1. PartOnly(c, x, log)
    BY <1>9, <1>14, Zenon DEF ReplyTrue
  <2> QED
    BY <1>10, <1>14, <2>1, Errors, Zenon
<1> QED
  BY <1>1, <1>11, <1>12, <1>13, <1>14, Zenon DEF Receive, failed

\* What the broker logs, and what a status or a message then tells.
LEMMA LoggedGrows ==
  ASSUME NEW c, NEW r, NEW q, NEW keys, IsLog(log)
  PROVE  /\ Extended(c, log, Logged(c, r, q, keys))
         /\ r \in Mutations => \E e :
              /\ e.call = c /\ e.keys = keys
              /\ GrownBy(log, Logged(c, r, q, keys), e)
<1>1. PICK e : e = [call |-> c, rpc |-> r, req |-> q, keys |-> keys]
  OBVIOUS
<1>2. e.call = c /\ e.keys = keys
  BY <1>1
<1>3. GrownBy(log, Append(log, e), e)
  BY LogGrows, Zenon
<1>4. Logged(c, r, q, keys) = IF r \in Mutations \cup Issues THEN Append(log, e) ELSE log
  BY <1>1, Zenon DEF Logged
<1> QED
  BY <1>2, <1>3, <1>4, Zenon DEF Extended

LEMMA HandleStep ==
  ASSUME ClientInv, NEW c \in Calls, wire[c].req # {}, ~wire[c].handled, UNCHANGED call,
         NEW sent, NEW S, sent \in Seq(S),
         wire' = [wire EXCEPT ![c].handled = TRUE,
                              ![c].replies = IF call[c].state = "waiting" THEN sent ELSE <<>>],
         Extended(c, log, log'),
         \A k \in DOMAIN sent : ReplyTrue(c, call[c], sent[k], log'),
         call[c].op = "ListCatalog" => Listed(Visible(call[c].a.prefix), sent)
  PROVE  ClientInv'
<1>1. PICK x, w, rs, v : /\ x = call[c] /\ w = wire[c]
                         /\ rs = IF call[c].state = "waiting" THEN sent ELSE <<>>
                         /\ v = [w EXCEPT !.handled = TRUE, !.replies = rs]
  OBVIOUS
<1>2. Sound(c, x, w, log) /\ IsLog(log)
  BY <1>1, Zenon DEF ClientInv
<1>3. log' = log \/ \E e : e.call = c /\ GrownBy(log, log', e)
  BY <1>2, LogGrows, Zenon DEF Extended
<1>4. rs = sent \/ (rs = <<>> /\ x.state # "waiting")
  BY <1>1
<1>5. <<>> \in Seq(S) /\ \A k : k \notin DOMAIN <<>>
  OBVIOUS
<1>6. rs \in Seq(S) /\ \A k \in DOMAIN rs : ReplyTrue(c, x, rs[k], log')
  BY <1>1, <1>4, <1>5, Zenon
<1>7. x.op = "ListCatalog" /\ x.state = "waiting" => Listed(Visible(x.a.prefix), rs)
  BY <1>1, <1>4, Zenon
<1>8. Sound(c, x, v, log')
  <2>1. w.req # {} /\ ~w.handled
    BY <1>1
  <2> QED
    BY <1>1, <1>2, <1>3, <1>6, <1>7, <2>1, HandledSound, Zenon
<1>9. Moved(c, x, v)
  <2>1. wire' = [wire EXCEPT ![c].handled = TRUE, ![c].replies = rs]
    BY <1>1, Zenon
  <2>2. wire' = [d \in Calls |-> IF d = c THEN v ELSE wire[d]]
    BY <1>1, <2>1 DEF ClientInv
  <2>3. call' = [d \in Calls |-> IF d = c THEN x ELSE call[d]]
    BY <1>1 DEF ClientInv
  <2> QED
    BY <2>2, <2>3 DEF Moved
<1> QED
  BY <1>8, <1>9, MovedInv, Zenon DEF Extended

LEMMA HandleInv ==
  ASSUME ClientInv, NEW c \in Calls, Handle(c)
  PROVE  ClientInv'
<1> DEFINE x == call[c]
           r == rpc(x.op)
           q == CHOOSE p \in wire[c].req : TRUE
           keys == IF r = "ImportSet" THEN Len(q.Entries) ELSE 1
           Sent(rs) == wire' = [wire EXCEPT ![c].handled = TRUE,
                         ![c].replies = IF call[c].state = "waiting" THEN rs ELSE <<>>]
           es == Visible(q.Prefix)
           sent(n) == [i \in 1 .. n |-> Message(es[i])]
           unanswered == GRPCStatus("InvalidArgument", <<{[Reason |-> "DECRYPT_FAILED", Op |-> r]}>>)
<1>1. /\ wire[c].req # {} /\ ~wire[c].handled
      /\ \/ /\ r # "ListCatalog"
            /\ \E m \in Response(r, q, Logged(c, r, q, keys)) : Sent(<<Message(m)>>)
            /\ log' = Logged(c, r, q, keys)
         \/ /\ r = "ListCatalog"
            /\ \/ Sent(sent(Len(es)) \o <<EOF>>)
               \/ \E n \in 0 .. Len(es), st \in Rejections : Sent(sent(n) \o <<Failure(st)>>)
            /\ UNCHANGED log
         \/ /\ r = "ImportSet"
            /\ \E n \in 1 .. keys - 1 : log' = Logged(c, r, q, n)
            /\ \E st \in Rejections : Sent(<<Failure(st)>>)
         \/ /\ \E st \in Rejections : Sent(<<Failure(st)>>)
            /\ UNCHANGED log
         \/ /\ r # "ListCatalog" /\ Response(r, q, Logged(c, r, q, keys)) = {}
            /\ Sent(<<Failure(unanswered)>>)
            /\ UNCHANGED log
      /\ UNCHANGED <<client, call>>
  BY Zenon DEF Handle
<1>2. /\ wire[c].req # {} /\ ~wire[c].handled /\ UNCHANGED call
      /\ x = call[c] /\ q \in wire[c].req
      /\ keys = IF r = "ImportSet" THEN Len(q.Entries) ELSE 1
  BY <1>1, Zenon
<1> HIDE DEF x, q, keys, unanswered
<1>3. Sound(c, x, wire[c], log) /\ IsLog(log) /\ q \in wire[c].req
  BY <1>2, Zenon DEF ClientInv
<1>4. Mine(c, log) = {} /\ Argued(x) /\ r = rpc(x.op)
  BY <1>2, <1>3, Zenon DEF Sound
<1> HIDE DEF r
<1>5. /\ \A m : Message(m).kind = "message" /\ Message(m).message = m
      /\ \A st : Failure(st).kind = "status" /\ EOF.kind = "EOF"
  BY DEF Message, Failure, EOF
<1>6. Imports(x) => keys = Len(x.a.entries) /\ keys \in Nat
  <2> SUFFICES ASSUME Imports(x) PROVE keys = Len(x.a.entries) /\ keys \in Nat
    OBVIOUS
  <2>1. x.op = "ImportSet" /\ r = "ImportSet"
    BY <1>4, OwnRPC, Zenon DEF Imports
  <2>2. q = ImportSet(x.a) /\ Slice(x.a.entries)
    BY <1>3, <1>4, <2>1, Zenon DEF Sound, Argued
  <2>3. Len(x.a.entries) \in Nat
    BY <2>2, Zenon DEF Slice
  <2> QED
    BY <1>2, <2>1, <2>2, <2>3, ImportSetEntries, Zenon
\* A single reply, to another request than one for the catalog or with a
\* status.
<1>7. ASSUME NEW reply, Sent(<<reply>>), ReplyTrue(c, x, reply, log'),
             r # "ListCatalog" \/ reply.kind = "status",
             Extended(c, log, log')
      PROVE  ClientInv'
  <2>1. <<reply>> \in Seq({reply}) /\ \A k \in DOMAIN <<reply>> : <<reply>>[k] = reply
    OBVIOUS
  <2>2. PICK rs : rs = <<reply>>
    OBVIOUS
  <2>3. /\ rs \in Seq({reply}) /\ \A k \in DOMAIN rs : ReplyTrue(c, call[c], rs[k], log')
        /\ Sent(rs)
    BY <1>2, <1>4, <1>7, <2>1, <2>2, Zenon
  <2>4. call[c].op # "ListCatalog" \/ \A k \in DOMAIN rs : rs[k].kind = "status"
    BY <1>2, <1>4, <1>7, <2>1, <2>2, OwnRPC, Zenon
  <2>5. "status" # "message" /\ "status" # "EOF"
    BY ONLY TRUE
  <2>6. call[c].op = "ListCatalog" => Listed(Visible(call[c].a.prefix), rs)
    BY <2>4, <2>5, Zenon DEF Listed
  <2> QED
    BY <1>2, <1>7, <2>3, <2>6, HandleStep, Zenon
<1>8. ASSUME NEW m, r # "ListCatalog", Sent(<<Message(m)>>), log' = Logged(c, r, q, keys)
      PROVE  ClientInv'
  <2>1. r \in Mutations => Whole(c, x, log')
    <3> SUFFICES ASSUME r \in Mutations PROVE Whole(c, x, log')
      OBVIOUS
    <3>1. PICK e : e.call = c /\ e.keys = keys /\ GrownBy(log, log', e)
      BY <1>3, <1>8, LoggedGrows, Zenon
    <3>2. PICK i : i \in Mine(c, log') /\ log'[i] = e
      BY <3>1 DEF GrownBy
    <3> QED
      BY <1>6, <3>1, <3>2, Zenon DEF Whole
  <2>2. "message" # "EOF" /\ "message" # "status"
    BY ONLY TRUE
  <2>3. ReplyTrue(c, x, Message(m), log')
    BY <1>4, <1>5, <2>1, <2>2, Zenon DEF ReplyTrue
  <2>4. Extended(c, log, log')
    BY <1>3, <1>8, LoggedGrows, Zenon
  <2> QED
    BY <1>7, <1>8, <2>3, <2>4, Zenon
<1>9. ASSUME NEW st, Sent(<<Failure(st)>>), PartOnly(c, x, log'),
             Extended(c, log, log')
      PROVE  ClientInv'
  <2>1. "status" # "message" /\ "status" # "EOF"
    BY ONLY TRUE
  <2>2. ReplyTrue(c, x, Failure(st), log')
    BY <1>5, <1>9, <2>1, Zenon DEF ReplyTrue
  <2> QED
    BY <1>5, <1>7, <1>9, <2>2, Zenon
<1>10. ASSUME NEW st, Sent(<<Failure(st)>>), UNCHANGED log PROVE ClientInv'
  <2>1. PartOnly(c, x, log')
    BY <1>4, <1>10, Zenon DEF PartOnly
  <2> QED
    BY <1>9, <1>10, <2>1, Zenon DEF Extended
<1>11. ASSUME NEW st, NEW n \in 1 .. keys - 1, r = "ImportSet", log' = Logged(c, r, q, n),
              Sent(<<Failure(st)>>)
       PROVE  ClientInv'
  <2>1. Imports(x) /\ r \in Mutations
    BY <1>4, <1>11 DEF Imports, Mutations
  <2>2. n < Len(x.a.entries)
    BY <1>6, <1>11, <2>1
  <2>3. PICK e : e.call = c /\ e.keys = n /\ GrownBy(log, log', e)
    BY <1>3, <1>11, <2>1, LoggedGrows, Zenon
  <2>4. \A i \in Mine(c, log') : log'[i] = e
    BY <1>4, <2>3 DEF GrownBy
  <2>5. PartOnly(c, x, log')
    BY <2>1, <2>2, <2>3, <2>4, Zenon DEF PartOnly
  <2>6. Extended(c, log, log')
    BY <1>3, <1>11, LoggedGrows, Zenon
  <2> QED
    BY <1>9, <1>11, <2>5, <2>6, Zenon

<1>12. ASSUME NEW last, NEW n \in 0 .. Len(es), r = "ListCatalog", UNCHANGED log,
              last.kind # "message", (last.kind = "EOF" => n = Len(es)),
              Sent(sent(n) \o <<last>>)
       PROVE  ClientInv'
  <2>1. x.op = "ListCatalog" /\ r \notin Mutations
    <3>1. x.op = "ListCatalog"
      BY <1>4, <1>12, OwnRPC, Zenon
    <3> QED
      BY <1>12, <3>1 DEF Mutations
  <2>2. es = Visible(x.a.prefix) /\ Len(es) \in Nat
    <3>1. q = ListCatalog(x.a) /\ Slice(Visible(x.a.prefix))
      BY <1>3, <1>4, <2>1, Zenon DEF Sound, Argued
    <3>2. q.Prefix = x.a.prefix
      BY <3>1 DEF ListCatalog
    <3> QED
      BY <3>1, <3>2, Zenon DEF Slice
  <2>3. \A reply : ReplyTrue(c, x, reply, log')
    BY <1>4, <1>12, <2>1, Zenon DEF ReplyTrue, PartOnly
  <2>4. PICK rs, first : first = sent(n) /\ rs = first \o <<last>>
    OBVIOUS
  <2>5. /\ \E S : rs \in Seq(S)
        /\ Len(rs) = n + 1 /\ DOMAIN rs = 1 .. n + 1 /\ rs[n + 1] = last
        /\ \A j \in 1 .. n : rs[j] = Message(es[j])
    <3> HIDE DEF es
    <3>1. PICK T : T = {Message(es[i]) : i \in 1 .. n} \cup {last}
      OBVIOUS
    <3>2. first \in Seq(T) /\ Len(first) = n /\ \A j \in 1 .. n : first[j] = Message(es[j])
      BY <2>2, <2>4, <3>1
    <3>3. n \in Nat /\ last \in T
      BY <2>2, <3>1
    <3>4. PICK k : k = Len(first)
      OBVIOUS
    <3>5. /\ rs \in Seq(T) /\ Len(rs) = n + 1 /\ DOMAIN rs = 1 .. n + 1 /\ rs[n + 1] = last
          /\ \A j \in 1 .. n : rs[j] = first[j]
      BY ONLY <2>4, <3>2, <3>3
    <3> QED
      BY <3>2, <3>5, Zenon
  <2>6. ASSUME NEW j \in DOMAIN rs
        PROVE  /\ rs[j].kind = "message" =>
                    j < Len(rs) /\ j <= Len(es) /\ rs[j].message = es[j]
               /\ rs[j].kind = "EOF" => j = Len(es) + 1
    <3>1. n \in Nat /\ n <= Len(es) /\ (j \in 1 .. n \/ j = n + 1)
      BY <2>2, <2>5, <2>6
    <3>2. CASE j = n + 1
      BY <1>12, <2>5, <3>1, <3>2
    <3>3. CASE j \in 1 .. n
      <4>1. rs[j] = Message(es[j]) /\ "message" # "EOF"
        BY <2>5, <3>3
      <4>2. rs[j].kind = "message" /\ rs[j].message = es[j]
        BY <1>5, <4>1, Zenon
      <4>3. j < Len(rs) /\ j <= Len(es)
        BY <2>2, <2>5, <3>1, <3>3
      <4> QED
        BY <4>1, <4>2, <4>3, Zenon
    <3> QED
      BY <3>1, <3>2, <3>3
  <2>7. PICK S : rs \in Seq(S)
    BY <2>5
  <2>8. Sent(rs)
    BY <1>12, <2>4, Zenon
  <2>9. Listed(Visible(call[c].a.prefix), rs)
    BY <1>2, <2>2, <2>6, Zenon DEF Listed
  <2>10. Extended(c, log, log') /\ \A k \in DOMAIN rs : ReplyTrue(c, call[c], rs[k], log')
    BY <1>2, <1>12, <2>3, Zenon DEF Extended
  <2> QED
    BY <1>2, <2>7, <2>8, <2>9, <2>10, HandleStep, Zenon
<1>13. ASSUME r = "ListCatalog", UNCHANGED log,
              \/ Sent(sent(Len(es)) \o <<EOF>>)
              \/ \E n \in 0 .. Len(es), st \in Rejections : Sent(sent(n) \o <<Failure(st)>>)
       PROVE  ClientInv'
  <2>1. Len(es) \in 0 .. Len(es)
    <3>1. x.op = "ListCatalog"
      BY <1>4, <1>13, OwnRPC, Zenon
    <3>2. q = ListCatalog(x.a) /\ Slice(Visible(x.a.prefix))
      BY <1>3, <1>4, <3>1, Zenon DEF Sound, Argued
    <3>3. q.Prefix = x.a.prefix
      BY <3>2 DEF ListCatalog
    <3>4. Len(es) \in Nat
      BY <3>2, <3>3, Zenon DEF Slice
    <3> QED
      BY <3>4
  <2>2. "EOF" # "message" /\ "status" # "message" /\ "status" # "EOF"
    BY ONLY TRUE
  <2>3. CASE Sent(sent(Len(es)) \o <<EOF>>)
    <3>1. EOF.kind # "message"
      BY <1>5, <2>2, Zenon
    <3> QED
      BY <1>12, <1>13, <2>1, <2>3, <3>1, Zenon
  <2>4. ASSUME NEW n \in 0 .. Len(es), NEW st, Sent(sent(n) \o <<Failure(st)>>)
        PROVE  ClientInv'
    <3>1. Failure(st).kind # "message" /\ Failure(st).kind # "EOF"
      BY <1>5, <2>2, Zenon
    <3> QED
      BY <1>12, <1>13, <2>4, <3>1, Zenon
  <2> QED
    BY <1>13, <2>3, <2>4, Zenon
<1> HIDE DEF Sent, es, sent
<1> QED
  BY <1>1, <1>8, <1>10, <1>11, <1>13, Zenon

LEMMA NextInv ==
  ASSUME ClientInv, [Next]_vars PROVE ClientInv'
<1>1. CASE UNCHANGED <<call, wire, log>>
  BY <1>1, Zenon DEF ClientInv
<1>2. ASSUME NEW w \in Workload PROVE Argued(w)
  BY WorkloadTyped, Zenon DEF Argued
<1>3. ASSUME NEW d, NEW w \in FollowUps(d) PROVE Argued(w)
  BY FollowUpOps, Zenon DEF Argued
<1>4. ASSUME NEW c \in Calls, NEW d \in 0 .. c - 1,
             NEW w \in IF d = 0 THEN {w \in Workload : \A e \in 1 .. c - 1 : Together(call[e], w)}
                       ELSE FollowUps(d),
             Start(c, w, d)
      PROVE  ClientInv'
  <2>1. Argued(w)
    BY <1>2, <1>3, Zenon
  <2> QED
    BY <1>4, <2>1, StartInv, Zenon
<1>5. ASSUME NEW c \in Calls, Receive(c) \/ Expire(c) \/ Cancel(c) \/ Break(c) \/ Handle(c)
      PROVE  ClientInv'
  BY <1>5, ReceiveInv, FailInv, HandleInv, Zenon DEF Expire, Cancel, Break
<1>6. ASSUME NEW d \in Dials, Dial(d.kind, d.path, d.opts) PROVE ClientInv'
  BY <1>1, <1>6, Zenon DEF Dial
<1> QED
  BY <1>1, <1>4, <1>5, <1>6, CloseInv, Zenon DEF Next, vars

LEMMA ClientInvariant == Spec => []ClientInv
  BY InitInv, NextInv, PTL DEF Spec

LEMMA InvTells ==
  ASSUME ClientInv PROVE ErrorTellsEffect
<1> SUFFICES ASSUME NEW c \in Calls
             PROVE  /\ Cardinality(Mine(c, log)) <= 1
                    /\ call[c].state = "returned" =>
                         /\ HasReason(call[c].err) => PartOnly(c, call[c], log)
                         /\ call[c].err = nil /\ rpc(call[c].op) \in Mutations =>
                              Whole(c, call[c], log)
  BY Zenon DEF ErrorTellsEffect, Mine, HasReason, PartOnly, Whole, Imports
<1>1. Sound(c, call[c], wire[c], log)
  BY Zenon DEF ClientInv
<1>2. \A i, j \in Mine(c, log) : i = j
  BY <1>1, Zenon DEF Sound
<1>3. Cardinality(Mine(c, log)) <= 1
  <2>1. CASE Mine(c, log) = {}
    BY <2>1, FS_EmptySet
  <2>2. CASE Mine(c, log) # {}
    <3>1. PICK i : Mine(c, log) = {i}
      BY <1>2, <2>2
    <3> QED
      BY <3>1, FS_Singleton
  <2> QED
    BY <2>1, <2>2
<1> QED
  BY <1>1, <1>3, Zenon DEF Sound

\* What a call returns tells what the broker has done for it, for every
\* method, whoever else calls and whenever the connection breaks, the context
\* ends or the client is closed: with a reason nothing was done, or a part of
\* the set to import; without an error all of it, once.
THEOREM ErrorTells == Spec => []ErrorTellsEffect
  BY ClientInvariant, InvTells, PTL

LEMMA InvLists ==
  ASSUME ClientInv PROVE CatalogComplete
<1> SUFFICES ASSUME NEW c \in Calls, call[c].op = "ListCatalog", NEW res \in call[c].result
             PROVE  res = [i \in DOMAIN Visible(call[c].a.prefix) |->
                             catalogEntryFromProto(Visible(call[c].a.prefix)[i])]
  BY Zenon DEF CatalogComplete
<1>1. PICK es : es = Visible(call[c].a.prefix)
  OBVIOUS
<1>2. Sound(c, call[c], wire[c], log)
  BY Zenon DEF ClientInv
<1>3. Slice(es) /\ CatalogOK(es, call[c], wire[c])
  BY <1>1, <1>2, Zenon DEF Sound, Argued
<1>4. DOMAIN es = 1 .. Len(es)
  BY <1>3, SliceSeq
<1>5. res = Converted(es, Len(es))
  BY <1>3, Zenon DEF CatalogOK
<1> QED
  BY <1>1, <1>4, <1>5, Zenon DEF Converted

\* ListCatalog returns the whole catalog or an error, however long it is and
\* wherever its stream fails.
THEOREM ListsAll == Spec => []CatalogComplete
  BY ClientInvariant, InvLists, PTL

-----------------------------------------------------------------------------
\* The options of a client.

\* g gives the config after the first n options, for n up to m.
Configs(opts, m, g) ==
  g = [n \in 0 .. m |-> IF n = 0 THEN [timeout |-> DefaultTimeout, dialOptions |-> <<>>]
                        ELSE applyOption(g[n - 1], opts[n])]

LEMMA ConfigsExist ==
  ASSUME NEW opts, NEW m \in Nat
  PROVE  \E g : Configs(opts, m, g)
<1> DEFINE bad == {n \in Nat : ~\E g : Configs(opts, n, g)}
<1> SUFFICES ASSUME bad # {} PROVE FALSE
  BY Zenon
<1>1. PICK n \in bad : \A k \in bad : n <= k
  BY LeastNat, Zenon
<1>2. n \in Nat /\ ~\E g : Configs(opts, n, g)
  BY <1>1, Zenon
<1>3. PICK base : base = [timeout |-> DefaultTimeout, dialOptions |-> <<>>]
  OBVIOUS
<1>4. n # 0
  <2>1. PICK g : g = [i \in 0 .. 0 |-> base]
    OBVIOUS
  <2>2. Configs(opts, 0, g)
    BY <1>3, <2>1 DEF Configs
  <2> QED
    BY <1>2, <2>2, Zenon
<1>5. n - 1 \in Nat /\ n - 1 \notin bad
  <2>1. n - 1 \in Nat /\ ~(n <= n - 1)
    BY <1>2, <1>4
  <2> QED
    BY <1>1, <2>1, Zenon
<1>6. PICK g : Configs(opts, n - 1, g)
  BY <1>5, Zenon
<1> HIDE DEF bad
<1>7. PICK h : h = [i \in 0 .. n |-> IF i = n THEN applyOption(g[n - 1], opts[n]) ELSE g[i]]
  OBVIOUS
<1>8. Configs(opts, n, h)
  <2> SUFFICES ASSUME NEW i \in 0 .. n
               PROVE  h[i] = IF i = 0 THEN base ELSE applyOption(h[i - 1], opts[i])
    BY <1>3, <1>7 DEF Configs
  <2>1. \A k \in 0 .. n - 1 : h[k] = g[k]
    BY <1>2, <1>7
  <2>2. CASE i = n
    BY <1>2, <1>4, <1>7, <2>1, <2>2
  <2>3. CASE i # n
    <3>1. i \in 0 .. n - 1 /\ (i # 0 => i - 1 \in 0 .. n - 1)
      BY <1>2, <2>3
    <3>2. g[i] = IF i = 0 THEN base ELSE applyOption(g[i - 1], opts[i])
      BY <1>3, <1>6, <3>1 DEF Configs
    <3> QED
      BY <2>1, <3>1, <3>2
  <2> QED
    BY <2>2, <2>3
<1> QED
  BY <1>2, <1>8, Zenon

IsSeq(s) == \E S : s \in Seq(S)

LEMMA JoinSeq ==
  ASSUME NEW s, NEW t, IsSeq(s), IsSeq(t) PROVE IsSeq(s \o t)
<1>1. PICK S : s \in Seq(S)
  BY DEF IsSeq
<1>2. PICK T : t \in Seq(T)
  BY DEF IsSeq
<1>3. s \in Seq(S \cup T) /\ t \in Seq(S \cup T)
  BY <1>1, <1>2
<1>4. s \o t \in Seq(S \cup T)
  BY <1>3
<1> QED
  BY <1>4 DEF IsSeq

\* Whatever options are applied, the dial options are a sequence.
LEMMA ConfiguredSeq ==
  ASSUME NEW opts, Slice(opts), \A k \in DOMAIN opts : Slice(opts[k].dialOptions)
  PROVE  IsSeq(configured(opts)[Len(opts)].dialOptions)
<1>1. PICK g : g = configured(opts)
  OBVIOUS
<1>2. Len(opts) \in Nat /\ DOMAIN opts = 1 .. Len(opts)
  BY SliceSeq DEF Slice
<1>3. Configs(opts, Len(opts), g)
  <2>1. configured(opts) = CHOOSE f : Configs(opts, Len(opts), f)
    BY Zenon DEF configured, Configs
  <2> QED
    BY <1>1, <1>2, <2>1, ConfigsExist, Zenon
<1>4. PICK base, top : /\ base = [timeout |-> DefaultTimeout, dialOptions |-> <<>>]
                       /\ top = Len(opts)
  OBVIOUS
<1>5. ASSUME NEW n \in 0 .. top
      PROVE  g[n] = IF n = 0 THEN base ELSE applyOption(g[n - 1], opts[n])
  BY <1>3, <1>4 DEF Configs
<1> DEFINE bad == {n \in 0 .. top : ~IsSeq(g[n].dialOptions)}
<1>6. bad = {}
  <2> SUFFICES ASSUME bad # {} PROVE FALSE
    OBVIOUS
  <2>1. bad \subseteq Nat
    BY <1>2, <1>4
  <2>2. PICK n \in bad : \A k \in bad : n <= k
    BY <2>1, LeastNat
  <2>3. n \in 0 .. top /\ ~IsSeq(g[n].dialOptions) /\ top \in Nat
    BY <1>2, <1>4, <2>2
  <2>4. n # 0
    <3>1. g[0] = base /\ base.dialOptions = <<>>
      BY <1>4, <1>5, <2>3
    <3>2. <<>> \in Seq({})
      OBVIOUS
    <3> QED
      BY <2>3, <3>1, <3>2, Zenon DEF IsSeq
  <2>5. n - 1 \in 0 .. top /\ ~(n <= n - 1) /\ n \in 1 .. top
    BY <2>3, <2>4
  <2>6. IsSeq(g[n - 1].dialOptions)
    BY <2>2, <2>5, Zenon
  <2>7. IsSeq(opts[n].dialOptions)
    <3>1. Slice(opts[n].dialOptions)
      BY <1>2, <1>4, <2>5, Zenon
    <3> QED
      BY <3>1, SliceSeq DEF IsSeq
  <2>8. g[n] = applyOption(g[n - 1], opts[n])
    BY <1>5, <2>3, <2>4, Zenon
  <2>9. g[n].dialOptions = g[n - 1].dialOptions \o opts[n].dialOptions
    <3>1. ASSUME NEW cfg, NEW opt
          PROVE  applyOption(cfg, opt).dialOptions = cfg.dialOptions \o opt.dialOptions
      BY Zenon DEF applyOption
    <3> QED
      BY <2>8, <3>1, Zenon
  <2> QED
    BY <2>3, <2>6, <2>7, <2>9, JoinSeq, Zenon
<1>7. top \in 0 .. top
  BY <1>2, <1>4
<1> QED
  BY <1>1, <1>4, <1>6, <1>7, Zenon

\* Option j of f is the last one that sets what.
LastSets(f, j, what) ==
  /\ j \in DOMAIN f /\ f[j].sets = what
  /\ \A k \in DOMAIN f : k > j => f[k].sets # what

\* With f after the options u, option j of f decides what.
Decides(u, f, j, what) == Setting(u \o f, what) = f[j].to

\* The last of the fixed options that sets something decides it.
LEMMA SettingFixed ==
  ASSUME NEW u, NEW f, NEW j, NEW what, IsSeq(u), IsSeq(f), LastSets(f, j, what)
  PROVE  Decides(u, f, j, what)
<1>0. /\ j \in DOMAIN f /\ f[j].sets = what
      /\ \A k \in DOMAIN f : k > j => f[k].sets # what
  BY Zenon DEF LastSets
<1>1. PICK S, T : f \in Seq(S) /\ u \in Seq(T)
  BY DEF IsSeq
<1>2. u \in Seq(S \cup T) /\ f \in Seq(S \cup T)
  BY <1>1
<1>3. PICK o, n : o = u \o f /\ n = Len(u)
  OBVIOUS
<1>4. /\ n \in Nat /\ Len(f) \in Nat /\ DOMAIN f = 1 .. Len(f) /\ DOMAIN o = 1 .. n + Len(f)
      /\ \A k \in 1 .. Len(f) : o[n + k] = f[k]
  BY <1>2, <1>3
<1> DEFINE set == {k \in DOMAIN o : o[k].sets = what}
<1>5. n + j \in set /\ j \in Nat
  BY <1>0, <1>4
<1>6. ASSUME NEW k \in set PROVE n + j >= k
  <2>1. k \in 1 .. n + Len(f) /\ o[k].sets = what
    BY <1>4
  <2> SUFFICES ASSUME k > n + j PROVE FALSE
    BY <1>4, <1>5, <2>1
  <2>2. k - n \in 1 .. Len(f) /\ k - n > j /\ n + (k - n) = k
    BY <1>4, <1>5, <2>1
  <2>3. o[k] = f[k - n]
    <3>1. PICK i : i = k - n
      OBVIOUS
    <3>2. i \in 1 .. Len(f) /\ n + i = k
      BY <2>2, <3>1
    <3>3. o[n + i] = f[i]
      BY <1>4, <3>2, Zenon
    <3> QED
      BY <3>1, <3>2, <3>3, Zenon
  <2> QED
    BY <1>0, <1>4, <2>1, <2>2, <2>3, Zenon
<1>7. set \subseteq Nat
  BY <1>4
<1> HIDE DEF set
<1>8. Max(set) = n + j
  <2>1. \E x \in set : \A y \in set : x >= y
    BY <1>5, <1>6, Zenon
  <2>2. Max(set) \in set /\ \A y \in set : Max(set) >= y
    BY <2>1, Zenon DEF Max
  <2>3. Max(set) >= n + j /\ n + j >= Max(set) /\ Max(set) \in Nat
    BY <1>5, <1>6, <1>7, <2>2, Zenon
  <2> QED
    BY <1>4, <1>5, <2>3
<1>9. Setting(o, what) = o[Max(set)].to
  BY Zenon DEF Setting, set
<1>10. o[n + j] = f[j]
  BY <1>0, <1>4
<1> QED
  BY <1>3, <1>8, <1>9, <1>10, Zenon DEF Decides

\* The options of a client that was made end with those of its package.
OptionsInv ==
  /\ DOMAIN client = {"kind", "state", "timeout", "path", "options"}
  /\ client.state \in {"open", "closed"} =>
       /\ client.kind \in {"basil", "spiffe"}
       /\ \E u : IsSeq(u) /\ client.options = u \o fixedOptions(client.kind, client.path)

LEMMA OptionsNext ==
  ASSUME OptionsInv, [Next]_vars PROVE OptionsInv'
<1>1. CASE UNCHANGED client
  BY <1>1, Zenon DEF OptionsInv
<1>2. ASSUME NEW d \in Dials, Dial(d.kind, d.path, d.opts) PROVE OptionsInv'
  <2>1. PICK cfg : cfg = configured(d.opts)[Len(d.opts)]
    OBVIOUS
  <2>2. CASE client' = [NoClient EXCEPT !.state = "failed"]
    <3>1. DOMAIN NoClient = {"kind", "state", "timeout", "path", "options"}
      BY Zenon DEF NoClient
    <3>2. PICK none : none = NoClient
      OBVIOUS
    <3>3. /\ client' = [none EXCEPT !.state = "failed"]
          /\ DOMAIN none = {"kind", "state", "timeout", "path", "options"}
      BY <2>2, <3>1, <3>2, Zenon
    <3>4. /\ DOMAIN client' = {"kind", "state", "timeout", "path", "options"}
          /\ client'.state = "failed"
      BY ONLY <3>3
    <3>5. client'.state \notin {"open", "closed"}
      BY ONLY <3>4
    <3> QED
      BY <3>4, <3>5, Zenon DEF OptionsInv
  <2>3. CASE client' = [kind |-> d.kind, state |-> "open", timeout |-> cfg.timeout,
                        path |-> d.path, options |-> dialOptions(d.kind, d.path, cfg)]
    <3>1. d.kind \in {"basil", "spiffe"} /\ IsSeq(cfg.dialOptions)
      BY <2>1, ClientAssumption, ConfiguredSeq, Zenon
    <3>2. PICK o : o = dialOptions(d.kind, d.path, cfg)
      OBVIOUS
    <3>3. o = cfg.dialOptions \o fixedOptions(d.kind, d.path)
      BY <3>2, Zenon DEF dialOptions
    <3>4. PICK k, t, a : k = d.kind /\ t = cfg.timeout /\ a = d.path
      OBVIOUS
    <3>5. client' = [kind |-> k, state |-> "open", timeout |-> t, path |-> a, options |-> o]
      BY <2>3, <3>2, <3>4, Zenon
    <3>6. /\ DOMAIN client' = {"kind", "state", "timeout", "path", "options"}
          /\ client'.kind = k /\ client'.path = a /\ client'.options = o
      BY ONLY <3>5
    <3> QED
      BY <3>1, <3>3, <3>4, <3>6, Zenon DEF OptionsInv
  <2> QED
    BY <1>2, <2>1, <2>2, <2>3, Zenon DEF Dial
<1>3. ASSUME Close PROVE OptionsInv'
  <2>1. client.state = "open" /\ client' = [client EXCEPT !.state = "closed"]
    BY <1>3, Zenon DEF Close
  <2>2. DOMAIN client = {"kind", "state", "timeout", "path", "options"}
    BY DEF OptionsInv
  <2>3. /\ DOMAIN client' = DOMAIN client
        /\ client'.kind = client.kind /\ client'.path = client.path
        /\ client'.options = client.options
    BY ONLY <2>1, <2>2
  <2>4. client.state \in {"open", "closed"}
    BY <2>1
  <2> QED
    BY <2>2, <2>3, <2>4, Zenon DEF OptionsInv
<1>4. ASSUME NEW c, NEW w, NEW d, Start(c, w, d) PROVE UNCHANGED client
  BY <1>4, Zenon DEF Start
<1>5. ASSUME NEW c, Receive(c) \/ Expire(c) \/ Cancel(c) \/ Break(c) \/ Handle(c)
      PROVE  UNCHANGED client
  <2>1. CASE Receive(c)
    BY <2>1, Zenon DEF Receive
  <2>2. CASE Expire(c) \/ Cancel(c) \/ Break(c)
    BY <2>2, Zenon DEF Expire, Cancel, Break, Fail
  <2>3. CASE Handle(c)
    BY <2>3, Zenon DEF Handle
  <2> QED
    BY <1>5, <2>1, <2>2, <2>3
<1> QED
  BY <1>1, <1>2, <1>3, <1>4, <1>5, Zenon DEF Next, vars

LEMMA OptionsWin ==
  ASSUME OptionsInv PROVE FixedOptionsWin
<1> SUFFICES ASSUME client.state \in {"open", "closed"}
             PROVE  /\ Setting(client.options, "authority") = "localhost"
                    /\ client.kind = "basil" =>
                         /\ Setting(client.options, "credentials") = "insecure"
                         /\ Setting(client.options, "dialer") = client.path
                    /\ client.kind = "spiffe" =>
                         Setting(client.options, "address") = socketAddr(client.path)
  BY Zenon DEF FixedOptionsWin
<1>1. client.kind \in {"basil", "spiffe"}
  BY Zenon DEF OptionsInv
<1>2. PICK u : IsSeq(u) /\ client.options = u \o fixedOptions(client.kind, client.path)
  BY Zenon DEF OptionsInv
<1>3. PICK path, addr : path = client.path /\ addr = socketAddr(client.path)
  OBVIOUS
<1>4. CASE client.kind = "basil"
  <2>1. PICK f : f = <<[sets |-> "credentials", to |-> "insecure"],
                       [sets |-> "authority", to |-> "localhost"],
                       [sets |-> "dialer", to |-> path]>>
    OBVIOUS
  <2>2. client.options = u \o f
    BY <1>2, <1>3, <1>4, <2>1 DEF fixedOptions
  <2>3. /\ f \in Seq({f[1], f[2], f[3]}) /\ DOMAIN f = {1, 2, 3}
        /\ f[1].sets = "credentials" /\ f[2].sets = "authority" /\ f[3].sets = "dialer"
        /\ f[1].to = "insecure" /\ f[2].to = "localhost" /\ f[3].to = path
    BY ONLY <2>1
  <2>4. /\ \A k \in DOMAIN f : k > 1 => f[k].sets # "credentials"
        /\ \A k \in DOMAIN f : k > 2 => f[k].sets # "authority"
        /\ \A k \in DOMAIN f : k > 3 => f[k].sets # "dialer"
    BY ONLY <2>3
  <2>5. /\ LastSets(f, 1, "credentials") /\ LastSets(f, 2, "authority")
        /\ LastSets(f, 3, "dialer") /\ IsSeq(f)
    BY ONLY <2>3, <2>4 DEF LastSets, IsSeq
  <2>6. Setting(client.options, "credentials") = "insecure"
    <3>1. Decides(u, f, 1, "credentials")
      BY <1>2, <2>5, SettingFixed, Zenon
    <3> QED
      BY <2>2, <2>3, <3>1, Zenon DEF Decides
  <2>7. Setting(client.options, "authority") = "localhost"
    <3>1. Decides(u, f, 2, "authority")
      BY <1>2, <2>5, SettingFixed, Zenon
    <3> QED
      BY <2>2, <2>3, <3>1, Zenon DEF Decides
  <2>8. Setting(client.options, "dialer") = path
    <3>1. Decides(u, f, 3, "dialer")
      BY <1>2, <2>5, SettingFixed, Zenon
    <3> QED
      BY <2>2, <2>3, <3>1, Zenon DEF Decides
  <2> QED
    BY <1>3, <1>4, <2>6, <2>7, <2>8
<1>5. CASE client.kind = "spiffe"
  <2>1. PICK f : f = <<[sets |-> "address", to |-> addr], [sets |-> "authority", to |-> "localhost"]>>
    OBVIOUS
  <2>2. client.options = u \o f
    BY <1>2, <1>3, <1>5, <2>1 DEF fixedOptions, boundOptions
  <2>3. /\ f \in Seq({f[1], f[2]}) /\ DOMAIN f = {1, 2}
        /\ f[1].sets = "address" /\ f[2].sets = "authority"
        /\ f[1].to = addr /\ f[2].to = "localhost"
    BY ONLY <2>1
  <2>4. /\ \A k \in DOMAIN f : k > 1 => f[k].sets # "address"
        /\ \A k \in DOMAIN f : k > 2 => f[k].sets # "authority"
    BY ONLY <2>3
  <2>5. LastSets(f, 1, "address") /\ LastSets(f, 2, "authority") /\ IsSeq(f)
    BY ONLY <2>3, <2>4 DEF LastSets, IsSeq
  <2>6. Setting(client.options, "address") = addr
    <3>1. Decides(u, f, 1, "address")
      BY <1>2, <2>5, SettingFixed, Zenon
    <3> QED
      BY <2>2, <2>3, <3>1, Zenon DEF Decides
  <2>7. Setting(client.options, "authority") = "localhost"
    <3>1. Decides(u, f, 2, "authority")
      BY <1>2, <2>5, SettingFixed, Zenon
    <3> QED
      BY <2>2, <2>3, <3>1, Zenon DEF Decides
  <2> QED
    BY <1>3, <1>5, <2>6, <2>7
<1> QED
  BY <1>1, <1>4, <1>5

LEMMA OptionsInvariant == Spec => []OptionsInv
<1>1. Init => OptionsInv
  <2> SUFFICES ASSUME Init PROVE OptionsInv
    OBVIOUS
  <2>1. /\ DOMAIN NoClient = {"kind", "state", "timeout", "path", "options"}
        /\ NoClient.state = "none"
    BY Zenon DEF NoClient
  <2>2. "none" \notin {"open", "closed"}
    BY ONLY TRUE
  <2> QED
    BY <2>1, <2>2, Zenon DEF Init, OptionsInv
<1> QED
  BY <1>1, OptionsNext, PTL DEF Spec

\* No option of the caller's decides where a client connects to or as what,
\* for any number of options in any order.
THEOREM FixedWin == Spec => []FixedOptionsWin
  BY OptionsInvariant, OptionsWin, PTL

-----------------------------------------------------------------------------
\* The expiry of credentials.

\* The expiry that a method's arguments ask for.
AskedExpiry(op, a) ==
  IF a.TTL > 0 THEN Now + a.TTL
  ELSE IF op = "SignNatsJwt" THEN a.ExpiresAt ELSE ZeroTime

\* The request of a method that mints says what its arguments ask for.
LEMMA MintRequests ==
  ASSUME NEW op \in CredentialMethods, NEW a
  PROVE  Expiry(request(op, a)) =
           {Now + d : d \in durationOrNil(a.TTL)} \cup
           (IF op = "SignNatsJwt" THEN timestampOrNil(a.ExpiresAt) ELSE {})
<1>1. ASSUME NEW q, q.Ttl = durationOrNil(a.TTL), "ExpiresAt" \notin DOMAIN q
      PROVE  Expiry(q) = {Now + d : d \in durationOrNil(a.TTL)}
  BY <1>1, Zenon DEF Expiry
<1>2. CASE op = "SignNatsJwt"
  <2>1. request(op, a) = SignNatsJwt(a)
    BY <1>2, Zenon DEF request
  <2>2. /\ SignNatsJwt(a).Ttl = durationOrNil(a.TTL)
        /\ SignNatsJwt(a).ExpiresAt = timestampOrNil(a.ExpiresAt)
        /\ "ExpiresAt" \in DOMAIN SignNatsJwt(a)
    BY Zenon DEF SignNatsJwt
  <2> QED
    BY <1>2, <2>1, <2>2, Zenon DEF Expiry
<1>3. CASE op = "MintJwt"
  <2>1. request(op, a) = MintJwt(a)
    BY <1>3, Zenon DEF request
  <2>2. MintJwt(a).Ttl = durationOrNil(a.TTL) /\ "ExpiresAt" \notin DOMAIN MintJwt(a)
    BY Zenon DEF MintJwt
  <2> QED
    BY <1>1, <1>3, <2>1, <2>2, Zenon
<1>4. CASE op = "MintNatsUser"
  <2>1. request(op, a) = MintNatsUser(a)
    BY <1>4, Zenon DEF request
  <2>2. MintNatsUser(a).Ttl = durationOrNil(a.TTL) /\ "ExpiresAt" \notin DOMAIN MintNatsUser(a)
    BY Zenon DEF MintNatsUser
  <2> QED
    BY <1>1, <1>4, <2>1, <2>2, Zenon
<1>5. CASE op = "MintNatsAccount"
  <2>1. request(op, a) = MintNatsAccount(a)
    BY <1>5, Zenon DEF request
  <2>2. /\ MintNatsAccount(a).Ttl = durationOrNil(a.TTL)
        /\ "ExpiresAt" \notin DOMAIN MintNatsAccount(a)
    BY Zenon DEF MintNatsAccount
  <2> QED
    BY <1>1, <1>5, <2>1, <2>2, Zenon
<1>6. CASE op = "MintNatsOperator"
  <2>1. request(op, a) = MintNatsOperator(a)
    BY <1>6, Zenon DEF request
  <2>2. /\ MintNatsOperator(a).Ttl = durationOrNil(a.TTL)
        /\ "ExpiresAt" \notin DOMAIN MintNatsOperator(a)
    BY Zenon DEF MintNatsOperator
  <2> QED
    BY <1>1, <1>6, <2>1, <2>2, Zenon
<1>7. CASE op \in {"MintNatsSigner", "MintNatsServer", "MintNatsCurve"}
  <2>1. \/ op = "MintNatsSigner" /\ request(op, a) = MintNatsSigner(a)
        \/ op = "MintNatsServer" /\ request(op, a) = MintNatsServer(a)
        \/ op = "MintNatsCurve" /\ request(op, a) = MintNatsCurve(a)
    BY <1>7, Zenon DEF request
  <2>2. /\ MintNatsSigner(a).Ttl = durationOrNil(a.TTL)
        /\ "ExpiresAt" \notin DOMAIN MintNatsSigner(a)
        /\ MintNatsServer(a).Ttl = durationOrNil(a.TTL)
        /\ "ExpiresAt" \notin DOMAIN MintNatsServer(a)
        /\ MintNatsCurve(a).Ttl = durationOrNil(a.TTL)
        /\ "ExpiresAt" \notin DOMAIN MintNatsCurve(a)
    BY Zenon DEF MintNatsSigner, MintNatsServer, MintNatsCurve
  <2>3. op # "SignNatsJwt"
    BY <1>7
  <2> QED
    BY <1>1, <2>1, <2>2, <2>3, Zenon
<1> QED
  BY <1>2, <1>3, <1>4, <1>5, <1>6, <1>7, Zenon DEF CredentialMethods

\* The broker answers a request for a credential with at most one expiry:
\* the one that was asked for.
LEMMA MintedExpiry ==
  ASSUME NEW op \in CredentialMethods, NEW a, a.TTL \in Int, NEW m,
         ~(Cardinality(Expiry(request(op, a))) > 1), m.ExpiresAt = Expiry(request(op, a))
  PROVE  credentialFromProto(m).ExpiresAt = AskedExpiry(op, a)
<1>1. PICK E, t, e, b :
        /\ E = Expiry(request(op, a)) /\ t = a.TTL /\ e = a.ExpiresAt
        /\ b = (op = "SignNatsJwt")
  OBVIOUS
<1>2. E = {Now + d : d \in durationOrNil(t)} \cup (IF b THEN timestampOrNil(e) ELSE {})
  BY <1>1, MintRequests, Zenon
<1>3. /\ t > 0 => E = {Now + t} \cup (IF b /\ e # ZeroTime THEN {e} ELSE {})
      /\ ~(t > 0) => E = IF b /\ e # ZeroTime THEN {e} ELSE {}
  <2>1. t \in Int
    BY <1>1
  <2>2. CASE t > 0
    <3>1. {Now + d : d \in durationOrNil(t)} = {Now + t}
      BY <2>1, <2>2 DEF durationOrNil
    <3> QED
      BY <1>2, <2>2, <3>1, Zenon DEF timestampOrNil
  <2>3. CASE ~(t > 0)
    <3>1. {Now + d : d \in durationOrNil(t)} = {}
      BY <2>1, <2>3 DEF durationOrNil
    <3> QED
      BY <1>2, <2>3, <3>1, Zenon DEF timestampOrNil
  <2> QED
    BY <2>2, <2>3
<1> DEFINE C(S) == CHOOSE x \in S : TRUE
<1>4. credentialFromProto(m).ExpiresAt = IF E = {} THEN ZeroTime ELSE C(E)
  <2>1. m.ExpiresAt = E
    BY <1>1
  <2>2. credentialFromProto(m).ExpiresAt =
          IF m.ExpiresAt = {} THEN ZeroTime ELSE C(m.ExpiresAt)
    BY Zenon DEF credentialFromProto
  <2> HIDE DEF C
  <2> QED
    BY <2>1, <2>2, Zenon
<1>5. AskedExpiry(op, a) = IF t > 0 THEN Now + t ELSE IF b THEN e ELSE ZeroTime
  BY <1>1, Zenon DEF AskedExpiry
<1>6. t > 0 => E = {Now + t}
  <2> SUFFICES ASSUME t > 0, b, e # ZeroTime, e # Now + t PROVE FALSE
    BY <1>3, Zenon
  <2>1. E = {Now + t} \cup {e}
    BY <1>3, Zenon
  <2>2. PICK u : u = Now + t
    OBVIOUS
  <2>3. Cardinality({u}) = 1 /\ IsFiniteSet({u})
    BY FS_Singleton
  <2>4. Cardinality({u} \cup {e}) = 2
    <3>1. e \notin {u}
      BY <2>2
    <3>2. Cardinality({u} \cup {e}) = Cardinality({u}) + 1
      BY <2>3, <3>1, FS_AddElement, Zenon
    <3> QED
      BY <2>3, <3>2
  <2>5. Cardinality(E) = 2
    BY <2>1, <2>2, <2>4, Zenon
  <2> QED
    BY <1>1, <2>5
<1>7. \A x : C({x}) = x
  BY Zenon
<1> HIDE DEF C
<1> QED
  BY <1>3, <1>4, <1>5, <1>6, <1>7, Zenon

\* A reply to a request for a credential: an error, or the one expiry that
\* the request says.
Grants(x, reply) ==
  /\ reply.kind # "EOF"
  /\ reply.kind = "message" =>
       /\ ~(Cardinality(Expiry(request(x.op, x.a))) > 1)
       /\ reply.message.ExpiresAt = Expiry(request(x.op, x.a))

\* A call that asks for a credential, at each of its stages.
Minting(x, w) ==
  x.op \in CredentialMethods =>
    /\ x.a.TTL \in Int
    /\ \A q \in w.req : q = request(x.op, x.a)
    /\ \A k \in DOMAIN w.replies : Grants(x, w.replies[k])
    /\ \A res \in x.result : res.ExpiresAt = AskedExpiry(x.op, x.a)

MintingInv == \A c \in Calls : Minting(call[c], wire[c])

\* The replies rs are some of ws; the results are credentials that expire as
\* the call x asks.
Among(rs, ws) == \A k \in DOMAIN rs : \E j \in DOMAIN ws : rs[k] = ws[j]
AsAsked(x, results) ==
  x.op \in CredentialMethods => \A res \in results : res.ExpiresAt = AskedExpiry(x.op, x.a)

\* A call keeps the predicate when it keeps its method and arguments, its
\* request and the replies that are left of those that came.
LEMMA MintingKept ==
  ASSUME NEW x, NEW w, NEW y, NEW v, Minting(x, w), y.op = x.op, y.a = x.a, v.req = w.req,
         Among(v.replies, w.replies), AsAsked(x, y.result)
  PROVE  Minting(y, v)
<1>1. \A reply : Grants(y, reply) <=> Grants(x, reply)
  BY Zenon DEF Grants
<1> QED
  BY <1>1, Zenon DEF Minting, Among, AsAsked

LEMMA StartMinting ==
  ASSUME ClientInv, MintingInv, NEW c \in Calls, NEW w, NEW after, Start(c, w, after),
         w.op \in CredentialMethods => w.a.TTL \in Int
  PROVE  MintingInv'
<1>1. PICK begun : begun = [NoCall EXCEPT !.client = w.client, !.op = w.op, !.a = w.a,
                                          !.deadline = w.deadline, !.after = after]
  OBVIOUS
<1>2. call[c] = NoCall /\ wire[c] = NoRequest
  <2>1. call[c].state = "idle" /\ Sound(c, call[c], wire[c], log)
    BY Zenon DEF Start, ClientInv
  <2> QED
    BY <2>1, Zenon DEF Sound
<1>3. DOMAIN NoCall = CallFields /\ NoCall.result = {}
  BY Zenon DEF NoCall, CallFields
<1>4. DOMAIN begun = CallFields /\ begun.result = {} /\ begun.op = w.op /\ begun.a = w.a
  <2>1. PICK none : none = NoCall
    OBVIOUS
  <2>2. /\ DOMAIN none = CallFields /\ none.result = {}
        /\ begun = [none EXCEPT !.client = w.client, !.op = w.op, !.a = w.a,
                                !.deadline = w.deadline, !.after = after]
    BY <1>1, <1>3, <2>1
  <2> QED
    BY ONLY <2>2 DEF CallFields
<1>5. NoRequest.req = {} /\ \A k : k \notin DOMAIN NoRequest.replies
  BY DEF NoRequest
<1>6. ASSUME NEW y, NEW v, y.op = w.op, y.a = w.a, y.result = {},
             v.req = {} \/ v.req = {IF w.op \in SpiffeMethods THEN w.a ELSE request(w.op, w.a)},
             \A k : k \notin DOMAIN v.replies,
             call' = [call EXCEPT ![c] = y], wire' = [wire EXCEPT ![c] = v]
      PROVE  MintingInv'
  <2>1. w.op \in CredentialMethods => w.op \notin SpiffeMethods
    BY DEF CredentialMethods, SpiffeMethods
  <2>2. Minting(y, v)
    BY <1>6, <2>1, Zenon DEF Minting
  <2>3. /\ call'[c] = y /\ wire'[c] = v
        /\ \A d \in Calls : d # c => call'[d] = call[d] /\ wire'[d] = wire[d]
    BY <1>6 DEF ClientInv
  <2> QED
    BY <2>2, <2>3, Zenon DEF MintingInv
<1>7. ASSUME NEW err,
             call' = [call EXCEPT ![c] = [begun EXCEPT !.state = "returned", !.err = err]],
             UNCHANGED wire
      PROVE  MintingInv'
  <2>1. PICK y : y = [begun EXCEPT !.state = "returned", !.err = err]
    OBVIOUS
  <2>2. y.op = w.op /\ y.a = w.a /\ y.result = {}
    BY ONLY <1>4, <2>1 DEF CallFields
  <2>3. wire' = [wire EXCEPT ![c] = NoRequest]
    BY <1>2, <1>7 DEF ClientInv
  <2> QED
    BY <1>5, <1>6, <1>7, <2>1, <2>2, <2>3, Zenon
<1>8. CASE /\ call' = [call EXCEPT ![c] =
                [begun EXCEPT !.state = "waiting", !.timed = withTimeout(w)]]
           /\ wire' = [wire EXCEPT ![c].req =
                {IF w.op \in SpiffeMethods THEN w.a ELSE request(w.op, w.a)}]
  <2>1. PICK y, timed : y = [begun EXCEPT !.state = "waiting", !.timed = timed]
                        /\ timed = withTimeout(w)
    OBVIOUS
  <2>2. y.op = w.op /\ y.a = w.a /\ y.result = {}
    BY ONLY <1>4, <2>1 DEF CallFields
  <2>3. PICK q : q = IF w.op \in SpiffeMethods THEN w.a ELSE request(w.op, w.a)
    OBVIOUS
  <2>4. PICK v : v = [NoRequest EXCEPT !.req = {q}]
    OBVIOUS
  <2>5. v.req = {q} /\ \A k : k \notin DOMAIN v.replies
    BY <2>4 DEF NoRequest
  <2>6. wire' = [wire EXCEPT ![c].req = {q}]
    BY <1>8, <2>3, Zenon
  <2>7. wire' = [wire EXCEPT ![c] = v]
    BY <1>2, <2>4, <2>6 DEF ClientInv
  <2> QED
    BY <1>6, <1>8, <2>1, <2>2, <2>3, <2>5, <2>7, Zenon
<1> QED
  BY <1>1, <1>7, <1>8, Zenon DEF Start

\* What a call that returns keeps.
LEMMA Returned ==
  ASSUME ClientInv, NEW c \in Calls, NEW err, NEW res, Return(c, err, res)
  PROVE  /\ call'[c].op = call[c].op /\ call'[c].a = call[c].a /\ call'[c].result = res
         /\ \A d \in Calls : d # c => call'[d] = call[d]
<1>1. PICK x : x = call[c]
  OBVIOUS
<1>2. DOMAIN x = CallFields
  BY <1>1, Zenon DEF ClientInv, Sound
<1>3. PICK y : y = [x EXCEPT !.state = "returned", !.err = err, !.result = res]
  OBVIOUS
<1>4. y.op = x.op /\ y.a = x.a /\ y.result = res
  BY ONLY <1>2, <1>3 DEF CallFields
<1>5. call'[c] = y /\ \A d \in Calls : d # c => call'[d] = call[d]
  BY <1>1, <1>3 DEF Return, ClientInv
<1> QED
  BY <1>1, <1>4, <1>5, Zenon

\* The replies of a call are replaced, and nothing else of its request.
LEMMA Replied ==
  ASSUME ClientInv, NEW c \in Calls, NEW rs, wire' = [wire EXCEPT ![c].replies = rs]
  PROVE  /\ wire'[c].req = wire[c].req /\ wire'[c].replies = rs
         /\ \A d \in Calls : d # c => wire'[d] = wire[d]
<1>1. PICK w, v : w = wire[c] /\ v = [w EXCEPT !.replies = rs]
  OBVIOUS
<1>2. wire' = [d \in Calls |-> IF d = c THEN v ELSE wire[d]]
  BY <1>1, RepliesMove
<1>3. w = [req |-> w.req, handled |-> w.handled, replies |-> w.replies]
  BY <1>1, Zenon DEF ClientInv, Sound
<1>4. PICK q, h, old : q = w.req /\ h = w.handled /\ old = w.replies
  OBVIOUS
<1>5. v.req = q /\ v.replies = rs
  BY ONLY <1>1, <1>3, <1>4
<1> QED
  BY <1>1, <1>2, <1>4, <1>5, Zenon

LEMMA FailMinting ==
  ASSUME ClientInv, MintingInv, NEW c \in Calls, NEW code, Fail(c, code)
  PROVE  MintingInv'
<1>1. Return(c, FromError(GRPCStatus(code, <<>>)), {}) /\ wire' = [wire EXCEPT ![c].replies = <<>>]
  BY Zenon DEF Fail, failed
<1>2. /\ call'[c].op = call[c].op /\ call'[c].a = call[c].a /\ call'[c].result = {}
      /\ \A d \in Calls : d # c => call'[d] = call[d]
  BY <1>1, Returned, Zenon
<1>3. /\ wire'[c].req = wire[c].req /\ wire'[c].replies = <<>>
      /\ \A d \in Calls : d # c => wire'[d] = wire[d]
  BY <1>1, Replied, Zenon
<1>4. \A k : k \notin DOMAIN <<>>
  OBVIOUS
<1>5. Minting(call[c], wire[c])
  BY Zenon DEF MintingInv
<1>6. Among(wire'[c].replies, wire[c].replies) /\ AsAsked(call[c], call'[c].result)
  BY <1>2, <1>3, <1>4, Zenon DEF Among, AsAsked
<1>7. Minting(call'[c], wire'[c])
  BY <1>2, <1>3, <1>5, <1>6, MintingKept, Zenon
<1> QED
  BY <1>2, <1>3, <1>7, Zenon DEF MintingInv

LEMMA CloseMinting ==
  ASSUME ClientInv, MintingInv, Close
  PROVE  MintingInv'
<1> SUFFICES ASSUME NEW c \in Calls PROVE Minting(call'[c], wire'[c])
  BY Zenon DEF MintingInv
<1>1. PICK x, w, err : x = call[c] /\ w = wire[c] /\ err = FromError(GRPCStatus("Canceled", <<>>))
  OBVIOUS
<1>2. /\ call'[c] = IF x.state # "waiting" THEN x
                    ELSE [x EXCEPT !.state = "returned", !.err = err]
      /\ wire'[c] = IF x.state # "waiting" THEN w ELSE [w EXCEPT !.replies = <<>>]
  BY <1>1, Zenon DEF Close
<1>3. Minting(x, w)
  BY <1>1, Zenon DEF MintingInv
<1>4. /\ DOMAIN x = CallFields
      /\ w = [req |-> w.req, handled |-> w.handled, replies |-> w.replies]
  BY <1>1, Zenon DEF ClientInv, Sound
<1>5. CASE x.state = "waiting"
  <2>1. PICK y, v : /\ y = [x EXCEPT !.state = "returned", !.err = err]
                    /\ v = [w EXCEPT !.replies = <<>>]
    OBVIOUS
  <2>2. y.op = x.op /\ y.a = x.a /\ y.result = x.result
    BY ONLY <1>4, <2>1 DEF CallFields
  <2>3. PICK q, h, old : q = w.req /\ h = w.handled /\ old = w.replies
    OBVIOUS
  <2>4. v.req = q /\ v.replies = <<>>
    BY ONLY <1>4, <2>1, <2>3
  <2>5. \A k : k \notin DOMAIN v.replies
    BY <2>4
  <2>6. Among(v.replies, w.replies) /\ AsAsked(x, y.result)
    BY <1>3, <2>2, <2>5, Zenon DEF Minting, Among, AsAsked
  <2>7. Minting(y, v)
    BY <1>3, <2>2, <2>3, <2>4, <2>6, MintingKept, Zenon
  <2> QED
    BY <1>2, <1>5, <2>1, <2>7, Zenon
<1> QED
  BY <1>2, <1>3, <1>5, Zenon

LEMMA ReceiveMinting ==
  ASSUME ClientInv, MintingInv, NEW c \in Calls, Receive(c)
  PROVE  MintingInv'
<1>1. PICK x, w, reply, rs :
        /\ x = call[c] /\ w = wire[c] /\ reply = Head(w.replies) /\ rs = Rest(w.replies)
  OBVIOUS
<1>2. w.replies # <<>> /\ wire' = [wire EXCEPT ![c].replies = rs]
  <2>1. wire' = [wire EXCEPT ![c].replies = Rest(wire[c].replies)]
    BY DEF Receive, Rest
  <2> QED
    BY <1>1, <2>1, Zenon DEF Receive
<1>3. Minting(x, w)
  BY <1>1, Zenon DEF MintingInv
<1>4. /\ wire'[c].req = w.req /\ wire'[c].replies = rs
      /\ \A d \in Calls : d # c => wire'[d] = wire[d]
  BY <1>1, <1>2, Replied, Zenon
<1>5. /\ reply = w.replies[1] /\ 1 \in DOMAIN w.replies
      /\ Among(rs, w.replies)
  <2>1. PICK S, ws : w.replies \in Seq(S) /\ ws = w.replies
    BY <1>1, Zenon DEF ClientInv, Sound
  <2>2. ws \in Seq(S) /\ ws # <<>> /\ rs = (IF Len(ws) > 1 THEN Tail(ws) ELSE ws)
        /\ reply = Head(ws)
    BY <1>1, <1>2, <2>1 DEF Rest
  <2>3. reply = ws[1] /\ 1 \in DOMAIN ws
    BY <2>2
  <2>4. ASSUME NEW k \in DOMAIN rs PROVE \E j \in DOMAIN ws : rs[k] = ws[j]
    <3>1. CASE Len(ws) > 1
      <4>1. k + 1 \in DOMAIN ws /\ rs[k] = ws[k + 1]
        BY <2>2, <2>4, <3>1
      <4> QED
        BY <4>1
    <3>2. CASE ~(Len(ws) > 1)
      BY <2>2, <2>4, <3>2
    <3> QED
      BY <3>1, <3>2
  <2> QED
    BY <2>1, <2>3, <2>4, Zenon DEF Among
<1>6. x.op \in CredentialMethods => Grants(x, reply) /\ x.a.TTL \in Int
  BY <1>3, <1>5, Zenon DEF Minting
<1>7. ASSUME NEW err, NEW res, Return(c, err, res), AsAsked(x, res)
      PROVE  MintingInv'
  <2>1. /\ call'[c].op = x.op /\ call'[c].a = x.a /\ call'[c].result = res
        /\ \A d \in Calls : d # c => call'[d] = call[d]
    BY <1>1, <1>7, Returned, Zenon
  <2>2. Among(wire'[c].replies, w.replies) /\ AsAsked(x, call'[c].result)
    BY <1>4, <1>5, <1>7, <2>1, Zenon
  <2>3. Minting(call'[c], wire'[c])
    BY <1>3, <1>4, <2>1, <2>2, MintingKept, Zenon
  <2> QED
    BY <1>4, <2>1, <2>3, Zenon DEF MintingInv
<1>8. CASE /\ reply.kind = "message" /\ x.op = "ListCatalog"
           /\ call' = [call EXCEPT ![c].entries =
                         Append(@, catalogEntryFromProto(reply.message))]
  <2>1. PICK es : es = Append(x.entries, catalogEntryFromProto(reply.message))
    OBVIOUS
  <2>2. PICK y : y = [x EXCEPT !.entries = es]
    OBVIOUS
  <2>3. DOMAIN x = CallFields
    BY <1>1, Zenon DEF ClientInv, Sound
  <2>4. y.op = x.op
    BY ONLY <2>2, <2>3 DEF CallFields
  <2>5. call'[c] = y /\ \A d \in Calls : d # c => call'[d] = call[d]
    BY <1>1, <1>8, <2>1, <2>2 DEF ClientInv
  <2>6. "ListCatalog" \notin CredentialMethods
    BY DEF CredentialMethods
  <2>7. Minting(call'[c], wire'[c])
    BY <1>8, <2>4, <2>5, <2>6, Zenon DEF Minting
  <2> QED
    BY <1>4, <2>5, <2>7, Zenon DEF MintingInv
<1>9. CASE /\ reply.kind = "message"
           /\ \/ Return(c, clientError, {})
              \/ Return(c, nil, {IF x.op \in SpiffeMethods THEN reply.message
                                 ELSE result(x.op, reply.message)})
  <2>1. CASE Return(c, clientError, {})
    BY <1>7, <2>1, Zenon DEF AsAsked
  <2>2. CASE Return(c, nil, {IF x.op \in SpiffeMethods THEN reply.message
                             ELSE result(x.op, reply.message)})
    <3>1. ASSUME x.op \in CredentialMethods
          PROVE  /\ x.op \notin SpiffeMethods
                 /\ result(x.op, reply.message).ExpiresAt = AskedExpiry(x.op, x.a)
      <4>1. x.op \notin SpiffeMethods
        BY <3>1 DEF CredentialMethods, SpiffeMethods
      <4>2. result(x.op, reply.message) = credentialFromProto(reply.message)
        BY <3>1, Zenon DEF result, CredentialMethods
      <4>3. credentialFromProto(reply.message).ExpiresAt = AskedExpiry(x.op, x.a)
        BY <1>6, <1>9, <3>1, MintedExpiry, Zenon DEF Grants
      <4> QED
        BY <4>1, <4>2, <4>3, Zenon
    <3> QED
      BY <1>7, <2>2, <3>1, Zenon DEF AsAsked
  <2> QED
    BY <1>9, <2>1, <2>2, Zenon
<1>10. CASE reply.kind = "EOF" /\ Return(c, nil, {x.entries})
  BY <1>6, <1>7, <1>10, Zenon DEF Grants, AsAsked
<1>11. CASE reply.kind = "status" /\ Return(c, FromError(reply.status), {})
  BY <1>7, <1>11, Zenon DEF AsAsked
<1> QED
  BY <1>1, <1>8, <1>9, <1>10, <1>11, Zenon DEF Receive, failed

LEMMA HandleMinting ==
  ASSUME ClientInv, MintingInv, NEW c \in Calls, Handle(c)
  PROVE  MintingInv'
<1> DEFINE x == call[c]
           r == rpc(x.op)
           q == CHOOSE p \in wire[c].req : TRUE
           keys == IF r = "ImportSet" THEN Len(q.Entries) ELSE 1
           Sent(rs) == wire' = [wire EXCEPT ![c].handled = TRUE,
                         ![c].replies = IF call[c].state = "waiting" THEN rs ELSE <<>>]
<1>1. /\ wire[c].req # {} /\ UNCHANGED call
      /\ \/ \E m \in Response(r, q, Logged(c, r, q, keys)) : Sent(<<Message(m)>>)
         \/ r = "ListCatalog" /\ \E rs : Sent(rs)
         \/ \E st : Sent(<<Failure(st)>>)
  BY Zenon DEF Handle
<1>2. q \in wire[c].req
  BY <1>1, Zenon
<1>3. Minting(x, wire[c])
  BY Zenon DEF MintingInv
<1> HIDE DEF q, keys
<1>4. /\ \A m : Message(m).kind = "message" /\ Message(m).message = m
      /\ \A st : Failure(st).kind = "status"
  BY DEF Message, Failure
<1>5. ASSUME NEW rs, Sent(rs),
             x.op \in CredentialMethods => \A k \in DOMAIN rs : Grants(x, rs[k])
      PROVE  MintingInv'
  <2>1. PICK w, sent : w = wire[c] /\ sent = IF call[c].state = "waiting" THEN rs ELSE <<>>
    OBVIOUS
  <2>2. PICK v : v = [w EXCEPT !.handled = TRUE, !.replies = sent]
    OBVIOUS
  <2>3. w = [req |-> w.req, handled |-> w.handled, replies |-> w.replies]
    BY <2>1, Zenon DEF ClientInv, Sound
  <2>4. PICK p, h, old : p = w.req /\ h = w.handled /\ old = w.replies
    OBVIOUS
  <2>5. v.req = p /\ v.replies = sent
    BY ONLY <2>2, <2>3, <2>4
  <2>6. wire' = [wire EXCEPT ![c].handled = TRUE, ![c].replies = sent]
    BY <1>5, <2>1, Zenon
  <2>7. wire'[c] = v /\ \A d \in Calls : d # c => wire'[d] = wire[d]
    BY <2>1, <2>2, <2>6 DEF ClientInv
  <2>8. \A k : k \notin DOMAIN <<>>
    OBVIOUS
  <2>9. x.op \in CredentialMethods => \A k \in DOMAIN sent : Grants(x, sent[k])
    BY <1>5, <2>1, <2>8, Zenon
  <2>10. Minting(x, v)
    BY <1>3, <2>1, <2>4, <2>5, <2>9, Zenon DEF Minting
  <2> QED
    BY <1>1, <2>7, <2>10, Zenon DEF MintingInv
<1>6. ASSUME NEW reply, Sent(<<reply>>), x.op \in CredentialMethods => Grants(x, reply)
      PROVE  MintingInv'
  <2>1. \A k \in DOMAIN <<reply>> : <<reply>>[k] = reply
    OBVIOUS
  <2>2. PICK rs : rs = <<reply>>
    OBVIOUS
  <2>3. Sent(rs) /\ \A k \in DOMAIN rs : rs[k] = reply
    BY <1>6, <2>1, <2>2, Zenon
  <2>4. x.op \in CredentialMethods => \A k \in DOMAIN rs : Grants(x, rs[k])
    BY <1>6, <2>3, Zenon
  <2> QED
    BY <1>5, <2>3, <2>4, Zenon
<1>7. x.op \in CredentialMethods => r \in CredentialMethods /\ r # "ListCatalog"
  BY DEF rpc, CredentialMethods
<1>8. ASSUME NEW st, Sent(<<Failure(st)>>) PROVE MintingInv'
  <2>1. "status" # "EOF" /\ "status" # "message"
    BY ONLY TRUE
  <2>2. Grants(x, Failure(st))
    BY <1>4, <2>1, Zenon DEF Grants
  <2> QED
    BY <1>6, <1>8, <2>2, Zenon
<1>9. ASSUME NEW l, NEW m \in Response(r, q, l), Sent(<<Message(m)>>) PROVE MintingInv'
  <2>1. ASSUME x.op \in CredentialMethods PROVE Grants(x, Message(m))
    <3>1. m \in Minted(q, l) /\ q = request(x.op, x.a)
      BY <1>2, <1>3, <1>7, <2>1, Zenon DEF Response, Minting
    <3>2. /\ ~(Cardinality(Expiry(q)) > 1)
          /\ \E token : m = [Token |-> token, ExpiresAt |-> Expiry(q)]
      BY <3>1, Zenon DEF Minted
    <3>3. m.ExpiresAt = Expiry(q)
      BY <3>2
    <3>4. "message" # "EOF"
      BY ONLY TRUE
    <3> QED
      BY <1>4, <3>1, <3>2, <3>3, <3>4, Zenon DEF Grants
  <2> QED
    BY <1>6, <1>9, <2>1, Zenon
<1>10. ASSUME NEW rs, r = "ListCatalog", Sent(rs) PROVE MintingInv'
  BY <1>5, <1>7, <1>10, Zenon
<1> HIDE DEF Sent
<1> QED
  BY <1>1, <1>8, <1>9, <1>10, Zenon

LEMMA NextMinting ==
  ASSUME ClientInv, MintingInv, [Next]_vars PROVE MintingInv'
<1>1. CASE UNCHANGED <<call, wire>>
  BY <1>1, Zenon DEF MintingInv
<1>2. ASSUME NEW w \in Workload, w.op \in CredentialMethods PROVE w.a.TTL \in Int
  BY <1>2, WorkloadTyped, Zenon
<1>3. ASSUME NEW c \in Calls, NEW d \in 0 .. c - 1,
             NEW w \in IF d = 0 THEN {w \in Workload : \A e \in 1 .. c - 1 : Together(call[e], w)}
                       ELSE FollowUps(d),
             Start(c, w, d)
      PROVE  MintingInv'
  <2>1. w.op \in CredentialMethods => w.a.TTL \in Int
    BY <1>2, FollowUpOps, Zenon
  <2> QED
    BY <1>3, <2>1, StartMinting, Zenon
<1>4. ASSUME NEW c \in Calls, Receive(c) \/ Expire(c) \/ Cancel(c) \/ Break(c) \/ Handle(c)
      PROVE  MintingInv'
  BY <1>4, ReceiveMinting, FailMinting, HandleMinting, Zenon DEF Expire, Cancel, Break
<1>5. ASSUME NEW d \in Dials, Dial(d.kind, d.path, d.opts) PROVE MintingInv'
  BY <1>1, <1>5, Zenon DEF Dial
<1> QED
  BY <1>1, <1>3, <1>4, <1>5, CloseMinting, Zenon DEF Next, vars

\* A minted credential expires when its arguments say, for every method that
\* mints, every lifetime and every absolute expiry: a lifetime that is not
\* positive is none on the way out, and no expiry on the way back.
THEOREM ExpiresAsAsked == Spec => []ExpiryAsAsked
<1>1. Init => MintingInv
  <2> SUFFICES ASSUME Init, NEW c \in Calls PROVE Minting(call[c], wire[c])
    BY Zenon DEF MintingInv
  <2>1. call[c].op = ""
    BY Zenon DEF Init, NoCall
  <2>2. "" \notin CredentialMethods
    BY ONLY TRUE DEF CredentialMethods
  <2> QED
    BY <2>1, <2>2, Zenon DEF Minting
<1>2. ASSUME MintingInv PROVE ExpiryAsAsked
  <2> SUFFICES ASSUME NEW c \in Calls, call[c].op \in CredentialMethods,
                      NEW res \in call[c].result
               PROVE  res.ExpiresAt = AskedExpiry(call[c].op, call[c].a)
    BY Zenon DEF ExpiryAsAsked, AskedExpiry
  <2> QED
    BY <1>2, Zenon DEF MintingInv, Minting
<1> QED
  BY <1>1, <1>2, ClientInvariant, NextMinting, PTL DEF Spec

-----------------------------------------------------------------------------
\* What a step does to one call: its record goes from x to y, that of its
\* request from w to v.

\* What a call puts on the wire, and what it makes of an answer.
Outgoing(x) == IF x.op \in SpiffeMethods THEN x.a ELSE request(x.op, x.a)
Incoming(x, m) == IF x.op \in SpiffeMethods THEN m ELSE result(x.op, m)

\* The same call, with the same request.
SameOne(x, w, y, v) ==
  /\ y.client = x.client /\ y.op = x.op /\ y.a = x.a /\ y.after = x.after
  /\ v.req = w.req

Begins(x, w, y, v, z, d) ==
  /\ x = NoCall /\ w = NoRequest
  /\ y.client = z.client /\ y.op = z.op /\ y.a = z.a /\ y.after = d /\ y.result = {}
  /\ v.replies = <<>> /\ ~v.handled
  /\ \/ y.state = "returned" /\ y.err # nil /\ ~HasReason(y.err) /\ v.req = {}
     \/ y.state = "waiting" /\ ~refuses(z.op, z.a) /\ v.req = {Outgoing(z)}

Ends(x, w, y, v) ==
  /\ x.state = "waiting" /\ SameOne(x, w, y, v)
  /\ y.state = "returned" /\ y.err # nil /\ ~HasReason(y.err) /\ y.result \in {{}, x.result}
  /\ v.replies = <<>> /\ v.handled = w.handled

Takes(x, w, y, v) ==
  /\ x.state = "waiting" /\ SameOne(x, w, y, v) /\ x.op = "ListCatalog"
  /\ y.state = x.state /\ y.err = x.err /\ y.result = x.result
  /\ w.replies # <<>> /\ v.replies = Rest(w.replies) /\ v.handled = w.handled

Gets(x, w, y, v) ==
  /\ x.state = "waiting" /\ SameOne(x, w, y, v) /\ y.state = "returned"
  /\ w.replies # <<>> /\ v.replies = Rest(w.replies) /\ v.handled = w.handled
  /\ LET reply == Head(w.replies)
     IN \/ /\ reply.kind = "message" /\ ~unusable(x.op, reply.message)
           /\ y.err = nil /\ y.result = {Incoming(x, reply.message)}
        \/ y.err = clientError /\ y.result = {}
        \/ reply.kind = "EOF" /\ y.err = nil /\ y.result = {x.entries}
        \/ reply.kind = "status" /\ y.err = FromError(reply.status) /\ y.result = {}

\* What the broker may send to call c and leave in its log, l before.
Serves(c, x, q, rs, l, m) ==
  LET r == rpc(x.op)
      Entry(n) == [call |-> c, rpc |-> r, req |-> q, keys |-> n]
      More(n) == IF r \in Mutations \cup Issues THEN Append(l, Entry(n)) ELSE l
      es == Visible(q.Prefix)
  IN \/ /\ r # "ListCatalog" /\ \E n : m = More(n) /\ \E a \in Response(r, q, m) : rs = <<Message(a)>>
     \/ /\ r = "ListCatalog" /\ m = l
        /\ \E n \in 0 .. Len(es) : \E last :
             /\ last.kind # "message" /\ rs = [i \in 1 .. n |-> Message(es[i])] \o <<last>>
     \/ \E st \in Rejections : rs = <<Failure(st)>> /\ (m = l \/ \E n : m = More(n))
     \/ /\ r # "ListCatalog" /\ m = l
        /\ \E n : Response(r, q, More(n)) = {}
        /\ \E st : rs = <<Failure(st)>>

Handles(c, x, w, y, v, l, m) ==
  /\ y = x /\ v.req = w.req /\ ~w.handled /\ v.handled
  /\ \E q, rs : /\ q \in w.req /\ Serves(c, x, q, rs, l, m)
                /\ v.replies = IF x.state = "waiting" THEN rs ELSE <<>>

\* The request of a call that a step lets begin is in the workload, or is
\* made of the result of another.
Asks(c, z, d) == d \in 0 .. c - 1 /\ z \in IF d = 0 THEN Workload ELSE FollowUps(d)

Evolves(c) ==
  LET x == call[c]
      w == wire[c]
      y == call'[c]
      v == wire'[c]
  IN \/ y = x /\ v = w
     \/ \E z, d : Asks(c, z, d) /\ Begins(x, w, y, v, z, d)
                  /\ client.kind = z.client /\ client.state \in {"open", "closed"}
     \/ Ends(x, w, y, v) \/ Takes(x, w, y, v) \/ Gets(x, w, y, v)
     \/ Handles(c, x, w, y, v, log, log')

LEMMA StartEvolves ==
  ASSUME ClientInv, NEW c \in Calls, NEW z, NEW d, Start(c, z, d)
  PROVE  /\ log' = log /\ client.kind = z.client /\ client.state \in {"open", "closed"}
         /\ UNCHANGED client
         /\ Begins(call[c], wire[c], call'[c], wire'[c], z, d)
         /\ \A e \in Calls : e # c => call'[e] = call[e] /\ wire'[e] = wire[e]
<1>1. PICK begun : begun = [NoCall EXCEPT !.client = z.client, !.op = z.op, !.a = z.a,
                                          !.deadline = z.deadline, !.after = d]
  OBVIOUS
<1>2. call[c] = NoCall /\ wire[c] = NoRequest
  <2>1. call[c].state = "idle" /\ Sound(c, call[c], wire[c], log)
    BY Zenon DEF Start, ClientInv
  <2> QED
    BY <2>1, Zenon DEF Sound
<1>3. DOMAIN NoCall = CallFields /\ NoCall.result = {}
  BY Zenon DEF NoCall, CallFields
<1>4. /\ DOMAIN begun = CallFields /\ begun.result = {} /\ begun.client = z.client
      /\ begun.op = z.op /\ begun.a = z.a /\ begun.after = d
  <2>1. PICK none : none = NoCall
    OBVIOUS
  <2>2. /\ DOMAIN none = CallFields /\ none.result = {}
        /\ begun = [none EXCEPT !.client = z.client, !.op = z.op, !.a = z.a,
                                !.deadline = z.deadline, !.after = d]
    BY <1>1, <1>3, <2>1
  <2> QED
    BY ONLY <2>2 DEF CallFields
<1>5. NoRequest = [req |-> {}, handled |-> FALSE, replies |-> <<>>]
  BY DEF NoRequest
<1>6. ASSUME NEW err, err # nil, ~HasReason(err),
             call' = [call EXCEPT ![c] = [begun EXCEPT !.state = "returned", !.err = err]],
             UNCHANGED wire
      PROVE  /\ Begins(call[c], wire[c], call'[c], wire'[c], z, d)
             /\ \A e \in Calls : e # c => call'[e] = call[e] /\ wire'[e] = wire[e]
  <2>1. PICK y : y = [begun EXCEPT !.state = "returned", !.err = err]
    OBVIOUS
  <2>2. /\ y.state = "returned" /\ y.err = err /\ y.client = z.client /\ y.op = z.op
        /\ y.a = z.a /\ y.after = d /\ y.result = {}
    BY ONLY <1>4, <2>1 DEF CallFields
  <2>3. call'[c] = y /\ \A e \in Calls : e # c => call'[e] = call[e] /\ wire'[e] = wire[e]
    BY <1>6, <2>1 DEF ClientInv
  <2>4. NoRequest.req = {} /\ NoRequest.handled = FALSE /\ NoRequest.replies = <<>>
    BY <1>5
  <2>5. Begins(NoCall, NoRequest, y, NoRequest, z, d)
    BY <1>6, <2>2, <2>4, Zenon DEF Begins
  <2> QED
    BY <1>2, <1>6, <2>3, <2>5, Zenon
<1>7. ASSUME ~refuses(z.op, z.a),
             call' = [call EXCEPT ![c] = [begun EXCEPT !.state = "waiting", !.timed = withTimeout(z)]],
             wire' = [wire EXCEPT ![c].req = {Outgoing(z)}]
      PROVE  /\ Begins(call[c], wire[c], call'[c], wire'[c], z, d)
             /\ \A e \in Calls : e # c => call'[e] = call[e] /\ wire'[e] = wire[e]
  <2>1. PICK y, timed : y = [begun EXCEPT !.state = "waiting", !.timed = timed]
                        /\ timed = withTimeout(z)
    OBVIOUS
  <2>2. /\ y.state = "waiting" /\ y.client = z.client /\ y.op = z.op
        /\ y.a = z.a /\ y.after = d /\ y.result = {}
    BY ONLY <1>4, <2>1 DEF CallFields
  <2>3. PICK v, q : v = [NoRequest EXCEPT !.req = {q}] /\ q = Outgoing(z)
    OBVIOUS
  <2>4. v.req = {q} /\ v.handled = FALSE /\ v.replies = <<>>
    BY <1>5, <2>3
  <2>5. wire' = [wire EXCEPT ![c].req = {q}]
    BY <1>7, <2>3, Zenon
  <2>6. /\ call'[c] = y /\ wire'[c] = v
        /\ \A e \in Calls : e # c => call'[e] = call[e] /\ wire'[e] = wire[e]
    BY <1>2, <1>7, <2>1, <2>3, <2>5 DEF ClientInv
  <2>7. Begins(NoCall, NoRequest, y, v, z, d)
    BY <1>7, <2>2, <2>3, <2>4, Zenon DEF Begins
  <2> QED
    BY <1>2, <2>6, <2>7, Zenon
<1>8. Outgoing(z) = IF z.op \in SpiffeMethods THEN z.a ELSE request(z.op, z.a)
  BY Zenon DEF Outgoing
<1> QED
  BY <1>1, <1>6, <1>7, <1>8, Errors, Zenon DEF Start

\* A record of calls or of requests in which some fields are replaced.
LEMMA CallEnds ==
  ASSUME ClientInv, NEW c \in Calls, NEW err, NEW res, NEW rs, Return(c, err, res),
         wire' = [wire EXCEPT ![c].replies = rs]
  PROVE  /\ SameOne(call[c], wire[c], call'[c], wire'[c])
         /\ call'[c].state = "returned" /\ call'[c].err = err /\ call'[c].result = res
         /\ wire'[c].replies = rs /\ wire'[c].handled = wire[c].handled
         /\ \A e \in Calls : e # c => call'[e] = call[e] /\ wire'[e] = wire[e]
<1>1. PICK x, w : x = call[c] /\ w = wire[c]
  OBVIOUS
<1>2. DOMAIN x = CallFields /\ w = [req |-> w.req, handled |-> w.handled, replies |-> w.replies]
  BY <1>1, Zenon DEF ClientInv, Sound
<1>3. PICK y, v : /\ y = [x EXCEPT !.state = "returned", !.err = err, !.result = res]
                  /\ v = [w EXCEPT !.replies = rs]
  OBVIOUS
<1>4. /\ y.client = x.client /\ y.op = x.op /\ y.a = x.a /\ y.after = x.after
      /\ y.state = "returned" /\ y.err = err /\ y.result = res
  BY ONLY <1>2, <1>3 DEF CallFields
<1>5. PICK q, h, old : q = w.req /\ h = w.handled /\ old = w.replies
  OBVIOUS
<1>6. v.req = q /\ v.handled = h /\ v.replies = rs
  BY ONLY <1>2, <1>3, <1>5
<1>7. call'[c] = y /\ \A d \in Calls : d # c => call'[d] = call[d]
  BY <1>1, <1>3 DEF Return, ClientInv
<1>8. wire' = [d \in Calls |-> IF d = c THEN v ELSE wire[d]]
  BY <1>1, <1>3, RepliesMove
<1> QED
  BY <1>1, <1>4, <1>5, <1>6, <1>7, <1>8, Zenon DEF SameOne

LEMMA FailEvolves ==
  ASSUME ClientInv, NEW c \in Calls, NEW code, Fail(c, code)
  PROVE  /\ log' = log /\ UNCHANGED client
         /\ Ends(call[c], wire[c], call'[c], wire'[c])
         /\ \A e \in Calls : e # c => call'[e] = call[e] /\ wire'[e] = wire[e]
<1>1. PICK err : err = FromError(GRPCStatus(code, <<>>))
  OBVIOUS
<1>2. /\ Return(c, err, {}) /\ wire' = [wire EXCEPT ![c].replies = <<>>] /\ log' = log
      /\ call[c].state = "waiting" /\ UNCHANGED client
  BY <1>1, Zenon DEF Fail, failed
<1>3. err # nil /\ ~HasReason(err)
  BY <1>1, Errors, Zenon
<1>4. PICK rs : rs = <<>>
  OBVIOUS
<1>5. /\ SameOne(call[c], wire[c], call'[c], wire'[c])
      /\ call'[c].state = "returned" /\ call'[c].err = err /\ call'[c].result = {}
      /\ wire'[c].replies = rs /\ wire'[c].handled = wire[c].handled
      /\ \A e \in Calls : e # c => call'[e] = call[e] /\ wire'[e] = wire[e]
  BY <1>2, <1>4, CallEnds, Zenon
<1> QED
  BY <1>2, <1>3, <1>4, <1>5, Zenon DEF Ends

LEMMA CloseEvolves ==
  ASSUME ClientInv, Close, NEW c \in Calls
  PROVE  \/ call'[c] = call[c] /\ wire'[c] = wire[c]
         \/ Ends(call[c], wire[c], call'[c], wire'[c])
<1>1. PICK x, w, err : x = call[c] /\ w = wire[c] /\ err = FromError(GRPCStatus("Canceled", <<>>))
  OBVIOUS
<1>2. /\ call'[c] = IF x.state # "waiting" THEN x
                    ELSE [x EXCEPT !.state = "returned", !.err = err]
      /\ wire'[c] = IF x.state # "waiting" THEN w ELSE [w EXCEPT !.replies = <<>>]
  BY <1>1, Zenon DEF Close
<1>3. /\ DOMAIN x = CallFields
      /\ w = [req |-> w.req, handled |-> w.handled, replies |-> w.replies]
  BY <1>1, Zenon DEF ClientInv, Sound
<1>4. err # nil /\ ~HasReason(err)
  BY <1>1, Errors, Zenon
<1>5. PICK y, v : /\ y = [x EXCEPT !.state = "returned", !.err = err]
                  /\ v = [w EXCEPT !.replies = <<>>]
  OBVIOUS
<1>6. /\ y.client = x.client /\ y.op = x.op /\ y.a = x.a /\ y.after = x.after
      /\ y.state = "returned" /\ y.err = err /\ y.result = x.result
  BY ONLY <1>3, <1>5 DEF CallFields
<1>7. PICK q, h, old : q = w.req /\ h = w.handled /\ old = w.replies
  OBVIOUS
<1>8. v.req = q /\ v.handled = h /\ v.replies = <<>>
  BY ONLY <1>3, <1>5, <1>7
<1>9. x.state = "waiting" => Ends(x, w, y, v)
  BY <1>4, <1>6, <1>7, <1>8, Zenon DEF Ends, SameOne
<1> QED
  BY <1>1, <1>2, <1>5, <1>9, Zenon

LEMMA ReceiveEvolves ==
  ASSUME ClientInv, NEW c \in Calls, Receive(c)
  PROVE  /\ log' = log /\ UNCHANGED client
         /\ \/ Takes(call[c], wire[c], call'[c], wire'[c])
            \/ Gets(call[c], wire[c], call'[c], wire'[c])
         /\ \A e \in Calls : e # c => call'[e] = call[e] /\ wire'[e] = wire[e]
<1>1. PICK x, w, reply, rs :
        /\ x = call[c] /\ w = wire[c] /\ reply = Head(w.replies) /\ rs = Rest(w.replies)
  OBVIOUS
<1>2. /\ x.state = "waiting" /\ w.replies # <<>> /\ log' = log /\ UNCHANGED client
      /\ wire' = [wire EXCEPT ![c].replies = rs]
  <2>1. wire' = [wire EXCEPT ![c].replies = Rest(wire[c].replies)]
    BY DEF Receive, Rest
  <2> QED
    BY <1>1, <2>1, Zenon DEF Receive
<1>3. ASSUME NEW err, NEW res, Return(c, err, res),
             \/ /\ reply.kind = "message" /\ ~unusable(x.op, reply.message)
                /\ err = nil /\ res = {Incoming(x, reply.message)}
             \/ err = clientError /\ res = {}
             \/ reply.kind = "EOF" /\ err = nil /\ res = {x.entries}
             \/ reply.kind = "status" /\ err = FromError(reply.status) /\ res = {}
      PROVE  /\ Gets(call[c], wire[c], call'[c], wire'[c])
             /\ \A e \in Calls : e # c => call'[e] = call[e] /\ wire'[e] = wire[e]
  <2>1. /\ SameOne(call[c], wire[c], call'[c], wire'[c])
        /\ call'[c].state = "returned" /\ call'[c].err = err /\ call'[c].result = res
        /\ wire'[c].replies = rs /\ wire'[c].handled = wire[c].handled
        /\ \A e \in Calls : e # c => call'[e] = call[e] /\ wire'[e] = wire[e]
    BY <1>2, <1>3, CallEnds, Zenon
  <2>2. Gets(x, w, call'[c], wire'[c])
    BY <1>1, <1>2, <1>3, <2>1, Zenon DEF Gets
  <2> QED
    BY <1>1, <2>1, <2>2, Zenon
<1>4. ASSUME x.op = "ListCatalog",
             call' = [call EXCEPT ![c].entries = Append(@, catalogEntryFromProto(reply.message))]
      PROVE  /\ Takes(call[c], wire[c], call'[c], wire'[c])
             /\ \A e \in Calls : e # c => call'[e] = call[e] /\ wire'[e] = wire[e]
  <2>1. PICK es : es = Append(x.entries, catalogEntryFromProto(reply.message))
    OBVIOUS
  <2>2. PICK y : y = [x EXCEPT !.entries = es]
    OBVIOUS
  <2>3. DOMAIN x = CallFields
        /\ w = [req |-> w.req, handled |-> w.handled, replies |-> w.replies]
    BY <1>1, Zenon DEF ClientInv, Sound
  <2>4. /\ y.client = x.client /\ y.op = x.op /\ y.a = x.a /\ y.after = x.after
        /\ y.state = x.state /\ y.err = x.err /\ y.result = x.result
    BY ONLY <2>2, <2>3 DEF CallFields
  <2>5. call'[c] = y /\ \A d \in Calls : d # c => call'[d] = call[d]
    BY <1>1, <1>4, <2>1, <2>2 DEF ClientInv
  <2>6. PICK v : v = [w EXCEPT !.replies = rs]
    OBVIOUS
  <2>7. PICK q, h, old : q = w.req /\ h = w.handled /\ old = w.replies
    OBVIOUS
  <2>8. v.req = q /\ v.handled = h /\ v.replies = rs
    BY ONLY <2>3, <2>6, <2>7
  <2>9. wire' = [d \in Calls |-> IF d = c THEN v ELSE wire[d]]
    BY <1>1, <1>2, <2>6, RepliesMove
  <2>10. wire'[c] = v /\ \A d \in Calls : d # c => wire'[d] = wire[d]
    BY <2>9, Zenon
  <2>11. Takes(x, w, y, v)
    BY <1>1, <1>2, <1>4, <2>4, <2>7, <2>8, Zenon DEF Takes, SameOne
  <2> QED
    BY <1>1, <2>5, <2>10, <2>11, Zenon
<1>5. Incoming(x, reply.message) =
        IF x.op \in SpiffeMethods THEN reply.message ELSE result(x.op, reply.message)
  BY Zenon DEF Incoming
<1>6. \/ /\ reply.kind = "message" /\ x.op = "ListCatalog"
         /\ call' = [call EXCEPT ![c].entries = Append(@, catalogEntryFromProto(reply.message))]
      \/ /\ reply.kind = "message"
         /\ \/ Return(c, clientError, {})
            \/ /\ ~unusable(x.op, reply.message)
               /\ Return(c, nil, {Incoming(x, reply.message)})
      \/ reply.kind = "EOF" /\ Return(c, nil, {x.entries})
      \/ reply.kind = "status" /\ Return(c, FromError(reply.status), {})
  BY <1>1, <1>5, Zenon DEF Receive, failed
<1>7. \/ Takes(call[c], wire[c], call'[c], wire'[c])
      \/ Gets(call[c], wire[c], call'[c], wire'[c])
  BY <1>3, <1>4, <1>6, Zenon
<1>8. \A e \in Calls : e # c => call'[e] = call[e] /\ wire'[e] = wire[e]
  BY <1>3, <1>4, <1>6, Zenon
<1> QED
  BY <1>2, <1>7, <1>8

-----------------------------------------------------------------------------
\* The log gets an entry of call c.
Enters(c, l, m) ==
  /\ rpc(call[c].op) \in Mutations \cup Issues
  /\ \E q \in wire[c].req : \E n :
       m = Append(l, [call |-> c, rpc |-> rpc(call[c].op), req |-> q, keys |-> n])

LEMMA HandleServes ==
  ASSUME ClientInv, NEW c \in Calls, Handle(c)
  PROVE  /\ UNCHANGED <<client, call>> /\ ~wire[c].handled
         /\ log' = log \/ Enters(c, log, log')
         /\ \E q, rs :
              /\ q \in wire[c].req /\ Serves(c, call[c], q, rs, log, log')
              /\ wire' = [wire EXCEPT ![c].handled = TRUE,
                            ![c].replies = IF call[c].state = "waiting" THEN rs ELSE <<>>]
<1> DEFINE x == call[c]
           r == rpc(x.op)
           q == CHOOSE p \in wire[c].req : TRUE
           keys == IF r = "ImportSet" THEN Len(q.Entries) ELSE 1
           Sent(rs) == wire' = [wire EXCEPT ![c].handled = TRUE,
                         ![c].replies = IF call[c].state = "waiting" THEN rs ELSE <<>>]
           es == Visible(q.Prefix)
           sent(n) == [i \in 1 .. n |-> Message(es[i])]
           Entry(n) == [call |-> c, rpc |-> r, req |-> q, keys |-> n]
           More(n) == IF r \in Mutations \cup Issues THEN Append(log, Entry(n)) ELSE log
<1>1. /\ wire[c].req # {} /\ ~wire[c].handled
      /\ \/ /\ r # "ListCatalog"
            /\ \E m \in Response(r, q, More(keys)) : Sent(<<Message(m)>>)
            /\ log' = More(keys)
         \/ /\ r = "ListCatalog"
            /\ \/ Sent(sent(Len(es)) \o <<EOF>>)
               \/ \E n \in 0 .. Len(es), st \in Rejections : Sent(sent(n) \o <<Failure(st)>>)
            /\ UNCHANGED log
         \/ /\ \E n \in 1 .. keys - 1 : log' = More(n)
            /\ \E st \in Rejections : Sent(<<Failure(st)>>)
         \/ /\ \E st \in Rejections : Sent(<<Failure(st)>>)
            /\ UNCHANGED log
         \/ /\ r # "ListCatalog" /\ Response(r, q, More(keys)) = {}
            /\ \E st : Sent(<<Failure(st)>>)
            /\ UNCHANGED log
      /\ UNCHANGED <<client, call>>
  BY Zenon DEF Handle, Logged
<1>2. q \in wire[c].req
  BY <1>1, Zenon
<1> HIDE DEF q, keys
<1>3. Sound(c, x, wire[c], log)
  BY Zenon DEF ClientInv
<1>4. r = "ListCatalog" => Len(es) \in 0 .. Len(es)
  <2> SUFFICES ASSUME r = "ListCatalog" PROVE Len(es) \in Nat
    OBVIOUS
  <2>1. x.op = "ListCatalog"
    BY OwnRPC, Zenon
  <2>2. q = ListCatalog(x.a) /\ Slice(Visible(x.a.prefix))
    BY <1>2, <1>3, <2>1, Zenon DEF Sound, Argued
  <2>3. q.Prefix = x.a.prefix
    BY <2>2 DEF ListCatalog
  <2> QED
    BY <2>2, <2>3, Zenon DEF Slice
<1>5. "status" # "message" /\ EOF.kind # "message" /\ \A st : Failure(st).kind # "message"
  BY DEF EOF, Failure
<1>6. \/ /\ r # "ListCatalog"
         /\ \E m \in Response(r, q, More(keys)) : Sent(<<Message(m)>>)
         /\ log' = More(keys)
      \/ /\ r = "ListCatalog" /\ log' = log
         /\ \E n \in 0 .. Len(es) : \E last :
              last.kind # "message" /\ Sent(sent(n) \o <<last>>)
      \/ /\ log' = log \/ \E n : log' = More(n)
         /\ \E st \in Rejections : Sent(<<Failure(st)>>)
      \/ /\ r # "ListCatalog" /\ Response(r, q, More(keys)) = {}
         /\ \E st : Sent(<<Failure(st)>>)
         /\ log' = log
  <2> HIDE DEF r, es, sent, More, Sent
  <2> QED
    BY <1>1, <1>4, <1>5, Zenon
<1>7. \E rs : Serves(c, x, q, rs, log, log') /\ Sent(rs)
  <2> HIDE DEF Sent, x
  <2>1. ASSUME NEW m \in Response(r, q, More(keys)), r # "ListCatalog",
               Sent(<<Message(m)>>), log' = More(keys)
        PROVE  Serves(c, x, q, <<Message(m)>>, log, log')
    BY <2>1, Zenon DEF Serves
  <2>2. ASSUME NEW n \in 0 .. Len(es), NEW last, last.kind # "message", r = "ListCatalog",
               log' = log
        PROVE  Serves(c, x, q, sent(n) \o <<last>>, log, log')
    BY <2>2, Zenon DEF Serves
  <2>3. ASSUME NEW st \in Rejections, log' = log \/ \E n : log' = More(n)
        PROVE  Serves(c, x, q, <<Failure(st)>>, log, log')
    BY <2>3, Zenon DEF Serves
  <2>4. ASSUME NEW st, r # "ListCatalog", Response(r, q, More(keys)) = {}, log' = log
        PROVE  Serves(c, x, q, <<Failure(st)>>, log, log')
    BY <2>4, Zenon DEF Serves
  <2> HIDE DEF r, es, sent, More
  <2> QED
    BY <1>6, <2>1, <2>2, <2>3, <2>4, Zenon
<1>8. log' = log \/ \E n : log' = More(n)
  <2> HIDE DEF r, es, sent, More, Sent
  <2> QED
    BY <1>6, Zenon
<1>9. log' = log \/ Enters(c, log, log')
  BY <1>2, <1>8, Zenon DEF Enters
<1> QED
  BY <1>1, <1>2, <1>7, <1>9, Zenon

LEMMA HandleEvolves ==
  ASSUME ClientInv, NEW c \in Calls, Handle(c)
  PROVE  /\ UNCHANGED client
         /\ Handles(c, call[c], wire[c], call'[c], wire'[c], log, log')
         /\ \A e \in Calls : e # c => call'[e] = call[e] /\ wire'[e] = wire[e]
         /\ log' = log \/ Enters(c, log, log')
<1>1. PICK q, sent :
        /\ q \in wire[c].req /\ Serves(c, call[c], q, sent, log, log')
        /\ wire' = [wire EXCEPT ![c].handled = TRUE,
                      ![c].replies = IF call[c].state = "waiting" THEN sent ELSE <<>>]
  BY HandleServes, Zenon
<1>2. /\ UNCHANGED <<client, call>> /\ ~wire[c].handled
      /\ log' = log \/ Enters(c, log, log')
  BY HandleServes, Zenon
<1>3. PICK x, w, rs : x = call[c] /\ w = wire[c]
                      /\ rs = IF call[c].state = "waiting" THEN sent ELSE <<>>
  OBVIOUS
<1>4. PICK v : v = [w EXCEPT !.handled = TRUE, !.replies = rs]
  OBVIOUS
<1>5. w = [req |-> w.req, handled |-> w.handled, replies |-> w.replies]
  BY <1>3, Zenon DEF ClientInv, Sound
<1>6. PICK p, h, old : p = w.req /\ h = w.handled /\ old = w.replies
  OBVIOUS
<1>7. v.req = p /\ v.handled = TRUE /\ v.replies = rs
  BY ONLY <1>4, <1>5, <1>6
<1>8. wire' = [wire EXCEPT ![c].handled = TRUE, ![c].replies = rs]
  BY <1>1, <1>3, Zenon
<1>9. wire'[c] = v /\ \A d \in Calls : d # c => wire'[d] = wire[d]
  BY <1>3, <1>4, <1>8 DEF ClientInv
<1>10. Handles(c, x, w, x, v, log, log')
  BY <1>1, <1>2, <1>3, <1>6, <1>7, Zenon DEF Handles
<1> QED
  BY <1>2, <1>3, <1>9, <1>10, Zenon

\* What a step does to the client.
ClientMoves ==
  \/ UNCHANGED client
  \/ client.state \in {"none", "failed"} /\ UNCHANGED <<call, wire, log>>
     /\ client'.state \in {"failed", "open"}
  \/ client.state = "open" /\ client'.state = "closed" /\ client'.kind = client.kind

\* What a step does to the log.
LogMoves ==
  \/ log' = log
  \/ \E c \in Calls : /\ Enters(c, log, log') /\ wire'[c].handled
                      /\ \A d \in Calls : call'[d] = call[d] /\ wire'[d].req = wire[d].req

LEMMA Evolution ==
  ASSUME ClientInv, DOMAIN client = DOMAIN NoClient, [Next]_vars
  PROVE  ClientMoves /\ LogMoves /\ \A c \in Calls : Evolves(c)
<1>1. CASE UNCHANGED vars
  BY <1>1, Zenon DEF vars, ClientMoves, LogMoves, Evolves
<1>2. ASSUME NEW k, NEW path, NEW opts, Dial(k, path, opts)
      PROVE  ClientMoves /\ LogMoves /\ \A c \in Calls : Evolves(c)
  <2>1. client.state \in {"none", "failed"} /\ UNCHANGED <<call, wire, log>>
    BY <1>2, Zenon DEF Dial
  <2>2. NoClient.state = "none" /\ "state" \in DOMAIN NoClient
    BY DEF NoClient
  <2>3. CASE client' = [NoClient EXCEPT !.state = "failed"]
    <3>1. client'.state = "failed"
      BY <2>2, <2>3, SMT
    <3> QED
      BY <2>1, <3>1, Zenon DEF ClientMoves, LogMoves, Evolves
  <2>4. CASE \E n, o : client' = [kind |-> k, state |-> "open", timeout |-> n,
                                 path |-> path, options |-> o]
    <3>1. client'.state = "open"
      BY <2>4
    <3> QED
      BY <2>1, <3>1, Zenon DEF ClientMoves, LogMoves, Evolves
  <2>5. \/ client' = [NoClient EXCEPT !.state = "failed"]
        \/ \E n, o : client' = [kind |-> k, state |-> "open", timeout |-> n,
                                path |-> path, options |-> o]
    BY <1>2, Zenon DEF Dial
  <2> QED
    BY <2>3, <2>4, <2>5, Zenon DEF ClientMoves, LogMoves, Evolves
<1>3. ASSUME NEW c \in Calls, NEW d \in 0 .. c - 1,
             NEW z \in IF d = 0 THEN {w \in Workload : \A e \in 1 .. c - 1 : Together(call[e], w)}
                       ELSE FollowUps(d),
             Start(c, z, d)
      PROVE  ClientMoves /\ LogMoves /\ \A e \in Calls : Evolves(e)
  <2>1. Asks(c, z, d)
    BY Zenon DEF Asks
  <2> QED
    BY <1>3, <2>1, StartEvolves, Zenon DEF ClientMoves, LogMoves, Evolves
<1>4. ASSUME NEW c \in Calls, Receive(c)
      PROVE  ClientMoves /\ LogMoves /\ \A e \in Calls : Evolves(e)
  BY <1>4, ReceiveEvolves, Zenon DEF ClientMoves, LogMoves, Evolves
<1>5. ASSUME NEW c \in Calls, Expire(c) \/ Cancel(c) \/ Break(c)
      PROVE  ClientMoves /\ LogMoves /\ \A e \in Calls : Evolves(e)
  <2>1. PICK code : Fail(c, code)
    BY <1>5, Zenon DEF Expire, Cancel, Break
  <2> QED
    BY <2>1, FailEvolves, Zenon DEF ClientMoves, LogMoves, Evolves
<1>6. ASSUME NEW c \in Calls, Handle(c)
      PROVE  ClientMoves /\ LogMoves /\ \A e \in Calls : Evolves(e)
  <2>1. /\ UNCHANGED client /\ (log' = log \/ Enters(c, log, log'))
        /\ Handles(c, call[c], wire[c], call'[c], wire'[c], log, log')
        /\ \A e \in Calls : e # c => call'[e] = call[e] /\ wire'[e] = wire[e]
    BY <1>6, HandleEvolves, Zenon
  <2>2. call'[c] = call[c] /\ wire'[c].req = wire[c].req /\ wire'[c].handled
    BY <2>1, Zenon DEF Handles
  <2>3. LogMoves
    BY <2>1, <2>2, Zenon DEF LogMoves
  <2> QED
    BY <2>1, <2>3, Zenon DEF ClientMoves, Evolves
<1>7. ASSUME Close
      PROVE  ClientMoves /\ LogMoves /\ \A e \in Calls : Evolves(e)
  <2>1. client'.state = "closed" /\ client'.kind = client.kind /\ client.state = "open"
    BY <1>7 DEF Close, NoClient
  <2> QED
    BY <1>7, <2>1, CloseEvolves, Zenon DEF ClientMoves, LogMoves, Evolves, Close
<1> QED
  BY <1>1, <1>2, <1>3, <1>4, <1>5, <1>6, <1>7, Zenon DEF Next

-----------------------------------------------------------------------------
LEMMA WorkloadAsking ==
  ASSUME NEW z \in Workload PROVE Asking(z)
<1>1. /\ z.client \in {"basil", "spiffe"}
      /\ z.client = "basil" => z.op \in DOMAIN Arguments /\ z.a \in Arguments[z.op]
      /\ z.client = "spiffe" => z.op \in SpiffeMethods
      /\ z.op = "ListCatalog" => Visible(z.a.prefix) \in Seq(CatalogEntry)
  BY ClientAssumption, BrokerAssumption, Zenon
<1>2. z.op \in DOMAIN Arguments => z.a \in Arguments[z.op]
  BY <1>1, TwoKinds, Zenon
<1>3. ASSUME z.op \in CredentialMethods
      PROVE  Expiry(request(z.op, z.a)) \subseteq 1 .. Two63 - 1
  <2>1. PICK t, e : t = z.a.TTL /\ e = z.a.ExpiresAt
    OBVIOUS
  <2>2. t \in Int /\ Now + t < Two63 /\ (z.op = "SignNatsJwt" => e \in {ZeroTime} \cup 1 .. Two63 - 1)
    BY <1>3, <2>1, ClientAssumption, WorkloadTyped, Zenon
  <2>3. {Now + d : d \in durationOrNil(t)} \subseteq 1 .. Two63 - 1
    BY <2>2, TimeAssumption, NowAssumption DEF durationOrNil
  <2>4. z.op = "SignNatsJwt" => timestampOrNil(e) \subseteq 1 .. Two63 - 1
    BY <2>2, Zenon DEF timestampOrNil
  <2>5. Expiry(request(z.op, z.a)) =
          {Now + d : d \in durationOrNil(t)} \cup
          (IF z.op = "SignNatsJwt" THEN timestampOrNil(e) ELSE {})
    BY <1>3, <2>1, MintRequests, Zenon
  <2> QED
    BY <2>3, <2>4, <2>5, Zenon
<1> QED
  BY <1>1, <1>2, <1>3, Zenon DEF Asking

\* There is no more than one entry of the log for each call.
LEMMA LogBounded ==
  ASSUME NEW l, IsLog(l), \A i \in DOMAIN l : l[i].call \in Calls,
         \A c \in Calls : \A i, j \in Mine(c, l) : i = j
  PROVE  Len(l) \in 0 .. NumCalls /\ DOMAIN l = 1 .. Len(l)
<1>1. PICK n : n = Len(l)
  OBVIOUS
<1>2. n \in Nat /\ DOMAIN l = 1 .. n
  BY <1>1 DEF IsLog
<1>3. NumCalls \in Nat
  BY ClientAssumption, Zenon
<1>4. PICK f : f = [i \in 1 .. n |-> l[i].call]
  OBVIOUS
<1>5. f \in [1 .. n -> Calls] /\ \A i \in 1 .. n : f[i] = l[i].call
  BY <1>2, <1>4
<1>6. IsFiniteSet(1 .. n) /\ Cardinality(1 .. n) = n
  <2>1. n > 0 \/ n = 0
    BY <1>2
  <2> QED
    BY <1>2, <2>1, FS_Interval
<1>7. IsFiniteSet(Calls) /\ Cardinality(Calls) = NumCalls
  <2>1. NumCalls > 0 \/ NumCalls = 0
    BY <1>3
  <2> QED
    BY <1>3, <2>1, FS_Interval DEF Calls
<1>8. ASSUME n > NumCalls PROVE FALSE
  <2>1. PICK i, j \in 1 .. n : i # j /\ f[i] = f[j]
    <3>1. Cardinality(Calls) < Cardinality(1 .. n)
      BY <1>2, <1>3, <1>6, <1>7, <1>8
    <3>2. PICK S : S = 1 .. n
      OBVIOUS
    <3>3. f \in [S -> Calls] /\ IsFiniteSet(S) /\ Cardinality(Calls) < Cardinality(S)
      BY <1>5, <1>6, <3>1, <3>2
    <3>4. \E i, j \in S : i # j /\ f[i] = f[j]
      BY <1>7, <3>3, FS_PigeonHole
    <3> QED
      BY <3>2, <3>4
  <2>2. i \in Mine(l[i].call, l) /\ j \in Mine(l[i].call, l)
    BY <1>2, <1>5, <2>1, Zenon DEF Mine
  <2> QED
    BY <1>2, <2>1, <2>2, Zenon
<1> QED
  BY <1>1, <1>2, <1>3, <1>8

-----------------------------------------------------------------------------
\* What is so of each call once it has begun: it was asked something of the
\* method's types by a client that is there, sent nothing else, and nothing
\* that the method refuses.
Begun(x, w) ==
  /\ Asking(x) /\ w.req \in {{}, {Outgoing(x)}} /\ (w.req # {} => ~refuses(x.op, x.a))
  /\ x.client = client.kind /\ client.state \in {"open", "closed"}

\* The reply to a method other than ListCatalog: none yet, an error, or a
\* message of the RPC's type.
Replying(op, rs) ==
  \/ rs = <<>> \/ \E st : rs = <<Failure(st)>>
  \/ \E m : /\ rs = <<Message(m)>>
            /\ op \in DOMAIN Arguments => m \in Methods[rpc(op)].out /\ InRange(op, m)

\* The result of such a method is made of the reply, which is kept.
Kept(x, w) ==
  \E m : /\ w.replies = <<Message(m)>> /\ ~unusable(x.op, m)
         /\ x.result = {Incoming(x, m)}

ReplyOK(x, w) ==
  /\ x.state # "returned" => x.result = {}
  /\ x.state = "returned" => (x.result # {} <=> x.err = nil)
  /\ x.op # "ListCatalog" =>
       Replying(x.op, w.replies) /\ (x.result # {} => Kept(x, w))
  /\ x.op = "ListCatalog" =>
       \A k \in DOMAIN w.replies :
         w.replies[k].kind = "message" => w.replies[k].message \in CatalogEntry

\* An entry of the log is the request of its call.
Recorded(e, x, w) ==
  e.rpc \in Mutations \cup Issues /\ e.rpc = rpc(x.op) /\ e.req \in w.req

AskedInv ==
  /\ client.state \in {"none", "failed", "open", "closed"}
  /\ \A c \in Calls : call[c].state # "idle" => Begun(call[c], wire[c])
  /\ \A i \in DOMAIN log :
       /\ log[i].call \in Calls
       /\ Recorded(log[i], call[log[i].call], wire[log[i].call])

AnsweredInv == \A c \in Calls : ReplyOK(call[c], wire[c])

-----------------------------------------------------------------------------
\* A call made of the result of another is typed.
LEMMA FollowsAsking ==
  ASSUME ClientInv, AskedInv, AnsweredInv, NEW d \in Calls, NEW z \in FollowUps(d)
  PROVE  Asking(z)
<1>1. PICK x, w : x = call[d] /\ w = wire[d]
  OBVIOUS
<1>2. PICK res \in x.result : z \in FollowUp(x.op, x.a, res)
  BY <1>1, Zenon DEF FollowUps
<1>3. x.op \in Continued
  BY <1>2, OnlyContinued, Zenon
<1>4. x.op # "ListCatalog" /\ x.op \in DOMAIN Arguments /\ x.op \notin SpiffeMethods
  BY <1>3, Listing DEF Continued, CredentialMethods, SpiffeMethods
<1>5. ReplyOK(x, w) /\ Sound(d, x, w, log)
  BY <1>1, Zenon DEF AnsweredInv, ClientInv
<1>6. x.state # "idle"
  BY <1>2, <1>5, Zenon DEF ReplyOK
<1>7. Begun(x, w)
  BY <1>1, <1>6, Zenon DEF AskedInv
<1>8. x.a \in Arguments[x.op]
  BY <1>4, <1>7, Zenon DEF Begun, Asking
<1>9. PICK m : w.replies = <<Message(m)>> /\ ~unusable(x.op, m) /\ x.result = {Incoming(x, m)}
  BY <1>2, <1>4, <1>5, Zenon DEF ReplyOK, Kept
<1>10. res = result(x.op, m)
  BY <1>2, <1>4, <1>9, Zenon DEF Incoming
<1>11. m \in Methods[rpc(x.op)].out
  <2>1. Replying(x.op, w.replies)
    BY <1>4, <1>5, Zenon DEF ReplyOK
  <2>2. ASSUME NEW n, <<Message(m)>> = <<Message(n)>> PROVE m = n
    BY <2>2 DEF Message
  <2>3. ASSUME NEW st PROVE <<Message(m)>> # <<>> /\ <<Message(m)>> # <<Failure(st)>>
    BY DEF Message, Failure
  <2> QED
    BY <1>4, <1>9, <2>1, <2>2, <2>3, Zenon DEF Replying
<1> QED
  BY <1>2, <1>4, <1>8, <1>9, <1>10, <1>11, FollowUpAsking, Zenon

\* The client stays the one that a call was begun on.
LEMMA ClientStays ==
  ASSUME ClientMoves, client.state \in {"open", "closed"}
  PROVE  client'.kind = client.kind /\ client'.state \in {"open", "closed"}
  BY Zenon DEF ClientMoves

LEMMA StepAsks ==
  ASSUME ClientInv, AskedInv, AnsweredInv, ClientMoves, NEW c \in Calls, Evolves(c),
         call'[c].state # "idle"
  PROVE  Begun(call[c], wire[c])'
<1>1. PICK x, w, y, v : x = call[c] /\ w = wire[c] /\ y = call'[c] /\ v = wire'[c]
  OBVIOUS
<1>2. SUFFICES /\ Asking(y) /\ v.req \in {{}, {Outgoing(y)}} /\ (v.req # {} => ~refuses(y.op, y.a))
               /\ y.client = client'.kind /\ client'.state \in {"open", "closed"}
  BY <1>1, Zenon DEF Begun
<1>3. ASSUME NEW z, NEW d, Asks(c, z, d), Begins(x, w, y, v, z, d), client.kind = z.client,
             client.state \in {"open", "closed"}
      PROVE  /\ Asking(y) /\ v.req \in {{}, {Outgoing(y)}}
             /\ (v.req # {} => ~refuses(y.op, y.a))
             /\ y.client = client'.kind /\ client'.state \in {"open", "closed"}
  <2>1. Asking(z)
    <3>1. CASE d = 0
      BY <1>3, <3>1, WorkloadAsking, Zenon DEF Asks
    <3>2. CASE d # 0
      <4>1. d \in Calls
        <5>1. d \in 0 .. c - 1
          BY <1>3, Zenon DEF Asks
        <5> QED
          BY <3>2, <5>1, ClientAssumption DEF Calls
      <4> QED
        BY <1>3, <3>2, <4>1, FollowsAsking, Zenon DEF Asks
    <3> QED
      BY <3>1, <3>2, Zenon
  <2>2. y.client = z.client /\ y.op = z.op /\ y.a = z.a
    BY <1>3, Zenon DEF Begins
  <2>3. Asking(y) /\ Outgoing(y) = Outgoing(z)
    BY <2>1, <2>2, Zenon DEF Asking, Outgoing
  <2>4. v.req \in {{}, {Outgoing(y)}} /\ (v.req # {} => ~refuses(y.op, y.a))
    BY <1>3, <2>2, <2>3, Zenon DEF Begins
  <2> QED
    BY <1>3, <2>2, <2>3, <2>4, ClientStays, Zenon
<1>4. ASSUME SameOne(x, w, y, v), x.state # "idle"
      PROVE  /\ Asking(y) /\ v.req \in {{}, {Outgoing(y)}}
             /\ (v.req # {} => ~refuses(y.op, y.a))
             /\ y.client = client'.kind /\ client'.state \in {"open", "closed"}
  <2>1. Begun(x, w)
    BY <1>1, <1>4, Zenon DEF AskedInv
  <2>2. y.client = x.client /\ y.op = x.op /\ y.a = x.a /\ v.req = w.req
    BY <1>4, Zenon DEF SameOne
  <2>3. Asking(y) /\ Outgoing(y) = Outgoing(x)
    BY <2>1, <2>2, Zenon DEF Begun, Asking, Outgoing
  <2> QED
    BY <2>1, <2>2, <2>3, ClientStays, Zenon DEF Begun
<1>5. \/ y = x /\ v.req = w.req
      \/ SameOne(x, w, y, v) /\ x.state = "waiting"
      \/ \E z, d : Asks(c, z, d) /\ Begins(x, w, y, v, z, d)
                   /\ client.kind = z.client /\ client.state \in {"open", "closed"}
  BY <1>1, Zenon DEF Evolves, Ends, Takes, Gets, Handles
<1>6. CASE y = x /\ v.req = w.req
  <2>1. SameOne(x, w, y, v) /\ x.state # "idle"
    BY <1>1, <1>6, Zenon DEF SameOne
  <2> QED
    BY <1>4, <2>1
<1>7. CASE SameOne(x, w, y, v) /\ x.state = "waiting"
  BY <1>4, <1>7
<1> QED
  BY <1>3, <1>5, <1>6, <1>7, Zenon

\* The request of a call stays the one it is.
LEMMA RequestStays ==
  ASSUME ClientInv, NEW c \in Calls, Evolves(c), wire[c].req # {}
  PROVE  /\ call'[c].op = call[c].op /\ call'[c].a = call[c].a
         /\ call'[c].after = call[c].after /\ wire'[c].req = wire[c].req
<1>1. wire[c] # NoRequest
  BY SMT DEF NoRequest
<1> QED
  BY <1>1, Zenon DEF Evolves, Begins, Ends, Takes, Gets, Handles, SameOne

LEMMA StepRecords ==
  ASSUME ClientInv, AskedInv, LogMoves, \A c \in Calls : Evolves(c)
  PROVE  \A i \in DOMAIN log' :
           /\ log'[i].call \in Calls
           /\ Recorded(log'[i], call'[log'[i].call], wire'[log'[i].call])
<1>1. ASSUME NEW i \in DOMAIN log, log'[i] = log[i]
      PROVE  /\ log'[i].call \in Calls
             /\ Recorded(log'[i], call'[log'[i].call], wire'[log'[i].call])
  <2>1. PICK d \in Calls : d = log[i].call /\ Recorded(log[i], call[d], wire[d])
    BY Zenon DEF AskedInv
  <2>2. wire[d].req # {}
    BY <2>1, Zenon DEF Recorded
  <2>3. call'[d].op = call[d].op /\ wire'[d].req = wire[d].req
    BY <2>2, RequestStays, Zenon
  <2> QED
    BY <1>1, <2>1, <2>3, Zenon DEF Recorded
<1>2. CASE log' = log
  BY <1>1, <1>2, Zenon
<1>3. ASSUME NEW c \in Calls, Enters(c, log, log'),
             \A d \in Calls : call'[d] = call[d] /\ wire'[d].req = wire[d].req
      PROVE  \A i \in DOMAIN log' :
               /\ log'[i].call \in Calls
               /\ Recorded(log'[i], call'[log'[i].call], wire'[log'[i].call])
  <2>1. PICK q, n : q \in wire[c].req /\
          log' = Append(log, [call |-> c, rpc |-> rpc(call[c].op), req |-> q, keys |-> n])
    BY <1>3, Zenon DEF Enters
  <2>2. PICK e : e = [call |-> c, rpc |-> rpc(call[c].op), req |-> q, keys |-> n]
    OBVIOUS
  <2>3. e.call = c /\ e.rpc = rpc(call[c].op) /\ e.req = q
    BY <2>2
  <2>4. \A i \in DOMAIN log' : log'[i] = e \/ (i \in DOMAIN log /\ log'[i] = log[i])
    BY <2>1, <2>2 DEF ClientInv, IsLog
  <2>5. Recorded(e, call'[c], wire'[c])
    BY <1>3, <2>1, <2>3, Zenon DEF Recorded, Enters
  <2> QED
    BY <1>1, <2>3, <2>4, <2>5, Zenon
<1> QED
  BY <1>2, <1>3, Zenon DEF LogMoves

LEMMA LogTyped == ClientInv /\ AskedInv => LogOK(log)
<1> SUFFICES ASSUME ClientInv, AskedInv PROVE LogOK(log)
  OBVIOUS
<1>1. Len(log) \in 0 .. NumCalls /\ DOMAIN log = 1 .. Len(log)
  <2>1. \A c \in Calls : \A i, j \in Mine(c, log) : i = j
    BY Zenon DEF ClientInv, Sound
  <2> QED
    BY <2>1, LogBounded, Zenon DEF ClientInv, AskedInv
<1>2. ASSUME NEW i \in DOMAIN log
      PROVE  /\ log[i].rpc \in Mutations \cup Issues
             /\ log[i].req \in Methods[log[i].rpc].in
             /\ log[i].rpc \in CredentialMethods => Expiry(log[i].req) \subseteq 1 .. Two63 - 1
  <2>1. PICK d \in Calls : d = log[i].call /\ Recorded(log[i], call[d], wire[d])
    BY Zenon DEF AskedInv
  <2>2. PICK x, w, e : x = call[d] /\ w = wire[d] /\ e = log[i] /\ Recorded(e, x, w)
    BY <2>1
  <2>3. x.state # "idle"
    <3>1. w.req # {} /\ Sound(d, x, w, log)
      BY <2>2, Zenon DEF Recorded, ClientInv
    <3>2. NoRequest.req = {}
      BY DEF NoRequest
    <3> QED
      BY <3>1, <3>2, Zenon DEF Sound
  <2>4. Begun(x, w)
    BY <2>2, <2>3, Zenon DEF AskedInv
  <2>5. e.rpc \in Mutations \cup Issues /\ e.rpc = rpc(x.op) /\ e.req = Outgoing(x)
    BY <2>2, <2>4, Zenon DEF Recorded, Begun
  <2>6. x.op \in DOMAIN Arguments /\ x.op \notin SpiffeMethods
    <3>1. x.op \notin SpiffeMethods
      BY <2>5 DEF Mutations, Issues, CredentialMethods, SpiffeMethods, rpc
    <3> QED
      BY <2>4, <3>1, Zenon DEF Begun, Asking
  <2>7. e.req = request(x.op, x.a) /\ x.a \in Arguments[x.op]
    BY <2>4, <2>5, <2>6, Zenon DEF Outgoing, Begun, Asking
  <2>8. e.req \in Methods[e.rpc].in
    BY <2>5, <2>6, <2>7, AllFaithful, Zenon DEF Faithful
  <2>9. e.rpc \in CredentialMethods => x.op \in CredentialMethods
    BY <2>5 DEF rpc, CredentialMethods
  <2> QED
    BY <2>2, <2>4, <2>5, <2>7, <2>8, <2>9, Zenon DEF Begun, Asking
<1> QED
  BY <1>1, <1>2, Zenon DEF LogOK

-----------------------------------------------------------------------------
\* The broker's replies are typed.
LEMMA ServesTyped ==
  ASSUME NEW c, NEW x, NEW w, NEW q \in w.req, NEW rs, NEW l, IsLog(l), NEW m, LogOK(m),
         Begun(x, w), Serves(c, x, q, rs, l, m)
  PROVE  /\ x.op # "ListCatalog" => Replying(x.op, rs)
         /\ x.op = "ListCatalog" =>
              \A k \in DOMAIN rs : rs[k].kind = "message" => rs[k].message \in CatalogEntry
<1> DEFINE r == rpc(x.op)
           Entry(n) == [call |-> c, rpc |-> r, req |-> q, keys |-> n]
           More(n) == IF r \in Mutations \cup Issues THEN Append(l, Entry(n)) ELSE l
           es == Visible(q.Prefix)
<1>1. \/ r # "ListCatalog" /\ \E n : m = More(n) /\ \E a \in Response(r, q, m) : rs = <<Message(a)>>
      \/ /\ r = "ListCatalog"
         /\ \E n \in 0 .. Len(es) : \E last :
              last.kind # "message" /\ rs = [i \in 1 .. n |-> Message(es[i])] \o <<last>>
      \/ \E st : rs = <<Failure(st)>>
  BY Zenon DEF Serves
<1>2. r = "ListCatalog" <=> x.op = "ListCatalog"
  BY OwnRPC, Zenon
<1>3. q = Outgoing(x)
  BY Zenon DEF Begun
<1>4. ASSUME r # "ListCatalog", NEW n, m = More(n), NEW a \in Response(r, q, m),
             rs = <<Message(a)>>
      PROVE  Replying(x.op, rs)
  <2> SUFFICES ASSUME x.op \in DOMAIN Arguments
               PROVE  a \in Methods[rpc(x.op)].out /\ InRange(x.op, a)
    BY <1>4, Zenon DEF Replying
  <2>1. x.op \notin SpiffeMethods
    BY Listing DEF SpiffeMethods
  <2>2. q = request(x.op, x.a) /\ x.a \in Arguments[x.op]
    BY <1>3, <2>1, Zenon DEF Outgoing, Begun, Asking
  <2>3. q \in Methods[rpc(x.op)].in
    BY <2>2, AllFaithful, Zenon DEF Faithful
  <2>4. x.op \in CredentialMethods => Expiry(q) \subseteq 1 .. Two63 - 1
    BY <2>2, Zenon DEF Begun, Asking
  <2>5. r \in Mutations \cup Issues => Len(m) # 0
    <3> SUFFICES ASSUME r \in Mutations \cup Issues PROVE Len(m) # 0
      OBVIOUS
    <3>1. PICK e : m = Append(l, e)
      BY <1>4, Zenon
    <3> QED
      BY ONLY <3>1, IsLog(l) DEF IsLog
  <2> QED
    BY <1>2, <1>4, <2>3, <2>4, <2>5, AnswerTyped, Zenon
<1>5. ASSUME x.op = "ListCatalog", NEW n \in 0 .. Len(es), NEW last, last.kind # "message",
             rs = [i \in 1 .. n |-> Message(es[i])] \o <<last>>
      PROVE  \A k \in DOMAIN rs : rs[k].kind = "message" => rs[k].message \in CatalogEntry
  <2>1. es \in Seq(CatalogEntry)
    <3>1. x.op \notin SpiffeMethods
      BY <1>5 DEF SpiffeMethods
    <3>2. q = ListCatalog(x.a)
      BY <1>3, <1>5, <3>1, Requests, Zenon DEF Outgoing
    <3>3. q.Prefix = x.a.prefix
      BY <3>2 DEF ListCatalog
    <3> QED
      BY <1>5, <3>3, Zenon DEF Begun, Asking
  <2>2. PICK f : f = [i \in 1 .. n |-> Message(es[i])]
    OBVIOUS
  <2>3. n \in Nat /\ n <= Len(es) /\ Len(es) \in Nat
    BY <2>1
  <2> HIDE DEF es
  <2>4. \A i \in 1 .. n : f[i].kind = "message" /\ f[i].message \in CatalogEntry
    BY <2>1, <2>2, <2>3 DEF Message
  <2>5. /\ Len(f) = n /\ f \in Seq({f[i] : i \in 1 .. n})
    BY <2>2, <2>3
  <2>6. \A k \in DOMAIN rs : rs[k] = last \/ (k \in 1 .. n /\ rs[k] = f[k])
    BY <1>5, <2>2, <2>3, <2>5
  <2> QED
    BY <1>5, <2>4, <2>6, Zenon
<1>6. ASSUME NEW st, rs = <<Failure(st)>>
      PROVE  /\ Replying(x.op, rs)
             /\ \A k \in DOMAIN rs : rs[k].kind # "message"
  <2>1. Replying(x.op, rs)
    BY <1>6, Zenon DEF Replying
  <2> QED
    BY <1>6, <2>1 DEF Failure
<1> HIDE DEF r, es, More
<1> QED
  BY <1>1, <1>2, <1>4, <1>5, <1>6, Zenon

\* The queue of a method other than ListCatalog is not consumed.
LEMMA OneReply ==
  /\ \A reply : Rest(<<reply>>) = <<reply>> /\ Head(<<reply>>) = reply
  /\ \A m : Message(m).kind = "message" /\ Message(m).message = m
  /\ \A st : Failure(st).kind = "status"
  BY DEF Rest, Message, Failure

LEMMA NilKind == nil # clientError /\ \A st : FromError(st) # nil
  BY Errors, Zenon

LEMMA StepAnswers ==
  ASSUME ClientInv, AskedInv, AnsweredInv, LogOK(log'), NEW c \in Calls, Evolves(c)
  PROVE  ReplyOK(call'[c], wire'[c])
<1>1. PICK x, w, y, v : x = call[c] /\ w = wire[c] /\ y = call'[c] /\ v = wire'[c]
  OBVIOUS
<1> SUFFICES ReplyOK(y, v)
  BY <1>1, Zenon
<1>2. ReplyOK(x, w) /\ Sound(c, x, w, log)
  BY <1>1, Zenon DEF AnsweredInv, ClientInv
<1>3. ASSUME NEW z, NEW d, Begins(x, w, y, v, z, d) PROVE ReplyOK(y, v)
  <2>1. DOMAIN v.replies = {}
    BY <1>3 DEF Begins
  <2>2. Replying(y.op, v.replies)
    BY <1>3, Zenon DEF Begins, Replying
  <2> QED
    BY <1>3, <2>1, <2>2, Zenon DEF Begins, ReplyOK
<1>4. CASE Ends(x, w, y, v)
  <2>1. DOMAIN v.replies = {}
    BY <1>4 DEF Ends
  <2>2. Replying(y.op, v.replies)
    BY <1>4, Zenon DEF Ends, Replying
  <2>3. y.result = {}
    BY <1>2, <1>4, Zenon DEF Ends, ReplyOK
  <2> QED
    <3>1. y.state = "returned" /\ y.err # nil
      BY <1>4, Zenon DEF Ends
    <3> QED
      BY ONLY <2>1, <2>2, <2>3, <3>1, Zenon DEF ReplyOK
<1>5. ASSUME w.replies # <<>> /\ v.replies = Rest(w.replies)
      PROVE  \A k \in DOMAIN v.replies : \E j \in DOMAIN w.replies : v.replies[k] = w.replies[j]
  <2>1. Dequeued(c, x, w, log)
    BY <1>2, <1>5, ReplyQueue, Zenon
  <2>2. PICK s, rs : s = w.replies /\ rs = v.replies /\ rs = IF Len(s) > 1 THEN Tail(s) ELSE s
    BY <1>5 DEF Rest
  <2>3. /\ Len(s) \in Nat /\ DOMAIN s = 1 .. Len(s)
        /\ Len(s) > 1 => /\ Len(rs) = Len(s) - 1 /\ DOMAIN rs = 1 .. Len(rs)
                         /\ \A k \in DOMAIN rs : rs[k] = s[k + 1]
    BY <1>5, <2>1, <2>2, Zenon DEF Dequeued
  <2>4. ASSUME NEW k \in DOMAIN rs, Len(s) > 1 PROVE k + 1 \in DOMAIN s /\ rs[k] = s[k + 1]
    BY ONLY <2>3, <2>4
  <2> QED
    BY <2>2, <2>4, Zenon
<1>6. CASE Takes(x, w, y, v)
  <2>1. \A k \in DOMAIN v.replies : \E j \in DOMAIN w.replies : v.replies[k] = w.replies[j]
    BY <1>5, <1>6, Zenon DEF Takes
  <2>2. y.op = "ListCatalog" /\ x.op = "ListCatalog" /\ y.state = "waiting" /\ y.result = x.result
    BY <1>6, Zenon DEF Takes, SameOne
  <2> QED
    <3>1. "waiting" # "returned" /\ x.state = "waiting"
      BY <1>6, Zenon DEF Takes
    <3>2. \A j \in DOMAIN w.replies :
            w.replies[j].kind = "message" => w.replies[j].message \in CatalogEntry
      BY <1>2, <2>2, Zenon DEF ReplyOK
    <3>3. x.result = {}
      BY <1>2, <3>1, Zenon DEF ReplyOK
    <3>4. \A k \in DOMAIN v.replies :
            v.replies[k].kind = "message" => v.replies[k].message \in CatalogEntry
      BY ONLY <2>1, <3>2, Zenon
    <3> QED
      BY ONLY <2>2, <3>1, <3>3, <3>4, Zenon DEF ReplyOK
<1>7. CASE Gets(x, w, y, v)
  <2>1. \A k \in DOMAIN v.replies : \E j \in DOMAIN w.replies : v.replies[k] = w.replies[j]
    BY <1>5, <1>7, Zenon DEF Gets
  <2>2. y.op = x.op /\ y.state = "returned"
    BY <1>7, Zenon DEF Gets, SameOne
  <2>3. y.result # {} <=> y.err = nil
    BY <1>7, NilKind, Zenon DEF Gets
  <2>4. ASSUME x.op # "ListCatalog" 
        PROVE  Replying(y.op, v.replies) /\ (y.result # {} => Kept(y, v))
    <3>1. Replying(x.op, w.replies) /\ w.replies # <<>> /\ v.replies = Rest(w.replies)
      BY <1>2, <1>7, <2>4, Zenon DEF ReplyOK, Gets
    <3>2. CASE \E st : w.replies = <<Failure(st)>>
      <4>1. PICK st : w.replies = <<Failure(st)>>
        BY <3>2
      <4>2. v.replies = <<Failure(st)>> /\ Head(w.replies) = Failure(st)
        BY <3>1, <4>1, OneReply, Zenon
      <4>3. y.result = {}
        <5>1. "status" # "message" /\ "status" # "EOF" /\ Failure(st).kind = "status"
          BY DEF Failure
        <5> QED
          BY <1>7, <4>2, <5>1, Zenon DEF Gets
      <4> QED
        BY <4>2, <4>3, Zenon DEF Replying
    <3>3. ASSUME NEW m, w.replies = <<Message(m)>>,
                 x.op \in DOMAIN Arguments => m \in Methods[rpc(x.op)].out /\ InRange(x.op, m)
          PROVE  Replying(y.op, v.replies) /\ (y.result # {} => Kept(y, v))
      <4>1. v.replies = <<Message(m)>> /\ Head(w.replies) = Message(m)
            /\ Head(w.replies).kind = "message" /\ Head(w.replies).message = m
        BY <3>1, <3>3, OneReply, Zenon
      <4>2. Replying(y.op, v.replies)
        BY <2>2, <3>3, <4>1, Zenon DEF Replying
      <4>3. ASSUME y.result # {} PROVE ~unusable(x.op, m) /\ y.result = {Incoming(x, m)}
        <5>1. "status" # "message" /\ "message" # "EOF"
          OBVIOUS
        <5> QED
          BY <1>7, <4>1, <4>3, <5>1, Zenon DEF Gets
      <4>4. Incoming(y, m) = Incoming(x, m)
        BY <2>2, Zenon DEF Incoming
      <4> QED
        BY <2>2, <4>1, <4>2, <4>3, <4>4, Zenon DEF Kept
    <3> QED
      BY <3>1, <3>2, <3>3, Zenon DEF Replying
  <2> QED
    <3>1. ASSUME x.op = "ListCatalog"
          PROVE  \A k \in DOMAIN v.replies :
                   v.replies[k].kind = "message" => v.replies[k].message \in CatalogEntry
      <4>1. \A j \in DOMAIN w.replies :
              w.replies[j].kind = "message" => w.replies[j].message \in CatalogEntry
        BY <1>2, <3>1, Zenon DEF ReplyOK
      <4> QED
        BY ONLY <2>1, <4>1, Zenon
    <3> QED
      BY ONLY <2>2, <2>3, <2>4, <3>1, Zenon DEF ReplyOK
<1>8. CASE Handles(c, x, w, y, v, log, log')
  <2>1. PICK q, rs : /\ q \in w.req /\ Serves(c, x, q, rs, log, log')
                     /\ v.replies = IF x.state = "waiting" THEN rs ELSE <<>>
    BY <1>8, Zenon DEF Handles
  <2>2. y = x /\ ~w.handled /\ w.replies = <<>>
    BY <1>2, <1>8, Zenon DEF Handles, Sound
  <2>3. x.state # "idle"
    <3>1. NoRequest.req = {}
      BY DEF NoRequest
    <3> QED
      BY <1>2, <2>1, <3>1, Zenon DEF Sound
  <2>4. Begun(x, w)
    BY <1>1, <2>3, Zenon DEF AskedInv
  <2>5. /\ x.op # "ListCatalog" => Replying(x.op, rs)
        /\ x.op = "ListCatalog" =>
              \A k \in DOMAIN rs : rs[k].kind = "message" => rs[k].message \in CatalogEntry
    BY <2>1, <2>4, ServesTyped, Zenon DEF ClientInv
  <2>6. x.op # "ListCatalog" => x.result = {}
    <3>1. \A m : <<>> # <<Message(m)>>
      OBVIOUS
    <3> QED
      BY <1>2, <2>2, <3>1, Zenon DEF ReplyOK, Kept
  <2>7. /\ x.op # "ListCatalog" => Replying(x.op, v.replies)
        /\ x.op = "ListCatalog" =>
              \A k \in DOMAIN v.replies :
                v.replies[k].kind = "message" => v.replies[k].message \in CatalogEntry
    <3>1. CASE x.state = "waiting"
      BY <2>1, <2>5, <3>1, Zenon
    <3>2. CASE x.state # "waiting"
      <4>1. v.replies = <<>> /\ DOMAIN v.replies = {}
        BY <2>1, <3>2
      <4> QED
        BY <4>1, Zenon DEF Replying
    <3> QED
      BY <3>1, <3>2, Zenon
  <2> QED
    BY ONLY <1>2, <2>2, <2>6, <2>7, Zenon DEF ReplyOK
<1> QED
  BY <1>1, <1>2, <1>3, <1>4, <1>6, <1>7, <1>8, Zenon DEF Evolves

-----------------------------------------------------------------------------
LEMMA Idle == NoCall.state = "idle" /\ NoCall.result = {} /\ NoCall.op = ""
  BY Zenon DEF NoCall

LEMMA InitTyped == Init => AskedInv /\ AnsweredInv
<1> SUFFICES ASSUME Init PROVE AskedInv /\ AnsweredInv
  OBVIOUS
<1>1. client.state = "none" /\ DOMAIN log = {}
  <2>1. NoClient.state = "none"
    BY Zenon DEF NoClient
  <2> QED
    BY <2>1 DEF Init
<1>2. ASSUME NEW c \in Calls
      PROVE  call[c].state = "idle" /\ ReplyOK(call[c], wire[c])
  <2>1. PICK x, w : x = call[c] /\ w = wire[c] /\ x = NoCall /\ w = NoRequest
    BY Zenon DEF Init
  <2>2. x.state = "idle" /\ x.result = {}
    BY <2>1, Idle, Zenon
  <2>3. x.op # "ListCatalog"
    <3>1. x.op = ""
      BY <2>1, Idle, Zenon
    <3> QED
      BY ONLY <3>1
  <2>4. w.replies = <<>>
    BY <2>1 DEF NoRequest
  <2>5. Replying(x.op, w.replies) /\ "idle" # "returned"
    BY <2>4, Zenon DEF Replying
  <2> QED
    BY <2>1, <2>2, <2>3, <2>5, Zenon DEF ReplyOK
<1> QED
  BY <1>1, <1>2, Zenon DEF AskedInv, AnsweredInv

\* The client and the calls as a step leaves them.
LEMMA NextAsked ==
  ASSUME ClientInv, OptionsInv, AskedInv, AnsweredInv, [Next]_vars
  PROVE  AskedInv'
<1>1. ClientMoves /\ LogMoves /\ \A c \in Calls : Evolves(c)
  <2>1. DOMAIN client = DOMAIN NoClient
    BY DEF OptionsInv, NoClient
  <2> QED
    BY <2>1, Evolution, Zenon
<1>2. client'.state \in {"none", "failed", "open", "closed"}
  BY <1>1, Zenon DEF ClientMoves, AskedInv
<1>3. ASSUME NEW c \in Calls, call'[c].state # "idle" PROVE Begun(call[c], wire[c])'
  BY <1>1, <1>3, StepAsks, Zenon
<1>4. \A i \in DOMAIN log' :
        /\ log'[i].call \in Calls
        /\ Recorded(log'[i], call'[log'[i].call], wire'[log'[i].call])
  BY <1>1, StepRecords, Zenon
<1> QED
  BY <1>2, <1>3, <1>4, Zenon DEF AskedInv

LEMMA NextAnswered ==
  ASSUME ClientInv, ClientInv', OptionsInv, AskedInv, AnsweredInv, [Next]_vars
  PROVE  AskedInv' /\ AnsweredInv'
<1>1. \A c \in Calls : Evolves(c)
  <2>1. DOMAIN client = DOMAIN NoClient
    BY DEF OptionsInv, NoClient
  <2> QED
    BY <2>1, Evolution, Zenon
<1>2. AskedInv'
  BY NextAsked, Zenon
<1>3. LogOK(log)'
  BY <1>2, LogTyped, PTL
<1>4. ASSUME NEW c \in Calls PROVE ReplyOK(call'[c], wire'[c])
  BY <1>1, <1>3, StepAnswers, Zenon
<1> QED
  BY <1>2, <1>4, Zenon DEF AnsweredInv

LEMMA TypedInvariant == Spec => [](ClientInv /\ AskedInv /\ AnsweredInv)
<1>1. ClientInv /\ ClientInv' /\ OptionsInv /\ AskedInv /\ AnsweredInv /\ [Next]_vars
        => AskedInv' /\ AnsweredInv'
  BY NextAnswered, Zenon
<1> QED
  BY <1>1, InitTyped, ClientInvariant, OptionsInvariant, PTL DEF Spec

\* The RPCs of the methods, and those that are no method's.
LEMMA RPCs ==
  /\ \A op \in SpiffeMethods : rpc(op) \notin DOMAIN Methods
  /\ rpc("") \notin DOMAIN Methods
<1>1. rpc("") = "" /\ \A op \in SpiffeMethods : rpc(op) = op
  BY DEF SpiffeMethods, rpc
<1>2. "" \notin DOMAIN Methods /\ \A op \in SpiffeMethods : op \notin DOMAIN Methods
  <2>1. DOMAIN Methods = DOMAIN InvocationServiceClient \cup DOMAIN SigningServiceClient
           \cup DOMAIN AeadServiceClient \cup DOMAIN SecretServiceClient
           \cup DOMAIN MintingServiceClient \cup DOMAIN NatsServiceClient
           \cup DOMAIN AdminServiceClient
    BY Zenon DEF Methods
  <2> QED
    BY <2>1, SMT DEF SpiffeMethods, InvocationServiceClient, SigningServiceClient,
         AeadServiceClient, SecretServiceClient, MintingServiceClient, NatsServiceClient,
         AdminServiceClient
<1> QED
  BY <1>1, <1>2, Zenon

LEMMA InvTyped ==
  ASSUME ClientInv, AskedInv, AnsweredInv PROVE ClientTypeOK
<1> DEFINE Out(r) == IF r = "ListCatalog" THEN CatalogEntry ELSE Methods[r].out
<1> SUFFICES ASSUME NEW c \in Calls, NEW x, NEW w, x = call[c], w = wire[c]
             PROVE  /\ x.state \in {"idle", "waiting", "returned"}
                    /\ (x.result # {}) = (x.state = "returned" /\ x.err = nil)
                    /\ x.op \in DOMAIN Arguments => x.a \in Arguments[x.op]
                    /\ rpc(x.op) \in DOMAIN Methods =>
                         /\ w.req \in Opt(Methods[rpc(x.op)].in)
                         /\ \A i \in DOMAIN w.replies :
                              w.replies[i].kind = "message" =>
                                w.replies[i].message \in Out(rpc(x.op))
  BY Zenon DEF ClientTypeOK, AskedInv
<1>1. Sound(c, x, w, log) /\ ReplyOK(x, w) /\ (x.state # "idle" => Begun(x, w))
  BY Zenon DEF ClientInv, AskedInv, AnsweredInv
<1>2. x.state \in {"idle", "waiting", "returned"}
  BY <1>1, Zenon DEF Sound
<1>3. (x.result # {}) = (x.state = "returned" /\ x.err = nil)
  <2>1. x.result # {} <=> x.state = "returned" /\ x.err = nil
    BY <1>1, Zenon DEF ReplyOK
  <2> QED
    BY <2>1, Zenon
<1>4. CASE x.state = "idle"
  <2>1. x.op = "" /\ w.req = {} /\ w.replies = <<>>
    <3>1. x = NoCall /\ w = NoRequest
      BY <1>1, <1>4, Zenon DEF Sound
    <3>2. NoRequest.req = {} /\ NoRequest.replies = <<>>
      BY DEF NoRequest
    <3> QED
      BY <3>1, <3>2, Idle, Zenon
  <2>2. "" \notin DOMAIN Arguments
    BY Listing
  <2>3. rpc(x.op) \notin DOMAIN Methods
    BY <2>1, RPCs, Zenon
  <2> QED
    BY <1>2, <1>3, <2>1, <2>2, <2>3, Zenon
<1>5. CASE x.op \in SpiffeMethods
  <2>1. x.op \notin DOMAIN Arguments
    BY <1>5, Listing DEF SpiffeMethods
  <2>2. rpc(x.op) \notin DOMAIN Methods
    BY <1>5, RPCs, Zenon
  <2> QED
    BY <1>2, <1>3, <2>1, <2>2, Zenon
<1>6. CASE x.state # "idle" /\ x.op \notin SpiffeMethods
  <2>1. x.op \in DOMAIN Arguments /\ x.a \in Arguments[x.op] /\ w.req \in {{}, {request(x.op, x.a)}}
    BY <1>1, <1>6, Zenon DEF Begun, Asking, Outgoing
  <2>2. w.req \in Opt(Methods[rpc(x.op)].in)
    <3>1. request(x.op, x.a) \in Methods[rpc(x.op)].in
      BY <2>1, AllFaithful, Zenon DEF Faithful
    <3> QED
      BY <2>1, <3>1, Zenon DEF Opt
  <2>3. rpc(x.op) = "ListCatalog" <=> x.op = "ListCatalog"
    BY OwnRPC, Zenon
  <2>4. ASSUME NEW i \in DOMAIN w.replies, w.replies[i].kind = "message"
        PROVE  w.replies[i].message \in Out(rpc(x.op))
    <3>1. CASE x.op = "ListCatalog"
      BY <1>1, <2>3, <2>4, <3>1, Zenon DEF ReplyOK
    <3>2. CASE x.op # "ListCatalog"
      <4>1. Replying(x.op, w.replies)
        BY <1>1, <3>2, Zenon DEF ReplyOK
      <4>2. \A reply : DOMAIN <<>> = {} /\ DOMAIN <<reply>> = {1} /\ <<reply>>[1] = reply
        OBVIOUS
      <4>3. \A st : Failure(st).kind # "message"
        BY DEF Failure
      <4>4. PICK m \in Methods[rpc(x.op)].out : w.replies = <<Message(m)>>
        <5>1. w.replies # <<>>
          BY <2>4, <4>2, Zenon
        <5>2. ASSUME NEW st, w.replies = <<Failure(st)>> PROVE FALSE
          <6>1. w.replies[i] = Failure(st)
            BY <2>4, <4>2, <5>2, Zenon
          <6> QED
            BY <2>4, <4>3, <6>1, Zenon
        <5> QED
          BY <2>1, <4>1, <5>1, <5>2, Zenon DEF Replying
      <4>5. w.replies[i] = Message(m)
        BY <2>4, <4>2, <4>4, Zenon
      <4> QED
        BY <2>3, <3>2, <4>4, <4>5, OneReply, Zenon
    <3> QED
      BY <3>1, <3>2, Zenon
  <2> QED
    BY <1>2, <1>3, <2>1, <2>2, <2>4, Zenon
<1> QED
  BY <1>4, <1>5, <1>6, Zenon

\* Every request and every reply of every method is a message of its RPC's
\* type, every call, those made of results too, is made of values of Go's
\* types, and a call has a result exactly when it succeeded.
THEOREM CallsTyped == Spec => []ClientTypeOK
  BY TypedInvariant, InvTyped, PTL

LEMMA InvDistinguishes ==
  ASSUME ClientInv, AskedInv, AnsweredInv PROVE NothingLost
<1> SUFFICES ASSUME NEW c \in Calls, NEW d \in Calls, call[c].op = call[d].op,
                    client.kind = "basil"
             PROVE  /\ (wire[c].req # {} /\ wire[c].req = wire[d].req) =>
                         Asked(call[c].a) = Asked(call[d].a)
                    /\ (/\ call[c].op # "ListCatalog"
                        /\ call[c].result # {} /\ call[c].result = call[d].result)
                         => Told(wire[c].replies[1].message) = Told(wire[d].replies[1].message)
  BY Zenon DEF NothingLost
<1> DEFINE x == call[c]
           w == wire[c]
           y == call[d]
           v == wire[d]
<1>1. ASSUME NEW e \in Calls, call[e].state # "idle"
      PROVE  /\ Begun(call[e], wire[e]) /\ call[e].op \in DOMAIN Arguments
             /\ call[e].a \in Arguments[call[e].op] /\ call[e].op \notin SpiffeMethods
  <2>1. Begun(call[e], wire[e])
    BY <1>1, Zenon DEF AskedInv
  <2>2. call[e].op \in DOMAIN Arguments /\ call[e].a \in Arguments[call[e].op]
    BY <2>1, Zenon DEF Begun, Asking
  <2> QED
    BY <2>1, <2>2, Listing DEF SpiffeMethods
<1>2. ASSUME NEW e \in Calls
      PROVE  /\ wire[e].req # {} => call[e].state # "idle"
             /\ call[e].result # {} => call[e].state # "idle"
  <2>1. Sound(e, call[e], wire[e], log) /\ ReplyOK(call[e], wire[e])
    BY Zenon DEF ClientInv, AnsweredInv
  <2>2. NoRequest.req = {}
    BY DEF NoRequest
  <2> QED
    BY <2>1, <2>2, Zenon DEF Sound, ReplyOK
<1>3. ASSUME w.req # {}, w.req = v.req PROVE Asked(x.a) = Asked(y.a)
  <2>1. /\ Begun(x, w) /\ x.op \in DOMAIN Arguments /\ x.a \in Arguments[x.op]
        /\ Begun(y, v) /\ y.a \in Arguments[x.op] /\ x.op \notin SpiffeMethods
    BY <1>1, <1>2, <1>3, Zenon
  <2>2. /\ ~refuses(x.op, x.a) /\ w.req = {request(x.op, x.a)}
        /\ ~refuses(x.op, y.a) /\ v.req = {request(x.op, y.a)}
    <3>1. x.op = y.op
      OBVIOUS
    <3> QED
      BY <1>3, <2>1, <3>1, Zenon DEF Begun, Outgoing
  <2>3. request(x.op, x.a) = request(x.op, y.a)
    BY <1>3, <2>2, Zenon
  <2> QED
    BY <2>1, <2>2, <2>3, AllFaithful, ZenonT(30) DEF Faithful
<1>4. ASSUME NEW e \in Calls, call[e].op \in DOMAIN Arguments, call[e].op # "ListCatalog",
             call[e].op \notin SpiffeMethods, call[e].result # {}
      PROVE  \E m \in Methods[rpc(call[e].op)].out :
               /\ wire[e].replies[1].message = m /\ ~unusable(call[e].op, m)
               /\ InRange(call[e].op, m) /\ call[e].result = {result(call[e].op, m)}
  <2>1. PICK p, u : p = call[e] /\ u = wire[e]
    OBVIOUS
  <2>2. Replying(p.op, u.replies) /\ Kept(p, u)
    BY <1>4, <2>1, Zenon DEF AnsweredInv, ReplyOK
  <2>3. PICK m : u.replies = <<Message(m)>> /\ ~unusable(p.op, m) /\ p.result = {Incoming(p, m)}
    BY <2>2, Zenon DEF Kept
  <2>4. \A n : <<Message(m)>> = <<Message(n)>> => m = n
    BY DEF Message
  <2>5. \A st : <<Message(m)>> # <<>> /\ <<Message(m)>> # <<Failure(st)>>
    BY DEF Message, Failure
  <2>6. m \in Methods[rpc(p.op)].out /\ InRange(p.op, m)
    BY <1>4, <2>1, <2>2, <2>3, <2>4, <2>5, Zenon DEF Replying
  <2>7. Incoming(p, m) = result(p.op, m)
    BY <1>4, <2>1, Zenon DEF Incoming
  <2>8. u.replies[1].message = m
    BY <2>3 DEF Message
  <2> QED
    BY <2>1, <2>3, <2>6, <2>7, <2>8, Zenon
<1>5. ASSUME x.op # "ListCatalog", x.result # {}, x.result = y.result
      PROVE  Told(w.replies[1].message) = Told(v.replies[1].message)
  <2>1. x.op \in DOMAIN Arguments /\ x.op \notin SpiffeMethods
    BY <1>1, <1>2, <1>5, Zenon
  <2>2. PICK m \in Methods[rpc(x.op)].out :
          /\ w.replies[1].message = m /\ ~unusable(x.op, m)
          /\ InRange(x.op, m) /\ x.result = {result(x.op, m)}
    BY <1>4, <1>5, <2>1, Zenon
  <2>3. PICK n \in Methods[rpc(x.op)].out :
          /\ v.replies[1].message = n /\ ~unusable(x.op, n)
          /\ InRange(x.op, n) /\ y.result = {result(x.op, n)}
    BY <1>4, <1>5, <2>1, Zenon
  <2>4. result(x.op, m) = result(x.op, n)
    BY <1>5, <2>2, <2>3, Zenon
  <2> QED
    <3>1. Distinct(x.op)
      BY <1>5, <2>1, AllDistinct, Zenon
    <3> QED
      BY <2>2, <2>3, <2>4, <3>1, Zenon DEF Distinct
<1> QED
  BY <1>3, <1>5, Zenon

\* No conversion of basil/*.go loses anything: for all arguments of a
\* method's types, equal requests were asked for with the same arguments, and
\* equal results were made of answers that tell the same, for each of the 37
\* methods.
THEOREM NothingIsLost == Spec => []NothingLost
  BY TypedInvariant, InvDistinguishes, PTL

-----------------------------------------------------------------------------
Broken == "DECRYPT_FAILED"

\* The calls after which a call is made of their result.
OriginOf(x, made) ==
  x.after # 0 =>
    /\ x.after \in Calls /\ made.state = "returned"
    /\ \E res \in made.result : \E z :
         z \in FollowUp(made.op, made.a, res) /\ z.op = x.op /\ z.a = x.a

\* The answer that came to call c was the broker's when its log was p, which
\* ended with the entry of c, if it has one, and held that of the call whose
\* result c was made of.
Truth(c, x, w, l) ==
  x.op \in DOMAIN Arguments \ {"ListCatalog"} =>
    \A m : w.replies = <<Message(m)>> =>
      /\ w.req # {}
      /\ \E p : /\ Initial(p, l) /\ m \in Response(rpc(x.op), request(x.op, x.a), p)
                /\ rpc(x.op) \in Mutations \cup Issues =>
                     Len(p) # 0 /\ Len(p) \in DOMAIN l /\ l[Len(p)].call = c
                /\ \A i \in DOMAIN l : l[i].call = x.after => i \in DOMAIN p

\* A call on the result of another is not told that it does not decrypt.
Unbroken(x, w) ==
  x.after # 0 =>
    /\ x.state = "returned" => x.err.Reason # Broken
    /\ \A st : w.replies = <<Failure(st)>> => FromError(st).Reason # Broken

TripInv ==
  \A c \in Calls : /\ OriginOf(call[c], call[call[c].after])
                   /\ Truth(c, call[c], wire[c], log) /\ Unbroken(call[c], wire[c])

-----------------------------------------------------------------------------
LEMMA RejectionReason ==
  ASSUME NEW st \in Rejections PROVE FromError(st).Reason # Broken
<1>1. PICK ds : ds = st.details
  OBVIOUS
<1>2. ds \in Seq(Opt(BrokerErrorInfo)) /\ \A k \in DOMAIN ds : \A i \in ds[k] : i.Reason # Broken
  BY <1>1, BrokerAssumption, Zenon DEF Broken
<1>3. PICK infos : infos = {k \in DOMAIN ds : ds[k] # {}}
  OBVIOUS
<1>4. PICK info : info = IF infos = {} THEN noInfo ELSE CHOOSE i \in ds[Min(infos)] : TRUE
  OBVIOUS
<1>5. FromError(st) = Err("StatusError", st.code, info)
  <2>1. infos = {k \in DOMAIN st.details : st.details[k] # {}}
    BY <1>1, <1>3
  <2>2. info = IF infos = {} THEN noInfo ELSE CHOOSE i \in st.details[Min(infos)] : TRUE
    BY <1>1, <1>4
  <2>3. info = LET found == {k \in DOMAIN st.details : st.details[k] # {}}
               IN IF found = {} THEN noInfo ELSE CHOOSE i \in st.details[Min(found)] : TRUE
    BY <2>1, <2>2
  <2> QED
    BY <2>3 DEF FromError
<1>6. Err("StatusError", st.code, info).Reason = info.Reason
  BY DEF Err
<1>7. CASE infos = {}
  <2>1. info = noInfo
    BY <1>4, <1>7, Zenon
  <2>2. noInfo.Reason = ""
    BY Zenon DEF noInfo
  <2>3. "" # Broken
    BY DEF Broken
  <2> QED
    BY <1>5, <1>6, <2>1, <2>2, <2>3, Zenon
<1>8. CASE infos # {}
  <2>1. infos \subseteq Nat
    BY <1>2, <1>3
  <2>2. PICK least \in infos : \A k \in infos : least <= k
    BY <1>8, <2>1, LeastNat
  <2>3. Min(infos) \in infos
    BY <2>2, Zenon DEF Min
  <2>4. ds[Min(infos)] # {} /\ Min(infos) \in DOMAIN ds
    BY <1>3, <2>3, Zenon
  <2>5. info \in ds[Min(infos)]
    BY <1>4, <1>8, <2>4, Zenon
  <2> QED
    BY <1>2, <1>5, <1>6, <2>4, <2>5, Zenon
<1> QED
  BY <1>7, <1>8

\* The calls made of results are of these methods.
LEMMA FollowUpMethods ==
  ASSUME NEW op, NEW a, NEW res, NEW z \in FollowUp(op, a, res)
  PROVE  /\ z.op \in DOMAIN Arguments \ {"ListCatalog"} /\ z.op \notin SpiffeMethods
         /\ rpc(z.op) \notin Mutations \cup Issues /\ rpc(z.op) # "ListCatalog"
         /\ z.op \in {"Decrypt", "UnwrapEnvelope", "DecryptNatsCurve", "Verify",
                      "VerifyWithAlgorithm", "GetSecret", "GetPublicKey", "ValidateNatsJwt"}
<1> DEFINE Then == {"Decrypt", "UnwrapEnvelope", "DecryptNatsCurve", "Verify",
                    "VerifyWithAlgorithm", "GetSecret", "GetPublicKey", "ValidateNatsJwt"}
<1>1. PICK then \in Then : \E args : z = Follow(then, args)
  BY Zenon DEF FollowUp, Continued, CredentialMethods, Follow
<1>2. z.op \in Then
  <2>1. PICK args : z = Follow(then, args)
    BY <1>1
  <2>2. z.op = then
    BY <2>1, FollowIs, Zenon
  <2> QED
    BY <1>1, <2>2, Zenon
<1> QED
  BY <1>2, Listing DEF SpiffeMethods, rpc, Mutations, Issues, CredentialMethods

LEMMA InitialOK ==
  ASSUME NEW p, NEW l, LogOK(l), Initial(p, l) PROVE LogOK(p)
<1>1. PICK n, len1 : n = Len(l) /\ len1 = Len(p)
  OBVIOUS
<1>2. /\ n \in 0 .. NumCalls /\ NumCalls \in Nat /\ DOMAIN l = 1 .. n
      /\ len1 \in Nat /\ DOMAIN p = 1 .. len1 /\ DOMAIN p \subseteq DOMAIN l
  BY <1>1, ClientAssumption, Zenon DEF LogOK, Initial
<1>3. len1 \in 0 .. NumCalls
  BY ONLY <1>2
<1> QED
  BY <1>1, <1>2, <1>3, Zenon DEF LogOK, Initial

\* The same of two earlier logs, one with the last entry of the other.
LEMMA InitialOrder ==
  ASSUME NEW l, NEW p, NEW k, Initial(p, l), Initial(k, l), Len(p) \in DOMAIN k
  PROVE  Initial(p, k)
<1>1. PICK n, i : n = Len(k) /\ i = Len(p)
  OBVIOUS
<1>2. i \in Nat /\ DOMAIN p = 1 .. i /\ n \in Nat /\ DOMAIN k = 1 .. n /\ i \in 1 .. n
  BY <1>1, Zenon DEF Initial
<1>3. DOMAIN p \subseteq DOMAIN k
  BY ONLY <1>2
<1> QED
  BY <1>3, Zenon DEF Initial

LEMMA InitialSelf ==
  ASSUME NEW l, IsLog(l) PROVE Initial(l, l)
  BY DEF IsLog, Initial

-----------------------------------------------------------------------------
\* What the call d made is found by a call made of its result, if the log k
\* that this one is answered from has the entry of d.
LEMMA Finds ==
  ASSUME ClientInv, AskedInv, AnsweredInv, NEW d \in Calls, Truth(d, call[d], wire[d], log),
         NEW res \in call[d].result, NEW z \in FollowUp(call[d].op, call[d].a, res),
         ~refuses(z.op, z.a), NEW k, Initial(k, log),
         \A i \in DOMAIN log : log[i].call = d => i \in DOMAIN k
  PROVE  Trips(z, call[d].op, call[d].a, res, k, log)
<1>1. PICK x, w, op, a : x = call[d] /\ w = wire[d] /\ op = x.op /\ a = x.a
  OBVIOUS
<1>2. op \in Continued
  BY <1>1, OnlyContinued, Zenon
<1>3. /\ op \in DOMAIN Arguments \ {"ListCatalog"} /\ op \notin SpiffeMethods
      /\ rpc(op) \in Mutations \cup Issues
  BY <1>2, Listing DEF Continued, CredentialMethods, SpiffeMethods, rpc, Mutations, Issues
<1>4. ReplyOK(x, w) /\ Sound(d, x, w, log)
  BY <1>1, Zenon DEF AnsweredInv, ClientInv
<1>5. PICK m : w.replies = <<Message(m)>> /\ ~unusable(op, m) /\ x.result = {Incoming(x, m)}
  BY <1>1, <1>3, <1>4, Zenon DEF ReplyOK, Kept
<1>6. res = result(op, m)
  BY <1>1, <1>3, <1>5, Zenon DEF Incoming
<1>7. PICK p : /\ Initial(p, log) /\ m \in Response(rpc(op), request(op, a), p)
               /\ Len(p) # 0 /\ Len(p) \in DOMAIN log /\ log[Len(p)].call = d
  BY <1>1, <1>3, <1>5, Zenon DEF Truth
<1>8. PICK i : i = Len(p)
  OBVIOUS
<1>9. Recorded(log[i], x, w)
  BY <1>1, <1>7, <1>8, Zenon DEF AskedInv
<1>10. log[i].rpc = rpc(op) /\ log[i].req = request(op, a)
  <2>1. x.state # "idle"
    BY <1>1, <1>4, Zenon DEF ReplyOK
  <2>2. Begun(x, w)
    BY <1>1, <2>1, Zenon DEF AskedInv
  <2> QED
    BY <1>1, <1>3, <1>9, <2>2, Zenon DEF Recorded, Begun, Outgoing
<1>11. i \in DOMAIN k /\ k[i] = log[i]
  BY <1>7, <1>8, Zenon DEF Initial
<1>12. LogOK(log) /\ LogOK(p) /\ LogOK(k) /\ Initial(p, k)
  BY <1>7, <1>8, <1>11, LogTyped, InitialOK, InitialOrder, Zenon
<1>13. Made(op, a, m, p, k, log)
  BY <1>5, <1>7, <1>8, <1>10, <1>11, <1>12, Zenon DEF Made
<1> QED
  BY <1>1, <1>6, <1>13, AllTrip, Zenon

\* A call that has returned stays as it is.
LEMMA ReturnedStays ==
  ASSUME NEW d \in Calls, Evolves(d), call[d].state = "returned" PROVE call'[d] = call[d]
<1>1. "returned" # "waiting" /\ NoCall.state = "idle" /\ "idle" # "returned"
  BY Idle
<1> QED
  BY <1>1, Zenon DEF Evolves, Begins, Ends, Takes, Gets, Handles

\* The results that a call is made of are those of a call that has returned.
LEMMA StepOrigin ==
  ASSUME ClientInv, AskedInv, AnsweredInv, NEW c \in Calls, \A d \in Calls : Evolves(d),
         OriginOf(call[c], call[call[c].after])
  PROVE  OriginOf(call'[c], call'[call'[c].after])
<1>1. PICK x, w, y, v : x = call[c] /\ w = wire[c] /\ y = call'[c] /\ v = wire'[c]
  OBVIOUS
<1> SUFFICES OriginOf(y, call'[y.after])
  BY <1>1, Zenon
<1>2. CASE y.after = x.after /\ y.op = x.op /\ y.a = x.a
  <2> SUFFICES ASSUME y.after # 0
               PROVE  OriginOf(y, call'[y.after])
    BY Zenon DEF OriginOf
  <2>1. PICK d \in Calls : d = x.after /\ OriginOf(x, call[d]) /\ call[d].state = "returned"
    BY <1>1, <1>2, Zenon DEF OriginOf
  <2>2. call'[d] = call[d]
    BY <2>1, ReturnedStays, Zenon
  <2>3. OriginOf(y, call[d])
    BY <1>2, <2>1, Zenon DEF OriginOf
  <2> QED
    BY <1>2, <2>1, <2>2, <2>3, Zenon
<1>3. ASSUME NEW z, NEW d, Asks(c, z, d), Begins(x, w, y, v, z, d), d # 0
      PROVE  OriginOf(y, call'[y.after])
  <2>1. d \in Calls
    <3>1. d \in 0 .. c - 1
      BY <1>3, Zenon DEF Asks
    <3> QED
      BY <1>3, <3>1, ClientAssumption DEF Calls
  <2>2. PICK res \in call[d].result : z \in FollowUp(call[d].op, call[d].a, res)
    BY <1>3, Zenon DEF Asks, FollowUps
  <2>3. call[d].state = "returned"
    BY <2>1, <2>2, Zenon DEF AnsweredInv, ReplyOK
  <2>4. call'[d] = call[d]
    BY <2>1, <2>3, ReturnedStays, Zenon
  <2>5. y.after = d /\ y.op = z.op /\ y.a = z.a
    BY <1>3, Zenon DEF Begins
  <2>6. OriginOf(y, call[d])
    BY <2>1, <2>2, <2>3, <2>5, Zenon DEF OriginOf
  <2> QED
    BY <2>4, <2>5, <2>6, Zenon
<1>4. ASSUME NEW z, Begins(x, w, y, v, z, 0) PROVE OriginOf(y, call'[y.after])
  BY <1>4, Zenon DEF Begins, OriginOf
<1>5. \/ y.after = x.after /\ y.op = x.op /\ y.a = x.a
      \/ \E z, d : Asks(c, z, d) /\ Begins(x, w, y, v, z, d)
  BY <1>1, Zenon DEF Evolves, Ends, Takes, Gets, Handles, SameOne
<1> QED
  BY <1>2, <1>3, <1>4, <1>5, Zenon

\* The log gets no entry of a call whose result another was made of.
LEMMA NoMore ==
  ASSUME ClientInv, AskedInv, AnsweredInv, ClientInv', TripInv, LogMoves, NEW c \in Calls
  PROVE  /\ \E e : log' = log \/ log' = Append(log, e)
         /\ \A i \in DOMAIN log' : log'[i].call = call[c].after => i \in DOMAIN log
<1>1. CASE log' = log
  BY <1>1, Zenon
<1>2. ASSUME NEW f \in Calls, Enters(f, log, log')
      PROVE  /\ \E e : log' = log \/ log' = Append(log, e)
             /\ \A i \in DOMAIN log' : log'[i].call = call[c].after => i \in DOMAIN log
  <2>1. PICK e : e.call = f /\ log' = Append(log, e)
    <3>1. PICK q, n : q \in wire[f].req /\
            log' = Append(log, [call |-> f, rpc |-> rpc(call[f].op), req |-> q, keys |-> n])
      BY <1>2, Zenon DEF Enters
    <3>2. PICK e : e = [call |-> f, rpc |-> rpc(call[f].op), req |-> q, keys |-> n]
      OBVIOUS
    <3>3. e.call = f
      BY <3>2
    <3> QED
      BY <3>1, <3>2, <3>3, Zenon
  <2>2. /\ \A i \in DOMAIN log' : log'[i] = e \/ i \in DOMAIN log
        /\ \A i \in DOMAIN log : i \in DOMAIN log' /\ log'[i] = log[i]
        /\ \E i \in DOMAIN log' : i \notin DOMAIN log /\ log'[i] = e
    <3>1. IsLog(log)
      BY Zenon DEF ClientInv
    <3>2. PICK n : n = Len(log) + 1
      OBVIOUS
    <3>3. /\ \A i \in DOMAIN log' : log'[i] = e \/ i \in DOMAIN log
          /\ \A i \in DOMAIN log : i \in DOMAIN log' /\ log'[i] = log[i]
          /\ n \in DOMAIN log' /\ n \notin DOMAIN log /\ log'[n] = e
      BY ONLY <2>1, <3>1, <3>2 DEF IsLog
    <3> QED
      BY <3>3, Zenon
  <2>3. ASSUME f = call[c].after PROVE FALSE
    <3>1. f # 0
      BY ClientAssumption DEF Calls
    <3>2. PICK res, z : res \in call[f].result /\ z \in FollowUp(call[f].op, call[f].a, res)
      BY <2>3, <3>1, Zenon DEF TripInv, OriginOf
    <3>3. PICK x, w : x = call[f] /\ w = wire[f]
      OBVIOUS
    <3>4. /\ x.op \in DOMAIN Arguments \ {"ListCatalog"} /\ x.op \notin SpiffeMethods
          /\ rpc(x.op) \in Mutations \cup Issues
      <4>1. x.op \in Continued
        BY <3>2, <3>3, OnlyContinued, Zenon
      <4> QED
        BY <4>1, Listing DEF Continued, CredentialMethods, SpiffeMethods, rpc, Mutations, Issues
    <3>5. ReplyOK(x, w) /\ Truth(f, x, w, log)
      BY <3>3, Zenon DEF AnsweredInv, TripInv
    <3>6. PICK m : w.replies = <<Message(m)>>
      BY <3>2, <3>3, <3>4, <3>5, Zenon DEF ReplyOK, Kept
    <3>7. PICK i \in DOMAIN log : log[i].call = f
      BY <3>4, <3>5, <3>6, Zenon DEF Truth
    <3>8. PICK j \in DOMAIN log' : j \notin DOMAIN log /\ log'[j] = e
      BY <2>2, Zenon
    <3>9. i \in Mine(f, log') /\ j \in Mine(f, log')
      BY <2>1, <2>2, <3>7, <3>8, Zenon DEF Mine
    <3>10. \A k, n \in Mine(f, log') : k = n
      BY Zenon DEF ClientInv, Sound
    <3> QED
      BY <3>7, <3>8, <3>9, <3>10, Zenon
  <2> QED
    BY <2>1, <2>2, <2>3, Zenon
<1> QED
  BY <1>1, <1>2, Zenon DEF LogMoves

-----------------------------------------------------------------------------
\* What was true of an answer stays true.
LEMMA TruthStays ==
  ASSUME NEW c, NEW x, NEW w, NEW v, NEW l, IsLog(l), NEW m, NEW e,
         Truth(c, x, w, l), m = l \/ m = Append(l, e),
         \A i \in DOMAIN m : m[i].call = x.after => i \in DOMAIN l,
         v.req = w.req, v.replies = w.replies
  PROVE  Truth(c, x, v, m)
<1> SUFFICES ASSUME x.op \in DOMAIN Arguments \ {"ListCatalog"}, NEW a,
                    v.replies = <<Message(a)>>
             PROVE  /\ v.req # {}
                    /\ \E p : /\ Initial(p, m) /\ a \in Response(rpc(x.op), request(x.op, x.a), p)
                              /\ rpc(x.op) \in Mutations \cup Issues =>
                                   Len(p) # 0 /\ Len(p) \in DOMAIN m /\ m[Len(p)].call = c
                              /\ \A i \in DOMAIN m : m[i].call = x.after => i \in DOMAIN p
  BY Zenon DEF Truth
<1>1. w.req # {} /\ \E p : /\ Initial(p, l) /\ a \in Response(rpc(x.op), request(x.op, x.a), p)
                           /\ rpc(x.op) \in Mutations \cup Issues =>
                                Len(p) # 0 /\ Len(p) \in DOMAIN l /\ l[Len(p)].call = c
                           /\ \A i \in DOMAIN l : l[i].call = x.after => i \in DOMAIN p
  BY Zenon DEF Truth
<1>2. PICK p : /\ Initial(p, l) /\ a \in Response(rpc(x.op), request(x.op, x.a), p)
               /\ rpc(x.op) \in Mutations \cup Issues =>
                    Len(p) # 0 /\ Len(p) \in DOMAIN l /\ l[Len(p)].call = c
               /\ \A i \in DOMAIN l : l[i].call = x.after => i \in DOMAIN p
  BY <1>1, Zenon
<1>3. Initial(p, m) /\ DOMAIN l \subseteq DOMAIN m /\ \A i \in DOMAIN l : m[i] = l[i]
  <2>1. DOMAIN l \subseteq DOMAIN m /\ \A i \in DOMAIN l : m[i] = l[i]
    <3>1. CASE m = Append(l, e)
      BY ONLY <3>1, IsLog(l) DEF IsLog
    <3> QED
      BY <3>1, Zenon
  <2> QED
    BY <1>2, <2>1, Zenon DEF Initial
<1> QED
  BY <1>1, <1>2, <1>3, Zenon

\* The one reply to a method other than ListCatalog, before and after it is got.
LEMMA GetsOne ==
  ASSUME NEW x, NEW w, NEW y, NEW v, ReplyOK(x, w), Gets(x, w, y, v), x.op # "ListCatalog"
  PROVE  /\ v.replies = w.replies
         /\ \A st : w.replies = <<Failure(st)>> => y.err = FromError(st) \/ y.err = clientError
         /\ (\A st : w.replies # <<Failure(st)>>) => y.err = nil \/ y.err = clientError
<1>1. Replying(x.op, w.replies) /\ w.replies # <<>> /\ v.replies = Rest(w.replies)
  BY Zenon DEF ReplyOK, Gets
<1>2. ASSUME NEW st, w.replies = <<Failure(st)>>
      PROVE  v.replies = w.replies /\ (y.err = FromError(st) \/ y.err = clientError)
  <2>1. Head(w.replies) = Failure(st) /\ v.replies = w.replies
    BY <1>1, <1>2, OneReply, Zenon
  <2>2. /\ "status" # "message" /\ "status" # "EOF" /\ Failure(st).kind = "status"
        /\ Failure(st).status = st
    BY DEF Failure
  <2> QED
    BY <2>1, <2>2, Zenon DEF Gets
<1>3. ASSUME NEW m, w.replies = <<Message(m)>>
      PROVE  v.replies = w.replies /\ (y.err = nil \/ y.err = clientError)
  <2>1. Head(w.replies) = Message(m) /\ v.replies = w.replies /\ Message(m).kind = "message"
    BY <1>1, <1>3, OneReply, Zenon
  <2>2. "message" # "status"
    OBVIOUS
  <2> QED
    BY <2>1, <2>2, Zenon DEF Gets
<1> QED
  BY <1>1, <1>2, <1>3, Zenon DEF Replying

LEMMA OneKind ==
  \A m, st : <<Message(m)>> # <<Failure(st)>> /\ <<>> # <<Message(m)>> /\ <<>> # <<Failure(st)>>
  BY DEF Message, Failure

LEMMA SameKind ==
  /\ \A m, n : <<Message(m)>> = <<Message(n)>> => m = n
  /\ \A st, other : <<Failure(st)>> = <<Failure(other)>> => st = other
  BY DEF Message, Failure

\* An answer that the broker gives is true.
LEMMA ServesTruth ==
  ASSUME NEW c, NEW x, NEW w, NEW v, NEW l, IsLog(l), NEW m, IsLog(m), NEW q \in w.req,
         NEW rs, Begun(x, w), Serves(c, x, q, rs, l, m), v.req = w.req, v.replies \in {rs, <<>>}
  PROVE  Truth(c, x, v, m)
<1> DEFINE r == rpc(x.op)
           Entry(n) == [call |-> c, rpc |-> r, req |-> q, keys |-> n]
           More(n) == IF r \in Mutations \cup Issues THEN Append(l, Entry(n)) ELSE l
           es == Visible(q.Prefix)
<1> SUFFICES ASSUME x.op \in DOMAIN Arguments \ {"ListCatalog"}, NEW a,
                    v.replies = <<Message(a)>>
             PROVE  /\ v.req # {}
                    /\ \E p : /\ Initial(p, m) /\ a \in Response(rpc(x.op), request(x.op, x.a), p)
                              /\ rpc(x.op) \in Mutations \cup Issues =>
                                   Len(p) # 0 /\ Len(p) \in DOMAIN m /\ m[Len(p)].call = c
                              /\ \A i \in DOMAIN m : m[i].call = x.after => i \in DOMAIN p
  BY Zenon DEF Truth
<1>1. r # "ListCatalog"
  BY OwnRPC, Zenon
<1>2. rs = <<Message(a)>>
  BY OneKind, Zenon
<1>3. PICK n, b : b \in Response(r, q, m) /\ m = More(n) /\ rs = <<Message(b)>>
  BY <1>1, <1>2, OneKind, Zenon DEF Serves
<1>4. a = b
  BY <1>2, <1>3, SameKind, Zenon
<1>5. q = request(x.op, x.a)
  <2>1. x.op \notin SpiffeMethods
    BY Listing DEF SpiffeMethods
  <2> QED
    BY <2>1, Zenon DEF Begun, Outgoing
<1>6. ASSUME r \in Mutations \cup Issues
      PROVE  Len(m) # 0 /\ Len(m) \in DOMAIN m /\ m[Len(m)].call = c
  <2>1. PICK e : e = Entry(n)
    OBVIOUS
  <2>2. e.call = c /\ m = Append(l, e)
    BY <1>3, <1>6, <2>1
  <2>3. Len(m) # 0 /\ Len(m) \in DOMAIN m /\ m[Len(m)] = e
    BY ONLY <2>2, IsLog(l) DEF IsLog
  <2> QED
    BY <2>2, <2>3, Zenon
<1>7. Initial(m, m)
  BY InitialSelf, Zenon
<1> QED
  BY <1>3, <1>4, <1>5, <1>6, <1>7, Zenon

\* A call made of a result is not told that it does not decrypt.
LEMMA ServesUnbroken ==
  ASSUME ClientInv, AskedInv, AnsweredInv, TripInv, NEW c \in Calls, call[c].after # 0,
         NEW q \in wire[c].req, NEW rs, NEW m, Serves(c, call[c], q, rs, log, m),
         NEW st, rs = <<Failure(st)>>
  PROVE  FromError(st).Reason # Broken
<1>1. PICK x, w : x = call[c] /\ w = wire[c]
  OBVIOUS
<1> DEFINE r == rpc(x.op)
           Entry(n) == [call |-> c, rpc |-> r, req |-> q, keys |-> n]
           More(n) == IF r \in Mutations \cup Issues THEN Append(log, Entry(n)) ELSE log
<1>2. PICK d, res, z :
        /\ d \in Calls /\ res \in call[d].result
        /\ z \in FollowUp(call[d].op, call[d].a, res) /\ z.op = x.op /\ z.a = x.a
  BY <1>1, Zenon DEF TripInv, OriginOf
<1>3. /\ x.op \in DOMAIN Arguments \ {"ListCatalog"} /\ x.op \notin SpiffeMethods
      /\ r \notin Mutations \cup Issues /\ r # "ListCatalog"
  <2>1. /\ z.op \in DOMAIN Arguments \ {"ListCatalog"} /\ z.op \notin SpiffeMethods
        /\ rpc(z.op) \notin Mutations \cup Issues /\ rpc(z.op) # "ListCatalog"
    BY <1>2, FollowUpMethods, ZenonT(30)
  <2> QED
    BY <1>2, <2>1, Zenon
<1>4. x.state # "idle"
  <2>1. Sound(c, x, w, log)
    BY <1>1, Zenon DEF ClientInv
  <2>2. NoRequest.req = {}
    BY DEF NoRequest
  <2> QED
    BY <1>1, <2>1, <2>2, Zenon DEF Sound
<1>5. Begun(x, w)
  BY <1>1, <1>4, Zenon DEF AskedInv
<1>6. q = request(x.op, x.a) /\ ~refuses(x.op, x.a)
  BY <1>1, <1>3, <1>5, Zenon DEF Begun, Outgoing
<1>7. Trips(z, call[d].op, call[d].a, res, log, log)
  <2>1. Truth(d, call[d], wire[d], log) /\ Initial(log, log)
    <3>1. IsLog(log)
      BY Zenon DEF ClientInv
    <3> QED
      BY <1>2, <3>1, InitialSelf, Zenon DEF TripInv
  <2> QED
    BY <1>2, <1>6, <2>1, Finds, Zenon
<1>8. Response(r, q, log) # {}
  BY <1>2, <1>6, <1>7, Zenon DEF Trips
<1>9. \/ \E a : rs = <<Message(a)>>
      \/ \E other \in Rejections : rs = <<Failure(other)>>
      \/ \E n : Response(r, q, More(n)) = {}
  BY <1>1, <1>3, Zenon DEF Serves
<1>10. ASSUME NEW n PROVE Response(r, q, More(n)) # {}
  BY <1>3, <1>8, Zenon
<1>11. ASSUME NEW other \in Rejections, rs = <<Failure(other)>> PROVE FromError(st).Reason # Broken
  BY <1>11, SameKind, RejectionReason, Zenon
<1> HIDE DEF r, More
<1> QED
  BY <1>9, <1>10, <1>11, OneKind, Zenon

-----------------------------------------------------------------------------
LEMMA Reasons ==
  /\ \A err : ~HasReason(err) => err.Reason # Broken
  /\ nil.Reason # Broken /\ clientError.Reason # Broken
<1>1. "" # Broken
  BY DEF Broken
<1> QED
  BY <1>1, Errors, Zenon DEF HasReason

LEMMA StepTruth ==
  ASSUME ClientInv, AskedInv, AnsweredInv, ClientInv', TripInv, LogMoves, NEW c \in Calls,
         Evolves(c)
  PROVE  Truth(c, call'[c], wire'[c], log')
<1>1. PICK x, w, y, v, l, m : x = call[c] /\ w = wire[c] /\ y = call'[c] /\ v = wire'[c]
                              /\ l = log /\ m = log'
  OBVIOUS
<1> SUFFICES Truth(c, y, v, m)
  BY <1>1, Zenon
<1>2. IsLog(l) /\ IsLog(m) /\ Truth(c, x, w, l) /\ ReplyOK(x, w) /\ Sound(c, x, w, l)
  BY <1>1, Zenon DEF ClientInv, TripInv, AnsweredInv
<1>3. PICK e : m = l \/ m = Append(l, e)
  BY <1>1, NoMore, Zenon
<1>4. \A i \in DOMAIN m : m[i].call = x.after => i \in DOMAIN l
  BY <1>1, NoMore, Zenon
<1>5. ASSUME y.op = x.op, y.a = x.a, y.after = x.after, v.req = w.req, v.replies = w.replies
      PROVE  Truth(c, y, v, m)
  <2>1. Truth(c, x, v, m)
    BY <1>2, <1>3, <1>4, <1>5, TruthStays, Zenon
  <2> QED
    BY <1>5, <2>1, Zenon DEF Truth
<1>6. ASSUME v.replies = <<>> PROVE Truth(c, y, v, m)
  BY <1>6, OneKind, Zenon DEF Truth
<1>7. CASE y = x /\ v = w
  BY <1>5, <1>7, Zenon
<1>8. CASE \E z, d : Begins(x, w, y, v, z, d)
  BY <1>6, <1>8, Zenon DEF Begins
<1>9. CASE Ends(x, w, y, v)
  BY <1>6, <1>9, Zenon DEF Ends
<1>10. CASE y.op = "ListCatalog"
  BY <1>10, Zenon DEF Truth
<1>11. CASE Takes(x, w, y, v)
  BY <1>10, <1>11, Zenon DEF Takes, SameOne
<1>12. CASE Gets(x, w, y, v)
  <2>1. y.op = x.op /\ y.a = x.a /\ y.after = x.after /\ v.req = w.req
    BY <1>12, Zenon DEF Gets, SameOne
  <2>2. CASE x.op # "ListCatalog"
    BY <1>2, <1>5, <1>12, <2>1, <2>2, GetsOne, Zenon
  <2> QED
    BY <1>10, <2>1, <2>2, Zenon
<1>13. CASE Handles(c, x, w, y, v, l, m)
  <2>1. PICK q, rs : /\ q \in w.req /\ Serves(c, x, q, rs, l, m)
                     /\ v.replies = IF x.state = "waiting" THEN rs ELSE <<>>
    BY <1>13, Zenon DEF Handles
  <2>2. y = x /\ v.req = w.req
    BY <1>13, Zenon DEF Handles
  <2>3. x.state # "idle"
    <3>1. NoRequest.req = {}
      BY DEF NoRequest
    <3> QED
      BY <1>2, <2>1, <3>1, Zenon DEF Sound
  <2>4. Begun(x, w)
    BY <1>1, <2>3, Zenon DEF AskedInv
  <2>5. v.replies \in {rs, <<>>}
    BY <2>1, Zenon
  <2> QED
    BY <1>2, <2>1, <2>2, <2>4, <2>5, ServesTruth, Zenon
<1> QED
  BY <1>1, <1>7, <1>8, <1>9, <1>11, <1>12, <1>13, Zenon DEF Evolves

LEMMA StepUnbroken ==
  ASSUME ClientInv, AskedInv, AnsweredInv, TripInv, NEW c \in Calls, Evolves(c)
  PROVE  Unbroken(call'[c], wire'[c])
<1>1. PICK x, w, y, v : x = call[c] /\ w = wire[c] /\ y = call'[c] /\ v = wire'[c]
  OBVIOUS
<1> SUFFICES Unbroken(y, v)
  BY <1>1, Zenon
<1>2. Unbroken(x, w) /\ ReplyOK(x, w)
  BY <1>1, Zenon DEF TripInv, AnsweredInv
<1>3. x.after # 0 => x.op # "ListCatalog"
  <2> SUFFICES ASSUME x.after # 0 PROVE x.op # "ListCatalog"
    OBVIOUS
  <2>1. OriginOf(x, call[x.after])
    BY <1>1, Zenon DEF TripInv
  <2>2. PICK d, res, z : z \in FollowUp(call[d].op, call[d].a, res) /\ z.op = x.op
    BY <2>1, Zenon DEF OriginOf
  <2>3. z.op \in DOMAIN Arguments \ {"ListCatalog"}
    BY <2>2, FollowUpMethods, Zenon
  <2> QED
    BY <2>2, <2>3, Zenon
<1>4. ASSUME v.replies = <<>>, ~HasReason(y.err) PROVE Unbroken(y, v)
  BY <1>4, OneKind, Reasons, Zenon DEF Unbroken
<1>5. CASE y = x /\ v = w
  BY <1>2, <1>5, Zenon
<1>6. CASE \E z, d : Begins(x, w, y, v, z, d)
  <2>1. v.replies = <<>> /\ (y.state = "returned" => ~HasReason(y.err))
    <3>1. "waiting" # "returned"
      OBVIOUS
    <3> QED
      BY <1>6, <3>1, Zenon DEF Begins
  <2> QED
    BY <2>1, OneKind, Reasons, Zenon DEF Unbroken
<1>7. CASE Ends(x, w, y, v)
  BY <1>4, <1>7, Zenon DEF Ends
<1>8. CASE Takes(x, w, y, v)
  BY <1>3, <1>8, Zenon DEF Takes, SameOne, Unbroken
<1>9. CASE Gets(x, w, y, v)
  <2> SUFFICES ASSUME y.after # 0 PROVE Unbroken(y, v)
    BY Zenon DEF Unbroken
  <2>1. y.after = x.after /\ x.after # 0 /\ x.op # "ListCatalog"
    BY <1>3, <1>9, Zenon DEF Gets, SameOne
  <2>2. /\ v.replies = w.replies
        /\ \A st : w.replies = <<Failure(st)>> => y.err = FromError(st) \/ y.err = clientError
        /\ (\A st : w.replies # <<Failure(st)>>) => y.err = nil \/ y.err = clientError
    BY <1>2, <1>9, <2>1, GetsOne, Zenon
  <2>3. \A st : w.replies = <<Failure(st)>> => FromError(st).Reason # Broken
    BY <1>2, <2>1, Zenon DEF Unbroken
  <2>4. y.err.Reason # Broken
    BY <2>2, <2>3, Reasons, Zenon
  <2> QED
    BY <2>2, <2>3, <2>4, Zenon DEF Unbroken
<1>10. CASE Handles(c, x, w, y, v, log, log')
  <2> SUFFICES ASSUME y.after # 0 PROVE Unbroken(y, v)
    BY Zenon DEF Unbroken
  <2>1. PICK q, rs : /\ q \in w.req /\ Serves(c, x, q, rs, log, log')
                     /\ v.replies = IF x.state = "waiting" THEN rs ELSE <<>>
    BY <1>10, Zenon DEF Handles
  <2>2. y = x
    BY <1>10, Zenon DEF Handles
  <2>3. ASSUME NEW st, rs = <<Failure(st)>> PROVE FromError(st).Reason # Broken
    BY <1>1, <2>1, <2>2, <2>3, ServesUnbroken, Zenon
  <2>4. ASSUME NEW st, v.replies = <<Failure(st)>> PROVE FromError(st).Reason # Broken
    BY <2>1, <2>3, <2>4, OneKind, Zenon
  <2> QED
    BY <1>2, <2>2, <2>4, Zenon DEF Unbroken
<1> QED
  BY <1>1, <1>5, <1>6, <1>7, <1>8, <1>9, <1>10, Zenon DEF Evolves

LEMMA InitTrips == Init => TripInv
<1> SUFFICES ASSUME Init, NEW c \in Calls
             PROVE  /\ OriginOf(call[c], call[call[c].after])
                    /\ Truth(c, call[c], wire[c], log) /\ Unbroken(call[c], wire[c])
  BY Zenon DEF TripInv
<1>1. call[c] = NoCall /\ wire[c] = NoRequest
  BY DEF Init
<1>2. NoCall.after = 0 /\ NoRequest.replies = <<>>
  BY DEF NoCall, NoRequest
<1> QED
  BY <1>1, <1>2, OneKind, Zenon DEF OriginOf, Truth, Unbroken

LEMMA NextTrips ==
  ASSUME ClientInv, ClientInv', OptionsInv, AskedInv, AnsweredInv, TripInv, [Next]_vars
  PROVE  TripInv'
<1>1. LogMoves /\ \A c \in Calls : Evolves(c)
  <2>1. DOMAIN client = DOMAIN NoClient
    BY DEF OptionsInv, NoClient
  <2> QED
    BY <2>1, Evolution, Zenon
<1>2. ASSUME NEW c \in Calls
      PROVE  /\ OriginOf(call'[c], call'[call'[c].after])
             /\ Truth(c, call'[c], wire'[c], log') /\ Unbroken(call'[c], wire'[c])
  <2>1. OriginOf(call[c], call[call[c].after])
    BY Zenon DEF TripInv
  <2> QED
    BY <1>1, <2>1, StepOrigin, StepTruth, StepUnbroken, Zenon
<1> QED
  BY <1>2, Zenon DEF TripInv

\* What a call made, a later call made of its result finds.
LEMMA InvTrips == ClientInv /\ AskedInv /\ AnsweredInv /\ TripInv => RoundTrips
<1> SUFFICES ASSUME ClientInv, AskedInv, AnsweredInv, TripInv, NEW c \in Calls,
                    call[c].after # 0, call[c].state = "returned"
             PROVE  /\ call[c].err.Reason # "DECRYPT_FAILED"
                    /\ call[c].err = nil =>
                         AsMade(call[c], CHOOSE r \in call[c].result : TRUE, call[call[c].after],
                               CHOOSE r \in call[call[c].after].result : TRUE, log)
  BY Zenon DEF RoundTrips, AsMade
<1>1. PICK x, w : x = call[c] /\ w = wire[c]
  OBVIOUS
<1>2. PICK d, res, z :
        /\ d = x.after /\ d \in Calls /\ res \in call[d].result
        /\ z \in FollowUp(call[d].op, call[d].a, res) /\ z.op = x.op /\ z.a = x.a
  BY <1>1, Zenon DEF TripInv, OriginOf
<1>3. PICK then, op, a, l : then = x.op /\ op = call[d].op /\ a = call[d].a /\ l = log
  OBVIOUS
<1>4. x.err.Reason # "DECRYPT_FAILED"
  BY <1>1, Zenon DEF TripInv, Unbroken, Broken
<1>5. /\ then \in DOMAIN Arguments \ {"ListCatalog"} /\ then \notin SpiffeMethods
      /\ then \in {"Decrypt", "UnwrapEnvelope", "DecryptNatsCurve", "Verify",
                   "VerifyWithAlgorithm", "GetSecret", "GetPublicKey", "ValidateNatsJwt"}
  <2>1. /\ z.op \in DOMAIN Arguments \ {"ListCatalog"} /\ z.op \notin SpiffeMethods
        /\ z.op \in {"Decrypt", "UnwrapEnvelope", "DecryptNatsCurve", "Verify",
                     "VerifyWithAlgorithm", "GetSecret", "GetPublicKey", "ValidateNatsJwt"}
    BY <1>2, FollowUpMethods, ZenonT(30)
  <2> QED
    BY <1>2, <1>3, <2>1, Zenon
<1>6. PICK was : was = CHOOSE r \in call[d].result : TRUE
  OBVIOUS
<1>7. was = res
  <2>1. PICK one : call[d].result = {one}
    <3>1. op \in Continued
      BY <1>2, <1>3, OnlyContinued, Zenon
    <3>2. op # "ListCatalog"
      BY <3>1 DEF Continued, CredentialMethods
    <3>3. ReplyOK(call[d], wire[d])
      BY <1>2, Zenon DEF AnsweredInv
    <3> QED
      BY <1>2, <1>3, <3>2, <3>3, Zenon DEF ReplyOK, Kept
  <2> QED
    BY <1>2, <1>6, <2>1
<1>8. PICK got : got = CHOOSE r \in x.result : TRUE
  OBVIOUS
<1>9. ASSUME x.err = nil PROVE Good(then, got, op, a, was, l)
  <2>1. ReplyOK(x, w) /\ Truth(c, x, w, l) /\ x.state = "returned"
    BY <1>1, <1>3, Zenon DEF AnsweredInv, TripInv
  <2>2. PICK n : w.replies = <<Message(n)>> /\ x.result = {Incoming(x, n)}
    BY <1>3, <1>5, <1>9, <2>1, Zenon DEF ReplyOK, Kept
  <2>3. got = result(then, n)
    <3>1. got = Incoming(x, n)
      BY <1>8, <2>2
    <3> QED
      BY <1>3, <1>5, <3>1, Zenon DEF Incoming
  <2>4. w.req # {}
    BY <1>3, <1>5, <2>1, <2>2, Zenon DEF Truth
  <2>5. PICK k : /\ Initial(k, l) /\ n \in Response(rpc(then), request(then, x.a), k)
                 /\ \A i \in DOMAIN l : l[i].call = x.after => i \in DOMAIN k
    BY <1>3, <1>5, <2>1, <2>2, Zenon DEF Truth
  <2>6. ~refuses(x.op, x.a)
    <3>1. "returned" # "idle"
      OBVIOUS
    <3> QED
      BY <1>1, <2>1, <2>4, <3>1, Zenon DEF AskedInv, Begun
  <2>7. Trips(z, op, a, res, k, l)
    <3>1. Truth(d, call[d], wire[d], log) /\ ~refuses(z.op, z.a)
      BY <1>2, <2>6, Zenon DEF TripInv
    <3>2. Initial(k, log) /\ \A i \in DOMAIN log : log[i].call = d => i \in DOMAIN k
      BY <1>2, <1>3, <2>5, Zenon
    <3>3. Trips(z, call[d].op, call[d].a, res, k, log)
      BY <1>2, <3>1, <3>2, Finds, Zenon
    <3> QED
      BY <1>3, <3>3, Zenon
  <2> QED
    BY <1>2, <1>3, <1>7, <2>3, <2>5, <2>7, Zenon DEF Trips
<1>10. ASSUME x.err = nil PROVE AsMade(x, got, call[d], was, l)
  <2>1. Good(then, got, op, a, was, l)
    BY <1>9, <1>10
  <2> QED
    BY ONLY <1>3, <1>5, <2>1, Zenon DEF Good, AsMade
<1> QED
  BY <1>1, <1>2, <1>3, <1>4, <1>6, <1>8, <1>10, Zenon

LEMMA TripInvariant == Spec => []TripInv
<1>1. ClientInv /\ ClientInv' /\ OptionsInv /\ AskedInv /\ AnsweredInv /\ TripInv /\ [Next]_vars
        => TripInv'
  BY NextTrips, Zenon
<1> QED
  BY <1>1, InitTrips, TypedInvariant, OptionsInvariant, PTL DEF Spec

\* A call on the result of an earlier one (Decrypt of what Encrypt returned, Verify of a
\* signature, GetSecret of a version, a decoded token, ...) finds what that one made, however
\* ciphertextToProto, kemEnvelopeToProto and the other conversions of aead.go, secret.go and
\* minting.go carry it there and back, and whatever other calls do between the two.
THEOREM MadeIsFound == Spec => []RoundTrips
  BY TypedInvariant, TripInvariant, InvTrips, PTL
=============================================================================
