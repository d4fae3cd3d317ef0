------------------------------ MODULE NixCache ------------------------------
(***************************************************************************)
(* basil/nix_cache.go: concurrent Describe, Enroll and Sign calls, and a   *)
(* broker (external) that may hand a call the response to another one and, *)
(* being of another version, may encode a response in an unexpected way.   *)
(* The contents of a response name the request it was composed for.        *)
(***************************************************************************)
EXTENDS NixCacheCodec

CONSTANTS
  Calls,     \* client calls
  Arguments, \* [method, keyID, batchID, requestID, print] of calls, bytes values
  KeyName,   \* [key ids -> length and form of the name of the broker's key]
  OddValues, \* bytes values a response may hold instead of its own
  MaxEdits   \* bound on the deviations of responses

Methods == {"describe", "enroll", "sign"}

ASSUME NixAssumption ==
  /\ MaxEdits \in Nat
  /\ \A args \in Arguments :
       /\ args.method \in Methods
       /\ args.batchID.len = 16 /\ args.requestID.len = 16   \* [16]byte

VARIABLES
  call,      \* [Calls -> arguments, where the call is, error and result]
  response,  \* [Calls -> {} or {the broker's response to its request}]
  edits      \* deviations so far

vars == <<call, response, edits>>

\* The two schemas of a method.
requestOf == [describe |-> "describeRequest", enroll |-> "enrollRequest",
              sign |-> "signRequest"]

responseOf == [describe |-> "describeResponse", enroll |-> "enrollResponse",
               sign |-> "signResponse"]

Idle == [state |-> "idle"]

Init ==
  /\ call = [c \in Calls |-> Idle]
  /\ response = [c \in Calls |-> {}]
  /\ edits = 0

Bytes(number, value) == [number |-> number, wire |-> "bytes", value |-> value]

Varint(number, value) == [number |-> number, wire |-> "varint", value |-> value]

-----------------------------------------------------------------------------
\* validateNixCacheRequest, and the fingerprint check of
\* SignNixCacheFingerprint.
validateNixCacheRequest(args) ==
  IF args.keyID.form = "control" \/ args.keyID.len \notin 1 .. 256 THEN "key ID"
  ELSE IF "zero" \in {args.batchID.form, args.requestID.form} THEN "all zero"
  ELSE IF args.method = "sign" /\ args.print.len \notin 1 .. nixCacheFingerprintMax
       THEN "fingerprint length"
  ELSE ""

\* The request proto.Marshal encodes, fields in the order of their numbers.
request(args) ==
  IF args.method = "sign"
  THEN <<Bytes(1, args.keyID),
         Bytes(2, [len |-> 12, form |-> "PATH_INFO_V1", v |-> ""]),
         Bytes(3, args.print), Bytes(4, args.batchID), Bytes(5, args.requestID)>>
  ELSE <<Bytes(1, args.keyID), Bytes(2, args.batchID), Bytes(3, args.requestID)>>

\* The call up to its RPC: arguments, the codec's Marshal, the send limit.
Start(c, args) ==
  LET invalid == validateNixCacheRequest(args)
      encoded == preflightNixCacheProto(request(args), requestOf[args.method])
      err     == IF invalid # "" THEN invalid ELSE encoded
      at      == IF invalid # "" THEN "invalid"
                 ELSE IF encoded # "" THEN "not sent" ELSE "waiting"
  IN /\ call[c].state = "idle"
     /\ call' = [call EXCEPT ![c] =
          [args |-> args, state |-> at, err |-> err, result |-> {}]]
     /\ UNCHANGED <<response, edits>>

-----------------------------------------------------------------------------
\* The broker.

\* It answers with the key of the key id, and a signature of the fingerprint.
Process(c, disposition) ==
  LET args == call[c].args
      name == [len |-> KeyName[args.keyID].len, form |-> KeyName[args.keyID].form,
               v |-> args.keyID]
      key  == <<Bytes(1, name),
                Bytes(2, [len |-> 32, form |-> "binary", v |-> args.keyID]),
                Varint(3, 1)>>
      Ids(n) == <<Bytes(n, args.batchID), Bytes(n + 1, args.requestID)>>
      signed == [len |-> 64, form |-> "binary", v |-> <<args.keyID, args.print>>]
  IN /\ call[c].state = "waiting" /\ response[c] = {}
     /\ response' = [response EXCEPT ![c] = {
          CASE args.method = "describe" -> key \o Ids(4)
            [] args.method = "enroll" -> key \o <<Varint(4, disposition)>> \o Ids(5)
            [] args.method = "sign" -> key \o <<Bytes(4, signed)>> \o Ids(5)}]
     /\ UNCHANGED <<call, edits>>

\* The response to c deviates in one place: a field is missing, repeated, out
\* of order, of another value or wire type, unknown or malformed.
Deviate(c) ==
  LET Becomes(raw) == response' = [response EXCEPT ![c] = {raw}]
  IN /\ edits < MaxEdits
     /\ \E raw \in response[c] :
          \/ \E i \in DOMAIN raw :
               \/ Becomes(RemoveAt(raw, i))
               \/ Becomes(Append(raw, raw[i]))
               \/ i < Len(raw) /\ Becomes([raw EXCEPT ![i] = raw[i + 1], ![i + 1] = raw[i]])
               \/ \E v \in OddValues : Becomes([raw EXCEPT ![i] = Bytes(raw[i].number, v)])
               \/ Becomes([raw EXCEPT ![i] = Varint(raw[i].number, 3)])
          \/ Becomes(Append(raw, Varint(Len(raw) + 1, 1)))
          \/ Becomes(Append(raw, [number |-> 0, wire |-> "malformed", value |-> 0]))
     /\ edits' = edits + 1
     /\ UNCHANGED call

-----------------------------------------------------------------------------
\* Mutant of validateNixCacheResponseEcho: only the batch is compared.
EchoOfBatch(raw, args) ==
  field(raw, Len(nixCacheFieldRule[responseOf[args.method]]) - 1) = args.batchID

\* The ids are the last two fields of every response.
validateNixCacheResponseEcho(raw, args) ==
  LET n == Len(nixCacheFieldRule[responseOf[args.method]])
  IN field(raw, n - 1) = args.batchID /\ field(raw, n) = args.requestID

\* nixCacheKey: its error and the key, which is the zero key on error.
nixCacheKey(raw) ==
  LET name == field(raw, 1)
      err == IF ~validNixCacheKeyName(name) THEN "key name"
             ELSE IF field(raw, 2).len # 32 THEN "public key"
             ELSE IF field(raw, 3) # 1 THEN "backend version"
             ELSE ""
  IN [err |-> err, key |-> IF err = "" THEN <<name.v, field(raw, 2).v>> ELSE <<>>]

\* The error and result of a call whose RPC returns raw.  DescribeNixCacheKey
\* returns the address of its key whether or not there is an error.
Outcome(args, raw) ==
  LET schema  == responseOf[args.method]
      decoded == preflightNixCacheProto(raw, schema)
      key     == nixCacheKey(raw)
      Failed(err) == [err |-> err, result |-> {}]
  IN IF decoded # "" THEN Failed(decoded)
     ELSE IF ~validateNixCacheResponseEcho(raw, args) THEN Failed("correlation ID")
     ELSE IF args.method = "describe"
          THEN [err |-> key.err, result |-> {[key |-> key.key]}]
     ELSE IF args.method = "enroll" /\ field(raw, 4) \notin {1, 2}
          THEN Failed("disposition")
     ELSE IF args.method = "sign" /\ field(raw, 4).len # 64 THEN Failed("signature")
     ELSE IF key.err # "" THEN Failed(key.err)
     ELSE IF args.method = "enroll"
          THEN [err |-> "", result |-> {[key |-> key.key, disposition |-> field(raw, 4)]}]
     ELSE [err |-> "", result |-> {[key |-> key.key, signature |-> field(raw, 4).v]}]

\* The RPC of call c returns the response to call d.
Receive(c, d) ==
  /\ call[c].state = "waiting"
  /\ \E raw \in response[d] :
       LET outcome == Outcome(call[c].args, raw)
       IN call' = [call EXCEPT ![c] = [@ EXCEPT !.state = "returned",
                                         !.err = outcome.err,
                                         !.result = outcome.result]]
  /\ UNCHANGED <<response, edits>>

\* The RPC fails, before or after the broker has answered.
RPCFails(c) ==
  /\ call[c].state = "waiting"
  /\ call' = [call EXCEPT ![c] = [@ EXCEPT !.state = "failed", !.err = "status"]]
  /\ UNCHANGED <<response, edits>>

Next ==
  \/ \E c \in Calls, args \in Arguments : Start(c, args)
  \/ \E c \in Calls, disposition \in {1, 2} : Process(c, disposition)
  \/ \E c \in Calls : Deviate(c) \/ RPCFails(c)
  \/ \E c, d \in Calls : Receive(c, d)

Spec == Init /\ [][Next]_vars

-----------------------------------------------------------------------------
Returned(c) == call[c].state = "returned"

\* The codec accepts exactly the well-formed messages, whichever call they are
\* delivered to: field by field, with its set of seen numbers and its limit on
\* the size, it neither lets a duplicate, unknown or missing field through nor
\* refuses a message of the largest valid size or with its fields out of order.
StrictDecode ==
  \A d \in Calls, method \in Methods : \A raw \in response[d] :
    preflightNixCacheProto(raw, responseOf[method]) = ""
      <=> WellFormed(raw, responseOf[method])

\* Arguments that validateNixCacheRequest accepts can be sent: the codec has
\* no rule, and no limit on the size, that an accepted call meets.
AcceptedIsSent == \A c \in Calls : call[c].state # "not sent"

\* No call returns a result along with an error.  DescribeNixCacheKey would,
\* if the codec let a key through that nixCacheKey refuses.
NoResultWithError ==
  \A c \in Calls : Returned(c) => (call[c].err # "" <=> call[c].result = {})

\* The ids of a call tell it from every other call.
OwnIDs(c) ==
  \A d \in Calls \ {c} :
    call[d].state # "idle" =>
      \/ call[d].args.batchID # call[c].args.batchID
      \/ call[d].args.requestID # call[c].args.requestID

\* A call with ids of its own that returns a result returns the key it asked
\* about, and the signature of its fingerprint: never what another call asked
\* for, of the same method or another one.
OwnResult ==
  \A c \in Calls : Returned(c) /\ OwnIDs(c) => \A r \in call[c].result :
    LET args == call[c].args
    IN /\ r.key = <<args.keyID, args.keyID>>
       /\ args.method = "sign" => r.signature = <<args.keyID, args.print>>
=============================================================================
