--------------------------- MODULE NixCacheCodec ---------------------------
(***************************************************************************)
(* basil/nix_cache_codec.go: the strict protobuf codec of the Nix cache    *)
(* calls, which looks at the raw fields before proto.Unmarshal does.       *)
(*                                                                         *)
(* A message is the sequence of its wire fields [number, wire, value]; the *)
(* wire type "malformed" is a tag or value that cannot be consumed.  A     *)
(* bytes value is [len, form, v]: its length, its form ("text", "name",    *)
(* "zero" and so on, as far as the rules tell them apart) and its content. *)
(* A varint value is the number.  Tags and lengths are encoded minimally.  *)
(***************************************************************************)
EXTENDS Integers, Sequences, FiniteSets, SequencesExt

nixCacheFingerprintMax == 524626

\* Mutant of nixCacheMaximum: the longest fingerprint's length takes three
\* bytes to encode, the limit was computed for two.
MaximumShort ==
  [describeRequest |-> 295, describeResponse |-> 203, enrollRequest |-> 295,
   enrollResponse |-> 205, signRequest |-> 524938, signResponse |-> 269]

\* The largest encoding of each schema, of the codec and of the gRPC call.
nixCacheMaximum ==
  [describeRequest |-> 295, describeResponse |-> 203, enrollRequest |-> 295,
   enrollResponse |-> 205, signRequest |-> 524939, signResponse |-> 269]

\* nixCacheFieldRule and nixCacheIdentityField: the kind of each field, by
\* its number.  nixCacheMessageSchema's field count is the length.
nixCacheFieldRule ==
  [describeRequest  |-> <<"keyID", "identifier", "identifier">>,
   describeResponse |-> <<"keyName", "publicKey", "backendVersion", "identifier",
                          "identifier">>,
   enrollRequest    |-> <<"keyID", "identifier", "identifier">>,
   enrollResponse   |-> <<"keyName", "publicKey", "backendVersion", "disposition",
                          "identifier", "identifier">>,
   signRequest      |-> <<"keyID", "profile", "fingerprint", "identifier",
                          "identifier">>,
   signResponse     |-> <<"keyName", "publicKey", "backendVersion", "signature",
                          "identifier", "identifier">>]

expectedWire(kind) ==
  IF kind \in {"backendVersion", "disposition"} THEN "varint" ELSE "bytes"

validNixCacheKeyName(value) == value.form = "name" /\ value.len \in 1 .. 128

\* Mutant of validateNixCacheBytes: only the length of a key name counts.
BytesAnyKeyName(kind, value) ==
  CASE kind = "keyID" -> value.form # "control" /\ value.len \in 1 .. 256
    [] kind = "keyName" -> value.len \in 1 .. 128
    [] kind = "publicKey" -> value.len = 32
    [] kind = "identifier" -> value.len = 16 /\ value.form # "zero"
    [] kind = "profile" -> value.form = "PATH_INFO_V1"
    [] kind = "fingerprint" -> value.len \in 1 .. nixCacheFingerprintMax
    [] kind = "signature" -> value.len = 64

\* Forms: "control" stands for invalid UTF-8 and control bytes, "name" for
\* bytes that validNixCacheKeyName allows.
validateNixCacheBytes(kind, value) ==
  CASE kind = "keyID" -> value.form # "control" /\ value.len \in 1 .. 256
    [] kind = "keyName" -> validNixCacheKeyName(value)
    [] kind = "publicKey" -> value.len = 32
    [] kind = "identifier" -> value.len = 16 /\ value.form # "zero"
    [] kind = "profile" -> value.form = "PATH_INFO_V1"
    [] kind = "fingerprint" -> value.len \in 1 .. nixCacheFingerprintMax
    [] kind = "signature" -> value.len = 64

validateNixCacheVarint(kind, value) ==
  CASE kind = "backendVersion" -> value = 1
    [] kind = "disposition" -> value \in {1, 2}

validValue(kind, value) ==
  IF expectedWire(kind) = "varint" THEN validateNixCacheVarint(kind, value)
  ELSE validateNixCacheBytes(kind, value)

\* The bytes of a length, as a varint.
LengthSize(len) == IF len < 128 THEN 1 ELSE IF len < 16384 THEN 2 ELSE 3

\* The bytes of a field: a tag, and the varint or the length and the value.
\* The varints that occur as values are of one byte.
FieldSize(f) ==
  IF f.wire = "varint" THEN 2
  ELSE IF f.wire = "bytes" THEN 1 + LengthSize(f.value.len) + f.value.len
  ELSE 1

\* The length of the encoding.
Size(raw) ==
  LET sum[i \in 0 .. Len(raw)] == IF i = 0 THEN 0 ELSE sum[i - 1] + FieldSize(raw[i])
  IN sum[Len(raw)]

\* The bits of seen when the loop of preflightNixCacheProto is at field i.
seen(raw, i) == {raw[j].number : j \in 1 .. i - 1}

\* Mutant of scanField: a field may come again.
ScanFieldAgain(schema, raw, i) ==
  LET rule == nixCacheFieldRule[schema]
      f    == raw[i]
  IN IF f.wire = "malformed" THEN "invalid"
     ELSE IF f.number \notin DOMAIN rule THEN "unknown field"
     ELSE IF f.wire # expectedWire(rule[f.number]) THEN "wire type"
     ELSE IF ~validValue(rule[f.number], f.value) THEN "invalid value"
     ELSE ""

\* The error of the loop's iteration at field i.
scanField(schema, raw, i) ==
  LET rule == nixCacheFieldRule[schema]
      f    == raw[i]
  IN IF f.wire = "malformed" THEN "invalid"
     ELSE IF f.number \notin DOMAIN rule THEN "unknown field"
     ELSE IF f.number \in seen(raw, i) THEN "duplicate field"
     ELSE IF f.wire # expectedWire(rule[f.number]) THEN "wire type"
     ELSE IF ~validValue(rule[f.number], f.value) THEN "invalid value"
     ELSE ""

\* preflightNixCacheProto: its error, "" for none.  The loop returns at the
\* first field that is refused.
preflightNixCacheProto(raw, schema) ==
  LET refused == {i \in DOMAIN raw : scanField(schema, raw, i) # ""}
  IN IF Size(raw) > nixCacheMaximum[schema] THEN "maximum"
     ELSE IF refused # {} THEN scanField(schema, raw, Min(refused))
     ELSE IF seen(raw, Len(raw) + 1) # DOMAIN nixCacheFieldRule[schema]
          THEN "missing required field"
     ELSE ""

\* What an accepted message is: every field of the schema once, in any order,
\* with its wire type and a valid value, and nothing else.
WellFormed(raw, schema) ==
  LET rule == nixCacheFieldRule[schema]
  IN /\ Len(raw) = Len(rule)
     /\ \A n \in DOMAIN rule : \E i \in DOMAIN raw :
          /\ raw[i].number = n
          /\ raw[i].wire = expectedWire(rule[n])
          /\ validValue(rule[n], raw[i].value)

\* proto.Unmarshal: the last occurrence of a field counts, none is the zero
\* value.
field(raw, n) ==
  LET at == {i \in DOMAIN raw : raw[i].number = n}
  IN IF at = {} THEN [len |-> 0, form |-> "zero", v |-> ""]
     ELSE raw[CHOOSE i \in at : \A j \in at : j <= i].value
=============================================================================
