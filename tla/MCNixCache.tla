----------------------------- MODULE MCNixCache -----------------------------
(***************************************************************************)
(* Two calls of every method.  Keys with an id of one byte and of the      *)
(* longest id, and with the longest name; fingerprints of one byte and of  *)
(* the longest length; arguments just outside each rule.                   *)
(***************************************************************************)
EXTENDS NixCache

Value(len, form, v) == [len |-> len, form |-> form, v |-> v]

k1 == Value(1, "text", "k1")
k2 == Value(256, "text", "k2")
i1 == Value(16, "binary", "i1")
i2 == Value(16, "binary", "i2")

Args(method, keyID, batchID, requestID, print) ==
  [method |-> method, keyID |-> keyID, batchID |-> batchID, requestID |-> requestID,
   print |-> print]

Fingerprint(len) == Value(len, "binary", "fingerprint")

\* Only sign has a fingerprint; that of the longer key id is the longest.
Valid ==
  {Args(m, a[1], a[2], a[3],
        IF m # "sign" THEN Fingerprint(0)
        ELSE IF a[1] = k1 THEN Fingerprint(1) ELSE Fingerprint(nixCacheFingerprintMax)) :
     m \in Methods,
     a \in {<<k1, i1, i1>>, <<k1, i1, i2>>, <<k2, i1, i2>>, <<k2, i2, i1>>}}

Invalid ==
  LET zero == Value(16, "zero", "i0")
  IN {Args("describe", Value(257, "text", "k3"), i1, i1, Fingerprint(0)),
      Args("describe", Value(0, "text", "k4"), i1, i1, Fingerprint(0)),
      Args("enroll", Value(1, "control", "k5"), i1, i1, Fingerprint(0)),
      Args("enroll", k1, zero, i1, Fingerprint(0)),
      Args("sign", k1, i1, zero, Fingerprint(1)),
      Args("sign", k1, i1, i1, Fingerprint(0)),
      Args("sign", k1, i1, i1, Fingerprint(nixCacheFingerprintMax + 1))}

MCArguments == Valid \cup Invalid

MCKeyName ==
  [k \in {k1, k2} |-> [len |-> IF k = k1 THEN 1 ELSE 128, form |-> "name"]]

\* No value that is valid in some field of a response.
MCOddValues == {Value(129, "name", ""), Value(16, "zero", "")}
=============================================================================
