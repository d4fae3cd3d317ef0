------------------------------ MODULE IdealAEAD ------------------------------
(***************************************************************************)
(* The AEAD as the container format relies on it.  sealed is every record  *)
(* aeadSeal has produced in the system; aeadOpen succeeds on one of these  *)
(* and on nothing else.                                                    *)
(***************************************************************************)
EXTENDS StreamFormat

VARIABLE sealed

\* Mutant of aeadOpen: the tag is not verified.
OpenUnverified(alg, key, nonce, cells, aad) ==
  {r.pt : r \in {q \in sealed :
     \E o \in Spelled(cells) : "sealed" \in DOMAIN o /\ o.sealed = q}}

\* aeadOpen: the plaintexts the bytes open to, one or none (ErrAuthFailed).
aeadOpen(alg, key, nonce, cells, aad) ==
  {r.pt : r \in {q \in sealed :
     /\ q.alg = alg /\ q.key = key /\ q.nonce = nonce /\ q.aad = aad
     /\ \E o \in Spelled(cells) : "sealed" \in DOMAIN o /\ o.sealed = q}}

\* openCEKLocal: the CEKs an envelope opens to under a seed, given the suite
\* the recovery was built for.  ekCells, nonceCells and wrapped are the three
\* byte fields of the envelope.
openCEKLocal(seed, suite, ekCells, nonceCells, wrapped, aad) ==
  LET pair == PublicKeyFromSeed(seed, suite)
      Key(ek) == deriveKEMAEADKey(suite, SharedSecret(pair, ek), ek, pair)
      eks == {o.ek : o \in {p \in Spelled(ekCells) : "ek" \in DOMAIN p}}
      nonces == {o.nonce : o \in {p \in Spelled(nonceCells) : "nonce" \in DOMAIN p}}
  IN {pt.cek : pt \in UNION {aeadOpen("AES256GCM", Key(ek), nonce, wrapped, aad) :
                              ek \in eks, nonce \in nonces}}
=============================================================================
