--------------------------- MODULE NixCacheProofs ---------------------------
(***************************************************************************)
(* What the strict codec and the checks behind it give a call, for any     *)
(* number of calls, arguments and deviations of the broker's responses.    *)
(***************************************************************************)
EXTENDS NixCache, WellFoundedInduction, FiniteSetTheorems, TLAPS

\* Every set of numbers has a least one.
LEMMA LeastNat ==
  ASSUME NEW T, T \subseteq Nat, T # {}
  PROVE  \E x \in T : \A y \in T : x <= y
<1> DEFINE R == OpToRel(<, Nat)
<1>1. IsWellFoundedOn(R, Nat)
  BY NatLessThanWellFounded
<1>2. \A x, y \in Nat : y < x => <<y, x>> \in R
  BY DEF OpToRel
<1> HIDE DEF R
<1>3. PICK x \in T : \A y \in T : ~(<<y, x>> \in R)
  BY <1>1, WFMin
<1>4. ASSUME NEW y \in T PROVE x <= y
  <2>1. x \in Nat /\ y \in Nat
    OBVIOUS
  <2>2. ~(y < x)
    BY <1>2, <1>3, <2>1, Zenon
  <2> QED
    BY <2>1, <2>2
<1> QED
  BY <1>3, <1>4

-----------------------------------------------------------------------------
\* The codec.

\* The codec lets a message through.
Decodes(raw, schema) == preflightNixCacheProto(raw, schema) = ""

\* A field the loop takes.
Taken(schema, raw, i) ==
  LET rule == nixCacheFieldRule[schema]
  IN /\ raw[i].wire # "malformed"
     /\ raw[i].number \in DOMAIN rule
     /\ raw[i].number \notin seen(raw, i)
     /\ raw[i].wire = expectedWire(rule[raw[i].number])
     /\ validValue(rule[raw[i].number], raw[i].value)

LEMMA TakenField ==
  ASSUME NEW schema, NEW raw, NEW i
  PROVE  scanField(schema, raw, i) = "" <=> Taken(schema, raw, i)
  BY Zenon DEF scanField, Taken

\* A message is accepted iff it is not too long, every field is taken and none
\* is missing.
LEMMA Accepted ==
  ASSUME NEW S, NEW raw \in Seq(S), NEW schema
  PROVE  Decodes(raw, schema)
           <=> /\ ~(Size(raw) > nixCacheMaximum[schema])
               /\ \A i \in DOMAIN raw : Taken(schema, raw, i)
               /\ seen(raw, Len(raw) + 1) = DOMAIN nixCacheFieldRule[schema]
<1> DEFINE refused == {i \in DOMAIN raw : scanField(schema, raw, i) # ""}
<1>1. refused = {} <=> \A i \in DOMAIN raw : Taken(schema, raw, i)
  BY TakenField, Zenon
<1>2. ASSUME refused # {} PROVE scanField(schema, raw, Min(refused)) # ""
  <2>1. refused \subseteq Nat
    <3>1. DOMAIN raw \subseteq Nat
      OBVIOUS
    <3> QED
      BY <3>1, Zenon
  <2>2. \E x \in refused : \A y \in refused : x <= y
    <3> HIDE DEF refused
    <3> QED
      BY <1>2, <2>1, LeastNat
  <2>3. Min(refused) \in refused
    <3> HIDE DEF refused
    <3> QED
      BY <2>2, Zenon DEF Min
  <2> QED
    BY <2>3, Zenon
<1> HIDE DEF refused
<1>3. preflightNixCacheProto(raw, schema)
        = IF Size(raw) > nixCacheMaximum[schema] THEN "maximum"
          ELSE IF refused # {} THEN scanField(schema, raw, Min(refused))
          ELSE IF seen(raw, Len(raw) + 1) # DOMAIN nixCacheFieldRule[schema]
               THEN "missing required field"
          ELSE ""
  BY Zenon DEF preflightNixCacheProto, refused
<1> QED
  BY <1>1, <1>2, <1>3, Zenon DEF Decodes

\* An accepted message has every field of its schema once; what Unmarshal
\* reads of it is the value of that field, which is valid.
LEMMA FieldOfAccepted ==
  ASSUME NEW S, NEW raw \in Seq(S), NEW schema,
         Decodes(raw, schema),
         NEW n \in DOMAIN nixCacheFieldRule[schema]
  PROVE  \E i \in DOMAIN raw :
           /\ raw[i].number = n
           /\ raw[i].wire = expectedWire(nixCacheFieldRule[schema][n])
           /\ field(raw, n) = raw[i].value
           /\ validValue(nixCacheFieldRule[schema][n], raw[i].value)
<1>1. /\ \A i \in DOMAIN raw : Taken(schema, raw, i)
      /\ seen(raw, Len(raw) + 1) = DOMAIN nixCacheFieldRule[schema]
  BY Accepted, Zenon
<1>2. DOMAIN raw = 1 .. Len(raw) /\ Len(raw) \in Nat
  OBVIOUS
<1>3. 1 .. (Len(raw) + 1) - 1 = DOMAIN raw
  BY <1>2
<1>4. PICK i \in DOMAIN raw : raw[i].number = n
  BY <1>1, <1>3, Zenon DEF seen
<1>5. ASSUME NEW j \in DOMAIN raw, NEW k \in DOMAIN raw, j < k
      PROVE  raw[j].number # raw[k].number
  <2>1. j \in 1 .. k - 1
    BY <1>2, <1>5
  <2>2. raw[j].number \in seen(raw, k)
    BY <2>1, Zenon DEF seen
  <2> QED
    BY <1>1, <2>2, Zenon DEF Taken
<1>6. \A j \in DOMAIN raw : raw[j].number = n => j = i
  BY <1>2, <1>4, <1>5
<1>7. field(raw, n) = raw[i].value
  <2> DEFINE at == {k \in DOMAIN raw : raw[k].number = n}
  <2>1. at = {i}
    BY <1>4, <1>6, Zenon
  <2>2. field(raw, n) = raw[CHOOSE k \in at : \A j \in at : j <= k].value
    BY <2>1 DEF field
  <2>3. (CHOOSE k \in at : \A j \in at : j <= k) = i
    <3> HIDE DEF at
    <3>1. i <= i
      BY <1>2
    <3> QED
      BY <2>1, <3>1, Zenon
  <2> QED
    BY <2>2, <2>3, Zenon
<1> QED
  BY <1>1, <1>4, <1>7, Zenon DEF Taken

\* The kinds of the fields of a response.
LEMMA ResponseRules ==
  ASSUME NEW method \in Methods, NEW rule, rule = nixCacheFieldRule[responseOf[method]]
  PROVE  /\ rule[1] = "keyName" /\ rule[2] = "publicKey" /\ rule[3] = "backendVersion"
         /\ method = "describe" =>
              /\ DOMAIN rule = 1 .. 5 /\ Len(rule) = 5
              /\ rule[4] = "identifier" /\ rule[5] = "identifier"
         /\ method = "enroll" =>
              /\ DOMAIN rule = 1 .. 6 /\ Len(rule) = 6
              /\ rule[4] = "disposition" /\ rule[5] = "identifier" /\ rule[6] = "identifier"
         /\ method = "sign" =>
              /\ DOMAIN rule = 1 .. 6 /\ Len(rule) = 6
              /\ rule[4] = "signature" /\ rule[5] = "identifier" /\ rule[6] = "identifier"
<1>1. CASE method = "describe"
  <2>1. rule = <<"keyName", "publicKey", "backendVersion", "identifier", "identifier">>
    BY <1>1 DEF responseOf, nixCacheFieldRule
  <2> QED
    BY <1>1, <2>1
<1>2. CASE method = "enroll"
  <2>1. rule = <<"keyName", "publicKey", "backendVersion", "disposition", "identifier",
                 "identifier">>
    BY <1>2 DEF responseOf, nixCacheFieldRule
  <2> QED
    BY <1>2, <2>1
<1>3. CASE method = "sign"
  <2>1. rule = <<"keyName", "publicKey", "backendVersion", "signature", "identifier",
                 "identifier">>
    BY <1>3 DEF responseOf, nixCacheFieldRule
  <2> QED
    BY <1>3, <2>1
<1> QED
  BY <1>1, <1>2, <1>3 DEF Methods

\* What the rules say of each kind.
LEMMA KindRules ==
  ASSUME NEW v
  PROVE  /\ validValue("keyID", v) <=> v.form # "control" /\ v.len \in 1 .. 256
         /\ validValue("keyName", v) <=> validNixCacheKeyName(v)
         /\ validValue("publicKey", v) <=> v.len = 32
         /\ validValue("backendVersion", v) <=> v = 1
         /\ validValue("disposition", v) <=> v \in {1, 2}
         /\ validValue("signature", v) <=> v.len = 64
         /\ validValue("identifier", v) <=> v.len = 16 /\ v.form # "zero"
         /\ validValue("profile", v) <=> v.form = "PATH_INFO_V1"
         /\ validValue("fingerprint", v) <=> v.len \in 1 .. nixCacheFingerprintMax
  BY DEF validValue, expectedWire, validateNixCacheBytes, validateNixCacheVarint

\* nixCacheKey refuses no key that the codec lets through.
LEMMA DecodedKey ==
  ASSUME NEW S, NEW raw \in Seq(S), NEW method \in Methods, Decodes(raw, responseOf[method])
  PROVE  nixCacheKey(raw) = [err |-> "", key |-> <<field(raw, 1).v, field(raw, 2).v>>]
<1>1. PICK rule : rule = nixCacheFieldRule[responseOf[method]]
  OBVIOUS
<1>2. rule[1] = "keyName" /\ rule[2] = "publicKey" /\ rule[3] = "backendVersion"
  BY <1>1, ResponseRules
<1>3. 1 \in DOMAIN rule /\ 2 \in DOMAIN rule /\ 3 \in DOMAIN rule
  <2>1. DOMAIN rule = 1 .. 5 \/ DOMAIN rule = 1 .. 6
    BY <1>1, ResponseRules DEF Methods
  <2> QED
    BY <2>1
<1>4. \A n \in DOMAIN rule : validValue(rule[n], field(raw, n))
  <2> SUFFICES ASSUME NEW n \in DOMAIN rule PROVE validValue(rule[n], field(raw, n))
    OBVIOUS
  <2>1. PICK i \in DOMAIN raw : field(raw, n) = raw[i].value /\ validValue(rule[n], raw[i].value)
    BY <1>1, FieldOfAccepted
  <2> QED
    BY <2>1
<1>5. validNixCacheKeyName(field(raw, 1)) /\ field(raw, 2).len = 32 /\ field(raw, 3) = 1
  BY <1>2, <1>3, <1>4, KindRules
<1> QED
  BY <1>5, Zenon DEF nixCacheKey

\* The error and the result of a call exclude each other.
LEMMA ErrorOrResult ==
  ASSUME NEW S, NEW raw \in Seq(S), NEW args, args.method \in Methods
  PROVE  Outcome(args, raw).err # "" <=> Outcome(args, raw).result = {}
<1> DEFINE o == Outcome(args, raw)
<1>1. ASSUME Decodes(raw, responseOf[args.method])
      PROVE  nixCacheKey(raw).err = ""
  <2>1. nixCacheKey(raw) = [err |-> "", key |-> <<field(raw, 1).v, field(raw, 2).v>>]
    BY <1>1, DecodedKey, Zenon
  <2>2. ASSUME NEW k, k = [err |-> "", key |-> <<field(raw, 1).v, field(raw, 2).v>>]
        PROVE  k.err = ""
    BY <2>2, Zenon
  <2> QED
    BY <2>1, <2>2, Zenon
<1>2. \/ \E e : e # "" /\ o = [err |-> e, result |-> {}]
      \/ \E r : o = [err |-> "", result |-> {r}]
  BY <1>1, Zenon DEF Outcome, Decodes
<1> HIDE DEF o
<1>3. ASSUME NEW e, e # "", o = [err |-> e, result |-> {}]
      PROVE  o.err # "" /\ o.result = {}
  BY <1>3, Zenon
<1>4. ASSUME NEW r, o = [err |-> "", result |-> {r}]
      PROVE  o.err = "" /\ o.result # {}
  BY <1>4, Zenon
<1>5. o.err # "" <=> o.result = {}
  BY <1>2, <1>3, <1>4, Zenon
<1> QED
  BY <1>5, Zenon DEF o

-----------------------------------------------------------------------------
\* The length of an encoding.

\* g gives the length of the first i fields, for i up to m.
Sums(raw, m, g) ==
  g = [i \in 0 .. m |-> IF i = 0 THEN 0 ELSE g[i - 1] + FieldSize(raw[i])]

LEMMA SumsExist ==
  ASSUME NEW raw, NEW m \in Nat
  PROVE  \E g : Sums(raw, m, g)
<1> DEFINE bad == {n \in Nat : ~\E g : Sums(raw, n, g)}
<1> SUFFICES ASSUME bad # {} PROVE FALSE
  BY Zenon
<1>1. PICK n \in bad : \A k \in bad : n <= k
  BY LeastNat, Zenon
<1>2. n \in Nat /\ ~\E g : Sums(raw, n, g)
  BY <1>1, Zenon
<1>3. n # 0
  <2>1. PICK g : g = [i \in 0 .. 0 |-> 0]
    OBVIOUS
  <2>2. Sums(raw, 0, g)
    BY <2>1 DEF Sums
  <2> QED
    BY <1>2, <2>2, Zenon
<1>4. n - 1 \in Nat /\ n - 1 \notin bad
  <2>1. n - 1 \in Nat /\ ~(n <= n - 1)
    BY <1>2, <1>3
  <2> QED
    BY <1>1, <2>1, Zenon
<1>5. PICK g : Sums(raw, n - 1, g)
  BY <1>4, Zenon
<1> HIDE DEF bad
<1>6. PICK h : h = [i \in 0 .. n |-> IF i = n THEN g[n - 1] + FieldSize(raw[n]) ELSE g[i]]
  OBVIOUS
<1>7. Sums(raw, n, h)
  <2> SUFFICES ASSUME NEW i \in 0 .. n
               PROVE  h[i] = IF i = 0 THEN 0 ELSE h[i - 1] + FieldSize(raw[i])
    BY <1>6 DEF Sums
  <2>1. \A k \in 0 .. n - 1 : h[k] = g[k]
    BY <1>2, <1>6
  <2>2. CASE i = n
    BY <1>2, <1>3, <1>6, <2>1, <2>2
  <2>3. CASE i # n
    <3>1. i \in 0 .. n - 1 /\ (i # 0 => i - 1 \in 0 .. n - 1)
      BY <1>2, <2>3
    <3>2. g[i] = IF i = 0 THEN 0 ELSE g[i - 1] + FieldSize(raw[i])
      BY <1>5, <3>1 DEF Sums
    <3> QED
      BY <2>1, <3>1, <3>2
  <2> QED
    BY <2>2, <2>3
<1> QED
  BY <1>2, <1>7, Zenon

\* Size is the last of the sums.
LEMMA SizeIsSum ==
  ASSUME NEW raw, Len(raw) \in Nat
  PROVE  \E g : Sums(raw, Len(raw), g) /\ Size(raw) = g[Len(raw)]
<1> DEFINE sum == CHOOSE g : Sums(raw, Len(raw), g)
<1>1. Sums(raw, Len(raw), sum)
  BY SumsExist, Zenon
<1>2. Size(raw) = sum[Len(raw)]
  BY Zenon DEF Size, Sums
<1> QED
  BY <1>1, <1>2, Zenon

\* The sum of the weights of the field numbers in N.
Weight(w, n, N) == IF n \in N THEN w[n] ELSE 0

Weights(w, N) ==
  Weight(w, 1, N) + Weight(w, 2, N) + Weight(w, 3, N) + Weight(w, 4, N)
    + Weight(w, 5, N) + Weight(w, 6, N)

LEMMA WeightsGrow ==
  ASSUME NEW w \in [1 .. 6 -> Nat], NEW N, NEW n \in 1 .. 6, n \notin N
  PROVE  /\ Weights(w, N) \in Int /\ Weights(w, N \cup {n}) \in Int
         /\ Weights(w, N \cup {n}) = Weights(w, N) + w[n]
<1>1. \A k \in 1 .. 6 : Weight(w, k, N) \in Int /\ Weight(w, k, N \cup {n}) \in Int
  BY DEF Weight
<1>2. /\ Weight(w, n, N) = 0 /\ Weight(w, n, N \cup {n}) = w[n]
      /\ \A k \in 1 .. 6 : k # n => Weight(w, k, N \cup {n}) = Weight(w, k, N)
  BY DEF Weight
<1>3. w[n] \in Int
  OBVIOUS
<1>4. n = 1 \/ n = 2 \/ n = 3 \/ n = 4 \/ n = 5 \/ n = 6
  OBVIOUS
<1> QED
  BY <1>1, <1>2, <1>3, <1>4 DEF Weights

\* Fields that do not repeat are together no longer than their weights.
LEMMA SizeBound ==
  ASSUME NEW S, NEW raw \in Seq(S), NEW w \in [1 .. 6 -> Nat],
         \A i \in DOMAIN raw :
           /\ raw[i].number \in 1 .. 6 /\ raw[i].number \notin seen(raw, i)
           /\ FieldSize(raw[i]) \in Int /\ FieldSize(raw[i]) <= w[raw[i].number]
  PROVE  Size(raw) \in Int /\ Size(raw) <= Weights(w, seen(raw, Len(raw) + 1))
<1>1. Len(raw) \in Nat /\ DOMAIN raw = 1 .. Len(raw)
  OBVIOUS
<1>2. PICK g : Sums(raw, Len(raw), g) /\ Size(raw) = g[Len(raw)]
  BY <1>1, SizeIsSum, Zenon
<1> DEFINE P(i) == g[i] \in Int /\ Weights(w, seen(raw, i + 1)) \in Int
                   /\ g[i] <= Weights(w, seen(raw, i + 1))
           bad == {i \in 0 .. Len(raw) : ~P(i)}
<1> SUFFICES ASSUME bad # {} PROVE FALSE
  <2>1. Len(raw) \in 0 .. Len(raw)
    BY <1>1
  <2>2. bad = {} => P(Len(raw))
    BY <2>1, Zenon
  <2> QED
    BY <1>2, <2>2, Zenon
<1>3. bad \subseteq Nat
  BY <1>1
<1>4. PICK n \in bad : \A k \in bad : n <= k
  <2> HIDE DEF bad
  <2> QED
    BY <1>3, LeastNat, Zenon
<1>5. n \in 0 .. Len(raw) /\ ~P(n)
  BY <1>4, Zenon
<1>6. n # 0
  <2>1. g[0] = 0
    BY <1>1, <1>2 DEF Sums
  <2>2. seen(raw, 0 + 1) = {}
    BY DEF seen
  <2>3. Weights(w, {}) = 0
    BY DEF Weights, Weight
  <2>4. 0 \in Int /\ 0 <= 0
    OBVIOUS
  <2>5. P(0)
    BY <2>1, <2>2, <2>3, <2>4, Zenon
  <2> QED
    BY <1>5, <2>5, Zenon
<1>7. n \in DOMAIN raw /\ n - 1 \in 0 .. Len(raw) /\ ~(n <= n - 1)
  BY <1>1, <1>5, <1>6
<1>8. P(n - 1)
  BY <1>4, <1>7, Zenon
<1>9. g[n] = g[n - 1] + FieldSize(raw[n])
  BY <1>1, <1>2, <1>5, <1>6 DEF Sums
<1>10. seen(raw, n + 1) = seen(raw, n) \cup {raw[n].number}
  <2>1. n \in Nat \ {0}
    BY <1>1, <1>5, <1>6
  <2>2. 1 .. (n + 1) - 1 = (1 .. n - 1) \cup {n}
    BY ONLY <2>1, SMTT(30)
  <2>3. \A A, m : {raw[j].number : j \in A \cup {m}}
                   = {raw[j].number : j \in A} \cup {raw[m].number}
    BY ONLY TRUE
  <2> QED
    BY <2>2, <2>3, Zenon DEF seen
<1>11. seen(raw, n - 1 + 1) = seen(raw, n)
  <2>1. n \in Nat
    BY <1>1, <1>5, <1>6
  <2>2. n - 1 + 1 = n
    BY ONLY <2>1
  <2> QED
    BY <2>2, Zenon
<1>12. /\ raw[n].number \in 1 .. 6 /\ raw[n].number \notin seen(raw, n)
       /\ FieldSize(raw[n]) \in Int /\ FieldSize(raw[n]) <= w[raw[n].number]
  BY <1>7, Zenon
<1>13. PICK k, f, N, y : k = raw[n].number /\ f = FieldSize(raw[n]) /\ N = seen(raw, n)
                         /\ y = w[k]
  OBVIOUS
<1>14. /\ Weights(w, N) \in Int /\ Weights(w, N \cup {k}) \in Int
       /\ Weights(w, N \cup {k}) = Weights(w, N) + y
  BY <1>12, <1>13, WeightsGrow, Zenon
<1>15. g[n - 1] \in Int /\ g[n - 1] <= Weights(w, N)
  BY <1>8, <1>11, <1>13, Zenon
<1>16. f \in Int /\ f <= y /\ y \in Int /\ g[n] = g[n - 1] + f
  <2>1. k \in 1 .. 6
    BY <1>12, <1>13
  <2>2. y \in Int
    <3>1. y = w[k] /\ w \in [1 .. 6 -> Nat]
      BY <1>13
    <3> QED
      BY ONLY <2>1, <3>1
  <2> QED
    BY <1>9, <1>12, <1>13, <2>2, Zenon
<1>17. g[n] \in Int /\ g[n] <= Weights(w, N \cup {k})
  <2>1. PICK a, b, c, d : a = g[n - 1] /\ b = Weights(w, N) /\ c = g[n]
                          /\ d = Weights(w, N \cup {k})
    OBVIOUS
  <2>2. a \in Int /\ b \in Int /\ a <= b /\ d = b + y /\ c = a + f
    BY <1>14, <1>15, <1>16, <2>1, Zenon
  <2>3. c \in Int /\ c <= d
    BY ONLY <2>2, <1>16
  <2> QED
    BY <2>1, <2>3, Zenon
<1>18. seen(raw, n + 1) = N \cup {k}
  BY <1>10, <1>13
<1> QED
  BY <1>5, <1>14, <1>17, <1>18, Zenon

-----------------------------------------------------------------------------
\* The codec accepts the well-formed responses and no other.

\* Numbers 1 .. n that are all met, once each, are met by n fields.
LEMMA SameLength ==
  ASSUME NEW m \in Nat, NEW n \in Nat, NEW f \in [1 .. m -> 1 .. n],
         \A j, k \in 1 .. m : j # k => f[j] # f[k],
         \A x \in 1 .. n : \E j \in 1 .. m : f[j] = x
  PROVE  m = n
<1>1. f \in Injection(1 .. m, 1 .. n) /\ f \in Surjection(1 .. m, 1 .. n)
  BY Zenon DEF Injection, IsInjective, Surjection
<1>2. \A k \in Nat : IsFiniteSet(1 .. k) /\ Cardinality(1 .. k) = k
  <2> SUFFICES ASSUME NEW k \in Nat PROVE IsFiniteSet(1 .. k) /\ Cardinality(1 .. k) = k
    OBVIOUS
  <2>1. IsFiniteSet(1 .. k) /\ Cardinality(1 .. k) = IF 1 > k THEN 0 ELSE k - 1 + 1
    BY FS_Interval
  <2> QED
    BY <2>1
<1>3. Cardinality(1 .. m) = Cardinality(1 .. n)
  BY <1>1, <1>2, FS_Injection, Zenon
<1> QED
  BY <1>2, <1>3, Zenon

\* n numbers for n fields leave no field without one.
LEMMA NoneLeft ==
  ASSUME NEW n \in Nat, NEW g \in [1 .. n -> 1 .. n],
         \A j, k \in 1 .. n : j # k => g[j] # g[k]
  PROVE  \A i \in 1 .. n : \E k \in 1 .. n : g[k] = i
<1>1. g \in Injection(1 .. n, 1 .. n)
  BY Zenon DEF Injection, IsInjective
<1>2. IsFiniteSet(1 .. n)
  BY FS_Interval
<1>3. g \in Surjection(1 .. n, 1 .. n)
  BY <1>1, <1>2, FS_Injection, Zenon
<1> QED
  BY <1>3, Zenon DEF Surjection

\* The longest encoding of a field of a response, by its kind.
Longest ==
  [keyName |-> 131, publicKey |-> 34, backendVersion |-> 2, disposition |-> 2,
   signature |-> 66, identifier |-> 18]

LEMMA LongestField ==
  ASSUME NEW kind \in DOMAIN Longest, NEW f, f.wire = expectedWire(kind),
         validValue(kind, f.value)
  PROVE  FieldSize(f) \in Int /\ FieldSize(f) <= Longest[kind]
<1>1. CASE kind \in {"backendVersion", "disposition"}
  BY <1>1 DEF expectedWire, FieldSize, Longest
<1>2. CASE kind \notin {"backendVersion", "disposition"}
  <2>1. PICK l : l = f.value.len
    OBVIOUS
  <2>2. \/ kind = "keyName" /\ l \in 1 .. 128
        \/ kind = "publicKey" /\ l = 32
        \/ kind = "signature" /\ l = 64
        \/ kind = "identifier" /\ l = 16
    BY <1>2, <2>1, KindRules DEF Longest, validNixCacheKeyName
  <2>3. FieldSize(f) = 1 + LengthSize(l) + l
    BY <1>2, <2>1 DEF expectedWire, FieldSize
  <2> QED
    BY <2>2, <2>3 DEF Longest, LengthSize
<1> QED
  BY <1>1, <1>2

\* A field that is right for its number, but for repetitions.
Right(schema, f) ==
  LET rule == nixCacheFieldRule[schema]
  IN /\ f.number \in DOMAIN rule
     /\ f.wire = expectedWire(rule[f.number])
     /\ validValue(rule[f.number], f.value)

LEMMA RightIsTaken ==
  ASSUME NEW schema, NEW raw, NEW i
  PROVE  Taken(schema, raw, i) <=> Right(schema, raw[i]) /\ raw[i].number \notin seen(raw, i)
<1>1. \A kind : expectedWire(kind) # "malformed"
  BY DEF expectedWire
<1> QED
  BY <1>1, Zenon DEF Taken, Right

\* A response with every field of its method once is not too long.
LEMMA ResponseFits ==
  ASSUME NEW S, NEW raw \in Seq(S), NEW method \in Methods,
         \A i \in DOMAIN raw : /\ Right(responseOf[method], raw[i])
                               /\ raw[i].number \notin seen(raw, i),
         seen(raw, Len(raw) + 1) = DOMAIN nixCacheFieldRule[responseOf[method]]
  PROVE  ~(Size(raw) > nixCacheMaximum[responseOf[method]])
<1>1. PICK rule, N : rule = nixCacheFieldRule[responseOf[method]] /\ N = DOMAIN rule
  OBVIOUS
<1>2. /\ rule[1] = "keyName" /\ rule[2] = "publicKey" /\ rule[3] = "backendVersion"
      /\ method = "describe" =>
           N = 1 .. 5 /\ rule[4] = "identifier" /\ rule[5] = "identifier"
      /\ method # "describe" =>
           N = 1 .. 6 /\ rule[5] = "identifier" /\ rule[6] = "identifier"
      /\ method = "enroll" => rule[4] = "disposition"
      /\ method = "sign" => rule[4] = "signature"
  BY <1>1, ResponseRules DEF Methods
<1>3. \A n \in N : n \in 1 .. 6 /\ rule[n] \in DOMAIN Longest
  BY <1>2 DEF Longest, Methods
<1>4. PICK w : w = [n \in 1 .. 6 |-> IF n \in N THEN Longest[rule[n]] ELSE 0]
  OBVIOUS
<1>5. /\ w[1] = 131 /\ w[2] = 34 /\ w[3] = 2
      /\ w \in [1 .. 6 -> Nat]
      /\ method = "describe" => w[4] = 18 /\ w[5] = 18 /\ w[6] = 0
      /\ method = "enroll" => w[4] = 2 /\ w[5] = 18 /\ w[6] = 18
      /\ method = "sign" => w[4] = 66 /\ w[5] = 18 /\ w[6] = 18
  <2>1. \A kind \in DOMAIN Longest : Longest[kind] \in Nat
    BY DEF Longest
  <2>2. w \in [1 .. 6 -> Nat]
    BY <1>3, <1>4, <2>1
  <2>3. /\ Longest["keyName"] = 131 /\ Longest["publicKey"] = 34
        /\ Longest["backendVersion"] = 2 /\ Longest["disposition"] = 2
        /\ Longest["signature"] = 66 /\ Longest["identifier"] = 18
    BY DEF Longest
  <2>4. \A n \in 1 .. 6 : w[n] = IF n \in N THEN Longest[rule[n]] ELSE 0
    BY <1>4
  <2>5. w[1] = 131 /\ w[2] = 34 /\ w[3] = 2
    BY <1>2, <2>3, <2>4 DEF Methods
  <2>6. CASE method = "describe"
    <3>1. w[4] = 18 /\ w[5] = 18 /\ w[6] = 0
      <4>1. /\ N = 1 .. 5 /\ 4 \in N /\ 5 \in N /\ 6 \notin N
            /\ rule[4] = "identifier" /\ rule[5] = "identifier"
        BY <1>2, <2>6
      <4>2. 4 \in 1 .. 6 /\ 5 \in 1 .. 6 /\ 6 \in 1 .. 6
        OBVIOUS
      <4> QED
        BY ONLY <2>3, <2>4, <4>1, <4>2
    <3> QED
      BY <2>2, <2>5, <2>6, <3>1
  <2>7. CASE method = "enroll"
    <3>1. w[4] = 2 /\ w[5] = 18 /\ w[6] = 18
      BY <1>2, <2>3, <2>4, <2>7
    <3> QED
      BY <2>2, <2>5, <2>7, <3>1
  <2>8. CASE method = "sign"
    <3>1. w[4] = 66 /\ w[5] = 18 /\ w[6] = 18
      BY <1>2, <2>3, <2>4, <2>8
    <3> QED
      BY <2>2, <2>5, <2>8, <3>1
  <2> QED
    BY <2>6, <2>7, <2>8 DEF Methods
<1>6. \A i \in DOMAIN raw :
        /\ raw[i].number \in 1 .. 6
        /\ FieldSize(raw[i]) \in Int /\ FieldSize(raw[i]) <= w[raw[i].number]
  <2> SUFFICES ASSUME NEW i \in DOMAIN raw
               PROVE  /\ raw[i].number \in 1 .. 6
                      /\ FieldSize(raw[i]) \in Int /\ FieldSize(raw[i]) <= w[raw[i].number]
    OBVIOUS
  <2>1. PICK f, n : f = raw[i] /\ n = f.number
    OBVIOUS
  <2>2. n \in N /\ f.wire = expectedWire(rule[n]) /\ validValue(rule[n], f.value)
    BY <1>1, <2>1, Zenon DEF Right
  <2>3. n \in 1 .. 6 /\ rule[n] \in DOMAIN Longest
    BY <1>3, <2>2, Zenon
  <2>4. FieldSize(f) \in Int /\ FieldSize(f) <= Longest[rule[n]]
    BY <2>2, <2>3, LongestField, Zenon
  <2>5. w[n] = Longest[rule[n]]
    BY <1>4, <2>2, <2>3
  <2> QED
    BY <2>1, <2>3, <2>4, <2>5, Zenon
<1>7. PICK s, t : s = Size(raw) /\ t = Weights(w, N)
  OBVIOUS
<1>8. s \in Int /\ s <= t
  <2>1. seen(raw, Len(raw) + 1) = N
    BY <1>1
  <2>2. Size(raw) \in Int /\ Size(raw) <= Weights(w, seen(raw, Len(raw) + 1))
    BY <1>5, <1>6, SizeBound
  <2> QED
    BY <1>7, <2>1, <2>2, Zenon
<1>9. /\ method = "describe" => t = 203
      /\ method = "enroll" => t = 205
      /\ method = "sign" => t = 269
  <2>1. CASE method = "describe"
    <3>1. N = 1 .. 5
      BY <1>2, <2>1
    <3>2. /\ Weight(w, 1, N) = 131 /\ Weight(w, 2, N) = 34 /\ Weight(w, 3, N) = 2
          /\ Weight(w, 4, N) = 18 /\ Weight(w, 5, N) = 18 /\ Weight(w, 6, N) = 0
      BY <1>5, <2>1, <3>1 DEF Weight
    <3> QED
      BY <1>7, <2>1, <3>2 DEF Weights
  <2>2. CASE method # "describe"
    <3>1. N = 1 .. 6
      BY <1>2, <2>2
    <3>2. \A n \in 1 .. 6 : Weight(w, n, N) = w[n]
      BY <3>1 DEF Weight
    <3>3. t = w[1] + w[2] + w[3] + w[4] + w[5] + w[6]
      BY <1>7, <3>2 DEF Weights
    <3>4. CASE method = "enroll"
      <4>1. /\ w[1] = 131 /\ w[2] = 34 /\ w[3] = 2 /\ w[4] = 2 /\ w[5] = 18
            /\ w[6] = 18
        BY <1>5, <3>4
      <4> QED
        BY <3>3, <3>4, <4>1
    <3>5. CASE method = "sign"
      <4>1. /\ w[1] = 131 /\ w[2] = 34 /\ w[3] = 2 /\ w[4] = 66 /\ w[5] = 18
            /\ w[6] = 18
        BY <1>5, <3>5
      <4> QED
        BY <3>3, <3>5, <4>1
    <3> QED
      BY <2>2, <3>4, <3>5
  <2> QED
    BY <2>1, <2>2
<1>10. PICK m : m = nixCacheMaximum[responseOf[method]]
  OBVIOUS
<1>11. t = m /\ m \in Int
  BY <1>9, <1>10 DEF nixCacheMaximum, responseOf, Methods
<1>12. ~(s > m)
  BY ONLY <1>8, <1>11
<1> QED
  BY <1>7, <1>10, <1>12, Zenon

LEMMA StrictResponse ==
  ASSUME NEW S, NEW raw \in Seq(S), NEW method \in Methods
  PROVE  Decodes(raw, responseOf[method]) <=> WellFormed(raw, responseOf[method])
<1>1. PICK schema, rule, n, m :
        /\ schema = responseOf[method] /\ rule = nixCacheFieldRule[schema]
        /\ n = Len(rule) /\ m = Len(raw)
  OBVIOUS
<1>2. DOMAIN rule = 1 .. n /\ n \in Nat
  BY <1>1, ResponseRules DEF Methods
<1>3. DOMAIN raw = 1 .. m /\ m \in Nat
  BY <1>1
<1>4. seen(raw, m + 1) = {raw[j].number : j \in 1 .. m}
  <2>1. (m + 1) - 1 = m
    BY <1>3
  <2> QED
    BY <2>1, Zenon DEF seen
<1>5. ASSUME Decodes(raw, schema) PROVE WellFormed(raw, schema)
  <2>1. /\ \A i \in DOMAIN raw : Taken(schema, raw, i)
        /\ seen(raw, m + 1) = 1 .. n
    BY <1>1, <1>2, <1>5, Accepted, Zenon
  <2>2. \A i \in DOMAIN raw : Right(schema, raw[i]) /\ raw[i].number \notin seen(raw, i)
    BY <2>1, RightIsTaken, Zenon
  <2>3. PICK f : f = [i \in 1 .. m |-> raw[i].number]
    OBVIOUS
  <2>4. f \in [1 .. m -> 1 .. n]
    BY <1>4, <2>1, <2>3, Zenon
  <2>5. \A x \in 1 .. n : \E j \in 1 .. m : f[j] = x
    BY <1>4, <2>1, <2>3, Zenon
  <2>6. \A j, k \in 1 .. m : j # k => f[j] # f[k]
    <3>1. ASSUME NEW j \in 1 .. m, NEW k \in 1 .. m, j < k PROVE f[j] # f[k]
      <4>1. j \in 1 .. k - 1
        BY <1>3, <3>1
      <4>2. raw[j].number \in seen(raw, k)
        BY <4>1, Zenon DEF seen
      <4>3. raw[k].number \notin seen(raw, k)
        BY <1>3, <2>2, Zenon
      <4>4. raw[j].number # raw[k].number
        BY <4>2, <4>3, Zenon
      <4> QED
        BY <2>3, <4>4, Zenon
    <3>2. \A j, k \in 1 .. m : j # k => j < k \/ k < j
      BY <1>3
    <3> QED
      BY <3>1, <3>2, Zenon
  <2>7. m = n
    BY <1>2, <1>3, <2>4, <2>5, <2>6, SameLength
  <2>8. \A k \in 1 .. n : \E i \in DOMAIN raw :
          /\ raw[i].number = k
          /\ raw[i].wire = expectedWire(rule[k])
          /\ validValue(rule[k], raw[i].value)
    <3> SUFFICES ASSUME NEW k \in 1 .. n
                 PROVE  \E i \in DOMAIN raw :
                          /\ raw[i].number = k
                          /\ raw[i].wire = expectedWire(rule[k])
                          /\ validValue(rule[k], raw[i].value)
      OBVIOUS
    <3>1. PICK i \in 1 .. m : raw[i].number = k
      BY <1>4, <2>1, Zenon
    <3>2. i \in DOMAIN raw /\ Right(schema, raw[i])
      BY <1>3, <2>2, Zenon
    <3> QED
      BY <1>1, <3>1, <3>2, Zenon DEF Right
  <2> QED
    BY <1>1, <1>2, <2>7, <2>8, Zenon DEF WellFormed
<1>6. ASSUME WellFormed(raw, schema) PROVE Decodes(raw, schema)
  <2>1. /\ m = n
        /\ \A k \in 1 .. n : \E i \in 1 .. n :
             raw[i].number = k /\ Right(schema, raw[i])
    <3>1. /\ m = n
          /\ \A k \in DOMAIN rule : \E i \in DOMAIN raw :
               /\ raw[i].number = k
               /\ raw[i].wire = expectedWire(rule[k])
               /\ validValue(rule[k], raw[i].value)
      BY <1>1, <1>6, Zenon DEF WellFormed
    <3>2. DOMAIN raw = 1 .. n
      BY <1>3, <3>1, Zenon
    <3> SUFFICES ASSUME NEW k \in 1 .. n
                 PROVE  \E i \in 1 .. n : raw[i].number = k /\ Right(schema, raw[i])
      BY <3>1, Zenon
    <3>3. PICK i \in 1 .. n : /\ raw[i].number = k
                             /\ raw[i].wire = expectedWire(rule[k])
                             /\ validValue(rule[k], raw[i].value)
      BY <1>2, <3>1, <3>2, Zenon
    <3> QED
      BY <1>1, <1>2, <3>3, Zenon DEF Right
  <2>2. PICK g : g = [k \in 1 .. n |-> CHOOSE i \in 1 .. n :
                                         raw[i].number = k /\ Right(schema, raw[i])]
    OBVIOUS
  <2>3. \A k \in 1 .. n : /\ g[k] \in 1 .. n
                          /\ raw[g[k]].number = k /\ Right(schema, raw[g[k]])
    BY <2>1, <2>2, Zenon
  <2>4. g \in [1 .. n -> 1 .. n]
    BY <2>2, <2>3, Zenon
  <2>5. \A j, k \in 1 .. n : j # k => g[j] # g[k]
    BY <2>3, Zenon
  <2>6. \A i \in 1 .. n : \E k \in 1 .. n : g[k] = i
    BY <1>2, <2>4, <2>5, NoneLeft
  <2>7. \A i \in 1 .. n : /\ Right(schema, raw[i])
                          /\ raw[i].number \in 1 .. n /\ g[raw[i].number] = i
    <3> SUFFICES ASSUME NEW i \in 1 .. n
                 PROVE  /\ Right(schema, raw[i])
                        /\ raw[i].number \in 1 .. n /\ g[raw[i].number] = i
      OBVIOUS
    <3>1. PICK k \in 1 .. n : g[k] = i
      BY <2>6, Zenon
    <3>2. raw[i].number = k /\ Right(schema, raw[i])
      BY <2>3, <3>1, Zenon
    <3> QED
      BY <3>1, <3>2, Zenon
  <2>8. ASSUME NEW i \in DOMAIN raw
        PROVE  Right(schema, raw[i]) /\ raw[i].number \notin seen(raw, i)
    <3>1. i \in 1 .. n /\ \A j \in 1 .. i - 1 : j \in 1 .. n /\ j # i
      BY <1>2, <1>3, <2>1
    <3> QED
      BY <2>7, <3>1, Zenon DEF seen
  <2>9. seen(raw, m + 1) = 1 .. n
    <3>1. \A k \in 1 .. n : k \in seen(raw, m + 1)
      BY <1>4, <2>1, Zenon
    <3>2. \A k \in seen(raw, m + 1) : k \in 1 .. n
      BY <1>4, <2>1, <2>7, Zenon
    <3> QED
      BY <3>1, <3>2, Zenon
  <2>10. ~(Size(raw) > nixCacheMaximum[schema])
    BY <1>1, <1>2, <2>8, <2>9, ResponseFits, Zenon
  <2>11. \A i \in DOMAIN raw : Taken(schema, raw, i)
    BY <2>8, RightIsTaken, Zenon
  <2> QED
    BY <1>1, <1>2, <2>9, <2>10, <2>11, Accepted, Zenon
<1> QED
  BY <1>1, <1>5, <1>6, Zenon

-----------------------------------------------------------------------------
\* The codec accepts every request it is given.

\* A message with the fields of its schema in the order of their numbers is
\* accepted if their longest encodings fit.
LEMMA InOrder ==
  ASSUME NEW S, NEW raw \in Seq(S), NEW schema, NEW w \in [1 .. 6 -> Nat],
         NEW total \in Int, NEW max \in Int,
         DOMAIN nixCacheFieldRule[schema] = 1 .. Len(raw), Len(raw) <= 6,
         \A i \in DOMAIN raw :
           /\ raw[i].number = i /\ Right(schema, raw[i])
           /\ FieldSize(raw[i]) \in Int /\ FieldSize(raw[i]) <= w[i],
         total = Weights(w, 1 .. Len(raw)), max = nixCacheMaximum[schema], total <= max
  PROVE  Decodes(raw, schema)
<1>1. Len(raw) \in Nat /\ DOMAIN raw = 1 .. Len(raw)
  OBVIOUS
<1>2. \A i \in DOMAIN raw : i \in 1 .. 6 /\ i \notin 1 .. i - 1
  BY ONLY <1>1, Len(raw) <= 6
<1>3. \A i \in DOMAIN raw : raw[i].number \notin seen(raw, i)
  <2> SUFFICES ASSUME NEW i \in DOMAIN raw, NEW j \in 1 .. i - 1
               PROVE  raw[i].number # raw[j].number
    BY Zenon DEF seen
  <2>1. j \in DOMAIN raw /\ j # i
    BY ONLY <1>1, i \in DOMAIN raw, j \in 1 .. i - 1
  <2> QED
    BY <2>1, Zenon
<1>4. seen(raw, Len(raw) + 1) = 1 .. Len(raw)
  <2>1. (Len(raw) + 1) - 1 = Len(raw)
    BY <1>1
  <2>2. seen(raw, Len(raw) + 1) = {raw[j].number : j \in 1 .. Len(raw)}
    BY <2>1, Zenon DEF seen
  <2>3. \A j \in 1 .. Len(raw) : raw[j].number = j
    BY <1>1, Zenon
  <2> QED
    BY ONLY <2>2, <2>3
<1>5. \A i \in DOMAIN raw :
        /\ raw[i].number \in 1 .. 6 /\ raw[i].number \notin seen(raw, i)
        /\ FieldSize(raw[i]) \in Int /\ FieldSize(raw[i]) <= w[raw[i].number]
  BY <1>2, <1>3, Zenon
<1>6. PICK s : s = Size(raw)
  OBVIOUS
<1>7. s \in Int /\ s <= total
  <2>1. Size(raw) \in Int /\ Size(raw) <= Weights(w, seen(raw, Len(raw) + 1))
    BY <1>5, SizeBound
  <2> QED
    BY <1>4, <1>6, <2>1, Zenon
<1>8. ~(s > max)
  BY ONLY <1>7, total \in Int, max \in Int, total <= max
<1>9. \A i \in DOMAIN raw : Taken(schema, raw, i)
  BY <1>3, RightIsTaken, Zenon
<1> QED
  BY <1>4, <1>6, <1>8, <1>9, Accepted, Zenon

\* What validateNixCacheRequest checks.
LEMMA ValidRequest ==
  ASSUME NEW args, validateNixCacheRequest(args) = ""
  PROVE  /\ args.keyID.form # "control" /\ args.keyID.len \in 1 .. 256
         /\ args.batchID.form # "zero" /\ args.requestID.form # "zero"
         /\ args.method = "sign" => args.print.len \in 1 .. nixCacheFingerprintMax
  BY Zenon DEF validateNixCacheRequest

\* The limits on requests; that to sign leaves 313 bytes besides the fingerprint.
LEMMA FingerprintLimit ==
  /\ nixCacheFingerprintMax \in Nat /\ nixCacheFingerprintMax > 16383
  /\ nixCacheMaximum["signRequest"] = nixCacheFingerprintMax + 313
  /\ nixCacheMaximum["describeRequest"] = 295 /\ nixCacheMaximum["enrollRequest"] = 295
  BY SMT DEF nixCacheFingerprintMax, nixCacheMaximum

\* The longest encoding of a value of up to 256 or up to nixCacheFingerprintMax bytes.
LEMMA BytesField ==
  ASSUME NEW n, NEW v
  PROVE  /\ Bytes(n, v).number = n /\ Bytes(n, v).wire = "bytes" /\ Bytes(n, v).value = v
         /\ v.len \in 1 .. 256 =>
              FieldSize(Bytes(n, v)) \in Int /\ FieldSize(Bytes(n, v)) <= 259
         /\ v.len = 16 => FieldSize(Bytes(n, v)) = 18
         /\ v.len = 12 => FieldSize(Bytes(n, v)) = 14
         /\ v.len \in 1 .. nixCacheFingerprintMax =>
              FieldSize(Bytes(n, v)) \in Int /\ FieldSize(Bytes(n, v)) <= nixCacheFingerprintMax + 4
<1>1. PICK l, F : l = v.len /\ F = nixCacheFingerprintMax
  OBVIOUS
<1>2. FieldSize(Bytes(n, v)) = 1 + LengthSize(l) + l
  BY <1>1 DEF Bytes, FieldSize
<1> QED
  BY <1>1, <1>2, FingerprintLimit, SMT DEF Bytes, LengthSize

LEMMA RightBytes ==
  ASSUME NEW schema, NEW n \in DOMAIN nixCacheFieldRule[schema], NEW v,
         expectedWire(nixCacheFieldRule[schema][n]) = "bytes",
         validValue(nixCacheFieldRule[schema][n], v)
  PROVE  Right(schema, Bytes(n, v))
<1>1. Bytes(n, v).number = n /\ Bytes(n, v).wire = "bytes" /\ Bytes(n, v).value = v
  BY DEF Bytes
<1> QED
  BY <1>1, Zenon DEF Right

LEMMA RequestDecodes ==
  ASSUME NEW args, args.method \in Methods, args.batchID.len = 16, args.requestID.len = 16,
         validateNixCacheRequest(args) = ""
  PROVE  Decodes(request(args), requestOf[args.method])
<1>1. PICK schema, rule, k, p, b, r, method :
        /\ schema = requestOf[args.method] /\ rule = nixCacheFieldRule[schema]
        /\ k = args.keyID /\ p = args.print /\ b = args.batchID /\ r = args.requestID
        /\ method = args.method
  OBVIOUS
<1>2. /\ k.form # "control" /\ k.len \in 1 .. 256
      /\ b.form # "zero" /\ b.len = 16 /\ r.form # "zero" /\ r.len = 16
      /\ method = "sign" => p.len \in 1 .. nixCacheFingerprintMax
  BY <1>1, ValidRequest, Zenon
<1>3. CASE method # "sign"
  <2>1. PICK raw : raw = <<Bytes(1, k), Bytes(2, b), Bytes(3, r)>>
    OBVIOUS
  <2>2. request(args) = raw
    BY <1>1, <1>3, <2>1, Zenon DEF request
  <2>3. rule = <<"keyID", "identifier", "identifier">>
    BY ONLY args.method \in Methods, <1>1, <1>3 DEF requestOf, nixCacheFieldRule, Methods
  <2>4. PICK w : w = [i \in 1 .. 6 |-> IF i = 1 THEN 259 ELSE IF i \in {2, 3} THEN 18 ELSE 0]
    OBVIOUS
  <2>5. PICK S : S = {Bytes(1, k), Bytes(2, b), Bytes(3, r)}
    OBVIOUS
  <2>6. /\ raw \in Seq(S) /\ Len(raw) = 3 /\ DOMAIN raw = 1 .. 3
        /\ raw[1] = Bytes(1, k) /\ raw[2] = Bytes(2, b) /\ raw[3] = Bytes(3, r)
    BY ONLY <2>1, <2>5
  <2>7. DOMAIN rule = 1 .. 3 /\ rule[1] = "keyID" /\ rule[2] = "identifier"
        /\ rule[3] = "identifier"
    BY ONLY <2>3
  <2>8. \A i \in DOMAIN raw :
          /\ raw[i].number = i /\ Right(schema, raw[i])
          /\ FieldSize(raw[i]) \in Int /\ FieldSize(raw[i]) <= w[i]
    <3>1. raw[1].number = 1 /\ Right(schema, raw[1])
          /\ FieldSize(raw[1]) \in Int /\ FieldSize(raw[1]) <= 259
      <4>1. raw[1].number = 1 /\ Right(schema, raw[1])
        <5>1. 1 \in DOMAIN rule /\ expectedWire(rule[1]) = "bytes" /\ Bytes(1, k).number = 1
          BY ONLY <2>7 DEF expectedWire, Bytes
        <5>2. validValue(rule[1], k)
          BY <1>2, <2>7, KindRules, Zenon
        <5> QED
          BY <1>1, <2>6, <5>1, <5>2, RightBytes, Zenon
      <4>2. k.len \in 1 .. 256
        BY <1>2, Zenon
      <4>3. FieldSize(Bytes(1, k)) \in Int /\ FieldSize(Bytes(1, k)) <= 259
        BY ONLY <4>2, BytesField
      <4> QED
        BY ONLY <2>6, <4>1, <4>3
    <3>2. raw[2].number = 2 /\ Right(schema, raw[2]) /\ FieldSize(raw[2]) = 18
      BY ONLY <1>1, <1>2, <2>6, <2>7, BytesField, KindRules DEF Right, expectedWire
    <3>3. raw[3].number = 3 /\ Right(schema, raw[3]) /\ FieldSize(raw[3]) = 18
      BY ONLY <1>1, <1>2, <2>6, <2>7, BytesField, KindRules DEF Right, expectedWire
    <3>4. w[1] = 259 /\ w[2] = 18 /\ w[3] = 18
      BY ONLY <2>4
    <3> QED
      BY ONLY <2>6, <3>1, <3>2, <3>3, <3>4
  <2>9. PICK total : total = 295
    BY ONLY TRUE
  <2>10. w \in [1 .. 6 -> Nat] /\ Weights(w, 1 .. 3) = total
    BY ONLY <2>4, <2>9 DEF Weights, Weight
  <2>11. nixCacheMaximum[schema] = total
    BY ONLY args.method \in Methods, <1>1, <1>3, <2>9, FingerprintLimit
       DEF requestOf, Methods
  <2>12. 3 <= 6 /\ total \in Int /\ total <= total
    BY ONLY <2>9
  <2>13. DOMAIN nixCacheFieldRule[schema] = 1 .. Len(raw) /\ Len(raw) <= 6
         /\ total = Weights(w, 1 .. Len(raw))
    BY <1>1, <2>6, <2>7, <2>10, <2>12, Zenon
  <2>14. Decodes(raw, schema)
    BY <2>6, <2>8, <2>10, <2>11, <2>12, <2>13, InOrder, Zenon
  <2> QED
    BY <1>1, <2>2, <2>14, Zenon
<1>4. CASE method = "sign"
  <2> DEFINE pr == [len |-> 12, form |-> "PATH_INFO_V1", v |-> ""]
  <2>1. PICK q, raw : /\ q = pr
                      /\ raw = <<Bytes(1, k), Bytes(2, q), Bytes(3, p), Bytes(4, b),
                                 Bytes(5, r)>>
    OBVIOUS
  <2>2. request(args) = raw
    BY <1>1, <1>4, <2>1, Zenon DEF request
  <2>3. q.len = 12 /\ q.form = "PATH_INFO_V1"
    BY <2>1, Zenon
  <2> HIDE DEF pr
  <2>4. PICK F, total : F = nixCacheFingerprintMax /\ total = F + 313
    OBVIOUS
  <2>5. F \in Nat /\ total \in Int /\ total <= total
    BY ONLY <2>4, FingerprintLimit
  <2>6. PICK w : w = [i \in 1 .. 6 |-> IF i = 1 THEN 259 ELSE IF i = 2 THEN 14
                                       ELSE IF i = 3 THEN F + 4
                                       ELSE IF i \in {4, 5} THEN 18 ELSE 0]
    OBVIOUS
  <2>7. PICK S : S = {Bytes(1, k), Bytes(2, q), Bytes(3, p), Bytes(4, b), Bytes(5, r)}
    OBVIOUS
  <2>8. /\ raw \in Seq(S) /\ Len(raw) = 5 /\ DOMAIN raw = 1 .. 5
        /\ raw[1] = Bytes(1, k) /\ raw[2] = Bytes(2, q) /\ raw[3] = Bytes(3, p)
        /\ raw[4] = Bytes(4, b) /\ raw[5] = Bytes(5, r)
    BY ONLY <2>1, <2>7
  <2>9. rule = <<"keyID", "profile", "fingerprint", "identifier", "identifier">>
    BY ONLY <1>1, <1>4 DEF requestOf, nixCacheFieldRule, Methods
  <2>10. /\ DOMAIN rule = 1 .. 5 /\ rule[1] = "keyID" /\ rule[2] = "profile"
        /\ rule[3] = "fingerprint" /\ rule[4] = "identifier" /\ rule[5] = "identifier"
    BY ONLY <2>9
  <2>11. \A i \in DOMAIN raw :
          /\ raw[i].number = i /\ Right(schema, raw[i])
          /\ FieldSize(raw[i]) \in Int /\ FieldSize(raw[i]) <= w[i]
    <3>1. raw[1].number = 1 /\ Right(schema, raw[1])
          /\ FieldSize(raw[1]) \in Int /\ FieldSize(raw[1]) <= 259
      <4>1. raw[1].number = 1 /\ Right(schema, raw[1])
        <5>1. 1 \in DOMAIN rule /\ expectedWire(rule[1]) = "bytes" /\ Bytes(1, k).number = 1
          BY ONLY <2>10 DEF expectedWire, Bytes
        <5>2. validValue(rule[1], k)
          BY <1>2, <2>10, KindRules, Zenon
        <5> QED
          BY <1>1, <2>8, <5>1, <5>2, RightBytes, Zenon
      <4>2. k.len \in 1 .. 256
        BY <1>2, Zenon
      <4>3. FieldSize(Bytes(1, k)) \in Int /\ FieldSize(Bytes(1, k)) <= 259
        BY ONLY <4>2, BytesField
      <4> QED
        BY ONLY <2>8, <4>1, <4>3
    <3>2. raw[2].number = 2 /\ Right(schema, raw[2]) /\ FieldSize(raw[2]) = 14
      BY ONLY <1>1, <2>3, <2>8, <2>10, BytesField, KindRules DEF Right, expectedWire
    <3>3. raw[3].number = 3 /\ Right(schema, raw[3])
          /\ FieldSize(raw[3]) \in Int /\ FieldSize(raw[3]) <= F + 4
      <4>1. raw[3].number = 3 /\ Right(schema, raw[3])
        <5>1. 3 \in DOMAIN rule /\ expectedWire(rule[3]) = "bytes" /\ Bytes(3, p).number = 3
          BY ONLY <2>10 DEF expectedWire, Bytes
        <5>2. validValue(rule[3], p)
          BY <1>2, <1>4, <2>10, KindRules, Zenon
        <5> QED
          BY <1>1, <2>8, <5>1, <5>2, RightBytes, Zenon
      <4>2. p.len \in 1 .. nixCacheFingerprintMax
        BY <1>2, <1>4, Zenon
      <4>3. FieldSize(Bytes(3, p)) \in Int
            /\ FieldSize(Bytes(3, p)) <= nixCacheFingerprintMax + 4
        BY ONLY <4>2, BytesField
      <4> QED
        BY ONLY <2>4, <2>8, <4>1, <4>3
    <3>4. raw[4].number = 4 /\ Right(schema, raw[4]) /\ FieldSize(raw[4]) = 18
      BY ONLY <1>1, <1>2, <2>8, <2>10, BytesField, KindRules DEF Right, expectedWire
    <3>5. raw[5].number = 5 /\ Right(schema, raw[5]) /\ FieldSize(raw[5]) = 18
      BY ONLY <1>1, <1>2, <2>8, <2>10, BytesField, KindRules DEF Right, expectedWire
    <3>6. w[1] = 259 /\ w[2] = 14 /\ w[3] = F + 4 /\ w[4] = 18 /\ w[5] = 18
      BY ONLY <2>6, <2>5
    <3> QED
      BY ONLY <2>8, <3>1, <3>2, <3>3, <3>4, <3>5, <3>6
  <2>12. w \in [1 .. 6 -> Nat] /\ Weights(w, 1 .. 5) = total
    BY ONLY <2>6, <2>4, <2>5 DEF Weights, Weight
  <2>13. nixCacheMaximum[schema] = total
    <3>1. schema = "signRequest"
      BY ONLY <1>1, <1>4 DEF requestOf
    <3> QED
      BY ONLY <2>4, <3>1, FingerprintLimit
  <2>14. 5 <= 6 /\ total \in Int /\ total <= total
    BY ONLY <2>5
  <2>15. DOMAIN nixCacheFieldRule[schema] = 1 .. Len(raw) /\ Len(raw) <= 6
         /\ total = Weights(w, 1 .. Len(raw))
    BY <1>1, <2>8, <2>10, <2>12, <2>14, Zenon
  <2>16. Decodes(raw, schema)
    BY <2>8, <2>11, <2>12, <2>13, <2>14, <2>15, InOrder, Zenon
  <2> QED
    BY <1>1, <2>2, <2>16, Zenon
<1> QED
  BY <1>3, <1>4, Zenon

-----------------------------------------------------------------------------
\* The results of a call.

\* The last field of a response: the requestID.
LastField(args) == IF args.method = "describe" THEN 5 ELSE 6

\* What the fields of a response to a call with these arguments can be: a
\* bytes field that is not an odd value is as the broker composed it.
OfResponse(args, f) ==
  \/ f.wire \in {"varint", "malformed"}
  \/ f.wire = "bytes" /\ f.value \in OddValues
  \/ /\ f.wire = "bytes"
     /\ \/ f.number \in {1, 2} /\ f.value.v = args.keyID
        \/ /\ args.method = "sign" /\ f.number = 4
           /\ f.value.len = 64 /\ f.value.v = <<args.keyID, args.print>>
        \/ f.number = LastField(args) - 1 /\ f.value = args.batchID
        \/ f.number = LastField(args) /\ f.value = args.requestID

\* The odd values are valid in no field of a response.
OddInvalid ==
  \A v \in OddValues, kind \in {"keyName", "publicKey", "signature", "identifier"} :
    ~validValue(kind, v)

\* A result and an error exclude each other.
Exclusive(err, result) == err # "" <=> result = {}

\* r is what the call with arguments from asked for.
ResultFor(from, method, r) ==
  /\ r.key = <<from.keyID, from.keyID>>
  /\ method = "sign" => r.signature = <<from.keyID, from.print>>

\* Calls hold arguments, and those in flight or returned could be sent; a
\* call that returned has an error or a result.
CallsInv ==
  /\ call = [c \in Calls |-> call[c]]
  /\ \A c \in Calls :
       \/ call[c] = Idle
       \/ /\ call[c].state \in {"invalid", "waiting", "returned", "failed"}
          /\ call[c].args \in Arguments
          /\ call[c] = [args |-> call[c].args, state |-> call[c].state, err |-> call[c].err,
                        result |-> call[c].result]
          /\ call[c].state = "returned" => Exclusive(call[c].err, call[c].result)

\* Responses are composed for calls, of the fields OfResponse says.
ResponsesInv ==
  /\ response = [c \in Calls |-> response[c]]
  /\ \A d \in Calls : \A raw \in response[d] :
       /\ call[d].state # "idle"
       /\ \E S : raw \in Seq(S) /\ \A f \in S : OfResponse(call[d].args, f)

\* Every result was composed for a call with the same ids.
ResultsInv ==
  \A c \in Calls : call[c].state = "returned" =>
    \A r \in call[c].result : \E d \in Calls :
      /\ call[d].state # "idle"
      /\ call[d].args.batchID = call[c].args.batchID
      /\ call[d].args.requestID = call[c].args.requestID
      /\ ResultFor(call[d].args, call[c].args.method, r)

NixInv == CallsInv /\ ResponsesInv

\* A response that passes the codec and the comparison of the ids is one to a
\* call with the same ids, and its values are those of that call.
LEMMA OwnFields ==
  ASSUME OddInvalid, NEW args, args.method \in Methods, NEW from, from.method \in Methods,
         NEW S, NEW raw \in Seq(S), \A f \in S : OfResponse(from, f),
         Decodes(raw, responseOf[args.method]), validateNixCacheResponseEcho(raw, args)
  PROVE  /\ from.batchID = args.batchID /\ from.requestID = args.requestID
         /\ field(raw, 1).v = from.keyID /\ field(raw, 2).v = from.keyID
         /\ args.method = "sign" => field(raw, 4).v = <<from.keyID, from.print>>
<1>1. PICK rule, method : method = args.method
                          /\ rule = nixCacheFieldRule[responseOf[method]]
  OBVIOUS
<1>2. /\ method \in Methods
      /\ rule[1] = "keyName" /\ rule[2] = "publicKey"
      /\ method = "describe" => /\ DOMAIN rule = 1 .. 5 /\ Len(rule) = 5
                                /\ rule[4] = "identifier" /\ rule[5] = "identifier"
      /\ method # "describe" => /\ DOMAIN rule = 1 .. 6 /\ Len(rule) = 6
                                /\ rule[5] = "identifier" /\ rule[6] = "identifier"
      /\ method = "sign" => rule[4] = "signature"
  BY <1>1, ResponseRules DEF Methods
<1> DEFINE Kinds == {"keyName", "publicKey", "signature", "identifier"}
<1>3. ASSUME NEW n \in DOMAIN rule, rule[n] \in Kinds
      PROVE  \/ n \in {1, 2} /\ field(raw, n).v = from.keyID
             \/ /\ from.method = "sign" /\ n = 4
                /\ field(raw, n).len = 64 /\ field(raw, n).v = <<from.keyID, from.print>>
             \/ n = LastField(from) - 1 /\ field(raw, n) = from.batchID
             \/ n = LastField(from) /\ field(raw, n) = from.requestID
  <2>1. PICK i \in DOMAIN raw : /\ raw[i].number = n
                               /\ raw[i].wire = expectedWire(rule[n])
                               /\ field(raw, n) = raw[i].value
                               /\ validValue(rule[n], raw[i].value)
    BY <1>1, FieldOfAccepted, Zenon
  <2>2. raw[i] \in S
    BY ONLY raw \in Seq(S), i \in DOMAIN raw
  <2>3. PICK f : f = raw[i]
    OBVIOUS
  <2>4. OfResponse(from, f)
    BY <2>2, <2>3, Zenon
  <2>5. f.wire = "bytes"
    BY ONLY <1>3, <2>1, <2>3 DEF expectedWire
  <2>6. f.value \notin OddValues
    BY <1>3, <2>1, <2>3, Zenon DEF OddInvalid
  <2>7. /\ f.wire \notin {"varint", "malformed"}
        /\ f.number = n /\ f.value = field(raw, n)
    BY ONLY <2>1, <2>3, <2>5
  <2> QED
    BY <2>4, <2>5, <2>6, <2>7, Zenon DEF OfResponse
<1>4. \A n \in DOMAIN rule : validValue(rule[n], field(raw, n))
  <2> SUFFICES ASSUME NEW n \in DOMAIN rule PROVE validValue(rule[n], field(raw, n))
    OBVIOUS
  <2>1. PICK i \in DOMAIN raw : field(raw, n) = raw[i].value /\ validValue(rule[n], raw[i].value)
    BY <1>1, FieldOfAccepted
  <2> QED
    BY <2>1
<1>5. field(raw, Len(rule) - 1) = args.batchID /\ field(raw, Len(rule)) = args.requestID
  BY <1>1, Zenon DEF validateNixCacheResponseEcho
<1>6. LastField(from) = IF from.method = "describe" THEN 5 ELSE 6
  BY DEF LastField
<1> HIDE DEF Kinds
<1>7. field(raw, 1).v = from.keyID
  <2>1. 1 \in DOMAIN rule /\ rule[1] \in Kinds
    BY ONLY <1>2 DEF Kinds, Methods
  <2> QED
    BY ONLY <1>3, <1>6, <2>1
<1>8. field(raw, 2).v = from.keyID
  <2>1. 2 \in DOMAIN rule /\ rule[2] \in Kinds
    BY ONLY <1>2 DEF Kinds, Methods
  <2> QED
    BY ONLY <1>3, <1>6, <2>1
<1>9. CASE method = "describe"
  <2>1. /\ 4 \in DOMAIN rule /\ rule[4] \in Kinds /\ rule[4] = "identifier"
        /\ 5 \in DOMAIN rule /\ rule[5] \in Kinds /\ Len(rule) = 5
    BY ONLY <1>2, <1>9 DEF Kinds
  <2>2. field(raw, 4).len = 16
    BY ONLY <1>4, <2>1, KindRules
  <2>3. LastField(from) = 5 /\ field(raw, 4) = from.batchID
    BY ONLY <1>3, <1>6, <2>1, <2>2
  <2>4. field(raw, 5) = from.requestID
    BY ONLY <1>3, <2>1, <2>3
  <2>5. field(raw, 4) = args.batchID /\ field(raw, 5) = args.requestID
    BY ONLY <1>5, <2>1
  <2> QED
    BY ONLY <1>1, <1>7, <1>8, <1>9, <2>3, <2>4, <2>5
<1>10. CASE method # "describe"
  <2>1. /\ 5 \in DOMAIN rule /\ rule[5] \in Kinds
        /\ 6 \in DOMAIN rule /\ rule[6] \in Kinds /\ Len(rule) = 6
    BY ONLY <1>2, <1>10 DEF Kinds
  <2>2. LastField(from) = 6 /\ field(raw, 6) = from.requestID
    BY ONLY <1>3, <1>6, <2>1
  <2>3. field(raw, 5) = from.batchID
    BY ONLY <1>3, <2>1, <2>2
  <2>4. field(raw, 5) = args.batchID /\ field(raw, 6) = args.requestID
    BY ONLY <1>5, <2>1
  <2>5. ASSUME method = "sign" PROVE field(raw, 4).v = <<from.keyID, from.print>>
    <3>1. 4 \in DOMAIN rule /\ rule[4] \in Kinds
      BY ONLY <1>2, <2>5 DEF Kinds
    <3> QED
      BY ONLY <1>3, <2>2, <3>1
  <2> QED
    BY ONLY <1>1, <1>7, <1>8, <2>2, <2>3, <2>4, <2>5
<1> QED
  BY <1>9, <1>10, Zenon

\* A result is made of the fields of a response that passed every check.
LEMMA ResultOfFields ==
  ASSUME NEW S, NEW raw \in Seq(S), NEW args, args.method \in Methods,
         NEW r \in Outcome(args, raw).result
  PROVE  /\ Decodes(raw, responseOf[args.method])
         /\ validateNixCacheResponseEcho(raw, args)
         /\ r.key = <<field(raw, 1).v, field(raw, 2).v>>
         /\ args.method = "sign" => r.signature = field(raw, 4).v
<1> DEFINE k == nixCacheKey(raw)
           o == Outcome(args, raw)
<1>1. /\ Decodes(raw, responseOf[args.method]) /\ validateNixCacheResponseEcho(raw, args)
      /\ \/ args.method = "describe" /\ r = [key |-> k.key]
         \/ args.method = "enroll" /\ r = [key |-> k.key, disposition |-> field(raw, 4)]
         \/ args.method = "sign" /\ r = [key |-> k.key, signature |-> field(raw, 4).v]
  <2>1. \/ \E e : o = [err |-> e, result |-> {}]
        \/ /\ Decodes(raw, responseOf[args.method]) /\ validateNixCacheResponseEcho(raw, args)
           /\ \E e, x :
                /\ o = [err |-> e, result |-> {x}]
                /\ \/ args.method = "describe" /\ x = [key |-> k.key]
                   \/ args.method = "enroll" /\ x = [key |-> k.key, disposition |-> field(raw, 4)]
                   \/ args.method = "sign" /\ x = [key |-> k.key, signature |-> field(raw, 4).v]
    BY Zenon DEF Outcome, Decodes, Methods
  <2> HIDE DEF o, k
  <2>2. \A e, s : o = [err |-> e, result |-> s] => o.result = s
    BY ONLY TRUE
  <2>3. r \in o.result
    BY Zenon DEF o
  <2> QED
    BY <2>1, <2>2, <2>3, Zenon
<1>2. k.key = <<field(raw, 1).v, field(raw, 2).v>>
  <2>1. k = [err |-> "", key |-> <<field(raw, 1).v, field(raw, 2).v>>]
    BY <1>1, DecodedKey, Zenon
  <2>2. \A e, x, y : y = [err |-> e, key |-> x] => y.key = x
    BY ONLY TRUE
  <2> HIDE DEF k
  <2> QED
    BY <2>1, <2>2, Zenon
<1> HIDE DEF k
<1>3. r.key = k.key /\ (args.method = "sign" => r.signature = field(raw, 4).v)
  BY ONLY <1>1
<1> QED
  BY <1>1, <1>2, <1>3, Zenon

-----------------------------------------------------------------------------
\* The invariant.

\* Arguments of a call that is not idle, and its record.
LEMMA CallRecord ==
  ASSUME CallsInv, NEW c \in Calls, call[c].state # "idle"
  PROVE  /\ call[c].state \in {"invalid", "waiting", "returned", "failed"}
         /\ call[c].args \in Arguments /\ call[c].args.method \in Methods
         /\ call[c] = [args |-> call[c].args, state |-> call[c].state, err |-> call[c].err,
                       result |-> call[c].result]
         /\ call[c].state = "returned" => Exclusive(call[c].err, call[c].result)
<1>1. Idle.state = "idle"
  BY DEF Idle
<1>2. call[c] # Idle
  BY <1>1, Zenon
<1> QED
  BY <1>2, NixAssumption, Zenon DEF CallsInv

\* The deviations change no field that is there, and add at most one.
LEMMA DeviatedSeq ==
  ASSUME NEW S, NEW raw \in Seq(S), NEW x
  PROVE  /\ \A i \in DOMAIN raw :
              /\ RemoveAt(raw, i) \in Seq(S)
              /\ Append(raw, raw[i]) \in Seq(S)
              /\ i < Len(raw) => [raw EXCEPT ![i] = raw[i + 1], ![i + 1] = raw[i]] \in Seq(S)
              /\ [raw EXCEPT ![i] = x] \in Seq(S \cup {x})
         /\ Append(raw, x) \in Seq(S \cup {x})
<1>1. Append(raw, x) \in Seq(S \cup {x})
  <2>1. raw \in Seq(S \cup {x})
    OBVIOUS
  <2> QED
    BY <2>1
<1>2. ASSUME NEW i \in DOMAIN raw
      PROVE  /\ RemoveAt(raw, i) \in Seq(S)
             /\ Append(raw, raw[i]) \in Seq(S)
             /\ i < Len(raw) => [raw EXCEPT ![i] = raw[i + 1], ![i + 1] = raw[i]] \in Seq(S)
             /\ [raw EXCEPT ![i] = x] \in Seq(S \cup {x})
  <2>1. raw[i] \in S /\ i \in 1 .. Len(raw)
    OBVIOUS
  <2>2. RemoveAt(raw, i) \in Seq(S)
    <3>1. PICK a, b : a = SubSeq(raw, 1, i - 1) /\ b = SubSeq(raw, i + 1, Len(raw))
      OBVIOUS
    <3>2. a \in Seq(S) /\ b \in Seq(S)
      BY <2>1, <3>1
    <3>3. a \o b \in Seq(S)
      BY <3>2
    <3> QED
      BY <3>1, <3>3, Zenon DEF RemoveAt
  <2>3. Append(raw, raw[i]) \in Seq(S)
    BY <2>1
  <2>4. i < Len(raw) => [raw EXCEPT ![i] = raw[i + 1], ![i + 1] = raw[i]] \in Seq(S)
    BY <2>1
  <2>5. [raw EXCEPT ![i] = x] \in Seq(S \cup {x})
    BY <2>1
  <2> QED
    BY <2>2, <2>3, <2>4, <2>5
<1> QED
  BY <1>1, <1>2

\* The response the broker composes is of the fields OfResponse says.
LEMMA ComposedFields ==
  ASSUME CallsInv, ResponsesInv, NEW c \in Calls, NEW disposition \in {1, 2}, Process(c, disposition)
  PROVE  \A raw \in response'[c] :
           \E S : raw \in Seq(S) /\ \A f \in S : OfResponse(call[c].args, f)
<1>1. PICK args, name, public, signed :
        /\ args = call[c].args
        /\ name = [len |-> KeyName[args.keyID].len, form |-> KeyName[args.keyID].form,
                   v |-> args.keyID]
        /\ public = [len |-> 32, form |-> "binary", v |-> args.keyID]
        /\ signed = [len |-> 64, form |-> "binary", v |-> <<args.keyID, args.print>>]
  OBVIOUS
<1>2. name.v = args.keyID /\ public.v = args.keyID
      /\ signed.len = 64 /\ signed.v = <<args.keyID, args.print>>
  BY ONLY <1>1
<1>3. args.method \in Methods
  <2>1. call[c].state = "waiting"
    BY Zenon DEF Process
  <2>2. call[c].state # "idle"
    BY ONLY <2>1
  <2> QED
    BY <1>1, <2>2, CallRecord, Zenon
<1>4. PICK n, b, r, a, e, S :
        /\ n = LastField(args)
        /\ b = Bytes(n - 1, args.batchID) /\ r = Bytes(n, args.requestID)
        /\ a = <<Bytes(1, name), Bytes(2, public), Varint(3, 1)>>
        /\ e = <<b, r>>
        /\ S = {Bytes(1, name), Bytes(2, public), Varint(3, 1), b, r}
                 \cup (IF args.method = "enroll" THEN {Varint(4, disposition)} ELSE {})
                 \cup (IF args.method = "sign" THEN {Bytes(4, signed)} ELSE {})
  OBVIOUS
<1>5. \A f \in S : OfResponse(args, f)
  BY ONLY <1>2, <1>4 DEF OfResponse, Bytes, Varint
<1>6. a \in Seq(S) /\ e \in Seq(S)
  BY ONLY <1>4
<1>7. response'[c] = {CASE args.method = "describe" -> a \o e
                        [] args.method = "enroll" -> a \o <<Varint(4, disposition)>> \o e
                        [] args.method = "sign" -> a \o <<Bytes(4, signed)>> \o e}
  <2>1. /\ args.method = "describe" => n = 5 /\ n - 1 = 4
        /\ args.method # "describe" => n = 6 /\ n - 1 = 5
    BY ONLY <1>4 DEF LastField
  <2>2. 4 + 1 = 5 /\ 5 + 1 = 6
    BY ONLY TRUE
  <2>3. c \in DOMAIN response
    BY Zenon DEF ResponsesInv
  <2> DEFINE Ids(k) == <<Bytes(k, args.batchID), Bytes(k + 1, args.requestID)>>
             M == CASE args.method = "describe" -> a \o Ids(4)
                    [] args.method = "enroll" -> a \o <<Varint(4, disposition)>> \o Ids(5)
                    [] args.method = "sign" -> a \o <<Bytes(4, signed)>> \o Ids(5)
  <2>4. response'[c] = {M}
    <3>1. response' = [response EXCEPT ![c] = {M}]
      BY <1>1, <1>4, Zenon DEF Process
    <3> HIDE DEF M
    <3> QED
      BY <2>3, <3>1, Zenon
  <2>5. /\ args.method = "describe" => Ids(4) = e
        /\ args.method # "describe" => Ids(5) = e
    BY ONLY <1>4, <2>1, <2>2
  <2> HIDE DEF Ids
  <2> QED
    BY ONLY <1>3, <2>4, <2>5 DEF Methods
<1>8. CASE args.method = "describe"
  <2>1. a \o e \in Seq(S)
    BY ONLY <1>6
  <2>2. response'[c] = {a \o e}
    BY ONLY <1>7, <1>8
  <2> QED
    BY <1>1, <1>5, <2>1, <2>2, Zenon
<1>9. CASE args.method = "enroll"
  <2>1. <<Varint(4, disposition)>> \in Seq(S)
    BY ONLY <1>4, <1>9
  <2>2. a \o <<Varint(4, disposition)>> \o e \in Seq(S)
    BY ONLY <1>6, <2>1
  <2>3. response'[c] = {a \o <<Varint(4, disposition)>> \o e}
    BY ONLY <1>7, <1>9
  <2> QED
    BY <1>1, <1>5, <2>2, <2>3, Zenon
<1>10. CASE args.method = "sign"
  <2>1. <<Bytes(4, signed)>> \in Seq(S)
    BY ONLY <1>4, <1>10
  <2>2. a \o <<Bytes(4, signed)>> \o e \in Seq(S)
    BY ONLY <1>6, <2>1
  <2>3. response'[c] = {a \o <<Bytes(4, signed)>> \o e}
    BY ONLY <1>7, <1>10
  <2> QED
    BY <1>1, <1>5, <2>2, <2>3, Zenon
<1> QED
  BY <1>3, <1>8, <1>9, <1>10, Zenon DEF Methods

\* No step changes the arguments of a call that has started, nor makes it idle.
LEMMA ArgsStay ==
  ASSUME CallsInv, [Next]_vars, NEW d \in Calls, call[d].state # "idle"
  PROVE  call'[d].state # "idle" /\ call'[d].args = call[d].args
<1>1. /\ call = [c \in Calls |-> call[c]]
      /\ call[d] = [args |-> call[d].args, state |-> call[d].state, err |-> call[d].err,
                    result |-> call[d].result]
  BY CallRecord, Zenon DEF CallsInv
<1>2. ASSUME NEW c \in Calls, NEW args \in Arguments, Start(c, args)
      PROVE  call'[d].state # "idle" /\ call'[d].args = call[d].args
  <2>1. PICK x : call' = [call EXCEPT ![c] = x] /\ call[c].state = "idle"
    BY <1>2, Zenon DEF Start
  <2>2. call'[d] = call[d]
    BY <1>1, <2>1
  <2> QED
    BY <2>2, Zenon
<1>3. ASSUME NEW c \in Calls, NEW s, NEW e, NEW r,
             call' = [call EXCEPT ![c] = [@ EXCEPT !.state = s, !.err = e, !.result = r]],
             s # "idle"
      PROVE  call'[d].state # "idle" /\ call'[d].args = call[d].args
  <2>1. CASE c = d
    <3>1. call'[d] = [call[d] EXCEPT !.state = s, !.err = e, !.result = r]
      BY <1>1, <1>3, <2>1
    <3>2. PICK x, y : x = call[d] /\ y = call'[d]
      OBVIOUS
    <3>3. y.state = s /\ y.args = x.args
      BY ONLY <1>1, <3>1, <3>2
    <3> QED
      BY <1>3, <3>2, <3>3, Zenon
  <2>2. CASE c # d
    <3>1. call'[d] = call[d]
      BY <1>1, <1>3, <2>2
    <3> QED
      BY <3>1, Zenon
  <2> QED
    BY <2>1, <2>2
<1>4. ASSUME NEW c \in Calls, RPCFails(c)
      PROVE  call'[d].state # "idle" /\ call'[d].args = call[d].args
  <2>1. CASE c = d
    <3>1. call'[d] = [call[d] EXCEPT !.state = "failed", !.err = "status"]
      BY <1>1, <1>4, <2>1 DEF RPCFails
    <3>2. PICK x, y : x = call[d] /\ y = call'[d]
      OBVIOUS
    <3>3. y.state = "failed" /\ y.args = x.args
      BY ONLY <1>1, <3>1, <3>2
    <3>4. "failed" # "idle"
      OBVIOUS
    <3> QED
      BY <3>2, <3>3, <3>4, Zenon
  <2>2. CASE c # d
    <3>1. call'[d] = call[d]
      BY <1>1, <1>4, <2>2 DEF RPCFails
    <3> QED
      BY <3>1, Zenon
  <2> QED
    BY <2>1, <2>2
<1>5. ASSUME NEW c \in Calls, NEW f \in Calls, Receive(c, f)
      PROVE  call'[d].state # "idle" /\ call'[d].args = call[d].args
  <2>1. PICK e, r : call' = [call EXCEPT ![c] = [@ EXCEPT !.state = "returned",
                                                  !.err = e, !.result = r]]
    BY <1>5, Zenon DEF Receive
  <2>2. "returned" # "idle"
    OBVIOUS
  <2> QED
    BY <1>3, <2>1, <2>2, Zenon
<1>6. CASE UNCHANGED call
  BY <1>6, Zenon
<1>7. ASSUME NEW c \in Calls, NEW disposition \in {1, 2}, Process(c, disposition)
      PROVE  UNCHANGED call
  BY <1>7, Zenon DEF Process
<1>8. ASSUME NEW c \in Calls, Deviate(c) PROVE UNCHANGED call
  BY <1>8, Zenon DEF Deviate
<1> QED
  BY <1>2, <1>4, <1>5, <1>6, <1>7, <1>8, Zenon DEF Next, vars

\* The record of a call after each step.
LEMMA CallsStep ==
  ASSUME CallsInv, ResponsesInv, [Next]_vars
  PROVE  CallsInv'
<1> DEFINE Good(x) == \/ x = Idle
                      \/ /\ x.state \in {"invalid", "waiting", "returned", "failed"}
                         /\ x.args \in Arguments
                         /\ x = [args |-> x.args, state |-> x.state, err |-> x.err,
                                 result |-> x.result]
                         /\ x.state = "returned" => Exclusive(x.err, x.result)
<1>1. call = [c \in Calls |-> call[c]] /\ \A c \in Calls : Good(call[c])
  BY Zenon DEF CallsInv
<1>2. ASSUME NEW a \in Arguments, NEW s \in {"invalid", "waiting", "returned", "failed"},
             NEW e, NEW r, s = "returned" => Exclusive(e, r)
      PROVE  Good([args |-> a, state |-> s, err |-> e, result |-> r])
  <2>1. PICK x : x = [args |-> a, state |-> s, err |-> e, result |-> r]
    OBVIOUS
  <2>2. x.args = a /\ x.state = s /\ x.err = e /\ x.result = r
    BY ONLY <2>1
  <2>3. x = [args |-> x.args, state |-> x.state, err |-> x.err, result |-> x.result]
    BY ONLY <2>1
  <2>4. Good(x)
    BY <1>2, <2>2, <2>3, Zenon
  <2> HIDE DEF Good
  <2> QED
    BY <2>1, <2>4, Zenon
<1> HIDE DEF Good
<1>3. ASSUME NEW c \in Calls, NEW x, Good(x), call' = [call EXCEPT ![c] = x]
      PROVE  call' = [d \in Calls |-> call'[d]] /\ \A d \in Calls : Good(call'[d])
  <2>1. PICK C : C = call'
    OBVIOUS
  <2>2. C = [d \in Calls |-> IF d = c THEN x ELSE call[d]]
    BY ONLY <1>1, <1>3, <2>1
  <2>3. C = [d \in Calls |-> C[d]]
    BY ONLY <2>2
  <2>4. \A d \in Calls : C[d] = x \/ C[d] = call[d]
    BY ONLY <2>2
  <2>5. \A d \in Calls : Good(C[d])
    BY <1>1, <1>3, <2>4, Zenon
  <2> QED
    BY <2>1, <2>3, <2>5, Zenon
<1> SUFFICES call' = [d \in Calls |-> call'[d]] /\ \A d \in Calls : Good(call'[d])
  BY Zenon DEF CallsInv, Good
<1>4. ASSUME NEW c \in Calls, NEW args \in Arguments, Start(c, args)
      PROVE  call' = [d \in Calls |-> call'[d]] /\ \A d \in Calls : Good(call'[d])
  <2>1. validateNixCacheRequest(args) = ""
          => preflightNixCacheProto(request(args), requestOf[args.method]) = ""
    BY NixAssumption, RequestDecodes, Zenon DEF Decodes
  <2>2. \E s \in {"invalid", "waiting", "returned", "failed"} : \E e :
          /\ s # "returned"
          /\ call' = [call EXCEPT ![c] =
                       [args |-> args, state |-> s, err |-> e, result |-> {}]]
    <3>1. "invalid" # "returned" /\ "waiting" # "returned"
      BY ONLY TRUE
    <3> QED
      BY <1>4, <2>1, <3>1, Zenon DEF Start
  <2>3. PICK s \in {"invalid", "waiting", "returned", "failed"} : \E e :
          /\ s # "returned"
          /\ call' = [call EXCEPT ![c] =
                       [args |-> args, state |-> s, err |-> e, result |-> {}]]
    BY <2>2, Zenon
  <2>4. PICK e : call' = [call EXCEPT ![c] =
                           [args |-> args, state |-> s, err |-> e, result |-> {}]]
    BY <2>3, Zenon
  <2>5. Good([args |-> args, state |-> s, err |-> e, result |-> {}])
    BY <1>2, <2>3, Zenon
  <2> QED
    BY <1>3, <2>4, <2>5, Zenon
<1>5. ASSUME NEW c \in Calls, call[c].state = "waiting"
      PROVE  /\ call[c].args \in Arguments /\ call[c].args.method \in Methods
             /\ \E t, u : call[c] = [args |-> call[c].args, state |-> t, err |-> u,
                                     result |-> call[c].result]
  <2>1. call[c].state # "idle"
    BY <1>5
  <2> QED
    BY <2>1, CallRecord, Zenon
<1>6. ASSUME NEW c \in Calls, RPCFails(c)
      PROVE  call' = [d \in Calls |-> call'[d]] /\ \A d \in Calls : Good(call'[d])
  <2>1. PICK y : /\ call[c].state = "waiting"
                 /\ y = [call[c] EXCEPT !.state = "failed", !.err = "status"]
                 /\ call' = [call EXCEPT ![c] = y]
    BY <1>6, Zenon DEF RPCFails
  <2>2. y = [args |-> call[c].args, state |-> "failed", err |-> "status",
             result |-> call[c].result]
    <3>1. PICK x, a, r : x = call[c] /\ a = call[c].args /\ r = call[c].result
      OBVIOUS
    <3>2. PICK t, u : x = [args |-> a, state |-> t, err |-> u, result |-> r]
      BY <1>5, <2>1, <3>1, Zenon
    <3>3. y = [x EXCEPT !.state = "failed", !.err = "status"]
      BY <2>1, <3>1
    <3>4. y = [args |-> a, state |-> "failed", err |-> "status", result |-> r]
      BY ONLY <3>2, <3>3
    <3> QED
      BY <3>1, <3>4, Zenon
  <2>3. "failed" # "returned" /\ call[c].args \in Arguments
    BY <1>5, <2>1
  <2>4. Good(y)
    BY <1>2, <2>2, <2>3, Zenon
  <2> QED
    BY <1>3, <2>1, <2>4, Zenon
<1>7. ASSUME NEW c \in Calls, NEW f \in Calls, Receive(c, f)
      PROVE  call' = [d \in Calls |-> call'[d]] /\ \A d \in Calls : Good(call'[d])
  <2>1. call[c].state = "waiting"
    BY <1>7, Zenon DEF Receive
  <2>2. PICK raw, o, y :
          /\ raw \in response[f]
          /\ o = Outcome(call[c].args, raw)
          /\ y = [call[c] EXCEPT !.state = "returned", !.err = o.err, !.result = o.result]
          /\ call' = [call EXCEPT ![c] = y]
    BY <1>7, Zenon DEF Receive
  <2>3. y = [args |-> call[c].args, state |-> "returned", err |-> o.err,
             result |-> o.result]
    <3>1. PICK x, a, v, e, r : /\ x = call[c] /\ a = call[c].args /\ v = call[c].result
                               /\ e = o.err /\ r = o.result
      OBVIOUS
    <3>2. PICK t, u : x = [args |-> a, state |-> t, err |-> u, result |-> v]
      BY <1>5, <2>1, <3>1, Zenon
    <3>3. y = [x EXCEPT !.state = "returned", !.err = e, !.result = r]
      BY <2>2, <3>1
    <3>4. y = [args |-> a, state |-> "returned", err |-> e, result |-> r]
      BY ONLY <3>2, <3>3
    <3> QED
      BY <3>1, <3>4, Zenon
  <2>4. Exclusive(o.err, o.result)
    <3>1. PICK S : raw \in Seq(S)
      BY <2>2, Zenon DEF ResponsesInv
    <3> QED
      BY <1>5, <2>1, <2>2, <3>1, ErrorOrResult, Zenon DEF Exclusive
  <2>5. Good(y)
    <3>1. call[c].args \in Arguments
      BY <1>5, <2>1
    <3> QED
      BY <1>2, <2>3, <2>4, <3>1, Zenon
  <2> QED
    BY <1>3, <2>2, <2>5, Zenon
<1>8. CASE UNCHANGED call
  BY <1>1, <1>8, Zenon
<1>9. ASSUME NEW c \in Calls, NEW disposition \in {1, 2}, Process(c, disposition)
      PROVE  UNCHANGED call
  BY <1>9, Zenon DEF Process
<1>10. ASSUME NEW c \in Calls, Deviate(c) PROVE UNCHANGED call
  BY <1>10, Zenon DEF Deviate
<1> QED
  BY <1>4, <1>6, <1>7, <1>8, <1>9, <1>10, Zenon DEF Next, vars

\* A deviation leaves a response of fields that OfResponse allows.
LEMMA DeviatedFields ==
  ASSUME ResponsesInv, NEW c \in Calls, Deviate(c)
  PROVE  /\ call[c].state # "idle"
         /\ \E new : /\ response' = [response EXCEPT ![c] = {new}]
                     /\ \E S : new \in Seq(S) /\ \A f \in S : OfResponse(call[c].args, f)
<1>1. PICK raw \in response[c] :
        LET Becomes(new) == response' = [response EXCEPT ![c] = {new}]
        IN \/ \E i \in DOMAIN raw :
                \/ Becomes(RemoveAt(raw, i))
                \/ Becomes(Append(raw, raw[i]))
                \/ i < Len(raw) /\ Becomes([raw EXCEPT ![i] = raw[i + 1], ![i + 1] = raw[i]])
                \/ \E v \in OddValues : Becomes([raw EXCEPT ![i] = Bytes(raw[i].number, v)])
                \/ Becomes([raw EXCEPT ![i] = Varint(raw[i].number, 3)])
           \/ Becomes(Append(raw, Varint(Len(raw) + 1, 1)))
           \/ Becomes(Append(raw, [number |-> 0, wire |-> "malformed", value |-> 0]))
  BY Zenon DEF Deviate
<1>2. PICK S : raw \in Seq(S) /\ \A f \in S : OfResponse(call[c].args, f)
  BY Zenon DEF ResponsesInv
<1>3. call[c].state # "idle"
  BY Zenon DEF ResponsesInv
<1>4. PICK args : args = call[c].args
  OBVIOUS
<1>5. /\ \A n, v : OfResponse(args, Varint(n, v))
      /\ \A n : \A v \in OddValues : OfResponse(args, Bytes(n, v))
      /\ OfResponse(args, [number |-> 0, wire |-> "malformed", value |-> 0])
  BY ONLY TRUE DEF OfResponse, Varint, Bytes
<1>6. \A x : OfResponse(args, x) => \A f \in S \cup {x} : OfResponse(args, f)
  BY <1>2, <1>4, Zenon
<1> DEFINE Composed(new) == \E T : new \in Seq(T) /\ \A f \in T : OfResponse(args, f)
<1>7. \A new : new \in Seq(S) => Composed(new)
  BY <1>2, <1>4, Zenon
<1>8. \A x, new : OfResponse(args, x) /\ new \in Seq(S \cup {x}) => Composed(new)
  BY <1>6, Zenon
<1> HIDE DEF Composed
<1>9. /\ \A i \in DOMAIN raw :
           /\ Composed(RemoveAt(raw, i))
           /\ Composed(Append(raw, raw[i]))
           /\ i < Len(raw) => Composed([raw EXCEPT ![i] = raw[i + 1], ![i + 1] = raw[i]])
           /\ \A v \in OddValues : Composed([raw EXCEPT ![i] = Bytes(raw[i].number, v)])
           /\ Composed([raw EXCEPT ![i] = Varint(raw[i].number, 3)])
      /\ Composed(Append(raw, Varint(Len(raw) + 1, 1)))
      /\ Composed(Append(raw, [number |-> 0, wire |-> "malformed", value |-> 0]))
  BY <1>2, <1>5, <1>7, <1>8, DeviatedSeq, Zenon
<1>10. \E new : response' = [response EXCEPT ![c] = {new}] /\ Composed(new)
  BY <1>1, <1>9, Zenon
<1> QED
  BY <1>3, <1>4, <1>10, Zenon DEF Composed

LEMMA ResponsesStep ==
  ASSUME CallsInv, ResponsesInv, [Next]_vars
  PROVE  ResponsesInv'
<1> DEFINE Composed(args, new) == \E S : new \in Seq(S) /\ \A f \in S : OfResponse(args, f)
<1>1. /\ response = [c \in Calls |-> response[c]]
      /\ \A d \in Calls : \A raw \in response[d] :
           call[d].state # "idle" /\ Composed(call[d].args, raw)
  BY Zenon DEF ResponsesInv
<1>2. ASSUME NEW d \in Calls, call[d].state # "idle"
      PROVE  call'[d].state # "idle" /\ call'[d].args = call[d].args
  BY <1>2, ArgsStay, Zenon
<1> SUFFICES /\ response' = [c \in Calls |-> response'[c]]
             /\ \A d \in Calls : \A raw \in response'[d] :
                  call[d].state # "idle" /\ Composed(call[d].args, raw)
  <2> HIDE DEF Composed
  <2>1. \A d \in Calls : \A raw \in response'[d] :
          call'[d].state # "idle" /\ Composed(call'[d].args, raw)
    BY <1>2, Zenon
  <2>2. response' = [c \in Calls |-> response'[c]]
    OBVIOUS
  <2> QED
    BY <2>1, <2>2, Zenon DEF ResponsesInv, Composed
<1>3. ASSUME NEW c \in Calls, NEW new, response' = [response EXCEPT ![c] = {new}],
             call[c].state # "idle", Composed(call[c].args, new)
      PROVE  /\ response' = [d \in Calls |-> response'[d]]
             /\ \A d \in Calls : \A raw \in response'[d] :
                  call[d].state # "idle" /\ Composed(call[d].args, raw)
  <2> HIDE DEF Composed
  <2>1. PICK R : R = response'
    OBVIOUS
  <2>2. R = [d \in Calls |-> IF d = c THEN {new} ELSE response[d]]
    BY ONLY <1>1, <1>3, <2>1
  <2>3. R = [d \in Calls |-> R[d]]
    BY ONLY <2>2
  <2>4. \A d \in Calls : \A raw \in R[d] : raw \in response[d] \/ (d = c /\ raw = new)
    BY ONLY <2>2
  <2> QED
    BY <1>1, <1>3, <2>1, <2>3, <2>4, Zenon
<1>4. ASSUME NEW c \in Calls, NEW disposition \in {1, 2}, Process(c, disposition)
      PROVE  /\ response' = [d \in Calls |-> response'[d]]
             /\ \A d \in Calls : \A raw \in response'[d] :
                  call[d].state # "idle" /\ Composed(call[d].args, raw)
  <2>1. PICK new : /\ response' = [response EXCEPT ![c] = {new}]
                   /\ call[c].state = "waiting"
    BY <1>4, Zenon DEF Process
  <2>2. new \in response'[c] /\ call[c].state # "idle"
    <3> HIDE DEF Composed
    <3>1. c \in DOMAIN response
      BY <1>1, Zenon
    <3>2. response'[c] = {new}
      BY <2>1, <3>1, Zenon
    <3>3. "waiting" # "idle"
      BY ONLY TRUE
    <3> QED
      BY <2>1, <3>2, <3>3, Zenon
  <2>3. Composed(call[c].args, new)
    BY <1>4, <2>2, ComposedFields, Zenon
  <2> HIDE DEF Composed
  <2> QED
    BY <1>3, <2>1, <2>2, <2>3, Zenon
<1>5. ASSUME NEW c \in Calls, Deviate(c)
      PROVE  /\ response' = [d \in Calls |-> response'[d]]
             /\ \A d \in Calls : \A raw \in response'[d] :
                  call[d].state # "idle" /\ Composed(call[d].args, raw)
  <2>1. PICK new : /\ response' = [response EXCEPT ![c] = {new}]
                   /\ Composed(call[c].args, new)
    BY <1>5, DeviatedFields, Zenon
  <2>2. call[c].state # "idle"
    BY <1>5, DeviatedFields, Zenon
  <2> HIDE DEF Composed
  <2> QED
    BY <1>3, <2>1, <2>2, Zenon
<1> HIDE DEF Composed
<1>6. CASE UNCHANGED response
  BY <1>1, <1>6, Zenon
<1>7. ASSUME NEW c \in Calls, NEW args \in Arguments, Start(c, args)
      PROVE  UNCHANGED response
  BY <1>7, Zenon DEF Start
<1>8. ASSUME NEW c \in Calls, RPCFails(c) PROVE UNCHANGED response
  BY <1>8, Zenon DEF RPCFails
<1>9. ASSUME NEW c \in Calls, NEW d \in Calls, Receive(c, d) PROVE UNCHANGED response
  BY <1>9, Zenon DEF Receive
<1> QED
  BY <1>4, <1>5, <1>6, <1>7, <1>8, <1>9, Zenon DEF Next, vars

LEMMA NixInvariant ==
  Spec => []NixInv
<1>1. Init => NixInv
  <2> SUFFICES ASSUME Init PROVE CallsInv /\ ResponsesInv
    BY Zenon DEF NixInv
  <2>1. call = [c \in Calls |-> Idle] /\ response = [c \in Calls |-> {}]
    BY Zenon DEF Init
  <2>2. call = [c \in Calls |-> call[c]] /\ response = [c \in Calls |-> response[c]]
    BY ONLY <2>1
  <2>3. \A c \in Calls : call[c] = Idle /\ response[c] = {}
    BY <2>1, Zenon
  <2> QED
    BY <2>2, <2>3, Zenon DEF CallsInv, ResponsesInv
<1>2. NixInv /\ [Next]_vars => NixInv'
  BY CallsStep, ResponsesStep, Zenon DEF NixInv
<1> QED
  BY <1>1, <1>2, PTL DEF Spec

-----------------------------------------------------------------------------
\* The codec of nix_cache_codec.go accepts exactly the well-formed responses,
\* however many fields deviate and whatever the odd values are.
THEOREM DecodesStrictly == Spec => []StrictDecode
<1>1. NixInv => StrictDecode
  <2> SUFFICES ASSUME NixInv, NEW d \in Calls, NEW method \in Methods,
                      NEW raw \in response[d]
               PROVE  Decodes(raw, responseOf[method]) <=> WellFormed(raw, responseOf[method])
    BY Zenon DEF StrictDecode, Decodes
  <2>1. PICK S : raw \in Seq(S)
    BY Zenon DEF NixInv, ResponsesInv
  <2> QED
    BY <2>1, StrictResponse, Zenon
<1> QED
  BY <1>1, NixInvariant, PTL

\* Whatever validateNixCacheRequest accepts, the codec encodes within the
\* limit of the call: no call of any arguments ends "not sent".
THEOREM AcceptedCallsAreSent == Spec => []AcceptedIsSent
<1>1. NixInv => AcceptedIsSent
  <2> SUFFICES ASSUME NixInv, NEW c \in Calls PROVE call[c].state # "not sent"
    BY Zenon DEF AcceptedIsSent
  <2>1. \/ call[c] = Idle
        \/ call[c].state \in {"invalid", "waiting", "returned", "failed"}
    BY Zenon DEF NixInv, CallsInv
  <2>2. Idle.state = "idle"
    BY DEF Idle
  <2>3. call[c].state \in {"idle", "invalid", "waiting", "returned", "failed"}
    BY <2>1, <2>2, Zenon
  <2> QED
    BY ONLY <2>3
<1> QED
  BY <1>1, NixInvariant, PTL

\* A call that returned has an error or a result and never both, although
\* DescribeNixCacheKey returns the address of its key along with the error.
THEOREM ResultOrError == Spec => []NoResultWithError
<1>1. NixInv => NoResultWithError
  <2> SUFFICES ASSUME NixInv, NEW c \in Calls, call[c].state = "returned"
               PROVE  Exclusive(call[c].err, call[c].result)
    BY Zenon DEF NoResultWithError, Returned, Exclusive
  <2>1. call[c].state # "idle"
    OBVIOUS
  <2> QED
    BY <2>1, CallRecord, Zenon DEF NixInv
<1> QED
  BY <1>1, NixInvariant, PTL

-----------------------------------------------------------------------------
\* Whose result a call returns.

\* d is a started call with the ids of args, and r is what d asked for.
ComposedFor(d, args, r) ==
  /\ call[d].state # "idle"
  /\ call[d].args.batchID = args.batchID
  /\ call[d].args.requestID = args.requestID
  /\ ResultFor(call[d].args, args.method, r)

LEMMA ResultsStep ==
  ASSUME OddInvalid, CallsInv, ResponsesInv, ResultsInv, [Next]_vars
  PROVE  ResultsInv'
<1>1. ASSUME NEW d \in Calls, call[d].state # "idle"
      PROVE  call'[d].state # "idle" /\ call'[d].args = call[d].args
  BY <1>1, ArgsStay, Zenon
<1>2. \A d \in Calls : \A args, r : ComposedFor(d, args, r) => ComposedFor(d, args, r)'
  BY <1>1, Zenon DEF ComposedFor
<1> SUFFICES ASSUME NEW c \in Calls, call'[c].state = "returned", NEW r \in call'[c].result,
                    NEW own, own = call'[c].args
             PROVE  \E d \in Calls : ComposedFor(d, own, r)
  <2> SUFFICES ASSUME NEW c \in Calls, call'[c].state = "returned",
                      NEW r \in call'[c].result
               PROVE  \E d \in Calls :
                        /\ call'[d].state # "idle"
                        /\ call'[d].args.batchID = call'[c].args.batchID
                        /\ call'[d].args.requestID = call'[c].args.requestID
                        /\ ResultFor(call'[d].args, call'[c].args.method, r)
    BY Zenon DEF ResultsInv
  <2>1. PICK own : own = call'[c].args
    OBVIOUS
  <2>2. \E d \in Calls : ComposedFor(d, own, r)'
    BY <1>2, <2>1, Zenon
  <2> QED
    BY <2>1, <2>2, Zenon DEF ComposedFor
<1>3. CASE call'[c] = call[c]
  BY <1>3, ZenonT(60) DEF ResultsInv, ComposedFor
<1>4. CASE call'[c] # call[c]
  <2>1. c \in DOMAIN call /\ call = [x \in Calls |-> call[x]]
    BY Zenon DEF CallsInv
  <2>2. ASSUME NEW e \in Calls, NEW y, call' = [call EXCEPT ![e] = y]
        PROVE  e = c /\ call'[c] = y
    <3>1. e # c => call'[c] = call[c]
      BY ONLY <2>1, <2>2, c \in Calls
    <3>2. e = c
      BY <1>4, <3>1, Zenon
    <3> QED
      BY <2>1, <2>2, <3>2, Zenon
  <2>3. ASSUME NEW e \in Calls, NEW args \in Arguments, Start(e, args) PROVE FALSE
    <3>1. \E s \in {"invalid", "not sent", "waiting"} : \E err :
            call' = [call EXCEPT ![e] =
                      [args |-> args, state |-> s, err |-> err, result |-> {}]]
      BY <2>3, Zenon DEF Start
    <3>2. PICK s, err :
            call'[c] = [args |-> args, state |-> s, err |-> err, result |-> {}]
      BY <2>2, <3>1, Zenon
    <3>3. call'[c].result = {}
      <4>1. PICK y : y = call'[c]
        OBVIOUS
      <4>2. y = [args |-> args, state |-> s, err |-> err, result |-> {}]
        BY <3>2, <4>1, Zenon
      <4>3. y.result = {}
        BY ONLY <4>2
      <4> QED
        BY <4>1, <4>3, Zenon
    <3> QED
      BY <3>3, Zenon
  <2>4. ASSUME NEW e \in Calls, RPCFails(e) PROVE FALSE
    <3>1. PICK y : /\ y = [call[e] EXCEPT !.state = "failed", !.err = "status"]
                   /\ call[e].state = "waiting" /\ call' = [call EXCEPT ![e] = y]
      BY <2>4, Zenon DEF RPCFails
    <3>2. e = c /\ call'[c] = y
      BY <2>2, <3>1, Zenon
    <3>3. PICK x, a, t, u, v : x = [args |-> a, state |-> t, err |-> u, result |-> v]
                               /\ x = call[c]
      <4>1. call[c].state # "idle"
        BY ONLY <3>1, <3>2
      <4> QED
        BY <4>1, CallRecord, Zenon
    <3>4. y = [x EXCEPT !.state = "failed", !.err = "status"]
      BY ONLY <3>1, <3>2, <3>3
    <3>5. y.state = "failed"
      BY ONLY <3>3, <3>4
    <3>6. "failed" # "returned"
      BY ONLY TRUE
    <3> QED
      BY <3>2, <3>5, <3>6, Zenon
  <2>5. ASSUME NEW e \in Calls, NEW d \in Calls, Receive(e, d)
        PROVE  ComposedFor(d, own, r)
    <3>1. PICK raw, o, y :
            /\ raw \in response[d]
            /\ o = Outcome(call[e].args, raw)
            /\ y = [call[e] EXCEPT !.state = "returned", !.err = o.err, !.result = o.result]
            /\ call[e].state = "waiting" /\ call' = [call EXCEPT ![e] = y]
      BY <2>5, Zenon DEF Receive
    <3>2. e = c /\ call'[c] = y
      BY <2>2, <3>1, Zenon
    <3>3. call[c].state # "idle"
      BY ONLY <3>1, <3>2
    <3>4. PICK x, a, t, u, v : /\ x = [args |-> a, state |-> t, err |-> u, result |-> v]
                               /\ x = call[c] /\ a = call[c].args
      BY <3>3, CallRecord, Zenon
    <3>5. PICK oe, or : oe = o.err /\ or = o.result
      OBVIOUS
    <3>6. y = [x EXCEPT !.state = "returned", !.err = oe, !.result = or]
      BY <3>1, <3>2, <3>4, <3>5
    <3>7. y.args = a /\ y.result = or
      BY ONLY <3>4, <3>6
    <3>8. /\ own = a /\ r \in Outcome(a, raw).result
          /\ a.method \in Methods
      <4>1. own = a /\ r \in or
        BY <3>2, <3>7, Zenon
      <4>2. o = Outcome(a, raw)
        BY <3>1, <3>2, <3>4, Zenon
      <4>3. a.method \in Methods
        BY <3>3, <3>4, CallRecord, Zenon
      <4> QED
        BY <3>5, <4>1, <4>2, <4>3, Zenon
    <3>9. PICK from : from = call[d].args /\ call[d].state # "idle"
      BY <3>1, Zenon DEF ResponsesInv
    <3>10. PICK S : raw \in Seq(S) /\ \A f \in S : OfResponse(from, f)
      BY <3>1, <3>9, Zenon DEF ResponsesInv
    <3>11. from.method \in Methods
      BY <3>9, CallRecord, Zenon
    <3>12. /\ Decodes(raw, responseOf[a.method])
           /\ validateNixCacheResponseEcho(raw, a)
           /\ r.key = <<field(raw, 1).v, field(raw, 2).v>>
           /\ a.method = "sign" => r.signature = field(raw, 4).v
      BY <3>8, <3>10, ResultOfFields, Zenon
    <3>13. /\ from.batchID = a.batchID /\ from.requestID = a.requestID
           /\ field(raw, 1).v = from.keyID /\ field(raw, 2).v = from.keyID
           /\ a.method = "sign" => field(raw, 4).v = <<from.keyID, from.print>>
      BY <3>8, <3>10, <3>11, <3>12, OwnFields
    <3>14. ResultFor(from, a.method, r)
      BY <3>12, <3>13, Zenon DEF ResultFor
    <3> QED
      BY <3>8, <3>9, <3>13, <3>14, Zenon DEF ComposedFor
  <2>6. ~UNCHANGED call
    BY <1>4, Zenon
  <2>7. ASSUME NEW e \in Calls, NEW disposition \in {1, 2}, Process(e, disposition)
        PROVE  UNCHANGED call
    BY <2>7, Zenon DEF Process
  <2>8. ASSUME NEW e \in Calls, Deviate(e) PROVE UNCHANGED call
    BY <2>8, Zenon DEF Deviate
  <2> QED
    BY <2>3, <2>4, <2>5, <2>6, <2>7, <2>8, Zenon DEF Next, vars
<1> QED
  BY <1>3, <1>4

\* A broker that keeps to its own values, or sends values that no field of a
\* response may hold, cannot make a call with ids of its own return what
\* another call asked for: not by handing over the other's response, of the
\* same method or not, nor by any number of deviations in its encoding.
THEOREM ResultIsOwn ==
  ASSUME OddInvalid
  PROVE  Spec => []OwnResult
<1>1. Init => ResultsInv
  <2> SUFFICES ASSUME Init, NEW c \in Calls PROVE call[c].state # "returned"
    BY Zenon DEF ResultsInv
  <2>1. call[c] = Idle
    BY Zenon DEF Init
  <2>2. call[c].state = "idle"
    BY ONLY <2>1 DEF Idle
  <2> QED
    BY ONLY <2>2
<1>2. NixInv /\ ResultsInv /\ [Next]_vars => ResultsInv'
  BY ResultsStep, Zenon DEF NixInv
<1>3. ResultsInv => OwnResult
  <2> SUFFICES ASSUME ResultsInv, NEW c \in Calls, Returned(c), OwnIDs(c),
                      NEW r \in call[c].result
               PROVE  ResultFor(call[c].args, call[c].args.method, r)
    BY Zenon DEF OwnResult, ResultFor
  <2>1. PICK d \in Calls : /\ call[d].state # "idle"
                           /\ call[d].args.batchID = call[c].args.batchID
                           /\ call[d].args.requestID = call[c].args.requestID
                           /\ ResultFor(call[d].args, call[c].args.method, r)
    BY Zenon DEF ResultsInv, Returned
  <2>2. d = c
    BY <2>1, Zenon DEF OwnIDs
  <2> QED
    BY <2>1, <2>2, Zenon
<1> QED
  BY <1>1, <1>2, <1>3, NixInvariant, PTL DEF Spec
=============================================================================
