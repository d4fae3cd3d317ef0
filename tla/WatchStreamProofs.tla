------------------------- MODULE WatchStreamProofs --------------------------
(***************************************************************************)
(* Proofs about WatchStream, for every history of changes, every size of   *)
(* the broker's buffer and every set of kinds.                             *)
(***************************************************************************)
EXTENDS WatchStream, SequenceTheorems, TLAPS

\* An optional value is absent or one value.
LEMMA Optional ==
  ASSUME NEW S, NEW o \in Opt(S)
  PROVE  o = {} \/ \E x \in S : o = {x}
  BY DEF Opt

LEMMA OptionalNone ==
  ASSUME NEW S PROVE {} \in Opt(S)
  BY DEF Opt

\* The details of a message that are of one kind.
Details(c, field) == {d[field] : d \in {d \in c.Detail : field \in DOMAIN d}}

LEMMA EventFields ==
  ASSUME NEW c
  PROVE  LET e == eventFromProto(c)
         IN /\ e = [Kind |-> e.Kind, At |-> e.At, KeyRotated |-> e.KeyRotated,
                    BundleChanged |-> e.BundleChanged, Revoked |-> e.Revoked]
            /\ e.Kind = c.Kind
            /\ e.At = IF c.At = {} THEN ZeroTime ELSE CHOOSE t \in c.At : TRUE
            /\ e.KeyRotated = {[KeyID |-> k.KeyId, NewVersion |-> k.NewVersion] :
                                 k \in Details(c, "KeyRotated")}
            /\ e.BundleChanged = {[TrustDomain |-> b.TrustDomain] :
                                    b \in Details(c, "BundleChanged")}
            /\ e.Revoked = {[TrustDomain |-> r.TrustDomain, ID |-> r.Id] :
                              r \in Details(c, "Revoked")}
  BY DEF eventFromProto, Details

\* Of the time: it is kept, and the zero time stands for none.
LEMMA TimeKept ==
  ASSUME NEW c, c.At \in Opt(Int), ZeroTime \notin c.At
  PROVE  /\ eventFromProto(c).At \in Int
         /\ {eventFromProto(c).At} \ {ZeroTime} = c.At
<1>1. eventFromProto(c).At = IF c.At = {} THEN ZeroTime ELSE CHOOSE t \in c.At : TRUE
  BY EventFields
<1>2. CASE c.At = {}
  BY <1>1, <1>2, WatchAssumption
<1>3. CASE c.At # {}
  <2>1. PICK t \in Int : c.At = {t}
    BY <1>3, Optional
  <2>2. (CHOOSE u \in c.At : TRUE) = t
    BY <2>1
  <2>3. eventFromProto(c).At = t
    BY <1>1, <1>3, <2>2
  <2> QED BY <2>1, <2>3
<1> QED BY <1>2, <1>3

\* Of the detail: its kind and its fields are kept.
LEMMA DetailKept ==
  ASSUME NEW c \in Event
  PROVE  LET e == eventFromProto(c)
         IN /\ e.KeyRotated \in Opt([KeyID : Str, NewVersion : Nat])
            /\ e.BundleChanged \in Opt([TrustDomain : Str])
            /\ e.Revoked \in Opt([TrustDomain : Str, ID : Str])
            /\ c.Detail = {[KeyRotated |-> [KeyId |-> k.KeyID, NewVersion |-> k.NewVersion]] :
                             k \in e.KeyRotated}
                          \cup {[BundleChanged |-> b] : b \in e.BundleChanged}
                          \cup {[Revoked |-> [TrustDomain |-> r.TrustDomain, Id |-> r.ID]] :
                             r \in e.Revoked}
<1> DEFINE e == eventFromProto(c)
           D == [KeyRotated : KeyRotated] \cup [BundleChanged : BundleChanged]
                  \cup [Revoked : Revoked]
<1>1. /\ e.KeyRotated = {[KeyID |-> k.KeyId, NewVersion |-> k.NewVersion] :
                           k \in Details(c, "KeyRotated")}
      /\ e.BundleChanged = {[TrustDomain |-> b.TrustDomain] : b \in Details(c, "BundleChanged")}
      /\ e.Revoked = {[TrustDomain |-> r.TrustDomain, ID |-> r.Id] : r \in Details(c, "Revoked")}
  BY EventFields
<1> HIDE DEF e
<1>2. c.Detail \in Opt(D)
  BY DEF Event
<1>3. CASE c.Detail = {}
  <2>1. \A f : Details(c, f) = {}
    BY <1>3 DEF Details
  <2>2. e.KeyRotated = {} /\ e.BundleChanged = {} /\ e.Revoked = {}
    BY <1>1, <2>1
  <2> QED BY <1>3, <2>2, OptionalNone DEF e
<1>4. ASSUME NEW d \in [KeyRotated : KeyRotated], c.Detail = {d}
      PROVE  /\ e.KeyRotated = {[KeyID |-> d.KeyRotated.KeyId,
                                 NewVersion |-> d.KeyRotated.NewVersion]}
             /\ e.BundleChanged = {} /\ e.Revoked = {}
             /\ d = [KeyRotated |-> d.KeyRotated] /\ d.KeyRotated \in KeyRotated
  <2>1. DOMAIN d = {"KeyRotated"} /\ d = [KeyRotated |-> d.KeyRotated]
    OBVIOUS
  <2>2. /\ Details(c, "KeyRotated") = {d.KeyRotated}
        /\ Details(c, "BundleChanged") = {} /\ Details(c, "Revoked") = {}
    BY <1>4, <2>1 DEF Details
  <2> QED BY <1>1, <2>1, <2>2
<1>5. ASSUME NEW d \in [BundleChanged : BundleChanged], c.Detail = {d}
      PROVE  /\ e.BundleChanged = {[TrustDomain |-> d.BundleChanged.TrustDomain]}
             /\ e.KeyRotated = {} /\ e.Revoked = {}
             /\ d = [BundleChanged |-> d.BundleChanged] /\ d.BundleChanged \in BundleChanged
  <2>1. DOMAIN d = {"BundleChanged"} /\ d = [BundleChanged |-> d.BundleChanged]
    OBVIOUS
  <2>2. /\ Details(c, "BundleChanged") = {d.BundleChanged}
        /\ Details(c, "KeyRotated") = {} /\ Details(c, "Revoked") = {}
    BY <1>5, <2>1 DEF Details
  <2> QED BY <1>1, <2>1, <2>2
<1>6. ASSUME NEW d \in [Revoked : Revoked], c.Detail = {d}
      PROVE  /\ e.Revoked = {[TrustDomain |-> d.Revoked.TrustDomain, ID |-> d.Revoked.Id]}
             /\ e.KeyRotated = {} /\ e.BundleChanged = {}
             /\ d = [Revoked |-> d.Revoked] /\ d.Revoked \in Revoked
  <2>1. DOMAIN d = {"Revoked"} /\ d = [Revoked |-> d.Revoked]
    OBVIOUS
  <2>2. /\ Details(c, "Revoked") = {d.Revoked}
        /\ Details(c, "KeyRotated") = {} /\ Details(c, "BundleChanged") = {}
    BY <1>6, <2>1 DEF Details
  <2> QED BY <1>1, <2>1, <2>2
<1>7. CASE c.Detail # {}
  <2>1. PICK d \in D : c.Detail = {d}
    BY <1>2, <1>7, Optional
  <2>2. CASE d \in [KeyRotated : KeyRotated]
    <3> DEFINE k == [KeyID |-> d.KeyRotated.KeyId, NewVersion |-> d.KeyRotated.NewVersion]
    <3>1. /\ e.KeyRotated = {k} /\ e.BundleChanged = {} /\ e.Revoked = {}
          /\ d = [KeyRotated |-> d.KeyRotated] /\ d.KeyRotated \in KeyRotated
      BY <1>4, <2>1, <2>2
    <3>2. /\ k \in [KeyID : Str, NewVersion : Nat]
          /\ d = [KeyRotated |-> [KeyId |-> k.KeyID, NewVersion |-> k.NewVersion]]
      BY <3>1 DEF KeyRotated
    <3> HIDE DEF k
    <3>3. e.KeyRotated \in Opt([KeyID : Str, NewVersion : Nat])
      BY <3>1, <3>2 DEF Opt
    <3> QED BY <2>1, <3>1, <3>2, <3>3, OptionalNone DEF e
  <2>3. CASE d \in [BundleChanged : BundleChanged]
    <3> DEFINE b == [TrustDomain |-> d.BundleChanged.TrustDomain]
    <3>1. /\ e.BundleChanged = {b} /\ e.KeyRotated = {} /\ e.Revoked = {}
          /\ d = [BundleChanged |-> d.BundleChanged] /\ d.BundleChanged \in BundleChanged
      BY <1>5, <2>1, <2>3
    <3>2. b \in [TrustDomain : Str] /\ d = [BundleChanged |-> b]
      BY <3>1 DEF BundleChanged
    <3> HIDE DEF b
    <3>3. e.BundleChanged \in Opt([TrustDomain : Str])
      BY <3>1, <3>2 DEF Opt
    <3> QED BY <2>1, <3>1, <3>2, <3>3, OptionalNone DEF e
  <2>4. CASE d \in [Revoked : Revoked]
    <3> DEFINE r == [TrustDomain |-> d.Revoked.TrustDomain, ID |-> d.Revoked.Id]
    <3>1. /\ e.Revoked = {r} /\ e.KeyRotated = {} /\ e.BundleChanged = {}
          /\ d = [Revoked |-> d.Revoked] /\ d.Revoked \in Revoked
      BY <1>6, <2>1, <2>4
    <3>2. /\ r \in [TrustDomain : Str, ID : Str]
          /\ d = [Revoked |-> [TrustDomain |-> r.TrustDomain, Id |-> r.ID]]
      BY <3>1 DEF Revoked
    <3> HIDE DEF r
    <3>3. e.Revoked \in Opt([TrustDomain : Str, ID : Str])
      BY <3>1, <3>2 DEF Opt
    <3> QED BY <2>1, <3>1, <3>2, <3>3, OptionalNone DEF e
  <2> QED BY <2>1, <2>2, <2>3, <2>4
<1> QED BY <1>3, <1>7

\* eventFromProto loses nothing of what the broker sent.
LEMMA EventKept ==
  ASSUME NEW c \in Event, ZeroTime \notin c.At
  PROVE  eventFromProto(c) \in EventStruct /\ Meaning(eventFromProto(c)) = c
<1> DEFINE e == eventFromProto(c)
<1>1. c = [Kind |-> c.Kind, At |-> c.At, Detail |-> c.Detail] /\ c.Kind \in Enum
      /\ c.At \in Opt(Int)
  BY DEF Event, Timestamp
<1>2. e = [Kind |-> e.Kind, At |-> e.At, KeyRotated |-> e.KeyRotated,
           BundleChanged |-> e.BundleChanged, Revoked |-> e.Revoked] /\ e.Kind = c.Kind
  BY EventFields
<1>3. e.At \in Int /\ {e.At} \ {ZeroTime} = c.At
  BY <1>1, TimeKept
<1>4. /\ e.KeyRotated \in Opt([KeyID : Str, NewVersion : Nat])
      /\ e.BundleChanged \in Opt([TrustDomain : Str])
      /\ e.Revoked \in Opt([TrustDomain : Str, ID : Str])
  BY DetailKept
<1>5. Meaning(e) = [Kind |-> c.Kind, At |-> c.At, Detail |-> c.Detail]
  <2>1. c.Detail = {[KeyRotated |-> [KeyId |-> k.KeyID, NewVersion |-> k.NewVersion]] :
                      k \in e.KeyRotated}
                   \cup {[BundleChanged |-> b] : b \in e.BundleChanged}
                   \cup {[Revoked |-> [TrustDomain |-> r.TrustDomain, Id |-> r.ID]] :
                      r \in e.Revoked}
    BY DetailKept
  <2> HIDE DEF e
  <2> QED BY <1>2, <1>3, <2>1, Zenon DEF Meaning
<1>6. e \in EventStruct
  <2> HIDE DEF e
  <2> QED BY <1>1, <1>2, <1>3, <1>4 DEF EventStruct
<1> QED BY <1>1, <1>5, <1>6

-----------------------------------------------------------------------------
\* The watcher was given, or there is on its way to it, each change it asked
\* for between the subscription and the broker's last, and the order is that
\* of the changes.
InOrder ==
  /\ \A k, l \in DOMAIN queue : k < l => queue[k] < queue[l]
  /\ \A k \in DOMAIN got, l \in DOMAIN queue : got[k].of < queue[l]
  /\ \A k \in DOMAIN got : got[k].of <= sub.upTo
  /\ \A l \in DOMAIN queue :
       /\ sub.from < queue[l] /\ queue[l] <= sub.upTo
       /\ Wanted(sub.kinds, queue[l])

NoneMissing ==
  \A j \in sub.from + 1 .. sub.upTo : Wanted(sub.kinds, j) =>
    (\E k \in DOMAIN got : got[k].of = j) \/ (\E l \in DOMAIN queue : queue[l] = j)

\* Nothing has come before the stream is open.
NothingYet ==
  stream # "open" =>
    /\ queue = <<>> /\ got = <<>> /\ end = "" /\ over = "" /\ pc = "idle"
    /\ sub.from = 0 /\ sub.upTo = 0

\* How far the subscription has come; a stream that is served is up to date.
Reached ==
  /\ sub.from <= sub.upTo /\ sub.upTo <= published
  /\ serving => sub.upTo = published

WatchInv == WatchTypeOK /\ NothingYet /\ Reached /\ InOrder /\ NoneMissing

LEMMA WatchFacts ==
  ASSUME WatchInv
  PROVE  /\ Len(Changes) \in Nat /\ BufferSize \in Nat
         /\ published \in Nat /\ sub.from \in Nat /\ sub.upTo \in Nat
         /\ sub \in [kinds : SUBSET Kinds, from : Nat, upTo : Nat, lost : BOOLEAN]
         /\ queue \in Seq(1 .. Len(Changes)) /\ Len(queue) \in Nat
         /\ DOMAIN queue = 1 .. Len(queue) /\ Len(queue) <= BufferSize
         /\ got \in Seq([of : 1 .. Len(Changes), event : EventStruct])
         /\ Len(got) \in Nat /\ DOMAIN got = 1 .. Len(got)
         /\ \A k \in DOMAIN got : got[k].of \in Nat
         /\ InOrder /\ NoneMissing
<1>1. WatchTypeOK /\ InOrder /\ NoneMissing
  BY Zenon DEF WatchInv
<1>2. Len(Changes) \in Nat /\ BufferSize \in Nat
  <2>1. Changes \in Seq(Event) /\ BufferSize \in Nat
    BY WatchAssumption, Zenon
  <2> QED BY <2>1
<1>3. /\ published \in 0 .. Len(Changes)
      /\ sub \in [kinds : SUBSET Kinds, from : Nat, upTo : Nat, lost : BOOLEAN]
      /\ queue \in Seq(1 .. Len(Changes)) /\ Len(queue) <= BufferSize
      /\ got \in Seq([of : 1 .. Len(Changes), event : EventStruct])
  BY <1>1, Zenon DEF WatchTypeOK
<1>4. published \in Nat
  BY <1>2, <1>3
<1>5. sub.from \in Nat /\ sub.upTo \in Nat
  BY <1>3
<1>6. Len(queue) \in Nat /\ DOMAIN queue = 1 .. Len(queue)
  BY <1>3
<1>7. Len(got) \in Nat /\ DOMAIN got = 1 .. Len(got)
  BY <1>3
<1>8. \A k \in DOMAIN got : got[k].of \in Nat
  <2>1. \A k \in DOMAIN got : got[k] \in [of : 1 .. Len(Changes), event : EventStruct]
    BY <1>3, <1>7, ElementOfSeq, Zenon
  <2>2. \A k \in DOMAIN got : got[k].of \in 1 .. Len(Changes)
    BY <2>1
  <2> QED BY <1>2, <2>2
<1> QED BY <1>1, <1>2, <1>3, <1>4, <1>5, <1>6, <1>7, <1>8, Zenon

LEMMA NilKind == nil.kind = "nil"
  BY DEF nil, Err

LEMMA WatchInvInit == Init => WatchInv
<1> SUFFICES ASSUME Init PROVE WatchInv
  OBVIOUS
<1>1. Len(Changes) \in Nat /\ BufferSize \in Nat
  <2>1. Changes \in Seq(Event) /\ BufferSize \in Nat
    BY WatchAssumption, Zenon
  <2> QED BY <2>1
<1>2. published = 0 /\ queue = <<>> /\ got = <<>> /\ stream = "none" /\ pc = "idle"
  BY Zenon DEF Init
<1>3. end = "" /\ over = "" /\ done = "" /\ closed \in BOOLEAN
  BY Zenon DEF Init
<1>4. /\ sub \in [kinds : SUBSET Kinds, from : Nat, upTo : Nat, lost : BOOLEAN]
      /\ sub.from = 0 /\ sub.upTo = 0
  <2>1. sub = [kinds |-> {}, from |-> 0, upTo |-> 0, lost |-> FALSE]
    BY Zenon DEF Init
  <2> QED BY <2>1
<1>5. WatchTypeOK
  <2>1. err.kind = "nil" /\ yielded.kind = "nil"
    BY NilKind, Zenon DEF Init
  <2>2. queue \in Seq(1 .. Len(Changes)) /\ Len(queue) <= BufferSize
    BY <1>1, <1>2
  <2>3. got \in Seq([of : 1 .. Len(Changes), event : EventStruct])
    BY <1>2
  <2>4. published \in 0 .. Len(Changes)
    BY <1>1, <1>2
  <2> QED BY <1>2, <1>3, <1>4, <2>1, <2>2, <2>3, <2>4, Zenon DEF WatchTypeOK
<1>6. NothingYet
  BY <1>2, <1>3, <1>4, Zenon DEF NothingYet
<1>7. Reached
  BY <1>2, <1>4 DEF Reached
<1>8. DOMAIN queue = {} /\ DOMAIN got = {}
  BY <1>2
<1>9. InOrder /\ NoneMissing
  BY <1>4, <1>8 DEF InOrder, NoneMissing
<1> QED BY <1>5, <1>6, <1>7, <1>9, Zenon DEF WatchInv

\* Steps that touch neither the feed nor the subscription.
LEMMA QuietWatch ==
  ASSUME WatchInv, UNCHANGED <<published, sub, queue, end, stream, got>>,
         over' \in EndCodes \cup DoneCodes \cup {""},
         over # "" => over' # "", stream # "open" => over' = "" /\ pc' = "idle",
         pc' \in {"idle", "Recv", "Events"}, done' \in DoneCodes \cup {""},
         closed' \in BOOLEAN, err'.kind \in {"nil", "EOF", "StatusError"},
         yielded'.kind \in {"nil", "StatusError"}
  PROVE  WatchInv'
<1>1. WatchTypeOK'
  BY Zenon DEF WatchInv, WatchTypeOK
<1>2. NothingYet'
  BY Zenon DEF WatchInv, NothingYet
<1>3. serving' => serving
  BY Zenon DEF serving
<1>4. Reached' /\ InOrder' /\ NoneMissing'
  BY <1>3 DEF WatchInv, Reached, InOrder, NoneMissing
<1> QED BY <1>1, <1>2, <1>4, Zenon DEF WatchInv

LEMMA RecvErrorKind ==
  ASSUME NEW what
  PROVE  /\ recvError(what).kind \in {"EOF", "StatusError"}
         /\ recvError(what).kind = "EOF" <=> what = "EOF"
  BY DEF recvError, Err

\* A message is taken: it moves from the queue to the watcher.
LEMMA DeliverInv ==
  ASSUME WatchInv, Deliver PROVE WatchInv'
<1> DEFINE i == Head(queue)
           g == [of |-> i, event |-> eventFromProto(Changes[i])]
<1>1. /\ queue \in Seq(1 .. Len(Changes)) /\ queue # <<>> /\ Len(Changes) \in Nat
      /\ got \in Seq([of : 1 .. Len(Changes), event : EventStruct])
      /\ Len(queue) \in Nat /\ Len(got) \in Nat
      /\ got' = Append(got, g) /\ queue' = Tail(queue)
      /\ UNCHANGED <<published, sub, end, stream, done, closed, over>>
  BY WatchFacts DEF Deliver
<1>2. /\ i = queue[1] /\ i \in 1 .. Len(Changes) /\ Len(queue') = Len(queue) - 1
      /\ \A k \in 1 .. Len(queue) - 1 : queue'[k] = queue[k + 1]
      /\ queue' \in Seq(1 .. Len(Changes)) /\ Len(queue) > 0
  BY <1>1
<1>3. /\ DOMAIN queue = 1 .. Len(queue) /\ DOMAIN queue' = 1 .. Len(queue) - 1
      /\ DOMAIN got = 1 .. Len(got)
  BY <1>1, <1>2
<1>4. g \in [of : 1 .. Len(Changes), event : EventStruct] /\ g.of = i
  BY <1>2, EventKept, WatchAssumption
<1>5. /\ got' \in Seq([of : 1 .. Len(Changes), event : EventStruct])
      /\ DOMAIN got' = 1 .. Len(got) + 1
      /\ \A k \in 1 .. Len(got) : got'[k] = got[k]
      /\ got'[Len(got) + 1] = g
  <2> HIDE DEF g
  <2> QED BY <1>1, <1>4
<1>6. WatchTypeOK'
  <2>1. Len(queue') <= BufferSize
    BY <1>1, <1>2, WatchFacts
  <2>2. err'.kind = "nil" /\ yielded'.kind = "nil"
    BY NilKind DEF Deliver
  <2>3. pc' \in {"idle", "Recv", "Events"}
    BY DEF Deliver
  <2> QED BY <1>1, <1>2, <1>5, <2>1, <2>2, <2>3 DEF WatchInv, WatchTypeOK
<1>7. InOrder'
  <2> HIDE DEF i, g
  <2>1. \A k, l \in 1 .. Len(queue) : k < l => queue[k] < queue[l]
    BY <1>3, WatchFacts DEF InOrder
  <2>2. \A k \in 1 .. Len(got), l \in 1 .. Len(queue) : got[k].of < queue[l]
    BY <1>3, WatchFacts DEF InOrder
  <2>3. \A k \in 1 .. Len(got) : got[k].of <= sub.upTo
    BY <1>3, WatchFacts DEF InOrder
  <2>4. \A l \in 1 .. Len(queue) :
          /\ sub.from < queue[l] /\ queue[l] <= sub.upTo
          /\ Wanted(sub.kinds, queue[l])
    BY <1>3, WatchFacts DEF InOrder
  <2>5. ASSUME NEW l \in DOMAIN queue'
        PROVE  l + 1 \in 1 .. Len(queue) /\ queue'[l] = queue[l + 1] /\ i < queue[l + 1]
    BY <1>1, <1>2, <1>3, <2>1, SMTT(30)
  <2>6. \A k, l \in DOMAIN queue' : k < l => queue'[k] < queue'[l]
    BY <1>1, <1>3, <2>1, <2>5
  <2>7. ASSUME NEW k \in DOMAIN got'
        PROVE  \/ k \in 1 .. Len(got) /\ got'[k] = got[k]
               \/ got'[k].of = i
    <3>1. CASE k = Len(got) + 1
      BY <1>4, <1>5, <3>1, Zenon
    <3>2. CASE k # Len(got) + 1
      <4>1. k \in 1 .. Len(got) + 1 /\ Len(got) \in Nat
        BY <1>1, <1>5, Zenon
      <4>2. k \in 1 .. Len(got)
        BY <3>2, <4>1
      <4> QED BY <1>5, <4>2
    <3> QED BY <3>1, <3>2
  <2>8. i <= sub.upTo
    BY <1>1, <1>2, <2>4
  <2>9. \A k \in DOMAIN got' : got'[k].of <= sub'.upTo
    BY <1>1, <2>3, <2>7, <2>8
  <2>10. \A k \in DOMAIN got', l \in DOMAIN queue' : got'[k].of < queue'[l]
    BY <2>2, <2>5, <2>7
  <2>11. \A l \in DOMAIN queue' :
           /\ sub'.from < queue'[l] /\ queue'[l] <= sub'.upTo
           /\ Wanted(sub'.kinds, queue'[l])
    BY <1>1, <2>4, <2>5
  <2> QED BY <2>6, <2>9, <2>10, <2>11 DEF InOrder
<1>8. NoneMissing'
  <2> SUFFICES ASSUME NEW j \in sub.from + 1 .. sub.upTo, Wanted(sub.kinds, j)
               PROVE  \/ \E k \in DOMAIN got' : got'[k].of = j
                      \/ \E l \in DOMAIN queue' : queue'[l] = j
    BY <1>1 DEF NoneMissing
  <2> HIDE DEF i, g
  <2>1. CASE \E k \in 1 .. Len(got) : got[k].of = j
    BY <1>1, <1>5, <2>1
  <2>2. CASE \E l \in 1 .. Len(queue) : queue[l] = j
    <3>1. PICK l \in 1 .. Len(queue) : queue[l] = j
      BY <2>2
    <3>2. CASE l = 1
      <4>1. Len(got) + 1 \in DOMAIN got' /\ got'[Len(got) + 1].of = j
        BY <1>1, <1>2, <1>4, <1>5, <3>1, <3>2
      <4> QED BY <4>1
    <3>3. CASE l # 1
      <4>1. l - 1 \in 1 .. Len(queue) - 1 /\ l - 1 + 1 = l
        BY <1>1, <3>3
      <4>2. l - 1 \in DOMAIN queue' /\ queue'[l - 1] = j
        BY <1>2, <1>3, <3>1, <4>1
      <4> QED BY <4>2
    <3> QED BY <3>2, <3>3
  <2> QED BY <1>3, <2>1, <2>2, WatchFacts DEF NoneMissing
<1>9. NothingYet'
  <2>1. stream = "open"
    BY <1>1, Zenon DEF WatchInv, NothingYet
  <2> QED BY <1>1, <2>1, Zenon DEF NothingYet
<1>10. Reached'
  <2>1. serving' => serving
    BY <1>1, Zenon DEF serving
  <2> QED BY <1>1, <2>1 DEF WatchInv, Reached
<1> QED BY <1>6, <1>7, <1>8, <1>9, <1>10, Zenon DEF WatchInv

\* A change happens: it is queued, or the stream ends, or it is no change for
\* the watcher.
LEMMA PublishInv ==
  ASSUME WatchInv, Publish PROVE WatchInv'
<1> DEFINE i == published + 1
<1>1. /\ published < Len(Changes) /\ published' = i
      /\ UNCHANGED <<stream, done, closed, pc, got, over, err, yielded>>
  BY Zenon DEF Publish
<1>2. /\ Len(Changes) \in Nat /\ BufferSize \in Nat
      /\ published \in Nat /\ sub.from \in Nat /\ sub.upTo \in Nat
      /\ sub \in [kinds : SUBSET Kinds, from : Nat, upTo : Nat, lost : BOOLEAN]
      /\ queue \in Seq(1 .. Len(Changes)) /\ Len(queue) \in Nat
      /\ DOMAIN queue = 1 .. Len(queue) /\ Len(queue) <= BufferSize
      /\ InOrder /\ NoneMissing /\ Reached
  BY WatchFacts, Zenon DEF WatchInv
<1>3. i \in 1 .. Len(Changes) /\ i \in Nat /\ published' \in 0 .. Len(Changes) /\ published <= published'
  BY <1>1, <1>2
<1>4. ASSUME queue' \in Seq(1 .. Len(Changes)), Len(queue') <= BufferSize,
             sub' \in [kinds : SUBSET Kinds, from : Nat, upTo : Nat, lost : BOOLEAN],
             end' \in {end, "DataLoss"}
      PROVE  WatchTypeOK'
  <2>1. end' \in EndCodes \cup {""}
    <3>1. end \in EndCodes \cup {""}
      BY Zenon DEF WatchInv, WatchTypeOK
    <3> QED BY <1>4, <3>1, Zenon DEF EndCodes
  <2> QED BY <1>1, <1>3, <1>4, <2>1, Zenon DEF WatchInv, WatchTypeOK
<1>5. ASSUME serving PROVE NothingYet'
  <2>1. stream' = "open"
    BY <1>1, <1>5, Zenon DEF serving
  <2> QED BY <2>1, Zenon DEF NothingYet
<1>6. CASE ~serving /\ UNCHANGED <<sub, queue, end>>
  <2>1. WatchTypeOK'
    BY <1>2, <1>4, <1>6, Zenon
  <2>2. NothingYet'
    BY <1>1, <1>6, Zenon DEF WatchInv, NothingYet
  <2>3. ~serving'
    BY <1>1, <1>6, Zenon DEF serving
  <2>4. Reached'
    BY <1>2, <1>3, <1>6, <2>3 DEF Reached
  <2>5. InOrder' /\ NoneMissing'
    BY <1>1, <1>2, <1>6 DEF InOrder, NoneMissing
  <2> QED BY <2>1, <2>2, <2>4, <2>5, Zenon DEF WatchInv
<1>7. CASE /\ serving /\ Wanted(sub.kinds, i) /\ end' = "DataLoss"
           /\ sub' = [sub EXCEPT !.lost = TRUE] /\ UNCHANGED queue
  <2>1. /\ sub' \in [kinds : SUBSET Kinds, from : Nat, upTo : Nat, lost : BOOLEAN]
        /\ sub'.kinds = sub.kinds /\ sub'.from = sub.from /\ sub'.upTo = sub.upTo
    BY <1>2, <1>7
  <2>2. WatchTypeOK'
    BY <1>2, <1>4, <1>7, <2>1, Zenon
  <2>3. ~serving'
    BY <1>7, Zenon DEF serving
  <2>4. Reached'
    BY <1>2, <1>3, <2>1, <2>3 DEF Reached
  <2>5. InOrder' /\ NoneMissing'
    BY <1>1, <1>2, <1>7, <2>1 DEF InOrder, NoneMissing
  <2> QED BY <1>5, <1>7, <2>2, <2>4, <2>5, Zenon DEF WatchInv
<1>8. CASE /\ serving /\ UNCHANGED end /\ sub' = [sub EXCEPT !.upTo = i]
           /\ \/ ~Wanted(sub.kinds, i) /\ UNCHANGED queue
              \/ Wanted(sub.kinds, i) /\ Len(queue) < BufferSize /\ queue' = Append(queue, i)
  <2>1. /\ sub' \in [kinds : SUBSET Kinds, from : Nat, upTo : Nat, lost : BOOLEAN]
        /\ sub'.kinds = sub.kinds /\ sub'.from = sub.from /\ sub'.upTo = i
    <3> HIDE DEF i
    <3> QED BY <1>2, <1>3, <1>8
  <2>2. sub.upTo = published /\ sub.from <= sub.upTo
    BY <1>2, <1>8 DEF Reached
  <2>3. Reached'
    BY <1>1, <1>2, <2>1, <2>2 DEF Reached
  <2>4. \A k \in DOMAIN got : got[k].of < i
    <3>1. \A k \in DOMAIN got : got[k].of <= sub.upTo
      BY <1>2 DEF InOrder
    <3>2. \A k \in DOMAIN got : got[k].of \in Nat
      BY WatchFacts, Zenon
    <3> QED BY <1>2, <2>2, <3>1, <3>2
  <2>5. CASE ~Wanted(sub.kinds, i) /\ UNCHANGED queue
    <3>0. \A k \in DOMAIN got : got[k].of \in Nat /\ i \in Nat
      BY <1>3, WatchFacts, Zenon
    <3>1. WatchTypeOK'
      BY <1>2, <1>4, <1>8, <2>1, <2>5, Zenon
    <3>2. InOrder'
      <4> HIDE DEF i
      <4>1. \A k \in DOMAIN got' : got'[k].of <= sub'.upTo
        BY <1>1, <2>1, <2>4, <3>0
      <4>2. \A l \in DOMAIN queue : queue[l] <= sub'.upTo
        <5>1. \A l \in DOMAIN queue : queue[l] <= sub.upTo /\ queue[l] \in Nat
          BY <1>2 DEF InOrder
        <5>2. sub.upTo <= sub'.upTo
          BY <1>2, <2>1, <2>2 DEF i
        <5> QED BY <1>2, <1>3, <2>1, <5>1, <5>2
      <4> QED BY <1>1, <1>2, <2>1, <2>5, <4>1, <4>2 DEF InOrder
    <3>3. ASSUME NEW j \in sub'.from + 1 .. sub'.upTo, Wanted(sub'.kinds, j)
          PROVE  j \in sub.from + 1 .. sub.upTo /\ Wanted(sub.kinds, j)
      BY <1>2, <2>1, <2>2, <2>5, <3>3
    <3>4. NoneMissing'
      BY <1>1, <1>2, <2>5, <3>3 DEF NoneMissing
    <3> QED BY <1>5, <1>8, <2>3, <3>1, <3>2, <3>4, Zenon DEF WatchInv
  <2>6. CASE Wanted(sub.kinds, i) /\ Len(queue) < BufferSize /\ queue' = Append(queue, i)
    <3>1. /\ queue' \in Seq(1 .. Len(Changes)) /\ Len(queue') = Len(queue) + 1
          /\ DOMAIN queue' = 1 .. Len(queue) + 1
          /\ \A k \in 1 .. Len(queue) : queue'[k] = queue[k]
          /\ queue'[Len(queue) + 1] = i
      BY <1>2, <1>3, <2>6
    <3>2. WatchTypeOK'
      <4>1. Len(queue') <= BufferSize
        BY <1>2, <2>6, <3>1
      <4> QED BY <1>4, <1>8, <2>1, <3>1, <4>1, Zenon
    <3> HIDE DEF i
    <3>3. \A l \in 1 .. Len(queue) :
            /\ sub.from < queue[l] /\ queue[l] <= sub.upTo
            /\ Wanted(sub.kinds, queue[l])
      BY <1>2 DEF InOrder
    <3>4. i \in Nat /\ sub.upTo < i
      BY <1>2, <2>2 DEF i
    <3>5. ASSUME NEW l \in DOMAIN queue'
          PROVE  \/ l \in 1 .. Len(queue) /\ queue'[l] = queue[l] /\ queue[l] < i
                 \/ l = Len(queue) + 1 /\ queue'[l] = i
      <4>1. CASE l = Len(queue) + 1
        BY <3>1, <4>1
      <4>2. CASE l # Len(queue) + 1
        <5>1. l \in 1 .. Len(queue)
          BY <1>2, <3>1, <4>2
        <5>2. queue[l] <= sub.upTo /\ queue[l] \in Nat
          BY <1>2, <3>3, <5>1
        <5> QED BY <1>2, <3>1, <3>4, <5>1, <5>2
      <4> QED BY <4>1, <4>2
    <3>6. InOrder'
      <4>1. \A k, l \in 1 .. Len(queue) : k < l => queue[k] < queue[l]
        BY <1>2 DEF InOrder
      <4>2. \A k, l \in DOMAIN queue' : k < l => queue'[k] < queue'[l]
        <5> SUFFICES ASSUME NEW k \in DOMAIN queue', NEW l \in DOMAIN queue', k < l
                     PROVE  queue'[k] < queue'[l]
          OBVIOUS
        <5>1. k \in Nat /\ l \in Nat /\ k # Len(queue) + 1
          BY <1>2, <3>1, SMTT(30)
        <5>2. k \in 1 .. Len(queue) /\ queue'[k] = queue[k] /\ queue[k] < i
          BY <3>5, <5>1
        <5>3. CASE l = Len(queue) + 1
          BY <3>1, <5>2, <5>3
        <5>4. CASE l # Len(queue) + 1
          <6>1. l \in 1 .. Len(queue) /\ queue'[l] = queue[l]
            BY <3>5, <5>4
          <6> QED BY <4>1, <5>2, <6>1
        <5> QED BY <5>3, <5>4
      <4>3. \A k \in DOMAIN got, l \in 1 .. Len(queue) : got[k].of < queue[l]
        BY <1>2 DEF InOrder
      <4>4. \A k \in DOMAIN got', l \in DOMAIN queue' : got'[k].of < queue'[l]
        BY <1>1, <2>4, <3>5, <4>3
      <4>5. \A k \in DOMAIN got' : got'[k].of <= sub'.upTo
        <5>1. \A k \in DOMAIN got : got[k].of \in Nat
          BY WatchFacts, Zenon
        <5> QED BY <1>1, <2>1, <2>4, <3>4, <5>1
      <4>6. ASSUME NEW l \in DOMAIN queue'
            PROVE  /\ sub'.from < queue'[l] /\ queue'[l] <= sub'.upTo
                   /\ Wanted(sub'.kinds, queue'[l])
        BY <1>2, <2>1, <2>2, <2>6, <3>3, <3>4, <3>5
      <4> QED BY <4>2, <4>4, <4>5, <4>6 DEF InOrder
    <3>7. NoneMissing'
      <4> SUFFICES ASSUME NEW j \in sub'.from + 1 .. sub'.upTo, Wanted(sub'.kinds, j)
                   PROVE  \/ \E k \in DOMAIN got' : got'[k].of = j
                          \/ \E l \in DOMAIN queue' : queue'[l] = j
        BY DEF NoneMissing
      <4>1. CASE j = i
        BY <1>2, <3>1, <4>1, SMTT(30)
      <4>2. CASE j # i
        <5>1. j \in sub.from + 1 .. sub.upTo /\ Wanted(sub.kinds, j)
          BY <1>2, <2>1, <2>2, <4>2 DEF i
        <5>2. (\E k \in DOMAIN got : got[k].of = j) \/ (\E l \in 1 .. Len(queue) : queue[l] = j)
          BY <1>2, <5>1 DEF NoneMissing
        <5>3. CASE \E k \in DOMAIN got : got[k].of = j
          BY <1>1, <5>3, Zenon
        <5>4. CASE \E l \in 1 .. Len(queue) : queue[l] = j
          <6>1. PICK l \in 1 .. Len(queue) : queue[l] = j
            BY <5>4
          <6>2. l \in DOMAIN queue' /\ queue'[l] = j
            BY <1>2, <3>1, <6>1
          <6> QED BY <6>2
        <5> QED BY <5>2, <5>3, <5>4
      <4> QED BY <4>1, <4>2
    <3> QED BY <1>5, <1>8, <2>3, <3>2, <3>6, <3>7, Zenon DEF WatchInv
  <2> QED BY <1>8, <2>5, <2>6, Zenon
<1> QED BY <1>6, <1>7, <1>8, Zenon DEF Publish

\* Watch subscribes from the changes that have happened on.
LEMMA WatchCallInv ==
  ASSUME WatchInv, NEW ks \in SUBSET Kinds, Watch(ks) PROVE WatchInv'
<1>1. /\ stream = "none" /\ stream' \in {"open", "refused"}
      /\ UNCHANGED <<published, queue, end, closed, pc, got, over, yielded>>
  BY Zenon DEF Watch
<1>2. queue = <<>> /\ got = <<>> /\ pc = "idle"
  BY <1>1, Zenon DEF WatchInv, NothingYet
<1>3. DOMAIN queue' = {} /\ DOMAIN got' = {}
  BY <1>1, <1>2
<1>4. published \in Nat
  BY WatchFacts, Zenon
<1>5. CASE stream' = "open"
  <2>1. /\ sub' = [kinds |-> ks, from |-> published, upTo |-> published, lost |-> FALSE]
        /\ UNCHANGED <<done, err>>
    BY <1>5, Zenon DEF Watch
  <2>2. /\ sub' \in [kinds : SUBSET Kinds, from : Nat, upTo : Nat, lost : BOOLEAN]
        /\ sub'.from = published /\ sub'.upTo = published
    BY <1>4, <2>1
  <2>3. WatchTypeOK'
    <3>1. stream' \in {"none", "open", "refused"}
      BY <1>5, Zenon
    <3>2. sub' \in [kinds : SUBSET Kinds, from : Nat, upTo : Nat, lost : BOOLEAN]
      BY <2>2, Zenon
    <3>3. UNCHANGED <<published, queue, end, done, closed, pc, got, over, err, yielded>>
      BY <1>1, <2>1, Zenon
    <3> QED BY <3>1, <3>2, <3>3, Zenon DEF WatchInv, WatchTypeOK
  <2>4. NothingYet'
    BY <1>5, Zenon DEF NothingYet
  <2>5. Reached'
    BY <1>1, <1>4, <2>2 DEF Reached
  <2>6. InOrder' /\ NoneMissing'
    BY <1>3, <1>4, <2>2 DEF InOrder, NoneMissing
  <2> QED BY <2>3, <2>4, <2>5, <2>6, Zenon DEF WatchInv
<1>6. CASE stream' = "refused"
  <2>1. UNCHANGED sub
    BY <1>6, Zenon DEF Watch
  <2>2. done' \in DoneCodes \cup {""}
    <3>1. done' \in {done, "Canceled"}
      BY <1>6, Zenon DEF Watch, cancel
    <3>2. done \in DoneCodes \cup {""}
      BY Zenon DEF WatchInv, WatchTypeOK
    <3> QED BY <3>1, <3>2, Zenon DEF DoneCodes
  <2>3. err'.kind = "StatusError"
    <3>1. PICK code : err' = Err("StatusError", code)
      BY <1>6, Zenon DEF Watch
    <3> QED BY <3>1 DEF Err
  <2>4. WatchTypeOK'
    BY <1>1, <1>6, <2>1, <2>2, <2>3, Zenon DEF WatchInv, WatchTypeOK
  <2>5. NothingYet'
    BY <1>1, <2>1, Zenon DEF WatchInv, NothingYet
  <2>6. ~serving'
    BY <1>6, Zenon DEF serving
  <2>7. Reached' /\ InOrder' /\ NoneMissing'
    BY <1>1, <2>1, <2>6 DEF WatchInv, Reached, InOrder, NoneMissing
  <2> QED BY <2>4, <2>5, <2>7, Zenon DEF WatchInv
<1> QED BY <1>1, <1>5, <1>6, Zenon

\* The broker ends the stream.
LEMMA BrokerEndsInv ==
  ASSUME WatchInv, NEW what \in {"EOF", "PermissionDenied", "Unavailable"}, BrokerEnds(what)
  PROVE  WatchInv'
<1>1. /\ serving /\ end' = what
      /\ UNCHANGED <<published, sub, queue, stream, done, closed, pc, got, over, err, yielded>>
  BY Zenon DEF BrokerEnds
<1>2. WatchTypeOK'
  <2>1. end' \in EndCodes \cup {""}
    BY <1>1, Zenon DEF EndCodes
  <2>2. UNCHANGED <<published, sub, queue, stream, done, closed, pc, got, over, err, yielded>>
    BY <1>1, Zenon
  <2> QED BY <2>1, <2>2, ZenonT(60) DEF WatchInv, WatchTypeOK
<1>3. stream = "open" /\ ~serving'
  BY <1>1, Zenon DEF serving
<1>4. NothingYet'
  BY <1>1, <1>3, Zenon DEF NothingYet
<1>5. Reached' /\ InOrder' /\ NoneMissing'
  BY <1>1, <1>3 DEF WatchInv, Reached, InOrder, NoneMissing
<1> QED BY <1>2, <1>4, <1>5, Zenon DEF WatchInv

\* Recv, or the loop of Events, ends with the stream's error.
LEMMA EndOfStreamFacts ==
  ASSUME WatchInv, EndOfStream
  PROVE  /\ pc # "idle" /\ stream = "open" /\ pc' = "idle"
         /\ UNCHANGED <<published, sub, queue, end, stream, got, done, closed>>
         /\ over' # ""
         /\ \/ over # "" /\ over' = over
            \/ over = "" /\ over' = done
            \/ over = "" /\ over' = end /\ queue = <<>>
         /\ over' \in EndCodes \cup DoneCodes
         /\ err'.kind \in {"nil", "EOF", "StatusError"}
         /\ yielded'.kind \in {"nil", "StatusError"}
<1>1. /\ pc # "idle" /\ UNCHANGED <<brokerVars, stream, done, closed, got>>
  BY Zenon DEF EndOfStream
<1>2. stream = "open"
  BY <1>1, Zenon DEF WatchInv, NothingYet
<1>3. PICK what \in IF over # "" THEN {over}
                    ELSE {c \in {done} : c # ""} \cup {e \in {end} : e # "" /\ queue = <<>>} :
        /\ over' = what
        /\ \/ pc = "Recv" /\ pc' = "idle" /\ err' = recvError(what) /\ UNCHANGED yielded
           \/ pc = "Events" /\ rangeEnds(what) /\ UNCHANGED err
  BY Zenon DEF EndOfStream
<1>4. /\ over' # ""
      /\ \/ over # "" /\ over' = over
         \/ over = "" /\ over' = done
         \/ over = "" /\ over' = end /\ queue = <<>>
  BY <1>3, Zenon
<1>5. /\ over \in EndCodes \cup DoneCodes \cup {""}
      /\ done \in DoneCodes \cup {""}
      /\ end \in EndCodes \cup {""}
      /\ err.kind \in {"nil", "EOF", "StatusError"} /\ yielded.kind \in {"nil", "StatusError"}
  BY Zenon DEF WatchInv, WatchTypeOK
<1>6. over' \in EndCodes \cup DoneCodes
  BY <1>4, <1>5, Zenon
<1>7. CASE pc = "Recv" /\ pc' = "idle" /\ err' = recvError(what) /\ UNCHANGED yielded
  <2>1. err'.kind \in {"EOF", "StatusError"}
    BY <1>7, RecvErrorKind, Zenon
  <2> QED BY <1>1, <1>2, <1>4, <1>5, <1>6, <1>7, <2>1, Zenon DEF brokerVars
<1>8. CASE pc = "Events" /\ rangeEnds(what) /\ UNCHANGED err
  <2>1. pc' = "idle" /\ yielded'.kind \in {"nil", "StatusError"}
    <3>1. /\ pc' = "idle"
          /\ yielded' = IF recvError(what).kind = "EOF" THEN nil ELSE recvError(what)
      BY <1>8, Zenon DEF rangeEnds
    <3>2. CASE recvError(what).kind = "EOF"
      BY <3>1, <3>2, NilKind, Zenon
    <3>3. CASE recvError(what).kind # "EOF"
      <4>1. recvError(what).kind = "StatusError"
        BY <3>3, RecvErrorKind, Zenon
      <4> QED BY <3>1, <3>3, <4>1, Zenon
    <3> QED BY <3>2, <3>3, Zenon
  <2> QED BY <1>1, <1>2, <1>4, <1>5, <1>6, <1>8, <2>1, Zenon DEF brokerVars
<1> QED BY <1>3, <1>7, <1>8, Zenon

LEMMA WatchInvNext == WatchInv /\ [Next]_vars => WatchInv'
<1> SUFFICES ASSUME WatchInv, [Next]_vars PROVE WatchInv'
  OBVIOUS
<1>1. /\ over \in EndCodes \cup DoneCodes \cup {""}
      /\ pc \in {"idle", "Recv", "Events"} /\ done \in DoneCodes \cup {""}
      /\ closed \in BOOLEAN /\ err.kind \in {"nil", "EOF", "StatusError"}
      /\ yielded.kind \in {"nil", "StatusError"}
      /\ stream # "open" => over = "" /\ pc = "idle"
  BY Zenon DEF WatchInv, WatchTypeOK, NothingYet
<1>2. ASSUME Recv \/ Events PROVE WatchInv'
  <2>1. /\ stream = "open" /\ pc' \in {"Recv", "Events"}
        /\ UNCHANGED <<published, sub, queue, end, stream, done, closed, got, over, err, yielded>>
    BY <1>2, Zenon DEF Recv, Events, brokerVars
  <2>2. pc' \in {"idle", "Recv", "Events"}
    BY <2>1, Zenon
  <2>3. /\ over' \in EndCodes \cup DoneCodes \cup {""}
        /\ over # "" => over' # ""
    BY <1>1, <2>1, Zenon
  <2> QED BY <1>1, <2>1, <2>2, <2>3, QuietWatch, Zenon
<1>3. ASSUME EndOfStream PROVE WatchInv'
  <2>1. over' \in EndCodes \cup DoneCodes \cup {""}
    BY <1>3, EndOfStreamFacts, Zenon
  <2>2. pc' \in {"idle", "Recv", "Events"} /\ closed' \in BOOLEAN
        /\ done' \in DoneCodes \cup {""}
    BY <1>1, <1>3, EndOfStreamFacts, Zenon
  <2> QED BY <1>3, <2>1, <2>2, EndOfStreamFacts, QuietWatch, Zenon
<1>4. ASSUME UNCHANGED <<published, sub, queue, end, stream, got, over, pc, err, yielded>>,
             done' \in DoneCodes \cup {""}, closed' \in BOOLEAN
      PROVE  WatchInv'
  BY <1>1, <1>4, QuietWatch, Zenon
<1>5. ASSUME Close PROVE WatchInv'
  <2>1. done' \in DoneCodes \cup {""}
    BY <1>1, <1>5, Zenon DEF Close, cancel, DoneCodes
  <2> QED BY <1>4, <1>5, <2>1, Zenon DEF Close, brokerVars
<1>6. ASSUME NEW code \in DoneCodes, ContextDone(code) PROVE WatchInv'
  <2>1. done' \in DoneCodes \cup {""}
    BY <1>6, Zenon DEF ContextDone
  <2> QED BY <1>1, <1>4, <1>6, <2>1, Zenon DEF ContextDone, brokerVars
<1>7. CASE UNCHANGED vars
  BY <1>1, <1>4, <1>7, Zenon DEF vars
<1> QED
  BY <1>2, <1>3, <1>5, <1>6, <1>7, DeliverInv, PublishInv, WatchCallInv, BrokerEndsInv, Zenon
  DEF Next, DoneCodes

LEMMA WatchInvariant == Spec => []WatchInv
  BY WatchInvInit, WatchInvNext, PTL DEF Spec

\* The states of a watch are well formed, and Events never yields the end of
\* the stream as an error, whatever the broker sends and whoever cancels.
THEOREM WatchTypes == Spec => []WatchTypeOK
<1>1. WatchInv => WatchTypeOK
  BY Zenon DEF WatchInv
<1> QED BY <1>1, WatchInvariant, PTL

-----------------------------------------------------------------------------
\* The refinement of ChangeFeed: what its variables are here.

feedState ==
  IF stream = "none" THEN "none" ELSE IF Told # "" THEN "ended"
  ELSE IF end = "EOF" THEN "closing" ELSE "open"

feedLimit == IF end = "EOF" THEN sub.upTo ELSE 0

feedSeen == [k \in DOMAIN got |-> [of |-> got[k].of, change |-> Meaning(got[k].event)]]

feed == <<published, feedState, sub.kinds, sub.from, feedLimit, feedSeen, Told>>

LEMMA FeedVars == Feed!feedVars = feed /\ (Feed!feedVars' = feed')
  BY Zenon DEF Feed!feedVars, feed, feedState, feedLimit, feedSeen

\* What the watcher is told, by how the stream ended.
LEMMA ToldIs ==
  /\ stream = "refused" => Told = "error"
  /\ stream # "refused" /\ over = "" => Told = ""
  /\ stream # "refused" /\ over = "EOF" => Told = "clean"
  /\ stream # "refused" /\ over # "" /\ over # "EOF" => Told = "error"
<1>1. recvError("EOF").kind = "EOF" /\ (over # "EOF" => recvError(over).kind # "EOF")
  BY RecvErrorKind, Zenon
<1> QED BY <1>1, Zenon DEF Told

LEMMA ToldNext ==
  /\ stream' = "refused" => Told' = "error"
  /\ stream' # "refused" /\ over' = "" => Told' = ""
  /\ stream' # "refused" /\ over' = "EOF" => Told' = "clean"
  /\ stream' # "refused" /\ over' # "" /\ over' # "EOF" => Told' = "error"
<1>1. recvError("EOF").kind = "EOF" /\ (over' # "EOF" => recvError(over').kind # "EOF")
  BY RecvErrorKind, Zenon
<1> QED BY <1>1, Zenon DEF Told

\* The abstract steps, in terms of WatchStream's variables.
LEMMA FeedSubscribe ==
  ASSUME feedState = "none", feedState' = "open", sub'.kinds \in SUBSET Kinds,
         sub'.from = published, UNCHANGED <<published, feedLimit, feedSeen, Told>>
  PROVE  Feed!Next
  BY Zenon DEF Feed!Next, Feed!Subscribe, feedState, feedLimit, feedSeen

LEMMA FeedPublish ==
  ASSUME published < Len(Changes), published' = published + 1,
         UNCHANGED <<feedState, sub.kinds, sub.from, feedLimit, feedSeen, Told>>
  PROVE  Feed!Next
  BY Zenon DEF Feed!Next, Feed!Publish, feedState, feedLimit, feedSeen

LEMMA FeedClose ==
  ASSUME feedState = "open", feedState' = "closing", feedLimit' = published,
         UNCHANGED <<published, sub.kinds, sub.from, feedSeen, Told>>
  PROVE  Feed!Next
  BY Zenon DEF Feed!Next, Feed!CloseFeed, feedState, feedLimit, feedSeen

LEMMA FeedDeliver ==
  ASSUME feedState \in {"open", "closing"}, NEW i \in 1 .. Len(Changes),
         Feed!IsNext(i, IF feedState = "open" THEN published ELSE feedLimit),
         feedSeen' = Append(feedSeen, [of |-> i, change |-> Changes[i]]),
         UNCHANGED <<published, feedState, sub.kinds, sub.from, feedLimit, Told>>
  PROVE  Feed!Next
  BY Zenon DEF Feed!Next, Feed!Deliver, feedState, feedLimit, feedSeen

LEMMA FeedEndClean ==
  ASSUME feedState = "closing", feedState' = "ended", Told' = "clean",
         \A i \in 1 .. feedLimit : ~Feed!IsNext(i, feedLimit),
         UNCHANGED <<published, sub.kinds, sub.from, feedLimit, feedSeen>>
  PROVE  Feed!Next
  BY Zenon DEF Feed!Next, Feed!EndClean, feedState, feedLimit, feedSeen

LEMMA FeedEndError ==
  ASSUME feedState # "ended", feedState' = "ended", Told' = "error",
         UNCHANGED <<published, sub.kinds, sub.from, feedLimit, feedSeen>>
  PROVE  Feed!Next
  BY Zenon DEF Feed!Next, Feed!EndError, feedState, feedLimit, feedSeen

\* feedSeen is a sequence that grows with got.
LEMMA SeenSeq ==
  ASSUME WatchInv
  PROVE  /\ DOMAIN feedSeen = DOMAIN got
         /\ \A k \in DOMAIN got : feedSeen[k].of = got[k].of
  BY DEF feedSeen

LEMMA SeenAppend ==
  ASSUME WatchInv, Deliver
  PROVE  feedSeen' = Append(feedSeen, [of |-> Head(queue), change |-> Changes[Head(queue)]])
<1> DEFINE i == Head(queue)
           e == eventFromProto(Changes[i])
           g == [of |-> i, event |-> e]
           S == {feedSeen[k] : k \in DOMAIN got} \cup {[of |-> i, change |-> Changes[i]]}
<1>1. /\ got' = Append(got, g)
      /\ queue \in Seq(1 .. Len(Changes)) /\ queue # <<>> /\ Len(got) \in Nat
      /\ got \in Seq([of : 1 .. Len(Changes), event : EventStruct])
      /\ DOMAIN got = 1 .. Len(got)
  BY WatchFacts, Zenon DEF Deliver
<1>2. i \in 1 .. Len(Changes)
  BY <1>1
<1>3. e \in EventStruct /\ Meaning(e) = Changes[i]
  BY <1>2, EventKept, WatchAssumption
<1>4. g \in [of : 1 .. Len(Changes), event : EventStruct] /\ g.of = i /\ g.event = e
  BY <1>2, <1>3
<1> HIDE DEF i, e, g
<1>5. /\ DOMAIN got' = 1 .. Len(got) + 1
      /\ \A k \in 1 .. Len(got) : got'[k] = got[k]
      /\ got'[Len(got) + 1] = g
  BY <1>1, <1>4
<1>6. /\ feedSeen' = [k \in 1 .. Len(got) + 1 |-> feedSeen'[k]]
      /\ \A k \in 1 .. Len(got) : feedSeen'[k] = feedSeen[k]
      /\ feedSeen'[Len(got) + 1] = [of |-> i, change |-> Changes[i]]
  <2>1. feedSeen' = [k \in 1 .. Len(got) + 1 |->
                       [of |-> got'[k].of, change |-> Meaning(got'[k].event)]]
    BY <1>5, Zenon DEF feedSeen
  <2>2. feedSeen = [k \in 1 .. Len(got) |-> [of |-> got[k].of, change |-> Meaning(got[k].event)]]
    BY <1>1, Zenon DEF feedSeen
  <2>3. \A k \in 1 .. Len(got) : k \in 1 .. Len(got) + 1
    BY <1>1
  <2>4. Len(got) + 1 \in 1 .. Len(got) + 1
    BY <1>1
  <2>5. got'[Len(got) + 1].of = i /\ Meaning(got'[Len(got) + 1].event) = Changes[i]
    BY <1>3, <1>4, <1>5, Zenon
  <2> HIDE DEF feedSeen
  <2>6. \A k \in 1 .. Len(got) : feedSeen'[k] = feedSeen[k]
    BY <1>5, <2>1, <2>2, <2>3
  <2> QED BY <2>1, <2>4, <2>5, <2>6
<1>7. feedSeen \in Seq(S) /\ Len(feedSeen) = Len(got)
  BY <1>1 DEF feedSeen
<1> HIDE DEF feedSeen
<1> DEFINE a == Append(feedSeen, [of |-> i, change |-> Changes[i]])
<1>8. /\ a \in Seq(S) /\ Len(a) = Len(got) + 1
      /\ \A k \in 1 .. Len(got) : a[k] = feedSeen[k]
      /\ a[Len(got) + 1] = [of |-> i, change |-> Changes[i]]
  BY <1>1, <1>7
<1>9. a = [k \in 1 .. Len(got) + 1 |-> a[k]]
  BY <1>8
<1> HIDE DEF a
<1>10. ASSUME NEW k \in 1 .. Len(got) + 1 PROVE feedSeen'[k] = a[k]
  <2>1. CASE k = Len(got) + 1
    BY <1>6, <1>8, <2>1, Zenon
  <2>2. CASE k # Len(got) + 1
    <3>1. k \in 1 .. Len(got)
      BY <1>1, <2>2
    <3> QED BY <1>6, <1>8, <3>1
  <2> QED BY <2>1, <2>2
<1>11. feedSeen' = [k \in 1 .. Len(got) + 1 |-> a[k]]
  BY <1>6, <1>10
<1> QED BY <1>9, <1>11 DEF a, i

\* The change at the head of the queue is the next one of the feed.
LEMMA HeadIsNext ==
  ASSUME WatchInv, queue # <<>>, NEW top \in Nat, sub.upTo <= top
  PROVE  Feed!IsNext(Head(queue), top)
<1> DEFINE i == Head(queue)
<1>1. /\ queue \in Seq(1 .. Len(Changes)) /\ Len(queue) \in Nat /\ Len(Changes) \in Nat
      /\ DOMAIN queue = 1 .. Len(queue) /\ sub.from \in Nat /\ sub.upTo \in Nat
      /\ InOrder /\ NoneMissing
  BY WatchFacts, Zenon
<1>2. i = queue[1] /\ 1 \in DOMAIN queue /\ i \in Nat /\ 1 <= i
  BY <1>1
<1> HIDE DEF i
<1>3. /\ sub.from < i /\ i <= sub.upTo /\ Wanted(sub.kinds, i)
      /\ \A k \in DOMAIN got : got[k].of < i
      /\ \A l \in DOMAIN queue : 1 < l => i < queue[l]
  BY <1>1, <1>2 DEF InOrder
<1>4. i \in 1 .. top
  BY <1>1, <1>2, <1>3
<1>5. \A s \in DOMAIN feedSeen : feedSeen[s].of < i
  BY <1>3, SeenSeq
<1>6. ASSUME NEW j \in sub.from + 1 .. i - 1, Wanted(sub.kinds, j)
      PROVE  \E s \in DOMAIN feedSeen : feedSeen[s].of = j
  <2>1. j \in sub.from + 1 .. sub.upTo /\ j < i
    BY <1>1, <1>2, <1>3
  <2>2. ~ \E l \in DOMAIN queue : queue[l] = j
    <3> SUFFICES ASSUME NEW l \in DOMAIN queue, queue[l] = j PROVE FALSE
      OBVIOUS
    <3>1. l = 1 \/ 1 < l
      BY <1>1
    <3>2. i <= j
      BY <1>2, <1>3, <3>1
    <3> QED BY <1>2, <2>1, <3>2
  <2>3. PICK k \in DOMAIN got : got[k].of = j
    BY <1>1, <1>6, <2>1, <2>2 DEF NoneMissing
  <2> QED BY <2>3, SeenSeq
<1> QED BY <1>3, <1>4, <1>5, <1>6, Zenon DEF Feed!IsNext, Feed!Wanted, Wanted, feedSeen, i

\* With the queue empty, no change up to the broker's last is due.
LEMMA NoneIsNext ==
  ASSUME WatchInv, queue = <<>>, NEW i \in 1 .. sub.upTo
  PROVE  ~Feed!IsNext(i, sub.upTo)
<1> SUFFICES ASSUME Feed!IsNext(i, sub.upTo) PROVE FALSE
  OBVIOUS
<1>1. /\ i > sub.from /\ Wanted(sub.kinds, i)
      /\ \A s \in DOMAIN feedSeen : feedSeen[s].of < i
  BY Zenon DEF Feed!IsNext, Feed!Wanted, Wanted, feedSeen
<1>2. sub.from \in Nat /\ sub.upTo \in Nat /\ NoneMissing /\ DOMAIN queue = {}
  BY WatchFacts
<1>3. i \in sub.from + 1 .. sub.upTo /\ i \in Nat
  BY <1>1, <1>2
<1>4. PICK k \in DOMAIN got : got[k].of = i
  BY <1>1, <1>2, <1>3 DEF NoneMissing
<1>5. feedSeen[k].of = i /\ k \in DOMAIN feedSeen
  BY <1>4, SeenSeq
<1>6. i < i
  BY <1>1, <1>5
<1> QED BY <1>3, <1>6

LEMMA FeedNext ==
  ASSUME WatchInv, [Next]_vars PROVE [Feed!Next]_(Feed!feedVars)
<1>1. ASSUME UNCHANGED <<published, sub, end, stream, got, over>>
      PROVE  UNCHANGED Feed!feedVars
  <2>1. UNCHANGED feed
    BY <1>1, Zenon DEF feed, feedState, feedLimit, feedSeen, Told
  <2> QED BY <2>1, FeedVars, Zenon
<1>2. ASSUME UNCHANGED got PROVE UNCHANGED feedSeen
  BY <1>2, Zenon DEF feedSeen
<1>3. ASSUME NEW ks \in SUBSET Kinds, Watch(ks) PROVE Feed!Next
  <2>1. /\ stream = "none" /\ stream' \in {"open", "refused"}
        /\ UNCHANGED <<published, end, got, over>>
    BY <1>3, Zenon DEF Watch
  <2>2. end = "" /\ over = ""
    BY <2>1, Zenon DEF WatchInv, NothingYet
  <2>3. feedState = "none" /\ Told = "" /\ feedLimit = 0 /\ feedLimit' = 0
    BY <2>1, <2>2, ToldIs, Zenon DEF feedState, feedLimit
  <2>4. CASE stream' = "open"
    <3>1. sub' = [kinds |-> ks, from |-> published, upTo |-> published, lost |-> FALSE]
      BY <1>3, <2>4, Zenon DEF Watch
    <3>2. sub'.kinds = ks /\ sub'.from = published
      BY <3>1
    <3>3. Told' = "" /\ feedState' = "open"
      BY <2>1, <2>2, <2>4, ToldNext, Zenon DEF feedState
    <3> QED BY <1>2, <2>1, <2>3, <3>2, <3>3, FeedSubscribe, Zenon
  <2>5. CASE stream' = "refused"
    <3>1. UNCHANGED sub
      BY <1>3, <2>5, Zenon DEF Watch
    <3>2. Told' = "error" /\ feedState' = "ended"
      BY <2>5, ToldNext, Zenon DEF feedState
    <3> QED BY <1>2, <2>1, <2>3, <3>1, <3>2, FeedEndError, Zenon
  <2> QED BY <2>1, <2>4, <2>5, Zenon
<1>4. ASSUME Deliver PROVE Feed!Next
  <2>1. /\ pc # "idle" /\ over = "" /\ queue # <<>>
        /\ UNCHANGED <<published, sub, end, stream, over>>
    BY <1>4, Zenon DEF Deliver
  <2>2. stream = "open"
    BY <2>1, Zenon DEF WatchInv, NothingYet
  <2>3. feedState \in {"open", "closing"} /\ UNCHANGED <<feedState, feedLimit, Told>>
    BY <2>1, <2>2, ToldIs, Zenon DEF feedState, feedLimit, Told
  <2>4. /\ published \in Nat /\ sub.upTo \in Nat /\ sub.upTo <= published
        /\ Head(queue) \in 1 .. Len(Changes)
    <3>1. Head(queue) \in 1 .. Len(Changes)
      <4>1. queue # <<>> /\ queue \in Seq(1 .. Len(Changes))
        BY <2>1, WatchFacts, Zenon
      <4> QED BY <4>1
    <3> QED BY <3>1, WatchFacts DEF WatchInv, Reached
  <2>5. Feed!IsNext(Head(queue), published) /\ Feed!IsNext(Head(queue), sub.upTo)
    <3>1. sub.upTo <= sub.upTo
      BY <2>4
    <3> QED BY <2>1, <2>4, <3>1, HeadIsNext, Zenon
  <2>6. Feed!IsNext(Head(queue), IF feedState = "open" THEN published ELSE feedLimit)
    <3>1. feedState = "open" \/ feedLimit = sub.upTo
      BY <2>3, Zenon DEF feedState, feedLimit
    <3> QED BY <2>5, <3>1, Zenon
  <2> QED BY <1>4, <2>1, <2>3, <2>4, <2>6, SeenAppend, FeedDeliver, Zenon
<1>5. ASSUME EndOfStream PROVE [Feed!Next]_(Feed!feedVars)
  <2>1. /\ stream = "open" /\ UNCHANGED <<published, sub, queue, end, stream, got, done>>
        /\ over' # ""
        /\ \/ over # "" /\ over' = over
           \/ over = "" /\ over' = done
           \/ over = "" /\ over' = end /\ queue = <<>>
    BY <1>5, EndOfStreamFacts, Zenon
  <2>2. CASE over' = over
    BY <1>1, <2>1, <2>2, Zenon
  <2>3. UNCHANGED <<feedLimit, feedSeen>>
    BY <2>1, Zenon DEF feedLimit, feedSeen
  <2>4. ASSUME over = "", over' # "EOF" PROVE Feed!Next
    <3>1. Told = "" /\ Told' = "error"
      BY <2>1, <2>4, ToldIs, ToldNext, Zenon
    <3>2. feedState # "ended" /\ feedState' = "ended"
      BY <2>1, <3>1, Zenon DEF feedState
    <3> QED BY <2>1, <2>3, <3>1, <3>2, FeedEndError, Zenon
  <2>5. ASSUME over = "", over' = end, queue = <<>>, end = "EOF" PROVE Feed!Next
    <3>1. Told = "" /\ Told' = "clean"
      BY <2>1, <2>5, ToldIs, ToldNext, Zenon
    <3>2. feedState = "closing" /\ feedState' = "ended" /\ feedLimit = sub.upTo
      BY <2>1, <2>5, <3>1, Zenon DEF feedState, feedLimit
    <3>3. \A i \in 1 .. feedLimit : ~Feed!IsNext(i, feedLimit)
      BY <2>5, <3>2, NoneIsNext, Zenon
    <3> QED BY <2>1, <2>3, <3>1, <3>2, <3>3, FeedEndClean, Zenon
  <2>6. done # "EOF"
    BY Zenon DEF WatchInv, WatchTypeOK, DoneCodes
  <2> QED BY <2>1, <2>2, <2>4, <2>5, <2>6, Zenon
<1>6. ASSUME Publish PROVE Feed!Next
  <2>1. /\ published < Len(Changes) /\ published' = published + 1
        /\ UNCHANGED <<stream, got, over>>
    BY <1>6, Zenon DEF Publish
  <2>2. UNCHANGED <<sub.kinds, sub.from, feedLimit>> /\ (end' = "EOF" <=> end = "EOF")
    <3>1. CASE UNCHANGED <<sub, end>>
      BY <3>1, Zenon DEF feedLimit
    <3>2. CASE /\ serving /\ end' \in {end, "DataLoss"}
               /\ \/ sub' = [sub EXCEPT !.upTo = published + 1]
                  \/ sub' = [sub EXCEPT !.lost = TRUE]
      <4>1. end # "EOF" /\ end' # "EOF"
        BY <3>2, Zenon DEF serving
      <4>2. feedLimit = 0 /\ feedLimit' = 0
        BY <4>1, Zenon DEF feedLimit
      <4>3. sub \in [kinds : SUBSET Kinds, from : Nat, upTo : Nat, lost : BOOLEAN]
        BY WatchFacts, Zenon
      <4>4. sub' = [sub EXCEPT !.upTo = published + 1] \/ sub' = [sub EXCEPT !.lost = TRUE]
        BY <3>2, Zenon
      <4>5. sub'.kinds = sub.kinds /\ sub'.from = sub.from
        BY <4>3, <4>4
      <4> QED BY <4>1, <4>2, <4>5, Zenon
    <3> QED BY <1>6, <3>1, <3>2, Zenon DEF Publish
  <2>3. UNCHANGED <<feedState, Told>>
    BY <2>1, <2>2, Zenon DEF feedState, Told
  <2> QED BY <1>2, <2>1, <2>2, <2>3, FeedPublish, Zenon
<1>7. ASSUME NEW what \in {"EOF", "PermissionDenied", "Unavailable"}, BrokerEnds(what)
      PROVE  [Feed!Next]_(Feed!feedVars)
  <2>1. /\ serving /\ end' = what
        /\ UNCHANGED <<published, sub, stream, got, over>>
    BY <1>7, Zenon DEF BrokerEnds
  <2>2. stream = "open" /\ end = "" /\ over = "" /\ Told = "" /\ UNCHANGED Told
    BY <2>1, ToldIs, Zenon DEF serving, Told
  <2>3. feedState = "open"
    BY <2>2, Zenon DEF feedState
  <2>4. CASE what = "EOF"
    <3>1. feedState' = "closing" /\ feedLimit' = sub.upTo
      BY <2>1, <2>2, <2>4, Zenon DEF feedState, feedLimit
    <3>2. sub.upTo = published
      BY <2>1 DEF WatchInv, Reached
    <3> QED BY <1>2, <2>1, <2>2, <2>3, <3>1, <3>2, FeedClose, Zenon
  <2>5. CASE what # "EOF"
    <3>1. UNCHANGED <<feedState, feedLimit>>
      BY <2>1, <2>2, <2>5, Zenon DEF feedState, feedLimit
    <3>2. UNCHANGED feed
      BY <1>2, <2>1, <2>2, <3>1, Zenon DEF feed
    <3> QED BY <3>2, FeedVars, Zenon
  <2> QED BY <2>4, <2>5, Zenon
<1>8. ASSUME Recv \/ Events \/ Close \/ UNCHANGED vars PROVE UNCHANGED Feed!feedVars
  BY <1>1, <1>8, Zenon DEF Recv, Events, Close, vars, brokerVars
<1>9. ASSUME NEW code, ContextDone(code) PROVE UNCHANGED Feed!feedVars
  BY <1>1, <1>9, Zenon DEF ContextDone, brokerVars
<1> QED BY <1>3, <1>4, <1>5, <1>6, <1>7, <1>8, <1>9, Zenon DEF Next

\* WatchStream implements ChangeFeed: for every history, every buffer and every
\* cancellation, a watcher gets each change it asked for in order, once and
\* whole, and only a stream that the broker closed ends cleanly.
THEOREM WatchKeepsPromise == Spec => FeedPromise
<1>1. Init => Feed!Init
  <2> SUFFICES ASSUME Init PROVE Feed!Init
    OBVIOUS
  <2>1. /\ published = 0 /\ stream = "none" /\ end = "" /\ over = "" /\ got = <<>>
        /\ sub = [kinds |-> {}, from |-> 0, upTo |-> 0, lost |-> FALSE]
    BY Zenon DEF Init
  <2>2. sub.kinds = {} /\ sub.from = 0
    <3>1. sub = [kinds |-> {}, from |-> 0, upTo |-> 0, lost |-> FALSE]
      BY <2>1, Zenon
    <3> QED BY <3>1
  <2>3. feedState = "none" /\ feedLimit = 0 /\ Told = ""
    BY <2>1, ToldIs, Zenon DEF feedState, feedLimit
  <2>4. feedSeen = <<>>
    <3>1. got = <<>>
      BY <2>1, Zenon
    <3> QED BY <3>1 DEF feedSeen
  <2> QED BY <2>1, <2>2, <2>3, <2>4, Zenon DEF Feed!Init, feedState, feedLimit, feedSeen
<1>2. WatchInv /\ [Next]_vars => [Feed!Next]_(Feed!feedVars)
  BY FeedNext
<1> QED BY <1>1, <1>2, WatchInvariant, PTL DEF Spec, FeedPromise, Feed!Spec
=============================================================================
