---------------------------- MODULE StreamPromise ----------------------------
(***************************************************************************)
(* What stream/ promises the receiver of a container, whatever happened to *)
(* it on the way and wherever the call that wrote it stopped: the bytes    *)
(* that reach dst are, at every moment, a prefix of the plaintext of the   *)
(* stream the header names, and a decryption that returns nil has          *)
(* delivered all of it.  How chunks, keys and framing achieve this is left *)
(* to StreamTransfer, which implements this specification.                 *)
(***************************************************************************)
EXTENDS Integers, Sequences

CONSTANT Streams

VARIABLES
  plain,    \* [Streams -> length of the plaintext]
  from,     \* the stream being decrypted, {} or a singleton
  out,      \* bytes delivered
  verdict   \* "reading", "ok" or "failed"

promiseVars == <<plain, from, out, verdict>>

\* The first n bytes of the plaintext of stream s.
PrefixOf(s, n) == [k \in 1 .. n |-> <<s, k>>]

Init ==
  /\ plain \in [Streams -> Nat]
  /\ from = {}
  /\ out = <<>>
  /\ verdict = "reading"

\* The container turns out to be the one of stream s.
Identify(s) ==
  /\ verdict = "reading" /\ from = {}
  /\ from' = {s}
  /\ UNCHANGED <<plain, out, verdict>>

\* More of the plaintext of the stream, possibly ending in a failure.
Deliver(s) ==
  /\ verdict = "reading" /\ from = {s}
  /\ \E n \in Len(out) .. plain[s] : out' = PrefixOf(s, n)
  /\ verdict' \in {"reading", "failed"}
  /\ UNCHANGED <<plain, from>>

\* The rest of the plaintext, and success.
Finish(s) ==
  /\ verdict = "reading" /\ from = {s}
  /\ out' = PrefixOf(s, plain[s])
  /\ verdict' = "ok"
  /\ UNCHANGED <<plain, from>>

Fail ==
  /\ verdict = "reading"
  /\ verdict' = "failed"
  /\ UNCHANGED <<plain, from, out>>

Next == Fail \/ \E s \in Streams : Identify(s) \/ Deliver(s) \/ Finish(s)

Spec == Init /\ [][Next]_promiseVars
=============================================================================
