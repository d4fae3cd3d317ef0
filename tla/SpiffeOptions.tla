--------------------------- MODULE SpiffeOptions ----------------------------
(***************************************************************************)
(* The go-spiffe client options that bind a client to a socket             *)
(* (spiffe/spiffe.go).  An option is [sets, to].                           *)
(***************************************************************************)
EXTENDS Sequences

CONSTANT Endpoints   \* the socket paths that carry a scheme

socketAddr(path) == IF path \in Endpoints THEN path ELSE "unix://" \o path

\* What clientOptions appends to the caller's options.
boundOptions(socketPath) ==
  <<[sets |-> "address", to |-> socketAddr(socketPath)],
    [sets |-> "authority", to |-> "localhost"]>>
=============================================================================
