-------------------------- MODULE MCSealedExchange --------------------------
(***************************************************************************)
(* SealedExchange for TLC: two ticks to the second, a few seconds of time. *)
(***************************************************************************)
EXTENDS SealedExchange, TLC

CONSTANTS c1, c2

\* Calls are interchangeable: no definition tells one from another.
CallSymmetry == Permutations(Calls)

MCChallenges == {{"challenge"}, {"wrongLength"}}

MCNoChallenge == {{}}

MCDrifts == {-2, 2}

MCNoDrift == {0}
=============================================================================
