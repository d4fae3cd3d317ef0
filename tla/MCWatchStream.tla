--------------------------- MODULE MCWatchStream ----------------------------
EXTENDS WatchStream

MCZeroTime == -1000

\* One change of each kind, with and without the optional fields.
MCChanges ==
  <<[Kind |-> 1, At |-> {5}, Detail |-> {[KeyRotated |-> [KeyId |-> "k", NewVersion |-> 2]]}],
    [Kind |-> 2, At |-> {0}, Detail |-> {[BundleChanged |-> [TrustDomain |-> "t"]]}],
    [Kind |-> 3, At |-> {}, Detail |-> {[Revoked |-> [TrustDomain |-> "t", Id |-> "j"]]}],
    [Kind |-> 1, At |-> {}, Detail |-> {}]>>
=============================================================================
