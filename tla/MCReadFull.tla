----------------------------- MODULE MCReadFull -----------------------------
(***************************************************************************)
(* ReadFull for TLC.                                                       *)
(***************************************************************************)
EXTENDS ReadFull

MCKEMCtLen == [s \in KEMSuites |-> 1]
=============================================================================
