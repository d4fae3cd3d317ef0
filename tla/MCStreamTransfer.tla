-------------------------- MODULE MCStreamTransfer --------------------------
(***************************************************************************)
(* StreamTransfer for TLC.                                                 *)
(***************************************************************************)
EXTENDS StreamTransfer

MCKEMCtLen == [s \in KEMSuites |-> CASE s = "MLKEM512" -> 1
                                     [] s = "MLKEM768" -> 2
                                     [] OTHER -> 3]
=============================================================================
