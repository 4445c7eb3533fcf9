------------------------------ MODULE MCSendAck ------------------------------
(***************************************************************************)
(* Instances of SendAck for TLC.                                           *)
(***************************************************************************)
EXTENDS SendAck

CONSTANT a

OneMsg == {a}
=============================================================================
