----------------------------- MODULE MCDataStart -----------------------------
(* DataStart on a small instance.                                           *)
EXTENDS DataStart
=============================================================================
