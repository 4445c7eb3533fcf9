-------------------------- MODULE MCAdvisorRequests --------------------------
(* AdvisorRequests on a small instance.                                     *)
EXTENDS AdvisorRequests
=============================================================================
