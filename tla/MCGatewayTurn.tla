--------------------------- MODULE MCGatewayTurn ---------------------------
(* GatewayTurn on a small instance; Threads are model values of the cfg.    *)
EXTENDS GatewayTurn
=============================================================================
