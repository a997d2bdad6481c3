-------------------------- MODULE MCGatewayReports --------------------------
(* An instance of GatewayReports for TLC. *)
EXTENDS GatewayReports

CONSTANTS t1, t2, damaged, normal, left, right

MCOverlapping == {<<p, p>> : p \in Place}
=============================================================================
