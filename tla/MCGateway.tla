------------------------------ MODULE MCGateway ------------------------------
(* Instances of GatewayController for TLC. *)
EXTENDS GatewayProperties, TLC

CONSTANTS g1, g2, g3

(* A gateway's identity is nothing but a name. *)
Symmetry == Permutations(Gateways)
=============================================================================
