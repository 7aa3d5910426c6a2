--------------------------- MODULE MCGatewayLinks ----------------------------
(* Instances of GatewayLinks for TLC. *)
EXTENDS GatewayLinks

MCFds == 1..2
==============================================================================
