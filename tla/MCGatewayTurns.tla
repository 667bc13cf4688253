---------------------------- MODULE MCGatewayTurns ----------------------------
(* GatewayTurns for TLC: requests and workers are interchangeable.            *)
EXTENDS GatewayTurns, TLC

Symmetry == Permutations(Requests) \cup Permutations(Workers)
=============================================================================
