----------------------- MODULE MCLocalNetworkHelper -----------------------
(* Instances of LocalNetworkHelper for TLC. *)
EXTENDS LocalNetworkHelper, TLC

CONSTANTS d1, d2, d3

Symmetry == Permutations(Dials)
=============================================================================
