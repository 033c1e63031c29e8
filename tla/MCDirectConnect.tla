-------------------------- MODULE MCDirectConnect --------------------------
(* Instances of DirectConnect for TLC. *)
EXTENDS DirectConnect, TLC

CONSTANTS n1, n2, k1, k2, old, new

Symmetry == Permutations(Nodes) \cup Permutations(Keys) \cup Permutations(Secrets)
=============================================================================
