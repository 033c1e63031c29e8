----------------------------- MODULE Rendezvous -----------------------------
(***************************************************************************)
(* Which node stores a key (internal/server/cluster).  Rendezvous hashing: *)
(* every node of the configured list has a distance to the key, and the    *)
(* nearest one is the target.  The order in which the list names its nodes *)
(* does not matter.  Two nodes at the same distance, a collision of 64-bit *)
(* hashes, are assumed away.                                               *)
(***************************************************************************)
EXTENDS Naturals, FiniteSets

CONSTANTS
  Nodes,   \* node addresses
  Rank     \* Rank[k][n]: the distance of node n to key k

ASSUME RankType == \A k \in DOMAIN Rank : Rank[k] \in [Nodes -> Nat]
ASSUME RankInjective ==
  \A k \in DOMAIN Rank : \A m, n \in Nodes : Rank[k][m] = Rank[k][n] => m = n

Nearest(n, list, k) == n \in list /\ \A m \in list : Rank[k][n] <= Rank[k][m]

(* Mutant: the hash of the key, modulo the number of nodes, is an index    *)
(* into the list.                                                          *)
TargetNodeModulo(list, k) ==
  CHOOSE n \in list :
    Cardinality({m \in list : Rank[k][m] < Rank[k][n]}) = 7 % Cardinality(list)

TargetNode(list, k) == CHOOSE n \in list : Nearest(n, list, k)
=============================================================================
