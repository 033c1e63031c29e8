-------------------------- MODULE RendezvousProofs --------------------------
(***************************************************************************)
(* What TargetNode guarantees, for every list of nodes and every distance. *)
(***************************************************************************)
EXTENDS Rendezvous, TLAPS, NaturalsInduction, WellFoundedInduction

(* A nonempty set of natural numbers has a least element. *)
LEMMA LeastElement ==
  ASSUME NEW S \in SUBSET Nat, S # {}
  PROVE  \E x \in S : \A y \in S : x <= y
<1>1. IsWellFoundedOn(OpToRel(<, Nat), Nat)
  BY NatLessThanWellFounded
<1>2. PICK x \in S : \A y \in S : ~ (<<y, x>> \in OpToRel(<, Nat))
  BY <1>1, WFMin
<1>3. ASSUME NEW y \in S PROVE x <= y
  <2>1. ~ (y < x)
    BY <1>2 DEF OpToRel
  <2> QED BY <2>1
<1> QED BY <1>3

(* A list that is not empty has exactly one nearest node to a key, and     *)
(* TargetNode is that node: every handler with this list computes the same *)
(* target, whatever the order of the list.                                 *)
THEOREM TargetIsNearest ==
  ASSUME NEW k \in DOMAIN Rank, NEW list \in SUBSET Nodes, list # {}
  PROVE  /\ TargetNode(list, k) \in list
         /\ \A n \in list : Nearest(n, list, k) <=> n = TargetNode(list, k)
<1> DEFINE S == {Rank[k][n] : n \in list}
<1>1. \A n \in Nodes : Rank[k][n] \in Nat
  BY RankType
<1>2. S \in SUBSET Nat /\ S # {}
  BY <1>1
<1>3. PICK x \in S : \A y \in S : x <= y
  BY <1>2, LeastElement
<1>4. PICK n \in list : Rank[k][n] = x
  BY <1>3
<1>5. Nearest(n, list, k)
  BY <1>3, <1>4 DEF Nearest
<1>6. TargetNode(list, k) \in list /\ Nearest(TargetNode(list, k), list, k)
  BY <1>5 DEF TargetNode
<1>7. ASSUME NEW m \in list, Nearest(m, list, k) PROVE m = TargetNode(list, k)
  <2> DEFINE t == TargetNode(list, k)
  <2>1. Rank[k][m] <= Rank[k][t] /\ Rank[k][t] <= Rank[k][m]
    BY <1>6, <1>7 DEF Nearest
  <2>2. Rank[k][m] = Rank[k][t]
    BY <2>1, <1>1, <1>6
  <2> QED BY <2>2, <1>6, RankInjective
<1> QED BY <1>6, <1>7

(* When a list is replaced by another one, a key moves only to a node that *)
(* the list gained or away from one that it lost.                          *)
THEOREM MinimalDisruption ==
  ASSUME NEW k \in DOMAIN Rank,
         NEW old \in SUBSET Nodes, old # {}, NEW new \in SUBSET Nodes, new # {}
  PROVE  \/ TargetNode(new, k) = TargetNode(old, k)
         \/ TargetNode(new, k) \in new \ old
         \/ TargetNode(old, k) \in old \ new
<1> DEFINE o == TargetNode(old, k)
           n == TargetNode(new, k)
<1>1. o \in old /\ n \in new /\ Nearest(o, old, k) /\ Nearest(n, new, k)
  BY TargetIsNearest
<1>2. ASSUME n \in old, o \in new PROVE n = o
  <2>1. Rank[k][o] <= Rank[k][n] /\ Rank[k][n] <= Rank[k][o]
    BY <1>1, <1>2 DEF Nearest
  <2>2. Rank[k][o] \in Nat /\ Rank[k][n] \in Nat
    BY <1>1, RankType
  <2>3. Rank[k][o] = Rank[k][n]
    BY <2>1, <2>2
  <2> QED BY <2>3, <1>1, RankInjective
<1> QED BY <1>1, <1>2
=============================================================================
