----------------------------- MODULE MCServer ------------------------------
(* Instances of Server for TLC. *)
EXTENDS Server, TLC

CONSTANTS n1, n2, a1, a2, alias, site, r1, r2

(* Node n2 is known by an alias too. *)
MCAddr == (n1 :> a1) @@ (n2 :> a2)
MCResolve == (a1 :> n1) @@ (a2 :> n2) @@ (alias :> n2) @@ (site :> Origin)
MCTarget == [h \in Names |-> a1]
=============================================================================
