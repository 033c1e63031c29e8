---------------------------- MODULE MCDiskCache ----------------------------
(***************************************************************************)
(* Instances of DiskCache for TLC: a small entry, a middle one, and one    *)
(* that exceeds every limit.                                               *)
(***************************************************************************)
EXTENDS DiskCache, TLC

CONSTANTS p1, p2, k1, k2, small, middle, large

MCSize == (small :> 1) @@ (middle :> 2) @@ (large :> 4)
MCSizeTwo == (small :> 1) @@ (middle :> 2)

Symmetry == Permutations(Procs) \cup Permutations(Keys)
=============================================================================
