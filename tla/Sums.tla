-------------------------------- MODULE Sums --------------------------------
(* The sum of a function's values, as lo.SumBy adds up the sizes of the    *)
(* cache entries in internal/cache/disk/disk.go.                           *)
EXTENDS Naturals, FiniteSetsExt

SumBy(size) == MapThenSumSet(LAMBDA k : size[k], DOMAIN size)
=============================================================================
