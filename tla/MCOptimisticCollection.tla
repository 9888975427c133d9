---------------------- MODULE MCOptimisticCollection ----------------------
(* Symmetry for the runs of OptimisticCollection: requests are only        *)
(* compared for equality.                                                  *)
EXTENDS OptimisticCollectionInv, TLC

Symmetry == Permutations(Fetch)
=============================================================================
