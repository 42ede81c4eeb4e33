---------------------------- MODULE MC_Services ----------------------------
(* TLC instance of ModernizationServices.                                  *)
EXTENDS ModernizationServices, TLC

Symmetry == Permutations(Threads)

=============================================================================
