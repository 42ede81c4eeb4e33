---------------------------- MODULE MC_Approvals ----------------------------
(* TLC instance of ApprovalStore: racing creates and racing decisions.      *)
EXTENDS ApprovalStore, TLC

Symmetry == Permutations(Threads) \cup Permutations(Requests)

=============================================================================
