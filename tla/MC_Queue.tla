------------------------------ MODULE MC_Queue ------------------------------
(* TLC instance of SimulationQueue: racing robots, ERP users and resets.    *)
EXTENDS SimulationQueue, TLC

Symmetry == Permutations(Threads)

=============================================================================
