------------------------------- MODULE MC_Runs -------------------------------
(* TLC instance of RunMemory: two processes with one thread each, named     *)
(* after it, so that the two can change places.                             *)
EXTENDS RunMemory, TLC

CONSTANTS t1, t2

MCThreads == {t1, t2}

MCProcessOf == [t \in MCThreads |-> t]

Symmetry == Permutations(MCThreads)

=============================================================================
