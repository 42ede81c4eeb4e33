------------------------------ MODULE MC_Codex ------------------------------
(* TLC instance of CodexSessions: racing approvals and their workers.       *)
EXTENDS CodexSessions, TLC

Symmetry == Permutations(Threads)

=============================================================================
