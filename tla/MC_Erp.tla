------------------------------- MODULE MC_Erp -------------------------------
(* TLC instance of ErpWorkQueue: one pool thread and one coroutine.         *)
EXTENDS ErpWorkQueue

=============================================================================
