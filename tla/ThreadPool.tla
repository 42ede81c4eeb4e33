----------------------------- MODULE ThreadPool -----------------------------
(***************************************************************************)
(* FastAPI runs every plain "def" endpoint on a thread of a pool, so any   *)
(* two of them interleave; the services share one pool per process, and a  *)
(* pool is finite.                                                         *)
(***************************************************************************)
EXTENDS FiniteSets

CONSTANT Threads  \* threads of the pool that serve synchronous endpoints

ASSUME ThreadsAssumption == Threads # {} /\ IsFiniteSet(Threads)

=============================================================================
