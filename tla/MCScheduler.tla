----------------------------- MODULE MCScheduler -----------------------------
(* Small pools for TLC. *)
EXTENDS SchedulerPool, TLC

CONSTANTS t1, t2, j1, j2, j3, f1, f2, f3

PoolSymmetry == Permutations(Fibers) \cup Permutations(Jobs)
=============================================================================
