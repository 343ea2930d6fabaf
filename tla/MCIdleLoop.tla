------------------------------ MODULE MCIdleLoop ------------------------------
(* IdleLoop on small instances. *)
EXTENDS IdleLoop, TLC

CONSTANTS c1, c2, t1, t2, k1, k2

IdleSymmetry == Permutations(Timers) \cup Permutations(Tasks)
=============================================================================
