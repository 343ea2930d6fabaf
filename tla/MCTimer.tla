------------------------------- MODULE MCTimer -------------------------------
(* Timer on small instances. *)
EXTENDS Timer, TLC

CONSTANTS c1, c2, t1, t2

TimerSymmetry == Permutations(Timers) \cup Permutations(Threads)
=============================================================================
