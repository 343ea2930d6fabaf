------------------------------ MODULE TaskPool ------------------------------
(***************************************************************************)
(* What Scheduler promises its clients: a pool of threads executes each    *)
(* callback at most once from its beginning to its end, in slices, one     *)
(* thread at a time; a callback that ended never runs again, and nothing   *)
(* runs once stop() has returned.                                          *)
(***************************************************************************)
CONSTANTS Threads, Jobs, None

VARIABLES
  fresh,    \* callbacks nobody has scheduled
  running,  \* the callback each thread is executing, or None
  ended,    \* callbacks that returned or threw
  stopped   \* stop() has returned

vars == <<fresh, running, ended, stopped>>

Init ==
  /\ fresh = Jobs
  /\ running = [t \in Threads |-> None]
  /\ ended = {}
  /\ stopped = FALSE

Submit(j) ==
  /\ j \in fresh
  /\ fresh' = fresh \ {j}
  /\ UNCHANGED <<running, ended, stopped>>

Begin(t, j) ==
  /\ ~stopped
  /\ running[t] = None
  /\ j \in Jobs \ (fresh \cup ended)
  /\ \A u \in Threads : running[u] # j
  /\ running' = [running EXCEPT ![t] = j]
  /\ UNCHANGED <<fresh, ended, stopped>>

Suspend(t) ==
  /\ running[t] # None
  /\ running' = [running EXCEPT ![t] = None]
  /\ UNCHANGED <<fresh, ended, stopped>>

End(t) ==
  /\ running[t] # None
  /\ running' = [running EXCEPT ![t] = None]
  /\ ended' = ended \cup {running[t]}
  /\ UNCHANGED <<fresh, stopped>>

StopReturns ==
  /\ \A t \in Threads : running[t] = None
  /\ stopped' = TRUE
  /\ UNCHANGED <<fresh, running, ended>>

Next ==
  \/ \E j \in Jobs : Submit(j) \/ \E t \in Threads : Begin(t, j)
  \/ \E t \in Threads : Suspend(t) \/ End(t)
  \/ StopReturns

Spec == Init /\ [][Next]_vars
=============================================================================
