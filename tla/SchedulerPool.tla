---------------------------- MODULE SchedulerPool ----------------------------
(* Scheduler as an implementation of TaskPool. *)
EXTENDS Scheduler

\* The callback that thread t is executing, if any, and those of all threads.
Executes(t) == IF pc[t] \in {"exec", "switch"} THEN m_cb[Current(t)] ELSE None
Executed == [t \in Threads |-> Executes(t)]

Pool == INSTANCE TaskPool WITH
  running <- Executed,
  ended <- done,
  stopped <- mpc = "stopped"

\* The scheduler implements TaskPool: a callback is executed by one thread at a
\* time, is not started again when it has ended, and nothing runs after stop().
ImplementsTaskPool == Pool!Spec
=============================================================================
