--------------------------- MODULE SchedulerProofs ---------------------------
(***************************************************************************)
(* Theorems about Scheduler, for every pool, set of callbacks and set of   *)
(* fibers, when no client schedules a fiber that is scheduled already.     *)
(***************************************************************************)
EXTENDS SchedulerCore, FiniteSetTheorems

\* The threads that m_idleThreadCount counts.
Idlers == {t \in Threads : pc[t] = "idle"}

\* The sets that the counters count are finite, before and after any step.
LEMMA BusyFinite == IsFiniteSet(Busy) /\ IsFiniteSet(Idlers) /\ IsFiniteSet(Busy') /\ IsFiniteSet(Idlers')
  BY FS_Subset, SchedulerAssumption, Zenon DEF Busy, Idlers

\* A step keeps both counters exact.
LEMMA CountersStep ==
  ASSUME Core, Counters, [Next]_vars  PROVE Counters'
<1>0. /\ m_activeThreadCount = Cardinality(Busy) /\ m_idleThreadCount = Cardinality(Idlers)
      /\ m_activeThreadCount \in Nat /\ m_idleThreadCount \in Nat
  BY BusyFinite, FS_CardinalityType DEF Counters, Idlers
<1>10. DOMAIN pc = Threads /\ DOMAIN ft = Threads
  BY DEF Core, Types
<1>1. ASSUME Busy' = Busy, Idlers' = Idlers, UNCHANGED countVars  PROVE Counters'
  BY <1>0, <1>1 DEF Counters, Idlers, countVars
<1>2. CASE UNCHANGED vars
  BY <1>1, <1>2 DEF vars, countVars, taskVars, Busy, Idlers
<1>3. ASSUME NEW t \in Threads, Run(t)  PROVE Counters'
  <2>1. CASE Take(t)
    <3>1. PICK i \in DOMAIN m_fibers : ft' = [ft EXCEPT ![t] = m_fibers[i]]
      BY <2>1, Zenon DEF Take
    <3>2. m_fibers[i] # NoTask
      BY DEF Core, Fib, Tasks, Shape, NoTask
    <3>3. /\ pc[t] = "scan" /\ pc' = [pc EXCEPT ![t] = "dispatch"]
          /\ m_activeThreadCount' = m_activeThreadCount + 1 /\ UNCHANGED m_idleThreadCount
      BY <2>1, Zenon DEF Take, At, Goto
    <3>4. t \notin Busy /\ Busy' = Busy \cup {t} /\ Idlers' = Idlers
      BY <1>10, <3>1, <3>2, <3>3 DEF Busy, Idlers
    <3>5. Cardinality(Busy \cup {t}) = Cardinality(Busy) + 1
      BY <3>4, BusyFinite, FS_AddElement
    <3> QED  BY <1>0, <3>3, <3>4, <3>5, Zenon DEF Counters, Idlers
  <2>2. CASE EnterIdle(t)
    <3>1. /\ pc[t] = "dispatch" /\ ft[t] = NoTask /\ pc' = [pc EXCEPT ![t] = "idle"] /\ ft' = ft
          /\ m_idleThreadCount' = m_idleThreadCount + 1 /\ UNCHANGED m_activeThreadCount
      BY <2>2 DEF EnterIdle, At, Goto, taskVars
    <3>2. t \notin Idlers /\ Idlers' = Idlers \cup {t} /\ Busy' = Busy
      BY <1>10, <3>1 DEF Busy, Idlers
    <3>3. Cardinality(Idlers \cup {t}) = Cardinality(Idlers) + 1
      BY <3>2, BusyFinite, FS_AddElement
    <3> QED  BY <1>0, <3>1, <3>2, <3>3, Zenon DEF Counters, Idlers
  <2>3. CASE Back(t)
    <3>1. /\ pc[t] = "back" /\ pc' = [pc EXCEPT ![t] = "post"] /\ ft' = ft
          /\ m_activeThreadCount' = m_activeThreadCount - 1 /\ UNCHANGED m_idleThreadCount
      BY <2>3 DEF Back, At, Goto, taskVars
    <3>2. t \in Busy /\ Busy' = Busy \ {t} /\ Idlers' = Idlers
      BY <1>10, <3>1, Zenon DEF Busy, Idlers
    <3>3. Cardinality(Busy \ {t}) = Cardinality(Busy) - 1
      BY <3>2, BusyFinite, FS_RemoveElement
    <3> QED  BY <1>0, <3>1, <3>2, <3>3, Zenon DEF Counters, Idlers
  <2>4. CASE Discard(t)
    BY <2>4, Zenon DEF Discard, At, Core, Fib, Positions, Position, Ended
  <2>5. CASE FindNothing(t) \/ Exit(t)
    BY <1>10, <1>1, <2>5 DEF FindNothing, Exit, At, Goto, Busy, Idlers
  <2>6. CASE RunFiber(t)
    BY <1>10, <1>1, <2>6 DEF RunFiber, At, Goto, Busy, Idlers, NoTask
  <2>7. CASE RunCb(t)
    BY <1>10, <1>1, <2>7 DEF RunCb, At, Goto, Busy, Idlers, NoTask
  <2>8. CASE Reschedule(t) \/ Finish(t) \/ Hold(t)
    BY <1>10, <1>1, <2>8 DEF Reschedule, Finish, Hold, DropCurrent, At, Goto, Busy, Idlers
  <2> QED  BY <1>3, <2>1, <2>2, <2>3, <2>4, <2>5, <2>6, <2>7, <2>8 DEF Run
<1>4. ASSUME NEW t \in Threads, Job(t)  PROVE Counters'
  <2>1. /\ ft' = ft /\ UNCHANGED countVars
        /\ \/ pc' = pc
           \/ /\ pc[t] \in {"exec", "switch"}
              /\ pc' = [pc EXCEPT ![t] = "back"] \/ pc' = [pc EXCEPT ![t] = "switch"]
    BY <1>4 DEF Job, JobSchedule, JobPark, JobSwitchTo, YieldToHold, YieldToReady, MainFuncReturn,
       MainFuncThrow, At, Goto, taskVars
  <2> QED  BY <1>10, <1>1, <2>1 DEF Busy, Idlers
<1>5. ASSUME NEW t \in Threads, Idle(t)  PROVE Counters'
  <2>1. /\ pc[t] = "idle" /\ pc' = [pc EXCEPT ![t] = "scan"] /\ ft' = ft
        /\ m_idleThreadCount' = m_idleThreadCount - 1 /\ UNCHANGED m_activeThreadCount
    BY <1>5 DEF Idle, At, Goto, taskVars
  <2>2. t \in Idlers /\ Idlers' = Idlers \ {t} /\ Busy' = Busy
    BY <1>10, <2>1 DEF Busy, Idlers
  <2>3. Cardinality(Idlers \ {t}) = Cardinality(Idlers) - 1
    BY <2>2, BusyFinite, FS_RemoveElement
  <2> QED  BY <1>0, <2>1, <2>2, <2>3, Zenon DEF Counters, Idlers
<1>6. ASSUME NEW a, Tickle(a)  PROVE Counters'
  BY <1>1, <1>6 DEF Tickle, taskVars, Busy, Idlers
<1>7. CASE ClientSchedule \/ Wake \/ ScheduleAgain
  BY <1>1, <1>7 DEF ClientSchedule, Wake, ScheduleAgain, Busy, Idlers
<1>8. CASE Start
  BY <1>10, <1>1, <1>8 DEF Start, Core, Phases, taskVars, Busy, Idlers
<1>9. CASE Stop
  <2>1. /\ ft' = ft /\ UNCHANGED countVars
        /\ \/ pc' = pc
           \/ Root \in Threads /\ pc[Root] = "off" /\ pc' = [pc EXCEPT ![Root] = "scan"]
    BY <1>9, Zenon DEF Stop, StopAuto, StopAlone, StopFlag, StopCall, StopCalled, StopJoin, Goto, taskVars, Core, Phases
  <2> QED  BY <1>10, <1>1, <2>1 DEF Busy, Idlers
<1> QED  BY <1>2, <1>3, <1>4, <1>5, <1>6, <1>7, <1>8, <1>9 DEF Next, Stopped

-----------------------------------------------------------------------------
\* The number of tickle() calls an actor owes.
Ticks == tick \in [Threads \cup {Main, Waker} -> Nat]

\* A step keeps it a natural number.
LEMMA TicksStep ==
  ASSUME Ticks, [Next]_vars  PROVE Ticks'
<1> DEFINE Actors == Threads \cup {Main, Waker}
<1>1. ASSUME NEW a \in Actors, NEW task, Schedule(a, task)  PROVE Ticks'
  BY <1>1 DEF Ticks, Schedule
<1>2. ASSUME NEW a \in Actors, NEW n \in Nat, tick' = [tick EXCEPT ![a] = n]  PROVE Ticks'
  BY <1>2 DEF Ticks
<1>3. ASSUME tick' = tick  PROVE Ticks'
  BY <1>3 DEF Ticks
<1>4. CASE UNCHANGED vars
  BY <1>3, <1>4 DEF vars
<1>5. ASSUME NEW t \in Threads, Run(t) \/ Job(t) \/ Idle(t)  PROVE Ticks'
  <2>1. CASE Take(t)
    <3>1. PICK n \in {0, 1} : tick' = [tick EXCEPT ![t] = n]
      BY <2>1, Zenon DEF Take
    <3> QED  BY <1>2, <3>1, Zenon
  <2>2. CASE FindNothing(t)
    <3>1. PICK n \in {0, 1} : tick' = [tick EXCEPT ![t] = n]
      BY <2>2, Zenon DEF FindNothing
    <3> QED  BY <1>2, <3>1, Zenon
  <2>3. CASE JobSchedule(t) \/ JobSwitchTo(t) \/ Reschedule(t)
    <3>1. \E task : Schedule(t, task)
      BY <2>3 DEF JobSchedule, JobSwitchTo, Reschedule
    <3> QED  BY <1>1, <3>1
  <2>4. CASE ~(Take(t) \/ FindNothing(t) \/ JobSchedule(t) \/ JobSwitchTo(t) \/ Reschedule(t))
    <3>1. tick' = tick
      BY <1>5, <2>4, Zenon DEF Run, Job, Idle, RunFiber, RunCb, Discard, EnterIdle, Exit, Back, Finish, Hold,
         JobPark, YieldToHold, YieldToReady, MainFuncReturn, MainFuncThrow
    <3> QED  BY <1>3, <3>1
  <2> QED  BY <2>1, <2>2, <2>3, <2>4
<1>6. ASSUME NEW a \in Actors, Tickle(a)  PROVE Ticks'
  BY <1>6 DEF Tickle, Ticks
<1>7. CASE ClientSchedule \/ Wake \/ ScheduleAgain
  <2>1. \E a \in Actors : \E task : Schedule(a, task)
    BY <1>7, Zenon DEF ClientSchedule, Wake, ScheduleAgain
  <2> QED  BY <1>1, <2>1
<1>8. CASE StopFlag
  <2>1. Cardinality(Threads) \in Nat
    BY FS_CardinalityType, SchedulerAssumption
  <2> QED  BY <1>2, <1>8, <2>1, Zenon DEF StopFlag
<1>9. CASE Start \/ (Stop /\ ~StopFlag) \/ Stopped
  <2>1. tick' = tick
    BY <1>9, Zenon DEF Start, Stop, StopAuto, StopAlone, StopCall, StopCalled, StopJoin, Stopped, vars
  <2> QED  BY <1>3, <2>1
<1> QED  BY <1>4, <1>5, <1>6, <1>7, <1>8, <1>9 DEF Next

\* The two counters and the ticks, with Core, are inductive.
THEOREM CountInvariant ==
  ASSUME ~Duplicates PROVE Spec => [](Counters /\ Ticks)
<1>1. Init => Counters /\ Ticks
  <2> SUFFICES ASSUME Init  PROVE Counters /\ Ticks
    OBVIOUS
  <2>1. Busy = {} /\ Idlers = {}
    BY DEF Init, Busy, Idlers
  <2>2. Counters
    BY <2>1, FS_EmptySet, Zenon DEF Init, Counters, Idlers
  <2>3. Ticks
    BY DEF Init, Ticks
  <2> QED  BY <2>2, <2>3
<1>2. Core /\ Counters /\ Ticks /\ [Next]_vars => (Counters /\ Ticks)'
  BY CountersStep, TicksStep
<1> QED  BY <1>1, <1>2, CoreInvariant, PTL DEF Spec

\* The counters that stopping() and tickle() read are exact.
THEOREM CountersExact == ASSUME ~Duplicates PROVE Spec => []Counters
  BY CountInvariant, PTL

\* Type correctness; in particular neither counter of threads underflows.
THEOREM TypeCorrect == ASSUME ~Duplicates PROVE Spec => []TypeOK
<1>1. Core /\ Counters /\ Ticks => TypeOK
  <2> SUFFICES ASSUME Core, Counters, Ticks  PROVE TypeOK
    OBVIOUS
  <2>1. m_activeThreadCount \in Nat /\ m_idleThreadCount \in Nat
    BY BusyFinite, FS_CardinalityType DEF Counters, Idlers
  <2> QED  BY <2>1, Zenon DEF Core, Types, Ticks, TypeOK
<1> QED  BY <1>1, CoreInvariant, CountInvariant, PTL
=============================================================================
