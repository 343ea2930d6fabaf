------------------------- MODULE SchedulerPoolProofs -------------------------
(***************************************************************************)
(* Scheduler implements TaskPool, for every pool whose clients schedule no *)
(* fiber that is scheduled already; and stop() returns when everything is  *)
(* done, where tasks are for any thread and none parks itself.             *)
(***************************************************************************)
EXTENDS SchedulerCore, SchedulerPool

Live == {"INIT", "HOLD", "READY", "EXEC"}

\* The five places of a callback: it is fresh, in the list, taken by a thread,
\* with a fiber that has not ended, or done.  It is at exactly one of them.
Listed(q, j) == \E i \in DOMAIN q : q[i].cb = j
Taken(t, j) == ft[t].cb = j
Carried(f, j) == m_cb[f] = j /\ m_state[f] \in Live

Place(j) ==
  /\ j \in fresh => j \notin done
  /\ j \in fresh \cup done => ~Listed(m_fibers, j)
  /\ \A t \in Threads : Taken(t, j) => j \notin fresh \cup done /\ ~Listed(m_fibers, j)
  /\ \A t, u \in Threads : Taken(t, j) /\ Taken(u, j) => t = u
  /\ \A f \in Fibers : Carried(f, j) => /\ j \notin fresh \cup done /\ ~Listed(m_fibers, j)
                                        /\ \A t \in Threads : ~Taken(t, j)
  /\ \A f, g \in Fibers : Carried(f, j) /\ Carried(g, j) => f = g
  /\ \/ j \in fresh \cup done \/ Listed(m_fibers, j)
     \/ (\E t \in Threads : Taken(t, j)) \/ \E f \in Fibers : Carried(f, j)

Unique(q) == \A i, k \in DOMAIN q : q[i].cb # None /\ q[i].cb = q[k].cb => i = k

Placed == Unique(m_fibers) /\ \A j \in Jobs : Place(j)

\* Who is still in run() when stop() joins the threads, and when it returns.
Joined ==
  /\ mpc \in {"join", "stopped"} => \A t \in Threads : t = Root => pc[t] \in {"off", "exited"}
  /\ mpc = "stopped" => \A t \in Threads : pc[t] \in {"off", "exited"}

-----------------------------------------------------------------------------
(* Places. *)

\* What a push and an erase do to the callbacks in a list.
LEMMA PushCb ==
  ASSUME NEW q \in Seq(FiberAndThread), NEW e \in FiberAndThread
  PROVE  /\ \A j : Listed(Append(q, e), j) <=> Listed(q, j) \/ e.cb = j
         /\ Unique(q) /\ (e.cb = None \/ ~Listed(q, e.cb)) => Unique(Append(q, e))
<1> DEFINE r == Append(q, e)
<1>1. /\ Len(q) \in Nat /\ DOMAIN q = 1..Len(q) /\ DOMAIN r = 1..(Len(q) + 1)
      /\ \A k \in 1..Len(q) : r[k] = q[k]
      /\ r[Len(q) + 1] = e
  OBVIOUS
<1> HIDE DEF r
<1>2. \A j : Listed(r, j) <=> Listed(q, j) \/ e.cb = j
  <2>1. Len(q) + 1 \in DOMAIN r /\ \A k \in DOMAIN q : k \in DOMAIN r
    BY <1>1
  <2>2. \A k \in DOMAIN r : k \in DOMAIN q \/ k = Len(q) + 1
    BY <1>1
  <2> QED  BY <1>1, <2>1, <2>2, Zenon DEF Listed
<1>3. Unique(q) /\ (e.cb = None \/ ~Listed(q, e.cb)) => Unique(r)
  BY <1>1 DEF Unique, Listed
<1> QED  BY <1>2, <1>3, Zenon DEF r

\* Taking an entry out of m_fibers takes its callback out and no other.
LEMMA EraseCb ==
  ASSUME NEW q \in Seq(FiberAndThread), NEW i \in DOMAIN q, Unique(q)
  PROVE  /\ \A j : j # None => (Listed(Erase(q, i), j) <=> Listed(q, j) /\ q[i].cb # j)
         /\ Unique(Erase(q, i))
<1> DEFINE r == Erase(q, i)
           old(m) == IF m < i THEN m ELSE m + 1
<1>1. /\ DOMAIN q = 1..Len(q) /\ Len(q) \in Nat /\ i \in 1..Len(q)
      /\ DOMAIN r = 1..(Len(q) - 1)
      /\ \A m \in DOMAIN r : r[m] = q[old(m)]
  BY DEF Erase
<1> HIDE DEF r
<1>2. /\ \A m \in DOMAIN r : old(m) \in DOMAIN q /\ old(m) # i
      /\ \A m, n \in DOMAIN r : old(m) = old(n) => m = n
      /\ \A k \in DOMAIN q : k # i => \E m \in DOMAIN r : old(m) = k
  <2>1. ASSUME NEW k \in DOMAIN q, k # i  PROVE \E m \in DOMAIN r : old(m) = k
    <3>1. CASE k < i
      BY <1>1, <3>1
    <3>2. CASE ~(k < i)
      <4>1. k - 1 \in DOMAIN r /\ old(k - 1) = k
        BY <1>1, <2>1, <3>2
      <4> QED  BY <4>1
    <3> QED  BY <3>1, <3>2
  <2> QED  BY <1>1, <2>1
<1> HIDE DEF old
<1>3. Unique(r)
  <2> SUFFICES ASSUME NEW m \in DOMAIN r, NEW n \in DOMAIN r, r[m].cb # None, r[m].cb = r[n].cb
               PROVE  m = n
    BY DEF Unique
  <2>1. /\ old(m) \in DOMAIN q /\ old(n) \in DOMAIN q
        /\ q[old(m)].cb # None /\ q[old(m)].cb = q[old(n)].cb
    BY <1>1, <1>2, Zenon
  <2>2. old(m) = old(n)
    BY <2>1, Zenon DEF Unique
  <2> QED  BY <1>2, <2>2, Zenon
<1>4. ASSUME NEW j, j # None  PROVE Listed(r, j) <=> Listed(q, j) /\ q[i].cb # j
  BY <1>1, <1>2, <1>4 DEF Unique, Listed
<1> QED  BY <1>3, <1>4 DEF r

\* A callback that stays where it is.
Stays(j) ==
  /\ (j \in fresh' <=> j \in fresh) /\ (j \in done' <=> j \in done)
  /\ Listed(m_fibers, j)' <=> Listed(m_fibers, j)
  /\ \A t \in Threads : Taken(t, j)' <=> Taken(t, j)
  /\ \A f \in Fibers : Carried(f, j)' <=> Carried(f, j)

\* A callback that stays where it is keeps its place.
LEMMA StaysPlaced ==
  ASSUME NEW j, Place(j), Stays(j)  PROVE Place(j)'
BY Zenon DEF Place, Stays

\* A step that moves no callback.
Quiet ==
  /\ fresh' = fresh /\ done' = done
  /\ m_fibers' = m_fibers \/ \E e \in FiberAndThread : e.cb = None /\ m_fibers' = Append(m_fibers, e)
  /\ \A t \in Threads : ft'[t].cb = ft[t].cb
  /\ \A f \in Fibers, j \in Jobs : Carried(f, j)' <=> Carried(f, j)

\* Such a step keeps every callback in its place.
LEMMA QuietPlaced ==
  ASSUME Types, Placed, Quiet  PROVE Placed'
<1>1. Unique(m_fibers') /\ \A j \in Jobs : Listed(m_fibers', j) <=> Listed(m_fibers, j)
  <2>1. CASE m_fibers' = m_fibers
    BY <2>1, Zenon DEF Placed
  <2>2. CASE \E e \in FiberAndThread : e.cb = None /\ m_fibers' = Append(m_fibers, e)
    <3>1. PICK e \in FiberAndThread : e.cb = None /\ m_fibers' = Append(m_fibers, e)
      BY <2>2
    <3>2. m_fibers \in Seq(FiberAndThread) /\ Unique(m_fibers)
      BY Zenon DEF Placed, Types
    <3> QED  BY <3>1, <3>2, PushCb, NoneAssumption, Zenon
  <2> QED  BY <2>1, <2>2, Zenon DEF Quiet
<1>2. \A j \in Jobs : Stays(j)
  BY <1>1, Zenon DEF Quiet, Stays, Taken
<1> QED  BY <1>1, <1>2, StaysPlaced, Zenon DEF Placed

\* Of the steps of run(), those that take no entry and begin no callback move
\* none.
LEMMA RunQuiet ==
  ASSUME Core, NEW t \in Threads,
         FindNothing(t) \/ RunFiber(t) \/ Exit(t) \/ Reschedule(t) \/ Finish(t) \/ Hold(t)
  PROVE  Quiet
<1> DEFINE g == Current(t)
<1>1. Types /\ Fib /\ Position(t) /\ DOMAIN ft = Threads
  BY Zenon DEF Core, Fib, Positions, Types
<1>2. CASE FindNothing(t)
  <2>1. ft[t] = NoTask
    BY <1>1, <1>2, Zenon DEF FindNothing, At, Fib, Tasks
  <2> QED  BY <1>1, <1>2, <2>1, Zenon DEF FindNothing, Quiet, Carried
<1>3. CASE RunFiber(t)
  <2>1. /\ m_state' = [m_state EXCEPT ![ft[t].fiber] = "EXEC"] /\ m_state[ft[t].fiber] \in Live
        /\ UNCHANGED <<m_fibers, m_cb, ft, fresh, done>>
    BY <1>1, <1>3, Zenon DEF RunFiber, At, Position, Live
  <2>2. \A f \in Fibers : m_state'[f] \in Live <=> m_state[f] \in Live
    BY <1>1, <2>1, Zenon DEF Types, Live
  <2> QED  BY <2>1, <2>2, Zenon DEF Quiet, Carried
<1>4. CASE Exit(t)
  <2>1. /\ \A f \in Fibers : m_state'[f] = IF f = cb_fiber[t] THEN "FREE" ELSE m_state[f]
        /\ UNCHANGED <<m_fibers, m_cb, ft, fresh, done>> /\ pc[t] = "dispatch"
    BY <1>4, Zenon DEF Exit, At
  <2>2. \A f \in Fibers : f = cb_fiber[t] => m_cb[f] = None
    BY <1>1, <2>1, NoneAssumption, Zenon DEF Position, Held
  <2> QED  BY <2>1, <2>2, NoneAssumption, Zenon DEF Quiet, Carried
<1>5. CASE Reschedule(t) \/ Finish(t) \/ Hold(t)
  <2>1. pc[t] = "post" /\ g \in Fibers /\ ft[t].cb = None /\ fresh' = fresh /\ done' = done /\ ft' = [ft EXCEPT ![t] = NoTask]
    <3>1. pc[t] = "post" /\ fresh' = fresh /\ done' = done /\ ft' = [ft EXCEPT ![t] = NoTask]
      BY <1>5, Zenon DEF Reschedule, Finish, Hold, At, DropCurrent
    <3> QED  BY <1>1, <3>1, CurrentOwned, Zenon DEF Held
  <2>2. \A u \in Threads : ft'[u].cb = ft[u].cb
    BY <1>1, <2>1, Zenon DEF NoTask
  <2>3. CASE Reschedule(t)
    <3>1. FiberTask(g, AnyThread) \in FiberAndThread /\ FiberTask(g, AnyThread).cb = None
      BY <2>1, TaskTypes, Zenon DEF FiberTask
    <3>2. m_fibers' = Append(m_fibers, FiberTask(g, AnyThread)) /\ UNCHANGED <<m_state, m_cb>>
      BY <2>3, Zenon DEF Reschedule, Schedule
    <3> QED  BY <2>1, <2>2, <3>1, <3>2, Zenon DEF Quiet, Carried
  <2>4. CASE Hold(t)
    <3>1. m_state[g] = "EXEC" /\ m_state' = [m_state EXCEPT ![g] = "HOLD"] /\ UNCHANGED <<m_fibers, m_cb>>
      BY <1>1, <2>1, <2>4, Zenon DEF Hold, Position
    <3>2. \A f \in Fibers : m_state'[f] \in Live <=> m_state[f] \in Live
      BY <1>1, <3>1, Zenon DEF Types, Live
    <3> QED  BY <2>1, <2>2, <3>1, <3>2, Zenon DEF Quiet, Carried
  <2>5. CASE Finish(t)
    <3>1. m_state[g] \notin Live /\ UNCHANGED m_fibers
      BY <2>5, Zenon DEF Finish, Ended, Live
    <3>2. \A f \in Fibers : f # g => m_state'[f] = m_state[f] /\ m_cb'[f] = m_cb[f]
      BY <1>1, <2>5, Zenon DEF Finish, Dropped, Current, Types
    <3>3. m_state'[g] \notin Live \/ m_cb'[g] = None
      BY <1>1, <2>1, <2>5, <3>1 DEF Finish, Dropped, Current, Types, Live
    <3>4. \A j \in Jobs : ~Carried(g, j) /\ ~(m_cb'[g] = j /\ m_state'[g] \in Live)
      BY <3>1, <3>3, NoneAssumption, Zenon DEF Carried
    <3>5. ASSUME NEW f \in Fibers, NEW j \in Jobs  PROVE Carried(f, j)' <=> Carried(f, j)
      <4>1. CASE f = g
        BY <3>4, <4>1, Zenon DEF Carried
      <4>2. CASE f # g
        BY <3>2, <4>2, Zenon DEF Carried
      <4> QED  BY <4>1, <4>2
    <3> QED  BY <2>1, <2>2, <3>1, <3>5, Zenon DEF Quiet
  <2> QED  BY <1>5, <2>3, <2>4, <2>5
<1> QED  BY <1>2, <1>3, <1>4, <1>5

\* A task that yields moves no callback.
LEMMA JobQuiet ==
  ASSUME Core, NEW t \in Threads, JobPark(t) \/ JobSwitchTo(t) \/ YieldToReady(t)
  PROVE  Quiet
<1> DEFINE g == Current(t)
<1>1. Types /\ Fib /\ Position(t) /\ pc[t] = "exec" /\ g \in Fibers /\ UNCHANGED <<m_cb, ft, fresh, done>>
  <2>1. Types /\ Fib /\ Position(t) /\ pc[t] = "exec" /\ UNCHANGED <<m_cb, ft, fresh, done>>
    BY Zenon DEF Core, Fib, Positions, JobPark, JobSwitchTo, YieldToReady, At
  <2> QED  BY <2>1, CurrentOwned, Zenon DEF Held
<1>2. CASE JobPark(t)
  BY <1>1, <1>2, Zenon DEF JobPark, Quiet, Carried
<1>3. CASE JobSwitchTo(t)
  <2>1. PICK th \in Pins : Schedule(t, FiberTask(g, th)) /\ UNCHANGED m_state
    BY <1>3, Zenon DEF JobSwitchTo
  <2>2. FiberTask(g, th) \in FiberAndThread /\ FiberTask(g, th).cb = None
    BY <1>1, TaskTypes, Zenon DEF FiberTask
  <2> QED  BY <1>1, <2>1, <2>2, Zenon DEF Schedule, Quiet, Carried
<1>4. CASE YieldToReady(t)
  <2>1. m_state[g] = "EXEC" /\ m_state' = [m_state EXCEPT ![g] = "READY"] /\ UNCHANGED m_fibers
    BY <1>1, <1>4, Zenon DEF YieldToReady, Position
  <2>2. \A f \in Fibers : m_state'[f] \in Live <=> m_state[f] \in Live
    BY <1>1, <2>1, Zenon DEF Types, Live
  <2> QED  BY <1>1, <2>1, <2>2, Zenon DEF Quiet, Carried
<1> QED  BY <1>2, <1>3, <1>4

\* A step that moves the callback j.
LEMMA MovePlaced ==
  ASSUME Placed, NEW j, Unique(m_fibers'), \A i \in Jobs \ {j} : Stays(i), j \in Jobs => Place(j)'
  PROVE  Placed'
<1>1. \A i \in Jobs \ {j} : Place(i)'
  BY StaysPlaced, Zenon DEF Placed
<1> QED  BY <1>1, Zenon DEF Placed

\* run() takes a callback out of m_fibers: it is with the thread and nowhere
\* else.
LEMMA TakePlaced ==
  ASSUME Core, Placed, NEW t \in Threads, Take(t)  PROVE Placed'
<1>1. PICK k \in DOMAIN m_fibers : ft' = [ft EXCEPT ![t] = m_fibers[k]] /\ m_fibers' = Erase(m_fibers, k)
  BY Zenon DEF Take
<1>2. PICK j : j = m_fibers[k].cb
  OBVIOUS
<1>3. UNCHANGED <<m_state, m_cb, fresh, done>> /\ pc[t] = "scan"
  BY Zenon DEF Take, At
<1>4. Types /\ ft[t] = NoTask /\ j \in Jobs \cup {None}
  <2>1. Types /\ ft[t] = NoTask
    BY <1>3, Zenon DEF Core, Fib, Tasks
  <2>2. m_fibers[k] \in FiberAndThread
    BY <2>1 DEF Types
  <2> QED  BY <1>2, <2>1, <2>2 DEF FiberAndThread
<1>5. /\ Unique(m_fibers')
      /\ \A i \in Jobs : Listed(m_fibers', i) <=> Listed(m_fibers, i) /\ i # j
  BY <1>1, <1>2, <1>4, EraseCb, NoneAssumption, Zenon DEF Placed, Types
<1>6. /\ ft[t].cb = None /\ ft'[t].cb = j /\ \A u \in Threads \ {t} : ft'[u] = ft[u]
  BY <1>1, <1>2, <1>4 DEF NoTask, Types
<1>7. \A i \in Jobs \ {j} : Stays(i)
  BY <1>3, <1>5, <1>6, NoneAssumption, Zenon DEF Stays, Taken, Carried
<1>8. ASSUME j \in Jobs  PROVE Place(j)'
  <2>1. Place(j) /\ Listed(m_fibers, j)
    BY <1>2, <1>8, Zenon DEF Placed, Listed
  <2>2. ~Listed(m_fibers', j) /\ \A u \in Threads : ft'[u].cb = j => u = t
    BY <1>5, <1>6, <1>8, <2>1, Zenon DEF Place, Taken
  <2> QED  BY <1>3, <1>6, <2>1, <2>2, Zenon DEF Place, Taken, Carried
<1> QED  BY <1>5, <1>7, <1>8, MovePlaced

\* run() begins a callback: it is in a fiber and nowhere else.
LEMMA RunCbPlaced ==
  ASSUME Core, Placed, NEW t \in Threads, RunCb(t)  PROVE Placed'
<1>1. PICK j : j = ft[t].cb
  OBVIOUS
<1>2. PICK g \in Fibers :
        /\ IF cb_fiber[t] # None THEN g = cb_fiber[t] ELSE m_state[g] = "FREE"
        /\ m_state' = [m_state EXCEPT ![g] = "EXEC"] /\ m_cb' = [m_cb EXCEPT ![g] = j]
  BY <1>1, Zenon DEF RunCb
<1>3. /\ j # None /\ ft' = [ft EXCEPT ![t] = NoTask] /\ UNCHANGED <<m_fibers, fresh, done>> /\ pc[t] = "dispatch"
  BY <1>1, Zenon DEF RunCb, At
<1>4. Types /\ j \in Jobs /\ Position(t)
  BY <1>1, <1>3, Zenon DEF Core, Fib, Positions, Types, FiberAndThread
<1>5. m_cb[g] = None \/ m_state[g] \notin Live
  BY <1>2, <1>3, <1>4, Zenon DEF Position, Held, Live
<1>6. /\ m_cb'[g] = j /\ m_state'[g] \in Live /\ \A f \in Fibers \ {g} : m_cb'[f] = m_cb[f] /\ m_state'[f] = m_state[f]
      /\ ft'[t].cb = None /\ \A u \in Threads \ {t} : ft'[u] = ft[u]
  BY <1>2, <1>3, <1>4, Zenon DEF Types, NoTask, Live
<1>7. ASSUME NEW i \in Jobs \ {j}  PROVE Stays(i)
  <2>1. \A u \in Threads : ft'[u].cb = i <=> ft[u].cb = i
    BY <1>1, <1>6, NoneAssumption, Zenon
  <2>2. \A f \in Fibers : (m_cb'[f] = i /\ m_state'[f] \in Live) <=> (m_cb[f] = i /\ m_state[f] \in Live)
    BY <1>5, <1>6, NoneAssumption, Zenon
  <2> QED  BY <1>3, <2>1, <2>2, Zenon DEF Stays, Taken, Carried
<1>8. Place(j)'
  <2>1. Place(j) /\ Taken(t, j)
    BY <1>1, <1>4, Zenon DEF Placed, Taken
  <2>2. \A u \in Threads : ft'[u].cb # j
    <3>1. \A u \in Threads \ {t} : ft[u].cb # j
      BY <2>1, Zenon DEF Place, Taken
    <3> QED  BY <1>3, <1>6, <3>1, Zenon
  <2>3. \A f \in Fibers : (m_cb'[f] = j /\ m_state'[f] \in Live) <=> f = g
    BY <1>6, <2>1, Zenon DEF Place, Carried
  <2> QED  BY <1>3, <2>1, <2>2, <2>3, Zenon DEF Place, Taken, Carried
<1>9. Unique(m_fibers')
  BY <1>3, Zenon DEF Placed
<1> QED  BY <1>7, <1>8, <1>9, MovePlaced

\* MainFunc() ends: its callback was executed and is nowhere any more.
LEMMA EndsPlaced ==
  ASSUME Core, Placed, NEW t \in Threads, MainFuncReturn(t) \/ MainFuncThrow(t)  PROVE Placed'
<1>1. PICK g, j : g = Current(t) /\ j = m_cb[g]
  OBVIOUS
<1>2. pc[t] = "exec" /\ UNCHANGED <<m_fibers, ft, fresh>> /\ done' = done \cup ({j} \ {None})
  BY <1>1, Zenon DEF MainFuncReturn, MainFuncThrow, At
<1>3. Types /\ g \in Fibers /\ m_state[g] \in Live
  <2>1. Types /\ Fib /\ Position(t)
    BY DEF Core, Fib, Positions
  <2> QED  BY <1>1, <1>2, <2>1, CurrentOwned, Zenon DEF Position, Held, Live
<1>4. m_state'[g] \notin Live /\ \A f \in Fibers \ {g} : m_cb'[f] = m_cb[f] /\ m_state'[f] = m_state[f]
  BY <1>1, <1>3 DEF MainFuncReturn, MainFuncThrow, Types, Live
<1>5. \A i \in Jobs \ {j} : Stays(i)
  BY <1>1, <1>2, <1>4, Zenon DEF Stays, Taken, Carried
<1>6. ASSUME j \in Jobs  PROVE Place(j)'
  <2>1. Place(j) /\ Carried(g, j) /\ j # None
    BY <1>1, <1>3, <1>6, NoneAssumption, Zenon DEF Placed, Carried
  <2>2. \A f \in Fibers : ~(m_cb'[f] = j /\ m_state'[f] \in Live)
    <3> SUFFICES ASSUME NEW f \in Fibers, m_cb'[f] = j, m_state'[f] \in Live  PROVE FALSE
      OBVIOUS
    <3>1. f # g
      BY <1>4
    <3>2. Carried(f, j)
      BY <1>4, <3>1, Zenon DEF Carried
    <3> QED  BY <1>3, <2>1, <3>1, <3>2, Zenon DEF Place
  <2>3. j \in done' /\ j \notin fresh /\ ~Listed(m_fibers, j) /\ \A u \in Threads : ~Taken(u, j)
    BY <1>2, <1>3, <2>1, Zenon DEF Place
  <2> QED  BY <1>2, <2>2, <2>3, Zenon DEF Place, Taken, Carried
<1>7. Unique(m_fibers')
  BY <1>2, Zenon DEF Placed
<1> QED  BY <1>5, <1>6, <1>7, MovePlaced

\* A callback is scheduled for the first time, by itself or with a new fiber.
LEMMA SubmitPlaced ==
  ASSUME Core, Placed, NEW j \in fresh, fresh' = fresh \ {j}, UNCHANGED <<ft, done>>,
         \/ \E th \in Pins : m_fibers' = Append(m_fibers, CbTask(j, th)) /\ UNCHANGED <<m_state, m_cb>>
         \/ \E g \in Fibers, th \in Pins :
              /\ m_state[g] = "FREE" /\ m_state' = [m_state EXCEPT ![g] = "INIT"] /\ m_cb' = [m_cb EXCEPT ![g] = j]
              /\ m_fibers' = Append(m_fibers, FiberTask(g, th))
  PROVE  Placed'
<1>1. Types /\ j \in Jobs /\ Place(j) /\ Unique(m_fibers)
  BY Zenon DEF Core, Types, Placed
<1>2. j \notin done /\ ~Listed(m_fibers, j) /\ (\A t \in Threads : ~Taken(t, j)) /\ \A f \in Fibers : ~Carried(f, j)
  BY <1>1, Zenon DEF Place
<1>3. CASE \E th \in Pins : m_fibers' = Append(m_fibers, CbTask(j, th)) /\ UNCHANGED <<m_state, m_cb>>
  <2>1. PICK th \in Pins : m_fibers' = Append(m_fibers, CbTask(j, th))
    BY <1>3, Zenon
  <2>2. CbTask(j, th) \in FiberAndThread /\ CbTask(j, th).cb = j
    BY <1>1, TaskTypes, Zenon DEF CbTask
  <2>3. Unique(m_fibers') /\ \A i \in Jobs : Listed(m_fibers', i) <=> Listed(m_fibers, i) \/ i = j
    <3>1. PICK e \in FiberAndThread : e.cb = j /\ m_fibers' = Append(m_fibers, e)
      BY <2>1, <2>2, Zenon
    <3>2. /\ \A i : Listed(Append(m_fibers, e), i) <=> Listed(m_fibers, i) \/ e.cb = i
          /\ Unique(m_fibers) /\ (e.cb = None \/ ~Listed(m_fibers, e.cb)) => Unique(Append(m_fibers, e))
      BY <1>1, PushCb, Zenon DEF Types
    <3> QED  BY <1>1, <1>2, <3>1, <3>2, Zenon
  <2>4. \A i \in Jobs \ {j} : Stays(i)
    BY <1>3, <2>3, Zenon DEF Stays, Taken, Carried
  <2>5. Place(j)'
    BY <1>1, <1>2, <1>3, <2>3, Zenon DEF Place, Taken, Carried
  <2> QED  BY <2>3, <2>4, <2>5, MovePlaced, Zenon
<1>4. CASE \E g \in Fibers, th \in Pins :
              /\ m_state[g] = "FREE" /\ m_state' = [m_state EXCEPT ![g] = "INIT"] /\ m_cb' = [m_cb EXCEPT ![g] = j]
              /\ m_fibers' = Append(m_fibers, FiberTask(g, th))
  <2>1. PICK g \in Fibers, th \in Pins :
              /\ m_state[g] = "FREE" /\ m_state' = [m_state EXCEPT ![g] = "INIT"] /\ m_cb' = [m_cb EXCEPT ![g] = j]
              /\ m_fibers' = Append(m_fibers, FiberTask(g, th))
    BY <1>4, Zenon
  <2>2. FiberTask(g, th) \in FiberAndThread /\ FiberTask(g, th).cb = None
    BY TaskTypes, Zenon DEF FiberTask
  <2>3. Unique(m_fibers') /\ \A i \in Jobs : Listed(m_fibers', i) <=> Listed(m_fibers, i)
    <3>1. m_fibers \in Seq(FiberAndThread) /\ Unique(m_fibers)
      BY <1>1, Zenon DEF Types
    <3> QED  BY <2>1, <2>2, <3>1, PushCb, NoneAssumption, Zenon
  <2>4. /\ m_cb'[g] = j /\ m_state'[g] \in Live /\ m_state[g] \notin Live
        /\ \A f \in Fibers \ {g} : m_cb'[f] = m_cb[f] /\ m_state'[f] = m_state[f]
    BY <1>1, <2>1 DEF Types, Live
  <2>5. ASSUME NEW i \in Jobs \ {j}  PROVE Stays(i)
    <3>1. \A f \in Fibers : (m_cb'[f] = i /\ m_state'[f] \in Live) <=> (m_cb[f] = i /\ m_state[f] \in Live)
      BY <2>4, Zenon
    <3> QED  BY <2>3, <3>1, Zenon DEF Stays, Taken, Carried
  <2>6. Place(j)'
    <3>1. \A f \in Fibers : (m_cb'[f] = j /\ m_state'[f] \in Live) <=> f = g
      BY <1>2, <2>4, Zenon DEF Carried
    <3>2. j \notin fresh' \cup done' /\ ~Listed(m_fibers', j)
      BY <1>1, <1>2, <2>3, Zenon
    <3> QED  BY <1>2, <3>1, <3>2, Zenon DEF Place, Taken, Carried
  <2> QED  BY <1>1, <2>3, <2>5, <2>6, MovePlaced, Zenon
<1> QED  BY <1>3, <1>4, Zenon

\* Every step leaves each callback in one place.
LEMMA PlacedStep ==
  ASSUME ~Duplicates, Core, Placed, [Next]_vars  PROVE Placed'
<1>1. ASSUME UNCHANGED taskVars  PROVE Placed'
  BY <1>1, QuietPlaced, Zenon DEF taskVars, Quiet, Carried, Core
<1>2. ASSUME NEW t \in Threads, Run(t)  PROVE Placed'
  <2>1. CASE FindNothing(t) \/ RunFiber(t) \/ Exit(t) \/ Reschedule(t) \/ Finish(t) \/ Hold(t)
    BY <2>1, RunQuiet, QuietPlaced DEF Core
  <2>2. CASE EnterIdle(t) \/ Back(t)
    BY <1>1, <2>2, Zenon DEF EnterIdle, Back
  <2>3. ~Discard(t)
    BY Zenon DEF Discard, At, Core, Fib, Positions, Position, Ended
  <2> QED  BY <1>2, <2>1, <2>2, <2>3, TakePlaced, RunCbPlaced, Zenon DEF Run
<1>3. ASSUME NEW t \in Threads, Job(t)  PROVE Placed'
  <2>1. CASE JobPark(t) \/ JobSwitchTo(t) \/ YieldToReady(t)
    BY <2>1, JobQuiet, QuietPlaced DEF Core
  <2>2. CASE YieldToHold(t)
    BY <1>1, <2>2, Zenon DEF YieldToHold
  <2>3. CASE JobSchedule(t)
    <3>1. PICK j \in fresh, th \in Pins : m_fibers' = Append(m_fibers, CbTask(j, th)) /\ fresh' = fresh \ {j}
      BY <2>3, Zenon DEF JobSchedule, Schedule
    <3>2. UNCHANGED <<ft, done, m_state, m_cb>>
      BY <2>3, Zenon DEF JobSchedule
    <3> QED  BY <3>1, <3>2, SubmitPlaced, Zenon
  <2> QED  BY <1>3, <2>1, <2>2, <2>3, EndsPlaced DEF Job
<1>4. CASE ClientSchedule
  <2>1. PICK j \in fresh, th \in Pins :
          /\ fresh' = fresh \ {j}
          /\ \/ m_fibers' = Append(m_fibers, CbTask(j, th)) /\ UNCHANGED <<m_state, m_cb>>
             \/ \E f \in Fibers :
                  /\ m_state[f] = "FREE"
                  /\ m_state' = [m_state EXCEPT ![f] = "INIT"]
                  /\ m_cb' = [m_cb EXCEPT ![f] = j]
                  /\ m_fibers' = Append(m_fibers, FiberTask(f, th))
    BY <1>4, Zenon DEF ClientSchedule, Schedule
  <2>2. UNCHANGED <<ft, done>>
    BY <1>4, Zenon DEF ClientSchedule
  <2> QED  BY <2>1, <2>2, SubmitPlaced, Zenon
<1>5. CASE Wake
  <2>1. PICK f \in armed : m_fibers' = Append(m_fibers, FiberTask(f, AnyThread))
    BY <1>5, Zenon DEF Wake, Schedule
  <2>2. FiberTask(f, AnyThread) \in FiberAndThread /\ FiberTask(f, AnyThread).cb = None
    BY TaskTypes, Zenon DEF FiberTask, Core, Types
  <2>3. UNCHANGED <<m_state, m_cb, ft, fresh, done>>
    BY <1>5, Zenon DEF Wake
  <2>4. Quiet
    BY <2>1, <2>2, <2>3, Zenon DEF Quiet, Carried
  <2> QED  BY <2>4, QuietPlaced DEF Core
<1>6. CASE (\E t \in Threads : Idle(t)) \/ (\E a \in Threads \cup {Main, Waker} : Tickle(a)) \/ Start
           \/ Stop \/ Stopped \/ UNCHANGED vars
  <2>1. UNCHANGED taskVars
    BY <1>6, Zenon DEF Idle, Tickle, Start, Stop, StopAuto, StopFlag, StopCalled, StopJoin, StopAlone, StopCall, Stopped, vars
  <2> QED  BY <1>1, <2>1
<1>7. ~ScheduleAgain
  BY DEF ScheduleAgain
<1> QED  BY <1>2, <1>3, <1>4, <1>5, <1>6, <1>7, Zenon DEF Next

-----------------------------------------------------------------------------
(* The threads of a pool that has stopped. *)

\* Every step preserves who has left run() while stop() joins the threads.
LEMMA JoinedStep ==
  ASSUME Types, Phases, Joined, [Next]_vars  PROVE Joined'
<1>1. ASSUME mpc' = mpc, \A t \in Threads : pc[t] \in {"off", "exited"} => pc'[t] = pc[t]  PROVE Joined'
  BY <1>1, Zenon DEF Joined
<1>2. ASSUME NEW t \in Threads, Run(t) \/ Job(t) \/ Idle(t)  PROVE Joined'
  <2>1. mpc' = mpc
    BY <1>2, Zenon DEF Run, Job, Take, FindNothing, RunFiber, RunCb, Discard, EnterIdle, Exit, Back, Reschedule, Finish,
       Hold, JobSchedule, JobPark, JobSwitchTo, YieldToHold, YieldToReady, MainFuncReturn, MainFuncThrow, Idle, stopVars
  <2>2. pc[t] \notin {"off", "exited"}
    BY <1>2 DEF Run, Job, Take, FindNothing, RunFiber, RunCb, Discard, EnterIdle, Exit, Back, Reschedule, Finish,
       Hold, JobSchedule, JobPark, JobSwitchTo, YieldToHold, YieldToReady, MainFuncReturn, MainFuncThrow, Idle, At
  <2>3. pc' = pc \/ \E l : pc' = [pc EXCEPT ![t] = l]
    BY <1>2, Zenon DEF Run, Job, Take, FindNothing, RunFiber, RunCb, Discard, EnterIdle, Exit, Back, Reschedule, Finish,
       Hold, JobSchedule, JobPark, JobSwitchTo, YieldToHold, YieldToReady, MainFuncReturn, MainFuncThrow, Idle, Goto
  <2>4. \A u \in Threads : pc[u] \in {"off", "exited"} => pc'[u] = pc[u]
    BY <2>2, <2>3, Zenon DEF Types
  <2> QED  BY <1>1, <2>1, <2>4
<1>3. CASE (\E a \in Threads \cup {Main, Waker} : Tickle(a)) \/ ClientSchedule \/ Wake \/ ScheduleAgain \/ Stopped
           \/ UNCHANGED vars
  <2>1. UNCHANGED <<mpc, pc>>
    BY <1>3, Zenon DEF Tickle, ClientSchedule, Wake, ScheduleAgain, Stopped, vars, stopVars
  <2> QED  BY <1>1, <2>1
<1>4. CASE Start \/ StopAuto \/ StopFlag
  <2>1. mpc' \notin {"join", "stopped"}
    BY <1>4, Zenon DEF Start, StopAuto, StopFlag
  <2> QED  BY <2>1, Zenon DEF Joined
<1>5. CASE StopAlone(stopping(m_autoStop, TRUE))
  <2>1. mpc = "stop" /\ mpc' # "join" /\ UNCHANGED pc
    BY <1>5, Zenon DEF StopAlone
  <2>2. \A t \in Threads : t = Root => pc[t] \in {"off", "exited"}
    BY <2>1 DEF Phases
  <2>3. mpc' = "stopped" => \A t \in Threads : t = Root
    BY <1>5, Zenon DEF StopAlone, Workers
  <2> QED  BY <2>1, <2>2, <2>3, Zenon DEF Joined
<1>6. CASE StopCall(stopping(m_autoStop, m_stopping))
  <2>1. CASE Root \in Threads /\ ~stopping(m_autoStop, m_stopping)
    <3>1. mpc' \notin {"join", "stopped"}
      BY <1>6, <2>1 DEF StopCall
    <3> QED  BY <3>1, Zenon DEF Joined
  <2>2. CASE ~(Root \in Threads /\ ~stopping(m_autoStop, m_stopping))
    <3>1. mpc = "call" /\ mpc' = "join" /\ UNCHANGED pc
      BY <1>6, <2>2, Zenon DEF StopCall
    <3> QED  BY <3>1 DEF Joined, Phases
  <2> QED  BY <2>1, <2>2
<1>7. CASE StopCalled
  BY <1>7 DEF StopCalled, Joined
<1>8. CASE StopJoin
  <2>1. mpc = "join" /\ UNCHANGED pc /\ \A t \in Threads : t # Root => pc[t] = "exited"
    BY <1>8 DEF StopJoin, Workers
  <2> QED  BY <2>1, Zenon DEF Joined
<1> QED  BY <1>2, <1>3, <1>4, <1>5, <1>6, <1>7, <1>8, Zenon DEF Next, Stop

-----------------------------------------------------------------------------
(* The refinement. *)

\* Who executes what does not change but for thread t.
LEMMA OthersExecute ==
  ASSUME Core, NEW t \in Threads, \A u \in Threads \ {t} : SameThread(u),
         \/ m_cb' = m_cb
         \/ \E x : \E g \in Fibers : m_cb' = [m_cb EXCEPT ![g] = x] /\ (Owns(t, g) \/ m_state[g] = "FREE")
  PROVE  \A u \in Threads \ {t} : Executes(u)' = Executes(u)
<1> SUFFICES ASSUME NEW u \in Threads \ {t}  PROVE Executes(u)' = Executes(u)
  OBVIOUS
<1>1. SameThread(u) /\ Current(u)' = Current(u)
  BY Zenon DEF SameThread, Current
<1>2. CASE pc[u] \notin {"exec", "switch"}
  BY <1>1, <1>2, Zenon DEF Executes, SameThread
<1>3. CASE pc[u] \in {"exec", "switch"}
  <2>1. Current(u) \in Fibers /\ Owns(u, Current(u))
    BY <1>3, CurrentOwned, Zenon DEF Owns, Core, Fib, Held
  <2>2. ASSUME NEW g \in Fibers, Owns(t, g) \/ m_state[g] = "FREE"  PROVE g # Current(u)
    BY <2>1, <2>2, Zenon DEF Core, Fib, OneOwner, States, State
  <2>3. m_cb'[Current(u)] = m_cb[Current(u)]
    BY <2>1, <2>2, Zenon DEF Core, Types
  <2> QED  BY <1>1, <1>3, <2>3, Zenon DEF Executes, SameThread
<1> QED  BY <1>2, <1>3

\* The new value of Executed.
LEMMA ExecutedStep ==
  ASSUME NEW t \in Threads, \A u \in Threads \ {t} : Executes(u)' = Executes(u)
  PROVE  /\ Executed' = [Executed EXCEPT ![t] = Executes(t)']
         /\ Executes(t)' = Executes(t) => Executed' = Executed
         /\ \A u \in Threads : Executed[u] = Executes(u)
<1>1. Executed = [u \in Threads |-> Executes(u)] /\ Executed' = [u \in Threads |-> Executes(u)']
  BY Zenon DEF Executed
<1> QED  BY <1>1

\* A callback that some thread executes is carried by that thread's fiber.
LEMMA ExecutesCarried ==
  ASSUME Core, NEW t \in Threads, Executes(t) # None
  PROVE  /\ pc[t] \in {"exec", "switch"} /\ Current(t) \in Fibers /\ Owns(t, Current(t))
         /\ Executes(t) \in Jobs /\ Carried(Current(t), Executes(t))
<1>1. pc[t] \in {"exec", "switch"} /\ Executes(t) = m_cb[Current(t)]
  BY Zenon DEF Executes
<1>2. Current(t) \in Fibers /\ Owns(t, Current(t)) /\ m_state[Current(t)] = "EXEC"
  BY <1>1, CurrentOwned, Zenon DEF Owns, Core, Fib, Held, Positions, Position
<1>3. m_cb[Current(t)] \in Jobs \cup {None}
  BY <1>2, Zenon DEF Core, Types
<1> QED  BY <1>1, <1>2, <1>3, Zenon DEF Carried, Live

\* Every step of a thread leaves the pointers of the others and what their
\* fibers execute alone.
LEMMA ThreadAlone ==
  ASSUME Core, NEW t \in Threads, Run(t) \/ Job(t) \/ Idle(t)
  PROVE  /\ \A u \in Threads \ {t} : Executes(u)' = Executes(u)
         /\ mpc' = mpc
<1>1. mpc' = mpc
  BY Zenon DEF Run, Job, Take, FindNothing, RunFiber, RunCb, Discard, EnterIdle, Exit, Back, Reschedule, Finish,
     Hold, JobSchedule, JobPark, JobSwitchTo, YieldToHold, YieldToReady, MainFuncReturn, MainFuncThrow, Idle, stopVars
<1>2. /\ pc' = pc \/ \E l : pc' = [pc EXCEPT ![t] = l]
      /\ ft' = ft \/ \E l : ft' = [ft EXCEPT ![t] = l]
      /\ cb_fiber' = cb_fiber \/ \E l : cb_fiber' = [cb_fiber EXCEPT ![t] = l]
  <2>1. CASE Run(t)
    BY <2>1, Zenon DEF Run, Take, FindNothing, RunFiber, RunCb, Discard, EnterIdle, Exit, Back, Reschedule, Finish,
       Hold, Goto, DropCurrent, taskVars
  <2>2. CASE Job(t)
    BY <2>2, Zenon DEF Job, JobSchedule, JobPark, JobSwitchTo, YieldToHold, YieldToReady, MainFuncReturn, MainFuncThrow,
       Goto, taskVars
  <2>3. CASE Idle(t)
    BY <2>3, Zenon DEF Idle, Goto, taskVars
  <2> QED  BY <2>1, <2>2, <2>3, Zenon
<1>3. \A u \in Threads \ {t} : SameThread(u)
  BY <1>2 DEF SameThread, Core, Types
<1>4. \/ m_cb' = m_cb
      \/ \E x : \E g \in Fibers : m_cb' = [m_cb EXCEPT ![g] = x] /\ (Owns(t, g) \/ m_state[g] = "FREE")
  <2>1. CASE RunCb(t)
    <3>1. PICK g \in Fibers : /\ IF cb_fiber[t] # None THEN g = cb_fiber[t] ELSE m_state[g] = "FREE"
                              /\ m_cb' = [m_cb EXCEPT ![g] = ft[t].cb]
      BY <2>1, Zenon DEF RunCb
    <3> QED  BY <3>1, Zenon DEF Owns
  <2>2. CASE Finish(t)
    <3>1. pc[t] = "post"
      BY <2>2, Zenon DEF Finish, At
    <3>2. CASE ft[t].fiber # None
      BY <2>2, <3>2, Zenon DEF Finish
    <3>3. CASE ft[t].fiber = None
      <4>1. cb_fiber[t] \in Fibers
        BY <3>1, <3>3, CurrentOwned, Zenon DEF Core, Fib, Held, Current
      <4> QED  BY <2>2, <3>3, <4>1, Zenon DEF Finish, Owns
    <3> QED  BY <3>2, <3>3, Zenon
  <2>3. CASE MainFuncReturn(t)
    <3>1. Current(t) \in Fibers /\ Owns(t, Current(t))
      BY <2>3, CurrentOwned, Zenon DEF Owns, Core, Fib, Held, MainFuncReturn, At
    <3> QED  BY <2>3, <3>1, Zenon DEF MainFuncReturn
  <2>4. CASE Take(t) \/ FindNothing(t) \/ RunFiber(t) \/ Discard(t) \/ EnterIdle(t) \/ Exit(t) \/ Back(t)
             \/ Reschedule(t) \/ Hold(t)
    BY <2>4, Zenon DEF Take, FindNothing, RunFiber, Discard, EnterIdle, Exit, Back, Reschedule, Hold, taskVars
  <2>5. CASE JobSchedule(t) \/ JobPark(t) \/ JobSwitchTo(t) \/ YieldToHold(t) \/ YieldToReady(t) \/ MainFuncThrow(t)
             \/ Idle(t)
    BY <2>5, Zenon DEF JobSchedule, JobPark, JobSwitchTo, YieldToHold, YieldToReady, MainFuncThrow, Idle, taskVars
  <2> QED  BY <2>1, <2>2, <2>3, <2>4, <2>5, Zenon DEF Run, Job
<1>5. \A u \in Threads \ {t} : Executes(u)' = Executes(u)
  BY <1>3, <1>4, OthersExecute, Zenon
<1> QED  BY <1>1, <1>5

\* A fiber that a thread switches to and that carries j, or a callback j that it
\* took: nobody executes j, and j has neither ended nor is it fresh.
LEMMA BeginsCarried ==
  ASSUME Core, Placed, Joined, NEW t \in Threads, RunFiber(t), Executes(t)' # None
  PROVE  Pool!Begin(t, Executes(t)')
<1>1. PICK g, j : g = ft[t].fiber /\ j = Executes(t)'
  OBVIOUS
<1>2. pc[t] = "dispatch" /\ g # None /\ UNCHANGED <<m_cb, ft, cb_fiber, fresh, done>> /\ pc' = [pc EXCEPT ![t] = "exec"]
  BY <1>1, Zenon DEF RunFiber, At, Goto
<1>3. g \in Fibers /\ m_state[g] \in Live
  <2>1. ft[t] \in FiberAndThread
    BY Zenon DEF Core, Types
  <2>2. g \in Fibers
    BY <1>1, <1>2, <2>1, Zenon DEF FiberAndThread
  <2> QED  BY <1>1, <1>2, <2>2, Zenon DEF Core, Fib, Positions, Position, Live
<1>4. j = m_cb[g] /\ j \in Jobs
  <2>1. pc'[t] = "exec" /\ Current(t)' = g
    BY <1>1, <1>2, Zenon DEF Core, Types, Current
  <2>2. m_cb[g] \in Jobs \cup {None}
    BY <1>3, Zenon DEF Core, Types
  <2>3. j = m_cb[g]
    BY <1>1, <1>2, <2>1, Zenon DEF Executes
  <2> QED  BY <1>1, <2>2, <2>3, Zenon
<1>5. Carried(g, j) /\ Place(j)
  BY <1>3, <1>4, Zenon DEF Carried, Placed
<1>6. j \in Jobs \ (fresh \cup done)
  BY <1>3, <1>4, <1>5, Zenon DEF Place
<1>7. ASSUME NEW u \in Threads, Executes(u) = j  PROVE FALSE
  <2>1. pc[u] \in {"exec", "switch"} /\ Current(u) \in Fibers /\ Owns(u, Current(u)) /\ Carried(Current(u), j)
    BY <1>4, <1>7, ExecutesCarried, NoneAssumption, Zenon
  <2>2. Current(u) = g
    BY <1>3, <1>5, <2>1, Zenon DEF Place
  <2>3. Owns(t, g)
    BY <1>1, Zenon DEF Owns
  <2>4. u = t
    BY <1>3, <2>1, <2>2, <2>3, Zenon DEF Core, Fib, OneOwner
  <2> QED  BY <1>2, <2>1, <2>4
<1>8. mpc # "stopped" /\ mpc' = mpc /\ Executes(t) = None
  BY <1>2, ThreadAlone, Zenon DEF Joined, Executes, Run
<1>9. Executed' = [Executed EXCEPT ![t] = j] /\ \A u \in Threads : Executed[u] = Executes(u)
  BY <1>1, ThreadAlone, ExecutedStep, Zenon DEF Run
<1> QED  BY <1>1, <1>2, <1>6, <1>7, <1>8, <1>9, Zenon DEF Pool!Begin

\* A callback that run() begins is one that TaskPool has submitted and not
\* begun.
LEMMA BeginsTaken ==
  ASSUME Core, Placed, Joined, NEW t \in Threads, RunCb(t)
  PROVE  Executes(t)' \in Jobs /\ Pool!Begin(t, Executes(t)')
<1>1. PICK j : j = ft[t].cb
  OBVIOUS
<1>2. PICK g \in Fibers : cb_fiber' = [cb_fiber EXCEPT ![t] = g] /\ m_cb' = [m_cb EXCEPT ![g] = j]
  BY <1>1, Zenon DEF RunCb
<1>3. /\ pc[t] = "dispatch" /\ j # None /\ UNCHANGED <<fresh, done>> /\ pc' = [pc EXCEPT ![t] = "exec"]
      /\ ft' = [ft EXCEPT ![t] = NoTask]
  BY <1>1, Zenon DEF RunCb, At, Goto
<1>4. j \in Jobs /\ Taken(t, j) /\ Place(j)
  <2>1. ft[t] \in FiberAndThread
    BY Zenon DEF Core, Types
  <2>2. j \in Jobs
    BY <1>1, <1>3, <2>1 DEF FiberAndThread
  <2> QED  BY <1>1, <2>2, Zenon DEF Placed, Taken
<1>5. Executes(t)' = j
  <2>1. pc'[t] = "exec" /\ ft'[t].fiber = None /\ cb_fiber'[t] = g /\ m_cb'[g] = j
    BY <1>2, <1>3, Zenon DEF Core, Types, NoTask
  <2>2. Current(t)' = g
    BY <2>1, Zenon DEF Current
  <2> QED  BY <2>1, <2>2, Zenon DEF Executes
<1>6. j \in Jobs \ (fresh \cup done)
  BY <1>4, Zenon DEF Place
<1>7. ASSUME NEW u \in Threads, Executes(u) = j  PROVE FALSE
  <2>1. Current(u) \in Fibers /\ Carried(Current(u), j)
    BY <1>4, <1>7, ExecutesCarried, NoneAssumption, Zenon
  <2> QED  BY <1>4, <2>1, Zenon DEF Place
<1>8. mpc # "stopped" /\ mpc' = mpc /\ Executes(t) = None
  BY <1>3, ThreadAlone, Zenon DEF Joined, Executes, Run
<1>9. Executed' = [Executed EXCEPT ![t] = j] /\ \A u \in Threads : Executed[u] = Executes(u)
  BY <1>5, ThreadAlone, ExecutedStep, Zenon DEF Run
<1>10. Pool!Begin(t, j)
  BY <1>3, <1>6, <1>7, <1>8, <1>9, Zenon DEF Pool!Begin
<1> QED  BY <1>4, <1>5, <1>10, Zenon

\* The slice of a callback ends, with it or without.
LEMMA SliceEnds ==
  ASSUME Core, NEW t \in Threads, YieldToHold(t) \/ YieldToReady(t) \/ MainFuncReturn(t) \/ MainFuncThrow(t)
  PROVE  Pool!Suspend(t) \/ Pool!End(t) \/ UNCHANGED Pool!vars
<1>1. /\ pc[t] \in {"exec", "switch"} /\ pc' = [pc EXCEPT ![t] = "back"] /\ UNCHANGED fresh
      /\ (done' = done /\ m_cb[Current(t)] # None) \/ done' = done \cup ({m_cb[Current(t)]} \ {None})
  BY Zenon DEF YieldToHold, YieldToReady, MainFuncReturn, MainFuncThrow, At, Goto, taskVars
<1>2. Executes(t) = m_cb[Current(t)] /\ Executes(t)' = None
  <2>1. pc'[t] = "back"
    BY <1>1, Zenon DEF Core, Types
  <2> QED  BY <1>1, <2>1 DEF Executes
<1>3. mpc' = mpc /\ Executed' = [Executed EXCEPT ![t] = None] /\ Executed[t] = Executes(t)
      /\ (Executes(t) = None => Executed' = Executed)
  BY <1>2, ThreadAlone, ExecutedStep, Zenon DEF Job
<1>4. CASE Executes(t) = None
  <2>1. done' = done
    BY <1>1, <1>2, <1>4
  <2> QED  BY <1>1, <1>3, <1>4, <2>1, Zenon DEF Pool!vars
<1>5. CASE Executes(t) # None
  <2>1. done' = done \/ done' = done \cup {Executes(t)}
    BY <1>1, <1>2, <1>5
  <2> QED  BY <1>1, <1>3, <1>5, <2>1, Zenon DEF Pool!Suspend, Pool!End
<1> QED  BY <1>4, <1>5

\* Every other step of a thread is a step of TaskPool as well, or none.
LEMMA ThreadRefines ==
  ASSUME Core, Placed, Joined, NEW t \in Threads, Run(t) \/ Job(t) \/ Idle(t)
  PROVE  [Pool!Next]_Pool!vars
<1>0. mpc' = mpc /\ (Executes(t)' = Executes(t) => Executed' = Executed)
  BY ThreadAlone, ExecutedStep, Zenon
<1>1. CASE /\ pc[t] \notin {"exec", "switch"} /\ UNCHANGED <<fresh, done>>
           /\ \E l : pc' = [pc EXCEPT ![t] = l] /\ l \notin {"exec", "switch"}
  <2>1. pc'[t] \notin {"exec", "switch"}
    BY <1>1, Zenon DEF Core, Types
  <2>2. Executes(t)' = Executes(t)
    BY <1>1, <2>1, Zenon DEF Executes
  <2> QED  BY <1>0, <1>1, <2>2, Zenon DEF Pool!vars
<1>2. CASE Take(t) \/ FindNothing(t) \/ Discard(t) \/ EnterIdle(t) \/ Exit(t) \/ Back(t)
  <2>1. /\ pc[t] \notin {"exec", "switch"} /\ UNCHANGED <<fresh, done>>
        /\ \E l : pc' = [pc EXCEPT ![t] = l] /\ l \notin {"exec", "switch"}
    <3>1. CASE Take(t) \/ FindNothing(t) \/ Discard(t)
      BY <3>1 DEF Take, FindNothing, Discard, At, Goto, taskVars
    <3>2. CASE EnterIdle(t) \/ Exit(t) \/ Back(t)
      BY <3>2 DEF EnterIdle, Exit, Back, At, Goto, taskVars
    <3> QED  BY <1>2, <3>1, <3>2
  <2> QED  BY <1>1, <2>1
<1>3. CASE Reschedule(t) \/ Finish(t) \/ Hold(t) \/ Idle(t)
  <2>1. /\ pc[t] \notin {"exec", "switch"} /\ UNCHANGED <<fresh, done>>
        /\ \E l : pc' = [pc EXCEPT ![t] = l] /\ l \notin {"exec", "switch"}
    BY <1>3 DEF Reschedule, Finish, Hold, Idle, At, Goto, taskVars
  <2> QED  BY <1>1, <2>1, Zenon
<1>4. CASE RunFiber(t)
  <2>1. CASE Executes(t)' = None
    <3>1. pc[t] = "dispatch" /\ UNCHANGED <<fresh, done>>
      BY <1>4, Zenon DEF RunFiber, At
    <3>2. Executes(t)' = Executes(t)
      BY <2>1, <3>1 DEF Executes
    <3> QED  BY <1>0, <3>1, <3>2, Zenon DEF Pool!vars
  <2>2. CASE Executes(t)' # None
    <3>1. PICK j : j = Executes(t)'
      OBVIOUS
    <3>2. Pool!Begin(t, j)
      BY <1>4, <2>2, <3>1, BeginsCarried
    <3>3. j \in Jobs
      BY <3>2, Zenon DEF Pool!Begin
    <3> QED  BY <3>2, <3>3, Zenon DEF Pool!Next
  <2> QED  BY <2>1, <2>2
<1>5. CASE RunCb(t)
  <2>1. PICK j \in Jobs : Pool!Begin(t, j)
    BY <1>5, BeginsTaken, Zenon
  <2> QED  BY <2>1, Zenon DEF Pool!Next
<1>6. CASE JobSchedule(t)
  <2>1. PICK j \in fresh : fresh' = fresh \ {j}
    BY <1>6, Zenon DEF JobSchedule
  <2>2. UNCHANGED <<done, pc, m_cb, ft, cb_fiber>>
    BY <1>6, Zenon DEF JobSchedule
  <2>3. Executes(t)' = Executes(t)
    BY <2>2, Zenon DEF Executes, Current
  <2>4. j \in Jobs
    BY Zenon DEF Core, Types
  <2>5. Pool!Submit(j)
    BY <1>0, <2>1, <2>2, <2>3, Zenon DEF Pool!Submit
  <2> QED  BY <2>4, <2>5, Zenon DEF Pool!Next
<1>7. CASE JobPark(t) \/ JobSwitchTo(t)
  <2>1. /\ pc[t] = "exec" /\ (pc' = pc \/ pc' = [pc EXCEPT ![t] = "switch"])
        /\ UNCHANGED <<fresh, done, m_cb, ft, cb_fiber>>
    BY <1>7, Zenon DEF JobPark, JobSwitchTo, At, Goto
  <2>2. pc[t] \in {"exec", "switch"} /\ pc'[t] \in {"exec", "switch"}
    BY <2>1, Zenon DEF Core, Types
  <2>3. Executes(t)' = Executes(t)
    BY <2>1, <2>2, Zenon DEF Executes, Current
  <2> QED  BY <1>0, <2>1, <2>3, Zenon DEF Pool!vars
<1>8. CASE YieldToHold(t) \/ YieldToReady(t) \/ MainFuncReturn(t) \/ MainFuncThrow(t)
  BY <1>8, SliceEnds, Zenon DEF Pool!Next
<1> QED  BY <1>2, <1>3, <1>4, <1>5, <1>6, <1>7, <1>8, Zenon DEF Run, Job

\* schedule() of a callback is a submission of TaskPool.
LEMMA ClientRefines ==
  ASSUME Core, ClientSchedule  PROVE \E j \in Jobs : Pool!Submit(j)
<1>1. PICK j \in fresh : /\ fresh' = fresh \ {j}
                         /\ \/ m_cb' = m_cb
                            \/ \E f \in Fibers : m_state[f] = "FREE" /\ m_cb' = [m_cb EXCEPT ![f] = j]
  BY Zenon DEF ClientSchedule
<1>2. UNCHANGED <<ft, cb_fiber, pc, done, mpc>> /\ j \in Jobs
  BY Zenon DEF ClientSchedule, stopVars, Core, Types
<1>3. ASSUME NEW u \in Threads  PROVE Executes(u)' = Executes(u)
  <2>1. CASE pc[u] \notin {"exec", "switch"}
    BY <1>2, <2>1, Zenon DEF Executes
  <2>2. CASE pc[u] \in {"exec", "switch"}
    <3>1. Current(u) \in Fibers /\ Owns(u, Current(u)) /\ Current(u)' = Current(u)
      BY <1>2, <2>2, CurrentOwned, Zenon DEF Owns, Core, Fib, Held, Current
    <3>2. m_state[Current(u)] # "FREE"
      BY <3>1, Zenon DEF Core, Fib, States, State
    <3>3. m_cb'[Current(u)] = m_cb[Current(u)]
      BY <1>1, <3>1, <3>2, Zenon DEF Core, Types
    <3> QED  BY <1>2, <3>1, <3>3, Zenon DEF Executes
  <2> QED  BY <2>1, <2>2
<1>4. Executed' = Executed
  BY <1>3, Zenon DEF Executed
<1>5. Pool!Submit(j)
  BY <1>1, <1>2, <1>4, Zenon DEF Pool!Submit
<1> QED  BY <1>2, <1>5, Zenon

\* start() and stop() change what no thread executes.
LEMMA StopRefines ==
  ASSUME Core, Joined, Joined', Start \/ Stop  PROVE [Pool!Next]_Pool!vars
<1>1. UNCHANGED <<fresh, done, m_cb, ft, cb_fiber>> /\ mpc # "stopped"
  BY Zenon DEF Start, Stop, StopAuto, StopAlone, StopFlag, StopCall, StopCalled, StopJoin, taskVars
<1>2. \A t \in Threads : pc'[t] = pc[t] \/ {pc[t], pc'[t]} \cap {"exec", "switch"} = {}
  <2>1. CASE Start
    <3>1. \A t \in Threads : pc[t] = "off"
      BY <2>1 DEF Start, Core, Phases
    <3>2. \A t \in Threads : pc'[t] \in {"scan", "off"}
      BY <2>1, <3>1 DEF Start
    <3> QED  BY <3>1, <3>2
  <2>2. CASE StopCall(stopping(m_autoStop, m_stopping))
    <3>1. mpc = "call" /\ (pc' = pc \/ (Root \in Threads /\ pc' = [pc EXCEPT ![Root] = "scan"]))
      BY <2>2, Zenon DEF StopCall, Goto
    <3>2. Root \in Threads => pc[Root] = "off"
      BY <3>1 DEF Core, Phases
    <3> QED  BY <3>1, <3>2 DEF Core, Types
  <2>3. CASE StopAuto \/ StopFlag \/ StopCalled \/ StopJoin \/ StopAlone(stopping(m_autoStop, TRUE))
    BY <2>3, Zenon DEF StopAuto, StopAlone, StopFlag, StopCalled, StopJoin
  <2> QED  BY <2>1, <2>2, <2>3, Zenon DEF Stop
<1>3. Executed' = Executed
  <2>1. ASSUME NEW t \in Threads  PROVE Executes(t)' = Executes(t)
    <3>1. CASE pc'[t] = pc[t]
      BY <1>1, <3>1, Zenon DEF Executes, Current
    <3>2. CASE {pc[t], pc'[t]} \cap {"exec", "switch"} = {}
      <4>1. pc[t] \notin {"exec", "switch"} /\ pc'[t] \notin {"exec", "switch"}
        BY <3>2, Zenon
      <4> QED  BY <4>1, Zenon DEF Executes
    <3> QED  BY <1>2, <3>1, <3>2
  <2> QED  BY <2>1, Zenon DEF Executed
<1>4. CASE mpc' # "stopped"
  BY <1>1, <1>3, <1>4, Zenon DEF Pool!vars
<1>5. CASE mpc' = "stopped"
  <2>1. ASSUME NEW t \in Threads  PROVE Executes(t)' = None
    BY <1>5 DEF Joined, Executes
  <2>2. Executed' = [t \in Threads |-> Executes(t)']
    BY Zenon DEF Executed
  <2>3. \A t \in Threads : Executed[t] = None
    BY <1>3, <2>1, <2>2
  <2> QED  BY <1>1, <1>3, <1>5, <2>3, Zenon DEF Pool!Next, Pool!StopReturns
<1> QED  BY <1>4, <1>5

\* Everybody else leaves the pool of TaskPool alone.
LEMMA RestRefines ==
  ASSUME ~Duplicates, (\E a \in Threads \cup {Main, Waker} : Tickle(a)) \/ Wake \/ ScheduleAgain \/ Stopped \/ UNCHANGED vars
  PROVE  UNCHANGED Pool!vars
<1>1. UNCHANGED <<fresh, done, m_cb, ft, cb_fiber, pc, mpc>>
  BY Zenon DEF Tickle, Wake, ScheduleAgain, Stopped, vars, taskVars, stopVars
<1>2. ASSUME NEW t \in Threads  PROVE Executes(t)' = Executes(t)
  BY <1>1, Zenon DEF Executes, Current
<1>3. Executed' = Executed
  BY <1>2, Zenon DEF Executed
<1> QED  BY <1>1, <1>3, Zenon DEF Pool!vars

\* The scheduler begins without callbacks, as TaskPool does.
LEMMA PoolInit == Init => Placed /\ Joined /\ Pool!Init
<1> SUFFICES ASSUME Init  PROVE Placed /\ Joined /\ Pool!Init
  OBVIOUS
<1>1. /\ m_fibers = <<>> /\ fresh = Jobs /\ done = {} /\ mpc = "new"
      /\ \A t \in Threads : pc[t] = "off" /\ ft[t].cb = None
      /\ \A f \in Fibers : m_cb[f] = None
  BY Zenon DEF Init, NoTask
<1>2. Placed
  BY <1>1, NoneAssumption DEF Placed, Unique, Place, Listed, Taken, Carried
<1>3. Joined
  BY <1>1 DEF Joined
<1>4. Executed = [t \in Threads |-> None]
  <2>1. ASSUME NEW t \in Threads  PROVE Executes(t) = None
    BY <1>1 DEF Executes
  <2> QED  BY <2>1, Zenon DEF Executed
<1>5. Pool!Init
  BY <1>1, <1>4 DEF Pool!Init
<1> QED  BY <1>2, <1>3, <1>5

\* A callback is always in one of its five places, and the threads have left run()
\* when stop() says so.
THEOREM PlacesInvariant == ASSUME ~Duplicates PROVE Spec => [](Placed /\ Joined)
<1>1. Core /\ (Placed /\ Joined) /\ [Next]_vars => (Placed /\ Joined)'
  BY PlacedStep, JoinedStep, Zenon DEF Core
<1> QED  BY <1>1, CoreInvariant, PoolInit, PTL DEF Spec

\* The scheduler implements TaskPool, whatever the sizes of the pool and what
\* the tasks do: run() executes a callback on one thread at a time and never
\* again when it has ended, and nothing is executed once stop() has returned.
THEOREM PoolImplemented == ASSUME ~Duplicates PROVE Spec => ImplementsTaskPool
<1>1. Core /\ Placed /\ Joined /\ (Placed /\ Joined)' /\ [Next]_vars => [Pool!Next]_Pool!vars
  BY ThreadRefines, ClientRefines, StopRefines, RestRefines, Zenon DEF Next, Pool!Next
<1> QED  BY <1>1, CoreInvariant, PlacesInvariant, PoolInit, PTL DEF Spec, ImplementsTaskPool, Pool!Spec

-----------------------------------------------------------------------------
(* stop() *)

\* Tasks are for any thread, and none parks itself.
Plain == ~Duplicates /\ Pins \subseteq {AnyThread} /\ Parkers = {}

\* Thread t is going to scan the list before it leaves run().
Scans(t) ==
  \/ pc[t] = "off" /\ mpc \notin {"join", "stopped"}
  \/ pc[t] \notin {"off", "exited"} /\ ~(pc[t] = "dispatch" /\ ft[t] = NoTask /\ idle_fiber[t] = "TERM")

\* Whatever is in the list can be taken by every thread.
Open ==
  /\ armed = {}
  /\ \A i \in DOMAIN m_fibers : m_fibers[i].thread = AnyThread /\ ~Executing(m_fibers[i])

\* idle() returns only when stop() has been called.
Early ==
  /\ mpc \in {"new", "running"} =>
       m_autoStop = FALSE /\ \A t \in Threads : idle_fiber[t] # "TERM" /\ pc[t] # "exited"
  /\ mpc # "new" => \A t \in Workers : pc[t] # "off"

Scanned == m_fibers # <<>> => \E t \in Threads : Scans(t)

Drains == Open /\ Early /\ Scanned

\* An entry that was in the list, or that is for any thread and not executing.
OpenEntry(e) ==
  \/ \E i \in DOMAIN m_fibers : e = m_fibers[i]
  \/ e.thread = AnyThread /\ (e.fiber = None \/ m_state'[e.fiber] # "EXEC")

\* A step that lets the entries of m_fibers stay open to every thread preserves
\* Open.
LEMMA OpenFrame ==
  ASSUME Types, Open, armed' = {}, \A k \in DOMAIN m_fibers' : OpenEntry(m_fibers'[k]),
         \A f \in Fibers : m_state'[f] = "EXEC" => m_state[f] = "EXEC" \/ f \notin Pending
  PROVE  Open'
<1> SUFFICES ASSUME NEW k \in DOMAIN m_fibers'
             PROVE  m_fibers'[k].thread = AnyThread /\ (m_fibers'[k].fiber = None \/ m_state'[m_fibers'[k].fiber] # "EXEC")
  BY Zenon DEF Open, Executing
<1>1. PICK e : e = m_fibers'[k]
  OBVIOUS
<1>2. OpenEntry(e)
  BY <1>1
<1>3. ASSUME NEW i \in DOMAIN m_fibers, e = m_fibers[i]  PROVE e.thread = AnyThread /\ (e.fiber = None \/ m_state'[e.fiber] # "EXEC")
  <2>1. m_fibers[i] \in FiberAndThread
    BY DEF Types
  <2>2. e.fiber = None \/ e.fiber \in Fibers
    BY <1>3, <2>1 DEF FiberAndThread
  <2>3. e.fiber \in Fibers => e.fiber \in Pending
    BY <1>3, Zenon DEF Pending, Wanted, Queued
  <2> QED  BY <1>3, <2>2, <2>3, Zenon DEF Open, Executing
<1>4. e.thread = AnyThread /\ (e.fiber = None \/ m_state'[e.fiber] # "EXEC")
  BY <1>2, <1>3, Zenon DEF OpenEntry
<1> QED  BY <1>1, <1>4, Zenon

\* An entry for any thread, with a fiber that does not run, is open when it is
\* added.
LEMMA OpenPush ==
  ASSUME Types, NEW e, m_fibers' = Append(m_fibers, e), e.thread = AnyThread, e.fiber = None \/ m_state'[e.fiber] # "EXEC"
  PROVE  \A k \in DOMAIN m_fibers' : OpenEntry(m_fibers'[k])
<1>1. \A k \in DOMAIN m_fibers' : (k \in DOMAIN m_fibers /\ m_fibers'[k] = m_fibers[k]) \/ m_fibers'[k] = e
  BY DEF Types
<1> QED  BY <1>1, Zenon DEF OpenEntry

\* A list that does not change keeps its entries.
LEMMA OpenSame ==
  ASSUME m_fibers' = m_fibers  PROVE \A k \in DOMAIN m_fibers' : OpenEntry(m_fibers'[k])
  BY Zenon DEF OpenEntry

\* Every step of run() preserves Open.
LEMMA RunOpen ==
  ASSUME Core, Open, NEW t \in Threads, Run(t)  PROVE Open'
<1>0. Types /\ armed = {}
  BY Zenon DEF Core, Open
<1>1. armed' = armed
  BY Zenon DEF Run, Take, FindNothing, RunFiber, RunCb, Discard, EnterIdle, Exit, Back, Reschedule, Finish, Hold, taskVars
<1>2. CASE Take(t)
  <2>1. PICK i \in DOMAIN m_fibers : m_fibers' = Erase(m_fibers, i)
    BY <1>2, Zenon DEF Take
  <2>2. \A k \in DOMAIN m_fibers' : OpenEntry(m_fibers'[k])
    <3>1. \A k \in DOMAIN m_fibers' : \E n \in DOMAIN m_fibers : m_fibers'[k] = m_fibers[n]
      BY <1>0, <2>1 DEF Erase, Types
    <3> QED  BY <3>1, Zenon DEF OpenEntry
  <2>3. m_state' = m_state
    BY <1>2, Zenon DEF Take
  <2> QED  BY <1>0, <1>1, <2>2, <2>3, OpenFrame, Zenon
<1>3. CASE RunFiber(t)
  <2>1. m_fibers' = m_fibers /\ m_state' = [m_state EXCEPT ![ft[t].fiber] = "EXEC"] /\ ft[t].fiber \notin Pending
    BY <1>3, Zenon DEF RunFiber, At, Core, Fib, Positions, Position
  <2>2. \A f \in Fibers : m_state'[f] = "EXEC" => m_state[f] = "EXEC" \/ f \notin Pending
    BY <1>0, <2>1 DEF Types
  <2> QED  BY <1>0, <1>1, <2>1, <2>2, OpenSame, OpenFrame, Zenon
<1>4. CASE RunCb(t)
  <2>1. PICK g \in Fibers : /\ IF cb_fiber[t] # None THEN g = cb_fiber[t] ELSE m_state[g] = "FREE"
                            /\ m_state' = [m_state EXCEPT ![g] = "EXEC"]
    BY <1>4, Zenon DEF RunCb
  <2>2. m_fibers' = m_fibers /\ pc[t] \notin Held
    BY <1>4, Zenon DEF RunCb, At, Held
  <2>3. g \notin Pending
    BY <2>1, <2>2, Zenon DEF Core, Fib, Positions, Position, States, State
  <2>4. \A f \in Fibers : m_state'[f] = "EXEC" => m_state[f] = "EXEC" \/ f \notin Pending
    BY <1>0, <2>1, <2>3, Zenon DEF Types
  <2> QED  BY <1>0, <1>1, <2>2, <2>4, OpenSame, OpenFrame, Zenon
<1>5. CASE Reschedule(t)
  <2>1. PICK e : e = FiberTask(Current(t), AnyThread)
    OBVIOUS
  <2>2. m_fibers' = Append(m_fibers, e) /\ m_state' = m_state /\ m_state[Current(t)] = "READY"
    BY <1>5, <2>1, Zenon DEF Reschedule, Schedule
  <2>3. e.thread = AnyThread /\ e.fiber = Current(t)
    BY <2>1, Zenon DEF FiberTask
  <2>4. \A k \in DOMAIN m_fibers' : OpenEntry(m_fibers'[k])
    BY <1>0, <2>2, <2>3, OpenPush
  <2> QED  BY <1>0, <1>1, <2>2, <2>4, OpenFrame, Zenon
<1>6. CASE FindNothing(t) \/ Discard(t) \/ EnterIdle(t) \/ Exit(t) \/ Back(t) \/ Finish(t) \/ Hold(t)
  <2>1. m_fibers' = m_fibers
    BY <1>6, Zenon DEF FindNothing, Discard, EnterIdle, Exit, Back, Finish, Hold, taskVars
  <2>2. \A f \in Fibers : m_state'[f] = "EXEC" => m_state[f] = "EXEC"
    <3>1. CASE FindNothing(t) \/ EnterIdle(t) \/ Back(t)
      BY <3>1, Zenon DEF FindNothing, EnterIdle, Back, taskVars
    <3>2. CASE Exit(t)
      BY <3>2 DEF Exit
    <3>3. CASE Hold(t)
      BY <1>0, <3>3, Zenon DEF Hold, Types
    <3>4. CASE Finish(t) \/ Discard(t)
      BY <1>0, <3>4 DEF Finish, Discard, Dropped, Types
    <3> QED  BY <1>6, <3>1, <3>2, <3>3, <3>4
  <2> QED  BY <1>0, <1>1, <2>1, <2>2, OpenSame, OpenFrame, Zenon
<1> QED  BY <1>2, <1>3, <1>4, <1>5, <1>6, Zenon DEF Run

\* Every step preserves Open, with tasks that are for any thread and not
\* scheduled twice.
LEMMA OpenStep ==
  ASSUME Plain, Core, Open, [Next]_vars  PROVE Open'
<1>0. Types /\ armed = {}
  BY Zenon DEF Core, Open
<1>1. ASSUME UNCHANGED <<m_fibers, m_state, armed>>  PROVE Open'
  BY <1>0, <1>1, OpenSame, OpenFrame, Zenon
<1>2. ASSUME NEW t \in Threads, Job(t)  PROVE Open'
  <2>1. CASE JobSchedule(t)
    <3>1. PICK j \in fresh, th \in Pins : m_fibers' = Append(m_fibers, CbTask(j, th))
      BY <2>1, Zenon DEF JobSchedule, Schedule
    <3>2. PICK e : e = CbTask(j, th)
      OBVIOUS
    <3>3. e.thread = AnyThread /\ e.fiber = None
      BY <3>2 DEF CbTask, Plain
    <3>4. UNCHANGED <<m_state, armed>>
      BY <2>1, Zenon DEF JobSchedule
    <3>5. \A k \in DOMAIN m_fibers' : OpenEntry(m_fibers'[k])
      BY <1>0, <3>1, <3>2, <3>3, OpenPush
    <3> QED  BY <1>0, <3>4, <3>5, OpenFrame, Zenon
  <2>2. ~JobPark(t) /\ ~JobSwitchTo(t)
    BY Zenon DEF Plain, JobPark, JobSwitchTo
  <2>3. CASE YieldToHold(t)
    BY <1>1, <2>3, Zenon DEF YieldToHold, taskVars
  <2>4. CASE YieldToReady(t) \/ MainFuncReturn(t) \/ MainFuncThrow(t)
    <3>1. UNCHANGED <<m_fibers, armed>> /\ \E x : m_state' = [m_state EXCEPT ![Current(t)] = x] /\ x # "EXEC"
      BY <2>4 DEF YieldToReady, MainFuncReturn, MainFuncThrow
    <3>2. \A f \in Fibers : m_state'[f] = "EXEC" => m_state[f] = "EXEC"
      BY <1>0, <3>1 DEF Types
    <3> QED  BY <1>0, <3>1, <3>2, OpenSame, OpenFrame, Zenon
  <2> QED  BY <1>2, <2>1, <2>2, <2>3, <2>4, Zenon DEF Job
<1>3. CASE ClientSchedule
  <2>1. PICK e : /\ m_fibers' = Append(m_fibers, e) /\ e.thread = AnyThread
                 /\ \/ m_state' = m_state /\ e.fiber = None
                    \/ e.fiber \in Fibers /\ m_state' = [m_state EXCEPT ![e.fiber] = "INIT"]
    <3>1. PICK j \in fresh, th \in Pins :
            \/ m_fibers' = Append(m_fibers, CbTask(j, th)) /\ m_state' = m_state
            \/ \E f \in Fibers : m_state' = [m_state EXCEPT ![f] = "INIT"] /\ m_fibers' = Append(m_fibers, FiberTask(f, th))
      BY <1>3, Zenon DEF ClientSchedule, Schedule
    <3>2. th = AnyThread
      BY DEF Plain
    <3>3. CbTask(j, th).thread = AnyThread /\ CbTask(j, th).fiber = None
      BY <3>2 DEF CbTask
    <3>4. \A f : FiberTask(f, th).thread = AnyThread /\ FiberTask(f, th).fiber = f
      BY <3>2 DEF FiberTask
    <3>5. CASE m_fibers' = Append(m_fibers, CbTask(j, th)) /\ m_state' = m_state
      BY <3>3, <3>5, Zenon
    <3>6. ASSUME NEW f \in Fibers, m_state' = [m_state EXCEPT ![f] = "INIT"], m_fibers' = Append(m_fibers, FiberTask(f, th))
          PROVE  \E e : /\ m_fibers' = Append(m_fibers, e) /\ e.thread = AnyThread
                        /\ e.fiber \in Fibers /\ m_state' = [m_state EXCEPT ![e.fiber] = "INIT"]
      <4>1. FiberTask(f, th).thread = AnyThread /\ FiberTask(f, th).fiber = f
        BY <3>4
      <4> QED  BY <3>6, <4>1, Zenon
    <3> QED  BY <3>1, <3>5, <3>6, Zenon
  <2>2. /\ e.fiber = None \/ m_state'[e.fiber] # "EXEC"
        /\ \A f \in Fibers : m_state'[f] = "EXEC" => m_state[f] = "EXEC"
    BY <1>0, <2>1 DEF Types
  <2>3. \A k \in DOMAIN m_fibers' : OpenEntry(m_fibers'[k])
    BY <1>0, <2>1, <2>2, OpenPush
  <2>4. armed' = armed
    BY <1>3, Zenon DEF ClientSchedule
  <2> QED  BY <1>0, <2>2, <2>3, <2>4, OpenFrame, Zenon
<1>4. ~Wake /\ ~ScheduleAgain
  BY <1>0, Zenon DEF Wake, ScheduleAgain, Plain
<1>5. CASE (\E t \in Threads : Idle(t)) \/ (\E a \in Threads \cup {Main, Waker} : Tickle(a)) \/ Start
           \/ Stop \/ Stopped \/ UNCHANGED vars
  <2>1. UNCHANGED taskVars
    BY <1>5, Zenon DEF Idle, Tickle, Start, Stop, StopAuto, StopFlag, StopCalled, StopJoin, StopAlone, StopCall, Stopped, vars
  <2> QED  BY <1>1, <2>1, Zenon DEF taskVars
<1> QED  BY <1>2, <1>3, <1>4, <1>5, RunOpen, Zenon DEF Next

\* Every step preserves Early.
LEMMA EarlyStep ==
  ASSUME Types, Early, [Next]_vars  PROVE Early'
<1>1. ASSUME UNCHANGED <<m_autoStop, mpc>>,
             \A t \in Threads :
               /\ idle_fiber'[t] = idle_fiber[t] \/ (idle_fiber'[t] = "TERM" => m_autoStop)
               /\ pc'[t] = pc[t] \/ pc'[t] \notin {"off", "exited"} \/ (pc'[t] = "exited" /\ idle_fiber[t] = "TERM")
      PROVE  Early'
  BY <1>1 DEF Early, Workers
<1>2. ASSUME NEW t \in Threads, Run(t) \/ Job(t)  PROVE Early'
  <2>1. UNCHANGED <<m_autoStop, mpc>>
    BY <1>2 DEF Run, Job, Take, FindNothing, RunFiber, RunCb, Discard, EnterIdle, Exit, Back, Reschedule, Finish,
       Hold, JobSchedule, JobPark, JobSwitchTo, YieldToHold, YieldToReady, MainFuncReturn, MainFuncThrow, stopVars
  <2>2. idle_fiber' = idle_fiber \/ idle_fiber' = [idle_fiber EXCEPT ![t] = "EXEC"]
    BY <1>2, Zenon DEF Run, Job, Take, FindNothing, RunFiber, RunCb, Discard, EnterIdle, Exit, Back, Reschedule, Finish,
       Hold, JobSchedule, JobPark, JobSwitchTo, YieldToHold, YieldToReady, MainFuncReturn, MainFuncThrow
  <2>3. \/ pc' = pc
        \/ \E l : /\ pc' = [pc EXCEPT ![t] = l]
                  /\ l \notin {"off", "exited"} \/ (l = "exited" /\ idle_fiber[t] = "TERM")
    <3>1. CASE Job(t)
      BY <3>1 DEF Job, JobSchedule, JobPark, JobSwitchTo, YieldToHold, YieldToReady, MainFuncReturn, MainFuncThrow, Goto
    <3>2. CASE Exit(t) \/ Back(t) \/ Reschedule(t) \/ Finish(t) \/ Hold(t)
      BY <3>2 DEF Exit, Back, Reschedule, Finish, Hold, Goto
    <3>3. CASE Take(t) \/ FindNothing(t) \/ RunFiber(t) \/ RunCb(t) \/ Discard(t) \/ EnterIdle(t)
      <4>1. Goto(t, "dispatch") \/ Goto(t, "exec") \/ Goto(t, "scan") \/ Goto(t, "idle")
        BY <3>3, Zenon DEF Take, FindNothing, RunFiber, RunCb, Discard, EnterIdle
      <4> QED  BY <4>1 DEF Goto
    <3> QED  BY <1>2, <3>1, <3>2, <3>3, Zenon DEF Run
  <2> QED  BY <1>1, <2>1, <2>2, <2>3 DEF Types
<1>3. ASSUME NEW t \in Threads, Idle(t)  PROVE Early'
  <2>1. UNCHANGED <<m_autoStop, mpc>> /\ pc' = [pc EXCEPT ![t] = "scan"]
    BY <1>3, Zenon DEF Idle, stopVars, Goto
  <2>2. \E l : idle_fiber' = [idle_fiber EXCEPT ![t] = l] /\ (l = "TERM" => m_autoStop)
    <3>1. stopping(m_autoStop, m_stopping) => m_autoStop
      BY Zenon DEF stopping
    <3>2. CASE stopping(m_autoStop, m_stopping)
      BY <1>3, <3>1, <3>2, Zenon DEF Idle
    <3>3. CASE ~stopping(m_autoStop, m_stopping)
      <4>1. idle_fiber' = [idle_fiber EXCEPT ![t] = "HOLD"]
        BY <1>3, <3>3, Zenon DEF Idle
      <4>2. "HOLD" = "TERM" => m_autoStop
        OBVIOUS
      <4> QED  BY <4>1, <4>2, Zenon
    <3> QED  BY <3>2, <3>3
  <2> QED  BY <1>1, <2>1, <2>2 DEF Types
<1>4. CASE (\E a \in Threads \cup {Main, Waker} : Tickle(a)) \/ ClientSchedule \/ Wake \/ ScheduleAgain \/ Stopped
           \/ UNCHANGED vars
  <2>1. UNCHANGED <<m_autoStop, mpc, pc, idle_fiber>>
    BY <1>4, Zenon DEF Tickle, ClientSchedule, Wake, ScheduleAgain, Stopped, vars, stopVars
  <2> QED  BY <1>1, <2>1
<1>5. CASE Start
  BY <1>5 DEF Start, Early, Workers
<1>6. CASE Stop
  <2>1. mpc \notin {"new", "stopped"} /\ mpc' \notin {"new", "running"}
    BY <1>6, Zenon DEF Stop, StopAuto, StopFlag, StopCalled, StopJoin, StopAlone, StopCall
  <2>2. pc' = pc \/ pc' = [pc EXCEPT ![Root] = "scan"]
    BY <1>6, Zenon DEF Stop, StopAuto, StopFlag, StopCalled, StopJoin, StopAlone, StopCall, Goto
  <2> QED  BY <2>1, <2>2 DEF Early, Workers, Types
<1> QED  BY <1>2, <1>3, <1>4, <1>5, <1>6, Zenon DEF Next

\* Every step of a thread preserves Scanned: one that found nothing had looked
\* at the whole list.
LEMMA RunScanned ==
  ASSUME Core, Open, Scanned, NEW t \in Threads, Run(t) \/ Job(t) \/ Idle(t)  PROVE Scanned'
<1>1. ASSUME Scans(t)'  PROVE Scanned'
  BY <1>1, Zenon DEF Scanned
<1>2. ASSUME pc'[t] \notin {"off", "exited", "dispatch"}  PROVE Scanned'
  BY <1>1, <1>2 DEF Scans
<1>3. CASE Take(t)
  <2>1. PICK i \in DOMAIN m_fibers : ft' = [ft EXCEPT ![t] = m_fibers[i]]
    BY <1>3, Zenon DEF Take
  <2>2. ft'[t] = m_fibers[i] /\ (m_fibers[i].fiber = None <=> m_fibers[i].cb # None)
    BY <2>1, Zenon DEF Core, Types, Fib, Tasks, Shape
  <2>3. ft'[t] # NoTask
    BY <2>2 DEF NoTask
  <2>4. pc'[t] = "dispatch"
    BY <1>3, Zenon DEF Take, Goto, Core, Types
  <2> QED  BY <1>1, <2>3, <2>4 DEF Scans
<1>4. CASE FindNothing(t)
  <2>1. m_fibers' = m_fibers /\ \A i \in DOMAIN m_fibers : ~Takeable(t, i)
    BY <1>4, Zenon DEF FindNothing
  <2>2. DOMAIN m_fibers = {}
    BY <2>1, Zenon DEF Open, Takeable, Mine
  <2>3. m_fibers = <<>>
    BY <2>2 DEF Core, Types
  <2> QED  BY <2>1, <2>3, Zenon DEF Scanned
<1>5. CASE Exit(t)
  <2>1. UNCHANGED <<m_fibers, ft, mpc, idle_fiber>> /\ ~Scans(t) /\ pc' = [pc EXCEPT ![t] = "exited"]
    BY <1>5, Zenon DEF Exit, stopVars, At, Goto, Scans
  <2>2. \A u \in Threads \ {t} : pc'[u] = pc[u]
    BY <2>1, Zenon DEF Core, Types
  <2>3. \A u \in Threads : Scans(u) => Scans(u)'
    BY <2>1, <2>2, Zenon DEF Scans
  <2> QED  BY <2>1, <2>3, Zenon DEF Scanned
<1>6. CASE RunFiber(t) \/ RunCb(t) \/ Discard(t) \/ EnterIdle(t) \/ Back(t) \/ Reschedule(t) \/ Finish(t) \/ Hold(t)
  <2>1. \E l : pc' = [pc EXCEPT ![t] = l] /\ l \notin {"off", "exited", "dispatch"}
    <3>1. CASE RunFiber(t) \/ RunCb(t) \/ Discard(t) \/ EnterIdle(t)
      <4>1. Goto(t, "exec") \/ Goto(t, "scan") \/ Goto(t, "idle")
        BY <3>1, Zenon DEF RunFiber, RunCb, Discard, EnterIdle
      <4> QED  BY <4>1 DEF Goto
    <3>2. CASE Back(t) \/ Reschedule(t) \/ Finish(t) \/ Hold(t)
      <4>1. Goto(t, "post") \/ Goto(t, "scan")
        BY <3>2, Zenon DEF Back, Reschedule, Finish, Hold
      <4> QED  BY <4>1 DEF Goto
    <3> QED  BY <1>6, <3>1, <3>2
  <2> QED  BY <1>2, <2>1 DEF Core, Types
<1>7. CASE Job(t) \/ Idle(t)
  <2>1. \/ pc' = pc /\ pc[t] = "exec"
        \/ \E l : pc' = [pc EXCEPT ![t] = l] /\ l \notin {"off", "exited", "dispatch"}
    BY <1>7, Zenon DEF Job, JobSchedule, JobPark, JobSwitchTo, YieldToHold, YieldToReady, MainFuncReturn, MainFuncThrow,
       Idle, Goto, At
  <2> QED  BY <1>2, <2>1, Zenon DEF Core, Types
<1> QED  BY <1>3, <1>4, <1>5, <1>6, <1>7, Zenon DEF Run

\* Every step preserves Scanned.
LEMMA ScannedStep ==
  ASSUME Plain, Core, Open, Early, Scanned, [Next]_vars  PROVE Scanned'
<1>1. CASE (\E a \in Threads \cup {Main, Waker} : Tickle(a)) \/ Stopped \/ UNCHANGED vars
  <2>1. UNCHANGED <<m_fibers, pc, ft, mpc, idle_fiber>>
    BY <1>1, Zenon DEF Tickle, Stopped, vars, taskVars, stopVars
  <2> QED  BY <2>1, Zenon DEF Scanned, Scans
<1>2. ~Wake /\ ~ScheduleAgain
  BY Zenon DEF Wake, ScheduleAgain, Plain, Open
<1>3. CASE ClientSchedule
  <2>1. UNCHANGED <<pc, ft, mpc, idle_fiber>> /\ mpc \in {"new", "running"}
    BY <1>3, Zenon DEF ClientSchedule, stopVars
  <2>2. PICK t \in Threads : TRUE
    BY SchedulerAssumption
  <2>3. Scans(t)'
    BY <2>1 DEF Scans, Early
  <2> QED  BY <2>3, Zenon DEF Scanned
<1>4. CASE Start
  <2>1. PICK t \in Threads : TRUE
    BY SchedulerAssumption
  <2>2. mpc' = "running" /\ pc'[t] \in {"scan", "off"}
    BY <1>4 DEF Start, Core, Phases
  <2>3. Scans(t)'
    BY <2>2 DEF Scans
  <2> QED  BY <2>3, Zenon DEF Scanned
<1>5. ASSUME UNCHANGED <<m_fibers, pc, ft, idle_fiber>>,
             \A u \in Threads : pc[u] = "off" /\ mpc \notin {"join", "stopped"} => mpc' \notin {"join", "stopped"}
      PROVE  Scanned'
  <2>1. \A u \in Threads : Scans(u) => Scans(u)'
    BY <1>5, Zenon DEF Scans
  <2> QED  BY <1>5, <2>1, Zenon DEF Scanned
<1>6. CASE StopAuto \/ StopFlag
  <2>1. UNCHANGED <<m_fibers, pc, ft, idle_fiber>> /\ mpc' \notin {"join", "stopped"}
    BY <1>6, Zenon DEF StopAuto, StopFlag, taskVars
  <2> QED  BY <1>5, <2>1
<1>7. CASE StopAlone(stopping(m_autoStop, TRUE))
  <2>1. UNCHANGED <<m_fibers, pc, ft, idle_fiber>> /\ (mpc' = "flag" \/ m_fibers = <<>>)
    BY <1>7 DEF StopAlone, taskVars, stopping
  <2>2. CASE m_fibers = <<>>
    BY <2>1, <2>2, Zenon DEF Scanned
  <2> QED  BY <1>5, <2>1, <2>2
<1>8. CASE StopCall(stopping(m_autoStop, m_stopping))
  <2>1. UNCHANGED <<m_fibers, ft, idle_fiber>> /\ mpc = "call"
    BY <1>8 DEF StopCall, taskVars
  <2>2. CASE Root \in Threads /\ ~stopping(m_autoStop, m_stopping)
    <3>1. pc'[Root] = "scan"
      BY <1>8, <2>2, Zenon DEF StopCall, Goto, Core, Types
    <3>2. Scans(Root)'
      BY <3>1 DEF Scans
    <3> QED  BY <2>2, <3>2, Zenon DEF Scanned
  <2>3. CASE stopping(m_autoStop, m_stopping)
    <3>1. m_fibers' = <<>>
      BY <2>1, <2>3, Zenon DEF stopping
    <3> QED  BY <3>1, Zenon DEF Scanned
  <2>4. CASE Root \notin Threads
    <3>1. pc' = pc
      BY <1>8, <2>4, Zenon DEF StopCall
    <3>2. \A u \in Threads : pc[u] # "off"
      BY <2>1, <2>4 DEF Early, Workers
    <3> QED  BY <1>5, <2>1, <3>1, <3>2
  <2> QED  BY <2>2, <2>3, <2>4
<1>9. CASE StopCalled \/ StopJoin
  <2>1. UNCHANGED <<m_fibers, pc, ft, idle_fiber>>
    BY <1>9, Zenon DEF StopCalled, StopJoin, taskVars
  <2>2. \A u \in Threads : pc[u] = "off" => mpc \in {"join", "stopped"}
    BY <1>9, Zenon DEF StopCalled, StopJoin, Early, Workers
  <2> QED  BY <1>5, <2>1, <2>2
<1> QED  BY <1>1, <1>2, <1>3, <1>4, <1>6, <1>7, <1>8, <1>9, RunScanned, Zenon DEF Next, Stop

\* While something is in the list, some thread is still going to scan it, and
\* nothing in it can be passed over.
THEOREM DrainsInvariant == ASSUME Plain PROVE Spec => []Drains
<1>1. Init => Drains
  BY DEF Init, Drains, Open, Early, Scanned
<1>2. Core /\ Drains /\ [Next]_vars => Drains'
  BY OpenStep, EarlyStep, ScannedStep, Zenon DEF Drains, Core
<1>3. ~Duplicates
  BY DEF Plain
<1> QED  BY <1>1, <1>2, <1>3, CoreInvariant, PTL DEF Spec

\* When stop() returns, the callbacks that were scheduled have ended, in pools
\* of any size whose tasks are for any thread and do not park themselves.  A
\* task that yielded is not counted while run() puts it back, so idle() may
\* return on the other threads meanwhile; the thread that puts it back scans the
\* list once more and executes it.
THEOREM StopsComplete == ASSUME Plain PROVE Spec => []StopCompletes
<1>1. Core /\ Placed /\ Joined /\ Drains => StopCompletes
  <2> SUFFICES ASSUME Core, Placed, Joined, Drains, mpc = "stopped"  PROVE done = Jobs \ fresh
    BY Zenon DEF StopCompletes
  <2>1. \A t \in Threads : pc[t] \in {"off", "exited"} /\ ft[t] = NoTask
    BY Zenon DEF Joined, Core, Fib, Tasks
  <2>2. m_fibers = <<>> /\ armed = {}
    BY <2>1 DEF Drains, Scanned, Scans, Open
  <2>3. Pending = {}
    BY <2>2 DEF Pending, Wanted, Queued
  <2>4. ASSUME NEW j \in Jobs  PROVE j \in done <=> j \notin fresh
    <3>1. ~Listed(m_fibers, j)
      BY <2>2 DEF Listed
    <3>2. \A t \in Threads : ~Taken(t, j)
      BY <2>1, NoneAssumption DEF Taken, NoTask
    <3>3. ASSUME NEW f \in Fibers, Carried(f, j)  PROVE FALSE
      <4>1. m_cb[f] # None /\ m_state[f] \in {"INIT", "HOLD", "READY", "EXEC"}
        BY <3>3, NoneAssumption, Zenon DEF Carried, Live
      <4>2. PICK t \in Threads : Has(t, f)
        BY <2>3, <4>1, Zenon DEF Core, Fib, Kept, KeptFiber
      <4> QED  BY <2>1, <4>2, NoneAssumption DEF Has, NoTask
    <3> QED  BY <3>1, <3>2, <3>3, Zenon DEF Placed, Place
  <2>5. done \subseteq Jobs
    BY Zenon DEF Core, Types
  <2> QED  BY <2>4, <2>5
<1>2. ~Duplicates
  BY DEF Plain
<1> QED  BY <1>1, <1>2, CoreInvariant, PlacesInvariant, DrainsInvariant, PTL
=============================================================================
