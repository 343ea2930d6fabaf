---------------------------- MODULE IdleLoopProofs ----------------------------
(* The set of timers stays in order, a one-shot timer expires once or is      *)
(* cancelled, and none expires early; the timers of an IOManager are those of *)
(* Timer, and no thread sleeps longer than MAX_TIMEOUT: for any number of     *)
(* threads, tasks and timers.                                                 *)
EXTENDS IdleLoop, WellFoundedInduction, TLAPS

\* What a Timer is before it is inserted, and that the moment it counts from is
\* not negative.
Lives ==
  \A tm \in Timers :
    /\ m_next[tm] >= m_ms[tm]
    /\ life[tm] = "none" => ~m_cb[tm] /\ shots[tm] = 0 /\ tm \notin cancelled
    /\ life[tm] = "made" => m_cb[tm]

Inv == TypeOK /\ Registered /\ FireOrCancel /\ Lives

\* The state in which no timer has been made satisfies the invariant.
LEMMA InitInv == Init => Inv
<1> SUFFICES ASSUME Init PROVE Inv OBVIOUS
<1> USE TimerAssumption DEF Init
<1>1. TypeOK
  <2>1. backs \in 0..MaxBacks OBVIOUS
  <2>2. now \in [Threads -> Nat \cup {-1}] /\ cbs \in [Threads -> SUBSET Timers] OBVIOUS
  <2>3. m_timers \in SUBSET [at : Nat, timer : Timers] /\ cancelled \in SUBSET Timers OBVIOUS
  <2> QED BY <2>1, <2>2, <2>3, Zenon DEF TypeOK
<1>2. Registered BY Zenon DEF Registered, Found, Node
<1>3. FireOrCancel BY DEF FireOrCancel
<1>4. Lives BY DEF Lives
<1> QED BY <1>1, <1>2, <1>3, <1>4, Zenon DEF Inv

\* addTimer() up to the lock preserves the invariant: the new timer is outside of
\* the set.
LEMMA MakeTimerInv ==
  ASSUME Inv, NEW tm \in Timers, NEW ms \in Periods, NEW r \in BOOLEAN, MakeTimer(tm, ms, r)
  PROVE  Inv'
<1> USE TimerAssumption DEF Inv, MakeTimer
<1>1. TypeOK' BY DEF TypeOK, clockVars
<1>2. Registered' BY DEF TypeOK, Registered, Found, Node, Lives
<1>3. FireOrCancel' BY DEF TypeOK, FireOrCancel, Lives
<1>4. Lives' BY DEF TypeOK, Lives
<1> QED BY <1>1, <1>2, <1>3, <1>4, Zenon

\* addTimer() under the lock preserves the invariant.
LEMMA AddTimerInv ==
  ASSUME Inv, NEW tm \in Timers, AddTimer(tm)
  PROVE  Inv'
<1> USE TimerAssumption DEF Inv, AddTimer, Insert
<1>1. TypeOK' BY DEF TypeOK, clockVars, Node
<1>2. Registered' BY DEF TypeOK, Registered, Found, Node, Lives
<1>3. FireOrCancel' BY Zenon DEF FireOrCancel
<1>4. Lives' BY Zenon DEF TypeOK, Lives
<1> QED BY <1>1, <1>2, <1>3, <1>4, Zenon

\* cancel() preserves the invariant: the timer it erases is where find() looks.
LEMMA CancelInv ==
  ASSUME Inv, NEW tm \in Timers, Cancel(tm)
  PROVE  Inv'
<1> USE DEF Inv, Cancel
<1>1. TypeOK' BY Zenon DEF TypeOK, clockVars
<1>2. Registered' BY Zenon DEF TypeOK, Registered, Found, Node
<1>3. FireOrCancel' BY DEF TypeOK, FireOrCancel
<1>4. Lives' BY Zenon DEF TypeOK, Lives
<1> QED BY <1>1, <1>2, <1>3, <1>4, Zenon

\* refresh() preserves the invariant: it takes the timer out before it changes
\* m_next.
LEMMA RefreshInv ==
  ASSUME Inv, NEW tm \in Timers, Refresh(tm)
  PROVE  Inv'
<1> USE DEF Inv, Refresh
<1>1. TypeOK' BY DEF TypeOK, clockVars
<1>2. Registered' BY DEF TypeOK, Registered, Found, Node
<1>3. FireOrCancel' BY Zenon DEF FireOrCancel
<1>4. Lives' BY DEF TypeOK, Lives
<1> QED BY <1>1, <1>2, <1>3, <1>4, Zenon

\* reset() preserves the invariant; m_next - m_ms, which is unsigned, does not
\* wrap around.
LEMMA ResetInv ==
  ASSUME Inv, NEW tm \in Timers, NEW ms \in Periods, NEW f \in BOOLEAN, Reset(tm, ms, f)
  PROVE  Inv'
<1> DEFINE next == StartOf(tm, ms, f) + ms
<1>1. next \in Nat /\ next >= ms
  BY TimerAssumption DEF Inv, TypeOK, Lives, StartOf
<1>2. /\ m_next' = [m_next EXCEPT ![tm] = next]
      /\ m_timers' = (m_timers \ {Node(tm)}) \cup {[at |-> next, timer |-> tm]}
      /\ m_tickled' \in BOOLEAN /\ front' \in Nat
      /\ m_cb[tm] /\ life[tm] = "known"
  BY TimerAssumption DEF Reset, Insert, Inv, TypeOK
<1> HIDE DEF next
<1>3. TypeOK'
  BY <1>1, <1>2, TimerAssumption DEF Inv, Reset, TypeOK, clockVars
<1>4. Registered'
  BY <1>1, <1>2 DEF Inv, Reset, TypeOK, Registered, Found, Node
<1>5. FireOrCancel' BY Zenon DEF Inv, Reset, FireOrCancel
<1>6. Lives' BY <1>1, <1>2, TimerAssumption DEF Inv, Reset, TypeOK, Lives
<1> QED BY <1>3, <1>4, <1>5, <1>6 DEF Inv

\* listExpiredCb() preserves the invariant, clock set back or not: what it takes
\* out had a callback, which a one-shot timer loses and a recurring one keeps at
\* its new place.
LEMMA CollectInv ==
  ASSUME Inv, NEW t \in Threads, Collect(t)
  PROVE  Inv'
<1> DEFINE n     == now[t]
           old   == Expired(n)
           out   == {e.timer : e \in old}
           again == {tm \in out : m_recurring[tm]}
<1>1. n \in Nat BY Zenon DEF Inv, TypeOK, Collect
<1>2. old \subseteq m_timers BY DEF Expired
<1>3. \A tm \in out : tm \in Timers /\ m_cb[tm] /\ life[tm] = "known" /\ Node(tm) \in old
  BY <1>2 DEF Inv, TypeOK, Registered, Found, Node
<1>4. \A e \in m_timers : e \in old <=> e.timer \in out
  BY <1>2 DEF Inv, TypeOK, Registered, Node
<1>5. /\ m_next' = [tm \in Timers |-> IF tm \in again THEN n + m_ms[tm] ELSE m_next[tm]]
      /\ m_timers' = (m_timers \ old) \cup {[at |-> n + m_ms[tm], timer |-> tm] : tm \in again}
      /\ m_cb' = [tm \in Timers |-> m_cb[tm] /\ tm \notin out \ again]
      /\ shots' = [tm \in Timers |-> IF tm \in out \ again THEN shots[tm] + 1 ELSE shots[tm]]
      /\ since' = [tm \in Timers |-> IF tm \in again THEN n ELSE since[tm]]
      /\ cbs' = [cbs EXCEPT ![t] = out]
      /\ now' = [now EXCEPT ![t] = -1]
      /\ m_previouseTime' = n
      /\ UNCHANGED <<m_ms, m_recurring, life, cancelled, clock, backs, m_tickled, front>>
  BY Zenon DEF Collect, clockVars
<1>6. again \subseteq out OBVIOUS
<1> HIDE DEF n, old, out, again
<1>7. TypeOK'
  <2>1. m_timers' \in SUBSET [at : Nat, timer : Timers]
    BY <1>1, <1>3, <1>5, <1>6 DEF Inv, TypeOK
  <2>2. m_cb' \in [Timers -> BOOLEAN] BY <1>5, Zenon
  <2>3. cbs' \in [Threads -> SUBSET Timers] BY <1>3, <1>5, Zenon DEF Inv, TypeOK
  <2> QED BY <1>1, <1>5, <2>1, <2>2, <2>3 DEF Inv, TypeOK
<1>8. Registered'
  <2>1. ASSUME NEW e \in m_timers' PROVE e.at = m_next'[e.timer]
    <3>1. CASE e \in m_timers /\ e \notin old
      BY <1>4, <1>5, <1>6, <3>1, Zenon DEF Inv, TypeOK, Registered
    <3>2. CASE \E tm \in again : e = [at |-> n + m_ms[tm], timer |-> tm]
      BY <1>3, <1>5, <1>6, <3>2
    <3> QED BY <1>5, <3>1, <3>2, Zenon
  <2>2. ASSUME NEW tm \in Timers PROVE Found(tm)' <=> m_cb'[tm] /\ life'[tm] = "known"
    <3>1. CASE tm \in again
      BY <1>3, <1>5, <1>6, <3>1, Zenon DEF Found, Node
    <3>2. CASE tm \in out \ again
      <4>1. Node(tm)' = Node(tm) /\ Node(tm) \in old BY <1>3, <1>5, <3>2, Zenon DEF Node
      <4> QED BY <1>5, <3>2, <4>1, Zenon DEF Found, Node
    <3>3. CASE tm \notin out
      <4>1. Node(tm)' = Node(tm) BY <1>5, <1>6, <3>3, Zenon DEF Node
      <4>2. Node(tm) \notin old BY <1>2, <1>4, <3>3 DEF Node
      <4>3. m_cb'[tm] <=> m_cb[tm] BY <1>5, <3>3, Zenon
      <4>4. Node(tm) \in m_timers' <=> Node(tm) \in m_timers
        BY <1>5, <1>6, <3>3, <4>2, Zenon DEF Node
      <4> QED BY <1>5, <4>1, <4>3, <4>4, Zenon DEF Found, Inv, Registered
    <3> QED BY <3>1, <3>2, <3>3, Zenon
  <2> QED BY <2>1, <2>2 DEF Registered
<1>9. FireOrCancel'
  <2> SUFFICES ASSUME NEW tm \in Timers
               PROVE  shots'[tm] + (IF tm \in cancelled' THEN 1 ELSE 0) <=
                        (IF m_cb'[tm] THEN 0 ELSE 1)
    BY Zenon DEF FireOrCancel
  <2>1. shots[tm] \in Nat BY Zenon DEF Inv, TypeOK
  <2>2. shots[tm] + (IF tm \in cancelled THEN 1 ELSE 0) <= (IF m_cb[tm] THEN 0 ELSE 1)
    BY DEF Inv, FireOrCancel
  <2>3. CASE tm \in out \ again
    <3>1. m_cb[tm] /\ ~m_cb'[tm] BY <1>3, <1>5, <2>3, Zenon
    <3>2. shots'[tm] = shots[tm] + 1 /\ cancelled' = cancelled BY <1>5, <2>3, Zenon
    <3> QED BY <2>1, <2>2, <3>1, <3>2
  <2>4. CASE tm \notin out \ again
    <3>1. m_cb'[tm] <=> m_cb[tm] BY <1>5, <2>4, Zenon
    <3>2. shots'[tm] = shots[tm] /\ cancelled' = cancelled BY <1>5, <2>4, Zenon
    <3> QED BY <2>1, <2>2, <3>1, <3>2, Zenon
  <2> QED BY <2>3, <2>4
<1>10. Lives'
  <2> SUFFICES ASSUME NEW tm \in Timers
               PROVE  /\ m_next'[tm] >= m_ms'[tm]
                      /\ life'[tm] = "none" => ~m_cb'[tm] /\ shots'[tm] = 0 /\ tm \notin cancelled'
                      /\ life'[tm] = "made" => m_cb'[tm]
    BY Zenon DEF Lives
  <2>1. m_next'[tm] >= m_ms'[tm] BY <1>1, <1>5 DEF Inv, TypeOK, Lives
  <2>2. tm \in out => life[tm] = "known" BY <1>3
  <2> QED BY <1>5, <2>1, <2>2, Zenon DEF Inv, Lives
<1> QED BY <1>7, <1>8, <1>9, <1>10 DEF Inv

\* The steps that leave the timers alone preserve the invariant.
LEMMA OtherInv ==
  ASSUME Inv, UNCHANGED timerVars, TypeOK'
  PROVE  Inv'
  BY Zenon DEF Inv, timerVars, Registered, FireOrCancel, Lives, Found, Node

\* Every step preserves the invariant.
LEMMA NextInv == Inv /\ [Next]_vars => Inv'
<1> SUFFICES ASSUME Inv, [Next]_vars PROVE Inv' OBVIOUS
<1>1. CASE Client
  BY <1>1, MakeTimerInv, AddTimerInv, CancelInv, RefreshInv, ResetInv, Zenon DEF Client
<1>2. CASE \E t \in Threads : Collect(t) BY <1>2, CollectInv
<1>3. ASSUME NEW t \in Threads, ReadNow(t) \/ CollectNone(t) \/ TakeCbs(t) PROVE Inv'
  <2>1. TypeOK'
    BY <1>3, Zenon DEF Inv, TypeOK, ReadNow, CollectNone, TakeCbs, timerVars, clockVars
  <2> QED BY <1>3, <2>1, OtherInv, Zenon DEF ReadNow, CollectNone, TakeCbs
<1>4. CASE GetNextTimer \/ InsertedAtFront \/ Advance \/ SetBack \/ UNCHANGED vars
  <2> USE DEF Inv, TypeOK, timerVars, clockVars
  <2>1. TypeOK'
    <3>1. CASE GetNextTimer BY <3>1, Zenon DEF GetNextTimer
    <3>5. CASE InsertedAtFront
      <4>1. front' \in Nat BY <3>5 DEF InsertedAtFront
      <4> QED BY <3>5, <4>1, Zenon DEF InsertedAtFront
    <3>2. CASE Advance BY <3>2 DEF Advance
    <3>3. CASE SetBack
      <4>1. clock' \in Nat /\ backs' \in 0..MaxBacks BY <3>3, TimerAssumption DEF SetBack
      <4> QED BY <3>3, <4>1, Zenon DEF SetBack
    <3>4. CASE UNCHANGED vars BY <3>4, Zenon DEF vars
    <3> QED BY <1>4, <3>1, <3>2, <3>3, <3>4, <3>5, Zenon
  <2> HIDE DEF Inv, TypeOK, timerVars, clockVars
  <2> QED BY <1>4, <2>1, OtherInv, Zenon DEF GetNextTimer, InsertedAtFront, Advance, SetBack, vars
<1> QED BY <1>1, <1>2, <1>3, <1>4, Zenon DEF Next, Expiry

\* The invariant holds in every reachable state.
THEOREM TimerInvariant == Spec => []Inv
  BY InitInv, NextInv, PTL DEF Spec

\* The types of the timers' state hold: in particular no time underflows.
THEOREM TimerTypes == Spec => []TypeOK
<1>1. Inv => TypeOK BY DEF Inv
<1> QED BY <1>1, TimerInvariant, PTL

\* A timer is in the set, at the place its m_next says, exactly while it has a
\* callback: cancel(), which erases what find() returns, never erases end().
THEOREM TimerRegistered == Spec => []Registered
<1>1. Inv => Registered BY DEF Inv
<1> QED BY <1>1, TimerInvariant, PTL

\* A one-shot timer expires at most once, and never both expires and is
\* cancelled.
THEOREM TimerFireOrCancel == Spec => []FireOrCancel
<1>1. Inv => FireOrCancel BY DEF Inv
<1> QED BY <1>1, TimerInvariant, PTL

-----------------------------------------------------------------------------
(* No timer expires early. *)

\* A timer is due its interval after the moment it counts from, and unless the
\* clock was set back every time that was read of it is over.
Timely ==
  /\ \A tm \in Timers : m_next[tm] = since[tm] + m_ms[tm]
  /\ backs = 0 => /\ Start <= m_previouseTime /\ m_previouseTime <= clock
                  /\ \A t \in Threads : now[t] # -1 => Start <= now[t] /\ now[t] <= clock

\* The manager is made in such a state.
LEMMA InitTimely == Init => Timely
  BY TimerAssumption DEF Init, Timely

\* Every step preserves that: refresh() and a recurring expiry count from the time
\* they go by, and reset() from where the timer counted before or from now on.
LEMMA TimelyNext == ASSUME Inv, Timely, [Next]_vars  PROVE Timely'
<1>1. ASSUME NEW tm \in Timers
      PROVE  m_next[tm] \in Nat /\ m_ms[tm] \in Nat /\ since[tm] \in Nat /\ m_next[tm] = since[tm] + m_ms[tm]
  BY Zenon DEF Inv, TypeOK, Timely
<1>2. clock \in Nat /\ m_previouseTime \in Nat /\ backs \in Nat /\ \A t \in Threads : now[t] \in Nat \cup {-1}
  BY DEF Inv, TypeOK
<1>3. ASSUME UNCHANGED <<clock, backs, m_previouseTime, now>>,
             NEW tm \in Timers, NEW x \in Nat, NEW y \in Nat, NEW z \in Nat, x = z + y,
             m_next' = [m_next EXCEPT ![tm] = x], since' = [since EXCEPT ![tm] = z],
             m_ms' = [m_ms EXCEPT ![tm] = y]
      PROVE  Timely'
  <2>1. ASSUME NEW u \in Timers  PROVE m_next'[u] = since'[u] + m_ms'[u]
    BY <1>3, <1>1, Zenon DEF Inv, TypeOK
  <2> QED  BY <1>3, <2>1, Zenon DEF Timely
<1>4. ASSUME UNCHANGED <<m_next, m_ms, since>>, UNCHANGED <<clock, backs, m_previouseTime, now>>
      PROVE  Timely'
  BY <1>4, Zenon DEF Timely
<1>5. ASSUME NEW tm \in Timers, NEW ms \in Periods, NEW r \in BOOLEAN, MakeTimer(tm, ms, r)  PROVE Timely'
  <2>1. /\ m_next' = [m_next EXCEPT ![tm] = clock + ms] /\ since' = [since EXCEPT ![tm] = clock]
        /\ m_ms' = [m_ms EXCEPT ![tm] = ms] /\ UNCHANGED <<clock, backs, m_previouseTime, now>>
    BY <1>5, Zenon DEF MakeTimer, clockVars
  <2>2. ms \in Nat /\ clock + ms \in Nat
    BY <1>2, TimerAssumption
  <2> QED  BY <1>2, <1>3, <2>1, <2>2, Zenon
<1>6. ASSUME NEW tm \in Timers, AddTimer(tm) \/ Cancel(tm)  PROVE Timely'
  BY <1>4, <1>6, Zenon DEF AddTimer, Cancel, clockVars
<1>7. ASSUME NEW tm \in Timers, Refresh(tm)  PROVE Timely'
  <2>1. /\ m_next' = [m_next EXCEPT ![tm] = clock + m_ms[tm]] /\ since' = [since EXCEPT ![tm] = clock]
        /\ m_ms' = m_ms /\ UNCHANGED <<clock, backs, m_previouseTime, now>>
    BY <1>7, Zenon DEF Refresh, clockVars
  <2>2. m_ms' = [m_ms EXCEPT ![tm] = m_ms[tm]]
    BY <2>1, Zenon DEF Inv, TypeOK
  <2>3. m_ms[tm] \in Nat /\ clock + m_ms[tm] \in Nat
    BY <1>1, <1>2
  <2> QED  BY <1>2, <1>3, <2>1, <2>2, <2>3, Zenon
<1>8. ASSUME NEW tm \in Timers, NEW ms \in Periods, NEW f \in BOOLEAN, Reset(tm, ms, f)  PROVE Timely'
  <2> DEFINE from == IF f THEN clock ELSE since[tm]
  <2>1. from \in Nat /\ ms \in Nat /\ from + ms \in Nat
    BY <1>1, <1>2, TimerAssumption
  <2>2. StartOf(tm, ms, f) = from
    BY <1>1, <1>2 DEF StartOf
  <2>3. /\ m_next' = [m_next EXCEPT ![tm] = StartOf(tm, ms, f) + ms]
        /\ m_ms' = [m_ms EXCEPT ![tm] = ms] /\ UNCHANGED <<clock, backs, m_previouseTime, now>>
        /\ since' = IF f THEN [since EXCEPT ![tm] = clock] ELSE since
    BY <1>8, Zenon DEF Reset, clockVars
  <2>4. since' = [since EXCEPT ![tm] = from]
    BY <2>3, Zenon DEF Inv, TypeOK
  <2> HIDE DEF from
  <2> QED  BY <1>3, <2>1, <2>2, <2>3, <2>4, Zenon
<1>9. ASSUME NEW t \in Threads, Collect(t)  PROVE Timely'
  <2> DEFINE n     == now[t]
             again == {tm \in {e.timer : e \in Expired(n)} : m_recurring[tm]}
  <2>1. /\ m_next' = [tm \in Timers |-> IF tm \in again THEN n + m_ms[tm] ELSE m_next[tm]]
        /\ since' = [tm \in Timers |-> IF tm \in again THEN n ELSE since[tm]]
        /\ now' = [now EXCEPT ![t] = -1] /\ m_previouseTime' = n /\ n # -1
        /\ UNCHANGED <<m_ms, clock, backs>>
    BY <1>9, Zenon DEF Collect, clockVars
  <2> HIDE DEF again
  <2>2. ASSUME NEW u \in Timers  PROVE m_next'[u] = since'[u] + m_ms'[u]
    BY <1>1, <2>1, Zenon
  <2>3. \A u \in Threads : now'[u] # -1 => now'[u] = now[u]
    BY <2>1, Zenon DEF Inv, TypeOK
  <2> QED  BY <2>1, <2>2, <2>3, Zenon DEF Timely
<1>10. ASSUME NEW t \in Threads, ReadNow(t)  PROVE Timely'
  <2>1. UNCHANGED <<m_next, m_ms, since, clock, backs, m_previouseTime>> /\ now' = [now EXCEPT ![t] = clock]
    BY <1>10, Zenon DEF ReadNow, timerVars, clockVars
  <2>2. \A u \in Threads : now'[u] = now[u] \/ now'[u] = clock
    BY <2>1, Zenon DEF Inv, TypeOK
  <2>3. backs = 0 => Start <= clock /\ clock <= clock
    BY <1>2, TimerAssumption DEF Timely
  <2> QED  BY <2>1, <2>2, <2>3, Zenon DEF Timely
<1>11. ASSUME NEW t \in Threads, CollectNone(t) \/ TakeCbs(t)  PROVE Timely'
  <2>1. UNCHANGED <<m_next, m_ms, since, clock, backs, m_previouseTime>> /\ (now' = [now EXCEPT ![t] = -1] \/ now' = now)
    BY <1>11, Zenon DEF CollectNone, TakeCbs, timerVars, clockVars
  <2>2. \A u \in Threads : now'[u] # -1 => now'[u] = now[u]
    BY <2>1, Zenon DEF Inv, TypeOK
  <2> QED  BY <2>1, <2>2, Zenon DEF Timely
<1>12. CASE Advance
  <2>1. UNCHANGED <<m_next, m_ms, since, backs, m_previouseTime, now>> /\ clock' = clock + 1
    BY <1>12, Zenon DEF Advance, timerVars
  <2>2. \A x \in Nat : x <= clock => x <= clock'
    BY <1>2, <2>1
  <2>3. \A t \in Threads : now[t] # -1 => now[t] \in Nat
    BY <1>2
  <2> QED  BY <1>2, <2>1, <2>2, <2>3, Zenon DEF Timely
<1>13. CASE SetBack
  <2>1. UNCHANGED <<m_next, m_ms, since>> /\ backs' = backs + 1
    BY <1>13, Zenon DEF SetBack, timerVars
  <2>2. backs' # 0
    BY <1>2, <2>1
  <2> QED  BY <2>1, <2>2, Zenon DEF Timely
<1>14. CASE GetNextTimer \/ InsertedAtFront \/ UNCHANGED vars
  BY <1>4, <1>14, Zenon DEF GetNextTimer, InsertedAtFront, vars, timerVars, clockVars
<1> QED  BY <1>5, <1>6, <1>7, <1>8, <1>9, <1>10, <1>11, <1>12, <1>13, <1>14, Zenon DEF Next, Client, Expiry

\* No thread takes the time it read for a clock that was set back.
Steady == backs = 0 => \A t \in Threads : now[t] # -1 => ~Rollover(now[t])

\* What a step collects is due.
InTime == backs = 0 => \A t \in Threads : \A tm \in cbs'[t] \ cbs[t] : clock >= since[tm] + m_ms[tm]

\* listExpiredCb() then takes out only timers whose interval is over.
LEMMA CollectsInTime == ASSUME Inv, Timely, Steady, [Next]_vars  PROVE InTime
<1> SUFFICES ASSUME backs = 0, NEW t \in Threads, NEW tm \in cbs'[t], tm \notin cbs[t]
             PROVE  clock >= since[tm] + m_ms[tm]
  BY Zenon DEF InTime
<1>1. \E u \in Threads : Collect(u) \/ TakeCbs(u)
  <2>1. cbs' # cbs
    OBVIOUS
  <2> QED  BY <2>1, ZenonT(40) DEF Next, Client, Expiry, vars, MakeTimer, AddTimer, Cancel, Refresh, Reset,
                     ReadNow, CollectNone, GetNextTimer, InsertedAtFront, Advance, SetBack
<1>2. PICK u \in Threads : Collect(u)
  <2>1. ASSUME NEW u \in Threads, TakeCbs(u)  PROVE FALSE
    <3>1. cbs' = [cbs EXCEPT ![u] = {}]
      BY <2>1, Zenon DEF TakeCbs
    <3> QED  BY <3>1, Zenon DEF Inv, TypeOK
  <2> QED  BY <1>1, <2>1, Zenon
<1>3. now[u] # -1 /\ cbs' = [cbs EXCEPT ![u] = {e.timer : e \in Expired(now[u])}]
  BY <1>2, Zenon DEF Collect
<1>4. tm \in {e.timer : e \in Expired(now[u])}
  BY <1>3, Zenon DEF Inv, TypeOK
<1>5. Expired(now[u]) = {e \in m_timers : e.at <= now[u]}
  BY <1>3, Zenon DEF Steady, Expired
<1>6. PICK e \in m_timers : e.timer = tm /\ e.at <= now[u]
  BY <1>4, <1>5, Zenon
<1>7. tm \in Timers /\ e.at = m_next[tm]
  BY <1>6, Zenon DEF Inv, TypeOK, Registered
<1>8. m_next[tm] = since[tm] + m_ms[tm] /\ m_next[tm] \in Nat /\ now[u] <= clock
  BY <1>3, <1>7, Zenon DEF Timely, Inv, TypeOK
<1>9. clock \in Nat /\ now[u] \in Nat /\ since[tm] \in Nat /\ m_ms[tm] \in Nat
  BY <1>3, <1>7, Zenon DEF Inv, TypeOK
<1> QED  BY <1>6, <1>7, <1>8, <1>9

\* Every thread has the lock within an hour of the time it read.
Prompt == \A t \in Threads : now[t] # -1 => clock <= now[t] + Hour

\* While nobody sets the clock back, no timer expires before its interval is
\* over, however many threads call listExpiredCb() and in whatever order they get
\* the lock, if each gets it within an hour and the clock is past its first hour:
\* detectClockRollover() takes a longer delay for a clock that was set back.
THEOREM TimersNeverEarly == ASSUME Hour <= Start  PROVE Spec /\ []Prompt => NeverEarly
<1>1. ASSUME Inv, Timely, Prompt  PROVE Steady
  <2> SUFFICES ASSUME backs = 0, NEW t \in Threads, now[t] # -1  PROVE ~Rollover(now[t])
    BY DEF Steady
  <2>1. /\ m_previouseTime \in Nat /\ now[t] \in Nat /\ clock \in Nat
        /\ Start <= m_previouseTime /\ m_previouseTime <= clock /\ clock <= now[t] + Hour
    BY <1>1, Zenon DEF Inv, TypeOK, Timely, Prompt
  <2> QED  BY <2>1, TimerAssumption DEF Rollover
<1>2. ASSUME Inv, Timely, Prompt, [Next]_vars  PROVE [InTime]_vars
  BY <1>1, <1>2, CollectsInTime
<1>3. Inv /\ Timely /\ Prompt /\ [Next]_vars => [InTime]_vars
  BY <1>2
<1>4. Inv /\ Timely /\ [Next]_vars => Timely'
  BY TimelyNext
<1> QED  BY <1>3, <1>4, InitTimely, TimerInvariant, PTL DEF Spec, NeverEarly, InTime

\* The time a thread read is not before the one that was collected by last.
Onward == backs = 0 => \A t \in Threads : now[t] # -1 => m_previouseTime <= now[t]

\* A thread that is the only one to call listExpiredCb() collects no timer early,
\* however long it waits for the lock and whatever the clock began with.
THEOREM AloneNeverEarly == ASSUME \A t, u \in Threads : t = u  PROVE Spec => NeverEarly
<1>1. Init => Onward
  BY Zenon DEF Init, Onward
<1>2. ASSUME Inv, Timely, Onward, [Next]_vars  PROVE Onward'
  <2>1. CASE m_previouseTime' = m_previouseTime /\ (now' = now \/ \E t \in Threads : now' = [now EXCEPT ![t] = -1])
             /\ (backs' = 0 => backs = 0)
    <3>1. \A t \in Threads : now'[t] # -1 => now'[t] = now[t]
      BY <2>1, <1>2, Zenon DEF Inv, TypeOK
    <3> QED  BY <1>2, <2>1, <3>1, Zenon DEF Onward
  <2>2. ASSUME NEW t \in Threads, ReadNow(t)  PROVE Onward'
    <3>1. now' = [now EXCEPT ![t] = clock] /\ m_previouseTime' = m_previouseTime /\ backs' = backs
      BY <2>2, Zenon DEF ReadNow, clockVars
    <3>2. \A u \in Threads : now'[u] = now[u] \/ now'[u] = clock
      BY <1>2, <3>1, Zenon DEF Inv, TypeOK
    <3> QED  BY <1>2, <3>1, <3>2, Zenon DEF Onward, Timely
  <2>3. ASSUME NEW t \in Threads, Collect(t)  PROVE Onward'
    <3>1. now' = [now EXCEPT ![t] = -1]
      BY <2>3, Zenon DEF Collect
    <3>2. \A u \in Threads : now'[u] = -1
      BY <1>2, <3>1, Zenon DEF Inv, TypeOK
    <3> QED  BY <3>2, Zenon DEF Onward
  <2>4. CASE SetBack
    <3>1. backs' # 0
      BY <1>2, <2>4 DEF SetBack, Inv, TypeOK
    <3> QED  BY <3>1, Zenon DEF Onward
  <2>5. CASE Client \/ GetNextTimer \/ InsertedAtFront \/ Advance \/ UNCHANGED vars
    <3>1. CASE Client
      BY <2>1, <3>1, ZenonT(40) DEF Client, MakeTimer, AddTimer, Cancel, Refresh, Reset, clockVars
    <3>2. CASE GetNextTimer \/ InsertedAtFront \/ UNCHANGED vars
      BY <2>1, <3>2, Zenon DEF GetNextTimer, InsertedAtFront, vars, clockVars
    <3>3. CASE Advance
      BY <2>1, <3>3, Zenon DEF Advance
    <3> QED  BY <2>5, <3>1, <3>2, <3>3
  <2>6. ASSUME NEW t \in Threads, CollectNone(t) \/ TakeCbs(t)  PROVE Onward'
    BY <2>1, <2>6, Zenon DEF CollectNone, TakeCbs, clockVars
  <2> QED  BY <1>2, <2>2, <2>3, <2>4, <2>5, <2>6, Zenon DEF Next, Expiry
<1>3. ASSUME Inv, Onward  PROVE Steady
  <2> SUFFICES ASSUME backs = 0, NEW t \in Threads, now[t] # -1  PROVE ~Rollover(now[t])
    BY DEF Steady
  <2>1. m_previouseTime \in Nat /\ now[t] \in Nat /\ m_previouseTime <= now[t]
    BY <1>3, Zenon DEF Inv, TypeOK, Onward
  <2> QED  BY <2>1 DEF Rollover
<1>4. ASSUME Inv, Timely, Onward, [Next]_vars  PROVE [InTime]_vars
  BY <1>3, <1>4, CollectsInTime
<1>5. Inv /\ Timely /\ Onward /\ [Next]_vars => [InTime]_vars /\ Timely' /\ Onward'
  BY <1>2, <1>4, TimelyNext
<1> QED  BY <1>1, <1>5, InitTimely, TimerInvariant, PTL DEF Spec, NeverEarly, InTime

-----------------------------------------------------------------------------
(* The timers of an IOManager. *)

\* A step of a client of the timers, or of the clock, is one of Timer.
LEMMA ClientIsTimerStep == Client \/ Advance => Next
  BY DEF Next

\* run() and idle() work on the timers by getNextTimer() and listExpiredCb() only.
LEMMA ThreadIsTimerStep ==
  ASSUME m_tickled \in BOOLEAN, NEW t \in Threads, Thread(t) PROVE [Next]_vars
<1>1. CASE UNCHANGED vars BY <1>1
<1>2. CASE GetNext(t)
  <2>1. /\ m_tickled' = FALSE
        /\ UNCHANGED <<timerVars, clockVars, m_previouseTime, front, now, cbs>>
    BY <1>2, Zenon DEF GetNext
  <2>2. CASE m_tickled BY <2>1, <2>2 DEF GetNextTimer, Next
  <2>3. CASE ~m_tickled
    <3>1. m_tickled' = m_tickled BY <2>1, <2>3, Zenon
    <3> QED BY <2>1, <3>1 DEF vars
  <2> QED BY <2>2, <2>3
<1>3. CASE Expire(t)
  <2>1. ReadNow(t) \/ Collect(t) \/ CollectNone(t) \/ TakeCbs(t) BY <1>3, Zenon DEF Expire
  <2> QED BY <2>1 DEF Expiry, Next
<1>4. CASE Take(t) \/ FindNothing(t) \/ Finish(t) \/ EnterIdle(t) \/ Wake(t) \/ SwitchBack(t)
  BY <1>1, <1>4, Zenon DEF Take, FindNothing, Finish, EnterIdle, Wake, SwitchBack
<1> QED BY <1>2, <1>3, <1>4, Zenon DEF Thread

\* Every step of the threads and their clients is one of Timer, or leaves the
\* timers alone.
LEMMA StepIsTimerStep ==
  ASSUME m_tickled \in BOOLEAN, [IdleNext]_allVars PROVE [Next]_vars
<1>1. CASE UNCHANGED vars BY <1>1
<1>2. CASE \E t \in Threads : Thread(t) BY <1>2, ThreadIsTimerStep
<1>3. CASE \E a \in Threads \cup {Outside} : Tickle(a) \/ ScheduleTask(a)
  BY <1>1, <1>3, Zenon DEF Tickle, ScheduleTask
<1>4. CASE TickleFront BY <1>4 DEF TickleFront, Next
<1>5. CASE (Client \/ Advance) /\ UNCHANGED poolVars BY <1>5, ClientIsTimerStep
<1>6. CASE UNCHANGED allVars BY <1>1, <1>6 DEF allVars
<1> QED BY <1>2, <1>3, <1>4, <1>5, <1>6, Zenon DEF IdleNext

\* What holds of the timers holds of them in an IOManager: its threads call
\* getNextTimer(), listExpiredCb() and onTimerInsertedAtFront() in the ways that
\* Timer allows.
THEOREM IdleImplementsTimer == IdleSpec => Spec
<1>1. IdleInit => Init /\ m_tickled \in BOOLEAN BY Zenon DEF IdleInit, Init
<1>2. m_tickled \in BOOLEAN /\ [IdleNext]_allVars => [Next]_vars BY StepIsTimerStep
<1>3. Inv => m_tickled \in BOOLEAN BY Zenon DEF Inv, TypeOK
<1>4. IdleInit => Inv BY <1>1, InitInv
<1>5. Inv /\ [IdleNext]_allVars => Inv' BY <1>2, <1>3, NextInv
<1> QED BY <1>1, <1>2, <1>3, <1>4, <1>5, PTL DEF IdleSpec, Spec

-----------------------------------------------------------------------------
(* How long a thread sleeps. *)

\* Every interval fits an int.
FitsInt == \A ms \in Periods : ms < IntRange \div 2

\* Timers count from a moment that is over, so that the time to one is never
\* longer than its interval.
Bounded ==
  /\ \A t \in Threads : now[t] <= clock
  /\ \A tm \in Timers :
       m_next[tm] - m_ms[tm] <= clock /\ (life[tm] # "none" => m_ms[tm] \in Periods)

Asleep ==
  /\ pc \in [Threads -> {"scan", "none", "busy", "idle", "asleep", "awake", "expire", "cbs"}]
  /\ deadline \in [Threads -> Int]

Sleeps == Inv /\ Bounded /\ Asleep /\ SleepBounded

\* The set of timers has a first one, as begin() supposes.
LEMMA FirstExists ==
  ASSUME m_timers \in SUBSET [at : Nat, timer : Timers], m_timers # {}
  PROVE  \E e \in m_timers : First(e, m_timers)
<1> DEFINE T == {e.at : e \in m_timers}
<1>1. T \in SUBSET Nat /\ T # {} OBVIOUS
<1>2. \E n \in T : \A m \in T : ~ (<<m, n>> \in OpToRel(<, Nat))
  BY <1>1, WFMin, NatLessThanWellFounded, Zenon
<1>3. PICK n \in T : \A m \in T : ~ (<<m, n>> \in OpToRel(<, Nat)) BY <1>2, Zenon
<1>4. ASSUME NEW m \in T PROVE n <= m
  <2>1. m \in Nat /\ n \in Nat BY <1>1
  <2>2. m < n => <<m, n>> \in OpToRel(<, Nat) BY <2>1 DEF OpToRel
  <2>3. ~(m < n) BY <1>3, <2>2, Zenon
  <2> QED BY <2>1, <2>3
<1>5. PICK e \in m_timers : e.at = n BY <1>3, Zenon
<1>6. \A o \in m_timers : o.at \in T /\ o.at \in Nat /\ e.at \in Nat OBVIOUS
<1> HIDE DEF T
<1>7. First(e, m_timers)
  <2> SUFFICES ASSUME NEW o \in m_timers PROVE o.at >= e.at BY DEF First
  <2>1. n <= o.at BY <1>4, <1>6
  <2> QED BY <1>5, <1>6, <2>1
<1> QED BY <1>7

\* A conversion to int keeps what fits.
LEMMA ToIntKeeps ==
  ASSUME NEW x \in Nat, x < IntRange \div 2 PROVE ToInt(x) = x
<1> DEFINE h == IntRange \div 2
<1>1. h \in Nat /\ 2 * h <= IntRange BY IdleAssumption
<1>2. x + h \in 0..(IntRange - 1) BY <1>1, IdleAssumption
<1>3. (x + h) % IntRange = x + h BY <1>2, IdleAssumption
<1> HIDE DEF h
<1>4. ((x + h) % IntRange) - h = x BY <1>1, <1>3
<1> QED BY <1>4 DEF ToInt, h

\* The time to the next timer fits an int.
LEMMA NextTimerFits ==
  ASSUME FitsInt, Inv, Bounded
  PROVE  NextTimer = Never \/ (NextTimer \in Nat /\ NextTimer < IntRange \div 2)
<1>1. CASE m_timers = {} BY <1>1 DEF NextTimer
<1>2. CASE m_timers # {}
  <2> DEFINE e == CHOOSE e \in m_timers : First(e, m_timers)
  <2>1. e \in m_timers BY <1>2, FirstExists, Zenon DEF Inv, TypeOK
  <2>2. NextTimer = IF clock >= e.at THEN 0 ELSE e.at - clock BY <1>2 DEF NextTimer
  <2> HIDE DEF e
  <2>3. e.at \in Nat /\ e.timer \in Timers /\ e.at = m_next[e.timer] /\ clock \in Nat
    BY <2>1, Zenon DEF Inv, TypeOK, Registered
  <2>4. Found(e.timer) BY <2>1, <2>3, Zenon DEF Found, Node, Inv, TypeOK
  <2>5. m_ms[e.timer] \in Periods /\ e.at <= clock + m_ms[e.timer]
    <3>1. life[e.timer] = "known" BY <2>3, <2>4, Zenon DEF Inv, Registered
    <3> QED BY <2>3, <3>1, TimerAssumption DEF Bounded, Inv, TypeOK
  <2>6. m_ms[e.timer] < IntRange \div 2 BY <2>5 DEF FitsInt
  <2>7. IntRange \div 2 \in Nat /\ 0 < IntRange \div 2 BY IdleAssumption
  <2>8. m_ms[e.timer] \in Nat BY <2>5, TimerAssumption, Zenon
  <2> QED BY <2>2, <2>3, <2>5, <2>6, <2>7, <2>8, TimerAssumption
<1> QED BY <1>1, <1>2

\* The timeout of epoll_wait() is then between 0 and MAX_TIMEOUT.
LEMMA TimeoutFits ==
  ASSUME FitsInt, Inv, Bounded
  PROVE  Timeout(NextTimer) \in 0..MaxTimeout
<1>1. MaxTimeout \in Nat /\ MaxTimeout < IntRange \div 2 BY IdleAssumption
<1>2. ToInt(MaxTimeout) = MaxTimeout BY <1>1, ToIntKeeps
<1>3. CASE NextTimer = Never BY <1>1, <1>3 DEF Timeout
<1>4. CASE NextTimer \in Nat /\ NextTimer < IntRange \div 2
  <2>1. ToInt(NextTimer) = NextTimer BY <1>4, ToIntKeeps
  <2>2. NextTimer # Never BY <1>4 DEF Never
  <2> QED BY <1>1, <1>2, <1>4, <2>1, <2>2 DEF Timeout
<1> QED BY <1>3, <1>4, NextTimerFits

\* Every step of Timer that does not set the clock back has the timers count
\* from moments that are over.
LEMMA BoundedNext ==
  ASSUME Inv, Bounded, [Next]_vars, clock' >= clock PROVE Bounded'
<1> USE TimerAssumption DEF Inv, TypeOK
<1>1. ASSUME NEW tm \in Timers, NEW ms \in Periods, NEW r \in BOOLEAN, MakeTimer(tm, ms, r)
      PROVE  Bounded'
  BY <1>1 DEF MakeTimer, Bounded, clockVars
<1>2. ASSUME NEW tm \in Timers, AddTimer(tm) PROVE Bounded'
  BY <1>2, Zenon DEF AddTimer, Bounded, clockVars
<1>3. ASSUME NEW tm \in Timers, Cancel(tm) PROVE Bounded'
  BY <1>3, Zenon DEF Cancel, Bounded, clockVars
<1>4. ASSUME NEW tm \in Timers, Refresh(tm) PROVE Bounded'
  BY <1>4 DEF Refresh, Bounded, clockVars
<1>5. ASSUME NEW tm \in Timers, NEW ms \in Periods, NEW from_now \in BOOLEAN,
             Reset(tm, ms, from_now)
      PROVE  Bounded'
  BY <1>5 DEF Reset, StartOf, Bounded, clockVars
<1>6. ASSUME NEW t \in Threads, Collect(t) PROVE Bounded'
  <2>1. /\ now[t] \in Nat /\ now[t] <= clock
        /\ UNCHANGED <<clock, m_ms, life>> /\ now' = [now EXCEPT ![t] = -1]
    BY <1>6, Zenon DEF Collect, Bounded, clockVars
  <2>2. \A tm \in Timers : m_next'[tm] \in {m_next[tm], now[t] + m_ms[tm]}
    BY <1>6, Zenon DEF Collect
  <2>3. \A tm \in Timers : m_next'[tm] - m_ms[tm] <= clock
    BY <2>1, <2>2 DEF Bounded
  <2> QED BY <2>1, <2>3 DEF Bounded
<1>7. ASSUME NEW t \in Threads, ReadNow(t) \/ CollectNone(t) \/ TakeCbs(t) PROVE Bounded'
  BY <1>7 DEF ReadNow, CollectNone, TakeCbs, Bounded, clockVars, timerVars
<1>8. CASE Advance \/ SetBack
  <2>1. UNCHANGED <<m_next, m_ms, life, now>> /\ clock' \in Nat
    BY <1>8 DEF Advance, SetBack, timerVars
  <2> QED BY <2>1 DEF Bounded
<1>9. CASE GetNextTimer \/ InsertedAtFront \/ UNCHANGED vars
  BY <1>9, Zenon DEF GetNextTimer, InsertedAtFront, vars, Bounded, clockVars, timerVars
<1> QED BY <1>1, <1>2, <1>3, <1>4, <1>5, <1>6, <1>7, <1>8, <1>9, Zenon DEF Next, Client, Expiry

\* No step of an IOManager sets the clock back.
LEMMA ClockForward ==
  ASSUME clock \in Nat, [IdleNext]_allVars PROVE clock' >= clock
<1>1. ASSUME NEW t \in Threads, Thread(t) PROVE clock' = clock
  BY <1>1, Zenon DEF Thread, Take, FindNothing, Finish, EnterIdle, GetNext, Wake, Expire, SwitchBack,
                     ReadNow, Collect, CollectNone, TakeCbs, vars, clockVars
<1>2. ASSUME NEW a \in Threads \cup {Outside}, Tickle(a) \/ ScheduleTask(a) PROVE clock' = clock
  BY <1>2, Zenon DEF Tickle, ScheduleTask, vars, clockVars
<1>3. ASSUME TickleFront PROVE clock' = clock
  BY <1>3, Zenon DEF TickleFront, InsertedAtFront, clockVars
<1>4. ASSUME NEW tm \in Timers,
             \/ AddTimer(tm) \/ Cancel(tm) \/ Refresh(tm)
             \/ \E ms \in Periods, b \in BOOLEAN : MakeTimer(tm, ms, b) \/ Reset(tm, ms, b)
      PROVE  clock' = clock
  BY <1>4, Zenon DEF AddTimer, Cancel, Refresh, MakeTimer, Reset, clockVars
<1>5. ASSUME Client PROVE clock' = clock BY <1>4, <1>5, Zenon DEF Client
<1>6. CASE Advance BY <1>6 DEF Advance
<1>7. ASSUME UNCHANGED allVars PROVE clock' = clock BY <1>7, Zenon DEF allVars, vars, clockVars
<1>8. clock' = clock \/ Advance
  BY <1>1, <1>2, <1>3, <1>5, <1>7, Zenon DEF IdleNext
<1> QED BY <1>6, <1>8

\* A thread that sleeps on is in time, since nobody sets the clock back.
LEMMA SleepsOn ==
  ASSUME Inv, Sleeps, clock' >= clock, clock' \in Nat, deadline' = deadline,
         \A t \in Threads : pc'[t] = "asleep" => pc[t] = "asleep"
  PROVE  SleepBounded'
  BY IdleAssumption DEF Sleeps, Inv, TypeOK, Asleep, SleepBounded, Forever

\* Every step keeps the sleep of every thread bounded.
LEMMA SleepsNext ==
  ASSUME FitsInt, Sleeps, [IdleNext]_allVars PROVE Sleeps'
<1> USE DEF Sleeps
<1>1. [Next]_vars BY StepIsTimerStep, Zenon DEF Inv, TypeOK
<1>2. Inv' /\ Bounded'
  <2>1. clock \in Nat BY Zenon DEF Inv, TypeOK
  <2>2. clock' >= clock BY <2>1, ClockForward, Zenon
  <2> QED BY <1>1, <2>2, NextInv, BoundedNext, Zenon
<1>3. clock' \in Nat /\ clock \in Nat BY <1>2, Zenon DEF Inv, TypeOK
<1>4. ASSUME NEW t \in Threads, GetNext(t) PROVE Asleep' /\ SleepBounded'
  <2>1. Timeout(NextTimer) \in 0..MaxTimeout BY TimeoutFits
  <2>2. Timeout(NextTimer) # Forever BY <2>1, IdleAssumption DEF Forever
  <2>3. /\ deadline' = [deadline EXCEPT ![t] = clock + Timeout(NextTimer)]
        /\ pc' = [pc EXCEPT ![t] = "asleep"] /\ clock' = clock
    BY <1>4, <2>2, Zenon DEF GetNext, Goto, clockVars
  <2> HIDE DEF Sleeps
  <2>4. Asleep' BY <1>3, <2>1, <2>3, IdleAssumption DEF Asleep, Sleeps
  <2>5. clock + Timeout(NextTimer) # Forever /\ clock + Timeout(NextTimer) <= clock + MaxTimeout
    BY <1>3, <2>1, IdleAssumption DEF Forever
  <2>6. SleepBounded' BY <2>3, <2>5, Zenon DEF SleepBounded, Asleep, Sleeps
  <2> QED BY <2>4, <2>6
<1>5. ASSUME NEW t \in Threads, Wake(t) PROVE Asleep' /\ SleepBounded'
  <2>1. /\ deadline' = [deadline EXCEPT ![t] = 0] /\ clock' = clock
        /\ pc' = [pc EXCEPT ![t] = "awake"]
    BY <1>5, Zenon DEF Wake, Goto, vars, clockVars
  <2> QED BY <2>1 DEF Asleep, SleepBounded
<1>6. ASSUME NEW t \in Threads, NEW label \in {"scan", "none", "busy", "idle", "expire", "cbs"},
             Goto(t, label), clock' = clock, deadline' = deadline
      PROVE  Asleep' /\ SleepBounded'
  <2>1. Asleep' BY <1>6 DEF Asleep, Goto
  <2>2. \A x \in Threads : pc'[x] = "asleep" => pc[x] = "asleep" BY <1>6 DEF Asleep, Goto
  <2> QED BY <1>3, <1>6, <2>1, <2>2, SleepsOn
<1>7. ASSUME pc' = pc, deadline' = deadline, clock' >= clock PROVE Asleep' /\ SleepBounded'
  <2>1. Asleep' BY <1>7 DEF Asleep
  <2>2. SleepBounded' BY <1>3, <1>7, SleepsOn
  <2> QED BY <2>1, <2>2
<1> HIDE DEF Sleeps
<1>8. ASSUME NEW t \in Threads, Thread(t) PROVE Asleep' /\ SleepBounded'
  <2>1. CASE Take(t) \/ FindNothing(t) \/ Finish(t) \/ EnterIdle(t) \/ SwitchBack(t)
    BY <1>6, <2>1, Zenon DEF Take, FindNothing, Finish, EnterIdle, SwitchBack, vars, clockVars
  <2>2. CASE Expire(t)
    <3>1. clock' = clock /\ deadline' = deadline
      BY <2>2, Zenon DEF Expire, ReadNow, Collect, CollectNone, TakeCbs, clockVars
    <3>2. Goto(t, "expire") \/ Goto(t, "cbs") \/ pc' = pc BY <2>2, Zenon DEF Expire
    <3> QED BY <1>3, <1>6, <1>7, <3>1, <3>2
  <2> QED BY <1>4, <1>5, <1>8, <2>1, <2>2, Zenon DEF Thread
<1>9. ASSUME NEW a \in Threads \cup {Outside}, Tickle(a) \/ ScheduleTask(a)
      PROVE  Asleep' /\ SleepBounded'
  BY <1>3, <1>7, <1>9 DEF Tickle, ScheduleTask, vars, clockVars
<1>10. ASSUME TickleFront PROVE Asleep' /\ SleepBounded'
  <2>1. pc' = pc /\ deadline' = deadline /\ clock' = clock
    BY <1>10 DEF TickleFront, InsertedAtFront, clockVars
  <2>2. clock' >= clock BY <1>3, <2>1
  <2> QED BY <1>7, <2>1, <2>2
<1>11. ASSUME Client \/ Advance, UNCHANGED poolVars PROVE Asleep' /\ SleepBounded'
  <2>1. [IdleNext]_allVars BY Zenon
  <2>2. clock' >= clock BY <1>3, <2>1, ClockForward, Zenon
  <2>3. pc' = pc /\ deadline' = deadline BY <1>11, Zenon DEF poolVars
  <2> QED BY <1>7, <2>2, <2>3, Zenon
<1>12. ASSUME UNCHANGED allVars PROVE Asleep' /\ SleepBounded'
  <2>1. pc' = pc /\ deadline' = deadline /\ clock' = clock
    BY <1>12, Zenon DEF allVars, vars, poolVars, clockVars
  <2>2. clock' >= clock BY <1>3, <2>1
  <2> QED BY <1>7, <2>1, <2>2
<1> QED BY <1>2, <1>8, <1>9, <1>10, <1>11, <1>12, Zenon DEF IdleNext, Sleeps

\* No thread sleeps in epoll_wait() longer than MAX_TIMEOUT, so that a wake-up
\* that went astray costs no more than that: provided that the intervals clients
\* ask for fit the int that idle() keeps the time to the next timer in.
THEOREM IdleSleepBounded ==
  ASSUME FitsInt PROVE IdleSpec => []SleepBounded
<1>1. IdleInit => Sleeps
  <2> SUFFICES ASSUME IdleInit PROVE Sleeps OBVIOUS
  <2>1. Init BY DEF IdleInit
  <2>2. Inv BY <2>1, InitInv
  <2>3. Bounded BY <2>1, TimerAssumption DEF Init, Bounded
  <2>4. Asleep /\ SleepBounded BY DEF IdleInit, Asleep, SleepBounded
  <2> QED BY <2>2, <2>3, <2>4 DEF Sleeps
<1>2. Sleeps /\ [IdleNext]_allVars => Sleeps' BY SleepsNext
<1>3. Sleeps => SleepBounded BY DEF Sleeps
<1> QED BY <1>1, <1>2, <1>3, PTL DEF IdleSpec
=============================================================================
