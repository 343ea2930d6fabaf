-------------------------------- MODULE Timer --------------------------------
(***************************************************************************)
(* Timer and TimerManager: the ordered set of timers, the operations on    *)
(* it, the threads that collect the expired ones, and the wall clock.      *)
(*                                                                         *)
(* The place of a timer in the std::set is the m_next it was inserted      *)
(* with: a find() or an erase() that looks for another one misses it.      *)
(***************************************************************************)
EXTENDS Integers, FiniteSets

CONSTANTS
  Timers,    \* the Timer objects, each of them made once
  Threads,   \* the threads that call listExpiredCb()
  Periods,   \* the intervals clients ask for
  Hour,      \* 60 * 60 * 1000
  Start,     \* the time at which the manager is made
  MaxTime,   \* bound: the clock stops here
  MaxBacks,  \* bound: how often the clock is set back
  Callers    \* bound: threads that can be in onTimerInsertedAtFront() at once

ASSUME TimerAssumption ==
  /\ Periods \subseteq Nat
  /\ Hour \in Nat /\ Start \in Nat /\ MaxTime \in Nat /\ MaxBacks \in Nat
  /\ Callers \in Nat

VARIABLES
  clock,            \* GetCurrentMS()
  backs,            \* how often the clock was set back
  m_timers,         \* the set: where each timer was inserted
  m_next, m_ms, m_recurring,
  m_cb,             \* the timer has a callback
  m_tickled, m_previouseTime,
  life,             \* "none", "made" (not yet inserted) or "known" to clients
  front,            \* calls of onTimerInsertedAtFront() still to be made
  now,              \* now_ms of a thread in listExpiredCb(), -1 outside
  cbs,              \* timers whose callbacks the thread has collected
  since,            \* the moment each timer counts from
  shots, cancelled  \* one-shot expiries, timers whose cancel() returned true

timerVars == <<m_timers, m_next, m_ms, m_recurring, m_cb, life, since, shots, cancelled>>
clockVars == <<clock, backs>>
vars == <<timerVars, clockVars, m_tickled, m_previouseTime, front, now, cbs>>

Node(tm) == [at |-> m_next[tm], timer |-> tm]

\* m_timers.find() finds the timer.
Found(tm) == Node(tm) \in m_timers

\* it == m_timers.begin()
First(e, nodes) == \A o \in nodes : o.at >= e.at

Init ==
  /\ clock = Start /\ backs = 0
  /\ m_timers = {}
  /\ m_next = [tm \in Timers |-> 0]
  /\ m_ms = [tm \in Timers |-> 0]
  /\ m_recurring = [tm \in Timers |-> FALSE]
  /\ m_cb = [tm \in Timers |-> FALSE]
  /\ m_tickled = FALSE
  /\ m_previouseTime = Start
  /\ life = [tm \in Timers |-> "none"]
  /\ front = 0
  /\ now = [t \in Threads |-> -1]
  /\ cbs = [t \in Threads |-> {}]
  /\ since = [tm \in Timers |-> 0]
  /\ shots = [tm \in Timers |-> 0]
  /\ cancelled = {}

-----------------------------------------------------------------------------
(* The clients. *)

\* addTimer(): the Timer is made, with its expiry, before the lock is taken.
MakeTimer(tm, ms, recurring) ==
  /\ life[tm] = "none"
  /\ life' = [life EXCEPT ![tm] = "made"]
  /\ m_next' = [m_next EXCEPT ![tm] = clock + ms]
  /\ m_ms' = [m_ms EXCEPT ![tm] = ms]
  /\ m_recurring' = [m_recurring EXCEPT ![tm] = recurring]
  /\ m_cb' = [m_cb EXCEPT ![tm] = TRUE]
  /\ since' = [since EXCEPT ![tm] = clock]
  /\ UNCHANGED <<m_timers, shots, cancelled, clockVars, m_tickled, m_previouseTime,
                 front, now, cbs>>

\* addTimer(val, lock): insert, and tell the subclass about a new front unless
\* it was told since the last getNextTimer().  Among timers due at one moment
\* the address decides, which may be lower or not.
Insert(nodes, e) ==
  \E lower \in BOOLEAN :
    LET at_front == ~m_tickled /\ \A o \in nodes : e.at < o.at \/ (e.at = o.at /\ lower)
    IN  /\ front < Callers
        /\ m_timers' = nodes \cup {e}
        /\ m_tickled' = (m_tickled \/ at_front)
        /\ front' = IF at_front THEN front + 1 ELSE front

AddTimer(tm) ==
  /\ life[tm] = "made"
  /\ Insert(m_timers, Node(tm))
  /\ life' = [life EXCEPT ![tm] = "known"]
  /\ UNCHANGED <<m_next, m_ms, m_recurring, m_cb, since, shots, cancelled, clockVars,
                 m_previouseTime, now, cbs>>

CancelAgain(tm) ==
  /\ life[tm] = "known"
  /\ m_cb' = [m_cb EXCEPT ![tm] = FALSE]
  /\ m_timers' = m_timers \ {Node(tm)}
  /\ cancelled' = cancelled \cup {tm}
  /\ UNCHANGED <<m_next, m_ms, m_recurring, life, since, shots, clockVars, m_tickled,
                 m_previouseTime, front, now, cbs>>

\* cancel()
Cancel(tm) ==
  /\ life[tm] = "known"
  /\ m_cb[tm]
  /\ m_cb' = [m_cb EXCEPT ![tm] = FALSE]
  /\ m_timers' = m_timers \ {Node(tm)}
  /\ cancelled' = cancelled \cup {tm}
  /\ UNCHANGED <<m_next, m_ms, m_recurring, life, since, shots, clockVars, m_tickled,
                 m_previouseTime, front, now, cbs>>

RefreshInPlace(tm) ==
  /\ life[tm] = "known" /\ m_cb[tm] /\ Found(tm)
  /\ m_next' = [m_next EXCEPT ![tm] = clock + m_ms[tm]]
  /\ since' = [since EXCEPT ![tm] = clock]
  /\ UNCHANGED <<m_timers, m_ms, m_recurring, m_cb, life, shots, cancelled, clockVars, m_tickled,
                 m_previouseTime, front, now, cbs>>

\* refresh(): counts from now on.  The front may change without a tickle.
Refresh(tm) ==
  /\ life[tm] = "known"
  /\ m_cb[tm] /\ Found(tm)
  /\ m_next' = [m_next EXCEPT ![tm] = clock + m_ms[tm]]
  /\ m_timers' = (m_timers \ {Node(tm)}) \cup {[at |-> clock + m_ms[tm], timer |-> tm]}
  /\ since' = [since EXCEPT ![tm] = clock]
  /\ UNCHANGED <<m_ms, m_recurring, m_cb, life, shots, cancelled, clockVars, m_tickled,
                 m_previouseTime, front, now, cbs>>

ResetAgo(tm, ms, from_now) == IF from_now THEN clock ELSE clock - m_ms[tm]

ResetStart(tm, ms, from_now) == IF from_now THEN clock ELSE m_next[tm] - ms

\* Where reset() counts from: now, or where the timer counted from before.
StartOf(tm, ms, from_now) == IF from_now THEN clock ELSE m_next[tm] - m_ms[tm]

\* reset(), which returns at once when nothing is to change.
Reset(tm, ms, from_now) ==
  /\ life[tm] = "known"
  /\ ~(ms = m_ms[tm] /\ ~from_now)
  /\ m_cb[tm] /\ Found(tm)
  /\ LET next == StartOf(tm, ms, from_now) + ms
     IN  /\ m_next' = [m_next EXCEPT ![tm] = next]
         /\ Insert(m_timers \ {Node(tm)}, [at |-> next, timer |-> tm])
  /\ m_ms' = [m_ms EXCEPT ![tm] = ms]
  /\ since' = IF from_now THEN [since EXCEPT ![tm] = clock] ELSE since
  /\ UNCHANGED <<m_recurring, m_cb, life, shots, cancelled, clockVars, m_previouseTime,
                 now, cbs>>

-----------------------------------------------------------------------------
(* The threads. *)

\* listExpiredCb() reads the clock before it takes the lock.
ReadNow(t) ==
  /\ now[t] = -1 /\ cbs[t] = {}
  /\ now' = [now EXCEPT ![t] = clock]
  /\ UNCHANGED <<timerVars, clockVars, m_tickled, m_previouseTime, front, cbs>>

\* detectClockRollover(): unsigned arithmetic, so an hour before the first
\* hour is far in the future.
Rollover(n) ==
  n < m_previouseTime /\ (m_previouseTime < Hour \/ n < m_previouseTime - Hour)

ExpiredAfter(n) == {e \in m_timers : e.at > n}

\* What listExpiredCb() takes out of the set.
Expired(n) ==
  IF Rollover(n) THEN m_timers ELSE {e \in m_timers : e.at <= n}

\* listExpiredCb() under the write lock.
Collect(t) ==
  LET n     == now[t]
      out   == {e.timer : e \in Expired(n)}
      again == {tm \in out : m_recurring[tm]}
  IN  /\ n # -1 /\ m_timers # {}
      /\ m_previouseTime' = n
      /\ cbs' = [cbs EXCEPT ![t] = out]
      /\ m_next' = [tm \in Timers |-> IF tm \in again THEN n + m_ms[tm] ELSE m_next[tm]]
      /\ m_timers' = (m_timers \ Expired(n))
                       \cup {[at |-> n + m_ms[tm], timer |-> tm] : tm \in again}
      /\ m_cb' = [tm \in Timers |-> m_cb[tm] /\ tm \notin out \ again]
      /\ since' = [tm \in Timers |-> IF tm \in again THEN n ELSE since[tm]]
      /\ shots' = [tm \in Timers |-> IF tm \in out \ again THEN shots[tm] + 1 ELSE shots[tm]]
      /\ now' = [now EXCEPT ![t] = -1]
      /\ UNCHANGED <<m_ms, m_recurring, life, cancelled, clockVars, m_tickled, front>>

\* The set is empty: listExpiredCb() returns.
CollectNone(t) ==
  /\ now[t] # -1 /\ m_timers = {}
  /\ now' = [now EXCEPT ![t] = -1]
  /\ UNCHANGED <<timerVars, clockVars, m_tickled, m_previouseTime, front, cbs>>

\* The caller of listExpiredCb() schedules what it got.
TakeCbs(t) ==
  /\ cbs[t] # {}
  /\ cbs' = [cbs EXCEPT ![t] = {}]
  /\ UNCHANGED <<timerVars, clockVars, m_tickled, m_previouseTime, front, now>>

\* getNextTimer() allows the next onTimerInsertedAtFront().
GetNextTimer ==
  /\ m_tickled
  /\ m_tickled' = FALSE
  /\ UNCHANGED <<timerVars, clockVars, m_previouseTime, front, now, cbs>>

\* onTimerInsertedAtFront(), after the lock is released.
InsertedAtFront ==
  /\ front > 0
  /\ front' = front - 1
  /\ UNCHANGED <<timerVars, clockVars, m_tickled, m_previouseTime, now, cbs>>

-----------------------------------------------------------------------------
Advance ==
  /\ clock < MaxTime
  /\ clock' = clock + 1
  /\ UNCHANGED <<backs, timerVars, m_tickled, m_previouseTime, front, now, cbs>>

\* Somebody sets the clock back.
SetBack ==
  /\ backs < MaxBacks
  /\ backs' = backs + 1
  /\ \E c \in 0..MaxTime : c < clock /\ clock' = c
  /\ UNCHANGED <<timerVars, m_tickled, m_previouseTime, front, now, cbs>>

Client ==
  \E tm \in Timers :
    \/ \E ms \in Periods, recurring \in BOOLEAN : MakeTimer(tm, ms, recurring)
    \/ AddTimer(tm) \/ Cancel(tm) \/ Refresh(tm)
    \/ \E ms \in Periods, from_now \in BOOLEAN : Reset(tm, ms, from_now)

Expiry == \E t \in Threads : ReadNow(t) \/ Collect(t) \/ CollectNone(t) \/ TakeCbs(t)

Next == Client \/ Expiry \/ GetNextTimer \/ InsertedAtFront \/ Advance \/ SetBack

Spec == Init /\ [][Next]_vars

-----------------------------------------------------------------------------
TypeOK ==
  /\ clock \in Nat /\ backs \in 0..MaxBacks
  /\ m_timers \in SUBSET [at : Nat, timer : Timers]
  /\ m_next \in [Timers -> Nat] /\ m_ms \in [Timers -> Nat]
  /\ m_recurring \in [Timers -> BOOLEAN] /\ m_cb \in [Timers -> BOOLEAN]
  /\ m_tickled \in BOOLEAN /\ m_previouseTime \in Nat
  /\ life \in [Timers -> {"none", "made", "known"}]
  /\ front \in Nat
  /\ now \in [Threads -> Nat \cup {-1}] /\ cbs \in [Threads -> SUBSET Timers]
  /\ since \in [Timers -> Nat] /\ shots \in [Timers -> Nat]
  /\ cancelled \in SUBSET Timers

\* The set is in order and complete: a timer is in it, at the place its m_next
\* says, exactly while it has a callback.  cancel() erases what find() returns
\* without a look at it, and so relies on this.
Registered ==
  /\ \A e \in m_timers : e.at = m_next[e.timer]
  /\ \A tm \in Timers : Found(tm) <=> m_cb[tm] /\ life[tm] = "known"

\* A one-shot timer expires at most once, and never both expires and has
\* cancel() return true, whatever the order of cancel(), refresh(), reset() and
\* listExpiredCb().
FireOrCancel ==
  \A tm \in Timers : shots[tm] + (IF tm \in cancelled THEN 1 ELSE 0) <=
                       (IF m_cb[tm] THEN 0 ELSE 1)

\* While nobody sets the clock back, no timer expires before its interval is
\* over, counted from the last addTimer(), refresh() or reset(), although
\* listExpiredCb() goes by a time it read before it took the lock.
NeverEarly ==
  [][backs = 0 => \A t \in Threads : \A tm \in cbs'[t] \ cbs[t] :
        clock >= since[tm] + m_ms[tm]]_vars
=============================================================================
