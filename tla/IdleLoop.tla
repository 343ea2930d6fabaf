------------------------------- MODULE IdleLoop -------------------------------
(***************************************************************************)
(* The threads of an IOManager between run() and IOManager::idle(): the    *)
(* list of tasks, the pipe that tickle() writes, epoll_wait() with the     *)
(* timeout of the next timer, and the timers that expire.  Events of       *)
(* descriptors are in IOEvents; what a task is and how run() switches to   *)
(* it is in Scheduler.                                                     *)
(***************************************************************************)
EXTENDS Timer, Sequences

CONSTANTS
  Tasks,        \* the callbacks that clients schedule, each of them once
  Pins,         \* the "thread" arguments clients pass to schedule()
  AnyThread,    \* thread -1: any thread
  Outside,      \* the clients outside the pool
  MaxTimeout,   \* MAX_TIMEOUT
  IntRange      \* 2^32: a conversion to int is modulo this

ASSUME IdleAssumption ==
  /\ AnyThread \notin Threads /\ Outside \notin Threads
  /\ Pins \subseteq Threads \cup {AnyThread}
  /\ MaxTimeout \in Nat \ {0}
  /\ IntRange \in Nat \ {0} /\ MaxTimeout < IntRange \div 2

VARIABLES
  m_fibers,   \* the task list
  fresh,      \* tasks nobody has scheduled
  pc,         \* where each thread is in run() and idle()
  tick,       \* tickle() calls an actor is about to make
  ready,      \* the pipe has been written since epoll_wait() last reported it
  reported,   \* the threads that epoll_wait() reported the pipe to
  deadline    \* when the epoll_wait() of a thread times out, 0 outside of it

poolVars == <<m_fibers, fresh, pc, tick, ready, reported, deadline>>
allVars == <<vars, poolVars>>

Forever == -1
Never == -1   \* ~0ull

IdleInit ==
  /\ Init
  /\ m_fibers = <<>>
  /\ fresh = Tasks
  /\ pc = [t \in Threads |-> "scan"]
  /\ tick = [a \in Threads \cup {Outside} |-> 0]
  /\ ready = FALSE /\ reported = {}
  /\ deadline = [t \in Threads |-> 0]

At(t, label) == pc[t] = label /\ tick[t] = 0
Goto(t, label) == pc' = [pc EXCEPT ![t] = label]

\* The threads that m_idleThreadCount counts.
Idlers == {t \in Threads : pc[t] \in {"idle", "asleep", "awake", "expire", "cbs"}}

\* tickle(): a byte for the pipe, unless no thread is idle.
tickle == ready' = (ready \/ Idlers # {})

Tickle(a) ==
  /\ tick[a] > 0
  /\ tick' = [tick EXCEPT ![a] = @ - 1]
  /\ tickle
  /\ UNCHANGED <<vars, m_fibers, fresh, pc, reported, deadline>>

\* onTimerInsertedAtFront() is tickle().
TickleFront ==
  InsertedAtFront /\ tickle /\ UNCHANGED <<m_fibers, fresh, pc, tick, reported, deadline>>

\* schedule() by actor a.
Schedule(a, tasks) ==
  /\ m_fibers' = m_fibers \o tasks
  /\ tick' = IF m_fibers = <<>> THEN [tick EXCEPT ![a] = @ + 1] ELSE tick

ScheduleTask(a) ==
  /\ a \in {Outside} \cup {t \in Threads : pc[t] = "busy"}
  /\ tick[a] = 0
  /\ \E task \in fresh, th \in Pins :
       /\ Schedule(a, <<[what |-> task, thread |-> th]>>)
       /\ fresh' = fresh \ {task}
  /\ UNCHANGED <<vars, pc, ready, reported, deadline>>

-----------------------------------------------------------------------------
(* run() *)

MineUnpinned(t, task) == task.thread = AnyThread

Mine(t, task) == task.thread \in {AnyThread, t}
Erase(q, i) == [k \in 1..(Len(q) - 1) |-> IF k < i THEN q[k] ELSE q[k + 1]]

\* The scan takes the first task for this thread, and owes a tickle() when it
\* left any.
Take(t) ==
  /\ At(t, "scan")
  /\ \E i \in DOMAIN m_fibers :
       /\ Mine(t, m_fibers[i]) /\ \A k \in 1..(i - 1) : ~Mine(t, m_fibers[k])
       /\ m_fibers' = Erase(m_fibers, i)
       /\ tick' = [tick EXCEPT ![t] = IF Len(m_fibers) > 1 THEN 1 ELSE 0]
  /\ Goto(t, "busy")
  /\ UNCHANGED <<vars, fresh, ready, reported, deadline>>

FindNothing(t) ==
  /\ At(t, "scan")
  /\ \A i \in DOMAIN m_fibers : ~Mine(t, m_fibers[i])
  /\ tick' = [tick EXCEPT ![t] = IF m_fibers # <<>> THEN 1 ELSE 0]
  /\ Goto(t, "none")
  /\ UNCHANGED <<vars, m_fibers, fresh, ready, reported, deadline>>

\* The task switches back.
Finish(t) ==
  At(t, "busy") /\ Goto(t, "scan") /\ UNCHANGED <<vars, m_fibers, fresh, tick, ready, reported, deadline>>

\* ++m_idleThreadCount and the switch to idle().
EnterIdle(t) ==
  At(t, "none") /\ Goto(t, "idle") /\ UNCHANGED <<vars, m_fibers, fresh, tick, ready, reported, deadline>>

-----------------------------------------------------------------------------
(* idle() *)

\* (int)x
ToInt(x) == ((x + IntRange \div 2) % IntRange) - IntRange \div 2

\* getNextTimer(): the time to the first timer, ~0ull when there is none.
NextTimer ==
  IF m_timers = {} THEN Never
  ELSE LET e == CHOOSE e \in m_timers : First(e, m_timers)
       IN  IF clock >= e.at THEN 0 ELSE e.at - clock

TimeoutUncapped(next) ==
  LET ms == IF next = Never THEN MaxTimeout ELSE ToInt(next)
  IN  IF ms < 0 THEN Forever ELSE ms

\* The timeout that idle() passes to epoll_wait(); a negative one waits for
\* ever.
Timeout(next) ==
  LET ms == IF next = Never THEN MaxTimeout
            ELSE ToInt(IF ToInt(next) > MaxTimeout THEN MaxTimeout ELSE next)
  IN  IF ms < 0 THEN Forever ELSE ms

\* stopping(timeout), false while the pool runs: getNextTimer() also clears
\* m_tickled.  Then epoll_wait() is called.
GetNext(t) ==
  /\ At(t, "idle")
  /\ m_tickled' = FALSE
  /\ LET ms == Timeout(NextTimer)
     IN  deadline' = [deadline EXCEPT ![t] = IF ms = Forever THEN Forever ELSE clock + ms]
  /\ Goto(t, "asleep")
  /\ UNCHANGED <<timerVars, clockVars, m_previouseTime, front, now, cbs, m_fibers, fresh,
                 tick, ready, reported>>

\* epoll_wait() reports the pipe, to one thread, or times out.  The clock of
\* the model stops at MaxTime; every timeout is over then.
Wake(t) ==
  /\ At(t, "asleep")
  /\ \/ ready /\ ready' = FALSE /\ reported' = reported \cup {t}
     \/ /\ deadline[t] # Forever /\ (clock >= deadline[t] \/ clock = MaxTime)
        /\ UNCHANGED <<ready, reported>>
  /\ deadline' = [deadline EXCEPT ![t] = 0]
  /\ Goto(t, "awake")
  /\ UNCHANGED <<vars, m_fibers, fresh, tick>>

\* listExpiredCb(), and schedule() of what it collected.
Expire(t) ==
  \/ /\ At(t, "awake") /\ ReadNow(t) /\ Goto(t, "expire")
     /\ UNCHANGED <<m_fibers, fresh, tick, ready, reported, deadline>>
  \/ /\ At(t, "expire") /\ (Collect(t) \/ CollectNone(t)) /\ Goto(t, "cbs")
     /\ UNCHANGED <<m_fibers, fresh, tick, ready, reported, deadline>>
  \/ /\ At(t, "cbs") /\ TakeCbs(t)
     /\ \E tasks \in [1..Cardinality(cbs[t]) -> cbs[t]] :
          /\ \A tm \in cbs[t] : \E k \in DOMAIN tasks : tasks[k] = tm
          /\ Schedule(t, [k \in DOMAIN tasks |-> [what |-> tasks[k], thread |-> AnyThread]])
     /\ UNCHANGED <<fresh, pc, ready, reported, deadline>>

\* The pipe is read until it is empty, which takes back a byte that came after
\* the report; then the switch back to run() and --m_idleThreadCount.
SwitchBack(t) ==
  /\ At(t, "cbs") /\ cbs[t] = {}
  /\ ready' = (ready /\ t \notin reported)
  /\ reported' = reported \ {t}
  /\ Goto(t, "scan")
  /\ UNCHANGED <<vars, m_fibers, fresh, tick, deadline>>

-----------------------------------------------------------------------------
Thread(t) == \/ Take(t) \/ FindNothing(t) \/ Finish(t) \/ EnterIdle(t) \/ GetNext(t)
             \/ Wake(t) \/ Expire(t) \/ SwitchBack(t)

IdleNext ==
  \/ \E t \in Threads : Thread(t)
  \/ \E a \in Threads \cup {Outside} : Tickle(a) \/ ScheduleTask(a)
  \/ TickleFront
  \/ (Client \/ Advance) /\ UNCHANGED poolVars

IdleSpec == IdleInit /\ [][IdleNext]_allVars

\* Threads run, tasks end, and time passes.  Nothing is asked of clients, not
\* even that they make the tickle() calls they owe.
IdleFairSpec ==
  /\ IdleSpec
  /\ \A t \in Threads : WF_allVars(Thread(t) \/ Tickle(t))
  /\ WF_allVars(Advance /\ UNCHANGED poolVars)

-----------------------------------------------------------------------------
\* No thread sleeps past a timer without a wake-up on its way: an idle thread
\* that is not asleep, a sleeper that will be in time, a byte in the pipe, or a
\* tickle() about to be made.  "A thread in epoll_wait() may wake in 10s, but
\* this one is due in 3s: it cannot wait" (timer.cc:232).
NoOversleep ==
  \A e \in m_timers :
    \/ \A t \in Threads : pc[t] # "asleep"
    \/ ready \/ front > 0 \/ \E a \in Threads \cup {Outside} : tick[a] > 0
    \/ \E t \in Idlers : pc[t] = "asleep" =>
         deadline[t] # Forever /\ (deadline[t] <= e.at \/ deadline[t] <= clock)
    \/ \E t \in Threads : pc[t] \in {"scan", "none"}

\* "When a new task is added, the tickle method writes the pipeline, the idle
\* coroutine detects that the pipeline is readable and exits, and the scheduler
\* executes the scheduling" (README.md:57): no task waits in the list while the
\* threads that could run it sleep and no wake-up is on its way.
NoTaskForgotten ==
  \A i \in DOMAIN m_fibers :
    LET able == {t \in Threads : Mine(t, m_fibers[i])}
    IN  \/ ready \/ front > 0 \/ \E a \in Threads \cup {Outside} : tick[a] > 0
        \/ \E t \in able : pc[t] # "asleep"

\* MAX_TIMEOUT is the longest epoll_wait() (iomanager.cc:377), as long as the time
\* to the next timer fits an int.
SleepBounded ==
  \A t \in Threads : pc[t] = "asleep" => deadline[t] # Forever /\ deadline[t] <= clock + MaxTimeout

\* Whatever wake-ups are lost, a task that is scheduled is taken: there is no
\* moment from which on it stays in the list.
TasksTaken == \A task \in Tasks : []<>(\A i \in DOMAIN m_fibers : m_fibers[i].what # task)

\* A timer that is due within the time of the model expires, is cancelled or
\* is moved.
TimersExpire == \A tm \in Timers : []<>~(Found(tm) /\ m_next[tm] <= MaxTime)
=============================================================================
