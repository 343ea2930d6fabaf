------------------------------ MODULE Scheduler ------------------------------
(***************************************************************************)
(* The coroutine scheduler: the task list m_fibers, the threads that       *)
(* execute Scheduler::run, the Fiber objects they switch to, and start()   *)
(* and stop().  Threads interleave at the critical sections of m_mutex and *)
(* at every context switch.  What a task does while it runs is left to the *)
(* task: it may schedule work, park itself with an outside waker, yield,   *)
(* move to another thread, return or throw, in any order.                  *)
(*                                                                         *)
(* tickle() and idle() are virtual: this module has the ones of the base   *)
(* class, IdleLoop the ones of IOManager.                               *)
(***************************************************************************)
EXTENDS Integers, FiniteSets, Sequences

CONSTANTS
  Threads,      \* the threads that execute run()
  Root,         \* the thread of the constructor when use_caller, or None
  Jobs,         \* the callbacks that clients schedule, each of them once
  Fibers,       \* the Fiber objects that can be allocated
  Pins,         \* the "thread" arguments clients pass to schedule()
  Parkers,      \* the callbacks that park themselves with an outside waker
  AnyThread,    \* thread -1: any thread
  None,         \* the null pointer
  Main,         \* the thread outside run() that starts and stops the pool
  Waker,        \* a thread outside the pool that schedules parked tasks
  Duplicates    \* TRUE when a client may schedule a fiber that is scheduled

Workers == Threads \ {Root}

ASSUME SchedulerAssumption ==
  /\ IsFiniteSet(Threads) /\ Threads # {}
  /\ Pins \subseteq Threads \cup {AnyThread}
  /\ Parkers \subseteq Jobs
  /\ Root \in Threads \cup {None}
  /\ AnyThread \notin Threads
  /\ None \notin Threads \cup Jobs \cup Fibers
  /\ {Main, Waker} \cap Threads = {}
  /\ Duplicates \in BOOLEAN

VARIABLES
  m_fibers,             \* the task list
  m_activeThreadCount,  \* threads that took a task and did not give it back
  m_idleThreadCount,    \* threads inside their idle fiber
  m_autoStop, m_stopping,
  m_state,              \* state of every Fiber object, "FREE" if unallocated
  m_cb,                 \* callback every Fiber object executes
  pc,                   \* where each thread is in run()
  ft,                   \* run()'s local ft
  cb_fiber,             \* run()'s local cb_fiber
  idle_fiber,           \* state of run()'s idle fiber
  armed,                \* fibers an outside waker is going to schedule
  tick,                 \* tickle() calls each actor is about to make
  mpc,                  \* where main() is in start() and stop()
  fresh, done           \* callbacks not yet scheduled, callbacks that ended

taskVars == <<m_fibers, m_state, m_cb, ft, cb_fiber, armed, fresh, done>>
countVars == <<m_activeThreadCount, m_idleThreadCount>>
stopVars == <<m_autoStop, m_stopping, mpc>>
vars == <<taskVars, countVars, stopVars, pc, idle_fiber, tick>>

FiberAndThread == [fiber : Fibers \cup {None}, cb : Jobs \cup {None},
                   thread : Threads \cup {AnyThread}]
NoTask == [fiber |-> None, cb |-> None, thread |-> AnyThread]
FiberTask(f, th) == [fiber |-> f, cb |-> None, thread |-> th]
CbTask(j, th) == [fiber |-> None, cb |-> j, thread |-> th]

Ended == {"TERM", "EXCEPT"}

\* The fiber that thread t switched to: ft.fiber, or cb_fiber for a callback.
Current(t) == IF ft[t].fiber # None THEN ft[t].fiber ELSE cb_fiber[t]

\* f is in the task list, or somebody outside is going to put it there.
Queued(f) == \E i \in DOMAIN m_fibers : m_fibers[i].fiber = f
Wanted(f) == f \in armed \/ Queued(f)

\* The states once thread t has dropped its pointer to the ended fiber f: the
\* last pointer frees it.
Dropped(t, f) ==
  LET referenced == \/ Wanted(f)
                    \/ \E u \in Threads : cb_fiber[u] = f \/ (u # t /\ ft[u].fiber = f)
  IN  IF referenced THEN m_state ELSE [m_state EXCEPT ![f] = "FREE"]

\* schedule() by actor a: push under the lock, tickle() after it when the
\* list was empty.
Schedule(a, task) ==
  /\ m_fibers' = Append(m_fibers, task)
  /\ tick' = IF m_fibers = <<>> THEN [tick EXCEPT ![a] = @ + 1] ELSE tick

Init ==
  /\ m_fibers = <<>>
  /\ m_activeThreadCount = 0
  /\ m_idleThreadCount = 0
  /\ m_autoStop = FALSE
  /\ m_stopping = TRUE
  /\ m_state = [f \in Fibers |-> "FREE"]
  /\ m_cb = [f \in Fibers |-> None]
  /\ pc = [t \in Threads |-> "off"]
  /\ ft = [t \in Threads |-> NoTask]
  /\ cb_fiber = [t \in Threads |-> None]
  /\ idle_fiber = [t \in Threads |-> "INIT"]
  /\ armed = {}
  /\ tick = [a \in Threads \cup {Main, Waker} |-> 0]
  /\ mpc = "new"
  /\ fresh = Jobs
  /\ done = {}

-----------------------------------------------------------------------------
(* run(): one iteration is Scan, then one of the five branches. *)

At(t, label) == pc[t] = label /\ tick[t] = 0
Goto(t, label) == pc' = [pc EXCEPT ![t] = label]

MinePinned(t, task) == task.thread = t

Mine(t, task) == task.thread \in {AnyThread, t}
Executing(task) == task.fiber # None /\ m_state[task.fiber] = "EXEC"
TakeableExecuting(t, i) == Mine(t, m_fibers[i])
Takeable(t, i) == Mine(t, m_fibers[i]) /\ ~Executing(m_fibers[i])

\* m_fibers.erase(it)
Erase(q, i) == [k \in 1..(Len(q) - 1) |-> IF k < i THEN q[k] ELSE q[k + 1]]

\* The scan under m_mutex reaches its first takeable entry and erases it.
Take(t) ==
  /\ At(t, "scan")
  /\ \E i \in DOMAIN m_fibers :
       /\ Takeable(t, i)
       /\ \A k \in 1..(i - 1) : ~Takeable(t, k)
       /\ ft' = [ft EXCEPT ![t] = m_fibers[i]]
       /\ m_fibers' = Erase(m_fibers, i)
       /\ tick' = [tick EXCEPT ![t] =
                     IF i < Len(m_fibers) \/ \E k \in 1..(i - 1) : ~Mine(t, m_fibers[k])
                     THEN 1 ELSE 0]
  /\ m_activeThreadCount' = m_activeThreadCount + 1
  /\ Goto(t, "dispatch")
  /\ UNCHANGED <<m_state, m_cb, cb_fiber, armed, fresh, done, m_idleThreadCount,
                 stopVars, idle_fiber>>

\* The scan reaches the end of the list.
FindNothing(t) ==
  /\ At(t, "scan")
  /\ \A i \in DOMAIN m_fibers : ~Takeable(t, i)
  /\ ft' = [ft EXCEPT ![t] = NoTask]
  /\ tick' = [tick EXCEPT ![t] =
                IF \E i \in DOMAIN m_fibers : ~Mine(t, m_fibers[i]) THEN 1 ELSE 0]
  /\ Goto(t, "dispatch")
  /\ UNCHANGED <<m_fibers, m_state, m_cb, cb_fiber, armed, fresh, done, countVars,
                 stopVars, idle_fiber>>

\* swapIn() of the fiber that was taken.
RunFiber(t) ==
  /\ At(t, "dispatch")
  /\ ft[t].fiber # None
  /\ m_state[ft[t].fiber] \notin Ended
  /\ m_state' = [m_state EXCEPT ![ft[t].fiber] = "EXEC"]
  /\ Goto(t, "exec")
  /\ UNCHANGED <<m_fibers, m_cb, ft, cb_fiber, armed, fresh, done, countVars,
                 stopVars, idle_fiber, tick>>

\* A callback was taken: it runs on the thread's cb_fiber, reset to it, or on
\* a new Fiber when the thread keeps none.
RunCb(t) ==
  /\ At(t, "dispatch")
  /\ ft[t].cb # None
  /\ \E f \in Fibers :
       /\ IF cb_fiber[t] # None THEN f = cb_fiber[t] ELSE m_state[f] = "FREE"
       /\ cb_fiber' = [cb_fiber EXCEPT ![t] = f]
       /\ m_state' = [m_state EXCEPT ![f] = "EXEC"]
       /\ m_cb' = [m_cb EXCEPT ![f] = ft[t].cb]
  /\ ft' = [ft EXCEPT ![t] = NoTask]
  /\ Goto(t, "exec")
  /\ UNCHANGED <<m_fibers, armed, fresh, done, countVars, stopVars, idle_fiber, tick>>

\* The fiber that was taken has ended meanwhile: nothing to run.
Discard(t) ==
  /\ At(t, "dispatch")
  /\ ft[t].fiber # None
  /\ m_state[ft[t].fiber] \in Ended
  /\ m_activeThreadCount' = m_activeThreadCount - 1
  /\ m_state' = Dropped(t, ft[t].fiber)
  /\ ft' = [ft EXCEPT ![t] = NoTask]
  /\ Goto(t, "scan")
  /\ UNCHANGED <<m_fibers, m_cb, cb_fiber, armed, fresh, done, m_idleThreadCount,
                 stopVars, idle_fiber, tick>>

EnterIdleUncounted(t) ==
  /\ At(t, "dispatch") /\ ft[t] = NoTask /\ idle_fiber[t] # "TERM"
  /\ idle_fiber' = [idle_fiber EXCEPT ![t] = "EXEC"]
  /\ Goto(t, "idle")
  /\ UNCHANGED <<taskVars, countVars, stopVars, tick>>

\* Nothing was taken: swapIn() of the idle fiber.
EnterIdle(t) ==
  /\ At(t, "dispatch")
  /\ ft[t] = NoTask
  /\ idle_fiber[t] # "TERM"
  /\ m_idleThreadCount' = m_idleThreadCount + 1
  /\ idle_fiber' = [idle_fiber EXCEPT ![t] = "EXEC"]
  /\ Goto(t, "idle")
  /\ UNCHANGED <<taskVars, m_activeThreadCount, stopVars, tick>>

\* Nothing was taken and idle() has returned: run() returns, and its cb_fiber
\* is destroyed.
Exit(t) ==
  /\ At(t, "dispatch")
  /\ ft[t] = NoTask
  /\ idle_fiber[t] = "TERM"
  /\ cb_fiber' = [cb_fiber EXCEPT ![t] = None]
  /\ m_state' = [f \in Fibers |-> IF f = cb_fiber[t] THEN "FREE" ELSE m_state[f]]
  /\ Goto(t, "exited")
  /\ UNCHANGED <<m_fibers, m_cb, ft, armed, fresh, done, countVars, stopVars,
                 idle_fiber, tick>>

-----------------------------------------------------------------------------
(* The task on thread t, between swapIn() and the switch back. *)

\* The task calls schedule() with a new callback.
JobSchedule(t) ==
  /\ At(t, "exec")
  /\ m_cb[Current(t)] # None
  /\ \E j \in fresh, th \in Pins :
       /\ Schedule(t, CbTask(j, th))
       /\ fresh' = fresh \ {j}
  /\ UNCHANGED <<m_state, m_cb, ft, cb_fiber, armed, done, countVars, stopVars,
                 pc, idle_fiber>>

\* The task hands itself to a waker outside the pool, which may be faster than
\* the task's own switch.
JobPark(t) ==
  /\ At(t, "exec")
  /\ m_cb[Current(t)] \in Parkers
  /\ ~Wanted(Current(t))
  /\ armed' = armed \cup {Current(t)}
  /\ UNCHANGED <<m_fibers, m_state, m_cb, ft, cb_fiber, fresh, done, countVars,
                 stopVars, pc, idle_fiber, tick>>

\* switchTo(th): schedule() the running fiber for the other thread; the
\* YieldToHold() that follows is the next step of t.
JobSwitchTo(t) ==
  /\ At(t, "exec")
  /\ m_cb[Current(t)] # None
  /\ ~Wanted(Current(t))
  /\ \E th \in Pins \ {AnyThread, t} : Schedule(t, FiberTask(Current(t), th))
  /\ Goto(t, "switch")
  /\ UNCHANGED <<m_state, m_cb, ft, cb_fiber, armed, fresh, done, countVars,
                 stopVars, idle_fiber>>

\* A task that is going to be woken switches back; its state stays EXEC until
\* run() changes it.
YieldToHold(t) ==
  /\ At(t, "exec") \/ At(t, "switch")
  /\ m_cb[Current(t)] # None /\ Wanted(Current(t))
  /\ Goto(t, "back")
  /\ UNCHANGED <<taskVars, countVars, stopVars, idle_fiber, tick>>

YieldToReady(t) ==
  /\ At(t, "exec")
  /\ m_cb[Current(t)] # None
  /\ ~Wanted(Current(t)) \/ Duplicates
  /\ m_state' = [m_state EXCEPT ![Current(t)] = "READY"]
  /\ Goto(t, "back")
  /\ UNCHANGED <<m_fibers, m_cb, ft, cb_fiber, armed, fresh, done, countVars,
                 stopVars, idle_fiber, tick>>

\* MainFunc: the callback returned.
MainFuncReturn(t) ==
  /\ At(t, "exec")
  /\ m_cb[Current(t)] # None
  /\ ~Wanted(Current(t)) \/ Duplicates
  /\ m_state' = [m_state EXCEPT ![Current(t)] = "TERM"]
  /\ m_cb' = [m_cb EXCEPT ![Current(t)] = None]
  /\ done' = done \cup {m_cb[Current(t)]}
  /\ Goto(t, "back")
  /\ UNCHANGED <<m_fibers, ft, cb_fiber, armed, fresh, countVars, stopVars,
                 idle_fiber, tick>>

\* MainFunc: the callback threw, or was null.
MainFuncThrow(t) ==
  /\ At(t, "exec")
  /\ ~Wanted(Current(t)) \/ Duplicates
  /\ m_state' = [m_state EXCEPT ![Current(t)] = "EXCEPT"]
  /\ done' = done \cup ({m_cb[Current(t)]} \ {None})
  /\ Goto(t, "back")
  /\ UNCHANGED <<m_fibers, m_cb, ft, cb_fiber, armed, fresh, countVars, stopVars,
                 idle_fiber, tick>>

-----------------------------------------------------------------------------
(* run() after the switch back. *)

BackCountsCallbacks(t) ==
  /\ At(t, "back")
  /\ m_activeThreadCount' = IF ft[t].fiber = None THEN m_activeThreadCount - 1
                           ELSE m_activeThreadCount
  /\ Goto(t, "post")
  /\ UNCHANGED <<taskVars, m_idleThreadCount, stopVars, idle_fiber, tick>>

Back(t) ==
  /\ At(t, "back")
  /\ m_activeThreadCount' = m_activeThreadCount - 1
  /\ Goto(t, "post")
  /\ UNCHANGED <<taskVars, m_idleThreadCount, stopVars, idle_fiber, tick>>

DropCurrentKeeps(t) == ft' = [ft EXCEPT ![t] = NoTask] /\ UNCHANGED cb_fiber

\* The pointer run() held to the fiber it ran is dropped, except a cb_fiber
\* that ended, which is kept.
DropCurrent(t) ==
  /\ ft' = [ft EXCEPT ![t] = NoTask]
  /\ cb_fiber' = IF ft[t].fiber # None THEN cb_fiber ELSE [cb_fiber EXCEPT ![t] = None]

RescheduleForgets(t) ==
  /\ At(t, "post")
  /\ m_state[Current(t)] = "READY"
  /\ DropCurrent(t)
  /\ Goto(t, "scan")
  /\ UNCHANGED <<m_fibers, tick, m_state, m_cb, armed, fresh, done, countVars, stopVars,
                 idle_fiber>>

\* READY: schedule() it again, for any thread.
Reschedule(t) ==
  /\ At(t, "post")
  /\ m_state[Current(t)] = "READY"
  /\ Schedule(t, FiberTask(Current(t), AnyThread))
  /\ DropCurrent(t)
  /\ Goto(t, "scan")
  /\ UNCHANGED <<m_state, m_cb, armed, fresh, done, countVars, stopVars, idle_fiber>>

\* The task ended: a fiber is released, a cb_fiber reset and kept.
Finish(t) ==
  /\ At(t, "post")
  /\ m_state[Current(t)] \in Ended
  /\ IF ft[t].fiber # None
     THEN m_state' = Dropped(t, Current(t)) /\ UNCHANGED m_cb
     ELSE /\ m_state' = [m_state EXCEPT ![cb_fiber[t]] = "INIT"]
          /\ m_cb' = [m_cb EXCEPT ![cb_fiber[t]] = None]
  /\ ft' = [ft EXCEPT ![t] = NoTask]
  /\ Goto(t, "scan")
  /\ UNCHANGED <<m_fibers, cb_fiber, armed, fresh, done, countVars, stopVars,
                 idle_fiber, tick>>

\* Anything else is held: from here on other threads may take the fiber.
Hold(t) ==
  /\ At(t, "post")
  /\ m_state[Current(t)] \notin Ended \cup {"READY"}
  /\ m_state' = [m_state EXCEPT ![Current(t)] = "HOLD"]
  /\ DropCurrent(t)
  /\ Goto(t, "scan")
  /\ UNCHANGED <<m_fibers, m_cb, armed, fresh, done, countVars, stopVars,
                 idle_fiber, tick>>

-----------------------------------------------------------------------------
(* The code outside the pool. *)

\* main() schedules a callback, or a Fiber it made for one.
ClientSchedule ==
  /\ mpc \in {"new", "running"} /\ tick[Main] = 0
  /\ \E j \in fresh, th \in Pins :
       /\ fresh' = fresh \ {j}
       /\ \/ Schedule(Main, CbTask(j, th)) /\ UNCHANGED <<m_state, m_cb>>
          \/ \E f \in Fibers :
               /\ m_state[f] = "FREE"
               /\ m_state' = [m_state EXCEPT ![f] = "INIT"]
               /\ m_cb' = [m_cb EXCEPT ![f] = j]
               /\ Schedule(Main, FiberTask(f, th))
  /\ UNCHANGED <<ft, cb_fiber, armed, done, countVars, stopVars, pc, idle_fiber>>

\* The waker of a parked fiber schedules it.
Wake ==
  /\ tick[Waker] = 0
  /\ \E f \in armed : Schedule(Waker, FiberTask(f, AnyThread)) /\ armed' = armed \ {f}
  /\ UNCHANGED <<m_state, m_cb, ft, cb_fiber, fresh, done, countVars, stopVars,
                 pc, idle_fiber>>

\* A client schedules a fiber that is in the list already.
ScheduleAgain ==
  /\ Duplicates /\ tick[Waker] = 0
  /\ \E i \in DOMAIN m_fibers :
       /\ m_fibers[i].fiber # None
       /\ \A k \in DOMAIN m_fibers \ {i} : m_fibers[k].fiber # m_fibers[i].fiber
       /\ Schedule(Waker, m_fibers[i])
  /\ UNCHANGED <<m_state, m_cb, ft, cb_fiber, armed, fresh, done, countVars,
                 stopVars, pc, idle_fiber>>

\* start(): the workers enter run().
Start ==
  /\ mpc = "new" /\ tick[Main] = 0
  /\ m_stopping' = FALSE
  /\ mpc' = "running"
  /\ pc' = [t \in Threads |-> IF t \in Workers THEN "scan" ELSE pc[t]]
  /\ UNCHANGED <<taskVars, countVars, m_autoStop, idle_fiber, tick>>

\* stop(), up to its first look at the pool.
StopAuto ==
  /\ mpc = "running" /\ tick[Main] = 0
  /\ m_autoStop' = TRUE
  /\ mpc' = "stop"
  /\ UNCHANGED <<taskVars, countVars, m_stopping, pc, idle_fiber, tick>>

\* A pool of the calling thread alone returns here when stopping() is true,
\* evaluated with m_stopping set.
StopAlone(isStopping) ==
  /\ mpc = "stop"
  /\ IF Workers = {} /\ pc[Root] \in {"off", "exited"}
     THEN m_stopping' = TRUE /\ mpc' = IF isStopping THEN "stopped" ELSE "flag"
     ELSE UNCHANGED m_stopping /\ mpc' = "flag"
  /\ UNCHANGED <<taskVars, countVars, m_autoStop, pc, idle_fiber, tick>>

\* m_stopping is set and every thread tickled once.
StopFlag ==
  /\ mpc = "flag"
  /\ m_stopping' = TRUE
  /\ tick' = [tick EXCEPT ![Main] = Cardinality(Threads)]
  /\ mpc' = "call"
  /\ UNCHANGED <<taskVars, countVars, m_autoStop, pc, idle_fiber>>

\* With use_caller the calling thread joins the pool until it is drained,
\* unless stopping() says it is.
StopCall(isStopping) ==
  /\ mpc = "call" /\ tick[Main] = 0
  /\ IF Root \in Threads /\ ~isStopping
     THEN Goto(Root, "scan") /\ mpc' = "called"
     ELSE UNCHANGED pc /\ mpc' = "join"
  /\ UNCHANGED <<taskVars, countVars, m_autoStop, m_stopping, idle_fiber, tick>>

StopCalled ==
  /\ mpc = "called" /\ pc[Root] = "exited"
  /\ mpc' = "join"
  /\ UNCHANGED <<taskVars, countVars, m_autoStop, m_stopping, pc, idle_fiber, tick>>

StopJoinUnjoined ==
  /\ mpc = "join"
  /\ mpc' = "stopped"
  /\ UNCHANGED <<taskVars, countVars, m_autoStop, m_stopping, pc, idle_fiber, tick>>

StopJoin ==
  /\ mpc = "join"
  /\ \A t \in Workers : pc[t] = "exited"
  /\ mpc' = "stopped"
  /\ UNCHANGED <<taskVars, countVars, m_autoStop, m_stopping, pc, idle_fiber, tick>>

Stopped == mpc = "stopped" /\ UNCHANGED vars

-----------------------------------------------------------------------------
(* The base class's virtual functions. *)

stopping(autoStop, stop) ==
  autoStop /\ stop /\ m_fibers = <<>> /\ m_activeThreadCount = 0

\* tickle() only logs.
Tickle(a) ==
  /\ tick[a] > 0
  /\ tick' = [tick EXCEPT ![a] = @ - 1]
  /\ UNCHANGED <<taskVars, countVars, stopVars, pc, idle_fiber>>

\* One turn of idle(): it returns when stopping(), else yields to run(), which
\* sets the idle fiber to HOLD.
Idle(t) ==
  /\ At(t, "idle")
  /\ idle_fiber' = [idle_fiber EXCEPT ![t] =
                      IF stopping(m_autoStop, m_stopping) THEN "TERM" ELSE "HOLD"]
  /\ m_idleThreadCount' = m_idleThreadCount - 1
  /\ Goto(t, "scan")
  /\ UNCHANGED <<taskVars, m_activeThreadCount, stopVars, tick>>

-----------------------------------------------------------------------------
Run(t) == \/ Take(t) \/ FindNothing(t) \/ RunFiber(t) \/ RunCb(t) \/ Discard(t)
          \/ EnterIdle(t) \/ Exit(t) \/ Back(t) \/ Reschedule(t) \/ Finish(t) \/ Hold(t)
Job(t) == \/ JobSchedule(t) \/ JobPark(t) \/ JobSwitchTo(t) \/ YieldToHold(t)
          \/ YieldToReady(t) \/ MainFuncReturn(t) \/ MainFuncThrow(t)
Stop == \/ StopAuto \/ StopFlag \/ StopCalled \/ StopJoin
        \/ StopAlone(stopping(m_autoStop, TRUE))
        \/ StopCall(stopping(m_autoStop, m_stopping))

Next == \/ \E t \in Threads : Run(t) \/ Job(t) \/ Idle(t)
        \/ \E a \in Threads \cup {Main, Waker} : Tickle(a)
        \/ ClientSchedule \/ Wake \/ ScheduleAgain \/ Start \/ Stop \/ Stopped

Spec == Init /\ [][Next]_vars

\* Threads keep running: every thread of the pool, main() and the wakers are
\* scheduled by the kernel.  A task that runs again and again ends some day.
Fairness ==
  /\ \A t \in Threads :
       /\ WF_vars(Run(t)) /\ WF_vars(Idle(t)) /\ WF_vars(YieldToHold(t))
       /\ WF_vars(Job(t))
       /\ SF_vars(MainFuncReturn(t))
  /\ \A a \in Threads \cup {Main, Waker} : WF_vars(Tickle(a))
  /\ WF_vars(Wake) /\ WF_vars(Start) /\ WF_vars(Stop)

FairSpec == Spec /\ Fairness

-----------------------------------------------------------------------------
TypeOK ==
  /\ m_fibers \in Seq(FiberAndThread)
  /\ m_activeThreadCount \in Nat
  /\ m_idleThreadCount \in Nat
  /\ m_autoStop \in BOOLEAN /\ m_stopping \in BOOLEAN
  /\ m_state \in [Fibers -> {"FREE", "INIT", "HOLD", "EXEC", "READY", "TERM", "EXCEPT"}]
  /\ m_cb \in [Fibers -> Jobs \cup {None}]
  /\ pc \in [Threads -> {"off", "scan", "dispatch", "exec", "switch", "back", "post",
                         "idle", "exited"}]
  /\ ft \in [Threads -> FiberAndThread]
  /\ cb_fiber \in [Threads -> Fibers \cup {None}]
  /\ idle_fiber \in [Threads -> {"INIT", "HOLD", "EXEC", "TERM"}]
  /\ armed \in SUBSET Fibers
  /\ tick \in [Threads \cup {Main, Waker} -> Nat]
  /\ mpc \in {"new", "running", "stop", "flag", "call", "called", "join", "stopped"}
  /\ fresh \in SUBSET Jobs /\ done \in SUBSET Jobs

\* Thread t has taken f out of the list and has not finished with it.
Has(t, f) == \/ ft[t].fiber = f
             \/ /\ cb_fiber[t] = f /\ ft[t].fiber = None
                /\ pc[t] \in {"exec", "switch", "back", "post"}

\* A Fiber is in the hands of one thread: run() never switches a second thread
\* onto a stack in use, although the state it tests under the lock (line 218) is
\* set outside of it, in swapIn(), and wakers are free to schedule a fiber
\* before it has switched back.
OneRunner ==
  \A t, u \in Threads, f \in Fibers : Has(t, f) /\ Has(u, f) => t = u

\* The assertions of Fiber on its state: swapIn() (coroutine.cc:138), reset()
\* (:97), YieldToReady() and YieldToHold() (:196, :204), and ~Fiber() (:76) of
\* the cb_fiber run() keeps.
AssertsHold ==
  \A t \in Threads :
    /\ pc[t] = "dispatch" /\ ft[t].fiber # None => m_state[ft[t].fiber] # "EXEC"
    /\ pc[t] \in {"exec", "switch"} => m_state[Current(t)] = "EXEC"
    /\ pc[t] \in {"scan", "dispatch", "idle"} /\ cb_fiber[t] # None =>
         m_state[cb_fiber[t]] \in {"INIT", "TERM", "EXCEPT"}

\* No wake-up is lost: a fiber that is not finished is held by a thread, is in
\* the list, or is with its waker.
NoLostFiber ==
  \A f \in Fibers :
    m_cb[f] # None /\ m_state[f] \in {"INIT", "HOLD", "READY", "EXEC"} =>
      Wanted(f) \/ \E t \in Threads : Has(t, f)

Busy ==
  {t \in Threads : \/ pc[t] \in {"exec", "switch", "back"}
                   \/ pc[t] = "dispatch" /\ ft[t] # NoTask}

\* m_activeThreadCount, which stopping() relies on, counts the threads that
\* hold a task, and m_idleThreadCount, which tickle() relies on, the threads in
\* their idle fiber: every path through run() gives back what it took.
Counters ==
  /\ m_activeThreadCount = Cardinality(Busy)
  /\ m_idleThreadCount = Cardinality({t \in Threads : pc[t] = "idle"})

\* When stop() returns, every callback that was scheduled has ended.
StopCompletes == mpc = "stopped" => done = Jobs \ fresh

\* stop() returns.
StopReturns == mpc = "stop" ~> mpc = "stopped"

\* Every callback that is scheduled ends.
JobsEnd == \A j \in Jobs : j \notin fresh ~> j \in done
=============================================================================
