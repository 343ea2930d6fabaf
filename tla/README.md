# TLA+ models of IOCoroutineScheduler

IOCoroutineScheduler is a C++ library of stackful coroutines: a pool of threads
executes fibers, an epoll loop turns blocking calls into switches, and servers
and clients for TCP and HTTP are built on top. This directory holds TLA+ modules
translated from the code, the TLC configurations that check them on small
instances, and proofs, checked by TLAPS, of what holds for instances of any size.

Paths below are relative to `src/IOCoroutineScheduler/`.

## Parts of the system

| Part | Source | What it does | Module |
|---|---|---|---|
| Scheduler | `scheduler.cc/.h` | task list, threads in `run()`, `start`, `stop`, `switchTo` | `Scheduler` |
| Fiber | `coroutine.cc/.h` | states of a coroutine and the switches between them | `Scheduler` |
| Timers | `timer.cc/.h` | ordered set of timers, cancel/refresh/reset, expiry, clock rollback | `Timer` |
| IOManager | `iomanager.cc/.h` | events of descriptors, epoll, tickle pipe, idle loop | `IOEvents`, `IdleLoop` |
| Hooks, FdManager | `hook.cc`, `fd_manager.cc` | blocking calls as event + timer + switch | `Hook` |
| TcpServer, Socket | `tcp_server.cc`, `socket.cc` | accept loops, start and stop | `TcpServer` |
| Parsers | `uri.rl.cc`, `http/http11_parser.rl.cc`, `http/httpclient_parser.rl.cc`, `http/http_parser.cc` | the machines Ragel generated, and what they call | `Uri…`, `Request…`, `Response…` `Machine`, `Grammar`, `Parser` |
| HTTP client | `http/http_connection.cc`, `http/http_session.cc`, `stream.cc` | messages and bodies out of short reads; pool of connections | `HttpBody`, `HttpPool` |
| ByteArray | `bytearray.cc` | chain of blocks with a cursor, varints, buffers of streams | `ByteArray` |

How they interact: a hooked call (`Hook`) is a client of the timers (`Timer`), of the
events (`IOEvents`) and of the task list (`Scheduler`); the threads of an IOManager
(`IdleLoop`) are `run()` of the scheduler with an idle fiber that collects timers and
reports. `TcpServer` runs on the hooked calls, the HTTP classes on sockets whose
`recv()` and `send()` are hooked.

Modules that start with `MC` give the constants their values for TLC; the `.cfg`
files name what is checked. The theorems are in eight modules:

| Proofs | About | Theorems |
|---|---|---|
| `SchedulerCore` | `Scheduler` | `OneRunnerHolds`, `AssertsHoldAlways`, `NoLostFiberHolds` |
| `SchedulerProofs` | `Scheduler` | `CountersExact`, `TypeCorrect` |
| `SchedulerPoolProofs` | `SchedulerPool`, `TaskPool` | `PoolImplemented`, `StopsComplete` |
| `IdleLoopProofs` | `Timer`, `IdleLoop` | `TimerRegistered`, `TimerFireOrCancel`, `TimerTypes`, `TimersNeverEarly`, `AloneNeverEarly`, `IdleImplementsTimer`, `IdleSleepBounded` |
| `IOEventsProofs` | `IOEvents` | `IOPendingExact`, `IOOneWaiter`, `IOWakeable`, `IOTypes` |
| `HookProofs` | `Hook`, `TcpServer` | `WakersExact`, `TimersGuard` |
| `ServerProofs` | `Hook`, `TcpServer` | `CtxFresh`, `ServerCtxFresh`, `ClientsOwned` |
| `HttpPoolProofs` | `HttpPool` | `ConnectionsOwned`, `ResponsesOwn` |

| Run | Module | Expected |
|---|---|---|
| `sched_pool`, `sched_alone`, `sched_live` | `MCScheduler` | pass |
| `sched_pinned` | `MCScheduler` | violation of `StopReturns` |
| `timer_ops` | `MCTimer` | pass |
| `idle_live` | `MCIdleLoop` | pass |
| `idle_oversleep` | `MCIdleLoop` | violation of `NoOversleep` |
| `io_shared` | `MCIOEvents` | pass |
| `io_both_ways`, `io_shrink` | `MCIOEvents` | violations of `NoAbort`, `CancelFinds` |
| `hook` | `MCHook` | pass |
| `http` | `MCHttp` | pass |

## Scheduler

`Scheduler.tla` models the pool. The threads interleave at the critical sections
of `m_mutex` and at the context switches; everything a thread does between two
such points is one action.

State. `m_fibers` is the task list, `m_state` and `m_cb` are the members of every
Fiber object (`"FREE"` when it is not allocated), `ft`, `cb_fiber` and
`idle_fiber` are the locals of `run()`, `pc` is where each thread is in it, `mpc`
where the main thread is in `start()` and `stop()`. `tick` counts the `tickle()`
calls an actor owes: they are made after the lock is released, so they are steps
of their own. `armed` are the fibers that somebody outside the pool has been
given and will schedule.

Actions of a thread in `run()`:

| `pc` | actions | `scheduler.cc` |
|---|---|---|
| scan | `Take`, `FindNothing`: the loop under the lock | 195-232 |
| dispatch | `RunFiber`, `RunCb`, `Discard`, `EnterIdle`, `Exit`: the branches | 236-289 |
| exec | `JobSchedule`, `JobPark`, `JobSwitchTo`, `YieldToHold`, `YieldToReady`, `MainFuncReturn`, `MainFuncThrow`: the task runs | `coroutine.cc` |
| back | `Back`: the counter is decremented | 240, 264 |
| post | `Reschedule`, `Finish`, `Hold`: by the state the fiber was left in | 241-273 |
| idle | `Idle`: one turn of `idle()` | 290-320 |

What a task does is free: any of the `exec` actions in any order. Two habits of
clients are assumed unless `Duplicates` is true: a task that was given to a waker
goes on to `YieldToHold()`, and nobody schedules a fiber that is scheduled
already. `Discard` and `ScheduleAgain` are reachable only with `Duplicates`.

`TaskPool.tla` is what the pool promises: each callback runs at most once from
beginning to end, in slices, on one thread at a time, and nothing runs after
`stop()` returned. `SchedulerPool.tla` states the refinement; the mapping reads the
running callback of a thread off its `pc` and the fiber it switched to.

### Runs

| Run | Instance | Shows |
|---|---|---|
| `sched_pool` | 2 workers | `TypeOK`, `OneRunner`, `AssertsHold`, `NoLostFiber`, `Counters`, `ImplementsTaskPool` |
| `sched_alone` | calling thread alone, duplicates allowed | `AssertsHold` |
| `sched_live` | worker and calling thread, fair | `StopCompletes` (all scheduled callbacks have ended when `stop()` returns), `StopReturns`, `JobsEnd` |
| `sched_pinned` | 2 workers, tasks pinned to one, fair | violated: `StopReturns` |

Two threads are enough for every race of the code, which all are between one
thread and one other (a waker, a worker, `stop()`); two or three callbacks and
fibers are enough for a thread to keep a `cb_fiber`, lose it, and meet it again in
the list. Fibers are reused, so a run never stops for want of them unless all are
suspended.

`sched_pinned`: `run()` decrements the counter of active threads before it puts a
READY fiber back (`scheduler.cc:240`, `:243`). In that window an idle thread sees
`stopping()` and leaves the pool. The fiber, run again on another thread, may
then ask for the thread that left; its entry stays in the list for ever.

`OneRunner` needs clients that do not schedule a fiber twice. With `Duplicates =
TRUE` and two workers TLC finds it violated: the state of a fiber is tested under
the lock (`scheduler.cc:218`) and set outside of it (`coroutine.cc:139`), so two
entries of one fiber are taken by two threads.

### Fairness

`FairSpec` has weak fairness of every thread's steps, of the wakers and of
`stop()`: the kernel runs every thread. A task is strongly fair to return: one
that runs again and again ends some day, which is what a task must do for
`stop()` to return at all.

### Proofs

All theorems assume that no client schedules a fiber twice (`~Duplicates`), and
the named assumption on the constants; threads, fibers and callbacks are
arbitrary sets (the threads a finite one, and not empty).

`OneRunner` is not inductive. The invariant that is, `Core` in
`SchedulerCore.tla`, says where a fiber can be: `OneOwner` (at most one thread
holds it), `Once` (at most one entry of the list or waker has it, written as the
set `Pending` of wanted fibers and the distinctness of entries), `Positions` (what
a thread at each `pc` knows of the fiber it holds: a fiber is wanted while a thread
holds it only if its state is EXEC, which is why no other thread takes it),
`States` (which states are possible for a fiber nobody holds), `Kept` (nothing
unfinished is dropped), and the types. A step of `run()` concerns one thread and
one fiber; `LocalStep` says that it then suffices to check that thread and that
fiber. The module goes through the tasks that return to `run()` unfinished, then
`run()`, finished tasks and clients, then what a task does. `OneRunnerHolds`,
`AssertsHoldAlways` and `NoLostFiberHolds` follow.

`SchedulerProofs.tla` proves with `Core` that the counters are exact
(`CountersExact`), by cardinalities of the sets of busy and idle threads, and from
that type correctness (`TypeCorrect`).

`SchedulerPoolProofs.tla` is about callbacks.

- `PoolImplemented`: the pool implements `TaskPool`. `Core` follows fibers and does
  not say which callback a fiber has. `Placed` does: a callback is at exactly one of
  five places, not scheduled yet, in the list, taken by a thread, with a fiber that
  has not ended, or done. So the callback a thread executes is no other thread's,
  and when it ends it has not ended before. `Joined` adds that nobody is in `run()`
  when `stop()` has returned. Each action is then a step of `TaskPool` (a slice
  begins or ends, `stop()` returns) or a stutter.
- `StopsComplete`: when `stop()` returns, every scheduled callback has ended, for
  pools without pinned tasks and without tasks that wait for an outsider (`Plain`).
  The invariant `Drains` says that while the list is not empty some thread is yet to
  scan it, and that every entry can be taken by whoever scans. The step to look at is
  the last thread that leaves: its idle fiber ended when the list was empty and
  nobody was active, but an entry may have come since. It then has scanned once more.
  `Plain` is needed: TLC finds `StopCompletes` violated on the instance of `sched_live`
  as soon as a task is pinned to a thread or parks itself, since `stopping()` asks
  neither for fibers that are suspended nor whether the thread of an entry is still
  there.

Only model-checked: the liveness properties (temporal proofs under fairness are
out of the prover's reach), and `AssertsHold` for a thread on its own whose clients
do schedule fibers twice (`sched_alone`), since `Core` is about pools where none do.

## Timer

`Timer.tla` models `timer.cc`. `m_timers` is a set of nodes `[at, timer]`: `at` is
the `m_next` the timer was inserted with, so that a change of `m_next` in place
makes `find()` miss it, as in the `std::set`. `addTimer()` is two steps,
`MakeTimer` (the constructor reads the clock) and `AddTimer` (under the lock);
`listExpiredCb()` is `ReadNow`, then `Collect` or `CollectNone`; a call of
`onTimerInsertedAtFront()` is a step of its own, after the lock. `Advance` and
`SetBack` move the wall clock. `since`, `shots` and `cancelled` are history.

| Run | Instance | Shows |
|---|---|---|
| `timer_ops` | 2 timers, 2 intervals, 1 thread, the clock set back once | `TypeOK`, `Registered`, `FireOrCancel`, `NeverEarly` |

One collecting thread is enough for a time that is stale when the lock is taken,
since clients move the timers in between; that the set stays in order for more of
them is proved. `NeverEarly` needs the one thread: of two, the one that gets the
lock more than an hour after it read the time takes its own old time for a clock
that was set back.

Two things a reader of `timer.cc` should know of are not properties here. While the
set is empty `listExpiredCb()` returns before it records the time, so a later
rollback is compared with a time long past and may go unnoticed. And
`reset(ms, false)` with the present interval returns true also for a dead timer;
what `reset()` returns is not modelled.

Hour, intervals and clock are scaled down to a few units; the code only compares
and adds them. `Callers` bounds the calls of `onTimerInsertedAtFront()` under way.

Proofs (in `IdleLoopProofs.tla`), for any timers, threads, intervals and clock
movements: `TimerRegistered`, `TimerFireOrCancel` and `TimerTypes`. The three are
inductive together with `Lives`: a timer that is not made yet has neither fired nor
been cancelled, one that is made but not inserted has its callback, and `m_next` is at
least `m_ms`, which keeps the unsigned subtraction of `reset()` from wrapping.

`NeverEarly` is proved in two forms. Both rest on `Timely`: `m_next` is the moment the
timer counts from and its interval, and while the clock is not set back every time
that was read is over. What is left is that `detectClockRollover()` takes no stale time
for a rollback.

- `AloneNeverEarly`, for one collecting thread: the times it reads only grow.
- `TimersNeverEarly`, for any number of threads that each get the lock within an
  hour of reading the clock (`Prompt`), when the clock began past its first hour
  (`Hour <= Start`, true of milliseconds since 1970). Without `Prompt` the statement is
  false for two threads, as said above.

## IOManager

The IOManager is split at `epoll_wait()`: `IOEvents.tla` has the events of
descriptors and what `idle()` does with reports, `IdleLoop.tla` has when threads
sleep and wake.

### IOEvents

State: `table` and `size` are `m_fdContexts` (an `FdContext` is a descriptor and a
generation, since a table that was cut and grown has new ones), `events` and
`bound` the members of each `FdContext`, `interest` the list in the kernel, `evts`
the reports a thread has still to act on, `call` where a fiber is in an operation.
Every operation is `LookUp` under `m_mutex` (with `Resize` for `addEvent()`), then
`AddEvent`, `DelEvent`, `CancelEvent` or `CancelAll` under the mutex of the
`FdContext`; `close()` is `CancelAll`, then `Close`, and goes straight to `Close` when
the table does not reach its descriptor. `Report` is `epoll_wait()`: any
registered descriptor may be ready or in error at any time. `Handle` is the body of
the loop in `idle()`. A failed assertion stops the model (`aborted`).

`Uses` says which fiber makes which call; fibers call in any order.

| Run | Instance | Shows |
|---|---|---|
| `io_shared` | both directions of one descriptor, a second one that is closed and reopened, a table that grows | `TypeOK`, `PendingExact`, `OneWaiter`, `Wakeable` |
| `io_both_ways` | both directions, one is cancelled | violated: `NoAbort` |
| `io_shrink` | two descriptors beyond the table | violated: `CancelFinds` |

`io_both_ways`: `idle()` triggers every event of a report as soon as one of them is
still registered; the one that was cancelled meanwhile fails the assertion of
`triggerEvent()`. `io_shrink`: the size is not tested again under the write lock, so
the fiber with the lower descriptor may cut the table.

### IdleLoop

`IdleLoop.tla` extends `Timer` with the threads of the pool: `scan`, `busy` and
`none` are places in `run()`, `idle`, `asleep`, `awake`, `expire` and `cbs` places in
`idle()`. The pipe is edge triggered: `ready` says that it was written since it was
last reported, and the thread it was reported to reads it empty in `SwitchBack`.
`deadline` is when `epoll_wait()` times out. A task is a token; what it does, and
`stop()`, are in `Scheduler`. The read of the idle counter and the write of
`tickle()` are one step. Signals (EINTR) are left out. The clock of an instance
ends at `MaxTime`; every timeout is over then.

| Run | Instance | Shows |
|---|---|---|
| `idle_live` | 2 threads, 1 pinned task, 1 timer with an interval below or far above `MAX_TIMEOUT`, fair | `SleepBounded`, `TasksTaken`, `TimersExpire` |
| `idle_oversleep` | 2 threads, 2 timers, 1 task | violated: `NoOversleep` |

`idle_oversleep`: the byte for a new first timer is taken by a thread that goes on
to run a task; the other one sleeps on, past the timer. `NoTaskForgotten`, checked
on the same instance, is violated too: a task that is scheduled after the scan of
the list and before `++m_idleThreadCount` wakes nobody. Both are delays of at most
`MAX_TIMEOUT`: `idle_live` shows that the maximal timeout makes up for every lost
wake-up.

`SleepBounded`: a thread sleeps for no longer than `MAX_TIMEOUT`. It is about intervals below 2^31 ms. `Timeout`
keeps the conversions to `int`: with an interval between `IntRange / 2` and
`IntRange` in `Periods` the timeout becomes negative, which to `epoll_wait()` means
for ever, and the property fails. In `idle_live` the interval 7 is the longest that
fits, so that the maximum is what bounds the sleep.

`TasksTaken` and `TimersExpire` say that again and again no task waits and no timer
is overdue. Tasks and timers of an instance are finitely many.

Fairness: threads run, tasks end (`Finish` is a step of the thread), threads make
the calls of `tickle()` they owe, and time passes. Clients are not fair, and the
calls of `tickle()` that they owe may never be made.

### Proofs

`IOEventsProofs.tla` is about any sets of fibers, threads, descriptors and uses, any
initial size of the table and any positive bound on generations.

- `IOPendingExact`, `IOOneWaiter`, `IOTypes`. The inductive invariant `Inv` adds to
  the types and the count: `Calls` (a fiber in an operation runs, and the context it
  works on belongs to its descriptor), `Filled` (a descriptor within the table has a
  context) and `Waits`, which says without counting that events and waiting fibers
  correspond one to one. `TakeOutCount` relates the removal of events to the count
  by the cardinality theorems; `TakeOutKeeps` is shared by `delEvent()`,
  `cancelEvent()`, `cancelAll()` and `idle()`.
- `IOWakeable`, under `OwnClose`: a descriptor is closed by nobody but the fiber that
  adds its events. Without it a fiber may add its event between the `cancelAll()`
  and the system call of another fiber's `close()`, and epoll loses it. The
  invariant adds that calls and events come from `Uses`, and `Known`: epoll has
  exactly the events of the one context of a descriptor that has any. So two
  contexts of one descriptor, which `io_shrink` shows to be possible, never have
  events at the same time.

`IdleLoopProofs.tla`:

- `IdleImplementsTimer`: every behaviour of `IdleLoop` is one of `Timer`, so the
  theorems about timers hold for those of an IOManager. The one step
  that needs an argument is `getNextTimer()`: when nothing was tickled it is a stutter.
- `IdleSleepBounded`, under `FitsInt` (the intervals, which are parameters of the
  callers, are below 2^31 ms) for a clock that is not set back. The invariant `Bounded`
  says that every timer counts from a moment that is over, so that the time to it is
  at most its interval; it rests on the clock moving forward only (`ClockForward`).
  That the set has a first timer is the well-foundedness of the natural numbers.

Only model-checked: `TasksTaken` and `TimersExpire`, which need fairness.

## Hooks, FdManager and TcpServer

`Hook.tla` models the hooked calls of fibers. Each fiber makes the calls of a program
(`Programs`): `socket`, `connect`, `accept`, `read`, `write`, `sleep`, `close`, `fcntl`,
`ioctl`, `setsockopt`, in order. `pc` is the place in the call: `do_io()` is `Enter` (the
FdCtx and its timeout are read), `Fun` (the system call, with EINTR and its
repetition), `Arm` (the conditional timer), `AddEvent`, the wait, `Resume`,
`CancelTimer`, `Test` and the retry; `connect_with_timeout()` goes on with `SockOpt`.
A timer is `armed`, `expired` (its callback is in the task list) and `locked` (the
callback has the `timer_info`): the fiber may return from its call between any two
of these. `close()` is `CancelAll`, `Del` of the FdCtx, and the system call, with steps
of other fibers between them. The IOManager is `IOEvents` and `Timer` in short: one
step per operation, any timer may run out at any moment. `World` is the peers and the
kernel. Two fibers that wait for the same event fail the assertion of `addEvent()`,
which ends the model (`aborted`).

`TcpServer.tla` extends it with `startAccept()`, `handleClient()` and `stop()`: `m_isStop` is
set at once, the sockets are cancelled and closed by a task on another thread.
Programs without the three are those of `Hook`.

`Socket::accept()` needs the FdCtx of the new descriptor: `init()` (`socket.cc:464`)
fails without one, and the descriptor is then lost, neither closed nor handed on.
`Accepted` tests it. The FdCtx is made by `FdManager::get(fd, true)` in the hooked
`accept()`, some steps after the system call.

The run `hook` checks six programs (`MCHook`): a server whose listening socket is
closed under it, connections closed and opened again under the same number, two
fibers that accept from one socket, the flags, a `TcpServer` that is stopped, and
one with two fibers that handle clients.
Three fibers and two descriptors (one listening) are enough for a number to be used
again while the timer of an earlier call is on its way; `MaxReadable` bounds what
waits in a socket. The run does not check deadlock: programs end.

| Property | Says |
|---|---|
| `OneWaker` | a fiber that waits is resumed by exactly one of event, timer and task, a fiber that runs by none |
| `TimerGuards` | a call with a timeout waits with its timer pending, unless the timer ran first |
| `FreshCtx` | a new descriptor never meets the FdCtx of an old one with its number |
| `ClientsOnce` | an accepted connection is neither leaked nor handled twice when `stop()` intervenes |
| `ReadyReturns` | a call that waits for a descriptor of its own that is ready returns |
| `TimedReturns` | a call that waits with its timer pending returns, unless epoll lost the descriptor to a `close()`, or the call was resumed early and its timer ran just before it waits again (`NeverUntimed` below) |
| `SleepsEnd` | `sleep()` returns |
| `LoopsEnd` | accept loops end after `stop()`, apart from the race below |

Fairness: threads run fibers that can run, timers run out and their callbacks run,
`epoll_wait()` reports what is ready. Nothing is assumed of the peers, nor that
`stop()` is called.

### Proofs

For any fibers, descriptors and programs, with or without a `TcpServer`
(`HookAssumption` only says that a program consists of calls on descriptors with
arguments of their type).

`HookProofs.tla`: `WakersExact` (`OneWaker`) and `TimersGuard` (`TimerGuards`). A count of
wakers is not inductive, because it does not say which waker a step takes away. `Woken`
lists the four situations of a fiber instead: it runs and nothing will resume it, or it
waits and is in the task list, or bound to one event, or asleep with one timer, and
nothing else. `InCall` says which calls have which `pc`, and `Guarded` follows the timer
from `Arm` on, before the event is added. A timer has the number of its call, so the
callback of an earlier call, still on its way, cannot be taken for the present one;
what it can do is cancel the event, which puts the fiber into the task list. `Trigger`,
the common part of `cancelEvent()`, `cancelAll()` and the reports of epoll, is treated
once for all of them.

`ServerProofs.tla` is about descriptors.

- `CtxFresh` (`FreshCtx`): between `socket()` or `accept()` and `FdManager::get(fd, true)`
  the number has no FdCtx. The invariant `Fresh` says that closed descriptors have
  none, that `close()` has deleted it before the system call, and that no two fibers
  are being given the same number. It assumes `NoForeignClose`: nobody is inside
  `close()` of a number that another fiber is just being given. A client that closes a
  descriptor twice, or one that is not its own, can break this, since the number may
  be in use again.
- `ServerCtxFresh`: in a program of accept loops, handlers and `stop()` (`Servers`)
  that assumption is a theorem.
- `ClientsOwned` (`ClientsOnce`): in such a program every connected descriptor is with
  one loop, one handler or the scheduler. The invariant `Serving` adds to `Fresh` where
  each of the three can be when it has a socket (`Phase`), and who owns it (`Owned`).
  `Known` says that the descriptor of an accept loop has its FdCtx as soon as
  `get(fd, true)` returned, so that `init()` does not fail: only `close()` deletes an
  FdCtx, and nobody closes a descriptor that is with a loop.

Only model-checked: `ReadyReturns`, `TimedReturns`, `SleepsEnd` and `LoopsEnd`, which need
fairness.

## Parsers

The three Ragel machines are checked in as generated code, and the build compiles
that code, not the `.rl` files. `UriMachine`, `RequestMachine` and `ResponseMachine` are
the generated tables: a row per `case` of the generated switch, from classes of bytes
to the next state and the actions (`RagelMachine` has the vocabulary). A class holds
bytes that no state tells apart. `UriGrammar`, `RequestGrammar` and `ResponseGrammar`
are the rules of the `.rl` sources, and `Grammar` says what a rule matches, by partial
derivatives, which need nothing of the machine.

`UriParser`, `RequestParser` and `ResponseParser` run a machine on any text, of any
length, byte by byte, beside the derivatives of the grammar. They show that the
generated code is the code of its source and more: offsets into the text are
modelled by the landmarks at that place, found by a second reader that knows only
delimiters, so that every part handed to a setter or an `on_…` function can be
compared with the part it should be. `execute()` of the HTTP parsers may be called
with any piece of the text; it sets its marks to zero each time, all but
`query_start`, as the code does.

The state space is finite although texts are not: states, residual patterns and
landmarks are finitely many. No bound is needed.

| Property | Says |
|---|---|
| `UriIsGrammar`, `RequestIsGrammar`, `ResponseIsGrammar` | the machine takes exactly the texts of the grammar |
| `UriPartsExact` | every part of a URI is the stretch between its delimiters; the path is kept only after a scheme and an authority, and a userinfo with a ":" not whole; `Uri::Create` returns, unless the port is empty (`CreateReturns` below) |
| `RequestCallsExact`, `ResponseCallsExact` | every function is called in time, with its part, unless a piece ended inside that part (nothing is said of lines that continue an empty value); `isFinished()` holds at the end of a response whose last field has a value |

## HTTP bodies and the pool of connections

`HttpBody.tla`: `recvResponse()`, and `recvRequest()` for messages that are not chunked.
The peer sends one message; `read()` returns any number of bytes that arrived, or
fails. Bytes have a kind and a place, so the body that is returned can be compared
byte by byte. `BodyIsExact`: the body is the one that was sent, nothing of the message
is left behind, and it is given up only when `read()` fails, unless a read ended
inside the header of a chunk (`ChunksWhole` below): `execute()` then begins again in
its start state with what is left of the header and finds a wrong size or none. The messages have a head of one to three bytes, chunks
of 1, 2 and 16 (two digits) or a length of 8 or none, and the buffer holds 6 bytes, so
that every part is cut at every place and no message with a body fits.

`HttpPool.tla`: clients of one pool through `getConnection()`, the request, the
response and `ReleasePtr()`, whose counting is outside the lock, and the server that
answers in order, late, or never. `PoolOneOwner`: a connection is in the list or with one
client, never deleted while it is, and `m_total` counts them. `PoolAnswersOwn`: a client
gets the answer to its own request, also after a timeout of an earlier one, and a
connection in the list has requests left. Two clients and two connections, two
requests each. A response is read whole or not at all: that the bytes which a cut
header of a chunk leaves behind are taken for the next response on a connection of
the pool is not composed in. `m_createTime` is never assigned, so both tests of the age compare the
parameter with the clock; the model keeps that.

`HttpPoolProofs.tla` proves both for any clients, connections and numbers of requests:
`ConnectionsOwned` and `ResponsesOwn`. The inductive invariant `PoolInv` says where in
`doRequest()` a client has a connection (`Placing`), that the list has no repetition and
no connection of a client (`Owning`), and that `m_total` is off by exactly the clients that
are yet to count (`Counting`). `Answering` is what makes responses one's own: a connection
that can be used again has no request unanswered and no response unread, one that a
client waits on has exactly that client's, and one whose response did not come is
closed before it is released. The invariant also shows that `getConnection()` never
deletes anything: a connection in the list is valid, because what would make it invalid
is tested in `ReleasePtr()` or done by its owner. So `CountDropped` always subtracts 0.
(`Now` is a constant: with `m_createTime` 0 a clock that moves changes neither test of the
age, as long as it does not pass `m_maxAliveTime`, counted from 1970, meanwhile.)

## ByteArray

`ByteArray.tla`: the list of blocks, `m_cur`, position, capacity and size, over the
writes and reads of integers (fixed and variable, both byte orders), strings,
`setPosition`, `clear`, `getWriteBuffers`/`getReadBuffers` as the streams use them, and
files. `flat` is what the array should hold, `items` what was written. A pointer past
the last block is null; reading through it is `fault`.

`ArrayCursorExact`: `m_cur` is the block that holds the position, at the exact ends of
blocks too, and only a read of no bytes follows a null pointer. `ArrayReadsBack`:
reads go over exactly the bytes from the position on, and integers and strings come
back without a null pointer being followed, an empty string at the end of the last
block excepted. Block sizes 1 and 2, capacity up to 4, integers of 4 bits in groups
of 1 bit with their least value, 1 and their greatest: writes cross blocks and end
at their ends, and the encodings of integers take two to four bytes. Widths are parameters because the code is the same for each type.

The run `http` has the three parsers, bodies, the pool and the byte array side by side
(`part`); they share no state. It does not check deadlock: parsers and messages end.

## Where the code departs from what it says

Runs that expect a violation: `sched_pinned`, `idle_oversleep`, `io_both_ways`,
`io_shrink`; their findings are in `PROJECT.json`. The following are shown by TLC when
the definition named is checked on the instance of the run named; they have no run
of their own.

| Definition | Instance | What happens |
|---|---|---|
| `OneRunner` | `sched_pool` with `Duplicates = TRUE` | a fiber scheduled twice runs on two threads |
| `NoTaskForgotten` | `idle_oversleep` | a task waits for `MAX_TIMEOUT` although a thread could take it |
| `NeverUntimed` | `hook` | the timer of `do_io()` runs between `addConditionTimer()` and `addEvent()` (`hook.cc:150`); the call then waits without one |
| `ConnectSound` | `hook` | the callback of an old timer calls `cancelEvent()` for a number that is in use again; `connect()` finds no error and returns 0 while the connection is being made |
| `ServerStops` | `hook` with `ServerPrograms` | an accept loop adds its event between the last `cancelAll()` and the system call of `close()`, and never ends (`tcp_server.cc:85`) |
| `ChunksWhole` of `HttpBody` | `http` | a read that ends inside the header of a chunk: `execute(data, len, true)` starts anew with the rest of it, and the body that is returned is not the one that was sent (`http_connection.cc:104`) |
| `CreateReturns` of `UriParser` | `http` | "returns Uri or nullptr" (`uri.h:48`): for a scheme, an authority and an empty port `Uri::Create` builds a string from a null pointer, which throws (`uri.rl.cc:215`) |
| `WithinMaxSize` of `HttpPool` | `http` | the list grows beyond `m_maxSize`, which nothing reads (`http_connection.h:158`) |

Met while modelling, and kept in the models: the comments on `dec_octet`
(`http/http11_parser.rl:167-169`, "10-99" and so on) are not what the rule says, since
`"1"-"9"` is a difference in Ragel and matches "1" only (no text is refused for it: what
is no address is a name); a read of size 0 at the exact end of the
last block of a ByteArray follows a null pointer; `writeToFile` assumes that the
position is at the start of a block; `read(buf, size, position)` and
`getReadBuffers(…, position)` start at `m_cur` whatever the position (no caller passes
another one); a connection whose send failed goes back into the pool, since
`isConnected()` stays true, and is handed out again until its requests are used up.

## Not modelled

- `stopping()` of an IOManager, which reads the first timer, the count of pending
  events and the conditions of the scheduler one after the other: it needs the
  state of `Timer`, `IOEvents` and `Scheduler` at once, and no module composes the
  three. A pool is started and stopped once.
- Signals during `epoll_wait()`, and the loading of the system calls by `dlsym`.
- `streams/async_socket_stream`, `load_balance` and `service_discovery`: not in the
  `LIB_SRC` of `CMakeLists.txt`, and they include headers the repository does not have.
  `ws_*`, `session_data`, `zlib_stream`, `module`, `library` and `env` are not built either.
- Config (YAML conversions of values that belong to others), Log (formatting and
  output under one lock per appender), servlets (two tables under one lock), the HTTP
  message classes (maps and formatting), addresses, strings, digests and time.
- The context switch itself, stacks, and the wrappers of pthread.
- In `ByteArray`, floating point numbers and `toHexString`; in `HttpServer`, the loop that
  calls the servlets.

Checked by TLC only, because they are out of the prover's reach: liveness under
fairness, and the invariants of the parsers, of `HttpBody` and of `ByteArray`, whose
definitions are recursive or are about what a recursion over data computes. Every
other invariant and action property of the passing runs is proved as well, under the
hypotheses named with each theorem (for `AssertsHold`, without duplicates).
