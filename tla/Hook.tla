-------------------------------- MODULE Hook --------------------------------
(***************************************************************************)
(* The hooked system calls (hook.cc) of fibers of one IOManager, and the   *)
(* FdManager behind them.  Every fiber makes the calls of its program.     *)
(*                                                                         *)
(* A call that would block adds a conditional timer, then the event of the *)
(* descriptor, and yields; it is scheduled again by idle() when epoll      *)
(* reports the event, by the timer through cancelEvent(), or by close()    *)
(* through cancelAll().  The parts of the IOManager are IOEvents and Timer *)
(* in short: a call of theirs is one step, and time passes freely.         *)
(***************************************************************************)
EXTENDS Naturals, Sequences, FiniteSets

CONSTANTS
  Fibers,
  Fds,          \* the descriptors the kernel gives out
  Listening,    \* one of them, which is listening from the start
  Programs,     \* what the fibers call: functions from fibers to sequences of
                \* records [op, on, arg]
  MaxReadable,  \* bound: what may wait to be read or accepted on a descriptor
  None

Events == {"READ", "WRITE"}

\* Calls name a descriptor or the fiber's own one, and pass what they take.
ASSUME HookAssumption ==
  /\ Listening \in Fds
  /\ None \notin Fds \union Fibers /\ "own" \notin Fds
  /\ None \notin [user : BOOLEAN, READ : BOOLEAN, WRITE : BOOLEAN]
  /\ MaxReadable \in Nat
  /\ \A p \in Programs, f \in Fibers :
       /\ Len(p[f]) \in Nat
       /\ \A i \in 1..Len(p[f]) :
            /\ p[f][i].on \in Fds \union {"own"}
            /\ p[f][i].op = "setsockopt" => p[f][i].arg \in Events
            /\ p[f][i].op \in {"fcntl", "ioctl"} => p[f][i].arg \in BOOLEAN

VARIABLES
  program,      \* one of Programs
  pc, ip,       \* where each fiber is in the call program[f][ip[f]]
  own,          \* the descriptor that socket() or accept() gave the fiber
  ret,          \* what the last call returned
  timed,        \* the call has a timeout
  cancelled,    \* timer_info::cancelled of the call
  scheduled,    \* entries of the fiber in the list of the scheduler
  timers,       \* timers and callbacks: [fiber, call, fd, event, at]
  reg,          \* FdContext: the fiber that waits for an event
  epoll,        \* epoll has an entry for the descriptor
  ctx,          \* FdManager::m_fds
  file,         \* the kernel: the state of the descriptor
  blocking,     \* ... it is without O_NONBLOCK
  readable,     \* ... what can be read or accepted
  room,         \* ... something can be written
  aborted       \* an assertion failed

frame == <<program, aborted>>
kernel == <<file, blocking, readable, room>>
events == <<reg, epoll>>
vars == <<pc, ip, own, ret, timed, cancelled, scheduled, timers, events, ctx, kernel, frame>>

Op(f) == program[f][ip[f]].op
Arg(f) == program[f][ip[f]].arg
Fd(f) == IF program[f][ip[f]].on = "own" THEN own[f] ELSE program[f][ip[f]].on
Event(f) == IF Op(f) \in {"write", "connect"} THEN "WRITE" ELSE "READ"
NewCtx == [user |-> FALSE, READ |-> FALSE, WRITE |-> FALSE]

\* Without the descriptor of a failed socket() or accept() a program ends.
At(f, place) ==
  /\ ~aborted /\ pc[f] = place
  /\ ip[f] <= Len(program[f])
  /\ Op(f) \in {"socket", "sleep"} \/ Fd(f) # None
Goto(f, place) == pc' = [pc EXCEPT ![f] = place] /\ UNCHANGED <<ip, ret>>
Return(f, value) ==
  /\ pc' = [pc EXCEPT ![f] = "call"]
  /\ ip' = [ip EXCEPT ![f] = @ + 1]
  /\ ret' = [ret EXCEPT ![f] = value]

Init ==
  /\ program \in Programs
  /\ pc = [f \in Fibers |-> "call"]
  /\ ip = [f \in Fibers |-> 1]
  /\ own = [f \in Fibers |-> None]
  /\ ret = [f \in Fibers |-> "-"]
  /\ timed = [f \in Fibers |-> FALSE]
  /\ cancelled = [f \in Fibers |-> FALSE]
  /\ scheduled = [f \in Fibers |-> 0]
  /\ timers = {}
  /\ reg = [fd \in Fds |-> [e \in Events |-> None]]
  /\ epoll = [fd \in Fds |-> FALSE]
  /\ ctx = [fd \in Fds |-> IF fd = Listening THEN NewCtx ELSE None]
  /\ file = [fd \in Fds |-> IF fd = Listening THEN "listening" ELSE "closed"]
  /\ blocking = [fd \in Fds |-> FALSE]
  /\ readable = [fd \in Fds |-> 0]
  /\ room = [fd \in Fds |-> TRUE]
  /\ aborted = FALSE

-----------------------------------------------------------------------------
(* The kernel. *)

Ready(fd, e) ==
  IF e = "READ" THEN file[fd] = "refused" \/ readable[fd] > 0
  ELSE file[fd] = "refused" \/ (file[fd] = "connected" /\ room[fd])

\* A new descriptor: without O_NONBLOCK, nothing to read.
NewFile(f, fd, state) ==
  /\ file[fd] = "closed"
  /\ file' = [file EXCEPT ![fd] = state]
  /\ blocking' = [blocking EXCEPT ![fd] = TRUE]
  /\ room' = [room EXCEPT ![fd] = TRUE]
  /\ own' = [own EXCEPT ![f] = fd]

Full == \A fd \in Fds : file[fd] # "closed"

Establish(fd) ==
  /\ file[fd] = "connecting"
  /\ \E s \in {"connected", "refused"} : file' = [file EXCEPT ![fd] = s]
  /\ UNCHANGED <<blocking, readable, room>>
Arrive(fd) ==
  /\ file[fd] \in {"connected", "listening"} /\ readable[fd] < MaxReadable
  /\ readable' = [readable EXCEPT ![fd] = @ + 1]
  /\ UNCHANGED <<file, blocking, room>>
Drain(fd) ==
  /\ file[fd] = "connected" /\ ~room[fd]
  /\ room' = [room EXCEPT ![fd] = TRUE]
  /\ UNCHANGED <<file, blocking, readable>>
World == /\ \E fd \in Fds : Establish(fd) \/ Arrive(fd) \/ Drain(fd)
         /\ UNCHANGED <<pc, ip, own, ret, timed, cancelled, scheduled, timers, events, ctx, frame>>

-----------------------------------------------------------------------------
(* The IOManager. *)

\* Mutant: the event stays registered.
TriggerKeeps(fd, es) ==
  IF epoll[fd]
  THEN /\ UNCHANGED <<reg, epoll>>
       /\ scheduled' = [f \in Fibers |->
              scheduled[f] + Cardinality({e \in es : reg[fd][e] = f})]
  ELSE UNCHANGED <<reg, epoll, scheduled>>
\* The fibers that wait for one of the events es of fd are scheduled; epoll_ctl()
\* fails, and nothing is done, when the kernel has no entry for fd.
Trigger(fd, es) ==
  IF epoll[fd]
  THEN /\ reg' = [reg EXCEPT ![fd] = [e \in Events |-> IF e \in es THEN None ELSE @[e]]]
       /\ epoll' = [epoll EXCEPT ![fd] = \E e \in Events : reg'[fd][e] # None]
       /\ scheduled' = [f \in Fibers |->
              scheduled[f] + Cardinality({e \in es : reg[fd][e] = f})]
  ELSE UNCHANGED <<reg, epoll, scheduled>>

\* idle() acts on a report of epoll_wait().
Report(fd, e) ==
  /\ ~aborted /\ reg[fd][e] # None /\ epoll[fd] /\ Ready(fd, e)
  /\ Trigger(fd, {e})
  /\ UNCHANGED <<pc, ip, own, ret, timed, cancelled, timers, ctx, kernel, frame>>

\* Mutant: the timer of a call is lost on the way to its callback.
ExpireDrops(t) ==
  /\ ~aborted /\ t.at = "armed"
  /\ timers' = (timers \ {t}) \union
               (IF t.event = "SLEEP" THEN {[t EXCEPT !.at = "expired"]} ELSE {})
  /\ UNCHANGED <<pc, ip, own, ret, timed, cancelled, scheduled, events, ctx, kernel, frame>>
\* A timer leaves the TimerManager; from then on cancel() comes too late.
Expire(t) ==
  /\ ~aborted /\ t.at = "armed"
  /\ timers' = (timers \ {t}) \union {[t EXCEPT !.at = "expired"]}
  /\ UNCHANGED <<pc, ip, own, ret, timed, cancelled, scheduled, events, ctx, kernel, frame>>

\* Mutant: the timer is added again and nobody is scheduled.
WakeSleeperAgain(t) ==
  /\ ~aborted /\ t.at = "expired" /\ t.event = "SLEEP"
  /\ timers' = (timers \ {t}) \union {[t EXCEPT !.at = "armed"]}
  /\ UNCHANGED <<pc, ip, own, ret, timed, cancelled, scheduled, events, ctx, kernel, frame>>
\* The callback of sleep(): schedule().
WakeSleeper(t) ==
  /\ ~aborted /\ t.at = "expired" /\ t.event = "SLEEP"
  /\ timers' = timers \ {t}
  /\ scheduled' = [scheduled EXCEPT ![t.fiber] = @ + 1]
  /\ UNCHANGED <<pc, ip, own, ret, timed, cancelled, events, ctx, kernel, frame>>

\* The callback of do_io() and connect_with_timeout(): nothing when the call
\* has returned, and with it its timer_info, or was cancelled already, ...
Fire(t) ==
  /\ ~aborted /\ t.at = "expired" /\ t.event # "SLEEP"
  /\ IF ip[t.fiber] # t.call \/ cancelled[t.fiber]
     THEN timers' = timers \ {t} /\ UNCHANGED cancelled
     ELSE /\ cancelled' = [cancelled EXCEPT ![t.fiber] = TRUE]
          /\ timers' = (timers \ {t}) \union {[t EXCEPT !.at = "locked"]}
  /\ UNCHANGED <<pc, ip, own, ret, timed, scheduled, events, ctx, kernel, frame>>

\* Mutant: every callback cancels the WRITE event, as that of connect() does.
CancelWrite(t) ==
  /\ ~aborted /\ t.at = "locked"
  /\ timers' = timers \ {t}
  /\ IF reg[t.fd]["WRITE"] # None THEN Trigger(t.fd, {"WRITE"})
     ELSE UNCHANGED <<reg, epoll, scheduled>>
  /\ UNCHANGED <<pc, ip, own, ret, timed, cancelled, ctx, kernel, frame>>
\* ... and then cancelEvent(), whoever waits there by now.
CancelEvent(t) ==
  /\ ~aborted /\ t.at = "locked"
  /\ timers' = timers \ {t}
  /\ IF reg[t.fd][t.event] # None THEN Trigger(t.fd, {t.event})
     ELSE UNCHANGED <<reg, epoll, scheduled>>
  /\ UNCHANGED <<pc, ip, own, ret, timed, cancelled, ctx, kernel, frame>>

-----------------------------------------------------------------------------
(* socket(), accept(): FdManager::get(fd, true). *)

Socket(f) ==
  /\ At(f, "call") /\ Op(f) = "socket"
  /\ \/ (\E fd \in Fds : NewFile(f, fd, "new")) /\ Goto(f, "get")
     \/ Full /\ Return(f, "EMFILE") /\ own' = [own EXCEPT ![f] = None]
             /\ UNCHANGED <<file, blocking, room>>
  /\ UNCHANGED <<readable, timed, cancelled, scheduled, timers, events, ctx, frame>>

\* Mutant: get(fd), which makes no FdCtx.
GetOnly(f) ==
  /\ At(f, "get")
  /\ Return(f, "ok")
  /\ UNCHANGED <<own, timed, cancelled, scheduled, timers, events, ctx, kernel, frame>>
\* The look under the read lock: a FdCtx that is still there is taken as it is.
Get(f) ==
  /\ At(f, "get")
  /\ IF ctx[own[f]] # None THEN Return(f, "ok") ELSE Goto(f, "create")
  /\ UNCHANGED <<own, timed, cancelled, scheduled, timers, events, ctx, kernel, frame>>

\* Under the write lock a FdCtx is made, which sets O_NONBLOCK.
Create(f) ==
  /\ At(f, "create")
  /\ ctx' = [ctx EXCEPT ![own[f]] = NewCtx]
  /\ blocking' = [blocking EXCEPT ![own[f]] = FALSE]
  /\ Return(f, "ok")
  /\ UNCHANGED <<own, timed, cancelled, scheduled, timers, events, file, readable, room, frame>>

-----------------------------------------------------------------------------
(* do_io() and connect_with_timeout(). *)

IoOps == {"read", "write", "accept"}

\* A descriptor the FdManager does not know, or that the user wants without
\* blocking, gets the system call alone.
Enter(f) ==
  /\ At(f, "call") /\ Op(f) \in IoOps \union {"connect"}
  /\ LET c == ctx[Fd(f)] IN
       \/ /\ c = None /\ Op(f) = "connect"
          /\ Return(f, "EBADF") /\ UNCHANGED <<timed, cancelled>>
       \/ /\ IF c = None THEN Op(f) # "connect" ELSE c.user
          /\ Goto(f, "raw") /\ UNCHANGED <<timed, cancelled>>
       \/ /\ c # None /\ ~c.user
          /\ timed' = [timed EXCEPT ![f] = Op(f) = "connect" \/ c[Event(f)]]
          /\ cancelled' = [cancelled EXCEPT ![f] = FALSE]
          /\ Goto(f, "fun")
  /\ UNCHANGED <<own, scheduled, timers, events, ctx, kernel, frame>>

\* What a call takes from the kernel.
Take(f, fd) ==
  IF Op(f) = "write"
  THEN room' = [room EXCEPT ![fd] = FALSE] /\ UNCHANGED readable
  ELSE readable' = [readable EXCEPT ![fd] = @ - 1] /\ UNCHANGED room

\* The descriptor is of the kind the call is for.
Suits(f, fd) ==
  IF Op(f) = "accept" THEN file[fd] = "listening" ELSE file[fd] \in {"connecting", "connected"}

\* The system call of do_io(), EINTR and its repetition included.
SystemCall(f, fd) ==
  \/ /\ ~Suits(f, fd)
     /\ Return(f, "error")
     /\ UNCHANGED <<own, kernel>>
  \/ /\ Op(f) = "accept" /\ Suits(f, fd) /\ readable[fd] > 0
     /\ \E new \in Fds :
          /\ NewFile(f, new, "connected")
          /\ readable' = [readable EXCEPT ![fd] = @ - 1]
     /\ Goto(f, "get")
  \/ /\ Op(f) = "accept" /\ Suits(f, fd) /\ readable[fd] > 0 /\ Full
     /\ Return(f, "EMFILE")
     /\ UNCHANGED <<own, kernel>>
  \/ /\ Op(f) # "accept" /\ Suits(f, fd) /\ Ready(fd, Event(f))
     /\ Take(f, fd)
     /\ Return(f, "ok")
     /\ UNCHANGED <<own, file, blocking>>
  \/ /\ Suits(f, fd) /\ ~Ready(fd, Event(f)) /\ ~blocking[fd]
     /\ IF pc[f] = "raw" THEN Return(f, "EAGAIN") ELSE Goto(f, "arm")
     /\ UNCHANGED <<own, kernel>>
Fun(f) ==
  /\ \E place \in {"fun", "raw"} : At(f, place)
  /\ Op(f) \in IoOps
  /\ SystemCall(f, Fd(f))
  /\ UNCHANGED <<timed, cancelled, scheduled, timers, events, ctx, frame>>

\* The system call of connect_with_timeout().
Connect(f, fd) ==
  \/ /\ file[fd] # "new"
     /\ Return(f, "error") /\ UNCHANGED file
  \/ /\ file[fd] = "new"
     /\ \E s \in {"connected", "refused"} : /\ file' = [file EXCEPT ![fd] = s]
                                         /\ Return(f, IF s = "connected" THEN "ok" ELSE "error")
  \/ /\ file[fd] = "new" /\ ~blocking[fd]
     /\ file' = [file EXCEPT ![fd] = "connecting"]
     /\ IF pc[f] = "raw" THEN Return(f, "EINPROGRESS") ELSE Goto(f, "arm")
ConnectFun(f) ==
  /\ \E place \in {"fun", "raw"} : At(f, place)
  /\ Op(f) = "connect"
  /\ Connect(f, Fd(f))
  /\ UNCHANGED <<own, blocking, readable, room, timed, cancelled, scheduled, timers, events, ctx, frame>>

Mine(f) == {t \in timers : t.fiber = f /\ t.call = ip[f] /\ t.at = "armed"}

Arm(f) ==
  /\ At(f, "arm")
  /\ timers' = IF timed[f]
               THEN timers \union {[fiber |-> f, call |-> ip[f], fd |-> Fd(f), event |-> Event(f), at |-> "armed"]}
               ELSE timers
  /\ Goto(f, "add")
  /\ UNCHANGED <<own, timed, cancelled, scheduled, events, ctx, kernel, frame>>

\* addEvent(): it asserts that the event is free; epoll_ctl() fails for a closed
\* descriptor, and for one whose other event is registered but whose entry is gone.
AddEvent(f) ==
  /\ At(f, "add")
  /\ LET fd == Fd(f)
         e == Event(f)
         other == \E o \in Events : reg[fd][o] # None IN
       \/ /\ reg[fd][e] # None
          /\ aborted' = TRUE
          /\ UNCHANGED <<pc, ip, ret, timers, events>>
       \/ /\ reg[fd][e] = None /\ (file[fd] = "closed" \/ (other /\ ~epoll[fd]))
          /\ timers' = timers \ Mine(f)
          /\ IF Op(f) = "connect" THEN Goto(f, "sockopt") ELSE Return(f, "error")
          /\ UNCHANGED <<events, aborted>>
       \/ /\ reg[fd][e] = None /\ file[fd] # "closed" /\ (other => epoll[fd])
          /\ reg' = [reg EXCEPT ![fd][e] = f]
          /\ epoll' = [epoll EXCEPT ![fd] = TRUE]
          /\ Goto(f, "wait")
          /\ UNCHANGED <<timers, aborted>>
  /\ UNCHANGED <<own, timed, cancelled, scheduled, ctx, kernel, program>>

\* YieldToHold() returns.
Resume(f) ==
  /\ At(f, "wait") /\ scheduled[f] > 0
  /\ scheduled' = [scheduled EXCEPT ![f] = @ - 1]
  /\ IF Op(f) = "sleep" THEN Return(f, "ok") ELSE Goto(f, "back")
  /\ UNCHANGED <<own, timed, cancelled, timers, events, ctx, kernel, frame>>

CancelTimer(f) ==
  /\ At(f, "back")
  /\ timers' = timers \ Mine(f)
  /\ Goto(f, "test")
  /\ UNCHANGED <<own, timed, cancelled, scheduled, events, ctx, kernel, frame>>

\* Mutant: a call that was resumed waits again without having tried again.
TestWaits(f) ==
  /\ At(f, "test")
  /\ \/ cancelled[f] /\ Return(f, "ETIMEDOUT")
     \/ ~cancelled[f] /\ Goto(f, IF Op(f) = "connect" THEN "sockopt" ELSE "arm")
  /\ UNCHANGED <<own, timed, cancelled, scheduled, timers, events, ctx, kernel, frame>>
\* tinfo->cancelled decides between the end of the call and `goto retry`.
Test(f) ==
  /\ At(f, "test")
  /\ \/ cancelled[f] /\ Return(f, "ETIMEDOUT")
     \/ ~cancelled[f] /\ Goto(f, IF Op(f) = "connect" THEN "sockopt" ELSE "fun")
  /\ UNCHANGED <<own, timed, cancelled, scheduled, timers, events, ctx, kernel, frame>>

\* getsockopt(SO_ERROR) has no error to tell for a socket still connecting.
SockOpt(f) ==
  /\ At(f, "sockopt")
  /\ Return(f, IF file[Fd(f)] \in {"closed", "refused"} THEN "error" ELSE "ok")
  /\ UNCHANGED <<own, timed, cancelled, scheduled, timers, events, ctx, kernel, frame>>

-----------------------------------------------------------------------------
(* The other calls. *)

Sleep(f) ==
  /\ At(f, "call") /\ Op(f) = "sleep"
  /\ timers' = timers \union {[fiber |-> f, call |-> ip[f], fd |-> None, event |-> "SLEEP", at |-> "armed"]}
  /\ Goto(f, "wait")
  /\ UNCHANGED <<own, timed, cancelled, scheduled, events, ctx, kernel, frame>>

\* setsockopt(SO_RCVTIMEO or SO_SNDTIMEO).
SetSockOpt(f) ==
  /\ At(f, "call") /\ Op(f) = "setsockopt"
  /\ ctx' = IF ctx[Fd(f)] = None THEN ctx ELSE [ctx EXCEPT ![Fd(f)][Arg(f)] = TRUE]
  /\ Return(f, IF file[Fd(f)] = "closed" THEN "error" ELSE "ok")
  /\ UNCHANGED <<own, timed, cancelled, scheduled, timers, events, kernel, frame>>

\* fcntl(F_SETFL) and ioctl(FIONBIO): fcntl() keeps O_NONBLOCK for a FdCtx,
\* ioctl() passes on what it was given.
SetNonblock(f) ==
  /\ At(f, "call") /\ Op(f) \in {"fcntl", "ioctl"}
  /\ LET fd == Fd(f)
         keep == Op(f) = "fcntl" /\ ctx[fd] # None IN
       /\ ctx' = IF ctx[fd] = None THEN ctx ELSE [ctx EXCEPT ![fd].user = Arg(f)]
       /\ blocking' = [blocking EXCEPT ![fd] = IF file[fd] = "closed" THEN @ ELSE ~keep /\ ~Arg(f)]
       /\ Return(f, IF file[fd] = "closed" THEN "error" ELSE "ok")
  /\ UNCHANGED <<own, timed, cancelled, scheduled, timers, events, file, readable, room, frame>>

\* close(): cancelAll(), ...
CancelAll(f) ==
  /\ At(f, "call") /\ Op(f) = "close"
  /\ IF ctx[Fd(f)] = None
     THEN Goto(f, "close") /\ UNCHANGED <<reg, epoll, scheduled>>
     ELSE Goto(f, "del") /\ Trigger(Fd(f), Events)
  /\ UNCHANGED <<own, timed, cancelled, timers, ctx, kernel, frame>>

\* Mutant: the FdCtx is left.
DelNot(f) ==
  /\ At(f, "del")
  /\ Goto(f, "close")
  /\ UNCHANGED <<own, timed, cancelled, scheduled, timers, events, ctx, kernel, frame>>
\* ... FdManager::del(), ...
Del(f) ==
  /\ At(f, "del")
  /\ ctx' = [ctx EXCEPT ![Fd(f)] = None]
  /\ Goto(f, "close")
  /\ UNCHANGED <<own, timed, cancelled, scheduled, timers, events, kernel, frame>>

\* ... and the system call, with which epoll forgets the descriptor.
CloseFun(f) ==
  /\ At(f, "close")
  /\ Return(f, IF file[Fd(f)] = "closed" THEN "error" ELSE "ok")
  /\ file' = [file EXCEPT ![Fd(f)] = "closed"]
  /\ readable' = [readable EXCEPT ![Fd(f)] = 0]
  /\ epoll' = [epoll EXCEPT ![Fd(f)] = FALSE]
  /\ UNCHANGED <<own, timed, cancelled, scheduled, timers, reg, ctx, blocking, room, frame>>

Fiber(f) ==
  \/ Socket(f) \/ Get(f) \/ Create(f)
  \/ Enter(f) \/ Fun(f) \/ ConnectFun(f) \/ Arm(f) \/ AddEvent(f)
  \/ Resume(f) \/ CancelTimer(f) \/ Test(f) \/ SockOpt(f)
  \/ Sleep(f) \/ SetSockOpt(f) \/ SetNonblock(f) \/ CancelAll(f) \/ Del(f) \/ CloseFun(f)

Timer(t) == Expire(t) \/ WakeSleeper(t) \/ Fire(t) \/ CancelEvent(t)

Next ==
  \/ \E f \in Fibers : Fiber(f)
  \/ \E t \in timers : Timer(t)
  \/ \E fd \in Fds, e \in Events : Report(fd, e)
  \/ World

Spec == Init /\ [][Next]_vars

\* Threads run fibers that can run, timers run out, and epoll_wait() reports;
\* what the peers do is not promised.
FairSpec ==
  /\ Spec
  /\ \A f \in Fibers : WF_vars(Fiber(f))
  /\ \A f \in Fibers : WF_vars(\E t \in timers : t.fiber = f /\ Timer(t))
  /\ \A fd \in Fds, e \in Events : WF_vars(Report(fd, e))

-----------------------------------------------------------------------------
(* Properties. *)

\* The types of the variables.
TypeOK ==
  /\ pc \in [Fibers -> {"call", "get", "create", "raw", "fun", "arm", "add", "wait", "back", "test",
                        "sockopt", "del", "close"}]
  /\ \A f \in Fibers : ip[f] \in 1..(Len(program[f]) + 1)
  /\ own \in [Fibers -> Fds \union {None}]
  /\ timed \in [Fibers -> BOOLEAN] /\ cancelled \in [Fibers -> BOOLEAN]
  /\ scheduled \in [Fibers -> Nat]
  /\ reg \in [Fds -> [Events -> Fibers \union {None}]] /\ epoll \in [Fds -> BOOLEAN]
  /\ ctx \in [Fds -> [user : BOOLEAN, READ : BOOLEAN, WRITE : BOOLEAN] \union {None}]
  /\ file \in [Fds -> {"closed", "new", "connecting", "connected", "refused", "listening"}]
  /\ readable \in [Fds -> 0..MaxReadable] /\ blocking \in [Fds -> BOOLEAN] /\ room \in [Fds -> BOOLEAN]
  /\ \A t \in timers : t.fiber \in Fibers /\ t.at \in {"armed", "expired", "locked"}

Wakers(f) ==
  scheduled[f]
  + Cardinality({w \in Fds \X Events : reg[w[1]][w[2]] = f})
  + Cardinality({t \in timers : t.fiber = f /\ t.event = "SLEEP"})

\* A fiber that yielded in a hooked call has exactly one thing that will resume
\* it - its event, its sleep timer, or an entry in the list of the scheduler -
\* and a fiber that runs has none: no late timer, report or close() schedules a
\* fiber a second time, and none resumes it in the middle of a later call.
OneWaker ==
  \A f \in Fibers : Wakers(f) = IF pc[f] = "wait" THEN 1 ELSE 0

\* A call with a timeout waits with its timer pending, unless the timer ran
\* before the event was added (hook.cc:152-164).
TimerGuards ==
  \A f \in Fibers :
    pc[f] = "wait" /\ Op(f) # "sleep" /\ timed[f] /\ ~cancelled[f]
      => \/ scheduled[f] > 0
         \/ \E t \in timers : t.fiber = f /\ t.call = ip[f] /\ t.at \in {"armed", "expired"}

\* A descriptor from socket() or accept() finds no FdCtx of an earlier
\* descriptor with its number, with that one's timeouts and flags: close()
\* deletes it before the kernel can give the number out again.
FreshCtx ==
  \A f \in Fibers : pc[f] \in {"get", "create"} => ctx[own[f]] = None

\* f waits for e of fd, and whether epoll can still report it.
WaitsFor(f, fd, e) == reg[fd][e] = f
Stranded(f) == \E fd \in Fds, e \in Events : WaitsFor(f, fd, e) /\ ~epoll[fd]

\* A call that waits for a descriptor of its own that is ready returns, through
\* the report of epoll, a retry and a timer that may run out at any moment,
\* unless an assertion ends the program.
ReadyReturns ==
  \A f \in Fibers :
    (\E fd \in Fds \ {Listening}, e \in Events : WaitsFor(f, fd, e) /\ Ready(fd, e))
      ~> (pc[f] = "call" \/ aborted)

\* The timer of f's call has run before its event is added.
Outrun(f) == pc[f] = "add" /\ cancelled[f]

\* A call that waits with its timer pending returns, whether or not the
\* descriptor becomes ready, unless epoll lost the descriptor to a close(), or the
\* call was resumed early, by a timer meant for an earlier descriptor with its
\* number, and is outrun by its timer when it tries again.
TimedReturns ==
  \A f \in Fibers :
    (timed[f] /\ ~cancelled[f] /\ \E fd \in Fds, e \in Events : WaitsFor(f, fd, e))
      ~> (pc[f] = "call" \/ aborted \/ Stranded(f) \/ Outrun(f))

\* sleep() ends: a program has finitely many calls of it, and nobody stays in one.
SleepsEnd == []<>(aborted \/ \A f \in Fibers : ~(pc[f] = "wait" /\ Op(f) = "sleep"))

\* connect() returns 0 for a connection that is established (hook.cc:389-390).
ConnectSound ==
  [][\A f \in Fibers :
       pc[f] = "sockopt" /\ pc'[f] = "call" /\ ret'[f] = "ok" => file[Fd(f)] = "connected"]_vars

\* A call with a timeout never waits without a timer: when the timer runs out
\* the event is cancelled and the fiber resumed (hook.cc:148-149).
NeverUntimed ==
  \A f \in Fibers :
    timed[f] /\ (\E fd \in Fds, e \in Events : WaitsFor(f, fd, e))
      => \E t \in timers : t.fiber = f /\ t.call = ip[f]
=============================================================================
