------------------------------ MODULE TcpServer ------------------------------
(***************************************************************************)
(* TcpServer (tcp_server.cc) on the hooked calls of Hook: the loop of      *)
(* startAccept() over a listening socket, handleClient() of a subclass,    *)
(* and stop(), whose task runs beside them on another thread.  Programs    *)
(* without these three are those of Hook.                                  *)
(***************************************************************************)
EXTENDS Hook

VARIABLES
  m_isStop,
  loop,         \* of startAccept(): the test of m_isStop, the call, or its end
  clients       \* the sockets that handleClient() was scheduled with

serverVars == <<vars, m_isStop, loop, clients>>
serverFrame == <<m_isStop, loop, clients>>

Step(op, fd) == [op |-> op, on |-> fd, arg |-> FALSE]
startAccept == <<Step("accept", Listening)>>
stop == <<Step("cancelAll", Listening), Step("close", Listening)>>
handleClient == <<Step("read", "own"), Step("close", "own")>>

Acceptors == {f \in Fibers : program[f] = startAccept}
Stoppers == {f \in Fibers : program[f] = stop}
Handlers == {f \in Fibers : program[f] = handleClient}

\* start() was called.
ServerInit ==
  /\ Init
  /\ m_isStop = FALSE
  /\ loop = [f \in Fibers |-> "test"]
  /\ clients = {}

\* Mutant: while(true)
TestStopNever(f) ==
  /\ loop[f] = "test" /\ f \in Acceptors
  /\ loop' = [loop EXCEPT ![f] = "accept"]
  /\ UNCHANGED <<vars, m_isStop, clients>>
\* while(!m_isStop)
TestStop(f) ==
  /\ loop[f] = "test" /\ f \in Acceptors
  /\ loop' = [loop EXCEPT ![f] = IF m_isStop THEN "ended" ELSE "accept"]
  /\ UNCHANGED <<vars, m_isStop, clients>>

\* Socket::init() takes a descriptor that the FdManager knows.
init(fd) == ctx[fd] # None

\* Mutant: the client is declared before the loop, and passed on once more after
\* an accept() that failed.
AcceptedAgain(f) ==
  /\ loop[f] = "accept" /\ ip[f] = 2 /\ f \in Acceptors
  /\ ip' = [ip EXCEPT ![f] = 1]
  /\ IF own[f] # None /\ init(own[f])
     THEN /\ ctx' = [ctx EXCEPT ![own[f]].READ = TRUE]
          /\ clients' = clients \union {own[f]}
     ELSE UNCHANGED <<ctx, clients>>
  /\ loop' = [loop EXCEPT ![f] = "test"]
  /\ UNCHANGED <<own, m_isStop, pc, ret, timed, cancelled, scheduled, timers, events, kernel, frame>>
\* ::accept() has returned, and Socket::accept() returns the client unless init()
\* fails, which leaks the descriptor; the client gets its timeout and is passed on.
Accepted(f) ==
  /\ loop[f] = "accept" /\ ip[f] = 2 /\ f \in Acceptors
  /\ ip' = [ip EXCEPT ![f] = 1]
  /\ own' = [own EXCEPT ![f] = None]
  /\ IF ret[f] = "ok" /\ init(own[f])
     THEN /\ ctx' = [ctx EXCEPT ![own[f]].READ = TRUE]
          /\ clients' = clients \union {own[f]}
     ELSE UNCHANGED <<ctx, clients>>
  /\ loop' = [loop EXCEPT ![f] = "test"]
  /\ UNCHANGED <<m_isStop, pc, ret, timed, cancelled, scheduled, timers, events, kernel, frame>>

\* A fiber begins handleClient().
Handle(f) ==
  /\ own[f] = None /\ ip[f] = 1 /\ f \in Handlers
  /\ \E fd \in clients :
       /\ own' = [own EXCEPT ![f] = fd]
       /\ clients' = clients \ {fd}
  /\ UNCHANGED <<m_isStop, loop, pc, ip, ret, timed, cancelled, scheduled, timers, events, ctx, kernel, frame>>

\* stop() on any thread: its task can run from now on.
Stop ==
  /\ Stoppers # {} /\ ~m_isStop
  /\ m_isStop' = TRUE
  /\ UNCHANGED <<vars, loop, clients>>

\* Socket::cancelAll()
SocketCancelAll(f) ==
  /\ At(f, "call") /\ Op(f) = "cancelAll"
  /\ Trigger(Fd(f), Events)
  /\ Return(f, "ok")
  /\ UNCHANGED <<own, timed, cancelled, timers, ctx, kernel, frame>>

\* What the three run in when they run.
Running(f) ==
  /\ f \in Acceptors => loop[f] = "accept"
  /\ f \in Stoppers => m_isStop

ServerFiber(f) ==
  \/ Running(f) /\ (Fiber(f) \/ SocketCancelAll(f)) /\ UNCHANGED serverFrame
  \/ TestStop(f) \/ Accepted(f) \/ Handle(f)

ServerNext ==
  \/ \E f \in Fibers : ServerFiber(f)
  \/ (\E t \in timers : Timer(t)) /\ UNCHANGED serverFrame
  \/ (\E fd \in Fds, e \in Events : Report(fd, e)) /\ UNCHANGED serverFrame
  \/ World /\ UNCHANGED serverFrame
  \/ Stop

ServerSpec == ServerInit /\ [][ServerNext]_serverVars

\* The fairness of Hook; stop() need not be called.
FairServerSpec ==
  /\ ServerSpec
  /\ \A f \in Fibers : WF_serverVars(ServerFiber(f))
  /\ \A f \in Fibers : WF_serverVars((\E t \in timers : t.fiber = f /\ Timer(t)) /\ UNCHANGED serverFrame)
  /\ \A fd \in Fds, e \in Events : WF_serverVars(Report(fd, e) /\ UNCHANGED serverFrame)

-----------------------------------------------------------------------------
(* Properties. *)

\* f has the socket fd.
Holds(f, fd) == own[f] = fd /\ ip[f] <= (IF f \in Handlers THEN Len(handleClient) ELSE 2)

\* Every connection that a server accepted is with exactly one of the loop that
\* accepted it, the tasks of the scheduler and a handler, also when stop() comes
\* between accept() and schedule(): none is leaked or handled twice.
ClientsOnce ==
  Acceptors # {} =>
    \A fd \in Fds : file[fd] = "connected" =>
      Cardinality({f \in Fibers : Holds(f, fd)}) + (IF fd \in clients THEN 1 ELSE 0) = 1

Ended == \A f \in Acceptors : loop[f] = "ended"

\* After stop() every accept loop ends, unless it added its event once more
\* between the last cancelAll() and the system call of close().
LoopsEnd == []<>(m_isStop => Ended \/ aborted \/ \E f \in Acceptors : Stranded(f))

\* After stop() every accept loop ends (tcp_server.cc:85).
ServerStops == []<>(m_isStop => Ended \/ aborted)
=============================================================================
