----------------------------- MODULE HookProofs -----------------------------
(* Fibers in hooked calls and in a TcpServer, for any number of fibers and   *)
(* descriptors: a fiber that waits has one waker, and a call with a timeout  *)
(* waits with its timer.                                                     *)
EXTENDS TcpServer, TLAPS

Places == {"call", "get", "create", "raw", "fun", "arm", "add", "wait", "back", "test",
           "sockopt", "del", "close"}
TimerRecords == [fiber : Fibers, call : Nat, fd : Fds \union {None},
                 event : Events \union {"SLEEP"}, at : {"armed", "expired", "locked"}]

\* The types the arguments about wakers rest on, and which calls have which places.
Types ==
  /\ program \in Programs
  /\ pc \in [Fibers -> Places]
  /\ ip \in [Fibers -> Nat \ {0}]
  /\ own \in [Fibers -> Fds \union {None}]
  /\ scheduled \in [Fibers -> Nat]
  /\ DOMAIN timed = Fibers /\ cancelled \in [Fibers -> BOOLEAN]
  /\ reg \in [Fds -> [Events -> Fibers \union {None}]]
  /\ timers \subseteq TimerRecords
  /\ \A t \in timers : /\ t.event # "SLEEP" => t.fd \in Fds
                       /\ t.at = "locked" => t.event # "SLEEP"
InCall(f) ==
  /\ pc[f] # "call" => ip[f] <= Len(program[f])
  /\ pc[f] \in {"arm", "add"} => Op(f) \in IoOps \union {"connect"}
  /\ pc[f] \in {"del", "close"} => Op(f) = "close"

\* What can wake a fiber: nothing, or one thing.
Unregistered(f) == \A fd \in Fds, e \in Events : reg[fd][e] # f
RegisteredOnce(f) ==
  \E fd \in Fds, e \in Events :
    \A fd2 \in Fds, e2 \in Events : reg[fd2][e2] = f <=> fd2 = fd /\ e2 = e
Sleeper(f, t) == t.fiber = f /\ t.event = "SLEEP"
Sleepless(f) == \A t \in timers : ~Sleeper(f, t)
SleepsOnce(f) == \E t \in timers : \A u \in timers : Sleeper(f, u) <=> u = t
Woken(f) ==
  \/ pc[f] # "wait" /\ scheduled[f] = 0 /\ Unregistered(f) /\ Sleepless(f)
  \/ pc[f] = "wait" /\ scheduled[f] = 1 /\ Unregistered(f) /\ Sleepless(f)
  \/ pc[f] = "wait" /\ scheduled[f] = 0 /\ RegisteredOnce(f) /\ Sleepless(f)
  \/ pc[f] = "wait" /\ scheduled[f] = 0 /\ Unregistered(f) /\ SleepsOnce(f)

\* The timer of a call is pending from Arm() on.
Guard(f, t) ==
  t.fiber = f /\ t.call = ip[f] /\ t.event # "SLEEP" /\ t.at \in {"armed", "expired"}
Guarded(f) ==
  /\ pc[f] = "add" \/ (pc[f] = "wait" /\ Op(f) # "sleep")
  /\ timed[f] /\ ~cancelled[f]
  => \/ scheduled[f] > 0
     \/ \E t \in timers : Guard(f, t)

Inv == Types /\ \A f \in Fibers : InCall(f) /\ Woken(f) /\ Guarded(f)

-----------------------------------------------------------------------------
(* How many elements the empty set and a set of one have. *)

\* The empty set has no element.
LEMMA CardEmpty == Cardinality({}) = 0
<1> DEFINE Counts(c) == c = [T \in SUBSET {} |-> IF T = {} THEN 0 ELSE 1 + c[T \ {CHOOSE x : x \in T}]]
<1>1. Counts([T \in SUBSET {} |-> 0])
  OBVIOUS
<1>2. \A c : Counts(c) => c[{}] = 0
  OBVIOUS
<1>3. Cardinality({}) = (CHOOSE c : Counts(c))[{}]
  BY Zenon DEF Cardinality
<1> HIDE DEF Counts
<1>4. Counts(CHOOSE c : Counts(c))
  BY <1>1, Zenon
<1> QED  BY <1>2, <1>3, <1>4, Zenon

\* A set of one has one.
LEMMA CardOne == ASSUME NEW a  PROVE Cardinality({a}) = 1
<1> DEFINE Counts(c) == c = [T \in SUBSET {a} |-> IF T = {} THEN 0 ELSE 1 + c[T \ {CHOOSE x : x \in T}]]
           one == [T \in SUBSET {a} |-> IF T = {} THEN 0 ELSE 1]
<1>1. ASSUME NEW T \in SUBSET {a}, T # {}  PROVE T \ {CHOOSE x : x \in T} = {}
  BY <1>1
<1>2. Counts(one)
  <2>1. \A T \in SUBSET {a} : one[T] = IF T = {} THEN 0 ELSE 1 + one[T \ {CHOOSE x : x \in T}]
    BY <1>1
  <2> QED  BY <2>1, Zenon
<1>3. \A c : Counts(c) => c[{a}] = 1
  <2>1. {a} \ {CHOOSE x : x \in {a}} = {}
    OBVIOUS
  <2>2. \A c : Counts(c) => c[{}] = 0 /\ c[{a}] = 1 + c[{a} \ {CHOOSE x : x \in {a}}]
    OBVIOUS
  <2>3. 1 + 0 = 1
    OBVIOUS
  <2> QED  BY <2>1, <2>2, <2>3, Zenon
<1>4. Cardinality({a}) = (CHOOSE c : Counts(c))[{a}]
  BY Zenon DEF Cardinality
<1> HIDE DEF Counts, one
<1>5. Counts(CHOOSE c : Counts(c))
  BY <1>2, Zenon
<1> QED  BY <1>3, <1>4, <1>5, Zenon

-----------------------------------------------------------------------------
(* Steps that concern one fiber, and the calls of the IOManager. *)

\* A fiber whose wakers and place in yielding do not change keeps them.
SameWakers(f) ==
  /\ (pc'[f] = "wait") <=> (pc[f] = "wait")
  /\ scheduled'[f] = scheduled[f]
  /\ \A fd \in Fds, e \in Events : (reg'[fd][e] = f) <=> (reg[fd][e] = f)
  /\ \A t : Sleeper(f, t) => (t \in timers' <=> t \in timers)

\* What can wake a fiber stays as it is.
LEMMA WokenKept ==
  ASSUME NEW f \in Fibers, Woken(f), SameWakers(f)  PROVE Woken(f)'
<1>1. Unregistered(f)' <=> Unregistered(f)
  BY Zenon DEF SameWakers, Unregistered
<1>2. RegisteredOnce(f) => RegisteredOnce(f)'
  BY Zenon DEF SameWakers, RegisteredOnce
<1>3. Sleepless(f)' <=> Sleepless(f)
  BY Zenon DEF SameWakers, Sleepless, Sleeper
<1>4. SleepsOnce(f) => SleepsOnce(f)'
  BY DEF SameWakers, SleepsOnce, Sleeper
<1> QED  BY <1>1, <1>2, <1>3, <1>4, Zenon DEF SameWakers, Woken

\* A call stays guarded while its timer does, or is cancelled or resumed.
SameGuards(f) ==
  /\ pc'[f] = pc[f] /\ ip'[f] = ip[f] /\ timed'[f] = timed[f] /\ program' = program
  /\ scheduled[f] > 0 => scheduled'[f] > 0
  /\ cancelled'[f] \/ (/\ cancelled'[f] = cancelled[f]
                       /\ \A t \in timers : Guard(f, t) => \E u \in timers' : Guard(f, u)')

\* A call keeps its timer while its guards do not change.
LEMMA GuardedKept ==
  ASSUME NEW f \in Fibers, Guarded(f), SameGuards(f)  PROVE Guarded(f)'
<1>1. CASE cancelled'[f]
  BY <1>1, Zenon DEF Guarded
<1>2. CASE cancelled'[f] = cancelled[f] /\ \A t \in timers : Guard(f, t) => \E u \in timers' : Guard(f, u)'
  BY <1>2, Zenon DEF SameGuards, Guarded, Op
<1> QED  BY <1>1, <1>2, Zenon DEF SameGuards

\* A call that has not yielded, and in which no step adds an event or a timer.
Quiet(f) ==
  /\ pc[f] # "wait" /\ ip[f] <= Len(program[f])
  /\ DOMAIN timed' = Fibers
  /\ own' \in [Fibers -> Fds \union {None}] /\ cancelled' \in [Fibers -> BOOLEAN]
  /\ \A g \in Fibers \ {f} : timed'[g] = timed[g] /\ cancelled'[g] = cancelled[g]
  /\ UNCHANGED <<program, scheduled, reg, timers>>
Moves(f) ==
  \/ \E v : Return(f, v)
  \/ \E p \in Places \ {"wait", "add"} :
       /\ Goto(f, p)
       /\ p = "arm" => Op(f) \in IoOps \union {"connect"}
       /\ p \in {"del", "close"} => Op(f) = "close"

\* A fiber that goes on or returns from a call moves alone.
LEMMA MoveTypes ==
  ASSUME Types, NEW f \in Fibers, NEW p \in Places, NEW v, Goto(f, p) \/ Return(f, v)
  PROVE  /\ pc' \in [Fibers -> Places] /\ ip' \in [Fibers -> Nat \ {0}]
         /\ (pc'[f] = p /\ ip' = ip) \/ pc'[f] = "call"
         /\ \A g \in Fibers \ {f} : pc'[g] = pc[g] /\ ip'[g] = ip[g]
BY DEF Types, Goto, Return, Places

\* A step of a fiber that no waker and no timer is concerned with preserves the
\* invariant.
LEMMA SilentInv ==
  ASSUME Inv, NEW f \in Fibers, Quiet(f), Moves(f)  PROVE Inv'
<1>0. /\ pc'[f] \notin {"wait", "add"}
      /\ pc'[f] # "call" => ip'[f] = ip[f]
      /\ pc'[f] = "arm" => Op(f) \in IoOps \union {"connect"}
      /\ pc'[f] \in {"del", "close"} => Op(f) = "close"
      /\ pc' \in [Fibers -> Places] /\ ip' \in [Fibers -> Nat \ {0}]
      /\ \A g \in Fibers \ {f} : pc'[g] = pc[g] /\ ip'[g] = ip[g]
  BY DEF Inv, Types, Moves, Return, Goto, Places
<1>1. Types'
  BY <1>0, Zenon DEF Inv, Types, Quiet
<1>2. ASSUME NEW g \in Fibers  PROVE InCall(g)' /\ Woken(g)' /\ Guarded(g)'
  <2>1. SameWakers(g)
    BY <1>0, Zenon DEF Inv, Quiet, SameWakers
  <2>2. InCall(g)'
    BY <1>0, Zenon DEF Inv, Types, Quiet, InCall, Op
  <2>3. Guarded(g)'
    <3>1. CASE g = f
      BY <1>0, <3>1, Zenon DEF Guarded
    <3>2. CASE g # f
      <4>1. SameGuards(g)
        BY <1>0, <3>2, Zenon DEF Quiet, SameGuards, Guard
      <4> QED  BY <4>1, GuardedKept DEF Inv
    <3> QED  BY <3>1, <3>2
  <2> QED  BY <2>1, <2>2, <2>3, WokenKept DEF Inv
<1> QED  BY <1>1, <1>2 DEF Inv

\* Trigger() schedules a fiber for each of its events that it takes away.
LEMMA TriggerWoken ==
  ASSUME Types, NEW f \in Fibers, Woken(f),
         NEW fd \in Fds, NEW es \in SUBSET Events, Trigger(fd, es),
         (pc'[f] = "wait") <=> (pc[f] = "wait"),
         \A t : Sleeper(f, t) => (t \in timers' <=> t \in timers)
  PROVE  Woken(f)' /\ scheduled'[f] \in Nat /\ scheduled'[f] >= scheduled[f]
<1>1. CASE ~epoll[fd]
  <2>1. SameWakers(f) /\ scheduled' = scheduled
    BY <1>1, Zenon DEF Trigger, SameWakers
  <2> QED  BY <2>1, WokenKept DEF Types
<1>2. CASE epoll[fd]
  <2> DEFINE mine == {e \in es : reg[fd][e] = f}
  <2>1. scheduled'[f] = scheduled[f] + Cardinality(mine)
    BY <1>2, Zenon DEF Trigger
  <2>2. \A fd2 \in Fds, e2 \in Events :
          (reg'[fd2][e2] = f) <=> (reg[fd2][e2] = f /\ ~(fd2 = fd /\ e2 \in es))
    BY <1>2, HookAssumption DEF Trigger, Types
  <2>3. Sleepless(f)' <=> Sleepless(f)
    BY DEF Sleepless, Sleeper
  <2>4. CASE Unregistered(f)
    <3>1. mine = {} /\ Unregistered(f)'
      BY <2>2, <2>4, Zenon DEF Unregistered
    <3>2. scheduled'[f] = scheduled[f]
      <4>1. Cardinality(mine) = 0
        BY <3>1, CardEmpty, Zenon
      <4> QED  BY <2>1, <4>1 DEF Types
    <3>3. SameWakers(f)
      BY <2>2, <2>4, <3>2, Zenon DEF SameWakers, Unregistered
    <3> QED  BY <3>2, <3>3, WokenKept DEF Types
  <2>5. CASE RegisteredOnce(f)
    <3>1. PICK fd1 \in Fds, e1 \in Events :
            \A fd2 \in Fds, e2 \in Events : reg[fd2][e2] = f <=> fd2 = fd1 /\ e2 = e1
      BY <2>5, Zenon DEF RegisteredOnce
    <3>2. pc[f] = "wait" /\ scheduled[f] = 0 /\ Sleepless(f)
      BY <3>1, Zenon DEF Woken, Unregistered
    <3>3. CASE fd1 = fd /\ e1 \in es
      <4>1. mine = {e1} /\ Unregistered(f)'
        BY <2>2, <3>1, <3>3 DEF Unregistered
      <4>2. scheduled'[f] = 1
        <5>1. Cardinality(mine) = 1
          BY <4>1, CardOne, Zenon
        <5> QED  BY <2>1, <3>2, <5>1
      <4> QED  BY <2>3, <3>2, <4>1, <4>2 DEF Woken
    <3>4. CASE ~(fd1 = fd /\ e1 \in es)
      <4>1. mine = {}
        BY <3>1, <3>4, Zenon
      <4>2. scheduled'[f] = scheduled[f]
        BY <2>1, <3>2, <4>1, CardEmpty
      <4>3. SameWakers(f)
        BY <2>2, <3>1, <3>4, <4>2 DEF SameWakers
      <4> QED  BY <3>2, <4>2, <4>3, WokenKept
    <3> QED  BY <3>3, <3>4, Zenon
  <2> QED  BY <2>4, <2>5, Zenon DEF Woken
<1> QED  BY <1>1, <1>2, Zenon

\* triggerEvent() for some events of a descriptor preserves the invariant: a
\* fiber it schedules loses the registration that would have woken it.
LEMMA TriggerInv ==
  ASSUME Inv, NEW fd \in Fds, NEW es \in SUBSET Events, Trigger(fd, es),
         pc' \in [Fibers -> Places], ip' \in [Fibers -> Nat \ {0}],
         UNCHANGED <<program, own, timed, cancelled>>,
         timers' \subseteq timers, \A t \in timers : t.at # "locked" => t \in timers',
         \A f \in Fibers :
           \/ pc'[f] = pc[f] /\ ip'[f] = ip[f]
           \/ /\ pc[f] = "call" /\ pc'[f] \in {"call", "del"}
              /\ pc'[f] = "del" => ip'[f] = ip[f] /\ ip[f] <= Len(program[f]) /\ Op(f) = "close"
  PROVE  Inv'
<1>1. ASSUME NEW f \in Fibers
      PROVE  /\ InCall(f)' /\ Woken(f)' /\ Guarded(f)'
             /\ scheduled'[f] \in Nat
  <2>1. /\ (pc'[f] = "wait") <=> (pc[f] = "wait")
        /\ \A t : Sleeper(f, t) => (t \in timers' <=> t \in timers)
    BY Zenon DEF Inv, Types, Sleeper
  <2>2. Woken(f)' /\ scheduled'[f] \in Nat /\ scheduled'[f] >= scheduled[f]
    BY <2>1, TriggerWoken, Zenon DEF Inv
  <2>3. InCall(f)'
    BY Zenon DEF Inv, InCall, Op
  <2>4. CASE pc'[f] = pc[f] /\ ip'[f] = ip[f]
    <3>1. SameGuards(f)
      BY <2>2, <2>4 DEF Inv, Types, SameGuards, Guard
    <3> QED  BY <2>2, <2>3, <3>1, GuardedKept, Zenon DEF Inv
  <2>5. CASE pc'[f] \in {"call", "del"}
    BY <2>2, <2>3, <2>5, Zenon DEF Guarded
  <2> QED  BY <2>4, <2>5, Zenon
<1>2. scheduled' \in [Fibers -> Nat]
  <2>1. CASE epoll[fd]
    BY <1>1, <2>1, Zenon DEF Trigger
  <2>2. CASE ~epoll[fd]
    BY <2>2, Zenon DEF Trigger, Inv, Types
  <2> QED  BY <2>1, <2>2, Zenon
<1>3. reg' \in [Fds -> [Events -> Fibers \union {None}]]
  <2>1. CASE epoll[fd]
    <3>1. [e \in Events |-> IF e \in es THEN None ELSE reg[fd][e]] \in [Events -> Fibers \union {None}]
      BY DEF Inv, Types
    <3> QED  BY <2>1, <3>1, Zenon DEF Trigger, Inv, Types
  <2>2. CASE ~epoll[fd]
    BY <2>2, Zenon DEF Trigger, Inv, Types
  <2> QED  BY <2>1, <2>2, Zenon
<1>4. Types'
  BY <1>2, <1>3, Zenon DEF Inv, Types
<1> QED  BY <1>1, <1>4, Zenon DEF Inv

\* The descriptor of a call is one.
LEMMA FdOf ==
  ASSUME Types, NEW f \in Fibers, NEW place, At(f, place), Op(f) \notin {"socket", "sleep"}
  PROVE  Fd(f) \in Fds
BY HookAssumption DEF Types, At, Fd

\* The steps of the hooked calls that neither wait nor wake are silent.
LEMMA SilentSteps ==
  ASSUME Inv, NEW f \in Fibers,
         \/ Socket(f) \/ Get(f) \/ Create(f) \/ Enter(f) \/ Fun(f) \/ ConnectFun(f) \/ Test(f)
         \/ SockOpt(f) \/ SetSockOpt(f) \/ SetNonblock(f) \/ Del(f) \/ CloseFun(f)
         \/ (CancelAll(f) /\ ctx[Fd(f)] = None)
  PROVE  Quiet(f) /\ Moves(f)
<1>0. /\ own \in [Fibers -> Fds \union {None}] /\ cancelled \in [Fibers -> BOOLEAN]
      /\ DOMAIN timed = Fibers /\ InCall(f)
  BY Zenon DEF Inv, Types
<1>1. CASE Socket(f)
  <2>1. Quiet(f)
    BY <1>0, <1>1 DEF Socket, Quiet, At, NewFile, frame, events
  <2>2. Moves(f)
    <3>1. (\E v : Return(f, v)) \/ Goto(f, "get")
      BY <1>1, Zenon DEF Socket
    <3> QED  BY <3>1 DEF Moves, Places
  <2> QED  BY <2>1, <2>2
<1>2. CASE Get(f) \/ Create(f)
  <2>1. Quiet(f)
    BY <1>0, <1>2, Zenon DEF Get, Create, Quiet, At, frame, events
  <2>2. Moves(f)
    BY <1>2 DEF Get, Create, Moves, Places
  <2> QED  BY <2>1, <2>2
<1>3. CASE Enter(f)
  <2>1. Quiet(f)
    BY <1>0, <1>3, Zenon DEF Enter, Quiet, At, frame, events
  <2>2. Moves(f)
    BY <1>3 DEF Enter, Moves, Places
  <2> QED  BY <2>1, <2>2
<1>4. CASE Fun(f)
  <2>1. SystemCall(f, Fd(f)) /\ Op(f) \in IoOps
    BY <1>4, Zenon DEF Fun
  <2>2. own' \in [Fibers -> Fds \union {None}]
    BY <1>0, <2>1, Zenon DEF SystemCall, NewFile
  <2>3. Quiet(f)
    BY <1>0, <1>4, <2>2, Zenon DEF Fun, Quiet, At, frame, events
  <2>4. Moves(f)
    <3>1. (\E v : Return(f, v)) \/ Goto(f, "get") \/ Goto(f, "arm")
      BY <2>1, Zenon DEF SystemCall
    <3> QED  BY <2>1, <3>1 DEF Moves, Places
  <2> QED  BY <2>3, <2>4
<1>7. CASE ConnectFun(f)
  <2>1. Connect(f, Fd(f)) /\ Op(f) = "connect"
    BY <1>7, Zenon DEF ConnectFun
  <2>2. Quiet(f)
    BY <1>0, <1>7, Zenon DEF ConnectFun, Quiet, At, frame, events
  <2>3. Moves(f)
    BY <2>1 DEF Connect, Moves, Places
  <2> QED  BY <2>2, <2>3
<1>5. CASE Test(f) \/ SockOpt(f) \/ SetSockOpt(f) \/ SetNonblock(f)
  <2>1. Quiet(f)
    BY <1>0, <1>5, Zenon DEF Test, SockOpt, SetSockOpt, SetNonblock, Quiet, At, frame, events
  <2>2. Moves(f)
    BY <1>5 DEF Test, SockOpt, SetSockOpt, SetNonblock, Moves, Places
  <2> QED  BY <2>1, <2>2
<1>6. CASE Del(f) \/ CloseFun(f) \/ (CancelAll(f) /\ ctx[Fd(f)] = None)
  <2>1. Quiet(f)
    BY <1>0, <1>6, Zenon DEF Del, CloseFun, CancelAll, Quiet, At, frame, events
  <2>2. Moves(f)
    BY <1>0, <1>6, Zenon DEF Del, CloseFun, CancelAll, Moves, Places, At, InCall
  <2> QED  BY <2>1, <2>2
<1> QED  BY <1>1, <1>2, <1>3, <1>4, <1>5, <1>6, <1>7, Zenon

\* A step of f that leaves the others alone.
Local(f) ==
  /\ \A g \in Fibers \ {f} :
       /\ pc'[g] = pc[g] /\ ip'[g] = ip[g] /\ timed'[g] = timed[g] /\ cancelled'[g] = cancelled[g]
       /\ scheduled'[g] = scheduled[g]
       /\ \A fd \in Fds, e \in Events : (reg'[fd][e] = g) <=> (reg[fd][e] = g)
  /\ \A t : t.fiber # f => (t \in timers' <=> t \in timers)
  /\ program' = program

\* A step that concerns the wakers and the timers of one fiber preserves the
\* invariant if it does for that fiber.
LEMMA LocalInv ==
  ASSUME Inv, NEW f \in Fibers, Local(f), Types', InCall(f)', Woken(f)', Guarded(f)'  PROVE Inv'
<1> SUFFICES ASSUME NEW g \in Fibers, g # f  PROVE InCall(g)' /\ Woken(g)' /\ Guarded(g)'
  BY DEF Inv
<1>1. SameWakers(g)
  BY Zenon DEF Local, SameWakers, Sleeper
<1>2. SameGuards(g)
  BY Zenon DEF Local, SameGuards, Guard
<1>3. InCall(g)'
  BY DEF Inv, Local, InCall, Op
<1> QED  BY <1>1, <1>2, <1>3, WokenKept, GuardedKept DEF Inv

\* A call waits for READ or WRITE.
LEMMA EventOf == \A f : Event(f) \in Events
BY DEF Event, Events

\* do_io() sets its timer: the invariant is preserved.
LEMMA ArmInv ==
  ASSUME Inv, NEW f \in Fibers, Arm(f)  PROVE Inv'
<1>0. PICK new : new = [fiber |-> f, call |-> ip[f], fd |-> Fd(f), event |-> Event(f), at |-> "armed"]
  BY Zenon
<1>1. /\ InCall(f) /\ Woken(f) /\ Types /\ ip[f] \in Nat
      /\ pc[f] = "arm" /\ Op(f) \in IoOps \union {"connect"} /\ ip[f] <= Len(program[f])
  BY Zenon DEF Inv, Types, InCall, Arm, At
<1>2. Fd(f) \in Fds
  BY <1>1, FdOf, Zenon DEF Arm, IoOps
<1>3. new \in TimerRecords /\ new.event \in Events /\ new.fd \in Fds /\ new.at = "armed"
  BY <1>0, <1>1, <1>2, EventOf, Zenon DEF TimerRecords
<1>4. /\ timers' = IF timed[f] THEN timers \union {new} ELSE timers
      /\ pc' = [pc EXCEPT ![f] = "add"]
      /\ UNCHANGED <<program, ip, own, timed, cancelled, scheduled, reg>>
  BY <1>0, Zenon DEF Arm, Goto, events, frame
<1>5. Types'
  BY <1>1, <1>3, <1>4, Zenon DEF Types, Places
<1>6. InCall(f)'
  BY <1>1, <1>4, Zenon DEF InCall, Op, Types
<1>7. SameWakers(f)
  BY <1>1, <1>3, <1>4, Zenon DEF Types, SameWakers, Sleeper, Events
<1>8. timed[f] => Guard(f, new)'
  BY <1>0, <1>3, <1>4, Zenon DEF Guard, Events
<1>9. Guarded(f)'
  BY <1>1, <1>4, <1>8, Zenon DEF Guarded, Types
<1>10. Local(f)
  BY <1>0, <1>1, <1>4 DEF Local, Types
<1> QED  BY <1>1, <1>5, <1>6, <1>7, <1>9, <1>10, WokenKept, LocalInv, Zenon

\* A step that leaves alone what the invariant is about preserves it.
LEMMA StutterInv ==
  ASSUME Inv, UNCHANGED <<program, pc, ip, own, timed, cancelled, scheduled, reg, timers>>  PROVE Inv'
<1>1. Types'
  BY Zenon DEF Inv, Types
<1>2. ASSUME NEW f \in Fibers  PROVE InCall(f)' /\ Woken(f)' /\ Guarded(f)'
  <2>1. InCall(f) /\ Woken(f) /\ Guarded(f)
    BY Zenon DEF Inv
  <2>2. InCall(f)'
    BY <2>1, Zenon DEF InCall, Op
  <2>3. SameWakers(f) /\ SameGuards(f)
    BY Zenon DEF SameWakers, SameGuards, Guard, Op
  <2> QED  BY <2>1, <2>2, <2>3, WokenKept, GuardedKept
<1> QED  BY <1>1, <1>2, Zenon DEF Inv

\* addEvent() registers the fiber, which yields, or fails, and the call returns:
\* the invariant is preserved.
LEMMA AddEventInv ==
  ASSUME Inv, NEW f \in Fibers, AddEvent(f)  PROVE Inv'
<1>1. /\ InCall(f) /\ Types /\ Fd(f) \in Fds /\ Event(f) \in Events
      /\ pc[f] = "add" /\ Op(f) \in IoOps \union {"connect"} /\ ip[f] <= Len(program[f])
      /\ Woken(f) /\ scheduled[f] = 0 /\ Unregistered(f) /\ Sleepless(f)
  BY FdOf, EventOf, Zenon DEF Inv, Types, InCall, AddEvent, At, Woken, IoOps
<1>2. UNCHANGED <<program, own, timed, cancelled, scheduled>>
  BY Zenon DEF AddEvent
<1>3. CASE aborted' /\ UNCHANGED <<pc, ip, ret, timers, events>>
  BY <1>2, <1>3, StutterInv DEF events
<1>4. CASE /\ timers' = timers \ Mine(f) /\ UNCHANGED events
           /\ IF Op(f) = "connect" THEN Goto(f, "sockopt") ELSE Return(f, "error")
  <2>1. /\ pc' \in [Fibers -> Places] /\ ip' \in [Fibers -> Nat \ {0}] /\ pc'[f] \in {"sockopt", "call"}
        /\ pc'[f] = "sockopt" => ip' = ip
        /\ \A g \in Fibers \ {f} : pc'[g] = pc[g] /\ ip'[g] = ip[g]
    <3>1. "sockopt" \in Places
      BY DEF Places
    <3> QED  BY <1>1, <1>4, <3>1, MoveTypes, Zenon
  <2>2. Types'
    BY <1>1, <1>2, <1>4, <2>1, Zenon DEF Types, events
  <2>3. InCall(f)' /\ Guarded(f)'
    BY <1>1, <1>2, <2>1, Zenon DEF InCall, Guarded
  <2>4. SameWakers(f)
    BY <1>1, <1>2, <1>4, <2>1, Zenon DEF SameWakers, events, Sleepless
  <2>5. Local(f)
    BY <1>1, <1>2, <1>4, <2>1, Zenon DEF Local, events, Mine
  <2> QED  BY <1>1, <2>2, <2>3, <2>4, <2>5, WokenKept, LocalInv, Zenon
<1>5. CASE /\ reg[Fd(f)][Event(f)] = None /\ reg' = [reg EXCEPT ![Fd(f)][Event(f)] = f]
           /\ Goto(f, "wait") /\ UNCHANGED timers
  <2>1. pc' = [pc EXCEPT ![f] = "wait"] /\ UNCHANGED <<ip, timers>>
    BY <1>5 DEF Goto
  <2>2. PICK fd \in Fds, e \in Events : fd = Fd(f) /\ e = Event(f)
    BY <1>1
  <2>3. \A fd2 \in Fds, e2 \in Events : reg'[fd2][e2] = IF fd2 = fd /\ e2 = e THEN f ELSE reg[fd2][e2]
    BY <1>1, <1>5, <2>2, Zenon DEF Types
  <2>4. reg[fd][e] = None /\ reg' \in [Fds -> [Events -> Fibers \union {None}]]
    BY <1>1, <1>5, <2>2, Zenon DEF Types
  <2>5. Types'
    BY <1>1, <1>2, <2>1, <2>4, Zenon DEF Types, Places
  <2>6. InCall(f)'
    BY <1>1, <1>2, <2>1, Zenon DEF InCall, Types
  <2>7. Woken(f)'
    <3>1. RegisteredOnce(f)'
      <4>1. \A fd2 \in Fds, e2 \in Events : (reg'[fd2][e2] = f) <=> (fd2 = fd /\ e2 = e)
        BY <1>1, <2>3 DEF Unregistered
      <4> QED  BY <4>1, Zenon DEF RegisteredOnce
    <3> QED  BY <1>1, <1>2, <2>1, <3>1, Zenon DEF Woken, Types, Sleepless, Sleeper
  <2>8. Guarded(f)'
    BY <1>1, <1>2, <2>1, Zenon DEF Inv, Guarded, Guard, Types
  <2>9. Local(f)
    BY <1>1, <1>2, <2>1, <2>3, <2>4, HookAssumption DEF Local, Types
  <2> QED  BY <2>5, <2>6, <2>7, <2>8, <2>9, LocalInv
<1> QED  BY <1>3, <1>4, <1>5, Zenon DEF AddEvent

\* A fiber that was scheduled runs on, and cancels its timer: the invariant is
\* preserved.
LEMMA ResumeInv ==
  ASSUME Inv, NEW f \in Fibers, Resume(f) \/ CancelTimer(f)  PROVE Inv'
<1>1. /\ InCall(f) /\ Types /\ Woken(f)
      /\ UNCHANGED <<program, own, timed, cancelled, reg>>
      /\ timers' = timers \ Mine(f) \/ timers' = timers
      /\ \A g \in Fibers \ {f} : scheduled'[g] = scheduled[g]
  BY Zenon DEF Inv, Types, Resume, CancelTimer, frame, events
<1>2. /\ pc' \in [Fibers -> Places] /\ ip' \in [Fibers -> Nat \ {0}] /\ pc'[f] \in {"call", "back", "test"}
      /\ pc'[f] # "call" => ip' = ip /\ ip[f] <= Len(program[f])
      /\ \A g \in Fibers \ {f} : pc'[g] = pc[g] /\ ip'[g] = ip[g]
  <2>1. "back" \in Places /\ "test" \in Places
    BY DEF Places
  <2> QED  BY <1>1, <2>1, MoveTypes, Zenon DEF Resume, CancelTimer, At
<1>3. Unregistered(f) /\ Sleepless(f) /\ scheduled'[f] = 0 /\ scheduled' \in [Fibers -> Nat]
  <2>1. scheduled \in [Fibers -> Nat]
    BY <1>1, Zenon DEF Types
  <2>2. CASE Resume(f)
    <3>1. scheduled[f] > 0 /\ scheduled' = [scheduled EXCEPT ![f] = @ - 1]
      BY <2>2, Zenon DEF Resume
    <3>2. scheduled[f] = 1 /\ Unregistered(f) /\ Sleepless(f)
      BY <1>1, <3>1 DEF Woken
    <3> QED  BY <2>1, <3>1, <3>2
  <2>3. CASE CancelTimer(f)
    <3>1. pc[f] # "wait" /\ scheduled' = scheduled
      BY <2>3 DEF CancelTimer, At
    <3> QED  BY <1>1, <2>1, <3>1, Zenon DEF Woken
  <2> QED  BY <2>2, <2>3, Zenon
<1>4. Types'
  BY <1>1, <1>2, <1>3, Zenon DEF Types
<1>5. InCall(f)' /\ Guarded(f)'
  BY <1>1, <1>2, Zenon DEF InCall, Guarded
<1>6. Woken(f)'
  BY <1>1, <1>2, <1>3, Zenon DEF Woken, Unregistered, Sleepless, Sleeper
<1>7. Local(f)
  BY <1>1, <1>2, Zenon DEF Local, Mine
<1> QED  BY <1>4, <1>5, <1>6, <1>7, LocalInv

\* sleep() sets the timer that wakes the fiber, which yields: the invariant is
\* preserved.
LEMMA SleepInv ==
  ASSUME Inv, NEW f \in Fibers, Sleep(f)  PROVE Inv'
<1>1. PICK new : new = [fiber |-> f, call |-> ip[f], fd |-> None, event |-> "SLEEP", at |-> "armed"]
  BY Zenon
<1>2. /\ Types /\ pc[f] = "call" /\ ip[f] <= Len(program[f]) /\ Op(f) = "sleep"
      /\ scheduled[f] = 0 /\ Unregistered(f) /\ Sleepless(f)
      /\ pc' = [pc EXCEPT ![f] = "wait"] /\ timers' = timers \union {new}
      /\ UNCHANGED <<program, ip, own, timed, cancelled, scheduled, reg>>
  BY <1>1, Zenon DEF Inv, Types, Woken, Sleep, At, Goto, events, frame
<1>3. new \in TimerRecords /\ Sleeper(f, new) /\ new.at = "armed"
  BY <1>1, <1>2, Zenon DEF TimerRecords, Types, Sleeper
<1>4. Types'
  BY <1>2, <1>3, Zenon DEF Types, Places, Sleeper
<1>5. InCall(f)' /\ Guarded(f)'
  BY <1>2, Zenon DEF InCall, Guarded, Op, Types
<1>6. Woken(f)'
  <2>1. SleepsOnce(f)' /\ Unregistered(f)'
    BY <1>2, <1>3 DEF SleepsOnce, Sleepless, Sleeper, Unregistered
  <2> QED  BY <1>2, <2>1, Zenon DEF Woken, Types
<1>7. Local(f)
  BY <1>2, <1>3, Zenon DEF Local, Types, Sleeper
<1> QED  BY <1>4, <1>5, <1>6, <1>7, LocalInv

\* cancelAll() of close() and of Socket preserves the invariant.
LEMMA CancelAllInv ==
  ASSUME Inv, NEW f \in Fibers, (CancelAll(f) /\ ctx[Fd(f)] # None) \/ SocketCancelAll(f)  PROVE Inv'
<1>1. /\ Types /\ pc[f] = "call" /\ ip[f] <= Len(program[f]) /\ Fd(f) \in Fds
      /\ UNCHANGED <<program, own, timed, cancelled, timers>> /\ Trigger(Fd(f), Events)
      /\ (Goto(f, "del") /\ Op(f) = "close") \/ Return(f, "ok")
  BY FdOf, Zenon DEF Inv, CancelAll, SocketCancelAll, At, frame
<1>2. "del" \in Places
  BY DEF Places
<1>3. /\ pc' \in [Fibers -> Places] /\ ip' \in [Fibers -> Nat \ {0}]
      /\ \A g \in Fibers :
           \/ pc'[g] = pc[g] /\ ip'[g] = ip[g]
           \/ /\ pc[g] = "call" /\ pc'[g] \in {"call", "del"}
              /\ pc'[g] = "del" => ip'[g] = ip[g] /\ ip[g] <= Len(program[g]) /\ Op(g) = "close"
  BY <1>1, <1>2, MoveTypes, Zenon DEF Types, Goto, Return
<1> QED  BY <1>1, <1>3, TriggerInv, Zenon

\* An event that epoll_wait() reports preserves the invariant.
LEMMA ReportInv ==
  ASSUME Inv, NEW fd \in Fds, NEW e \in Events, Report(fd, e)  PROVE Inv'
BY TriggerInv, Zenon DEF Inv, Types, Report, frame

\* The timers.
LEMMA TimersInv ==
  ASSUME Inv, UNCHANGED <<program, pc, ip>>, Types', \A f \in Fibers : Woken(f)' /\ SameGuards(f)
  PROVE  Inv'
BY GuardedKept, Zenon DEF Inv, InCall, Op

\* A timer whose time is over preserves the invariant: it is still to cancel the
\* event.
LEMMA ExpireInv ==
  ASSUME Inv, NEW t \in timers, Expire(t)  PROVE Inv'
<1>1. PICK x : x = [t EXCEPT !.at = "expired"]
  BY Zenon
<1>2. /\ timers' = (timers \ {t}) \union {x}
      /\ UNCHANGED <<program, pc, ip, own, timed, cancelled, scheduled, reg>>
  BY <1>1 DEF Expire, events, frame
<1>3. /\ x \in TimerRecords /\ x.fiber = t.fiber /\ x.call = t.call /\ x.fd = t.fd /\ x.event = t.event
      /\ x.at = "expired" /\ t \in TimerRecords
  BY <1>1, Zenon DEF Inv, Types, TimerRecords
<1>4. Types'
  BY <1>2, <1>3, Zenon DEF Inv, Types
<1>5. ASSUME NEW f \in Fibers  PROVE Woken(f)' /\ SameGuards(f)
  <2>1. SameGuards(f)
    BY <1>2, <1>3, Zenon DEF SameGuards, Guard
  <2>2. CASE Sleeper(f, t)
    <3>1. SleepsOnce(f)'
      BY <1>2, <1>3, <2>2 DEF Inv, Woken, Sleepless, SleepsOnce, Sleeper
    <3> QED  BY <1>2, <2>1, <2>2, <3>1, Zenon DEF Inv, Woken, Sleepless, Unregistered
  <2>3. CASE ~Sleeper(f, t)
    <3>1. SameWakers(f)
      BY <1>2, <1>3, <2>3, Zenon DEF SameWakers, Sleeper
    <3> QED  BY <2>1, <3>1, WokenKept DEF Inv
  <2> QED  BY <2>2, <2>3
<1> QED  BY <1>2, <1>4, <1>5, TimersInv

\* The timer of sleep() schedules its fiber: the invariant is preserved.
LEMMA WakeSleeperInv ==
  ASSUME Inv, NEW t \in timers, WakeSleeper(t)  PROVE Inv'
<1>1. /\ timers' = timers \ {t} /\ t.event = "SLEEP" /\ t.fiber \in Fibers
      /\ scheduled' = [scheduled EXCEPT ![t.fiber] = @ + 1]
      /\ UNCHANGED <<program, pc, ip, own, timed, cancelled, reg>>
  BY Zenon DEF WakeSleeper, events, frame, Inv, Types, TimerRecords
<1>2. Types'
  BY <1>1 DEF Inv, Types
<1>3. ASSUME NEW f \in Fibers  PROVE Woken(f)' /\ SameGuards(f)
  <2>1. SameGuards(f)
    BY <1>1 DEF SameGuards, Guard, Inv, Types
  <2>2. CASE Sleeper(f, t)
    <3>1. /\ pc[f] = "wait" /\ scheduled[f] = 0 /\ Unregistered(f)
          /\ \A u \in timers : Sleeper(f, u) => u = t
      BY <2>2, Zenon DEF Inv, Woken, Sleepless, SleepsOnce
    <3>2. scheduled[f] \in Nat /\ scheduled'[f] = 1
      BY <1>1, <2>2, <3>1 DEF Sleeper, Inv, Types
    <3>3. Unregistered(f)'
      BY <1>1, <3>1, Zenon DEF Unregistered
    <3>4. Sleepless(f)'
      BY <1>1, <3>1, Zenon DEF Sleepless, Sleeper
    <3> QED  BY <1>1, <2>1, <3>1, <3>2, <3>3, <3>4, Zenon DEF Woken
  <2>3. CASE ~Sleeper(f, t)
    <3>1. SameWakers(f)
      BY <1>1, <2>3, Zenon DEF SameWakers, Sleeper, Inv, Types
    <3> QED  BY <2>1, <3>1, WokenKept DEF Inv
  <2> QED  BY <2>2, <2>3
<1> QED  BY <1>1, <1>2, <1>3, TimersInv, Zenon

\* The condition of a timer holds, or its call is over: the invariant is
\* preserved.
LEMMA FireInv ==
  ASSUME Inv, NEW t \in timers, Fire(t)  PROVE Inv'
<1>1. PICK x : x = [t EXCEPT !.at = "locked"]
  BY Zenon
<1>2. /\ x \in TimerRecords /\ x.fiber = t.fiber /\ x.call = t.call /\ x.fd = t.fd /\ x.event = t.event
      /\ t.event # "SLEEP" /\ t.fiber \in Fibers
  BY <1>1 DEF Inv, Types, TimerRecords, Fire
<1>3. UNCHANGED <<program, pc, ip, own, timed, scheduled, reg>>
  BY DEF Fire, events, frame
<1>4. \/ /\ ip[t.fiber] # t.call \/ cancelled[t.fiber]
         /\ timers' = timers \ {t} /\ cancelled' = cancelled
      \/ /\ cancelled' = [cancelled EXCEPT ![t.fiber] = TRUE]
         /\ timers' = (timers \ {t}) \union {x}
  BY <1>1, Zenon DEF Fire
<1>5. Types'
  BY <1>2, <1>3, <1>4, Zenon DEF Inv, Types
<1>6. ASSUME NEW f \in Fibers  PROVE Woken(f)' /\ SameGuards(f)
  <2>1. SameGuards(f)
    BY <1>2, <1>3, <1>4, Zenon DEF SameGuards, Guard, Inv, Types
  <2>2. SameWakers(f)
    BY <1>2, <1>3, <1>4, Zenon DEF SameWakers, Sleeper
  <2> QED  BY <2>1, <2>2, WokenKept DEF Inv
<1> QED  BY <1>3, <1>5, <1>6, TimersInv

\* A timer cancels the event of its call, or of a later one on the same
\* descriptor: the invariant is preserved.
LEMMA CancelEventInv ==
  ASSUME Inv, NEW t \in timers, CancelEvent(t)  PROVE Inv'
<1>1. /\ timers' = timers \ {t} /\ t.at = "locked" /\ t.fd \in Fds /\ t.event \in Events /\ t.event # "SLEEP"
      /\ UNCHANGED <<program, pc, ip, own, timed, cancelled>>
  BY Zenon DEF CancelEvent, frame, Inv, Types, TimerRecords
<1>2. CASE Trigger(t.fd, {t.event})
  <2>1. pc' \in [Fibers -> Places] /\ ip' \in [Fibers -> Nat \ {0}]
    BY <1>1, Zenon DEF Inv, Types
  <2>2. \A u \in timers : u.at # "locked" => u \in timers'
    BY <1>1, Zenon
  <2>3. timers' \subseteq timers /\ {t.event} \in SUBSET Events
    BY <1>1
  <2> QED  BY <1>1, <1>2, <2>1, <2>2, <2>3, TriggerInv, Zenon
<1>3. CASE UNCHANGED <<reg, epoll, scheduled>>
  <2>1. Types'
    BY <1>1, <1>3, Zenon DEF Inv, Types
  <2>2. ASSUME NEW f \in Fibers  PROVE Woken(f)' /\ SameGuards(f)
    <3>1. SameWakers(f) /\ SameGuards(f)
      BY <1>1, <1>3, Zenon DEF SameWakers, SameGuards, Sleeper, Guard
    <3> QED  BY <3>1, WokenKept DEF Inv
  <2> QED  BY <1>1, <2>1, <2>2, TimersInv
<1> QED  BY <1>2, <1>3, Zenon DEF CancelEvent

\* The accept loop passes its client on: the invariant is preserved.
LEMMA AcceptedInv ==
  ASSUME Inv, NEW f \in Fibers, Accepted(f)  PROVE Inv'
<1>1. /\ ip' = [ip EXCEPT ![f] = 1] /\ own' = [own EXCEPT ![f] = None] /\ pc[f] = "call"
      /\ UNCHANGED <<program, pc, timed, cancelled, scheduled, reg, timers>>
  <2>1. Len(program[f]) = 1 /\ ip[f] = 2
    <3>1. program[f] = <<Step("accept", Listening)>> /\ ip[f] = 2
      BY Zenon DEF Accepted, Acceptors, startAccept
    <3> QED  BY <3>1
  <2>2. pc[f] = "call"
    <3>1. ~(ip[f] <= Len(program[f]))
      BY <2>1
    <3>2. pc[f] # "call" => ip[f] <= Len(program[f])
      BY DEF Inv, InCall
    <3> QED  BY <3>1, <3>2
  <2> QED  BY <2>2, Zenon DEF Accepted, events, frame
<1>2. Types' /\ Local(f)
  BY <1>1 DEF Inv, Types, Local
<1>3. InCall(f)' /\ Guarded(f)' /\ SameWakers(f)
  BY <1>1, Zenon DEF InCall, Guarded, SameWakers
<1> QED  BY <1>2, <1>3, WokenKept, LocalInv, Zenon DEF Inv

\* A handler takes its client: the invariant is preserved.
LEMMA HandleInv ==
  ASSUME Inv, clients \subseteq Fds \union {None}, NEW f \in Fibers, Handle(f)  PROVE Inv'
<1>1. UNCHANGED <<program, pc, ip, timed, cancelled, scheduled, reg, timers>>
  BY Zenon DEF Handle, events, frame
<1>2. Types'
  BY <1>1 DEF Inv, Types, Handle
<1>3. ASSUME NEW g \in Fibers  PROVE SameWakers(g) /\ SameGuards(g)
  BY <1>1, Zenon DEF SameWakers, SameGuards, Guard
<1> QED  BY <1>1, <1>2, <1>3, WokenKept, TimersInv, Zenon DEF Inv

\* What handleClient() is scheduled with are descriptors.
LEMMA ClientsFds ==
  ASSUME Inv, clients \subseteq Fds \union {None}, [ServerNext]_serverVars  PROVE clients' \subseteq Fds \union {None}
<1>1. CASE UNCHANGED serverFrame \/ UNCHANGED serverVars
  BY <1>1 DEF serverFrame, serverVars
<1>2. CASE \E f \in Fibers : TestStop(f) \/ Accepted(f) \/ Handle(f)
  BY <1>2 DEF Inv, Types, TestStop, Accepted, Handle
<1>3. CASE Stop
  BY <1>3 DEF Stop
<1> QED  BY <1>1, <1>2, <1>3, Zenon DEF ServerNext, ServerFiber

\* Every step of a fiber preserves the invariant.
LEMMA FiberInv ==
  ASSUME Inv, NEW f \in Fibers, Fiber(f) \/ SocketCancelAll(f)  PROVE Inv'
<1>1. CASE Arm(f) \/ AddEvent(f) \/ Resume(f) \/ CancelTimer(f) \/ Sleep(f)
  BY <1>1, ArmInv, AddEventInv, ResumeInv, SleepInv
<1>2. CASE (CancelAll(f) /\ ctx[Fd(f)] # None) \/ SocketCancelAll(f)
  BY <1>2, CancelAllInv
<1> QED  BY <1>1, <1>2, SilentSteps, SilentInv, Zenon DEF Fiber

\* Every step of a timer preserves it.
LEMMA TimerInv ==
  ASSUME Inv, NEW t \in timers, Timer(t)  PROVE Inv'
BY ExpireInv, WakeSleeperInv, FireInv, CancelEventInv DEF Timer

Waking == Inv /\ clients \subseteq Fds \union {None}

\* The inductive invariant, for any number of fibers, descriptors and timers: a
\* fiber that runs has no waker and one that waits exactly one, and a call with
\* a timeout waits with its timer or is scheduled.
THEOREM HookInvariant == ServerSpec => []Waking
<1>1. ServerInit => Waking
  <2> SUFFICES ASSUME ServerInit  PROVE Waking
    OBVIOUS
  <2>1. Types
    BY DEF ServerInit, Init, Types, Places
  <2>2. ASSUME NEW f \in Fibers  PROVE InCall(f) /\ Woken(f) /\ Guarded(f)
    BY <2>2, HookAssumption
       DEF ServerInit, Init, InCall, Woken, Unregistered, Sleepless, Guarded
  <2> QED  BY <2>1, <2>2 DEF ServerInit, Waking, Inv
<1>2. Waking /\ [ServerNext]_serverVars => Waking'
  <2> SUFFICES ASSUME Waking, [ServerNext]_serverVars  PROVE Inv'
    BY ClientsFds DEF Waking
  <2>1. CASE \E f \in Fibers : Fiber(f) \/ SocketCancelAll(f)
    BY <2>1, FiberInv DEF Waking
  <2>2. CASE \E f \in Fibers : Accepted(f) \/ Handle(f)
    BY <2>2, AcceptedInv, HandleInv DEF Waking
  <2>3. CASE (\E t \in timers : Timer(t)) \/ \E fd \in Fds, e \in Events : Report(fd, e)
    BY <2>3, TimerInv, ReportInv DEF Waking
  <2>4. CASE World \/ Stop \/ (\E f \in Fibers : TestStop(f)) \/ UNCHANGED serverVars
    BY <2>4, StutterInv, Zenon DEF Waking, World, Stop, TestStop, serverVars, vars, events, frame
  <2> QED  BY <2>1, <2>2, <2>3, <2>4, Zenon DEF ServerNext, ServerFiber
<1> QED  BY <1>1, <1>2, PTL DEF ServerSpec

\* The invariant counts the wakers.
LEMMA WokenCounts ==
  ASSUME Types, NEW f \in Fibers, Woken(f)  PROVE Wakers(f) = IF pc[f] = "wait" THEN 1 ELSE 0
<1> DEFINE waits == {w \in Fds \X Events : reg[w[1]][w[2]] = f}
           sleeps == {t \in timers : t.fiber = f /\ t.event = "SLEEP"}
<1>1. Unregistered(f) => Cardinality(waits) = 0
  <2>1. Unregistered(f) => waits = {}
    BY DEF Unregistered
  <2> QED  BY <2>1, CardEmpty, Zenon
<1>2. RegisteredOnce(f) => Cardinality(waits) = 1
  <2> SUFFICES ASSUME RegisteredOnce(f)  PROVE Cardinality(waits) = 1
    OBVIOUS
  <2>1. PICK fd \in Fds, e \in Events :
          \A fd2 \in Fds, e2 \in Events : reg[fd2][e2] = f <=> fd2 = fd /\ e2 = e
    BY Zenon DEF RegisteredOnce
  <2>2. waits = {<<fd, e>>}
    BY <2>1
  <2> QED  BY <2>2, CardOne, Zenon
<1>3. Sleepless(f) => Cardinality(sleeps) = 0
  <2>1. Sleepless(f) => sleeps = {}
    BY DEF Sleepless, Sleeper
  <2> QED  BY <2>1, CardEmpty, Zenon
<1>4. SleepsOnce(f) => Cardinality(sleeps) = 1
  <2>1. SleepsOnce(f) => \E t : sleeps = {t}
    BY DEF SleepsOnce, Sleeper
  <2> QED  BY <2>1, CardOne, Zenon
<1>5. Wakers(f) = scheduled[f] + Cardinality(waits) + Cardinality(sleeps)
  BY DEF Wakers
<1> HIDE DEF waits, sleeps
<1> QED  BY <1>1, <1>2, <1>3, <1>4, <1>5 DEF Woken, Types

\* A fiber in a hooked call is resumed by its event, its sleep timer or its
\* entry in the list of the scheduler, and by one of them only.
THEOREM WakersExact == ServerSpec => []OneWaker
<1>1. Waking => OneWaker
  BY WokenCounts DEF Waking, Inv, OneWaker
<1> QED  BY <1>1, HookInvariant, PTL

\* A call with a timeout waits with its timer pending.
THEOREM TimersGuard == ServerSpec => []TimerGuards
<1>1. Waking => TimerGuards
  BY Zenon DEF Waking, Inv, Guarded, Guard, TimerGuards
<1> QED  BY <1>1, HookInvariant, PTL
=============================================================================
