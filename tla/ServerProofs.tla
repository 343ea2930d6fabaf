---------------------------- MODULE ServerProofs ----------------------------
(* Descriptors of hooked calls and of a TcpServer, for any number of fibers  *)
(* and descriptors: a new descriptor finds no FdCtx, and an accepted client  *)
(* is with exactly one owner.                                                *)
EXTENDS TcpServer, TLAPS

Ctxs == [user : BOOLEAN, READ : BOOLEAN, WRITE : BOOLEAN]
Creating(f) == pc[f] \in {"get", "create"}
Closing(f) == pc[f] \in {"del", "close"}

Shape ==
  /\ program \in Programs
  /\ DOMAIN pc = Fibers /\ ip \in [Fibers -> Nat \ {0}] /\ own \in [Fibers -> Fds \union {None}]
  /\ DOMAIN file = Fds /\ ctx \in [Fds -> Ctxs \union {None}]
  /\ clients \subseteq Fds \union {None}
  /\ \A f \in Fibers : pc[f] # "call" => ip[f] <= Len(program[f])

\* A descriptor without a file has no FdCtx, neither has one whose close() is
\* about to reach the kernel, and one that is just made belongs to its maker.
Closed == \A fd \in Fds : file[fd] = "closed" => ctx[fd] = None
Leaves(f) == Closing(f) => Fd(f) \in Fds /\ (pc[f] = "close" => ctx[Fd(f)] = None)
Makes(f) ==
  Creating(f) => /\ own[f] \in Fds /\ file[own[f]] # "closed" /\ ctx[own[f]] = None
                 /\ \A g \in Fibers : Creating(g) /\ own[g] = own[f] => g = f
Fresh == Shape /\ Closed /\ \A f \in Fibers : Leaves(f) /\ Makes(f)

\* No fiber is inside close() of a descriptor that another one is just making.
NoForeignClose ==
  \A f, g \in Fibers : Closing(f) /\ Creating(g) => Fd(f) # own[g]

-----------------------------------------------------------------------------
(* Steps. *)

\* A step that neither makes nor closes a descriptor.
Plain ==
  /\ program' = program /\ own' = own /\ clients' = clients
  /\ DOMAIN pc' = Fibers /\ ip' \in [Fibers -> Nat \ {0}] /\ DOMAIN file' = Fds /\ ctx' \in [Fds -> Ctxs \union {None}]
  /\ \A fd \in Fds : /\ (file'[fd] = "closed") <=> (file[fd] = "closed")
                     /\ (ctx'[fd] = None) <=> (ctx[fd] = None)
  /\ \A f \in Fibers :
       \/ pc'[f] = pc[f] /\ ip'[f] = ip[f]
       \/ /\ pc'[f] \notin {"get", "create", "del", "close"}
          /\ pc'[f] # "call" => ip'[f] <= Len(program[f])

\* Such a step preserves the invariant.
LEMMA PlainKeeps ==
  ASSUME Fresh, Plain  PROVE Fresh'
<1>1. Shape' /\ Closed'
  BY Zenon DEF Fresh, Shape, Plain, Closed
<1>2. ASSUME NEW f \in Fibers  PROVE Leaves(f)' /\ Makes(f)'
  <2>1. Leaves(f)'
    BY Zenon DEF Fresh, Plain, Leaves, Closing, Fd
  <2>2. Creating(f)' => Creating(f)
    BY Zenon DEF Plain, Creating
  <2>3. \A g \in Fibers : Creating(g)' => Creating(g)
    BY Zenon DEF Plain, Creating
  <2>4. Makes(f)'
    BY <2>2, <2>3, Zenon DEF Fresh, Plain, Makes
  <2> QED  BY <2>1, <2>4, Zenon
<1> QED  BY <1>1, <1>2, Zenon DEF Fresh

\* A call goes on, elsewhere than into making or closing a descriptor.
Moves(f) ==
  /\ ip[f] <= Len(program[f])
  /\ (\E v : Return(f, v)) \/ \E p : p \notin {"get", "create", "del", "close"} /\ Goto(f, p)

\* A step that moves one call on, and opens or closes nothing, is such a step.
LEMMA MovesPlain ==
  ASSUME Shape, NEW f \in Fibers, Moves(f), UNCHANGED <<program, own, clients>>,
         DOMAIN file' = Fds, ctx' \in [Fds -> Ctxs \union {None}],
         \A fd \in Fds : /\ (file'[fd] = "closed") <=> (file[fd] = "closed")
                         /\ (ctx'[fd] = None) <=> (ctx[fd] = None)
  PROVE  Plain
<1>1. /\ DOMAIN pc' = Fibers /\ ip' \in [Fibers -> Nat \ {0}]
      /\ \A g \in Fibers \ {f} : pc'[g] = pc[g] /\ ip'[g] = ip[g]
      /\ \/ pc'[f] = "call"
         \/ pc'[f] \notin {"get", "create", "del", "close"} /\ ip'[f] = ip[f]
  <2>1. CASE \E v : Return(f, v)
    BY <2>1 DEF Shape, Return
  <2>2. CASE \E p : p \notin {"get", "create", "del", "close"} /\ Goto(f, p)
    BY <2>2 DEF Shape, Goto
  <2> QED  BY <2>1, <2>2, Zenon DEF Moves
<1> QED  BY <1>1, Zenon DEF Plain, Moves

\* What a call sets in a FdCtx leaves it one.
LEMMA CtxSet ==
  ASSUME Shape, NEW fd \in Fds, NEW v \in BOOLEAN, NEW k \in {"user", "READ", "WRITE"},
         ctx' = IF ctx[fd] = None THEN ctx ELSE [ctx EXCEPT ![fd] = [@ EXCEPT ![k] = v]]
  PROVE  /\ ctx' \in [Fds -> Ctxs \union {None}]
         /\ \A d \in Fds : (ctx'[d] = None) <=> (ctx[d] = None)
<1>1. ASSUME ctx[fd] # None  PROVE [ctx[fd] EXCEPT ![k] = v] \in Ctxs
  BY <1>1 DEF Shape, Ctxs
<1>2. None \notin Ctxs
  BY HookAssumption, Zenon DEF Ctxs
<1> QED  BY <1>1, <1>2, Zenon DEF Shape

\* The descriptor of a call is one.
LEMMA FdOf ==
  ASSUME Shape, NEW f \in Fibers, NEW place, At(f, place), Op(f) \notin {"socket", "sleep"}
  PROVE  Fd(f) \in Fds
BY HookAssumption DEF Shape, At, Fd

\* The calls that touch no descriptor's file and no FdCtx.
LEMMA CallsMove ==
  ASSUME NEW f \in Fibers,
         \/ Enter(f) \/ Arm(f) \/ (AddEvent(f) /\ ~aborted') \/ Resume(f) \/ CancelTimer(f) \/ Test(f)
         \/ SockOpt(f) \/ Sleep(f) \/ SetSockOpt(f) \/ SetNonblock(f) \/ SocketCancelAll(f)
  PROVE  Moves(f) /\ UNCHANGED <<program, own, file>>
<1>1. CASE Enter(f)
  BY <1>1, Zenon DEF Enter, At, Moves, kernel, frame
<1>2. CASE Arm(f) \/ Resume(f) \/ CancelTimer(f)
  BY <1>2, Zenon DEF Arm, Resume, CancelTimer, At, Moves, kernel, frame
<1>3. CASE AddEvent(f) /\ ~aborted'
  BY <1>3, Zenon DEF AddEvent, At, Moves, kernel
<1>4. CASE Test(f) \/ SockOpt(f)
  BY <1>4, Zenon DEF Test, SockOpt, At, Moves, kernel, frame
<1>5. CASE Sleep(f) \/ SocketCancelAll(f)
  BY <1>5, Zenon DEF Sleep, SocketCancelAll, At, Moves, kernel, frame
<1>6. CASE SetSockOpt(f) \/ SetNonblock(f)
  BY <1>6, Zenon DEF SetSockOpt, SetNonblock, At, Moves, kernel, frame
<1> QED  BY <1>1, <1>2, <1>3, <1>4, <1>5, <1>6, Zenon

\* They are steps that neither make nor close a descriptor.
LEMMA CallsPlain ==
  ASSUME Fresh, NEW f \in Fibers, UNCHANGED clients,
         \/ Enter(f) \/ Arm(f) \/ AddEvent(f) \/ Resume(f) \/ CancelTimer(f) \/ Test(f)
         \/ SockOpt(f) \/ Sleep(f) \/ SetSockOpt(f) \/ SetNonblock(f) \/ SocketCancelAll(f)
  PROVE  Plain
<1>1. CASE AddEvent(f) /\ aborted'
  <2>1. UNCHANGED <<program, own, file, ctx, pc, ip>>
    BY <1>1, Zenon DEF AddEvent, At, kernel
  <2> QED  BY <2>1, Zenon DEF Plain, Fresh, Shape
<1>2. CASE SetSockOpt(f)
  <2>1. Fd(f) \in Fds /\ Arg(f) \in {"user", "READ", "WRITE"}
    <3>1. At(f, "call") /\ Op(f) = "setsockopt" /\ ip[f] \in 1..Len(program[f])
      BY <1>2, HookAssumption DEF SetSockOpt, Fresh, Shape, At
    <3> QED  BY <3>1, FdOf, HookAssumption DEF Fresh, Shape, Arg, Op, Events
  <2>2. ctx' = IF ctx[Fd(f)] = None THEN ctx ELSE [ctx EXCEPT ![Fd(f)] = [@ EXCEPT ![Arg(f)] = TRUE]]
    BY <1>2, Zenon DEF SetSockOpt
  <2> QED  BY <1>2, <2>1, <2>2, CallsMove, CtxSet, MovesPlain DEF Fresh, Shape
<1>3. CASE SetNonblock(f)
  <2>1. Fd(f) \in Fds /\ Arg(f) \in BOOLEAN
    BY <1>3, FdOf, HookAssumption DEF SetNonblock, Fresh, Shape, At, Arg, Op
  <2>2. ctx' = IF ctx[Fd(f)] = None THEN ctx ELSE [ctx EXCEPT ![Fd(f)] = [@ EXCEPT !["user"] = Arg(f)]]
    BY <1>3, Zenon DEF SetNonblock
  <2> QED  BY <1>3, <2>1, <2>2, CallsMove, CtxSet, MovesPlain, Zenon DEF Fresh, Shape
<1>4. CASE ~(AddEvent(f) /\ aborted') /\ ~SetSockOpt(f) /\ ~SetNonblock(f)
  <2>1. ctx' = ctx
    BY <1>4, Zenon DEF Enter, Arm, AddEvent, Resume, CancelTimer, Test, SockOpt, Sleep, SocketCancelAll
  <2> QED  BY <1>4, <2>1, CallsMove, MovesPlain, Zenon DEF Fresh, Shape
<1> QED  BY <1>1, <1>2, <1>3, <1>4, Zenon

\* connect() changes the file of its descriptor, which stays open.
LEMMA ConnectPlain ==
  ASSUME Fresh, NEW f \in Fibers, UNCHANGED clients, ConnectFun(f)  PROVE Plain
<1>1. /\ Fd(f) \in Fds /\ Connect(f, Fd(f)) /\ ip[f] <= Len(program[f])
      /\ UNCHANGED <<program, own, ctx>>
  BY FdOf DEF ConnectFun, Fresh, At, frame
<1>2. Moves(f)
  BY <1>1, Zenon DEF Connect, Moves
<1>3. \/ file' = file
      \/ file[Fd(f)] = "new" /\ \E s \in {"connected", "refused", "connecting"} : file' = [file EXCEPT ![Fd(f)] = s]
  BY <1>1, Zenon DEF Connect
<1>4. DOMAIN file' = Fds /\ \A fd \in Fds : (file'[fd] = "closed") <=> (file[fd] = "closed")
  BY <1>1, <1>3, Zenon DEF Fresh, Shape
<1> QED  BY <1>1, <1>2, <1>4, MovesPlain, Zenon DEF Fresh, Shape

\* A descriptor that was closed until now is made.
Opens(f) ==
  \E fd \in Fds, s \in {"new", "connected"} :
    /\ NewFile(f, fd, s) /\ Goto(f, "get") /\ ip[f] <= Len(program[f])
    /\ UNCHANGED <<program, ctx, clients>>

\* Making a descriptor preserves the invariant: one that was closed has no
\* FdCtx.
LEMMA OpensKeeps ==
  ASSUME Fresh, NEW f \in Fibers, Opens(f)  PROVE Fresh'
<1>1. PICK fd \in Fds, s \in {"new", "connected"} :
        /\ file[fd] = "closed" /\ file' = [file EXCEPT ![fd] = s] /\ own' = [own EXCEPT ![f] = fd]
        /\ pc' = [pc EXCEPT ![f] = "get"] /\ ip' = ip /\ ip[f] <= Len(program[f])
        /\ UNCHANGED <<program, ctx, clients>>
  BY Zenon DEF Opens, NewFile, Goto
<1>2. Shape' /\ Closed'
  BY <1>1, Zenon DEF Fresh, Shape, Closed
<1>3. /\ pc'[f] = "get" /\ own'[f] = fd /\ ctx'[fd] = None /\ file'[fd] # "closed"
      /\ \A g \in Fibers \ {f} : pc'[g] = pc[g] /\ own'[g] = own[g]
      /\ \A x \in Fds \ {fd} : file'[x] = file[x]
  BY <1>1, Zenon DEF Fresh, Shape, Closed
<1>4. ASSUME NEW g \in Fibers  PROVE Leaves(g)' /\ Makes(g)'
  <2>1. CASE g = f
    BY <1>1, <1>3, <2>1 DEF Fresh, Leaves, Makes, Closing, Creating
  <2>2. CASE g # f
    BY <1>1, <1>3, <2>2 DEF Fresh, Leaves, Makes, Closing, Creating, Fd
  <2> QED  BY <2>1, <2>2
<1> QED  BY <1>2, <1>4, Zenon DEF Fresh

\* The system calls of do_io() preserve the invariant, accept() included.
LEMMA FunKeeps ==
  ASSUME Fresh, NEW f \in Fibers, UNCHANGED clients, Fun(f)  PROVE Fresh'
<1>1. SystemCall(f, Fd(f)) /\ ip[f] <= Len(program[f]) /\ UNCHANGED <<program, ctx>>
  BY Zenon DEF Fun, At, frame
<1>2. Opens(f) \/ (Moves(f) /\ UNCHANGED <<own, file>>)
  BY <1>1, Zenon DEF SystemCall, Opens, Moves, kernel
<1>3. CASE Moves(f) /\ UNCHANGED <<own, file>>
  BY <1>1, <1>3, MovesPlain, PlainKeeps, Zenon DEF Fresh, Shape
<1> QED  BY <1>2, <1>3, OpensKeeps

\* socket() preserves the invariant, also when there is no descriptor left.
LEMMA SocketKeeps ==
  ASSUME Fresh, NEW f \in Fibers, UNCHANGED clients, Socket(f)  PROVE Fresh'
<1>1. ip[f] <= Len(program[f]) /\ pc[f] = "call" /\ UNCHANGED <<program, ctx>>
  BY Zenon DEF Socket, At, frame
<1>2. CASE Opens(f)
  BY <1>2, OpensKeeps
<1>3. CASE Return(f, "EMFILE") /\ own' = [own EXCEPT ![f] = None] /\ file' = file
  <2>1. Shape' /\ Closed'
    BY <1>1, <1>3 DEF Fresh, Shape, Closed, Return
  <2>2. /\ pc'[f] = "call" /\ \A g \in Fibers \ {f} : pc'[g] = pc[g] /\ own'[g] = own[g] /\ ip'[g] = ip[g]
    BY <1>3, Zenon DEF Fresh, Shape, Return
  <2>3. ASSUME NEW g \in Fibers  PROVE Leaves(g)' /\ Makes(g)'
    BY <1>1, <1>3, <2>2 DEF Fresh, Leaves, Makes, Closing, Creating, Fd
  <2> QED  BY <2>1, <2>3, Zenon DEF Fresh
<1> QED  BY <1>1, <1>2, <1>3, Zenon DEF Socket, Opens

\* FdManager::get(fd, true) preserves the invariant: it finds no FdCtx.
LEMMA GetKeeps ==
  ASSUME Fresh, NEW f \in Fibers, UNCHANGED clients, Get(f)  PROVE Fresh'
<1>1. /\ pc[f] = "get" /\ ip[f] <= Len(program[f]) /\ UNCHANGED <<program, own, ctx, file>>
  BY Zenon DEF Get, At, kernel, frame
<1>2. ctx[own[f]] = None
  BY <1>1, Zenon DEF Fresh, Makes, Creating
<1>3. pc' = [pc EXCEPT ![f] = "create"] /\ ip' = ip
  BY <1>2, Zenon DEF Get, Goto
<1>4. Shape' /\ Closed'
  BY <1>1, <1>3, Zenon DEF Fresh, Shape, Closed
<1>5. \A g \in Fibers : (Creating(g)' <=> Creating(g)) /\ (Closing(g)' => pc'[g] = pc[g])
  BY <1>1, <1>3, Zenon DEF Fresh, Shape, Creating, Closing
<1>6. ASSUME NEW g \in Fibers  PROVE Leaves(g)' /\ Makes(g)'
  BY <1>1, <1>3, <1>5, Zenon DEF Fresh, Leaves, Makes, Closing, Fd
<1> QED  BY <1>4, <1>6, Zenon DEF Fresh

\* It makes the FdCtx, unless a close() of the same descriptor comes in between:
\* the invariant is preserved.
LEMMA CreateKeeps ==
  ASSUME Fresh, NoForeignClose, NEW f \in Fibers, UNCHANGED clients, Create(f)  PROVE Fresh'
<1>1. /\ pc[f] = "create" /\ ip[f] <= Len(program[f]) /\ UNCHANGED <<program, own, file>>
      /\ ctx' = [ctx EXCEPT ![own[f]] = NewCtx] /\ Return(f, "ok")
  BY Zenon DEF Create, At, frame
<1>2. own[f] \in Fds /\ NewCtx \in Ctxs /\ file[own[f]] # "closed"
  BY <1>1, Zenon DEF Fresh, Makes, Creating, NewCtx, Ctxs
<1>3. Shape' /\ Closed'
  BY <1>1, <1>2 DEF Fresh, Shape, Closed, Return
<1>4. /\ pc'[f] = "call" /\ \A g \in Fibers \ {f} : pc'[g] = pc[g] /\ ip'[g] = ip[g]
      /\ \A fd \in Fds \ {own[f]} : ctx'[fd] = ctx[fd]
  BY <1>1, Zenon DEF Fresh, Shape, Return
<1>5. ASSUME NEW g \in Fibers  PROVE Leaves(g)' /\ Makes(g)'
  <2>1. CASE g = f
    BY <1>4, <2>1, Zenon DEF Leaves, Makes, Closing, Creating
  <2>2. CASE g # f
    <3>1. (Creating(g) => own[g] # own[f]) /\ (Closing(g) => Fd(g) # own[f])
      BY <1>1, <2>2, Zenon DEF Fresh, Makes, Creating, NoForeignClose
    <3>2. \A h \in Fibers : Creating(h)' => Creating(h)
      BY <1>4 DEF Creating
    <3>3. /\ Leaves(g) /\ Makes(g) /\ pc'[g] = pc[g] /\ ip'[g] = ip[g] /\ own' = own /\ program' = program
      BY <1>1, <1>4, <2>2, Zenon DEF Fresh
    <3> QED  BY <1>1, <1>4, <3>1, <3>2, <3>3 DEF Leaves, Makes, Closing, Creating, Fd
  <2> QED  BY <2>1, <2>2
<1> QED  BY <1>3, <1>5, Zenon DEF Fresh

\* close()
LEMMA CloseKeeps ==
  ASSUME Fresh, NoForeignClose, NEW f \in Fibers, UNCHANGED clients, CancelAll(f) \/ Del(f) \/ CloseFun(f)
  PROVE  Fresh'
<1>1. /\ Fd(f) \in Fds /\ ip[f] <= Len(program[f]) /\ ~Creating(f) /\ UNCHANGED <<program, own>>
  <2>1. CASE CancelAll(f)
    BY <2>1, FdOf, Zenon DEF CancelAll, Fresh, At, Creating, frame
  <2>2. CASE Del(f) \/ CloseFun(f)
    BY <2>2, Zenon DEF Fresh, Leaves, Closing, Del, CloseFun, At, Creating, frame
  <2> QED  BY <2>1, <2>2, Zenon
<1>2. /\ \/ ctx[Fd(f)] = None /\ Goto(f, "close") /\ UNCHANGED <<ctx, file>>
         \/ Goto(f, "del") /\ UNCHANGED <<ctx, file>>
         \/ Goto(f, "close") /\ ctx' = [ctx EXCEPT ![Fd(f)] = None] /\ UNCHANGED file
         \/ /\ (\E v : Return(f, v)) /\ file' = [file EXCEPT ![Fd(f)] = "closed"] /\ UNCHANGED ctx
            /\ pc[f] = "close" /\ ctx[Fd(f)] = None
  <2>1. CASE CancelAll(f)
    BY <2>1, Zenon DEF CancelAll, kernel
  <2>2. CASE Del(f)
    BY <2>2, Zenon DEF Del, kernel
  <2>3. CASE CloseFun(f)
    BY <2>3, Zenon DEF CloseFun, At, Fresh, Leaves, Closing
  <2> QED  BY <2>1, <2>2, <2>3, Zenon
<1>3. Shape' /\ Closed'
  <2>1. /\ ip' \in [Fibers -> Nat \ {0}] /\ DOMAIN pc' = Fibers
        /\ \A g \in Fibers : pc'[g] # "call" => ip'[g] <= Len(program[g])
    <3>1. CASE \E p : Goto(f, p)
      BY <1>1, <3>1, Zenon DEF Fresh, Shape, Goto
    <3>2. CASE \E v : Return(f, v)
      BY <3>2 DEF Fresh, Shape, Return
    <3> QED  BY <1>2, <3>1, <3>2, Zenon
  <2>2. /\ file' = file \/ (file' = [file EXCEPT ![Fd(f)] = "closed"] /\ ctx[Fd(f)] = None)
        /\ ctx' = ctx \/ ctx' = [ctx EXCEPT ![Fd(f)] = None]
    BY <1>2, Zenon
  <2>3. Closed'
    BY <1>1, <2>2 DEF Fresh, Shape, Closed
  <2> QED  BY <1>1, <2>1, <2>2, <2>3 DEF Fresh, Shape
<1>4. /\ pc'[f] \in {"close", "del", "call"} /\ (pc'[f] # "call" => ip' = ip)
      /\ \A g \in Fibers \ {f} : pc'[g] = pc[g] /\ ip'[g] = ip[g]
      /\ pc'[f] = "close" => ctx'[Fd(f)] = None
      /\ \A fd \in Fds : ctx[fd] = None => ctx'[fd] = None
      /\ \A fd \in Fds : fd # Fd(f) \/ pc[f] # "close" => file'[fd] = file[fd]
  BY <1>1, <1>2 DEF Fresh, Shape, Return, Goto
<1>5. ASSUME NEW g \in Fibers  PROVE Leaves(g)' /\ Makes(g)'
  <2>1. CASE g = f
    BY <1>1, <1>4, <2>1 DEF Leaves, Makes, Closing, Creating, Fd
  <2>2. CASE g # f
    <3>1. Creating(g) /\ pc[f] = "close" => Fd(f) # own[g]
      BY DEF NoForeignClose, Closing
    <3>2. \A h \in Fibers : Creating(h)' => Creating(h)
      BY <1>4, Zenon DEF Creating
    <3>3. pc'[g] = pc[g] /\ ip'[g] = ip[g] /\ own' = own /\ program' = program /\ Leaves(g) /\ Makes(g)
      BY <1>1, <1>4, <2>2, Zenon DEF Fresh
    <3>4. (Closing(g)' <=> Closing(g)) /\ (Creating(g)' <=> Creating(g)) /\ Fd(g)' = Fd(g)
      BY <3>3, Zenon DEF Closing, Creating, Fd
    <3>5. Leaves(g)'
      BY <1>4, <3>3, <3>4, Zenon DEF Leaves
    <3>6. Makes(g)'
      BY <1>4, <3>1, <3>2, <3>3, <3>4, Zenon DEF Makes
    <3> QED  BY <3>5, <3>6
  <2> QED  BY <2>1, <2>2
<1> QED  BY <1>3, <1>5, Zenon DEF Fresh

\* The timeout that the client of an accept() gets leaves every FdCtx one.
LEMMA AcceptedCtx ==
  ASSUME Fresh, NEW f \in Fibers, Accepted(f)
  PROVE  ctx' \in [Fds -> Ctxs \union {None}] /\ \A fd \in Fds : (ctx'[fd] = None) <=> (ctx[fd] = None)
<1>1. ctx' = ctx \/ (ctx[own[f]] # None /\ ctx' = [ctx EXCEPT ![own[f]].READ = TRUE])
  BY Zenon DEF Accepted, init, frame
<1>2. CASE own[f] \in Fds
  BY <1>1, <1>2, CtxSet DEF Fresh, Shape
<1>3. CASE own[f] \notin Fds
  BY <1>1, <1>3 DEF Fresh, Shape
<1> QED  BY <1>2, <1>3

\* The server's own steps.
LEMMA AcceptedKeeps ==
  ASSUME Fresh, NEW f \in Fibers, Accepted(f)  PROVE Fresh'
<1>1. pc[f] = "call"
  <2>1. program[f] = <<Step("accept", Listening)>> /\ ip[f] = 2
    BY Zenon DEF Accepted, Acceptors, startAccept
  <2>2. ~(ip[f] <= Len(program[f]))
    BY <2>1
  <2> QED  BY <2>2, Zenon DEF Fresh, Shape
<1>2. /\ ip' = [ip EXCEPT ![f] = 1] /\ own' = [own EXCEPT ![f] = None] /\ UNCHANGED <<program, pc, file>>
      /\ clients' \subseteq clients \union {own[f]}
  BY Zenon DEF Accepted, kernel, frame
<1>3. ctx' \in [Fds -> Ctxs \union {None}] /\ \A fd \in Fds : (ctx'[fd] = None) <=> (ctx[fd] = None)
  BY AcceptedCtx
<1>4. Shape' /\ Closed'
  BY <1>2, <1>3 DEF Fresh, Shape, Closed
<1>5. \A g \in Fibers \ {f} : own'[g] = own[g] /\ ip'[g] = ip[g]
  BY <1>2, Zenon DEF Fresh, Shape
<1>6. ASSUME NEW g \in Fibers  PROVE Leaves(g)' /\ Makes(g)'
  BY <1>1, <1>2, <1>3, <1>5 DEF Fresh, Leaves, Makes, Closing, Creating, Fd
<1> QED  BY <1>4, <1>6, Zenon DEF Fresh

\* A handler that takes its client preserves the invariant.
LEMMA HandleKeeps ==
  ASSUME Fresh, NEW f \in Fibers, Handle(f)  PROVE Fresh'
<1>1. /\ own[f] = None /\ UNCHANGED <<program, pc, ip, file, ctx>>
      /\ \E fd \in clients : own' = [own EXCEPT ![f] = fd] /\ clients' = clients \ {fd}
  BY Zenon DEF Handle, kernel, frame
<1>2. ~Creating(f) /\ ~Closing(f)
  <2>1. program[f] = <<Step("read", "own"), Step("close", "own")>> /\ ip[f] = 1
    BY Zenon DEF Handle, Handlers, handleClient
  <2>2. Fd(f) = own[f]
    BY <2>1 DEF Fd, Step
  <2> QED  BY <1>1, <2>2, HookAssumption DEF Fresh, Leaves, Makes
<1>3. Shape' /\ Closed'
  BY <1>1 DEF Fresh, Shape, Closed
<1>4. \A g \in Fibers \ {f} : own'[g] = own[g]
  BY <1>1, Zenon DEF Fresh, Shape
<1>5. ASSUME NEW g \in Fibers  PROVE Leaves(g)' /\ Makes(g)'
  BY <1>1, <1>2, <1>4 DEF Fresh, Leaves, Makes, Closing, Creating, Fd
<1> QED  BY <1>3, <1>5, Zenon DEF Fresh

\* Timers, reports and the kernel.
LEMMA WorldPlain ==
  ASSUME Fresh, UNCHANGED <<clients, program>>, UNCHANGED <<pc, ip, own, ctx>>,
         file' = file \/ \E fd \in Fds : Establish(fd)
  PROVE  Plain
<1>1. DOMAIN file' = Fds /\ \A fd \in Fds : (file'[fd] = "closed") <=> (file[fd] = "closed")
  BY Zenon DEF Fresh, Shape, Establish
<1> QED  BY <1>1, Zenon DEF Plain, Fresh, Shape

\* Every step preserves the invariant.
LEMMA FreshStep ==
  ASSUME Fresh, NoForeignClose, [ServerNext]_serverVars  PROVE Fresh'
<1>1. CASE \E f \in Fibers : (Fiber(f) \/ SocketCancelAll(f)) /\ UNCHANGED serverFrame
  <2>1. PICK f \in Fibers : (Fiber(f) \/ SocketCancelAll(f)) /\ UNCHANGED clients
    BY <1>1, Zenon DEF serverFrame
  <2>2. CASE Socket(f) \/ Get(f) \/ Create(f) \/ Fun(f)
    BY <2>1, <2>2, SocketKeeps, GetKeeps, CreateKeeps, FunKeeps
  <2>3. CASE ConnectFun(f) \/ CancelAll(f) \/ Del(f) \/ CloseFun(f)
    BY <2>1, <2>3, ConnectPlain, PlainKeeps, CloseKeeps
  <2> QED  BY <2>1, <2>2, <2>3, CallsPlain, PlainKeeps, Zenon DEF Fiber
<1>2. CASE \E f \in Fibers : Accepted(f) \/ Handle(f)
  BY <1>2, AcceptedKeeps, HandleKeeps
<1>3. CASE (\E t \in timers : Timer(t)) /\ UNCHANGED serverFrame
  <2>1. UNCHANGED <<clients, program, pc, ip, own, ctx, file>>
    BY <1>3, Zenon DEF Timer, Expire, WakeSleeper, Fire, CancelEvent, serverFrame, frame, kernel
  <2> QED  BY <2>1, WorldPlain, PlainKeeps
<1>4. CASE (\E fd \in Fds, e \in Events : Report(fd, e)) /\ UNCHANGED serverFrame
  <2>1. UNCHANGED <<clients, program, pc, ip, own, ctx, file>>
    BY <1>4, Zenon DEF Report, serverFrame, frame, kernel
  <2> QED  BY <2>1, WorldPlain, PlainKeeps
<1>5. CASE World /\ UNCHANGED serverFrame
  <2>1. /\ UNCHANGED <<clients, program>> /\ UNCHANGED <<pc, ip, own, ctx>>
        /\ file' = file \/ \E fd \in Fds : Establish(fd)
    BY <1>5, Zenon DEF World, Arrive, Drain, serverFrame, frame
  <2> QED  BY <2>1, WorldPlain, PlainKeeps
<1>6. CASE Stop \/ (\E f \in Fibers : TestStop(f)) \/ UNCHANGED serverVars
  <2>1. UNCHANGED <<clients, program, pc, ip, own, ctx, file>>
    BY <1>6, Zenon DEF Stop, TestStop, serverVars, vars, frame, kernel
  <2> QED  BY <2>1, WorldPlain, PlainKeeps
<1> QED  BY <1>1, <1>2, <1>3, <1>4, <1>5, <1>6, Zenon DEF ServerNext, ServerFiber

\* No descriptor has a FdCtx at first.
LEMMA FreshInit == ServerInit => Fresh
<1> SUFFICES ASSUME ServerInit  PROVE Fresh
  OBVIOUS
<1>1. Shape /\ Closed
  BY DEF ServerInit, Init, Shape, Closed, Ctxs, NewCtx
<1> QED  BY <1>1, Zenon DEF ServerInit, Init, Fresh, Leaves, Makes, Closing, Creating

\* The numbers that socket() and accept() return have no FdCtx from before, as
\* long as no fiber closes a descriptor that another one is just being given.
THEOREM CtxFresh == ServerSpec /\ []NoForeignClose => []FreshCtx
<1>1. Fresh => FreshCtx
  BY Zenon DEF Fresh, Makes, Creating, FreshCtx
<1>2. Fresh /\ NoForeignClose /\ [ServerNext]_serverVars => Fresh'
  BY FreshStep
<1> QED  BY <1>1, <1>2, FreshInit, PTL DEF ServerSpec

-----------------------------------------------------------------------------
(* Servers: fibers that accept, handle clients and stop the server. *)

Servers == \A p \in Programs, f \in Fibers : p[f] \in {startAccept, stop, handleClient, <<>>}

Has(f) == own[f] # None /\ ip[f] <= 2

\* Where the three can be, and when they have a socket.
Phase(f) ==
  /\ program[f] = startAccept =>
       /\ ~Closing(f)
       /\ own[f] # None => Creating(f) \/ (ip[f] = 2 /\ ret[f] = "ok")
  /\ program[f] # startAccept =>
       /\ ~Creating(f)
       /\ Closing(f) => ip[f] = 2
       /\ ip[f] = 2 => pc[f] \in {"call", "del", "close"}
  /\ program[f] = handleClient /\ own[f] = None => ip[f] = 1 /\ pc[f] = "call"
  /\ program[f] \notin {startAccept, handleClient} => own[f] = None

\* A connected descriptor is with one fiber or with the scheduler.
Owned ==
  /\ \A f \in Fibers : Has(f) => /\ own[f] \notin clients /\ own[f] # Listening
                                 /\ file[own[f]] = "connected"
  /\ \A f, g \in Fibers : Has(f) /\ Has(g) /\ own[f] = own[g] => f = g
  /\ \A fd \in clients : fd # None => fd # Listening /\ file[fd] = "connected"
  /\ \A fd \in Fds : file[fd] = "connected" => fd \in clients \/ \E f \in Fibers : Has(f) /\ own[f] = fd
  /\ file[Listening] \in {"listening", "closed"}
  /\ \A fd \in Fds \ {Listening} : file[fd] \in {"closed", "connected"}

Serving == Fresh /\ Owned /\ DOMAIN ret = Fibers /\ \A f \in Fibers : Phase(f)

\* A client that ::accept() has returned has the FdCtx that init() asks for.
Known ==
  \A f \in Fibers : program[f] = startAccept /\ own[f] # None => Creating(f) \/ ctx[own[f]] # None

\* The shape of the state of a server.
LEMMA ServingShape ==
  Serving => /\ DOMAIN pc = Fibers /\ ip \in [Fibers -> Nat \ {0}] /\ own \in [Fibers -> Fds \union {None}]
             /\ DOMAIN ret = Fibers /\ DOMAIN file = Fds /\ clients \subseteq Fds \union {None}
  BY Zenon DEF Serving, Fresh, Shape

\* A socket that a loop or a handler has is connected and not with the scheduler.
LEMMA HasSocket ==
  ASSUME Serving, NEW g \in Fibers, Has(g)
  PROVE  own[g] \in Fds /\ own[g] \notin clients /\ own[g] # Listening /\ file[own[g]] = "connected"
<1>1. own[g] \in Fds \union {None} /\ own[g] # None
  BY ServingShape, Zenon DEF Has
<1>2. \A f \in Fibers : Has(f) => /\ own[f] \notin clients /\ own[f] # Listening
                                  /\ file[own[f]] = "connected"
  BY Zenon DEF Serving, Owned
<1> QED  BY <1>1, <1>2, Zenon

\* A socket that the scheduler has is a connected one.
LEMMA ClientSocket ==
  ASSUME Serving, NEW fd \in clients, fd # None
  PROVE  fd \in Fds /\ fd # Listening /\ file[fd] = "connected"
<1>1. fd \in Fds \union {None}
  BY ServingShape, Zenon
<1>2. \A c \in clients : c # None => c # Listening /\ file[c] = "connected"
  BY Zenon DEF Serving, Owned
<1> QED  BY <1>1, <1>2, Zenon

\* The three programs of a server differ.
LEMMA RolesDiffer == startAccept # stop /\ startAccept # handleClient /\ stop # handleClient
<1>1. startAccept[1].op = "accept" /\ stop[1].op = "cancelAll" /\ handleClient[1].op = "read"
  BY DEF startAccept, stop, handleClient, Step
<1> QED  BY <1>1

\* The call that a fiber of a server is in.
Serves(f, role, i, op, fd) ==
  program[f] = role /\ ip[f] = i /\ Op(f) = op /\ Fd(f) = fd

\* What a fiber of a server can be calling, and on which descriptor.
LEMMA ServerCalls ==
  ASSUME Servers, Shape, NEW f \in Fibers, ip[f] <= Len(program[f])
  PROVE  \/ Serves(f, startAccept, 1, "accept", Listening)
         \/ Serves(f, stop, 1, "cancelAll", Listening) \/ Serves(f, stop, 2, "close", Listening)
         \/ Serves(f, handleClient, 1, "read", own[f]) \/ Serves(f, handleClient, 2, "close", own[f])
<1>1. program[f] \in {startAccept, stop, handleClient, <<>>} /\ ip[f] \in Nat \ {0}
  BY Zenon DEF Servers, Shape
<1>2. "own" # Listening
  BY HookAssumption, Zenon
<1>3. CASE program[f] = <<Step("accept", Listening)>>
  BY <1>1, <1>2, <1>3 DEF Serves, startAccept, Step, Op, Fd
<1>4. CASE program[f] = <<Step("cancelAll", Listening), Step("close", Listening)>>
  BY <1>1, <1>2, <1>4 DEF Serves, stop, Step, Op, Fd
<1>5. CASE program[f] = <<Step("read", "own"), Step("close", "own")>>
  BY <1>1, <1>5 DEF Serves, handleClient, Step, Op, Fd
<1>6. CASE program[f] = <<>>
  BY <1>1, <1>6
<1> QED  BY <1>1, <1>3, <1>4, <1>5, <1>6, Zenon DEF startAccept, stop, handleClient

\* Closes and makers have different descriptors.
LEMMA ServingApart ==
  ASSUME Servers, Serving  PROVE NoForeignClose
<1> SUFFICES ASSUME NEW f \in Fibers, NEW g \in Fibers, Closing(f), Creating(g)
             PROVE  Fd(f) # own[g]
  BY DEF NoForeignClose
<1>1. Shape /\ Owned /\ Phase(f) /\ Phase(g) /\ ip[f] <= Len(program[f]) /\ ip[g] <= Len(program[g])
  BY Zenon DEF Serving, Fresh, Shape, Closing, Creating
<1>2. Serves(g, startAccept, 1, "accept", Listening)
  BY <1>1, ServerCalls, RolesDiffer, Zenon DEF Phase, Serves
<1>3. own[g] # None
  BY HookAssumption, Zenon DEF Serving, Fresh, Makes
<1>4. Has(g) /\ own[g] # Listening
  BY <1>1, <1>2, <1>3 DEF Has, Serves, Owned
<1>5. \/ Serves(f, stop, 2, "close", Listening) \/ Serves(f, handleClient, 2, "close", own[f])
  BY <1>1, ServerCalls, RolesDiffer DEF Phase, Serves
<1>6. CASE Serves(f, handleClient, 2, "close", own[f])
  <2>1. Has(f) /\ Fd(f) = own[f] /\ f # g
    BY <1>1, <1>2, <1>6, RolesDiffer DEF Phase, Has, Serves
  <2> QED  BY <1>1, <1>4, <2>1 DEF Owned
<1> QED  BY <1>4, <1>5, <1>6, Zenon DEF Serves

\* Owned and Phase after a step.
Kept == Owned' /\ DOMAIN ret' = Fibers /\ \A f \in Fibers : Phase(f)'

\* A step that moves no descriptor from one owner to another preserves Owned.
LEMMA SameOwned ==
  ASSUME Owned, UNCHANGED <<own, file, clients>>, \A g \in Fibers : Has(g)' <=> Has(g)
  PROVE  Owned'
BY Zenon DEF Owned

\* Where a step of f can leave it.
LEMMA OneMoves ==
  ASSUME Serving, NEW f \in Fibers, NEW p, NEW v, Goto(f, p) \/ Return(f, v), program' = program,
         \A g \in Fibers \ {f} : own'[g] = own[g]
  PROVE  /\ DOMAIN ret' = Fibers
         /\ \A g \in Fibers \ {f} : Phase(g)' /\ (Has(g)' <=> Has(g))
         /\ \/ pc'[f] = p /\ ip'[f] = ip[f] /\ ret' = ret
            \/ pc'[f] = "call" /\ ip'[f] = ip[f] + 1 /\ ret'[f] = v
<1>1. /\ DOMAIN ret' = Fibers
      /\ \A g \in Fibers \ {f} : pc'[g] = pc[g] /\ ip'[g] = ip[g] /\ ret'[g] = ret[g]
      /\ \/ pc'[f] = p /\ ip'[f] = ip[f] /\ ret' = ret
         \/ pc'[f] = "call" /\ ip'[f] = ip[f] + 1 /\ ret'[f] = v
  <2>1. CASE Goto(f, p)
    BY <2>1, ServingShape DEF Goto
  <2>2. CASE Return(f, v)
    BY <2>2, ServingShape DEF Return
  <2> QED  BY <2>1, <2>2, Zenon
<1>2. ASSUME NEW g \in Fibers \ {f}  PROVE Phase(g)' /\ (Has(g)' <=> Has(g))
  <2>1. Phase(g) /\ pc'[g] = pc[g] /\ ip'[g] = ip[g] /\ ret'[g] = ret[g] /\ own'[g] = own[g] /\ program' = program
    BY <1>1, Zenon DEF Serving
  <2> QED  BY <2>1, Zenon DEF Phase, Has, Creating, Closing
<1> QED  BY <1>1, <1>2, Zenon

\* A call of a loop or a handler before its descriptor is made or closed.
LEMMA MovesServing ==
  ASSUME Servers, Serving, NEW f \in Fibers, Moves(f), ~Creating(f), Op(f) # "close",
         Fd(f) # None, UNCHANGED <<program, own, clients, file>>
  PROVE  Kept
<1>1. PICK p, v : (p \notin {"get", "create", "del", "close"} /\ Goto(f, p)) \/ Return(f, v)
  BY Zenon DEF Moves
<1>2. /\ DOMAIN ret' = Fibers
      /\ \A g \in Fibers \ {f} : Phase(g)' /\ (Has(g)' <=> Has(g))
      /\ \/ pc'[f] = p /\ p \notin {"get", "create", "del", "close"} /\ ip'[f] = ip[f]
         \/ pc'[f] = "call" /\ ip'[f] = ip[f] + 1
  <2>1. CASE Return(f, v)
    BY <2>1, OneMoves
  <2>2. CASE p \notin {"get", "create", "del", "close"} /\ Goto(f, p)
    BY <2>2, OneMoves, Zenon
  <2> QED  BY <1>1, <2>1, <2>2, Zenon
<1>3. /\ ip[f] = 1
      /\ \/ program[f] = startAccept
         \/ program[f] = stop
         \/ program[f] = handleClient /\ own[f] # None
  BY ServerCalls, Zenon DEF Moves, Serving, Fresh, Serves
<1>4. Phase(f)' /\ (Has(f)' <=> Has(f))
  <2>1. program[f] = startAccept => own[f] = None
    BY <1>3 DEF Serving, Phase
  <2> QED  BY <1>2, <1>3, <2>1, RolesDiffer DEF Serving, Phase, Has, Creating, Closing
<1>5. Owned'
  BY <1>2, <1>4, SameOwned DEF Serving
<1> QED  BY <1>2, <1>4, <1>5, Zenon DEF Kept

\* The system calls of a loop and a handler; accept() may have a client.
LEMMA FunServing ==
  ASSUME Servers, Serving, NEW f \in Fibers, UNCHANGED clients, Fun(f)
  PROVE  Kept
<1>1. /\ ip[f] <= Len(program[f]) /\ Op(f) \in IoOps /\ SystemCall(f, Fd(f)) /\ ~Creating(f)
      /\ UNCHANGED program /\ Fd(f) # None
  BY Zenon DEF Fun, At, frame, Creating, IoOps
<1>2. CASE Moves(f) /\ UNCHANGED <<own, file>>
  BY <1>1, <1>2, MovesServing DEF IoOps
<1>3. CASE /\ Op(f) = "accept" /\ Suits(f, Fd(f)) /\ Goto(f, "get")
           /\ \E new \in Fds : NewFile(f, new, "connected")
  <2>1. PICK new \in Fds : /\ file[new] = "closed" /\ file' = [file EXCEPT ![new] = "connected"]
                           /\ own' = [own EXCEPT ![f] = new]
    BY <1>3, Zenon DEF NewFile
  <2>2. Serves(f, startAccept, 1, "accept", Listening)
    BY <1>1, <1>3, ServerCalls DEF Serving, Fresh, Serves
  <2>3. file[Listening] = "listening" /\ new # Listening /\ own[f] = None
    BY <1>1, <1>3, <2>1, <2>2 DEF Suits, Serves, Serving, Phase
  <2>4. /\ own'[f] = new /\ file'[new] = "connected" /\ new # None
        /\ \A g \in Fibers \ {f} : own'[g] = own[g]
        /\ \A fd \in Fds \ {new} : file'[fd] = file[fd]
    BY <2>1, HookAssumption DEF Serving, Fresh, Shape
  <2>5. /\ DOMAIN ret' = Fibers /\ pc'[f] = "get" /\ ip'[f] = ip[f]
        /\ \A g \in Fibers \ {f} : Phase(g)' /\ (Has(g)' <=> Has(g))
    <3>1. Goto(f, "get") /\ pc'[f] = "get" /\ ip' = ip
      BY <1>3, ServingShape DEF Goto
    <3> QED  BY <1>1, <2>4, <3>1, OneMoves
  <2>6. Has(f)' /\ Phase(f)' /\ ~Has(f)
    <3>1. program'[f] = startAccept /\ ip[f] = 1
      BY <1>1, <2>2, Zenon DEF Serves
    <3>2. Creating(f)' /\ ~Closing(f)' /\ 1 <= 2
      BY <2>5 DEF Creating, Closing
    <3> QED  BY <2>3, <2>4, <2>5, <3>1, <3>2, RolesDiffer, Zenon DEF Has, Phase
  <2>7. new \notin clients /\ \A g \in Fibers : Has(g) => own[g] # new /\ own[g] \in Fds
    <3>1. file[new] # "connected" /\ new # None
      BY <2>1, <2>4
    <3> QED  BY <3>1, HasSocket, ClientSocket, Zenon
  <2>8. Owned'
    <3>1. \A g \in Fibers \ {f} : Has(g)' => Has(g) /\ own'[g] = own[g] /\ own[g] # new /\ own[g] \in Fds
      BY <2>4, <2>5, <2>7
    <3>2. \A fd \in clients : fd # None => fd \in Fds \ {new}
      BY <2>7, ClientSocket, Zenon
    <3>3. \A g \in Fibers : Has(g)' => own'[g] \notin clients /\ own'[g] # Listening /\ file'[own'[g]] = "connected"
      <4> SUFFICES ASSUME NEW g \in Fibers, Has(g)'
                   PROVE  own'[g] \notin clients /\ own'[g] # Listening /\ file'[own'[g]] = "connected"
        OBVIOUS
      <4>1. CASE g = f
        BY <2>3, <2>4, <2>7, <4>1, Zenon
      <4>2. CASE g # f
        <5>1. Has(g) /\ own'[g] = own[g] /\ own[g] \in Fds \ {new}
          BY <3>1, <4>2, Zenon
        <5>2. file'[own[g]] = file[own[g]]
          BY <2>4, <5>1, Zenon
        <5> QED  BY <5>1, <5>2, HasSocket, Zenon
      <4> QED  BY <4>1, <4>2, Zenon
    <3>4. \A g, h \in Fibers : Has(g)' /\ Has(h)' /\ own'[g] = own'[h] => g = h
      BY <2>4, <3>1 DEF Serving, Owned
    <3>5. \A fd \in Fds : file'[fd] = "connected" => fd \in clients \/ \E g \in Fibers : Has(g)' /\ own'[g] = fd
      <4> SUFFICES ASSUME NEW fd \in Fds, file'[fd] = "connected", fd \notin clients
                   PROVE  \E g \in Fibers : Has(g)' /\ own'[g] = fd
        OBVIOUS
      <4>1. CASE fd # new
        <5>1. PICK g \in Fibers : Has(g) /\ own[g] = fd
          BY <2>4, <4>1 DEF Serving, Owned
        <5> QED  BY <2>4, <2>5, <2>6, <5>1
      <4> QED  BY <2>4, <2>6, <4>1
    <3>6. \A fd \in clients : fd # None => fd # Listening /\ file'[fd] = "connected"
      BY <2>4, <3>2 DEF Serving, Owned
    <3>7. /\ file'[Listening] \in {"listening", "closed"}
          /\ \A fd \in Fds \ {Listening} : file'[fd] \in {"closed", "connected"}
      BY <2>3, <2>4, HookAssumption DEF Serving, Owned
    <3> QED  BY <3>3, <3>4, <3>5, <3>6, <3>7, Zenon DEF Owned
  <2> QED  BY <2>5, <2>6, <2>8, Zenon DEF Kept
<1> QED  BY <1>1, <1>2, <1>3, Zenon DEF SystemCall, Moves, kernel

\* The FdCtx of a client is made: the client stays with the loop.
LEMMA GetServing ==
  ASSUME Servers, Serving, NEW f \in Fibers, UNCHANGED clients, Get(f) \/ Create(f)
  PROVE  Kept
<1>1. /\ ip[f] <= Len(program[f]) /\ Creating(f) /\ UNCHANGED <<program, own, file>>
      /\ Goto(f, "create") \/ Return(f, "ok")
  BY Zenon DEF Get, Create, At, Creating, kernel, frame
<1>2. Serves(f, startAccept, 1, "accept", Listening) /\ own[f] # None
  <2>1. Serves(f, startAccept, 1, "accept", Listening)
    BY <1>1, ServerCalls, RolesDiffer, Zenon DEF Serving, Fresh, Serves, Phase
  <2> QED  BY <1>1, <2>1, HookAssumption DEF Serving, Fresh, Makes
<1>3. /\ DOMAIN ret' = Fibers
      /\ \A g \in Fibers \ {f} : Phase(g)' /\ (Has(g)' <=> Has(g))
      /\ \/ pc'[f] = "create" /\ ip'[f] = ip[f]
         \/ pc'[f] = "call" /\ ip'[f] = ip[f] + 1 /\ ret'[f] = "ok"
  BY <1>1, OneMoves
<1>4. Phase(f)' /\ (Has(f)' <=> Has(f))
  <2>1. program'[f] = startAccept /\ own'[f] = own[f] /\ own[f] # None /\ ip[f] = 1
    BY <1>1, <1>2, Zenon DEF Serves
  <2>2. /\ ~Closing(f)' /\ (Creating(f)' \/ (ip'[f] = 2 /\ ret'[f] = "ok"))
        /\ ip[f] <= 2 /\ ip'[f] <= 2
    BY <1>3, <2>1 DEF Creating, Closing
  <2> QED  BY <2>1, <2>2, Zenon DEF Phase, Has
<1>5. Owned'
  BY <1>1, <1>3, <1>4, SameOwned DEF Serving
<1> QED  BY <1>3, <1>4, <1>5, Zenon DEF Kept

\* What is closed: the listening socket, or the handler's own client.
LEMMA Closes ==
  ASSUME Servers, Serving, NEW f \in Fibers, CancelAll(f) \/ Del(f) \/ CloseFun(f)
  PROVE  /\ UNCHANGED <<program, own>>
         /\ Serves(f, stop, 2, "close", Listening) \/ Serves(f, handleClient, 2, "close", own[f])
<1>1. ip[f] <= Len(program[f]) /\ UNCHANGED <<program, own>> /\ (Closing(f) \/ Op(f) = "close")
  BY Zenon DEF CancelAll, Del, CloseFun, At, Closing, frame
<1>2. Serves(f, stop, 2, "close", Listening) \/ Serves(f, handleClient, 2, "close", own[f])
  <2>1. Phase(f)
    BY Zenon DEF Serving
  <2>2. \/ Serves(f, startAccept, 1, "accept", Listening)
        \/ Serves(f, stop, 1, "cancelAll", Listening) \/ Serves(f, stop, 2, "close", Listening)
        \/ Serves(f, handleClient, 1, "read", own[f]) \/ Serves(f, handleClient, 2, "close", own[f])
    BY <1>1, ServerCalls, Zenon DEF Serving, Fresh
  <2>3. /\ "accept" # "close" /\ "cancelAll" # "close" /\ "read" # "close" /\ 1 # 2
    OBVIOUS
  <2>4. ~Serves(f, startAccept, 1, "accept", Listening)
    BY <1>1, <2>1, <2>3, Zenon DEF Serves, Phase
  <2>5. ~Serves(f, stop, 1, "cancelAll", Listening)
    BY <1>1, <2>1, <2>3, RolesDiffer, Zenon DEF Serves, Phase
  <2>6. ~Serves(f, handleClient, 1, "read", own[f])
    BY <1>1, <2>1, <2>3, RolesDiffer, Zenon DEF Serves, Phase
  <2> QED  BY <2>2, <2>4, <2>5, <2>6, Zenon
<1> QED  BY <1>1, <1>2, Zenon

\* stop() and handleClient() close.
LEMMA CloseServing ==
  ASSUME Servers, Serving, NEW f \in Fibers, UNCHANGED clients, CancelAll(f) \/ Del(f) \/ CloseFun(f)
  PROVE  Kept
<1>1. UNCHANGED <<program, own>>
  BY Closes, Zenon
<1>2. Serves(f, stop, 2, "close", Listening) \/ Serves(f, handleClient, 2, "close", own[f])
  BY Closes, Zenon
<1>3. program[f] = handleClient => own[f] # None
  BY <1>2 DEF Serves, Serving, Phase
<1>4. CASE (CancelAll(f) \/ Del(f)) /\ ~CloseFun(f)
  <2>1. PICK p \in {"del", "close"} : Goto(f, p) /\ UNCHANGED file
    BY <1>4, Zenon DEF CancelAll, Del, kernel
  <2>2. pc'[f] = p /\ ip' = ip
    BY <2>1, ServingShape DEF Goto
  <2>3. DOMAIN ret' = Fibers /\ \A g \in Fibers \ {f} : Phase(g)' /\ (Has(g)' <=> Has(g))
    BY <1>1, <2>1, OneMoves, Zenon
  <2>4. Phase(f)' /\ (Has(f)' <=> Has(f))
    <3>1. Phase(f) /\ program' = program /\ own' = own /\ ip[f] = 2 /\ (program[f] = stop \/ program[f] = handleClient)
      BY <1>1, <1>2, Zenon DEF Serves, Serving
    <3>2. ~Creating(f)' /\ p \in {"call", "del", "close"}
      BY <2>2 DEF Creating
    <3> QED  BY <1>3, <2>2, <3>1, <3>2, RolesDiffer, Zenon DEF Phase, Has
  <2>5. Owned'
    BY <1>1, <2>1, <2>3, <2>4, SameOwned, Zenon DEF Serving
  <2> QED  BY <2>3, <2>4, <2>5, Zenon DEF Kept
<1>5. CASE CloseFun(f)
  <2>1. PICK v : Return(f, v) /\ file' = [file EXCEPT ![Fd(f)] = "closed"]
    BY <1>5, Zenon DEF CloseFun
  <2>2. pc'[f] = "call" /\ ip'[f] = 3
    <3>1. ip[f] = 2
      BY <1>2, Zenon DEF Serves
    <3> QED  BY <2>1, <3>1, ServingShape DEF Return
  <2>3. DOMAIN ret' = Fibers /\ \A g \in Fibers \ {f} : Phase(g)' /\ (Has(g)' <=> Has(g))
    BY <1>1, <2>1, OneMoves, Zenon
  <2>4. Phase(f)' /\ ~Has(f)'
    <3>1. Phase(f) /\ program' = program /\ own' = own /\ (program[f] = stop \/ program[f] = handleClient)
      BY <1>1, <1>2, Zenon DEF Serves, Serving
    <3>2. ~Creating(f)' /\ ~Closing(f)' /\ ~(3 <= 2) /\ 3 # 2
      BY <2>2 DEF Creating, Closing
    <3> QED  BY <1>3, <2>2, <3>1, <3>2, RolesDiffer, Zenon DEF Phase, Has
  <2>5. /\ \/ Fd(f) = Listening /\ ~Has(f)
           \/ Fd(f) = own[f] /\ Has(f)
        /\ Fd(f) \in Fds
    <3>1. CASE Serves(f, stop, 2, "close", Listening)
      <4>1. Phase(f) /\ program[f] = stop /\ Fd(f) = Listening
        BY <3>1, Zenon DEF Serves, Serving
      <4>2. own[f] = None
        BY <4>1, RolesDiffer, Zenon DEF Phase
      <4> QED  BY <4>1, <4>2, HookAssumption, Zenon DEF Has
    <3>2. CASE Serves(f, handleClient, 2, "close", own[f])
      <4>1. program[f] = handleClient /\ Fd(f) = own[f] /\ ip[f] = 2 /\ 2 <= 2
        BY <3>2 DEF Serves
      <4> QED  BY <1>3, <4>1, ServingShape, Zenon DEF Has
    <3> QED  BY <1>2, <3>1, <3>2, Zenon
  <2>6. /\ file'[Fd(f)] = "closed" /\ \A fd \in Fds \ {Fd(f)} : file'[fd] = file[fd]
    BY <2>1, <2>5, ServingShape
  <2>7. Owned'
    <3>1. \A g \in Fibers : Has(g)' => Has(g) /\ own[g] # Fd(f) /\ own[g] \in Fds
      <4>1. \A g \in Fibers : Has(g)' => g # f /\ Has(g)
        BY <2>3, <2>4, Zenon
      <4>2. \A g \in Fibers : Has(g) => own[g] \in Fds /\ own[g] # Listening
        BY HasSocket, Zenon
      <4>3. \A g \in Fibers : Has(g) /\ Has(f) /\ own[g] = own[f] => g = f
        BY Zenon DEF Serving, Owned
      <4> QED  BY <2>5, <4>1, <4>2, <4>3, Zenon
    <3>2. \A fd \in clients : fd # None => fd \in Fds \ {Fd(f)}
      <4>1. \A fd \in clients : fd # None => fd \in Fds /\ fd # Listening
        BY ClientSocket, Zenon
      <4>2. Has(f) => own[f] \notin clients
        BY HasSocket, Zenon
      <4> QED  BY <2>5, <4>1, <4>2, Zenon
    <3>3. \A g \in Fibers : Has(g)' => own'[g] \notin clients /\ own'[g] # Listening /\ file'[own'[g]] = "connected"
      BY <1>1, <2>6, <3>1 DEF Serving, Owned
    <3>4. \A g, h \in Fibers : Has(g)' /\ Has(h)' /\ own'[g] = own'[h] => g = h
      BY <1>1, <3>1, Zenon DEF Serving, Owned
    <3>5. \A fd \in Fds : file'[fd] = "connected" => fd \in clients \/ \E g \in Fibers : Has(g)' /\ own'[g] = fd
      <4> SUFFICES ASSUME NEW fd \in Fds, file'[fd] = "connected", fd \notin clients
                   PROVE  \E g \in Fibers : Has(g)' /\ own'[g] = fd
        OBVIOUS
      <4>1. fd # Fd(f) /\ file[fd] = "connected" /\ fd # Listening
        BY <2>6 DEF Serving, Owned
      <4>2. PICK g \in Fibers : Has(g) /\ own[g] = fd
        BY <4>1 DEF Serving, Owned
      <4> QED  BY <1>1, <2>3, <2>5, <4>1, <4>2
    <3>6. \A fd \in clients : fd # None => fd # Listening /\ file'[fd] = "connected"
      BY <2>6, <3>2 DEF Serving, Owned
    <3>7. /\ file'[Listening] \in {"listening", "closed"}
          /\ \A fd \in Fds \ {Listening} : file'[fd] \in {"closed", "connected"}
      BY <2>6, HookAssumption DEF Serving, Owned
    <3> QED  BY <3>3, <3>4, <3>5, <3>6, <3>7, Zenon DEF Owned
  <2> QED  BY <2>3, <2>4, <2>7, Zenon DEF Kept
<1> QED  BY <1>4, <1>5

\* The loop passes the client on, ...
LEMMA AcceptedServing ==
  ASSUME Servers, Serving, Known, NEW f \in Fibers, Accepted(f)  PROVE Kept
<1>1. program[f] = startAccept /\ ip[f] = 2 /\ pc[f] = "call"
  <2>1. program[f] = startAccept /\ program[f] = <<Step("accept", Listening)>> /\ ip[f] = 2
    BY Zenon DEF Accepted, Acceptors, startAccept
  <2>2. ~(ip[f] <= Len(program[f]))
    BY <2>1
  <2> QED  BY <2>1, <2>2, Zenon DEF Serving, Fresh, Shape
<1>2. /\ ip' = [ip EXCEPT ![f] = 1] /\ own' = [own EXCEPT ![f] = None] /\ UNCHANGED <<program, pc, ret, file>>
      /\ IF ret[f] = "ok" /\ ctx[own[f]] # None THEN clients' = clients \union {own[f]} ELSE clients' = clients
  BY Zenon DEF Accepted, init, kernel, frame
<1>3. /\ ip'[f] = 1 /\ own'[f] = None
      /\ \A g \in Fibers \ {f} : ip'[g] = ip[g] /\ own'[g] = own[g]
  BY <1>2, Zenon DEF Serving, Fresh, Shape
<1>4. /\ \A g \in Fibers \ {f} : Phase(g)' /\ (Has(g)' <=> Has(g))
      /\ Phase(f)' /\ ~Has(f)'
  <2>1. ~Creating(f) /\ ~Closing(f)
    BY <1>1 DEF Creating, Closing
  <2>2. Phase(f)' /\ ~Has(f)'
    BY <1>1, <1>2, <1>3, <2>1, RolesDiffer, Zenon DEF Phase, Has, Creating, Closing
  <2>3. ASSUME NEW g \in Fibers \ {f}  PROVE Phase(g)' /\ (Has(g)' <=> Has(g))
    <3>1. pc'[g] = pc[g] /\ ip'[g] = ip[g] /\ own'[g] = own[g] /\ ret'[g] = ret[g] /\ program' = program
      BY <1>2, <1>3, Zenon
    <3>2. Phase(g)
      BY DEF Serving
    <3> QED  BY <3>1, <3>2, Zenon DEF Phase, Has, Creating, Closing
  <2> QED  BY <2>2, <2>3, Zenon
<1>5. own[f] # None => ret[f] = "ok" /\ ctx[own[f]] # None /\ Has(f)
  BY <1>1 DEF Serving, Phase, Creating, Has, Known
<1>6. Owned'
  <2>1. \A g \in Fibers : Has(g)' => Has(g) /\ own'[g] = own[g] /\ own[g] # own[f]
    <3>1. Owned
      BY Zenon DEF Serving
    <3>2. \A g \in Fibers : Has(g)' => g # f /\ Has(g) /\ own'[g] = own[g] /\ own[g] # None
      BY <1>3, <1>4, Zenon DEF Has
    <3> QED  BY <1>5, <3>1, <3>2, Zenon DEF Owned
  <2>2. \A g \in Fibers : Has(g)' => own'[g] \notin clients' /\ own'[g] # Listening /\ file'[own'[g]] = "connected"
    BY <1>2, <2>1 DEF Serving, Owned
  <2>3. \A g, h \in Fibers : Has(g)' /\ Has(h)' /\ own'[g] = own'[h] => g = h
    BY <2>1, Zenon DEF Serving, Owned
  <2>4. \A fd \in Fds : file'[fd] = "connected" => fd \in clients' \/ \E g \in Fibers : Has(g)' /\ own'[g] = fd
    <3> SUFFICES ASSUME NEW fd \in Fds, file[fd] = "connected", fd \notin clients'
                 PROVE  \E g \in Fibers : Has(g)' /\ own'[g] = fd
      BY <1>2
    <3>1. PICK g \in Fibers : Has(g) /\ own[g] = fd
      BY <1>2 DEF Serving, Owned
    <3>2. g # f
      BY <1>2, <1>5, <3>1 DEF Has
    <3> QED  BY <1>3, <1>4, <3>1, <3>2
  <2>5. \A fd \in clients' : fd # None => fd # Listening /\ file'[fd] = "connected"
    BY <1>2, <1>5 DEF Serving, Owned
  <2>6. /\ file'[Listening] \in {"listening", "closed"}
        /\ \A fd \in Fds \ {Listening} : file'[fd] \in {"closed", "connected"}
    BY <1>2, Zenon DEF Serving, Owned
  <2> QED  BY <2>2, <2>3, <2>4, <2>5, <2>6, Zenon DEF Owned
<1> QED  BY <1>2, <1>4, <1>6, Zenon DEF Kept, Serving

\* ... and a handler takes it.
LEMMA HandleServing ==
  ASSUME Servers, Serving, NEW f \in Fibers, Handle(f)  PROVE Kept
<1>1. /\ program[f] = handleClient /\ ip[f] = 1 /\ own[f] = None /\ UNCHANGED <<program, pc, ip, ret, file>>
  BY Zenon DEF Handle, Handlers, kernel, frame
<1>2. PICK new \in clients : own' = [own EXCEPT ![f] = new] /\ clients' = clients \ {new}
  BY Zenon DEF Handle
<1>3. own'[f] = new /\ \A g \in Fibers \ {f} : own'[g] = own[g]
  BY <1>2, Zenon DEF Serving, Fresh, Shape
<1>4. /\ \A g \in Fibers \ {f} : Phase(g)' /\ (Has(g)' <=> Has(g))
      /\ Phase(f)' /\ (Has(f)' <=> new # None) /\ ~Has(f)
  <2>1. Phase(f)' /\ (Has(f)' <=> new # None) /\ ~Has(f)
    <3>1. Phase(f) /\ program'[f] = handleClient /\ ip'[f] = 1 /\ pc'[f] = "call" /\ 1 <= 2 /\ 1 # 2
      <4>1. Phase(f)
        BY Zenon DEF Serving
      <4>2. pc[f] = "call"
        BY <1>1, <4>1, Zenon DEF Phase
      <4> QED  BY <1>1, <4>1, <4>2
    <3>2. ~Creating(f)' /\ ~Closing(f)'
      BY <3>1 DEF Creating, Closing
    <3> QED  BY <1>1, <1>3, <3>1, <3>2, RolesDiffer, Zenon DEF Phase, Has
  <2> QED  BY <1>1, <1>3, <2>1, Zenon DEF Serving, Phase, Has, Creating, Closing
<1>5. Owned'
  <2>1. \A g \in Fibers : Has(g)' => \/ g = f /\ own'[g] = new /\ new # None
                                     \/ g # f /\ Has(g) /\ own'[g] = own[g] /\ own[g] # new
    <3>1. \A g \in Fibers : Has(g) => own[g] # new
      BY HasSocket, Zenon
    <3> QED  BY <1>3, <1>4, <3>1, Zenon
  <2>2. \A g \in Fibers : Has(g)' => own'[g] \notin clients' /\ own'[g] # Listening /\ file'[own'[g]] = "connected"
    BY <1>1, <1>2, <2>1 DEF Serving, Owned
  <2>3. \A g, h \in Fibers : Has(g)' /\ Has(h)' /\ own'[g] = own'[h] => g = h
    BY <2>1, Zenon DEF Serving, Owned
  <2>4. \A fd \in Fds : file'[fd] = "connected" => fd \in clients' \/ \E g \in Fibers : Has(g)' /\ own'[g] = fd
    <3> SUFFICES ASSUME NEW fd \in Fds, file[fd] = "connected", fd \notin clients'
                 PROVE  \E g \in Fibers : Has(g)' /\ own'[g] = fd
      BY <1>1
    <3>1. CASE fd = new
      BY <1>3, <1>4, <3>1, HookAssumption
    <3>2. CASE fd # new
      <4>1. PICK g \in Fibers : Has(g) /\ own[g] = fd
        BY <1>2, <3>2, Zenon DEF Serving, Owned
      <4> QED  BY <1>3, <1>4, <4>1, Zenon
    <3> QED  BY <3>1, <3>2
  <2>5. \A fd \in clients' : fd # None => fd # Listening /\ file'[fd] = "connected"
    BY <1>1, <1>2, Zenon DEF Serving, Owned
  <2>6. /\ file'[Listening] \in {"listening", "closed"}
        /\ \A fd \in Fds \ {Listening} : file'[fd] \in {"closed", "connected"}
    BY <1>1, Zenon DEF Serving, Owned
  <2> QED  BY <2>2, <2>3, <2>4, <2>5, <2>6, Zenon DEF Owned
<1> QED  BY <1>1, <1>4, <1>5, Zenon DEF Kept, Serving

\* A step that moves no fiber and no descriptor.
LEMMA StillServing ==
  ASSUME Serving, UNCHANGED <<clients, program, pc, ip, own, ret, file>>  PROVE Kept
<1>1. \A g \in Fibers : Phase(g)' /\ (Has(g)' <=> Has(g))
  BY Zenon DEF Serving, Phase, Has, Creating, Closing
<1>2. Owned'
  BY <1>1, SameOwned DEF Serving
<1> QED  BY <1>1, <1>2, Zenon DEF Kept, Serving

\* Every hooked call of a server leaves each client its owner.
LEMMA FiberServing ==
  ASSUME Servers, Serving, NEW f \in Fibers, UNCHANGED clients, Fiber(f) \/ SocketCancelAll(f)
  PROVE  Kept
<1>1. At(f, pc[f])
  BY Zenon DEF Fiber, SocketCancelAll, Socket, Get, Create, Enter, Fun, ConnectFun, Arm, AddEvent, Resume,
       CancelTimer, Test, SockOpt, Sleep, SetSockOpt, SetNonblock, CancelAll, Del, CloseFun, At
<1>2. /\ Op(f) \in {"accept", "cancelAll", "close", "read"} /\ Fd(f) # None
      /\ Op(f) = "close" => pc[f] \in {"call", "del", "close"}
      /\ Op(f) # "close" => ~Closing(f)
  <2>1. Shape /\ ip[f] <= Len(program[f]) /\ (Op(f) \in {"socket", "sleep"} \/ Fd(f) # None)
    BY <1>1, Zenon DEF At, Serving, Fresh
  <2>2. Phase(f)
    BY DEF Serving
  <2> QED  BY <2>1, <2>2, ServerCalls, RolesDiffer DEF Phase, Serves
<1>3. CASE Get(f) \/ Create(f)
  BY <1>3, GetServing
<1>4. CASE Fun(f)
  BY <1>4, FunServing
<1>5. CASE CancelAll(f) \/ Del(f) \/ CloseFun(f)
  BY <1>5, CloseServing
<1>6. CASE AddEvent(f) /\ aborted'
  <2>1. UNCHANGED <<program, pc, ip, own, ret, file>>
    BY <1>6, Zenon DEF AddEvent, At, kernel
  <2> QED  BY <2>1, StillServing
<1>7. CASE Enter(f) \/ Arm(f) \/ (AddEvent(f) /\ ~aborted') \/ Resume(f) \/ CancelTimer(f) \/ Test(f)
           \/ SockOpt(f) \/ SocketCancelAll(f)
  <2>1. Moves(f) /\ UNCHANGED <<program, own, file>>
    BY <1>7, CallsMove, Zenon
  <2>2. ~Creating(f) /\ Op(f) # "close"
    BY <1>2, <1>7, Zenon DEF Enter, Arm, AddEvent, Resume, CancelTimer, Test, SockOpt, SocketCancelAll, At, Creating, IoOps
  <2> QED  BY <1>2, <2>1, <2>2, MovesServing
<1>8. ~Socket(f) /\ ~ConnectFun(f) /\ ~Sleep(f) /\ ~SetSockOpt(f) /\ ~SetNonblock(f)
  BY <1>2, Zenon DEF Socket, ConnectFun, Sleep, SetSockOpt, SetNonblock
<1> QED  BY <1>3, <1>4, <1>5, <1>6, <1>7, <1>8, Zenon DEF Fiber

\* Every step of a server preserves the invariant.
LEMMA ServingStep ==
  ASSUME Servers, Serving, Known, [ServerNext]_serverVars  PROVE Serving'
<1>1. Fresh'
  BY ServingApart, FreshStep DEF Serving
<1>2. Kept
  <2>1. CASE \E f \in Fibers : (Fiber(f) \/ SocketCancelAll(f)) /\ UNCHANGED serverFrame
    BY <2>1, FiberServing DEF serverFrame
  <2>2. CASE \E f \in Fibers : Accepted(f) \/ Handle(f)
    BY <2>2, AcceptedServing, HandleServing
  <2>3. CASE (\E t \in timers : Timer(t)) /\ UNCHANGED serverFrame
    <3>1. UNCHANGED <<clients, program, pc, ip, own, ret, file>>
      BY <2>3, Zenon DEF Timer, Expire, WakeSleeper, Fire, CancelEvent, serverFrame, frame, kernel
    <3> QED  BY <3>1, StillServing
  <2>4. CASE (\E fd \in Fds, e \in Events : Report(fd, e)) /\ UNCHANGED serverFrame
    <3>1. UNCHANGED <<clients, program, pc, ip, own, ret, file>>
      BY <2>4, Zenon DEF Report, serverFrame, frame, kernel
    <3> QED  BY <3>1, StillServing
  <2>5. CASE World /\ UNCHANGED serverFrame
    <3>1. \A fd \in Fds : ~Establish(fd)
      BY HookAssumption, Zenon DEF Establish, Serving, Owned
    <3>2. UNCHANGED <<clients, program, pc, ip, own, ret, file>>
      BY <2>5, <3>1, Zenon DEF World, Arrive, Drain, serverFrame, frame
    <3> QED  BY <3>2, StillServing
  <2>6. CASE Stop \/ (\E f \in Fibers : TestStop(f)) \/ UNCHANGED serverVars
    <3>1. UNCHANGED <<clients, program, pc, ip, own, ret, file>>
      BY <2>6, Zenon DEF Stop, TestStop, serverVars, vars, frame, kernel
    <3> QED  BY <3>1, StillServing
  <2> QED  BY <2>1, <2>2, <2>3, <2>4, <2>5, <2>6, Zenon DEF ServerNext, ServerFiber
<1> QED  BY <1>1, <1>2, Zenon DEF Serving, Kept

\* An accepted client keeps its FdCtx in a step that makes and deletes none.
LEMMA PlainKnown ==
  ASSUME Serving, Known, Plain, \A f \in Fibers : Creating(f) => Creating(f)'  PROVE Known'
<1>1. own \in [Fibers -> Fds \union {None}]
  BY ServingShape
<1> QED  BY <1>1, Zenon DEF Known, Plain

\* A call that is not making a descriptor leaves those that do where they are.
LEMMA MovesCreating ==
  ASSUME Serving, NEW f \in Fibers, Moves(f), ~Creating(f)
  PROVE  \A g \in Fibers : Creating(g) => Creating(g)'
<1>1. \A g \in Fibers \ {f} : pc'[g] = pc[g]
  BY ServingShape, Zenon DEF Moves, Return, Goto
<1> QED  BY <1>1, Zenon DEF Creating

\* accept() has the client without its FdCtx first, ...
LEMMA FunKnown ==
  ASSUME Serving, Known, NEW f \in Fibers, UNCHANGED clients, Fun(f)  PROVE Known'
<1>1. SystemCall(f, Fd(f)) /\ ip[f] <= Len(program[f]) /\ ~Creating(f) /\ UNCHANGED <<program, ctx>>
  BY Zenon DEF Fun, At, frame, Creating
<1>2. CASE Moves(f) /\ UNCHANGED <<own, file>>
  BY <1>1, <1>2, MovesCreating, MovesPlain, PlainKnown, Zenon DEF Serving, Fresh, Shape
<1>3. CASE Opens(f)
  <2>1. PICK fd \in Fds : own' = [own EXCEPT ![f] = fd] /\ pc' = [pc EXCEPT ![f] = "get"]
    BY <1>3, Zenon DEF Opens, NewFile, Goto
  <2>2. /\ pc'[f] = "get"
        /\ \A g \in Fibers \ {f} : own'[g] = own[g] /\ pc'[g] = pc[g]
    BY <2>1, ServingShape
  <2> QED  BY <1>1, <2>2, Zenon DEF Known, Creating
<1> QED  BY <1>1, <1>2, <1>3, Zenon DEF SystemCall, Opens, Moves, kernel

\* ... get(fd, true) makes one, ...
LEMMA GetKnown ==
  ASSUME Serving, Known, NEW f \in Fibers, Get(f) \/ Create(f)  PROVE Known'
<1>1. /\ UNCHANGED <<program, own>> /\ Creating(f)
      /\ \/ Goto(f, "create") /\ ctx' = ctx
         \/ Return(f, "ok") /\ ctx[own[f]] # None /\ ctx' = ctx
         \/ Return(f, "ok") /\ ctx' = [ctx EXCEPT ![own[f]] = NewCtx]
  BY Zenon DEF Get, Create, At, Creating, frame
<1>2. own[f] \in Fds /\ NewCtx # None /\ ctx \in [Fds -> Ctxs \union {None}]
  <2>1. NewCtx \in Ctxs /\ None \notin Ctxs
    BY HookAssumption DEF NewCtx, Ctxs
  <2> QED  BY <1>1, <2>1, Zenon DEF Serving, Fresh, Shape, Makes
<1>3. /\ \A fd \in Fds : ctx[fd] # None => ctx'[fd] # None
      /\ \A g \in Fibers \ {f} : pc'[g] = pc[g]
      /\ pc'[f] = "create" \/ ctx'[own[f]] # None
  BY <1>1, <1>2, ServingShape DEF Goto, Return
<1>4. own \in [Fibers -> Fds \union {None}]
  BY ServingShape
<1> QED  BY <1>1, <1>3, <1>4 DEF Known, Creating

\* ... and it is deleted by the client's own handler only.
LEMMA CloseKnown ==
  ASSUME Servers, Serving, Known, NEW f \in Fibers, CancelAll(f) \/ Del(f) \/ CloseFun(f)
  PROVE  Known'
<1>1. /\ UNCHANGED <<program, own>>
      /\ ctx' = ctx \/ ctx' = [ctx EXCEPT ![Fd(f)] = None]
      /\ \A g \in Fibers \ {f} : pc'[g] = pc[g]
  <2>1. ctx' = ctx \/ ctx' = [ctx EXCEPT ![Fd(f)] = None]
    BY Zenon DEF CancelAll, Del, CloseFun
  <2>2. (\E p : Goto(f, p)) \/ \E v : Return(f, v)
    BY Zenon DEF CancelAll, Del, CloseFun
  <2> QED  BY <2>1, <2>2, Closes, ServingShape DEF Goto, Return
<1>2. Serves(f, stop, 2, "close", Listening) \/ Serves(f, handleClient, 2, "close", own[f])
  BY Closes
<1>3. ASSUME NEW g \in Fibers, program[g] = startAccept, own[g] # None
      PROVE  g # f /\ own[g] \in Fds /\ own[g] # Fd(f)
  <2>1. g # f
    BY <1>2, <1>3, RolesDiffer, Zenon DEF Serves
  <2>2. Has(g)
    <3>1. Len(startAccept) = 1 /\ ip[g] \in Nat
      BY ServingShape DEF startAccept
    <3>2. ip[g] = 2 \/ ip[g] <= 1
      BY <1>3, <3>1, Zenon DEF Serving, Phase, Fresh, Shape, Creating
    <3> QED  BY <1>3, <3>1, <3>2 DEF Has
  <2>3. own[g] \in Fds /\ own[g] # Listening
    BY <2>2, HasSocket
  <2>4. CASE Serves(f, handleClient, 2, "close", own[f])
    <3>1. Fd(f) = own[f] /\ (own[f] # None => Has(f))
      BY <2>4 DEF Serves, Has
    <3> QED  BY <1>3, <2>1, <2>2, <2>3, <3>1, Zenon DEF Serving, Owned
  <2> QED  BY <1>2, <2>1, <2>3, <2>4, Zenon DEF Serves
<1>4. \A fd \in Fds : fd # Fd(f) => ctx'[fd] = ctx[fd]
  BY <1>1, Zenon DEF Serving, Fresh, Shape
<1>5. ASSUME NEW g \in Fibers, program[g] = startAccept, own[g] # None
      PROVE  Creating(g)' \/ ctx'[own[g]] # None
  BY <1>1, <1>3, <1>4, <1>5, Zenon DEF Known, Creating
<1> QED  BY <1>1, <1>5, Zenon DEF Known

\* The server's own steps leave the other clients as they are.
LEMMA ServerKnown ==
  ASSUME Serving, Known, NEW f \in Fibers, Accepted(f) \/ Handle(f)  PROVE Known'
<1>1. CASE Accepted(f)
  <2>1. /\ UNCHANGED <<program, pc>> /\ own' = [own EXCEPT ![f] = None]
        /\ ctx' = ctx \/ ctx' = [ctx EXCEPT ![own[f]].READ = TRUE]
    BY <1>1, Zenon DEF Accepted, frame
  <2>2. own'[f] = None /\ \A g \in Fibers \ {f} : own'[g] = own[g] /\ own[g] \in Fds \union {None}
    BY <2>1, ServingShape
  <2>3. \A fd \in Fds : ctx[fd] # None => ctx'[fd] # None
    BY <1>1, AcceptedCtx DEF Serving
  <2> QED  BY <2>1, <2>2, <2>3, Zenon DEF Known, Creating
<1>2. CASE Handle(f)
  <2>1. program[f] = handleClient /\ UNCHANGED <<program, pc, ctx>> /\ \A g \in Fibers \ {f} : own'[g] = own[g]
    BY <1>2, ServingShape, Zenon DEF Handle, Handlers, frame
  <2> QED  BY <2>1, RolesDiffer, Zenon DEF Known, Creating
<1> QED  BY <1>1, <1>2

\* Every step of a server leaves the accepted clients their FdCtx.
LEMMA KnownStep ==
  ASSUME Servers, Serving, Known, [ServerNext]_serverVars  PROVE Known'
<1>1. ASSUME NEW f \in Fibers, Fiber(f) \/ SocketCancelAll(f), UNCHANGED clients  PROVE Known'
  <2>1. CASE Get(f) \/ Create(f) \/ Fun(f) \/ CancelAll(f) \/ Del(f) \/ CloseFun(f)
    BY <1>1, <2>1, GetKnown, FunKnown, CloseKnown
  <2>2. CASE Socket(f) \/ ConnectFun(f)
    <3>1. ip[f] <= Len(program[f]) /\ Op(f) \in {"socket", "connect"}
      BY <2>2, Zenon DEF Socket, ConnectFun, At
    <3> QED  BY <3>1, ServerCalls DEF Serves, Serving, Fresh
  <2>3. CASE \/ Enter(f) \/ Arm(f) \/ AddEvent(f) \/ Resume(f) \/ CancelTimer(f) \/ Test(f)
             \/ SockOpt(f) \/ Sleep(f) \/ SetSockOpt(f) \/ SetNonblock(f) \/ SocketCancelAll(f)
    <3>1. Plain
      BY <1>1, <2>3, CallsPlain DEF Serving
    <3>2. ~Creating(f)
      BY <2>3, Zenon DEF Enter, Arm, AddEvent, Resume, CancelTimer, Test, SockOpt, Sleep, SetSockOpt,
           SetNonblock, SocketCancelAll, At, Creating
    <3>3. \A g \in Fibers : Creating(g) => Creating(g)'
      <4>1. CASE AddEvent(f) /\ aborted'
        BY <4>1, Zenon DEF AddEvent, At, Creating
      <4>2. CASE ~(AddEvent(f) /\ aborted')
        BY <2>3, <3>2, <4>2, CallsMove, MovesCreating
      <4> QED  BY <4>1, <4>2
    <3> QED  BY <3>1, <3>3, PlainKnown
  <2> QED  BY <1>1, <2>1, <2>2, <2>3, Zenon DEF Fiber
<1>2. ASSUME UNCHANGED <<program, pc, own, ctx>>  PROVE Known'
  BY <1>2, Zenon DEF Known, Creating
<1>3. CASE \E f \in Fibers : (Fiber(f) \/ SocketCancelAll(f)) /\ UNCHANGED serverFrame
  BY <1>1, <1>3 DEF serverFrame
<1>4. CASE \E f \in Fibers : Accepted(f) \/ Handle(f)
  BY <1>4, ServerKnown
<1>5. CASE \/ (\E t \in timers : Timer(t)) /\ UNCHANGED serverFrame
           \/ (\E fd \in Fds, e \in Events : Report(fd, e)) /\ UNCHANGED serverFrame
  <2>1. UNCHANGED <<program, pc, own, ctx>>
    BY <1>5, Zenon DEF Timer, Expire, WakeSleeper, Fire, CancelEvent, Report, frame
  <2> QED  BY <1>2, <2>1
<1>6. CASE (World /\ UNCHANGED serverFrame) \/ Stop \/ (\E f \in Fibers : TestStop(f)) \/ UNCHANGED serverVars
  <2>1. UNCHANGED <<program, pc, own, ctx>>
    BY <1>6, Zenon DEF World, Establish, Arrive, Drain, Stop, TestStop, serverVars, vars, frame
  <2> QED  BY <1>2, <2>1
<1> QED  BY <1>3, <1>4, <1>5, <1>6, Zenon DEF ServerNext, ServerFiber

\* A server begins without clients.
LEMMA ServingInit == ServerInit => Serving /\ Known
<1> SUFFICES ASSUME ServerInit  PROVE Serving /\ Known
  OBVIOUS
<1>1. Owned /\ DOMAIN ret = Fibers
  BY HookAssumption, Zenon DEF ServerInit, Init, Owned, Has
<1>2. ASSUME NEW f \in Fibers  PROVE Phase(f)
  BY Zenon DEF ServerInit, Init, Phase, Creating, Closing
<1>3. Known
  BY Zenon DEF ServerInit, Init, Known
<1> QED  BY <1>1, <1>2, <1>3, FreshInit DEF Serving

\* The inductive invariant of a server: what its loop, its tasks and its
\* handlers have are different clients, and every client is among them.
LEMMA ServingInvariant == Servers /\ ServerSpec => []Serving
<1>1. Servers => Servers'
  BY DEF Servers
<1>2. Servers /\ Serving /\ Known /\ [ServerNext]_serverVars => Serving' /\ Known'
  BY ServingStep, KnownStep
<1> QED  BY <1>1, <1>2, ServingInit, PTL DEF ServerSpec

\* The empty set has no element.
LEMMA CardEmpty == Cardinality({}) = 0
<1> DEFINE Counts(c) == c = [T \in SUBSET {} |-> IF T = {} THEN 0 ELSE 1 + c[T \ {CHOOSE x : x \in T}]]
<1>1. Counts([T \in SUBSET {} |-> 0])
  OBVIOUS
<1>2. \A c : Counts(c) => c[{}] = 0
  OBVIOUS
<1>3. Cardinality({}) = (CHOOSE c : Counts(c))[{}]
  BY Zenon DEF Cardinality
<1> HIDE DEF Counts
<1>4. Counts(CHOOSE c : Counts(c))
  BY <1>1, Zenon
<1> QED  BY <1>2, <1>3, <1>4, Zenon

\* A set of one has one.
LEMMA CardOne == ASSUME NEW a  PROVE Cardinality({a}) = 1
<1> DEFINE Counts(c) == c = [T \in SUBSET {a} |-> IF T = {} THEN 0 ELSE 1 + c[T \ {CHOOSE x : x \in T}]]
           one == [T \in SUBSET {a} |-> IF T = {} THEN 0 ELSE 1]
<1>1. ASSUME NEW T \in SUBSET {a}, T # {}  PROVE T \ {CHOOSE x : x \in T} = {}
  BY <1>1
<1>2. Counts(one)
  <2>1. \A T \in SUBSET {a} : one[T] = IF T = {} THEN 0 ELSE 1 + one[T \ {CHOOSE x : x \in T}]
    BY <1>1
  <2> QED  BY <2>1, Zenon
<1>3. \A c : Counts(c) => c[{a}] = 1
  <2>1. {a} \ {CHOOSE x : x \in {a}} = {}
    OBVIOUS
  <2>2. \A c : Counts(c) => c[{}] = 0 /\ c[{a}] = 1 + c[{a} \ {CHOOSE x : x \in {a}}]
    OBVIOUS
  <2>3. 1 + 0 = 1
    OBVIOUS
  <2> QED  BY <2>1, <2>2, <2>3, Zenon
<1>4. Cardinality({a}) = (CHOOSE c : Counts(c))[{a}]
  BY Zenon DEF Cardinality
<1> HIDE DEF Counts, one
<1>5. Counts(CHOOSE c : Counts(c))
  BY <1>2, Zenon
<1> QED  BY <1>3, <1>4, <1>5, Zenon

\* Every connection that a TcpServer accepted is with exactly one of its loop,
\* the scheduler's tasks and a handler, however many fibers accept from the
\* socket (startAccept()), handle clients (handleClient()) and stop the server.
THEOREM ClientsOwned == Servers /\ ServerSpec => []ClientsOnce
<1>1. Serving => ClientsOnce
  <2> SUFFICES ASSUME Serving, NEW fd \in Fds, file[fd] = "connected"
               PROVE  Cardinality({f \in Fibers : Holds(f, fd)}) + (IF fd \in clients THEN 1 ELSE 0) = 1
    BY DEF ClientsOnce
  <2>1. \A f \in Fibers : Holds(f, fd) <=> Has(f) /\ own[f] = fd
    <3>1. Len(handleClient) = 2
      BY DEF handleClient
    <3> QED  BY <3>1, HookAssumption, Zenon DEF Holds, Has
  <2>2. CASE fd \in clients
    <3>1. {f \in Fibers : Holds(f, fd)} = {}
      BY <2>1, <2>2 DEF Serving, Owned
    <3> QED  BY <2>2, <3>1, CardEmpty
  <2>3. CASE fd \notin clients
    <3>1. PICK f \in Fibers : Has(f) /\ own[f] = fd
      BY <2>3, Zenon DEF Serving, Owned
    <3>2. {g \in Fibers : Holds(g, fd)} = {f}
      BY <2>1, <3>1 DEF Serving, Owned
    <3> QED  BY <2>3, <3>2, CardOne
  <2> QED  BY <2>2, <2>3
<1> QED  BY <1>1, ServingInvariant, PTL

\* In a server the numbers that accept() returns have no FdCtx from before: no
\* fiber closes a client that the loop is just being given.
THEOREM ServerCtxFresh == Servers /\ ServerSpec => []FreshCtx
<1>1. Serving => FreshCtx
  BY Zenon DEF Serving, Fresh, Makes, Creating, FreshCtx
<1> QED  BY <1>1, ServingInvariant, PTL
=============================================================================
