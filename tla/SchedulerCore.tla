---------------------------- MODULE SchedulerCore ----------------------------
(***************************************************************************)
(* The inductive invariant of Scheduler, and what it says of the fibers:   *)
(* one thread runs a fiber, the assertions of Fiber hold, and none that is *)
(* suspended is forgotten.  The steps that are local to a thread and a     *)
(* fiber come first, then those of run(), then those of the tasks.         *)
(* Everything here is about pools whose clients schedule no fiber that is  *)
(* scheduled already.                                                      *)
(***************************************************************************)
EXTENDS Scheduler, TLAPS

Held == {"exec", "switch", "back", "post"}

\* The two pointers of run() through which thread t can reach a fiber.
Owns(t, f) == ft[t].fiber = f \/ cb_fiber[t] = f

\* The entries of a list q that hold fiber f, that are a fiber or a callback and
\* not both, and that hold different fibers.
In(q, f) == \E i \in DOMAIN q : q[i].fiber = f

Shape(q) == \A i \in DOMAIN q : q[i].fiber = None <=> q[i].cb # None

Distinct(q) ==
  \A i, k \in DOMAIN q : q[i].fiber # None /\ q[i].fiber = q[k].fiber => i = k

\* A list entry, or run()'s ft, is a fiber or a callback and never both.
Tasks ==
  /\ Shape(m_fibers)
  /\ \A t \in Threads :
       /\ ft[t] # NoTask => (ft[t].fiber = None <=> ft[t].cb # None)
       /\ pc[t] \in {"off", "scan", "idle", "exited"} => ft[t] = NoTask
       /\ pc[t] \in Held => ft[t].cb = None /\ Current(t) # None

\* The fibers that are in the list or with a waker.  Each is there once.
Pending == {f \in Fibers : Wanted(f)}

Once ==
  /\ Distinct(m_fibers)
  /\ \A f \in armed : ~In(m_fibers, f)

\* A fiber is reachable from one thread, through one of its pointers.
OneOwner ==
  \A t, u \in Threads, f \in Fibers :
    /\ Owns(t, f) /\ Owns(u, f) => t = u
    /\ ~(ft[t].fiber = f /\ cb_fiber[u] = f)

\* What the position of a thread says of the fiber it holds.
Position(t) ==
  /\ pc[t] = "dispatch" /\ ft[t].fiber # None =>
       m_state[ft[t].fiber] \in {"INIT", "HOLD", "READY"} /\ ft[t].fiber \notin Pending
  /\ pc[t] \in {"exec", "switch"} => m_state[Current(t)] = "EXEC"
  /\ pc[t] = "switch" => Current(t) \in Pending
  /\ pc[t] \in {"back", "post"} =>
       IF Current(t) \in Pending THEN m_state[Current(t)] = "EXEC"
                             ELSE m_state[Current(t)] \in {"READY"} \cup Ended
  /\ cb_fiber[t] # None /\ (pc[t] \notin Held \/ ft[t].fiber # None) =>
       m_state[cb_fiber[t]] = "INIT" /\ cb_fiber[t] \notin Pending /\ m_cb[cb_fiber[t]] = None

Positions == \A t \in Threads : Position(t)

\* What the state of a fiber says of who can reach it.
State(f) ==
  /\ m_state[f] = "FREE" => f \notin Pending /\ \A t \in Threads : ~Owns(t, f)
  /\ f \in Pending => m_state[f] \in {"INIT", "HOLD", "READY", "EXEC"}
  /\ m_state[f] = "EXEC" => \E t \in Threads : pc[t] \in Held /\ Current(t) = f

States == \A f \in Fibers : State(f)

\* NoLostFiber, in these terms.
KeptFiber(f) ==
  m_cb[f] # None /\ m_state[f] \in {"INIT", "HOLD", "READY", "EXEC"} =>
    f \in Pending \/ \E t \in Threads : Has(t, f)

Kept == \A f \in Fibers : KeptFiber(f)

Fib == Tasks /\ Once /\ OneOwner /\ Positions /\ States /\ Kept

\* TypeOK but for the counters and tick.
Types ==
  /\ m_fibers \in Seq(FiberAndThread)
  /\ m_autoStop \in BOOLEAN /\ m_stopping \in BOOLEAN
  /\ m_state \in [Fibers -> {"FREE", "INIT", "HOLD", "EXEC", "READY", "TERM", "EXCEPT"}]
  /\ m_cb \in [Fibers -> Jobs \cup {None}]
  /\ pc \in [Threads -> {"off", "scan", "dispatch", "exec", "switch", "back", "post",
                         "idle", "exited"}]
  /\ ft \in [Threads -> FiberAndThread]
  /\ cb_fiber \in [Threads -> Fibers \cup {None}]
  /\ idle_fiber \in [Threads -> {"INIT", "HOLD", "EXEC", "TERM"}]
  /\ armed \in SUBSET Fibers
  /\ mpc \in {"new", "running", "stop", "flag", "call", "called", "join", "stopped"}
  /\ fresh \in SUBSET Jobs /\ done \in SUBSET Jobs

\* No thread runs before start(), nor the calling thread before stop() joins it.
Phases ==
  /\ mpc = "new" => \A t \in Threads : pc[t] = "off"
  /\ mpc \in {"running", "stop", "flag", "call"} => \A t \in Threads : t = Root => pc[t] = "off"

Core == Types /\ Phases /\ Fib

\* Every thread has its pointers and every fiber its state.
LEMMA Domains ==
  ASSUME Types
  PROVE  /\ DOMAIN pc = Threads /\ DOMAIN ft = Threads /\ DOMAIN cb_fiber = Threads
         /\ DOMAIN idle_fiber = Threads /\ DOMAIN m_state = Fibers /\ DOMAIN m_cb = Fibers
  BY Zenon DEF Types

\* The null pointer is no thread, callback or fiber.
LEMMA NoneAssumption == None \notin Threads /\ None \notin Jobs /\ None \notin Fibers
  BY SchedulerAssumption

-----------------------------------------------------------------------------
(* The task list. *)

\* What a push does to the list.
LEMMA PushEntry ==
  ASSUME NEW q \in Seq(FiberAndThread), NEW e \in FiberAndThread
  PROVE  /\ Append(q, e) \in Seq(FiberAndThread)
         /\ \A f : In(Append(q, e), f) <=> In(q, f) \/ e.fiber = f
         /\ Shape(q) /\ (e.fiber = None <=> e.cb # None) => Shape(Append(q, e))
         /\ Distinct(q) /\ (e.fiber = None \/ ~In(q, e.fiber)) => Distinct(Append(q, e))
<1> DEFINE r == Append(q, e)
<1>1. /\ r \in Seq(FiberAndThread) /\ Len(q) \in Nat
      /\ DOMAIN q = 1..Len(q) /\ DOMAIN r = 1..(Len(q) + 1)
      /\ \A k \in 1..Len(q) : r[k] = q[k]
      /\ r[Len(q) + 1] = e
  OBVIOUS
<1> HIDE DEF r
<1>2. \A f : In(r, f) <=> In(q, f) \/ e.fiber = f
  <2>1. Len(q) + 1 \in DOMAIN r /\ \A k \in DOMAIN q : k \in DOMAIN r
    BY <1>1
  <2>2. \A k \in DOMAIN r : k \in DOMAIN q \/ k = Len(q) + 1
    BY <1>1
  <2> QED  BY <1>1, <2>1, <2>2, Zenon DEF In
<1>3. Shape(q) /\ (e.fiber = None <=> e.cb # None) => Shape(r)
  BY <1>1 DEF Shape
<1>4. Distinct(q) /\ (e.fiber = None \/ ~In(q, e.fiber)) => Distinct(r)
  BY <1>1 DEF Distinct, In
<1> QED
  BY <1>1, <1>2, <1>3, <1>4, Zenon DEF r

\* What erasing an entry does to a list of different fibers.
LEMMA EraseEntry ==
  ASSUME NEW q \in Seq(FiberAndThread), NEW i \in DOMAIN q, Distinct(q), Shape(q)
  PROVE  /\ Erase(q, i) \in Seq(FiberAndThread)
         /\ \A f \in Fibers : In(Erase(q, i), f) <=> In(q, f) /\ q[i].fiber # f
         /\ Shape(Erase(q, i))
         /\ Distinct(Erase(q, i))
<1> DEFINE r == Erase(q, i)
<1>1. /\ i \in 1..Len(q) /\ DOMAIN q = 1..Len(q) /\ Len(q) \in Nat
      /\ r \in Seq(FiberAndThread) /\ Len(r) = Len(q) - 1
      /\ DOMAIN r = 1..(Len(q) - 1)
      /\ \A k \in 1..(Len(q) - 1) : r[k] = IF k < i THEN q[k] ELSE q[k + 1]
  <2>1. i \in 1..Len(q) /\ DOMAIN q = 1..Len(q) /\ Len(q) \in Nat
    OBVIOUS
  <2>2. /\ r \in Seq(FiberAndThread) /\ Len(r) = Len(q) - 1
        /\ \A k \in 1..(Len(q) - 1) : r[k] = IF k < i THEN q[k] ELSE q[k + 1]
    BY <2>1 DEF Erase
  <2>3. DOMAIN r = 1..Len(r)
    BY <2>2
  <2> QED  BY <2>1, <2>2, <2>3, Zenon
<1> HIDE DEF r
<1>2. \A k \in DOMAIN q : k # i => \E m \in DOMAIN r : r[m] = q[k]
  <2> SUFFICES ASSUME NEW k \in DOMAIN q, k # i  PROVE \E m \in DOMAIN r : r[m] = q[k]
    OBVIOUS
  <2>1. CASE k < i  BY <2>1, <1>1
  <2>2. CASE k > i
    <3>1. k - 1 \in DOMAIN r /\ r[k - 1] = q[k]  BY <2>2, <1>1
    <3> QED  BY <3>1
  <2> QED  BY <2>1, <2>2, <1>1
<1>3. \A f \in Fibers : In(r, f) <=> In(q, f) /\ q[i].fiber # f
  <2> SUFFICES ASSUME NEW f \in Fibers  PROVE In(r, f) <=> In(q, f) /\ q[i].fiber # f
    OBVIOUS
  <2>1. In(q, f) /\ q[i].fiber # f => In(r, f)
    BY <1>2 DEF In
  <2>2. In(r, f) => In(q, f) /\ q[i].fiber # f
    BY <1>1, SchedulerAssumption, SMTT(30) DEF In, Distinct, SchedulerAssumption
  <2> QED  BY <2>1, <2>2
<1> DEFINE old(k) == IF k < i THEN k ELSE k + 1
<1>4. /\ \A k \in DOMAIN r : old(k) \in DOMAIN q /\ r[k] = q[old(k)]
      /\ \A k, m \in DOMAIN r : old(k) = old(m) => k = m
  BY <1>1
<1> HIDE DEF old
<1>5. Shape(r) /\ Distinct(r)
  <2>1. Shape(r)  BY <1>4, Zenon DEF Shape
  <2>2. ASSUME NEW k \in DOMAIN r, NEW m \in DOMAIN r,
               r[k].fiber # None, r[k].fiber = r[m].fiber
        PROVE  k = m
    <3>1. old(k) = old(m)  BY <2>2, <1>4 DEF Distinct
    <3> QED  BY <3>1, <1>4
  <2> QED  BY <2>1, <2>2 DEF Distinct
<1> QED
  BY <1>1, <1>3, <1>5, Zenon DEF r

-----------------------------------------------------------------------------
(* A step is local: it changes what one thread t holds, and one fiber g that *)
(* no other thread can reach.                                                *)

SameThread(u) == pc'[u] = pc[u] /\ ft'[u] = ft[u] /\ cb_fiber'[u] = cb_fiber[u]

SameFiber(f) ==
  /\ m_state'[f] = m_state[f] /\ m_cb'[f] = m_cb[f]
  /\ f \in Pending' <=> f \in Pending

SameHold(t, f) ==
  /\ ft'[t].fiber = f <=> ft[t].fiber = f
  /\ cb_fiber'[t] = f <=> cb_fiber[t] = f
  /\ pc'[t] \in Held /\ Current(t)' = f <=> pc[t] \in Held /\ Current(t) = f

\* A thread between its switch and its return to the scan owns a fiber.
LEMMA HeldIsOwned ==
  ASSUME Types, NEW t \in Threads, NEW f \in Fibers
  PROVE  /\ pc[t] \in Held /\ Current(t) = f => Owns(t, f)
         /\ Has(t, f) <=> ft[t].fiber = f \/ (pc[t] \in Held /\ Current(t) = f)
  BY NoneAssumption, Zenon DEF Types, Owns, Held, Current, Has

\* Thread u, its fiber and the set of wanted fibers as they were: so is its position.
LEMMA FramePosition ==
  ASSUME Types, Tasks, NEW u \in Threads, Position(u), SameThread(u),
         \A f \in Fibers : Owns(u, f) => SameFiber(f)
  PROVE  Position(u)'
<1>1. pc[u] \in Held => Current(u) \in Fibers /\ Owns(u, Current(u))
  BY Zenon DEF Types, Tasks, Current, Owns, FiberAndThread
<1>2. ft[u].fiber # None => ft[u].fiber \in Fibers /\ Owns(u, ft[u].fiber)
  BY Zenon DEF Types, Owns, FiberAndThread
<1>3. cb_fiber[u] # None => cb_fiber[u] \in Fibers /\ Owns(u, cb_fiber[u])
  BY Zenon DEF Types, Owns
<1>4. Current(u)' = Current(u)
  BY Zenon DEF SameThread, Current
<1> QED  BY <1>1, <1>2, <1>3, <1>4 DEF Position, SameThread, SameFiber, Held

\* A step that only thread t and the fiber g take part in preserves Fib when
\* it does for t and g.
LEMMA LocalStep ==
  ASSUME Types, Fib, NEW t, NEW g, Tasks', Once',
         \A u \in Threads : u # t => SameThread(u) /\ (g \in Fibers => ~Owns(u, g)),
         \A f \in Fibers : f # g => SameFiber(f) /\ (t \in Threads => SameHold(t, f)),
         t \in Threads => Position(t)',
         g \in Fibers => State(g)' /\ KeptFiber(g)',
         t \in Threads /\ g \in Fibers => ~(ft'[t].fiber = g /\ cb_fiber'[t] = g)
  PROVE  Fib'
<1>1. Positions'
  <2> SUFFICES ASSUME NEW u \in Threads  PROVE Position(u)'
    BY Zenon DEF Positions
  <2>1. CASE u = t  BY <2>1, Zenon
  <2>2. CASE u # t
    <3>1. \A f \in Fibers : Owns(u, f) => SameFiber(f)
      BY <2>2, Zenon
    <3> QED  BY <2>2, <3>1, FramePosition, Zenon DEF Fib, Positions
  <2> QED  BY <2>1, <2>2, Zenon
<1>2. OneOwner'
  <2> SUFFICES ASSUME NEW u \in Threads, NEW v \in Threads, NEW f \in Fibers
               PROVE  /\ (ft'[u].fiber = f \/ cb_fiber'[u] = f)
                         /\ (ft'[v].fiber = f \/ cb_fiber'[v] = f) => u = v
                      /\ ~(ft'[u].fiber = f /\ cb_fiber'[v] = f)
    BY Zenon DEF OneOwner, Owns
  <2>1. CASE f = g
    <3>1. \A w \in Threads : ft'[w].fiber = f \/ cb_fiber'[w] = f => w = t
      BY <2>1, Zenon DEF Owns, SameThread
    <3>2. t \in Threads => ~(ft'[t].fiber = f /\ cb_fiber'[t] = f)
      BY <2>1, Zenon
    <3> QED  BY <3>1, <3>2, Zenon
  <2>2. CASE f # g
    <3>1. /\ (ft'[u].fiber = f <=> ft[u].fiber = f) /\ (ft'[v].fiber = f <=> ft[v].fiber = f)
          /\ (cb_fiber'[u] = f <=> cb_fiber[u] = f) /\ (cb_fiber'[v] = f <=> cb_fiber[v] = f)
      BY <2>2 DEF SameThread, SameHold
    <3>2. /\ (ft[u].fiber = f \/ cb_fiber[u] = f) /\ (ft[v].fiber = f \/ cb_fiber[v] = f) => u = v
          /\ ~(ft[u].fiber = f /\ cb_fiber[v] = f)
      BY Zenon DEF Fib, OneOwner, Owns
    <3> QED  BY <3>1, <3>2, Zenon
  <2> QED  BY <2>1, <2>2, Zenon
<1>3. States'
  <2> SUFFICES ASSUME NEW f \in Fibers  PROVE State(f)'
    BY Zenon DEF States
  <2>0. CASE f = g  BY <2>0, Zenon
  <2> SUFFICES ASSUME f # g  PROVE State(f)'
    BY <2>0, Zenon
  <2>1. State(f)
    BY Zenon DEF Fib, States
  <2>2. \A u \in Threads : Owns(u, f)' <=> Owns(u, f)
    BY DEF Owns, SameThread, SameHold
  <2>3. \A u \in Threads : pc[u] \in Held /\ Current(u) = f => pc'[u] \in Held /\ Current(u)' = f
    BY DEF SameThread, SameHold, Current
  <2> QED  BY <2>1, <2>2, <2>3 DEF State, SameFiber
<1>4. Kept'
  <2> SUFFICES ASSUME NEW f \in Fibers  PROVE KeptFiber(f)'
    BY Zenon DEF Kept
  <2>0. CASE f = g  BY <2>0, Zenon
  <2> SUFFICES ASSUME f # g  PROVE KeptFiber(f)'
    BY <2>0, Zenon
  <2>1. KeptFiber(f)
    BY Zenon DEF Fib, Kept
  <2>2. \A u \in Threads : Has(u, f) => Has(u, f)'
    BY NoneAssumption DEF Has, Held, SameThread, SameHold, Current
  <2> QED  BY <2>1, <2>2, Zenon DEF KeptFiber, SameFiber
<1> QED  BY <1>1, <1>2, <1>3, <1>4, Zenon DEF Fib

\* A step that touches no fiber and no task preserves Fib.
LEMMA QuietStep ==
  ASSUME Types, Fib, Shape(m_fibers'), Once', Pending' = Pending,
         UNCHANGED <<m_state, m_cb, cb_fiber>>,
         \A u \in Threads :
           /\ ft'[u] = ft[u]
           /\ \/ pc'[u] = pc[u]
              \/ /\ {pc[u], pc'[u]} \subseteq {"off", "scan", "idle", "dispatch"}
                 /\ ft[u] = NoTask
  PROVE  Fib'
<1>1. Tasks'
  BY DEF Fib, Tasks, Held, Current
<1>2. \A u \in Threads : /\ pc'[u] \in Held <=> pc[u] \in Held
                         /\ pc'[u] \in Held => pc'[u] = pc[u]
                         /\ pc'[u] = "dispatch" /\ ft[u].fiber # None => pc[u] = "dispatch"
                         /\ Current(u)' = Current(u)
  BY DEF Held, Current, NoTask
<1>3. Positions'
  <2> SUFFICES ASSUME NEW u \in Threads  PROVE Position(u)'
    BY Zenon DEF Positions
  <2>1. Position(u)
    BY Zenon DEF Fib, Positions
  <2> QED  BY <1>2, <2>1 DEF Position, Held
<1>4. OneOwner'
  BY DEF Fib, OneOwner, Owns
<1>5. States'
  BY <1>2 DEF Fib, States, State, Owns
<1>6. Kept'
  <2>1. \A u \in Threads, f \in Fibers : Has(u, f) => Has(u, f)'
    BY <1>2, Zenon DEF Has, Held
  <2> QED  BY <2>1, Zenon DEF Fib, Kept, KeptFiber
<1> QED  BY <1>1, <1>3, <1>4, <1>5, <1>6, Zenon DEF Fib

\* A thread that holds a fiber is the only one that can reach it.
LEMMA CurrentOwned ==
  ASSUME Types, Fib, NEW t \in Threads, pc[t] \in Held
  PROVE  /\ Current(t) \in Fibers
         /\ ft[t].cb = None
         /\ ft[t].fiber = None \/ ft[t].fiber = Current(t)
         /\ ft[t].fiber = None => cb_fiber[t] = Current(t)
         /\ ft[t].fiber # None => cb_fiber[t] # Current(t)
         /\ \A u \in Threads : u # t => ~Owns(u, Current(t))
<1>1. Current(t) \in Fibers /\ ft[t].cb = None
  BY Zenon DEF Types, Fib, Tasks, Current, FiberAndThread
<1>2. /\ ft[t].fiber = None \/ ft[t].fiber = Current(t)
      /\ ft[t].fiber = None => cb_fiber[t] = Current(t)
  BY Zenon DEF Current
<1>3. Owns(t, Current(t))
  BY <1>2, Zenon DEF Owns
<1> QED  BY <1>1, <1>2, <1>3, Zenon DEF Fib, OneOwner, Owns

\* With the list and the wakers unchanged the wanted fibers are the same.
LEMMA SamePending ==
  ASSUME UNCHANGED <<m_fibers, armed>>
  PROVE  /\ Pending' = Pending
         /\ Fib => Shape(m_fibers') /\ Once'
  BY Zenon DEF Pending, Wanted, Queued, Fib, Tasks, Once

\* schedule() of a callback, or of a fiber nobody has scheduled.
LEMMA PushPending ==
  ASSUME Types, Fib, NEW a, NEW task \in FiberAndThread, Schedule(a, task), armed' = armed,
         task.fiber = None <=> task.cb # None,
         task.fiber \notin Pending
  PROVE  /\ Pending' = Pending \cup ({task.fiber} \ {None})
         /\ Shape(m_fibers') /\ Once'
<1>1. m_fibers \in Seq(FiberAndThread) /\ Shape(m_fibers) /\ Distinct(m_fibers) /\ m_fibers' = Append(m_fibers, task)
  BY Zenon DEF Types, Fib, Tasks, Once, Schedule
<1>2. task.fiber # None => task.fiber \in Fibers /\ ~In(m_fibers, task.fiber) /\ task.fiber \notin armed
  BY DEF Pending, Wanted, Queued, In, FiberAndThread
<1>3. /\ \A f : In(m_fibers', f) <=> In(m_fibers, f) \/ task.fiber = f
      /\ Shape(m_fibers') /\ Distinct(m_fibers')
  BY <1>1, <1>2, PushEntry, Zenon
<1>4. Pending' = {f \in Fibers : f \in armed' \/ In(m_fibers', f)} /\ Pending = {f \in Fibers : f \in armed \/ In(m_fibers, f)}
  BY Zenon DEF Pending, Wanted, Queued, In
<1>5. Pending' = Pending \cup ({task.fiber} \ {None})
  BY <1>2, <1>3, <1>4, NoneAssumption, Zenon
<1>6. Once'
  BY <1>2, <1>3, NoneAssumption DEF Once, Fib, Types
<1> QED  BY <1>3, <1>5, <1>6

\* YieldToHold() and the switch back.
LEMMA SwitchBackFib ==
  ASSUME Types, Fib, NEW t \in Threads, YieldToHold(t) \/ Back(t)  PROVE Fib'
<1>1. /\ \/ pc[t] \in {"exec", "switch"} /\ pc' = [pc EXCEPT ![t] = "back"] /\ Wanted(Current(t))
         \/ pc[t] = "back" /\ pc' = [pc EXCEPT ![t] = "post"]
      /\ UNCHANGED <<m_fibers, m_state, m_cb, ft, cb_fiber, armed>>
  BY Zenon DEF YieldToHold, Back, At, Goto, taskVars
<1>2. Pending' = Pending /\ Shape(m_fibers') /\ Once'
  BY <1>1, SamePending
<1>3. Tasks'
  BY <1>1, <1>2, Domains, Zenon DEF Tasks, Fib, Current, Held
<1>4. Position(t)'
  <2>1. Position(t) /\ Current(t)' = Current(t)
    BY <1>1, Zenon DEF Fib, Positions, Current
  <2>2. pc[t] \in Held /\ pc'[t] \in {"back", "post"}
    BY <1>1, Domains, Zenon DEF Held
  <2>3. pc[t] \in {"exec", "switch"} => Current(t) \in Pending
    BY <1>1, <2>2, CurrentOwned, Zenon DEF Pending
  <2> QED  BY <1>1, <1>2, <2>1, <2>2, <2>3, Zenon DEF Position, Held
<1>5. \A f \in Fibers : SameFiber(f) /\ SameHold(t, f)
  BY <1>1, <1>2, Domains, Zenon DEF SameFiber, SameHold, Current, Held
<1>6. \A u \in Threads : u # t => SameThread(u)
  BY <1>1, Domains, Zenon DEF SameThread
<1>7. None \notin Fibers
  BY NoneAssumption
<1> QED  BY <1>2, <1>3, <1>4, <1>5, <1>6, <1>7, LocalStep, Zenon

\* run() drops its pointer to the fiber it ran.
LEMMA Dropping ==
  ASSUME Types, Fib, NEW t \in Threads, pc[t] \in Held, DropCurrent(t),
         pc' = [pc EXCEPT ![t] = "scan"], NEW g, g = Current(t)
  PROVE  /\ ft'[t] = NoTask /\ (cb_fiber'[t] = None \/ cb_fiber'[t] = cb_fiber[t])
         /\ cb_fiber'[t] # None => cb_fiber[t] # None /\ ft[t].fiber # None
         /\ ~Owns(t, g)'
         /\ \A f \in Fibers : f # g => SameHold(t, f)
         /\ \A u \in Threads : u # t => SameThread(u)
<1>1. CASE ft[t].fiber = None
  BY <1>1, CurrentOwned, NoneAssumption, Domains, Zenon DEF DropCurrent, NoTask, SameHold, SameThread, Held, Owns, Current
<1>2. CASE ft[t].fiber # None
  BY <1>2, CurrentOwned, NoneAssumption, Domains, Zenon DEF DropCurrent, NoTask, SameHold, SameThread, Held, Owns, Current
<1> QED  BY <1>1, <1>2, Zenon

\* The thread that dropped its task has none, and a cb_fiber it still has is the
\* one that waits for the next callback.
LEMMA DroppedTask ==
  ASSUME Types, Fib, NEW t \in Threads, pc' = [pc EXCEPT ![t] = "scan"],
         NEW g, pc[t] = "post", ~Owns(t, g)', ft'[t] = NoTask, Shape(m_fibers'),
         cb_fiber'[t] = None \/ cb_fiber'[t] = cb_fiber[t],
         cb_fiber'[t] # None => cb_fiber[t] # None /\ ft[t].fiber # None,
         \A u \in Threads : u # t => SameThread(u)
  PROVE  /\ Tasks'
         /\ pc'[t] = "scan"
         /\ cb_fiber'[t] # None =>
              /\ cb_fiber'[t] \in Fibers \ {g}
              /\ m_state[cb_fiber'[t]] = "INIT" /\ m_cb[cb_fiber'[t]] = None
              /\ cb_fiber'[t] \notin Pending
<1>1. pc'[t] = "scan" /\ \A u \in Threads : u # t => pc'[u] = pc[u]
  BY Domains, Zenon
<1>2. Tasks'
  BY <1>1 DEF Tasks, Fib, Current, Held, SameThread
<1>3. cb_fiber'[t] # None => cb_fiber'[t] = cb_fiber[t] /\ cb_fiber[t] \in Fibers \ {g}
  BY Zenon DEF Types, Owns
<1>4. cb_fiber'[t] # None =>
        /\ m_state[cb_fiber[t]] = "INIT" /\ m_cb[cb_fiber[t]] = None
        /\ cb_fiber[t] \notin Pending
  BY Zenon DEF Fib, Positions, Position
<1> QED  BY <1>1, <1>2, <1>3, <1>4, Zenon

\* The READY branch of run().
LEMMA RescheduleFib ==
  ASSUME Types, Fib, NEW t \in Threads, Reschedule(t)  PROVE Fib'
<1>0. PICK g : g = Current(t)
  OBVIOUS
<1>1. /\ pc[t] = "post" /\ pc' = [pc EXCEPT ![t] = "scan"] /\ m_state[g] = "READY"
      /\ DropCurrent(t)
      /\ UNCHANGED <<armed, m_state, m_cb>>
  BY <1>0 DEF Reschedule, At, Goto
<1>2. /\ g \in Fibers /\ \A u \in Threads : u # t => ~Owns(u, g)
      /\ ft[t].fiber # None => cb_fiber[t] # g
      /\ g \notin Pending
  BY <1>0, <1>1, CurrentOwned, Zenon DEF Held, Fib, Positions, Position
<1>3. Pending' = Pending \cup {g} /\ Shape(m_fibers') /\ Once'
  <2> DEFINE e == FiberTask(g, AnyThread)
  <2>1. e \in FiberAndThread /\ e.fiber = g /\ e.cb = None
    BY <1>2, Zenon DEF FiberTask, FiberAndThread
  <2>2. Schedule(t, e)
    BY <1>0 DEF Reschedule
  <2> HIDE DEF e
  <2> QED  BY <1>1, <1>2, <2>1, <2>2, PushPending, NoneAssumption, Zenon
<1>4. /\ ft'[t] = NoTask /\ (cb_fiber'[t] = None \/ cb_fiber'[t] = cb_fiber[t])
      /\ cb_fiber'[t] # None => cb_fiber[t] # None /\ ft[t].fiber # None
      /\ ~Owns(t, g)'
      /\ \A f \in Fibers : f # g => SameHold(t, f)
      /\ \A u \in Threads : u # t => SameThread(u)
  BY <1>0, <1>1, Dropping, Zenon DEF Held
<1>5. /\ Tasks'
      /\ pc'[t] = "scan"
      /\ cb_fiber'[t] # None =>
           /\ cb_fiber'[t] \in Fibers \ {g}
           /\ m_state[cb_fiber'[t]] = "INIT" /\ m_cb[cb_fiber'[t]] = None
           /\ cb_fiber'[t] \notin Pending
  BY <1>1, <1>3, <1>4, DroppedTask, Zenon
<1>6. Position(t)'
  BY <1>1, <1>3, <1>4, <1>5, Zenon DEF Position, Held
<1>7. State(g)' /\ KeptFiber(g)'
  BY <1>1, <1>3, Zenon DEF State, KeptFiber
<1>8. \A f \in Fibers : f # g => SameFiber(f)
  BY <1>1, <1>3 DEF SameFiber
<1>9. ~(ft'[t].fiber = g /\ cb_fiber'[t] = g)
  BY <1>4, Zenon DEF Owns
<1> QED  BY <1>2, <1>3, <1>4, <1>5, <1>6, <1>7, <1>8, <1>9, LocalStep

\* The HOLD branch of run().
LEMMA HoldFib ==
  ASSUME Types, Fib, NEW t \in Threads, Hold(t)  PROVE Fib'
<1>0. PICK g : g = Current(t)
  OBVIOUS
<1>1. /\ pc[t] = "post" /\ pc' = [pc EXCEPT ![t] = "scan"] /\ m_state[g] \notin {"READY"} \cup Ended
      /\ m_state' = [m_state EXCEPT ![g] = "HOLD"]
      /\ DropCurrent(t)
      /\ UNCHANGED <<m_fibers, armed, m_cb>>
  BY <1>0, Zenon DEF Hold, At, Goto
<1>2. /\ g \in Fibers /\ \A u \in Threads : u # t => ~Owns(u, g)
      /\ ft[t].fiber # None => cb_fiber[t] # g
      /\ g \in Pending
  BY <1>0, <1>1, CurrentOwned, Zenon DEF Held, Fib, Positions, Position
<1>3. Pending' = Pending /\ Shape(m_fibers') /\ Once'
  BY <1>1, SamePending
<1>4. /\ ft'[t] = NoTask /\ (cb_fiber'[t] = None \/ cb_fiber'[t] = cb_fiber[t])
      /\ cb_fiber'[t] # None => cb_fiber[t] # None /\ ft[t].fiber # None
      /\ ~Owns(t, g)'
      /\ \A f \in Fibers : f # g => SameHold(t, f)
      /\ \A u \in Threads : u # t => SameThread(u)
  BY <1>0, <1>1, Dropping, Zenon DEF Held
<1>5. /\ Tasks'
      /\ pc'[t] = "scan"
      /\ cb_fiber'[t] # None =>
           /\ cb_fiber'[t] \in Fibers \ {g}
           /\ m_state[cb_fiber'[t]] = "INIT" /\ m_cb[cb_fiber'[t]] = None
           /\ cb_fiber'[t] \notin Pending
  BY <1>1, <1>3, <1>4, DroppedTask, Zenon
<1>6. Position(t)'
  BY <1>1, <1>3, <1>4, <1>5, Domains, Zenon DEF Position, Held
<1>7. State(g)' /\ KeptFiber(g)'
  BY <1>1, <1>2, <1>3, Domains, Zenon DEF State, KeptFiber
<1>8. \A f \in Fibers : f # g => SameFiber(f)
  BY <1>1, <1>3, Domains, Zenon DEF SameFiber
<1>9. ~(ft'[t].fiber = g /\ cb_fiber'[t] = g)
  BY <1>4, Zenon DEF Owns
<1> QED  BY <1>2, <1>3, <1>4, <1>5, <1>6, <1>7, <1>8, <1>9, LocalStep, Zenon

-----------------------------------------------------------------------------
(* Fib is preserved by the steps of run() and by schedule(). *)

\* The scan of run() takes a task.
LEMMA TakeFib ==
  ASSUME Types, Fib, NEW t \in Threads, Take(t)  PROVE Fib'
<1>1. PICK i \in DOMAIN m_fibers :
        /\ Takeable(t, i)
        /\ ft' = [ft EXCEPT ![t] = m_fibers[i]]
        /\ m_fibers' = Erase(m_fibers, i)
  BY Zenon DEF Take
<1>2. PICK task \in FiberAndThread : task = m_fibers[i]
  BY DEF Types
<1> DEFINE g == task.fiber
<1>3. /\ Shape(m_fibers') /\ Distinct(m_fibers')
      /\ \A f \in Fibers : In(m_fibers', f) <=> In(m_fibers, f) /\ g # f
      /\ g = None <=> task.cb # None
  BY <1>1, <1>2, EraseEntry DEF Shape, Types, Fib, Tasks, Once
<1>4. /\ pc[t] = "scan" /\ pc' = [pc EXCEPT ![t] = "dispatch"]
      /\ UNCHANGED <<m_state, m_cb, cb_fiber, armed>>
      /\ ft[t] = NoTask /\ ft' = [ft EXCEPT ![t] = task]
  BY <1>1, <1>2, Zenon DEF Take, At, Goto, Fib, Tasks
<1>5. Pending' = Pending \ {g} /\ Once'
  <2>1. In(m_fibers, g)
    BY <1>2 DEF In
  <2>2. /\ Pending' = {f \in Fibers : f \in armed' \/ In(m_fibers', f)}
        /\ Pending = {f \in Fibers : f \in armed \/ In(m_fibers, f)}
    BY DEF Pending, Wanted, Queued, In
  <2>3. g \notin armed
    BY <2>1 DEF Fib, Once
  <2>4. Pending' = Pending \ {g}
    BY <1>3, <1>4, <2>2, <2>3, Zenon
  <2>5. Once'
    BY <1>3, <1>4, Zenon DEF Fib, Once, Types
  <2> QED  BY <2>4, <2>5
<1>6. g # None =>
        /\ g \in Pending /\ m_state[g] \in {"INIT", "HOLD", "READY"}
        /\ \A u \in Threads : ~Owns(u, g)
  <2> SUFFICES ASSUME g # None
               PROVE  /\ g \in Pending /\ m_state[g] \in {"INIT", "HOLD", "READY"}
                      /\ \A u \in Threads : ~Owns(u, g)
    OBVIOUS
  <2>1. g \in Pending
    BY <1>2 DEF Pending, Wanted, Queued, FiberAndThread
  <2>2. m_state[g] \in {"INIT", "HOLD", "READY"}
    BY <1>1, <1>2, <2>1, Zenon DEF Takeable, Executing, Fib, States, State, FiberAndThread
  <2>3. ASSUME NEW u \in Threads  PROVE ~Owns(u, g)
    BY <2>1, <2>2 DEF Fib, Positions, Position, Tasks, Owns, Current, Held, NoTask, Types, Ended
  <2> QED  BY <2>1, <2>2, <2>3
<1> HIDE DEF g
<1>7. Tasks'
  BY <1>2, <1>3, <1>4, Domains, Zenon DEF Tasks, Fib, Current, Held, g
<1>8. Position(t)'
  <2>1. Position(t)
    BY DEF Fib, Positions
  <2> QED  BY <1>4, <1>5, <1>6, <2>1, Domains, Zenon DEF Position, Held, NoTask, g
<1>9. g \in Fibers => State(g)' /\ KeptFiber(g)'
  <2> SUFFICES ASSUME g \in Fibers  PROVE State(g)' /\ KeptFiber(g)'
    OBVIOUS
  <2>1. m_state'[g] \in {"INIT", "HOLD", "READY"} /\ ft'[t].fiber = g
    BY <1>4, <1>6, NoneAssumption, Domains, Zenon DEF g
  <2> QED  BY <1>5, <2>1, Zenon DEF State, KeptFiber, Has
<1>10. \A f \in Fibers : f # g => SameFiber(f) /\ SameHold(t, f)
  BY <1>4, <1>5, NoneAssumption, Domains DEF SameFiber, SameHold, NoTask, Held, g
<1>11. \A u \in Threads : u # t => SameThread(u) /\ (g \in Fibers => ~Owns(u, g))
  BY <1>4, <1>6, NoneAssumption, Domains, Zenon DEF SameThread
<1>12. g \in Fibers => ~(ft'[t].fiber = g /\ cb_fiber'[t] = g)
  BY <1>4, <1>6, NoneAssumption, Zenon DEF Owns
<1> QED  BY <1>5, <1>7, <1>8, <1>9, <1>10, <1>11, <1>12, LocalStep, Zenon

\* run() switches to the fiber it took.
LEMMA RunFiberFib ==
  ASSUME Types, Fib, NEW t \in Threads, RunFiber(t)  PROVE Fib'
<1>0. PICK g \in Fibers : g = ft[t].fiber
  BY Zenon DEF RunFiber, Types, FiberAndThread
<1>1. /\ pc[t] = "dispatch" /\ ft[t].cb = None
      /\ pc' = [pc EXCEPT ![t] = "exec"] /\ m_state' = [m_state EXCEPT ![g] = "EXEC"]
      /\ UNCHANGED <<m_fibers, m_cb, ft, cb_fiber, armed>>
  BY <1>0, Domains DEF RunFiber, At, Goto, FiberAndThread, Fib, Tasks, NoTask
<1>2. g \notin Pending /\ cb_fiber[t] # g /\ \A u \in Threads : u # t => ~Owns(u, g)
  BY <1>0, <1>1, NoneAssumption DEF Fib, Positions, Position, OneOwner, Owns
<1>3. Pending' = Pending /\ Shape(m_fibers') /\ Once'
  BY <1>1, SamePending
<1>4. Tasks'
  BY <1>1, <1>3, <1>0, NoneAssumption, Domains, Zenon DEF Tasks, Fib, Current, Held, NoTask
<1>5. Position(t)'
  <2>1. Position(t)
    BY DEF Fib, Positions
  <2> QED  BY <1>1, <1>2, <1>3, <2>1, <1>0, NoneAssumption, Domains DEF Position, Held, Current
<1>6. State(g)' /\ KeptFiber(g)'
  BY <1>1, <1>2, <1>3, <1>0, NoneAssumption, Domains, Zenon DEF State, KeptFiber, Has, Held, Current
<1>7. \A f \in Fibers : f # g => SameFiber(f) /\ SameHold(t, f)
  BY <1>1, <1>3, <1>0, NoneAssumption, Domains, Zenon DEF SameFiber, SameHold, Held, Current
<1>8. \A u \in Threads : u # t => SameThread(u) /\ ~Owns(u, g)
  BY <1>1, <1>2, Domains, Zenon DEF SameThread
<1> QED  BY <1>1, <1>2, <1>3, <1>4, <1>5, <1>6, <1>7, <1>8, LocalStep, Zenon

\* run() switches to the fiber of the callback it took.
LEMMA RunCbFib ==
  ASSUME Types, Fib, NEW t \in Threads, RunCb(t)  PROVE Fib'
<1>0. PICK g \in Fibers :
        /\ IF cb_fiber[t] # None THEN g = cb_fiber[t] ELSE m_state[g] = "FREE"
        /\ cb_fiber' = [cb_fiber EXCEPT ![t] = g]
        /\ m_state' = [m_state EXCEPT ![g] = "EXEC"]
        /\ m_cb' = [m_cb EXCEPT ![g] = ft[t].cb]
  BY Zenon DEF RunCb
<1>1. /\ pc[t] = "dispatch" /\ pc' = [pc EXCEPT ![t] = "exec"]
      /\ ft[t].fiber = None /\ ft' = [ft EXCEPT ![t] = NoTask]
      /\ UNCHANGED <<m_fibers, armed>>
  BY DEF RunCb, At, Goto, Fib, Tasks, NoTask
<1>2. g \notin Pending /\ \A u \in Threads : u # t => ~Owns(u, g)
  <2>1. CASE cb_fiber[t] # None
    BY <1>0, <1>1, <2>1 DEF Fib, Positions, Position, OneOwner, Owns, Held
  <2>2. CASE cb_fiber[t] = None
    BY <1>0, <2>2, Zenon DEF Fib, States, State
  <2> QED  BY <2>1, <2>2
<1>3. Pending' = Pending /\ Shape(m_fibers') /\ Once'
  BY <1>1, SamePending
<1>4. Tasks'
  BY <1>0, <1>1, <1>3, NoneAssumption, Domains, Zenon DEF Tasks, Fib, Current, Held, NoTask
<1>5. Position(t)'
  BY <1>0, <1>1, <1>2, <1>3, NoneAssumption, Domains, Zenon DEF Position, Held, Current, NoTask
<1>6. State(g)' /\ KeptFiber(g)'
  BY <1>0, <1>1, <1>2, <1>3, NoneAssumption, Domains, Zenon DEF State, KeptFiber, Has, Held, Current, NoTask
<1>7. \A f \in Fibers : f # g => SameFiber(f) /\ SameHold(t, f)
  BY <1>0, <1>1, <1>3, NoneAssumption, Domains, Zenon DEF SameFiber, SameHold, Held, Current, NoTask
<1>8. \A u \in Threads : u # t => SameThread(u) /\ ~Owns(u, g)
  BY <1>0, <1>1, <1>2, Domains, Zenon DEF SameThread
<1>9. ~(ft'[t].fiber = g /\ cb_fiber'[t] = g)
  BY <1>1, NoneAssumption, Domains, Zenon DEF NoTask
<1> QED  BY <1>3, <1>4, <1>5, <1>6, <1>7, <1>8, <1>9, LocalStep, Zenon

\* run() returns.
LEMMA ExitFib ==
  ASSUME Types, Fib, NEW t \in Threads, Exit(t)  PROVE Fib'
<1>0. PICK g \in Fibers \cup {None} : g = cb_fiber[t]
  BY Zenon DEF Types
<1>1. /\ pc[t] = "dispatch" /\ pc' = [pc EXCEPT ![t] = "exited"]
      /\ ft[t] = NoTask /\ cb_fiber' = [cb_fiber EXCEPT ![t] = None]
      /\ m_state' = [f \in Fibers |-> IF f = g THEN "FREE" ELSE m_state[f]]
      /\ UNCHANGED <<m_fibers, m_cb, ft, armed>>
  BY <1>0, Zenon DEF Exit, At, Goto
<1>2. g \in Fibers => g \notin Pending /\ \A u \in Threads : u # t => ~Owns(u, g)
  BY <1>0, <1>1, NoneAssumption, Zenon DEF Fib, Positions, Position, OneOwner, Owns, Held
<1>3. Pending' = Pending /\ Shape(m_fibers') /\ Once'
  BY <1>1, SamePending, Zenon
<1>4. Tasks'
  BY <1>1, <1>3, Domains, Zenon DEF Tasks, Fib, Current, Held
<1>5. Position(t)'
  BY <1>1, Domains, Zenon DEF Position, Held
<1>6. \A u \in Threads : u # t => SameThread(u) /\ (g \in Fibers => ~Owns(u, g))
  BY <1>1, <1>2, Domains, Zenon DEF SameThread
<1>7. g \in Fibers => State(g)' /\ KeptFiber(g)'
  <2> SUFFICES ASSUME g \in Fibers  PROVE State(g)' /\ KeptFiber(g)'
    OBVIOUS
  <2>1. m_state'[g] = "FREE" /\ g \notin Pending'
    BY <1>1, <1>2, <1>3, Zenon
  <2>2. ASSUME NEW u \in Threads  PROVE ~(ft'[u].fiber = g \/ cb_fiber'[u] = g)
    BY <1>1, <1>6, NoneAssumption, Domains DEF Owns, SameThread, NoTask
  <2> QED  BY <2>1, <2>2, Zenon DEF State, KeptFiber, Owns
<1>8. \A f \in Fibers : f # g => SameFiber(f) /\ SameHold(t, f)
  BY <1>0, <1>1, <1>3, NoneAssumption, Domains, Zenon DEF SameFiber, SameHold, Held, Current, NoTask
<1>9. g \in Fibers => ~(ft'[t].fiber = g /\ cb_fiber'[t] = g)
  BY <1>1, NoneAssumption DEF NoTask
<1> QED  BY <1>3, <1>4, <1>5, <1>6, <1>7, <1>8, <1>9, LocalStep, Zenon

\* The branches of run() for a task that ended.
LEMMA FinishFib ==
  ASSUME Types, Fib, NEW t \in Threads, Finish(t)  PROVE Fib'
<1>0. PICK g : g = Current(t)
  OBVIOUS
<1>1. /\ pc[t] = "post" /\ pc' = [pc EXCEPT ![t] = "scan"] /\ m_state[g] \in Ended
      /\ ft' = [ft EXCEPT ![t] = NoTask]
      /\ UNCHANGED <<m_fibers, armed, cb_fiber>>
  BY <1>0, Zenon DEF Finish, At, Goto
<1>2. /\ g \in Fibers /\ \A u \in Threads : u # t => ~Owns(u, g)
      /\ ft[t].fiber # None => cb_fiber[t] # g /\ ft[t].fiber = g
      /\ ft[t].fiber = None => cb_fiber[t] = g
      /\ g \notin Pending
  BY <1>0, <1>1, CurrentOwned, Zenon DEF Held, Fib, Positions, Position, Ended
<1>3. Pending' = Pending /\ Shape(m_fibers') /\ Once'
  BY <1>1, SamePending
<1>4. /\ ft[t].fiber # None => m_state'[g] = "FREE" /\ m_cb' = m_cb
      /\ ft[t].fiber = None => m_state'[g] = "INIT" /\ m_cb'[g] = None
      /\ \A f \in Fibers : f # g => m_state'[f] = m_state[f] /\ m_cb'[f] = m_cb[f]
  <2>1. CASE ft[t].fiber # None
    <3>1. m_state' = Dropped(t, g) /\ m_cb' = m_cb
      BY <1>0, <2>1, Zenon DEF Finish
    <3>2. ~Wanted(g)
      BY <1>2 DEF Pending
    <3>3. \A u \in Threads : ~(cb_fiber[u] = g \/ (u # t /\ ft[u].fiber = g))
      BY <1>2, <2>1, Zenon DEF Owns
    <3>4. m_state' = [m_state EXCEPT ![g] = "FREE"]
      BY <3>1, <3>2, <3>3, Zenon DEF Dropped
    <3> QED  BY <1>2, <2>1, <3>1, <3>4, Domains, Zenon
  <2>2. CASE ft[t].fiber = None
    BY <1>2, <2>2, Domains, Zenon DEF Finish
  <2> QED  BY <2>1, <2>2, Zenon
<1>5. /\ pc'[t] = "scan" /\ ft'[t] = NoTask
      /\ \A u \in Threads : u # t => pc'[u] = pc[u] /\ ft'[u] = ft[u]
  BY <1>1, Domains
<1>6. Tasks'
  BY <1>1, <1>3, <1>5 DEF Tasks, Fib, Current, Held
<1>7. Position(t)'
  <2>1. cb_fiber[t] # None /\ cb_fiber[t] # g =>
          m_state'[cb_fiber[t]] = m_state[cb_fiber[t]] /\ m_cb'[cb_fiber[t]] = m_cb[cb_fiber[t]]
    BY <1>4, Zenon DEF Types
  <2>2. ft[t].fiber # None /\ cb_fiber[t] # None =>
          /\ m_state[cb_fiber[t]] = "INIT" /\ m_cb[cb_fiber[t]] = None
          /\ cb_fiber[t] \notin Pending
    BY Zenon DEF Fib, Positions, Position
  <2> QED  BY <1>1, <1>2, <1>3, <1>4, <1>5, <2>1, <2>2, Zenon DEF Position, Held
<1>8. State(g)' /\ KeptFiber(g)'
  <2>1. ASSUME NEW u \in Threads  PROVE m_state'[g] = "FREE" => ~Owns(u, g)'
    BY <1>1, <1>2, <1>4, <1>5, NoneAssumption DEF Owns, NoTask
  <2> QED  BY <1>2, <1>3, <1>4, <2>1, Zenon DEF State, KeptFiber
<1>9. \A f \in Fibers : f # g => SameFiber(f) /\ SameHold(t, f)
  <2> SUFFICES ASSUME NEW f \in Fibers, f # g  PROVE SameFiber(f) /\ SameHold(t, f)
    OBVIOUS
  <2>1. SameFiber(f)
    BY <1>1, <1>3, <1>4, Zenon DEF SameFiber
  <2>2. NoTask.fiber = None
    BY DEF NoTask
  <2>3. SameHold(t, f)
    BY <1>0, <1>1, <1>2, <1>5, <2>2, NoneAssumption, Zenon DEF SameHold, Held
  <2> QED  BY <2>1, <2>3
<1>10. \A u \in Threads : u # t => SameThread(u)
  BY <1>1, <1>5 DEF SameThread
<1>11. ~(ft'[t].fiber = g /\ cb_fiber'[t] = g)
  BY <1>2, <1>5, NoneAssumption DEF NoTask
<1> QED  BY <1>2, <1>3, <1>6, <1>7, <1>8, <1>9, <1>10, <1>11, LocalStep, Zenon

\* The clients that schedule a callback.
LEMMA PushCallbackFib ==
  ASSUME Types, Fib, NEW a, NEW j \in Jobs, NEW th \in Pins, Schedule(a, CbTask(j, th)),
         UNCHANGED <<m_state, m_cb, ft, cb_fiber, armed, pc>>
  PROVE  Fib'
<1> DEFINE e == CbTask(j, th)
<1>1. e \in FiberAndThread /\ e.fiber = None /\ e.cb # None /\ None \notin Pending
  BY SchedulerAssumption, NoneAssumption, Zenon DEF CbTask, FiberAndThread, Pending
<1>2. Schedule(a, e)
  OBVIOUS
<1> HIDE DEF e
<1>3. Pending' = Pending /\ Shape(m_fibers') /\ Once'
  BY <1>1, <1>2, PushPending, Zenon
<1> QED  BY <1>3, QuietStep, Zenon

\* main() schedules a callback or a new fiber.
LEMMA ClientScheduleFib ==
  ASSUME Types, Fib, ClientSchedule  PROVE Fib'
<1>1. PICK j \in fresh, th \in Pins :
        \/ Schedule(Main, CbTask(j, th)) /\ UNCHANGED <<m_state, m_cb>>
        \/ \E f \in Fibers :
             /\ m_state[f] = "FREE"
             /\ m_state' = [m_state EXCEPT ![f] = "INIT"]
             /\ m_cb' = [m_cb EXCEPT ![f] = j]
             /\ Schedule(Main, FiberTask(f, th))
  BY Zenon DEF ClientSchedule
<1>2. j \in Jobs /\ UNCHANGED <<ft, cb_fiber, armed, pc>>
  BY Zenon DEF ClientSchedule, Types
<1>3. CASE Schedule(Main, CbTask(j, th)) /\ UNCHANGED <<m_state, m_cb>>
  BY <1>2, <1>3, PushCallbackFib
<1>4. ASSUME NEW g \in Fibers, m_state[g] = "FREE", m_state' = [m_state EXCEPT ![g] = "INIT"],
             m_cb' = [m_cb EXCEPT ![g] = j], Schedule(Main, FiberTask(g, th))
      PROVE  Fib'
  <2>1. g \notin Pending /\ \A u \in Threads : ~Owns(u, g)
    BY <1>4, Zenon DEF Fib, States, State
  <2>2. Pending' = Pending \cup {g} /\ Shape(m_fibers') /\ Once'
    <3> DEFINE e == FiberTask(g, th)
    <3>1. e \in FiberAndThread /\ e.fiber = g /\ e.cb = None
      BY SchedulerAssumption, Zenon DEF FiberTask, FiberAndThread
    <3>2. Schedule(Main, e)
      BY <1>4
    <3> HIDE DEF e
    <3> QED  BY <1>2, <2>1, <3>1, <3>2, PushPending, NoneAssumption, Zenon
  <2>3. Tasks'
    BY <1>2, <2>2, Zenon DEF Tasks, Fib, Current, Held
  <2>4. State(g)' /\ KeptFiber(g)'
    BY <1>4, <2>2, Zenon DEF State, KeptFiber, Types
  <2>5. \A f \in Fibers : f # g => SameFiber(f)
    BY <1>4, <2>2, Zenon DEF SameFiber, Types
  <2>6. \A u \in Threads : SameThread(u)
    BY <1>2 DEF SameThread
  <2>7. None \notin Threads
    BY NoneAssumption
  <2> QED  BY <2>1, <2>2, <2>3, <2>4, <2>5, <2>6, <2>7, LocalStep, Zenon
<1> QED  BY <1>1, <1>3, <1>4, Zenon

\* A waker schedules the fiber it was given.
LEMMA WakeFib ==
  ASSUME Types, Fib, Wake  PROVE Fib'
<1>1. PICK f \in armed : Schedule(Waker, FiberTask(f, AnyThread)) /\ armed' = armed \ {f}
  BY DEF Wake
<1>2. f \in Fibers /\ ~In(m_fibers, f)
  BY Zenon DEF Types, Fib, Once
<1> DEFINE e == FiberTask(f, AnyThread)
<1>3. e \in FiberAndThread /\ e.fiber = f /\ e.cb = None
  BY <1>2 DEF FiberTask, FiberAndThread
<1>4. m_fibers' = Append(m_fibers, e)
  BY <1>1 DEF Schedule
<1> HIDE DEF e
<1>5. /\ \A h : In(m_fibers', h) <=> In(m_fibers, h) \/ f = h
      /\ Shape(m_fibers') /\ Distinct(m_fibers')
  BY <1>2, <1>3, <1>4, PushEntry, NoneAssumption, Zenon DEF Types, Fib, Tasks, Once
<1>6. Once'
  BY <1>1, <1>5 DEF Fib, Once
<1>7. Pending' = Pending
  <2>1. /\ Pending' = {h \in Fibers : h \in armed' \/ In(m_fibers', h)}
        /\ Pending = {h \in Fibers : h \in armed \/ In(m_fibers, h)}
    BY DEF Pending, Wanted, Queued, In
  <2> QED  BY <1>1, <1>5, <2>1
<1>8. UNCHANGED <<m_state, m_cb, ft, cb_fiber, pc>>
  BY DEF Wake
<1> QED  BY <1>5, <1>6, <1>7, <1>8, QuietStep, Zenon

-----------------------------------------------------------------------------
(* Fib is preserved by what a task does, Types and Phases by every step. *)

\* A task gives itself to a waker.
LEMMA JobParkFib ==
  ASSUME Types, Fib, NEW t \in Threads, JobPark(t)  PROVE Fib'
<1>0. PICK g : g = Current(t)
  OBVIOUS
<1>1. /\ pc[t] = "exec" /\ g \notin Pending /\ armed' = armed \cup {g}
      /\ UNCHANGED <<m_fibers, m_state, m_cb, ft, cb_fiber, pc>>
  BY <1>0, Zenon DEF JobPark, At, Pending
<1>2. /\ g \in Fibers /\ m_state[g] = "EXEC" /\ \A u \in Threads : u # t => ~Owns(u, g)
      /\ Owns(t, g) /\ ~(ft[t].fiber = g /\ cb_fiber[t] = g)
  BY <1>0, <1>1, CurrentOwned, NoneAssumption DEF Held, Fib, Positions, Position, Owns
<1>3. Pending' = Pending \cup {g} /\ Once'
  <2>1. /\ Pending' = {f \in Fibers : f \in armed' \/ In(m_fibers', f)}
        /\ Pending = {f \in Fibers : f \in armed \/ In(m_fibers, f)}
    BY DEF Pending, Wanted, Queued, In
  <2> QED  BY <1>1, <1>2, <2>1, Zenon DEF Fib, Once
<1>4. Tasks'
  BY <1>1, Zenon DEF Tasks, Fib, Current
<1>5. Position(t)'
  <2>1. Position(t)
    BY DEF Fib, Positions
  <2>2. cb_fiber[t] = g => ft[t].fiber = None
    BY <1>0, <1>1, CurrentOwned, Zenon DEF Held
  <2> QED  BY <1>0, <1>1, <1>2, <1>3, <2>1, <2>2, Zenon DEF Position, Held, Current
<1>6. State(g)' /\ KeptFiber(g)'
  BY <1>0, <1>1, <1>2, <1>3, Zenon DEF State, KeptFiber, Held, Current
<1>7. \A f \in Fibers : f # g => SameFiber(f) /\ SameHold(t, f)
  BY <1>1, <1>3, Zenon DEF SameFiber, SameHold, Current
<1>8. \A u \in Threads : u # t => SameThread(u) /\ ~Owns(u, g)
  BY <1>1, <1>2, Zenon DEF SameThread
<1> QED  BY <1>1, <1>2, <1>3, <1>4, <1>5, <1>6, <1>7, <1>8, LocalStep, Zenon

\* A task schedules itself for another thread.
LEMMA JobSwitchToFib ==
  ASSUME Types, Fib, NEW t \in Threads, JobSwitchTo(t)  PROVE Fib'
<1>0. PICK g : g = Current(t)
  OBVIOUS
<1>1. /\ pc[t] = "exec" /\ pc' = [pc EXCEPT ![t] = "switch"] /\ g \notin Pending
      /\ UNCHANGED <<armed, m_state, m_cb, ft, cb_fiber>>
  BY <1>0, Zenon DEF JobSwitchTo, At, Goto, Pending
<1>2. /\ g \in Fibers /\ m_state[g] = "EXEC" /\ \A u \in Threads : u # t => ~Owns(u, g)
      /\ Owns(t, g) /\ ~(ft[t].fiber = g /\ cb_fiber[t] = g)
  BY <1>0, <1>1, CurrentOwned, NoneAssumption, Zenon DEF Held, Fib, Positions, Position, Owns
<1>3. Pending' = Pending \cup {g} /\ Shape(m_fibers') /\ Once'
  <2>1. PICK th \in Pins \ {AnyThread, t} : Schedule(t, FiberTask(g, th))
    BY <1>0, Zenon DEF JobSwitchTo
  <2>2. th \in Threads
    BY SchedulerAssumption
  <2> DEFINE e == FiberTask(g, th)
  <2>3. e \in FiberAndThread /\ e.fiber = g /\ e.cb = None
    BY <1>2, <2>2, Zenon DEF FiberTask, FiberAndThread
  <2>4. Schedule(t, e)
    BY <2>1
  <2> HIDE DEF e
  <2> QED  BY <1>1, <1>2, <2>3, <2>4, PushPending, NoneAssumption, Zenon
<1>4. Tasks'
  BY <1>0, <1>1, <1>3, Zenon DEF Tasks, Fib, Current, Held, Types
<1>5. Position(t)'
  <2>1. Position(t)
    BY DEF Fib, Positions
  <2>2. cb_fiber[t] = g => ft[t].fiber = None
    BY <1>0, <1>1, CurrentOwned, Zenon DEF Held
  <2> QED  BY <1>0, <1>1, <1>2, <1>3, <2>1, <2>2, Zenon DEF Position, Held, Current, Types
<1>6. State(g)' /\ KeptFiber(g)'
  BY <1>0, <1>1, <1>2, <1>3, Zenon DEF State, KeptFiber, Held, Current, Types
<1>7. \A f \in Fibers : f # g => SameFiber(f) /\ SameHold(t, f)
  BY <1>1, <1>3, Zenon DEF SameFiber, SameHold, Current, Types, Held
<1>8. \A u \in Threads : u # t => SameThread(u) /\ ~Owns(u, g)
  BY <1>1, <1>2, Zenon DEF SameThread, Types
<1> QED  BY <1>1, <1>2, <1>3, <1>4, <1>5, <1>6, <1>7, <1>8, LocalStep, Zenon

\* YieldToReady(), and both ends of MainFunc.
LEMMA SliceEndsFib ==
  ASSUME ~Duplicates, Types, Fib, NEW t \in Threads,
         YieldToReady(t) \/ MainFuncReturn(t) \/ MainFuncThrow(t)
  PROVE  Fib'
<1>0. PICK g : g = Current(t)
  OBVIOUS
<1>1. /\ pc[t] = "exec" /\ pc' = [pc EXCEPT ![t] = "back"]
      /\ UNCHANGED <<m_fibers, armed, ft, cb_fiber>>
      /\ ~Wanted(g)
  BY <1>0, Zenon DEF YieldToReady, MainFuncReturn, MainFuncThrow, At, Goto
<1>2. /\ g \in Fibers /\ \A u \in Threads : u # t => ~Owns(u, g)
      /\ Owns(t, g) /\ ~(ft[t].fiber = g /\ cb_fiber[t] = g)
      /\ g \notin Pending
  BY <1>0, <1>1, CurrentOwned, NoneAssumption, Zenon DEF Held, Owns, Pending
<1>3. Pending' = Pending /\ Shape(m_fibers') /\ Once'
  BY <1>1, SamePending
<1>4. /\ m_state'[g] \in {"READY"} \cup Ended
      /\ \A f \in Fibers : f # g => m_state'[f] = m_state[f] /\ m_cb'[f] = m_cb[f]
  BY <1>0, <1>2 DEF YieldToReady, MainFuncReturn, MainFuncThrow, Types, Ended
<1>5. Tasks'
  BY <1>1, <1>3, Zenon DEF Tasks, Fib, Current, Held, Types
<1>6. Position(t)'
  <2>1. Position(t)
    BY DEF Fib, Positions
  <2>2. cb_fiber[t] = g => ft[t].fiber = None
    BY <1>0, <1>1, CurrentOwned, Zenon DEF Held
  <2>3. cb_fiber[t] # g /\ cb_fiber[t] # None => m_state'[cb_fiber[t]] = m_state[cb_fiber[t]]
                                               /\ m_cb'[cb_fiber[t]] = m_cb[cb_fiber[t]]
    BY <1>4 DEF Types
  <2> QED  BY <1>0, <1>1, <1>2, <1>3, <1>4, <2>1, <2>2, <2>3, Zenon DEF Position, Held, Current, Types
<1>7. State(g)' /\ KeptFiber(g)'
  <2>1. Has(t, g)'
    BY <1>0, <1>1, Zenon DEF Has, Current, Types
  <2> QED  BY <1>1, <1>2, <1>3, <1>4, <2>1, Zenon DEF State, KeptFiber, Held, Current, Types, Ended
<1>8. \A f \in Fibers : f # g => SameFiber(f) /\ SameHold(t, f)
  BY <1>1, <1>3, <1>4, Zenon DEF SameFiber, SameHold, Current, Types, Held
<1>9. \A u \in Threads : u # t => SameThread(u) /\ ~Owns(u, g)
  BY <1>1, <1>2, Zenon DEF SameThread, Types
<1> QED  BY <1>1, <1>2, <1>3, <1>5, <1>6, <1>7, <1>8, <1>9, LocalStep, Zenon

\* schedule() keeps the list a list of tasks.
LEMMA PushTypes ==
  ASSUME Types, NEW a \in Threads \cup {Main, Waker}, NEW task \in FiberAndThread, Schedule(a, task)
  PROVE  m_fibers' \in Seq(FiberAndThread)
  BY DEF Types, Schedule

\* The tasks the actions build are well typed.
LEMMA TaskTypes ==
  /\ NoTask \in FiberAndThread
  /\ \A f \in Fibers, th \in Threads \cup {AnyThread} : FiberTask(f, th) \in FiberAndThread
  /\ \A j \in Jobs, th \in Threads \cup {AnyThread} : CbTask(j, th) \in FiberAndThread
  /\ Pins \subseteq Threads \cup {AnyThread}
  BY SchedulerAssumption, Zenon DEF NoTask, FiberTask, CbTask, FiberAndThread

\* Every step preserves Types.
LEMMA TypesStep ==
  ASSUME Types, Fib, [Next]_vars  PROVE Types'
<1>1. CASE UNCHANGED vars
  BY <1>1, Zenon DEF vars, taskVars, countVars, stopVars, Types
<1>2. ASSUME NEW t \in Threads, Run(t)  PROVE Types'
  <2> USE <1>2
  <2>1. CASE Take(t)
    <3>1. PICK i \in DOMAIN m_fibers :
            /\ ft' = [ft EXCEPT ![t] = m_fibers[i]]
            /\ m_fibers' = Erase(m_fibers, i)
      BY <2>1, Zenon DEF Take
    <3>2. m_fibers' \in Seq(FiberAndThread)
      BY <3>1, EraseEntry, Zenon DEF Types, Fib, Tasks, Once
    <3>3. m_fibers[i] \in FiberAndThread
      BY DEF Types
    <3> QED  BY <2>1, <3>1, <3>2, <3>3, Zenon DEF Take, Goto, Types, stopVars
  <2>2. CASE FindNothing(t)
    BY <2>2, TaskTypes, Zenon DEF FindNothing, Goto, Types, stopVars
  <2>3. CASE RunFiber(t)
    BY <2>3, Zenon DEF RunFiber, Goto, Types, stopVars
  <2>4. CASE RunCb(t)
    <3>1. PICK f \in Fibers : /\ cb_fiber' = [cb_fiber EXCEPT ![t] = f]
                              /\ m_state' = [m_state EXCEPT ![f] = "EXEC"]
                              /\ m_cb' = [m_cb EXCEPT ![f] = ft[t].cb]
      BY <2>4, Zenon DEF RunCb
    <3>2. ft[t].cb \in Jobs \cup {None}
      BY Zenon DEF Types, FiberAndThread
    <3> QED  BY <2>4, <3>1, <3>2, TaskTypes DEF RunCb, Goto, Types, stopVars
  <2>5. CASE Discard(t)
    BY <2>5, TaskTypes, Zenon DEF Discard, Dropped, Goto, Types, stopVars
  <2>6. CASE EnterIdle(t)
    BY <2>6, Zenon DEF EnterIdle, Goto, Types, stopVars, taskVars
  <2>7. CASE Exit(t)
    BY <2>7, Zenon DEF Exit, Goto, Types, stopVars
  <2>8. CASE Back(t)
    BY <2>8, Zenon DEF Back, Goto, Types, stopVars, taskVars
  <2>9. CASE Reschedule(t)
    <3>1. Current(t) \in Fibers
      BY <2>9, CurrentOwned, Zenon DEF Reschedule, At, Held
    <3>2. Schedule(t, FiberTask(Current(t), AnyThread)) /\ FiberTask(Current(t), AnyThread) \in FiberAndThread
      BY <2>9, <3>1, TaskTypes, Zenon DEF Reschedule
    <3>3. m_fibers' \in Seq(FiberAndThread)
      BY <3>2, PushTypes
    <3> QED  BY <2>9, <3>3, TaskTypes, Zenon DEF Reschedule, DropCurrent, Goto, Types, stopVars
  <2>10. CASE Finish(t)
    BY <2>10, TaskTypes DEF Finish, Dropped, Goto, Types, stopVars
  <2>11. CASE Hold(t)
    BY <2>11, TaskTypes, Zenon DEF Hold, DropCurrent, Goto, Types, stopVars
  <2> QED
    BY <1>2, <2>1, <2>2, <2>3, <2>4, <2>5, <2>6, <2>7, <2>8, <2>9, <2>10, <2>11, Zenon DEF Run
<1>3. ASSUME NEW t \in Threads, Job(t)  PROVE Types'
  <2>1. CASE JobSchedule(t)
    <3>1. PICK j \in fresh, th \in Pins : Schedule(t, CbTask(j, th)) /\ fresh' = fresh \ {j}
      BY <2>1 DEF JobSchedule
    <3>2. CbTask(j, th) \in FiberAndThread
      BY TaskTypes, Zenon DEF Types
    <3>3. m_fibers' \in Seq(FiberAndThread)
      BY <3>1, <3>2, PushTypes
    <3> QED  BY <2>1, <3>1, <3>3 DEF JobSchedule, Types, stopVars
  <2>2. CASE JobPark(t)
    <3>1. Current(t) \in Fibers
      BY <2>2, CurrentOwned, Zenon DEF JobPark, At, Held
    <3> QED  BY <2>2, <3>1 DEF JobPark, Types, stopVars
  <2>3. CASE JobSwitchTo(t)
    <3>1. Current(t) \in Fibers
      BY <2>3, CurrentOwned, Zenon DEF JobSwitchTo, At, Held
    <3>2. PICK th \in Pins : Schedule(t, FiberTask(Current(t), th))
      BY <2>3, Zenon DEF JobSwitchTo
    <3>3. FiberTask(Current(t), th) \in FiberAndThread
      BY <3>1, TaskTypes
    <3>4. m_fibers' \in Seq(FiberAndThread)
      BY <3>2, <3>3, PushTypes
    <3> QED  BY <2>3, <3>4, Zenon DEF JobSwitchTo, Goto, Types, stopVars
  <2>4. CASE YieldToHold(t)
    BY <2>4, Zenon DEF YieldToHold, Goto, Types, stopVars, taskVars
  <2>5. CASE YieldToReady(t)
    BY <2>5, Zenon DEF YieldToReady, Goto, Types, stopVars
  <2>6. CASE MainFuncReturn(t)
    <3>1. Current(t) \in Fibers
      BY <2>6, CurrentOwned, Zenon DEF MainFuncReturn, At, Held
    <3> QED  BY <2>6, <3>1, Zenon DEF MainFuncReturn, Goto, Types, stopVars
  <2>7. CASE MainFuncThrow(t)
    <3>1. Current(t) \in Fibers
      BY <2>7, CurrentOwned, Zenon DEF MainFuncThrow, At, Held
    <3> QED  BY <2>7, <3>1 DEF MainFuncThrow, Goto, Types, stopVars
  <2> QED  BY <1>3, <2>1, <2>2, <2>3, <2>4, <2>5, <2>6, <2>7 DEF Job
<1>4. ASSUME NEW t \in Threads, Idle(t)  PROVE Types'
  BY <1>4, Zenon DEF Idle, Goto, Types, stopVars, taskVars
<1>5. ASSUME NEW a \in Threads \cup {Main, Waker}, Tickle(a)  PROVE Types'
  BY <1>5, Zenon DEF Tickle, Types, stopVars, taskVars
<1>6. CASE ClientSchedule
  <2>1. PICK j \in fresh, th \in Pins :
          /\ fresh' = fresh \ {j}
          /\ \/ Schedule(Main, CbTask(j, th)) /\ UNCHANGED <<m_state, m_cb>>
             \/ \E f \in Fibers :
                  /\ m_state[f] = "FREE"
                  /\ m_state' = [m_state EXCEPT ![f] = "INIT"]
                  /\ m_cb' = [m_cb EXCEPT ![f] = j]
                  /\ Schedule(Main, FiberTask(f, th))
    BY <1>6, Zenon DEF ClientSchedule
  <2>2. PICK e \in FiberAndThread : Schedule(Main, e)
    BY <2>1, TaskTypes, Zenon DEF Types
  <2>3. m_fibers' \in Seq(FiberAndThread)
    BY <2>2, PushTypes, Zenon
  <2>4. /\ m_state' \in [Fibers -> {"FREE", "INIT", "HOLD", "EXEC", "READY", "TERM", "EXCEPT"}]
        /\ m_cb' \in [Fibers -> Jobs \cup {None}]
    BY <2>1 DEF Types
  <2> QED  BY <1>6, <2>1, <2>3, <2>4, Zenon DEF ClientSchedule, Types, stopVars
<1>7. CASE Wake
  <2>1. PICK f \in armed : Schedule(Waker, FiberTask(f, AnyThread)) /\ armed' = armed \ {f}
    BY <1>7 DEF Wake
  <2>2. FiberTask(f, AnyThread) \in FiberAndThread
    BY TaskTypes, Zenon DEF Types
  <2>3. m_fibers' \in Seq(FiberAndThread)
    BY <2>1, <2>2, PushTypes, Zenon
  <2> QED  BY <1>7, <2>1, <2>3, Zenon DEF Wake, Types, stopVars
<1>8. CASE ScheduleAgain
  <2>1. PICK i \in DOMAIN m_fibers : Schedule(Waker, m_fibers[i])
    BY <1>8 DEF ScheduleAgain
  <2>2. m_fibers[i] \in FiberAndThread
    BY DEF Types
  <2>3. m_fibers' \in Seq(FiberAndThread)
    BY <2>1, <2>2, PushTypes, Zenon
  <2> QED  BY <1>8, <2>3, Zenon DEF ScheduleAgain, Types, stopVars
<1>9. CASE Start
  BY <1>9, Zenon DEF Start, Types, taskVars
<1>10. CASE Stop
  <2>2. CASE StopFlag
    BY <2>2, Zenon DEF StopFlag, Types, taskVars
  <2>3. CASE \E b : StopCall(b)
    BY <2>3 DEF StopCall, Goto, Types, taskVars
  <2>4. CASE \E b : StopAlone(b)
    BY <2>4, Zenon DEF StopAlone, Types, taskVars
  <2>5. CASE StopAuto \/ StopCalled \/ StopJoin
    BY <2>5, Zenon DEF StopAuto, StopCalled, StopJoin, Types, taskVars
  <2> QED  BY <1>10, <2>2, <2>3, <2>4, <2>5, Zenon DEF Stop
<1> QED  BY <1>1, <1>2, <1>3, <1>4, <1>5, <1>6, <1>7, <1>8, <1>9, <1>10, Zenon DEF Next, Stopped

\* Every step preserves Phases.
LEMMA PhasesStep ==
  ASSUME Types, Phases, [Next]_vars  PROVE Phases'
<1>1. CASE UNCHANGED vars
  BY <1>1 DEF vars, stopVars, Phases
<1>2. ASSUME NEW t \in Threads, Run(t) \/ Job(t) \/ Idle(t)  PROVE Phases'
  <2>1. mpc' = mpc /\ pc[t] # "off" /\ \A u \in Threads : u # t => pc'[u] = pc[u]
    BY <1>2, Zenon DEF Run, Job, Idle, Take, FindNothing, RunFiber, RunCb, Discard, EnterIdle, Exit, Back,
       Reschedule, Finish, Hold, JobSchedule, JobPark, JobSwitchTo, YieldToHold, YieldToReady,
       MainFuncReturn, MainFuncThrow, At, Goto, stopVars, Types
  <2> QED  BY <2>1 DEF Phases
<1>3. ASSUME NEW a, Tickle(a)  PROVE Phases'
  BY <1>3 DEF Tickle, stopVars, Phases
<1>4. CASE ClientSchedule \/ Wake \/ ScheduleAgain
  BY <1>4, Zenon DEF ClientSchedule, Wake, ScheduleAgain, stopVars, Phases
<1>5. CASE Start
  BY <1>5 DEF Start, Workers, Phases
<1>6. CASE Stop
  BY <1>6, Zenon DEF Stop, StopAuto, StopAlone, StopFlag, StopCall, StopCalled, StopJoin, Goto, Phases
<1> QED  BY <1>1, <1>2, <1>3, <1>4, <1>5, <1>6 DEF Next, Stopped

-----------------------------------------------------------------------------
(* The invariant and what follows from it. *)

\* Every step preserves Fib.
LEMMA FibStep ==
  ASSUME ~Duplicates, Types, Phases, Fib, [Next]_vars  PROVE Fib'
<1>1. CASE UNCHANGED vars
  BY <1>1, SamePending, QuietStep DEF vars, taskVars
<1>2. ASSUME NEW t \in Threads, Run(t)  PROVE Fib'
  <2>1. CASE FindNothing(t)
    <3>1. ft[t] = NoTask /\ pc[t] = "scan"
      BY <2>1 DEF FindNothing, At, Fib, Tasks
    <3> QED  BY <2>1, <3>1, SamePending, QuietStep, Domains DEF FindNothing, Goto
  <2>2. CASE EnterIdle(t)
    BY <2>2, SamePending, QuietStep, Domains DEF EnterIdle, At, Goto, taskVars
  <2>3. CASE Discard(t)
    BY <2>3 DEF Discard, At, Fib, Positions, Position, Ended
  <2> QED
    BY <1>2, <2>1, <2>2, <2>3, TakeFib, RunFiberFib, RunCbFib, ExitFib, SwitchBackFib,
       RescheduleFib, FinishFib, HoldFib DEF Run
<1>3. ASSUME NEW t \in Threads, Job(t)  PROVE Fib'
  <2>1. CASE JobSchedule(t)
    <3>1. PICK j \in fresh, th \in Pins : Schedule(t, CbTask(j, th))
      BY <2>1 DEF JobSchedule
    <3> QED  BY <2>1, <3>1, PushCallbackFib DEF JobSchedule, Types
  <2> QED
    BY <1>3, <2>1, JobParkFib, JobSwitchToFib, SwitchBackFib, SliceEndsFib DEF Job
<1>4. ASSUME NEW t \in Threads, Idle(t)  PROVE Fib'
  <2>1. ft[t] = NoTask /\ pc[t] = "idle"
    BY <1>4 DEF Idle, At, Fib, Tasks
  <2> QED  BY <1>4, <2>1, SamePending, QuietStep, Domains DEF Idle, Goto, taskVars
<1>5. ASSUME NEW a \in Threads \cup {Main, Waker}, Tickle(a)  PROVE Fib'
  BY <1>5, SamePending, QuietStep DEF Tickle, taskVars
<1>6. CASE ClientSchedule
  BY <1>6, ClientScheduleFib
<1>7. CASE Wake
  BY <1>7, WakeFib
<1>8. CASE ScheduleAgain
  BY <1>8 DEF ScheduleAgain
<1>9. CASE Start
  <2>1. /\ UNCHANGED <<m_fibers, armed, m_state, m_cb, ft, cb_fiber>>
        /\ pc' = [t \in Threads |-> IF t \in Workers THEN "scan" ELSE pc[t]]
        /\ \A u \in Threads : pc[u] = "off" /\ ft[u] = NoTask
    BY <1>9, Zenon DEF Start, taskVars, Phases, Fib, Tasks
  <2> QED  BY <2>1, SamePending, QuietStep
<1>10. CASE Stop
  <2>1. CASE \E b : StopCall(b)
    <3>1. /\ UNCHANGED <<m_fibers, armed, m_state, m_cb, ft, cb_fiber>>
          /\ \/ pc' = pc
             \/ /\ Root \in Threads /\ pc' = [pc EXCEPT ![Root] = "scan"]
                /\ pc[Root] = "off" /\ ft[Root] = NoTask
      BY <2>1, Zenon DEF StopCall, taskVars, Goto, Phases, Fib, Tasks
    <3> QED  BY <3>1, SamePending, QuietStep, Domains
  <2>2. CASE ~\E b : StopCall(b)
    <3>1. UNCHANGED <<m_fibers, armed, m_state, m_cb, ft, cb_fiber, pc>>
      BY <1>10, <2>2, Zenon DEF Stop, StopAuto, StopAlone, StopFlag, StopCalled, StopJoin, taskVars
    <3> QED  BY <3>1, SamePending, QuietStep
  <2> QED  BY <2>1, <2>2
<1> QED  BY <1>1, <1>2, <1>3, <1>4, <1>5, <1>6, <1>7, <1>8, <1>9, <1>10 DEF Next, Stopped

\* Core holds initially.
LEMMA InitCore == Init => Core
<1> SUFFICES ASSUME Init  PROVE Core
  OBVIOUS
<1>1. Types
  <2>1. m_fibers \in Seq(FiberAndThread)
    BY DEF Init
  <2>2. /\ pc \in [Threads -> {"off"}] /\ ft \in [Threads -> {NoTask}]
        /\ cb_fiber \in [Threads -> {None}] /\ idle_fiber \in [Threads -> {"INIT"}]
        /\ m_state \in [Fibers -> {"FREE"}] /\ m_cb \in [Fibers -> {None}]
    BY DEF Init
  <2>3. armed = {} /\ mpc = "new" /\ fresh = Jobs /\ done = {} /\ ~m_autoStop /\ m_stopping
    BY DEF Init
  <2>4. m_autoStop \in BOOLEAN /\ m_stopping \in BOOLEAN
    BY Zenon DEF Init
  <2> QED  BY <2>1, <2>2, <2>3, <2>4, TaskTypes DEF Types
<1>2. Pending = {}
  BY DEF Init, Pending, Wanted, Queued
<1>3. Fib
  <2>1. Tasks /\ Once
    BY NoneAssumption DEF Init, Tasks, Shape, Once, Distinct, Held
  <2>2. OneOwner
    BY NoneAssumption DEF Init, OneOwner, Owns, NoTask
  <2>3. Positions
    BY <1>2, NoneAssumption DEF Init, Held, Positions, Position
  <2>4. States
    BY <1>2, NoneAssumption, Zenon DEF Init, States, State, Owns, NoTask
  <2>5. Kept
    BY DEF Init, Kept, KeptFiber
  <2> QED  BY <2>1, <2>2, <2>3, <2>4, <2>5 DEF Fib
<1>4. Phases
  BY DEF Init, Phases
<1> QED  BY <1>1, <1>3, <1>4 DEF Core

\* Core is inductive: every step of run(), idle(), the tasks and the clients
\* preserves who owns a fiber, where each thread is with it and where it waits.
THEOREM CoreInvariant == ASSUME ~Duplicates PROVE Spec => []Core
<1>1. Core /\ [Next]_vars => Core'
  BY FibStep, PhasesStep, TypesStep DEF Core
<1> QED  BY <1>1, InitCore, PTL DEF Spec

\* run() never switches two threads onto the same Fiber.
THEOREM OneRunnerHolds == ASSUME ~Duplicates PROVE Spec => []OneRunner
<1>1. Core => OneRunner
  BY DEF Core, Fib, OneOwner, Owns, OneRunner, Has
<1> QED  BY <1>1, CoreInvariant, PTL

\* No assertion of Fiber on its own state fails.
THEOREM AssertsHoldAlways == ASSUME ~Duplicates PROVE Spec => []AssertsHold
<1>1. Core => AssertsHold
  BY Zenon DEF Core, Fib, Positions, Position, Held, AssertsHold, Types
<1> QED  BY <1>1, CoreInvariant, PTL

\* No suspended fiber is forgotten.
THEOREM NoLostFiberHolds == ASSUME ~Duplicates PROVE Spec => []NoLostFiber
<1>1. Core => NoLostFiber
  BY DEF Core, Fib, Kept, KeptFiber, Pending, NoLostFiber
<1> QED  BY <1>1, CoreInvariant, PTL
=============================================================================
