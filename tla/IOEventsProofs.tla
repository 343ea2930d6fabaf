---------------------------- MODULE IOEventsProofs ----------------------------
(* The inductive invariant of IOEvents, and what it says of the events that  *)
(* are registered and the fibers that wait for them, for any number of       *)
(* fibers, threads and descriptors.                                          *)
EXTENDS IOEvents, FiniteSetTheorems, TLAPS

\* What is registered, and with m_pendingEventCount counted.
Registered == {p \in Contexts \X Events : p[2] \in events[p[1]]}

\* What a fiber is doing: the context is the one it found in the table, and it
\* does not wait.
Calls ==
  /\ call \in [Fibers -> {Idle} \cup [op : Ops \cup {"resize", "close_f"}, fd : Fds,
                                      event : Events, ctx : Contexts \cup {None}]]
  /\ \A f \in Fibers : call[f] # Idle =>
       /\ st[f] = "run"
       /\ call[f].op \notin {"resize", "close_f"} => call[f].ctx \in Contexts /\ Fd(call[f].ctx) = call[f].fd

\* A descriptor within the table has a context.
Filled == \A fd \in Fds : fd < size => table[fd] # 0

\* Who waits for what, without counting.
Waits ==
  /\ \A c \in Contexts, e \in Events :
       e \in events[c] => bound[c][e] \in Fibers /\ st[bound[c][e]] = "parked"
  /\ \A f \in Fibers : st[f] = "parked" =>
       \E c \in Contexts, e \in Events : e \in events[c] /\ bound[c][e] = f
  /\ \A c1, c2 \in Contexts, e1, e2 \in Events :
       e1 \in events[c1] /\ e2 \in events[c2] /\ bound[c1][e1] = bound[c2][e2]
         => c1 = c2 /\ e1 = e2

\* TypeOK without what it says of calls, which follows from Calls.
DataTypes ==
  /\ size \in Nat /\ table \in [Fds -> 0..MaxGen] /\ made \in [Fds -> 0..MaxGen]
  /\ events \in [Contexts -> SUBSET Events]
  /\ bound \in [Contexts -> [Events -> Fibers \cup {None}]]
  /\ m_pendingEventCount \in Nat
  /\ st \in [Fibers -> {"run", "parked", "dropped"}]
  /\ open \subseteq Fds /\ aborted \in BOOLEAN
  /\ interest \in [Fds -> {Absent} \cup [mask : SUBSET Events, ctx : Contexts]]
  /\ evts \in [Threads -> SUBSET [ctx : Contexts, ready : SUBSET Events, err : BOOLEAN]]

Inv == TypeOK /\ PendingExact /\ Calls /\ Filled /\ Waits

-----------------------------------------------------------------------------
\* There are finitely many events, so that they can be counted.
LEMMA RegisteredFinite ==
  /\ IsFiniteSet(Registered) /\ IsFiniteSet(Registered')
  /\ Cardinality(Registered) \in Nat /\ Cardinality(Registered') \in Nat
<1>1. IsFiniteSet(1..MaxGen) BY IOAssumption, FS_Interval
<1>2. IsFiniteSet(Contexts)
  <2>1. IsFiniteSet(Fds) BY IOAssumption
  <2> QED BY <1>1, <2>1, FS_Product, Zenon DEF Contexts
<1>3. IsFiniteSet(Events)
  <2>1. IsFiniteSet({"READ"}) BY FS_Singleton, Zenon
  <2>2. IsFiniteSet({"READ"} \cup {"WRITE"}) BY <2>1, FS_AddElement
  <2> QED BY <2>2 DEF Events
<1>4. IsFiniteSet(Contexts \X Events) BY <1>2, <1>3, FS_Product
<1>5. IsFiniteSet(Registered) /\ IsFiniteSet(Registered')
  BY <1>4, FS_Subset DEF Registered
<1> QED BY <1>5, FS_CardinalityType

\* The set that PendingExact counts is Registered.
LEMMA PendingIsRegistered ==
  /\ PendingExact <=> m_pendingEventCount = Cardinality(Registered)
  /\ PendingExact' <=> m_pendingEventCount' = Cardinality(Registered')
  BY DEF PendingExact, Registered

\* The types of the calls come with Calls.
LEMMA TypesOfCalls == DataTypes' /\ Calls' => TypeOK'
  BY Zenon DEF DataTypes, Calls, TypeOK

\* The types of the invariant, in the parts that the steps below need.
LEMMA DataTyped == Inv => DataTypes
  BY Zenon DEF Inv, TypeOK, DataTypes

\* The types of the table of FdContexts.
LEMMA TableTypes ==
  Inv => size \in Nat /\ table \in [Fds -> 0..MaxGen] /\ made \in [Fds -> 0..MaxGen]
  BY Zenon DEF Inv, TypeOK

\* The types of the FdContexts and of the fibers that wait on them.
LEMMA ContextTypes ==
  Inv => /\ events \in [Contexts -> SUBSET Events] /\ m_pendingEventCount \in Nat
         /\ bound \in [Contexts -> [Events -> Fibers \cup {None}]]
         /\ st \in [Fibers -> {"run", "parked", "dropped"}]
  BY Zenon DEF Inv, TypeOK

\* The types of what the kernel keeps.
LEMMA EpollTypes ==
  Inv => /\ open \subseteq Fds /\ aborted \in BOOLEAN
         /\ interest \in [Fds -> {Absent} \cup [mask : SUBSET Events, ctx : Contexts]]
         /\ evts \in [Threads -> SUBSET [ctx : Contexts, ready : SUBSET Events, err : BOOLEAN]]
  BY Zenon DEF Inv, TypeOK

\* A step that leaves the table and the contexts alone keeps what is said of them.
LEMMA SameContexts ==
  ASSUME Inv, UNCHANGED <<tableVars, contextVars>>
  PROVE  PendingExact' /\ Filled' /\ Waits'
<1>1. PendingExact' BY DEF Inv, PendingExact, contextVars
<1>2. Filled' BY DEF Inv, Filled, tableVars
<1>3. Waits' BY DEF Inv, Waits, contextVars
<1> QED BY <1>1, <1>2, <1>3

\* Taking the events es out of a context takes Cardinality(es) of the registered
\* ones.
LEMMA TakeOutCount ==
  ASSUME events \in [Contexts -> SUBSET Events], NEW c \in Contexts,
         NEW es \in SUBSET Events, es \subseteq events[c],
         events' = [events EXCEPT ![c] = @ \ es]
  PROVE  Cardinality(Registered') = Cardinality(Registered) - Cardinality(es)
<1> DEFINE one(e) == Registered \ {<<c, e>>}
<1>1. \A e \in es : <<c, e>> \in Registered BY DEF Registered
<1>2. Registered' = {p \in Registered : ~(p[1] = c /\ p[2] \in es)} BY DEF Registered
<1>3. \A p \in Registered : p = <<p[1], p[2]>> BY DEF Registered
<1>4. ASSUME NEW e \in es
      PROVE  IsFiniteSet(one(e)) /\ Cardinality(one(e)) = Cardinality(Registered) - 1
  BY <1>1, RegisteredFinite, FS_RemoveElement, Zenon
<1>5. CASE es = {}
  <2>1. Registered' = Registered BY <1>2, <1>5
  <2> QED BY <1>5, <2>1, FS_EmptySet, RegisteredFinite
<1>6. ASSUME NEW e \in Events, es = {e} PROVE Cardinality(Registered') = Cardinality(Registered) - Cardinality(es)
  <2>1. Registered' = one(e) BY <1>2, <1>3, <1>6
  <2>2. Cardinality(es) = 1 BY <1>6, FS_Singleton, Zenon
  <2> QED BY <1>4, <1>6, <2>1, <2>2
<1>7. CASE es = {"READ", "WRITE"}
  <2>1. Registered' = one("READ") \ {<<c, "WRITE">>} BY <1>2, <1>3, <1>7
  <2>2. <<c, "WRITE">> \in one("READ") BY <1>1, <1>7
  <2>3. Cardinality(Registered') = Cardinality(one("READ")) - 1
    BY <1>4, <1>7, <2>1, <2>2, FS_RemoveElement, Zenon
  <2>4. Cardinality(es) = 2
    <3>1. Cardinality({"READ"}) = 1 /\ IsFiniteSet({"READ"}) BY FS_Singleton, Zenon
    <3>4. "WRITE" \notin {"READ"} OBVIOUS
    <3>5. Cardinality({"READ"} \cup {"WRITE"}) = Cardinality({"READ"}) + 1
      BY <3>1, <3>4, FS_AddElement, Zenon
    <3>2. Cardinality({"READ"} \cup {"WRITE"}) = 2 BY <3>1, <3>5
    <3>3. es = {"READ"} \cup {"WRITE"} BY <1>7
    <3> QED BY <3>2, <3>3
  <2>5. Cardinality(one("READ")) = Cardinality(Registered) - 1 BY <1>4, <1>7
  <2> HIDE DEF one
  <2> QED BY <2>3, <2>4, <2>5, RegisteredFinite
<1>8. es = {} \/ es = {"READ"} \/ es = {"WRITE"} \/ es = {"READ", "WRITE"} BY Zenon DEF Events
<1> QED BY <1>5, <1>6, <1>7, <1>8, Zenon DEF Events

\* TakeOut() takes out events with their fibers: those that wait for others are
\* not touched, and the count follows.
LEMMA TakeOutKeeps ==
  ASSUME Inv, NEW c \in Contexts, NEW es \in SUBSET Events, es \subseteq events[c],
         NEW to \in {"run", "dropped"}, TakeOut(c, es, to)
  PROVE  /\ events' \in [Contexts -> SUBSET Events]
         /\ bound' \in [Contexts -> [Events -> Fibers \cup {None}]]
         /\ m_pendingEventCount' \in Nat
         /\ st' \in [Fibers -> {"run", "parked", "dropped"}]
         /\ PendingExact' /\ Waits'
         /\ \A f \in Fibers : st[f] = "run" => st'[f] = "run"
<1> USE DEF TakeOut
<1>1. events' \in [Contexts -> SUBSET Events] BY ContextTypes, Zenon
<1>2. bound' \in [Contexts -> [Events -> Fibers \cup {None}]] BY ContextTypes
<1>3. st' \in [Fibers -> {"run", "parked", "dropped"}] BY ContextTypes, Zenon
<1>4. m_pendingEventCount' = Cardinality(Registered')
  <2>1. Cardinality(Registered') = Cardinality(Registered) - Cardinality(es)
    BY TakeOutCount, ContextTypes, Zenon
  <2>2. m_pendingEventCount = Cardinality(Registered) BY PendingIsRegistered, Zenon DEF Inv
  <2> QED BY <2>1, <2>2, Zenon
<1>5. PendingExact' /\ m_pendingEventCount' \in Nat
  BY <1>4, PendingIsRegistered, RegisteredFinite, Zenon
<1>6. \A d \in Contexts, e \in Events : e \in events'[d] <=>
        e \in events[d] /\ ~(d = c /\ e \in es)
  BY ContextTypes, Zenon
<1>7. \A d \in Contexts, e \in Events : e \in events'[d] => bound'[d][e] = bound[d][e]
  BY <1>6, ContextTypes, Zenon
<1>8. \A g \in Fibers : st'[g] = IF \E e \in es : bound[c][e] = g THEN to ELSE st[g]
  OBVIOUS
<1>9. \A g \in Fibers : (\E e \in es : bound[c][e] = g) => st[g] = "parked"
  BY DEF Inv, Waits
<1> HIDE DEF TakeOut
<1>10. ASSUME NEW d \in Contexts, NEW e \in Events, e \in events'[d]
       PROVE  bound'[d][e] \in Fibers /\ st'[bound'[d][e]] = "parked"
  <2>1. e \in events[d] /\ ~(d = c /\ e \in es) /\ bound'[d][e] = bound[d][e]
    BY <1>6, <1>7, <1>10, Zenon
  <2>2. bound[d][e] \in Fibers /\ st[bound[d][e]] = "parked" BY <2>1 DEF Inv, Waits
  <2>3. ~ \E x \in es : bound[c][x] = bound[d][e] BY <2>1 DEF Inv, Waits
  <2> QED BY <1>8, <2>1, <2>2, <2>3, Zenon
<1>11. ASSUME NEW f \in Fibers, st'[f] = "parked"
       PROVE  \E d \in Contexts, e \in Events : e \in events'[d] /\ bound'[d][e] = f
  <2>1. st[f] = "parked" /\ ~ \E e \in es : bound[c][e] = f BY <1>8, <1>11
  <2>2. PICK d \in Contexts, e \in Events : e \in events[d] /\ bound[d][e] = f
    BY <2>1, Zenon DEF Inv, Waits
  <2>3. e \in events'[d] /\ bound'[d][e] = f BY <1>6, <1>7, <2>1, <2>2, Zenon
  <2> QED BY <2>3
<1>12. ASSUME NEW c1 \in Contexts, NEW c2 \in Contexts, NEW e1 \in Events, NEW e2 \in Events,
              e1 \in events'[c1], e2 \in events'[c2], bound'[c1][e1] = bound'[c2][e2]
       PROVE  c1 = c2 /\ e1 = e2
  BY <1>6, <1>7, <1>12 DEF Inv, Waits
<1>13. Waits' BY <1>10, <1>11, <1>12 DEF Waits
<1>14. \A f \in Fibers : st[f] = "run" => st'[f] = "run" BY <1>8, <1>9
<1> QED BY <1>1, <1>2, <1>3, <1>5, <1>13, <1>14, Zenon

-----------------------------------------------------------------------------
\* The table and no event satisfy the invariant.
LEMMA InitInv == Init => Inv
<1> SUFFICES ASSUME Init PROVE Inv OBVIOUS
<1> USE IOAssumption DEF Init
<1>1. TypeOK
  <2>1. table \in [Fds -> 0..MaxGen] /\ made \in [Fds -> 0..MaxGen] OBVIOUS
  <2>2. interest \in [Fds -> {Absent} \cup [mask : SUBSET Events, ctx : Contexts]] OBVIOUS
  <2> QED BY <2>1, <2>2, Zenon DEF TypeOK
<1>2. PendingExact
  <2>1. Registered = {} BY Zenon DEF Registered
  <2> QED BY <2>1, FS_EmptySet, PendingIsRegistered, Zenon
<1>3. Calls BY Zenon DEF Calls, Idle
<1>4. Filled BY DEF Filled
<1>5. Waits BY Zenon DEF Waits
<1> QED BY <1>1, <1>2, <1>3, <1>4, <1>5, Zenon DEF Inv

\* A call that begins has found its context, or goes on without one.
LEMMA LookUpInv ==
  ASSUME Inv, NEW u \in Uses, LookUp(u) PROVE Inv'
<1> USE DEF Inv
<1>1. u.fiber \in Fibers /\ u.op \in Ops /\ u.fd \in Fds /\ u.event \in Events
  BY IOAssumption
<1>2. /\ UNCHANGED <<tableVars, contextVars, open, interest, evts, aborted>>
      /\ st[u.fiber] = "run"
  BY Zenon DEF LookUp
<1>3. PICK to : /\ call' = [call EXCEPT ![u.fiber] = to]
                /\ to \in [op : Ops \cup {"resize", "close_f"}, fd : Fds,
                            event : Events, ctx : Contexts \cup {None}]
                /\ to.op \notin {"resize", "close_f"} => to.ctx \in Contexts /\ Fd(to.ctx) = to.fd
  <2>1. CASE u.fd < size
    <3>1. <<u.fd, table[u.fd]>> \in Contexts
      <4>1. table[u.fd] \in 0..MaxGen BY <1>1, TableTypes
      <4>2. table[u.fd] # 0 BY <1>1, <2>1 DEF Filled
      <4>3. table[u.fd] \in 1..MaxGen BY <4>1, <4>2, IOAssumption
      <4> QED BY <1>1, <4>3 DEF Contexts
    <3> QED BY <1>1, <2>1, <3>1 DEF LookUp, Fd, Ops
  <2>2. CASE ~(u.fd < size)
    BY <1>1, <2>2 DEF LookUp
  <2> QED BY <2>1, <2>2, Zenon
<1>4. Calls' BY <1>1, <1>2, <1>3, Zenon DEF Calls, contextVars
<1>5. DataTypes' BY <1>2, DataTyped, Zenon DEF DataTypes, tableVars, contextVars
<1>6. PendingExact' /\ Filled' /\ Waits' BY <1>2, SameContexts
<1> QED BY <1>4, <1>5, <1>6, TypesOfCalls

\* Enlarging the table, or cutting it, makes contexts and moves no event.
LEMMA ResizeInv ==
  ASSUME Inv, NEW f \in Fibers, Resize(f) PROVE Inv'
<1> USE DEF Inv
<1> DEFINE n == (call[f].fd * 3) \div 2
           new == {fd \in Fds : fd < n /\ table[fd] = 0}
           to == [op |-> "addEvent", fd |-> call[f].fd, event |-> call[f].event,
                  ctx |-> <<call[f].fd, table'[call[f].fd]>>]
<1>1. call[f].op = "resize" /\ call[f] # Idle BY DEF Resize, Idle
<1>2. /\ call[f].fd \in Fds /\ call[f].event \in Events
      /\ st[f] = "run"
  BY <1>1, Zenon DEF Calls
<1>3. n \in Nat /\ call[f].fd < n
  <2>1. call[f].fd \in Nat /\ call[f].fd > 1 BY <1>2, IOAssumption, Zenon
  <2> QED BY <2>1
<1>4. /\ \A fd \in new : made[fd] < MaxGen
      /\ size' = n
      /\ made' = [fd \in Fds |-> IF fd \in new THEN made[fd] + 1 ELSE made[fd]]
      /\ table' = [fd \in Fds |-> IF fd >= n THEN 0
                                  ELSE IF fd \in new THEN made[fd] + 1 ELSE table[fd]]
      /\ call' = [call EXCEPT ![f] = to]
      /\ UNCHANGED <<contextVars, open, interest, evts, aborted>>
  BY Zenon DEF Resize, contextResize
<1> HIDE DEF n, to
<1>5. made' \in [Fds -> 0..MaxGen] /\ table' \in [Fds -> 0..MaxGen]
  <2>1. \A fd \in new : made[fd] + 1 \in 1..MaxGen
    BY <1>4, TableTypes, IOAssumption
  <2> HIDE DEF new
  <2>2. 0 \in 0..MaxGen /\ 1..MaxGen \subseteq 0..MaxGen BY IOAssumption
  <2> QED BY <1>4, <2>1, <2>2, TableTypes, Zenon
<1>6. Filled'
  <2> SUFFICES ASSUME NEW fd \in Fds, fd < size' PROVE table'[fd] # 0 BY DEF Filled
  <2>1. ~(fd >= n) BY <1>3, <1>4, IOAssumption
  <2>2. CASE fd \in new BY <1>4, <2>1, <2>2, TableTypes
  <2>3. CASE fd \notin new BY <1>4, <2>1, <2>3, Zenon
  <2> QED BY <2>2, <2>3
<1>7. <<call[f].fd, table'[call[f].fd]>> \in Contexts
  <2>1. table'[call[f].fd] \in 0..MaxGen BY <1>2, <1>5, Zenon
  <2>2. table'[call[f].fd] # 0 BY <1>2, <1>3, <1>4, <1>6, Zenon DEF Filled
  <2>3. table'[call[f].fd] \in 1..MaxGen BY <2>1, <2>2, IOAssumption
  <2> QED BY <1>2, <2>3, Zenon DEF Contexts
<1>8. Calls'
  <2>1. /\ to \in [op : Ops \cup {"resize", "close_f"}, fd : Fds, event : Events,
                    ctx : Contexts \cup {None}]
        /\ to.ctx \in Contexts /\ Fd(to.ctx) = to.fd
    BY <1>2, <1>7, Zenon DEF to, Ops, Fd
  <2> QED BY <1>2, <1>4, <2>1, Zenon DEF Calls, contextVars
<1>9. DataTypes' BY <1>3, <1>4, <1>5, DataTyped, Zenon DEF DataTypes, contextVars
<1>10. PendingExact' BY <1>4, Zenon DEF PendingExact, contextVars
<1>11. Waits' BY <1>4 DEF Waits, contextVars
<1> QED BY <1>6, <1>8, <1>9, <1>10, <1>11, TypesOfCalls

\* The fiber that called goes on with x, or returns, and the others that call do
\* not wait yet.
LEMMA CallsKept ==
  ASSUME Calls, NEW f \in Fibers, NEW x, call' = [call EXCEPT ![f] = x],
         \/ x = Idle
         \/ /\ x \in [op : Ops \cup {"resize", "close_f"}, fd : Fds, event : Events,
                       ctx : Contexts \cup {None}]
            /\ st'[f] = "run"
            /\ x.op \notin {"resize", "close_f"} => x.ctx \in Contexts /\ Fd(x.ctx) = x.fd,
         \A g \in Fibers \ {f} : st[g] = "run" => st'[g] = "run"
  PROVE  Calls'
  BY Zenon DEF Calls

\* Steps that leave the table, the contexts and the calls as they are.
LEMMA OtherInv ==
  ASSUME Inv, UNCHANGED <<tableVars, contextVars, call>>,
         open' \subseteq Fds, aborted' \in BOOLEAN,
         interest' \in [Fds -> {Absent} \cup [mask : SUBSET Events, ctx : Contexts]],
         evts' \in [Threads -> SUBSET [ctx : Contexts, ready : SUBSET Events, err : BOOLEAN]]
  PROVE  Inv'
<1>1. DataTypes' BY DataTyped, Zenon DEF DataTypes, tableVars, contextVars
<1>2. PendingExact' /\ Filled' /\ Waits' BY SameContexts
<1>3. Calls' BY Zenon DEF Inv, Calls, contextVars
<1> QED BY <1>1, <1>2, <1>3, TypesOfCalls DEF Inv

\* An event that is added gets the fiber that waits for it from now on.
LEMMA AddEventInv ==
  ASSUME Inv, NEW f \in Fibers, AddEvent(f) PROVE Inv'
<1> DEFINE c == call[f].ctx
           e == call[f].event
<1>1. call[f].op = "addEvent" /\ call[f] # Idle BY SMTT(30) DEF AddEvent, Idle
<1>2. /\ c \in Contexts /\ e \in Events /\ Fd(c) \in Fds /\ st[f] = "run"
  BY <1>1, Zenon DEF Inv, Calls
<1> HIDE DEF c, e
<1>3. CASE e \in events[c]
  <2>1. aborted' = TRUE /\ UNCHANGED <<tableVars, contextVars, call, open, interest, evts>>
    BY <1>3, Zenon DEF AddEvent, Abort, c, e
  <2> QED BY <2>1, EpollTypes, OtherInv, Zenon
<1>4. CASE e \notin events[c] /\ UNCHANGED contextVars
  <2>1. Return(f) /\ UNCHANGED <<tableVars, open, interest, evts, aborted>>
    <3>1. m_pendingEventCount' # m_pendingEventCount + 1 BY <1>4, ContextTypes DEF contextVars
    <3> QED BY <1>4, <3>1, Zenon DEF AddEvent, c, e
  <2>2. Calls' BY <1>4, <2>1, CallsKept, Zenon DEF Inv, contextVars, Return
  <2>3. DataTypes' BY <1>4, <2>1, DataTyped, Zenon DEF DataTypes, tableVars, contextVars
  <2>4. PendingExact' /\ Filled' /\ Waits' BY <1>4, <2>1, SameContexts
  <2> QED BY <2>2, <2>3, <2>4, TypesOfCalls, Zenon DEF Inv
<1>5. CASE e \notin events[c] /\ ~UNCHANGED contextVars
  <2>1. /\ interest' = WithInterest(c, events[c] \cup {e})
        /\ m_pendingEventCount' = m_pendingEventCount + 1
        /\ events' = [events EXCEPT ![c] = @ \cup {e}]
        /\ aborted' = (bound[c][e] # None)
        /\ bound' = [bound EXCEPT ![c][e] = f]
        /\ st' = [st EXCEPT ![f] = "parked"]
        /\ Return(f)
        /\ UNCHANGED <<tableVars, open, evts>>
    BY <1>5, Zenon DEF AddEvent, c, e
  <2>2. \A g \in Fibers : st'[g] = IF g = f THEN "parked" ELSE st[g] BY <2>1, ContextTypes, Zenon
  <2>3. Calls' BY <2>1, <2>2, CallsKept, Zenon DEF Inv, Return
  <2>4. Registered' = Registered \cup {<<c, e>>} /\ <<c, e>> \notin Registered
    BY <1>2, <1>5, <2>1, ContextTypes DEF Registered
  <2>5. PendingExact'
    <3>1. Cardinality(Registered') = Cardinality(Registered) + 1
      BY <2>4, RegisteredFinite, FS_AddElement
    <3> QED BY <2>1, <3>1, PendingIsRegistered, Zenon DEF Inv
  <2>6. interest' \in [Fds -> {Absent} \cup [mask : SUBSET Events, ctx : Contexts]]
    BY <1>2, <2>1, EpollTypes, ContextTypes, Zenon DEF WithInterest
  <2>7. events' \in [Contexts -> SUBSET Events] /\ st' \in [Fibers -> {"run", "parked", "dropped"}]
    BY <1>2, <2>1, ContextTypes, Zenon
  <2>8. bound' \in [Contexts -> [Events -> Fibers \cup {None}]] BY <1>2, <2>1, ContextTypes, Zenon
  <2>9. aborted' \in BOOLEAN BY <2>1, Zenon
  <2>10. TypeOK'
    <3>1. m_pendingEventCount' \in Nat BY <2>1, ContextTypes
    <3>2. UNCHANGED <<size, table, made, open, evts>> BY <2>1, Zenon DEF tableVars
    <3>3. DataTypes' BY <2>6, <2>7, <2>8, <2>9, <3>1, <3>2, DataTyped, Zenon DEF DataTypes
    <3> QED BY <2>3, <3>3, TypesOfCalls
  <2>11. \A d \in Contexts, x \in Events :
           /\ x \in events'[d] <=> x \in events[d] \/ (d = c /\ x = e)
           /\ bound'[d][x] = IF d = c /\ x = e THEN f ELSE bound[d][x]
    BY <1>2, <2>1, ContextTypes, Zenon
  <2>12. \A d \in Contexts, x \in Events : x \in events[d] => bound[d][x] # f
    BY <1>2 DEF Inv, Waits
  <2>13. Waits'
    <3>1. ASSUME NEW d \in Contexts, NEW x \in Events, x \in events'[d]
          PROVE  bound'[d][x] \in Fibers /\ st'[bound'[d][x]] = "parked"
      BY <2>11, <2>2, <3>1 DEF Inv, Waits
    <3>2. ASSUME NEW g \in Fibers, st'[g] = "parked"
          PROVE  \E d \in Contexts, x \in Events : x \in events'[d] /\ bound'[d][x] = g
      <4>1. CASE g = f BY <1>2, <2>11, <4>1
      <4>2. CASE g # f
        <5>1. PICK d \in Contexts, x \in Events : x \in events[d] /\ bound[d][x] = g
          BY <2>2, <3>2, <4>2, Zenon DEF Inv, Waits
        <5>2. x \in events'[d] /\ bound'[d][x] = g BY <1>5, <2>11, <5>1, Zenon
        <5> QED BY <5>2
      <4> QED BY <4>1, <4>2
    <3>3. ASSUME NEW c1 \in Contexts, NEW c2 \in Contexts, NEW e1 \in Events, NEW e2 \in Events,
                 e1 \in events'[c1], e2 \in events'[c2], bound'[c1][e1] = bound'[c2][e2]
          PROVE  c1 = c2 /\ e1 = e2
      BY <2>11, <2>12, <3>3 DEF Inv, Waits
    <3> QED BY <3>1, <3>2, <3>3 DEF Waits
  <2>14. Filled' BY <2>1, Zenon DEF Inv, Filled, tableVars
  <2> QED BY <2>3, <2>5, <2>10, <2>13, <2>14, Zenon DEF Inv
<1> QED BY <1>3, <1>4, <1>5

\* delEvent(), cancelEvent() and cancelAll(), before they return.
LEMMA RemoveKeeps ==
  ASSUME Inv, NEW f \in Fibers, NEW es \in SUBSET Events, NEW to \in {"run", "dropped"},
         call[f].ctx \in Contexts, Remove(f, es, to)
  PROVE  /\ DataTypes' /\ PendingExact' /\ Filled' /\ Waits'
         /\ \A g \in Fibers : st[g] = "run" => st'[g] = "run"
<1> USE DEF Inv
<1> DEFINE c == call[f].ctx
<1>1. UNCHANGED <<tableVars, open, evts, aborted>> BY Zenon DEF Remove
<1>2. Filled' BY <1>1 DEF Filled, tableVars
<1>3. CASE /\ es \subseteq events[c] /\ interest' = WithInterest(c, events[c] \ es)
           /\ TakeOut(c, es, to)
  <2>1. interest' \in [Fds -> {Absent} \cup [mask : SUBSET Events, ctx : Contexts]]
    <3>1. Fd(c) \in Fds BY Zenon DEF Contexts, Fd
    <3> QED BY <1>3, <3>1, EpollTypes, ContextTypes, Zenon DEF WithInterest
  <2>2. /\ events' \in [Contexts -> SUBSET Events]
        /\ bound' \in [Contexts -> [Events -> Fibers \cup {None}]]
        /\ m_pendingEventCount' \in Nat
        /\ st' \in [Fibers -> {"run", "parked", "dropped"}]
        /\ PendingExact' /\ Waits'
        /\ \A g \in Fibers : st[g] = "run" => st'[g] = "run"
    BY <1>3, TakeOutKeeps, Zenon
  <2>3. DataTypes' BY <1>1, <2>1, <2>2, DataTyped, Zenon DEF DataTypes, tableVars
  <2> QED BY <1>2, <2>2, <2>3, Zenon
<1>4. CASE UNCHANGED <<contextVars, interest>>
  <2>1. DataTypes' BY <1>1, <1>4, DataTyped, Zenon DEF DataTypes, tableVars, contextVars
  <2>2. PendingExact' /\ Waits' BY <1>1, <1>4, SameContexts
  <2> QED BY <1>2, <1>4, <2>1, <2>2 DEF contextVars
<1> QED BY <1>3, <1>4, Zenon DEF Remove

-----------------------------------------------------------------------------
(* Every step preserves the invariant. *)

\* delEvent() and cancelEvent() take out one event.
LEMMA DelOrCancelInv ==
  ASSUME Inv, NEW f \in Fibers, DelEvent(f) \/ CancelEvent(f) PROVE Inv'
<1>1. /\ call[f].op \in {"delEvent", "cancelEvent"} /\ Return(f)
      /\ \E to \in {"run", "dropped"} : Remove(f, {call[f].event}, to)
  BY Zenon DEF DelEvent, CancelEvent
<1>2. call[f] # Idle BY <1>1 DEF Idle
<1>3. call[f].ctx \in Contexts /\ {call[f].event} \in SUBSET Events
  BY <1>1, <1>2, Zenon DEF Inv, Calls
<1>4. /\ DataTypes' /\ PendingExact' /\ Filled' /\ Waits'
      /\ \A g \in Fibers : st[g] = "run" => st'[g] = "run"
  BY <1>1, <1>3, RemoveKeeps, Zenon
<1>5. Calls' BY <1>1, <1>4, CallsKept, Zenon DEF Inv, Return
<1> QED BY <1>4, <1>5, TypesOfCalls DEF Inv

\* cancelAll() takes out all events of its context, and close() goes on.
LEMMA CancelAllInv ==
  ASSUME Inv, NEW f \in Fibers, CancelAll(f) PROVE Inv'
<1> DEFINE x == IF call[f].op = "close" THEN [call[f] EXCEPT !.op = "close_f"] ELSE Idle
<1>1. /\ call[f].op \in {"cancelAll", "close"}
      /\ Remove(f, events[call[f].ctx], "run")
      /\ call' = [call EXCEPT ![f] = x]
  BY Zenon DEF CancelAll, Inv, Calls
<1>2. call[f] # Idle BY <1>1 DEF Idle
<1>3. call[f].ctx \in Contexts /\ events[call[f].ctx] \in SUBSET Events
  BY <1>1, <1>2, ContextTypes, Zenon DEF Inv, Calls
<1>4. /\ DataTypes' /\ PendingExact' /\ Filled' /\ Waits'
      /\ \A g \in Fibers : st[g] = "run" => st'[g] = "run"
  BY <1>1, <1>3, RemoveKeeps, Zenon
<1>5. \/ x = Idle
      \/ /\ x \in [op : Ops \cup {"resize", "close_f"}, fd : Fds, event : Events,
                    ctx : Contexts \cup {None}]
         /\ st'[f] = "run"
         /\ x.op \notin {"resize", "close_f"} => x.ctx \in Contexts /\ Fd(x.ctx) = x.fd
  BY <1>1, <1>2, <1>4 DEF Inv, Calls
<1> HIDE DEF x
<1>6. Calls' BY <1>1, <1>4, <1>5, CallsKept, Zenon DEF Inv
<1> QED BY <1>4, <1>6, TypesOfCalls DEF Inv

\* The kernel forgets a descriptor; no event of a context goes with it.
LEMMA CloseInv ==
  ASSUME Inv, NEW f \in Fibers, Close(f) PROVE Inv'
<1>1. /\ open' = open \ {call[f].fd}
      /\ interest' = [interest EXCEPT ![call[f].fd] = Absent]
      /\ Return(f) /\ UNCHANGED <<tableVars, contextVars, evts, aborted>>
  BY Zenon DEF Close
<1>2. DataTypes' BY <1>1, DataTyped, Zenon DEF DataTypes, tableVars, contextVars
<1>3. PendingExact' /\ Filled' /\ Waits'
  BY <1>1, SameContexts
<1>4. Calls' BY <1>1, CallsKept, Zenon DEF Inv, Return, contextVars
<1> QED BY <1>2, <1>3, <1>4, TypesOfCalls DEF Inv

\* What epoll_wait() reports is about contexts, since epoll has it from them.
LEMMA ReportInv ==
  ASSUME Inv, NEW t \in Threads, Report(t) PROVE Inv'
<1> DEFINE Reports == [ctx : Contexts, ready : SUBSET Events, err : BOOLEAN]
<1>1. UNCHANGED <<tableVars, contextVars, call, open, interest, aborted>> BY Zenon DEF Report
<1>2. PICK fds \in SUBSET {fd \in Fds : interest[fd] # Absent} \ {{}} :
        \E ready \in [fds -> SUBSET Events], err \in [fds -> BOOLEAN] :
          /\ \A fd \in fds : ready[fd] \subseteq interest[fd].mask /\ (ready[fd] # {} \/ err[fd])
          /\ evts' = [evts EXCEPT ![t] =
               {[ctx |-> interest[fd].ctx, ready |-> ready[fd], err |-> err[fd]] : fd \in fds}]
  BY Zenon DEF Report
<1>3. PICK ready \in [fds -> SUBSET Events], err \in [fds -> BOOLEAN] :
        evts' = [evts EXCEPT ![t] =
          {[ctx |-> interest[fd].ctx, ready |-> ready[fd], err |-> err[fd]] : fd \in fds}]
  BY <1>2, Zenon
<1>4. \A fd \in fds : interest[fd].ctx \in Contexts BY EpollTypes
<1>5. \A fd \in fds :
        [ctx |-> interest[fd].ctx, ready |-> ready[fd], err |-> err[fd]] \in Reports
  BY <1>4, Zenon
<1>6. evts' \in [Threads -> SUBSET Reports]
  BY <1>3, <1>5, EpollTypes
<1> QED BY <1>1, <1>6, EpollTypes, OtherInv, Zenon

\* idle() skips a report, stops the program, or takes out what is ready.
LEMMA HandleInv ==
  ASSUME Inv, NEW t \in Threads, NEW ev \in evts[t], Handle(t, ev) PROVE Inv'
<1> DEFINE c == ev.ctx
<1>1. c \in Contexts /\ Real(ev) \in SUBSET Events /\ Fd(c) \in Fds
  <2>1. ev \in [ctx : Contexts, ready : SUBSET Events, err : BOOLEAN] BY EpollTypes
  <2>2. events[c] \in SUBSET Events BY <2>1, ContextTypes
  <2> QED BY <2>1, <2>2 DEF Real, Contexts, Fd
<1>2. CASE /\ evts' = [evts EXCEPT ![t] = @ \ {ev}]
           /\ UNCHANGED <<tableVars, contextVars, call, open, interest, aborted>>
  BY <1>2, EpollTypes, OtherInv, Zenon
<1>3. CASE Abort BY <1>3, EpollTypes, OtherInv, Zenon DEF Abort
<1>4. CASE /\ Real(ev) \subseteq events[c]
           /\ interest' = WithInterest(c, events[c] \ Real(ev))
           /\ TakeOut(c, Real(ev), "run")
           /\ evts' = [evts EXCEPT ![t] = @ \ {ev}]
           /\ UNCHANGED <<tableVars, call, open, aborted>>
  <2>1. /\ events' \in [Contexts -> SUBSET Events]
        /\ bound' \in [Contexts -> [Events -> Fibers \cup {None}]]
        /\ m_pendingEventCount' \in Nat
        /\ st' \in [Fibers -> {"run", "parked", "dropped"}]
        /\ PendingExact' /\ Waits'
        /\ \A g \in Fibers : st[g] = "run" => st'[g] = "run"
    BY <1>1, <1>4, TakeOutKeeps, Zenon
  <2>2. interest' \in [Fds -> {Absent} \cup [mask : SUBSET Events, ctx : Contexts]]
    BY <1>1, <1>4, EpollTypes, ContextTypes, Zenon DEF WithInterest
  <2>3. evts' \in [Threads -> SUBSET [ctx : Contexts, ready : SUBSET Events, err : BOOLEAN]]
    BY <1>4, EpollTypes, Zenon
  <2>4. DataTypes' BY <1>4, <2>1, <2>2, <2>3, DataTyped, Zenon DEF DataTypes, tableVars
  <2>5. Calls' /\ Filled' BY <1>4, <2>1, Zenon DEF Inv, Calls, Filled, tableVars
  <2> QED BY <2>1, <2>4, <2>5, TypesOfCalls, Zenon DEF Inv
<1> QED BY <1>2, <1>3, <1>4, Zenon DEF Handle

\* Every step preserves the invariant.
LEMMA NextInv == Inv /\ [Next]_vars => Inv'
<1> SUFFICES ASSUME Inv, [Next]_vars PROVE Inv' OBVIOUS
<1>1. CASE \E u \in Uses : LookUp(u) BY <1>1, LookUpInv
<1>2. CASE \E f \in Fibers : Fiber(f)
  BY <1>2, ResizeInv, AddEventInv, DelOrCancelInv, CancelAllInv, CloseInv DEF Fiber
<1>3. CASE \E fd \in Fds : Open(fd)
  BY <1>3, EpollTypes, OtherInv, Zenon DEF Open
<1>4. CASE \E t \in Threads : Report(t) \/ \E ev \in evts[t] : Handle(t, ev)
  BY <1>4, ReportInv, HandleInv
<1>5. CASE UNCHANGED vars
  BY <1>5, EpollTypes, OtherInv, Zenon DEF vars, tableVars, contextVars
<1> QED BY <1>1, <1>2, <1>3, <1>4, <1>5 DEF Next, Aborted

-----------------------------------------------------------------------------
\* The inductive invariant holds in every reachable state.
LEMMA Invariant == Spec => []Inv
  BY InitInv, NextInv, PTL DEF Spec

\* Contexts, reports and calls are what addEvent(), idle() and the hooks take
\* them for, whatever the order of calls and of reports.
THEOREM IOTypes == Spec => []TypeOK
<1>1. Inv => TypeOK BY DEF Inv
<1> QED BY <1>1, Invariant, PTL

\* m_pendingEventCount, on which stopping() relies, is the number of registered
\* events after any interleaving of calls, reports and closes.
THEOREM IOPendingExact == Spec => []PendingExact
<1>1. Inv => PendingExact BY DEF Inv
<1> QED BY <1>1, Invariant, PTL

\* A fiber is bound to one event while it waits and to none otherwise: no
\* interleaving schedules it twice, or forgets it.
THEOREM IOOneWaiter == Spec => []OneWaiter
<1>1. ASSUME Inv PROVE OneWaiter
  <2> SUFFICES ASSUME NEW f \in Fibers
               PROVE  Cardinality({p \in Contexts \X Events :
                                     p[2] \in events[p[1]] /\ bound[p[1]][p[2]] = f}) =
                        (IF st[f] = "parked" THEN 1 ELSE 0)
    BY Zenon DEF OneWaiter
  <2> DEFINE own == {p \in Contexts \X Events : p[2] \in events[p[1]] /\ bound[p[1]][p[2]] = f}
  <2>1. CASE st[f] = "parked"
    <3>1. PICK c \in Contexts, e \in Events : e \in events[c] /\ bound[c][e] = f
      BY <1>1, <2>1, Zenon DEF Inv, Waits
    <3>2. own = {<<c, e>>} BY <1>1, <3>1 DEF Inv, Waits
    <3>3. Cardinality(own) = 1 BY <3>2, FS_Singleton, Zenon
    <3> QED BY <2>1, <3>3, Zenon
  <2>2. CASE st[f] # "parked"
    <3>1. own = {} BY <1>1, <2>2 DEF Inv, Waits
    <3>2. Cardinality(own) = 0 BY <3>1, FS_EmptySet, Zenon
    <3> QED BY <2>2, <3>2, Zenon
  <2> QED BY <2>1, <2>2, Zenon
<1>2. Inv => OneWaiter BY <1>1
<1> QED BY <1>2, Invariant, PTL

-----------------------------------------------------------------------------

\* A descriptor is closed by nobody but the fiber that waits for its events.
OwnClose ==
  \A u, w \in Uses : u.op = "close" /\ w.op = "addEvent" /\ u.fd = w.fd => u.fiber = w.fiber

May(f, op, fd) == \E u \in Uses : u.fiber = f /\ u.op = op /\ u.fd = fd

\* A call is one of the uses of its fiber.
OwnCalls ==
  \A f \in Fibers : call[f] # Idle =>
    /\ call[f].op \in {"addEvent", "resize"} => May(f, "addEvent", call[f].fd)
    /\ call[f].op \in {"close", "close_f"} => May(f, "close", call[f].fd)

\* An event was added by a use of its fiber.
OwnEvents ==
  \A c \in Contexts, e \in Events : e \in events[c] => May(bound[c][e], "addEvent", Fd(c))

\* epoll has exactly the events of a context that has any.
Known ==
  \A c \in Contexts : events[c] # {} => interest[Fd(c)] = [mask |-> events[c], ctx |-> c]

Wakes == Inv /\ OwnCalls /\ OwnEvents /\ Known

\* Taking events out keeps epoll informed: two contexts of one descriptor never
\* have events at once.
LEMMA TakeOutKnown ==
  ASSUME Wakes, NEW c \in Contexts, NEW es \in SUBSET Events, es # {}, es \subseteq events[c],
         NEW to, interest' = WithInterest(c, events[c] \ es), TakeOut(c, es, to)
  PROVE  OwnEvents' /\ Known'
<1> USE DEF Wakes
<1>1. /\ events' = [events EXCEPT ![c] = @ \ es]
      /\ bound' = [bound EXCEPT ![c] = [e \in Events |-> IF e \in es THEN None ELSE @[e]]]
  BY Zenon DEF TakeOut
<1>2. \A d \in Contexts, e \in Events : e \in events'[d] =>
        e \in events[d] /\ bound'[d][e] = bound[d][e]
  BY <1>1, ContextTypes, Zenon
<1>3. OwnEvents' BY <1>2, Zenon DEF OwnEvents
<1>4. Known'
  <2> SUFFICES ASSUME NEW d \in Contexts, events'[d] # {}
               PROVE  interest'[Fd(d)] = [mask |-> events'[d], ctx |-> d]
    BY Zenon DEF Known
  <2>1. interest[Fd(c)] = [mask |-> events[c], ctx |-> c] BY Zenon DEF Known
  <2>2. Fd(c) \in Fds /\ Fd(d) \in Fds BY DEF Contexts, Fd
  <2>3. CASE d = c
    <3>1. events'[c] = events[c] \ es BY <1>1, ContextTypes, Zenon
    <3> QED BY <2>2, <2>3, <3>1, EpollTypes, Zenon DEF WithInterest
  <2>4. CASE d # c
    <3>1. events'[d] = events[d] BY <1>1, <2>4, ContextTypes, Zenon
    <3>2. interest[Fd(d)] = [mask |-> events[d], ctx |-> d] BY <3>1, Zenon DEF Known
    <3>3. interest[Fd(c)].ctx = c /\ interest[Fd(d)].ctx = d
      <4>1. interest[Fd(c)].ctx = c BY <2>1
      <4>2. interest[Fd(d)].ctx = d BY <3>2
      <4> QED BY <4>1, <4>2, Zenon
    <3>4. Fd(d) # Fd(c) BY <2>4, <3>3, Zenon
    <3> QED BY <2>2, <3>1, <3>2, <3>4, EpollTypes, Zenon DEF WithInterest
  <2> QED BY <2>3, <2>4, Zenon
<1> QED BY <1>3, <1>4

\* An event is added where no other context of its descriptor has one.
LEMMA AddEventWakes ==
  ASSUME Wakes, NEW f \in Fibers, AddEvent(f) PROVE OwnEvents' /\ Known'
<1> USE DEF Wakes
<1> DEFINE c == call[f].ctx
           e == call[f].event
<1>1. call[f].op = "addEvent" /\ call[f] # Idle BY SMTT(30) DEF AddEvent, Idle
<1>2. c \in Contexts /\ e \in Events /\ Fd(c) \in Fds /\ Fd(c) = call[f].fd
  BY <1>1, Zenon DEF Inv, Calls
<1>3. May(f, "addEvent", Fd(c)) BY <1>1, <1>2, Zenon DEF OwnCalls
<1> HIDE DEF c, e
<1>4. CASE UNCHANGED <<contextVars, interest>>
  BY <1>4, Zenon DEF OwnEvents, Known, contextVars
<1>5. CASE /\ e \notin events[c]
           /\ IF events[c] = {} THEN CanAdd(Fd(c)) ELSE CanChange(Fd(c))
           /\ interest' = WithInterest(c, events[c] \cup {e})
           /\ events' = [events EXCEPT ![c] = @ \cup {e}]
           /\ bound' = [bound EXCEPT ![c][e] = f]
  <2>1. \A d \in Contexts, x \in Events :
           /\ x \in events'[d] <=> x \in events[d] \/ (d = c /\ x = e)
           /\ bound'[d][x] = IF d = c /\ x = e THEN f ELSE bound[d][x]
    BY <1>2, <1>5, ContextTypes, Zenon
  <2>2. OwnEvents' BY <1>3, <2>1, Zenon DEF OwnEvents
  <2>3. ASSUME NEW d \in Contexts, d # c, events[d] # {} PROVE Fd(d) # Fd(c)
    <3>1. interest[Fd(d)] = [mask |-> events[d], ctx |-> d] BY <2>3 DEF Known
    <3>2. CASE events[c] = {}
      <4>1. interest[Fd(c)].mask = {} BY <1>5, <3>2 DEF CanAdd, Absent
      <4> QED BY <2>3, <3>1, <4>1, SMTT(30)
    <3>3. CASE events[c] # {}
      <4>1. interest[Fd(c)] = [mask |-> events[c], ctx |-> c] BY <1>2, <3>3, Zenon DEF Known
      <4> QED BY <2>3, <3>1, <4>1
    <3> QED BY <3>2, <3>3
  <2>4. Known'
    <3> SUFFICES ASSUME NEW d \in Contexts, events'[d] # {}
                 PROVE  interest'[Fd(d)] = [mask |-> events'[d], ctx |-> d]
      BY Zenon DEF Known
    <3>1. CASE d = c
      <4>1. events'[c] = events[c] \cup {e} BY <1>2, <1>5, ContextTypes, Zenon
      <4> QED BY <1>2, <1>5, <3>1, <4>1, EpollTypes, Zenon DEF WithInterest
    <3>2. CASE d # c
      <4>1. events'[d] = events[d] BY <1>5, <3>2, ContextTypes, Zenon
      <4>2. Fd(d) # Fd(c) /\ Fd(d) \in Fds BY <2>3, <3>2, <4>1 DEF Contexts, Fd
      <4>3. interest[Fd(d)] = [mask |-> events[d], ctx |-> d] BY <4>1, Zenon DEF Known
      <4> QED BY <1>2, <1>5, <4>1, <4>2, <4>3, EpollTypes, Zenon DEF WithInterest
    <3> QED BY <3>1, <3>2
  <2> QED BY <2>2, <2>4
<1> QED BY <1>4, <1>5, Zenon DEF AddEvent, Abort, c, e

\* The fiber that closes a descriptor is the only one that could wait for it,
\* and it does not.
LEMMA CloseWakes ==
  ASSUME OwnClose, Wakes, NEW f \in Fibers, Close(f) PROVE OwnEvents' /\ Known'
<1> USE DEF Wakes
<1>1. call[f].op = "close_f" /\ call[f] # Idle BY SMTT(30) DEF Close, Idle
<1>2. May(f, "close", call[f].fd) /\ st[f] = "run" BY <1>1, Zenon DEF OwnCalls, Inv, Calls
<1>3. ASSUME NEW c \in Contexts, events[c] # {} PROVE Fd(c) # call[f].fd
  <2>1. PICK e \in Events : e \in events[c] BY <1>3, ContextTypes
  <2>2. May(bound[c][e], "addEvent", Fd(c)) BY <2>1 DEF OwnEvents
  <2>3. bound[c][e] # f BY <1>2, <2>1 DEF Inv, Waits
  <2> QED BY <1>2, <2>2, <2>3 DEF May, OwnClose
<1>4. /\ interest' = [interest EXCEPT ![call[f].fd] = Absent] /\ UNCHANGED contextVars
  BY Zenon DEF Close
<1>5. \A c \in Contexts : Fd(c) \in Fds BY DEF Contexts, Fd
<1>6. \A fd \in Fds : fd # call[f].fd => interest'[fd] = interest[fd] BY <1>4, EpollTypes, Zenon
<1>7. Known' BY <1>3, <1>4, <1>5, <1>6, Zenon DEF Known, contextVars
<1>8. OwnEvents' BY <1>4, Zenon DEF OwnEvents, contextVars
<1> QED BY <1>7, <1>8

\* No step makes a call of which its fiber has no use.
LEMMA CallsOwned ==
  ASSUME Wakes, Next PROVE OwnCalls'
<1> USE DEF Wakes
<1>1. ASSUME NEW f \in Fibers, call' = [call EXCEPT ![f] = Idle] PROVE OwnCalls'
  BY <1>1, Zenon DEF OwnCalls, Inv, Calls
<1>2. ASSUME call' = call PROVE OwnCalls' BY <1>2, Zenon DEF OwnCalls
<1>3. ASSUME NEW u \in Uses, LookUp(u) PROVE OwnCalls'
  <2> DEFINE found == [op |-> u.op, fd |-> u.fd, event |-> u.event, ctx |-> <<u.fd, table[u.fd]>>]
             beyond(op) == [op |-> op, fd |-> u.fd, event |-> u.event, ctx |-> None]
  <2>1. u.fiber \in Fibers /\ u.op \in Ops BY IOAssumption
  <2>2. CASE call' = [call EXCEPT ![u.fiber] = found]
    <3>1. /\ found.op \in {"addEvent", "resize"} => May(u.fiber, "addEvent", found.fd)
          /\ found.op \in {"close", "close_f"} => May(u.fiber, "close", found.fd)
      BY <2>1, Zenon DEF May, Ops
    <3> HIDE DEF found
    <3> QED BY <2>1, <2>2, <3>1, Zenon DEF OwnCalls, Inv, Calls
  <2>3. CASE u.op = "addEvent" /\ call' = [call EXCEPT ![u.fiber] = beyond("resize")]
    <3> DEFINE x == beyond("resize")
    <3>1. May(u.fiber, "addEvent", x.fd) /\ x.op = "resize" BY <2>3, Zenon DEF May
    <3> HIDE DEF x
    <3> QED BY <2>1, <2>3, <3>1, Zenon DEF OwnCalls, Inv, Calls, x
  <2>4. CASE u.op = "close" /\ call' = [call EXCEPT ![u.fiber] = beyond("close_f")]
    <3> DEFINE x == beyond("close_f")
    <3>1. May(u.fiber, "close", x.fd) /\ x.op = "close_f" BY <2>4, Zenon DEF May
    <3> HIDE DEF x
    <3> QED BY <2>1, <2>4, <3>1, Zenon DEF OwnCalls, Inv, Calls, x
  <2> QED BY <1>3, <2>2, <2>3, <2>4, Zenon DEF LookUp
<1>4. ASSUME NEW f \in Fibers, Resize(f) PROVE OwnCalls'
  <2> DEFINE to == [op |-> "addEvent", fd |-> call[f].fd, event |-> call[f].event,
                    ctx |-> <<call[f].fd, table'[call[f].fd]>>]
  <2>1. call' = [call EXCEPT ![f] = to] BY <1>4, Zenon DEF Resize
  <2>2. May(f, "addEvent", to.fd) /\ to.op = "addEvent"
    BY <1>4 DEF Resize, OwnCalls, Idle
  <2> HIDE DEF to
  <2> QED BY <2>1, <2>2, Zenon DEF OwnCalls, Inv, Calls
<1>5. ASSUME NEW f \in Fibers, CancelAll(f), call[f].op = "close" PROVE OwnCalls'
  <2>1. call[f] # Idle BY <1>5 DEF Idle
  <2> DEFINE x == [call[f] EXCEPT !.op = "close_f"]
  <2>2. call' = [call EXCEPT ![f] = x] BY <1>5, Zenon DEF CancelAll, Inv, Calls
  <2>3. May(f, "close", x.fd) /\ x.op = "close_f" BY <1>5, <2>1, Zenon DEF OwnCalls, Inv, Calls
  <2> HIDE DEF x
  <2> QED BY <2>2, <2>3, Zenon DEF OwnCalls, Inv, Calls
<1>6. ASSUME NEW f \in Fibers, CancelAll(f), call[f].op # "close" PROVE OwnCalls'
  <2>1. call' = [call EXCEPT ![f] = Idle] BY <1>6 DEF CancelAll
  <2> QED BY <1>1, <2>1, Zenon
<1>7. ASSUME NEW f \in Fibers, AddEvent(f) \/ DelEvent(f) \/ CancelEvent(f) \/ Close(f)
      PROVE  OwnCalls'
  BY <1>1, <1>2, <1>7, Zenon DEF AddEvent, Abort, DelEvent, CancelEvent, Close, Return
<1>8. ASSUME NEW fd \in Fds, Open(fd) PROVE OwnCalls' BY <1>2, <1>8 DEF Open
<1>9. ASSUME NEW t \in Threads, Report(t) \/ \E ev \in evts[t] : Handle(t, ev) PROVE OwnCalls'
  <2>1. call' = call BY <1>9, Zenon DEF Report, Handle, Abort
  <2> QED BY <1>2, <2>1
<1>10. ASSUME Aborted PROVE OwnCalls' BY <1>2, <1>10 DEF Aborted, vars
<1> QED BY <1>3, <1>4, <1>5, <1>6, <1>7, <1>8, <1>9, <1>10, Zenon DEF Next, Fiber

\* Every step keeps epoll informed.
LEMMA NextWakes ==
  ASSUME OwnClose, Wakes, [Next]_vars PROVE Wakes'
<1>1. Inv' BY NextInv DEF Wakes
<1>2. ASSUME UNCHANGED <<contextVars, interest>> PROVE OwnEvents' /\ Known'
  BY <1>2, Zenon DEF Wakes, OwnEvents, Known, contextVars
<1>3. CASE UNCHANGED vars
  <2>1. OwnCalls' BY <1>3, Zenon DEF vars, Wakes, OwnCalls
  <2> QED BY <1>1, <1>2, <1>3, <2>1, Zenon DEF vars, contextVars, Wakes
<1>4. CASE Next
  <2>1. OwnCalls' BY <1>4, CallsOwned
  <2>2. ASSUME NEW f \in Fibers, NEW es \in SUBSET Events, NEW to, call[f].ctx \in Contexts,
               Remove(f, es, to)
        PROVE  OwnEvents' /\ Known'
    <3>1. CASE UNCHANGED <<contextVars, interest>> BY <1>2, <3>1
    <3>2. CASE /\ es # {} /\ es \subseteq events[call[f].ctx]
               /\ interest' = WithInterest(call[f].ctx, events[call[f].ctx] \ es)
               /\ TakeOut(call[f].ctx, es, to)
      BY <2>2, <3>2, TakeOutKnown, Zenon
    <3> QED BY <2>2, <3>1, <3>2, Zenon DEF Remove
  <2>3. ASSUME NEW f \in Fibers, Fiber(f) PROVE OwnEvents' /\ Known'
    <3>1. CASE Resize(f) BY <1>2, <3>1, Zenon DEF Resize
    <3>2. CASE AddEvent(f) BY <3>2, AddEventWakes
    <3>3. CASE DelEvent(f) \/ CancelEvent(f)
      <4>1. call[f].op \in {"delEvent", "cancelEvent"} BY <3>3 DEF DelEvent, CancelEvent
      <4>2. call[f].ctx \in Contexts /\ {call[f].event} \in SUBSET Events
        BY <4>1 DEF Wakes, Inv, Calls, Idle
      <4> QED BY <2>2, <3>3, <4>2, Zenon DEF DelEvent, CancelEvent
    <3>4. CASE CancelAll(f)
      <4>1. call[f].op \in {"cancelAll", "close"} BY <3>4, Zenon DEF CancelAll
      <4>2. call[f].ctx \in Contexts BY <4>1 DEF Wakes, Inv, Calls, Idle
      <4>3. events[call[f].ctx] \in SUBSET Events BY <4>2, ContextTypes, Zenon DEF Wakes
      <4> QED BY <2>2, <3>4, <4>2, <4>3, Zenon DEF CancelAll
    <3>5. CASE Close(f) BY <3>5, CloseWakes
    <3> QED BY <2>3, <3>1, <3>2, <3>3, <3>4, <3>5 DEF Fiber
  <2>4. ASSUME NEW t \in Threads, NEW ev \in evts[t], Handle(t, ev) PROVE OwnEvents' /\ Known'
    <3>1. ev \in [ctx : Contexts, ready : SUBSET Events, err : BOOLEAN]
      BY EpollTypes DEF Wakes
    <3>2. ev.ctx \in Contexts /\ Real(ev) \in SUBSET Events
      BY <3>1, ContextTypes DEF Real, Wakes
    <3>3. CASE UNCHANGED <<contextVars, interest>> BY <1>2, <3>3
    <3>4. CASE /\ Real(ev) # {} /\ Real(ev) \subseteq events[ev.ctx]
               /\ interest' = WithInterest(ev.ctx, events[ev.ctx] \ Real(ev))
               /\ TakeOut(ev.ctx, Real(ev), "run")
      BY <3>2, <3>4, TakeOutKnown, Zenon
    <3> QED BY <2>4, <3>3, <3>4, Zenon DEF Handle, Abort
  <2>5. OwnEvents' /\ Known'
    <3>1. CASE \E u \in Uses : LookUp(u) BY <1>2, <3>1, Zenon DEF LookUp
    <3>2. CASE \E fd \in Fds : Open(fd) BY <1>2, <3>2 DEF Open
    <3>3. CASE \E t \in Threads : Report(t) BY <1>2, <3>3, Zenon DEF Report
    <3>4. CASE Aborted BY <1>2, <3>4 DEF Aborted, vars, contextVars
    <3>5. CASE \E f \in Fibers : Fiber(f) BY <2>3, <3>5
    <3>6. CASE \E t \in Threads : \E ev \in evts[t] : Handle(t, ev) BY <2>4, <3>6
    <3> QED BY <1>4, <3>1, <3>2, <3>3, <3>4, <3>5, <3>6, Zenon DEF Next
  <2> QED BY <1>1, <2>1, <2>5 DEF Wakes
<1> QED BY <1>3, <1>4

\* epoll can wake every fiber that waits, for the context it is bound in, even
\* if contextResize() has put another context in the table: as long as nobody
\* else closes the descriptor that a fiber waits for.
THEOREM IOWakeable ==
  ASSUME OwnClose PROVE Spec => []Wakeable
<1>1. Init => Wakes
  <2>1. Init => OwnCalls /\ OwnEvents /\ Known BY DEF Init, OwnCalls, OwnEvents, Known
  <2> QED BY <2>1, InitInv DEF Wakes
<1>2. Wakes /\ [Next]_vars => Wakes' BY NextWakes
<1>3. ASSUME Wakes PROVE Wakeable
  <2> SUFFICES ASSUME NEW c \in Contexts, NEW e \in Events, e \in events[c]
               PROVE  interest[Fd(c)].ctx = c /\ e \in interest[Fd(c)].mask
    BY Zenon DEF Wakeable
  <2> DEFINE i == interest[Fd(c)]
  <2>1. i = [mask |-> events[c], ctx |-> c] BY <1>3 DEF Wakes, Known
  <2> HIDE DEF i
  <2>2. i.mask = events[c] /\ i.ctx = c BY <2>1
  <2> QED BY <2>2, Zenon DEF i
<1>4. Wakes => Wakeable BY <1>3
<1> QED BY <1>1, <1>2, <1>4, PTL DEF Spec
=============================================================================
