------------------------------- MODULE IOEvents -------------------------------
(***************************************************************************)
(* The events of descriptors in an IOManager: the table of FdContexts, the *)
(* operations of fibers on it, the interest list of epoll, and the threads *)
(* in idle() that act on what epoll_wait() reported some time ago.         *)
(*                                                                         *)
(* A call first looks up the FdContext under m_mutex, then works under the *)
(* mutex of the FdContext; each of the two is a step.  A fiber stands also *)
(* for a callback given to addEvent().  That a triggered fiber is not lost *)
(* although it may not have yielded yet is shown in Scheduler.             *)
(***************************************************************************)
EXTENDS Integers, FiniteSets

CONSTANTS
  Fds,       \* descriptors, as indices of m_fdContexts
  Fibers,
  Threads,   \* threads in idle()
  Uses,      \* the calls fibers make: [fiber, op, fd, event]
  Size,      \* the size of the table at first
  MaxGen,    \* bound: FdContexts made for one descriptor
  None

Events == {"READ", "WRITE"}
Ops == {"addEvent", "delEvent", "cancelEvent", "cancelAll", "close"}

ASSUME IOAssumption ==
  /\ Fds \subseteq Nat /\ IsFiniteSet(Fds) /\ \A fd \in Fds : fd > 1
  /\ Uses \subseteq [fiber : Fibers, op : Ops, fd : Fds, event : Events]
  /\ Size \in Nat /\ MaxGen \in Nat \ {0} /\ None \notin Fibers

VARIABLES
  size, table,           \* m_fdContexts: its size, and which FdContext is at fd
  made,                  \* FdContexts made for each descriptor
  events,                \* FdContext::events
  bound,                 \* FdContext::read and write: the fiber to schedule
  m_pendingEventCount,
  call,                  \* what a fiber is doing
  st,                    \* each fiber runs, waits for an event, or was dropped by delEvent()
  open,                  \* descriptors that are open
  interest,              \* epoll: what is registered for each descriptor
  evts,                  \* reports that a thread in idle() has yet to act on
  aborted                \* an assertion failed

vars == <<size, table, made, events, bound, m_pendingEventCount, call, st, open,
          interest, evts, aborted>>
tableVars == <<size, table, made>>
contextVars == <<events, bound, m_pendingEventCount, st>>

Contexts == Fds \X (1..MaxGen)
Fd(c) == c[1]
Idle == [op |-> "none"]
Absent == [mask |-> {}, ctx |-> None]

Init ==
  /\ size = Size
  /\ made = [fd \in Fds |-> IF fd < Size THEN 1 ELSE 0]
  /\ table = [fd \in Fds |-> IF fd < Size THEN 1 ELSE 0]
  /\ events = [c \in Contexts |-> {}]
  /\ bound = [c \in Contexts |-> [e \in Events |-> None]]
  /\ m_pendingEventCount = 0
  /\ call = [f \in Fibers |-> Idle]
  /\ st = [f \in Fibers |-> "run"]
  /\ open = Fds
  /\ interest = [fd \in Fds |-> Absent]
  /\ evts = [t \in Threads |-> {}]
  /\ aborted = FALSE

-----------------------------------------------------------------------------
(* The table. *)

\* The lookup at the beginning of every operation.  When the table is too small
\* addEvent() resizes it, the others return false, and close() goes on without.
LookUp(u) ==
  /\ ~aborted
  /\ call[u.fiber] = Idle /\ st[u.fiber] = "run"
  /\ \/ /\ u.fd < size
        /\ call' = [call EXCEPT ![u.fiber] =
             [op |-> u.op, fd |-> u.fd, event |-> u.event, ctx |-> <<u.fd, table[u.fd]>>]]
     \/ /\ u.fd >= size /\ u.op = "addEvent"
        /\ call' = [call EXCEPT ![u.fiber] =
             [op |-> "resize", fd |-> u.fd, event |-> u.event, ctx |-> None]]
     \/ /\ u.fd >= size /\ u.op = "close"
        /\ call' = [call EXCEPT ![u.fiber] =
             [op |-> "close_f", fd |-> u.fd, event |-> u.event, ctx |-> None]]
  /\ UNCHANGED <<tableVars, contextVars, open, interest, evts, aborted>>

\* contextResize(n): the vector is cut, or filled up with new FdContexts.
contextResize(n) ==
  LET new == {fd \in Fds : fd < n /\ table[fd] = 0}
  IN  /\ \A fd \in new : made[fd] < MaxGen
      /\ size' = n
      /\ made' = [fd \in Fds |-> IF fd \in new THEN made[fd] + 1 ELSE made[fd]]
      /\ table' = [fd \in Fds |-> IF fd >= n THEN 0
                                  ELSE IF fd \in new THEN made[fd] + 1 ELSE table[fd]]

\* addEvent() takes the write lock, and does not look at the size again.
Resize(f) ==
  LET c == call[f]
  IN  /\ ~aborted /\ c.op = "resize"
      /\ contextResize((c.fd * 3) \div 2)
      /\ call' = [call EXCEPT ![f] =
           [op |-> "addEvent", fd |-> c.fd, event |-> c.event, ctx |-> <<c.fd, table'[c.fd]>>]]
      /\ UNCHANGED <<contextVars, open, interest, evts, aborted>>

-----------------------------------------------------------------------------
(* Under the mutex of the FdContext. *)

\* epoll_ctl() with ADD, MOD or DEL succeeds.
CanAdd(fd) == fd \in open /\ interest[fd] = Absent
CanChange(fd) == fd \in open /\ interest[fd] # Absent

WithInterestLast(c, left) ==
  [interest EXCEPT ![Fd(c)] = IF left = {} THEN Absent ELSE [mask |-> left \ @.mask, ctx |-> c]]

\* What stays registered for context c: MOD, or DEL when nothing does.
WithInterest(c, left) ==
  [interest EXCEPT ![Fd(c)] = IF left = {} THEN Absent ELSE [mask |-> left, ctx |-> c]]

Abort == aborted' = TRUE /\ UNCHANGED <<tableVars, contextVars, call, open, interest, evts>>

Return(f) == call' = [call EXCEPT ![f] = Idle]

AddEvent(f) ==
  LET c == call[f].ctx
      e == call[f].event
  IN  /\ ~aborted /\ call[f].op = "addEvent"
      /\ \/ e \in events[c] /\ Abort
         \/ /\ e \notin events[c]
            /\ IF events[c] = {} THEN CanAdd(Fd(c)) ELSE CanChange(Fd(c))
            /\ interest' = WithInterest(c, events[c] \cup {e})
            /\ m_pendingEventCount' = m_pendingEventCount + 1
            /\ events' = [events EXCEPT ![c] = @ \cup {e}]
            /\ aborted' = (bound[c][e] # None)
            /\ bound' = [bound EXCEPT ![c][e] = f]
            /\ st' = [st EXCEPT ![f] = "parked"]
            /\ Return(f)
            /\ UNCHANGED <<tableVars, open, evts>>
         \/ /\ e \notin events[c]
            /\ ~(IF events[c] = {} THEN CanAdd(Fd(c)) ELSE CanChange(Fd(c)))
            /\ Return(f)
            /\ UNCHANGED <<tableVars, contextVars, open, interest, evts, aborted>>

TakeOutOne(c, es, to) ==
  /\ events' = [events EXCEPT ![c] = @ \ es]
  /\ bound' = [bound EXCEPT ![c] = [e \in Events |-> IF e \in es THEN None ELSE @[e]]]
  /\ st' = [g \in Fibers |-> IF \E e \in es : bound[c][e] = g THEN to ELSE st[g]]
  /\ m_pendingEventCount' = m_pendingEventCount - 1

TakeOutBoth(c, es, to) ==
  /\ events' = [events EXCEPT ![c] = @ \ es]
  /\ bound' = [bound EXCEPT ![c] = [e \in Events |-> IF e \in es THEN None ELSE @[e]]]
  /\ st' = [g \in Fibers |-> IF \E e \in Events : bound[c][e] = g THEN to ELSE st[g]]
  /\ m_pendingEventCount' = m_pendingEventCount - Cardinality(es)

\* The events es leave context c, and the fibers bound to them go to state to:
\* "run", by triggerEvent(), which schedules them, or "dropped", by
\* resetContext().
TakeOut(c, es, to) ==
  /\ events' = [events EXCEPT ![c] = @ \ es]
  /\ bound' = [bound EXCEPT ![c] = [e \in Events |-> IF e \in es THEN None ELSE @[e]]]
  /\ st' = [g \in Fibers |-> IF \E e \in es : bound[c][e] = g THEN to ELSE st[g]]
  /\ m_pendingEventCount' = m_pendingEventCount - Cardinality(es)

RemoveBlind(f, es, to) ==
  LET c == call[f].ctx
  IN  /\ ~aborted
      /\ interest' = WithInterest(c, events[c] \ es) /\ TakeOut(c, es, to)
      /\ UNCHANGED <<tableVars, open, evts, aborted>>

\* The call of f takes events out of its context and out of epoll, unless they
\* are not there or epoll_ctl() fails.
Remove(f, es, to) ==
  LET c == call[f].ctx
  IN  /\ ~aborted
      /\ IF es # {} /\ es \subseteq events[c] /\ CanChange(Fd(c))
         THEN interest' = WithInterest(c, events[c] \ es) /\ TakeOut(c, es, to)
         ELSE UNCHANGED <<contextVars, interest>>
      /\ UNCHANGED <<tableVars, open, evts, aborted>>

DelEvent(f) == call[f].op = "delEvent" /\ Remove(f, {call[f].event}, "dropped") /\ Return(f)

CancelEvent(f) == call[f].op = "cancelEvent" /\ Remove(f, {call[f].event}, "run") /\ Return(f)

CancelAll(f) ==
  /\ call[f].op \in {"cancelAll", "close"}
  /\ Remove(f, events[call[f].ctx], "run")
  /\ call' = [call EXCEPT ![f] = IF @.op = "close" THEN [@ EXCEPT !.op = "close_f"] ELSE Idle]

\* close() after its cancelAll(), whatever that returned: the kernel forgets the descriptor.
Close(f) ==
  /\ ~aborted /\ call[f].op = "close_f"
  /\ open' = open \ {call[f].fd}
  /\ interest' = [interest EXCEPT ![call[f].fd] = Absent]
  /\ Return(f)
  /\ UNCHANGED <<tableVars, contextVars, evts, aborted>>

-----------------------------------------------------------------------------
(* epoll and the threads in idle(). *)

\* A descriptor that was closed is given out again.
Open(fd) ==
  /\ ~aborted /\ fd \notin open
  /\ open' = open \cup {fd}
  /\ UNCHANGED <<tableVars, contextVars, call, interest, evts, aborted>>

\* epoll_wait() returns reports about any of the descriptors registered now:
\* what is ready, and whether there was an error.
Report(t) ==
  /\ ~aborted /\ evts[t] = {}
  /\ \E fds \in SUBSET {fd \in Fds : interest[fd] # Absent} \ {{}} :
     \E ready \in [fds -> SUBSET Events], err \in [fds -> BOOLEAN] :
       /\ \A fd \in fds : ready[fd] \subseteq interest[fd].mask /\ (ready[fd] # {} \/ err[fd])
       /\ evts' = [evts EXCEPT ![t] =
            {[ctx |-> interest[fd].ctx, ready |-> ready[fd], err |-> err[fd]] : fd \in fds}]
  /\ UNCHANGED <<tableVars, contextVars, call, open, interest, aborted>>

\* real_events: an error counts as everything that is registered now.
Real(ev) == ev.ready \cup (IF ev.err THEN events[ev.ctx] ELSE {})

\* idle() acts on one report: nothing of it is registered any more, epoll_ctl()
\* fails, an event of it is not registered, or all of it is triggered.
Handle(t, ev) ==
  LET c == ev.ctx
  IN  /\ ~aborted /\ ev \in evts[t]
      /\ \/ /\ Real(ev) \cap events[c] = {} \/ ~CanChange(Fd(c))
            /\ evts' = [evts EXCEPT ![t] = @ \ {ev}]
            /\ UNCHANGED <<tableVars, contextVars, call, open, interest, aborted>>
         \/ /\ Real(ev) \cap events[c] # {} /\ CanChange(Fd(c))
            /\ ~(Real(ev) \subseteq events[c])
            /\ Abort
         \/ /\ Real(ev) # {} /\ Real(ev) \subseteq events[c] /\ CanChange(Fd(c))
            /\ interest' = WithInterest(c, events[c] \ Real(ev))
            /\ TakeOut(c, Real(ev), "run")
            /\ evts' = [evts EXCEPT ![t] = @ \ {ev}]
            /\ UNCHANGED <<tableVars, call, open, aborted>>

-----------------------------------------------------------------------------
Fiber(f) == \/ Resize(f) \/ AddEvent(f) \/ DelEvent(f) \/ CancelEvent(f) \/ CancelAll(f) \/ Close(f)

Aborted == aborted /\ UNCHANGED vars

Next ==
  \/ \E u \in Uses : LookUp(u)
  \/ \E f \in Fibers : Fiber(f)
  \/ \E fd \in Fds : Open(fd)
  \/ \E t \in Threads : Report(t) \/ \E ev \in evts[t] : Handle(t, ev)
  \/ Aborted

Spec == Init /\ [][Next]_vars

-----------------------------------------------------------------------------
TypeOK ==
  /\ size \in Nat /\ table \in [Fds -> 0..MaxGen] /\ made \in [Fds -> 0..MaxGen]
  /\ events \in [Contexts -> SUBSET Events]
  /\ bound \in [Contexts -> [Events -> Fibers \cup {None}]]
  /\ m_pendingEventCount \in Nat
  /\ st \in [Fibers -> {"run", "parked", "dropped"}]
  /\ open \subseteq Fds /\ aborted \in BOOLEAN
  /\ interest \in [Fds -> {Absent} \cup [mask : SUBSET Events, ctx : Contexts]]
  /\ evts \in [Threads -> SUBSET [ctx : Contexts, ready : SUBSET Events, err : BOOLEAN]]
  /\ \A f \in Fibers : call[f] # Idle =>
       /\ call[f].fd \in Fds /\ call[f].event \in Events
       /\ call[f].op \notin {"resize", "close_f"} => call[f].ctx \in Contexts /\ Fd(call[f].ctx) = call[f].fd

\* m_pendingEventCount is the number of registered events, whichever way they
\* came and went: stopping() relies on it.
PendingExact ==
  m_pendingEventCount = Cardinality({p \in Contexts \X Events : p[2] \in events[p[1]]})

\* Every registered event has a fiber that waits for it and only for it, and
\* every fiber that waits is bound to a registered event.
OneWaiter ==
  \A f \in Fibers :
    Cardinality({p \in Contexts \X Events : p[2] \in events[p[1]] /\ bound[p[1]][p[2]] = f}) =
      (IF st[f] = "parked" THEN 1 ELSE 0)

\* A fiber that waits can be woken by epoll: its event is registered there, for
\* the context the fiber is bound in.
Wakeable ==
  \A c \in Contexts, e \in Events :
    e \in events[c] => interest[Fd(c)].ctx = c /\ e \in interest[Fd(c)].mask

\* "The event to be triggered must be among the current events"
\* (iomanager.cc:96), and the other assertions of addEvent() and idle().
NoAbort == ~aborted

\* "Cancels the event, and triggers it if it exists" (iomanager.h:93): the
\* registered event of a fiber that waits is found by way of the table.
CancelFinds ==
  \A c \in Contexts : events[c] # {} => Fd(c) < size /\ table[Fd(c)] = c[2]
=============================================================================
