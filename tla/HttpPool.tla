------------------------------ MODULE HttpPool ------------------------------
(***************************************************************************)
(* HttpConnectionPool (http_connection.cc): fibers that call doRequest()   *)
(* on one pool, whose threads run them in parallel, and the server at the  *)
(* other end of the connections.                                           *)
(*                                                                         *)
(* m_createTime is never assigned, so a connection is as old as the epoch  *)
(* and m_maxAliveTime, 32 bits of milliseconds, lies before any clock: the *)
(* two tests of the age compare MaxAliveTime with Now.                     *)
(***************************************************************************)
EXTENDS Integers, Sequences, FiniteSets

CONSTANTS
  Clients,
  Conns,            \* the connections that can be made
  MaxRequest, MaxSize, MaxAliveTime,    \* the parameters of the pool
  Now,              \* GetCurrentMS()
  Nobody

ASSUME PoolAssumption ==
  /\ Nobody \notin Clients \union Conns
  /\ MaxRequest \in Nat /\ MaxSize \in Nat /\ MaxAliveTime \in Nat /\ Now \in Nat

VARIABLES
  m_conns,          \* the connections nobody uses, a list
  m_total,
  m_request,        \* the number of requests of each connection
  m_isConnected,    \* Socket::m_isConnected of each connection
  alive,            \* the connections that were made and not deleted
  at,               \* where each client is in doRequest()
  conn,             \* the connection it got
  dropped,          \* the number of connections it deleted in getConnection()
  pending,          \* the requests the server has of a connection, in order
  answers,          \* what the client's end of it can read, in order
  broken,           \* nothing can be sent on it any more
  got               \* the client whose request the last response answers

poolVars == <<m_conns, m_total, m_request, m_isConnected, alive, at, conn, dropped,
              pending, answers, broken, got>>
server == <<pending, answers, broken>>

m_createTime == 0

PoolInit ==
  /\ m_conns = <<>>
  /\ m_total = 0
  /\ m_request = [k \in Conns |-> 0]
  /\ m_isConnected = [k \in Conns |-> FALSE]
  /\ alive = {}
  /\ at = [c \in Clients |-> "start"]
  /\ conn = [c \in Clients |-> Nobody]
  /\ dropped = [c \in Clients |-> 0]
  /\ pending = [k \in Conns |-> <<>>]
  /\ answers = [k \in Conns |-> <<>>]
  /\ broken = [k \in Conns |-> FALSE]
  /\ got = [c \in Clients |-> Nobody]

Goto(c, place) == at' = [at EXCEPT ![c] = place]

-----------------------------------------------------------------------------
(* getConnection() *)

Valid(k) == m_isConnected[k] /\ ~(m_createTime + MaxAliveTime > Now)

\* Mutant: the connection stays in the list.
GetIdleKeeps(c) ==
  /\ at[c] = "start"
  /\ LET n == CHOOSE i \in 0..Len(m_conns) :
                /\ \A j \in 1..i : ~Valid(m_conns[j])
                /\ i < Len(m_conns) => Valid(m_conns[i + 1]) IN
       /\ conn' = [conn EXCEPT ![c] = IF n < Len(m_conns) THEN m_conns[n + 1] ELSE Nobody]
       /\ m_conns' = SubSeq(m_conns, n + 1, Len(m_conns))
       /\ alive' = alive \ {m_conns[i] : i \in 1..n}
       /\ dropped' = [dropped EXCEPT ![c] = n]
  /\ Goto(c, "count")
  /\ UNCHANGED <<m_total, m_request, m_isConnected, server, got>>
\* Under the lock the list is emptied up to its first valid connection; the
\* invalid ones are deleted.
GetIdle(c) ==
  /\ at[c] = "start"
  /\ LET n == CHOOSE i \in 0..Len(m_conns) :
                /\ \A j \in 1..i : ~Valid(m_conns[j])
                /\ i < Len(m_conns) => Valid(m_conns[i + 1]) IN
       /\ conn' = [conn EXCEPT ![c] = IF n < Len(m_conns) THEN m_conns[n + 1] ELSE Nobody]
       /\ m_conns' = SubSeq(m_conns, n + 2, Len(m_conns))
       /\ alive' = alive \ {m_conns[i] : i \in 1..n}
       /\ dropped' = [dropped EXCEPT ![c] = n]
  /\ Goto(c, "count")
  /\ UNCHANGED <<m_total, m_request, m_isConnected, server, got>>

\* m_total -= invalid_conns.size()
CountDropped(c) ==
  /\ at[c] = "count"
  /\ m_total' = m_total - dropped[c]
  /\ dropped' = [dropped EXCEPT ![c] = 0]
  /\ Goto(c, IF conn[c] = Nobody THEN "connect" ELSE "send")
  /\ UNCHANGED <<m_conns, m_request, m_isConnected, alive, conn, server, got>>

\* A new connection, or none when the address, the socket or connect() fails.
Connect(c) ==
  /\ at[c] = "connect"
  /\ \E k \in Conns \ alive :
       /\ alive' = alive \union {k}
       /\ conn' = [conn EXCEPT ![c] = k]
       /\ m_isConnected' = [m_isConnected EXCEPT ![k] = TRUE]
       /\ m_request' = [m_request EXCEPT ![k] = 0]
       /\ pending' = [pending EXCEPT ![k] = <<>>]
       /\ answers' = [answers EXCEPT ![k] = <<>>]
       /\ broken' = [broken EXCEPT ![k] = FALSE]
  /\ Goto(c, "count new")
  /\ UNCHANGED <<m_conns, m_total, dropped, got>>
ConnectFails(c) ==
  /\ at[c] = "connect"
  /\ Goto(c, "start")
  /\ UNCHANGED <<m_conns, m_total, m_request, m_isConnected, alive, conn, dropped, server, got>>
\* ++m_total
CountNew(c) ==
  /\ at[c] = "count new"
  /\ m_total' = m_total + 1
  /\ Goto(c, "send")
  /\ UNCHANGED <<m_conns, m_request, m_isConnected, alive, conn, dropped, server, got>>

-----------------------------------------------------------------------------
(* doRequest() with the connection *)

\* writeFixSize() fails only on a connection that is of no use: no timeout is set
\* for sending.
Send(c) ==
  /\ at[c] = "send" /\ ~broken[conn[c]]
  /\ pending' = [pending EXCEPT ![conn[c]] = Append(@, c)]
  /\ Goto(c, "receive")
  /\ UNCHANGED <<m_conns, m_total, m_request, m_isConnected, alive, conn, dropped, answers, broken, got>>

\* sendRequest() returns 0 or less: SEND_CLOSE_BY_PEER or SEND_SOCKET_ERROR.
SendFails(c) ==
  /\ at[c] = "send"
  /\ broken' = [broken EXCEPT ![conn[c]] = TRUE]
  /\ Goto(c, "release")
  /\ UNCHANGED <<m_conns, m_total, m_request, m_isConnected, alive, conn, dropped, pending, answers, got>>

\* recvResponse() takes the response that comes next on the connection, ...
Receive(c) ==
  /\ at[c] = "receive" /\ answers[conn[c]] # <<>>
  /\ got' = [got EXCEPT ![c] = Head(answers[conn[c]])]
  /\ answers' = [answers EXCEPT ![conn[c]] = Tail(@)]
  /\ Goto(c, "release")
  /\ UNCHANGED <<m_conns, m_total, m_request, m_isConnected, alive, conn, dropped, pending, broken>>

\* Mutant: the connection stays open.
ReceiveFailsOpen(c) ==
  /\ at[c] = "receive"
  /\ Goto(c, "release")
  /\ UNCHANGED <<m_conns, m_total, m_request, m_isConnected, alive, conn, dropped, server, got>>
\* ... or fails, and closes the connection: TIMEOUT.
ReceiveFails(c) ==
  /\ at[c] = "receive"
  /\ m_isConnected' = [m_isConnected EXCEPT ![conn[c]] = FALSE]
  /\ Goto(c, "release")
  /\ UNCHANGED <<m_conns, m_total, m_request, alive, conn, dropped, server, got>>

\* ReleasePtr(), the deleter of the pointer: the connection is deleted, ...
Expired(k) == ~m_isConnected[k] \/ m_createTime + MaxAliveTime >= Now \/ m_request[k] + 1 >= MaxRequest
Delete(c) ==
  /\ at[c] = "release" /\ Expired(conn[c])
  /\ m_request' = [m_request EXCEPT ![conn[c]] = @ + 1]
  /\ alive' = alive \ {conn[c]}
  /\ conn' = [conn EXCEPT ![c] = Nobody]
  /\ Goto(c, "count deleted")
  /\ UNCHANGED <<m_conns, m_total, m_isConnected, dropped, server, got>>
\* --m_total
CountDeleted(c) ==
  /\ at[c] = "count deleted"
  /\ m_total' = m_total - 1
  /\ Goto(c, "start")
  /\ UNCHANGED <<m_conns, m_request, m_isConnected, alive, conn, dropped, server, got>>

\* ... or goes back into the list.
PutBack(c) ==
  /\ at[c] = "release" /\ ~Expired(conn[c])
  /\ m_request' = [m_request EXCEPT ![conn[c]] = @ + 1]
  /\ m_conns' = Append(m_conns, conn[c])
  /\ conn' = [conn EXCEPT ![c] = Nobody]
  /\ Goto(c, "start")
  /\ UNCHANGED <<m_total, m_isConnected, alive, dropped, server, got>>

-----------------------------------------------------------------------------
\* The server answers the requests of a connection in their order.
Answer(k) ==
  /\ k \in alive /\ pending[k] # <<>>
  /\ answers' = [answers EXCEPT ![k] = Append(@, Head(pending[k]))]
  /\ pending' = [pending EXCEPT ![k] = Tail(@)]
  /\ UNCHANGED <<m_conns, m_total, m_request, m_isConnected, alive, at, conn, dropped, broken, got>>

Client(c) ==
  \/ GetIdle(c) \/ CountDropped(c) \/ Connect(c) \/ ConnectFails(c) \/ CountNew(c)
  \/ Send(c) \/ SendFails(c) \/ Receive(c) \/ ReceiveFails(c)
  \/ Delete(c) \/ CountDeleted(c) \/ PutBack(c)

PoolNext == (\E c \in Clients : Client(c)) \/ (\E k \in Conns : Answer(k))

PoolSpec == PoolInit /\ [][PoolNext]_poolVars

-----------------------------------------------------------------------------
(* Properties. *)

Idle == {m_conns[i] : i \in 1..Len(m_conns)}
Used == {conn[c] : c \in Clients} \ {Nobody}

\* Every connection that was made and not deleted is in the list once or with
\* one client: the raw pointers of the list are neither leaked nor shared, and
\* none is deleted that somebody still has.
OneOwner ==
  /\ alive = Idle \union Used
  /\ Len(m_conns) = Cardinality(Idle) /\ Idle \intersect Used = {}
  /\ \A c, d \in Clients : c # d /\ conn[c] # Nobody => conn[c] # conn[d]

\* m_total is the number of connections whenever no client is on its way
\* between a change of the connections and that of the counter.
TotalExact ==
  (\A c \in Clients : at[c] \notin {"count new", "count deleted"} /\ dropped[c] = 0)
    => m_total = Cardinality(alive)

\* A client gets the response to its own request, also after other clients'
\* requests on the connection timed out and were answered late.
AnswersOwn == \A c \in Clients : got[c] \in {c, Nobody}

\* A connection in the list is open and has requests left: the validity that
\* getConnection() tests when it takes one cannot have ended since ReleasePtr().
IdleValid == \A k \in Idle : Valid(k) /\ m_request[k] < MaxRequest

\* A connection of the pool is in its list or with one client, never deleted
\* while it is, and m_total counts them.
PoolOneOwner == OneOwner /\ TotalExact

\* A client of the pool gets the response to its own request, and a connection
\* in the list is open and has requests left.
PoolAnswersOwn == AnswersOwn /\ IdleValid

\* The list holds at most m_maxSize connections (http_connection.h:158, 165).
WithinMaxSize == Len(m_conns) <= MaxSize
=============================================================================
