--------------------------- MODULE HttpPoolProofs ---------------------------
(***************************************************************************)
(* The pool of connections of the HTTP client, for any number of clients,  *)
(* connections and requests: who owns a connection, what m_total counts,   *)
(* and whose request a response answers.                                   *)
(***************************************************************************)
EXTENDS HttpPool, FiniteSetTheorems, SequenceTheorems, TLAPS

Places == {"start", "count", "connect", "count new", "send", "receive", "release", "count deleted"}

PoolTypes ==
  /\ m_conns \in Seq(Conns)
  /\ m_total \in Int
  /\ m_request \in [Conns -> Nat]
  /\ m_isConnected \in [Conns -> BOOLEAN]
  /\ alive \subseteq Conns
  /\ at \in [Clients -> Places]
  /\ conn \in [Clients -> Conns \union {Nobody}]
  /\ dropped \in [Clients -> {0}]
  /\ pending \in [Conns -> Seq(Clients)]
  /\ answers \in [Conns -> Seq(Clients)]
  /\ broken \in [Conns -> BOOLEAN]
  /\ got \in [Clients -> Clients \union {Nobody}]

\* The connections of a list q, and a list without repetition.
Elems(q) == {q[i] : i \in 1..Len(q)}
Unrepeated(q) == \A i, j \in 1..Len(q) : q[i] = q[j] => i = j

\* Where in doRequest() a client has a connection, and where it has none.
Having == {"count new", "send", "receive", "release"}
Placing ==
  \A c \in Clients :
    /\ at[c] \in Having => conn[c] \in Conns
    /\ at[c] \in {"start", "connect", "count deleted"} => conn[c] = Nobody

Owning ==
  /\ Unrepeated(m_conns) /\ IsFiniteSet(Idle) /\ Cardinality(Idle) = Len(m_conns)
  /\ \A c \in Clients : conn[c] \in Conns => conn[c] \notin Idle
  /\ \A c, d \in Clients : conn[c] \in Conns /\ conn[c] = conn[d] => c = d
  /\ \A k \in Conns : k \in alive <=> k \in Idle \/ \E c \in Clients : conn[c] = k

\* No request of a connection is unanswered and no response unread, or exactly
\* those of client c.
Clean(k) == pending[k] = <<>> /\ answers[k] = <<>>
Awaits(k, c) == \/ pending[k] = <<c>> /\ answers[k] = <<>>
                \/ pending[k] = <<>> /\ answers[k] = <<c>>

\* A connection that can be used again is clean; one whose response did not
\* come is closed.
Usable(k) == Valid(k) /\ m_request[k] < MaxRequest /\ Clean(k)
Served(c) ==
  /\ at[c] \in {"count", "count new", "send"} /\ conn[c] \in Conns => Clean(conn[c])
  /\ at[c] = "receive" => Awaits(conn[c], c)
  /\ at[c] = "release" /\ m_isConnected[conn[c]] => Clean(conn[c])
  /\ got[c] \in {c, Nobody}
Answering == (\A k \in Idle : Usable(k)) /\ \A c \in Clients : Served(c)

\* The clients between a change of the connections and that of m_total.
Adding == {c \in Clients : at[c] = "count new"}
Removing == {c \in Clients : at[c] = "count deleted"}
Counting ==
  /\ IsFiniteSet(alive) /\ IsFiniteSet(Adding) /\ IsFiniteSet(Removing)
  /\ m_total = Cardinality(alive) - Cardinality(Adding) + Cardinality(Removing)

PoolInv == PoolTypes /\ Placing /\ Owning /\ Answering /\ Counting

-----------------------------------------------------------------------------
(* The list. *)

\* Taking the first connection out of a list without repetition.
LEMMA TailList ==
  ASSUME NEW q \in Seq(Conns), q # <<>>, Unrepeated(q)
  PROVE  /\ Tail(q) \in Seq(Conns) /\ Len(Tail(q)) = Len(q) - 1 /\ Head(q) \in Conns /\ Head(q) \in Elems(q)
         /\ Elems(Tail(q)) = Elems(q) \ {Head(q)} /\ Unrepeated(Tail(q))
<1>1. /\ Tail(q) \in Seq(Conns) /\ Len(Tail(q)) = Len(q) - 1 /\ Len(q) \in Nat \ {0} /\ Head(q) = q[1] /\ Head(q) \in Conns
      /\ \A i \in 1..(Len(q) - 1) : Tail(q)[i] = q[i + 1]
  OBVIOUS
<1>2. Head(q) \in Elems(q)
  BY <1>1 DEF Elems
<1>3. Unrepeated(Tail(q))
  BY <1>1 DEF Unrepeated
<1>4. ASSUME NEW k  PROVE k \in Elems(Tail(q)) <=> k \in Elems(q) /\ k # Head(q)
  <2>1. ASSUME NEW i \in 1..(Len(q) - 1)  PROVE Tail(q)[i] \in Elems(q) /\ Tail(q)[i] # Head(q)
    BY <1>1 DEF Elems, Unrepeated
  <2>2. ASSUME NEW i \in 1..Len(q), q[i] # Head(q)  PROVE q[i] \in Elems(Tail(q))
    <3>1. i - 1 \in 1..(Len(q) - 1) /\ Tail(q)[i - 1] = q[i]
      BY <1>1, <2>2
    <3> QED  BY <1>1, <3>1 DEF Elems
  <2> QED  BY <1>1, <2>1, <2>2 DEF Elems
<1> QED  BY <1>1, <1>2, <1>3, <1>4

\* Adding a connection that is not in such a list.
LEMMA AppendList ==
  ASSUME NEW q \in Seq(Conns), NEW k \in Conns, Unrepeated(q), k \notin Elems(q)
  PROVE  /\ Append(q, k) \in Seq(Conns) /\ Len(Append(q, k)) = Len(q) + 1
         /\ Elems(Append(q, k)) = Elems(q) \union {k} /\ Unrepeated(Append(q, k))
<1>1. /\ Append(q, k) \in Seq(Conns) /\ Len(Append(q, k)) = Len(q) + 1 /\ Len(q) \in Nat
      /\ (\A i \in 1..Len(q) : Append(q, k)[i] = q[i]) /\ Append(q, k)[Len(q) + 1] = k
  OBVIOUS
<1>2. Unrepeated(Append(q, k))
  BY <1>1 DEF Unrepeated, Elems
<1>3. Elems(Append(q, k)) = Elems(q) \union {k}
  BY <1>1 DEF Elems
<1> QED  BY <1>1, <1>2, <1>3

\* getConnection() takes the first connection of the list: what is in it is valid.
LEMMA TakesFirst ==
  ASSUME PoolTypes, IdleValid, NEW c \in Clients, GetIdle(c)
  PROVE  /\ alive' = alive /\ dropped' = dropped
         /\ \/ m_conns = <<>> /\ m_conns' = <<>> /\ conn' = [conn EXCEPT ![c] = Nobody]
            \/ m_conns # <<>> /\ m_conns' = Tail(m_conns) /\ conn' = [conn EXCEPT ![c] = Head(m_conns)]
<1> DEFINE First(i) == /\ \A j \in 1..i : ~Valid(m_conns[j])
                       /\ i < Len(m_conns) => Valid(m_conns[i + 1])
<1>1. m_conns \in Seq(Conns) /\ Len(m_conns) \in Nat
  BY DEF PoolTypes
<1>2. \A i \in 1..Len(m_conns) : Valid(m_conns[i])
  BY DEF IdleValid, Idle
<1>3. First(0) /\ \A i \in 0..Len(m_conns) : First(i) => i = 0
  BY <1>1, <1>2
<1> DEFINE n == CHOOSE i \in 0..Len(m_conns) : First(i)
<1>4. /\ conn' = [conn EXCEPT ![c] = IF n < Len(m_conns) THEN m_conns[n + 1] ELSE Nobody]
      /\ m_conns' = SubSeq(m_conns, n + 2, Len(m_conns))
      /\ alive' = alive \ {m_conns[i] : i \in 1..n}
      /\ dropped' = [dropped EXCEPT ![c] = n]
  BY Zenon DEF GetIdle
<1>5. n = 0
  <2>1. n \in 0..Len(m_conns) /\ First(n)
    <3>1. 0 \in 0..Len(m_conns)
      BY <1>1
    <3> HIDE DEF First
    <3> QED  BY <1>3, <3>1, Zenon
  <2> HIDE DEF First, n
  <2> QED  BY <1>3, <2>1
<1> HIDE DEF First, n
<1>6. alive' = alive /\ dropped' = dropped
  <2>1. dropped' = [dropped EXCEPT ![c] = 0] /\ alive' = alive \ {m_conns[i] : i \in 1..0}
    BY <1>4, <1>5
  <2> QED  BY <2>1 DEF PoolTypes
<1>7. conn' = [conn EXCEPT ![c] = IF 0 < Len(m_conns) THEN m_conns[1] ELSE Nobody] /\ m_conns' = SubSeq(m_conns, 2, Len(m_conns))
  BY <1>4, <1>5
<1>8. CASE m_conns = <<>>
  <2>1. Len(m_conns) = 0
    BY <1>8
  <2>2. m_conns' = <<>>
    BY <1>7, <2>1, SubSeqEmpty
  <2> QED  BY <1>6, <1>7, <1>8, <2>1, <2>2
<1>9. CASE m_conns # <<>>
  <2>1. Len(m_conns) > 0 /\ Head(m_conns) = m_conns[1]
    BY <1>1, <1>9
  <2>2. m_conns' = Tail(m_conns)
    BY <1>1, <1>7, <1>9, TailIsSubSeq
  <2> QED  BY <1>6, <1>7, <1>9, <2>1, <2>2
<1> QED  BY <1>8, <1>9, Zenon

-----------------------------------------------------------------------------
(* The steps. *)

\* Every step preserves the types.
LEMMA TypesStep ==
  ASSUME PoolTypes, Placing, Answering, PoolNext  PROVE PoolTypes'
<1>1. ASSUME NEW k \in Conns, Answer(k)  PROVE PoolTypes'
  <2>1. pending[k] \in Seq(Clients) /\ answers[k] \in Seq(Clients) /\ pending[k] # <<>>
    BY <1>1, Zenon DEF Answer, PoolTypes
  <2>2. Tail(pending[k]) \in Seq(Clients) /\ Append(answers[k], Head(pending[k])) \in Seq(Clients)
    BY <2>1
  <2> QED  BY <1>1, <2>2, Zenon DEF Answer, PoolTypes
<1>2. ASSUME NEW c \in Clients, Client(c)  PROVE PoolTypes'
  <2>0. at' \in [Clients -> Places]
    <3>1. \E p \in Places : at' = [at EXCEPT ![c] = p]
      <4>1. "start" \in Places /\ "count" \in Places /\ "connect" \in Places /\ "count new" \in Places /\ "send" \in Places
            /\ "receive" \in Places /\ "release" \in Places /\ "count deleted" \in Places
        BY Zenon DEF Places
      <4>2. CASE CountDropped(c)
        BY <4>1, <4>2, Zenon DEF CountDropped, Goto
      <4>3. CASE ~CountDropped(c)
        BY <1>2, <4>1, <4>3, Zenon DEF Client, GetIdle, Connect, ConnectFails, CountNew, Send, SendFails, Receive,
           ReceiveFails, Delete, CountDeleted, PutBack, Goto
      <4> QED  BY <4>2, <4>3
    <3> QED  BY <3>1 DEF PoolTypes
  <2>1. CASE GetIdle(c)
    <3>1. IdleValid
      BY Zenon DEF Answering, Usable, IdleValid
    <3>2. dropped' = dropped /\ alive' = alive
      BY <2>1, <3>1, TakesFirst, Zenon
    <3>3. m_conns' \in Seq(Conns) /\ \E k \in Conns \union {Nobody} : conn' = [conn EXCEPT ![c] = k]
      <4>1. CASE m_conns = <<>> /\ m_conns' = <<>> /\ conn' = [conn EXCEPT ![c] = Nobody]
        <5>1. Nobody \in Conns \union {Nobody} /\ <<>> \in Seq(Conns)
          OBVIOUS
        <5> QED  BY <4>1, <5>1, Zenon
      <4>2. CASE m_conns # <<>> /\ m_conns' = Tail(m_conns) /\ conn' = [conn EXCEPT ![c] = Head(m_conns)]
        <5>1. m_conns \in Seq(Conns)
          BY Zenon DEF PoolTypes
        <5>2. Head(m_conns) \in Conns \union {Nobody} /\ Tail(m_conns) \in Seq(Conns)
          BY <4>2, <5>1
        <5> QED  BY <4>2, <5>2, Zenon
      <4> QED  BY <2>1, <3>1, <4>1, <4>2, TakesFirst, Zenon
    <3>4. conn' \in [Clients -> Conns \union {Nobody}]
      BY <3>3, Zenon DEF PoolTypes
    <3>5. UNCHANGED <<m_total, m_request, m_isConnected, server, got>>
      BY <2>1, Zenon DEF GetIdle
    <3> QED  BY <2>0, <3>2, <3>3, <3>4, <3>5, Zenon DEF PoolTypes, server
  <2>2. CASE CountDropped(c)
    <3>1. m_total' \in Int /\ dropped' \in [Clients -> {0}]
      BY <2>2 DEF CountDropped, PoolTypes
    <3> QED  BY <2>0, <2>2, <3>1, Zenon DEF CountDropped, PoolTypes, server
  <2>3. CASE ConnectFails(c) \/ CountNew(c) \/ CountDeleted(c)
    <3>1. m_total' \in Int
      <4>1. m_total \in Int /\ (m_total' = m_total \/ m_total' = m_total + 1 \/ m_total' = m_total - 1)
        BY <2>3, Zenon DEF ConnectFails, CountNew, CountDeleted, PoolTypes
      <4> QED  BY <4>1
    <3> QED  BY <2>0, <2>3, <3>1, Zenon DEF ConnectFails, CountNew, CountDeleted, PoolTypes, server
  <2>4. CASE Connect(c)
    <3>1. PICK k \in Conns :
            /\ alive' = alive \union {k}
            /\ conn' = [conn EXCEPT ![c] = k]
            /\ m_isConnected' = [m_isConnected EXCEPT ![k] = TRUE]
            /\ m_request' = [m_request EXCEPT ![k] = 0]
            /\ pending' = [pending EXCEPT ![k] = <<>>]
            /\ answers' = [answers EXCEPT ![k] = <<>>]
            /\ broken' = [broken EXCEPT ![k] = FALSE]
      BY <2>4, Zenon DEF Connect
    <3>2. alive' \subseteq Conns /\ conn' \in [Clients -> Conns \union {Nobody}] /\ m_isConnected' \in [Conns -> BOOLEAN]
          /\ m_request' \in [Conns -> Nat]
      BY <3>1, Zenon DEF PoolTypes
    <3>3. pending' \in [Conns -> Seq(Clients)] /\ answers' \in [Conns -> Seq(Clients)] /\ broken' \in [Conns -> BOOLEAN]
      BY <3>1 DEF PoolTypes
    <3> QED  BY <2>0, <2>4, <3>2, <3>3, Zenon DEF Connect, PoolTypes
  <2>5. CASE Send(c)
    <3>1. conn[c] \in Conns
      BY <2>5, Zenon DEF Send, Placing, Having
    <3>2. pending' \in [Conns -> Seq(Clients)]
      BY <2>5, <3>1 DEF Send, PoolTypes
    <3> QED  BY <2>0, <2>5, <3>2, Zenon DEF Send, PoolTypes
  <2>6. CASE SendFails(c) \/ ReceiveFails(c)
    <3>1. m_isConnected' \in [Conns -> BOOLEAN] /\ broken' \in [Conns -> BOOLEAN]
      BY <2>6, Zenon DEF SendFails, ReceiveFails, PoolTypes, server
    <3> QED  BY <2>0, <2>6, <3>1, Zenon DEF SendFails, ReceiveFails, PoolTypes, server
  <2>7. CASE Receive(c)
    <3>1. conn[c] \in Conns /\ answers[conn[c]] \in Seq(Clients) /\ answers[conn[c]] # <<>>
      BY <2>7, Zenon DEF Receive, PoolTypes, Placing, Having
    <3>2. Tail(answers[conn[c]]) \in Seq(Clients) /\ Head(answers[conn[c]]) \in Clients
      BY <3>1
    <3>3. answers' \in [Conns -> Seq(Clients)] /\ got' \in [Clients -> Clients \union {Nobody}]
      BY <2>7, <3>2, Zenon DEF Receive, PoolTypes
    <3> QED  BY <2>0, <2>7, <3>3, Zenon DEF Receive, PoolTypes
  <2>8. CASE Delete(c) \/ PutBack(c)
    <3>1. conn[c] \in Conns
      BY <2>8, Zenon DEF Delete, PutBack, Placing, Having
    <3>2. /\ m_request' = [m_request EXCEPT ![conn[c]] = @ + 1] /\ conn' = [conn EXCEPT ![c] = Nobody]
          /\ alive' = alive \ {conn[c]} \/ alive' = alive
          /\ m_conns' = m_conns \/ m_conns' = Append(m_conns, conn[c])
      BY <2>8, Zenon DEF Delete, PutBack
    <3>3. m_request' \in [Conns -> Nat] /\ conn' \in [Clients -> Conns \union {Nobody}]
      BY <3>1, <3>2 DEF PoolTypes
    <3>4. alive' \subseteq Conns /\ m_conns' \in Seq(Conns)
      <4>1. alive \subseteq Conns /\ m_conns \in Seq(Conns)
        BY Zenon DEF PoolTypes
      <4>2. alive' \subseteq Conns
        BY <3>2, <4>1, Zenon
      <4>3. Append(m_conns, conn[c]) \in Seq(Conns)
        BY <3>1, <4>1
      <4> QED  BY <3>2, <4>1, <4>2, <4>3, Zenon
    <3> QED  BY <2>0, <2>8, <3>3, <3>4, Zenon DEF Delete, PutBack, PoolTypes, server
  <2> QED  BY <1>2, <2>1, <2>2, <2>3, <2>4, <2>5, <2>6, <2>7, <2>8, Zenon DEF Client
<1> QED  BY <1>1, <1>2, Zenon DEF PoolNext

\* Every step leaves a client with a connection exactly where doRequest() has
\* one.
LEMMA PlacingStep ==
  ASSUME PoolTypes, Placing, Answering, PoolNext  PROVE Placing'
<1>1. ASSUME NEW k \in Conns, Answer(k)  PROVE Placing'
  BY <1>1, Zenon DEF Answer, Placing
<1>2. ASSUME NEW c \in Clients, Client(c)  PROVE Placing'
  <2>1. ASSUME \A d \in Clients \ {c} : at'[d] = at[d] /\ conn'[d] = conn[d],
               at'[c] \in Having => conn'[c] \in Conns, at'[c] \in {"start", "connect", "count deleted"} => conn'[c] = Nobody
        PROVE  Placing'
    BY <2>1, Zenon DEF Placing
  <2>2. CASE GetIdle(c)
    <3>1. \A d \in Clients \ {c} : at'[d] = at[d] /\ conn'[d] = conn[d]
      BY <2>2, Zenon DEF GetIdle, Goto, PoolTypes
    <3>2. at'[c] = "count"
      BY <2>2, Zenon DEF GetIdle, Goto, PoolTypes
    <3> QED  BY <2>1, <3>1, <3>2 DEF Having
  <2>3. CASE CountDropped(c)
    BY <2>1, <2>3, Zenon DEF CountDropped, Goto, PoolTypes, Having
  <2>4. CASE Connect(c)
    <3>1. at'[c] = "count new" /\ conn'[c] \in Conns /\ \A d \in Clients \ {c} : at'[d] = at[d] /\ conn'[d] = conn[d]
      <4>1. at' = [at EXCEPT ![c] = "count new"] /\ \E k \in Conns : conn' = [conn EXCEPT ![c] = k]
        BY <2>4, Zenon DEF Connect, Goto
      <4> QED  BY <4>1, Zenon DEF PoolTypes
    <3> QED  BY <2>1, <3>1, Zenon
  <2>7. CASE ConnectFails(c) \/ CountNew(c) \/ CountDeleted(c)
    BY <2>1, <2>7 DEF ConnectFails, CountNew, CountDeleted, Goto, PoolTypes, Having, Placing
  <2>5. CASE Send(c) \/ SendFails(c) \/ Receive(c) \/ ReceiveFails(c)
    BY <2>1, <2>5 DEF Send, SendFails, Receive, ReceiveFails, Goto, PoolTypes, Having, Placing
  <2>6. CASE Delete(c) \/ PutBack(c)
    BY <2>1, <2>6 DEF Delete, PutBack, Goto, PoolTypes, Having
  <2> QED  BY <1>2, <2>2, <2>3, <2>4, <2>5, <2>6, <2>7, Zenon DEF Client
<1> QED  BY <1>1, <1>2, Zenon DEF PoolNext

\* Every step leaves each connection with one owner: getConnection() takes it
\* out of the list for the client, ReleasePtr() deletes it or puts it back.
LEMMA OwningStep ==
  ASSUME PoolTypes, Placing, Owning, Answering, PoolNext  PROVE Owning'
<1>0. Idle = Elems(m_conns) /\ Idle' = Elems(m_conns')
  BY Zenon DEF Idle, Elems
<1>1. ASSUME UNCHANGED <<m_conns, conn, alive>>  PROVE Owning'
  BY <1>0, <1>1, Zenon DEF Owning
<1>2. ASSUME NEW c \in Clients, GetIdle(c)  PROVE Owning'
  <2>1. IdleValid
    BY Zenon DEF Answering, Usable, IdleValid
  <2>2. at[c] = "start" /\ conn[c] = Nobody /\ alive' = alive
    BY <1>2, <2>1, TakesFirst, Zenon DEF GetIdle, Placing
  <2>3. CASE m_conns = <<>> /\ m_conns' = <<>> /\ conn' = [conn EXCEPT ![c] = Nobody]
    <3>1. conn' = conn
      BY <2>2, <2>3, Zenon DEF PoolTypes
    <3> QED  BY <1>1, <2>2, <2>3, <3>1
  <2>4. CASE m_conns # <<>> /\ m_conns' = Tail(m_conns) /\ conn' = [conn EXCEPT ![c] = Head(m_conns)]
    <3>1. PICK k : k = Head(m_conns)
      OBVIOUS
    <3>2. /\ Len(m_conns') = Len(m_conns) - 1 /\ k \in Conns /\ k \in Idle
          /\ Idle' = Idle \ {k} /\ Unrepeated(m_conns')
      BY <1>0, <2>4, <3>1, TailList, Zenon DEF PoolTypes, Owning
    <3>3. IsFiniteSet(Idle') /\ Cardinality(Idle') = Len(m_conns')
      <4>1. IsFiniteSet(Idle \ {k}) /\ Cardinality(Idle \ {k}) = Cardinality(Idle) - 1
        BY <3>2, FS_RemoveElement, Zenon DEF Owning
      <4> QED  BY <3>2, <4>1, Zenon DEF Owning
    <3>4. conn'[c] = k /\ \A d \in Clients \ {c} : conn'[d] = conn[d]
      BY <2>4, <3>1, Zenon DEF PoolTypes
    <3>5. \A d \in Clients : conn'[d] \in Conns => conn'[d] \notin Idle'
      BY <3>2, <3>4, Zenon DEF Owning
    <3>6. \A d, e \in Clients : conn'[d] \in Conns /\ conn'[d] = conn'[e] => d = e
      BY <3>2, <3>4, Zenon DEF Owning
    <3>7. ASSUME NEW l \in Conns  PROVE l \in alive' <=> l \in Idle' \/ \E d \in Clients : conn'[d] = l
      <4>1. CASE l = k
        BY <2>2, <3>2, <3>4, <4>1, Zenon DEF Owning
      <4>2. CASE l # k
        <5>1. (\E d \in Clients : conn'[d] = l) <=> \E d \in Clients : conn[d] = l
          BY <2>2, <3>4, <4>2, PoolAssumption
        <5> QED  BY <2>2, <3>2, <4>2, <5>1, Zenon DEF Owning
      <4> QED  BY <4>1, <4>2
    <3> QED  BY <3>2, <3>3, <3>5, <3>6, <3>7, Zenon DEF Owning
  <2> QED  BY <1>2, <2>1, <2>3, <2>4, TakesFirst, Zenon
<1>3. ASSUME NEW c \in Clients, Connect(c)  PROVE Owning'
  <2>1. PICK k \in Conns \ alive : alive' = alive \union {k} /\ conn' = [conn EXCEPT ![c] = k]
    BY <1>3, Zenon DEF Connect
  <2>2. Idle' = Idle /\ m_conns' = m_conns /\ conn[c] = Nobody
    BY <1>0, <1>3, Zenon DEF Connect, Placing
  <2>3. conn'[c] = k /\ \A d \in Clients \ {c} : conn'[d] = conn[d]
    BY <2>1, Zenon DEF PoolTypes
  <2>4. k \in Conns /\ k \notin Idle /\ \A d \in Clients : conn[d] # k
    BY <2>1, Zenon DEF Owning
  <2>5. \A d \in Clients : conn'[d] \in Conns => conn'[d] \notin Idle'
    BY <2>2, <2>3, <2>4, Zenon DEF Owning
  <2>6. \A d, e \in Clients : conn'[d] \in Conns /\ conn'[d] = conn'[e] => d = e
    BY <2>3, <2>4, Zenon DEF Owning
  <2>7. ASSUME NEW l \in Conns  PROVE l \in alive' <=> l \in Idle' \/ \E d \in Clients : conn'[d] = l
    <3>1. CASE l = k
      BY <2>1, <2>3, <3>1, Zenon
    <3>2. CASE l # k
      <4>1. (\E d \in Clients : conn'[d] = l) <=> \E d \in Clients : conn[d] = l
        BY <2>2, <2>3, <3>2, PoolAssumption
      <4> QED  BY <2>1, <2>2, <3>2, <4>1, Zenon DEF Owning
    <3> QED  BY <3>1, <3>2
  <2> QED  BY <2>2, <2>5, <2>6, <2>7, Zenon DEF Owning
<1>4. ASSUME NEW c \in Clients, Delete(c) \/ PutBack(c)  PROVE Owning'
  <2>1. PICK k : k = conn[c]
    OBVIOUS
  <2>2. k \in Conns /\ conn' = [conn EXCEPT ![c] = Nobody]
    BY <1>4, <2>1, Zenon DEF Delete, PutBack, Placing, Having
  <2>3. conn'[c] = Nobody /\ \A d \in Clients \ {c} : conn'[d] = conn[d]
    BY <2>2 DEF PoolTypes
  <2>4. k \notin Idle /\ \A d \in Clients \ {c} : conn[d] # k
    BY <2>1, <2>2, Zenon DEF Owning
  <2>5. Nobody \notin Conns
    BY PoolAssumption
  <2>6. \A d, e \in Clients : conn'[d] \in Conns /\ conn'[d] = conn'[e] => d = e
    BY <2>3, <2>5, Zenon DEF Owning
  <2>7. ASSUME NEW l \in Conns \ {k}  PROVE (\E d \in Clients : conn'[d] = l) <=> \E d \in Clients : conn[d] = l
    BY <2>1, <2>3, <2>5
  <2>8. \A d \in Clients : conn'[d] # k
    BY <2>2, <2>3, <2>4, <2>5
  <2>9. CASE Delete(c)
    <3>1. alive' = alive \ {k} /\ m_conns' = m_conns /\ Idle' = Idle
      BY <1>0, <2>1, <2>9, Zenon DEF Delete
    <3>2. \A d \in Clients : conn'[d] \in Conns => conn'[d] \notin Idle'
      BY <2>3, <2>5, <3>1, Zenon DEF Owning
    <3>3. \A l \in Conns : l \in alive' <=> l \in Idle' \/ \E d \in Clients : conn'[d] = l
      BY <2>4, <2>7, <2>8, <3>1, Zenon DEF Owning
    <3> QED  BY <2>6, <3>1, <3>2, <3>3, Zenon DEF Owning
  <2>10. CASE PutBack(c)
    <3>1. alive' = alive /\ m_conns' = Append(m_conns, k)
      BY <2>1, <2>10, Zenon DEF PutBack
    <3>2. Len(m_conns') = Len(m_conns) + 1 /\ Idle' = Idle \union {k} /\ Unrepeated(m_conns')
      BY <1>0, <2>2, <2>4, <3>1, AppendList, Zenon DEF PoolTypes, Owning
    <3>3. IsFiniteSet(Idle') /\ Cardinality(Idle') = Len(m_conns')
      <4>1. IsFiniteSet(Idle \union {k}) /\ Cardinality(Idle \union {k}) = Cardinality(Idle) + 1
        BY <2>4, FS_AddElement, Zenon DEF Owning
      <4> QED  BY <3>2, <4>1, Zenon DEF Owning
    <3>4. \A d \in Clients : conn'[d] \in Conns => conn'[d] \notin Idle'
      BY <2>3, <2>5, <2>8, <3>2, Zenon DEF Owning
    <3>5. ASSUME NEW l \in Conns  PROVE l \in alive' <=> l \in Idle' \/ \E d \in Clients : conn'[d] = l
      <4>1. CASE l = k
        BY <2>1, <3>1, <3>2, <4>1, Zenon DEF Owning
      <4>2. CASE l # k
        BY <2>7, <3>1, <3>2, <4>2, Zenon DEF Owning
      <4> QED  BY <4>1, <4>2
    <3> QED  BY <2>6, <3>2, <3>3, <3>4, <3>5, Zenon DEF Owning
  <2> QED  BY <1>4, <2>9, <2>10
<1>5. ASSUME NEW c \in Clients, CountDropped(c) \/ ConnectFails(c) \/ CountNew(c) \/ Send(c) \/ SendFails(c) \/ Receive(c)
                                \/ ReceiveFails(c) \/ CountDeleted(c)
      PROVE  Owning'
  BY <1>1, <1>5, Zenon DEF CountDropped, ConnectFails, CountNew, Send, SendFails, Receive, ReceiveFails, CountDeleted
<1>6. ASSUME NEW k \in Conns, Answer(k)  PROVE Owning'
  BY <1>1, <1>6, Zenon DEF Answer
<1> QED  BY <1>2, <1>3, <1>4, <1>5, <1>6, Zenon DEF PoolNext, Client


\* A step of client c that touches the connection k only, which no other client
\* has.
LEMMA AnsweringFrame ==
  ASSUME Answering, NEW c \in Clients, NEW k,
         \A d \in Clients \ {c} : at'[d] = at[d] /\ conn'[d] = conn[d] /\ got'[d] = got[d] /\ (conn[d] \in Conns => conn[d] # k),
         \A l \in Conns \ {k} : /\ pending'[l] = pending[l] /\ answers'[l] = answers[l]
                               /\ m_isConnected'[l] = m_isConnected[l] /\ m_request'[l] = m_request[l],
         Placing, Idle \subseteq Conns, Idle' \subseteq Idle \union {k}, k \in Idle' => Usable(k)', Served(c)'
  PROVE  Answering'
<1>1. ASSUME NEW l \in Idle'  PROVE Usable(l)'
  <2>1. CASE l = k
    BY <1>1, <2>1, Zenon
  <2>2. CASE l # k
    <3>1. l \in Idle /\ l \in Conns \ {k}
      BY <1>1, <2>2, Zenon
    <3> QED  BY <3>1, Zenon DEF Answering, Usable, Valid, Clean
  <2> QED  BY <2>1, <2>2, Zenon
<1>2. ASSUME NEW d \in Clients \ {c}  PROVE Served(d)'
  <2>1. Served(d) /\ at'[d] = at[d] /\ conn'[d] = conn[d] /\ got'[d] = got[d]
    BY Zenon DEF Answering
  <2>2. at[d] \in Having => conn[d] \in Conns
    BY Zenon DEF Placing
  <2>3. conn[d] \in Conns => /\ pending'[conn[d]] = pending[conn[d]] /\ answers'[conn[d]] = answers[conn[d]]
                             /\ m_isConnected'[conn[d]] = m_isConnected[conn[d]]
    OBVIOUS
  <2>4. CASE conn[d] \in Conns
    BY <2>1, <2>3, <2>4, Zenon DEF Served, Clean, Awaits
  <2>5. CASE conn[d] \notin Conns
    <3>1. at[d] \notin {"count new", "send", "receive", "release"}
      BY <2>2, <2>5, Zenon DEF Having
    <3> QED  BY <2>1, <2>5, <3>1, Zenon DEF Served
  <2> QED  BY <2>4, <2>5, Zenon
<1> QED  BY <1>1, <1>2, Zenon DEF Answering

\* Every step preserves that a client reads the response to its own request: a
\* connection whose response did not come is closed, and ReleasePtr() deletes
\* it.
LEMMA AnsweringStep ==
  ASSUME PoolTypes, Placing, Owning, Answering, PoolNext  PROVE Answering'
<1>0. Idle \subseteq Conns
  BY DEF Idle, PoolTypes
<1>1. ASSUME NEW k \in Conns, Answer(k)  PROVE Answering'
  <2>1. /\ pending[k] # <<>> /\ k \in alive /\ UNCHANGED <<m_conns, m_request, m_isConnected, at, conn, got>>
        /\ answers' = [answers EXCEPT ![k] = Append(@, Head(pending[k]))]
        /\ pending' = [pending EXCEPT ![k] = Tail(@)]
    BY <1>1, Zenon DEF Answer
  <2>2. Idle' = Idle /\ k \notin Idle
    BY <2>1, Zenon DEF Idle, Answering, Usable, Clean
  <2>3. PICK c \in Clients : conn[c] = k
    BY <2>1, <2>2, Zenon DEF Owning
  <2>4. /\ answers'[k] = Append(answers[k], Head(pending[k])) /\ pending'[k] = Tail(pending[k])
        /\ \A l \in Conns \ {k} : pending'[l] = pending[l] /\ answers'[l] = answers[l]
    BY <2>1, Zenon DEF PoolTypes
  <2>5. \A d \in Clients \ {c} : conn[d] # k
    BY <2>3, Zenon DEF Owning
  <2>6. Awaits(k, c) => Awaits(k, c)'
    <3> SUFFICES ASSUME Awaits(k, c)  PROVE Awaits(k, c)'
      OBVIOUS
    <3>1. pending[k] = <<c>> /\ answers[k] = <<>>
      BY <2>1, Zenon DEF Awaits
    <3>2. Head(<<c>>) = c /\ Tail(<<c>>) = <<>> /\ Append(<<>>, c) = <<c>>
      OBVIOUS
    <3>3. answers'[k] = <<c>> /\ pending'[k] = <<>>
      BY <2>4, <3>1, <3>2
    <3> QED  BY <3>3, Zenon DEF Awaits
  <2>7. Served(c)'
    <3>1. Served(c) /\ ~Clean(k)
      BY <2>1, Zenon DEF Answering, Clean
    <3>2. at'[c] = at[c] /\ conn'[c] = k /\ conn[c] = k /\ m_isConnected' = m_isConnected /\ got'[c] = got[c]
      BY <2>1, <2>3, Zenon
    <3> QED  BY <2>6, <3>1, <3>2, Zenon DEF Served
  <2> QED  BY <1>0, <2>1, <2>2, <2>4, <2>5, <2>7, AnsweringFrame, Zenon
<1>2. ASSUME NEW c \in Clients, CountDropped(c) \/ ConnectFails(c) \/ CountNew(c) \/ CountDeleted(c)  PROVE Answering'
  <2>1. UNCHANGED <<m_conns, m_request, m_isConnected, conn, pending, answers, got>>
    BY <1>2, Zenon DEF CountDropped, ConnectFails, CountNew, CountDeleted, server
  <2>2. \A d \in Clients \ {c} : at'[d] = at[d]
    BY <1>2, Zenon DEF CountDropped, ConnectFails, CountNew, CountDeleted, Goto, PoolTypes
  <2>3. \/ at[c] \in {"count", "count new"} /\ at'[c] \in {"connect", "send"}
        \/ at'[c] = "start"
    BY <1>2, Zenon DEF CountDropped, ConnectFails, CountNew, CountDeleted, Goto, PoolTypes
  <2>4. Served(c)'
    <3>1. Served(c)
      BY Zenon DEF Answering
    <3> QED  BY <2>1, <2>3, <3>1, Zenon DEF Served, Clean
  <2>5. Idle' = Idle
    BY <2>1, Zenon DEF Idle
  <2>6. Nobody \notin Conns /\ Nobody \notin Idle
    BY <1>0, PoolAssumption
  <2>7. \A d \in Clients : conn[d] \in Conns => conn[d] # Nobody
    BY <2>6
  <2> QED  BY <1>0, <2>1, <2>2, <2>4, <2>5, <2>6, <2>7, AnsweringFrame, Zenon
<1>3. ASSUME NEW c \in Clients, GetIdle(c)  PROVE Answering'
  <2>1. IdleValid
    BY Zenon DEF Answering, Usable, IdleValid
  <2>2. UNCHANGED <<m_request, m_isConnected, pending, answers, got>> /\ at' = [at EXCEPT ![c] = "count"]
    BY <1>3, Zenon DEF GetIdle, Goto, server
  <2>3. at'[c] = "count" /\ \A d \in Clients \ {c} : at'[d] = at[d]
    BY <2>2, Zenon DEF PoolTypes
  <2>4. PICK k : conn' = [conn EXCEPT ![c] = k] /\ Idle' \subseteq Idle /\ (k \in Conns => k \in Idle /\ k \notin Idle')
                 /\ (k \notin Conns => k \notin Idle')
    <3>1. CASE m_conns = <<>> /\ m_conns' = <<>> /\ conn' = [conn EXCEPT ![c] = Nobody]
      <4>1. Idle' = Idle /\ Nobody \notin Conns /\ Nobody \notin Idle
        BY <1>0, <3>1, PoolAssumption DEF Idle
      <4> QED  BY <3>1, <4>1, Zenon
    <3>2. CASE m_conns # <<>> /\ m_conns' = Tail(m_conns) /\ conn' = [conn EXCEPT ![c] = Head(m_conns)]
      <4>1. Idle = Elems(m_conns) /\ Idle' = Elems(m_conns')
        BY Zenon DEF Idle, Elems
      <4>2. Head(m_conns) \in Idle /\ Idle' = Idle \ {Head(m_conns)}
        BY <3>2, <4>1, TailList, Zenon DEF PoolTypes, Owning
      <4> QED  BY <1>0, <3>2, <4>2, Zenon
    <3> QED  BY <1>3, <2>1, <3>1, <3>2, TakesFirst, Zenon
  <2>5. conn'[c] = k /\ \A d \in Clients \ {c} : conn'[d] = conn[d]
    BY <2>4, Zenon DEF PoolTypes
  <2>6. \A d \in Clients \ {c} : conn[d] \in Conns => conn[d] # k
    BY <2>4, Zenon DEF Owning
  <2>7. Served(c)'
    <3>1. k \in Conns => Clean(k)
      BY <2>4, Zenon DEF Answering, Usable
    <3>2. got[c] \in {c, Nobody}
      BY Zenon DEF Answering, Served
    <3> QED  BY <2>2, <2>3, <2>5, <3>1, <3>2, Zenon DEF Served, Clean
  <2>8. Idle' \subseteq Idle \union {k} /\ k \notin Idle'
    BY <1>0, <2>4
  <2> QED  BY <1>0, <2>2, <2>3, <2>5, <2>6, <2>7, <2>8, AnsweringFrame, Zenon
<1>4. ASSUME NEW c \in Clients, Connect(c)  PROVE Answering'
  <2>1. PICK k \in Conns \ alive :
          /\ conn' = [conn EXCEPT ![c] = k]
          /\ m_isConnected' = [m_isConnected EXCEPT ![k] = TRUE] /\ m_request' = [m_request EXCEPT ![k] = 0]
          /\ pending' = [pending EXCEPT ![k] = <<>>] /\ answers' = [answers EXCEPT ![k] = <<>>]
    BY <1>4, Zenon DEF Connect
  <2>2. Idle' = Idle /\ got' = got /\ at' = [at EXCEPT ![c] = "count new"]
    <3>1. m_conns' = m_conns /\ got' = got /\ at' = [at EXCEPT ![c] = "count new"]
      BY <1>4, Zenon DEF Connect, Goto
    <3> QED  BY <3>1, Zenon DEF Idle
  <2>3. at'[c] = "count new" /\ conn'[c] = k /\ \A d \in Clients \ {c} : at'[d] = at[d] /\ conn'[d] = conn[d]
    BY <2>1, <2>2, Zenon DEF PoolTypes
  <2>4. \A l \in Conns \ {k} : /\ pending'[l] = pending[l] /\ answers'[l] = answers[l]
                               /\ m_isConnected'[l] = m_isConnected[l] /\ m_request'[l] = m_request[l]
    BY <2>1, Zenon DEF PoolTypes
  <2>5. k \in Conns /\ pending'[k] = <<>> /\ answers'[k] = <<>>
    BY <2>1, Zenon DEF PoolTypes
  <2>6. k \notin Idle /\ \A d \in Clients : conn[d] # k
    BY <2>1, Zenon DEF Owning
  <2>7. Served(c)'
    <3>1. got[c] \in {c, Nobody}
      BY Zenon DEF Answering, Served
    <3> QED  BY <2>2, <2>3, <2>5, <3>1, Zenon DEF Served, Clean
  <2> QED  BY <1>0, <2>2, <2>3, <2>4, <2>6, <2>7, AnsweringFrame, Zenon
<1>5. ASSUME NEW c \in Clients, Send(c) \/ SendFails(c) \/ Receive(c) \/ ReceiveFails(c)  PROVE Answering'
  <2>1. PICK k : k = conn[c]
    OBVIOUS
  <2>2. k \in Conns /\ Idle' = Idle /\ UNCHANGED <<conn, m_request>> /\ at[c] \in {"send", "receive"}
    <3>1. UNCHANGED <<m_conns, conn, m_request>> /\ (at[c] = "send" \/ at[c] = "receive")
      BY <1>5, Zenon DEF Send, SendFails, Receive, ReceiveFails
    <3> QED  BY <2>1, <3>1, Zenon DEF Idle, Placing, Having
  <2>3. \A d \in Clients \ {c} : at'[d] = at[d] /\ got'[d] = got[d]
    BY <1>5, Zenon DEF Send, SendFails, Receive, ReceiveFails, Goto, PoolTypes
  <2>4. \A l \in Conns \ {k} : pending'[l] = pending[l] /\ answers'[l] = answers[l] /\ m_isConnected'[l] = m_isConnected[l]
    BY <1>5, <2>1, Zenon DEF Send, SendFails, Receive, ReceiveFails, server, PoolTypes
  <2>5. k \notin Idle /\ \A d \in Clients \ {c} : conn[d] # k
    BY <2>1, <2>2, Zenon DEF Owning
  <2>6. Served(c) /\ conn'[c] = k
    BY <2>1, <2>2, Zenon DEF Answering
  <2>7. CASE Send(c)
    <3>1. /\ at[c] = "send" /\ at'[c] = "receive" /\ got' = got /\ answers' = answers
          /\ pending'[k] = Append(pending[k], c)
      BY <2>1, <2>2, <2>7, Zenon DEF Send, Goto, PoolTypes
    <3>2. Clean(k)
      BY <2>1, <2>2, <2>6, <3>1, Zenon DEF Served
    <3>3. Served(c)'
      BY <2>6, <3>1, <3>2 DEF Served, Clean, Awaits
    <3> QED  BY <1>0, <2>2, <2>3, <2>4, <2>5, <3>3, AnsweringFrame, Zenon
  <2>8. CASE SendFails(c)
    <3>1. /\ at[c] = "send" /\ at'[c] = "release" /\ UNCHANGED <<got, answers, pending>>
      BY <2>8, Zenon DEF SendFails, Goto, PoolTypes
    <3>2. Clean(k)
      BY <2>1, <2>2, <2>6, <3>1, Zenon DEF Served
    <3>3. Served(c)'
      BY <2>6, <3>1, <3>2, Zenon DEF Served, Clean
    <3> QED  BY <1>0, <2>2, <2>3, <2>4, <2>5, <3>3, AnsweringFrame, Zenon
  <2>9. CASE Receive(c)
    <3>1. /\ at[c] = "receive" /\ at'[c] = "release" /\ pending' = pending /\ answers[k] # <<>>
          /\ got'[c] = Head(answers[k]) /\ answers'[k] = Tail(answers[k])
      BY <2>1, <2>2, <2>9, Zenon DEF Receive, Goto, PoolTypes
    <3>2. pending[k] = <<>> /\ answers[k] = <<c>>
      BY <2>1, <2>6, <3>1, Zenon DEF Served, Awaits
    <3>3. Served(c)'
      BY <2>6, <3>1, <3>2 DEF Served, Clean
    <3> QED  BY <1>0, <2>2, <2>3, <2>4, <2>5, <3>3, AnsweringFrame, Zenon
  <2>10. CASE ReceiveFails(c)
    <3>1. /\ at'[c] = "release" /\ got' = got /\ m_isConnected'[k] = FALSE
      BY <2>1, <2>2, <2>10, Zenon DEF ReceiveFails, Goto, PoolTypes
    <3>2. Served(c)'
      BY <2>6, <3>1, Zenon DEF Served
    <3> QED  BY <1>0, <2>2, <2>3, <2>4, <2>5, <3>2, AnsweringFrame, Zenon
  <2> QED  BY <1>5, <2>7, <2>8, <2>9, <2>10
<1>6. ASSUME NEW c \in Clients, Delete(c) \/ PutBack(c)  PROVE Answering'
  <2>1. PICK k : k = conn[c]
    OBVIOUS
  <2>2. /\ at[c] = "release" /\ m_request' = [m_request EXCEPT ![k] = @ + 1] /\ conn' = [conn EXCEPT ![c] = Nobody]
        /\ UNCHANGED <<pending, answers, m_isConnected, got>>
    BY <1>6, <2>1, Zenon DEF Delete, PutBack, server
  <2>3. k \in Conns
    BY <2>1, <2>2, Zenon DEF Placing, Having
  <2>4. /\ \A d \in Clients \ {c} : at'[d] = at[d] /\ conn'[d] = conn[d]
        /\ at'[c] \in {"start", "count deleted"}
    BY <1>6, <2>2, Zenon DEF Delete, PutBack, Goto, PoolTypes
  <2>5. m_request'[k] = m_request[k] + 1 /\ \A l \in Conns \ {k} : m_request'[l] = m_request[l]
    BY <2>2, <2>3, Zenon DEF PoolTypes
  <2>6. k \notin Idle /\ \A d \in Clients \ {c} : conn[d] # k
    BY <2>1, <2>3, Zenon DEF Owning
  <2>7. Served(c)'
    <3>1. got[c] \in {c, Nobody}
      BY Zenon DEF Answering, Served
    <3> QED  BY <2>2, <2>4, <3>1, Zenon DEF Served
  <2>8. CASE Delete(c)
    <3>1. Idle' = Idle
      BY <2>8, Zenon DEF Delete, Idle
    <3> QED  BY <1>0, <2>2, <2>4, <2>5, <2>6, <2>7, <3>1, AnsweringFrame, Zenon
  <2>9. CASE PutBack(c)
    <3>1. m_conns' = Append(m_conns, k) /\ ~Expired(k)
      BY <2>1, <2>9, Zenon DEF PutBack
    <3>2. Idle' = Idle \union {k}
      <4>1. Idle = Elems(m_conns) /\ Idle' = Elems(m_conns')
        BY Zenon DEF Idle, Elems
      <4> QED  BY <2>3, <2>6, <3>1, <4>1, AppendList, Zenon DEF PoolTypes, Owning
    <3>3. Clean(k)
      BY <2>1, <2>2, <3>1, Zenon DEF Expired, Answering, Served
    <3>4. Usable(k)'
      <4>1. m_request[k] \in Nat
        BY <2>3 DEF PoolTypes
      <4>2. Valid(k)'
        BY <2>2, <3>1, PoolAssumption DEF Expired, Valid, m_createTime
      <4>3. m_request'[k] < MaxRequest
        BY <2>5, <3>1, <4>1, PoolAssumption DEF Expired
      <4>4. Clean(k)'
        BY <2>2, <3>3, Zenon DEF Clean
      <4> QED  BY <4>2, <4>3, <4>4, Zenon DEF Usable
    <3>5. Idle' \subseteq Idle \union {k}
      BY <3>2
    <3> QED  BY <1>0, <2>2, <2>4, <2>5, <2>6, <2>7, <3>4, <3>5, AnsweringFrame, Zenon
  <2> QED  BY <1>6, <2>8, <2>9
<1> QED  BY <1>1, <1>2, <1>3, <1>4, <1>5, <1>6, Zenon DEF PoolNext, Client

\* Both sides of m_total's equation change alike at Connect,
LEMMA BalanceConnect == \A n, x, y \in Nat : (n + 1) - (x + 1) + y = n - x + y
  OBVIOUS

\* at CountNew,
LEMMA BalanceNew == \A n, x, y \in Nat : n - (x - 1) + y = (n - x + y) + 1
  OBVIOUS

\* at Delete
LEMMA BalanceDelete == \A n, x, y \in Nat : (n - 1) - x + (y + 1) = n - x + y
  OBVIOUS

\* and at CountDeleted;
LEMMA BalanceDeleted == \A n, x, y \in Nat : n - x + (y - 1) = (n - x + y) - 1
  OBVIOUS

\* where no client is in between, m_total is the number of connections.
LEMMA Balanced == \A n \in Nat : n - 0 + 0 = n
  OBVIOUS

\* Every step preserves how far m_total is off.
LEMMA CountingStep ==
  ASSUME PoolTypes, Placing, Owning, Answering, Counting, PoolNext  PROVE Counting'
<1>0. Cardinality(alive) \in Nat /\ Cardinality(Adding) \in Nat /\ Cardinality(Removing) \in Nat
  BY FS_CardinalityType, Zenon DEF Counting
<1>1. ASSUME NEW k \in Conns, Answer(k)  PROVE Counting'
  BY <1>1, Zenon DEF Answer, Counting, Adding, Removing
<1>2. ASSUME NEW c \in Clients, NEW p, at' = [at EXCEPT ![c] = p]
      PROVE  /\ Adding' = IF p = "count new" THEN Adding \union {c} ELSE Adding \ {c}
             /\ Removing' = IF p = "count deleted" THEN Removing \union {c} ELSE Removing \ {c}
  BY <1>2, Zenon DEF Adding, Removing, PoolTypes
<1>3. ASSUME NEW c \in Clients, Connect(c)  PROVE Counting'
  <2>1. PICK k \in Conns \ alive : alive' = alive \union {k}
    BY <1>3, Zenon DEF Connect
  <2>2. at[c] = "connect" /\ at' = [at EXCEPT ![c] = "count new"] /\ m_total' = m_total
    BY <1>3, Zenon DEF Connect, Goto
  <2>3. Adding' = Adding \union {c} /\ c \notin Adding /\ Removing' = Removing \ {c} /\ c \notin Removing
    BY <1>2, <2>2, Zenon DEF Adding, Removing
  <2>4. Removing' = Removing
    BY <2>3
  <2>5. IsFiniteSet(alive') /\ Cardinality(alive') = Cardinality(alive) + 1
    BY <2>1, FS_AddElement DEF Counting
  <2>6. IsFiniteSet(Adding') /\ Cardinality(Adding') = Cardinality(Adding) + 1
    BY <2>3, FS_AddElement DEF Counting
  <2>9. (Cardinality(alive) + 1) - (Cardinality(Adding) + 1) + Cardinality(Removing) = m_total
    <3>1. (Cardinality(alive) + 1) - (Cardinality(Adding) + 1) + Cardinality(Removing) = Cardinality(alive) - Cardinality(Adding) + Cardinality(Removing)
      BY <1>0, BalanceConnect, Zenon
    <3> QED  BY <3>1, Zenon DEF Counting
  <2> QED  BY <2>9, <2>2, <2>4, <2>5, <2>6, Zenon DEF Counting
<1>4. ASSUME NEW c \in Clients, CountNew(c)  PROVE Counting'
  <2>1. at[c] = "count new" /\ at' = [at EXCEPT ![c] = "send"] /\ m_total' = m_total + 1 /\ alive' = alive
    BY <1>4, Zenon DEF CountNew, Goto
  <2>2. Adding' = Adding \ {c} /\ c \in Adding /\ Removing' = Removing \ {c} /\ c \notin Removing
    <3>1. "count new" # "send" /\ "count deleted" # "send" /\ "count new" # "count deleted"
      OBVIOUS
    <3>2. c \in Adding /\ c \notin Removing
      BY <2>1, <3>1, Zenon DEF Adding, Removing
    <3>3. Adding' = Adding \ {c} /\ Removing' = Removing \ {c}
      BY <1>2, <2>1, <3>1, Zenon
    <3> QED  BY <3>2, <3>3
  <2>3. Removing' = Removing
    BY <2>2
  <2>4. IsFiniteSet(Adding') /\ Cardinality(Adding') = Cardinality(Adding) - 1
    BY <2>2, FS_RemoveElement DEF Counting
  <2>9. Cardinality(alive) - (Cardinality(Adding) - 1) + Cardinality(Removing) = m_total + 1
    <3>1. Cardinality(alive) - (Cardinality(Adding) - 1) + Cardinality(Removing) = (Cardinality(alive) - Cardinality(Adding) + Cardinality(Removing)) + 1
      BY <1>0, BalanceNew, Zenon
    <3> QED  BY <3>1, Zenon DEF Counting
  <2> QED  BY <2>9, <2>1, <2>3, <2>4, Zenon DEF Counting
<1>5. ASSUME NEW c \in Clients, Delete(c)  PROVE Counting'
  <2>1. PICK k : k = conn[c]
    OBVIOUS
  <2>2. at[c] = "release" /\ at' = [at EXCEPT ![c] = "count deleted"] /\ m_total' = m_total /\ alive' = alive \ {k}
    BY <1>5, <2>1, Zenon DEF Delete, Goto
  <2>3. k \in Conns
    BY <2>1, <2>2, Zenon DEF Placing, Having
  <2>4. k \in alive
    BY <2>1, <2>3, Zenon DEF Owning
  <2>5. Adding' = Adding \ {c} /\ c \notin Adding /\ Removing' = Removing \union {c} /\ c \notin Removing
    BY <1>2, <2>2, Zenon DEF Adding, Removing
  <2>6. Adding' = Adding
    BY <2>5
  <2>7. IsFiniteSet(alive') /\ Cardinality(alive') = Cardinality(alive) - 1
    BY <2>2, <2>4, FS_RemoveElement, Zenon DEF Counting
  <2>8. IsFiniteSet(Removing') /\ Cardinality(Removing') = Cardinality(Removing) + 1
    BY <2>5, FS_AddElement DEF Counting
  <2>9. (Cardinality(alive) - 1) - Cardinality(Adding) + (Cardinality(Removing) + 1) = m_total
    <3>1. (Cardinality(alive) - 1) - Cardinality(Adding) + (Cardinality(Removing) + 1) = Cardinality(alive) - Cardinality(Adding) + Cardinality(Removing)
      BY <1>0, BalanceDelete, Zenon
    <3> QED  BY <3>1, Zenon DEF Counting
  <2> QED  BY <2>9, <2>2, <2>6, <2>7, <2>8, Zenon DEF Counting
<1>6. ASSUME NEW c \in Clients, CountDeleted(c)  PROVE Counting'
  <2>1. at[c] = "count deleted" /\ at' = [at EXCEPT ![c] = "start"] /\ m_total' = m_total - 1 /\ alive' = alive
    BY <1>6, Zenon DEF CountDeleted, Goto
  <2>2. Adding' = Adding \ {c} /\ c \notin Adding /\ Removing' = Removing \ {c} /\ c \in Removing
    <3>1. "count new" # "start" /\ "count deleted" # "start" /\ "count new" # "count deleted"
      OBVIOUS
    <3>2. c \notin Adding /\ c \in Removing
      BY <2>1, <3>1, Zenon DEF Adding, Removing
    <3>3. Adding' = Adding \ {c} /\ Removing' = Removing \ {c}
      BY <1>2, <2>1, <3>1
    <3> QED  BY <3>2, <3>3, Zenon
  <2>3. Adding' = Adding
    BY <2>2
  <2>4. IsFiniteSet(Removing') /\ Cardinality(Removing') = Cardinality(Removing) - 1
    BY <2>2, FS_RemoveElement DEF Counting
  <2>9. Cardinality(alive) - Cardinality(Adding) + (Cardinality(Removing) - 1) = m_total - 1
    <3>1. Cardinality(alive) - Cardinality(Adding) + (Cardinality(Removing) - 1) = (Cardinality(alive) - Cardinality(Adding) + Cardinality(Removing)) - 1
      BY <1>0, BalanceDeleted, Zenon
    <3> QED  BY <3>1, Zenon DEF Counting
  <2> QED  BY <2>9, <2>1, <2>3, <2>4, Zenon DEF Counting
<1>7. ASSUME NEW c \in Clients, m_total' = m_total, alive' = alive,
             NEW p \in Places \ {"count new", "count deleted"}, at' = [at EXCEPT ![c] = p],
             at[c] \notin {"count new", "count deleted"}
      PROVE  Counting'
  <2>1. Adding' = Adding \ {c} /\ c \notin Adding /\ Removing' = Removing \ {c} /\ c \notin Removing
    BY <1>2, <1>7, Zenon DEF Adding, Removing
  <2>2. Adding' = Adding /\ Removing' = Removing
    BY <2>1, Zenon
  <2> QED  BY <1>7, <2>2, Zenon DEF Counting
<1>8. ASSUME NEW c \in Clients, GetIdle(c)  PROVE Counting'
  <2>1. IdleValid
    BY Zenon DEF Answering, Usable, IdleValid
  <2>2. alive' = alive
    BY <1>8, <2>1, TakesFirst
  <2>3. m_total' = m_total /\ at[c] = "start" /\ at' = [at EXCEPT ![c] = "count"]
    BY <1>8, Zenon DEF GetIdle, Goto
  <2> QED  BY <1>7, <2>2, <2>3 DEF Places
<1>9. ASSUME NEW c \in Clients, CountDropped(c)  PROVE Counting'
  <2>1. m_total' = m_total - dropped[c] /\ at[c] = "count" /\ alive' = alive
    BY <1>9, Zenon DEF CountDropped
  <2>2. PICK p \in {"connect", "send"} : at' = [at EXCEPT ![c] = p]
    BY <1>9, Zenon DEF CountDropped, Goto
  <2>3. m_total' = m_total
    BY <2>1 DEF PoolTypes
  <2> QED  BY <1>7, <2>1, <2>2, <2>3 DEF Places
<1>10. ASSUME NEW c \in Clients, ConnectFails(c) \/ Send(c) \/ SendFails(c) \/ Receive(c) \/ ReceiveFails(c) \/ PutBack(c)
       PROVE  Counting'
  <2>1. UNCHANGED <<m_total, alive>>
    BY <1>10, Zenon DEF ConnectFails, Send, SendFails, Receive, ReceiveFails, PutBack
  <2>2. at[c] \notin {"count new", "count deleted"}
    BY <1>10, Zenon DEF ConnectFails, Send, SendFails, Receive, ReceiveFails, PutBack
  <2>3. PICK p \in {"start", "receive", "release"} : at' = [at EXCEPT ![c] = p]
    BY <1>10, Zenon DEF ConnectFails, Send, SendFails, Receive, ReceiveFails, PutBack, Goto
  <2> QED  BY <1>7, <2>1, <2>2, <2>3 DEF Places
<1> QED  BY <1>1, <1>3, <1>4, <1>5, <1>6, <1>8, <1>9, <1>10, Zenon DEF PoolNext, Client

-----------------------------------------------------------------------------

\* The pool begins without connections.
LEMMA InitPool == PoolInit => PoolInv
<1> SUFFICES ASSUME PoolInit  PROVE PoolInv
  OBVIOUS
<1>1. PoolTypes /\ Placing
  BY PoolAssumption DEF PoolInit, PoolTypes, Placing, Places, Having
<1>2. Idle = {} /\ Len(m_conns) = 0 /\ alive = {} /\ Adding = {} /\ Removing = {} /\ \A c \in Clients : conn[c] = Nobody
  <2>1. Len(m_conns) = 0 /\ alive = {} /\ \A c \in Clients : conn[c] = Nobody /\ at[c] = "start"
    BY DEF PoolInit
  <2>2. "start" # "count new" /\ "start" # "count deleted" /\ 1..0 = {}
    OBVIOUS
  <2>3. Adding = {} /\ Removing = {}
    BY <2>1, <2>2, Zenon DEF Adding, Removing
  <2>4. Idle = {}
    BY <2>1, <2>2, Zenon DEF Idle
  <2> QED  BY <2>1, <2>3, <2>4
<1>3. IsFiniteSet({}) /\ Cardinality({}) = 0
  BY FS_EmptySet
<1>4. Owning
  BY <1>2, <1>3, PoolAssumption DEF Owning, Unrepeated
<1>5. Answering
  BY <1>2, Zenon DEF PoolInit, Answering, Served
<1>6. Counting
  BY <1>2, <1>3 DEF PoolInit, Counting
<1> QED  BY <1>1, <1>4, <1>5, <1>6 DEF PoolInv

\* Every step preserves the invariant.
LEMMA PoolStep == ASSUME PoolInv, [PoolNext]_poolVars  PROVE PoolInv'
<1>1. CASE PoolNext
  BY <1>1, TypesStep, PlacingStep, OwningStep, AnsweringStep, CountingStep, Zenon DEF PoolInv
<1>2. CASE UNCHANGED poolVars
  <2>1. PoolTypes' /\ Placing'
    BY <1>2, Zenon DEF poolVars, PoolInv, PoolTypes, Placing
  <2>2. Owning'
    <3>1. m_conns' = m_conns /\ conn' = conn /\ alive' = alive
      BY <1>2, Zenon DEF poolVars
    <3>2. Idle' = Idle
      BY <3>1, Zenon DEF Idle
    <3>3. Unrepeated(m_conns)'
      BY <3>1, Zenon DEF PoolInv, Owning, Unrepeated
    <3> QED  BY <3>1, <3>2, <3>3, Zenon DEF PoolInv, Owning
  <2>3. Answering'
    <3>1. UNCHANGED <<m_conns, m_request, m_isConnected, at, conn, pending, answers, got>>
      BY <1>2, Zenon DEF poolVars
    <3>2. Idle' = Idle /\ \A k : Usable(k)' <=> Usable(k)
      BY <3>1, Zenon DEF Idle, Usable, Valid, Clean
    <3>3. \A c : Served(c)' <=> Served(c)
      BY <3>1, Zenon DEF Served, Clean, Awaits
    <3> QED  BY <3>2, <3>3, Zenon DEF PoolInv, Answering
  <2>4. Counting'
    BY <1>2, Zenon DEF poolVars, PoolInv, Counting, Adding, Removing
  <2> QED  BY <2>1, <2>2, <2>3, <2>4, Zenon DEF PoolInv
<1> QED  BY <1>1, <1>2

\* The inductive invariant of the pool: where a client has a connection, that
\* nobody else has it, that a connection which is used again has nothing left
\* to read, and how far m_total is off.
THEOREM PoolInvariant == PoolSpec => []PoolInv
  BY InitPool, PoolStep, PTL DEF PoolSpec

\* For any number of clients of getConnection() and ReleasePtr(): a connection is
\* in the list or with one client, never deleted while it is, and m_total counts
\* the connections whenever no client is about to change it.
THEOREM ConnectionsOwned == PoolSpec => []PoolOneOwner
<1>1. PoolInv => PoolOneOwner
  <2> SUFFICES ASSUME PoolInv  PROVE OneOwner /\ TotalExact
    BY DEF PoolOneOwner
  <2>1. /\ \A c \in Clients : conn[c] \in Conns \union {Nobody} /\ conn[c] \in Conns <=> conn[c] # Nobody
        /\ Idle \subseteq Conns
    BY PoolAssumption DEF PoolInv, PoolTypes, Idle
  <2>2. OneOwner
    BY <2>1 DEF PoolInv, Owning, OneOwner, Used, PoolTypes
  <2>3. TotalExact
    <3> SUFFICES ASSUME \A c \in Clients : at[c] \notin {"count new", "count deleted"} /\ dropped[c] = 0
                 PROVE  m_total = Cardinality(alive)
      BY Zenon DEF TotalExact
    <3>1. Adding = {} /\ Removing = {}
      BY Zenon DEF Adding, Removing
    <3>2. Cardinality(alive) \in Nat
      BY FS_CardinalityType, Zenon DEF PoolInv, Counting
    <3>3. Cardinality(Adding) = 0 /\ Cardinality(Removing) = 0
      BY <3>1, FS_EmptySet, Zenon
    <3>4. m_total = Cardinality(alive) - Cardinality(Adding) + Cardinality(Removing)
      BY Zenon DEF PoolInv, Counting
    <3> QED  BY <3>2, <3>3, <3>4, Balanced, Zenon
  <2> QED  BY <2>2, <2>3
<1> QED  BY <1>1, PoolInvariant, PTL

\* A client of doRequest() gets the response to its own request, whatever
\* requests of others timed out on the connection before: the connection was
\* closed then, and a connection in the list is open and has requests left.
THEOREM ResponsesOwn == PoolSpec => []PoolAnswersOwn
<1>1. PoolInv => PoolAnswersOwn
  BY Zenon DEF PoolInv, Answering, Served, Usable, PoolAnswersOwn, AnswersOwn, IdleValid
<1> QED  BY <1>1, PoolInvariant, PTL

=============================================================================
