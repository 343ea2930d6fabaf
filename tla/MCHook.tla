------------------------------- MODULE MCHook -------------------------------
(* Fibers that serve, connect, wait and close, for TLC. *)
EXTENDS TcpServer, TLC

CONSTANTS f1, f2, f3, l, d

Call(op) == [op |-> op, on |-> "own", arg |-> FALSE]
On(op, fd) == [op |-> op, on |-> fd, arg |-> FALSE]
With(op, arg) == [op |-> op, on |-> "own", arg |-> arg]

\* A server with a timeout, and a fiber that closes the listening socket.
Serving ==
  f1 :> <<On("accept", l), With("setsockopt", "READ"), Call("read"), Call("close")>>
  @@ f2 :> <<Call("sleep"), On("close", l)>> @@ f3 :> <<>>

\* Connections that are closed and opened again, beside a server.
Again ==
  f1 :> <<Call("socket"), Call("connect"), Call("close"), Call("socket"), Call("connect")>>
  @@ f2 :> <<On("accept", l), Call("write"), Call("close")>> @@ f3 :> <<>>

\* Two fibers that accept from one socket, against the assertion of addEvent().
Twice ==
  f1 :> <<On("accept", l), Call("read")>>
  @@ f2 :> <<On("accept", l), Call("write"), Call("write")>> @@ f3 :> <<>>

\* What fcntl() and ioctl() make of a descriptor.
Flags ==
  f1 :> <<Call("socket"), With("fcntl", TRUE), Call("connect"), Call("write"), With("fcntl", FALSE), Call("write")>>
  @@ f2 :> <<On("accept", l), With("ioctl", TRUE), Call("read"), With("ioctl", FALSE), Call("read")>>
  @@ f3 :> <<>>

\* A TcpServer that is stopped while it accepts and handles a client.
Server == f1 :> startAccept @@ f2 :> stop @@ f3 :> handleClient

\* A TcpServer with two fibers that handle clients.
Handling == f1 :> startAccept @@ f2 :> handleClient @@ f3 :> handleClient

HookPrograms == {Serving, Again, Twice, Flags, Server, Handling}
ServerPrograms == {Server, Handling}
=============================================================================
