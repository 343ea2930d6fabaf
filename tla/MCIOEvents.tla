------------------------------ MODULE MCIOEvents ------------------------------
(* IOEvents on small instances. *)
EXTENDS IOEvents, TLC

CONSTANTS f1, f2, f3, t1, t2

Use(f, op, fd, e) == [fiber |-> f, op |-> op, fd |-> fd, event |-> e]

\* Both directions of one descriptor, and a timeout for one of them.
BothWays ==
  {Use(f1, "addEvent", 2, "READ"), Use(f2, "addEvent", 2, "WRITE"),
   Use(f3, "cancelEvent", 2, "WRITE")}

\* Both directions of one descriptor, and everything else a third fiber can do;
\* its own descriptor is beyond the end of the table at first, and is closed.
Shared ==
  {Use(f1, "addEvent", 2, "READ"), Use(f2, "addEvent", 2, "WRITE"), Use(f3, "addEvent", 4, "READ"),
   Use(f3, "addEvent", 2, "READ"), Use(f3, "close", 4, "READ"),
   Use(f3, "cancelEvent", 2, "READ"), Use(f3, "cancelAll", 2, "READ"), Use(f3, "delEvent", 2, "READ")}

\* Two descriptors beyond the end of the table.
Growing ==
  {Use(f1, "addEvent", 2, "READ"), Use(f2, "addEvent", 4, "READ"), Use(f3, "cancelEvent", 4, "READ")}
=============================================================================
