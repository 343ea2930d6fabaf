--------------------------- MODULE RequestParser ----------------------------
(***************************************************************************)
(* HttpRequestParser (http_parser.cc) over http_parser_execute             *)
(* (http11_parser.rl.cc) on any text that arrives in any pieces: the       *)
(* machine of RequestMachine reads it byte by byte and calls the on_...    *)
(* functions.  Every execute() starts with mark, field_start and field_len *)
(* at zero, and moves what it has read out of the buffer, so that offset   *)
(* zero is the first byte of the new piece; query_start is left alone.     *)
(*                                                                         *)
(* An offset is modelled by what it points at: the landmarks of the text   *)
(* that lie there, and "cut" at the start of a piece.  The landmarks come  *)
(* from a second reader, `place`, that knows only the delimiters.          *)
(***************************************************************************)
EXTENDS RequestGrammar

VARIABLES
    cs, uri_relaxed, mark, query_start, field_start, field_len,  \* http_parser
    sent,       \* xml_sent || json_sent
    m_error,    \* HttpRequestParser::m_error is not 0
    calls,      \* the calls the last byte made, with the offsets they were given
    due,        \* the calls it had to make, with the landmarks they need
    residual,   \* the patterns the rest of the text may match
    place,      \* the part of a request the text has reached
    torn        \* a piece ended inside that part

parser == <<cs, uri_relaxed, mark, query_start, field_start, field_len, sent>>
vars == <<parser, m_error, calls, due, residual, place, torn>>

-----------------------------------------------------------------------------
\* The second reader: delimiters only.  "target<" is the position after the
\* method, "path<" the one after "scheme:".

Starts == {"start", "target<", "path<", "query<", "fragment<", "version<", "line<",
           "document<"}
PathPlaces == {"target<", "first", "rel", "path<", "path"}
QueryPlaces == {"query<", "query"}
FragmentPlaces == {"fragment<", "fragment"}
ValuePlaces == {"value<", "value"}

Place(p, c) ==
    CASE p = "start" -> (CASE c = "@" -> "json" [] c = "<" -> "xml" [] OTHER -> "method")
      [] p = "method" -> IF c = "SP" THEN "target<" ELSE "method"
      [] p \in PathPlaces \union QueryPlaces \union FragmentPlaces ->
            (CASE c = "SP" -> "version<"
               [] c = "#" /\ p \notin FragmentPlaces -> "fragment<"
               [] c = "?" /\ p \in PathPlaces -> "query<"
               [] p \in FragmentPlaces -> "fragment"
               [] p \in QueryPlaces -> "query"
               [] p = "first" /\ c = ":" -> "path<"
               [] p \in {"target<", "first"} -> IF c = "/" THEN "rel" ELSE "first"
               [] p = "path<" -> "path"
               [] OTHER -> p)
      [] p \in {"version<", "version"} \union ValuePlaces /\ c \in {"CR", "LF"} ->
            IF c = "CR" THEN "cr" ELSE "line<"
      [] p = "version<" -> "version"
      [] p = "cr" -> "line<"
      [] p \in {"line<", "line cr"} /\ c = "LF" -> "end"
      [] p = "line<" /\ c = "CR" -> "line cr"
      [] p \in {"line<", "line cr", "name"} -> IF c = ":" THEN "value<" ELSE "name"
      [] p = "value<" -> IF c \in {"SP", "TAB"} THEN "value<" ELSE "value"
      [] p = "json" -> IF c = "SP" THEN "document<" ELSE "json"
      [] p = "xml" -> IF c \in XmlName THEN "xml" ELSE "xml document"
      [] p = "document<" -> "document"
      [] OTHER -> p

\* The landmarks at the position before byte c.
Here(p, c) ==
    ({p} \intersect Starts)
    \union (IF c = ":" /\ p \in {"line cr", "name"} THEN {"colon"} ELSE {})
    \union (IF p = "value<" /\ c \notin {"SP", "TAB"} THEN {"value"} ELSE {})

\* The calls that byte c has to make: a part ends there.
Due(p, c) ==
    CASE p = "method" /\ c = "SP" -> {<<"request_method", "start">>}
      [] p \in {"target<", "first", "rel"} /\ c \in {"SP", "?", "#"} ->
            {<<"request_path", "target<">>}
      [] p \in {"path<", "path"} /\ c \in {"SP", "?", "#"} -> {<<"request_path", "path<">>}
      [] p \in QueryPlaces /\ c \in {"SP", "#"} -> {<<"query_string", "query<">>}
      [] p \in FragmentPlaces /\ c = "SP" -> {<<"fragment", "fragment<">>}
      [] p = "version" /\ c \in {"CR", "LF"} -> {<<"http_version", "version<">>}
      [] p \in ValuePlaces /\ c \in {"CR", "LF"} ->
            {<<"http_field", "line<", "colon", "value">>}
      [] p = "json" /\ c = "SP" -> {<<"request_path", "start">>}
      [] p = "xml" /\ Place(p, c) = "xml document" -> {<<"request_path", "start">>}
      [] OTHER -> {}

-----------------------------------------------------------------------------
\* The actions of http11_parser.rl at the position `here`.  on_request_uri and
\* on_request_header_done do nothing, and nobody reads body_start.

Act(h, x, here) ==
    CASE x \in {"mark", "start_value"} -> [h EXCEPT !.mark = here]
      [] x = "start_query" -> [h EXCEPT !.query_start = here]
      [] x = "start_field" -> [h EXCEPT !.field_start = here]
      [] x = "write_field" -> [h EXCEPT !.field_len = here]
      [] x = "write_value" ->
            [h EXCEPT !.calls = @ \union {<<"http_field", h.field_start, h.field_len, h.mark>>}]
      [] x = "query_string" -> [h EXCEPT !.calls = @ \union {<<x, h.query_start>>}]
      [] x \in {"request_method", "request_path", "fragment", "http_version"} ->
            [h EXCEPT !.calls = @ \union {<<x, h.mark>>}]
      [] x \in {"xml", "json"} -> [h EXCEPT !.sent = TRUE]
      [] x \in {"request_uri", "done"} -> h

RECURSIVE Run(_, _, _)
Run(h, acts, here) ==
    IF acts = <<>> THEN h ELSE Run(Act(h, Head(acts), here), Tail(acts), here)

\* Mutant: the mark of the last piece is kept.
ExecuteKeepsMark(cut, here) ==
    [mark |-> mark,
     field_start |-> IF cut THEN here ELSE field_start,
     field_len |-> IF cut THEN {"zero"} ELSE field_len,
     query_start |-> IF cut THEN {"stale"} ELSE query_start,
     sent |-> sent, calls |-> {}]

\* The entry of http_parser_execute, when byte c is the first of a piece.
Execute(cut, here) ==
    [mark |-> IF cut THEN here ELSE mark,
     field_start |-> IF cut THEN here ELSE field_start,
     field_len |-> IF cut THEN {"zero"} ELSE field_len,
     query_start |-> IF cut THEN {"stale"} ELSE query_start,
     sent |-> sent, calls |-> {}]

\* `_widec`: the three delimiters that uri_relaxed allows in a URI.
Take(row, c) ==
    IF uri_relaxed /\ c \in more_delims(TRUE) /\ "more" \in DOMAIN row
    THEN row["more"] ELSE Branch(row, c)

\* Whether setError() is called: on_request_method refuses a method it does not know;
\* on_request_version refuses all but "HTTP/1.0", "HTTP/1.1" and, as strncmp
\* compares nothing, the empty text.
SetError(made, here) ==
    IF \E k \in made : k[1] = "request_method" THEN BOOLEAN
    ELSE {\E k \in made : k[1] = "http_version" /\ "version<" \notin k[2] /\ k[2] # here}

RulesOf == [x \in BOOLEAN |-> Rules(x)]

-----------------------------------------------------------------------------
\* uri_relaxed is not initialised anywhere; query_start neither.
Init ==
    /\ cs = http_parser_start
    /\ uri_relaxed \in BOOLEAN
    /\ mark = {"start"}
    /\ field_start = {"start"}
    /\ field_len = {"zero"}
    /\ query_start = {"stale"}
    /\ sent = FALSE
    /\ m_error = FALSE
    /\ calls = {}
    /\ due = {}
    /\ residual = {main(uri_relaxed)}
    /\ place = "start"
    /\ torn = FALSE

\* execute() stops at the end of the request or at an error of the machine, and
\* is called again unless isFinished() or hasError(): what setError() leaves is
\* not seen before the end of the piece.
Finished == cs >= http_parser_first_final
HasError == m_error \/ cs = http_parser_error

Read(c, cut) ==
    /\ ~Finished /\ cs # http_parser_error
    /\ cut => place # "start" /\ ~HasError
    /\ \E b \in {Take(Table[cs], c)},
          here \in {Here(place, c) \union (IF cut THEN {"cut"} ELSE {})} :
       \E h \in {Run(Execute(cut, here), b[2], here)} :
          /\ cs' = b[1]
          /\ mark' = h.mark
          /\ field_start' = h.field_start
          /\ field_len' = h.field_len
          /\ query_start' = h.query_start
          /\ sent' = h.sent
          /\ calls' = h.calls
          /\ due' = IF cs' = http_parser_error THEN {} ELSE Due(place, c)
          /\ \E e \in SetError(h.calls, here) : m_error' = (m_error \/ e)
    /\ residual' = UNION {After(RulesOf[uri_relaxed], p, c) : p \in residual}
    /\ torn' = (place \notin Starts /\ (torn \/ cut))
    /\ place' = Place(place, c)
    /\ UNCHANGED uri_relaxed

Next == \E c \in Bytes, cut \in BOOLEAN : Read(c, cut)

Spec == Init /\ [][Next]_vars

-----------------------------------------------------------------------------
\* The machine takes exactly the texts of its grammar, whatever the text and
\* whatever the pieces: it is finished when what it has read is a request (or a
\* socket message) of http11_parser.rl, and has an error at the first byte after
\* which no text can become one.
MachineIsGrammar ==
    /\ (cs = http_parser_error) <=> (residual = {})
    /\ Finished <=> \E p \in residual : Empty(RulesOf[uri_relaxed], p)

\* The call k was given the landmarks that d asks for.
Fits(k, d) == k[1] = d[1] /\ \A i \in 2..Len(d) : d[i] \in k[i]

\* The on_... functions are called when a part of the request is complete, and
\* at no other time, ...
CallsInTime == {k[1] : k \in calls} = {d[1] : d \in due}

\* ... with exactly that part, unless a piece ended inside it: then with what the
\* last piece holds of it, and a query with an offset into an earlier buffer.
CallsExact ==
    \A k \in calls, d \in due :
        IF ~torn THEN Fits(k, d)
        ELSE k[2] \intersect {"cut", "stale"} # {}

\* Every part is handed over whole, in whatever pieces the text arrives.
CallsWhole == \A k \in calls, d \in due : Fits(k, d)
=============================================================================
