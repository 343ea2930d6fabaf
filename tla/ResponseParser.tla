--------------------------- MODULE ResponseParser ---------------------------
(***************************************************************************)
(* HttpResponseParser (http_parser.cc) over httpclient_parser_execute      *)
(* (httpclient_parser.rl.cc) on any text that arrives in any pieces.  As   *)
(* in RequestParser, an offset is modelled by the landmarks of the text    *)
(* that lie there, found by a second reader that knows only delimiters,    *)
(* and "cut" at the start of a piece.  execute(data, len, true), the call  *)
(* for the header of a chunk, initialises the parser anew for every piece. *)
(***************************************************************************)
EXTENDS ResponseGrammar

VARIABLES
    cs, mark, field_start, field_len, chunked, close,    \* httpclient_parser
    chunck,     \* the parameter of execute()
    m_error,    \* HttpResponseParser::m_error is not 0
    calls,      \* the calls the last byte made, with the offsets they were given
    due,        \* the calls it had to make, with the landmarks they need
    residual,   \* the patterns the rest of the text may match
    place,      \* the part of a response the text has reached
    torn        \* a piece ended inside that part

vars == <<cs, mark, field_start, field_len, chunked, close, chunck, m_error, calls,
          due, residual, place, torn>>

-----------------------------------------------------------------------------
\* The second reader: delimiters only.  "empty" is the start of a line after a
\* field without a value, which the grammar lets the next lines continue.

EndOfLine == {"CR", "LF"}
LineStarts == {"line<", "empty"}
Starts == {"start", "status<", "reason<"} \union LineStarts

Place(p, c) ==
    CASE p = "start" -> IF c = "H" THEN "version" ELSE "size"
      [] p = "version" -> IF c = "SP" THEN "status<" ELSE "version"
      [] p \in {"status<", "status"} -> IF c = "SP" THEN "reason<" ELSE "status"
      [] p = "reason<" -> "reason"
      [] p \in {"reason", "value", "value<"} /\ c \in EndOfLine ->
            (CASE c = "CR" /\ p = "value<" -> "empty cr"
               [] c = "CR" -> "cr"
               [] p = "value<" -> "empty"
               [] OTHER -> "line<")
      [] p = "cr" -> "line<"
      [] p = "empty cr" /\ c = "LF" -> "empty"
      [] p \in LineStarts /\ c = "LF" -> IF p = "empty" THEN "empty end" ELSE "end"
      [] p = "line<" /\ c = "CR" -> "last cr"
      [] p = "empty" /\ c \in Blank \union {"CR"} -> "fold"
      [] p = "empty" -> "bare"
      [] p = "line<" -> "name"
      [] p \in {"name", "bare"} /\ c = ":" -> "value<"
      [] p = "value<" -> IF c \in Blank THEN "value<" ELSE "value"
      [] p \in {"folded", "bare"} /\ c \in EndOfLine -> IF c = "CR" THEN "cr" ELSE "line<"
      [] p \in {"empty cr", "empty end", "fold"} -> IF c \in space THEN "fold" ELSE "folded"
      [] p = "size" -> (CASE c = "CR" -> "last cr" [] c = ";" -> "ext<" [] OTHER -> "size")
      [] p \in {"ext<", "ext", "arg<", "arg"} ->
            (CASE c = "CR" -> "last cr"
               [] c = ";" -> "ext<"
               [] c = "=" -> "arg<"
               [] p = "ext<" -> "ext"
               [] p = "arg<" -> "arg"
               [] OTHER -> p)
      [] OTHER -> p

\* The landmarks at the position before byte c.
Here(p, c) ==
    ({p} \intersect Starts)
    \union (IF p \in LineStarts \union {"ext<"} THEN {"name"} ELSE {})
    \union (IF \/ p \in {"name", "bare"} /\ c = ":"
               \/ p = "ext" /\ c \in EndOfLine \union {";", "="}
            THEN {"colon"} ELSE {})
    \union (IF \/ p = "value<" /\ c \notin Blank
               \/ p = "ext" /\ c \in EndOfLine \union {";"}
               \/ p = "arg<"
            THEN {"value"} ELSE {})

\* The calls that byte c has to make: a part ends there.  Whether a line that
\* continues an empty value makes one depends on the name of the field.
Due(p, c) ==
    CASE p = "version" /\ c = "SP" -> {<<"http_version", "start">>}
      [] p = "status" /\ c = "SP" -> {<<"status_code", "status<">>}
      [] p = "reason" /\ c \in EndOfLine -> {<<"reason_phrase", "reason<">>}
      [] p \in {"value<", "value"} /\ c \in EndOfLine ->
            {<<"http_field", "name", "colon", "value">>}
      [] p = "size" /\ c \in EndOfLine \union {";"} -> {<<"chunk_size", "start">>}
      [] p \in {"folded", "bare"} /\ c \in EndOfLine -> {<<"maybe http_field">>}
      [] p \in {"ext", "arg"} /\ c \in EndOfLine \union {";"} ->
            {<<"http_field", "name", "colon", "value">>}
      [] OTHER -> {}

-----------------------------------------------------------------------------
\* The actions of httpclient_parser.rl at the position `here`: chunk_size calls
\* on_response_chunk or on_response_last_chunk; the content length is read from
\* the mark on.

Act(h, x, here) ==
    CASE x \in {"mark", "start_value"} -> [h EXCEPT !.mark = here]
      [] x = "start_field" -> [h EXCEPT !.field_start = here]
      [] x = "write_field" -> [h EXCEPT !.field_len = here]
      [] x = "write_value" ->
            [h EXCEPT !.calls = @ \union {<<"http_field", h.field_start, h.field_len, h.mark>>}]
      [] x \in {"http_version", "status_code", "reason_phrase"} ->
            [h EXCEPT !.calls = @ \union {<<x, h.mark>>}]
      [] x = "chunk_size" -> [h EXCEPT !.calls = @ \union {<<x, h.mark>>}, !.chunked = TRUE]
      [] x = "trans_chunked" -> [h EXCEPT !.chunked = TRUE]
      [] x = "write_connection_close" -> [h EXCEPT !.close = TRUE]
      [] x \in {"write_content_len", "done"} -> h

RECURSIVE Run(_, _, _)
Run(h, acts, here) ==
    IF acts = <<>> THEN h ELSE Run(Act(h, Head(acts), here), Tail(acts), here)

\* The entry of execute(), when byte c is the first of a piece.
Execute(cut, here) ==
    [cs |-> IF cut /\ chunck THEN httpclient_parser_start ELSE cs,
     chunked |-> chunked /\ ~(cut /\ chunck),
     close |-> close /\ ~(cut /\ chunck),
     mark |-> IF cut THEN here ELSE mark,
     field_start |-> IF cut THEN here ELSE field_start,
     field_len |-> IF cut THEN {"zero"} ELSE field_len,
     calls |-> {}]

\* on_response_version refuses all but "HTTP/1.0", "HTTP/1.1" and, as strncmp
\* compares nothing, the empty text.
SetError(made, here) ==
    IF \E k \in made : k[1] = "http_version" /\ "start" \in k[2] THEN BOOLEAN
    ELSE {\E k \in made : k[1] = "http_version" /\ k[2] # here}

-----------------------------------------------------------------------------
Init ==
    /\ cs = httpclient_parser_start
    /\ mark = {"start"}
    /\ field_start = {"start"}
    /\ field_len = {"zero"}
    /\ chunked = FALSE
    /\ close = FALSE
    /\ chunck \in BOOLEAN
    /\ m_error = FALSE
    /\ calls = {}
    /\ due = {}
    /\ residual = {<<Rule("main")>>}
    /\ place = "start"
    /\ torn = FALSE

\* execute() stops at `done`, which leaves the machine in any of its four final
\* states, or at an error, and is called again unless isFinished(), which compares
\* with one of the four, or hasError().
Finished == cs = httpclient_parser_first_final
HasError == m_error \/ cs = httpclient_parser_error
Done == cs >= httpclient_parser_first_final

Read(c, cut) ==
    /\ ~Finished /\ cs # httpclient_parser_error
    /\ Done => cut
    /\ cut => place # "start" /\ ~HasError
    /\ \E here \in {Here(place, c) \union (IF cut THEN {"cut"} ELSE {})} :
       \E e \in {Execute(cut, here)} :
       \E b \in {Branch(Table[e.cs], c)} :
       \E h \in {Run(e, b[2], here)} :
          /\ cs' = b[1]
          /\ mark' = h.mark
          /\ field_start' = h.field_start
          /\ field_len' = h.field_len
          /\ chunked' = h.chunked
          /\ close' = h.close
          /\ calls' = h.calls
          /\ due' = IF cs' = httpclient_parser_error THEN {} ELSE Due(place, c)
          /\ \E r \in SetError(h.calls, here) : m_error' = (m_error \/ r)
    /\ residual' = UNION {After(Rules, p, c) :
                             p \in IF cut /\ chunck THEN {<<Rule("main")>>} ELSE residual}
    /\ torn' = ((place \notin Starts \/ chunck) /\ (torn \/ cut))
    /\ place' = Place(place, c)
    /\ UNCHANGED chunck

Next == \E c \in Bytes, cut \in BOOLEAN : Read(c, cut)

Spec == Init /\ [][Next]_vars

-----------------------------------------------------------------------------
\* The machine takes exactly the texts of its grammar, whatever the text and
\* whatever the pieces: it is in a final state when what it has read (in the
\* last piece, for a chunk) is a response or the header of a chunk, and has an
\* error at the first byte after which no text can become one.
MachineIsGrammar ==
    /\ (cs = httpclient_parser_error) <=> (residual = {})
    /\ Done <=> \E p \in residual : Empty(Rules, p)

\* The call k was given the landmarks that d asks for.
Fits(k, d) == k[1] = d[1] /\ \A i \in 2..Len(d) : d[i] \in k[i]

\* The on_... functions are called when a part of the response is complete and
\* at no other time.  The header of a chunk is an exception once a piece has
\* ended inside it: execute() has started over in the middle.
CallsInTime ==
    \/ chunck /\ torn
    \/ due = {<<"maybe http_field">>}
    \/ {k[1] : k \in calls} = {d[1] : d \in due}

\* They are given exactly that part, unless a piece ended inside it.
CallsExact ==
    ~torn /\ due # {<<"maybe http_field">>} => \A k \in calls, d \in due : Fits(k, d)

\* A response that ends is finished, unless its last field has no value: then
\* one of the three other final states may be the one it ends in.  (Nothing is
\* said of the header of a chunk that a piece has ended in.)
EndIsFinished ==
    Done => Finished \/ place \in {"empty end", "fold"} \/ (chunck /\ torn)

\* Every part is handed over whole, in whatever pieces the text arrives.
CallsWhole ==
    due # {<<"maybe http_field">>} => \A k \in calls, d \in due : Fits(k, d)
=============================================================================
