----------------------------- MODULE UriParser ------------------------------
(***************************************************************************)
(* Uri::Create (uri.rl.cc) on any text: the machine of UriMachine reads it *)
(* byte by byte and hands parts of it to the setters of Uri.               *)
(*                                                                         *)
(* A pointer into the text is modelled by what it points at: the set of    *)
(* the landmarks of the text that lie there (none for most positions).     *)
(* The landmarks are found by a second reader of the text, `place` and     *)
(* `seen`, which knows only the delimiters of RFC 3986 and nothing of the  *)
(* machine; a part of a URI lies between two landmarks.                    *)
(***************************************************************************)
EXTENDS UriGrammar

VARIABLES
    cs,        \* the state of the machine
    mark,      \* the pointer `mark`
    kept,      \* the parts the setters were given: <<first, past the last>>
    result,       \* "reading", or how Create ended: "uri", "nullptr", "throws"
    residual,  \* the patterns the rest of the text may match
    place,     \* the part of a URI the text has reached
    seen       \* the optional parts the text has had

vars == <<cs, mark, kept, result, residual, place, seen>>

-----------------------------------------------------------------------------
\* The second reader: delimiters only.

Null == {"NULL"}
Landmarks == {"start", "scheme:", "//>", "@", "@>", ":", ":>", "path", "?", "?>",
              "#", "#>", "end"}
Parts == {"scheme", "userinfo", "host", "port", "path", "query", "fragment"}

BeforePath == {"//>", "user", "@>", "host", ":>", "port"}   \* in the authority
BeforeQuery == BeforePath \union {"start", "scheme", "hier", "/", "path", "["}
BeforeFragment == BeforeQuery \union {"?>", "query"}

\* Where the text is after byte c.
Place(p, c) ==
    CASE c = "#" /\ p \in BeforeFragment -> "#>"
      [] c = "?" /\ p \in BeforeQuery -> "?>"
      [] c = "/" /\ p \in {"start", "hier"} -> "/"
      [] c = "/" /\ p = "/" -> "//>"
      [] c = "/" /\ p \in BeforePath \union {"scheme"} -> "path"
      [] c = ":" /\ p \in {"start", "scheme"} -> "hier"
      [] c = ":" /\ p \in {"//>", "user", "@>", "host"} -> ":>"
      [] c = "@" /\ p \in {"//>", "user", ":>", "port"} -> "@>"
      [] c = "[" /\ p \in {"//>", "@>"} -> "["
      [] c = "]" /\ p = "[" -> "host"
      [] OTHER -> CASE p = "start" -> "scheme"
                    [] p = "//>" -> "user"
                    [] p = "@>" -> "host"
                    [] p = ":>" -> "port"
                    [] p \in {"hier", "/"} -> "path"
                    [] p = "?>" -> "query"
                    [] p = "#>" -> "fragment"
                    [] OTHER -> p

\* The landmarks at the position before byte c ("end" after the last one).
Here(p, c) ==
    LET q == Place(p, c) IN
    ({p} \intersect (Landmarks \ {"path"}))
    \union (IF q \in {"?>", "#>", ":>", "@>"} THEN {c} ELSE {})
    \union (IF p = "scheme" /\ q = "hier" THEN {"scheme:"} ELSE {})
    \union (IF p \in BeforePath /\ c \in {"/", "?", "#", "end"} THEN {"path"} ELSE {})
    \union (IF c = "end" THEN {"end"} ELSE {})

\* The optional parts the text has had after byte c; a ":" before "@" belongs
\* to the userinfo.
Seen(s, p, c) ==
    LET q == Place(p, c) IN
    CASE p = "scheme" /\ q = "hier" -> s \union {"scheme"}
      [] q = "//>" -> s \union {"host"}
      [] q = ":>" -> s \union {"colon"}
      [] q = "port" -> s \union {"port"}
      [] q = "@>" -> (s \ {"colon", "port"}) \union {"userinfo"}
                     \union (IF "colon" \in s THEN {"password"} ELSE {})
      [] q = "?>" -> s \union {"query"}
      [] q = "#>" -> s \union {"fragment"}
      [] OTHER -> s

-----------------------------------------------------------------------------
\* The actions of uri.rl, at the position `here`.  The std::string made of a
\* null pointer throws.

None == [part \in Parts |-> <<>>]
Keep(r, part, here) == [r EXCEPT !.kept[part] = <<r.mark, here>>, !.mark = Null]

Act(r, a, here) ==
    CASE r.result = "throws" -> r
      [] a = "mark" -> [r EXCEPT !.mark = here]
      [] a = "save_scheme" -> Keep(r, "scheme", here)
      [] a = "save_port" -> IF here = r.mark THEN [r EXCEPT !.mark = Null]
                            ELSE Keep(r, "port", here)
      [] a = "save_userinfo" -> IF r.mark = Null THEN r ELSE Keep(r, "userinfo", here)
      [] a = "save_host" -> IF r.mark = Null THEN r
                            ELSE [r EXCEPT !.kept.host = <<r.mark, here>>]
      [] a = "save_path" -> IF r.mark = Null THEN [r EXCEPT !.result = "throws"]
                            ELSE Keep(r, "path", here)
      [] a = "save_query" -> Keep(r, "query", here)
      [] a = "save_fragment" -> Keep(r, "fragment", here)

RECURSIVE Run(_, _, _)
Run(r, acts, here) ==
    IF acts = <<>> THEN r ELSE Run(Act(r, Head(acts), here), Tail(acts), here)

\* The actions of one byte, or of the end, before the move to state n; Create
\* drops the Uri when it returns nullptr.
Step(acts, here, n, end) ==
    /\ cs' = n
    /\ \E r \in {Run([mark |-> mark, kept |-> kept, result |-> "reading"], acts, here)} :
        /\ mark' = r.mark
        /\ result' = IF r.result = "throws" THEN "throws" ELSE end
        /\ kept' = IF result' \in {"reading", "uri"} THEN r.kept ELSE None

-----------------------------------------------------------------------------
Init ==
    /\ cs = uri_parser_start
    /\ mark = Null
    /\ kept = None
    /\ result = "reading"
    /\ residual = {URI_reference}
    /\ place = "start"
    /\ seen = {}

Read(c) ==
    /\ result = "reading"
    /\ \E b \in {Branch(Table[cs], c)} :
          Step(b[2], Here(place, c), b[1],
               IF b[1] = uri_parser_error THEN "nullptr" ELSE "reading")
    /\ residual' = UNION {After(Rules, p, c) : p \in residual}
    /\ place' = Place(place, c)
    /\ seen' = Seen(seen, place, c)

AtEof ==
    /\ result = "reading"
    /\ Step(Eof[cs], Here(place, "end"), cs,
            IF cs >= uri_parser_first_final THEN "uri" ELSE "nullptr")
    /\ UNCHANGED <<residual, place, seen>>

Next == AtEof \/ \E c \in Bytes : Read(c)

Spec == Init /\ [][Next]_vars

-----------------------------------------------------------------------------
TypeOK ==
    /\ cs \in 0..560
    /\ mark \in SUBSET (Landmarks \union Null)
    /\ DOMAIN kept = Parts
    /\ result \in {"reading", "uri", "nullptr", "throws"}
    /\ seen \subseteq Parts \union {"colon", "password"}

\* The machine takes exactly the texts of its grammar, whatever the text: it is
\* in a final state when what it has read is a URI_reference of uri.rl, and
\* gives up at the first byte after which no text can become one.
MachineIsGrammar ==
    /\ (cs = uri_parser_error) <=> (residual = {})
    /\ (cs >= uri_parser_first_final) <=> \E p \in residual : Empty(Rules, p)

\* The landmarks a part lies between.
From(part) ==
    CASE part = "scheme" -> "start"
      [] part = "userinfo" -> "//>"
      [] part = "host" -> IF "userinfo" \in seen THEN "@>" ELSE "//>"
      [] part = "port" -> ":>"
      [] part = "path" -> "path"
      [] part = "query" -> "?>"
      [] part = "fragment" -> "#>"
Upto(part) ==
    CASE part = "scheme" -> "scheme:"
      [] part = "userinfo" -> "@"
      [] part = "host" -> IF "colon" \in seen THEN ":" ELSE "path"
      [] part = "port" -> "path"
      [] part \in {"path", "query"} -> IF part = "path" /\ "query" \in seen THEN "?"
                                       ELSE IF "fragment" \in seen THEN "#" ELSE "end"
      [] part = "fragment" -> "end"

Exact(part) == kept[part] # <<>> /\ From(part) \in kept[part][1] /\ Upto(part) \in kept[part][2]

\* The parts of the Uri that Create returns are those of the text: every part
\* the text has was given whole to its setter, and no other part was set.  The
\* code makes two exceptions: it keeps the path only after a scheme and an
\* authority, and of a userinfo with a ":" in it not the whole.
PartsExact ==
    result = "uri" =>
        /\ \A part \in {"scheme", "host", "port", "query", "fragment"} :
              IF part \in seen THEN Exact(part) ELSE kept[part] = <<>>
        /\ IF "userinfo" \in seen THEN "password" \in seen \/ Exact("userinfo")
           ELSE kept["userinfo"] = <<>>
        /\ IF {"scheme", "host"} \subseteq seen THEN Exact("path") ELSE kept["path"] = <<>>

\* A scheme, and an authority that ends with a ":".
EmptyPort == {"scheme", "host", "colon"} \subseteq seen /\ "port" \notin seen

\* Create returns a Uri or nullptr for every text (uri.h:48).  It does not: for
\* an empty port save_port leaves a null pointer, of which save_path makes a
\* string, and the constructor of that throws.
CreateReturns == result # "throws"

\* It does for every text without an empty port.
OthersReturn == EmptyPort \/ CreateReturns
=============================================================================
