--------------------------- MODULE RequestMachine ---------------------------
(***************************************************************************)
(* The state machine of http_parser_execute as Ragel generated it:         *)
(* http11_parser.rl.cc, its 349 `case` blocks.  The states keep the        *)
(* numbers of the generated code.                                          *)
(***************************************************************************)
EXTENDS RagelMachine, Naturals, Sequences, TLC

\* The classes of bytes: "U" not ASCII, "b2".."b6" the bytes 2 to 6, "VT"
\* the bytes 11 and 12, "ctl" the other control bytes with "`" and "|", "(" for
\* (),;= and "'" for the double quote and the backslash, "!" for !$&'*_~, "3"
\* for 346789, "G-Z" without H, P and T, "g-z" without v.  "more" is one of
\* { } ^ widened by `_widec += 256`, which a URI state does when
\* parser->uri_relaxed is not zero.
Digit == {"0", "1", "2", "3", "5"}
Upper == {"A-F", "G-Z", "H", "P", "T"}
Letter == Upper \union {"a-f", "g-z", "v"}
HexDigit == Digit \union {"A-F", "a-f"}
HexLetter == {"A-F", "a-f"}
NameChar == Digit \union Letter \union {"!", "(", "+", "-", ".", "more"}
PChar == NameChar \union {"U", ":", "@"}
TokenChar == Digit \union Letter
             \union {"!", "+", "-", ".", "#", "%", "ctl", "^", "b2", "b3", "b4",
                     "b5", "b6", "VT", "CR", "LF"}
Bytes == (PChar \ {"more"}) \union TokenChar
         \union {"NUL", "DEL", "TAB", "SP", "'", "/", "<", ">", "?", "[", "]", "{", "}"}
ValueChar == Bytes \ {"NUL", "DEL", "CR", "LF"}

http_parser_start == 1
http_parser_first_final == 348
http_parser_error == 0

-----------------------------------------------------------------------------
\* Method and version.

PathEnd == RowDo({"SP"}, 4, <<"request_path", "request_uri">>)
           @@ RowDo({"#"}, 20, <<"request_path", "request_uri">>)
           @@ RowDo({"?"}, 29, <<"request_path">>)
Marked(row) == [c \in DOMAIN row |-> <<row[c][1], <<"mark">> \o row[c][2]>>]

Method1 ==
    1 :> Marked(Row(Digit \union Upper, 2) @@ Row({"<"}, 194) @@ Row({"@"}, 198))
 @@ 2 :> (RowDo({"SP"}, 3, <<"request_method">>) @@ Row(Digit \union Upper, 175))

Target ==
    3 :> Marked(Row(Letter, 173) @@ Row((NameChar \ Letter) \union {"@"}, 19)
                @@ Row({"%"}, 24) @@ Row({"/"}, 33) @@ PathEnd)

\* Mutant: any digit ends the version.
VersionAny ==
    4 :> RowDo({"H"}, 5, <<"mark">>) @@ 5 :> Row({"T"}, 6) @@ 6 :> Row({"T"}, 7)
 @@ 7 :> Row({"P"}, 8) @@ 8 :> Row({"/"}, 9) @@ 9 :> Row({"1"}, 10)
 @@ 10 :> Row({"."}, 11) @@ 11 :> Row(Digit, 12)
 @@ 12 :> (RowDo({"LF"}, 13, <<"http_version">>) @@ RowDo({"CR"}, 17, <<"http_version">>))

Version ==
    4 :> RowDo({"H"}, 5, <<"mark">>) @@ 5 :> Row({"T"}, 6) @@ 6 :> Row({"T"}, 7)
 @@ 7 :> Row({"P"}, 8) @@ 8 :> Row({"/"}, 9) @@ 9 :> Row({"1"}, 10)
 @@ 10 :> Row({"."}, 11) @@ 11 :> Row({"0", "1"}, 12)
 @@ 12 :> (RowDo({"LF"}, 13, <<"http_version">>) @@ RowDo({"CR"}, 17, <<"http_version">>))

-----------------------------------------------------------------------------
\* Header fields.  CR and LF are token characters: HTTP_CTL = (0 - 31) | 127
\* is the set difference of 0 and 31.

FieldName ==
    13 :> (RowDo({"LF"}, 348, <<"start_field", "done">>)
           @@ RowDo({"CR"}, 18, <<"start_field">>)
           @@ RowDo(TokenChar, 14, <<"start_field">>))
 @@ 14 :> (Row(TokenChar, 14) @@ RowDo({":"}, 15, <<"write_field">>))

FieldValue ==
    15 :> (RowDo({"TAB", "SP"}, 15, <<"start_value">>)
           @@ RowDo({"LF"}, 13, <<"start_value", "write_value">>)
           @@ RowDo({"CR"}, 17, <<"start_value", "write_value">>)
           @@ RowDo(ValueChar, 16, <<"start_value">>))
 @@ 16 :> (RowDo({"LF"}, 13, <<"write_value">>)
           @@ RowDo({"CR"}, 17, <<"write_value">>) @@ Row(ValueChar, 16))
 @@ 17 :> Row({"LF"}, 13)

HeaderEnd ==
    348 :> (Row(TokenChar, 14) @@ RowDo({":"}, 15, <<"write_field">>))
 @@ 18 :> (RowDo({"LF"}, 348, <<"done">>) @@ Row(TokenChar, 14)
           @@ RowDo({":"}, 15, <<"write_field">>))

-----------------------------------------------------------------------------
\* Path, query and fragment.

NoScheme == 19 :> (Row(NameChar \union {"@"}, 19) @@ Row({"%"}, 24)
                   @@ Row({"/"}, 26) @@ PathEnd)

Fragment ==
    20 :> (RowDo({"SP"}, 4, <<"mark", "fragment">>)
           @@ Marked(Row(PChar \union {"/", "?"}, 21) @@ Row({"%"}, 22)))
 @@ 21 :> (RowDo({"SP"}, 4, <<"fragment">>)
           @@ Row(PChar \union {"/", "?"}, 21) @@ Row({"%"}, 22))
 @@ Pct(HexDigit, 22, 21) @@ Pct(HexDigit, 24, 19)

Segments == 26 :> (Row(PChar \union {"/"}, 26) @@ Row({"%"}, 27) @@ PathEnd)
            @@ Pct(HexDigit, 27, 26)

\* What ends a query string; acts come first.
QueryEnd(acts) == RowDo({"SP"}, 4, acts \o <<"query_string", "request_uri">>)
                  @@ RowDo({"#"}, 20, acts \o <<"query_string", "request_uri">>)

Query ==
    29 :> (QueryEnd(<<"start_query">>)
           @@ RowDo(PChar \union {"/", "?"}, 30, <<"start_query">>)
           @@ RowDo({"%"}, 31, <<"start_query">>))
 @@ 30 :> (QueryEnd(<<>>) @@ Row(PChar \union {"/", "?"}, 30) @@ Row({"%"}, 31))

QueryPct == Pct(HexDigit, 31, 30)
            @@ 33 :> (Row({"/"}, 34) @@ Row(PChar, 26) @@ Row({"%"}, 27) @@ PathEnd)

-----------------------------------------------------------------------------
\* Authority: the states s..s+12; `end` is what follows it besides a path.

AuthName(s, end) ==
    s :> (Row(NameChar, s + 1) @@ Row({"%"}, s + 2) @@ Row({":"}, s + 4)
          @@ Row({"@"}, s + 8) @@ Row({"["}, s + 13) @@ end)
 @@ (s + 1) :> (Row(NameChar, s + 1) @@ Row({"%"}, s + 2) @@ Row({":"}, s + 4)
                @@ Row({"@"}, s + 8) @@ end)
 @@ Pct(HexDigit, s + 2, s + 1)

AuthUser(s, end) ==
    s :> (Row(Digit, s) @@ Row(NameChar \union {":"}, s + 1) @@ Row({"%"}, s + 2)
          @@ Row({"@"}, s + 4) @@ end)
 @@ (s + 1) :> (Row(NameChar \union {":"}, s + 1) @@ Row({"%"}, s + 2)
                @@ Row({"@"}, s + 4))
 @@ Pct(HexDigit, s + 2, s + 1)

AuthHost(s, end) ==
    s :> (Row(NameChar, s + 1) @@ Row({"%"}, s + 2) @@ Row({":"}, s + 4)
          @@ Row({"["}, s + 5) @@ end)
 @@ (s + 1) :> (Row(NameChar, s + 1) @@ Row({"%"}, s + 2) @@ Row({":"}, s + 4) @@ end)
 @@ Pct(HexDigit, s + 2, s + 1)
 @@ (s + 4) :> (Row(Digit, s + 4) @@ end)

UriEnd == Row({"/"}, 26) @@ PathEnd
UriName == AuthName(34, UriEnd)
UriUser == AuthUser(38, UriEnd)
UriHost == AuthHost(42, UriEnd)

-----------------------------------------------------------------------------
\* IP_literal.  In "6( h16 ":" )" the 6 is the byte 6, so an address needs
\* the control bytes 2 to 6 where RFC 3986 has repeat counts; ("1"-"9") and
\* ("0"-"5") are differences of sets, "1" and "0".

Close == Row({"]"}, 61)
Colon(m) == Row({":"}, m)

\* The first byte of ls32: z the octet that is not "1" or "2", o "1", a letter.
First6(z, o, a) == Row({"0", "3", "5"}, z) @@ Row({"1"}, o) @@ Row({"2"}, o + 3)
                   @@ Row(HexLetter, a)

\* h16 after a first digit f that may have been an octet; the h16 goes on in
\* h..h+2.
H16First(f, h, end) == f :> (Row({"."}, 55) @@ Row(HexDigit, h) @@ end)
H16Rest(h, end) ==
    [i \in h..h+2 |-> IF i < h + 2 THEN Row(HexDigit, i + 1) @@ end ELSE end]
H16(f, h, end) == H16First(f, h, end) @@ H16Rest(h, end)

\* h16 that may still be a dec_octet: o..o+2 began with "1", o+3..o+5 with "2".
OctetRun(o, h, end) ==
    LET dot == Row({"."}, 55) @@ end IN
    o :> (Row(Digit, o + 1) @@ Row(HexLetter, h) @@ dot)
 @@ (o + 1) :> (Row(Digit, o + 2) @@ Row(HexLetter, h + 1) @@ dot)
 @@ (o + 2) :> (Row(HexDigit, h + 2) @@ dot)
 @@ (o + 3) :> (Row({"0"}, o + 4) @@ Row({"5"}, o + 5) @@ Row(HexDigit, h) @@ dot)
 @@ (o + 4) :> (Row(Digit, o + 2) @@ Row(HexLetter, h + 1) @@ end)
 @@ (o + 5) :> (Row({"0"}, o + 2) @@ Row(HexDigit, h + 1) @@ end)
 @@ (o + 6) :> (Row(HexDigit, h) @@ end)

\* dec_octet of an address with dots: z is a complete one.
Octet(o, z, end) ==
    o :> (Row(Digit, o + 1) @@ end) @@ (o + 1) :> (Row(Digit, z) @@ end)
 @@ (o + 2) :> (Row({"0"}, o + 3) @@ Row({"5"}, o + 4) @@ end)
 @@ (o + 3) :> Row(Digit, z) @@ (o + 4) :> Row({"0"}, z)
Start4(z, o) == Row({"0", "3", "5"}, z) @@ Row({"1"}, o) @@ Row({"2"}, o + 2)

V6Start ==
    47 :> (Row({"b6"}, 48) @@ Row(HexDigit, 91) @@ Colon(167) @@ Row({"v"}, 169))
 @@ 48 :> Row(HexDigit, 49) @@ Hex4(HexDigit, 49, Colon(53))
 @@ 53 :> First6(54, 84, 90) @@ H16First(54, 77, Colon(80))
V6Quad ==
    55 :> Start4(56, 72) @@ 56 :> Row({"."}, 57) @@ 57 :> Start4(58, 67)
 @@ 58 :> Row({"."}, 59) @@ 59 :> Start4(60, 62) @@ 60 :> Close
 @@ 61 :> (Colon(46) @@ UriEnd) @@ Octet(62, 60, Close)
V6QuadOctets == Octet(67, 58, Row({"."}, 59)) @@ Octet(72, 56, Row({"."}, 57))
V6Low == H16Rest(77, Colon(80)) @@ 80 :> Row(HexDigit, 81)
         @@ [i \in 81..83 |-> Row(HexDigit, IF i = 83 THEN 60 ELSE i + 1) @@ Close]
V6LowOctets == OctetRun(84, 77, Colon(80))

\* Groups before "::"; the count of groups has no upper bound ("{6,}").
Lead(s, next, other) == Hex4(HexDigit, s, Colon(next))
                        @@ next :> (Row(HexDigit, next + 1) @@ Colon(other))
V6Lead1 == Lead(91, 95, 166) @@ Lead(96, 100, 165)
V6Lead2 == Lead(101, 105, 164) @@ Lead(106, 110, 163)
V6Lead3 == Lead(111, 115, 151) @@ Lead(116, 120, 150)
V6Lead4 == Hex4(HexDigit, 121, Colon(125)) @@ 125 :> (Row(HexDigit, 121) @@ Colon(126))

V6After6 == 126 :> (Row({"b2", "b3"}, 48) @@ First6(127, 143, 149) @@ Close)
            @@ H16(127, 128, Colon(131) @@ Close)
V6Second == 131 :> First6(132, 136, 142) @@ H16(132, 133, Colon(80) @@ Close)
V6SecondOctets == OctetRun(136, 133, Colon(80) @@ Close)
V6FirstOctets == OctetRun(143, 128, Colon(131) @@ Close)
V6After4 == 150 :> (Row({"b2", "b3"}, 48) @@ First6(127, 143, 149))
            @@ 151 :> (Row({"b2", "b3"}, 48) @@ First6(152, 156, 162))
            @@ H16(152, 153, Colon(131))
V6After4Octets == OctetRun(156, 153, Colon(131))
V6Few ==
    163 :> (Row({"b2", "b3"}, 48) @@ Row(HexDigit, 49)) @@ 164 :> Row({"b2", "b3"}, 48)
 @@ 165 :> Row({"b3"}, 48) @@ 166 :> Row({"b4"}, 48) @@ 167 :> Colon(168)
 @@ 168 :> (Row({"b2", "b3", "b4", "b5"}, 48) @@ First6(127, 143, 149) @@ Close)
VFuture ==
    169 :> Row(HexDigit, 170) @@ 170 :> (Row({"."}, 171) @@ Row(HexDigit, 170))
 @@ 171 :> Row(NameChar \union {":"}, 172)
 @@ 172 :> (Row(NameChar \union {":"}, 172) @@ Close)

-----------------------------------------------------------------------------
\* A name that may be a scheme, and the rest of the method.

Scheme ==
    173 :> (Row(Letter \union Digit \union {"+", "-", "."}, 173)
            @@ Row(NameChar \union {"@"}, 19) @@ Row({"%"}, 24) @@ Row({":"}, 174)
            @@ UriEnd)
 @@ 174 :> Marked(Row(PChar, 26) @@ Row({"%"}, 27) @@ Row({"/"}, 33) @@ PathEnd)

\* The 2nd to 19th byte of a method, then the 20th.
Method2 ==
    [i \in 175..185 |-> RowDo({"SP"}, 3, <<"request_method">>)
                        @@ Row(Digit \union Upper, i + 1)]
Method3 ==
    [i \in 186..192 |-> RowDo({"SP"}, 3, <<"request_method">>)
                        @@ Row(Digit \union Upper, i + 1)]
 @@ 193 :> RowDo({"SP"}, 3, <<"request_method">>)

-----------------------------------------------------------------------------
\* Socket requests: XML and JSON documents that end with a NUL.

XmlName == {"-", "."} \union Digit \union Letter
XmlMessage ==
    194 :> Row(XmlName, 195)
 @@ 195 :> (Row(XmlName, 195)
            @@ RowDo({"TAB", "LF", "VT", "CR", "SP", "/", ">"}, 196, <<"request_path">>))
 @@ 196 :> (Row({">"}, 197) @@ Row(Bytes, 196))
 @@ 197 :> (RowDo({"NUL"}, 349, <<"xml", "done">>) @@ Row({">"}, 197) @@ Row(Bytes, 196))
 @@ 349 :> Row({}, 0)

JsonPathEnd == RowDo({"SP"}, 199, <<"request_path">>)
JsonEnd == Row({"/"}, 205) @@ JsonPathEnd

JsonMessage ==
    198 :> (Row(NameChar \union {"@"}, 202) @@ Row({"%"}, 203) @@ Row({"/"}, 208)
            @@ JsonPathEnd)
 @@ 199 :> RowDo({"{"}, 200, <<"mark">>)
 @@ 200 :> (Row({"}"}, 201) @@ Row(Bytes, 200))
 @@ 201 :> (RowDo({"NUL"}, 349, <<"json", "done">>) @@ Row({"}"}, 201) @@ Row(Bytes, 200))
JsonPath ==
    202 :> (Row(NameChar \union {"@"}, 202) @@ Row({"%"}, 203) @@ JsonEnd)
 @@ Pct(HexDigit, 203, 202)
 @@ 205 :> (Row(PChar, 205) @@ Row({"%"}, 206) @@ JsonEnd)
JsonSlash == Pct(HexDigit, 206, 205)
             @@ 208 :> (Row({"/"}, 209) @@ Row(PChar, 205) @@ Row({"%"}, 206) @@ JsonPathEnd)
JsonName == AuthName(209, JsonEnd)
JsonUser == AuthUser(213, JsonEnd)
JsonHost == AuthHost(217, JsonEnd)

\* The IP_literal again, as states 222..347.
Again(T) == [s \in {t + 175 : t \in DOMAIN T} |->
                [c \in DOMAIN T[s - 175] |-> <<T[s - 175][c][1] + 175, <<>>>>]]
JsonV6Start == Again(V6Start)
JsonV6Quad == 236 :> (Colon(221) @@ JsonEnd)
              @@ Again([s \in (55..66) \ {61} |-> V6Quad[s]])
JsonV6QuadOctets == Again(V6QuadOctets)
JsonV6Low == Again(V6Low)
JsonV6LowOctets == Again(V6LowOctets)
JsonV6Lead1 == Again(V6Lead1)
JsonV6Lead2 == Again(V6Lead2)
JsonV6Lead3 == Again(V6Lead3)
JsonV6Lead4 == Again(V6Lead4)
JsonV6After6 == Again(V6After6)
JsonV6Second == Again(V6Second)
JsonV6SecondOctets == Again(V6SecondOctets)
JsonV6FirstOctets == Again(V6FirstOctets)
JsonV6After4 == Again(V6After4)
JsonV6After4Octets == Again(V6After4Octets)
JsonV6Few == Again(V6Few)
JsonVFuture == Again(VFuture)

-----------------------------------------------------------------------------
\* The switch over all the states.
Table ==
    Method1 @@ Target @@ Version @@ FieldName @@ FieldValue @@ HeaderEnd
    @@ NoScheme @@ Fragment @@ Segments @@ Query @@ QueryPct @@ UriName @@
    UriUser @@ UriHost @@ V6Start @@ V6Quad @@ V6QuadOctets @@ V6Low @@
    V6LowOctets @@ V6Lead1 @@ V6Lead2 @@ V6Lead3 @@ V6Lead4 @@ V6After6 @@
    V6Second @@ V6SecondOctets @@ V6FirstOctets @@ V6After4 @@
    V6After4Octets @@ V6Few @@ VFuture @@ Scheme @@ Method2 @@ Method3 @@
    XmlMessage @@ JsonMessage @@ JsonPath @@ JsonSlash @@ JsonName @@
    JsonUser @@ JsonHost @@ JsonV6Start @@ JsonV6Quad @@ JsonV6QuadOctets
    @@ JsonV6Low @@ JsonV6LowOctets @@ JsonV6Lead1 @@ JsonV6Lead2 @@
    JsonV6Lead3 @@ JsonV6Lead4 @@ JsonV6After6 @@ JsonV6Second @@
    JsonV6SecondOctets @@ JsonV6FirstOctets @@ JsonV6After4 @@
    JsonV6After4Octets @@ JsonV6Few @@ JsonVFuture
=============================================================================
