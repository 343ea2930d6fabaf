----------------------------- MODULE UriMachine -----------------------------
(***************************************************************************)
(* The state machine of Uri::Create as Ragel generated it: uri.rl.cc, the  *)
(* 560 `case` blocks of the parser and its end-of-input actions.  The      *)
(* states keep the numbers of the generated code.  States 459-507 read the *)
(* authority of a relative reference ("//host/..."), 511-560 the authority *)
(* of a URI with a scheme ("s://host/..."); the code is the same twice     *)
(* over, with other numbers and other actions at its ends.                 *)
(***************************************************************************)
EXTENDS RagelMachine, Naturals, Sequences, TLC

\* The classes of bytes: "U" not ASCII, "ctl" every byte the machine never
\* takes, "b2" the byte 2, "!" the sub-delims without "+", and "_", "~",
\* "+-" the two bytes + and -, "34" and "6789" digits, "a-f" and "g-z"
\* letters of either case ("g-z" without the lower-case v).
LowDigit == {"0", "1", "2", "34"}
ToFive == LowDigit \union {"5"}
Digit == ToFive \union {"6789"}
Letter == {"a-f", "g-z", "v"}
HexDigit == Digit \union {"a-f"}
NameChar == Digit \union Letter \union {"!", "+-", "."}
PChar == NameChar \union {"U", ":", "@"}
Bytes == PChar \union {"ctl", "b2", "#", "%", "/", "?", "[", "]"}

uri_parser_start == 451
uri_parser_first_final == 451
uri_parser_error == 0

-----------------------------------------------------------------------------
\* Path, query and fragment.

\* "?" and "#" after a path whose text is not kept.
QueryOrFragment == Row({"?"}, 456) @@ Row({"#"}, 453)

Start ==
    451 :> (RowDo(Letter, 508, <<"mark">>) @@ Row(PChar \ {":"}, 452)
            @@ Row({"%"}, 3) @@ Row({"/"}, 458) @@ QueryOrFragment)
 @@ 452 :> (Row(PChar \ {":"}, 452) @@ Row({"%"}, 3) @@ Row({"/"}, 455) @@ QueryOrFragment)

Fragment ==
    453 :> (RowDo(PChar \union {"/", "?"}, 454, <<"mark">>)
            @@ RowDo({"%"}, 1, <<"mark">>))
 @@ 454 :> (Row(PChar \union {"/", "?"}, 454) @@ Row({"%"}, 1))
 @@ Pct(HexDigit, 1, 454) @@ Pct(HexDigit, 3, 452)

Segments ==
    455 :> (Row(PChar \union {"/"}, 455) @@ Row({"%"}, 5) @@ QueryOrFragment)
 @@ Pct(HexDigit, 5, 455)

Query ==
    456 :> (RowDo(PChar \union {"/", "?"}, 457, <<"mark">>)
            @@ RowDo({"%"}, 7, <<"mark">>)
            @@ RowDo({"#"}, 453, <<"mark", "save_query">>))
 @@ 457 :> (Row(PChar \union {"/", "?"}, 457) @@ Row({"%"}, 7)
            @@ RowDo({"#"}, 453, <<"save_query">>))
 @@ Pct(HexDigit, 7, 457)

Slash == 458 :> (Row({"/"}, 459) @@ Row(PChar, 455) @@ Row({"%"}, 5) @@ QueryOrFragment)

-----------------------------------------------------------------------------
\* Shapes of the authority.

\* What follows a component of the authority of a relative reference; acts
\* save the component.
EndRel(acts) == RowDo({"/"}, 455, acts) @@ RowDo({"?"}, 456, acts)
                @@ RowDo({"#"}, 453, acts)

\* The same with a scheme, where the path is kept: an empty path is saved at
\* once.
EndAbs(acts) == RowDo({"/"}, 513, acts)
                @@ RowDo({"?"}, 456, acts \o <<"save_path">>)
                @@ RowDo({"#"}, 453, acts \o <<"save_path">>)

RelHost == EndRel(<<"save_host">>)
\* Mutant: the path starts where the host did.
AbsHostUnmarked == EndAbs(<<"save_host">>)
AbsHost == EndAbs(<<"save_host", "mark">>)

\* The first byte of a component: the mark is set before the other actions.
Marked(row) == [c \in DOMAIN row |-> <<row[c][1], <<"mark">> \o row[c][2]>>]

\* The first byte of dec_octet.  "2 [0-4] digit" of the grammar has the
\* number 2 without quotes: its first byte is the byte 2.
First(b, z, o) == Row({"b2"}, b) @@ Row({"0"}, z) @@ Row({"1"}, o)
                  @@ Row({"2"}, o + 2) @@ Row({"34", "5", "6789"}, o + 1)
Bin(b, z) == b :> Row(LowDigit, b + 1) @@ (b + 1) :> Row(Digit, z)

\* The second and third digit of dec_octet; z is the state of a complete one
\* and `rest` what may follow it.
Octet(o, z, rest) ==
    o :> (Row(Digit, o + 1) @@ rest)
 @@ (o + 1) :> (Row(Digit, z) @@ rest)
 @@ (o + 2) :> (Row(Digit \ {"5"}, z) @@ Row({"5"}, o + 3) @@ rest)
 @@ (o + 3) :> (Row(ToFive, z) @@ rest)

\* IPv4address after its first byte, the byte 2: o2, o3, o4 are the states of
\* the octets with a digit first, out that of a complete address.
Quad(b, o2, o3, o4, out) ==
    Bin(b, b + 2) @@ (b + 2) :> Row({"."}, b + 3)
 @@ (b + 3) :> First(b + 4, b + 6, o2) @@ Bin(b + 4, b + 6)
 @@ (b + 6) :> Row({"."}, b + 7)
 @@ (b + 7) :> First(b + 8, b + 10, o3) @@ Bin(b + 8, b + 10)
 @@ (b + 10) :> Row({"."}, b + 11)
 @@ (b + 11) :> First(b + 12, out, o4) @@ Bin(b + 12, out)

\* A host that may be an IPv4address or a reg_name: z..z+5 are the dots and
\* the octets "0", `rest` is what reg_name does.
NameDots(z, b, rest) ==
    z :> (Row({"."}, z + 1) @@ rest)
 @@ (z + 1) :> (First(b, z + 2, z + 10) @@ rest)
 @@ (z + 2) :> (Row({"."}, z + 3) @@ rest)
 @@ (z + 3) :> (First(b + 4, z + 4, z + 6) @@ rest)
 @@ (z + 4) :> (Row({"."}, z + 5) @@ rest)
 @@ (z + 5) :> (Row({"b2"}, b + 8) @@ rest)

\* One of its octets; dot is the state after the "." that follows it.
NameOctet(o, z, dot, rest) == Octet(o, z, Row({"."}, dot) @@ rest)

-----------------------------------------------------------------------------
\* The authority of a relative reference.

RelName == Row(NameChar, 467) @@ Row({"%"}, 31) @@ RelHost
           @@ RowDo({":"}, 468, <<"save_host">>)
           @@ RowDo({"@"}, 469, <<"save_userinfo">>)
RelName2 == Row(NameChar, 470) @@ Row({"%"}, 36) @@ RelHost
            @@ RowDo({":"}, 461, <<"save_host">>)

RelAuthority ==
    459 :> Marked(First(9, 490, 504) @@ Row({"["}, 38) @@ RelName)

RelQuad ==
    Quad(9, 27, 23, 463, 460)

RelAfterIP ==
    460 :> (RelHost @@ RowDo({":"}, 461, <<"save_host">>))
 @@ 461 :> (EndRel(<<"mark", "save_port">>) @@ RowDo(Digit, 462, <<"mark">>))
 @@ 462 :> (EndRel(<<"save_port">>) @@ Row(Digit, 462))
 @@ Octet(463, 460, RelHost @@ RowDo({":"}, 461, <<"save_host">>))

RelQuadOctets == Octet(23, 19, Row({"."}, 20)) @@ Octet(27, 15, Row({"."}, 16))

\* A name that may still be userinfo, and what follows its ":".
RelUserinfo ==
    467 :> RelName @@ Pct(HexDigit, 31, 467)
 @@ 468 :> (EndRel(<<"mark", "save_port">>) @@ RowDo(Digit, 489, <<"mark">>)
            @@ Row(NameChar \union {":"}, 33) @@ Row({"%"}, 34)
            @@ RowDo({"@"}, 469, <<"save_userinfo">>))

RelUserinfo2 ==
    33 :> (Row(NameChar \union {":"}, 33) @@ Row({"%"}, 34)
           @@ RowDo({"@"}, 469, <<"save_userinfo">>))
 @@ Pct(HexDigit, 34, 33)
 @@ 469 :> Marked(First(9, 471, 485) @@ Row({"["}, 38) @@ RelName2)

RelRegName == 470 :> RelName2 @@ Pct(HexDigit, 36, 470)

RelHostDots == NameDots(471, 13, RelName2)
RelHostOctet4 == NameOctet(477, 475, 476, RelName2)
RelHostOctet3 == NameOctet(481, 473, 474, RelName2)
RelHostOctet2 == NameOctet(485, 471, 472, RelName2)

-----------------------------------------------------------------------------
\* IP_literal of a relative reference: "[" has been read.

Close == Row({"]"}, 460)
Colon(m) == Row({":"}, m)

\* The first byte of ls32 or of one more h16: an h16 and a dec_octet begin
\* alike, so the octets are followed beside the h16 (z: "0", o: "1", o+3:
\* "2", o+6: "3" to "9", a: a letter).
First6(z, o, a) == Row({"b2"}, 69) @@ Row({"0"}, z) @@ Row({"1"}, o)
                   @@ Row({"2"}, o + 3) @@ Row({"34", "5", "6789"}, o + 6)
                   @@ Row({"a-f"}, a)

\* The h16 that began with "0": its first state may still be the octet 0.
ZeroRun(z, end) == z :> (Row({"."}, 72) @@ Row(HexDigit, z + 1) @@ end)
                   @@ Hex4(HexDigit, z, end)

\* An h16 that is still a dec_octet: o..o+2 began with "1", o+3..o+5 with
\* "2", o+6 with another digit; a letter or a fourth digit leaves it an h16.
OctetRun(o, z, end) ==
    LET dot == Row({"."}, 72) @@ end IN
    o :> (Row(Digit, o + 1) @@ Row({"a-f"}, z + 1) @@ dot)
 @@ (o + 1) :> (Row(Digit, o + 2) @@ Row({"a-f"}, z + 2) @@ dot)
 @@ (o + 2) :> (Row(HexDigit, z + 3) @@ dot)
 @@ (o + 3) :> (Row({"5"}, o + 5) @@ Row(Digit, o + 4) @@ Row({"a-f"}, z + 1) @@ dot)
 @@ (o + 4) :> (Row(HexDigit, z + 2) @@ dot)
 @@ (o + 5) :> (Row(ToFive, o + 2) @@ Row({"6789", "a-f"}, z + 2) @@ dot)
 @@ (o + 6) :> (Row(Digit, o + 4) @@ Row({"a-f"}, z + 1) @@ dot)

\* Groups before a "::" has been seen: after group n a second ":" leads to
\* the part that reads the groups still owed.
V6Lead1 ==
    38 :> (Row(HexDigit, 39) @@ Colon(146) @@ Row({"v"}, 225))
 @@ Hex4(HexDigit, 39, Colon(43)) @@ 43 :> (Row(HexDigit, 44) @@ Colon(141))
 @@ Hex4(HexDigit, 44, Colon(48))
V6Lead2 ==
    48 :> (Row(HexDigit, 49) @@ Colon(136)) @@ Hex4(HexDigit, 49, Colon(53))
 @@ 53 :> (Row(HexDigit, 54) @@ Colon(131)) @@ Hex4(HexDigit, 54, Colon(58))
V6Lead3 ==
    58 :> (Row(HexDigit, 59) @@ Colon(126)) @@ Hex4(HexDigit, 59, Colon(63))
 @@ 63 :> (Row(HexDigit, 64) @@ Colon(113)) @@ Hex4(HexDigit, 64, Colon(68))

\* ls32, the last 32 bits.
V6Quad == 68 :> (First6(96, 104, 112) @@ Colon(111)) @@ Quad(69, 92, 88, 84, 83)
          @@ 83 :> Close
V6QuadOctets == Octet(84, 83, Close) @@ Octet(88, 79, Row({"."}, 80))
                @@ Octet(92, 75, Row({"."}, 76))
V6Low ==
    ZeroRun(96, Colon(100)) @@ 100 :> (Row(HexDigit, 101) @@ Colon(83))
 @@ [i \in 101..103 |-> Row(HexDigit, IF i = 103 THEN 83 ELSE i + 1) @@ Close]
V6LowOctets ==
    OctetRun(104, 96, Colon(100)) @@ 111 :> Row(HexDigit, 101)
 @@ 112 :> (Row(HexDigit, 97) @@ Colon(100))

\* After "::" with five groups before it; with four, three, two and one.
V6Five == 113 :> First6(114, 118, 125) @@ ZeroRun(114, Colon(111))
          @@ OctetRun(118, 114, Colon(111))
          @@ 125 :> (Row(HexDigit, 115) @@ Colon(111))
V6FourToOne == [i \in {126, 131, 136, 141} |-> Row(HexDigit, i + 1)]
               @@ Hex4(HexDigit, 127, Colon(113)) @@ Hex4(HexDigit, 132, Colon(126))
               @@ Hex4(HexDigit, 137, Colon(131)) @@ Hex4(HexDigit, 142, Colon(136))

\* After a leading "::": at most seven groups, any of which may be the last.
V6Any1 ==
    146 :> Colon(147) @@ 147 :> (First6(148, 217, 224) @@ Close)
 @@ ZeroRun(148, Colon(152) @@ Close)
V6Any2 ==
    152 :> First6(153, 209, 216) @@ ZeroRun(153, Colon(157) @@ Close)
V6Any3 ==
    157 :> First6(158, 201, 208) @@ ZeroRun(158, Colon(162) @@ Close)
 @@ 162 :> First6(163, 193, 200)
V6Any4 ==
    ZeroRun(163, Colon(167) @@ Close) @@ 167 :> First6(168, 185, 192)
 @@ ZeroRun(168, Colon(172) @@ Close)
V6Any5 ==
    172 :> First6(173, 177, 184) @@ ZeroRun(173, Colon(111) @@ Close)
\* The octets of group n after a leading "::".
V6AnyOctets(o, z, m) == OctetRun(o, z, Colon(m) @@ Close)
                        @@ (o + 7) :> (Row(HexDigit, z + 1) @@ Colon(m) @@ Close)
V6AnyOct5 == V6AnyOctets(177, 173, 111)
V6AnyOct4 == V6AnyOctets(185, 168, 172)
V6AnyOct3 == V6AnyOctets(193, 163, 167)
V6AnyOct2 == V6AnyOctets(201, 158, 162)
V6AnyOct1 == V6AnyOctets(209, 153, 157)
V6AnyOct0 == V6AnyOctets(217, 148, 152)

\* IPvFuture.
VFuture ==
    225 :> Row(HexDigit, 226) @@ 226 :> (Row({"."}, 227) @@ Row(HexDigit, 226))
 @@ 227 :> Row(NameChar \union {":"}, 228)
 @@ 228 :> (Row(NameChar \union {":"}, 228) @@ Close)

-----------------------------------------------------------------------------
\* Userinfo that may still be host and port, and the scheme.

\* Mutant: a port may have letters.
RelPortLetters == 489 :> (EndRel(<<"save_port">>) @@ Row(Digit \union Letter, 489)
                          @@ Row(NameChar \union {":"}, 33) @@ Row({"%"}, 34)
                          @@ RowDo({"@"}, 469, <<"save_userinfo">>))
RelPort == 489 :> (EndRel(<<"save_port">>) @@ Row(Digit, 489)
                   @@ Row(NameChar \union {":"}, 33) @@ Row({"%"}, 34)
                   @@ RowDo({"@"}, 469, <<"save_userinfo">>))
RelNameDots == NameDots(490, 13, RelName)
RelNameOctet4 == NameOctet(496, 494, 495, RelName)
RelNameOctet3 == NameOctet(500, 492, 493, RelName)
RelNameOctet2 == NameOctet(504, 490, 491, RelName)

Scheme ==
    508 :> (RowDo({":"}, 509, <<"save_scheme">>)
            @@ Row(Letter \union Digit \union {"+-", "."}, 508)
            @@ Row(PChar, 452) @@ Row({"%"}, 3) @@ Row({"/"}, 455) @@ QueryOrFragment)
 @@ 509 :> (Row({"/"}, 510) @@ Row(PChar, 455) @@ Row({"%"}, 5) @@ QueryOrFragment)
 @@ 510 :> (Row({"/"}, 511) @@ Row(PChar, 455) @@ Row({"%"}, 5) @@ QueryOrFragment)

-----------------------------------------------------------------------------
\* The authority of a URI with a scheme.

AbsName == Row(NameChar, 520) @@ Row({"%"}, 253) @@ AbsHost
           @@ RowDo({":"}, 521, <<"save_host">>)
           @@ RowDo({"@"}, 522, <<"save_userinfo">>)
AbsName2 == Row(NameChar, 523) @@ Row({"%"}, 258) @@ AbsHost
            @@ RowDo({":"}, 514, <<"save_host">>)

\* The first byte of the host, with the same two ends of an empty host.
AbsFirst(row, z, o) == Marked(First(229, z, o) @@ Row({"["}, 260))
                       @@ EndAbs(<<"mark", "save_host">>) @@ Marked(row)

AbsAuthority == 511 :> AbsFirst(AbsName, 543, 557)
AbsQuad == Quad(229, 249, 245, 516, 512)

AbsAfterIP ==
    512 :> (AbsHost @@ RowDo({":"}, 514, <<"save_host">>))
 @@ 513 :> (Row(PChar \union {"/"}, 513) @@ Row({"%"}, 243)
            @@ RowDo({"?"}, 456, <<"save_path">>) @@ RowDo({"#"}, 453, <<"save_path">>))
 @@ Pct(HexDigit, 243, 513)
 @@ 514 :> (EndAbs(<<"mark", "save_port">>) @@ RowDo(Digit, 515, <<"mark">>))

AbsPort ==
    515 :> (EndAbs(<<"save_port", "mark">>) @@ Row(Digit, 515))
 @@ Octet(516, 512, AbsHost @@ RowDo({":"}, 514, <<"save_host">>))
 @@ Octet(245, 239, Row({"."}, 240)) @@ Octet(249, 235, Row({"."}, 236))

AbsUserinfo ==
    520 :> AbsName @@ Pct(HexDigit, 253, 520)
 @@ 521 :> (EndAbs(<<"mark", "save_port">>) @@ RowDo(Digit, 542, <<"mark">>)
            @@ Row(NameChar \union {":"}, 255) @@ Row({"%"}, 256)
            @@ RowDo({"@"}, 522, <<"save_userinfo">>))

AbsUserinfo2 ==
    255 :> (Row(NameChar \union {":"}, 255) @@ Row({"%"}, 256)
            @@ RowDo({"@"}, 522, <<"save_userinfo">>))
 @@ Pct(HexDigit, 256, 255) @@ 522 :> AbsFirst(AbsName2, 524, 538)

AbsRegName == 523 :> AbsName2 @@ Pct(HexDigit, 258, 523)

AbsHostDots == NameDots(524, 233, AbsName2)
AbsHostOctet4 == NameOctet(530, 528, 529, AbsName2)
AbsHostOctet3 == NameOctet(534, 526, 527, AbsName2)
AbsHostOctet2 == NameOctet(538, 524, 525, AbsName2)

\* The IP_literal of a URI with a scheme is the code of states 38..228 again,
\* as states 260..450, and ends in 512.
Again(T) == [s \in {t + 222 : t \in DOMAIN T} |->
                [c \in DOMAIN T[s - 222] |->
                    LET m == T[s - 222][c][1]
                    IN  <<IF m = 460 THEN 512 ELSE m + 222, <<>>>>]]
AbsV6Lead1 == Again(V6Lead1)
AbsV6Lead2 == Again(V6Lead2)
AbsV6Lead3 == Again(V6Lead3)
AbsV6Quad == Again(V6Quad)
AbsV6QuadOctets == Again(V6QuadOctets)
AbsV6Low == Again(V6Low)
AbsV6LowOctets == Again(V6LowOctets)
AbsV6Five == Again(V6Five)
AbsV6FourToOne == Again(V6FourToOne)
AbsV6Any1 == Again(V6Any1)
AbsV6Any2 == Again(V6Any2)
AbsV6Any3 == Again(V6Any3)
AbsV6Any4 == Again(V6Any4)
AbsV6Any5 == Again(V6Any5)
AbsV6AnyOct5 == Again(V6AnyOct5)
AbsV6AnyOct4 == Again(V6AnyOct4)
AbsV6AnyOct3 == Again(V6AnyOct3)
AbsV6AnyOct2 == Again(V6AnyOct2)
AbsV6AnyOct1 == Again(V6AnyOct1)
AbsV6AnyOct0 == Again(V6AnyOct0)
AbsVFuture == Again(VFuture)

AbsPort2 == 542 :> (EndAbs(<<"save_port", "mark">>) @@ Row(Digit, 542)
                    @@ Row(NameChar \union {":"}, 255) @@ Row({"%"}, 256)
                    @@ RowDo({"@"}, 522, <<"save_userinfo">>))
AbsNameDots == NameDots(543, 233, AbsName)
AbsNameOctet4 == NameOctet(549, 547, 548, AbsName)
AbsNameOctet3 == NameOctet(553, 545, 546, AbsName)
AbsNameOctet2 == NameOctet(557, 543, 544, AbsName)

-----------------------------------------------------------------------------
\* The switch over all the states.
Table ==
    Start @@ Fragment @@ Segments @@ Query @@ Slash @@ RelAuthority @@
    RelQuad @@ RelAfterIP @@ RelQuadOctets @@ RelUserinfo @@ RelUserinfo2
    @@ RelRegName @@ RelHostDots @@ RelHostOctet4 @@ RelHostOctet3 @@
    RelHostOctet2 @@ V6Lead1 @@ V6Lead2 @@ V6Lead3 @@ V6Quad @@
    V6QuadOctets @@ V6Low @@ V6LowOctets @@ V6Five @@ V6FourToOne @@
    V6Any1 @@ V6Any2 @@ V6Any3 @@ V6Any4 @@ V6Any5 @@ V6AnyOct5 @@
    V6AnyOct4 @@ V6AnyOct3 @@ V6AnyOct2 @@ V6AnyOct1 @@ V6AnyOct0 @@
    VFuture @@ RelPort @@ RelNameDots @@ RelNameOctet4 @@ RelNameOctet3 @@
    RelNameOctet2 @@ Scheme @@ AbsAuthority @@ AbsQuad @@ AbsAfterIP @@
    AbsPort @@ AbsUserinfo @@ AbsUserinfo2 @@ AbsRegName @@ AbsHostDots @@
    AbsHostOctet4 @@ AbsHostOctet3 @@ AbsHostOctet2 @@ AbsV6Lead1 @@
    AbsV6Lead2 @@ AbsV6Lead3 @@ AbsV6Quad @@ AbsV6QuadOctets @@ AbsV6Low
    @@ AbsV6LowOctets @@ AbsV6Five @@ AbsV6FourToOne @@ AbsV6Any1 @@
    AbsV6Any2 @@ AbsV6Any3 @@ AbsV6Any4 @@ AbsV6Any5 @@ AbsV6AnyOct5 @@
    AbsV6AnyOct4 @@ AbsV6AnyOct3 @@ AbsV6AnyOct2 @@ AbsV6AnyOct1 @@
    AbsV6AnyOct0 @@ AbsVFuture @@ AbsPort2 @@ AbsNameDots @@ AbsNameOctet4
    @@ AbsNameOctet3 @@ AbsNameOctet2

-----------------------------------------------------------------------------
\* What the switch at the end of the input runs in each state; the states not
\* named here run nothing.

Do(S, acts) == [s \in S |-> acts]

EofRelative ==
    Do({462, 489}, <<"save_port">>)
 @@ Do((460..507) \ {461, 462, 468, 469, 489}, <<"save_host">>)
EofTails ==
    Do({513}, <<"save_path">>) @@ Do({457}, <<"save_query">>)
 @@ Do({454}, <<"save_fragment">>)
 @@ Do({456}, <<"mark", "save_query">>) @@ Do({453}, <<"mark", "save_fragment">>)
EofEmpty ==
    Do({461, 468}, <<"mark", "save_port">>) @@ Do({459, 469}, <<"mark", "save_host">>)
 @@ Do({514, 521}, <<"mark", "save_port", "save_path">>)
 @@ Do({511, 522}, <<"mark", "save_host", "save_path">>)
EofAbsolute ==
    Do({515, 542}, <<"save_port", "mark", "save_path">>)
 @@ Do({512} \union ((516..560) \ {521, 522, 542}), <<"save_host", "mark", "save_path">>)

Eof == EofRelative @@ EofTails @@ EofEmpty @@ EofAbsolute
       @@ Do({0} \union DOMAIN Table, <<>>)
=============================================================================
