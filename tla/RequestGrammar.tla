--------------------------- MODULE RequestGrammar ---------------------------
(***************************************************************************)
(* The grammar of http11_parser.rl, the source of the machine in           *)
(* RequestMachine, under its names.  The rules of a URI depend on          *)
(* parser->uri_relaxed, which adds { } ^ to the delimiters; r is its value.*)
(***************************************************************************)
EXTENDS Grammar, RequestMachine

CRLF == <<Maybe(<<Byte("CR")>>), Byte("LF")>>
pct_encoded == <<Byte("%"), One(HexDigit), One(HexDigit)>>

\* more_delims, and unreserved | sub_delims.
more_delims(r) == IF r THEN {"{", "}", "^"} ELSE {}
Name(r) == (NameChar \ {"more"}) \union more_delims(r)

pchar(r) == <<Choice({<<One(Name(r) \union {"U", ":", "@"})>>, pct_encoded})>>
fragment(r) == <<Many(<<Choice({pchar(r), <<One({"/", "?"})>>})>>)>>
query(r) == fragment(r)
segment_nz_nc(r) == Some(<<Choice({<<One(Name(r) \union {"@"})>>, pct_encoded})>>)
path_abempty(r) == <<Many(<<Byte("/"), Many(pchar(r))>>)>>
path_rootless(r) == Some(pchar(r)) \o path_abempty(r)
path_noscheme(r) == segment_nz_nc(r) \o path_abempty(r)
path_absolute(r) == <<Byte("/"), Maybe(Some(pchar(r)) \o path_abempty(r))>>
reg_name(r) == <<Many(<<Choice({<<One(Name(r))>>, pct_encoded})>>)>>

\* ("1"-"9") is the set {"1"} without "9", not a range; ("0"-"4") and
\* ("0"-"5") are {"0"}.
dec_octet == <<Choice({<<One(Digit)>>, <<One({"1"} \ {"9"}), One(Digit)>>,
                       <<Byte("1"), One(Digit), One(Digit)>>,
                       <<Byte("2"), One({"0"} \ {"4"}), One(Digit)>>,
                       <<Byte("2"), Byte("5"), One({"0"} \ {"5"})>>})>>
IPv4address == <<Rule("dec_octet")>> \o Times(3, <<Byte("."), Rule("dec_octet")>>)
h16 == <<Choice({Times(n, <<One(HexDigit)>>) : n \in 1..4})>>
ls32 == <<Choice({<<Rule("h16"), Byte(":"), Rule("h16")>>, <<Rule("IPv4address")>>})>>

\* In "6( h16 ":" )" 6 is the byte 6; ( ( h16 ":" ){n,} h16 )? "::" has at
\* least n groups before the last.
Group == <<Rule("h16"), Byte(":")>>
Elided(n) == <<Maybe(Times(n, Group) \o <<Many(Group), Rule("h16")>>),
               Byte(":"), Byte(":")>>
IPv6address ==
    <<Choice({<<Byte("b6")>> \o Group \o <<Rule("ls32")>>,
              <<Byte(":"), Byte(":"), Byte("b5")>> \o Group \o <<Rule("ls32")>>,
              <<Maybe(<<Rule("h16")>>), Byte(":"), Byte(":"), Byte("b4")>>
                  \o Group \o <<Rule("ls32")>>,
              Elided(1) \o <<Byte("b3")>> \o Group \o <<Rule("ls32")>>,
              Elided(2) \o <<Byte("b2")>> \o Group \o <<Rule("ls32")>>,
              Elided(3) \o Group \o <<Rule("ls32")>>,
              Elided(4) \o <<Rule("ls32")>>,
              Elided(5) \o <<Rule("h16")>>,
              Elided(6)})>>
IPvFuture(r) == <<Byte("v")>> \o Some(<<One(HexDigit)>>) \o <<Byte(".")>>
                \o Some(<<One(Name(r) \union {":"})>>)
IP_literal(r) == <<Byte("["), Choice({<<Rule("IPv6address")>>, IPvFuture(r)}), Byte("]")>>
host(r) == <<Choice({IP_literal(r), <<Rule("IPv4address")>>, reg_name(r)})>>
userinfo(r) == <<Many(<<Choice({<<One(Name(r) \union {":"})>>, pct_encoded})>>)>>
authority(r) == <<Maybe(userinfo(r) \o <<Byte("@")>>), Rule("host"),
                  Maybe(<<Byte(":"), Many(<<One(Digit)>>)>>)>>

scheme == <<One(Letter), Many(<<One(Letter \union Digit \union {"+", "-", "."})>>)>>
net_path(r) == <<Byte("/"), Byte("/"), Rule("authority")>> \o path_abempty(r)
relative_part(r) == <<Choice({net_path(r), path_absolute(r), path_noscheme(r), <<>>})>>
hier_part(r) == <<Choice({net_path(r), path_absolute(r), path_rootless(r), <<>>})>>
Tails(r) == <<Maybe(<<Byte("?")>> \o query(r)), Maybe(<<Byte("#")>> \o fragment(r))>>
relative_ref(r) == relative_part(r) \o Tails(r)
URI(r) == scheme \o <<Byte(":")>> \o hier_part(r) \o Tails(r)
URI_reference(r) == <<Choice({URI(r), relative_ref(r)})>>

-----------------------------------------------------------------------------
\* Request line, header fields, and the two forms of a socket message.

Method == <<Choice({Times(n, <<One(Upper \union Digit)>>) : n \in 1..20})>>
HTTP_Version == <<Byte("H"), Byte("T"), Byte("T"), Byte("P"), Byte("/"), Byte("1"),
                  Byte("."), One({"0", "1"})>>
Request_Line(r) == <<Rule("Method"), Byte("SP"), Rule("URI_reference"), Byte("SP")>>
                   \o HTTP_Version \o CRLF

\* (0 - 31) is {0} without 31, so HTTP_CTL is {0, 127}.  `:> CRLF` gives CR
\* and LF after the colon to the line ending, so lws and content have neither.
HTTP_CTL == {"NUL", "DEL"}
HTTP_separator == {"(", "<", ">", "@", ":", "'", "/", "[", "]", "?", "{", "}", "SP", "TAB"}
token == Bytes \ (HTTP_CTL \union HTTP_separator \union {"U"})
content == Bytes \ (HTTP_CTL \union {"CR", "LF"})
message_header == Some(<<One(token)>>) \o <<Byte(":"), Many(<<One(content)>>)>> \o CRLF
Request(r) == Request_Line(r) \o <<Many(<<Rule("message_header")>>)>> \o CRLF

SocketJSON(r) == <<Byte("@")>> \o relative_part(r)
                 \o <<Byte("SP"), Byte("{"), Many(<<One(Bytes)>>), Byte("}"), Byte("NUL")>>
SocketXML == <<Byte("<")>> \o Some(<<One(Letter \union Digit \union {"-", "."})>>)
             \o <<One({"/", ">", "SP", "TAB", "CR", "LF", "VT"}), Many(<<One(Bytes)>>),
                  Byte(">"), Byte("NUL")>>
main(r) == <<Choice({Request(r), SocketXML, SocketJSON(r)})>>

Rules(r) == [dec_octet |-> dec_octet, IPv4address |-> IPv4address, h16 |-> h16,
             ls32 |-> ls32, IPv6address |-> IPv6address, host |-> host(r),
             authority |-> authority(r), Method |-> Method,
             URI_reference |-> URI_reference(r), message_header |-> message_header]
=============================================================================
