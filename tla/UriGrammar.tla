----------------------------- MODULE UriGrammar -----------------------------
(***************************************************************************)
(* The grammar of uri.rl, the source of the machine in UriMachine, over    *)
(* the same classes of bytes and under the names of uri.rl.  The class     *)
(* NameChar is unreserved | sub_delims, PChar is pchar without pct_encoded.*)
(***************************************************************************)
EXTENDS Grammar, UriMachine

pct_encoded == <<Byte("%"), One(HexDigit), One(HexDigit)>>
scheme == <<One(Letter), Many(<<One(Letter \union Digit \union {"+-", "."})>>)>>

-----------------------------------------------------------------------------
\* Authority.

userinfo == <<Many(<<Choice({<<One(NameChar \union {":"})>>, pct_encoded})>>)>>

\* In "2 [0-4] digit" 2 is the byte 2, not the digit.
dec_octet == <<Choice({<<One(Digit)>>, <<One(Digit \ {"0"}), One(Digit)>>,
                       <<Byte("1"), One(Digit), One(Digit)>>,
                       <<Byte("b2"), One(LowDigit), One(Digit)>>,
                       <<Byte("2"), Byte("5"), One(ToFive)>>})>>
IPv4address == <<Rule("dec_octet")>> \o Times(3, <<Byte("."), Rule("dec_octet")>>)
h16 == <<Choice({Times(n, <<One(HexDigit)>>) : n \in 1..4})>>
ls32 == <<Choice({<<Rule("h16"), Byte(":"), Rule("h16")>>, <<Rule("IPv4address")>>})>>

\* (h16 ":"){n} and ((h16 ":"){n} h16)? "::".
Groups(n) == Times(n, <<Rule("h16"), Byte(":")>>)
Elided(n) == <<Maybe(Groups(n) \o <<Rule("h16")>>), Byte(":"), Byte(":")>>
IPv6address ==
    <<Choice({Groups(6) \o <<Rule("ls32")>>,
              <<Byte(":"), Byte(":")>> \o Groups(5) \o <<Rule("ls32")>>,
              Elided(0) \o Groups(4) \o <<Rule("ls32")>>,
              Elided(1) \o Groups(3) \o <<Rule("ls32")>>,
              Elided(2) \o Groups(2) \o <<Rule("ls32")>>,
              Elided(3) \o Groups(1) \o <<Rule("ls32")>>,
              Elided(4) \o <<Rule("ls32")>>,
              Elided(5) \o <<Rule("h16")>>,
              Elided(6)})>>
IPvFuture == <<Byte("v")>> \o Some(<<One(HexDigit)>>) \o <<Byte(".")>>
             \o Some(<<One(NameChar \union {":"})>>)
IP_literal == <<Byte("["), Choice({<<Rule("IPv6address")>>, <<Rule("IPvFuture")>>}), Byte("]")>>
reg_name == <<Many(<<Choice({<<One(NameChar)>>, pct_encoded})>>)>>
host == <<Choice({<<Rule("IP_literal")>>, <<Rule("IPv4address")>>, <<Rule("reg_name")>>})>>
port == <<Many(<<One(Digit)>>)>>
authority == <<Maybe(<<Rule("userinfo"), Byte("@")>>), Rule("host"),
               Maybe(<<Byte(":"), Rule("port")>>)>>

-----------------------------------------------------------------------------
\* Path, query and fragment.

pchar == <<Choice({<<One(PChar)>>, pct_encoded})>>
segment == <<Many(<<Rule("pchar")>>)>>
segment_nz == Some(<<Rule("pchar")>>)
segment_nz_nc == Some(<<Choice({<<One(PChar \ {":"})>>, pct_encoded})>>)

path_abempty == <<Many(<<Byte("/"), Rule("segment")>>)>>
path_absolute == <<Byte("/"), Maybe(<<Rule("segment_nz"), Rule("path_abempty")>>)>>
path_noscheme == <<Rule("segment_nz_nc"), Rule("path_abempty")>>
path_rootless == <<Rule("segment_nz"), Rule("path_abempty")>>

query == <<Many(<<Choice({<<Rule("pchar")>>, <<One({"/", "?"})>>})>>)>>
fragment == query

net_path == <<Byte("/"), Byte("/"), Rule("authority"), Rule("path_abempty")>>
hier_part == <<Choice({net_path, path_absolute, path_rootless, <<>>})>>
relative_part == <<Choice({net_path, path_absolute, path_noscheme, <<>>})>>
Rest == <<Maybe(<<Byte("?"), Rule("query")>>), Maybe(<<Byte("#"), Rule("fragment")>>)>>
relative_ref == <<Rule("relative_part"), Rule("rest")>>
URI == <<Rule("scheme"), Byte(":"), Rule("hier_part"), Rule("rest")>>
URI_reference == <<Choice({URI, relative_ref})>>

Rules == [scheme |-> scheme, userinfo |-> userinfo, dec_octet |-> dec_octet,
          IPv4address |-> IPv4address, h16 |-> h16, ls32 |-> ls32,
          IPv6address |-> IPv6address, IPvFuture |-> IPvFuture,
          IP_literal |-> IP_literal, reg_name |-> reg_name, host |-> host,
          port |-> port, authority |-> authority, pchar |-> pchar,
          segment |-> segment, segment_nz |-> segment_nz,
          segment_nz_nc |-> segment_nz_nc, path_abempty |-> path_abempty,
          query |-> query, fragment |-> fragment, hier_part |-> hier_part,
          relative_part |-> relative_part, rest |-> Rest]
=============================================================================
