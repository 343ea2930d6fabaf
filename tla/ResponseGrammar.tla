-------------------------- MODULE ResponseGrammar ---------------------------
(***************************************************************************)
(* The grammar of httpclient_parser.rl, the source of the machine in       *)
(* ResponseMachine, under its names.                                       *)
(***************************************************************************)
EXTENDS Grammar, ResponseMachine

CRLF == <<Maybe(<<Byte("CR")>>), Byte("LF")>>
space == {"WS", "SP", "CR", "LF"}

\* A word of either case, given by the classes of its letters.
Word(classes) == [i \in 1..Len(classes) |-> One(classes[i])]
Both(c) == IF c \in {"H", "T"} THEN {c, IF c = "H" THEN "h" ELSE "t"} ELSE {c}
AnyCase(letters) == Word([i \in 1..Len(letters) |-> Both(letters[i])])

\* `:> CRLF` gives CR, once the phrase has a byte, and LF to the line ending.
Reason_Phrase == <<One(Bytes \ {"LF"}), Many(<<One(Text)>>)>>
Status_Code == Some(<<Byte("0")>>)
http_number == Some(<<Byte("0")>>) \o <<Byte(".")>> \o Some(<<Byte("0")>>)
HTTP_Version == <<Byte("H"), Byte("T"), Byte("T"), Byte("P"), Byte("/")>> \o http_number
Status_Line == HTTP_Version \o <<Byte("SP")>> \o Status_Code \o <<Byte("SP")>>
               \o Reason_Phrase \o CRLF

field_name == Some(<<One(Token)>>)
fields == field_name \o <<Byte(":"), Many(<<One(Text)>>)>> \o CRLF
content_length ==
    AnyCase(<<"C", "O", "N", "T", "E", "N", "T", "-", "L", "E", "N", "G", "T", "H">>)
    \o <<Byte(":"), Many(<<One(space)>>)>> \o Some(<<Byte("0")>>) \o CRLF
conn_close ==
    AnyCase(<<"C", "O", "N", "N", "E", "C", "T", "I", "O", "N">>)
    \o <<Byte(":"), Many(<<One(space)>>)>> \o AnyCase(<<"C", "L", "O", "S", "E">>) \o CRLF
transfer_encoding_chunked ==
    AnyCase(<<"T", "R", "A", "N", "S", "F", "E", "R", "-",
              "E", "N", "C", "O", "D", "I", "N", "G">>)
    \o <<Byte(":"), Many(<<One(space)>>)>>
    \o AnyCase(<<"C", "H", "U", "N", "K", "E", "D">>) \o CRLF
message_header == <<Choice({transfer_encoding_chunked, conn_close, content_length, fields})>>
Response == Status_Line \o <<Many(<<Rule("message_header")>>)>> \o CRLF

chunk_extension == <<Many(<<Byte(";")>> \o Some(<<One(Token)>>)
                          \o <<Maybe(<<Byte("=")>> \o Some(<<One(Token)>>))>>)>>
Chunked_Header == Some(<<One(HexDigit)>>) \o chunk_extension \o CRLF
main == <<Choice({Response, Chunked_Header})>>

Rules == [message_header |-> message_header, main |-> main]
=============================================================================
