-------------------------- MODULE ResponseMachine ---------------------------
(***************************************************************************)
(* The state machine of httpclient_parser_execute as Ragel generated it:   *)
(* httpclient_parser.rl.cc, its 123 `case` blocks.  The states keep the    *)
(* numbers of the generated code.                                          *)
(***************************************************************************)
EXTENDS RagelMachine, Naturals, Sequences, TLC

\* The classes of bytes: "other" the bytes that are neither a token character nor
\* named here, "WS" tab, vertical tab and form feed, "0" the digits, "!" the
\* token characters that no rule names, a capital letter for both cases of a
\* letter, except "H", "T" (capital) and "h", "t", and "P" (capital only).
HexDigit == {"0", "A", "B", "C", "D", "E", "F"}
Token == HexDigit \union {"!", "-", ".", "G", "H", "I", "K", "L", "N", "O", "P",
                          "R", "S", "T", "U", "h", "t"}
Blank == {"WS", "SP"}
Bytes == Token \union Blank \union {"other", "LF", "CR", "/", ":", ";", "="}
Text == Bytes \ {"LF", "CR"}

httpclient_parser_start == 1
httpclient_parser_first_final == 120
httpclient_parser_error == 0

\* A line ending after which the machine is in the state lf, or cr after a CR.
Eol(lf, cr, acts) == RowDo({"LF"}, lf, acts) @@ RowDo({"CR"}, cr, acts)

-----------------------------------------------------------------------------
\* The header of a chunk.

ChunkEnd(acts) == RowDo({"LF"}, 120, acts \o <<"done">>) @@ RowDo({"CR"}, 3, acts)
                  @@ RowDo({";"}, 4, acts)
ChunkSize ==
    1 :> (RowDo(HexDigit, 2, <<"mark">>) @@ RowDo({"H"}, 8, <<"mark">>))
 @@ 2 :> (ChunkEnd(<<"chunk_size">>) @@ Row(HexDigit, 2))
ChunkDone == 120 :> Row({}, 0) @@ 3 :> RowDo({"LF"}, 120, <<"done">>)

ChunkName ==
    4 :> RowDo(Token, 5, <<"start_field">>)
 @@ 5 :> (ChunkEnd(<<"write_field", "start_value", "write_value">>) @@ Row(Token, 5)
          @@ RowDo({"="}, 6, <<"write_field", "start_value">>))
\* Mutant: the value of an extension has no start of its own.
ChunkValueUnmarked ==
    6 :> Row(Token, 7)
 @@ 7 :> (ChunkEnd(<<"write_value">>) @@ Row(Token, 7))
ChunkValue ==
    6 :> RowDo(Token, 7, <<"start_value">>)
 @@ 7 :> (ChunkEnd(<<"write_value">>) @@ Row(Token, 7))

-----------------------------------------------------------------------------
\* The status line.

\* Mutant: the version has one digit before its dot.
StatusLineOneDigit ==
    8 :> Row({"T"}, 9) @@ 9 :> Row({"T"}, 10) @@ 10 :> Row({"P"}, 11)
 @@ 11 :> Row({"/"}, 12) @@ 12 :> Row({"0"}, 13)
 @@ 13 :> Row({"."}, 14) @@ 14 :> Row({"0"}, 15)
 @@ 15 :> (Row({"0"}, 15) @@ RowDo({"SP"}, 16, <<"http_version">>))
 @@ 16 :> RowDo({"0"}, 17, <<"mark">>)
 @@ 17 :> (Row({"0"}, 17) @@ RowDo({"SP"}, 18, <<"status_code">>))
StatusLine ==
    8 :> Row({"T"}, 9) @@ 9 :> Row({"T"}, 10) @@ 10 :> Row({"P"}, 11)
 @@ 11 :> Row({"/"}, 12) @@ 12 :> Row({"0"}, 13)
 @@ 13 :> (Row({"0"}, 13) @@ Row({"."}, 14)) @@ 14 :> Row({"0"}, 15)
 @@ 15 :> (Row({"0"}, 15) @@ RowDo({"SP"}, 16, <<"http_version">>))
 @@ 16 :> RowDo({"0"}, 17, <<"mark">>)
 @@ 17 :> (Row({"0"}, 17) @@ RowDo({"SP"}, 18, <<"status_code">>))
Reason ==
    18 :> RowDo(Bytes \ {"LF"}, 19, <<"mark">>)
 @@ 19 :> (Row(Text, 19) @@ Eol(20, 24, <<"reason_phrase">>))

-----------------------------------------------------------------------------
\* Header fields.  A name goes along the names the machine knows as far as it
\* agrees with them, and falls back to the states 21 and 22 of any field.

\* The first byte of a line after the status line; c is the state after "c".
FieldStart(acts, c) == RowDo({"LF"}, 120, acts \o <<"done">>) @@ RowDo({"CR"}, 3, acts)
                       @@ RowDo({"C"}, c, acts \o <<"start_field">>)
                       @@ RowDo({"T", "t"}, 44, acts \o <<"start_field">>)
                       @@ RowDo(Token, 21, acts \o <<"start_field">>)

AnyName == Row(Token, 21) @@ RowDo({":"}, 22, <<"write_field">>)
AnyValue == Row(Text, 23) @@ Eol(20, 24, <<"write_value">>)

\* The states from s on expect the letters of word, one each.
Spell(s, word, else) == [i \in s..(s + Len(word) - 1) |->
                            Row(word[i - s + 1], i + 1) @@ else]

Field ==
    20 :> FieldStart(<<>>, 25) @@ 21 :> AnyName
FieldText ==
    22 :> (RowDo(Blank, 22, <<"start_value">>) @@ RowDo(Text, 23, <<"start_value">>)
           @@ Eol(20, 24, <<"start_value", "write_value">>))
 @@ 23 :> AnyValue @@ 24 :> Row({"LF"}, 20)

\* "connection" and, from state 27, "content-length".
Connection1 == Spell(25, <<{"O"}, {"N"}>>, AnyName)
               @@ 27 :> (Row({"N"}, 28) @@ Row({"T", "t"}, 101) @@ AnyName)
               @@ Spell(28, <<{"E"}>>, AnyName)
Connection2 == Spell(29, <<{"C"}, {"T", "t"}, {"I"}, {"O"}>>, AnyName)
Connection3 ==
    Spell(33, <<{"N"}>>, AnyName)
 @@ 34 :> (RowDo({":"}, 35, <<"write_field">>) @@ AnyName)

\* Its value: "close", or any other text.  A line ending may come before
\* "close" (`space*` takes line endings too), so an empty value is followed
\* by a state that is both a new header line and still that value.
ConnectionValue ==
    35 :> (RowDo(Blank, 35, <<"start_value">>) @@ RowDo({"C"}, 96, <<"start_value">>)
           @@ Eol(36, 95, <<"start_value", "write_value">>)
           @@ RowDo(Text, 23, <<"start_value">>))
 @@ 36 :> (Row(Blank, 37) @@ RowDo({"LF"}, 122, <<"done">>) @@ Row({"CR"}, 89)
           @@ FieldStart(<<>>, 90))
 @@ 37 :> (Row(Blank \union {"CR", "LF"}, 37) @@ Row({"C"}, 38))
Close ==
    Spell(38, <<{"L"}, {"O"}, {"S"}, {"E"}>>, Row({}, 0))
 @@ 42 :> (Row({"LF"}, 43) @@ Row({"CR"}, 88))
 @@ 43 :> FieldStart(<<"write_connection_close">>, 25)

\* "transfer-encoding".
Transfer1 == Spell(44, <<{"R"}, {"A"}, {"N"}, {"S"}>>, AnyName)
Transfer2 == Spell(48, <<{"F"}, {"E"}, {"R"}, {"-"}>>, AnyName)
Transfer3 == Spell(52, <<{"E"}, {"N"}, {"C"}, {"O"}>>, AnyName)
Transfer4 == Spell(56, <<{"D"}, {"I"}, {"N"}, {"G"}>>, AnyName)
TransferValue ==
    60 :> (RowDo({":"}, 61, <<"write_field">>) @@ AnyName)
 @@ 61 :> (RowDo(Blank, 61, <<"start_value">>) @@ RowDo({"C"}, 81, <<"start_value">>)
           @@ Eol(62, 80, <<"start_value", "write_value">>)
           @@ RowDo(Text, 23, <<"start_value">>))
 @@ 62 :> (Row(Blank, 63) @@ RowDo({"LF"}, 121, <<"done">>) @@ Row({"CR"}, 72)
           @@ RowDo({"C"}, 73, <<"start_value", "start_field">>) @@ FieldStart(<<>>, 73))
 @@ 63 :> (Row(Blank \union {"CR", "LF"}, 63) @@ RowDo({"C"}, 64, <<"start_value">>))
Chunked ==
    Spell(64, <<{"H", "h"}, {"U"}, {"N"}, {"K"}, {"E"}, {"D"}>>, Row({}, 0))
 @@ 70 :> (RowDo({"LF"}, 20, <<"write_value", "trans_chunked">>)
           @@ RowDo({"CR"}, 71, <<"write_value">>))
 @@ 71 :> RowDo({"LF"}, 20, <<"trans_chunked">>)
 @@ 121 :> (Row(Blank \union {"CR", "LF"}, 63) @@ RowDo({"C"}, 64, <<"start_value">>))
 @@ 72 :> (Row(Blank \union {"CR"}, 63) @@ RowDo({"LF"}, 121, <<"done">>)
           @@ RowDo({"C"}, 64, <<"start_value">>))

\* The line after an empty "transfer-encoding" begins with "c": "chunked" as
\* its value, or the name of the next field.
ChunkedName1 ==
    73 :> (Row({"H", "h"}, 74) @@ Row({"O"}, 26) @@ AnyName)
 @@ Spell(74, <<{"U"}, {"N"}, {"K"}>>, AnyName)
ChunkedName2 ==
    Spell(77, <<{"E"}, {"D"}>>, AnyName)
 @@ 79 :> (RowDo({"LF"}, 20, <<"write_value", "trans_chunked">>)
           @@ RowDo({"CR"}, 71, <<"write_value">>) @@ AnyName)
ChunkedValue ==
    80 :> (Row(Blank \union {"CR"}, 63) @@ Row({"LF"}, 62) @@ RowDo({"C"}, 64, <<"start_value">>))
 @@ Spell(81, <<{"H", "h"}, {"U"}, {"N"}, {"K"}, {"E"}, {"D"}>>, AnyValue)
 @@ 87 :> (RowDo({"LF"}, 20, <<"write_value", "trans_chunked">>)
           @@ RowDo({"CR"}, 71, <<"write_value">>) @@ AnyValue)
 @@ 88 :> Row({"LF"}, 43)

\* The same for "connection" and "close".
CloseEmpty ==
    122 :> (Row(Blank \union {"CR", "LF"}, 37) @@ Row({"C"}, 38))
 @@ 89 :> (Row(Blank \union {"CR"}, 37) @@ RowDo({"LF"}, 122, <<"done">>) @@ Row({"C"}, 38))
 @@ 90 :> (Row({"L"}, 91) @@ Row({"O"}, 26) @@ AnyName)
 @@ Spell(91, <<{"O"}>>, AnyName)
CloseName ==
    Spell(92, <<{"S"}, {"E"}>>, AnyName)
 @@ 94 :> (Row({"LF"}, 43) @@ Row({"CR"}, 88) @@ AnyName)
CloseValue ==
    95 :> (Row(Blank \union {"CR"}, 37) @@ Row({"LF"}, 36) @@ Row({"C"}, 38))
 @@ Spell(96, <<{"L"}, {"O"}, {"S"}, {"E"}>>, AnyValue)
 @@ 100 :> (Eol(43, 88, <<"write_value">>) @@ AnyValue)

\* "content-length".
Length1 == Spell(101, <<{"E"}, {"N"}, {"T", "t"}, {"-"}>>, AnyName)
Length2 == Spell(105, <<{"L"}, {"E"}, {"N"}, {"G"}>>, AnyName)
Length3 == Spell(109, <<{"T", "t"}, {"H", "h"}>>, AnyName)
           @@ 111 :> (RowDo({":"}, 112, <<"write_field">>) @@ AnyName)
LengthEnd == Eol(20, 24, <<"write_content_len", "write_value">>)
LengthValue ==
    112 :> (RowDo(Blank, 112, <<"start_value">>) @@ RowDo({"0"}, 119, <<"start_value">>)
            @@ Eol(113, 118, <<"start_value", "write_value">>)
            @@ RowDo(Text, 23, <<"start_value">>))
 @@ 113 :> (Row(Blank, 114) @@ RowDo({"LF"}, 123, <<"done">>) @@ Row({"CR"}, 116)
            @@ RowDo({"0"}, 117, <<"start_value", "start_field">>) @@ FieldStart(<<>>, 25))
 @@ 114 :> (Row(Blank \union {"CR", "LF"}, 114) @@ RowDo({"0"}, 115, <<"start_value">>))
 @@ 115 :> (LengthEnd @@ Row({"0"}, 115))
LengthEmpty ==
    123 :> (Row(Blank \union {"CR", "LF"}, 114) @@ RowDo({"0"}, 115, <<"start_value">>))
 @@ 116 :> (Row(Blank \union {"CR"}, 114) @@ RowDo({"LF"}, 123, <<"done">>)
            @@ RowDo({"0"}, 115, <<"start_value">>))
 @@ 117 :> (LengthEnd @@ Row({"0"}, 117) @@ AnyName)
LengthDigits ==
    118 :> (Row(Blank \union {"CR"}, 114) @@ Row({"LF"}, 113) @@ RowDo({"0"}, 115, <<"start_value">>))
 @@ 119 :> (LengthEnd @@ Row({"0"}, 119) @@ AnyValue)

-----------------------------------------------------------------------------
\* The switch over all the states.
Table ==
    ChunkSize @@ ChunkDone @@ ChunkName @@ ChunkValue @@ StatusLine @@
    Reason @@ Field @@ FieldText @@ Connection1 @@ Connection2 @@
    Connection3 @@ ConnectionValue @@ Close @@ Transfer1 @@ Transfer2 @@
    Transfer3 @@ Transfer4 @@ TransferValue @@ Chunked @@ ChunkedName1 @@
    ChunkedName2 @@ ChunkedValue @@ CloseEmpty @@ CloseName @@ CloseValue
    @@ Length1 @@ Length2 @@ Length3 @@ LengthValue @@ LengthEmpty @@
    LengthDigits
=============================================================================
