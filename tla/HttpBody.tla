------------------------------ MODULE HttpBody ------------------------------
(***************************************************************************)
(* How a message and its body are read from a connection:                  *)
(* HttpConnection::recvResponse, and HttpSession::recvRequest for messages *)
(* that are not chunked.  The peer sends one message; read() returns any   *)
(* number of bytes that have arrived, or fails.                            *)
(*                                                                         *)
(* A byte is <<kind, value>>: of the header, its last one, a hexadecimal   *)
(* digit of the size of a chunk, CR, LF, or the n-th byte of the body.     *)
(* What the parsers do with the bytes of a header is ResponseParser and    *)
(* RequestParser; here they only find its end.                             *)
(***************************************************************************)
EXTENDS Naturals, Sequences

CONSTANTS
  Messages,     \* records [head, chunks, length]: the sizes of the parts;
                \* chunks is <<>> for a message with a Content-Length
  BuffSize      \* GetHttpRequestBufferSize()

VARIABLES
  message,      \* what the peer sends
  wire,         \* the part of it that was not read yet
  buffer,       \* data[0 .. len) of the code
  phase,        \* the place in the function
  begin,        \* the flag of the loop over the header of a chunk
  content_len, chunks_done,     \* of httpclient_parser
  left,         \* what a loop still has to read
  received,     \* the body
  split,        \* the header of a chunk was parsed in two pieces
  outcome       \* what the function returned

bodyVars == <<message, wire, buffer, phase, begin, content_len, chunks_done, left,
              received, split, outcome>>

-----------------------------------------------------------------------------
(* The text of a message. *)

Part(from, to) == [i \in 1..(to - from + 1) |-> <<"byte", from + i - 1>>]
Hex(v) == IF v < 16 THEN <<<<"hex", v>>>> ELSE <<<<"hex", v \div 16>>, <<"hex", v % 16>>>>
Eol == <<<<"CR", 0>>, <<"LF", 0>>>>

\* The chunks, of which the first begins with byte `from` of the body.
RECURSIVE ChunkText(_, _)
ChunkText(sizes, from) ==
  IF sizes = <<>> THEN Hex(0) \o Eol \o Eol
  ELSE Hex(Head(sizes)) \o Eol \o Part(from, from + Head(sizes) - 1) \o Eol
       \o ChunkText(Tail(sizes), from + Head(sizes))

Text(m) == [i \in 1..m.head |-> IF i < m.head THEN <<"head", 0>> ELSE <<"end", 0>>]
           \o IF m.chunks = <<>> THEN Part(1, m.length) ELSE ChunkText(m.chunks, 1)

Init ==
  /\ message \in Messages
  /\ wire = Text(message)
  /\ buffer = <<>>
  /\ phase = "head"
  /\ begin = TRUE
  /\ content_len = 0 /\ chunks_done = FALSE
  /\ left = 0
  /\ received = <<>>
  /\ split = FALSE
  /\ outcome = "-"

-----------------------------------------------------------------------------
\* What read() may return when it is asked for at most n bytes.
Reads(n) == 1..(IF n < Len(wire) THEN n ELSE Len(wire))
First(n) == SubSeq(wire, 1, n)
Rest(text, n) == SubSeq(text, n + 1, Len(text))

Return(value) == outcome' = value /\ phase' = "returned"
Close == Return("refused") /\ UNCHANGED <<buffer, begin, content_len, chunks_done, split>>

\* read() returns 0 or -1: the connection is closed.
ReadFails ==
  /\ phase \in {"head", "chunk", "rest", "fixed"}
  /\ phase = "chunk" => ~begin \/ buffer = <<>>
  /\ Return("lost")
  /\ UNCHANGED <<message, wire, buffer, begin, content_len, chunks_done, left, received, split>>

\* The loop over the header: the parser takes all bytes up to its end.  It leaves
\* none of a header that goes on, so that the buffer is never full before read()
\* and the test offset == buff_size never refuses a message.
ReadHead ==
  /\ phase = "head"
  /\ \E n \in Reads(BuffSize - Len(buffer)) :
       LET text == buffer \o First(n)
           ends == {i \in 1..Len(text) : text[i][1] = "end"} IN
       /\ wire' = Rest(wire, n)
       /\ IF ends = {} THEN buffer' = <<>> /\ UNCHANGED phase
          ELSE /\ buffer' = Rest(text, CHOOSE i \in ends : TRUE)
               /\ phase' = IF message.chunks = <<>> THEN "length" ELSE "chunk"
  /\ UNCHANGED <<message, begin, content_len, chunks_done, left, received, split, outcome>>

-----------------------------------------------------------------------------
(* A body with a Content-Length. *)

TakeLength ==
  /\ phase = "length"
  /\ received' = SubSeq(buffer, 1, IF message.length >= Len(buffer) THEN Len(buffer) ELSE message.length)
  /\ IF message.length > Len(buffer)
     THEN left' = message.length - Len(buffer) /\ phase' = "fixed" /\ UNCHANGED outcome
     ELSE Return("ok") /\ UNCHANGED left
  /\ buffer' = Rest(buffer, Len(received'))
  /\ UNCHANGED <<message, wire, begin, content_len, chunks_done, split>>

\* A round of readFixSize().
ReadFixSize ==
  /\ phase = "fixed"
  /\ \E n \in Reads(left) :
       /\ wire' = Rest(wire, n)
       /\ received' = received \o First(n)
       /\ left' = left - n
  /\ IF left' = 0 THEN Return("ok") ELSE UNCHANGED <<phase, outcome>>
  /\ UNCHANGED <<message, buffer, begin, content_len, chunks_done, split>>

-----------------------------------------------------------------------------
(* A chunked body. *)

\* execute(data, len, true) parses text from the start state of the machine: how
\* many digits it begins with, and whether the header is complete, may be
\* continued, or is none.
Digits(text) ==
  CHOOSE k \in 0..Len(text) :
    /\ \A i \in 1..k : text[i][1] = "hex"
    /\ k < Len(text) => text[k + 1][1] # "hex"
Verdict(text, k) ==
  CASE k = Len(text) -> "more"
    [] k = 0 \/ text[k + 1][1] # "CR" -> "error"
    [] k + 1 = Len(text) -> "more"
    [] text[k + 2][1] # "LF" -> "error"
    [] OTHER -> "done"

\* strtol(..., 16).
RECURSIVE Value(_)
Value(digits) ==
  IF digits = <<>> THEN 0
  ELSE 16 * Value(SubSeq(digits, 1, Len(digits) - 1)) + digits[Len(digits)][2]

\* The loop over the header of a chunk: the first round parses what is in the
\* buffer, if there is anything.
ReadChunk ==
  /\ phase = "chunk"
  /\ \E n \in IF ~begin \/ buffer = <<>> THEN Reads(BuffSize - Len(buffer)) ELSE {0} :
       LET text == buffer \o First(n)
           k == Digits(text)
           verdict == Verdict(text, k) IN
       /\ wire' = Rest(wire, n)
       /\ CASE verdict = "error" -> Close
            [] verdict = "more" ->
                 /\ buffer' = <<>> /\ begin' = FALSE /\ split' = TRUE
                 /\ UNCHANGED <<phase, outcome, content_len, chunks_done>>
            [] OTHER ->
                 /\ buffer' = Rest(text, k + 2)
                 /\ content_len' = Value(SubSeq(text, 1, k))
                 /\ chunks_done' = (content_len' = 0)
                 /\ phase' = "data"
                 /\ UNCHANGED <<begin, split, outcome>>
  /\ UNCHANGED <<message, left, received>>

\* The end of the loop over the chunks.
NextChunk ==
  IF chunks_done THEN Return("ok") /\ UNCHANGED begin
  ELSE phase' = "chunk" /\ begin' = TRUE /\ UNCHANGED outcome

\* The chunk and its line ending are in the buffer, or the rest is to be read.
TakeChunk ==
  /\ phase = "data"
  /\ IF content_len + 2 <= Len(buffer)
     THEN /\ received' = received \o SubSeq(buffer, 1, content_len)
          /\ buffer' = Rest(buffer, content_len + 2)
          /\ NextChunk /\ UNCHANGED left
     ELSE /\ received' = received \o buffer
          /\ left' = content_len + 2 - Len(buffer)
          /\ phase' = "rest" /\ UNCHANGED <<buffer, begin, outcome>>
  /\ UNCHANGED <<message, wire, content_len, chunks_done, split>>

\* Mutant: the line ending becomes part of the body.
ReadRestWhole ==
  /\ phase = "rest"
  /\ \E n \in Reads(IF left > BuffSize THEN BuffSize ELSE left) :
       /\ wire' = Rest(wire, n)
       /\ left' = left - n
       /\ received' = received \o First(n)
  /\ IF left' > 0 THEN UNCHANGED <<buffer, phase, begin, outcome>>
     ELSE buffer' = <<>> /\ NextChunk
  /\ UNCHANGED <<message, content_len, chunks_done, split>>
\* A round of the loop that reads the rest of the chunk; body.resize() cuts the
\* line ending off after the last one.
ReadRest ==
  /\ phase = "rest"
  /\ \E n \in Reads(IF left > BuffSize THEN BuffSize ELSE left) :
       /\ wire' = Rest(wire, n)
       /\ left' = left - n
       /\ received' = IF left' > 0 THEN received \o First(n)
                      ELSE SubSeq(received \o First(n), 1, Len(received) + n - 2)
  /\ IF left' > 0 THEN UNCHANGED <<buffer, phase, begin, outcome>>
     ELSE buffer' = <<>> /\ NextChunk
  /\ UNCHANGED <<message, content_len, chunks_done, split>>

Next == ReadFails \/ ReadHead \/ TakeLength \/ ReadFixSize \/ ReadChunk \/ TakeChunk \/ ReadRest
-----------------------------------------------------------------------------
(* Properties. *)

RECURSIVE Total(_)
Total(sizes) == IF sizes = <<>> THEN 0 ELSE Head(sizes) + Total(Tail(sizes))
Body == Part(1, IF message.chunks = <<>> THEN message.length ELSE Total(message.chunks))

\* However the message is cut into reads, the function returns exactly the body
\* that was sent, and leaves nothing of the message on the connection, where the
\* next response would be read - if no header of a chunk was cut.
BodyExact ==
  outcome = "ok" /\ ~split => received = Body /\ wire = <<>> /\ buffer = <<>>

\* It gives a message up only when read() fails, or such a header was cut.
NeverRefused == outcome = "refused" => split

\* The body is the one that was sent, however the message is cut into reads.
ChunksWhole == outcome = "ok" => received = Body
=============================================================================
