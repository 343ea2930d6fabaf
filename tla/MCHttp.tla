------------------------------- MODULE MCHttp -------------------------------
(***************************************************************************)
(* The parts of the HTTP client, and the byte arrays of the streams, side  *)
(* by side: `part` is the one that is run, one of the three parsers, the   *)
(* reading of a body, the pool of connections, or a byte array.  The       *)
(* variables the parsers share by name are shared here; those the part at  *)
(* hand does not have are "-", but for the pool, which rests in its        *)
(* initial state.                                                          *)
(***************************************************************************)
EXTENDS HttpPool

CONSTANTS Messages, BuffSize,
          BaseSizes, GroupBits, Width, Ints, MaxString, MaxCapacity

VARIABLES part, cs, mark, residual, place,
          kept, result, seen,
          field_start, field_len, m_error, calls, due, torn,
          uri_relaxed, query_start, sent,
          chunked, close, chunck,
          message, wire, buffer, phase, begin, content_len, chunks_done, left,
          received, split, outcome,
          ba, flat, items

Uri == INSTANCE UriParser
Request == INSTANCE RequestParser
Response == INSTANCE ResponseParser
Body == INSTANCE HttpBody
Array == INSTANCE ByteArray

OfParser == <<cs, mark, residual, place>>
OfUri == <<kept, result, seen>>
OfHttp == <<field_start, field_len, m_error, calls, due, torn>>
OfRequest == <<uri_relaxed, query_start, sent>>
OfResponse == <<chunked, close, chunck>>
OfBody == <<message, wire, buffer, phase, begin, content_len, chunks_done, left,
            received, split, outcome>>
OfArray == <<ba, flat, items>>

NoParser == cs = "-" /\ mark = "-" /\ residual = "-" /\ place = "-"
NoUri == kept = "-" /\ result = "-" /\ seen = "-"
NoHttp == /\ field_start = "-" /\ field_len = "-" /\ m_error = "-"
          /\ calls = "-" /\ due = "-" /\ torn = "-"
NoRequest == uri_relaxed = "-" /\ query_start = "-" /\ sent = "-"
NoResponse == chunked = "-" /\ close = "-" /\ chunck = "-"
NoBody == /\ message = "-" /\ wire = "-" /\ buffer = "-" /\ phase = "-" /\ begin = "-"
          /\ content_len = "-" /\ chunks_done = "-" /\ left = "-" /\ received = "-"
          /\ split = "-" /\ outcome = "-"
NoArray == ba = "-" /\ flat = "-" /\ items = "-"

Init ==
  \/ part = "uri" /\ Uri!Init /\ NoHttp /\ NoRequest /\ NoResponse /\ NoBody /\ PoolInit /\ NoArray
  \/ part = "request" /\ Request!Init /\ NoUri /\ NoResponse /\ NoBody /\ PoolInit /\ NoArray
  \/ part = "response" /\ Response!Init /\ NoUri /\ NoRequest /\ NoBody /\ PoolInit /\ NoArray
  \/ part = "body" /\ Body!Init /\ NoParser /\ NoUri /\ NoHttp /\ NoRequest /\ NoResponse /\ PoolInit
            /\ NoArray
  \/ part = "pool" /\ PoolInit /\ NoParser /\ NoUri /\ NoHttp /\ NoRequest /\ NoResponse /\ NoBody
            /\ NoArray
  \/ part = "array" /\ Array!Init /\ NoParser /\ NoUri /\ NoHttp /\ NoRequest /\ NoResponse /\ NoBody
            /\ PoolInit

UriNext == part = "uri" /\ Uri!Next
           /\ UNCHANGED <<part, OfHttp, OfRequest, OfResponse, OfBody, poolVars, OfArray>>
RequestNext == part = "request" /\ Request!Next
               /\ UNCHANGED <<part, OfUri, OfResponse, OfBody, poolVars, OfArray>>
ResponseNext == part = "response" /\ Response!Next
                /\ UNCHANGED <<part, OfUri, OfRequest, OfBody, poolVars, OfArray>>
BodyNext == part = "body" /\ Body!Next
            /\ UNCHANGED <<part, OfParser, OfUri, OfHttp, OfRequest, OfResponse, poolVars, OfArray>>
PoolPart == part = "pool" /\ PoolNext
            /\ UNCHANGED <<part, OfParser, OfUri, OfHttp, OfRequest, OfResponse, OfBody, OfArray>>
ArrayNext == part = "array" /\ Array!Next
             /\ UNCHANGED <<part, OfParser, OfUri, OfHttp, OfRequest, OfResponse, OfBody, poolVars>>
Next == UriNext \/ RequestNext \/ ResponseNext \/ BodyNext \/ PoolPart \/ ArrayNext

Spec == Init /\ [][Next]_<<part, OfParser, OfUri, OfHttp, OfRequest, OfResponse, OfBody, poolVars, OfArray>>

\* The least and the largest number of four bits, and one with a shorter encoding.
SmallInts == {-8, 1, 7}

\* Bodies of one chunk whose size has two digits, of two chunks, with and without
\* a Content-Length.
SmallMessages ==
  { [head |-> 2, chunks |-> <<16>>, length |-> 0], [head |-> 1, chunks |-> <<1, 2>>, length |-> 0],
    [head |-> 3, chunks |-> <<>>, length |-> 8], [head |-> 3, chunks |-> <<>>, length |-> 0] }

-----------------------------------------------------------------------------
\* Uri::Create takes exactly the texts that the grammar of uri.rl matches, and
\* refuses all others.
UriIsGrammar == part = "uri" => Uri!MachineIsGrammar

\* Every part of a URI that Uri::Create keeps (scheme, host, port, path, query,
\* fragment) is the stretch of the text between the delimiters of that part, and
\* unless a port is empty it never makes a string of a null pointer.
UriPartsExact == part = "uri" => Uri!PartsExact /\ Uri!OthersReturn

\* HttpRequestParser takes exactly the requests of http11_parser.rl, in whatever
\* pieces they arrive.
RequestIsGrammar == part = "request" => Request!MachineIsGrammar

\* The on_request_... functions are called when their part of a request is
\* complete and at no other time, with exactly that part unless a piece ended
\* inside it.
RequestCallsExact == part = "request" => Request!CallsInTime /\ Request!CallsExact

\* HttpResponseParser takes exactly the responses and chunk headers of
\* httpclient_parser.rl, in whatever pieces they arrive.
ResponseIsGrammar == part = "response" => Response!MachineIsGrammar

\* The on_response_... functions are called when their part of a response is
\* complete and at no other time, with exactly that part unless a piece ended
\* inside it, and isFinished() holds at the end of every response whose last
\* field has a value.
ResponseCallsExact ==
  part = "response" => Response!CallsInTime /\ Response!CallsExact /\ Response!EndIsFinished

\* recvResponse() and recvRequest() return exactly the body that was sent, leave
\* nothing of the message behind, and give a message up only when read() fails,
\* unless a read ended inside the header of a chunk.
BodyIsExact == part = "body" => Body!BodyExact /\ Body!NeverRefused

\* The cursor of a byte array is on the block that holds the position, and only a
\* read of no bytes, at the end of the last block, follows a null pointer.
ArrayCursorExact == part = "array" => Array!CursorExact /\ Array!OnlyEmptyReadsFault

\* The reading operations of a byte array go over exactly the bytes from the
\* position on, and integers and strings are read back as they were written; only
\* an empty string that ends with the last block is read through a null pointer.
ArrayReadsBack == part = "array" => Array!ReadsExact /\ Array!ItemsReadBack
=============================================================================
