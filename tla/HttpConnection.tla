--------------------------- MODULE HttpConnection ---------------------------
(***************************************************************************)
(* One connection of the HTTP server (NetWork/lib/http_server.c,           *)
(* http_request.c): the segments the socket delivers, the parser that runs *)
(* over the input buffer, and the answers.  A request is a request line,   *)
(* at most one header and an empty line; the words of the first two count  *)
(* as one byte each.  A segment may end anywhere.                          *)
(***************************************************************************)
EXTENDS ByteBuffer, SequencesExt

CONSTANTS
    Requests,       \* the sequences of requests a client may send: records
                    \* [version : {"1.0", "1.1"}, connection : {"", "close", "Keep-Alive"}]
    Splits          \* {TRUE}: segments end anywhere; {FALSE}: with a request

VARIABLES
    sent,           \* the requests, in the order they are sent
    split,
    wire,           \* what the client has still to send
    input,          \* tcpConnection->input_buffer
    request,        \* struct http_request
    pc,             \* "idle", "parse" or "done": the thread in http_onMessage;
                    \* "closed": the connection is gone
    answers,        \* for each response, whether the connection was shut down
    fault           \* whether the thread followed a null pointer

vars == <<sent, split, wire, input, request, pc, answers, fault>>

CR == [t |-> "CR"]
LF == [t |-> "LF"]

Encoded(r) ==
    << [t |-> "line", v |-> r.version], CR, LF >>
    \o (IF r.connection = "" THEN <<>> ELSE << [t |-> "header", v |-> r.connection], CR, LF >>)
    \o << CR, LF >>

http_request_new == [state |-> "STATUS", version |-> "", headers |-> <<>>]

Init ==
    /\ sent \in Requests
    /\ split \in Splits
    /\ wire = FlattenSeq([i \in 1..Len(sent) |-> Encoded(sent[i])])
    /\ input = buffer_new
    /\ request = http_request_new
    /\ pc = "idle"
    /\ answers = <<>>
    /\ fault = FALSE

-----------------------------------------------------------------------------
\* Where the first CRLF of the buffer starts, 0 when there is none.
buffer_find_CRLF ==
    LET b == Readable(input)
        at == {i \in 1..(Len(b) - 1) : b[i] = CR /\ b[i + 1] = LF}
    IN IF at = {} THEN 0 ELSE CHOOSE i \in at : \A j \in at : i <= j

\* Where the bytes of a segment end a request.
AtEnd(n) == SubSeq(wire, n - 3, n) = <<CR, LF, CR, LF>>

\* handle_read: a segment is appended to the input buffer, and http_onMessage
\* begins.
Segment(n) ==
    /\ pc = "idle" /\ n <= ReadSize(input)
    /\ split \/ (n >= 4 /\ AtEnd(n))
    /\ input' = buffer_socket_read(input, SubSeq(wire, 1, n))
    /\ wire' = SubSeq(wire, n + 1, Len(wire))
    /\ pc' = "parse"
    /\ UNCHANGED <<sent, split, request, answers, fault>>

http_request_add_header(value) == [request EXCEPT !.headers = Append(@, value)]

\* One turn of the loop of parse_http_request.  Without a CRLF it changes
\* nothing and is taken again, whatever the state.
parse_http_request ==
    LET n == buffer_find_CRLF
        first == Readable(input)[1]
    IN /\ pc = "parse" /\ n # 0
       /\ input' = [input EXCEPT !.readIndex = @ + n + 1]
       /\ IF request.state = "STATUS"
          THEN request' = [request EXCEPT !.state = "HEADERS", !.version = first.v] /\ UNCHANGED pc
          ELSE IF first.t = "header"
          THEN request' = http_request_add_header(first.v) /\ UNCHANGED pc
          ELSE request' = [request EXCEPT !.state = "DONE"] /\ pc' = "done"
       /\ UNCHANGED <<sent, split, wire, answers, fault>>

\* http_request_get_header(httpRequest, "Connection"): the first one of the name.
Connection == IF request.headers = <<>> THEN "" ELSE request.headers[1]

\* Mutant: the headers of the last request stay.
ResetKeepsHeaders == [request EXCEPT !.state = "STATUS", !.version = ""]

http_request_reset == [request EXCEPT !.state = "STATUS", !.version = "", !.headers = <<>>]

\* http_request_close_connection compares a header that is not there for a 1.0
\* request without one; otherwise only "close" closes.
http_request_close_connection ==
    IF Connection = "" /\ request.version = "1.0" THEN "fault"
    ELSE IF Connection = "close" THEN "close" ELSE "keep"

\* The end of http_onMessage: the response, the shutdown the request asked for,
\* the reset.
Respond ==
    /\ pc = "done"
    /\ IF http_request_close_connection = "fault"
       THEN fault' = TRUE /\ UNCHANGED <<pc, answers, request>>
       ELSE /\ answers' = Append(answers, http_request_close_connection = "close")
            /\ request' = http_request_reset
            /\ pc' = "idle"
            /\ UNCHANGED fault
    /\ UNCHANGED <<sent, split, wire, input>>

\* http_onConnectionClosed, when the client has closed: the request is freed.
Closed ==
    /\ pc = "idle"
    /\ pc' = "closed"
    /\ request' = http_request_new
    /\ UNCHANGED <<sent, split, wire, input, answers, fault>>

Next ==
    /\ ~fault
    /\ (\E n \in 1..Len(wire) : Segment(n)) \/ parse_http_request \/ Respond \/ Closed

Spec == Init /\ [][Next]_vars

-----------------------------------------------------------------------------
\* A request is answered after the ones before it, once, and by its own headers
\* (http_server.c:101): the i-th answer shuts the connection down exactly when
\* the i-th request asks for it.
AnswersInOrder ==
    /\ Len(answers) <= Len(sent)
    /\ \A i \in 1..Len(answers) : answers[i] <=> sent[i].connection = "close"
=============================================================================
