----------------------------- MODULE HttpClient -----------------------------
(***************************************************************************)
(* The client's connection to its server: the HTTP message stream of       *)
(* http.c over the plain or TLS connection of connection.c, as se_receive  *)
(* (se_connection.c) and the loop of main (client_test.c) drive it.        *)
(*                                                                         *)
(* Every read and write of the connection is a step of its own, since the  *)
(* server and the network go on while the client handles an event; pc says *)
(* where the client is.  A line of a message or a token of its document is *)
(* one unit of data; a document is the tokens 1, 2, ... up to its root's   *)
(* end tag.  A write is taken whole or refused (EAGAIN).                   *)
(***************************************************************************)
EXTENDS Naturals, Integers, SequencesExt

CONSTANTS
    BufferSize,    \* BUFFER_SIZE in units, one of which ends the text
    Shapes,        \* the responses a server gives: [lines, doc, trail]
    Flights,       \* TLS handshake messages to wait for
    MaxRequests,   \* bound: requests the client makes
    CloseAnywhere  \* may the server close in the middle of a response?

\* "make sure buffer is large enough for the request/status + headers"
ASSUME HttpAssumption ==
    /\ CloseAnywhere \in BOOLEAN
    /\ BufferSize \in Nat \ {0} /\ Flights \in Nat /\ MaxRequests \in Nat
    /\ \A shape \in Shapes :
          /\ shape.lines \in Seq({"status", "length", "close", "type", "fold"} \X Nat)
          /\ shape.doc \in Nat /\ shape.trail \in Nat
          /\ Len(shape.lines) + 1 < BufferSize

\* A server that gives the length of a document gives its length: the client has
\* no other way to tell where the next response begins.
ASSUME LengthAssumption ==
    \A shape \in Shapes : \A i \in 1 .. Len(shape.lines) :
       shape.lines[i][1] = "length" => shape.lines[i][2] = shape.doc

VARIABLES
    pc,        \* "loop" (der_poll), "flush", "receive", "body" (se_receive), "exit"
    conn,      \* the port: secure, type, status, end, wait, tls; queued: it is
               \* in _active; ev: epoll has an edge to report
    send,      \* HttpConnection.send
    request,   \* HttpConnection.request
    buf, data, \* the units in buffer; how many of them are before data
    http,      \* the other fields of HttpConnection
    se,        \* SeConnection.state
    parsed,    \* the responses whose tokens the Parser has taken, in order
    issued,    \* contexts of the requests made so far, 0 for NULL
    log,       \* the responses se_receive has returned
    full,      \* the socket takes no data
    wire,      \* the requests the socket took
    answered, out, inp, eof, hello \* server: responses given, data to send,
               \* data sent, stream ended, handshake messages to send

client == <<pc, conn, send, request, buf, data, http, se, parsed, log>>
server == <<answered, out, inp, eof, hello>>
vars   == <<client, issued, full, wire, server>>

NoResponse == [state |-> "START", end |-> 0, close |-> FALSE, length |-> FALSE,
               media |-> FALSE, error |-> FALSE, code |-> 0, ctx |-> 0]

Init ==
    /\ pc = "loop"
    /\ \E secure \in BOOLEAN :
          conn = [secure |-> secure, type |-> "NONE", status |-> "Closed",
                  end |-> FALSE, wait |-> FALSE, queued |-> FALSE, ev |-> FALSE,
                  tls |-> IF secure THEN "NEGOTIATE" ELSE "NONE"]
    /\ send = <<>> /\ request = <<>>
    /\ buf = <<>> /\ data = 0 /\ http = NoResponse
    /\ se = "START" /\ parsed = <<>> /\ issued = <<>> /\ log = <<>>
    /\ full = FALSE /\ wire = <<>>
    /\ answered = <<>> /\ out = <<>> /\ inp = <<>> /\ eof = FALSE
    /\ hello = Flights

-----------------------------------------------------------------------------
(* Connections. *)

NetClose(c) ==
    IF c.type \in {"TCP_CONNECT", "TCP_PORT"}
    THEN [c EXCEPT !.type = "TCP_CLOSED", !.status = "Closed", !.end = TRUE,
                   !.wait = FALSE, !.queued = TRUE]
    ELSE c

\* SSL_shutdown fails before there is a session, returns 0 the first time and
\* something else once the peer has closed or when it is asked again.
TlsClose(c) ==
    IF /\ c.status = "Connected"
       /\ c.tls # "SESSION" \/ (eof /\ inp = <<>>)
    THEN NetClose([c EXCEPT !.tls = "NONE"])
    ELSE [c EXCEPT !.tls = "SHUTDOWN"]

ConnClose(c) == IF c.secure THEN TlsClose(c) ELSE NetClose(c)

SetTimeout(c) == [c EXCEPT !.wait = TRUE]

\* event_poll queues the port it returned last unless its input ended.
Return(c) == [c EXCEPT !.queued = @ \/ ~c.end]

Open == conn.status = "Connected" /\ (conn.secure => conn.tls = "SESSION")

\* Mutant: no room is left for the end of the text.
RoomOver == BufferSize - Len(buf)

\* What conn_read returns for the room there is in the buffer, and the port
\* after it.
Room == BufferSize - Len(buf) - 1
ReadCount ==
    IF ~Open THEN -1
    ELSE IF inp # <<>> THEN (IF Room < Len(inp) THEN Room ELSE Len(inp))
    ELSE IF eof \/ Room = 0 THEN 0 ELSE -1
AfterRead(n) ==
    IF conn.secure /\ conn.tls # "SESSION" THEN conn
    ELSE IF n = 0
    THEN [NetClose(conn) EXCEPT !.tls = IF conn.secure THEN "SHUTDOWN" ELSE "NONE"]
    ELSE [conn EXCEPT !.end = n < 0]

Take(n) ==
    /\ buf' = IF n > 0 THEN buf \o SubSeq(inp, 1, n) ELSE buf
    /\ inp' = IF n > 0 THEN SubSeq(inp, n + 1, Len(inp)) ELSE inp
    /\ UNCHANGED <<answered, out, eof, hello>>

-----------------------------------------------------------------------------
(* Requests. *)

QueueRequest(q) == Append(q, [ctx |-> 0])
\* Mutant: the first request queued gets the context.
SetFirstContext(q, ctx) == [q EXCEPT ![1].ctx = ctx]
SetRequestContext(q, ctx) == [q EXCEPT ![Len(q)].ctx = ctx]

\* How many of n writes the socket takes; it is full after one it refused and
\* may be full after any other.  SSL_write takes them all.
Writes(n) ==
    IF ~Open \/ full \/ n = 0 THEN {0} ELSE IF conn.secure THEN {n} ELSE 1 .. n
Fill(k, n) == full' \in (IF full \/ k < n THEN {full \/ Open}
                         ELSE IF k = 0 \/ conn.secure THEN {FALSE} ELSE BOOLEAN)

\* Mutant: data the socket refuses is dropped.
HttpWriteOnce(id) ==
    IF send = <<>>
    THEN \E k \in Writes(1) :
            wire' = (IF k = 1 THEN Append(wire, id) ELSE wire) /\ Fill(k, 1) /\ UNCHANGED send
    ELSE send' = Append(send, id) /\ UNCHANGED <<wire, full>>

HttpWrite(id) ==
    IF send = <<>>
    THEN \E k \in Writes(1) :
            /\ wire' = IF k = 1 THEN Append(wire, id) ELSE wire
            /\ send' = IF k = 1 THEN send ELSE Append(send, id)
            /\ Fill(k, 1)
    ELSE send' = Append(send, id) /\ UNCHANGED <<wire, full>>

\* get_seq makes a GET with its resource as the context, se_send a PUT or
\* POST without one.
Issue ==
    /\ pc = "loop" /\ Len(issued) < MaxRequests /\ conn.type # "NONE"
    /\ \E ctx \in {0, Len(issued) + 1} :
          /\ issued' = Append(issued, ctx)
          /\ request' = IF ctx = 0 THEN QueueRequest(request)
                        ELSE SetRequestContext(QueueRequest(request), ctx)
    /\ HttpWrite(Len(issued) + 1)
    /\ UNCHANGED <<pc, conn, buf, data, http, se, parsed, log, server>>

\* http_close: queued requests and data are freed.
HttpClose(c) ==
    /\ send' = <<>> /\ request' = <<>>
    /\ http' = [http EXCEPT !.state = "CLOSED"]
    /\ conn' = Return(ConnClose(c)) /\ pc' = "loop"

-----------------------------------------------------------------------------
(* Events: se_connect, and the event loop's TCP events. *)

\* Mutant: a connection made at once is not queued.
ConnectIdle ==
    /\ pc = "loop" /\ conn.type = "NONE"
    /\ conn' = [conn EXCEPT !.type = "TCP_CONNECT", !.status = "Connected"]
    /\ UNCHANGED <<pc, send, request, buf, data, http, se, parsed, log,
                   issued, full, wire, server>>

\* se_connect.
Connect ==
    /\ pc = "loop" /\ conn.type = "NONE"
    /\ \/ conn' = [conn EXCEPT !.type = "TCP_CONNECT", !.status = "Connected", !.queued = TRUE]
       \/ conn' = SetTimeout([conn EXCEPT !.type = "TCP_CONNECT", !.status = "InProgress"])
    /\ UNCHANGED <<pc, send, request, buf, data, http, se, parsed, log,
                   issued, full, wire, server>>

\* tls_session; se_receive is called when it returns other than SESSION_NONE.
Session(c) ==
    \/ /\ ~c.secure \/ c.tls = "SESSION"
       /\ pc' = "flush" /\ conn' = c
    \/ /\ c.tls = "NEGOTIATE" /\ hello = 0
       /\ pc' = "flush" /\ conn' = [c EXCEPT !.tls = "SESSION", !.end = FALSE]
    \/ /\ c.tls = "NEGOTIATE" /\ hello > 0
       /\ conn' = Return([c EXCEPT !.end = TRUE]) /\ UNCHANGED pc
    \/ /\ c.tls = "NEGOTIATE" \/ c.tls = "SHUTDOWN"
       /\ conn' = Return(TlsClose([c EXCEPT !.tls = "SHUTDOWN"])) /\ UNCHANGED pc

\* _active is served before epoll is asked, which clears the timeout.
Poll ==
    /\ pc = "loop" /\ conn.type \in {"TCP_CONNECT", "TCP_PORT"}
    /\ \/ /\ conn.queued
          /\ Session([conn EXCEPT !.type = "TCP_PORT", !.queued = FALSE])
       \/ /\ conn.ev /\ ~conn.queued
          /\ Session([conn EXCEPT !.type = "TCP_PORT", !.status = "Connected",
                                  !.ev = FALSE, !.wait = FALSE])
    /\ UNCHANGED <<send, request, buf, data, http, se, parsed, log,
                   issued, full, wire, server>>

Refused ==
    /\ pc = "loop" /\ conn.status = "InProgress" /\ conn' = NetClose(conn)
    /\ UNCHANGED <<pc, send, request, buf, data, http, se, parsed, log,
                   issued, full, wire, server>>

\* TCP_TIMEOUT and TCP_CLOSED end the program.
Exit ==
    /\ pc = "loop" /\ (conn.wait \/ conn.type = "TCP_CLOSED")
    /\ pc' = "exit" /\ send' = <<>> /\ request' = <<>>
    /\ http' = [http EXCEPT !.state = "CLOSED"]
    /\ UNCHANGED <<conn, buf, data, se, parsed, log, issued, full, wire, server>>

-----------------------------------------------------------------------------
(* se_receive. *)

Flush ==
    /\ pc = "flush" /\ pc' = "receive"
    /\ \E k \in Writes(Len(send)) :
          /\ wire' = wire \o SubSeq(send, 1, k)
          /\ send' = SubSeq(send, k + 1, Len(send))
          /\ Fill(k, Len(send))
          /\ conn' = IF k = Len(send) /\ http.close THEN ConnClose(conn) ELSE conn
    /\ UNCHANGED <<request, buf, data, http, se, parsed, log, issued, server>>

\* se_receive returns nothing.
Incomplete(c) == pc' = "loop" /\ conn' = Return(c)

\* next_line reads when no whole line is left in the buffer.
NextLine ==
    /\ pc = "receive" /\ http.state \in {"START", "HEADER"} /\ data >= Len(buf)
    /\ Take(ReadCount)
    /\ IF ReadCount > 0
       THEN conn' = AfterRead(ReadCount) /\ UNCHANGED pc
       ELSE Incomplete(IF http.state = "START" THEN AfterRead(ReadCount)
                       ELSE SetTimeout(AfterRead(ReadCount)))
    /\ UNCHANGED <<send, request, data, http, se, parsed, log, issued, full, wire>>

Line == buf[data + 1]

\* The request/status line of http_receive.
StatusLine ==
    /\ pc = "receive" /\ http.state = "START" /\ data < Len(buf)
    /\ \/ /\ Line.k = "empty" /\ data' = data + 1
          /\ UNCHANGED <<pc, conn, send, request, http>>
       \/ /\ Line.k = "status" /\ request # <<>>
          /\ request' = Tail(request) /\ data' = data + 1
          /\ http' = [NoResponse EXCEPT !.state = "HEADER", !.code = Line.v,
                                        !.ctx = Head(request).ctx]
          /\ UNCHANGED <<pc, conn, send>>
       \/ /\ Line.k # "empty" /\ (Line.k = "status" => request = <<>>)
          /\ HttpClose(conn) /\ UNCHANGED data
    /\ UNCHANGED <<buf, se, parsed, log, issued, full, wire, server>>

HeaderLine ==
    /\ pc = "receive" /\ http.state = "HEADER" /\ data < Len(buf)
    /\ Line.k # "blank"
    /\ http' = CASE Line.k = "length" -> [http EXCEPT !.end = Line.v, !.length = TRUE]
                 [] Line.k = "close" -> [http EXCEPT !.close = TRUE]
                 [] Line.k = "type" -> [http EXCEPT !.media = TRUE]
                 [] OTHER -> [http EXCEPT !.error = TRUE]
    /\ data' = data + 1
    /\ UNCHANGED <<pc, conn, send, request, buf, se, parsed, log, issued, full, wire, server>>

NoBody == (http.length /\ http.end = 0) \/ http.code \in 100 .. 199 \cup {204, 304}

Response(docs) == [ctx |-> http.ctx, docs |-> docs]

EndOfHeaders ==
    /\ pc = "receive" /\ http.state = "HEADER" /\ data < Len(buf) /\ Line.k = "blank"
    /\ \/ /\ http.error \/ (~NoBody /\ ~http.media)
          /\ HttpClose(conn) /\ UNCHANGED <<se, parsed, log, data>>
       \/ /\ ~http.error /\ NoBody
          /\ http' = [http EXCEPT !.state = "COMPLETE", !.end = @ + data + 1]
          /\ data' = data + 1 /\ log' = Append(log, Response(<<Line.r>>))
          /\ Incomplete(conn) /\ UNCHANGED <<send, request, se, parsed>>
       \/ /\ ~http.error /\ ~NoBody /\ http.media
          /\ http' = [http EXCEPT !.state = "DATA", !.end = @ + data + 1,
                                  !.close = @ \/ http.end = 0]
          /\ data' = data + 1 /\ se' = "DATA" /\ parsed' = <<>> /\ pc' = "body"
          /\ UNCHANGED <<conn, send, request, log>>
    /\ UNCHANGED <<buf, issued, full, wire, server>>

\* http_receive after a response: the data behind it moves to the front of the
\* buffer.  A response that is not complete yet is returned again.
Complete ==
    /\ pc = "receive"
    /\ \/ /\ http.state = "COMPLETE" /\ ~http.close
          /\ buf' = SubSeq(buf, http.end + 1, Len(buf)) /\ data' = 0
          /\ http' = [http EXCEPT !.state = "START", !.end = 0]
          /\ UNCHANGED <<pc, conn, se, parsed>>
       \/ /\ http.state = "CLOSED" \/ (http.state = "COMPLETE" /\ http.close)
          /\ http' = [http EXCEPT !.state = "CLOSED"] /\ Incomplete(conn)
          /\ UNCHANGED <<buf, data, se, parsed>>
       \/ /\ http.state = "DATA" /\ pc' = "body"
          /\ se' = "DATA" /\ parsed' = IF se = "START" THEN <<>> ELSE parsed
          /\ UNCHANGED <<conn, buf, data, http>>
    /\ UNCHANGED <<send, request, log, issued, full, wire, server>>

\* How many of the units of a segment parse_doc takes: those that continue the
\* document, up to the one that ends it.
Taken(seg) ==
    LET Continues(i) == seg[i].k \in {"elem", "root"} /\ seg[i].v = Len(parsed) + i
    IN  CHOOSE m \in 0 .. Len(seg) :
           /\ \A i \in 1 .. m : Continues(i)
           /\ m = Len(seg) \/ ~Continues(m + 1)

\* http_complete.
HttpComplete(h, length) == h.state = "CLOSED" \/ h.end <= length

\* The rest of the loop in se_receive: parse b up to length.
Parse(c, h, b, length) ==
    \E seg \in {SubSeq(b, data + 1, length)} : \E m \in {Taken(seg)} :
       \/ /\ m > 0 /\ seg[m].k = "root"
          /\ log' = Append(log, Response(parsed \o [i \in 1 .. m |-> seg[i].r]))
          /\ se' = "START" /\ parsed' = <<>>
          /\ http' = h /\ buf' = b /\ Incomplete(c)
          /\ UNCHANGED <<data, send, request>>
       \/ /\ (m > 0 => seg[m].k # "root") /\ ~HttpComplete(h, Len(b))
          /\ parsed' = parsed \o [i \in 1 .. m |-> seg[i].r]
          /\ buf' = SubSeq(b, data + m + 1, Len(b)) /\ data' = 0
          /\ http' = [h EXCEPT !.end = @ - (data + m)] /\ conn' = c
          /\ UNCHANGED <<pc, log, se, send, request>>
       \/ /\ (m > 0 => seg[m].k # "root") /\ HttpComplete(h, Len(b))
          /\ HttpClose(c) /\ buf' = b /\ UNCHANGED <<data, log, se, parsed>>

BodyNone ==
    /\ pc = "body" /\ http.state # "DATA" /\ Incomplete(SetTimeout(conn))
    /\ UNCHANGED <<send, request, buf, data, http, se, parsed, log, issued, full, wire, server>>

\* http_data when the message ends with the stream.
BodyToClose ==
    /\ pc = "body" /\ http.state = "DATA" /\ http.close
    /\ Parse(AfterRead(ReadCount),
             IF conn.status = "Closed" THEN [http EXCEPT !.state = "COMPLETE"] ELSE http,
             IF ReadCount > 0 THEN buf \o SubSeq(inp, 1, ReadCount) ELSE buf,
             Len(buf) + (IF ReadCount > 0 THEN ReadCount ELSE 0))
    /\ inp' = IF ReadCount > 0 THEN SubSeq(inp, ReadCount + 1, Len(inp)) ELSE inp
    /\ UNCHANGED <<issued, full, wire, answered, out, eof, hello>>

\* Mutant: the message is not marked complete.
BodyWholeAgain ==
    /\ pc = "body" /\ http.state = "DATA" /\ ~http.close /\ http.end <= Len(buf)
    /\ Parse(conn, http, buf, http.end)
    /\ UNCHANGED <<issued, full, wire, server>>

\* http_data when all of the message is in the buffer.
BodyWhole ==
    /\ pc = "body" /\ http.state = "DATA" /\ ~http.close /\ http.end <= Len(buf)
    /\ Parse(conn, [http EXCEPT !.state = "COMPLETE"], buf, http.end)
    /\ UNCHANGED <<issued, full, wire, server>>

\* http_data reads on while the buffer has room,
BodyRead ==
    /\ pc = "body" /\ http.state = "DATA" /\ ~http.close /\ http.end > Len(buf)
    /\ Room > 0 /\ ReadCount > 0
    /\ Take(ReadCount) /\ conn' = AfterRead(ReadCount)
    /\ UNCHANGED <<pc, send, request, data, http, se, parsed, log, issued, full, wire>>

\* and returns what there is otherwise.
BodyPart ==
    /\ pc = "body" /\ http.state = "DATA" /\ ~http.close /\ http.end > Len(buf)
    /\ Room = 0 \/ ReadCount <= 0
    /\ Parse(IF Room = 0 THEN conn ELSE AfterRead(ReadCount), http, buf, Len(buf))
    /\ UNCHANGED <<issued, full, wire, server>>

-----------------------------------------------------------------------------
(* The network and the server, which answers requests in order. *)

Edge == conn' = [conn EXCEPT !.ev = TRUE]

Elsewhere == UNCHANGED <<pc, send, request, buf, data, http, se, parsed, log, issued, wire>>

Accept ==
    /\ conn.status = "InProgress" /\ ~conn.ev /\ Edge
    /\ Elsewhere /\ UNCHANGED <<full, server>>

Drain == full /\ full' = FALSE /\ Edge /\ Elsewhere /\ UNCHANGED server

Hello ==
    /\ conn.status = "Connected" /\ conn.secure /\ conn.end /\ hello > 0 /\ ~eof
    /\ hello' = hello - 1 /\ Edge
    /\ Elsewhere /\ UNCHANGED <<full, answered, out, inp, eof>>

\* The units of the r-th response: its lines, the blank one, its document and the
\* empty lines behind it; r and i say in a unit where it comes from.
Headers(shape) == Len(shape.lines) + 1
Size(shape)    == Headers(shape) + shape.doc + shape.trail

Piece(shape, r, i) ==
    LET token == i - Headers(shape)
        U(k, v) == [k |-> k, v |-> v, r |-> r, i |-> i]
    IN  IF i < Headers(shape) THEN U(shape.lines[i][1], shape.lines[i][2])
        ELSE IF i = Headers(shape) THEN U("blank", 0)
        ELSE IF token < shape.doc THEN U("elem", token)
        ELSE IF token = shape.doc THEN U("root", token)
        ELSE U("empty", 0)

Units(shape, r) == [i \in 1 .. Size(shape) |-> Piece(shape, r, i)]

Answer ==
    /\ out = <<>> /\ ~eof /\ Len(answered) < Len(wire)
    /\ \E shape \in Shapes :
          out' = Units(shape, Len(answered) + 1) /\ answered' = Append(answered, shape)
    /\ Elsewhere /\ UNCHANGED <<conn, full, inp, eof, hello>>

Send ==
    /\ out # <<>> /\ ~eof
    /\ \E n \in 1 .. Len(out) :
          inp' = inp \o SubSeq(out, 1, n) /\ out' = SubSeq(out, n + 1, Len(out))
    /\ Edge /\ Elsewhere /\ UNCHANGED <<full, answered, eof, hello>>

Close ==
    /\ ~eof /\ conn.status = "Connected" /\ (out = <<>> \/ CloseAnywhere)
    /\ eof' = TRUE /\ Edge /\ Elsewhere /\ UNCHANGED <<full, answered, out, inp, hello>>

-----------------------------------------------------------------------------
Receive == NextLine \/ StatusLine \/ HeaderLine \/ EndOfHeaders \/ Complete
Body    == BodyNone \/ BodyToClose \/ BodyWhole \/ BodyRead \/ BodyPart

Next ==
    \/ Issue \/ Connect \/ Poll \/ Refused \/ Exit \/ Flush
    \/ NextLine \/ StatusLine \/ HeaderLine \/ EndOfHeaders \/ Complete
    \/ BodyNone \/ BodyToClose \/ BodyWhole \/ BodyRead \/ BodyPart
    \/ Accept \/ Drain \/ Hello \/ Answer \/ Send \/ Close

Spec == Init /\ [][Next]_vars

\* The client goes on while it has something to do; a socket that is full drains;
\* a server answers what it received.
FairSpec ==
    /\ Spec
    /\ WF_vars(Poll) /\ WF_vars(Flush) /\ WF_vars(Receive) /\ WF_vars(Body)
    /\ WF_vars(Exit /\ conn.type = "TCP_CLOSED")
    /\ WF_vars(Drain) /\ WF_vars(Hello) /\ WF_vars(Answer) /\ WF_vars(Send)

-----------------------------------------------------------------------------
(* Properties. *)

Unit == [k : {"status", "length", "close", "type", "fold", "blank", "elem", "root", "empty"},
         v : Nat, r : 1 .. MaxRequests, i : Nat \ {0}]

TypeOK ==
    /\ pc \in {"loop", "flush", "receive", "body", "exit"}
    /\ conn \in [secure : BOOLEAN, end : BOOLEAN, wait : BOOLEAN, queued : BOOLEAN,
                 ev : BOOLEAN, type : {"NONE", "TCP_CONNECT", "TCP_PORT", "TCP_CLOSED"},
                 status : {"Closed", "InProgress", "Connected"},
                 tls : {"NONE", "NEGOTIATE", "SESSION", "SHUTDOWN"}]
    /\ issued \in BoundedSeq(0 .. MaxRequests, MaxRequests)
    /\ \A q \in {buf, inp, out} : \A i \in 1 .. Len(q) : q[i] \in Unit
    /\ Len(buf) < BufferSize /\ data \in 0 .. Len(buf)
    /\ http.state \in {"START", "HEADER", "DATA", "COMPLETE", "CLOSED"} /\ http.end \in Nat

\* Requests reach the server in the order they were made and each of them once,
\* whatever was queued by http_write and written by http_flush.
WrittenInOrder ==
    /\ \A i \in 1 .. Len(wire) : wire[i] = i
    /\ http.state # "CLOSED" => wire \o send = [i \in 1 .. Len(issued) |-> i]

\* Responses without a body, whatever their headers say.
Has(shape, line) == \E i \in 1 .. Len(shape.lines) : shape.lines[i][1] = line
Bodiless(shape) ==
    \/ Has(shape, "length") /\ shape.doc = 0
    \/ shape.lines[1][2] \in 100 .. 199 \cup {204, 304}

\* A response comes with the context of the request it answers, and its document
\* is its own from the first token to the last.
Matched ==
    \A i \in 1 .. Len(log) : \E r \in 1 .. Len(answered) :
       /\ log[i].ctx = issued[r]
       /\ log[i].docs = [j \in 1 .. (IF Bodiless(answered[r]) THEN 1 ELSE answered[r].doc) |-> r]

\* A response that closes the connection, ends with it or is not well formed.
Closing(shape) ==
    Has(shape, "close") \/ Has(shape, "fold") \/ (shape.doc > 0 /\ ~Has(shape, "length"))

\* se_receive returns each response once and in order; a response that closes the
\* connection may be returned again, when http_flush has closed it.
OnceInOrder ==
    \A i \in 2 .. Len(log) :
       \/ log[i].docs[1] = log[i - 1].docs[1] + 1
       \/ log[i].docs[1] = log[i - 1].docs[1] /\ Closing(answered[log[i].docs[1]])

\* Every request is answered unless the server closes the connection, says it
\* will, or never accepts it.
Answered ==
    \A n \in 1 .. MaxRequests :
       Len(issued) >= n ~>
          \/ Len(log) >= n
          \/ pc = "exit" \/ eof \/ conn.status = "InProgress" \/ http.state = "CLOSED"
          \/ \E i \in 1 .. Len(answered) : Closing(answered[i])
=============================================================================
