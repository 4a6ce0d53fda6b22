-------------------------- MODULE HttpClient_proofs --------------------------
(***************************************************************************)
(* The buffer of a connection never overflows, its requests reach the      *)
(* server in order and once, and its responses are returned in order, each *)
(* with its own document and the context of its request: proofs for every  *)
(* buffer size, every number of requests, whatever a server answers and in *)
(* whatever pieces it arrives.                                             *)
(***************************************************************************)
EXTENDS HttpClient, SequenceTheorems, WellFoundedInduction, TLAPS

-----------------------------------------------------------------------------
(* Connections. *)

Conn == [secure : BOOLEAN, end : BOOLEAN, wait : BOOLEAN, queued : BOOLEAN,
         ev : BOOLEAN, type : {"NONE", "TCP_CONNECT", "TCP_PORT", "TCP_CLOSED"},
         status : {"Closed", "InProgress", "Connected"},
         tls : {"NONE", "NEGOTIATE", "SESSION", "SHUTDOWN"}]

\* A connection over which nothing can be sent any more.
Dead(c) == IF c.secure THEN c.tls \in {"SHUTDOWN", "NONE"} ELSE c.type = "TCP_CLOSED"

\* A port that is closed is not connected.
Shut(c) == c.type = "TCP_CLOSED" => c.status = "Closed"

\* The port after c may differ from c in what says if there is something to read.
Follows(c, d) == /\ d \in Conn /\ Shut(d)
                 /\ d.secure = c.secure
                 /\ Dead(c) => Dead(d)
                 /\ d.type = c.type \/ d.type = "TCP_CLOSED"

LEMMA FollowsTrans ==
  ASSUME NEW c, NEW d, NEW e, Follows(c, d), Follows(d, e)
  PROVE  Follows(c, e)
  BY DEF Follows

LEMMA NetCloseFollows ==
  ASSUME NEW c \in Conn, Shut(c)
  PROVE  Follows(c, NetClose(c))
         /\ (c.type # "NONE" => NetClose(c).type = "TCP_CLOSED")
         /\ NetClose(c).tls = c.tls
  BY ZenonT(60) DEF Conn, Shut, Follows, Dead, NetClose

LEMMA TlsFollows ==
  ASSUME NEW c \in Conn, Shut(c), NEW t \in {"NONE", "SHUTDOWN"}, c.secure
  PROVE  Follows(c, [c EXCEPT !.tls = t]) /\ Dead([c EXCEPT !.tls = t])
  BY DEF Conn, Shut, Follows, Dead

\* conn_close: nothing is sent after it.
LEMMA ConnCloseFollows ==
  ASSUME NEW c \in Conn, Shut(c), c.type # "NONE"
  PROVE  Follows(c, ConnClose(c)) /\ Dead(ConnClose(c))
<1>1. CASE ~c.secure
  <2>1. ConnClose(c) = NetClose(c) /\ NetClose(c).secure = c.secure
    BY <1>1, NetCloseFollows DEF ConnClose, Follows
  <2>. QED BY <1>1, <2>1, NetCloseFollows DEF Dead
<1>2. CASE c.secure
  <2> DEFINE d == [c EXCEPT !.tls = "NONE"]
             e == [c EXCEPT !.tls = "SHUTDOWN"]
  <2>1. Follows(c, d) /\ Dead(d) /\ Follows(c, e) /\ Dead(e) /\ d \in Conn /\ Shut(d)
    BY <1>2, TlsFollows DEF Follows
  <2>2. ConnClose(c) \in {NetClose(d), e}
    BY <1>2 DEF ConnClose, TlsClose
  <2> HIDE DEF d, e
  <2>3. Follows(d, NetClose(d))
    BY <2>1, NetCloseFollows
  <2>4. Follows(c, NetClose(d)) /\ Dead(NetClose(d))
    BY <2>1, <2>3, FollowsTrans DEF Follows
  <2>. QED BY <2>1, <2>2, <2>4
<1>. QED BY <1>1, <1>2 DEF Conn

LEMMA FlagsFollow ==
  ASSUME NEW c \in Conn, Shut(c)
  PROVE  /\ Follows(c, c) /\ Follows(c, SetTimeout(c)) /\ Follows(c, Return(c))
         /\ \A b \in BOOLEAN : Follows(c, [c EXCEPT !.end = b])
         /\ Follows(c, [c EXCEPT !.ev = TRUE])
<1>1. Follows(c, c)
  BY DEF Follows
<1>2. Follows(c, SetTimeout(c)) /\ Follows(c, [c EXCEPT !.ev = TRUE])
  BY DEF Follows, SetTimeout, Conn, Shut, Dead
<1>3. ASSUME NEW b \in BOOLEAN PROVE Follows(c, [c EXCEPT !.end = b])
  BY DEF Follows, Conn, Shut, Dead
<1>4. ASSUME NEW b \in BOOLEAN PROVE Follows(c, [c EXCEPT !.queued = b])
  BY DEF Follows, Conn, Shut, Dead
<1>5. Follows(c, Return(c))
  <2>1. PICK b \in BOOLEAN : b = (c.queued \/ ~c.end)
    OBVIOUS
  <2>2. Return(c) = [c EXCEPT !.queued = b]
    BY <2>1 DEF Return, Conn
  <2>. QED BY <1>4, <2>2
<1>. QED BY <1>1, <1>2, <1>3, <1>5

LEMMA AfterReadFollows ==
  ASSUME NEW n \in Int, conn \in Conn, Shut(conn)
  PROVE  Follows(conn, AfterRead(n))
<1>1. CASE conn.secure /\ conn.tls # "SESSION"
  BY <1>1, FlagsFollow DEF AfterRead
<1>2. CASE ~(conn.secure /\ conn.tls # "SESSION") /\ n = 0
  <2> DEFINE d == NetClose(conn)
             t == IF conn.secure THEN "SHUTDOWN" ELSE "NONE"
  <2>1. d \in Conn /\ Shut(d) /\ Follows(conn, d) /\ d.secure = conn.secure
    BY NetCloseFollows DEF Follows
  <2>2. AfterRead(n) = [d EXCEPT !.tls = t] /\ t \in {"NONE", "SHUTDOWN"}
    BY <1>2 DEF AfterRead
  <2> HIDE DEF d, t
  <2>3. Follows(d, [d EXCEPT !.tls = t])
    BY <2>1, <2>2 DEF Conn, Shut, Follows, Dead
  <2>. QED BY <2>1, <2>2, <2>3, FollowsTrans
<1>3. CASE ~(conn.secure /\ conn.tls # "SESSION") /\ n # 0
  <2>1. PICK b \in BOOLEAN : b = (n < 0)
    <3>1. (n < 0) \in BOOLEAN
      OBVIOUS
    <3>. QED BY <3>1, Zenon
  <2>2. AfterRead(n) = [conn EXCEPT !.end = b]
    BY <1>3, <2>1 DEF AfterRead
  <2>. QED BY <2>2, FlagsFollow
<1>. QED BY <1>1, <1>2, <1>3

-----------------------------------------------------------------------------
(* What the steps do to the connection. *)

Busy == {"flush", "receive", "body"}

\* While an event is handled there is a port.
ConnInv ==
    /\ pc \in Busy \cup {"loop", "exit"}
    /\ conn \in Conn /\ Shut(conn) /\ (pc \in Busy => conn.type # "NONE")

LEMMA ReturnFollows ==
  ASSUME ConnInv, NEW c, Follows(conn, c)
  PROVE  /\ Follows(conn, Return(c)) /\ Follows(conn, SetTimeout(c))
         /\ Follows(conn, Return(SetTimeout(c)))
<1>1. Follows(c, Return(c)) /\ Follows(c, SetTimeout(c)) /\ SetTimeout(c) \in Conn /\ Shut(SetTimeout(c))
  BY FlagsFollow DEF Follows
<1>2. Follows(SetTimeout(c), Return(SetTimeout(c)))
  BY <1>1, FlagsFollow
<1>. QED BY <1>1, <1>2, FollowsTrans

\* After http_close nothing is sent.
LEMMA HttpCloseDead ==
  ASSUME ConnInv, conn.type # "NONE", NEW c, Follows(conn, c), HttpClose(c)
  PROVE  Follows(conn, conn') /\ Dead(conn')
<1>1. c \in Conn /\ Shut(c) /\ c.type # "NONE"
  BY DEF Follows
<1>2. Follows(c, ConnClose(c)) /\ Dead(ConnClose(c))
  BY <1>1, ConnCloseFollows
<1>3. Follows(ConnClose(c), Return(ConnClose(c)))
  BY <1>2, FlagsFollow DEF Follows
<1>4. Follows(conn, Return(ConnClose(c)))
  BY <1>2, <1>3, FollowsTrans
<1>5. Dead(Return(ConnClose(c)))
  BY <1>2, <1>3 DEF Follows
<1>. QED BY <1>4, <1>5 DEF HttpClose

\* The parser takes at most the segment it is given, and nothing but tokens that
\* continue the document.
LEMMA TakenType ==
  ASSUME NEW seg, Len(seg) \in Nat
  PROVE  /\ Taken(seg) \in 0 .. Len(seg)
         /\ \A i \in 1 .. Taken(seg) : seg[i].k \in {"elem", "root"} /\ seg[i].v = Len(parsed) + i
<1> DEFINE Continues(i) == seg[i].k \in {"elem", "root"} /\ seg[i].v = Len(parsed) + i
           Stop == {m \in 0 .. Len(seg) : m = Len(seg) \/ ~Continues(m + 1)}
<1>1. Stop \in SUBSET Nat /\ Len(seg) \in Stop
  OBVIOUS
<1>2. PICK m \in Stop : \A n \in Stop : ~(<<n, m>> \in OpToRel(<, Nat))
  <2> HIDE DEF Stop
  <2>. QED BY <1>1, WFMin, NatLessThanWellFounded
<1>3. \A n \in Stop : ~(n < m)
  BY <1>1, <1>2 DEF OpToRel
<1>4. \A i \in 1 .. m : Continues(i)
  <2> SUFFICES ASSUME NEW i \in 1 .. m PROVE Continues(i)
    OBVIOUS
  <2>1. i - 1 \in 0 .. Len(seg) /\ i - 1 < m /\ i - 1 # Len(seg) /\ i - 1 + 1 = i
    OBVIOUS
  <2>2. i - 1 \notin Stop
    BY <1>3, <2>1
  <2>. QED BY <2>1, <2>2
<1>5. \E k \in 0 .. Len(seg) : /\ \A i \in 1 .. k : Continues(i)
                               /\ k = Len(seg) \/ ~Continues(k + 1)
  BY <1>2, <1>4
<1>. QED BY <1>5, Zenon DEF Taken

\* The three ways the loop of se_receive goes on behind http_data.
LEMMA ParseCases ==
  ASSUME NEW c, NEW h, NEW b, NEW length \in Nat, NEW X, b \in Seq(X), length <= Len(b),
         data \in 0 .. Len(b), Parse(c, h, b, length)
  PROVE  \/ /\ pc' = "loop" /\ conn' = Return(c) /\ http' = h /\ buf' = b
            /\ UNCHANGED <<data, send>>
         \/ /\ conn' = c /\ UNCHANGED <<pc, send>> /\ data' = 0 /\ h.state # "CLOSED"
            /\ ~(h.end <= Len(b))
            /\ \E m \in 0 .. Len(b) - data :
                  /\ buf' = SubSeq(b, data + m + 1, Len(b))
                  /\ http' = [h EXCEPT !.end = @ - (data + m)]
         \/ HttpClose(c) /\ buf' = b /\ UNCHANGED data
<1> DEFINE seg == SubSeq(b, data + 1, length)
           m == Taken(seg)
<1>1. Len(b) \in Nat /\ seg \in Seq(X) /\ Len(seg) \in 0 .. Len(b) - data
  BY SubSeqProperties, LenProperties
<1>2. m \in 0 .. Len(b) - data
  <2>1. Len(seg) \in Nat
    BY <1>1
  <2> HIDE DEF seg
  <2>2. m \in 0 .. Len(seg)
    BY <2>1, TakenType
  <2>. QED BY <1>1, <2>2
<1>3. \/ Incomplete(c) /\ http' = h /\ buf' = b /\ UNCHANGED <<data, send>>
      \/ /\ ~HttpComplete(h, Len(b)) /\ conn' = c /\ UNCHANGED <<pc, send>> /\ data' = 0
         /\ buf' = SubSeq(b, data + m + 1, Len(b))
         /\ http' = [h EXCEPT !.end = @ - (data + m)]
      \/ HttpClose(c) /\ buf' = b /\ UNCHANGED data
  BY Zenon DEF Parse
<1> HIDE DEF m
<1>. QED BY <1>2, <1>3 DEF Incomplete, HttpComplete

-----------------------------------------------------------------------------
(* The buffer. *)

State == {"START", "HEADER", "DATA", "COMPLETE", "CLOSED"}

\* What the proofs need of HttpConnection: its fields, its state, an end in units.
HttpOK(h) ==
    /\ {"state", "end", "close", "length", "media", "error", "code", "ctx"} \subseteq DOMAIN h
    /\ h.state \in State /\ h.end \in Nat

BufInv ==
    /\ buf \in Seq(Unit) /\ inp \in Seq(Unit)
    /\ Len(buf) < BufferSize /\ data \in 0 .. Len(buf)
    /\ HttpOK(http)

LEMMA HttpFields ==
  ASSUME NEW h, HttpOK(h), NEW s \in State, NEW n \in Nat, NEW x
  PROVE  /\ HttpOK([h EXCEPT !.state = s]) /\ [h EXCEPT !.state = s].state = s
         /\ HttpOK([h EXCEPT !.end = n]) /\ [h EXCEPT !.end = n].state = h.state
         /\ HttpOK([h EXCEPT !.close = x]) /\ HttpOK([h EXCEPT !.media = x])
         /\ HttpOK([h EXCEPT !.error = x])
         /\ HttpOK([h EXCEPT !.end = n, !.length = x])
         /\ HttpOK([h EXCEPT !.state = s, !.end = n])
         /\ HttpOK([h EXCEPT !.state = s, !.end = n, !.close = x])
<1>1. HttpOK([h EXCEPT !.state = s]) /\ [h EXCEPT !.state = s].state = s
  BY DEF HttpOK
<1>2. HttpOK([h EXCEPT !.end = n]) /\ [h EXCEPT !.end = n].state = h.state
  BY DEF HttpOK
<1>3. HttpOK([h EXCEPT !.close = x])
  BY DEF HttpOK
<1>4. HttpOK([h EXCEPT !.media = x])
  BY DEF HttpOK
<1>5. HttpOK([h EXCEPT !.error = x])
  BY DEF HttpOK
<1>6. HttpOK([h EXCEPT !.end = n, !.length = x])
  BY DEF HttpOK
<1>7. HttpOK([h EXCEPT !.state = s, !.end = n])
  BY DEF HttpOK
<1>8. HttpOK([h EXCEPT !.state = s, !.end = n, !.close = x])
  BY DEF HttpOK
<1>. QED BY <1>1, <1>2, <1>3, <1>4, <1>5, <1>6, <1>7, <1>8

LEMMA UnitValue == \A u \in Unit : u.v \in Nat
  BY DEF Unit

\* conn_read takes at most what there is and what fits.
LEMMA ReadType ==
  ASSUME BufInv
  PROVE  /\ ReadCount \in Int /\ Room \in Nat
         /\ ReadCount > 0 => ReadCount <= Room /\ ReadCount <= Len(inp)
         /\ Len(buf) \in Nat /\ Len(inp) \in Nat
<1>1. /\ Len(buf) \in Nat /\ Len(inp) \in Nat /\ BufferSize \in Nat /\ Len(buf) < BufferSize
  BY LenProperties, HttpAssumption DEF BufInv, HttpAssumption
<1>2. Room \in Nat
  BY <1>1 DEF Room
<1>. QED BY <1>1, <1>2 DEF ReadCount

\* What is read goes behind what is in the buffer, which does not overflow.
LEMMA ReadGrows ==
  ASSUME BufInv, ReadCount > 0
  PROVE  /\ buf \o SubSeq(inp, 1, ReadCount) \in Seq(Unit)
         /\ Len(buf \o SubSeq(inp, 1, ReadCount)) = Len(buf) + ReadCount
         /\ Len(buf) + ReadCount < BufferSize
         /\ SubSeq(inp, ReadCount + 1, Len(inp)) \in Seq(Unit)
<1>1. /\ ReadCount \in Nat /\ ReadCount <= Room /\ ReadCount <= Len(inp)
      /\ Len(buf) \in Nat /\ Len(inp) \in Nat /\ BufferSize \in Nat
  BY ReadType, HttpAssumption DEF HttpAssumption
<1>2. SubSeq(inp, 1, ReadCount) \in Seq(Unit) /\ Len(SubSeq(inp, 1, ReadCount)) = ReadCount
  BY <1>1, SubSeqProperties DEF BufInv
<1>3. SubSeq(inp, ReadCount + 1, Len(inp)) \in Seq(Unit)
  BY <1>1, SubSeqProperties DEF BufInv
<1> DEFINE part == SubSeq(inp, 1, ReadCount)
<1>4. part \in Seq(Unit) /\ Len(part) = ReadCount
  BY <1>2
<1> HIDE DEF part
<1>5. buf \o part \in Seq(Unit) /\ Len(buf \o part) = Len(buf) + ReadCount
  BY <1>4, ConcatProperties DEF BufInv
<1>6. Len(buf) + ReadCount < BufferSize
  BY <1>1 DEF Room
<1>. QED BY <1>3, <1>5, <1>6 DEF part

\* The buffer, the place in it and the message it holds keep their types.
BufOK == buf \in Seq(Unit) /\ Len(buf) < BufferSize /\ data \in 0 .. Len(buf) /\ HttpOK(http)

LEMMA ParseBuf ==
  ASSUME HttpOK(http), NEW c, NEW h, HttpOK(h), NEW b \in Seq(Unit), Len(b) < BufferSize,
         NEW length \in Nat, length <= Len(b), data \in 0 .. Len(b), Parse(c, h, b, length)
  PROVE  BufOK'
<1>1. Len(b) \in Nat /\ data \in 0 .. Len(b) /\ BufferSize \in Nat
  BY LenProperties, HttpAssumption DEF HttpAssumption
<1>2. CASE pc' = "loop" /\ http' = h /\ buf' = b /\ UNCHANGED data
  BY <1>1, <1>2 DEF BufOK
<1>3. CASE /\ data' = 0 /\ ~(h.end <= Len(b))
           /\ \E m \in 0 .. Len(b) - data :
                 /\ buf' = SubSeq(b, data + m + 1, Len(b))
                 /\ http' = [h EXCEPT !.end = @ - (data + m)]
  <2>1. PICK m \in 0 .. Len(b) - data :
           /\ buf' = SubSeq(b, data + m + 1, Len(b))
           /\ http' = [h EXCEPT !.end = h.end - (data + m)]
    BY <1>3
  <2>2. PICK n \in 0 .. Len(b) : n = data + m
    BY <1>1
  <2>3. buf' = SubSeq(b, n + 1, Len(b)) /\ http' = [h EXCEPT !.end = h.end - n]
    BY <2>1, <2>2
  <2>4. buf' \in Seq(Unit) /\ Len(buf') \in Nat /\ Len(buf') = Len(b) - n
    BY <1>1, <2>3, SubSeqProperties
  <2>5. PICK k \in Nat : k = h.end - n
    BY <1>1, <1>3 DEF HttpOK
  <2>6. "START" \in State /\ http' = [h EXCEPT !.end = k]
    BY <2>3, <2>5 DEF State
  <2>7. HttpOK(http')
    BY <2>6, HttpFields
  <2>8. Len(buf') < BufferSize /\ data' \in 0 .. Len(buf')
    BY <1>1, <1>3, <2>4, SMTT(30)
  <2>. QED BY <2>4, <2>7, <2>8 DEF BufOK
<1>4. CASE HttpClose(c) /\ buf' = b /\ UNCHANGED data
  <2>1. http' = [http EXCEPT !.state = "CLOSED"]
    BY <1>4 DEF HttpClose
  <2>2. HttpOK(http')
    BY <2>1, HttpFields DEF State
  <2>. QED BY <1>1, <1>4, <2>2 DEF BufOK
<1>. QED BY <1>2, <1>3, <1>4, ParseCases

LEMMA BufInit == Init => BufInv
<1> SUFFICES ASSUME Init PROVE BufInv
  OBVIOUS
<1>1. http = NoResponse /\ buf = <<>> /\ inp = <<>> /\ data = 0
  BY DEF Init
<1>2. HttpOK(http)
  BY <1>1 DEF NoResponse, HttpOK, State
<1>. QED BY <1>1, <1>2, HttpAssumption DEF BufInv, HttpAssumption

\* The steps of se_receive.
LEMMA ReceiveBuf ==
  ASSUME BufInv, Receive
  PROVE  BufInv'
<1>1. /\ buf \in Seq(Unit) /\ inp \in Seq(Unit) /\ Len(buf) \in Nat /\ BufferSize \in Nat
      /\ Len(buf) < BufferSize /\ data \in 0 .. Len(buf) /\ HttpOK(http)
  BY LenProperties, HttpAssumption DEF BufInv, HttpAssumption
<1>a. HttpOK([http EXCEPT !.state = "CLOSED"])
  BY <1>1, HttpFields DEF State
<1>2. CASE NextLine
  <2>1. UNCHANGED <<data, http>> /\ Take(ReadCount)
    BY <1>2 DEF NextLine
  <2>2. CASE ReadCount > 0
    <3>1. buf' = buf \o SubSeq(inp, 1, ReadCount) /\ inp' = SubSeq(inp, ReadCount + 1, Len(inp))
      BY <2>1, <2>2 DEF Take
    <3>2. Len(buf') \in Nat /\ Len(buf) <= Len(buf')
      BY <1>1, <2>2, <3>1, ReadGrows, ReadType
    <3>. QED BY <1>1, <2>1, <2>2, <3>1, <3>2, ReadGrows DEF BufInv
  <2>3. CASE ~(ReadCount > 0)
    BY <1>1, <2>1, <2>3 DEF Take, BufInv
  <2>. QED BY <2>2, <2>3
<1>3. CASE StatusLine
  <2>1. UNCHANGED <<buf, inp>> /\ data < Len(buf) /\ data' \in {data, data + 1}
    BY <1>3 DEF StatusLine, server
  <2>2. Line \in Unit
    BY <1>1, <2>1, ElementOfSeq DEF Line
  <2>3. HttpOK(http')
    <3>1. \/ http' = http \/ http' = [http EXCEPT !.state = "CLOSED"]
          \/ http' = [NoResponse EXCEPT !.state = "HEADER", !.code = Line.v,
                                        !.ctx = Head(request).ctx]
      BY <1>3 DEF StatusLine, HttpClose
    <3>2. HttpOK([NoResponse EXCEPT !.state = "HEADER", !.code = Line.v,
                                    !.ctx = Head(request).ctx])
      BY DEF NoResponse, HttpOK, State
    <3>. QED BY <1>1, <1>a, <3>1, <3>2
  <2>. QED BY <1>1, <2>1, <2>3 DEF BufInv
<1>4. CASE HeaderLine
  <2>1. UNCHANGED <<buf, inp>> /\ data < Len(buf) /\ data' = data + 1
    BY <1>4 DEF HeaderLine, server
  <2>2. Line \in Unit
    BY <1>1, <2>1, ElementOfSeq DEF Line
  <2>3. PICK n \in Nat : n = Line.v
    BY <2>2, UnitValue
  <2>4. PICK x : \/ http' = [http EXCEPT !.end = n, !.length = x]
                 \/ http' = [http EXCEPT !.close = x]
                 \/ http' = [http EXCEPT !.media = x]
                 \/ http' = [http EXCEPT !.error = x]
    BY <1>4, <2>3, Zenon DEF HeaderLine
  <2>5. "START" \in State
    BY DEF State
  <2>6. /\ HttpOK([http EXCEPT !.close = x]) /\ HttpOK([http EXCEPT !.media = x])
        /\ HttpOK([http EXCEPT !.error = x]) /\ HttpOK([http EXCEPT !.end = n, !.length = x])
    BY <1>1, <2>5, HttpFields, Zenon
  <2>7. HttpOK(http')
    BY <2>4, <2>6
  <2>. QED BY <1>1, <2>1, <2>7 DEF BufInv
<1>5. CASE EndOfHeaders
  <2>1. UNCHANGED <<buf, inp>> /\ data < Len(buf) /\ data' \in {data, data + 1}
    BY <1>5 DEF EndOfHeaders, server
  <2>2. PICK n \in Nat : n = http.end + data + 1
    BY <1>1 DEF HttpOK
  <2>3. \/ http' = [http EXCEPT !.state = "CLOSED"]
        \/ http' = [http EXCEPT !.state = "COMPLETE", !.end = n]
        \/ \E x : http' = [http EXCEPT !.state = "DATA", !.end = n, !.close = x]
    BY <1>5, <2>2, Zenon DEF EndOfHeaders, HttpClose
  <2>4. {"COMPLETE", "DATA"} \subseteq State
    BY DEF State
  <2>5. HttpOK([http EXCEPT !.state = "COMPLETE", !.end = n])
    BY <1>1, <2>4, HttpFields, Zenon
  <2>6. ASSUME NEW x
        PROVE  HttpOK([http EXCEPT !.state = "DATA", !.end = n, !.close = x])
    BY <1>1, <2>4, HttpFields, Zenon
  <2>7. HttpOK(http')
    BY <1>a, <2>3, <2>5, <2>6
  <2>. QED BY <1>1, <2>1, <2>7 DEF BufInv
<1>6. CASE Complete
  <2>1. inp' = inp
    BY <1>6 DEF Complete, server
  <2>2. CASE UNCHANGED <<buf, data>> /\ http' \in {http, [http EXCEPT !.state = "CLOSED"]}
    BY <1>1, <1>a, <2>1, <2>2 DEF BufInv
  <2>3. CASE /\ buf' = SubSeq(buf, http.end + 1, Len(buf)) /\ data' = 0
             /\ http' = [http EXCEPT !.state = "START", !.end = 0]
    <3>1. http.end \in Nat
      BY <1>1 DEF HttpOK
    <3>2. buf' \in Seq(Unit) /\ Len(buf') \in Nat /\ Len(buf') <= Len(buf)
      BY <1>1, <2>3, <3>1, SubSeqProperties, SMTT(30)
    <3>3. HttpOK(http')
      BY <1>1, <2>3 DEF HttpOK, State
    <3>. QED BY <1>1, <2>1, <2>3, <3>2, <3>3 DEF BufInv
  <2>. QED BY <1>6, <2>2, <2>3 DEF Complete
<1>. QED BY <1>2, <1>3, <1>4, <1>5, <1>6 DEF Receive

\* http_data and the parser.
LEMMA BodyBuf ==
  ASSUME BufInv, Body
  PROVE  BufInv'
<1>1. /\ buf \in Seq(Unit) /\ inp \in Seq(Unit) /\ Len(buf) \in Nat /\ Len(inp) \in Nat
      /\ BufferSize \in Nat /\ Len(buf) < BufferSize /\ data \in 0 .. Len(buf) /\ HttpOK(http)
  BY LenProperties, HttpAssumption DEF BufInv, HttpAssumption
<1>2. \A s \in State : HttpOK([http EXCEPT !.state = s])
  <2>1. 0 \in Nat
    OBVIOUS
  <2>. QED BY <1>1, <2>1, HttpFields, Zenon
<1>3. ASSUME BufOK', inp' \in Seq(Unit)
      PROVE  BufInv'
  BY <1>3 DEF BufOK, BufInv
<1>4. CASE BodyNone
  BY <1>1, <1>4 DEF BodyNone, server, BufInv
<1>5. CASE BodyToClose
  <2> DEFINE b == IF ReadCount > 0 THEN buf \o SubSeq(inp, 1, ReadCount) ELSE buf
             length == Len(buf) + (IF ReadCount > 0 THEN ReadCount ELSE 0)
             h == IF conn.status = "Closed" THEN [http EXCEPT !.state = "COMPLETE"] ELSE http
             c == AfterRead(ReadCount)
  <2>1. Parse(c, h, b, length)
    BY <1>5, Zenon DEF BodyToClose
  <2>2. /\ b \in Seq(Unit) /\ Len(b) < BufferSize /\ length \in Nat /\ length = Len(b)
        /\ data \in 0 .. length
    <3>1. CASE ReadCount > 0
      BY <1>1, <3>1, ReadGrows, ReadType
    <3>2. CASE ~(ReadCount > 0)
      BY <1>1, <3>2
    <3>. QED BY <3>1, <3>2
  <2>3. HttpOK(h)
    BY <1>1, <1>2 DEF State
  <2>4. inp' \in Seq(Unit)
    BY <1>1, <1>5, ReadGrows DEF BodyToClose
  <2> HIDE DEF b, length, h, c
  <2>5. BufOK'
    BY <1>1, <2>1, <2>2, <2>3, ParseBuf
  <2>. QED BY <1>3, <2>4, <2>5
<1>6. CASE BodyWhole
  <2> DEFINE h == [http EXCEPT !.state = "COMPLETE"]
  <2>1. Parse(conn, h, buf, http.end) /\ http.end \in Nat /\ http.end <= Len(buf)
    BY <1>1, <1>6 DEF BodyWhole, HttpOK
  <2>2. HttpOK(h)
    BY <1>2 DEF State
  <2>3. inp' = inp
    BY <1>6 DEF BodyWhole, server
  <2> HIDE DEF h
  <2>4. BufOK'
    BY <1>1, <2>1, <2>2, ParseBuf
  <2>. QED BY <1>1, <1>3, <2>3, <2>4
<1>7. CASE BodyRead
  <2>1. /\ ReadCount > 0 /\ UNCHANGED <<data, http>>
        /\ buf' = buf \o SubSeq(inp, 1, ReadCount) /\ inp' = SubSeq(inp, ReadCount + 1, Len(inp))
    BY <1>7 DEF BodyRead, Take
  <2>2. Len(buf') \in Nat /\ Len(buf) <= Len(buf')
    BY <1>1, <2>1, ReadGrows, ReadType
  <2>. QED BY <1>1, <2>1, <2>2, ReadGrows DEF BufInv
<1>8. CASE BodyPart
  <2> DEFINE c == IF Room = 0 THEN conn ELSE AfterRead(ReadCount)
  <2>1. Parse(c, http, buf, Len(buf)) /\ inp' = inp
    BY <1>8 DEF BodyPart, server
  <2> HIDE DEF c
  <2>2. BufOK'
    BY <1>1, <2>1, ParseBuf
  <2>. QED BY <1>1, <1>3, <2>1, <2>2
<1>. QED BY <1>4, <1>5, <1>6, <1>7, <1>8 DEF Body

-----------------------------------------------------------------------------
(* What a step does to the connection, and to what is written to it. *)

\* tls_close: the session is shut down, or over and with it the port.
LEMMA TlsCloseType ==
  ASSUME NEW c \in Conn, Shut(c)
  PROVE  /\ TlsClose(c) \in Conn /\ Shut(TlsClose(c)) /\ TlsClose(c).secure = c.secure
         /\ TlsClose(c).type = c.type \/ TlsClose(c).type = "TCP_CLOSED"
         /\ TlsClose(c).tls \in {"NONE", "SHUTDOWN"}
<1> DEFINE d == [c EXCEPT !.tls = "NONE"]
           e == [c EXCEPT !.tls = "SHUTDOWN"]
<1>1. /\ d \in Conn /\ Shut(d) /\ d.secure = c.secure /\ d.type = c.type /\ d.tls = "NONE"
      /\ e \in Conn /\ Shut(e) /\ e.secure = c.secure /\ e.type = c.type /\ e.tls = "SHUTDOWN"
  BY DEF Conn, Shut
<1>2. TlsClose(c) \in {NetClose(d), e}
  BY DEF TlsClose
<1> HIDE DEF d, e
<1>3. Follows(d, NetClose(d)) /\ NetClose(d).tls = "NONE"
  BY <1>1, NetCloseFollows
<1>. QED BY <1>1, <1>2, <1>3 DEF Follows

\* A step of se_receive keeps what is over over, and the port.
LEMMA ClientFollows ==
  ASSUME BufInv, ConnInv, Flush \/ Receive \/ Body
  PROVE  /\ Follows(conn, conn') /\ conn.type # "NONE"
         /\ pc' \in Busy \cup {"loop", "exit"}
<1>1. /\ ReadCount \in Int /\ conn \in Conn /\ Shut(conn)
      /\ pc \in Busy /\ conn.type # "NONE"
  <2>1. ReadCount \in Int
    BY ReadType
  <2>2. pc \in Busy
    BY Zenon DEF Busy, Flush, Receive, NextLine, StatusLine, HeaderLine, EndOfHeaders, Complete,
                 Body, BodyNone, BodyToClose, BodyWhole, BodyRead, BodyPart
  <2>. QED BY <2>1, <2>2 DEF ConnInv
<1>2. Follows(conn, conn) /\ Follows(conn, AfterRead(ReadCount))
  BY <1>1, FlagsFollow, AfterReadFollows
<1>3. ASSUME NEW c, Follows(conn, c), Incomplete(c)
      PROVE  Follows(conn, conn') /\ pc' = "loop"
  BY <1>3, ReturnFollows DEF Incomplete
<1>4. ASSUME NEW c, Follows(conn, c), HttpClose(c)
      PROVE  Follows(conn, conn') /\ pc' = "loop"
  <2>1. pc' = "loop"
    BY <1>4 DEF HttpClose
  <2>. QED BY <1>1, <1>4, <2>1, HttpCloseDead
<1>5. ASSUME NEW c, NEW h, NEW b, NEW length, Follows(conn, c), Parse(c, h, b, length)
      PROVE  Follows(conn, conn') /\ (pc' = pc \/ pc' = "loop")
  <2>1. Incomplete(c) \/ (conn' = c /\ UNCHANGED pc) \/ HttpClose(c)
    BY <1>5, Zenon DEF Parse
  <2>. QED BY <1>3, <1>4, <1>5, <2>1
<1>6. CASE Flush
  <2>1. conn' \in {conn, ConnClose(conn)} /\ pc' = "receive"
    BY <1>6 DEF Flush
  <2>. QED BY <1>1, <1>2, <2>1, ConnCloseFollows DEF Busy
<1>7. CASE NextLine
  <2>1. \/ conn' = AfterRead(ReadCount) /\ UNCHANGED pc
        \/ Incomplete(AfterRead(ReadCount)) \/ Incomplete(SetTimeout(AfterRead(ReadCount)))
    BY <1>7, Zenon DEF NextLine
  <2>2. Follows(conn, SetTimeout(AfterRead(ReadCount)))
    BY <1>2, ReturnFollows
  <2>. QED BY <1>1, <1>2, <1>3, <2>1, <2>2
<1>8. CASE StatusLine \/ HeaderLine
  <2>1. (UNCHANGED <<pc, conn>>) \/ HttpClose(conn)
    BY <1>8, Zenon DEF StatusLine, HeaderLine
  <2>. QED BY <1>1, <1>2, <1>4, <2>1
<1>9. CASE EndOfHeaders \/ Complete
  <2>1. \/ HttpClose(conn) \/ Incomplete(conn)
        \/ (pc' = "body" \/ UNCHANGED pc) /\ UNCHANGED conn
    BY <1>9, Zenon DEF EndOfHeaders, Complete
  <2>. QED BY <1>1, <1>2, <1>3, <1>4, <2>1 DEF Busy
<1>10. CASE BodyNone
  <2>1. Incomplete(SetTimeout(conn)) /\ Follows(conn, SetTimeout(conn))
    BY <1>2, <1>10, ReturnFollows DEF BodyNone
  <2>. QED BY <1>1, <1>3, <2>1
<1>11. CASE BodyToClose \/ BodyWhole \/ BodyPart
  <2>1. \E h, b, length : \/ Parse(AfterRead(ReadCount), h, b, length) \/ Parse(conn, h, b, length)
                          \/ Parse(IF Room = 0 THEN conn ELSE AfterRead(ReadCount), h, b, length)
    BY <1>11, Zenon DEF BodyToClose, BodyWhole, BodyPart
  <2>2. Follows(conn, IF Room = 0 THEN conn ELSE AfterRead(ReadCount))
    BY <1>2
  <2>. QED BY <1>1, <1>2, <1>5, <2>1, <2>2
<1>12. CASE BodyRead
  BY <1>1, <1>2, <1>12 DEF BodyRead
<1>. QED BY <1>6, <1>7, <1>8, <1>9, <1>10, <1>11, <1>12 DEF Receive, Body

\* What is over stays over: nothing is sent on a connection that was closed.
LEMMA ConnStep ==
  ASSUME BufInv, ConnInv, [Next]_vars
  PROVE  ConnInv' /\ (Dead(conn) => Dead(conn'))
<1>1. /\ conn \in Conn /\ Shut(conn) /\ pc \in Busy \cup {"loop", "exit"}
      /\ pc \in Busy => conn.type # "NONE"
  BY DEF ConnInv
<1>2. ASSUME Follows(conn, conn'), pc' \in Busy \cup {"loop", "exit"},
             pc' \in Busy => conn.type # "NONE"
      PROVE  ConnInv' /\ (Dead(conn) => Dead(conn'))
  BY <1>2 DEF Follows, ConnInv
<1>3. CASE Flush \/ Receive \/ Body
  BY <1>2, <1>3, ClientFollows
<1>4. Follows(conn, conn) /\ Follows(conn, [conn EXCEPT !.ev = TRUE])
  BY <1>1, FlagsFollow
<1>5. CASE Refused
  BY <1>1, <1>2, <1>5, NetCloseFollows DEF Refused, Busy
<1>6. CASE Issue \/ Accept \/ Drain \/ Hello \/ Answer \/ Send \/ Close \/ UNCHANGED vars
  <2>1. pc' = pc /\ conn' \in {conn, [conn EXCEPT !.ev = TRUE]}
    BY <1>6 DEF Issue, Accept, Drain, Hello, Answer, Send, Close, Edge, Elsewhere, vars, client
  <2>. QED BY <1>1, <1>2, <1>4, <2>1
<1>7. CASE Exit
  <2>1. pc' = "exit" /\ conn' = conn
    BY <1>7 DEF Exit
  <2>. QED BY <1>2, <1>4, <2>1 DEF Busy
<1>8. CASE Connect
  <2>1. pc' = "loop" /\ conn.type = "NONE"
    BY <1>8 DEF Connect
  <2>2. /\ conn' \in Conn /\ conn'.status # "Closed" /\ conn'.type = "TCP_CONNECT"
        /\ conn'.secure = conn.secure /\ conn'.tls = conn.tls
    BY <1>1, <1>8, ZenonT(60) DEF Connect, Conn, SetTimeout
  <2>. QED BY <2>1, <2>2 DEF ConnInv, Shut, Dead, Busy
<1>9. CASE Poll
  <2>1. pc = "loop" /\ conn.type \in {"TCP_CONNECT", "TCP_PORT"}
    BY <1>9 DEF Poll
  <2> DEFINE c1 == [conn EXCEPT !.type = "TCP_PORT", !.queued = FALSE]
             c2 == [conn EXCEPT !.type = "TCP_PORT", !.status = "Connected",
                                !.ev = FALSE, !.wait = FALSE]
             Served(c) == /\ c \in Conn /\ c.type = "TCP_PORT" /\ Shut(c)
                          /\ c.secure = conn.secure /\ c.tls = conn.tls
  <2>2. Served(c1) /\ Served(c2)
    BY <1>1 DEF Conn, Shut
  <2>3. Session(c1) \/ Session(c2)
    BY <1>9 DEF Poll
  <2> HIDE DEF c1, c2
  <2>4. PICK c : Served(c) /\ Session(c)
    BY <2>2, <2>3
  <2>5. CASE (~c.secure \/ c.tls = "SESSION") /\ pc' = "flush" /\ conn' = c
    BY <2>1, <2>4, <2>5 DEF ConnInv, Dead, Busy, Conn
  <2>6. CASE c.tls = "NEGOTIATE" /\ pc' = "flush" /\ conn' = [c EXCEPT !.tls = "SESSION", !.end = FALSE]
    BY <2>1, <2>4, <2>6 DEF ConnInv, Dead, Busy, Conn, Shut
  <2>7. CASE c.tls = "NEGOTIATE" /\ conn' = Return([c EXCEPT !.end = TRUE]) /\ UNCHANGED pc
    <3> DEFINE d == [c EXCEPT !.end = TRUE]
    <3>1. Follows(c, d) /\ d \in Conn /\ Shut(d)
      BY <2>4, FlagsFollow DEF Follows
    <3> HIDE DEF d
    <3>2. Follows(d, Return(d))
      BY <3>1, FlagsFollow
    <3>3. Follows(c, conn')
      BY <2>7, <3>1, <3>2, FollowsTrans DEF d
    <3>4. ~Dead(conn)
      BY <2>1, <2>4, <2>7 DEF Dead
    <3>. QED BY <2>1, <2>7, <3>3, <3>4 DEF ConnInv, Follows, Busy
  <2>8. CASE conn' = Return(TlsClose([c EXCEPT !.tls = "SHUTDOWN"])) /\ UNCHANGED pc
    <3> DEFINE d == [c EXCEPT !.tls = "SHUTDOWN"]
               e == TlsClose(d)
    <3>1. d \in Conn /\ Shut(d) /\ d.secure = c.secure
      BY <2>4 DEF Conn, Shut
    <3> HIDE DEF d
    <3>2. e \in Conn /\ Shut(e) /\ e.secure = c.secure /\ e.tls \in {"NONE", "SHUTDOWN"}
      BY <3>1, TlsCloseType
    <3>3. conn' = Return(e)
      BY <2>8 DEF d
    <3> HIDE DEF e
    <3>4. Follows(e, conn')
      BY <3>2, <3>3, FlagsFollow
    <3>5. conn.secure => Dead(e)
      BY <2>4, <3>2 DEF Dead
    <3>6. ~conn.secure => ~Dead(conn)
      BY <2>1 DEF Dead
    <3>. QED BY <2>1, <2>8, <3>4, <3>5, <3>6 DEF ConnInv, Follows, Busy
  <2>. QED BY <2>4, <2>5, <2>6, <2>7, <2>8, Zenon DEF Session
<1>. QED BY <1>3, <1>5, <1>6, <1>7, <1>8, <1>9 DEF Next, Receive, Body

\* The connection is closed: what was queued is gone, and nothing is sent again.
Closed == send' = <<>> /\ http'.state = "CLOSED" /\ (Dead(conn') \/ pc' = "exit")

\* A step of se_receive but http_flush writes nothing and queues nothing.
LEMMA ReceiveQueue ==
  ASSUME BufInv, ConnInv, Receive \/ Body
  PROVE  /\ UNCHANGED <<wire, issued, answered, out>> /\ pc # "exit"
         /\ \/ Closed
            \/ UNCHANGED send /\ (http.state = "CLOSED" => http'.state = "CLOSED")
<1>1. UNCHANGED <<wire, issued, answered, out>> /\ pc # "exit"
  <2>1. CASE NextLine
    BY <2>1 DEF NextLine, Take
  <2>2. CASE StatusLine \/ HeaderLine
    BY <2>2 DEF StatusLine, HeaderLine, server
  <2>3. CASE EndOfHeaders \/ Complete
    BY <2>3 DEF EndOfHeaders, Complete, server
  <2>4. CASE BodyNone \/ BodyWhole \/ BodyPart
    BY <2>4 DEF BodyNone, BodyWhole, BodyPart, server
  <2>5. CASE BodyToClose \/ BodyRead
    BY <2>5 DEF BodyToClose, BodyRead, Take
  <2>. QED BY <2>1, <2>2, <2>3, <2>4, <2>5 DEF Receive, Body
<1>2. /\ ReadCount \in Int /\ conn \in Conn /\ Shut(conn) /\ conn.type # "NONE"
  BY ReadType, ClientFollows DEF ConnInv
<1>3. Follows(conn, conn) /\ Follows(conn, AfterRead(ReadCount))
  BY <1>2, FlagsFollow, AfterReadFollows
<1>4. [http EXCEPT !.state = "CLOSED"].state = "CLOSED"
  <2>1. HttpOK(http) /\ "CLOSED" \in State /\ 0 \in Nat
    BY DEF BufInv, State
  <2>. QED BY <2>1, HttpFields, Zenon
<1>5. ASSUME NEW c, Follows(conn, c), HttpClose(c)
      PROVE  Closed
  <2>1. send' = <<>> /\ http' = [http EXCEPT !.state = "CLOSED"]
    BY <1>5 DEF HttpClose
  <2>2. Dead(conn')
    BY <1>2, <1>5, HttpCloseDead
  <2>. QED BY <1>4, <2>1, <2>2 DEF Closed
<1>6. ASSUME NEW c, NEW h, NEW b, NEW length, Follows(conn, c), Parse(c, h, b, length)
      PROVE  Closed \/ UNCHANGED send
  <2>1. UNCHANGED send \/ HttpClose(c)
    BY <1>6, Zenon DEF Parse
  <2>. QED BY <1>5, <1>6, <2>1
<1>7. CASE NextLine \/ HeaderLine
  BY <1>1, <1>7 DEF NextLine, HeaderLine
<1>8. CASE StatusLine \/ EndOfHeaders
  <2>1. HttpClose(conn) \/ UNCHANGED send
    BY <1>8, Zenon DEF StatusLine, EndOfHeaders
  <2>2. http.state # "CLOSED"
    BY <1>8 DEF StatusLine, EndOfHeaders
  <2>. QED BY <1>1, <1>3, <1>5, <2>1, <2>2
<1>9. CASE Complete
  <2>1. UNCHANGED send
    BY <1>9 DEF Complete
  <2>2. http.state = "CLOSED" => http' = [http EXCEPT !.state = "CLOSED"]
    BY <1>9 DEF Complete
  <2>. QED BY <1>1, <1>4, <2>1, <2>2
<1>10. CASE BodyNone \/ BodyRead
  BY <1>1, <1>10 DEF BodyNone, BodyRead
<1>11. CASE BodyToClose \/ BodyWhole \/ BodyPart
  <2>1. \E h, b, length : \/ Parse(AfterRead(ReadCount), h, b, length) \/ Parse(conn, h, b, length)
                          \/ Parse(IF Room = 0 THEN conn ELSE AfterRead(ReadCount), h, b, length)
    BY <1>11, Zenon DEF BodyToClose, BodyWhole, BodyPart
  <2>2. Follows(conn, IF Room = 0 THEN conn ELSE AfterRead(ReadCount))
    BY <1>3
  <2>3. http.state # "CLOSED"
    BY <1>11 DEF BodyToClose, BodyWhole, BodyPart
  <2>. QED BY <1>1, <1>3, <1>6, <2>1, <2>2, <2>3
<1>. QED BY <1>1, <1>7, <1>8, <1>9, <1>10, <1>11 DEF Receive, Body

\* Which steps touch the queue, the wire and what the server has to send.
LEMMA StepKinds ==
  ASSUME BufInv, ConnInv, [Next]_vars
  PROVE  /\ \/ Issue \/ Flush
            \/ UNCHANGED <<wire, issued>> /\ Closed
            \/ /\ UNCHANGED <<send, wire, issued>>
               /\ http.state = "CLOSED" => http'.state = "CLOSED"
               /\ pc = "exit" => pc' = "exit"
         /\ (UNCHANGED <<answered, out>>) \/ Answer \/ Send
<1>1. CASE Receive \/ Body
  BY <1>1, ReceiveQueue
<1>2. CASE Issue \/ Flush
  <2>1. UNCHANGED <<answered, out>>
    BY <1>2 DEF Issue, Flush, server
  <2>. QED BY <1>2, <2>1
<1>3. CASE Connect \/ Poll \/ Refused
  <2>1. UNCHANGED <<answered, out>> /\ UNCHANGED <<send, wire, issued, http>> /\ pc # "exit"
    BY <1>3 DEF Connect, Poll, Refused, server
  <2>. QED BY <2>1
<1>4. CASE Exit
  <2>1. [http EXCEPT !.state = "CLOSED"].state = "CLOSED"
    <3>1. HttpOK(http) /\ "CLOSED" \in State /\ 0 \in Nat
      BY DEF BufInv, State
    <3>. QED BY <3>1, HttpFields, Zenon
  <2>2. /\ UNCHANGED <<answered, out>> /\ UNCHANGED <<wire, issued>> /\ pc' = "exit"
        /\ send' = <<>> /\ http' = [http EXCEPT !.state = "CLOSED"]
    BY <1>4 DEF Exit, server
  <2>3. Closed
    BY <2>1, <2>2 DEF Closed
  <2>. QED BY <2>2, <2>3
<1>5. CASE Accept \/ Drain \/ Hello \/ Answer \/ Send \/ Close
  <2>1. UNCHANGED <<send, wire, issued, http, pc>>
    BY <1>5 DEF Accept, Drain, Hello, Answer, Send, Close, Elsewhere
  <2>2. (UNCHANGED <<answered, out>>) \/ Answer \/ Send
    BY <1>5 DEF Accept, Drain, Hello, Close, server
  <2>. QED BY <2>1, <2>2
<1>6. CASE UNCHANGED vars
  <2>1. UNCHANGED <<answered, out>> /\ UNCHANGED <<send, wire, issued, http, pc>>
    BY <1>6 DEF vars, client, server
  <2>. QED BY <2>1
<1>. QED BY <1>1, <1>2, <1>3, <1>4, <1>5, <1>6 DEF Next, Receive, Body

-----------------------------------------------------------------------------
(* Requests on their way, and the answers. *)

SizeInv ==
    /\ issued \in Seq(0 .. MaxRequests) /\ Len(issued) <= MaxRequests
    /\ wire \in Seq(Nat) /\ send \in Seq(Nat) /\ Len(wire) + Len(send) <= Len(issued)
    /\ answered \in Seq(Shapes) /\ Len(answered) <= Len(wire)
    /\ out \in Seq(Unit)

\* Nothing is taken off a connection that is over.
LEMMA DeadNotOpen ==
  ASSUME conn \in Conn, Shut(conn), Dead(conn)
  PROVE  ~Open
  BY DEF Open, Dead, Shut

\* http_write: the request goes out at once, or behind those that wait.
LEMMA IssueWrites ==
  ASSUME NEW id, HttpWrite(id)
  PROVE  \/ Open /\ send = <<>> /\ send' = send /\ wire' = Append(wire, id)
         \/ wire' = wire /\ send' = Append(send, id)
<1>1. CASE send = <<>>
  <2>1. PICK k \in Writes(1) : /\ wire' = IF k = 1 THEN Append(wire, id) ELSE wire
                               /\ send' = IF k = 1 THEN send ELSE Append(send, id)
    BY <1>1 DEF HttpWrite
  <2>2. k = 1 => Open
    BY DEF Writes
  <2>. QED BY <1>1, <2>1, <2>2
<1>2. CASE send # <<>>
  BY <1>2 DEF HttpWrite
<1>. QED BY <1>1, <1>2

\* http_flush: a prefix of those that wait goes out.
LEMMA FlushWrites ==
  ASSUME SizeInv, Flush
  PROVE  \E k \in 0 .. Len(send) :
            /\ ~Open => k = 0
            /\ wire' \in Seq(Nat) /\ Len(wire') = Len(wire) + k
            /\ \A i \in 1 .. Len(wire) : wire'[i] = wire[i]
            /\ \A i \in 1 .. k : wire'[Len(wire) + i] = send[i]
            /\ send' \in Seq(Nat) /\ Len(send') = Len(send) - k
            /\ \A i \in 1 .. Len(send) - k : send'[i] = send[k + i]
<1>1. /\ wire \in Seq(Nat) /\ send \in Seq(Nat) /\ Len(wire) \in Nat /\ Len(send) \in Nat
      /\ \A i \in 1 .. Len(send) : send[i] \in Nat
  BY LenProperties, ElementOfSeq DEF SizeInv
<1>2. PICK k \in Writes(Len(send)) : /\ wire' = wire \o SubSeq(send, 1, k)
                                     /\ send' = SubSeq(send, k + 1, Len(send))
  BY DEF Flush
<1>3. k \in 0 .. Len(send) /\ (~Open => k = 0)
  BY <1>1 DEF Writes
<1> DEFINE part == SubSeq(send, 1, k)
<1>4. part \in Seq(Nat) /\ Len(part) = k /\ \A i \in 1 .. k : part[i] = send[i]
  BY <1>1, <1>3, SubSeqProperties
<1>5. /\ send' \in Seq(Nat) /\ Len(send') = Len(send) - k
      /\ \A i \in 1 .. Len(send) - k : send'[i] = send[k + i]
  BY <1>1, <1>2, <1>3, SubSeqProperties
<1>6. wire' = wire \o part
  BY <1>2
<1> HIDE DEF part
<1>7. /\ wire' \in Seq(Nat) /\ Len(wire') = Len(wire) + k
      /\ \A i \in 1 .. Len(wire) : wire'[i] = wire[i]
      /\ \A i \in 1 .. k : wire'[Len(wire) + i] = part[i]
  <2>1. /\ wire' \in Seq(Nat) /\ Len(wire') = Len(wire) + k
        /\ \A i \in 1 .. Len(wire) + k :
              wire'[i] = IF i <= Len(wire) THEN wire[i] ELSE part[i - Len(wire)]
    BY <1>1, <1>4, <1>6, ConcatProperties
  <2>2. \A i \in 1 .. Len(wire) : i \in 1 .. Len(wire) + k
    BY <1>1, <1>3
  <2>3. ASSUME NEW i \in 1 .. k
        PROVE  wire'[Len(wire) + i] = part[i]
    <3>1. /\ Len(wire) + i \in 1 .. Len(wire) + k /\ ~(Len(wire) + i <= Len(wire))
          /\ Len(wire) + i - Len(wire) = i
      BY <1>1, <1>3
    <3>. QED BY <2>1, <3>1
  <2>. QED BY <2>1, <2>2, <2>3
<1>8. \A i \in 1 .. k : wire'[Len(wire) + i] = send[i]
  BY <1>4, <1>7
<1>. QED BY <1>3, <1>5, <1>7, <1>8, Zenon

\* The units of a response: lines, a blank one, the document and empty lines.
LEMMA PieceKinds ==
  ASSUME NEW shape \in Shapes, NEW r \in 1 .. MaxRequests, NEW i \in 1 .. Size(shape)
  PROVE  LET u == Piece(shape, r, i)
             H == Headers(shape)
         IN  /\ u \in Unit /\ u.r = r /\ u.i = i
             /\ i < H => u.k = shape.lines[i][1] /\ u.v = shape.lines[i][2]
             /\ i < H => u.k \in {"status", "length", "close", "type", "fold"}
             /\ i = H => u.k = "blank"
             /\ i > H => u.k \in {"elem", "root", "empty"}
             /\ u.k \in {"elem", "root"} => i > H /\ u.v = i - H /\ i <= H + shape.doc
             /\ u.k = "root" <=> (i > H /\ i = H + shape.doc)
<1> DEFINE Names == {"status", "length", "close", "type", "fold"}
           u == Piece(shape, r, i)
           H == Headers(shape)
           U(k, v) == [k |-> k, v |-> v, r |-> r, i |-> i]
<1>1. shape.lines \in Seq(Names \X Nat) /\ shape.doc \in Nat /\ shape.trail \in Nat
  BY HttpAssumption DEF HttpAssumption
<1>2. Len(shape.lines) \in Nat /\ H \in Nat /\ H = Len(shape.lines) + 1 /\ i \in Nat \ {0}
  BY <1>1, LenProperties DEF Headers, Size
<1>3. CASE i < H
  <2>1. shape.lines[i] \in Names \X Nat
    BY <1>1, <1>2, <1>3, ElementOfSeq
  <2>2. shape.lines[i][1] \in Names /\ shape.lines[i][2] \in Nat
    BY <2>1
  <2>3. u = U(shape.lines[i][1], shape.lines[i][2])
    BY <1>3 DEF Piece
  <2>. QED BY <1>2, <1>3, <2>2, <2>3 DEF Unit
<1>4. CASE i = H
  BY <1>2, <1>4 DEF Piece, Unit
<1>5. CASE i > H
  <2>1. i - H \in Nat \ {0} /\ ~(i < H) /\ i # H
    BY <1>2, <1>5
  <2>2. \/ i - H < shape.doc /\ u = U("elem", i - H)
        \/ i - H = shape.doc /\ u = U("root", i - H)
        \/ i - H > shape.doc /\ u = U("empty", 0)
    BY <1>1, <2>1 DEF Piece
  <2>3. u \in Unit /\ u.r = r /\ u.i = i
    BY <1>1, <1>2, <2>1, <2>2 DEF Unit
  <2>4. /\ u.k \in {"elem", "root", "empty"}
        /\ u.k \in {"elem", "root"} => u.v = i - H /\ i - H <= shape.doc
        /\ u.k = "root" <=> i - H = shape.doc
    BY <1>1, <2>1, <2>2
  <2> HIDE DEF u, H
  <2>5. /\ i - H <= shape.doc => i <= H + shape.doc
        /\ i - H = shape.doc <=> i = H + shape.doc
    <3>1. PICK a \in Int, h \in Int, d \in Int : a = i /\ h = H /\ d = shape.doc
      BY <1>1, <1>2
    <3>2. (a - h <= d => a <= h + d) /\ (a - h = d <=> a = h + d)
      OBVIOUS
    <3>. QED BY <3>1, <3>2, Zenon
  <2>6. ~(i < H) /\ i # H
    BY <2>1
  <2>. QED BY <1>5, <2>3, <2>4, <2>5, <2>6 DEF u, H
<1>6. i < H \/ i = H \/ i > H
  BY <1>2
<1>. QED BY <1>3, <1>4, <1>5, <1>6, Zenon

LEMMA SizeType ==
  ASSUME NEW shape \in Shapes
  PROVE  /\ Size(shape) \in Nat /\ Headers(shape) \in Nat \ {0} /\ shape.doc \in Nat
         /\ Headers(shape) + shape.doc <= Size(shape)
         /\ Len(shape.lines) = Headers(shape) - 1
<1>1. /\ shape.lines \in Seq({"status", "length", "close", "type", "fold"} \X Nat)
      /\ shape.doc \in Nat /\ shape.trail \in Nat
  BY HttpAssumption DEF HttpAssumption
<1>2. Len(shape.lines) \in Nat
  BY <1>1, LenProperties
<1>. QED BY <1>1, <1>2, SMTT(30) DEF Size, Headers

\* What the server sends for a response is made of units.
LEMMA UnitsType ==
  ASSUME NEW shape \in Shapes, NEW r \in 1 .. MaxRequests
  PROVE  /\ Units(shape, r) \in Seq(Unit) /\ Len(Units(shape, r)) = Size(shape)
         /\ \A i \in 1 .. Size(shape) : Units(shape, r)[i] = Piece(shape, r, i)
<1>1. Size(shape) \in Nat
  BY SizeType
<1>2. \A i \in 1 .. Size(shape) : Piece(shape, r, i) \in Unit
  BY PieceKinds
<1> HIDE DEF Unit
<1>3. Units(shape, r) \in [1 .. Size(shape) -> Unit]
  BY <1>2 DEF Units
<1>4. Units(shape, r) \in Seq(Unit)
  BY <1>1, <1>3, SeqDef
<1>. QED BY <1>1, <1>3, <1>4, LenProperties DEF Units

\* What is on the wire and what waits is at most what was issued.
LEMMA IssueQueue ==
  ASSUME SizeInv, Issue
  PROVE  /\ issued' \in Seq(0 .. MaxRequests) /\ Len(issued') = Len(issued) + 1
         /\ Len(issued') <= MaxRequests
         /\ wire' \in Seq(Nat) /\ send' \in Seq(Nat)
         /\ Len(wire') + Len(send') = Len(wire) + Len(send) + 1
         /\ Len(wire) <= Len(wire')
<1>1. /\ issued \in Seq(0 .. MaxRequests) /\ wire \in Seq(Nat) /\ send \in Seq(Nat)
      /\ Len(issued) \in Nat /\ Len(wire) \in Nat /\ Len(send) \in Nat
      /\ Len(issued) < MaxRequests /\ MaxRequests \in Nat
  BY LenProperties, HttpAssumption DEF SizeInv, HttpAssumption, Issue
<1>2. /\ issued' \in Seq(0 .. MaxRequests) /\ Len(issued') = Len(issued) + 1
      /\ Len(issued') <= MaxRequests
  <2>1. PICK ctx \in {0, Len(issued) + 1} : issued' = Append(issued, ctx)
    BY DEF Issue
  <2>2. ctx \in 0 .. MaxRequests
    BY <1>1
  <2>. QED BY <1>1, <2>1, <2>2, AppendProperties
<1>3. PICK id \in Nat : id = Len(issued) + 1 /\ HttpWrite(id)
  BY <1>1 DEF Issue
<1>4. /\ wire' \in Seq(Nat) /\ send' \in Seq(Nat)
      /\ Len(wire') + Len(send') = Len(wire) + Len(send) + 1
      /\ Len(wire) <= Len(wire')
  <2>1. \/ send' = send /\ wire' = Append(wire, id)
        \/ wire' = wire /\ send' = Append(send, id)
    BY <1>3, IssueWrites
  <2>2. CASE send' = send /\ wire' = Append(wire, id)
    BY <1>1, <2>2, AppendProperties
  <2>3. CASE wire' = wire /\ send' = Append(send, id)
    BY <1>1, <2>3, AppendProperties
  <2>. QED BY <2>1, <2>2, <2>3
<1>. QED BY <1>2, <1>4

LEMMA SizeStep ==
  ASSUME BufInv, ConnInv, SizeInv, [Next]_vars
  PROVE  SizeInv'
<1>1. /\ issued \in Seq(0 .. MaxRequests) /\ wire \in Seq(Nat) /\ send \in Seq(Nat)
      /\ Len(issued) \in Nat /\ Len(wire) \in Nat /\ Len(send) \in Nat /\ Len(answered) \in Nat
      /\ Len(issued) <= MaxRequests /\ Len(wire) + Len(send) <= Len(issued)
      /\ answered \in Seq(Shapes) /\ Len(answered) <= Len(wire) /\ out \in Seq(Unit)
      /\ MaxRequests \in Nat
  BY LenProperties, HttpAssumption DEF SizeInv, HttpAssumption
<1>2. /\ issued' \in Seq(0 .. MaxRequests) /\ Len(issued') <= MaxRequests
      /\ wire' \in Seq(Nat) /\ send' \in Seq(Nat) /\ Len(wire') + Len(send') <= Len(issued')
      /\ Len(wire) <= Len(wire')
  <2>1. CASE Issue
    BY <1>1, <2>1, IssueQueue
  <2>2. CASE Flush
    <3>1. issued' = issued
      BY <2>2 DEF Flush
    <3>2. PICK k \in 0 .. Len(send) :
             /\ wire' \in Seq(Nat) /\ Len(wire') = Len(wire) + k
             /\ send' \in Seq(Nat) /\ Len(send') = Len(send) - k
      BY <2>2, FlushWrites
    <3>. QED BY <1>1, <3>1, <3>2
  <2>3. CASE UNCHANGED <<wire, issued>> /\ send' = <<>>
    BY <1>1, <2>3
  <2>4. CASE UNCHANGED <<send, wire, issued>>
    BY <1>1, <2>4
  <2>. QED BY <2>1, <2>2, <2>3, <2>4, StepKinds DEF Closed
<1>3. answered' \in Seq(Shapes) /\ Len(answered') <= Len(wire') /\ out' \in Seq(Unit)
  <2>0. Len(wire') \in Nat
    BY <1>2, LenProperties
  <2>1. CASE UNCHANGED <<answered, out>>
    BY <1>1, <1>2, <2>0, <2>1
  <2>2. CASE Answer
    <3>1. PICK shape \in Shapes :
             out' = Units(shape, Len(answered) + 1) /\ answered' = Append(answered, shape)
      BY <2>2 DEF Answer
    <3>2. Len(answered) < Len(wire)
      BY <2>2 DEF Answer
    <3>3. PICK r \in 1 .. MaxRequests : r = Len(answered) + 1
      BY <1>1, <3>2
    <3>4. out' \in Seq(Unit)
      BY <3>1, <3>3, UnitsType
    <3>5. answered' \in Seq(Shapes) /\ Len(answered') = Len(answered) + 1
      BY <1>1, <3>1, AppendProperties
    <3>. QED BY <1>1, <1>2, <2>0, <3>2, <3>4, <3>5
  <2>3. CASE Send
    <3>1. PICK n \in 1 .. Len(out) : out' = SubSeq(out, n + 1, Len(out))
      BY <2>3 DEF Send
    <3>2. out' \in Seq(Unit)
      BY <1>1, <3>1, SubSeqProperties
    <3>3. answered' = answered
      BY <2>3 DEF Send
    <3>. QED BY <1>1, <1>2, <2>0, <3>2, <3>3
  <2>. QED BY <2>1, <2>2, <2>3, StepKinds
<1>. QED BY <1>2, <1>3 DEF SizeInv

LEMMA BufStep ==
  ASSUME BufInv, SizeInv, [Next]_vars
  PROVE  BufInv'
<1>1. buf \in Seq(Unit) /\ inp \in Seq(Unit) /\ HttpOK(http)
  BY DEF BufInv
<1>2. CASE Receive \/ Body
  BY <1>2, ReceiveBuf, BodyBuf
<1>3. CASE Issue \/ Connect \/ Poll \/ Refused \/ Flush
  <2>1. UNCHANGED <<buf, inp, data, http>>
    BY <1>3 DEF Issue, Connect, Poll, Refused, Flush, server
  <2>. QED BY <2>1 DEF BufInv
<1>4. CASE Exit
  <2>1. UNCHANGED <<buf, inp, data>> /\ http' = [http EXCEPT !.state = "CLOSED"]
    BY <1>4 DEF Exit, server
  <2>2. "CLOSED" \in State /\ 0 \in Nat
    BY DEF State
  <2>3. HttpOK([http EXCEPT !.state = "CLOSED"])
    BY <1>1, <2>2, HttpFields, Zenon
  <2>. QED BY <2>1, <2>3 DEF BufInv
<1>5. CASE Accept \/ Drain \/ Hello \/ Answer \/ Close \/ UNCHANGED vars
  <2>1. UNCHANGED <<buf, inp, data, http>>
    BY <1>5 DEF Accept, Drain, Hello, Answer, Close, Elsewhere, server, vars, client
  <2>. QED BY <2>1 DEF BufInv
<1>6. CASE Send
  <2>1. UNCHANGED <<buf, data, http>>
    BY <1>6 DEF Send, Elsewhere
  <2>2. PICK n \in 1 .. Len(out) : inp' = inp \o SubSeq(out, 1, n)
    BY <1>6 DEF Send
  <2>3. out \in Seq(Unit) /\ Len(out) \in Nat /\ \A i \in 1 .. Len(out) : out[i] \in Unit
    BY LenProperties, ElementOfSeq DEF SizeInv
  <2> DEFINE part == SubSeq(out, 1, n)
  <2>4. part \in Seq(Unit)
    BY <2>3, SubSeqProperties
  <2>5. inp' = inp \o part
    BY <2>2
  <2> HIDE DEF part
  <2>6. inp' \in Seq(Unit)
    BY <1>1, <2>4, <2>5, ConcatProperties
  <2>. QED BY <2>1, <2>6 DEF BufInv
<1>. QED BY <1>2, <1>3, <1>4, <1>5, <1>6 DEF Next, Receive, Body

\* The requests are numbered as they are made: those on the wire are the first,
\* and those in the queue follow them unless the connection is over.
Whole ==
    /\ Len(wire) + Len(send) = Len(issued)
    /\ \A i \in 1 .. Len(send) : send[i] = Len(wire) + i

OrderInv ==
    /\ \A i \in 1 .. Len(wire) : wire[i] = i
    /\ Whole \/ (http.state = "CLOSED" /\ (Dead(conn) \/ pc = "exit"))

LEMMA OrderStep ==
  ASSUME BufInv, ConnInv, SizeInv, OrderInv, [Next]_vars
  PROVE  OrderInv'
<1>1. /\ wire \in Seq(Nat) /\ send \in Seq(Nat) /\ issued \in Seq(0 .. MaxRequests)
      /\ Len(wire) \in Nat /\ Len(send) \in Nat /\ Len(issued) \in Nat
      /\ conn \in Conn /\ Shut(conn) /\ (Dead(conn) => Dead(conn'))
  BY LenProperties, ConnStep DEF SizeInv, ConnInv
<1>2. CASE Issue
  <2>1. PICK id \in Nat : id = Len(issued) + 1 /\ HttpWrite(id)
    BY <1>1, <1>2 DEF Issue
  <2>2. pc = "loop" /\ UNCHANGED <<conn, http, pc>> /\ Len(issued') = Len(issued) + 1
    BY <1>2, IssueQueue DEF Issue
  <2>3. CASE Open /\ send = <<>> /\ send' = send /\ wire' = Append(wire, id)
    <3>1. Whole
      BY <1>1, <2>2, <2>3, DeadNotOpen DEF OrderInv
    <3>2. id = Len(wire) + 1
      BY <1>1, <2>1, <2>3, <3>1 DEF Whole
    <3>3. /\ Len(wire') = Len(wire) + 1 /\ wire'[Len(wire) + 1] = id
          /\ \A i \in 1 .. Len(wire) : wire'[i] = wire[i]
      BY <1>1, <2>3, AppendProperties
    <3>4. ASSUME NEW i \in 1 .. Len(wire') PROVE wire'[i] = i
      <4>1. i \in 1 .. Len(wire) \/ i = Len(wire) + 1
        BY <1>1, <3>3
      <4>2. CASE i \in 1 .. Len(wire)
        BY <3>3, <4>2 DEF OrderInv
      <4>. QED BY <3>2, <3>3, <4>1, <4>2
    <3>5. Len(send') = 0 /\ Len(wire') + Len(send') = Len(issued')
      BY <1>1, <2>2, <2>3, <3>1, <3>3 DEF Whole
    <3>6. Whole'
      BY <3>5 DEF Whole
    <3>. QED BY <3>4, <3>6 DEF OrderInv
  <2>4. CASE wire' = wire /\ send' = Append(send, id)
    <3>1. /\ Len(send') = Len(send) + 1 /\ send'[Len(send) + 1] = id
          /\ \A i \in 1 .. Len(send) : send'[i] = send[i]
      BY <1>1, <2>4, AppendProperties
    <3>2. ASSUME Whole PROVE Whole'
      <4>1. /\ Len(wire) + Len(send) = Len(issued) /\ Len(wire') = Len(wire)
            /\ \A i \in 1 .. Len(send) : send[i] = Len(wire) + i
        BY <2>4, <3>2 DEF Whole
      <4>2. Len(wire') + Len(send') = Len(issued') /\ id = Len(wire) + (Len(send) + 1)
        <5>1. /\ Len(wire) \in Nat /\ Len(send) \in Nat /\ Len(issued) \in Nat
              /\ Len(wire) + Len(send) = Len(issued) /\ Len(wire') = Len(wire)
              /\ Len(send') = Len(send) + 1 /\ Len(issued') = Len(issued) + 1
              /\ id = Len(issued) + 1
          BY <1>1, <2>1, <2>2, <3>1, <4>1, Zenon
        <5>. QED BY <5>1
      <4>3. ASSUME NEW i \in 1 .. Len(send') PROVE send'[i] = Len(wire') + i
        <5>1. i \in 1 .. Len(send) \/ i = Len(send) + 1
          BY <1>1, <3>1
        <5>. QED BY <3>1, <4>1, <4>2, <5>1
      <4>. QED BY <4>2, <4>3 DEF Whole
    <3>. QED BY <2>2, <2>4, <3>2 DEF OrderInv
  <2>. QED BY <2>1, <2>3, <2>4, IssueWrites
<1>3. CASE Flush
  <2>1. PICK k \in 0 .. Len(send) :
           /\ ~Open => k = 0
           /\ wire' \in Seq(Nat) /\ Len(wire') = Len(wire) + k
           /\ \A i \in 1 .. Len(wire) : wire'[i] = wire[i]
           /\ \A i \in 1 .. k : wire'[Len(wire) + i] = send[i]
           /\ send' \in Seq(Nat) /\ Len(send') = Len(send) - k
           /\ \A i \in 1 .. Len(send) - k : send'[i] = send[k + i]
    BY <1>3, FlushWrites
  <2>2. pc = "flush" /\ UNCHANGED <<http, issued>>
    BY <1>3 DEF Flush
  <2>3. CASE Whole
    <3>1. ASSUME NEW i \in 1 .. Len(wire') PROVE wire'[i] = i
      <4>1. CASE i \in 1 .. Len(wire)
        BY <2>1, <4>1 DEF OrderInv
      <4>2. CASE i \notin 1 .. Len(wire)
        <5>1. PICK j \in 1 .. k : i = Len(wire) + j
          <6>1. i - Len(wire) \in 1 .. k /\ i = Len(wire) + (i - Len(wire))
            BY <1>1, <2>1, <4>2
          <6>. QED BY <6>1
        <5>2. j \in 1 .. Len(send)
          BY <1>1
        <5>3. wire'[Len(wire) + j] = send[j] /\ send[j] = Len(wire) + j
          BY <2>1, <2>3, <5>2 DEF Whole
        <5>. QED BY <5>1, <5>3
      <4>. QED BY <4>1, <4>2
    <3>2. Len(wire') + Len(send') = Len(issued')
      <4>1. /\ Len(wire) \in Nat /\ Len(send) \in Nat /\ k \in 0 .. Len(send)
            /\ Len(wire) + Len(send) = Len(issued) /\ issued' = issued
            /\ Len(wire') = Len(wire) + k /\ Len(send') = Len(send) - k
        BY <1>1, <2>1, <2>2, <2>3, Zenon DEF Whole
      <4>. QED BY <4>1
    <3>3. ASSUME NEW i \in 1 .. Len(send') PROVE send'[i] = Len(wire') + i
      <4>1. i \in 1 .. Len(send) - k /\ k + i \in 1 .. Len(send)
        BY <1>1, <2>1
      <4>2. send'[i] = Len(wire) + (k + i)
        BY <2>1, <2>3, <4>1 DEF Whole
      <4>. QED BY <1>1, <2>1, <4>1, <4>2
    <3>4. Whole'
      BY <3>2, <3>3 DEF Whole
    <3>. QED BY <3>1, <3>4 DEF OrderInv
  <2>4. CASE http.state = "CLOSED" /\ Dead(conn)
    <3>1. k = 0
      BY <1>1, <2>1, <2>4, DeadNotOpen
    <3>2. \A i \in 1 .. Len(wire') : wire'[i] = i
      BY <1>1, <2>1, <3>1 DEF OrderInv
    <3>. QED BY <1>1, <2>2, <2>4, <3>2 DEF OrderInv
  <2>. QED BY <2>2, <2>3, <2>4 DEF OrderInv
<1>4. CASE UNCHANGED <<wire, issued>> /\ Closed
  BY <1>4 DEF OrderInv, Closed
<1>5. CASE /\ UNCHANGED <<send, wire, issued>>
           /\ http.state = "CLOSED" => http'.state = "CLOSED"
           /\ pc = "exit" => pc' = "exit"
  BY <1>1, <1>5 DEF OrderInv, Whole
<1>. QED BY <1>2, <1>3, <1>4, <1>5, StepKinds

-----------------------------------------------------------------------------
(* The data of a connection, in the buffer or on its way: the responses one *)
(* behind the other, of which the client has taken the first units.         *)

\* Unit v comes behind unit u in the responses ans.
Follow(u, v, ans) ==
    \/ v.r = u.r /\ v.i = u.i + 1
    \/ v.r = u.r + 1 /\ v.i = 1 /\ u.i = Size(ans[u.r])

StreamOK(q, ans) ==
    /\ \A p \in 1 .. Len(q) : /\ q[p].r \in 1 .. Len(ans)
                              /\ q[p].i \in 1 .. Size(ans[q[p].r])
                              /\ q[p] = Piece(ans[q[p].r], q[p].r, q[p].i)
    /\ \A p \in 1 .. Len(q) - 1 : Follow(q[p], q[p + 1], ans)
    /\ Len(q) > 0 => q[Len(q)].r = Len(ans) /\ q[Len(q)].i = Size(ans[Len(ans)])

\* Behind p units of the stream there is nothing of the first n responses but
\* what is behind the headers of the last.
At(q, ans, n, p) ==
    \/ p = Len(q) /\ n = Len(ans)
    \/ p < Len(q) /\ q[p + 1].r = n /\ q[p + 1].i > Headers(ans[n])
    \/ p < Len(q) /\ q[p + 1].r = n + 1 /\ q[p + 1].i = 1

Responses(ans) == ans \in Seq(Shapes) /\ Len(ans) <= MaxRequests

\* What the place of a unit says of it.
Kinds(shape, u) ==
    LET H == Headers(shape)
    IN  /\ u.i < H => /\ u.k = shape.lines[u.i][1] /\ u.v = shape.lines[u.i][2]
                      /\ u.k \in {"status", "length", "close", "type", "fold"}
        /\ u.i = H => u.k = "blank"
        /\ u.i > H => u.k \in {"elem", "root", "empty"}
        /\ u.k \in {"elem", "root"} => u.i > H /\ u.v = u.i - H /\ u.i <= H + shape.doc
        /\ u.k = "root" <=> (u.i > H /\ u.i = H + shape.doc)

LEMMA UnitKinds ==
  ASSUME NEW q \in Seq(Unit), NEW ans, Responses(ans), StreamOK(q, ans), NEW p \in 1 .. Len(q)
  PROVE  /\ q[p] \in Unit /\ q[p].r \in 1 .. Len(ans) /\ ans[q[p].r] \in Shapes
         /\ q[p].i \in 1 .. Size(ans[q[p].r]) /\ Kinds(ans[q[p].r], q[p])
<1> DEFINE r == q[p].r
           i == q[p].i
           shape == ans[r]
<1>1. /\ r \in 1 .. Len(ans) /\ i \in 1 .. Size(shape) /\ q[p] = Piece(shape, r, i)
      /\ q[p] \in Unit
  BY ElementOfSeq DEF StreamOK
<1>2. shape \in Shapes /\ r \in 1 .. MaxRequests
  <2>1. Len(ans) \in Nat /\ ans \in Seq(Shapes) /\ Len(ans) <= MaxRequests /\ MaxRequests \in Nat
    BY LenProperties, HttpAssumption DEF Responses, HttpAssumption
  <2>. QED BY <1>1, <2>1, ElementOfSeq
<1> HIDE DEF r, i, shape
<1>3. q[p].r = r /\ q[p].i = i /\ ans[r] = shape
  BY DEF r, i, shape
<1>4. Kinds(shape, Piece(shape, r, i))
  BY <1>1, <1>2, PieceKinds DEF Kinds
<1>. QED BY <1>1, <1>2, <1>3, <1>4

LEMMA InShapes ==
  ASSUME NEW ans, Responses(ans)
  PROVE  /\ Len(ans) \in Nat /\ \A r \in 1 .. Len(ans) : ans[r] \in Shapes
  BY LenProperties, ElementOfSeq DEF Responses

\* A unit that does not end its response is followed by the next one of it.
LEMMA NextUnit ==
  ASSUME NEW q \in Seq(Unit), NEW ans, Responses(ans), StreamOK(q, ans), NEW p \in 1 .. Len(q),
         q[p].i < Size(ans[q[p].r])
  PROVE  p < Len(q) /\ q[p + 1].r = q[p].r /\ q[p + 1].i = q[p].i + 1
<1>1. Len(q) \in Nat /\ Len(ans) \in Nat /\ Size(ans[q[p].r]) \in Nat /\ q[p].i \in Nat
  BY UnitKinds, InShapes, LenProperties, SizeType
<1>2. p # Len(q)
  BY <1>1 DEF StreamOK
<1>3. p \in 1 .. Len(q) - 1
  BY <1>1, <1>2
<1>4. Follow(q[p], q[p + 1], ans)
  BY <1>3 DEF StreamOK
<1>. QED BY <1>1, <1>3, <1>4 DEF Follow

\* So are the units behind it, up to the end of the response.
LEMMA NextUnits ==
  ASSUME NEW q \in Seq(Unit), NEW ans, Responses(ans), StreamOK(q, ans), NEW p \in 1 .. Len(q),
         NEW n \in Nat, q[p].i + n <= Size(ans[q[p].r])
  PROVE  p + n <= Len(q) /\ q[p + n].r = q[p].r /\ q[p + n].i = q[p].i + n
<1> DEFINE Bad == {k \in 0 .. n : ~(/\ p + k <= Len(q) /\ q[p + k].r = q[p].r
                                    /\ q[p + k].i = q[p].i + k)}
<1>1. Len(q) \in Nat /\ Size(ans[q[p].r]) \in Nat /\ q[p].i \in Nat /\ p \in Nat
  BY UnitKinds, LenProperties, SizeType
<1>2. SUFFICES ASSUME Bad # {} PROVE FALSE
  OBVIOUS
<1>3. PICK k \in Bad : \A m \in Bad : ~(m < k)
  <2>1. Bad \subseteq Nat
    OBVIOUS
  <2> HIDE DEF Bad
  <2>2. PICK k \in Bad : \A m \in Bad : ~(<<m, k>> \in OpToRel(<, Nat))
    BY <1>2, <2>1, WFMin, NatLessThanWellFounded
  <2>. QED BY <2>1, <2>2 DEF OpToRel
<1>4. k \in 0 .. n /\ k \in Nat
  OBVIOUS
<1>5. k # 0
  BY <1>1
<1>6. PICK m \in 0 .. n : k = m + 1
  <2>1. k - 1 \in 0 .. n /\ k = (k - 1) + 1
    BY <1>5
  <2>. QED BY <2>1
<1>7. p + m <= Len(q) /\ q[p + m].r = q[p].r /\ q[p + m].i = q[p].i + m
  <2>1. m < k
    BY <1>6
  <2>2. m \notin Bad
    BY <1>3, <2>1
  <2>. QED BY <2>2
<1>8. PICK x \in 1 .. Len(q) : x = p + m
  BY <1>1, <1>7
<1>9. /\ p + m < Len(q) /\ q[(p + m) + 1].r = q[p].r /\ q[(p + m) + 1].i = q[p].i + m + 1
  <2>1. q[x].i < Size(ans[q[x].r])
    <3>1. PICK a \in Nat, z \in Nat : a = q[p].i /\ z = Size(ans[q[p].r])
      BY <1>1
    <3>2. a + n <= z
      BY <3>1
    <3>3. a + m < z
      BY <1>4, <1>6, <3>2
    <3>4. q[x].i = a + m /\ q[x].r = q[p].r
      BY <1>7, <1>8, <3>1
    <3>. QED BY <3>1, <3>3, <3>4
  <2>2. x < Len(q) /\ q[x + 1].r = q[x].r /\ q[x + 1].i = q[x].i + 1
    BY <2>1, NextUnit
  <2>. QED BY <1>7, <1>8, <2>2
<1>10. p + k = (p + m) + 1 /\ q[p].i + k = q[p].i + m + 1 /\ p + m \in Nat
  <2>1. PICK a \in Nat : a = q[p].i
    BY <1>1
  <2>2. p + (m + 1) = (p + m) + 1 /\ a + (m + 1) = a + m + 1 /\ p + m \in Nat
    BY <1>1
  <2>. QED BY <1>6, <2>1, <2>2
<1>11. p + k <= Len(q)
  <2>1. PICK a \in Nat : a = p + m
    BY <1>10
  <2>2. a < Len(q) /\ p + k = a + 1
    BY <1>9, <1>10, <2>1
  <2>3. a + 1 <= Len(q)
    BY <1>1, <2>2
  <2>. QED BY <2>2, <2>3
<1>12. q[p + k].r = q[p].r /\ q[p + k].i = q[p].i + k
  BY <1>9, <1>10, Zenon
<1>. QED BY <1>11, <1>12

\* Behind a unit that is not one of the headers.
LEMMA Behind ==
  ASSUME NEW q \in Seq(Unit), NEW ans, Responses(ans), StreamOK(q, ans), NEW p \in 1 .. Len(q),
         q[p].i >= Headers(ans[q[p].r])
  PROVE  At(q, ans, q[p].r, p)
<1>1. /\ Len(q) \in Nat /\ Len(ans) \in Nat /\ q[p].i \in Nat
      /\ Headers(ans[q[p].r]) \in Nat
  BY UnitKinds, InShapes, LenProperties, SizeType
<1>2. CASE p = Len(q)
  BY <1>1, <1>2 DEF StreamOK, At
<1>3. CASE p # Len(q)
  <2>1. p \in 1 .. Len(q) - 1
    BY <1>1, <1>3
  <2>2. Follow(q[p], q[p + 1], ans)
    BY <2>1 DEF StreamOK
  <2>3. p < Len(q)
    BY <1>1, <2>1
  <2>. QED BY <1>1, <2>2, <2>3 DEF Follow, At
<1>. QED BY <1>2, <1>3

\* The client drops what it has handled.
LEMMA StreamDrop ==
  ASSUME NEW q \in Seq(Unit), NEW ans, StreamOK(q, ans), NEW d \in 0 .. Len(q)
  PROVE  LET t == SubSeq(q, d + 1, Len(q))
         IN  /\ t \in Seq(Unit) /\ Len(t) = Len(q) - d
             /\ \A p \in 1 .. Len(q) - d : t[p] = q[d + p]
             /\ StreamOK(t, ans)
             /\ \A n \in Nat, p \in 0 .. Len(q) - d : At(q, ans, n, d + p) => At(t, ans, n, p)
<1> DEFINE t == SubSeq(q, d + 1, Len(q))
<1>1. Len(q) \in Nat /\ d \in Nat /\ \A i \in d + 1 .. Len(q) : q[i] \in Unit
  BY LenProperties, ElementOfSeq
<1>2. /\ t \in Seq(Unit) /\ Len(t) = Len(q) - d
      /\ \A p \in 1 .. Len(q) - d : t[p] = q[d + p]
  <2> HIDE DEF Unit
  <2>1. d + 1 \in Int /\ Len(q) \in Int
    BY <1>1
  <2>2. /\ SubSeq(q, d + 1, Len(q)) \in Seq(Unit)
        /\ Len(SubSeq(q, d + 1, Len(q))) = IF d + 1 <= Len(q) THEN Len(q) - (d + 1) + 1 ELSE 0
        /\ \A i \in 1 .. Len(q) - (d + 1) + 1 : SubSeq(q, d + 1, Len(q))[i] = q[(d + 1) + i - 1]
    BY <1>1, <2>1, SubSeqProperties
  <2>3. \A i \in 1 .. Len(q) - d : (d + 1) + i - 1 = d + i
    BY <1>1
  <2>4. Len(q) - (d + 1) + 1 = Len(q) - d /\ (~(d + 1 <= Len(q)) => Len(q) - d = 0)
    BY <1>1
  <2>. QED BY <2>2, <2>3, <2>4
<1> HIDE DEF t
<1>3. StreamOK(t, ans)
  <2>1. ASSUME NEW p \in 1 .. Len(t)
        PROVE  d + p \in 1 .. Len(q) /\ t[p] = q[d + p]
    BY <1>1, <1>2
  <2>2. ASSUME NEW p \in 1 .. Len(t) - 1
        PROVE  Follow(t[p], t[p + 1], ans)
    <3>1. d + p \in 1 .. Len(q) - 1 /\ p \in 1 .. Len(t) /\ p + 1 \in 1 .. Len(t)
          /\ d + (p + 1) = (d + p) + 1
      BY <1>1, <1>2
    <3>2. Follow(q[d + p], q[(d + p) + 1], ans)
      BY <3>1 DEF StreamOK
    <3>3. t[p] = q[d + p] /\ t[p + 1] = q[(d + p) + 1]
      BY <2>1, <3>1, SMTT(30)
    <3>. QED BY <3>2, <3>3
  <2>3. ASSUME Len(t) > 0 PROVE t[Len(t)] = q[Len(q)] /\ Len(q) > 0
    <3>1. Len(t) \in 1 .. Len(t) /\ d + Len(t) = Len(q) /\ Len(q) > 0
      BY <1>1, <1>2, <2>3
    <3>. QED BY <2>1, <3>1
  <2>4. \A p \in 1 .. Len(t) : /\ t[p].r \in 1 .. Len(ans)
                               /\ t[p].i \in 1 .. Size(ans[t[p].r])
                               /\ t[p] = Piece(ans[t[p].r], t[p].r, t[p].i)
    BY <2>1 DEF StreamOK
  <2>5. Len(t) > 0 => t[Len(t)].r = Len(ans) /\ t[Len(t)].i = Size(ans[Len(ans)])
    BY <2>3 DEF StreamOK
  <2>. QED BY <2>2, <2>4, <2>5 DEF StreamOK
<1>4. ASSUME NEW n \in Nat, NEW p \in 0 .. Len(q) - d, At(q, ans, n, d + p)
      PROVE  At(t, ans, n, p)
  <2>1. CASE d + p = Len(q)
    <3>1. p = Len(t) /\ ~(d + p < Len(q))
      BY <1>1, <1>2, <2>1
    <3>2. n = Len(ans)
      BY <1>4, <3>1 DEF At
    <3>. QED BY <3>1, <3>2 DEF At
  <2>2. CASE d + p # Len(q)
    <3>1. p < Len(t) /\ p + 1 \in 1 .. Len(q) - d /\ d + (p + 1) = (d + p) + 1
      BY <1>1, <1>2, <2>2
    <3>2. t[p + 1] = q[(d + p) + 1]
      BY <1>2, <3>1
    <3>. QED BY <1>4, <2>2, <3>1, <3>2 DEF At
  <2>. QED BY <2>1, <2>2
<1>. QED BY <1>2, <1>3, <1>4 DEF t

\* The server answers the next request.
LEMMA StreamAnswer ==
  ASSUME NEW q \in Seq(Unit), NEW ans, Responses(ans), StreamOK(q, ans), Len(ans) < MaxRequests,
         NEW shape \in Shapes
  PROVE  LET t == q \o Units(shape, Len(ans) + 1)
             a == Append(ans, shape)
         IN  /\ Responses(a) /\ Len(a) = Len(ans) + 1 /\ \A r \in 1 .. Len(ans) : a[r] = ans[r]
             /\ t \in Seq(Unit) /\ Len(q) <= Len(t) /\ \A p \in 1 .. Len(q) : t[p] = q[p]
             /\ StreamOK(t, a)
             /\ \A n \in Nat, p \in 0 .. Len(q) : At(q, ans, n, p) => At(t, a, n, p)
<1> DEFINE t == q \o Units(shape, Len(ans) + 1)
           a == Append(ans, shape)
           N == Len(ans) + 1
           S == Size(shape)
<1>1. /\ Len(q) \in Nat /\ Len(ans) \in Nat /\ ans \in Seq(Shapes) /\ MaxRequests \in Nat
      /\ S \in Nat /\ S >= 1 /\ N \in 1 .. MaxRequests
  <2>1. /\ Len(q) \in Nat /\ Len(ans) \in Nat /\ ans \in Seq(Shapes) /\ MaxRequests \in Nat
    BY LenProperties, InShapes, HttpAssumption DEF Responses, HttpAssumption
  <2>2. S \in Nat /\ S >= 1
    BY SizeType
  <2>. QED BY <2>1, <2>2
<1>2. /\ Responses(a) /\ Len(a) = N /\ a[N] = shape /\ \A r \in 1 .. Len(ans) : a[r] = ans[r]
  BY <1>1, AppendProperties DEF Responses
<1> DEFINE u == Units(shape, N)
<1>3. u \in Seq(Unit) /\ Len(u) = S /\ \A i \in 1 .. S : u[i] = Piece(shape, N, i)
  BY <1>1, UnitsType
<1>4. \A i \in 1 .. S : u[i].r = N /\ u[i].i = i
  BY <1>1, <1>3, PieceKinds
<1>5. t = q \o u
  OBVIOUS
<1> HIDE DEF u, S, N, t, a
<1>6. /\ t \in Seq(Unit) /\ Len(t) = Len(q) + S
      /\ \A i \in 1 .. Len(q) + S : t[i] = IF i <= Len(q) THEN q[i] ELSE u[i - Len(q)]
  <2>1. /\ q \o u \in Seq(Unit) /\ Len(q \o u) = Len(q) + Len(u)
        /\ \A i \in 1 .. Len(q) + Len(u) : (q \o u)[i] = IF i <= Len(q) THEN q[i] ELSE u[i - Len(q)]
    BY <1>3, ConcatProperties, Zenon
  <2>2. Len(u) = S
    BY <1>3
  <2>. QED BY <1>5, <2>1, <2>2, Zenon
<1>7. \A p \in 1 .. Len(q) : t[p] = q[p]
  BY <1>1, <1>6
<1>8. ASSUME NEW i \in 1 .. S
      PROVE  t[Len(q) + i] = u[i]
  <2>1. /\ Len(q) + i \in 1 .. Len(q) + S /\ ~(Len(q) + i <= Len(q)) /\ (Len(q) + i) - Len(q) = i
    BY <1>1
  <2>. QED BY <1>6, <2>1
<1>9. ASSUME NEW p \in 1 .. Len(t)
      PROVE  \/ p \in 1 .. Len(q)
             \/ \E i \in 1 .. S : p = Len(q) + i
  <2>1. p \in 1 .. Len(q) \/ (p - Len(q) \in 1 .. S /\ p = Len(q) + (p - Len(q)))
    BY <1>1, <1>6
  <2>. QED BY <2>1
<1>10. StreamOK(t, a)
  <2>1. ASSUME NEW p \in 1 .. Len(t)
        PROVE  /\ t[p].r \in 1 .. Len(a) /\ t[p].i \in 1 .. Size(a[t[p].r])
               /\ t[p] = Piece(a[t[p].r], t[p].r, t[p].i)
    <3>1. CASE p \in 1 .. Len(q)
      <4>1. /\ q[p].r \in 1 .. Len(ans) /\ q[p].i \in 1 .. Size(ans[q[p].r])
            /\ q[p] = Piece(ans[q[p].r], q[p].r, q[p].i)
        BY <3>1 DEF StreamOK
      <4>2. t[p] = q[p] /\ a[q[p].r] = ans[q[p].r]
        BY <1>2, <1>7, <3>1, <4>1
      <4>3. q[p].r \in 1 .. Len(a)
        BY <1>1, <1>2, <4>1 DEF N
      <4>. QED BY <4>1, <4>2, <4>3
    <3>2. ASSUME NEW i \in 1 .. S, p = Len(q) + i
          PROVE  /\ t[p].r \in 1 .. Len(a) /\ t[p].i \in 1 .. Size(a[t[p].r])
                 /\ t[p] = Piece(a[t[p].r], t[p].r, t[p].i)
      <4>1. t[p] = u[i] /\ u[i] = Piece(shape, N, i) /\ u[i].r = N /\ u[i].i = i
        BY <1>3, <1>4, <1>8, <3>2
      <4>2. N \in 1 .. Len(a) /\ a[N] = shape /\ i \in 1 .. Size(shape)
        BY <1>1, <1>2 DEF S
      <4>. QED BY <4>1, <4>2
    <3>. QED BY <1>9, <3>1, <3>2
  <2>2. ASSUME NEW p \in 1 .. Len(t) - 1
        PROVE  Follow(t[p], t[p + 1], a)
    <3>1. p \in 1 .. Len(t) /\ p \in Nat
      BY <1>1, <1>6
    <3>2. CASE p \in 1 .. Len(q) - 1
      <4>1. Follow(q[p], q[p + 1], ans) /\ p \in 1 .. Len(q) /\ p + 1 \in 1 .. Len(q)
        BY <1>1, <3>2 DEF StreamOK
      <4>2. t[p] = q[p] /\ t[p + 1] = q[p + 1] /\ a[q[p].r] = ans[q[p].r]
        BY <1>2, <1>7, <4>1 DEF StreamOK
      <4>. QED BY <4>1, <4>2 DEF Follow
    <3>3. CASE p = Len(q)
      <4>1. p \in 1 .. Len(q) /\ Len(q) > 0 /\ 1 \in 1 .. S
        BY <1>1, <3>1, <3>3
      <4>2. q[p].r = Len(ans) /\ q[p].i = Size(ans[Len(ans)])
        BY <3>3, <4>1 DEF StreamOK
      <4>3. t[p + 1].r = N /\ t[p + 1].i = 1 /\ t[p] = q[p]
        BY <1>4, <1>7, <1>8, <3>3, <4>1
      <4>4. Len(ans) \in 1 .. Len(ans)
        BY <4>1, <4>2 DEF StreamOK
      <4>. QED BY <1>2, <4>2, <4>3, <4>4 DEF Follow, N
    <3>4. ASSUME NEW i \in 1 .. S, p = Len(q) + i
          PROVE  Follow(t[p], t[p + 1], a)
      <4>1. i + 1 \in 1 .. S /\ p + 1 = Len(q) + (i + 1)
        BY <1>1, <1>6, <3>4
      <4>2. t[p] = u[i] /\ t[p + 1] = u[i + 1]
        BY <1>8, <3>4, <4>1
      <4>. QED BY <1>4, <4>1, <4>2 DEF Follow
    <3>5. p \in 1 .. Len(q) => p \in 1 .. Len(q) - 1 \/ p = Len(q)
      BY <1>1
    <3>. QED BY <1>9, <3>1, <3>2, <3>3, <3>4, <3>5, Zenon
  <2>3. t[Len(t)].r = Len(a) /\ t[Len(t)].i = Size(a[Len(a)])
    <3>1. S \in 1 .. S
      BY <1>1
    <3>2. t[Len(t)] = u[S]
      BY <1>6, <1>8, <3>1
    <3>. QED BY <1>2, <1>4, <3>1, <3>2 DEF S
  <2>. QED BY <2>1, <2>2, <2>3 DEF StreamOK
<1>11. ASSUME NEW n \in Nat, NEW p \in 0 .. Len(q), At(q, ans, n, p)
       PROVE  At(t, a, n, p)
  <2>1. CASE p = Len(q)
    <3>1. n = Len(ans) /\ 1 \in 1 .. S /\ p < Len(t)
      BY <1>1, <1>6, <1>11, <2>1 DEF At
    <3>2. t[p + 1].r = N /\ t[p + 1].i = 1
      BY <1>4, <1>8, <2>1, <3>1
    <3>. QED BY <3>1, <3>2 DEF At, N
  <2>2. CASE p # Len(q)
    <3>1. p + 1 \in 1 .. Len(q) /\ p < Len(t)
      BY <1>1, <1>6, <2>2
    <3>2. t[p + 1] = q[p + 1] /\ q[p + 1].r \in 1 .. Len(ans)
      BY <1>7, <3>1 DEF StreamOK
    <3>3. a[q[p + 1].r] = ans[q[p + 1].r]
      BY <1>2, <3>2
    <3>. QED BY <1>11, <2>2, <3>1, <3>2, <3>3 DEF At
  <2>. QED BY <2>1, <2>2
<1>12. Len(q) <= Len(t)
  BY <1>1, <1>6
<1>. QED BY <1>2, <1>6, <1>7, <1>10, <1>11, <1>12 DEF N, t, a

LEMMA Associative ==
  ASSUME NEW a \in Seq(Unit), NEW b \in Seq(Unit), NEW c \in Seq(Unit)
  PROVE  (a \o b) \o c = a \o (b \o c)
  BY ConcatAssociative

\* Three pieces of a stream: the first is its beginning, and what is dropped of
\* the first is dropped of the stream.
LEMMA Parts ==
  ASSUME NEW a \in Seq(Unit), NEW b \in Seq(Unit), NEW c \in Seq(Unit)
  PROVE  /\ (a \o b) \o c \in Seq(Unit)
         /\ Len((a \o b) \o c) = Len(a) + Len(b) + Len(c)
         /\ \A p \in 1 .. Len(a) : ((a \o b) \o c)[p] = a[p]
         /\ \A d \in 0 .. Len(a) :
               (SubSeq(a, d + 1, Len(a)) \o b) \o c
                  = SubSeq((a \o b) \o c, d + 1, Len((a \o b) \o c))
<1> HIDE DEF Unit
<1>1. Len(a) \in Nat /\ Len(b) \in Nat /\ Len(c) \in Nat
  BY LenProperties
<1> DEFINE bc == b \o c
           q == a \o bc
<1>2. bc \in Seq(Unit) /\ Len(bc) = Len(b) + Len(c)
  BY ConcatProperties
<1>3. ASSUME NEW s \in Seq(Unit) PROVE (s \o b) \o c = s \o bc
  BY Associative
<1> HIDE DEF bc
<1>4. /\ q \in Seq(Unit) /\ Len(q) = Len(a) + Len(bc)
      /\ \A p \in 1 .. Len(a) + Len(bc) : q[p] = IF p <= Len(a) THEN a[p] ELSE bc[p - Len(a)]
  <2>1. bc \in Seq(Unit)
    BY <1>2
  <2>. QED BY <2>1, ConcatProperties, Zenon
<1>5. (a \o b) \o c = q
  BY <1>3
<1> HIDE DEF q
<1>6. \A p \in 1 .. Len(a) : q[p] = a[p]
  BY <1>1, <1>2, <1>4
<1>7. ASSUME NEW d \in 0 .. Len(a)
      PROVE  SubSeq(a, d + 1, Len(a)) \o bc = SubSeq(q, d + 1, Len(q))
  <2> DEFINE s == SubSeq(a, d + 1, Len(a))
             t == SubSeq(q, d + 1, Len(q))
  <2>1. /\ \A i \in d + 1 .. Len(a) : a[i] \in Unit
        /\ \A i \in d + 1 .. Len(q) : q[i] \in Unit
        /\ d \in Nat /\ Len(q) \in Nat /\ d + 1 \in Int /\ Len(bc) \in Nat
    BY <1>1, <1>2, <1>4, ElementOfSeq
  <2>2. s \in Seq(Unit) /\ Len(s) = Len(a) - d /\ \A i \in 1 .. Len(a) - d : s[i] = a[d + i]
    <3>1. /\ s \in Seq(Unit)
          /\ Len(s) = IF d + 1 <= Len(a) THEN Len(a) - (d + 1) + 1 ELSE 0
          /\ \A i \in 1 .. Len(a) - (d + 1) + 1 : s[i] = a[(d + 1) + i - 1]
      BY <1>1, <2>1, SubSeqProperties, SMTT(30)
    <3>2. \A i \in 1 .. Len(a) - d : (d + 1) + i - 1 = d + i
      BY <1>1
    <3>3. Len(a) - (d + 1) + 1 = Len(a) - d /\ (~(d + 1 <= Len(a)) => Len(a) - d = 0)
      BY <1>1
    <3> HIDE DEF s
    <3>. QED BY <3>1, <3>2, <3>3
  <2>3. t \in Seq(Unit) /\ Len(t) = Len(q) - d /\ \A i \in 1 .. Len(q) - d : t[i] = q[d + i]
    <3>1. /\ t \in Seq(Unit)
          /\ Len(t) = IF d + 1 <= Len(q) THEN Len(q) - (d + 1) + 1 ELSE 0
          /\ \A i \in 1 .. Len(q) - (d + 1) + 1 : t[i] = q[(d + 1) + i - 1]
      BY <2>1, SubSeqProperties
    <3>2. \A i \in 1 .. Len(q) - d : (d + 1) + i - 1 = d + i
      BY <2>1
    <3>3. Len(q) - (d + 1) + 1 = Len(q) - d /\ (~(d + 1 <= Len(q)) => Len(q) - d = 0)
      BY <1>1, <1>4, <2>1
    <3> HIDE DEF t
    <3>. QED BY <3>1, <3>2, <3>3
  <2> HIDE DEF s, t
  <2>4. /\ s \o bc \in Seq(Unit) /\ Len(s \o bc) = Len(s) + Len(bc)
        /\ \A i \in 1 .. Len(s) + Len(bc) : (s \o bc)[i] = IF i <= Len(s) THEN s[i] ELSE bc[i - Len(s)]
    <3>1. bc \in Seq(Unit) /\ s \in Seq(Unit)
      BY <1>2, <2>2
    <3>. QED BY <3>1, ConcatProperties, Zenon
  <2>5. Len(s \o bc) = Len(t)
    BY <1>1, <1>4, <2>1, <2>2, <2>3, <2>4
  <2>6. ASSUME NEW i \in 1 .. Len(s \o bc) PROVE (s \o bc)[i] = t[i]
    <3>1. i \in 1 .. Len(q) - d /\ d + i \in 1 .. Len(a) + Len(bc) /\ i \in 1 .. Len(s) + Len(bc)
      BY <1>1, <1>4, <2>1, <2>2, <2>4
    <3>2. CASE i <= Len(s)
      <4>1. i \in 1 .. Len(a) - d /\ d + i <= Len(a)
        BY <1>1, <2>1, <2>2, <3>1, <3>2
      <4>. QED BY <1>4, <2>2, <2>3, <2>4, <3>1, <3>2, <4>1
    <3>3. CASE ~(i <= Len(s))
      <4>1. ~(d + i <= Len(a)) /\ (d + i) - Len(a) = i - Len(s)
        BY <1>1, <2>1, <2>2, <3>1, <3>3
      <4>. QED BY <1>4, <2>3, <2>4, <3>1, <3>3, <4>1
    <3>. QED BY <3>2, <3>3
  <2>7. s \o bc = t
    BY <2>3, <2>4, <2>5, <2>6, SeqEqual
  <2>. QED BY <2>7 DEF s, t
<1>8. ASSUME NEW d \in 0 .. Len(a)
      PROVE  (SubSeq(a, d + 1, Len(a)) \o b) \o c = SubSeq(q, d + 1, Len(q))
  <2>1. \A i \in d + 1 .. Len(a) : a[i] \in Unit
    BY <1>1, ElementOfSeq
  <2>2. SubSeq(a, d + 1, Len(a)) \in Seq(Unit)
    BY <1>1, <2>1, SubSeqProperties
  <2>3. (SubSeq(a, d + 1, Len(a)) \o b) \o c = SubSeq(a, d + 1, Len(a)) \o bc
    BY <1>3, <2>2, Zenon
  <2>4. SubSeq(a, d + 1, Len(a)) \o bc = SubSeq(q, d + 1, Len(q))
    BY <1>7
  <2>. QED BY <2>3, <2>4
<1>9. q \in Seq(Unit) /\ Len(q) = Len(a) + Len(b) + Len(c)
  BY <1>1, <1>2, <1>4
<1>. QED BY <1>5, <1>6, <1>8, <1>9, Zenon

\* What moves from one piece to the one before it stays where it is in the stream.
LEMMA Moved ==
  ASSUME NEW a \in Seq(Unit), NEW b \in Seq(Unit), NEW n \in 0 .. Len(b)
  PROVE  (a \o SubSeq(b, 1, n)) \o SubSeq(b, n + 1, Len(b)) = a \o b
<1> HIDE DEF Unit
<1>1. Len(b) \in Nat /\ \A i \in 1 .. Len(b) : b[i] \in Unit
  BY LenProperties, ElementOfSeq
<1> DEFINE s == SubSeq(b, 1, n)
           t == SubSeq(b, n + 1, Len(b))
<1>2. s \in Seq(Unit) /\ Len(s) = n /\ \A i \in 1 .. n : s[i] = b[i]
  BY <1>1, SubSeqProperties
<1>3. t \in Seq(Unit) /\ Len(t) = Len(b) - n /\ \A i \in 1 .. Len(b) - n : t[i] = b[n + i]
  <2>1. /\ t \in Seq(Unit)
        /\ Len(t) = IF n + 1 <= Len(b) THEN Len(b) - (n + 1) + 1 ELSE 0
        /\ \A i \in 1 .. Len(b) - (n + 1) + 1 : t[i] = b[(n + 1) + i - 1]
    BY <1>1, SubSeqProperties
  <2>2. \A i \in 1 .. Len(b) - n : (n + 1) + i - 1 = n + i
    BY <1>1
  <2>3. Len(b) - (n + 1) + 1 = Len(b) - n /\ (~(n + 1 <= Len(b)) => Len(b) - n = 0)
    BY <1>1
  <2> HIDE DEF t
  <2>. QED BY <2>1, <2>2, <2>3
<1> HIDE DEF s, t
<1>4. /\ s \o t \in Seq(Unit) /\ Len(s \o t) = Len(s) + Len(t)
      /\ \A i \in 1 .. Len(s) + Len(t) : (s \o t)[i] = IF i <= Len(s) THEN s[i] ELSE t[i - Len(s)]
  BY <1>2, <1>3, ConcatProperties
<1>5. Len(s \o t) = Len(b)
  BY <1>1, <1>2, <1>3, <1>4
<1>6. ASSUME NEW i \in 1 .. Len(b) PROVE (s \o t)[i] = b[i]
  <2>1. i \in 1 .. Len(s) + Len(t)
    BY <1>4, <1>5
  <2>2. CASE i <= n
    BY <1>1, <1>2, <1>4, <2>1, <2>2
  <2>3. CASE ~(i <= n)
    <3>1. i - n \in 1 .. Len(b) - n /\ n + (i - n) = i
      BY <1>1, <2>3
    <3>. QED BY <1>2, <1>3, <1>4, <2>1, <2>3, <3>1
  <2>. QED BY <2>2, <2>3
<1>7. s \o t = b
  BY <1>4, <1>5, <1>6, SeqEqual
<1>8. (a \o s) \o t = a \o (s \o t)
  BY <1>2, <1>3, Associative
<1>. QED BY <1>7, <1>8 DEF s, t

\* What the server has given that the client has not dropped yet.
Stream == (buf \o inp) \o out

\* The responses the client has begun to read, the last one it has returned.
Begun   == Len(issued) - Len(request)
LastLog == IF log = <<>> THEN 0 ELSE log[Len(log)].docs[1]

\* The queue holds the contexts of the requests that are not answered.
RequestInv ==
    /\ request \in Seq([ctx : 0 .. MaxRequests]) /\ Len(request) <= Len(issued)
    /\ \A k \in 1 .. Len(request) : request[k].ctx = issued[Begun + k]

\* An entry of the log answers request r.
Entries(shape) == IF Bodiless(shape) THEN 1 ELSE shape.doc
Answers(entry, r) ==
    /\ entry.ctx = issued[r] /\ Entries(answered[r]) >= 1
    /\ entry.docs = [j \in 1 .. Entries(answered[r]) |-> r]

LogInv ==
    /\ log \in Seq([ctx : 0 .. MaxRequests, docs : Seq(Nat)])
    /\ \A i \in 1 .. Len(log) : \E r \in 1 .. Len(answered) : Answers(log[i], r)
    /\ OnceInOrder

\* Between two responses.
StartInv == At(Stream, answered, Begun, data) /\ LastLog = Begun

\* In the headers of response n, whose status line is behind.
InHeaders(n, shape, u) ==
    /\ n \in 1 .. Len(answered)
    /\ data < Len(Stream) /\ u.r = n /\ u.i \in 2 .. Headers(shape)
    /\ http.ctx = issued[n] /\ LastLog = n - 1
    /\ http.code = shape.lines[1][2]
    /\ http.length <=> \E j \in 1 .. u.i - 1 : shape.lines[j][1] = "length"
    /\ http.end = IF http.length THEN shape.doc ELSE 0
    /\ http.close => Has(shape, "close")

HeaderInv == InHeaders(Begun, answered[Begun], Stream[data + 1])

\* In the document of response n: the parser has tokens of nothing else.  Unless
\* the stream ends it, its root's end tag is the last unit before http.end.
InBody(n, shape, u) ==
    /\ n \in 1 .. Len(answered) /\ http.ctx = issued[n]
    /\ ~Bodiless(shape) /\ \A j \in 1 .. Len(parsed) : parsed[j] = n
    /\ http.close =>
          /\ At(Stream, answered, n, data) /\ (shape.doc > 0 => Closing(shape))
          /\ LastLog = n - 1 \/ LastLog = n
    /\ ~http.close =>
          /\ data < Len(Stream) /\ u.r = n /\ http.end > data /\ LastLog = n - 1
          /\ u.i + (http.end - data) = Headers(shape) + shape.doc + 1

DataInv == InBody(Begun, answered[Begun], Stream[data + 1])

\* A response is over: what is dropped of the buffer is the rest of it.
Rest == IF http.end <= Len(buf) THEN http.end ELSE Len(buf)
CompleteInv == http.close \/ (At(Stream, answered, Begun, Rest) /\ LastLog = Begun)

PlaceInv ==
    /\ http.state = "START" => StartInv
    /\ http.state = "HEADER" => HeaderInv
    /\ http.state = "DATA" => DataInv
    /\ http.state = "COMPLETE" => CompleteInv

FlowInv ==
    /\ StreamOK(Stream, answered) /\ RequestInv /\ parsed \in Seq(Nat)
    /\ LogInv /\ PlaceInv

-----------------------------------------------------------------------------

\* A step that takes nothing off the stream and says nothing of the message.
LEMMA FlowStays ==
  ASSUME FlowInv, UNCHANGED <<request, data, http, issued, log, answered>>, Stream' = Stream,
         parsed' \in {parsed, <<>>}, buf' = buf \/ http.state # "COMPLETE"
  PROVE  FlowInv'
<1>1. StreamOK(Stream, answered)' /\ RequestInv' /\ LogInv' /\ parsed' \in Seq(Nat)
  <2>1. StreamOK(Stream, answered)'
    BY DEF FlowInv
  <2>2. RequestInv' /\ parsed' \in Seq(Nat)
    <3>1. RequestInv'
      BY DEF FlowInv, RequestInv, Begun
    <3>2. parsed \in Seq(Nat) /\ <<>> \in Seq(Nat)
      BY DEF FlowInv
    <3>. QED BY <3>1, <3>2
  <2>3. LogInv'
    BY DEF FlowInv, LogInv, Answers, OnceInOrder
  <2>. QED BY <2>1, <2>2, <2>3
<1>2. Begun' = Begun /\ LastLog' = LastLog
  BY DEF Begun, LastLog
<1>3. http.state = "START" => StartInv'
  BY <1>2 DEF FlowInv, PlaceInv, StartInv, At
<1>4. http.state = "HEADER" => HeaderInv'
  BY <1>2 DEF FlowInv, PlaceInv, HeaderInv, InHeaders
<1>5. ASSUME http.state = "DATA" PROVE DataInv'
  <2>1. DataInv
    BY <1>5 DEF FlowInv, PlaceInv
  <2>2. \A j \in 1 .. Len(parsed') : parsed'[j] = Begun
    BY <2>1 DEF DataInv, InBody
  <2>. QED BY <1>2, <2>1, <2>2 DEF DataInv, InBody, At
<1>6. http.state = "COMPLETE" => CompleteInv'
  BY <1>2 DEF FlowInv, PlaceInv, CompleteInv, At, Rest
<1>. QED BY <1>1, <1>3, <1>4, <1>5, <1>6 DEF FlowInv, PlaceInv

\* Nothing is expected of a message stream that is closed.
LEMMA FlowCloses ==
  ASSUME FlowInv, UNCHANGED <<parsed, issued, log, answered>>, Stream' = Stream, SizeInv,
         http'.state = "CLOSED", request' = request \/ request' = <<>>
  PROVE  FlowInv'
<1>1. StreamOK(Stream, answered)'
  BY DEF FlowInv
<1>2. RequestInv' /\ parsed' \in Seq(Nat)
  <2>1. parsed' \in Seq(Nat)
    BY DEF FlowInv
  <2>2. CASE request' = request
    BY <2>2 DEF FlowInv, RequestInv, Begun
  <2>3. CASE request' = <<>>
    <3>1. Len(issued) \in Nat
      BY LenProperties DEF SizeInv
    <3>2. request' \in Seq([ctx : 0 .. MaxRequests]) /\ Len(request') = 0
      BY <2>3, EmptySeq
    <3>3. Len(request') <= Len(issued') /\ 1 .. Len(request') = {}
      BY <3>1, <3>2
    <3>. QED BY <2>1, <3>2, <3>3 DEF RequestInv
  <2>. QED BY <2>1, <2>2, <2>3
<1>3. LogInv'
  BY DEF FlowInv, LogInv, Answers, OnceInOrder
<1>4. PlaceInv'
  BY DEF PlaceInv
<1>. QED BY <1>1, <1>2, <1>3, <1>4 DEF FlowInv

\* A request is made: its context is the last of the queue.
LEMMA FlowIssue ==
  ASSUME SizeInv, FlowInv, Issue
  PROVE  FlowInv'
<1>1. /\ issued \in Seq(0 .. MaxRequests) /\ Len(issued) \in Nat /\ Len(issued) < MaxRequests
      /\ request \in Seq([ctx : 0 .. MaxRequests]) /\ Len(request) \in Nat
      /\ Len(request) <= Len(issued) /\ MaxRequests \in Nat
      /\ Len(answered) \in Nat /\ Len(answered) <= Len(issued)
  <2>1. Len(answered) <= Len(wire) /\ Len(wire) + Len(send) <= Len(issued)
        /\ Len(answered) \in Nat /\ Len(wire) \in Nat /\ Len(send) \in Nat
    BY LenProperties DEF SizeInv
  <2>. QED BY <2>1, LenProperties, HttpAssumption DEF SizeInv, FlowInv, RequestInv, Issue, HttpAssumption
<1>2. PICK ctx \in {0, Len(issued) + 1} :
         /\ issued' = Append(issued, ctx)
         /\ request' = IF ctx = 0 THEN QueueRequest(request)
                       ELSE SetRequestContext(QueueRequest(request), ctx)
  BY DEF Issue
<1>3. ctx \in 0 .. MaxRequests
  BY <1>1
<1>4. /\ Len(issued') = Len(issued) + 1 /\ issued'[Len(issued) + 1] = ctx
      /\ \A i \in 1 .. Len(issued) : issued'[i] = issued[i]
  BY <1>1, <1>2, <1>3, AppendProperties
<1>5. /\ request' \in Seq([ctx : 0 .. MaxRequests]) /\ Len(request') = Len(request) + 1
      /\ \A i \in 1 .. Len(request) : request'[i] = request[i]
      /\ request'[Len(request) + 1].ctx = ctx
  <2> DEFINE q == Append(request, [ctx |-> 0])
             R == [ctx : 0 .. MaxRequests]
  <2>1. [ctx |-> 0] \in R /\ [ctx |-> ctx] \in R
    BY <1>1, <1>3
  <2>2. /\ q \in Seq(R) /\ Len(q) = Len(request) + 1 /\ q[Len(request) + 1] = [ctx |-> 0]
        /\ \A i \in 1 .. Len(request) : q[i] = request[i]
    BY <1>1, <2>1, AppendProperties
  <2>3. CASE ctx = 0
    BY <1>2, <2>2, <2>3 DEF QueueRequest
  <2>4. CASE ctx # 0
    <3> DEFINE k == Len(request) + 1
    <3>1. request' = [q EXCEPT ![Len(q)].ctx = ctx]
      BY <1>2, <2>4 DEF QueueRequest, SetRequestContext
    <3> HIDE DEF q, R
    <3>2. request' = [q EXCEPT ![k] = [q[k] EXCEPT !.ctx = ctx]]
      BY <2>2, <3>1
    <3>3. [q[k] EXCEPT !.ctx = ctx] = [ctx |-> ctx]
      <4>1. [[ctx |-> 0] EXCEPT !.ctx = ctx] = [ctx |-> ctx]
        OBVIOUS
      <4>. QED BY <2>2, <4>1
    <3>4. request' = [q EXCEPT ![k] = [ctx |-> ctx]] /\ k \in 1 .. Len(q)
      <4>1. k \in 1 .. Len(q)
        BY <1>1, <2>2
      <4>. QED BY <3>2, <3>3, <4>1, Zenon
    <3>5. request' \in Seq(R) /\ Len(request') = Len(q)
          /\ \A i \in 1 .. Len(q) : request'[i] = IF i = k THEN [ctx |-> ctx] ELSE q[i]
      BY <2>1, <2>2, <3>4, ExceptSeq
    <3>6. \A i \in 1 .. Len(request) : i \in 1 .. Len(q) /\ i # k
      BY <1>1, <2>2
    <3>. QED BY <2>2, <3>4, <3>5, <3>6 DEF R
  <2>. QED BY <2>3, <2>4
<1>6. UNCHANGED <<buf, inp, out, data, http, parsed, log, answered>>
  BY DEF Issue, server
<1>7. Stream' = Stream /\ LastLog' = LastLog
  BY <1>6 DEF Stream, LastLog
<1>8. Begun' = Begun /\ Begun \in Nat
  BY <1>1, <1>4, <1>5 DEF Begun
<1>9. RequestInv'
  <2>1. ASSUME NEW k \in 1 .. Len(request') PROVE request'[k].ctx = issued'[Begun + k]
    <3>1. CASE k \in 1 .. Len(request)
      <4>1. Begun + k \in 1 .. Len(issued) /\ request[k].ctx = issued[Begun + k]
        BY <1>1, <1>8, <3>1 DEF FlowInv, RequestInv, Begun
      <4>. QED BY <1>4, <1>5, <3>1, <4>1
    <3>2. CASE k \notin 1 .. Len(request)
      <4>1. k = Len(request) + 1
        BY <1>1, <1>5, <3>2
      <4>2. Begun + (Len(request) + 1) = Len(issued) + 1
        BY <1>1 DEF Begun
      <4>. QED BY <1>4, <1>5, <4>1, <4>2
    <3>. QED BY <3>1, <3>2
  <2>. QED BY <1>1, <1>4, <1>5, <1>8, <2>1 DEF RequestInv
<1>10. StreamOK(Stream, answered)'
  BY <1>6, <1>7 DEF FlowInv
<1>11. LogInv'
  <2>1. ASSUME NEW i \in 1 .. Len(log) PROVE \E r \in 1 .. Len(answered) : Answers(log[i], r)'
    <3>1. PICK r \in 1 .. Len(answered) : Answers(log[i], r)
      BY DEF FlowInv, LogInv
    <3>2. r \in 1 .. Len(issued)
      BY <1>1
    <3>. QED BY <1>4, <1>6, <3>1, <3>2 DEF Answers
  <2>2. OnceInOrder'
    BY <1>6 DEF FlowInv, LogInv, OnceInOrder
  <2>. QED BY <1>6, <2>1, <2>2 DEF FlowInv, LogInv
<1>12. Begun = 0 \/ issued'[Begun] = issued[Begun]
  <2>1. Begun = 0 \/ Begun \in 1 .. Len(issued)
    BY <1>1, <1>8 DEF Begun
  <2>. QED BY <1>4, <2>1
<1>13. PlaceInv'
  <2>1. http.state = "START" => StartInv'
    BY <1>6, <1>7, <1>8 DEF FlowInv, PlaceInv, StartInv, At
  <2>2. http.state = "COMPLETE" => CompleteInv'
    BY <1>6, <1>7, <1>8 DEF FlowInv, PlaceInv, CompleteInv, At, Rest
  <2>3. ASSUME http.state = "HEADER" PROVE HeaderInv'
    <3>1. HeaderInv
      BY <2>3 DEF FlowInv, PlaceInv
    <3>2. Begun # 0
      BY <3>1 DEF HeaderInv, InHeaders
    <3>. QED BY <1>6, <1>7, <1>8, <1>12, <3>1, <3>2 DEF HeaderInv, InHeaders
  <2>4. ASSUME http.state = "DATA" PROVE DataInv'
    <3>1. DataInv /\ Begun # 0
      BY <2>4 DEF FlowInv, PlaceInv, DataInv, InBody
    <3>. QED BY <1>6, <1>7, <1>8, <1>12, <3>1 DEF DataInv, InBody, At
  <2>. QED BY <1>6, <2>1, <2>2, <2>3, <2>4 DEF PlaceInv
<1>. QED BY <1>6, <1>9, <1>10, <1>11, <1>13 DEF FlowInv

\* What the lemmas about steps need of the types.
LEMMA FlowTypes ==
  ASSUME BufInv, SizeInv, FlowInv
  PROVE  /\ Stream \in Seq(Unit) /\ StreamOK(Stream, answered)
         /\ Len(Stream) \in Nat /\ Len(buf) \in Nat
         /\ Len(buf) <= Len(Stream) /\ \A p \in 1 .. Len(buf) : Stream[p] = buf[p]
         /\ data \in 0 .. Len(buf) /\ data \in 0 .. Len(Stream) /\ http.end \in Nat
         /\ Responses(answered) /\ Len(answered) \in Nat /\ Len(answered) <= Len(issued)
         /\ Len(issued) \in Nat /\ Len(request) \in Nat
         /\ Begun \in 0 .. Len(issued)
<1>1. /\ buf \in Seq(Unit) /\ inp \in Seq(Unit) /\ out \in Seq(Unit)
      /\ data \in 0 .. Len(buf) /\ http.end \in Nat
  BY DEF BufInv, SizeInv, HttpOK
<1>2. Len(buf) \in Nat /\ Len(inp) \in Nat /\ Len(out) \in Nat
  BY <1>1, LenProperties
<1>3. /\ Stream \in Seq(Unit) /\ Len(Stream) = Len(buf) + Len(inp) + Len(out)
      /\ \A p \in 1 .. Len(buf) : Stream[p] = buf[p]
  BY <1>1, Parts DEF Stream
<1>4. /\ answered \in Seq(Shapes) /\ Len(answered) \in Nat /\ Len(answered) <= Len(issued)
      /\ Len(issued) \in Nat /\ Len(issued) <= MaxRequests /\ MaxRequests \in Nat
  <2>1. /\ Len(answered) <= Len(wire) /\ Len(wire) + Len(send) <= Len(issued)
        /\ Len(answered) \in Nat /\ Len(wire) \in Nat /\ Len(send) \in Nat /\ Len(issued) \in Nat
    BY LenProperties DEF SizeInv
  <2>. QED BY <2>1, HttpAssumption DEF SizeInv, HttpAssumption
<1>5. Len(request) \in Nat /\ Len(request) <= Len(issued)
  BY LenProperties DEF FlowInv, RequestInv
<1>6. Begun \in 0 .. Len(issued)
  BY <1>4, <1>5 DEF Begun
<1>7. Responses(answered)
  BY <1>4 DEF Responses
<1>8. Len(Stream) \in Nat /\ Len(buf) <= Len(Stream) /\ data \in 0 .. Len(Stream)
  BY <1>1, <1>2, <1>3
<1>. QED BY <1>1, <1>2, <1>3, <1>4, <1>5, <1>6, <1>7, <1>8 DEF FlowInv

LEMMA FirstOf ==
  ASSUME NEW n \in Nat, NEW entry, NEW r, n >= 1, entry.docs = [j \in 1 .. n |-> r]
  PROVE  entry.docs[1] = r
  OBVIOUS

\* conn_read moves data from the socket to the buffer.
LEMMA TakeStream ==
  ASSUME BufInv, SizeInv, ReadCount > 0,
         buf' = buf \o SubSeq(inp, 1, ReadCount), inp' = SubSeq(inp, ReadCount + 1, Len(inp)),
         UNCHANGED out
  PROVE  Stream' = Stream
<1>1. ReadCount \in 0 .. Len(inp) /\ buf \in Seq(Unit) /\ inp \in Seq(Unit)
  BY ReadType DEF BufInv
<1>2. buf' \o inp' = buf \o inp
  BY <1>1, Moved
<1>. QED BY <1>2 DEF Stream

\* The network moves data to the socket.
LEMMA SendStream ==
  ASSUME BufInv, SizeInv, Send
  PROVE  Stream' = Stream
<1>1. buf \in Seq(Unit) /\ inp \in Seq(Unit) /\ out \in Seq(Unit) /\ Len(out) \in Nat
  BY LenProperties DEF BufInv, SizeInv
<1>2. PICK n \in 1 .. Len(out) : /\ inp' = inp \o SubSeq(out, 1, n)
                                 /\ out' = SubSeq(out, n + 1, Len(out))
  BY DEF Send
<1>3. n \in 0 .. Len(out) /\ \A i \in 1 .. n : out[i] \in Unit
  BY <1>1, ElementOfSeq
<1> DEFINE s == SubSeq(out, 1, n)
           t == SubSeq(out, n + 1, Len(out))
<1>4. s \in Seq(Unit) /\ t \in Seq(Unit)
  <2>1. \A i \in n + 1 .. Len(out) : out[i] \in Unit
    BY <1>1, <1>3, ElementOfSeq
  <2>. QED BY <1>1, <1>3, <2>1, SubSeqProperties
<1>5. buf' = buf
  BY DEF Send, Elsewhere
<1>6. (inp \o s) \o t = inp \o out
  BY <1>1, <1>3, Moved
<1> HIDE DEF s, t
<1>7. inp \o s \in Seq(Unit)
  BY <1>1, <1>4, ConcatProperties
<1>8. (buf \o (inp \o s)) \o t = buf \o ((inp \o s) \o t)
  BY <1>1, <1>4, <1>7, Associative, ZenonT(60)
<1>9. (buf \o inp) \o out = buf \o (inp \o out)
  BY <1>1, Associative
<1>10. inp' = inp \o s /\ out' = t
  BY <1>2 DEF s, t
<1>. QED BY <1>5, <1>6, <1>8, <1>9, <1>10 DEF Stream

\* The server answers: the stream goes on.
LEMMA FlowAnswer ==
  ASSUME BufInv, SizeInv, FlowInv, Answer
  PROVE  FlowInv'
<1> USE FlowTypes
<1>1. PICK shape \in Shapes :
         out' = Units(shape, Len(answered) + 1) /\ answered' = Append(answered, shape)
  BY DEF Answer
<1>2. out = <<>> /\ Len(answered) < Len(wire)
      /\ UNCHANGED <<request, buf, data, http, parsed, issued, log, inp>>
  BY DEF Answer, Elsewhere
<1>3. Len(answered) < MaxRequests
  <2>1. /\ Len(wire) + Len(send) <= Len(issued) /\ Len(issued) <= MaxRequests
        /\ Len(wire) \in Nat /\ Len(send) \in Nat /\ MaxRequests \in Nat /\ Len(issued) \in Nat
    BY LenProperties, HttpAssumption DEF SizeInv, HttpAssumption
  <2>. QED BY <1>2, <2>1
<1>4. Stream' = Stream \o Units(shape, Len(answered) + 1)
  <2>1. buf \o inp \in Seq(Unit)
    BY ConcatProperties DEF BufInv
  <2>2. Stream = buf \o inp
    BY <1>2, <2>1, ConcatEmptySeq DEF Stream
  <2>. QED BY <1>1, <1>2, <2>2 DEF Stream
<1>5. /\ Responses(answered') /\ Len(answered') = Len(answered) + 1
      /\ \A r \in 1 .. Len(answered) : answered'[r] = answered[r]
      /\ Stream' \in Seq(Unit) /\ Len(Stream) <= Len(Stream')
      /\ \A p \in 1 .. Len(Stream) : Stream'[p] = Stream[p]
      /\ StreamOK(Stream', answered')
      /\ \A n \in Nat, p \in 0 .. Len(Stream) :
            At(Stream, answered, n, p) => At(Stream', answered', n, p)
  <2>1. /\ Stream \in Seq(Unit) /\ Responses(answered) /\ StreamOK(Stream, answered)
    OBVIOUS
  <2>2. answered' = Append(answered, shape)
    BY <1>1
  <2>3. PICK q \in Seq(Unit) : q = Stream
    BY <2>1
  <2>a. PICK ans, t, a : ans = answered /\ t = Stream' /\ a = answered'
    OBVIOUS
  <2>4. /\ Responses(ans) /\ StreamOK(q, ans) /\ Len(ans) < MaxRequests
        /\ t = q \o Units(shape, Len(ans) + 1) /\ a = Append(ans, shape)
    BY <1>3, <1>4, <2>1, <2>2, <2>3, <2>a
  <2>5. /\ Responses(a) /\ Len(a) = Len(ans) + 1 /\ \A r \in 1 .. Len(ans) : a[r] = ans[r]
        /\ t \in Seq(Unit) /\ Len(q) <= Len(t) /\ \A p \in 1 .. Len(q) : t[p] = q[p]
        /\ StreamOK(t, a)
        /\ \A n \in Nat, p \in 0 .. Len(q) : At(q, ans, n, p) => At(t, a, n, p)
    BY <2>4, StreamAnswer
  <2>. QED BY <2>3, <2>5, <2>a
<1>6. Begun' = Begun /\ LastLog' = LastLog /\ Begun \in Nat
  BY <1>2 DEF Begun, LastLog
<1>7. \A r \in 1 .. Len(answered) : r \in 1 .. Len(answered')
  BY <1>5
<1>8. RequestInv' /\ parsed' \in Seq(Nat)
  <2>1. RequestInv'
    BY <1>2 DEF FlowInv, RequestInv, Begun
  <2>. QED BY <1>2, <2>1 DEF FlowInv
<1>9. LogInv'
  <2>1. ASSUME NEW i \in 1 .. Len(log)
        PROVE  /\ \E r \in 1 .. Len(answered') : Answers(log[i], r)'
               /\ answered'[log[i].docs[1]] = answered[log[i].docs[1]]
    <3>1. PICK r \in 1 .. Len(answered) : Answers(log[i], r)
      BY DEF FlowInv, LogInv
    <3>2. answered'[r] = answered[r]
      BY <1>5
    <3>3. Answers(log[i], r)'
      BY <1>2, <3>1, <3>2 DEF Answers
    <3>4. Entries(answered[r]) \in Nat
      <4>1. answered[r] \in Shapes
        BY InShapes
      <4>. QED BY <4>1, SizeType DEF Entries
    <3>5. log[i].docs[1] = r
      BY <3>1, <3>4, FirstOf DEF Answers
    <3>. QED BY <1>7, <3>2, <3>3, <3>5
  <2>2. OnceInOrder'
    <3>1. \A i \in 2 .. Len(log) : i \in 1 .. Len(log)
      BY LenProperties DEF FlowInv, LogInv
    <3>. QED BY <1>2, <2>1, <3>1 DEF FlowInv, LogInv, OnceInOrder
  <2>. QED BY <1>2, <2>1, <2>2 DEF FlowInv, LogInv
<1>10. http.state = "START" => StartInv'
  BY <1>2, <1>5, <1>6 DEF FlowInv, PlaceInv, StartInv
<1>11. http.state = "COMPLETE" => CompleteInv'
  <2>1. Rest \in 0 .. Len(Stream) /\ Rest' = Rest
    BY <1>2 DEF Rest
  <2>. QED BY <1>2, <1>5, <1>6, <2>1 DEF FlowInv, PlaceInv, CompleteInv
<1>12. data < Len(Stream) => data < Len(Stream') /\ Stream'[data + 1] = Stream[data + 1]
  <2>1. Len(Stream') \in Nat
    BY <1>5, LenProperties
  <2>2. data < Len(Stream) => data + 1 \in 1 .. Len(Stream)
    OBVIOUS
  <2>. QED BY <1>5, <2>1, <2>2
<1>13. ASSUME http.state = "HEADER" PROVE HeaderInv'
  <2>1. HeaderInv
    BY <1>13 DEF FlowInv, PlaceInv
  <2>2. answered'[Begun] = answered[Begun] /\ Begun \in 1 .. Len(answered')
    BY <1>5, <1>7, <2>1 DEF HeaderInv, InHeaders
  <2>. QED BY <1>2, <1>6, <1>12, <2>1, <2>2 DEF HeaderInv, InHeaders
<1>14. ASSUME http.state = "DATA" PROVE DataInv'
  <2>1. DataInv
    BY <1>14 DEF FlowInv, PlaceInv
  <2>2. answered'[Begun] = answered[Begun] /\ Begun \in 1 .. Len(answered')
    BY <1>5, <1>7, <2>1 DEF DataInv, InBody
  <2>3. At(Stream, answered, Begun, data) => At(Stream', answered', Begun, data)
    BY <1>5, <1>6
  <2>. QED BY <1>2, <1>6, <1>12, <2>1, <2>2, <2>3 DEF DataInv, InBody
<1>15. StreamOK(Stream, answered)'
  BY <1>5
<1>. QED BY <1>2, <1>8, <1>9, <1>10, <1>11, <1>13, <1>14, <1>15 DEF FlowInv, PlaceInv

-----------------------------------------------------------------------------
(* What the steps do to the stream. *)

\* The fields of a message that are not assigned stay as they are.
LEMMA HttpKeeps ==
  ASSUME NEW h, HttpOK(h), NEW s, NEW n, NEW x
  PROVE  /\ LET g == [h EXCEPT !.state = s]
            IN  /\ g.state = s /\ g.end = h.end /\ g.close = h.close /\ g.length = h.length
                /\ g.code = h.code /\ g.ctx = h.ctx
         /\ LET g == [h EXCEPT !.state = s, !.end = n]
            IN  /\ g.state = s /\ g.end = n /\ g.close = h.close /\ g.length = h.length
                /\ g.code = h.code /\ g.ctx = h.ctx
         /\ LET g == [h EXCEPT !.state = s, !.end = n, !.close = x]
            IN  /\ g.state = s /\ g.end = n /\ g.close = x /\ g.length = h.length
                /\ g.code = h.code /\ g.ctx = h.ctx
         /\ LET g == [h EXCEPT !.end = n]
            IN  /\ g.state = h.state /\ g.end = n /\ g.close = h.close /\ g.length = h.length
                /\ g.code = h.code /\ g.ctx = h.ctx
         /\ LET g == [h EXCEPT !.end = n, !.length = x]
            IN  /\ g.state = h.state /\ g.end = n /\ g.close = h.close /\ g.length = x
                /\ g.code = h.code /\ g.ctx = h.ctx
         /\ LET g == [h EXCEPT !.close = x]
            IN  /\ g.state = h.state /\ g.end = h.end /\ g.close = x /\ g.length = h.length
                /\ g.code = h.code /\ g.ctx = h.ctx
         /\ \A g \in {[h EXCEPT !.media = x], [h EXCEPT !.error = x]} :
                /\ g.state = h.state /\ g.end = h.end /\ g.close = h.close /\ g.length = h.length
                /\ g.code = h.code /\ g.ctx = h.ctx
<1>1. {"state", "end", "close", "length", "media", "error", "code", "ctx"} \subseteq DOMAIN h
  BY DEF HttpOK
<1>2. LET g == [h EXCEPT !.state = s]
      IN  /\ g.state = s /\ g.end = h.end /\ g.close = h.close /\ g.length = h.length
          /\ g.code = h.code /\ g.ctx = h.ctx
  BY <1>1
<1>3. LET g == [h EXCEPT !.state = s, !.end = n]
      IN  /\ g.state = s /\ g.end = n /\ g.close = h.close /\ g.length = h.length
          /\ g.code = h.code /\ g.ctx = h.ctx
  BY <1>1
<1>4. LET g == [h EXCEPT !.state = s, !.end = n, !.close = x]
      IN  /\ g.state = s /\ g.end = n /\ g.close = x /\ g.length = h.length
          /\ g.code = h.code /\ g.ctx = h.ctx
  BY <1>1
<1>5. LET g == [h EXCEPT !.end = n]
      IN  /\ g.state = h.state /\ g.end = n /\ g.close = h.close /\ g.length = h.length
          /\ g.code = h.code /\ g.ctx = h.ctx
  BY <1>1
<1>6. LET g == [h EXCEPT !.end = n, !.length = x]
      IN  /\ g.state = h.state /\ g.end = n /\ g.close = h.close /\ g.length = x
          /\ g.code = h.code /\ g.ctx = h.ctx
  BY <1>1
<1>7. LET g == [h EXCEPT !.close = x]
      IN  /\ g.state = h.state /\ g.end = h.end /\ g.close = x /\ g.length = h.length
          /\ g.code = h.code /\ g.ctx = h.ctx
  BY <1>1
<1>8. LET g == [h EXCEPT !.media = x]
      IN  /\ g.state = h.state /\ g.end = h.end /\ g.close = h.close /\ g.length = h.length
          /\ g.code = h.code /\ g.ctx = h.ctx
  BY <1>1
<1>9. LET g == [h EXCEPT !.error = x]
      IN  /\ g.state = h.state /\ g.end = h.end /\ g.close = h.close /\ g.length = h.length
          /\ g.code = h.code /\ g.ctx = h.ctx
  BY <1>1
<1>. QED BY <1>2, <1>3, <1>4, <1>5, <1>6, <1>7, <1>8, <1>9, Zenon

\* The line or token the client is at is the next unit of the stream.
LEMMA FirstUnit ==
  ASSUME BufInv, SizeInv, FlowInv, data < Len(buf)
  PROVE  /\ Line = Stream[data + 1] /\ data + 1 \in 1 .. Len(Stream) /\ data < Len(Stream)
         /\ Line \in Unit /\ Line.r \in 1 .. Len(answered) /\ answered[Line.r] \in Shapes
         /\ Line.i \in 1 .. Size(answered[Line.r]) /\ Kinds(answered[Line.r], Line)
<1>1. data + 1 \in 1 .. Len(buf) /\ data + 1 \in 1 .. Len(Stream) /\ data < Len(Stream)
  BY FlowTypes
<1>2. Line = Stream[data + 1]
  BY <1>1, FlowTypes DEF Line
<1>. QED BY <1>1, <1>2, FlowTypes, UnitKinds

\* A response is returned.
LEMMA LogGrows ==
  ASSUME BufInv, SizeInv, FlowInv, UNCHANGED <<issued, answered>>,
         NEW n \in 1 .. Len(answered), NEW entry \in [ctx : 0 .. MaxRequests, docs : Seq(Nat)],
         Answers(entry, n), log' = Append(log, entry),
         LastLog = n - 1 \/ (LastLog = n /\ Closing(answered[n]))
  PROVE  LogInv' /\ LastLog' = n
<1> DEFINE L == Len(log)
           E == [ctx : 0 .. MaxRequests, docs : Seq(Nat)]
<1>1. log \in Seq(E) /\ L \in Nat
  BY LenProperties DEF FlowInv, LogInv
<1>2. /\ log' \in Seq(E) /\ Len(log') = L + 1 /\ log'[L + 1] = entry
      /\ \A i \in 1 .. L : log'[i] = log[i]
  BY <1>1, AppendProperties
<1>3. entry.docs[1] = n
  <2>1. Entries(answered[n]) \in Nat
    <3>1. answered[n] \in Shapes
      BY FlowTypes, InShapes
    <3>. QED BY <3>1, SizeType DEF Entries
  <2>. QED BY <2>1, FirstOf DEF Answers
<1> HIDE DEF E
<1>4. ASSUME NEW i \in 1 .. L + 1 PROVE i \in 1 .. L \/ i = L + 1
  BY <1>1
<1>5. \A i \in 1 .. L + 1 : \E r \in 1 .. Len(answered) : Answers(log'[i], r)
  <2>1. Answers(log'[L + 1], n)
    BY <1>2
  <2>2. ASSUME NEW i \in 1 .. L PROVE \E r \in 1 .. Len(answered) : Answers(log'[i], r)
    BY <1>2 DEF FlowInv, LogInv
  <2>. QED BY <1>4, <2>1, <2>2
<1>6. OnceInOrder'
  <2>1. ASSUME NEW i \in 2 .. L + 1
        PROVE  \/ log'[i].docs[1] = log'[i - 1].docs[1] + 1
               \/ log'[i].docs[1] = log'[i - 1].docs[1] /\ Closing(answered[log'[i].docs[1]])
    <3>1. CASE i \in 1 .. L
      <4>1. i \in 2 .. L /\ i - 1 \in 1 .. L
        BY <1>1, <3>1
      <4>. QED BY <1>2, <3>1, <4>1 DEF FlowInv, LogInv, OnceInOrder
    <3>2. CASE i = L + 1
      <4>1. L \in 1 .. L /\ i - 1 = L
        BY <1>1, <3>2
      <4>2. log'[i - 1].docs[1] = LastLog
        <5>1. log # <<>>
          BY <4>1
        <5>. QED BY <1>2, <4>1, <5>1 DEF LastLog
      <4>3. log'[i].docs[1] = n
        BY <1>2, <1>3, <3>2
      <4>4. LastLog = n - 1 => n = LastLog + 1
        BY FlowTypes
      <4>. QED BY <4>2, <4>3, <4>4
    <3>. QED BY <1>4, <3>1, <3>2
  <2>. QED BY <1>2, <2>1 DEF OnceInOrder
<1>7. LastLog' = n
  <2>1. log' # <<>>
    BY <1>1, <1>2
  <2>. QED BY <1>2, <1>3, <2>1 DEF LastLog
<1>8. LogInv'
  <2>1. \A i \in 1 .. Len(log') : \E r \in 1 .. Len(answered') : Answers(log[i], r)'
    <3>1. \A x, r : Answers(x, r) => /\ x.ctx = issued'[r] /\ Entries(answered'[r]) >= 1
                                     /\ x.docs = [j \in 1 .. Entries(answered'[r]) |-> r]
      BY Zenon DEF Answers
    <3>2. ASSUME NEW i \in 1 .. Len(log')
          PROVE  \E r \in 1 .. Len(answered') : Answers(log[i], r)'
      <4>1. PICK r \in 1 .. Len(answered) : Answers(log'[i], r)
        BY <1>2, <1>5
      <4>. QED BY <3>1, <4>1 DEF Answers
    <3>. QED BY <3>2
  <2>. QED BY <1>2, <1>6, <2>1 DEF LogInv, E
<1>. QED BY <1>7, <1>8

LEMMA HeadersFit ==
  ASSUME NEW shape \in Shapes
  PROVE  /\ Headers(shape) \in Nat /\ Size(shape) \in Nat /\ shape.doc \in Nat
         /\ Headers(shape) >= 1 /\ Headers(shape) <= Size(shape)
<1>1. PICK h \in Nat \ {0}, s \in Nat, d \in Nat :
         h = Headers(shape) /\ s = Size(shape) /\ d = shape.doc /\ h + d <= s
  BY SizeType
<1>. QED BY <1>1

\* What a step of the headers keeps.
LEMMA FlowKeeps ==
  ASSUME FlowInv, UNCHANGED <<buf, inp, out, answered, issued>>
  PROVE  /\ Stream' = Stream /\ StreamOK(Stream, answered)'
         /\ (UNCHANGED log => LogInv' /\ LastLog' = LastLog)
         /\ (UNCHANGED request => RequestInv' /\ Begun' = Begun)
<1>1. Stream' = Stream
  BY DEF Stream
<1>2. ASSUME UNCHANGED log PROVE LogInv' /\ LastLog' = LastLog
  <2>1. LogInv'
    BY <1>2 DEF FlowInv, LogInv, Answers, OnceInOrder
  <2>. QED BY <1>2, <2>1 DEF LastLog
<1>3. UNCHANGED request => RequestInv' /\ Begun' = Begun
  BY DEF FlowInv, RequestInv, Begun
<1>. QED BY <1>1, <1>2, <1>3 DEF FlowInv

\* The status line is the first of the next response.
LEMMA FlowStatus ==
  ASSUME BufInv, SizeInv, FlowInv, StatusLine
  PROVE  FlowInv'
<1>1. /\ UNCHANGED <<buf, inp, out, answered, issued, log, parsed>>
      /\ http.state = "START" /\ data < Len(buf)
  BY DEF StatusLine, server
<1>2. /\ Stream' = Stream /\ StreamOK(Stream, answered)' /\ LogInv' /\ LastLog' = LastLog
      /\ (UNCHANGED request => RequestInv' /\ Begun' = Begun) /\ parsed' \in Seq(Nat)
  BY <1>1, FlowKeeps DEF FlowInv
<1>3. At(Stream, answered, Begun, data) /\ LastLog = Begun
  BY <1>1 DEF FlowInv, PlaceInv, StartInv
<1> DEFINE r == Line.r
           shape == answered[r]
           H == Headers(shape)
<1>4. /\ Line = Stream[data + 1] /\ data + 1 \in 1 .. Len(Stream) /\ data < Len(Stream)
      /\ Line \in Unit /\ r \in 1 .. Len(answered) /\ shape \in Shapes
      /\ Line.i \in 1 .. Size(shape) /\ Kinds(shape, Line)
  BY <1>1, FirstUnit
<1>5. H \in Nat /\ Size(shape) \in Nat /\ H <= Size(shape) /\ H >= 1
      /\ Line.i \in Nat
  <2>1. H \in Nat /\ Size(shape) \in Nat /\ H <= Size(shape) /\ H >= 1
    BY <1>4, HeadersFit
  <2>. QED BY <1>4, <2>1, SizeType
<1>6. \/ r = Begun /\ Line.i > H
      \/ r = Begun + 1 /\ Line.i = 1
  BY <1>3, <1>4, FlowTypes DEF At
<1>7. CASE Line.k = "empty" /\ data' = data + 1 /\ UNCHANGED <<request, http>>
  <2>1. r = Begun /\ Line.i > H
    <3>1. Line.i >= H /\ Line.i # H
      BY <1>4, <1>5, <1>7 DEF Kinds
    <3>2. Line.i > H
      BY <1>5, <3>1
    <3>. QED BY <1>5, <1>6, <3>2
  <2>2. At(Stream, answered, Begun, data + 1)
    <3>1. Stream[data + 1].i >= Headers(answered[Stream[data + 1].r])
      BY <1>4, <1>5, <2>1
    <3>. QED BY <1>4, <2>1, <3>1, Behind, FlowTypes
  <2>3. StartInv'
    BY <1>1, <1>2, <1>3, <1>7, <2>2 DEF StartInv
  <2>4. PlaceInv'
    BY <1>1, <1>7, <2>3 DEF PlaceInv
  <2>. QED BY <1>2, <1>7, <2>4 DEF FlowInv
<1>8. CASE /\ Line.k = "status" /\ request # <<>> /\ request' = Tail(request) /\ data' = data + 1
           /\ http' = [NoResponse EXCEPT !.state = "HEADER", !.code = Line.v,
                                         !.ctx = Head(request).ctx]
  <2>1. Line.i < H /\ Line.k = shape.lines[Line.i][1] /\ Line.v = shape.lines[Line.i][2]
    <3>1. ~(Line.i > H) /\ Line.i # H
      BY <1>4, <1>8 DEF Kinds
    <3>2. Line.i < H
      BY <1>5, <3>1
    <3>. QED BY <1>4, <3>2 DEF Kinds
  <2>2. r = Begun + 1 /\ Line.i = 1
    BY <1>5, <1>6, <2>1
  <2>3. data + 1 < Len(Stream) /\ Stream[(data + 1) + 1].r = r /\ Stream[(data + 1) + 1].i = 2
    <3>1. Line.i < Size(shape)
      BY <1>5, <2>1
    <3>2. PICK p \in 1 .. Len(Stream) : p = data + 1
      BY <1>4
    <3>3. Stream[p].i < Size(answered[Stream[p].r])
      BY <1>4, <3>1, <3>2
    <3>4. p < Len(Stream) /\ Stream[p + 1].r = Stream[p].r /\ Stream[p + 1].i = Stream[p].i + 1
      BY <3>3, NextUnit, FlowTypes
    <3>. QED BY <1>4, <2>2, <3>2, <3>4
  <2>4. /\ http'.state = "HEADER" /\ http'.code = Line.v /\ http'.ctx = Head(request).ctx
        /\ http'.length = FALSE /\ http'.end = 0 /\ http'.close = FALSE
    BY <1>8 DEF NoResponse
  <2>5. /\ request' \in Seq([ctx : 0 .. MaxRequests]) /\ Len(request') = Len(request) - 1
        /\ Len(request) \in Nat /\ Len(request) >= 1
        /\ \A k \in 1 .. Len(request) - 1 : request'[k] = request[k + 1]
        /\ Head(request) = request[1]
    BY <1>8, HeadTailProperties, LenProperties, EmptySeq DEF FlowInv, RequestInv
  <2>6. Begun' = Begun + 1
    BY <1>1, <2>5, FlowTypes DEF Begun
  <2>7. RequestInv'
    <3>1. ASSUME NEW k \in 1 .. Len(request') PROVE request'[k].ctx = issued'[Begun' + k]
      <4>1. k \in 1 .. Len(request) - 1 /\ k + 1 \in 1 .. Len(request)
            /\ Begun + (k + 1) = Begun' + k
        BY <2>5, <2>6, FlowTypes
      <4>. QED BY <1>1, <2>5, <4>1 DEF FlowInv, RequestInv
    <3>2. Len(request') <= Len(issued')
      BY <1>1, <2>5, FlowTypes DEF FlowInv, RequestInv
    <3>. QED BY <2>5, <3>1, <3>2 DEF RequestInv
  <2>8. http'.ctx = issued[r]
    <3>1. 1 \in 1 .. Len(request)
      BY <2>5
    <3>. QED BY <2>2, <2>4, <2>5, <3>1 DEF FlowInv, RequestInv
  <2>9. LastLog = r - 1
    BY <1>3, <2>2, FlowTypes
  <2>10. PICK n \in 1 .. Len(answered) : n = r /\ Begun' = n /\ shape = answered[n]
    BY <1>4, <2>2, <2>6
  <2>11. HeaderInv'
    <3> HIDE DEF r, shape, H
    <3>1. /\ http'.ctx = issued[n] /\ LastLog = n - 1 /\ http'.code = answered[n].lines[1][2]
          /\ Stream[(data + 1) + 1].r = n /\ Stream[(data + 1) + 1].i = 2
      BY <2>1, <2>2, <2>3, <2>4, <2>8, <2>9, <2>10
    <3>2. answered[n].lines[1][1] = "status"
      BY <1>8, <2>1, <2>2, <2>10
    <3>3. ~\E j \in 1 .. 2 - 1 : answered[n].lines[j][1] = "length"
      BY <3>2
    <3>4. 2 \in 2 .. Headers(answered[n])
      BY <1>5, <2>1, <2>2, <2>10 DEF H
    <3>. QED BY <1>1, <1>2, <1>8, <2>3, <2>4, <2>10, <3>1, <3>3, <3>4 DEF HeaderInv, InHeaders
  <2>12. PlaceInv'
    BY <2>4, <2>11 DEF PlaceInv
  <2>. QED BY <1>2, <2>7, <2>12 DEF FlowInv
<1>9. CASE HttpClose(conn) /\ UNCHANGED data
  BY <1>1, <1>2, <1>9, FlowCloses, HttpKeeps DEF HttpClose, BufInv
<1>. QED BY <1>7, <1>8, <1>9 DEF StatusLine

\* A header line says what the response it belongs to is like.
LEMMA FlowHeader ==
  ASSUME BufInv, SizeInv, FlowInv, HeaderLine
  PROVE  FlowInv'
<1>1. /\ UNCHANGED <<buf, inp, out, answered, issued, log, parsed, request>>
      /\ http.state = "HEADER" /\ data < Len(buf) /\ Line.k # "blank" /\ data' = data + 1
  BY DEF HeaderLine, server
<1>2. /\ Stream' = Stream /\ StreamOK(Stream, answered)' /\ LogInv' /\ LastLog' = LastLog
      /\ RequestInv' /\ Begun' = Begun /\ parsed' \in Seq(Nat)
  BY <1>1, FlowKeeps DEF FlowInv
<1>3. HeaderInv
  BY <1>1 DEF FlowInv, PlaceInv
<1> DEFINE n == Begun
           shape == answered[n]
           H == Headers(shape)
           i == Line.i
<1>4. /\ Line = Stream[data + 1] /\ data + 1 \in 1 .. Len(Stream) /\ Line.r = n
      /\ shape \in Shapes /\ i \in 2 .. H /\ Kinds(shape, Line) /\ Line.i \in 1 .. Size(shape)
  BY <1>1, <1>3, FirstUnit DEF HeaderInv, InHeaders
<1>5. H \in Nat /\ Size(shape) \in Nat /\ H <= Size(shape) /\ H >= 1 /\ i \in Nat /\ i >= 1
  BY <1>4, HeadersFit
<1>6. i < H /\ Line.k = shape.lines[i][1] /\ Line.v = shape.lines[i][2]
  <2>1. i # H
    BY <1>1, <1>4 DEF Kinds
  <2>2. i < H
    BY <1>4, <1>5, <2>1
  <2>. QED BY <1>4, <2>2 DEF Kinds
<1>7. /\ data + 1 < Len(Stream) /\ Stream[(data + 1) + 1].r = n
      /\ Stream[(data + 1) + 1].i = i + 1
  <2>1. PICK p \in 1 .. Len(Stream) : p = data + 1
    BY <1>4
  <2>2. Stream[p].i < Size(answered[Stream[p].r])
    <3>1. i < Size(shape)
      BY <1>5, <1>6
    <3>. QED BY <1>4, <2>1, <3>1
  <2>3. p < Len(Stream) /\ Stream[p + 1].r = Stream[p].r /\ Stream[p + 1].i = Stream[p].i + 1
    BY <2>2, NextUnit, FlowTypes
  <2>. QED BY <1>4, <2>1, <2>3
<1>8. i \in 1 .. Len(shape.lines)
  <2>1. PICK h \in Nat : h = H /\ Len(shape.lines) = h - 1
    BY <1>4, <1>5, SizeType
  <2>. QED BY <1>5, <1>6, <2>1
<1>9. i + 1 \in 2 .. H /\ (i + 1) - 1 = i
  BY <1>5, <1>6
<1>10. (\E j \in 1 .. i : shape.lines[j][1] = "length")
          <=> (\E j \in 1 .. i - 1 : shape.lines[j][1] = "length") \/ Line.k = "length"
  <2>1. \A j \in 1 .. i : j \in 1 .. i - 1 \/ j = i
    BY <1>5
  <2>2. \A j \in 1 .. i - 1 : j \in 1 .. i
    BY <1>5
  <2>3. i \in 1 .. i
    BY <1>5
  <2>. QED BY <1>6, <2>1, <2>2, <2>3
<1>11. /\ http'.state = "HEADER" /\ http'.code = http.code /\ http'.ctx = http.ctx
       /\ http'.length = IF Line.k = "length" THEN TRUE ELSE http.length
       /\ http'.end = IF Line.k = "length" THEN Line.v ELSE http.end
       /\ http'.close = IF Line.k = "close" THEN TRUE ELSE http.close
  <2>1. HttpOK(http)
    BY DEF BufInv
  <2>2. CASE Line.k = "length"
    <3>1. http' = [http EXCEPT !.end = Line.v, !.length = TRUE]
      BY <2>2 DEF HeaderLine
    <3>. QED BY <1>1, <2>1, <2>2, <3>1, HttpKeeps
  <2>3. CASE Line.k = "close"
    <3>1. http' = [http EXCEPT !.close = TRUE]
      BY <2>3 DEF HeaderLine
    <3>. QED BY <1>1, <2>1, <2>3, <3>1, HttpKeeps
  <2>4. CASE Line.k # "length" /\ Line.k # "close"
    <3>1. http' = [http EXCEPT !.media = TRUE] \/ http' = [http EXCEPT !.error = TRUE]
      BY <2>4 DEF HeaderLine
    <3>2. \A g \in {[http EXCEPT !.media = TRUE], [http EXCEPT !.error = TRUE]} :
             /\ g.state = http.state /\ g.end = http.end /\ g.close = http.close
             /\ g.length = http.length /\ g.code = http.code /\ g.ctx = http.ctx
      BY <2>1 DEF HttpOK
    <3>. QED BY <1>1, <2>4, <3>1, <3>2
  <2>. QED BY <2>2, <2>3, <2>4
<1>12. Line.k = "length" => Line.v = shape.doc
  BY <1>4, <1>6, <1>8, LengthAssumption DEF LengthAssumption
<1>13. Line.k = "close" => Has(shape, "close")
  BY <1>6, <1>8 DEF Has
<1>14. PICK m \in 1 .. Len(answered) : m = n
  BY <1>3 DEF HeaderInv, InHeaders
<1>15. /\ http.ctx = issued[n] /\ LastLog = n - 1 /\ http.code = shape.lines[1][2]
       /\ http.length <=> \E j \in 1 .. i - 1 : shape.lines[j][1] = "length"
       /\ http.end = IF http.length THEN shape.doc ELSE 0
       /\ http.close => Has(shape, "close")
  BY <1>3, <1>4 DEF HeaderInv, InHeaders
<1>16. HeaderInv'
  <2> DEFINE u == Stream[(data + 1) + 1]
  <2>0. data' = data + 1 /\ answered' = answered /\ issued' = issued
    BY <1>1
  <2>1. http'.length <=> \E j \in 1 .. u.i - 1 : shape.lines[j][1] = "length"
    <3>1. u.i - 1 = i
      BY <1>7, <1>9
    <3>. QED BY <1>10, <1>11, <1>15, <3>1
  <2>2. http'.end = IF http'.length THEN shape.doc ELSE 0
    BY <1>11, <1>12, <1>15
  <2>3. http'.close => Has(shape, "close")
    BY <1>11, <1>13, <1>15
  <2>4. /\ n \in 1 .. Len(answered) /\ data + 1 < Len(Stream) /\ u.r = n /\ u.i \in 2 .. H
        /\ http'.ctx = issued[n] /\ LastLog = n - 1 /\ http'.code = shape.lines[1][2]
    BY <1>7, <1>9, <1>11, <1>14, <1>15
  <2> HIDE DEF i, H
  <2>. QED BY <2>0, <1>2, <2>1, <2>2, <2>3, <2>4 DEF HeaderInv, InHeaders, H
<1>17. PlaceInv'
  BY <1>11, <1>16 DEF PlaceInv
<1>. QED BY <1>2, <1>17 DEF FlowInv

\* Behind the headers: a response without a document is returned, and what is
\* behind it up to where it ends is its own; the document of another one begins.
LEMMA FlowHeadersEnd ==
  ASSUME BufInv, SizeInv, FlowInv, EndOfHeaders
  PROVE  FlowInv'
<1>1. /\ UNCHANGED <<buf, inp, out, answered, issued>>
      /\ http.state = "HEADER" /\ data < Len(buf) /\ Line.k = "blank"
  BY DEF EndOfHeaders, server
<1>2. /\ Stream' = Stream /\ StreamOK(Stream, answered)'
      /\ (UNCHANGED log => LogInv' /\ LastLog' = LastLog)
      /\ (UNCHANGED request => RequestInv' /\ Begun' = Begun)
  BY <1>1, FlowKeeps
<1>3. HeaderInv /\ HttpOK(http)
  BY <1>1 DEF FlowInv, PlaceInv, BufInv
<1> DEFINE n == Begun
           shape == answered[n]
           H == Headers(shape)
<1>4. /\ Line = Stream[data + 1] /\ data + 1 \in 1 .. Len(Stream) /\ Line.r = n
      /\ shape \in Shapes /\ Line.i \in 2 .. H /\ Kinds(shape, Line)
      /\ n \in 1 .. Len(answered)
  BY <1>1, <1>3, FirstUnit DEF HeaderInv, InHeaders
<1>5. H \in Nat /\ Size(shape) \in Nat /\ H <= Size(shape) /\ shape.doc \in Nat
      /\ H + shape.doc <= Size(shape) /\ Len(shape.lines) = H - 1
  BY <1>4, HeadersFit, SizeType
<1>6. Line.i = H
  BY <1>1, <1>4, <1>5 DEF Kinds
<1>7. /\ http.ctx = issued[n] /\ LastLog = n - 1 /\ http.code = shape.lines[1][2]
      /\ http.length <=> Has(shape, "length")
      /\ http.end = IF http.length THEN shape.doc ELSE 0
      /\ http.close => Has(shape, "close")
  BY <1>3, <1>4, <1>5, <1>6 DEF HeaderInv, InHeaders, Has
<1>8. NoBody <=> Bodiless(shape)
  BY <1>7 DEF NoBody, Bodiless
<1>9. PICK p \in 1 .. Len(Stream) : p = data + 1
  BY <1>4
<1>10. Stream[p].r = n /\ Stream[p].i = H
  BY <1>4, <1>6, <1>9
<1> HIDE DEF H
<1>11. CASE HttpClose(conn) /\ UNCHANGED <<parsed, log>>
  BY <1>1, <1>2, <1>3, <1>11, FlowCloses, HttpKeeps DEF HttpClose
<1>12. CASE /\ ~http.error /\ NoBody
            /\ http' = [http EXCEPT !.state = "COMPLETE", !.end = http.end + data + 1]
            /\ log' = Append(log, Response(<<Line.r>>)) /\ UNCHANGED <<request, parsed>>
  <2> DEFINE entry == Response(<<Line.r>>)
  <2>1. entry \in [ctx : 0 .. MaxRequests, docs : Seq(Nat)] /\ Answers(entry, n)
    <3>1. entry.ctx = issued[n] /\ entry.docs = <<n>> /\ Entries(shape) = 1
      BY <1>4, <1>7, <1>8, <1>12 DEF Response, Entries
    <3>2. issued[n] \in 0 .. MaxRequests
      <4>1. issued \in Seq(0 .. MaxRequests) /\ n \in 1 .. Len(issued)
        BY <1>4, FlowTypes DEF SizeInv
      <4>. QED BY <4>1, ElementOfSeq
    <3>3. <<n>> = [j \in 1 .. 1 |-> n] /\ <<n>> \in Seq(Nat)
      BY <1>4
    <3>4. entry \in [ctx : 0 .. MaxRequests, docs : Seq(Nat)]
      BY <1>4, <1>7, <3>2, <3>3 DEF Response
    <3>. QED BY <3>1, <3>3, <3>4 DEF Answers
  <2>2. LogInv' /\ LastLog' = n
    <3> HIDE DEF entry
    <3>1. log' = Append(log, entry)
      BY <1>12 DEF entry
    <3>. QED BY <1>1, <1>4, <1>7, <2>1, <3>1, LogGrows
  <2>3. http'.state = "COMPLETE" /\ http'.end = http.end + data + 1 /\ http'.close = http.close
    BY <1>3, <1>12, HttpKeeps
  <2>4. PICK k \in Nat : p + k = Rest' /\ k <= shape.doc
    <3>1. PICK e \in Nat, l \in Nat, d \in Nat, m \in Nat :
             e = http.end /\ l = Len(buf) /\ d = data /\ m = shape.doc
      <4>1. http.end \in Nat /\ Len(buf) \in Nat /\ data \in Nat
        BY FlowTypes
      <4>. QED BY <1>5, <4>1
    <3>2. d < l /\ e <= m /\ p = d + 1
      BY <1>1, <1>5, <1>7, <1>9, <3>1
    <3>3. Rest' = IF e + d + 1 <= l THEN e + d + 1 ELSE l
      BY <1>1, <2>3, <3>1 DEF Rest
    <3>4. CASE e + d + 1 <= l
      BY <3>1, <3>2, <3>3, <3>4
    <3>5. CASE ~(e + d + 1 <= l)
      <4>1. l - (d + 1) \in Nat /\ p + (l - (d + 1)) = l /\ l - (d + 1) <= m
        BY <3>2, <3>5
      <4>. QED BY <3>1, <3>3, <3>5, <4>1
    <3>. QED BY <3>4, <3>5
  <2>5. Stream[p].i + k <= Size(answered[Stream[p].r])
    <3>1. PICK h \in Nat, m \in Nat, s \in Nat : h = H /\ m = shape.doc /\ s = Size(shape)
      BY <1>5
    <3>2. h + k <= s
      BY <1>5, <2>4, <3>1
    <3>. QED BY <1>10, <3>1, <3>2
  <2>6. p + k <= Len(Stream) /\ Stream[p + k].r = n /\ Stream[p + k].i = H + k
    <3>1. p + k <= Len(Stream) /\ Stream[p + k].r = Stream[p].r
          /\ Stream[p + k].i = Stream[p].i + k
      BY <2>5, NextUnits, FlowTypes
    <3>. QED BY <1>10, <3>1
  <2>7. At(Stream, answered, n, p + k)
    <3>1. PICK x \in 1 .. Len(Stream) : x = p + k
      BY <2>6, FlowTypes
    <3>2. Stream[x].i >= Headers(answered[Stream[x].r]) /\ Stream[x].r = n
      BY <1>5, <2>6, <3>1 DEF H
    <3>3. At(Stream, answered, Stream[x].r, x)
      BY <3>2, Behind, FlowTypes
    <3>. QED BY <3>1, <3>2, <3>3
  <2>8. CompleteInv'
    BY <1>1, <1>2, <1>12, <2>2, <2>4, <2>7 DEF CompleteInv
  <2>9. PlaceInv'
    BY <2>3, <2>8 DEF PlaceInv
  <2>. QED BY <1>2, <1>12, <2>2, <2>9 DEF FlowInv
<1>13. CASE /\ ~NoBody
            /\ http' = [http EXCEPT !.state = "DATA", !.end = http.end + data + 1,
                                    !.close = http.close \/ http.end = 0]
            /\ data' = data + 1 /\ parsed' = <<>> /\ UNCHANGED <<request, log>>
  <2>1. /\ http'.state = "DATA" /\ http'.end = http.end + data + 1
        /\ http'.close = (http.close \/ http.end = 0) /\ http'.ctx = http.ctx
    BY <1>3, <1>13, HttpKeeps
  <2>2. parsed' \in Seq(Nat) /\ \A j \in 1 .. Len(parsed') : parsed'[j] = n
    <3>1. Len(parsed') = 0 /\ 1 .. 0 = {}
      BY <1>13
    <3>. QED BY <1>13, <3>1
  <2>3. At(Stream, answered, n, data + 1)
    <3>1. Stream[p].i >= Headers(answered[Stream[p].r])
      BY <1>5, <1>10 DEF H
    <3>2. At(Stream, answered, Stream[p].r, p)
      BY <3>1, Behind, FlowTypes
    <3>. QED BY <1>9, <1>10, <3>2
  <2>4. http'.close => (shape.doc > 0 => Closing(shape))
    <3>1. shape.doc > 0 => shape.doc # 0
      BY <1>5
    <3>2. http.end = 0 /\ shape.doc # 0 => ~http.length
      BY <1>7
    <3>. QED BY <1>7, <2>1, <3>1, <3>2, Zenon DEF Closing
  <2>5. ASSUME ~http'.close
        PROVE  /\ p < Len(Stream) /\ Stream[p + 1].r = n /\ http'.end > p
               /\ Stream[p + 1].i + (http'.end - p) = H + shape.doc + 1
    <3>1. PICK h \in Nat, m \in Nat, s \in Nat : h = H /\ m = shape.doc /\ s = Size(shape)
      BY <1>5
    <3>2. http.end = m /\ m # 0
      BY <1>7, <2>1, <2>5, <3>1
    <3>3. Stream[p].i < Size(answered[Stream[p].r])
      <4>1. h < s
        BY <1>5, <3>1, <3>2
      <4>. QED BY <1>10, <3>1, <4>1
    <3>4. p < Len(Stream) /\ Stream[p + 1].r = n /\ Stream[p + 1].i = h + 1
      <4>1. p < Len(Stream) /\ Stream[p + 1].r = Stream[p].r /\ Stream[p + 1].i = Stream[p].i + 1
        BY <3>3, NextUnit, FlowTypes
      <4>. QED BY <1>10, <3>1, <4>1
    <3>5. http'.end = m + p
      <4>1. PICK d \in Nat : d = data /\ p = d + 1
        BY <1>9, FlowTypes
      <4>. QED BY <2>1, <3>2, <4>1
    <3>6. m + p > p /\ (h + 1) + ((m + p) - p) = h + m + 1
      BY <3>2
    <3>. QED BY <3>1, <3>4, <3>5, <3>6
  <2>6. DataInv'
    <3>1. Begun' = n /\ answered' = answered /\ issued' = issued /\ Stream' = Stream /\ data' = p
          /\ LastLog' = LastLog
      BY <1>1, <1>2, <1>9, <1>13
    <3>2. ~Bodiless(shape)
      BY <1>8, <1>13
    <3>. QED BY <1>4, <1>7, <1>9, <2>1, <2>2, <2>3, <2>4, <2>5, <3>1, <3>2 DEF DataInv, InBody, H
  <2>7. PlaceInv'
    BY <2>1, <2>6 DEF PlaceInv
  <2>. QED BY <1>2, <1>13, <2>2, <2>7 DEF FlowInv
<1>. QED BY <1>11, <1>12, <1>13 DEF EndOfHeaders

\* What is taken off the front of the buffer b is taken off the stream.
LEMMA StreamDrops ==
  ASSUME BufInv, SizeInv, FlowInv, NEW b \in Seq(Unit), inp' \in Seq(Unit), out' \in Seq(Unit),
         (b \o inp') \o out' = Stream
  PROVE  /\ Len(b) \in Nat /\ Len(b) <= Len(Stream) /\ \A p \in 1 .. Len(b) : Stream[p] = b[p]
         /\ \A d \in 0 .. Len(b) : buf' = SubSeq(b, d + 1, Len(b)) =>
               /\ Stream' \in Seq(Unit) /\ Len(Stream') = Len(Stream) - d
               /\ \A p \in 1 .. Len(Stream) - d : Stream'[p] = Stream[d + p]
               /\ StreamOK(Stream', answered)
               /\ \A n \in Nat, p \in 0 .. Len(Stream) - d :
                     At(Stream, answered, n, d + p) => At(Stream', answered, n, p)
<1>1. PICK i \in Seq(Unit), o \in Seq(Unit) : i = inp' /\ o = out'
  OBVIOUS
<1>2. Stream = (b \o i) \o o
  BY <1>1
<1>3. /\ Len(Stream) = Len(b) + Len(i) + Len(o)
      /\ \A p \in 1 .. Len(b) : Stream[p] = b[p]
      /\ \A d \in 0 .. Len(b) :
            (SubSeq(b, d + 1, Len(b)) \o i) \o o = SubSeq(Stream, d + 1, Len(Stream))
  <2>1. /\ Len((b \o i) \o o) = Len(b) + Len(i) + Len(o)
        /\ \A p \in 1 .. Len(b) : ((b \o i) \o o)[p] = b[p]
        /\ \A d \in 0 .. Len(b) :
              (SubSeq(b, d + 1, Len(b)) \o i) \o o
                 = SubSeq((b \o i) \o o, d + 1, Len((b \o i) \o o))
    <3>1. b \in Seq(Unit) /\ i \in Seq(Unit) /\ o \in Seq(Unit)
      BY <1>1
    <3> HIDE DEF Unit
    <3>2. /\ Len((b \o i) \o o) = Len(b) + Len(i) + Len(o)
          /\ \A p \in 1 .. Len(b) : ((b \o i) \o o)[p] = b[p]
      BY <3>1, Parts
    <3>3. ASSUME NEW d \in 0 .. Len(b)
          PROVE  (SubSeq(b, d + 1, Len(b)) \o i) \o o
                    = SubSeq((b \o i) \o o, d + 1, Len((b \o i) \o o))
      <4>1. \A e \in 0 .. Len(b) : (SubSeq(b, e + 1, Len(b)) \o i) \o o
                    = SubSeq((b \o i) \o o, e + 1, Len((b \o i) \o o))
        BY <3>1, Parts, ZenonT(60)
      <4>. QED BY <4>1
    <3>. QED BY <3>2, <3>3
  <2>. QED BY <1>2, <2>1, Zenon
<1>4. Len(b) \in Nat /\ Len(i) \in Nat /\ Len(o) \in Nat /\ Len(b) <= Len(Stream)
  <2>1. Len(b) \in Nat /\ Len(i) \in Nat /\ Len(o) \in Nat
    BY LenProperties
  <2>. QED BY <1>3, <2>1
<1>5. ASSUME NEW d \in 0 .. Len(b), buf' = SubSeq(b, d + 1, Len(b))
      PROVE  /\ Stream' \in Seq(Unit) /\ Len(Stream') = Len(Stream) - d
             /\ \A p \in 1 .. Len(Stream) - d : Stream'[p] = Stream[d + p]
             /\ StreamOK(Stream', answered)
             /\ \A n \in Nat, p \in 0 .. Len(Stream) - d :
                   At(Stream, answered, n, d + p) => At(Stream', answered, n, p)
  <2>1. Stream' = SubSeq(Stream, d + 1, Len(Stream))
    BY <1>1, <1>3, <1>5 DEF Stream
  <2>2. PICK q \in Seq(Unit) : q = Stream
    BY FlowTypes
  <2>a. PICK ans, t : ans = answered /\ t = Stream'
    OBVIOUS
  <2>3. d \in 0 .. Len(q) /\ StreamOK(q, ans) /\ t = SubSeq(q, d + 1, Len(q))
    <3>1. d \in 0 .. Len(Stream)
      BY <1>4, FlowTypes
    <3>. QED BY <2>1, <2>2, <2>a, <3>1, FlowTypes
  <2>4. /\ t \in Seq(Unit) /\ Len(t) = Len(q) - d
        /\ \A p \in 1 .. Len(q) - d : t[p] = q[d + p]
        /\ StreamOK(t, ans)
        /\ \A n \in Nat, p \in 0 .. Len(q) - d : At(q, ans, n, d + p) => At(t, ans, n, p)
    BY <2>3, StreamDrop
  <2>. QED BY <2>2, <2>a, <2>4
<1>. QED BY <1>3, <1>4, <1>5

\* After a response: what is left of it is dropped, or the stream is closed.
LEMMA FlowComplete ==
  ASSUME BufInv, SizeInv, FlowInv, Complete
  PROVE  FlowInv'
<1>1. UNCHANGED <<inp, out, answered, issued, log, request>>
  BY DEF Complete, server
<1>2. HttpOK(http)
  BY DEF BufInv
<1>3. CASE /\ http.state = "COMPLETE" /\ ~http.close
           /\ buf' = SubSeq(buf, http.end + 1, Len(buf)) /\ data' = 0
           /\ http' = [http EXCEPT !.state = "START", !.end = 0]
           /\ UNCHANGED parsed
  <2>1. At(Stream, answered, Begun, Rest) /\ LastLog = Begun
    BY <1>3 DEF FlowInv, PlaceInv, CompleteInv
  <2>2. Rest \in 0 .. Len(buf)
    BY FlowTypes DEF Rest
  <2>3. buf' = SubSeq(buf, Rest + 1, Len(buf))
    <3>1. CASE http.end <= Len(buf)
      BY <1>3, <3>1 DEF Rest
    <3>2. CASE ~(http.end <= Len(buf))
      <4>1. buf \in Seq(Unit) /\ Len(buf) \in Nat /\ http.end \in Nat
        BY FlowTypes DEF BufInv
      <4>2. ASSUME NEW k \in Nat, k >= Len(buf)
            PROVE  SubSeq(buf, k + 1, Len(buf)) = <<>>
        <5>1. /\ k + 1 \in Int /\ ~(k + 1 <= Len(buf)) /\ k + 1 .. Len(buf) = {}
          BY <4>1, <4>2
        <5>2. /\ SubSeq(buf, k + 1, Len(buf)) \in Seq(Unit)
              /\ Len(SubSeq(buf, k + 1, Len(buf))) = 0
          BY <4>1, <5>1, SubSeqProperties
        <5>. QED BY <5>2, EmptySeq
      <4>3. Rest = Len(buf) /\ http.end >= Len(buf)
        BY <3>2, <4>1 DEF Rest
      <4>. QED BY <1>3, <4>1, <4>2, <4>3
    <3>. QED BY <3>1, <3>2
  <2>4. /\ StreamOK(Stream', answered) /\ At(Stream', answered, Begun, 0)
    <3>1. /\ buf \in Seq(Unit) /\ inp' \in Seq(Unit) /\ out' \in Seq(Unit)
          /\ (buf \o inp') \o out' = Stream
      BY <1>1 DEF BufInv, SizeInv, Stream
    <3>2. /\ StreamOK(Stream', answered)
          /\ \A n \in Nat, p \in 0 .. Len(Stream) - Rest :
                At(Stream, answered, n, Rest + p) => At(Stream', answered, n, p)
      BY <2>2, <2>3, <3>1, StreamDrops
    <3>3. 0 \in 0 .. Len(Stream) - Rest /\ Rest + 0 = Rest /\ Begun \in Nat
      BY <2>2, FlowTypes
    <3>. QED BY <2>1, <3>2, <3>3
  <2>5. http'.state = "START"
    BY <1>2, <1>3, HttpKeeps
  <2>6. LogInv' /\ LastLog' = LastLog /\ RequestInv' /\ Begun' = Begun
    <3>1. LogInv'
      BY <1>1 DEF FlowInv, LogInv, Answers, OnceInOrder
    <3>2. RequestInv'
      BY <1>1 DEF FlowInv, RequestInv, Begun
    <3>. QED BY <1>1, <3>1, <3>2 DEF LastLog, Begun
  <2>7. StartInv'
    BY <1>1, <1>3, <2>1, <2>4, <2>6 DEF StartInv
  <2>8. StreamOK(Stream, answered)' /\ parsed' \in Seq(Nat)
    BY <1>1, <1>3, <2>4 DEF FlowInv
  <2>9. PlaceInv'
    BY <2>5, <2>7 DEF PlaceInv
  <2>. QED BY <2>6, <2>8, <2>9 DEF FlowInv
<1>4. CASE http' = [http EXCEPT !.state = "CLOSED"] /\ UNCHANGED <<buf, parsed>>
  BY <1>1, <1>2, <1>4, FlowCloses, HttpKeeps DEF Stream
<1>5. CASE UNCHANGED <<buf, data, http>> /\ parsed' \in {parsed, <<>>}
  BY <1>1, <1>5, FlowStays DEF Stream
<1>. QED BY <1>3, <1>4, <1>5 DEF Complete

-----------------------------------------------------------------------------
(* The document of a response, as the parser takes it. *)

\* Tokens one behind the other are of one document.
LEMMA TokensOwn ==
  ASSUME NEW q \in Seq(Unit), NEW ans, Responses(ans), StreamOK(q, ans),
         NEW d \in Nat, NEW m \in Nat, d + m <= Len(q),
         \A j \in 1 .. m : q[d + j].k \in {"elem", "root"}
  PROVE  \A j \in 1 .. m : q[d + j].r = q[d + 1].r /\ q[d + j].i = q[d + 1].i + (j - 1)
<1> DEFINE Bad == {j \in 1 .. m : ~(q[d + j].r = q[d + 1].r /\ q[d + j].i = q[d + 1].i + (j - 1))}
<1>1. SUFFICES ASSUME Bad # {} PROVE FALSE
  OBVIOUS
<1>2. PICK k \in Bad : \A j \in Bad : ~(j < k)
  <2>1. Bad \subseteq Nat
    OBVIOUS
  <2> HIDE DEF Bad
  <2>2. PICK k \in Bad : \A j \in Bad : ~(<<j, k>> \in OpToRel(<, Nat))
    BY <1>1, <2>1, WFMin, NatLessThanWellFounded
  <2>. QED BY <2>1, <2>2 DEF OpToRel
<1>3. k \in 1 .. m /\ Len(q) \in Nat
  BY LenProperties
<1>4. \A j \in 1 .. m : d + j \in 1 .. Len(q)
  BY <1>3
<1>5. k # 1
  <2>1. 1 \in 1 .. m /\ d + 1 \in 1 .. Len(q)
    BY <1>3, <1>4
  <2>2. q[d + 1].i \in Nat
    <3>1. PICK x \in 1 .. Len(q) : x = d + 1
      BY <2>1
    <3>2. q[x].i \in 1 .. Size(ans[q[x].r])
      BY UnitKinds
    <3>. QED BY <3>1, <3>2
  <2>3. q[d + 1].i + (1 - 1) = q[d + 1].i
    BY <2>2
  <2>. QED BY <2>3
<1>6. PICK j \in 1 .. m : k = j + 1
  <2>1. k - 1 \in 1 .. m /\ k = (k - 1) + 1
    BY <1>3, <1>5
  <2>. QED BY <2>1
<1>7. q[d + j].r = q[d + 1].r /\ q[d + j].i = q[d + 1].i + (j - 1)
  <2>1. j < k
    BY <1>6
  <2>2. j \notin Bad
    BY <1>2, <2>1
  <2>. QED BY <2>2
<1>8. PICK x \in 1 .. Len(q) : x = d + j
  BY <1>4
<1>9. x + 1 = d + k /\ x + 1 \in 1 .. Len(q) /\ x \in 1 .. Len(q) - 1
  <2>1. d + k = (d + j) + 1
    BY <1>6
  <2>2. d + k \in 1 .. Len(q)
    BY <1>3, <1>4
  <2>. QED BY <1>3, <1>8, <2>1, <2>2
<1>10. Follow(q[x], q[x + 1], ans)
  BY <1>9 DEF StreamOK
<1>11. q[x + 1].i # 1
  <2> DEFINE y == x + 1
             shape == ans[q[y].r]
  <2>1. y \in 1 .. Len(q) /\ q[y].k \in {"elem", "root"}
    BY <1>3, <1>9
  <2>2. shape \in Shapes /\ Kinds(shape, q[y]) /\ q[y].i \in 1 .. Size(shape)
    <3> HIDE DEF y
    <3>. QED BY <2>1, UnitKinds
  <2>3. q[y].i > Headers(shape)
    BY <2>1, <2>2 DEF Kinds
  <2>4. Headers(shape) \in Nat /\ Headers(shape) >= 1
    BY <2>2, HeadersFit
  <2>. QED BY <2>3, <2>4
<1>12. q[x + 1].r = q[x].r /\ q[x + 1].i = q[x].i + 1
  BY <1>10, <1>11 DEF Follow
<1>13. q[d + k].r = q[d + 1].r /\ q[d + k].i = (q[d + 1].i + (j - 1)) + 1
  BY <1>7, <1>8, <1>9, <1>12
<1>14. (q[d + 1].i + (j - 1)) + 1 = q[d + 1].i + (k - 1)
  <2>1. q[d + 1].i \in Nat
    <3>1. 1 \in 1 .. m
      BY <1>3
    <3>2. PICK z \in 1 .. Len(q) : z = d + 1
      BY <1>4, <3>1
    <3>3. q[z].i \in 1 .. Size(ans[q[z].r])
      BY UnitKinds
    <3>. QED BY <3>2, <3>3
  <2>2. PICK a \in Nat : a = q[d + 1].i
    BY <2>1
  <2>3. (a + (j - 1)) + 1 = a + (k - 1)
    BY <1>6
  <2>. QED BY <2>2, <2>3
<1>. QED BY <1>13, <1>14

\* The first token the parser may take is of the response that was begun.
LEMMA FirstToken ==
  ASSUME BufInv, SizeInv, FlowInv, DataInv, data < Len(Stream),
         Stream[data + 1].k \in {"elem", "root"}
  PROVE  Stream[data + 1].r = Begun
<1>1. CASE ~http.close
  BY <1>1 DEF DataInv, InBody
<1>2. CASE http.close
  <2>1. At(Stream, answered, Begun, data)
    BY <1>2 DEF DataInv, InBody
  <2>2. PICK p \in 1 .. Len(Stream) : p = data + 1
    BY FlowTypes
  <2>3. Kinds(answered[Stream[p].r], Stream[p]) /\ answered[Stream[p].r] \in Shapes
        /\ Stream[p].i \in 1 .. Size(answered[Stream[p].r])
    BY FlowTypes, UnitKinds
  <2>4. Stream[p].i > Headers(answered[Stream[p].r])
    BY <2>2, <2>3 DEF Kinds
  <2>5. Headers(answered[Stream[p].r]) \in Nat /\ Headers(answered[Stream[p].r]) >= 1
    BY <2>3, HeadersFit
  <2>6. Stream[data + 1].i # 1 /\ data # Len(Stream)
    <3>1. Stream[p].i # 1
      BY <2>4, <2>5
    <3>. QED BY <2>2, <3>1, FlowTypes
  <2>. QED BY <2>1, <2>6 DEF At
<1>. QED BY <1>1, <1>2

\* What the parser takes: tokens of response n, the last of which is the root's end
\* tag only when it is the end of the document.
LEMMA TakenOwn ==
  ASSUME BufInv, SizeInv, FlowInv, DataInv, NEW b \in Seq(Unit), Len(b) <= Len(Stream),
         \A p \in 1 .. Len(b) : Stream[p] = b[p], data \in 0 .. Len(b),
         NEW length \in data .. Len(b)
  PROVE  LET seg == SubSeq(b, data + 1, length)
             m   == Taken(seg)
             shape == answered[Begun]
         IN  /\ m \in Nat /\ data + m <= length
             /\ \A j \in 1 .. m : /\ seg[j] = Stream[data + j] /\ Stream[data + j].r = Begun
                                  /\ Stream[data + j].i > Headers(shape)
                                  /\ Stream[data + j].i = Stream[data + 1].i + (j - 1)
             /\ (m > 0 /\ seg[m].k = "root") =>
                   /\ Stream[data + m].i = Headers(shape) + shape.doc
                   /\ Len(parsed) + m = shape.doc
<1> DEFINE seg == SubSeq(b, data + 1, length)
           m   == Taken(seg)
           shape == answered[Begun]
<1>1. Len(b) \in Nat /\ data \in Nat /\ length \in Nat /\ Len(Stream) \in Nat
  BY LenProperties, FlowTypes
<1>2. seg \in Seq(Unit) /\ Len(seg) = length - data /\ Len(seg) \in Nat
      /\ \A j \in 1 .. length - data : seg[j] = b[data + j]
  <2>1. \A i \in data + 1 .. length : b[i] \in Unit
    BY <1>1, ElementOfSeq
  <2> HIDE DEF Unit
  <2>2. /\ SubSeq(b, data + 1, length) \in Seq(Unit)
        /\ Len(SubSeq(b, data + 1, length))
              = IF data + 1 <= length THEN length - (data + 1) + 1 ELSE 0
        /\ \A i \in 1 .. length - (data + 1) + 1 :
              SubSeq(b, data + 1, length)[i] = b[(data + 1) + i - 1]
    BY <1>1, <2>1, SubSeqProperties
  <2>3. \A i \in 1 .. length - data : (data + 1) + i - 1 = data + i
    BY <1>1
  <2>4. length - (data + 1) + 1 = length - data /\ (~(data + 1 <= length) => length - data = 0)
        /\ length - data \in Nat
    BY <1>1
  <2>. QED BY <2>2, <2>3, <2>4
<1> HIDE DEF seg
<1>3. /\ m \in 0 .. Len(seg)
      /\ \A j \in 1 .. m : seg[j].k \in {"elem", "root"} /\ seg[j].v = Len(parsed) + j
  BY <1>2, TakenType
<1> HIDE DEF m
<1>4. m \in Nat /\ data + m <= length /\ data + m <= Len(Stream)
  BY <1>1, <1>2, <1>3
<1>5. ASSUME NEW j \in 1 .. m PROVE seg[j] = Stream[data + j] /\ data + j \in 1 .. Len(Stream)
  <2>1. j \in 1 .. length - data /\ data + j \in 1 .. Len(b)
    BY <1>1, <1>2, <1>3
  <2>. QED BY <1>1, <1>2, <2>1
<1>6. \A j \in 1 .. m : /\ Stream[data + j].r = Stream[data + 1].r
                        /\ Stream[data + j].i = Stream[data + 1].i + (j - 1)
  <2>1. \A j \in 1 .. m : Stream[data + j].k \in {"elem", "root"}
    BY <1>3, <1>5
  <2>2. PICK q \in Seq(Unit), ans \in Seq(Shapes), d \in Nat, k \in Nat :
           q = Stream /\ ans = answered /\ d = data /\ k = m
    <3>1. Stream \in Seq(Unit) /\ answered \in Seq(Shapes) /\ data \in Nat /\ m \in Nat
      BY <1>1, <1>4, FlowTypes DEF Responses
    <3>. QED BY <3>1
  <2>3. /\ Responses(ans) /\ StreamOK(q, ans) /\ d + k <= Len(q)
        /\ \A j \in 1 .. k : q[d + j].k \in {"elem", "root"}
    BY <1>4, <2>1, <2>2, FlowTypes
  <2>4. \A j \in 1 .. k : q[d + j].r = q[d + 1].r /\ q[d + j].i = q[d + 1].i + (j - 1)
    BY <2>3, TokensOwn
  <2>. QED BY <2>2, <2>4
<1>7. m > 0 => Stream[data + 1].r = Begun
  <2>1. SUFFICES ASSUME m > 0 PROVE Stream[data + 1].r = Begun
    OBVIOUS
  <2>2. 1 \in 1 .. m
    BY <1>4, <2>1
  <2>3. Stream[data + 1].k \in {"elem", "root"} /\ data < Len(Stream)
    <3>1. seg[1].k \in {"elem", "root"}
      BY <1>3, <2>2
    <3>2. seg[1] = Stream[data + 1] /\ data + 1 \in 1 .. Len(Stream)
      BY <1>5, <2>2
    <3>. QED BY <1>1, <3>1, <3>2
  <2>. QED BY <2>3, FirstToken
<1>8. ASSUME NEW j \in 1 .. m
      PROVE  /\ Stream[data + j].r = Begun /\ Stream[data + j].i > Headers(shape)
             /\ seg[j].k = "root" => /\ Stream[data + j].i = Headers(shape) + shape.doc
                                     /\ seg[j].v = shape.doc
  <2>1. m > 0
    BY <1>4
  <2>2. Stream[data + j].r = Begun
    BY <1>6, <1>7, <2>1
  <2>3. PICK p \in 1 .. Len(Stream) : p = data + j
    BY <1>5
  <2>4. Kinds(shape, Stream[p]) /\ shape \in Shapes /\ Stream[p].i \in 1 .. Size(shape)
    BY <2>2, <2>3, FlowTypes, UnitKinds
  <2>5. Stream[p].k \in {"elem", "root"} /\ Stream[p] = seg[j]
    BY <1>3, <1>5, <2>3
  <2>6. Stream[p].i > Headers(shape) /\ Stream[p].v = Stream[p].i - Headers(shape)
    BY <2>4, <2>5 DEF Kinds
  <2>7. Stream[p].k = "root" => Stream[p].i = Headers(shape) + shape.doc
    BY <2>4 DEF Kinds
  <2>8. Headers(shape) \in Nat /\ shape.doc \in Nat
    BY <2>4, HeadersFit
  <2>9. Stream[p].k = "root" => Stream[p].v = shape.doc
    BY <2>6, <2>7, <2>8
  <2>. QED BY <2>2, <2>3, <2>5, <2>6, <2>7, <2>9
<1>9. m > 0 /\ seg[m].k = "root" => /\ Stream[data + m].i = Headers(shape) + shape.doc
                                    /\ Len(parsed) + m = shape.doc
  <2>1. m > 0 => m \in 1 .. m
    BY <1>4
  <2>. QED BY <1>3, <1>8, <2>1
<1>. QED BY <1>4, <1>5, <1>6, <1>8, <1>9 DEF seg, m

\* The document of the response that was begun ends: it is returned.
LEMMA ParseReturns ==
  ASSUME BufInv, SizeInv, FlowInv, DataInv, UNCHANGED <<issued, answered>>,
         NEW seg, NEW m \in Nat, m > 0, \A j \in 1 .. m : seg[j].r = Begun,
         Len(parsed) + m = answered[Begun].doc,
         log' = Append(log, Response(parsed \o [i \in 1 .. m |-> seg[i].r]))
  PROVE  LogInv' /\ LastLog' = Begun
<1> DEFINE n == Begun
           shape == answered[n]
           more == [i \in 1 .. m |-> seg[i].r]
           docs == parsed \o more
           entry == Response(docs)
<1>1. /\ n \in 1 .. Len(answered) /\ http.ctx = issued[n] /\ ~Bodiless(shape)
      /\ \A j \in 1 .. Len(parsed) : parsed[j] = n
      /\ parsed \in Seq(Nat) /\ Len(parsed) \in Nat /\ n \in Nat
  BY LenProperties, FlowTypes DEF FlowInv, DataInv, InBody
<1>2. shape \in Shapes /\ shape.doc \in Nat
  BY <1>1, FlowTypes, InShapes, HeadersFit
<1>3. more \in Seq(Nat) /\ Len(more) = m /\ \A i \in 1 .. m : more[i] = n
  <2>1. more \in [1 .. m -> Nat]
    BY <1>1
  <2>2. more \in Seq(Nat)
    BY <2>1, SeqDef
  <2>. QED BY <2>1, <2>2, LenProperties
<1> HIDE DEF more
<1>4. /\ docs \in Seq(Nat) /\ Len(docs) = shape.doc
      /\ \A j \in 1 .. shape.doc : docs[j] = n
  <2>1. /\ docs \in Seq(Nat) /\ Len(docs) = Len(parsed) + m
        /\ \A j \in 1 .. Len(parsed) + m :
              docs[j] = IF j <= Len(parsed) THEN parsed[j] ELSE more[j - Len(parsed)]
    BY <1>1, <1>3, ConcatProperties
  <2>2. ASSUME NEW j \in 1 .. Len(parsed) + m PROVE docs[j] = n
    <3>1. CASE j <= Len(parsed)
      <4>1. j \in 1 .. Len(parsed)
        BY <1>1, <3>1
      <4>. QED BY <1>1, <2>1, <3>1, <4>1
    <3>2. CASE ~(j <= Len(parsed))
      <4>1. j - Len(parsed) \in 1 .. m
        BY <1>1, <3>2
      <4>. QED BY <1>3, <2>1, <3>2, <4>1
    <3>. QED BY <3>1, <3>2
  <2>. QED BY <2>1, <2>2
<1> HIDE DEF docs
<1>5. docs = [j \in 1 .. shape.doc |-> n]
  <2> DEFINE all == [j \in 1 .. shape.doc |-> n]
  <2>1. all \in [1 .. shape.doc -> Nat]
    BY <1>1
  <2>2. all \in Seq(Nat) /\ Len(all) = shape.doc
    <3>1. all \in Seq(Nat)
      BY <1>2, <2>1, SeqDef
    <3>. QED BY <1>2, <2>1, <3>1, LenProperties
  <2>3. \A j \in 1 .. shape.doc : all[j] = n
    OBVIOUS
  <2> HIDE DEF all
  <2>4. docs = all
    BY <1>4, <2>2, <2>3, SeqEqual
  <2>. QED BY <2>4 DEF all
<1>6. shape.doc >= 1 /\ Entries(shape) = shape.doc
  BY <1>1, <1>2 DEF Entries
<1>7. issued[n] \in 0 .. MaxRequests
  <2>1. issued \in Seq(0 .. MaxRequests) /\ n \in 1 .. Len(issued)
    BY <1>1, FlowTypes DEF SizeInv
  <2>. QED BY <2>1, ElementOfSeq
<1>8. entry \in [ctx : 0 .. MaxRequests, docs : Seq(Nat)] /\ Answers(entry, n)
  <2>1. entry.ctx = issued[n] /\ entry.docs = docs
    BY <1>1 DEF Response
  <2>2. entry \in [ctx : 0 .. MaxRequests, docs : Seq(Nat)]
    BY <1>1, <1>4, <1>7 DEF Response
  <2>. QED BY <1>5, <1>6, <2>1, <2>2 DEF Answers
<1>9. LastLog = n - 1 \/ (LastLog = n /\ Closing(shape))
  <2>1. CASE ~http.close
    BY <2>1 DEF DataInv, InBody
  <2>2. CASE http.close
    <3>1. shape.doc > 0
      BY <1>2, <1>6
    <3>. QED BY <2>2, <3>1 DEF DataInv, InBody
  <2>. QED BY <2>1, <2>2
<1>10. log' = Append(log, entry)
  BY DEF docs, more
<1> HIDE DEF entry
<1>. QED BY <1>1, <1>8, <1>9, <1>10, LogGrows

\* The parser takes more tokens of the same response.
LEMMA ParseTakes ==
  ASSUME FlowInv, NEW n \in Nat, NEW m \in Nat, NEW more \in [1 .. m -> {n}],
         \A j \in 1 .. Len(parsed) : parsed[j] = n, parsed' = parsed \o more
  PROVE  parsed' \in Seq(Nat) /\ \A j \in 1 .. Len(parsed') : parsed'[j] = n
<1>1. parsed \in Seq(Nat) /\ Len(parsed) \in Nat
  BY LenProperties DEF FlowInv
<1>2. more \in Seq(Nat) /\ Len(more) = m /\ \A i \in 1 .. m : more[i] = n
  <2>1. more \in [1 .. m -> Nat]
    OBVIOUS
  <2>2. more \in Seq(Nat)
    BY <2>1, SeqDef
  <2>. QED BY <2>1, <2>2, LenProperties
<1>3. /\ parsed \o more \in Seq(Nat) /\ Len(parsed \o more) = Len(parsed) + m
      /\ \A j \in 1 .. Len(parsed) + m :
            (parsed \o more)[j] = IF j <= Len(parsed) THEN parsed[j] ELSE more[j - Len(parsed)]
  BY <1>1, <1>2, ConcatProperties
<1>4. ASSUME NEW j \in 1 .. Len(parsed) + m PROVE (parsed \o more)[j] = n
  <2>1. CASE j <= Len(parsed)
    <3>1. j \in 1 .. Len(parsed)
      BY <1>1, <2>1
    <3>. QED BY <1>3, <2>1, <3>1
  <2>2. CASE ~(j <= Len(parsed))
    <3>1. j - Len(parsed) \in 1 .. m
      BY <1>1, <2>2
    <3>. QED BY <1>2, <1>3, <2>2, <3>1
  <2>. QED BY <2>1, <2>2
<1>. QED BY <1>3, <1>4

\* The rest of a document whose length is known is in the stream up to its end.
LEMMA DocPlace ==
  ASSUME BufInv, SizeInv, FlowInv, DataInv, ~http.close, NEW x \in data + 1 .. http.end
  PROVE  /\ x \in 1 .. Len(Stream) /\ Stream[x].r = Begun
         /\ Stream[x].i \in Nat
         /\ Stream[x].i + (http.end - x) = Headers(answered[Begun]) + answered[Begun].doc
         /\ x = http.end => Stream[x].i = Headers(answered[Begun]) + answered[Begun].doc
         /\ x < http.end => Stream[x].i # Headers(answered[Begun]) + answered[Begun].doc
<1> DEFINE n == Begun
           shape == answered[n]
<1>1. /\ n \in 1 .. Len(answered) /\ data < Len(Stream) /\ Stream[data + 1].r = n
      /\ Stream[data + 1].i + (http.end - data) = Headers(shape) + shape.doc + 1
  BY DEF DataInv, InBody
<1>2. /\ data \in Nat /\ http.end \in Nat /\ Len(Stream) \in Nat /\ data + 1 \in 1 .. Len(Stream)
  BY <1>1, FlowTypes
<1>3. shape \in Shapes
  BY <1>1, FlowTypes, InShapes
<1>4. PICK h \in Nat, d \in Nat, s \in Nat :
         h = Headers(shape) /\ d = shape.doc /\ s = Size(shape) /\ h + d <= s
  BY <1>3, HeadersFit, SizeType
<1>5. PICK p \in 1 .. Len(Stream), k \in Nat : p = data + 1 /\ x = p + k
  <2>1. x - (data + 1) \in Nat /\ x = (data + 1) + (x - (data + 1))
    BY <1>2
  <2>. QED BY <1>2, <2>1
<1>6. PICK i \in Nat : i = Stream[p].i
  <2>1. Stream[p].i \in 1 .. Size(answered[Stream[p].r])
    BY FlowTypes, UnitKinds
  <2>2. Stream[p].r = n
    BY <1>1, <1>5
  <2>3. Stream[p].i \in 1 .. s
    BY <1>4, <2>1, <2>2
  <2>. QED BY <1>4, <2>3
<1>7. i + (http.end - data) = h + d + 1 /\ Stream[p].r = n
  BY <1>1, <1>4, <1>5, <1>6
<1>8. /\ i + k <= s /\ (i + k) + (http.end - x) = h + d /\ i + k \in Nat
      /\ x = http.end => i + k = h + d
      /\ x < http.end => i + k # h + d
  <2>1. PICK e \in Nat, f \in Nat, y \in Nat : e = http.end /\ f = data /\ y = x
    BY <1>2
  <2>2. i + (e - f) = h + d + 1 /\ y = (f + 1) + k /\ y <= e
    BY <1>5, <1>7, <2>1
  <2>3. /\ i + k <= s /\ (i + k) + (e - y) = h + d /\ i + k \in Nat
        /\ y = e => i + k = h + d
        /\ y < e => i + k # h + d
    <3>1. h + d <= s
      BY <1>4
    <3>2. (i + k) + (e - y) = h + d /\ i + k \in Nat /\ e - y \in Nat
      BY <2>2
    <3>3. i + k <= h + d
      BY <3>2
    <3>4. y < e => e - y > 0
      BY <2>2
    <3>. QED BY <3>1, <3>2, <3>3, <3>4
  <2>. QED BY <2>1, <2>3
<1>9. Stream[p].i + k <= Size(answered[Stream[p].r])
  BY <1>4, <1>6, <1>7, <1>8
<1>10. p + k <= Len(Stream) /\ Stream[p + k].r = Stream[p].r /\ Stream[p + k].i = Stream[p].i + k
  BY <1>9, NextUnits, FlowTypes
<1>11. x \in 1 .. Len(Stream)
  BY <1>2, <1>5, <1>10
<1>12. Stream[x].r = n /\ Stream[x].i = i + k
  BY <1>5, <1>6, <1>7, <1>10
<1>. QED BY <1>4, <1>8, <1>11, <1>12

\* The loop of se_receive behind http_data.
LEMMA FlowParse ==
  ASSUME BufInv, SizeInv, FlowInv, http.state = "DATA", UNCHANGED <<issued, answered>>,
         NEW c, NEW h, h = http \/ h = [http EXCEPT !.state = "COMPLETE"],
         NEW b \in Seq(Unit), inp' \in Seq(Unit), out' \in Seq(Unit),
         (b \o inp') \o out' = Stream, Len(buf) <= Len(b), NEW length \in data .. Len(b),
         \/ http.close
         \/ length = http.end /\ h.state = "COMPLETE" /\ b = buf
         \/ http.end > Len(b) /\ h = http,
         Parse(c, h, b, length)
  PROVE  FlowInv'
<1> DEFINE n == Begun
           shape == answered[n]
           H == Headers(shape)
           seg == SubSeq(b, data + 1, length)
           m == Taken(seg)
<1>1. DataInv /\ HttpOK(http)
  BY DEF FlowInv, PlaceInv, BufInv
<1>2. /\ Len(b) \in Nat /\ Len(b) <= Len(Stream) /\ \A p \in 1 .. Len(b) : Stream[p] = b[p]
      /\ Len(Stream) \in Nat /\ data \in 0 .. Len(b) /\ length \in Nat /\ http.end \in Nat
      /\ length \in 0 .. Len(b)
  <2>1. /\ Len(b) \in Nat /\ Len(b) <= Len(Stream) /\ \A p \in 1 .. Len(b) : Stream[p] = b[p]
    BY StreamDrops
  <2>2. Len(Stream) \in Nat /\ data \in 0 .. Len(buf) /\ http.end \in Nat /\ Len(buf) \in Nat
    BY FlowTypes
  <2>3. data \in 0 .. Len(b) /\ length \in Nat /\ length \in 0 .. Len(b)
    BY <2>1, <2>2
  <2>. QED BY <2>1, <2>2, <2>3
<1>3. /\ n \in 1 .. Len(answered) /\ http.ctx = issued[n] /\ n \in Nat
      /\ \A j \in 1 .. Len(parsed) : parsed[j] = n
      /\ shape \in Shapes /\ H \in Nat /\ shape.doc \in Nat
  <2>1. /\ n \in 1 .. Len(answered) /\ http.ctx = issued[n]
        /\ \A j \in 1 .. Len(parsed) : parsed[j] = n
    BY <1>1 DEF DataInv, InBody
  <2>. QED BY <2>1, FlowTypes, InShapes, HeadersFit, SMTT(30)
<1>4. /\ m \in Nat /\ data + m <= length
      /\ \A j \in 1 .. m : /\ seg[j] = Stream[data + j] /\ Stream[data + j].r = n
                           /\ Stream[data + j].i > H
                           /\ Stream[data + j].i = Stream[data + 1].i + (j - 1)
      /\ (m > 0 /\ seg[m].k = "root") =>
            Stream[data + m].i = H + shape.doc /\ Len(parsed) + m = shape.doc
  BY <1>1, <1>2, TakenOwn
<1>5. (\A j \in 1 .. m : seg[j].r = n) /\ m \in Nat /\ data + m <= length
  BY <1>4
<1>6. /\ h.end = http.end /\ h.close = http.close /\ h.ctx = http.ctx
      /\ h.state \in {"DATA", "COMPLETE"} /\ HttpOK(h)
  <2>1. [http EXCEPT !.state = "COMPLETE"].state = "COMPLETE"
        /\ [http EXCEPT !.state = "COMPLETE"].end = http.end
        /\ [http EXCEPT !.state = "COMPLETE"].close = http.close
        /\ [http EXCEPT !.state = "COMPLETE"].ctx = http.ctx
    BY <1>1, HttpKeeps
  <2>2. HttpOK([http EXCEPT !.state = "COMPLETE"])
    <3>1. "COMPLETE" \in State
      BY DEF State
    <3>. QED BY <1>1, <3>1, HttpFields
  <2>. QED BY <1>1, <2>1, <2>2
<1>7. \/ /\ m > 0 /\ seg[m].k = "root"
         /\ log' = Append(log, Response(parsed \o [i \in 1 .. m |-> seg[i].r]))
         /\ parsed' = <<>> /\ http' = h /\ buf' = b /\ UNCHANGED <<data, request>>
      \/ /\ ~HttpComplete(h, Len(b))
         /\ parsed' = parsed \o [i \in 1 .. m |-> seg[i].r]
         /\ buf' = SubSeq(b, data + m + 1, Len(b)) /\ data' = 0
         /\ http' = [h EXCEPT !.end = @ - (data + m)] /\ UNCHANGED <<log, request>>
      \/ HttpClose(c) /\ buf' = b /\ UNCHANGED <<data, log, parsed>>
  <2>1. PICK g \in {seg} : \E k \in {Taken(g)} :
           \/ /\ k > 0 /\ g[k].k = "root"
              /\ log' = Append(log, Response(parsed \o [i \in 1 .. k |-> g[i].r]))
              /\ parsed' = <<>> /\ http' = h /\ buf' = b /\ UNCHANGED <<data, request>>
           \/ /\ ~HttpComplete(h, Len(b))
              /\ parsed' = parsed \o [i \in 1 .. k |-> g[i].r]
              /\ buf' = SubSeq(b, data + k + 1, Len(b)) /\ data' = 0
              /\ http' = [h EXCEPT !.end = @ - (data + k)] /\ UNCHANGED <<log, request>>
           \/ HttpClose(c) /\ buf' = b /\ UNCHANGED <<data, log, parsed>>
    BY ZenonT(30) DEF Parse
  <2>2. g = seg
    OBVIOUS
  <2> HIDE DEF seg
  <2>. QED BY <2>1, <2>2, ZenonT(30)
<1> HIDE DEF m, seg
<1>8. CASE /\ m > 0 /\ seg[m].k = "root"
           /\ log' = Append(log, Response(parsed \o [i \in 1 .. m |-> seg[i].r]))
           /\ parsed' = <<>> /\ http' = h /\ buf' = b /\ UNCHANGED <<data, request>>
  <2>1. LogInv' /\ LastLog' = n
    BY <1>1, <1>4, <1>5, <1>8, ParseReturns
  <2>2. Stream' = Stream /\ Begun' = n /\ RequestInv' /\ StreamOK(Stream, answered)'
    <3>1. Stream' = Stream
      BY <1>8 DEF Stream
    <3>2. RequestInv' /\ Begun' = n
      BY <1>8 DEF FlowInv, RequestInv, Begun
    <3>. QED BY <3>1, <3>2, FlowTypes
  <2>3. parsed' \in Seq(Nat) /\ \A j \in 1 .. Len(parsed') : parsed'[j] = n
    <3>1. Len(parsed') = 0 /\ 1 .. 0 = {}
      BY <1>8
    <3>. QED BY <1>8, <3>1
  <2>4. ASSUME ~http.close PROVE h.state = "COMPLETE" /\ length = http.end /\ b = buf
    <3>1. SUFFICES ASSUME http.end > Len(b), h = http PROVE FALSE
      BY <2>4
    <3>2. PICK x \in data + 1 .. http.end : x = data + m
      BY <1>2, <1>4, <1>8, <3>1, SMTT(30)
    <3>3. x < http.end => Stream[x].i # H + shape.doc
      BY <1>1, <2>4, DocPlace
    <3>4. Stream[x].i = H + shape.doc
      BY <1>4, <1>8, <3>2
    <3>5. x <= Len(b)
      BY <1>2, <1>4, <3>2
    <3>6. x < http.end
      BY <1>2, <3>1, <3>5
    <3>. QED BY <3>3, <3>4, <3>6
  <2>5. ASSUME h.state = "COMPLETE" PROVE CompleteInv'
    <3>1. CASE http.close
      BY <1>6, <1>8, <3>1 DEF CompleteInv
    <3>2. CASE ~http.close
      <4>1. length = http.end /\ b = buf /\ Rest' = http.end
        BY <1>2, <1>6, <1>8, <2>4, <3>2 DEF Rest
      <4>2. PICK x \in data + 1 .. http.end : x = http.end
        <5>1. m > 0
          BY <1>8
        <5>. QED BY <1>2, <1>5, <4>1, <5>1
      <4>3. /\ x \in 1 .. Len(Stream) /\ Stream[x].r = n /\ Stream[x].i \in Nat
            /\ Stream[x].i = H + shape.doc
        BY <1>1, <3>2, <4>2, DocPlace
      <4>4. Stream[x].i >= Headers(answered[Stream[x].r])
        BY <1>3, <4>3
      <4>5. At(Stream, answered, Stream[x].r, x)
        BY <4>3, <4>4, Behind, FlowTypes
      <4>. QED BY <2>1, <2>2, <4>1, <4>2, <4>3, <4>5 DEF CompleteInv
    <3>. QED BY <3>1, <3>2
  <2>6. ASSUME h.state = "DATA" PROVE DataInv'
    <3>1. http.close
      BY <2>4, <2>6
    <3>2. http' = h /\ answered' = answered /\ issued' = issued /\ data' = data
      BY <1>8
    <3>. QED BY <1>1, <1>3, <1>6, <2>1, <2>2, <2>3, <3>1, <3>2 DEF DataInv, InBody
  <2>7. PlaceInv'
    BY <1>6, <1>8, <2>5, <2>6 DEF PlaceInv
  <2>. QED BY <2>1, <2>2, <2>3, <2>7 DEF FlowInv
<1>9. CASE /\ ~HttpComplete(h, Len(b))
           /\ parsed' = parsed \o [i \in 1 .. m |-> seg[i].r]
           /\ buf' = SubSeq(b, data + m + 1, Len(b)) /\ data' = 0
           /\ http' = [h EXCEPT !.end = @ - (data + m)] /\ UNCHANGED <<log, request>>
  <2>1. parsed' \in Seq(Nat) /\ \A j \in 1 .. Len(parsed') : parsed'[j] = n
    <3> DEFINE more == [i \in 1 .. m |-> seg[i].r]
    <3>1. more \in [1 .. m -> {n}]
      BY <1>5
    <3> HIDE DEF more
    <3>2. parsed' = parsed \o more
      BY <1>9 DEF more
    <3>. QED BY <1>3, <1>5, <3>1, <3>2, ParseTakes
  <2>2. h.end > Len(b) /\ http.end > Len(b)
    BY <1>2, <1>6, <1>9 DEF HttpComplete
  <2>3. PICK d \in 0 .. Len(b) : d = data + m
    BY <1>2, <1>4
  <2>4. /\ http'.state = h.state /\ http'.end = http.end - d /\ http'.close = http.close
        /\ http'.ctx = http.ctx
    <3>1. http' = [h EXCEPT !.end = h.end - d]
      BY <1>9, <2>3
    <3>. QED BY <1>6, <3>1, HttpKeeps
  <2>5. /\ Len(Stream') = Len(Stream) - d
        /\ \A p \in 1 .. Len(Stream) - d : Stream'[p] = Stream[d + p]
        /\ StreamOK(Stream', answered)
        /\ \A k \in Nat, p \in 0 .. Len(Stream) - d :
              At(Stream, answered, k, d + p) => At(Stream', answered, k, p)
    <3>1. buf' = SubSeq(b, d + 1, Len(b))
      BY <1>9, <2>3
    <3>. QED BY <3>1, StreamDrops
  <2>6. LogInv' /\ LastLog' = LastLog /\ RequestInv' /\ Begun' = n
    <3>1. LogInv'
      BY <1>9 DEF FlowInv, LogInv, Answers, OnceInOrder
    <3>2. RequestInv'
      BY <1>9 DEF FlowInv, RequestInv, Begun
    <3>. QED BY <1>9, <3>1, <3>2 DEF LastLog, Begun
  <2>7. ASSUME http.close PROVE At(Stream', answered, n, 0)
    <3>1. At(Stream, answered, n, d)
      <4>1. CASE m = 0
        BY <1>1, <1>2, <2>3, <2>7, <4>1 DEF DataInv, InBody
      <4>2. CASE m # 0
        <5>1. m \in 1 .. m
          BY <1>4, <4>2
        <5>2. d \in 1 .. Len(Stream) /\ Stream[d].r = n /\ Stream[d].i > H
          BY <1>2, <1>4, <2>3, <5>1, SMTT(30)
        <5>3. Stream[d].i >= Headers(answered[Stream[d].r])
          <6>1. Stream[d].i \in 1 .. Size(answered[Stream[d].r])
            BY <5>2, FlowTypes, UnitKinds
          <6>. QED BY <1>3, <5>2, <6>1
        <5>4. At(Stream, answered, Stream[d].r, d)
          BY <5>2, <5>3, Behind, FlowTypes
        <5>. QED BY <5>2, <5>4
      <4>. QED BY <4>1, <4>2
    <3>2. 0 \in 0 .. Len(Stream) - d /\ d + 0 = d
      BY <1>2
    <3>. QED BY <1>3, <2>5, <3>1, <3>2
  <2>8. ASSUME ~http.close
        PROVE  /\ 0 < Len(Stream') /\ Stream'[0 + 1].r = n /\ http'.end > 0
               /\ Stream'[0 + 1].i + (http'.end - 0) = H + shape.doc + 1
               /\ h.state = "DATA" /\ LastLog = n - 1
    <3>1. h = http
      BY <1>2, <2>2, <2>8
    <3>2. PICK x \in data + 1 .. http.end : x = d + 1
      BY <1>2, <1>4, <2>2, <2>3, SMTT(30)
    <3>3. /\ x \in 1 .. Len(Stream) /\ Stream[x].r = n /\ Stream[x].i \in Nat
          /\ Stream[x].i + (http.end - x) = H + shape.doc
      BY <1>1, <2>8, DocPlace
    <3>4. 1 \in 1 .. Len(Stream) - d /\ 0 < Len(Stream')
      BY <1>2, <2>5, <3>2, <3>3, SMTT(30)
    <3>5. Stream'[1] = Stream[x]
      BY <2>5, <3>2, <3>4
    <3>6. http.end - d > 0 /\ (http.end - d) - 0 = (http.end - x) + 1
      BY <1>2, <2>2, <3>2, SMTT(30)
    <3>7. PICK i \in Nat, e \in Nat, k \in Nat, z \in Nat :
             i = Stream[x].i /\ e = http.end - x /\ k = H /\ z = shape.doc
      <4>1. http.end - x \in Nat
        BY <1>2
      <4>. QED BY <1>3, <3>3, <4>1
    <3>8. i + (e + 1) = k + z + 1
      <4>1. i + e = k + z
        BY <3>3, <3>7
      <4>. QED BY <4>1
    <3>10. Stream'[0 + 1].i + (http'.end - 0) = H + shape.doc + 1
      <4>1. (http'.end - 0) = e + 1
        BY <2>4, <3>6, <3>7
      <4>. QED BY <3>5, <3>7, <3>8, <4>1, SMTT(30)
    <3>9. LastLog = n - 1
      BY <1>1, <2>8 DEF DataInv, InBody
    <3>. QED BY <2>4, <3>1, <3>3, <3>4, <3>5, <3>6, <3>9, <3>10, SMTT(30)
  <2>9. ASSUME h.state = "DATA" PROVE DataInv'
    <3>1. data' = 0 /\ answered' = answered /\ issued' = issued
      BY <1>9
    <3>2. CASE http.close
      BY <1>1, <1>3, <2>1, <2>4, <2>6, <2>7, <3>1, <3>2 DEF DataInv, InBody
    <3>3. CASE ~http.close
      BY <1>1, <1>3, <2>1, <2>4, <2>6, <2>8, <3>1, <3>3 DEF DataInv, InBody
    <3>. QED BY <3>2, <3>3
  <2>10. h.state = "COMPLETE" => CompleteInv'
    BY <2>4, <2>8 DEF CompleteInv
  <2>11. PlaceInv'
    BY <1>6, <2>4, <2>9, <2>10 DEF PlaceInv
  <2>12. StreamOK(Stream, answered)'
    BY <2>5
  <2>. QED BY <2>1, <2>6, <2>11, <2>12 DEF FlowInv
<1>10. CASE HttpClose(c) /\ buf' = b /\ UNCHANGED <<data, log, parsed>>
  <2>1. Stream' = Stream
    BY <1>10 DEF Stream
  <2>2. http'.state = "CLOSED"
    BY <1>1, <1>10, HttpKeeps DEF HttpClose
  <2>. QED BY <1>10, <2>1, <2>2, FlowCloses DEF HttpClose
<1>. QED BY <1>7, <1>8, <1>9, <1>10

-----------------------------------------------------------------------------
(* Every step keeps the place of the client in the stream. *)

\* se_receive_body: http_data reads, and the loop of se_receive parses.
LEMMA FlowBody ==
  ASSUME BufInv, SizeInv, FlowInv, Body
  PROVE  FlowInv'
<1>1. /\ buf \in Seq(Unit) /\ inp \in Seq(Unit) /\ out \in Seq(Unit)
      /\ Len(buf) \in Nat /\ data \in 0 .. Len(buf) /\ http.end \in Nat /\ HttpOK(http)
  BY LenProperties DEF BufInv, SizeInv, HttpOK
<1>2. CASE BodyNone
  BY <1>2, FlowStays DEF BodyNone, Stream, server
<1>3. CASE BodyRead
  <2>1. /\ UNCHANGED <<request, data, http, parsed, issued, log, answered, out>>
        /\ ReadCount > 0 /\ http.state = "DATA"
        /\ buf' = buf \o SubSeq(inp, 1, ReadCount) /\ inp' = SubSeq(inp, ReadCount + 1, Len(inp))
    BY <1>3 DEF BodyRead, Take
  <2>2. Stream' = Stream
    BY <2>1, TakeStream
  <2>. QED BY <2>1, <2>2, FlowStays
<1>4. CASE BodyToClose
  <2> DEFINE b == IF ReadCount > 0 THEN buf \o SubSeq(inp, 1, ReadCount) ELSE buf
             length == Len(buf) + (IF ReadCount > 0 THEN ReadCount ELSE 0)
             h == IF conn.status = "Closed" THEN [http EXCEPT !.state = "COMPLETE"] ELSE http
             c == AfterRead(ReadCount)
  <2>1. Parse(c, h, b, length) /\ http.state = "DATA" /\ http.close
        /\ UNCHANGED <<issued, answered, out>>
    BY <1>4, Zenon DEF BodyToClose
  <2>2. /\ b \in Seq(Unit) /\ length = Len(b) /\ Len(b) \in Nat /\ Len(buf) <= Len(b)
        /\ inp' \in Seq(Unit) /\ b \o inp' = buf \o inp
    <3>1. CASE ReadCount > 0
      <4>1. b = buf \o SubSeq(inp, 1, ReadCount) /\ inp' = SubSeq(inp, ReadCount + 1, Len(inp))
        BY <1>4, <3>1 DEF BodyToClose
      <4>2. ReadCount \in 0 .. Len(inp)
        BY <3>1, ReadType
      <4>3. (buf \o SubSeq(inp, 1, ReadCount)) \o SubSeq(inp, ReadCount + 1, Len(inp)) = buf \o inp
        BY <1>1, <4>2, Moved
      <4>4. b \o inp' = buf \o inp
        BY <4>1, <4>3, Zenon
      <4>5. length = Len(buf) + ReadCount
        BY <3>1
      <4> HIDE DEF b, length
      <4>6. b \in Seq(Unit) /\ Len(b) = Len(buf) + ReadCount /\ inp' \in Seq(Unit)
        BY <3>1, <4>1, ReadGrows
      <4>7. Len(b) \in Nat /\ Len(buf) <= Len(b)
        BY <1>1, <4>2, <4>6
      <4>. QED BY <4>4, <4>5, <4>6, <4>7
    <3>2. CASE ~(ReadCount > 0)
      <4>1. b = buf /\ inp' = inp /\ length = Len(buf)
        BY <1>1, <1>4, <3>2 DEF BodyToClose
      <4> HIDE DEF b, length
      <4>. QED BY <1>1, <4>1
    <3>. QED BY <3>1, <3>2
  <2>3. h = http \/ h = [http EXCEPT !.state = "COMPLETE"]
    OBVIOUS
  <2> HIDE DEF b, length, h, c
  <2>4. (b \o inp') \o out' = Stream /\ out' \in Seq(Unit)
    BY <1>1, <2>1, <2>2 DEF Stream
  <2>5. length \in data .. Len(b)
    BY <1>1, <2>2
  <2>. QED BY <2>1, <2>2, <2>3, <2>4, <2>5, FlowParse
<1>5. CASE BodyWhole
  <2> DEFINE h == [http EXCEPT !.state = "COMPLETE"]
  <2>1. /\ Parse(conn, h, buf, http.end) /\ http.end <= Len(buf) /\ http.state = "DATA"
        /\ ~http.close /\ UNCHANGED <<issued, answered, inp, out>>
    BY <1>5 DEF BodyWhole, server
  <2>2. h.state = "COMPLETE"
    BY <1>1, HttpKeeps
  <2>3. h = [http EXCEPT !.state = "COMPLETE"]
    OBVIOUS
  <2> HIDE DEF h
  <2>4. http.end > data
    BY <2>1 DEF FlowInv, PlaceInv, DataInv, InBody
  <2>5. http.end \in data .. Len(buf)
    BY <1>1, <2>1, <2>4
  <2>6. (buf \o inp') \o out' = Stream /\ inp' \in Seq(Unit) /\ out' \in Seq(Unit)
        /\ Len(buf) <= Len(buf)
    BY <1>1, <2>1 DEF Stream
  <2>. QED BY <1>1, <2>1, <2>2, <2>3, <2>5, <2>6, FlowParse
<1>6. CASE BodyPart
  <2> DEFINE c == IF Room = 0 THEN conn ELSE AfterRead(ReadCount)
  <2>1. /\ Parse(c, http, buf, Len(buf)) /\ http.end > Len(buf) /\ http.state = "DATA"
        /\ UNCHANGED <<issued, answered, inp, out>>
    BY <1>6 DEF BodyPart, server
  <2> HIDE DEF c
  <2>2. Len(buf) \in data .. Len(buf) /\ Len(buf) <= Len(buf)
    BY <1>1
  <2>3. (buf \o inp') \o out' = Stream /\ inp' \in Seq(Unit) /\ out' \in Seq(Unit)
    BY <1>1, <2>1 DEF Stream
  <2>. QED BY <1>1, <2>1, <2>2, <2>3, FlowParse
<1>. QED BY <1>2, <1>3, <1>4, <1>5, <1>6 DEF Body

\* next_line reads.
LEMMA FlowLine ==
  ASSUME BufInv, SizeInv, FlowInv, NextLine
  PROVE  FlowInv'
<1>1. /\ UNCHANGED <<request, data, http, parsed, issued, log, answered, out>>
      /\ http.state # "COMPLETE"
  BY DEF NextLine, Take
<1>2. CASE ReadCount > 0
  <2>1. buf' = buf \o SubSeq(inp, 1, ReadCount) /\ inp' = SubSeq(inp, ReadCount + 1, Len(inp))
    BY <1>2 DEF NextLine, Take
  <2>2. Stream' = Stream
    BY <1>1, <1>2, <2>1, TakeStream
  <2>. QED BY <1>1, <2>2, FlowStays
<1>3. CASE ~(ReadCount > 0)
  <2>1. UNCHANGED <<buf, inp>>
    BY <1>3 DEF NextLine, Take
  <2>2. Stream' = Stream
    BY <1>1, <2>1 DEF Stream
  <2>. QED BY <1>1, <2>2, FlowStays
<1>. QED BY <1>2, <1>3

LEMMA FlowInit == Init => FlowInv
<1> SUFFICES ASSUME Init PROVE FlowInv
  OBVIOUS
<1>1. /\ buf = <<>> /\ inp = <<>> /\ out = <<>> /\ answered = <<>> /\ issued = <<>>
      /\ request = <<>> /\ log = <<>> /\ parsed = <<>> /\ data = 0 /\ http.state = "START"
  BY DEF Init, NoResponse
<1>2. Stream = <<>> /\ Len(Stream) = 0
  BY <1>1 DEF Stream
<1>3. StreamOK(Stream, answered)
  <2>1. 1 .. 0 = {} /\ 1 .. 0 - 1 = {} /\ ~(0 > 0)
    OBVIOUS
  <2>. QED BY <1>2, <2>1 DEF StreamOK
<1>4. Begun = 0 /\ LastLog = 0
  BY <1>1 DEF Begun, LastLog
<1>5. RequestInv /\ parsed \in Seq(Nat)
  BY <1>1 DEF RequestInv
<1>6. LogInv
  BY <1>1 DEF LogInv, OnceInOrder
<1>7. PlaceInv
  <2>1. Len(answered) = 0
    BY <1>1
  <2>. QED BY <1>1, <1>2, <1>4, <2>1 DEF PlaceInv, StartInv, At
<1>. QED BY <1>3, <1>5, <1>6, <1>7 DEF FlowInv

LEMMA FlowStep ==
  ASSUME BufInv, SizeInv, FlowInv, [Next]_vars
  PROVE  FlowInv'
<1>1. CASE Connect \/ Poll \/ Refused
  <2>1. UNCHANGED <<request, buf, data, http, parsed, issued, log, answered, inp, out>>
    BY <1>1 DEF Connect, Poll, Refused, server
  <2>. QED BY <2>1, FlowStays DEF Stream
<1>2. CASE Flush
  <2>1. UNCHANGED <<request, buf, data, http, parsed, issued, log, answered, inp, out>>
    BY <1>2 DEF Flush, server
  <2>. QED BY <2>1, FlowStays DEF Stream
<1>3. CASE Accept \/ Drain \/ Hello \/ Close
  <2>1. UNCHANGED <<request, buf, data, http, parsed, issued, log, answered, inp, out>>
    BY <1>3 DEF Accept, Drain, Hello, Close, Elsewhere, server
  <2>. QED BY <2>1, FlowStays DEF Stream
<1>4. CASE UNCHANGED vars
  <2>1. UNCHANGED <<request, buf, data, http, parsed, issued, log, answered, inp, out>>
    BY <1>4 DEF vars, client, server
  <2>. QED BY <2>1, FlowStays DEF Stream
<1>5. CASE Send
  <2>1. UNCHANGED <<request, buf, data, http, parsed, issued, log, answered>>
    BY <1>5 DEF Send, Elsewhere
  <2>2. Stream' = Stream
    BY <1>5, SendStream
  <2>. QED BY <2>1, <2>2, FlowStays
<1>6. CASE Exit
  <2>1. /\ UNCHANGED <<buf, parsed, issued, log, answered, inp, out>> /\ request' = <<>>
        /\ http' = [http EXCEPT !.state = "CLOSED"]
    BY <1>6 DEF Exit, server
  <2>2. http'.state = "CLOSED"
    BY <2>1, HttpKeeps DEF BufInv
  <2>3. Stream' = Stream
    BY <2>1 DEF Stream
  <2>. QED BY <2>1, <2>2, <2>3, FlowCloses
<1>7. CASE Issue
  BY <1>7, FlowIssue
<1>8. CASE Answer
  BY <1>8, FlowAnswer
<1>9. CASE NextLine
  BY <1>9, FlowLine
<1>10. CASE StatusLine
  BY <1>10, FlowStatus
<1>11. CASE HeaderLine
  BY <1>11, FlowHeader
<1>12. CASE EndOfHeaders
  BY <1>12, FlowHeadersEnd
<1>13. CASE Complete
  BY <1>13, FlowComplete
<1>14. CASE Body
  BY <1>14, FlowBody
<1>. QED BY <1>1, <1>2, <1>3, <1>4, <1>5, <1>6, <1>7, <1>8, <1>9, <1>10, <1>11, <1>12, <1>13,
            <1>14 DEF Next, Body

-----------------------------------------------------------------------------
(* The theorems. *)

IInv == BufInv /\ ConnInv /\ SizeInv /\ OrderInv /\ FlowInv

LEMMA InitInv == Init => IInv
<1> SUFFICES ASSUME Init PROVE IInv
  OBVIOUS
<1>1. BufInv
  BY BufInit
<1>2. ConnInv
  BY DEF Init, ConnInv, Conn, Shut, Busy
<1>3. /\ issued = <<>> /\ wire = <<>> /\ send = <<>> /\ answered = <<>> /\ out = <<>>
      /\ MaxRequests \in Nat
  BY HttpAssumption DEF Init, HttpAssumption
<1>4. SizeInv
  BY <1>3 DEF SizeInv
<1>5. OrderInv
  BY <1>3 DEF OrderInv, Whole
<1>. QED BY <1>1, <1>2, <1>4, <1>5, FlowInit DEF IInv

THEOREM Invariance == Spec => []IInv
<1>1. IInv /\ [Next]_vars => IInv'
  BY BufStep, ConnStep, SizeStep, OrderStep, FlowStep DEF IInv
<1>. QED BY <1>1, InitInv, PTL DEF Spec

\* Type correctness (http.c): the buffer never holds more than it can, and the
\* place in it is in it, whatever the size of the buffer, what a server sends and
\* in which pieces it arrives.
THEOREM TypeCorrect == Spec => []TypeOK
<1>1. IInv => TypeOK
  <2> SUFFICES ASSUME IInv PROVE TypeOK
    OBVIOUS
  <2>1. /\ pc \in {"loop", "flush", "receive", "body", "exit"}
        /\ conn \in [secure : BOOLEAN, end : BOOLEAN, wait : BOOLEAN, queued : BOOLEAN,
                     ev : BOOLEAN, type : {"NONE", "TCP_CONNECT", "TCP_PORT", "TCP_CLOSED"},
                     status : {"Closed", "InProgress", "Connected"},
                     tls : {"NONE", "NEGOTIATE", "SESSION", "SHUTDOWN"}]
    BY DEF IInv, ConnInv, Busy, Conn
  <2>2. issued \in BoundedSeq(0 .. MaxRequests, MaxRequests)
    <3>1. issued \in Seq(0 .. MaxRequests) /\ Len(issued) \in 0 .. MaxRequests
      BY LenProperties, HttpAssumption DEF IInv, SizeInv, HttpAssumption
    <3>2. issued \in [1 .. Len(issued) -> 0 .. MaxRequests]
      BY <3>1, LenProperties
    <3>. QED BY <3>1, <3>2 DEF BoundedSeq, SeqOf
  <2>3. \A q \in {buf, inp, out} : \A i \in 1 .. Len(q) : q[i] \in Unit
    BY ElementOfSeq DEF IInv, BufInv, SizeInv
  <2>4. /\ Len(buf) < BufferSize /\ data \in 0 .. Len(buf)
        /\ http.state \in {"START", "HEADER", "DATA", "COMPLETE", "CLOSED"} /\ http.end \in Nat
    BY DEF IInv, BufInv, HttpOK, State
  <2>. QED BY <2>1, <2>2, <2>3, <2>4 DEF TypeOK
<1>. QED BY <1>1, Invariance, PTL

\* http_write, http_flush and http_close (http.c): the requests reach the server
\* in the order they were made and each of them once, however often the socket
\* refuses a write, and none is lost while the connection is not closed.
THEOREM InOrder == Spec => []WrittenInOrder
<1>1. IInv => WrittenInOrder
  <2> SUFFICES ASSUME IInv PROVE WrittenInOrder
    OBVIOUS
  <2>1. /\ wire \in Seq(Nat) /\ send \in Seq(Nat) /\ issued \in Seq(0 .. MaxRequests)
        /\ Len(wire) \in Nat /\ Len(send) \in Nat /\ Len(issued) \in Nat
    BY LenProperties DEF IInv, SizeInv
  <2>2. \A i \in 1 .. Len(wire) : wire[i] = i
    BY DEF IInv, OrderInv
  <2>3. ASSUME http.state # "CLOSED"
        PROVE  wire \o send = [i \in 1 .. Len(issued) |-> i]
    <3>1. Whole
      BY <2>3 DEF IInv, OrderInv
    <3> DEFINE n == Len(issued)
               all == wire \o send
    <3>2. /\ all \in Seq(Nat) /\ Len(all) = n
          /\ \A i \in 1 .. n : all[i] = IF i <= Len(wire) THEN wire[i] ELSE send[i - Len(wire)]
      BY <2>1, <3>1, ConcatProperties DEF Whole
    <3>3. ASSUME NEW i \in 1 .. n PROVE all[i] = i
      <4>1. CASE i <= Len(wire)
        <5>1. i \in 1 .. Len(wire)
          BY <2>1, <3>1, <4>1 DEF Whole
        <5>. QED BY <2>2, <3>2, <4>1, <5>1
      <4>2. CASE ~(i <= Len(wire))
        <5>1. PICK j \in 1 .. Len(send) : j = i - Len(wire)
          <6>1. /\ Len(wire) \in Nat /\ Len(send) \in Nat /\ i \in 1 .. Len(issued)
                /\ Len(wire) + Len(send) = Len(issued) /\ ~(i <= Len(wire))
            BY <2>1, <3>1, <4>2, Zenon DEF Whole
          <6>. QED BY <6>1
        <5>2. all[i] = send[j]
          BY <3>2, <4>2, <5>1
        <5>. QED BY <2>1, <3>1, <5>1, <5>2 DEF Whole
      <4>. QED BY <4>1, <4>2
    <3>4. all = [i \in 1 .. n |-> all[i]]
      BY <3>2, LenProperties
    <3> HIDE DEF all, n
    <3>5. all = [i \in 1 .. n |-> i]
      BY <3>3, <3>4
    <3>. QED BY <3>5 DEF all, n
  <2>. QED BY <2>2, <2>3 DEF WrittenInOrder
<1>. QED BY <1>1, Invariance, PTL

\* http_request, http_receive and se_receive (http.c, se_connection.c): each response
\* comes with the context that was queued with the request it answers, and the
\* document parsed for it is made of its own tokens from the first to the last,
\* wherever the reads cut it and whatever the buffer holds behind it.
THEOREM ResponsesMatched == Spec => []Matched
<1>1. IInv => Matched
  <2> SUFFICES ASSUME IInv PROVE Matched
    OBVIOUS
  <2>1. \A i \in 1 .. Len(log) : \E r \in 1 .. Len(answered) : Answers(log[i], r)
    BY DEF IInv, FlowInv, LogInv
  <2>. QED BY <2>1 DEF Matched, Answers, Entries
<1>. QED BY <1>1, Invariance, PTL

\* se_receive and http_receive: the responses are returned in the order of the requests
\* and none is left out; only one that ends the connection may be returned again.
THEOREM ResponsesInOrder == Spec => []OnceInOrder
<1>1. IInv => OnceInOrder
  BY DEF IInv, FlowInv, LogInv
<1>. QED BY <1>1, Invariance, PTL
=============================================================================
