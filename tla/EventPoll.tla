----------------------------- MODULE EventPoll ------------------------------
(***************************************************************************)
(* The event loop with several TCP connections: event_poll over epoll's    *)
(* edges (linux/event.c), the ports' connecting, reading, closing and      *)
(* timeouts (linux/tcp.c), and main's use of them (client_test.c).         *)
(*                                                                         *)
(* _active and _tcp_wait are linked through the one field `next' of a      *)
(* port, and a port in _tcp_wait keeps its predecessor of the day it was   *)
(* inserted in `prev', so the links are modelled and not sequences.  A     *)
(* timeout is the number of its set_timeout: CLOCK_MONOTONIC counts        *)
(* nanoseconds and the interval is always the same, so later is larger.    *)
(***************************************************************************)
EXTENDS Naturals, SequencesExt

CONSTANTS
    Ports,       \* the connections se_connect makes
    Slow,        \* those whose connection or response may be waited for
    Null,
    MaxEvents,   \* MAX_EVENTS
    FailAtOnce,  \* may connect() fail at once (no route, refused by this host)?
    MaxConnects, \* bound: connections made by a port
    MaxData,     \* bound: units of data the servers send
    MaxTimeouts  \* bound: calls of set_timeout

ASSUME PollAssumption ==
    /\ Slow \subseteq Ports /\ Null \notin Ports /\ FailAtOnce \in BOOLEAN
    /\ MaxEvents \in Nat \ {0} /\ MaxConnects \in Nat
    /\ MaxData \in Nat /\ MaxTimeouts \in Nat

VARIABLES
    pc,     \* "new": main has an event; "app": main has read its port;
            \* "return": its handler is done; "poll": in event_poll; "timeout", "closed": main has ended;
            \* "loop": a list is followed for ever
    cur,    \* the port event_poll returned
    last,   \* its static `prev'
    batch,  \* events[i .. n - 1]; the port is Null for the timer
    port,   \* the ports
    active, wait,  \* _active and _tcp_wait
    timer,  \* when _tcp_timer expires (0: never); has it expired?
    made, sock, inp, sent, eof, edge,  \* kernel: the sockets
    timeouts, passed                   \* timeouts set, and of these gone by

client == <<pc, cur, last, batch, port, active, wait>>
socket == <<made, sock, inp, sent, eof>>
vars   == <<client, timer, socket, edge, timeouts, passed>>

Empty == [first |-> Null, last |-> Null]

Init ==
    /\ pc = "new" /\ cur = Null /\ last = Null /\ batch = <<>>
    /\ port = [p \in Ports |-> [next |-> Null, prev |-> Null, type |-> "NONE",
                                status |-> "Closed", end |-> FALSE,
                                wait |-> FALSE, timeout |-> 0,
                                kept |-> FALSE]]  \* (history) left in _tcp_wait
    /\ active = Empty /\ wait = Empty
    /\ timer = [at |-> 0, fired |-> FALSE]
    /\ made = [p \in Ports |-> 0] /\ sock = [p \in Ports |-> "none"]
    /\ inp = [p \in Ports |-> 0] /\ sent = 0
    /\ eof = [p \in Ports |-> FALSE] /\ edge = [p \in Ports |-> FALSE]
    /\ timeouts = 0 /\ passed = 0

-----------------------------------------------------------------------------
(* Queues (queue.c); h is the ports with their links, q a queue. *)

QueueAdd(h, q, p) ==
    IF q.last # Null
    THEN [h |-> [h EXCEPT ![q.last].next = p], q |-> [q EXCEPT !.last = p]]
    ELSE [h |-> h, q |-> [first |-> p, last |-> p]]

QueueRemove(h, q) ==
    IF q.first = Null THEN q
    ELSE IF q.first = q.last THEN Empty
    ELSE [q EXCEPT !.first = h[q.first].next]

\* The first items of a queue, as far as the links lead, but at most one more
\* than there are ports.
Chain(h, q) ==
    LET N == Cardinality(Ports) + 1
        node[k \in 1 .. N] ==
            IF k = 1 THEN q.first
            ELSE IF node[k - 1] = Null THEN Null ELSE h[node[k - 1]].next
    IN  SelectSeq([k \in 1 .. N |-> node[k]], LAMBDA p : p # Null)

Members(h, q) == ToSet(Chain(h, q))

\* _insert_sorted compares p with itself as equal and with all others as later.
\* Where it stops: the items before p, or all when it goes on for ever.
Before(h, q, p) ==
    LET c == Chain(h, q)
    IN  IF p \in ToSet(c) THEN SubSeq(c, 1, SelectInSeq(c, LAMBDA x : x = p) - 1) ELSE c

Ends(h, q, p) == Len(Before(h, q, p)) <= Cardinality(Ports)

\* _queue_insert, with prev in the item.
QueueInsert(h, q, p) ==
    LET b    == Before(h, q, p)
        at   == IF p \in Members(h, q) THEN p ELSE Null
        prev == IF b = <<>> THEN Null ELSE Last(b)
        h1   == [r \in Ports |->
                    IF r = p THEN [h[r] EXCEPT !.next = at, !.prev = prev]
                    ELSE IF r = prev THEN [h[r] EXCEPT !.next = p] ELSE h[r]]
        q1   == IF prev = Null THEN [q EXCEPT !.first = p] ELSE q
    IN  [h |-> h1,
         q |-> IF q1.last = Null THEN [q1 EXCEPT !.last = q1.first]
               ELSE IF h1[q1.last].next # Null THEN [q1 EXCEPT !.last = h1[@].next] ELSE q1]

-----------------------------------------------------------------------------
(* Timeouts.  timerfd_settime refuses a time that is past. *)

SetTimerCt(t, at) == IF at > passed THEN [at |-> at, fired |-> FALSE] ELSE t

SetTimerHead(t, h, q) ==
    IF q.first = Null THEN [at |-> 0, fired |-> FALSE]
    ELSE SetTimerCt(t, h[q.first].timeout)

\* set_timeout.
SetTimeout(h, q, t, p) ==
    LET n == QueueInsert([h EXCEPT ![p].timeout = timeouts + 1, ![p].wait = TRUE], q, p)
    IN  [h |-> n.h, q |-> n.q, t |-> SetTimerCt(t, n.h[n.q.first].timeout)]

\* Mutant: the head of the list is removed, whichever port it is.
ClearTimeoutHead(h, p) ==
    IF ~h[p].wait THEN [h |-> h, q |-> wait, t |-> timer]
    ELSE LET h1 == [h EXCEPT ![p].wait = FALSE]
             q1 == QueueRemove(h1, wait)
         IN  [h |-> h1, q |-> q1, t |-> SetTimerHead(timer, h1, q1)]
\* clear_timeout.  Where prev has left the list since, the port stays in it.
ClearTimeout(h, p) ==
    IF ~h[p].wait THEN [h |-> h, q |-> wait, t |-> timer]
    ELSE LET h1 == [h EXCEPT ![p].wait = FALSE]
             h2 == [h1 EXCEPT ![h[p].prev].next = h[p].next]
             q1 == QueueRemove(h1, wait)
         IN  IF h[p].prev # Null
             THEN [h |-> [h2 EXCEPT ![p].prev = Null, ![p].kept = @ \/ p \in Members(h2, wait)],
                   q |-> wait, t |-> timer]
             ELSE [h |-> h1, q |-> q1, t |-> SetTimerHead(timer, h1, q1)]

\* Mutant: the port stays connected.
NetCloseOpen(h, p) ==
    LET c == ClearTimeout([h EXCEPT ![p].type = "TCP_CLOSED", ![p].end = TRUE], p)
        a == QueueAdd(c.h, active, p)
    IN  [h |-> a.h, a |-> a.q, q |-> c.q, t |-> c.t]
\* net_close of a port that is connecting or connected.
NetClose(h, p) ==
    LET c == ClearTimeout([h EXCEPT ![p].status = "Closed", ![p].type = "TCP_CLOSED",
                                    ![p].end = TRUE], p)
        a == QueueAdd(c.h, active, p)
    IN  [h |-> a.h, a |-> a.q, q |-> c.q, t |-> c.t]

-----------------------------------------------------------------------------
(* What main does while it handles an event. *)

\* se_connect and net_connect: the connection is made at once, is in progress,
\* or fails.  A new socket is writable for epoll unless it is connecting.
Connect(p) ==
    /\ pc \in {"new", "app", "return"} /\ port[p].status = "Closed" /\ made[p] < MaxConnects
    /\ made' = [made EXCEPT ![p] = @ + 1]
    /\ inp' = [inp EXCEPT ![p] = 0] /\ eof' = [eof EXCEPT ![p] = FALSE]
    /\ LET h == [port EXCEPT ![p].type = "TCP_CONNECT"]
       IN  \/ /\ sock' = [sock EXCEPT ![p] = "open"] /\ edge' = [edge EXCEPT ![p] = TRUE]
              /\ LET a == QueueAdd([h EXCEPT ![p].status = "Connected"], active, p)
                 IN  port' = a.h /\ active' = a.q
              /\ UNCHANGED <<wait, timer, timeouts, pc>>
           \/ /\ p \in Slow /\ timeouts < MaxTimeouts
              /\ sock' = [sock EXCEPT ![p] = "connecting"]
              /\ edge' = [edge EXCEPT ![p] = FALSE]
              /\ timeouts' = timeouts + 1
              /\ IF Ends(h, wait, p)
                 THEN LET s == SetTimeout([h EXCEPT ![p].status = "InProgress"], wait, timer, p)
                      IN  port' = s.h /\ wait' = s.q /\ timer' = s.t /\ UNCHANGED pc
                 ELSE pc' = "loop" /\ UNCHANGED <<port, wait, timer>>
              /\ UNCHANGED active
           \/ /\ FailAtOnce
              /\ sock' = [sock EXCEPT ![p] = "failed"] /\ edge' = [edge EXCEPT ![p] = TRUE]
              /\ port' = h /\ UNCHANGED <<active, wait, timer, timeouts, pc>>
    /\ UNCHANGED <<cur, last, batch, sent, passed>>

\* Mutant: a read that got data ends the input.
ReadEnd(n) == TRUE
\* net_read: is it the end of the input?
End(n) == n <= 0

\* net_read of the port that is handled: some data, or the end of the stream,
\* which closes the port, or nothing (-1 is shown as 0).
Read ==
    /\ pc \in {"new", "app"} /\ cur # Null /\ port[cur].status = "Connected" /\ pc' = "app"
    /\ \/ /\ \E n \in 1 .. inp[cur] :
                /\ inp' = [inp EXCEPT ![cur] = @ - n]
                /\ port' = [port EXCEPT ![cur].end = End(n)]
          /\ UNCHANGED <<active, wait, timer, sock>>
       \/ /\ inp[cur] = 0 /\ eof[cur]
          /\ LET c == NetClose(port, cur)
             IN  port' = c.h /\ active' = c.a /\ wait' = c.q /\ timer' = c.t
          /\ sock' = [sock EXCEPT ![cur] = "none"] /\ UNCHANGED inp
       \/ /\ inp[cur] = 0 /\ ~eof[cur]
          /\ port' = [port EXCEPT ![cur].end = End(0)]
          /\ UNCHANGED <<inp, active, wait, timer, sock>>
    /\ UNCHANGED <<cur, last, batch, made, sent, eof, edge, timeouts, passed>>

\* next_line in the middle of a response: a read fails, or closes the port, and
\* then the port waits for the rest.
Incomplete ==
    /\ pc \in {"new", "app"} /\ cur \in Slow /\ port[cur].status = "Connected" /\ inp[cur] = 0
    /\ timeouts < MaxTimeouts /\ timeouts' = timeouts + 1
    /\ LET h == [port EXCEPT ![cur].end = End(0)]
           c == IF eof[cur] THEN NetClose(h, cur)
                ELSE [h |-> h, a |-> active, q |-> wait, t |-> timer]
       IN  /\ active' = c.a
           /\ sock' = IF eof[cur] THEN [sock EXCEPT ![cur] = "none"] ELSE sock
           /\ IF Ends(c.h, c.q, cur)
              THEN LET s == SetTimeout(c.h, c.q, c.t, cur)
                   IN  port' = s.h /\ wait' = s.q /\ timer' = s.t /\ pc' = "return"
              ELSE port' = c.h /\ wait' = c.q /\ timer' = c.t /\ pc' = "loop"
    /\ UNCHANGED <<cur, last, batch, made, inp, sent, eof, edge, passed>>

\* http_close after an error, or when a response ends the connection.
Close ==
    /\ pc \in {"new", "app"} /\ cur # Null /\ port[cur].status = "Connected" /\ pc' = "app"
    /\ LET c == NetClose(port, cur)
       IN  port' = c.h /\ active' = c.a /\ wait' = c.q /\ timer' = c.t
    /\ sock' = [sock EXCEPT ![cur] = "none"]
    /\ UNCHANGED <<cur, last, batch, made, inp, sent, eof, edge, timeouts, passed>>

-----------------------------------------------------------------------------
(* event_poll. *)

\* A handler that has not read had a whole response in its buffer: its last read
\* did not fail.
Handled ==
    /\ pc \in {"new", "app", "return"}
    /\ pc = "new" /\ cur # Null => (port[cur].status = "Connected" => ~port[cur].end)

\* Mutant: the port is forgotten.
EnterOnly ==
    /\ Handled /\ pc' = "poll" /\ cur' = Null /\ last' = Null
    /\ UNCHANGED <<batch, port, active, wait, timer, socket, edge, timeouts, passed>>

\* The port returned last goes back to _active unless its input ended.
Enter ==
    /\ Handled /\ pc' = "poll" /\ cur' = Null /\ last' = Null
    /\ IF last # Null /\ ~port[last].end
       THEN LET a == QueueAdd(port, active, last) IN port' = a.h /\ active' = a.q
       ELSE UNCHANGED <<port, active>>
    /\ UNCHANGED <<batch, wait, timer, socket, edge, timeouts, passed>>

\* What main gets: a port to handle, or one that was closed, which ends it.
Returned(p, h) ==
    IF h[p].type = "TCP_CLOSED"
    THEN pc' = "closed" /\ cur' = p /\ port' = h /\ UNCHANGED last
    ELSE pc' = "new" /\ cur' = p /\ last' = p /\ port' = [h EXCEPT ![p].type = "TCP_PORT"]

\* _active is served when no event is left.
ServeActive ==
    /\ pc = "poll" /\ batch = <<>> /\ active.first # Null
    /\ active' = QueueRemove(port, active)
    /\ Returned(active.first, port)
    /\ UNCHANGED <<batch, wait, timer, socket, edge, timeouts, passed>>

Ready == {p \in Ports : edge[p] /\ sock[p] \in {"open", "refused", "failed"}}

\* epoll reports edges in any order; Null stands for the timer.
EpollWait ==
    /\ pc = "poll" /\ batch = <<>> /\ active.first = Null
    /\ LET ready == Ready \cup (IF timer.fired THEN {Null} ELSE {})
       IN  \E S \in SUBSET ready \ {{}} :
              /\ Cardinality(S) = MaxEvents \/ (S = ready /\ Cardinality(S) < MaxEvents)
              /\ batch' \in SetToSeqs(S)
              /\ edge' = [p \in Ports |-> edge[p] /\ p \notin S]
    /\ UNCHANGED <<pc, cur, last, port, active, wait, timer, socket, timeouts, passed>>

\* bsd_connected: no error is pending on the port's socket.
Connected(p) == sock[p] # "refused"

\* A port that was connecting: it is connected, or refused and closed.
ConnectEvent(p) ==
    IF Connected(p)
    THEN LET c == ClearTimeout(port, p)
         IN  /\ Returned(p, [c.h EXCEPT ![p].status = "Connected"])
             /\ wait' = c.q /\ timer' = c.t /\ UNCHANGED <<active, sock>>
    ELSE LET c == NetClose(port, p)
         IN  /\ port' = c.h /\ active' = c.a /\ wait' = c.q /\ timer' = c.t
             /\ sock' = [sock EXCEPT ![p] = "none"] /\ UNCHANGED <<pc, cur, last>>

\* A port that was connected.  epoll reports a hangup without input only for a
\* socket that never was.  A port may be closed since epoll reported it.
PortEvent(p) ==
    LET c == IF port[p].type = "TCP_PORT" THEN ClearTimeout(port, p)
             ELSE [h |-> port, q |-> wait, t |-> timer]
    IN  /\ IF port[p].type = "TCP_PORT" /\ sock[p] = "failed"
           THEN /\ pc' = "closed" /\ cur' = p /\ UNCHANGED last
                /\ port' = [c.h EXCEPT ![p].status = "Closed"]
           ELSE Returned(p, c.h)
        /\ wait' = c.q /\ timer' = c.t /\ UNCHANGED <<active, sock>>

\* tcp_expired: the port and the list it leaves; its wait is left set.
TcpExpired == [p |-> wait.first, q |-> QueueRemove(port, wait)]

TimerEvent ==
    /\ pc' = "timeout" /\ cur' = TcpExpired.p /\ wait' = TcpExpired.q
    /\ timer' = IF TcpExpired.p = Null THEN [timer EXCEPT !.fired = FALSE]
                ELSE SetTimerHead([timer EXCEPT !.fired = FALSE], port, TcpExpired.q)
    /\ UNCHANGED <<last, port, active, sock>>

ServeEvent ==
    /\ pc = "poll" /\ batch # <<>> /\ batch' = Tail(batch)
    /\ IF Head(batch) = Null THEN TimerEvent
       ELSE IF port[Head(batch)].type = "TCP_CONNECT" THEN ConnectEvent(Head(batch))
       ELSE PortEvent(Head(batch))
    /\ UNCHANGED <<made, inp, sent, eof, edge, timeouts, passed>>

-----------------------------------------------------------------------------
(* The network, the servers and the clock. *)

Ended == pc \in {"timeout", "closed", "loop"}

Establish(p) ==
    /\ ~Ended /\ sock[p] = "connecting"
    /\ \E result \in {"open", "refused"} : sock' = [sock EXCEPT ![p] = result]
    /\ edge' = [edge EXCEPT ![p] = TRUE]
    /\ UNCHANGED <<client, timer, made, inp, sent, eof, timeouts, passed>>

Send(p) ==
    /\ ~Ended /\ sock[p] = "open" /\ ~eof[p] /\ sent < MaxData
    /\ inp' = [inp EXCEPT ![p] = @ + 1] /\ sent' = sent + 1
    /\ edge' = [edge EXCEPT ![p] = TRUE]
    /\ UNCHANGED <<client, timer, made, sock, eof, timeouts, passed>>

EndOfStream(p) ==
    /\ ~Ended /\ sock[p] = "open" /\ ~eof[p]
    /\ eof' = [eof EXCEPT ![p] = TRUE] /\ edge' = [edge EXCEPT ![p] = TRUE]
    /\ UNCHANGED <<client, timer, made, sock, inp, sent, timeouts, passed>>

\* The time of the next timeout comes.
Tick ==
    /\ ~Ended /\ passed < timeouts /\ passed' = passed + 1
    /\ timer' = [timer EXCEPT !.fired = @ \/ timer.at = passed + 1]
    /\ UNCHANGED <<client, socket, edge, timeouts>>

-----------------------------------------------------------------------------
Poll == Enter \/ ServeActive \/ EpollWait \/ ServeEvent

Next ==
    \/ Read \/ Incomplete \/ Close \/ Enter \/ ServeActive \/ EpollWait \/ ServeEvent \/ Tick
    \/ \E p \in Ports : Connect(p) \/ Establish(p) \/ Send(p) \/ EndOfStream(p)

Spec == Init /\ [][Next]_vars

\* A read that finds nothing tells the client something only once.
CanRead(p) ==
    /\ pc \in {"new", "app"} /\ cur = p /\ port[p].status = "Connected"
    /\ pc = "new" \/ inp[p] > 0 \/ eof[p] \/ ~port[p].end

CanPoll == Handled \/ (pc = "poll" /\ (batch # <<>> \/ active.first # Null \/ timer.fired \/ Ready # {}))

\* main goes on, in event_poll and back to it; and a port that is handled again and
\* again is read again and again, since its buffer holds finitely many responses.  This
\* is weak fairness of Poll (the steps that begin or end in event_poll) and strong
\* fairness of Read, written out with the conditions under which they are possible.
FairSpec ==
    /\ Spec
    /\ []<>~CanPoll \/ []<><<"poll" \in {pc, pc'} /\ client' # client>>_vars
    /\ \A p \in Ports : <>[]~CanRead(p) \/ []<><<cur = p /\ Read>>_vars

-----------------------------------------------------------------------------
Queued(p)   == p \in Members(port, active)
Reported(p) == p \in ToSet(batch)

\* Types, and what the fields of a port say of each other: a port that is
\* closed has no socket, and one that is in progress is connecting.
TypeOK ==
    /\ pc \in {"new", "app", "return", "poll", "timeout", "closed", "loop"}
    /\ cur \in Ports \cup {Null} /\ last \in {cur, Null}
    /\ batch \in Seq(Ports \cup {Null}) /\ Len(batch) <= MaxEvents
    /\ \A p \in Ports :
          /\ port[p].next \in Ports \cup {Null} /\ port[p].prev \in Ports \cup {Null}
          /\ port[p].type \in {"NONE", "TCP_CONNECT", "TCP_PORT", "TCP_CLOSED"}
          /\ port[p].status = "Connected" => port[p].type \in {"TCP_CONNECT", "TCP_PORT"}
          /\ port[p].status = "InProgress" => port[p].type = "TCP_CONNECT"
          /\ port[p].type = "TCP_CLOSED" => port[p].status = "Closed" /\ sock[p] = "none"
          /\ port[p].timeout \in 0 .. timeouts
    /\ timer.at \in 0 .. timeouts /\ passed \in 0 .. timeouts

\* Nothing a server does is lost to an edge that was reported already: a port
\* whose socket has data or has ended, or whose attempt to connect is decided,
\* will be returned by event_poll, or is being handled and goes back to _active.
Watched ==
    ~Ended =>
      \A p \in Ports :
         \/ edge[p] \/ Reported(p) \/ Queued(p)
         \/ last = p /\ (pc = "new" \/ ~port[p].end)
         \/ ~(sock[p] \in {"refused", "open"} /\
              (port[p].status = "InProgress" \/ inp[p] > 0 \/ eof[p]))

\* Data that arrives is read, whatever the other connections do, unless the
\* client ends: again and again a port has none left.
Served == \A p \in Ports : []<>(inp[p] = 0 \/ Ended)

\* With two connections the code breaks the wait list in two ways: clear_timeout
\* leaves a port in it (TimeoutWaits), and next_line lets a port wait that it has just
\* found closed, which is in _active too and has one `next' for both.
Broken == \E p \in Ports : port[p].kept \/ (port[p].wait /\ port[p].type = "TCP_CLOSED")

\* Until then a port that waits is found from _tcp_wait, and the one timer has expired
\* or will, no later than the port's timeout: in whatever order two ports begin to wait,
\* are served, refused or closed, no wait is forgotten and no list is followed for ever.
\* It does not hold of three ports: clear_timeout also leaves `last' of _tcp_wait at a
\* port it has unlinked, and a third one may be lost when the head is removed.
WaitListed ==
    Broken \/
      /\ pc # "loop"
      /\ ~Ended => \A p \in Ports : port[p].wait =>
            /\ p \in Members(port, wait)
            /\ timer.fired \/ (timer.at > passed /\ timer.at <= port[p].timeout)

\* platform.c:37: TCP_TIMEOUT comes with "A TcpPort that timed out".  The code
\* does not keep it: when a port is served from the same epoll_wait as the
\* expired timer, event.c:63 returns TCP_TIMEOUT with a null port.
TimeoutHasPort == pc = "timeout" => cur # Null

\* tcp.c:92: clear_timeout removes the port from the wait list.  It does not
\* when the predecessor it remembers has left the list: the port that times out
\* may have been served or closed, and waits for nothing.
TimeoutWaits == pc = "timeout" /\ cur # Null => port[cur].wait
=============================================================================
