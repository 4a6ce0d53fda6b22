--------------------------- MODULE DerSchedule ---------------------------
(***************************************************************************)
(* The DER event scheduler of the C client for one EndDevice: schedule.c,  *)
(* der.c (schedule_der), the dispatch loop der_poll of der_client.c, and   *)
(* the part of retrieve.c that keeps the DERControlLists of the device's   *)
(* DERPrograms up to date and calls schedule_der when all are complete.    *)
(*                                                                         *)
(* The client is one thread.  Its handlers are operators on a record t of  *)
(* the client's state (State); an action runs one handler and installs its *)
(* result (Become).  The server and the clock act between the handlers.    *)
(***************************************************************************)
EXTENDS EventQueue, FiniteSets

CONSTANTS
    Event,        \* the server's DERControls: naturals, the mRIDs
    Program,      \* the server's DERPrograms: naturals, the mRIDs
    ProgramOf,    \* ProgramOf[e]: the program whose DERControlList holds e
    Primacy,      \* Primacy[p]
    Interval,     \* Interval[e]: [start, duration]
    Creation,     \* Creation[e]: creationTime
    Base,         \* Base[e]: the controls set in DERControlBase
    HasDefault,   \* the programs that have a DefaultDERControl
    Random,       \* the [start, duration] offsets randomization may draw
    Initial,      \* the events listed when the client starts
    Withdraw,     \* what the server may withdraw: "nothing", "finished", "any"
    Drops,        \* the programs the server may withdraw
    Cancels,      \* <<e, status>>: the ends the server may put to an event
    PollRate,     \* active_poll_rate: seconds between two polls of a list
    Lead,         \* bound: how early, by the client's clock, the server activates
    MaxAdjust,    \* bound: times the client sets its clock back
    Horizon       \* bound: the client's clock

ASSUME DerAssumption ==
    /\ IsFiniteSet(Event) /\ Event \subseteq Nat
    /\ IsFiniteSet(Program) /\ Program \subseteq Nat \ {0}
    /\ ProgramOf \in [Event -> Program] /\ Primacy \in [Program -> Nat]
    /\ Interval \in [Event -> [start : Nat, duration : Nat]]
    /\ Creation \in [Event -> Nat]

VARIABLES
    srv,          \* srv[e]: what the server says of e
    now, sync, adjusts,                 \* se_time (), sync_time, clock settings
    blk,                                \* blk[e]: the EventBlock of e
    scheduled, active, superseded,      \* the queues of the Schedule
    snext,                              \* Schedule.next
    im, cur,                            \* the event queue
    stub,                               \* stub[e]: the Stub of e
    lst,                                \* lst[p]: the DERControlList Stub of p
    sent,                               \* GETs not yet answered, oldest first
    pend, complete,                     \* programs still incomplete; the EndDevice
    derpl, dderc,                       \* DerDevice.derpl, DerDevice.dderc
    resp,                               \* resp[e]: the responses sent for e
    polling,                            \* der_poll waits in client_poll
    starts, ends, dflt                  \* the lines main has printed

clientVars == <<now, sync, adjusts, blk, scheduled, active, superseded, snext,
                im, cur, stub, lst, sent, pend, complete, derpl, dderc, resp>>
vars == <<srv, clientVars, polling, starts, ends, dflt>>

State ==
    [now |-> now, sync |-> sync, adjusts |-> adjusts, blk |-> blk,
     scheduled |-> scheduled, active |-> active, superseded |-> superseded,
     snext |-> snext, im |-> im, cur |-> cur, stub |-> stub, lst |-> lst,
     sent |-> sent, pend |-> pend, complete |-> complete, derpl |-> derpl, dderc |-> dderc,
     resp |-> resp]

Become(t) == \E u \in {t} :
    /\ now' = u.now /\ sync' = u.sync /\ adjusts' = u.adjusts /\ blk' = u.blk
    /\ scheduled' = u.scheduled /\ active' = u.active
    /\ superseded' = u.superseded /\ snext' = u.snext
    /\ im' = u.im /\ cur' = u.cur /\ stub' = u.stub /\ lst' = u.lst
    /\ sent' = u.sent /\ pend' = u.pend /\ complete' = u.complete
    /\ derpl' = u.derpl /\ dderc' = u.dderc /\ resp' = u.resp

None == 0
NoBlock == [status |-> "none", der |-> {}, start |-> 0, end |-> 0]
NoStub  == [live |-> FALSE, status |-> "none", complete |-> FALSE,
            completion |-> FALSE, polled |-> FALSE]

\* What the data pointer of an event or a request points to.
Block(e)   == <<"block", e>>
EventOf(e) == <<"event", e>>
ListOf(p)  == <<"list", p>>
Prog(p)    == <<"program", p>>
Schedule   == <<"schedule", 0>>
Device     == <<"device", 0>>

EventStatus == {"Scheduled", "Active", "Canceled", "CanceledRandom",
                "Superseded", "Aborted", "Completed", "ActiveWait",
                "ScheduleSuperseded"}

\* The statuses schedule_event leaves alone: Canceled .. Completed.
Final == {"Canceled", "CanceledRandom", "Superseded", "Aborted", "Completed"}

-----------------------------------------------------------------------------
(* retrieve.c: the Stub of an event. *)

Finish(e) == Interval[e].start + Interval[e].duration

\* A GET goes out unless one is outstanding (status < 0).
UpdateResource(t, e) ==
    IF Contains(t.sent, EventOf(e)) THEN t
    ELSE [t EXCEPT !.sent = Append(@, EventOf(e)), !.stub[e].complete = FALSE]

\* RESOURCE_POLL is armed while the event lasts; when it fires is left open.
PollResource(t, e) == [t EXCEPT !.stub[e].polled = t.now < Finish(e)]

-----------------------------------------------------------------------------
(* schedule.c *)

DeviceResponse(t, e, status) == [t EXCEPT !.resp[e] = Append(@, status)]

PrimacyOf(e) == Primacy[ProgramOf[e]]

Outranks(a, b) ==
    \/ PrimacyOf(a) < PrimacyOf(b)
    \/ PrimacyOf(a) = PrimacyOf(b) /\ Creation[a] > Creation[b]

\* Mutant: the controls of the winner are toggled in the loser, not cleared.
BlockSupersedeToggle(t, a, b) ==
    LET toggle(x, y) == (x \ y) \union (y \ x) IN
    IF Outranks(a, b) THEN [t EXCEPT !.blk[b].der = toggle(@, t.blk[a].der)]
                      ELSE [t EXCEPT !.blk[a].der = toggle(@, t.blk[b].der)]

\* Mutant: a loser that comes second keeps its controls.
BlockSupersedeKeep(t, a, b) ==
    IF Outranks(a, b) THEN t ELSE [t EXCEPT !.blk[a].der = @ \ t.blk[b].der]

\* block_supersede (a, b): the loser gives up the controls the winner has.
\* Only the state is returned; whether b was superseded is Beaten.
BlockSupersede(t, a, b) ==
    IF Outranks(a, b) THEN [t EXCEPT !.blk[b].der = @ \ t.blk[a].der]
                      ELSE [t EXCEPT !.blk[a].der = @ \ t.blk[b].der]

Beaten(t, a, b) ==
    Outranks(a, b) /\ (t.blk[a].der = {} \/ t.blk[b].der \subseteq t.blk[a].der)

NewBlock(e, rnd) ==
    LET start == Interval[e].start + rnd.start IN
    [status |-> "Scheduled", der |-> {}, start |-> start,
     end |-> start + Interval[e].duration + rnd.duration]

Overlap(e, f) == /\ Interval[e].start < Finish(f)
                 /\ Finish(e) > Interval[f].start

\* The loop of insert_block: eb meets the scheduled block e.  a.lost marks that eb
\* has lost to an earlier one.
VisitScheduled(eb, a, e) ==
    IF a.lost THEN a
    ELSE IF Overlap(eb, e) THEN
      LET u == BlockSupersede(a.t, eb, e) IN
      IF Beaten(a.t, eb, e)
      THEN [a EXCEPT !.t =
             [u EXCEPT !.blk[e].status = "ScheduleSuperseded",
                       !.superseded = <<e>> \o @,
                       !.scheduled = RemoveFirst(@, e)]]
      ELSE IF u.blk[eb].der = {}
      THEN [t |-> [u EXCEPT !.blk[eb].status = "ScheduleSuperseded",
                            !.superseded = <<eb>> \o @],
            lost |-> TRUE]
      ELSE [a EXCEPT !.t = u]
    ELSE IF Finish(eb) = Interval[e].start
    THEN [a EXCEPT !.t.blk[e].start = a.t.blk[eb].end]
    ELSE IF Finish(eb) = Finish(e)
    THEN [a EXCEPT !.t.blk[e].end = a.t.blk[eb].end]
    ELSE a

MeetScheduled(t, eb) ==
    LET t0 == [t EXCEPT !.blk[eb].status = "Scheduled", !.blk[eb].der = Base[eb]]
    IN  FoldLeft(LAMBDA a, e : VisitScheduled(eb, a, e),
                 [t |-> t0, lost |-> FALSE], t.scheduled)

\* insert_block: place eb among the scheduled blocks.
InsertBlock(t, eb) ==
    LET place(a) ==
          IF a.lost THEN a.t
          ELSE [a.t EXCEPT !.scheduled =
                  InsertSorted(@, eb, [e \in Event |-> a.t.blk[e].start])]
    IN  place(MeetScheduled(t, eb))

ActivateBlock(t, eb) ==
    LET started ==
          IF t.blk[eb].status = "Active" THEN t
          ELSE DeviceResponse(
                 InsertEvent([t EXCEPT !.blk[eb].status = "Active"],
                             Block(eb), "EVENT_START", 0), eb, "Started")
    IN  PollResource(started, eb)

\* The tail of a queue after e.
After(queue, e) ==
    LET i == CHOOSE j \in 1..Len(queue) : queue[j] = e
    IN  SubSeq(queue, i + 1, Len(queue))

\* insert_active, when eb takes over from the active block b: prev is never
\* advanced, so the queue goes on after b whatever came before it.
SupersedeActive(t, eb, b, queue) ==
    LET ended == IF t.blk[b].status = "Active"
                 THEN InsertEvent(t, Block(b), "EVENT_END", 0) ELSE t
    IN  DeviceResponse(
          [ended EXCEPT !.active = After(queue, b),
                        !.blk[b].end = t.blk[eb].start,
                        !.blk[b].status = "Superseded"], b, "Superseded")

\* The loop of insert_active: eb meets the active block b.
VisitActive(eb, queue, a, b) ==
    IF a.lost THEN a
    ELSE LET u == BlockSupersede(a.t, eb, b) IN
      IF Beaten(a.t, eb, b)
      THEN [a EXCEPT !.t = SupersedeActive(u, eb, b, queue)]
      ELSE IF u.blk[eb].der = {}
      THEN [t |-> DeviceResponse([u EXCEPT !.blk[eb].status = "Superseded"],
                                 eb, "Superseded"),
            lost |-> TRUE]
      ELSE [a EXCEPT !.t = u]

MeetActive(t, eb) ==
    FoldLeft(LAMBDA a, b : VisitActive(eb, t.active, a, b),
             [t |-> [t EXCEPT !.blk[eb].der = Base[eb]], lost |-> FALSE], t.active)

\* insert_active, when eb has a place: it waits for the server or starts.
BeginActive(t, eb) ==
    CASE t.stub[eb].status = "Scheduled" ->
           [UpdateResource(t, eb) EXCEPT !.blk[eb].status = "ActiveWait"]
      [] t.stub[eb].status = "Active" -> ActivateBlock(t, eb)
      [] OTHER -> t

\* insert_active: place eb among the active blocks.
InsertActive(t, eb) ==
    LET place(u) == [u EXCEPT !.active =
                       InsertSorted(@, eb, [e \in Event |-> u.blk[e].end])]
        finish(a) == IF a.lost THEN a.t ELSE place(BeginActive(a.t, eb))
    IN  finish(MeetActive(t, eb))

\* list_remove from the queue that the status of eb names.
Unlink(t, eb) ==
    CASE t.blk[eb].status = "Scheduled" ->
           [t EXCEPT !.scheduled = RemoveFirst(@, eb)]
      [] t.blk[eb].status \in {"Active", "ActiveWait"} ->
           [t EXCEPT !.active = RemoveFirst(@, eb)]
      [] t.blk[eb].status = "ScheduleSuperseded" ->
           [t EXCEPT !.superseded = RemoveFirst(@, eb)]
      [] OTHER -> t

EndNow(t, eb) ==
    InsertEvent(RemoveEvent([t EXCEPT !.blk[eb].end = t.now], Block(eb)),
                Block(eb), "EVENT_END", 0)

\* Mutant: EVENT_END is removed with the other events of the block.
RemoveBlockSilent(t, eb) ==
    Unlink(IF t.blk[eb].status = "Active" THEN RemoveEvent(t, Block(eb)) ELSE t, eb)

\* Mutant: an active block ends and stays in its queue (no fall-through).
RemoveBlockBreak(t, eb) ==
    IF t.blk[eb].status = "Active" THEN EndNow(t, eb) ELSE Unlink(t, eb)

RemoveBlock(t, eb) ==
    Unlink(IF t.blk[eb].status = "Active" THEN EndNow(t, eb) ELSE t, eb)

\* Mutant: the status is not compared before the response is sent.
RemoveBlocksAlways(t, e, response) ==
    [DeviceResponse(RemoveBlock(t, e), e, response)
       EXCEPT !.blk[e].status = t.stub[e].status]

\* remove_blocks, for the one schedule an event belongs to here.
RemoveBlocks(t, e, response) ==
    LET u == RemoveBlock(t, e)
        v == IF t.blk[e].status # t.stub[e].status
             THEN DeviceResponse(u, e, response) ELSE u
    IN  [v EXCEPT !.blk[e].status = t.stub[e].status]

\* event_update, the completion of an event's own retrieval.  While the server
\* still says Scheduled the clock is set back, once per second, and the
\* retrieval repeated a second later.
EventUpdate(t, e) ==
    CASE t.stub[e].status = "Scheduled" ->
           LET u == IF t.sync = t.now THEN t
                    ELSE [t EXCEPT !.now = @ - 1, !.sync = t.now - 1,
                                   !.adjusts = @ + 1]
           IN  InsertEvent(u, EventOf(e), "RESOURCE_UPDATE", u.now + 1)
      [] t.stub[e].status = "Active" ->
           IF t.blk[e].status = "ActiveWait" THEN ActivateBlock(t, e) ELSE t
      [] t.stub[e].status \in {"Canceled", "CanceledRandom"} ->
           RemoveBlocks(t, e, "Canceled")
      [] t.stub[e].status = "Superseded" -> RemoveBlocks(t, e, "Superseded")
      [] OTHER -> t

\* block_update: eb is in no queue when schedule_event comes here.
BlockUpdate(t, eb, status) ==
    LET u == IF t.blk[eb].status = "Active"
             THEN InsertEvent([t EXCEPT !.blk[eb].end = t.now],
                              Block(eb), "EVENT_END", 0)
             ELSE t
    IN  [u EXCEPT !.blk[eb].status = status]

NewEvent(t, e, rnd) ==
    DeviceResponse([t EXCEPT !.blk[e] = NewBlock(e, rnd), !.stub[e].completion = TRUE],
                   e, "Received")

Expire(t, e) == DeviceResponse([t EXCEPT !.blk[e].status = "Completed"], e, "Expired")

\* schedule_event, when the block of e has not ended.
PlaceBlock(t, e, status) ==
    CASE status = "Scheduled" /\ t.blk[e].status # "ActiveWait" -> InsertBlock(t, e)
      [] \/ status = "Scheduled" /\ t.blk[e].status = "ActiveWait"
         \/ status = "Active" -> InsertActive(t, e)
      [] status \in {"Canceled", "CanceledRandom"} ->
           BlockUpdate(DeviceResponse(t, e, "Canceled"), e, status)
      [] status = "Superseded" ->
           BlockUpdate(DeviceResponse(t, e, "Superseded"), e, status)
      [] OTHER -> t

\* Mutant: a block that has ended is placed again.
ScheduleEventAgain(t, e, rnd) ==
    LET new == t.blk[e] = NoBlock
        t0  == IF new THEN NewEvent(t, e, rnd) ELSE t
    IN  IF new /\ t0.blk[e].end <= t.now THEN Expire(t0, e)
        ELSE PlaceBlock(t0, e, t.stub[e].status)

\* schedule_event, with the offsets randomization draws for a new block.
ScheduleEvent(t, e, rnd) ==
    LET new == t.blk[e] = NoBlock
        t0  == IF new THEN NewEvent(t, e, rnd) ELSE t
    IN  IF new /\ t0.blk[e].end <= t.now THEN Expire(t0, e)
        ELSE IF t0.blk[e].status \in Final THEN t0
        ELSE PlaceBlock(t0, e, t.stub[e].status)

-----------------------------------------------------------------------------
(* update_schedule: its three loops, then the next wake-up. *)

\* min (last, x), where 0 stands for "none yet".
Earlier(last, x) == IF last = 0 \/ x < last THEN x ELSE last

\* The blocks at the head of a queue that are due, and those behind them.
DuePrefix(queue, due) ==
    LET later == {i \in 1..Len(queue) : queue[i] \notin due}
    IN  SubSeq(queue, 1, IF later = {} THEN Len(queue) ELSE Min(later) - 1)

Behind(queue, due) ==
    SubSeq(queue, Len(DuePrefix(queue, due)) + 1, Len(queue))

Ended(t)   == {e \in Event : t.blk[e].end <= t.now}
Started(t) == {e \in Event : t.blk[e].start <= t.now}

\* Mutant: a block that never started is ended like one that did.
ExpireBlockAll(t, e) == [InsertEvent(t, Block(e), "EVENT_END", 0)
                           EXCEPT !.blk[e].status = "Completed"]

\* Mutant: no EVENT_END when a block expires.
ExpireBlockSilent(t, e) == [t EXCEPT !.blk[e].status = "Completed"]

ExpireBlock(t, e) ==
    [(IF t.blk[e].status = "Active"
      THEN InsertEvent(DeviceResponse(t, e, "Completed"), Block(e), "EVENT_END", 0)
      ELSE t) EXCEPT !.blk[e].status = "Completed"]

\* The first loop: active blocks that are over end.
ExpireDue(t, due) == FoldLeft(ExpireBlock, t, DuePrefix(t.active, due))

ExpireActive(t) ==
    LET rest == Behind(t.active, Ended(t))
    IN  [t    |-> [ExpireDue(t, Ended(t)) EXCEPT !.active = rest],
         last |-> IF rest = <<>> THEN 0 ELSE t.blk[Head(rest)].end]

\* Mutant: the end of a block that starts now does not count.
BeginBlockNoEnd(a, e) == [a EXCEPT !.t = InsertActive(@, e)]

BeginBlock(a, e) ==
    LET began(u) == [t |-> u, last |-> Earlier(a.last, u.blk[e].end)]
    IN  began(InsertActive(a.t, e))

\* The second: scheduled blocks that are due become active.
BeginDue(a, due) == FoldLeft(BeginBlock, a, DuePrefix(a.t.scheduled, due))

StartScheduled(a) ==
    LET rest == Behind(a.t.scheduled, Started(a.t))
        stop(b) == [t    |-> [b.t EXCEPT !.scheduled = rest],
                    last |-> IF rest = <<>> THEN b.last
                             ELSE Earlier(b.last, b.t.blk[Head(rest)].start)]
    IN  stop(BeginDue(a, Started(a.t)))

Retire(t, e) ==
    DeviceResponse([t EXCEPT !.blk[e].status = "Superseded"], e, "Superseded")

\* The third: superseded blocks that are due have lost for good.
RetireDue(t, due) == FoldLeft(Retire, t, DuePrefix(t.superseded, due))

RetireSuperseded(a) ==
    LET rest == Behind(a.t.superseded, Started(a.t))
        stop(u) == [t    |-> [u EXCEPT !.superseded = rest],
                    last |-> IF rest = <<>> THEN a.last
                             ELSE Earlier(a.last, u.blk[Head(rest)].start)]
    IN  stop(RetireDue(a.t, Started(a.t)))

\* The next wake-up, unless it is set already.
SetWakeup(a) ==
    IF a.last # 0 /\ a.last # a.t.snext
    THEN [InsertEvent(RemoveEvent(a.t, Schedule),
                      Schedule, "SCHEDULE_UPDATE", a.last) EXCEPT !.snext = a.last]
    ELSE [a.t EXCEPT !.snext = a.last]

UpdateSchedule(t) ==
    SetWakeup(RetireSuperseded(StartScheduled(ExpireActive(t))))

-----------------------------------------------------------------------------
(* der.c: schedule_der. *)

\* The order of the DERPrograms of a device and of the DERControls of a list.
ProgramOrder ==
    {pair \in Program \X Program :
       LET p == pair[1]  q == pair[2] IN
       \/ Primacy[p] < Primacy[q]
       \/ Primacy[p] = Primacy[q] /\ p > q}

ControlOrder ==
    {pair \in Event \X Event :
       LET e == pair[1]  f == pair[2] IN
       \/ Interval[e].start < Interval[f].start
       \/ /\ Interval[e].start = Interval[f].start
          /\ \/ Creation[e] > Creation[f]
             \/ Creation[e] = Creation[f] /\ e > f}

\* The elements of S in the order of a list: each comes after those before it.
Listing(S, order) ==
    [i \in 1 .. Cardinality(S) |->
       CHOOSE e \in S : Cardinality({f \in S : <<f, e>> \in order}) = i - 1]

Programs(t) == Listing({p \in Program : t.lst[p].live}, ProgramOrder)
Controls(S) == Listing(S, ControlOrder)

Abort(t, e) ==
    LET u == RemoveBlock(t, e)
        v == IF t.blk[e].status = "Active"
             THEN DeviceResponse(u, e, "AbortedProgram") ELSE u
    IN  [v EXCEPT !.blk[e].status = "Aborted"]

\* remove_programs: whatever state its blocks are in, they end as Aborted.
RemovePrograms(t, ps) ==
    FoldLeft(Abort, t, Controls({e \in Event : /\ ProgramOf[e] \in ps
                                               /\ t.blk[e] # NoBlock}))

ClearQueues(t) == [t EXCEPT !.scheduled = <<>>, !.active = <<>>, !.superseded = <<>>]

\* schedule_der, for one program; rnd[e] is what randomization draws for e.
ScheduleControls(t, S, rnd) ==
    FoldLeft(LAMBDA u, e : ScheduleEvent(u, e, rnd[e]), t, Controls(S))

\* All of them, the most important program first.
SchedulePrograms(t, progs, rnd) ==
    FoldLeft(LAMBDA u, p : ScheduleControls(u, t.lst[p].reqs, rnd), t, progs)

\* The program whose DefaultDERControl applies.
DefaultProgram(progs) ==
    LET withDefault(p) == p \in HasDefault
        offers == SelectSeq(progs, withDefault)
    IN  IF offers = <<>> THEN None ELSE Head(offers)

\* schedule_der.
ScheduleDer(t, rnd) ==
    LET progs == Programs(t)
        t0 == ClearQueues(RemovePrograms(t, t.derpl \ ToSet(progs)))
        t1 == SchedulePrograms(t0, progs, rnd)
        t2 == [t1 EXCEPT !.derpl = ToSet(progs), !.dderc = DefaultProgram(progs)]
    IN  InsertEvent(InsertEvent(t2, Schedule, "SCHEDULE_UPDATE", 0),
                    Device, "DEVICE_SCHEDULE", 0)

-----------------------------------------------------------------------------
(* retrieve.c: completion of lists, programs and the EndDevice. *)

RemoveReq(t, e) == InsertEvent(t, EventOf(e), "RESOURCE_REMOVE", 0)

RemoveReqs(t, S) == FoldLeft(RemoveReq, t, Controls(S))

\* dep_complete from a program upwards: schedule_der is the completion of the
\* EndDevice, run when it was reset since it was last complete.
ProgramComplete(t, p, rnd) ==
    LET u == [t EXCEPT !.pend = @ \ {p}] IN
    IF u.pend # {} \/ u.complete THEN u
    ELSE [ScheduleDer(u, rnd) EXCEPT !.complete = TRUE]

\* dep_complete of an event: its own completion, then that of its list, which
\* is full when it has as many requirements as the server announced.
DepComplete(t, e, rnd) ==
    LET p == ProgramOf[e]
        list(u) ==
          IF Cardinality(u.lst[p].reqs) # u.lst[p].all THEN u
          ELSE ProgramComplete(RemoveReqs([u EXCEPT !.lst[p].old = {}],
                                          u.lst[p].old \ u.lst[p].reqs), p, rnd)
        u == IF t.stub[e].completion /\ ~t.stub[e].complete
             THEN EventUpdate(t, e) ELSE t
    IN  list([u EXCEPT !.stub[e].complete = TRUE, !.lst[p].reqs = @ \union {e}])

\* update_existing: a known event takes over the EventStatus only.
UpdateExisting(t, e, status, rnd) ==
    LET u == IF t.stub[e].live THEN [t EXCEPT !.stub[e].status = status]
             ELSE [t EXCEPT !.stub[e] = [NoStub EXCEPT !.live = TRUE,
                                                       !.status = status]]
    IN  DepComplete(u, e, rnd)

\* The loop over the members of a list.
UpdateMembers(t, members, status, rnd) ==
    FoldLeft(LAMBDA u, e : UpdateExisting(u, e, status[e], rnd), t, Controls(members))

\* list_object, for a list that fits one page.  An empty list completes
\* without its former members being removed.
ListObject(t, p, members, status, rnd) ==
    LET u == [t EXCEPT !.lst[p].all = Cardinality(members)]
    IN  IF members = {} THEN ProgramComplete(u, p, rnd)
        ELSE UpdateMembers(u, members, status, rnd)

\* update_resource of a list that has been retrieved before: dep_reset reaches
\* the program and the EndDevice.
UpdateList(t, p) ==
    IF Contains(t.sent, ListOf(p)) THEN t
    ELSE [t EXCEPT !.sent = Append(@, ListOf(p)),
                   !.lst[p].old = t.lst[p].reqs, !.lst[p].reqs = {},
                   !.pend = @ \union {p}, !.complete = FALSE]

\* remove_stub of an event.
RemoveStub(t, e) ==
    LET p == ProgramOf[e]
        u == IF Contains(t.sent, ListOf(p)) THEN [t EXCEPT !.lst[p].old = @ \ {e}]
             ELSE [t EXCEPT !.lst[p].reqs = @ \ {e}]
    IN  [RemoveEvent(u, EventOf(e)) EXCEPT !.stub[e] = NoStub]

-----------------------------------------------------------------------------
(* The server and the clock. *)

Init ==
    /\ srv = [e \in Event |-> IF e \in Initial THEN "Scheduled" ELSE "unpublished"]
    /\ now = 1 /\ sync = 0 /\ adjusts = 0
    /\ blk = [e \in Event |-> NoBlock]
    /\ scheduled = <<>> /\ active = <<>> /\ superseded = <<>> /\ snext = 0
    /\ im = <<>> /\ cur = <<>>
    /\ stub = [e \in Event |-> NoStub]
    /\ lst = [p \in Program |-> [live |-> TRUE, reqs |-> {}, old |-> {},
                                 all |-> 0, next |-> now + PollRate]]
    /\ sent = [i \in 1..Cardinality(Program) |-> ListOf(SetToSeq(Program)[i])]
    /\ pend = Program /\ complete = FALSE
    /\ derpl = {} /\ dderc = None
    /\ resp = [e \in Event |-> <<>>]
    /\ polling = FALSE
    /\ starts = [e \in Event |-> 0] /\ ends = [e \in Event |-> 0] /\ dflt = FALSE

Listed == {e \in Event : srv[e] \notin {"unpublished", "withdrawn"}}

SrvPublish(e) ==
    /\ srv[e] = "unpublished" /\ lst[ProgramOf[e]].live
    /\ srv' = [srv EXCEPT ![e] = "Scheduled"]
    /\ UNCHANGED <<clientVars, polling, starts, ends, dflt>>

SrvActivate(e) ==
    /\ srv[e] = "Scheduled" /\ now + Lead >= Interval[e].start
    /\ srv' = [srv EXCEPT ![e] = "Active"]
    /\ UNCHANGED <<clientVars, polling, starts, ends, dflt>>

SrvEnd(e, status) ==
    /\ srv[e] \in {"Scheduled", "Active"} /\ <<e, status>> \in Cancels
    /\ srv' = [srv EXCEPT ![e] = status]
    /\ UNCHANGED <<clientVars, polling, starts, ends, dflt>>

Retrying(e) == \E i \in 1..Len(cur) : cur[i].data = EventOf(e)

\* With Withdraw = "finished" the server withdraws only events that are over,
\* and not while the client is about to learn of it twice.
SrvWithdraw(e) ==
    /\ e \in Listed
    /\ \/ Withdraw = "any"
       \/ /\ Withdraw = "finished"
          /\ blk[e].status \in Final /\ now >= Finish(e)
          /\ ~Contains(sent, ListOf(ProgramOf[e]))
          /\ Contains(sent, EventOf(e)) \/ ~Retrying(e)
    /\ srv' = [srv EXCEPT ![e] = "withdrawn"]
    /\ UNCHANGED <<clientVars, polling, starts, ends, dflt>>

Tick ==
    /\ now < Horizon
    /\ now' = now + 1
    /\ UNCHANGED <<srv, sync, adjusts, blk, scheduled, active, superseded, snext,
                   im, cur, stub, lst, sent, pend, complete, derpl, dderc, resp,
                   polling, starts, ends, dflt>>

-----------------------------------------------------------------------------
(* der_poll: run the events that are due, then wait for the network. *)

Handle(type) ==
    /\ ~polling /\ HasNext(State, now)
    /\ NextEvent(State).type = type

Data == NextEvent(State).data[2]

\* Mutant: the default control is not announced when the schedule is empty.
DefaultIfIdleNot(t) == t

DefaultIfIdle(t) == IF t.active = <<>> /\ t.dderc # None
                    THEN InsertEvent(t, Device, "DEFAULT_CONTROL", 0) ELSE t

DoScheduleUpdate ==
    /\ Handle("SCHEDULE_UPDATE")
    /\ Become(DefaultIfIdle(UpdateSchedule(Popped(State))))
    /\ UNCHANGED <<srv, polling, starts, ends, dflt>>

DoResourceUpdate ==
    /\ Handle("RESOURCE_UPDATE")
    /\ Become(UpdateResource(Popped(State), Data))
    /\ UNCHANGED <<srv, polling, starts, ends, dflt>>

\* delete_blocks frees the block, wherever it is; remove_stub frees the Stub
\* and lets go of what it required.
DoResourceRemove ==
    /\ Handle("RESOURCE_REMOVE")
    /\ LET t == Popped(State)  data == NextEvent(State).data IN
       \/ \E e \in Event :
            /\ data = EventOf(e)
            /\ Become([RemoveStub(t, e) EXCEPT !.blk[e] = NoBlock])
       \/ \E p \in Program :
            /\ data = ListOf(p)
            /\ Become(RemoveReqs([t EXCEPT !.lst[p].reqs = {}, !.lst[p].old = {}],
                                 t.lst[p].reqs \union t.lst[p].old))
       \/ \E p \in Program :
            /\ data = Prog(p)
            /\ Become(InsertEvent(t, ListOf(p), "RESOURCE_REMOVE", 0))
    /\ UNCHANGED <<srv, polling, starts, ends, dflt>>

DoRetrieveFail ==
    /\ Handle("RETRIEVE_FAIL")
    /\ Become(RemoveStub(Popped(State), Data))
    /\ UNCHANGED <<srv, polling, starts, ends, dflt>>

\* The events der_poll returns to main, which prints them.
EmitStart ==
    /\ Handle("EVENT_START")
    /\ Become(Popped(State))
    /\ starts' = [starts EXCEPT ![Data] = @ + 1] /\ dflt' = FALSE
    /\ UNCHANGED <<srv, polling, ends>>

EmitEnd ==
    /\ Handle("EVENT_END")
    /\ Become(Popped(State))
    /\ ends' = [ends EXCEPT ![Data] = @ + 1]
    /\ UNCHANGED <<srv, polling, starts, dflt>>

EmitDefault ==
    /\ Handle("DEFAULT_CONTROL")
    /\ Become(Popped(State))
    /\ dflt' = TRUE
    /\ UNCHANGED <<srv, polling, starts, ends>>

EmitSchedule ==
    /\ Handle("DEVICE_SCHEDULE")
    /\ Become(Popped(State))
    /\ UNCHANGED <<srv, polling, starts, ends, dflt>>

\* next_event has nothing: set the timer and wait in client_poll ...
StartPoll ==
    /\ ~polling /\ ~HasNext(State, now)
    /\ polling' = TRUE
    /\ UNCHANGED <<srv, clientVars, starts, ends, dflt>>

\* ... until the timer expires ...
TimerExpires ==
    /\ polling /\ HasNext(State, now)
    /\ polling' = FALSE
    /\ UNCHANGED <<srv, clientVars, starts, ends, dflt>>

PollReady(p) == /\ polling /\ lst[p].live /\ ~Contains(sent, ListOf(p))
                /\ lst[p].next <= now \/ now = Horizon

\* ... with RESOURCE_POLL of a list, which sends the next GET ...
PollList(p) ==
    /\ PollReady(p)
    /\ Become([UpdateList(State, p) EXCEPT !.lst[p].next = now + PollRate])
    /\ polling' = FALSE
    /\ UNCHANGED <<srv, starts, ends, dflt>>

\* ... or of an event that was activated ...
PollEvent(e) ==
    /\ polling /\ stub[e].live /\ stub[e].polled
    /\ ~Contains(sent, EventOf(e))
    /\ Become(PollResource(UpdateResource(State, e), e))
    /\ polling' = FALSE
    /\ UNCHANGED <<srv, starts, ends, dflt>>

\* ... or an answer arrives.  Requests are answered in order.
Answered == [State EXCEPT !.sent = Tail(@)]

Members(p) == {e \in Listed : ProgramOf[e] = p}

\* The bound on the clock: an answer about S may set it back, at most once.
SetsBack(e) == /\ srv[e] = "Scheduled" /\ sync # now /\ stub[e].completion
               /\ stub[e].complete => blk[e].status = "ActiveWait"

ClockBound(S) == (\E e \in S : SetsBack(e)) => adjusts < MaxAdjust

ListResponse(p) ==
    /\ polling /\ sent # <<>> /\ Head(sent) = ListOf(p)
    /\ ClockBound(Members(p))
    /\ \E rnd \in [Event -> Random] :
         Become([ListObject(State, p, Members(p), srv, rnd) EXCEPT !.sent = Tail(@)])
    /\ polling' = FALSE
    /\ UNCHANGED <<srv, starts, ends, dflt>>

EventResponse(e) ==
    /\ polling /\ sent # <<>> /\ Head(sent) = EventOf(e)
    /\ stub[e].live /\ e \in Listed
    /\ ClockBound({e})
    /\ \E rnd \in [Event -> Random] :
         Become([UpdateExisting(State, e, srv[e], rnd) EXCEPT !.sent = Tail(@)])
    /\ polling' = FALSE
    /\ UNCHANGED <<srv, starts, ends, dflt>>

\* 404: process_http records the status and queues RETRIEVE_FAIL.
EventNotFound(e) ==
    /\ polling /\ sent # <<>> /\ Head(sent) = EventOf(e)
    /\ stub[e].live /\ e \notin Listed
    /\ Become(InsertEvent(Answered, EventOf(e), "RETRIEVE_FAIL", 0))
    /\ polling' = FALSE
    /\ UNCHANGED <<srv, starts, ends, dflt>>

\* The DERProgramList no longer has p, and nothing else is being retrieved:
\* p is dropped from the list's requirements and the EndDevice completes.
ProgramWithdrawn(p) ==
    /\ polling /\ p \in Drops /\ lst[p].live
    /\ sent = <<>> /\ pend = {}
    /\ \E rnd \in [Event -> Random] :
         Become(ScheduleDer([InsertEvent(State, Prog(p), "RESOURCE_REMOVE", 0)
                               EXCEPT !.lst[p].live = FALSE], rnd))
    /\ srv' = [e \in Event |-> IF ProgramOf[e] = p THEN "withdrawn" ELSE srv[e]]
    /\ polling' = FALSE
    /\ UNCHANGED <<starts, ends, dflt>>

-----------------------------------------------------------------------------
Server == \E e \in Event :
            \/ SrvPublish(e) \/ SrvActivate(e) \/ SrvWithdraw(e)
            \/ \E status \in {"Canceled", "CanceledRandom", "Superseded"} :
                 SrvEnd(e, status)

Dispatch == \/ DoScheduleUpdate \/ DoResourceUpdate \/ DoResourceRemove
            \/ DoRetrieveFail
            \/ EmitStart \/ EmitEnd \/ EmitDefault \/ EmitSchedule
            \/ StartPoll \/ TimerExpires

Polls   == (\E p \in Program : PollList(p)) \/ (\E e \in Event : PollEvent(e))

Answers == \/ \E p \in Program : ListResponse(p)
           \/ \E e \in Event : EventResponse(e) \/ EventNotFound(e)

Next == Server \/ Tick \/ Dispatch \/ Polls \/ Answers
          \/ \E p \in Program : ProgramWithdrawn(p)

Spec == Init /\ [][Next]_vars

AnswerReady ==
    /\ polling /\ sent # <<>>
    /\ \/ \E p \in Program : Head(sent) = ListOf(p) /\ ClockBound(Members(p))
       \/ \E e \in Event : /\ Head(sent) = EventOf(e) /\ stub[e].live
                           /\ e \in Listed => ClockBound({e})

\* What tells the steps of the client from all others.
DispatchStep == ~polling /\ <<polling, im, cur>>' # <<polling, im, cur>>
ReturnStep   == polling /\ ~polling'
AnswerStep   == sent # <<>> /\ ~Contains(sent', Head(sent))
TickStep     == now' = now + 1
PollStep(p)  == ~Contains(sent, ListOf(p)) /\ Contains(sent', ListOf(p))

\* The client keeps running, its connection delivers the answers, it keeps
\* polling its lists and time passes.  Nothing is assumed of the server.  This
\* is weak fairness of the client's steps with their enabling conditions
\* spelled out.
FairSpec ==
    /\ Spec
    /\ []<>polling \/ []<><<DispatchStep>>_vars
    /\ []<>~(polling /\ HasNext(State, now)) \/ []<><<ReturnStep>>_vars
    /\ []<>~AnswerReady \/ []<><<AnswerStep>>_vars
    /\ []<>(now >= Horizon) \/ []<><<TickStep>>_vars
    /\ \A p \in Program : []<>~PollReady(p) \/ []<><<PollStep(p)>>_vars

-----------------------------------------------------------------------------
(* Properties. *)

TypeOK ==
    /\ srv \in [Event -> {"unpublished", "withdrawn", "Scheduled", "Active",
                          "Canceled", "CanceledRandom", "Superseded"}]
    /\ now \in 0..Horizon /\ sync \in 0..Horizon /\ adjusts \in 0..MaxAdjust
    /\ \A e \in Event : /\ blk[e].status \in EventStatus \union {"none"}
                        /\ blk[e].der \subseteq Base[e]
    /\ {scheduled, active, superseded} \subseteq Seq(Event)
    /\ derpl \subseteq Program /\ dderc \in Program \union {None}
    /\ polling \in BOOLEAN /\ dflt \in BOOLEAN

\* The queue a block waits in.
QueueOf == [status \in {"Scheduled", "Active", "ActiveWait", "ScheduleSuperseded"} |->
              CASE status = "Scheduled" -> scheduled
                [] status \in {"Active", "ActiveWait"} -> active
                [] status = "ScheduleSuperseded" -> superseded]

\* Between two handlers the status of a block and the queue it is in agree:
\* a block that still has something to wait for is in the queue of its status,
\* once, and in no other.
QueuesAgree ==
    /\ \A e \in Event : blk[e].status \in DOMAIN QueueOf
         => Contains(QueueOf[blk[e].status], e)
    /\ \A status \in DOMAIN QueueOf :
         \A i, j \in 1..Len(QueueOf[status]) :
           /\ i # j => QueueOf[status][i] # QueueOf[status][j]
           /\ LET e == QueueOf[status][i] IN
              blk[e].status \in DOMAIN QueueOf /\ QueueOf[blk[e].status] = QueueOf[status]

Wakeup(time) == \E i \in 1..Len(cur) : cur[i].type = "SCHEDULE_UPDATE" /\ cur[i].time <= time

\* No block is forgotten: unless an update of the schedule is already queued,
\* one is set for no later than the next start and the next end.
WakeupPending ==
    \/ \E i \in 1..Len(im) : im[i].type = "SCHEDULE_UPDATE"
    \/ /\ \A e \in ToSet(active) : Wakeup(blk[e].end)
       /\ \A e \in ToSet(scheduled) : Wakeup(blk[e].start)

Queued(e, type) ==
    Cardinality({i \in 1..Len(im) : im[i].type = type /\ im[i].data = Block(e)})

\* Starts and ends are accounted for: of the EVENT_STARTs of an event, printed
\* or still queued, all but the one of a block that is Active now have their
\* EVENT_END, printed or queued, and no EVENT_END lacks its EVENT_START.
EndGenerated ==
    \A e \in Event :
      starts[e] + Queued(e, "EVENT_START")
        = ends[e] + Queued(e, "EVENT_END")
            + (IF blk[e].status = "Active" THEN 1 ELSE 0)

\* No two blocks in the active queue exercise the same control, whatever the order
\* in which insert_active meets them.  A block that it drops from the queue
\* (QueuesAgree, MCDerDropped.cfg) may still be in force, and is not spoken of.
ControlsDisjoint ==
    \A e, f \in ToSet(active) : e # f => blk[e].der \intersect blk[f].der = {}

\* The responses for one event make sense to the server: each is sent once,
\* "received" comes first, "started" only next after it, and "completed" or
\* "aborted" only next after "started".  Only a cancellation or a supersession
\* by the server that the client learns of late may follow one of the others.
ResponsesLegal ==
    \A e \in Event : \A i, j \in 1..Len(resp[e]) :
      /\ i # j => resp[e][i] # resp[e][j]
      /\ i = 1 <=> resp[e][i] = "Received"
      /\ resp[e][i] \in {"Started", "Expired"} => i = 2
      /\ resp[e][i] \in {"Completed", "AbortedProgram"} =>
           i = 3 /\ resp[e][2] = "Started"

\* What the status of a block may become: over and in force are never undone.
MayBecome(old, new) ==
    /\ old \in Final => new \in Final
    /\ old = "Active" => new \in Final \union {"Active"}
    /\ old = "ActiveWait" => new \in Final \union {"Active", "ActiveWait"}

\* A DERControl that is over is never in force again, and one that is in force or
\* due never waits for its start again, however often schedule_der inserts all of
\* them anew and whatever the server says of it in between; until remove_stub
\* frees the block.
StatusForward ==
    [][\A e \in Event : blk'[e] = NoBlock \/ MayBecome(blk[e].status, blk'[e].status)]_vars

Stream == INSTANCE EventStream

\* What the client prints is a stream the gateway can rely on.
StreamSpec == Stream!Spec

\* Every DERControl that was started is ended.
StartsEnd == \A e \in Event : starts[e] # ends[e] ~> starts[e] = ends[e]

\* When no DERControl is in force the default control is announced, unless
\* another DERControl starts first.
DefaultFollows ==
    (dderc # None /\ Stream!Open = {}) ~> (dflt \/ Stream!Open # {})
=============================================================================
