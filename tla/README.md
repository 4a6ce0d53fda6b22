# TLA+ models of the IEEE 2030.5 client and its gateway

The repository is an IEEE 2030.5 (SEP 2) client for distributed energy resources (DER):
a C library and test program (`core/`) that retrieves DER programs and controls from a
utility server, schedules them and prints what becomes active, and a Python gateway
(`gateway/`) that runs the C program as a subprocess and turns the printed events into
register writes of a field device.  This directory holds TLA+ modules for the path from the
server to the device's registers (discovery, connection, HTTP messages, documents, the tree of
resources, the schedule of events, the gateway), the TLC configurations that check them on
small instances, and TLAPS proofs.

## 1. Inventory

| Part | State | Operations | Talks to |
|---|---|---|---|
| `core/schedule.c` scheduler | one `Schedule` per device: `blocks`, the queues `scheduled`, `active`, `superseded`, the time of the next wake-up | `schedule_event`, `event_update`, `update_schedule`, `remove_block(s)`, `delete_blocks` | queues `EVENT_START`, `EVENT_END`, `SCHEDULE_UPDATE`; posts responses; asks `retrieve.c` for an event's status |
| `core/der.c` | `DerDevice`: programs, default control, schedule | `schedule_der` (completion of an EndDevice), `remove_programs` | the scheduler |
| `core/der_client.c` | none | `der_poll` runs queued events, then waits for the network; prints `EVENT_JSON` lines | gateway (pipe) |
| `core/event.c`, `queue.c`, `list.c` | FIFO of immediate events, list of timed ones | `insert_event`, `remove_event`, `next_event` | a timer |
| `core/retrieve.c` | a `Stub` per resource: status, `reqs`, `deps`, `list`, `flags`, `complete` | `update_resource`, `dep_complete`, `dep_reset`, `remove_stub`, `process_http` | HTTP, event queue, completions |
| `core/http.c`, `se_connection.c` | request FIFO, send queue, buffer, state of the message | requests, `http_flush`, `http_receive`, `http_data`, `se_receive` | the connection, the parser |
| `core/connection.c`, `linux/*` | TLS state; type and status of a port, `_active`, `_tcp_wait` | connect, read, write, close, `event_poll` | sockets, epoll |
| `core/hash.c`, `resource.c` | hash tables | put, get, delete, resize | all |
| `core/dnssd_client.c`, `mdns.c`, `se_discover.c`, `client.c` | questions asked, hosts, partly known services | query, follow-up, `service_next` | UDP |
| `core/output.c`, `parse.c` and their XML and EXI drivers | `Output`, `Parser`: position in the schema, stack, string tables | `output_doc`, `parse_doc`, resumable | HTTP |
| `gateway/bridge.py` | `_active_registers` | `apply`, `_apply_control`, `_relinquish`, `_write` | field protocol adapter |
| `gateway/client.py`, `__main__.py` | the subprocess | start, read lines, stop; nested context managers | the C client, the bridge |
| schema tables, generators | data | conversions | - |

Hard behaviours.  The C client is one thread, but its handlers interleave with the server
(which publishes, activates, cancels, supersedes and withdraws events at any time), with the
clock (which the client itself sets back), with polls and with answers that arrive late and
out of step with the schedule.  Sockets report edges only, data is cut anywhere, buffers are
smaller than messages, packets are lost and repeated, and resources are freed while requests
for them are under way.  A block is moved between queues by five different handlers;
`schedule_der` rebuilds all queues whenever a poll completes.  In the gateway a write may
fail half-way through a control, the process may be interrupted anywhere, and the C client
may exit with lines unread.  `PROJECT.json` lists the hazards at their lines.

Correctness, part by part: requests are written once and in order, responses belong to their
requests, a port is never left with work to do; a service is reported once it can be used;
nothing refers to a freed resource, and the tree is whole when it is used and catches up with
the server; what is read is what was written; status and queue of a block agree; a wake-up is set for the next
thing to happen; no control bit belongs to two blocks of the active queue; starts and ends pair up;
responses form a legal sequence; the default control is announced when nothing is in force;
the device holds the set points of what is in force and nothing else; the C client never
outlives the gateway.

## 2. Modules

| Module | Models |
|---|---|
| `EventQueue` | `event.c` and sorted insertion (`list.c`) as operators on a record with fields `im` and `cur`. |
| `EventStream` | Abstract specification of what the C client prints: a DERControl is started when it is not in force and ended when it is, and the default control is announced only when nothing is in force. |
| `DerSchedule` | `schedule.c`, `schedule_der`, `der_poll` and the part of `retrieve.c` that maintains the DERControlLists, with the server, the clock and the network as environment.  Implements `EventStream`. |
| `HttpClient` | `http.c`, `connection.c`, `se_receive` and the event loop for one connection, with the network and the server as environment. |
| `EventPoll` | `linux/event.c`, `linux/tcp.c`, `timer.c` and `queue.c`: the event loop with several connections. |
| `Discovery` | `dnssd_client.c`, `se_discover.c` and `client_poll`. |
| `Retrieve` | `retrieve.c` with the dependency functions of `client_test.c`: the tree of resources. |
| `Codec` | `output_doc` and `parse_doc` with their XML and EXI drivers, and the document between them. |
| `KeyMap` | Abstract specification of a hash table: a map from keys to data items that changes as each put and each delete says. |
| `HashTable` | `hash.c`.  Implements `KeyMap` under the conditions of run `hash`. |
| `Gateway` | `__main__.py`, `client.py`, `bridge.py`, with the C client as the environment `EventStream` describes. |
| `MCDerSchedule`, `MCGateway`, `MCHashTable`, `MCHttpClient`, `MCEventPoll`, `MCDiscovery`, `MCRetrieve`, `MCCodec` | instances for TLC |
| `DerSchedule_proofs`, `Gateway_proofs`, `GatewayControl_proofs`, `EventStream_proofs`, `HashTable_proofs`, `Discovery_proofs`, `HttpClient_proofs` | theorems |
| `FoldInduction` | induction over the elements a loop goes through, for any step and any assertion |

### DerSchedule

Because the client is single-threaded, a handler runs to its end before anything else
happens in it.  Every C function is an operator on a record `t` of the client's whole state
(`State`), composed exactly as the C functions call each other, and an action installs the
result of one handler (`Become`).  The operators
pass the record on from call to call (no intermediate state is named by a LET that is used
more than once), which keeps TLC's coverage statistics small.  The variables and the code:

* `blk[e]`: the `EventBlock` in `Schedule.blocks` (status, `der` mask as a set of control
  names, effective start and end); `scheduled`, `active`, `superseded`, `snext`: the fields of
  `Schedule`.
* `im`, `cur`: the event queue.  `RESOURCE_POLL` is not queued: a poll of a list may come at
  any time from `lst[p].next` on, a poll of an activated event at any time while it lasts.
  This covers every poll rate.
* `stub[e]`: the event's Stub (its last known EventStatus, `complete`, whether `event_update`
  is installed); `lst[p]`: the DERControlList Stub (`reqs`, `list`, `all`); `sent`: GETs not
  yet answered, oldest first (`status < 0`), answered in order over one connection; `pend`,
  `complete`: what `flags` and `complete` say up to the EndDevice.
* `resp[e]`: the responses posted for an event; every event is taken to require all of them.
* `starts`, `ends`, `dflt`: the lines printed, as in `EventStream`.

Environment: `SrvPublish`, `SrvActivate`, `SrvEnd` (canceled or superseded by the server),
`SrvWithdraw`, `ProgramWithdrawn`, `Tick`.  `Lead` lets the server activate early.  A 404 for
a single event is `EventNotFound`.

Abstractions: one EndDevice and one FunctionSetAssignments; lists fit one page; DERControl events only; interval, creation time and primacy of an
event do not change (`update_existing` ignores changes of a known event; the primacy of a
program may change in the code and does not here).

### Gateway

One action per line read and per register written, so that failures and interrupts fall
between any two writes.  `reg` is the device, `tracked` is `_active_registers`.  A failed
write may or may not have reached the device.  Two history variables name the exceptions the
code accepts: `orphan` (registers a default control made the bridge forget while they held a
set point, documented in `docs/sequence.md`) and `stuck` (last write reported as failed).
`Killed` is a crash: no context manager runs.

### HashTable

`bits[g]` and `slot[g]` are the bitmap and the array of sparse group `g` (`SparseGroup`); the
count in the upper six bits is the length of the array.  `hash_find` is the operators `Probe`,
`Passes`, `LastProbe`, `Position` and `Mark`: the first probe that meets the key or an unused
position, and the first position that could be used for an insertion.  Deleting leaves `Null`
in the slot and the bit set.  `hash` is chosen in `Init` from a set of functions.  `lost` is
set where the code writes through `NULL` or leaves the caller with a freed table
(`hash_resize`); nothing happens after it.  `op` is the last call that changed the table, with the
item put or the item returned; it is the interface by which `KeyMap` knows what was asked for, so that
a put which loses its item, or a delete which keeps it, is no step of the map.  Group size (58), table size (64 or 512) and key
set are parameters.  The arithmetic of `bit_rank` is modelled by what it computes.

`DerSchedule` takes `Schedule.blocks` for the map that `KeyMap` describes, which run `hash`
delimits: fewer than 25 blocks, no key put where another was deleted.

### HttpClient

Every read and write of the socket is a step of its own, because the server and the network go
on meanwhile; `pc` says where the client is (in `event_poll`, `http_flush`, `http_receive` or
the loop of `se_receive`).  `conn` is the port (type, status, `end`, `wait`, membership of
`_active`, a pending edge of epoll) with its TLS state; `send` and `request` are the queues of
`HttpConnection`; `buf`, `data`, `http` its buffer, place and message state.  One line of a
header or one token of a document is one unit of data, and the buffer holds `BufferSize` of
them, so that a line never is cut but a message is, anywhere.  The server takes requests in the
order of `wire` and gives each one of `Shapes`; `Send` moves any number of units to the client,
`Close` ends the stream at any moment (`CloseAnywhere`), `Drain` empties a socket that is full.
`parsed` abstracts the parser: it takes the tokens of a document in order and is finished with
its last one; how it does so is `Codec`.

A unit says in `r` and `i` which unit of which response it is; no action of the client reads these,
they are there for `Matched` and for the proof.  `LengthAssumption` says that a server which gives a
length gives the length of its document: with any other the client takes the next response to begin
elsewhere, and so would every HTTP client.  A response is `Bodiless` when its headers say so
(a 1xx, 204 or 304 status, or a length of 0), whatever the server sends behind them; `Matched` expects
one entry without tokens of a document for it.

### EventPoll

`HttpClient` has one connection and says in `conn` whether its port is in `_active` and has a
timeout; `EventPoll` has several and the links.  `port[p]` is the `PollEvent` and `TcpPort`
(`next`, `prev`, `type`, `status`, `end`, `wait`, `timeout`), `active` and `wait` are the two
queues that share the links, `batch` is what is left of `events`, `last` the static `prev` of
`event_poll`.  `QueueAdd`, `QueueRemove` and `QueueInsert` change links exactly as `queue.c` and
`list.c` do; `"loop"` is a list that is followed for ever.  The kernel: `edge[p]` says that epoll
has something to report, `EpollWait` takes up to `MaxEvents` of the reports in any order.  A socket
that is connected is always writable; an edge that only says so again (`Drain` of `HttpClient`) is
left out.  The handler of a port (`process_http`) reads as often as it likes, but at least once
unless its last read got data; it may wait for the rest of a response, close, or connect another
port.  TCP_TIMEOUT and TCP_CLOSED end the program, as in `main`.  The field `kept` of a port is
history: `clear_timeout` has left the port in `_tcp_wait`.

### Discovery

A packet is a record with its answers and additional records; a resource record has a type, a
name, a target and a flag for the checks on its data.  Any packet whose question has been asked
may arrive at any time, any number of times, or never: this is loss, repetition and reordering.
`Followup` runs after the packets that were there, asks for what is missing and marks services
complete; `ServiceNext` is the part of `client_poll` that reports them one by one.

### Retrieve

The resource database is a function from paths to Stubs with the fields of the struct; lists
are sets, a resource's bit is its name.  As in `DerSchedule`, the functions of the code are
operators on a record of the whole state.  The tree (who links to whom, which lists are polled
and by whom) is a parameter.  `Change` is the server adding or withdrawing a member, `Refused`
an error answer, `Ignored` an answer `process_response` does nothing with (204, a body that cannot be
parsed, another resource than was asked for); it leaves `status` at -1 for good, which the history
field `ignored` of the Stub remembers.  `Closed` is the loss of the connection, after which `cleanup_http` removes what
was asked for and the program ends.  `called` records what the completion routine of the root
(`schedule_der`) found below it.  `DerSchedule` has the same handlers for one list of events
together with what they do to the schedule; `Retrieve` has the whole tree, paging, links and
removal, without the schedule.

Which resources `get_resource` asks for again depends on their age, and the model keeps what of time
decides it.  `client_test.c` polls the list of programs (`Polled`) every 900 s or at the rate the server
gives, and the lists of events below it (`LinkPolled`) every 300 s; the model takes it that the server's
rate is no shorter, so that each of the latter is polled at least once in a period of the former (`Due`,
`served`).  A resource that is
not polled itself has the poll rate of the list above it, and the comparison is strict (retrieve.c:287):
at the next poll of that list it is about as old as its poll rate and may be fresh or old, as the
answers were quicker or slower, and in the period after that it is old (`age`, `Old`).  `LinkPolled` lists
are polled on their own and may be either at any time.

### Codec

`out` and `in` are the `Output` and the `Parser`; their states are those of the two switch
statements, and each step of the writer is one round of its loop.  A schema is a parameter: for
each type the sequence of its attributes and elements with `min`, `max`, `unbounded` and the
number `n` of events, as in the generated tables.  XML is a sequence of pieces (an open tag, an
attribute, the end of a tag, text ...), EXI a sequence of bits and values; numbers and
characters are not taken apart.  `OutputForeign` puts an element of another schema before an element
or behind the last one, which a server with extensions may do, and with `Between` also between two
occurrences of a repeated element.  A state the parser's loop has no case for (`xml_sequence` increments
it after a tag it has refused) is `BEYOND`; the parser stays in it.  `Arrive` gives the reader the next segment,
which ends at any piece.  There is no type invariant: a bit too many or an event code that does not
start from 0 makes the rest of the document unreadable, which `Parsed` finds.

## 3. Runs

| Run | Bounds | Shows |
|---|---|---|
| `gateway` | 3 events (one with a malformed line; two fields share a register; a boolean field), one default control, 5 lines, one event in force at a time | all gateway properties |
| `gateway_overlap` | 2 events in force together on different registers | violation, see below |
| `der_overlap` | 2 programs, 1 event each, overlapping by a second and in one of their two controls each, durations randomized by 0 or 1 s, a server one second ahead, second event published at any time, first program withdrawn at any quiet moment; 6 s | wake-up and mask invariants; what is over or in force does not go back; refinement of `EventStream` |
| `der_change` | 1 program, 2 overlapping events; the server may cancel or supersede the first at any time, also late, and withdraw it once it is over; 5 s | queues, pairing of starts and ends, legal responses; every started event ends, the default control follows |
| `der_reinsert` | 2 programs, 1 event each, same control | violation, see below |
| `hash` | 4 keys (symmetric), 2 versions of an item, 4 positions in groups of 3, every hash function onto three positions; growing and shrinking included | every put and delete changes the map as it says, iteration is exact, lookups stay inside; no key is put where another was deleted |
| `http` | 2 requests, plain or TLS with one flight of the handshake, a buffer of 5 units and messages of up to 6, seven shapes of responses | requests in order, responses matched and whole, every request answered |
| `poll` | 2 connections, both `Slow`; 2 units of data, 2 timeouts, batches of 2; connecting at once, later, never, or failing at once | no edge is lost, data is read; no waiting port is lost, the timer expires in time, no list is followed for ever |
| `discovery` | 2 queries, 2 services, 2 hosts, 10 packets | services are reported once, usable, and all of them |
| `retrieve` | a device, 2 lists, 3 linked resources, 2 events; pages of one item; 4 changes, refusals or answers of no use; resources fresh or old at a poll | no dangling reference, whole tree, no list deaf to polls, convergence |
| `codec` | 3 types, 4 objects, 2 formats, 1 foreign element before an element or behind the last, up to 3 segments cut anywhere | reading gives back what was written, to the end |
| `codec_mixed` | a list of two, the second without `href` | violation, see below |

The bounds.  The clock runs to `Horizon`, past the end of every event, and is set back once
(`MaxAdjust`; not in `der_overlap`, whose server is ahead); at the horizon it stands still while
polls and answers go on.  Two events are enough for every pair-wise rule of the scheduler; what
only three can show is among the further configurations.  `MaxLines` lets a start, an end, a default
control and another start and end happen in one run.  In `poll` two units let one port have
data left while the other is served, and two timeouts let both ports wait together and be
taken out in either order, or one of them wait twice; `MCEventPollWaits.cfg` goes on to eight timeouts.  In `http` two requests are needed to mix up responses or to leave one in the buffer behind the other, the buffer is smaller than the
largest response, and the shapes cover every branch of the framing (length, no body, closed,
delimited by the end, malformed).  The packets of `discovery` include every record on its own,
garbled ones, an answer to a question nobody asked and an answer with two records.  In
`retrieve` a page is smaller than a list, a list is linked from a member of another, and the
changes are enough to withdraw both members, to add one again and to refuse one.  The objects
of `codec` have each optional part present and absent, first, in the middle and last, repeated
elements below and at their maximum, and strings that hit the local and the global table.

`SrvWithdraw` under `Withdraw = "finished"` assumes a server that withdraws an event only
after it is over at the client and while the client is not just retrieving its list.
`Overlap`, `Midway` and `Empties` of `Retrieve` are FALSE in the run: a poll comes due only
between retrievals, the server changes lists only then, and no list becomes empty.  `Whole` of
`Codec` is TRUE: a foreign element is not cut by a segment, and EXI arrives in one; `Between` is
FALSE, and the objects of the run leave out lists of members with different attributes.  Without
these conditions the properties fail; the further configurations and the observations below say how.
`Pollable` and `Converges` excuse a Stub that was given an answer of no use (`MCRetrieveIgnored.cfg`).
`WaitListed` excuses two states (`Broken`): `clear_timeout` has left a port in the list
(`MCEventPollStale.cfg`), or a port waits that `next_line` has just found closed, which is in `_active` too and
has one link for both.  `Served` excuses the end of the program only.

### What the violation runs show

* `gateway_overlap`: the scheduler lets two DERControls with different controls be active
  together, but the bridge keeps one table of written registers, so the `end` of either
  clears both, and the remaining one is not written again.
* `der_reinsert`: event 1 is active; event 2 of a better program, with the same control, has
  become active at the server meanwhile.  At the next poll `schedule_der` inserts 2 first,
  then 1, which has no control left, is marked superseded and never ends for the gateway.
* `codec_mixed`: `xml_tag` clears the attributes of the tag before only if white space follows
  the name, so the second list member, written as `<Curve>`, is read with the `href` of the
  first; `list_object` then takes both for one resource.

### Further configurations

These are not among the runs of `PROJECT.json`.  All but the first end with a violation; each shows what
the code does outside the conditions of a run, and the hazards name them.

* `MCEventPollWaits.cfg` (`MCEventPoll`): two ports that both may wait, two units of data and eight
  timeouts, as many as these connections come to set: more give no further states.  `WaitListed` holds.
* `MCCodecBetween.cfg` (`RoundTrip`): for `xml_sequence` a tag it does not know ends the list.  The element is skipped,
  the next member of the same list begins another, and `add_element` stores it in the place of the
  first: the members before the foreign element are lost.  `RoundTrip` holds of foreign elements
  between different elements only.
* `MCDerDropped.cfg` (`QueuesAgree`): `insert_active` never advances `prev` (schedule.c:256), so that superseding the second
  of two active blocks drops the first from the active queue.  It stays `Active`, its event is in
  force at the gateway, and until the next `schedule_der` it neither expires nor meets a block that
  takes its control.  `ControlsDisjoint` says nothing of it, because it speaks of the queue.
* `MCHashReuse.cfg` (`IsMap`): `hash_find` marks the position of a deleted item, and `sg_insert` moves the items behind
  it although its bit was set (hash.c:243); `hash_get` misses what lies there.
* `MCRetrieveFresh.cfg` (`BitsCleared`): at the second poll of the programs the default control is as old as its poll rate
  and not older, so `get_resource` does not ask for it, but `new_dep` has set its bit in the program
  (retrieve.c:157).  Nothing clears the bit, and the tree is incomplete until the poll after that,
  when the resource is old.  `Converges` holds, as it asks for completeness again and again; of
  two polls one may not get there.
* `MCRetrieveEmpty.cfg` (`Pollable`): a list that was empty keeps its offset (retrieve.c:265), asks for a page behind the
  end when it has members again, and is never retrieved again.
* `MCRetrieveIgnored.cfg` (`UpdateAwaited`): an answer with no object, or another's, changes nothing, so the Stub keeps -1
  as if it were being updated, and `update_resource` passes it over for good.
* `MCEventPollRace.cfg` (`TimeoutHasPort`): the timer expires while a connection is made and is reported with it.  The socket may be
  served first, which clears the timeout and empties the list; the event of the timer, in the batch
  already, makes `event_poll` return TCP_TIMEOUT with a null pointer (linux/event.c:63), which `main`
  hands to `cleanup_http`.
* `MCEventPollStale.cfg` (`TimeoutWaits`): of two waiting ports the first is cleared and leaves the head of the list; the second
  still has it as `prev`.  Clearing the second changes the link of a port that is in the list no
  longer and leaves the second there (linux/tcp.c:98): it is reported as timed out although it was
  answered.

### Fairness

`FairSpec` of `DerSchedule` assumes that the client keeps running (`der_poll` is called in an
endless loop), that its timer fires, that requests are answered (a connection that closes ends
the program instead), that lists are polled and that time passes; nothing of the server.  It
is weak fairness with the enabling condition of each step written out, because evaluating
ENABLED of whole handlers is too expensive for TLC.  `FairSpec` of `Gateway` assumes only that
`main` takes its next step; nothing of the C client, the device or the operator.  `FairSpec` of
`HttpClient` assumes that the client goes on while it has something to do, that a full socket
drains and that a server answers what it received; not that the connection is ever accepted or
kept, nor that a timeout comes (`Answered` excuses these).  `FairSpec` of `EventPoll` assumes that
`main` goes on, and that a port which is handled again and again is read again and again (strong
fairness: a handler that does not read uses up a response in a finite buffer); nothing of the network
and nothing of time.  `FairSpec` of `Discovery` assumes
strong fairness of every packet that would tell the client something new: responders repeat
themselves, and a packet is not lost for ever.  `FairSpec` of `Retrieve` assumes that events are
served, requests answered with what was asked for (answers of no use and refusals are bounded by
`MaxChange`), and armed polls come due, each in its turn (`Due`).  `FairSpec` of `Codec` is progress of three
loops.

### Mutants

`PROJECT.json` pairs every property of every passing run with a mutated definition that
breaks it; the mutated forms stand in the modules before the definitions they mutate.

## 4. Proofs

`DerSchedule_proofs` proves, for any finite sets of events and programs, any intervals, primacies,
controls and random offsets, whatever the server publishes, activates, cancels and withdraws, and
at any time:

* `ControlsApart`: `Spec => []ControlsDisjoint`, no control belongs to two blocks of the active queue.
  (Blocks that `insert_active` dropped from it are outside the claim, see `MCDerDropped.cfg`.)
* `BlocksGoForward`: `Spec => StatusForward`, an action property.

The inductive invariant is `Inv`: the client's state is `Good` for what the server says.  `Good` has
five parts.

* `Shape`: the state is of the form the handlers expect.
* `Exclusive`: no two blocks in the active queue share a control.
* `Told`: what the client was told of an event agrees with its block.  A block is `Active` only once
  the server has activated the event, and then its Stub does not say `Scheduled`; a Stub calls
  `event_update` (`completion`) only while the event has a block.  `StatusForward` needs this:
  `insert_active` decides by the EventStatus of the Stub whether the block is activated or waits
  (`ActiveWait`), so a block in force would go back to waiting if an earlier status could still be there.
* `Own`: a list requires the events of its program only, so that `schedule_der`, which goes through
  the lists, meets each event once.
* `Orderly`: a block waits in the scheduled queue once and in no other queue, and has not begun.
  `insert_block` gives a block controls and marks it `Scheduled`; `Orderly` and the empty queues are
  why this is never a block in force, or one that is over.

TLC finds `Told`, `Own` and `Orderly` to hold in the instances of `der_overlap`, `der_change` and
`der_reinsert` too.  `Exclusive` does not need that starts and ends are paired: `insert_active` may drop
blocks from its queue, and both theorems hold where `QueuesAgree` and `EndGenerated` fail.

Each handler is shown to keep `Good` and to undo no status (`Advances`), by what it may change:
`Quiet` (no block, no status of an event), `Shrunk` (nothing becomes active, queues only lose blocks, a
block may end), `Scheduling` (one event that is in no queue gets into one).  `Orderly` is given up
between two steps of a handler and restored at its end: `update_schedule` begins the due blocks
before it cuts them off the scheduled queue (`BeginHold`), and `schedule_der` aborts blocks that are
still queued and then empties the queues, after which `Good` holds again whatever they held.  Two
handlers need more.

* `insert_active` gives the new block all controls of its event and then meets the active blocks
  one by one.  That they end apart is an induction over its rounds (`ActiveHolds`): blocks only give
  controls up, and those met so far share none with the new one unless it has lost and has none.
  Each supersession drops the blocks before the superseded one from the queue; this takes nothing
  from the claim, which is about the queue.  (A block dropped this way keeps its status and may
  still be in force at the gateway: that is `MCDerDropped.cfg`, and what `QueuesAgree` is about.)
* `insert_block` may move any block of the scheduled queue to the superseded one while it looks for
  a place (`ScheduledHolds`), or give up and leave the new block there; the others keep their status
  (`Placed`).

`InvNext` puts them together: every action of `Next` keeps `Inv` and is a step of `ForwardStep`, the
action of `StatusForward`.  Only `remove_stub` takes a block away (`FreeGood`), which
`StatusForward` allows.

Every loop of the scheduler is a fold over a sequence.  `FoldInduction` proves the induction rule
for such loops once, for an arbitrary step and assertion, from the recursion that defines
`FoldLeft`; `DerSchedule_proofs` instantiates it for each of its loops (`ActiveLoop`,
`ScheduledLoop`, `ControlsLoop`, `ProgramsLoop`, `AbortLoop`, `BeginLoop`, ...).  That the order of
a list is a sequence of its members (`ListingType`) needs that ranks in a total order of a finite
set are distinct, a use of the pigeonhole principle.  Assumption: `DerAssumption`, which types the
events and programs; mRIDs, times and primacies are naturals.

`Gateway_proofs` proves, for every set of events, every control and any number of lines:

* `TypeCorrect`: `Spec => []TypeOK`;
* `NoSetpointLost`: `Spec => []SetpointsAccounted`;
* `EndReleasesAll`: `Spec => EndReleases`, an action property;
* `NoChildLeft`: `Spec => []ChildStopped`.

They rest on one inductive invariant, `IInv`.  `SetpointsAccounted` alone is not inductive:
`_relinquish` drops all tracking at its end, so one has to know how far its loop has come
(`RelinquishInv`: a register that still holds a set point is still ahead, forgotten or
failed).  `TypeOK` needs that the fields still to write belong to the control being applied
(`ApplyInv`).  `ChildStopped` needs where the subprocess may be running (`ChildInv`).  The
step lemma is split by component: `ClientInv`, `MainInv`, `DispatchInv`, `BridgeInv`.  The
only assumption is `ControlAssumption`: controls have known fields with integer or boolean
values.

`GatewayControl_proofs` connects what the server has in force with the registers, through the
pipe in between, again for every set of events and any number of lines:

* `Released`: `Spec => []ReleasedWhenIdle`, whatever number of events is in force together;
* `InForce`: `Spec => []ControlInForce` under `MaxOpen = 1`.  The condition is needed: run
  `gateway_overlap` is the counterexample for two events at a time.

Both properties speak of a moment at which all lines are read, so an inductive invariant has to
say what the lines that are not read yet will do.  `LiveIn(q, o, e, k)` says whether event `e` is
in force for a reader of the first `k` lines; `LineOK` that its event is live
after a start and not after an end, and that none is live at a default control, which is what
`EventStream` promises, carried through the pipe.  `FreshInv`, `ProgressInv` and `ApplyingInv`
say how far the bridge has come with the line it is handling.  On this base (`BaseInv`)
`ReleaseInv` says that a register that holds a set point holds that of a default, or is still
ahead of the step being done, or is tracked while some event is live at the head of the pipe; `OneInv` that at most one event is
live at any place of the pipe; `ForceInv` that the control of the live event is being applied,
or its registers hold its values.

`EventStream_proofs` proves `StreamPaired`: in every behaviour of the abstract stream starts
and ends alternate and the default control stands alone.  Together with the refinement
checked by TLC this is what the gateway may assume.

`HashTable_proofs` has two parts.  The first proves `NoReadOutside`: `Spec => []LookupInside`, for every hash function,
size, group size and sequence of operations, also those after which lookups fail (reuse of a
deleted position).  The inductive invariant is `RoomInv`, an array is at least as long as its
bitmap has bits; it is an inequality because reuse of a deleted position lengthens the array
only.  The step for `hash_put` needs that the place of insertion is a number, for which the
least probe is shown to exist (`FirstProbe`, from the well-foundedness of the naturals), and
that a rank is at most the number of bits (`RankBound`).  Assumption: `HashAssumption`
(positive sizes, hash values are naturals).

The second proves, for every hash function and size, as long as no key is put where
another was deleted (`Reuse = FALSE`; with reuse TLC finds the table wrong under
`MCHashReuse.cfg`):

* `TypeCorrect`: `Spec => []TypeOK`;
* `Refinement`: `Spec => IsMap`, the table implements `KeyMap`: each step is a `Put` of the item given, a
  `Delete` that returns what `hash_get` found, or changes nothing that can be looked up;
* `IterationVisitsAll`: `Spec => []IterateExact`, `foreach_h` meets every item once.

`TableInv` has three parts beyond the exact arrays.  `ReachInv`: on the way from the hash of a
key to the position of its item every position is used, so that a search does not stop short.
`UniqueInv`: no two live positions hold items of one key, so that it does not stop at the wrong
one.  `CountInv`: `items` is the number of live positions, which bounds it.  What `hash_get`
finds is a consequence (`LookupExact`), and each step of the table is described by one relation,
`Sets(key, i, x)` (position `i` now holds `x` and every other what it held), from which the step
of the map follows: `SetsGet` says what a lookup finds afterwards, `SetsMap` that this is the map with
the one key changed to `x`, which the actions equate with the item that `op` records.

`IterateExact` needs more: `CoverInv`, every element of an array belongs to a position in use.
Reuse would break it, since `sg_insert` at a position whose item was deleted adds an element and
no bit.  The iteration is two nested folds, over the groups and over the elements of a group, and
`FoldInduction` is used for each, with the assertion `Seen`: what was seen are the items at the
places passed (`VisitSees`, `GroupSees`, `IterateSees`).  The places that hold an item and the live
positions are in bijection, by `CoverInv` and by the order of ranks (`PlacesLive`), and so are the
live positions and the keys that are found (`LiveItems`, `LiveKeys`).

`Discovery_proofs` proves `TypeCorrect` (`TypeOK`) and `ReportedUsable` (`FoundUsable`) for every
set of packets, in whatever order and however often they arrive.  `FoundUsable` is not inductive:
that a service stays usable needs that no packet takes away what an earlier one told (`Grows`,
shown for each kind of resource record and for whole packets), and that one marked `complete` is
usable when it is reported (`CompleteInv`); that it is reported once needs that the list of
services holds each of them once (`DnsOK`).  `PacketAssumption` types the packets; a packet that
makes `dnssd_followup` read through NULL ends the behaviour.

`HttpClient_proofs` proves, for every buffer size, number of requests, server, and way of cutting
the data:

* `TypeCorrect`: `Spec => []TypeOK`, in particular the buffer holds less than `BufferSize`;
* `InOrder`: `Spec => []WrittenInOrder`;
* `ResponsesMatched`: `Spec => []Matched`, and `ResponsesInOrder`: `Spec => []OnceInOrder`.

`BufInv` bounds the buffer and the place in it; a read asks for what is free, which is positive
because `parse` leaves room (`ParseBuf`).  `SizeInv` types requests and queues.  For the order,
`Whole` says that the queue of messages to be sent continues what is on the wire, so that both
together are the requests made.  It is given up in one case only: `http_close` empties the queue.
That nothing is written after that, which would leave a gap, is the difficult part: `OrderInv`
adds that a closed `HttpConnection` has a connection over which nothing can be sent any more
(`Dead`: a TLS session that is shut down or a closed port), or the program is at its exit, and
`ConnInv` that no step of the network, the TLS layer or the event loop brings a dead connection
back (`Follows`).

`Matched` and `OnceInOrder` say nothing of data the client has not read yet, which is what decides
whether the next response will be taken apart correctly.  `FlowInv` therefore speaks of `Stream`: what
is in the buffer, at the socket and still to be sent is one sequence of units, the responses one behind
the other up to the last (`StreamOK`), and every step but `Answer`, `Complete` and the parser's
leaves it as it is (`FlowStays`), however the network cuts it.  `PlaceInv` says where the client is
in it, state by state: between two responses (`StartInv`, what lies behind the last one may only
be its trailing empty lines), in the headers of response `Begun`, with `http.length` and `http.end`
what the lines so far say (`HeaderInv`), in its document, where either the stream ends the message
or `http.end` is exactly the end of the document (`DataInv`), or behind it (`CompleteInv`, about the
data `http_receive` will drop).  `RequestInv` says that the queue of contexts holds those of the requests
not yet answered, `LogInv` that every entry is an answer and that the last is the response before.
That tokens of two documents are never taken as one needs no look at `http.end`: between them lies
at least one line (`TokensOwn`).  Conversely a document that is whole in the buffer is
returned before the buffer is dropped up to `http.end` (`DocPlace`, `FlowParse`).  The lemmas go action
by action (`FlowStatus`, `FlowHeader`, `FlowHeadersEnd`, `FlowComplete`, `FlowParse`, `FlowAnswer`).

Two assumptions on the constants: `HttpAssumption` types the shapes of responses and says that the
header of a response fits the buffer (a longer line makes the client wait for ever, see the
observations); `LengthAssumption` is described with the model.  Nothing is assumed of how often a server
closes, when, or with how much of a response sent.

Only model-checked:

* liveness (`StartsEnd`, `DefaultFollows`, `ExitFollows`, `Answered`, `Served`,
  `Reported`, `Converges`, `Parsed`), which is out of TLAPS's reach, and the refinement of
  `EventStream` by `DerSchedule`;
* `RoundTrip` of `Codec`: what a recursive definition computes over a document, that is,
  induction over data;
* the other invariants of `DerSchedule`: `QueuesAgree`, `EndGenerated`, `ResponsesLegal` and
  `WakeupPending` hold only within the conditions of their runs, as the observations show, and
  `TypeOK` depends on the bounds of the clock;
* `EventPoll`: its links are followed recursively, and its invariants hold within the bounds of their runs
  only (two ports, one connection attempt per port);
* `Retrieve`, whose recursion over the tree (`DepComplete`, `DepReset`) is out of the prover's
  reach.

## 5. Observations

What the models show of the code outside the runs, with the constants that show it.

Scheduler.
* `Withdraw = "any"` violates `EndGenerated`: `delete_blocks` (schedule.c:319) frees the block of
  an active event without an EVENT_END.
* The superseded queue is documented as sorted by start time (schedule.c:81) and `link_insert`
  puts blocks at its head (schedule.c:224), which delays the response for a block behind a later
  one.
* The clock that `event_update` sets back every second stands still as long as an event that
  should have started is `Scheduled` at the server, which delays the end of other events
  (`MaxAdjust` bounds this).  A cancellation learned after an event completed is answered once
  more.

Hash table.
* Positions of deleted items are never given back (hash.c:185): once every bit has been set the
  search for an absent key does not end.
* `hash_resize` inserts at the place `hash_find` marked in the new table, which it never
  searched: growing or shrinking writes through NULL (`lost`).

HTTP and connections.
* A server that closes in the middle of a body makes `se_receive` spin: `http_data` returns the
  same data again and again (se_connection.c:240, http.c:542).  `Answered` excuses `eof` for this
  reason; without the excuse it is violated.
* A body delimited by the end of the stream is parsed only if all of it is there at the first
  read, since `http_complete` compares with an `end` that lies before it.
* A response with `Connection: close` and a body may be returned twice, once before and once after
  `http_flush` has closed the connection (`OnceInOrder` allows it).
* A 1xx response uses up the request it precedes.  A short write of a TCP socket counts as
  complete (http.c:376, 385).  A line longer than the buffer makes `next_line` wait for ever.
  `se_send` cuts documents of more than 4096 bytes.  Before the first byte of a response there is
  no timeout.
* After what `MCEventPollStale.cfg` shows, the next `set_timeout` of the port that was left in the list links it
  to itself, and the next insertion of another port follows that link for ever (linux/tcp.c:87,
  `"loop"`).
* With three `Slow` ports `WaitListed` is violated, and its excuses do not apply: `clear_timeout` unlinks the last
  port through `prev` and leaves `last` of `_tcp_wait` at it (linux/tcp.c:98).  Later insertions
  move `last` along that port's link until it meets `first`, and the next removal of the head clears
  the queue with a port still in it (queue.c:67, 80), whose timeout never comes.
* A port that is closed while its response is incomplete is made to wait all the same (`next_line` calls
  `set_timeout` after the read that closed it), and is in `_active` and `_tcp_wait` with one link.
* `MaxConnects = 2` violates `TypeOK`: a port that was closed is in `_active`; when it is connected
  again before that is served, TCP_CONNECT is reported while the connection is in progress, and its
  status never becomes Connected (linux/event.c:21).
* `FailAtOnce`: for an attempt that fails at once `net_connect` sets no timeout and the error is not
  pending on the socket any more, so `bsd_connected` takes the port for connected.
* While `_active` is not empty epoll is not asked: a connection whose data never ends keeps the
  others and all timers waiting.  The data of the model ends.

Discovery.
* A PTR record without its SRV record makes `dnssd_followup` read the host through NULL
  (dnssd_client.c:325): a packet with the PTR record alone takes `Discovery` to `"fault"`.
* Only the first record of an answer section is processed (dnssd_client.c:279).  A query that is
  lost is not sent again.  An SRV record with another target keeps the old host.

Retrieval.
* An empty list completes without removing its old members (retrieve.c:370).
* `Overlap = TRUE` violates `NoDangling`: a Stub is freed while its request is under way, and the
  answer is matched with the freed context (retrieve.c:207, 379).
* `Midway = TRUE` violates `NoDangling`: when a list shrinks between two pages, the second page may
  be empty; `list_object` then calls `dep_complete` only if the whole list is empty
  (retrieve.c:369), so the list stays incomplete, with its old `list`. The next update overwrites
  that (retrieve.c:266) and its members keep the list among their `deps`, also after the list is
  removed. With more members gone, `count` becomes negative and the list stays marked as being
  updated (retrieve.c:341, 400).
* An update that begins while the last retrieval is incomplete overwrites `list`
  (retrieve.c:266), and what was in it is never removed.

Documents.
* `Whole = FALSE` violates `Parsed`: `xml_skip_unknown` (xml_parse.c:164) keeps its
  depth in a local variable and loses it when the input ends within the element, whereas parse.c:13
  says that the parser "can stop and resume parsing at any point in the document".
* EXI cannot resume within a simple value, whose first bit is consumed already, nor can the writer
  when its buffer is full.
* On a hit in the global string table the writer adds the string to the local one
  (exi_output.c:77) and the reader does not (exi_parse.c:124): the next occurrence of the string
  under that name cannot be read.

Gateway.
* `der_client.c:93` prints the description unescaped into JSON, so a quotation mark makes the
  gateway drop the line (`Garbled`).

## 6. Not modelled, and the plan

1. Redirects, POST and DELETE in `Retrieve`; `metering.c`, which uses them; subscriptions are not
   in the code.
2. `uri.c`, media ranges, the server side of `http.c`.
3. A composition of `DerSchedule` and `Gateway` over the pipe, and of `Retrieve` with the request
   queue of `HttpClient`.
4. Proofs: the conditions under which `QueuesAgree` holds for every number of events.

Left out for good: the character level of parsers and serializers (numbers, dates, UTF-8,
`xml_tree.c`, `pack.c`), generated code and generators (`se_types.h`, `se_types_doc.h` and
`se_schema.c` alone are nearly two thirds of the lines of the repository and hold tables and
declarations, no behaviour), configuration, logging, telemetry, the encodings of Modbus and DNP3,
cryptography.
