------------------------------ MODULE Retrieve ------------------------------
(***************************************************************************)
(* Retrieval of a tree of resources: retrieve.c with the dependency        *)
(* functions of client_test.c that build the tree and the branches of      *)
(* der_poll that serve its events.                                         *)
(*                                                                         *)
(* A Stub holds a resource.  The resources a Stub needs know it as one of  *)
(* their deps; once complete they appear among its reqs.  A list resource  *)
(* is complete when reqs holds `all` members, any other when each of the   *)
(* resources it links to has cleared its bit of flags.  An update keeps    *)
(* the requirements of the last retrieval in `list`, and those that do not *)
(* come back are removed when the resource is complete again.              *)
(*                                                                         *)
(* Stubs are named by their path (one connection), the bit a resource      *)
(* clears is its name, and the lists of the code are sets: the order of    *)
(* reqs matters to the readers of the tree and to nothing here.            *)
(***************************************************************************)
EXTENDS Integers, TLC, SequencesExt, FiniteSetsExt

CONSTANTS
    Root,       \* the EndDevice: held from the start, its completion routine is schedule_der
    Plain,      \* resources with links
    Lists,      \* list resources
    Items,      \* the members of a list that have no links (events)
    Links,      \* Links[r]: what the dependency function gets for resource r
    Order,      \* Order[l]: all resources that may be in list l, in the server's order
    Polled,     \* lists polled by their own dependency function (poll_derpl) ...
    LinkPolled, \* ... and by the one of the resource that links to them (der_program)
    PageMax,    \* the most items the server puts in one answer
    Ignorable,  \* resources whose answer may be of no use: 204, or not this resource
    Overlap,    \* TRUE when a poll may come due while answers are outstanding
    Midway,     \* TRUE when the server may change a list while requests are outstanding
    Empties,    \* TRUE when the server may withdraw the last member of a list
    Refusable,  \* resources the server may answer with an error
    MaxChange   \* bound on the changes at the server and on the answers that fail

Names == {Root} \union Plain \union Lists \union Items

ASSUME /\ Root \notin Plain /\ Lists \intersect (Plain \union Items \union {Root}) = {}
       /\ DOMAIN Links = Names /\ \A r \in Names : Links[r] \subseteq Names
       /\ DOMAIN Order = Lists /\ Polled \union LinkPolled \subseteq Lists
       /\ PageMax \in Nat \ {0} /\ Ignorable \subseteq Names

VARIABLES
    stub,       \* the resource database: the Stub of each name
    sent,       \* requests without an answer: GETs with their context and query
    im,         \* the immediate events of the queue
    armed,      \* stubs with a RESOURCE_POLL in the timed queue
    called,     \* what the last call of the Root's completion routine found
    members,    \* the server: the members of each list
    changes,    \* the server: changes and answers that failed so far
    age,        \* time: of a resource that is not polled itself, the polls of a Polled
                \* list since it was retrieved; 2 stands for any more
    served,     \* time: LinkPolled lists whose poll came since that of a Polled list
    closed      \* the connection was lost and the program has ended

vars == <<stub, sent, im, armed, called, members, changes, age, served, closed>>

Clock == <<age, served>>

(***************************************************************************)
(* Stubs.  The operations work on a record t of the client's state.        *)
(***************************************************************************)
NoStub == [live |-> FALSE, status |-> 0, got |-> FALSE, complete |-> FALSE,
           flags |-> {}, offset |-> 0, all |-> 0,
           list |-> {}, deps |-> {}, reqs |-> {},
           ignored |-> FALSE]  \* (history) the last answer was of no use

State == [stub |-> stub, sent |-> sent, im |-> im, armed |-> armed,
          called |-> called]

Become(next) == \E t \in {next} :
    /\ stub' = t.stub /\ sent' = t.sent /\ im' = t.im
    /\ armed' = t.armed /\ called' = t.called

InsertEvent(t, s, type) == [t EXCEPT !.im = Append(@, [data |-> s, type |-> type])]

GetStub(t, s) == IF t.stub[s].live THEN t
                 ELSE [t EXCEPT !.stub[s] = [NoStub EXCEPT !.live = TRUE]]

GetSeq(t, s, offset, count) ==
    [t EXCEPT !.sent = Append(@, [context |-> s, offset |-> offset, count |-> count])]

AddDep(t, r, d) == [t EXCEPT !.stub[d].deps = @ \union {r},
                             !.stub[r].complete = FALSE]

\* remove_req, remove_reqs
RemoveReqs(t, s, reqs) ==
    LET remove(r, u) ==
          LET v == [u EXCEPT !.stub[r].deps = @ \ {s}]
          IN  IF v.stub[r].deps = {} THEN InsertEvent(v, r, "RESOURCE_REMOVE") ELSE v
    IN  FoldSet(remove, t, reqs)

RemoveDeps(t, s) ==
    LET unlink(d, u) == IF u.stub[d].status < 0
                        THEN [u EXCEPT !.stub[d].list = @ \ {s}]
                        ELSE [u EXCEPT !.stub[d].reqs = @ \ {s}]
    IN  FoldSet(unlink, t, t.stub[s].deps)

\* Mutant: its dependents and requirements are not told.
RemoveStubEvents(t, s) ==
    [t EXCEPT !.stub[s] = NoStub, !.armed = @ \ {s},
              !.im = SelectSeq(@, LAMBDA ev : ev.data # s)]

\* delete_reqs, remove_deps, remove_event and free_resource
RemoveStub(t, s) ==
    LET u == RemoveReqs(RemoveReqs(t, s, t.stub[s].reqs), s, t.stub[s].list)
        other(ev) == ev.data # s
    IN  [RemoveDeps(u, s) EXCEPT !.im = SelectSeq(@, other),
                                 !.armed = @ \ {s},
                                 !.stub[s] = NoStub]

(***************************************************************************)
(* Completion and its reset climb from a resource to its dependents.       *)
(***************************************************************************)
\* what schedule_der reaches from the Root through reqs
RECURSIVE Below(_, _)
Below(t, S) == LET n == S \union UNION {t.stub[s].reqs : s \in S}
               IN  IF n = S THEN S ELSE Below(t, n)

\* the call of the completion routine
Completion(t, s) ==
    IF s = Root /\ ~t.stub[s].complete
    THEN [t EXCEPT !.called =
            LET below == Below(t, {Root}) \ {Root}
            IN  [missing |-> {d \in below : ~t.stub[d].live \/ ~t.stub[d].complete}
                             \union UNION {Links[r] \ t.stub[r].reqs :
                                            r \in (below \union {Root}) \ Lists},
                 short |-> {l \in below \intersect Lists :
                               Cardinality(t.stub[l].reqs) # t.stub[l].all}]]
    ELSE t

\* Mutant: a list is complete with the first member that is.
RequirementsMetAny(d) == IF d.list THEN d.reqs # {} ELSE d.flags = {}

RequirementsMet(d) == IF d.list THEN Cardinality(d.reqs) = d.all ELSE d.flags = {}

RECURSIVE DepComplete(_, _)
DepComplete(t, s) ==
    LET up(d, u) ==
          LET v == [u EXCEPT !.stub[d].reqs = @ \union {s},
                             !.stub[d].flags = IF d \in Lists THEN @ ELSE @ \ {s}]
              x == v.stub[d]
              old == x.list \ x.reqs
          IN  IF RequirementsMet([list |-> d \in Lists, reqs |-> x.reqs,
                                  all |-> x.all, flags |-> x.flags])
              THEN DepComplete(RemoveReqs([v EXCEPT !.stub[d].list = {}], d, old), d)
              ELSE v
    IN  FoldSet(up, [Completion(t, s) EXCEPT !.stub[s].complete = TRUE],
                t.stub[s].deps)

RECURSIVE DepReset(_, _)
DepReset(t, s) ==
    LET up(d, u) ==
          DepReset(IF d \in Lists THEN [u EXCEPT !.stub[d].reqs = @ \ {s}]
                                  ELSE [u EXCEPT !.stub[d].flags = @ \union {s}], d)
    IN  FoldSet(up, [t EXCEPT !.stub[s].complete = FALSE], t.stub[s].deps)

\* Mutant: the offset of the last retrieval is kept.
UpdateResourceOn(t, s) ==
    IF t.stub[s].status < 0 THEN t
    ELSE GetSeq(DepReset([t EXCEPT !.stub[s].list = t.stub[s].reqs, !.stub[s].reqs = {},
                                   !.stub[s].status = -1], s), s, 0, t.stub[s].all)

UpdateResource(t, s) ==
    LET x == t.stub[s]
        u == [t EXCEPT !.stub[s].offset = IF x.all # 0 THEN 0 ELSE @,
                       !.stub[s].list = x.reqs, !.stub[s].reqs = {}]
        v == IF x.status # 0 /\ s \notin Items
             THEN DepReset(u, s)
             ELSE [u EXCEPT !.stub[s].complete = FALSE]
    IN  IF x.status < 0 THEN t
        ELSE GetSeq([v EXCEPT !.stub[s].status = -1], s, 0, x.all)

\* Mutant: a poll is not armed.
PollResourceNot(t, s) == t

\* poll_resource
PollResource(t, s) == [t EXCEPT !.armed = @ \union {s}]

(***************************************************************************)
(* Getting subordinate resources.                                          *)
(***************************************************************************)
\* What get_resource may find older than its poll rate: a poll rate is that of the
\* list above (add_dep), so that a resource is fresh within the period in which it was
\* retrieved, either in the next, as the answers were quicker or slower, and old from
\* then on.  A LinkPolled list has a poll rate of its own and may be either.
Old == {{d \in DOMAIN age : age[d] = 2} \union S :
          S \in SUBSET ({d \in DOMAIN age : age[d] = 1} \union LinkPolled)}

\* get_resource: old is what it finds older than its poll rate.
GetResource(t, s, count, old) ==
    LET u == GetStub(t, s)
    IN  IF ~u.stub[s].got \/ s \in old
        THEN UpdateResource([u EXCEPT !.stub[s].all = count], s)
        ELSE u

\* get_dep, get_list_dep: a link to a list holds the number of its members.
GetDep(t, r, d, old) ==
    LET count == IF d \in Lists THEN Cardinality(members[d]) ELSE 0
    IN  [AddDep(GetResource(t, d, count, old), r, d)
           EXCEPT !.stub[r].flags = @ \union {d}]

\* the dependency function: test_dep with der_program, fsa and poll_derpl
Dep(t, s, old) ==
    LET get(d, u) == LET v == GetDep(u, s, d, old)
                     IN  IF d \in LinkPolled THEN PollResource(v, d) ELSE v
    IN  IF s \in Polled THEN PollResource(t, s) ELSE FoldSet(get, t, Links[s])

UpdateExisting(t, s, old) ==
    LET u == Dep(t, s, old)
    IN  IF u.stub[s].flags = {} THEN DepComplete(u, s) ELSE u

\* the server: what it answers to a GET of a list
Page(l, offset, count) ==
    LET present == SelectSeq(Order[l], LAMBDA r : r \in members[l])
        limit == IF count = 0 THEN 1 ELSE IF count < PageMax THEN count ELSE PageMax
        last == IF offset + limit < Len(present) THEN offset + limit ELSE Len(present)
    IN  SubSeq(present, offset + 1, last)

\* Mutant: off by one.
ListSeqLess(x) == x.all - x.offset - 1

\* list_seq: the number of items that are still to come
ListSeq(x) == x.all - x.offset

ListObject(t, l, items, old) ==
    LET v == [t EXCEPT !.stub[l].all = Cardinality(members[l]),
                       !.stub[l].offset = @ + Len(items)]
        item(u, d) == UpdateExisting(AddDep(GetStub(u, d), l, d), d, old)
        w == FoldLeft(item, Dep(v, l, old), items)
        count == ListSeq(v.stub[l])
        x == IF count > 0 THEN GetSeq(w, l, w.stub[l].offset, count)
             ELSE IF w.stub[l].all = 0 THEN DepComplete(w, l) ELSE w
    IN  IF count = 0 THEN [x EXCEPT !.stub[l].status = 200] ELSE x

(***************************************************************************)
(* The steps of the program.                                               *)
(***************************************************************************)
Init ==
    /\ members \in [Lists -> SUBSET UNION {ToSet(Order[l]) : l \in Lists}]
    /\ \A l \in Lists : members[l] \subseteq ToSet(Order[l])
    /\ LET held == [live |-> TRUE, got |-> TRUE] @@ NoStub
           t == [stub |-> [s \in Names |-> IF s = Root THEN held ELSE NoStub],
                 sent |-> <<>>, im |-> <<>>, armed |-> {},
                 called |-> [missing |-> {}, short |-> {}]]
           u == FoldSet(LAMBDA d, v : GetDep(v, Root, d, {}), t, Links[Root])
       IN  /\ stub = u.stub /\ sent = u.sent /\ im = u.im /\ armed = u.armed
           /\ called = u.called
    /\ age = [d \in UNION {Links[r] : r \in Names} \ (Polled \union LinkPolled) |-> 0]
    /\ changes = 0 /\ served = {} /\ closed = FALSE

\* der_poll serves the immediate events before it waits for the network.
Serve ==
    /\ ~closed /\ im # <<>>
    /\ Become(RemoveStub([State EXCEPT !.im = Tail(@)], Head(im).data))
    /\ UNCHANGED <<members, changes, Clock, closed>>

Receiving == ~closed /\ im = <<>> /\ sent # <<>>

Context == Head(sent).context

Answered == [State EXCEPT !.sent = Tail(@)]

\* process_http, 200: process_response, when match_request finds the object to be the
\* resource that was asked for
Retrieved ==
    /\ Receiving /\ stub[Context].live
    /\ \E old \in Old :
         LET t == [Answered EXCEPT !.stub[Context].got = TRUE]
         IN  Become(IF Context \in Lists
                    THEN ListObject(t, Context,
                                    Page(Context, Head(sent).offset, Head(sent).count), old)
                    ELSE [UpdateExisting(t, Context, old)
                            EXCEPT !.stub[Context].status = 200])
    /\ age' = [d \in DOMAIN age |-> IF d = Context THEN 0 ELSE age[d]]
    /\ UNCHANGED <<members, changes, served, closed>>

\* ... when there is no object (204, or a body that cannot be parsed) or match_request
\* refuses it: nothing is done, and status stays what it was.
Ignored ==
    /\ Receiving /\ Context \in Ignorable /\ changes < MaxChange
    /\ Become(IF stub[Context].live
              THEN [Answered EXCEPT !.stub[Context].ignored = TRUE] ELSE Answered)
    /\ changes' = changes + 1
    /\ UNCHANGED <<members, Clock, closed>>

\* process_http, an error status: find_target, RETRIEVE_FAIL
Refused ==
    /\ Receiving /\ Context \in Refusable /\ changes < MaxChange
    /\ Become(IF stub[Context].live
              THEN InsertEvent([Answered EXCEPT !.stub[Context].status = 404],
                               Context, "RETRIEVE_FAIL")
              ELSE Answered)
    /\ changes' = changes + 1
    /\ UNCHANGED <<members, Clock, closed>>

\* A LinkPolled list is polled every 300 s (active_poll_rate), a Polled one every 900:
\* between two polls of the one every other that is armed has its own.
Due(s) == s \in Polled => armed \intersect LinkPolled \subseteq served

\* RESOURCE_POLL: poll_resource, then update_resource
Poll(s) ==
    /\ ~closed /\ im = <<>> /\ s \in armed /\ Due(s)
    /\ sent = <<>> \/ Overlap
    /\ Become(UpdateResource(PollResource(State, s), s))
    /\ IF s \in Polled
       THEN /\ age' = [d \in DOMAIN age |-> IF age[d] < 2 THEN age[d] + 1 ELSE 2]
            /\ served' = {}
       ELSE age' = age /\ served' = served \union {s}
    /\ UNCHANGED <<members, changes, closed>>

\* TCP_CLOSED, TCP_TIMEOUT: cleanup_http removes what is still asked for
Closed ==
    /\ ~closed /\ im = <<>>
    /\ Become([FoldLeft(LAMBDA u, r : RemoveStub(u, r.context), State, sent)
                 EXCEPT !.sent = <<>>])
    /\ closed' = TRUE
    /\ UNCHANGED <<members, changes, Clock>>

\* The server adds or withdraws a member of a list.
Change(l, r) ==
    /\ ~closed /\ changes < MaxChange /\ (sent = <<>> \/ Midway)
    /\ members' = [members EXCEPT ![l] = SymDiff(@, {r})]
    /\ members'[l] # {} \/ Empties
    /\ changes' = changes + 1
    /\ UNCHANGED <<stub, sent, im, armed, called, Clock, closed>>

Next == \/ Serve \/ Retrieved \/ Ignored \/ Refused \/ Closed
        \/ \E s \in Polled \union LinkPolled : Poll(s)
        \/ \E l \in Lists : \E r \in ToSet(Order[l]) : Change(l, r)

Spec == Init /\ [][Next]_vars

\* Weak fairness of Serve and Retrieved (the program serves its queues and the
\* server answers) and strong fairness of the polls (the timed queue is in the
\* order of time: an armed poll does not wait for others for ever).  They are
\* written out with the conditions under which the steps are possible.
FairSpec ==
    /\ Spec
    /\ []<>(im = <<>> \/ closed) \/ []<><<Serve>>_vars
    /\ []<>~(Receiving /\ stub[Context].live) \/ []<><<Retrieved>>_vars
    /\ \A s \in Polled \union LinkPolled :
         <>[]~(s \in armed /\ Due(s) /\ sent = <<>> /\ im = <<>> /\ ~closed) \/ []<><<Poll(s)>>_vars

(***************************************************************************)
(* Properties.                                                             *)
(***************************************************************************)
TypeOK ==
    /\ \A s \in Names : LET x == stub[s] IN
         /\ x.status \in {-1, 0, 200, 404} /\ x.flags \subseteq Links[s]
         /\ x.list \union x.deps \union x.reqs \subseteq Names
         /\ x.offset \in 0..x.all
    /\ armed \subseteq Polled \union LinkPolled
    /\ age \in [DOMAIN age -> 0..2] /\ served \subseteq LinkPolled

\* Nothing that is still in use refers to a Stub that was freed: not another
\* Stub, not a request whose answer is to come, not an event or a poll.  A Stub
\* is among the deps of all it holds, so that it is found when it goes, and no
\* two requests have one context, which cleanup_http would free twice.
NoDangling ==
    closed \/
    /\ \A s \in Names : LET x == stub[s] IN
         /\ \A d \in x.list \union x.deps \union x.reqs : stub[d].live
         /\ \A d \in x.list \union x.reqs : s \in stub[d].deps
    /\ \A i \in 1..Len(sent) :
         /\ stub[sent[i].context].live
         /\ \A j \in 1..(i - 1) : sent[j].context # sent[i].context
    /\ \A i \in 1..Len(im) : stub[im[i].data].live
    /\ \A s \in armed : stub[s].live

\* schedule_der is called with a tree in which every resource that is linked
\* to is present and complete and every list holds as many members as it has.
WholeTree == called = [missing |-> {}, short |-> {}]

\* A resource is marked as being updated only while an answer to it is to come, or
\* after one that process_response could not use; update_resource never asks for it
\* again in that state.
Pollable == \A s \in Names : stub[s].status < 0 =>
              stub[s].ignored \/ \E i \in 1..Len(sent) : sent[i].context = s

\* The status of a Stub says -1 only while it is updated (as its declaration has it):
\* then an answer is to come.  The code leaves the status at -1 after an answer it
\* cannot use, and the resource is not retrieved again.
UpdateAwaited == \A s \in Names : stub[s].status < 0 =>
                   \E i \in 1..Len(sent) : sent[i].context = s

\* When nothing is asked for any more, no resource waits for one that is complete:
\* a subordinate that is complete has cleared its bit.  new_dep sets the bit of a
\* resource that is still fresh and complete as well, and then nothing clears it.
BitsCleared ==
    closed \/ sent # <<>> \/ im # <<>> \/
    \A r \in Names \ Lists : \A d \in stub[r].flags : ~stub[d].complete

InSync == /\ stub[Root].complete
          /\ \A l \in Below(State, {Root}) \intersect Lists : stub[l].reqs = members[l]

\* The tree of the client is complete and agrees with the server again and again,
\* whatever changes, refusals and polls came before and whichever resources were
\* still fresh at a poll; unless an answer that was of no use left a Stub that is
\* never asked for again.
Converges == []<>(closed \/ InSync \/ \E s \in Names : stub[s].ignored)
=============================================================================
