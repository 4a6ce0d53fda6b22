---------------------------- MODULE EventQueue ----------------------------
(***************************************************************************)
(* The timed event queue of event.c and the sorted insertion of list.c it  *)
(* rests on.  An event is [type, data, time]; time 0 means "now" and such  *)
(* events wait in a FIFO (im_event), the others in a list sorted by time   *)
(* (cur_event).                                                            *)
(***************************************************************************)
EXTENDS Integers, SequencesExt

\* insert_sorted: before the first item whose key is not smaller.
InsertSorted(list, item, key) ==
    LET after == {i \in 1..Len(list) : key[item] <= key[list[i]]}
    IN  InsertAt(list, IF after = {} THEN Len(list) + 1 ELSE Min(after), item)

\* event_compare: events are sorted by time.
EventTime(evs) == [ev \in evs |-> ev.time]

\* insert_event and remove_event on a record q with fields im and cur.
InsertEvent(q, data, type, time) ==
    LET ev == [type |-> type, data |-> data, time |-> time]
    IN  IF time = 0
        THEN [q EXCEPT !.im = Append(@, ev)]
        ELSE [q EXCEPT !.cur = InsertSorted(@, ev, EventTime({ev} \union ToSet(@)))]

RemoveEvent(q, data) ==
    LET other(ev) == ev.data # data
    IN  [q EXCEPT !.im = SelectSeq(@, other), !.cur = SelectSeq(@, other)]

\* next_event: an immediate event, else a timed one that is due.
HasNext(q, now) == q.im # <<>> \/ (q.cur # <<>> /\ Head(q.cur).time <= now)

NextEvent(q) == IF q.im # <<>> THEN Head(q.im) ELSE Head(q.cur)

Popped(q) == IF q.im # <<>> THEN [q EXCEPT !.im = Tail(@)]
                            ELSE [q EXCEPT !.cur = Tail(@)]
=============================================================================
