--------------------------- MODULE EventStream ---------------------------
(***************************************************************************)
(* What the C client promises on its standard output, and what the gateway *)
(* relies on: the start and the end of a DERControl come in pairs, and the *)
(* default control is announced only while no DERControl is in force.      *)
(***************************************************************************)
EXTENDS Naturals

CONSTANT Event          \* the DERControls

VARIABLES
    starts, ends,       \* starts[e], ends[e]: lines printed for e so far
    dflt                \* the last line was the default control's

vars == <<starts, ends, dflt>>

Open == {e \in Event : starts[e] # ends[e]}

Init ==
    /\ starts = [e \in Event |-> 0]
    /\ ends = [e \in Event |-> 0]
    /\ dflt = FALSE

Start(e) ==
    /\ e \notin Open
    /\ starts' = [starts EXCEPT ![e] = @ + 1]
    /\ dflt' = FALSE
    /\ UNCHANGED ends

End(e) ==
    /\ e \in Open
    /\ ends' = [ends EXCEPT ![e] = @ + 1]
    /\ UNCHANGED <<starts, dflt>>

Default ==
    /\ Open = {}
    /\ dflt' = TRUE
    /\ UNCHANGED <<starts, ends>>

Next == (\E e \in Event : Start(e) \/ End(e)) \/ Default

Spec == Init /\ [][Next]_vars

\* What a reader of the stream may conclude: an event is started at most once
\* more than it is ended, never ended before it is started, and when the
\* default control is the last thing announced nothing is in force.
Paired ==
    /\ \A e \in Event : starts[e] \in {ends[e], ends[e] + 1}
    /\ dflt => Open = {}
=============================================================================
