--------------------------- MODULE MCDerSchedule ---------------------------
(* Small instances of DerSchedule. *)
EXTENDS DerSchedule

Times(a, b) == [start |-> a, duration |-> b]

\* What randomization may add: nothing, or up to a second to the duration.
NoRandom   == {Times(0, 0)}
OneSecond  == {Times(0, 0), Times(0, 1)}

TwoEvents   == {1, 2}
OneProgram  == {1}
TwoPrograms == {1, 2}

\* One event in each of two programs, the second of which outranks the first.
OwnProgram  == <<1, 2>>
SecondFirst == <<2, 1>>

\* All events in one program: the one created last outranks the others.
SameProgram == <<1, 1>>
OnePrimacy  == <<1>>

InOrder2 == <<1, 2>>

\* Intervals that overlap by a second.
Overlapping == <<Times(2, 2), Times(3, 2)>>

\* The events share one of their two controls; the second takes one of the two
\* controls of the first; or its only one.
CrossBase  == <<{"W", "V"}, {"W", "P"}>>
PartBase   == <<{"W", "V"}, {"W"}>>
SharedBase == <<{"W"}, {"W"}>>

\* Three events of one program: two that share nothing, and one that takes over
\* from the one that ends last.
ThreeEvents  == {1, 2, 3}
AllTogether  == <<1, 1, 1>>
InOrder3     == <<1, 2, 3>>
TwoAndLater  == <<Times(2, 2), Times(2, 3), Times(3, 2)>>
TakeOverBase == <<{"P"}, {"V"}, {"V"}>>

CancelEither == {<<1, "Canceled">>, <<1, "Superseded">>}
=============================================================================
