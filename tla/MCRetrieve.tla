----------------------------- MODULE MCRetrieve -----------------------------
EXTENDS Retrieve

\* An EndDevice with a list of two programs, one of which has a default control
\* and a list of two events; pages of one item.
MCPlain == {"P", "Q", "D"}
MCLists == {"PL", "C"}
MCItems == {"c1", "c2"}
MCLinks == [s \in {"E", "P", "Q", "D", "PL", "C", "c1", "c2"} |->
              CASE s = "E" -> {"PL"} [] s = "P" -> {"D", "C"} [] OTHER -> {}]
MCOrder == [l \in MCLists |-> IF l = "PL" THEN <<"P", "Q">> ELSE <<"c1", "c2">>]
MCPolled == {"PL"}
MCLinkPolled == {"C"}
MCRefusable == {"D", "C"}
MCIgnorable == {"D", "C", "PL"}
=============================================================================
