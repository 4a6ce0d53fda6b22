---------------------------- MODULE MCEventPoll -----------------------------
(* Small instances of EventPoll. *)
EXTENDS EventPoll

TwoPorts == {1, 2}
OneSlow  == {1}
=============================================================================
