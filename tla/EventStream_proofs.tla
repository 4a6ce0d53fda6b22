------------------------ MODULE EventStream_proofs ------------------------
(* What every reader of the event stream may rely on. *)
EXTENDS EventStream, TLAPS

TypeOK == /\ starts \in [Event -> Nat] /\ ends \in [Event -> Nat]
          /\ dflt \in BOOLEAN

IInv == TypeOK /\ Paired

LEMMA NextInv == IInv /\ [Next]_vars => IInv'
<1> SUFFICES ASSUME IInv, [Next]_vars PROVE IInv'
  OBVIOUS
<1>1. ASSUME NEW e \in Event, Start(e) PROVE IInv'
  <2>1. starts[e] = ends[e] /\ dflt' = FALSE
    BY <1>1 DEF Start, Open
  <2>2. \A f \in Event : starts'[f] \in {ends'[f], ends'[f] + 1}
    BY <1>1, <2>1 DEF Start, IInv, TypeOK, Paired
  <2>3. starts' \in [Event -> Nat] /\ ends' \in [Event -> Nat]
    BY <1>1 DEF Start, IInv, TypeOK
  <2>. QED BY <2>1, <2>2, <2>3 DEF IInv, TypeOK, Paired
<1>2. ASSUME NEW e \in Event, End(e) PROVE IInv'
  BY <1>2 DEF End, IInv, TypeOK, Paired, Open
<1>3. CASE Default
  BY <1>3 DEF Default, IInv, TypeOK, Paired, Open
<1>4. CASE UNCHANGED vars
  BY <1>4 DEF vars, IInv, TypeOK, Paired, Open
<1>. QED BY <1>1, <1>2, <1>3, <1>4 DEF Next

\* The start and the end of a DERControl come in pairs, and the default control
\* stands alone.  With the refinement DerSchedule!StreamSpec this is what
\* der_poll owes the gateway.
THEOREM StreamPaired == Spec => []Paired
<1>1. Init => IInv
  <2> SUFFICES ASSUME Init PROVE IInv
    OBVIOUS
  <2>1. TypeOK /\ \A e \in Event : starts[e] = ends[e]
    BY DEF Init, TypeOK
  <2>2. Paired
    BY <2>1 DEF Init, Paired
  <2>. QED BY <2>1, <2>2 DEF IInv
<1>2. IInv => Paired
  BY DEF IInv
<1>. QED BY <1>1, <1>2, NextInv, PTL DEF Spec
=============================================================================
