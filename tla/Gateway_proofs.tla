--------------------------- MODULE Gateway_proofs ---------------------------
(***************************************************************************)
(* The bridge never loses track of a set point: proofs for every set of    *)
(* events, every control and every number of lines.                        *)
(***************************************************************************)
EXTENDS Gateway, TLAPS

\* The fields still to be written are fields of the control being applied.
ApplyInv == op = "apply" => ctl \in Control /\ todo \subseteq DOMAIN ctl

\* While _relinquish is at work, a register that still holds a set point has
\* its turn ahead, was forgotten, or failed.  This is why tracking can be
\* dropped when the loop over the registers is through.
RelinquishInv ==
    op = "relinquish" =>
      \A r \in Register : reg[r] # 0 => r \in todo \union orphan \union stuck

\* The C client runs only while the with-block of EpriClient is open, unless
\* the gateway was killed.
ChildInv == child = "running" => phase \in {"loop", "closing", "dead"}

IInv == TypeOK /\ ApplyInv /\ RelinquishInv /\ SetpointsAccounted /\ ChildInv

\* The register of a field is a register.
LEMMA RegisterOfType == ASSUME NEW f \in Field PROVE RegisterOf[f] \in Register
  BY DEF Field, RegisterOf, Register

\* Every line is of one of three types and carries what its type promises.
LEMMA LineType ==
  ASSUME NEW line \in Line
  PROVE  /\ line.type \in {"start", "end", "default_control"}
         /\ line.type \in {"start", "end"} => line.mrid \in Mrid
         /\ line.type = "default_control" => line.control \in DefaultControl
  BY DEF Line

\* What reading one line from the pipe leaves behind.
LEMMA ReadLineType ==
  ASSUME TypeOK, ReadLine
  PROVE  Head(pipe) \in Line /\ pipe' \in Seq(Line) /\ phase = "loop" /\ op = "idle"
  BY DEF TypeOK, ReadLine

LEMMA InitInv == Init => IInv
<1> SUFFICES ASSUME Init PROVE IInv
  OBVIOUS
<1>1. TypeOK
  <2>1. MaxLines \in Nat
    BY ControlAssumption DEF ControlAssumption
  <2>2. reg \in [Register -> Int] /\ tracked \subseteq Register
    BY DEF Init
  <2>3. pipe \in Seq(Line) /\ lines \in 0..MaxLines
    BY <2>1 DEF Init
  <2>. QED BY <2>2, <2>3 DEF Init, TypeOK
<1>2. ApplyInv /\ RelinquishInv /\ ChildInv /\ SetpointsAccounted
  BY DEF Init, ApplyInv, RelinquishInv, ChildInv, SetpointsAccounted
<1>. QED BY <1>1, <1>2 DEF IInv

\* A step of the C client leaves the bridge and main() alone.
LEMMA ClientInv == IInv /\ Client => IInv'
<1> SUFFICES ASSUME IInv, Client PROVE IInv'
  OBVIOUS
<1>0. MaxLines \in Nat
  BY ControlAssumption DEF ControlAssumption
<1>1. UNCHANGED <<mainVars, bridgeVars>> /\ (child' = "running" => child = "running")
  BY DEF Client, EmitStart, EmitEnd, EmitDefault, EmitLine, ChildExit
<1>2. ApplyInv' /\ RelinquishInv' /\ SetpointsAccounted' /\ ChildInv'
  BY <1>1 DEF IInv, ApplyInv, RelinquishInv, SetpointsAccounted, ChildInv,
              mainVars, bridgeVars
<1>3. ASSUME NEW line \in Line, EmitLine(line)
      PROVE  pipe' \in Seq(Line) /\ lines' \in 0..MaxLines
  BY <1>0, <1>3 DEF EmitLine, IInv, TypeOK
<1> DEFINE ClientTypes == /\ pipe \in Seq(Line) /\ lines \in 0..MaxLines
                          /\ open \subseteq Mrid /\ rc \in {0, 1}
                          /\ child \in {"none", "running", "exited"}
<1>4. ClientTypes'
  <2>1. ASSUME NEW e \in Mrid, EmitStart(e) \/ EmitEnd(e) PROVE ClientTypes'
    <3>1. [type |-> "start", mrid |-> e] \in Line /\ [type |-> "end", mrid |-> e] \in Line
      BY DEF Line
    <3>. QED BY <2>1, <3>1, <1>3 DEF EmitStart, EmitEnd, IInv, TypeOK, EmitLine
  <2>2. ASSUME NEW c \in DefaultControl, EmitDefault(c) PROVE ClientTypes'
    <3>1. [type |-> "default_control", control |-> c] \in Line
      BY DEF Line
    <3>. QED BY <2>2, <3>1, <1>3 DEF EmitDefault, IInv, TypeOK, EmitLine
  <2>3. CASE ChildExit
    BY <2>3 DEF ChildExit, IInv, TypeOK
  <2>. QED BY <2>1, <2>2, <2>3 DEF Client
<1>5. TypeOK'
  BY <1>1, <1>4 DEF IInv, TypeOK, mainVars, bridgeVars
<1>. QED BY <1>2, <1>5 DEF IInv

\* Start-up, the end of the loop and the teardown leave the bridge's tracking
\* and the registers alone; they are where the C client is started and stopped.
LEMMA MainInv ==
  IInv /\ (Boot \/ Teardown \/ Interrupt \/ Killed) => IInv'
<1> SUFFICES ASSUME IInv, Boot \/ Teardown \/ Interrupt \/ Killed PROVE IInv'
  OBVIOUS
<1>1. /\ UNCHANGED <<ctl, tracked, reg, orphan, stuck, rc, open, lines, pipe>>
      /\ <<op, todo>>' \in {<<op, todo>>, <<"idle", {}>>}
  BY DEF Boot, Connect, WriteSettings, StartClient, Teardown, EndOfStream,
         StopClient, Disconnect, Interrupt, Killed, bridgeVars, clientVars
<1>2. ApplyInv' /\ RelinquishInv' /\ SetpointsAccounted'
  BY <1>1 DEF IInv, ApplyInv, RelinquishInv, SetpointsAccounted
<1>3. ChildInv'
  BY DEF IInv, ChildInv, Boot, Connect, WriteSettings, StartClient, Teardown,
         EndOfStream, StopClient, Disconnect, Interrupt, Killed, clientVars
<1>4. /\ phase' \in {"boot", "connected", "ready", "loop", "closing", "stopped",
                     "done", "dead"}
      /\ failed' \in BOOLEAN /\ child' \in {"none", "running", "exited"}
  BY DEF IInv, TypeOK, Boot, Connect, WriteSettings, StartClient, Teardown,
         EndOfStream, StopClient, Disconnect, Interrupt, Killed, clientVars
<1>5. TypeOK'
  BY <1>1, <1>4 DEF IInv, TypeOK
<1>. QED BY <1>2, <1>3, <1>5 DEF IInv

\* Reading a line: the end of an event starts _relinquish with every register
\* it tracks ahead of it, and a default control turns tracked set points into
\* forgotten ones.
LEMMA DispatchInv == IInv /\ Dispatch => IInv'
<1> SUFFICES ASSUME IInv, Dispatch PROVE IInv'
  OBVIOUS
<1>1. ReadLine
  BY DEF Dispatch, SkipLine, ApplyStart, ApplyDefault, ApplyEnd
<1>2. /\ Head(pipe) \in Line /\ pipe' \in Seq(Line)
      /\ phase = "loop" /\ op = "idle"
  BY <1>1, ReadLineType DEF IInv
<1>3. UNCHANGED <<mainVars, clientVars, reg, stuck>>
  BY DEF Dispatch, SkipLine, ApplyStart, ApplyDefault, ApplyEnd, bridgeVars
<1>4. ChildInv'
  BY <1>3 DEF IInv, ChildInv, mainVars, clientVars
<1> DEFINE BridgeTypes ==
      /\ op \in {"idle", "apply", "relinquish"}
      /\ ctl \in Control \union {NoControl}
      /\ todo \in (SUBSET Field) \union (SUBSET Register)
      /\ op = "apply" => todo \subseteq Field
      /\ op = "relinquish" => todo \subseteq Register
      /\ tracked \subseteq Register /\ orphan \subseteq Register
<1> DEFINE Goal == BridgeTypes' /\ ApplyInv' /\ RelinquishInv' /\ SetpointsAccounted'
<1>5. ASSUME NEW c \in Control, op' = "apply", ctl' = c, todo' = DOMAIN c,
             tracked' \subseteq Register, orphan' \subseteq Register
      PROVE  BridgeTypes' /\ ApplyInv' /\ RelinquishInv'
  <2>1. DOMAIN c \subseteq Field
    BY ControlAssumption DEF ControlAssumption
  <2>. QED BY <1>5, <2>1 DEF ApplyInv, RelinquishInv
<1>6. ASSUME SkipLine PROVE Goal
  BY <1>6, <1>2 DEF SkipLine, bridgeVars, IInv, TypeOK, ApplyInv, RelinquishInv,
                    SetpointsAccounted
<1>7. ASSUME ApplyStart PROVE Goal
  <2>1. ControlOf[Head(pipe).mrid] \in Control
    BY <1>7, <1>2, LineType DEF ApplyStart, Control
  <2>2. SetpointsAccounted'
    BY <1>7 DEF ApplyStart, IInv, SetpointsAccounted
  <2>3. BridgeTypes' /\ ApplyInv' /\ RelinquishInv'
    BY <1>7, <1>5, <2>1 DEF ApplyStart, IInv, TypeOK
  <2>. QED BY <2>2, <2>3
<1>8. ASSUME ApplyDefault PROVE Goal
  <2>1. Head(pipe).control \in Control
    BY <1>8, <1>2, LineType DEF ApplyDefault, Control
  <2>2. SetpointsAccounted'
    BY <1>8 DEF ApplyDefault, IInv, SetpointsAccounted
  <2>3. tracked' \subseteq Register /\ orphan' \subseteq Register
    BY <1>8 DEF ApplyDefault, IInv, TypeOK
  <2>4. BridgeTypes' /\ ApplyInv' /\ RelinquishInv'
    BY <1>8, <1>5, <2>1, <2>3 DEF ApplyDefault
  <2>. QED BY <2>2, <2>4
<1>9. ASSUME ApplyEnd PROVE Goal
  <2>1. SetpointsAccounted' /\ RelinquishInv'
    BY <1>9 DEF ApplyEnd, IInv, SetpointsAccounted, RelinquishInv
  <2>2. /\ op' \in {"idle", "relinquish"} /\ todo' \subseteq Register
        /\ UNCHANGED <<ctl, tracked, orphan>>
    BY <1>9 DEF ApplyEnd, IInv, TypeOK
  <2>3. BridgeTypes' /\ ApplyInv'
    BY <2>2 DEF IInv, TypeOK, ApplyInv
  <2>. QED BY <2>1, <2>3
<1>10. Goal
  BY <1>6, <1>7, <1>8, <1>9 DEF Dispatch
<1>11. TypeOK'
  BY <1>2, <1>3, <1>10 DEF IInv, TypeOK, mainVars, clientVars
<1>. QED BY <1>4, <1>10, <1>11 DEF IInv

\* The writes of the bridge, the ones that fail included.
LEMMA BridgeInv == IInv /\ Bridge => IInv'
<1> SUFFICES ASSUME IInv, Bridge PROVE IInv'
  OBVIOUS
<1>1. UNCHANGED <<clientVars, pipe, ctl>> /\ phase = "loop"
  BY DEF Bridge, WriteField, ApplyDone, WriteFails, ClearRegister, ClearFails,
         RelinquishDone
<1>2. /\ phase' \in {"loop", "closing"} /\ failed' \in BOOLEAN
      /\ ChildInv'
  BY <1>1 DEF Bridge, WriteField, ApplyDone, WriteFails, ClearRegister, ClearFails,
              RelinquishDone, IInv, TypeOK, ChildInv, clientVars, mainVars
<1>3. ASSUME op = "apply", NEW f \in todo
      PROVE  /\ f \in Field /\ RegisterOf[f] \in Register
             /\ RegisterValue(f, ctl[f]) \in Int
  <2>1. f \in Field /\ ctl \in Control /\ f \in DOMAIN ctl
    BY <1>3 DEF IInv, TypeOK, ApplyInv
  <2>2. RegisterValue(f, ctl[f]) \in Int
    BY <2>1, ControlAssumption DEF ControlAssumption
  <2>. QED BY <2>1, <2>2, RegisterOfType
<1> DEFINE BridgeTypes ==
      /\ op \in {"idle", "apply", "relinquish"}
      /\ todo \in (SUBSET Field) \union (SUBSET Register)
      /\ op = "apply" => todo \subseteq Field
      /\ op = "relinquish" => todo \subseteq Register
      /\ tracked \subseteq Register /\ reg \in [Register -> Int]
      /\ orphan \subseteq Register /\ stuck \subseteq Register
<1> DEFINE Goal == BridgeTypes' /\ ApplyInv' /\ RelinquishInv' /\ SetpointsAccounted'
<1>4. ASSUME WriteField PROVE Goal
  <2>1. PICK f \in todo :
          /\ reg' = [reg EXCEPT ![RegisterOf[f]] = RegisterValue(f, ctl[f])]
          /\ tracked' = tracked \union {RegisterOf[f]}
          /\ todo' = todo \ {f}
          /\ orphan' = orphan \ {RegisterOf[f]}
          /\ stuck' = stuck \ {RegisterOf[f]}
    BY <1>4 DEF WriteField
  <2>2. op = "apply" /\ op' = op /\ UNCHANGED ctl
    BY <1>4 DEF WriteField
  <2>3. BridgeTypes'
    BY <2>1, <2>2, <1>3 DEF IInv, TypeOK
  <2>4. ApplyInv' /\ RelinquishInv'
    BY <2>1, <2>2 DEF IInv, ApplyInv, RelinquishInv
  <2>5. SetpointsAccounted'
    BY <2>1, <2>2, <1>3 DEF IInv, TypeOK, SetpointsAccounted
  <2>. QED BY <2>3, <2>4, <2>5
<1>5. ASSUME ApplyDone PROVE Goal
  BY <1>5 DEF ApplyDone, IInv, TypeOK, ApplyInv, RelinquishInv, SetpointsAccounted
<1>6. ASSUME WriteFails PROVE Goal
  <2>1. PICK f \in todo :
          /\ \/ reg' = [reg EXCEPT ![RegisterOf[f]] = RegisterValue(f, ctl[f])]
             \/ reg' = reg
          /\ stuck' = stuck \union {RegisterOf[f]}
    BY <1>6 DEF WriteFails
  <2>2. op = "apply" /\ op' = "idle" /\ todo' = {} /\ UNCHANGED <<tracked, orphan>>
    BY <1>6 DEF WriteFails
  <2>3. BridgeTypes'
    BY <2>1, <2>2, <1>3 DEF IInv, TypeOK
  <2>4. ApplyInv' /\ RelinquishInv'
    BY <2>2 DEF ApplyInv, RelinquishInv
  <2>5. SetpointsAccounted'
    BY <2>1, <2>2, <1>3 DEF IInv, TypeOK, SetpointsAccounted
  <2>. QED BY <2>3, <2>4, <2>5
<1>7. ASSUME ClearRegister \/ ClearFails PROVE Goal
  <2>1. PICK r \in todo :
          /\ todo' = todo \ {r}
          /\ \/ /\ reg' = [reg EXCEPT ![r] = 0]
                /\ orphan' = orphan \ {r} /\ stuck' = stuck \ {r}
             \/ /\ reg' = [reg EXCEPT ![r] = 0] \/ reg' = reg
                /\ orphan' = orphan /\ stuck' = stuck \union {r}
    BY <1>7 DEF ClearRegister, ClearFails
  <2>2. op = "relinquish" /\ op' = op /\ tracked' = tracked
    BY <1>7 DEF ClearRegister, ClearFails
  <2>3. r \in Register
    BY <2>2 DEF IInv, TypeOK
  <2>4. BridgeTypes' /\ ApplyInv'
    BY <2>1, <2>2, <2>3 DEF IInv, TypeOK, ApplyInv
  <2>5. SetpointsAccounted'
    BY <2>1, <2>2, <2>3 DEF IInv, TypeOK, SetpointsAccounted
  <2>6. RelinquishInv'
    BY <2>1, <2>2, <2>3 DEF IInv, TypeOK, RelinquishInv
  <2>. QED BY <2>4, <2>5, <2>6
<1>8. ASSUME RelinquishDone PROVE Goal
  BY <1>8 DEF RelinquishDone, IInv, TypeOK, ApplyInv, RelinquishInv, SetpointsAccounted
<1>9. Goal
  BY <1>4, <1>5, <1>6, <1>7, <1>8 DEF Bridge
<1>10. TypeOK'
  BY <1>1, <1>2, <1>9 DEF IInv, TypeOK, clientVars
<1>. QED BY <1>2, <1>9, <1>10 DEF IInv

LEMMA NextInv == IInv /\ [Next]_vars => IInv'
<1> SUFFICES ASSUME IInv, [Next]_vars PROVE IInv'
  OBVIOUS
<1>1. CASE UNCHANGED vars
  BY <1>1 DEF vars, mainVars, bridgeVars, clientVars, IInv, TypeOK, ApplyInv,
              RelinquishInv, SetpointsAccounted, ChildInv
<1>. QED BY <1>1, ClientInv, MainInv, DispatchInv, BridgeInv DEF Next, Run

THEOREM Invariance == Spec => []IInv
<1>. QED BY InitInv, NextInv, PTL DEF Spec

\* Every variable of the gateway keeps its type, whatever the C client prints
\* and whichever writes fail.
THEOREM TypeCorrect == Spec => []TypeOK
<1>1. IInv => TypeOK
  BY DEF IInv
<1>. QED BY <1>1, Invariance, PTL

\* No set point is lost: DERBridge tracks every register that holds one, but
\* for those a default control made it forget and those whose write failed.
THEOREM NoSetpointLost == Spec => []SetpointsAccounted
<1>1. IInv => SetpointsAccounted
  BY DEF IInv
<1>. QED BY <1>1, Invariance, PTL

\* The subprocess is stopped on every way out of main().
THEOREM NoChildLeft == Spec => []ChildStopped
<1>1. IInv => ChildStopped
  BY DEF IInv, ChildInv, ChildStopped
<1>. QED BY <1>1, Invariance, PTL

\* When _relinquish returns, every set point it could clear is cleared.
THEOREM EndReleasesAll == Spec => EndReleases
<1> DEFINE Released ==
      op = "relinquish" /\ op' = "idle" /\ phase' = "loop"
        => \A r \in Register : reg'[r] # 0 => r \in orphan' \union stuck'
<1>1. IInv /\ [Next]_vars => [Released]_vars
  <2> SUFFICES ASSUME IInv, Next, op = "relinquish", op' = "idle", phase' = "loop"
               PROVE  \A r \in Register : reg'[r] # 0 => r \in orphan' \union stuck'
    OBVIOUS
  <2>1. RelinquishDone
    BY DEF Next, Client, EmitStart, EmitEnd, EmitDefault, ChildExit, bridgeVars, Run,
           Boot, Connect, WriteSettings, StartClient, Teardown, EndOfStream,
           StopClient, Disconnect, Interrupt, Killed, Dispatch, SkipLine, ApplyStart,
           ApplyDefault, ApplyEnd, ReadLine, Bridge, WriteField, ApplyDone,
           WriteFails, ClearRegister, ClearFails
  <2>. QED BY <2>1 DEF RelinquishDone, IInv, RelinquishInv
<1>. QED BY <1>1, Invariance, PTL DEF Spec, EndReleases
=============================================================================
