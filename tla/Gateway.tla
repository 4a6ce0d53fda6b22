------------------------------ MODULE Gateway ------------------------------
(***************************************************************************)
(* The Python gateway: main (__main__.py), the subprocess wrapper          *)
(* (client.py) and the DER control bridge (bridge.py), between the C       *)
(* client, which prints EVENT_JSON lines on a pipe, and the registers of   *)
(* the field device.                                                       *)
(*                                                                         *)
(* The C client appears as what the gateway can see of it: it starts and   *)
(* ends DERControl events, announces a DefaultDERControl when no event is  *)
(* in force, and exits.  DerSchedule models how it comes to do so.         *)
(***************************************************************************)
EXTENDS Integers, Sequences, FiniteSets

CONSTANTS
    Mrid,             \* the DERControl events of the server
    ControlOf,        \* ControlOf[e]: the DERControlBase of e, field -> value
    DefaultControl,   \* the DefaultDERControls the server ever announces
    Garbled,          \* events whose description breaks the JSON of their lines
    MaxOpen,          \* bound: DERControls in force at the same time
    MaxLines          \* bound: lines the C client prints in one run

\* The fields the bridge translates, in the order _apply_control tests them.
FieldOrder == <<"opModFixedW", "opModTargetW", "opModMaxLimW", "opModFixedVar",
                "opModTargetVar", "rampTms", "opModConnect", "opModEnergize">>

Field == {"opModFixedW", "opModTargetW", "opModMaxLimW", "opModFixedVar",
          "opModTargetVar", "rampTms", "opModConnect", "opModEnergize"}

Register == {"active_power", "max_power_limit", "reactive_power", "ramp_time",
             "connect", "energize"}

\* Fixed and target set points of one quantity share its register.
RegisterOf ==
    [f \in Field |->
        CASE f \in {"opModFixedW", "opModTargetW"}     -> "active_power"
          [] f = "opModMaxLimW"                        -> "max_power_limit"
          [] f \in {"opModFixedVar", "opModTargetVar"} -> "reactive_power"
          [] f = "rampTms"                             -> "ramp_time"
          [] f = "opModConnect"                        -> "connect"
          [] f = "opModEnergize"                       -> "energize"]

\* Position of a field in FieldOrder.
Rank == [f \in Field |-> CHOOSE i \in 1..8 : FieldOrder[i] = f]

\* The number written for a field: booleans become 1 or 0.
RegisterValue(f, v) ==
    IF f \in {"opModConnect", "opModEnergize"}
    THEN IF v = TRUE THEN 1 ELSE 0
    ELSE v

VARIABLES
    phase,     \* where main() is
    failed,    \* an exception is leaving main()
    op,        \* what the bridge is doing with the current line
    ctl,       \* the control being applied
    todo,      \* fields still to write, or registers still to clear
    tracked,   \* DERBridge._active_registers (its keys)
    reg,       \* the device's registers
    child,     \* the client_test process
    rc,        \* its exit code
    open,      \* events it has announced as started and not yet as ended
    pipe,      \* lines printed and not yet read
    lines,     \* lines printed so far
    orphan,    \* history: registers forgotten while they held a set point
    stuck      \* history: registers whose last write was reported as failed

mainVars   == <<phase, failed>>
bridgeVars == <<op, ctl, todo, tracked, reg, orphan, stuck>>
clientVars == <<child, rc, open, lines>>
vars == <<mainVars, bridgeVars, clientVars, pipe>>

Control == {ControlOf[e] : e \in Mrid} \union DefaultControl

\* A DERControlBase is read as fields the bridge knows with integer or boolean
\* values (emit_control_base prints nothing else).
ASSUME ControlAssumption ==
    /\ MaxLines \in Nat
    /\ \A c \in Control : /\ DOMAIN c \subseteq Field
                          /\ \A f \in DOMAIN c : RegisterValue(f, c[f]) \in Int

NoControl == <<>>

Line == [type : {"start", "end"}, mrid : Mrid]
          \union [type : {"default_control"}, control : DefaultControl]

TypeOK ==
    /\ phase \in {"boot", "connected", "ready", "loop", "closing", "stopped",
                  "done", "dead"}
    /\ failed \in BOOLEAN
    /\ op \in {"idle", "apply", "relinquish"}
    /\ ctl \in Control \union {NoControl}
    /\ todo \in (SUBSET Field) \union (SUBSET Register)
    /\ op = "apply" => todo \subseteq Field
    /\ op = "relinquish" => todo \subseteq Register
    /\ tracked \subseteq Register
    /\ reg \in [Register -> Int]
    /\ child \in {"none", "running", "exited"}
    /\ rc \in {0, 1}
    /\ open \subseteq Mrid
    /\ pipe \in Seq(Line)
    /\ lines \in 0..MaxLines
    /\ orphan \subseteq Register
    /\ stuck \subseteq Register

Init ==
    /\ phase = "boot" /\ failed = FALSE
    /\ op = "idle" /\ ctl = NoControl /\ todo = {}
    /\ tracked = {}
    /\ reg = [r \in Register |-> 0]
    /\ child = "none" /\ rc = 0 /\ open = {} /\ pipe = <<>> /\ lines = 0
    /\ orphan = {} /\ stuck = {}

-----------------------------------------------------------------------------
(* The C client, as the gateway sees it. *)

EmitLine(line) ==
    /\ child = "running" /\ lines < MaxLines
    /\ pipe' = Append(pipe, line)
    /\ lines' = lines + 1

EmitStart(e) ==
    /\ e \notin open /\ Cardinality(open) < MaxOpen
    /\ EmitLine([type |-> "start", mrid |-> e])
    /\ open' = open \union {e}
    /\ UNCHANGED <<mainVars, bridgeVars, child, rc>>

EmitEnd(e) ==
    /\ e \in open
    /\ EmitLine([type |-> "end", mrid |-> e])
    /\ open' = open \ {e}
    /\ UNCHANGED <<mainVars, bridgeVars, child, rc>>

EmitDefault(c) ==
    /\ open = {}
    /\ EmitLine([type |-> "default_control", control |-> c])
    /\ UNCHANGED <<mainVars, bridgeVars, child, rc, open>>

\* main returns 0 when the server connection closes or times out; a signal
\* or a fault ends the process with another code.
ChildExit ==
    /\ child = "running"
    /\ child' = "exited"
    /\ rc' \in {0, 1}
    /\ UNCHANGED <<mainVars, bridgeVars, open, pipe, lines>>

-----------------------------------------------------------------------------
(* main: start-up. *)

\* with bridge.protocol: connect() either succeeds or raises, and then there
\* is nothing to disconnect.
Connect ==
    /\ phase = "boot"
    /\ \/ phase' = "connected" /\ UNCHANGED failed
       \/ phase' = "done" /\ failed' = TRUE
    /\ UNCHANGED <<bridgeVars, clientVars, pipe>>

\* A register that cannot be read keeps its default, so only the writing of
\* the XML files can fail here.
WriteSettings ==
    /\ phase = "connected"
    /\ \/ phase' = "ready" /\ UNCHANGED failed
       \/ phase' = "stopped" /\ failed' = TRUE
    /\ UNCHANGED <<bridgeVars, clientVars, pipe>>

StartClient ==
    /\ phase = "ready"
    /\ \/ phase' = "loop" /\ child' = "running" /\ UNCHANGED failed
       \/ phase' = "stopped" /\ failed' = TRUE /\ UNCHANGED child
    /\ UNCHANGED <<bridgeVars, rc, open, lines, pipe>>

-----------------------------------------------------------------------------
(* The event loop: for event in client.events(): bridge.apply(event). *)

\* json.loads fails on the line of an event whose description is not escaped;
\* the line is logged and dropped.
Malformed(line) == line.type # "default_control" /\ line.mrid \in Garbled

ReadLine ==
    /\ phase = "loop" /\ op = "idle" /\ pipe # <<>>
    /\ pipe' = Tail(pipe)

SkipLine ==
    /\ ReadLine
    /\ Malformed(Head(pipe))
    /\ UNCHANGED <<mainVars, bridgeVars, clientVars>>

ApplyStart ==
    /\ ReadLine
    /\ Head(pipe).type = "start" /\ ~Malformed(Head(pipe))
    /\ op' = "apply"
    /\ ctl' = ControlOf[Head(pipe).mrid]
    /\ todo' = DOMAIN ControlOf[Head(pipe).mrid]
    /\ UNCHANGED <<mainVars, clientVars, tracked, reg, orphan, stuck>>

\* The tracking is cleared, not the registers it named.
ApplyDefault ==
    /\ ReadLine
    /\ Head(pipe).type = "default_control"
    /\ op' = "apply"
    /\ ctl' = Head(pipe).control
    /\ todo' = DOMAIN Head(pipe).control
    /\ orphan' = orphan \union {r \in tracked : reg[r] # 0}
    /\ tracked' = {}
    /\ UNCHANGED <<mainVars, clientVars, reg, stuck>>

\* Mutant: end walks the fields of the last control, not the registers.
ApplyEndFields ==
    /\ ReadLine
    /\ Head(pipe).type = "end" /\ ~Malformed(Head(pipe))
    /\ op' = IF tracked = {} THEN "idle" ELSE "relinquish"
    /\ todo' = DOMAIN ctl
    /\ UNCHANGED <<mainVars, clientVars, ctl, tracked, reg, orphan, stuck>>

ApplyEnd ==
    /\ ReadLine
    /\ Head(pipe).type = "end" /\ ~Malformed(Head(pipe))
    /\ op' = IF tracked = {} THEN "idle" ELSE "relinquish"
    /\ todo' = tracked
    /\ UNCHANGED <<mainVars, clientVars, ctl, tracked, reg, orphan, stuck>>

\* Mutant: the fields are written in the opposite order.
LastField(f) == f \in todo /\ \A g \in todo : Rank[f] >= Rank[g]

\* The field _apply_control comes to next.
NextField(f) == f \in todo /\ \A g \in todo : Rank[f] <= Rank[g]

\* Mutant: the register is written and not remembered.
WriteFieldUntracked ==
    /\ phase = "loop" /\ op = "apply"
    /\ \E f \in todo :
         LET r == RegisterOf[f] IN
         /\ NextField(f)
         /\ reg' = [reg EXCEPT ![r] = RegisterValue(f, ctl[f])]
         /\ todo' = todo \ {f}
         /\ orphan' = orphan \ {r}
         /\ stuck' = stuck \ {r}
    /\ UNCHANGED <<mainVars, clientVars, pipe, op, ctl, tracked>>

WriteField ==
    /\ phase = "loop" /\ op = "apply"
    /\ \E f \in todo :
         LET r == RegisterOf[f] IN
         /\ NextField(f)
         /\ reg' = [reg EXCEPT ![r] = RegisterValue(f, ctl[f])]
         /\ tracked' = tracked \union {r}
         /\ todo' = todo \ {f}
         /\ orphan' = orphan \ {r}
         /\ stuck' = stuck \ {r}
    /\ UNCHANGED <<mainVars, clientVars, pipe, op, ctl>>

ApplyDone ==
    /\ phase = "loop" /\ op = "apply" /\ todo = {}
    /\ op' = "idle"
    /\ UNCHANGED <<mainVars, clientVars, pipe, ctl, todo, tracked, reg, orphan,
                   stuck>>

\* A failed write is re-raised: the loop ends.  The device may have taken it.
WriteFails ==
    /\ phase = "loop" /\ op = "apply"
    /\ \E f \in todo :
         LET r == RegisterOf[f] IN
         /\ NextField(f)
         /\ \/ reg' = [reg EXCEPT ![r] = RegisterValue(f, ctl[f])]
            \/ UNCHANGED reg
         /\ stuck' = stuck \union {r}
    /\ phase' = "closing" /\ failed' = TRUE
    /\ op' = "idle" /\ todo' = {}
    /\ UNCHANGED <<clientVars, pipe, ctl, tracked, orphan>>

ClearRegister ==
    /\ phase = "loop" /\ op = "relinquish"
    /\ \E r \in todo :
         /\ reg' = [reg EXCEPT ![r] = 0]
         /\ todo' = todo \ {r}
         /\ orphan' = orphan \ {r}
         /\ stuck' = stuck \ {r}
    /\ UNCHANGED <<mainVars, clientVars, pipe, op, ctl, tracked>>

\* A failed clear is logged and the loop over the registers goes on.
ClearFails ==
    /\ phase = "loop" /\ op = "relinquish"
    /\ \E r \in todo :
         /\ \/ reg' = [reg EXCEPT ![r] = 0]
            \/ UNCHANGED reg
         /\ todo' = todo \ {r}
         /\ stuck' = stuck \union {r}
    /\ UNCHANGED <<mainVars, clientVars, pipe, op, ctl, tracked, orphan>>

\* Mutant: the loop over the registers ends early.
RelinquishDoneEarly ==
    /\ phase = "loop" /\ op = "relinquish"
    /\ op' = "idle"
    /\ tracked' = {}
    /\ todo' = {}
    /\ UNCHANGED <<mainVars, clientVars, pipe, ctl, reg, orphan, stuck>>

RelinquishDone ==
    /\ phase = "loop" /\ op = "relinquish" /\ todo = {}
    /\ op' = "idle"
    /\ tracked' = {}
    /\ UNCHANGED <<mainVars, clientVars, pipe, ctl, todo, reg, orphan, stuck>>

\* Mutant: a child that fails is taken for one that is still running.
EndOfStreamOnZero ==
    /\ phase = "loop" /\ op = "idle" /\ pipe = <<>> /\ child = "exited"
    /\ rc = 0
    /\ phase' = "closing"
    /\ failed' = FALSE
    /\ UNCHANGED <<bridgeVars, clientVars, pipe>>

\* End of the pipe: wait() for the exit code, raise unless it is 0.
EndOfStream ==
    /\ phase = "loop" /\ op = "idle" /\ pipe = <<>> /\ child = "exited"
    /\ phase' = "closing"
    /\ failed' = (rc # 0)
    /\ UNCHANGED <<bridgeVars, clientVars, pipe>>

\* KeyboardInterrupt leaves the loop wherever it is.
Interrupt ==
    /\ phase = "loop"
    /\ phase' = "closing" /\ failed' = TRUE
    /\ op' = "idle" /\ todo' = {}
    /\ UNCHANGED <<clientVars, pipe, ctl, tracked, reg, orphan, stuck>>

-----------------------------------------------------------------------------
(* Teardown, innermost context manager first. *)

\* Mutant: the child is stopped only when the loop ended without an exception.
StopClientOnSuccess ==
    /\ phase = "closing"
    /\ child' = IF failed THEN child ELSE "exited"
    /\ phase' = "stopped"
    /\ UNCHANGED <<failed, bridgeVars, rc, open, lines, pipe>>

\* EpriClient.stop: terminate, wait, kill.
StopClient ==
    /\ phase = "closing"
    /\ child' = "exited"
    /\ phase' = "stopped"
    /\ UNCHANGED <<failed, bridgeVars, rc, open, lines, pipe>>

Disconnect ==
    /\ phase = "stopped"
    /\ phase' = "done"
    /\ UNCHANGED <<failed, bridgeVars, clientVars, pipe>>

\* The gateway process is killed: no context manager runs.
Killed ==
    /\ phase \notin {"done", "dead"}
    /\ phase' = "dead"
    /\ UNCHANGED <<failed, bridgeVars, clientVars, pipe>>

-----------------------------------------------------------------------------
Client == \/ \E e \in Mrid : EmitStart(e) \/ EmitEnd(e)
          \/ \E c \in DefaultControl : EmitDefault(c)
          \/ ChildExit

Boot     == Connect \/ WriteSettings \/ StartClient
Dispatch == SkipLine \/ ApplyStart \/ ApplyDefault \/ ApplyEnd
Bridge   == \/ WriteField \/ ApplyDone \/ WriteFails
            \/ ClearRegister \/ ClearFails \/ RelinquishDone
Teardown == EndOfStream \/ StopClient \/ Disconnect

Run == Boot \/ Dispatch \/ Bridge \/ Teardown

Next == Client \/ Run \/ Interrupt \/ Killed

Spec == Init /\ [][Next]_vars

\* main() keeps running while it can; nothing is assumed of the C client, of
\* the field device or of the operator.
FairSpec == Spec /\ WF_vars(Run)

-----------------------------------------------------------------------------
(* Properties. *)

\* Every register that holds a set point is one the bridge remembers, so that
\* the next end releases it, except those that a default_control made it forget
\* (ApplyDefault) and those whose last write the device reported as failed.
SetpointsAccounted ==
    \A r \in Register : reg[r] # 0 => r \in tracked \union orphan \union stuck

\* When _relinquish returns, no register holds a set point but the forgotten
\* ones and those whose write failed.
EndReleases ==
    [][op = "relinquish" /\ op' = "idle" /\ phase' = "loop"
         => \A r \in Register : reg'[r] # 0 => r \in orphan' \union stuck']_vars

CaughtUp == phase = "loop" /\ op = "idle" /\ pipe = <<>>

\* What a control leaves in register r once all its fields are written: the
\* last of the fields that share the register.
Setpoint(c, r) ==
    LET fs == {f \in DOMAIN c : RegisterOf[f] = r}
        f  == CHOOSE g \in fs : \A h \in fs : Rank[h] <= Rank[g]
    IN RegisterValue(f, c[f])

RegistersOf(c) == {RegisterOf[f] : f \in DOMAIN c}

\* Once the gateway has read all there is to read, the device holds the set
\* points of every event that is in force.
ControlInForce ==
    CaughtUp => \A e \in open \ Garbled :
                  \A r \in RegistersOf(ControlOf[e]) :
                    reg[r] = Setpoint(ControlOf[e], r)

\* Once the gateway has read all there is to read and no event is in force, a
\* register holds nothing but the set point of a default control, unless a
\* write to it failed.
ReleasedWhenIdle ==
    CaughtUp /\ open = {} =>
      \A r \in Register \ stuck :
        \/ reg[r] = 0
        \/ \E c \in DefaultControl : r \in RegistersOf(c) /\ reg[r] = Setpoint(c, r)

\* However the loop ends, short of the gateway being killed, the C client does
\* not outlive it.
ChildStopped == phase = "done" => child # "running"

\* The gateway does not hang on a client that has exited: it drains the pipe
\* and ends.
ExitFollows == child = "exited" ~> phase \in {"done", "dead"}
=============================================================================
