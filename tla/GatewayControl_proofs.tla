------------------------ MODULE GatewayControl_proofs ------------------------
(***************************************************************************)
(* What the device holds once the gateway has caught up with the C client: *)
(* proofs that connect the lines in the pipe, which lag behind the events  *)
(* that are in force, with the registers the bridge has written.           *)
(***************************************************************************)
EXTENDS Gateway_proofs, FiniteSetTheorems, SequenceTheorems

-----------------------------------------------------------------------------
(* Lines in the pipe: q is the pipe and o the events announced as started   *)
(* and not as ended.                                                        *)

About(q, e, i)  == q[i].type \in {"start", "end"} /\ q[i].mrid = e
EndsAt(q, e, i) == q[i].type = "end" /\ q[i].mrid = e

\* Is e in force for a reader of the first k lines of q?  Its next line is an end,
\* or it has none and is in force now.
LiveIn(q, o, e, k) ==
    \/ \E j \in k + 1 .. Len(q) : /\ EndsAt(q, e, j)
                                  /\ \A m \in k + 1 .. j - 1 : ~About(q, e, m)
    \/ e \in o /\ \A m \in k + 1 .. Len(q) : ~About(q, e, m)

\* A reader of all lines knows what is in force.
LEMMA LiveAll ==
  ASSUME NEW q \in Seq(Line), NEW o, NEW e
  PROVE  LiveIn(q, o, e, Len(q)) <=> e \in o
<1>1. Len(q) \in Nat /\ Len(q) + 1 .. Len(q) = {}
  BY LenProperties
<1>. QED BY <1>1 DEF LiveIn

\* A line of another event changes nothing, and before its end an event is in force.
LEMMA LiveStep ==
  ASSUME NEW q \in Seq(Line), NEW o, NEW e, NEW k \in 1 .. Len(q)
  PROVE  /\ ~About(q, e, k) => (LiveIn(q, o, e, k - 1) <=> LiveIn(q, o, e, k))
         /\ EndsAt(q, e, k) => LiveIn(q, o, e, k - 1)
<1>1. Len(q) \in Nat /\ k - 1 + 1 = k /\ k \in k .. Len(q) /\ k .. k - 1 = {}
  BY LenProperties
<1>2. EndsAt(q, e, k) => LiveIn(q, o, e, k - 1)
  BY <1>1 DEF LiveIn
<1>3. ASSUME ~About(q, e, k) PROVE LiveIn(q, o, e, k - 1) <=> LiveIn(q, o, e, k)
  <2>1. ~EndsAt(q, e, k)
    BY <1>3 DEF About, EndsAt
  <2>2. \A n \in k - 1 .. Len(q) :
           (\A m \in k .. n : ~About(q, e, m)) <=> (\A m \in k + 1 .. n : ~About(q, e, m))
    BY <1>1, <1>3
  <2>3. \A j \in k .. Len(q) : j = k \/ j \in k + 1 .. Len(q)
    BY <1>1
  <2>4. \A j \in k + 1 .. Len(q) : j \in k .. Len(q) /\ j - 1 \in k - 1 .. Len(q)
    BY <1>1
  <2>. QED BY <1>1, <2>1, <2>2, <2>3, <2>4 DEF LiveIn
<1>. QED BY <1>2, <1>3

LEMMA LiveTail ==
  ASSUME NEW q \in Seq(Line), q # <<>>, NEW o, NEW e, NEW k \in 0 .. Len(q) - 1
  PROVE  LiveIn(Tail(q), o, e, k) <=> LiveIn(q, o, e, k + 1)
<1> DEFINE t == Tail(q)
<1>1. /\ Len(q) \in Nat \ {0} /\ Len(t) = Len(q) - 1
      /\ \A i \in 1 .. Len(t) : t[i] = q[i + 1]
  BY LenProperties, HeadTailProperties
<1> HIDE DEF t
<1>2. \A i \in 1 .. Len(t) : /\ About(t, e, i) <=> About(q, e, i + 1)
                             /\ EndsAt(t, e, i) <=> EndsAt(q, e, i + 1)
  BY <1>1 DEF About, EndsAt
<1>3. \A n \in k .. Len(t) :
         (\A m \in k + 1 .. n : ~About(t, e, m)) <=>
         (\A m \in k + 2 .. n + 1 : ~About(q, e, m))
  <2> TAKE n \in k .. Len(t)
  <2>1. \A m \in k + 1 .. n : m \in 1 .. Len(t) /\ m + 1 \in k + 2 .. n + 1
    BY <1>1
  <2>2. \A m \in k + 2 .. n + 1 : m - 1 \in 1 .. Len(t) /\ m - 1 \in k + 1 .. n /\ m - 1 + 1 = m
    BY <1>1
  <2>3. ASSUME \A m \in k + 1 .. n : ~About(t, e, m), NEW m \in k + 2 .. n + 1
        PROVE  ~About(q, e, m)
    <3>1. ~About(t, e, m - 1)
      BY <2>2, <2>3
    <3>2. About(t, e, m - 1) <=> About(q, e, m - 1 + 1)
      BY <1>2, <2>2
    <3>. QED BY <2>2, <3>1, <3>2
  <2>4. ASSUME \A m \in k + 2 .. n + 1 : ~About(q, e, m), NEW m \in k + 1 .. n
        PROVE  ~About(t, e, m)
    BY <1>2, <2>1, <2>4
  <2>. QED BY <2>3, <2>4
<1>4. ASSUME LiveIn(t, o, e, k) PROVE LiveIn(q, o, e, k + 1)
  <2>1. CASE \E j \in k + 1 .. Len(t) : /\ EndsAt(t, e, j)
                                        /\ \A m \in k + 1 .. j - 1 : ~About(t, e, m)
    <3>1. PICK j \in k + 1 .. Len(t) : /\ EndsAt(t, e, j)
                                       /\ \A m \in k + 1 .. j - 1 : ~About(t, e, m)
      BY <2>1
    <3>2. /\ j \in 1 .. Len(t) /\ j - 1 \in k .. Len(t) /\ j - 1 + 1 = j + 1 - 1
          /\ j + 1 \in k + 1 + 1 .. Len(q) /\ k + 1 + 1 = k + 2
      BY <1>1
    <3>3. \A m \in k + 2 .. j : ~About(q, e, m)
      <4>1. \A m \in k + 2 .. j - 1 + 1 : ~About(q, e, m)
        BY <1>3, <3>1, <3>2
      <4>2. j - 1 + 1 = j
        BY <1>1
      <4>. QED BY <4>1, <4>2
    <3>4. /\ EndsAt(q, e, j + 1)
          /\ \A m \in k + 1 + 1 .. j + 1 - 1 : ~About(q, e, m)
      BY <1>1, <1>2, <3>1, <3>2, <3>3
    <3>. QED BY <3>2, <3>4 DEF LiveIn
  <2>2. CASE e \in o /\ \A m \in k + 1 .. Len(t) : ~About(t, e, m)
    <3>1. Len(t) \in k .. Len(t) /\ Len(t) + 1 = Len(q) /\ k + 1 + 1 = k + 2
      BY <1>1
    <3>2. \A m \in k + 2 .. Len(q) : ~About(q, e, m)
      BY <1>3, <2>2, <3>1
    <3>. QED BY <2>2, <3>1, <3>2 DEF LiveIn
  <2>. QED BY <1>4, <2>1, <2>2 DEF LiveIn
<1>5. ASSUME LiveIn(q, o, e, k + 1) PROVE LiveIn(t, o, e, k)
  <2>0. k + 1 + 1 = k + 2
    OBVIOUS
  <2>1. CASE \E j \in k + 2 .. Len(q) : /\ EndsAt(q, e, j)
                                        /\ \A m \in k + 2 .. j - 1 : ~About(q, e, m)
    <3>1. PICK j \in k + 2 .. Len(q) : /\ EndsAt(q, e, j)
                                       /\ \A m \in k + 2 .. j - 1 : ~About(q, e, m)
      BY <2>1
    <3>2. /\ j - 1 \in 1 .. Len(t) /\ j - 1 + 1 = j /\ j - 1 - 1 \in k .. Len(t)
          /\ j - 1 - 1 + 1 = j - 1 /\ j - 1 \in k + 1 .. Len(t)
      BY <1>1
    <3>. QED BY <1>2, <1>3, <3>1, <3>2 DEF LiveIn
  <2>2. CASE e \in o /\ \A m \in k + 2 .. Len(q) : ~About(q, e, m)
    <3>1. Len(t) \in k .. Len(t) /\ Len(t) + 1 = Len(q)
      BY <1>1
    <3>. QED BY <1>3, <2>2, <3>1 DEF LiveIn
  <2>. QED BY <1>5, <2>0, <2>1, <2>2 DEF LiveIn
<1>. QED BY <1>4, <1>5 DEF t

\* A line that is printed changes nothing for a reader who has not come to it.
LEMMA LiveAppend ==
  ASSUME NEW q \in Seq(Line), NEW line \in Line, NEW o, NEW p, NEW e, NEW k \in 0 .. Len(q),
         \/ line.type = "start" /\ line.mrid \notin o /\ p = o \union {line.mrid}
         \/ line.type = "end" /\ line.mrid \in o /\ p = o \ {line.mrid}
         \/ line.type = "default_control" /\ p = o
  PROVE  LiveIn(Append(q, line), p, e, k) <=> LiveIn(q, o, e, k)
<1> DEFINE t == Append(q, line)
<1>1. /\ Len(q) \in Nat /\ Len(t) = Len(q) + 1 /\ t[Len(t)] = line
      /\ \A i \in 1 .. Len(q) : t[i] = q[i]
  BY LenProperties, AppendProperties
<1> HIDE DEF t
<1>2. \A i \in 1 .. Len(q) : /\ About(t, e, i) <=> About(q, e, i)
                             /\ EndsAt(t, e, i) <=> EndsAt(q, e, i)
  BY <1>1 DEF About, EndsAt
<1>3. \A n \in k .. Len(q) :
         (\A m \in k + 1 .. n : ~About(t, e, m)) <=> (\A m \in k + 1 .. n : ~About(q, e, m))
  <2>1. \A n \in k .. Len(q) : \A m \in k + 1 .. n : m \in 1 .. Len(q)
    BY <1>1
  <2>. QED BY <1>2, <2>1
<1> DEFINE Ending(s, j) == EndsAt(s, e, j) /\ \A m \in k + 1 .. j - 1 : ~About(s, e, m)
           Silent(s)    == \A m \in k + 1 .. Len(s) : ~About(s, e, m)
<1>4. \A j \in k + 1 .. Len(q) : Ending(t, j) <=> Ending(q, j)
  <2>1. \A j \in k + 1 .. Len(q) : j \in 1 .. Len(q) /\ j - 1 \in k .. Len(q)
    BY <1>1
  <2>. QED BY <1>2, <1>3, <2>1
<1>5. Ending(t, Len(t)) <=> EndsAt(t, e, Len(t)) /\ Silent(q)
  <2>1. Len(t) - 1 = Len(q) /\ Len(q) \in k .. Len(q)
    BY <1>1
  <2>. QED BY <1>3, <2>1
<1>6. Silent(t) <=> Silent(q) /\ ~About(t, e, Len(t))
  <2>1. /\ \A m \in k + 1 .. Len(t) : m \in k + 1 .. Len(q) \/ m = Len(t)
        /\ \A m \in k + 1 .. Len(q) : m \in k + 1 .. Len(t)
        /\ Len(t) \in k + 1 .. Len(t) /\ Len(q) \in k .. Len(q)
    BY <1>1
  <2>. QED BY <1>3, <2>1
<1>7. LiveIn(t, p, e, k) <=> \/ \E j \in k + 1 .. Len(q) : Ending(t, j)
                             \/ Ending(t, Len(t)) \/ (e \in p /\ Silent(t))
  <2>1. /\ \A m \in k + 1 .. Len(t) : m \in k + 1 .. Len(q) \/ m = Len(t)
        /\ \A m \in k + 1 .. Len(q) : m \in k + 1 .. Len(t)
        /\ Len(t) \in k + 1 .. Len(t)
    BY <1>1
  <2>. QED BY <2>1 DEF LiveIn
<1>8. LiveIn(q, o, e, k) <=> (\E j \in k + 1 .. Len(q) : Ending(q, j)) \/ (e \in o /\ Silent(q))
  BY DEF LiveIn
<1> HIDE DEF Ending, Silent
<1>9. (Silent(q) /\ e \in o) <=>
        (Silent(q) /\ (EndsAt(t, e, Len(t)) \/ (e \in p /\ ~About(t, e, Len(t)))))
  BY <1>1 DEF EndsAt, About
<1>. QED BY <1>4, <1>5, <1>6, <1>7, <1>8, <1>9 DEF t
-----------------------------------------------------------------------------
(* The inductive invariant. *)

\* The events whose control the bridge has to hold: started and not ended as far
\* as the gateway has read, and with lines it can read.
HeldIn(q, o) == {e \in Mrid \ Garbled : LiveIn(q, o, e, 0)}

Held == HeldIn(pipe, open)

\* The lines alternate: a start is followed by the end of the same event before it
\* is started again, and a default control comes when no event is in force.
LineOK(q, o, k) ==
    /\ q[k].type = "start" => LiveIn(q, o, q[k].mrid, k)
    /\ q[k].type = "end"   => ~LiveIn(q, o, q[k].mrid, k)
    /\ q[k].type = "default_control" => \A e \in Mrid : ~LiveIn(q, o, e, k)

PipeInv == \A k \in 1 .. Len(pipe) : LineOK(pipe, open, k)

\* Before the loop the device and the pipe are untouched.
FreshInv ==
    phase \in {"boot", "connected", "ready"} =>
      /\ op = "idle" /\ pipe = <<>> /\ open = {}
      /\ \A r \in Register : reg[r] = 0

\* _apply_control goes through the fields in their order, so that a register whose
\* fields are all written holds what the last of them put there.
ProgressInv ==
    op = "apply" =>
      /\ \A f \in todo : \A g \in DOMAIN ctl \ todo : Rank[g] < Rank[f]
      /\ \A r \in RegistersOf(ctl) :
           (\E f \in todo : RegisterOf[f] = r) \/ reg[r] = Setpoint(ctl, r)

\* The control being applied is a default or one of an event in force.
ApplyingInv ==
    phase = "loop" /\ op = "apply" =>
      ctl \in DefaultControl \/ \E e \in Held : ctl = ControlOf[e]

DefaultHolds(r) ==
    \E c \in DefaultControl : r \in RegistersOf(c) /\ reg[r] = Setpoint(c, r)

\* Register r holds nothing, or the set point of a default, or something that is
\* on its way out, or that an event still in force will take out when it ends.
Accounted(r) ==
    \/ reg[r] = 0
    \/ DefaultHolds(r)
    \/ op # "relinquish" /\ r \in tracked /\ Held # {}
    \/ op = "relinquish" /\ r \in todo
    \/ op = "apply" /\ ctl \in DefaultControl /\ \E f \in todo : RegisterOf[f] = r

ReleaseInv == phase = "loop" => \A r \in Register \ stuck : Accounted(r)

BaseInv == IInv /\ PipeInv /\ FreshInv /\ ProgressInv /\ ApplyingInv

\* With one event at a time, no reader of the lines ever sees two in force.
OneAt(q, o, k) == \A e, f \in Mrid : LiveIn(q, o, e, k) /\ LiveIn(q, o, f, k) => e = f

OneInv == \A k \in 0 .. Len(pipe) : OneAt(pipe, open, k)

\* The event in force is being applied or has been.
ForceInv ==
    phase = "loop" =>
      \A e \in Held :
        /\ op # "relinquish"
        /\ op = "apply" => ctl = ControlOf[e]
        /\ op = "idle" => \A r \in RegistersOf(ControlOf[e]) :
                            reg[r] = Setpoint(ControlOf[e], r)

-----------------------------------------------------------------------------
(* The order of the fields, and what a control leaves in a register. *)

\* No two fields have the same place in FieldOrder.
LEMMA RankType ==
  /\ \A f \in Field : Rank[f] \in 1 .. 8
  /\ \A f, g \in Field : Rank[f] = Rank[g] => f = g
<1>1. ASSUME NEW f \in Field PROVE \E i \in 1 .. 8 : FieldOrder[i] = f
  <2>1. /\ FieldOrder[1] = "opModFixedW" /\ FieldOrder[2] = "opModTargetW"
        /\ FieldOrder[3] = "opModMaxLimW" /\ FieldOrder[4] = "opModFixedVar"
        /\ FieldOrder[5] = "opModTargetVar" /\ FieldOrder[6] = "rampTms"
        /\ FieldOrder[7] = "opModConnect" /\ FieldOrder[8] = "opModEnergize"
    BY DEF FieldOrder
  <2>. QED BY <2>1 DEF Field
<1>2. ASSUME NEW f \in Field PROVE Rank[f] \in 1 .. 8 /\ FieldOrder[Rank[f]] = f
  <2>1. Rank[f] = CHOOSE i \in 1 .. 8 : FieldOrder[i] = f
    BY DEF Rank
  <2>. QED BY <1>1, <2>1
<1>. QED BY <1>2

\* The field written last decides what a register holds.
LEMMA SetpointLast ==
  ASSUME NEW c \in Control, NEW f \in DOMAIN c,
         \A g \in DOMAIN c : RegisterOf[g] = RegisterOf[f] => Rank[g] <= Rank[f]
  PROVE  Setpoint(c, RegisterOf[f]) = RegisterValue(f, c[f])
<1> DEFINE fs == {g \in DOMAIN c : RegisterOf[g] = RegisterOf[f]}
           Last(g) == g \in fs /\ \A h \in fs : Rank[h] <= Rank[g]
<1>1. DOMAIN c \subseteq Field
  BY ControlAssumption DEF ControlAssumption
<1>2. Last(f)
  OBVIOUS
<1>3. ASSUME NEW g, Last(g) PROVE g = f
  <2>1. g \in Field /\ f \in Field /\ Rank[f] <= Rank[g] /\ Rank[g] <= Rank[f]
    BY <1>1, <1>2, <1>3
  <2>2. Rank[f] \in Int /\ Rank[g] \in Int
    BY <2>1, RankType
  <2>. QED BY <2>1, <2>2, RankType
<1>4. (CHOOSE g \in fs : \A h \in fs : Rank[h] <= Rank[g]) = f
  BY <1>2, <1>3
<1>. QED BY <1>4 DEF Setpoint

-----------------------------------------------------------------------------
(* What a step does to the lines ahead. *)

\* A line printed by the C client.
Prints(line) ==
    /\ pipe' = Append(pipe, line)
    /\ \/ line.type = "start" /\ line.mrid \notin open /\ open' = open \union {line.mrid}
       \/ line.type = "end" /\ line.mrid \in open /\ open' = open \ {line.mrid}
       \/ line.type = "default_control" /\ open = {} /\ open' = open

LEMMA PrintsView ==
  ASSUME TypeOK, NEW line \in Line, Prints(line)
  PROVE  /\ Len(pipe') = Len(pipe) + 1
         /\ \A e : \A k \in 0 .. Len(pipe) :
              LiveIn(pipe', open', e, k) <=> LiveIn(pipe, open, e, k)
         /\ \A e : LiveIn(pipe', open', e, Len(pipe) + 1) <=> e \in open'
         /\ Held' = Held
         /\ PipeInv => PipeInv'
<1>1. /\ pipe \in Seq(Line) /\ pipe' \in Seq(Line) /\ Len(pipe) \in Nat
      /\ Len(pipe') = Len(pipe) + 1 /\ pipe'[Len(pipe) + 1] = line
      /\ \A k \in 1 .. Len(pipe) : pipe'[k] = pipe[k] /\ pipe[k] \in Line
  BY AppendProperties, LenProperties, ElementOfSeq DEF TypeOK, Prints
<1>2. ASSUME NEW e, NEW k \in 0 .. Len(pipe)
      PROVE  LiveIn(pipe', open', e, k) <=> LiveIn(pipe, open, e, k)
  <2>1. \/ line.type = "start" /\ line.mrid \notin open /\ open' = open \union {line.mrid}
        \/ line.type = "end" /\ line.mrid \in open /\ open' = open \ {line.mrid}
        \/ line.type = "default_control" /\ open' = open
    BY DEF Prints
  <2>2. LiveIn(Append(pipe, line), open', e, k) <=> LiveIn(pipe, open, e, k)
    BY <1>1, <2>1, LiveAppend
  <2>. QED BY <2>2 DEF Prints
<1>3. \A e : LiveIn(pipe', open', e, Len(pipe) + 1) <=> e \in open'
  BY <1>1, LiveAll
<1>4. Held' = Held
  <2>1. 0 \in 0 .. Len(pipe)
    BY <1>1
  <2>. QED BY <1>2, <2>1 DEF Held, HeldIn
<1>5. ASSUME PipeInv, NEW k \in 1 .. Len(pipe') PROVE LineOK(pipe', open', k)
  <2>1. CASE k \in 1 .. Len(pipe)
    <3>1. k \in 0 .. Len(pipe) /\ pipe'[k] = pipe[k]
      BY <1>1, <2>1
    <3>2. LineOK(pipe, open, k)
      BY <1>5, <2>1 DEF PipeInv
    <3>. QED BY <1>2, <3>1, <3>2 DEF LineOK
  <2>2. CASE k = Len(pipe) + 1
    BY <1>1, <1>3, <2>2 DEF Prints, LineOK
  <2>. QED BY <1>1, <2>1, <2>2
<1>6. PipeInv => PipeInv'
  BY <1>5 DEF PipeInv
<1>. QED BY <1>1, <1>2, <1>3, <1>4, <1>6

\* The steps of the C client but its exit print a line.
LEMMA ClientPrints ==
  ASSUME Client
  PROVE  \/ UNCHANGED <<pipe, open>>
         \/ \E line \in Line : Prints(line) /\ (open' # open => Cardinality(open) < MaxOpen \/ open' \subseteq open)
<1>1. ASSUME NEW e \in Mrid, EmitStart(e) \/ EmitEnd(e)
      PROVE  \E line \in Line : Prints(line) /\ (open' # open => Cardinality(open) < MaxOpen \/ open' \subseteq open)
  <2>1. [type |-> "start", mrid |-> e] \in Line /\ [type |-> "end", mrid |-> e] \in Line
    BY DEF Line
  <2>. QED BY <1>1, <2>1 DEF EmitStart, EmitEnd, EmitLine, Prints
<1>2. ASSUME NEW c \in DefaultControl, EmitDefault(c)
      PROVE  \E line \in Line : Prints(line) /\ (open' # open => Cardinality(open) < MaxOpen \/ open' \subseteq open)
  <2>1. [type |-> "default_control", control |-> c] \in Line
    BY DEF Line
  <2>. QED BY <1>2, <2>1 DEF EmitDefault, EmitLine, Prints
<1>. QED BY <1>1, <1>2 DEF Client, ChildExit

\* Reading a line: what was one line ahead is now.
LEMMA ReadView ==
  ASSUME TypeOK, ReadLine, UNCHANGED open
  PROVE  /\ Len(pipe) \in Nat \ {0} /\ Len(pipe') = Len(pipe) - 1
         /\ Head(pipe) = pipe[1] /\ pipe[1] \in Line
         /\ \A e : \A k \in 0 .. Len(pipe') :
              LiveIn(pipe', open', e, k) <=> LiveIn(pipe, open, e, k + 1)
         /\ PipeInv => PipeInv'
<1>1. /\ pipe \in Seq(Line) /\ pipe # <<>> /\ pipe' = Tail(pipe)
      /\ Len(pipe) \in Nat \ {0} /\ Len(pipe') = Len(pipe) - 1 /\ Head(pipe) = pipe[1]
      /\ \A k \in 1 .. Len(pipe') : pipe'[k] = pipe[k + 1]
  BY LenProperties, HeadTailProperties DEF TypeOK, ReadLine
<1>2. \A k \in 1 .. Len(pipe) : pipe[k] \in Line
  BY <1>1, ElementOfSeq
<1>3. ASSUME NEW e, NEW k \in 0 .. Len(pipe')
      PROVE  LiveIn(pipe', open', e, k) <=> LiveIn(pipe, open, e, k + 1)
  BY <1>1, LiveTail
<1>4. ASSUME PipeInv, NEW k \in 1 .. Len(pipe') PROVE LineOK(pipe', open', k)
  <2>1. k + 1 \in 1 .. Len(pipe) /\ k \in 0 .. Len(pipe') /\ pipe'[k] = pipe[k + 1]
    BY <1>1
  <2>2. LineOK(pipe, open, k + 1)
    BY <1>4, <2>1 DEF PipeInv
  <2>. QED BY <1>3, <2>1, <2>2 DEF LineOK
<1>5. PipeInv => PipeInv'
  BY <1>4 DEF PipeInv
<1>6. pipe[1] \in Line
  BY <1>1, <1>2
<1>. QED BY <1>1, <1>3, <1>5, <1>6

\* What the first line says of the events that are in force before and after it.
LEMMA ReadHeld ==
  ASSUME TypeOK, PipeInv, ReadLine, UNCHANGED open
  PROVE  /\ Head(pipe).type \in {"start", "end"} => Head(pipe).mrid \in Mrid
         /\ Head(pipe).type = "default_control" =>
              /\ Head(pipe).control \in DefaultControl
              /\ Held = {} /\ Held' = {}
         /\ Malformed(Head(pipe)) => Held' = Held
         /\ Head(pipe).type = "start" /\ ~Malformed(Head(pipe)) =>
              Head(pipe).mrid \in Held'
<1>1. /\ Len(pipe) \in Nat \ {0} /\ Head(pipe) = pipe[1] /\ pipe[1] \in Line
      /\ pipe \in Seq(Line)
      /\ \A e : LiveIn(pipe', open', e, 0) <=> LiveIn(pipe, open, e, 1)
  <2>1. /\ Len(pipe) \in Nat \ {0} /\ Len(pipe') = Len(pipe) - 1
        /\ Head(pipe) = pipe[1] /\ pipe[1] \in Line
        /\ \A e : \A k \in 0 .. Len(pipe') :
             LiveIn(pipe', open', e, k) <=> LiveIn(pipe, open, e, k + 1)
    BY ReadView
  <2>2. 0 \in 0 .. Len(pipe') /\ 0 + 1 = 1
    BY <2>1
  <2>. QED BY <2>1, <2>2 DEF TypeOK
<1>2. LineOK(pipe, open, 1)
  BY <1>1 DEF PipeInv
<1>3. ASSUME NEW e, ~About(pipe, e, 1)
      PROVE  LiveIn(pipe, open, e, 0) <=> LiveIn(pipe', open', e, 0)
  <2>1. 1 \in 1 .. Len(pipe) /\ 1 - 1 = 0
    BY <1>1
  <2>2. LiveIn(pipe, open, e, 1 - 1) <=> LiveIn(pipe, open, e, 1)
    BY <1>1, <1>3, <2>1, LiveStep
  <2>. QED BY <1>1, <2>1, <2>2
<1>4. Head(pipe).type \in {"start", "end"} => Head(pipe).mrid \in Mrid
  BY <1>1, LineType
<1>5. ASSUME Head(pipe).type = "default_control"
      PROVE  Head(pipe).control \in DefaultControl /\ Held = {} /\ Held' = {}
  <2>1. \A e : ~About(pipe, e, 1)
    BY <1>1, <1>5 DEF About
  <2>2. \A e \in Mrid : ~LiveIn(pipe', open', e, 0)
    BY <1>1, <1>2, <1>5 DEF LineOK
  <2>3. Held = {} /\ Held' = {}
    BY <1>3, <2>1, <2>2 DEF Held, HeldIn
  <2>. QED BY <1>1, <1>5, <2>3, LineType
<1>6. ASSUME Malformed(Head(pipe)) PROVE Held' = Held
  <2>1. \A e \in Mrid \ Garbled : ~About(pipe, e, 1)
    BY <1>1, <1>6, LineType DEF Malformed, About
  <2>. QED BY <1>3, <2>1 DEF Held, HeldIn
<1>7. ASSUME Head(pipe).type = "start", ~Malformed(Head(pipe))
      PROVE  Head(pipe).mrid \in Held'
  BY <1>1, <1>2, <1>4, <1>7 DEF LineOK, Held, HeldIn, Malformed
<1>. QED BY <1>4, <1>5, <1>6, <1>7

-----------------------------------------------------------------------------
(* BaseInv is inductive. *)

LEMMA BaseInit == Init => BaseInv
<1> SUFFICES ASSUME Init PROVE BaseInv
  OBVIOUS
<1>1. IInv
  BY InitInv
<1>2. PipeInv
  BY DEF Init, PipeInv
<1>3. FreshInv /\ ProgressInv /\ ApplyingInv
  BY DEF Init, FreshInv, ProgressInv, ApplyingInv
<1>. QED BY <1>1, <1>2, <1>3 DEF BaseInv

LEMMA ClientBase == BaseInv /\ Client => BaseInv' /\ Held' = Held
<1> SUFFICES ASSUME BaseInv, Client PROVE BaseInv' /\ Held' = Held
  OBVIOUS
<1>1. TypeOK /\ IInv'
  BY ClientInv DEF BaseInv, IInv
<1>2. Held' = Held /\ PipeInv'
  <2>1. CASE UNCHANGED <<pipe, open>>
    BY <2>1 DEF Held, PipeInv, BaseInv
  <2>2. ASSUME NEW line \in Line, Prints(line) PROVE Held' = Held /\ PipeInv'
    BY <1>1, <2>2, PrintsView DEF BaseInv
  <2>. QED BY <2>1, <2>2, ClientPrints
<1>3. UNCHANGED <<mainVars, bridgeVars>> /\ child = "running"
  BY DEF Client, EmitStart, EmitEnd, EmitDefault, EmitLine, ChildExit
<1>4. FreshInv'
  BY <1>3 DEF FreshInv, BaseInv, IInv, ChildInv, mainVars
<1>5. ProgressInv' /\ ApplyingInv'
  BY <1>2, <1>3 DEF ProgressInv, ApplyingInv, BaseInv, mainVars, bridgeVars
<1>. QED BY <1>1, <1>2, <1>4, <1>5 DEF BaseInv

LEMMA MainBase ==
  BaseInv /\ (Boot \/ Teardown \/ Interrupt \/ Killed) => BaseInv' /\ Held' = Held
<1> SUFFICES ASSUME BaseInv, Boot \/ Teardown \/ Interrupt \/ Killed
             PROVE  BaseInv' /\ Held' = Held
  OBVIOUS
<1>1. IInv'
  BY MainInv DEF BaseInv
<1>2. /\ UNCHANGED <<ctl, reg, open, pipe>>
      /\ <<op, todo>>' \in {<<op, todo>>, <<"idle", {}>>}
      /\ phase' = "loop" => phase = "ready"
      /\ phase' \in {"boot", "connected", "ready"} =>
           phase \in {"boot", "connected", "ready"}
  BY DEF Boot, Connect, WriteSettings, StartClient, Teardown, EndOfStream,
         StopClient, Disconnect, Interrupt, Killed, bridgeVars, clientVars
<1>3. Held' = Held /\ PipeInv'
  BY <1>2 DEF Held, PipeInv, BaseInv
<1>4. FreshInv' /\ ProgressInv' /\ ApplyingInv'
  BY <1>2 DEF FreshInv, ProgressInv, ApplyingInv, BaseInv
<1>. QED BY <1>1, <1>3, <1>4 DEF BaseInv

LEMMA DispatchBase == BaseInv /\ Dispatch => BaseInv'
<1> SUFFICES ASSUME BaseInv, Dispatch PROVE BaseInv'
  OBVIOUS
<1>1. /\ ReadLine /\ UNCHANGED <<open, phase>> /\ TypeOK /\ IInv' /\ PipeInv
      /\ phase = "loop" /\ op = "idle"
  BY DispatchInv DEF Dispatch, SkipLine, ApplyStart, ApplyDefault, ApplyEnd, ReadLine,
     BaseInv, IInv, mainVars, clientVars
<1>2. PipeInv'
  BY <1>1, ReadView
<1>3. FreshInv'
  BY <1>1 DEF FreshInv
<1>4. ASSUME op' = "apply", todo' = DOMAIN ctl' PROVE ProgressInv'
  BY <1>4 DEF ProgressInv, RegistersOf
<1>5. CASE op' # "apply"
  BY <1>1, <1>2, <1>3, <1>5 DEF BaseInv, ProgressInv, ApplyingInv
<1>6. CASE ApplyStart
  <2>1. /\ Head(pipe).mrid \in Held' /\ op' = "apply" /\ todo' = DOMAIN ctl'
        /\ ctl' = ControlOf[Head(pipe).mrid]
    BY <1>1, <1>6, ReadHeld DEF ApplyStart
  <2>2. ApplyingInv'
    BY <2>1 DEF ApplyingInv
  <2>. QED BY <1>1, <1>2, <1>3, <1>4, <2>1, <2>2 DEF BaseInv
<1>7. CASE ApplyDefault
  <2>1. /\ Head(pipe).control \in DefaultControl /\ op' = "apply" /\ todo' = DOMAIN ctl'
        /\ ctl' = Head(pipe).control
    BY <1>1, <1>7, ReadHeld DEF ApplyDefault
  <2>2. ApplyingInv'
    BY <2>1 DEF ApplyingInv
  <2>. QED BY <1>1, <1>2, <1>3, <1>4, <2>1, <2>2 DEF BaseInv
<1>. QED BY <1>1, <1>5, <1>6, <1>7 DEF Dispatch, SkipLine, ApplyEnd, bridgeVars

\* Writing a field of the control: its register holds the set point as soon as no
\* other field of the control is to go there.
LEMMA WriteProgress ==
  ASSUME IInv, ProgressInv, WriteField
  PROVE  ProgressInv'
<1>1. PICK f \in todo :
        /\ NextField(f)
        /\ reg' = [reg EXCEPT ![RegisterOf[f]] = RegisterValue(f, ctl[f])]
        /\ todo' = todo \ {f}
  BY DEF WriteField
<1>2. op = "apply" /\ op' = "apply" /\ UNCHANGED ctl
  BY DEF WriteField
<1>3. /\ ctl \in Control /\ todo \subseteq DOMAIN ctl /\ DOMAIN ctl \subseteq Field
      /\ reg \in [Register -> Int] /\ f \in DOMAIN ctl /\ RegisterOf[f] \in Register
  BY <1>2, ControlAssumption, RegisterOfType DEF IInv, ApplyInv, TypeOK, ControlAssumption
<1>4. \A g \in DOMAIN ctl : g \notin todo' => Rank[g] <= Rank[f]
  BY <1>1, <1>2, <1>3, RankType DEF ProgressInv
<1>5. ASSUME NEW h \in todo', NEW g \in DOMAIN ctl \ todo' PROVE Rank[g] < Rank[h]
  <2>1. Rank[g] <= Rank[f] /\ Rank[f] <= Rank[h] /\ f # h
    BY <1>1, <1>4, <1>5 DEF NextField
  <2>2. f \in Field /\ g \in Field /\ h \in Field
    BY <1>1, <1>3
  <2>3. Rank[f] \in Int /\ Rank[g] \in Int /\ Rank[h] \in Int /\ Rank[f] # Rank[h]
    BY <2>1, <2>2, RankType
  <2>. QED BY <2>1, <2>3
<1>6. ASSUME NEW r \in RegistersOf(ctl), ~ \E h \in todo' : RegisterOf[h] = r
      PROVE  reg'[r] = Setpoint(ctl, r)
  <2>1. CASE r = RegisterOf[f]
    <3>1. \A g \in DOMAIN ctl : RegisterOf[g] = RegisterOf[f] => Rank[g] <= Rank[f]
      BY <1>4, <1>6, <2>1
    <3>2. Setpoint(ctl, r) = RegisterValue(f, ctl[f])
      BY <1>3, <2>1, <3>1, SetpointLast
    <3>. QED BY <1>1, <1>3, <2>1, <3>2
  <2>2. CASE r # RegisterOf[f]
    <3>1. r \in Register
      BY <1>3, RegisterOfType DEF RegistersOf
    <3>2. ~ \E h \in todo : RegisterOf[h] = r
      BY <1>1, <1>6, <2>2
    <3>. QED BY <1>1, <1>2, <1>3, <2>2, <3>1, <3>2 DEF ProgressInv
  <2>. QED BY <2>1, <2>2
<1>. QED BY <1>2, <1>5, <1>6 DEF ProgressInv

LEMMA BridgeBase == BaseInv /\ Bridge => BaseInv' /\ Held' = Held
<1> SUFFICES ASSUME BaseInv, Bridge PROVE BaseInv' /\ Held' = Held
  OBVIOUS
<1>1. /\ UNCHANGED <<pipe, open, ctl>> /\ phase = "loop"
      /\ phase' \in {"loop", "closing"} /\ (op' = "apply" => WriteField /\ op = "apply")
  BY DEF Bridge, WriteField, ApplyDone, WriteFails, ClearRegister, ClearFails,
         RelinquishDone, clientVars, mainVars
<1>2. IInv' /\ IInv
  BY BridgeInv DEF BaseInv
<1>3. Held' = Held /\ PipeInv' /\ FreshInv'
  BY <1>1 DEF Held, PipeInv, FreshInv, BaseInv
<1>4. ApplyingInv'
  BY <1>1, <1>3 DEF ApplyingInv, BaseInv
<1>5. ProgressInv'
  <2>1. CASE WriteField
    BY <1>2, <2>1, WriteProgress DEF BaseInv
  <2>. QED BY <1>1, <2>1 DEF ProgressInv
<1>. QED BY <1>2, <1>3, <1>4, <1>5 DEF BaseInv

LEMMA BaseNext == BaseInv /\ [Next]_vars => BaseInv'
<1> SUFFICES ASSUME BaseInv, [Next]_vars PROVE BaseInv'
  OBVIOUS
<1>1. CASE UNCHANGED vars
  <2>1. IInv'
    BY <1>1, NextInv DEF BaseInv
  <2>. QED BY <1>1, <2>1 DEF vars, mainVars, bridgeVars, clientVars, BaseInv, PipeInv,
                             FreshInv, ProgressInv, ApplyingInv, Held
<1>. QED BY <1>1, ClientBase, MainBase, DispatchBase, BridgeBase DEF Next, Run

-----------------------------------------------------------------------------
(* ReleaseInv: nothing stays in the device once no event is in force. *)

\* Steps that leave the bridge alone and change nothing for the reader.
LEMMA ReleaseQuiet ==
  ASSUME BaseInv, ReleaseInv, Client \/ Boot \/ Teardown \/ Interrupt \/ Killed
  PROVE  ReleaseInv'
<1>1. Held' = Held
  BY ClientBase, MainBase
<1>2. CASE phase' = "loop" /\ phase = "ready"
  <2>1. UNCHANGED reg
    BY <1>2 DEF Client, EmitStart, EmitEnd, EmitDefault, ChildExit, Boot, Connect,
       WriteSettings, StartClient, Teardown, EndOfStream, StopClient, Disconnect,
       Interrupt, Killed, bridgeVars
  <2>. QED BY <1>2, <2>1 DEF BaseInv, FreshInv, ReleaseInv, Accounted
<1>3. CASE phase' = "loop" /\ phase # "ready"
  <2>1. Client
    BY <1>3 DEF Boot, Connect, WriteSettings, StartClient, Teardown, EndOfStream,
                StopClient, Disconnect, Interrupt, Killed
  <2>2. UNCHANGED <<mainVars, bridgeVars>>
    BY <2>1 DEF Client, EmitStart, EmitEnd, EmitDefault, ChildExit
  <2>. QED BY <1>1, <2>2 DEF ReleaseInv, Accounted, DefaultHolds, mainVars, bridgeVars
<1>. QED BY <1>2, <1>3 DEF ReleaseInv

\* Reading a line: a default control comes when no register waits for an end, and an
\* end takes on every register that does.
LEMMA ReleaseDispatch == ASSUME BaseInv, ReleaseInv, Dispatch PROVE ReleaseInv'
<1>1. /\ ReadLine /\ UNCHANGED <<open, reg, stuck>> /\ TypeOK /\ PipeInv
      /\ phase = "loop" /\ op = "idle"
  BY DEF Dispatch, SkipLine, ApplyStart, ApplyDefault, ApplyEnd, ReadLine, BaseInv, IInv,
         mainVars, clientVars, bridgeVars
<1>2. ASSUME NEW r \in Register \ stuck
      PROVE  reg[r] = 0 \/ DefaultHolds(r) \/ (r \in tracked /\ Held # {})
  BY <1>1 DEF ReleaseInv, Accounted
<1>3. ASSUME NEW r, DefaultHolds(r) PROVE DefaultHolds(r)'
  BY <1>1, <1>3 DEF DefaultHolds
<1>4. ASSUME NEW r \in Register \ stuck PROVE Accounted(r)'
  <2>1. CASE reg[r] = 0 \/ DefaultHolds(r)
    BY <1>1, <1>3, <2>1 DEF Accounted
  <2>2. CASE r \in tracked /\ Held # {}
    <3>1. CASE SkipLine
      BY <1>1, <2>2, <3>1, ReadHeld DEF SkipLine, bridgeVars, Accounted
    <3>2. CASE ApplyStart
      <4>1. Held' # {}
        BY <1>1, <3>2, ReadHeld DEF ApplyStart
      <4>. QED BY <2>2, <3>2, <4>1 DEF ApplyStart, Accounted
    <3>3. CASE ApplyDefault
      BY <1>1, <2>2, <3>3, ReadHeld DEF ApplyDefault
    <3>4. CASE ApplyEnd
      BY <2>2, <3>4 DEF ApplyEnd, Accounted
    <3>. QED BY <3>1, <3>2, <3>3, <3>4 DEF Dispatch
  <2>. QED BY <1>2, <2>1, <2>2
<1>. QED BY <1>1, <1>4 DEF ReleaseInv

\* The writes: a field of an event goes to a register that is tracked while the event
\* is in force, a field of a default leaves its set point or has another to follow.
LEMMA ReleaseBridge == ASSUME BaseInv, ReleaseInv, Bridge PROVE ReleaseInv'
<1>1. /\ phase = "loop" /\ Held' = Held /\ BaseInv' /\ ctl' = ctl
      /\ TypeOK /\ ApplyInv
  BY BridgeBase DEF Bridge, WriteField, ApplyDone, WriteFails, ClearRegister, ClearFails,
                    RelinquishDone, BaseInv, IInv
<1>2. CASE phase' # "loop"
  BY <1>2 DEF ReleaseInv
<1>3. CASE WriteField
  <2>1. PICK f \in todo :
          /\ reg' = [reg EXCEPT ![RegisterOf[f]] = RegisterValue(f, ctl[f])]
          /\ tracked' = tracked \union {RegisterOf[f]}
          /\ todo' = todo \ {f}
          /\ stuck' = stuck \ {RegisterOf[f]}
    BY <1>3 DEF WriteField
  <2>2. op = "apply" /\ op' = "apply"
    BY <1>3 DEF WriteField
  <2>3. /\ f \in DOMAIN ctl /\ RegisterOf[f] \in Register /\ RegisterOf[f] \in RegistersOf(ctl)
    BY <1>1, <2>2, RegisterOfType DEF ApplyInv, TypeOK, RegistersOf
  <2>4. Accounted(RegisterOf[f])'
    <3>1. CASE ctl \in DefaultControl
      <4>1. \/ \E h \in todo' : RegisterOf[h] = RegisterOf[f]
            \/ reg'[RegisterOf[f]] = Setpoint(ctl, RegisterOf[f])
        BY <1>1, <2>2, <2>3 DEF BaseInv, ProgressInv
      <4>. QED BY <1>1, <2>2, <2>3, <3>1, <4>1 DEF Accounted, DefaultHolds
    <3>2. CASE ctl \notin DefaultControl
      <4>1. Held # {}
        BY <1>1, <2>2, <3>2 DEF BaseInv, ApplyingInv
      <4>. QED BY <1>1, <2>1, <2>2, <4>1 DEF Accounted
    <3>. QED BY <3>1, <3>2
  <2>5. ASSUME NEW r \in Register \ stuck', r # RegisterOf[f] PROVE Accounted(r)'
    <3>1. r \in Register \ stuck /\ reg'[r] = reg[r]
      BY <1>1, <2>1, <2>5 DEF TypeOK
    <3>2. Accounted(r)
      BY <1>1, <3>1 DEF ReleaseInv
    <3>. QED BY <1>1, <2>1, <2>2, <2>5, <3>1, <3>2 DEF Accounted, DefaultHolds
  <2>. QED BY <2>4, <2>5 DEF ReleaseInv
<1>4. CASE ApplyDone
  <2>1. UNCHANGED <<reg, stuck, tracked>> /\ op = "apply" /\ op' = "idle" /\ todo = {}
    BY <1>4 DEF ApplyDone
  <2>. QED BY <1>1, <2>1 DEF ReleaseInv, Accounted, DefaultHolds
<1>5. CASE ClearRegister \/ ClearFails
  <2>1. PICK s \in todo :
          /\ todo' = todo \ {s}
          /\ \/ reg' = [reg EXCEPT ![s] = 0] /\ stuck' = stuck \ {s}
             \/ /\ reg' = [reg EXCEPT ![s] = 0] \/ reg' = reg
                /\ stuck' = stuck \union {s}
    BY <1>5 DEF ClearRegister, ClearFails
  <2>2. op = "relinquish" /\ op' = "relinquish" /\ s \in Register
    BY <1>1, <1>5 DEF ClearRegister, ClearFails, TypeOK
  <2>3. ASSUME NEW r \in Register \ stuck' PROVE Accounted(r)'
    <3>1. CASE r = s
      BY <1>1, <2>1, <2>2, <2>3, <3>1 DEF Accounted, TypeOK
    <3>2. CASE r # s
      <4>1. r \in Register \ stuck /\ reg'[r] = reg[r]
        BY <1>1, <2>1, <2>2, <2>3, <3>2 DEF TypeOK
      <4>2. Accounted(r)
        BY <1>1, <4>1 DEF ReleaseInv
      <4>. QED BY <2>1, <2>2, <3>2, <4>1, <4>2 DEF Accounted, DefaultHolds
    <3>. QED BY <3>1, <3>2
  <2>. QED BY <2>3 DEF ReleaseInv
<1>6. CASE RelinquishDone
  <2>1. UNCHANGED <<reg, stuck>> /\ op = "relinquish" /\ op' = "idle" /\ todo = {}
    BY <1>6 DEF RelinquishDone
  <2>. QED BY <1>1, <2>1 DEF ReleaseInv, Accounted, DefaultHolds
<1>. QED BY <1>2, <1>3, <1>4, <1>5, <1>6 DEF Bridge, WriteFails

LEMMA ReleaseNext == BaseInv /\ ReleaseInv /\ [Next]_vars => ReleaseInv'
<1> SUFFICES ASSUME BaseInv, ReleaseInv, [Next]_vars PROVE ReleaseInv'
  OBVIOUS
<1>1. CASE UNCHANGED vars
  BY <1>1 DEF vars, mainVars, bridgeVars, clientVars, ReleaseInv, Accounted, DefaultHolds,
              Held
<1>. QED BY <1>1, ReleaseQuiet, ReleaseDispatch, ReleaseBridge DEF Next, Run

\* Once the gateway has read every line and no event is in force, the device holds
\* nothing but set points of default controls, wherever no write failed: whatever
\* the events set, in whichever order they came and however many at a time.
THEOREM Released == Spec => []ReleasedWhenIdle
<1>1. Init => BaseInv /\ ReleaseInv
  BY BaseInit DEF Init, ReleaseInv
<1>2. BaseInv /\ ReleaseInv /\ [Next]_vars => (BaseInv /\ ReleaseInv)'
  BY BaseNext, ReleaseNext
<1>3. BaseInv /\ ReleaseInv => ReleasedWhenIdle
  <2> SUFFICES ASSUME BaseInv, ReleaseInv, CaughtUp, open = {},
                      NEW r \in Register \ stuck
               PROVE  reg[r] = 0 \/ DefaultHolds(r)
    BY DEF ReleasedWhenIdle, DefaultHolds
  <2>1. pipe = <<>> /\ pipe \in Seq(Line) /\ Len(pipe) = 0
    BY DEF CaughtUp, BaseInv, IInv, TypeOK
  <2>2. Held = {}
    BY <2>1, LiveAll DEF Held, HeldIn
  <2>. QED BY <2>2 DEF ReleaseInv, Accounted, CaughtUp
<1>. QED BY <1>1, <1>2, <1>3, PTL DEF Spec

-----------------------------------------------------------------------------
(* ControlInForce, with at most one event in force at a time. *)

LEMMA OneNext ==
  ASSUME MaxOpen = 1
  PROVE  BaseInv /\ OneInv /\ IsFiniteSet(open) /\ [Next]_vars
           => OneInv' /\ IsFiniteSet(open)'
<1> SUFFICES ASSUME BaseInv, OneInv, IsFiniteSet(open), [Next]_vars
             PROVE  OneInv' /\ IsFiniteSet(open')
  OBVIOUS
<1>1. TypeOK
  BY DEF BaseInv, IInv
<1>2. CASE UNCHANGED <<pipe, open>>
  BY <1>2 DEF OneInv
<1>3. CASE ReadLine /\ UNCHANGED open
  <2>1. /\ Len(pipe) \in Nat \ {0} /\ Len(pipe') = Len(pipe) - 1
        /\ \A e : \A k \in 0 .. Len(pipe') :
             LiveIn(pipe', open', e, k) <=> LiveIn(pipe, open, e, k + 1)
    BY <1>1, <1>3, ReadView
  <2>2. ASSUME NEW k \in 0 .. Len(pipe') PROVE OneAt(pipe', open', k)
    <3>1. k + 1 \in 0 .. Len(pipe)
      BY <2>1
    <3>2. OneAt(pipe, open, k + 1)
      BY <3>1 DEF OneInv
    <3>. QED BY <2>1, <3>2 DEF OneAt
  <2>. QED BY <1>3, <2>2 DEF OneInv
<1>4. ASSUME NEW line \in Line, Prints(line),
             open' # open => Cardinality(open) < MaxOpen \/ open' \subseteq open
      PROVE  OneInv' /\ IsFiniteSet(open')
  <2>1. /\ Len(pipe') = Len(pipe) + 1 /\ Len(pipe) \in Nat
        /\ \A e : \A k \in 0 .. Len(pipe) :
             LiveIn(pipe', open', e, k) <=> LiveIn(pipe, open, e, k)
        /\ \A e : LiveIn(pipe', open', e, Len(pipe) + 1) <=> e \in open'
    BY <1>1, <1>4, PrintsView, LenProperties DEF TypeOK
  <2>2. OneAt(pipe, open, Len(pipe)) /\ \A e : LiveIn(pipe, open, e, Len(pipe)) <=> e \in open
    BY <1>1, <2>1, LiveAll DEF OneInv, TypeOK
  <2>3. \A e, f \in open : e = f
    BY <1>1, <2>2 DEF OneAt, TypeOK
  <2>4. IsFiniteSet(open') /\ \A e, f \in open' : e = f
    <3>1. CASE open' \subseteq open
      BY <2>3, <3>1, FS_Subset
    <3>2. CASE Cardinality(open) < 1
      <4>1. open = {}
        BY <3>2, FS_EmptySet, FS_CardinalityType
      <4>2. open' = {} \/ open' = {line.mrid}
        BY <1>4, <4>1 DEF Prints
      <4>. QED BY <4>2, FS_EmptySet, FS_Singleton
    <3>. QED BY <1>4, <3>1, <3>2
  <2>5. ASSUME NEW k \in 0 .. Len(pipe') PROVE OneAt(pipe', open', k)
    <3>1. CASE k \in 0 .. Len(pipe)
      BY <2>1, <3>1 DEF OneInv, OneAt
    <3>2. CASE k = Len(pipe) + 1
      BY <2>1, <2>4, <3>2 DEF OneAt
    <3>. QED BY <2>1, <3>1, <3>2
  <2>. QED BY <2>4, <2>5 DEF OneInv
<1>5. CASE Client
  BY <1>2, <1>4, <1>5, ClientPrints
<1>6. CASE ~Client
  <2>1. UNCHANGED <<pipe, open>> \/ (ReadLine /\ UNCHANGED open)
    BY <1>6 DEF Next, Run, Boot, Connect, WriteSettings, StartClient, Teardown,
       EndOfStream, StopClient, Disconnect, Interrupt, Killed, Dispatch, SkipLine,
       ApplyStart, ApplyDefault, ApplyEnd, Bridge, WriteField, ApplyDone, WriteFails,
       ClearRegister, ClearFails, RelinquishDone, vars, clientVars
  <2>. QED BY <1>2, <1>3, <2>1
<1>. QED BY <1>5, <1>6

\* With one event in force at a time, a start finds no other event in force after it
\* and an end leaves none.
LEMMA ReadOne ==
  ASSUME TypeOK, PipeInv, OneInv, ReadLine, UNCHANGED open, ~Malformed(Head(pipe))
  PROVE  /\ Head(pipe).type = "start" => Held' = {Head(pipe).mrid}
         /\ Head(pipe).type = "end" => Held' = {}
<1>1. /\ Len(pipe) \in Nat \ {0} /\ Len(pipe') = Len(pipe) - 1
      /\ Head(pipe) = pipe[1] /\ pipe[1] \in Line /\ pipe \in Seq(Line)
      /\ \A e : \A k \in 0 .. Len(pipe') :
           LiveIn(pipe', open', e, k) <=> LiveIn(pipe, open, e, k + 1)
  BY ReadView DEF TypeOK
<1>2. /\ 0 \in 0 .. Len(pipe') /\ 0 + 1 = 1 /\ 1 - 1 = 0
      /\ 0 \in 0 .. Len(pipe) /\ 1 \in 0 .. Len(pipe) /\ 1 \in 1 .. Len(pipe)
  BY <1>1
<1>3. \A e : LiveIn(pipe', open', e, 0) <=> LiveIn(pipe, open, e, 1)
  BY <1>1, <1>2
<1>4. OneAt(pipe, open, 0) /\ OneAt(pipe, open, 1) /\ LineOK(pipe, open, 1)
  BY <1>2 DEF OneInv, PipeInv
<1>5. ASSUME Head(pipe).type = "start" PROVE Held' = {Head(pipe).mrid}
  <2>1. Head(pipe).mrid \in Held' /\ Head(pipe).mrid \in Mrid
    BY <1>5, ReadHeld
  <2>2. \A e \in Held' : e = Head(pipe).mrid
    BY <1>3, <1>4, <2>1 DEF Held, HeldIn, OneAt
  <2>. QED BY <2>1, <2>2
<1>6. ASSUME Head(pipe).type = "end" PROVE Held' = {}
  <2> DEFINE x == pipe[1].mrid
  <2>1. x \in Mrid /\ EndsAt(pipe, x, 1) /\ ~LiveIn(pipe, open, x, 1)
    BY <1>1, <1>4, <1>6, LineType DEF EndsAt, LineOK
  <2>2. LiveIn(pipe, open, x, 0)
    BY <1>1, <1>2, <2>1, LiveStep
  <2> HIDE DEF x
  <2>3. ASSUME NEW e \in Mrid, LiveIn(pipe, open, e, 1) PROVE FALSE
    <3>1. e # x
      BY <2>1, <2>3
    <3>2. ~About(pipe, e, 1)
      BY <3>1 DEF About, x
    <3>3. LiveIn(pipe, open, e, 0)
      BY <1>1, <1>2, <2>3, <3>2, LiveStep
    <3>. QED BY <1>4, <2>1, <2>2, <3>1, <3>3 DEF OneAt
  <2>. QED BY <1>3, <2>3 DEF Held, HeldIn
<1>. QED BY <1>5, <1>6

LEMMA ForceDispatch == ASSUME BaseInv, OneInv, ForceInv, Dispatch PROVE ForceInv'
<1>1. /\ ReadLine /\ UNCHANGED <<open, phase, reg>> /\ TypeOK /\ PipeInv
      /\ phase = "loop" /\ op = "idle"
  BY DEF Dispatch, SkipLine, ApplyStart, ApplyDefault, ApplyEnd, ReadLine, BaseInv, IInv,
         mainVars, clientVars, bridgeVars
<1>2. CASE SkipLine
  <2>1. Held' = Held /\ UNCHANGED <<op, ctl>>
    BY <1>1, <1>2, ReadHeld DEF SkipLine, bridgeVars
  <2>. QED BY <1>1, <2>1 DEF ForceInv
<1>3. CASE ApplyStart
  <2>1. /\ Held' = {Head(pipe).mrid} /\ op' = "apply"
        /\ ctl' = ControlOf[Head(pipe).mrid]
    BY <1>1, <1>3, ReadOne DEF ApplyStart
  <2>. QED BY <2>1 DEF ForceInv
<1>4. CASE ApplyDefault
  BY <1>1, <1>4, ReadHeld DEF ApplyDefault, ForceInv
<1>5. CASE ApplyEnd
  BY <1>1, <1>5, ReadOne DEF ApplyEnd, ForceInv
<1>. QED BY <1>2, <1>3, <1>4, <1>5 DEF Dispatch

LEMMA ForceNext ==
  BaseInv /\ OneInv /\ ForceInv /\ [Next]_vars => ForceInv'
<1> SUFFICES ASSUME BaseInv, OneInv, ForceInv, [Next]_vars PROVE ForceInv'
  OBVIOUS
<1>1. CASE UNCHANGED vars
  BY <1>1 DEF vars, mainVars, bridgeVars, clientVars, ForceInv, Held
<1>2. CASE Client
  <2>1. Held' = Held /\ UNCHANGED <<mainVars, bridgeVars>>
    BY <1>2, ClientBase DEF Client, EmitStart, EmitEnd, EmitDefault, ChildExit
  <2>. QED BY <2>1 DEF ForceInv, mainVars, bridgeVars
<1>3. CASE Boot \/ Teardown \/ Interrupt \/ Killed
  <2>1. Held' = Held /\ (phase' = "loop" => phase = "ready")
    BY <1>3, MainBase DEF Boot, Connect, WriteSettings, StartClient, Teardown,
       EndOfStream, StopClient, Disconnect, Interrupt, Killed
  <2>2. phase = "ready" => Held = {}
    <3>1. phase = "ready" => pipe = <<>> /\ open = {} /\ pipe \in Seq(Line) /\ Len(pipe) = 0
      BY DEF BaseInv, FreshInv, IInv, TypeOK
    <3>. QED BY <3>1, LiveAll DEF Held, HeldIn
  <2>. QED BY <2>1, <2>2 DEF ForceInv
<1>4. CASE Dispatch
  BY <1>4, ForceDispatch
<1>5. CASE Bridge
  <2>1. Held' = Held /\ phase = "loop"
    BY <1>5, BridgeBase DEF Bridge, WriteField, ApplyDone, WriteFails, ClearRegister,
                            ClearFails, RelinquishDone
  <2>2. CASE WriteField
    BY <2>1, <2>2 DEF WriteField, ForceInv
  <2>3. CASE ApplyDone
    <3>1. op = "apply" /\ todo = {} /\ op' = "idle" /\ UNCHANGED reg
      BY <2>3 DEF ApplyDone
    <3>2. \A r \in RegistersOf(ctl) : reg[r] = Setpoint(ctl, r)
      BY <3>1 DEF BaseInv, ProgressInv
    <3>. QED BY <2>1, <3>1, <3>2 DEF ForceInv
  <2>4. CASE WriteFails
    BY <2>4 DEF WriteFails, ForceInv
  <2>5. CASE ClearRegister \/ ClearFails \/ RelinquishDone
    BY <2>1, <2>5 DEF ClearRegister, ClearFails, RelinquishDone, ForceInv
  <2>. QED BY <1>5, <2>2, <2>3, <2>4, <2>5 DEF Bridge
<1>. QED BY <1>1, <1>2, <1>3, <1>4, <1>5 DEF Next, Run

\* While the server has one event in force at a time, the device holds its set points
\* once the gateway has read all lines: whatever fields share a register, whatever the
\* defaults in between, and whichever events are lost because their lines are garbled.
\* (With two events at a time it does not: the end of one clears the other's.)
THEOREM InForce ==
  ASSUME MaxOpen = 1
  PROVE  Spec => []ControlInForce
<1> DEFINE Inv == BaseInv /\ OneInv /\ IsFiniteSet(open) /\ ForceInv
<1>1. Init => Inv
  <2> SUFFICES ASSUME Init PROVE Inv
    OBVIOUS
  <2>1. pipe = <<>> /\ pipe \in Seq(Line) /\ Len(pipe) = 0 /\ open = {}
    BY DEF Init
  <2>2. \A e : LiveIn(pipe, open, e, 0) <=> e \in open
    BY <2>1, LiveAll
  <2>3. OneInv
    BY <2>1, <2>2 DEF OneInv, OneAt
  <2>4. IsFiniteSet(open)
    BY <2>1, FS_EmptySet
  <2>. QED BY <2>3, <2>4, BaseInit DEF Init, ForceInv
<1>2. Inv /\ [Next]_vars => Inv'
  BY BaseNext, OneNext, ForceNext
<1>3. Inv => ControlInForce
  <2> SUFFICES ASSUME Inv, CaughtUp, NEW e \in open \ Garbled
               PROVE  \A r \in RegistersOf(ControlOf[e]) : reg[r] = Setpoint(ControlOf[e], r)
    BY DEF ControlInForce
  <2>1. pipe \in Seq(Line) /\ Len(pipe) = 0 /\ open \subseteq Mrid
    BY DEF CaughtUp, BaseInv, IInv, TypeOK
  <2>2. e \in Held
    BY <2>1, LiveAll DEF Held, HeldIn
  <2>. QED BY <2>2 DEF ForceInv, CaughtUp
<1>. QED BY <1>1, <1>2, <1>3, PTL DEF Spec
=============================================================================
