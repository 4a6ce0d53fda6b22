---------------------------- MODULE FoldInduction ----------------------------
(***************************************************************************)
(* Induction over the elements of a sequence that a loop goes through.     *)
(* Step(x, a, e) is what the loop does with element e in state a, where x  *)
(* is what it leaves alone.  Holds(x, seq, a, i) is what is to be known of *)
(* its state a after i elements of seq.  A module that has such a loop     *)
(* instantiates this one with both.                                        *)
(***************************************************************************)
EXTENDS SequencesExt, WellFoundedInduction, NaturalsInduction, TLAPS

CONSTANTS Step(_, _, _), Holds(_, _, _, _)

Loop(x, base, seq) == FoldLeft(LAMBDA a, e : Step(x, a, e), base, seq)

\* f gives the state after the elements at each set of places up to n, taken in
\* order: the recursion by which FoldLeft is defined.
Iterates(x, base, seq, f, n) ==
    f = [s \in SUBSET (1 .. n) |->
           IF s = {} THEN base ELSE Step(x, f[s \ {Max(s)}], seq[Max(s)])]

\* A set of numbers that is not empty has a least one,
LEMMA Least ==
  ASSUME NEW T, T \subseteq Nat, T # {}
  PROVE  \E n \in T : \A m \in T : ~(m < n)
<1>1. PICK n \in T : \A m \in T : ~(<<m, n>> \in OpToRel(<, Nat))
  BY WFMin, NatLessThanWellFounded
<1>. QED BY <1>1 DEF OpToRel

\* and a greatest one if it has a bound.
LEMMA Greatest ==
  ASSUME NEW n \in Nat, NEW s, s \subseteq 1 .. n, s # {}
  PROVE  Max(s) \in s /\ \A y \in s : Max(s) >= y
<1> DEFINE T == {m \in Nat : \A y \in s : y <= m}
<1>1. n \in T /\ T \subseteq Nat
  OBVIOUS
<1>2. PICK m \in T : \A k \in T : ~(k < m)
  BY <1>1, Least
<1>3. m \in s
  <2>1. SUFFICES ASSUME m \notin s PROVE FALSE
    OBVIOUS
  <2>2. PICK y \in s : TRUE
    OBVIOUS
  <2>3. m - 1 \in Nat /\ \A z \in s : z <= m - 1
    BY <2>1, <2>2
  <2>. QED BY <1>2, <2>3
<1>4. \E z \in s : \A y \in s : z >= y
  BY <1>2, <1>3
<1>. QED BY <1>4 DEF Max

\* The recursion has a solution.
LEMMA IteratesExists ==
  ASSUME NEW x, NEW base, NEW seq, NEW N \in Nat
  PROVE  \E f : Iterates(x, base, seq, f, N)
<1> DEFINE T == {n \in Nat : ~\E f : Iterates(x, base, seq, f, n)}
<1>1. SUFFICES ASSUME T # {} PROVE FALSE
  OBVIOUS
<1>2. PICK n \in T : \A m \in T : ~(m < n)
  BY <1>1, Least
<1>3. CASE n = 0
  <2> DEFINE f == [s \in SUBSET (1 .. 0) |-> base]
  <2>1. Iterates(x, base, seq, f, 0)
    <3>1. \A s \in SUBSET (1 .. 0) : s = {}
      OBVIOUS
    <3>. QED BY <3>1 DEF Iterates
  <2>. QED BY <1>2, <1>3, <2>1
<1>4. CASE n # 0
  <2>1. n - 1 \in Nat /\ n - 1 < n
    BY <1>4
  <2>2. PICK g : Iterates(x, base, seq, g, n - 1)
    BY <1>2, <2>1
  <2> DEFINE f == [s \in SUBSET (1 .. n) |->
                     IF s = {} THEN base ELSE Step(x, g[s \ {Max(s)}], seq[Max(s)])]
  <2>3. ASSUME NEW s \in SUBSET (1 .. n), s # {}
        PROVE  s \ {Max(s)} \in SUBSET (1 .. n - 1) /\ s \ {Max(s)} \in SUBSET (1 .. n)
    <3>1. n \in Nat /\ s \subseteq 1 .. n
      BY <2>1
    <3>2. Max(s) \in s /\ \A y \in s : Max(s) >= y
      BY <2>3, <3>1, Greatest
    <3>3. ASSUME NEW y \in s \ {Max(s)} PROVE y \in 1 .. n - 1
      <4>1. PICK m \in 1 .. n : m = Max(s)
        BY <3>1, <3>2
      <4>2. y \in 1 .. n /\ y # m /\ m >= y
        BY <3>1, <3>2, <4>1
      <4>. QED BY <3>1, <4>2
    <3>. QED BY <3>1, <3>3
  <2>4. ASSUME NEW s \in SUBSET (1 .. n - 1) PROVE f[s] = g[s]
    <3>1. s \in SUBSET (1 .. n)
      BY <2>1
    <3>. QED BY <2>2, <3>1 DEF Iterates
  <2>5. Iterates(x, base, seq, f, n)
    <3>1. \A s \in SUBSET (1 .. n) : s # {} => f[s \ {Max(s)}] = g[s \ {Max(s)}]
      BY <2>3, <2>4
    <3>. QED BY <3>1 DEF Iterates
  <2>. QED BY <1>2, <2>5
<1>. QED BY <1>3, <1>4

\* A loop does one step after the other.
LEMMA LoopSteps ==
  ASSUME NEW x, NEW base, NEW S, NEW seq \in Seq(S)
  PROVE  \E state : /\ state[0] = base /\ state[Len(seq)] = Loop(x, base, seq)
                    /\ \A i \in 1 .. Len(seq) : state[i] = Step(x, state[i - 1], seq[i])
<1> DEFINE f == CHOOSE g : Iterates(x, base, seq, g, Len(seq))
           state == [i \in 0 .. Len(seq) |-> f[1 .. i]]
<1>1. DOMAIN seq = 1 .. Len(seq) /\ Len(seq) \in Nat
  OBVIOUS
<1>2. Loop(x, base, seq) = f[1 .. Len(seq)]
  BY <1>1 DEF Loop, FoldLeft, MapThenFoldSet, Iterates
<1>3. Iterates(x, base, seq, f, Len(seq))
  BY <1>1, IteratesExists
<1> HIDE DEF f
<1>4. state[0] = base
  <2>1. 1 .. 0 = {} /\ {} \in SUBSET (1 .. Len(seq))
    OBVIOUS
  <2>. QED BY <1>1, <1>3, <2>1 DEF Iterates
<1>5. ASSUME NEW i \in 1 .. Len(seq) PROVE state[i] = Step(x, state[i - 1], seq[i])
  <2>1. /\ i \in Nat /\ 1 .. i \in SUBSET (1 .. Len(seq)) /\ i \in 1 .. i
        /\ i - 1 \in 0 .. Len(seq) /\ i \in 0 .. Len(seq)
    BY <1>1
  <2>2. Max(1 .. i) = i
    <3>1. Max(1 .. i) \in 1 .. i /\ \A y \in 1 .. i : Max(1 .. i) >= y
      BY <2>1, Greatest
    <3>. QED BY <2>1, <3>1
  <2>3. (1 .. i) \ {i} = 1 .. i - 1
    BY <2>1
  <2>4. f[1 .. i] = Step(x, f[(1 .. i) \ {Max(1 .. i)}], seq[Max(1 .. i)])
    BY <1>3, <2>1 DEF Iterates
  <2>. QED BY <2>1, <2>2, <2>3, <2>4
<1>6. state[Len(seq)] = Loop(x, base, seq)
  BY <1>1, <1>2
<1> HIDE DEF state
<1>. QED BY <1>4, <1>5, <1>6, Zenon

\* What holds before a loop and is kept by each of its steps holds after it.
THEOREM Induction ==
  ASSUME NEW x, NEW base, NEW S, NEW seq \in Seq(S),
         Holds(x, seq, base, 0),
         \A i \in 1 .. Len(seq) : \A a :
           Holds(x, seq, a, i - 1) => Holds(x, seq, Step(x, a, seq[i]), i)
  PROVE  Holds(x, seq, Loop(x, base, seq), Len(seq))
<1>1. PICK state : /\ state[0] = base /\ state[Len(seq)] = Loop(x, base, seq)
                   /\ \A i \in 1 .. Len(seq) : state[i] = Step(x, state[i - 1], seq[i])
  BY LoopSteps
<1> DEFINE T == {i \in 0 .. Len(seq) : ~Holds(x, seq, state[i], i)}
<1>2. Len(seq) \in Nat /\ Len(seq) \in 0 .. Len(seq)
  OBVIOUS
<1>3. SUFFICES ASSUME T # {} PROVE FALSE
  BY <1>1, <1>2
<1>4. PICK n \in T : \A m \in T : ~(m < n)
  <2>1. T \subseteq Nat
    OBVIOUS
  <2>. QED BY <1>3, <2>1, Least
<1>5. n # 0
  BY <1>1, <1>4
<1>6. n \in 1 .. Len(seq) /\ n - 1 \in 0 .. Len(seq) /\ n - 1 < n
  BY <1>4, <1>5
<1>7. Holds(x, seq, state[n - 1], n - 1)
  BY <1>4, <1>6
<1>8. Holds(x, seq, state[n], n)
  BY <1>1, <1>6, <1>7
<1>. QED BY <1>4, <1>8
=============================================================================
