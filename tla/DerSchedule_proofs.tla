------------------------- MODULE DerSchedule_proofs -------------------------
(***************************************************************************)
(* No two blocks in the active queue exercise the same control, and no     *)
(* DERControl that is over or in force goes back: proofs for every set of  *)
(* events and programs, whatever the server does and whenever.             *)
(***************************************************************************)
EXTENDS DerSchedule, FiniteSetTheorems, SequenceTheorems, WellFoundedInduction,
        NaturalsInduction, TLAPS

-----------------------------------------------------------------------------
(* Queues, and the lists they are filled from. *)

\* q is a queue of events, all of them in S.
Within(q, S) == q \in Seq(Event) /\ ToSet(q) \subseteq S

\* The events in a queue.
LEMMA InQueue ==
  ASSUME NEW q \in Seq(Event)
  PROVE  /\ ToSet(q) = {q[i] : i \in 1 .. Len(q)}
         /\ ToSet(q) \subseteq Event
         /\ Len(q) \in Nat
  BY DEF ToSet

\* A part of a queue,
LEMMA PartWithin ==
  ASSUME NEW q \in Seq(Event), NEW m \in 1 .. Len(q) + 1, NEW n \in m - 1 .. Len(q)
  PROVE  Within(SubSeq(q, m, n), ToSet(q))
<1> DEFINE r == SubSeq(q, m, n)
<1>1. /\ r \in Seq(Event) /\ Len(r) = IF m <= n THEN n - m + 1 ELSE 0
      /\ \A i \in 1 .. n - m + 1 : r[i] = q[m + i - 1]
  BY SubSeqProperties
<1>2. Len(q) \in Nat /\ m \in Nat /\ n \in Int
  OBVIOUS
<1> HIDE DEF r
<1>3. ASSUME NEW i \in 1 .. Len(r) PROVE \E j \in 1 .. Len(q) : r[i] = q[j]
  <2>1. i \in 1 .. n - m + 1 /\ m + i - 1 \in 1 .. Len(q)
    BY <1>1, <1>2
  <2>. QED BY <1>1, <2>1
<1>4. ToSet(r) = {r[i] : i \in 1 .. Len(r)} /\ ToSet(q) = {q[i] : i \in 1 .. Len(q)}
  BY <1>1, InQueue
<1>. QED BY <1>1, <1>3, <1>4 DEF Within, r

\* which has the events at its places,
LEMMA PartMembers ==
  ASSUME NEW q \in Seq(Event), NEW m \in 1 .. Len(q) + 1, NEW n \in m - 1 .. Len(q)
  PROVE  ToSet(SubSeq(q, m, n)) = {q[i] : i \in m .. n}
<1> DEFINE r == SubSeq(q, m, n)
<1>1. /\ r \in Seq(Event) /\ Len(r) = IF m <= n THEN n - m + 1 ELSE 0
      /\ \A i \in 1 .. n - m + 1 : r[i] = q[m + i - 1]
  BY SubSeqProperties
<1>2. Len(q) \in Nat /\ m \in Nat /\ n \in Int
  OBVIOUS
<1> HIDE DEF r
<1>3. ToSet(r) = {r[i] : i \in 1 .. Len(r)}
  BY <1>1, InQueue
<1>4. ASSUME NEW i \in 1 .. Len(r) PROVE r[i] \in {q[j] : j \in m .. n}
  <2>1. i \in 1 .. n - m + 1 /\ m + i - 1 \in m .. n
    BY <1>1, <1>2
  <2>. QED BY <1>1, <2>1
<1>5. ASSUME NEW j \in m .. n PROVE q[j] \in {r[i] : i \in 1 .. Len(r)}
  <2>1. j - m + 1 \in 1 .. Len(r) /\ m + (j - m + 1) - 1 = j
    BY <1>1, <1>2
  <2>2. r[j - m + 1] = q[j]
    BY <1>1, <1>2, <2>1
  <2>. QED BY <2>1, <2>2
<1>. QED BY <1>3, <1>4, <1>5 DEF r

\* each once if the queue has,
LEMMA PartOnce ==
  ASSUME NEW q \in Seq(Event), IsInjective(q),
         NEW m \in 1 .. Len(q) + 1, NEW n \in m - 1 .. Len(q)
  PROVE  IsInjective(SubSeq(q, m, n))
<1> DEFINE r == SubSeq(q, m, n)
<1>1. /\ r \in Seq(Event) /\ Len(r) = IF m <= n THEN n - m + 1 ELSE 0
      /\ \A i \in 1 .. n - m + 1 : r[i] = q[m + i - 1]
  BY SubSeqProperties
<1>2. Len(q) \in Nat /\ m \in Nat /\ n \in Int
  OBVIOUS
<1> HIDE DEF r
<1>3. ASSUME NEW i \in 1 .. Len(r), NEW j \in 1 .. Len(r), r[i] = r[j] PROVE i = j
  <2>1. /\ i \in 1 .. n - m + 1 /\ m + i - 1 \in 1 .. Len(q)
        /\ j \in 1 .. n - m + 1 /\ m + j - 1 \in 1 .. Len(q)
    BY <1>1, <1>2
  <2>2. q[m + i - 1] = q[m + j - 1]
    BY <1>1, <1>3, <2>1
  <2>3. m + i - 1 = m + j - 1
    BY <2>1, <2>2 DEF IsInjective
  <2>. QED BY <1>2, <2>3
<1>4. DOMAIN r = 1 .. Len(r)
  BY <1>1
<1>. QED BY <1>3, <1>4 DEF IsInjective, r

\* and one queue behind another.
LEMMA JoinWithin ==
  ASSUME NEW q, NEW r, NEW S, Within(q, S), Within(r, S)
  PROVE  Within(q \o r, S)
<1>1. /\ q \o r \in Seq(Event) /\ Len(q \o r) = Len(q) + Len(r)
      /\ \A i \in 1 .. Len(q) + Len(r) :
            (q \o r)[i] = IF i <= Len(q) THEN q[i] ELSE r[i - Len(q)]
  BY ConcatProperties DEF Within
<1>2. Len(q) \in Nat /\ Len(r) \in Nat
  BY DEF Within
<1>3. ASSUME NEW i \in 1 .. Len(q \o r) PROVE (q \o r)[i] \in ToSet(q) \union ToSet(r)
  <2>1. CASE i <= Len(q)
    BY <1>1, <1>2, <2>1, InQueue DEF Within
  <2>2. CASE i > Len(q)
    <3>1. i - Len(q) \in 1 .. Len(r)
      BY <1>1, <1>2, <2>2
    <3>. QED BY <1>1, <1>2, <2>2, <3>1, InQueue DEF Within
  <2>. QED BY <1>1, <1>2, <2>1, <2>2
<1>4. ToSet(q \o r) = {(q \o r)[i] : i \in 1 .. Len(q \o r)}
  BY <1>1, InQueue
<1>. QED BY <1>1, <1>3, <1>4 DEF Within

LEMMA JoinOnce ==
  ASSUME NEW q \in Seq(Event), NEW r \in Seq(Event), IsInjective(q), IsInjective(r),
         ToSet(q) \intersect ToSet(r) = {}
  PROVE  IsInjective(q \o r)
<1> DEFINE z == q \o r
<1>1. /\ z \in Seq(Event) /\ Len(z) = Len(q) + Len(r)
      /\ \A i \in 1 .. Len(q) + Len(r) :
            z[i] = IF i <= Len(q) THEN q[i] ELSE r[i - Len(q)]
  BY ConcatProperties
<1>2. Len(q) \in Nat /\ Len(r) \in Nat
  OBVIOUS
<1> HIDE DEF z
<1>3. ASSUME NEW i \in 1 .. Len(q), NEW j \in 1 .. Len(r) PROVE q[i] # r[j]
  BY InQueue
<1>4. ASSUME NEW i \in 1 .. Len(z), NEW j \in 1 .. Len(z), z[i] = z[j] PROVE i = j
  <2>1. CASE i <= Len(q) /\ j <= Len(q)
    <3>1. i \in 1 .. Len(q) /\ j \in 1 .. Len(q) /\ q[i] = q[j]
      BY <1>1, <1>2, <1>4, <2>1
    <3>. QED BY <3>1 DEF IsInjective
  <2>2. CASE i > Len(q) /\ j > Len(q)
    <3>1. /\ i - Len(q) \in 1 .. Len(r) /\ j - Len(q) \in 1 .. Len(r)
          /\ r[i - Len(q)] = r[j - Len(q)]
      BY <1>1, <1>2, <1>4, <2>2
    <3>2. i - Len(q) = j - Len(q)
      BY <3>1 DEF IsInjective
    <3>. QED BY <1>2, <3>2
  <2>3. CASE i <= Len(q) /\ j > Len(q)
    <3>1. i \in 1 .. Len(q) /\ j - Len(q) \in 1 .. Len(r) /\ q[i] = r[j - Len(q)]
      BY <1>1, <1>2, <1>4, <2>3
    <3>. QED BY <1>3, <3>1
  <2>4. CASE i > Len(q) /\ j <= Len(q)
    <3>1. i - Len(q) \in 1 .. Len(r) /\ j \in 1 .. Len(q) /\ r[i - Len(q)] = q[j]
      BY <1>1, <1>2, <1>4, <2>4
    <3>. QED BY <1>3, <3>1
  <2>. QED BY <1>1, <1>2, <2>1, <2>2, <2>3, <2>4
<1>5. DOMAIN z = 1 .. Len(z)
  BY <1>1
<1>. QED BY <1>4, <1>5 DEF IsInjective, z

\* The parts before a place and from another on have nothing in common.
LEMMA PartsApart ==
  ASSUME NEW q \in Seq(Event), IsInjective(q),
         NEW n \in 0 .. Len(q), NEW m \in n + 1 .. Len(q) + 1
  PROVE  /\ ToSet(SubSeq(q, 1, n)) \intersect ToSet(SubSeq(q, m, Len(q))) = {}
         /\ \A k \in 1 .. Len(q) : n < k /\ k < m =>
              q[k] \notin ToSet(SubSeq(q, 1, n)) \union ToSet(SubSeq(q, m, Len(q)))
<1>1. Len(q) \in Nat /\ n \in Nat /\ m \in Nat
  OBVIOUS
<1>2. /\ 1 \in 1 .. Len(q) + 1 /\ n \in 1 - 1 .. Len(q)
      /\ m \in 1 .. Len(q) + 1 /\ Len(q) \in m - 1 .. Len(q)
  BY <1>1
<1>3. /\ ToSet(SubSeq(q, 1, n)) = {q[i] : i \in 1 .. n}
      /\ ToSet(SubSeq(q, m, Len(q))) = {q[i] : i \in m .. Len(q)}
  BY <1>2, PartMembers
<1>4. \A i, j \in 1 .. Len(q) : q[i] = q[j] => i = j
  BY DEF IsInjective
<1>5. 1 .. n \subseteq 1 .. Len(q) /\ m .. Len(q) \subseteq 1 .. Len(q)
  BY <1>1
<1>6. ASSUME NEW i \in 1 .. n, NEW j \in m .. Len(q) PROVE q[i] # q[j]
  BY <1>1, <1>4, <1>5
<1>7. ASSUME NEW k \in 1 .. Len(q), n < k, k < m
      PROVE  (\A i \in 1 .. n : q[i] # q[k]) /\ (\A j \in m .. Len(q) : q[j] # q[k])
  BY <1>1, <1>4, <1>5, <1>7
<1>. QED BY <1>3, <1>6, <1>7

\* A set of numbers that is not empty has a least one, which Min chooses.
LEMMA MinOf ==
  ASSUME NEW T, T \subseteq Nat, T # {}
  PROVE  Min(T) \in T /\ \A m \in T : Min(T) <= m
<1>1. PICK n \in T : \A m \in T : ~(<<m, n>> \in OpToRel(<, Nat))
  BY WFMin, NatLessThanWellFounded
<1>2. \A m \in T : ~(m < n)
  BY <1>1 DEF OpToRel
<1>3. \A m \in T : n <= m
  BY <1>2
<1>. QED BY <1>3 DEF Min

\* list_remove takes an element out of a queue,
LEMMA RemoveWithin ==
  ASSUME NEW q \in Seq(Event), NEW e
  PROVE  Within(RemoveFirst(q, e), ToSet(q))
<1> DEFINE T == {i \in 1 .. Len(q) : q[i] = e}
           k == Min(T)
<1>1. CASE T = {}
  <2>1. RemoveFirst(q, e) = q
    BY <1>1 DEF RemoveFirst
  <2>. QED BY <2>1 DEF Within
<1>2. CASE T # {}
  <2>1. k \in 1 .. Len(q) /\ Len(q) \in Nat
    <3>1. T \subseteq Nat /\ Len(q) \in Nat
      OBVIOUS
    <3>. QED BY <1>2, <3>1, MinOf
  <2>2. RemoveFirst(q, e) = SubSeq(q, 1, k - 1) \o SubSeq(q, k + 1, Len(q))
    BY <1>2 DEF RemoveFirst, RemoveAt, SelectInSeq
  <2> HIDE DEF k
  <2>3. Within(SubSeq(q, 1, k - 1), ToSet(q))
    BY <2>1, PartWithin
  <2>4. Within(SubSeq(q, k + 1, Len(q)), ToSet(q))
    BY <2>1, PartWithin
  <2>. QED BY <2>2, <2>3, <2>4, JoinWithin
<1>. QED BY <1>1, <1>2

\* which is gone then if the queue had it once,
LEMMA RemoveOnce ==
  ASSUME NEW q \in Seq(Event), NEW e, IsInjective(q)
  PROVE  IsInjective(RemoveFirst(q, e)) /\ e \notin ToSet(RemoveFirst(q, e))
<1> DEFINE T == {i \in 1 .. Len(q) : q[i] = e}
           k == Min(T)
<1>1. CASE T = {}
  <2>1. RemoveFirst(q, e) = q
    BY <1>1 DEF RemoveFirst
  <2>2. \A i \in 1 .. Len(q) : q[i] # e
    BY <1>1
  <2>. QED BY <2>1, <2>2, InQueue
<1>2. CASE T # {}
  <2>1. k \in T /\ T \subseteq 1 .. Len(q) /\ Len(q) \in Nat
    <3>1. T \subseteq Nat /\ Len(q) \in Nat
      OBVIOUS
    <3>. QED BY <1>2, <3>1, MinOf
  <2>2. RemoveFirst(q, e) = SubSeq(q, 1, k - 1) \o SubSeq(q, k + 1, Len(q))
    BY <1>2 DEF RemoveFirst, RemoveAt, SelectInSeq
  <2>3. k \in 1 .. Len(q) /\ q[k] = e
    BY <2>1
  <2> HIDE DEF k
  <2> DEFINE a == SubSeq(q, 1, k - 1)
             b == SubSeq(q, k + 1, Len(q))
  <2>4. /\ 1 \in 1 .. Len(q) + 1 /\ k - 1 \in 1 - 1 .. Len(q) /\ k - 1 \in 0 .. Len(q)
        /\ k + 1 \in 1 .. Len(q) + 1 /\ Len(q) \in (k + 1) - 1 .. Len(q)
        /\ k + 1 \in (k - 1) + 1 .. Len(q) + 1 /\ k - 1 < k /\ k < k + 1
    BY <2>1, <2>3
  <2>5. IsInjective(a) /\ IsInjective(b)
    BY <2>4, PartOnce
  <2>6. Within(a, ToSet(q)) /\ Within(b, ToSet(q))
    BY <2>4, PartWithin
  <2>7. ToSet(a) \intersect ToSet(b) = {} /\ e \notin ToSet(a) \union ToSet(b)
    BY <2>3, <2>4, PartsApart
  <2> HIDE DEF a, b
  <2>8. IsInjective(a \o b)
    BY <2>5, <2>6, <2>7, JoinOnce DEF Within
  <2>9. ToSet(a \o b) \subseteq ToSet(a) \union ToSet(b)
    <3>1. Within(a, ToSet(a) \union ToSet(b)) /\ Within(b, ToSet(a) \union ToSet(b))
      BY <2>6 DEF Within
    <3>. QED BY <3>1, JoinWithin DEF Within
  <2>10. RemoveFirst(q, e) = a \o b
    BY <2>2 DEF a, b
  <2>. QED BY <2>7, <2>8, <2>9, <2>10
<1>. QED BY <1>1, <1>2

\* insert_active goes on behind one,
LEMMA AfterWithin ==
  ASSUME NEW q \in Seq(Event), NEW e \in ToSet(q)
  PROVE  Within(After(q, e), ToSet(q))
<1> DEFINE k == CHOOSE j \in 1 .. Len(q) : q[j] = e
<1>1. k \in 1 .. Len(q) /\ Len(q) \in Nat
  BY InQueue
<1>2. After(q, e) = SubSeq(q, k + 1, Len(q))
  BY DEF After
<1> HIDE DEF k
<1>. QED BY <1>1, <1>2, PartWithin

\* insert_sorted and link_insert put one into a queue,
LEMMA OneWithin ==
  ASSUME NEW e \in Event, NEW S
  PROVE  Within(<<e>>, S \union {e})
<1>1. <<e>> \in Seq(Event) /\ Len(<<e>>) = 1 /\ <<e>>[1] = e
  OBVIOUS
<1>2. ToSet(<<e>>) = {<<e>>[i] : i \in 1 .. 1}
  BY <1>1, InQueue
<1>. QED BY <1>1, <1>2 DEF Within

LEMMA InsertWithin ==
  ASSUME NEW q \in Seq(Event), NEW e \in Event, NEW key
  PROVE  Within(InsertSorted(q, e, key), ToSet(q) \union {e})
<1> DEFINE T == {i \in 1 .. Len(q) : key[e] <= key[q[i]]}
           k == IF T = {} THEN Len(q) + 1 ELSE Min(T)
<1>1. k \in 1 .. Len(q) + 1 /\ Len(q) \in Nat
  <2>1. T \subseteq Nat /\ T \subseteq 1 .. Len(q) /\ Len(q) \in Nat
    OBVIOUS
  <2>2. CASE T = {}
    BY <2>1, <2>2
  <2>3. CASE T # {}
    <3>1. Min(T) \in T
      BY <2>1, <2>3, MinOf
    <3>. QED BY <2>1, <2>3, <3>1
  <2>. QED BY <2>2, <2>3
<1>2. InsertSorted(q, e, key) = SubSeq(q, 1, k - 1) \o <<e>> \o SubSeq(q, k, Len(q))
  BY DEF InsertSorted, InsertAt
<1> HIDE DEF k
<1> DEFINE S == ToSet(q) \union {e}
<1>3. Within(SubSeq(q, 1, k - 1), S) /\ Within(SubSeq(q, k, Len(q)), S)
  <2>1. Within(SubSeq(q, 1, k - 1), ToSet(q))
    BY <1>1, PartWithin
  <2>2. Within(SubSeq(q, k, Len(q)), ToSet(q))
    BY <1>1, PartWithin
  <2>. QED BY <2>1, <2>2 DEF Within
<1>4. Within(<<e>>, S)
  BY OneWithin
<1> HIDE DEF S
<1>5. Within(SubSeq(q, 1, k - 1) \o <<e>>, S)
  BY <1>3, <1>4, JoinWithin
<1>6. Within(SubSeq(q, 1, k - 1) \o <<e>> \o SubSeq(q, k, Len(q)), S)
  BY <1>3, <1>5, JoinWithin
<1>. QED BY <1>2, <1>6 DEF S

LEMMA PushWithin ==
  ASSUME NEW q \in Seq(Event), NEW e \in Event
  PROVE  Within(<<e>> \o q, ToSet(q) \union {e})
<1>1. Within(q, ToSet(q) \union {e}) /\ Within(<<e>>, ToSet(q) \union {e})
  BY OneWithin DEF Within
<1>. QED BY <1>1, JoinWithin

\* once if it was not there,
LEMMA InsertOnce ==
  ASSUME NEW q \in Seq(Event), IsInjective(q), NEW e \in Event, e \notin ToSet(q), NEW key
  PROVE  IsInjective(InsertSorted(q, e, key))
<1> DEFINE T == {i \in 1 .. Len(q) : key[e] <= key[q[i]]}
           k == IF T = {} THEN Len(q) + 1 ELSE Min(T)
<1>1. k \in 1 .. Len(q) + 1 /\ Len(q) \in Nat
  <2>1. T \subseteq Nat /\ T \subseteq 1 .. Len(q) /\ Len(q) \in Nat
    OBVIOUS
  <2>2. CASE T = {}
    BY <2>1, <2>2
  <2>3. CASE T # {}
    <3>1. Min(T) \in T
      BY <2>1, <2>3, MinOf
    <3>. QED BY <2>1, <2>3, <3>1
  <2>. QED BY <2>2, <2>3
<1>2. InsertSorted(q, e, key) = SubSeq(q, 1, k - 1) \o <<e>> \o SubSeq(q, k, Len(q))
  BY DEF InsertSorted, InsertAt
<1> HIDE DEF k
<1> DEFINE a == SubSeq(q, 1, k - 1)
           b == SubSeq(q, k, Len(q))
<1>3. /\ 1 \in 1 .. Len(q) + 1 /\ k - 1 \in 1 - 1 .. Len(q) /\ k - 1 \in 0 .. Len(q)
      /\ Len(q) \in k - 1 .. Len(q) /\ k \in (k - 1) + 1 .. Len(q) + 1
  BY <1>1
<1>4. IsInjective(a) /\ IsInjective(b)
  BY <1>1, <1>3, PartOnce
<1>5. Within(a, ToSet(q)) /\ Within(b, ToSet(q))
  BY <1>1, <1>3, PartWithin
<1>6. ToSet(a) \intersect ToSet(b) = {}
  BY <1>3, PartsApart
<1> HIDE DEF a, b
<1>7. <<e>> \in Seq(Event) /\ ToSet(<<e>>) \subseteq {e} /\ IsInjective(<<e>>)
  <2>1. Within(<<e>>, {} \union {e})
    BY OneWithin
  <2>2. IsInjective(<<e>>)
    BY DEF IsInjective
  <2>. QED BY <2>1, <2>2 DEF Within
<1>8. IsInjective(a \o <<e>>)
  BY <1>4, <1>5, <1>7, JoinOnce DEF Within
<1>9. Within(a \o <<e>>, ToSet(a) \union {e})
  <2>1. Within(a, ToSet(a) \union {e}) /\ Within(<<e>>, ToSet(a) \union {e})
    BY <1>5, <1>7 DEF Within
  <2>. QED BY <2>1, JoinWithin
<1>10. IsInjective(a \o <<e>> \o b)
  <2>1. ToSet(a \o <<e>>) \intersect ToSet(b) = {}
    BY <1>5, <1>6, <1>9 DEF Within
  <2>. QED BY <1>4, <1>5, <1>8, <1>9, <2>1, JoinOnce DEF Within
<1>. QED BY <1>2, <1>10 DEF a, b

\* and update_schedule divides one.
LEMMA DueWithin ==
  ASSUME NEW q \in Seq(Event), NEW due
  PROVE  /\ Within(DuePrefix(q, due), ToSet(q))
         /\ Within(Behind(q, due), ToSet(q))
         /\ IsInjective(q) =>
              /\ IsInjective(DuePrefix(q, due)) /\ IsInjective(Behind(q, due))
              /\ ToSet(DuePrefix(q, due)) \intersect ToSet(Behind(q, due)) = {}
<1> DEFINE T == {i \in 1 .. Len(q) : q[i] \notin due}
           k == IF T = {} THEN Len(q) ELSE Min(T) - 1
<1>1. k \in 0 .. Len(q) /\ Len(q) \in Nat
  <2>1. T \subseteq Nat /\ T \subseteq 1 .. Len(q) /\ Len(q) \in Nat
    OBVIOUS
  <2>2. CASE T = {}
    BY <2>1, <2>2
  <2>3. CASE T # {}
    <3>1. Min(T) \in T
      BY <2>1, <2>3, MinOf
    <3>. QED BY <2>1, <2>3, <3>1
  <2>. QED BY <2>2, <2>3
<1>2. DuePrefix(q, due) = SubSeq(q, 1, k)
  BY DEF DuePrefix
<1> HIDE DEF k
<1>3. Within(SubSeq(q, 1, k), ToSet(q)) /\ Len(SubSeq(q, 1, k)) = k
  <2>1. k \in 1 - 1 .. Len(q) /\ 1 \in 1 .. Len(q) + 1
    BY <1>1
  <2>2. Len(SubSeq(q, 1, k)) = IF 1 <= k THEN k - 1 + 1 ELSE 0
    BY <2>1, SubSeqProperties
  <2>. QED BY <1>1, <2>1, <2>2, PartWithin
<1>4. Within(SubSeq(q, k + 1, Len(q)), ToSet(q))
  BY <1>1, PartWithin
<1>5. ASSUME IsInjective(q)
      PROVE  /\ IsInjective(SubSeq(q, 1, k)) /\ IsInjective(SubSeq(q, k + 1, Len(q)))
             /\ ToSet(SubSeq(q, 1, k)) \intersect ToSet(SubSeq(q, k + 1, Len(q))) = {}
  <2>1. /\ k + 1 \in 1 .. Len(q) + 1 /\ Len(q) \in (k + 1) - 1 .. Len(q)
        /\ k + 1 \in k + 1 .. Len(q) + 1
        /\ 1 \in 1 .. Len(q) + 1 /\ k \in 1 - 1 .. Len(q)
    BY <1>1
  <2>. QED BY <1>1, <1>5, <2>1, PartOnce, PartsApart
<1>6. Len(DuePrefix(q, due)) = k
  BY <1>2, <1>3
<1>7. Behind(q, due) = SubSeq(q, k + 1, Len(q))
  BY <1>6 DEF Behind
<1>. QED BY <1>2, <1>3, <1>4, <1>5, <1>7

\* A list of the elements of a set in an order in which no two are equal.
LEMMA ListingType ==
  ASSUME NEW S, IsFiniteSet(S), NEW order,
         \A e \in S : <<e, e>> \notin order,
         \A e, f \in S : e # f => <<e, f>> \in order \/ <<f, e>> \in order,
         \A e, f, g \in S : <<e, f>> \in order /\ <<f, g>> \in order => <<e, g>> \in order
  PROVE  Listing(S, order) \in Seq(S) /\ IsInjective(Listing(S, order))
<1> DEFINE n == Cardinality(S)
           Before(e) == {f \in S : <<f, e>> \in order}
           rank(e) == Cardinality(Before(e))
<1>1. n \in Nat
  BY FS_CardinalityType
<1>2. ASSUME NEW e \in S
      PROVE  IsFiniteSet(Before(e)) /\ rank(e) \in Nat /\ rank(e) <= n - 1
  <2>1. IsFiniteSet(S \ {e}) /\ Cardinality(S \ {e}) = n - 1
    BY FS_RemoveElement
  <2>2. Before(e) \subseteq S \ {e}
    OBVIOUS
  <2>3. IsFiniteSet(Before(e)) /\ Cardinality(Before(e)) <= Cardinality(S \ {e})
    BY <2>1, <2>2, FS_Subset
  <2>. QED BY <2>1, <2>3, FS_CardinalityType
<1>3. ASSUME NEW e \in S, NEW f \in S, <<e, f>> \in order
      PROVE  rank(e) < rank(f)
  <2>1. e \in Before(f) /\ Before(e) \subseteq Before(f) \ {e}
    BY <1>3
  <2>2. /\ IsFiniteSet(Before(f) \ {e})
        /\ Cardinality(Before(f) \ {e}) = Cardinality(Before(f)) - 1
    BY <1>2, <2>1, FS_RemoveElement
  <2>3. Cardinality(Before(e)) <= Cardinality(Before(f) \ {e})
    BY <2>1, <2>2, FS_Subset
  <2>4. rank(e) \in Nat /\ rank(f) \in Nat
    BY <1>2
  <2>. QED BY <2>2, <2>3, <2>4
<1>4. Listing(S, order) = [i \in 1 .. n |-> CHOOSE e \in S : rank(e) = i - 1]
  BY DEF Listing
<1> HIDE DEF rank
<1>5. ASSUME NEW e \in S, NEW f \in S, e # f PROVE rank(e) # rank(f)
  <2>1. rank(e) \in Nat /\ rank(f) \in Nat
    BY <1>2
  <2>2. <<e, f>> \in order \/ <<f, e>> \in order
    BY <1>5
  <2>3. rank(e) < rank(f) \/ rank(f) < rank(e)
    BY <1>3, <2>2
  <2>. QED BY <2>1, <2>3
<1>6. ASSUME NEW k \in 0 .. n - 1 PROVE \E e \in S : rank(e) = k
  <2> DEFINE T == (0 .. n - 1) \ {k}
             place == [e \in S |-> rank(e)]
  <2>1. SUFFICES ASSUME \A e \in S : rank(e) # k PROVE FALSE
    OBVIOUS
  <2>2. IsFiniteSet(0 .. n - 1) /\ Cardinality(0 .. n - 1) = n
    <3>1. 0 \in Int /\ n - 1 \in Int
      BY <1>1
    <3>2. /\ IsFiniteSet(0 .. n - 1)
          /\ Cardinality(0 .. n - 1) = IF 0 > n - 1 THEN 0 ELSE n - 1 - 0 + 1
      BY <3>1, FS_Interval
    <3>. QED BY <1>1, <3>2
  <2>4. IsFiniteSet(T) /\ Cardinality(T) = n - 1
    BY <2>2, FS_RemoveElement, ZenonT(30)
  <2>5. place \in [S -> T]
    <3>1. ASSUME NEW e \in S PROVE rank(e) \in T
      <4>1. rank(e) \in Nat /\ rank(e) <= n - 1 /\ rank(e) # k
        BY <1>2, <2>1, Zenon
      <4> HIDE DEF n
      <4>. QED BY <1>1, <4>1
    <3>. QED BY <3>1
  <2>6. Cardinality(T) < Cardinality(S)
    BY <1>1, <2>4
  <2>7. \A e \in S : place[e] = rank(e)
    OBVIOUS
  <2> HIDE DEF T, place
  <2>8. \E e, f \in S : e # f /\ place[e] = place[f]
    BY <2>4, <2>5, <2>6, FS_PigeonHole
  <2>. QED BY <1>5, <2>7, <2>8
<1> DEFINE nth(i) == CHOOSE e \in S : rank(e) = i - 1
<1>7. ASSUME NEW i \in 1 .. n PROVE nth(i) \in S /\ rank(nth(i)) = i - 1
  <2>1. PICK k \in 0 .. n - 1 : k = i - 1
    BY <1>1
  <2>. QED BY <1>6, <2>1
<1>8. Listing(S, order) = [i \in 1 .. n |-> nth(i)]
  BY <1>4
<1> HIDE DEF nth
<1>9. ASSUME NEW i \in 1 .. n, NEW j \in 1 .. n, nth(i) = nth(j) PROVE i = j
  <2>1. rank(nth(i)) = i - 1 /\ rank(nth(j)) = j - 1
    BY <1>7
  <2>2. i - 1 = j - 1
    BY <1>9, <2>1
  <2>. QED BY <1>1, <2>2
<1> HIDE DEF n
<1>10. IsInjective(Listing(S, order))
  BY <1>8, <1>9 DEF IsInjective
<1>. QED BY <1>1, <1>7, <1>8, <1>10

\* insert_stub orders DERControls by start, creationTime and mRID, of which no two have all.
LEMMA ControlsType ==
  ASSUME NEW S \in SUBSET Event
  PROVE  Controls(S) \in Seq(Event) /\ ToSet(Controls(S)) \subseteq S /\ IsInjective(Controls(S))
<1>1. IsFiniteSet(S)
  BY DerAssumption, FS_Subset DEF DerAssumption
<1>2. ASSUME NEW e \in Event
      PROVE  e \in Nat /\ Interval[e].start \in Nat /\ Creation[e] \in Nat
  BY DerAssumption DEF DerAssumption
<1>3. \A e \in S : <<e, e>> \notin ControlOrder
  BY <1>2 DEF ControlOrder
<1>4. \A e, f \in S : e # f => <<e, f>> \in ControlOrder \/ <<f, e>> \in ControlOrder
  BY <1>2 DEF ControlOrder
<1>5. \A e, f, g \in S : <<e, f>> \in ControlOrder /\ <<f, g>> \in ControlOrder
                           => <<e, g>> \in ControlOrder
  BY <1>2 DEF ControlOrder
<1>6. Controls(S) \in Seq(S) /\ IsInjective(Controls(S))
  BY <1>1, <1>3, <1>4, <1>5, ListingType DEF Controls
<1>. QED BY <1>6 DEF ToSet

\* insert_stub orders DERPrograms by primacy and mRID.
LEMMA ProgramsType ==
  ASSUME NEW t
  PROVE  /\ Programs(t) \in Seq(Program) /\ ToSet(Programs(t)) \subseteq Program
         /\ IsInjective(Programs(t))
<1> DEFINE S == {p \in Program : t.lst[p].live}
<1>1. IsFiniteSet(S)
  BY DerAssumption, FS_Subset DEF DerAssumption
<1>2. ASSUME NEW p \in Program
      PROVE  p \in Nat /\ Primacy[p] \in Nat
  BY DerAssumption DEF DerAssumption
<1>3. \A p \in S : <<p, p>> \notin ProgramOrder
  BY <1>2 DEF ProgramOrder
<1>4. \A p, q \in S : p # q => <<p, q>> \in ProgramOrder \/ <<q, p>> \in ProgramOrder
  BY <1>2 DEF ProgramOrder
<1>5. \A p, q, r \in S : <<p, q>> \in ProgramOrder /\ <<q, r>> \in ProgramOrder
                           => <<p, r>> \in ProgramOrder
  BY <1>2 DEF ProgramOrder
<1>6. Programs(t) \in Seq(S) /\ IsInjective(Programs(t))
  <2> HIDE DEF S
  <2>1. Listing(S, ProgramOrder) \in Seq(S) /\ IsInjective(Listing(S, ProgramOrder))
    BY <1>1, <1>3, <1>4, <1>5, ListingType
  <2>. QED BY <2>1 DEF Programs, S
<1>. QED BY <1>6 DEF ToSet

-----------------------------------------------------------------------------
(* The parts of the client's state that matter, and what leaves them alone. *)

Fields == {"blk", "scheduled", "active", "superseded", "stub", "lst"}

Blocks(blocks) ==
    /\ DOMAIN blocks = Event
    /\ \A e \in Event : {"status", "der", "start", "end"} \subseteq DOMAIN blocks[e]

Stubs(stubs) ==
    /\ DOMAIN stubs = Event
    /\ \A e \in Event : {"status", "completion"} \subseteq DOMAIN stubs[e]

Lists(lists) ==
    /\ DOMAIN lists = Program
    /\ \A p \in Program : /\ {"reqs", "old"} \subseteq DOMAIN lists[p]
                          /\ lists[p].reqs \subseteq Event /\ lists[p].old \subseteq Event

Shape(t) ==
    /\ Fields \subseteq DOMAIN t
    /\ Blocks(t.blk) /\ Stubs(t.stub) /\ Lists(t.lst)
    /\ t.scheduled \in Seq(Event) /\ t.active \in Seq(Event) /\ t.superseded \in Seq(Event)

InQueues(t) == ToSet(t.scheduled) \union ToSet(t.active) \union ToSet(t.superseded)

\* No control is exercised by two active blocks.
Exclusive(t) ==
    \A e, f \in ToSet(t.active) : e # f => t.blk[e].der \intersect t.blk[f].der = {}

\* What the server says of an event that it has not activated.
Early == {"unpublished", "Scheduled"}

\* What the client has been told of an event: it is not active before the server
\* has said so, after which neither the server nor the Stub goes back to Scheduled;
\* and the Stub completes on its own only while the event has a block.
Told(s, t) ==
    \A e \in Event :
      /\ t.blk[e].status = "Active" => t.stub[e].status # "Scheduled"
      /\ t.blk[e].status = "Active" \/ t.stub[e].status = "Active" => s[e] \notin Early
      /\ t.stub[e].completion => t.blk[e].status # "none"

\* A list requires events of its program only.
Own(t) == \A p \in Program : \A e \in t.lst[p].reqs : ProgramOf[e] = p

\* A block waits for its start in one queue, once, and has not begun; or remove_stub
\* has freed it.
Orderly(t) ==
    /\ IsInjective(t.scheduled)
    /\ ToSet(t.scheduled) \intersect (ToSet(t.active) \union ToSet(t.superseded)) = {}
    /\ \A e \in ToSet(t.scheduled) : t.blk[e].status \in {"Scheduled", "none"}

\* The inductive invariant, of the client's state t when the server says s.
Sound(s, t) == Shape(t) /\ Exclusive(t) /\ Told(s, t) /\ Own(t)
Good(s, t) == Sound(s, t) /\ Orderly(t)

\* No status is undone between t and u.
Forth(t, u) == \A e \in Event : MayBecome(t.blk[e].status, u.blk[e].status)

\* What a handler does to a good state.
Advances(s, t, u) == Good(s, u) /\ Forth(t, u)

\* The EventStatus of every event is the same, and whether its Stub completes on its own.
SameStubs(t, u) ==
    /\ Stubs(u.stub)
    /\ \A e \in Event : /\ u.stub[e].status = t.stub[e].status
                        /\ u.stub[e].completion = t.stub[e].completion

Quiet(t, u) ==
    /\ Fields \subseteq DOMAIN u
    /\ u.blk = t.blk /\ u.lst = t.lst
    /\ u.scheduled = t.scheduled /\ u.active = t.active /\ u.superseded = t.superseded
    /\ SameStubs(t, u)

LEMMA ForthSelf ==
  ASSUME NEW t, NEW u, \A e \in Event : u.blk[e].status = t.blk[e].status
  PROVE  Forth(t, u)
  BY DEF Forth, MayBecome

LEMMA ForthTrans ==
  ASSUME NEW t, NEW u, NEW v, Forth(t, u), Forth(u, v)
  PROVE  Forth(t, v)
  BY DEF Forth, MayBecome, Final

LEMMA AdvancesSelf ==
  ASSUME NEW s, NEW t, Good(s, t)
  PROVE  Advances(s, t, t)
  BY ForthSelf DEF Advances

LEMMA AdvancesTrans ==
  ASSUME NEW s, NEW t, NEW u, Advances(s, t, u), NEW v, Advances(s, u, v)
  PROVE  Advances(s, t, v)
  BY ForthTrans DEF Advances

\* A step that changes no block, no queue and no Stub,
LEMMA ListsAdvance ==
  ASSUME NEW s, NEW t, Good(s, t), NEW u, Shape(u), Own(u), u.blk = t.blk, SameStubs(t, u),
         u.scheduled = t.scheduled, u.active = t.active, u.superseded = t.superseded
  PROVE  Advances(s, t, u)
<1>1. Forth(t, u)
  BY ForthSelf
<1>2. Told(s, u)
  BY DEF Good, Sound, Told, SameStubs
<1>. QED BY <1>1, <1>2 DEF Advances, Good, Sound, Exclusive, Orderly

\* What is known of the blocks and Stubs is kept by steps that leave them alone:
LEMMA QuietShape ==
  ASSUME NEW t, Shape(t), NEW u, Quiet(t, u)
  PROVE  Shape(u)
  BY DEF Quiet, Shape, SameStubs

LEMMA QuietAdvances ==
  ASSUME NEW s, NEW t, Good(s, t), NEW u, Quiet(t, u)
  PROVE  Advances(s, t, u)
<1>1. Shape(u)
  BY QuietShape DEF Good, Sound
<1>2. Own(u)
  BY DEF Quiet, Good, Sound, Own
<1>. QED BY <1>1, <1>2, ListsAdvance DEF Quiet

LEMMA QuietSelf ==
  ASSUME NEW t, Shape(t)
  PROVE  Quiet(t, t)
  BY DEF Quiet, Shape, SameStubs

LEMMA QuietTrans ==
  ASSUME NEW t, NEW u, NEW v, Quiet(t, u), Quiet(u, v)
  PROVE  Quiet(t, v)
  BY DEF Quiet, SameStubs

\* the event queue, responses and requests change no block and no EventStatus.
LEMMA InsertEventQuiet ==
  ASSUME NEW t, Shape(t), NEW data, NEW type, NEW time
  PROVE  Quiet(t, InsertEvent(t, data, type, time))
<1> DEFINE ev == [type |-> type, data |-> data, time |-> time]
           im1 == Append(t.im, ev)
           cur1 == InsertSorted(t.cur, ev, EventTime({ev} \union ToSet(t.cur)))
<1>1. InsertEvent(t, data, type, time) =
        IF time = 0 THEN [t EXCEPT !.im = im1] ELSE [t EXCEPT !.cur = cur1]
  BY DEF InsertEvent
<1> HIDE DEF im1, cur1
<1>. QED BY <1>1 DEF Quiet, Shape, SameStubs, Fields

LEMMA RemoveEventQuiet ==
  ASSUME NEW t, Shape(t), NEW data
  PROVE  Quiet(t, RemoveEvent(t, data))
<1> DEFINE other(ev) == ev.data # data
           im1 == SelectSeq(t.im, other)
           cur1 == SelectSeq(t.cur, other)
<1>1. RemoveEvent(t, data) = [t EXCEPT !.im = im1, !.cur = cur1]
  BY DEF RemoveEvent
<1> HIDE DEF im1, cur1
<1>. QED BY <1>1 DEF Quiet, Shape, SameStubs, Fields

LEMMA PoppedQuiet ==
  ASSUME NEW t, Shape(t)
  PROVE  Quiet(t, Popped(t))
<1> DEFINE im1 == Tail(t.im)
           cur1 == Tail(t.cur)
<1>1. Popped(t) = IF t.im # <<>> THEN [t EXCEPT !.im = im1] ELSE [t EXCEPT !.cur = cur1]
  BY DEF Popped
<1> HIDE DEF im1, cur1
<1>. QED BY <1>1 DEF Quiet, Shape, SameStubs, Fields

LEMMA ResponseQuiet ==
  ASSUME NEW t, Shape(t), NEW e, NEW status
  PROVE  Quiet(t, DeviceResponse(t, e, status))
<1> DEFINE resp1 == [t.resp EXCEPT ![e] = Append(@, status)]
<1>1. DeviceResponse(t, e, status) = [t EXCEPT !.resp = resp1]
  BY DEF DeviceResponse
<1> HIDE DEF resp1
<1>. QED BY <1>1 DEF Quiet, Shape, SameStubs, Fields

LEMMA UpdateResourceQuiet ==
  ASSUME NEW t, Shape(t), NEW e
  PROVE  Quiet(t, UpdateResource(t, e))
<1> DEFINE sent1 == Append(t.sent, EventOf(e))
           stub1 == [t.stub EXCEPT ![e].complete = FALSE]
<1>1. \/ UpdateResource(t, e) = t
      \/ UpdateResource(t, e) = [t EXCEPT !.sent = sent1, !.stub = stub1]
  BY DEF UpdateResource
<1>2. /\ Stubs(stub1)
      /\ \A f \in Event : /\ stub1[f].status = t.stub[f].status
                          /\ stub1[f].completion = t.stub[f].completion
  BY DEF Shape, Stubs
<1> HIDE DEF sent1, stub1
<1>. QED BY <1>1, <1>2 DEF Quiet, Shape, SameStubs, Fields

LEMMA PollResourceQuiet ==
  ASSUME NEW t, Shape(t), NEW e
  PROVE  Quiet(t, PollResource(t, e))
<1> DEFINE stub1 == [t.stub EXCEPT ![e].polled = t.now < Finish(e)]
<1>1. PollResource(t, e) = [t EXCEPT !.stub = stub1]
  BY DEF PollResource
<1>2. /\ Stubs(stub1)
      /\ \A f \in Event : /\ stub1[f].status = t.stub[f].status
                          /\ stub1[f].completion = t.stub[f].completion
  BY DEF Shape, Stubs
<1> HIDE DEF stub1
<1>. QED BY <1>1, <1>2 DEF Quiet, Shape, SameStubs, Fields

-----------------------------------------------------------------------------
(* insert_active. *)

\* Of two blocks the loser gives up what the winner has.
Decided(t, a, b, u) ==
    /\ Shape(u) /\ u.lst = t.lst /\ SameStubs(t, u)
    /\ u.scheduled = t.scheduled /\ u.active = t.active /\ u.superseded = t.superseded
    /\ \A e \in Event : /\ u.blk[e].status = t.blk[e].status
                        /\ u.blk[e].der \subseteq t.blk[e].der
                        /\ e \notin {a, b} => u.blk[e] = t.blk[e]
    /\ u.blk[a].der \intersect u.blk[b].der = {}

\* block_supersede.
LEMMA SupersedeEffect ==
  ASSUME NEW t, Shape(t), NEW a \in Event, NEW b \in Event
  PROVE  Decided(t, a, b, BlockSupersede(t, a, b))
<1> DEFINE blk1 == [t.blk EXCEPT ![b].der = @ \ t.blk[a].der]
           blk2 == [t.blk EXCEPT ![a].der = @ \ t.blk[b].der]
           Loses(blocks) ==
             /\ Blocks(blocks)
             /\ \A e \in Event : /\ blocks[e].status = t.blk[e].status
                                 /\ blocks[e].der \subseteq t.blk[e].der
                                 /\ e \notin {a, b} => blocks[e] = t.blk[e]
             /\ blocks[a].der \intersect blocks[b].der = {}
<1>1. \/ BlockSupersede(t, a, b) = [t EXCEPT !.blk = blk1]
      \/ BlockSupersede(t, a, b) = [t EXCEPT !.blk = blk2]
  BY DEF BlockSupersede
<1>2. Loses(blk1)
  BY DEF Shape, Blocks
<1>3. Loses(blk2)
  BY DEF Shape, Blocks
<1> HIDE DEF blk1, blk2
<1>4. CASE BlockSupersede(t, a, b) = [t EXCEPT !.blk = blk1]
  BY <1>2, <1>4, SMTT(30) DEF Decided, Shape, SameStubs, Fields
<1>5. CASE BlockSupersede(t, a, b) = [t EXCEPT !.blk = blk2]
  BY <1>3, <1>5, SMTT(30) DEF Decided, Shape, SameStubs, Fields
<1>. QED BY <1>1, <1>4, <1>5

\* The active block b is superseded, and nothing else.
Overtaken(t, b, queue, u) ==
    /\ Shape(u) /\ u.lst = t.lst /\ SameStubs(t, u)
    /\ u.scheduled = t.scheduled /\ u.superseded = t.superseded
    /\ ToSet(u.active) \subseteq ToSet(queue)
    /\ \A e \in Event : /\ u.blk[e].der = t.blk[e].der
                        /\ e # b => u.blk[e].status = t.blk[e].status
    /\ u.blk[b].status = "Superseded"

\* insert_active, when the new block wins.
LEMMA SupersedeActiveEffect ==
  ASSUME NEW t, Shape(t), NEW eb \in Event,
         NEW queue \in Seq(Event), NEW b \in ToSet(queue)
  PROVE  Overtaken(t, b, queue, SupersedeActive(t, eb, b, queue))
<1> DEFINE ended == IF t.blk[b].status = "Active"
                    THEN InsertEvent(t, Block(b), "EVENT_END", 0) ELSE t
           blk1 == [ended.blk EXCEPT ![b].end = t.blk[eb].start, ![b].status = "Superseded"]
           active1 == After(queue, b)
           u == [ended EXCEPT !.active = active1, !.blk = blk1]
<1>1. b \in Event
  BY InQueue
<1>2. Quiet(t, ended)
  BY InsertEventQuiet, QuietSelf
<1>3. SupersedeActive(t, eb, b, queue) = DeviceResponse(u, b, "Superseded")
  BY ZenonT(30) DEF SupersedeActive
<1>4. Shape(ended)
  BY <1>2, QuietShape
<1>5. Within(active1, ToSet(queue))
  BY AfterWithin
<1>6. /\ Blocks(blk1)
      /\ \A e \in Event : /\ blk1[e].der = ended.blk[e].der
                          /\ e # b => blk1[e].status = ended.blk[e].status
      /\ blk1[b].status = "Superseded"
  BY <1>1, <1>4 DEF Shape, Blocks
<1> HIDE DEF ended, blk1, active1
<1>7. /\ Shape(u) /\ u.lst = ended.lst /\ SameStubs(ended, u)
      /\ u.scheduled = ended.scheduled /\ u.superseded = ended.superseded
      /\ u.active = active1 /\ u.blk = blk1
  BY <1>4, <1>5, <1>6 DEF Shape, SameStubs, Within, Fields
<1> HIDE DEF u
<1>8. Quiet(u, DeviceResponse(u, b, "Superseded"))
  BY <1>7, ResponseQuiet
<1>9. Shape(DeviceResponse(u, b, "Superseded"))
  BY <1>7, <1>8, QuietShape
<1>. QED BY <1>2, <1>3, <1>5, <1>6, <1>7, <1>8, <1>9 DEF Overtaken, Quiet, SameStubs, Within

\* What insert_active knows after i of its rounds; x is the state it was called in
\* and the block to be placed.  Blocks only give controls up, and those it has met
\* share none with the new block unless that has lost.
ActiveHolds(x, seq, a, i) ==
    /\ x.eb \in Event /\ Shape(x.t) /\ seq = x.t.active
    /\ {"t", "lost"} \subseteq DOMAIN a /\ a.lost \in BOOLEAN
    /\ Shape(a.t) /\ a.t.lst = x.t.lst /\ SameStubs(x.t, a.t)
    /\ a.t.scheduled = x.t.scheduled /\ a.t.superseded = x.t.superseded
    /\ ToSet(a.t.active) \subseteq ToSet(x.t.active)
    /\ \A e \in Event \ {x.eb} :
         /\ a.t.blk[e].der \subseteq x.t.blk[e].der
         /\ \/ a.t.blk[e].status = x.t.blk[e].status
            \/ e \in ToSet(x.t.active) /\ a.t.blk[e].status = "Superseded"
    /\ a.lost => a.t.blk[x.eb].der = {} /\ a.t.blk[x.eb].status = "Superseded"
    /\ ~a.lost => \A k \in 1 .. i : seq[k] # x.eb =>
                    a.t.blk[seq[k]].der \intersect a.t.blk[x.eb].der = {}
    /\ ~a.lost /\ x.eb \notin ToSet(seq) => a.t.blk[x.eb].status = x.t.blk[x.eb].status

ActiveStep(x, a, b) == VisitActive(x.eb, x.t.active, a, b)

\* One round: a is the state after those before it.
LEMMA ActiveRound ==
  ASSUME NEW x, NEW seq, NEW i \in 1 .. Len(seq), NEW a, ActiveHolds(x, seq, a, i - 1)
  PROVE  ActiveHolds(x, seq, ActiveStep(x, a, seq[i]), i)
<1> DEFINE eb == x.eb
           t == x.t
           b == seq[i]
           u == BlockSupersede(a.t, eb, b)
           v == ActiveStep(x, a, b)
           Met(w, n) == \A k \in 1 .. n : seq[k] # eb =>
                          w.blk[seq[k]].der \intersect w.blk[eb].der = {}
           Kept(w) == \A e \in Event \ {eb} :
                        /\ w.blk[e].der \subseteq t.blk[e].der
                        /\ \/ w.blk[e].status = t.blk[e].status
                           \/ e \in ToSet(t.active) /\ w.blk[e].status = "Superseded"
           Unmet(w) == eb \notin ToSet(seq) => w.blk[eb].status = t.blk[eb].status
<1>1. /\ eb \in Event /\ Shape(t) /\ seq = t.active
      /\ seq \in Seq(Event) /\ b \in Event /\ b \in ToSet(seq) /\ Len(seq) \in Nat
  <2>1. eb \in Event /\ Shape(t) /\ seq = t.active /\ seq \in Seq(Event)
    BY DEF ActiveHolds, Shape
  <2>. QED BY <2>1, InQueue
<1>2. CASE a.lost
  <2>1. v = a
    BY <1>2 DEF ActiveStep, VisitActive
  <2>. QED BY <1>2, <2>1 DEF ActiveHolds
<1>3. CASE ~a.lost
  <2>1. /\ {"t", "lost"} \subseteq DOMAIN a
        /\ Shape(a.t) /\ a.t.lst = t.lst /\ SameStubs(t, a.t)
        /\ a.t.scheduled = t.scheduled /\ a.t.superseded = t.superseded
        /\ ToSet(a.t.active) \subseteq ToSet(t.active)
        /\ Kept(a.t) /\ Met(a.t, i - 1) /\ Unmet(a.t)
    BY <1>3 DEF ActiveHolds
  <2>2. /\ Shape(u) /\ u.lst = a.t.lst /\ SameStubs(a.t, u)
        /\ u.scheduled = a.t.scheduled /\ u.active = a.t.active
        /\ u.superseded = a.t.superseded
        /\ \A e \in Event : /\ u.blk[e].status = a.t.blk[e].status
                            /\ u.blk[e].der \subseteq a.t.blk[e].der
                            /\ e \notin {eb, b} => u.blk[e] = a.t.blk[e]
        /\ u.blk[eb].der \intersect u.blk[b].der = {}
    <3>1. Shape(a.t) /\ eb \in Event /\ b \in Event
      BY <1>1, <2>1
    <3>2. Decided(a.t, eb, b, u)
      BY <3>1, SupersedeEffect, Zenon
    <3>. QED BY <3>2 DEF Decided
  <2>3. /\ Shape(u) /\ u.lst = t.lst /\ SameStubs(t, u) /\ u.scheduled = t.scheduled
        /\ u.superseded = t.superseded
        /\ ToSet(u.active) \subseteq ToSet(t.active) /\ Kept(u) /\ Unmet(u)
    <3>1. Unmet(u)
      BY <1>1, <2>1, <2>2
    <3>2. Kept(u)
      BY <2>1, <2>2
    <3>3. SameStubs(t, u)
      BY <2>1, <2>2 DEF SameStubs
    <3>. QED BY <2>1, <2>2, <3>1, <3>2, <3>3
  <2>4. Met(u, i)
    <3>1. ASSUME NEW k \in 1 .. i, seq[k] # eb
          PROVE  u.blk[seq[k]].der \intersect u.blk[eb].der = {}
      <4>1. k \in 1 .. Len(seq) /\ (k = i \/ k \in 1 .. i - 1)
        BY <1>1
      <4>2. seq[k] \in Event
        BY <1>1, <4>1
      <4>3. CASE k = i
        BY <2>2, <4>3
      <4>4. CASE k \in 1 .. i - 1
        <5>1. a.t.blk[seq[k]].der \intersect a.t.blk[eb].der = {}
          BY <2>1, <3>1, <4>4
        <5>. QED BY <1>1, <2>2, <4>2, <5>1
      <4>. QED BY <4>1, <4>3, <4>4
    <3>. QED BY <3>1
  <2>5. CASE Beaten(a.t, eb, b)
    <3> DEFINE w == SupersedeActive(u, eb, b, t.active)
    <3>1. v = [a EXCEPT !.t = w]
      BY <1>3, <2>5 DEF ActiveStep, VisitActive
    <3>2. /\ Shape(w) /\ w.lst = u.lst /\ SameStubs(u, w)
          /\ w.scheduled = u.scheduled /\ w.superseded = u.superseded
          /\ ToSet(w.active) \subseteq ToSet(t.active)
          /\ \A e \in Event : /\ w.blk[e].der = u.blk[e].der
                              /\ e # b => w.blk[e].status = u.blk[e].status
          /\ w.blk[b].status = "Superseded"
      <4>1. Shape(u) /\ eb \in Event /\ t.active \in Seq(Event) /\ b \in ToSet(t.active)
        BY <1>1, <2>3
      <4> HIDE DEF u
      <4>2. Overtaken(u, b, t.active, w)
        BY <4>1, SupersedeActiveEffect, Zenon
      <4>. QED BY <4>2 DEF Overtaken
    <3>3. Kept(w) /\ Unmet(w)
      BY <1>1, <2>3, <3>2, ZenonT(30)
    <3>4. Met(w, i)
      <4>1. \A k \in 1 .. i : seq[k] \in Event
        BY <1>1
      <4>2. ASSUME NEW k \in 1 .. i, seq[k] # eb
            PROVE  w.blk[seq[k]].der \intersect w.blk[eb].der = {}
        <5>1. seq[k] \in Event /\ eb \in Event
          BY <1>1, <4>1
        <5>2. u.blk[seq[k]].der \intersect u.blk[eb].der = {}
          BY <2>4, <4>2
        <5>3. w.blk[seq[k]].der = u.blk[seq[k]].der /\ w.blk[eb].der = u.blk[eb].der
          BY <3>2, <5>1
        <5>. QED BY <5>2, <5>3
      <4>. QED BY <4>2
    <3>5. /\ SameStubs(t, w) /\ w.lst = t.lst
          /\ w.scheduled = t.scheduled /\ w.superseded = t.superseded
      BY <2>3, <3>2 DEF SameStubs
    <3>6. v.t = w /\ v.lost = a.lost /\ {"t", "lost"} \subseteq DOMAIN v
      BY <2>1, <3>1
    <3> HIDE DEF w, v, u
    <3>. QED BY <1>1, <1>3, <3>2, <3>3, <3>4, <3>5, <3>6 DEF ActiveHolds, v
  <2>6. CASE ~Beaten(a.t, eb, b) /\ u.blk[eb].der = {}
    <3> DEFINE w0 == [u EXCEPT !.blk[eb].status = "Superseded"]
               w == DeviceResponse(w0, eb, "Superseded")
    <3>1. v = [t |-> w, lost |-> TRUE]
      BY <1>3, <2>6 DEF ActiveStep, VisitActive
    <3>2. /\ Shape(w0) /\ w0.lst = u.lst /\ SameStubs(u, w0)
          /\ w0.scheduled = u.scheduled /\ w0.active = u.active
          /\ w0.superseded = u.superseded
          /\ \A e \in Event : e # eb => w0.blk[e] = u.blk[e]
          /\ w0.blk[eb].der = u.blk[eb].der /\ w0.blk[eb].status = "Superseded"
      BY <1>1, <2>3 DEF Shape, Blocks, SameStubs, Fields
    <3>3. Quiet(w0, w) /\ Shape(w)
      BY <3>2, ResponseQuiet, QuietShape
    <3>4. /\ w.lst = t.lst /\ SameStubs(t, w)
          /\ w.scheduled = t.scheduled /\ w.superseded = t.superseded
          /\ ToSet(w.active) \subseteq ToSet(t.active)
          /\ w.blk[eb].der = {} /\ w.blk[eb].status = "Superseded"
      BY <2>3, <2>6, <3>2, <3>3, ZenonT(30) DEF Quiet, SameStubs
    <3>5. Kept(w)
      BY <2>3, <3>2, <3>3, ZenonT(30) DEF Quiet
    <3>6. v.t = w /\ v.lost = TRUE /\ {"t", "lost"} \subseteq DOMAIN v
      BY <3>1
    <3> HIDE DEF w, w0, v, u
    <3>. QED BY <1>1, <3>3, <3>4, <3>5, <3>6 DEF ActiveHolds, v
  <2>7. CASE ~Beaten(a.t, eb, b) /\ u.blk[eb].der # {}
    <3>1. v = [a EXCEPT !.t = u]
      BY <1>3, <2>7 DEF ActiveStep, VisitActive
    <3>2. v.t = u /\ v.lost = a.lost /\ {"t", "lost"} \subseteq DOMAIN v
      BY <2>1, <3>1
    <3> HIDE DEF v, u
    <3>. QED BY <1>1, <1>3, <2>3, <2>4, <3>2 DEF ActiveHolds, v
  <2>. QED BY <2>5, <2>6, <2>7
<1>. QED BY <1>2, <1>3 DEF ActiveHolds

ActiveLoop == INSTANCE FoldInduction WITH Step <- ActiveStep, Holds <- ActiveHolds

\* An event is started, or its block waits for the server to start it.
Begun(t, eb, u) ==
    /\ Shape(u) /\ u.lst = t.lst /\ SameStubs(t, u)
    /\ u.scheduled = t.scheduled /\ u.active = t.active /\ u.superseded = t.superseded
    /\ \A e \in Event : u.blk[e].der = t.blk[e].der /\ (e # eb => u.blk[e] = t.blk[e])

\* What an event with this EventStatus becomes when it is due, from status old.
Begins(status, old) ==
    CASE status = "Scheduled" -> "ActiveWait" [] status = "Active" -> "Active" [] OTHER -> old

\* activate_block.
LEMMA ActivateEffect ==
  ASSUME NEW t, Shape(t), NEW eb \in Event
  PROVE  LET u == ActivateBlock(t, eb) IN Begun(t, eb, u) /\ u.blk[eb].status = "Active"
<1> DEFINE u == [t EXCEPT !.blk[eb].status = "Active"]
           v == InsertEvent(u, Block(eb), "EVENT_START", 0)
           w == DeviceResponse(v, eb, "Started")
           s == IF t.blk[eb].status = "Active" THEN t ELSE w
<1>1. /\ Shape(u) /\ u.lst = t.lst /\ SameStubs(t, u)
      /\ u.scheduled = t.scheduled /\ u.active = t.active /\ u.superseded = t.superseded
      /\ \A e \in Event : u.blk[e].der = t.blk[e].der /\ (e # eb => u.blk[e] = t.blk[e])
      /\ u.blk[eb].status = "Active"
  BY DEF Shape, Blocks, SameStubs, Fields
<1> HIDE DEF u
<1>2. Quiet(u, v) /\ Shape(v)
  BY <1>1, InsertEventQuiet, QuietShape
<1> HIDE DEF v
<1>3. Quiet(v, w) /\ Shape(w)
  BY <1>2, ResponseQuiet, QuietShape
<1> HIDE DEF w
<1>4. Begun(t, eb, w) /\ w.blk[eb].status = "Active"
  BY <1>1, <1>2, <1>3 DEF Begun, Quiet, SameStubs
<1>5. Begun(t, eb, t)
  BY QuietSelf DEF Begun, Quiet
<1>6. Begun(t, eb, s) /\ Shape(s) /\ s.blk[eb].status = "Active"
  BY <1>4, <1>5 DEF Begun
<1>7. ActivateBlock(t, eb) = PollResource(s, eb)
  BY DEF ActivateBlock, s, w, v, u
<1> HIDE DEF s
<1>8. Quiet(s, PollResource(s, eb)) /\ Shape(PollResource(s, eb))
  BY <1>6, PollResourceQuiet, QuietShape
<1>. QED BY <1>6, <1>7, <1>8 DEF Begun, Quiet, SameStubs

\* The end of insert_active.
LEMMA BeginEffect ==
  ASSUME NEW t, Shape(t), NEW eb \in Event
  PROVE  LET u == BeginActive(t, eb) IN
         /\ Begun(t, eb, u)
         /\ u.blk[eb].status = Begins(t.stub[eb].status, t.blk[eb].status)
<1>1. CASE t.stub[eb].status = "Scheduled"
  <2> DEFINE u == UpdateResource(t, eb)
  <2>1. BeginActive(t, eb) = [u EXCEPT !.blk[eb].status = "ActiveWait"]
    BY <1>1 DEF BeginActive
  <2>2. Quiet(t, u) /\ Shape(u)
    BY UpdateResourceQuiet, QuietShape
  <2> HIDE DEF u
  <2>. QED BY <1>1, <2>1, <2>2 DEF Begun, Begins, Quiet, Shape, Blocks, SameStubs, Fields
<1>2. CASE t.stub[eb].status = "Active"
  <2>1. BeginActive(t, eb) = ActivateBlock(t, eb)
    BY <1>2 DEF BeginActive
  <2>. QED BY <1>2, <2>1, ActivateEffect DEF Begins
<1>3. CASE t.stub[eb].status \notin {"Scheduled", "Active"}
  <2>1. BeginActive(t, eb) = t
    BY <1>3 DEF BeginActive
  <2>. QED BY <1>3, <2>1, QuietSelf DEF Begun, Begins, Quiet
<1>. QED BY <1>1, <1>2, <1>3

\* insert_active keeps active blocks apart, whatever it finds, and leaves the other
\* queues alone.
Activated(t, eb, u) ==
    /\ Shape(u) /\ u.lst = t.lst /\ SameStubs(t, u)
    /\ u.scheduled = t.scheduled /\ u.superseded = t.superseded
    /\ ToSet(u.active) \subseteq ToSet(t.active) \union {eb}
    /\ \A e \in Event \ {eb} :
         \/ u.blk[e].status = t.blk[e].status
         \/ e \in ToSet(t.active) /\ u.blk[e].status = "Superseded"
    /\ eb \notin ToSet(t.active) =>
         u.blk[eb].status \in {"Superseded", Begins(t.stub[eb].status, t.blk[eb].status)}
    /\ Exclusive(t) => Exclusive(u)

\* All of insert_active, by induction over the active blocks.
LEMMA InsertActiveEffect ==
  ASSUME NEW t, Shape(t), NEW eb \in Event
  PROVE  Activated(t, eb, InsertActive(t, eb))
<1> DEFINE x == [t |-> t, eb |-> eb]
           start == [t |-> [t EXCEPT !.blk[eb].der = Base[eb]], lost |-> FALSE]
           r == ActiveLoop!Loop(x, start, t.active)
           u == BeginActive(r.t, eb)
           queue == InsertSorted(u.active, eb, [e \in Event |-> u.blk[e].end])
<1>1. InsertActive(t, eb) = IF r.lost THEN r.t ELSE [u EXCEPT !.active = queue]
  <2>1. MeetActive(t, eb) = r
    BY DEF MeetActive, ActiveLoop!Loop, ActiveStep, FoldLeft, MapThenFoldSet,
           ActiveLoop!FoldLeft, ActiveLoop!MapThenFoldSet, Max, ActiveLoop!Max
  <2> HIDE DEF r
  <2>. QED BY <2>1 DEF InsertActive
<1>2. ActiveHolds(x, t.active, start, 0)
  <2> DEFINE t0 == [t EXCEPT !.blk[eb].der = Base[eb]]
  <2>1. /\ Shape(t0) /\ t0.lst = t.lst /\ SameStubs(t, t0)
        /\ t0.scheduled = t.scheduled /\ t0.active = t.active
        /\ t0.superseded = t.superseded
        /\ \A e \in Event \ {eb} : t0.blk[e] = t.blk[e]
        /\ t0.blk[eb].status = t.blk[eb].status
    BY DEF Shape, Blocks, SameStubs, Fields
  <2> HIDE DEF t0
  <2>2. start.t = t0 /\ start.lost = FALSE /\ {"t", "lost"} \subseteq DOMAIN start
    BY DEF t0
  <2>3. x.t = t /\ x.eb = eb
    OBVIOUS
  <2> HIDE DEF start, x
  <2>4. \A e \in Event \ {eb} : t0.blk[e].der \subseteq t.blk[e].der
                             /\ t0.blk[e].status = t.blk[e].status
    BY <2>1
  <2>5. \A k \in 1 .. 0 : FALSE
    OBVIOUS
  <2>. QED BY <2>1, <2>2, <2>3, <2>4, <2>5 DEF ActiveHolds
<1> HIDE DEF start
<1>3. ActiveHolds(x, t.active, r, Len(t.active))
  <2>1. t.active \in Seq(Event)
    BY DEF Shape
  <2>2. \A i \in 1 .. Len(t.active) : \A a :
          ActiveHolds(x, t.active, a, i - 1)
            => ActiveHolds(x, t.active, ActiveStep(x, a, t.active[i]), i)
    BY ActiveRound
  <2> HIDE DEF x
  <2>. QED BY <1>2, <2>1, <2>2, ActiveLoop!Induction
<1> HIDE DEF r
<1>4. /\ Shape(r.t) /\ r.t.lst = t.lst /\ SameStubs(t, r.t)
      /\ r.t.scheduled = t.scheduled /\ r.t.superseded = t.superseded
      /\ ToSet(r.t.active) \subseteq ToSet(t.active)
      /\ \A e \in Event \ {eb} :
           /\ r.t.blk[e].der \subseteq t.blk[e].der
           /\ \/ r.t.blk[e].status = t.blk[e].status
              \/ e \in ToSet(t.active) /\ r.t.blk[e].status = "Superseded"
      /\ r.lost => r.t.blk[eb].der = {} /\ r.t.blk[eb].status = "Superseded"
      /\ ~r.lost => \A k \in 1 .. Len(t.active) : t.active[k] # eb =>
                      r.t.blk[t.active[k]].der \intersect r.t.blk[eb].der = {}
      /\ ~r.lost /\ eb \notin ToSet(t.active) => r.t.blk[eb].status = t.blk[eb].status
  BY <1>3 DEF ActiveHolds
<1>5. ToSet(t.active) = {t.active[i] : i \in 1 .. Len(t.active)} /\ ToSet(t.active) \subseteq Event
  BY InQueue DEF Shape
<1>6. CASE r.lost
  <2>1. Exclusive(t) => Exclusive(r.t)
    <3>1. SUFFICES ASSUME Exclusive(t), NEW e \in ToSet(r.t.active),
                          NEW f \in ToSet(r.t.active), e # f
                   PROVE  r.t.blk[e].der \intersect r.t.blk[f].der = {}
      BY DEF Exclusive
    <3>2. e \in Event /\ f \in Event /\ e \in ToSet(t.active) /\ f \in ToSet(t.active)
      BY <1>4, <1>5
    <3>3. CASE e = eb \/ f = eb
      BY <1>4, <1>6, <3>3
    <3>4. CASE e # eb /\ f # eb
      BY <1>4, <3>1, <3>2, <3>4 DEF Exclusive
    <3>. QED BY <3>3, <3>4
  <2>. QED BY <1>1, <1>4, <1>6, <2>1 DEF Activated
<1>7. CASE ~r.lost
  <2>1. /\ Begun(r.t, eb, u)
        /\ u.blk[eb].status = Begins(r.t.stub[eb].status, r.t.blk[eb].status)
    BY <1>4, BeginEffect
  <2> DEFINE v == [u EXCEPT !.active = queue]
  <2>2. Within(queue, ToSet(u.active) \union {eb})
    <3>1. u.active \in Seq(Event)
      BY <2>1 DEF Begun, Shape
    <3>. QED BY <3>1, InsertWithin
  <2> HIDE DEF queue, u
  <2>3. /\ Shape(v) /\ v.lst = u.lst /\ SameStubs(u, v) /\ v.scheduled = u.scheduled
        /\ v.superseded = u.superseded /\ v.active = queue /\ v.blk = u.blk
    BY <2>1, <2>2 DEF Begun, Shape, SameStubs, Within, Fields
  <2> HIDE DEF v
  <2>4. /\ v.lst = t.lst /\ SameStubs(t, v)
        /\ v.scheduled = t.scheduled /\ v.superseded = t.superseded
        /\ ToSet(v.active) \subseteq ToSet(t.active) \union {eb}
        /\ \A e \in Event : v.blk[e].der = r.t.blk[e].der
        /\ \A e \in Event \ {eb} : v.blk[e] = r.t.blk[e]
    BY <1>4, <2>1, <2>2, <2>3 DEF Begun, SameStubs, Within
  <2>5. Exclusive(t) => Exclusive(v)
    <3>1. SUFFICES ASSUME Exclusive(t), NEW e \in ToSet(v.active),
                          NEW f \in ToSet(v.active), e # f
                   PROVE  v.blk[e].der \intersect v.blk[f].der = {}
      BY DEF Exclusive
    <3>2. e \in Event /\ f \in Event
          /\ (e \in ToSet(t.active) \/ e = eb) /\ (f \in ToSet(t.active) \/ f = eb)
      BY <1>5, <2>4
    <3>3. \A g \in ToSet(t.active) : g # eb => r.t.blk[g].der \intersect r.t.blk[eb].der = {}
      BY <1>4, <1>5, <1>7
    <3>4. CASE e # eb /\ f # eb
      BY <1>4, <2>4, <3>1, <3>2, <3>4 DEF Exclusive
    <3>5. CASE e = eb \/ f = eb
      BY <2>4, <3>1, <3>2, <3>3, <3>5
    <3>. QED BY <3>4, <3>5
  <2>6. eb \notin ToSet(t.active) =>
          v.blk[eb].status = Begins(t.stub[eb].status, t.blk[eb].status)
    BY <1>4, <1>7, <2>1, <2>3 DEF SameStubs
  <2>7. InsertActive(t, eb) = v
    BY <1>1, <1>7 DEF v
  <2>. QED BY <1>4, <2>3, <2>4, <2>5, <2>6, <2>7 DEF Activated
<1>. QED BY <1>6, <1>7


\* insert_active, for a block that has not ended and is in its queue not yet.
LEMMA InsertActiveSound ==
  ASSUME NEW s, NEW t, Sound(s, t), NEW eb \in Event, eb \notin ToSet(t.active),
         t.blk[eb].status \notin Final
  PROVE  LET u == InsertActive(t, eb) IN
         /\ Sound(s, u) /\ Forth(t, u) /\ u.lst = t.lst
         /\ u.scheduled = t.scheduled /\ u.superseded = t.superseded
         /\ ToSet(u.active) \subseteq ToSet(t.active) \union {eb}
         /\ \A e \in Event : e \notin ToSet(t.active) \union {eb}
                               => u.blk[e].status = t.blk[e].status
<1> DEFINE u == InsertActive(t, eb)
<1>1. Activated(t, eb, u)
  BY InsertActiveEffect DEF Sound
<1> HIDE DEF u
<1>2. u.blk[eb].status \in {"Superseded", Begins(t.stub[eb].status, t.blk[eb].status)}
  BY <1>1 DEF Activated
<1>3. ASSUME NEW e \in Event
      PROVE  /\ MayBecome(t.blk[e].status, u.blk[e].status)
             /\ u.blk[e].status = "Active" => u.stub[e].status # "Scheduled"
             /\ u.blk[e].status = "Active" \/ u.stub[e].status = "Active" => s[e] \notin Early
             /\ u.stub[e].completion => u.blk[e].status # "none"
  <2>1. /\ t.blk[e].status = "Active" => t.stub[e].status # "Scheduled"
        /\ t.blk[e].status = "Active" \/ t.stub[e].status = "Active" => s[e] \notin Early
        /\ t.stub[e].completion => t.blk[e].status # "none"
    BY DEF Sound, Told
  <2>2. u.stub[e].status = t.stub[e].status /\ u.stub[e].completion = t.stub[e].completion
    BY <1>1 DEF Activated, SameStubs
  <2>3. CASE u.blk[e].status = t.blk[e].status
    BY <2>1, <2>2, <2>3 DEF MayBecome
  <2>4. CASE u.blk[e].status = "Superseded"
    BY <2>1, <2>2, <2>4 DEF MayBecome, Final
  <2>5. CASE e = eb /\ t.stub[e].status = "Scheduled" /\ u.blk[e].status = "ActiveWait"
    BY <2>1, <2>2, <2>5 DEF MayBecome, Final
  <2>6. CASE e = eb /\ t.stub[e].status = "Active" /\ u.blk[e].status = "Active"
    BY <2>1, <2>2, <2>6 DEF MayBecome, Final
  <2>7. e # eb => u.blk[e].status = t.blk[e].status \/ u.blk[e].status = "Superseded"
    BY <1>1 DEF Activated
  <2>8. e = eb => \/ u.blk[e].status = "Superseded"
                  \/ t.stub[e].status = "Scheduled" /\ u.blk[e].status = "ActiveWait"
                  \/ t.stub[e].status = "Active" /\ u.blk[e].status = "Active"
                  \/ u.blk[e].status = t.blk[e].status
    BY <1>2 DEF Begins
  <2>. QED BY <2>3, <2>4, <2>5, <2>6, <2>7, <2>8
<1>4. Forth(t, u) /\ Told(s, u)
  BY <1>3 DEF Forth, Told
<1>5. Sound(s, u)
  BY <1>1, <1>4 DEF Activated, Sound, Own
<1>6. \A e \in Event : e \notin ToSet(t.active) \union {eb}
                         => u.blk[e].status = t.blk[e].status
  BY <1>1 DEF Activated
<1>. QED BY <1>1, <1>4, <1>5, <1>6 DEF Activated, u

-----------------------------------------------------------------------------
(* insert_block. *)

\* Two scheduled blocks have met: nothing came of it for the queues, or b was
\* dropped from its queue, or a has lost and gets no place in it.
Meeting(t, a, b, u) ==
    /\ Shape(u) /\ u.lst = t.lst /\ SameStubs(t, u) /\ u.active = t.active
    /\ \A e \in Event \ {a, b} : u.blk[e] = t.blk[e]

Untouched(t, u) ==
    /\ u.scheduled = t.scheduled /\ u.superseded = t.superseded
    /\ \A e \in Event : u.blk[e].status = t.blk[e].status

Dropped(t, b, u) ==
    /\ u.scheduled = RemoveFirst(t.scheduled, b) /\ u.superseded = <<b>> \o t.superseded
    /\ u.blk[b].status = "ScheduleSuperseded"
    /\ \A e \in Event \ {b} : u.blk[e].status = t.blk[e].status

Lost(t, a, u) ==
    /\ u.scheduled = t.scheduled /\ u.superseded = <<a>> \o t.superseded
    /\ u.blk[a].status = "ScheduleSuperseded"
    /\ \A e \in Event \ {a} : u.blk[e].status = t.blk[e].status

Meets(t, a, b, u, lost, loses) ==
    /\ Meeting(t, a, b, u)
    /\ \/ loses = lost /\ (Untouched(t, u) \/ Dropped(t, b, u))
       \/ loses = TRUE /\ ~lost /\ Lost(t, a, u)

\* One round of insert_block.
LEMMA VisitEffect ==
  ASSUME NEW eb \in Event, NEW a, {"t", "lost"} \subseteq DOMAIN a, a.lost \in BOOLEAN,
         Shape(a.t), NEW e \in Event
  PROVE  LET v == VisitScheduled(eb, a, e) IN
         /\ {"t", "lost"} \subseteq DOMAIN v
         /\ Meets(a.t, eb, e, v.t, a.lost, v.lost)
<1> DEFINE v == VisitScheduled(eb, a, e)
           t == a.t
           u == BlockSupersede(t, eb, e)
<1>1. Meeting(t, eb, e, t) /\ Untouched(t, t)
  BY QuietSelf DEF Meeting, Untouched, Quiet
<1>2. Decided(t, eb, e, u)
  BY SupersedeEffect
<1>3. Meeting(t, eb, e, u) /\ Untouched(t, u)
  BY <1>2 DEF Decided, Meeting, Untouched
<1>4. Shape(u)
  BY <1>3 DEF Meeting
<1>5. CASE a.lost
  <2>1. v = a
    BY <1>5 DEF VisitScheduled
  <2>. QED BY <1>1, <2>1 DEF Meets
<1>6. CASE ~a.lost /\ Overlap(eb, e) /\ Beaten(t, eb, e)
  <2> DEFINE sup == <<e>> \o u.superseded
             sch == RemoveFirst(u.scheduled, e)
             w == [u EXCEPT !.blk[e].status = "ScheduleSuperseded",
                            !.superseded = sup, !.scheduled = sch]
  <2>1. v = [a EXCEPT !.t = w]
    BY <1>6 DEF VisitScheduled
  <2>2. sup \in Seq(Event)
    BY <1>4, PushWithin DEF Shape, Within
  <2>3. sch \in Seq(Event)
    BY <1>4, RemoveWithin DEF Shape, Within
  <2>4. sup = <<e>> \o t.superseded /\ sch = RemoveFirst(t.scheduled, e)
    BY <1>3 DEF Untouched
  <2> HIDE DEF sup, sch, u
  <2>5. /\ Shape(w) /\ w.lst = u.lst /\ SameStubs(u, w) /\ w.active = u.active
        /\ w.scheduled = sch /\ w.superseded = sup
        /\ \A f \in Event \ {e} : w.blk[f] = u.blk[f]
        /\ w.blk[e].status = "ScheduleSuperseded"
    BY <1>4, <2>2, <2>3 DEF Shape, Blocks, SameStubs, Fields
  <2> HIDE DEF w
  <2>6. Meeting(t, eb, e, w)
    BY <1>3, <2>5 DEF Meeting, SameStubs
  <2>7. Dropped(t, e, w)
    BY <1>3, <2>4, <2>5 DEF Untouched, Dropped
  <2>8. v.t = w /\ v.lost = a.lost /\ {"t", "lost"} \subseteq DOMAIN v
    BY <2>1
  <2>. QED BY <2>6, <2>7, <2>8 DEF Meets
<1>7. CASE ~a.lost /\ Overlap(eb, e) /\ ~Beaten(t, eb, e) /\ u.blk[eb].der = {}
  <2> DEFINE sup == <<eb>> \o u.superseded
             w == [u EXCEPT !.blk[eb].status = "ScheduleSuperseded", !.superseded = sup]
  <2>1. v = [t |-> w, lost |-> TRUE]
    BY <1>7 DEF VisitScheduled
  <2>2. sup \in Seq(Event)
    BY <1>4, PushWithin DEF Shape, Within
  <2>3. sup = <<eb>> \o t.superseded
    BY <1>3 DEF Untouched
  <2> HIDE DEF sup, u
  <2>4. /\ Shape(w) /\ w.lst = u.lst /\ SameStubs(u, w) /\ w.active = u.active
        /\ w.scheduled = u.scheduled /\ w.superseded = sup
        /\ \A f \in Event \ {eb} : w.blk[f] = u.blk[f]
        /\ w.blk[eb].status = "ScheduleSuperseded"
    BY <1>4, <2>2 DEF Shape, Blocks, SameStubs, Fields
  <2> HIDE DEF w
  <2>5. Meeting(t, eb, e, w)
    BY <1>3, <2>4 DEF Meeting, SameStubs
  <2>6. Lost(t, eb, w)
    BY <1>3, <2>3, <2>4 DEF Untouched, Lost
  <2>7. v.t = w /\ v.lost = TRUE /\ {"t", "lost"} \subseteq DOMAIN v
    BY <2>1
  <2>. QED BY <1>7, <2>5, <2>6, <2>7 DEF Meets
<1>8. ASSUME NEW w, v = [a EXCEPT !.t = w], Meeting(t, eb, e, w), Untouched(t, w)
      PROVE  {"t", "lost"} \subseteq DOMAIN v /\ Meets(t, eb, e, v.t, a.lost, v.lost)
  <2>1. v.t = w /\ v.lost = a.lost /\ {"t", "lost"} \subseteq DOMAIN v
    BY <1>8
  <2>. QED BY <1>8, <2>1 DEF Meets
<1>9. CASE ~a.lost /\ Overlap(eb, e) /\ ~Beaten(t, eb, e) /\ u.blk[eb].der # {}
  <2>1. v = [a EXCEPT !.t = u]
    BY <1>9 DEF VisitScheduled
  <2>. QED BY <1>3, <1>8, <2>1
<1>10. CASE ~a.lost /\ ~Overlap(eb, e) /\ Finish(eb) = Interval[e].start
  <2> DEFINE w == [t EXCEPT !.blk[e].start = t.blk[eb].end]
  <2>1. v = [a EXCEPT !.t = w]
    BY <1>10 DEF VisitScheduled
  <2>2. Meeting(t, eb, e, w) /\ Untouched(t, w)
    BY DEF Meeting, Untouched, Shape, Blocks, SameStubs, Fields
  <2> HIDE DEF w
  <2>. QED BY <1>8, <2>1, <2>2
<1>11. CASE /\ ~a.lost /\ ~Overlap(eb, e) /\ Finish(eb) # Interval[e].start
            /\ Finish(eb) = Finish(e)
  <2> DEFINE w == [t EXCEPT !.blk[e].end = t.blk[eb].end]
  <2>1. v = [a EXCEPT !.t = w]
    BY <1>11 DEF VisitScheduled
  <2>2. Meeting(t, eb, e, w) /\ Untouched(t, w)
    BY DEF Meeting, Untouched, Shape, Blocks, SameStubs, Fields
  <2> HIDE DEF w
  <2>. QED BY <1>8, <2>1, <2>2
<1>12. CASE /\ ~a.lost /\ ~Overlap(eb, e) /\ Finish(eb) # Interval[e].start
            /\ Finish(eb) # Finish(e)
  <2>1. v = a
    BY <1>12 DEF VisitScheduled
  <2>. QED BY <1>1, <2>1 DEF Meets
<1>. QED BY <1>5, <1>6, <1>7, <1>9, <1>10, <1>11, <1>12

\* The queues a new block eb may be placed in.
Ready(t, eb) ==
    /\ Shape(t) /\ eb \in Event /\ IsInjective(t.scheduled)
    /\ ToSet(t.scheduled) \intersect ToSet(t.superseded) = {}
    /\ eb \notin ToSet(t.scheduled) \union ToSet(t.superseded)

\* A block was compared with some or all of those scheduled; place says whether it
\* gets a place among them.
Placed(t, eb, u, place) ==
    /\ Shape(u) /\ u.lst = t.lst /\ SameStubs(t, u) /\ u.active = t.active
    /\ \A e \in Event \ {eb} : \/ u.blk[e] = t.blk[e]
                               \/ /\ e \in ToSet(t.scheduled)
                                  /\ u.blk[e].status \in {t.blk[e].status, "ScheduleSuperseded"}
    /\ u.blk[eb].status = IF place THEN "Scheduled" ELSE "ScheduleSuperseded"
    /\ place => eb \notin ToSet(u.superseded)
    /\ IsInjective(u.scheduled)
    /\ ToSet(u.scheduled) \intersect ToSet(u.superseded) = {}
    /\ ToSet(u.scheduled) \subseteq ToSet(t.scheduled)
    /\ ToSet(u.superseded) \subseteq ToSet(t.superseded) \union ToSet(t.scheduled) \union {eb}
    /\ \A e \in ToSet(u.scheduled) : u.blk[e].status = t.blk[e].status

\* What insert_block knows in each of its rounds; x is as for insert_active.
ScheduledHolds(x, seq, a, i) ==
    /\ Ready(x.t, x.eb) /\ seq = x.t.scheduled
    /\ {"t", "lost"} \subseteq DOMAIN a /\ a.lost \in BOOLEAN
    /\ Placed(x.t, x.eb, a.t, ~a.lost)

ScheduledStep(x, a, e) == VisitScheduled(x.eb, a, e)

\* It keeps what is known.
LEMMA ScheduledRound ==
  ASSUME NEW x, NEW seq, NEW i \in 1 .. Len(seq), NEW a, ScheduledHolds(x, seq, a, i - 1)
  PROVE  ScheduledHolds(x, seq, ScheduledStep(x, a, seq[i]), i)
<1> DEFINE e == seq[i]
           v == VisitScheduled(x.eb, a, e)
           t == x.t
           eb == x.eb
<1>1. /\ eb \in Event /\ Shape(t) /\ Ready(t, eb) /\ seq = t.scheduled /\ seq \in Seq(Event)
      /\ {"t", "lost"} \subseteq DOMAIN a /\ a.lost \in BOOLEAN
      /\ Placed(t, eb, a.t, ~a.lost) /\ Shape(a.t)
  BY DEF ScheduledHolds, Ready, Placed, Shape
<1>2. /\ e \in Event /\ e \in ToSet(t.scheduled) /\ ToSet(t.scheduled) \subseteq Event
      /\ e # eb
  BY <1>1, InQueue DEF Ready
<1>3. /\ {"t", "lost"} \subseteq DOMAIN v
      /\ Meets(a.t, eb, e, v.t, a.lost, v.lost)
  BY <1>1, <1>2, VisitEffect
<1> HIDE DEF v, e
<1> DEFINE u == a.t
           w == v.t
<1>4. /\ Meeting(u, eb, e, w) /\ Shape(w) /\ w.lst = t.lst /\ SameStubs(t, w)
      /\ w.active = t.active /\ v.lost \in BOOLEAN
  <2>1. Meeting(u, eb, e, w) /\ v.lost \in BOOLEAN
    BY <1>1, <1>3 DEF Meets
  <2>2. Shape(w) /\ w.lst = u.lst /\ SameStubs(u, w) /\ w.active = u.active
    BY <2>1 DEF Meeting
  <2>3. u.lst = t.lst /\ SameStubs(t, u) /\ u.active = t.active
    BY <1>1 DEF Placed
  <2>4. SameStubs(t, w)
    BY <2>2, <2>3 DEF SameStubs
  <2>. QED BY <2>1, <2>2, <2>3, <2>4
<1>5. ToSet(u.scheduled) \subseteq ToSet(t.scheduled) /\ ToSet(u.scheduled) \subseteq Event
  BY <1>1, <1>2 DEF Placed
<1>6. CASE v.lost = a.lost /\ Untouched(u, w)
  <2>1. \A f \in Event \ {eb} : \/ w.blk[f] = t.blk[f]
                                \/ /\ f \in ToSet(t.scheduled)
                                   /\ w.blk[f].status \in {t.blk[f].status, "ScheduleSuperseded"}
    BY <1>1, <1>2, <1>4, <1>6 DEF Placed, Meeting, Untouched
  <2>2. \A f \in ToSet(w.scheduled) : w.blk[f].status = t.blk[f].status
    BY <1>1, <1>5, <1>6 DEF Placed, Untouched
  <2>3. Placed(t, eb, w, ~v.lost)
    BY <1>1, <1>4, <1>6, <2>1, <2>2 DEF Placed, Untouched
  <2>. QED BY <1>1, <1>3, <1>4, <2>3 DEF ScheduledHolds, ScheduledStep, v, e
<1>7. CASE v.lost = a.lost /\ Dropped(u, e, w)
  <2>1. \A f \in Event \ {eb} : \/ w.blk[f] = t.blk[f]
                                \/ /\ f \in ToSet(t.scheduled)
                                   /\ w.blk[f].status \in {t.blk[f].status, "ScheduleSuperseded"}
    BY <1>1, <1>2, <1>4, <1>7 DEF Placed, Meeting, Dropped
  <2>2. /\ IsInjective(w.scheduled) /\ e \notin ToSet(w.scheduled)
        /\ ToSet(w.scheduled) \subseteq ToSet(u.scheduled)
    <3>1. u.scheduled \in Seq(Event) /\ IsInjective(u.scheduled)
      BY <1>1 DEF Placed, Shape
    <3>2. w.scheduled = RemoveFirst(u.scheduled, e)
      BY <1>7 DEF Dropped
    <3>. QED BY <3>1, <3>2, RemoveOnce, RemoveWithin DEF Within
  <2>3. ToSet(w.superseded) \subseteq ToSet(u.superseded) \union {e}
    <3>1. u.superseded \in Seq(Event) /\ w.superseded = <<e>> \o u.superseded
      BY <1>1, <1>7 DEF Shape, Dropped
    <3>. QED BY <1>2, <3>1, PushWithin DEF Within
  <2>4. \A f \in ToSet(w.scheduled) : w.blk[f].status = t.blk[f].status
    BY <1>1, <1>5, <1>7, <2>2 DEF Placed, Dropped
  <2>5. Placed(t, eb, w, ~v.lost)
    BY <1>1, <1>2, <1>4, <1>5, <1>7, <2>1, <2>2, <2>3, <2>4 DEF Placed, Dropped
  <2>. QED BY <1>1, <1>3, <1>4, <2>5 DEF ScheduledHolds, ScheduledStep, v, e
<1>8. CASE v.lost = TRUE /\ ~a.lost /\ Lost(u, eb, w)
  <2>1. \A f \in Event \ {eb} : \/ w.blk[f] = t.blk[f]
                                \/ /\ f \in ToSet(t.scheduled)
                                   /\ w.blk[f].status \in {t.blk[f].status, "ScheduleSuperseded"}
    BY <1>1, <1>2, <1>4, <1>8 DEF Placed, Meeting, Lost
  <2>2. ToSet(w.superseded) \subseteq ToSet(u.superseded) \union {eb}
    <3>1. u.superseded \in Seq(Event) /\ w.superseded = <<eb>> \o u.superseded
      BY <1>1, <1>8 DEF Shape, Lost
    <3>. QED BY <1>1, <3>1, PushWithin DEF Within
  <2>3. eb \notin ToSet(t.scheduled)
    BY <1>1 DEF Ready
  <2>4. \A f \in ToSet(w.scheduled) : w.blk[f].status = t.blk[f].status
    BY <1>1, <1>5, <1>8, <2>3 DEF Placed, Lost
  <2>5. Placed(t, eb, w, ~v.lost)
    <3>1. w.scheduled = u.scheduled /\ w.blk[eb].status = "ScheduleSuperseded"
      BY <1>8 DEF Lost
    <3>2. /\ IsInjective(w.scheduled) /\ ToSet(w.scheduled) \subseteq ToSet(t.scheduled)
          /\ ToSet(w.scheduled) \intersect ToSet(u.superseded) = {}
          /\ ToSet(u.superseded)
               \subseteq ToSet(t.superseded) \union ToSet(t.scheduled) \union {eb}
      BY <1>1, <3>1 DEF Placed
    <3>3. /\ ToSet(w.scheduled) \intersect ToSet(w.superseded) = {}
          /\ ToSet(w.superseded)
               \subseteq ToSet(t.superseded) \union ToSet(t.scheduled) \union {eb}
      BY <2>2, <2>3, <3>2
    <3>. QED BY <1>4, <1>8, <2>1, <2>4, <3>1, <3>2, <3>3 DEF Placed
  <2>. QED BY <1>1, <1>3, <1>4, <2>5 DEF ScheduledHolds, ScheduledStep, v, e
<1>. QED BY <1>3, <1>6, <1>7, <1>8 DEF Meets

ScheduledLoop == INSTANCE FoldInduction WITH Step <- ScheduledStep, Holds <- ScheduledHolds

\* All of insert_block, by induction over the scheduled blocks: eb has its place, or
\* has lost.
LEMMA InsertBlockEffect ==
  ASSUME NEW t, NEW eb \in Event, Ready(t, eb)
  PROVE  \/ Placed(t, eb, InsertBlock(t, eb), FALSE)
         \/ \E u, key : /\ Placed(t, eb, u, TRUE)
                        /\ InsertBlock(t, eb) =
                             [u EXCEPT !.scheduled = InsertSorted(u.scheduled, eb, key)]
<1> DEFINE x == [t |-> t, eb |-> eb]
           t0 == [t EXCEPT !.blk[eb].status = "Scheduled", !.blk[eb].der = Base[eb]]
           start == [t |-> t0, lost |-> FALSE]
           r == ScheduledLoop!Loop(x, start, t.scheduled)
           key == [e \in Event |-> r.t.blk[e].start]
<1>1. InsertBlock(t, eb) =
        IF r.lost THEN r.t
        ELSE [r.t EXCEPT !.scheduled = InsertSorted(r.t.scheduled, eb, key)]
  <2>1. MeetScheduled(t, eb) = r
    BY DEF MeetScheduled, ScheduledLoop!Loop, ScheduledStep, FoldLeft, MapThenFoldSet,
           ScheduledLoop!FoldLeft, ScheduledLoop!MapThenFoldSet, Max, ScheduledLoop!Max
  <2> HIDE DEF r
  <2>. QED BY <2>1 DEF InsertBlock
<1>2. Placed(t, eb, t0, TRUE)
  <2>1. /\ Shape(t0) /\ t0.lst = t.lst /\ SameStubs(t, t0) /\ t0.active = t.active
        /\ t0.scheduled = t.scheduled /\ t0.superseded = t.superseded
        /\ \A e \in Event \ {eb} : t0.blk[e] = t.blk[e]
        /\ t0.blk[eb].status = "Scheduled"
    BY DEF Ready, Shape, Blocks, SameStubs, Fields
  <2> HIDE DEF t0
  <2>2. ToSet(t.scheduled) \subseteq Event
    BY InQueue DEF Ready, Shape
  <2>3. \A e \in ToSet(t0.scheduled) : t0.blk[e].status = t.blk[e].status
    BY <2>1, <2>2 DEF Ready
  <2>. QED BY <2>1, <2>3 DEF Placed, Ready
<1> HIDE DEF t0
<1>3. ScheduledHolds(x, t.scheduled, start, 0)
  <2>1. start.t = t0 /\ start.lost = FALSE /\ {"t", "lost"} \subseteq DOMAIN start
    OBVIOUS
  <2>2. x.t = t /\ x.eb = eb
    OBVIOUS
  <2> HIDE DEF start, x
  <2>. QED BY <1>2, <2>1, <2>2 DEF ScheduledHolds
<1> HIDE DEF start
<1>4. ScheduledHolds(x, t.scheduled, r, Len(t.scheduled))
  <2>1. t.scheduled \in Seq(Event)
    BY DEF Ready, Shape
  <2>2. \A i \in 1 .. Len(t.scheduled) : \A a :
          ScheduledHolds(x, t.scheduled, a, i - 1)
            => ScheduledHolds(x, t.scheduled, ScheduledStep(x, a, t.scheduled[i]), i)
    BY ScheduledRound
  <2> HIDE DEF x
  <2>. QED BY <1>3, <2>1, <2>2, ScheduledLoop!Induction
<1> HIDE DEF r, key
<1>5. Placed(t, eb, r.t, ~r.lost) /\ r.lost \in BOOLEAN
  BY <1>4 DEF ScheduledHolds
<1>6. CASE r.lost
  <2>1. InsertBlock(t, eb) = r.t /\ ~r.lost = FALSE
    BY <1>1, <1>6
  <2>. QED BY <1>5, <2>1
<1>7. CASE ~r.lost
  <2>1. /\ ~r.lost = TRUE
        /\ InsertBlock(t, eb) = [r.t EXCEPT !.scheduled = InsertSorted(r.t.scheduled, eb, key)]
    BY <1>1, <1>7
  <2>. QED BY <1>5, <2>1
<1>. QED BY <1>5, <1>6, <1>7

\* insert_block, for a block in no queue that is neither active nor over.
LEMMA InsertBlockGood ==
  ASSUME NEW s, NEW t, Good(s, t), NEW eb \in Event, eb \notin InQueues(t),
         t.blk[eb].status \notin Final \union {"Active", "ActiveWait"}
  PROVE  LET u == InsertBlock(t, eb) IN
         /\ Advances(s, t, u) /\ u.lst = t.lst
         /\ InQueues(u) \subseteq InQueues(t) \union {eb}
<1>1. Ready(t, eb)
  BY DEF Good, Sound, Orderly, InQueues, Ready
<1>2. /\ ToSet(t.active) \subseteq Event /\ ToSet(t.scheduled) \subseteq Event
      /\ ToSet(t.scheduled) \intersect (ToSet(t.active) \union ToSet(t.superseded)) = {}
      /\ \A e \in ToSet(t.scheduled) : t.blk[e].status \in {"Scheduled", "none"}
  BY InQueue DEF Good, Sound, Orderly, Shape
\* Whether eb gets a place or not:
<1>3. ASSUME NEW place \in BOOLEAN, NEW u, Placed(t, eb, u, place)
      PROVE  /\ Sound(s, u) /\ Forth(t, u) /\ u.lst = t.lst
             /\ Orderly(u)
             /\ InQueues(u) \subseteq InQueues(t) \union {eb}
  <2>1. \A e \in ToSet(t.active) : u.blk[e] = t.blk[e]
    BY <1>2, <1>3 DEF Placed, InQueues
  <2>2. Exclusive(u)
    BY <1>3, <2>1 DEF Placed, Exclusive, Good, Sound
  <2>3. ASSUME NEW e \in Event
        PROVE  /\ MayBecome(t.blk[e].status, u.blk[e].status)
               /\ u.blk[e].status = "Active" => u.stub[e].status # "Scheduled"
               /\ u.blk[e].status = "Active" \/ u.stub[e].status = "Active" => s[e] \notin Early
               /\ u.stub[e].completion => u.blk[e].status # "none"
    <3>1. /\ t.blk[e].status = "Active" => t.stub[e].status # "Scheduled"
          /\ t.blk[e].status = "Active" \/ t.stub[e].status = "Active" => s[e] \notin Early
          /\ t.stub[e].completion => t.blk[e].status # "none"
      BY DEF Good, Sound, Told
    <3>2. u.stub[e].status = t.stub[e].status /\ u.stub[e].completion = t.stub[e].completion
      BY <1>3 DEF Placed, SameStubs
    <3>3. CASE u.blk[e].status = t.blk[e].status
      BY <3>1, <3>2, <3>3 DEF MayBecome
    <3>4. CASE /\ u.blk[e].status \in {"Scheduled", "ScheduleSuperseded"}
               /\ t.blk[e].status \notin Final \union {"Active", "ActiveWait"}
      BY <3>1, <3>2, <3>4 DEF MayBecome
    <3>5. e # eb => \/ u.blk[e].status = t.blk[e].status
                    \/ /\ u.blk[e].status = "ScheduleSuperseded"
                       /\ t.blk[e].status \in {"Scheduled", "none"}
      BY <1>2, <1>3 DEF Placed
    <3>6. e = eb => u.blk[e].status \in {"Scheduled", "ScheduleSuperseded"}
      BY <1>3 DEF Placed
    <3>. QED BY <3>3, <3>4, <3>5, <3>6 DEF Final
  <2>4. Forth(t, u) /\ Told(s, u)
    BY <2>3 DEF Forth, Told
  <2>5. Own(u)
    BY <1>3 DEF Placed, Good, Sound, Own
  <2>6. Orderly(u)
    BY <1>2, <1>3 DEF Placed, Orderly
  <2>7. InQueues(u) \subseteq InQueues(t) \union {eb}
    BY <1>3 DEF Placed, InQueues
  <2>. QED BY <1>3, <2>2, <2>4, <2>5, <2>6, <2>7 DEF Placed, Sound
<1>4. CASE Placed(t, eb, InsertBlock(t, eb), FALSE)
  BY <1>3, <1>4 DEF Advances, Good
<1>5. ASSUME NEW u, NEW key, Placed(t, eb, u, TRUE),
             InsertBlock(t, eb) = [u EXCEPT !.scheduled = InsertSorted(u.scheduled, eb, key)]
      PROVE  LET v == InsertBlock(t, eb) IN
             /\ Advances(s, t, v) /\ v.lst = t.lst
             /\ InQueues(v) \subseteq InQueues(t) \union {eb}
  <2> DEFINE queue == InsertSorted(u.scheduled, eb, key)
             v == [u EXCEPT !.scheduled = queue]
  <2>1. /\ Sound(s, u) /\ Forth(t, u) /\ u.lst = t.lst /\ Orderly(u)
        /\ InQueues(u) \subseteq InQueues(t) \union {eb}
    BY <1>3, <1>5
  <2>2. /\ u.scheduled \in Seq(Event) /\ IsInjective(u.scheduled) /\ u.active = t.active
        /\ u.blk[eb].status = "Scheduled" /\ eb \notin ToSet(u.superseded)
        /\ eb \notin ToSet(u.scheduled) /\ eb \notin ToSet(u.active)
    BY <1>5 DEF Placed, Shape, InQueues
  <2>3. Within(queue, ToSet(u.scheduled) \union {eb}) /\ IsInjective(queue)
    BY <2>2, InsertWithin, InsertOnce
  <2> HIDE DEF queue
  <2>4. /\ Shape(v) /\ v.lst = u.lst /\ v.blk = u.blk /\ v.stub = u.stub
        /\ v.scheduled = queue /\ v.active = u.active /\ v.superseded = u.superseded
    BY <2>1, <2>3 DEF Sound, Shape, Within, Fields
  <2>5. InsertBlock(t, eb) = v
    BY <1>5 DEF queue
  <2> HIDE DEF v
  <2>6. Sound(s, v) /\ Forth(t, v)
    BY <2>1, <2>4 DEF Sound, Exclusive, Told, Own, Forth
  <2>7. Orderly(v)
    BY <2>1, <2>2, <2>3, <2>4 DEF Orderly, Within
  <2>8. InQueues(v) \subseteq InQueues(t) \union {eb}
    BY <2>1, <2>3, <2>4 DEF InQueues, Within
  <2>. QED BY <2>1, <2>4, <2>5, <2>6, <2>7, <2>8 DEF Advances, Good
<1>. QED BY <1>1, <1>4, <1>5, InsertBlockEffect

-----------------------------------------------------------------------------
(* Blocks end and leave the queues. *)

\* No block becomes active and none gets a control; those of S, and no others, may end.
Shrunk(t, S, u) ==
    /\ Shape(u) /\ u.lst = t.lst /\ SameStubs(t, u)
    /\ ToSet(u.scheduled) \subseteq ToSet(t.scheduled)
    /\ ToSet(u.active) \subseteq ToSet(t.active)
    /\ ToSet(u.superseded) \subseteq ToSet(t.superseded)
    /\ IsInjective(t.scheduled) => IsInjective(u.scheduled)
    /\ \A e \in Event : /\ u.blk[e].der \subseteq t.blk[e].der
                        /\ \/ u.blk[e].status = t.blk[e].status
                           \/ e \in S /\ u.blk[e].status \in Final

\* Active blocks stay apart, and the queues in order if none has a block that ended.
LEMMA ShrunkSound ==
  ASSUME NEW s, NEW t, Sound(s, t), NEW S, NEW u, Shrunk(t, S, u)
  PROVE  Sound(s, u) /\ Forth(t, u)
<1>1. ToSet(u.active) \subseteq ToSet(t.active) /\ ToSet(u.active) \subseteq Event
  BY InQueue DEF Shrunk, Shape
<1>2. ASSUME NEW e \in ToSet(u.active), NEW f \in ToSet(u.active), e # f
      PROVE  u.blk[e].der \intersect u.blk[f].der = {}
  <2>1. t.blk[e].der \intersect t.blk[f].der = {}
    BY <1>1, <1>2 DEF Sound, Exclusive
  <2>2. u.blk[e].der \subseteq t.blk[e].der /\ u.blk[f].der \subseteq t.blk[f].der
    BY <1>1 DEF Shrunk
  <2>. QED BY <2>1, <2>2
<1>3. \A e \in Event : u.blk[e].status = t.blk[e].status \/ u.blk[e].status \in Final
  BY DEF Shrunk
<1>4. Forth(t, u)
  BY <1>3 DEF Forth, MayBecome
<1>5. Told(s, u)
  BY <1>3 DEF Shrunk, SameStubs, Sound, Told, Final
<1>. QED BY <1>2, <1>4, <1>5 DEF Sound, Exclusive, Own, Shrunk

LEMMA ShrunkAdvances ==
  ASSUME NEW s, NEW t, Good(s, t), NEW S, NEW u, Shrunk(t, S, u),
         S \intersect ToSet(u.scheduled) = {}
  PROVE  Advances(s, t, u)
<1>1. Sound(s, u) /\ Forth(t, u)
  BY ShrunkSound DEF Good
<1>2. ToSet(u.scheduled) \subseteq Event
  BY InQueue DEF Shrunk, Shape
<1>3. Orderly(u)
  BY <1>2 DEF Good, Orderly, Shrunk
<1>. QED BY <1>1, <1>3 DEF Advances, Good

LEMMA ShrunkTrans ==
  ASSUME NEW t, NEW S, NEW u, Shrunk(t, S, u), NEW v, Shrunk(u, S, v)
  PROVE  Shrunk(t, S, v)
<1>1. \A e \in Event : v.blk[e].der \subseteq t.blk[e].der
  <2>1. \A e \in Event : v.blk[e].der \subseteq u.blk[e].der
    BY DEF Shrunk
  <2>2. \A e \in Event : u.blk[e].der \subseteq t.blk[e].der
    BY DEF Shrunk
  <2>. QED BY <2>1, <2>2
<1>2. \A e \in Event : \/ v.blk[e].status = t.blk[e].status
                       \/ e \in S /\ v.blk[e].status \in Final
  <2>1. \A e \in Event : \/ v.blk[e].status = u.blk[e].status
                         \/ e \in S /\ v.blk[e].status \in Final
    BY DEF Shrunk
  <2>2. \A e \in Event : \/ u.blk[e].status = t.blk[e].status
                         \/ e \in S /\ u.blk[e].status \in Final
    BY DEF Shrunk
  <2>. QED BY <2>1, <2>2
<1>3. SameStubs(t, v)
  BY DEF Shrunk, SameStubs
<1>. QED BY <1>1, <1>2, <1>3 DEF Shrunk

LEMMA ShrunkMore ==
  ASSUME NEW t, NEW S, NEW u, Shrunk(t, S, u), NEW T, S \subseteq T
  PROVE  Shrunk(t, T, u)
  BY DEF Shrunk

LEMMA QuietShrunk ==
  ASSUME NEW t, Shape(t), NEW u, Quiet(t, u), NEW S
  PROVE  Shrunk(t, S, u) /\ Shape(u)
<1>1. Shape(u)
  BY QuietShape
<1>. QED BY <1>1 DEF Quiet, Shrunk

LEMMA ShrunkSelf ==
  ASSUME NEW t, Shape(t), NEW S
  PROVE  Shrunk(t, S, t)
  BY QuietSelf, QuietShrunk

LEMMA StatusShrunk ==
  ASSUME NEW t, Shape(t), NEW e \in Event, NEW status \in Final
  PROVE  LET u == [t EXCEPT !.blk[e].status = status] IN
         /\ Shrunk(t, {e}, u)
         /\ u.scheduled = t.scheduled /\ u.active = t.active /\ u.superseded = t.superseded
  BY DEF Shrunk, Shape, Blocks, SameStubs, Fields

LEMMA EndShrunk ==
  ASSUME NEW t, Shape(t), NEW e \in Event, NEW time, NEW S
  PROVE  LET u == [t EXCEPT !.blk[e].end = time] IN
         /\ Shrunk(t, S, u)
         /\ u.scheduled = t.scheduled /\ \A f \in Event : u.blk[f].status = t.blk[f].status
  BY DEF Shrunk, Shape, Blocks, SameStubs, Fields

\* block_update, after the response.
LEMMA BlockUpdateShrunk ==
  ASSUME NEW t, Shape(t), NEW e \in Event, NEW status \in Final, NEW response
  PROVE  Shrunk(t, {e}, BlockUpdate(DeviceResponse(t, e, response), e, status))
<1> DEFINE r == DeviceResponse(t, e, response)
           v == [r EXCEPT !.blk[e].end = r.now]
           w == InsertEvent(v, Block(e), "EVENT_END", 0)
           u == IF r.blk[e].status = "Active" THEN w ELSE r
           z == [u EXCEPT !.blk[e].status = status]
<1>1. Shrunk(t, {e}, r) /\ Shape(r)
  BY ResponseQuiet, QuietShrunk
<1>2. BlockUpdate(r, e, status) = z
  BY DEF BlockUpdate
<1> HIDE DEF r
<1>3. Shrunk(r, {e}, v)
  BY <1>1, EndShrunk
<1> HIDE DEF v
<1>4. Shrunk(v, {e}, w)
  <2>1. Shape(v)
    BY <1>3 DEF Shrunk
  <2>. QED BY <2>1, InsertEventQuiet, QuietShrunk
<1> HIDE DEF w
<1>5. Shrunk(t, {e}, w)
  BY <1>1, <1>3, <1>4, ShrunkTrans
<1>6. Shrunk(t, {e}, u) /\ Shape(u)
  BY <1>1, <1>5 DEF Shrunk
<1> HIDE DEF u
<1>7. Shrunk(u, {e}, z)
  BY <1>6, StatusShrunk
<1> HIDE DEF z
<1>8. Shrunk(t, {e}, z)
  BY <1>6, <1>7, ShrunkTrans
<1>. QED BY <1>2, <1>8 DEF r

-----------------------------------------------------------------------------
(* schedule_event, called by schedule_der for queues it has emptied. *)

\* schedule_event for e, which is in no queue yet, may put it into one.
Scheduling(s, t, e, u) ==
    /\ Advances(s, t, u) /\ u.lst = t.lst
    /\ InQueues(u) \subseteq InQueues(t) \union {e}

LEMMA SchedulingTrans ==
  ASSUME NEW s, NEW t, NEW e, NEW u, Scheduling(s, t, e, u), NEW v, Scheduling(s, u, e, v)
  PROVE  Scheduling(s, t, e, v)
<1>1. Advances(s, t, v)
  BY AdvancesTrans DEF Scheduling
<1>. QED BY <1>1 DEF Scheduling

LEMMA ShrunkScheduling ==
  ASSUME NEW s, NEW t, Good(s, t), NEW e, e \notin InQueues(t), NEW u, Shrunk(t, {e}, u)
  PROVE  Scheduling(s, t, e, u)
<1>1. {e} \intersect ToSet(u.scheduled) = {}
  BY DEF InQueues, Shrunk
<1>2. Advances(s, t, u)
  BY <1>1, ShrunkAdvances
<1>. QED BY <1>2 DEF Scheduling, Shrunk, InQueues

\* A block for a new event.
LEMMA NewEventScheduling ==
  ASSUME NEW s, NEW t, Good(s, t), NEW e \in Event, e \notin InQueues(t), t.blk[e] = NoBlock,
         NEW rnd
  PROVE  LET u == NewEvent(t, e, rnd) IN
         /\ Scheduling(s, t, e, u) /\ InQueues(u) = InQueues(t)
         /\ u.stub[e].status = t.stub[e].status
<1> DEFINE b == NewBlock(e, rnd)
           u == [t EXCEPT !.blk[e] = b, !.stub[e].completion = TRUE]
           v == DeviceResponse(u, e, "Received")
<1>1. NewEvent(t, e, rnd) = v
  BY DEF NewEvent
<1>2. b.status = "Scheduled" /\ b.der = {} /\ {"status", "der", "start", "end"} \subseteq DOMAIN b
  BY DEF NewBlock
<1>3. t.blk[e].status = "none" /\ t.blk[e].der = {}
  BY DEF NoBlock
<1> HIDE DEF b
<1>4. /\ Shape(u) /\ u.lst = t.lst
      /\ u.scheduled = t.scheduled /\ u.active = t.active /\ u.superseded = t.superseded
      /\ \A f \in Event : /\ u.stub[f].status = t.stub[f].status
                          /\ f # e => u.blk[f] = t.blk[f] /\ u.stub[f] = t.stub[f]
      /\ u.blk[e] = b
  BY <1>2 DEF Good, Sound, Shape, Blocks, Stubs, Fields
<1> HIDE DEF u
<1>5. ToSet(t.active) \subseteq Event /\ ToSet(t.scheduled) \subseteq Event
  BY InQueue DEF Good, Sound, Shape
<1>6. Exclusive(u)
  BY <1>2, <1>4, <1>5 DEF Good, Sound, Exclusive
<1>7. Told(s, u)
  BY <1>2, <1>4 DEF Good, Sound, Told
<1>8. Own(u)
  BY <1>4 DEF Good, Sound, Own
<1>9. Orderly(u)
  BY <1>4, <1>5 DEF Good, Orderly, InQueues
<1>10. Forth(t, u)
  BY <1>3, <1>4 DEF Forth, MayBecome, Final
<1>11. Advances(s, t, u) /\ Good(s, u)
  BY <1>4, <1>6, <1>7, <1>8, <1>9, <1>10 DEF Advances, Good, Sound
<1>12. Quiet(u, v)
  BY <1>4, ResponseQuiet
<1> HIDE DEF v
<1>13. Advances(s, t, v)
  BY <1>11, <1>12, QuietAdvances, AdvancesTrans
<1>. QED BY <1>1, <1>4, <1>12, <1>13 DEF Scheduling, Quiet, SameStubs, InQueues

\* insert_active, for an event in no queue.
LEMMA InsertActiveScheduling ==
  ASSUME NEW s, NEW t, Good(s, t), NEW e \in Event, e \notin InQueues(t),
         t.blk[e].status \notin Final
  PROVE  Scheduling(s, t, e, InsertActive(t, e))
<1> DEFINE u == InsertActive(t, e)
<1>1. e \notin ToSet(t.active) \union ToSet(t.scheduled)
  BY DEF InQueues
<1>2. /\ Sound(s, u) /\ Forth(t, u) /\ u.lst = t.lst
      /\ u.scheduled = t.scheduled /\ u.superseded = t.superseded
      /\ ToSet(u.active) \subseteq ToSet(t.active) \union {e}
      /\ \A f \in Event : f \notin ToSet(t.active) \union {e}
                            => u.blk[f].status = t.blk[f].status
  BY <1>1, InsertActiveSound DEF Good
<1> HIDE DEF u
<1>3. ToSet(t.scheduled) \subseteq Event
  BY InQueue DEF Good, Sound, Shape
<1>4. Orderly(u)
  BY <1>1, <1>2, <1>3 DEF Good, Orderly
<1>. QED BY <1>2, <1>4 DEF Scheduling, Advances, Good, InQueues, u

\* schedule_event, one case for each of its branches.
LEMMA ScheduleEventEffect ==
  ASSUME NEW s, NEW t, Good(s, t), NEW e \in Event, e \notin InQueues(t), NEW rnd
  PROVE  Scheduling(s, t, e, ScheduleEvent(t, e, rnd))
<1> DEFINE new == t.blk[e] = NoBlock
           t1 == NewEvent(t, e, rnd)
           t0 == IF new THEN t1 ELSE t
           status == t.stub[e].status
           expired == new /\ t0.blk[e].end <= t.now
<1>1. ScheduleEvent(t, e, rnd) =
        IF expired THEN Expire(t0, e)
        ELSE IF t0.blk[e].status \in Final THEN t0
        ELSE PlaceBlock(t0, e, status)
  BY DEF ScheduleEvent
<1> HIDE DEF expired
<1>2. Scheduling(s, t, e, t)
  BY AdvancesSelf DEF Scheduling
<1>3. new => /\ Scheduling(s, t, e, t1) /\ InQueues(t1) = InQueues(t)
             /\ t1.stub[e].status = status
  BY NewEventScheduling
<1> HIDE DEF new, t1
<1>4. Scheduling(s, t, e, t0) /\ InQueues(t0) = InQueues(t) /\ t0.stub[e].status = status
  BY <1>2, <1>3
<1> HIDE DEF t0
<1>5. Good(s, t0) /\ Shape(t0) /\ e \notin InQueues(t0)
  BY <1>4 DEF Scheduling, Advances, Good, Sound
<1>6. \A u : Scheduling(s, t0, e, u) => Scheduling(s, t, e, u)
  BY <1>4, SchedulingTrans
<1>7. CASE expired
  <2> DEFINE u == [t0 EXCEPT !.blk[e].status = "Completed"]
             v == DeviceResponse(u, e, "Expired")
  <2>1. ScheduleEvent(t, e, rnd) = v
    BY <1>1, <1>7 DEF Expire
  <2>2. Shrunk(t0, {e}, u) /\ Shape(u)
    <3>1. "Completed" \in Final
      BY DEF Final
    <3>. QED BY <1>5, <3>1, StatusShrunk DEF Shrunk
  <2> HIDE DEF u
  <2>3. Shrunk(u, {e}, v)
    BY <2>2, ResponseQuiet, QuietShrunk
  <2> HIDE DEF v
  <2>4. Shrunk(t0, {e}, v)
    BY <2>2, <2>3, ShrunkTrans
  <2>. QED BY <1>5, <1>6, <2>1, <2>4, ShrunkScheduling
<1>8. CASE ~expired /\ t0.blk[e].status \in Final
  BY <1>1, <1>4, <1>8
<1>9. CASE ~expired /\ t0.blk[e].status \notin Final
  <2>1. ScheduleEvent(t, e, rnd) = PlaceBlock(t0, e, status)
    BY <1>1, <1>9
  <2>2. CASE status = "Scheduled" /\ t0.blk[e].status # "ActiveWait"
    <3>1. PlaceBlock(t0, e, status) = InsertBlock(t0, e)
      BY <2>2 DEF PlaceBlock
    <3>2. t0.blk[e].status \notin Final \union {"Active", "ActiveWait"}
      BY <1>4, <1>5, <1>9, <2>2 DEF Good, Sound, Told
    <3>3. Scheduling(s, t0, e, InsertBlock(t0, e))
      BY <1>5, <3>2, InsertBlockGood DEF Scheduling
    <3>. QED BY <1>6, <2>1, <3>1, <3>3
  <2>3. CASE \/ status = "Scheduled" /\ t0.blk[e].status = "ActiveWait"
             \/ status = "Active"
    <3>1. PlaceBlock(t0, e, status) = InsertActive(t0, e)
      BY <2>3 DEF PlaceBlock
    <3>2. Scheduling(s, t0, e, InsertActive(t0, e))
      BY <1>5, <1>9, InsertActiveScheduling
    <3>. QED BY <1>6, <2>1, <3>1, <3>2
  <2>4. CASE status \in {"Canceled", "CanceledRandom", "Superseded"}
    <3> DEFINE response == IF status = "Superseded" THEN "Superseded" ELSE "Canceled"
               u == BlockUpdate(DeviceResponse(t0, e, response), e, status)
    <3>1. PlaceBlock(t0, e, status) = u
      BY <2>4 DEF PlaceBlock
    <3>2. status \in Final
      BY <2>4 DEF Final
    <3>3. Shrunk(t0, {e}, u)
      BY <1>5, <3>2, BlockUpdateShrunk
    <3> HIDE DEF u
    <3>4. Scheduling(s, t0, e, u)
      BY <1>5, <3>3, ShrunkScheduling
    <3>. QED BY <1>6, <2>1, <3>1, <3>4
  <2>5. CASE status \notin {"Scheduled", "Active", "Canceled", "CanceledRandom", "Superseded"}
    <3>1. PlaceBlock(t0, e, status) = t0
      BY <2>5 DEF PlaceBlock
    <3>. QED BY <1>4, <2>1, <3>1
  <2>. QED BY <2>2, <2>3, <2>4, <2>5
<1>. QED BY <1>7, <1>8, <1>9

-----------------------------------------------------------------------------
(* schedule_der fills the queues anew. *)

ControlsStep(x, u, e) == ScheduleEvent(u, e, x.rnd[e])

\* An event of the list waits in a queue only after its turn.
ControlsHold(x, seq, u, i) ==
    /\ seq \in Seq(Event) /\ IsInjective(seq) /\ ToSet(seq) \intersect InQueues(x.t) = {}
    /\ Advances(x.s, x.t, u) /\ u.lst = x.t.lst
    /\ InQueues(u) \subseteq InQueues(x.t) \union {seq[k] : k \in 1 .. i}

ControlsLoop == INSTANCE FoldInduction WITH Step <- ControlsStep, Holds <- ControlsHold

\* schedule_event for each control of a program,
LEMMA ScheduleControlsEffect ==
  ASSUME NEW s, NEW t, Good(s, t), NEW S \in SUBSET Event, S \intersect InQueues(t) = {}, NEW rnd
  PROVE  LET u == ScheduleControls(t, S, rnd) IN
         /\ Advances(s, t, u) /\ u.lst = t.lst
         /\ InQueues(u) \subseteq InQueues(t) \union S
<1> DEFINE x == [s |-> s, t |-> t, rnd |-> rnd]
           seq == Controls(S)
           r == ControlsLoop!Loop(x, t, seq)
<1>1. ScheduleControls(t, S, rnd) = r
  BY DEF ScheduleControls, ControlsLoop!Loop, ControlsStep, FoldLeft, MapThenFoldSet,
         ControlsLoop!FoldLeft, ControlsLoop!MapThenFoldSet, Max, ControlsLoop!Max
<1>2. x.t = t /\ x.s = s
  OBVIOUS
<1>3. seq \in Seq(Event) /\ IsInjective(seq) /\ ToSet(seq) \subseteq S
  BY ControlsType
<1> HIDE DEF x, seq
<1>4. ToSet(seq) = {seq[k] : k \in 1 .. Len(seq)} /\ Len(seq) \in Nat
  BY <1>3, InQueue
<1>5. ControlsHold(x, seq, t, 0)
  BY <1>2, <1>3, AdvancesSelf DEF ControlsHold
<1>6. ASSUME NEW i \in 1 .. Len(seq), NEW u, ControlsHold(x, seq, u, i - 1)
      PROVE  ControlsHold(x, seq, ControlsStep(x, u, seq[i]), i)
  <2> DEFINE e == seq[i]
             v == ScheduleEvent(u, e, x.rnd[e])
             Q == {seq[k] : k \in 1 .. i - 1}
  <2>1. e \in Event /\ e \in ToSet(seq)
    BY <1>3, <1>4
  <2>2. Advances(s, t, u) /\ u.lst = t.lst /\ InQueues(u) \subseteq InQueues(t) \union Q
    BY <1>2, <1>6 DEF ControlsHold
  <2>3. e \notin Q
    <3>1. SUFFICES ASSUME NEW k \in 1 .. i - 1, seq[k] = e PROVE FALSE
      OBVIOUS
    <3>2. k \in 1 .. Len(seq) /\ k # i
      BY <1>4
    <3>. QED BY <1>3, <3>1, <3>2 DEF IsInjective
  <2>4. Q \union {e} \subseteq {seq[k] : k \in 1 .. i}
    BY <1>4
  <2> HIDE DEF e, Q
  <2>5. e \notin InQueues(u) /\ Good(s, u)
    BY <1>3, <2>1, <2>2, <2>3 DEF Advances
  <2>6. Scheduling(s, u, e, v)
    BY <2>1, <2>5, ScheduleEventEffect
  <2> HIDE DEF v
  <2>7. Advances(s, t, v) /\ v.lst = t.lst
    BY <2>2, <2>6, AdvancesTrans DEF Scheduling
  <2>8. InQueues(v) \subseteq InQueues(t) \union {seq[k] : k \in 1 .. i}
    BY <2>2, <2>4, <2>6 DEF Scheduling
  <2>9. ControlsHold(x, seq, v, i)
    BY <1>2, <1>3, <2>7, <2>8 DEF ControlsHold
  <2>. QED BY <2>9 DEF ControlsStep, v, e
<1>7. ControlsHold(x, seq, r, Len(seq))
  <2>1. \A i \in 1 .. Len(seq) : \A u :
          ControlsHold(x, seq, u, i - 1) => ControlsHold(x, seq, ControlsStep(x, u, seq[i]), i)
    BY <1>6
  <2>. QED BY <1>3, <1>5, <2>1, ControlsLoop!Induction
<1> HIDE DEF r
<1>. QED BY <1>1, <1>2, <1>3, <1>4, <1>7 DEF ControlsHold

ProgramsStep(x, u, p) == ScheduleControls(u, x.t.lst[p].reqs, x.rnd)

\* The queues hold events of the programs that had their turn.
ProgramsHold(x, seq, u, i) ==
    /\ seq \in Seq(Program) /\ IsInjective(seq)
    /\ Advances(x.s, x.t, u) /\ u.lst = x.t.lst
    /\ \A e \in InQueues(u) : \E k \in 1 .. i : ProgramOf[e] = seq[k]

ProgramsLoop == INSTANCE FoldInduction WITH Step <- ProgramsStep, Holds <- ProgramsHold

\* and for each program, which has its events to itself.
LEMMA ScheduleProgramsEffect ==
  ASSUME NEW s, NEW t, Good(s, t), InQueues(t) = {},
         NEW seq \in Seq(Program), IsInjective(seq), NEW rnd
  PROVE  Advances(s, t, SchedulePrograms(t, seq, rnd))
<1> DEFINE x == [s |-> s, t |-> t, rnd |-> rnd]
           r == ProgramsLoop!Loop(x, t, seq)
<1>1. SchedulePrograms(t, seq, rnd) = r
  BY DEF SchedulePrograms, ProgramsLoop!Loop, ProgramsStep, FoldLeft, MapThenFoldSet,
         ProgramsLoop!FoldLeft, ProgramsLoop!MapThenFoldSet, Max, ProgramsLoop!Max
<1>2. x.t = t /\ x.s = s
  OBVIOUS
<1> HIDE DEF x
<1>3. ProgramsHold(x, seq, t, 0)
  BY <1>2, AdvancesSelf DEF ProgramsHold
<1>4. ASSUME NEW i \in 1 .. Len(seq), NEW u, ProgramsHold(x, seq, u, i - 1)
      PROVE  ProgramsHold(x, seq, ProgramsStep(x, u, seq[i]), i)
  <2> DEFINE p == seq[i]
             S == t.lst[p].reqs
             v == ScheduleControls(u, S, x.rnd)
  <2>1. p \in Program /\ Len(seq) \in Nat
    OBVIOUS
  <2>2. S \in SUBSET Event /\ \A e \in S : ProgramOf[e] = p
    BY <2>1 DEF Good, Sound, Shape, Lists, Own
  <2>3. /\ Advances(s, t, u) /\ Good(s, u) /\ u.lst = t.lst
        /\ \A e \in InQueues(u) : \E k \in 1 .. i - 1 : ProgramOf[e] = seq[k]
    BY <1>2, <1>4 DEF ProgramsHold, Advances
  <2>4. \A k \in 1 .. i - 1 : seq[k] # p
    <3>1. SUFFICES ASSUME NEW k \in 1 .. i - 1, seq[k] = p PROVE FALSE
      OBVIOUS
    <3>2. k \in 1 .. Len(seq) /\ k # i
      BY <2>1
    <3>. QED BY <3>1, <3>2 DEF IsInjective
  <2>5. S \intersect InQueues(u) = {}
    BY <2>2, <2>3, <2>4
  <2>6. i \in 1 .. i /\ 1 .. i - 1 \subseteq 1 .. i /\ seq[i] = p
    OBVIOUS
  <2> HIDE DEF S, p
  <2>7. /\ Advances(s, u, v) /\ v.lst = u.lst
        /\ InQueues(v) \subseteq InQueues(u) \union S
    BY <2>2, <2>3, <2>5, ScheduleControlsEffect
  <2> HIDE DEF v
  <2>8. \A e \in InQueues(v) : \E k \in 1 .. i : ProgramOf[e] = seq[k]
    BY <2>2, <2>3, <2>6, <2>7
  <2>9. Advances(s, t, v) /\ v.lst = t.lst
    BY <2>3, <2>7, AdvancesTrans
  <2>10. ProgramsHold(x, seq, v, i)
    BY <1>2, <2>8, <2>9 DEF ProgramsHold
  <2>. QED BY <1>2, <2>10 DEF ProgramsStep, v, S, p
<1>5. ProgramsHold(x, seq, r, Len(seq))
  <2>1. \A i \in 1 .. Len(seq) : \A u :
          ProgramsHold(x, seq, u, i - 1) => ProgramsHold(x, seq, ProgramsStep(x, u, seq[i]), i)
    BY <1>4
  <2>. QED BY <1>3, <2>1, ProgramsLoop!Induction
<1> HIDE DEF r
<1>. QED BY <1>1, <1>2, <1>5 DEF ProgramsHold

-----------------------------------------------------------------------------
(* Blocks are taken out of their queues. *)

\* remove_block: from its queue, whichever it is,
LEMMA UnlinkShrunk ==
  ASSUME NEW t, Shape(t), NEW e \in Event
  PROVE  /\ Shrunk(t, {}, Unlink(t, e))
         /\ Orderly(t) /\ t.blk[e].status # "none" => e \notin ToSet(Unlink(t, e).scheduled)
<1> DEFINE s == RemoveFirst(t.scheduled, e)
           a == RemoveFirst(t.active, e)
           o == RemoveFirst(t.superseded, e)
           u == Unlink(t, e)
<1>1. \/ t.blk[e].status = "Scheduled" /\ u = [t EXCEPT !.scheduled = s]
      \/ t.blk[e].status # "Scheduled" /\ u = [t EXCEPT !.active = a]
      \/ t.blk[e].status # "Scheduled" /\ u = [t EXCEPT !.superseded = o]
      \/ t.blk[e].status # "Scheduled" /\ u = t
  <2>1. CASE t.blk[e].status = "Scheduled"
    BY <2>1 DEF Unlink
  <2>2. CASE t.blk[e].status \in {"Active", "ActiveWait"}
    BY <2>2 DEF Unlink
  <2>3. CASE t.blk[e].status = "ScheduleSuperseded"
    BY <2>3 DEF Unlink
  <2>4. CASE t.blk[e].status \notin {"Scheduled", "Active", "ActiveWait", "ScheduleSuperseded"}
    BY <2>4 DEF Unlink
  <2>. QED BY <2>1, <2>2, <2>3, <2>4
<1>2. /\ s \in Seq(Event) /\ ToSet(s) \subseteq ToSet(t.scheduled)
      /\ a \in Seq(Event) /\ ToSet(a) \subseteq ToSet(t.active)
      /\ o \in Seq(Event) /\ ToSet(o) \subseteq ToSet(t.superseded)
  BY RemoveWithin DEF Shape, Within
<1>3. IsInjective(t.scheduled) => IsInjective(s) /\ e \notin ToSet(s)
  BY RemoveOnce DEF Shape
<1> HIDE DEF s, a, o, u
<1>4. /\ Shape(u) /\ u.lst = t.lst /\ SameStubs(t, u) /\ u.blk = t.blk
      /\ u.scheduled \in {t.scheduled, s}
      /\ u.active \in {t.active, a} /\ u.superseded \in {t.superseded, o}
  BY <1>1, <1>2 DEF Shape, SameStubs, Fields
<1>5. Shrunk(t, {}, u)
  BY <1>2, <1>3, <1>4 DEF Shrunk
<1>6. ASSUME Orderly(t), t.blk[e].status # "none"
      PROVE  e \notin ToSet(u.scheduled)
  <2>1. CASE t.blk[e].status = "Scheduled"
    <3>1. u.scheduled = s
      BY <1>1, <2>1 DEF Shape, Fields
    <3>. QED BY <1>3, <1>6, <3>1 DEF Orderly
  <2>2. CASE t.blk[e].status # "Scheduled"
    <3>1. u.scheduled = t.scheduled
      BY <1>1, <2>2 DEF Shape, Fields
    <3>. QED BY <1>6, <2>2, <3>1 DEF Orderly
  <2>. QED BY <2>1, <2>2
<1>. QED BY <1>5, <1>6 DEF u

\* and ended if it is active.
LEMMA EndNowShrunk ==
  ASSUME NEW t, Shape(t), NEW e \in Event
  PROVE  LET u == EndNow(t, e) IN
         /\ Shrunk(t, {}, u) /\ u.scheduled = t.scheduled
         /\ u.active = t.active /\ u.superseded = t.superseded
<1> DEFINE u == [t EXCEPT !.blk[e].end = t.now]
           v == RemoveEvent(u, Block(e))
           w == InsertEvent(v, Block(e), "EVENT_END", 0)
<1>1. EndNow(t, e) = w
  BY DEF EndNow
<1>2. Shrunk(t, {}, u)
  BY EndShrunk
<1>3. /\ Shape(u) /\ u.scheduled = t.scheduled
      /\ u.active = t.active /\ u.superseded = t.superseded
  BY <1>2 DEF Shrunk
<1> HIDE DEF u
<1>4. Quiet(u, v) /\ Shape(v)
  BY <1>3, RemoveEventQuiet, QuietShape
<1> HIDE DEF v
<1>5. Quiet(v, w)
  BY <1>4, InsertEventQuiet
<1> HIDE DEF w
<1>6. Quiet(u, w)
  BY <1>4, <1>5, QuietTrans
<1>7. Shrunk(t, {}, w)
  BY <1>2, <1>3, <1>6, QuietShrunk, ShrunkTrans
<1>. QED BY <1>1, <1>3, <1>6, <1>7 DEF Quiet

LEMMA RemoveBlockShrunk ==
  ASSUME NEW t, Shape(t), NEW e \in Event
  PROVE  LET u == RemoveBlock(t, e) IN
         /\ Shrunk(t, {}, u)
         /\ Orderly(t) /\ t.blk[e].status # "none" => e \notin ToSet(u.scheduled)
<1> DEFINE u == IF t.blk[e].status = "Active" THEN EndNow(t, e) ELSE t
           v == Unlink(u, e)
<1>1. /\ Shrunk(t, {}, u) /\ u.scheduled = t.scheduled
      /\ u.active = t.active /\ u.superseded = t.superseded
  BY EndNowShrunk, ShrunkSelf
<1>2. RemoveBlock(t, e) = v
  BY DEF RemoveBlock
<1> HIDE DEF u
<1>3. Shape(u) /\ \A f \in Event : u.blk[f].status = t.blk[f].status
  BY <1>1 DEF Shrunk
<1>4. Orderly(t) => Orderly(u)
  <2>1. ToSet(t.scheduled) \subseteq Event
    BY InQueue DEF Shape
  <2>. QED BY <1>1, <1>3, <2>1 DEF Orderly
<1>5. /\ Shrunk(u, {}, v)
      /\ Orderly(u) /\ u.blk[e].status # "none" => e \notin ToSet(v.scheduled)
  BY <1>3, UnlinkShrunk
<1> HIDE DEF v
<1>6. Shrunk(t, {}, v)
  BY <1>1, <1>5, ShrunkTrans
<1>. QED BY <1>2, <1>3, <1>4, <1>5, <1>6

\* remove_block, the response that may go with it, and the status the block ends in.
LEMMA RemoveAndEnd ==
  ASSUME NEW t, Shape(t), NEW e \in Event, NEW responds \in BOOLEAN, NEW response,
         NEW status \in Final
  PROVE  LET u == RemoveBlock(t, e)
             v == IF responds THEN DeviceResponse(u, e, response) ELSE u
             w == [v EXCEPT !.blk[e].status = status]
         IN  /\ Shrunk(t, {e}, w)
             /\ Orderly(t) /\ t.blk[e].status # "none" => e \notin ToSet(w.scheduled)
<1> DEFINE u == RemoveBlock(t, e)
           r == DeviceResponse(u, e, response)
           v == IF responds THEN r ELSE u
           w == [v EXCEPT !.blk[e].status = status]
<1>1. /\ Shrunk(t, {e}, u) /\ Shape(u)
      /\ Orderly(t) /\ t.blk[e].status # "none" => e \notin ToSet(u.scheduled)
  <2>1. /\ Shrunk(t, {}, u)
        /\ Orderly(t) /\ t.blk[e].status # "none" => e \notin ToSet(u.scheduled)
    BY RemoveBlockShrunk
  <2> HIDE DEF u
  <2>2. Shrunk(t, {e}, u)
    BY <2>1, ShrunkMore
  <2>. QED BY <2>1, <2>2 DEF Shrunk
<1> HIDE DEF u
<1>2. Quiet(u, r)
  BY <1>1, ResponseQuiet
<1> HIDE DEF r
<1>3. Shrunk(u, {e}, r) /\ r.scheduled = u.scheduled
  BY <1>1, <1>2, QuietShrunk DEF Quiet
<1>4. Shrunk(t, {e}, v) /\ v.scheduled = u.scheduled
  BY <1>1, <1>3, ShrunkTrans
<1> HIDE DEF v
<1>5. Shape(v)
  BY <1>4 DEF Shrunk
<1>6. Shrunk(v, {e}, w) /\ w.scheduled = v.scheduled
  BY <1>5, StatusShrunk
<1> HIDE DEF w
<1>7. Shrunk(t, {e}, w)
  BY <1>4, <1>6, ShrunkTrans
<1>. QED BY <1>1, <1>4, <1>6, <1>7 DEF w, v, r, u

\* remove_programs for one block.
LEMMA AbortShrunk ==
  ASSUME NEW t, Shape(t), NEW e \in Event
  PROVE  Shrunk(t, {e}, Abort(t, e))
<1>1. "Aborted" \in Final
  BY DEF Final
<1>. QED BY <1>1, RemoveAndEnd DEF Abort

\* remove_blocks, when the event is over.
LEMMA RemoveBlocksShrunk ==
  ASSUME NEW t, Shape(t), NEW e \in Event, NEW response, t.stub[e].status \in Final
  PROVE  LET u == RemoveBlocks(t, e, response) IN
         /\ Shrunk(t, {e}, u)
         /\ Orderly(t) /\ t.blk[e].status # "none" => e \notin ToSet(u.scheduled)
  BY RemoveAndEnd DEF RemoveBlocks
-----------------------------------------------------------------------------
(* The loops in which blocks end. *)

\* Of the events of the list some have had their turn.
ShrunkHold(t, seq, u, i) == seq \in Seq(Event) /\ Shape(t) /\ Shrunk(t, ToSet(seq), u)

LEMMA ShrunkRound ==
  ASSUME NEW t, NEW seq, NEW u, NEW i \in 1 .. Len(seq), ShrunkHold(t, seq, u, i - 1),
         NEW v, Shrunk(u, {seq[i]}, v)
  PROVE  ShrunkHold(t, seq, v, i)
<1>1. seq \in Seq(Event) /\ Shape(t) /\ Shrunk(t, ToSet(seq), u)
  BY DEF ShrunkHold
<1>2. {seq[i]} \subseteq ToSet(seq)
  BY <1>1, InQueue
<1>3. Shrunk(t, ToSet(seq), v)
  BY <1>1, <1>2, ShrunkMore, ShrunkTrans
<1>. QED BY <1>1, <1>3 DEF ShrunkHold

AbortStep(x, u, e) == Abort(u, e)

AbortLoop == INSTANCE FoldInduction WITH Step <- AbortStep, Holds <- ShrunkHold

\* remove_programs.
LEMMA RemoveProgramsShrunk ==
  ASSUME NEW t, Shape(t), NEW ps
  PROVE  \E S : Shrunk(t, S, RemovePrograms(t, ps))
<1> DEFINE seq == Controls({e \in Event : ProgramOf[e] \in ps /\ t.blk[e] # NoBlock})
           r == AbortLoop!Loop(t, t, seq)
<1>1. RemovePrograms(t, ps) = r
  BY DEF RemovePrograms, AbortLoop!Loop, AbortStep, FoldLeft, MapThenFoldSet,
         AbortLoop!FoldLeft, AbortLoop!MapThenFoldSet, Max, AbortLoop!Max
<1>2. seq \in Seq(Event)
  BY ControlsType
<1> HIDE DEF seq
<1>3. ShrunkHold(t, seq, t, 0)
  BY <1>2, ShrunkSelf DEF ShrunkHold
<1>4. ASSUME NEW i \in 1 .. Len(seq), NEW u, ShrunkHold(t, seq, u, i - 1)
      PROVE  ShrunkHold(t, seq, AbortStep(t, u, seq[i]), i)
  <2>1. seq[i] \in Event /\ Shape(u)
    BY <1>2, <1>4 DEF ShrunkHold, Shrunk
  <2>2. Shrunk(u, {seq[i]}, AbortStep(t, u, seq[i]))
    BY <2>1, AbortShrunk DEF AbortStep
  <2>. QED BY <1>4, <2>2, ShrunkRound
<1>5. \A i \in 1 .. Len(seq) : \A u :
        ShrunkHold(t, seq, u, i - 1) => ShrunkHold(t, seq, AbortStep(t, u, seq[i]), i)
  BY <1>4
<1>6. ShrunkHold(t, seq, r, Len(seq))
  BY <1>2, <1>3, <1>5, AbortLoop!Induction
<1> HIDE DEF r
<1>. QED BY <1>1, <1>6 DEF ShrunkHold

\* update_schedule ends a superseded block,
LEMMA RetireShrunk ==
  ASSUME NEW t, Shape(t), NEW e \in Event
  PROVE  Shrunk(t, {e}, Retire(t, e))
<1> DEFINE u == [t EXCEPT !.blk[e].status = "Superseded"]
<1>1. Shrunk(t, {e}, u)
  <2>1. "Superseded" \in Final
    BY DEF Final
  <2>. QED BY <2>1, StatusShrunk
<1>2. Retire(t, e) = DeviceResponse(u, e, "Superseded")
  BY DEF Retire
<1> HIDE DEF u
<1>3. Shape(u)
  BY <1>1 DEF Shrunk
<1>4. Shrunk(u, {e}, DeviceResponse(u, e, "Superseded"))
  BY <1>3, ResponseQuiet, QuietShrunk
<1>. QED BY <1>1, <1>2, <1>4, ShrunkTrans

RetireStep(x, u, e) == Retire(u, e)

RetireLoop == INSTANCE FoldInduction WITH Step <- RetireStep, Holds <- ShrunkHold

\* all that are due,
LEMMA RetireDueShrunk ==
  ASSUME NEW t, Shape(t), NEW due
  PROVE  Shrunk(t, ToSet(DuePrefix(t.superseded, due)), RetireDue(t, due))
<1> DEFINE seq == DuePrefix(t.superseded, due)
           r == RetireLoop!Loop(t, t, seq)
<1>1. RetireDue(t, due) = r
  BY DEF RetireDue, RetireLoop!Loop, RetireStep, FoldLeft, MapThenFoldSet,
         RetireLoop!FoldLeft, RetireLoop!MapThenFoldSet, Max, RetireLoop!Max
<1>2. seq \in Seq(Event)
  BY DueWithin DEF Shape, Within
<1> HIDE DEF seq
<1>3. ShrunkHold(t, seq, t, 0)
  BY <1>2, ShrunkSelf DEF ShrunkHold
<1>4. ASSUME NEW i \in 1 .. Len(seq), NEW u, ShrunkHold(t, seq, u, i - 1)
      PROVE  ShrunkHold(t, seq, RetireStep(t, u, seq[i]), i)
  <2>1. seq[i] \in Event /\ Shape(u)
    BY <1>2, <1>4 DEF ShrunkHold, Shrunk
  <2>2. Shrunk(u, {seq[i]}, RetireStep(t, u, seq[i]))
    BY <2>1, RetireShrunk DEF RetireStep
  <2>. QED BY <1>4, <2>2, ShrunkRound
<1>5. \A i \in 1 .. Len(seq) : \A u :
        ShrunkHold(t, seq, u, i - 1) => ShrunkHold(t, seq, RetireStep(t, u, seq[i]), i)
  BY <1>4
<1>6. ShrunkHold(t, seq, r, Len(seq))
  BY <1>2, <1>3, <1>5, RetireLoop!Induction
<1> HIDE DEF r
<1>. QED BY <1>1, <1>6 DEF ShrunkHold, seq

\* an active block that is over,
LEMMA ExpireBlockShrunk ==
  ASSUME NEW t, Shape(t), NEW e \in Event
  PROVE  Shrunk(t, {e}, ExpireBlock(t, e))
<1> DEFINE r == DeviceResponse(t, e, "Completed")
           v == InsertEvent(r, Block(e), "EVENT_END", 0)
           u == IF t.blk[e].status = "Active" THEN v ELSE t
<1>1. Shrunk(t, {e}, r) /\ Shape(r)
  BY ResponseQuiet, QuietShrunk
<1> HIDE DEF r
<1>2. Shrunk(r, {e}, v)
  BY <1>1, InsertEventQuiet, QuietShrunk
<1> HIDE DEF v
<1>3. Shrunk(t, {e}, u)
  BY <1>1, <1>2, ShrunkSelf, ShrunkTrans
<1>4. ExpireBlock(t, e) = [u EXCEPT !.blk[e].status = "Completed"]
  BY DEF ExpireBlock, u, v, r
<1> HIDE DEF u
<1>5. Shrunk(u, {e}, [u EXCEPT !.blk[e].status = "Completed"])
  <2>1. "Completed" \in Final
    BY DEF Final
  <2>2. Shape(u)
    BY <1>3 DEF Shrunk
  <2>. QED BY <2>1, <2>2, StatusShrunk
<1>. QED BY <1>3, <1>4, <1>5, ShrunkTrans

ExpireStep(x, u, e) == ExpireBlock(u, e)

ExpireLoop == INSTANCE FoldInduction WITH Step <- ExpireStep, Holds <- ShrunkHold

\* and all of those.
LEMMA ExpireDueShrunk ==
  ASSUME NEW t, Shape(t), NEW due
  PROVE  Shrunk(t, ToSet(DuePrefix(t.active, due)), ExpireDue(t, due))
<1> DEFINE seq == DuePrefix(t.active, due)
           r == ExpireLoop!Loop(t, t, seq)
<1>1. ExpireDue(t, due) = r
  BY DEF ExpireDue, ExpireLoop!Loop, ExpireStep, FoldLeft, MapThenFoldSet,
         ExpireLoop!FoldLeft, ExpireLoop!MapThenFoldSet, Max, ExpireLoop!Max
<1>2. seq \in Seq(Event)
  BY DueWithin DEF Shape, Within
<1> HIDE DEF seq
<1>3. ShrunkHold(t, seq, t, 0)
  BY <1>2, ShrunkSelf DEF ShrunkHold
<1>4. ASSUME NEW i \in 1 .. Len(seq), NEW u, ShrunkHold(t, seq, u, i - 1)
      PROVE  ShrunkHold(t, seq, ExpireStep(t, u, seq[i]), i)
  <2>1. seq[i] \in Event /\ Shape(u)
    BY <1>2, <1>4 DEF ShrunkHold, Shrunk
  <2>2. Shrunk(u, {seq[i]}, ExpireStep(t, u, seq[i]))
    BY <2>1, ExpireBlockShrunk DEF ExpireStep
  <2>. QED BY <1>4, <2>2, ShrunkRound
<1>5. \A i \in 1 .. Len(seq) : \A u :
        ShrunkHold(t, seq, u, i - 1) => ShrunkHold(t, seq, ExpireStep(t, u, seq[i]), i)
  BY <1>4
<1>6. ShrunkHold(t, seq, r, Len(seq))
  BY <1>2, <1>3, <1>5, ExpireLoop!Induction
<1> HIDE DEF r
<1>. QED BY <1>1, <1>6 DEF ShrunkHold, seq

RemoveReqStep(x, u, e) == RemoveReq(u, e)

QuietHold(t, seq, u, i) == seq \in Seq(Event) /\ Shape(t) /\ Quiet(t, u)

RemoveReqLoop == INSTANCE FoldInduction WITH Step <- RemoveReqStep, Holds <- QuietHold

\* remove_reqs only queues RESOURCE_REMOVE.
LEMMA RemoveReqsQuiet ==
  ASSUME NEW t, Shape(t), NEW S \in SUBSET Event
  PROVE  Quiet(t, RemoveReqs(t, S))
<1> DEFINE seq == Controls(S)
           r == RemoveReqLoop!Loop(t, t, seq)
<1>1. RemoveReqs(t, S) = r
  BY DEF RemoveReqs, RemoveReqLoop!Loop, RemoveReqStep, FoldLeft, MapThenFoldSet,
         RemoveReqLoop!FoldLeft, RemoveReqLoop!MapThenFoldSet, Max, RemoveReqLoop!Max
<1>2. seq \in Seq(Event)
  BY ControlsType
<1> HIDE DEF seq
<1>3. QuietHold(t, seq, t, 0)
  BY <1>2, QuietSelf DEF QuietHold
<1>4. ASSUME NEW i \in 1 .. Len(seq), NEW u, QuietHold(t, seq, u, i - 1)
      PROVE  QuietHold(t, seq, RemoveReqStep(t, u, seq[i]), i)
  <2>1. Quiet(t, u) /\ Shape(u)
    BY <1>4, QuietShape DEF QuietHold
  <2>2. Quiet(u, RemoveReqStep(t, u, seq[i]))
    BY <2>1, InsertEventQuiet DEF RemoveReqStep, RemoveReq
  <2>3. Quiet(t, RemoveReqStep(t, u, seq[i]))
    BY <2>1, <2>2, QuietTrans
  <2>. QED BY <1>2, <2>3 DEF QuietHold
<1>5. \A i \in 1 .. Len(seq) : \A u :
        QuietHold(t, seq, u, i - 1) => QuietHold(t, seq, RemoveReqStep(t, u, seq[i]), i)
  BY <1>4
<1>6. QuietHold(t, seq, r, Len(seq))
  BY <1>2, <1>3, <1>5, RemoveReqLoop!Induction
<1> HIDE DEF r
<1>. QED BY <1>1, <1>6 DEF QuietHold

-----------------------------------------------------------------------------
(* schedule_der and update_schedule. *)

\* insert_event.
LEMMA InsertEventAdvances ==
  ASSUME NEW s, NEW t, Good(s, t), NEW data, NEW type, NEW time
  PROVE  Advances(s, t, InsertEvent(t, data, type, time))
  BY InsertEventQuiet, QuietAdvances DEF Good, Sound

\* schedule_der: it schedules every event anew, in queues it has emptied.
LEMMA ScheduleDerAdvances ==
  ASSUME NEW s, NEW t, Good(s, t), NEW rnd
  PROVE  Advances(s, t, ScheduleDer(t, rnd))
<1> DEFINE progs == Programs(t)
           gone == t.derpl \ ToSet(progs)
           a == RemovePrograms(t, gone)
           t0 == ClearQueues(a)
           t1 == SchedulePrograms(t0, progs, rnd)
           pl == ToSet(progs)
           dc == DefaultProgram(progs)
           t2 == [t1 EXCEPT !.derpl = pl, !.dderc = dc]
           t3 == InsertEvent(t2, Schedule, "SCHEDULE_UPDATE", 0)
           t4 == InsertEvent(t3, Device, "DEVICE_SCHEDULE", 0)
<1>1. ScheduleDer(t, rnd) = t4
  BY DEF ScheduleDer
<1>2. progs \in Seq(Program) /\ IsInjective(progs)
  BY ProgramsType
<1> HIDE DEF progs, gone, pl, dc
<1>3. Sound(s, a) /\ Forth(t, a)
  <2>1. PICK S : Shrunk(t, S, a)
    BY RemoveProgramsShrunk DEF Good, Sound
  <2> HIDE DEF a
  <2>. QED BY <2>1, ShrunkSound DEF Good
<1> HIDE DEF a
<1>4. /\ Shape(t0) /\ t0.blk = a.blk /\ t0.stub = a.stub /\ t0.lst = a.lst
      /\ t0.active = <<>> /\ t0.scheduled = <<>> /\ t0.superseded = <<>>
  <2>1. <<>> \in Seq(Event)
    OBVIOUS
  <2>. QED BY <1>3, <2>1 DEF ClearQueues, Sound, Shape, Fields
<1> HIDE DEF t0
<1>5. Good(s, t0) /\ Forth(t, t0) /\ InQueues(t0) = {}
  <2>1. ToSet(<<>>) = {} /\ IsInjective(<<>>)
    BY DEF ToSet, IsInjective
  <2>2. Exclusive(t0) /\ Orderly(t0) /\ InQueues(t0) = {}
    BY <1>4, <2>1 DEF Exclusive, Orderly, InQueues
  <2>3. Told(s, t0) /\ Own(t0)
    BY <1>3, <1>4 DEF Sound, Told, Own
  <2>4. Forth(t, t0)
    BY <1>3, <1>4 DEF Forth
  <2>. QED BY <1>4, <2>2, <2>3, <2>4 DEF Good, Sound
<1>6. Advances(s, t, t0)
  BY <1>5 DEF Advances
<1>7. Advances(s, t0, t1)
  BY <1>2, <1>5, ScheduleProgramsEffect
<1> HIDE DEF t1
<1>8. Advances(s, t1, t2)
  <2>1. Good(s, t1)
    BY <1>7 DEF Advances
  <2>2. Quiet(t1, t2)
    BY <2>1 DEF Quiet, Good, Sound, Shape, SameStubs, Fields
  <2>. QED BY <2>1, <2>2, QuietAdvances
<1> HIDE DEF t2
<1>9. Advances(s, t2, t3)
  BY <1>8, InsertEventAdvances DEF Advances
<1> HIDE DEF t3
<1>10. Advances(s, t3, t4)
  BY <1>9, InsertEventAdvances DEF Advances
<1> HIDE DEF t4
<1>. QED BY <1>1, <1>6, <1>7, <1>8, <1>9, <1>10, AdvancesTrans

BeginStep(x, a, e) == BeginBlock(a, e)

\* What update_schedule knows after it has begun i of the blocks that are due: those
\* behind them wait unchanged, and none of them has become active.
BeginHold(x, seq, a, i) ==
    /\ Good(x.s, x.t)
    /\ seq \in Seq(Event) /\ IsInjective(seq) /\ ToSet(seq) \subseteq ToSet(x.t.scheduled)
    /\ Sound(x.s, a.t) /\ Forth(x.t, a.t)
    /\ a.t.scheduled = x.t.scheduled /\ a.t.superseded = x.t.superseded
    /\ ToSet(a.t.active) \subseteq ToSet(x.t.active) \union {seq[k] : k \in 1 .. i}
    /\ \A e \in ToSet(x.t.scheduled) \ {seq[k] : k \in 1 .. i} :
         a.t.blk[e].status = x.t.blk[e].status

BeginLoop == INSTANCE FoldInduction WITH Step <- BeginStep, Holds <- BeginHold

LEMMA BeginRound ==
  ASSUME NEW x, NEW seq, NEW i \in 1 .. Len(seq), NEW a, BeginHold(x, seq, a, i - 1)
  PROVE  BeginHold(x, seq, BeginBlock(a, seq[i]), i)
<1> DEFINE e == seq[i]
           u == InsertActive(a.t, e)
           b == BeginBlock(a, e)
           Q == {seq[k] : k \in 1 .. i - 1}
           R == {seq[k] : k \in 1 .. i}
<1>1. /\ Good(x.s, x.t)
      /\ seq \in Seq(Event) /\ IsInjective(seq) /\ ToSet(seq) \subseteq ToSet(x.t.scheduled)
      /\ Sound(x.s, a.t) /\ Forth(x.t, a.t)
      /\ a.t.scheduled = x.t.scheduled /\ a.t.superseded = x.t.superseded
      /\ ToSet(a.t.active) \subseteq ToSet(x.t.active) \union Q
      /\ \A f \in ToSet(x.t.scheduled) \ Q : a.t.blk[f].status = x.t.blk[f].status
  BY DEF BeginHold
<1>2. b.t = u
  BY DEF BeginBlock
<1>3. e \in Event /\ e \in ToSet(seq) /\ Len(seq) \in Nat
  BY <1>1, InQueue
<1>4. e \notin Q /\ R = Q \union {e}
  <2>1. \A k \in 1 .. i - 1 : seq[k] # e
    <3>1. SUFFICES ASSUME NEW k \in 1 .. i - 1, seq[k] = e PROVE FALSE
      OBVIOUS
    <3>2. k \in 1 .. Len(seq) /\ k # i
      BY <1>3
    <3>. QED BY <1>1, <3>1, <3>2 DEF IsInjective
  <2>2. 1 .. i = (1 .. i - 1) \union {i}
    BY <1>3
  <2>. QED BY <2>1, <2>2
<1> HIDE DEF e, Q, R, b
<1>5. \A f \in ToSet(x.t.scheduled) : /\ f \in Event /\ f \notin ToSet(x.t.active)
                                      /\ x.t.blk[f].status \notin Final
  <2>1. ToSet(x.t.scheduled) \subseteq Event
    BY <1>1, InQueue DEF Good, Sound, Shape
  <2>2. \A f \in ToSet(x.t.scheduled) : x.t.blk[f].status \in {"Scheduled", "none"}
    BY <1>1 DEF Good, Orderly
  <2>. QED BY <1>1, <2>1, <2>2 DEF Good, Orderly, Final
<1>6. e \notin ToSet(a.t.active) /\ a.t.blk[e].status \notin Final
  BY <1>1, <1>3, <1>4, <1>5
<1>7. /\ Sound(x.s, u) /\ Forth(a.t, u)
      /\ u.scheduled = a.t.scheduled /\ u.superseded = a.t.superseded
      /\ ToSet(u.active) \subseteq ToSet(a.t.active) \union {e}
      /\ \A f \in Event : f \notin ToSet(a.t.active) \union {e}
                            => u.blk[f].status = a.t.blk[f].status
  BY <1>1, <1>3, <1>6, InsertActiveSound, SMTT(30)
<1> HIDE DEF u
<1>8. \A f \in ToSet(x.t.scheduled) \ R : u.blk[f].status = x.t.blk[f].status
  BY <1>1, <1>4, <1>5, <1>7
<1>9. Forth(x.t, u)
  BY <1>1, <1>7, ForthTrans
<1>10. ToSet(u.active) \subseteq ToSet(x.t.active) \union R
  BY <1>1, <1>4, <1>7
<1>11. BeginHold(x, seq, b, i)
  BY <1>1, <1>2, <1>7, <1>8, <1>9, <1>10 DEF BeginHold, R
<1>. QED BY <1>11 DEF b, e

\* The loop of update_schedule that starts blocks.
LEMMA BeginDueEffect ==
  ASSUME NEW s, NEW a, Good(s, a.t), NEW due
  PROVE  LET seq == DuePrefix(a.t.scheduled, due)
             u == BeginDue(a, due).t
         IN  /\ Sound(s, u) /\ Forth(a.t, u)
             /\ u.scheduled = a.t.scheduled /\ u.superseded = a.t.superseded
             /\ ToSet(u.active) \subseteq ToSet(a.t.active) \union ToSet(seq)
             /\ \A e \in ToSet(a.t.scheduled) \ ToSet(seq) :
                  u.blk[e].status = a.t.blk[e].status
<1> DEFINE x == [s |-> s, t |-> a.t]
           seq == DuePrefix(a.t.scheduled, due)
           r == BeginLoop!Loop(x, a, seq)
<1>1. BeginDue(a, due) = r
  BY DEF BeginDue, BeginLoop!Loop, BeginStep, FoldLeft, MapThenFoldSet,
         BeginLoop!FoldLeft, BeginLoop!MapThenFoldSet, Max, BeginLoop!Max
<1>2. seq \in Seq(Event) /\ IsInjective(seq) /\ ToSet(seq) \subseteq ToSet(a.t.scheduled)
  BY DueWithin DEF Good, Sound, Shape, Within, Orderly
<1>3. x.s = s /\ x.t = a.t
  OBVIOUS
<1> HIDE DEF x, seq
<1>4. ToSet(seq) = {seq[k] : k \in 1 .. Len(seq)}
  BY <1>2, InQueue
<1>5. BeginHold(x, seq, a, 0)
  BY <1>2, <1>3, ForthSelf DEF BeginHold, Good
<1>6. \A i \in 1 .. Len(seq) : \A b :
        BeginHold(x, seq, b, i - 1) => BeginHold(x, seq, BeginStep(x, b, seq[i]), i)
  BY BeginRound DEF BeginStep
<1>7. BeginHold(x, seq, r, Len(seq))
  BY <1>2, <1>5, <1>6, BeginLoop!Induction
<1> HIDE DEF r
<1>. QED BY <1>1, <1>3, <1>4, <1>7 DEF BeginHold, seq

\* The three parts of update_schedule,
LEMMA ExpireActiveAdvances ==
  ASSUME NEW s, NEW t, Good(s, t)
  PROVE  Advances(s, t, ExpireActive(t).t)
<1> DEFINE S == ToSet(DuePrefix(t.active, Ended(t)))
           rest == Behind(t.active, Ended(t))
           u == ExpireDue(t, Ended(t))
           v == [u EXCEPT !.active = rest]
<1>1. ExpireActive(t).t = v
  BY DEF ExpireActive
<1>2. Shrunk(t, S, u)
  BY ExpireDueShrunk DEF Good, Sound
<1>3. /\ S \subseteq ToSet(t.active)
      /\ rest \in Seq(Event) /\ ToSet(rest) \subseteq ToSet(t.active)
  BY DueWithin DEF Good, Sound, Shape, Within
<1> HIDE DEF rest, u, S
<1>4. /\ Shape(v) /\ v.lst = u.lst /\ v.stub = u.stub /\ v.blk = u.blk
      /\ v.scheduled = u.scheduled /\ v.active = rest /\ v.superseded = u.superseded
  BY <1>2, <1>3 DEF Shrunk, Shape, Fields
<1> HIDE DEF v
<1>5. Shrunk(t, S, v)
  BY <1>2, <1>3, <1>4 DEF Shrunk, SameStubs
<1>6. S \intersect ToSet(v.scheduled) = {}
  BY <1>3, <1>5 DEF Good, Orderly, Shrunk
<1>. QED BY <1>1, <1>5, <1>6, ShrunkAdvances

LEMMA StartScheduledAdvances ==
  ASSUME NEW s, NEW a, Good(s, a.t)
  PROVE  Advances(s, a.t, StartScheduled(a).t)
<1> DEFINE t == a.t
           S == ToSet(DuePrefix(t.scheduled, Started(t)))
           rest == Behind(t.scheduled, Started(t))
           b == BeginDue(a, Started(t))
           u == b.t
           v == [u EXCEPT !.scheduled = rest]
<1>1. StartScheduled(a).t = v
  BY DEF StartScheduled
<1>2. /\ Sound(s, u) /\ Forth(t, u)
      /\ u.scheduled = t.scheduled /\ u.superseded = t.superseded
      /\ ToSet(u.active) \subseteq ToSet(t.active) \union S
      /\ \A e \in ToSet(t.scheduled) \ S : u.blk[e].status = t.blk[e].status
  BY BeginDueEffect
<1>3. /\ rest \in Seq(Event) /\ ToSet(rest) \subseteq ToSet(t.scheduled)
      /\ IsInjective(rest) /\ S \intersect ToSet(rest) = {}
  BY DueWithin DEF Good, Sound, Shape, Within, Orderly
<1> HIDE DEF rest, b, u, S, t
<1>4. /\ Shape(v) /\ v.lst = u.lst /\ v.stub = u.stub /\ v.blk = u.blk
      /\ v.scheduled = rest /\ v.active = u.active /\ v.superseded = u.superseded
  BY <1>2, <1>3 DEF Sound, Shape, Fields
<1> HIDE DEF v
<1>5. Sound(s, v)
  BY <1>2, <1>4 DEF Sound, Exclusive, Told, Own
<1>6. Forth(t, v)
  BY <1>2, <1>4 DEF Forth
<1>7. Good(s, t)
  BY DEF t
<1>8. Orderly(v)
  BY <1>2, <1>3, <1>4, <1>7 DEF Good, Orderly
<1>. QED BY <1>1, <1>5, <1>6, <1>8 DEF Advances, Good, t

LEMMA RetireSupersededAdvances ==
  ASSUME NEW s, NEW a, Good(s, a.t)
  PROVE  Advances(s, a.t, RetireSuperseded(a).t)
<1> DEFINE t == a.t
           S == ToSet(DuePrefix(t.superseded, Started(t)))
           rest == Behind(t.superseded, Started(t))
           u == RetireDue(t, Started(t))
           v == [u EXCEPT !.superseded = rest]
<1>1. RetireSuperseded(a).t = v
  BY DEF RetireSuperseded
<1>2. Shrunk(t, S, u)
  BY RetireDueShrunk DEF Good, Sound
<1>3. /\ S \subseteq ToSet(t.superseded)
      /\ rest \in Seq(Event) /\ ToSet(rest) \subseteq ToSet(t.superseded)
  BY DueWithin DEF Good, Sound, Shape, Within
<1> HIDE DEF rest, u, S, t
<1>4. /\ Shape(v) /\ v.lst = u.lst /\ v.stub = u.stub /\ v.blk = u.blk
      /\ v.scheduled = u.scheduled /\ v.active = u.active /\ v.superseded = rest
  BY <1>2, <1>3 DEF Shrunk, Shape, Fields
<1> HIDE DEF v
<1>5. Shrunk(t, S, v)
  BY <1>2, <1>3, <1>4 DEF Shrunk, SameStubs
<1>6. Good(s, t)
  BY DEF t
<1>7. S \intersect ToSet(v.scheduled) = {}
  BY <1>3, <1>5, <1>6 DEF Good, Orderly, Shrunk
<1>8. Advances(s, t, v)
  BY <1>5, <1>6, <1>7, ShrunkAdvances
<1>. QED BY <1>1, <1>8 DEF t

\* the wake-up,
LEMMA SetWakeupAdvances ==
  ASSUME NEW s, NEW a, Good(s, a.t)
  PROVE  Advances(s, a.t, SetWakeup(a))
<1> DEFINE u == RemoveEvent(a.t, Schedule)
           v == InsertEvent(u, Schedule, "SCHEDULE_UPDATE", a.last)
           w == IF a.last # 0 /\ a.last # a.t.snext THEN v ELSE a.t
           z == [w EXCEPT !.snext = a.last]
<1>1. SetWakeup(a) = z
  BY DEF SetWakeup
<1>2. Shape(a.t)
  BY DEF Good, Sound
<1>3. Quiet(a.t, u) /\ Shape(u)
  BY <1>2, RemoveEventQuiet, QuietShape
<1> HIDE DEF u
<1>4. Quiet(u, v)
  BY <1>3, InsertEventQuiet
<1> HIDE DEF v
<1>5. Quiet(a.t, w) /\ Shape(w)
  BY <1>2, <1>3, <1>4, QuietSelf, QuietTrans, QuietShape
<1> HIDE DEF w
<1>6. Quiet(w, z)
  BY <1>5 DEF Quiet, Shape, SameStubs, Fields
<1> HIDE DEF z
<1>7. Quiet(a.t, z)
  BY <1>5, <1>6, QuietTrans
<1>. QED BY <1>1, <1>7, QuietAdvances

\* and all of it.
LEMMA UpdateScheduleAdvances ==
  ASSUME NEW s, NEW t, Good(s, t)
  PROVE  Advances(s, t, UpdateSchedule(t))
<1> DEFINE a == ExpireActive(t)
           b == StartScheduled(a)
           c == RetireSuperseded(b)
           u == SetWakeup(c)
<1>1. UpdateSchedule(t) = u
  BY DEF UpdateSchedule
<1>2. Advances(s, t, a.t) /\ Good(s, a.t)
  BY ExpireActiveAdvances DEF Advances
<1> HIDE DEF a
<1>3. Advances(s, a.t, b.t) /\ Good(s, b.t)
  BY <1>2, StartScheduledAdvances DEF Advances
<1> HIDE DEF b
<1>4. Advances(s, b.t, c.t) /\ Good(s, c.t)
  BY <1>3, RetireSupersededAdvances DEF Advances
<1> HIDE DEF c
<1>5. Advances(s, c.t, u)
  BY <1>4, SetWakeupAdvances
<1> HIDE DEF u
<1>. QED BY <1>1, <1>2, <1>3, <1>4, <1>5, AdvancesTrans

-----------------------------------------------------------------------------
(* retrieve.c: what becomes of the Stubs. *)

\* Requirements of a list are forgotten.
LEMMA ReqsAdvance ==
  ASSUME NEW s, NEW t, Good(s, t), NEW p, NEW reqs, reqs \subseteq t.lst[p].reqs,
         NEW old \in SUBSET Event
  PROVE  Advances(s, t, [t EXCEPT !.lst[p].reqs = reqs, !.lst[p].old = old])
<1> DEFINE u == [t EXCEPT !.lst[p].reqs = reqs, !.lst[p].old = old]
<1>1. /\ Shape(u) /\ u.blk = t.blk /\ u.stub = t.stub
      /\ u.scheduled = t.scheduled /\ u.active = t.active /\ u.superseded = t.superseded
      /\ \A q \in Program : u.lst[q].reqs \subseteq t.lst[q].reqs
  BY DEF Good, Sound, Shape, Lists, Fields
<1> HIDE DEF u
<1>2. SameStubs(t, u)
  BY <1>1 DEF Shape, SameStubs
<1>3. Own(u)
  BY <1>1 DEF Good, Sound, Own
<1>4. Advances(s, t, u)
  BY <1>1, <1>2, <1>3, ListsAdvance
<1>. QED BY <1>4 DEF u

\* The Stub of an event is told what the server says, or it is freed.
LEMMA StubAdvances ==
  ASSUME NEW s, NEW t, Good(s, t), NEW e, NEW stub1,
         {"status", "completion"} \subseteq DOMAIN stub1,
         stub1.status \in {s[e], "none"},
         stub1.completion => t.stub[e].completion
  PROVE  Advances(s, t, [t EXCEPT !.stub[e] = stub1])
<1> DEFINE u == [t EXCEPT !.stub[e] = stub1]
<1>1. /\ Shape(u) /\ u.blk = t.blk /\ u.lst = t.lst
      /\ u.scheduled = t.scheduled /\ u.active = t.active /\ u.superseded = t.superseded
      /\ \A f \in Event : IF f = e THEN u.stub[f] = stub1 ELSE u.stub[f] = t.stub[f]
  BY DEF Good, Sound, Shape, Stubs, Fields
<1> HIDE DEF u
<1>2. Told(s, u)
  <2>1. ASSUME NEW f \in Event
        PROVE  /\ u.blk[f].status = "Active" => u.stub[f].status # "Scheduled"
               /\ u.blk[f].status = "Active" \/ u.stub[f].status = "Active"
                    => s[f] \notin Early
               /\ u.stub[f].completion => u.blk[f].status # "none"
    <3>1. /\ t.blk[f].status = "Active" => t.stub[f].status # "Scheduled"
          /\ t.blk[f].status = "Active" \/ t.stub[f].status = "Active" => s[f] \notin Early
          /\ t.stub[f].completion => t.blk[f].status # "none"
      BY DEF Good, Sound, Told
    <3>2. CASE f = e
      BY <1>1, <3>1, <3>2 DEF Early
    <3>3. CASE f # e
      BY <1>1, <3>1, <3>3
    <3>. QED BY <3>2, <3>3
  <2>. QED BY <2>1 DEF Told
<1>3. Forth(t, u)
  BY <1>1, ForthSelf
<1>4. Own(u) /\ Exclusive(u) /\ Orderly(u)
  BY <1>1 DEF Good, Sound, Own, Exclusive, Orderly
<1>. QED BY <1>1, <1>2, <1>3, <1>4 DEF Advances, Good, Sound, u

\* A block that waits for the server to start it is started.
LEMMA ActivateAdvances ==
  ASSUME NEW s, NEW t, Good(s, t), NEW e \in Event,
         t.stub[e].status = "Active", t.blk[e].status = "ActiveWait"
  PROVE  Advances(s, t, ActivateBlock(t, e))
<1> DEFINE u == ActivateBlock(t, e)
<1>1. /\ Shape(u) /\ u.lst = t.lst /\ SameStubs(t, u)
      /\ u.scheduled = t.scheduled /\ u.active = t.active /\ u.superseded = t.superseded
      /\ \A f \in Event : u.blk[f].der = t.blk[f].der /\ (f # e => u.blk[f] = t.blk[f])
      /\ u.blk[e].status = "Active"
  BY ActivateEffect DEF Good, Sound, Begun
<1> HIDE DEF u
<1>2. ToSet(t.active) \subseteq Event /\ ToSet(t.scheduled) \subseteq Event
  BY InQueue DEF Good, Sound, Shape
<1>3. Exclusive(u)
  BY <1>1, <1>2 DEF Good, Sound, Exclusive
<1>4. Told(s, u)
  BY <1>1 DEF Good, Sound, Told, SameStubs
<1>5. Own(u)
  BY <1>1 DEF Good, Sound, Own
<1>6. Orderly(u)
  <2>1. e \notin ToSet(t.scheduled)
    BY DEF Good, Orderly
  <2>. QED BY <1>1, <1>2, <2>1 DEF Good, Orderly
<1>7. Forth(t, u)
  BY <1>1 DEF Forth, MayBecome, Final
<1>. QED BY <1>1, <1>3, <1>4, <1>5, <1>6, <1>7 DEF Advances, Good, Sound, u

\* event_update, for an event that has a block.
LEMMA EventUpdateAdvances ==
  ASSUME NEW s, NEW t, Good(s, t), NEW e \in Event, t.stub[e].completion
  PROVE  Advances(s, t, EventUpdate(t, e))
<1> DEFINE status == t.stub[e].status
<1>1. CASE status = "Scheduled"
  <2> DEFINE u1 == [t EXCEPT !.now = @ - 1, !.sync = t.now - 1, !.adjusts = @ + 1]
             u == IF t.sync = t.now THEN t ELSE u1
             v == InsertEvent(u, EventOf(e), "RESOURCE_UPDATE", u.now + 1)
  <2>1. EventUpdate(t, e) = v
    BY <1>1 DEF EventUpdate
  <2>2. Quiet(t, u1)
    BY DEF Quiet, Good, Sound, Shape, SameStubs, Fields
  <2> HIDE DEF u1
  <2>3. Advances(s, t, u)
    BY <2>2, QuietAdvances, AdvancesSelf
  <2> HIDE DEF u
  <2>4. Advances(s, u, v)
    BY <2>3, InsertEventAdvances DEF Advances
  <2> HIDE DEF v
  <2>. QED BY <2>1, <2>3, <2>4, AdvancesTrans
<1>2. CASE status = "Active"
  <2>1. EventUpdate(t, e) = IF t.blk[e].status = "ActiveWait" THEN ActivateBlock(t, e) ELSE t
    BY <1>2 DEF EventUpdate
  <2>. QED BY <1>2, <2>1, ActivateAdvances, AdvancesSelf
<1>3. CASE status \in {"Canceled", "CanceledRandom", "Superseded"}
  <2> DEFINE response == IF status = "Superseded" THEN "Superseded" ELSE "Canceled"
             u == RemoveBlocks(t, e, response)
  <2>1. EventUpdate(t, e) = u
    BY <1>3 DEF EventUpdate
  <2>2. status \in Final
    BY <1>3 DEF Final
  <2>3. t.blk[e].status # "none"
    BY DEF Good, Sound, Told
  <2>4. Shrunk(t, {e}, u) /\ e \notin ToSet(u.scheduled)
    BY <2>2, <2>3, RemoveBlocksShrunk DEF Good, Sound
  <2> HIDE DEF u
  <2>. QED BY <2>1, <2>4, ShrunkAdvances
<1>4. CASE status \notin {"Scheduled", "Active", "Canceled", "CanceledRandom", "Superseded"}
  <2>1. EventUpdate(t, e) = t
    BY <1>4 DEF EventUpdate
  <2>. QED BY <2>1, AdvancesSelf
<1>. QED BY <1>1, <1>2, <1>3, <1>4

\* dep_complete, from a program upwards,
LEMMA ProgramCompleteAdvances ==
  ASSUME NEW s, NEW t, Good(s, t), NEW p, NEW rnd
  PROVE  Advances(s, t, ProgramComplete(t, p, rnd))
<1> DEFINE u == [t EXCEPT !.pend = @ \ {p}]
           v == ScheduleDer(u, rnd)
           w == [v EXCEPT !.complete = TRUE]
<1>1. Quiet(t, u)
  BY DEF Quiet, Good, Sound, Shape, SameStubs, Fields
<1>2. ProgramComplete(t, p, rnd) \in {u, w}
  BY DEF ProgramComplete
<1> HIDE DEF u
<1>3. Advances(s, t, u) /\ Good(s, u)
  BY <1>1, QuietAdvances DEF Advances
<1>4. Advances(s, u, v) /\ Good(s, v)
  BY <1>3, ScheduleDerAdvances DEF Advances
<1> HIDE DEF v
<1>5. Quiet(v, w)
  BY <1>4 DEF Quiet, Good, Sound, Shape, SameStubs, Fields
<1> HIDE DEF w
<1>6. Advances(s, v, w)
  BY <1>4, <1>5, QuietAdvances
<1>7. Advances(s, t, w)
  BY <1>3, <1>4, <1>6, AdvancesTrans
<1>. QED BY <1>2, <1>3, <1>7

\* and from an event.
LEMMA DepCompleteAdvances ==
  ASSUME NEW s, NEW t, Good(s, t), NEW e \in Event, NEW rnd
  PROVE  Advances(s, t, DepComplete(t, e, rnd))
<1> DEFINE p == ProgramOf[e]
           u == IF t.stub[e].completion /\ ~t.stub[e].complete THEN EventUpdate(t, e) ELSE t
           v == [u EXCEPT !.stub[e].complete = TRUE, !.lst[p].reqs = @ \union {e}]
           w == [v EXCEPT !.lst[p].old = {}]
           S == v.lst[p].old \ v.lst[p].reqs
           z == RemoveReqs(w, S)
           c == ProgramComplete(z, p, rnd)
<1>1. DepComplete(t, e, rnd) \in {v, c}
  BY DEF DepComplete
<1>2. p \in Program /\ ProgramOf[e] = p
  BY DerAssumption DEF DerAssumption
<1>3. Advances(s, t, u) /\ Good(s, u)
  <2>1. Advances(s, t, u)
    BY EventUpdateAdvances, AdvancesSelf
  <2>. QED BY <2>1 DEF Advances
<1> HIDE DEF u, p
<1>4. Advances(s, u, v) /\ Good(s, v)
  <2>1. /\ Shape(v) /\ v.blk = u.blk
        /\ v.scheduled = u.scheduled /\ v.active = u.active /\ v.superseded = u.superseded
        /\ \A q \in Program : IF q = p THEN v.lst[q].reqs = u.lst[q].reqs \union {e}
                              ELSE v.lst[q].reqs = u.lst[q].reqs
    BY <1>2, <1>3 DEF Good, Sound, Shape, Lists, Stubs, Fields
  <2>2. SameStubs(u, v)
    BY <1>3 DEF Good, Sound, Shape, Stubs, SameStubs, Fields
  <2> HIDE DEF v
  <2>3. Own(v)
    BY <1>2, <1>3, <2>1 DEF Good, Sound, Own
  <2>4. Advances(s, u, v)
    BY <1>3, <2>1, <2>2, <2>3, ListsAdvance
  <2>. QED BY <2>4 DEF Advances
<1>5. S \in SUBSET Event
  BY <1>2, <1>4 DEF Good, Sound, Shape, Lists
<1> HIDE DEF v, S
<1>6. Advances(s, v, w) /\ Good(s, w)
  <2>1. /\ Shape(w) /\ w.blk = v.blk /\ w.stub = v.stub
        /\ w.scheduled = v.scheduled /\ w.active = v.active /\ w.superseded = v.superseded
        /\ \A q \in Program : w.lst[q].reqs = v.lst[q].reqs
    BY <1>4 DEF Good, Sound, Shape, Lists, Fields
  <2> HIDE DEF w
  <2>2. SameStubs(v, w)
    BY <2>1 DEF Shape, SameStubs
  <2>3. Own(w)
    BY <1>4, <2>1 DEF Good, Sound, Own
  <2>4. Advances(s, v, w)
    BY <1>4, <2>1, <2>2, <2>3, ListsAdvance
  <2>. QED BY <2>4 DEF Advances
<1> HIDE DEF w
<1>7. Advances(s, w, z) /\ Good(s, z)
  <2>1. Quiet(w, z)
    BY <1>5, <1>6, RemoveReqsQuiet DEF Good, Sound
  <2>. QED BY <1>6, <2>1, QuietAdvances DEF Advances
<1> HIDE DEF z
<1>8. Advances(s, z, c)
  BY <1>7, ProgramCompleteAdvances
<1> HIDE DEF c
<1>9. Advances(s, t, v)
  BY <1>3, <1>4, AdvancesTrans
<1>10. Advances(s, t, c)
  BY <1>6, <1>7, <1>8, <1>9, AdvancesTrans
<1>. QED BY <1>1, <1>9, <1>10

\* update_existing, for one event
LEMMA UpdateExistingAdvances ==
  ASSUME NEW s, NEW t, Good(s, t), NEW e \in Event, NEW rnd
  PROVE  Advances(s, t, UpdateExisting(t, e, s[e], rnd))
<1> DEFINE new == [NoStub EXCEPT !.live = TRUE, !.status = s[e]]
           known == [t.stub[e] EXCEPT !.status = s[e]]
           stub1 == IF t.stub[e].live THEN known ELSE new
           u == [t EXCEPT !.stub[e] = stub1]
           v == DepComplete(u, e, rnd)
<1>1. UpdateExisting(t, e, s[e], rnd) = v
  <2>1. [t EXCEPT !.stub[e].status = s[e]] = [t EXCEPT !.stub[e] = known]
    BY DEF Good, Sound, Shape, Stubs, Fields
  <2>. QED BY <2>1 DEF UpdateExisting
<1>2. /\ {"status", "completion"} \subseteq DOMAIN stub1 /\ stub1.status = s[e]
      /\ stub1.completion => t.stub[e].completion
  <2>1. /\ {"status", "completion"} \subseteq DOMAIN new
        /\ new.status = s[e] /\ new.completion = FALSE
    BY DEF NoStub
  <2>2. /\ {"status", "completion"} \subseteq DOMAIN known
        /\ known.status = s[e] /\ known.completion = t.stub[e].completion
    BY DEF Good, Sound, Shape, Stubs
  <2> HIDE DEF new, known
  <2>. QED BY <2>1, <2>2
<1> HIDE DEF stub1
<1>3. Advances(s, t, u) /\ Good(s, u)
  <2>1. Advances(s, t, u)
    BY <1>2, StubAdvances
  <2>. QED BY <2>1 DEF Advances
<1> HIDE DEF u
<1>4. Advances(s, u, v)
  BY <1>3, DepCompleteAdvances
<1>. QED BY <1>1, <1>3, <1>4, AdvancesTrans

MembersStep(x, u, e) == UpdateExisting(u, e, x.s[e], x.rnd)

MembersHold(x, seq, u, i) == seq \in Seq(Event) /\ Advances(x.s, x.t, u)

MembersLoop == INSTANCE FoldInduction WITH Step <- MembersStep, Holds <- MembersHold

\* and for the members of a list.
LEMMA UpdateMembersAdvances ==
  ASSUME NEW s, NEW t, Good(s, t), NEW members \in SUBSET Event, NEW rnd
  PROVE  Advances(s, t, UpdateMembers(t, members, s, rnd))
<1> DEFINE x == [s |-> s, t |-> t, rnd |-> rnd]
           seq == Controls(members)
           r == MembersLoop!Loop(x, t, seq)
<1>1. UpdateMembers(t, members, s, rnd) = r
  BY DEF UpdateMembers, MembersLoop!Loop, MembersStep, FoldLeft, MapThenFoldSet,
         MembersLoop!FoldLeft, MembersLoop!MapThenFoldSet, Max, MembersLoop!Max
<1>2. seq \in Seq(Event)
  BY ControlsType
<1>3. x.s = s /\ x.t = t
  OBVIOUS
<1> HIDE DEF x, seq
<1>4. MembersHold(x, seq, t, 0)
  BY <1>2, <1>3, AdvancesSelf DEF MembersHold
<1>5. ASSUME NEW i \in 1 .. Len(seq), NEW u, MembersHold(x, seq, u, i - 1)
      PROVE  MembersHold(x, seq, MembersStep(x, u, seq[i]), i)
  <2> DEFINE v == UpdateExisting(u, seq[i], s[seq[i]], x.rnd)
  <2>1. seq[i] \in Event /\ Advances(s, t, u) /\ Good(s, u)
    BY <1>2, <1>3, <1>5 DEF MembersHold, Advances
  <2>2. Advances(s, u, v)
    BY <2>1, UpdateExistingAdvances
  <2>3. MembersStep(x, u, seq[i]) = v
    BY <1>3 DEF MembersStep
  <2> HIDE DEF v
  <2>4. Advances(s, t, v)
    BY <2>1, <2>2, AdvancesTrans
  <2>. QED BY <1>2, <1>3, <2>3, <2>4 DEF MembersHold
<1>6. \A i \in 1 .. Len(seq) : \A u :
        MembersHold(x, seq, u, i - 1) => MembersHold(x, seq, MembersStep(x, u, seq[i]), i)
  BY <1>5
<1>7. MembersHold(x, seq, r, Len(seq))
  BY <1>2, <1>4, <1>6, MembersLoop!Induction
<1> HIDE DEF r
<1>. QED BY <1>1, <1>3, <1>7 DEF MembersHold

\* list_object.
LEMMA ListObjectAdvances ==
  ASSUME NEW s, NEW t, Good(s, t), NEW p, NEW members \in SUBSET Event, NEW rnd
  PROVE  Advances(s, t, ListObject(t, p, members, s, rnd))
<1> DEFINE n == Cardinality(members)
           u == [t EXCEPT !.lst[p].all = n]
           v == ProgramComplete(u, p, rnd)
           w == UpdateMembers(u, members, s, rnd)
<1>1. ListObject(t, p, members, s, rnd) \in {v, w}
  BY DEF ListObject
<1> HIDE DEF n
<1>2. Advances(s, t, u) /\ Good(s, u)
  <2>1. /\ Shape(u) /\ u.blk = t.blk /\ u.stub = t.stub
        /\ u.scheduled = t.scheduled /\ u.active = t.active /\ u.superseded = t.superseded
        /\ \A q \in Program : u.lst[q].reqs = t.lst[q].reqs
    BY DEF Good, Sound, Shape, Lists, Fields
  <2> HIDE DEF u
  <2>2. SameStubs(t, u)
    BY <2>1 DEF Shape, SameStubs
  <2>3. Own(u)
    BY <2>1 DEF Good, Sound, Own
  <2>4. Advances(s, t, u)
    BY <2>1, <2>2, <2>3, ListsAdvance
  <2>. QED BY <2>4 DEF Advances
<1> HIDE DEF u
<1>3. Advances(s, u, v) /\ Advances(s, u, w)
  BY <1>2, ProgramCompleteAdvances, UpdateMembersAdvances
<1> HIDE DEF v, w
<1>. QED BY <1>1, <1>2, <1>3, AdvancesTrans

\* update_resource of a list.
LEMMA UpdateListAdvances ==
  ASSUME NEW s, NEW t, Good(s, t), NEW p \in Program
  PROVE  Advances(s, t, UpdateList(t, p))
<1> DEFINE sent1 == Append(t.sent, ListOf(p))
           u == [t EXCEPT !.sent = sent1, !.lst[p].old = t.lst[p].reqs, !.lst[p].reqs = {},
                          !.pend = @ \union {p}, !.complete = FALSE]
<1>1. UpdateList(t, p) \in {t, u}
  BY DEF UpdateList
<1> HIDE DEF sent1
<1>2. /\ Shape(u) /\ u.blk = t.blk /\ u.stub = t.stub
      /\ u.scheduled = t.scheduled /\ u.active = t.active /\ u.superseded = t.superseded
      /\ \A q \in Program : u.lst[q].reqs \subseteq t.lst[q].reqs
  BY DEF Good, Sound, Shape, Lists, Fields
<1> HIDE DEF u
<1>3. SameStubs(t, u)
  BY <1>2 DEF Shape, SameStubs
<1>4. Own(u)
  BY <1>2 DEF Good, Sound, Own
<1>5. Advances(s, t, u)
  BY <1>2, <1>3, <1>4, ListsAdvance
<1>. QED BY <1>1, <1>5, AdvancesSelf

\* remove_stub.
LEMMA RemoveStubAdvances ==
  ASSUME NEW s, NEW t, Good(s, t), NEW e
  PROVE  LET u == RemoveStub(t, e) IN
         Advances(s, t, u) /\ (e \in Event => ~u.stub[e].completion)
<1> DEFINE p == ProgramOf[e]
           u1 == [t EXCEPT !.lst[p].old = @ \ {e}]
           u2 == [t EXCEPT !.lst[p].reqs = @ \ {e}]
           u == IF Contains(t.sent, ListOf(p)) THEN u1 ELSE u2
           v == RemoveEvent(u, EventOf(e))
           w == [v EXCEPT !.stub[e] = NoStub]
<1>1. RemoveStub(t, e) = w
  BY DEF RemoveStub
<1> HIDE DEF p
<1>2. Advances(s, t, u) /\ Good(s, u)
  <2>1. /\ Shape(u1) /\ u1.blk = t.blk /\ u1.stub = t.stub
        /\ u1.scheduled = t.scheduled /\ u1.active = t.active /\ u1.superseded = t.superseded
        /\ \A q \in Program : u1.lst[q].reqs \subseteq t.lst[q].reqs
    BY DEF Good, Sound, Shape, Lists, Fields
  <2>2. /\ Shape(u2) /\ u2.blk = t.blk /\ u2.stub = t.stub
        /\ u2.scheduled = t.scheduled /\ u2.active = t.active /\ u2.superseded = t.superseded
        /\ \A q \in Program : u2.lst[q].reqs \subseteq t.lst[q].reqs
    BY DEF Good, Sound, Shape, Lists, Fields
  <2> HIDE DEF u1, u2
  <2>3. /\ Shape(u) /\ u.blk = t.blk /\ u.stub = t.stub
        /\ u.scheduled = t.scheduled /\ u.active = t.active /\ u.superseded = t.superseded
        /\ \A q \in Program : u.lst[q].reqs \subseteq t.lst[q].reqs
    BY <2>1, <2>2
  <2> HIDE DEF u
  <2>4. SameStubs(t, u)
    BY <2>3 DEF Shape, SameStubs
  <2>5. Own(u)
    BY <2>3 DEF Good, Sound, Own
  <2>6. Advances(s, t, u)
    BY <2>3, <2>4, <2>5, ListsAdvance
  <2>. QED BY <2>6 DEF Advances
<1> HIDE DEF u
<1>3. Advances(s, u, v) /\ Good(s, v)
  <2>1. Advances(s, u, v)
    BY <1>2, RemoveEventQuiet, QuietAdvances DEF Good, Sound
  <2>. QED BY <2>1 DEF Advances
<1> HIDE DEF v
<1>4. Advances(s, v, w)
  <2>1. /\ {"status", "completion"} \subseteq DOMAIN NoStub
        /\ NoStub.status = "none" /\ NoStub.completion = FALSE
    BY DEF NoStub
  <2>. QED BY <1>3, <2>1, StubAdvances
<1>5. e \in Event => ~w.stub[e].completion
  BY <1>3 DEF Good, Sound, Shape, Stubs, Fields, NoStub
<1> HIDE DEF w
<1>6. Advances(s, t, w)
  BY <1>2, <1>3, <1>4, AdvancesTrans
<1>. QED BY <1>1, <1>5, <1>6

-----------------------------------------------------------------------------
(* The steps of the client and of the server. *)

\* No status is undone, except that remove_stub frees a block.
ForwardStep == \A e \in Event : blk'[e] = NoBlock \/ MayBecome(blk[e].status, blk'[e].status)

\* The inductive invariant.
Inv == DOMAIN srv = Event /\ Good(srv, State)

\* Only what is said of blocks, Stubs, lists and queues counts.
LEMMA SameGood ==
  ASSUME NEW s, NEW t, Good(s, t), NEW u, Fields \subseteq DOMAIN u,
         u.blk = t.blk, u.stub = t.stub, u.lst = t.lst,
         u.scheduled = t.scheduled, u.active = t.active, u.superseded = t.superseded
  PROVE  Good(s, u)
<1>1. Shape(u)
  BY DEF Good, Sound, Shape
<1>2. Exclusive(u) /\ Told(s, u) /\ Own(u) /\ Orderly(u)
  BY DEF Good, Sound, Exclusive, Told, Own, Orderly
<1>. QED BY <1>1, <1>2 DEF Good, Sound

\* The server does not take back that an event is active or over.
LEMMA ServerGood ==
  ASSUME NEW s, NEW t, Good(s, t), NEW r, \A e \in Event : r[e] \in Early => s[e] \in Early
  PROVE  Good(r, t)
<1>1. Told(r, t)
  BY DEF Good, Sound, Told
<1>. QED BY <1>1 DEF Good, Sound

\* An action installs what its handler returns.
LEMMA BecomeState ==
  ASSUME NEW t, Good(srv, t), Become(t)
  PROVE  Good(srv, State') /\ blk' = t.blk
<1>1. /\ State'.blk = t.blk /\ State'.lst = t.lst /\ State'.stub = t.stub
      /\ State'.scheduled = t.scheduled /\ State'.active = t.active
      /\ State'.superseded = t.superseded /\ Fields \subseteq DOMAIN State'
      /\ blk' = t.blk
  BY DEF Become, State, Fields
<1> DEFINE u == State'
<1>2. /\ u.blk = t.blk /\ u.lst = t.lst /\ u.stub = t.stub
      /\ u.scheduled = t.scheduled /\ u.active = t.active
      /\ u.superseded = t.superseded /\ Fields \subseteq DOMAIN u
  BY <1>1
<1> HIDE DEF u
<1>3. Good(srv, u)
  BY <1>2, SameGood
<1>. QED BY <1>1, <1>3 DEF u

LEMMA BecomeGood ==
  ASSUME Inv, NEW t, Advances(srv, State, t), Become(t), srv' = srv
  PROVE  Inv' /\ ForwardStep
<1>1. Good(srv, State') /\ blk' = t.blk
  BY BecomeState DEF Advances
<1>2. Inv'
  BY <1>1 DEF Inv
<1>3. State.blk = blk
  BY DEF State
<1>4. ForwardStep
  BY <1>1, <1>3 DEF Advances, Forth, ForwardStep
<1>. QED BY <1>2, <1>4

\* The block of an event is freed, and nothing else.
Freed(t, e, u) == u.blk[e] = NoBlock /\ \A f \in Event : f # e => u.blk[f] = t.blk[f]

\* delete_blocks, for an event whose Stub was freed.
LEMMA FreeGood ==
  ASSUME NEW s, NEW t, Good(s, t), NEW e \in Event, ~t.stub[e].completion,
         NEW u, u = [t EXCEPT !.blk[e] = NoBlock]
  PROVE  Good(s, u) /\ Freed(t, e, u)
<1>1. /\ Shape(u) /\ u.lst = t.lst /\ u.stub = t.stub
      /\ u.scheduled = t.scheduled /\ u.active = t.active /\ u.superseded = t.superseded
      /\ u.blk[e] = NoBlock /\ \A f \in Event : f # e => u.blk[f] = t.blk[f]
  BY DEF Good, Sound, Shape, Blocks, NoBlock, Fields
<1>2. u.blk[e].der = {} /\ u.blk[e].status = "none"
  BY <1>1 DEF NoBlock
<1>3. ToSet(t.active) \subseteq Event /\ ToSet(t.scheduled) \subseteq Event
  BY InQueue DEF Good, Sound, Shape
<1>4. Exclusive(u)
  BY <1>1, <1>2, <1>3 DEF Good, Sound, Exclusive
<1>5. Told(s, u)
  BY <1>1, <1>2 DEF Good, Sound, Told
<1>6. Own(u)
  BY <1>1 DEF Good, Sound, Own
<1>7. Orderly(u)
  BY <1>1, <1>2, <1>3 DEF Good, Orderly
<1>. QED BY <1>1, <1>4, <1>5, <1>6, <1>7 DEF Good, Sound, Freed

\* No block exists at first.
LEMMA InvInit == Init => Inv
<1>1. SUFFICES ASSUME Init PROVE Inv
  OBVIOUS
<1>2. /\ State.blk = [e \in Event |-> NoBlock] /\ State.stub = [e \in Event |-> NoStub]
      /\ State.lst = lst
      /\ State.scheduled = <<>> /\ State.active = <<>> /\ State.superseded = <<>>
      /\ Fields \subseteq DOMAIN State
  BY <1>1 DEF Init, State, Fields
<1>3. Lists(lst) /\ \A p \in Program : lst[p].reqs = {}
  BY <1>1 DEF Init, Lists
<1>4. ToSet(<<>>) = {} /\ <<>> \in Seq(Event) /\ IsInjective(<<>>)
  BY DEF ToSet, IsInjective
<1>5. Blocks([e \in Event |-> NoBlock]) /\ Stubs([e \in Event |-> NoStub])
  BY DEF Blocks, Stubs, NoBlock, NoStub
<1>6. Shape(State)
  BY <1>2, <1>3, <1>4, <1>5 DEF Shape
<1>7. Exclusive(State) /\ Own(State) /\ Orderly(State)
  BY <1>2, <1>3, <1>4 DEF Exclusive, Own, Orderly
<1>8. Told(srv, State)
  BY <1>2 DEF Told, NoBlock, NoStub
<1>9. DOMAIN srv = Event
  BY <1>1 DEF Init
<1>. QED BY <1>6, <1>7, <1>8, <1>9 DEF Inv, Good, Sound

\* What the server says of one event, or of the events of a program, changes.
LEMMA ServerNext ==
  ASSUME Inv, Server
  PROVE  Inv' /\ ForwardStep
<1>1. /\ UNCHANGED clientVars
      /\ \E e \in Event : \E new :
           /\ srv' = [srv EXCEPT ![e] = new]
           /\ new \in Early => srv[e] \in Early
  BY DEF Server, SrvPublish, SrvActivate, SrvEnd, SrvWithdraw, Early
<1>2. PICK e \in Event : \E new : /\ srv' = [srv EXCEPT ![e] = new]
                                  /\ new \in Early => srv[e] \in Early
  BY <1>1
<1>3. DOMAIN srv' = Event /\ \A f \in Event : srv'[f] \in Early => srv[f] \in Early
  BY <1>2 DEF Inv
<1>4. State' = State /\ blk' = blk
  BY <1>1 DEF clientVars, State
<1>5. Good(srv', State)
  BY <1>3, ServerGood DEF Inv
<1>6. Inv'
  BY <1>3, <1>4, <1>5 DEF Inv
<1>7. ForwardStep
  BY <1>4 DEF ForwardStep, MayBecome
<1>. QED BY <1>6, <1>7

\* Every handler of the client keeps to the invariant and undoes no status.
LEMMA InvNext == Inv /\ [Next]_vars => Inv' /\ ForwardStep
<1>1. SUFFICES ASSUME Inv, [Next]_vars PROVE Inv' /\ ForwardStep
  OBVIOUS
<1> DEFINE pop == Popped(State)
<1>2. Good(srv, State) /\ Shape(State)
  BY <1>1 DEF Inv, Good, Sound
<1>3. Advances(srv, State, pop) /\ Good(srv, pop) /\ Shape(pop)
  <2>1. Advances(srv, State, pop)
    BY <1>2, PoppedQuiet, QuietAdvances
  <2>. QED BY <2>1 DEF Advances, Good, Sound
<1>4. ASSUME NEW t, Advances(srv, pop, t), Become(t), srv' = srv
      PROVE  Inv' /\ ForwardStep
  <2> HIDE DEF pop
  <2>1. Advances(srv, State, t)
    BY <1>3, <1>4, AdvancesTrans
  <2>. QED BY <1>1, <1>4, <2>1, BecomeGood
<1>5. ASSUME UNCHANGED <<srv, blk, stub, lst, scheduled, active, superseded>>
      PROVE  Inv' /\ ForwardStep
  <2>1. /\ State'.blk = State.blk /\ State'.lst = State.lst /\ State'.stub = State.stub
        /\ State'.scheduled = State.scheduled /\ State'.active = State.active
        /\ State'.superseded = State.superseded /\ Fields \subseteq DOMAIN State'
    BY <1>5 DEF State, Fields
  <2> DEFINE u == State'
  <2>2. /\ u.blk = State.blk /\ u.lst = State.lst /\ u.stub = State.stub
        /\ u.scheduled = State.scheduled /\ u.active = State.active
        /\ u.superseded = State.superseded /\ Fields \subseteq DOMAIN u
    BY <2>1
  <2> HIDE DEF u
  <2>3. Good(srv, u)
    BY <1>2, <2>2, SameGood
  <2>4. Good(srv, State')
    BY <2>3 DEF u
  <2>5. Inv'
    BY <1>1, <1>5, <2>4 DEF Inv
  <2>6. ForwardStep
    BY <1>5 DEF ForwardStep, MayBecome
  <2>. QED BY <2>5, <2>6
<1>6. CASE Server
  BY <1>1, <1>6, ServerNext
<1>7. CASE Tick
  BY <1>5, <1>7 DEF Tick
<1>8. CASE DoScheduleUpdate
  <2> DEFINE u == UpdateSchedule(pop)
             v == DefaultIfIdle(u)
  <2>1. Advances(srv, pop, u) /\ Good(srv, u)
    BY <1>3, UpdateScheduleAdvances DEF Advances
  <2>2. Become(v) /\ srv' = srv
    BY <1>8 DEF DoScheduleUpdate
  <2> HIDE DEF u, pop
  <2>3. Advances(srv, u, v)
    BY <2>1, InsertEventAdvances, AdvancesSelf DEF DefaultIfIdle
  <2> HIDE DEF v
  <2>4. Advances(srv, pop, v)
    BY <2>1, <2>3, AdvancesTrans
  <2>. QED BY <1>4, <2>2, <2>4
<1>9. CASE DoResourceUpdate
  <2>1. Become(UpdateResource(pop, Data)) /\ srv' = srv
    BY <1>9 DEF DoResourceUpdate
  <2> HIDE DEF pop
  <2>2. Advances(srv, pop, UpdateResource(pop, Data))
    BY <1>3, UpdateResourceQuiet, QuietAdvances
  <2>. QED BY <1>4, <2>1, <2>2
<1>10. CASE DoResourceRemove
  <2>1. /\ srv' = srv
        /\ \/ \E e \in Event : Become([RemoveStub(pop, e) EXCEPT !.blk[e] = NoBlock])
           \/ \E p \in Program :
                Become(RemoveReqs([pop EXCEPT !.lst[p].reqs = {}, !.lst[p].old = {}],
                                  pop.lst[p].reqs \union pop.lst[p].old))
           \/ \E p \in Program : Become(InsertEvent(pop, ListOf(p), "RESOURCE_REMOVE", 0))
    BY <1>10 DEF DoResourceRemove
  <2> HIDE DEF pop
  <2>2. ASSUME NEW e \in Event, Become([RemoveStub(pop, e) EXCEPT !.blk[e] = NoBlock])
        PROVE  Inv' /\ ForwardStep
    <3> DEFINE u == RemoveStub(pop, e)
               v == [u EXCEPT !.blk[e] = NoBlock]
    <3>1. Advances(srv, pop, u) /\ ~u.stub[e].completion
      BY <1>3, RemoveStubAdvances
    <3>2. Become(v)
      BY <2>2
    <3> HIDE DEF u
    <3>3. Good(srv, v) /\ Freed(u, e, v)
      <4>1. Good(srv, u)
        BY <3>1 DEF Advances
      <4>2. v = [u EXCEPT !.blk[e] = NoBlock]
        OBVIOUS
      <4> HIDE DEF v
      <4>. QED BY <3>1, <4>1, <4>2, FreeGood
    <3> HIDE DEF v
    <3>4. Good(srv, State') /\ blk' = v.blk
      BY <3>2, <3>3, BecomeState
    <3>5. Inv'
      BY <1>1, <2>1, <3>4 DEF Inv
    <3>6. Advances(srv, State, u)
      BY <1>3, <3>1, AdvancesTrans
    <3>7. State.blk = blk
      BY DEF State
    <3>8. ForwardStep
      BY <3>3, <3>4, <3>6, <3>7 DEF Freed, Advances, Forth, ForwardStep
    <3>. QED BY <3>5, <3>8
  <2>3. ASSUME NEW p \in Program,
               Become(RemoveReqs([pop EXCEPT !.lst[p].reqs = {}, !.lst[p].old = {}],
                                 pop.lst[p].reqs \union pop.lst[p].old))
        PROVE  Inv' /\ ForwardStep
    <3> DEFINE u == [pop EXCEPT !.lst[p].reqs = {}, !.lst[p].old = {}]
               S == pop.lst[p].reqs \union pop.lst[p].old
               v == RemoveReqs(u, S)
    <3>1. Advances(srv, pop, u) /\ Good(srv, u)
      <4>1. Advances(srv, pop, u)
        BY <1>3, ReqsAdvance
      <4>. QED BY <4>1 DEF Advances
    <3>2. S \in SUBSET Event
      BY <1>3 DEF Shape, Lists
    <3>3. Become(v)
      BY <2>3
    <3> HIDE DEF u, S
    <3>4. Advances(srv, u, v)
      BY <3>1, <3>2, RemoveReqsQuiet, QuietAdvances DEF Good, Sound
    <3> HIDE DEF v
    <3>5. Advances(srv, pop, v)
      BY <3>1, <3>4, AdvancesTrans
    <3>. QED BY <1>4, <2>1, <3>3, <3>5
  <2>4. ASSUME NEW p \in Program, Become(InsertEvent(pop, ListOf(p), "RESOURCE_REMOVE", 0))
        PROVE  Inv' /\ ForwardStep
    BY <1>3, <1>4, <2>1, <2>4, InsertEventAdvances
  <2>. QED BY <2>1, <2>2, <2>3, <2>4
<1>11. CASE DoRetrieveFail
  <2>1. Become(RemoveStub(pop, Data)) /\ srv' = srv
    BY <1>11 DEF DoRetrieveFail
  <2> HIDE DEF pop
  <2>2. Advances(srv, pop, RemoveStub(pop, Data))
    BY <1>3, RemoveStubAdvances
  <2>. QED BY <1>4, <2>1, <2>2
<1>12. CASE EmitStart \/ EmitEnd \/ EmitDefault \/ EmitSchedule
  <2>1. Become(pop) /\ srv' = srv
    BY <1>12 DEF EmitStart, EmitEnd, EmitDefault, EmitSchedule
  <2>. QED BY <1>1, <1>3, <2>1, BecomeGood
<1>13. CASE StartPoll \/ TimerExpires
  BY <1>5, <1>13 DEF StartPoll, TimerExpires, clientVars
<1>14. ASSUME NEW p \in Program, PollList(p) PROVE Inv' /\ ForwardStep
  <2> DEFINE u == UpdateList(State, p)
             next == now + PollRate
             v == [u EXCEPT !.lst[p].next = next]
  <2>1. Become(v) /\ srv' = srv
    BY <1>14 DEF PollList
  <2>2. Advances(srv, State, u) /\ Good(srv, u)
    BY <1>2, UpdateListAdvances DEF Advances
  <2> HIDE DEF u, next
  <2>3. /\ Shape(v) /\ v.blk = u.blk /\ v.stub = u.stub
        /\ v.scheduled = u.scheduled /\ v.active = u.active /\ v.superseded = u.superseded
        /\ \A q \in Program : v.lst[q].reqs = u.lst[q].reqs
    BY <2>2 DEF Good, Sound, Shape, Lists, Fields
  <2> HIDE DEF v
  <2>4. SameStubs(u, v)
    BY <2>3 DEF Shape, SameStubs
  <2>5. Own(v)
    BY <2>2, <2>3 DEF Good, Sound, Own
  <2>6. Advances(srv, u, v)
    BY <2>2, <2>3, <2>4, <2>5, ListsAdvance
  <2>7. Advances(srv, State, v)
    BY <2>2, <2>6, AdvancesTrans
  <2>. QED BY <1>1, <2>1, <2>7, BecomeGood
<1>15. ASSUME NEW e \in Event, PollEvent(e) PROVE Inv' /\ ForwardStep
  <2> DEFINE u == UpdateResource(State, e)
             v == PollResource(u, e)
  <2>1. Become(v) /\ srv' = srv
    BY <1>15 DEF PollEvent
  <2>2. Quiet(State, u) /\ Shape(u)
    BY <1>2, UpdateResourceQuiet, QuietShape
  <2> HIDE DEF u
  <2>3. Quiet(u, v)
    BY <2>2, PollResourceQuiet
  <2> HIDE DEF v
  <2>4. Advances(srv, State, v)
    BY <1>2, <2>2, <2>3, QuietTrans, QuietAdvances
  <2>. QED BY <1>1, <2>1, <2>4, BecomeGood
\* An answer was taken from the connection.
<1>16. ASSUME NEW t, Good(srv, t), NEW s PROVE Advances(srv, t, [t EXCEPT !.sent = s])
  <2>1. Quiet(t, [t EXCEPT !.sent = s])
    BY <1>16 DEF Quiet, Good, Sound, Shape, SameStubs, Fields
  <2>. QED BY <1>16, <2>1, QuietAdvances
<1>17. ASSUME NEW p \in Program, ListResponse(p) PROVE Inv' /\ ForwardStep
  <2>1. PICK rnd \in [Event -> Random] :
          Become([ListObject(State, p, Members(p), srv, rnd) EXCEPT !.sent = Tail(@)])
    BY <1>17 DEF ListResponse
  <2> DEFINE u == ListObject(State, p, Members(p), srv, rnd)
             s == Tail(u.sent)
             v == [u EXCEPT !.sent = s]
  <2>2. Members(p) \in SUBSET Event
    BY DEF Members, Listed
  <2>3. Advances(srv, State, u)
    BY <1>2, <2>2, ListObjectAdvances
  <2>4. Become(v) /\ srv' = srv
    BY <1>17, <2>1 DEF ListResponse
  <2> HIDE DEF u, s
  <2>5. Advances(srv, u, v)
    BY <1>16, <2>3 DEF Advances
  <2> HIDE DEF v
  <2>6. Advances(srv, State, v)
    BY <2>3, <2>5, AdvancesTrans
  <2>. QED BY <1>1, <2>4, <2>6, BecomeGood
<1>18. ASSUME NEW e \in Event, EventResponse(e) PROVE Inv' /\ ForwardStep
  <2>1. PICK rnd \in [Event -> Random] :
          Become([UpdateExisting(State, e, srv[e], rnd) EXCEPT !.sent = Tail(@)])
    BY <1>18 DEF EventResponse
  <2> DEFINE u == UpdateExisting(State, e, srv[e], rnd)
             s == Tail(u.sent)
             v == [u EXCEPT !.sent = s]
  <2>2. Advances(srv, State, u)
    BY <1>2, UpdateExistingAdvances
  <2>3. Become(v) /\ srv' = srv
    BY <1>18, <2>1 DEF EventResponse
  <2> HIDE DEF u, s
  <2>4. Advances(srv, u, v)
    BY <1>16, <2>2 DEF Advances
  <2> HIDE DEF v
  <2>5. Advances(srv, State, v)
    BY <2>2, <2>4, AdvancesTrans
  <2>. QED BY <1>1, <2>3, <2>5, BecomeGood
<1>19. ASSUME NEW e \in Event, EventNotFound(e) PROVE Inv' /\ ForwardStep
  <2> DEFINE u == InsertEvent(Answered, EventOf(e), "RETRIEVE_FAIL", 0)
  <2>1. Become(u) /\ srv' = srv
    BY <1>19 DEF EventNotFound
  <2>2. Advances(srv, State, Answered) /\ Good(srv, Answered)
    <3>1. Advances(srv, State, Answered)
      BY <1>2, <1>16 DEF Answered
    <3>. QED BY <3>1 DEF Advances
  <2>3. Advances(srv, Answered, u)
    BY <2>2, InsertEventAdvances
  <2> HIDE DEF u
  <2>4. Advances(srv, State, u)
    BY <2>2, <2>3, AdvancesTrans
  <2>. QED BY <1>1, <2>1, <2>4, BecomeGood
<1>20. ASSUME NEW p \in Program, ProgramWithdrawn(p) PROVE Inv' /\ ForwardStep
  <2>1. PICK rnd \in [Event -> Random] :
          Become(ScheduleDer([InsertEvent(State, Prog(p), "RESOURCE_REMOVE", 0)
                                EXCEPT !.lst[p].live = FALSE], rnd))
    BY <1>20 DEF ProgramWithdrawn
  <2> DEFINE u == InsertEvent(State, Prog(p), "RESOURCE_REMOVE", 0)
             v == [u EXCEPT !.lst[p].live = FALSE]
             w == ScheduleDer(v, rnd)
  <2>2. Advances(srv, State, u) /\ Good(srv, u)
    BY <1>2, InsertEventAdvances DEF Advances
  <2>3. Become(w)
    BY <2>1
  <2> HIDE DEF u
  <2>4. Advances(srv, u, v) /\ Good(srv, v)
    <3>1. /\ Shape(v) /\ v.blk = u.blk /\ v.stub = u.stub
          /\ v.scheduled = u.scheduled /\ v.active = u.active /\ v.superseded = u.superseded
          /\ \A q \in Program : v.lst[q].reqs = u.lst[q].reqs
      BY <2>2 DEF Good, Sound, Shape, Lists, Fields
    <3> HIDE DEF v
    <3>2. SameStubs(u, v)
      BY <3>1 DEF Shape, SameStubs
    <3>3. Own(v)
      BY <2>2, <3>1 DEF Good, Sound, Own
    <3>4. Advances(srv, u, v)
      BY <2>2, <3>1, <3>2, <3>3, ListsAdvance
    <3>. QED BY <3>4 DEF Advances
  <2> HIDE DEF v
  <2>5. Advances(srv, v, w)
    BY <2>4, ScheduleDerAdvances
  <2> HIDE DEF w
  <2>6. Advances(srv, State, w)
    BY <2>2, <2>4, <2>5, AdvancesTrans
  <2>7. Good(srv, State') /\ blk' = w.blk
    BY <2>3, <2>6, BecomeState DEF Advances
  <2>8. srv' = [e \in Event |-> IF ProgramOf[e] = p THEN "withdrawn" ELSE srv[e]]
    BY <1>20 DEF ProgramWithdrawn
  <2>9. DOMAIN srv' = Event /\ \A e \in Event : srv'[e] \in Early => srv[e] \in Early
    BY <2>8 DEF Early
  <2>10. Inv'
    <3>1. Good(srv', State')
      <4> DEFINE x == State'
                 r == srv'
      <4>1. Good(srv, x) /\ \A e \in Event : r[e] \in Early => srv[e] \in Early
        BY <2>7, <2>9
      <4> HIDE DEF x, r
      <4>2. Good(r, x)
        BY <4>1, ServerGood
      <4>. QED BY <4>2 DEF x, r
    <3>. QED BY <2>9, <3>1 DEF Inv
  <2>11. State.blk = blk
    BY DEF State
  <2>12. ForwardStep
    BY <2>6, <2>7, <2>11 DEF Advances, Forth, ForwardStep
  <2>. QED BY <2>10, <2>12
<1>21. CASE UNCHANGED vars
  BY <1>5, <1>21 DEF vars, clientVars
<1>. QED BY <1>1, <1>6, <1>7, <1>8, <1>9, <1>10, <1>11, <1>12, <1>13, <1>14, <1>15, <1>17,
            <1>18, <1>19, <1>20, <1>21
         DEF Next, Dispatch, Polls, Answers

\* No two blocks in the active queue ever share a control, for any events and
\* programs: whatever order insert_active meets the blocks in, however often
\* schedule_event is called again for them, and although another call may have
\* changed their status.  Nothing is said of a block that insert_active has dropped
\* from the queue without ending it: its status stays Active until the next
\* schedule_der, and its controls may be given to another block.
THEOREM ControlsApart == Spec => []ControlsDisjoint
<1>1. Inv => ControlsDisjoint
  BY DEF Inv, Good, Sound, Exclusive, ControlsDisjoint, State
<1>. QED BY <1>1, InvInit, InvNext, PTL DEF Spec

\* A DERControl that is over is never in force again, and one that is due or in force
\* never waits for its start again: schedule_der empties the queues and calls
\* schedule_event for every block again, which has only the status of the block and
\* the EventStatus the server sent to go by, and both change in between.
THEOREM BlocksGoForward == Spec => StatusForward
<1>1. Inv /\ [Next]_vars =>
        [\A e \in Event : blk'[e] = NoBlock \/ MayBecome(blk[e].status, blk'[e].status)]_vars
  BY InvNext DEF ForwardStep
<1>. QED BY <1>1, InvInit, InvNext, PTL DEF Spec, StatusForward
=============================================================================
