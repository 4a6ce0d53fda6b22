-------------------------- MODULE HashTable_proofs --------------------------
(***************************************************************************)
(* Lookups stay within the arrays of the sparse groups; and as long as no   *)
(* deleted item is reused, the hash table is a map and an iteration visits *)
(* every item once: proofs for every hash function, every size and every   *)
(* sequence of puts and deletes.                                           *)
(***************************************************************************)
EXTENDS HashTable, FiniteSetTheorems, SequenceTheorems,
        WellFoundedInduction, TLAPS

Item == Data \union {Null}

TypeInv == /\ hash \in Hashes
           /\ bits \in [Group -> SUBSET Int]
           /\ slot \in [Group -> Seq(Item)]

\* The array of a group has room for every bit of its bitmap.  It may be longer:
\* sg_insert at a position whose item was deleted adds an item and no bit.
RoomInv == \A g \in Group : /\ IsFiniteSet(bits[g])
                            /\ Cardinality(bits[g]) <= Len(slot[g])

IInv == TypeInv /\ RoomInv

\* The rank of any position of a bitmap is at most the number of its bits, and
\* less than that at a bit that is set.
LEMMA RankBound ==
  ASSUME NEW b \in SUBSET Int, IsFiniteSet(b), NEW i \in Int
  PROVE  /\ BitRank(b, i) \in Nat /\ BitRank(b, i) <= Cardinality(b)
         /\ Cardinality(b) \in Nat
         /\ i \in b => BitRank(b, i) < Cardinality(b)
<1> DEFINE below == {j \in b : j < i}
<1>1. IsFiniteSet(below) /\ Cardinality(below) <= Cardinality(b)
  BY FS_Subset
<1>2. Cardinality(below) \in Nat /\ Cardinality(b) \in Nat
  BY <1>1, FS_CardinalityType
<1>3. ASSUME i \in b PROVE Cardinality(below) < Cardinality(b)
  <2>1. below \in SUBSET b /\ below # b
    BY <1>3
  <2>2. Cardinality(b) # Cardinality(below)
    BY <2>1, FS_Subset
  <2>. QED BY <1>1, <1>2, <2>2
<1>. QED BY <1>1, <1>2, <1>3 DEF BitRank

\* sg_insert lengthens the array by one.
LEMMA InsertLength ==
  ASSUME NEW s \in Seq(Item), NEW i \in 1 .. Len(s) + 1, NEW data \in Data
  PROVE  SgInsert(s, i, data) \in Seq(Item) /\ Len(SgInsert(s, i, data)) = Len(s) + 1
<1> DEFINE front == SubSeq(s, 1, i - 1)
           back  == SubSeq(s, i, Len(s))
<1>1. Len(s) \in Nat
  BY LenProperties
<1>2. front \in Seq(Item) /\ Len(front) = i - 1
  BY <1>1
<1>3. back \in Seq(Item) /\ Len(back) = Len(s) - i + 1
  BY <1>1
<1>4. <<data>> \in Seq(Item) /\ Len(<<data>>) = 1
  BY DEF Item
<1> HIDE DEF front, back
<1>5. front \o <<data>> \in Seq(Item) /\ Len(front \o <<data>>) = i
  BY <1>1, <1>2, <1>4
<1>6. front \o <<data>> \o back \in Seq(Item)
      /\ Len(front \o <<data>> \o back) = Len(s) + 1
  BY <1>1, <1>3, <1>5
<1>. QED BY <1>6 DEF SgInsert, InsertAt, front, back

\* Writing to an array does not change its length.
LEMMA WriteLength ==
  ASSUME NEW s \in Seq(Item), NEW i, NEW x \in Item
  PROVE  [s EXCEPT ![i] = x] \in Seq(Item) /\ Len([s EXCEPT ![i] = x]) = Len(s)
<1>1. CASE i \in 1 .. Len(s)
  BY <1>1, ExceptSeq
<1>2. CASE i \notin 1 .. Len(s)
  <2>1. DOMAIN s = 1 .. Len(s) /\ s \in [1 .. Len(s) -> Item]
    BY LenProperties
  <2>2. [s EXCEPT ![i] = x] = s
    BY <1>2, <2>1, Zenon
  <2>. QED BY <2>2
<1>. QED BY <1>1, <1>2

\* A set of probes that is not empty has a first one.
LEMMA FirstProbe ==
  ASSUME NEW T, T \subseteq Probes, T # {}
  PROVE  \E n \in Probes : n \in T /\ \A m \in 0 .. n - 1 : m \notin T
<1>1. T \subseteq Nat
  BY DEF Probes
<1>2. PICK n \in T : \A m \in T : ~(<<m, n>> \in OpToRel(<, Nat))
  BY <1>1, WFMin, NatLessThanWellFounded
<1>3. \A m \in T : ~(m < n)
  BY <1>1, <1>2 DEF OpToRel
<1>. QED BY <1>1, <1>3

\* Where hash_put inserts is a number.
LEMMA MarkType ==
  ASSUME TypeInv, NEW key \in Key, Absent(key)
  PROVE  Mark(key) \in Int /\ Bit(Mark(key)) \in Int
<1>1. \A n \in Probes : Probe(key, n) \in Int
  BY HashAssumption DEF TypeInv, Probe, Probes
<1>2. LastProbe(key) \in Probes /\ ~Passes(key, Position(key))
  <2> DEFINE T == {n \in Probes : ~Passes(key, Probe(key, n))}
  <2>1. T # {}
    BY DEF Absent, Terminates
  <2>2. PICK n \in Probes : n \in T /\ \A m \in 0 .. n - 1 : m \notin T
    BY <2>1, FirstProbe
  <2>3. \A m \in 0 .. n - 1 : Passes(key, Probe(key, m))
    <3>1. 0 .. n - 1 \subseteq Probes
      BY HashAssumption DEF Probes
    <3>. QED BY <2>2, <3>1
  <2>4. \E k \in Probes : /\ ~Passes(key, Probe(key, k))
                          /\ \A m \in 0 .. k - 1 : Passes(key, Probe(key, m))
    BY <2>2, <2>3
  <2>. QED BY <2>4, Zenon DEF LastProbe, Position
<1>3. Usable(Probe(key, LastProbe(key)))
  BY <1>2 DEF Absent, Passes, Usable, Position
<1>4. MarkProbe(key) \in Probes
  <2> DEFINE T == {n \in Probes : Usable(Probe(key, n))}
  <2>1. T # {}
    BY <1>2, <1>3
  <2>2. PICK n \in Probes : n \in T /\ \A m \in 0 .. n - 1 : m \notin T
    BY <2>1, FirstProbe
  <2>3. \A m \in 0 .. n - 1 : ~Usable(Probe(key, m))
    <3>1. 0 .. n - 1 \subseteq Probes
      BY HashAssumption DEF Probes
    <3>. QED BY <2>2, <3>1
  <2>4. \E k \in Probes : /\ Usable(Probe(key, k))
                          /\ \A m \in 0 .. k - 1 : ~Usable(Probe(key, m))
    BY <2>2, <2>3
  <2>. QED BY <2>4, Zenon DEF MarkProbe
<1>5. Mark(key) \in Int
  BY <1>1, <1>4 DEF Mark
<1>. QED BY <1>5, HashAssumption DEF Bit

LEMMA InitInv == Init => IInv
  BY FS_EmptySet DEF Init, IInv, TypeInv, RoomInv, Item

\* Replacing or erasing one item.
LEMMA WriteInv ==
  ASSUME IInv, NEW g, NEW i, NEW x \in Item, hash' = hash, bits' = bits,
         slot' = [slot EXCEPT ![g][i] = x]
  PROVE  IInv'
<1>1. \A h \in Group : slot'[h] \in Seq(Item) /\ Len(slot'[h]) = Len(slot[h])
  <2> TAKE h \in Group
  <2>1. slot[h] \in Seq(Item)
    BY DEF IInv, TypeInv
  <2>2. slot'[h] = IF h = g THEN [slot[h] EXCEPT ![i] = x] ELSE slot[h]
    BY DEF IInv, TypeInv
  <2>. QED BY <2>1, <2>2, WriteLength
<1>2. slot' \in [Group -> Seq(Item)]
  BY <1>1 DEF IInv, TypeInv
<1>. QED BY <1>1, <1>2 DEF IInv, TypeInv, RoomInv

LEMMA PutNewInv == ASSUME IInv, NEW data \in Data, PutNew(data) PROVE IInv'
<1> DEFINE index == Mark(KeyOf(data))
           g == GroupOf(index)
           i == Element(index)
<1>1. slot' = [slot EXCEPT ![g] = SgInsert(@, i, data)]
  BY DEF PutNew
<1>2. bits' = [bits EXCEPT ![g] = @ \union {Bit(index)}]
  BY DEF PutNew
<1>0. Bit(index) \in Int
  BY MarkType DEF PutNew, IInv, KeyOf, Data
<1>3. ASSUME g \in Group PROVE i \in 1 .. Len(slot[g]) + 1
  <2>1. /\ bits[g] \in SUBSET Int /\ IsFiniteSet(bits[g])
        /\ Cardinality(bits[g]) <= Len(slot[g]) /\ Len(slot[g]) \in Nat
    BY <1>3, LenProperties DEF IInv, TypeInv, RoomInv
  <2>2. /\ BitRank(bits[g], Bit(index)) \in Nat /\ Cardinality(bits[g]) \in Nat
        /\ BitRank(bits[g], Bit(index)) <= Cardinality(bits[g])
    BY <1>0, <2>1, RankBound
  <2>3. i = BitRank(bits[g], Bit(index)) + 1
    BY DEF Element
  <2> HIDE DEF i, g, index
  <2>. QED BY <2>1, <2>2, <2>3
<1>4. g \in Group => /\ SgInsert(slot[g], i, data) \in Seq(Item)
                     /\ Len(SgInsert(slot[g], i, data)) = Len(slot[g]) + 1
  BY <1>3, InsertLength DEF IInv, TypeInv
<1>5. ASSUME g \in Group
      PROVE  /\ IsFiniteSet(bits[g] \union {Bit(index)})
             /\ Cardinality(bits[g] \union {Bit(index)}) <= Len(slot[g]) + 1
  <2>1. /\ IsFiniteSet(bits[g]) /\ Cardinality(bits[g]) <= Len(slot[g])
        /\ slot[g] \in Seq(Item)
    BY <1>5 DEF IInv, TypeInv, RoomInv
  <2>2. Cardinality(bits[g]) \in Nat /\ Len(slot[g]) \in Nat
    BY <2>1, FS_CardinalityType, LenProperties
  <2> DEFINE x == Bit(index)
             b == bits[g]
  <2> HIDE DEF x, b
  <2>3. /\ IsFiniteSet(b \union {x})
        /\ Cardinality(b \union {x}) =
             IF x \in b THEN Cardinality(b) ELSE Cardinality(b) + 1
    BY <2>1, FS_AddElement DEF b
  <2>. QED BY <2>1, <2>2, <2>3 DEF x, b
<1>8. hash' = hash
  BY DEF PutNew
<1> HIDE DEF g, i, index
<1>6. TypeInv'
  <2>1. bits' \in [Group -> SUBSET Int]
    BY <1>0, <1>2 DEF IInv, TypeInv
  <2>2. slot' \in [Group -> Seq(Item)]
    BY <1>1, <1>4 DEF IInv, TypeInv
  <2>. QED BY <1>8, <2>1, <2>2 DEF IInv, TypeInv
<1>7. ASSUME NEW h \in Group
      PROVE  IsFiniteSet(bits'[h]) /\ Cardinality(bits'[h]) <= Len(slot'[h])
  <2>1. CASE h = g
    <3>1. bits'[h] = bits[g] \union {Bit(index)} /\ slot'[h] = SgInsert(slot[g], i, data)
      BY <1>1, <1>2, <2>1 DEF IInv, TypeInv
    <3>. QED BY <1>4, <1>5, <2>1, <3>1
  <2>2. CASE h # g
    BY <1>1, <1>2, <2>2 DEF IInv, TypeInv, RoomInv
  <2>. QED BY <2>1, <2>2
<1>. QED BY <1>6, <1>7 DEF IInv, RoomInv

LEMMA NextInv == IInv /\ [Next]_vars => IInv'
<1> SUFFICES ASSUME IInv, [Next]_vars PROVE IInv'
  OBVIOUS
<1>1. ASSUME NEW data \in Data, PutReplace(data) PROVE IInv'
  BY <1>1, WriteInv DEF PutReplace, Item
<1>2. ASSUME NEW data \in Data, PutNew(data) PROVE IInv'
  BY <1>2, PutNewInv
<1>3. ASSUME NEW data \in Data, PutResize(data) PROVE IInv'
  BY <1>3 DEF PutResize, IInv, TypeInv, RoomInv
<1>4. ASSUME NEW key \in Key, Delete(key) PROVE IInv'
  BY <1>4, WriteInv DEF Delete, Erase, Item
<1>5. ASSUME NEW key \in Key, DeleteResize(key) PROVE IInv'
  BY <1>5, WriteInv DEF DeleteResize, Erase, Item
<1>6. CASE UNCHANGED vars
  BY <1>6 DEF vars, IInv, TypeInv, RoomInv
<1>. QED BY <1>1, <1>2, <1>3, <1>4, <1>5, <1>6 DEF Next

\* Whatever is put and deleted in whatever order, also where deleted items are
\* reused, sg_element never reads outside the array of a group.
THEOREM NoReadOutside == Spec => []LookupInside
<1>1. IInv => LookupInside
  <2> SUFFICES ASSUME IInv, NEW g \in Group, NEW i \in bits[g]
               PROVE  BitRank(bits[g], i) < Len(slot[g])
    BY DEF LookupInside
  <2>1. /\ bits[g] \in SUBSET Int /\ IsFiniteSet(bits[g])
        /\ Cardinality(bits[g]) <= Len(slot[g]) /\ Len(slot[g]) \in Nat
    BY LenProperties DEF IInv, TypeInv, RoomInv
  <2>2. /\ BitRank(bits[g], i) \in Nat /\ Cardinality(bits[g]) \in Nat
        /\ BitRank(bits[g], i) < Cardinality(bits[g])
    BY <2>1, RankBound
  <2>. QED BY <2>1, <2>2
<1>. QED BY <1>1, InitInv, NextInv, PTL DEF Spec

-----------------------------------------------------------------------------
(* As long as no deleted item is reused, the table is a map. *)

\* The positions of the table.
Index == 0 .. Size - 1

-----------------------------------------------------------------------------
(* Positions and ranks. *)

\* A position has a group and a bit, and no other has both.
LEMMA IndexParts ==
  ASSUME NEW i \in Index
  PROVE  /\ GroupOf(i) \in Group /\ Bit(i) \in 0 .. GroupSize - 1
         /\ \A j \in Index : GroupOf(j) = GroupOf(i) /\ Bit(j) = Bit(i) => j = i
<1>1. Size \in Nat \ {0} /\ GroupSize \in Nat \ {0}
  BY HashAssumption DEF HashAssumption
<1>2. ASSUME NEW a \in Nat
      PROVE  /\ a \div GroupSize \in Nat /\ a % GroupSize \in 0 .. GroupSize - 1
             /\ a = GroupSize * (a \div GroupSize) + (a % GroupSize)
  BY <1>1
<1>3. i \in Nat /\ Size + GroupSize - 1 \in Nat
  BY <1>1 DEF Index
<1>4. GroupOf(i) \in Group
  <2> DEFINE q == i \div GroupSize
             Q == (Size + GroupSize - 1) \div GroupSize
             p == GroupSize * q
             P == GroupSize * Q
  <2>1. /\ q \in Nat /\ Q \in Nat /\ p \in Int /\ P \in Int
        /\ p <= i /\ Size <= P
    BY <1>1, <1>2, <1>3
  <2>2. i < Size
    BY <1>1 DEF Index
  <2>3. Q <= q => P <= p
    <3>1. ASSUME NEW x \in Nat, NEW y \in Nat, x <= y PROVE GroupSize * x <= GroupSize * y
      BY <1>1, <3>1
    <3>. QED BY <2>1, <3>1
  <2>4. q \in 0 .. Q - 1
    <3> HIDE DEF q, Q, p, P
    <3>. QED BY <1>1, <1>3, <2>1, <2>2, <2>3
  <2>. QED BY <2>4 DEF GroupOf, Group
<1>5. ASSUME NEW j \in Index, GroupOf(j) = GroupOf(i), Bit(j) = Bit(i) PROVE j = i
  <2>1. j \in Nat
    BY <1>1 DEF Index
  <2>. QED BY <1>2, <1>3, <1>5, <2>1 DEF GroupOf, Bit
<1>. QED BY <1>2, <1>3, <1>4, <1>5 DEF Bit

LEMMA ProbeIndex ==
  ASSUME TypeInv, NEW key \in Key, NEW n \in Probes
  PROVE  Probe(key, n) \in Index
<1>1. Size \in Nat \ {0} /\ hash[key] \in Nat
  BY HashAssumption DEF HashAssumption, TypeInv
<1>2. n \in Nat /\ (n * (n + 1)) \div 2 \in Int
  BY <1>1 DEF Probes
<1>3. hash[key] + (n * (n + 1)) \div 2 \in Int
  BY <1>1, <1>2
<1>. QED BY <1>1, <1>3 DEF Probe, Index

\* Ranks grow from one bit that is set to the next,
LEMMA RankOrder ==
  ASSUME NEW b \in SUBSET Int, IsFiniteSet(b), NEW i \in Int, NEW j \in Int, i < j
  PROVE  /\ BitRank(b, i) <= BitRank(b, j)
         /\ i \in b => BitRank(b, i) < BitRank(b, j)
<1> DEFINE I == {k \in b : k < i}
           J == {k \in b : k < j}
<1>1. IsFiniteSet(J) /\ I \in SUBSET J
  <2>0. \A k \in b : k < i => k < j
    OBVIOUS
  <2>1. J \in SUBSET b /\ I \in SUBSET J
    BY <2>0
  <2>. QED BY <2>1, FS_Subset
<1>2. IsFiniteSet(I) /\ Cardinality(I) <= Cardinality(J)
  BY <1>1, FS_Subset
<1>3. Cardinality(I) \in Nat /\ Cardinality(J) \in Nat
  BY <1>1, <1>2, FS_CardinalityType
<1>4. ASSUME i \in b PROVE Cardinality(I) # Cardinality(J)
  <2>1. i \in J /\ i \notin I
    BY <1>4
  <2>2. I # J
    BY <2>1
  <2> HIDE DEF I, J
  <2>. QED BY <1>1, <2>2, FS_Subset
<1>. QED BY <1>2, <1>3, <1>4 DEF BitRank

\* and a new bit moves those above it up by one.
LEMMA RankAdd ==
  ASSUME NEW b \in SUBSET Int, IsFiniteSet(b), NEW x \in Int, x \notin b, NEW j \in Int
  PROVE  BitRank(b \union {x}, j) = IF x < j THEN BitRank(b, j) + 1 ELSE BitRank(b, j)
<1> DEFINE J == {k \in b : k < j}
           K == {k \in b \union {x} : k < j}
<1>1. IsFiniteSet(J) /\ x \notin J
  BY FS_Subset
<1>2. CASE x < j
  <2>1. K = J \union {x}
    BY <1>2
  <2> HIDE DEF J, K
  <2>2. Cardinality(K) = Cardinality(J) + 1
    BY <1>1, <2>1, FS_AddElement
  <2>. QED BY <1>2, <2>2 DEF BitRank, J, K
<1>3. CASE ~(x < j)
  <2>1. K = J
    BY <1>3
  <2>. QED BY <1>3, <2>1 DEF BitRank
<1>. QED BY <1>2, <1>3

\* What sg_insert leaves where.
LEMMA InsertItems ==
  ASSUME NEW s \in Seq(Item), NEW i \in 1 .. Len(s) + 1, NEW data \in Data,
         NEW k \in 1 .. Len(s) + 1
  PROVE  SgInsert(s, i, data)[k] =
           IF k < i THEN s[k] ELSE IF k = i THEN data ELSE s[k - 1]
<1> DEFINE front == SubSeq(s, 1, i - 1)
           back  == SubSeq(s, i, Len(s))
           mid   == front \o <<data>>
<1>1. Len(s) \in Nat
  BY LenProperties
<1>2. /\ front \in Seq(Item) /\ Len(front) = i - 1
      /\ \A j \in 1 .. i - 1 : front[j] = s[j]
  BY <1>1
<1>3. /\ back \in Seq(Item) /\ Len(back) = Len(s) - i + 1
      /\ \A j \in 1 .. Len(s) - i + 1 : back[j] = s[i + j - 1]
  BY <1>1
<1>4. <<data>> \in Seq(Item) /\ Len(<<data>>) = 1 /\ <<data>>[1] = data
  BY DEF Item
<1> HIDE DEF front, back
<1>5. /\ mid \in Seq(Item) /\ Len(mid) = i
      /\ \A j \in 1 .. i - 1 : mid[j] = s[j]
      /\ mid[i] = data
  <2>1. \A j \in 1 .. Len(front) + 1 :
           mid[j] = IF j <= Len(front) THEN front[j] ELSE <<data>>[j - Len(front)]
    BY <1>2, <1>4, ConcatProperties
  <2>2. mid \in Seq(Item) /\ Len(mid) = i
    BY <1>1, <1>2, <1>4, ConcatProperties
  <2>3. mid[i] = data
    BY <1>1, <1>2, <1>4, <2>1
  <2>4. \A j \in 1 .. i - 1 : mid[j] = s[j]
    BY <1>1, <1>2, <2>1
  <2>. QED BY <2>2, <2>3, <2>4
<1> HIDE DEF mid
<1>6. (mid \o back)[k] = IF k <= i THEN mid[k] ELSE back[k - i]
  BY <1>1, <1>3, <1>5, ConcatProperties
<1>7. SgInsert(s, i, data) = mid \o back
  BY DEF SgInsert, InsertAt, front, back, mid
<1>8. CASE k < i
  BY <1>1, <1>5, <1>6, <1>7, <1>8
<1>9. CASE k = i
  BY <1>1, <1>5, <1>6, <1>7, <1>9
<1>10. CASE k > i
  <2>1. k - i \in 1 .. Len(s) - i + 1 /\ i + (k - i) - 1 = k - 1 /\ ~(k <= i)
    BY <1>1, <1>10
  <2>2. (mid \o back)[k] = back[k - i] /\ back[k - i] = s[k - 1]
    BY <1>3, <1>6, <2>1
  <2>. QED BY <1>7, <1>10, <2>1, <2>2
<1>. QED BY <1>1, <1>8, <1>9, <1>10

-----------------------------------------------------------------------------
(* What a step does to the items at the positions. *)

\* The item of a position in use is inside its array.
LEMMA ElementType ==
  ASSUME IInv, NEW i \in Index
  PROVE  /\ GroupOf(i) \in Group /\ Bit(i) \in Int
         /\ bits[GroupOf(i)] \in SUBSET Int /\ IsFiniteSet(bits[GroupOf(i)])
         /\ slot[GroupOf(i)] \in Seq(Item) /\ Len(slot[GroupOf(i)]) \in Nat
         /\ BitRank(bits[GroupOf(i)], Bit(i)) \in Nat
         /\ Element(i) = BitRank(bits[GroupOf(i)], Bit(i)) + 1
         /\ Element(i) \in 1 .. Len(slot[GroupOf(i)]) + 1
         /\ Occupied(i) => Element(i) \in 1 .. Len(slot[GroupOf(i)]) /\ At(i) \in Item
<1> DEFINE g == GroupOf(i)
           b == bits[g]
           x == Bit(i)
<1>1. g \in Group /\ x \in Int
  BY IndexParts, HashAssumption DEF HashAssumption
<1>2. b \in SUBSET Int /\ slot[g] \in Seq(Item) /\ IsFiniteSet(b) /\ Cardinality(b) <= Len(slot[g])
  BY <1>1 DEF IInv, TypeInv, RoomInv
<1>3. Len(slot[g]) \in Nat
  BY <1>2, LenProperties
<1> HIDE DEF b, x, g
<1>4. /\ BitRank(b, x) \in Nat /\ Cardinality(b) \in Nat
      /\ BitRank(b, x) <= Cardinality(b)
      /\ x \in b => BitRank(b, x) < Cardinality(b)
  BY <1>1, <1>2, RankBound
<1>5. Element(i) = BitRank(b, x) + 1
  BY DEF Element, b, x, g
<1>6. Element(i) \in 1 .. Len(slot[g]) + 1 /\ (x \in b => Element(i) \in 1 .. Len(slot[g]))
  BY <1>2, <1>3, <1>4, <1>5
<1>7. Occupied(i) <=> x \in b
  BY DEF Occupied, x, b, g
<1>8. Occupied(i) => At(i) \in Item
  <2>1. Occupied(i) => slot[g][Element(i)] \in Item
    BY <1>2, <1>6, <1>7, ElementOfSeq
  <2>. QED BY <2>1 DEF At, g
<1>. QED BY <1>1, <1>2, <1>3, <1>4, <1>5, <1>6, <1>7, <1>8 DEF b, x, g

\* Two positions of a group that are in use have different elements.
LEMMA ElementDiffers ==
  ASSUME IInv, NEW i \in Index, NEW j \in Index, Occupied(i), Occupied(j),
         GroupOf(i) = GroupOf(j), i # j
  PROVE  Element(i) # Element(j)
<1> DEFINE b == bits[GroupOf(i)]
           x == Bit(i)
           y == Bit(j)
<1>1. /\ x \in Int /\ y \in Int /\ b \in SUBSET Int /\ IsFiniteSet(b)
      /\ Element(i) = BitRank(b, x) + 1 /\ Element(j) = BitRank(b, y) + 1
      /\ BitRank(b, x) \in Nat /\ BitRank(b, y) \in Nat
  BY ElementType
<1>2. x \in b /\ y \in b
  BY DEF Occupied
<1>3. x # y
  BY IndexParts
<1> HIDE DEF b, x, y
<1>4. CASE x < y
  BY <1>1, <1>2, <1>4, RankOrder
<1>5. CASE y < x
  BY <1>1, <1>2, <1>5, RankOrder
<1>. QED BY <1>1, <1>3, <1>4, <1>5

\* Replacing or erasing the item of one position leaves the others alone.
LEMMA WriteView ==
  ASSUME IInv, NEW i \in Index, Occupied(i), NEW x \in Item, hash' = hash, bits' = bits,
         slot' = [slot EXCEPT ![GroupOf(i)][Element(i)] = x], NEW j \in Index
  PROVE  /\ Occupied(j)' <=> Occupied(j)
         /\ Occupied(j) => At(j)' = IF j = i THEN x ELSE At(j)
<1>1. Occupied(j)' <=> Occupied(j)
  BY DEF Occupied
<1>2. Element(j)' = Element(j)
  BY DEF Element
<1>3. slot'[GroupOf(j)] = IF GroupOf(j) = GroupOf(i)
                          THEN [slot[GroupOf(j)] EXCEPT ![Element(i)] = x]
                          ELSE slot[GroupOf(j)]
  BY ElementType DEF IInv, TypeInv
<1>4. At(j)' = slot'[GroupOf(j)][Element(j)]
  BY <1>2 DEF At
<1>5. ASSUME Occupied(j), GroupOf(j) = GroupOf(i)
      PROVE  [slot[GroupOf(j)] EXCEPT ![Element(i)] = x][Element(j)]
               = IF j = i THEN x ELSE slot[GroupOf(j)][Element(j)]
  <2> DEFINE s == slot[GroupOf(j)]
             k == Element(i)
             m == Element(j)
  <2>1. s \in Seq(Item) /\ k \in 1 .. Len(s) /\ m \in 1 .. Len(s)
    BY <1>5, ElementType
  <2>2. m = k <=> j = i
    BY <1>5, ElementDiffers
  <2> HIDE DEF s, k, m
  <2>3. [s EXCEPT ![k] = x][m] = IF m = k THEN x ELSE s[m]
    BY <2>1, LenProperties
  <2>. QED BY <2>2, <2>3 DEF s, k, m
<1>6. CASE GroupOf(j) = GroupOf(i)
  BY <1>1, <1>3, <1>4, <1>5, <1>6 DEF At
<1>7. CASE GroupOf(j) # GroupOf(i)
  <2>1. j # i
    BY <1>7
  <2>. QED BY <1>1, <1>3, <1>4, <1>7, <2>1 DEF At
<1>. QED BY <1>6, <1>7

\* sg_insert at a position not in use: the others keep their items, although the
\* items behind it move.
LEMMA InsertView ==
  ASSUME IInv, NEW i \in Index, ~Occupied(i), NEW data \in Data, hash' = hash,
         bits' = [bits EXCEPT ![GroupOf(i)] = @ \union {Bit(i)}],
         slot' = [slot EXCEPT ![GroupOf(i)] = SgInsert(@, Element(i), data)],
         NEW j \in Index
  PROVE  /\ Occupied(j)' <=> (Occupied(j) \/ j = i)
         /\ j = i => At(j)' = data
         /\ Occupied(j) => At(j)' = At(j)
<1> DEFINE g == GroupOf(i)
           b == bits[g]
           x == Bit(i)
           s == slot[g]
           k == Element(i)
<1>1. /\ g \in Group /\ x \in Int /\ b \in SUBSET Int /\ IsFiniteSet(b) /\ x \notin b
      /\ s \in Seq(Item) /\ Len(s) \in Nat /\ k \in 1 .. Len(s) + 1
      /\ BitRank(b, x) \in Nat /\ k = BitRank(b, x) + 1
  BY ElementType DEF Occupied
<1>2. /\ bits'[g] = b \union {x} /\ slot'[g] = SgInsert(s, k, data)
      /\ \A h \in Group : h # g => bits'[h] = bits[h] /\ slot'[h] = slot[h]
  BY <1>1 DEF IInv, TypeInv
<1>3. GroupOf(j) \in Group
  BY IndexParts
<1>4. CASE GroupOf(j) # g
  <2>1. j # i
    BY <1>4
  <2>. QED BY <1>2, <1>3, <1>4, <2>1 DEF Occupied, At, Element
<1>5. CASE GroupOf(j) = g
  <2> DEFINE y == Bit(j)
             m == Element(j)
  <2>1. /\ y \in Int /\ BitRank(b, y) \in Nat /\ m = BitRank(b, y) + 1
        /\ m \in 1 .. Len(s) + 1 /\ (y \in b => m \in 1 .. Len(s))
    BY <1>5, ElementType DEF Occupied
  <2>2. j = i <=> y = x
    BY <1>5, IndexParts
  <2>3. /\ Occupied(j)' <=> y \in b \union {x}
        /\ Occupied(j) <=> y \in b
        /\ Element(j)' = BitRank(b \union {x}, y) + 1
        /\ At(j)' = SgInsert(s, k, data)[BitRank(b \union {x}, y) + 1]
        /\ At(j) = s[m]
    BY <1>2, <1>5 DEF Occupied, Element, At
  <2>4. BitRank(b \union {x}, y) = IF x < y THEN BitRank(b, y) + 1 ELSE BitRank(b, y)
    BY <1>1, <2>1, RankAdd
  <2> HIDE DEF g, b, x, s, k, y, m
  <2>5. CASE y = x
    <3>1. BitRank(b \union {x}, y) + 1 = k
      BY <1>1, <2>1, <2>4, <2>5
    <3>2. SgInsert(s, k, data)[k] = data
      BY <1>1, InsertItems
    <3>. QED BY <1>1, <2>2, <2>3, <2>5, <3>1, <3>2
  <2>6. CASE y < x
    <3>1. BitRank(b \union {x}, y) + 1 = m /\ y # x
      BY <1>1, <2>1, <2>4, <2>6
    <3>2. y \in b => m < k
      BY <1>1, <2>1, <2>6, RankOrder
    <3>3. y \in b => SgInsert(s, k, data)[m] = s[m]
      BY <1>1, <2>1, <3>2, InsertItems
    <3>. QED BY <2>2, <2>3, <3>1, <3>3
  <2>7. CASE x < y
    <3>1. BitRank(b \union {x}, y) + 1 = m + 1 /\ y # x
      BY <1>1, <2>1, <2>4, <2>7
    <3>2. k <= m
      BY <1>1, <2>1, <2>7, RankOrder
    <3>3. ASSUME y \in b PROVE SgInsert(s, k, data)[m + 1] = s[m]
      <4>1. m + 1 \in 1 .. Len(s) + 1 /\ ~(m + 1 < k) /\ m + 1 # k /\ m + 1 - 1 = m
        BY <1>1, <2>1, <3>2, <3>3
      <4>2. \A n \in 1 .. Len(s) + 1 : n > k => SgInsert(s, k, data)[n] = s[n - 1]
        BY <1>1, InsertItems
      <4>. QED BY <1>1, <2>1, <4>1, <4>2
    <3>. QED BY <2>2, <2>3, <3>1, <3>3
  <2>. QED BY <1>1, <2>1, <2>5, <2>6, <2>7
<1>. QED BY <1>4, <1>5

-----------------------------------------------------------------------------
(* The inductive invariant, and what hash_get finds by it. *)

LiveAt(i) == Occupied(i) /\ At(i) # Null

\* A search for key comes to position i: all positions before it are in use.
Reached(key, i) ==
    \E n \in Probes : /\ Probe(key, n) = i
                      /\ \A m \in 0 .. n - 1 : /\ Occupied(Probe(key, m))
                                               /\ Probe(key, m) # i

\* No item is cut off from its key by a position that is not in use,
ReachInv == \A i \in Index : LiveAt(i) => Reached(KeyOf(At(i)), i)

\* and no key has two items.
UniqueInv ==
    \A i, j \in Index : LiveAt(i) /\ LiveAt(j) /\ KeyOf(At(i)) = KeyOf(At(j)) => i = j

MapInv == IInv /\ ReachInv /\ UniqueInv

\* hash_get returns the item of the key at whichever position it is.
GetExact ==
    \A key \in Key :
      \/ \E i \in Index : Matches(key, i) /\ Get(key) = At(i)
      \/ (\A i \in Index : ~Matches(key, i)) /\ Get(key) = Null

\* A search that ends stops at one of its probes.
LEMMA SearchEnds ==
  ASSUME IInv, NEW key \in Key, Terminates(key)
  PROVE  /\ LastProbe(key) \in Probes /\ Position(key) \in Index
         /\ ~Passes(key, Position(key))
         /\ \A m \in 0 .. LastProbe(key) - 1 : Passes(key, Probe(key, m))
<1> DEFINE T == {n \in Probes : ~Passes(key, Probe(key, n))}
<1>1. T # {}
  BY DEF Terminates
<1>2. PICK n \in Probes : n \in T /\ \A m \in 0 .. n - 1 : m \notin T
  BY <1>1, FirstProbe
<1>3. 0 .. n - 1 \subseteq Probes
  BY HashAssumption DEF Probes
<1>4. \E k \in Probes : /\ ~Passes(key, Probe(key, k))
                        /\ \A m \in 0 .. k - 1 : Passes(key, Probe(key, m))
  BY <1>2, <1>3
<1>5. /\ LastProbe(key) \in Probes /\ ~Passes(key, Position(key))
      /\ \A m \in 0 .. LastProbe(key) - 1 : Passes(key, Probe(key, m))
  BY <1>4, Zenon DEF LastProbe, Position
<1>6. Position(key) \in Index
  BY <1>5, ProbeIndex DEF Position, IInv
<1>. QED BY <1>5, <1>6

\* An item of the key is where the search stops.
LEMMA SearchFinds ==
  ASSUME MapInv, NEW key \in Key, NEW i \in Index, Matches(key, i)
  PROVE  Found(key) /\ Position(key) = i
<1>1. PICK n \in Probes : /\ Probe(key, n) = i
                          /\ \A m \in 0 .. n - 1 : /\ Occupied(Probe(key, m))
                                                   /\ Probe(key, m) # i
  BY DEF MapInv, ReachInv, Reached, LiveAt, Matches
<1>2. 0 .. n - 1 \subseteq Probes /\ n \in Nat
  BY HashAssumption DEF Probes
<1>3. \A m \in 0 .. n - 1 : Passes(key, Probe(key, m))
  <2> SUFFICES ASSUME NEW m \in 0 .. n - 1 PROVE ~Matches(key, Probe(key, m))
    BY <1>1 DEF Passes
  <2>1. Probe(key, m) \in Index
    BY <1>2, ProbeIndex DEF MapInv, IInv
  <2>. QED BY <1>1, <2>1 DEF MapInv, UniqueInv, LiveAt, Matches
<1>4. ~Passes(key, Probe(key, n))
  BY <1>1 DEF Passes
<1>5. Terminates(key)
  BY <1>4 DEF Terminates
<1>6. /\ LastProbe(key) \in Probes /\ ~Passes(key, Probe(key, LastProbe(key)))
      /\ \A m \in 0 .. LastProbe(key) - 1 : Passes(key, Probe(key, m))
  BY <1>5, SearchEnds DEF MapInv, Position
<1>7. LastProbe(key) = n
  <2>1. LastProbe(key) \in Nat
    BY <1>6 DEF Probes
  <2>2. ~(LastProbe(key) < n)
    BY <1>2, <1>3, <1>6, <2>1
  <2>3. ~(n < LastProbe(key))
    BY <1>2, <1>4, <1>6, <2>1
  <2>. QED BY <1>2, <2>1, <2>2, <2>3
<1>8. Position(key) = i
  BY <1>1, <1>7 DEF Position
<1>. QED BY <1>5, <1>8 DEF Found

LEMMA LookupExact == MapInv => GetExact
<1> SUFFICES ASSUME MapInv, NEW key \in Key
             PROVE  \/ \E i \in Index : Matches(key, i) /\ Get(key) = At(i)
                    \/ (\A i \in Index : ~Matches(key, i)) /\ Get(key) = Null
  BY DEF GetExact
<1>1. CASE \E i \in Index : Matches(key, i)
  <2>1. PICK i \in Index : Matches(key, i)
    BY <1>1
  <2>2. Found(key) /\ Position(key) = i
    BY <2>1, SearchFinds
  <2>. QED BY <2>1, <2>2 DEF Get
<1>2. CASE \A i \in Index : ~Matches(key, i)
  <2>1. ~Found(key)
    BY <1>2, SearchEnds DEF Found, MapInv
  <2>. QED BY <1>2, <2>1 DEF Get
<1>. QED BY <1>1, <1>2

\* A key that is not found has no item, and hash_mark gives a position for it to which
\* its search comes.
LEMMA MarkReached ==
  ASSUME MapInv, NEW key \in Key, Absent(key), ~Occupied(Mark(key))
  PROVE  Mark(key) \in Index /\ Reached(key, Mark(key)) /\ \A i \in Index : ~Matches(key, i)
<1>1. \A i \in Index : ~Matches(key, i)
  BY SearchFinds DEF Absent, Found
<1>2. LastProbe(key) \in Probes /\ Usable(Probe(key, LastProbe(key)))
  BY SearchEnds DEF Absent, Passes, Usable, Position, MapInv
<1> DEFINE T == {n \in Probes : Usable(Probe(key, n))}
<1>3. T # {}
  BY <1>2
<1>4. PICK n \in Probes : n \in T /\ \A m \in 0 .. n - 1 : m \notin T
  BY <1>3, FirstProbe
<1>5. 0 .. n - 1 \subseteq Probes
  BY HashAssumption DEF Probes
<1>6. \E k \in Probes : /\ Usable(Probe(key, k))
                        /\ \A m \in 0 .. k - 1 : ~Usable(Probe(key, m))
  BY <1>4, <1>5
<1>7. MarkProbe(key) \in Probes /\ \A m \in 0 .. MarkProbe(key) - 1 : ~Usable(Probe(key, m))
  BY <1>6, Zenon DEF MarkProbe
<1>8. Mark(key) \in Index
  BY <1>7, ProbeIndex DEF Mark, MapInv, IInv
<1>9. \A m \in 0 .. MarkProbe(key) - 1 : Occupied(Probe(key, m)) /\ Probe(key, m) # Mark(key)
  BY <1>7 DEF Usable
<1>. QED BY <1>1, <1>7, <1>8, <1>9 DEF Reached, Mark

-----------------------------------------------------------------------------
(* The invariant is inductive, and every step is a change of one key. *)

\* Positions stay in use, so that what was reached still is.
LEMMA ReachedStays ==
  ASSUME TypeInv, hash' = hash, \A j \in Index : Occupied(j) => Occupied(j)',
         NEW key \in Key, NEW i, Reached(key, i)
  PROVE  Reached(key, i)'
<1>1. \A n : Probe(key, n)' = Probe(key, n)
  BY DEF Probe
<1>2. PICK n \in Probes : /\ Probe(key, n) = i
                          /\ \A m \in 0 .. n - 1 : /\ Occupied(Probe(key, m))
                                                   /\ Probe(key, m) # i
  BY DEF Reached
<1>3. 0 .. n - 1 \subseteq Probes
  BY HashAssumption DEF Probes
<1>4. \A m \in 0 .. n - 1 : Occupied(Probe(key, m))'
  BY <1>1, <1>2, <1>3, ProbeIndex
<1>. QED BY <1>1, <1>2, <1>4 DEF Reached

\* A step that makes x the item of key, at position i, and touches no other item.
Sets(key, i, x) ==
    /\ hash' = hash
    /\ \A j \in Index : Occupied(j) => Occupied(j)'
    /\ \A j \in Index \ {i} : /\ LiveAt(j)' <=> LiveAt(j)
                              /\ LiveAt(j) => At(j)' = At(j)
    /\ \A j \in Index : Matches(key, j) => j = i
    /\ LiveAt(i) => KeyOf(At(i)) = key
    /\ x = Null => ~LiveAt(i)'
    /\ x # Null => /\ LiveAt(i)' /\ At(i)' = x
                   /\ x \in Data /\ KeyOf(x) = key /\ Reached(key, i)

LEMMA LiveType ==
  ASSUME IInv, NEW i \in Index, LiveAt(i)
  PROVE  At(i) \in Data /\ KeyOf(At(i)) \in Key
<1>1. At(i) \in Data
  BY ElementType DEF LiveAt, Item
<1>. QED BY <1>1 DEF Data, KeyOf

LEMMA SetsInv ==
  ASSUME MapInv, IInv', NEW key \in Key, NEW i \in Index, NEW x, Sets(key, i, x)
  PROVE  MapInv'
<1>1. ASSUME NEW j \in Index, LiveAt(j)' PROVE Reached(KeyOf(At(j)), j)'
  <2>1. CASE j = i
    <3>1. At(j)' = x /\ x \in Data /\ KeyOf(x) = key /\ Reached(key, j)
      BY <1>1, <2>1 DEF Sets
    <3>2. Reached(key, j)'
      BY <3>1, ReachedStays DEF Sets, MapInv, IInv
    <3>3. KeyOf(At(j))' = key
      BY <3>1 DEF KeyOf
    <3>. QED BY <3>2, <3>3
  <2>2. CASE j # i
    <3>1. LiveAt(j) /\ At(j)' = At(j)
      BY <1>1, <2>2 DEF Sets
    <3>2. Reached(KeyOf(At(j)), j) /\ KeyOf(At(j)) \in Key
      BY <3>1, LiveType DEF MapInv, ReachInv
    <3>3. PICK k \in Key : k = KeyOf(At(j))
      BY <3>2
    <3>4. KeyOf(At(j))' = k
      BY <3>1, <3>3 DEF KeyOf
    <3>5. Reached(k, j)'
      BY <3>2, <3>3, ReachedStays DEF Sets, MapInv, IInv
    <3>. QED BY <3>4, <3>5
  <2>. QED BY <2>1, <2>2
<1>2. ASSUME NEW j \in Index, LiveAt(j)', KeyOf(At(j)') = key PROVE j = i
  BY <1>2 DEF Sets, Matches, LiveAt
<1>3. ASSUME NEW j \in Index, NEW k \in Index, LiveAt(j)', LiveAt(k)',
             KeyOf(At(j)') = KeyOf(At(k)')
      PROVE  j = k
  <2>1. CASE j = i \/ k = i
    <3>1. LiveAt(i)' => KeyOf(At(i)') = key
      BY DEF Sets
    <3>. QED BY <1>2, <1>3, <2>1, <3>1
  <2>2. CASE j # i /\ k # i
    BY <1>3, <2>2 DEF Sets, MapInv, UniqueInv
  <2>. QED BY <2>1, <2>2
<1>4. ReachInv'
  BY <1>1 DEF ReachInv
<1>5. UniqueInv'
  BY <1>3 DEF UniqueInv, KeyOf
<1>. QED BY <1>4, <1>5 DEF MapInv

LEMMA SetsGet ==
  ASSUME MapInv, IInv', NEW key \in Key, NEW i \in Index, NEW x, Sets(key, i, x)
  PROVE  /\ Get(key)' = x
         /\ \A k \in Key \ {key} : Get(k)' = Get(k)
<1>1. GetExact /\ GetExact' /\ UniqueInv /\ UniqueInv'
  <2>1. MapInv'
    BY SetsInv
  <2>2. GetExact
    BY LookupExact
  <2>3. GetExact'
    BY <2>1, LookupExact, PTL
  <2>. QED BY <2>1, <2>2, <2>3 DEF MapInv
<1>2. \A k, j : Matches(k, j) <=> LiveAt(j) /\ KeyOf(At(j)) = k
  BY DEF Matches, LiveAt
<1>3. \A k, j : Matches(k, j)' <=> LiveAt(j)' /\ KeyOf(At(j)') = k
  BY DEF Matches, LiveAt, KeyOf
<1>4. \A j \in Index : Matches(key, j)' => j = i
  BY <1>2, <1>3 DEF Sets
<1>5. Get(key)' = x
  <2>1. \/ \E j \in Index : Matches(key, j)' /\ Get(key)' = At(j)'
        \/ (\A j \in Index : ~Matches(key, j)') /\ Get(key)' = Null
    BY <1>1 DEF GetExact
  <2>2. CASE x = Null
    <3>1. \A j \in Index : ~Matches(key, j)'
      BY <1>3, <1>4, <2>2 DEF Sets
    <3>. QED BY <2>1, <2>2, <3>1
  <2>3. CASE x # Null
    <3>1. Matches(key, i)' /\ At(i)' = x
      BY <1>3, <2>3 DEF Sets
    <3>. QED BY <1>4, <2>1, <3>1
  <2>. QED BY <2>2, <2>3
<1>6. ASSUME NEW k \in Key \ {key} PROVE Get(k)' = Get(k)
  <2>1. \/ \E j \in Index : Matches(k, j)' /\ Get(k)' = At(j)'
        \/ (\A j \in Index : ~Matches(k, j)') /\ Get(k)' = Null
    BY <1>1 DEF GetExact
  <2>2. \/ \E j \in Index : Matches(k, j) /\ Get(k) = At(j)
        \/ (\A j \in Index : ~Matches(k, j)) /\ Get(k) = Null
    BY <1>1 DEF GetExact
  <2>3. ASSUME NEW j \in Index
        PROVE  /\ Matches(k, j)' <=> Matches(k, j)
               /\ Matches(k, j) => At(j)' = At(j)
    <3>1. CASE j = i
      BY <1>2, <1>3, <3>1 DEF Sets
    <3>2. CASE j # i
      BY <1>2, <1>3, <3>2 DEF Sets
    <3>. QED BY <3>1, <3>2
  <2>4. \A j, m \in Index : Matches(k, j) /\ Matches(k, m) => j = m
    BY <1>1, <1>2 DEF UniqueInv
  <2>. QED BY <2>1, <2>2, <2>3, <2>4
<1>. QED BY <1>5, <1>6

-----------------------------------------------------------------------------
(* The steps. *)

\* Writing an item of the key, or NULL, at the position where the key was found.
LEMMA WriteSets ==
  ASSUME MapInv, NEW key \in Key, Found(key), NEW x \in Item,
         x = Null \/ KeyOf(x) = key, hash' = hash, bits' = bits,
         slot' = [slot EXCEPT ![GroupOf(Position(key))][Element(Position(key))] = x]
  PROVE  IInv' /\ \E i \in Index : LiveAt(i) /\ Sets(key, i, x)
<1>1. Position(key) \in Index /\ Matches(key, Position(key)) /\ IInv
  BY SearchEnds DEF Found, MapInv
<1>2. PICK i \in Index : i = Position(key)
  BY <1>1
<1>3. LiveAt(i) /\ KeyOf(At(i)) = key /\ Occupied(i)
  BY <1>1, <1>2 DEF Matches, LiveAt
<1>4. Reached(key, i)
  BY <1>3 DEF MapInv, ReachInv
<1>5. \A j \in Index : Matches(key, j) => j = i
  BY <1>2, SearchFinds
<1>6. slot' = [slot EXCEPT ![GroupOf(i)][Element(i)] = x]
  BY <1>2
<1>7. IInv'
  BY <1>1, <1>6, WriteInv
<1>8. ASSUME NEW j \in Index
      PROVE  /\ Occupied(j)' <=> Occupied(j)
             /\ Occupied(j) => At(j)' = IF j = i THEN x ELSE At(j)
  BY <1>1, <1>3, <1>6, WriteView
<1>9. \A j \in Index \ {i} : (LiveAt(j)' <=> LiveAt(j)) /\ (LiveAt(j) => At(j)' = At(j))
  BY <1>8 DEF LiveAt
<1>10. At(i)' = x /\ Occupied(i)'
  BY <1>3, <1>8
<1>11. x # Null => x \in Data
  BY DEF Item
<1>12. Sets(key, i, x)
  BY <1>3, <1>4, <1>5, <1>8, <1>9, <1>10, <1>11 DEF Sets, LiveAt
<1>. QED BY <1>3, <1>7, <1>12

\* Inserting a new key where hash_mark says, when that is not a deleted item's place.
LEMMA PutNewSets ==
  ASSUME MapInv, NEW data \in Data, PutNew(data), Reuse = FALSE
  PROVE  IInv' /\ \E i \in Index : ~LiveAt(i) /\ Sets(KeyOf(data), i, data)
<1> DEFINE key == KeyOf(data)
<1>1. key \in Key /\ data # Null
  BY HashAssumption DEF HashAssumption, Data, KeyOf
<1>2. ~Occupied(Mark(key)) /\ Absent(key) /\ hash' = hash
  BY DEF PutNew
<1>3. Mark(key) \in Index /\ Reached(key, Mark(key)) /\ \A j \in Index : ~Matches(key, j)
  BY <1>1, <1>2, MarkReached
<1>4. PICK i \in Index : i = Mark(key)
  BY <1>3
<1>5. /\ slot' = [slot EXCEPT ![GroupOf(i)] = SgInsert(@, Element(i), data)]
      /\ bits' = [bits EXCEPT ![GroupOf(i)] = @ \union {Bit(i)}]
  BY <1>4 DEF PutNew
<1>6. ~Occupied(i) /\ ~LiveAt(i) /\ Reached(key, i)
  BY <1>2, <1>3, <1>4 DEF LiveAt
<1> HIDE DEF key
<1>7. ASSUME NEW j \in Index
      PROVE  /\ Occupied(j)' <=> (Occupied(j) \/ j = i)
             /\ j = i => At(j)' = data
             /\ Occupied(j) => At(j)' = At(j)
  BY <1>2, <1>5, <1>6, InsertView DEF MapInv
<1>8. \A j \in Index \ {i} : (LiveAt(j)' <=> LiveAt(j)) /\ (LiveAt(j) => At(j)' = At(j))
  BY <1>7 DEF LiveAt
<1>9. LiveAt(i)' /\ At(i)' = data
  BY <1>1, <1>7 DEF LiveAt
<1>10. \A j \in Index : Occupied(j) => Occupied(j)'
  BY <1>7
<1>11. Sets(key, i, data)
  BY <1>1, <1>2, <1>3, <1>6, <1>8, <1>9, <1>10 DEF Sets, key
<1>12. IInv'
  BY PutNewInv DEF MapInv
<1>. QED BY <1>6, <1>11, <1>12 DEF key

\* items, which decides when the table is resized, is the number of items.
LiveSet == {i \in Index : LiveAt(i)}

CountInv == items = Cardinality(LiveSet) /\ items <= max

BitsInv == lost \in BOOLEAN /\ bits \in [Group -> SUBSET (0 .. GroupSize - 1)]

TableInv == MapInv /\ CountInv /\ BitsInv

LEMMA LiveSetType ==
  IsFiniteSet(LiveSet) /\ Cardinality(LiveSet) \in Nat
<1>1. IsFiniteSet(Index)
  BY HashAssumption, FS_Interval DEF HashAssumption, Index
<1>2. LiveSet \in SUBSET Index
  BY DEF LiveSet
<1>3. IsFiniteSet(LiveSet)
  BY <1>1, <1>2, FS_Subset
<1>. QED BY <1>3, FS_CardinalityType

LEMMA SetsCount ==
  ASSUME NEW key, NEW i \in Index, NEW x, Sets(key, i, x)
  PROVE  Cardinality(LiveSet') = Cardinality(LiveSet)
           + (IF x # Null /\ ~LiveAt(i) THEN 1 ELSE IF x = Null /\ LiveAt(i) THEN -1 ELSE 0)
<1>1. \A j \in Index : j # i => (LiveAt(j)' <=> LiveAt(j))
  BY DEF Sets
<1>2. LiveAt(i)' <=> x # Null
  BY DEF Sets
<1>3. i \in LiveSet <=> LiveAt(i)
  BY DEF LiveSet
<1>4. CASE x # Null
  <2>1. LiveSet' = LiveSet \union {i}
    BY <1>1, <1>2, <1>4 DEF LiveSet
  <2>2. Cardinality(LiveSet') =
          IF i \in LiveSet THEN Cardinality(LiveSet) ELSE Cardinality(LiveSet) + 1
    BY <2>1, LiveSetType, FS_AddElement
  <2>. QED BY <1>3, <1>4, <2>2, LiveSetType
<1>5. CASE x = Null
  <2>1. LiveSet' = LiveSet \ {i}
    BY <1>1, <1>2, <1>5 DEF LiveSet
  <2>2. Cardinality(LiveSet') =
          IF i \in LiveSet THEN Cardinality(LiveSet) - 1 ELSE Cardinality(LiveSet)
    BY <2>1, LiveSetType, FS_RemoveElement
  <2>. QED BY <1>3, <1>5, <2>2, LiveSetType
<1>. QED BY <1>4, <1>5

LEMMA TableInit == Init => TableInv
<1> SUFFICES ASSUME Init PROVE TableInv
  OBVIOUS
<1>1. IInv
  BY InitInv
<1>2. \A i \in Index : ~Occupied(i) /\ ~LiveAt(i)
  BY IndexParts DEF Init, Occupied, LiveAt
<1>3. MapInv
  BY <1>1, <1>2 DEF MapInv, ReachInv, UniqueInv
<1>4. LiveSet = {}
  BY <1>2 DEF LiveSet
<1>5. items = Cardinality(LiveSet)
  BY <1>4, FS_EmptySet DEF Init
<1>6. 0 <= max
  BY HashAssumption DEF HashAssumption, max
<1>7. CountInv
  BY <1>5, <1>6 DEF CountInv, Init
<1>8. BitsInv
  BY DEF Init, BitsInv
<1>. QED BY <1>3, <1>7, <1>8 DEF TableInv

\* What a step that sets the item of a key is for KeyMap, whatever call it belongs to.
LEMMA SetsMap ==
  ASSUME MapInv, IInv', NEW key \in Key, NEW i \in Index, NEW x, Sets(key, i, x)
  PROVE  [k \in Key |-> Get(k)]' = [[k \in Key |-> Get(k)] EXCEPT ![key] = x]
<1>1. Get(key)' = x /\ \A k \in Key \ {key} : Get(k)' = Get(k)
  BY SetsGet
<1>. QED BY <1>1

LEMMA TableNext ==
  ASSUME Reuse = FALSE, TableInv, [Next]_vars
  PROVE  TableInv' /\ [Map!Next]_<<op, [key \in Key |-> Get(key)]>>
<1> DEFINE Goal == TableInv' /\ (\/ Map!Next
                                \/ UNCHANGED <<op, [key \in Key |-> Get(key)]>>)
<1>0. /\ MapInv /\ IInv /\ BitsInv /\ items = Cardinality(LiveSet) /\ items <= max
      /\ items \in Nat /\ max \in Nat
  <2>1. max \in Nat
    BY HashAssumption DEF HashAssumption, max
  <2>. QED BY <2>1, LiveSetType DEF TableInv, MapInv, CountInv
<1>1. ASSUME NEW data \in Data, PutReplace(data) PROVE Goal
  <2>1. KeyOf(data) \in Key /\ data \in Item /\ data # Null
    BY HashAssumption DEF HashAssumption, Data, KeyOf, Item
  <2>2. IInv' /\ \E i \in Index : LiveAt(i) /\ Sets(KeyOf(data), i, data)
    BY <1>0, <1>1, <2>1, WriteSets DEF PutReplace
  <2>3. PICK i \in Index : LiveAt(i) /\ Sets(KeyOf(data), i, data)
    BY <2>2
  <2>4. MapInv' /\ Map!Put(data)
    BY <1>0, <1>1, <2>1, <2>2, <2>3, SetsInv, SetsMap
    DEF PutReplace, Map!Put, Map!KeyOf, KeyOf
  <2>6. Map!Next
    BY <2>4 DEF Map!Next, Map!Data, Data
  <2>5. Cardinality(LiveSet') = Cardinality(LiveSet)
    BY <2>1, <2>3, SetsCount, LiveSetType
  <2>. QED BY <1>0, <1>1, <2>4, <2>5, <2>6 DEF PutReplace, TableInv, CountInv, BitsInv
<1>2. ASSUME NEW data \in Data, PutNew(data) PROVE Goal
  <2>1. KeyOf(data) \in Key /\ data # Null
    BY HashAssumption DEF HashAssumption, Data, KeyOf
  <2>2. IInv' /\ \E i \in Index : ~LiveAt(i) /\ Sets(KeyOf(data), i, data)
    BY <1>0, <1>2, PutNewSets
  <2>3. PICK i \in Index : ~LiveAt(i) /\ Sets(KeyOf(data), i, data)
    BY <2>2
  <2>4. MapInv' /\ Map!Put(data)
    BY <1>0, <1>2, <2>1, <2>2, <2>3, SetsInv, SetsMap
    DEF PutNew, Map!Put, Map!KeyOf, KeyOf
  <2>9. Map!Next
    BY <2>4 DEF Map!Next, Map!Data, Data
  <2>5. Cardinality(LiveSet') = items + 1
    BY <1>0, <2>1, <2>3, SetsCount
  <2>6. items' = items + 1 /\ items # max /\ lost' = lost
    BY <1>2 DEF PutNew
  <2>7. CountInv'
    BY <1>0, <2>5, <2>6 DEF CountInv, max
  <2>8. BitsInv'
    <3> DEFINE index == Mark(KeyOf(data))
    <3>1. bits' = [bits EXCEPT ![GroupOf(index)] = @ \union {Bit(index)}]
      BY <1>2 DEF PutNew
    <3>2. Bit(index) \in 0 .. GroupSize - 1
      <4>1. index \in Index
        BY <1>0, <1>2, <2>1, MarkReached DEF PutNew
      <4>. QED BY <4>1, IndexParts
    <3> HIDE DEF index
    <3>. QED BY <1>0, <2>6, <3>1, <3>2 DEF BitsInv
  <2>. QED BY <2>4, <2>7, <2>8, <2>9 DEF TableInv
<1>3. ASSUME UNCHANGED <<hash, bits, slot, items, op>>, lost' \in BOOLEAN PROVE Goal
  <2>1. TableInv'
    BY <1>0, <1>3 DEF TableInv, MapInv, IInv, TypeInv, RoomInv, ReachInv, UniqueInv, Reached,
       LiveAt, Occupied, At, Element, Probe, CountInv, LiveSet, BitsInv
  <2>2. \A key : Get(key)' = Get(key)
    BY <1>3 DEF Get, Found, Terminates, Matches, Passes, Position, LastProbe, Occupied, At,
                Element, Probe
  <2>. QED BY <1>3, <2>1, <2>2
<1>4. ASSUME NEW key \in Key, Found(key), Erase(key), items' = items - 1,
             op' = <<"delete", key, Get(key)>>, UNCHANGED <<hash, bits>>, lost' \in BOOLEAN
      PROVE  Goal
  <2>1. IInv' /\ \E i \in Index : LiveAt(i) /\ Sets(key, i, Null)
    BY <1>0, <1>4, WriteSets DEF Erase, Item
  <2>2. PICK i \in Index : LiveAt(i) /\ Sets(key, i, Null)
    BY <2>1
  <2>3. MapInv' /\ Map!Delete(key)
    BY <1>0, <1>4, <2>1, <2>2, SetsInv, SetsMap DEF Map!Delete
  <2>4. Cardinality(LiveSet') = items - 1
    BY <1>0, <2>2, SetsCount
  <2>5. CountInv' /\ BitsInv'
    BY <1>0, <1>4, <2>4 DEF CountInv, BitsInv, max
  <2>. QED BY <2>3, <2>5 DEF TableInv, Map!Next
<1>5. ASSUME NEW data \in Data, PutResize(data) PROVE Goal
  BY <1>3, <1>5 DEF PutResize
<1>6. ASSUME NEW key \in Key, Delete(key) \/ DeleteResize(key) PROVE Goal
  BY <1>0, <1>4, <1>6 DEF Delete, DeleteResize, BitsInv
<1>7. CASE UNCHANGED vars
  BY <1>0, <1>3, <1>7 DEF vars, BitsInv
<1>8. Goal
  BY <1>1, <1>2, <1>5, <1>6, <1>7 DEF Next
<1>. QED BY <1>8

-----------------------------------------------------------------------------
(* An iteration visits every item once. *)

\* Every element of an array belongs to a position in use.  Reuse of a deleted
\* position would break this: sg_insert adds an element and no bit.
CoverInv ==
    \A g \in Group : \A e \in 1 .. Len(slot[g]) :
      \E i \in Index : GroupOf(i) = g /\ Occupied(i) /\ Element(i) = e

\* Replacing or erasing one item,
LEMMA WriteCover ==
  ASSUME IInv, CoverInv, NEW g, NEW e, NEW x \in Item, bits' = bits,
         slot' = [slot EXCEPT ![g][e] = x]
  PROVE  CoverInv'
<1> SUFFICES ASSUME NEW h \in Group, NEW d \in 1 .. Len(slot'[h])
             PROVE  \E i \in Index : GroupOf(i) = h /\ Occupied(i)' /\ Element(i)' = d
  BY DEF CoverInv
<1>1. slot[h] \in Seq(Item)
  BY DEF IInv, TypeInv
<1>2. slot'[h] = IF h = g THEN [slot[h] EXCEPT ![e] = x] ELSE slot[h]
  BY DEF IInv, TypeInv
<1>3. Len(slot'[h]) = Len(slot[h])
  BY <1>1, <1>2, WriteLength
<1>4. PICK i \in Index : GroupOf(i) = h /\ Occupied(i) /\ Element(i) = d
  BY <1>3 DEF CoverInv
<1>. QED BY <1>4 DEF Occupied, Element

\* and sg_insert at a position not in use: the elements behind it move with the
\* ranks of their positions.
LEMMA InsertCover ==
  ASSUME IInv, CoverInv, NEW i \in Index, ~Occupied(i), NEW data \in Data,
         bits' = [bits EXCEPT ![GroupOf(i)] = @ \union {Bit(i)}],
         slot' = [slot EXCEPT ![GroupOf(i)] = SgInsert(@, Element(i), data)]
  PROVE  CoverInv'
<1> DEFINE g == GroupOf(i)
           b == bits[g]
           x == Bit(i)
           s == slot[g]
           k == Element(i)
<1>1. /\ g \in Group /\ x \in Int /\ b \in SUBSET Int /\ IsFiniteSet(b) /\ x \notin b
      /\ s \in Seq(Item) /\ Len(s) \in Nat /\ k \in 1 .. Len(s) + 1
      /\ BitRank(b, x) \in Nat /\ k = BitRank(b, x) + 1
  BY ElementType DEF Occupied
<1>2. /\ bits'[g] = b \union {x} /\ slot'[g] = SgInsert(s, k, data)
      /\ \A h \in Group : h # g => bits'[h] = bits[h] /\ slot'[h] = slot[h]
  BY <1>1 DEF IInv, TypeInv
<1>3. Len(slot'[g]) = Len(s) + 1
  BY <1>1, <1>2, InsertLength
<1> SUFFICES ASSUME NEW h \in Group, NEW e \in 1 .. Len(slot'[h])
             PROVE  \E j \in Index : GroupOf(j) = h /\ Occupied(j)' /\ Element(j)' = e
  BY DEF CoverInv
<1>4. CASE h # g
  <2>1. e \in 1 .. Len(slot[h])
    BY <1>2, <1>4
  <2>2. PICK j \in Index : GroupOf(j) = h /\ Occupied(j) /\ Element(j) = e
    BY <2>1 DEF CoverInv
  <2>. QED BY <1>2, <1>4, <2>2 DEF Occupied, Element
<1>5. CASE h = g
  <2>0. e \in 1 .. Len(s) + 1
    BY <1>3, <1>5
  <2>1. ASSUME NEW j \in Index, GroupOf(j) = g
        PROVE  /\ Bit(j) \in Int /\ BitRank(b, Bit(j)) \in Nat
               /\ Element(j) = BitRank(b, Bit(j)) + 1
               /\ Occupied(j) <=> Bit(j) \in b
               /\ Occupied(j)' <=> Bit(j) \in b \union {x}
               /\ Element(j)' = IF x < Bit(j) THEN Element(j) + 1 ELSE Element(j)
    <3>1. /\ Bit(j) \in Int /\ BitRank(b, Bit(j)) \in Nat
          /\ Element(j) = BitRank(b, Bit(j)) + 1
      BY <2>1, ElementType
    <3>2. (Occupied(j) <=> Bit(j) \in b) /\ (Occupied(j)' <=> Bit(j) \in b \union {x})
      BY <1>2, <2>1 DEF Occupied
    <3>3. Element(j)' = BitRank(b \union {x}, Bit(j)) + 1
      BY <1>2, <2>1 DEF Element
    <3>4. BitRank(b \union {x}, Bit(j)) =
            IF x < Bit(j) THEN BitRank(b, Bit(j)) + 1 ELSE BitRank(b, Bit(j))
      BY <1>1, <3>1, RankAdd
    <3> HIDE DEF b, x
    <3>. QED BY <3>1, <3>2, <3>3, <3>4
  <2>2. CASE e = k
    BY <1>1, <1>5, <2>1, <2>2
  <2>3. CASE e < k
    <3>1. e \in 1 .. Len(s)
      BY <1>1, <2>0, <2>3
    <3>2. PICK j \in Index : GroupOf(j) = g /\ Occupied(j) /\ Element(j) = e
      BY <1>1, <3>1 DEF CoverInv
    <3>3. ~(x < Bit(j))
      <4> DEFINE y == Bit(j)
      <4>1. y \in Int /\ BitRank(b, y) \in Nat /\ e = BitRank(b, y) + 1
        BY <2>1, <3>2
      <4>2. x < y => BitRank(b, x) <= BitRank(b, y)
        BY <1>1, <4>1, RankOrder
      <4> HIDE DEF b, x, k, y
      <4>. QED BY <1>1, <2>3, <4>1, <4>2 DEF y
    <3>. QED BY <1>5, <2>1, <3>2, <3>3
  <2>4. CASE k < e
    <3>1. e - 1 \in 1 .. Len(s) /\ e - 1 >= k /\ (e - 1) + 1 = e
      <4> HIDE DEF s, k
      <4>. QED BY <1>1, <2>0, <2>4
    <3>2. PICK j \in Index : GroupOf(j) = g /\ Occupied(j) /\ Element(j) = e - 1
      BY <1>1, <3>1 DEF CoverInv
    <3>3. x < Bit(j)
      <4> DEFINE y == Bit(j)
      <4>1. y \in Int /\ y \in b /\ BitRank(b, y) \in Nat /\ e - 1 = BitRank(b, y) + 1
        BY <2>1, <3>2
      <4>2. y < x => BitRank(b, y) < BitRank(b, x)
        BY <1>1, <4>1, RankOrder
      <4>3. y # x
        BY <1>1, <4>1
      <4> HIDE DEF b, x, k, y
      <4>. QED BY <1>1, <3>1, <4>1, <4>2, <4>3 DEF y
    <3>. QED BY <1>5, <2>1, <3>1, <3>2, <3>3
  <2> HIDE DEF s, k
  <2>. QED BY <1>1, <2>0, <2>2, <2>3, <2>4
<1>. QED BY <1>4, <1>5

\* The groups are numbered from 0.
LEMMA GroupCount ==
  /\ Cardinality(Group) \in Nat /\ Group = 0 .. Cardinality(Group) - 1
<1> DEFINE q == (Size + GroupSize - 1) \div GroupSize
<1>1. q \in Nat
  BY HashAssumption DEF HashAssumption
<1>2. Group = 0 .. q - 1
  BY DEF Group
<1> HIDE DEF q
<1>3. Cardinality(0 .. q - 1) = q
  <2>1. q = 0 => 0 .. q - 1 = {}
    BY <1>1
  <2>2. q # 0 => 0 <= q - 1
    BY <1>1
  <2>. QED BY <1>1, <2>1, <2>2, FS_Interval, FS_EmptySet
<1>. QED BY <1>1, <1>2, <1>3

\* The elements that hold an item, before element n + 1 of group g.
Places(sl, g, n) ==
    {p \in Group \X Nat : /\ p[1] < g \/ (p[1] = g /\ p[2] <= n)
                          /\ p[2] \in 1 .. Len(sl[p[1]])
                          /\ sl[p[1]][p[2]] # Null}

\* An iteration that has come so far has seen the items at these places, once each.
Seen(sl, g, n, seen) ==
    /\ seen \in Seq(Data)
    /\ IsFiniteSet(Places(sl, g, n)) /\ Len(seen) = Cardinality(Places(sl, g, n))
    /\ \A d : (\E k \in 1 .. Len(seen) : seen[k] = d)
                <=> (\E p \in Places(sl, g, n) : sl[p[1]][p[2]] = d)

\* One element,
LEMMA VisitSees ==
  ASSUME NEW sl \in [Group -> Seq(Item)], NEW g \in Group, NEW n \in 1 .. Len(sl[g]),
         NEW seen, Seen(sl, g, n - 1, seen)
  PROVE  Seen(sl, g, n, Visit(seen, sl[g][n]))
<1> DEFINE d == sl[g][n]
           P == Places(sl, g, n - 1)
           Q == Places(sl, g, n)
<1>1. /\ sl[g] \in Seq(Item) /\ Len(sl[g]) \in Nat /\ n \in Nat /\ d \in Item
      /\ \A h \in Group : h \in Int
  BY DEF Group
<1>2. CASE d = Null
  <2>1. Q = P
    BY <1>1, <1>2 DEF Places
  <2>2. Visit(seen, d) = seen
    BY <1>2 DEF Visit
  <2> HIDE DEF d, P, Q
  <2>. QED BY <2>1, <2>2 DEF Seen, d, P, Q
<1>3. CASE d # Null
  <2>1. Q = P \union {<<g, n>>} /\ <<g, n>> \notin P
    <3>1. <<g, n>> \in Q /\ <<g, n>> \notin P
      BY <1>1, <1>3 DEF Places
    <3>2. \A p \in Q : p # <<g, n>> => p \in P
      BY <1>1 DEF Places
    <3>3. P \subseteq Q
      BY <1>1 DEF Places
    <3> HIDE DEF P, Q
    <3>. QED BY <3>1, <3>2, <3>3
  <2>2. Visit(seen, d) = Append(seen, d) /\ d \in Data
    BY <1>1, <1>3 DEF Visit, Item
  <2> DEFINE next == Append(seen, d)
  <2>3. /\ seen \in Seq(Data) /\ IsFiniteSet(P) /\ Len(seen) = Cardinality(P)
        /\ \A c : (\E k \in 1 .. Len(seen) : seen[k] = c)
                    <=> (\E p \in P : sl[p[1]][p[2]] = c)
    BY DEF Seen
  <2>4. sl[<<g, n>>[1]][<<g, n>>[2]] = d
    OBVIOUS
  <2> HIDE DEF P, Q, d
  <2>5. IsFiniteSet(Q) /\ Cardinality(Q) = Cardinality(P) + 1
    BY <2>1, <2>3, FS_AddElement
  <2>6. /\ next \in Seq(Data) /\ Len(next) = Len(seen) + 1 /\ next[Len(seen) + 1] = d
        /\ \A k \in 1 .. Len(seen) : next[k] = seen[k]
        /\ Len(seen) \in Nat
    BY <2>2, <2>3
  <2> HIDE DEF next
  <2>7. ASSUME NEW c
        PROVE  (\E k \in 1 .. Len(next) : next[k] = c) <=> (\E p \in Q : sl[p[1]][p[2]] = c)
    <3>1. (\E k \in 1 .. Len(next) : next[k] = c)
            <=> ((\E k \in 1 .. Len(seen) : seen[k] = c) \/ d = c)
      BY <2>6
    <3>2. (\E p \in Q : sl[p[1]][p[2]] = c) <=> ((\E p \in P : sl[p[1]][p[2]] = c) \/ d = c)
      BY <2>1, <2>4
    <3>. QED BY <2>3, <3>1, <3>2
  <2>8. Len(next) = Cardinality(Q)
    BY <2>3, <2>5, <2>6
  <2>9. Seen(sl, g, n, next)
    BY <2>5, <2>6, <2>7, <2>8 DEF Seen, Q
  <2>10. Visit(seen, sl[g][n]) = next
    BY <2>2 DEF d, next
  <2>. QED BY <2>9, <2>10
<1>. QED BY <1>2, <1>3

ItemStep(x, seen, data) == Visit(seen, data)

ItemHolds(x, seq, seen, n) == Seen(x.slot, x.g, n, seen)

ItemLoop == INSTANCE FoldInduction WITH Step <- ItemStep, Holds <- ItemHolds

GroupStep(x, seen, g) == FoldLeft(Visit, seen, x[g])

GroupHolds(x, seq, seen, n) == Seen(x, n, 0, seen)

GroupLoop == INSTANCE FoldInduction WITH Step <- GroupStep, Holds <- GroupHolds

\* a whole group,
LEMMA GroupSees ==
  ASSUME NEW sl \in [Group -> Seq(Item)], NEW g \in Group, NEW seen, Seen(sl, g, 0, seen)
  PROVE  Seen(sl, g + 1, 0, FoldLeft(Visit, seen, sl[g]))
<1> DEFINE x == [slot |-> sl, g |-> g]
           r == ItemLoop!Loop(x, seen, sl[g])
<1>1. FoldLeft(Visit, seen, sl[g]) = r
  BY DEF ItemLoop!Loop, ItemStep, FoldLeft, MapThenFoldSet,
         ItemLoop!FoldLeft, ItemLoop!MapThenFoldSet, Max, ItemLoop!Max
<1>2. sl[g] \in Seq(Item) /\ x.slot = sl /\ x.g = g
  OBVIOUS
<1> HIDE DEF x, r
<1>3. ItemHolds(x, sl[g], seen, 0)
  BY <1>2 DEF ItemHolds
<1>4. \A n \in 1 .. Len(sl[g]) : \A a :
        ItemHolds(x, sl[g], a, n - 1) => ItemHolds(x, sl[g], ItemStep(x, a, sl[g][n]), n)
  BY <1>2, VisitSees DEF ItemHolds, ItemStep
<1>5. ItemHolds(x, sl[g], r, Len(sl[g]))
  BY <1>2, <1>3, <1>4, ItemLoop!Induction DEF r
<1>6. Places(sl, g, Len(sl[g])) = Places(sl, g + 1, 0)
  <2>1. g \in Int /\ \A h \in Group : h \in Int
    BY DEF Group
  <2>2. ASSUME NEW p \in Group \X Nat, p[2] \in 1 .. Len(sl[p[1]])
        PROVE  p[1] < g \/ (p[1] = g /\ p[2] <= Len(sl[g]))
                 <=> p[1] < g + 1 \/ (p[1] = g + 1 /\ p[2] <= 0)
    <3>1. p[1] \in Group /\ p[1] \in Int /\ p[2] \in Nat
      BY <2>1
    <3>2. sl[p[1]] \in Seq(Item)
      BY <3>1
    <3>3. Len(sl[p[1]]) \in Nat
      BY <3>2, LenProperties
    <3>4. p[2] >= 1 /\ p[2] <= Len(sl[p[1]])
      BY <2>2, <3>1, <3>3
    <3>5. p[1] = g => p[2] <= Len(sl[g])
      BY <3>4
    <3> DEFINE h == p[1]
               e == p[2]
    <3>6. g \in Int /\ h \in Int /\ e \in Nat /\ e >= 1 /\ (h = g => e <= Len(sl[g]))
      BY <2>1, <3>1, <3>4, <3>5
    <3> HIDE DEF h, e
    <3>7. h < g \/ (h = g /\ e <= Len(sl[g])) <=> h < g + 1 \/ (h = g + 1 /\ e <= 0)
      BY <3>6
    <3>. QED BY <3>7 DEF h, e
  <2>. QED BY <2>2, Zenon DEF Places
<1>7. Seen(sl, g, Len(sl[g]), r)
  BY <1>2, <1>5 DEF ItemHolds
<1>8. Seen(sl, g + 1, 0, r)
  BY <1>6, <1>7, Zenon DEF Seen
<1>. QED BY <1>1, <1>8

\* and all groups.
LEMMA IterateSees ==
  ASSUME IInv
  PROVE  Seen(slot, Cardinality(Group), 0, Iterate)
<1> DEFINE N == Cardinality(Group)
           r == GroupLoop!Loop(slot, <<>>, GroupOrder)
<1>1. slot \in [Group -> Seq(Item)]
  BY DEF IInv, TypeInv
<1>2. N \in Nat /\ Group = 0 .. N - 1
  BY GroupCount
<1> HIDE DEF N
<1>3. GroupOrder \in Seq(Group) /\ Len(GroupOrder) = N
      /\ \A n \in 1 .. N : GroupOrder[n] = n - 1 /\ n - 1 \in Group
  BY <1>2 DEF GroupOrder, N
<1>4. Iterate = r
  BY DEF Iterate, GroupLoop!Loop, GroupStep, VisitGroup, FoldLeft, MapThenFoldSet,
         GroupLoop!FoldLeft, GroupLoop!MapThenFoldSet, Max, GroupLoop!Max
<1>5. GroupHolds(slot, GroupOrder, <<>>, 0)
  <2>1. Places(slot, 0, 0) = {}
    BY <1>1, <1>2 DEF Places
  <2>2. <<>> \in Seq(Data) /\ Len(<<>>) = 0
    OBVIOUS
  <2>. QED BY <2>1, <2>2, FS_EmptySet DEF GroupHolds, Seen
<1>6. \A n \in 1 .. Len(GroupOrder) : \A a :
        GroupHolds(slot, GroupOrder, a, n - 1)
          => GroupHolds(slot, GroupOrder, GroupStep(slot, a, GroupOrder[n]), n)
  <2> SUFFICES ASSUME NEW n \in 1 .. N, NEW a, Seen(slot, n - 1, 0, a)
               PROVE  Seen(slot, n, 0, FoldLeft(Visit, a, slot[GroupOrder[n]]))
    BY <1>3 DEF GroupHolds, GroupStep
  <2>1. n - 1 \in Group /\ (n - 1) + 1 = n /\ GroupOrder[n] = n - 1
    BY <1>2, <1>3
  <2>. QED BY <1>1, <2>1, GroupSees
<1> HIDE DEF r
<1>7. GroupHolds(slot, GroupOrder, r, Len(GroupOrder))
  BY <1>3, <1>5, <1>6, GroupLoop!Induction DEF r
<1>. QED BY <1>3, <1>4, <1>7 DEF GroupHolds, N

\* The places are those of the positions that hold an item.
LEMMA PlacesLive ==
  ASSUME MapInv, CoverInv
  PROVE  LET P == Places(slot, Cardinality(Group), 0) IN
         /\ \A d : (\E p \in P : slot[p[1]][p[2]] = d) <=> (\E i \in LiveSet : At(i) = d)
         /\ Cardinality(P) = Cardinality(LiveSet)
<1> DEFINE P == Places(slot, Cardinality(Group), 0)
           f == [i \in LiveSet |-> <<GroupOf(i), Element(i)>>]
<1>1. P = {p \in Group \X Nat : p[2] \in 1 .. Len(slot[p[1]]) /\ slot[p[1]][p[2]] # Null}
  BY GroupCount DEF Places
<1>2. ASSUME NEW i \in LiveSet PROVE f[i] \in P /\ slot[f[i][1]][f[i][2]] = At(i)
  <2>1. i \in Index /\ Occupied(i) /\ At(i) # Null
    BY DEF LiveSet, LiveAt
  <2>2. GroupOf(i) \in Group /\ Element(i) \in 1 .. Len(slot[GroupOf(i)])
    BY <2>1, ElementType DEF MapInv
  <2>. QED BY <1>1, <2>1, <2>2 DEF At
<1>3. ASSUME NEW p \in P PROVE \E i \in LiveSet : f[i] = p
  <2>1. p[1] \in Group /\ p[2] \in 1 .. Len(slot[p[1]]) /\ slot[p[1]][p[2]] # Null
        /\ p = <<p[1], p[2]>>
    BY <1>1
  <2>2. PICK i \in Index : GroupOf(i) = p[1] /\ Occupied(i) /\ Element(i) = p[2]
    BY <2>1 DEF CoverInv
  <2>3. i \in LiveSet
    BY <2>1, <2>2 DEF LiveSet, LiveAt, At
  <2>. QED BY <2>1, <2>2, <2>3
<1>4. ASSUME NEW i \in LiveSet, NEW j \in LiveSet, f[i] = f[j] PROVE i = j
  <2>1. /\ i \in Index /\ Occupied(i) /\ j \in Index /\ Occupied(j)
        /\ GroupOf(i) = GroupOf(j) /\ Element(i) = Element(j)
    BY <1>4 DEF LiveSet, LiveAt
  <2>. QED BY <2>1, ElementDiffers DEF MapInv
<1>5. f \in [LiveSet -> P]
  BY <1>2
<1> HIDE DEF P, f
<1>6. f \in Bijection(LiveSet, P)
  BY <1>3, <1>4, <1>5 DEF Bijection, Injection, Surjection, IsInjective
<1>7. Cardinality(P) = Cardinality(LiveSet)
  BY <1>6, LiveSetType, FS_Bijection DEF ExistsBijection
<1>8. \A d : (\E p \in P : slot[p[1]][p[2]] = d) <=> (\E i \in LiveSet : At(i) = d)
  BY <1>2, <1>3
<1>. QED BY <1>7, <1>8 DEF P

\* The items at different positions are different.
LEMMA LiveItems ==
  ASSUME MapInv
  PROVE  Cardinality({At(i) : i \in LiveSet}) = Cardinality(LiveSet)
<1> DEFINE T == {At(i) : i \in LiveSet}
           f == [i \in LiveSet |-> At(i)]
<1>1. \A i, j \in LiveSet : f[i] = f[j] => i = j
  BY DEF LiveSet, MapInv, UniqueInv
<1>2. f \in [LiveSet -> T] /\ \A d \in T : \E i \in LiveSet : f[i] = d
  OBVIOUS
<1> HIDE DEF T, f
<1>3. f \in Bijection(LiveSet, T)
  BY <1>1, <1>2 DEF Bijection, Injection, Surjection, IsInjective
<1>4. Cardinality(T) = Cardinality(LiveSet)
  BY <1>3, LiveSetType, FS_Bijection DEF ExistsBijection
<1>. QED BY <1>4 DEF T

\* What hash_get finds for some key is what is at some position.
LEMMA LiveKeys ==
  ASSUME MapInv
  PROVE  {At(i) : i \in LiveSet} = {Get(key) : key \in {k \in Key : Get(k) # Null}}
<1>1. GetExact
  BY LookupExact
<1>2. ASSUME NEW i \in LiveSet PROVE \E key \in Key : Get(key) # Null /\ Get(key) = At(i)
  <2>1. i \in Index /\ LiveAt(i) /\ At(i) # Null
    BY DEF LiveSet, LiveAt
  <2>2. PICK key \in Key : key = KeyOf(At(i))
    BY <2>1, LiveType DEF MapInv
  <2>3. Matches(key, i)
    BY <2>1, <2>2 DEF Matches, LiveAt
  <2>4. PICK j \in Index : Matches(key, j) /\ Get(key) = At(j)
    BY <1>1, <2>1, <2>3 DEF GetExact
  <2>5. j = i
    BY <2>1, <2>3, <2>4 DEF MapInv, UniqueInv, Matches, LiveAt
  <2>. QED BY <2>1, <2>4, <2>5
<1>3. ASSUME NEW key \in Key, Get(key) # Null PROVE \E i \in LiveSet : At(i) = Get(key)
  <2>1. PICK i \in Index : Matches(key, i) /\ Get(key) = At(i)
    BY <1>1, <1>3 DEF GetExact
  <2>. QED BY <2>1 DEF Matches, LiveSet, LiveAt
<1>. QED BY <1>2, <1>3

LEMMA IterationExact ==
  ASSUME TableInv, CoverInv
  PROVE  IterateExact
<1> DEFINE P == Places(slot, Cardinality(Group), 0)
           T == {At(i) : i \in LiveSet}
<1>1. MapInv /\ IInv /\ items = Cardinality(LiveSet)
  BY DEF TableInv, MapInv, CountInv
<1>2. /\ Iterate \in Seq(Data) /\ Len(Iterate) = Cardinality(P)
      /\ \A d : (\E k \in 1 .. Len(Iterate) : Iterate[k] = d)
                  <=> (\E p \in P : slot[p[1]][p[2]] = d)
  BY <1>1, IterateSees DEF Seen
<1>3. /\ Cardinality(P) = Cardinality(LiveSet)
      /\ \A d : (\E p \in P : slot[p[1]][p[2]] = d) <=> (\E i \in LiveSet : At(i) = d)
  BY <1>1, PlacesLive
<1> HIDE DEF P
<1>4. ToSet(Iterate) = T
  <2>1. ToSet(Iterate) = {Iterate[k] : k \in 1 .. Len(Iterate)}
    BY <1>2 DEF ToSet
  <2>. QED BY <1>2, <1>3, <2>1
<1>5. Cardinality(T) = Cardinality(LiveSet)
  BY <1>1, LiveItems
<1>6. T = {Get(key) : key \in {k \in Key : Get(k) # Null}}
  BY <1>1, LiveKeys
<1> HIDE DEF T
<1>. QED BY <1>1, <1>2, <1>3, <1>4, <1>5, <1>6 DEF IterateExact

LEMMA CoverNext ==
  ASSUME Reuse = FALSE, TableInv, CoverInv, [Next]_vars
  PROVE  CoverInv'
<1>0. IInv /\ MapInv
  BY DEF TableInv, MapInv
<1>1. ASSUME NEW data \in Data, PutReplace(data) PROVE CoverInv'
  <2>1. data \in Item
    BY DEF Item
  <2>. QED BY <1>0, <1>1, <2>1, WriteCover DEF PutReplace
<1>2. ASSUME NEW data \in Data, PutNew(data) PROVE CoverInv'
  <2> DEFINE index == Mark(KeyOf(data))
  <2>1. KeyOf(data) \in Key
    BY DEF Data, KeyOf
  <2>2. ~Occupied(index) /\ Absent(KeyOf(data))
    BY <1>2 DEF PutNew
  <2>3. index \in Index
    BY <1>0, <2>1, <2>2, MarkReached
  <2>4. /\ slot' = [slot EXCEPT ![GroupOf(index)] = SgInsert(@, Element(index), data)]
        /\ bits' = [bits EXCEPT ![GroupOf(index)] = @ \union {Bit(index)}]
    BY <1>2 DEF PutNew
  <2> HIDE DEF index
  <2>. QED BY <1>0, <2>2, <2>3, <2>4, InsertCover
<1>3. ASSUME NEW data \in Data, PutResize(data) PROVE CoverInv'
  BY <1>3 DEF PutResize, CoverInv, Occupied, Element
<1>4. ASSUME NEW key \in Key, Delete(key) \/ DeleteResize(key) PROVE CoverInv'
  <2>1. Null \in Item
    BY DEF Item
  <2>. QED BY <1>0, <1>4, <2>1, WriteCover DEF Delete, DeleteResize, Erase
<1>5. CASE UNCHANGED vars
  BY <1>5 DEF vars, CoverInv, Occupied, Element
<1>. QED BY <1>1, <1>2, <1>3, <1>4, <1>5 DEF Next

-----------------------------------------------------------------------------
(* Theorems. *)

THEOREM TableInvariance ==
  ASSUME Reuse = FALSE
  PROVE  Spec => []TableInv
<1>1. TableInv /\ [Next]_vars => TableInv'
  BY TableNext
<1>. QED BY <1>1, TableInit, PTL DEF Spec

\* The bitmaps, the arrays and the number of items keep their types: the count is
\* never negative and never beyond the number at which the table is resized.
THEOREM TypeCorrect ==
  ASSUME Reuse = FALSE
  PROVE  Spec => []TypeOK
<1>1. TableInv => TypeOK
  <2> SUFFICES ASSUME TableInv PROVE TypeOK
    OBVIOUS
  <2>1. max \in Nat /\ items \in Nat /\ items <= max
    BY HashAssumption, LiveSetType DEF HashAssumption, max, TableInv, CountInv
  <2>. QED BY <2>1 DEF TableInv, MapInv, IInv, TypeInv, BitsInv, TypeOK, Item
<1>. QED BY <1>1, TableInvariance, PTL

\* For its callers the table is a map, whatever the hash function, as long as no key is
\* put where another was deleted: hash_put makes hash_get find the item put, hash_delete
\* returns what hash_get found and leaves nothing to find, and neither changes what
\* hash_get finds for any other key.
THEOREM Refinement ==
  ASSUME Reuse = FALSE
  PROVE  Spec => IsMap
<1>1. Init => Map!Init
  <2> SUFFICES ASSUME Init PROVE Map!Init
    OBVIOUS
  <2>1. \A i \in Index : ~Occupied(i)
    BY IndexParts DEF Init, Occupied
  <2>2. GetExact
    BY TableInit, LookupExact DEF TableInv
  <2>3. \A key \in Key : Get(key) = Null
    BY <2>1, <2>2 DEF GetExact, Matches
  <2>. QED BY <2>3 DEF Map!Init, Init
<1>2. TableInv /\ [Next]_vars => [Map!Next]_<<op, [key \in Key |-> Get(key)]>>
  BY TableNext
<1>. QED BY <1>1, <1>2, TableInvariance, PTL DEF Spec, IsMap, Map!Spec

\* foreach_h visits every item once and nothing else, whatever the hash function and
\* whatever was deleted before, and items is their number, as long as no key is put
\* where another was deleted.
THEOREM IterationVisitsAll ==
  ASSUME Reuse = FALSE
  PROVE  Spec => []IterateExact
<1>1. Init => CoverInv
  <2> SUFFICES ASSUME Init, NEW g \in Group, NEW e \in 1 .. Len(slot[g]) PROVE FALSE
    BY DEF CoverInv
  <2>1. slot[g] = <<>>
    BY DEF Init
  <2>. QED BY <2>1
<1>2. TableInv /\ CoverInv /\ [Next]_vars => CoverInv'
  BY CoverNext
<1>3. TableInv /\ CoverInv => IterateExact
  BY IterationExact
<1>. QED BY <1>1, <1>2, <1>3, TableInvariance, PTL DEF Spec
=============================================================================
