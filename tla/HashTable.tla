----------------------------- MODULE HashTable -----------------------------
(***************************************************************************)
(* The sparse hash table of hash.c, which holds the EventBlocks of a       *)
(* Schedule, the DerDevices and the resources.                             *)
(*                                                                         *)
(* The table has Size positions in groups of GroupSize (58 in the code).   *)
(* A group is a bitmap of the positions in use and an array, slot, of the  *)
(* items at those positions in order; the item of a position is found by   *)
(* counting the bits below it.  hash_delete leaves NULL in the slot.       *)
(***************************************************************************)
EXTENDS Integers, FiniteSets, SequencesExt

CONSTANTS
    Key, Version,  \* a data item is a key and a version of what it stands for
    Null,
    Size,          \* positions, a power of two
    GroupSize,     \* positions of a group
    Hashes,        \* the hash functions considered
    Limit,         \* bound: items the caller keeps in the table
    Reuse          \* may a caller put a key where another was deleted?

ASSUME HashAssumption ==
    /\ Null \notin Key \X Version
    /\ Size \in Nat \ {0} /\ GroupSize \in Nat \ {0}
    /\ Hashes \subseteq [Key -> Nat]

VARIABLES
    hash,          \* the hash function
    bits, slot,    \* bits[g], slot[g]: bitmap and array of group g
    items,         \* HashTable.items
    lost,          \* the table was freed, or NULL was written to
    op             \* the last call that changed the table, as in KeyMap

vars == <<hash, bits, slot, items, lost, op>>

Data == Key \X Version
KeyOf(data) == data[1]

Group == 0 .. (Size + GroupSize - 1) \div GroupSize - 1

min == (Size * 40) \div 100
max == (Size * 80) \div 100

-----------------------------------------------------------------------------
(* Sparse groups. *)

GroupOf(index) == index \div GroupSize
Bit(index)     == index % GroupSize

\* bit_rank: the bits of a group below a position.
BitRank(b, i) == Cardinality({j \in b : j < i})

Occupied(index) == Bit(index) \in bits[GroupOf(index)]

\* Where the item of an occupied position is.
Element(index) == BitRank(bits[GroupOf(index)], Bit(index)) + 1
At(index)      == slot[GroupOf(index)][Element(index)]

\* Mutant: the items behind the new one are not moved.
SgInsertOver(s, i, data) ==
    IF i <= Len(s) THEN [s EXCEPT ![i] = data] ELSE Append(s, data)

\* sg_insert: make room in the array and store the item.
SgInsert(s, i, data) == InsertAt(s, i, data)

-----------------------------------------------------------------------------
(* hash_find: probe until the key or an unused position is met. *)

\* The steps between probes grow by one, so that they visit every position.
Probe(key, n) == (hash[key] + (n * (n + 1)) \div 2) % Size

Matches(key, index) == /\ Occupied(index) /\ At(index) # Null
                       /\ KeyOf(At(index)) = key

Probes == 0 .. Size - 1

\* Mutant: a deleted item ends the search.
PassesLive(key, index) ==
    Occupied(index) /\ At(index) # Null /\ ~Matches(key, index)

\* The search goes on behind a position in use that does not hold the key.
Passes(key, index) == Occupied(index) /\ ~Matches(key, index)

\* If it goes on everywhere it never ends.
Terminates(key) == ~ \A n \in Probes : Passes(key, Probe(key, n))

LastProbe(key) ==
    CHOOSE n \in Probes : /\ ~Passes(key, Probe(key, n))
                          /\ \A m \in 0 .. n - 1 : Passes(key, Probe(key, m))

\* The position at which the search stops, and whether the key is there.
Position(key) == Probe(key, LastProbe(key))
Found(key)    == Terminates(key) /\ Matches(key, Position(key))
Absent(key)   == Terminates(key) /\ ~Matches(key, Position(key))

\* hash_mark: the first position met that is unused or whose item was deleted.
Usable(index) == Occupied(index) => At(index) = Null

MarkProbe(key) ==
    CHOOSE n \in Probes : /\ Usable(Probe(key, n))
                          /\ \A m \in 0 .. n - 1 : ~Usable(Probe(key, m))

Mark(key) == Probe(key, MarkProbe(key))

Get(key) == IF Found(key) THEN At(Position(key)) ELSE Null

\* Mutant: a deleted item ends the iteration of its group.
VisitUpToGap(seen, g) ==
    LET s    == slot[g]
        gaps == {i \in 1..Len(s) : s[i] = Null}
    IN  seen \o SubSeq(s, 1, IF gaps = {} THEN Len(s) ELSE Min(gaps) - 1)

\* hash_next: the deleted items of a group are passed over,
Visit(seen, data) == IF data = Null THEN seen ELSE Append(seen, data)

\* the others follow what was seen before,
VisitGroup(seen, g) == FoldLeft(Visit, seen, slot[g])

\* and the next group is visited.
GroupOrder == [n \in 1..Cardinality(Group) |-> n - 1]

\* What hash_iterate and then hash_next return before NULL.
Iterate == FoldLeft(VisitGroup, <<>>, GroupOrder)

-----------------------------------------------------------------------------
Init ==
    /\ hash \in Hashes
    /\ bits = [g \in Group |-> {}] /\ slot = [g \in Group |-> <<>>]
    /\ items = 0 /\ lost = FALSE /\ op = Null

\* Mutant: a replaced item is counted again.
PutReplaceCount(data) ==
    /\ ~lost /\ Found(KeyOf(data))
    /\ LET index == Position(KeyOf(data)) IN
       slot' = [slot EXCEPT ![GroupOf(index)][Element(index)] = data]
    /\ items' = items + 1 /\ op' = <<"put", data>>
    /\ UNCHANGED <<hash, bits, lost>>

\* hash_put of a key that is there.
PutReplace(data) ==
    /\ ~lost /\ Found(KeyOf(data))
    /\ LET index == Position(KeyOf(data)) IN
       slot' = [slot EXCEPT ![GroupOf(index)][Element(index)] = data]
    /\ op' = <<"put", data>>
    /\ UNCHANGED <<hash, bits, items, lost>>

\* hash_put of a new key.  The bit may be set already.
PutNew(data) ==
    /\ ~lost /\ Absent(KeyOf(data)) /\ items < Limit /\ items # max
    /\ LET index == Mark(KeyOf(data)) IN
       /\ Occupied(index) => Reuse
       /\ slot' = [slot EXCEPT ![GroupOf(index)] = SgInsert(@, Element(index), data)]
       /\ bits' = [bits EXCEPT ![GroupOf(index)] = @ \union {Bit(index)}]
    /\ items' = items + 1 /\ op' = <<"put", data>>
    /\ UNCHANGED <<hash, lost>>

\* ... when the table is full: hash_resize inserts into the new table, whose
\* place to insert (HashTable.g) nobody has set.
PutResize(data) ==
    /\ ~lost /\ Absent(KeyOf(data)) /\ items = max
    /\ lost' = TRUE
    /\ UNCHANGED <<hash, bits, slot, items, op>>

Erase(key) ==
    LET index == Position(key) IN
    slot' = [slot EXCEPT ![GroupOf(index)][Element(index)] = Null]

\* hash_delete.
Delete(key) ==
    /\ ~lost /\ Found(key) /\ items # min
    /\ Erase(key) /\ items' = items - 1 /\ op' = <<"delete", key, Get(key)>>
    /\ UNCHANGED <<hash, bits, lost>>

\* ... when the table is to shrink: as PutResize; and were there nothing to
\* insert, the caller would be left with the table that was freed.
DeleteResize(key) ==
    /\ ~lost /\ Found(key) /\ items = min
    /\ Erase(key) /\ items' = items - 1 /\ op' = <<"delete", key, Get(key)>>
    /\ lost' = TRUE
    /\ UNCHANGED <<hash, bits>>

Next ==
    \/ \E data \in Data : PutReplace(data) \/ PutNew(data) \/ PutResize(data)
    \/ \E key \in Key : Delete(key) \/ DeleteResize(key)

Spec == Init /\ [][Next]_vars

-----------------------------------------------------------------------------
(* Properties. *)

TypeOK ==
    /\ hash \in Hashes /\ items \in 0..max /\ lost \in BOOLEAN
    /\ bits \in [Group -> SUBSET (0 .. GroupSize - 1)]
    /\ slot \in [Group -> Seq(Data \union {Null})]

Map == INSTANCE KeyMap WITH map <- [key \in Key |-> Get(key)]

\* Looked up key by key, the table is a map: after hash_put, hash_get finds the item
\* put for its key; hash_delete returns what hash_get found, after which hash_get finds
\* nothing for the key; and neither changes what is found for any other key.
IsMap == Map!Spec

\* foreach_h visits the item of every key that is present, once, and nothing
\* else; and items, which decides when to resize, is their number.
IterateExact ==
    /\ ToSet(Iterate) = {Get(key) : key \in {k \in Key : Get(k) # Null}}
    /\ Len(Iterate) = Cardinality(ToSet(Iterate))
    /\ Len(Iterate) = items

\* sg_element stays within the array of its group: the position of every bit
\* that is set, counted from the bits below it, holds an item or NULL.
LookupInside ==
    \A g \in Group : \A i \in bits[g] : BitRank(bits[g], i) < Len(slot[g])
=============================================================================
