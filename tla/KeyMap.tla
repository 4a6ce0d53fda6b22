------------------------------ MODULE KeyMap ------------------------------
(***************************************************************************)
(* What hash.c promises its callers: a map from keys to data items, which  *)
(* changes with the calls made.                                            *)
(***************************************************************************)
CONSTANTS Key, Version, Null

VARIABLES
    op,   \* the last call that changed the table: <<"put", item>>, or
          \* <<"delete", key, the item returned>>
    map

Data == Key \X Version
KeyOf(data) == data[1]

Init == op = Null /\ map = [k \in Key |-> Null]

\* Put an item in the place of the one with its key.
Put(data) ==
    /\ op'  = <<"put", data>>
    /\ map' = [map EXCEPT ![KeyOf(data)] = data]

\* Take the item of a key away, and return it.
Delete(key) ==
    /\ op'  = <<"delete", key, map[key]>>
    /\ map' = [map EXCEPT ![key] = Null]

Next == \/ \E data \in Data : Put(data)
        \/ \E key \in Key : Delete(key)

Spec == Init /\ [][Next]_<<op, map>>
=============================================================================
