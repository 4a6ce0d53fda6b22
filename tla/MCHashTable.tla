---------------------------- MODULE MCHashTable ----------------------------
(* Small instances of HashTable. *)
EXTENDS HashTable, TLC

\* Only the hash function tells keys apart, and Colliding has all of them.
KeySymmetry == Permutations(Key)

\* Every hash function onto two neighbouring positions and the last one.
Colliding == [Key -> {0, 1, Size - 1}]

=============================================================================
