---------------------------- MODULE MCHashTable ----------------------------
(* HashTable on instances that TLC can enumerate.                          *)
EXTENDS HashTableInv, HashTableRefinement, TLC

CONSTANTS k1, k2

\* Two buckets: all keys but one collide.
TwoBuckets == [k \in Keys |-> IF k = k1 THEN 1 ELSE 0]

\* Every key in one bucket.
OneBucket == [k \in Keys |-> 0]

\* The steps treat the threads alike, and the keys of one bucket.
Symmetry == Permutations(Threads) \cup Permutations(Keys)
=============================================================================
