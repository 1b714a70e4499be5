------------------------------ MODULE MCHashTbl ------------------------------
(* Instances of the hash table for TLC. Keys 1 and 3 are the ids of the main  *)
(* thread and the database thread. The hash of a small key is key + 1 in its  *)
(* low bits, so that in a table of four entries 1, 5 and 9 have the same main *)
(* position; 1 and 1 + 2^24 have the same hash.                               *)
EXTENDS HashTbl

\* even hashes, of which two integers and a string have the same; 101 and 102 are strings
EvenKeys == {1, 3, 7, 1 + 2^24, 101, 102}
EvenStrKeys == {101, 102}
EvenStrHash == [k \in EvenStrKeys |-> IF k = 101 THEN 2 ELSE 14]

\* the hash of key 2 is odd
OddKeys == {1, 2, 3, 5, 9}
NoStrHash == [k \in {} |-> 0]
=============================================================================
