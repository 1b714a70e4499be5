---------------------------- MODULE MCQueryCursor ---------------------------
(* An instance of the life of statements for TLC. *)
EXTENDS QueryCursor, TLC

CONSTANTS q1, q2, q3   \* model values

WritesAlike == Permutations({q2, q3})
=============================================================================
