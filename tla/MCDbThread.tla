------------------------------ MODULE MCDbThread ------------------------------
(* Instances of the database thread for TLC. *)
EXTENDS DbThread, TLC

CONSTANTS d1, d2, q1, q2, q3, x1, x2, none   \* model values
=============================================================================
