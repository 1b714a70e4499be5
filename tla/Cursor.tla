------------------------------- MODULE Cursor -------------------------------
(***************************************************************************)
(* What query_select gives the callback of a query: a pass over the rows   *)
(* of its result, one row for each call and none twice, until a call that  *)
(* gives none.  The pass may have been begun for the callback, which it    *)
(* cannot tell; it may break off after any row, and after its end or a     *)
(* reset another one may follow.                                           *)
(*                                                                         *)
(* A pass that was begun for the callback and is reset before the callback *)
(* has asked for its first row is not forgotten: the next call gives a Row *)
(* all the same, but it is none of the result.                             *)
(***************************************************************************)
EXTENDS Naturals

CONSTANTS Queries, MaxRows

VARIABLES
  open,        \* the pass has begun
  size,        \* how many rows it has
  place,       \* how many of them have been given
  row,         \* the row the last call gave, or 0
  stale        \* the row that was promised is gone

vars == <<open, size, place, row, stale>>

NotARow == MaxRows + 1

Init ==
  /\ open = [q \in Queries |-> FALSE]
  /\ size = [q \in Queries |-> 0]
  /\ place = [q \in Queries |-> 0]
  /\ row = [q \in Queries |-> 0]
  /\ stale = [q \in Queries |-> FALSE]

At(q, o, n, p, r, s) ==
  /\ open'  = [open EXCEPT ![q] = o]
  /\ size'  = [size EXCEPT ![q] = n]
  /\ place' = [place EXCEPT ![q] = p]
  /\ row'   = [row EXCEPT ![q] = r]
  /\ stale' = [stale EXCEPT ![q] = s]

Begin(q) ==
  /\ ~ open[q] /\ ~ stale[q]
  /\ \E n \in 1 .. MaxRows : At(q, TRUE, n, 0, 0, FALSE)

Fetch(q) ==
  \/ /\ open[q] /\ place[q] < size[q]
     /\ At(q, TRUE, size[q], place[q] + 1, place[q] + 1, FALSE)
  \/ /\ ~ open[q] /\ ~ stale[q]
     /\ \E n \in 1 .. MaxRows : At(q, TRUE, n, 1, 1, FALSE)

\* the end of the rows, an error, a reset, or the end of the callback
Rewind(q) == At(q, FALSE, 0, 0, 0, FALSE)

\* a reset before the first row was asked for
ResetEarly(q) == open[q] /\ place[q] = 0 /\ At(q, FALSE, 0, 0, 0, TRUE)

GiveStale(q) == stale[q] /\ At(q, FALSE, 0, 0, NotARow, FALSE)

Next == \E q \in Queries :
  Begin(q) \/ Fetch(q) \/ Rewind(q) \/ ResetEarly(q) \/ GiveStale(q)

Spec == Init /\ [][Next]_vars
=============================================================================
