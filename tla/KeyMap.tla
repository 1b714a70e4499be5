-------------------------------- MODULE KeyMap --------------------------------
(***************************************************************************)
(* What eqp_hash_tbl.c promises its callers: a map from keys to values in  *)
(* which a key is set once, until it is removed.                           *)
(***************************************************************************)
CONSTANTS Keys, Values

VARIABLES
  map,   \* a function from the keys that are set to their values
  rc     \* what the last call returned

vars == <<map, rc>>

Empty == [k \in {} |-> k]

Init == map = Empty /\ rc = "None"

Set(k, v) ==
  \/ /\ rc' = "None"
     /\ k \notin DOMAIN map
     /\ map' = [l \in DOMAIN map \cup {k} |-> IF l = k THEN v ELSE map[l]]
  \/ /\ rc' = "Again"
     /\ k \in DOMAIN map
     /\ UNCHANGED map
  \/ rc' = "OutOfMemory" /\ UNCHANGED map

Remove(k) ==
  \/ /\ rc' = "True"
     /\ k \in DOMAIN map
     /\ map' = [l \in DOMAIN map \ {k} |-> map[l]]
  \/ /\ rc' = "False"
     /\ k \notin DOMAIN map
     /\ UNCHANGED map

Deinit == UNCHANGED rc /\ map' = Empty

Next == (\E k \in Keys : Remove(k) \/ \E v \in Values : Set(k, v)) \/ Deinit

Spec == Init /\ [][Next]_vars
=============================================================================
