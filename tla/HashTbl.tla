-------------------------------- MODULE HashTbl --------------------------------
(***************************************************************************)
(* The hash table of eqp_hash_tbl.c: an array of entries in which the      *)
(* entries of one main position form a chain, collisions go to the free    *)
(* index, and an entry that is in the main position of a new key, but not  *)
(* in its own, is moved away. A key is an integer, or a string of which    *)
(* the table keeps a copy of its own; the copy is assumed to have memory.  *)
(*                                                                         *)
(* One action is one call; a table has no lock and is used by one thread.  *)
(* The array may be larger than the capacity says: tbl_realloc allocates   *)
(* 2n entries and records a capacity of 2n - 1.                            *)
(***************************************************************************)
EXTENDS Integers, FiniteSetsExt

CONSTANTS
  Keys, Values,
  StrKeys,     \* the keys that are strings, numbered
  StrHash,     \* hash_str of each of them
  MaxCapacity  \* bound: for a larger table there is no memory

MinCapacity == 4

\* for these keys hash_int64 is the low 24 bits of key + 1 in every bit that
\* a table of at most 2^13 entries looks at
ASSUME HashTblAssumption ==
  /\ Keys \subseteq Nat /\ StrKeys \subseteq Keys
  /\ \A k \in Keys \ StrKeys : (k + 1) % 2^24 < 2^19
  /\ StrHash \in [StrKeys -> Nat]
  /\ MaxCapacity \in MinCapacity .. 8191

VARIABLES
  capacity, freeIndex,
  data,     \* the entries, counted from 0; no entry before the first is set
  copies,   \* of each string key, how many copies are allocated
  rc,       \* what the last call returned
  hung      \* a call does not return

vars == <<capacity, freeIndex, data, copies, rc, hung>>

Invalid == 2147483647          \* NEXT_INVALID and FREE_INDEX_INVALID
NoKey == -1
EmptyEntry == [key |-> NoKey, value |-> NoKey, next |-> Invalid]
Entries(n) == [i \in 0 .. n - 1 |-> EmptyEntry]

IsStr(k) == k \in StrKeys
Hash(k) == IF IsStr(k) THEN StrHash[k] ELSE (k + 1) % 2^24

\* x & y
And(x, y) ==
  LET and[b \in 0 .. y] ==
        [a \in 0 .. x |-> IF b = 0 THEN 0
                          ELSE 2 * and[b \div 2][a \div 2] + (a % 2) * (b % 2)]
  IN and[y][x]

IsEmpty(e) == e.key = NoKey
\* a table of the positions, which TLC makes once
Positions == [mask \in 0 .. MaxCapacity |-> [k \in Keys |-> And(Hash(k), mask)]]
MainPos(k, mask) == Positions[mask][k]

Init ==
  /\ capacity = 0 /\ freeIndex = 0
  /\ data = Entries(0)
  /\ copies = [k \in StrKeys |-> 0]
  /\ rc = "None" /\ hung = FALSE

-----------------------------------------------------------------------------
(* Walking a chain from entry i of d *)

LastOf(d, i) ==
  LET last[j \in DOMAIN d] == IF d[j].next = Invalid THEN j ELSE last[d[j].next]
  IN last[i]

\* the entry before entry j, which is in the chain
PrevOf(d, i, j) ==
  LET prev[l \in DOMAIN d] == IF d[l].next \in {j, Invalid} THEN l ELSE prev[d[l].next]
  IN prev[i]

\* the first entry that satisfies the test, or Invalid
FirstOf(d, i, Test(_)) ==
  LET first[j \in DOMAIN d] ==
        IF Test(d[j]) THEN j
        ELSE IF d[j].next = Invalid THEN Invalid ELSE first[d[j].next]
  IN first[i]

\* there is a chain of the key's main position
HasChain(k) ==
  LET pos == MainPos(k, capacity - 1) IN
  capacity # 0 /\ ~ IsEmpty(data[pos]) /\ MainPos(data[pos].key, capacity - 1) = pos

\* tbl_get_impl: the entry of the key, or Invalid
Lookup(k) ==
  IF HasChain(k)
  THEN FirstOf(data, MainPos(k, capacity - 1), LAMBDA e : e.key = k)
  ELSE Invalid

-----------------------------------------------------------------------------
(* tbl_realloc: every entry of the old array is placed in an array twice as
   large; <<d, f>> is the new array and its free index so far *)

NextEmpty(d, f) == Min({i \in DOMAIN d : i > f /\ IsEmpty(d[i])})
Copied(d, i, e) == [d EXCEPT ![i].key = e.key, ![i].value = e.value]

Place(mask, d, f, e) ==
  LET pos  == IF IsEmpty(e) THEN 0 ELSE MainPos(e.key, mask)
      main == MainPos(d[pos].key, mask)
  IN IF IsEmpty(d[pos])
     THEN <<Copied(d, pos, e), IF pos = f THEN NextEmpty(Copied(d, pos, e), f) ELSE f>>
     ELSE LET new ==
            IF main # pos
            THEN LET evicted == [d EXCEPT ![f] = d[pos]]
                     linked  == [evicted EXCEPT ![PrevOf(evicted, main, pos)].next = f]
                 IN [Copied(linked, pos, e) EXCEPT ![pos].next = Invalid]
            ELSE Copied([d EXCEPT ![LastOf(d, pos)].next = f], f, e)
          IN <<new, NextEmpty(new, f)>>

\* the new array and its free index after the first n entries
Placed(d, n) ==
  LET placed[i \in 0 .. n] ==
        IF i = 0 THEN <<Entries(2 * capacity), 0>>
        ELSE Place(2 * capacity - 1, placed[i - 1][1], placed[i - 1][2], d[i - 1])
  IN placed[n]

\* mutant: places the first half of the old entries
ReallocHalf(d) == Placed(d, capacity \div 2)

Realloc(d) == Placed(d, capacity)

-----------------------------------------------------------------------------
(* tbl_set_impl in the array d with capacity n and free index f *)

\* tbl_advance_free_index
Advance(d, n, f) ==
  LET later == {i \in f + 1 .. n - 1 : IsEmpty(d[i])}
  IN IF later = {} THEN Invalid ELSE Min(later)

\* sstr_create and sstr_destroy of a key
CopyKey(k) == copies' = [l \in StrKeys |-> IF l = k THEN copies[l] + 1 ELSE copies[l]]
FreeKey(k) == copies' = [l \in StrKeys |-> IF l = k THEN copies[l] - 1 ELSE copies[l]]

Inserted(d, i, k, v) == [d EXCEPT ![i].key = k, ![i].value = v]

SetIn(d, n, f, k, v) ==
  LET pos  == MainPos(k, n - 1)
      main == MainPos(d[pos].key, n - 1)
      evicted == [d EXCEPT ![f] = d[pos]]
      linked  == [evicted EXCEPT ![PrevOf(evicted, main, pos)].next = f]
      chained == [d EXCEPT ![LastOf(d, pos)].next = f]
  IN IF IsEmpty(d[pos])
     THEN /\ freeIndex' = IF pos = f THEN Advance(d, n, f) ELSE f
          /\ data' = Inserted(d, pos, k, v)
          /\ rc' = "None" /\ CopyKey(k)
     ELSE IF main # pos
     THEN /\ freeIndex' = Advance(linked, n, f)
          /\ data' = [Inserted(linked, pos, k, v) EXCEPT ![pos].next = Invalid]
          /\ rc' = "None" /\ CopyKey(k)
     ELSE IF FirstOf(d, pos, LAMBDA e : e.key = k) # Invalid
     THEN data' = d /\ freeIndex' = f /\ rc' = "Again" /\ UNCHANGED copies
     ELSE /\ freeIndex' = Advance(chained, n, f)
          /\ data' = Inserted(chained, f, k, v)
          /\ rc' = "None" /\ CopyKey(k)

HasRoom(k) ==
  /\ capacity # 0
  /\ IsEmpty(data[MainPos(k, capacity - 1)]) \/ freeIndex # Invalid

SetFirst(k, v) ==
  /\ capacity = 0 /\ ~ hung
  /\ capacity' = MinCapacity
  /\ SetIn(Entries(MinCapacity), MinCapacity, freeIndex, k, v)
  /\ UNCHANGED hung

Set(k, v) ==
  /\ HasRoom(k) /\ ~ hung
  /\ SetIn(data, capacity, freeIndex, k, v)
  /\ UNCHANGED <<capacity, hung>>

SetGrows(k, v) ==
  /\ capacity # 0 /\ ~ hung
  /\ ~ HasRoom(k) /\ 2 * capacity - 1 <= MaxCapacity
  /\ capacity' = 2 * capacity - 1
  /\ LET new == Realloc(data) IN SetIn(new[1], 2 * capacity - 1, new[2], k, v)
  /\ UNCHANGED hung

\* tbl_alloc_default or tbl_realloc has no memory
SetFails(k) ==
  /\ ~ HasRoom(k) /\ ~ hung
  /\ rc' = "OutOfMemory"
  /\ UNCHANGED <<capacity, freeIndex, data, copies, hung>>

-----------------------------------------------------------------------------
(* tbl_remove_impl *)

\* where the walk along the chain ends: at an entry with a key of the same kind and hash
Stop(k) ==
  IF HasChain(k)
  THEN FirstOf(data, MainPos(k, capacity - 1), 
               LAMBDA e : Hash(e.key) = Hash(k) /\ IsStr(e.key) = IsStr(k))
  ELSE Invalid

\* mutant: the second entry of a chain is not moved to the main position
RemoveMainOnly(k) ==
  /\ ~ hung
  /\ Stop(k) # Invalid /\ data[Stop(k)].key = k
  /\ data' = [data EXCEPT ![Stop(k)] = EmptyEntry]
  /\ rc' = "True" /\ FreeKey(k)
  /\ UNCHANGED <<capacity, freeIndex, hung>>

Remove(k) ==
  /\ ~ hung
  /\ Stop(k) # Invalid /\ data[Stop(k)].key = k
  /\ LET pos  == MainPos(k, capacity - 1)
         cur  == Stop(k)
         next == data[cur].next
         Freed(i) == IF freeIndex > i THEN i ELSE freeIndex
     IN \/ /\ cur # pos
           /\ data' = [data EXCEPT ![PrevOf(data, pos, cur)].next = next, ![cur] = EmptyEntry]
           /\ freeIndex' = Freed(cur)
        \/ /\ cur = pos /\ next # Invalid
           /\ data' = [data EXCEPT ![pos] = data[next], ![next] = EmptyEntry]
           /\ freeIndex' = Freed(next)
        \/ /\ cur = pos /\ next = Invalid
           /\ data' = [data EXCEPT ![pos] = EmptyEntry]
           /\ UNCHANGED freeIndex
  /\ rc' = "True" /\ FreeKey(k)
  /\ UNCHANGED <<capacity, hung>>

RemoveAbsent(k) ==
  /\ ~ hung
  /\ Stop(k) = Invalid
  /\ rc' = "False"
  /\ UNCHANGED <<capacity, freeIndex, data, copies, hung>>

\* the walk comes to another key with the same hash and does not move on
RemoveHangs(k) ==
  /\ ~ hung
  /\ Stop(k) # Invalid /\ data[Stop(k)].key # k
  /\ hung' = TRUE
  /\ UNCHANGED <<capacity, freeIndex, data, copies, rc>>

\* tbl_deinit: tbl_free_keys goes over the capacity
Deinit ==
  /\ ~ hung
  /\ copies' = [k \in StrKeys |->
                  copies[k] - Cardinality({i \in 0 .. capacity - 1 : data[i].key = k})]
  /\ capacity' = 0 /\ freeIndex' = 0 /\ data' = Entries(0)
  /\ UNCHANGED <<rc, hung>>

Next ==
  \/ \E k \in Keys :
       \/ \E v \in Values : SetFirst(k, v) \/ Set(k, v) \/ SetGrows(k, v) \/ SetFails(k)
       \/ Remove(k) \/ RemoveAbsent(k) \/ RemoveHangs(k)
  \/ Deinit

Spec == Init /\ [][Next]_vars

-----------------------------------------------------------------------------
TypeOK ==
  /\ capacity \in 0 .. Cardinality(DOMAIN data)
  /\ freeIndex \in 0 .. capacity - 1 \cup {IF capacity = 0 THEN 0 ELSE Invalid}
  /\ \A i \in DOMAIN data :
       /\ data[i].key \in Keys \cup {NoKey}
       /\ data[i].value \in Values \cup {NoKey}
       /\ data[i].next \in DOMAIN data \cup {Invalid}
  /\ copies \in [StrKeys -> Nat]
  /\ rc \in {"None", "Again", "OutOfMemory", "True", "False"}
  /\ hung \in BOOLEAN

Used == {i \in DOMAIN data : ~ IsEmpty(data[i])}

(* tbl_for_each visits the keys that tbl_get finds, and each once: an entry in use
   lies within the capacity and is the one tbl_get finds for its key. It does not
   hold of every set of keys: see KeysAreUnique. *)
VisitedIsFound == \A i \in Used : i < capacity /\ Lookup(data[i].key) = i

(* The free index is an empty entry or invalid, whatever was removed below and above
   it: an insertion there overwrites nothing. *)
FreeIsEmpty ==
  (capacity # 0 /\ freeIndex # Invalid) => IsEmpty(data[freeIndex])

(* No entry is a link of two chains, and no empty entry is a link of one: what
   tbl_remove frees and moves is no longer referred to. *)
ChainsApart ==
  /\ \A i, j \in DOMAIN data :
       (data[i].next = data[j].next /\ data[i].next # Invalid) => i = j
  /\ \A i \in DOMAIN data : data[i].next # Invalid => {i, data[i].next} \subseteq Used

(* A string key has one copy as long as it is in the table and none otherwise: an
   eviction, a growth and the move of a removal hand the copy on, and tbl_free_keys
   misses none. *)
CopiesOwned ==
  \A k \in StrKeys : copies[k] = Cardinality({i \in Used : data[i].key = k})

(* The table is in order after every call: the parts above, of which each is broken
   by a removal, an eviction or a growth that forgets one of its links. *)
TableInOrder == TypeOK /\ VisitedIsFound /\ FreeIsEmpty /\ ChainsApart /\ CopiesOwned

(* The table is the map of KeyMap: a key is found with the value it was set to
   until it is removed, and the calls answer as they should, wherever collisions
   and evictions have put the entries. *)
Map == INSTANCE KeyMap WITH
  map <- [k \in {l \in Keys : Lookup(l) # Invalid} |-> data[Lookup(k)].value]

ImplementsMap == Map!Spec

(* "Check if we already have this key in the table, and abort if so"
   (eqp_hash_tbl.c:289): no key is in the table twice. It fails for keys with an odd
   hash, which tbl_realloc and tbl_set place by different masks. *)
KeysAreUnique == \A i, j \in Used : data[i].key = data[j].key => i = j
=============================================================================
