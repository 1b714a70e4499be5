------------------------------- MODULE Array --------------------------------
(***************************************************************************)
(* eqp_array.c: a block of `capacity` elements of which the first `count`  *)
(* are in use.  The elements behind them keep what they last held.  Each   *)
(* action is one call.                                                     *)
(***************************************************************************)
EXTENDS Naturals, Sequences, FiniteSetsExt

CONSTANTS
  Values,      \* what callers put into the array
  MinCapacity, \* MIN_CAPACITY
  MaxCount     \* bound: the most elements

ASSUME ArrayAssumption == MinCapacity \in Nat \ {0} /\ MaxCount \in Nat

Stale == "stale"     \* an element nobody has written

VARIABLES
  elems,       \* the block; <<>> stands for the NULL pointer
  count, arCapacity,
  request, result, returned   \* the last call, its answer and the elements it gave out

arVars == <<elems, count, arCapacity, request, result, returned>>

InUse == SubSeq(elems, 1, count)

ArrayInit ==
  /\ elems = <<>> /\ count = 0 /\ arCapacity = 0
  /\ request = <<"init", 0>> /\ result = "ERR_None" /\ returned = <<>>

Requested(op, arg, rc, out) ==
  request' = <<op, arg>> /\ result' = rc /\ returned' = out

\* realloc keeps the elements that both blocks have
Resize(n) ==
  /\ elems' = [i \in 1 .. n |-> IF i <= Len(elems) THEN elems[i] ELSE Stale]
  /\ arCapacity' = n

Grown == IF arCapacity = 0 THEN MinCapacity ELSE 2 * arCapacity

\* the element at i becomes v, or stays as it is when the caller gives NULL
Stored(es, i, v) == IF v = Stale THEN es ELSE [es EXCEPT ![i] = v]

ArrayPushBack(v) ==
  /\ count < arCapacity /\ count < MaxCount
  /\ elems' = Stored(elems, count + 1, v)
  /\ count' = count + 1
  /\ Requested("extend", <<elems'[count + 1]>>, "ERR_None", <<>>)
  /\ UNCHANGED arCapacity

ArrayPushBackGrows(v) ==
  LET grown == [i \in 1 .. Grown |-> IF i <= Len(elems) THEN elems[i] ELSE Stale]
  IN /\ count = arCapacity /\ count < MaxCount
     /\ elems' = Stored(grown, count + 1, v)
     /\ count' = count + 1
     /\ arCapacity' = Grown
     /\ Requested("extend", <<elems'[count + 1]>>, "ERR_None", <<>>)

\* returns NULL
ArrayPushBackNoMemory(v) ==
  /\ count = arCapacity
  /\ Requested("extend", <<v>>, "ERR_OutOfMemory", <<>>)
  /\ UNCHANGED <<elems, count, arCapacity>>

ArrayPopBack ==
  /\ count' = IF count > 0 THEN count - 1 ELSE 0
  /\ Requested("pop", 0, "ERR_None", <<>>)
  /\ UNCHANGED <<elems, arCapacity>>

ArraySet(i, v) ==
  /\ i \in 1 .. count
  /\ elems' = [elems EXCEPT ![i] = v]
  /\ Requested("set", <<i, v>>, "ERR_None", <<>>)
  /\ UNCHANGED <<count, arCapacity>>

ArraySetBeyond(i, v) ==
  /\ i > count
  /\ Requested("set", <<i, v>>, "ERR_Invalid", <<>>)
  /\ UNCHANGED <<elems, count, arCapacity>>

\* array_get_raw and array_back_raw
ArrayGet(i) ==
  /\ i \in 1 .. count
  /\ Requested("get", i, "ERR_None", <<elems[i]>>)
  /\ UNCHANGED <<elems, count, arCapacity>>

\* they answer NULL
ArrayGetBeyond(i) ==
  /\ i > count
  /\ Requested("get", i, "ERR_Invalid", <<>>)
  /\ UNCHANGED <<elems, count, arCapacity>>

ArraySwapAndPop(i) ==
  /\ i \in 1 .. count
  /\ elems' = IF i = count THEN elems ELSE [elems EXCEPT ![i] = elems[count]]
  /\ count' = count - 1
  /\ Requested("swap", i, "ERR_None", <<>>)
  /\ UNCHANGED arCapacity

ArrayShiftLeft(n) ==
  /\ elems' = IF n < count
                THEN [i \in DOMAIN elems |-> IF i <= count - n THEN elems[i + n] ELSE elems[i]]
                ELSE elems
  /\ count' = IF n < count THEN count - n ELSE 0
  /\ Requested("shift", n, "ERR_None", <<>>)
  /\ UNCHANGED arCapacity

ArrayReserve(n) ==
  /\ IF arCapacity < n THEN Resize(n) ELSE UNCHANGED <<elems, arCapacity>>
  /\ Requested("reserve", n, "ERR_None", <<>>)
  /\ UNCHANGED count

ArrayReserveNoMemory(n) ==
  /\ arCapacity < n
  /\ Requested("reserve", n, "ERR_OutOfMemory", <<>>)
  /\ UNCHANGED <<elems, count, arCapacity>>

\* array_clear is the case of n = 0
ArrayClearIndexAndAbove(n) ==
  /\ count' = IF n < count THEN n ELSE count
  /\ Requested("truncate", n, "ERR_None", <<>>)
  /\ UNCHANGED <<elems, arCapacity>>

\* calls the destructor on each element in use
ArrayDeinit ==
  /\ Requested("deinit", 0, "ERR_None", InUse)
  /\ elems' = <<>> /\ count' = 0 /\ arCapacity' = 0

ArrayNext ==
  \/ \E v \in Values \cup {Stale} :
       ArrayPushBack(v) \/ ArrayPushBackGrows(v) \/ ArrayPushBackNoMemory(v)
  \/ \E i \in 1 .. MaxCount :
       \/ \E v \in Values : ArraySet(i, v) \/ ArraySetBeyond(i, v)
       \/ ArrayGet(i) \/ ArrayGetBeyond(i) \/ ArraySwapAndPop(i)
  \/ \E n \in 0 .. MaxCount :
       \/ ArrayShiftLeft(n) \/ ArrayClearIndexAndAbove(n)
       \/ ArrayReserve(n) \/ ArrayReserveNoMemory(n)
  \/ ArrayPopBack \/ ArrayDeinit
=============================================================================
