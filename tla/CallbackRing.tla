---------------------------- MODULE CallbackRing ----------------------------
(***************************************************************************)
(* The callback ring of a Database and the references that keep it: the    *)
(* database thread pushes executed queries into the ring, the main thread  *)
(* pops them in db_exec_callbacks, runs their callbacks and destroys them, *)
(* and whoever drops the last reference destroys the ring.                 *)
(*                                                                         *)
(* Nothing in the code keeps a ring that somebody is still within.  The    *)
(* model lets the threads go on, as if the memory kept what it held.       *)
(*                                                                         *)
(* The ring is RingBuf with its single steps; its packet k is the k-th     *)
(* query that was pushed.  DbThread has the rest of a query's life.        *)
(***************************************************************************)
EXTENDS RingBuf

CONSTANTS db, main   \* the two threads

\* one thread pushes and the other pops
CallbackAssumption == Producers = {db} /\ Consumers = {main} /\ db # main

VARIABLES
  memory,      \* of the Database and its ring: allocated or freed
  refCount,
  holds,       \* the main thread has a reference of its own
  scheduled,   \* queries created
  failed,      \* of these, executed with an error and never pushed
  destroyed,   \* of these, destroyed
  at,          \* what a thread does between two operations on the ring
  ended        \* the database thread has ended

refVars   == <<memory, refCount, holds, scheduled, failed, destroyed>>
stageVars == <<at, ended>>
cbVars == <<vars, refVars, stageVars>>

CbInit ==
  /\ Init
  /\ memory = "allocated" /\ refCount = 1 /\ holds = TRUE
  /\ scheduled = 0 /\ failed = 0 /\ destroyed = 0
  /\ at = [t \in Threads |-> "idle"] /\ ended = FALSE

Moves(t, from, to) == at[t] = from /\ at' = [at EXCEPT ![t] = to]

Pending == scheduled - pushes - failed

\* mutant: aint32_sub taken for a function that gives the new value
DropRefNew ==
  /\ refCount' = refCount - 1
  /\ memory' = IF refCount' > 1 THEN memory ELSE "freed"

\* db_drop: aint32_sub gives the value there was before
DropRef ==
  /\ refCount' = refCount - 1
  /\ memory' = IF refCount > 1 THEN memory ELSE "freed"

QueryDestroy ==
  /\ DropRef
  /\ destroyed' = destroyed + 1
  /\ UNCHANGED <<holds, scheduled, failed>>

-----------------------------------------------------------------------------
(* The main thread *)

\* query_create grabs the database; also from within a callback
Schedule ==
  /\ holds /\ at[main] \in {"idle", "callback"}
  /\ scheduled < MaxPushes
  /\ scheduled' = scheduled + 1
  /\ refCount' = refCount + 1
  /\ UNCHANGED <<vars, memory, holds, failed, destroyed, stageVars>>

ExecCallbacks ==
  /\ holds
  /\ Moves(main, "idle", "popping")
  /\ UNCHANGED <<vars, refVars, ended>>

PopNext ==
  /\ at[main] = "popping"
  /\ PopCall(main)
  /\ UNCHANGED <<refVars, stageVars>>

PopReturns ==
  /\ \/ PopEmpty(main) /\ Moves(main, "popping", "idle")
     \/ PopDone(main) /\ Moves(main, "popping", "callback")
  /\ UNCHANGED <<refVars, ended>>

PopGoesOn ==
  /\ PopStep(main) /\ pc'[main] # "idle"
  /\ UNCHANGED <<refVars, stageVars>>

\* query_exec_callback has returned, and the loop goes on with the ring
CallbackEnd ==
  /\ Moves(main, "callback", "popping")
  /\ QueryDestroy
  /\ UNCHANGED <<vars, ended>>

\* db_drop, at any time, also by a callback
MainDrops ==
  /\ holds /\ at[main] \in {"idle", "callback"}
  /\ holds' = FALSE
  /\ DropRef
  /\ UNCHANGED <<vars, scheduled, failed, destroyed, stageVars>>

-----------------------------------------------------------------------------
(* The database thread *)

QueueCallback ==
  /\ Moves(db, "idle", "pushing")
  /\ Pending > 0 /\ ~ ended
  /\ PushCall(db)
  /\ UNCHANGED <<refVars, ended>>

PushGoesOn ==
  /\ PushStep(db) /\ pc'[db] # "idle"
  /\ UNCHANGED <<refVars, stageVars>>

\* pushed, the query belongs to the main thread; not pushed, it is destroyed here
PushReturns ==
  /\ \/ PushDone(db) /\ Moves(db, "pushing", "idle")
     \/ PushFull(db) /\ Moves(db, "pushing", "destroying")
  /\ UNCHANGED <<refVars, ended>>

ExecFails ==
  /\ Moves(db, "idle", "destroying")
  /\ Pending > 0 /\ ~ ended
  /\ failed' = failed + 1
  /\ UNCHANGED <<vars, memory, refCount, holds, scheduled, destroyed, ended>>

DbDestroys ==
  /\ Moves(db, "destroying", "idle")
  /\ QueryDestroy
  /\ UNCHANGED <<vars, ended>>

\* db_thread_deinit waits for it; queries may be left in the input ring
ThreadEnds ==
  /\ at[db] = "idle" /\ ~ ended
  /\ ended' = TRUE
  /\ UNCHANGED <<vars, refVars, at>>

CbNext ==
  \/ Schedule \/ ExecCallbacks \/ PopNext \/ PopReturns \/ PopGoesOn \/ CallbackEnd \/ MainDrops
  \/ QueueCallback \/ PushGoesOn \/ PushReturns \/ ExecFails \/ DbDestroys \/ ThreadEnds

CbSpec == CbInit /\ [][CbNext]_cbVars

-----------------------------------------------------------------------------
CbTypeOK ==
  /\ memory \in {"allocated", "freed"} /\ refCount \in 0 .. MaxPushes + 1
  /\ holds \in BOOLEAN /\ ended \in BOOLEAN
  /\ scheduled \in 0 .. MaxPushes /\ failed \in 0 .. MaxPushes /\ destroyed \in 0 .. MaxPushes
  /\ at \in [Threads -> {"idle", "popping", "callback", "pushing", "destroying"}]

\* Nobody writes to a ring that has been freed, whenever the main thread drops its
\* reference: no packet is being copied or released and no flag is left to be cleared.
\* What may still be within it has only to find that there is nothing more: the push
\* of the last query, which the main thread has already popped, run and destroyed, and
\* the loop of db_exec_callbacks, if a callback of it has dropped the reference.
FreedRingOnlyRead ==
  memory = "freed" =>
    /\ pc[db] \in {"idle", "pushScan", "pushClear"}
    /\ pc[main] \in {"idle", "popEnter", "popCheck"}
    /\ \A i \in Blocks : ~ hasBeenWritten[i] /\ ~ hasBeenRead[i]

\* The Database is freed with its last reference and not before: no query is left in
\* the ring then or anywhere else, and if there is none and the main thread has let
\* go, it is freed.
FreedWithLastReference ==
  /\ memory = "freed" <=> ~ holds /\ destroyed = scheduled
  /\ memory = "freed" => taken = Reserved
=============================================================================
