------------------------------- MODULE DbThread -------------------------------
(***************************************************************************)
(* Scheduling of SQL on the database thread: db_thread.c with db.c,        *)
(* db_query.c, db_transaction.c and the synchronous part of db_stmt.c.     *)
(*                                                                         *)
(* The main thread makes queries and transactions and pushes them into the *)
(* input ring; the database thread pops them into two arrays, executes     *)
(* them, and pushes the queries that were executed (a transaction becomes  *)
(* the query of its COMMIT) into the callback ring of their Database,      *)
(* where the main thread finds them and runs their callbacks.  Every query *)
(* and transaction holds a reference to its Database, and so does the main *)
(* thread; whoever drops the last reference closes and frees it.           *)
(*                                                                         *)
(* Rings are queues here: each has one producer and one consumer, and then *)
(* RingBuf shows that a push and a pop of it are as good as atomic. How    *)
(* the thread is stopped in detail is in WorkerThread.  What SQLite        *)
(* answers is the choice of the environment.                               *)
(***************************************************************************)
EXTENDS Naturals, Sequences, FiniteSets

CONSTANTS
  Databases,
  UserQueries,     \* queries the main thread may schedule
  Transactions,    \* transactions the main thread may schedule
  NoObject,
  InputSize,       \* packets the input ring holds
  CallbackSize,    \* packets a callback ring holds
  SharedFile       \* whether the databases are connections to the same file

Commit(x) == <<"COMMIT", x>>
Commits   == {Commit(x) : x \in Transactions}
Queries   == UserQueries \cup Commits
Scheduled == UserQueries \cup Transactions
Objects   == Scheduled \cup Commits

ASSUME DbAssumption ==
  /\ InputSize \in Nat /\ CallbackSize \in Nat
  /\ SharedFile \in BOOLEAN
  /\ NoObject \notin Objects
  /\ UserQueries \cap Transactions = {} /\ Scheduled \cap Commits = {}

VARIABLES
  (* the Database structs *)
  refCount, open,       \* the count, and FALSE once closed and freed
  callbackQueue,
  handle,               \* the main thread still holds its reference
  inTxn,                \* the SQLite connection has an open transaction
  commitLost,           \* history: a COMMIT was not prepared or failed
  (* the Query and Transaction structs *)
  state, dbOf,
  result,               \* of a query: "none", "rows" (a cursor is open), "done"
  called,               \* history: how often its callback ran
  (* the DbThread struct *)
  inputQueue, sem, stopping, queries, transactions,
  (* program counters and locals *)
  mpc, mobj, mdb,       \* the main thread
  dpc, di               \* the database thread, and its loop index

dbVars     == <<refCount, open, callbackQueue, handle, inTxn, commitLost>>
objVars    == <<state, dbOf, result, called>>
arrayVars  == <<queries, transactions>>
threadVars == <<inputQueue, sem, stopping, arrayVars>>
mainVars   == <<mpc, mobj, mdb>>
dthrVars   == <<dpc, di>>
vars == <<dbVars, objVars, threadVars, mainVars, dthrVars>>

Init ==
  /\ refCount = [d \in Databases |-> 1]
  /\ open = [d \in Databases |-> TRUE]
  /\ callbackQueue = [d \in Databases |-> <<>>]
  /\ handle = [d \in Databases |-> TRUE]
  /\ inTxn = [d \in Databases |-> FALSE]
  /\ commitLost = [d \in Databases |-> FALSE]
  /\ state = [o \in Objects |-> "none"]
  /\ dbOf = [o \in Objects |-> NoObject]
  /\ result = [q \in Queries |-> "none"]
  /\ called = [o \in Objects |-> 0]
  /\ inputQueue = <<>> /\ sem = 0 /\ stopping = FALSE
  /\ queries = <<>> /\ transactions = <<>>
  /\ mpc = "idle" /\ mobj = NoObject /\ mdb = NoObject
  /\ dpc = "wait" /\ di = 1

MainGoto(from, to) == mpc = from /\ mpc' = to
DbGoto(from, to)   == dpc = from /\ dpc' = to

-----------------------------------------------------------------------------
(* query_create, transact_create, query_destroy, transact_destroy, db_drop *)

\* mutant: without db_grab
CreateNoGrab(o, d) ==
  /\ state[o] = "none"
  /\ state' = [state EXCEPT ![o] = "live"]
  /\ dbOf' = [dbOf EXCEPT ![o] = d]
  /\ UNCHANGED refCount

Create(o, d) ==
  /\ state[o] = "none"
  /\ state' = [state EXCEPT ![o] = "live"]
  /\ dbOf' = [dbOf EXCEPT ![o] = d]
  /\ refCount' = [refCount EXCEPT ![d] = @ + 1]

\* one atomic subtraction; nobody else has a reference when the count was 1
DropRef(d) ==
  /\ refCount' = [refCount EXCEPT ![d] = @ - 1]
  /\ open' = [open EXCEPT ![d] = refCount[d] > 1]

Destroy(o) ==
  /\ state' = [state EXCEPT ![o] = "freed"]
  /\ DropRef(dbOf[o])
  /\ UNCHANGED <<dbOf, handle>>

-----------------------------------------------------------------------------
(* The main thread: db_sched_ud and db_sched_transact_ud *)

SchedCreate(d, o) ==
  /\ o \in Scheduled /\ handle[d] /\ ~ stopping
  /\ MainGoto("idle", "schedPush")
  /\ Create(o, d)
  /\ mobj' = o
  /\ UNCHANGED <<open, callbackQueue, handle, inTxn, commitLost, result, called,
                 threadVars, mdb, dthrVars>>

SchedPush ==
  /\ MainGoto("schedPush", "schedTrigger")
  /\ Len(inputQueue) < InputSize
  /\ inputQueue' = Append(inputQueue, mobj)
  /\ UNCHANGED <<dbVars, objVars, sem, stopping, arrayVars, mobj, mdb, dthrVars>>

\* ERR_OutOfSpace: the object is destroyed again
SchedFull ==
  /\ MainGoto("schedPush", "idle")
  /\ Len(inputQueue) = InputSize
  /\ Destroy(mobj)
  /\ UNCHANGED <<callbackQueue, inTxn, commitLost, result, called, threadVars,
                 mobj, mdb, dthrVars>>

SchedTrigger ==
  /\ MainGoto("schedTrigger", "schedLog")
  /\ sem' = sem + 1
  /\ UNCHANGED <<dbVars, objVars, inputQueue, stopping, arrayVars, mobj, mdb, dthrVars>>

\* the log message reads the id and the SQL of the object
SchedLog ==
  /\ MainGoto("schedLog", "idle")
  /\ UNCHANGED <<dbVars, objVars, threadVars, mobj, mdb, dthrVars>>

(* The main thread: db_exec_callbacks *)

CallbacksBegin(d) ==
  /\ handle[d]
  /\ MainGoto("idle", "cbPop")
  /\ mdb' = d
  /\ UNCHANGED <<dbVars, objVars, threadVars, mobj, dthrVars>>

CallbacksPop ==
  /\ MainGoto("cbPop", "cbRun")
  /\ callbackQueue[mdb] # <<>>
  /\ mobj' = Head(callbackQueue[mdb])
  /\ callbackQueue' = [callbackQueue EXCEPT ![mdb] = Tail(@)]
  /\ UNCHANGED <<refCount, open, handle, inTxn, commitLost, objVars, threadVars,
                 mdb, dthrVars>>

CallbacksEnd ==
  /\ MainGoto("cbPop", "idle")
  /\ callbackQueue[mdb] = <<>>
  /\ UNCHANGED <<dbVars, objVars, threadVars, mobj, mdb, dthrVars>>

CallbackRun ==
  /\ MainGoto("cbRun", "cbDestroy")
  /\ called' = [called EXCEPT ![mobj] = @ + 1]
  /\ UNCHANGED <<dbVars, state, dbOf, result, threadVars, mobj, mdb, dthrVars>>

CallbackDestroy ==
  /\ MainGoto("cbDestroy", "cbPop")
  /\ Destroy(mobj)
  /\ UNCHANGED <<callbackQueue, inTxn, commitLost, result, called, threadVars,
                 mobj, mdb, dthrVars>>

(* The main thread: db_drop, db_thread_deinit *)

DropHandle(d) ==
  /\ mpc = "idle" /\ handle[d]
  /\ handle' = [handle EXCEPT ![d] = FALSE]
  /\ DropRef(d)
  /\ UNCHANGED <<callbackQueue, inTxn, commitLost, objVars, threadVars, mainVars, dthrVars>>

\* mutant: the stop signal does not wake the thread
StopSilent ==
  /\ ~ stopping
  /\ MainGoto("idle", "stopWait")
  /\ stopping' = TRUE
  /\ UNCHANGED <<dbVars, objVars, inputQueue, sem, arrayVars, mobj, mdb, dthrVars>>

\* thread_stop_all_in_one
StopBegin ==
  /\ ~ stopping
  /\ MainGoto("idle", "stopWait")
  /\ stopping' = TRUE
  /\ sem' = sem + 1
  /\ UNCHANGED <<dbVars, objVars, inputQueue, arrayVars, mobj, mdb, dthrVars>>

\* the thread has ended: the arrays, the ring and the DbThread are freed
StopEnd ==
  /\ MainGoto("stopWait", "idle")
  /\ DbGoto("exited", "freed")
  /\ UNCHANGED <<dbVars, objVars, threadVars, mobj, mdb, di>>

-----------------------------------------------------------------------------
(* The database thread: db_thread_proc *)

DbWait ==
  /\ DbGoto("wait", "drain")
  /\ sem > 0
  /\ sem' = sem - 1
  /\ UNCHANGED <<dbVars, objVars, inputQueue, stopping, arrayVars, mainVars, di>>

\* sem_wait returns an error: the loop ends
DbWaitFails ==
  /\ DbGoto("wait", "exited")
  /\ UNCHANGED <<dbVars, objVars, threadVars, mainVars, di>>

\* mutant: both opcodes go to the array of queries
DrainMixed ==
  /\ dpc = "drain" /\ inputQueue # <<>>
  /\ queries' = Append(queries, Head(inputQueue))
  /\ inputQueue' = Tail(inputQueue)
  /\ UNCHANGED <<dbVars, objVars, sem, stopping, transactions, mainVars, dthrVars>>

DrainKeeps ==
  /\ dpc = "drain" /\ inputQueue # <<>>
  /\ LET o == Head(inputQueue) IN
     IF o \in Transactions
     THEN transactions' = Append(transactions, o) /\ UNCHANGED queries
     ELSE queries' = Append(queries, o) /\ UNCHANGED transactions
  /\ inputQueue' = Tail(inputQueue)
  /\ UNCHANGED <<dbVars, objVars, sem, stopping, mainVars, dthrVars>>

\* the array cannot grow: the object is aborted
DrainAborts ==
  /\ dpc = "drain" /\ inputQueue # <<>>
  /\ Destroy(Head(inputQueue))
  /\ inputQueue' = Tail(inputQueue)
  /\ UNCHANGED <<callbackQueue, inTxn, commitLost, result, called, sem, stopping,
                 arrayVars, mainVars, dthrVars>>

DrainAgain ==
  /\ DbGoto("drain", "transBegin")
  /\ inputQueue = <<>>
  /\ di' = 1
  /\ UNCHANGED <<dbVars, objVars, threadVars, mainVars>>

LoopAgain ==
  /\ DbGoto("loopEnd", "drain")
  /\ queries # <<>> \/ transactions # <<>>
  /\ UNCHANGED <<dbVars, objVars, threadVars, mainVars, di>>

\* mutant: waits for the semaphore although queries are left
LoopEndsEarly ==
  /\ DbGoto("loopEnd", "stopCheck")
  /\ UNCHANGED <<dbVars, objVars, threadVars, mainVars, di>>

LoopEnds ==
  /\ dpc = "loopEnd"
  /\ queries = <<>> /\ transactions = <<>>
  /\ dpc' = "stopCheck"
  /\ UNCHANGED <<dbVars, objVars, threadVars, mainVars, di>>

ShouldStop ==
  /\ dpc = "stopCheck"
  /\ dpc' = IF stopping THEN "exited" ELSE "wait"
  /\ UNCHANGED <<dbVars, objVars, threadVars, mainVars, di>>

-----------------------------------------------------------------------------
(* db_thread_exec_transactions *)

Trans == transactions[di]
TDb   == dbOf[Trans]
AtTrans(pc) == dpc = pc /\ di <= Len(transactions)

\* another connection to the file has begun to write: BEGIN IMMEDIATE is busy
WriterElsewhere(d) == SharedFile /\ \E e \in Databases \ {d} : inTxn[e]

\* a cursor of another connection holds the file's read lock: COMMIT is busy
CursorElsewhere(d) ==
  /\ SharedFile
  /\ \E q \in Queries :
        state[q] = "live" /\ result[q] = "rows" /\ dbOf[q] \in Databases \ {d}

TransBeginOk ==
  /\ AtTrans("transBegin")
  /\ ~ inTxn[TDb] /\ ~ WriterElsewhere(TDb)
  /\ dpc' = "transCallback"
  /\ inTxn' = [inTxn EXCEPT ![TDb] = TRUE]
  /\ UNCHANGED <<refCount, open, callbackQueue, handle, commitLost, objVars,
                 threadVars, mainVars, di>>

\* BEGIN IMMEDIATE is not prepared or fails
TransBeginFails ==
  /\ AtTrans("transBegin")
  /\ dpc' = "transSkip"
  /\ UNCHANGED <<dbVars, objVars, threadVars, mainVars, di>>

\* mutant: no COMMIT
TransCallbackNoCommit ==
  /\ DbGoto("transCallback", "transSkip")
  /\ called' = [called EXCEPT ![Trans] = @ + 1]
  /\ UNCHANGED <<dbVars, state, dbOf, result, threadVars, mainVars, di>>

TransCallback ==
  /\ DbGoto("transCallback", "commitPrep")
  /\ called' = [called EXCEPT ![Trans] = @ + 1]
  /\ UNCHANGED <<dbVars, state, dbOf, result, threadVars, mainVars, di>>

CommitPrepared ==
  /\ DbGoto("commitPrep", "commitStep")
  /\ Create(Commit(Trans), TDb)
  /\ UNCHANGED <<open, callbackQueue, handle, inTxn, commitLost, result, called,
                 threadVars, mainVars, di>>

CommitNotPrepared ==
  /\ DbGoto("commitPrep", "transSkip")
  /\ commitLost' = [commitLost EXCEPT ![TDb] = TRUE]
  /\ UNCHANGED <<refCount, open, callbackQueue, handle, inTxn, objVars,
                 threadVars, mainVars, di>>

CommitDone ==
  /\ DbGoto("commitStep", "commitQueue")
  /\ ~ CursorElsewhere(TDb)
  /\ inTxn' = [inTxn EXCEPT ![TDb] = FALSE]
  /\ result' = [result EXCEPT ![Commit(Trans)] = "done"]
  /\ UNCHANGED <<refCount, open, callbackQueue, handle, commitLost, state, dbOf,
                 called, threadVars, mainVars, di>>

\* an error of SQLite that may or may not have rolled the transaction back
CommitFails ==
  /\ DbGoto("commitStep", "transSkip")
  /\ Destroy(Commit(Trans))
  /\ commitLost' = [commitLost EXCEPT ![TDb] = TRUE]
  /\ \E still \in BOOLEAN : inTxn' = [inTxn EXCEPT ![TDb] = still]
  /\ UNCHANGED <<callbackQueue, result, called, threadVars, mainVars, di>>

CommitQueued ==
  /\ DbGoto("commitQueue", "transSkip")
  /\ Len(callbackQueue[TDb]) < CallbackSize
  /\ callbackQueue' = [callbackQueue EXCEPT ![TDb] = Append(@, Commit(Trans))]
  /\ UNCHANGED <<refCount, open, handle, inTxn, commitLost, objVars, threadVars,
                 mainVars, di>>

\* mutant: goes to skip, not to dest_query
CommitNotQueuedLeaks ==
  /\ DbGoto("commitQueue", "transSkip")
  /\ Len(callbackQueue[TDb]) = CallbackSize
  /\ UNCHANGED <<dbVars, objVars, threadVars, mainVars, di>>

CommitNotQueued ==
  /\ DbGoto("commitQueue", "transSkip")
  /\ Len(callbackQueue[TDb]) = CallbackSize
  /\ Destroy(Commit(Trans))
  /\ UNCHANGED <<callbackQueue, inTxn, commitLost, result, called, threadVars,
                 mainVars, di>>

TransSkip ==
  /\ DbGoto("transSkip", "transBegin")
  /\ Destroy(Trans)
  /\ di' = di + 1
  /\ UNCHANGED <<callbackQueue, inTxn, commitLost, result, called, threadVars, mainVars>>

TransEnd ==
  /\ DbGoto("transBegin", "query")
  /\ di > Len(transactions)
  /\ transactions' = <<>>
  /\ di' = 1
  /\ UNCHANGED <<dbVars, objVars, inputQueue, sem, stopping, queries, mainVars>>

-----------------------------------------------------------------------------
(* db_thread_exec_queries *)

Query == queries[di]
QDb   == dbOf[Query]
AtQuery == dpc = "query" /\ di <= Len(queries)

SwapAndPop(s, i) == SubSeq([s EXCEPT ![i] = s[Len(s)]], 1, Len(s) - 1)

QueryExecuted ==
  /\ AtQuery
  /\ dpc' = "queryQueue"
  /\ \E r \in {"rows", "done"} : result' = [result EXCEPT ![Query] = r]
  /\ UNCHANGED <<dbVars, state, dbOf, called, threadVars, mainVars, di>>

QueryBusy ==
  /\ AtQuery
  /\ di' = di + 1
  /\ UNCHANGED <<dbVars, objVars, threadVars, mainVars, dpc>>

QueryError ==
  /\ AtQuery
  /\ Destroy(Query)
  /\ queries' = SwapAndPop(queries, di)
  /\ UNCHANGED <<callbackQueue, inTxn, commitLost, result, called, inputQueue, sem,
                 stopping, transactions, mainVars, dthrVars>>

QueryQueued ==
  /\ DbGoto("queryQueue", "queryPop")
  /\ Len(callbackQueue[QDb]) < CallbackSize
  /\ callbackQueue' = [callbackQueue EXCEPT ![QDb] = Append(@, Query)]
  /\ UNCHANGED <<refCount, open, handle, inTxn, commitLost, objVars, threadVars,
                 mainVars, di>>

\* the main thread has the query now, and may be done with it
QueryPop ==
  /\ DbGoto("queryPop", "query")
  /\ queries' = SwapAndPop(queries, di)
  /\ UNCHANGED <<dbVars, objVars, inputQueue, sem, stopping, transactions, mainVars, di>>

QueryNotQueued ==
  /\ DbGoto("queryQueue", "query")
  /\ Len(callbackQueue[QDb]) = CallbackSize
  /\ Destroy(Query)
  /\ queries' = SwapAndPop(queries, di)
  /\ UNCHANGED <<callbackQueue, inTxn, commitLost, result, called, inputQueue, sem,
                 stopping, transactions, mainVars, di>>

QueriesEnd ==
  /\ DbGoto("query", "loopEnd")
  /\ di > Len(queries)
  /\ UNCHANGED <<dbVars, objVars, threadVars, mainVars, di>>

-----------------------------------------------------------------------------
SchedStep    == SchedPush \/ SchedFull \/ SchedTrigger \/ SchedLog
CallbackStep == CallbacksPop \/ CallbacksEnd \/ CallbackRun \/ CallbackDestroy

MainNext ==
  \/ \E d \in Databases :
       (\E o \in Scheduled : SchedCreate(d, o)) \/ CallbacksBegin(d) \/ DropHandle(d)
  \/ SchedStep \/ CallbackStep
  \/ StopBegin \/ StopEnd

LoopStep  == DbWait \/ DbWaitFails \/ LoopAgain \/ LoopEnds \/ ShouldStop
DrainStep == DrainKeeps \/ DrainAborts \/ DrainAgain
TransStep ==
  \/ TransBeginOk \/ TransBeginFails \/ TransCallback
  \/ CommitPrepared \/ CommitNotPrepared \/ CommitDone \/ CommitFails
  \/ CommitQueued \/ CommitNotQueued \/ TransSkip \/ TransEnd
QueryStep ==
  \/ QueryExecuted \/ QueryBusy \/ QueryError
  \/ QueryQueued \/ QueryPop \/ QueryNotQueued \/ QueriesEnd

DbNext == LoopStep \/ DrainStep \/ TransStep \/ QueryStep

Next == MainNext \/ DbNext

Spec == Init /\ [][Next]_vars

\* SQLite answers BUSY, and the thread retries, for as long as the file is locked
SqlBusy ==
  \/ AtTrans("transBegin") /\ WriterElsewhere(TDb)
  \/ dpc = "commitStep" /\ CursorElsewhere(TDb)

SleepsForever == dpc = "wait" /\ sem = 0

Answered(q) == AtQuery /\ Query = q /\ (QueryExecuted \/ QueryError)

\* The scheduler runs the database thread, and the main thread within an
\* operation; no query is answered BUSY forever.
FairSpec ==
  /\ Spec
  /\ WF_vars(~ SqlBusy /\ ~ SleepsForever /\ DbNext)
  /\ \A q \in UserQueries : SF_vars(Answered(q))
  /\ WF_vars(SchedStep \/ CallbackStep \/ StopEnd)

-----------------------------------------------------------------------------
MainPc  == {"idle", "schedPush", "schedTrigger", "schedLog",
            "cbPop", "cbRun", "cbDestroy", "stopWait"}
TransPc == {"transBegin", "transCallback", "commitPrep", "commitStep",
            "commitQueue", "transSkip"}
DbPc    == TransPc \cup {"wait", "drain", "query", "queryQueue", "queryPop",
                         "loopEnd", "stopCheck", "exited", "freed"}

TypeOK ==
  /\ refCount \in [Databases -> Nat]
  /\ open \in [Databases -> BOOLEAN]
  /\ callbackQueue \in [Databases -> Seq(Queries)]
  /\ handle \in [Databases -> BOOLEAN]
  /\ inTxn \in [Databases -> BOOLEAN]
  /\ commitLost \in [Databases -> BOOLEAN]
  /\ state \in [Objects -> {"none", "live", "freed"}]
  /\ dbOf \in [Objects -> Databases \cup {NoObject}]
  /\ result \in [Queries -> {"none", "rows", "done"}]
  /\ called \in [Objects -> Nat]
  /\ inputQueue \in Seq(Scheduled) /\ sem \in Nat /\ stopping \in BOOLEAN
  /\ queries \in Seq(UserQueries) /\ transactions \in Seq(Transactions)
  /\ mpc \in MainPc /\ mobj \in Objects \cup {NoObject}
  /\ mdb \in Databases \cup {NoObject}
  /\ dpc \in DbPc /\ di \in Nat \ {0}

(* db_grab and db_drop balance over every path of a query or a transaction: the
   count is the number of live objects of the database plus the main thread's own
   reference, and the database is closed exactly when nobody refers to it. *)
RefCountExact ==
  \A d \in Databases :
    /\ refCount[d] = Cardinality({o \in Objects : state[o] = "live" /\ dbOf[o] = d})
                     + (IF handle[d] THEN 1 ELSE 0)
    /\ open[d] <=> refCount[d] > 0

PlacesOf(s, o) == {i \in 1 .. Len(s) : s[i] = o}
Places(s, o)   == Cardinality(PlacesOf(s, o))

\* the active objects the database thread has not given away or destroyed
ActiveTransactions ==
  IF dpc \in TransPc THEN SubSeq(transactions, di, Len(transactions)) ELSE transactions
ActiveQueries ==
  IF dpc = "queryPop" THEN SwapAndPop(queries, di) ELSE queries

CallbackPlaces(o) == UNION {{d} \X PlacesOf(callbackQueue[d], o) : d \in Databases}

InMainHand(o)   == mpc \in {"schedPush", "cbRun", "cbDestroy"} /\ mobj = o
InThreadHand(o) == dpc \in {"commitStep", "commitQueue"} /\ Commit(Trans) = o

Owners(o) ==
  Places(inputQueue, o) + Places(ActiveTransactions, o) + Places(ActiveQueries, o)
  + Cardinality(CallbackPlaces(o))
  + (IF InMainHand(o) THEN 1 ELSE 0) + (IF InThreadHand(o) THEN 1 ELSE 0)

(* Ownership of a query or transaction is passed on, never shared or dropped: a live
   one is in exactly one place (a ring, an array, or the hands of one thread), and a
   destroyed one is in none, so that none is destroyed twice, used after it was
   destroyed, or lost. *)
OneOwner ==
  \A o \in Objects : Owners(o) = IF state[o] = "live" THEN 1 ELSE 0

(* The thread leaves its loop, whatever makes it do so, with both arrays empty: the
   database thread's array_deinit is given no destructor and would leak the rest. *)
ArraysEmptyAtExit ==
  dpc \in {"exited", "freed"} => queries = <<>> /\ transactions = <<>>

(* Queries are executed outside the transactions of others: a connection has an open
   transaction only while the thread is between its BEGIN and its COMMIT, as long as
   no COMMIT of that database was lost (the code never rolls back). Callbacks come in
   their place: that of a transaction runs inside its own bracket, that of a query
   after the query was executed, and none a second time. *)
TransactionBracket ==
  /\ \A d \in Databases :
       inTxn[d] /\ ~ commitLost[d] =>
         /\ dpc \in {"transCallback", "commitPrep", "commitStep"}
         /\ TDb = d
  /\ dpc = "commitPrep" => inTxn[TDb] /\ called[Trans] = 1
  /\ \A q \in Queries : called[q] > 0 => called[q] = 1 /\ result[q] # "none"

(* A query that was scheduled is executed or destroyed, and a transaction is finished,
   unless the thread has left its loop. *)
ScheduledIsDone ==
  \A o \in Scheduled :
    (\E i \in 1 .. Len(inputQueue) : inputQueue[i] = o) ~>
      \/ state[o] = "freed"
      \/ o \in UserQueries /\ result[o] # "none"
      \/ dpc \in {"exited", "freed"}

(* db_thread_deinit returns: the thread it waits for ends. *)
StopCompletes == stopping ~> dpc = "freed"
=============================================================================
