----------------------------- MODULE QueryCursor ----------------------------
(***************************************************************************)
(* What becomes of a statement: prepared by the main thread (db.c),        *)
(* executed by the database thread, and read by the callback on the main   *)
(* thread (db_query.c), with SQLite in between.                            *)
(*                                                                         *)
(* DbThread shows how queries are handed over; here a query is either in   *)
(* one hand or the other, and what counts is what is done with SQLite.     *)
(* One action is one call of SQLite, with what the caller does around it.  *)
(***************************************************************************)
EXTENDS Naturals

CONSTANTS
  Queries,     \* one statement each
  Selects,     \* those that have rows; the others write
  MaxRows,     \* bound: rows of one execution
  MaxCalls,    \* bound: calls of query_select and query_reset for a statement
  MaxExecs,    \* bound: calls of db_exec
  MaxOpens     \* bound: calls of db_open

ASSUME CursorAssumption ==
  /\ Selects \subseteq Queries
  /\ MaxRows \in Nat /\ MaxCalls \in Nat /\ MaxExecs \in Nat /\ MaxOpens \in Nat

Nobody == "nobody"

\* what a Row tells of a statement that is on no row: every column is NULL
NotARow == MaxRows + 1

VARIABLES
  handle,      \* db->sqlite: none, one whose opening failed, or one that is open
  opened,      \* db_open has answered ERR_None
  stmt,        \* SQLite's statement: its status, its position and its rows
  finals,      \* how often it was finalized
  holder,      \* who has the statement, or the Query with it
  hasResults, affectedRows,    \* fields of the Query
  changes,     \* sqlite3_changes: whose write was the last one of the connection
  runs,        \* how often the statement was executed
  mixed,       \* history: the main thread wrote before this write was counted
  fetched,     \* the row the callback was given last; 0 for NULL
  calls, execs, opens

dbVars    == <<handle, opened, opens>>
queryVars == <<hasResults, affectedRows, fetched, calls>>
writeVars == <<changes, mixed>>
vars == <<dbVars, stmt, finals, holder, queryVars, writeVars, runs, execs>>

NoStmt == [status |-> "none", pos |-> 0, size |-> 0]

Init ==
  /\ handle = "none" /\ opened = FALSE
  /\ stmt = [q \in Queries |-> NoStmt]
  /\ finals = [q \in Queries |-> 0]
  /\ holder = [q \in Queries |-> Nobody]
  /\ hasResults = [q \in Queries |-> FALSE]
  /\ affectedRows = [q \in Queries |-> Nobody]
  /\ changes = Nobody /\ mixed = {}
  /\ runs = [q \in Queries |-> 0]
  /\ fetched = [q \in Queries |-> 0]
  /\ calls = [q \in Queries |-> 0]
  /\ execs = 0 /\ opens = 0

-----------------------------------------------------------------------------
(* SQLite *)

Ready == [status |-> "ready", pos |-> 0, size |-> 0]
Done  == [status |-> "done", pos |-> 0, size |-> 0]
OnRow(p, n) == [status |-> "row", pos |-> p, size |-> n]

\* A statement that is not within its rows is executed from its start by the next
\* sqlite3_step, whether it was reset or has come to its end.
AtStart(q) == stmt[q].status \in {"ready", "done"}

StepRow(q) ==
  \/ /\ AtStart(q) /\ q \in Selects
     /\ \E n \in 1 .. MaxRows : stmt' = [stmt EXCEPT ![q] = OnRow(1, n)]
     /\ runs' = [runs EXCEPT ![q] = @ + 1]
  \/ /\ stmt[q].status = "row" /\ stmt[q].pos < stmt[q].size
     /\ stmt' = [stmt EXCEPT ![q].pos = @ + 1]
     /\ UNCHANGED runs

\* an execution that gives no row: that of a write, or of a query that finds none
RunsThrough(q) ==
  /\ AtStart(q)
  /\ runs' = [runs EXCEPT ![q] = @ + 1]

Finalize(q) ==
  /\ stmt' = [stmt EXCEPT ![q] = [NoStmt EXCEPT !.status = "final"]]
  /\ finals' = [finals EXCEPT ![q] = @ + 1]

\* The last write of the connection is one of the main thread's. The database thread
\* may be between its own sqlite3_step and its call of sqlite3_changes.
MainWrote(who) ==
  /\ changes' = who
  /\ mixed' = mixed \cup {q \in Queries : holder[q] = "stepped"}

Give(q, who) == holder' = [holder EXCEPT ![q] = who]

\* query_destroy finalizes the statement and frees the Query
Destroy(q) == Finalize(q) /\ Give(q, Nobody)

-----------------------------------------------------------------------------
(* The main thread: db_open, db_exec, db_prep, the stmt_ functions, db_sched *)

\* a client that db_open has failed may call it again
OpenedAs(h, ok) ==
  /\ opens < MaxOpens
  /\ ~ opened
  /\ opens' = opens + 1
  /\ handle' = h /\ opened' = ok
  /\ UNCHANGED <<stmt, finals, holder, queryVars, writeVars, runs, execs>>

\* the file was there, or has been created and its schema, if any, executed
DbOpen == OpenedAs("open", TRUE)

\* The database was created; its schema cannot be read or executed. (It is read
\* into a SimpleString that has no null at its end, so that what follows it in
\* memory may be executed, too.)
DbOpenSchemaFails == OpenedAs("open", FALSE)

\* the handle SQLite gives for a failed attempt stays in db->sqlite
DbOpenFails == OpenedAs("bad", FALSE)

\* without a connection, or with SQL that fails, it answers ERR_Invalid and does nothing
DbExec ==
  /\ execs < MaxExecs
  /\ handle = "open"
  /\ MainWrote("main")
  /\ execs' = execs + 1
  /\ UNCHANGED <<dbVars, stmt, finals, holder, queryVars, runs>>

\* NULL if there is no connection or an error in the SQL; it is retried while BUSY
DbPrep(q) ==
  /\ stmt[q].status = "none"
  /\ opens > 0
  /\ \/ handle = "open" /\ stmt' = [stmt EXCEPT ![q] = Ready]
     \/ stmt' = [stmt EXCEPT ![q].status = "null"]
  /\ Give(q, "client")
  /\ UNCHANGED <<dbVars, finals, queryVars, writeVars, runs, execs>>

StmtAbort(q) ==
  /\ holder[q] = "client"
  /\ Destroy(q)
  /\ UNCHANGED <<dbVars, queryVars, writeVars, runs, execs>>

\* mutant: it finalizes the statement if there is no memory for the Query
DbSchedNoMemoryAborts(q) ==
  /\ holder[q] = "client"
  /\ Finalize(q)
  /\ UNCHANGED <<dbVars, holder, queryVars, writeVars, runs, execs>>

\* db_sched_ud answers ERR_OutOfMemory if query_create fails; the statement stays
\* with the client, who may abort it or try again
DbSchedNoMemory(q) ==
  /\ holder[q] = "client"
  /\ UNCHANGED vars

\* with any other error it has destroyed the query and with it the statement
DbSchedFails(q) ==
  /\ holder[q] = "client"
  /\ Destroy(q)
  /\ UNCHANGED <<dbVars, queryVars, writeVars, runs, execs>>

DbSched(q) ==
  /\ holder[q] = "client"
  /\ Give(q, "input")
  /\ hasResults' = [hasResults EXCEPT ![q] = FALSE]
  /\ affectedRows' = [affectedRows EXCEPT ![q] = Nobody]
  /\ UNCHANGED <<dbVars, stmt, finals, fetched, calls, writeVars, runs, execs>>

-----------------------------------------------------------------------------
(* The database thread: query_exec_background and query_queue_callback *)

Idle == \A q \in Queries : holder[q] \notin {"stepped", "executed"}

\* SQLITE_ROW
ExecRow(q) ==
  /\ Idle /\ holder[q] = "input"
  /\ StepRow(q)
  /\ Give(q, "executed")
  /\ hasResults' = [hasResults EXCEPT ![q] = TRUE]
  /\ UNCHANGED <<dbVars, finals, affectedRows, fetched, calls, writeVars, execs>>

\* SQLITE_DONE
ExecDone(q) ==
  /\ Idle /\ holder[q] = "input"
  /\ RunsThrough(q)
  /\ stmt' = [stmt EXCEPT ![q] = Done]
  /\ changes' = IF q \in Selects THEN changes ELSE q
  /\ Give(q, "stepped")
  /\ hasResults' = [hasResults EXCEPT ![q] = FALSE]
  /\ UNCHANGED <<dbVars, finals, mixed, affectedRows, fetched, calls, execs>>

\* what SQLite has counted last on this connection
ExecChanges(q) ==
  /\ holder[q] = "stepped"
  /\ affectedRows' = [affectedRows EXCEPT ![q] = changes]
  /\ Give(q, "executed")
  /\ UNCHANGED <<dbVars, stmt, finals, hasResults, fetched, calls, writeVars, runs, execs>>

\* mutant: an error is taken for the end
ExecErrorCompletes(q) ==
  /\ Idle /\ holder[q] = "input"
  /\ Give(q, "executed")
  /\ UNCHANGED <<dbVars, stmt, finals, queryVars, writeVars, runs, execs>>

\* also that of a statement that is NULL: the query is destroyed without a callback
ExecError(q) ==
  /\ Idle /\ holder[q] = "input"
  /\ Destroy(q)
  /\ UNCHANGED <<dbVars, queryVars, writeVars, runs, execs>>

Queued(q) ==
  /\ holder[q] = "executed"
  /\ Give(q, "callbacks")
  /\ UNCHANGED <<dbVars, stmt, finals, queryVars, writeVars, runs, execs>>

\* no room in the callback ring
NotQueued(q) ==
  /\ holder[q] = "executed"
  /\ Destroy(q)
  /\ UNCHANGED <<dbVars, queryVars, writeVars, runs, execs>>

-----------------------------------------------------------------------------
(* The callback on the main thread: query_select and query_reset *)

CallbackBegin(q) ==
  /\ holder[q] = "callbacks"
  /\ \A p \in Queries : holder[p] # "callback"
  /\ Give(q, "callback")
  /\ UNCHANGED <<dbVars, stmt, finals, queryVars, writeVars, runs, execs>>

\* A callback may call them for any statement, and in any order.
MayCall(q) ==
  /\ holder[q] = "callback"
  /\ calls[q] < MaxCalls
  /\ calls' = [calls EXCEPT ![q] = @ + 1]

Given(q, r) == fetched' = [fetched EXCEPT ![q] = r]

RowOf(q) == IF stmt[q].status = "row" THEN stmt[q].pos ELSE NotARow

\* mutant: forgets to note that the row has been given
SelectFirstKeeps(q) ==
  /\ MayCall(q)
  /\ hasResults[q]
  /\ Given(q, RowOf(q))
  /\ UNCHANGED <<dbVars, stmt, finals, holder, hasResults, affectedRows, writeVars, runs, execs>>

\* The row the database thread has stopped at; it is not looked whether the statement
\* is still there.
SelectFirst(q) ==
  /\ MayCall(q)
  /\ hasResults[q]
  /\ hasResults' = [hasResults EXCEPT ![q] = FALSE]
  /\ Given(q, RowOf(q))
  /\ UNCHANGED <<dbVars, stmt, finals, holder, affectedRows, writeVars, runs, execs>>

SelectRow(q) ==
  /\ MayCall(q)
  /\ ~ hasResults[q]
  /\ StepRow(q)
  /\ Given(q, stmt'[q].pos)
  /\ UNCHANGED <<dbVars, finals, holder, hasResults, affectedRows, writeVars, execs>>

\* After its last row the statement is reset. One that has no rows, or that had none,
\* is executed again: a write that is asked for rows writes once more.
SelectDone(q) ==
  /\ MayCall(q)
  /\ ~ hasResults[q]
  /\ \/ /\ stmt[q].status = "row" /\ stmt[q].pos = stmt[q].size
        /\ UNCHANGED <<runs, writeVars>>
     \/ RunsThrough(q) /\ q \in Selects /\ UNCHANGED writeVars
     \/ RunsThrough(q) /\ q \notin Selects /\ MainWrote(q)
  /\ stmt' = [stmt EXCEPT ![q] = Ready]
  /\ Given(q, 0)
  /\ UNCHANGED <<dbVars, finals, holder, hasResults, affectedRows, execs>>

SelectError(q) ==
  /\ MayCall(q)
  /\ ~ hasResults[q]
  /\ stmt' = [stmt EXCEPT ![q] = Ready]
  /\ Given(q, 0)
  /\ UNCHANGED <<dbVars, finals, holder, hasResults, affectedRows, writeVars, runs, execs>>

\* hasResults stays as it is
QueryReset(q) ==
  /\ MayCall(q)
  /\ stmt' = [stmt EXCEPT ![q] = Ready]
  /\ Given(q, 0)
  /\ UNCHANGED <<dbVars, finals, holder, hasResults, affectedRows, writeVars, runs, execs>>

CallbackEnd(q) ==
  /\ holder[q] = "callback"
  /\ Destroy(q)
  /\ fetched' = [fetched EXCEPT ![q] = 0]
  /\ UNCHANGED <<dbVars, hasResults, affectedRows, calls, writeVars, runs, execs>>

-----------------------------------------------------------------------------
Client ==
  \/ DbOpen \/ DbOpenSchemaFails \/ DbOpenFails \/ DbExec
  \/ \E q \in Queries :
       \/ DbPrep(q) \/ StmtAbort(q) \/ DbSched(q) \/ DbSchedFails(q) \/ DbSchedNoMemory(q)

Execution == \E q \in Queries :
  ExecRow(q) \/ ExecDone(q) \/ ExecChanges(q) \/ ExecError(q) \/ Queued(q) \/ NotQueued(q)

Callback == \E q \in Queries :
  \/ CallbackBegin(q) \/ CallbackEnd(q)
  \/ SelectFirst(q) \/ SelectRow(q) \/ SelectDone(q) \/ SelectError(q) \/ QueryReset(q)

Next == Client \/ Execution \/ Callback

Spec == Init /\ [][Next]_vars

-----------------------------------------------------------------------------
Holders == {Nobody, "client", "input", "stepped", "executed", "callbacks", "callback"}

TypeOK ==
  /\ handle \in {"none", "bad", "open"} /\ opened \in BOOLEAN
  /\ stmt \in [Queries -> [status : {"none", "null", "ready", "row", "done", "final"},
                          pos : 0 .. MaxRows, size : 0 .. MaxRows]]
  /\ holder \in [Queries -> Holders]
  /\ hasResults \in [Queries -> BOOLEAN]
  /\ affectedRows \in [Queries -> Queries \cup {Nobody, "main"}]
  /\ changes \in Queries \cup {Nobody, "main"} /\ mixed \subseteq Queries
  /\ runs \in [Queries -> 0 .. MaxCalls + 1] /\ finals \in [Queries -> Nat]
  /\ fetched \in [Queries -> 0 .. NotARow]
  /\ calls \in [Queries -> 0 .. MaxCalls]
  /\ execs \in 0 .. MaxExecs /\ opens \in 0 .. MaxOpens

\* A callback is run for a statement that SQLite has executed exactly once, whatever
\* failed or was retried before; and what query_affected_rows tells of a write is
\* what that write has changed, although the database thread asks the connection for
\* it after sqlite3_step has returned: other queries it executes cannot come between.
\* Only a write of the main thread can, by db_exec or by a callback that has a write
\* executed again; the writes it hits are in "mixed".
CallbackSeesOneExecution ==
  \A q \in Queries :
    holder[q] \in {"callbacks", "callback"} /\ calls[q] = 0 =>
      /\ runs[q] = 1
      /\ q \notin Selects /\ q \notin mixed => affectedRows[q] = q

\* Every statement that was prepared is finalized once and by whoever holds it: the
\* client that aborts it, db_sched that could not push its query, the database
\* thread, or the main thread after the callback. Neither is one forgotten, nor one
\* finalized that has been before.
StatementsAccounted ==
  \A q \in Queries :
    /\ finals[q] = IF stmt[q].status = "final" THEN 1 ELSE 0
    /\ holder[q] = Nobody <=> stmt[q].status \in {"none", "final"}

CallbackCursor ==
  INSTANCE Cursor WITH
    open  <- [q \in Queries |-> stmt[q].status = "row"],
    size  <- [q \in Queries |-> stmt[q].size],
    place <- [q \in Queries |-> IF hasResults[q] THEN 0 ELSE stmt[q].pos],
    row   <- fetched,
    stale <- [q \in Queries |-> hasResults[q] /\ stmt[q].status = "ready"]

\* The callback reads each row of a pass once and in order, the first one included,
\* to which the database thread has stepped; a call that is none of a pass is the
\* first one after a reset that came before any, and that one only.
ImplementsCursor == CallbackCursor!Spec
=============================================================================
