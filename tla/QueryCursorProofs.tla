-------------------------- MODULE QueryCursorProofs --------------------------
(***************************************************************************)
(* Theorems about statements and the cursor: for any number of statements, *)
(* rows, calls and attempts to open the database.                          *)
(***************************************************************************)
EXTENDS QueryCursor, TLAPS

\* a statement within its rows, and one that is not
StmtShape(q) ==
  \/ /\ stmt[q].status = "row"
     /\ 1 <= stmt[q].pos /\ stmt[q].pos <= stmt[q].size
  \/ stmt[q].status # "row" /\ stmt[q].pos = 0 /\ stmt[q].size = 0

\* nothing has been done with a statement before it was executed
Unused(q) == runs[q] = 0 /\ calls[q] = 0 /\ fetched[q] = 0

\* what it says of a write is its own, unless the main thread wrote in between
OwnChanges(q, answer) == q \notin Selects /\ q \notin mixed => answer = q

\* Where a statement is tells what has happened to it.
Progress(q) ==
  /\ stmt[q].status = "none" => Unused(q) /\ ~ hasResults[q]
  /\ holder[q] \in {"client", "input"} =>
       Unused(q) /\ stmt[q].status \in {"ready", "null"} /\ ~ hasResults[q]
  /\ holder[q] = "stepped" =>
       /\ runs[q] = 1 /\ calls[q] = 0 /\ fetched[q] = 0
       /\ stmt[q].status = "done" /\ ~ hasResults[q]
       /\ OwnChanges(q, changes)
  /\ holder[q] \in {"executed", "callbacks"} => calls[q] = 0 /\ fetched[q] = 0
  /\ holder[q] \in {"executed", "callbacks", "callback"} =>
       /\ calls[q] = 0 => runs[q] = 1 /\ OwnChanges(q, affectedRows[q])
       /\ hasResults[q] =>
            /\ fetched[q] = 0
            /\ (stmt[q].status = "row" /\ stmt[q].pos = 1) \/ stmt[q].status = "ready"
  /\ holder[q] # "callback" => fetched[q] = 0
  /\ runs[q] <= calls[q] + 1

\* The statement belongs to nobody before it is prepared and after it is finalized.
Held(q) ==
  /\ finals[q] = IF stmt[q].status = "final" THEN 1 ELSE 0
  /\ holder[q] = Nobody <=> stmt[q].status \in {"none", "final"}

\* The database thread has one statement at a time in hand.
OneInHand ==
  \A p, q \in Queries :
    holder[p] \in {"stepped", "executed"} /\ holder[q] \in {"stepped", "executed"} => p = q

CursorInv ==
  /\ TypeOK
  /\ OneInHand
  /\ \A q \in Queries : StmtShape(q) /\ Progress(q) /\ Held(q)

-----------------------------------------------------------------------------
Stmt == [status : {"none", "null", "ready", "row", "done", "final"},
         pos : 0 .. MaxRows, size : 0 .. MaxRows]

\* A step of SQLite to a row keeps within the rows there are.
LEMMA RowStepTyped ==
  ASSUME CursorInv, NEW q \in Queries, StepRow(q), runs[q] <= MaxCalls
  PROVE  stmt' \in [Queries -> Stmt] /\ runs' \in [Queries -> 0 .. MaxCalls + 1]
<1> USE CursorAssumption DEF CursorInv, TypeOK, Stmt
<1>1. StmtShape(q) /\ stmt[q] \in Stmt /\ MaxRows \in Nat
  OBVIOUS
<1>2. CASE AtStart(q)
  <2>1. PICK n \in 1 .. MaxRows : stmt' = [stmt EXCEPT ![q] = OnRow(1, n)]
    BY <1>2 DEF StepRow, AtStart
  <2>2. OnRow(1, n) \in Stmt
    BY <2>1 DEF OnRow
  <2>3. runs' = [runs EXCEPT ![q] = @ + 1] /\ runs[q] + 1 \in 0 .. MaxCalls + 1
    BY <1>2 DEF StepRow, AtStart
  <2> QED
    BY <2>1, <2>2, <2>3
<1>3. CASE stmt[q].status = "row"
  <2>1. stmt[q].pos + 1 \in 0 .. MaxRows
    BY <1>1, <1>3 DEF StepRow, AtStart
  <2>2. stmt' = [stmt EXCEPT ![q].pos = @ + 1] /\ UNCHANGED runs
    BY <1>3 DEF StepRow, AtStart
  <2>3. [stmt[q] EXCEPT !.pos = @ + 1] \in Stmt
    BY <1>1, <2>1
  <2> QED
    BY <1>1, <2>2, <2>3
<1> QED
  BY <1>2, <1>3 DEF StepRow

(* The types, and the fields of SQLite's statement, after any step. *)
LEMMA TypeStep ==
  ASSUME CursorInv, [Next]_vars
  PROVE  TypeOK'
<1> USE CursorAssumption DEF Nobody, NotARow, Holders, NoStmt, Ready, Done, OnRow
<1> USE DEF CursorInv, TypeOK, Stmt, dbVars, queryVars, writeVars
<1>1. CASE DbOpen
  BY <1>1 DEF DbOpen, OpenedAs
<1>2. CASE DbOpenSchemaFails
  <2>1. handle' \in {"none", "bad", "open"} /\ opens' \in 0 .. MaxOpens
    BY <1>2 DEF DbOpenSchemaFails, OpenedAs
  <2>2. opened' \in BOOLEAN
    BY <1>2, Zenon DEF DbOpenSchemaFails, OpenedAs
  <2> QED
    BY <1>2, <2>1, <2>2 DEF DbOpenSchemaFails, OpenedAs
<1>3. CASE DbOpenFails
  <2>1. handle' \in {"none", "bad", "open"} /\ opens' \in 0 .. MaxOpens
    BY <1>3 DEF DbOpenFails, OpenedAs
  <2>2. opened' \in BOOLEAN
    BY <1>3, Zenon DEF DbOpenFails, OpenedAs
  <2> QED
    BY <1>3, <2>1, <2>2 DEF DbOpenFails, OpenedAs
<1>4. CASE DbExec
  BY <1>4 DEF DbExec, MainWrote
<1>5. ASSUME NEW q \in Queries, DbPrep(q) PROVE TypeOK'
  <2>1. stmt' \in [Queries -> Stmt]
    <3>1. CASE stmt' = [stmt EXCEPT ![q] = Ready]
      BY <3>1
    <3>2. CASE stmt' = [stmt EXCEPT ![q].status = "null"]
      BY <3>2
    <3> QED
      BY <1>5, <3>1, <3>2 DEF DbPrep
  <2> QED
    BY <1>5, <2>1 DEF DbPrep, Give
<1>9. ASSUME NEW q \in Queries, StmtAbort(q) PROVE TypeOK'
  BY <1>9 DEF StmtAbort, Destroy, Finalize, Give
<1>10. ASSUME NEW q \in Queries, DbSched(q) PROVE TypeOK'
  BY <1>10 DEF DbSched, Give
<1>11. ASSUME NEW q \in Queries, DbSchedFails(q) PROVE TypeOK'
  BY <1>11 DEF DbSchedFails, Destroy, Finalize, Give
<1>12. ASSUME NEW q \in Queries, DbSchedNoMemory(q) PROVE TypeOK'
  BY <1>12 DEF DbSchedNoMemory, vars
<1>13. ASSUME NEW q \in Queries, ExecRow(q) PROVE TypeOK'
  <2>1. stmt' \in [Queries -> Stmt] /\ runs' \in [Queries -> 0 .. MaxCalls + 1]
    BY <1>13, RowStepTyped DEF ExecRow, Progress, Unused
  <2> QED
    BY <1>13, <2>1 DEF ExecRow, Give
<1>14. ASSUME NEW q \in Queries, ExecDone(q) PROVE TypeOK'
  <2>1. stmt' \in [Queries -> Stmt]
    BY <1>14 DEF ExecDone
  <2>2. runs' \in [Queries -> 0 .. MaxCalls + 1]
    <3>1. runs[q] + 1 \in 0 .. MaxCalls + 1
      BY <1>14 DEF ExecDone, Progress, Unused
    <3> QED
      BY <1>14, <3>1 DEF ExecDone, RunsThrough
  <2>3. changes' \in Queries \cup {Nobody, "main"}
    BY <1>14 DEF ExecDone
  <2> QED
    BY <1>14, <2>1, <2>2, <2>3 DEF ExecDone, Give
<1>15. ASSUME NEW q \in Queries, ExecChanges(q) PROVE TypeOK'
  BY <1>15 DEF ExecChanges, Give
<1>16. ASSUME NEW q \in Queries, ExecError(q) PROVE TypeOK'
  BY <1>16 DEF ExecError, Destroy, Finalize, Give
<1>17. ASSUME NEW q \in Queries, Queued(q) PROVE TypeOK'
  BY <1>17 DEF Queued, Give
<1>18. ASSUME NEW q \in Queries, NotQueued(q) PROVE TypeOK'
  BY <1>18 DEF NotQueued, Destroy, Finalize, Give
<1>19. ASSUME NEW q \in Queries, CallbackBegin(q) PROVE TypeOK'
  BY <1>19 DEF CallbackBegin, Give
<1>20. ASSUME NEW q \in Queries, CallbackEnd(q) PROVE TypeOK'
  BY <1>20 DEF CallbackEnd, Destroy, Finalize, Give
<1>21. ASSUME NEW q \in Queries, SelectFirst(q) PROVE TypeOK'
  BY <1>21 DEF SelectFirst, RowOf, NotARow, MayCall, Given
<1>22. ASSUME NEW q \in Queries, SelectRow(q) PROVE TypeOK'
  <2>1. stmt' \in [Queries -> Stmt] /\ runs' \in [Queries -> 0 .. MaxCalls + 1]
    BY <1>22, RowStepTyped DEF SelectRow, MayCall, Progress
  <2>2. stmt'[q].pos \in 0 .. MaxRows
    BY <2>1 DEF Stmt
  <2>3. fetched' \in [Queries -> 0 .. NotARow] /\ calls' \in [Queries -> 0 .. MaxCalls]
    BY <1>22, <2>2 DEF SelectRow, MayCall, Given
  <2> QED
    BY <1>22, <2>1, <2>3 DEF SelectRow
<1>23. ASSUME NEW q \in Queries, SelectDone(q) PROVE TypeOK'
  <2>1. runs' \in [Queries -> 0 .. MaxCalls + 1] /\ calls' \in [Queries -> 0 .. MaxCalls]
    BY <1>23 DEF SelectDone, RunsThrough, MayCall, Progress
  <2>2. changes' \in Queries \cup {Nobody, "main"} /\ mixed' \subseteq Queries
    BY <1>23 DEF SelectDone, MainWrote
  <2>3. /\ stmt' \in [Queries -> Stmt] /\ fetched' \in [Queries -> 0 .. NotARow]
        /\ UNCHANGED <<dbVars, finals, holder, hasResults, affectedRows, execs>>
    BY <1>23 DEF SelectDone, Given
  <2> QED
    BY <2>1, <2>2, <2>3
<1>24. ASSUME NEW q \in Queries, SelectError(q) PROVE TypeOK'
  BY <1>24 DEF SelectError, MayCall, Given
<1>25. ASSUME NEW q \in Queries, QueryReset(q) PROVE TypeOK'
  BY <1>25 DEF QueryReset, MayCall, Given
<1>26. CASE UNCHANGED vars
  BY <1>26 DEF vars
<1> QED
  BY <1>1, <1>2, <1>3, <1>4, <1>5, <1>9, <1>10, <1>11, <1>12, <1>13, <1>14, <1>15, <1>16, <1>17, <1>18, <1>19, <1>20, <1>21, <1>22, <1>23, <1>24, <1>25, <1>26
     DEF Next, Client, Execution, Callback

-----------------------------------------------------------------------------
(* What a statement has gone through, after any step: one step changes one
   statement, and what the others rely on of the connection is left alone. *)
LEMMA StatementStep ==
  ASSUME CursorInv, [Next]_vars
  PROVE  OneInHand' /\ \A p \in Queries : (StmtShape(p) /\ Progress(p) /\ Held(p))'
<1> DEFINE Good == OneInHand /\ \A p \in Queries : StmtShape(p) /\ Progress(p) /\ Held(p)
<1> SUFFICES Good'
  OBVIOUS
<1> USE CursorAssumption DEF Nobody, Holders, NoStmt
<1> USE DEF CursorInv, TypeOK, Stmt, dbVars, queryVars, writeVars,
            OneInHand, StmtShape, Progress, Held, OwnChanges, Unused
<1>1. CASE DbOpen \/ DbOpenSchemaFails \/ DbOpenFails
  BY <1>1 DEF DbOpen, DbOpenSchemaFails, DbOpenFails, OpenedAs
<1>2. CASE DbExec
  BY <1>2 DEF DbExec, MainWrote
<1>3. ASSUME NEW q \in Queries, DbPrep(q) PROVE Good'
  BY <1>3 DEF DbPrep, Give, Ready
<1>7. ASSUME NEW q \in Queries, StmtAbort(q) PROVE Good'
  BY <1>7 DEF StmtAbort, Destroy, Finalize, Give
<1>8. ASSUME NEW q \in Queries, DbSched(q) PROVE Good'
  BY <1>8 DEF DbSched, Give
<1>9. ASSUME NEW q \in Queries, DbSchedFails(q) PROVE Good'
  BY <1>9 DEF DbSchedFails, Destroy, Finalize, Give
<1>10. ASSUME NEW q \in Queries, DbSchedNoMemory(q) PROVE Good'
  BY <1>10 DEF DbSchedNoMemory, vars
<1>11. ASSUME NEW q \in Queries, ExecRow(q) PROVE Good'
  BY <1>11 DEF ExecRow, StepRow, AtStart, Give, OnRow, Idle
<1>12. ASSUME NEW q \in Queries, ExecDone(q) PROVE Good'
  BY <1>12 DEF ExecDone, RunsThrough, AtStart, Give, Done, Idle
<1>13. ASSUME NEW q \in Queries, ExecChanges(q) PROVE Good'
  BY <1>13 DEF ExecChanges, Give
<1>14. ASSUME NEW q \in Queries, ExecError(q) PROVE Good'
  BY <1>14 DEF ExecError, Destroy, Finalize, Give
<1>15. ASSUME NEW q \in Queries, Queued(q) PROVE Good'
  BY <1>15 DEF Queued, Give
<1>16. ASSUME NEW q \in Queries, NotQueued(q) PROVE Good'
  BY <1>16 DEF NotQueued, Destroy, Finalize, Give
<1>17. ASSUME NEW q \in Queries, CallbackBegin(q) PROVE Good'
  BY <1>17 DEF CallbackBegin, Give
<1>18. ASSUME NEW q \in Queries, CallbackEnd(q) PROVE Good'
  BY <1>18 DEF CallbackEnd, Destroy, Finalize, Give
<1>19. ASSUME NEW q \in Queries, SelectFirst(q) PROVE Good'
  BY <1>19 DEF SelectFirst, RowOf, NotARow, MayCall, Given
<1>20. ASSUME NEW q \in Queries, SelectRow(q) PROVE Good'
  <2>1. /\ holder[q] = "callback" /\ ~ hasResults[q] /\ fetched' = [fetched EXCEPT ![q] = stmt'[q].pos]
        /\ calls' = [calls EXCEPT ![q] = @ + 1]
        /\ UNCHANGED <<finals, holder, hasResults, affectedRows, changes, mixed>>
    BY <1>20 DEF SelectRow, MayCall, Given
  <2>2. CASE AtStart(q)
    <3>1. PICK n \in 1 .. MaxRows : stmt' = [stmt EXCEPT ![q] = OnRow(1, n)]
      BY <1>20, <2>2 DEF SelectRow, StepRow, AtStart
    <3>2. runs' = [runs EXCEPT ![q] = @ + 1]
      BY <1>20, <2>2 DEF SelectRow, StepRow, AtStart
    <3> QED
      BY <2>1, <2>2, <3>1, <3>2 DEF AtStart, OnRow
  <2>3. CASE stmt[q].status = "row"
    <3>1. /\ stmt[q].pos < stmt[q].size /\ UNCHANGED runs
          /\ stmt' = [stmt EXCEPT ![q].pos = @ + 1]
      BY <1>20, <2>3 DEF SelectRow, StepRow, AtStart
    <3> QED
      BY <2>1, <2>3, <3>1
  <2> QED
    BY <1>20, <2>2, <2>3 DEF SelectRow, StepRow
<1>21. ASSUME NEW q \in Queries, SelectDone(q) PROVE Good'
  BY <1>21 DEF SelectDone, RunsThrough, MainWrote, AtStart, MayCall, Given, Ready
<1>22. ASSUME NEW q \in Queries, SelectError(q) PROVE Good'
  BY <1>22 DEF SelectError, MayCall, Given, Ready
<1>23. ASSUME NEW q \in Queries, QueryReset(q) PROVE Good'
  BY <1>23 DEF QueryReset, MayCall, Given, Ready
<1>24. CASE UNCHANGED vars
  BY <1>24 DEF vars
<1> QED
  BY <1>1, <1>2, <1>3, <1>7, <1>8, <1>9, <1>10, <1>11, <1>12, <1>13, <1>14, <1>15, <1>16, <1>17, <1>18, <1>19, <1>20, <1>21, <1>22, <1>23, <1>24
     DEF Next, Client, Execution, Callback

-----------------------------------------------------------------------------
(* The inductive invariant: the types, one statement in the database thread's
   hand, and for each statement what its holder tells of it. *)
THEOREM Invariant == Spec => []CursorInv
<1>1. Init => CursorInv
  <2> SUFFICES ASSUME Init PROVE CursorInv
    OBVIOUS
  <2> USE CursorAssumption DEF Init, NoStmt, Nobody, Holders
  <2>1. TypeOK
    <3>1. opened \in BOOLEAN
      BY Zenon
    <3> QED
      BY <3>1 DEF TypeOK, NotARow
  <2>2. OneInHand
    BY DEF OneInHand
  <2>3. \A q \in Queries : StmtShape(q) /\ Progress(q) /\ Held(q)
    <3> SUFFICES ASSUME NEW q \in Queries
                 PROVE  StmtShape(q) /\ Progress(q) /\ Held(q)
      OBVIOUS
    <3>1. ~ hasResults[q]
      OBVIOUS
    <3>2. StmtShape(q) /\ Held(q)
      BY DEF StmtShape, Held
    <3>3. Progress(q)
      BY <3>1 DEF Progress, Unused
    <3> QED
      BY <3>2, <3>3
  <2> QED
    BY <2>1, <2>2, <2>3 DEF CursorInv
<1>2. CursorInv /\ [Next]_vars => CursorInv'
  BY TypeStep, StatementStep DEF CursorInv
<1> QED
  BY <1>1, <1>2, PTL DEF Spec

(* Every variable keeps its type: no statement is executed more often than it was
   asked for, and no row is read beyond the last one. *)
THEOREM TypeCorrect == Spec => []TypeOK
<1>1. CursorInv => TypeOK
  BY DEF CursorInv
<1> QED
  BY <1>1, Invariant, PTL

(* Every path of the code, its error paths included, finalizes the statement once:
   never a second time, and never is it forgotten while nobody holds it. *)
THEOREM FinalizedOnce == Spec => []StatementsAccounted
<1>1. CursorInv => StatementsAccounted
  BY DEF CursorInv, StatementsAccounted, Held
<1> QED
  BY <1>1, Invariant, PTL

(* The callback comes after exactly one execution, and query_affected_rows answers
   for that one: another query of the database thread is never counted instead, and
   a write of the main thread is only if it falls between the step and the count. *)
THEOREM CallbackAfterOneExecution == Spec => []CallbackSeesOneExecution
<1>1. CursorInv => CallbackSeesOneExecution
  BY DEF CursorInv, CallbackSeesOneExecution, Progress, OwnChanges
<1> QED
  BY <1>1, Invariant, PTL

-----------------------------------------------------------------------------
(* The refinement of Cursor: what the callback sees of a statement is whether a
   pass is open, its size, its place, the row of the last call, and whether the row
   that was promised is gone. *)
OthersLeft(q) ==
  \A p \in Queries \ {q} :
    stmt'[p] = stmt[p] /\ hasResults'[p] = hasResults[p] /\ fetched'[p] = fetched[p]

Stale(q) == hasResults[q] /\ stmt[q].status = "ready"

\* A step that leaves the other statements alone shows as one of Cursor's on this one.
LEMMA ShowsAs ==
  ASSUME NEW q \in Queries, TypeOK, TypeOK',
         OthersLeft(q),
         NEW o \in BOOLEAN, o <=> stmt'[q].status = "row",
         NEW n, n = stmt'[q].size,
         NEW i, (hasResults'[q] /\ i = 0) \/ (~ hasResults'[q] /\ i = stmt'[q].pos),
         NEW r, r = fetched'[q],
         NEW s \in BOOLEAN, s <=> hasResults'[q] /\ stmt'[q].status = "ready"
  PROVE  CallbackCursor!At(q, o, n, i, r, s)
<1> USE DEF TypeOK, OthersLeft
<1>1. fetched' = [fetched EXCEPT ![q] = r]
  OBVIOUS
<1>2. [p \in Queries |-> stmt'[p].status = "row"]
        = [[p \in Queries |-> stmt[p].status = "row"] EXCEPT ![q] = o]
  <2> DEFINE now(p) == stmt[p].status = "row"
             next(p) == stmt'[p].status = "row"
  <2>1. \A p \in Queries \ {q} : next(p) = now(p)
    OBVIOUS
  <2>2. next(q) = o
    OBVIOUS
  <2> HIDE DEF now, next
  <2>3. [p \in Queries |-> next(p)] = [[p \in Queries |-> now(p)] EXCEPT ![q] = o]
    BY <2>1, <2>2, Zenon
  <2> QED
    BY <2>3 DEF now, next
<1>3. [p \in Queries |-> stmt'[p].size]
        = [[p \in Queries |-> stmt[p].size] EXCEPT ![q] = n]
  OBVIOUS
<1>4. [p \in Queries |-> IF hasResults'[p] THEN 0 ELSE stmt'[p].pos]
        = [[p \in Queries |-> IF hasResults[p] THEN 0 ELSE stmt[p].pos] EXCEPT ![q] = i]
  <2> DEFINE now(p) == IF hasResults[p] THEN 0 ELSE stmt[p].pos
             next(p) == IF hasResults'[p] THEN 0 ELSE stmt'[p].pos
  <2>1. \A p \in Queries \ {q} : next(p) = now(p)
    OBVIOUS
  <2> HIDE DEF now, next
  <2>2. [p \in Queries |-> next(p)] = [[p \in Queries |-> now(p)] EXCEPT ![q] = next(q)]
    BY <2>1, Zenon
  <2> QED
    BY <2>2 DEF now, next
<1>5. [p \in Queries |-> hasResults'[p] /\ stmt'[p].status = "ready"]
        = [[p \in Queries |-> hasResults[p] /\ stmt[p].status = "ready"] EXCEPT ![q] = s]
  <2> DEFINE now(p) == hasResults[p] /\ stmt[p].status = "ready"
             next(p) == hasResults'[p] /\ stmt'[p].status = "ready"
  <2>1. \A p \in Queries \ {q} : next(p) = now(p)
    OBVIOUS
  <2>2. next(q) = s
    OBVIOUS
  <2> HIDE DEF now, next
  <2>3. [p \in Queries |-> next(p)] = [[p \in Queries |-> now(p)] EXCEPT ![q] = s]
    BY <2>1, <2>2, Zenon
  <2> QED
    BY <2>3 DEF now, next
<1> QED
  BY <1>1, <1>2, <1>3, <1>4, <1>5 DEF CallbackCursor!At

\* the callback's view of a statement that is closed again
LEMMA ShowsAsRewind ==
  ASSUME NEW q \in Queries, CursorInv, CursorInv',
         OthersLeft(q),
         stmt'[q].status # "row", fetched'[q] = 0, ~ Stale(q)'
  PROVE  CallbackCursor!Rewind(q)
<1>1. stmt'[q].size = 0 /\ stmt'[q].pos = 0
  BY DEF CursorInv, StmtShape
<1> QED
  BY <1>1, ShowsAs DEF CallbackCursor!Rewind, CursorInv, Stale

\* a pass that is open goes on
LEMMA FetchShows ==
  ASSUME NEW q \in Queries, TypeOK, stmt[q].status = "row", NEW n, n = stmt[q].size,
         NEW i, (hasResults[q] /\ i = 0) \/ (~ hasResults[q] /\ i = stmt[q].pos),
         i < n, NEW j, j = i + 1,
         CallbackCursor!At(q, TRUE, n, j, j, FALSE)
  PROVE  CallbackCursor!Fetch(q)
<1>1. /\ [p \in Queries |-> stmt[p].status = "row"][q]
      /\ [p \in Queries |-> stmt[p].size][q] = n
      /\ [p \in Queries |-> IF hasResults[p] THEN 0 ELSE stmt[p].pos][q] = i
  BY DEF TypeOK
<1> QED
  BY <1>1 DEF CallbackCursor!Fetch, CallbackCursor!At

\* A pass begins, or goes on; or the Row is given of one that was reset.
LEMMA ShowsAsPass ==
  ASSUME NEW q \in Queries, CursorInv, CursorInv', ExecRow(q) \/ SelectFirst(q) \/ SelectRow(q)
  PROVE  \/ CallbackCursor!Begin(q) \/ CallbackCursor!Fetch(q)
         \/ CallbackCursor!GiveStale(q)
<1> USE CursorAssumption DEF CursorInv
<1>1. CASE ExecRow(q)
  <2>1. stmt[q].status \in {"ready", "null"} /\ fetched[q] = 0 /\ ~ hasResults[q]
    BY <1>1 DEF ExecRow, Progress, Unused
  <2>2. PICK n \in 1 .. MaxRows : stmt' = [stmt EXCEPT ![q] = OnRow(1, n)]
    BY <1>1, <2>1 DEF ExecRow, StepRow, AtStart
  <2>3. /\ OthersLeft(q) /\ hasResults'[q] /\ fetched'[q] = 0
        /\ stmt'[q].status = "row" /\ stmt'[q].size = n
    BY <1>1, <2>1, <2>2 DEF ExecRow, OthersLeft, TypeOK, OnRow
  <2>4. CallbackCursor!At(q, TRUE, n, 0, 0, FALSE)
    BY <2>3, ShowsAs
  <2> QED
    BY <2>1, <2>4 DEF CallbackCursor!Begin
<1>2. CASE SelectFirst(q) /\ stmt[q].status = "row"
  <2>1. stmt[q].status = "row" /\ stmt[q].pos = 1 /\ 1 <= stmt[q].size /\ hasResults[q]
    BY <1>2 DEF SelectFirst, MayCall, Progress, StmtShape
  <2>2. /\ OthersLeft(q) /\ ~ hasResults'[q] /\ fetched'[q] = 1
        /\ stmt'[q] = stmt[q]
    BY <1>2, <2>1 DEF SelectFirst, RowOf, Given, OthersLeft, TypeOK
  <2>3. PICK n : n = stmt[q].size
    OBVIOUS
  <2>4. CallbackCursor!At(q, TRUE, n, 1, 1, FALSE)
    BY <2>1, <2>2, <2>3, ShowsAs
  <2>5. 0 < n /\ 1 = 0 + 1
    BY <2>1, <2>3 DEF TypeOK
  <2> QED
    BY <2>1, <2>3, <2>4, <2>5, FetchShows
<1>3. CASE SelectFirst(q) /\ stmt[q].status # "row"
  <2>1. /\ hasResults[q] /\ stmt[q].status = "ready"
        /\ stmt[q].pos = 0 /\ stmt[q].size = 0
    BY <1>3 DEF SelectFirst, MayCall, Progress, StmtShape
  <2>2. /\ OthersLeft(q) /\ ~ hasResults'[q] /\ fetched'[q] = NotARow
        /\ stmt'[q] = stmt[q]
    BY <1>3, <2>1 DEF SelectFirst, RowOf, NotARow, Given, OthersLeft, TypeOK
  <2>3. CallbackCursor!At(q, FALSE, 0, 0, NotARow, FALSE)
    BY <2>1, <2>2, ShowsAs
  <2>4. [p \in Queries |-> hasResults[p] /\ stmt[p].status = "ready"][q]
    BY <2>1
  <2> QED
    BY <2>3, <2>4 DEF CallbackCursor!GiveStale, CallbackCursor!NotARow, NotARow
<1>4. CASE SelectRow(q) /\ AtStart(q)
  <2>1. PICK n \in 1 .. MaxRows : stmt' = [stmt EXCEPT ![q] = OnRow(1, n)]
    BY <1>4 DEF SelectRow, StepRow, AtStart
  <2>2. /\ OthersLeft(q) /\ ~ hasResults'[q] /\ fetched'[q] = 1
        /\ stmt'[q].status = "row" /\ stmt'[q].size = n /\ stmt'[q].pos = 1
    BY <1>4, <2>1 DEF SelectRow, Given, OthersLeft, TypeOK, OnRow
  <2>3. CallbackCursor!At(q, TRUE, n, 1, 1, FALSE)
    BY <2>2, ShowsAs
  <2>4. ~ hasResults[q]
    BY <1>4 DEF SelectRow
  <2> QED
    BY <1>4, <2>3, <2>4 DEF CallbackCursor!Fetch, AtStart
<1>5. CASE SelectRow(q) /\ stmt[q].status = "row"
  <2>1. /\ stmt[q].pos < stmt[q].size /\ ~ hasResults[q]
        /\ stmt' = [stmt EXCEPT ![q].pos = @ + 1]
    BY <1>5 DEF SelectRow, StepRow, AtStart
  <2>2. /\ OthersLeft(q) /\ ~ hasResults'[q] /\ fetched'[q] = stmt[q].pos + 1
        /\ stmt'[q].status = "row" /\ stmt'[q].size = stmt[q].size
        /\ stmt'[q].pos = stmt[q].pos + 1
    BY <1>5, <2>1 DEF SelectRow, Given, OthersLeft, TypeOK
  <2>3. PICK n, i, j : n = stmt[q].size /\ i = stmt[q].pos /\ j = i + 1
    OBVIOUS
  <2>4. CallbackCursor!At(q, TRUE, n, j, j, FALSE)
    BY <2>2, <2>3, ShowsAs
  <2> QED
    BY <1>5, <2>1, <2>3, <2>4, FetchShows
<1> QED
  BY <1>1, <1>2, <1>3, <1>4, <1>5 DEF SelectRow, StepRow

\* There is no pass any more, or not yet.
Ends(q) ==
  \/ DbPrep(q) \/ StmtAbort(q) \/ DbSchedFails(q) \/ ExecDone(q) \/ ExecError(q) \/ NotQueued(q)
  \/ CallbackEnd(q) \/ SelectDone(q) \/ SelectError(q)
  \/ QueryReset(q) /\ ~ hasResults[q]

LEMMA EndShows ==
  ASSUME NEW q \in Queries, CursorInv, Ends(q)
  PROVE  OthersLeft(q) /\ stmt'[q].status # "row" /\ fetched'[q] = 0 /\ ~ Stale(q)'
<1> USE DEF CursorInv, TypeOK, queryVars, OthersLeft, Stale
<1>1. CASE DbPrep(q)
  BY <1>1 DEF DbPrep, Ready, Progress, Unused
<1>2. CASE StmtAbort(q) \/ DbSchedFails(q) \/ ExecError(q) \/ NotQueued(q)
  BY <1>2 DEF StmtAbort, DbSchedFails, ExecError, NotQueued, Destroy, Finalize, NoStmt, Progress
<1>3. CASE ExecDone(q)
  BY <1>3 DEF ExecDone, Done, Progress
<1>4. CASE CallbackEnd(q)
  BY <1>4 DEF CallbackEnd, Destroy, Finalize, NoStmt
<1>5. CASE SelectDone(q) \/ SelectError(q) \/ (QueryReset(q) /\ ~ hasResults[q])
  BY <1>5 DEF SelectDone, SelectError, QueryReset, Given, Ready
<1> QED
  BY <1>1, <1>2, <1>3, <1>4, <1>5 DEF Ends

\* A reset before the first row was asked for loses it; another one changes nothing.
LEMMA EarlyResetShows ==
  ASSUME NEW q \in Queries, CursorInv, CursorInv', QueryReset(q), hasResults[q]
  PROVE  CallbackCursor!ResetEarly(q) \/ UNCHANGED <<stmt, hasResults, fetched>>
<1> USE DEF CursorInv, TypeOK
<1>1. /\ holder[q] = "callback" /\ fetched[q] = 0
      /\ (stmt[q].status = "row" /\ stmt[q].pos = 1) \/ stmt[q].status = "ready"
  BY DEF QueryReset, MayCall, Progress
<1>2. /\ stmt' = [stmt EXCEPT ![q] = Ready] /\ UNCHANGED hasResults
      /\ fetched' = [fetched EXCEPT ![q] = 0]
  BY DEF QueryReset, Given
<1>3. CASE stmt[q].status = "row"
  <2>1. /\ OthersLeft(q) /\ hasResults'[q] /\ fetched'[q] = 0
        /\ stmt'[q].status = "ready" /\ stmt'[q].size = 0
    BY <1>2 DEF OthersLeft, Ready
  <2>2. CallbackCursor!At(q, FALSE, 0, 0, 0, TRUE)
    BY <2>1, ShowsAs
  <2>3. /\ [p \in Queries |-> stmt[p].status = "row"][q]
        /\ [p \in Queries |-> IF hasResults[p] THEN 0 ELSE stmt[p].pos][q] = 0
    BY <1>3
  <2> QED
    BY <2>2, <2>3 DEF CallbackCursor!ResetEarly
<1>4. CASE stmt[q].status = "ready"
  <2>1. stmt[q].pos = 0 /\ stmt[q].size = 0
    BY <1>4 DEF StmtShape
  <2>2. stmt[q] = Ready
    BY <1>4, <2>1 DEF Ready
  <2> QED
    BY <1>1, <1>2, <2>2
<1> QED
  BY <1>1, <1>3, <1>4

(* Every behaviour of the statements is one of Cursor: the callback of any query is
   given each row of a pass once and in order, also the row that the database thread
   fetched before, whatever it calls, and whatever failed or is executed for others
   meanwhile; a Row that is none it is given only once after a reset that came before
   its first call of query_select. *)
THEOREM CursorImplemented == Spec => ImplementsCursor
<1>1. Init => CallbackCursor!Init
  <2> SUFFICES ASSUME Init PROVE CallbackCursor!Init
    OBVIOUS
  <2>1. \A q \in Queries :
          stmt[q].status = "none" /\ stmt[q].size = 0 /\ stmt[q].pos = 0 /\ ~ hasResults[q]
    BY DEF Init, NoStmt
  <2>2. fetched = [q \in Queries |-> 0]
    BY DEF Init
  <2>3. /\ [q \in Queries |-> stmt[q].status = "row"] = [q \in Queries |-> FALSE]
        /\ [q \in Queries |-> stmt[q].size] = [q \in Queries |-> 0]
        /\ [q \in Queries |-> hasResults[q] /\ stmt[q].status = "ready"]
             = [q \in Queries |-> FALSE]
    <3>1. \A q \in Queries :
            /\ ~ (stmt[q].status = "row") /\ stmt[q].size = 0
            /\ ~ (hasResults[q] /\ stmt[q].status = "ready")
      BY <2>1
    <3>2. [q \in Queries |-> stmt[q].size] = [q \in Queries |-> 0]
      BY <3>1
    <3>3. [q \in Queries |-> stmt[q].status = "row"] = [q \in Queries |-> FALSE]
      BY <3>1, Zenon
    <3>4. [q \in Queries |-> hasResults[q] /\ stmt[q].status = "ready"]
            = [q \in Queries |-> FALSE]
      BY <3>1, Zenon
    <3> QED
      BY <3>2, <3>3, <3>4
  <2>4. [q \in Queries |-> IF hasResults[q] THEN 0 ELSE stmt[q].pos] = [q \in Queries |-> 0]
    BY <2>1
  <2> QED
    BY <2>2, <2>3, <2>4 DEF CallbackCursor!Init
<1>2. ASSUME CursorInv, CursorInv', [Next]_vars
      PROVE  [CallbackCursor!Next]_(CallbackCursor!vars)
  <2>1. CASE UNCHANGED <<stmt, hasResults, fetched>>
    BY <2>1 DEF CallbackCursor!vars
  <2>2. ASSUME NEW q \in Queries, Ends(q)
        PROVE  CallbackCursor!Next
    BY <1>2, <2>2, EndShows, ShowsAsRewind DEF CallbackCursor!Next
  <2>3. ASSUME NEW q \in Queries, ExecRow(q) \/ SelectFirst(q) \/ SelectRow(q)
        PROVE  CallbackCursor!Next
    BY <1>2, <2>3, ShowsAsPass DEF CallbackCursor!Next
  <2>4. ASSUME NEW q \in Queries, QueryReset(q), hasResults[q]
        PROVE  CallbackCursor!Next \/ UNCHANGED <<stmt, hasResults, fetched>>
    BY <1>2, <2>4, EarlyResetShows DEF CallbackCursor!Next
  <2>5. ASSUME NEW q \in Queries, DbSched(q)
        PROVE  UNCHANGED <<stmt, hasResults, fetched>>
    BY <1>2, <2>5 DEF DbSched, CursorInv, TypeOK, Progress
  <2>6. ASSUME NEW q \in Queries,
               DbSchedNoMemory(q) \/ ExecChanges(q) \/ Queued(q) \/ CallbackBegin(q)
        PROVE  UNCHANGED <<stmt, hasResults, fetched>>
    BY <2>6 DEF DbSchedNoMemory, ExecChanges, Queued, CallbackBegin, vars, queryVars
  <2>7. CASE DbOpen \/ DbOpenSchemaFails \/ DbOpenFails \/ DbExec \/ UNCHANGED vars
    BY <2>1, <2>7 DEF DbOpen, DbOpenSchemaFails, DbOpenFails, OpenedAs, DbExec, vars, queryVars
  <2> QED
    BY <1>2, <2>1, <2>2, <2>3, <2>4, <2>5, <2>6, <2>7
       DEF Next, Client, Execution, Callback, Ends
<1> QED
  BY <1>1, <1>2, Invariant, PTL DEF Spec, ImplementsCursor, CallbackCursor!Spec

\* A step of callbacks that ask before they reset keeps what they were given a row.
LEMMA AskedStep ==
  ASSUME CursorInv, [Next]_vars, NEW q \in Queries,
         QueryReset(q) => ~ hasResults[q],
         ~ Stale(q), fetched[q] # NotARow
  PROVE  ~ Stale(q)' /\ fetched'[q] # NotARow
<1> USE CursorAssumption DEF CursorInv, TypeOK, Stale
<1>1. ASSUME NEW p \in Queries, Ends(p)
      PROVE  ~ Stale(q)' /\ fetched'[q] # NotARow
  <2>1. OthersLeft(p) /\ fetched'[p] = 0 /\ ~ Stale(p)'
    BY <1>1, EndShows
  <2>2. CASE p = q
    BY <2>1, <2>2 DEF NotARow
  <2>3. CASE p # q
    BY <2>1, <2>3 DEF OthersLeft
  <2> QED
    BY <2>2, <2>3
<1>2. ASSUME NEW p \in Queries, ExecRow(p)
      PROVE  ~ Stale(q)' /\ fetched'[q] # NotARow
  BY <1>2 DEF ExecRow, StepRow, AtStart, OnRow, Progress, Unused
<1>3. ASSUME NEW p \in Queries, SelectFirst(p)
      PROVE  ~ Stale(q)' /\ fetched'[q] # NotARow
  BY <1>3 DEF SelectFirst, RowOf, Given, MayCall, Progress, StmtShape, NotARow
<1>4. ASSUME NEW p \in Queries, SelectRow(p)
      PROVE  ~ Stale(q)' /\ fetched'[q] # NotARow
  <2>1. ~ hasResults[p] /\ UNCHANGED hasResults /\ fetched' = [fetched EXCEPT ![p] = stmt'[p].pos]
    BY <1>4 DEF SelectRow, Given
  <2>2. stmt'[p].pos <= MaxRows /\ stmt'[p].pos \in Nat
    BY TypeStep, <1>4 DEF Stmt
  <2>3. \A r \in Queries \ {p} : stmt'[r] = stmt[r]
    BY <1>4 DEF SelectRow, StepRow
  <2> QED
    BY <2>1, <2>2, <2>3 DEF NotARow
<1>5. ASSUME NEW p \in Queries, QueryReset(p), hasResults[p]
      PROVE  ~ Stale(q)' /\ fetched'[q] # NotARow
  <2>1. p # q
    BY <1>5
  <2> QED
    BY <1>5, <2>1 DEF QueryReset, Given
<1>6. CASE UNCHANGED <<stmt, hasResults, fetched>>
  BY <1>6
<1>7. ASSUME NEW p \in Queries,
             DbSchedNoMemory(p) \/ ExecChanges(p) \/ Queued(p) \/ CallbackBegin(p)
      PROVE  UNCHANGED <<stmt, hasResults, fetched>>
  BY <1>7 DEF DbSchedNoMemory, ExecChanges, Queued, CallbackBegin, vars, queryVars
<1>8. ASSUME NEW p \in Queries, DbSched(p)
      PROVE  UNCHANGED <<stmt, hasResults, fetched>>
  BY <1>8 DEF DbSched, Progress
<1>9. CASE DbOpen \/ DbOpenSchemaFails \/ DbOpenFails \/ DbExec \/ UNCHANGED vars
  BY <1>6, <1>9 DEF DbOpen, DbOpenSchemaFails, DbOpenFails, OpenedAs, DbExec, vars, queryVars
<1> QED
  BY <1>1, <1>2, <1>3, <1>4, <1>5, <1>6, <1>7, <1>8, <1>9
     DEF Next, Client, Execution, Callback, Ends

\* no callback resets its query before it has asked for a row
AsksBeforeReset == \A q \in Queries : QueryReset(q) => ~ hasResults[q]

(* Every Row is one of the result if no callback resets its query before it has asked
   for a row; that is up to the callbacks, the code does not see to it. *)
THEOREM RowsAreOfTheResult ==
  Spec /\ [][AsksBeforeReset]_vars => [](\A q \in Queries : fetched[q] # NotARow)
<1> DEFINE InPass == \A q \in Queries : ~ Stale(q) /\ fetched[q] # NotARow
<1>1. Init => InPass
  <2> SUFFICES ASSUME Init, NEW q \in Queries PROVE ~ Stale(q) /\ fetched[q] # NotARow
    OBVIOUS
  <2>1. fetched[q] = 0 /\ ~ hasResults[q]
    BY DEF Init
  <2> QED
    BY <2>1, CursorAssumption DEF Stale, NotARow
<1>2. CursorInv /\ InPass /\ [Next]_vars /\ [AsksBeforeReset]_vars => InPass'
  <2> SUFFICES ASSUME CursorInv, InPass, [Next]_vars, [AsksBeforeReset]_vars, NEW q \in Queries
               PROVE  ~ Stale(q)' /\ fetched'[q] # NotARow
    OBVIOUS
  <2>1. CASE UNCHANGED vars
    BY <2>1 DEF vars, queryVars, Stale
  <2>2. CASE AsksBeforeReset
    BY <2>2, AskedStep DEF AsksBeforeReset
  <2> QED
    BY <2>1, <2>2
<1>3. InPass => \A q \in Queries : fetched[q] # NotARow
  OBVIOUS
<1> HIDE DEF InPass
<1> QED
  BY <1>1, <1>2, <1>3, Invariant, PTL DEF Spec
=============================================================================
