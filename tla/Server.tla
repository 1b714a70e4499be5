------------------------------- MODULE Server -------------------------------
(***************************************************************************)
(* The program from mt_global_init to mt_global_deinit: the main thread    *)
(* creates the key of the thread ids, starts the log thread and then the   *)
(* database thread, and stops them in the opposite order.  Meanwhile the   *)
(* main thread and the database thread log: each tests the pointer sLog,   *)
(* pushes into the log thread's ring and posts its semaphore.              *)
(*                                                                         *)
(* A push and a pop are atomic here, as RingBuf's theorems allow, and so   *)
(* are the two flags' uses in a stop, which WorkerThread has one by one.   *)
(***************************************************************************)
EXTENDS Naturals, Sequences, FiniteSets

CONSTANTS
  Main, Log, Db,   \* the threads
  Capacity,        \* packets the log thread's ring holds
  MaxLines,        \* bound: lines a thread logs
  MaxJobs          \* bound: calls of db_thread_sched

ASSUME ServerAssumption ==
  /\ Cardinality({Main, Log, Db}) = 3
  /\ Capacity \in Nat \ {0} /\ MaxLines \in Nat /\ MaxJobs \in Nat

Workers == {Log, Db}
Users   == {Main, Db}     \* the threads that log
NoCall  == [src |-> Main, op |-> "none"]
Packet  == [src : Users, op : {"register", "line", "deregister"}]

VARIABLES
  at,               \* the place of the main thread in Order
  keys,             \* the key of the thread ids exists
  ids,              \* threads whose id has been set
  sLog,             \* "null", "noRing" or "ready"
  ring,             \* the log thread's ring
  sem, lifetime, shouldContinue,   \* of each worker's Thread
  wpc,              \* where each worker is
  calling,          \* where each user is in a call of log.c
  pending,          \* the packet it has made
  files,            \* sources with an open log
  (* History, read by no guard but the bounds. *)
  refused,          \* registrations for which the ring had no place
  unopened,         \* registrations whose log could not be opened
  lost,             \* sources of lines that the log thread took and did not write
  lines, jobs

logVars    == <<ring, calling, pending>>
threadVars == <<sem, lifetime, shouldContinue>>
fileVars   == <<files, unopened, lost>>
vars == <<at, keys, ids, sLog, logVars, threadVars, wpc, fileVars, refused, lines, jobs>>

Init ==
  /\ at = "keys" /\ keys = FALSE /\ ids = {} /\ sLog = "null" /\ ring = <<>>
  /\ sem = [w \in Workers |-> 0]
  /\ lifetime = [w \in Workers |-> FALSE] /\ shouldContinue = [w \in Workers |-> FALSE]
  /\ wpc = [w \in Workers |-> "none"]
  /\ calling = [t \in Users |-> "no"]
  /\ pending = [t \in Users |-> NoCall]
  /\ files = {} /\ refused = {} /\ unopened = {} /\ lost = {}
  /\ lines = [t \in Users |-> 0] /\ jobs = 0

Ended == at \in {"end", "aborted"}   \* main has returned, and every thread is gone

-----------------------------------------------------------------------------
(* log_msg, log_register and log_deregister *)

\* log_msg needs the thread's id to begin with; all of them return if there is no ring
Enter(t, op) ==
  LET goesOn == sLog = "ready" /\ (op = "line" => keys /\ t \in ids) IN
  /\ calling[t] = "no"
  /\ IF goesOn THEN /\ calling' = [calling EXCEPT ![t] = "push"]
                   /\ pending' = [pending EXCEPT ![t] = [src |-> t, op |-> op]]
               ELSE UNCHANGED <<calling, pending>>
  /\ UNCHANGED ring

LogPush(t) ==
  /\ calling[t] = "push" /\ ~ Ended
  /\ Len(ring) < Capacity
  /\ ring' = Append(ring, pending[t])
  /\ calling' = [calling EXCEPT ![t] = "trigger"]
  /\ pending' = [pending EXCEPT ![t] = NoCall]
  /\ UNCHANGED <<at, keys, ids, sLog, threadVars, wpc, fileVars, refused, lines, jobs>>

\* the line is freed, a registration not repeated
LogFull(t) ==
  /\ calling[t] = "push" /\ ~ Ended
  /\ Len(ring) = Capacity
  /\ calling' = [calling EXCEPT ![t] = "no"]
  /\ pending' = [pending EXCEPT ![t] = NoCall]
  /\ refused' = IF pending[t].op = "register" THEN refused \cup {t} ELSE refused
  /\ UNCHANGED <<at, keys, ids, sLog, ring, threadVars, wpc, fileVars, lines, jobs>>

LogTrigger(t) ==
  /\ calling[t] = "trigger" /\ ~ Ended
  /\ calling' = [calling EXCEPT ![t] = "no"]
  /\ sem' = [sem EXCEPT ![Log] = @ + 1]
  /\ UNCHANGED <<at, keys, ids, sLog, ring, pending, lifetime, shouldContinue, wpc,
                 fileVars, refused, lines, jobs>>

-----------------------------------------------------------------------------
(* The main thread *)

\* mutant: the database thread is started before there is a log for it
InitOrderDbFirst == <<"keys", "tls", "dbInit", "logInit", "logRegister", "announce">>

InitOrder == <<"keys", "tls", "logInit", "logRegister", "dbInit", "announce">>

\* mutant: the log thread is stopped before the database thread
DeinitOrderLogFirst == <<"bye", "stopLog", "freeLog", "stopDb", "freeDb", "deleteKeys">>

DeinitOrder == <<"bye", "stopDb", "freeDb", "stopLog", "freeLog", "deleteKeys">>

Order == InitOrder \o <<"run">> \o DeinitOrder \o <<"end">>

MainAt(place) == at = place /\ calling[Main] = "no"

MainGoesOn == at' = Order[1 + CHOOSE i \in DOMAIN Order : Order[i] = at]

Starts(w) ==
  /\ lifetime' = [lifetime EXCEPT ![w] = TRUE]
  /\ shouldContinue' = [shouldContinue EXCEPT ![w] = TRUE]
  /\ wpc' = [wpc EXCEPT ![w] = "start"]

\* tls_global_init_keys
InitKeys ==
  /\ MainAt("keys") /\ MainGoesOn
  /\ keys' = TRUE
  /\ UNCHANGED <<ids, sLog, logVars, threadVars, wpc, fileVars, refused, lines, jobs>>

\* tls_init_thread
InitTls ==
  /\ MainAt("tls") /\ MainGoesOn
  /\ ids' = ids \cup {Main}
  /\ UNCHANGED <<keys, sLog, logVars, threadVars, wpc, fileVars, refused, lines, jobs>>

InitLog ==
  /\ MainAt("logInit") /\ MainGoesOn
  /\ sLog' = "ready"
  /\ Starts(Log)
  /\ UNCHANGED <<keys, ids, logVars, sem, fileVars, refused, lines, jobs>>

\* the ring is empty: log_register does not fail here
RegisterMain ==
  /\ MainAt("logRegister") /\ MainGoesOn
  /\ Enter(Main, "register")
  /\ UNCHANGED <<keys, ids, sLog, threadVars, wpc, fileVars, refused, lines, jobs>>

InitDb ==
  /\ MainAt("dbInit") /\ MainGoesOn
  /\ Starts(Db)
  /\ UNCHANGED <<keys, ids, sLog, logVars, sem, fileVars, refused, lines, jobs>>

\* one of them fails, for want of memory or of a thread: nothing is undone, and main
\* returns 1
InitFails ==
  /\ \E place \in {"keys", "tls", "logInit", "dbInit"} : MainAt(place)
  /\ at' = "aborted"
  /\ sLog' \in IF at = "logInit" THEN {"null", "noRing", "ready"} ELSE {sLog}
  /\ UNCHANGED <<keys, ids, logVars, threadVars, wpc, fileVars, refused, lines, jobs>>

\* the lines with which mt_global_init ends and mt_global_deinit begins
Announce ==
  /\ \E place \in {"announce", "bye"} : MainAt(place)
  /\ MainGoesOn
  /\ Enter(Main, "line")
  /\ UNCHANGED <<keys, ids, sLog, threadVars, wpc, fileVars, refused, lines, jobs>>

MainSays ==
  /\ MainAt("run")
  /\ lines[Main] < MaxLines
  /\ lines' = [lines EXCEPT ![Main] = @ + 1]
  /\ Enter(Main, "line")
  /\ UNCHANGED <<at, keys, ids, sLog, threadVars, wpc, fileVars, refused, jobs>>

\* db_thread_sched
MainSchedules ==
  /\ MainAt("run")
  /\ jobs < MaxJobs
  /\ jobs' = jobs + 1
  /\ sem' = [sem EXCEPT ![Db] = @ + 1]
  /\ UNCHANGED <<at, keys, ids, sLog, logVars, lifetime, shouldContinue, wpc, fileVars,
                 refused, lines>>

MainLeaves ==
  /\ MainAt("run") /\ MainGoesOn
  /\ UNCHANGED <<keys, ids, sLog, logVars, threadVars, wpc, fileVars, refused, lines, jobs>>

\* mutant: the flag is unlocked and the semaphore is not posted
SignalStopSilent(w) ==
  /\ shouldContinue' = [shouldContinue EXCEPT ![w] = FALSE]
  /\ UNCHANGED sem

\* thread_send_stop_signal
SignalStop(w) ==
  /\ shouldContinue' = [shouldContinue EXCEPT ![w] = FALSE]
  /\ sem' = [sem EXCEPT ![w] = @ + 1]

\* thread_stop_all_in_one: the stop of a worker that is running
StopSignals(w, place) ==
  /\ MainAt(place) /\ MainGoesOn
  /\ lifetime[w]
  /\ SignalStop(w)
  /\ UNCHANGED <<keys, ids, sLog, logVars, lifetime, wpc, fileVars, refused, lines, jobs>>

\* and of one that has ended by itself
StopSkips(w, place) ==
  /\ MainAt(place) /\ MainGoesOn
  /\ ~ lifetime[w]
  /\ UNCHANGED <<keys, ids, sLog, logVars, threadVars, wpc, fileVars, refused, lines, jobs>>

\* thread_wait_until_stopped; sDbThread is used by the main thread only
FreeDb ==
  /\ MainAt("freeDb") /\ MainGoesOn
  /\ ~ lifetime[Db]
  /\ UNCHANGED <<keys, ids, sLog, logVars, threadVars, wpc, fileVars, refused, lines, jobs>>

\* the files are closed, and what is in the ring is lost with it
FreeLog ==
  /\ MainAt("freeLog") /\ MainGoesOn
  /\ ~ lifetime[Log]
  /\ sLog' = "null" /\ ring' = <<>> /\ files' = {}
  /\ UNCHANGED <<keys, ids, calling, pending, threadVars, wpc, unopened, lost, refused,
                 lines, jobs>>

DeleteKeys ==
  /\ MainAt("deleteKeys") /\ MainGoesOn
  /\ keys' = FALSE
  /\ UNCHANGED <<ids, sLog, logVars, threadVars, wpc, fileVars, refused, lines, jobs>>

-----------------------------------------------------------------------------
(* The two workers *)

WorkerAt(w, place) == wpc[w] = place /\ ~ Ended
WorkerGoto(w, from, to) == WorkerAt(w, from) /\ wpc' = [wpc EXCEPT ![w] = to]
Returned == calling[Db] = "no"     \* the database thread's call of log.c has returned

\* thread_proc_wrapper
WorkerStart(w) ==
  /\ WorkerGoto(w, "start", IF w = Db THEN "register" ELSE "wait")
  /\ ids' = ids \cup {w}
  /\ UNCHANGED <<at, keys, sLog, logVars, threadVars, fileVars, refused, lines, jobs>>

\* tls_init_thread failed: the worker ends without a word
WorkerNoId(w) ==
  /\ WorkerGoto(w, "start", "exit")
  /\ UNCHANGED <<at, keys, ids, sLog, logVars, threadVars, fileVars, refused, lines, jobs>>

WorkerWait(w) ==
  /\ WorkerGoto(w, "wait", "work")
  /\ w = Db => Returned
  /\ sem[w] > 0
  /\ sem' = [sem EXCEPT ![w] = @ - 1]
  /\ UNCHANGED <<at, keys, ids, sLog, logVars, lifetime, shouldContinue, fileVars, refused,
                 lines, jobs>>

WorkerWaitFails(w) ==
  /\ WorkerGoto(w, "wait", "leave")
  /\ w = Db => Returned
  /\ UNCHANGED <<at, keys, ids, sLog, logVars, threadVars, fileVars, refused, lines, jobs>>

\* thread_should_stop
WorkerCheck(w) ==
  /\ WorkerGoto(w, "check", IF shouldContinue[w] THEN "wait" ELSE "leave")
  /\ UNCHANGED <<at, keys, ids, sLog, logVars, threadVars, fileVars, refused, lines, jobs>>

\* the flags are unlocked and the thread ends
WorkerExit(w) ==
  /\ WorkerGoto(w, "exit", "done")
  /\ w = Db => Returned
  /\ lifetime' = [lifetime EXCEPT ![w] = FALSE]
  /\ shouldContinue' = [shouldContinue EXCEPT ![w] = FALSE]
  /\ UNCHANGED <<at, keys, ids, sLog, logVars, sem, fileVars, refused, lines, jobs>>

\* db_thread_proc does not look at the result
DbRegisters ==
  /\ WorkerGoto(Db, "register", "wait")
  /\ Enter(Db, "register")
  /\ UNCHANGED <<at, keys, ids, sLog, threadVars, fileVars, refused, lines, jobs>>

DbSays ==
  /\ WorkerAt(Db, "work")
  /\ lines[Db] < MaxLines
  /\ lines' = [lines EXCEPT ![Db] = @ + 1]
  /\ Enter(Db, "line")
  /\ UNCHANGED <<at, keys, ids, sLog, threadVars, wpc, fileVars, refused, jobs>>

DbWorked ==
  /\ WorkerGoto(Db, "work", "check")
  /\ Returned
  /\ UNCHANGED <<at, keys, ids, sLog, logVars, threadVars, fileVars, refused, lines, jobs>>

DbDeregisters ==
  /\ WorkerGoto(Db, "leave", "exit")
  /\ Enter(Db, "deregister")
  /\ UNCHANGED <<at, keys, ids, sLog, threadVars, fileVars, refused, lines, jobs>>

LogLeaves ==
  /\ WorkerGoto(Log, "leave", "exit")
  /\ UNCHANGED <<at, keys, ids, sLog, logVars, threadVars, fileVars, refused, lines, jobs>>

\* the log thread takes a packet; LogThread has what it does with it
LogPops ==
  /\ WorkerAt(Log, "work")
  /\ ring # <<>>
  /\ ring' = Tail(ring)
  /\ LET p == Head(ring) IN
       \/ /\ p.op = "register"
          /\ files' = files \cup {p.src}
          /\ UNCHANGED <<unopened, lost>>
       \/ /\ p.op = "register"
          /\ unopened' = unopened \cup {p.src}
          /\ UNCHANGED <<files, lost>>
       \/ /\ p.op = "line"
          /\ lost' = IF p.src \in files THEN lost ELSE lost \cup {p.src}
          /\ UNCHANGED <<files, unopened>>
       \/ /\ p.op = "deregister"
          /\ files' = files \ {p.src}
          /\ UNCHANGED <<unopened, lost>>
  /\ UNCHANGED <<at, keys, ids, sLog, calling, pending, threadVars, wpc, refused, lines, jobs>>

LogPopsNothing ==
  /\ WorkerGoto(Log, "work", "check")
  /\ ring = <<>>
  /\ UNCHANGED <<at, keys, ids, sLog, logVars, threadVars, fileVars, refused, lines, jobs>>

-----------------------------------------------------------------------------
UserStep(t) == LogPush(t) \/ LogFull(t) \/ LogTrigger(t)

StartUp == InitKeys \/ InitTls \/ InitLog \/ RegisterMain \/ InitDb \/ Announce

StopStep ==
  \/ StopSignals(Db, "stopDb") \/ StopSkips(Db, "stopDb") \/ FreeDb
  \/ StopSignals(Log, "stopLog") \/ StopSkips(Log, "stopLog") \/ FreeLog
  \/ DeleteKeys

WorkerStep(w) == WorkerStart(w) \/ WorkerWait(w) \/ WorkerCheck(w) \/ WorkerExit(w)

DbStep  == WorkerStep(Db) \/ DbRegisters \/ DbSays \/ DbWorked \/ DbDeregisters
LogStep == WorkerStep(Log) \/ LogPops \/ LogPopsNothing \/ LogLeaves

Next ==
  \/ StartUp \/ InitFails \/ MainSays \/ MainSchedules \/ MainLeaves \/ StopStep
  \/ \E t \in Users : UserStep(t)
  \/ DbStep \/ LogStep
  \/ \E w \in Workers : WorkerNoId(w) \/ WorkerWaitFails(w)

Spec == Init /\ [][Next]_vars

\* The scheduler runs every thread. The main thread need not ever leave its work, and
\* nothing need fail.
FairSpec ==
  /\ Spec
  /\ WF_vars(StartUp) /\ WF_vars(StopStep)
  /\ \A t \in Users : WF_vars(UserStep(t))
  /\ WF_vars(DbStep) /\ WF_vars(LogStep)

-----------------------------------------------------------------------------
TypeOK ==
  /\ at \in {"end", "aborted"} \cup {Order[i] : i \in DOMAIN Order}
  /\ keys \in BOOLEAN /\ ids \subseteq {Main, Log, Db}
  /\ sLog \in {"null", "noRing", "ready"}
  /\ ring \in Seq(Packet) /\ Len(ring) <= Capacity
  /\ sem \in [Workers -> Nat]
  /\ lifetime \in [Workers -> BOOLEAN] /\ shouldContinue \in [Workers -> BOOLEAN]
  /\ wpc \in [Workers -> {"none", "start", "register", "wait", "work", "check", "leave",
                          "exit", "done"}]
  /\ calling \in [Users -> {"no", "push", "trigger"}] /\ pending \in [Users -> Packet \cup {NoCall}]
  /\ files \subseteq Users /\ refused \subseteq Users /\ unopened \subseteq Users
  /\ lost \subseteq Users
  /\ lines \in [Users -> 0 .. MaxLines] /\ jobs \in 0 .. MaxJobs

(* Whoever uses something that mt_global_deinit destroys is done with it before: a
   thread that has found sLog and goes on to push and to post finds the LogThread
   there still when it reads the pointer again, as it does for either, and the key of
   the ids is there for as long as the database thread may log. *)
UsersOutlived ==
  ~ Ended =>
    /\ \A t \in Users : calling[t] # "no" => sLog = "ready"
    /\ wpc[Log] \in {"start", "wait", "work", "check"} => sLog = "ready"
    /\ wpc[Db] \in {"register", "wait", "work", "check", "leave"} => keys

(* A line that reaches the log thread is written, whenever its source came up and
   however the packets of two threads mix in the ring; the exceptions are a ring that
   was full when the source was registered, and a log that could not be opened. *)
LinesFindTheirLog == lost \subseteq refused \cup unopened

(* mt_global_deinit returns: neither worker is waited for in vain, whichever of them
   has ended by itself, and although the database thread logs through the other one
   while it is being stopped. *)
DeinitReturns == (at = "bye") ~> (at = "end")
=============================================================================
