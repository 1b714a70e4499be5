----------------------------- MODULE ServerProofs -----------------------------
(***************************************************************************)
(* Theorems about the start and the end of the program: for any capacity   *)
(* of the log thread's ring and any number of lines and jobs.              *)
(***************************************************************************)
EXTENDS Server, FiniteSetTheorems, SequenceTheorems, TLAPS

\* places of the main thread: where the log thread and its ring are, where the
\* database thread is, and where they are not yet
BeforeLog == {"keys", "tls", "logInit"}
LogThere  == {"logRegister", "dbInit", "announce", "run", "bye", "stopDb", "freeDb",
              "stopLog", "freeLog"}
BeforeDb  == BeforeLog \cup {"logRegister", "dbInit"}
DbThere   == {"announce", "run", "bye", "stopDb", "freeDb"}
Places    == BeforeLog \cup LogThere \cup {"deleteKeys", "end", "aborted"}

\* The main thread's place tells what exists.
PlaceTells ==
  /\ at \in Places
  /\ ~ Ended => /\ keys <=> at # "keys"
                /\ sLog = "ready" <=> at \in LogThere

Alive(w) == wpc[w] \notin {"none", "done"}

\* A worker is started at its place and gone before the main thread is past the
\* place where it waits for it; its lifetime flag says whether it is there.
WorkerTells ==
  /\ \A w \in Workers : lifetime[w] <=> Alive(w)
  /\ ~ Ended =>
       /\ wpc[Log] = "none" <=> at \in BeforeLog
       /\ Alive(Log) => at \in LogThere
       /\ wpc[Db] = "none" <=> at \in BeforeDb
       /\ Alive(Db) => at \in DbThere

\* a call of log.c is under way where the code has one, with the packet for it
CallTells ==
  /\ ~ Ended /\ calling[Main] # "no" => at \in {"dbInit", "run", "stopDb"}
  /\ calling[Db] # "no" => wpc[Db] \in {"wait", "work", "exit"}
  /\ \A t \in Users :
       IF calling[t] = "push" THEN pending[t] \in Packet /\ pending[t].src = t
                              ELSE pending[t] = NoCall
  /\ calling[Main] = "push" =>
       /\ pending[Main].op \in {"register", "line"}
       /\ ~ Ended => (pending[Main].op = "register" <=> at = "dbInit")
  /\ calling[Db] = "push" =>
       pending[Db].op = CASE wpc[Db] = "wait" -> "register"
                          [] wpc[Db] = "work" -> "line"
                          [] wpc[Db] = "exit" -> "deregister"

OrderInv == TypeOK /\ PlaceTells /\ WorkerTells /\ CallTells

-----------------------------------------------------------------------------
Sent(t, op) == [src |-> t, op |-> op]

InRing(t, op) == \E i \in 1 .. Len(ring) : ring[i] = Sent(t, op)

Excused(t) == t \in refused \cup unopened

\* t is past its registration, and nothing of it is left to be pushed
HasRegistered(t) ==
  /\ ~ (calling[t] = "push" /\ pending[t].op = "register")
  /\ t = Main => at \in LogThere \ {"logRegister"}
  /\ t = Db   => wpc[Db] \in {"wait", "work", "check", "leave"}

\* The log is open, or will be before the log thread comes to what is pushed next.
LogComes(t) ==
  /\ t \in files \/ InRing(t, "register")
  /\ ~ InRing(t, "deregister")

\* A line in the ring has its registration before it, unless it has been taken, and
\* no deregistration.
LinesInOrder(t) ==
  \A i \in 1 .. Len(ring) :
    ring[i] = Sent(t, "line") =>
      /\ t \in files \/ \E j \in 1 .. i - 1 : ring[j] = Sent(t, "register")
      /\ \A j \in 1 .. i - 1 : ring[j] # Sent(t, "deregister")

LogOf(t) == Excused(t) \/ (LinesInOrder(t) /\ (HasRegistered(t) => LogComes(t)))

\* Only the database thread deregisters, when it is out of its loop.
LeavesLast(t) == InRing(t, "deregister") => t = Db /\ wpc[Db] \in {"exit", "done"}

LogsInv == ~ Ended => \A t \in Users : LogOf(t) /\ LeavesLast(t)

ServerInv == OrderInv /\ LinesFindTheirLog /\ LogsInv

-----------------------------------------------------------------------------
(* The order of the main thread's places *)

Course == <<"keys", "tls", "logInit", "logRegister", "dbInit", "announce", "run",
            "bye", "stopDb", "freeDb", "stopLog", "freeLog", "deleteKeys", "end">>

LEMMA Joined ==
  ASSUME NEW S, NEW s \in Seq(S), NEW t \in Seq(S), NEW u \in Seq(S),
         Len(u) = Len(s) + Len(t),
         \A i \in 1 .. Len(u) : u[i] = IF i <= Len(s) THEN s[i] ELSE t[i - Len(s)]
  PROVE  s \o t = u
<1> DEFINE c == s \o t
<1>1. /\ c \in Seq(S) /\ Len(c) = Len(s) + Len(t)
      /\ \A i \in 1 .. Len(s) + Len(t) : c[i] = IF i <= Len(s) THEN s[i] ELSE t[i - Len(s)]
  BY ConcatProperties
<1> HIDE DEF c
<1>2. c = u
  BY <1>1, SeqEqual
<1> QED
  BY <1>2 DEF c

LEMMA OrderIsCourse == Order = Course
<1> DEFINE upToRun == <<"keys", "tls", "logInit", "logRegister", "dbInit", "announce", "run">>
           toDelete == <<"keys", "tls", "logInit", "logRegister", "dbInit", "announce", "run",
                         "bye", "stopDb", "freeDb", "stopLog", "freeLog", "deleteKeys">>
<1>1. /\ InitOrder \in Seq(Places) /\ Len(InitOrder) = 6
      /\ DeinitOrder \in Seq(Places) /\ Len(DeinitOrder) = 6
  BY DEF InitOrder, DeinitOrder, Places, BeforeLog, LogThere
<1>2. /\ <<"run">> \in Seq(Places) /\ Len(<<"run">>) = 1
      /\ <<"end">> \in Seq(Places) /\ Len(<<"end">>) = 1
  BY DEF Places, BeforeLog, LogThere
<1>3. /\ upToRun \in Seq(Places) /\ Len(upToRun) = 7
      /\ toDelete \in Seq(Places) /\ Len(toDelete) = 13
      /\ Course \in Seq(Places) /\ Len(Course) = 14
  BY DEF Course, Places, BeforeLog, LogThere
<1> HIDE DEF upToRun, toDelete
<1>4. InitOrder \o <<"run">> = upToRun
  <2> DEFINE s == InitOrder
             t == <<"run">>
             u == upToRun
  <2>1. Len(u) = Len(s) + Len(t)
    BY <1>1, <1>2, <1>3
  <2>2. \A i \in 1 .. Len(u) : u[i] = IF i <= Len(s) THEN s[i] ELSE t[i - Len(s)]
    BY DEF InitOrder, upToRun
  <2>3. s \in Seq(Places) /\ t \in Seq(Places) /\ u \in Seq(Places)
    BY <1>1, <1>2, <1>3
  <2> HIDE DEF s, t, u
  <2>4. s \o t = u
    BY <2>1, <2>2, <2>3, Joined, Zenon
  <2> QED
    BY <2>4 DEF s, t, u
<1>5. upToRun \o DeinitOrder = toDelete
  <2> DEFINE s == upToRun
             t == DeinitOrder
             u == toDelete
  <2>1. Len(u) = Len(s) + Len(t)
    BY <1>1, <1>2, <1>3
  <2>2. \A i \in 1 .. Len(u) : u[i] = IF i <= Len(s) THEN s[i] ELSE t[i - Len(s)]
    BY DEF upToRun, DeinitOrder, toDelete
  <2>3. s \in Seq(Places) /\ t \in Seq(Places) /\ u \in Seq(Places)
    BY <1>1, <1>2, <1>3
  <2> HIDE DEF s, t, u
  <2>4. s \o t = u
    BY <2>1, <2>2, <2>3, Joined, Zenon
  <2> QED
    BY <2>4 DEF s, t, u
<1>6. toDelete \o <<"end">> = Course
  <2> DEFINE s == toDelete
             t == <<"end">>
             u == Course
  <2>1. Len(u) = Len(s) + Len(t)
    BY <1>1, <1>2, <1>3
  <2>2. \A i \in 1 .. Len(u) : u[i] = IF i <= Len(s) THEN s[i] ELSE t[i - Len(s)]
    BY DEF toDelete, Course
  <2>3. s \in Seq(Places) /\ t \in Seq(Places) /\ u \in Seq(Places)
    BY <1>1, <1>2, <1>3
  <2> HIDE DEF s, t, u
  <2>4. s \o t = u
    BY <2>1, <2>2, <2>3, Joined, Zenon
  <2> QED
    BY <2>4 DEF s, t, u
<1> QED
  BY <1>4, <1>5, <1>6 DEF Order

LEMMA CourseInjective ==
  ASSUME NEW i \in 1 .. 14, NEW j \in 1 .. 14, Course[i] = Course[j]
  PROVE  i = j
BY DEF Course

\* MainGoesOn takes the main thread to the place after its own.
LEMMA NextPlace ==
  ASSUME MainGoesOn, NEW k \in 1 .. 13, at = Course[k]
  PROVE  at' = Course[k + 1]
<1>1. DOMAIN Course = 1 .. 14
  BY DEF Course
<1>2. \A i \in 1 .. 14 : Course[i] = at <=> i = k
  BY CourseInjective
<1>3. (CHOOSE i \in DOMAIN Course : Course[i] = at) = k
  BY <1>1, <1>2
<1>4. 1 + k = k + 1
  OBVIOUS
<1> QED
  BY <1>3, <1>4, OrderIsCourse DEF MainGoesOn

LEMMA Successors ==
  ASSUME MainGoesOn
  PROVE  /\ at = "keys" => at' = "tls"
         /\ at = "tls" => at' = "logInit"
         /\ at = "logInit" => at' = "logRegister"
         /\ at = "logRegister" => at' = "dbInit"
         /\ at = "dbInit" => at' = "announce"
         /\ at = "announce" => at' = "run"
         /\ at = "run" => at' = "bye"
         /\ at = "bye" => at' = "stopDb"
         /\ at = "stopDb" => at' = "freeDb"
         /\ at = "freeDb" => at' = "stopLog"
         /\ at = "stopLog" => at' = "freeLog"
         /\ at = "freeLog" => at' = "deleteKeys"
         /\ at = "deleteKeys" => at' = "end"
<1>1. \A k \in 1 .. 13 : at = Course[k] => at' = Course[k + 1]
  BY NextPlace
<1>2. /\ Course[1] = "keys"
      /\ Course[2] = "tls"
      /\ Course[3] = "logInit"
      /\ Course[4] = "logRegister"
      /\ Course[5] = "dbInit"
      /\ Course[6] = "announce"
      /\ Course[7] = "run"
      /\ Course[8] = "bye"
      /\ Course[9] = "stopDb"
      /\ Course[10] = "freeDb"
      /\ Course[11] = "stopLog"
      /\ Course[12] = "freeLog"
      /\ Course[13] = "deleteKeys"
      /\ Course[14] = "end"
  BY DEF Course
<1> QED
  BY <1>1, <1>2

LEMMA PlacesOfOrder == {"end", "aborted"} \cup {Order[i] : i \in DOMAIN Order} = Places
<1>1. {Course[i] : i \in 1 .. 14} = Places \ {"aborted"}
  BY DEF Course, Places, BeforeLog, LogThere
<1>2. DOMAIN Course = 1 .. 14
  BY DEF Course
<1> QED
  BY <1>1, <1>2, OrderIsCourse DEF Places

LEMMA ThreadsDistinct == Main # Log /\ Main # Db /\ Log # Db
<1>1. ASSUME NEW a, NEW b PROVE Cardinality({a, b}) <= 2
  <2>1. Cardinality({a}) = 1 /\ IsFiniteSet({a})
    BY FS_Singleton
  <2>2. Cardinality({a} \cup {b}) <= 2
    BY <2>1, FS_AddElement
  <2>3. {a} \cup {b} = {a, b}
    OBVIOUS
  <2> QED
    BY <2>2, <2>3
<1>2. CASE Main = Log
  <2>1. {Main, Log, Db} = {Main, Db}
    BY <1>2
  <2>2. Cardinality({Main, Db}) <= 2
    BY <1>1
  <2> QED
    BY <2>1, <2>2, ServerAssumption
<1>3. CASE Main = Db
  <2>1. {Main, Log, Db} = {Main, Log}
    BY <1>3
  <2>2. Cardinality({Main, Log}) <= 2
    BY <1>1
  <2> QED
    BY <2>1, <2>2, ServerAssumption
<1>4. CASE Log = Db
  <2>1. {Main, Log, Db} = {Main, Log}
    BY <1>4
  <2>2. Cardinality({Main, Log}) <= 2
    BY <1>1
  <2> QED
    BY <2>1, <2>2, ServerAssumption
<1> QED
  BY <1>2, <1>3, <1>4
-----------------------------------------------------------------------------
(* The types *)

\* TypeOK, but for the main thread's place
Shapes ==
  /\ keys \in BOOLEAN /\ ids \subseteq {Main, Log, Db}
  /\ sLog \in {"null", "noRing", "ready"}
  /\ ring \in Seq(Packet) /\ Len(ring) <= Capacity
  /\ sem \in [Workers -> Nat]
  /\ lifetime \in [Workers -> BOOLEAN] /\ shouldContinue \in [Workers -> BOOLEAN]
  /\ wpc \in [Workers -> {"none", "start", "register", "wait", "work", "check", "leave",
                          "exit", "done"}]
  /\ calling \in [Users -> {"no", "push", "trigger"}] /\ pending \in [Users -> Packet \cup {NoCall}]
  /\ files \subseteq Users /\ refused \subseteq Users /\ unopened \subseteq Users
  /\ lost \subseteq Users
  /\ lines \in [Users -> 0 .. MaxLines] /\ jobs \in 0 .. MaxJobs

LEMMA TypeIsShapes == TypeOK <=> at \in Places /\ Shapes
BY PlacesOfOrder DEF TypeOK, Shapes

\* what a call of log.c makes of its caller's state
LEMMA EnterTyped ==
  ASSUME Shapes, NEW t \in Users, NEW op \in {"register", "line", "deregister"}, Enter(t, op)
  PROVE  /\ calling' \in [Users -> {"no", "push", "trigger"}]
         /\ pending' \in [Users -> Packet \cup {NoCall}]
         /\ ring' = ring
<1>1. [src |-> t, op |-> op] \in Packet
  BY DEF Packet
<1> QED
  BY <1>1 DEF Enter, Shapes

LEMMA ShapeStep ==
  ASSUME OrderInv, [Next]_vars
  PROVE  Shapes'
<1> USE ServerAssumption DEF Shapes, Users, Workers, logVars, threadVars, fileVars
<1>s. Shapes
  BY TypeIsShapes DEF OrderInv
<1>1. CASE InitKeys
  BY <1>s, <1>1 DEF InitKeys
<1>2. CASE InitTls
  BY <1>s, <1>2 DEF InitTls
<1>3. CASE InitLog
  BY <1>s, <1>3 DEF InitLog, Starts
<1>4. CASE RegisterMain
  BY <1>s, <1>4, EnterTyped DEF RegisterMain
<1>5. CASE InitDb
  BY <1>s, <1>5 DEF InitDb, Starts
<1>6. CASE InitFails
  BY <1>s, <1>6 DEF InitFails
<1>7. CASE Announce
  BY <1>s, <1>7, EnterTyped DEF Announce
<1>8. CASE MainSays
  BY <1>s, <1>8, EnterTyped DEF MainSays
<1>9. CASE MainSchedules
  BY <1>s, <1>9 DEF MainSchedules
<1>10. CASE MainLeaves
  BY <1>s, <1>10 DEF MainLeaves
<1>11. CASE FreeDb
  BY <1>s, <1>11 DEF FreeDb
<1>12. CASE FreeLog
  BY <1>s, <1>12 DEF FreeLog
<1>13. CASE DeleteKeys
  BY <1>s, <1>13 DEF DeleteKeys
<1>14. CASE DbRegisters
  BY <1>s, <1>14, EnterTyped DEF DbRegisters, WorkerGoto, WorkerAt
<1>15. CASE DbSays
  BY <1>s, <1>15, EnterTyped DEF DbSays, WorkerAt
<1>16. CASE DbWorked
  BY <1>s, <1>16 DEF DbWorked, WorkerGoto, WorkerAt
<1>17. CASE DbDeregisters
  BY <1>s, <1>17, EnterTyped DEF DbDeregisters, WorkerGoto, WorkerAt
<1>18. CASE LogPops
  <2>1. Head(ring) \in Packet /\ Tail(ring) \in Seq(Packet) /\ Len(Tail(ring)) <= Capacity
    BY <1>s, <1>18 DEF LogPops
  <2>2. Head(ring).src \in Users
    BY <2>1 DEF Packet
  <2> QED
    BY <1>s, <1>18, <2>1, <2>2 DEF LogPops, WorkerAt
<1>19. CASE LogPopsNothing
  BY <1>s, <1>19 DEF LogPopsNothing, WorkerGoto, WorkerAt
<1>20. CASE LogLeaves
  BY <1>s, <1>20 DEF LogLeaves, WorkerGoto, WorkerAt
<1>21. ASSUME NEW t \in Users, LogPush(t) PROVE Shapes'
  <2>1. pending[t] \in Packet
    BY <1>21 DEF LogPush, OrderInv, CallTells
  <2>2. ring' \in Seq(Packet) /\ Len(ring') <= Capacity
    BY <1>s, <1>21, <2>1 DEF LogPush
  <2> QED
    BY <1>s, <1>21, <2>2 DEF LogPush
<1>22. ASSUME NEW t \in Users, LogFull(t) PROVE Shapes'
  BY <1>s, <1>22 DEF LogFull
<1>23. ASSUME NEW t \in Users, LogTrigger(t) PROVE Shapes'
  BY <1>s, <1>23 DEF LogTrigger
<1>24. ASSUME NEW w \in Workers, WorkerStart(w) PROVE Shapes'
  BY <1>s, <1>24 DEF WorkerStart, WorkerGoto, WorkerAt
<1>25. ASSUME NEW w \in Workers, WorkerNoId(w) PROVE Shapes'
  BY <1>s, <1>25 DEF WorkerNoId, WorkerGoto, WorkerAt
<1>26. ASSUME NEW w \in Workers, WorkerWait(w) PROVE Shapes'
  BY <1>s, <1>26 DEF WorkerWait, WorkerGoto, WorkerAt
<1>27. ASSUME NEW w \in Workers, WorkerWaitFails(w) PROVE Shapes'
  BY <1>s, <1>27 DEF WorkerWaitFails, WorkerGoto, WorkerAt
<1>28. ASSUME NEW w \in Workers, WorkerCheck(w) PROVE Shapes'
  BY <1>s, <1>28 DEF WorkerCheck, WorkerGoto, WorkerAt
<1>29. ASSUME NEW w \in Workers, WorkerExit(w) PROVE Shapes'
  BY <1>s, <1>29 DEF WorkerExit, WorkerGoto, WorkerAt
<1>30. ASSUME NEW w \in Workers, NEW p, StopSignals(w, p) PROVE Shapes'
  BY <1>s, <1>30 DEF StopSignals, SignalStop
<1>31. ASSUME NEW w \in Workers, NEW p, StopSkips(w, p) PROVE Shapes'
  BY <1>s, <1>31 DEF StopSkips
<1>32. CASE UNCHANGED vars
  BY <1>s, <1>32 DEF vars
<1> QED
  BY <1>1, <1>2, <1>3, <1>4, <1>5, <1>6, <1>7, <1>8, <1>9, <1>10, <1>11, <1>12, <1>13, <1>14, <1>15, <1>16, <1>17, <1>18, <1>19, <1>20, <1>21, <1>22, <1>23, <1>24, <1>25, <1>26, <1>27, <1>28, <1>29, <1>30, <1>31, <1>32
     DEF Next, StartUp, StopStep, UserStep, WorkerStep, DbStep, LogStep

-----------------------------------------------------------------------------
(* The order *)

LEMMA OrderStep ==
  ASSUME OrderInv, [Next]_vars
  PROVE  PlaceTells' /\ WorkerTells' /\ CallTells'
<1> DEFINE Good == PlaceTells /\ WorkerTells /\ CallTells
<1> SUFFICES Good'
  OBVIOUS
<1>s. Shapes /\ Good
  BY TypeIsShapes DEF OrderInv
<1>d. Main # Log /\ Main # Db /\ Log # Db
  BY ThreadsDistinct
<1> USE DEF Shapes, Users, Workers, logVars, threadVars, fileVars, Ended, Places, BeforeLog, BeforeDb,
            LogThere, DbThere, PlaceTells, WorkerTells, CallTells, Alive, NoCall, Packet
<1>1. CASE InitKeys
  BY <1>s, <1>d, <1>1, Successors DEF InitKeys, MainAt
<1>2. CASE InitTls
  BY <1>s, <1>d, <1>2, Successors DEF InitTls, MainAt
<1>3. CASE InitLog
  BY <1>s, <1>d, <1>3, Successors DEF InitLog, MainAt, Starts
<1>4. CASE RegisterMain
  BY <1>s, <1>d, <1>4, Successors DEF RegisterMain, MainAt, Enter
<1>5. CASE InitDb
  BY <1>s, <1>d, <1>5, Successors DEF InitDb, MainAt, Starts
<1>6. CASE InitFails
  BY <1>s, <1>d, <1>6 DEF InitFails, MainAt
<1>7. CASE Announce
  BY <1>s, <1>d, <1>7, Successors DEF Announce, MainAt, Enter
<1>8. CASE MainSays
  BY <1>s, <1>d, <1>8 DEF MainSays, MainAt, Enter
<1>9. CASE MainSchedules
  BY <1>s, <1>d, <1>9 DEF MainSchedules, MainAt
<1>10. CASE MainLeaves
  BY <1>s, <1>d, <1>10, Successors DEF MainLeaves, MainAt
<1>11. CASE FreeDb
  BY <1>s, <1>d, <1>11, Successors DEF FreeDb, MainAt
<1>12. CASE FreeLog
  BY <1>s, <1>d, <1>12, Successors DEF FreeLog, MainAt
<1>13. CASE DeleteKeys
  BY <1>s, <1>d, <1>13, Successors DEF DeleteKeys, MainAt
<1>14. CASE DbRegisters
  BY <1>s, <1>d, <1>14 DEF DbRegisters, WorkerGoto, WorkerAt, Enter, Returned
<1>15. CASE DbSays
  BY <1>s, <1>d, <1>15 DEF DbSays, WorkerAt, Enter
<1>16. CASE DbWorked
  BY <1>s, <1>d, <1>16 DEF DbWorked, WorkerGoto, WorkerAt, Returned
<1>17. CASE DbDeregisters
  BY <1>s, <1>d, <1>17 DEF DbDeregisters, WorkerGoto, WorkerAt, Enter
<1>18. CASE LogPops
  BY <1>s, <1>d, <1>18 DEF LogPops, WorkerAt
<1>19. CASE LogPopsNothing
  BY <1>s, <1>d, <1>19 DEF LogPopsNothing, WorkerGoto, WorkerAt
<1>20. CASE LogLeaves
  BY <1>s, <1>d, <1>20 DEF LogLeaves, WorkerGoto, WorkerAt
<1>21. CASE StopSignals(Db, "stopDb")
  BY <1>s, <1>d, <1>21, Successors DEF StopSignals, MainAt, SignalStop
<1>22. CASE StopSignals(Log, "stopLog")
  BY <1>s, <1>d, <1>22, Successors DEF StopSignals, MainAt, SignalStop
<1>23. CASE StopSkips(Db, "stopDb")
  BY <1>s, <1>d, <1>23, Successors DEF StopSkips, MainAt
<1>24. CASE StopSkips(Log, "stopLog")
  BY <1>s, <1>d, <1>24, Successors DEF StopSkips, MainAt
<1>25. ASSUME NEW t \in Users, LogPush(t) PROVE Good'
  BY <1>s, <1>d, <1>25 DEF LogPush
<1>26. ASSUME NEW t \in Users, LogFull(t) PROVE Good'
  BY <1>s, <1>d, <1>26 DEF LogFull
<1>27. ASSUME NEW t \in Users, LogTrigger(t) PROVE Good'
  BY <1>s, <1>d, <1>27 DEF LogTrigger
<1>28. ASSUME NEW w \in Workers, WorkerStart(w) PROVE Good'
  BY <1>s, <1>d, <1>28 DEF WorkerStart, WorkerGoto, WorkerAt
<1>29. ASSUME NEW w \in Workers, WorkerNoId(w) PROVE Good'
  BY <1>s, <1>d, <1>29 DEF WorkerNoId, WorkerGoto, WorkerAt
<1>30. ASSUME NEW w \in Workers, WorkerWait(w) PROVE Good'
  BY <1>s, <1>d, <1>30 DEF WorkerWait, WorkerGoto, WorkerAt, Returned
<1>31. ASSUME NEW w \in Workers, WorkerWaitFails(w) PROVE Good'
  BY <1>s, <1>d, <1>31 DEF WorkerWaitFails, WorkerGoto, WorkerAt, Returned
<1>32. ASSUME NEW w \in Workers, WorkerCheck(w) PROVE Good'
  BY <1>s, <1>d, <1>32 DEF WorkerCheck, WorkerGoto, WorkerAt
<1>33. ASSUME NEW w \in Workers, WorkerExit(w) PROVE Good'
  BY <1>s, <1>d, <1>33 DEF WorkerExit, WorkerGoto, WorkerAt, Returned
<1>34. CASE UNCHANGED vars
  BY <1>s, <1>34 DEF vars
<1> QED
  BY <1>1, <1>2, <1>3, <1>4, <1>5, <1>6, <1>7, <1>8, <1>9, <1>10, <1>11, <1>12, <1>13, <1>14, <1>15, <1>16, <1>17, <1>18, <1>19, <1>20, <1>21, <1>22, <1>23, <1>24, <1>25, <1>26, <1>27, <1>28, <1>29, <1>30, <1>31, <1>32, <1>33, <1>34
     DEF Next, StartUp, StopStep, UserStep, WorkerStep, DbStep, LogStep

-----------------------------------------------------------------------------
(* Theorems about the order *)

LEMMA OrderInit == Init => OrderInv
<1> SUFFICES ASSUME Init PROVE OrderInv
  OBVIOUS
<1> USE ServerAssumption, ThreadsDistinct DEF Init, Users, Workers, Places, BeforeLog, LogThere
<1>1. Shapes
  <2>1. keys \in BOOLEAN
    BY Zenon
  <2>2. ring \in Seq(Packet) /\ Len(ring) <= Capacity
    OBVIOUS
  <2> QED
    BY <2>1, <2>2 DEF Shapes
<1>2. PlaceTells /\ WorkerTells /\ CallTells
  BY DEF PlaceTells, WorkerTells, CallTells, BeforeDb, DbThere, Ended, Alive
<1> QED
  BY <1>1, <1>2, TypeIsShapes DEF OrderInv, PlaceTells

LEMMA OrderInvariant == Spec => []OrderInv
<1>1. OrderInv /\ [Next]_vars => OrderInv'
  <2> SUFFICES ASSUME OrderInv, [Next]_vars PROVE OrderInv'
    OBVIOUS
  <2>1. PlaceTells' /\ WorkerTells' /\ CallTells'
    BY OrderStep
  <2>2. Shapes'
    BY ShapeStep
  <2>3. TypeOK' <=> at' \in Places /\ Shapes'
    BY PlacesOfOrder DEF TypeOK, Shapes
  <2> QED
    BY <2>1, <2>2, <2>3 DEF OrderInv, PlaceTells
<1> QED
  BY <1>1, OrderInit, PTL DEF Spec

(* Every variable keeps its type; the main thread is always at a place of its course. *)
THEOREM TypeCorrect == Spec => []TypeOK
<1>1. OrderInv => TypeOK
  BY DEF OrderInv
<1> QED
  BY <1>1, OrderInvariant, PTL

(* Neither thread is within a call of log.c, nor either worker in its loop, when what
   it uses is destroyed: the order of mt_global_init and mt_global_deinit, with the
   waiting in thread_wait_until_stopped, is enough, although no call of log.c looks
   at sLog a second time. *)
THEOREM DestroyedAfterUse == Spec => []UsersOutlived
<1>1. OrderInv => UsersOutlived
  <2> SUFFICES ASSUME OrderInv, ~ Ended PROVE
         /\ \A t \in Users : calling[t] # "no" => sLog = "ready"
         /\ Alive(Log) => sLog = "ready"
         /\ Alive(Db) => keys
    BY DEF UsersOutlived, Alive
  <2> USE DEF OrderInv, PlaceTells, WorkerTells, CallTells
  <2>1. calling[Main] # "no" => sLog = "ready"
    BY DEF LogThere
  <2>2. Alive(Db) => sLog = "ready" /\ keys
    BY DEF DbThere, LogThere
  <2>3. calling[Db] # "no" => sLog = "ready"
    BY <2>2 DEF Alive
  <2>4. Alive(Log) => sLog = "ready"
    OBVIOUS
  <2> QED
    BY <2>1, <2>2, <2>3, <2>4 DEF Users
<1> QED
  BY <1>1, OrderInvariant, PTL

-----------------------------------------------------------------------------
(* Lines *)

LogGood(t) == LogOf(t) /\ LeavesLast(t)

\* A step that leaves the ring and the files alone can only make a thread a logging
\* one, or excuse it.
LEMMA RingLeft ==
  ASSUME NEW t \in Users, LogGood(t), UNCHANGED <<ring, files>>,
         refused \subseteq refused', unopened \subseteq unopened',
         HasRegistered(t)' => HasRegistered(t) \/ Excused(t)',
         wpc[Db] \in {"exit", "done"} => wpc'[Db] \in {"exit", "done"}
  PROVE  LogGood(t)'
BY DEF LogGood, LogOf, LeavesLast, Excused, LinesInOrder, LogComes, InRing

LEMMA PushKeepsLogs ==
  ASSUME OrderInv, NEW t \in Users, LogPush(t), \A u \in Users : LogGood(u)
  PROVE  \A u \in Users : LogGood(u)'
<1> USE DEF OrderInv
<1>d. Main # Log /\ Main # Db /\ Log # Db
  BY ThreadsDistinct
<1>1. PICK p : p = pending[t] /\ p \in Packet /\ p.src = t
  BY DEF LogPush, CallTells
<1>2. /\ ring \in Seq(Packet) /\ ring' = Append(ring, p)
      /\ Len(ring') = Len(ring) + 1 /\ ring'[Len(ring) + 1] = p
      /\ \A i \in 1 .. Len(ring) : ring'[i] = ring[i]
  BY <1>1 DEF LogPush, TypeOK
<1>3. p = Sent(t, p.op)
  BY <1>1 DEF Packet, Sent
<1>4. \A u, op : InRing(u, op)' <=> InRing(u, op) \/ p = Sent(u, op)
  BY <1>2 DEF InRing
<1>5. UNCHANGED <<at, wpc, files, refused, unopened>>
  BY DEF LogPush, fileVars
<1>6. calling' = [calling EXCEPT ![t] = "trigger"] /\ calling[t] = "push"
  BY DEF LogPush
<1>7. p.op = "deregister" => t = Db /\ wpc[Db] = "exit"
  BY <1>1, <1>6, <1>d DEF CallTells, Users
<1>8. p.op = "line" => HasRegistered(t)
  <2> SUFFICES ASSUME p.op = "line" PROVE HasRegistered(t)
    OBVIOUS
  <2>1. t = Main => at \in LogThere \ {"logRegister"}
    BY <1>6 DEF LogPush, CallTells, LogThere
  <2>2. t = Db => wpc[Db] = "work"
    BY <1>1, <1>6, <1>d DEF CallTells, Users
  <2> QED
    BY <1>1, <2>1, <2>2 DEF HasRegistered
<1> SUFFICES ASSUME NEW u \in Users PROVE LogGood(u)'
  OBVIOUS
<1>9. LeavesLast(u)'
  <2>1. p = Sent(u, "deregister") => u = t /\ p.op = "deregister"
    BY <1>1 DEF Sent
  <2>2. InRing(u, "deregister") => u = Db /\ wpc[Db] \in {"exit", "done"}
    BY DEF LeavesLast, LogGood
  <2>3. InRing(u, "deregister")' => u = Db /\ wpc[Db] \in {"exit", "done"}
    BY <1>4, <1>7, <2>1, <2>2
  <2> QED
    BY <1>5, <2>3 DEF LeavesLast
<1>10. ASSUME ~ Excused(u) PROVE LinesInOrder(u)'
  <2> SUFFICES ASSUME NEW i \in 1 .. Len(ring'), ring'[i] = Sent(u, "line")
               PROVE  /\ u \in files \/ \E j \in 1 .. i - 1 : ring'[j] = Sent(u, "register")
                      /\ \A j \in 1 .. i - 1 : ring'[j] # Sent(u, "deregister")
    BY <1>5 DEF LinesInOrder
  <2>1. LinesInOrder(u) /\ Len(ring) \in Nat
    BY <1>2, <1>10 DEF LogGood, LogOf
  <2>2. CASE i \in 1 .. Len(ring)
    <3>1. i - 1 \in Nat /\ \A j \in 1 .. i - 1 : j \in 1 .. Len(ring)
      BY <2>1, <2>2
    <3> QED
      BY <1>2, <2>1, <2>2, <3>1 DEF LinesInOrder
  <2>3. CASE i = Len(ring) + 1
    <3>1. u = t /\ p.op = "line"
      BY <1>1, <1>2, <2>3 DEF Sent
    <3>2. LogComes(u)
      BY <1>8, <1>10, <3>1 DEF LogGood, LogOf
    <3> QED
      BY <1>2, <2>1, <2>3, <3>2 DEF LogComes, InRing
  <2> QED
    BY <1>2, <2>1, <2>2, <2>3
<1>11. ASSUME ~ Excused(u), HasRegistered(u)' PROVE LogComes(u)'
  <2>1. CASE p.op = "register" /\ u = t
    <3>1. InRing(u, "register")'
      BY <1>3, <1>4, <2>1
    <3>2. ~ InRing(u, "deregister")'
      BY <1>5, <1>9, <1>11, <1>d DEF LeavesLast, HasRegistered
    <3> QED
      BY <3>1, <3>2 DEF LogComes
  <2>2. CASE ~ (p.op = "register" /\ u = t)
    <3>1. HasRegistered(u)
      BY <1>1, <1>5, <1>6, <1>11, <2>2 DEF HasRegistered, TypeOK, LogPush
    <3>2. LogComes(u)
      BY <1>11, <3>1 DEF LogGood, LogOf
    <3>3. ~ InRing(u, "deregister")'
      BY <1>5, <1>9, <1>11, <1>d DEF LeavesLast, HasRegistered
    <3> QED
      BY <1>4, <1>5, <3>2, <3>3 DEF LogComes
  <2> QED
    BY <2>1, <2>2
<1> QED
  BY <1>5, <1>9, <1>10, <1>11 DEF LogGood, LogOf, Excused

LEMMA PopKeepsLogs ==
  ASSUME OrderInv, LogPops, \A u \in Users : LogGood(u)
  PROVE  \A u \in Users : LogGood(u)' /\ (u \in lost' => u \in lost \/ Excused(u)')
<1> USE DEF OrderInv
<1>1. PICK p : p = Head(ring) /\ p \in Packet
  BY DEF LogPops, TypeOK
<1>2. /\ ring \in Seq(Packet) /\ ring' = Tail(ring) /\ Len(ring) \in Nat \ {0}
      /\ Len(ring') = Len(ring) - 1 /\ ring[1] = p
      /\ \A i \in 1 .. Len(ring) - 1 : ring'[i] = ring[i + 1]
  BY <1>1 DEF LogPops, TypeOK
<1>3. p = Sent(p.src, p.op) /\ p.src \in Users /\ p.op \in {"register", "line", "deregister"}
  BY <1>1 DEF Packet, Sent
<1>4. \A u, op : InRing(u, op) <=> InRing(u, op)' \/ p = Sent(u, op)
  <2> SUFFICES ASSUME NEW u, NEW op PROVE InRing(u, op) <=> InRing(u, op)' \/ p = Sent(u, op)
    OBVIOUS
  <2>1. ASSUME NEW i \in 1 .. Len(ring), ring[i] = Sent(u, op)
        PROVE  InRing(u, op)' \/ p = Sent(u, op)
    <3>1. CASE i = 1
      BY <1>2, <2>1, <3>1
    <3>2. CASE i # 1
      <4>1. i - 1 \in 1 .. Len(ring) - 1 /\ (i - 1) + 1 = i
        BY <1>2, <3>2
      <4>2. ring'[i - 1] = Sent(u, op)
        BY <1>2, <2>1, <4>1
      <4> QED
        BY <1>2, <4>1, <4>2 DEF InRing
    <3> QED
      BY <3>1, <3>2
  <2>2. InRing(u, op)' => InRing(u, op)
    <3> SUFFICES ASSUME NEW i \in 1 .. Len(ring'), ring'[i] = Sent(u, op)
                 PROVE  InRing(u, op)
      BY DEF InRing
    <3>1. i + 1 \in 1 .. Len(ring) /\ ring[i + 1] = Sent(u, op)
      BY <1>2
    <3> QED
      BY <3>1 DEF InRing
  <2>3. p = Sent(u, op) => InRing(u, op)
    BY <1>2 DEF InRing
  <2> QED
    BY <2>1, <2>2, <2>3 DEF InRing
<1>5. UNCHANGED <<at, wpc, calling, pending, refused>>
  BY DEF LogPops
<1> SUFFICES ASSUME NEW u \in Users PROVE LogGood(u)' /\ (u \in lost' => u \in lost \/ Excused(u)')
  OBVIOUS
<1>6. LeavesLast(u)'
  BY <1>4, <1>5 DEF LeavesLast, LogGood
<1>7. /\ p.op = "register" => (files' = files \cup {p.src} \/ p.src \in unopened') /\ files \subseteq files'
      /\ p.op = "line" => files' = files
      /\ p.op = "deregister" => files' = files \ {p.src}
      /\ unopened \subseteq unopened'
      /\ u \in lost' => u \in lost \/ (p.op = "line" /\ p.src = u /\ u \notin files)
  BY <1>1, <1>3 DEF LogPops
<1>8. Excused(u) => Excused(u)'
  BY <1>5, <1>7 DEF Excused
<1>9. u \in lost' => u \in lost \/ Excused(u)
  <2> SUFFICES ASSUME p.op = "line", p.src = u, u \notin files PROVE Excused(u)
    BY <1>7
  <2>1. 1 \in 1 .. Len(ring) /\ ring[1] = Sent(u, "line") /\ 1 .. 1 - 1 = {}
    BY <1>2, <1>3
  <2> QED
    BY <2>1 DEF LogGood, LogOf, LinesInOrder
<1>10. ASSUME ~ Excused(u)' PROVE LinesInOrder(u)'
  <2> SUFFICES ASSUME NEW i \in 1 .. Len(ring'), ring'[i] = Sent(u, "line")
               PROVE  /\ u \in files' \/ \E j \in 1 .. i - 1 : ring'[j] = Sent(u, "register")
                      /\ \A j \in 1 .. i - 1 : ring'[j] # Sent(u, "deregister")
    BY DEF LinesInOrder
  <2>1. LinesInOrder(u)
    BY <1>8, <1>10 DEF LogGood, LogOf
  <2>2. i + 1 \in 1 .. Len(ring) /\ ring[i + 1] = Sent(u, "line") /\ i \in 1 .. (i + 1) - 1
    BY <1>2
  <2>3. /\ u \in files \/ \E j \in 1 .. i : ring[j] = Sent(u, "register")
        /\ \A j \in 1 .. i : ring[j] # Sent(u, "deregister")
    <3>1. (i + 1) - 1 = i
      BY <1>2
    <3> QED
      BY <2>1, <2>2, <3>1 DEF LinesInOrder
  <2>4. p # Sent(u, "deregister")
    BY <1>2, <2>3
  <2>5. \A j \in 1 .. i - 1 : ring'[j] # Sent(u, "deregister")
    <3> SUFFICES ASSUME NEW j \in 1 .. i - 1 PROVE ring'[j] # Sent(u, "deregister")
      OBVIOUS
    <3>1. j + 1 \in 1 .. i /\ ring'[j] = ring[j + 1]
      BY <1>2
    <3> QED
      BY <2>3, <3>1
  <2>6. CASE u \in files
    <3>1. u \in files'
      BY <1>3, <1>7, <2>4, <2>6
    <3> QED
      BY <2>5, <3>1
  <2>7. ASSUME NEW j \in 1 .. i, ring[j] = Sent(u, "register")
        PROVE  u \in files' \/ \E k \in 1 .. i - 1 : ring'[k] = Sent(u, "register")
    <3>1. CASE j = 1
      <4>1. p.op = "register" /\ p.src = u
        BY <1>2, <2>7, <3>1 DEF Sent
      <4> QED
        BY <1>7, <1>10, <4>1 DEF Excused
    <3>2. CASE j # 1
      <4>1. j - 1 \in 1 .. i - 1 /\ ring'[j - 1] = ring[j]
        BY <1>2, <3>2
      <4> QED
        BY <2>7, <4>1
    <3> QED
      BY <3>1, <3>2
  <2> QED
    BY <2>3, <2>5, <2>6, <2>7
<1>11. ASSUME ~ Excused(u)', HasRegistered(u)' PROVE LogComes(u)'
  <2>1. LogComes(u)
    BY <1>5, <1>8, <1>11 DEF HasRegistered, LogGood, LogOf
  <2>2. p # Sent(u, "deregister") /\ ~ InRing(u, "deregister")'
    BY <1>4, <2>1 DEF LogComes
  <2>3. CASE u \in files
    <3>1. u \in files'
      BY <1>3, <1>7, <2>2, <2>3
    <3> QED
      BY <2>2, <3>1 DEF LogComes
  <2>4. CASE p = Sent(u, "register")
    <3>1. u \in files'
      BY <1>7, <1>11, <2>4 DEF Excused, Sent
    <3> QED
      BY <2>2, <3>1 DEF LogComes
  <2> QED
    BY <1>4, <2>1, <2>2, <2>3, <2>4 DEF LogComes
<1> QED
  BY <1>6, <1>8, <1>9, <1>10, <1>11 DEF LogGood, LogOf

LEMMA FreeKeepsLogs ==
  ASSUME OrderInv, OrderInv', FreeLog
  PROVE  \A u \in Users : LogGood(u)'
<1> SUFFICES ASSUME NEW u \in Users PROVE LogGood(u)'
  OBVIOUS
<1>1. ring' = <<>> /\ Len(ring') = 0 /\ at' = "deleteKeys"
  BY Successors DEF FreeLog, MainAt
<1>2. \A op : ~ InRing(u, op)'
  BY <1>1 DEF InRing
<1>3. ~ HasRegistered(u)'
  BY <1>1 DEF HasRegistered, OrderInv, WorkerTells, Alive, Ended, DbThere, LogThere, Users
<1> QED
  BY <1>1, <1>2, <1>3 DEF LogGood, LogOf, LeavesLast, LinesInOrder

LEMMA LogsStep ==
  ASSUME ServerInv, OrderInv', [Next]_vars
  PROVE  LinesFindTheirLog' /\ LogsInv'
<1> DEFINE Kept == LinesFindTheirLog' /\ LogsInv'
<1>g. ~ Ended => \A t \in Users : LogGood(t)
  BY DEF ServerInv, LogsInv, LogGood
<1>i. OrderInv /\ lost \subseteq refused \cup unopened
  BY DEF ServerInv, LinesFindTheirLog
<1>d. Main # Log /\ Main # Db /\ Log # Db
  BY ThreadsDistinct
\* what is left to be shown of a step that does not touch the ring
<1>r. ASSUME UNCHANGED <<ring, files, lost, unopened>>, refused \subseteq refused',
             ~ Ended' => ~ Ended,
             \A t \in Users : HasRegistered(t)' => HasRegistered(t) \/ Excused(t)',
             wpc[Db] \in {"exit", "done"} => wpc'[Db] \in {"exit", "done"}
      PROVE  Kept
  <2>1. ASSUME NEW t \in Users, ~ Ended' PROVE LogGood(t)'
    BY <1>g, <1>r, <2>1, RingLeft
  <2> QED
    BY <1>i, <1>r, <2>1 DEF LinesFindTheirLog, LogsInv, LogGood
<1> USE DEF Shapes, Users, Workers, logVars, threadVars, fileVars, Ended, HasRegistered, LogThere,
            BeforeLog, Places
<1>s. Shapes
  BY <1>i, TypeIsShapes DEF OrderInv
<1>o. PlaceTells /\ WorkerTells /\ CallTells
  BY <1>i DEF OrderInv
<1>1. CASE InitKeys
  BY <1>s, <1>o, <1>d, <1>r, <1>1, Successors DEF InitKeys, MainAt
<1>2. CASE InitTls
  BY <1>s, <1>o, <1>d, <1>r, <1>2, Successors DEF InitTls, MainAt
<1>3. CASE InitLog
  BY <1>s, <1>o, <1>d, <1>r, <1>3, Successors DEF InitLog, MainAt, Starts
<1>4. CASE RegisterMain
  <2>1. at = "logRegister" /\ at' = "dbInit" /\ sLog = "ready"
    BY <1>o, <1>4, Successors DEF RegisterMain, MainAt, PlaceTells
  <2>2. /\ calling' = [calling EXCEPT ![Main] = "push"]
        /\ pending' = [pending EXCEPT ![Main] = [src |-> Main, op |-> "register"]]
    BY <1>4, <2>1 DEF RegisterMain, Enter
  <2>3. ~ HasRegistered(Main)' /\ (HasRegistered(Db)' => HasRegistered(Db))
    BY <1>s, <1>d, <1>4, <2>2 DEF RegisterMain
  <2> QED
    BY <1>4, <1>r, <2>1, <2>3 DEF RegisterMain, Enter
<1>5. CASE InitDb
  <2>1. at = "dbInit" /\ at' = "announce" /\ wpc[Db] = "none"
    BY <1>o, <1>5, Successors DEF InitDb, MainAt, WorkerTells, BeforeDb
  <2>2. wpc' = [wpc EXCEPT ![Db] = "start"] /\ UNCHANGED <<calling, pending>>
    BY <1>5 DEF InitDb, Starts
  <2>3. ~ HasRegistered(Db)' /\ (HasRegistered(Main)' => HasRegistered(Main))
    BY <1>s, <1>d, <2>1, <2>2
  <2> QED
    BY <1>5, <1>r, <2>1, <2>3 DEF InitDb
<1>6. CASE InitFails
  BY <1>s, <1>o, <1>d, <1>r, <1>6 DEF InitFails, MainAt
<1>7. CASE Announce
  BY <1>s, <1>o, <1>d, <1>r, <1>7, Successors DEF Announce, MainAt, Enter
<1>8. CASE MainSays
  BY <1>s, <1>o, <1>d, <1>r, <1>8 DEF MainSays, MainAt, Enter
<1>9. CASE MainSchedules
  BY <1>s, <1>o, <1>d, <1>r, <1>9 DEF MainSchedules, MainAt
<1>10. CASE MainLeaves
  BY <1>s, <1>o, <1>d, <1>r, <1>10, Successors DEF MainLeaves, MainAt
<1>11. CASE FreeDb
  BY <1>s, <1>o, <1>d, <1>r, <1>11, Successors DEF FreeDb, MainAt
<1>12. CASE DeleteKeys
  BY <1>s, <1>o, <1>d, <1>r, <1>12, Successors DEF DeleteKeys, MainAt
<1>13. CASE DbRegisters
  <2>1. wpc[Db] = "register" /\ ~ Ended /\ sLog = "ready" /\ UNCHANGED at
    BY <1>o, <1>13 DEF DbRegisters, WorkerGoto, WorkerAt, PlaceTells, WorkerTells, Alive, DbThere
  <2>2. /\ calling' = [calling EXCEPT ![Db] = "push"]
        /\ pending' = [pending EXCEPT ![Db] = [src |-> Db, op |-> "register"]]
    BY <1>13, <2>1 DEF DbRegisters, Enter
  <2>3. ~ HasRegistered(Db)' /\ (HasRegistered(Main)' => HasRegistered(Main))
    BY <1>s, <1>d, <2>1, <2>2
  <2> QED
    BY <1>13, <1>r, <2>1, <2>3 DEF DbRegisters, Enter
<1>14. CASE DbSays
  BY <1>s, <1>o, <1>d, <1>r, <1>14 DEF DbSays, WorkerAt, Enter
<1>15. CASE DbWorked
  BY <1>s, <1>o, <1>d, <1>r, <1>15 DEF DbWorked, WorkerGoto, WorkerAt, Returned
<1>16. CASE DbDeregisters
  BY <1>s, <1>o, <1>d, <1>r, <1>16 DEF DbDeregisters, WorkerGoto, WorkerAt, Enter
<1>17. CASE LogPopsNothing
  BY <1>s, <1>o, <1>d, <1>r, <1>17 DEF LogPopsNothing, WorkerGoto, WorkerAt
<1>18. CASE LogLeaves
  BY <1>s, <1>o, <1>d, <1>r, <1>18 DEF LogLeaves, WorkerGoto, WorkerAt
<1>19. CASE StopSignals(Db, "stopDb")
  BY <1>s, <1>o, <1>d, <1>r, <1>19, Successors DEF StopSignals, MainAt, SignalStop
<1>20. CASE StopSignals(Log, "stopLog")
  BY <1>s, <1>o, <1>d, <1>r, <1>20, Successors DEF StopSignals, MainAt, SignalStop
<1>21. CASE StopSkips(Db, "stopDb")
  BY <1>s, <1>o, <1>d, <1>r, <1>21, Successors DEF StopSkips, MainAt
<1>22. CASE StopSkips(Log, "stopLog")
  BY <1>s, <1>o, <1>d, <1>r, <1>22, Successors DEF StopSkips, MainAt
<1>23. ASSUME NEW t \in Users, LogFull(t) PROVE Kept
  BY <1>s, <1>o, <1>d, <1>r, <1>23 DEF LogFull, Excused
<1>24. ASSUME NEW t \in Users, LogTrigger(t) PROVE Kept
  BY <1>s, <1>o, <1>d, <1>r, <1>24 DEF LogTrigger
<1>25. ASSUME NEW w \in Workers, WorkerStart(w) PROVE Kept
  BY <1>s, <1>o, <1>d, <1>r, <1>25 DEF WorkerStart, WorkerGoto, WorkerAt
<1>26. ASSUME NEW w \in Workers, WorkerNoId(w) PROVE Kept
  BY <1>s, <1>o, <1>d, <1>r, <1>26 DEF WorkerNoId, WorkerGoto, WorkerAt
<1>27. ASSUME NEW w \in Workers, WorkerWait(w) PROVE Kept
  BY <1>s, <1>o, <1>d, <1>r, <1>27 DEF WorkerWait, WorkerGoto, WorkerAt, Returned
<1>28. ASSUME NEW w \in Workers, WorkerWaitFails(w) PROVE Kept
  BY <1>s, <1>o, <1>d, <1>r, <1>28 DEF WorkerWaitFails, WorkerGoto, WorkerAt, Returned
<1>29. ASSUME NEW w \in Workers, WorkerCheck(w) PROVE Kept
  BY <1>s, <1>o, <1>d, <1>r, <1>29 DEF WorkerCheck, WorkerGoto, WorkerAt
<1>30. ASSUME NEW w \in Workers, WorkerExit(w) PROVE Kept
  BY <1>s, <1>o, <1>d, <1>r, <1>30 DEF WorkerExit, WorkerGoto, WorkerAt, Returned
<1>31. CASE UNCHANGED vars
  BY <1>s, <1>r, <1>31 DEF vars
<1>32. ASSUME NEW t \in Users, LogPush(t) PROVE Kept
  <2>1. ~ Ended /\ UNCHANGED <<lost, refused, unopened>>
    BY <1>32 DEF LogPush
  <2> QED
    BY <1>g, <1>i, <1>32, <2>1, PushKeepsLogs DEF LinesFindTheirLog, LogsInv, LogGood
<1>33. CASE LogPops
  <2>1. ~ Ended
    BY <1>33 DEF LogPops, WorkerAt
  <2>2. \A u \in Users : LogGood(u)' /\ (u \in lost' => u \in lost \/ Excused(u)')
    BY <1>g, <1>i, <1>33, <2>1, PopKeepsLogs
  <2>3. lost' \subseteq Users /\ refused \subseteq refused' /\ unopened \subseteq unopened'
    BY <1>33, ShapeStep, <1>i DEF LogPops
  <2> QED
    BY <1>i, <2>2, <2>3 DEF LinesFindTheirLog, LogsInv, LogGood, Excused
<1>34. CASE FreeLog
  <2>1. UNCHANGED <<lost, refused, unopened>>
    BY <1>34 DEF FreeLog
  <2> QED
    BY <1>i, <1>34, <2>1, FreeKeepsLogs DEF LinesFindTheirLog, LogsInv, LogGood
<1> QED
  BY <1>1, <1>2, <1>3, <1>4, <1>5, <1>6, <1>7, <1>8, <1>9, <1>10, <1>11, <1>12, <1>13, <1>14, <1>15, <1>16, <1>17, <1>18, <1>19, <1>20, <1>21, <1>22, <1>23, <1>24, <1>25, <1>26, <1>27, <1>28, <1>29, <1>30, <1>31, <1>32, <1>33, <1>34
     DEF Next, StartUp, StopStep, UserStep, WorkerStep, DbStep, LogStep

(* A line is lost only if the ring was full when its thread registered, or its log
   could not be opened: for any capacity of the ring, however the packets of the two
   threads mix in it and whenever the program is stopped. *)
THEOREM LinesAreWritten == Spec => []LinesFindTheirLog
<1>1. Init => LinesFindTheirLog /\ LogsInv
  <2> SUFFICES ASSUME Init PROVE LinesFindTheirLog /\ LogsInv
    OBVIOUS
  <2>1. Len(ring) = 0 /\ wpc[Db] = "none" /\ lost = {}
    BY DEF Init, Workers
  <2>2. \A t \in Users : ~ HasRegistered(t)
    BY <2>1 DEF Init, HasRegistered, Users, LogThere
  <2> QED
    BY <2>1, <2>2 DEF LinesFindTheirLog, LogsInv, LogOf, LinesInOrder, LeavesLast, InRing
<1>2. ServerInv /\ OrderInv' /\ [Next]_vars => ServerInv'
  BY LogsStep DEF ServerInv
<1>3. Init => ServerInv
  BY <1>1, OrderInit DEF ServerInv
<1>4. ServerInv => LinesFindTheirLog
  BY DEF ServerInv
<1> QED
  BY <1>2, <1>3, <1>4, OrderInvariant, PTL DEF Spec
=============================================================================
