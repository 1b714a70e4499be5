--------------------------- MODULE LogThreadProofs ---------------------------
(***************************************************************************)
(* Theorems about the log thread: for any sources and calls, any size of   *)
(* the ring, any threshold and any number of compress threads.             *)
(***************************************************************************)
EXTENDS LogThread, FiniteSetTheorems, SequenceTheorems, WellFoundedInduction, TLAPS

-----------------------------------------------------------------------------
(* Types *)

LEMMA OldLogsTyped == OldLogs \subseteq Seq(Line)
<1>1. OldLine \in Line
  BY LogAssumption DEF OldLine, Line
<1>2. ASSUME NEW n \in 0 .. Threshold
      PROVE  [i \in 1 .. n |-> OldLine] \in Seq(Line)
  <2>1. n \in Nat /\ [i \in 1 .. n |-> OldLine] \in [1 .. n -> Line]
    BY <1>1, LogAssumption
  <2> QED
    BY <2>1, SeqDef
<1> QED
  BY <1>2 DEF OldLogs

LEMMA TypeInit == Init => TypeOK
<1> SUFFICES ASSUME Init PROVE TypeOK
  OBVIOUS
<1> USE LogAssumption DEF Init
<1>1. disk \in [Sources -> Seq(Line)]
  BY OldLogsTyped
<1>2. ring \in Seq(Packet) /\ sem \in Nat
  OBVIOUS
<1>9. stopping \in BOOLEAN
  OBVIOUS
<1>3. logFiles \in [Sources -> {"none", "closed", "open"}] /\ size \in [Sources -> Nat]
  OBVIOUS
<1>4. archive \in [Sources -> Seq(Seq(Line))]
  <2>1. <<>> \in Seq(Seq(Line))
    OBVIOUS
  <2> QED
    BY <2>1
<1>5. active \in Seq(CompressThreads) /\ heap \subseteq CompressThreads
  OBVIOUS
<1>6. lifetime \in [CompressThreads -> BOOLEAN]
      /\ proc \in [CompressThreads -> {"none", "running", "exiting", "ended",
                                       "failed", "uninitialized"}]
  BY Zenon
<1>7. /\ lpc \in {"wait", "drain", "check", "exited"} /\ li \in Nat \ {0}
      /\ mpc \in {"run", "stop", "threads", "end"} /\ mi \in Nat \ {0}
      /\ calls \in 0 .. MaxCalls
      /\ registered \subseteq Sources /\ failed \subseteq Sources
  OBVIOUS
<1>8. expected \in [Sources -> Seq(Line)]
  BY <1>1
<1> QED
  BY <1>1, <1>2, <1>3, <1>4, <1>5, <1>6, <1>7, <1>8, <1>9, Zenon DEF TypeOK

\* the start of a compress thread, or none
LEMMA CompressTyped ==
  ASSUME TypeOK, StartCompress \/ UNCHANGED compressVars
  PROVE  /\ active' \in Seq(CompressThreads) /\ heap' \subseteq CompressThreads
         /\ lifetime' \in [CompressThreads -> BOOLEAN]
         /\ proc' \in [CompressThreads -> {"none", "running", "exiting", "ended",
                                           "failed", "uninitialized"}]
<1>1. CASE UNCHANGED compressVars
  BY <1>1 DEF compressVars, TypeOK
<1>2. CASE StartCompress
  <2>1. PICK r \in {Started, NotCreated} \cup NotInitialized :
          /\ proc' = [proc EXCEPT ![NewThread] = r[1]]
          /\ lifetime' = [lifetime EXCEPT ![NewThread] = r[2]]
    BY <1>2 DEF StartCompress
  <2>2. r[1] \in {"running", "failed", "uninitialized"} /\ r[2] \in BOOLEAN
    <3>1. PICK a \in {"running", "failed", "uninitialized"}, b \in BOOLEAN : r = <<a, b>>
      BY Zenon DEF Started, NotCreated, NotInitialized
    <3> QED
      BY <3>1
  <2>3. NewThread \in CompressThreads /\ active' = Append(active, NewThread)
        /\ heap' = heap \cup {NewThread}
    BY <1>2 DEF StartCompress
  <2> QED
    BY <2>1, <2>2, <2>3 DEF TypeOK
<1> QED
  BY <1>1, <1>2

LEMMA FrontTyped ==
  ASSUME NEW S, NEW a \in Seq(S)
  PROVE  Front(a) \in Seq(S)
<1> DEFINE m == Len(a) - 1
<1>1. m \in Int /\ \A i \in 1 .. m : a[i] \in S
  OBVIOUS
<1>2. Front(a) = SubSeq(a, 1, m)
  BY DEF Front
<1> HIDE DEF m
<1> QED
  BY <1>1, <1>2, SubSeqProperties

\* what may come of an open
Opening == [ok : BOOLEAN, begins : Seq(Line), fp : {"none", "closed", "open"}, exact : BOOLEAN]

LEMMA LinesDiffer ==
  /\ OpenedLine \in Line /\ TornLine \in Line /\ NoLine \in Line /\ OpenedLine # TornLine
  /\ \A n \in 0 .. MaxCalls : n \in Line
  BY LogAssumption DEF OpenedLine, TornLine, NoLine, Line

LEMMA OpenedTyped ==
  ASSUME NEW b \in Seq(Line), NEW fp \in {"none", "closed", "open"}, NEW e \in BOOLEAN
  PROVE  /\ Opened(b, fp, e) \in Opening
         /\ Opened(b, fp, e).begins = b /\ Opened(b, fp, e).fp = fp
         /\ (Opened(b, fp, e).exact <=> e) /\ Opened(b, fp, e).ok
<1>1. Opened(b, fp, e) \in Opening
  BY Zenon DEF Opened, Opening
<1>2. Opened(b, fp, e).begins = b /\ Opened(b, fp, e).fp = fp
  BY DEF Opened
<1>3. (Opened(b, fp, e).exact <=> e) /\ Opened(b, fp, e).ok
  BY DEF Opened
<1> QED
  BY <1>1, <1>2, <1>3

LEMMA NotOpenedTyped ==
  ASSUME NEW fp \in {"none", "closed", "open"}
  PROVE  /\ NotOpened(fp) \in Opening
         /\ NotOpened(fp).begins = <<>> /\ ~ NotOpened(fp).exact
<1>1. <<>> \in Seq(Line)
  OBVIOUS
<1>2. NotOpened(fp) \in Opening
  BY <1>1, Zenon DEF NotOpened, Opening
<1>3. NotOpened(fp).begins = <<>> /\ ~ NotOpened(fp).exact
  BY DEF NotOpened
<1> QED
  BY <1>2, <1>3

LEMMA RegisteringsAre ==
  ASSUME NEW o \in Registerings
  PROVE  /\ o \in Opening /\ Len(o.begins) <= 1
         /\ o.exact => o.ok /\ o.begins = <<OpenedLine>> /\ o.fp = "open"
<1>1. CASE o = NotOpened("none")
  <2>1. o \in Opening /\ o.begins = <<>> /\ ~ o.exact
    BY <1>1, NotOpenedTyped
  <2> QED
    BY <2>1
<1>2. \A line \in {OpenedLine, TornLine} : <<line>> \in Seq(Line) /\ Len(<<line>>) = 1
  BY LinesDiffer
<1>3. CASE o = Opened(<<OpenedLine>>, "open", TRUE)
  <2>1. o \in Opening /\ o.begins = <<OpenedLine>> /\ o.fp = "open" /\ o.ok
    BY <1>2, <1>3, OpenedTyped
  <2> QED
    BY <1>2, <2>1
<1>4. ASSUME NEW line \in {OpenedLine, TornLine}, NEW fp \in {"open", "none"},
             o = Opened(<<line>>, fp, FALSE)
      PROVE  o \in Opening /\ Len(o.begins) <= 1 /\ ~ o.exact
  <2>1. <<line>> \in Seq(Line) /\ Len(<<line>>) = 1 /\ fp \in {"none", "closed", "open"}
    BY <1>2
  <2>2. o \in Opening
    BY <1>4, <2>1, Zenon DEF Opened, Opening
  <2>3. o.begins = <<line>> /\ ~ o.exact
    BY <1>4 DEF Opened
  <2> QED
    BY <2>1, <2>2, <2>3
<1>5. \/ o = NotOpened("none") \/ o = Opened(<<OpenedLine>>, "open", TRUE)
      \/ \E line \in {OpenedLine, TornLine}, fp \in {"open", "none"} :
           o = Opened(<<line>>, fp, FALSE)
  BY DEF Registerings
<1> QED
  BY <1>1, <1>3, <1>4, <1>5

LEMMA ReopeningsAre ==
  ASSUME NEW e \in BOOLEAN, NEW o \in Reopenings(e)
  PROVE  /\ o \in Opening /\ o.begins = <<>> /\ o.begins \in Seq(Line) /\ Len(o.begins) <= 1
         /\ o.exact => e /\ o.ok /\ o.fp = "open"
<1>1. <<>> \in Seq(Line) /\ Len(<<>>) <= 1
  OBVIOUS
<1>2. CASE o = Opened(<<>>, "open", e)
  <2>1. o \in Opening
    BY <1>1, <1>2, Zenon DEF Opened, Opening
  <2>2. o.begins = <<>> /\ o.fp = "open" /\ o.ok
    BY <1>2 DEF Opened
  <2>3. o.exact => e
    BY <1>2, Zenon DEF Opened
  <2> QED
    BY <1>1, <2>1, <2>2, <2>3
<1>3. CASE o = NotOpened("closed")
  <2>1. o \in Opening /\ o.begins = <<>> /\ ~ o.exact
    BY <1>3, NotOpenedTyped
  <2> QED
    BY <1>1, <2>1
<1> QED
  BY <1>2, <1>3 DEF Reopenings

\* what a write adds
LEMMA WrittenTyped ==
  ASSUME TypeOK, ring # <<>>, NEW line \in Written
  PROVE  line \in Line
<1>1. Head(ring) \in Packet
  BY DEF TypeOK
<1> QED
  BY <1>1, LinesDiffer DEF Written, Packet

\* what the mv makes of the log and the archives
LEMMA MovesTyped ==
  ASSUME TypeOK, NEW s \in Sources, NEW content \in Seq(Line),
         NEW m \in {Moved(s, content), NotMoved(s, content), MovedOver(s, content)}
  PROVE  m.archives \in Seq(Seq(Line)) /\ m.log \in Seq(Line)
<1>1. archive[s] \in Seq(Seq(Line)) /\ <<>> \in Seq(Line)
  BY DEF TypeOK
<1>2. CASE m = Moved(s, content)
  BY <1>1, <1>2 DEF Moved
<1>3. CASE m = NotMoved(s, content)
  BY <1>1, <1>3 DEF NotMoved
<1>4. CASE m = MovedOver(s, content)
  <2>1. m.log = <<>>
    BY <1>4 DEF MovedOver
  <2>2. m.archives \in Seq(Seq(Line))
    <3>1. CASE archive[s] = <<>>
      BY <1>4, <3>1 DEF MovedOver
    <3>2. CASE archive[s] # <<>>
      <4>1. Front(archive[s]) \in Seq(Seq(Line))
        BY <1>1, FrontTyped
      <4> QED
        BY <1>4, <3>2, <4>1 DEF MovedOver
    <3> QED
      BY <3>1, <3>2
  <2> QED
    BY <1>1, <2>1, <2>2
<1> QED
  BY <1>2, <1>3, <1>4

\* a log that is moved away
LEMMA LogCompressTyped ==
  ASSUME TypeOK, NEW s \in Sources, NEW content \in Seq(Line),
         NEW openings \in SUBSET Opening, LogCompress(s, content, openings)
  PROVE  /\ logFiles' \in [Sources -> {"none", "closed", "open"}]
         /\ size' \in [Sources -> Nat]
         /\ disk' \in [Sources -> Seq(Line)] /\ archive' \in [Sources -> Seq(Seq(Line))]
         /\ failed' \subseteq Sources
<1>1. PICK o \in openings,
           m \in {Moved(s, content), NotMoved(s, content), MovedOver(s, content)} :
        /\ archive' = [archive EXCEPT ![s] = m.archives]
        /\ disk' = [disk EXCEPT ![s] = IF o.ok THEN o.begins ELSE m.log]
        /\ logFiles' = [logFiles EXCEPT ![s] = o.fp]
        /\ Exactly(s, o.exact /\ m.exact)
  BY DEF LogCompress, Rotates
<1>2. o.begins \in Seq(Line) /\ o.fp \in {"none", "closed", "open"}
  BY DEF Opening
<1>3. m.archives \in Seq(Seq(Line)) /\ m.log \in Seq(Line)
  BY MovesTyped
<1>4. PICK log \in Seq(Line) : disk' = [disk EXCEPT ![s] = log]
  BY <1>1, <1>2, <1>3
<1>5. disk' \in [Sources -> Seq(Line)] /\ size' \in [Sources -> Nat]
  BY <1>4 DEF LogCompress, TypeOK
<1>6. archive' \in [Sources -> Seq(Seq(Line))]
  BY <1>1, <1>3 DEF TypeOK
<1>7. logFiles' \in [Sources -> {"none", "closed", "open"}] /\ failed' \subseteq Sources
  BY <1>1, <1>2 DEF Exactly, TypeOK
<1> QED
  BY <1>5, <1>6, <1>7

LEMMA SwapAndPopTyped ==
  ASSUME NEW S, NEW a \in Seq(S), NEW i \in 1 .. Len(a)
  PROVE  /\ SwapAndPop(a, i) \in Seq(S) /\ Len(SwapAndPop(a, i)) = Len(a) - 1
         /\ \A j \in 1 .. Len(a) - 1 : SwapAndPop(a, i)[j] = IF j = i THEN a[Len(a)] ELSE a[j]
<1> DEFINE n == Len(a)
           u == [a EXCEPT ![i] = a[Len(a)]]
<1>1. n \in Nat \ {0} /\ i \in 1 .. n
  OBVIOUS
<1>2. u \in Seq(S) /\ Len(u) = n /\ \A j \in 1 .. n : u[j] = IF j = i THEN a[n] ELSE a[j]
  BY <1>1, ExceptSeq
<1>3. SwapAndPop(a, i) = SubSeq(u, 1, n - 1)
  BY DEF SwapAndPop
<1> HIDE DEF u, n
<1>4. SwapAndPop(a, i) \in Seq(S) /\ Len(SwapAndPop(a, i)) = n - 1
      /\ \A j \in 1 .. n - 1 : SwapAndPop(a, i)[j] = IF j = i THEN a[n] ELSE a[j]
  BY <1>1, <1>2, <1>3
<1> QED
  BY <1>4 DEF n

LEMMA TypeStep == TypeOK /\ [Next]_vars => TypeOK'
<1> SUFFICES ASSUME TypeOK, [Next]_vars PROVE TypeOK'
  OBVIOUS
<1> USE DEF TypeOK, ringVars, fileVars, compressVars, callVars, pcVars
<1>1. ASSUME NEW s \in Sources, Register(s) \/ Message(s) \/ Deregister(s) PROVE TypeOK'
  <2>1. calls \in Nat /\ calls < MaxCalls /\ calls' = calls + 1 /\ MaxCalls \in Nat
    BY <1>1, LogAssumption DEF Register, Message, Deregister, Push
  <2>2. calls' \in 0 .. MaxCalls /\ calls + 1 \in Line /\ NoLine \in Line
    BY <2>1, LinesDiffer
  <2>3. PICK op \in {"register", "message", "deregister"}, line \in Line : Push(op, s, line)
    BY <1>1, <2>2 DEF Register, Message, Deregister
  <2>4. [op |-> op, src |-> s, line |-> line] \in Packet
    BY DEF Packet
  <2>5. ring' \in Seq(Packet) /\ sem' \in Nat
    BY <2>3, <2>4 DEF Push
  <2>6. registered' \subseteq Sources
    BY <1>1 DEF Register, Message, Deregister
  <2>7. expected' \in [Sources -> Seq(Line)]
    <3>1. \/ expected' = expected
          \/ expected' = [expected EXCEPT ![s] = Append(expected[s], calls + 1)]
          \/ expected' = [expected EXCEPT ![s] = Append(expected[s], OpenedLine)]
      BY <1>1 DEF Register, Message, Deregister
    <3>2. /\ Append(expected[s], calls + 1) \in Seq(Line)
          /\ Append(expected[s], OpenedLine) \in Seq(Line)
      <4>1. expected[s] \in Seq(Line) /\ OpenedLine \in Line
        BY LinesDiffer
      <4> QED
        BY <4>1, <2>2
    <3> QED
      BY <3>1, <3>2
  <2> QED
    BY <2>2, <2>3, <2>5, <2>6, <2>7 DEF Push
<1>2. CASE CallDropped
  BY <1>2, LogAssumption DEF CallDropped
<1>3. CASE LogWait \/ LogWaitFails \/ DrainAgain
  BY <1>3 DEF LogWait, LogWaitFails, DrainAgain, LogGoto
<1>4. ASSUME NEW s \in Sources, Handle(s) PROVE TypeOK'
  <2>1. /\ ring # <<>> /\ ring' = Tail(ring) /\ UNCHANGED <<sem, stopping, pcVars, callVars>>
    BY <1>4 DEF Handle, WriteIgnored, WriteLine, WriteNotRotated, WriteRotates, RegisterSkips,
         RegisterOpens, RegisterRotates, RegisterNotRotated, DeregisterHandled, Pop
  <2>2. ring' \in Seq(Packet) /\ Head(ring) \in Packet
    BY <2>1
  <2>3. CASE WriteLine(s) \/ WriteNotRotated(s)
    <3>1. PICK line \in Written, e \in BOOLEAN : Write(s, line) /\ Exactly(s, e)
      BY <2>3 DEF WriteLine, WriteNotRotated
    <3>2. line \in Line /\ disk[s] \in Seq(Line)
      BY <2>1, WrittenTyped
    <3>3. Append(disk[s], line) \in Seq(Line)
      BY <3>2
    <3>4. size' \in [Sources -> Nat] /\ disk' \in [Sources -> Seq(Line)]
          /\ UNCHANGED <<logFiles, archive, active, heap, lifetime, proc>>
      BY <3>1, <3>3 DEF Write
    <3>5. failed' \subseteq Sources
      BY <3>1 DEF Exactly
    <3> QED
      BY <2>1, <2>2, <3>4, <3>5
  <2>4. CASE WriteIgnored(s) \/ RegisterSkips(s) \/ RegisterNotRotated(s) \/ DeregisterHandled(s)
    <3>1. UNCHANGED <<archive, disk, active, heap, lifetime, proc>> /\ failed' \subseteq Sources
      BY <2>4 DEF WriteIgnored, RegisterSkips, RegisterNotRotated, DeregisterHandled
    <3>2. logFiles' \in [Sources -> {"none", "closed", "open"}] /\ size' \in [Sources -> Nat]
      <4>1. CASE WriteIgnored(s) \/ RegisterSkips(s) \/ RegisterNotRotated(s)
        BY <4>1 DEF WriteIgnored, RegisterSkips, RegisterNotRotated
      <4>2. CASE DeregisterHandled(s)
        BY <4>2 DEF DeregisterHandled
      <4> QED
        BY <2>4, <4>1, <4>2
    <3> QED
      BY <2>1, <2>2, <3>1, <3>2
  <2>5. CASE RegisterOpens(s)
    <3>1. PICK measured \in {Len(disk[s]), 0}, o \in Registerings :
            /\ disk' = [disk EXCEPT ![s] = @ \o o.begins]
            /\ logFiles' = [logFiles EXCEPT ![s] = o.fp]
            /\ size' = [size EXCEPT ![s] = IF o.fp = "open" THEN measured ELSE @]
            /\ Exactly(s, o.exact /\ measured = Len(disk[s]))
      BY <2>5 DEF RegisterOpens
    <3>2. o.begins \in Seq(Line) /\ o.fp \in {"none", "closed", "open"}
      BY RegisteringsAre DEF Opening
    <3>3. disk[s] \in Seq(Line) /\ disk[s] \o o.begins \in Seq(Line) /\ measured \in Nat
      BY <3>2
    <3>4. disk' \in [Sources -> Seq(Line)] /\ size' \in [Sources -> Nat]
      BY <3>1, <3>3
    <3>5. logFiles' \in [Sources -> {"none", "closed", "open"}] /\ failed' \subseteq Sources
      BY <3>1, <3>2 DEF Exactly
    <3> QED
      BY <2>1, <2>2, <2>5, <3>4, <3>5 DEF RegisterOpens
  <2>6. CASE WriteRotates(s) \/ RegisterRotates(s)
    <3>1. PICK content \in Seq(Line), openings \in SUBSET Opening :
            LogCompress(s, content, openings)
      <4>1. CASE WriteRotates(s)
        <5>1. PICK line \in Written, e \in BOOLEAN :
                LogCompress(s, Append(disk[s], line), Reopenings(e))
          BY <4>1 DEF WriteRotates
        <5>2. line \in Line /\ disk[s] \in Seq(Line)
          BY <2>1, WrittenTyped
        <5>3. Append(disk[s], line) \in Seq(Line) /\ Reopenings(e) \in SUBSET Opening
          BY <5>2, ReopeningsAre
        <5> QED
          BY <5>1, <5>3
      <4>2. CASE RegisterRotates(s)
        <5>1. disk[s] \in Seq(Line) /\ Registerings \in SUBSET Opening
          BY RegisteringsAre
        <5> QED
          BY <4>2, <5>1 DEF RegisterRotates
      <4> QED
        BY <2>6, <4>1, <4>2
    <3>2. StartCompress \/ UNCHANGED compressVars
      BY <3>1 DEF LogCompress, Rotates
    <3>3. /\ active' \in Seq(CompressThreads) /\ heap' \subseteq CompressThreads
          /\ lifetime' \in [CompressThreads -> BOOLEAN]
          /\ proc' \in [CompressThreads -> {"none", "running", "exiting", "ended",
                                            "failed", "uninitialized"}]
      BY <3>2, CompressTyped DEF compressVars
    <3>4. /\ logFiles' \in [Sources -> {"none", "closed", "open"}]
          /\ size' \in [Sources -> Nat]
          /\ disk' \in [Sources -> Seq(Line)] /\ archive' \in [Sources -> Seq(Seq(Line))]
          /\ failed' \subseteq Sources
      BY <3>1, LogCompressTyped
    <3> QED
      BY <2>1, <2>2, <3>3, <3>4
  <2> QED
    BY <1>4, <2>3, <2>4, <2>5, <2>6 DEF Handle
<1>5. CASE CheckRunning \/ CheckEnds
  BY <1>5 DEF CheckRunning, CheckEnds
<1>6. CASE CheckFrees
  <2>1. li \in 1 .. Len(active)
    BY <1>6 DEF CheckFrees
  <2>2. active' \in Seq(CompressThreads)
    BY <1>6, <2>1, SwapAndPopTyped DEF CheckFrees
  <2> QED
    BY <1>6, <2>2 DEF CheckFrees
<1>7. ASSUME NEW t \in CompressThreads, CompressStep(t) PROVE TypeOK'
  BY <1>7 DEF CompressStep, CompressProc, CompressUnlocksContinue
<1>8. CASE StopBegin \/ FreeAll
  <2>1. stopping' \in BOOLEAN
    BY <1>8 DEF StopBegin, FreeAll
  <2>2. sem' \in Nat
    BY <1>8 DEF StopBegin, FreeAll
  <2> QED
    BY <1>8, <2>1, <2>2 DEF StopBegin, FreeAll
<1>9. CASE CloseFiles
  BY <1>9 DEF CloseFiles
<1>10. CASE CloseThread
  BY <1>10 DEF CloseThread
<1>11. CASE UNCHANGED vars
  BY <1>11 DEF vars
<1> QED
  BY <1>1, <1>2, <1>3, <1>4, <1>5, <1>6, <1>7, <1>8, <1>9, <1>10, <1>11
  DEF Next, Call, LogStep, DeinitStep

\* In every state of every instance the ring, the table of log files and the array of
\* compress threads hold what their C types promise.
THEOREM TypeCorrect == Spec => []TypeOK
  BY TypeInit, TypeStep, PTL DEF Spec

-----------------------------------------------------------------------------
(* The sizes of the open logs *)

\* what RotatedInTime says of one source
InTime(s) ==
  s \notin failed /\ logFiles[s] = "open" =>
    size[s] < Threshold /\ Len(disk[s]) \in {size[s], size[s] + 1}

\* what the others have is left alone
LEMMA OthersInTime ==
  ASSUME NEW s \in Sources, RotatedInTime,
         \A t \in Sources \ {s} :
           logFiles'[t] = logFiles[t] /\ size'[t] = size[t] /\ disk'[t] = disk[t],
         failed \subseteq failed', InTime(s)'
  PROVE  RotatedInTime'
  BY DEF RotatedInTime, InTime

\* a rotation that does not fail leaves at most the line that tells of the opening
LEMMA RotationInTime ==
  ASSUME TypeOK, RotatedInTime, NEW s \in Sources, NEW content, NEW openings,
         \A o \in openings : o.exact => o.ok /\ o.begins \in Seq(Line) /\ Len(o.begins) <= 1,
         LogCompress(s, content, openings)
  PROVE  RotatedInTime'
<1>1. PICK o \in openings,
           m \in {Moved(s, content), NotMoved(s, content), MovedOver(s, content)} :
        /\ disk' = [disk EXCEPT ![s] = IF o.ok THEN o.begins ELSE m.log]
        /\ logFiles' = [logFiles EXCEPT ![s] = o.fp]
        /\ Exactly(s, o.exact /\ m.exact)
  BY DEF LogCompress, Rotates
<1>2. size' = [size EXCEPT ![s] = 0]
  BY DEF LogCompress
<1>3. \A t \in Sources \ {s} :
        logFiles'[t] = logFiles[t] /\ size'[t] = size[t] /\ disk'[t] = disk[t]
  BY <1>1, <1>2 DEF TypeOK
<1>4. failed \subseteq failed' /\ (s \notin failed' => o.exact)
  BY <1>1 DEF Exactly
<1>5. size'[s] = 0 /\ 0 < Threshold
  BY <1>2, LogAssumption DEF TypeOK
<1>6. InTime(s)'
  <2> SUFFICES ASSUME s \notin failed' PROVE Len(disk'[s]) \in {0, 1}
    BY <1>5 DEF InTime
  <2>1. PICK b : b = o.begins
    OBVIOUS
  <2>2. o.ok /\ b \in Seq(Line) /\ Len(b) <= 1
    BY <1>4, <2>1
  <2>3. disk'[s] = b
    BY <1>1, <2>1, <2>2 DEF TypeOK
  <2>4. PICK n : n = Len(b)
    OBVIOUS
  <2>5. n \in Nat /\ n <= 1
    BY <2>2, <2>4
  <2>6. n \in {0, 1}
    BY <2>5
  <2> QED
    BY <2>3, <2>4, <2>6
<1> QED
  BY <1>3, <1>4, <1>6, OthersInTime

LEMMA InTimeInit == Init => RotatedInTime
  BY DEF Init, RotatedInTime

LEMMA InTimeStep == TypeOK /\ RotatedInTime /\ [Next]_vars => RotatedInTime'
<1> SUFFICES ASSUME TypeOK, RotatedInTime, [Next]_vars PROVE RotatedInTime'
  OBVIOUS
<1>1. CASE UNCHANGED <<logFiles, size, disk>> /\ failed \subseteq failed'
  BY <1>1 DEF RotatedInTime
<1>2. ASSUME NEW s \in Sources, WriteLine(s) \/ WriteNotRotated(s) PROVE RotatedInTime'
  <2>1. PICK line \in Written, e \in BOOLEAN : Write(s, line) /\ Exactly(s, e)
    BY <1>2 DEF WriteLine, WriteNotRotated
  <2>2. /\ disk' = [disk EXCEPT ![s] = Append(disk[s], line)]
        /\ size' = [size EXCEPT ![s] = @ + 1] /\ logFiles' = logFiles /\ failed \subseteq failed'
    BY <2>1 DEF Write, Exactly
  <2>3. \A t \in Sources \ {s} :
          logFiles'[t] = logFiles[t] /\ size'[t] = size[t] /\ disk'[t] = disk[t]
    BY <2>2 DEF TypeOK
  <2>4. ring # <<>> /\ logFiles[s] = "open"
    BY <1>2 DEF WriteLine, WriteNotRotated, Pop
  <2>5. line \in Line /\ disk[s] \in Seq(Line) /\ size[s] \in Nat
    BY <2>4, WrittenTyped DEF TypeOK
  <2>6. disk'[s] = Append(disk[s], line) /\ size'[s] = size[s] + 1
    BY <2>2 DEF TypeOK
  <2>7. InTime(s)'
    <3> SUFFICES ASSUME s \notin failed'
                 PROVE  size'[s] < Threshold /\ Len(disk'[s]) \in {size'[s], size'[s] + 1}
      BY DEF InTime
    <3>1. size[s] + 1 < Threshold
      BY <1>2 DEF WriteLine, WriteNotRotated, Exactly
    <3>2. Len(disk[s]) \in {size[s], size[s] + 1}
      BY <2>2, <2>4 DEF RotatedInTime
    <3> QED
      BY <2>5, <2>6, <3>1, <3>2
  <2> QED
    BY <2>2, <2>3, <2>7, OthersInTime
<1>3. ASSUME NEW s \in Sources, RegisterOpens(s) PROVE RotatedInTime'
  <2>1. PICK measured \in {Len(disk[s]), 0}, o \in Registerings :
          /\ measured < Threshold
          /\ disk' = [disk EXCEPT ![s] = @ \o o.begins]
          /\ logFiles' = [logFiles EXCEPT ![s] = o.fp]
          /\ size' = [size EXCEPT ![s] = IF o.fp = "open" THEN measured ELSE @]
          /\ Exactly(s, o.exact /\ measured = Len(disk[s]))
    BY <1>3 DEF RegisterOpens
  <2>2. \A t \in Sources \ {s} :
          logFiles'[t] = logFiles[t] /\ size'[t] = size[t] /\ disk'[t] = disk[t]
    BY <2>1 DEF TypeOK
  <2>3. failed \subseteq failed'
    BY <2>1 DEF Exactly
  <2>4. InTime(s)'
    <3> SUFFICES ASSUME s \notin failed'
                 PROVE  size'[s] < Threshold /\ Len(disk'[s]) \in {size'[s], size'[s] + 1}
      BY DEF InTime
    <3>1. o.exact /\ measured = Len(disk[s])
      BY <2>1 DEF Exactly
    <3>2. o.begins = <<OpenedLine>> /\ o.fp = "open"
      BY <3>1, RegisteringsAre
    <3>3. disk[s] \in Seq(Line) /\ OpenedLine \in Line
      BY LinesDiffer DEF TypeOK
    <3>4. disk'[s] = disk[s] \o <<OpenedLine>> /\ size'[s] = measured
      BY <2>1, <3>2 DEF TypeOK
    <3>5. Len(disk'[s]) = Len(disk[s]) + 1
      BY <3>3, <3>4
    <3> QED
      BY <2>1, <3>1, <3>4, <3>5
  <2> QED
    BY <2>2, <2>3, <2>4, OthersInTime
<1>4. ASSUME NEW s \in Sources, WriteRotates(s) PROVE RotatedInTime'
  <2>1. PICK line \in Written, e \in BOOLEAN :
          LogCompress(s, Append(disk[s], line), Reopenings(e))
    BY <1>4 DEF WriteRotates
  <2>2. ASSUME NEW o \in Reopenings(e), o.exact
        PROVE  o.ok /\ o.begins \in Seq(Line) /\ Len(o.begins) <= 1
    BY <2>2, ReopeningsAre
  <2> QED
    BY <2>1, <2>2, RotationInTime
<1>5. ASSUME NEW s \in Sources, RegisterRotates(s) PROVE RotatedInTime'
  <2>1. LogCompress(s, disk[s], Registerings)
    BY <1>5 DEF RegisterRotates
  <2>2. ASSUME NEW o \in Registerings, o.exact
        PROVE  o.ok /\ o.begins \in Seq(Line) /\ Len(o.begins) <= 1
    BY <2>2, RegisteringsAre DEF Opening
  <2> QED
    BY <2>1, <2>2, RotationInTime
<1>6. ASSUME NEW s \in Sources, DeregisterHandled(s) PROVE RotatedInTime'
  <2>1. /\ disk' = disk /\ failed' = failed /\ logFiles'[s] = "none"
        /\ \A t \in Sources \ {s} : logFiles'[t] = logFiles[t] /\ size'[t] = size[t]
    BY <1>6 DEF DeregisterHandled, TypeOK
  <2> QED
    BY <2>1 DEF RotatedInTime
<1>7. CASE CloseFiles
  BY <1>7 DEF CloseFiles, RotatedInTime
<1>8. ASSUME NEW s \in Sources,
             \/ WriteIgnored(s) \/ RegisterSkips(s) \/ RegisterNotRotated(s)
             \/ Register(s) \/ Message(s) \/ Deregister(s)
      PROVE  RotatedInTime'
  <2>1. UNCHANGED <<logFiles, size, disk>> /\ failed \subseteq failed'
    BY <1>8 DEF WriteIgnored, RegisterSkips, RegisterNotRotated, Register, Message, Deregister,
         Push, fileVars
  <2> QED
    BY <1>1, <2>1
<1>9. CASE CallDropped \/ LogWait \/ LogWaitFails \/ DrainAgain \/ CheckRunning \/ CheckFrees
            \/ CheckEnds
  <2>1. UNCHANGED <<logFiles, size, disk>> /\ failed \subseteq failed'
    BY <1>9 DEF CallDropped, LogWait, LogWaitFails, DrainAgain, CheckRunning, CheckFrees,
         CheckEnds, fileVars
  <2> QED
    BY <1>1, <2>1
<1>10. ASSUME NEW t \in CompressThreads, CompressStep(t) PROVE RotatedInTime'
  <2>1. UNCHANGED <<logFiles, size, disk>> /\ failed \subseteq failed'
    BY <1>10 DEF CompressStep, CompressProc, CompressUnlocksContinue, fileVars
  <2> QED
    BY <1>1, <2>1
<1>11. CASE StopBegin \/ CloseThread \/ FreeAll \/ UNCHANGED vars
  <2>1. UNCHANGED <<logFiles, size, disk>> /\ failed \subseteq failed'
    BY <1>11 DEF StopBegin, CloseThread, FreeAll, vars, fileVars
  <2> QED
    BY <1>1, <2>1
<1> QED
  BY <1>2, <1>3, <1>4, <1>5, <1>6, <1>7, <1>8, <1>9, <1>10, <1>11
  DEF Next, Call, LogStep, DeinitStep, Handle

\* What log_write_msg compares with the threshold is the size of the file, or that of
\* the file without the line that tells of its opening, for every threshold and any
\* number of sources, registrations and rotations: the file of a source of which no
\* open, write or move has failed is never longer than the threshold.
THEOREM LogsRotatedInTime == Spec => []RotatedInTime
  BY InTimeInit, InTimeStep, TypeCorrect, PTL DEF Spec

-----------------------------------------------------------------------------
(* The Threads of the compress threads *)

\* the compress threads are made in order
StartedUpTo(k) == \A t \in CompressThreads : proc[t] # "none" <=> t <= k
StartedInOrder == \E k \in 0 .. MaxCompress : StartedUpTo(k)

\* activeCompressThreads holds threads that were made, each once
ActiveOnce ==
  /\ \A i \in 1 .. Len(active) : proc[active[i]] # "none"
  /\ \A i, j \in 1 .. Len(active) : active[i] = active[j] => i = j

\* log_deinit goes through the array after the log thread has ended
DeinitAfter ==
  /\ mi <= Len(active) + 1
  /\ mpc \in {"run", "stop"} => mi = 1
  /\ mpc \in {"threads", "end"} => lpc = "exited"

\* what is allocated is what is left in the array
Allocated == heap = {active[i] : i \in mi .. Len(active)}

\* a thread that runs holds its mtxLifetime, and is not freed
RunningHeld == \A t \in CompressThreads : proc[t] = "running" => lifetime[t] /\ t \in heap

ThreadInv == StartedInOrder /\ ActiveOnce /\ DeinitAfter /\ Allocated /\ RunningHeld

LEMMA NewThreadIsNext ==
  ASSUME NEW k \in 0 .. MaxCompress, StartedUpTo(k)
  PROVE  NewThread = k + 1
<1>1. {t \in CompressThreads : proc[t] # "none"} = 1 .. k
  BY LogAssumption DEF StartedUpTo, CompressThreads
<1>2. Cardinality(1 .. k) = k
  BY FS_Interval
<1> QED
  BY <1>1, <1>2 DEF NewThread

LEMMA ThreadInit == Init => ThreadInv
<1> SUFFICES ASSUME Init PROVE ThreadInv
  OBVIOUS
<1>1. StartedUpTo(0) /\ 0 \in 0 .. MaxCompress
  BY LogAssumption DEF Init, StartedUpTo, CompressThreads
<1>2. ActiveOnce /\ DeinitAfter /\ Allocated /\ RunningHeld
  BY DEF Init, ActiveOnce, DeinitAfter, Allocated, RunningHeld
<1> QED
  BY <1>1, <1>2 DEF ThreadInv, StartedInOrder

\* a compress thread is started, or none
LEMMA StartThreads ==
  ASSUME TypeOK, ThreadInv, lpc = "drain", UNCHANGED <<lpc, mpc, mi>>,
         StartCompress \/ UNCHANGED compressVars
  PROVE  ThreadInv'
<1>1. CASE UNCHANGED compressVars
  BY <1>1 DEF compressVars, ThreadInv, StartedInOrder, StartedUpTo, ActiveOnce, DeinitAfter,
       Allocated, RunningHeld
<1>2. CASE StartCompress
  <2>1. PICK k \in 0 .. MaxCompress : StartedUpTo(k)
    BY DEF ThreadInv, StartedInOrder
  <2>2. NewThread = k + 1
    BY <2>1, NewThreadIsNext
  <2>3. PICK n : n = NewThread
    OBVIOUS
  <2>4. PICK a : a = active
    OBVIOUS
  <2>5. /\ n \in CompressThreads /\ n = k + 1 /\ active' = Append(a, n) /\ heap' = heap \cup {n}
        /\ a \in Seq(CompressThreads)
    BY <1>2, <2>2, <2>3, <2>4 DEF StartCompress, TypeOK
  <2>6. PICK p \in {"running", "failed", "uninitialized"}, l \in BOOLEAN :
          /\ proc' = [proc EXCEPT ![n] = p] /\ lifetime' = [lifetime EXCEPT ![n] = l]
          /\ p = "running" => l
    <3>1. PICK r \in {Started, NotCreated} \cup NotInitialized :
            /\ proc' = [proc EXCEPT ![n] = r[1]]
            /\ lifetime' = [lifetime EXCEPT ![n] = r[2]]
      BY <1>2, <2>3 DEF StartCompress
    <3>2. PICK p \in {"running", "failed", "uninitialized"}, l \in BOOLEAN :
            r = <<p, l>> /\ (p = "running" => l)
      BY Zenon DEF Started, NotCreated, NotInitialized
    <3>3. r[1] = p /\ r[2] = l
      BY <3>2
    <3> QED
      BY <3>1, <3>2, <3>3
  <2>7. /\ proc'[n] = p /\ (p = "running" => lifetime'[n])
        /\ \A t \in CompressThreads \ {n} : proc'[t] = proc[t] /\ lifetime'[t] = lifetime[t]
    BY <2>5, <2>6 DEF TypeOK
  <2>8. proc[n] = "none"
    BY <2>1, <2>5 DEF StartedUpTo, CompressThreads
  <2>9. /\ Len(active') = Len(a) + 1 /\ active'[Len(a) + 1] = n
        /\ \A i \in 1 .. Len(a) : active'[i] = a[i] /\ a[i] \in CompressThreads /\ a[i] # n
    BY <2>4, <2>5, <2>8 DEF ThreadInv, ActiveOnce
  <2>10. StartedInOrder'
    <3>1. k + 1 \in 0 .. MaxCompress
      BY <2>5, LogAssumption DEF CompressThreads
    <3>2. StartedUpTo(k + 1)'
      BY <2>1, <2>5, <2>6, <2>7, LogAssumption DEF StartedUpTo, CompressThreads
    <3> QED
      BY <3>1, <3>2 DEF StartedInOrder
  <2>11. ActiveOnce'
    BY <2>4, <2>6, <2>7, <2>9, <2>5 DEF ThreadInv, ActiveOnce
  <2>12. mi = 1 /\ mpc \in {"run", "stop"}
    BY DEF ThreadInv, DeinitAfter, TypeOK
  <2>13. DeinitAfter'
    BY <2>5, <2>9, <2>12 DEF DeinitAfter
  <2>14. Allocated'
    <3>1. heap = {a[i] : i \in 1 .. Len(a)} /\ mi' = 1
      BY <2>4, <2>12 DEF ThreadInv, Allocated
    <3>2. Len(a) \in Nat
      BY <2>5
    <3>3. {active'[i] : i \in 1 .. Len(active')} = {a[i] : i \in 1 .. Len(a)} \cup {n}
      BY <2>9, <3>2
    <3> QED
      BY <2>5, <3>1, <3>3 DEF Allocated
  <2>15. RunningHeld'
    BY <2>5, <2>7 DEF ThreadInv, RunningHeld
  <2> QED
    BY <2>10, <2>11, <2>13, <2>14, <2>15 DEF ThreadInv
<1> QED
  BY <1>1, <1>2

\* log_check_threads frees a Thread and takes it out of the array
LEMMA CheckFreesThreads == TypeOK /\ ThreadInv /\ CheckFrees => ThreadInv'
<1> SUFFICES ASSUME TypeOK, ThreadInv, CheckFrees PROVE ThreadInv'
  OBVIOUS
<1>1. PICK a, i : a = active /\ i = li
  OBVIOUS
<1>2. /\ a \in Seq(CompressThreads) /\ i \in 1 .. Len(a) /\ ~ lifetime[a[i]]
      /\ lpc = "check" /\ heap' = heap \ {a[i]} /\ active' = SwapAndPop(a, i)
      /\ UNCHANGED <<lifetime, proc, lpc, mpc, mi>>
  BY <1>1 DEF CheckFrees, Checked, TypeOK, pcVars
<1>3. /\ Len(active') = Len(a) - 1
      /\ \A j \in 1 .. Len(a) - 1 : active'[j] = IF j = i THEN a[Len(a)] ELSE a[j]
  BY <1>2, SwapAndPopTyped
<1>4. mi = 1 /\ mi' = 1 /\ mpc \in {"run", "stop"}
  BY <1>2 DEF ThreadInv, DeinitAfter, TypeOK
<1>5. Len(a) \in Nat \ {0} /\ \A j, k \in 1 .. Len(a) : a[j] = a[k] => j = k
  BY <1>1, <1>2 DEF ThreadInv, ActiveOnce
<1>6. ActiveOnce'
  <2>1. \A j \in 1 .. Len(a) : proc[a[j]] # "none"
    BY <1>1 DEF ThreadInv, ActiveOnce
  <2>2. \A j \in 1 .. Len(active') : proc'[active'[j]] # "none"
    BY <1>2, <1>3, <1>5, <2>1
  <2>3. \A j, k \in 1 .. Len(active') : active'[j] = active'[k] => j = k
    BY <1>3, <1>5
  <2> QED
    BY <2>2, <2>3 DEF ActiveOnce
<1>7. Allocated'
  <2>1. heap = {a[j] : j \in 1 .. Len(a)}
    BY <1>1, <1>4 DEF ThreadInv, Allocated
  <2>2. ASSUME NEW t PROVE t \in heap' <=> \E j \in 1 .. Len(active') : active'[j] = t
    <3>1. ASSUME t \in heap' PROVE \E j \in 1 .. Len(active') : active'[j] = t
      <4>1. PICK j \in 1 .. Len(a) : a[j] = t /\ j # i
        BY <1>2, <2>1, <3>1
      <4>2. CASE j = Len(a)
        BY <1>2, <1>3, <1>5, <4>1, <4>2
      <4>3. CASE j # Len(a)
        BY <1>3, <1>5, <4>1, <4>3
      <4> QED
        BY <4>2, <4>3
    <3>2. ASSUME NEW j \in 1 .. Len(active'), active'[j] = t PROVE t \in heap'
      BY <1>2, <1>3, <1>5, <2>1, <3>2
    <3> QED
      BY <3>1, <3>2
  <2> QED
    BY <1>4, <2>2 DEF Allocated
<1>8. StartedInOrder'
  BY <1>2 DEF ThreadInv, StartedInOrder, StartedUpTo
<1>9. DeinitAfter'
  BY <1>2, <1>3, <1>4, <1>5 DEF DeinitAfter
<1>10. RunningHeld'
  BY <1>2 DEF ThreadInv, RunningHeld
<1> QED
  BY <1>6, <1>7, <1>8, <1>9, <1>10 DEF ThreadInv

\* log_deinit frees a Thread
LEMMA CloseThreads == TypeOK /\ ThreadInv /\ CloseThread => ThreadInv'
<1> SUFFICES ASSUME TypeOK, ThreadInv, CloseThread PROVE ThreadInv'
  OBVIOUS
<1>1. PICK a, m : a = active /\ m = mi
  OBVIOUS
<1>2. /\ a \in Seq(CompressThreads) /\ m \in 1 .. Len(a) /\ ~ lifetime[a[m]]
      /\ heap' = heap \ {a[m]} /\ active' = a /\ mi' = m + 1 /\ mpc = "threads"
      /\ UNCHANGED <<lifetime, proc, lpc, mpc>>
  BY <1>1 DEF CloseThread, TypeOK
<1>3. Len(a) \in Nat /\ \A j, k \in 1 .. Len(a) : a[j] = a[k] => j = k
  BY <1>1, <1>2 DEF ThreadInv, ActiveOnce
<1>4. Allocated'
  <2>1. heap = {a[j] : j \in m .. Len(a)}
    BY <1>1 DEF ThreadInv, Allocated
  <2>2. {a[j] : j \in m .. Len(a)} \ {a[m]} = {a[j] : j \in m + 1 .. Len(a)}
    <3>1. ASSUME NEW j \in m .. Len(a) PROVE a[j] = a[m] <=> j = m
      BY <1>2, <1>3
    <3>2. \A j : j \in m + 1 .. Len(a) <=> j \in m .. Len(a) /\ j # m
      BY <1>2, <1>3
    <3> QED
      BY <3>1, <3>2
  <2> QED
    BY <1>2, <2>1, <2>2 DEF Allocated
<1>5. ActiveOnce' /\ StartedInOrder'
  BY <1>1, <1>2 DEF ThreadInv, ActiveOnce, StartedInOrder, StartedUpTo
<1>6. DeinitAfter'
  BY <1>1, <1>2, <1>3 DEF ThreadInv, DeinitAfter
<1>7. RunningHeld'
  BY <1>2 DEF ThreadInv, RunningHeld
<1> QED
  BY <1>4, <1>5, <1>6, <1>7 DEF ThreadInv

LEMMA ThreadStep == TypeOK /\ ThreadInv /\ [Next]_vars => ThreadInv'
<1> SUFFICES ASSUME TypeOK, ThreadInv, [Next]_vars PROVE ThreadInv'
  OBVIOUS
<1>1. ASSUME UNCHANGED <<active, heap, lifetime, proc, mpc, mi>>, lpc = "exited" => lpc' = "exited"
      PROVE  ThreadInv'
  <2>1. StartedInOrder' /\ ActiveOnce' /\ Allocated' /\ RunningHeld'
    BY <1>1 DEF ThreadInv, StartedInOrder, StartedUpTo, ActiveOnce, Allocated, RunningHeld
  <2>2. DeinitAfter'
    BY <1>1 DEF ThreadInv, DeinitAfter
  <2> QED
    BY <2>1, <2>2 DEF ThreadInv
<1>2. ASSUME NEW s \in Sources, Register(s) \/ Message(s) \/ Deregister(s) PROVE ThreadInv'
  <2>1. UNCHANGED <<active, heap, lifetime, proc, lpc, mpc, mi>>
    BY <1>2 DEF Register, Message, Deregister, Push, compressVars, pcVars
  <2> QED
    BY <1>1, <2>1
<1>3. CASE CallDropped \/ LogWait \/ LogWaitFails \/ DrainAgain \/ CheckRunning \/ CheckEnds
  <2>1. UNCHANGED <<active, heap, lifetime, proc, mpc, mi>>
    BY <1>3 DEF CallDropped, LogWait, LogWaitFails, DrainAgain, CheckRunning, CheckEnds,
         compressVars, pcVars
  <2>2. lpc = "exited" => lpc' = "exited"
    BY <1>3 DEF CallDropped, LogWait, LogWaitFails, DrainAgain, CheckRunning, CheckEnds, LogGoto,
         pcVars
  <2> QED
    BY <1>1, <2>1, <2>2
<1>4. ASSUME NEW s \in Sources, Handle(s) PROVE ThreadInv'
  <2>1. lpc = "drain" /\ UNCHANGED <<lpc, mpc, mi>>
    BY <1>4 DEF Handle, WriteIgnored, WriteLine, WriteNotRotated, WriteRotates, RegisterSkips,
         RegisterOpens, RegisterRotates, RegisterNotRotated, DeregisterHandled, Pop, pcVars
  <2>2. StartCompress \/ UNCHANGED compressVars
    BY <1>4 DEF Handle, WriteIgnored, WriteLine, WriteNotRotated, WriteRotates, RegisterSkips,
         RegisterOpens, RegisterRotates, RegisterNotRotated, DeregisterHandled, Write, LogCompress,
         Rotates
  <2> QED
    BY <2>1, <2>2, StartThreads
<1>5. ASSUME NEW t \in CompressThreads, CompressStep(t) PROVE ThreadInv'
  <2>1. PICK p \in {"exiting", "ended"} :
          proc' = [proc EXCEPT ![t] = p] /\ proc[t] \in {"running", "exiting"}
    BY <1>5 DEF CompressStep, CompressProc, CompressUnlocksContinue
  <2>2. /\ lifetime' \in {lifetime, [lifetime EXCEPT ![t] = FALSE]}
        /\ UNCHANGED <<active, heap, lpc, mpc, mi>>
    BY <1>5 DEF CompressStep, CompressProc, CompressUnlocksContinue, pcVars
  <2>3. \A u \in CompressThreads \ {t} : proc'[u] = proc[u] /\ lifetime'[u] = lifetime[u]
    BY <2>1, <2>2 DEF TypeOK
  <2>4. proc'[t] = p
    BY <2>1 DEF TypeOK
  <2>5. \A u \in CompressThreads : proc'[u] # "none" <=> proc[u] # "none"
    BY <2>1, <2>3, <2>4
  <2>6. StartedInOrder'
    BY <2>5 DEF ThreadInv, StartedInOrder, StartedUpTo
  <2>7. ActiveOnce'
    <3>1. \A i \in 1 .. Len(active) : active[i] \in CompressThreads
      BY DEF TypeOK
    <3> QED
      BY <2>2, <2>5, <3>1 DEF ThreadInv, ActiveOnce
  <2>8. DeinitAfter' /\ Allocated'
    BY <2>2 DEF ThreadInv, DeinitAfter, Allocated
  <2>9. RunningHeld'
    BY <2>2, <2>3, <2>4 DEF ThreadInv, RunningHeld
  <2> QED
    BY <2>6, <2>7, <2>8, <2>9 DEF ThreadInv
<1>6. ASSUME UNCHANGED <<active, heap, lifetime, proc, lpc, mi>>, DeinitAfter' PROVE ThreadInv'
  BY <1>6 DEF ThreadInv, StartedInOrder, StartedUpTo, ActiveOnce, Allocated, RunningHeld
<1>7. CASE StopBegin \/ CloseFiles \/ FreeAll
  <2>1. UNCHANGED <<active, heap, lifetime, proc, lpc, mi>>
    BY <1>7 DEF StopBegin, CloseFiles, FreeAll, compressVars
  <2>2. DeinitAfter'
    BY <1>7, <2>1 DEF StopBegin, CloseFiles, FreeAll, ThreadInv, DeinitAfter
  <2> QED
    BY <1>6, <2>1, <2>2
<1>8. CASE UNCHANGED vars
  BY <1>1, <1>8 DEF vars, compressVars, pcVars
<1> QED
  BY <1>2, <1>3, <1>4, <1>5, <1>7, <1>8, CheckFreesThreads, CloseThreads
  DEF Next, Call, LogStep, DeinitStep

\* the number of the elements of a sequence without repetitions
LEMMA DistinctElements ==
  ASSUME NEW S, NEW r \in Seq(S), \A i, j \in 1 .. Len(r) : r[i] = r[j] => i = j
  PROVE  Cardinality(ToSet(r)) = Len(r)
<1> DEFINE n == Len(r)
<1>1. n \in Nat /\ DOMAIN r = 1 .. n
  OBVIOUS
<1>2. IsFiniteSet(1 .. n) /\ Cardinality(1 .. n) = n
  BY <1>1, FS_Interval
<1>3. r \in Bijection(1 .. n, ToSet(r))
  <2>1. r \in [1 .. n -> ToSet(r)] /\ \A t \in ToSet(r) : \E i \in 1 .. n : r[i] = t
    BY <1>1 DEF ToSet
  <2>2. r \in Injection(1 .. n, ToSet(r))
    BY <2>1 DEF Injection, IsInjective
  <2>3. r \in Surjection(1 .. n, ToSet(r))
    BY <2>1 DEF Surjection
  <2> QED
    BY <2>2, <2>3 DEF Bijection
<1> HIDE DEF n
<1>4. ExistsBijection(1 .. n, ToSet(r))
  BY <1>3 DEF ExistsBijection
<1> QED
  BY <1>2, <1>4, FS_Bijection DEF n

LEMMA OwnedByArray == TypeOK /\ ThreadInv => ThreadsOwned
<1> SUFFICES ASSUME TypeOK, ThreadInv PROVE ThreadsOwned
  OBVIOUS
<1>1. PICK a, m, r : a = active /\ m = mi /\ r = SubSeq(active, mi, Len(active))
  OBVIOUS
<1>2. a \in Seq(CompressThreads) /\ m \in Nat \ {0} /\ Len(a) \in Nat /\ m <= Len(a) + 1
  BY <1>1 DEF TypeOK, ThreadInv, DeinitAfter
<1>3. r = SubSeq(a, m, Len(a)) /\ m \in Int /\ Len(a) \in Int
      /\ \A i \in m .. Len(a) : a[i] \in CompressThreads
  BY <1>1, <1>2
<1>4. /\ r \in Seq(CompressThreads)
      /\ Len(r) = IF m <= Len(a) THEN Len(a) - m + 1 ELSE 0
      /\ \A i \in 1 .. Len(a) - m + 1 : r[i] = a[m + i - 1]
  BY <1>3, SubSeqProperties
<1>5. Len(r) = Len(a) - m + 1 /\ DOMAIN r = 1 .. Len(r)
  BY <1>2, <1>4
<1>6. \A i, j \in 1 .. Len(r) : r[i] = r[j] => i = j
  <2>1. \A i, j \in 1 .. Len(a) : a[i] = a[j] => i = j
    BY <1>1 DEF ThreadInv, ActiveOnce
  <2> SUFFICES ASSUME NEW i \in 1 .. Len(r), NEW j \in 1 .. Len(r), r[i] = r[j] PROVE i = j
    OBVIOUS
  <2>2. m + i - 1 \in 1 .. Len(a) /\ m + j - 1 \in 1 .. Len(a)
    BY <1>2, <1>5
  <2>3. a[m + i - 1] = a[m + j - 1]
    BY <1>4, <1>5
  <2>4. m + i - 1 = m + j - 1
    BY <2>1, <2>2, <2>3
  <2> QED
    BY <2>4, <1>2
<1>7. heap = ToSet(r)
  <2>1. heap = {a[i] : i \in m .. Len(a)}
    BY <1>1 DEF ThreadInv, Allocated
  <2>2. \A i \in m .. Len(a) : i - m + 1 \in 1 .. Len(r) /\ r[i - m + 1] = a[i]
    <3> SUFFICES ASSUME NEW i \in m .. Len(a)
                 PROVE  i - m + 1 \in 1 .. Len(r) /\ r[i - m + 1] = a[i]
      OBVIOUS
    <3>1. PICK q : q = i - m + 1
      OBVIOUS
    <3>2. q \in 1 .. Len(a) - m + 1 /\ m + q - 1 = i
      BY <1>2, <3>1
    <3> QED
      BY <1>4, <1>5, <3>1, <3>2
  <2>3. \A i \in 1 .. Len(r) : m + i - 1 \in m .. Len(a) /\ r[i] = a[m + i - 1]
    BY <1>2, <1>4, <1>5
  <2> QED
    BY <1>5, <2>1, <2>2, <2>3 DEF ToSet
<1>8. Cardinality(ToSet(r)) = Len(r)
  BY <1>4, <1>6, DistinctElements
<1> QED
  BY <1>1, <1>7, <1>8 DEF ThreadsOwned, ThreadInv, RunningHeld

\* ThreadInv holds in every state, for any number of compress threads.
THEOREM ThreadInvariant == Spec => [](TypeOK /\ ThreadInv)
  BY TypeInit, TypeStep, ThreadInit, ThreadStep, PTL DEF Spec

\* ThreadsOwned holds in every state, for any number of compress threads and whatever
\* becomes of thread_start: a Thread is in activeCompressThreads exactly once for as
\* long as it is allocated, so that log_check_threads and log_deinit free each of them
\* once, and none before its procedure has ended.
THEOREM ThreadsFreedOnce == Spec => []ThreadsOwned
  BY ThreadInvariant, OwnedByArray, PTL

-----------------------------------------------------------------------------
(* The contents of the archives: what FlattenSeq makes of a sequence that grows. *)
(* Induction is done with sets, since < on Nat is well-founded.                  *)

LEMMA SetInduction ==
  ASSUME NEW T, 0 \in T, \A n \in Nat : n \in T => n + 1 \in T
  PROVE  \A n \in Nat : n \in T
<1> SUFFICES ASSUME Nat \ T # {} PROVE FALSE
  OBVIOUS
<1> DEFINE less == OpToRel(<, Nat)
<1>1. IsWellFoundedOn(less, Nat)
  BY NatLessThanWellFounded
<1>2. \A x, y \in Nat : x < y => <<x, y>> \in less
  BY DEF OpToRel
<1> HIDE DEF less
<1>3. PICK x \in Nat \ T : \A y \in Nat \ T : ~ (<<y, x>> \in less)
  BY <1>1, WFMin
<1>4. x # 0 /\ x - 1 \in Nat /\ x - 1 < x
  BY <1>3
<1>5. x - 1 \in T
  BY <1>2, <1>3, <1>4
<1>6. (x - 1) + 1 \in T
  BY <1>4, <1>5
<1> QED
  BY <1>3, <1>6

\* f[i] is the concatenation of the first i of the k sequences
IsFlat(f, a, k) == f = [i \in 1 .. k |-> IF i = 1 THEN a[i] ELSE f[i - 1] \o a[i]]

LEMMA FlatExists ==
  ASSUME NEW a, NEW k \in Nat
  PROVE  \E f : IsFlat(f, a, k)
<1> DEFINE T == {n \in Nat : \E f : IsFlat(f, a, n)}
<1>1. 0 \in T
  <2> DEFINE f == [i \in 1 .. 0 |-> 0]
  <2>1. IsFlat(f, a, 0)
    BY DEF IsFlat
  <2> HIDE DEF f
  <2> QED
    BY <2>1
<1>2. ASSUME NEW n \in Nat, n \in T PROVE n + 1 \in T
  <2>1. PICK f : IsFlat(f, a, n)
    BY <1>2
  <2> DEFINE g == [i \in 1 .. n + 1 |->
                     IF i = 1 THEN a[i] ELSE IF i = n + 1 THEN f[n] \o a[i] ELSE f[i]]
  <2>2. \A i \in 1 .. n : g[i] = f[i]
    BY <2>1 DEF IsFlat
  <2>3. \A i \in 1 .. n + 1 : g[i] = IF i = 1 THEN a[i] ELSE g[i - 1] \o a[i]
    <3> SUFFICES ASSUME NEW i \in 1 .. n + 1, i # 1 PROVE g[i] = g[i - 1] \o a[i]
      OBVIOUS
    <3>1. PICK j : j = i - 1
      OBVIOUS
    <3>2. j \in 1 .. n /\ i = j + 1
      BY <3>1
    <3>3. g[j] = f[j]
      BY <2>2, <3>2
    <3>4. CASE i = n + 1
      <4>0. g[i] = IF i = 1 THEN a[i] ELSE IF i = n + 1 THEN f[n] \o a[i] ELSE f[i]
        OBVIOUS
      <4> HIDE DEF g
      <4>1. g[i] = f[n] \o a[i]
        BY <3>4, <4>0
      <4>2. j = n
        BY <3>2, <3>4
      <4> QED
        BY <3>1, <3>3, <4>1, <4>2
    <3>5. CASE i # n + 1
      <4>1. i \in 1 .. n
        BY <3>5
      <4>2. f[i] = IF i = 1 THEN a[i] ELSE f[i - 1] \o a[i]
        BY <2>1, <4>1 DEF IsFlat
      <4>3. g[i] = f[i]
        BY <2>2, <4>1
      <4> QED
        BY <3>1, <3>3, <4>2, <4>3
    <3> QED
      BY <3>4, <3>5
  <2>4. g = [i \in 1 .. n + 1 |-> IF i = 1 THEN a[i] ELSE g[i - 1] \o a[i]]
    <3>1. g = [i \in 1 .. n + 1 |-> g[i]]
      OBVIOUS
    <3> HIDE DEF g
    <3> QED
      BY <2>3, <3>1
  <2> HIDE DEF g
  <2>5. IsFlat(g, a, n + 1)
    BY <2>4 DEF IsFlat
  <2> QED
    BY <2>5
<1> HIDE DEF T
<1>3. \A n \in Nat : n \in T
  BY <1>1, <1>2, SetInduction
<1> QED
  BY <1>3 DEF T

Agree(a, b, n) == \A i \in 1 .. n : a[i] = b[i]

\* two of them agree as far as both go
LEMMA FlatAgrees ==
  ASSUME NEW a, NEW b, NEW m \in Nat, NEW k \in Nat, m <= k, Agree(a, b, m),
         NEW f, NEW g, IsFlat(f, a, m), IsFlat(g, b, k)
  PROVE  Agree(f, g, m)
<1> USE DEF Agree
<1> DEFINE T == {n \in Nat : n \in 1 .. m => f[n] = g[n]}
<1>1. 0 \in T
  OBVIOUS
<1>2. ASSUME NEW n \in Nat, n \in T PROVE n + 1 \in T
  <2> SUFFICES ASSUME n + 1 \in 1 .. m PROVE f[n + 1] = g[n + 1]
    OBVIOUS
  <2>1. f[n + 1] = IF n + 1 = 1 THEN a[n + 1] ELSE f[(n + 1) - 1] \o a[n + 1]
    BY DEF IsFlat
  <2>2. g[n + 1] = IF n + 1 = 1 THEN b[n + 1] ELSE g[(n + 1) - 1] \o b[n + 1]
    <3>1. n + 1 \in 1 .. k
      OBVIOUS
    <3> QED
      BY <3>1 DEF IsFlat
  <2>3. (n + 1) - 1 = n /\ a[n + 1] = b[n + 1] /\ (n + 1 # 1 => f[n] = g[n])
    BY <1>2
  <2> QED
    BY <2>1, <2>2, <2>3
<1> HIDE DEF T
<1>3. \A n \in Nat : n \in T
  BY <1>1, <1>2, SetInduction
<1> QED
  BY <1>3 DEF T

LEMMA FlatTyped ==
  ASSUME NEW S, NEW k \in Nat, NEW a, \A i \in 1 .. k : a[i] \in Seq(S), NEW f, IsFlat(f, a, k)
  PROVE  \A i \in 1 .. k : f[i] \in Seq(S)
<1> DEFINE T == {n \in Nat : n \in 1 .. k => f[n] \in Seq(S)}
<1>1. 0 \in T
  OBVIOUS
<1>2. ASSUME NEW n \in Nat, n \in T PROVE n + 1 \in T
  <2> SUFFICES ASSUME n + 1 \in 1 .. k PROVE f[n + 1] \in Seq(S)
    OBVIOUS
  <2>1. f[n + 1] = IF n + 1 = 1 THEN a[n + 1] ELSE f[(n + 1) - 1] \o a[n + 1]
    BY DEF IsFlat
  <2>2. (n + 1) - 1 = n /\ a[n + 1] \in Seq(S) /\ (n + 1 # 1 => f[n] \in Seq(S))
    BY <1>2
  <2> QED
    BY <2>1, <2>2
<1> HIDE DEF T
<1>3. \A n \in Nat : n \in T
  BY <1>1, <1>2, SetInduction
<1> QED
  BY <1>3 DEF T

LEMMA FlattenIs ==
  ASSUME NEW S, NEW a \in Seq(S), a # <<>>, NEW f, IsFlat(f, a, Len(a))
  PROVE  FlattenSeq(a) = f[Len(a)]
<1>1. Len(a) \in Nat /\ Len(a) # 0
  OBVIOUS
<1>2. FlattenSeq(a) = (CHOOSE g : IsFlat(g, a, Len(a)))[Len(a)]
  BY <1>1 DEF FlattenSeq, IsFlat
<1>3. PICK g : g = CHOOSE h : IsFlat(h, a, Len(a))
  OBVIOUS
<1>4. IsFlat(g, a, Len(a))
  BY <1>3
<1>5. Agree(a, a, Len(a))
  BY DEF Agree
<1>6. Agree(f, g, Len(a))
  BY <1>1, <1>4, <1>5, FlatAgrees
<1> QED
  BY <1>1, <1>2, <1>3, <1>6 DEF Agree

\* the contents of the archives are lines
LEMMA FlattenTyped ==
  ASSUME NEW S, NEW a \in Seq(Seq(S))
  PROVE  FlattenSeq(a) \in Seq(S)
<1>1. CASE a = <<>>
  BY <1>1 DEF FlattenSeq
<1>2. CASE a # <<>>
  <2>1. Len(a) \in Nat /\ Len(a) \in 1 .. Len(a) /\ \A i \in 1 .. Len(a) : a[i] \in Seq(S)
    BY <1>2
  <2>2. PICK f : IsFlat(f, a, Len(a))
    BY <2>1, FlatExists
  <2>3. f[Len(a)] \in Seq(S)
    BY <2>1, <2>2, FlatTyped
  <2> QED
    BY <1>2, <2>2, <2>3, FlattenIs
<1> QED
  BY <1>1, <1>2

\* one more archive adds its lines to the end
LEMMA FlattenAppend ==
  ASSUME NEW S, NEW a \in Seq(Seq(S)), NEW x \in Seq(S)
  PROVE  FlattenSeq(Append(a, x)) = FlattenSeq(a) \o x
<1>1. PICK b, n, k : b = Append(a, x) /\ n = Len(a) /\ k = n + 1
  OBVIOUS
<1>2. /\ b \in Seq(Seq(S)) /\ b # <<>> /\ Len(b) = k /\ n \in Nat /\ b[k] = x
      /\ k \in Nat /\ k \in 1 .. k /\ n <= k /\ k - 1 = n
      /\ \A i \in 1 .. n : a[i] = b[i]
  BY <1>1
<1>3. PICK g : IsFlat(g, b, k)
  BY <1>2, FlatExists
<1>4. FlattenSeq(b) = g[k]
  BY <1>2, <1>3, FlattenIs
<1>5. g[k] = IF k = 1 THEN b[k] ELSE g[k - 1] \o b[k]
  BY <1>2, <1>3 DEF IsFlat
<1>6. CASE a = <<>>
  <2>1. n = 0 /\ FlattenSeq(a) = <<>>
    BY <1>1, <1>6 DEF FlattenSeq
  <2>2. <<>> \o x = x
    OBVIOUS
  <2> QED
    BY <1>1, <1>2, <1>4, <1>5, <2>1, <2>2
<1>7. CASE a # <<>>
  <2>1. n \in 1 .. n /\ k # 1
    BY <1>1, <1>2, <1>7
  <2>2. PICK f : IsFlat(f, a, n)
    BY <1>2, FlatExists
  <2>3. FlattenSeq(a) = f[n]
    BY <1>1, <1>7, <2>2, FlattenIs
  <2>4. Agree(a, b, n)
    BY <1>2 DEF Agree
  <2>5. Agree(f, g, n)
    <3>1. n \in Nat /\ k \in Nat /\ n <= k
      BY <1>2
    <3> QED
      BY <3>1, <2>4, <1>3, <2>2, FlatAgrees
  <2>6. f[n] = g[n]
    BY <2>1, <2>5 DEF Agree
  <2> QED
    BY <1>1, <1>2, <1>4, <1>5, <2>1, <2>3, <2>6
<1> QED
  BY <1>6, <1>7

LEMMA PrefixConcat ==
  ASSUME NEW S, NEW a \in Seq(S), NEW b \in Seq(S)
  PROVE  IsPrefix(a, a \o b)
<1>1. PICK c : c = a \o b
  OBVIOUS
<1>2. c \in Seq(S) /\ Len(c) = Len(a) + Len(b) /\ \A i \in 1 .. Len(a) : c[i] = a[i]
  BY <1>1
<1>3. Len(a) \in Nat /\ Len(b) \in Nat /\ Len(a) <= Len(c)
  BY <1>2
<1>4. SubSeq(a, 1, Len(a)) = SubSeq(c, 1, Len(a))
  BY <1>2, <1>3
<1> QED
  BY <1>1, <1>3, <1>4 DEF IsPrefix

-----------------------------------------------------------------------------
(* The lines on disk *)

\* a file that grows
LEMMA AppendedOnDisk ==
  ASSUME NEW a \in Seq(Seq(Line)), NEW d \in Seq(Line), NEW more \in Seq(Line)
  PROVE  FlattenSeq(a) \o (d \o more) = (FlattenSeq(a) \o d) \o more
<1>1. FlattenSeq(a) \in Seq(Line)
  BY FlattenTyped
<1> QED
  BY <1>1

\* a file that is moved, with what was to be written to it, and what the new one begins with
LEMMA MovedOnDisk ==
  ASSUME NEW a \in Seq(Seq(Line)), NEW d \in Seq(Line), NEW more \in Seq(Line),
         NEW b \in Seq(Line)
  PROVE  FlattenSeq(Append(a, d \o more)) \o b = (FlattenSeq(a) \o d) \o (more \o b)
<1>1. PICK f : f = FlattenSeq(a)
  OBVIOUS
<1>2. f \in Seq(Line) /\ d \o more \in Seq(Line)
  BY <1>1, FlattenTyped
<1>3. FlattenSeq(Append(a, d \o more)) = f \o (d \o more)
  BY <1>1, <1>2, FlattenAppend
<1>4. (f \o (d \o more)) \o b = (f \o d) \o (more \o b)
  BY <1>2
<1> QED
  BY <1>1, <1>3, <1>4

\* what LinesStay says of one source
Stays(s) ==
  \/ IsPrefix(OnDisk(s), OnDisk(s)')
  \/ /\ s \in failed'
     /\ Len(disk'[s]) <= 1
     /\ archive[s] # <<>> => IsPrefix(Front(archive[s]), archive'[s])

LEMMA OnDiskTyped ==
  ASSUME TypeOK, NEW s \in Sources
  PROVE  OnDisk(s) \in Seq(Line)
<1>1. FlattenSeq(archive[s]) \in Seq(Line) /\ disk[s] \in Seq(Line)
  BY FlattenTyped DEF TypeOK
<1> QED
  BY <1>1 DEF OnDisk

LEMMA SameStays ==
  ASSUME TypeOK, NEW s \in Sources, archive'[s] = archive[s], disk'[s] = disk[s]
  PROVE  Stays(s)
<1>1. PICK o : o = OnDisk(s)
  OBVIOUS
<1>2. o \in Seq(Line) /\ OnDisk(s)' = o
  BY <1>1, OnDiskTyped DEF OnDisk
<1>3. IsPrefix(o, o)
  <2>1. <<>> \in Seq(Line) /\ o \o <<>> = o
    BY <1>2
  <2> QED
    BY <1>2, <2>1, PrefixConcat
<1> QED
  BY <1>1, <1>2, <1>3 DEF Stays

LEMMA LongerStays ==
  ASSUME TypeOK, NEW s \in Sources, NEW more \in Seq(Line), OnDisk(s)' = OnDisk(s) \o more
  PROVE  Stays(s)
<1>1. IsPrefix(OnDisk(s), OnDisk(s) \o more)
  BY OnDiskTyped, PrefixConcat
<1> QED
  BY <1>1 DEF Stays

LEMMA FrontPrefix ==
  ASSUME NEW S, NEW a \in Seq(S), a # <<>>, NEW c \in S
  PROVE  IsPrefix(Front(a), a) /\ IsPrefix(Front(a), Append(Front(a), c))
<1>1. PICK f, l : f = Front(a) /\ l = a[Len(a)]
  OBVIOUS
<1>2. f \in Seq(S) /\ l \in S
  BY <1>1, FrontTyped
<1>3. a = f \o <<l>>
  <2>1. Len(a) \in Nat \ {0} /\ Len(a) - 1 \in Nat
    OBVIOUS
  <2>2. Len(f) = Len(a) - 1 /\ \A i \in 1 .. Len(a) - 1 : f[i] = a[i]
    <3>1. PICK m : m = Len(a) - 1
      OBVIOUS
    <3>2. m \in Nat /\ f = SubSeq(a, 1, m) /\ \A i \in 1 .. m : a[i] \in S
      BY <1>1, <2>1, <3>1 DEF Front
    <3>3. Len(f) = m /\ \A i \in 1 .. m : f[i] = a[i]
      BY <3>2
    <3> QED
      BY <3>1, <3>3
  <2>3. Len(f \o <<l>>) = Len(a) /\ \A i \in 1 .. Len(a) : (f \o <<l>>)[i] = a[i]
    BY <1>1, <1>2, <2>1, <2>2
  <2> QED
    BY <1>2, <2>3
<1>4. Append(f, c) = f \o <<c>> /\ <<c>> \in Seq(S) /\ <<l>> \in Seq(S)
  BY <1>2
<1> QED
  BY <1>1, <1>2, <1>3, <1>4, PrefixConcat

\* a file that grows, and no other
LEMMA GrowingStays ==
  ASSUME TypeOK, NEW s \in Sources, NEW more \in Seq(Line),
         disk' = [disk EXCEPT ![s] = @ \o more], archive' = archive
  PROVE  /\ \A t \in Sources : Stays(t)
         /\ OnDisk(s)' = OnDisk(s) \o more
<1>1. disk[s] \in Seq(Line) /\ archive[s] \in Seq(Seq(Line))
  BY DEF TypeOK
<1>2. disk'[s] = disk[s] \o more /\ \A t \in Sources \ {s} : disk'[t] = disk[t]
  BY DEF TypeOK
<1>3. OnDisk(s)' = FlattenSeq(archive[s]) \o (disk[s] \o more)
  BY <1>2 DEF OnDisk
<1>4. OnDisk(s)' = OnDisk(s) \o more
  BY <1>1, <1>3, AppendedOnDisk DEF OnDisk
<1>5. Stays(s)
  BY <1>4, LongerStays
<1>6. ASSUME NEW t \in Sources \ {s} PROVE Stays(t)
  BY <1>2, SameStays
<1> QED
  BY <1>4, <1>5, <1>6

\* a rotation, with all that may fail in it
LEMMA RotationStays ==
  ASSUME TypeOK, NEW s \in Sources, NEW more \in Seq(Line), NEW content, NEW openings,
         \A o \in openings : o.begins \in Seq(Line) /\ Len(o.begins) <= 1,
         content = disk[s] \o more, LogCompress(s, content, openings)
  PROVE  \A t \in Sources : Stays(t)
<1>1. PICK a, d : a = archive[s] /\ d = disk[s]
  OBVIOUS
<1>2. a \in Seq(Seq(Line)) /\ d \in Seq(Line) /\ content \in Seq(Line)
  BY <1>1 DEF TypeOK
<1>3. PICK o \in openings,
           m \in {Moved(s, content), NotMoved(s, content), MovedOver(s, content)} :
        /\ archive' = [archive EXCEPT ![s] = m.archives]
        /\ disk' = [disk EXCEPT ![s] = IF o.ok THEN o.begins ELSE m.log]
        /\ Exactly(s, o.exact /\ m.exact)
  BY DEF LogCompress, Rotates
<1>4. /\ archive'[s] = m.archives
      /\ o.ok => disk'[s] = o.begins
      /\ ~ o.ok => disk'[s] = m.log
      /\ \A t \in Sources \ {s} : archive'[t] = archive[t] /\ disk'[t] = disk[t]
  BY <1>3 DEF TypeOK
<1>5. ASSUME NEW t \in Sources \ {s} PROVE Stays(t)
  BY <1>4, SameStays
<1>6. CASE m = Moved(s, content)
  <2>1. PICK b \in Seq(Line) : disk'[s] = b
    <3>1. m.log = <<>> /\ <<>> \in Seq(Line)
      BY <1>6 DEF Moved
    <3>2. CASE o.ok
      BY <1>4, <3>2
    <3>3. CASE ~ o.ok
      BY <1>4, <3>1, <3>3
    <3> QED
      BY <3>2, <3>3
  <2>2. archive'[s] = Append(a, d \o more)
    BY <1>1, <1>4, <1>6 DEF Moved
  <2>3. OnDisk(s)' = FlattenSeq(Append(a, d \o more)) \o b
    BY <2>1, <2>2 DEF OnDisk
  <2>4. PICK c : c = OnDisk(s)'
    OBVIOUS
  <2>7. c = FlattenSeq(Append(a, d \o more)) \o b
    BY <2>3, <2>4
  <2>8. FlattenSeq(Append(a, d \o more)) \o b = (FlattenSeq(a) \o d) \o (more \o b)
    <3>1. a \in Seq(Seq(Line)) /\ d \in Seq(Line) /\ b \in Seq(Line)
      BY <1>2, <2>1
    <3> QED
      BY <3>1, MovedOnDisk
  <2>9. OnDisk(s)' = (FlattenSeq(a) \o d) \o (more \o b)
    BY <2>4, <2>7, <2>8
  <2>6. OnDisk(s) = FlattenSeq(a) \o d /\ more \o b \in Seq(Line)
    BY <1>1, <2>1 DEF OnDisk
  <2>5. Stays(s)
    BY <2>6, <2>9, LongerStays
  <2> QED
    BY <1>5, <2>5
<1>7. CASE m = NotMoved(s, content) /\ ~ o.ok
  <2>1. archive'[s] = a /\ disk'[s] = d \o more
    BY <1>1, <1>4, <1>7 DEF NotMoved
  <2>2. OnDisk(s)' = FlattenSeq(a) \o (d \o more)
    BY <2>1 DEF OnDisk
  <2>4. OnDisk(s)' = (FlattenSeq(a) \o d) \o more
    BY <1>2, <2>2, AppendedOnDisk
  <2>5. OnDisk(s) = FlattenSeq(a) \o d
    BY <1>1 DEF OnDisk
  <2>3. Stays(s)
    BY <2>4, <2>5, LongerStays
  <2> QED
    BY <1>5, <2>3
<1>8. CASE \/ m = NotMoved(s, content) /\ o.ok
           \/ m = MovedOver(s, content)
  <2>1. ~ m.exact
    BY <1>8 DEF NotMoved, MovedOver
  <2>2. s \in failed'
    BY <1>3, <2>1 DEF Exactly
  <2>3. Len(disk'[s]) <= 1
    <3>1. CASE o.ok
      BY <1>4, <3>1
    <3>2. CASE ~ o.ok
      BY <1>4, <1>8, <3>2 DEF MovedOver
    <3> QED
      BY <3>1, <3>2
  <2>4. ASSUME a # <<>> PROVE IsPrefix(Front(a), archive'[s])
    <3>1. archive'[s] = a \/ archive'[s] = Append(Front(a), content)
      BY <1>1, <1>4, <1>8, <2>4 DEF NotMoved, MovedOver
    <3>2. IsPrefix(Front(a), a) /\ IsPrefix(Front(a), Append(Front(a), content))
      BY <1>2, <2>4, FrontPrefix
    <3> QED
      BY <3>1, <3>2
  <2>5. Stays(s)
    BY <1>1, <2>2, <2>3, <2>4 DEF Stays
  <2> QED
    BY <1>5, <2>5
<1> QED
  BY <1>6, <1>7, <1>8

\* the line of a message, or what is left of it, is added
LEMMA WriteAdds ==
  ASSUME TypeOK, NEW s \in Sources, ring # <<>>, NEW line \in Written
  PROVE  /\ <<line>> \in Seq(Line) /\ Append(disk[s], line) = disk[s] \o <<line>>
         /\ Write(s, line) =>
              disk' = [disk EXCEPT ![s] = @ \o <<line>>] /\ archive' = archive
<1>1. line \in Line /\ disk[s] \in Seq(Line)
  BY WrittenTyped DEF TypeOK
<1> QED
  BY <1>1 DEF Write

LEMMA StaysStep == TypeOK /\ [Next]_vars => \A s \in Sources : Stays(s)
<1> SUFFICES ASSUME TypeOK, [Next]_vars PROVE \A s \in Sources : Stays(s)
  OBVIOUS
<1>1. CASE UNCHANGED <<disk, archive>>
  BY <1>1, SameStays
<1>2. ASSUME NEW s \in Sources, Handle(s) PROVE \A t \in Sources : Stays(t)
  <2>1. ring # <<>>
    BY <1>2 DEF Handle, WriteIgnored, WriteLine, WriteNotRotated, WriteRotates, RegisterSkips,
         RegisterOpens, RegisterRotates, RegisterNotRotated, DeregisterHandled, Pop
  <2>2. CASE WriteLine(s) \/ WriteNotRotated(s)
    <3>1. PICK line \in Written : Write(s, line)
      BY <2>2 DEF WriteLine, WriteNotRotated
    <3> QED
      BY <2>1, <3>1, WriteAdds, GrowingStays
  <2>3. CASE RegisterOpens(s)
    <3>1. PICK o \in Registerings : disk' = [disk EXCEPT ![s] = @ \o o.begins] /\ archive' = archive
      BY <2>3 DEF RegisterOpens
    <3>2. o.begins \in Seq(Line)
      BY RegisteringsAre DEF Opening
    <3> QED
      BY <3>1, <3>2, GrowingStays
  <2>4. CASE WriteRotates(s)
    <3>1. PICK line \in Written, e \in BOOLEAN :
            LogCompress(s, Append(disk[s], line), Reopenings(e))
      BY <2>4 DEF WriteRotates
    <3>2. PICK w : w = Append(disk[s], line)
      OBVIOUS
    <3>3. <<line>> \in Seq(Line) /\ w = disk[s] \o <<line>>
      BY <2>1, <3>2, WriteAdds
    <3>4. \A o \in Reopenings(e) : o.begins \in Seq(Line) /\ Len(o.begins) <= 1
      BY ReopeningsAre
    <3> QED
      BY <3>1, <3>2, <3>3, <3>4, RotationStays
  <2>5. CASE RegisterRotates(s)
    <3>1. LogCompress(s, disk[s], Registerings)
      BY <2>5 DEF RegisterRotates
    <3>2. <<>> \in Seq(Line) /\ disk[s] = disk[s] \o <<>>
      BY DEF TypeOK
    <3>3. \A o \in Registerings : o.begins \in Seq(Line) /\ Len(o.begins) <= 1
      BY RegisteringsAre DEF Opening
    <3> QED
      BY <3>1, <3>2, <3>3, RotationStays
  <2>6. CASE WriteIgnored(s) \/ RegisterSkips(s) \/ RegisterNotRotated(s) \/ DeregisterHandled(s)
    <3>1. UNCHANGED <<disk, archive>>
      BY <2>6 DEF WriteIgnored, RegisterSkips, RegisterNotRotated, DeregisterHandled, fileVars
    <3> QED
      BY <1>1, <3>1
  <2> QED
    BY <1>2, <2>2, <2>3, <2>4, <2>5, <2>6 DEF Handle
<1>3. CASE \/ Call \/ LogWait \/ LogWaitFails \/ DrainAgain \/ CheckRunning \/ CheckFrees
           \/ CheckEnds \/ StopBegin \/ DeinitStep \/ UNCHANGED vars
  <2>1. UNCHANGED <<disk, archive>>
    BY <1>3 DEF Call, CallDropped, Register, Message, Deregister, Push, LogWait, LogWaitFails,
         DrainAgain, CheckRunning, CheckFrees, CheckEnds, StopBegin, DeinitStep, CloseFiles,
         CloseThread, FreeAll, vars, fileVars
  <2> QED
    BY <1>1, <2>1
<1>4. ASSUME NEW t \in CompressThreads, CompressStep(t) PROVE \A s \in Sources : Stays(s)
  <2>1. UNCHANGED <<disk, archive>>
    BY <1>4 DEF CompressStep, CompressProc, CompressUnlocksContinue, fileVars
  <2> QED
    BY <1>1, <2>1
<1> QED
  BY <1>2, <1>3, <1>4 DEF Next, LogStep

\* No step changes what has reached the disk of a source, other than by adding to its
\* end, but for a rotation whose mv fails, which may lose the log it was to move, or the
\* newest archive if that has the same name, for any threshold and however long the
\* archives and the logs are.
THEOREM LinesKept == Spec => LinesStay
<1>1. TypeOK /\ [Next]_vars => \A s \in Sources : Stays(s)
  BY StaysStep
<1>2. TypeOK /\ [Next]_vars
      => [\A s \in Sources :
            \/ IsPrefix(OnDisk(s), OnDisk(s)')
            \/ /\ s \in failed'
               /\ Len(disk'[s]) <= 1
               /\ archive[s] # <<>> => IsPrefix(Front(archive[s]), archive'[s])]_vars
  BY <1>1 DEF Stays
<1> QED
  BY <1>2, TypeCorrect, PTL DEF Spec, LinesStay

-----------------------------------------------------------------------------
(* The log is exact. What the ring still holds is applied, packet by packet, to the     *)
(* entry of a source and to its lines; the result is what the calls so far have asked   *)
(* for.                                                                                 *)

\* the entry and the lines of s after a packet was handled and nothing failed
FpAfter(fp, p, s) ==
  IF p.src # s \/ p.op = "message" THEN fp ELSE IF p.op = "register" THEN "open" ELSE "none"
LinesAfter(fp, lines, p, s) ==
  IF p.src = s /\ p.op = "message" /\ fp = "open" THEN Append(lines, p.line)
  ELSE IF p.src = s /\ p.op = "register" /\ fp # "open" THEN Append(lines, OpenedLine)
  ELSE lines

\* fp and lines run through the packets of r
IsRun(s, r, fp, lines) ==
  \A i \in 1 .. Len(r) :
    fp[i] = FpAfter(fp[i - 1], r[i], s) /\ lines[i] = LinesAfter(fp[i - 1], lines[i - 1], r[i], s)

\* an entry f0 and lines l0 become f1 and l1
Becomes(s, r, f0, l0, f1, l1) ==
  \E fp, lines :
    /\ IsRun(s, r, fp, lines)
    /\ fp[0] = f0 /\ lines[0] = l0 /\ fp[Len(r)] = f1 /\ lines[Len(r)] = l1

FpRegistered(s) == IF s \in registered THEN "open" ELSE "none"

Promised ==
  mpc = "run" =>
    \A s \in Sources \ failed :
      /\ logFiles[s] \in {"none", "open"}
      /\ Becomes(s, ring, logFiles[s], OnDisk(s), FpRegistered(s), expected[s])

LEMMA BecomesNothing ==
  ASSUME NEW s, NEW f0, NEW l0, NEW f1, NEW l1
  PROVE  Becomes(s, <<>>, f0, l0, f1, l1) <=> f0 = f1 /\ l0 = l1
<1>1. ASSUME Becomes(s, <<>>, f0, l0, f1, l1) PROVE f0 = f1 /\ l0 = l1
  BY <1>1 DEF Becomes
<1>2. ASSUME f0 = f1, l0 = l1 PROVE Becomes(s, <<>>, f0, l0, f1, l1)
  <2>1. PICK fp, lines : fp = [i \in {0} |-> f0] /\ lines = [i \in {0} |-> l0]
    OBVIOUS
  <2>2. fp[0] = f0 /\ lines[0] = l0 /\ IsRun(s, <<>>, fp, lines)
    BY <2>1 DEF IsRun
  <2> QED
    BY <1>2, <2>2 DEF Becomes
<1> QED
  BY <1>1, <1>2

\* a packet more
LEMMA BecomesLonger ==
  ASSUME NEW S, NEW s, NEW r \in Seq(S), NEW p \in S, NEW f0, NEW l0, NEW f1, NEW l1,
         Becomes(s, r, f0, l0, f1, l1)
  PROVE  Becomes(s, Append(r, p), f0, l0, FpAfter(f1, p, s), LinesAfter(f1, l1, p, s))
<1>1. PICK fp, lines :
        /\ IsRun(s, r, fp, lines)
        /\ fp[0] = f0 /\ lines[0] = l0 /\ fp[Len(r)] = f1 /\ lines[Len(r)] = l1
  BY DEF Becomes
<1>2. PICK q, n, k, f2, l2 :
        /\ q = Append(r, p) /\ n = Len(r) /\ k = n + 1
        /\ f2 = FpAfter(f1, p, s) /\ l2 = LinesAfter(f1, l1, p, s)
  OBVIOUS
<1>3. /\ n \in Nat /\ k \in Nat /\ k # 0 /\ Len(q) = k /\ q[k] = p
      /\ \A i \in 1 .. n : q[i] = r[i]
  BY <1>2
<1>4. PICK gp, g : /\ gp = [i \in 0 .. k |-> IF i = k THEN f2 ELSE fp[i]]
                   /\ g = [i \in 0 .. k |-> IF i = k THEN l2 ELSE lines[i]]
  OBVIOUS
<1>5. /\ gp[k] = f2 /\ g[k] = l2
      /\ \A i \in 0 .. n : gp[i] = fp[i] /\ g[i] = lines[i]
  BY <1>2, <1>3, <1>4
<1>6. ASSUME NEW i \in 1 .. k
      PROVE  gp[i] = FpAfter(gp[i - 1], q[i], s) /\ g[i] = LinesAfter(gp[i - 1], g[i - 1], q[i], s)
  <2>1. PICK j : j = i - 1
    OBVIOUS
  <2>2. j \in 0 .. n /\ gp[j] = fp[j] /\ g[j] = lines[j]
    BY <1>2, <1>3, <1>5, <2>1
  <2>3. CASE i = k
    <3>1. j = n
      BY <1>2, <1>3, <2>1, <2>3
    <3> QED
      BY <1>1, <1>2, <1>3, <1>5, <2>1, <2>2, <2>3, <3>1
  <2>4. CASE i # k
    <3>1. i \in 1 .. n
      BY <1>2, <1>3, <2>4
    <3>2. fp[i] = FpAfter(fp[j], r[i], s) /\ lines[i] = LinesAfter(fp[j], lines[j], r[i], s)
      BY <1>1, <1>2, <2>1, <3>1 DEF IsRun
    <3>3. gp[i] = fp[i] /\ g[i] = lines[i] /\ q[i] = r[i]
      BY <1>3, <1>5, <3>1
    <3> QED
      BY <2>1, <2>2, <3>2, <3>3
  <2> QED
    BY <2>3, <2>4
<1>7. IsRun(s, q, gp, g)
  BY <1>3, <1>6 DEF IsRun
<1>8. gp[0] = f0 /\ g[0] = l0
  BY <1>1, <1>3, <1>5
<1>9. Becomes(s, q, f0, l0, f2, l2)
  BY <1>3, <1>5, <1>7, <1>8 DEF Becomes
<1> QED
  BY <1>2, <1>9

\* a packet less
LEMMA BecomesShorter ==
  ASSUME NEW S, NEW s, NEW r \in Seq(S), r # <<>>, NEW f0, NEW l0, NEW f1, NEW l1,
         Becomes(s, r, f0, l0, f1, l1)
  PROVE  Becomes(s, Tail(r), FpAfter(f0, Head(r), s), LinesAfter(f0, l0, Head(r), s), f1, l1)
<1>1. PICK fp, lines :
        /\ IsRun(s, r, fp, lines)
        /\ fp[0] = f0 /\ lines[0] = l0 /\ fp[Len(r)] = f1 /\ lines[Len(r)] = l1
  BY DEF Becomes
<1>2. PICK q, n, k : q = Tail(r) /\ k = Len(r) /\ n = k - 1
  OBVIOUS
<1>3. n \in Nat /\ k \in Nat /\ k = n + 1 /\ Len(q) = n /\ \A i \in 1 .. n : q[i] = r[i + 1]
  BY <1>2
<1>4. PICK gp, g : /\ gp = [i \in 0 .. n |-> fp[i + 1]] /\ g = [i \in 0 .. n |-> lines[i + 1]]
  OBVIOUS
<1>5. \A i \in 0 .. n : gp[i] = fp[i + 1] /\ g[i] = lines[i + 1]
  BY <1>4
<1>6. ASSUME NEW i \in 1 .. n
      PROVE  gp[i] = FpAfter(gp[i - 1], q[i], s) /\ g[i] = LinesAfter(gp[i - 1], g[i - 1], q[i], s)
  <2>1. PICK j, m : j = i - 1 /\ m = i + 1
    OBVIOUS
  <2>2. j \in 0 .. n /\ j + 1 = i /\ m \in 1 .. k /\ m - 1 = i /\ i \in 0 .. n
    BY <1>3, <2>1
  <2>3. gp[j] = fp[i] /\ g[j] = lines[i] /\ gp[i] = fp[m] /\ g[i] = lines[m] /\ q[i] = r[m]
    BY <1>3, <1>5, <2>1, <2>2
  <2>4. fp[m] = FpAfter(fp[m - 1], r[m], s) /\ lines[m] = LinesAfter(fp[m - 1], lines[m - 1], r[m], s)
    BY <1>1, <1>2, <2>2 DEF IsRun
  <2> QED
    BY <2>1, <2>2, <2>3, <2>4
<1>7. IsRun(s, q, gp, g)
  BY <1>3, <1>6 DEF IsRun
<1>8. fp[1] = FpAfter(f0, Head(r), s) /\ lines[1] = LinesAfter(f0, l0, Head(r), s)
  <2>1. 1 \in 1 .. Len(r) /\ 1 - 1 = 0 /\ r[1] = Head(r)
    BY <1>2, <1>3
  <2>2. fp[1] = FpAfter(fp[1 - 1], r[1], s) /\ lines[1] = LinesAfter(fp[1 - 1], lines[1 - 1], r[1], s)
    BY <1>1, <2>1 DEF IsRun
  <2> QED
    BY <1>1, <2>1, <2>2
<1>9. gp[0] = fp[1] /\ g[0] = lines[1] /\ gp[n] = f1 /\ g[n] = l1
  <2>1. 0 \in 0 .. n /\ 0 + 1 = 1 /\ n \in 0 .. n
    BY <1>3
  <2> QED
    BY <1>1, <1>2, <1>3, <1>5, <2>1
<1>10. Becomes(s, q, gp[0], g[0], f1, l1)
  BY <1>3, <1>7, <1>9 DEF Becomes
<1> QED
  BY <1>2, <1>8, <1>9, <1>10

LEMMA PromisedInit == Init => Promised
<1> SUFFICES ASSUME Init, NEW s \in Sources
             PROVE  /\ logFiles[s] \in {"none", "open"}
                    /\ Becomes(s, ring, logFiles[s], OnDisk(s), FpRegistered(s), expected[s])
  BY DEF Promised
<1>1. logFiles[s] = "none" /\ FpRegistered(s) = "none" /\ ring = <<>>
  BY DEF Init, FpRegistered
<1>2. OnDisk(s) = expected[s]
  <2>1. disk[s] \in Seq(Line) /\ archive[s] = <<>> /\ expected[s] = disk[s]
    BY OldLogsTyped DEF Init
  <2>2. FlattenSeq(<<>>) = <<>>
    BY DEF FlattenSeq
  <2> QED
    BY <2>1, <2>2 DEF OnDisk
<1> QED
  BY <1>1, <1>2, BecomesNothing

\* a call asks for more
LEMMA PromisedPush ==
  ASSUME TypeOK, Promised, NEW s \in Sources, Register(s) \/ Message(s) \/ Deregister(s)
  PROVE  Promised'
<1>1. PICK op \in {"register", "message", "deregister"}, line \in Line :
        /\ Push(op, s, line)
        /\ \/ op = "register" /\ Register(s)
           \/ op = "message" /\ line = calls + 1 /\ Message(s)
           \/ op = "deregister" /\ Deregister(s)
  <2>1. calls \in Nat /\ calls < MaxCalls /\ MaxCalls \in Nat
    BY LogAssumption DEF Register, Message, Deregister, Push, TypeOK
  <2>2. calls + 1 \in Line /\ NoLine \in Line
    BY <2>1, LinesDiffer
  <2> QED
    BY <2>2 DEF Register, Message, Deregister
<1>2. PICK p : p = [op |-> op, src |-> s, line |-> line]
  OBVIOUS
<1>3. p \in Packet /\ p.op = op /\ p.src = s /\ p.line = line
  BY <1>2 DEF Packet
<1>4. ring \in Seq(Packet) /\ ring' = Append(ring, p)
      /\ UNCHANGED <<logFiles, disk, archive, mpc, failed>>
  BY <1>1, <1>2 DEF Push, TypeOK, fileVars, pcVars
<1>5. ASSUME mpc = "run", NEW t \in Sources \ failed
      PROVE  /\ logFiles'[t] \in {"none", "open"}
             /\ Becomes(t, ring', logFiles'[t], OnDisk(t)', FpRegistered(t)', expected'[t])
  <2>1. /\ logFiles[t] \in {"none", "open"}
        /\ Becomes(t, ring, logFiles[t], OnDisk(t), FpRegistered(t), expected[t])
    BY <1>5 DEF Promised
  <2>2. PICK f0, l0, f1, l1 :
          f0 = logFiles[t] /\ l0 = OnDisk(t) /\ f1 = FpRegistered(t) /\ l1 = expected[t]
    OBVIOUS
  <2>3. logFiles'[t] = f0 /\ OnDisk(t)' = l0
    BY <1>4, <2>2 DEF OnDisk
  <2>4. FpRegistered(t)' = FpAfter(f1, p, t)
    <3>1. CASE t # s
      BY <1>1, <1>3, <2>2, <3>1 DEF FpRegistered, FpAfter, Register, Message, Deregister
    <3>2. CASE t = s
      BY <1>1, <1>3, <2>2, <3>2 DEF FpRegistered, FpAfter, Register, Message, Deregister
    <3> QED
      BY <3>1, <3>2
  <2>5. expected'[t] = LinesAfter(f1, l1, p, t)
    <3> DEFINE more == IF op = "register" THEN OpenedLine ELSE line
               adds == \/ op = "message" /\ s \in registered
                       \/ op = "register" /\ s \notin registered
    <3>1. expected' = IF adds THEN [expected EXCEPT ![s] = Append(expected[s], more)] ELSE expected
      BY <1>1 DEF Register, Message, Deregister
    <3> HIDE DEF more, adds
    <3>2. expected'[t] = IF t = s /\ adds THEN Append(expected[t], more) ELSE expected[t]
      BY <3>1 DEF TypeOK
    <3>3. f1 = "open" <=> t \in registered
      BY <2>2 DEF FpRegistered
    <3> QED
      BY <1>3, <2>2, <3>2, <3>3 DEF LinesAfter, more, adds
  <2>6. Becomes(t, Append(ring, p), f0, l0, FpAfter(f1, p, t), LinesAfter(f1, l1, p, t))
    BY <1>3, <1>4, <2>1, <2>2, BecomesLonger
  <2> QED
    BY <1>4, <2>1, <2>2, <2>3, <2>4, <2>5, <2>6
<1> QED
  BY <1>4, <1>5 DEF Promised

\* a rotation that does not fail moves what is there
LEMMA RotationExact ==
  ASSUME TypeOK, NEW s \in Sources, NEW more \in Seq(Line), NEW begins \in Seq(Line),
         NEW content, NEW openings,
         \A o \in openings : o.exact => o.ok /\ o.begins = begins /\ o.fp = "open",
         content = disk[s] \o more, LogCompress(s, content, openings), s \notin failed'
  PROVE  logFiles'[s] = "open" /\ OnDisk(s)' = OnDisk(s) \o (more \o begins)
<1>1. PICK o \in openings,
           m \in {Moved(s, content), NotMoved(s, content), MovedOver(s, content)} :
        /\ archive' = [archive EXCEPT ![s] = m.archives]
        /\ disk' = [disk EXCEPT ![s] = IF o.ok THEN o.begins ELSE m.log]
        /\ logFiles' = [logFiles EXCEPT ![s] = o.fp]
        /\ Exactly(s, o.exact /\ m.exact)
  BY DEF LogCompress, Rotates
<1>2. o.exact /\ m.exact
  BY <1>1 DEF Exactly
<1>3. o.ok /\ o.begins = begins /\ o.fp = "open"
  BY <1>2
<1>4. m.archives = Append(archive[s], content)
  BY <1>2 DEF Moved, NotMoved, MovedOver
<1>5. logFiles'[s] = "open" /\ disk'[s] = begins /\ archive'[s] = Append(archive[s], content)
  BY <1>1, <1>3, <1>4 DEF TypeOK
<1>6. archive[s] \in Seq(Seq(Line)) /\ disk[s] \in Seq(Line)
  BY DEF TypeOK
<1>7. OnDisk(s)' = FlattenSeq(Append(archive[s], disk[s] \o more)) \o begins
  BY <1>5 DEF OnDisk
<1>8. OnDisk(s)' = OnDisk(s) \o (more \o begins)
  BY <1>6, <1>7, MovedOnDisk DEF OnDisk
<1> QED
  BY <1>5, <1>8

\* a packet is handled as it should, or an open, a write or a move has failed
LEMMA HandledExact ==
  ASSUME TypeOK, NEW s \in Sources, Handle(s), s \notin failed', logFiles[s] \in {"none", "open"}
  PROVE  /\ logFiles'[s] = FpAfter(logFiles[s], Head(ring), s)
         /\ OnDisk(s)' = LinesAfter(logFiles[s], OnDisk(s), Head(ring), s)
<1>1. ring # <<>>
  BY DEF Handle, WriteIgnored, WriteLine, WriteNotRotated, WriteRotates, RegisterSkips,
     RegisterOpens, RegisterRotates, RegisterNotRotated, DeregisterHandled, Pop
<1>2. PICK p, l, o : p = Head(ring) /\ l = p.line /\ o = OnDisk(s)
  OBVIOUS
<1>3. l \in Written /\ l \in Line /\ \A line \in Written : line # TornLine => line = l
  BY <1>1, <1>2, WrittenTyped DEF Written
<1>4. /\ o \in Seq(Line) /\ Append(o, l) = o \o <<l>> /\ <<l>> \in Seq(Line)
      /\ <<OpenedLine>> \in Seq(Line) /\ Append(o, OpenedLine) = o \o <<OpenedLine>>
      /\ disk[s] \in Seq(Line)
  <2>1. o \in Seq(Line)
    BY <1>2, OnDiskTyped
  <2>2. disk[s] \in Seq(Line) /\ OpenedLine \in Line
    BY LinesDiffer DEF TypeOK
  <2> QED
    BY <1>3, <2>1, <2>2
<1>5. CASE WriteIgnored(s)
  <2>1. p.op = "message" /\ logFiles[s] # "open" /\ UNCHANGED fileVars
    BY <1>2, <1>5 DEF WriteIgnored, Pop
  <2> QED
    BY <1>2, <2>1 DEF FpAfter, LinesAfter, OnDisk, fileVars
<1>6. CASE WriteLine(s)
  <2>1. p.op = "message" /\ p.src = s /\ logFiles[s] = "open"
    BY <1>2, <1>6 DEF WriteLine, Pop
  <2>2. Write(s, l)
    BY <1>3, <1>6 DEF WriteLine, Exactly
  <2>3. UNCHANGED logFiles /\ OnDisk(s)' = o \o <<l>>
    BY <1>1, <1>2, <1>3, <1>4, <2>2, WriteAdds, GrowingStays DEF Write
  <2> QED
    BY <1>2, <1>4, <2>1, <2>3 DEF FpAfter, LinesAfter
<1>7. CASE WriteNotRotated(s) \/ RegisterNotRotated(s)
  BY <1>7 DEF WriteNotRotated, RegisterNotRotated, Exactly
<1>8. CASE WriteRotates(s)
  <2>1. p.op = "message" /\ p.src = s /\ logFiles[s] = "open"
    BY <1>2, <1>8 DEF WriteRotates, Pop
  <2>2. PICK line \in Written, e \in BOOLEAN :
          /\ LogCompress(s, Append(disk[s], line), Reopenings(e))
          /\ e => line # TornLine
    BY <1>8 DEF WriteRotates
  <2>3. e
    <3>1. PICK x \in Reopenings(e) : x.exact
      <4>1. PICK x \in Reopenings(e), me \in BOOLEAN : Exactly(s, x.exact /\ me)
        BY <2>2 DEF LogCompress, Rotates, Moved, NotMoved, MovedOver
      <4> QED
        BY <4>1 DEF Exactly
    <3> QED
      BY <3>1, ReopeningsAre
  <2>4. line = l
    BY <1>3, <2>2, <2>3
  <2>5. PICK w, b : w = Append(disk[s], l) /\ b = <<>>
    OBVIOUS
  <2>6. w = disk[s] \o <<l>> /\ b \in Seq(Line) /\ <<l>> \o b = <<l>>
    BY <1>1, <1>3, <1>4, <2>5, WriteAdds
  <2>7. \A x \in Reopenings(e) : x.exact => x.ok /\ x.begins = b /\ x.fp = "open"
    BY <2>5, ReopeningsAre
  <2>9. PICK openings, more : openings = Reopenings(e) /\ more = <<l>>
    OBVIOUS
  <2>10. LogCompress(s, w, openings) /\ more \in Seq(Line) /\ w = disk[s] \o more
    BY <1>4, <2>2, <2>4, <2>5, <2>6, <2>9
  <2>11. \A x \in openings : x.exact => x.ok /\ x.begins = b /\ x.fp = "open"
    BY <2>7, <2>9
  <2>12. logFiles'[s] = "open" /\ OnDisk(s)' = OnDisk(s) \o (more \o b)
    BY <2>6, <2>10, <2>11, RotationExact
  <2>8. logFiles'[s] = "open" /\ OnDisk(s)' = o \o (<<l>> \o b)
    BY <1>2, <2>9, <2>12
  <2> QED
    BY <1>2, <1>4, <2>1, <2>6, <2>8 DEF FpAfter, LinesAfter
<1>9. CASE RegisterSkips(s)
  <2>1. p.op = "register" /\ p.src = s /\ logFiles[s] = "open" /\ UNCHANGED fileVars
    BY <1>2, <1>9 DEF RegisterSkips, Pop
  <2> QED
    BY <1>2, <2>1 DEF FpAfter, LinesAfter, OnDisk, fileVars
<1>10. CASE RegisterOpens(s)
  <2>1. p.op = "register" /\ p.src = s /\ logFiles[s] = "none" /\ archive' = archive
    BY <1>2, <1>10 DEF RegisterOpens, Pop
  <2>2. PICK x \in Registerings :
          /\ disk' = [disk EXCEPT ![s] = @ \o x.begins]
          /\ logFiles' = [logFiles EXCEPT ![s] = x.fp]
          /\ x.exact
    BY <1>10 DEF RegisterOpens, Exactly
  <2>3. x.begins = <<OpenedLine>> /\ x.fp = "open"
    BY <2>2, RegisteringsAre
  <2>4. logFiles'[s] = "open"
    BY <2>2, <2>3 DEF TypeOK
  <2>5. OnDisk(s)' = o \o <<OpenedLine>>
    BY <1>2, <1>4, <2>1, <2>2, <2>3, GrowingStays
  <2> QED
    BY <1>2, <1>4, <2>1, <2>4, <2>5 DEF FpAfter, LinesAfter
<1>11. CASE RegisterRotates(s)
  <2>1. p.op = "register" /\ p.src = s /\ logFiles[s] = "none"
        /\ LogCompress(s, disk[s], Registerings)
    BY <1>2, <1>11 DEF RegisterRotates, Pop
  <2>2. PICK b, n : b = <<OpenedLine>> /\ n = <<>>
    OBVIOUS
  <2>3. b \in Seq(Line) /\ n \in Seq(Line) /\ disk[s] = disk[s] \o n /\ n \o b = b
    BY <1>4, <2>2
  <2>4. \A x \in Registerings : x.exact => x.ok /\ x.begins = b /\ x.fp = "open"
    BY <2>2, RegisteringsAre
  <2>6. PICK openings, w : openings = Registerings /\ w = disk[s]
    OBVIOUS
  <2>7. LogCompress(s, w, openings) /\ w = disk[s] \o n
    BY <2>1, <2>3, <2>6
  <2>8. \A x \in openings : x.exact => x.ok /\ x.begins = b /\ x.fp = "open"
    BY <2>4, <2>6
  <2>9. b \in Seq(Line) /\ n \in Seq(Line)
    BY <2>3
  <2>5. logFiles'[s] = "open" /\ OnDisk(s)' = OnDisk(s) \o (n \o b)
    BY <2>7, <2>8, <2>9, RotationExact
  <2>10. OnDisk(s)' = o \o b
    BY <1>2, <2>3, <2>5
  <2> QED
    BY <1>2, <1>4, <2>1, <2>2, <2>5, <2>10 DEF FpAfter, LinesAfter
<1>12. CASE DeregisterHandled(s)
  <2>1. /\ p.op = "deregister" /\ p.src = s /\ UNCHANGED <<disk, archive>>
        /\ logFiles' = [logFiles EXCEPT ![s] = "none"]
    BY <1>2, <1>12 DEF DeregisterHandled, Pop
  <2>2. logFiles'[s] = "none"
    BY <2>1 DEF TypeOK
  <2> QED
    BY <1>2, <2>1, <2>2 DEF FpAfter, LinesAfter, OnDisk
<1> QED
  BY <1>5, <1>6, <1>7, <1>8, <1>9, <1>10, <1>11, <1>12 DEF Handle

\* what handling a packet leaves alone
LEMMA HandledOthers ==
  ASSUME TypeOK, NEW s \in Sources, Handle(s)
  PROVE  /\ ring # <<>> /\ Head(ring).src = s /\ ring' = Tail(ring)
         /\ UNCHANGED <<mpc, registered, expected>> /\ failed \subseteq failed'
         /\ \A t \in Sources \ {s} :
              logFiles'[t] = logFiles[t] /\ disk'[t] = disk[t] /\ archive'[t] = archive[t]
<1>1. /\ ring # <<>> /\ Head(ring).src = s /\ ring' = Tail(ring)
      /\ UNCHANGED <<mpc, registered, expected>>
  BY DEF Handle, WriteIgnored, WriteLine, WriteNotRotated, WriteRotates, RegisterSkips,
     RegisterOpens, RegisterRotates, RegisterNotRotated, DeregisterHandled, Pop, pcVars, callVars
<1>2. CASE WriteRotates(s) \/ RegisterRotates(s)
  <2>1. PICK content, openings : LogCompress(s, content, openings)
    BY <1>2 DEF WriteRotates, RegisterRotates
  <2>2. /\ failed \subseteq failed'
        /\ \E x : disk' = [disk EXCEPT ![s] = x]
        /\ \E x : archive' = [archive EXCEPT ![s] = x]
        /\ \E x : logFiles' = [logFiles EXCEPT ![s] = x]
    BY <2>1 DEF LogCompress, Rotates, Exactly
  <2> QED
    BY <1>1, <2>2 DEF TypeOK
<1>3. CASE WriteLine(s) \/ WriteNotRotated(s)
  <2>1. PICK line \in Written, e \in BOOLEAN : Write(s, line) /\ Exactly(s, e)
    BY <1>3 DEF WriteLine, WriteNotRotated
  <2> QED
    BY <1>1, <2>1 DEF Write, Exactly, TypeOK
<1>4. CASE RegisterOpens(s)
  <2>1. /\ failed \subseteq failed' /\ archive' = archive
        /\ \E x : disk' = [disk EXCEPT ![s] = x]
        /\ \E x : logFiles' = [logFiles EXCEPT ![s] = x]
    BY <1>4 DEF RegisterOpens, Exactly
  <2> QED
    BY <1>1, <2>1 DEF TypeOK
<1>5. CASE WriteIgnored(s) \/ RegisterSkips(s) \/ RegisterNotRotated(s) \/ DeregisterHandled(s)
  BY <1>1, <1>5 DEF WriteIgnored, RegisterSkips, RegisterNotRotated, DeregisterHandled, fileVars,
     TypeOK
<1> QED
  BY <1>2, <1>3, <1>4, <1>5 DEF Handle

LEMMA PromisedHandle ==
  ASSUME TypeOK, Promised, NEW s \in Sources, Handle(s)
  PROVE  Promised'
<1>1. PICK p : p = Head(ring)
  OBVIOUS
<1>2. /\ ring \in Seq(Packet) /\ ring # <<>> /\ p.src = s /\ ring' = Tail(ring)
      /\ UNCHANGED <<mpc, registered, expected>> /\ failed \subseteq failed'
  BY <1>1, HandledOthers DEF TypeOK
<1>3. ASSUME mpc = "run", NEW t \in Sources \ failed'
      PROVE  /\ logFiles'[t] \in {"none", "open"}
             /\ Becomes(t, ring', logFiles'[t], OnDisk(t)', FpRegistered(t)', expected'[t])
  <2>1. /\ logFiles[t] \in {"none", "open"}
        /\ Becomes(t, ring, logFiles[t], OnDisk(t), FpRegistered(t), expected[t])
    BY <1>2, <1>3 DEF Promised
  <2>2. PICK f0, l0, f1, l1 :
          f0 = logFiles[t] /\ l0 = OnDisk(t) /\ f1 = FpRegistered(t) /\ l1 = expected[t]
    OBVIOUS
  <2>3. FpRegistered(t)' = f1 /\ expected'[t] = l1
    BY <1>2, <2>2 DEF FpRegistered
  <2>4. logFiles'[t] = FpAfter(f0, p, t) /\ OnDisk(t)' = LinesAfter(f0, l0, p, t)
    <3>1. CASE t = s
      BY <1>1, <1>3, <2>1, <2>2, <3>1, HandledExact
    <3>2. CASE t # s
      <4>1. logFiles'[t] = logFiles[t] /\ disk'[t] = disk[t] /\ archive'[t] = archive[t]
        BY <3>2, HandledOthers
      <4> QED
        BY <1>2, <2>2, <3>2, <4>1 DEF FpAfter, LinesAfter, OnDisk
    <3> QED
      BY <3>1, <3>2
  <2>5. Becomes(t, Tail(ring), FpAfter(f0, p, t), LinesAfter(f0, l0, p, t), f1, l1)
    BY <1>1, <1>2, <2>1, <2>2, BecomesShorter
  <2>6. FpAfter(f0, p, t) \in {"none", "open"}
    BY <2>1, <2>2 DEF FpAfter
  <2> QED
    BY <1>2, <2>3, <2>4, <2>5, <2>6
<1> QED
  BY <1>2, <1>3 DEF Promised

LEMMA PromisedStep == TypeOK /\ Promised /\ [Next]_vars => Promised'
<1> SUFFICES ASSUME TypeOK, Promised, [Next]_vars PROVE Promised'
  OBVIOUS
<1>1. ASSUME UNCHANGED <<ring, logFiles, disk, archive, registered, expected, failed>>,
             mpc' = "run" => mpc = "run"
      PROVE  Promised'
  BY <1>1 DEF Promised, OnDisk, FpRegistered
<1>2. CASE CallDropped \/ LogWait \/ LogWaitFails \/ DrainAgain \/ CheckRunning \/ CheckFrees
           \/ CheckEnds \/ StopBegin \/ FreeAll \/ CloseThread \/ UNCHANGED vars
  <2>1. UNCHANGED <<ring, logFiles, disk, archive, registered, expected, failed>>
    BY <1>2 DEF CallDropped, LogWait, LogWaitFails, DrainAgain, CheckRunning, CheckFrees,
       CheckEnds, StopBegin, FreeAll, CloseThread, vars, ringVars, fileVars, callVars
  <2>2. mpc' = "run" => mpc = "run"
    BY <1>2 DEF CallDropped, LogWait, LogWaitFails, DrainAgain, CheckRunning, CheckFrees,
       CheckEnds, StopBegin, FreeAll, CloseThread, vars, pcVars
  <2> QED
    BY <1>1, <2>1, <2>2
<1>3. CASE CloseFiles
  BY <1>3 DEF CloseFiles, Promised
<1>4. ASSUME NEW t \in CompressThreads, CompressStep(t) PROVE Promised'
  <2>1. UNCHANGED <<ring, logFiles, disk, archive, registered, expected, failed, mpc>>
    BY <1>4 DEF CompressStep, CompressProc, CompressUnlocksContinue, ringVars, fileVars,
       callVars, pcVars
  <2> QED
    BY <1>1, <2>1
<1> QED
  BY <1>2, <1>3, <1>4, PromisedPush, PromisedHandle DEF Next, Call, LogStep, DeinitStep

LEMMA ExactWhenHandled == Promised => LogIsExact
<1> SUFFICES ASSUME Promised, ring = <<>>, mpc = "run", NEW s \in Sources \ failed
             PROVE  OnDisk(s) = expected[s]
  BY DEF LogIsExact
<1>1. Becomes(s, <<>>, logFiles[s], OnDisk(s), FpRegistered(s), expected[s])
  BY DEF Promised
<1> QED
  BY <1>1, BecomesNothing

\* Promised holds in every state, for any calls and any size of the ring.
THEOREM PromiseInvariant == Spec => [](TypeOK /\ Promised)
  BY TypeInit, TypeStep, PromisedInit, PromisedStep, PTL DEF Spec

\* LogIsExact holds in every state, for every threshold, any size of the ring and any
\* number of sources and calls: when the ring is empty the archives and the log of a
\* source hold the lines its calls have asked for, in their order, unless an open, a
\* write or a move of its files has failed.
THEOREM LogsAreExact == Spec => []LogIsExact
  BY PromiseInvariant, ExactWhenHandled, PTL
=============================================================================
