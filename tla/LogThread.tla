------------------------------ MODULE LogThread ------------------------------
(***************************************************************************)
(* The log thread of log.c: a table of open log files, one for each source *)
(* that has registered, and the files on disk behind it.                   *)
(*                                                                         *)
(* Threads push the registration of a source, lines for its log and its    *)
(* deregistration into the ring; the log thread pops and handles them.     *)
(* When a log has reached the threshold it is moved to log/archive/, a     *)
(* compress thread is started on the archive and a new log is opened.      *)
(* Threads that have ended are collected after every round of the loop;    *)
(* log_deinit waits for the others.                                        *)
(*                                                                         *)
(* The ring is a queue here (RingBuf) and a call pushes and triggers in    *)
(* one step (WorkerThread has what happens in between). A line is the      *)
(* number of the call that logged it, and its length is one, as is that of *)
(* the line by which a log says that it was opened. Any open or write may  *)
(* fail. The move of a full log may fail, or fall within the same second   *)
(* as the move before it, which gives both archives the same name. xz      *)
(* keeps the contents of an archive.                                       *)
(***************************************************************************)
EXTENDS Naturals, Sequences, FiniteSets, SequencesExt

CONSTANTS
  Sources,      \* the ids a log is kept for
  RingSize,     \* packets the ring holds
  Threshold,    \* EQP_LOG_COMPRESS_THRESHOLD, in lines
  MaxCalls,     \* bound: calls of log_register, log_msg and log_deregister
  MaxCompress   \* bound: compress threads made in one behaviour

ASSUME LogAssumption ==
  /\ RingSize \in Nat \ {0} /\ Threshold \in Nat \ {0}
  /\ MaxCalls \in Nat /\ MaxCompress \in Nat

CompressThreads == 1 .. MaxCompress
OldLine == 0                 \* a line from before the program was started
NoLine  == 0                 \* the packet has no data
OpenedLine == MaxCalls + 1   \* "== Opened log file =="
TornLine   == MaxCalls + 2   \* what a failed write leaves of a line, if anything
Line    == 0 .. MaxCalls + 2

VARIABLES
  ring, sem, stopping,       \* of the LogThread struct
  logFiles,                  \* its table: "none", "closed" (fp is NULL), "open"
  size,                      \* the LogFile's size; 0 without one
  disk,                      \* the contents of log/<source>.log
  archive,                   \* the files moved to log/archive/, oldest first
  active,                    \* activeCompressThreads
  heap,                      \* compress threads whose Thread struct is allocated
  lifetime,                  \* mtxLifetime of each of them is set
  proc,                      \* where each of them is in its life
  lpc, li,                   \* the log thread, and its index into active
  mpc, mi,                   \* the thread that calls log_deinit, and its index
  calls,                     \* calls so far
  (* History, read by no guard. *)
  registered,                \* sources whose last accepted call leaves a log open
  expected,                  \* lines the logs should have when all is handled
  failed                     \* sources of which an open, a write or a move failed,
                             \* or two moves had the same name

ringVars     == <<ring, sem, stopping>>
fileVars     == <<logFiles, size, disk, archive>>
compressVars == <<active, heap, lifetime, proc>>
callVars     == <<calls, registered, expected>>
pcVars       == <<lpc, li, mpc, mi>>
vars == <<ringVars, fileVars, compressVars, pcVars, callVars, failed>>

\* a log of an earlier run may be there, and be due for a rotation
OldLogs == {[i \in 1 .. n |-> OldLine] : n \in 0 .. Threshold}

Init ==
  /\ ring = <<>> /\ sem = 0 /\ stopping = FALSE
  /\ logFiles = [s \in Sources |-> "none"]
  /\ size = [s \in Sources |-> 0]
  /\ disk \in [Sources -> OldLogs]
  /\ archive = [s \in Sources |-> <<>>]
  /\ active = <<>> /\ heap = {}
  /\ lifetime = [t \in CompressThreads |-> FALSE]
  /\ proc = [t \in CompressThreads |-> "none"]
  /\ lpc = "wait" /\ li = 1 /\ mpc = "run" /\ mi = 1
  /\ calls = 0 /\ registered = {} /\ expected = disk /\ failed = {}

-----------------------------------------------------------------------------
(* log_register, log_msg and log_deregister, by any thread *)

Push(op, s, line) ==
  /\ ~ stopping /\ calls < MaxCalls
  /\ Len(ring) < RingSize
  /\ calls' = calls + 1
  /\ ring' = Append(ring, [op |-> op, src |-> s, line |-> line])
  /\ sem' = sem + 1
  /\ UNCHANGED <<stopping, fileVars, compressVars, pcVars, failed>>

Register(s) ==
  /\ Push("register", s, NoLine)
  /\ registered' = registered \cup {s}
  /\ expected' = IF s \in registered
                 THEN expected ELSE [expected EXCEPT ![s] = Append(@, OpenedLine)]

Message(s) ==
  /\ Push("message", s, calls + 1)
  /\ expected' = IF s \in registered
                 THEN [expected EXCEPT ![s] = Append(@, calls + 1)] ELSE expected
  /\ UNCHANGED registered

Deregister(s) ==
  /\ Push("deregister", s, NoLine)
  /\ registered' = registered \ {s}
  /\ UNCHANGED expected

\* the ring is full: the caller of log_msg is not told that its line is dropped
CallDropped ==
  /\ ~ stopping /\ calls < MaxCalls
  /\ Len(ring) = RingSize
  /\ calls' = calls + 1
  /\ UNCHANGED <<ringVars, fileVars, compressVars, pcVars, registered, expected, failed>>

-----------------------------------------------------------------------------
(* log_compress: the content moves to the archive, a thread is started on it *)

NewThread == Cardinality({t \in CompressThreads : proc[t] # "none"}) + 1

Started == <<"running", TRUE>>
NotCreated == <<"failed", FALSE>>
\* thread_start has no memory: the Thread it was given is left uninitialized
NotInitialized == {<<"uninitialized", FALSE>>, <<"uninitialized", TRUE>>}

\* the result of thread_start is not looked at
StartCompress ==
  /\ NewThread \in CompressThreads
  /\ active' = Append(active, NewThread)
  /\ heap' = heap \cup {NewThread}
  /\ \E r \in {Started, NotCreated} \cup NotInitialized :
       /\ proc' = [proc EXCEPT ![NewThread] = r[1]]
       /\ lifetime' = [lifetime EXCEPT ![NewThread] = r[2]]

\* What the mv, whose result is not looked at, makes of the log and the archives of s.
\* It may fail; and the archive of the same second, if it was not compressed yet, has
\* the same name.
Moved(s, content) ==
  [archives |-> Append(archive[s], content), log |-> <<>>, exact |-> TRUE]
NotMoved(s, content) ==
  [archives |-> archive[s], log |-> content, exact |-> FALSE]
MovedOver(s, content) ==
  [archives |-> IF archive[s] = <<>> THEN <<content>> ELSE Append(Front(archive[s]), content),
   log |-> <<>>, exact |-> FALSE]

\* What a log begins with that was opened, the entry it has then, and whether all that
\* was asked for has been done; and the same if it cannot be opened.
Opened(begins, fp, exact) == [ok |-> TRUE, begins |-> begins, fp |-> fp, exact |-> exact]
NotOpened(fp) == [ok |-> FALSE, begins |-> <<>>, fp |-> fp, exact |-> FALSE]

Exactly(s, exact) == failed' = IF exact THEN failed ELSE failed \cup {s}

\* mutant: the log is opened anew without having been moved
LogCompressNoMove(s, content, openings) ==
  /\ StartCompress \/ UNCHANGED compressVars
  /\ \E o \in openings :
       /\ disk' = [disk EXCEPT ![s] = o.begins]
       /\ logFiles' = [logFiles EXCEPT ![s] = o.fp]
       /\ Exactly(s, o.exact)
  /\ size' = [size EXCEPT ![s] = 0]
  /\ UNCHANGED archive

\* No thread is started if there is no memory for it or for the array; the new log is
\* opened with "w+", and in a log that cannot be opened stays what was not moved.
Rotates(s, content, openings) ==
  /\ StartCompress \/ UNCHANGED compressVars
  /\ \E o \in openings,
        m \in {Moved(s, content), NotMoved(s, content), MovedOver(s, content)} :
       /\ archive' = [archive EXCEPT ![s] = m.archives]
       /\ disk' = [disk EXCEPT ![s] = IF o.ok THEN o.begins ELSE m.log]
       /\ logFiles' = [logFiles EXCEPT ![s] = o.fp]
       /\ Exactly(s, o.exact /\ m.exact)

\* mutant: the size of the old log is kept for the new one
LogCompressKeepsSize(s, content, openings) ==
  /\ Rotates(s, content, openings)
  /\ size' = [size EXCEPT ![s] = Len(content)]

LogCompress(s, content, openings) ==
  /\ Rotates(s, content, openings)
  /\ size' = [size EXCEPT ![s] = 0]

-----------------------------------------------------------------------------
(* The log thread *)

LogGoto(from, to) == lpc = from /\ lpc' = to

\* mutant: does not wait for the semaphore
LogWaitUnchecked ==
  /\ LogGoto("wait", "drain")
  /\ sem' = sem - 1
  /\ UNCHANGED <<ring, stopping, fileVars, compressVars, li, mpc, mi, callVars, failed>>

LogWait ==
  /\ LogGoto("wait", "drain")
  /\ sem > 0 /\ sem' = sem - 1
  /\ UNCHANGED <<ring, stopping, fileVars, compressVars, li, mpc, mi, callVars, failed>>

LogWaitFails ==
  /\ LogGoto("wait", "exited")
  /\ UNCHANGED <<ringVars, fileVars, compressVars, li, mpc, mi, callVars, failed>>

Pop(op, s) ==
  /\ lpc = "drain" /\ ring # <<>>
  /\ Head(ring).op = op /\ Head(ring).src = s
  /\ ring' = Tail(ring)
  /\ UNCHANGED <<sem, stopping, pcVars, callVars>>

\* what fwrite, fputc and fflush, whose results are not looked at, add to the log
Written == {Head(ring).line, TornLine}

Reopenings(exact) == {Opened(<<>>, "open", exact), NotOpened("closed")}

\* log_write_msg: there is no open log for the source
WriteIgnored(s) ==
  /\ Pop("message", s)
  /\ logFiles[s] # "open"
  /\ UNCHANGED <<fileVars, compressVars, failed>>

\* the size grows by the length of the line, whether it was written or not
Write(s, line) ==
  /\ disk' = [disk EXCEPT ![s] = Append(@, line)]
  /\ size' = [size EXCEPT ![s] = @ + 1]
  /\ UNCHANGED <<logFiles, archive, compressVars>>

WriteLine(s) ==
  /\ Pop("message", s)
  /\ logFiles[s] = "open" /\ size[s] + 1 < Threshold
  /\ \E line \in Written : Write(s, line) /\ Exactly(s, line # TornLine)

\* log_compress gives up before it has moved anything
WriteNotRotated(s) ==
  /\ Pop("message", s)
  /\ logFiles[s] = "open" /\ size[s] + 1 >= Threshold
  /\ \E line \in Written : Write(s, line) /\ Exactly(s, FALSE)

WriteRotates(s) ==
  /\ Pop("message", s)
  /\ logFiles[s] = "open" /\ size[s] + 1 >= Threshold
  /\ \E line \in Written :
       LogCompress(s, Append(disk[s], line), Reopenings(line # TornLine))

\* log_register_impl: the table has an entry, whether its file is open or not
RegisterSkips(s) ==
  /\ Pop("register", s)
  /\ logFiles[s] # "none"
  /\ UNCHANGED <<fileVars, compressVars, failed>>

\* A log that was opened is entered, if the table has memory for it, and then the line
\* is written that says so, if the time can be had. It is not counted in the entry.
Registerings ==
  {Opened(<<OpenedLine>>, "open", TRUE), Opened(<<TornLine>>, "open", FALSE),
   Opened(<<OpenedLine>>, "none", FALSE), Opened(<<TornLine>>, "none", FALSE),
   NotOpened("none")}

\* the size is 0 for a file that can be appended to and cannot be read
RegisterOpens(s) ==
  /\ Pop("register", s)
  /\ logFiles[s] = "none"
  /\ \E measured \in {Len(disk[s]), 0}, o \in Registerings :
       /\ measured < Threshold
       /\ disk' = [disk EXCEPT ![s] = @ \o o.begins]
       /\ logFiles' = [logFiles EXCEPT ![s] = o.fp]
       /\ size' = [size EXCEPT ![s] = IF o.fp = "open" THEN measured ELSE @]
       /\ Exactly(s, o.exact /\ measured = Len(disk[s]))
  /\ UNCHANGED <<archive, compressVars>>

\* the log left by an earlier run is moved away first
RegisterRotates(s) ==
  /\ Pop("register", s)
  /\ logFiles[s] = "none" /\ Len(disk[s]) >= Threshold
  /\ LogCompress(s, disk[s], Registerings)

RegisterNotRotated(s) ==
  /\ Pop("register", s)
  /\ logFiles[s] = "none" /\ Len(disk[s]) >= Threshold
  /\ failed' = failed \cup {s}
  /\ UNCHANGED <<fileVars, compressVars>>

\* mutant: closes the file and leaves its entry in the table
DeregisterKeepsEntry(s) ==
  /\ Pop("deregister", s)
  /\ logFiles' = [logFiles EXCEPT ![s] = IF @ = "none" THEN "none" ELSE "closed"]
  /\ UNCHANGED <<size, disk, archive, compressVars, failed>>

\* log_deregister_impl
DeregisterHandled(s) ==
  /\ Pop("deregister", s)
  /\ logFiles' = [logFiles EXCEPT ![s] = "none"]
  /\ size' = [size EXCEPT ![s] = 0]
  /\ UNCHANGED <<disk, archive, compressVars, failed>>

DrainAgain ==
  /\ LogGoto("drain", "check")
  /\ ring = <<>>
  /\ UNCHANGED <<ringVars, fileVars, compressVars, li, mpc, mi, callVars, failed>>

(* log_check_threads *)

Checked == active[li]
SwapAndPop(seq, i) == SubSeq([seq EXCEPT ![i] = seq[Len(seq)]], 1, Len(seq) - 1)

CheckRunning ==
  /\ lpc = "check" /\ li <= Len(active)
  /\ lifetime[Checked]
  /\ li' = li + 1
  /\ UNCHANGED <<ringVars, fileVars, compressVars, lpc, mpc, mi, callVars, failed>>

\* mutant: leaves the pointer in the array
CheckFreesOnly ==
  /\ lpc = "check" /\ li <= Len(active)
  /\ ~ lifetime[Checked]
  /\ heap' = heap \ {Checked}
  /\ li' = li + 1
  /\ UNCHANGED <<ringVars, fileVars, active, lifetime, proc, lpc, mpc, mi, callVars, failed>>

CheckFrees ==
  /\ lpc = "check" /\ li <= Len(active)
  /\ ~ lifetime[Checked]
  /\ heap' = heap \ {Checked}
  /\ active' = SwapAndPop(active, li)
  /\ UNCHANGED <<ringVars, fileVars, lifetime, proc, pcVars, callVars, failed>>

CheckEnds ==
  /\ lpc = "check" /\ li > Len(active)
  /\ lpc' = IF stopping THEN "exited" ELSE "wait"
  /\ li' = 1
  /\ UNCHANGED <<ringVars, fileVars, compressVars, mpc, mi, callVars, failed>>

-----------------------------------------------------------------------------
(* A compress thread: log_compress_proc in thread_proc_wrapper *)

\* runs xz, frees the name and unlocks mtxLifetime
CompressProc(t) ==
  /\ proc[t] = "running"
  /\ proc' = [proc EXCEPT ![t] = "exiting"]
  /\ lifetime' = [lifetime EXCEPT ![t] = FALSE]
  /\ UNCHANGED <<ringVars, fileVars, active, heap, pcVars, callVars, failed>>

CompressUnlocksContinue(t) ==
  /\ proc[t] = "exiting"
  /\ proc' = [proc EXCEPT ![t] = "ended"]
  /\ UNCHANGED <<ringVars, fileVars, active, heap, lifetime, pcVars, callVars, failed>>

-----------------------------------------------------------------------------
(* log_deinit *)

\* mutant: the stop signal does not wake the thread
StopSilent ==
  /\ mpc = "run" /\ mpc' = "stop"
  /\ stopping' = TRUE
  /\ UNCHANGED <<ring, sem, fileVars, compressVars, lpc, li, mi, callVars, failed>>

StopBegin ==
  /\ mpc = "run" /\ mpc' = "stop"
  /\ stopping' = TRUE /\ sem' = sem + 1
  /\ UNCHANGED <<ring, fileVars, compressVars, lpc, li, mi, callVars, failed>>

\* the thread has stopped: every file is closed
CloseFiles ==
  /\ mpc = "stop" /\ mpc' = "threads"
  /\ lpc = "exited"
  /\ logFiles' = [s \in Sources |-> "none"] /\ size' = [s \in Sources |-> 0]
  /\ UNCHANGED <<ringVars, disk, archive, compressVars, lpc, li, mi, callVars, failed>>

\* waits until a compress thread has stopped and frees its Thread
CloseThread ==
  /\ mpc = "threads" /\ mi <= Len(active)
  /\ ~ lifetime[active[mi]]
  /\ heap' = heap \ {active[mi]}
  /\ mi' = mi + 1
  /\ UNCHANGED <<ringVars, fileVars, active, lifetime, proc, lpc, li, mpc, callVars, failed>>

FreeAll ==
  /\ mpc = "threads" /\ mpc' = "end"
  /\ mi > Len(active)
  /\ UNCHANGED <<ringVars, fileVars, compressVars, lpc, li, mi, callVars, failed>>

-----------------------------------------------------------------------------
Call == CallDropped \/ \E s \in Sources : Register(s) \/ Message(s) \/ Deregister(s)

Handle(s) ==
  \/ WriteIgnored(s) \/ WriteLine(s) \/ WriteNotRotated(s) \/ WriteRotates(s)
  \/ RegisterSkips(s) \/ RegisterOpens(s) \/ RegisterRotates(s) \/ RegisterNotRotated(s)
  \/ DeregisterHandled(s)

LogStep ==
  \/ LogWait \/ (\E s \in Sources : Handle(s)) \/ DrainAgain
  \/ CheckRunning \/ CheckFrees \/ CheckEnds

CompressStep(t) == CompressProc(t) \/ CompressUnlocksContinue(t)

DeinitStep == CloseFiles \/ CloseThread \/ FreeAll

Next ==
  \/ Call
  \/ LogStep \/ LogWaitFails
  \/ \E t \in CompressThreads : CompressStep(t)
  \/ StopBegin \/ DeinitStep

Spec == Init /\ [][Next]_vars

\* The scheduler runs the log thread, the compress threads (xz ends) and
\* log_deinit once it was called; nobody is obliged to call anything.
FairSpec ==
  /\ Spec
  /\ WF_vars(LogStep)
  /\ \A t \in CompressThreads : WF_vars(CompressStep(t))
  /\ WF_vars(DeinitStep)

-----------------------------------------------------------------------------
Packet == [op : {"register", "message", "deregister"}, src : Sources, line : Line]

TypeOK ==
  /\ ring \in Seq(Packet) /\ sem \in Nat /\ stopping \in BOOLEAN
  /\ logFiles \in [Sources -> {"none", "closed", "open"}]
  /\ size \in [Sources -> Nat]
  /\ disk \in [Sources -> Seq(Line)] /\ archive \in [Sources -> Seq(Seq(Line))]
  /\ active \in Seq(CompressThreads) /\ heap \subseteq CompressThreads
  /\ lifetime \in [CompressThreads -> BOOLEAN]
  /\ proc \in [CompressThreads -> {"none", "running", "exiting", "ended",
                                   "failed", "uninitialized"}]
  /\ lpc \in {"wait", "drain", "check", "exited"} /\ li \in Nat \ {0}
  /\ mpc \in {"run", "stop", "threads", "end"} /\ mi \in Nat \ {0}
  /\ calls \in 0 .. MaxCalls
  /\ registered \subseteq Sources /\ failed \subseteq Sources
  /\ expected \in [Sources -> Seq(Line)]

OnDisk(s) == FlattenSeq(archive[s]) \o disk[s]

(* A log is exact: once everything is handled, the archives of a source and its log
   hold, in the order of the calls, the lines that were logged between its
   registrations and deregistrations, and one for each time it was opened, however
   often it was rotated, unless an open, a write or a move of its files has failed. *)
LogIsExact ==
  (ring = <<>> /\ mpc = "run") => \A s \in Sources \ failed : OnDisk(s) = expected[s]

(* No log outgrows the threshold: the size the log thread keeps for an open log stays
   below it, and falls short of that of the file by no more than the line that says
   that it was opened, through any registrations and rotations, unless an open, a
   write or a move of its files has failed. *)
RotatedInTime ==
  \A s \in Sources \ failed :
    logFiles[s] = "open" => size[s] < Threshold /\ Len(disk[s]) \in {size[s], size[s] + 1}

(* A Thread is allocated for as long as it is in activeCompressThreads, where it is
   once: it is freed exactly once, by the log thread or by log_deinit, and not before
   its procedure has ended. *)
ThreadsOwned ==
  LET left == SubSeq(active, mi, Len(active)) IN
  /\ heap = ToSet(left)
  /\ Cardinality(ToSet(left)) = Len(left)
  /\ \A t \in CompressThreads : proc[t] = "running" => t \in heap

(* What has reached the disk stays there, in its place. A rotation loses nothing but
   what it moves, if the mv fails, or the archive before, if that has the same name:
   older archives are safe, whatever fails. In place of a lost log is a new one. *)
LinesStay ==
  [][\A s \in Sources :
       \/ IsPrefix(OnDisk(s), OnDisk(s)')
       \/ /\ s \in failed'
          /\ Len(disk'[s]) <= 1
          /\ archive[s] # <<>> => IsPrefix(Front(archive[s]), archive'[s])]_vars

(* log_deinit returns, unless it waits for a thread whose flags were never
   initialized. *)
DeinitReturns ==
  stopping ~> mpc = "end" \/ \E t \in CompressThreads : proc[t] = "uninitialized"
=============================================================================
