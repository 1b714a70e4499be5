----------------------------- MODULE WorkerThread -----------------------------
(***************************************************************************)
(* A worker thread, the ring it reads and the owner that starts and stops  *)
(* it: the pattern of eqp_thread_common.c and eqp_thread_posix.c that the  *)
(* log thread and the database thread share.                               *)
(*                                                                         *)
(* Threads push packets into the ring and then post the semaphore; the     *)
(* worker waits on the semaphore, pops until the ring answers ERR_Again    *)
(* and looks whether it should stop.  Two atomic flags used as mutexes     *)
(* carry the rest: mtxLifetime is set for as long as the worker runs,      *)
(* mtxShouldContinue until its owner tells it to stop.  When the worker    *)
(* has stopped, the owner frees the ring and the Thread that holds the     *)
(* semaphore and the two flags.                                            *)
(*                                                                         *)
(* The ring is the queue of RingQueue, which RingBuf implements.           *)
(***************************************************************************)
EXTENDS Naturals, Sequences, FiniteSets

CONSTANTS
  Owner,       \* the thread that starts and stops the worker, and pushes
  Others,      \* the other threads that push; they end before the owner stops
  Worker,      \* the worker itself
  Capacity,    \* packets the ring holds
  SemMax,      \* SEM_VALUE_MAX
  MaxPushes    \* bound: packets pushed in one behaviour

Pushers == Others \cup {Owner}

ASSUME WorkerAssumption ==
  /\ Owner \notin Others /\ Worker \notin Pushers
  /\ Capacity \in Nat /\ SemMax \in Nat \ {0} /\ MaxPushes \in Nat

NoPacket == 0
Packet   == 1 .. MaxPushes

VARIABLES
  ring, holding, got,   \* the ring, as in RingQueue
  sem,                  \* the value of the semaphore
  lifetime,             \* mtxLifetime is set
  shouldContinue,       \* mtxShouldContinue is set
  memory,               \* of the Thread and the ring: "none", "live", "freed"
  ppc,                  \* where each pusher is in its push
  opc,                  \* where the owner is in the life of the worker
  wpc,                  \* where the worker is
  handled,              \* packets the worker has handled
  pushes                \* packets pushed so far

ringVars  == <<ring, holding, got>>
mutexVars == <<lifetime, shouldContinue>>
vars == <<ringVars, sem, mutexVars, memory, ppc, opc, wpc, handled, pushes>>

Ring == INSTANCE RingQueue WITH
  Threads <- Pushers \cup {Worker}, queue <- ring

Init ==
  /\ Ring!Init
  /\ sem = 0 /\ lifetime = FALSE /\ shouldContinue = FALSE
  /\ memory = "none"
  /\ ppc = [t \in Pushers |-> "idle"]
  /\ opc = "init" /\ wpc = "none"
  /\ handled = {} /\ pushes = 0

OwnerGoto(from, to)   == opc = from /\ opc' = to
WorkerGoto(from, to)  == wpc = from /\ wpc' = to
PusherGoto(t, from, to) == ppc[t] = from /\ ppc' = [ppc EXCEPT ![t] = to]

-----------------------------------------------------------------------------
(* thread_start *)

StartOk ==
  /\ OwnerGoto("init", "running")
  /\ memory' = "live"
  /\ lifetime' = TRUE /\ shouldContinue' = TRUE
  /\ WorkerGoto("none", "start")
  /\ UNCHANGED <<ringVars, sem, ppc, handled, pushes>>

\* pthread_create fails: the flags are cleared again and the program gives up
StartFails ==
  /\ OwnerGoto("init", "failed")
  /\ memory' = "live"
  /\ UNCHANGED <<ringVars, sem, mutexVars, ppc, wpc, handled, pushes>>

-----------------------------------------------------------------------------
(* A push: ringbuf_push, then thread_trigger *)

PushTakesPlace(t) ==
  /\ opc = "running"
  /\ pushes < MaxPushes
  /\ PusherGoto(t, "idle", "writing")
  /\ Ring!TakePlace(t, pushes + 1)
  /\ pushes' = pushes + 1
  /\ UNCHANGED <<sem, mutexVars, memory, opc, wpc, handled>>

PushPublishes(t) ==
  /\ PusherGoto(t, "writing", "advancing")
  /\ Ring!Publish(t)
  /\ UNCHANGED <<sem, mutexVars, memory, opc, wpc, handled, pushes>>

PushReturns(t) ==
  /\ PusherGoto(t, "advancing", "trigger")
  /\ UNCHANGED <<ringVars, sem, mutexVars, memory, opc, wpc, handled, pushes>>

\* sem_post fails once the semaphore has its largest value
SemPost == sem' = IF sem < SemMax THEN sem + 1 ELSE sem

\* mutant: the push does not trigger the thread
TriggerForgotten(t) ==
  /\ PusherGoto(t, "trigger", "idle")
  /\ UNCHANGED <<ringVars, sem, mutexVars, memory, opc, wpc, handled, pushes>>

Trigger(t) ==
  /\ PusherGoto(t, "trigger", "idle")
  /\ SemPost
  /\ UNCHANGED <<ringVars, mutexVars, memory, opc, wpc, handled, pushes>>

\* a pusher other than the owner ends
PusherEnds(t) ==
  /\ t \in Others
  /\ opc = "running"
  /\ PusherGoto(t, "idle", "ended")
  /\ UNCHANGED <<ringVars, sem, mutexVars, memory, opc, wpc, handled, pushes>>

-----------------------------------------------------------------------------
(* The worker: thread_proc_wrapper around the loop of log_thread_proc *)

WorkerStart ==
  /\ \/ WorkerGoto("start", "wait")
     \/ WorkerGoto("start", "exitLifetime")      \* tls_init_thread fails
  /\ UNCHANGED <<ringVars, sem, mutexVars, memory, ppc, opc, handled, pushes>>

\* mutant: does not wait for the semaphore
WaitWithoutCount ==
  /\ WorkerGoto("wait", "drain")
  /\ sem' = sem - 1
  /\ UNCHANGED <<ringVars, mutexVars, memory, ppc, opc, handled, pushes>>

WaitOk ==
  /\ WorkerGoto("wait", "drain")
  /\ sem > 0
  /\ sem' = sem - 1
  /\ UNCHANGED <<ringVars, mutexVars, memory, ppc, opc, handled, pushes>>

\* sem_wait returns an error: the loop ends
WaitFails ==
  /\ WorkerGoto("wait", "exitLifetime")
  /\ UNCHANGED <<ringVars, sem, mutexVars, memory, ppc, opc, handled, pushes>>

\* mutant: one packet for each time the semaphore is obtained
PopAndHandleOne ==
  /\ WorkerGoto("drain", "check")
  /\ Ring!Obtain(Worker)
  /\ handled' = handled \cup {Head(ring)}
  /\ UNCHANGED <<sem, mutexVars, memory, ppc, opc, pushes>>

PopAndHandle ==
  /\ wpc = "drain"
  /\ Ring!Obtain(Worker)
  /\ handled' = handled \cup {Head(ring)}
  /\ UNCHANGED <<sem, mutexVars, memory, ppc, opc, wpc, pushes>>

\* ERR_Again: the ring is empty or a push is still under way
PopAgain ==
  /\ WorkerGoto("drain", "check")
  /\ ring = <<>> \/ \E t \in Pushers : ppc[t] \in {"writing", "advancing"}
  /\ UNCHANGED <<ringVars, sem, mutexVars, memory, ppc, opc, handled, pushes>>

\* thread_should_stop: the try-lock of mtxShouldContinue fails
CheckGoesOn ==
  /\ WorkerGoto("check", "wait")
  /\ shouldContinue
  /\ UNCHANGED <<ringVars, sem, mutexVars, memory, ppc, opc, handled, pushes>>

CheckStops ==
  /\ WorkerGoto("check", "checkUnlock")
  /\ ~ shouldContinue
  /\ shouldContinue' = TRUE
  /\ UNCHANGED <<ringVars, sem, lifetime, memory, ppc, opc, handled, pushes>>

CheckUnlocks ==
  /\ WorkerGoto("checkUnlock", "exitLifetime")
  /\ shouldContinue' = FALSE
  /\ UNCHANGED <<ringVars, sem, lifetime, memory, ppc, opc, handled, pushes>>

ExitUnlocksLifetime ==
  /\ WorkerGoto("exitLifetime", "exitContinue")
  /\ lifetime' = FALSE
  /\ UNCHANGED <<ringVars, sem, shouldContinue, memory, ppc, opc, handled, pushes>>

ExitUnlocksContinue ==
  /\ WorkerGoto("exitContinue", "done")
  /\ shouldContinue' = FALSE
  /\ UNCHANGED <<ringVars, sem, lifetime, memory, ppc, opc, handled, pushes>>

-----------------------------------------------------------------------------
(* The owner: thread_stop_all_in_one, then freeing as log_deinit does *)

\* thread_is_running: the try-lock of mtxLifetime
StopIfRunning ==
  /\ \A t \in Others : ppc[t] = "ended"
  /\ ppc[Owner] = "idle"
  /\ \/ /\ lifetime
        /\ OwnerGoto("running", "signal")
        /\ UNCHANGED lifetime
     \/ /\ ~ lifetime
        /\ OwnerGoto("running", "notRunning")
        /\ lifetime' = TRUE
  /\ UNCHANGED <<ringVars, sem, shouldContinue, memory, ppc, wpc, handled, pushes>>

NotRunningUnlocks ==
  /\ OwnerGoto("notRunning", "free")
  /\ lifetime' = FALSE
  /\ UNCHANGED <<ringVars, sem, shouldContinue, memory, ppc, wpc, handled, pushes>>

SignalUnlocks ==
  /\ OwnerGoto("signal", "post")
  /\ shouldContinue' = FALSE
  /\ UNCHANGED <<ringVars, sem, lifetime, memory, ppc, wpc, handled, pushes>>

\* mutant: the stop signal does not wake the thread
SignalSilent ==
  /\ OwnerGoto("post", "poll")
  /\ UNCHANGED <<ringVars, sem, mutexVars, memory, ppc, wpc, handled, pushes>>

\* thread_wait_until_stopped is skipped if sem_post fails
SignalPosts ==
  /\ \/ sem < SemMax /\ OwnerGoto("post", "poll")
     \/ sem = SemMax /\ OwnerGoto("post", "free")
  /\ SemPost
  /\ UNCHANGED <<ringVars, mutexVars, memory, ppc, wpc, handled, pushes>>

\* mutant: does not wait until the try-lock succeeds
PollUnchecked ==
  /\ OwnerGoto("poll", "pollUnlock")
  /\ UNCHANGED <<ringVars, sem, mutexVars, memory, ppc, wpc, handled, pushes>>

\* thread_wait_until_stopped: the try-lock of mtxLifetime succeeds; while it
\* fails the owner sleeps and tries again
PollLocks ==
  /\ OwnerGoto("poll", "pollUnlock")
  /\ ~ lifetime
  /\ lifetime' = TRUE
  /\ UNCHANGED <<ringVars, sem, shouldContinue, memory, ppc, wpc, handled, pushes>>

PollUnlocks ==
  /\ OwnerGoto("pollUnlock", "free")
  /\ lifetime' = FALSE
  /\ UNCHANGED <<ringVars, sem, shouldContinue, memory, ppc, wpc, handled, pushes>>

FreeAll ==
  /\ OwnerGoto("free", "end")
  /\ memory' = "freed"
  /\ UNCHANGED <<ringVars, sem, mutexVars, ppc, wpc, handled, pushes>>

-----------------------------------------------------------------------------
PushStep(t) == PushPublishes(t) \/ PushReturns(t) \/ Trigger(t)

WorkerProgress ==
  \/ WorkerStart \/ WaitOk \/ PopAndHandle \/ PopAgain
  \/ CheckGoesOn \/ CheckStops \/ CheckUnlocks
  \/ ExitUnlocksLifetime \/ ExitUnlocksContinue

WorkerStep == WorkerProgress \/ WaitFails

StopStep ==
  \/ NotRunningUnlocks \/ SignalUnlocks \/ SignalPosts
  \/ PollLocks \/ PollUnlocks \/ FreeAll

Next ==
  \/ StartOk \/ StartFails
  \/ \E t \in Pushers : PushTakesPlace(t) \/ PushStep(t) \/ PusherEnds(t)
  \/ WorkerStep
  \/ StopIfRunning \/ StopStep

Spec == Init /\ [][Next]_vars

\* The scheduler runs the worker, a push that has begun and a stop that has
\* begun; nobody is obliged to begin one, and sem_wait need never fail.
FairSpec ==
  /\ Spec
  /\ \A t \in Pushers : WF_vars(PushStep(t))
  /\ WF_vars(WorkerProgress)
  /\ WF_vars(StopStep)

-----------------------------------------------------------------------------
WorkerPc == {"none", "start", "wait", "drain", "check", "checkUnlock",
             "exitLifetime", "exitContinue", "done"}
OwnerPc  == {"init", "failed", "running", "notRunning", "signal", "post",
             "poll", "pollUnlock", "free", "end"}
PusherPc == {"idle", "writing", "advancing", "trigger", "ended"}

TypeOK ==
  /\ ring \in Seq(Packet)
  /\ holding \in [Pushers \cup {Worker} -> Packet \cup {NoPacket}]
  /\ got \in [Pushers \cup {Worker} -> Packet \cup {NoPacket}]
  /\ sem \in 0 .. SemMax
  /\ lifetime \in BOOLEAN /\ shouldContinue \in BOOLEAN
  /\ memory \in {"none", "live", "freed"}
  /\ ppc \in [Pushers -> PusherPc] /\ opc \in OwnerPc /\ wpc \in WorkerPc
  /\ handled \subseteq Packet
  /\ pushes \in 0 .. MaxPushes

InLoop  == wpc \in {"start", "wait", "drain", "check", "checkUnlock"}
HasLeft == wpc \in {"exitLifetime", "exitContinue", "done"}

(* No wakeup is lost: when the worker sleeps on a semaphore of value 0, every
   packet in the ring belongs to a push that has not posted the semaphore yet,
   or lies behind one. *)
NoLostWakeup ==
  (wpc = "wait" /\ sem = 0) =>
     \/ ring = <<>>
     \/ \E t \in Pushers : ppc[t] \in {"writing", "advancing", "trigger"}

(* What the worker's loop uses (the ring, the tables and arrays beside it, the
   semaphore) is freed only after the loop has ended, whatever ended it. *)
FreedAfterLoop == memory = "freed" => ~ InLoop

(* The flag of the lifetime tells the truth: it is set from before the thread
   begins until it has left its loop, so that a try-lock that succeeds proves
   that nobody is in the loop. *)
LifetimeCoversLoop == InLoop => lifetime

(* A packet that got a place in the ring is handled, unless the worker leaves its
   loop (it was told to stop, or the semaphore failed). *)
HandledUnlessLeft ==
  \A p \in Packet : (pushes >= p) ~> (p \in handled \/ HasLeft)

(* A stop that has begun ends: the owner is never left waiting for a worker that
   sleeps, and the memory is freed. *)
StopCompletes == (opc = "signal") ~> (memory = "freed")
=============================================================================
