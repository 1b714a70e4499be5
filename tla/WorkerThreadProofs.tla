-------------------------- MODULE WorkerThreadProofs --------------------------
(***************************************************************************)
(* Theorems about the worker thread, for any number of pushing threads,    *)
(* any ring capacity and any number of pushes.                             *)
(***************************************************************************)
EXTENDS WorkerThread, FiniteSetTheorems, TLAPS

(* The push has a place in the ring and has not posted the semaphore yet. *)
MidPush(t) == ppc[t] \in {"writing", "advancing", "trigger"}

-----------------------------------------------------------------------------
(* The variables keep their types: in particular the semaphore stays within its
   range, and every packet handled is one that was pushed. *)
THEOREM TypeCorrect == Spec => []TypeOK
<1> USE WorkerAssumption DEF Packet, NoPacket, WorkerPc, OwnerPc, PusherPc, Pushers
<1>1. Init => TypeOK
  <2> SUFFICES ASSUME Init PROVE TypeOK
    OBVIOUS
  <2>1. ring \in Seq(Packet) /\ handled \subseteq Packet
    BY DEF Init, Ring!Init
  <2>2. /\ holding \in [Pushers \cup {Worker} -> Packet \cup {NoPacket}]
        /\ got \in [Pushers \cup {Worker} -> Packet \cup {NoPacket}]
    BY DEF Init, Ring!Init
  <2>3. ppc \in [Pushers -> PusherPc]
    BY DEF Init
  <2>4. sem \in 0 .. SemMax /\ pushes \in 0 .. MaxPushes
    BY DEF Init
  <2>5. lifetime \in BOOLEAN /\ shouldContinue \in BOOLEAN
    BY Zenon DEF Init
  <2>6. memory \in {"none", "live", "freed"} /\ opc \in OwnerPc /\ wpc \in WorkerPc
    BY DEF Init
  <2> QED
    BY <2>1, <2>2, <2>3, <2>4, <2>5, <2>6, Zenon DEF TypeOK
<1>2. TypeOK /\ [Next]_vars => TypeOK'
  <2> SUFFICES ASSUME TypeOK, [Next]_vars PROVE TypeOK'
    OBVIOUS
  <2> USE DEF TypeOK, OwnerGoto, WorkerGoto, PusherGoto, ringVars, mutexVars
  <2>1. CASE StartOk
    BY <2>1 DEF StartOk
  <2>2. CASE StartFails
    BY <2>2 DEF StartFails
  <2>3. ASSUME NEW t \in Pushers, PushTakesPlace(t) PROVE TypeOK'
    <3>1. pushes + 1 \in Packet /\ pushes' \in 0 .. MaxPushes
      BY <2>3 DEF PushTakesPlace
    <3>2. ring' \in Seq(Packet)
      BY <2>3, <3>1 DEF PushTakesPlace, Ring!TakePlace
    <3> QED
      BY <2>3, <3>1, <3>2 DEF PushTakesPlace, Ring!TakePlace
  <2>4. ASSUME NEW t \in Pushers, PushPublishes(t) PROVE TypeOK'
    BY <2>4 DEF PushPublishes, Ring!Publish
  <2>5. ASSUME NEW t \in Pushers, PushReturns(t) PROVE TypeOK'
    BY <2>5 DEF PushReturns
  <2>6. ASSUME NEW t \in Pushers, Trigger(t) PROVE TypeOK'
    BY <2>6 DEF Trigger, SemPost
  <2>7. ASSUME NEW t \in Pushers, PusherEnds(t) PROVE TypeOK'
    BY <2>7 DEF PusherEnds
  <2>8. CASE WorkerStart
    BY <2>8 DEF WorkerStart
  <2>9. CASE WaitOk
    BY <2>9 DEF WaitOk
  <2>10. CASE WaitFails
    BY <2>10 DEF WaitFails
  <2>11. CASE PopAndHandle
    <3>1. Head(ring) \in Packet /\ ring' \in Seq(Packet)
      BY <2>11 DEF PopAndHandle, Ring!Obtain
    <3> QED
      BY <2>11, <3>1 DEF PopAndHandle, Ring!Obtain
  <2>12. CASE PopAgain
    BY <2>12 DEF PopAgain
  <2>13. CASE CheckGoesOn
    BY <2>13 DEF CheckGoesOn
  <2>14. CASE CheckStops
    BY <2>14 DEF CheckStops
  <2>15. CASE CheckUnlocks
    BY <2>15 DEF CheckUnlocks
  <2>16. CASE ExitUnlocksLifetime
    BY <2>16 DEF ExitUnlocksLifetime
  <2>17. CASE ExitUnlocksContinue
    BY <2>17 DEF ExitUnlocksContinue
  <2>18. CASE StopIfRunning
    BY <2>18 DEF StopIfRunning
  <2>19. CASE NotRunningUnlocks
    BY <2>19 DEF NotRunningUnlocks
  <2>20. CASE SignalUnlocks
    BY <2>20 DEF SignalUnlocks
  <2>21. CASE SignalPosts
    BY <2>21 DEF SignalPosts, SemPost
  <2>22. CASE PollLocks
    BY <2>22 DEF PollLocks
  <2>23. CASE PollUnlocks
    BY <2>23 DEF PollUnlocks
  <2>24. CASE FreeAll
    BY <2>24 DEF FreeAll
  <2>25. CASE UNCHANGED vars
    BY <2>25 DEF vars
  <2> QED
    BY <2>1, <2>2, <2>3, <2>4, <2>5, <2>6, <2>7, <2>8, <2>9, <2>10, <2>11, <2>12,
       <2>13, <2>14, <2>15, <2>16, <2>17, <2>18, <2>19, <2>20, <2>21, <2>22, <2>23,
       <2>24, <2>25 DEF Next, PushStep, WorkerStep, WorkerProgress, StopStep
<1> QED
  BY <1>1, <1>2, PTL DEF Spec

-----------------------------------------------------------------------------
(* NoLostWakeup is not inductive: the worker comes to its wait with a decision
   it took before, when the ring answered ERR_Again.  The strengthening says the
   same of every point of the loop outside the draining of the ring. *)
WakeupPending ==
  (wpc \in {"none", "start", "wait", "check"} /\ sem = 0) =>
     ring = <<>> \/ \E t \in Pushers : MidPush(t)

EmptyBeforeStart == opc = "init" => ring = <<>> /\ wpc = "none"

WakeupInv == TypeOK /\ WakeupPending /\ EmptyBeforeStart

(* The worker never sleeps beside a packet that nobody will wake it for: the order
   "push, then post" of log_msg and db_thread_sched and the order "wait, then pop
   until ERR_Again" of the worker lose no wakeup, for any number of pushers. *)
THEOREM WakeupsNotLost == Spec => []NoLostWakeup
<1> USE WorkerAssumption
<1>1. Init => WakeupPending /\ EmptyBeforeStart
  BY DEF Init, Ring!Init, WakeupPending, EmptyBeforeStart
<1>2. TypeOK /\ WakeupPending /\ EmptyBeforeStart /\ [Next]_vars
        => WakeupPending' /\ EmptyBeforeStart'
  <2> SUFFICES ASSUME TypeOK, WakeupPending, EmptyBeforeStart, [Next]_vars
               PROVE  WakeupPending' /\ EmptyBeforeStart'
    OBVIOUS
  <2> USE DEF WakeupPending, EmptyBeforeStart, MidPush, OwnerGoto, WorkerGoto,
              PusherGoto, ringVars, mutexVars
  <2>t. sem \in Nat /\ SemMax \in Nat \ {0} /\ ppc \in [Pushers -> PusherPc]
    BY DEF TypeOK
  <2>1. CASE StartOk \/ StartFails
    BY <2>1 DEF StartOk, StartFails
  <2>2. ASSUME NEW t \in Pushers, PushTakesPlace(t) \/ PushPublishes(t) \/ PushReturns(t)
        PROVE  WakeupPending' /\ EmptyBeforeStart'
    <3>1. MidPush(t)'
      BY <2>2, <2>t DEF PushTakesPlace, PushPublishes, PushReturns
    <3>2. (opc # "init" /\ UNCHANGED opc) \/ UNCHANGED <<opc, ring, wpc>>
      BY <2>2 DEF PushTakesPlace, PushPublishes, PushReturns, Ring!Publish
    <3> QED
      BY <3>1, <3>2
  <2>3. ASSUME NEW t \in Pushers, Trigger(t)
        PROVE  WakeupPending' /\ EmptyBeforeStart'
    <3>1. sem' # 0
      BY <2>3, <2>t DEF Trigger, SemPost
    <3> QED
      BY <2>3, <3>1 DEF Trigger
  <2>4. ASSUME NEW t \in Pushers, PusherEnds(t)
        PROVE  WakeupPending' /\ EmptyBeforeStart'
    <3>1. \A u \in Pushers : MidPush(u) => MidPush(u)'
      BY <2>4, <2>t DEF PusherEnds
    <3> QED
      BY <2>4, <3>1 DEF PusherEnds
  <2>5. CASE WorkerStart \/ WaitOk \/ WaitFails
    BY <2>5 DEF WorkerStart, WaitOk, WaitFails
  <2>6. CASE PopAndHandle
    BY <2>6 DEF PopAndHandle, Ring!Obtain
  <2>7. CASE PopAgain
    BY <2>7 DEF PopAgain
  <2>8. CASE CheckGoesOn \/ CheckStops \/ CheckUnlocks
    BY <2>8 DEF CheckGoesOn, CheckStops, CheckUnlocks
  <2>9. CASE ExitUnlocksLifetime \/ ExitUnlocksContinue
    BY <2>9 DEF ExitUnlocksLifetime, ExitUnlocksContinue
  <2>10. CASE StopIfRunning \/ NotRunningUnlocks \/ SignalUnlocks
    BY <2>10 DEF StopIfRunning, NotRunningUnlocks, SignalUnlocks
  <2>11. CASE SignalPosts
    <3>1. sem' # 0
      BY <2>11, <2>t DEF SignalPosts, SemPost
    <3> QED
      BY <2>11, <3>1 DEF SignalPosts
  <2>12. CASE PollLocks \/ PollUnlocks \/ FreeAll
    BY <2>12 DEF PollLocks, PollUnlocks, FreeAll
  <2>13. CASE UNCHANGED vars
    BY <2>13 DEF vars
  <2> QED
    BY <2>1, <2>2, <2>3, <2>4, <2>5, <2>6, <2>7, <2>8, <2>9, <2>10, <2>11, <2>12,
       <2>13 DEF Next, PushStep, WorkerStep, WorkerProgress, StopStep
<1>3. WakeupPending => NoLostWakeup
  BY DEF WakeupPending, NoLostWakeup, MidPush
<1> QED
  BY <1>1, <1>2, <1>3, TypeCorrect, PTL DEF Spec

-----------------------------------------------------------------------------
(* Both try-locks of mtxLifetime by the owner set the flag for a moment and clear
   it again: they may do so only because the worker is not in its loop then. *)
LifetimeInv ==
  /\ LifetimeCoversLoop
  /\ opc \in {"init", "failed"} => wpc = "none"
  /\ opc \in {"notRunning", "pollUnlock"} => ~ InLoop

(* LifetimeInv is inductive. *)
LEMMA LifetimeInductive ==
  /\ Init => LifetimeInv
  /\ LifetimeInv /\ [Next]_vars => LifetimeInv'
<1>1. Init => LifetimeInv
  BY DEF Init, LifetimeInv, LifetimeCoversLoop, InLoop
<1>2. LifetimeInv /\ [Next]_vars => LifetimeInv'
  <2> SUFFICES ASSUME LifetimeInv, [Next]_vars PROVE LifetimeInv'
    OBVIOUS
  <2> USE DEF LifetimeInv, LifetimeCoversLoop, InLoop, OwnerGoto, WorkerGoto,
              PusherGoto, ringVars, mutexVars
  <2>1. CASE StartOk \/ StartFails
    BY <2>1 DEF StartOk, StartFails
  <2>2. ASSUME NEW t \in Pushers,
               PushTakesPlace(t) \/ PushPublishes(t) \/ PushReturns(t) \/ Trigger(t)
                 \/ PusherEnds(t)
        PROVE  LifetimeInv'
    <3>1. UNCHANGED <<opc, wpc, lifetime>>
      BY <2>2 DEF PushTakesPlace, PushPublishes, PushReturns, Trigger, PusherEnds
    <3> QED
      BY <3>1
  <2>3. CASE WorkerStart \/ WaitOk \/ WaitFails
    BY <2>3 DEF WorkerStart, WaitOk, WaitFails
  <2>4. CASE PopAndHandle \/ PopAgain
    BY <2>4 DEF PopAndHandle, PopAgain
  <2>5. CASE CheckGoesOn \/ CheckStops \/ CheckUnlocks
    BY <2>5 DEF CheckGoesOn, CheckStops, CheckUnlocks
  <2>6. CASE ExitUnlocksLifetime \/ ExitUnlocksContinue
    BY <2>6 DEF ExitUnlocksLifetime, ExitUnlocksContinue
  <2>7. CASE StopIfRunning
    BY <2>7 DEF StopIfRunning
  <2>8. CASE NotRunningUnlocks \/ SignalUnlocks \/ SignalPosts
    BY <2>8 DEF NotRunningUnlocks, SignalUnlocks, SignalPosts
  <2>9. CASE PollLocks \/ PollUnlocks \/ FreeAll
    BY <2>9 DEF PollLocks, PollUnlocks, FreeAll
  <2>10. CASE UNCHANGED vars
    BY <2>10 DEF vars
  <2> QED
    BY <2>1, <2>2, <2>3, <2>4, <2>5, <2>6, <2>7, <2>8, <2>9, <2>10
    DEF Next, PushStep, WorkerStep, WorkerProgress, StopStep
<1> QED
  BY <1>1, <1>2

(* While the thread procedure runs, mtxLifetime is set: a try-lock of it that
   succeeds proves that nobody is in the loop any more. *)
THEOREM LifetimeTruthful == Spec => []LifetimeCoversLoop
<1>1. LifetimeInv => LifetimeCoversLoop
  BY DEF LifetimeInv
<1> QED
  BY <1>1, LifetimeInductive, PTL DEF Spec

-----------------------------------------------------------------------------
(* Until the stop signal, every unit of the semaphore and every push under way stands
   for a push of its own: the semaphore is far from SEM_VALUE_MAX when the stop signal
   posts it, so that the owner does not skip its wait. *)
UnderWay == {t \in Pushers : MidPush(t)}

SemBound ==
  opc \in {"init", "failed", "running", "notRunning", "signal", "post"}
    => sem + Cardinality(UnderWay) <= pushes

LEMMA OneMoreUnderWay ==
  ASSUME IsFiniteSet(Others), TypeOK, NEW t \in Pushers, ~ MidPush(t),
         ppc' = [ppc EXCEPT ![t] = "writing"]
  PROVE  Cardinality(UnderWay') = Cardinality(UnderWay) + 1
<1>1. IsFiniteSet(Pushers)
  BY FS_AddElement DEF Pushers
<1>2. IsFiniteSet(UnderWay) /\ t \notin UnderWay
  BY <1>1, FS_Subset DEF UnderWay
<1>3. UnderWay' = UnderWay \cup {t}
  BY DEF UnderWay, MidPush, TypeOK
<1> QED
  BY <1>2, <1>3, FS_AddElement

LEMMA OneLessUnderWay ==
  ASSUME IsFiniteSet(Others), TypeOK, NEW t \in Pushers, MidPush(t),
         ppc' = [ppc EXCEPT ![t] = "idle"]
  PROVE  Cardinality(UnderWay') = Cardinality(UnderWay) - 1
<1>1. IsFiniteSet(Pushers)
  BY FS_AddElement DEF Pushers
<1>2. IsFiniteSet(UnderWay) /\ t \in UnderWay
  BY <1>1, FS_Subset DEF UnderWay
<1>3. UnderWay' = UnderWay \ {t}
  BY DEF UnderWay, MidPush, TypeOK
<1> QED
  BY <1>2, <1>3, FS_RemoveElement

LEMMA UnderWayIsNat ==
  ASSUME IsFiniteSet(Others)
  PROVE  Cardinality(UnderWay) \in Nat
<1>1. IsFiniteSet(Pushers)
  BY FS_AddElement DEF Pushers
<1>2. IsFiniteSet(UnderWay)
  BY <1>1, FS_Subset DEF UnderWay
<1> QED
  BY <1>2, FS_CardinalityType

FreedInv ==
  /\ opc \in {"free", "end"} => ~ InLoop
  /\ memory = "freed" => opc = "end"

(* What the loop uses is freed only after the loop has ended, for any number of
   pushers and pushes, provided that fewer packets are pushed than the semaphore can
   count (SEM_VALUE_MAX): otherwise the post of the stop signal can fail, and
   thread_stop_all_in_one then does not wait. *)
THEOREM FreedLate ==
  ASSUME IsFiniteSet(Others), MaxPushes < SemMax
  PROVE  Spec => []FreedAfterLoop
<1> USE WorkerAssumption
<1>1. Init => SemBound /\ FreedInv
  <2> SUFFICES ASSUME Init PROVE SemBound /\ FreedInv
    OBVIOUS
  <2>1. UnderWay = {}
    BY DEF Init, UnderWay, MidPush
  <2> QED
    BY <2>1, FS_EmptySet DEF Init, SemBound, FreedInv
<1>2. TypeOK /\ LifetimeInv /\ SemBound /\ FreedInv /\ [Next]_vars
        => SemBound' /\ FreedInv'
  <2> SUFFICES ASSUME TypeOK, LifetimeInv, SemBound, FreedInv, [Next]_vars
               PROVE  SemBound' /\ FreedInv'
    OBVIOUS
  <2> DEFINE Same == UNCHANGED UnderWay
  <2>n. Cardinality(UnderWay) \in Nat
    BY UnderWayIsNat
  <2>t. sem \in 0 .. SemMax /\ pushes \in 0 .. MaxPushes /\ SemMax \in Nat \ {0}
    BY DEF TypeOK
  <2>s. ASSUME UNCHANGED ppc PROVE Same
    BY <2>s DEF UnderWay, MidPush
  <2> USE DEF SemBound, FreedInv, LifetimeInv, LifetimeCoversLoop, InLoop, OwnerGoto,
              WorkerGoto, PusherGoto, ringVars, mutexVars
  <2>1. CASE StartOk \/ StartFails
    BY <2>1, <2>s DEF StartOk, StartFails
  <2>2. ASSUME NEW t \in Pushers, PushTakesPlace(t) PROVE SemBound' /\ FreedInv'
    <3>1. Cardinality(UnderWay') = Cardinality(UnderWay) + 1
      BY <2>2, OneMoreUnderWay DEF PushTakesPlace, MidPush
    <3> QED
      BY <2>2, <3>1, <2>n, <2>t DEF PushTakesPlace
  <2>3. ASSUME NEW t \in Pushers, PushPublishes(t) \/ PushReturns(t) \/ PusherEnds(t)
        PROVE  SemBound' /\ FreedInv'
    <3>1. Same
      BY <2>3 DEF PushPublishes, PushReturns, PusherEnds, UnderWay, MidPush, TypeOK
    <3> QED
      BY <2>3, <3>1 DEF PushPublishes, PushReturns, PusherEnds
  <2>4. ASSUME NEW t \in Pushers, Trigger(t) PROVE SemBound' /\ FreedInv'
    <3>1. Cardinality(UnderWay') = Cardinality(UnderWay) - 1
      BY <2>4, OneLessUnderWay DEF Trigger, MidPush
    <3>2. sem' <= sem + 1 /\ sem' \in Nat
      BY <2>4, <2>t DEF Trigger, SemPost
    <3> QED
      BY <2>4, <3>1, <3>2, <2>n, <2>t DEF Trigger
  <2>5. CASE WorkerStart \/ WaitOk \/ WaitFails
    BY <2>5, <2>s, <2>n, <2>t DEF WorkerStart, WaitOk, WaitFails
  <2>6. CASE PopAndHandle \/ PopAgain
    BY <2>6, <2>s DEF PopAndHandle, PopAgain
  <2>7. CASE CheckGoesOn \/ CheckStops \/ CheckUnlocks
    BY <2>7, <2>s DEF CheckGoesOn, CheckStops, CheckUnlocks
  <2>8. CASE ExitUnlocksLifetime \/ ExitUnlocksContinue
    BY <2>8, <2>s DEF ExitUnlocksLifetime, ExitUnlocksContinue
  <2>9. CASE StopIfRunning \/ NotRunningUnlocks \/ SignalUnlocks
    BY <2>9, <2>s DEF StopIfRunning, NotRunningUnlocks, SignalUnlocks
  <2>10. CASE SignalPosts
    BY <2>10, <2>n, <2>t DEF SignalPosts
  <2>11. CASE PollLocks \/ PollUnlocks \/ FreeAll
    BY <2>11, <2>s DEF PollLocks, PollUnlocks, FreeAll
  <2>12. CASE UNCHANGED vars
    BY <2>12, <2>s DEF vars
  <2> QED
    BY <2>1, <2>2, <2>3, <2>4, <2>5, <2>6, <2>7, <2>8, <2>9, <2>10, <2>11, <2>12
    DEF Next, PushStep, WorkerStep, WorkerProgress, StopStep
<1>3. FreedInv => FreedAfterLoop
  BY DEF FreedInv, FreedAfterLoop
<1>4. Init => LifetimeInv
  BY LifetimeInductive
<1>5. LifetimeInv /\ [Next]_vars => LifetimeInv'
  BY LifetimeInductive
<1> QED
  BY <1>1, <1>2, <1>3, <1>4, <1>5, TypeCorrect, PTL DEF Spec
=============================================================================
