------------------------------ MODULE RingQueue ------------------------------
(***************************************************************************)
(* What ringbuf.c promises its callers: a bounded first-in first-out queue *)
(* shared by any number of threads, in which a place is taken before the   *)
(* packet is in it.  A packet becomes obtainable only once its pusher has  *)
(* written it, and a packet that is not yet written holds back the ones    *)
(* behind it.                                                              *)
(***************************************************************************)
EXTENDS Naturals, Sequences

CONSTANTS
  Threads,     \* every thread that pushes or pops
  Capacity,    \* the most packets the queue holds at once
  Packet,      \* what is queued
  NoPacket     \* "holds nothing", not an element of Packet

VARIABLES
  queue,       \* packets with a place in the queue, oldest first
  holding,     \* the packet a thread has a place for and is still writing
  got          \* the packet a thread obtained last

vars == <<queue, holding, got>>

Init ==
  /\ queue   = <<>>
  /\ holding = [t \in Threads |-> NoPacket]
  /\ got     = [t \in Threads |-> NoPacket]

TakePlace(t, p) ==
  /\ holding[t] = NoPacket
  /\ Len(queue) < Capacity
  /\ queue'   = Append(queue, p)
  /\ holding' = [holding EXCEPT ![t] = p]
  /\ UNCHANGED got

Publish(t) ==
  /\ holding[t] # NoPacket
  /\ holding' = [holding EXCEPT ![t] = NoPacket]
  /\ UNCHANGED <<queue, got>>

Obtain(t) ==
  /\ queue # <<>>
  /\ \A u \in Threads : holding[u] # Head(queue)
  /\ queue' = Tail(queue)
  /\ got'   = [got EXCEPT ![t] = Head(queue)]
  /\ UNCHANGED holding

Next ==
  \E t \in Threads :
    \/ \E p \in Packet : TakePlace(t, p)
    \/ Publish(t)
    \/ Obtain(t)

Spec == Init /\ [][Next]_vars
=============================================================================
