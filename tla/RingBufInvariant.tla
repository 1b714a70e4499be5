--------------------------- MODULE RingBufInvariant ---------------------------
(***************************************************************************)
(* The inductive invariant of RingBuf: what holds between any two atomic   *)
(* operations and is enough to show that it holds after the next one.      *)
(*                                                                         *)
(* Blocks are numbered in the order they are taken, and block number k is  *)
(* blocks[Slot(k)].  The numbers fall into zones: those from released up   *)
(* to taken are being read, those from taken up to visible can be popped,  *)
(* those from visible up to Reserved are being written.  A push and a pop  *)
(* treat their zone in the same way, so that one definition describes      *)
(* both.                                                                   *)
(***************************************************************************)
EXTENDS RingBuf

(***************************************************************************)
(* A zone of block numbers lo .. hi - 1 with its flags, the threads `own`  *)
(* that use a block of it and have not flagged it yet, and the threads     *)
(* `mov` that cleared the flag of block lo and have not moved the cursor   *)
(* yet.  Every block is in exactly one of the three conditions; at most    *)
(* one thread moves the cursor; and a flag is set for a block of the zone  *)
(* only.                                                                   *)
(***************************************************************************)
Zone(flag, lo, hi, tk, own, mov) ==
  /\ \A t \in own : tk[t] \in lo .. hi - 1 /\ ~ flag[Slot(tk[t])]
  /\ \A t, u \in own : tk[t] = tk[u] => t = u
  /\ \A t \in mov : tk[t] = lo /\ lo < hi /\ ~ flag[Slot(lo)]
  /\ \A t, u \in mov : t = u
  /\ \A t \in mov, u \in own : tk[u] # lo
  /\ \A k \in lo .. hi - 1 :
       flag[Slot(k)] \/ (\E t \in own : tk[t] = k) \/ (k = lo /\ \E t \in mov : TRUE)
  /\ \A i \in Blocks : flag[i] => \E k \in lo .. hi - 1 : i = Slot(k)

Writing    == {t \in Threads : pc[t] \in {"pushCopy", "pushMark"}}
WriteMoves == {t \in Threads : pc[t] = "pushMove"}
Reading    == {t \in Threads : pc[t] \in {"popCopy", "popMark"}}
ReadMoves  == {t \in Threads : pc[t] = "popMove"}

WriteZone == Zone(hasBeenWritten, visible, Reserved, ticket, Writing, WriteMoves)
ReadZone  == Zone(hasBeenRead, released, taken, ticket, Reading, ReadMoves)

\* the cursors stand for the block numbers, and the ring is never overfull
Cursors ==
  /\ readStart = Slot(released) /\ readEnd = Slot(taken)
  /\ writeStart = Slot(visible) /\ writeEnd = Slot(Reserved)
  /\ released <= taken /\ taken <= visible /\ visible <= Reserved
  /\ Reserved < released + N

\* a push knows a block less than one lap behind writeEnd, and when its
\* compare-and-swap can succeed there is still room
PushTicket(t) ==
  /\ pc[t] \in PushPc \cup {"pushEnter"} => t \in Producers
  /\ pc[t] \in PushPc => index[t] = Slot(ticket[t]) /\ Reserved < ticket[t] + N
  /\ pc[t] \in {"pushCheck", "pushReserve"} => ticket[t] <= Reserved
  /\ pc[t] = "pushReserve" /\ ticket[t] = Reserved => Reserved + 1 < released + N
  /\ pc[t] \in {"pushClear", "pushMove"} => ticket[t] <= visible

PopTicket(t) ==
  /\ pc[t] \in PopPc \cup {"popEnter"} => t \in Consumers
  /\ pc[t] \in PopPc => index[t] = Slot(ticket[t]) /\ taken < ticket[t] + N
  /\ pc[t] \in {"popCheck", "popReserve"} => ticket[t] <= taken
  /\ pc[t] = "popReserve" /\ ticket[t] = taken => taken < visible
  /\ pc[t] \in {"popClear", "popMove"} => ticket[t] <= released

PushTickets == \A t \in Threads : PushTicket(t)
PopTickets  == \A t \in Threads : PopTicket(t)

\* when the first block of the zone is flagged, somebody is about to clear it
WriteResponsible ==
  visible < Reserved /\ hasBeenWritten[Slot(visible)] =>
    \E t \in Threads : pc[t] = "pushScan" \/ (pc[t] = "pushClear" /\ ticket[t] = visible)

ReadResponsible ==
  released < taken /\ hasBeenRead[Slot(released)] =>
    \E t \in Threads : pc[t] = "popScan" \/ (pc[t] = "popClear" /\ ticket[t] = released)

\* the packet of a block is the one accepted under its number, from the copy of
\* the push until the pop has flagged the block as read
Contents ==
  /\ \A t \in Writing : arg[t] = accepted[ticket[t] + 1]
  /\ \A k \in released .. Reserved - 1 :
       \/ packet[Slot(k)] = accepted[k + 1]
       \/ \E t \in Threads : pc[t] = "pushCopy" /\ ticket[t] = k
  /\ \A t \in Threads : pc[t] = "popMark" => out[t] = accepted[ticket[t] + 1]

\* no packet is accepted twice
Unplaced == {t \in Threads : pc[t] \in {"pushEnter", "pushCheck", "pushReserve"}}

Distinct ==
  /\ \A i \in 1 .. Reserved : accepted[i] \in 1 .. pushes
  /\ \A i, j \in 1 .. Reserved : accepted[i] = accepted[j] => i = j
  /\ \A t \in Unplaced : arg[t] \in 1 .. pushes
  /\ \A t \in Unplaced, i \in 1 .. Reserved : arg[t] # accepted[i]
  /\ \A t, u \in Unplaced : arg[t] = arg[u] => t = u

RingInv ==
  /\ Cursors
  /\ PushTickets /\ PopTickets
  /\ WriteZone /\ ReadZone
  /\ WriteResponsible /\ ReadResponsible
  /\ Contents
  /\ Distinct
=============================================================================
