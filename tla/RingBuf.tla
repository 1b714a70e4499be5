------------------------------- MODULE RingBuf -------------------------------
(***************************************************************************)
(* The lock-free ring buffer of ringbuf.c: N blocks, four cursors, and two *)
(* flags in each block.  A push takes the block at writeEnd with a         *)
(* compare-and-swap, copies its packet there, flags the block as written   *)
(* and then moves writeStart over every block flagged so far, clearing the *)
(* flags; a pop does the same with readEnd, readStart and hasBeenRead.     *)
(* The packets a pop may take lie from readEnd up to writeStart, and a     *)
(* push may take a block as long as that leaves one between writeEnd and   *)
(* readStart.                                                              *)
(*                                                                         *)
(* One action is one atomic operation of the code (a load, a store, a      *)
(* compare-and-swap or the memcpy of the packet); all atomics in           *)
(* eqp_atomic_posix.c are sequentially consistent.                         *)
(***************************************************************************)
EXTENDS Naturals, Sequences

CONSTANTS
  Producers,   \* threads that call ringbuf_push
  Consumers,   \* threads that call ringbuf_pop
  N,           \* EQP_RINGBUF_MAX_PACKETS
  MaxPushes,   \* bound: calls of ringbuf_push in one behaviour
  MaxLap       \* bound: how many blocks others take during one operation

Threads == Producers \cup Consumers

ASSUME RingAssumption ==
  /\ N \in Nat /\ N >= 2
  /\ MaxPushes \in Nat
  /\ MaxLap \in Nat

Blocks   == 0 .. N - 1
NoPacket == 0
Packet   == 1 .. MaxPushes   \* the i-th call of ringbuf_push pushes packet i

VARIABLES
  hasBeenRead, hasBeenWritten, packet,         \* the fields of each block
  readStart, readEnd, writeStart, writeEnd,    \* the cursors
  pc,         \* which operation of the code the thread performs next
  index,      \* the thread's local `index` (and the block it stands for)
  arg,        \* the packet the thread pushes
  out,        \* the packet the thread popped
  (* History, read by no guard but WithinLap. The blocks are numbered in    *)
  (* the order they are taken: block number k is blocks[k % N].             *)
  accepted,   \* the packets that got a block, in the order of the blocks
  visible,    \* blocks writeStart has passed
  taken,      \* blocks taken by a pop
  released,   \* blocks readStart has passed
  ticket,     \* the block number that stands behind the thread's `index`
  pushes      \* calls of ringbuf_push so far

flags   == <<hasBeenRead, hasBeenWritten>>
cursors == <<readStart, readEnd, writeStart, writeEnd>>
history == <<accepted, visible, taken, released, pushes>>
vars == <<flags, packet, cursors, pc, index, arg, out, history, ticket>>

Reserved     == Len(accepted)
Slot(k)      == k % N
\* mutant: nextIndex of the last block is not 0
NextIndexNoWrap(i) == i + 1

NextIndex(i) == IF i = N - 1 THEN 0 ELSE i + 1

PushPc == {"pushCheck", "pushReserve", "pushCopy", "pushMark",
           "pushScan", "pushClear", "pushMove"}
PopPc  == {"popCheck", "popReserve", "popCopy", "popMark",
           "popScan", "popClear", "popMove"}
Pc     == {"idle", "pushEnter", "popEnter"} \cup PushPc \cup PopPc

Init ==
  /\ hasBeenRead    = [i \in Blocks |-> FALSE]
  /\ hasBeenWritten = [i \in Blocks |-> FALSE]
  /\ packet         = [i \in Blocks |-> NoPacket]
  /\ readStart = 0 /\ readEnd = 0 /\ writeStart = 0 /\ writeEnd = 0
  /\ pc     = [t \in Threads |-> "idle"]
  /\ index  = [t \in Threads |-> 0]
  /\ arg    = [t \in Threads |-> NoPacket]
  /\ out    = [t \in Threads |-> NoPacket]
  /\ accepted = <<>> /\ visible = 0 /\ taken = 0 /\ released = 0 /\ pushes = 0
  /\ ticket = [t \in Threads |-> 0]

Goto(t, from, to) == pc[t] = from /\ pc' = [pc EXCEPT ![t] = to]

(***************************************************************************)
(* The scheduling assumption: between two atomic operations of one push    *)
(* the other threads take at most MaxLap blocks, and the same for a pop.   *)
(* With MaxLap < N no thread sleeps while the others go once round the     *)
(* whole ring (2048 blocks in the code) and bring a cursor it has loaded   *)
(* back to the same value.                                                 *)
(***************************************************************************)
WithinLap(t, set, next) ==
  \A u \in Threads \ {t} : pc[u] \in set => next <= ticket[u] + MaxLap

-----------------------------------------------------------------------------
(* ringbuf_push and ringbuf_push_impl *)

PushCall(t) ==
  /\ t \in Producers
  /\ pushes < MaxPushes
  /\ Goto(t, "idle", "pushEnter")
  /\ arg'    = [arg EXCEPT ![t] = pushes + 1]
  /\ pushes' = pushes + 1
  /\ UNCHANGED <<flags, packet, cursors, index, out,
                 accepted, visible, taken, released, ticket>>

PushLoad(t) ==
  /\ Goto(t, "pushEnter", "pushCheck")
  /\ index'  = [index EXCEPT ![t] = writeEnd]
  /\ ticket' = [ticket EXCEPT ![t] = Reserved]
  /\ UNCHANGED <<flags, packet, cursors, arg, out, history>>

\* mutant: keeps two blocks free
PushFullEarly(t) ==
  /\ Goto(t, "pushCheck", "idle")
  /\ NextIndex(NextIndex(index[t])) = readStart
  /\ UNCHANGED <<flags, packet, cursors, index, arg, out, history, ticket>>

\* returns ERR_OutOfSpace
PushFull(t) ==
  /\ Goto(t, "pushCheck", "idle")
  /\ NextIndex(index[t]) = readStart
  /\ UNCHANGED <<flags, packet, cursors, index, arg, out, history, ticket>>

PushSpace(t) ==
  /\ Goto(t, "pushCheck", "pushReserve")
  /\ NextIndex(index[t]) # readStart
  /\ UNCHANGED <<flags, packet, cursors, index, arg, out, history, ticket>>

\* mutant: a store to writeEnd instead of the compare-and-swap
PushReserveStore(t) ==
  /\ Goto(t, "pushReserve", "pushCopy")
  /\ WithinLap(t, PushPc, Reserved + 1)
  /\ writeEnd' = NextIndex(index[t])
  /\ accepted' = Append(accepted, arg[t])
  /\ ticket'   = [ticket EXCEPT ![t] = Reserved]
  /\ UNCHANGED <<flags, packet, readStart, readEnd, writeStart, index, arg, out,
                 visible, taken, released, pushes>>

\* mutant: the block can be popped before its packet is copied
PushReservePublishes(t) ==
  /\ Goto(t, "pushReserve", "pushCopy")
  /\ writeEnd = index[t]
  /\ WithinLap(t, PushPc, Reserved + 1)
  /\ writeEnd' = NextIndex(index[t]) /\ writeStart' = NextIndex(index[t])
  /\ accepted' = Append(accepted, arg[t])
  /\ visible'  = Reserved + 1
  /\ ticket'   = [ticket EXCEPT ![t] = Reserved]
  /\ UNCHANGED <<flags, packet, readStart, readEnd, index, arg, out,
                 taken, released, pushes>>

PushReserve(t) ==
  /\ Goto(t, "pushReserve", "pushCopy")
  /\ writeEnd = index[t]
  /\ WithinLap(t, PushPc, Reserved + 1)
  /\ writeEnd' = NextIndex(index[t])
  /\ accepted' = Append(accepted, arg[t])
  /\ ticket'   = [ticket EXCEPT ![t] = Reserved]
  /\ UNCHANGED <<flags, packet, readStart, readEnd, writeStart, index, arg, out,
                 visible, taken, released, pushes>>

\* the weak compare-and-swap found another value, or failed spuriously
PushRetry(t) ==
  /\ Goto(t, "pushReserve", "pushEnter")
  /\ UNCHANGED <<flags, packet, cursors, index, arg, out, history, ticket>>

PushCopy(t) ==
  /\ Goto(t, "pushCopy", "pushMark")
  /\ packet' = [packet EXCEPT ![index[t]] = arg[t]]
  /\ UNCHANGED <<flags, cursors, index, arg, out, history, ticket>>

PushMark(t) ==
  /\ Goto(t, "pushMark", "pushScan")
  /\ hasBeenWritten' = [hasBeenWritten EXCEPT ![index[t]] = TRUE]
  /\ UNCHANGED <<hasBeenRead, packet, cursors, index, arg, out, history, ticket>>

PushScan(t) ==
  /\ Goto(t, "pushScan", "pushClear")
  /\ index'  = [index EXCEPT ![t] = writeStart]
  /\ ticket' = [ticket EXCEPT ![t] = visible]
  /\ UNCHANGED <<flags, packet, cursors, arg, out, history>>

PushClear(t) ==
  /\ Goto(t, "pushClear", "pushMove")
  /\ hasBeenWritten[index[t]]
  /\ hasBeenWritten' = [hasBeenWritten EXCEPT ![index[t]] = FALSE]
  /\ UNCHANGED <<hasBeenRead, packet, cursors, index, arg, out, history, ticket>>

\* mutant: returns after it has moved writeStart once
PushMoveOnce(t) ==
  /\ Goto(t, "pushMove", "idle")
  /\ writeStart = index[t]
  /\ writeStart' = NextIndex(index[t])
  /\ visible' = visible + 1
  /\ UNCHANGED <<flags, packet, readStart, readEnd, writeEnd, index, arg, out,
                 accepted, taken, released, pushes, ticket>>

\* the flag is clear: ringbuf_push returns ERR_None
PushDone(t) ==
  /\ Goto(t, "pushClear", "idle")
  /\ ~ hasBeenWritten[index[t]]
  /\ UNCHANGED <<flags, packet, cursors, index, arg, out, history, ticket>>

\* mutant: a compare-and-swap on writeStart that may fail spuriously
PushMoveWeak(t) ==
  /\ Goto(t, "pushMove", "pushScan")
  /\ \/ /\ writeStart = index[t]
        /\ writeStart' = NextIndex(index[t])
        /\ visible' = visible + 1
     \/ UNCHANGED <<writeStart, visible>>
  /\ UNCHANGED <<flags, packet, readStart, readEnd, writeEnd, index, arg, out,
                 accepted, taken, released, pushes, ticket>>

PushMove(t) ==
  /\ Goto(t, "pushMove", "pushScan")
  /\ \/ /\ writeStart = index[t]
        /\ writeStart' = NextIndex(index[t])
        /\ visible' = visible + 1
     \/ /\ writeStart # index[t]
        /\ UNCHANGED <<writeStart, visible>>
  /\ UNCHANGED <<flags, packet, readStart, readEnd, writeEnd, index, arg, out,
                 accepted, taken, released, pushes, ticket>>

-----------------------------------------------------------------------------
(* ringbuf_pop and ringbuf_pop_impl *)

PopCall(t) ==
  /\ t \in Consumers
  /\ Goto(t, "idle", "popEnter")
  /\ UNCHANGED <<flags, packet, cursors, index, arg, out, history, ticket>>

PopLoad(t) ==
  /\ Goto(t, "popEnter", "popCheck")
  /\ index'  = [index EXCEPT ![t] = readEnd]
  /\ ticket' = [ticket EXCEPT ![t] = taken]
  /\ UNCHANGED <<flags, packet, cursors, arg, out, history>>

\* returns ERR_Again
PopEmpty(t) ==
  /\ Goto(t, "popCheck", "idle")
  /\ index[t] = writeStart
  /\ UNCHANGED <<flags, packet, cursors, index, arg, out, history, ticket>>

PopSome(t) ==
  /\ Goto(t, "popCheck", "popReserve")
  /\ index[t] # writeStart
  /\ UNCHANGED <<flags, packet, cursors, index, arg, out, history, ticket>>

\* mutant: a store to readEnd instead of the compare-and-swap
PopReserveStore(t) ==
  /\ Goto(t, "popReserve", "popCopy")
  /\ WithinLap(t, PopPc, taken + 1)
  /\ readEnd' = NextIndex(index[t])
  /\ taken'   = taken + 1
  /\ ticket'  = [ticket EXCEPT ![t] = taken]
  /\ UNCHANGED <<flags, packet, readStart, writeStart, writeEnd, index, arg, out,
                 accepted, visible, released, pushes>>

PopReserve(t) ==
  /\ Goto(t, "popReserve", "popCopy")
  /\ readEnd = index[t]
  /\ WithinLap(t, PopPc, taken + 1)
  /\ readEnd' = NextIndex(index[t])
  /\ taken'   = taken + 1
  /\ ticket'  = [ticket EXCEPT ![t] = taken]
  /\ UNCHANGED <<flags, packet, readStart, writeStart, writeEnd, index, arg, out,
                 accepted, visible, released, pushes>>

PopRetry(t) ==
  /\ Goto(t, "popReserve", "popEnter")
  /\ UNCHANGED <<flags, packet, cursors, index, arg, out, history, ticket>>

PopCopy(t) ==
  /\ Goto(t, "popCopy", "popMark")
  /\ out' = [out EXCEPT ![t] = packet[index[t]]]
  /\ UNCHANGED <<flags, packet, cursors, index, arg, history, ticket>>

PopMark(t) ==
  /\ Goto(t, "popMark", "popScan")
  /\ hasBeenRead' = [hasBeenRead EXCEPT ![index[t]] = TRUE]
  /\ UNCHANGED <<hasBeenWritten, packet, cursors, index, arg, out, history, ticket>>

PopScan(t) ==
  /\ Goto(t, "popScan", "popClear")
  /\ index'  = [index EXCEPT ![t] = readStart]
  /\ ticket' = [ticket EXCEPT ![t] = released]
  /\ UNCHANGED <<flags, packet, cursors, arg, out, history>>

PopClear(t) ==
  /\ Goto(t, "popClear", "popMove")
  /\ hasBeenRead[index[t]]
  /\ hasBeenRead' = [hasBeenRead EXCEPT ![index[t]] = FALSE]
  /\ UNCHANGED <<hasBeenWritten, packet, cursors, index, arg, out, history, ticket>>

\* the flag is clear: ringbuf_pop returns ERR_None
PopDone(t) ==
  /\ Goto(t, "popClear", "idle")
  /\ ~ hasBeenRead[index[t]]
  /\ UNCHANGED <<flags, packet, cursors, index, arg, out, history, ticket>>

PopMove(t) ==
  /\ Goto(t, "popMove", "popScan")
  /\ \/ /\ readStart = index[t]
        /\ readStart' = NextIndex(index[t])
        /\ released' = released + 1
     \/ /\ readStart # index[t]
        /\ UNCHANGED <<readStart, released>>
  /\ UNCHANGED <<flags, packet, readEnd, writeStart, writeEnd, index, arg, out,
                 accepted, visible, taken, pushes, ticket>>

-----------------------------------------------------------------------------
PushStep(t) ==
  \/ PushLoad(t) \/ PushFull(t) \/ PushSpace(t) \/ PushReserve(t) \/ PushRetry(t)
  \/ PushCopy(t) \/ PushMark(t) \/ PushScan(t) \/ PushClear(t) \/ PushDone(t)
  \/ PushMove(t)

PopStep(t) ==
  \/ PopLoad(t) \/ PopEmpty(t) \/ PopSome(t) \/ PopReserve(t) \/ PopRetry(t)
  \/ PopCopy(t) \/ PopMark(t) \/ PopScan(t) \/ PopClear(t) \/ PopDone(t)
  \/ PopMove(t)

Next == \E t \in Threads : PushCall(t) \/ PushStep(t) \/ PopCall(t) \/ PopStep(t)

Spec == Init /\ [][Next]_vars

\* The scheduler runs every thread that is inside a push or a pop; nobody is
\* obliged to call one.
FairSpec == Spec /\ \A t \in Threads : WF_vars(PushStep(t)) /\ WF_vars(PopStep(t))

-----------------------------------------------------------------------------
TypeOK ==
  /\ hasBeenRead \in [Blocks -> BOOLEAN] /\ hasBeenWritten \in [Blocks -> BOOLEAN]
  /\ packet \in [Blocks -> Packet \cup {NoPacket}]
  /\ readStart \in Blocks /\ readEnd \in Blocks
  /\ writeStart \in Blocks /\ writeEnd \in Blocks
  /\ pc \in [Threads -> Pc]
  /\ index \in [Threads -> Blocks]
  /\ arg \in [Threads -> Packet \cup {NoPacket}]
  /\ out \in [Threads -> Packet \cup {NoPacket}]
  /\ accepted \in Seq(Packet \cup {NoPacket})
  /\ visible \in Nat /\ taken \in Nat /\ released \in Nat
  /\ ticket \in [Threads -> Nat]
  /\ pushes \in 0 .. MaxPushes

Copying(t)   == pc[t] \in {"pushCopy", "pushMark"}
Advancing(t) == pc[t] \in {"pushScan", "pushClear", "pushMove"}
Releasing(t) == pc[t] \in {"popCopy", "popMark", "popScan", "popClear", "popMove"}

(* First in, first out, and exactly once: the pop that takes block number k
   obtains the packet of the push that took block number k, although blocks are
   reused and pushes finish in any order. *)
DeliveredInOrder ==
  \A t \in Consumers :
    pc[t] = "popMark" => /\ ticket[t] < Reserved
                         /\ out[t] = accepted[ticket[t] + 1]

(* The memcpy of a packet into a block never overlaps another access to the
   packet of that block, by a push or by a pop. *)
NoOverlappingCopy ==
  \A t, u \in Threads :
    (t # u /\ pc[t] = "pushCopy" /\ pc[u] \in {"pushCopy", "popCopy"})
      => index[t] # index[u]

(* The ring never holds more than one packet less than it has blocks, however
   far the fullness test of a push lies behind its compare-and-swap. *)
NeverOverfull == Reserved - released <= N - 1

(* The flags never strand a block: once no push is under way every packet
   accepted can be popped, and once no pop is under way every block popped can
   be used again, although a thread whose flag is found clear gives up at once. *)
NothingStuck ==
  /\ (\A t \in Threads : ~ Copying(t) /\ ~ Advancing(t)) => visible = Reserved
  /\ (\A t \in Threads : ~ Releasing(t)) => released = taken

(* A pop answers ERR_Again only if the ring is empty, or if a push is still under
   way that has yet to return (and so to trigger the reader's semaphore): the
   reader that goes back to wait on it misses nothing. *)
AgainIsHonest ==
  [][\A t \in Consumers :
       PopEmpty(t) => \/ taken = Reserved
                      \/ \E u \in Producers : Copying(u) \/ Advancing(u)]_vars

(* A push answers ERR_OutOfSpace only while all the N - 1 blocks are in use. It holds
   with one producer: with two, the index that a push compares may be stale. *)
FullIsHonest ==
  [][\A t \in Producers : PushFull(t) => Reserved - released = N - 1]_vars

(* A push that ends at a clear flag leaves nothing behind for which nobody is
   responsible: writeStart has moved on, or the block at writeStart has not been
   written yet, or another push is about to move writeStart. *)
ClearFlagIsExplained ==
  [][\A t \in Producers :
       PushDone(t) => \/ writeStart # index[t]
                      \/ visible >= Reserved
                      \/ \E u \in Producers \ {t} :
                           \/ Copying(u) /\ index[u] = index[t]
                           \/ pc[u] = "pushMove" /\ index[u] = index[t]]_vars

(* Every packet that got a block becomes visible to the pops, whatever the other
   threads do meanwhile. *)
PublishedEventually ==
  \A k \in 1 .. MaxPushes : (Reserved >= k) ~> (visible >= k)

(* The ring implements the queue of RingQueue: a place is taken by the
   compare-and-swap on writeEnd, the packet is published by its flag, and it is
   obtained by the compare-and-swap on readEnd. *)
Queue == INSTANCE RingQueue WITH
  Capacity <- N - 1,
  queue    <- SubSeq(accepted, taken + 1, Reserved),
  holding  <- [t \in Threads |-> IF Copying(t) THEN arg[t] ELSE NoPacket],
  got      <- [t \in Threads |-> IF pc[t] = "popCopy" THEN packet[index[t]] ELSE out[t]]

ImplementsQueue == Queue!Spec
=============================================================================
