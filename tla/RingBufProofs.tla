---------------------------- MODULE RingBufProofs ----------------------------
(***************************************************************************)
(* Theorems about the ring buffer, for any number of pushing and popping   *)
(* threads and any number of blocks, and about the life of a Database and  *)
(* its callback ring, which is this ring with one thread of each kind.     *)
(***************************************************************************)
EXTENDS RingBufInvariant, CallbackRing, SequenceTheorems, TLAPS

-----------------------------------------------------------------------------
(* Block numbers and blocks *)

LEMMA Product ==
  ASSUME NEW q1 \in Nat, NEW q2 \in Nat, q1 < q2
  PROVE  N * q1 \in Nat /\ N * q2 \in Nat /\ N * q2 >= N * q1 + N
<1> DEFINE d == q2 - q1
<1>1. d \in Nat /\ d >= 1 /\ q2 = q1 + d
  OBVIOUS
<1>2. N * q2 = N * q1 + N * d
  BY <1>1, RingAssumption
<1>3. N * d >= N
  BY <1>1, RingAssumption
<1>4. N * d \in Nat /\ N * q1 \in Nat /\ N * q2 \in Nat /\ N \in Nat
  BY <1>1, RingAssumption
<1> HIDE DEF d
<1> QED
  BY <1>2, <1>3, <1>4

LEMMA Division ==
  ASSUME NEW k \in Nat
  PROVE  \E q \in Nat : N * q \in Nat /\ k = N * q + Slot(k) /\ Slot(k) \in 0 .. N - 1
<1> DEFINE q == k \div N
<1>1. q \in Nat /\ N * q \in Nat /\ k = N * q + Slot(k) /\ Slot(k) \in 0 .. N - 1
  BY RingAssumption DEF Slot
<1> QED
  BY <1>1

LEMMA SlotType == \A k \in Nat : Slot(k) \in Blocks
  BY RingAssumption DEF Slot, Blocks

\* block numbers less than one lap apart stand for different blocks
LEMMA SlotInjective ==
  ASSUME NEW a \in Nat, NEW b \in Nat, a <= b, b < a + N, Slot(a) = Slot(b)
  PROVE  a = b
<1>1. PICK qa \in Nat : N * qa \in Nat /\ a = N * qa + Slot(a) /\ Slot(a) \in 0 .. N - 1
  BY Division
<1>2. PICK qb \in Nat : N * qb \in Nat /\ b = N * qb + Slot(b) /\ Slot(b) \in 0 .. N - 1
  BY Division
<1>3. CASE qa = qb
  BY <1>1, <1>2, <1>3
<1>4. CASE qa < qb
  BY <1>1, <1>2, <1>4, Product, RingAssumption
<1>5. CASE qb < qa
  BY <1>1, <1>2, <1>5, Product, RingAssumption
<1> QED
  BY <1>3, <1>4, <1>5

\* the field nextIndex of a block leads to the next block number
LEMMA SlotNext ==
  ASSUME NEW k \in Nat
  PROVE  Slot(k + 1) = NextIndex(Slot(k))
<1>1. PICK q \in Nat : N * q \in Nat /\ k = N * q + Slot(k) /\ Slot(k) \in 0 .. N - 1
  BY Division
<1>2. PICK p \in Nat :
        N * p \in Nat /\ k + 1 = N * p + Slot(k + 1) /\ Slot(k + 1) \in 0 .. N - 1
  BY Division
<1>3. CASE p = q
  BY <1>1, <1>2, <1>3, RingAssumption DEF NextIndex
<1>4. CASE p < q
  BY <1>1, <1>2, <1>4, Product, RingAssumption
<1>5. CASE q < p
  <2>1. N * p >= N * q + N
    BY <1>5, Product
  <2> QED
    BY <1>1, <1>2, <2>1, RingAssumption DEF NextIndex
<1> QED
  BY <1>3, <1>4, <1>5

\* one lap later comes the same block
LEMMA SlotLap ==
  ASSUME NEW k \in Nat
  PROVE  Slot(k + N) = Slot(k)
<1>1. PICK q \in Nat : N * q \in Nat /\ k = N * q + Slot(k) /\ Slot(k) \in 0 .. N - 1
  BY Division
<1>2. PICK p \in Nat :
        N * p \in Nat /\ k + N = N * p + Slot(k + N) /\ Slot(k + N) \in 0 .. N - 1
  <2>1. k + N \in Nat
    BY RingAssumption
  <2> QED
    BY <2>1, Division
<1>3. N * (q + 1) = N * q + N
  BY RingAssumption
<1>4. CASE p = q + 1
  BY <1>1, <1>2, <1>3, <1>4, RingAssumption
<1>5. CASE p < q + 1
  BY <1>1, <1>2, <1>3, <1>5, Product, RingAssumption
<1>6. CASE q + 1 < p
  <2> DEFINE r == q + 1
  <2>1. r \in Nat /\ r < p /\ N * r = N * q + N
    BY <1>3, <1>6
  <2> HIDE DEF r
  <2>2. N * p >= N * r + N
    BY <2>1, Product
  <2> QED
    BY <1>1, <1>2, <2>1, <2>2, RingAssumption
<1> QED
  BY <1>4, <1>5, <1>6

LEMMA NextIndexType == \A i \in Blocks : NextIndex(i) \in Blocks
  BY RingAssumption DEF Blocks, NextIndex

-----------------------------------------------------------------------------
(* Zones: one lemma for each thing a thread does to one *)

\* a thread takes the next block of the zone
LEMMA ZoneReserve ==
  ASSUME NEW flag \in [Blocks -> BOOLEAN], NEW lo \in Nat, NEW hi \in Nat,
         lo <= hi, hi < lo + N,
         NEW tk \in [Threads -> Nat], NEW own \in SUBSET Threads,
         NEW mov \in SUBSET Threads, Zone(flag, lo, hi, tk, own, mov),
         NEW t \in Threads, t \notin own, t \notin mov
  PROVE  Zone(flag, lo, hi + 1, [tk EXCEPT ![t] = hi], own \cup {t}, mov)
<1> DEFINE tk2 == [tk EXCEPT ![t] = hi]
<1>t. tk2[t] = hi /\ \A u \in Threads : u # t => tk2[u] = tk[u]
  OBVIOUS
<1> HIDE DEF tk2
<1>1. ~ flag[Slot(hi)]
  <2> SUFFICES ASSUME flag[Slot(hi)] PROVE FALSE
    OBVIOUS
  <2>1. PICK k \in lo .. hi - 1 : Slot(hi) = Slot(k)
    BY SlotType DEF Zone
  <2> QED
    BY <2>1, SlotInjective, RingAssumption
<1>2. \A u \in own \cup {t} : tk2[u] \in lo .. (hi + 1) - 1 /\ ~ flag[Slot(tk2[u])]
  BY <1>t, <1>1 DEF Zone
<1>3. \A u, v \in own \cup {t} : tk2[u] = tk2[v] => u = v
  BY <1>t DEF Zone
<1>4. \A u \in mov : tk2[u] = lo /\ lo < hi + 1 /\ ~ flag[Slot(lo)]
  BY <1>t DEF Zone
<1>5. \A u \in mov, v \in own \cup {t} : tk2[v] # lo
  BY <1>t DEF Zone
<1>6. ASSUME NEW k \in lo .. (hi + 1) - 1
      PROVE  flag[Slot(k)] \/ (\E u \in own \cup {t} : tk2[u] = k)
               \/ (k = lo /\ \E u \in mov : TRUE)
  BY <1>t DEF Zone
<1>7. \A i \in Blocks : flag[i] => \E k \in lo .. (hi + 1) - 1 : i = Slot(k)
  BY DEF Zone
<1> QED
  BY <1>2, <1>3, <1>4, <1>5, <1>6, <1>7 DEF Zone, tk2

\* a thread flags its block
LEMMA ZoneMark ==
  ASSUME NEW flag \in [Blocks -> BOOLEAN], NEW lo \in Nat, NEW hi \in Nat,
         lo <= hi, hi < lo + N,
         NEW tk \in [Threads -> Nat], NEW own \in SUBSET Threads,
         NEW mov \in SUBSET Threads, Zone(flag, lo, hi, tk, own, mov),
         NEW t \in own
  PROVE  Zone([flag EXCEPT ![Slot(tk[t])] = TRUE], lo, hi, tk, own \ {t}, mov)
<1> DEFINE f2 == [flag EXCEPT ![Slot(tk[t])] = TRUE]
<1>t. tk[t] \in lo .. hi - 1 /\ Slot(tk[t]) \in Blocks
  BY SlotType DEF Zone
<1>f. f2[Slot(tk[t])] /\ \A i \in Blocks : i # Slot(tk[t]) => f2[i] = flag[i]
  BY <1>t
<1> HIDE DEF f2
<1>1. \A k \in lo .. hi - 1 : k # tk[t] => Slot(k) \in Blocks /\ f2[Slot(k)] = flag[Slot(k)]
  <2> SUFFICES ASSUME NEW k \in lo .. hi - 1, k # tk[t]
               PROVE  Slot(k) \in Blocks /\ Slot(k) # Slot(tk[t])
    BY <1>f
  <2>1. CASE k < tk[t]
    BY <2>1, <1>t, SlotType, SlotInjective, RingAssumption
  <2>2. CASE tk[t] < k
    BY <2>2, <1>t, SlotType, SlotInjective, RingAssumption
  <2> QED
    BY <2>1, <2>2, <1>t
<1>2. \A u \in own \ {t} : tk[u] \in lo .. hi - 1 /\ ~ f2[Slot(tk[u])]
  BY <1>1 DEF Zone
<1>3. \A u \in mov : tk[u] = lo /\ lo < hi /\ ~ f2[Slot(lo)]
  BY <1>1 DEF Zone
<1>4. ASSUME NEW k \in lo .. hi - 1
      PROVE  f2[Slot(k)] \/ (\E u \in own \ {t} : tk[u] = k)
               \/ (k = lo /\ \E u \in mov : TRUE)
  BY <1>1, <1>f DEF Zone
<1>5. \A i \in Blocks : f2[i] => \E k \in lo .. hi - 1 : i = Slot(k)
  BY <1>f, <1>t DEF Zone
<1> QED
  BY <1>2, <1>3, <1>4, <1>5 DEF Zone, f2

\* a flag that is found set at the block of a cursor is the first of the zone, and
\* the thread that clears it is the only one to move the cursor
LEMMA ZoneClear ==
  ASSUME NEW flag \in [Blocks -> BOOLEAN], NEW lo \in Nat, NEW hi \in Nat,
         lo <= hi, hi < lo + N,
         NEW tk \in [Threads -> Nat], NEW own \in SUBSET Threads,
         NEW mov \in SUBSET Threads, Zone(flag, lo, hi, tk, own, mov),
         NEW t \in Threads, t \notin own, tk[t] <= lo, hi < tk[t] + N, flag[Slot(tk[t])]
  PROVE  /\ tk[t] = lo
         /\ Zone([flag EXCEPT ![Slot(tk[t])] = FALSE], lo, hi, tk, own, mov \cup {t})
<1>1. tk[t] = lo /\ lo < hi
  <2>1. PICK k \in lo .. hi - 1 : Slot(tk[t]) = Slot(k)
    BY SlotType DEF Zone
  <2> QED
    BY <2>1, SlotInjective, RingAssumption
<1> DEFINE f2 == [flag EXCEPT ![Slot(lo)] = FALSE]
<1>f. ~ f2[Slot(lo)] /\ \A i \in Blocks : i # Slot(lo) => f2[i] = flag[i]
  BY SlotType
<1> HIDE DEF f2
<1>2. mov = {} /\ \A u \in own : tk[u] # lo
  BY <1>1 DEF Zone
<1>3. \A k \in lo .. hi - 1 : k # lo => Slot(k) \in Blocks /\ f2[Slot(k)] = flag[Slot(k)]
  <2> SUFFICES ASSUME NEW k \in lo .. hi - 1, k # lo
               PROVE  Slot(k) \in Blocks /\ Slot(k) # Slot(lo)
    BY <1>f
  <2> QED
    BY SlotType, SlotInjective, RingAssumption
<1>4. \A u \in own : tk[u] \in lo .. hi - 1 /\ ~ f2[Slot(tk[u])]
  BY <1>2, <1>3 DEF Zone
<1>5. ASSUME NEW k \in lo .. hi - 1
      PROVE  f2[Slot(k)] \/ (\E u \in own : tk[u] = k)
               \/ (k = lo /\ \E u \in mov \cup {t} : TRUE)
  BY <1>3 DEF Zone
<1>6. \A i \in Blocks : f2[i] => \E k \in lo .. hi - 1 : i = Slot(k)
  BY <1>f DEF Zone
<1>7. Zone(f2, lo, hi, tk, own, mov \cup {t})
  BY <1>1, <1>2, <1>4, <1>5, <1>6, <1>f DEF Zone
<1> QED
  BY <1>1, <1>7 DEF f2

\* the thread that cleared the flag moves the cursor
LEMMA ZoneMove ==
  ASSUME NEW flag \in [Blocks -> BOOLEAN], NEW lo \in Nat, NEW hi \in Nat,
         lo <= hi, hi < lo + N,
         NEW tk \in [Threads -> Nat], NEW own \in SUBSET Threads,
         NEW mov \in SUBSET Threads, Zone(flag, lo, hi, tk, own, mov),
         NEW t \in mov
  PROVE  tk[t] = lo /\ lo < hi /\ Zone(flag, lo + 1, hi, tk, own, mov \ {t})
<1>1. tk[t] = lo /\ lo < hi /\ ~ flag[Slot(lo)] /\ mov \ {t} = {}
  BY DEF Zone
<1>2. \A u \in own : tk[u] \in lo + 1 .. hi - 1 /\ ~ flag[Slot(tk[u])]
  BY DEF Zone
<1>3. ASSUME NEW k \in lo + 1 .. hi - 1
      PROVE  flag[Slot(k)] \/ (\E u \in own : tk[u] = k)
               \/ (k = lo + 1 /\ \E u \in mov \ {t} : TRUE)
  BY DEF Zone
<1>4. \A i \in Blocks : flag[i] => \E k \in lo + 1 .. hi - 1 : i = Slot(k)
  BY <1>1 DEF Zone
<1> QED
  BY <1>1, <1>2, <1>3, <1>4 DEF Zone

\* threads outside a zone do not disturb it
LEMMA ZoneFrame ==
  ASSUME NEW flag, NEW lo, NEW hi, NEW tk, NEW tk2, NEW own, NEW mov,
         Zone(flag, lo, hi, tk, own, mov), \A u \in own \cup mov : tk2[u] = tk[u]
  PROVE  Zone(flag, lo, hi, tk2, own, mov)
  BY DEF Zone

-----------------------------------------------------------------------------
(* The variables keep their types; in particular every cursor stays a block. *)
LEMMA TypeStep == TypeOK /\ [Next]_vars => TypeOK'
<1> SUFFICES ASSUME TypeOK, [Next]_vars PROVE TypeOK'
  OBVIOUS
<1> USE RingAssumption, NextIndexType
    DEF TypeOK, Goto, flags, cursors, history, Pc, PushPc, PopPc, Reserved
<1>1. ASSUME NEW t \in Threads, PushCall(t) PROVE TypeOK'
  BY <1>1 DEF PushCall, Packet
<1>2. ASSUME NEW t \in Threads, PushLoad(t) PROVE TypeOK'
  BY <1>2 DEF PushLoad
<1>3. ASSUME NEW t \in Threads, PushFull(t) \/ PushSpace(t) \/ PushRetry(t) PROVE TypeOK'
  BY <1>3 DEF PushFull, PushSpace, PushRetry
<1>4. ASSUME NEW t \in Threads, PushReserve(t) PROVE TypeOK'
  <2>1. accepted' \in Seq(Packet \cup {NoPacket})
    BY <1>4 DEF PushReserve
  <2> QED
    BY <1>4, <2>1 DEF PushReserve
<1>5. ASSUME NEW t \in Threads, PushCopy(t) PROVE TypeOK'
  BY <1>5 DEF PushCopy
<1>6. ASSUME NEW t \in Threads, PushMark(t) PROVE TypeOK'
  BY <1>6 DEF PushMark
<1>7. ASSUME NEW t \in Threads, PushScan(t) PROVE TypeOK'
  BY <1>7 DEF PushScan
<1>8. ASSUME NEW t \in Threads, PushClear(t) PROVE TypeOK'
  BY <1>8 DEF PushClear
<1>9. ASSUME NEW t \in Threads, PushDone(t) PROVE TypeOK'
  BY <1>9 DEF PushDone
<1>10. ASSUME NEW t \in Threads, PushMove(t) PROVE TypeOK'
  BY <1>10 DEF PushMove
<1>11. ASSUME NEW t \in Threads, PopCall(t) PROVE TypeOK'
  BY <1>11 DEF PopCall
<1>12. ASSUME NEW t \in Threads, PopLoad(t) PROVE TypeOK'
  BY <1>12 DEF PopLoad
<1>13. ASSUME NEW t \in Threads, PopEmpty(t) \/ PopSome(t) \/ PopRetry(t) PROVE TypeOK'
  BY <1>13 DEF PopEmpty, PopSome, PopRetry
<1>14. ASSUME NEW t \in Threads, PopReserve(t) PROVE TypeOK'
  BY <1>14 DEF PopReserve
<1>15. ASSUME NEW t \in Threads, PopCopy(t) PROVE TypeOK'
  BY <1>15 DEF PopCopy
<1>16. ASSUME NEW t \in Threads, PopMark(t) PROVE TypeOK'
  BY <1>16 DEF PopMark
<1>17. ASSUME NEW t \in Threads, PopScan(t) PROVE TypeOK'
  BY <1>17 DEF PopScan
<1>18. ASSUME NEW t \in Threads, PopClear(t) PROVE TypeOK'
  BY <1>18 DEF PopClear
<1>19. ASSUME NEW t \in Threads, PopDone(t) PROVE TypeOK'
  BY <1>19 DEF PopDone
<1>20. ASSUME NEW t \in Threads, PopMove(t) PROVE TypeOK'
  BY <1>20 DEF PopMove
<1>21. CASE UNCHANGED vars
  BY <1>21 DEF vars
<1> QED
  BY <1>1, <1>2, <1>3, <1>4, <1>5, <1>6, <1>7, <1>8, <1>9, <1>10, <1>11, <1>12,
     <1>13, <1>14, <1>15, <1>16, <1>17, <1>18, <1>19, <1>20, <1>21
  DEF Next, PushStep, PopStep

LEMMA TypeInit == Init => TypeOK
<1> SUFFICES ASSUME Init PROVE TypeOK
  OBVIOUS
<1> USE RingAssumption DEF Init, Blocks
<1>1. hasBeenRead \in [Blocks -> BOOLEAN] /\ hasBeenWritten \in [Blocks -> BOOLEAN]
  BY Zenon
<1>2. packet \in [Blocks -> Packet \cup {NoPacket}]
  OBVIOUS
<1>3. /\ readStart \in Blocks /\ readEnd \in Blocks
      /\ writeStart \in Blocks /\ writeEnd \in Blocks
  OBVIOUS
<1>4. pc \in [Threads -> Pc] /\ index \in [Threads -> Blocks]
  BY DEF Pc
<1>5. /\ arg \in [Threads -> Packet \cup {NoPacket}]
      /\ out \in [Threads -> Packet \cup {NoPacket}]
  OBVIOUS
<1>6. /\ accepted \in Seq(Packet \cup {NoPacket}) /\ ticket \in [Threads -> Nat]
      /\ visible \in Nat /\ taken \in Nat /\ released \in Nat /\ pushes \in 0 .. MaxPushes
  OBVIOUS
<1> QED
  BY <1>1, <1>2, <1>3, <1>4, <1>5, <1>6, Zenon DEF TypeOK

\* In every state of every instance the cursors, the indices the threads have loaded
\* and the blocks hold what their C types and the wrapping of nextIndex promise.
THEOREM TypeCorrect == Spec => []TypeOK
  BY TypeInit, TypeStep, PTL DEF Spec

-----------------------------------------------------------------------------
(* What the steps that move a cursor know when they do so *)

\* no thread is a whole lap behind the others
OneLap == MaxLap < N

Numbers ==
  /\ Reserved \in Nat /\ visible \in Nat /\ taken \in Nat /\ released \in Nat
  /\ ticket \in [Threads -> Nat] /\ index \in [Threads -> Blocks]
  /\ pc \in [Threads -> Pc]
  /\ hasBeenRead \in [Blocks -> BOOLEAN] /\ hasBeenWritten \in [Blocks -> BOOLEAN]
  /\ N \in Nat /\ N >= 2 /\ MaxLap \in Nat

LEMMA NumbersTyped == TypeOK => Numbers
  BY RingAssumption DEF TypeOK, Numbers, Reserved

LEMMA PushReserveFacts ==
  ASSUME TypeOK, RingInv, NEW t \in Threads, PushReserve(t)
  PROVE  /\ ticket[t] = Reserved /\ Reserved + 1 < released + N
         /\ Reserved' = Reserved + 1
         /\ accepted' = Append(accepted, arg[t])
         /\ index[t] = Slot(Reserved)
<1> USE NumbersTyped DEF Numbers
<1>1. pc[t] = "pushReserve" /\ writeEnd = index[t] /\ accepted' = Append(accepted, arg[t])
  BY DEF PushReserve, Goto
<1>2. /\ index[t] = Slot(ticket[t]) /\ Reserved < ticket[t] + N /\ ticket[t] <= Reserved
      /\ ticket[t] = Reserved => Reserved + 1 < released + N
  BY <1>1 DEF RingInv, PushTickets, PushTicket, PushPc
<1>3. writeEnd = Slot(Reserved)
  BY DEF RingInv, Cursors
<1>4. ticket[t] = Reserved
  BY <1>1, <1>2, <1>3, SlotInjective
<1>5. Reserved' = Reserved + 1
  BY <1>1 DEF Reserved, TypeOK
<1> QED
  BY <1>1, <1>2, <1>3, <1>4, <1>5

LEMMA PopReserveFacts ==
  ASSUME TypeOK, RingInv, NEW t \in Threads, PopReserve(t)
  PROVE  /\ ticket[t] = taken /\ taken < visible
         /\ taken' = taken + 1
         /\ index[t] = Slot(taken)
<1> USE NumbersTyped DEF Numbers
<1>1. pc[t] = "popReserve" /\ readEnd = index[t] /\ taken' = taken + 1
  BY DEF PopReserve, Goto
<1>2. /\ index[t] = Slot(ticket[t]) /\ taken < ticket[t] + N /\ ticket[t] <= taken
      /\ ticket[t] = taken => taken < visible
  BY <1>1 DEF RingInv, PopTickets, PopTicket, PopPc
<1>3. readEnd = Slot(taken)
  BY DEF RingInv, Cursors
<1>4. ticket[t] = taken
  BY <1>1, <1>2, <1>3, SlotInjective
<1> QED
  BY <1>1, <1>2, <1>3, <1>4

LEMMA PushMoveFacts ==
  ASSUME TypeOK, RingInv, NEW t \in Threads, PushMove(t)
  PROVE  /\ ticket[t] = visible /\ visible < Reserved
         /\ visible' = visible + 1 /\ writeStart' = NextIndex(writeStart)
<1>1. pc[t] = "pushMove"
  BY DEF PushMove, Goto
<1>2. ticket[t] = visible /\ visible < Reserved
  BY <1>1 DEF RingInv, WriteZone, Zone, WriteMoves
<1>3. index[t] = writeStart
  BY <1>1, <1>2 DEF RingInv, PushTickets, PushTicket, PushPc, Cursors
<1> QED
  BY <1>2, <1>3 DEF PushMove

LEMMA PopMoveFacts ==
  ASSUME TypeOK, RingInv, NEW t \in Threads, PopMove(t)
  PROVE  /\ ticket[t] = released /\ released < taken
         /\ released' = released + 1 /\ readStart' = NextIndex(readStart)
<1>1. pc[t] = "popMove"
  BY DEF PopMove, Goto
<1>2. ticket[t] = released /\ released < taken
  BY <1>1 DEF RingInv, ReadZone, Zone, ReadMoves
<1>3. index[t] = readStart
  BY <1>1, <1>2 DEF RingInv, PopTickets, PopTicket, PopPc, Cursors
<1> QED
  BY <1>2, <1>3 DEF PopMove

-----------------------------------------------------------------------------
(* The cursors *)

LEMMA CursorsStep == TypeOK /\ RingInv /\ [Next]_vars => Cursors'
<1> SUFFICES ASSUME TypeOK, RingInv, [Next]_vars PROVE Cursors'
  OBVIOUS
<1> USE NumbersTyped DEF Numbers
<1>c. Cursors
  BY DEF RingInv
<1>1. ASSUME NEW t \in Threads, PushReserve(t) PROVE Cursors'
  <2>1. writeEnd' = Slot(Reserved + 1)
    BY <1>1, PushReserveFacts, SlotNext DEF PushReserve
  <2>2. UNCHANGED <<visible, taken, released, readStart, readEnd, writeStart>>
    BY <1>1 DEF PushReserve
  <2>3. Reserved' = Reserved + 1 /\ Reserved + 1 < released + N
    BY <1>1, PushReserveFacts
  <2> QED
    BY <2>1, <2>2, <2>3, <1>c DEF Cursors
<1>2. ASSUME NEW t \in Threads, PushMove(t) PROVE Cursors'
  <2>1. writeStart' = Slot(visible + 1)
    BY <1>2, <1>c, PushMoveFacts, SlotNext DEF Cursors
  <2>2. UNCHANGED <<accepted, taken, released, readStart, readEnd, writeEnd>>
    BY <1>2 DEF PushMove
  <2> QED
    BY <1>2, <2>1, <2>2, <1>c, PushMoveFacts DEF Cursors, Reserved
<1>3. ASSUME NEW t \in Threads, PopReserve(t) PROVE Cursors'
  <2>1. readEnd' = Slot(taken + 1)
    BY <1>3, PopReserveFacts, SlotNext DEF PopReserve
  <2>2. UNCHANGED <<accepted, visible, released, readStart, writeStart, writeEnd>>
    BY <1>3 DEF PopReserve
  <2> QED
    BY <1>3, <2>1, <2>2, <1>c, PopReserveFacts DEF Cursors, Reserved
<1>4. ASSUME NEW t \in Threads, PopMove(t) PROVE Cursors'
  <2>1. readStart' = Slot(released + 1)
    BY <1>4, <1>c, PopMoveFacts, SlotNext DEF Cursors
  <2>2. UNCHANGED <<accepted, visible, taken, readEnd, writeStart, writeEnd>>
    BY <1>4 DEF PopMove
  <2> QED
    BY <1>4, <2>1, <2>2, <1>c, PopMoveFacts DEF Cursors, Reserved
<1>5. CASE UNCHANGED <<cursors, accepted, visible, taken, released>>
  BY <1>5, <1>c DEF Cursors, cursors, Reserved
<1>6. ASSUME NEW t \in Threads,
             \/ PushCall(t) \/ PushLoad(t) \/ PushFull(t) \/ PushSpace(t) \/ PushRetry(t)
             \/ PushCopy(t) \/ PushMark(t) \/ PushScan(t) \/ PushClear(t) \/ PushDone(t)
             \/ PopCall(t) \/ PopLoad(t) \/ PopEmpty(t) \/ PopSome(t) \/ PopRetry(t)
             \/ PopCopy(t) \/ PopMark(t) \/ PopScan(t) \/ PopClear(t) \/ PopDone(t)
      PROVE  UNCHANGED <<cursors, accepted, visible, taken, released>>
  BY <1>6 DEF PushCall, PushLoad, PushFull, PushSpace, PushRetry, PushCopy, PushMark,
              PushScan, PushClear, PushDone, PopCall, PopLoad, PopEmpty, PopSome,
              PopRetry, PopCopy, PopMark, PopScan, PopClear, PopDone, history
<1>7. CASE UNCHANGED vars
  BY <1>5, <1>7 DEF vars, history
<1> QED
  BY <1>1, <1>2, <1>3, <1>4, <1>5, <1>6, <1>7 DEF Next, PushStep, PopStep

-----------------------------------------------------------------------------
(* What a step of one thread leaves alone *)

PushStepOf(t) == PushCall(t) \/ PushStep(t)
PopStepOf(t)  == PopCall(t) \/ PopStep(t)

LEMMA OthersUntouched ==
  ASSUME TypeOK, NEW t \in Threads, PushStepOf(t) \/ PopStepOf(t), NEW u \in Threads, u # t
  PROVE  /\ pc'[u] = pc[u] /\ index'[u] = index[u] /\ ticket'[u] = ticket[u]
         /\ arg'[u] = arg[u] /\ out'[u] = out[u]
<1> USE DEF TypeOK, Goto, history
<1>1. CASE PushCall(t)
  BY <1>1 DEF PushCall
<1>2. CASE PushLoad(t) \/ PushFull(t) \/ PushSpace(t) \/ PushRetry(t)
  BY <1>2 DEF PushLoad, PushFull, PushSpace, PushRetry
<1>3. CASE PushReserve(t) \/ PushCopy(t) \/ PushMark(t)
  BY <1>3 DEF PushReserve, PushCopy, PushMark
<1>4. CASE PushScan(t) \/ PushClear(t) \/ PushDone(t) \/ PushMove(t)
  BY <1>4 DEF PushScan, PushClear, PushDone, PushMove
<1>5. CASE PopCall(t)
  BY <1>5 DEF PopCall
<1>6. CASE PopLoad(t) \/ PopEmpty(t) \/ PopSome(t) \/ PopRetry(t)
  BY <1>6 DEF PopLoad, PopEmpty, PopSome, PopRetry
<1>7. CASE PopReserve(t) \/ PopCopy(t) \/ PopMark(t)
  BY <1>7 DEF PopReserve, PopCopy, PopMark
<1>8. CASE PopScan(t) \/ PopClear(t) \/ PopDone(t) \/ PopMove(t)
  BY <1>8 DEF PopScan, PopClear, PopDone, PopMove
<1> QED
  BY <1>1, <1>2, <1>3, <1>4, <1>5, <1>6, <1>7, <1>8
  DEF PushStepOf, PopStepOf, PushStep, PopStep

\* a pop moves none of the variables of the pushes, and the other way round
LEMMA PopLeavesPush ==
  ASSUME NEW t \in Threads, PopStepOf(t)
  PROVE  UNCHANGED <<hasBeenWritten, packet, accepted, visible, writeStart, writeEnd,
                     arg, pushes>>
<1> USE DEF history, flags, cursors
<1>1. CASE PopCall(t) \/ PopLoad(t) \/ PopEmpty(t) \/ PopSome(t) \/ PopRetry(t)
  BY <1>1 DEF PopCall, PopLoad, PopEmpty, PopSome, PopRetry
<1>2. CASE PopReserve(t) \/ PopCopy(t) \/ PopMark(t)
  BY <1>2 DEF PopReserve, PopCopy, PopMark
<1>3. CASE PopScan(t) \/ PopClear(t) \/ PopDone(t) \/ PopMove(t)
  BY <1>3 DEF PopScan, PopClear, PopDone, PopMove
<1> QED
  BY <1>1, <1>2, <1>3 DEF PopStepOf, PopStep

LEMMA PushLeavesPop ==
  ASSUME NEW t \in Threads, PushStepOf(t)
  PROVE  UNCHANGED <<hasBeenRead, taken, released, readStart, readEnd, out>>
<1> USE DEF history, flags, cursors
<1>1. CASE PushCall(t) \/ PushLoad(t) \/ PushFull(t) \/ PushSpace(t) \/ PushRetry(t)
  BY <1>1 DEF PushCall, PushLoad, PushFull, PushSpace, PushRetry
<1>2. CASE PushReserve(t) \/ PushCopy(t) \/ PushMark(t)
  BY <1>2 DEF PushReserve, PushCopy, PushMark
<1>3. CASE PushScan(t) \/ PushClear(t) \/ PushDone(t) \/ PushMove(t)
  BY <1>3 DEF PushScan, PushClear, PushDone, PushMove
<1> QED
  BY <1>1, <1>2, <1>3 DEF PushStepOf, PushStep

\* the numbers never go back, and move one at a time
LEMMA NumbersGrow ==
  ASSUME TypeOK, RingInv, NEW t \in Threads, PushStepOf(t) \/ PopStepOf(t)
  PROVE  /\ Reserved' = Reserved \/ (PushReserve(t) /\ Reserved' = Reserved + 1)
         /\ visible' = visible \/ (PushMove(t) /\ visible' = visible + 1)
         /\ taken' = taken \/ (PopReserve(t) /\ taken' = taken + 1)
         /\ released' = released \/ (PopMove(t) /\ released' = released + 1)
<1> USE DEF history
<1>1. CASE PushStepOf(t)
  <2>1. CASE PushCall(t) \/ PushLoad(t) \/ PushFull(t) \/ PushSpace(t) \/ PushRetry(t)
    BY <1>1, <2>1, PushLeavesPop DEF PushCall, PushLoad, PushFull, PushSpace, PushRetry, Reserved
  <2>2. CASE PushReserve(t)
    BY <1>1, <2>2, PushLeavesPop, PushReserveFacts DEF PushReserve
  <2>3. CASE PushCopy(t) \/ PushMark(t) \/ PushScan(t) \/ PushClear(t) \/ PushDone(t)
    BY <1>1, <2>3, PushLeavesPop DEF PushCopy, PushMark, PushScan, PushClear, PushDone, Reserved
  <2>4. CASE PushMove(t)
    BY <1>1, <2>4, PushLeavesPop DEF PushMove, Reserved
  <2> QED
    BY <1>1, <2>1, <2>2, <2>3, <2>4 DEF PushStepOf, PushStep
<1>2. CASE PopStepOf(t)
  <2>1. CASE PopCall(t) \/ PopLoad(t) \/ PopEmpty(t) \/ PopSome(t) \/ PopRetry(t)
    BY <1>2, <2>1, PopLeavesPush DEF PopCall, PopLoad, PopEmpty, PopSome, PopRetry, Reserved
  <2>2. CASE PopReserve(t)
    BY <1>2, <2>2, PopLeavesPush DEF PopReserve, Reserved
  <2>3. CASE PopCopy(t) \/ PopMark(t) \/ PopScan(t) \/ PopClear(t) \/ PopDone(t)
    BY <1>2, <2>3, PopLeavesPush DEF PopCopy, PopMark, PopScan, PopClear, PopDone, Reserved
  <2>4. CASE PopMove(t)
    BY <1>2, <2>4, PopLeavesPush DEF PopMove, Reserved
  <2> QED
    BY <1>2, <2>1, <2>2, <2>3, <2>4 DEF PopStepOf, PopStep
<1> QED
  BY <1>1, <1>2

-----------------------------------------------------------------------------
(* The tickets of the pushes *)

LEMMA PushTicketOther ==
  ASSUME OneLap, TypeOK, RingInv, NEW t \in Threads, PushStepOf(t) \/ PopStepOf(t),
         NEW u \in Threads, u # t
  PROVE  PushTicket(u)'
<1> USE NumbersTyped DEF Numbers
<1>1. PushTicket(u)
  BY DEF RingInv, PushTickets
<1>2. pc'[u] = pc[u] /\ index'[u] = index[u] /\ ticket'[u] = ticket[u]
  BY OthersUntouched
<1>3. /\ Reserved' = Reserved \/ (PushReserve(t) /\ Reserved' = Reserved + 1)
      /\ visible' \in Nat /\ visible <= visible'
      /\ released' \in Nat /\ released <= released'
  BY NumbersGrow
<1>4. PushReserve(t) /\ pc[u] \in PushPc => Reserved + 1 < ticket[u] + N
  BY DEF PushReserve, WithinLap, OneLap
<1> QED
  BY <1>1, <1>2, <1>3, <1>4 DEF PushTicket, PushPc

LEMMA PushTicketOwn ==
  ASSUME TypeOK, RingInv, NEW t \in Threads, PushStepOf(t)
  PROVE  PushTicket(t)'
<1> USE NumbersTyped DEF Numbers, PushPc
<1>1. PushTicket(t) /\ Cursors
  BY DEF RingInv, PushTickets
<1>2. CASE PushCall(t)
  BY <1>1, <1>2 DEF PushCall, Goto, PushTicket
<1>3. CASE PushLoad(t)
  BY <1>1, <1>3 DEF PushLoad, Goto, PushTicket, Cursors, history, Reserved
<1>4. CASE PushFull(t) \/ PushDone(t) \/ PushRetry(t)
  BY <1>1, <1>4 DEF PushFull, PushDone, PushRetry, Goto, PushTicket
<1>5. CASE PushSpace(t)
  <2>1. pc[t] = "pushCheck" /\ pc'[t] = "pushReserve"
    BY <1>5 DEF PushSpace, Goto
  <2>2. UNCHANGED <<index, ticket, accepted, released>>
    BY <1>5 DEF PushSpace, history
  <2>3. ASSUME ticket[t] = Reserved PROVE Reserved + 1 < released + N
    <3>1. Slot(Reserved + 1) # Slot(released)
      BY <1>1, <1>5, <2>1, <2>3, SlotNext DEF PushSpace, PushTicket, Cursors
    <3>2. Slot(released + N) = Slot(released)
      BY SlotLap
    <3>3. Reserved + 1 # released + N
      BY <3>1, <3>2
    <3> QED
      BY <1>1, <3>3 DEF Cursors
  <2> QED
    BY <1>1, <2>1, <2>2, <2>3 DEF PushTicket, Reserved
<1>6. CASE PushReserve(t)
  <2>1. pc'[t] = "pushCopy" /\ ticket'[t] = Reserved /\ UNCHANGED index
    BY <1>6 DEF PushReserve, Goto
  <2>2. pc[t] = "pushReserve" /\ Reserved' = Reserved + 1 /\ index[t] = Slot(Reserved)
    BY <1>6, PushReserveFacts DEF PushReserve, Goto
  <2> QED
    BY <1>1, <2>1, <2>2 DEF PushTicket
<1>7. CASE PushCopy(t) \/ PushMark(t)
  <2>1. pc[t] \in {"pushCopy", "pushMark"} /\ pc'[t] \in {"pushMark", "pushScan"}
    BY <1>7 DEF PushCopy, PushMark, Goto
  <2>2. UNCHANGED <<index, ticket, accepted, released, visible>>
    BY <1>7 DEF PushCopy, PushMark, history
  <2> QED
    BY <1>1, <2>1, <2>2 DEF PushTicket, Reserved
<1>8. CASE PushScan(t)
  <2>1. /\ pc[t] = "pushScan" /\ pc'[t] = "pushClear" /\ ticket'[t] = visible
        /\ index'[t] = writeStart /\ UNCHANGED <<accepted, released, visible>>
    BY <1>8 DEF PushScan, Goto, history
  <2> QED
    BY <1>1, <2>1 DEF PushTicket, Reserved, Cursors
<1>9. CASE PushClear(t)
  <2>1. /\ pc[t] = "pushClear" /\ pc'[t] = "pushMove"
        /\ UNCHANGED <<index, ticket, accepted, released, visible>>
    BY <1>9 DEF PushClear, Goto, history
  <2> QED
    BY <1>1, <2>1 DEF PushTicket, Reserved
<1>10. CASE PushMove(t)
  <2>1. /\ pc[t] = "pushMove" /\ pc'[t] = "pushScan"
        /\ UNCHANGED <<index, ticket, accepted, released>>
    BY <1>10 DEF PushMove, Goto
  <2> QED
    BY <1>1, <2>1 DEF PushTicket, Reserved
<1> QED
  BY <1>2, <1>3, <1>4, <1>5, <1>6, <1>7, <1>8, <1>9, <1>10 DEF PushStepOf, PushStep

\* a thread that pops is not in a push
LEMMA PopperHasNoPushTicket ==
  ASSUME TypeOK, NEW t \in Threads, PopStepOf(t)
  PROVE  PushTicket(t)'
<1> USE DEF TypeOK, Goto, PushTicket, PushPc, PopStepOf, PopStep
<1>1. pc'[t] \in PopPc \cup {"popEnter", "idle"}
  BY DEF PopCall, PopLoad, PopEmpty, PopSome, PopRetry, PopReserve, PopCopy, PopMark,
         PopScan, PopClear, PopDone, PopMove, PopPc
<1> QED
  BY <1>1 DEF PopPc

LEMMA PushTicketsStep == OneLap /\ TypeOK /\ RingInv /\ Next => PushTickets'
<1> SUFFICES ASSUME OneLap, TypeOK, RingInv, Next, NEW u \in Threads PROVE PushTicket(u)'
  BY DEF PushTickets
<1>1. PICK t \in Threads : PushStepOf(t) \/ PopStepOf(t)
  BY DEF Next, PushStepOf, PopStepOf
<1>2. CASE u # t
  BY <1>1, <1>2, PushTicketOther
<1>3. CASE u = t
  BY <1>1, <1>3, PushTicketOwn, PopperHasNoPushTicket
<1> QED
  BY <1>2, <1>3

-----------------------------------------------------------------------------
(* The tickets of the pops *)

LEMMA PopTicketOther ==
  ASSUME OneLap, TypeOK, RingInv, NEW t \in Threads, PushStepOf(t) \/ PopStepOf(t),
         NEW u \in Threads, u # t
  PROVE  PopTicket(u)'
<1> USE NumbersTyped DEF Numbers
<1>1. PopTicket(u)
  BY DEF RingInv, PopTickets
<1>2. pc'[u] = pc[u] /\ index'[u] = index[u] /\ ticket'[u] = ticket[u]
  BY OthersUntouched
<1>3. /\ taken' = taken \/ (PopReserve(t) /\ taken' = taken + 1)
      /\ visible' \in Nat /\ visible <= visible'
      /\ released' \in Nat /\ released <= released'
  BY NumbersGrow
<1>4. PopReserve(t) /\ pc[u] \in PopPc => taken + 1 < ticket[u] + N
  BY DEF PopReserve, WithinLap, OneLap
<1> QED
  BY <1>1, <1>2, <1>3, <1>4 DEF PopTicket, PopPc

LEMMA PopTicketOwn ==
  ASSUME TypeOK, RingInv, NEW t \in Threads, PopStepOf(t)
  PROVE  PopTicket(t)'
<1> USE NumbersTyped DEF Numbers, PopPc
<1>1. PopTicket(t) /\ Cursors
  BY DEF RingInv, PopTickets
<1>2. CASE PopCall(t)
  BY <1>1, <1>2 DEF PopCall, Goto, PopTicket
<1>3. CASE PopLoad(t)
  BY <1>1, <1>3 DEF PopLoad, Goto, PopTicket, Cursors, history
<1>4. CASE PopEmpty(t) \/ PopDone(t) \/ PopRetry(t)
  BY <1>1, <1>4 DEF PopEmpty, PopDone, PopRetry, Goto, PopTicket
<1>5. CASE PopSome(t)
  <2>1. /\ pc[t] = "popCheck" /\ pc'[t] = "popReserve" /\ index[t] # writeStart
        /\ UNCHANGED <<index, ticket, taken, visible>>
    BY <1>5 DEF PopSome, Goto, history
  <2>2. ticket[t] # visible
    BY <1>1, <2>1 DEF PopTicket, Cursors
  <2> QED
    BY <1>1, <2>1, <2>2 DEF PopTicket, Cursors
<1>6. CASE PopReserve(t)
  <2>1. pc'[t] = "popCopy" /\ ticket'[t] = taken /\ UNCHANGED index
    BY <1>6 DEF PopReserve, Goto
  <2>2. pc[t] = "popReserve" /\ taken' = taken + 1 /\ index[t] = Slot(taken)
    BY <1>6, PopReserveFacts DEF PopReserve, Goto
  <2> QED
    BY <1>1, <2>1, <2>2 DEF PopTicket
<1>7. CASE PopCopy(t) \/ PopMark(t)
  <2>1. pc[t] \in {"popCopy", "popMark"} /\ pc'[t] \in {"popMark", "popScan"}
    BY <1>7 DEF PopCopy, PopMark, Goto
  <2>2. UNCHANGED <<index, ticket, taken, released, visible>>
    BY <1>7 DEF PopCopy, PopMark, history
  <2> QED
    BY <1>1, <2>1, <2>2 DEF PopTicket
<1>8. CASE PopScan(t)
  <2>1. /\ pc[t] = "popScan" /\ pc'[t] = "popClear" /\ ticket'[t] = released
        /\ index'[t] = readStart /\ UNCHANGED <<taken, released, visible>>
    BY <1>8 DEF PopScan, Goto, history
  <2>2. taken < released + N /\ readStart = Slot(released)
    BY <1>1 DEF Cursors
  <2> QED
    BY <1>1, <2>1, <2>2 DEF PopTicket
<1>9. CASE PopClear(t)
  <2>1. /\ pc[t] = "popClear" /\ pc'[t] = "popMove"
        /\ UNCHANGED <<index, ticket, taken, released, visible>>
    BY <1>9 DEF PopClear, Goto, history
  <2> QED
    BY <1>1, <2>1 DEF PopTicket
<1>10. CASE PopMove(t)
  <2>1. /\ pc[t] = "popMove" /\ pc'[t] = "popScan"
        /\ UNCHANGED <<index, ticket, taken, visible>>
    BY <1>10 DEF PopMove, Goto
  <2> QED
    BY <1>1, <2>1 DEF PopTicket
<1> QED
  BY <1>2, <1>3, <1>4, <1>5, <1>6, <1>7, <1>8, <1>9, <1>10 DEF PopStepOf, PopStep

\* a thread that pushes is not in a pop
LEMMA PusherHasNoPopTicket ==
  ASSUME TypeOK, NEW t \in Threads, PushStepOf(t)
  PROVE  PopTicket(t)'
<1> USE DEF TypeOK, Goto, PopTicket, PopPc, PushStepOf, PushStep
<1>1. pc'[t] \in PushPc \cup {"pushEnter", "idle"}
  BY DEF PushCall, PushLoad, PushFull, PushSpace, PushRetry, PushReserve, PushCopy,
         PushMark, PushScan, PushClear, PushDone, PushMove, PushPc
<1> QED
  BY <1>1 DEF PushPc

LEMMA PopTicketsStep == OneLap /\ TypeOK /\ RingInv /\ Next => PopTickets'
<1> SUFFICES ASSUME OneLap, TypeOK, RingInv, Next, NEW u \in Threads PROVE PopTicket(u)'
  BY DEF PopTickets
<1>1. PICK t \in Threads : PushStepOf(t) \/ PopStepOf(t)
  BY DEF Next, PushStepOf, PopStepOf
<1>2. CASE u # t
  BY <1>1, <1>2, PopTicketOther
<1>3. CASE u = t
  BY <1>1, <1>3, PopTicketOwn, PusherHasNoPopTicket
<1> QED
  BY <1>2, <1>3

-----------------------------------------------------------------------------
(* The zone of the pushes *)

\* a step that changes neither the flags nor the threads of the zone
LEMMA WriteZoneFrame ==
  ASSUME WriteZone, UNCHANGED <<hasBeenWritten, visible, Reserved, Writing, WriteMoves>>,
         \A u \in Writing \cup WriteMoves : ticket'[u] = ticket[u]
  PROVE  WriteZone'
  BY ZoneFrame DEF WriteZone

LEMMA WriteZoneStep == TypeOK /\ RingInv /\ Next => WriteZone'
<1> SUFFICES ASSUME TypeOK, RingInv, NEW t \in Threads, PushStepOf(t) \/ PopStepOf(t)
             PROVE  WriteZone'
  BY DEF Next, PushStepOf, PopStepOf
<1> USE NumbersTyped DEF Numbers
<1>z. WriteZone
  BY DEF RingInv
<1>b. visible <= Reserved /\ Reserved < visible + N
  BY DEF RingInv, Cursors
<1>s. Writing \in SUBSET Threads /\ WriteMoves \in SUBSET Threads
  BY DEF Writing, WriteMoves
<1>1. CASE PopStepOf(t)
  <2>1. pc[t] \in PopPc \cup {"popEnter", "idle"} /\ pc'[t] \in PopPc \cup {"popEnter", "idle"}
    BY <1>1 DEF PopStepOf, PopStep, PopCall, PopLoad, PopEmpty, PopSome, PopRetry,
                PopReserve, PopCopy, PopMark, PopScan, PopClear, PopDone, PopMove,
                PopPc, Goto, TypeOK
  <2>2. UNCHANGED <<Writing, WriteMoves>>
    BY <1>1, <2>1, OthersUntouched DEF Writing, WriteMoves, PopPc
  <2>3. \A u \in Writing \cup WriteMoves : ticket'[u] = ticket[u]
    BY <1>1, <2>1, OthersUntouched DEF Writing, WriteMoves, PopPc
  <2>4. UNCHANGED <<hasBeenWritten, visible, Reserved>>
    BY <1>1, PopLeavesPush DEF Reserved
  <2> QED
    BY <1>z, <2>2, <2>3, <2>4, WriteZoneFrame
<1>2. CASE PushCall(t) \/ PushLoad(t) \/ PushFull(t) \/ PushSpace(t) \/ PushRetry(t)
             \/ PushScan(t) \/ PushDone(t)
  <2>1. /\ pc[t] \notin {"pushCopy", "pushMark", "pushMove"}
        /\ pc'[t] \notin {"pushCopy", "pushMark", "pushMove"}
        /\ UNCHANGED <<hasBeenWritten, visible, accepted>>
    BY <1>2 DEF PushCall, PushLoad, PushFull, PushSpace, PushRetry, PushScan, PushDone,
                Goto, history, flags
  <2>2. PushStepOf(t)
    BY <1>2 DEF PushStepOf, PushStep
  <2>3. UNCHANGED <<Writing, WriteMoves>>
    BY <2>1, <2>2, OthersUntouched DEF Writing, WriteMoves
  <2>4. \A u \in Writing \cup WriteMoves : ticket'[u] = ticket[u]
    BY <2>1, <2>2, OthersUntouched DEF Writing, WriteMoves
  <2> QED
    BY <1>z, <2>1, <2>3, <2>4, WriteZoneFrame DEF Reserved
<1>3. CASE PushCopy(t)
  <2>1. /\ pc' = [pc EXCEPT ![t] = "pushMark"] /\ pc[t] = "pushCopy"
        /\ UNCHANGED <<hasBeenWritten, visible, accepted, ticket>>
    BY <1>3 DEF PushCopy, Goto, history, flags
  <2>2. UNCHANGED <<Writing, WriteMoves>>
    BY <2>1 DEF Writing, WriteMoves
  <2> QED
    BY <1>z, <2>1, <2>2, WriteZoneFrame DEF Reserved
<1>4. CASE PushReserve(t)
  <2>1. /\ pc' = [pc EXCEPT ![t] = "pushCopy"] /\ pc[t] = "pushReserve"
        /\ UNCHANGED <<hasBeenWritten, visible>> /\ ticket' = [ticket EXCEPT ![t] = Reserved]
    BY <1>4 DEF PushReserve, Goto, flags
  <2>2. Writing' = Writing \cup {t} /\ WriteMoves' = WriteMoves /\ t \notin Writing \cup WriteMoves
    BY <2>1 DEF Writing, WriteMoves
  <2>3. Reserved' = Reserved + 1
    BY <1>4, PushReserveFacts
  <2>4. Zone(hasBeenWritten, visible, Reserved + 1, [ticket EXCEPT ![t] = Reserved],
             Writing \cup {t}, WriteMoves)
    BY <1>z, <1>b, <1>s, <2>2, ZoneReserve DEF WriteZone
  <2> QED
    BY <2>1, <2>2, <2>3, <2>4 DEF WriteZone
<1>5. CASE PushMark(t)
  <2>1. /\ pc' = [pc EXCEPT ![t] = "pushScan"] /\ pc[t] = "pushMark"
        /\ UNCHANGED <<visible, accepted, ticket>>
        /\ hasBeenWritten' = [hasBeenWritten EXCEPT ![index[t]] = TRUE]
    BY <1>5 DEF PushMark, Goto, history
  <2>2. index[t] = Slot(ticket[t])
    BY <2>1 DEF RingInv, PushTickets, PushTicket, PushPc
  <2>3. t \in Writing /\ Writing' = Writing \ {t} /\ WriteMoves' = WriteMoves
    BY <2>1 DEF Writing, WriteMoves
  <2>4. Zone([hasBeenWritten EXCEPT ![Slot(ticket[t])] = TRUE], visible, Reserved, ticket,
             Writing \ {t}, WriteMoves)
    BY <1>z, <1>b, <1>s, <2>3, ZoneMark DEF WriteZone
  <2> QED
    BY <2>1, <2>2, <2>3, <2>4 DEF WriteZone, Reserved
<1>6. CASE PushClear(t)
  <2>1. /\ pc' = [pc EXCEPT ![t] = "pushMove"] /\ pc[t] = "pushClear"
        /\ UNCHANGED <<visible, accepted, ticket>> /\ hasBeenWritten[index[t]]
        /\ hasBeenWritten' = [hasBeenWritten EXCEPT ![index[t]] = FALSE]
    BY <1>6 DEF PushClear, Goto, history
  <2>2. index[t] = Slot(ticket[t]) /\ Reserved < ticket[t] + N /\ ticket[t] <= visible
    BY <2>1 DEF RingInv, PushTickets, PushTicket, PushPc
  <2>3. t \notin Writing /\ Writing' = Writing /\ WriteMoves' = WriteMoves \cup {t}
    BY <2>1 DEF Writing, WriteMoves
  <2>4. Zone([hasBeenWritten EXCEPT ![Slot(ticket[t])] = FALSE], visible, Reserved, ticket,
             Writing, WriteMoves \cup {t})
    <3>1. hasBeenWritten[Slot(ticket[t])]
      BY <2>1, <2>2
    <3>2. Zone(hasBeenWritten, visible, Reserved, ticket, Writing, WriteMoves)
      BY <1>z DEF WriteZone
    <3> QED
      BY <1>b, <1>s, <2>2, <2>3, <3>1, <3>2, ZoneClear
  <2> QED
    BY <2>1, <2>2, <2>3, <2>4 DEF WriteZone, Reserved
<1>7. CASE PushMove(t)
  <2>1. /\ pc' = [pc EXCEPT ![t] = "pushScan"] /\ pc[t] = "pushMove"
        /\ UNCHANGED <<hasBeenWritten, accepted, ticket>>
    BY <1>7 DEF PushMove, Goto, flags
  <2>2. t \in WriteMoves /\ Writing' = Writing /\ WriteMoves' = WriteMoves \ {t}
    BY <2>1 DEF Writing, WriteMoves
  <2>3. visible' = visible + 1
    BY <1>7, PushMoveFacts
  <2>4. Zone(hasBeenWritten, visible + 1, Reserved, ticket, Writing, WriteMoves \ {t})
    BY <1>z, <1>b, <1>s, <2>2, ZoneMove DEF WriteZone
  <2> QED
    BY <2>1, <2>2, <2>3, <2>4 DEF WriteZone, Reserved
<1> QED
  BY <1>1, <1>2, <1>3, <1>4, <1>5, <1>6, <1>7 DEF PushStepOf, PushStep

-----------------------------------------------------------------------------
(* The zone of the pops *)

LEMMA ReadZoneFrame ==
  ASSUME ReadZone, UNCHANGED <<hasBeenRead, released, taken, Reading, ReadMoves>>,
         \A u \in Reading \cup ReadMoves : ticket'[u] = ticket[u]
  PROVE  ReadZone'
  BY ZoneFrame DEF ReadZone

LEMMA ReadZoneStep == TypeOK /\ RingInv /\ Next => ReadZone'
<1> SUFFICES ASSUME TypeOK, RingInv, NEW t \in Threads, PushStepOf(t) \/ PopStepOf(t)
             PROVE  ReadZone'
  BY DEF Next, PushStepOf, PopStepOf
<1> USE NumbersTyped DEF Numbers
<1>z. ReadZone
  BY DEF RingInv
<1>b. released <= taken /\ taken < released + N
  BY DEF RingInv, Cursors
<1>s. Reading \in SUBSET Threads /\ ReadMoves \in SUBSET Threads
  BY DEF Reading, ReadMoves
<1>1. CASE PushStepOf(t)
  <2>1. /\ pc[t] \in PushPc \cup {"pushEnter", "idle"}
        /\ pc'[t] \in PushPc \cup {"pushEnter", "idle"}
    BY <1>1 DEF PushStepOf, PushStep, PushCall, PushLoad, PushFull, PushSpace, PushRetry,
                PushReserve, PushCopy, PushMark, PushScan, PushClear, PushDone, PushMove,
                PushPc, Goto, TypeOK
  <2>2. UNCHANGED <<Reading, ReadMoves>>
    BY <1>1, <2>1, OthersUntouched DEF Reading, ReadMoves, PushPc
  <2>3. \A u \in Reading \cup ReadMoves : ticket'[u] = ticket[u]
    BY <1>1, <2>1, OthersUntouched DEF Reading, ReadMoves, PushPc
  <2>4. UNCHANGED <<hasBeenRead, released, taken>>
    BY <1>1, PushLeavesPop
  <2> QED
    BY <1>z, <2>2, <2>3, <2>4, ReadZoneFrame
<1>2. CASE PopCall(t) \/ PopLoad(t) \/ PopEmpty(t) \/ PopSome(t) \/ PopRetry(t)
             \/ PopScan(t) \/ PopDone(t)
  <2>1. /\ pc[t] \notin {"popCopy", "popMark", "popMove"}
        /\ pc'[t] \notin {"popCopy", "popMark", "popMove"}
        /\ UNCHANGED <<hasBeenRead, released, taken>>
    BY <1>2 DEF PopCall, PopLoad, PopEmpty, PopSome, PopRetry, PopScan, PopDone,
                Goto, history, flags
  <2>2. PopStepOf(t)
    BY <1>2 DEF PopStepOf, PopStep
  <2>3. UNCHANGED <<Reading, ReadMoves>>
    BY <2>1, <2>2, OthersUntouched DEF Reading, ReadMoves
  <2>4. \A u \in Reading \cup ReadMoves : ticket'[u] = ticket[u]
    BY <2>1, <2>2, OthersUntouched DEF Reading, ReadMoves
  <2> QED
    BY <1>z, <2>1, <2>3, <2>4, ReadZoneFrame
<1>3. CASE PopCopy(t)
  <2>1. /\ pc' = [pc EXCEPT ![t] = "popMark"] /\ pc[t] = "popCopy"
        /\ UNCHANGED <<hasBeenRead, released, taken, ticket>>
    BY <1>3 DEF PopCopy, Goto, history, flags
  <2>2. UNCHANGED <<Reading, ReadMoves>>
    BY <2>1 DEF Reading, ReadMoves
  <2> QED
    BY <1>z, <2>1, <2>2, ReadZoneFrame
<1>4. CASE PopReserve(t)
  <2>1. /\ pc' = [pc EXCEPT ![t] = "popCopy"] /\ pc[t] = "popReserve"
        /\ UNCHANGED <<hasBeenRead, released>> /\ ticket' = [ticket EXCEPT ![t] = taken]
        /\ taken' = taken + 1
    BY <1>4 DEF PopReserve, Goto, flags
  <2>2. Reading' = Reading \cup {t} /\ ReadMoves' = ReadMoves /\ t \notin Reading \cup ReadMoves
    BY <2>1 DEF Reading, ReadMoves
  <2>3. Zone(hasBeenRead, released, taken + 1, [ticket EXCEPT ![t] = taken],
             Reading \cup {t}, ReadMoves)
    BY <1>z, <1>b, <1>s, <2>2, ZoneReserve DEF ReadZone
  <2> QED
    BY <2>1, <2>2, <2>3 DEF ReadZone
<1>5. CASE PopMark(t)
  <2>1. /\ pc' = [pc EXCEPT ![t] = "popScan"] /\ pc[t] = "popMark"
        /\ UNCHANGED <<released, taken, ticket>>
        /\ hasBeenRead' = [hasBeenRead EXCEPT ![index[t]] = TRUE]
    BY <1>5 DEF PopMark, Goto, history
  <2>2. index[t] = Slot(ticket[t])
    BY <2>1 DEF RingInv, PopTickets, PopTicket, PopPc
  <2>3. t \in Reading /\ Reading' = Reading \ {t} /\ ReadMoves' = ReadMoves
    BY <2>1 DEF Reading, ReadMoves
  <2>4. Zone([hasBeenRead EXCEPT ![Slot(ticket[t])] = TRUE], released, taken, ticket,
             Reading \ {t}, ReadMoves)
    BY <1>z, <1>b, <1>s, <2>3, ZoneMark DEF ReadZone
  <2> QED
    BY <2>1, <2>2, <2>3, <2>4 DEF ReadZone
<1>6. CASE PopClear(t)
  <2>1. /\ pc' = [pc EXCEPT ![t] = "popMove"] /\ pc[t] = "popClear"
        /\ UNCHANGED <<released, taken, ticket>> /\ hasBeenRead[index[t]]
        /\ hasBeenRead' = [hasBeenRead EXCEPT ![index[t]] = FALSE]
    BY <1>6 DEF PopClear, Goto, history
  <2>2. index[t] = Slot(ticket[t]) /\ taken < ticket[t] + N /\ ticket[t] <= released
    BY <2>1 DEF RingInv, PopTickets, PopTicket, PopPc
  <2>3. t \notin Reading /\ Reading' = Reading /\ ReadMoves' = ReadMoves \cup {t}
    BY <2>1 DEF Reading, ReadMoves
  <2>4. Zone([hasBeenRead EXCEPT ![Slot(ticket[t])] = FALSE], released, taken, ticket,
             Reading, ReadMoves \cup {t})
    <3>1. hasBeenRead[Slot(ticket[t])]
      BY <2>1, <2>2
    <3>2. Zone(hasBeenRead, released, taken, ticket, Reading, ReadMoves)
      BY <1>z DEF ReadZone
    <3> QED
      BY <1>b, <1>s, <2>2, <2>3, <3>1, <3>2, ZoneClear
  <2> QED
    BY <2>1, <2>2, <2>3, <2>4 DEF ReadZone
<1>7. CASE PopMove(t)
  <2>1. /\ pc' = [pc EXCEPT ![t] = "popScan"] /\ pc[t] = "popMove"
        /\ UNCHANGED <<hasBeenRead, taken, ticket>>
    BY <1>7 DEF PopMove, Goto, flags
  <2>2. t \in ReadMoves /\ Reading' = Reading /\ ReadMoves' = ReadMoves \ {t}
    BY <2>1 DEF Reading, ReadMoves
  <2>3. released' = released + 1
    BY <1>7, PopMoveFacts
  <2>4. Zone(hasBeenRead, released + 1, taken, ticket, Reading, ReadMoves \ {t})
    BY <1>z, <1>b, <1>s, <2>2, ZoneMove DEF ReadZone
  <2> QED
    BY <2>1, <2>2, <2>3, <2>4 DEF ReadZone
<1> QED
  BY <1>1, <1>2, <1>3, <1>4, <1>5, <1>6, <1>7 DEF PopStepOf, PopStep

-----------------------------------------------------------------------------
(* Somebody clears the first flag of a zone *)

LEMMA WriteResponsibleStep == TypeOK /\ RingInv /\ Next => WriteResponsible'
<1> SUFFICES ASSUME TypeOK, RingInv, NEW t \in Threads, PushStepOf(t) \/ PopStepOf(t),
                    visible' < Reserved', hasBeenWritten'[Slot(visible')]
             PROVE  \E u \in Threads : pc'[u] = "pushScan"
                                        \/ (pc'[u] = "pushClear" /\ ticket'[u] = visible')
  BY DEF Next, PushStepOf, PopStepOf, WriteResponsible
<1> USE NumbersTyped DEF Numbers
<1> DEFINE Clears(u) == pc[u] = "pushScan" \/ (pc[u] = "pushClear" /\ ticket[u] = visible)
<1>r. visible < Reserved /\ hasBeenWritten[Slot(visible)] => \E u \in Threads : Clears(u)
  BY DEF RingInv, WriteResponsible
<1>1. ASSUME visible < Reserved, hasBeenWritten[Slot(visible)], UNCHANGED visible,
             Clears(t) => pc'[t] = "pushScan" \/ (pc'[t] = "pushClear" /\ ticket'[t] = visible)
      PROVE  \E u \in Threads : pc'[u] = "pushScan"
                                 \/ (pc'[u] = "pushClear" /\ ticket'[u] = visible')
  <2>1. PICK u \in Threads : Clears(u)
    BY <1>1, <1>r
  <2>2. CASE u = t
    BY <1>1, <2>1, <2>2
  <2>3. CASE u # t
    BY <1>1, <2>1, <2>3, OthersUntouched
  <2> QED
    BY <2>2, <2>3
<1>2. CASE PopStepOf(t)
  <2>1. pc[t] # "pushScan" /\ pc[t] # "pushClear"
    BY <1>2 DEF PopStepOf, PopStep, PopCall, PopLoad, PopEmpty, PopSome, PopRetry,
                PopReserve, PopCopy, PopMark, PopScan, PopClear, PopDone, PopMove, Goto
  <2> QED
    BY <1>1, <1>2, <2>1, PopLeavesPush DEF Reserved
<1>3. CASE PushCall(t) \/ PushLoad(t) \/ PushFull(t) \/ PushSpace(t) \/ PushRetry(t)
             \/ PushCopy(t)
  <2>1. /\ pc[t] # "pushScan" /\ pc[t] # "pushClear"
        /\ UNCHANGED <<hasBeenWritten, visible, accepted>>
    BY <1>3 DEF PushCall, PushLoad, PushFull, PushSpace, PushRetry, PushCopy, Goto,
                history, flags
  <2> QED
    BY <1>1, <2>1 DEF Reserved
<1>4. CASE PushReserve(t)
  \* the block that was just taken is not flagged
  <2>1. pc[t] = "pushReserve" /\ UNCHANGED <<hasBeenWritten, visible>>
    BY <1>4 DEF PushReserve, Goto, flags
  <2>2. visible # Reserved
    <3>1. SUFFICES ASSUME visible = Reserved PROVE FALSE
      OBVIOUS
    <3>2. hasBeenWritten[Slot(visible)] /\ Slot(visible) \in Blocks
      BY <2>1, SlotType
    <3> QED
      BY <3>1, <3>2 DEF RingInv, WriteZone, Zone
  <2>3. visible < Reserved
    BY <2>2 DEF RingInv, Cursors
  <2> QED
    BY <1>1, <2>1, <2>3
<1>5. CASE PushMark(t)
  BY <1>5 DEF PushMark, Goto
<1>6. CASE PushScan(t)
  <2>1. /\ pc'[t] = "pushClear" /\ ticket'[t] = visible
        /\ UNCHANGED <<hasBeenWritten, visible, accepted>>
    BY <1>6 DEF PushScan, Goto, history, flags
  <2> QED
    BY <2>1
<1>7. CASE PushClear(t)
  \* the first flag has just been cleared
  <2>1. /\ pc[t] = "pushClear" /\ UNCHANGED <<visible, accepted>>
        /\ hasBeenWritten' = [hasBeenWritten EXCEPT ![index[t]] = FALSE]
        /\ hasBeenWritten[index[t]]
    BY <1>7 DEF PushClear, Goto, history
  <2>2. visible < Reserved /\ hasBeenWritten[Slot(visible)]
    BY <2>1, SlotType DEF Reserved
  <2>3. ticket[t] = visible /\ index[t] = Slot(ticket[t])
    <3>1. index[t] = Slot(ticket[t]) /\ Reserved < ticket[t] + N /\ ticket[t] <= visible
      BY <2>1 DEF RingInv, PushTickets, PushTicket, PushPc
    <3>2. PICK k \in visible .. Reserved - 1 : Slot(ticket[t]) = Slot(k)
      BY <2>1, <3>1 DEF RingInv, WriteZone, Zone
    <3> QED
      BY <3>1, <3>2, SlotInjective
  <2> QED
    BY <2>1, <2>3, SlotType
<1>8. CASE PushDone(t)
  <2>1. /\ pc[t] = "pushClear" /\ ~ hasBeenWritten[index[t]]
        /\ UNCHANGED <<hasBeenWritten, visible, accepted>>
    BY <1>8 DEF PushDone, Goto, history, flags
  <2>2. index[t] = Slot(ticket[t])
    BY <2>1 DEF RingInv, PushTickets, PushTicket, PushPc
  <2>3. ~ Clears(t)
    BY <2>1, <2>2
  <2> QED
    BY <1>1, <2>1, <2>3 DEF Reserved
<1>9. CASE PushMove(t)
  BY <1>9 DEF PushMove, Goto
<1> QED
  BY <1>2, <1>3, <1>4, <1>5, <1>6, <1>7, <1>8, <1>9 DEF PushStepOf, PushStep

LEMMA ReadResponsibleStep == TypeOK /\ RingInv /\ Next => ReadResponsible'
<1> SUFFICES ASSUME TypeOK, RingInv, NEW t \in Threads, PushStepOf(t) \/ PopStepOf(t),
                    released' < taken', hasBeenRead'[Slot(released')]
             PROVE  \E u \in Threads : pc'[u] = "popScan"
                                        \/ (pc'[u] = "popClear" /\ ticket'[u] = released')
  BY DEF Next, PushStepOf, PopStepOf, ReadResponsible
<1> USE NumbersTyped DEF Numbers
<1> DEFINE Clears(u) == pc[u] = "popScan" \/ (pc[u] = "popClear" /\ ticket[u] = released)
<1>r. released < taken /\ hasBeenRead[Slot(released)] => \E u \in Threads : Clears(u)
  BY DEF RingInv, ReadResponsible
<1>1. ASSUME released < taken, hasBeenRead[Slot(released)], UNCHANGED released,
             Clears(t) => pc'[t] = "popScan" \/ (pc'[t] = "popClear" /\ ticket'[t] = released)
      PROVE  \E u \in Threads : pc'[u] = "popScan"
                                 \/ (pc'[u] = "popClear" /\ ticket'[u] = released')
  <2>1. PICK u \in Threads : Clears(u)
    BY <1>1, <1>r
  <2>2. CASE u = t
    BY <1>1, <2>1, <2>2
  <2>3. CASE u # t
    BY <1>1, <2>1, <2>3, OthersUntouched
  <2> QED
    BY <2>2, <2>3
<1>2. CASE PushStepOf(t)
  <2>1. pc[t] # "popScan" /\ pc[t] # "popClear"
    BY <1>2 DEF PushStepOf, PushStep, PushCall, PushLoad, PushFull, PushSpace, PushRetry,
                PushReserve, PushCopy, PushMark, PushScan, PushClear, PushDone, PushMove, Goto
  <2> QED
    BY <1>1, <1>2, <2>1, PushLeavesPop
<1>3. CASE PopCall(t) \/ PopLoad(t) \/ PopEmpty(t) \/ PopSome(t) \/ PopRetry(t)
             \/ PopCopy(t)
  <2>1. /\ pc[t] # "popScan" /\ pc[t] # "popClear"
        /\ UNCHANGED <<hasBeenRead, released, taken>>
    BY <1>3 DEF PopCall, PopLoad, PopEmpty, PopSome, PopRetry, PopCopy, Goto,
                history, flags
  <2> QED
    BY <1>1, <2>1
<1>4. CASE PopReserve(t)
  \* the block that was just taken is not flagged
  <2>1. pc[t] = "popReserve" /\ UNCHANGED <<hasBeenRead, released>>
    BY <1>4 DEF PopReserve, Goto, flags
  <2>2. released # taken
    <3>1. SUFFICES ASSUME released = taken PROVE FALSE
      OBVIOUS
    <3>2. hasBeenRead[Slot(released)] /\ Slot(released) \in Blocks
      BY <2>1, SlotType
    <3> QED
      BY <3>1, <3>2 DEF RingInv, ReadZone, Zone
  <2>3. released < taken
    BY <2>2 DEF RingInv, Cursors
  <2> QED
    BY <1>1, <2>1, <2>3
<1>5. CASE PopMark(t)
  BY <1>5 DEF PopMark, Goto
<1>6. CASE PopScan(t)
  <2>1. /\ pc'[t] = "popClear" /\ ticket'[t] = released
        /\ UNCHANGED <<hasBeenRead, released, taken>>
    BY <1>6 DEF PopScan, Goto, history, flags
  <2> QED
    BY <2>1
<1>7. CASE PopClear(t)
  \* the first flag has just been cleared
  <2>1. /\ pc[t] = "popClear" /\ UNCHANGED <<released, taken>>
        /\ hasBeenRead' = [hasBeenRead EXCEPT ![index[t]] = FALSE]
        /\ hasBeenRead[index[t]]
    BY <1>7 DEF PopClear, Goto, history
  <2>2. ticket[t] = released /\ index[t] = Slot(ticket[t])
    <3>1. index[t] = Slot(ticket[t]) /\ taken < ticket[t] + N /\ ticket[t] <= released
      BY <2>1 DEF RingInv, PopTickets, PopTicket, PopPc
    <3>2. PICK k \in released .. taken - 1 : Slot(ticket[t]) = Slot(k)
      BY <2>1, <3>1 DEF RingInv, ReadZone, Zone
    <3> QED
      BY <3>1, <3>2, SlotInjective
  <2> QED
    BY <2>1, <2>2, SlotType
<1>8. CASE PopDone(t)
  <2>1. /\ pc[t] = "popClear" /\ ~ hasBeenRead[index[t]]
        /\ UNCHANGED <<hasBeenRead, released, taken>>
    BY <1>8 DEF PopDone, Goto, history, flags
  <2>2. index[t] = Slot(ticket[t])
    BY <2>1 DEF RingInv, PopTickets, PopTicket, PopPc
  <2>3. ~ Clears(t)
    BY <2>1, <2>2
  <2> QED
    BY <1>1, <2>1, <2>3
<1>9. CASE PopMove(t)
  BY <1>9 DEF PopMove, Goto
<1> QED
  BY <1>2, <1>3, <1>4, <1>5, <1>6, <1>7, <1>8, <1>9 DEF PopStepOf, PopStep

-----------------------------------------------------------------------------
(* The packets in the blocks *)

\* a packet that was accepted stays accepted under its number
LEMMA AcceptedStays ==
  ASSUME TypeOK, RingInv, NEW t \in Threads, PushStepOf(t) \/ PopStepOf(t)
  PROVE  /\ \A i \in 1 .. Reserved : accepted'[i] = accepted[i]
         /\ PushReserve(t) => accepted'[Reserved + 1] = arg[t]
<1>1. CASE PushReserve(t)
  BY <1>1 DEF PushReserve, Reserved, TypeOK
<1>2. CASE ~ PushReserve(t)
  <2>1. accepted' = accepted
    <3>1. CASE PopStepOf(t)
      BY <3>1, PopLeavesPush
    <3>2. CASE PushStepOf(t)
      BY <1>2, <3>2 DEF PushStepOf, PushStep, PushCall, PushLoad, PushFull, PushSpace,
         PushRetry, PushCopy, PushMark, PushScan, PushClear, PushDone, PushMove, history
    <3> QED
      BY <3>1, <3>2
  <2> QED
    BY <1>2, <2>1
<1> QED
  BY <1>1, <1>2

\* the thread that writes block number k, and what it writes
LEMMA WriterFacts ==
  ASSUME TypeOK, RingInv, NEW t \in Writing
  PROVE  /\ ticket[t] \in visible .. Reserved - 1 /\ ticket[t] \in Nat
         /\ index[t] = Slot(ticket[t]) /\ arg[t] = accepted[ticket[t] + 1]
  BY NumbersTyped DEF Numbers, RingInv, WriteZone, Zone, PushTickets, PushTicket, PushPc,
     Writing, Contents

LEMMA ReaderFacts ==
  ASSUME TypeOK, RingInv, NEW t \in Reading
  PROVE  /\ ticket[t] \in released .. taken - 1 /\ ticket[t] \in Nat
         /\ index[t] = Slot(ticket[t]) /\ packet[index[t]] = accepted[ticket[t] + 1]
<1> USE NumbersTyped DEF Numbers
<1>1. /\ ticket[t] \in released .. taken - 1 /\ ticket[t] \in Nat
      /\ index[t] = Slot(ticket[t])
  BY DEF RingInv, ReadZone, Zone, PopTickets, PopTicket, PopPc, Reading
<1>2. ticket[t] \in released .. Reserved - 1 /\ ticket[t] < visible
  BY <1>1 DEF RingInv, Cursors
<1>3. ~ \E u \in Threads : pc[u] = "pushCopy" /\ ticket[u] = ticket[t]
  BY <1>2, WriterFacts DEF Writing
<1> QED
  BY <1>1, <1>2, <1>3 DEF RingInv, Contents

LEMMA ContentsStep == TypeOK /\ RingInv /\ Next => Contents'
<1> SUFFICES ASSUME TypeOK, RingInv, NEW t \in Threads, PushStepOf(t) \/ PopStepOf(t)
             PROVE  Contents'
  BY DEF Next, PushStepOf, PopStepOf
<1> USE NumbersTyped DEF Numbers
<1>c. Contents /\ Cursors
  BY DEF RingInv
<1>1. ASSUME NEW u \in Writing' PROVE arg'[u] = accepted'[ticket'[u] + 1]
  <2>1. CASE u = t /\ PushReserve(t)
    <3>1. ticket'[t] = Reserved /\ arg' = arg
      BY <2>1 DEF PushReserve
    <3> QED
      BY <2>1, <3>1, AcceptedStays
  <2>2. CASE ~ (u = t /\ PushReserve(t))
    <3>1. u \in Writing /\ ticket'[u] = ticket[u] /\ arg'[u] = arg[u]
      <4>1. CASE u # t
        BY <4>1, OthersUntouched DEF Writing
      <4>2. CASE u = t
        BY <2>2, <4>2 DEF PushStepOf, PopStepOf, PushStep, PopStep, PushCall, PushLoad,
           PushFull, PushSpace, PushRetry, PushCopy, PushMark, PushScan, PushClear,
           PushDone, PushMove, PopCall, PopLoad, PopEmpty, PopSome, PopRetry, PopReserve,
           PopCopy, PopMark, PopScan, PopClear, PopDone, PopMove, Goto, Writing
      <4> QED
        BY <4>1, <4>2
    <3>2. ticket[u] + 1 \in 1 .. Reserved /\ arg[u] = accepted[ticket[u] + 1]
      BY <3>1, WriterFacts
    <3> QED
      BY <3>1, <3>2, AcceptedStays
  <2> QED
    BY <2>1, <2>2
<1>2. ASSUME NEW k \in released' .. Reserved' - 1
      PROVE  \/ packet'[Slot(k)] = accepted'[k + 1]
             \/ \E u \in Threads : pc'[u] = "pushCopy" /\ ticket'[u] = k
  <2>1. CASE k = Reserved
    <3>1. PushReserve(t)
      BY <2>1, NumbersGrow
    <3> QED
      BY <2>1, <3>1 DEF PushReserve, Goto
  <2>2. CASE k # Reserved
    <3>1. k \in released .. Reserved - 1 /\ k \in Nat
      BY <2>2, NumbersGrow
    <3>2. accepted'[k + 1] = accepted[k + 1]
      BY <3>1, AcceptedStays
    <3>3. CASE PushCopy(t)
      <4>1. /\ t \in Writing /\ pc[t] = "pushCopy" /\ pc' = [pc EXCEPT ![t] = "pushMark"]
            /\ packet' = [packet EXCEPT ![index[t]] = arg[t]] /\ UNCHANGED ticket
        BY <3>3 DEF PushCopy, Goto, Writing
      <4>2. CASE k = ticket[t]
        BY <3>2, <4>1, <4>2, WriterFacts, SlotType DEF TypeOK
      <4>3. CASE k # ticket[t]
        <5>1. Slot(k) # Slot(ticket[t])
          <6>1. ticket[t] \in released .. Reserved - 1 /\ Reserved < released + N
            BY <1>c, <4>1, WriterFacts DEF Cursors
          <6>2. CASE k < ticket[t]
            BY <3>1, <6>1, <6>2, SlotInjective
          <6>3. CASE ticket[t] < k
            BY <3>1, <6>1, <6>3, SlotInjective
          <6> QED
            BY <3>1, <4>3, <6>1, <6>2, <6>3
        <5>2. packet'[Slot(k)] = packet[Slot(k)]
          BY <3>1, <4>1, <5>1, WriterFacts, SlotType DEF TypeOK
        <5>3. \A u \in Threads : pc[u] = "pushCopy" /\ ticket[u] = k => pc'[u] = "pushCopy"
          BY <4>1, <4>3
        <5> QED
          BY <1>c, <3>1, <3>2, <4>1, <5>2, <5>3 DEF Contents
      <4> QED
        BY <4>2, <4>3
    <3>4. CASE ~ PushCopy(t)
      <4>1. packet' = packet
        <5>1. CASE PopStepOf(t)
          BY <5>1, PopLeavesPush
        <5>2. CASE PushStepOf(t)
          BY <3>4, <5>2 DEF PushStepOf, PushStep, PushCall, PushLoad, PushFull, PushSpace,
             PushRetry, PushReserve, PushMark, PushScan, PushClear, PushDone, PushMove
        <5> QED
          BY <5>1, <5>2
      <4>2. \A u \in Threads :
              pc[u] = "pushCopy" => pc'[u] = "pushCopy" /\ ticket'[u] = ticket[u]
        <5>1. pc[t] # "pushCopy"
          BY <3>4 DEF PushStepOf, PopStepOf, PushStep, PopStep, PushCall, PushLoad,
           PushFull, PushSpace, PushRetry, PushReserve, PushMark, PushScan, PushClear,
           PushDone, PushMove, PopCall, PopLoad, PopEmpty, PopSome, PopRetry, PopReserve,
           PopCopy, PopMark, PopScan, PopClear, PopDone, PopMove, Goto
        <5> QED
          BY <5>1, OthersUntouched
      <4> QED
        BY <1>c, <3>1, <3>2, <4>1, <4>2 DEF Contents
    <3> QED
      BY <3>3, <3>4
  <2> QED
    BY <2>1, <2>2
<1>3. ASSUME NEW u \in Threads, pc'[u] = "popMark"
      PROVE  out'[u] = accepted'[ticket'[u] + 1]
  <2>1. u \in Reading /\ ticket'[u] = ticket[u] /\ out'[u] = accepted[ticket[u] + 1]
    <3>1. CASE u # t
      BY <1>c, <1>3, <3>1, OthersUntouched DEF Contents, Reading
    <3>2. CASE u = t
      <4>1. PopCopy(t)
        BY <1>3, <3>2 DEF PushStepOf, PopStepOf, PushStep, PopStep, PushCall, PushLoad,
           PushFull, PushSpace, PushRetry, PushReserve, PushCopy, PushMark, PushScan,
           PushClear, PushDone, PushMove, PopCall, PopLoad, PopEmpty, PopSome, PopRetry,
           PopReserve, PopMark, PopScan, PopClear, PopDone, PopMove, Goto, TypeOK
      <4>2. t \in Reading /\ UNCHANGED ticket /\ out'[t] = packet[index[t]]
        BY <4>1 DEF PopCopy, Goto, Reading, TypeOK
      <4> QED
        BY <3>2, <4>2, ReaderFacts
    <3> QED
      BY <3>1, <3>2
  <2>2. ticket[u] + 1 \in 1 .. Reserved
    BY <1>c, <2>1, ReaderFacts DEF Cursors
  <2> QED
    BY <2>1, <2>2, AcceptedStays
<1> QED
  BY <1>1, <1>2, <1>3 DEF Contents

\* a thread that looks for a place either has just been called or was looking before
LEMMA UnplacedStep ==
  ASSUME TypeOK, NEW t \in Threads, PushStepOf(t) \/ PopStepOf(t)
  PROVE  /\ PushCall(t) => /\ Unplaced' = Unplaced \cup {t}
                           /\ arg' = [arg EXCEPT ![t] = pushes + 1]
                           /\ pushes' = pushes + 1 /\ accepted' = accepted
         /\ PushReserve(t) => /\ t \in Unplaced /\ Unplaced' = Unplaced \ {t}
                              /\ UNCHANGED <<arg, pushes>>
         /\ ~ PushCall(t) => Unplaced' \subseteq Unplaced /\ UNCHANGED <<arg, pushes>>
<1>1. PushCall(t) => /\ Unplaced' = Unplaced \cup {t}
                     /\ arg' = [arg EXCEPT ![t] = pushes + 1]
                     /\ pushes' = pushes + 1 /\ accepted' = accepted
  BY DEF PushCall, Goto, Unplaced, TypeOK
<1>2. PushReserve(t) => /\ t \in Unplaced /\ Unplaced' = Unplaced \ {t}
                        /\ UNCHANGED <<arg, pushes>>
  BY DEF PushReserve, Goto, Unplaced, TypeOK
<1>3. ASSUME ~ PushCall(t)
      PROVE  Unplaced' \subseteq Unplaced /\ UNCHANGED <<arg, pushes>>
  <2>1. CASE PopStepOf(t)
    <3>1. pc[t] \notin {"pushEnter", "pushCheck", "pushReserve"}
          /\ pc'[t] \notin {"pushEnter", "pushCheck", "pushReserve"}
      BY <2>1 DEF PopStepOf, PopStep, PopCall, PopLoad, PopEmpty, PopSome, PopRetry,
         PopReserve, PopCopy, PopMark, PopScan, PopClear, PopDone, PopMove, Goto, TypeOK
    <3> QED
      BY <2>1, <3>1, OthersUntouched, PopLeavesPush DEF Unplaced
  <2>2. CASE PushStep(t)
    <3>1. UNCHANGED <<arg, pushes>>
      BY <2>2 DEF PushStep, PushLoad, PushFull, PushSpace, PushRetry, PushReserve,
         PushCopy, PushMark, PushScan, PushClear, PushDone, PushMove, history
    <3>2. pc'[t] \in {"pushEnter", "pushCheck", "pushReserve"} => t \in Unplaced
      BY <2>2 DEF PushStep, PushLoad, PushFull, PushSpace, PushRetry, PushReserve,
         PushCopy, PushMark, PushScan, PushClear, PushDone, PushMove, Goto, TypeOK, Unplaced
    <3> QED
      BY <2>2, <3>1, <3>2, OthersUntouched DEF Unplaced, PushStepOf
  <2> QED
    BY <1>3, <2>1, <2>2 DEF PushStepOf
<1> QED
  BY <1>1, <1>2, <1>3

LEMMA DistinctStep == TypeOK /\ RingInv /\ Next => Distinct'
<1> SUFFICES ASSUME TypeOK, RingInv, NEW t \in Threads, PushStepOf(t) \/ PopStepOf(t)
             PROVE  Distinct'
  BY DEF Next, PushStepOf, PopStepOf
<1> USE NumbersTyped DEF Numbers
<1>d. Distinct /\ pushes \in Nat /\ arg \in [Threads -> Packet \cup {NoPacket}]
  BY DEF RingInv, TypeOK
<1>1. CASE PushCall(t)
  <2>1. /\ Unplaced' = Unplaced \cup {t} /\ arg' = [arg EXCEPT ![t] = pushes + 1]
        /\ pushes' = pushes + 1 /\ accepted' = accepted
    BY <1>1, UnplacedStep
  <2>2. t \notin Unplaced
    BY <1>1 DEF PushCall, Goto, Unplaced
  <2>3. \A u \in Unplaced : u \in Threads /\ arg'[u] = arg[u]
    BY <1>d, <2>1, <2>2 DEF Unplaced
  <2>4. arg'[t] = pushes + 1
    BY <1>d, <2>1
  <2> QED
    BY <1>d, <2>1, <2>2, <2>3, <2>4 DEF Distinct, Reserved
<1>2. CASE PushReserve(t)
  <2>1. t \in Unplaced /\ Unplaced' = Unplaced \ {t} /\ UNCHANGED <<arg, pushes>>
    BY <1>2, UnplacedStep
  <2>2. Reserved' = Reserved + 1
    BY <1>2, PushReserveFacts
  <2>3. /\ \A i \in 1 .. Reserved : accepted'[i] = accepted[i]
        /\ accepted'[Reserved + 1] = arg[t]
    BY <1>2, AcceptedStays
  <2>4. \A i \in 1 .. Reserved' : i \in 1 .. Reserved \/ i = Reserved + 1
    BY <2>2
  <2>5. \A i \in 1 .. Reserved : accepted[i] # arg[t] /\ accepted[i] \in 1 .. pushes
    BY <1>d, <2>1 DEF Distinct
  <2>6. arg[t] \in 1 .. pushes /\ \A u \in Unplaced : arg[u] = arg[t] => u = t
    BY <1>d, <2>1 DEF Distinct
  <2>7. \A i \in 1 .. Reserved' : accepted'[i] \in 1 .. pushes'
    BY <2>1, <2>3, <2>4, <2>5, <2>6
  <2>8. \A i, j \in 1 .. Reserved' : accepted'[i] = accepted'[j] => i = j
    BY <1>d, <2>3, <2>4, <2>5 DEF Distinct
  <2>9. \A u \in Unplaced', i \in 1 .. Reserved' : arg'[u] # accepted'[i]
    BY <1>d, <2>1, <2>3, <2>4, <2>6 DEF Distinct
  <2> QED
    BY <1>d, <2>1, <2>7, <2>8, <2>9 DEF Distinct
<1>3. CASE ~ PushCall(t) /\ ~ PushReserve(t)
  <2>1. Unplaced' \subseteq Unplaced /\ UNCHANGED <<arg, pushes>>
    BY <1>3, UnplacedStep
  <2>2. accepted' = accepted
    <3>1. CASE PopStepOf(t)
      BY <3>1, PopLeavesPush
    <3>2. CASE PushStepOf(t)
      BY <1>3, <3>2 DEF PushStepOf, PushStep, PushLoad, PushFull, PushSpace, PushRetry,
         PushCopy, PushMark, PushScan, PushClear, PushDone, PushMove, history
    <3> QED
      BY <3>1, <3>2
  <2> QED
    BY <1>d, <2>1, <2>2 DEF Distinct, Reserved
<1> QED
  BY <1>1, <1>2, <1>3

-----------------------------------------------------------------------------
LEMMA RingInvInit == Init => RingInv
<1> SUFFICES ASSUME Init PROVE RingInv
  OBVIOUS
<1> USE RingAssumption
<1>1. /\ Reserved = 0 /\ visible = 0 /\ taken = 0 /\ released = 0
      /\ readStart = 0 /\ readEnd = 0 /\ writeStart = 0 /\ writeEnd = 0
      /\ \A t \in Threads : pc[t] = "idle"
  BY DEF Init, Reserved
<1>2. \A i \in Blocks : ~ hasBeenRead[i] /\ ~ hasBeenWritten[i]
  BY Zenon DEF Init
<1>3. Slot(0) = 0
  BY DEF Slot
<1>4. Cursors
  BY <1>1, <1>3 DEF Cursors
<1>5. PushTickets /\ PopTickets
  BY <1>1 DEF PushTickets, PopTickets, PushTicket, PopTicket, PushPc, PopPc
<1>6. Writing = {} /\ WriteMoves = {} /\ Reading = {} /\ ReadMoves = {} /\ Unplaced = {}
  BY <1>1 DEF Writing, WriteMoves, Reading, ReadMoves, Unplaced
<1>7. WriteZone /\ ReadZone
  BY <1>1, <1>2, <1>6 DEF WriteZone, ReadZone, Zone
<1>8. WriteResponsible /\ ReadResponsible
  BY <1>1 DEF WriteResponsible, ReadResponsible
<1>9. Contents
  BY <1>1, <1>6 DEF Contents
<1>10. Distinct
  BY <1>1, <1>6 DEF Distinct
<1> QED
  BY <1>4, <1>5, <1>7, <1>8, <1>9, <1>10 DEF RingInv

LEMMA RingInvStutter == RingInv /\ UNCHANGED vars => RingInv'
<1> SUFFICES ASSUME RingInv, UNCHANGED vars PROVE RingInv'
  OBVIOUS
<1> USE DEF vars, flags, cursors, history
<1>1. Reserved' = Reserved /\ Writing' = Writing /\ WriteMoves' = WriteMoves
      /\ Reading' = Reading /\ ReadMoves' = ReadMoves /\ Unplaced' = Unplaced
  BY DEF Reserved, Writing, WriteMoves, Reading, ReadMoves, Unplaced
<1>2. Cursors' /\ PushTickets' /\ PopTickets'
  BY <1>1 DEF RingInv, Cursors, PushTickets, PopTickets, PushTicket, PopTicket
<1>3. WriteZone' /\ ReadZone'
  BY <1>1, ZoneFrame DEF RingInv, WriteZone, ReadZone
<1>4. WriteResponsible' /\ ReadResponsible'
  BY <1>1 DEF RingInv, WriteResponsible, ReadResponsible
<1>5. Contents' /\ Distinct'
  BY <1>1 DEF RingInv, Contents, Distinct
<1> QED
  BY <1>2, <1>3, <1>4, <1>5 DEF RingInv

\* RingInv holds in every state, for every number of threads and every size of the
\* ring, as long as no thread sleeps while the others go once round it: the
\* invariant of ringbuf_push and ringbuf_pop on which the properties below rest.
THEOREM RingInvariant ==
  ASSUME OneLap
  PROVE  Spec => [](TypeOK /\ RingInv)
<1>1. Init => TypeOK /\ RingInv
  BY TypeInit, RingInvInit
<1>2. TypeOK /\ RingInv /\ [Next]_vars => TypeOK' /\ RingInv'
  <2>1. TypeOK /\ RingInv /\ Next => RingInv'
    BY CursorsStep, PushTicketsStep, PopTicketsStep, WriteZoneStep, ReadZoneStep,
       WriteResponsibleStep, ReadResponsibleStep, ContentsStep, DistinctStep DEF RingInv
  <2> QED
    BY <2>1, TypeStep, RingInvStutter
<1> QED
  BY <1>1, <1>2, PTL DEF Spec

-----------------------------------------------------------------------------
(***************************************************************************)
(* The properties of RingBuf that follow from its invariant: for every     *)
(* number of threads, every size of the ring and every number of pushes,   *)
(* as long as no thread sleeps while the others go once round the ring     *)
(* (OneLap).                                                               *)
(***************************************************************************)

\* Whatever a push has seen of readStart, no more than N - 1 packets are in the ring.
THEOREM OverfullNever ==
  ASSUME OneLap
  PROVE  Spec => []NeverOverfull
<1>1. TypeOK /\ RingInv => NeverOverfull
  BY NumbersTyped DEF Numbers, RingInv, Cursors, NeverOverfull
<1> QED
  BY <1>1, RingInvariant, PTL

\* What ringbuf_pop returns is what ringbuf_push was given, in the order in which
\* the pushes took their blocks.
THEOREM InOrder ==
  ASSUME OneLap
  PROVE  Spec => []DeliveredInOrder
<1>1. ASSUME TypeOK, RingInv PROVE DeliveredInOrder
  <2> SUFFICES ASSUME NEW t \in Consumers, pc[t] = "popMark"
               PROVE  ticket[t] < Reserved /\ out[t] = accepted[ticket[t] + 1]
    BY DEF DeliveredInOrder
  <2>1. t \in Threads /\ t \in Reading
    BY DEF Threads, Reading
  <2>2. ticket[t] \in released .. taken - 1
    BY <1>1, <2>1, ReaderFacts
  <2>3. ticket[t] < Reserved
    BY <1>1, <2>2, NumbersTyped DEF Numbers, RingInv, Cursors
  <2> QED
    BY <1>1, <2>1, <2>3 DEF RingInv, Contents
<1> QED
  BY <1>1, RingInvariant, PTL

\* two threads that use a block hold different block numbers, less than a lap apart
LEMMA BlocksApart ==
  ASSUME TypeOK, RingInv, NEW t \in Writing, NEW u \in Writing \cup Reading, t # u
  PROVE  index[t] # index[u]
<1> USE NumbersTyped DEF Numbers
<1>1. /\ ticket[t] \in visible .. Reserved - 1 /\ ticket[t] \in Nat
      /\ index[t] = Slot(ticket[t])
  BY WriterFacts
<1>2. /\ released <= taken /\ taken <= visible /\ visible <= Reserved
      /\ Reserved < released + N
  BY DEF RingInv, Cursors
<1>3. /\ ticket[u] \in released .. Reserved - 1 /\ ticket[u] \in Nat
      /\ index[u] = Slot(ticket[u]) /\ ticket[u] # ticket[t]
  <2>1. CASE u \in Writing
    <3>1. ticket[u] \in visible .. Reserved - 1 /\ ticket[u] \in Nat
          /\ index[u] = Slot(ticket[u])
      BY <2>1, WriterFacts
    <3>2. ticket[u] # ticket[t]
      BY <2>1 DEF RingInv, WriteZone, Zone
    <3> QED
      BY <1>2, <3>1, <3>2
  <2>2. CASE u \in Reading
    <3>1. ticket[u] \in released .. taken - 1 /\ ticket[u] \in Nat
          /\ index[u] = Slot(ticket[u])
      BY <2>2, ReaderFacts
    <3> QED
      BY <1>1, <1>2, <3>1
  <2> QED
    BY <2>1, <2>2
<1>4. CASE ticket[t] < ticket[u]
  <2>1. ticket[t] <= ticket[u] /\ ticket[u] < ticket[t] + N
    BY <1>1, <1>2, <1>3, <1>4
  <2> QED
    BY <1>1, <1>3, <2>1, SlotInjective
<1>5. CASE ticket[u] < ticket[t]
  <2>1. ticket[u] <= ticket[t] /\ ticket[t] < ticket[u] + N
    BY <1>1, <1>2, <1>3, <1>5
  <2> QED
    BY <1>1, <1>3, <2>1, SlotInjective
<1> QED
  BY <1>1, <1>3, <1>4, <1>5

\* The memcpy of a push and any other access to the packet of its block never
\* overlap: ringbuf.c has no lock, only the order of its cursors and flags.
THEOREM CopiesApart ==
  ASSUME OneLap
  PROVE  Spec => []NoOverlappingCopy
<1>1. TypeOK /\ RingInv => NoOverlappingCopy
  BY BlocksApart DEF NoOverlappingCopy, Writing, Reading
<1> QED
  BY <1>1, RingInvariant, PTL

\* no pop under way: every block popped has been released
LEMMA ReadBlocksFree ==
  ASSUME TypeOK, RingInv, \A t \in Threads : ~ Releasing(t)
  PROVE  released = taken
<1> USE NumbersTyped DEF Numbers
<1>1. released <= taken
  BY DEF RingInv, Cursors
<1>2. ASSUME released < taken PROVE FALSE
  <2>1. Reading = {} /\ ReadMoves = {}
    BY DEF Releasing, Reading, ReadMoves
  <2>2. released \in released .. taken - 1
    BY <1>2
  <2>3. hasBeenRead[Slot(released)]
    BY <2>1, <2>2 DEF RingInv, ReadZone, Zone
  <2> QED
    BY <1>2, <2>3 DEF RingInv, ReadResponsible, Releasing
<1> QED
  BY <1>1, <1>2

\* No block is stranded by a thread that gives up at a clear flag: when all the
\* calls have returned, every packet can be popped and every block can be reused.
THEOREM Unstuck ==
  ASSUME OneLap
  PROVE  Spec => []NothingStuck
<1>1. ASSUME TypeOK, RingInv PROVE NothingStuck
  <2> USE NumbersTyped DEF Numbers
  <2>1. released <= taken /\ taken <= visible /\ visible <= Reserved
    BY <1>1 DEF RingInv, Cursors
  <2>2. ASSUME \A t \in Threads : ~ Copying(t) /\ ~ Advancing(t), visible < Reserved
        PROVE  FALSE
    <3>1. Writing = {} /\ WriteMoves = {}
      BY <2>2 DEF Copying, Advancing, Writing, WriteMoves
    <3>2. visible \in visible .. Reserved - 1
      BY <1>1, <2>2
    <3>3. hasBeenWritten[Slot(visible)]
      BY <1>1, <3>1, <3>2 DEF RingInv, WriteZone, Zone
    <3> QED
      BY <1>1, <2>2, <3>3 DEF RingInv, WriteResponsible, Advancing
  <2>3. (\A t \in Threads : ~ Releasing(t)) => released = taken
    BY <1>1, ReadBlocksFree
  <2>4. visible < Reserved \/ visible = Reserved
    BY <1>1, <2>1
  <2> QED
    BY <2>2, <2>3, <2>4 DEF NothingStuck
<1> QED
  BY <1>1, RingInvariant, PTL

-----------------------------------------------------------------------------
(* The action properties *)

\* who is about to publish the block at writeStart
LEMMA WhoPublishes ==
  ASSUME TypeOK, RingInv, visible < Reserved
  PROVE  \E u \in Producers :
           \/ hasBeenWritten[Slot(visible)]
                /\ (pc[u] = "pushScan" \/ (pc[u] = "pushClear" /\ ticket[u] = visible))
           \/ ~ hasBeenWritten[Slot(visible)] /\ index[u] = Slot(visible)
                /\ (Copying(u) \/ pc[u] = "pushMove")
<1> USE NumbersTyped DEF Numbers
<1>1. CASE hasBeenWritten[Slot(visible)]
  <2>1. PICK u \in Threads :
          pc[u] = "pushScan" \/ (pc[u] = "pushClear" /\ ticket[u] = visible)
    BY <1>1 DEF RingInv, WriteResponsible
  <2>2. u \in Producers
    BY <2>1 DEF RingInv, PushTickets, PushTicket, PushPc
  <2> QED
    BY <1>1, <2>1, <2>2
<1>2. CASE ~ hasBeenWritten[Slot(visible)]
  <2>1. visible \in visible .. Reserved - 1
    OBVIOUS
  <2>2. PICK u \in Writing \cup WriteMoves : ticket[u] = visible
    BY <1>2, <2>1 DEF RingInv, WriteZone, Zone
  <2>3. u \in Threads /\ (Copying(u) \/ pc[u] = "pushMove")
    BY DEF Writing, WriteMoves, Copying
  <2>4. u \in Producers /\ index[u] = Slot(visible)
    BY <2>2, <2>3 DEF RingInv, PushTickets, PushTicket, PushPc, Copying
  <2> QED
    BY <1>2, <2>3, <2>4
<1> QED
  BY <1>1, <1>2

\* ringbuf_push may return at a clear flag, as its comment says: another push has
\* moved writeStart, or will, or has not written the block yet.
THEOREM ClearFlagExplained ==
  ASSUME OneLap
  PROVE  Spec => ClearFlagIsExplained
<1> DEFINE Explained(t) ==
      PushDone(t) => \/ writeStart # index[t]
                     \/ visible >= Reserved
                     \/ \E u \in Producers \ {t} :
                          \/ Copying(u) /\ index[u] = index[t]
                          \/ pc[u] = "pushMove" /\ index[u] = index[t]
<1>1. ASSUME TypeOK, RingInv, NEW t \in Producers PROVE Explained(t)
  <2> SUFFICES ASSUME PushDone(t), writeStart = index[t], visible < Reserved
               PROVE  \E u \in Producers \ {t} :
                        \/ Copying(u) /\ index[u] = index[t]
                        \/ pc[u] = "pushMove" /\ index[u] = index[t]
    BY <1>1, NumbersTyped DEF Numbers
  <2>1. t \in Threads /\ pc[t] = "pushClear" /\ ~ hasBeenWritten[index[t]]
    BY DEF PushDone, Goto, Threads
  <2>2. index[t] = Slot(visible)
    BY <1>1 DEF RingInv, Cursors
  <2>3. PICK u \in Producers : index[u] = Slot(visible) /\ (Copying(u) \/ pc[u] = "pushMove")
    BY <1>1, <2>1, <2>2, WhoPublishes
  <2> QED
    BY <2>1, <2>2, <2>3 DEF Copying
<1>2. TypeOK /\ RingInv /\ [Next]_vars => [\A t \in Producers : Explained(t)]_vars
  BY <1>1
<1>3. (\A t \in Producers : Explained(t)) <=>
        \A t \in Producers :
          PushDone(t) => \/ writeStart # index[t]
                         \/ visible >= Reserved
                         \/ \E u \in Producers \ {t} :
                              \/ Copying(u) /\ index[u] = index[t]
                              \/ pc[u] = "pushMove" /\ index[u] = index[t]
  OBVIOUS
<1> HIDE DEF Explained
<1> QED
  BY <1>2, <1>3, RingInvariant, PTL DEF Spec, ClearFlagIsExplained

-----------------------------------------------------------------------------
(* The answers of a ring with one producer, or with one consumer: no other *)
(* thread takes a block between its load of the cursor and its test.       *)

SoleProducer == \A p, q \in Producers : p = q
SoleConsumer == \A p, q \in Consumers : p = q

FreshPush == \A t \in Threads : pc[t] = "pushCheck" => ticket[t] = Reserved
FreshPop  == \A t \in Threads : pc[t] \in {"popCheck", "popReserve"} => ticket[t] = taken

LEMMA FreshPushStep ==
  ASSUME SoleProducer, TypeOK, RingInv, FreshPush, [Next]_vars
  PROVE  FreshPush'
<1> USE NumbersTyped DEF Numbers
<1>1. CASE UNCHANGED vars
  BY <1>1 DEF vars, flags, cursors, history, FreshPush, Reserved
<1>2. ASSUME NEW t \in Threads, PushStepOf(t) \/ PopStepOf(t) PROVE FreshPush'
  <2> SUFFICES ASSUME NEW u \in Threads, pc'[u] = "pushCheck" PROVE ticket'[u] = Reserved'
    BY DEF FreshPush
  <2>1. CASE u = t
    <3>1. PushLoad(t)
      BY <1>2, <2>1 DEF PushStepOf, PopStepOf, PushStep, PopStep, PushCall, PushLoad,
         PushFull, PushSpace, PushRetry, PushReserve, PushCopy, PushMark, PushScan,
         PushClear, PushDone, PushMove, PopCall, PopLoad, PopEmpty, PopSome, PopRetry,
         PopReserve, PopCopy, PopMark, PopScan, PopClear, PopDone, PopMove, Goto, TypeOK
    <3> QED
      BY <2>1, <3>1 DEF PushLoad, history, Reserved
  <2>2. CASE u # t
    <3>1. pc[u] = "pushCheck" /\ ticket'[u] = ticket[u] /\ u \in Producers
      <4>1. pc[u] = "pushCheck" /\ ticket'[u] = ticket[u]
        BY <1>2, <2>2, OthersUntouched
      <4> QED
        BY <4>1 DEF RingInv, PushTickets, PushTicket, PushPc
    <3>2. ~ PushReserve(t)
      <4>1. PushReserve(t) => t \in Producers
        BY DEF PushReserve, Goto, RingInv, PushTickets, PushTicket, PushPc
      <4> QED
        BY <2>2, <3>1, <4>1 DEF SoleProducer
    <3>3. Reserved' = Reserved
      BY <1>2, <3>2, NumbersGrow
    <3> QED
      BY <3>1, <3>3 DEF FreshPush
  <2> QED
    BY <2>1, <2>2
<1> QED
  BY <1>1, <1>2 DEF Next, PushStepOf, PopStepOf

LEMMA FreshPopStep ==
  ASSUME SoleConsumer, TypeOK, RingInv, FreshPop, [Next]_vars
  PROVE  FreshPop'
<1> USE NumbersTyped DEF Numbers
<1> DEFINE Deciding == {"popCheck", "popReserve"}
<1>1. CASE UNCHANGED vars
  BY <1>1 DEF vars, flags, cursors, history, FreshPop
<1>2. ASSUME NEW t \in Threads, PushStepOf(t) \/ PopStepOf(t) PROVE FreshPop'
  <2> SUFFICES ASSUME NEW u \in Threads, pc'[u] \in Deciding PROVE ticket'[u] = taken'
    BY DEF FreshPop
  <2>1. CASE u = t
    <3>1. PopLoad(t) \/ PopSome(t)
      BY <1>2, <2>1 DEF PushStepOf, PopStepOf, PushStep, PopStep, PushCall, PushLoad,
         PushFull, PushSpace, PushRetry, PushReserve, PushCopy, PushMark, PushScan,
         PushClear, PushDone, PushMove, PopCall, PopLoad, PopEmpty, PopSome, PopRetry,
         PopReserve, PopCopy, PopMark, PopScan, PopClear, PopDone, PopMove, Goto, TypeOK
    <3>2. CASE PopLoad(t)
      BY <2>1, <3>2 DEF PopLoad, history
    <3>3. CASE PopSome(t)
      BY <2>1, <3>3 DEF PopSome, Goto, history, FreshPop
    <3> QED
      BY <3>1, <3>2, <3>3
  <2>2. CASE u # t
    <3>1. pc[u] \in Deciding /\ ticket'[u] = ticket[u] /\ u \in Consumers
      <4>1. pc[u] \in Deciding /\ ticket'[u] = ticket[u]
        BY <1>2, <2>2, OthersUntouched
      <4> QED
        BY <4>1 DEF RingInv, PopTickets, PopTicket, PopPc
    <3>2. ~ PopReserve(t)
      <4>1. PopReserve(t) => t \in Consumers
        BY DEF PopReserve, Goto, RingInv, PopTickets, PopTicket, PopPc
      <4> QED
        BY <2>2, <3>1, <4>1 DEF SoleConsumer
    <3>3. taken' = taken
      BY <1>2, <3>2, NumbersGrow
    <3> QED
      BY <3>1, <3>3 DEF FreshPop
  <2> QED
    BY <2>1, <2>2
<1> QED
  BY <1>1, <1>2 DEF Next, PushStepOf, PopStepOf

\* A queue with a single sender (the callback queue of a thread): ringbuf_push
\* returns ERR_OutOfSpace only when N - 1 packets are really waiting.
THEOREM FullHonest ==
  ASSUME OneLap, SoleProducer
  PROVE  Spec => FullIsHonest
<1> DEFINE Honest == \A t \in Producers : PushFull(t) => Reserved - released = N - 1
<1>1. Init => FreshPush
  BY DEF Init, FreshPush
<1>2. TypeOK /\ RingInv /\ FreshPush /\ [Next]_vars => FreshPush'
  BY FreshPushStep
<1>3. ASSUME TypeOK, RingInv, FreshPush PROVE Honest
  <2> USE NumbersTyped DEF Numbers
  <2> SUFFICES ASSUME NEW t \in Producers, PushFull(t) PROVE Reserved - released = N - 1
    OBVIOUS
  <2>1. t \in Threads /\ pc[t] = "pushCheck" /\ NextIndex(index[t]) = readStart
    BY DEF PushFull, Goto, Threads
  <2>2. index[t] = Slot(Reserved) /\ readStart = Slot(released)
        /\ released <= Reserved /\ Reserved < released + N
    BY <1>3, <2>1 DEF RingInv, Cursors, PushTickets, PushTicket, PushPc, FreshPush
  <2>3. Slot(Reserved + 1) = Slot(released)
    BY <1>3, <2>1, <2>2, SlotNext
  <2>4. CASE Reserved + 1 < released + N
    <3>1. Reserved + 1 \in Nat /\ released <= Reserved + 1 /\ released # Reserved + 1
      BY <1>3, <2>2
    <3> QED
      BY <1>3, <2>3, <2>4, <3>1, SlotInjective
  <2> QED
    BY <1>3, <2>2, <2>4
<1>4. TypeOK /\ RingInv /\ FreshPush /\ [Next]_vars => [Honest]_vars
  BY <1>3
<1>5. Honest <=> \A t \in Producers : PushFull(t) => Reserved - released = N - 1
  OBVIOUS
<1> HIDE DEF Honest
<1> QED
  BY <1>1, <1>2, <1>4, <1>5, RingInvariant, PTL DEF Spec, FullIsHonest

\* The queue of a thread that is its only reader: when ringbuf_pop returns ERR_Again
\* it is empty, or a push is still to trigger the reader's semaphore.
THEOREM AgainHonest ==
  ASSUME OneLap, SoleConsumer
  PROVE  Spec => AgainIsHonest
<1> DEFINE Honest == \A t \in Consumers :
                       PopEmpty(t) => \/ taken = Reserved
                                      \/ \E u \in Producers : Copying(u) \/ Advancing(u)
<1>1. Init => FreshPop
  BY DEF Init, FreshPop
<1>2. TypeOK /\ RingInv /\ FreshPop /\ [Next]_vars => FreshPop'
  BY FreshPopStep
<1>3. ASSUME TypeOK, RingInv, FreshPop PROVE Honest
  <2> USE NumbersTyped DEF Numbers
  <2> SUFFICES ASSUME NEW t \in Consumers, PopEmpty(t), taken # Reserved
               PROVE  \E u \in Producers : Copying(u) \/ Advancing(u)
    OBVIOUS
  <2>1. t \in Threads /\ pc[t] = "popCheck" /\ index[t] = writeStart
    BY DEF PopEmpty, Goto, Threads
  <2>2. index[t] = Slot(taken) /\ writeStart = Slot(visible)
        /\ taken <= visible /\ visible <= Reserved /\ visible < taken + N
    BY <1>3, <2>1 DEF RingInv, Cursors, PopTickets, PopTicket, PopPc, FreshPop
  <2>3. taken = visible
    BY <1>3, <2>1, <2>2, SlotInjective
  <2>4. visible < Reserved
    BY <1>3, <2>2, <2>3
  <2> QED
    BY <1>3, <2>4, WhoPublishes DEF Advancing
<1>4. TypeOK /\ RingInv /\ FreshPop /\ [Next]_vars => [Honest]_vars
  BY <1>3
<1>5. Honest <=> \A t \in Consumers :
                   PopEmpty(t) => \/ taken = Reserved
                                  \/ \E u \in Producers : Copying(u) \/ Advancing(u)
  OBVIOUS
<1> HIDE DEF Honest
<1> QED
  BY <1>1, <1>2, <1>4, <1>5, RingInvariant, PTL DEF Spec, AgainIsHonest

-----------------------------------------------------------------------------
(* The ring implements the queue of RingQueue *)

QueueOf   == SubSeq(accepted, taken + 1, Reserved)
HoldingOf == [t \in Threads |-> IF Copying(t) THEN arg[t] ELSE NoPacket]
GotOf     == [t \in Threads |-> IF pc[t] = "popCopy" THEN packet[index[t]] ELSE out[t]]

LEMMA PushesArePackets == TypeOK => \A p \in 1 .. pushes : p \in Packet
<1>1. TypeOK => pushes \in 0 .. MaxPushes
  BY DEF TypeOK
<1> QED
  BY <1>1, RingAssumption DEF Packet

QueueShape ==
  /\ QueueOf \in Seq(Packet) /\ Len(QueueOf) = Reserved - taken
  /\ \A i \in 1 .. Reserved - taken : QueueOf[i] = accepted[taken + i]

LEMMA QueueContent == TypeOK /\ RingInv => QueueShape
<1> SUFFICES ASSUME TypeOK, RingInv PROVE QueueShape
  OBVIOUS
<1> USE NumbersTyped DEF Numbers
<1>1. taken <= Reserved
  BY DEF RingInv, Cursors
<1>2. \A i \in taken + 1 .. Reserved : accepted[i] \in Packet
  <2>1. \A i \in taken + 1 .. Reserved : i \in 1 .. Reserved
    OBVIOUS
  <2>2. \A i \in 1 .. Reserved : accepted[i] \in 1 .. pushes
    BY DEF RingInv, Distinct
  <2> QED
    BY <2>1, <2>2, PushesArePackets
<1>3. /\ SubSeq(accepted, taken + 1, Reserved) \in Seq(Packet)
      /\ Len(SubSeq(accepted, taken + 1, Reserved))
           = IF taken + 1 <= Reserved THEN Reserved - (taken + 1) + 1 ELSE 0
      /\ \A i \in 1 .. Reserved - (taken + 1) + 1 :
           SubSeq(accepted, taken + 1, Reserved)[i] = accepted[taken + 1 + i - 1]
  BY <1>2, SubSeqProperties
<1>4. Reserved - (taken + 1) + 1 = Reserved - taken
  OBVIOUS
<1>5. \A i \in 1 .. Reserved - taken : taken + 1 + i - 1 = taken + i
  OBVIOUS
<1> QED
  BY <1>1, <1>3, <1>4, <1>5 DEF QueueShape, QueueOf

\* what a push holds was accepted, and is none of the packets behind writeStart
LEMMA HoldingContent ==
  ASSUME TypeOK, RingInv, NEW t \in Threads
  PROVE  /\ Copying(t) => /\ HoldingOf[t] = arg[t] /\ HoldingOf[t] # NoPacket
                          /\ \A k \in 0 .. visible - 1 : HoldingOf[t] # accepted[k + 1]
         /\ ~ Copying(t) => HoldingOf[t] = NoPacket
<1> USE NumbersTyped DEF Numbers
<1>1. ASSUME Copying(t)
      PROVE  /\ HoldingOf[t] = arg[t] /\ HoldingOf[t] # NoPacket
             /\ \A k \in 0 .. visible - 1 : HoldingOf[t] # accepted[k + 1]
  <2>1. t \in Writing /\ HoldingOf[t] = arg[t]
    BY <1>1 DEF Writing, Copying, HoldingOf
  <2>2. ticket[t] \in visible .. Reserved - 1 /\ arg[t] = accepted[ticket[t] + 1]
    BY <2>1, WriterFacts
  <2>3. ticket[t] + 1 \in 1 .. Reserved /\ visible <= Reserved
    BY <2>2 DEF RingInv, Cursors
  <2>4. accepted[ticket[t] + 1] \in 1 .. pushes
    BY <2>3 DEF RingInv, Distinct
  <2>5. ASSUME NEW k \in 0 .. visible - 1 PROVE arg[t] # accepted[k + 1]
    <3>1. k + 1 \in 1 .. Reserved /\ k + 1 # ticket[t] + 1
      BY <2>2, <2>3
    <3> QED
      BY <2>2, <2>3, <3>1 DEF RingInv, Distinct
  <2> QED
    BY <2>1, <2>2, <2>4, <2>5 DEF NoPacket
<1> QED
  BY <1>1 DEF HoldingOf

LEMMA TakesPlace ==
  ASSUME TypeOK, RingInv, NEW t \in Threads, PushReserve(t), QueueShape'
  PROVE  \E p \in Packet : Queue!TakePlace(t, p)
<1> USE NumbersTyped DEF Numbers
<1>1. /\ pc[t] = "pushReserve" /\ pc' = [pc EXCEPT ![t] = "pushCopy"]
      /\ UNCHANGED <<arg, out, taken, packet, index>>
  BY DEF PushReserve, Goto
<1>2. /\ Reserved + 1 < released + N /\ released <= taken /\ taken <= Reserved
      /\ Reserved' = Reserved + 1
  BY PushReserveFacts DEF RingInv, Cursors
<1>3. arg[t] \in Packet
  <2>1. arg[t] \in 1 .. pushes
    BY <1>1 DEF RingInv, Distinct, Unplaced
  <2> QED
    BY <2>1, PushesArePackets
<1>4. HoldingOf[t] = NoPacket
  BY <1>1, HoldingContent DEF Copying
<1>5. Len(QueueOf) < N - 1
  BY <1>2, QueueContent DEF QueueShape
<1>6. QueueOf' = Append(QueueOf, arg[t])
  <2>1. /\ QueueOf \in Seq(Packet) /\ Len(QueueOf) = Reserved - taken
        /\ \A i \in 1 .. Reserved - taken : QueueOf[i] = accepted[taken + i]
    BY QueueContent DEF QueueShape
  <2>2. /\ Append(QueueOf, arg[t]) \in Seq(Packet)
        /\ Len(Append(QueueOf, arg[t])) = Reserved - taken + 1
        /\ \A i \in 1 .. Reserved - taken :
             Append(QueueOf, arg[t])[i] = accepted[taken + i]
        /\ Append(QueueOf, arg[t])[Reserved - taken + 1] = arg[t]
    BY <1>3, <2>1, AppendProperties
  <2>3. \A i \in 1 .. Reserved - taken : taken + i \in 1 .. Reserved
    BY <1>2
  <2>4. /\ \A i \in 1 .. Reserved - taken : accepted'[taken + i] = accepted[taken + i]
        /\ accepted'[Reserved + 1] = arg[t]
    BY <2>3, AcceptedStays DEF PushStepOf, PushStep
  <2>5. \A i \in 1 .. Reserved - taken + 1 :
          i \in 1 .. Reserved - taken \/ (i = Reserved - taken + 1 /\ taken + i = Reserved + 1)
    <3>1. Reserved \in Nat /\ taken \in Nat /\ taken <= Reserved
      BY <1>2
    <3> HIDE NumbersTyped DEF Numbers
    <3> QED
      BY <3>1
  <2>6. Len(QueueOf') = Reserved - taken + 1 /\ QueueOf' \in Seq(Packet)
    BY <1>1, <1>2 DEF QueueShape
  <2>7. \A i \in 1 .. Reserved - taken + 1 : (QueueOf')[i] = accepted'[taken + i]
    BY <1>1, <1>2 DEF QueueShape
  <2>8. \A i \in 1 .. Len(QueueOf') : (QueueOf')[i] = Append(QueueOf, arg[t])[i]
    BY <2>2, <2>4, <2>5, <2>6, <2>7
  <2> QED
    BY <2>2, <2>6, <2>8, SeqEqual
<1>7. HoldingOf' = [HoldingOf EXCEPT ![t] = arg[t]]
  BY <1>1 DEF HoldingOf, Copying, TypeOK
<1>8. GotOf' = GotOf
  BY <1>1 DEF GotOf, TypeOK
<1>9. PICK p \in Packet : p = arg[t]
  BY <1>3
<1>10. Queue!TakePlace(t, p)
  BY <1>4, <1>5, <1>6, <1>7, <1>8, <1>9 DEF Queue!TakePlace, QueueOf, HoldingOf, GotOf
<1> QED
  BY <1>10

LEMMA Publishes ==
  ASSUME TypeOK, RingInv, NEW t \in Threads, PushMark(t)
  PROVE  Queue!Publish(t)
<1>1. /\ pc[t] = "pushMark" /\ pc' = [pc EXCEPT ![t] = "pushScan"]
      /\ UNCHANGED <<arg, out, taken, packet, index, accepted>>
  BY DEF PushMark, Goto, history
<1>2. HoldingOf[t] # NoPacket
  BY <1>1, HoldingContent DEF Copying
<1>3. HoldingOf' = [HoldingOf EXCEPT ![t] = NoPacket]
  BY <1>1 DEF HoldingOf, Copying, TypeOK
<1>4. QueueOf' = QueueOf
  BY <1>1 DEF QueueOf, Reserved
<1>5. GotOf' = GotOf
  BY <1>1 DEF GotOf, TypeOK
<1> QED
  BY <1>2, <1>3, <1>4, <1>5 DEF Queue!Publish, QueueOf, HoldingOf, GotOf

LEMMA Obtains ==
  ASSUME TypeOK, RingInv, NEW t \in Threads, PopReserve(t)
  PROVE  Queue!Obtain(t)
<1> USE NumbersTyped DEF Numbers
<1>1. /\ pc[t] = "popReserve" /\ pc' = [pc EXCEPT ![t] = "popCopy"]
      /\ UNCHANGED <<arg, out, accepted, packet, index>>
  BY DEF PopReserve, Goto
<1>2. /\ taken < visible /\ visible <= Reserved /\ released <= taken
      /\ taken' = taken + 1 /\ index[t] = Slot(taken)
  BY PopReserveFacts DEF RingInv, Cursors
<1>3. accepted \in Seq(Packet \cup {NoPacket}) /\ taken + 1 \in 1 .. Reserved
  BY <1>2 DEF TypeOK
<1>4. QueueOf # <<>>
  BY <1>2, QueueContent DEF QueueShape
<1>5. Head(QueueOf) = accepted[taken + 1] /\ QueueOf' = Tail(QueueOf)
  <2>1. /\ Head(SubSeq(accepted, taken + 1, Reserved)) = accepted[taken + 1]
        /\ Tail(SubSeq(accepted, taken + 1, Reserved))
             = SubSeq(accepted, taken + 1 + 1, Reserved)
    <3>1. /\ taken + 1 \in 1 .. Len(accepted)
          /\ Len(accepted) \in taken + 1 .. Len(accepted)
      BY <1>3 DEF Reserved
    <3>2. /\ Head(SubSeq(accepted, taken + 1, Len(accepted))) = accepted[taken + 1]
          /\ Tail(SubSeq(accepted, taken + 1, Len(accepted)))
               = SubSeq(accepted, taken + 1 + 1, Len(accepted))
      BY <1>3, <3>1, HeadTailOfSubSeq
    <3> QED
      BY <3>2 DEF Reserved
  <2> QED
    BY <1>1, <1>2, <2>1 DEF QueueOf, Reserved
<1>6. \A u \in Threads : HoldingOf[u] # accepted[taken + 1]
  <2> SUFFICES ASSUME NEW u \in Threads PROVE HoldingOf[u] # accepted[taken + 1]
    OBVIOUS
  <2>1. accepted[taken + 1] \in 1 .. pushes
    BY <1>3 DEF RingInv, Distinct
  <2>2. taken \in 0 .. visible - 1
    BY <1>2
  <2> QED
    BY <2>1, <2>2, HoldingContent DEF NoPacket
<1>7. packet[Slot(taken)] = accepted[taken + 1]
  <2>1. taken \in released .. Reserved - 1
    BY <1>2
  <2>2. ~ \E u \in Threads : pc[u] = "pushCopy" /\ ticket[u] = taken
    BY <1>2, WriterFacts DEF Writing
  <2> QED
    BY <2>1, <2>2 DEF RingInv, Contents
<1>8. GotOf' = [GotOf EXCEPT ![t] = accepted[taken + 1]]
  BY <1>1, <1>2, <1>7 DEF GotOf, TypeOK
<1>9. HoldingOf' = HoldingOf
  BY <1>1 DEF HoldingOf, Copying, TypeOK
<1> QED
  BY <1>4, <1>5, <1>6, <1>8, <1>9 DEF Queue!Obtain, QueueOf, HoldingOf, GotOf

\* every other step leaves the queue alone
LEMMA QueueUntouched ==
  ASSUME TypeOK, RingInv, NEW t \in Threads, PushStepOf(t) \/ PopStepOf(t),
         ~ PushReserve(t), ~ PushMark(t), ~ PopReserve(t)
  PROVE  UNCHANGED <<QueueOf, HoldingOf, GotOf>>
<1> USE NumbersTyped DEF Numbers
<1>1. QueueOf' = QueueOf
  <2>1. accepted' = accepted
    <3>1. CASE PopStepOf(t)
      BY <3>1, PopLeavesPush
    <3>2. CASE PushStepOf(t)
      BY <3>2 DEF PushStepOf, PushStep, PushCall, PushLoad, PushFull, PushSpace, PushRetry,
         PushCopy, PushMark, PushScan, PushClear, PushDone, PushMove, history
    <3> QED
      BY <3>1, <3>2
  <2> QED
    BY <2>1, NumbersGrow DEF QueueOf, Reserved
<1>2. HoldingOf' = HoldingOf
  <2> SUFFICES ASSUME NEW u \in Threads
               PROVE  /\ Copying(u)' <=> Copying(u)
                      /\ Copying(u) => arg'[u] = arg[u]
    BY DEF HoldingOf
  <2>1. CASE u # t
    BY <2>1, OthersUntouched DEF Copying
  <2>2. CASE u = t
    BY <2>2 DEF PushStepOf, PopStepOf, PushStep, PopStep, PushCall, PushLoad,
       PushFull, PushSpace, PushRetry, PushCopy, PushScan,
       PushClear, PushDone, PushMove, PopCall, PopLoad, PopEmpty, PopSome, PopRetry,
       PopCopy, PopMark, PopScan, PopClear, PopDone, PopMove, Goto, TypeOK, Copying
  <2> QED
    BY <2>1, <2>2
<1>3. GotOf' = GotOf
  <2>1. CASE PopStepOf(t)
    <3>1. packet' = packet
      BY <2>1, PopLeavesPush
    <3> SUFFICES ASSUME NEW u \in Threads
                 PROVE  (IF pc'[u] = "popCopy" THEN packet[index'[u]] ELSE out'[u])
                          = IF pc[u] = "popCopy" THEN packet[index[u]] ELSE out[u]
      BY <3>1 DEF GotOf
    <3>2. CASE u # t
      BY <3>2, OthersUntouched
    <3>3. CASE u = t
      BY <2>1, <3>3 DEF PopStepOf, PopStep, PopCall, PopLoad, PopEmpty, PopSome, PopRetry,
         PopCopy, PopMark, PopScan, PopClear, PopDone, PopMove, Goto, TypeOK
    <3> QED
      BY <3>2, <3>3
  <2>2. CASE PushStepOf(t)
    <3>1. out' = out
      BY <2>2, PushLeavesPop
    <3>2. pc[t] # "popCopy" /\ pc'[t] # "popCopy"
      BY <2>2 DEF PushStepOf, PushStep, PushCall, PushLoad, PushFull, PushSpace, PushRetry,
         PushCopy, PushScan, PushClear, PushDone, PushMove, Goto, TypeOK
    <3>3. ASSUME NEW u \in Threads, pc[u] = "popCopy"
          PROVE  packet'[index[u]] = packet[index[u]]
      <4>1. CASE PushCopy(t)
        <5>1. index[t] # index[u]
          BY <3>2, <3>3, <4>1, BlocksApart DEF PushCopy, Goto, Writing, Reading
        <5> QED
          BY <4>1, <5>1 DEF PushCopy, TypeOK
      <4>2. CASE ~ PushCopy(t)
        BY <2>2, <4>2 DEF PushStepOf, PushStep, PushCall, PushLoad, PushFull, PushSpace,
           PushRetry, PushScan, PushClear, PushDone, PushMove
      <4> QED
        BY <4>1, <4>2
    <3>4. ASSUME NEW u \in Threads
          PROVE  (IF pc'[u] = "popCopy" THEN packet'[index'[u]] ELSE out'[u])
                   = IF pc[u] = "popCopy" THEN packet[index[u]] ELSE out[u]
      <4>1. CASE u # t
        BY <2>2, <3>1, <3>3, <4>1, OthersUntouched
      <4>2. CASE u = t
        BY <3>1, <3>2, <4>2
      <4> QED
        BY <4>1, <4>2
    <3> QED
      BY <3>4 DEF GotOf
  <2> QED
    BY <2>1, <2>2
<1> QED
  BY <1>1, <1>2, <1>3

\* ringbuf.c implements a first-in first-out queue of N - 1 places: the
\* compare-and-swap on writeEnd takes a place, the flag hasBeenWritten publishes the
\* packet, and the compare-and-swap on readEnd obtains the oldest one.
THEOREM QueueImplemented ==
  ASSUME OneLap
  PROVE  Spec => ImplementsQueue
<1>1. ASSUME Init PROVE Queue!Init
  <2>1. TypeOK /\ RingInv /\ Reserved = 0 /\ taken = 0
    BY <1>1, TypeInit, RingInvInit DEF Init, Reserved
  <2>2. QueueOf = <<>>
    BY <2>1, SubSeqEmpty DEF QueueOf
  <2>3. HoldingOf = [t \in Threads |-> NoPacket] /\ GotOf = [t \in Threads |-> NoPacket]
    BY <1>1 DEF Init, HoldingOf, GotOf, Copying
  <2> QED
    BY <2>2, <2>3 DEF Queue!Init, QueueOf, HoldingOf, GotOf
<1>2. ASSUME TypeOK, RingInv, QueueShape', [Next]_vars
      PROVE  [Queue!Next]_(Queue!vars)
  <2>1. CASE UNCHANGED vars
    BY <2>1 DEF vars, flags, cursors, history, Queue!vars, Copying, Reserved
  <2>2. ASSUME NEW t \in Threads, PushStepOf(t) \/ PopStepOf(t)
        PROVE  [Queue!Next]_(Queue!vars)
    <3>1. CASE PushReserve(t)
      BY <1>2, <3>1, TakesPlace DEF Queue!Next
    <3>2. CASE PushMark(t)
      BY <1>2, <2>2, <3>2, Publishes DEF Queue!Next
    <3>3. CASE PopReserve(t)
      BY <1>2, <2>2, <3>3, Obtains DEF Queue!Next
    <3>4. CASE ~ PushReserve(t) /\ ~ PushMark(t) /\ ~ PopReserve(t)
      <4>1. UNCHANGED <<QueueOf, HoldingOf, GotOf>>
        BY <1>2, <2>2, <3>4, QueueUntouched
      <4> QED
        BY <4>1 DEF Queue!vars, QueueOf, HoldingOf, GotOf
    <3> QED
      BY <3>1, <3>2, <3>3, <3>4
  <2> QED
    BY <1>2, <2>1, <2>2 DEF Next, PushStepOf, PopStepOf
<1> QED
  BY <1>1, <1>2, RingInvariant, QueueContent, PTL DEF Spec, ImplementsQueue, Queue!Spec

-----------------------------------------------------------------------------
(* The callback ring: for any number of queries, any size of the ring, and   *)
(* whenever the main thread lets go of the Database, it is freed with the    *)
(* last reference and not before, and nobody writes to it after that. First  *)
(* the inductive invariant.                                                  *)

\* where the two threads can be: within an operation on the ring or between two
Places ==
  /\ at \in [Threads -> {"idle", "popping", "callback", "pushing", "destroying"}]
  /\ at[db] \in {"idle", "pushing", "destroying"}
  /\ pc[db] \in PushPc \cup {"idle", "pushEnter"}
  /\ pc[db] # "idle" <=> at[db] = "pushing"
  /\ at[main] \in {"idle", "popping", "callback"}
  /\ pc[main] \in PopPc \cup {"idle", "popEnter"}
  /\ pc[main] # "idle" => at[main] = "popping"

\* a query that is with a thread: its push has no block yet, it is about to be
\* destroyed by the database thread, or it has been popped
Unpushed == IF pc[db] \in {"pushEnter", "pushCheck", "pushReserve"} THEN 1 ELSE 0
Dropping == IF at[db] = "destroying" THEN 1 ELSE 0
Popped   == IF Releasing(main) \/ at[main] = "callback" THEN 1 ELSE 0
Held     == IF holds THEN 1 ELSE 0

WithThreads == Unpushed + Dropping + Popped

CountNumbers ==
  /\ refCount \in Nat /\ scheduled \in Nat /\ failed \in Nat /\ destroyed \in Nat
  /\ memory \in {"allocated", "freed"} /\ holds \in BOOLEAN /\ ended \in BOOLEAN

\* every query the database thread has taken up is destroyed, with a thread or in the ring
TakenUp == pushes + failed + taken = destroyed + WithThreads + Reserved

\* there is one reference for every query that is not destroyed and one for the main thread
References ==
  /\ pushes + failed <= scheduled
  /\ refCount + destroyed = Held + scheduled
  /\ memory = "freed" <=> refCount = 0

CountInv == Places /\ CountNumbers /\ TakenUp /\ References

-----------------------------------------------------------------------------
(* The ring *)

LEMMA TwoThreads ==
  ASSUME CallbackAssumption
  PROVE  db \in Threads /\ main \in Threads /\ db # main
  BY DEF CallbackAssumption, Threads

\* the steps of the callback ring are steps of the ring buffer
LEMMA RingSteps ==
  ASSUME CallbackAssumption
  PROVE  CbNext => [Next]_vars
<1> SUFFICES ASSUME CbNext PROVE Next \/ UNCHANGED vars
  OBVIOUS
<1>1. CASE PopNext
  BY <1>1, TwoThreads DEF PopNext, Next
<1>2. CASE PopReturns \/ PopGoesOn
  BY <1>2, TwoThreads DEF PopReturns, PopGoesOn, Next, PopStep
<1>3. CASE QueueCallback
  BY <1>3, TwoThreads DEF QueueCallback, Next
<1>4. CASE PushReturns \/ PushGoesOn
  BY <1>4, TwoThreads DEF PushReturns, PushGoesOn, Next, PushStep
<1>5. CASE Schedule \/ ExecCallbacks \/ CallbackEnd \/ MainDrops
  BY <1>5 DEF Schedule, ExecCallbacks, CallbackEnd, MainDrops
<1>6. CASE ExecFails \/ DbDestroys \/ ThreadEnds
  BY <1>6 DEF ExecFails, DbDestroys, ThreadEnds
<1> QED
  BY <1>1, <1>2, <1>3, <1>4, <1>5, <1>6 DEF CbNext

\* so the ring's invariant holds here as well
LEMMA RingKept ==
  ASSUME CallbackAssumption, OneLap
  PROVE  CbSpec => [](TypeOK /\ RingInv)
<1>1. CbInit => TypeOK /\ RingInv
  BY TypeInit, RingInvInit DEF CbInit
<1>2. TypeOK /\ RingInv /\ [CbNext]_cbVars => TypeOK' /\ RingInv'
  <2> SUFFICES ASSUME TypeOK, RingInv, [CbNext]_cbVars PROVE TypeOK' /\ RingInv'
    OBVIOUS
  <2>1. [Next]_vars
    BY RingSteps DEF cbVars
  <2>2. TypeOK /\ RingInv /\ Next => RingInv'
    BY CursorsStep, PushTicketsStep, PopTicketsStep, WriteZoneStep, ReadZoneStep,
       WriteResponsibleStep, ReadResponsibleStep, ContentsStep, DistinctStep DEF RingInv
  <2> QED
    BY <2>1, <2>2, TypeStep, RingInvStutter
<1> QED
  BY <1>1, <1>2, PTL DEF CbSpec

\* what the counts need of the ring
RingNumbers ==
  /\ Reserved \in Nat /\ taken \in Nat /\ taken <= Reserved /\ pushes \in Nat
  /\ pc \in [Threads -> Pc]

LEMMA RingNumbered == TypeOK /\ RingInv => RingNumbers
<1> SUFFICES ASSUME TypeOK, RingInv PROVE RingNumbers
  OBVIOUS
<1>1. Reserved \in Nat /\ taken \in Nat /\ visible \in Nat
  BY DEF TypeOK, Reserved
<1>2. taken <= visible /\ visible <= Reserved
  BY DEF RingInv, Cursors
<1> QED
  BY <1>1, <1>2 DEF TypeOK, RingNumbers

-----------------------------------------------------------------------------
(* What the operations on the ring do to the counts *)

\* a step of the push
LEMMA PushEffect ==
  ASSUME CallbackAssumption, RingNumbers, TypeOK, PushStep(db)
  PROVE  /\ pc[db] \in PushPc \cup {"pushEnter"}
         /\ pc' = [pc EXCEPT ![db] = pc'[db]] /\ pc'[db] \in PushPc \cup {"idle", "pushEnter"}
         /\ taken' = taken /\ pushes' = pushes /\ Reserved' \in Nat
         /\ ~ PushFull(db) => \/ Unpushed' = Unpushed /\ Reserved' = Reserved
                              \/ Unpushed = 1 /\ Unpushed' = 0 /\ Reserved' = Reserved + 1
         /\ PushFull(db) => Unpushed = 1 /\ Unpushed' = 0 /\ Reserved' = Reserved
<1> USE TwoThreads DEF RingNumbers, Goto, Unpushed, history, PushPc
<1>1. CASE PushFull(db)
  BY <1>1 DEF PushFull, Reserved
<1>2. CASE PushLoad(db) \/ PushSpace(db) \/ PushRetry(db)
  <2>1. ~ PushFull(db)
    BY <1>2 DEF PushLoad, PushSpace, PushRetry, PushFull
  <2> QED
    BY <1>2, <2>1 DEF PushLoad, PushSpace, PushRetry, Reserved
<1>3. CASE PushReserve(db)
  <2>1. Reserved' = Reserved + 1
    BY <1>3 DEF PushReserve, TypeOK, Reserved
  <2>2. ~ PushFull(db)
    BY <1>3 DEF PushReserve, PushFull
  <2> QED
    BY <1>3, <2>1, <2>2 DEF PushReserve
<1>4. CASE PushCopy(db) \/ PushMark(db) \/ PushScan(db) \/ PushClear(db) \/ PushDone(db)
  <2>1. ~ PushFull(db)
    BY <1>4 DEF PushCopy, PushMark, PushScan, PushClear, PushDone, PushFull
  <2> QED
    BY <1>4, <2>1 DEF PushCopy, PushMark, PushScan, PushClear, PushDone, Reserved
<1>5. CASE PushMove(db)
  <2>1. ~ PushFull(db)
    BY <1>5 DEF PushMove, PushFull
  <2> QED
    BY <1>5, <2>1 DEF PushMove, Reserved
<1> QED
  BY <1>1, <1>2, <1>3, <1>4, <1>5 DEF PushStep

\* a step of the pop: a query is in the ring or with the main thread
Carrying == IF Releasing(main) THEN 1 ELSE 0

LEMMA PopEffect ==
  ASSUME CallbackAssumption, RingNumbers, PopStep(main)
  PROVE  /\ pc[main] \in PopPc \cup {"popEnter"}
         /\ pc' = [pc EXCEPT ![main] = pc'[main]] /\ pc'[main] \in PopPc \cup {"idle", "popEnter"}
         /\ Reserved' = Reserved /\ pushes' = pushes /\ taken' \in Nat
         /\ ~ PopDone(main) => \/ Carrying' = Carrying /\ taken' = taken
                               \/ Carrying = 0 /\ Carrying' = 1 /\ taken' = taken + 1
         /\ PopDone(main) => Carrying = 1 /\ taken' = taken
<1> USE TwoThreads DEF RingNumbers, Goto, Carrying, Releasing, history, PopPc, Reserved
<1>1. CASE PopDone(main)
  BY <1>1 DEF PopDone
<1>2. CASE PopLoad(main) \/ PopEmpty(main) \/ PopSome(main) \/ PopRetry(main)
  <2>1. ~ PopDone(main)
    BY <1>2 DEF PopLoad, PopEmpty, PopSome, PopRetry, PopDone
  <2> QED
    BY <1>2, <2>1 DEF PopLoad, PopEmpty, PopSome, PopRetry
<1>3. CASE PopReserve(main)
  <2>1. ~ PopDone(main)
    BY <1>3 DEF PopReserve, PopDone
  <2> QED
    BY <1>3, <2>1 DEF PopReserve
<1>4. CASE PopCopy(main) \/ PopMark(main) \/ PopScan(main) \/ PopClear(main)
  <2>1. ~ PopDone(main)
    BY <1>4 DEF PopCopy, PopMark, PopScan, PopClear, PopDone
  <2> QED
    BY <1>4, <2>1 DEF PopCopy, PopMark, PopScan, PopClear
<1>5. CASE PopMove(main)
  <2>1. ~ PopDone(main)
    BY <1>5 DEF PopMove, PopDone
  <2> QED
    BY <1>5, <2>1 DEF PopMove
<1> QED
  BY <1>1, <1>2, <1>3, <1>4, <1>5 DEF PopStep

-----------------------------------------------------------------------------
(* The invariant of the counts: whenever the main thread drops its reference *)

LEMMA CountInit ==
  ASSUME CallbackAssumption
  PROVE  CbInit => CountInv
<1> SUFFICES ASSUME CbInit PROVE CountInv
  OBVIOUS
<1> USE TwoThreads DEF CbInit, Init
<1>1. Places
  BY DEF Places
<1>2. CountNumbers
  BY DEF CountNumbers
<1>3. Reserved = 0 /\ taken = 0 /\ pushes = 0
  BY DEF Reserved
<1>4. WithThreads = 0 /\ Held = 1
  BY DEF WithThreads, Unpushed, Dropping, Popped, Held, Releasing
<1>5. TakenUp
  BY <1>3, <1>4 DEF TakenUp
<1>6. References
  BY <1>3, <1>4 DEF References
<1> QED
  BY <1>1, <1>2, <1>5, <1>6 DEF CountInv

\* a query is destroyed: its reference was there, and the last one frees
LEMMA Destroyed ==
  ASSUME RingNumbers, CountInv, QueryDestroy, UNCHANGED <<pushes, accepted, taken, ended>>,
         WithThreads \in Nat, WithThreads >= 1, WithThreads' = WithThreads - 1
  PROVE  CountNumbers' /\ TakenUp' /\ References'
<1> USE DEF RingNumbers
<1>1. Held \in 0 .. 1
  BY DEF Held
<1>2. Reserved' = Reserved /\ Held' = Held
  BY DEF Reserved, Held, QueryDestroy
<1>3. pushes + failed + taken = destroyed + WithThreads + Reserved
  BY DEF CountInv, TakenUp
<1>4. destroyed \in Nat /\ failed \in Nat /\ scheduled \in Nat /\ refCount \in Nat
  BY DEF CountInv, CountNumbers
<1>5. WithThreads >= 1 /\ taken <= Reserved
  OBVIOUS
<1>6. pushes + failed >= destroyed + 1
  BY <1>3, <1>4, <1>5
<1>7. pushes + failed <= scheduled /\ refCount + destroyed = Held + scheduled
  BY DEF CountInv, References
<1>8. refCount >= 1
  BY <1>1, <1>4, <1>6, <1>7
<1>9. /\ refCount' = refCount - 1 /\ destroyed' = destroyed + 1
      /\ scheduled' = scheduled /\ failed' = failed /\ holds' = holds
      /\ memory' = IF refCount > 1 THEN memory ELSE "freed"
  BY DEF QueryDestroy, DropRef
<1>10. CountNumbers'
  BY <1>8, <1>9 DEF CountInv, CountNumbers
<1>11. TakenUp'
  <2>1. pushes' = pushes /\ taken' = taken
    OBVIOUS
  <2>2. pushes' + failed' + taken' = pushes + failed + taken
    BY <1>9, <2>1
  <2>3. destroyed' + WithThreads' + Reserved' = destroyed + WithThreads + Reserved
    BY <1>2, <1>9, <1>4
  <2> QED
    BY <2>2, <2>3, <1>3 DEF TakenUp
<1>12. References'
  BY <1>1, <1>2, <1>8, <1>9 DEF CountInv, References, CountNumbers
<1> QED
  BY <1>10, <1>11, <1>12

LEMMA CountStep ==
  ASSUME CallbackAssumption
  PROVE  TypeOK /\ RingNumbers /\ CountInv /\ CbNext => CountInv'
<1> SUFFICES ASSUME TypeOK, RingNumbers, CountInv, CbNext PROVE CountInv'
  OBVIOUS
<1> USE TwoThreads
<1>w. Unpushed \in 0 .. 1 /\ Dropping \in 0 .. 1 /\ Popped \in 0 .. 1 /\ Held \in 0 .. 1
  BY DEF Unpushed, Dropping, Popped, Held
<1>u. WithThreads \in Nat /\ Held \in 0 .. 1
  BY <1>w DEF WithThreads
<1>n. /\ refCount \in Nat /\ scheduled \in Nat /\ failed \in Nat /\ destroyed \in Nat
      /\ pushes + failed <= scheduled
  BY DEF CountInv, CountNumbers, References
<1>t. pushes + failed + taken = destroyed + WithThreads + Reserved
  BY DEF CountInv, TakenUp
<1>r. refCount + destroyed = Held + scheduled /\ (memory = "freed" <=> refCount = 0)
  BY DEF CountInv, References
<1>p. Places
  BY DEF CountInv
<1>i. /\ pushes \in Nat /\ Reserved \in Nat /\ taken \in Nat /\ taken <= Reserved
      /\ pc \in [Threads -> Pc]
  BY DEF RingNumbers
<1>1. CASE Schedule
  <2>1. /\ scheduled' = scheduled + 1 /\ refCount' = refCount + 1
        /\ holds /\ UNCHANGED <<vars, memory, holds, failed, destroyed, at, ended>>
    BY <1>1 DEF Schedule, stageVars
  <2>2. /\ pushes' = pushes /\ taken' = taken /\ Reserved' = Reserved /\ pc' = pc
        /\ WithThreads' = WithThreads /\ Held' = Held
    BY <2>1 DEF vars, history, Reserved, WithThreads, Unpushed, Dropping, Popped, Held, Releasing
  <2>3. Places'
    BY <2>1, <2>2, <1>i, <1>p DEF Places
  <2>4. Held = 1 /\ memory # "freed"
    BY <2>1, <1>r, <1>i, <1>n, <1>t, <1>u DEF Held
  <2>5. CountNumbers' /\ TakenUp' /\ References'
    BY <2>1, <2>2, <2>4, <1>i, <1>n, <1>t, <1>r, <1>u DEF CountInv, CountNumbers, TakenUp, References
  <2> QED
    BY <2>3, <2>5 DEF CountInv
<1>2. CASE ExecCallbacks
  <2>1. at' = [at EXCEPT ![main] = "popping"] /\ at[main] = "idle" /\ UNCHANGED <<vars, refVars, ended>>
    BY <1>2 DEF ExecCallbacks, Moves
  <2>2. Places'
    BY <2>1, <1>i, <1>p DEF Places, vars
  <2>3. /\ pushes' = pushes /\ taken' = taken /\ Reserved' = Reserved /\ pc' = pc
        /\ WithThreads' = WithThreads /\ Held' = Held
    BY <2>1, <1>i, <1>p DEF vars, refVars, history, Reserved, WithThreads, Unpushed, Dropping, Popped, Held, Releasing, Places
  <2>4. CountNumbers' /\ TakenUp' /\ References'
    BY <2>1, <2>3, <1>i, <1>n, <1>t, <1>r DEF CountInv, CountNumbers, TakenUp, References, refVars
  <2> QED
    BY <2>2, <2>4 DEF CountInv
<1>3. CASE PopNext
  <2>1. /\ pc' = [pc EXCEPT ![main] = "popEnter"] /\ pc[main] = "idle" /\ at[main] = "popping"
        /\ UNCHANGED <<refVars, at, ended, pushes, taken, accepted>>
    BY <1>3 DEF PopNext, PopCall, Goto, stageVars, history
  <2>2. Places'
    BY <2>1, <1>i, <1>p DEF Places, PopPc
  <2>3. /\ pushes' = pushes /\ taken' = taken /\ Reserved' = Reserved
        /\ WithThreads' = WithThreads /\ Held' = Held
    BY <2>1 DEF refVars, Reserved, WithThreads, Unpushed, Dropping, Popped, Held, Releasing
  <2>4. CountNumbers' /\ TakenUp' /\ References'
    BY <2>1, <2>3, <1>i, <1>n, <1>t, <1>r DEF CountInv, CountNumbers, TakenUp, References, refVars
  <2> QED
    BY <2>2, <2>4 DEF CountInv
<1>4. CASE PopReturns \/ PopGoesOn
  <2>1. PopStep(main) /\ UNCHANGED <<refVars, ended>>
    BY <1>4 DEF PopReturns, PopGoesOn, PopStep, stageVars
  <2>2. /\ pc[main] \in PopPc \cup {"popEnter"} /\ at[main] = "popping"
        /\ pc' = [pc EXCEPT ![main] = pc'[main]] /\ pc'[main] \in PopPc \cup {"idle", "popEnter"}
        /\ Reserved' = Reserved /\ pushes' = pushes /\ taken' \in Nat
        /\ ~ PopDone(main) => \/ Carrying' = Carrying /\ taken' = taken
                              \/ Carrying = 0 /\ Carrying' = 1 /\ taken' = taken + 1
        /\ PopDone(main) => Carrying = 1 /\ taken' = taken
    BY <2>1, PopEffect, <1>i, <1>p DEF Places, PopPc
  <2>3. Places' /\ at'[db] = at[db]
    <3>1. CASE PopReturns
      <4>1. /\ at' = [at EXCEPT ![main] = at'[main]] /\ at'[main] \in {"idle", "callback"}
            /\ pc'[main] = "idle"
        BY <1>i, <1>p, <3>1 DEF PopReturns, Moves, Places, PopEmpty, PopDone, Goto
      <4> QED
        BY <2>2, <4>1, <1>i, <1>p DEF Places
    <3>2. CASE PopGoesOn
      BY <2>2, <3>2, <1>i, <1>p DEF PopGoesOn, Places, stageVars
    <3> QED
      BY <1>4, <3>1, <3>2
  <2>4. Unpushed' = Unpushed /\ Dropping' = Dropping /\ Held' = Held
    BY <2>1, <2>2, <2>3, <1>i DEF refVars, Unpushed, Dropping, Held
  <2>5. \/ Popped' = Popped /\ taken' = taken
        \/ Popped = 0 /\ Popped' = 1 /\ taken' = taken + 1
    <3>1. CASE PopDone(main)
      <4>1. at'[main] = "callback"
        BY <1>4, <1>i, <1>p, <3>1, <2>2 DEF PopReturns, PopGoesOn, PopEmpty, PopDone, Goto, Moves, Places
      <4> QED
        BY <2>2, <3>1, <4>1 DEF Popped, Carrying
    <3>2. CASE ~ PopDone(main)
      <4>1. at'[main] # "callback"
        BY <1>4, <1>i, <1>p, <3>2, <2>2 DEF PopReturns, PopGoesOn, Moves, Places, stageVars
      <4> QED
        BY <2>2, <3>2, <4>1 DEF Popped, Carrying
    <3> QED
      BY <3>1, <3>2
  <2>6. CountNumbers' /\ References'
    BY <2>1, <2>2, <2>4, <1>i, <1>n, <1>r DEF CountInv, CountNumbers, References, refVars
  <2>7. TakenUp'
    <3>1. /\ failed' = failed /\ destroyed' = destroyed /\ pushes' = pushes
          /\ Reserved' = Reserved /\ taken' \in Nat
      BY <2>1, <2>2 DEF refVars
    <3>2. CASE Popped' = Popped /\ taken' = taken
      <4>1. WithThreads' = WithThreads
        BY <2>4, <3>2 DEF WithThreads
      <4> QED
        BY <3>1, <3>2, <4>1, <1>t DEF TakenUp
    <3>3. CASE Popped = 0 /\ Popped' = 1 /\ taken' = taken + 1
      <4>1. WithThreads' = WithThreads + 1
        BY <2>4, <3>3, <1>w DEF WithThreads
      <4> QED
        BY <3>1, <3>3, <4>1, <1>i, <1>n, <1>t, <1>u DEF TakenUp
    <3> QED
      BY <2>5, <3>2, <3>3
  <2> QED
    BY <2>3, <2>6, <2>7 DEF CountInv
<1>5. CASE CallbackEnd
  <2>1. /\ at' = [at EXCEPT ![main] = "popping"] /\ at[main] = "callback" /\ pc' = pc
        /\ UNCHANGED <<pushes, accepted, taken, ended>> /\ QueryDestroy
    BY <1>5 DEF CallbackEnd, Moves, vars, history
  <2>2. pc[main] = "idle"
    BY <2>1, <1>i, <1>p DEF Places
  <2>3. Places'
    BY <2>1, <2>2, <1>i, <1>p DEF Places
  <2>4. WithThreads >= 1 /\ WithThreads' = WithThreads - 1
    BY <2>1, <2>2, <1>i, <1>p DEF WithThreads, Unpushed, Dropping, Popped, Releasing, Places
  <2> QED
    BY <2>1, <2>3, <2>4, <1>u, Destroyed DEF CountInv
<1>6. CASE MainDrops
  <2>1. /\ holds /\ holds' = FALSE /\ refCount' = refCount - 1
        /\ memory' = IF refCount > 1 THEN memory ELSE "freed"
        /\ UNCHANGED <<vars, scheduled, failed, destroyed, at, ended>>
    BY <1>6 DEF MainDrops, DropRef, stageVars
  <2>2. /\ pushes' = pushes /\ taken' = taken /\ Reserved' = Reserved /\ pc' = pc
        /\ WithThreads' = WithThreads
        /\ Held = 1 /\ Held' = 0
    BY <2>1 DEF vars, history, Reserved, WithThreads, Unpushed, Dropping, Popped, Held, Releasing
  <2>3. Places'
    BY <2>1, <2>2, <1>i, <1>p DEF Places
  <2>4. refCount >= 1
    BY <2>2, <1>r, <1>i, <1>n, <1>t, <1>u
  <2>5. CountNumbers'
    <3>1. memory \in {"allocated", "freed"} /\ ended \in BOOLEAN
      BY DEF CountInv, CountNumbers
    <3>2. refCount' \in Nat /\ memory' \in {"allocated", "freed"}
      BY <2>1, <2>4, <1>n, <3>1
    <3> QED
      BY <2>1, <1>n, <3>1, <3>2 DEF CountNumbers
  <2>6. TakenUp'
    BY <2>1, <2>2, <1>t DEF TakenUp
  <2>7. refCount' = refCount - 1 /\ scheduled' = scheduled /\ destroyed' = destroyed
        /\ failed' = failed /\ (memory' = "freed" <=> refCount' = 0)
    BY <2>1, <2>4, <1>n, <1>r
  <2>8. References'
    BY <2>2, <2>4, <2>7, <1>i, <1>n, <1>r DEF References
  <2> QED
    BY <2>3, <2>5, <2>6, <2>8 DEF CountInv
<1>7. CASE QueueCallback
  <2>1. /\ at' = [at EXCEPT ![db] = "pushing"] /\ at[db] = "idle"
        /\ pc' = [pc EXCEPT ![db] = "pushEnter"] /\ pc[db] = "idle"
        /\ pushes' = pushes + 1 /\ scheduled - pushes - failed > 0
        /\ UNCHANGED <<refVars, ended, taken, accepted>>
    BY <1>7 DEF QueueCallback, PushCall, Goto, Moves, Pending
  <2>2. Places'
    BY <2>1, <1>i, <1>p DEF Places
  <2>3. /\ taken' = taken /\ Reserved' = Reserved /\ Held' = Held
        /\ WithThreads' = WithThreads + 1
    BY <2>1, <1>i, <1>p DEF refVars, Reserved, WithThreads, Unpushed, Dropping, Popped, Held, Releasing, Places
  <2>4. CountNumbers' /\ TakenUp' /\ References'
    BY <2>1, <2>3, <1>i, <1>n, <1>t, <1>r, <1>u DEF CountInv, CountNumbers, TakenUp, References, refVars
  <2> QED
    BY <2>2, <2>4 DEF CountInv
<1>8. CASE PushReturns \/ PushGoesOn
  <2>1. PushStep(db) /\ UNCHANGED <<refVars, ended>>
    BY <1>8 DEF PushReturns, PushGoesOn, PushStep, stageVars
  <2>2. /\ pc[db] \in PushPc \cup {"pushEnter"} /\ at[db] = "pushing"
        /\ pc' = [pc EXCEPT ![db] = pc'[db]] /\ pc'[db] \in PushPc \cup {"idle", "pushEnter"}
        /\ taken' = taken /\ pushes' = pushes /\ Reserved' \in Nat
        /\ ~ PushFull(db) => \/ Unpushed' = Unpushed /\ Reserved' = Reserved
                             \/ Unpushed = 1 /\ Unpushed' = 0 /\ Reserved' = Reserved + 1
        /\ PushFull(db) => Unpushed = 1 /\ Unpushed' = 0 /\ Reserved' = Reserved
    BY <2>1, PushEffect, <1>i, <1>p DEF Places, PushPc
  <2>3. Places' /\ at'[main] = at[main]
    <3>1. CASE PushReturns
      <4>1. /\ at' = [at EXCEPT ![db] = at'[db]] /\ at'[db] \in {"idle", "destroying"}
            /\ pc'[db] = "idle"
        BY <1>i, <1>p, <3>1 DEF PushReturns, Moves, Places, PushFull, PushDone, Goto
      <4> QED
        BY <2>2, <4>1, <1>i, <1>p DEF Places
    <3>2. CASE PushGoesOn
      BY <2>2, <3>2, <1>i, <1>p DEF PushGoesOn, Places, stageVars
    <3> QED
      BY <1>8, <3>1, <3>2
  <2>4. Popped' = Popped /\ Held' = Held
    BY <2>1, <2>2, <2>3, <1>i DEF refVars, Popped, Held, Releasing
  <2>5. \/ Unpushed' = Unpushed /\ Dropping' = Dropping /\ Reserved' = Reserved
        \/ /\ Unpushed = 1 /\ Unpushed' = 0 /\ Dropping' = Dropping
           /\ Reserved' = Reserved + 1
        \/ /\ Unpushed = 1 /\ Unpushed' = 0 /\ Dropping = 0 /\ Dropping' = 1
           /\ Reserved' = Reserved
    <3>1. CASE PushFull(db)
      <4>1. at'[db] = "destroying"
        BY <1>8, <1>i, <1>p, <3>1, <2>2 DEF PushReturns, PushGoesOn, PushFull, PushDone, Goto, Moves, Places
      <4> QED
        BY <2>2, <3>1, <4>1 DEF Dropping
    <3>2. CASE ~ PushFull(db)
      <4>1. at'[db] # "destroying"
        BY <1>8, <1>i, <1>p, <3>2, <2>2 DEF PushReturns, PushGoesOn, Moves, Places, stageVars
      <4>2. Dropping' = Dropping
        BY <2>2, <4>1 DEF Dropping
      <4> QED
        BY <2>2, <3>2, <4>2
    <3> QED
      BY <3>1, <3>2
  <2>6. CountNumbers' /\ References'
    BY <2>1, <2>2, <2>4, <1>i, <1>n, <1>r DEF CountInv, CountNumbers, References, refVars
  <2>7. TakenUp'
    <3>1. failed' = failed /\ destroyed' = destroyed /\ pushes' = pushes
      BY <2>1, <2>2 DEF refVars
    <3>2. Reserved' \in Nat /\ taken' = taken
      BY <2>2, <1>i
    <3>3. CASE Unpushed' = Unpushed /\ Dropping' = Dropping /\ Reserved' = Reserved
      <4>1. WithThreads' = WithThreads
        BY <2>4, <3>3 DEF WithThreads
      <4> QED
        BY <3>1, <3>2, <3>3, <4>1, <1>t DEF TakenUp
    <3>4. CASE /\ Unpushed = 1 /\ Unpushed' = 0 /\ Dropping' = Dropping
               /\ Reserved' = Reserved + 1
      <4>1. WithThreads >= 1 /\ WithThreads' = WithThreads - 1
        BY <2>4, <3>4, <1>w DEF WithThreads
      <4> QED
        BY <3>1, <3>2, <3>4, <4>1, <1>i, <1>n, <1>t, <1>u DEF TakenUp
    <3>5. CASE /\ Unpushed = 1 /\ Unpushed' = 0 /\ Dropping = 0 /\ Dropping' = 1
               /\ Reserved' = Reserved
      <4>1. WithThreads' = WithThreads
        BY <2>4, <3>5, <1>w DEF WithThreads
      <4> QED
        BY <3>1, <3>2, <3>5, <4>1, <1>t DEF TakenUp
    <3> QED
      BY <2>5, <3>3, <3>4, <3>5
  <2> QED
    BY <2>3, <2>6, <2>7 DEF CountInv
<1>9. CASE ExecFails
  <2>1. /\ at' = [at EXCEPT ![db] = "destroying"] /\ at[db] = "idle" /\ pc' = pc
        /\ failed' = failed + 1 /\ scheduled - pushes - failed > 0
        /\ UNCHANGED <<memory, refCount, holds, scheduled, destroyed, ended, pushes, taken, accepted>>
    BY <1>9 DEF ExecFails, Moves, Pending, vars, history
  <2>2. Places'
    BY <2>1, <1>i, <1>p DEF Places
  <2>3. /\ pushes' = pushes /\ taken' = taken /\ Reserved' = Reserved /\ Held' = Held
        /\ WithThreads' = WithThreads + 1
    BY <2>1, <1>i, <1>p DEF Reserved, WithThreads, Unpushed, Dropping, Popped, Held, Releasing, Places
  <2>4. CountNumbers' /\ TakenUp' /\ References'
    BY <2>1, <2>3, <1>i, <1>n, <1>t, <1>r, <1>u DEF CountInv, CountNumbers, TakenUp, References
  <2> QED
    BY <2>2, <2>4 DEF CountInv
<1>10. CASE DbDestroys
  <2>1. /\ at' = [at EXCEPT ![db] = "idle"] /\ at[db] = "destroying" /\ pc' = pc
        /\ UNCHANGED <<pushes, accepted, taken, ended>> /\ QueryDestroy
    BY <1>10 DEF DbDestroys, Moves, vars, history
  <2>2. Places'
    BY <2>1, <1>i, <1>p DEF Places
  <2>3. WithThreads >= 1 /\ WithThreads' = WithThreads - 1
    BY <2>1, <1>i, <1>p DEF WithThreads, Unpushed, Dropping, Popped, Releasing, Places
  <2> QED
    BY <2>1, <2>2, <2>3, <1>u, Destroyed DEF CountInv
<1>11. CASE ThreadEnds
  <2>1. ended' = TRUE /\ UNCHANGED <<vars, refVars, at>>
    BY <1>11 DEF ThreadEnds
  <2>2. /\ pushes' = pushes /\ taken' = taken /\ Reserved' = Reserved /\ pc' = pc
        /\ WithThreads' = WithThreads /\ Held' = Held
    BY <2>1 DEF vars, refVars, history, Reserved, WithThreads, Unpushed, Dropping, Popped, Held, Releasing
  <2>3. Places'
    BY <2>1, <2>2, <1>i, <1>p DEF Places
  <2>4. CountNumbers' /\ TakenUp' /\ References'
    BY <2>1, <2>2, <1>i, <1>n, <1>t, <1>r DEF CountInv, CountNumbers, TakenUp, References, refVars
  <2> QED
    BY <2>3, <2>4 DEF CountInv
<1> QED
  BY <1>1, <1>2, <1>3, <1>4, <1>5, <1>6, <1>7, <1>8, <1>9, <1>10, <1>11 DEF CbNext

\* CountInv holds in every state, even if the main thread drops its reference while
\* queries are with the database thread or in the ring, or from within a callback.
THEOREM CountInvariant ==
  ASSUME CallbackAssumption, OneLap
  PROVE  CbSpec => [](TypeOK /\ RingInv /\ CountInv)
<1>1. CbInit => CountInv
  BY CountInit
<1>2. TypeOK /\ RingInv /\ CountInv /\ [CbNext]_cbVars => CountInv'
  <2> SUFFICES ASSUME TypeOK, RingInv, CountInv, [CbNext]_cbVars PROVE CountInv'
    OBVIOUS
  <2>1. CASE CbNext
    BY <2>1, CountStep, RingNumbered
  <2>2. CASE UNCHANGED cbVars
    <3>1. /\ UNCHANGED <<memory, refCount, holds, scheduled, failed, destroyed, at, ended>>
          /\ UNCHANGED <<pc, pushes, taken, accepted>>
      BY <2>2 DEF cbVars, vars, refVars, stageVars, history
    <3>2. /\ WithThreads' = WithThreads /\ Reserved' = Reserved /\ Held' = Held
      BY <3>1 DEF WithThreads, Unpushed, Dropping, Popped, Releasing, Reserved, Held
    <3>3. Places' /\ CountNumbers'
      BY <3>1 DEF CountInv, Places, CountNumbers
    <3>4. TakenUp' /\ References'
      BY <3>1, <3>2 DEF CountInv, TakenUp, References
    <3> QED
      BY <3>3, <3>4 DEF CountInv
  <2> QED
    BY <2>1, <2>2
<1> QED
  BY <1>1, <1>2, RingKept, PTL DEF CbSpec

LEMMA FreedLast == TypeOK /\ RingInv /\ CountInv => FreedWithLastReference
<1> SUFFICES ASSUME TypeOK, RingInv, CountInv PROVE FreedWithLastReference
  OBVIOUS
<1>1. /\ Reserved \in Nat /\ taken \in Nat /\ taken <= Reserved /\ pushes \in Nat
  BY RingNumbered DEF RingNumbers
<1>2. /\ refCount \in Nat /\ scheduled \in Nat /\ failed \in Nat /\ destroyed \in Nat
      /\ pushes + failed <= scheduled
      /\ refCount + destroyed = Held + scheduled /\ (memory = "freed" <=> refCount = 0)
      /\ pushes + failed + taken = destroyed + WithThreads + Reserved
  BY DEF CountInv, CountNumbers, References, TakenUp
<1>3. WithThreads \in Nat
  BY DEF WithThreads, Unpushed, Dropping, Popped
<1>4. destroyed <= pushes + failed /\ destroyed <= scheduled
  BY <1>1, <1>2, <1>3
<1>5. Held = (IF holds THEN 1 ELSE 0) /\ holds \in BOOLEAN
  BY DEF Held, CountInv, CountNumbers
<1>6. refCount = 0 <=> ~ holds /\ destroyed = scheduled
  <2>1. CASE holds
    BY <2>1, <1>2, <1>4, <1>5
  <2>2. CASE ~ holds
    BY <2>2, <1>2, <1>4, <1>5
  <2> QED
    BY <2>1, <2>2
<1>7. destroyed = scheduled => taken = Reserved
  <2> SUFFICES ASSUME destroyed = scheduled PROVE taken = Reserved
    OBVIOUS
  <2>1. pushes + failed = destroyed
    BY <1>1, <1>2, <1>4
  <2> QED
    BY <2>1, <1>1, <1>2, <1>3
<1> QED
  BY <1>2, <1>6, <1>7 DEF FreedWithLastReference

\* FreedWithLastReference holds in every state, for any number of queries and any size
\* of the ring, and at whatever moment the main thread drops its own reference: db_drop
\* frees the Database when the last of its references goes, and no query is left in the
\* ring or anywhere else then.
THEOREM LastReferenceFrees ==
  ASSUME CallbackAssumption, OneLap
  PROVE  CbSpec => []FreedWithLastReference
  BY CountInvariant, FreedLast, PTL

-----------------------------------------------------------------------------
(* The ring when it has been freed *)

\* a freed Database has no query with a thread or in the ring, all of it being taken
LEMMA NothingInHand ==
  ASSUME TypeOK, RingInv, CountInv, memory = "freed"
  PROVE  Unpushed = 0 /\ Popped = 0 /\ taken = visible /\ visible = Reserved
<1>1. Reserved \in Nat /\ taken \in Nat /\ pushes \in Nat
  BY RingNumbered DEF RingNumbers
<1>2. taken <= visible /\ visible <= Reserved /\ visible \in Nat
  BY DEF RingInv, Cursors, TypeOK
<1>3. Unpushed \in 0 .. 1 /\ Dropping \in 0 .. 1 /\ Popped \in 0 .. 1
  BY DEF Unpushed, Dropping, Popped
<1>4. destroyed = scheduled /\ taken = Reserved
  BY FreedLast DEF FreedWithLastReference
<1>5. /\ pushes + failed <= scheduled
      /\ pushes + failed + taken = destroyed + WithThreads + Reserved
      /\ failed \in Nat /\ scheduled \in Nat
  BY DEF CountInv, CountNumbers, References, TakenUp
<1>6. WithThreads \in Nat
  BY <1>3 DEF WithThreads
<1>7. WithThreads = 0
  BY <1>1, <1>4, <1>5, <1>6
<1>8. Unpushed = 0 /\ Popped = 0
  BY <1>3, <1>7 DEF WithThreads
<1> QED
  BY <1>1, <1>2, <1>4, <1>8

LEMMA FreedRead ==
  ASSUME CallbackAssumption
  PROVE  TypeOK /\ RingInv /\ CountInv /\ FreshPop => FreedRingOnlyRead
<1> SUFFICES ASSUME TypeOK, RingInv, CountInv, FreshPop, memory = "freed"
             PROVE  /\ pc[db] \in {"idle", "pushScan", "pushClear"}
                    /\ pc[main] \in {"idle", "popEnter", "popCheck"}
                    /\ \A i \in Blocks : ~ hasBeenWritten[i] /\ ~ hasBeenRead[i]
  BY DEF FreedRingOnlyRead
<1>1. Unpushed = 0 /\ Popped = 0 /\ taken = visible /\ visible = Reserved
  BY NothingInHand
<1>2. db \in Threads /\ main \in Threads /\ Threads = {db, main}
  BY DEF CallbackAssumption, Threads
<1>3. visible \in Nat /\ released \in Nat /\ released <= taken
  BY DEF TypeOK, RingInv, Cursors
<1>4. ~ Releasing(main) /\ pc[db] \notin {"pushEnter", "pushCheck", "pushReserve"}
  BY <1>1 DEF Unpushed, Popped
<1>5. pc[db] \notin {"pushCopy", "pushMark"}
  <2> SUFFICES ASSUME pc[db] \in {"pushCopy", "pushMark"} PROVE FALSE
    OBVIOUS
  <2>1. ticket[db] \in visible .. Reserved - 1
    BY <1>2 DEF RingInv, WriteZone, Zone, Writing
  <2> QED
    BY <1>1, <1>3, <2>1
<1>6. pc[db] # "pushMove"
  <2> SUFFICES ASSUME pc[db] = "pushMove" PROVE FALSE
    OBVIOUS
  <2>1. visible < Reserved
    BY <1>2 DEF RingInv, WriteZone, Zone, WriteMoves
  <2> QED
    BY <1>1, <1>3, <2>1
<1>7. pc[main] # "popReserve"
  <2> SUFFICES ASSUME pc[main] = "popReserve" PROVE FALSE
    OBVIOUS
  <2>1. ticket[main] = taken
    BY <1>2 DEF FreshPop
  <2>2. taken < visible
    BY <1>2, <2>1 DEF RingInv, PopTickets, PopTicket
  <2> QED
    BY <1>1, <1>3, <2>2
<1>8. released = taken
  <2>1. \A t \in Threads : ~ Releasing(t)
    BY <1>2, <1>4 DEF CountInv, Places, Releasing, PushPc
  <2> QED
    BY <2>1, ReadBlocksFree
<1>9. visible .. Reserved - 1 = {} /\ released .. taken - 1 = {}
  BY <1>1, <1>3, <1>8
<1>10. \A i \in Blocks : ~ hasBeenWritten[i] /\ ~ hasBeenRead[i]
  BY <1>9 DEF RingInv, WriteZone, ReadZone, Zone
<1>11. pc[db] \in {"idle", "pushScan", "pushClear"}
  BY <1>4, <1>5, <1>6 DEF CountInv, Places, PushPc
<1>12. pc[main] \in {"idle", "popEnter", "popCheck"}
  BY <1>4, <1>7 DEF CountInv, Places, PopPc, Releasing
<1> QED
  BY <1>10, <1>11, <1>12

\* FreedRingOnlyRead holds in every state, for any number of queries, any size of the
\* ring, and whenever the main thread drops its reference, from within a callback, too:
\* a push or a loop of db_exec_callbacks that is still within a ring when db_drop frees
\* it has no packet in hand there, clears no flag and moves no cursor.
THEOREM NoWriteAfterFree ==
  ASSUME CallbackAssumption, OneLap
  PROVE  CbSpec => []FreedRingOnlyRead
<1>1. CbInit => FreshPop
  BY DEF CbInit, Init, FreshPop
<1>2. TypeOK /\ RingInv /\ FreshPop /\ [CbNext]_cbVars => FreshPop'
  <2>1. SoleConsumer
    BY DEF SoleConsumer, CallbackAssumption
  <2> QED
    BY <2>1, RingSteps, FreshPopStep DEF cbVars
<1> QED
  BY <1>1, <1>2, CountInvariant, FreedRead, PTL DEF CbSpec
=============================================================================
