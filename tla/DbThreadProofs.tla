---------------------------- MODULE DbThreadProofs ----------------------------
(***************************************************************************)
(* Theorems about the database thread: for any databases, queries and      *)
(* transactions, and any capacity of the rings.                            *)
(***************************************************************************)
EXTENDS DbThread, FiniteSetTheorems, SequenceTheorems, TLAPS

\* What a program counter promises of the locals it goes with.
PlaceTells ==
  /\ mpc = "schedPush" => mobj \in Scheduled
  /\ mpc \in {"cbRun", "cbDestroy"} => mobj \in Queries
  /\ mpc \in {"cbPop", "cbRun", "cbDestroy"} => mdb \in Databases
  /\ dpc \in TransPc \ {"transBegin"} => di <= Len(transactions)
  /\ dpc \in {"queryQueue", "queryPop"} => di <= Len(queries)
  /\ dpc \in {"wait", "stopCheck", "exited", "freed"} => queries = <<>> /\ transactions = <<>>

\* An object knows its Database from its creation on.
DbKnown == \A o \in Objects : state[o] # "none" => dbOf[o] \in Databases

LiveOf(d) == {o \in Objects : state[o] = "live" /\ dbOf[o] = d}

\* the counts of RefCountExact and OneOwner are counts of finite sets
Counted ==
  /\ \A d \in Databases : IsFiniteSet(LiveOf(d))
  /\ \A o \in Objects : IsFiniteSet(CallbackPlaces(o))

OwnerInv == TypeOK /\ PlaceTells /\ DbKnown /\ Counted /\ RefCountExact /\ OneOwner

\* Who still has to be called was not called, and what the main thread is given was
\* executed.
CallOnce ==
  /\ \A o \in Objects : state[o] = "none" => called[o] = 0
  /\ \A x \in Transactions :
       state[x] = "live" /\ called[x] > 0 =>
         /\ dpc \in {"commitPrep", "commitStep", "commitQueue", "transSkip"}
         /\ Trans = x
  /\ dpc = "transCallback" => inTxn[TDb] /\ called[Trans] = 0
  /\ \A q \in Queries :
       called[q] > 0 => state[q] = "freed" \/ (mpc = "cbDestroy" /\ mobj = q)

Executed ==
  /\ \A d \in Databases : \A i \in 1 .. Len(callbackQueue[d]) :
       result[callbackQueue[d][i]] # "none"
  /\ mpc \in {"cbRun", "cbDestroy"} => result[mobj] # "none"
  /\ dpc = "queryQueue" => result[Query] # "none"
  /\ dpc = "commitQueue" => result[Commit(Trans)] # "none"

BracketInv == TransactionBracket /\ CallOnce /\ Executed

DbInv == OwnerInv /\ BracketInv

-----------------------------------------------------------------------------
(* How often an object is in a sequence *)

One(b) == IF b THEN 1 ELSE 0

\* The places of an object in a sequence are finitely many.
LEMMA PlacesFinite ==
  ASSUME NEW S, NEW s \in Seq(S), NEW o
  PROVE  IsFiniteSet(PlacesOf(s, o)) /\ Places(s, o) \in Nat
<1>1. IsFiniteSet(1 .. Len(s))
  BY FS_Interval
<1>2. PlacesOf(s, o) \in SUBSET (1 .. Len(s))
  BY DEF PlacesOf
<1>3. IsFiniteSet(PlacesOf(s, o))
  BY <1>1, <1>2, FS_Subset
<1> QED
  BY <1>3, FS_CardinalityType DEF Places

\* Nothing has a place in the empty sequence.
LEMMA PlacesEmpty == \A o : Places(<<>>, o) = 0
<1> TAKE o
<1>1. PlacesOf(<<>>, o) = {}
  BY DEF PlacesOf
<1> QED
  BY <1>1, FS_EmptySet DEF Places

\* A push makes one more place, for the object that is pushed.
LEMMA PlacesAppend ==
  ASSUME NEW S, NEW s \in Seq(S), NEW e \in S, NEW o
  PROVE  Places(Append(s, e), o) = Places(s, o) + One(e = o)
<1> DEFINE t == Append(s, e)
           n == Len(s)
<1>1. /\ n \in Nat /\ Len(t) = n + 1
      /\ \A i \in 1 .. n : t[i] = s[i]
      /\ t[n + 1] = e
  OBVIOUS
<1>2. IsFiniteSet(PlacesOf(s, o)) /\ Places(s, o) \in Nat
  BY PlacesFinite
<1>3. n + 1 \notin PlacesOf(s, o)
  BY <1>1 DEF PlacesOf
<1> HIDE DEF t, n
<1>4. CASE e = o
  <2>1. PlacesOf(t, o) = PlacesOf(s, o) \cup {n + 1}
    BY <1>1, <1>4 DEF PlacesOf, n
  <2>2. Cardinality(PlacesOf(s, o) \cup {n + 1}) = Cardinality(PlacesOf(s, o)) + 1
    BY <1>2, <1>3, FS_AddElement
  <2> QED
    BY <2>1, <2>2, <1>4 DEF Places, One, t
<1>5. CASE e # o
  <2>1. PlacesOf(t, o) = PlacesOf(s, o)
    BY <1>1, <1>5 DEF PlacesOf, n
  <2> QED
    BY <2>1, <1>2, <1>5 DEF Places, One, t
<1> QED
  BY <1>4, <1>5

\* A pop takes one place away, from the object at the head.
LEMMA PlacesTail ==
  ASSUME NEW S, NEW s \in Seq(S), s # <<>>, NEW o
  PROVE  Places(s, o) = Places(Tail(s), o) + One(Head(s) = o)
<1> DEFINE t == Tail(s)
           n == Len(s)
           P == PlacesOf(s, o) \ {1}
           Q == PlacesOf(t, o)
<1>1. /\ n \in Nat \ {0} /\ t \in Seq(S) /\ Len(t) = n - 1
      /\ \A i \in 1 .. n - 1 : t[i] = s[i + 1]
      /\ Head(s) = s[1]
  OBVIOUS
<1>2. IsFiniteSet(PlacesOf(s, o)) /\ Places(s, o) \in Nat
  BY PlacesFinite
<1> HIDE DEF t, n
<1>3. IsFiniteSet(P) /\ Cardinality(P) = IF s[1] = o THEN Places(s, o) - 1 ELSE Places(s, o)
  <2>1. 1 \in PlacesOf(s, o) <=> s[1] = o
    BY <1>1 DEF PlacesOf, n
  <2> QED
    BY <2>1, <1>2, FS_RemoveElement DEF Places
<1>4. ExistsBijection(P, Q)
  <2> DEFINE f == [i \in P |-> i - 1]
  <2>1. P = {i \in 2 .. n : s[i] = o} /\ Q = {i \in 1 .. n - 1 : s[i + 1] = o}
    BY <1>1 DEF PlacesOf, n, t
  <2> HIDE DEF P, Q
  <2>2. f \in [P -> Q]
    BY <2>1, <1>1
  <2>3. \A i, j \in P : f[i] = f[j] => i = j
    BY <2>1, <1>1
  <2>4. \A k \in Q : k + 1 \in P /\ f[k + 1] = k
    BY <2>1, <1>1
  <2> HIDE DEF f
  <2>5. \A k \in Q : \E i \in P : f[i] = k
    BY <2>4
  <2>6. f \in Injection(P, Q) /\ f \in Surjection(P, Q)
    BY <2>2, <2>3, <2>5, Zenon DEF Injection, Surjection, IsInjective
  <2>7. f \in Bijection(P, Q)
    BY <2>6 DEF Bijection
  <2> QED
    BY <2>7 DEF ExistsBijection
<1>5. Cardinality(Q) = Cardinality(P)
  BY <1>3, <1>4, FS_Bijection
<1> QED
  BY <1>5, <1>3, <1>2, <1>1 DEF Places, One, t

\* So does array_swap_and_pop, from the object at the index.
LEMMA PlacesSwapAndPop ==
  ASSUME NEW S, NEW s \in Seq(S), NEW i \in 1 .. Len(s), NEW o
  PROVE  /\ SwapAndPop(s, i) \in Seq(S)
         /\ Places(s, o) = Places(SwapAndPop(s, i), o) + One(s[i] = o)
<1> DEFINE t == SwapAndPop(s, i)
           n == Len(s)
           P == PlacesOf(s, o)
<1>1. n \in Nat \ {0} /\ i \in 1 .. n
  OBVIOUS
<1>2. /\ t \in Seq(S) /\ Len(t) = n - 1
      /\ \A j \in 1 .. n - 1 : t[j] = IF j = i THEN s[n] ELSE s[j]
  <2> DEFINE u == [s EXCEPT ![i] = s[Len(s)]]
  <2>1. u \in Seq(S) /\ Len(u) = n
        /\ \A j \in 1 .. n : u[j] = IF j = i THEN s[n] ELSE s[j]
    BY <1>1, ExceptSeq
  <2> HIDE DEF u
  <2>2. t = SubSeq(u, 1, n - 1)
    BY DEF SwapAndPop, u
  <2> HIDE DEF t, n
  <2> QED
    BY <2>1, <2>2, <1>1
<1>3. IsFiniteSet(P) /\ Places(s, o) \in Nat /\ Cardinality(P) = Places(s, o)
  BY PlacesFinite DEF Places
<1> HIDE DEF t, n
<1>4. (n \in P <=> s[n] = o) /\ (i \in P <=> s[i] = o)
  BY <1>1 DEF PlacesOf, n
<1>5. CASE i = n \/ s[n] # o
  <2>1. PlacesOf(t, o) = P \ {i}
    BY <1>1, <1>2, <1>5 DEF PlacesOf, n
  <2>2. Cardinality(P \ {i}) = IF i \in P THEN Cardinality(P) - 1 ELSE Cardinality(P)
    BY <1>3, FS_RemoveElement
  <2> HIDE DEF P
  <2>3. Places(t, o) = IF s[i] = o THEN Places(s, o) - 1 ELSE Places(s, o)
    BY <2>1, <2>2, <1>3, <1>4 DEF Places
  <2> QED
    BY <2>3, <1>2, <1>3 DEF One, t
<1>6. CASE i # n /\ s[n] = o
  <2> DEFINE M == P \ {n}
  <2>1. PlacesOf(t, o) = M \cup {i}
    BY <1>1, <1>2, <1>6 DEF PlacesOf, n
  <2>2. IsFiniteSet(M) /\ Cardinality(M) = Cardinality(P) - 1
    BY <1>3, <1>4, <1>6, FS_RemoveElement
  <2>3. i \in M <=> s[i] = o
    BY <1>4, <1>6
  <2> HIDE DEF P, M
  <2>4. Cardinality(M \cup {i}) = IF i \in M THEN Cardinality(M) ELSE Cardinality(M) + 1
    BY <2>2, FS_AddElement
  <2>5. Places(t, o) = IF s[i] = o THEN Places(s, o) - 1 ELSE Places(s, o)
    BY <2>1, <2>2, <2>3, <2>4, <1>3 DEF Places
  <2> QED
    BY <2>5, <1>2, <1>3 DEF One, t
<1> QED
  BY <1>5, <1>6

\* The rest of an array, from an index on: its head is the element there, and its tail
\* the rest from the next index on.
LEMMA Rest ==
  ASSUME NEW S, NEW s \in Seq(S), NEW i \in Nat \ {0}
  PROVE  LET r == SubSeq(s, i, Len(s)) IN
         /\ r \in Seq(S)
         /\ i > Len(s) => r = <<>>
         /\ i <= Len(s) => /\ r # <<>> /\ Head(r) = s[i]
                           /\ Tail(r) = SubSeq(s, i + 1, Len(s))
<1> DEFINE r == SubSeq(s, i, Len(s))
           n == Len(s)
<1>1. n \in Nat
  OBVIOUS
<1>2. CASE i > n
  <2>1. r = <<>>
    BY <1>1, <1>2, SubSeqEmpty
  <2> QED
    BY <2>1, <1>1, <1>2
<1>3. CASE i <= n
  <2>1. i \in 1 .. n /\ n \in i .. n
    BY <1>1, <1>3
  <2>2. Head(r) = s[i] /\ Tail(r) = SubSeq(s, i + 1, n)
    BY <2>1, HeadTailOfSubSeq
  <2>3. r \in Seq(S) /\ Len(r) = n - i + 1
    BY <1>1, <1>3
  <2> HIDE DEF r, n
  <2>4. Len(r) # 0
    BY <2>3, <1>1, <1>3
  <2>6. r # <<>>
    BY <2>4
  <2>5. ~ i > n
    BY <1>1, <1>3
  <2> QED
    BY <2>2, <2>3, <2>5, <2>6 DEF r, n
<1> QED
  BY <1>2, <1>3, <1>1

-----------------------------------------------------------------------------
(* How often an object is in the callback rings *)

CallbacksOf(f, o) == UNION {{d} \X PlacesOf(f[d], o) : d \in Databases}

CountFollows(f, g, s, t, o) ==
  /\ IsFiniteSet(CallbacksOf(g, o))
  /\ Cardinality(CallbacksOf(f, o)) \in Nat /\ Cardinality(CallbacksOf(g, o)) \in Nat
  /\ Cardinality(CallbacksOf(g, o)) + Places(s, o)
     = Cardinality(CallbacksOf(f, o)) + Places(t, o)

\* When one callback ring changes, the number of places in all of them changes with
\* the number of places in that one.
LEMMA CallbacksCount ==
  ASSUME NEW f, NEW g, NEW d \in Databases, NEW o, IsFiniteSet(CallbacksOf(f, o)),
         NEW s \in Seq(Queries), NEW t \in Seq(Queries), f[d] = s, g[d] = t,
         \A e \in Databases \ {d} : g[e] = f[e]
  PROVE  CountFollows(f, g, s, t, o)
<1> DEFINE R == UNION {{e} \X PlacesOf(f[e], o) : e \in Databases \ {d}}
           F == {d} \X PlacesOf(s, o)
           G == {d} \X PlacesOf(t, o)
<1>1. /\ IsFiniteSet(PlacesOf(s, o)) /\ Places(s, o) \in Nat
      /\ IsFiniteSet(PlacesOf(t, o)) /\ Places(t, o) \in Nat
  BY PlacesFinite
<1>2. IsFiniteSet({d}) /\ Cardinality({d}) = 1
  BY FS_Singleton
<1>3. /\ IsFiniteSet(F) /\ Cardinality(F) = Places(s, o)
      /\ IsFiniteSet(G) /\ Cardinality(G) = Places(t, o)
  <2>1. /\ IsFiniteSet(F) /\ Cardinality(F) = Cardinality({d}) * Cardinality(PlacesOf(s, o))
        /\ IsFiniteSet(G) /\ Cardinality(G) = Cardinality({d}) * Cardinality(PlacesOf(t, o))
    BY <1>1, <1>2, FS_Product
  <2> HIDE DEF F, G
  <2>2. /\ Cardinality(F) = 1 * Places(s, o)
        /\ Cardinality(G) = 1 * Places(t, o)
    BY <2>1, <1>2, Zenon DEF Places
  <2> QED
    BY <2>1, <2>2, <1>1
<1>4. CallbacksOf(f, o) = R \cup F
  BY DEF CallbacksOf
<1>5. CallbacksOf(g, o) = R \cup G
  BY DEF CallbacksOf
<1>6. R \cap F = {} /\ R \cap G = {}
  OBVIOUS
<1> HIDE DEF R, F, G
<1>7. IsFiniteSet(R)
  BY <1>4, FS_Subset
<1>8. /\ IsFiniteSet(R \cup F) /\ Cardinality(R \cup F) = Cardinality(R) + Cardinality(F)
      /\ IsFiniteSet(R \cup G) /\ Cardinality(R \cup G) = Cardinality(R) + Cardinality(G)
  <2>1. Cardinality({}) = 0 /\ Cardinality(R) \in Nat /\ Cardinality(F) \in Nat
        /\ Cardinality(G) \in Nat
    BY <1>3, <1>7, FS_EmptySet, FS_CardinalityType
  <2>2. /\ IsFiniteSet(R \cup F)
        /\ Cardinality(R \cup F) = Cardinality(R) + Cardinality(F) - Cardinality(R \cap F)
    BY <1>3, <1>7, FS_Union
  <2>3. /\ IsFiniteSet(R \cup G)
        /\ Cardinality(R \cup G) = Cardinality(R) + Cardinality(G) - Cardinality(R \cap G)
    BY <1>3, <1>7, FS_Union
  <2>4. Cardinality(R \cap F) = 0 /\ Cardinality(R \cap G) = 0
    BY <2>1, <1>6, Zenon
  <2> QED
    BY <2>1, <2>2, <2>3, <2>4
<1>9. Cardinality(R) \in Nat
  BY <1>7, FS_CardinalityType
<1>10. /\ IsFiniteSet(CallbacksOf(g, o))
       /\ Cardinality(CallbacksOf(f, o)) = Cardinality(R) + Places(s, o)
       /\ Cardinality(CallbacksOf(g, o)) = Cardinality(R) + Places(t, o)
  BY <1>3, <1>4, <1>5, <1>8, Zenon
<1> QED
  BY <1>1, <1>9, <1>10 DEF CountFollows

-----------------------------------------------------------------------------
(* What a step does to the owners of the objects *)

KeepsOwners ==
  \A o \in Objects : Owners(o)' = Owners(o) /\ IsFiniteSet(CallbackPlaces(o)')
AddsOwner(p) ==
  \A o \in Objects :
    Owners(o)' = Owners(o) + One(o = p) /\ IsFiniteSet(CallbackPlaces(o)')
RemovesOwner(p) ==
  \A o \in Objects :
    /\ Owners(o)' \in Nat /\ Owners(o) = Owners(o)' + One(o = p)
    /\ IsFiniteSet(CallbackPlaces(o)')

LEMMA ActiveTypes ==
  ASSUME TypeOK, PlaceTells
  PROVE  ActiveTransactions \in Seq(Transactions) /\ ActiveQueries \in Seq(UserQueries)
<1>1. ActiveTransactions \in Seq(Transactions)
  <2>1. SubSeq(transactions, di, Len(transactions)) \in Seq(Transactions)
    BY Rest DEF TypeOK
  <2> QED
    BY <2>1 DEF ActiveTransactions, TypeOK
<1>2. ActiveQueries \in Seq(UserQueries)
  <2>1. CASE dpc = "queryPop"
    <3>1. di \in 1 .. Len(queries) /\ queries \in Seq(UserQueries)
      BY <2>1 DEF TypeOK, PlaceTells
    <3>2. SwapAndPop(queries, di) \in Seq(UserQueries)
      BY <3>1, PlacesSwapAndPop
    <3> QED
      BY <3>2, <2>1 DEF ActiveQueries
  <2>2. CASE dpc # "queryPop"
    BY <2>2 DEF ActiveQueries, TypeOK
  <2> QED
    BY <2>1, <2>2
<1> QED
  BY <1>1, <1>2

LEMMA OwnersNat ==
  ASSUME TypeOK, PlaceTells, Counted, NEW o \in Objects
  PROVE  /\ Places(inputQueue, o) \in Nat
         /\ Places(ActiveTransactions, o) \in Nat
         /\ Places(ActiveQueries, o) \in Nat
         /\ Cardinality(CallbackPlaces(o)) \in Nat
         /\ Owners(o) \in Nat
<1>1. /\ inputQueue \in Seq(Scheduled)
      /\ ActiveTransactions \in Seq(Transactions) /\ ActiveQueries \in Seq(UserQueries)
  BY ActiveTypes DEF TypeOK
<1>2. /\ Places(inputQueue, o) \in Nat /\ Places(ActiveTransactions, o) \in Nat
      /\ Places(ActiveQueries, o) \in Nat
  BY <1>1, PlacesFinite
<1>3. Cardinality(CallbackPlaces(o)) \in Nat
  BY FS_CardinalityType DEF Counted
<1> QED
  BY <1>2, <1>3 DEF Owners

\* A step that moves nothing keeps the owners.
LEMMA NothingMoved ==
  ASSUME Counted,
         inputQueue' = inputQueue, callbackQueue' = callbackQueue,
         ActiveTransactions' = ActiveTransactions, ActiveQueries' = ActiveQueries,
         \A o \in Objects : InMainHand(o)' = InMainHand(o),
         \A o \in Objects : InThreadHand(o)' = InThreadHand(o)
  PROVE  KeepsOwners
<1> SUFFICES ASSUME NEW o \in Objects
             PROVE  Owners(o)' = Owners(o) /\ IsFiniteSet(CallbackPlaces(o)')
  BY DEF KeepsOwners
<1>1. CallbackPlaces(o)' = CallbackPlaces(o)
  BY DEF CallbackPlaces
<1>2. IsFiniteSet(CallbackPlaces(o))
  BY DEF Counted
<1> QED
  BY <1>1, <1>2 DEF Owners

MainKeeps ==
  \/ SchedTrigger \/ SchedLog \/ StopBegin
  \/ CallbacksEnd \/ CallbackRun
  \/ \E d \in Databases : CallbacksBegin(d) \/ DropHandle(d)
ThreadKeeps ==
  \/ LoopStep \/ StopEnd \/ DrainAgain
  \/ TransBeginOk \/ TransBeginFails \/ TransCallback
  \/ CommitNotPrepared \/ CommitDone \/ TransEnd
  \/ QueryExecuted \/ QueryBusy \/ QueryPop \/ QueriesEnd

LEMMA MainKeepsOwners ==
  ASSUME OwnerInv, MainKeeps
  PROVE  KeepsOwners
<1>1. /\ inputQueue' = inputQueue /\ callbackQueue' = callbackQueue
      /\ UNCHANGED <<queries, transactions, dpc, di>>
  BY DEF MainKeeps, SchedTrigger, SchedLog, StopBegin, CallbacksEnd, CallbackRun,
         CallbacksBegin, DropHandle, DropRef, dbVars, objVars, arrayVars, threadVars, dthrVars
<1>2. ActiveTransactions' = ActiveTransactions /\ ActiveQueries' = ActiveQueries
  BY <1>1 DEF ActiveTransactions, ActiveQueries
<1>3. \A o \in Objects : InThreadHand(o)' = InThreadHand(o)
  BY <1>1 DEF InThreadHand, Trans
<1>4. \A o \in Objects : InMainHand(o)' = InMainHand(o)
  BY DEF MainKeeps, SchedTrigger, SchedLog, StopBegin, CallbacksEnd, CallbackRun,
         CallbacksBegin, DropHandle, MainGoto, mainVars, InMainHand
<1> QED
  BY <1>1, <1>2, <1>3, <1>4, NothingMoved DEF OwnerInv

LEMMA ThreadKeepsOwners ==
  ASSUME OwnerInv, ThreadKeeps
  PROVE  KeepsOwners
<1>1. inputQueue' = inputQueue /\ callbackQueue' = callbackQueue
  BY DEF ThreadKeeps, LoopStep, DbWait, DbWaitFails, LoopAgain, LoopEnds, ShouldStop, StopEnd,
         DrainAgain, TransBeginOk, TransBeginFails, TransCallback, CommitNotPrepared,
         CommitDone, TransEnd, QueryExecuted, QueryBusy, QueryPop, QueriesEnd, dbVars, threadVars
<1>2. \A o \in Objects : InMainHand(o)' = InMainHand(o)
  BY DEF ThreadKeeps, LoopStep, DbWait, DbWaitFails, LoopAgain, LoopEnds, ShouldStop, StopEnd,
         DrainAgain, TransBeginOk, TransBeginFails, TransCallback, CommitNotPrepared,
         CommitDone, TransEnd, QueryExecuted, QueryBusy, QueryPop, QueriesEnd, mainVars,
         MainGoto, InMainHand
<1>3. \A o \in Objects : InThreadHand(o)' = InThreadHand(o)
  BY DEF ThreadKeeps, LoopStep, DbWait, DbWaitFails, LoopAgain, LoopEnds, ShouldStop, StopEnd,
         DrainAgain, TransBeginOk, TransBeginFails, TransCallback, CommitNotPrepared,
         CommitDone, TransEnd, QueryExecuted, QueryBusy, QueryPop, QueriesEnd, threadVars,
         arrayVars, DbGoto, AtTrans, AtQuery, InThreadHand, Trans
<1>4. ActiveTransactions' = ActiveTransactions
  <2>1. CASE DrainAgain
    <3>1. SubSeq(transactions, 1, Len(transactions)) = transactions
      BY SubSeqFull DEF OwnerInv, TypeOK
    <3> QED
      BY <2>1, <3>1 DEF DrainAgain, DbGoto, threadVars, arrayVars, ActiveTransactions, TransPc
  <2>2. CASE TransEnd
    <3>1. SubSeq(transactions, di, Len(transactions)) = <<>>
      BY <2>2, Rest DEF TransEnd, OwnerInv, TypeOK
    <3> QED
      BY <2>2, <3>1 DEF TransEnd, DbGoto, ActiveTransactions, TransPc
  <2>3. CASE ~ DrainAgain /\ ~ TransEnd
    <3>1. transactions' = transactions
      BY <2>3 DEF ThreadKeeps, LoopStep, DbWait, DbWaitFails, LoopAgain, LoopEnds, ShouldStop,
             StopEnd, TransBeginOk, TransBeginFails, TransCallback, CommitNotPrepared, CommitDone,
             QueryExecuted, QueryBusy, QueryPop, QueriesEnd, threadVars, arrayVars
    <3>2. \/ dpc \in TransPc /\ dpc' \in TransPc /\ di' = di
          \/ dpc \notin TransPc /\ dpc' \notin TransPc
      BY <2>3 DEF ThreadKeeps, LoopStep, DbWait, DbWaitFails, LoopAgain, LoopEnds, ShouldStop,
             StopEnd, TransBeginOk, TransBeginFails, TransCallback, CommitNotPrepared, CommitDone,
             QueryExecuted, QueryBusy, QueryPop, QueriesEnd, DbGoto, AtTrans, AtQuery, TransPc
    <3> QED
      BY <3>1, <3>2 DEF ActiveTransactions
  <2> QED
    BY <2>1, <2>2, <2>3
<1>5. ActiveQueries' = ActiveQueries
  <2>1. CASE QueryPop
    BY <2>1 DEF QueryPop, DbGoto, ActiveQueries
  <2>2. CASE ~ QueryPop
    <3>1. queries' = queries /\ dpc # "queryPop" /\ dpc' # "queryPop"
      BY <2>2 DEF ThreadKeeps, LoopStep, DbWait, DbWaitFails, LoopAgain, LoopEnds, ShouldStop,
             StopEnd, DrainAgain, TransBeginOk, TransBeginFails, TransCallback, CommitNotPrepared,
             CommitDone, TransEnd, QueryExecuted, QueryBusy, QueriesEnd, threadVars, arrayVars,
             DbGoto, AtTrans, AtQuery
    <3> QED
      BY <3>1 DEF ActiveQueries
  <2> QED
    BY <2>1, <2>2
<1> QED
  BY <1>1, <1>2, <1>3, <1>4, <1>5, NothingMoved DEF OwnerInv

\* What a place in the hands of the database thread says: the object is there, and live.
LEMMA TransAlive ==
  ASSUME OwnerInv, dpc \in TransPc, di <= Len(transactions)
  PROVE  /\ Trans \in Transactions /\ state[Trans] = "live" /\ TDb \in Databases
         /\ \A o \in Objects :
              /\ Places(ActiveTransactions, o)
                 = Places(SubSeq(transactions, di + 1, Len(transactions)), o) + One(Trans = o)
              /\ Places(SubSeq(transactions, di + 1, Len(transactions)), o) \in Nat
<1> DEFINE r == SubSeq(transactions, di, Len(transactions))
           u == SubSeq(transactions, di + 1, Len(transactions))
<1>1. /\ transactions \in Seq(Transactions) /\ di \in 1 .. Len(transactions)
      /\ di + 1 \in Nat \ {0} /\ ActiveTransactions = r
  BY DEF OwnerInv, TypeOK, ActiveTransactions
<1>2. Trans \in Transactions /\ Trans \in Objects
  BY <1>1 DEF Trans, Objects, Scheduled
<1>3. r \in Seq(Transactions) /\ r # <<>> /\ Head(r) = Trans /\ Tail(r) = u
  BY <1>1, Rest DEF Trans
<1>4. u \in Seq(Transactions)
  BY <1>1, Rest
<1> HIDE DEF r, u
<1>5. \A o \in Objects :
        Places(r, o) = Places(u, o) + One(Trans = o) /\ Places(u, o) \in Nat
  BY <1>3, <1>4, PlacesTail, PlacesFinite
<1>6. state[Trans] = "live"
  <2>1. Places(ActiveTransactions, Trans) >= 1
    BY <1>1, <1>2, <1>5 DEF One
  <2>2. Owners(Trans) >= 1
    BY <2>1, <1>2, OwnersNat DEF OwnerInv, Owners
  <2> QED
    BY <2>2, <1>2 DEF OwnerInv, OneOwner
<1>7. TDb \in Databases
  BY <1>2, <1>6 DEF TDb, OwnerInv, DbKnown
<1> QED
  BY <1>1, <1>2, <1>5, <1>6, <1>7 DEF u

LEMMA QueryAlive ==
  ASSUME OwnerInv, dpc \in {"query", "queryQueue"}, di <= Len(queries)
  PROVE  /\ Query \in UserQueries /\ state[Query] = "live" /\ QDb \in Databases
         /\ SwapAndPop(queries, di) \in Seq(UserQueries)
         /\ \A o \in Objects :
              /\ Places(ActiveQueries, o)
                 = Places(SwapAndPop(queries, di), o) + One(Query = o)
              /\ Places(SwapAndPop(queries, di), o) \in Nat
<1>1. /\ queries \in Seq(UserQueries) /\ di \in 1 .. Len(queries)
      /\ ActiveQueries = queries
  BY DEF OwnerInv, TypeOK, ActiveQueries
<1>2. Query \in UserQueries /\ Query \in Objects
  BY <1>1 DEF Query, Objects, Scheduled
<1>3. SwapAndPop(queries, di) \in Seq(UserQueries)
  BY <1>1, PlacesSwapAndPop
<1>4. \A o \in Objects :
        /\ Places(queries, o) = Places(SwapAndPop(queries, di), o) + One(Query = o)
        /\ Places(SwapAndPop(queries, di), o) \in Nat
  BY <1>1, <1>3, PlacesSwapAndPop, PlacesFinite DEF Query
<1>5. state[Query] = "live"
  <2>1. Places(ActiveQueries, Query) >= 1
    BY <1>1, <1>2, <1>4 DEF One
  <2>2. Owners(Query) >= 1
    BY <2>1, <1>2, OwnersNat DEF OwnerInv, Owners
  <2> QED
    BY <2>2, <1>2 DEF OwnerInv, OneOwner
<1>6. QDb \in Databases
  BY <1>2, <1>5 DEF QDb, OwnerInv, DbKnown
<1> QED
  BY <1>1, <1>2, <1>3, <1>4, <1>5, <1>6

\* An object in the hands of a thread, outside the arrays, is live.
LEMMA HandAlive ==
  ASSUME OwnerInv, NEW o \in Objects, InMainHand(o) \/ InThreadHand(o)
  PROVE  state[o] = "live" /\ dbOf[o] \in Databases
<1>1. Owners(o) >= 1
  BY OwnersNat DEF OwnerInv, Owners
<1>2. state[o] = "live"
  BY <1>1 DEF OwnerInv, OneOwner
<1> QED
  BY <1>2 DEF OwnerInv, DbKnown

\* CallbacksCount, for a step that changes the callback ring of one database
LEMMA RingChanges ==
  ASSUME OwnerInv, NEW d \in Databases, NEW t \in Seq(Queries), NEW o \in Objects,
         callbackQueue' = [callbackQueue EXCEPT ![d] = t]
  PROVE  /\ IsFiniteSet(CallbackPlaces(o)')
         /\ Cardinality(CallbackPlaces(o)') \in Nat
         /\ Cardinality(CallbackPlaces(o)') + Places(callbackQueue[d], o)
            = Cardinality(CallbackPlaces(o)) + Places(t, o)
<1>1. PICK f : f = callbackQueue
  OBVIOUS
<1>2. PICK g : g = callbackQueue'
  OBVIOUS
<1>3. /\ CallbackPlaces(o) = CallbacksOf(f, o)
      /\ CallbackPlaces(o)' = CallbacksOf(g, o)
  BY <1>1, <1>2 DEF CallbackPlaces, CallbacksOf
<1>4. PICK s \in Seq(Queries) : s = f[d]
  BY <1>1 DEF OwnerInv, TypeOK
<1>5. g[d] = t /\ \A e \in Databases \ {d} : g[e] = f[e]
  BY <1>1, <1>2 DEF OwnerInv, TypeOK
<1>6. IsFiniteSet(CallbacksOf(f, o))
  BY <1>3 DEF OwnerInv, Counted
<1>7. CountFollows(f, g, s, t, o)
  BY <1>4, <1>5, <1>6, CallbacksCount
<1> QED
  BY <1>1, <1>3, <1>4, <1>7 DEF CountFollows

\* The main thread passes on what it holds, creates it or destroys it.
LEMMA MainMovesOwners ==
  ASSUME OwnerInv
  PROVE  /\ SchedPush \/ CallbacksPop => KeepsOwners
         /\ \A d \in Databases, p \in Scheduled : SchedCreate(d, p) => AddsOwner(p)
         /\ SchedFull \/ CallbackDestroy => RemovesOwner(mobj)
<1> SUFFICES ASSUME UNCHANGED <<queries, transactions, dpc, di>>, NEW o \in Objects
             PROVE  /\ SchedPush \/ CallbacksPop =>
                         Owners(o)' = Owners(o) /\ IsFiniteSet(CallbackPlaces(o)')
                    /\ \A d \in Databases, p \in Scheduled : SchedCreate(d, p) =>
                         /\ Owners(o)' = Owners(o) + One(o = p)
                         /\ IsFiniteSet(CallbackPlaces(o)')
                    /\ SchedFull \/ CallbackDestroy =>
                         /\ Owners(o)' \in Nat /\ Owners(o) = Owners(o)' + One(o = mobj)
                         /\ IsFiniteSet(CallbackPlaces(o)')
  BY DEF KeepsOwners, AddsOwner, RemovesOwner, SchedPush, CallbacksPop, SchedCreate, SchedFull,
         CallbackDestroy, threadVars, arrayVars, dthrVars
<1> DEFINE in == Places(inputQueue, o)
           at == Places(ActiveTransactions, o)
           aq == Places(ActiveQueries, o)
           cb == Cardinality(CallbackPlaces(o))
<1>1. ActiveTransactions' = ActiveTransactions /\ ActiveQueries' = ActiveQueries
  BY DEF ActiveTransactions, ActiveQueries
<1>2. InThreadHand(o)' <=> InThreadHand(o)
  BY DEF InThreadHand, Trans
<1>3. callbackQueue' = callbackQueue =>
        CallbackPlaces(o)' = CallbackPlaces(o) /\ IsFiniteSet(CallbackPlaces(o)')
  BY DEF CallbackPlaces, OwnerInv, Counted
<1>4. in \in Nat /\ at \in Nat /\ aq \in Nat /\ cb \in Nat
  BY OwnersNat DEF OwnerInv
<1>5. SchedPush => Owners(o)' = Owners(o) /\ IsFiniteSet(CallbackPlaces(o)')
  <2> SUFFICES ASSUME SchedPush PROVE Owners(o)' = Owners(o) /\ IsFiniteSet(CallbackPlaces(o)')
    OBVIOUS
  <2>1. mobj \in Scheduled /\ inputQueue \in Seq(Scheduled)
    BY DEF SchedPush, MainGoto, OwnerInv, PlaceTells, TypeOK
  <2>2. Places(inputQueue', o) = in + One(mobj = o)
    BY <2>1, PlacesAppend DEF SchedPush
  <2>3. callbackQueue' = callbackQueue
    BY DEF SchedPush, dbVars
  <2>4. (InMainHand(o) <=> mobj = o) /\ ~ InMainHand(o)'
    BY DEF SchedPush, MainGoto, InMainHand
  <2> HIDE DEF in, at, aq, cb
  <2> QED
    BY <1>1, <1>2, <1>3, <1>4, <2>2, <2>3, <2>4 DEF Owners, One, in, at, aq, cb
<1>6. CallbacksPop => Owners(o)' = Owners(o) /\ IsFiniteSet(CallbackPlaces(o)')
  <2> SUFFICES ASSUME CallbacksPop
               PROVE  Owners(o)' = Owners(o) /\ IsFiniteSet(CallbackPlaces(o)')
    OBVIOUS
  <2> DEFINE s == callbackQueue[mdb]
  <2>1. /\ mdb \in Databases /\ callbackQueue \in [Databases -> Seq(Queries)]
        /\ s \in Seq(Queries) /\ s # <<>> /\ Tail(s) \in Seq(Queries)
        /\ callbackQueue' = [callbackQueue EXCEPT ![mdb] = Tail(s)]
    BY DEF CallbacksPop, MainGoto, OwnerInv, PlaceTells, TypeOK
  <2>2. Places(s, o) = Places(Tail(s), o) + One(Head(s) = o) /\ Places(Tail(s), o) \in Nat
    BY <2>1, PlacesTail, PlacesFinite
  <2> DEFINE cb1 == Cardinality(CallbackPlaces(o)')
  <2>5. /\ IsFiniteSet(CallbackPlaces(o)') /\ cb1 \in Nat
        /\ cb1 + Places(s, o) = cb + Places(Tail(s), o)
    <3>1. PICK t \in Seq(Queries) : t = Tail(s)
      BY <2>1
    <3>2. callbackQueue' = [callbackQueue EXCEPT ![mdb] = t] /\ mdb \in Databases
      BY <2>1, <3>1
    <3> QED
      BY <3>1, <3>2, RingChanges
  <2>6. ~ InMainHand(o) /\ (InMainHand(o)' <=> Head(s) = o)
    BY DEF CallbacksPop, MainGoto, InMainHand
  <2>7. inputQueue' = inputQueue
    BY DEF CallbacksPop, threadVars
  <2> HIDE DEF in, at, aq, cb, s, cb1
  <2>8. cb = cb1 + One(Head(s) = o)
    BY <2>2, <2>5, <1>4 DEF One
  <2> QED
    BY <1>1, <1>2, <1>4, <2>5, <2>6, <2>7, <2>8 DEF Owners, One, in, at, aq, cb, cb1
<1>7. ASSUME NEW d \in Databases, NEW p \in Scheduled, SchedCreate(d, p)
      PROVE  Owners(o)' = Owners(o) + One(o = p) /\ IsFiniteSet(CallbackPlaces(o)')
  <2>1. inputQueue' = inputQueue /\ callbackQueue' = callbackQueue
    BY <1>7 DEF SchedCreate, threadVars
  <2>2. ~ InMainHand(o) /\ (InMainHand(o)' <=> p = o)
    BY <1>7 DEF SchedCreate, MainGoto, InMainHand
  <2> HIDE DEF in, at, aq, cb
  <2> QED
    BY <1>1, <1>2, <1>3, <1>4, <2>1, <2>2 DEF Owners, One, in, at, aq, cb
<1>8. SchedFull \/ CallbackDestroy =>
        /\ Owners(o)' \in Nat /\ Owners(o) = Owners(o)' + One(o = mobj)
        /\ IsFiniteSet(CallbackPlaces(o)')
  <2> SUFFICES ASSUME SchedFull \/ CallbackDestroy
               PROVE  /\ Owners(o)' \in Nat /\ Owners(o) = Owners(o)' + One(o = mobj)
                      /\ IsFiniteSet(CallbackPlaces(o)')
    OBVIOUS
  <2>1. inputQueue' = inputQueue /\ callbackQueue' = callbackQueue
    BY DEF SchedFull, CallbackDestroy, threadVars
  <2>2. (InMainHand(o) <=> mobj = o) /\ ~ InMainHand(o)'
    BY DEF SchedFull, CallbackDestroy, MainGoto, InMainHand
  <2> HIDE DEF in, at, aq, cb
  <2> QED
    BY <1>1, <1>2, <1>3, <1>4, <2>1, <2>2 DEF Owners, One, in, at, aq, cb
<1> QED
  BY <1>5, <1>6, <1>7, <1>8

\* What the lemmas about the steps of the database thread share: the main thread's hand
\* stays, and so does everything in the callback rings unless the step changes one.
LEMMA ThreadStepKeeps ==
  ASSUME OwnerInv, UNCHANGED mainVars, NEW o \in Objects
  PROVE  /\ InMainHand(o)' <=> InMainHand(o)
         /\ callbackQueue' = callbackQueue =>
              CallbackPlaces(o)' = CallbackPlaces(o) /\ IsFiniteSet(CallbackPlaces(o)')
         /\ Places(inputQueue, o) \in Nat /\ Places(ActiveTransactions, o) \in Nat
         /\ Places(ActiveQueries, o) \in Nat /\ Cardinality(CallbackPlaces(o)) \in Nat
<1>1. InMainHand(o)' <=> InMainHand(o)
  BY DEF InMainHand, mainVars
<1>2. callbackQueue' = callbackQueue =>
        CallbackPlaces(o)' = CallbackPlaces(o) /\ IsFiniteSet(CallbackPlaces(o)')
  BY DEF CallbackPlaces, OwnerInv, Counted
<1> QED
  BY <1>1, <1>2, OwnersNat DEF OwnerInv

Popped(o, h) ==
  /\ Places(inputQueue, o) = Places(inputQueue, o)' + One(h = o)
  /\ Places(inputQueue, o)' \in Nat
  /\ ActiveTransactions = transactions /\ ActiveTransactions' = transactions'
  /\ ActiveQueries = queries /\ ActiveQueries' = queries'
  /\ Places(transactions, o) \in Nat /\ Places(queries, o) \in Nat
  /\ ~ InThreadHand(o) /\ ~ InThreadHand(o)'
  /\ InMainHand(o)' <=> InMainHand(o)
  /\ CallbackPlaces(o)' = CallbackPlaces(o) /\ IsFiniteSet(CallbackPlaces(o)')
  /\ Cardinality(CallbackPlaces(o)) \in Nat

\* A pop of the input ring takes one place of its head away, and nothing else yet.
LEMMA DrainPops ==
  ASSUME OwnerInv, DrainKeeps \/ DrainAborts, NEW o \in Objects
  PROVE  Head(inputQueue) \in Scheduled /\ Popped(o, Head(inputQueue))
<1>1. /\ inputQueue \in Seq(Scheduled) /\ inputQueue # <<>> /\ Head(inputQueue) \in Scheduled
      /\ inputQueue' = Tail(inputQueue) /\ callbackQueue' = callbackQueue
      /\ UNCHANGED mainVars /\ dpc = "drain" /\ dpc' = "drain"
  BY DEF DrainKeeps, DrainAborts, OwnerInv, TypeOK, dbVars, dthrVars
<1>2. /\ Places(inputQueue, o) = Places(Tail(inputQueue), o) + One(Head(inputQueue) = o)
      /\ Places(Tail(inputQueue), o) \in Nat
  <2>1. PICK q \in Seq(Scheduled) : q = inputQueue
    BY <1>1
  <2>2. q # <<>> /\ Tail(q) \in Seq(Scheduled)
    BY <1>1, <2>1
  <2>3. Places(q, o) = Places(Tail(q), o) + One(Head(q) = o)
    BY <2>2, PlacesTail
  <2> QED
    BY <2>1, <2>2, <2>3, PlacesFinite
<1>3. /\ ActiveTransactions = transactions /\ ActiveTransactions' = transactions'
      /\ ActiveQueries = queries /\ ActiveQueries' = queries'
      /\ ~ InThreadHand(o) /\ ~ InThreadHand(o)'
  BY <1>1 DEF ActiveTransactions, ActiveQueries, InThreadHand, TransPc
<1>4. /\ InMainHand(o)' <=> InMainHand(o)
      /\ CallbackPlaces(o)' = CallbackPlaces(o) /\ IsFiniteSet(CallbackPlaces(o)')
      /\ Places(inputQueue, o) \in Nat /\ Places(ActiveTransactions, o) \in Nat
      /\ Places(ActiveQueries, o) \in Nat /\ Cardinality(CallbackPlaces(o)) \in Nat
  BY <1>1, ThreadStepKeeps
<1> QED
  BY <1>1, <1>2, <1>3, <1>4 DEF Popped

\* DrainKeeps passes the head of the input ring on to an array, DrainAborts destroys it.
LEMMA DrainMovesOwners ==
  ASSUME OwnerInv
  PROVE  /\ DrainKeeps => KeepsOwners
         /\ DrainAborts => RemovesOwner(Head(inputQueue))
<1>1. ASSUME DrainKeeps, NEW o \in Objects
      PROVE  Owners(o)' = Owners(o) /\ IsFiniteSet(CallbackPlaces(o)')
  <2>1. transactions \in Seq(Transactions) /\ queries \in Seq(UserQueries)
    BY DEF OwnerInv, TypeOK
  <2>2. PICK h \in Scheduled : h = Head(inputQueue) /\ Popped(o, h)
    BY <1>1, DrainPops
  <2>3. CASE h \in Transactions
    <3>1. transactions' = Append(transactions, h) /\ queries' = queries
      BY <2>2, <2>3, <1>1 DEF DrainKeeps
    <3>2. Places(Append(transactions, h), o) = Places(transactions, o) + One(h = o)
      BY <2>1, <2>3, PlacesAppend
    <3> QED
      BY <2>2, <3>1, <3>2 DEF Popped, Owners, One
  <2>4. CASE h \notin Transactions
    <3>1. queries' = Append(queries, h) /\ transactions' = transactions
      BY <2>2, <2>4, <1>1 DEF DrainKeeps
    <3>2. h \in UserQueries
      BY <2>2, <2>4 DEF Scheduled
    <3>3. Places(Append(queries, h), o) = Places(queries, o) + One(h = o)
      BY <2>1, <3>2, PlacesAppend
    <3> QED
      BY <2>2, <3>1, <3>3 DEF Popped, Owners, One
  <2> QED
    BY <2>3, <2>4
<1>2. ASSUME DrainAborts, NEW o \in Objects
      PROVE  /\ Owners(o)' \in Nat /\ Owners(o) = Owners(o)' + One(o = Head(inputQueue))
             /\ IsFiniteSet(CallbackPlaces(o)')
  <2>1. transactions' = transactions /\ queries' = queries
    BY <1>2 DEF DrainAborts, arrayVars
  <2>2. PICK h \in Scheduled : h = Head(inputQueue) /\ Popped(o, h)
    BY <1>2, DrainPops
  <2> QED
    BY <2>1, <2>2 DEF Popped, Owners, One
<1> QED
  BY <1>1, <1>2 DEF KeepsOwners, RemovesOwner

CommitStays == CommitPrepared \/ CommitFails \/ CommitNotQueued \/ CommitQueued

\* The query of a COMMIT is in the database thread's hand until it is passed on.
LEMMA CommitMovesOwners ==
  ASSUME OwnerInv
  PROVE  /\ CommitPrepared => AddsOwner(Commit(Trans))
         /\ CommitFails \/ CommitNotQueued => RemovesOwner(Commit(Trans))
         /\ CommitQueued => KeepsOwners
<1>1. ASSUME CommitStays, NEW o \in Objects
      PROVE  /\ inputQueue' = inputQueue /\ ActiveTransactions' = ActiveTransactions
             /\ ActiveQueries' = ActiveQueries /\ (InMainHand(o)' <=> InMainHand(o))
             /\ Trans' = Trans
             /\ callbackQueue' = callbackQueue =>
                  CallbackPlaces(o)' = CallbackPlaces(o) /\ IsFiniteSet(CallbackPlaces(o)')
             /\ Places(inputQueue, o) \in Nat /\ Places(ActiveTransactions, o) \in Nat
             /\ Places(ActiveQueries, o) \in Nat /\ Cardinality(CallbackPlaces(o)) \in Nat
  <2>1. UNCHANGED <<mainVars, inputQueue, transactions, queries, di>>
    BY <1>1 DEF CommitStays, CommitPrepared, CommitFails, CommitNotQueued, CommitQueued,
                threadVars, arrayVars
  <2>2. dpc \in {"commitPrep", "commitStep", "commitQueue"}
        /\ dpc' \in {"commitStep", "commitQueue", "transSkip"}
    BY <1>1 DEF CommitStays, CommitPrepared, CommitFails, CommitNotQueued, CommitQueued, DbGoto
  <2>3. ActiveTransactions' = ActiveTransactions /\ ActiveQueries' = ActiveQueries
    BY <2>1, <2>2 DEF ActiveTransactions, ActiveQueries, TransPc
  <2> QED
    BY <2>1, <2>3, ThreadStepKeeps DEF Trans
<1>2. ASSUME CommitPrepared, NEW o \in Objects
      PROVE  Owners(o)' = Owners(o) + One(o = Commit(Trans)) /\ IsFiniteSet(CallbackPlaces(o)')
  <2>1. CommitStays /\ callbackQueue' = callbackQueue
    BY <1>2 DEF CommitPrepared, CommitStays
  <2>2. ~ InThreadHand(o) /\ (InThreadHand(o)' <=> Commit(Trans) = o)
    BY <1>1, <1>2, <2>1 DEF CommitPrepared, DbGoto, InThreadHand, Commit
  <2> QED
    BY <1>1, <2>1, <2>2 DEF Owners, One
<1>3. ASSUME CommitFails \/ CommitNotQueued, NEW o \in Objects
      PROVE  /\ Owners(o)' \in Nat /\ Owners(o) = Owners(o)' + One(o = Commit(Trans))
             /\ IsFiniteSet(CallbackPlaces(o)')
  <2>1. CommitStays /\ callbackQueue' = callbackQueue
    BY <1>3 DEF CommitFails, CommitNotQueued, CommitStays
  <2>2. (InThreadHand(o) <=> Commit(Trans) = o) /\ ~ InThreadHand(o)'
    BY <1>3 DEF CommitFails, CommitNotQueued, DbGoto, InThreadHand
  <2> QED
    BY <1>1, <2>1, <2>2 DEF Owners, One
<1>4. ASSUME CommitQueued, NEW o \in Objects
      PROVE  Owners(o)' = Owners(o) /\ IsFiniteSet(CallbackPlaces(o)')
  <2>1. dpc \in TransPc /\ di <= Len(transactions)
    BY <1>4 DEF CommitQueued, DbGoto, OwnerInv, PlaceTells, TransPc
  <2>2. TDb \in Databases /\ Trans \in Transactions
    BY <2>1, TransAlive
  <2>3. PICK c \in Queries : c = Commit(Trans)
    BY <2>2 DEF Queries, Commits
  <2>4. PICK s \in Seq(Queries) : s = callbackQueue[TDb]
    BY <2>2 DEF OwnerInv, TypeOK
  <2>5. PICK t \in Seq(Queries) : t = Append(s, c)
    <3>1. Append(s, c) \in Seq(Queries)
      BY AppendProperties
    <3> QED
      BY <3>1
  <2>6. Places(t, o) = Places(s, o) + One(c = o) /\ Places(s, o) \in Nat
    BY <2>5, PlacesAppend, PlacesFinite
  <2>7. callbackQueue' = [callbackQueue EXCEPT ![TDb] = t]
    BY <1>4, <2>3, <2>4, <2>5 DEF CommitQueued
  <2>8. /\ IsFiniteSet(CallbackPlaces(o)') /\ Cardinality(CallbackPlaces(o)') \in Nat
        /\ Cardinality(CallbackPlaces(o)') + Places(s, o)
           = Cardinality(CallbackPlaces(o)) + Places(t, o)
    BY <2>2, <2>4, <2>7, RingChanges
  <2>9. (InThreadHand(o) <=> c = o) /\ ~ InThreadHand(o)'
    BY <1>4, <2>3 DEF CommitQueued, DbGoto, InThreadHand
  <2>10. CommitStays
    BY <1>4 DEF CommitStays
  <2>11. Cardinality(CallbackPlaces(o)') = Cardinality(CallbackPlaces(o)) + One(c = o)
    BY <1>1, <2>6, <2>8, <2>10 DEF One
  <2> QED
    BY <1>1, <2>8, <2>9, <2>10, <2>11 DEF Owners, One
<1> QED
  BY <1>2, <1>3, <1>4 DEF AddsOwner, RemovesOwner, KeepsOwners

\* A transaction is destroyed when the thread is past it.
LEMMA TransSkipOwners ==
  ASSUME OwnerInv, TransSkip
  PROVE  RemovesOwner(Trans)
<1> SUFFICES ASSUME NEW o \in Objects
             PROVE  /\ Owners(o)' \in Nat /\ Owners(o) = Owners(o)' + One(o = Trans)
                    /\ IsFiniteSet(CallbackPlaces(o)')
  BY DEF RemovesOwner
<1>1. dpc \in TransPc /\ di <= Len(transactions) /\ dpc' = "transBegin" /\ dpc = "transSkip"
  BY DEF TransSkip, DbGoto, OwnerInv, PlaceTells, TransPc
<1>2. UNCHANGED <<mainVars, inputQueue, callbackQueue, transactions, queries>> /\ di' = di + 1
  BY DEF TransSkip, threadVars, arrayVars
<1>3. /\ ActiveTransactions' = SubSeq(transactions, di + 1, Len(transactions))
      /\ ActiveQueries' = ActiveQueries /\ ~ InThreadHand(o) /\ ~ InThreadHand(o)'
  BY <1>1, <1>2 DEF ActiveTransactions, ActiveQueries, InThreadHand, TransPc
<1>4. PICK r : r = SubSeq(transactions, di + 1, Len(transactions))
  OBVIOUS
<1>5. PICK x \in Transactions : x = Trans
  BY <1>1, TransAlive
<1>6. Places(ActiveTransactions, o) = Places(r, o) + One(x = o) /\ Places(r, o) \in Nat
  BY <1>1, <1>4, <1>5, TransAlive
<1>7. /\ InMainHand(o)' <=> InMainHand(o)
      /\ CallbackPlaces(o)' = CallbackPlaces(o) /\ IsFiniteSet(CallbackPlaces(o)')
      /\ Places(inputQueue, o) \in Nat /\ Places(ActiveQueries, o) \in Nat
      /\ Cardinality(CallbackPlaces(o)) \in Nat
  BY <1>2, ThreadStepKeeps
<1>8. /\ Owners(o)' \in Nat /\ Owners(o) = Owners(o)' + (IF x = o THEN 1 ELSE 0)
      /\ IsFiniteSet(CallbackPlaces(o)')
  BY <1>2, <1>3, <1>4, <1>6, <1>7 DEF Owners, One
<1> QED
  BY <1>5, <1>8 DEF One

\* A query is passed on to the callback ring of its database, or destroyed.
LEMMA QueryMovesOwners ==
  ASSUME OwnerInv
  PROVE  /\ QueryQueued => KeepsOwners
         /\ QueryError \/ QueryNotQueued => RemovesOwner(Query)
<1>1. ASSUME QueryQueued \/ QueryError \/ QueryNotQueued, NEW o \in Objects
      PROVE  /\ dpc \in {"query", "queryQueue"} /\ di <= Len(queries)
             /\ inputQueue' = inputQueue /\ ActiveTransactions' = ActiveTransactions
             /\ (InMainHand(o)' <=> InMainHand(o))
             /\ ~ InThreadHand(o) /\ ~ InThreadHand(o)'
             /\ callbackQueue' = callbackQueue =>
                  CallbackPlaces(o)' = CallbackPlaces(o) /\ IsFiniteSet(CallbackPlaces(o)')
             /\ Places(inputQueue, o) \in Nat /\ Places(ActiveTransactions, o) \in Nat
             /\ Cardinality(CallbackPlaces(o)) \in Nat
             /\ ActiveQueries' = SwapAndPop(queries, di)
  <2>1. UNCHANGED <<mainVars, inputQueue, transactions, di>>
    BY <1>1 DEF QueryQueued, QueryError, QueryNotQueued, threadVars, arrayVars, dthrVars
  <2>2. /\ dpc \in {"query", "queryQueue"} /\ di <= Len(queries)
        /\ dpc' \in {"query", "queryPop"}
        /\ queries' = IF dpc' = "queryPop" THEN queries ELSE SwapAndPop(queries, di)
    BY <1>1 DEF QueryQueued, QueryError, QueryNotQueued, AtQuery, DbGoto, dthrVars,
                OwnerInv, PlaceTells, threadVars, arrayVars
  <2>3. /\ ActiveTransactions' = ActiveTransactions
        /\ ActiveQueries' = SwapAndPop(queries, di)
        /\ ~ InThreadHand(o) /\ ~ InThreadHand(o)'
    BY <2>1, <2>2 DEF ActiveTransactions, ActiveQueries, TransPc, InThreadHand
  <2> QED
    BY <2>1, <2>2, <2>3, ThreadStepKeeps
<1>2. ASSUME QueryQueued \/ QueryError \/ QueryNotQueued, NEW o \in Objects
      PROVE  \E q \in UserQueries : \E r \in Seq(UserQueries) :
               /\ q = Query /\ r = SwapAndPop(queries, di) /\ QDb \in Databases
               /\ Places(ActiveQueries, o) = Places(r, o) + One(q = o) /\ Places(r, o) \in Nat
  <2>1. dpc \in {"query", "queryQueue"} /\ di <= Len(queries)
    BY <1>1, <1>2
  <2>2. PICK q \in UserQueries : q = Query
    BY <2>1, QueryAlive
  <2>3. PICK r \in Seq(UserQueries) : r = SwapAndPop(queries, di)
    BY <2>1, QueryAlive
  <2>4. QDb \in Databases
        /\ Places(ActiveQueries, o) = Places(r, o) + One(q = o) /\ Places(r, o) \in Nat
    BY <2>1, <2>2, <2>3, QueryAlive
  <2> QED
    BY <2>2, <2>3, <2>4
<1>3. ASSUME QueryError \/ QueryNotQueued, NEW o \in Objects
      PROVE  /\ Owners(o)' \in Nat /\ Owners(o) = Owners(o)' + One(o = Query)
             /\ IsFiniteSet(CallbackPlaces(o)')
  <2>1. PICK q \in UserQueries : \E r \in Seq(UserQueries) :
               /\ q = Query /\ r = SwapAndPop(queries, di)
               /\ Places(ActiveQueries, o) = Places(r, o) + One(q = o) /\ Places(r, o) \in Nat
    BY <1>2, <1>3
  <2>2. PICK r \in Seq(UserQueries) :
               /\ q = Query /\ r = SwapAndPop(queries, di)
               /\ Places(ActiveQueries, o) = Places(r, o) + One(q = o) /\ Places(r, o) \in Nat
    BY <2>1
  <2>3. callbackQueue' = callbackQueue
    BY <1>3 DEF QueryError, QueryNotQueued
  <2>4. /\ Owners(o)' \in Nat /\ Owners(o) = Owners(o)' + (IF q = o THEN 1 ELSE 0)
        /\ IsFiniteSet(CallbackPlaces(o)')
    <3>1. /\ inputQueue' = inputQueue /\ ActiveTransactions' = ActiveTransactions
          /\ ActiveQueries' = r /\ (InMainHand(o)' <=> InMainHand(o))
          /\ ~ InThreadHand(o) /\ ~ InThreadHand(o)'
          /\ CallbackPlaces(o)' = CallbackPlaces(o) /\ IsFiniteSet(CallbackPlaces(o)')
          /\ Places(inputQueue, o) \in Nat /\ Places(ActiveTransactions, o) \in Nat
          /\ Cardinality(CallbackPlaces(o)) \in Nat
      BY <1>1, <1>3, <2>2, <2>3
    <3> QED
      BY <2>2, <3>1 DEF Owners, One
  <2> QED
    BY <2>2, <2>4 DEF One
<1>4. ASSUME QueryQueued, NEW o \in Objects
      PROVE  Owners(o)' = Owners(o) /\ IsFiniteSet(CallbackPlaces(o)')
  <2>1. PICK q \in UserQueries : \E r \in Seq(UserQueries) :
               /\ q = Query /\ r = SwapAndPop(queries, di) /\ QDb \in Databases
               /\ Places(ActiveQueries, o) = Places(r, o) + One(q = o) /\ Places(r, o) \in Nat
    BY <1>2, <1>4
  <2>2. PICK r \in Seq(UserQueries) :
               /\ q = Query /\ r = SwapAndPop(queries, di) /\ QDb \in Databases
               /\ Places(ActiveQueries, o) = Places(r, o) + One(q = o) /\ Places(r, o) \in Nat
    BY <2>1
  <2>3. q \in Queries
    BY DEF Queries
  <2>4. PICK s \in Seq(Queries) : s = callbackQueue[QDb]
    BY <2>2 DEF OwnerInv, TypeOK
  <2>5. PICK t \in Seq(Queries) : t = Append(s, q)
    <3>1. Append(s, q) \in Seq(Queries)
      BY <2>3, AppendProperties
    <3> QED
      BY <3>1
  <2>6. Places(t, o) = Places(s, o) + One(q = o) /\ Places(s, o) \in Nat
    BY <2>3, <2>5, PlacesAppend, PlacesFinite
  <2>7. callbackQueue' = [callbackQueue EXCEPT ![QDb] = t]
    BY <1>4, <2>2, <2>4, <2>5 DEF QueryQueued
  <2>8. /\ IsFiniteSet(CallbackPlaces(o)') /\ Cardinality(CallbackPlaces(o)') \in Nat
        /\ Cardinality(CallbackPlaces(o)') + Places(s, o)
           = Cardinality(CallbackPlaces(o)) + Places(t, o)
    BY <2>2, <2>4, <2>7, RingChanges
  <2>9. Cardinality(CallbackPlaces(o)') = Cardinality(CallbackPlaces(o)) + One(q = o)
    BY <1>1, <1>4, <2>6, <2>8 DEF One
  <2> QED
    BY <1>1, <1>4, <2>2, <2>8, <2>9 DEF Owners, One
<1> QED
  BY <1>3, <1>4 DEF RemovesOwner, KeepsOwners

-----------------------------------------------------------------------------
(* The reference count of one database *)

RefIs(d) ==
  /\ refCount[d] = Cardinality(LiveOf(d)) + One(handle[d])
  /\ open[d] <=> refCount[d] > 0

LEMMA RefCountIs == RefCountExact <=> \A d \in Databases : RefIs(d)
  BY DEF RefCountExact, RefIs, LiveOf, One

\* The main thread's handle and every live object are a reference.
LEMMA Referenced ==
  ASSUME OwnerInv, NEW d \in Databases,
         handle[d] \/ \E o \in Objects : state[o] = "live" /\ dbOf[o] = d
  PROVE  refCount[d] > 0
<1>1. RefIs(d) /\ IsFiniteSet(LiveOf(d)) /\ Cardinality(LiveOf(d)) \in Nat
  BY RefCountIs, FS_CardinalityType DEF OwnerInv, Counted
<1>2. CASE handle[d]
  BY <1>1, <1>2 DEF RefIs, One
<1>3. ASSUME NEW o \in Objects, state[o] = "live", dbOf[o] = d
      PROVE  refCount[d] > 0
  <2>1. LiveOf(d) # {}
    BY <1>3 DEF LiveOf
  <2>2. Cardinality(LiveOf(d)) # 0
    BY <1>1, <2>1, FS_EmptySet
  <2> QED
    BY <1>1, <2>2 DEF RefIs, One
<1> QED
  BY <1>2, <1>3

-----------------------------------------------------------------------------
(* Every step keeps the objects, creates one or destroys one *)

HandleDropped(d) ==
  /\ handle[d] /\ handle' = [handle EXCEPT ![d] = FALSE] /\ DropRef(d)

Keeps ==
  /\ KeepsOwners /\ UNCHANGED <<state, dbOf>>
  /\ \/ UNCHANGED <<refCount, open, handle>>
     \/ \E d \in Databases : HandleDropped(d)

\* a Database that has a reference cannot be closed meanwhile
Creates(p, d) ==
  AddsOwner(p) /\ Create(p, d) /\ UNCHANGED <<open, handle>> /\ refCount[d] > 0
Destroys(p)   == RemovesOwner(p) /\ Destroy(p)

KeepsOrChanges ==
  \/ Keeps
  \/ \E p \in Objects : Destroys(p) \/ \E d \in Databases : Creates(p, d)

LEMMA MainStepKeepsOrChanges ==
  ASSUME OwnerInv, MainNext
  PROVE  KeepsOrChanges
<1>1. CASE MainKeeps
  <2>1. KeepsOwners
    BY <1>1, MainKeepsOwners
  <2>2. UNCHANGED <<state, dbOf>>
    BY <1>1 DEF MainKeeps, SchedTrigger, SchedLog, StopBegin, CallbacksEnd, CallbackRun,
           CallbacksBegin, DropHandle, objVars
  <2>3. \/ UNCHANGED <<refCount, open, handle>>
        \/ \E d \in Databases : HandleDropped(d)
    BY <1>1 DEF MainKeeps, SchedTrigger, SchedLog, StopBegin, CallbacksEnd, CallbackRun,
           CallbacksBegin, DropHandle, dbVars, HandleDropped
  <2> QED
    BY <2>1, <2>2, <2>3 DEF KeepsOrChanges, Keeps
<1>2. CASE SchedPush \/ CallbacksPop
  <2>1. UNCHANGED <<state, dbOf, refCount, open, handle>>
    BY <1>2 DEF SchedPush, CallbacksPop, objVars, dbVars
  <2> QED
    BY <1>2, <2>1, MainMovesOwners DEF KeepsOrChanges, Keeps
<1>3. ASSUME NEW d \in Databases, NEW p \in Scheduled, SchedCreate(d, p)
      PROVE  KeepsOrChanges
  <2>1. p \in Objects /\ Create(p, d) /\ UNCHANGED <<open, handle>> /\ refCount[d] > 0
    BY <1>3, Referenced DEF SchedCreate, Objects
  <2> QED
    BY <1>3, <2>1, MainMovesOwners DEF KeepsOrChanges, Creates
<1>4. CASE SchedFull \/ CallbackDestroy
  <2>1. mobj \in Objects /\ Destroy(mobj)
    BY <1>4 DEF SchedFull, CallbackDestroy, MainGoto, OwnerInv, PlaceTells, Objects, Queries,
           Scheduled
  <2> QED
    BY <1>4, <2>1, MainMovesOwners DEF KeepsOrChanges, Destroys
<1>5. CASE StopEnd
  <2>1. UNCHANGED <<state, dbOf, refCount, open, handle>>
    BY <1>5 DEF StopEnd, objVars, dbVars
  <2> QED
    BY <1>5, <2>1, ThreadKeepsOwners DEF KeepsOrChanges, Keeps, ThreadKeeps
<1> QED
  BY <1>1, <1>2, <1>3, <1>4, <1>5 DEF MainNext, SchedStep, CallbackStep, MainKeeps

LEMMA ThreadStepKeepsOrChanges ==
  ASSUME OwnerInv, DbNext
  PROVE  KeepsOrChanges
<1>1. CASE ThreadKeeps
  <2>1. UNCHANGED <<state, dbOf, refCount, open, handle>>
    BY <1>1 DEF ThreadKeeps, LoopStep, DbWait, DbWaitFails, LoopAgain, LoopEnds, ShouldStop,
           StopEnd, DrainAgain, TransBeginOk, TransBeginFails, TransCallback, CommitNotPrepared,
           CommitDone, TransEnd, QueryExecuted, QueryBusy, QueryPop, QueriesEnd, dbVars, objVars
  <2> QED
    BY <1>1, <2>1, ThreadKeepsOwners DEF KeepsOrChanges, Keeps
<1>2. CASE DrainKeeps \/ CommitQueued \/ QueryQueued
  <2>1. UNCHANGED <<state, dbOf, refCount, open, handle>>
    BY <1>2 DEF DrainKeeps, CommitQueued, QueryQueued, dbVars, objVars
  <2> QED
    BY <1>2, <2>1, DrainMovesOwners, CommitMovesOwners, QueryMovesOwners DEF KeepsOrChanges, Keeps
<1>3. CASE DrainAborts
  <2>1. Head(inputQueue) \in Scheduled /\ Destroy(Head(inputQueue))
    BY <1>3 DEF DrainAborts, OwnerInv, TypeOK
  <2> QED
    BY <1>3, <2>1, DrainMovesOwners DEF KeepsOrChanges, Destroys, Objects
<1>4. CASE CommitPrepared \/ CommitFails \/ CommitNotQueued \/ TransSkip
  <2>1. dpc \in TransPc /\ di <= Len(transactions)
    BY <1>4 DEF CommitPrepared, CommitFails, CommitNotQueued, TransSkip, DbGoto, OwnerInv,
           PlaceTells, TransPc
  <2>2. Trans \in Transactions /\ TDb \in Databases
    BY <2>1, TransAlive
  <2>3. Trans \in Objects /\ Commit(Trans) \in Objects
    BY <2>2 DEF Objects, Scheduled, Commits
  <2>4. CASE CommitPrepared
    <3>1. Create(Commit(Trans), TDb) /\ UNCHANGED <<open, handle>>
      BY <2>4 DEF CommitPrepared
    <3>2. refCount[TDb] > 0
      BY <2>1, <2>2, <2>3, TransAlive, Referenced DEF TDb
    <3> QED
      BY <2>2, <2>3, <2>4, <3>1, <3>2, CommitMovesOwners DEF KeepsOrChanges, Creates
  <2>5. CASE CommitFails \/ CommitNotQueued
    <3>1. Destroy(Commit(Trans))
      BY <2>5 DEF CommitFails, CommitNotQueued
    <3> QED
      BY <2>3, <2>5, <3>1, CommitMovesOwners DEF KeepsOrChanges, Destroys
  <2>6. CASE TransSkip
    <3>1. Destroy(Trans)
      BY <2>6 DEF TransSkip
    <3> QED
      BY <2>3, <2>6, <3>1, TransSkipOwners DEF KeepsOrChanges, Destroys
  <2> QED
    BY <1>4, <2>4, <2>5, <2>6
<1>5. CASE QueryError \/ QueryNotQueued
  <2>1. dpc \in {"query", "queryQueue"} /\ di <= Len(queries) /\ Destroy(Query)
    BY <1>5 DEF QueryError, QueryNotQueued, AtQuery, DbGoto, OwnerInv, PlaceTells
  <2>2. Query \in Objects
    BY <2>1, QueryAlive DEF Objects, Scheduled
  <2> QED
    BY <1>5, <2>1, <2>2, QueryMovesOwners DEF KeepsOrChanges, Destroys
<1> QED
  BY <1>1, <1>2, <1>3, <1>4, <1>5 DEF DbNext, LoopStep, DrainStep, TransStep, QueryStep,
     ThreadKeeps

LEMMA StepKeepsOrChanges ==
  ASSUME OwnerInv, [Next]_vars
  PROVE  KeepsOrChanges
<1>1. CASE Next
  BY <1>1, MainStepKeepsOrChanges, ThreadStepKeepsOrChanges DEF Next
<1>2. CASE UNCHANGED vars
  <2>1. /\ UNCHANGED <<state, dbOf, refCount, open, handle, inputQueue, callbackQueue, queries>>
        /\ UNCHANGED <<transactions, mpc, mobj, dpc, di>>
    BY <1>2 DEF vars, dbVars, objVars, threadVars, arrayVars, mainVars, dthrVars
  <2>2. /\ ActiveTransactions' = ActiveTransactions /\ ActiveQueries' = ActiveQueries
        /\ \A o \in Objects : InMainHand(o)' = InMainHand(o)
        /\ \A o \in Objects : InThreadHand(o)' = InThreadHand(o)
    BY <2>1 DEF ActiveTransactions, ActiveQueries, InMainHand, InThreadHand, Trans
  <2> QED
    BY <2>1, <2>2, NothingMoved DEF KeepsOrChanges, Keeps, OwnerInv
<1> QED
  BY <1>1, <1>2

-----------------------------------------------------------------------------
(* The counts after a step *)

\* what a step leaves of the reference counts and of the owners
CountsHold ==
  /\ refCount \in [Databases -> Nat] /\ open \in [Databases -> BOOLEAN]
  /\ handle \in [Databases -> BOOLEAN]
  /\ state \in [Objects -> {"none", "live", "freed"}]
  /\ dbOf \in [Objects -> Databases \cup {NoObject}]
  /\ DbKnown /\ Counted /\ OneOwner
  /\ \A d \in Databases : RefIs(d)

LEMMA KeepsCounts ==
  ASSUME OwnerInv, Keeps
  PROVE  CountsHold'
<1>1. /\ refCount \in [Databases -> Nat] /\ open \in [Databases -> BOOLEAN]
      /\ handle \in [Databases -> BOOLEAN]
      /\ state \in [Objects -> {"none", "live", "freed"}]
      /\ dbOf \in [Objects -> Databases \cup {NoObject}]
  BY DEF OwnerInv, TypeOK
<1>2. state' = state /\ dbOf' = dbOf
  BY DEF Keeps
<1>3. \A d \in Databases : /\ LiveOf(d)' = LiveOf(d) /\ IsFiniteSet(LiveOf(d))
                           /\ Cardinality(LiveOf(d)) \in Nat /\ RefIs(d)
  BY <1>2, RefCountIs, FS_CardinalityType DEF LiveOf, OwnerInv, Counted
<1>4. OneOwner' /\ Counted' /\ DbKnown'
  BY <1>2, <1>3 DEF Keeps, KeepsOwners, OwnerInv, OneOwner, Counted, DbKnown
<1>5. CASE UNCHANGED <<refCount, open, handle>>
  BY <1>1, <1>2, <1>3, <1>4, <1>5 DEF CountsHold, RefIs
<1>6. ASSUME NEW d \in Databases, HandleDropped(d)
      PROVE  CountsHold'
  <2>1. /\ handle' = [handle EXCEPT ![d] = FALSE] /\ handle[d]
        /\ refCount' = [refCount EXCEPT ![d] = @ - 1]
        /\ open' = [open EXCEPT ![d] = refCount[d] > 1]
    BY <1>6 DEF HandleDropped, DropRef
  <2>2. refCount[d] \in Nat /\ refCount[d] >= 1
    BY <1>1, <1>3, <2>1 DEF RefIs, One
  <2>3. /\ refCount' \in [Databases -> Nat] /\ open' \in [Databases -> BOOLEAN]
        /\ handle' \in [Databases -> BOOLEAN]
    BY <1>1, <2>1, <2>2
  <2>4. ASSUME NEW e \in Databases
        PROVE  RefIs(e)'
    <3>1. CASE e # d
      BY <1>1, <1>3, <2>1, <3>1 DEF RefIs, One
    <3>2. CASE e = d
      <4>1. /\ refCount'[d] = refCount[d] - 1 /\ ~ handle'[d]
            /\ open'[d] <=> refCount[d] > 1
        BY <1>1, <2>1
      <4>2. refCount[d] = Cardinality(LiveOf(d)) + 1 /\ LiveOf(d)' = LiveOf(d)
        BY <1>3, <2>1 DEF RefIs, One
      <4> QED
        BY <1>3, <2>2, <3>2, <4>1, <4>2 DEF RefIs, One
    <3> QED
      BY <3>1, <3>2
  <2> QED
    BY <1>1, <1>2, <1>4, <2>3, <2>4 DEF CountsHold
<1> QED
  BY <1>5, <1>6 DEF Keeps

LEMMA CreatesCounts ==
  ASSUME OwnerInv, NEW p \in Objects, NEW d \in Databases, Creates(p, d)
  PROVE  CountsHold'
<1>1. /\ refCount \in [Databases -> Nat] /\ open \in [Databases -> BOOLEAN]
      /\ handle \in [Databases -> BOOLEAN]
      /\ state \in [Objects -> {"none", "live", "freed"}]
      /\ dbOf \in [Objects -> Databases \cup {NoObject}]
  BY DEF OwnerInv, TypeOK
<1>2. /\ state[p] = "none"
      /\ state' = [state EXCEPT ![p] = "live"] /\ dbOf' = [dbOf EXCEPT ![p] = d]
      /\ refCount' = [refCount EXCEPT ![d] = @ + 1] /\ open' = open /\ handle' = handle
  BY DEF Creates, Create
<1>3. \A e \in Databases : /\ IsFiniteSet(LiveOf(e)) /\ Cardinality(LiveOf(e)) \in Nat
                           /\ RefIs(e)
  BY RefCountIs, FS_CardinalityType DEF OwnerInv, Counted
<1>4. /\ p \notin LiveOf(d) /\ LiveOf(d)' = LiveOf(d) \cup {p}
      /\ \A e \in Databases \ {d} : LiveOf(e)' = LiveOf(e)
  <2>1. p \notin LiveOf(d)
    BY <1>2 DEF LiveOf
  <2>2. LiveOf(d)' = LiveOf(d) \cup {p}
    BY <1>1, <1>2 DEF LiveOf
  <2>3. ASSUME NEW e \in Databases \ {d}
        PROVE  LiveOf(e)' = LiveOf(e)
    BY <1>1, <1>2 DEF LiveOf
  <2> QED
    BY <2>1, <2>2, <2>3
<1>5. IsFiniteSet(LiveOf(d)') /\ Cardinality(LiveOf(d)') = Cardinality(LiveOf(d)) + 1
  BY <1>3, <1>4, FS_AddElement
<1>6. ASSUME NEW e \in Databases
      PROVE  IsFiniteSet(LiveOf(e)') /\ RefIs(e)'
  <2>1. CASE e = d
    <3>1. refCount'[d] = refCount[d] + 1 /\ refCount[d] \in Nat
      BY <1>1, <1>2
    <3>2. /\ refCount[d] = Cardinality(LiveOf(d)) + One(handle[d])
          /\ open[d] <=> refCount[d] > 0
      BY <1>3 DEF RefIs
    <3>3. open[d]
      BY <3>2 DEF Creates
    <3> QED
      BY <1>2, <1>3, <1>5, <2>1, <3>1, <3>2, <3>3 DEF RefIs, One
  <2>2. CASE e # d
    BY <1>1, <1>2, <1>3, <1>4, <2>2 DEF RefIs, One
  <2> QED
    BY <2>1, <2>2
<1>7. ASSUME NEW o \in Objects
      PROVE  Owners(o)' = (IF state'[o] = "live" THEN 1 ELSE 0) /\ IsFiniteSet(CallbackPlaces(o)')
  <2>1. Owners(o) = (IF state[o] = "live" THEN 1 ELSE 0)
    BY DEF OwnerInv, OneOwner
  <2>2. Owners(o)' = Owners(o) + One(o = p) /\ IsFiniteSet(CallbackPlaces(o)')
    BY DEF Creates, AddsOwner
  <2> QED
    BY <1>1, <1>2, <2>1, <2>2 DEF One
<1>8. DbKnown' /\ Counted' /\ OneOwner'
  BY <1>1, <1>2, <1>6, <1>7 DEF OwnerInv, DbKnown, Counted, OneOwner
<1>9. /\ refCount' \in [Databases -> Nat]
      /\ state' \in [Objects -> {"none", "live", "freed"}]
      /\ dbOf' \in [Objects -> Databases \cup {NoObject}]
  BY <1>1, <1>2
<1> QED
  BY <1>1, <1>2, <1>6, <1>8, <1>9 DEF CountsHold

LEMMA DestroysCounts ==
  ASSUME OwnerInv, NEW p \in Objects, Destroys(p)
  PROVE  CountsHold' /\ state[p] = "live"
<1>1. /\ refCount \in [Databases -> Nat] /\ open \in [Databases -> BOOLEAN]
      /\ handle \in [Databases -> BOOLEAN]
      /\ state \in [Objects -> {"none", "live", "freed"}]
      /\ dbOf \in [Objects -> Databases \cup {NoObject}]
  BY DEF OwnerInv, TypeOK
<1>2. state[p] = "live"
  <2>1. Owners(p) >= 1
    BY DEF Destroys, RemovesOwner, One
  <2> QED
    BY <2>1 DEF OwnerInv, OneOwner
<1>3. PICK d \in Databases : d = dbOf[p]
  BY <1>2 DEF OwnerInv, DbKnown
<1>4. /\ state' = [state EXCEPT ![p] = "freed"] /\ dbOf' = dbOf /\ handle' = handle
      /\ refCount' = [refCount EXCEPT ![d] = @ - 1]
      /\ open' = [open EXCEPT ![d] = refCount[d] > 1]
  BY <1>3 DEF Destroys, Destroy, DropRef
<1>5. \A e \in Databases : /\ IsFiniteSet(LiveOf(e)) /\ Cardinality(LiveOf(e)) \in Nat
                           /\ RefIs(e)
  BY RefCountIs, FS_CardinalityType DEF OwnerInv, Counted
<1>6. /\ p \in LiveOf(d) /\ LiveOf(d)' = LiveOf(d) \ {p}
      /\ \A e \in Databases \ {d} : LiveOf(e)' = LiveOf(e)
  <2>1. p \in LiveOf(d)
    BY <1>2, <1>3 DEF LiveOf
  <2>2. LiveOf(d)' = LiveOf(d) \ {p}
    BY <1>1, <1>4 DEF LiveOf
  <2>3. ASSUME NEW e \in Databases \ {d}
        PROVE  LiveOf(e)' = LiveOf(e)
    BY <1>1, <1>3, <1>4 DEF LiveOf
  <2> QED
    BY <2>1, <2>2, <2>3
<1>7. /\ IsFiniteSet(LiveOf(d)') /\ Cardinality(LiveOf(d)') = Cardinality(LiveOf(d)) - 1
      /\ Cardinality(LiveOf(d)) >= 1
  <2>1. Cardinality(LiveOf(d)) # 0
    BY <1>5, <1>6, FS_EmptySet
  <2> QED
    BY <1>5, <1>6, <2>1, FS_RemoveElement
<1>8. refCount[d] \in Nat /\ refCount[d] >= 1
  BY <1>1, <1>5, <1>7 DEF RefIs, One
<1>9. ASSUME NEW e \in Databases
      PROVE  IsFiniteSet(LiveOf(e)') /\ RefIs(e)'
  <2>1. CASE e = d
    BY <1>1, <1>4, <1>5, <1>7, <1>8, <2>1 DEF RefIs, One
  <2>2. CASE e # d
    BY <1>1, <1>4, <1>5, <1>6, <2>2 DEF RefIs, One
  <2> QED
    BY <2>1, <2>2
<1>10. ASSUME NEW o \in Objects
       PROVE  Owners(o)' = (IF state'[o] = "live" THEN 1 ELSE 0)
              /\ IsFiniteSet(CallbackPlaces(o)')
  <2>1. Owners(o) = (IF state[o] = "live" THEN 1 ELSE 0)
    BY DEF OwnerInv, OneOwner
  <2>2. /\ Owners(o)' \in Nat /\ Owners(o) = Owners(o)' + One(o = p)
        /\ IsFiniteSet(CallbackPlaces(o)')
    BY DEF Destroys, RemovesOwner
  <2> QED
    BY <1>1, <1>2, <1>4, <2>1, <2>2 DEF One
<1>11. DbKnown' /\ Counted' /\ OneOwner'
  BY <1>1, <1>2, <1>4, <1>9, <1>10 DEF OwnerInv, DbKnown, Counted, OneOwner
<1>12. /\ refCount' \in [Databases -> Nat] /\ open' \in [Databases -> BOOLEAN]
       /\ state' \in [Objects -> {"none", "live", "freed"}]
  BY <1>1, <1>4, <1>8
<1> QED
  BY <1>1, <1>2, <1>4, <1>9, <1>11, <1>12 DEF CountsHold

-----------------------------------------------------------------------------
(* The types of the other variables, and what a program counter promises *)

OtherTypes ==
  /\ callbackQueue \in [Databases -> Seq(Queries)]
  /\ inTxn \in [Databases -> BOOLEAN] /\ commitLost \in [Databases -> BOOLEAN]
  /\ result \in [Queries -> {"none", "rows", "done"}]
  /\ called \in [Objects -> Nat]
  /\ inputQueue \in Seq(Scheduled) /\ sem \in Nat /\ stopping \in BOOLEAN
  /\ queries \in Seq(UserQueries) /\ transactions \in Seq(Transactions)
  /\ mpc \in MainPc /\ mobj \in Objects \cup {NoObject}
  /\ mdb \in Databases \cup {NoObject}
  /\ dpc \in DbPc /\ di \in Nat \ {0}

LEMMA MainPlaces ==
  ASSUME OwnerInv, MainNext
  PROVE  OtherTypes' /\ PlaceTells'
<1> USE DEF MainPc
<1>1. OtherTypes /\ PlaceTells
  BY DEF OwnerInv, TypeOK, OtherTypes
<1>2. ASSUME NEW d \in Databases, NEW o \in Scheduled, SchedCreate(d, o)
      PROVE  OtherTypes' /\ PlaceTells'
  BY <1>1, <1>2 DEF SchedCreate, MainGoto, OtherTypes, PlaceTells, threadVars, arrayVars, dthrVars,
     mainVars, objVars, dbVars, Objects
<1>3. ASSUME NEW d \in Databases, CallbacksBegin(d)
      PROVE  OtherTypes' /\ PlaceTells'
  BY <1>1, <1>3 DEF CallbacksBegin, MainGoto, OtherTypes, PlaceTells, threadVars, arrayVars, dthrVars,
     mainVars, objVars, dbVars, Objects
<1>4. ASSUME NEW d \in Databases, DropHandle(d)
      PROVE  OtherTypes' /\ PlaceTells'
  BY <1>1, <1>4 DEF DropHandle, MainGoto, OtherTypes, PlaceTells, threadVars, arrayVars, dthrVars,
     mainVars, objVars, dbVars, Objects
<1>5. CASE SchedPush
  BY <1>1, <1>5 DEF SchedPush, MainGoto, DbGoto, OtherTypes, PlaceTells, threadVars, arrayVars, dthrVars,
     mainVars, objVars, dbVars, Objects, Queries, Scheduled, DbPc, TransPc
<1>6. CASE SchedFull
  BY <1>1, <1>6 DEF SchedFull, MainGoto, DbGoto, OtherTypes, PlaceTells, threadVars, arrayVars, dthrVars,
     mainVars, objVars, dbVars, Objects, Queries, Scheduled, DbPc, TransPc
<1>7. CASE SchedTrigger
  BY <1>1, <1>7 DEF SchedTrigger, MainGoto, DbGoto, OtherTypes, PlaceTells, threadVars, arrayVars, dthrVars,
     mainVars, objVars, dbVars, Objects, Queries, Scheduled, DbPc, TransPc
<1>8. CASE SchedLog
  BY <1>1, <1>8 DEF SchedLog, MainGoto, DbGoto, OtherTypes, PlaceTells, threadVars, arrayVars, dthrVars,
     mainVars, objVars, dbVars, Objects, Queries, Scheduled, DbPc, TransPc
<1>9. CASE CallbacksPop
  BY <1>1, <1>9 DEF CallbacksPop, MainGoto, DbGoto, OtherTypes, PlaceTells, threadVars, arrayVars, dthrVars,
     mainVars, objVars, dbVars, Objects, Queries, Scheduled, DbPc, TransPc
<1>10. CASE CallbacksEnd
  BY <1>1, <1>10 DEF CallbacksEnd, MainGoto, DbGoto, OtherTypes, PlaceTells, threadVars, arrayVars, dthrVars,
     mainVars, objVars, dbVars, Objects, Queries, Scheduled, DbPc, TransPc
<1>11. CASE CallbackRun
  BY <1>1, <1>11 DEF CallbackRun, MainGoto, DbGoto, OtherTypes, PlaceTells, threadVars, arrayVars, dthrVars,
     mainVars, objVars, dbVars, Objects, Queries, Scheduled, DbPc, TransPc
<1>12. CASE CallbackDestroy
  BY <1>1, <1>12 DEF CallbackDestroy, MainGoto, DbGoto, OtherTypes, PlaceTells, threadVars, arrayVars, dthrVars,
     mainVars, objVars, dbVars, Objects, Queries, Scheduled, DbPc, TransPc
<1>13. CASE StopBegin
  BY <1>1, <1>13 DEF StopBegin, MainGoto, DbGoto, OtherTypes, PlaceTells, threadVars, arrayVars, dthrVars,
     mainVars, objVars, dbVars, Objects, Queries, Scheduled, DbPc, TransPc
<1>14. CASE StopEnd
  BY <1>1, <1>14 DEF StopEnd, MainGoto, DbGoto, OtherTypes, PlaceTells, threadVars, arrayVars, dthrVars,
     mainVars, objVars, dbVars, Objects, Queries, Scheduled, DbPc, TransPc
<1> QED
  BY <1>2, <1>3, <1>4, <1>5, <1>6, <1>7, <1>8, <1>9, <1>10, <1>11, <1>12, <1>13, <1>14 DEF MainNext, SchedStep, CallbackStep

LEMMA ThreadPlaces ==
  ASSUME OwnerInv, DbNext
  PROVE  OtherTypes' /\ PlaceTells'
<1> USE DEF DbPc, TransPc
<1>1. OtherTypes /\ PlaceTells
  BY DEF OwnerInv, TypeOK, OtherTypes
<1>2. CASE DbWait
  BY <1>1, <1>2 DEF DbWait, DbGoto, AtTrans, AtQuery, OtherTypes, PlaceTells, threadVars, arrayVars,
     dthrVars, mainVars, objVars, dbVars
<1>3. CASE DbWaitFails
  BY <1>1, <1>3 DEF DbWaitFails, DbGoto, AtTrans, AtQuery, OtherTypes, PlaceTells, threadVars, arrayVars,
     dthrVars, mainVars, objVars, dbVars
<1>4. CASE LoopAgain
  BY <1>1, <1>4 DEF LoopAgain, DbGoto, AtTrans, AtQuery, OtherTypes, PlaceTells, threadVars, arrayVars,
     dthrVars, mainVars, objVars, dbVars
<1>5. CASE LoopEnds
  BY <1>1, <1>5 DEF LoopEnds, DbGoto, AtTrans, AtQuery, OtherTypes, PlaceTells, threadVars, arrayVars,
     dthrVars, mainVars, objVars, dbVars
<1>6. CASE ShouldStop
  BY <1>1, <1>6 DEF ShouldStop, DbGoto, AtTrans, AtQuery, OtherTypes, PlaceTells, threadVars, arrayVars,
     dthrVars, mainVars, objVars, dbVars
<1>7. CASE DrainKeeps
  <2>1. Head(inputQueue) \in Scheduled /\ Tail(inputQueue) \in Seq(Scheduled)
    BY <1>1, <1>7 DEF DrainKeeps, OtherTypes
  <2>2. transactions' \in Seq(Transactions) /\ queries' \in Seq(UserQueries)
    <3>1. PICK h \in Scheduled : h = Head(inputQueue)
      BY <2>1
    <3>2. CASE h \in Transactions
      <4>1. transactions' = Append(transactions, h) /\ queries' = queries
        BY <1>7, <3>1, <3>2 DEF DrainKeeps
      <4> QED
        BY <1>1, <3>2, <4>1, AppendProperties DEF OtherTypes
    <3>3. CASE h \notin Transactions
      <4>1. queries' = Append(queries, h) /\ transactions' = transactions
        BY <1>7, <3>1, <3>3 DEF DrainKeeps
      <4> QED
        BY <1>1, <3>3, <4>1, AppendProperties DEF OtherTypes, Scheduled
    <3> QED
      BY <3>2, <3>3
  <2>4. inputQueue' \in Seq(Scheduled)
    BY <2>1, <1>7 DEF DrainKeeps
  <2>5. dpc = "drain" /\ dpc' = "drain"
    BY <1>7 DEF DrainKeeps, dthrVars
  <2>6. UNCHANGED <<dbVars, objVars, sem, stopping, mainVars, di>>
    BY <1>7 DEF DrainKeeps, dthrVars
  <2> QED
    BY <1>1, <2>2, <2>4, <2>5, <2>6 DEF OtherTypes, PlaceTells, dbVars, objVars, mainVars
<1>8. CASE DrainAborts
  BY <1>1, <1>8 DEF DrainAborts, DbGoto, AtTrans, AtQuery, OtherTypes, PlaceTells, threadVars, arrayVars,
     dthrVars, mainVars, objVars, dbVars
<1>9. CASE DrainAgain
  BY <1>1, <1>9 DEF DrainAgain, DbGoto, AtTrans, AtQuery, OtherTypes, PlaceTells, threadVars, arrayVars,
     dthrVars, mainVars, objVars, dbVars
<1>10. CASE TransBeginOk
  BY <1>1, <1>10 DEF TransBeginOk, DbGoto, AtTrans, AtQuery, OtherTypes, PlaceTells, threadVars, arrayVars,
     dthrVars, mainVars, objVars, dbVars
<1>11. CASE TransBeginFails
  BY <1>1, <1>11 DEF TransBeginFails, DbGoto, AtTrans, AtQuery, OtherTypes, PlaceTells, threadVars, arrayVars,
     dthrVars, mainVars, objVars, dbVars
<1>12. CASE TransCallback
  <2>1. Trans \in Objects
    BY <1>1, <1>12, TransAlive DEF TransCallback, DbGoto, PlaceTells, Objects, Scheduled
  <2>2. called' \in [Objects -> Nat]
    BY <1>1, <1>12, <2>1 DEF TransCallback, OtherTypes
  <2> QED
    BY <1>1, <1>12, <2>2 DEF TransCallback, DbGoto, AtTrans, AtQuery, OtherTypes, PlaceTells, threadVars, arrayVars,
         dthrVars, mainVars, objVars, dbVars
<1>13. CASE CommitPrepared
  BY <1>1, <1>13 DEF CommitPrepared, DbGoto, AtTrans, AtQuery, OtherTypes, PlaceTells, threadVars, arrayVars,
     dthrVars, mainVars, objVars, dbVars
<1>14. CASE CommitNotPrepared
  BY <1>1, <1>14 DEF CommitNotPrepared, DbGoto, AtTrans, AtQuery, OtherTypes, PlaceTells, threadVars, arrayVars,
     dthrVars, mainVars, objVars, dbVars
<1>15. CASE CommitDone
  BY <1>1, <1>15 DEF CommitDone, DbGoto, AtTrans, AtQuery, OtherTypes, PlaceTells, threadVars, arrayVars,
     dthrVars, mainVars, objVars, dbVars
<1>16. CASE CommitFails
  BY <1>1, <1>16 DEF CommitFails, DbGoto, AtTrans, AtQuery, OtherTypes, PlaceTells, threadVars, arrayVars,
     dthrVars, mainVars, objVars, dbVars
<1>17. CASE CommitQueued
  <2>1. Trans \in Transactions /\ TDb \in Databases
    BY <1>1, <1>17, TransAlive DEF CommitQueued, DbGoto, PlaceTells
  <2>2. Commit(Trans) \in Queries
    BY <2>1 DEF Queries, Commits
  <2>3. callbackQueue' \in [Databases -> Seq(Queries)]
    BY <1>1, <1>17, <2>1, <2>2 DEF CommitQueued, OtherTypes
  <2> QED
    BY <1>1, <1>17, <2>3 DEF CommitQueued, DbGoto, AtTrans, AtQuery, OtherTypes, PlaceTells, threadVars, arrayVars,
         dthrVars, mainVars, objVars, dbVars
<1>18. CASE CommitNotQueued
  BY <1>1, <1>18 DEF CommitNotQueued, DbGoto, AtTrans, AtQuery, OtherTypes, PlaceTells, threadVars, arrayVars,
     dthrVars, mainVars, objVars, dbVars
<1>19. CASE TransSkip
  BY <1>1, <1>19 DEF TransSkip, DbGoto, AtTrans, AtQuery, OtherTypes, PlaceTells, threadVars, arrayVars,
     dthrVars, mainVars, objVars, dbVars
<1>20. CASE TransEnd
  BY <1>1, <1>20 DEF TransEnd, DbGoto, AtTrans, AtQuery, OtherTypes, PlaceTells, threadVars, arrayVars,
     dthrVars, mainVars, objVars, dbVars
<1>21. CASE QueryExecuted
  BY <1>1, <1>21 DEF QueryExecuted, DbGoto, AtTrans, AtQuery, OtherTypes, PlaceTells, threadVars, arrayVars,
     dthrVars, mainVars, objVars, dbVars
<1>22. CASE QueryBusy
  BY <1>1, <1>22 DEF QueryBusy, DbGoto, AtTrans, AtQuery, OtherTypes, PlaceTells, threadVars, arrayVars,
     dthrVars, mainVars, objVars, dbVars
<1>23. CASE QueryError
  <2>1. di \in 1 .. Len(queries) /\ queries \in Seq(UserQueries)
    BY <1>1, <1>23 DEF QueryError, AtQuery, DbGoto, PlaceTells, OtherTypes
  <2>2. SwapAndPop(queries, di) \in Seq(UserQueries)
    BY <2>1, PlacesSwapAndPop
  <2> QED
    BY <1>1, <1>23, <2>2 DEF QueryError, DbGoto, AtTrans, AtQuery, OtherTypes, PlaceTells, threadVars, arrayVars,
         dthrVars, mainVars, objVars, dbVars
<1>24. CASE QueryQueued
  <2>1. Query \in UserQueries /\ QDb \in Databases
    BY <1>1, <1>24, QueryAlive DEF QueryQueued, DbGoto, PlaceTells
  <2>2. Query \in Queries
    BY <2>1 DEF Queries
  <2>3. callbackQueue' \in [Databases -> Seq(Queries)]
    BY <1>1, <1>24, <2>1, <2>2 DEF QueryQueued, OtherTypes
  <2> QED
    BY <1>1, <1>24, <2>3 DEF QueryQueued, DbGoto, AtTrans, AtQuery, OtherTypes, PlaceTells, threadVars, arrayVars,
         dthrVars, mainVars, objVars, dbVars
<1>25. CASE QueryPop
  <2>1. di \in 1 .. Len(queries) /\ queries \in Seq(UserQueries)
    BY <1>1, <1>25 DEF QueryPop, AtQuery, DbGoto, PlaceTells, OtherTypes
  <2>2. SwapAndPop(queries, di) \in Seq(UserQueries)
    BY <2>1, PlacesSwapAndPop
  <2> QED
    BY <1>1, <1>25, <2>2 DEF QueryPop, DbGoto, AtTrans, AtQuery, OtherTypes, PlaceTells, threadVars, arrayVars,
         dthrVars, mainVars, objVars, dbVars
<1>26. CASE QueryNotQueued
  <2>1. di \in 1 .. Len(queries) /\ queries \in Seq(UserQueries)
    BY <1>1, <1>26 DEF QueryNotQueued, AtQuery, DbGoto, PlaceTells, OtherTypes
  <2>2. SwapAndPop(queries, di) \in Seq(UserQueries)
    BY <2>1, PlacesSwapAndPop
  <2> QED
    BY <1>1, <1>26, <2>2 DEF QueryNotQueued, DbGoto, AtTrans, AtQuery, OtherTypes, PlaceTells, threadVars, arrayVars,
         dthrVars, mainVars, objVars, dbVars
<1>27. CASE QueriesEnd
  BY <1>1, <1>27 DEF QueriesEnd, DbGoto, AtTrans, AtQuery, OtherTypes, PlaceTells, threadVars, arrayVars,
     dthrVars, mainVars, objVars, dbVars
<1> QED
  BY <1>2, <1>3, <1>4, <1>5, <1>6, <1>7, <1>8, <1>9, <1>10, <1>11, <1>12, <1>13, <1>14, <1>15, <1>16, <1>17, <1>18, <1>19, <1>20, <1>21, <1>22, <1>23, <1>24, <1>25, <1>26, <1>27
  DEF DbNext, LoopStep, DrainStep, TransStep, QueryStep

-----------------------------------------------------------------------------
(* Ownership and reference counts *)

LEMMA OwnerInit == Init => OwnerInv
<1> SUFFICES ASSUME Init PROVE OwnerInv
  OBVIOUS
<1>1. PlaceTells /\ DbKnown
  BY DEF Init, PlaceTells, DbKnown, TransPc
<1>2. TypeOK
  <2>1. /\ refCount \in [Databases -> Nat] /\ open \in [Databases -> BOOLEAN]
        /\ callbackQueue \in [Databases -> Seq(Queries)] /\ handle \in [Databases -> BOOLEAN]
        /\ inTxn \in [Databases -> BOOLEAN] /\ commitLost \in [Databases -> BOOLEAN]
    BY DEF Init
  <2>2. /\ state \in [Objects -> {"none", "live", "freed"}]
        /\ dbOf \in [Objects -> Databases \cup {NoObject}]
        /\ result \in [Queries -> {"none", "rows", "done"}]
        /\ called \in [Objects -> Nat]
    BY DEF Init
  <2>4. stopping \in BOOLEAN
    BY Zenon DEF Init
  <2>3. /\ inputQueue \in Seq(Scheduled) /\ sem \in Nat
        /\ queries \in Seq(UserQueries) /\ transactions \in Seq(Transactions)
        /\ mpc \in MainPc /\ mobj \in Objects \cup {NoObject}
        /\ mdb \in Databases \cup {NoObject}
        /\ dpc \in DbPc /\ di \in Nat \ {0}
    BY DEF Init, MainPc, DbPc, TransPc
  <2> QED
    BY <2>1, <2>2, <2>3, <2>4 DEF TypeOK
<1>3. \A d \in Databases : LiveOf(d) = {}
  BY DEF Init, LiveOf
<1>4. \A o \in Objects : CallbackPlaces(o) = {}
  BY DEF Init, CallbackPlaces, PlacesOf
<1>5. Counted
  BY <1>3, <1>4, FS_EmptySet DEF Counted
<1>6. ASSUME NEW d \in Databases
      PROVE  RefIs(d)
  <2>1. Cardinality(LiveOf(d)) = 0
    BY <1>3, FS_EmptySet
  <2> QED
    BY <2>1 DEF Init, RefIs, One
<1>7. ASSUME NEW o \in Objects
      PROVE  Owners(o) = (IF state[o] = "live" THEN 1 ELSE 0)
  <2>1. Cardinality(CallbackPlaces(o)) = 0
    BY <1>4, FS_EmptySet
  <2>2. Places(<<>>, o) = 0
    BY PlacesEmpty
  <2>3. inputQueue = <<>> /\ ActiveTransactions = <<>> /\ ActiveQueries = <<>>
    BY DEF Init, ActiveTransactions, ActiveQueries, TransPc
  <2>4. ~ InMainHand(o) /\ ~ InThreadHand(o) /\ state[o] = "none"
    BY DEF Init, InMainHand, InThreadHand
  <2> QED
    BY <2>1, <2>2, <2>3, <2>4 DEF Owners
<1> QED
  BY <1>1, <1>2, <1>5, <1>6, <1>7, RefCountIs DEF OwnerInv, OneOwner

LEMMA OwnerStep == OwnerInv /\ [Next]_vars => OwnerInv'
<1> SUFFICES ASSUME OwnerInv, [Next]_vars PROVE OwnerInv'
  OBVIOUS
<1>1. CountsHold'
  BY StepKeepsOrChanges, KeepsCounts, CreatesCounts, DestroysCounts DEF KeepsOrChanges
<1>2. OtherTypes' /\ PlaceTells'
  <2>1. CASE Next
    BY <2>1, MainPlaces, ThreadPlaces DEF Next
  <2>2. CASE UNCHANGED vars
    BY <2>2 DEF vars, dbVars, objVars, threadVars, arrayVars, mainVars, dthrVars, OtherTypes,
           PlaceTells, OwnerInv, TypeOK
  <2> QED
    BY <2>1, <2>2
<1>3. TypeOK'
  BY <1>1, <1>2 DEF TypeOK, CountsHold, OtherTypes
<1>4. RefCountExact'
  BY <1>1 DEF CountsHold, RefCountExact, RefIs, LiveOf, One
<1> QED
  BY <1>1, <1>2, <1>3, <1>4 DEF OwnerInv, CountsHold

LEMMA OwnerInvariant == Spec => []OwnerInv
  BY OwnerInit, OwnerStep, PTL DEF Spec

\* The variables of the database thread have their types; no reference count falls below
\* zero.
THEOREM TypeCorrect == Spec => []TypeOK
<1>1. OwnerInv => TypeOK
  BY DEF OwnerInv
<1> QED
  BY <1>1, OwnerInvariant, PTL

\* db_grab and db_drop balance: a Database is closed and freed exactly when its last query
\* or transaction and the main thread's handle are gone.
THEOREM ReferencesBalance == Spec => []RefCountExact
<1>1. OwnerInv => RefCountExact
  BY DEF OwnerInv
<1> QED
  BY <1>1, OwnerInvariant, PTL

\* A live query or transaction has one owner, a destroyed one none: none is leaked, used
\* after it was destroyed, or destroyed twice.
THEOREM OwnedOnce == Spec => []OneOwner
<1>1. OwnerInv => OneOwner
  BY DEF OwnerInv
<1> QED
  BY <1>1, OwnerInvariant, PTL

\* The database thread leaves its loop with nothing in its arrays.
THEOREM NothingLeft == Spec => []ArraysEmptyAtExit
<1>1. OwnerInv => ArraysEmptyAtExit
  BY DEF OwnerInv, PlaceTells, ArraysEmptyAtExit
<1> QED
  BY <1>1, OwnerInvariant, PTL

-----------------------------------------------------------------------------
(* Calls come in their place *)

\* the part of BracketInv that is about transactions, and the part that is about queries
Brackets ==
  /\ \A d \in Databases :
       inTxn[d] /\ ~ commitLost[d] =>
         dpc \in {"transCallback", "commitPrep", "commitStep"} /\ TDb = d
  /\ dpc = "transCallback" => inTxn[TDb] /\ called[Trans] = 0
  /\ dpc = "commitPrep" => inTxn[TDb] /\ called[Trans] = 1
  /\ \A x \in Transactions :
       /\ state[x] = "none" => called[x] = 0
       /\ state[x] = "live" /\ called[x] > 0 =>
            dpc \in {"commitPrep", "commitStep", "commitQueue", "transSkip"} /\ Trans = x

Calls ==
  \A q \in Queries :
    /\ state[q] = "none" => called[q] = 0
    /\ called[q] > 0 => /\ called[q] = 1 /\ result[q] # "none"
                        /\ state[q] = "freed" \/ (mpc = "cbDestroy" /\ mobj = q)

LEMMA BracketParts == BracketInv <=> Brackets /\ Calls /\ Executed
<1>1. \A o : o \in Objects <=> o \in Transactions \/ o \in Queries
  BY DEF Objects, Queries, Scheduled
<1> QED
  BY <1>1 DEF BracketInv, TransactionBracket, CallOnce, Brackets, Calls

\* what is known of the objects in every step
Facts ==
  /\ state \in [Objects -> {"none", "live", "freed"}]
  /\ dbOf \in [Objects -> Databases \cup {NoObject}]
  /\ called \in [Objects -> Nat]
  /\ inTxn \in [Databases -> BOOLEAN] /\ commitLost \in [Databases -> BOOLEAN]
  /\ Transactions \cap Queries = {} /\ Transactions \subseteq Objects /\ Queries \subseteq Objects
  /\ dpc \in TransPc \ {"transBegin"} =>
       Trans \in Transactions /\ state[Trans] = "live" /\ TDb \in Databases

LEMMA FactsHold == OwnerInv => Facts
<1> SUFFICES ASSUME OwnerInv PROVE Facts
  OBVIOUS
<1>1. Transactions \cap Queries = {} /\ Transactions \subseteq Objects /\ Queries \subseteq Objects
  BY DbAssumption DEF Objects, Queries, Scheduled
<1>2. dpc \in TransPc \ {"transBegin"} =>
        Trans \in Transactions /\ state[Trans] = "live" /\ TDb \in Databases
  BY TransAlive DEF OwnerInv, PlaceTells
<1> QED
  BY <1>1, <1>2 DEF Facts, OwnerInv, TypeOK

LEMMA MainBrackets ==
  ASSUME OwnerInv, Brackets, MainNext
  PROVE  Brackets'
<1> USE DEF TransPc
<1>1. Facts
  BY FactsHold
<1>2. UNCHANGED <<inTxn, commitLost, transactions, di>>
  BY DEF MainNext, SchedCreate, CallbacksBegin, DropHandle, SchedStep, SchedPush, SchedFull,
     SchedTrigger, SchedLog, CallbackStep, CallbacksPop, CallbacksEnd, CallbackRun,
     CallbackDestroy, StopBegin, StopEnd, threadVars, arrayVars, dthrVars, dbVars
<1>3. dpc' = dpc \/ (dpc = "exited" /\ dpc' = "freed")
  BY DEF MainNext, SchedCreate, CallbacksBegin, DropHandle, SchedStep, SchedPush, SchedFull,
     SchedTrigger, SchedLog, CallbackStep, CallbacksPop, CallbacksEnd, CallbackRun,
     CallbackDestroy, StopBegin, StopEnd, DbGoto, dthrVars
<1>4. ASSUME NEW x \in Transactions
      PROVE  /\ called'[x] = called[x]
             /\ state'[x] = state[x] \/ state[x] = "none" \/ state'[x] = "freed"
             /\ state[x] # "none" => dbOf'[x] = dbOf[x] /\ state'[x] # "none"
  BY <1>1 DEF Facts, MainNext, SchedCreate, CallbacksBegin, DropHandle, SchedStep, SchedPush,
     SchedFull, SchedTrigger, SchedLog, CallbackStep, CallbacksPop, CallbacksEnd, CallbackRun,
     CallbackDestroy, StopBegin, StopEnd, objVars, Create, Destroy, MainGoto,
     OwnerInv, PlaceTells
<1> QED
  BY <1>1, <1>2, <1>3, <1>4 DEF Brackets, Facts, Trans, TDb

LEMMA ThreadBrackets ==
  ASSUME OwnerInv, Brackets, DbNext
  PROVE  Brackets'
<1> USE DEF TransPc
<1>1. Facts
  BY FactsHold
<1>2. Commits \cap Transactions = {} /\ UserQueries \cap Transactions = {}
  BY DbAssumption DEF Scheduled
<1>3. CASE DbWait
  BY <1>1, <1>2, <1>3 DEF DbWait, DbGoto, AtTrans, AtQuery, Brackets, Facts, Trans, TDb, threadVars,
     arrayVars, dthrVars, objVars, dbVars, Create, Destroy, Commits
<1>4. CASE DbWaitFails
  BY <1>1, <1>2, <1>4 DEF DbWaitFails, DbGoto, AtTrans, AtQuery, Brackets, Facts, Trans, TDb, threadVars,
     arrayVars, dthrVars, objVars, dbVars, Create, Destroy, Commits
<1>5. CASE LoopAgain
  BY <1>1, <1>2, <1>5 DEF LoopAgain, DbGoto, AtTrans, AtQuery, Brackets, Facts, Trans, TDb, threadVars,
     arrayVars, dthrVars, objVars, dbVars, Create, Destroy, Commits
<1>6. CASE LoopEnds
  BY <1>1, <1>2, <1>6 DEF LoopEnds, DbGoto, AtTrans, AtQuery, Brackets, Facts, Trans, TDb, threadVars,
     arrayVars, dthrVars, objVars, dbVars, Create, Destroy, Commits
<1>7. CASE ShouldStop
  BY <1>1, <1>2, <1>7 DEF ShouldStop, DbGoto, AtTrans, AtQuery, Brackets, Facts, Trans, TDb, threadVars,
     arrayVars, dthrVars, objVars, dbVars, Create, Destroy, Commits
<1>8. CASE DrainKeeps
  BY <1>1, <1>2, <1>8 DEF DrainKeeps, DbGoto, AtTrans, AtQuery, Brackets, Facts, Trans, TDb, threadVars,
     arrayVars, dthrVars, objVars, dbVars, Create, Destroy, Commits
<1>9. CASE DrainAborts
  BY <1>1, <1>2, <1>9 DEF DrainAborts, DbGoto, AtTrans, AtQuery, Brackets, Facts, Trans, TDb, threadVars,
     arrayVars, dthrVars, objVars, dbVars, Create, Destroy, Commits
<1>10. CASE DrainAgain
  BY <1>1, <1>2, <1>10 DEF DrainAgain, DbGoto, AtTrans, AtQuery, Brackets, Facts, Trans, TDb, threadVars,
     arrayVars, dthrVars, objVars, dbVars, Create, Destroy, Commits
<1>11. CASE TransBeginOk
  <2>1. Trans \in Transactions /\ state[Trans] = "live" /\ TDb \in Databases
    BY <1>11, TransAlive DEF TransBeginOk, AtTrans
  <2>2. called[Trans] = 0
    BY <1>1, <1>11, <2>1 DEF TransBeginOk, AtTrans, Brackets, Facts
  <2>3. dpc = "transBegin" /\ dpc' = "transCallback" /\ inTxn' = [inTxn EXCEPT ![TDb] = TRUE]
    BY <1>11 DEF TransBeginOk, AtTrans
  <2>4. UNCHANGED <<commitLost, state, called, Trans, TDb>>
    BY <1>11 DEF TransBeginOk, objVars, threadVars, arrayVars, Trans, TDb
  <2> QED
    BY <1>1, <2>1, <2>2, <2>3, <2>4 DEF Brackets, Facts
<1>12. CASE TransBeginFails
  BY <1>1, <1>2, <1>12 DEF TransBeginFails, DbGoto, AtTrans, AtQuery, Brackets, Facts, Trans, TDb, threadVars,
     arrayVars, dthrVars, objVars, dbVars, Create, Destroy, Commits
<1>13. CASE TransCallback
  BY <1>1, <1>2, <1>13 DEF TransCallback, DbGoto, AtTrans, AtQuery, Brackets, Facts, Trans, TDb, threadVars,
     arrayVars, dthrVars, objVars, dbVars, Create, Destroy, Commits
<1>14. CASE CommitPrepared
  BY <1>1, <1>2, <1>14 DEF CommitPrepared, DbGoto, AtTrans, AtQuery, Brackets, Facts, Trans, TDb, threadVars,
     arrayVars, dthrVars, objVars, dbVars, Create, Destroy, Commits
<1>15. CASE CommitNotPrepared
  BY <1>1, <1>2, <1>15 DEF CommitNotPrepared, DbGoto, AtTrans, AtQuery, Brackets, Facts, Trans, TDb, threadVars,
     arrayVars, dthrVars, objVars, dbVars, Create, Destroy, Commits
<1>16. CASE CommitDone
  BY <1>1, <1>2, <1>16 DEF CommitDone, DbGoto, AtTrans, AtQuery, Brackets, Facts, Trans, TDb, threadVars,
     arrayVars, dthrVars, objVars, dbVars, Create, Destroy, Commits
<1>17. CASE CommitFails
  BY <1>1, <1>2, <1>17 DEF CommitFails, DbGoto, AtTrans, AtQuery, Brackets, Facts, Trans, TDb, threadVars,
     arrayVars, dthrVars, objVars, dbVars, Create, Destroy, Commits
<1>18. CASE CommitQueued
  BY <1>1, <1>2, <1>18 DEF CommitQueued, DbGoto, AtTrans, AtQuery, Brackets, Facts, Trans, TDb, threadVars,
     arrayVars, dthrVars, objVars, dbVars, Create, Destroy, Commits
<1>19. CASE CommitNotQueued
  BY <1>1, <1>2, <1>19 DEF CommitNotQueued, DbGoto, AtTrans, AtQuery, Brackets, Facts, Trans, TDb, threadVars,
     arrayVars, dthrVars, objVars, dbVars, Create, Destroy, Commits
<1>20. CASE TransSkip
  BY <1>1, <1>2, <1>20 DEF TransSkip, DbGoto, AtTrans, AtQuery, Brackets, Facts, Trans, TDb, threadVars,
     arrayVars, dthrVars, objVars, dbVars, Create, Destroy, Commits
<1>21. CASE TransEnd
  BY <1>1, <1>2, <1>21 DEF TransEnd, DbGoto, AtTrans, AtQuery, Brackets, Facts, Trans, TDb, threadVars,
     arrayVars, dthrVars, objVars, dbVars, Create, Destroy, Commits
<1>22. CASE QueryExecuted
  BY <1>1, <1>2, <1>22 DEF QueryExecuted, DbGoto, AtTrans, AtQuery, Brackets, Facts, Trans, TDb, threadVars,
     arrayVars, dthrVars, objVars, dbVars, Create, Destroy, Commits
<1>23. CASE QueryBusy
  BY <1>1, <1>2, <1>23 DEF QueryBusy, DbGoto, AtTrans, AtQuery, Brackets, Facts, Trans, TDb, threadVars,
     arrayVars, dthrVars, objVars, dbVars, Create, Destroy, Commits
<1>24. CASE QueryError
  BY <1>1, <1>2, <1>24 DEF QueryError, DbGoto, AtTrans, AtQuery, Brackets, Facts, Trans, TDb, threadVars,
     arrayVars, dthrVars, objVars, dbVars, Create, Destroy, Commits
<1>25. CASE QueryQueued
  BY <1>1, <1>2, <1>25 DEF QueryQueued, DbGoto, AtTrans, AtQuery, Brackets, Facts, Trans, TDb, threadVars,
     arrayVars, dthrVars, objVars, dbVars, Create, Destroy, Commits
<1>26. CASE QueryPop
  BY <1>1, <1>2, <1>26 DEF QueryPop, DbGoto, AtTrans, AtQuery, Brackets, Facts, Trans, TDb, threadVars,
     arrayVars, dthrVars, objVars, dbVars, Create, Destroy, Commits
<1>27. CASE QueryNotQueued
  BY <1>1, <1>2, <1>27 DEF QueryNotQueued, DbGoto, AtTrans, AtQuery, Brackets, Facts, Trans, TDb, threadVars,
     arrayVars, dthrVars, objVars, dbVars, Create, Destroy, Commits
<1>28. CASE QueriesEnd
  BY <1>1, <1>2, <1>28 DEF QueriesEnd, DbGoto, AtTrans, AtQuery, Brackets, Facts, Trans, TDb, threadVars,
     arrayVars, dthrVars, objVars, dbVars, Create, Destroy, Commits
<1> QED
  BY <1>3, <1>4, <1>5, <1>6, <1>7, <1>8, <1>9, <1>10, <1>11, <1>12, <1>13, <1>14, <1>15, <1>16, <1>17, <1>18, <1>19, <1>20, <1>21, <1>22, <1>23, <1>24, <1>25, <1>26, <1>27, <1>28
  DEF DbNext, LoopStep, DrainStep, TransStep, QueryStep

LEMMA MainCalls ==
  ASSUME OwnerInv, Calls, Executed, MainNext
  PROVE  Calls' /\ Executed'
<1> USE DEF TransPc
<1>1. Facts /\ PlaceTells /\ callbackQueue \in [Databases -> Seq(Queries)]
  BY FactsHold DEF OwnerInv, TypeOK
<1>2. UNCHANGED <<result, transactions, queries, di>>
  BY DEF MainNext, SchedCreate, CallbacksBegin, DropHandle, SchedStep, SchedPush, SchedFull,
     SchedTrigger, SchedLog, CallbackStep, CallbacksPop, CallbacksEnd, CallbackRun,
     CallbackDestroy, StopBegin, StopEnd, threadVars, arrayVars, dthrVars, objVars
<1>3. dpc' = dpc \/ (dpc = "exited" /\ dpc' = "freed")
  BY DEF MainNext, SchedCreate, CallbacksBegin, DropHandle, SchedStep, SchedPush, SchedFull,
     SchedTrigger, SchedLog, CallbackStep, CallbacksPop, CallbacksEnd, CallbackRun,
     CallbackDestroy, StopBegin, StopEnd, DbGoto, dthrVars
<1>4. /\ dpc' = "queryQueue" => result'[Query'] # "none"
      /\ dpc' = "commitQueue" => result'[Commit(Trans)'] # "none"
  BY <1>2, <1>3 DEF Executed, Query, Trans, Commit
<1>5. ASSUME NEW d \in Databases, NEW o \in Scheduled, SchedCreate(d, o)
      PROVE  Calls' /\ Executed'
  BY <1>1, <1>2, <1>4, <1>5 DEF SchedCreate, MainGoto, DbGoto, Calls, Executed, Facts, PlaceTells, threadVars,
     objVars, dbVars, mainVars, Create, Destroy
<1>6. ASSUME NEW d \in Databases, CallbacksBegin(d)
      PROVE  Calls' /\ Executed'
  BY <1>1, <1>2, <1>4, <1>6 DEF CallbacksBegin, MainGoto, DbGoto, Calls, Executed, Facts, PlaceTells, threadVars,
     objVars, dbVars, mainVars, Create, Destroy
<1>7. ASSUME NEW d \in Databases, DropHandle(d)
      PROVE  Calls' /\ Executed'
  BY <1>1, <1>2, <1>4, <1>7 DEF DropHandle, MainGoto, DbGoto, Calls, Executed, Facts, PlaceTells, threadVars,
     objVars, dbVars, mainVars, Create, Destroy
<1>8. CASE SchedPush
  BY <1>1, <1>2, <1>4, <1>8 DEF SchedPush, MainGoto, DbGoto, Calls, Executed, Facts, PlaceTells, threadVars,
     objVars, dbVars, mainVars, Create, Destroy
<1>9. CASE SchedFull
  BY <1>1, <1>2, <1>4, <1>9 DEF SchedFull, MainGoto, DbGoto, Calls, Executed, Facts, PlaceTells, threadVars,
     objVars, dbVars, mainVars, Create, Destroy
<1>10. CASE SchedTrigger
  BY <1>1, <1>2, <1>4, <1>10 DEF SchedTrigger, MainGoto, DbGoto, Calls, Executed, Facts, PlaceTells, threadVars,
     objVars, dbVars, mainVars, Create, Destroy
<1>11. CASE SchedLog
  BY <1>1, <1>2, <1>4, <1>11 DEF SchedLog, MainGoto, DbGoto, Calls, Executed, Facts, PlaceTells, threadVars,
     objVars, dbVars, mainVars, Create, Destroy
<1>12. CASE CallbacksEnd
  BY <1>1, <1>2, <1>4, <1>12 DEF CallbacksEnd, MainGoto, DbGoto, Calls, Executed, Facts, PlaceTells, threadVars,
     objVars, dbVars, mainVars, Create, Destroy
<1>13. CASE CallbackDestroy
  BY <1>1, <1>2, <1>4, <1>13 DEF CallbackDestroy, MainGoto, DbGoto, Calls, Executed, Facts, PlaceTells, threadVars,
     objVars, dbVars, mainVars, Create, Destroy
<1>14. CASE StopBegin
  BY <1>1, <1>2, <1>4, <1>14 DEF StopBegin, MainGoto, DbGoto, Calls, Executed, Facts, PlaceTells, threadVars,
     objVars, dbVars, mainVars, Create, Destroy
<1>15. CASE StopEnd
  BY <1>1, <1>2, <1>4, <1>15 DEF StopEnd, MainGoto, DbGoto, Calls, Executed, Facts, PlaceTells, threadVars,
     objVars, dbVars, mainVars, Create, Destroy
<1>16. CASE CallbacksPop
  <2>1. PICK s \in Seq(Queries) : s = callbackQueue[mdb] /\ s # <<>> /\ mdb \in Databases
    BY <1>1, <1>16 DEF CallbacksPop, MainGoto, PlaceTells
  <2>2. /\ mpc = "cbPop" /\ mpc' = "cbRun" /\ mobj' = Head(s)
        /\ callbackQueue' = [callbackQueue EXCEPT ![mdb] = Tail(s)]
        /\ UNCHANGED <<state, called>>
    BY <1>16, <2>1 DEF CallbacksPop, MainGoto, objVars
  <2>3. /\ result[s[1]] # "none" /\ Head(s) = s[1]
        /\ \A i \in 1 .. Len(Tail(s)) : result[Tail(s)[i]] # "none"
    BY <2>1 DEF Executed
  <2>4. \A d \in Databases : \A i \in 1 .. Len(callbackQueue'[d]) :
          result[callbackQueue'[d][i]] # "none"
    <3> SUFFICES ASSUME NEW d \in Databases, NEW i \in 1 .. Len(callbackQueue'[d])
                 PROVE  result[callbackQueue'[d][i]] # "none"
      OBVIOUS
    <3>1. CASE d = mdb
      <4>1. callbackQueue'[d] = Tail(s)
        BY <1>1, <2>1, <2>2, <3>1
      <4> QED
        BY <2>3, <4>1
    <3>2. CASE d # mdb
      <4>1. callbackQueue'[d] = callbackQueue[d]
        BY <1>1, <2>2, <3>2
      <4> QED
        BY <4>1 DEF Executed
    <3> QED
      BY <3>1, <3>2
  <2>5. Calls'
    BY <1>2, <2>2 DEF Calls
  <2> QED
    BY <1>2, <1>4, <2>2, <2>3, <2>4, <2>5 DEF Executed
<1>17. CASE CallbackRun
  <2>1. mpc = "cbRun" /\ mpc' = "cbDestroy" /\ mobj \in Queries /\ mobj \in Objects
    BY <1>1, <1>17 DEF CallbackRun, MainGoto, PlaceTells, Facts
  <2>2. state[mobj] = "live"
    BY <2>1, HandAlive DEF InMainHand
  <2>3. called[mobj] = 0
    BY <1>1, <2>1, <2>2 DEF Calls, Facts
  <2> QED
    BY <1>1, <1>2, <1>4, <1>17, <2>1, <2>2, <2>3 DEF CallbackRun, Calls, Executed, Facts, dbVars
<1> QED
  BY <1>5, <1>6, <1>7, <1>8, <1>9, <1>10, <1>11, <1>12, <1>13, <1>14, <1>15, <1>16, <1>17
  DEF MainNext, SchedStep, CallbackStep

LEMMA ThreadCalls ==
  ASSUME OwnerInv, Calls, Executed, DbNext
  PROVE  Calls' /\ Executed'
<1> USE DEF TransPc
<1>1. Facts /\ callbackQueue \in [Databases -> Seq(Queries)]
      /\ result \in [Queries -> {"none", "rows", "done"}]
  BY FactsHold DEF OwnerInv, TypeOK
<1>2. Commits \subseteq Queries /\ UserQueries \subseteq Queries
  BY DEF Queries
<1>3. CASE DbWait
  BY <1>1, <1>2, <1>3 DEF DbWait, DbGoto, AtTrans, AtQuery, Calls, Executed, Facts, Trans, Query,
     mainVars, threadVars, arrayVars, dthrVars, objVars, dbVars, Create, Destroy
<1>4. CASE DbWaitFails
  BY <1>1, <1>2, <1>4 DEF DbWaitFails, DbGoto, AtTrans, AtQuery, Calls, Executed, Facts, Trans, Query,
     mainVars, threadVars, arrayVars, dthrVars, objVars, dbVars, Create, Destroy
<1>5. CASE LoopAgain
  BY <1>1, <1>2, <1>5 DEF LoopAgain, DbGoto, AtTrans, AtQuery, Calls, Executed, Facts, Trans, Query,
     mainVars, threadVars, arrayVars, dthrVars, objVars, dbVars, Create, Destroy
<1>6. CASE LoopEnds
  BY <1>1, <1>2, <1>6 DEF LoopEnds, DbGoto, AtTrans, AtQuery, Calls, Executed, Facts, Trans, Query,
     mainVars, threadVars, arrayVars, dthrVars, objVars, dbVars, Create, Destroy
<1>7. CASE ShouldStop
  BY <1>1, <1>2, <1>7 DEF ShouldStop, DbGoto, AtTrans, AtQuery, Calls, Executed, Facts, Trans, Query,
     mainVars, threadVars, arrayVars, dthrVars, objVars, dbVars, Create, Destroy
<1>8. CASE DrainKeeps
  BY <1>1, <1>2, <1>8 DEF DrainKeeps, DbGoto, AtTrans, AtQuery, Calls, Executed, Facts, Trans, Query,
     mainVars, threadVars, arrayVars, dthrVars, objVars, dbVars, Create, Destroy
<1>9. CASE DrainAborts
  BY <1>1, <1>2, <1>9 DEF DrainAborts, DbGoto, AtTrans, AtQuery, Calls, Executed, Facts, Trans, Query,
     mainVars, threadVars, arrayVars, dthrVars, objVars, dbVars, Create, Destroy
<1>10. CASE DrainAgain
  BY <1>1, <1>2, <1>10 DEF DrainAgain, DbGoto, AtTrans, AtQuery, Calls, Executed, Facts, Trans, Query,
     mainVars, threadVars, arrayVars, dthrVars, objVars, dbVars, Create, Destroy
<1>11. CASE TransBeginOk
  BY <1>1, <1>2, <1>11 DEF TransBeginOk, DbGoto, AtTrans, AtQuery, Calls, Executed, Facts, Trans, Query,
     mainVars, threadVars, arrayVars, dthrVars, objVars, dbVars, Create, Destroy
<1>12. CASE TransBeginFails
  BY <1>1, <1>2, <1>12 DEF TransBeginFails, DbGoto, AtTrans, AtQuery, Calls, Executed, Facts, Trans, Query,
     mainVars, threadVars, arrayVars, dthrVars, objVars, dbVars, Create, Destroy
<1>13. CASE TransCallback
  BY <1>1, <1>2, <1>13 DEF TransCallback, DbGoto, AtTrans, AtQuery, Calls, Executed, Facts, Trans, Query,
     mainVars, threadVars, arrayVars, dthrVars, objVars, dbVars, Create, Destroy
<1>14. CASE CommitPrepared
  BY <1>1, <1>2, <1>14 DEF CommitPrepared, DbGoto, AtTrans, AtQuery, Calls, Executed, Facts, Trans, Query,
     mainVars, threadVars, arrayVars, dthrVars, objVars, dbVars, Create, Destroy
<1>15. CASE CommitNotPrepared
  BY <1>1, <1>2, <1>15 DEF CommitNotPrepared, DbGoto, AtTrans, AtQuery, Calls, Executed, Facts, Trans, Query,
     mainVars, threadVars, arrayVars, dthrVars, objVars, dbVars, Create, Destroy
<1>16. CASE CommitDone
  <2>1. Commit(Trans) \in Queries
    BY <1>1, <1>16 DEF CommitDone, DbGoto, Facts, Queries, Commits
  <2>2. result' = [result EXCEPT ![Commit(Trans)] = "done"]
    BY <1>16 DEF CommitDone
  <2>3. UNCHANGED <<callbackQueue, state, called, mpc, mobj, Trans>> /\ dpc' = "commitQueue"
    BY <1>16 DEF CommitDone, DbGoto, mainVars, threadVars, arrayVars, Trans
  <2>4. \A q \in Queries : result[q] # "none" => result'[q] # "none"
    BY <1>1, <2>2
  <2>5. \A d \in Databases : \A i \in 1 .. Len(callbackQueue[d]) : callbackQueue[d][i] \in Queries
    BY <1>1
  <2>6. Calls'
    BY <2>3, <2>4 DEF Calls
  <2>7. \A d \in Databases : \A i \in 1 .. Len(callbackQueue'[d]) :
          result'[callbackQueue'[d][i]] # "none"
    BY <2>3, <2>4, <2>5 DEF Executed
  <2>8. mpc \in {"cbRun", "cbDestroy"} => mobj \in Queries
    BY DEF OwnerInv, PlaceTells
  <2> QED
    BY <1>1, <2>1, <2>2, <2>3, <2>4, <2>6, <2>7, <2>8 DEF Executed, Commit
<1>17. CASE CommitFails
  BY <1>1, <1>2, <1>17 DEF CommitFails, DbGoto, AtTrans, AtQuery, Calls, Executed, Facts, Trans, Query,
     mainVars, threadVars, arrayVars, dthrVars, objVars, dbVars, Create, Destroy
<1>18. CASE CommitQueued
  BY <1>1, <1>2, <1>18 DEF CommitQueued, DbGoto, AtTrans, AtQuery, Calls, Executed, Facts, Trans, Query,
     mainVars, threadVars, arrayVars, dthrVars, objVars, dbVars, Create, Destroy
<1>19. CASE CommitNotQueued
  BY <1>1, <1>2, <1>19 DEF CommitNotQueued, DbGoto, AtTrans, AtQuery, Calls, Executed, Facts, Trans, Query,
     mainVars, threadVars, arrayVars, dthrVars, objVars, dbVars, Create, Destroy
<1>20. CASE TransSkip
  BY <1>1, <1>2, <1>20 DEF TransSkip, DbGoto, AtTrans, AtQuery, Calls, Executed, Facts, Trans, Query,
     mainVars, threadVars, arrayVars, dthrVars, objVars, dbVars, Create, Destroy
<1>21. CASE TransEnd
  BY <1>1, <1>2, <1>21 DEF TransEnd, DbGoto, AtTrans, AtQuery, Calls, Executed, Facts, Trans, Query,
     mainVars, threadVars, arrayVars, dthrVars, objVars, dbVars, Create, Destroy
<1>22. CASE QueryExecuted
  <2>1. Query \in Queries
    BY <1>2, <1>22, QueryAlive DEF QueryExecuted, AtQuery
  <2>2. \E r \in {"rows", "done"} : result' = [result EXCEPT ![Query] = r]
    BY <1>22 DEF QueryExecuted
  <2>3. UNCHANGED <<callbackQueue, state, called, mpc, mobj, Query>> /\ dpc' = "queryQueue"
    BY <1>22 DEF QueryExecuted, dbVars, mainVars, threadVars, arrayVars, Query
  <2>4. \A q \in Queries : result[q] # "none" => result'[q] # "none"
    BY <1>1, <2>2
  <2>5. \A d \in Databases : \A i \in 1 .. Len(callbackQueue[d]) : callbackQueue[d][i] \in Queries
    BY <1>1
  <2>6. Calls'
    BY <2>3, <2>4 DEF Calls
  <2>7. \A d \in Databases : \A i \in 1 .. Len(callbackQueue'[d]) :
          result'[callbackQueue'[d][i]] # "none"
    BY <2>3, <2>4, <2>5 DEF Executed
  <2>8. mpc \in {"cbRun", "cbDestroy"} => mobj \in Queries
    BY DEF OwnerInv, PlaceTells
  <2> QED
    BY <1>1, <2>1, <2>2, <2>3, <2>4, <2>6, <2>7, <2>8 DEF Executed
<1>23. CASE QueryBusy
  BY <1>1, <1>2, <1>23 DEF QueryBusy, DbGoto, AtTrans, AtQuery, Calls, Executed, Facts, Trans, Query,
     mainVars, threadVars, arrayVars, dthrVars, objVars, dbVars, Create, Destroy
<1>24. CASE QueryError
  BY <1>1, <1>2, <1>24 DEF QueryError, DbGoto, AtTrans, AtQuery, Calls, Executed, Facts, Trans, Query,
     mainVars, threadVars, arrayVars, dthrVars, objVars, dbVars, Create, Destroy
<1>25. CASE QueryQueued
  BY <1>1, <1>2, <1>25 DEF QueryQueued, DbGoto, AtTrans, AtQuery, Calls, Executed, Facts, Trans, Query,
     mainVars, threadVars, arrayVars, dthrVars, objVars, dbVars, Create, Destroy
<1>26. CASE QueryPop
  BY <1>1, <1>2, <1>26 DEF QueryPop, DbGoto, AtTrans, AtQuery, Calls, Executed, Facts, Trans, Query,
     mainVars, threadVars, arrayVars, dthrVars, objVars, dbVars, Create, Destroy
<1>27. CASE QueryNotQueued
  BY <1>1, <1>2, <1>27 DEF QueryNotQueued, DbGoto, AtTrans, AtQuery, Calls, Executed, Facts, Trans, Query,
     mainVars, threadVars, arrayVars, dthrVars, objVars, dbVars, Create, Destroy
<1>28. CASE QueriesEnd
  BY <1>1, <1>2, <1>28 DEF QueriesEnd, DbGoto, AtTrans, AtQuery, Calls, Executed, Facts, Trans, Query,
     mainVars, threadVars, arrayVars, dthrVars, objVars, dbVars, Create, Destroy
<1> QED
  BY <1>3, <1>4, <1>5, <1>6, <1>7, <1>8, <1>9, <1>10, <1>11, <1>12, <1>13, <1>14, <1>15, <1>16, <1>17, <1>18, <1>19, <1>20, <1>21, <1>22, <1>23, <1>24, <1>25, <1>26, <1>27, <1>28
  DEF DbNext, LoopStep, DrainStep, TransStep, QueryStep

LEMMA DbInvariant == Spec => []DbInv
<1>1. Init => BracketInv
  BY DEF Init, BracketInv, TransactionBracket, CallOnce, Executed, Objects, Queries, Scheduled
<1>2. OwnerInv /\ BracketInv /\ [Next]_vars => BracketInv'
  <2> SUFFICES ASSUME OwnerInv, BracketInv, [Next]_vars PROVE BracketInv'
    OBVIOUS
  <2>1. Brackets /\ Calls /\ Executed
    BY BracketParts
  <2>2. Brackets' /\ Calls' /\ Executed'
    <3>1. CASE Next
      BY <2>1, <3>1, MainBrackets, ThreadBrackets, MainCalls, ThreadCalls DEF Next
    <3>2. CASE UNCHANGED vars
      BY <2>1, <3>2 DEF Brackets, Calls, Executed, vars, dbVars, objVars, threadVars, arrayVars,
             mainVars, dthrVars, Trans, TDb, Query, Commit
    <3> QED
      BY <3>1, <3>2
  <2>3. (BracketInv <=> Brackets /\ Calls /\ Executed)'
    BY BracketParts, PTL
  <2> QED
    BY <2>2, <2>3
<1> QED
  BY <1>1, <1>2, OwnerInit, OwnerStep, PTL DEF Spec, DbInv

\* A connection has an open transaction only while the thread is between its BEGIN and its
\* COMMIT, unless a COMMIT of that database was lost, and no query is called back twice,
\* or before it was executed.
THEOREM CallsInTheirPlace == Spec => []TransactionBracket
<1>1. DbInv => TransactionBracket
  BY DEF DbInv, BracketInv
<1> QED
  BY <1>1, DbInvariant, PTL
=============================================================================
