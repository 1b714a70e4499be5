----------------------------- MODULE HashTblProofs -----------------------------
(***************************************************************************)
(* Theorems about the hash table: that it is in order after every call     *)
(* (TableInOrder) and that it is the map of KeyMap, whatever collides.     *)
(*                                                                         *)
(* The entries of one main position are shown to form one chain            *)
(* (InChains), on which a rank rises, so that the walks of tbl_get,        *)
(* tbl_set and tbl_remove end, and end where they should. An insertion, an *)
(* eviction and a removal keep this. So does a growth, if no entry of the  *)
(* old array has another position for tbl_realloc, which uses the mask     *)
(* 2n - 1, than for the calls that follow, which use 2n - 2, and if no     *)
(* empty entry of the old array comes to position 0 after an entry whose   *)
(* main position that is (FitsTwice): tbl_realloc places empty entries     *)
(* like others, and would link one into that chain. What a growth does is  *)
(* proved under this hypothesis; a table that does not grow needs none.    *)
(***************************************************************************)
EXTENDS HashTbl, FiniteSetTheorems, WellFoundedInduction, TLAPS

-----------------------------------------------------------------------------
(* Induction, with sets in the place of formulas *)

LEMMA SetInduction ==
  ASSUME NEW T, 0 \in T, \A n \in Nat : n \in T => n + 1 \in T
  PROVE  \A n \in Nat : n \in T
<1> SUFFICES ASSUME Nat \ T # {} PROVE FALSE
  OBVIOUS
<1> DEFINE less == OpToRel(<, Nat)
<1>1. IsWellFoundedOn(less, Nat)
  BY NatLessThanWellFounded
<1>2. \A x, y \in Nat : x < y => <<x, y>> \in less
  BY DEF OpToRel
<1> HIDE DEF less
<1>3. PICK x \in Nat \ T : \A y \in Nat \ T : ~ (<<y, x>> \in less)
  BY <1>1, WFMin
<1>4. x # 0 /\ x - 1 \in Nat /\ x - 1 < x
  BY <1>3
<1>5. x - 1 \in T
  BY <1>2, <1>3, <1>4
<1>6. (x - 1) + 1 \in T
  BY <1>4, <1>5
<1> QED
  BY <1>3, <1>6

LEMMA LeastElement ==
  ASSUME NEW S, S \subseteq Nat, S # {}
  PROVE  Min(S) \in S /\ \A y \in S : Min(S) <= y
<1> DEFINE less == OpToRel(<, Nat)
<1>1. IsWellFoundedOn(less, Nat)
  BY NatLessThanWellFounded
<1>2. \A x, y \in Nat : x < y => <<x, y>> \in less
  BY DEF OpToRel
<1> HIDE DEF less
<1>3. PICK x \in S : \A y \in S : ~ (<<y, x>> \in less)
  BY <1>1, WFMin
<1>4. ASSUME NEW y \in S PROVE x <= y
  <2>1. x \in Nat /\ y \in Nat /\ ~ (<<y, x>> \in less)
    BY <1>3
  <2> QED
    BY <1>2, <2>1
<1> QED
  BY <1>4 DEF Min

-----------------------------------------------------------------------------
(* Positions *)

\* f[b][a] is a & b
IsAnd(f, x, n) ==
  f = [b \in 0 .. n |->
        [a \in 0 .. x |-> IF b = 0 THEN 0 ELSE 2 * f[b \div 2][a \div 2] + (a % 2) * (b % 2)]]

LEMMA AndExists ==
  ASSUME NEW x \in Nat, NEW n \in Nat
  PROVE  \E f : IsAnd(f, x, n)
<1> DEFINE T == {m \in Nat : \E f : IsAnd(f, x, m)}
<1>1. 0 \in T
  <2> DEFINE f == [b \in 0 .. 0 |-> [a \in 0 .. x |-> 0]]
  <2>1. IsAnd(f, x, 0)
    BY DEF IsAnd
  <2> HIDE DEF f
  <2> QED
    BY <2>1
<1>2. ASSUME NEW m \in Nat, m \in T PROVE m + 1 \in T
  <2>1. PICK f : IsAnd(f, x, m)
    BY <1>2
  <2> DEFINE row == [a \in 0 .. x |->
                      2 * f[(m + 1) \div 2][a \div 2] + (a % 2) * ((m + 1) % 2)]
             g == [b \in 0 .. m + 1 |-> IF b = m + 1 THEN row ELSE f[b]]
  <2>2. \A b \in 0 .. m : g[b] = f[b]
    OBVIOUS
  <2>3. g[m + 1] = row
    OBVIOUS
  <2>4. \A b \in 1 .. m + 1 : b \div 2 \in 0 .. m
    OBVIOUS
  <2>5. ASSUME NEW b \in 0 .. m + 1
        PROVE  g[b] = [a \in 0 .. x |-> IF b = 0 THEN 0
                                        ELSE 2 * g[b \div 2][a \div 2] + (a % 2) * (b % 2)]
    <3>1. CASE b = m + 1
      <4>1. b # 0 /\ g[b \div 2] = f[b \div 2]
        BY <2>2, <2>4, <3>1
      <4> QED
        BY <2>3, <3>1, <4>1
    <3>2. CASE b # m + 1
      <4>1. b \in 0 .. m /\ g[b] = f[b]
        BY <2>2, <3>2
      <4>2. f[b] = [a \in 0 .. x |-> IF b = 0 THEN 0
                                     ELSE 2 * f[b \div 2][a \div 2] + (a % 2) * (b % 2)]
        BY <2>1, <4>1 DEF IsAnd
      <4>3. b # 0 => g[b \div 2] = f[b \div 2]
        BY <2>2, <4>1
      <4> HIDE DEF g
      <4> QED
        BY <4>1, <4>2, <4>3
    <3> QED
      BY <3>1, <3>2
  <2>6. IsAnd(g, x, m + 1)
    <3>1. g = [b \in 0 .. m + 1 |-> g[b]]
      OBVIOUS
    <3> HIDE DEF g
    <3> QED
      BY <2>5, <3>1 DEF IsAnd
  <2> HIDE DEF g
  <2> QED
    BY <2>6
<1> HIDE DEF T
<1>3. \A m \in Nat : m \in T
  BY <1>1, <1>2, SetInduction
<1> QED
  BY <1>3 DEF T

LEMMA AndAt ==
  ASSUME NEW x, NEW n, NEW f, IsAnd(f, x, n), NEW b \in 0 .. n, NEW a \in 0 .. x, b # 0
  PROVE  f[b][a] = 2 * f[b \div 2][a \div 2] + (a % 2) * (b % 2)
<1>1. f[b] = [e \in 0 .. x |-> IF b = 0 THEN 0
                               ELSE 2 * f[b \div 2][e \div 2] + (e % 2) * (b % 2)]
  BY Zenon DEF IsAnd
<1>2. f[b][a] = IF b = 0 THEN 0 ELSE 2 * f[b \div 2][a \div 2] + (a % 2) * (b % 2)
  BY <1>1, Zenon
<1> QED
  BY <1>2, Zenon

\* a bit of x & y is set only where one of y is
LEMMA AndWithin ==
  ASSUME NEW x \in Nat, NEW n \in Nat, NEW f, IsAnd(f, x, n)
  PROVE  \A b \in 0 .. n, a \in 0 .. x : f[b][a] \in 0 .. b
<1> DEFINE T == {m \in Nat : \A b \in 0 .. n, a \in 0 .. x : b <= m => f[b][a] \in 0 .. b}
<1>1. 0 \in T
  BY DEF IsAnd
<1>2. ASSUME NEW m \in Nat, m \in T PROVE m + 1 \in T
  <2> SUFFICES ASSUME NEW b \in 0 .. n, NEW a \in 0 .. x, b = m + 1 PROVE f[b][a] \in 0 .. b
    BY <1>2
  <2>1. PICK h, c, u, w : /\ h = b \div 2 /\ c = a \div 2 /\ u = a % 2 /\ w = b % 2
    OBVIOUS
  <2>2. /\ h \in 0 .. m /\ h \in 0 .. n /\ h <= m /\ c \in 0 .. x /\ b # 0
        /\ u \in 0 .. 1 /\ w \in 0 .. 1 /\ b = 2 * h + w
    BY <2>1
  <2>3. PICK y : y = f[h][c]
    OBVIOUS
  <2>4. y \in 0 .. h
    BY <1>2, <2>2, <2>3
  <2>5. f[b][a] = 2 * y + u * w
    <3>1. f[b][a] = 2 * f[b \div 2][a \div 2] + (a % 2) * (b % 2)
      BY <2>2, AndAt
    <3> QED
      BY <2>1, <2>3, <3>1, Zenon
  <2>6. u * w \in 0 .. w
    BY <2>2
  <2> QED
    BY <2>2, <2>4, <2>5, <2>6
<1> HIDE DEF T
<1>3. \A m \in Nat : m \in T
  BY <1>1, <1>2, SetInduction
<1>4. \A b \in 0 .. n : b \in Nat /\ b <= b
  OBVIOUS
<1> QED
  BY <1>3, <1>4 DEF T

AndAgree(f, g, m, x) == \A b \in 0 .. m, a \in 0 .. x : f[b][a] = g[b][a]

LEMMA AndUnique ==
  ASSUME NEW x \in Nat, NEW m \in Nat, NEW n \in Nat, m <= n,
         NEW f, NEW g, IsAnd(f, x, m), IsAnd(g, x, n)
  PROVE  AndAgree(f, g, m, x)
<1> DEFINE T == {k \in Nat : \A b \in 0 .. m, a \in 0 .. x : b <= k => f[b][a] = g[b][a]}
<1>1. 0 \in T
  BY DEF IsAnd
<1>2. ASSUME NEW k \in Nat, k \in T PROVE k + 1 \in T
  <2> SUFFICES ASSUME NEW b \in 0 .. m, NEW a \in 0 .. x, b = k + 1 PROVE f[b][a] = g[b][a]
    BY <1>2
  <2>1. PICK h, c, u : h = b \div 2 /\ c = a \div 2 /\ u = (a % 2) * (b % 2)
    OBVIOUS
  <2>2. h \in 0 .. m /\ h <= k /\ c \in 0 .. x /\ b \in 0 .. n /\ b # 0
    BY <2>1
  <2>3. f[h][c] = g[h][c]
    BY <1>2, <2>2
  <2>4. f[b][a] = 2 * f[h][c] + u
    <3>1. f[b][a] = 2 * f[b \div 2][a \div 2] + (a % 2) * (b % 2)
      BY <2>2, AndAt
    <3> QED
      BY <2>1, <3>1, Zenon
  <2>5. g[b][a] = 2 * g[h][c] + u
    <3>1. g[b][a] = 2 * g[b \div 2][a \div 2] + (a % 2) * (b % 2)
      BY <2>2, AndAt
    <3> QED
      BY <2>1, <3>1, Zenon
  <2> QED
    BY <2>3, <2>4, <2>5
<1> HIDE DEF T
<1>3. \A k \in Nat : k \in T
  BY <1>1, <1>2, SetInduction
<1>4. \A b \in 0 .. m : b \in Nat /\ b <= b
  OBVIOUS
<1> QED
  BY <1>3, <1>4 DEF T, AndAgree

LEMMA AndIs ==
  ASSUME NEW x \in Nat, NEW y \in Nat
  PROVE  \E f : IsAnd(f, x, y) /\ And(x, y) = f[y][x]
<1> DEFINE f == CHOOSE f : IsAnd(f, x, y)
<1>1. IsAnd(f, x, y)
  BY AndExists
<1>2. And(x, y) = f[y][x]
  BY DEF And, IsAnd
<1> HIDE DEF f
<1> QED
  BY <1>1, <1>2

LEMMA AndBound ==
  ASSUME NEW x \in Nat, NEW y \in Nat
  PROVE  And(x, y) \in 0 .. y
<1>1. PICK f : IsAnd(f, x, y) /\ And(x, y) = f[y][x]
  BY AndIs
<1> QED
  BY <1>1, AndWithin

\* an even number has the same position for a mask and the one with its last bit set
LEMMA AndOfEven ==
  ASSUME NEW x \in Nat, x % 2 = 0, NEW m \in Nat, m % 2 = 0
  PROVE  And(x, m + 1) = And(x, m)
<1>1. PICK n : n = m + 1
  OBVIOUS
<1>2. PICK f : IsAnd(f, x, m) /\ And(x, m) = f[m][x]
  BY AndIs
<1>3. PICK g : IsAnd(g, x, n) /\ And(x, n) = g[n][x]
  BY <1>1, AndIs
<1>4. PICK h, c : h = m \div 2 /\ c = x \div 2
  OBVIOUS
<1>5. /\ h \in 0 .. m /\ c \in 0 .. x /\ n \div 2 = h /\ n # 0 /\ n \in Nat /\ m <= n
      /\ x \in 0 .. x /\ n \in 0 .. n /\ m \in 0 .. m /\ (x % 2) * (n % 2) = 0 /\ (x % 2) * (m % 2) = 0
  BY <1>1, <1>4
<1>6. f[h][c] = g[h][c]
  <2>1. IsAnd(f, x, m) /\ IsAnd(g, x, n)
    BY <1>2, <1>3
  <2>2. AndAgree(f, g, m, x)
    BY ONLY x \in Nat, m \in Nat, <1>5, <2>1, AndUnique
  <2> QED
    BY ONLY <1>5, <2>2 DEF AndAgree
<1>7. g[n][x] = 2 * g[h][c] + 0
  <2>1. g[n][x] = 2 * g[n \div 2][x \div 2] + (x % 2) * (n % 2)
    BY <1>3, <1>5, AndAt
  <2> QED
    BY <1>4, <1>5, <2>1, Zenon
<1>8. m # 0 => f[m][x] = 2 * f[h][c] + 0
  <2> HAVE m # 0
  <2>1. f[m][x] = 2 * f[m \div 2][x \div 2] + (x % 2) * (m % 2)
    BY <1>2, <1>5, AndAt
  <2> QED
    BY <1>4, <1>5, <2>1, Zenon
<1>9. m = 0 => f[m][x] = 0 /\ f[h][c] = 0 /\ h = m
  BY <1>2, <1>4, <1>5 DEF IsAnd
<1> QED
  BY <1>1, <1>2, <1>3, <1>6, <1>7, <1>8, <1>9

-----------------------------------------------------------------------------
(* Chains: D is the set of the indices of an array, key and nxt are the     *)
(* keys and the links of its entries, and P the main position of each key   *)

ChainTypes(D, key, nxt) ==
  /\ D \subseteq Nat /\ Invalid \notin D
  /\ key \in [D -> Keys \cup {NoKey}]
  /\ nxt \in [D -> D \cup {Invalid}]

\* the main position of an entry's key holds an entry that is at home there
Headed(D, key, P) ==
  \A i \in D : key[i] # NoKey =>
    P[key[i]] \in D /\ key[P[key[i]]] # NoKey /\ P[key[P[key[i]]]] = P[key[i]]

\* a link is from an entry in use to one of the same main position that is not at home
Links(D, key, nxt, P) ==
  \A i \in D : nxt[i] # Invalid =>
    /\ key[i] # NoKey /\ key[nxt[i]] # NoKey
    /\ P[key[nxt[i]]] = P[key[i]] /\ nxt[i] # P[key[i]]

Apart(D, nxt) == \A i, j \in D : (nxt[i] = nxt[j] /\ nxt[i] # Invalid) => i = j

\* an entry that is not at home is linked to
Reached(D, key, nxt, P) ==
  \A i \in D : (key[i] # NoKey /\ i # P[key[i]]) => \E j \in D : nxt[j] = i

\* the links go up in a rank, so that they make no circle
RankedBy(D, nxt, b, r) ==
  /\ b \in Nat /\ r \in [D -> 0 .. b]
  /\ \A i \in D : nxt[i] # Invalid => r[i] < r[nxt[i]]

Ranked(D, nxt) == \E b, r : RankedBy(D, nxt, b, r)

Unique(D, key) == \A i, j \in D : (key[i] = key[j] /\ key[i] # NoKey) => i = j

Chained(D, key, nxt, P) ==
  /\ ChainTypes(D, key, nxt) /\ Headed(D, key, P) /\ Links(D, key, nxt, P)
  /\ Apart(D, nxt) /\ Reached(D, key, nxt, P) /\ Ranked(D, nxt) /\ Unique(D, key)

Absent(D, key, k) == \A i \in D : key[i] # k

\* a key that is set at its main position, which is empty
LEMMA SetAtHome ==
  ASSUME NEW D, NEW key, NEW nxt, NEW P, Chained(D, key, nxt, P),
         NEW k \in Keys, k # NoKey, P[k] \in D, key[P[k]] = NoKey, Absent(D, key, k),
         NEW key2, key2 = [key EXCEPT ![P[k]] = k]
  PROVE  Chained(D, key2, nxt, P)
<1>1. /\ ChainTypes(D, key, nxt) /\ Headed(D, key, P) /\ Links(D, key, nxt, P)
      /\ Apart(D, nxt) /\ Reached(D, key, nxt, P) /\ Ranked(D, nxt) /\ Unique(D, key)
  BY DEF Chained
<1>2. PICK p : p = P[k] /\ p \in D
  OBVIOUS
<1>3. /\ key2 \in [D -> Keys \cup {NoKey}] /\ key2[p] = k
      /\ \A i \in D : i # p => key2[i] = key[i]
  BY <1>1, <1>2 DEF ChainTypes
<1>4. ChainTypes(D, key2, nxt)
  BY <1>1, <1>3 DEF ChainTypes
<1>5. key[p] = NoKey
  BY <1>2
<1>6. Headed(D, key2, P)
  BY <1>1, <1>2, <1>3, <1>5 DEF Headed
<1>7. nxt[p] = Invalid
  BY <1>1, <1>2, <1>5 DEF Links
<1>8. \A i \in D : nxt[i] # p
  BY <1>1, <1>2, <1>5 DEF Links, ChainTypes
<1>9. Links(D, key2, nxt, P)
  BY <1>1, <1>2, <1>3, <1>7, <1>8 DEF Links, ChainTypes
<1>10. Reached(D, key2, nxt, P)
  BY <1>1, <1>2, <1>3 DEF Reached
<1>11. Unique(D, key2)
  BY <1>1, <1>2, <1>3 DEF Unique, Absent
<1> QED
  BY <1>1, <1>4, <1>6, <1>9, <1>10, <1>11 DEF Chained

\* a key that is set in a free entry at the end of its chain
LEMMA SetAtEnd ==
  ASSUME NEW D, NEW key, NEW nxt, NEW P, Chained(D, key, nxt, P),
         NEW k \in Keys, k # NoKey, Absent(D, key, k),
         NEW f \in D, key[f] = NoKey,
         NEW l \in D, key[l] # NoKey, nxt[l] = Invalid, P[key[l]] = P[k],
         NEW key2, key2 = [key EXCEPT ![f] = k],
         NEW nxt2, nxt2 = [nxt EXCEPT ![l] = f]
  PROVE  Chained(D, key2, nxt2, P)
<1>1. /\ ChainTypes(D, key, nxt) /\ Headed(D, key, P) /\ Links(D, key, nxt, P)
      /\ Apart(D, nxt) /\ Reached(D, key, nxt, P) /\ Ranked(D, nxt) /\ Unique(D, key)
  BY DEF Chained
<1>2. /\ key2 \in [D -> Keys \cup {NoKey}] /\ key2[f] = k
      /\ \A i \in D : i # f => key2[i] = key[i]
  BY <1>1 DEF ChainTypes
<1>3. /\ nxt2 \in [D -> D \cup {Invalid}] /\ nxt2[l] = f
      /\ \A i \in D : i # l => nxt2[i] = nxt[i]
  BY <1>1 DEF ChainTypes
<1>4. ChainTypes(D, key2, nxt2)
  BY <1>1, <1>2, <1>3 DEF ChainTypes
<1>5. nxt[f] = Invalid /\ f # l /\ f # Invalid /\ \A i \in D : nxt[i] # f
  BY <1>1 DEF Links, ChainTypes
<1>6. P[k] \in D /\ P[k] # f
  BY <1>1 DEF Headed
<1>7. Headed(D, key2, P)
  BY <1>1, <1>2, <1>6 DEF Headed
<1>8. Links(D, key2, nxt2, P)
  BY <1>1, <1>2, <1>3, <1>5, <1>6 DEF Links, ChainTypes
<1>9. Apart(D, nxt2)
  BY <1>1, <1>3, <1>5 DEF Apart
<1>10. Reached(D, key2, nxt2, P)
  <2> SUFFICES ASSUME NEW i \in D, key2[i] # NoKey, i # P[key2[i]]
               PROVE  \E j \in D : nxt2[j] = i
    BY DEF Reached
  <2>1. CASE i = f
    BY <1>3, <2>1
  <2>2. CASE i # f
    <3>1. PICK j \in D : nxt[j] = i
      BY <1>1, <1>2, <2>2 DEF Reached
    <3>2. j # l
      BY <1>1, <3>1 DEF ChainTypes
    <3> QED
      BY <1>3, <3>1, <3>2
  <2> QED
    BY <2>1, <2>2
<1>11. Ranked(D, nxt2)
  <2>1. PICK b, r : RankedBy(D, nxt, b, r)
    BY <1>1 DEF Ranked
  <2>2. PICK q : q = [r EXCEPT ![f] = b + 1]
    OBVIOUS
  <2>3. /\ q \in [D -> 0 .. b + 1] /\ q[f] = b + 1
        /\ \A i \in D : i # f => q[i] = r[i] /\ r[i] \in 0 .. b
    BY <2>1, <2>2 DEF RankedBy
  <2>4. ASSUME NEW i \in D, nxt2[i] # Invalid PROVE q[i] < q[nxt2[i]]
    <3>1. CASE i = l
      BY <1>3, <1>5, <2>1, <2>3, <3>1 DEF RankedBy
    <3>2. CASE i # l
      <4>1. i # f /\ nxt2[i] = nxt[i] /\ nxt[i] \in D /\ nxt[i] # f
        BY <1>1, <1>3, <1>5, <2>4, <3>2 DEF ChainTypes
      <4> QED
        BY <2>1, <2>3, <2>4, <4>1 DEF RankedBy
    <3> QED
      BY <3>1, <3>2
  <2>5. RankedBy(D, nxt2, b + 1, q)
    BY <2>1, <2>3, <2>4 DEF RankedBy
  <2> QED
    BY <2>5 DEF Ranked
<1>12. Unique(D, key2)
  BY <1>1, <1>2 DEF Unique, Absent
<1> QED
  BY <1>4, <1>7, <1>8, <1>9, <1>10, <1>11, <1>12 DEF Chained

Move(key, nxt, f, p, l, key2, nxt2) ==
  /\ key2 = [key EXCEPT ![f] = key[p], ![p] = NoKey]
  /\ nxt2 = [nxt EXCEPT ![f] = nxt[p], ![l] = f, ![p] = Invalid]

\* an entry that is not at home is moved to a free entry
LEMMA MoveAway ==
  ASSUME NEW D, NEW key, NEW nxt, NEW P, Chained(D, key, nxt, P),
         NEW f \in D, key[f] = NoKey,
         NEW p \in D, key[p] # NoKey, P[key[p]] # p,
         NEW l \in D, nxt[l] = p,
         NEW key2, NEW nxt2, Move(key, nxt, f, p, l, key2, nxt2)
  PROVE  Chained(D, key2, nxt2, P)
<1>1. /\ ChainTypes(D, key, nxt) /\ Headed(D, key, P) /\ Links(D, key, nxt, P)
      /\ Apart(D, nxt) /\ Reached(D, key, nxt, P) /\ Ranked(D, nxt) /\ Unique(D, key)
  BY DEF Chained
<1>2. PICK b, r : RankedBy(D, nxt, b, r)
  BY <1>1 DEF Ranked
<1>3. p # Invalid /\ f # Invalid /\ p # f
  BY <1>1 DEF ChainTypes
<1>4. nxt[f] = Invalid /\ f # l /\ key[l] # NoKey /\ P[key[p]] = P[key[l]]
      /\ \A i \in D : nxt[i] # f
  BY <1>1, <1>3 DEF Links, ChainTypes
<1>5. \A i \in D : r[i] \in Nat
  BY <1>2 DEF RankedBy
<1>6. l # p /\ nxt[p] # p
  BY <1>2, <1>3, <1>5 DEF RankedBy
<1>7. /\ key2 \in [D -> Keys \cup {NoKey}] /\ key2[f] = key[p] /\ key2[p] = NoKey
      /\ \A i \in D : i # f /\ i # p => key2[i] = key[i]
  BY <1>1, <1>3 DEF ChainTypes, Move
<1>8. /\ nxt2 \in [D -> D \cup {Invalid}]
      /\ nxt2[l] = f /\ nxt2[p] = Invalid /\ nxt2[f] = nxt[p]
      /\ \A i \in D : i # f /\ i # p /\ i # l => nxt2[i] = nxt[i]
  BY <1>1, <1>3, <1>4, <1>6 DEF ChainTypes, Move
<1>9. ChainTypes(D, key2, nxt2)
  BY <1>1, <1>7, <1>8 DEF ChainTypes
<1>10. \A i \in D : key[i] # NoKey => P[key[i]] # f /\ P[key[i]] # p
  BY <1>1 DEF Headed
<1>11. Headed(D, key2, P)
  BY <1>1, <1>7, <1>10 DEF Headed
<1>12. \A i \in D : nxt[i] = p => i = l
  BY <1>1, <1>3 DEF Apart
<1>13. Links(D, key2, nxt2, P)
  <2> SUFFICES ASSUME NEW i \in D, nxt2[i] # Invalid
               PROVE  /\ key2[i] # NoKey /\ key2[nxt2[i]] # NoKey
                      /\ P[key2[nxt2[i]]] = P[key2[i]] /\ nxt2[i] # P[key2[i]]
    BY DEF Links
  <2>1. i # p
    BY <1>8
  <2>2. CASE i = l
    BY <1>3, <1>4, <1>6, <1>7, <1>8, <1>10, <2>2
  <2>3. CASE i = f
    <3>1. nxt[p] \in D /\ nxt[p] # f /\ nxt[p] # p /\ nxt[p] # Invalid
      BY <1>1, <1>4, <1>6, <1>8, <2>3 DEF ChainTypes
    <3>2. key[nxt[p]] # NoKey /\ P[key[nxt[p]]] = P[key[p]] /\ nxt[p] # P[key[p]]
      BY <1>1, <3>1 DEF Links
    <3> QED
      BY <1>7, <1>8, <2>3, <3>1, <3>2
  <2>4. CASE i # l /\ i # f
    <3>1. nxt[i] \in D /\ nxt[i] # f /\ nxt[i] # p /\ nxt[i] # Invalid /\ nxt2[i] = nxt[i]
      BY <1>1, <1>4, <1>8, <1>12, <2>1, <2>4 DEF ChainTypes
    <3>2. key[i] # NoKey /\ key[nxt[i]] # NoKey /\ P[key[nxt[i]]] = P[key[i]] /\ nxt[i] # P[key[i]]
      BY <1>1, <3>1 DEF Links
    <3> QED
      BY <1>7, <2>1, <2>4, <3>1, <3>2
  <2> QED
    BY <2>2, <2>3, <2>4
<1>14. Apart(D, nxt2)
  BY <1>1, <1>4, <1>8 DEF Apart
<1>15. Reached(D, key2, nxt2, P)
  <2> SUFFICES ASSUME NEW i \in D, key2[i] # NoKey, i # P[key2[i]]
               PROVE  \E j \in D : nxt2[j] = i
    BY DEF Reached
  <2>1. CASE i = f
    BY <1>8, <2>1
  <2>2. CASE i # f
    <3>1. i # p /\ key2[i] = key[i]
      BY <1>7, <2>2
    <3>2. PICK j \in D : nxt[j] = i
      BY <1>1, <3>1 DEF Reached
    <3>3. j # l /\ j # f /\ i # Invalid
      BY <1>1, <1>4, <3>1, <3>2 DEF ChainTypes
    <3> QED
      BY <1>8, <3>2, <3>3
  <2> QED
    BY <2>1, <2>2
<1>16. Ranked(D, nxt2)
  <2>1. PICK q : q = [r EXCEPT ![f] = r[p]]
    OBVIOUS
  <2>2. /\ q \in [D -> 0 .. b] /\ q[f] = r[p]
        /\ \A i \in D : i # f => q[i] = r[i]
    BY <1>2, <2>1 DEF RankedBy
  <2>3. ASSUME NEW i \in D, nxt2[i] # Invalid PROVE q[i] < q[nxt2[i]]
    <3>1. CASE i = l
      BY <1>2, <1>3, <1>4, <1>8, <2>2, <3>1 DEF RankedBy
    <3>2. CASE i = f
      <4>1. nxt[p] \in D /\ nxt[p] # f /\ nxt[p] # Invalid /\ nxt2[i] = nxt[p]
        BY <1>1, <1>4, <1>8, <2>3, <3>2 DEF ChainTypes
      <4> QED
        BY <1>2, <2>2, <3>2, <4>1 DEF RankedBy
    <3>3. CASE i # l /\ i # f
      <4>1. i # p
        BY <1>8, <2>3
      <4>2. nxt[i] \in D /\ nxt[i] # f /\ nxt[i] # Invalid /\ nxt2[i] = nxt[i]
        BY <1>1, <1>4, <1>8, <2>3, <3>3, <4>1 DEF ChainTypes
      <4> QED
        BY <1>2, <2>2, <3>3, <4>2 DEF RankedBy
    <3> QED
      BY <3>1, <3>2, <3>3
  <2>4. RankedBy(D, nxt2, b, q)
    BY <1>2, <2>2, <2>3 DEF RankedBy
  <2> QED
    BY <2>4 DEF Ranked
<1>17. Unique(D, key2)
  BY <1>1, <1>7 DEF Unique
<1> QED
  BY <1>9, <1>11, <1>13, <1>14, <1>15, <1>16, <1>17 DEF Chained

\* an entry that is linked to is taken out of its chain
LEMMA Unlinked ==
  ASSUME NEW D, NEW key, NEW nxt, NEW P, Chained(D, key, nxt, P),
         NEW c \in D, NEW l \in D, nxt[l] = c,
         NEW key2, key2 = [key EXCEPT ![c] = NoKey],
         NEW nxt2, nxt2 = [nxt EXCEPT ![l] = nxt[c], ![c] = Invalid]
  PROVE  Chained(D, key2, nxt2, P)
<1>1. /\ ChainTypes(D, key, nxt) /\ Headed(D, key, P) /\ Links(D, key, nxt, P)
      /\ Apart(D, nxt) /\ Reached(D, key, nxt, P) /\ Ranked(D, nxt) /\ Unique(D, key)
  BY DEF Chained
<1>2. PICK b, r : RankedBy(D, nxt, b, r)
  BY <1>1 DEF Ranked
<1>3. c # Invalid /\ l # Invalid
  BY <1>1 DEF ChainTypes
<1>4. key[c] # NoKey /\ key[l] # NoKey /\ P[key[c]] = P[key[l]] /\ P[key[c]] # c
  BY <1>1, <1>3 DEF Links
<1>5. \A i \in D : r[i] \in Nat
  BY <1>2 DEF RankedBy
<1>6. l # c /\ nxt[c] # c
  BY <1>2, <1>3, <1>5 DEF RankedBy
<1>7. /\ key2 \in [D -> Keys \cup {NoKey}] /\ key2[c] = NoKey
      /\ \A i \in D : i # c => key2[i] = key[i]
  BY <1>1 DEF ChainTypes
<1>8. /\ nxt2 \in [D -> D \cup {Invalid}] /\ nxt2[l] = nxt[c] /\ nxt2[c] = Invalid
      /\ \A i \in D : i # c /\ i # l => nxt2[i] = nxt[i]
  BY <1>1, <1>6 DEF ChainTypes
<1>9. ChainTypes(D, key2, nxt2)
  BY <1>1, <1>7, <1>8 DEF ChainTypes
<1>10. \A i \in D : key[i] # NoKey => P[key[i]] # c
  BY <1>1, <1>4 DEF Headed
<1>11. Headed(D, key2, P)
  BY <1>1, <1>7, <1>10 DEF Headed
<1>12. \A i \in D : nxt[i] = c => i = l
  BY <1>1, <1>3 DEF Apart
<1>13. Links(D, key2, nxt2, P)
  <2> SUFFICES ASSUME NEW i \in D, nxt2[i] # Invalid
               PROVE  /\ key2[i] # NoKey /\ key2[nxt2[i]] # NoKey
                      /\ P[key2[nxt2[i]]] = P[key2[i]] /\ nxt2[i] # P[key2[i]]
    BY DEF Links
  <2>1. i # c
    BY <1>8
  <2>2. CASE i = l
    <3>1. nxt[c] \in D /\ nxt[c] # c /\ nxt[c] # Invalid /\ nxt2[i] = nxt[c]
      BY <1>1, <1>6, <1>8, <2>2 DEF ChainTypes
    <3>2. key[nxt[c]] # NoKey /\ P[key[nxt[c]]] = P[key[c]] /\ nxt[c] # P[key[c]]
      BY <1>1, <3>1 DEF Links
    <3> QED
      BY <1>4, <1>6, <1>7, <2>2, <3>1, <3>2
  <2>3. CASE i # l
    <3>1. nxt[i] \in D /\ nxt[i] # c /\ nxt[i] # Invalid /\ nxt2[i] = nxt[i]
      BY <1>1, <1>8, <1>12, <2>1, <2>3 DEF ChainTypes
    <3>2. key[i] # NoKey /\ key[nxt[i]] # NoKey /\ P[key[nxt[i]]] = P[key[i]] /\ nxt[i] # P[key[i]]
      BY <1>1, <3>1 DEF Links
    <3> QED
      BY <1>7, <2>1, <3>1, <3>2
  <2> QED
    BY <2>2, <2>3
<1>14. Apart(D, nxt2)
  BY <1>1, <1>8 DEF Apart
<1>15. Reached(D, key2, nxt2, P)
  <2> SUFFICES ASSUME NEW i \in D, key2[i] # NoKey, i # P[key2[i]]
               PROVE  \E j \in D : nxt2[j] = i
    BY DEF Reached
  <2>1. i # c /\ key2[i] = key[i]
    BY <1>7
  <2>2. PICK j \in D : nxt[j] = i
    BY <1>1, <2>1 DEF Reached
  <2>3. CASE j = c
    BY <1>8, <2>2, <2>3
  <2>4. CASE j # c
    BY <1>8, <2>1, <2>2, <2>4
  <2> QED
    BY <2>3, <2>4
<1>16. Ranked(D, nxt2)
  <2>1. ASSUME NEW i \in D, nxt2[i] # Invalid PROVE r[i] < r[nxt2[i]]
    <3>1. CASE i = l
      <4>1. nxt[c] \in D /\ nxt[c] # Invalid /\ nxt2[i] = nxt[c]
        BY <1>1, <1>8, <2>1, <3>1 DEF ChainTypes
      <4>2. r[l] < r[c] /\ r[c] < r[nxt[c]] /\ r[l] \in Nat /\ r[c] \in Nat /\ r[nxt[c]] \in Nat
        BY <1>2, <1>3, <1>5, <4>1 DEF RankedBy
      <4> QED
        BY <3>1, <4>1, <4>2
    <3>2. CASE i # l
      <4>1. nxt[i] # Invalid /\ nxt2[i] = nxt[i]
        BY <1>8, <2>1, <3>2
      <4> QED
        BY <1>2, <4>1 DEF RankedBy
    <3> QED
      BY <3>1, <3>2
  <2>2. RankedBy(D, nxt2, b, r)
    BY <1>2, <2>1 DEF RankedBy
  <2> QED
    BY <2>2 DEF Ranked
<1>17. Unique(D, key2)
  BY <1>1, <1>7 DEF Unique
<1> QED
  BY <1>9, <1>11, <1>13, <1>14, <1>15, <1>16, <1>17 DEF Chained

\* the second entry of a chain takes the place of the first
LEMMA SecondMovedUp ==
  ASSUME NEW D, NEW key, NEW nxt, NEW P, Chained(D, key, nxt, P),
         NEW p \in D, key[p] # NoKey, P[key[p]] = p,
         NEW s \in D, nxt[p] = s,
         NEW key2, key2 = [key EXCEPT ![p] = key[s], ![s] = NoKey],
         NEW nxt2, nxt2 = [nxt EXCEPT ![p] = nxt[s], ![s] = Invalid]
  PROVE  Chained(D, key2, nxt2, P)
<1>1. /\ ChainTypes(D, key, nxt) /\ Headed(D, key, P) /\ Links(D, key, nxt, P)
      /\ Apart(D, nxt) /\ Reached(D, key, nxt, P) /\ Ranked(D, nxt) /\ Unique(D, key)
  BY DEF Chained
<1>2. PICK b, r : RankedBy(D, nxt, b, r)
  BY <1>1 DEF Ranked
<1>3. p # Invalid /\ s # Invalid
  BY <1>1 DEF ChainTypes
<1>4. key[s] # NoKey /\ P[key[s]] = p /\ s # p
  BY <1>1, <1>3 DEF Links
<1>5. \A i \in D : r[i] \in Nat
  BY <1>2 DEF RankedBy
<1>6. nxt[s] # s
  BY <1>2, <1>3, <1>5 DEF RankedBy
<1>7. /\ key2 \in [D -> Keys \cup {NoKey}] /\ key2[s] = NoKey /\ key2[p] = key[s]
      /\ \A i \in D : i # s /\ i # p => key2[i] = key[i]
  BY <1>1, <1>4 DEF ChainTypes
<1>8. /\ nxt2 \in [D -> D \cup {Invalid}] /\ nxt2[p] = nxt[s] /\ nxt2[s] = Invalid
      /\ \A i \in D : i # s /\ i # p => nxt2[i] = nxt[i]
  BY <1>1, <1>4 DEF ChainTypes
<1>9. ChainTypes(D, key2, nxt2)
  BY <1>1, <1>7, <1>8 DEF ChainTypes
<1>10. \A i \in D : key[i] # NoKey => P[key[i]] # s
  BY <1>1, <1>4 DEF Headed
<1>11. Headed(D, key2, P)
  BY <1>1, <1>4, <1>7, <1>10 DEF Headed
<1>12. \A i \in D : nxt[i] = s => i = p
  BY <1>1, <1>3 DEF Apart
<1>13. \A i \in D : nxt[i] # p
  <2> SUFFICES ASSUME NEW i \in D, nxt[i] = p PROVE FALSE
    OBVIOUS
  <2>1. P[key[p]] = P[key[i]] /\ p # P[key[i]]
    BY <1>1, <1>3 DEF Links
  <2> QED
    BY <2>1
<1>14. Links(D, key2, nxt2, P)
  <2> SUFFICES ASSUME NEW i \in D, nxt2[i] # Invalid
               PROVE  /\ key2[i] # NoKey /\ key2[nxt2[i]] # NoKey
                      /\ P[key2[nxt2[i]]] = P[key2[i]] /\ nxt2[i] # P[key2[i]]
    BY DEF Links
  <2>1. i # s
    BY <1>8
  <2>2. CASE i = p
    <3>1. nxt[s] \in D /\ nxt[s] # s /\ nxt[s] # p /\ nxt[s] # Invalid /\ nxt2[i] = nxt[s]
      BY <1>1, <1>6, <1>8, <1>13, <2>2 DEF ChainTypes
    <3>2. key[nxt[s]] # NoKey /\ P[key[nxt[s]]] = P[key[s]] /\ nxt[s] # P[key[s]]
      BY <1>1, <3>1 DEF Links
    <3> QED
      BY <1>4, <1>7, <2>2, <3>1, <3>2
  <2>3. CASE i # p
    <3>1. nxt[i] \in D /\ nxt[i] # s /\ nxt[i] # p /\ nxt[i] # Invalid /\ nxt2[i] = nxt[i]
      BY <1>1, <1>8, <1>12, <1>13, <2>1, <2>3 DEF ChainTypes
    <3>2. key[i] # NoKey /\ key[nxt[i]] # NoKey /\ P[key[nxt[i]]] = P[key[i]] /\ nxt[i] # P[key[i]]
      BY <1>1, <3>1 DEF Links
    <3> QED
      BY <1>7, <2>1, <2>3, <3>1, <3>2
  <2> QED
    BY <2>2, <2>3
<1>15. Apart(D, nxt2)
  BY <1>1, <1>8 DEF Apart
<1>16. Reached(D, key2, nxt2, P)
  <2> SUFFICES ASSUME NEW i \in D, key2[i] # NoKey, i # P[key2[i]]
               PROVE  \E j \in D : nxt2[j] = i
    BY DEF Reached
  <2>1. i # s /\ i # p /\ key2[i] = key[i]
    BY <1>4, <1>7
  <2>2. PICK j \in D : nxt[j] = i
    BY <1>1, <2>1 DEF Reached
  <2>3. CASE j = s
    BY <1>8, <2>2, <2>3
  <2>4. CASE j # s
    BY <1>8, <2>1, <2>2, <2>4
  <2> QED
    BY <2>3, <2>4
<1>17. Ranked(D, nxt2)
  <2>1. ASSUME NEW i \in D, nxt2[i] # Invalid PROVE r[i] < r[nxt2[i]]
    <3>1. CASE i = p
      <4>1. nxt[s] \in D /\ nxt[s] # Invalid /\ nxt2[i] = nxt[s]
        BY <1>1, <1>8, <2>1, <3>1 DEF ChainTypes
      <4>2. r[p] < r[s] /\ r[s] < r[nxt[s]] /\ r[p] \in Nat /\ r[s] \in Nat /\ r[nxt[s]] \in Nat
        BY <1>2, <1>3, <1>5, <4>1 DEF RankedBy
      <4> QED
        BY <3>1, <4>1, <4>2
    <3>2. CASE i # p
      <4>1. nxt[i] # Invalid /\ nxt2[i] = nxt[i]
        BY <1>8, <2>1, <3>2
      <4> QED
        BY <1>2, <4>1 DEF RankedBy
    <3> QED
      BY <3>1, <3>2
  <2>2. RankedBy(D, nxt2, b, r)
    BY <1>2, <2>1 DEF RankedBy
  <2> QED
    BY <2>2 DEF Ranked
<1>18. Unique(D, key2)
  BY <1>1, <1>4, <1>7 DEF Unique
<1> QED
  BY <1>9, <1>11, <1>14, <1>15, <1>16, <1>17, <1>18 DEF Chained

\* entries of one main position that hold their predecessors hold the first of the chain
LEMMA HeadWithin ==
  ASSUME NEW D, NEW key, NEW nxt, NEW P, Chained(D, key, nxt, P), NEW p,
         NEW S, S \subseteq D, S # {},
         \A i \in S : key[i] # NoKey /\ P[key[i]] = p,
         \A i \in S, j \in D : nxt[j] = i => j \in S
  PROVE  p \in S
<1>1. Reached(D, key, nxt, P) /\ Ranked(D, nxt) /\ ChainTypes(D, key, nxt)
  BY DEF Chained
<1>2. PICK b, r : RankedBy(D, nxt, b, r)
  BY <1>1 DEF Ranked
<1> DEFINE R == {r[i] : i \in S}
<1>3. R \subseteq Nat /\ R # {}
  BY <1>2 DEF RankedBy
<1> HIDE DEF R
<1>4. Min(R) \in R /\ \A y \in R : Min(R) <= y
  BY <1>3, LeastElement
<1>5. PICK i \in S : \A j \in S : r[i] <= r[j]
  BY <1>4 DEF R
<1>6. CASE i = p
  BY <1>6
<1>7. CASE i # p
  <2>1. PICK j \in D : nxt[j] = i
    BY <1>1, <1>7 DEF Reached
  <2>2. j \in S /\ i # Invalid
    BY <1>1, <2>1 DEF ChainTypes
  <2>3. r[j] < r[i] /\ r[j] \in Nat /\ r[i] \in Nat
    BY <1>2, <2>1, <2>2 DEF RankedBy
  <2>4. r[i] <= r[j]
    BY <1>5, <2>2
  <2> QED
    BY <2>3, <2>4
<1> QED
  BY <1>6, <1>7

\* an entry that is alone in its chain is emptied
LEMMA LastRemoved ==
  ASSUME NEW D, NEW key, NEW nxt, NEW P, Chained(D, key, nxt, P),
         NEW p \in D, key[p] # NoKey, P[key[p]] = p, nxt[p] = Invalid,
         NEW key2, key2 = [key EXCEPT ![p] = NoKey]
  PROVE  Chained(D, key2, nxt, P)
<1>1. /\ ChainTypes(D, key, nxt) /\ Headed(D, key, P) /\ Links(D, key, nxt, P)
      /\ Apart(D, nxt) /\ Reached(D, key, nxt, P) /\ Ranked(D, nxt) /\ Unique(D, key)
  BY DEF Chained
<1>2. /\ key2 \in [D -> Keys \cup {NoKey}] /\ key2[p] = NoKey
      /\ \A i \in D : i # p => key2[i] = key[i]
  BY <1>1 DEF ChainTypes
<1>3. ChainTypes(D, key2, nxt)
  BY <1>1, <1>2 DEF ChainTypes
<1>4. PICK S : S = {i \in D : key[i] # NoKey /\ P[key[i]] = p /\ i # p}
  OBVIOUS
<1>5. \A i \in S, j \in D : nxt[j] = i => j \in S
  <2> SUFFICES ASSUME NEW i \in S, NEW j \in D, nxt[j] = i PROVE j \in S
    OBVIOUS
  <2>1. i \in D /\ i # Invalid /\ P[key[i]] = p
    BY <1>1, <1>4 DEF ChainTypes
  <2>2. key[j] # NoKey /\ P[key[j]] = P[key[i]] /\ j # p
    BY <1>1, <2>1 DEF Links
  <2> QED
    BY <1>4, <2>1, <2>2
<1>6. S = {}
  <2> SUFFICES ASSUME S # {} PROVE FALSE
    OBVIOUS
  <2>1. p \in S
    BY <1>4, <1>5, HeadWithin
  <2> QED
    BY <1>4, <2>1
<1>7. \A i \in D : key[i] # NoKey /\ i # p => P[key[i]] # p
  BY <1>4, <1>6
<1>8. Headed(D, key2, P)
  BY <1>1, <1>2, <1>7 DEF Headed
<1>9. \A i \in D : nxt[i] # p
  <2> SUFFICES ASSUME NEW i \in D, nxt[i] = p PROVE FALSE
    OBVIOUS
  <2>1. P[key[p]] = P[key[i]] /\ p # P[key[i]]
    BY <1>1 DEF Links, ChainTypes
  <2> QED
    BY <2>1
<1>10. Links(D, key2, nxt, P)
  BY <1>1, <1>2, <1>9 DEF Links, ChainTypes
<1>11. Reached(D, key2, nxt, P)
  BY <1>1, <1>2 DEF Reached
<1>12. Unique(D, key2)
  BY <1>1, <1>2 DEF Unique
<1> QED
  BY <1>1, <1>3, <1>8, <1>10, <1>11, <1>12 DEF Chained

-----------------------------------------------------------------------------
(* Walks: from an entry outside T a walk goes on to its link, from one in T *)
(* it ends with what B says                                                 *)

IsWalk(f, D, T, B, nxt) == f = [j \in D |-> IF j \in T THEN B[j] ELSE f[nxt[j]]]

Climbs(D, T, nxt, b, r) ==
  /\ b \in Nat /\ r \in [D -> 0 .. b]
  /\ \A j \in D : j \notin T => nxt[j] \in D /\ r[j] < r[nxt[j]]

LEMMA WalkExists ==
  ASSUME NEW D, NEW T, NEW B, NEW nxt, NEW b, NEW r, Climbs(D, T, nxt, b, r)
  PROVE  \E f : IsWalk(f, D, T, B, nxt)
<1> DEFINE Above(f, m) ==
             /\ f = [j \in D |-> f[j]]
             /\ \A j \in D : r[j] + m >= b => f[j] = IF j \in T THEN B[j] ELSE f[nxt[j]]
           W == {m \in Nat : \E f : Above(f, m)}
<1>1. b \in Nat /\ \A j \in D : r[j] \in 0 .. b
  BY DEF Climbs
<1>2. 0 \in W
  <2> DEFINE f == [j \in D |-> B[j]]
  <2>1. \A j \in D : r[j] + 0 >= b => j \in T
    BY <1>1 DEF Climbs
  <2>2. Above(f, 0)
    BY <2>1
  <2> HIDE DEF f
  <2> QED
    BY <2>2
<1>3. ASSUME NEW m \in Nat, m \in W PROVE m + 1 \in W
  <2>1. PICK f : Above(f, m)
    BY <1>3
  <2> DEFINE g == [j \in D |-> IF r[j] + (m + 1) = b /\ j \notin T THEN f[nxt[j]]
                               ELSE IF r[j] + (m + 1) = b THEN B[j] ELSE f[j]]
  <2>2. \A j \in D : r[j] + (m + 1) # b => g[j] = f[j]
    OBVIOUS
  <2>3. g = [j \in D |-> g[j]]
    OBVIOUS
  <2>4. ASSUME NEW j \in D, r[j] + (m + 1) >= b
        PROVE  g[j] = IF j \in T THEN B[j] ELSE g[nxt[j]]
    <3>1. CASE j \in T
      <4>1. r[j] + (m + 1) # b => g[j] = f[j] /\ f[j] = B[j]
        BY <1>1, <2>1, <2>2, <2>4, <3>1
      <4> QED
        BY <3>1, <4>1
    <3>2. CASE j \notin T
      <4>1. nxt[j] \in D /\ r[nxt[j]] + (m + 1) # b
        BY <1>1, <2>4, <3>2 DEF Climbs
      <4>2. g[nxt[j]] = f[nxt[j]]
        BY <2>2, <4>1
      <4>3. r[j] + (m + 1) # b => g[j] = f[j] /\ f[j] = f[nxt[j]]
        BY <1>1, <2>1, <2>2, <2>4, <3>2
      <4>4. r[j] + (m + 1) = b => g[j] = f[nxt[j]]
        BY <3>2
      <4> HIDE DEF g
      <4> QED
        BY <3>2, <4>2, <4>3, <4>4
    <3> QED
      BY <3>1, <3>2
  <2> HIDE DEF g
  <2>5. Above(g, m + 1)
    BY <2>3, <2>4
  <2> QED
    BY <2>5
<1>4. \A m \in Nat : m \in W
  <2> HIDE DEF W
  <2> QED
    BY <1>2, <1>3, SetInduction
<1>5. PICK f : Above(f, b)
  BY <1>1, <1>4
<1>6. \A j \in D : f[j] = IF j \in T THEN B[j] ELSE f[nxt[j]]
  BY <1>1, <1>5
<1>7. IsWalk(f, D, T, B, nxt)
  BY <1>5, <1>6 DEF IsWalk
<1> QED
  BY <1>7

LEMMA WalkAt ==
  ASSUME NEW D, NEW T, NEW B, NEW nxt, NEW f, IsWalk(f, D, T, B, nxt), NEW j \in D
  PROVE  f[j] = IF j \in T THEN B[j] ELSE f[nxt[j]]
<1>1. [i \in D |-> IF i \in T THEN B[i] ELSE f[nxt[i]]][j] = IF j \in T THEN B[j] ELSE f[nxt[j]]
  BY Zenon
<1> QED
  BY <1>1, Zenon DEF IsWalk

LeadsInto(D, T, B, nxt, G, R) ==
  /\ G \subseteq D
  /\ \A j \in G : j \in T => B[j] \in R
  /\ \A j \in G : j \notin T => nxt[j] \in G

\* a walk in G ends in R
LEMMA WalkInto ==
  ASSUME NEW D, NEW T, NEW B, NEW nxt, NEW b, NEW r, Climbs(D, T, nxt, b, r),
         NEW f, IsWalk(f, D, T, B, nxt),
         NEW G, NEW R, LeadsInto(D, T, B, nxt, G, R)
  PROVE  \A j \in G : f[j] \in R
<1> DEFINE W == {m \in Nat : \A j \in G : r[j] + m >= b => f[j] \in R}
<1>1. b \in Nat /\ \A j \in D : r[j] \in 0 .. b
  BY DEF Climbs
<1>2. 0 \in W
  <2>1. \A j \in G : r[j] + 0 >= b => j \in T
    BY <1>1 DEF Climbs, LeadsInto
  <2>2. \A j \in G : j \in T => f[j] = B[j]
    BY WalkAt DEF LeadsInto
  <2> QED
    BY <2>1, <2>2 DEF LeadsInto
<1>3. ASSUME NEW m \in Nat, m \in W PROVE m + 1 \in W
  <2> SUFFICES ASSUME NEW j \in G, r[j] + (m + 1) >= b PROVE f[j] \in R
    OBVIOUS
  <2>1. CASE j \in T
    <3>1. f[j] = B[j]
      BY <2>1, WalkAt DEF LeadsInto
    <3> QED
      BY <2>1, <3>1 DEF LeadsInto
  <2>2. CASE j \notin T
    <3>1. f[j] = f[nxt[j]] /\ nxt[j] \in G
      BY <2>2, WalkAt DEF LeadsInto
    <3>2. r[nxt[j]] + m >= b
      BY <1>1, <2>2 DEF Climbs, LeadsInto
    <3> QED
      BY <1>3, <3>1, <3>2
  <2> QED
    BY <2>1, <2>2
<1>4. \A m \in Nat : m \in W
  <2> HIDE DEF W
  <2> QED
    BY <1>2, <1>3, SetInduction
<1>5. \A j \in G : r[j] + b >= b
  BY <1>1 DEF LeadsInto
<1> QED
  BY <1>1, <1>4, <1>5

KeysOf(d) == [i \in DOMAIN d |-> d[i].key]
LinksOf(d) == [i \in DOMAIN d |-> d[i].next]

\* the entries of the main position p
ChainOf(D, key, P, p) == {i \in D : key[i] # NoKey /\ P[key[i]] = p}

\* where the walks of d end, and with what
LastEnds(d, T, B) ==
  T = {j \in DOMAIN d : d[j].next = Invalid} /\ B = [j \in DOMAIN d |-> j]
PrevEnds(d, p, T, B) ==
  T = {j \in DOMAIN d : d[j].next \in {p, Invalid}} /\ B = [j \in DOMAIN d |-> j]
FirstEnds(d, S, T, B) ==
  /\ T = S \cup {j \in DOMAIN d : d[j].next = Invalid}
  /\ B = [j \in DOMAIN d |-> IF j \in S THEN j ELSE Invalid]
KeyEnds(d, k, S, T, B) == S = {j \in DOMAIN d : d[j].key = k} /\ FirstEnds(d, S, T, B)
HashEnds(d, k, S, T, B) ==
  /\ S = {j \in DOMAIN d : Hash(d[j].key) = Hash(k) /\ IsStr(d[j].key) = IsStr(k)}
  /\ FirstEnds(d, S, T, B)

LEMMA LastIs ==
  ASSUME NEW d, NEW i, NEW b, NEW r, NEW T, NEW B,
         LastEnds(d, T, B), Climbs(DOMAIN d, T, LinksOf(d), b, r)
  PROVE  \E f : /\ IsWalk(f, DOMAIN d, T, B, LinksOf(d))
                /\ LastOf(d, i) = f[i]
<1> DEFINE Is(f) == f = [j \in DOMAIN d |-> IF d[j].next = Invalid THEN j ELSE f[d[j].next]]
           last == CHOOSE f : Is(f)
<1>1. PICK f : IsWalk(f, DOMAIN d, T, B, LinksOf(d))
  BY WalkExists
<1>2. Is(f)
  BY <1>1 DEF IsWalk, LinksOf, LastEnds
<1>3. Is(last)
  BY <1>2, Zenon
<1>4. LastOf(d, i) = last[i]
  BY DEF LastOf
<1> HIDE DEF last
<1>5. IsWalk(last, DOMAIN d, T, B, LinksOf(d))
  BY <1>3 DEF IsWalk, LinksOf, LastEnds
<1> QED
  BY <1>4, <1>5

LEMMA PrevIs ==
  ASSUME NEW d, NEW i, NEW p, NEW b, NEW r, NEW T, NEW B,
         PrevEnds(d, p, T, B), Climbs(DOMAIN d, T, LinksOf(d), b, r)
  PROVE  \E f : /\ IsWalk(f, DOMAIN d, T, B, LinksOf(d))
                /\ PrevOf(d, i, p) = f[i]
<1> DEFINE Is(f) == f = [j \in DOMAIN d |-> IF d[j].next \in {p, Invalid} THEN j ELSE f[d[j].next]]
           prev == CHOOSE f : Is(f)
<1>1. PICK f : IsWalk(f, DOMAIN d, T, B, LinksOf(d))
  BY WalkExists
<1>2. Is(f)
  BY <1>1 DEF IsWalk, LinksOf, PrevEnds
<1>3. Is(prev)
  BY <1>2, Zenon
<1>4. PrevOf(d, i, p) = prev[i]
  BY DEF PrevOf
<1> HIDE DEF prev
<1>5. IsWalk(prev, DOMAIN d, T, B, LinksOf(d))
  BY <1>3 DEF IsWalk, LinksOf, PrevEnds
<1> QED
  BY <1>4, <1>5

\* FirstOf with the two tests that the calls use
FirstKey(d, i, k) == FirstOf(d, i, LAMBDA e : e.key = k)
FirstHash(d, i, k) ==
  FirstOf(d, i, LAMBDA e : Hash(e.key) = Hash(k) /\ IsStr(e.key) = IsStr(k))

LEMMA FirstKeyIs ==
  ASSUME NEW d, NEW i, NEW k, NEW b, NEW r, NEW S, NEW T, NEW B,
         KeyEnds(d, k, S, T, B), Climbs(DOMAIN d, T, LinksOf(d), b, r)
  PROVE  \E f : /\ IsWalk(f, DOMAIN d, T, B, LinksOf(d))
                /\ FirstKey(d, i, k) = f[i]
<1> DEFINE Is(f) == f = [j \in DOMAIN d |->
                          IF d[j].key = k THEN j
                          ELSE IF d[j].next = Invalid THEN Invalid ELSE f[d[j].next]]
           first == CHOOSE f : Is(f)
<1>1. PICK f : IsWalk(f, DOMAIN d, T, B, LinksOf(d))
  BY WalkExists
<1>2. Is(f)
  BY <1>1 DEF IsWalk, LinksOf, KeyEnds, FirstEnds
<1>3. Is(first)
  BY <1>2, Zenon
<1>4. FirstKey(d, i, k) = first[i]
  BY DEF FirstKey, FirstOf
<1> HIDE DEF first
<1>5. IsWalk(first, DOMAIN d, T, B, LinksOf(d))
  BY <1>3 DEF IsWalk, LinksOf, KeyEnds, FirstEnds
<1> QED
  BY <1>4, <1>5

LEMMA FirstHashIs ==
  ASSUME NEW d, NEW i, NEW k, NEW b, NEW r, NEW S, NEW T, NEW B,
         HashEnds(d, k, S, T, B), Climbs(DOMAIN d, T, LinksOf(d), b, r)
  PROVE  \E f : /\ IsWalk(f, DOMAIN d, T, B, LinksOf(d))
                /\ FirstHash(d, i, k) = f[i]
<1> DEFINE Is(f) == f = [j \in DOMAIN d |->
                          IF Hash(d[j].key) = Hash(k) /\ IsStr(d[j].key) = IsStr(k) THEN j
                          ELSE IF d[j].next = Invalid THEN Invalid ELSE f[d[j].next]]
           first == CHOOSE f : Is(f)
<1>1. PICK f : IsWalk(f, DOMAIN d, T, B, LinksOf(d))
  BY WalkExists
<1>2. Is(f)
  BY <1>1 DEF IsWalk, LinksOf, HashEnds, FirstEnds
<1>3. Is(first)
  BY <1>2, Zenon
<1>4. FirstHash(d, i, k) = first[i]
  BY DEF FirstHash, FirstOf
<1> HIDE DEF first
<1>5. IsWalk(first, DOMAIN d, T, B, LinksOf(d))
  BY <1>3 DEF IsWalk, LinksOf, HashEnds, FirstEnds
<1> QED
  BY <1>4, <1>5

\* a walk for an entry of S finds one in the chain, unless there is none
LEMMA WalkFinds ==
  ASSUME NEW D, NEW key, NEW nxt, NEW P, Chained(D, key, nxt, P),
         NEW p, NEW C, C = ChainOf(D, key, P, p), p \in C,
         NEW b, NEW r, RankedBy(D, nxt, b, r),
         NEW S, NEW T, T = S \cup {j \in D : nxt[j] = Invalid},
         Climbs(D, T, nxt, b, r),
         NEW f, IsWalk(f, D, T, [j \in D |-> IF j \in S THEN j ELSE Invalid], nxt)
  PROVE  /\ f[p] = Invalid \/ f[p] \in S \cap C
         /\ f[p] = Invalid => S \cap C = {}
<1>1. ChainTypes(D, key, nxt) /\ Links(D, key, nxt, P)
  BY DEF Chained
<1>2. C \subseteq D
  BY DEF ChainOf
<1>3. PICK B : B = [j \in D |-> IF j \in S THEN j ELSE Invalid]
  OBVIOUS
<1>4. PICK R : R = {Invalid} \cup (S \cap C)
  OBVIOUS
<1>5. \A j \in C : j \in T => B[j] \in R
  BY <1>2, <1>3, <1>4
<1>6. \A j \in C : j \notin T => nxt[j] \in C
  BY <1>1, <1>2 DEF ChainOf, Links, ChainTypes
<1>7. IsWalk(f, D, T, B, nxt)
  BY <1>3
<1>8. \A j \in C : f[j] \in R
  <2>1. LeadsInto(D, T, B, nxt, C, R)
    BY <1>2, <1>5, <1>6 DEF LeadsInto
  <2> QED
    BY <1>7, <2>1, WalkInto
<1>9. ASSUME NEW i \in S \cap C, f[p] = Invalid PROVE FALSE
  <2>1. PICK Q : Q = {j \in C : f[j] # Invalid}
    OBVIOUS
  <2>2. i \in Q
    <3>1. f[i] = B[i] /\ i \in D
      BY <1>2, <1>7, WalkAt
    <3> QED
      BY <1>1, <1>3, <2>1, <3>1 DEF ChainTypes
  <2>3. \A j \in Q, l \in D : nxt[l] = j => l \in Q
    <3> SUFFICES ASSUME NEW j \in Q, NEW l \in D, nxt[l] = j PROVE l \in Q
      OBVIOUS
    <3>1. j \in D /\ j # Invalid /\ key[j] # NoKey /\ P[key[j]] = p /\ f[j] # Invalid
      BY <1>1, <2>1 DEF ChainOf, ChainTypes
    <3>2. l \in C
      BY <1>1, <3>1 DEF Links, ChainOf
    <3>3. CASE l \in S
      <4>1. f[l] = B[l] /\ B[l] = l
        BY <1>3, <1>7, <3>3, WalkAt
      <4> QED
        BY <1>1, <2>1, <3>2, <4>1 DEF ChainTypes
    <3>4. CASE l \notin S
      <4>1. f[l] = f[nxt[l]]
        BY <1>7, <3>1, <3>4, WalkAt
      <4> QED
        BY <2>1, <3>1, <3>2, <4>1
    <3> QED
      BY <3>3, <3>4
  <2>4. \A j \in Q : j \in D /\ key[j] # NoKey /\ P[key[j]] = p
    BY <2>1 DEF ChainOf
  <2>5. p \in Q
    BY <2>2, <2>3, <2>4, HeadWithin
  <2> QED
    BY <1>9, <2>1, <2>5
<1> QED
  BY <1>4, <1>8, <1>9

\* the walk to the entry before p; the entries that are not in use may have any link
LEMMA WalkToPrev ==
  ASSUME NEW D, NEW key, NEW nxt, NEW P, Chained(D, key, nxt, P),
         NEW b, NEW r, RankedBy(D, nxt, b, r),
         NEW p \in D, NEW l \in D, nxt[l] = p,
         NEW nxt2, \A j \in D : key[j] # NoKey => nxt2[j] = nxt[j],
         NEW T, T = {j \in D : nxt2[j] \in {p, Invalid}},
         NEW f, IsWalk(f, D, T, [j \in D |-> j], nxt2)
  PROVE  f[P[key[p]]] = l
<1>1. ChainTypes(D, key, nxt) /\ Links(D, key, nxt, P)
  BY DEF Chained
<1>2. p # Invalid /\ l # Invalid
  BY <1>1 DEF ChainTypes
<1>3. key[l] # NoKey /\ P[key[l]] = P[key[p]]
  BY <1>1, <1>2 DEF Links
<1>4. \A j \in D : r[j] \in Nat
  BY DEF RankedBy
<1>5. r[l] < r[p]
  BY <1>2 DEF RankedBy
<1>6. PICK B : B = [j \in D |-> j]
  OBVIOUS
<1>7. IsWalk(f, D, T, B, nxt2)
  BY <1>6
<1>8. PICK Q : Q = {j \in D : key[j] # NoKey /\ P[key[j]] = P[key[p]] /\ r[j] <= r[l] /\ f[j] = l}
  OBVIOUS
<1>9. l \in Q
  <2>1. l \in T
    BY <1>3
  <2>2. f[l] = B[l]
    BY <1>7, <2>1, WalkAt
  <2> QED
    BY <1>3, <1>4, <1>6, <1>8, <2>2
<1>10. \A j \in Q, i \in D : nxt[i] = j => i \in Q
  <2> SUFFICES ASSUME NEW j \in Q, NEW i \in D, nxt[i] = j PROVE i \in Q
    OBVIOUS
  <2>1. /\ j \in D /\ j # Invalid /\ key[j] # NoKey /\ P[key[j]] = P[key[p]]
        /\ r[j] <= r[l] /\ f[j] = l
    BY <1>1, <1>8 DEF ChainTypes
  <2>2. key[i] # NoKey /\ P[key[i]] = P[key[j]] /\ nxt2[i] = j
    BY <1>1, <2>1 DEF Links
  <2>3. r[i] < r[j] /\ r[i] \in Nat /\ r[j] \in Nat /\ r[l] \in Nat /\ r[p] \in Nat
    BY <1>4, <2>1 DEF RankedBy
  <2>4. j # p
    BY <1>5, <2>1, <2>3
  <2>5. f[i] = f[nxt2[i]]
    BY <1>7, <2>1, <2>2, <2>4, WalkAt
  <2> QED
    BY <1>8, <2>1, <2>2, <2>3, <2>5
<1>11. \A j \in Q : j \in D /\ key[j] # NoKey /\ P[key[j]] = P[key[p]]
  BY <1>8
<1>12. P[key[p]] \in Q
  BY <1>9, <1>10, <1>11, HeadWithin
<1> QED
  BY <1>8, <1>12

InChains(d, P) == Chained(DOMAIN d, KeysOf(d), LinksOf(d), P)

\* the entries of d that are in use and of the main position p
Chain(d, P, p) == {i \in DOMAIN d : d[i].key # NoKey /\ P[d[i].key] = p}

LEMMA LastWithin ==
  ASSUME NEW d, NEW P, InChains(d, P), NEW p, p \in Chain(d, P, p)
  PROVE  LastOf(d, p) \in Chain(d, P, p) /\ d[LastOf(d, p)].next = Invalid
<1> DEFINE D == DOMAIN d
           key == KeysOf(d)
           nxt == LinksOf(d)
           T == {j \in D : d[j].next = Invalid}
           B == [j \in D |-> j]
           C == Chain(d, P, p)
           R == {j \in C : d[j].next = Invalid}
<1>1. Ranked(D, nxt) /\ ChainTypes(D, key, nxt) /\ Links(D, key, nxt, P)
  BY DEF InChains, Chained
<1>2. /\ \A j \in D : key[j] = d[j].key /\ nxt[j] = d[j].next
  BY DEF KeysOf, LinksOf
<1>3. PICK b, r : RankedBy(D, nxt, b, r)
  BY <1>1 DEF Ranked
<1>4. Climbs(D, T, nxt, b, r)
  BY <1>1, <1>2, <1>3 DEF RankedBy, Climbs, ChainTypes
<1>5. PICK f : IsWalk(f, D, T, B, nxt) /\ LastOf(d, p) = f[p]
  <2>1. LastEnds(d, T, B) /\ Climbs(DOMAIN d, T, LinksOf(d), b, r)
    BY <1>4 DEF LastEnds
  <2> HIDE DEF T, B
  <2>2. \E f : IsWalk(f, DOMAIN d, T, B, LinksOf(d)) /\ LastOf(d, p) = f[p]
    BY <2>1, LastIs
  <2> QED
    BY <2>2
<1>6. C \subseteq D
  BY DEF Chain
<1>7. \A j \in C : j \in T => B[j] \in R
  BY <1>6
<1>8. \A j \in C : j \notin T => nxt[j] \in C
  BY <1>1, <1>2, <1>6 DEF Chain, Links, ChainTypes
<1> HIDE DEF D, key, nxt, T, B, R, C
<1>9. \A j \in C : f[j] \in R
  <2>1. LeadsInto(D, T, B, nxt, C, R)
    BY <1>6, <1>7, <1>8 DEF LeadsInto
  <2> QED
    BY <1>4, <1>5, <2>1, WalkInto
<1> QED
  BY <1>5, <1>9 DEF R, C

\* the walk for a key finds its entry if the chain has one
LEMMA FirstKeyWithin ==
  ASSUME NEW d, NEW P, InChains(d, P), NEW p, p \in Chain(d, P, p), NEW k
  PROVE  \/ FirstKey(d, p, k) = Invalid /\ \A i \in Chain(d, P, p) : d[i].key # k
         \/ FirstKey(d, p, k) \in Chain(d, P, p) /\ d[FirstKey(d, p, k)].key = k
<1> DEFINE D == DOMAIN d
           key == KeysOf(d)
           nxt == LinksOf(d)
           S == {j \in D : d[j].key = k}
           T == S \cup {j \in D : nxt[j] = Invalid}
           B == [j \in D |-> IF j \in S THEN j ELSE Invalid]
           C == Chain(d, P, p)
<1>1. Chained(D, key, nxt, P)
  BY DEF InChains
<1>2. Ranked(D, nxt) /\ ChainTypes(D, key, nxt)
  BY <1>1 DEF Chained
<1>3. \A j \in D : key[j] = d[j].key /\ nxt[j] = d[j].next
  BY DEF KeysOf, LinksOf
<1>4. PICK b, r : RankedBy(D, nxt, b, r)
  BY <1>2 DEF Ranked
<1>5. T = S \cup {j \in D : d[j].next = Invalid}
  BY <1>3
<1>6. C = ChainOf(D, key, P, p)
  BY <1>3 DEF Chain, ChainOf
<1>7. S \subseteq D /\ C \subseteq D
  BY DEF Chain
<1> HIDE DEF D, key, nxt, B, T
<1>8. Climbs(D, T, nxt, b, r)
  BY <1>2, <1>4 DEF RankedBy, Climbs, ChainTypes, T
<1>9. PICK f : IsWalk(f, D, T, B, nxt) /\ FirstKey(d, p, k) = f[p]
  <2>1. KeyEnds(d, k, S, T, B)
    BY <1>5 DEF KeyEnds, FirstEnds, B, D
  <2>2. Climbs(DOMAIN d, T, LinksOf(d), b, r)
    BY <1>8 DEF D, nxt
  <2> HIDE DEF S
  <2>3. \E f : IsWalk(f, DOMAIN d, T, B, LinksOf(d)) /\ FirstKey(d, p, k) = f[p]
    BY <2>1, <2>2, FirstKeyIs
  <2> QED
    BY <2>3 DEF D, nxt
<1>10. /\ f[p] = Invalid \/ f[p] \in S \cap C
       /\ f[p] = Invalid => S \cap C = {}
  <2> HIDE DEF S, C
  <2>1. p \in C
    BY DEF C
  <2> QED
    BY <1>1, <1>4, <1>6, <1>8, <1>9, <2>1, WalkFinds DEF B, T
<1> QED
  BY <1>7, <1>9, <1>10

\* the walk for a key of the same kind and hash
LEMMA FirstHashWithin ==
  ASSUME NEW d, NEW P, InChains(d, P), NEW p, p \in Chain(d, P, p), NEW k
  PROVE  \/ FirstHash(d, p, k) = Invalid /\ \A i \in Chain(d, P, p) : d[i].key # k
         \/ FirstHash(d, p, k) \in Chain(d, P, p)
<1> DEFINE D == DOMAIN d
           key == KeysOf(d)
           nxt == LinksOf(d)
           S == {j \in D : Hash(d[j].key) = Hash(k) /\ IsStr(d[j].key) = IsStr(k)}
           T == S \cup {j \in D : nxt[j] = Invalid}
           B == [j \in D |-> IF j \in S THEN j ELSE Invalid]
           C == Chain(d, P, p)
<1>1. Chained(D, key, nxt, P)
  BY DEF InChains
<1>2. Ranked(D, nxt) /\ ChainTypes(D, key, nxt)
  BY <1>1 DEF Chained
<1>3. \A j \in D : key[j] = d[j].key /\ nxt[j] = d[j].next
  BY DEF KeysOf, LinksOf
<1>4. PICK b, r : RankedBy(D, nxt, b, r)
  BY <1>2 DEF Ranked
<1>5. T = S \cup {j \in D : d[j].next = Invalid}
  BY <1>3
<1>6. C = ChainOf(D, key, P, p)
  BY <1>3 DEF Chain, ChainOf
<1>7. S \subseteq D /\ C \subseteq D /\ \A i \in C : d[i].key = k => i \in S
  BY DEF Chain
<1> HIDE DEF D, key, nxt, B, T
<1>8. Climbs(D, T, nxt, b, r)
  BY <1>2, <1>4 DEF RankedBy, Climbs, ChainTypes, T
<1>9. PICK f : IsWalk(f, D, T, B, nxt) /\ FirstHash(d, p, k) = f[p]
  <2>1. HashEnds(d, k, S, T, B)
    BY <1>5 DEF HashEnds, FirstEnds, B, D
  <2>2. Climbs(DOMAIN d, T, LinksOf(d), b, r)
    BY <1>8 DEF D, nxt
  <2> HIDE DEF S
  <2>3. \E f : IsWalk(f, DOMAIN d, T, B, LinksOf(d)) /\ FirstHash(d, p, k) = f[p]
    BY <2>1, <2>2, FirstHashIs
  <2> QED
    BY <2>3 DEF D, nxt
<1>10. /\ f[p] = Invalid \/ f[p] \in S \cap C
       /\ f[p] = Invalid => S \cap C = {}
  <2> HIDE DEF S, C
  <2>1. p \in C
    BY DEF C
  <2> QED
    BY <1>1, <1>4, <1>6, <1>8, <1>9, <2>1, WalkFinds DEF B, T
<1> QED
  BY <1>7, <1>9, <1>10

\* e is d, but for a free entry that may be a copy of p already
CopyOf(d, e, p) ==
  e = d \/ \E f \in DOMAIN d : d[f].key = NoKey /\ e = [d EXCEPT ![f] = d[p]]

LEMMA PrevWithin ==
  ASSUME NEW d, NEW P, InChains(d, P),
         NEW p \in DOMAIN d, NEW l \in DOMAIN d, d[l].next = p,
         NEW e, CopyOf(d, e, p)
  PROVE  PrevOf(e, P[d[p].key], p) = l
<1> DEFINE D == DOMAIN d
           key == KeysOf(d)
           nxt == LinksOf(d)
           nxt2 == LinksOf(e)
           T == {j \in D : nxt2[j] \in {p, Invalid}}
           B == [j \in D |-> j]
<1>1. Chained(D, key, nxt, P)
  BY DEF InChains
<1>2. Ranked(D, nxt) /\ ChainTypes(D, key, nxt) /\ Links(D, key, nxt, P)
  BY <1>1 DEF Chained
<1>3. \A j \in D : key[j] = d[j].key /\ nxt[j] = d[j].next
  BY DEF KeysOf, LinksOf
<1>4. PICK b, r : RankedBy(D, nxt, b, r)
  BY <1>2 DEF Ranked
<1>5. /\ DOMAIN e = D /\ \A j \in D : nxt2[j] = e[j].next
      /\ \A j \in D : key[j] # NoKey => nxt2[j] = nxt[j]
  BY <1>3 DEF LinksOf, CopyOf
<1>6. \A j \in D : key[j] = NoKey => nxt2[j] = nxt[j] \/ nxt2[j] = nxt[p]
  BY <1>3 DEF LinksOf, CopyOf
<1>7. \E q : Climbs(D, T, nxt2, b, q)
  <2>1. PICK q : q = [j \in D |-> IF key[j] = NoKey THEN r[p] ELSE r[j]]
    OBVIOUS
  <2>2. q \in [D -> 0 .. b] /\ b \in Nat
    BY <1>4, <2>1 DEF RankedBy
  <2>3. ASSUME NEW j \in D, j \notin T PROVE nxt2[j] \in D /\ q[j] < q[nxt2[j]]
    <3>1. nxt2[j] # Invalid
      BY <2>3
    <3> HIDE DEF D, key, nxt, nxt2, T
    <3>2. CASE key[j] # NoKey
      <4>1. nxt2[j] = nxt[j] /\ nxt[j] \in D /\ key[nxt[j]] # NoKey
        BY <1>2, <1>5, <3>1, <3>2 DEF ChainTypes, Links
      <4> QED
        BY <1>4, <2>1, <3>1, <3>2, <4>1 DEF RankedBy
    <3>3. CASE key[j] = NoKey
      <4>1. nxt[j] = Invalid
        BY <1>2, <3>3 DEF Links
      <4>2. nxt2[j] = nxt[p] /\ nxt[p] \in D /\ key[nxt[p]] # NoKey
        BY <1>2, <1>6, <3>1, <3>3, <4>1 DEF ChainTypes, Links, D
      <4> QED
        BY <1>4, <2>1, <3>1, <3>3, <4>2 DEF RankedBy, D
    <3> QED
      BY <3>2, <3>3
  <2>4. Climbs(D, T, nxt2, b, q)
    <3> HIDE DEF D, key, nxt, nxt2, T
    <3> QED
      BY <2>2, <2>3 DEF Climbs
  <2> QED
    BY <2>4
<1>8. T = {j \in DOMAIN e : e[j].next \in {p, Invalid}}
  BY <1>5
<1> HIDE DEF key, nxt, nxt2, T, B
<1>9. PICK f : IsWalk(f, D, T, B, nxt2) /\ PrevOf(e, P[d[p].key], p) = f[P[d[p].key]]
  <2>1. PICK q : Climbs(D, T, nxt2, b, q)
    BY <1>7
  <2>2. Climbs(DOMAIN e, T, LinksOf(e), b, q)
    BY <1>5, <2>1 DEF nxt2
  <2>3. PrevEnds(e, p, T, B)
    BY <1>5, <1>8 DEF B, PrevEnds
  <2>4. \E f : /\ IsWalk(f, DOMAIN e, T, B, LinksOf(e))
               /\ PrevOf(e, P[d[p].key], p) = f[P[d[p].key]]
    BY <2>2, <2>3, PrevIs
  <2> QED
    BY <1>5, <2>4 DEF nxt2
<1>10. f[P[key[p]]] = l
  <2>1. nxt[l] = p
    BY <1>3
  <2> HIDE DEF D
  <2>2. p \in D /\ l \in D
    BY DEF D
  <2> QED
    BY <1>1, <1>4, <1>5, <1>9, <2>1, <2>2, WalkToPrev DEF B, T
<1> QED
  BY <1>3, <1>9, <1>10

-----------------------------------------------------------------------------
(* Arrays of entries *)

EntryOf(D) == [key : Keys \cup {NoKey}, value : Values \cup {NoKey}, next : D \cup {Invalid}]

\* an array whose entries with index D are in chains
IsArray(d, D, P) ==
  /\ D \subseteq Nat /\ Invalid \notin D
  /\ d \in [D -> EntryOf(D)]
  /\ InChains(d, P)

UsedIn(d) == {i \in DOMAIN d : d[i].key # NoKey}
Pairs(d) == {<<d[i].key, d[i].value>> : i \in UsedIn(d)}

\* k is no key of the array
NotIn(d, k) == \A i \in DOMAIN d : d[i].key # k

\* the key k has been set to v, in the entry i
IsSet(d, e, i, k, v) == UsedIn(e) = UsedIn(d) \cup {i} /\ Pairs(e) = Pairs(d) \cup {<<k, v>>}

LEMMA KeyIsKey == \A k \in Keys : k # NoKey
BY HashTblAssumption DEF HashTblAssumption, NoKey

\* how the entries of d and e differ
SameBut(d, e, i) == \A j \in DOMAIN d : j # i => e[j].key = d[j].key /\ e[j].value = d[j].value

\* e is d with another entry i
Changed(D, d, e, i, k, v, n) ==
  /\ e \in [D -> EntryOf(D)]
  /\ e[i].key = k /\ e[i].value = v /\ e[i].next = n
  /\ \A j \in D : j # i => e[j] = d[j]

LEMMA InsertedIs ==
  ASSUME NEW D, NEW d, d \in [D -> EntryOf(D)], NEW i \in D,
         NEW k \in Keys \cup {NoKey}, NEW v \in Values \cup {NoKey}
  PROVE  Changed(D, d, Inserted(d, i, k, v), i, k, v, d[i].next)
<1>1. PICK y : y = d[i]
  OBVIOUS
<1>2. y \in EntryOf(D)
  BY <1>1
<1>3. PICK x : x = [key |-> k, value |-> v, next |-> y.next]
  OBVIOUS
<1>4. x \in EntryOf(D)
  BY <1>2, <1>3 DEF EntryOf
<1>5. PICK z : z = [key |-> k, value |-> y.value, next |-> y.next]
  OBVIOUS
<1>6. PICK c : c = [d EXCEPT ![i].key = k]
  OBVIOUS
<1>7. c \in [D -> EntryOf(D)] /\ c[i] = z /\ \A j \in D : j # i => c[j] = d[j]
  <2>1. [y EXCEPT !.key = k] = z /\ z \in EntryOf(D)
    BY <1>2, <1>5 DEF EntryOf
  <2>2. c = [d EXCEPT ![i] = z]
    BY <1>1, <1>6, <2>1
  <2> QED
    BY <2>1, <2>2
<1>8. PICK e : e = Inserted(d, i, k, v)
  OBVIOUS
<1>9. e = [c EXCEPT ![i].value = v]
  BY <1>6, <1>8 DEF Inserted
<1>10. [c[i] EXCEPT !.value = v] = x
  BY <1>3, <1>5, <1>7
<1>11. e = [c EXCEPT ![i] = x]
  BY <1>9, <1>10
<1>12. e \in [D -> EntryOf(D)] /\ e[i] = x /\ \A j \in D : j # i => e[j] = d[j]
  BY <1>4, <1>7, <1>11
<1> QED
  BY <1>1, <1>3, <1>8, <1>12 DEF Changed

LEMMA LinkedIs ==
  ASSUME NEW D, NEW d, d \in [D -> EntryOf(D)], NEW i \in D, NEW n \in D \cup {Invalid},
         NEW e, e = [d EXCEPT ![i].next = n]
  PROVE  Changed(D, d, e, i, d[i].key, d[i].value, n)
<1>1. d[i] \in EntryOf(D)
  OBVIOUS
<1>2. PICK x : x = [key |-> d[i].key, value |-> d[i].value, next |-> n]
  OBVIOUS
<1>3. x \in EntryOf(D)
  BY <1>1, <1>2 DEF EntryOf
<1>4. [d[i] EXCEPT !.next = n] = x
  BY <1>1, <1>2 DEF EntryOf
<1>5. e = [d EXCEPT ![i] = x]
  BY <1>4
<1> QED
  BY <1>2, <1>3, <1>5 DEF Changed

LEMMA SetShown ==
  ASSUME NEW d, NEW e, DOMAIN e = DOMAIN d, NEW i \in DOMAIN d, d[i].key = NoKey,
         NEW k, NEW v, k # NoKey, e[i].key = k, e[i].value = v, SameBut(d, e, i)
  PROVE  IsSet(d, e, i, k, v)
<1>1. \A j \in DOMAIN d : j # i => e[j].key = d[j].key /\ e[j].value = d[j].value
  BY DEF SameBut
<1>2. \A j : j \in UsedIn(e) <=> j \in UsedIn(d) \/ j = i
  BY <1>1 DEF UsedIn
<1>3. UsedIn(e) = UsedIn(d) \cup {i}
  BY <1>2
<1>4. \A j \in UsedIn(d) : e[j].key = d[j].key /\ e[j].value = d[j].value
  BY <1>1 DEF UsedIn
<1>5. ASSUME NEW x \in Pairs(e) PROVE x \in Pairs(d) \cup {<<k, v>>}
  <2>1. PICK j \in UsedIn(e) : x = <<e[j].key, e[j].value>>
    BY DEF Pairs
  <2> QED
    BY <1>2, <1>4, <2>1 DEF Pairs
<1>6. ASSUME NEW x \in Pairs(d) PROVE x \in Pairs(e)
  <2>1. PICK j \in UsedIn(d) : x = <<d[j].key, d[j].value>>
    BY DEF Pairs
  <2> QED
    BY <1>2, <1>4, <2>1 DEF Pairs
<1>7. <<k, v>> \in Pairs(e)
  BY <1>2 DEF Pairs
<1> QED
  BY <1>3, <1>5, <1>6, <1>7 DEF IsSet

LEMMA InsertHome ==
  ASSUME NEW D, NEW P, NEW d, IsArray(d, D, P),
         NEW k \in Keys, NEW v \in Values \cup {NoKey}, NotIn(d, k),
         P[k] \in D, d[P[k]].key = NoKey,
         NEW e, e = Inserted(d, P[k], k, v)
  PROVE  IsArray(e, D, P) /\ IsSet(d, e, P[k], k, v)
<1>1. PICK p : p = P[k] /\ p \in D /\ d[p].key = NoKey
  OBVIOUS
<1>2. k # NoKey
  BY KeyIsKey
<1>3. d \in [D -> EntryOf(D)] /\ D \subseteq Nat /\ Invalid \notin D /\ InChains(d, P)
  BY DEF IsArray
<1>4. /\ e \in [D -> EntryOf(D)] /\ e[p].key = k /\ e[p].value = v /\ e[p].next = d[p].next
      /\ \A i \in D : i # p => e[i] = d[i]
  <2>1. Changed(D, d, e, p, k, v, d[p].next)
    BY <1>1, <1>3, InsertedIs
  <2> QED
    BY <2>1 DEF Changed
<1>5. KeysOf(e) = [KeysOf(d) EXCEPT ![p] = k]
  BY <1>1, <1>3, <1>4 DEF KeysOf
<1>6. LinksOf(e) = LinksOf(d)
  BY <1>1, <1>3, <1>4 DEF LinksOf
<1>7. DOMAIN d = D /\ DOMAIN e = D
  BY <1>3, <1>4
<1>8. InChains(e, P)
  <2>1. Chained(D, KeysOf(d), LinksOf(d), P)
    BY <1>3, <1>7 DEF InChains
  <2>2. Absent(D, KeysOf(d), k) /\ KeysOf(d)[p] = NoKey
    BY <1>1, <1>7 DEF KeysOf, Absent, NotIn
  <2>3. Chained(D, KeysOf(e), LinksOf(d), P)
    BY <1>1, <1>2, <1>5, <2>1, <2>2, SetAtHome
  <2> QED
    BY <1>6, <1>7, <2>3 DEF InChains
<1>9. IsArray(e, D, P)
  BY <1>3, <1>4, <1>8 DEF IsArray
<1>10. IsSet(d, e, p, k, v)
  <2>1. SameBut(d, e, p)
    BY <1>4, <1>7 DEF SameBut
  <2> QED
    BY <1>1, <1>2, <1>4, <1>7, <2>1, SetShown
<1> QED
  BY <1>1, <1>9, <1>10

LEMMA InsertEnd ==
  ASSUME NEW D, NEW P, NEW d, IsArray(d, D, P),
         NEW k \in Keys, NEW v \in Values \cup {NoKey}, NotIn(d, k),
         P[k] \in Chain(d, P, P[k]),
         NEW f \in D, d[f].key = NoKey,
         NEW e, e = Inserted([d EXCEPT ![LastOf(d, P[k])].next = f], f, k, v)
  PROVE  IsArray(e, D, P) /\ IsSet(d, e, f, k, v)
<1>1. d \in [D -> EntryOf(D)] /\ D \subseteq Nat /\ Invalid \notin D /\ InChains(d, P)
  BY DEF IsArray
<1>2. PICK l : l = LastOf(d, P[k])
  OBVIOUS
<1>3. l \in D /\ d[l].next = Invalid /\ d[l].key # NoKey /\ P[d[l].key] = P[k] /\ l # f
  BY <1>1, <1>2, LastWithin DEF Chain
<1>4. k # NoKey
  BY KeyIsKey
<1>5. PICK c : c = [d EXCEPT ![l].next = f]
  OBVIOUS
<1>6. /\ c \in [D -> EntryOf(D)] /\ c[l].next = f /\ c[l].key = d[l].key /\ c[l].value = d[l].value
      /\ \A i \in D : i # l => c[i] = d[i]
  <2>1. Changed(D, d, c, l, d[l].key, d[l].value, f)
    BY <1>1, <1>3, <1>5, LinkedIs
  <2> QED
    BY <2>1 DEF Changed
<1>7. e = Inserted(c, f, k, v)
  BY <1>2, <1>5
<1>8. /\ e \in [D -> EntryOf(D)] /\ e[f].key = k /\ e[f].value = v /\ e[f].next = c[f].next
      /\ \A i \in D : i # f => e[i] = c[i]
  <2>1. Changed(D, c, e, f, k, v, c[f].next)
    BY <1>6, <1>7, InsertedIs
  <2> QED
    BY <2>1 DEF Changed
<1>11. DOMAIN d = D /\ DOMAIN e = D
  BY <1>1, <1>8
<1>14. \A i \in D : i # f => e[i].key = d[i].key /\ e[i].value = d[i].value
  BY <1>3, <1>6, <1>8
<1>9. KeysOf(e) = [KeysOf(d) EXCEPT ![f] = k]
  BY <1>8, <1>11, <1>14 DEF KeysOf
<1>15. e[l].next = f /\ \A i \in D : i # l => e[i].next = d[i].next
  BY <1>3, <1>6, <1>8
<1>10. LinksOf(e) = [LinksOf(d) EXCEPT ![l] = f]
  BY <1>3, <1>11, <1>15 DEF LinksOf
<1>12. InChains(e, P)
  <2>1. Chained(D, KeysOf(d), LinksOf(d), P)
    BY <1>1, <1>11 DEF InChains
  <2>2. /\ Absent(D, KeysOf(d), k) /\ KeysOf(d)[f] = NoKey
        /\ KeysOf(d)[l] # NoKey /\ P[KeysOf(d)[l]] = P[k] /\ LinksOf(d)[l] = Invalid
    BY <1>3, <1>11 DEF KeysOf, LinksOf, Absent, NotIn
  <2>3. Chained(D, KeysOf(e), LinksOf(e), P)
    BY <1>3, <1>4, <1>9, <1>10, <2>1, <2>2, SetAtEnd
  <2> QED
    BY <1>11, <2>3 DEF InChains
<1>13. IsArray(e, D, P)
  BY <1>1, <1>8, <1>12 DEF IsArray
<1>16. IsSet(d, e, f, k, v)
  <2>1. SameBut(d, e, f)
    BY <1>11, <1>14 DEF SameBut
  <2> QED
    BY <1>4, <1>8, <1>11, <2>1, SetShown
<1> QED
  BY <1>13, <1>16

\* the entry p is moved to the free entry f, and linked to there
Moved(d, f, p, q, k, v) ==
  [Inserted([[d EXCEPT ![f] = d[p]] EXCEPT ![q].next = f], p, k, v) EXCEPT ![p].next = Invalid]

IsMoved(D, d, e, f, p, q, k, v) ==
  /\ e \in [D -> EntryOf(D)]
  /\ e[p].key = k /\ e[p].value = v /\ e[p].next = Invalid
  /\ e[f] = d[p]
  /\ e[q].key = d[q].key /\ e[q].value = d[q].value /\ e[q].next = f
  /\ \A i \in D : i # p /\ i # f /\ i # q => e[i] = d[i]

LEMMA RecordOf ==
  ASSUME NEW D, NEW x \in EntryOf(D)
  PROVE  x = [key |-> x.key, value |-> x.value, next |-> x.next]
BY DEF EntryOf

LEMMA SameRecord ==
  ASSUME NEW D, NEW x, NEW y, x \in EntryOf(D), y \in EntryOf(D),
         x.key = y.key, x.value = y.value, x.next = y.next
  PROVE  x = y
<1>1. x = [key |-> x.key, value |-> x.value, next |-> x.next]
  BY RecordOf
<1>2. y = [key |-> y.key, value |-> y.value, next |-> y.next]
  BY RecordOf
<1> QED
  BY <1>1, <1>2

LEMMA MovedIs ==
  ASSUME NEW D, NEW d, d \in [D -> EntryOf(D)],
         NEW f \in D, NEW p \in D, p # f, NEW q, q \in D \ {f, p},
         NEW k \in Keys \cup {NoKey}, NEW v \in Values \cup {NoKey},
         NEW e, e = Moved(d, f, p, q, k, v)
  PROVE  IsMoved(D, d, e, f, p, q, k, v)
<1>1. PICK c : c = [d EXCEPT ![f] = d[p]]
  OBVIOUS
<1>2. c \in [D -> EntryOf(D)] /\ c[f] = d[p] /\ \A i \in D : i # f => c[i] = d[i]
  BY <1>1
<1>3. PICK g : g = [c EXCEPT ![q].next = f]
  OBVIOUS
<1>4. Changed(D, c, g, q, c[q].key, c[q].value, f)
  BY <1>2, <1>3, LinkedIs
<1>5. PICK h : h = Inserted(g, p, k, v)
  OBVIOUS
<1>6. Changed(D, g, h, p, k, v, g[p].next)
  BY <1>4, <1>5, InsertedIs DEF Changed
<1>7. PICK n : n = Invalid
  OBVIOUS
<1>8. n \in D \cup {Invalid} /\ e = [h EXCEPT ![p].next = n] /\ h \in [D -> EntryOf(D)]
  BY <1>1, <1>3, <1>5, <1>6, <1>7 DEF Moved, Changed
<1>9. Changed(D, h, e, p, h[p].key, h[p].value, n)
  BY <1>8, LinkedIs
<1>10. e \in [D -> EntryOf(D)] /\ \A i \in D : i # p => e[i] = g[i]
  BY <1>6, <1>9 DEF Changed
<1>11. e[p].key = k /\ e[p].value = v /\ e[p].next = Invalid
  BY <1>6, <1>7, <1>9 DEF Changed
<1>12. \A i \in D : i # q => g[i] = c[i]
  BY <1>4 DEF Changed
<1>13. \A i \in D : i # p /\ i # f /\ i # q => e[i] = d[i]
  BY <1>2, <1>10, <1>12
<1>14. e[f] = d[p]
  BY <1>2, <1>10, <1>12
<1>15. e[q].key = d[q].key /\ e[q].value = d[q].value /\ e[q].next = f
  BY <1>2, <1>4, <1>10 DEF Changed
<1> QED
  BY <1>10, <1>11, <1>13, <1>14, <1>15 DEF IsMoved

\* the entry before p, when the free entry f already is a copy of p
IsPrev(d, f, main, p, q) == q = PrevOf([d EXCEPT ![f] = d[p]], main, p)

HasMoved(D, P, d, e, f, p, q) ==
  /\ IsArray(e, D, P) /\ Pairs(e) = Pairs(d) /\ UsedIn(e) = (UsedIn(d) \ {p}) \cup {f}
  /\ q \in D \ {f, p}

LEMMA MovedAway ==
  ASSUME NEW D, NEW P, NEW d, IsArray(d, D, P),
         NEW f \in D, d[f].key = NoKey,
         NEW p \in D, d[p].key # NoKey, P[d[p].key] # p,
         NEW q, IsPrev(d, f, P[d[p].key], p, q),
         NEW v \in Values \cup {NoKey},
         NEW e, e = Moved(d, f, p, q, NoKey, v)
  PROVE  HasMoved(D, P, d, e, f, p, q)
<1>1. d \in [D -> EntryOf(D)] /\ D \subseteq Nat /\ Invalid \notin D /\ InChains(d, P)
  BY DEF IsArray
<1>2. DOMAIN d = D /\ p # f
  BY <1>1
<1> DEFINE key == KeysOf(d)
           nxt == LinksOf(d)
<1>3. Chained(D, key, nxt, P)
  BY <1>1, <1>2 DEF InChains
<1>4. \A i \in D : key[i] = d[i].key /\ nxt[i] = d[i].next
  BY <1>2 DEF KeysOf, LinksOf
<1>5. key[f] = NoKey /\ key[p] # NoKey /\ P[key[p]] # p
  BY <1>4
<1> HIDE DEF key, nxt
<1>6. Reached(D, key, nxt, P) /\ Links(D, key, nxt, P) /\ Ranked(D, nxt)
  BY <1>3 DEF Chained
<1>7. PICK l \in D : nxt[l] = p
  BY <1>5, <1>6 DEF Reached
<1>8. l = q
  <2>1. d[l].next = p
    BY <1>4, <1>7
  <2>2. PICK c : c = [d EXCEPT ![f] = d[p]]
    OBVIOUS
  <2>3. CopyOf(d, c, p)
    BY <1>2, <2>2 DEF CopyOf
  <2>4. PrevOf(c, P[d[p].key], p) = l
    BY <1>1, <1>2, <1>7, <2>1, <2>3, PrevWithin
  <2> QED
    BY <2>2, <2>4 DEF IsPrev
<1>9. l # f /\ l # p
  <2>1. key[l] # NoKey /\ p # Invalid
    BY <1>1, <1>6, <1>7 DEF Links
  <2>2. PICK b, r : RankedBy(D, nxt, b, r)
    BY <1>6 DEF Ranked
  <2>3. r[l] < r[p] /\ r[p] \in Nat
    BY <1>7, <2>1, <2>2 DEF RankedBy
  <2> QED
    BY <1>5, <2>1, <2>3
<1>10. IsMoved(D, d, e, f, p, l, NoKey, v)
  <2>1. PICK k : k = NoKey
    OBVIOUS
  <2>2. k \in Keys \cup {NoKey} /\ e = Moved(d, f, p, l, k, v) /\ l \in D \ {f, p}
    BY <1>8, <1>9, <2>1
  <2> QED
    BY <1>1, <1>2, <2>1, <2>2, MovedIs
<1>17. e \in [D -> EntryOf(D)] /\ e[p].key = NoKey /\ e[p].next = Invalid
  BY <1>10 DEF IsMoved
<1>18. /\ e[f] = d[p]
       /\ \A i \in D : i # p /\ i # f => e[i].key = d[i].key /\ e[i].value = d[i].value
       /\ \A i \in D : i # p /\ i # f /\ i # l => e[i].next = d[i].next
       /\ e[l].next = f
  BY <1>10 DEF IsMoved
<1>19. DOMAIN e = D
  BY <1>17
<1>20. KeysOf(e) = [key EXCEPT ![f] = key[p], ![p] = NoKey]
  BY <1>2, <1>17, <1>18, <1>19 DEF KeysOf, key
<1>21. LinksOf(e) = [nxt EXCEPT ![f] = nxt[p], ![l] = f, ![p] = Invalid]
  BY <1>2, <1>9, <1>17, <1>18, <1>19 DEF LinksOf, nxt
<1>22. InChains(e, P)
  <2>1. Chained(D, KeysOf(e), LinksOf(e), P)
    <3>1. Move(key, nxt, f, p, l, KeysOf(e), LinksOf(e))
      BY <1>20, <1>21 DEF Move
    <3> QED
      BY <1>3, <1>5, <1>7, <3>1, MoveAway
  <2> QED
    BY <1>19, <2>1 DEF InChains
<1>23. IsArray(e, D, P)
  BY <1>1, <1>17, <1>22 DEF IsArray
<1>24. UsedIn(e) = (UsedIn(d) \ {p}) \cup {f} /\ p \in UsedIn(d) /\ f \notin UsedIn(d)
  <2>1. \A i : i \in UsedIn(e) <=> (i \in UsedIn(d) /\ i # p) \/ i = f
    BY <1>2, <1>17, <1>18, <1>19 DEF UsedIn
  <2>2. p \in UsedIn(d) /\ f \notin UsedIn(d)
    BY <1>2 DEF UsedIn
  <2> QED
    BY <2>1, <2>2
<1>25. UsedIn(d) \subseteq D
  BY <1>2 DEF UsedIn
<1>26. Pairs(e) = Pairs(d)
  <2>1. ASSUME NEW x \in Pairs(d) PROVE x \in Pairs(e)
    <3>1. PICK i \in UsedIn(d) : x = <<d[i].key, d[i].value>>
      BY DEF Pairs
    <3>2. CASE i = p
      BY <1>18, <1>24, <3>1, <3>2 DEF Pairs
    <3>3. CASE i # p
      <4>1. i \in UsedIn(e) /\ x = <<e[i].key, e[i].value>>
        BY <1>18, <1>24, <1>25, <3>1, <3>3
      <4> QED
        BY <4>1 DEF Pairs
    <3> QED
      BY <3>2, <3>3
  <2>2. ASSUME NEW x \in Pairs(e) PROVE x \in Pairs(d)
    <3>1. PICK i \in UsedIn(e) : x = <<e[i].key, e[i].value>>
      BY DEF Pairs
    <3>2. CASE i = f
      BY <1>18, <1>24, <3>1, <3>2 DEF Pairs
    <3>3. CASE i # f
      <4>1. i \in UsedIn(d) /\ x = <<d[i].key, d[i].value>>
        BY <1>18, <1>24, <1>25, <3>1, <3>3
      <4> QED
        BY <4>1 DEF Pairs
    <3> QED
      BY <3>2, <3>3
  <2> QED
    BY <2>1, <2>2
<1> QED
  BY <1>8, <1>9, <1>23, <1>24, <1>26 DEF HasMoved

\* a key that is set at its main position, from where another entry is moved away
LEMMA InsertEvicting ==
  ASSUME NEW D, NEW P, NEW d, IsArray(d, D, P),
         NEW k \in Keys, NEW v \in Values \cup {NoKey}, NotIn(d, k),
         NEW f \in D, d[f].key = NoKey,
         NEW p, p = P[k], p \in D, d[p].key # NoKey, P[d[p].key] # p,
         NEW q, IsPrev(d, f, P[d[p].key], p, q),
         NEW e, e = Moved(d, f, p, q, k, v)
  PROVE  IsArray(e, D, P) /\ IsSet(d, e, f, k, v)
<1>1. d \in [D -> EntryOf(D)] /\ p # f
  BY DEF IsArray
<1>2. PICK m, n : n = NoKey /\ m = Moved(d, f, p, q, n, n)
  OBVIOUS
<1>3. n \in Keys \cup {NoKey} /\ n \in Values \cup {NoKey} /\ m = Moved(d, f, p, q, NoKey, n)
  BY <1>2
<1>4. /\ IsArray(m, D, P) /\ Pairs(m) = Pairs(d) /\ UsedIn(m) = (UsedIn(d) \ {p}) \cup {f}
      /\ q \in D \ {f, p}
  <2>1. HasMoved(D, P, d, m, f, p, q)
    BY <1>3, MovedAway
  <2> QED
    BY <2>1 DEF HasMoved
<1>5. IsMoved(D, d, m, f, p, q, n, n)
  BY <1>1, <1>2, <1>3, <1>4, MovedIs
<1>6. IsMoved(D, d, e, f, p, q, k, v)
  BY <1>1, <1>4, MovedIs
<1>7. PICK w : w = Inserted(m, p, k, v)
  OBVIOUS
<1>8. Changed(D, m, w, p, k, v, m[p].next)
  <2>1. m \in [D -> EntryOf(D)]
    BY <1>5 DEF IsMoved
  <2> QED
    BY <1>7, <2>1, InsertedIs
<1>9. w = e
  <2>1. e \in [D -> EntryOf(D)] /\ w \in [D -> EntryOf(D)]
    BY <1>6, <1>8 DEF IsMoved, Changed
  <2>2. w[p] = e[p]
    <3>1. w[p].key = k /\ w[p].value = v /\ w[p].next = Invalid
      BY <1>5, <1>8 DEF IsMoved, Changed
    <3>2. e[p].key = k /\ e[p].value = v /\ e[p].next = Invalid
      BY <1>6 DEF IsMoved
    <3>3. w[p] \in EntryOf(D) /\ e[p] \in EntryOf(D)
      BY <2>1
    <3> QED
      BY <3>1, <3>2, <3>3, SameRecord
  <2>3. \A i \in D : i # p => w[i] = m[i]
    BY <1>8 DEF Changed
  <2>4. \A i \in D : i # p => m[i] = e[i]
    <3> SUFFICES ASSUME NEW i \in D, i # p PROVE m[i] = e[i]
      OBVIOUS
    <3>1. CASE i = f
      BY <1>5, <1>6, <3>1 DEF IsMoved
    <3>2. CASE i = q
      <4>1. m[q] \in EntryOf(D) /\ e[q] \in EntryOf(D)
        BY <1>5, <2>1, <3>2 DEF IsMoved
      <4>2. m[q].key = e[q].key /\ m[q].value = e[q].value /\ m[q].next = e[q].next
        BY <1>5, <1>6 DEF IsMoved
      <4> QED
        BY <3>2, <4>1, <4>2, SameRecord
    <3>3. CASE i # f /\ i # q
      BY <1>5, <1>6, <3>3 DEF IsMoved
    <3> QED
      BY <3>1, <3>2, <3>3
  <2>5. \A i \in D : w[i] = e[i]
    BY <2>2, <2>3, <2>4
  <2>6. w = [i \in D |-> w[i]] /\ e = [i \in D |-> e[i]]
    BY <2>1
  <2> QED
    BY <2>5, <2>6
<1>10. UsedIn(d) \subseteq D /\ p \in UsedIn(d)
  BY <1>1 DEF UsedIn
<1>11. NotIn(m, k) /\ m[p].key = NoKey
  <2>1. \A i \in D : i = p \/ m[i].key = d[i].key \/ m[i].key = d[p].key
    BY <1>5 DEF IsMoved
  <2>2. m[p].key = NoKey /\ DOMAIN m = D
    BY <1>2, <1>5 DEF IsMoved
  <2> QED
    BY <1>1, <2>1, <2>2, KeyIsKey DEF NotIn
<1>12. IsArray(w, D, P) /\ IsSet(m, w, p, k, v)
  BY <1>4, <1>7, <1>11, InsertHome
<1>13. UsedIn(w) = UsedIn(d) \cup {f} /\ Pairs(w) = Pairs(d) \cup {<<k, v>>}
  BY <1>4, <1>10, <1>12 DEF IsSet
<1> QED
  BY <1>9, <1>12, <1>13 DEF IsSet

-----------------------------------------------------------------------------
(* tbl_set_impl *)

\* an array with capacity n and free index f
Table(d, n, f) ==
  /\ n \in MinCapacity .. MaxCapacity
  /\ \E s \in {n, n + 1} : IsArray(d, 0 .. s - 1, Positions[n - 1])
  /\ \A i \in UsedIn(d) : i < n
  /\ f = Invalid \/ f \in (0 .. n - 1) \ UsedIn(d)

LEMMA TableArray ==
  ASSUME NEW d, NEW n, NEW f, Table(d, n, f)
  PROVE  /\ n \in Nat /\ n >= 4 /\ n - 1 \in 0 .. MaxCapacity /\ n < Invalid
         /\ \E D : IsArray(d, D, Positions[n - 1]) /\ DOMAIN d = D /\ 0 .. n - 1 \subseteq D
<1>1. n \in Nat /\ n >= 4 /\ n <= MaxCapacity /\ MaxCapacity \in Nat /\ MaxCapacity <= 8191
  BY HashTblAssumption DEF HashTblAssumption, Table, MinCapacity
<1>2. PICK s \in {n, n + 1} : IsArray(d, 0 .. s - 1, Positions[n - 1])
  BY DEF Table
<1>3. DOMAIN d = 0 .. s - 1 /\ 0 .. n - 1 \subseteq 0 .. s - 1
  BY <1>1, <1>2 DEF IsArray
<1> QED
  BY <1>1, <1>2, <1>3 DEF Invalid

LEMMA HashIs == \A k \in Keys : Hash(k) \in Nat
<1> SUFFICES ASSUME NEW k \in Keys PROVE Hash(k) \in Nat
  OBVIOUS
<1>1. CASE IsStr(k)
  BY <1>1, HashTblAssumption DEF Hash, IsStr, HashTblAssumption
<1>2. CASE ~ IsStr(k)
  <2>1. k + 1 \in Nat /\ 2^24 = 16777216
    BY HashTblAssumption DEF HashTblAssumption
  <2>2. (k + 1) % 16777216 \in Nat
    BY <2>1
  <2> QED
    BY <1>2, <2>1, <2>2 DEF Hash
<1> QED
  BY <1>1, <1>2

LEMMA PositionIs ==
  ASSUME NEW k \in Keys, NEW mask \in 0 .. MaxCapacity
  PROVE  MainPos(k, mask) = And(Hash(k), mask) /\ MainPos(k, mask) \in 0 .. mask
<1>1. Positions[mask] = [l \in Keys |-> And(Hash(l), mask)]
  BY DEF Positions
<1>2. MainPos(k, mask) = And(Hash(k), mask)
  BY <1>1 DEF MainPos
<1>3. mask \in Nat
  OBVIOUS
<1> QED
  BY <1>2, <1>3, HashIs, AndBound

LEMMA HomeOf ==
  ASSUME NEW D, NEW P, NEW d, IsArray(d, D, P), NEW k, k # NoKey, ~ NotIn(d, k)
  PROVE  P[k] \in Chain(d, P, P[k])
<1>1. d \in [D -> EntryOf(D)] /\ Chained(D, KeysOf(d), LinksOf(d), P)
  BY DEF IsArray, InChains
<1>2. DOMAIN d = D /\ \A i \in D : KeysOf(d)[i] = d[i].key
  BY <1>1 DEF KeysOf
<1>3. PICK i \in D : d[i].key = k
  BY <1>2 DEF NotIn
<1>4. Headed(D, KeysOf(d), P)
  BY <1>1 DEF Chained
<1> QED
  BY <1>2, <1>3, <1>4 DEF Headed, Chain

LEMMA AdvanceIs ==
  ASSUME NEW c, NEW n \in Nat, NEW f \in Nat, NEW g, g = Advance(c, n, f)
  PROVE  /\ g = Invalid \/ (g \in f + 1 .. n - 1 /\ c[g].key = NoKey)
         /\ \A j \in f + 1 .. n - 1 : j < g => c[j].key # NoKey
<1>1. PICK later : later = {i \in f + 1 .. n - 1 : IsEmpty(c[i])}
  OBVIOUS
<1>2. g = IF later = {} THEN Invalid ELSE Min(later)
  BY <1>1 DEF Advance
<1>3. later \subseteq Nat
  BY <1>1
<1>4. later # {} => Min(later) \in later /\ \A j \in later : Min(later) <= j
  BY <1>3, LeastElement
<1>5. ASSUME NEW j \in later, j < g PROVE FALSE
  <2>1. later # {} /\ g = Min(later) /\ g <= j
    BY <1>2, <1>4
  <2>2. j \in Nat /\ g \in Nat
    BY <1>3, <1>4, <2>1
  <2> QED
    BY <1>5, <2>1, <2>2
<1> QED
  BY <1>1, <1>2, <1>4, <1>5 DEF IsEmpty

\* no entry before the free index is empty
First(d, n, f) == \A j \in 0 .. n - 1 : j < f => j \in UsedIn(d)

\* what a call that sets k to v does to an array
HasSet(d, n, f, e, g, k, v) ==
  /\ NotIn(d, k) /\ Table(e, n, g) /\ Pairs(e) = Pairs(d) \cup {<<k, v>>}
  /\ First(d, n, f) => First(e, n, g)

\* from f on, g passes by i and by entries in use
Passes(d, n, f, i, g) ==
  \A j \in 0 .. n - 1 : j < g => j < f \/ j = i \/ j \in UsedIn(d)

KeepsArray(d, e, n) ==
  \A s \in {n, n + 1} : IsArray(d, 0 .. s - 1, Positions[n - 1])
                          => IsArray(e, 0 .. s - 1, Positions[n - 1])

LEMMA SetTable ==
  ASSUME NEW d, NEW n, NEW f, Table(d, n, f), NEW k, NEW v, NotIn(d, k),
         NEW e, NEW i, IsSet(d, e, i, k, v), i < n,
         KeepsArray(d, e, n),
         NEW g, g = Invalid \/ (g \in (0 .. n - 1) \ UsedIn(d) /\ g # i),
         Passes(d, n, f, i, g)
  PROVE  HasSet(d, n, f, e, g, k, v)
<1>1. UsedIn(e) = UsedIn(d) \cup {i}
  BY DEF IsSet
<1>2. g = Invalid \/ g \in (0 .. n - 1) \ UsedIn(e)
  BY <1>1
<1>3. \A j \in UsedIn(e) : j < n
  BY <1>1 DEF Table
<1>4. Table(e, n, g)
  BY <1>2, <1>3 DEF Table, KeepsArray
<1>5. First(d, n, f) => First(e, n, g)
  BY <1>1 DEF First, Passes
<1> QED
  BY <1>4, <1>5 DEF HasSet, IsSet

DoesSet(d, n, f, k, v) ==
  \/ HasSet(d, n, f, data', freeIndex', k, v) /\ rc' = "None" /\ CopyKey(k)
  \/ ~ NotIn(d, k) /\ data' = d /\ freeIndex' = f /\ rc' = "Again" /\ UNCHANGED copies

LEMMA SetInDoes ==
  ASSUME NEW d, NEW n, NEW f, Table(d, n, f), NEW k \in Keys, NEW v \in Values,
         d[MainPos(k, n - 1)].key = NoKey \/ f # Invalid,
         SetIn(d, n, f, k, v)
  PROVE  DoesSet(d, n, f, k, v)
<1>1. PICK P : P = Positions[n - 1]
  OBVIOUS
<1>2. PICK s \in {n, n + 1} : IsArray(d, 0 .. s - 1, P)
  BY <1>1 DEF Table
<1>3. PICK D : D = 0 .. s - 1
  OBVIOUS
<1>4. n \in Nat /\ n - 1 \in 0 .. MaxCapacity /\ n - 1 \in Nat
  BY HashTblAssumption DEF Table, HashTblAssumption, MinCapacity
<1>5. PICK p : p = MainPos(k, n - 1)
  OBVIOUS
<1>6. p = P[k] /\ p \in 0 .. n - 1 /\ p \in D
  BY <1>1, <1>2, <1>3, <1>4, <1>5, PositionIs DEF MainPos
<1>7. IsArray(d, D, P) /\ d \in [D -> EntryOf(D)] /\ DOMAIN d = D
  BY <1>2, <1>3 DEF IsArray
<1>8. k # NoKey
  BY KeyIsKey
<1>9. \A t \in {n, n + 1} : IsArray(d, 0 .. t - 1, P) => t = s
  <2> SUFFICES ASSUME NEW t \in {n, n + 1}, IsArray(d, 0 .. t - 1, P) PROVE t = s
    OBVIOUS
  <2>1. DOMAIN d = 0 .. t - 1 /\ DOMAIN d = 0 .. s - 1
    BY <1>3, <1>7 DEF IsArray
  <2>2. n \in 0 .. t - 1 <=> n \in 0 .. s - 1
    BY <2>1
  <2> QED
    BY <1>2, <1>4, <2>2
<1>10. UsedIn(d) = {i \in D : d[i].key # NoKey}
  BY <1>7 DEF UsedIn
<1>11. f = Invalid \/ (f \in 0 .. n - 1 /\ f \in D /\ f \notin UsedIn(d) /\ d[f].key = NoKey)
  BY <1>2, <1>3, <1>4, <1>10 DEF Table
<1>12. CASE d[p].key = NoKey
  <2>1. PICK e : e = Inserted(d, p, k, v)
    OBVIOUS
  <2>2. PICK g : g = IF p = f THEN Advance(d, n, f) ELSE f
    OBVIOUS
  <2>3. data' = e /\ freeIndex' = g /\ rc' = "None" /\ CopyKey(k)
    BY <1>5, <1>12, <2>1, <2>2 DEF SetIn, IsEmpty
  <2>4. NotIn(d, k)
    BY <1>6, <1>7, <1>8, <1>12, HomeOf DEF Chain
  <2>5. IsArray(e, D, P) /\ IsSet(d, e, p, k, v)
    BY <1>6, <1>7, <1>12, <2>1, <2>4, InsertHome
  <2>6. g = Invalid \/ (g \in (0 .. n - 1) \ UsedIn(d) /\ g # p)
    <3>1. CASE p = f
      <4>1. g = Advance(d, n, f) /\ f \in Nat
        BY <1>6, <2>2, <3>1
      <4>2. g = Invalid \/ (g \in f + 1 .. n - 1 /\ d[g].key = NoKey)
        BY <1>4, <4>1, AdvanceIs
      <4> QED
        BY <1>10, <3>1, <4>1, <4>2
    <3>2. CASE p # f
      BY <1>11, <2>2, <3>2
    <3> QED
      BY <3>1, <3>2
  <2>7. Passes(d, n, f, p, g)
    <3>1. CASE p = f
      <4>1. g = Advance(d, n, f) /\ f \in Nat
        BY <1>6, <2>2, <3>1
      <4>2. \A j \in f + 1 .. n - 1 : j < g => d[j].key # NoKey /\ j \in D
        BY <1>2, <1>3, <1>4, <4>1, AdvanceIs
      <4>3. \A j \in 0 .. n - 1 : j < f \/ j = f \/ j \in f + 1 .. n - 1
        BY <1>4, <4>1
      <4> QED
        BY <1>10, <3>1, <4>2, <4>3 DEF Passes
    <3>2. CASE p # f
      BY <2>2, <3>2 DEF Passes
    <3> QED
      BY <3>1, <3>2
  <2>8. HasSet(d, n, f, e, g, k, v)
    <3>1. KeepsArray(d, e, n)
      BY <1>1, <1>3, <1>9, <2>5 DEF KeepsArray
    <3>2. p < n
      BY <1>4, <1>6
    <3> QED
      BY <2>4, <2>5, <2>6, <2>7, <3>1, <3>2, SetTable
  <2> QED
    BY <2>3, <2>8 DEF DoesSet
<1>13. CASE d[p].key # NoKey
  <2>1. f \in 0 .. n - 1 /\ f \in D /\ f \notin UsedIn(d) /\ d[f].key = NoKey /\ f \in Nat /\ f < n
    BY <1>4, <1>5, <1>11, <1>13
  <2>2. PICK main : main = MainPos(d[p].key, n - 1)
    OBVIOUS
  <2>3. main = P[d[p].key]
    BY <1>1, <2>2 DEF MainPos
  <2>4. CASE main # p
    <3>1. PICK q : q = PrevOf([d EXCEPT ![f] = d[p]], main, p)
      OBVIOUS
    <3>2. PICK c : c = [[d EXCEPT ![f] = d[p]] EXCEPT ![q].next = f]
      OBVIOUS
    <3>3. PICK e : e = Moved(d, f, p, q, k, v)
      OBVIOUS
    <3>4. PICK g : g = Advance(c, n, f)
      OBVIOUS
    <3>5. data' = e /\ freeIndex' = g /\ rc' = "None" /\ CopyKey(k)
      BY <1>5, <1>13, <2>2, <2>4, <3>1, <3>2, <3>3, <3>4 DEF SetIn, IsEmpty, Moved
    <3>6. NotIn(d, k)
      BY <1>6, <1>7, <1>8, <2>3, <2>4, HomeOf DEF Chain
    <3>7. IsPrev(d, f, P[d[p].key], p, q)
      BY <2>3, <3>1 DEF IsPrev
    <3>8. IsArray(e, D, P) /\ IsSet(d, e, f, k, v)
      BY <1>6, <1>7, <1>13, <2>1, <2>3, <2>4, <3>3, <3>6, <3>7, InsertEvicting
    <3>9. /\ g = Invalid \/ (g \in (0 .. n - 1) \ UsedIn(d) /\ g # f)
          /\ Passes(d, n, f, f, g)
      <4>1. /\ g = Invalid \/ (g \in f + 1 .. n - 1 /\ c[g].key = NoKey)
            /\ \A j \in f + 1 .. n - 1 : j < g => c[j].key # NoKey
        BY <1>4, <2>1, <3>4, AdvanceIs
      <4>2. \A j \in D : j # f => c[j].key = d[j].key
        <5>1. PICK b : b = [d EXCEPT ![f] = d[p]]
          OBVIOUS
        <5>2. \A j \in D : j # f => b[j] = d[j]
          BY <1>7, <5>1
        <5>3. c = [b EXCEPT ![q].next = f] /\ b \in [D -> EntryOf(D)]
          BY <1>6, <1>7, <2>1, <3>2, <5>1
        <5>4. \A j \in D : c[j].key = b[j].key
          BY <5>3 DEF EntryOf
        <5> QED
          BY <5>2, <5>4
      <4>3. \A j \in f + 1 .. n - 1 : j \in D /\ j # f /\ j \in 0 .. n - 1
        BY <1>2, <1>3, <1>4, <2>1
      <4>4. \A j \in 0 .. n - 1 : j < f \/ j = f \/ j \in f + 1 .. n - 1
        BY <1>4, <2>1
      <4>5. Passes(d, n, f, f, g)
        BY <1>10, <4>1, <4>2, <4>3, <4>4 DEF Passes
      <4> QED
        BY <1>10, <4>1, <4>2, <4>3, <4>5
    <3>10. HasSet(d, n, f, e, g, k, v)
      <4>1. KeepsArray(d, e, n)
        BY <1>1, <1>3, <1>9, <3>8 DEF KeepsArray
      <4> QED
        BY <2>1, <3>6, <3>8, <3>9, <4>1, SetTable
    <3> QED
      BY <3>5, <3>10 DEF DoesSet
  <2>5. CASE main = p
    <3>1. p \in Chain(d, P, p)
      BY <1>6, <1>7, <1>13, <2>3, <2>5 DEF Chain
    <3>2. InChains(d, P)
      BY <1>7 DEF IsArray
    <3>3. CASE FirstKey(d, p, k) # Invalid
      <4>1. ~ NotIn(d, k)
        BY <3>1, <3>2, <3>3, FirstKeyWithin DEF Chain, NotIn
      <4>2. data' = d /\ freeIndex' = f /\ rc' = "Again" /\ UNCHANGED copies
        BY <1>5, <1>13, <2>2, <2>5, <3>3 DEF SetIn, IsEmpty, FirstKey
      <4> QED
        BY <4>1, <4>2 DEF DoesSet
    <3>4. CASE FirstKey(d, p, k) = Invalid
      <4>1. \A i \in Chain(d, P, p) : d[i].key # k
        BY <1>7, <3>1, <3>2, <3>4, FirstKeyWithin DEF IsArray, Chain
      <4>2. NotIn(d, k)
        BY <1>6, <1>8, <4>1 DEF NotIn, Chain
      <4>3. PICK c : c = [d EXCEPT ![LastOf(d, p)].next = f]
        OBVIOUS
      <4>4. PICK e : e = Inserted(c, f, k, v)
        OBVIOUS
      <4>5. PICK g : g = Advance(c, n, f)
        OBVIOUS
      <4>6. data' = e /\ freeIndex' = g /\ rc' = "None" /\ CopyKey(k)
        BY <1>5, <1>13, <2>2, <2>5, <3>4, <4>3, <4>4, <4>5 DEF SetIn, IsEmpty, FirstKey
      <4>7. IsArray(e, D, P) /\ IsSet(d, e, f, k, v)
        <5>1. e = Inserted([d EXCEPT ![LastOf(d, P[k])].next = f], f, k, v) /\ P[k] \in Chain(d, P, P[k])
          BY <1>6, <3>1, <4>3, <4>4
        <5> QED
          BY <1>7, <2>1, <4>2, <5>1, InsertEnd
      <4>8. /\ g = Invalid \/ (g \in (0 .. n - 1) \ UsedIn(d) /\ g # f)
            /\ Passes(d, n, f, f, g)
        <5>1. /\ g = Invalid \/ (g \in f + 1 .. n - 1 /\ c[g].key = NoKey)
              /\ \A j \in f + 1 .. n - 1 : j < g => c[j].key # NoKey
          BY <1>4, <2>1, <4>5, AdvanceIs
        <5>2. \A j \in D : c[j].key = d[j].key
          BY <1>7, <2>1, <4>3 DEF EntryOf
        <5>3. \A j \in f + 1 .. n - 1 : j \in D /\ j # f /\ j \in 0 .. n - 1
          BY <1>2, <1>3, <1>4, <2>1
        <5>4. \A j \in 0 .. n - 1 : j < f \/ j = f \/ j \in f + 1 .. n - 1
          BY <1>4, <2>1
        <5>5. Passes(d, n, f, f, g)
          BY <1>10, <5>1, <5>2, <5>3, <5>4 DEF Passes
        <5> QED
          BY <1>10, <5>1, <5>2, <5>3, <5>5
      <4>9. HasSet(d, n, f, e, g, k, v)
        <5>1. KeepsArray(d, e, n)
          BY <1>1, <1>3, <1>9, <4>7 DEF KeepsArray
        <5> QED
          BY <2>1, <4>2, <4>7, <4>8, <5>1, SetTable
      <4> QED
        BY <4>6, <4>9 DEF DoesSet
    <3> QED
      BY <3>3, <3>4
  <2> QED
    BY <2>4, <2>5
<1> QED
  BY <1>12, <1>13

-----------------------------------------------------------------------------
(* tbl_remove_impl *)

\* the key k has been removed, and the entry i is free
IsRemoved(d, e, i, k) ==
  /\ i \in UsedIn(d) /\ UsedIn(e) = UsedIn(d) \ {i}
  /\ Pairs(e) = {x \in Pairs(d) : x[1] # k}

Keyed(d) == \A i, j \in DOMAIN d : (d[i].key = d[j].key /\ d[i].key # NoKey) => i = j

LEMMA KeyedIs ==
  ASSUME NEW D, NEW P, NEW d, IsArray(d, D, P)
  PROVE  Keyed(d)
<1>1. DOMAIN d = D /\ Unique(D, KeysOf(d))
  BY DEF IsArray, InChains, Chained
<1> QED
  BY <1>1 DEF Unique, KeysOf, Keyed

LEMMA RemovedShown ==
  ASSUME NEW d, NEW e, DOMAIN e = DOMAIN d, NEW k, k # NoKey, Keyed(d),
         NEW i \in DOMAIN d, d[i].key = k, e[i].key = NoKey, SameBut(d, e, i)
  PROVE  IsRemoved(d, e, i, k)
<1>1. \A j \in DOMAIN d : j # i => e[j].key = d[j].key /\ e[j].value = d[j].value /\ d[j].key # k
  BY DEF SameBut, Keyed
<1>2. \A j : j \in UsedIn(e) <=> j \in UsedIn(d) /\ j # i
  BY <1>1 DEF UsedIn
<1>3. i \in UsedIn(d) /\ UsedIn(e) = UsedIn(d) \ {i}
  <2>1. i \in UsedIn(d)
    BY DEF UsedIn
  <2> QED
    BY <1>2, <2>1
<1>4. \A j \in UsedIn(d) : j # i => e[j].key = d[j].key /\ e[j].value = d[j].value /\ d[j].key # k
  BY <1>1 DEF UsedIn
<1>5. ASSUME NEW x \in Pairs(e) PROVE x \in Pairs(d) /\ x[1] # k
  <2>1. PICK j \in UsedIn(e) : x = <<e[j].key, e[j].value>>
    BY DEF Pairs
  <2>2. j \in UsedIn(d) /\ x = <<d[j].key, d[j].value>> /\ d[j].key # k
    BY <1>2, <1>4, <2>1
  <2> QED
    BY <2>2 DEF Pairs
<1>6. ASSUME NEW x \in Pairs(d), x[1] # k PROVE x \in Pairs(e)
  <2>1. PICK j \in UsedIn(d) : x = <<d[j].key, d[j].value>>
    BY DEF Pairs
  <2>2. j # i
    BY <1>6, <2>1
  <2>3. j \in UsedIn(e) /\ x = <<e[j].key, e[j].value>>
    BY <1>2, <1>4, <2>1, <2>2
  <2> QED
    BY <2>3 DEF Pairs
<1> QED
  BY <1>3, <1>5, <1>6 DEF IsRemoved

LEMMA EmptyIs ==
  ASSUME NEW D
  PROVE  /\ EmptyEntry \in EntryOf(D)
         /\ EmptyEntry.key = NoKey /\ EmptyEntry.value = NoKey /\ EmptyEntry.next = Invalid
BY DEF EmptyEntry, EntryOf

LEMMA RemoveLinked ==
  ASSUME NEW D, NEW P, NEW d, IsArray(d, D, P), NEW k, k # NoKey,
         NEW c \in D, d[c].key = k, c # P[k],
         NEW q, q = PrevOf(d, P[k], c),
         NEW e, e = [d EXCEPT ![q].next = d[c].next, ![c] = EmptyEntry]
  PROVE  IsArray(e, D, P) /\ IsRemoved(d, e, c, k)
<1>1. /\ d \in [D -> EntryOf(D)] /\ D \subseteq Nat /\ Invalid \notin D /\ InChains(d, P)
      /\ DOMAIN d = D
  BY DEF IsArray
<1> DEFINE key == KeysOf(d)
           nxt == LinksOf(d)
<1>2. Chained(D, key, nxt, P)
  BY <1>1 DEF InChains
<1>3. \A i \in D : key[i] = d[i].key /\ nxt[i] = d[i].next
  BY <1>1 DEF KeysOf, LinksOf
<1> HIDE DEF key, nxt
<1>4. Reached(D, key, nxt, P) /\ Ranked(D, nxt)
  BY <1>2 DEF Chained
<1>5. PICK l \in D : nxt[l] = c
  BY <1>3, <1>4 DEF Reached
<1>6. l = q
  <2>1. d[l].next = c /\ CopyOf(d, d, c) /\ l \in DOMAIN d /\ c \in DOMAIN d
    BY <1>1, <1>3, <1>5 DEF CopyOf
  <2>2. PrevOf(d, P[d[c].key], c) = l
    BY <1>1, <2>1, PrevWithin
  <2> QED
    BY <2>2
<1>7. l # c
  <2>1. PICK b, r : RankedBy(D, nxt, b, r)
    BY <1>4 DEF Ranked
  <2>2. r[l] < r[c] /\ r[c] \in Nat
    BY <1>1, <1>5, <2>1 DEF RankedBy
  <2> QED
    BY <2>2
<1>8. PICK n : n = d[c].next
  OBVIOUS
<1>9. n \in D \cup {Invalid}
  BY <1>1, <1>8 DEF EntryOf
<1>10. PICK a : a = [d EXCEPT ![l].next = n]
  OBVIOUS
<1>11. Changed(D, d, a, l, d[l].key, d[l].value, n)
  BY <1>1, <1>9, <1>10, LinkedIs
<1>12. e = [a EXCEPT ![c] = EmptyEntry]
  BY <1>6, <1>8, <1>10
<1>13. a \in [D -> EntryOf(D)] /\ \A i \in D : a[i].key = d[i].key /\ a[i].value = d[i].value
  BY <1>11 DEF Changed
<1>14. e \in [D -> EntryOf(D)] /\ e[c] = EmptyEntry /\ \A i \in D : i # c => e[i] = a[i]
  BY <1>12, <1>13, EmptyIs
<1>15. e[c].key = NoKey /\ e[c].next = Invalid /\ DOMAIN e = D
  BY <1>14, EmptyIs
<1>16. \A i \in D : i # c => e[i].key = d[i].key /\ e[i].value = d[i].value
  BY <1>13, <1>14
<1>17. e[l].next = n /\ \A i \in D : i # c /\ i # l => e[i].next = d[i].next
  BY <1>7, <1>11, <1>14 DEF Changed
<1>18. KeysOf(e) = [key EXCEPT ![c] = NoKey]
  BY <1>1, <1>15, <1>16 DEF KeysOf, key
<1>19. LinksOf(e) = [nxt EXCEPT ![l] = nxt[c], ![c] = Invalid]
  BY <1>1, <1>7, <1>8, <1>15, <1>17 DEF LinksOf, nxt
<1>20. IsArray(e, D, P)
  <2>1. Chained(D, KeysOf(e), LinksOf(e), P)
    BY <1>2, <1>5, <1>18, <1>19, Unlinked
  <2> QED
    BY <1>1, <1>14, <1>15, <2>1 DEF IsArray, InChains
<1>21. IsRemoved(d, e, c, k)
  <2>1. SameBut(d, e, c) /\ Keyed(d)
    BY <1>1, <1>16, KeyedIs DEF SameBut
  <2> QED
    BY <1>1, <1>15, <2>1, RemovedShown
<1> QED
  BY <1>20, <1>21

LEMMA RemoveAlone ==
  ASSUME NEW D, NEW P, NEW d, IsArray(d, D, P), NEW k, k # NoKey,
         NEW p \in D, p = P[k], d[p].key = k, d[p].next = Invalid,
         NEW e, e = [d EXCEPT ![p] = EmptyEntry]
  PROVE  IsArray(e, D, P) /\ IsRemoved(d, e, p, k)
<1>1. /\ d \in [D -> EntryOf(D)] /\ D \subseteq Nat /\ Invalid \notin D /\ InChains(d, P)
      /\ DOMAIN d = D
  BY DEF IsArray
<1>2. e \in [D -> EntryOf(D)] /\ e[p] = EmptyEntry /\ \A i \in D : i # p => e[i] = d[i]
  BY <1>1, EmptyIs
<1>3. e[p].key = NoKey /\ e[p].next = Invalid /\ DOMAIN e = D
  BY <1>2, EmptyIs
<1>4. KeysOf(e) = [KeysOf(d) EXCEPT ![p] = NoKey]
  BY <1>1, <1>2, <1>3 DEF KeysOf
<1>5. LinksOf(e) = LinksOf(d)
  BY <1>1, <1>2, <1>3 DEF LinksOf
<1>6. IsArray(e, D, P)
  <2>1. Chained(D, KeysOf(d), LinksOf(d), P)
    BY <1>1 DEF InChains
  <2>2. KeysOf(d)[p] = k /\ LinksOf(d)[p] = Invalid
    BY <1>1 DEF KeysOf, LinksOf
  <2>3. Chained(D, KeysOf(e), LinksOf(d), P)
    BY <1>4, <2>1, <2>2, LastRemoved
  <2> QED
    BY <1>1, <1>2, <1>3, <1>5, <2>3 DEF IsArray, InChains
<1>7. IsRemoved(d, e, p, k)
  <2>1. SameBut(d, e, p) /\ Keyed(d)
    BY <1>1, <1>2, KeyedIs DEF SameBut
  <2> QED
    BY <1>1, <1>3, <2>1, RemovedShown
<1> QED
  BY <1>6, <1>7

LEMMA RemoveFirst ==
  ASSUME NEW D, NEW P, NEW d, IsArray(d, D, P), NEW k, k # NoKey,
         NEW p \in D, p = P[k], d[p].key = k,
         NEW s, s = d[p].next, s # Invalid,
         NEW e, e = [d EXCEPT ![p] = d[s], ![s] = EmptyEntry]
  PROVE  IsArray(e, D, P) /\ IsRemoved(d, e, s, k)
<1>1. /\ d \in [D -> EntryOf(D)] /\ D \subseteq Nat /\ Invalid \notin D /\ InChains(d, P)
      /\ DOMAIN d = D
  BY DEF IsArray
<1>2. s \in D
  BY <1>1 DEF EntryOf
<1> DEFINE key == KeysOf(d)
           nxt == LinksOf(d)
<1>3. Chained(D, key, nxt, P)
  BY <1>1 DEF InChains
<1>4. \A i \in D : key[i] = d[i].key /\ nxt[i] = d[i].next
  BY <1>1 DEF KeysOf, LinksOf
<1> HIDE DEF key, nxt
<1>5. s # p /\ d[s].key # NoKey
  <2>1. Links(D, key, nxt, P)
    BY <1>3 DEF Chained
  <2> QED
    BY <1>2, <1>4, <2>1 DEF Links
<1>6. PICK c : c = [d EXCEPT ![p] = d[s]]
  OBVIOUS
<1>7. c \in [D -> EntryOf(D)] /\ c[p] = d[s] /\ \A i \in D : i # p => c[i] = d[i]
  BY <1>1, <1>2, <1>6
<1>8. e = [c EXCEPT ![s] = EmptyEntry]
  BY <1>6
<1>9. e \in [D -> EntryOf(D)] /\ e[s] = EmptyEntry /\ \A i \in D : i # s => e[i] = c[i]
  BY <1>2, <1>7, <1>8, EmptyIs
<1>10. e[s].key = NoKey /\ e[s].next = Invalid /\ DOMAIN e = D
  BY <1>9, EmptyIs
<1>11. e[p] = d[s] /\ \A i \in D : i # s /\ i # p => e[i] = d[i]
  BY <1>5, <1>7, <1>9
<1>12. KeysOf(e) = [key EXCEPT ![p] = key[s], ![s] = NoKey]
  BY <1>1, <1>2, <1>5, <1>10, <1>11 DEF KeysOf, key
<1>13. LinksOf(e) = [nxt EXCEPT ![p] = nxt[s], ![s] = Invalid]
  BY <1>1, <1>2, <1>5, <1>10, <1>11 DEF LinksOf, nxt
<1>14. IsArray(e, D, P)
  <2>1. Chained(D, KeysOf(e), LinksOf(e), P)
    BY <1>2, <1>3, <1>4, <1>12, <1>13, SecondMovedUp
  <2> QED
    BY <1>1, <1>9, <1>10, <2>1 DEF IsArray, InChains
<1>15. Keyed(d)
  BY KeyedIs
<1>16. \A j : j \in UsedIn(e) <=> j \in UsedIn(d) /\ j # s
  BY <1>1, <1>5, <1>10, <1>11 DEF UsedIn
<1>17. s \in UsedIn(d) /\ p \in UsedIn(d) /\ UsedIn(e) = UsedIn(d) \ {s}
  <2>1. s \in UsedIn(d) /\ p \in UsedIn(d)
    BY <1>1, <1>2, <1>5 DEF UsedIn
  <2> QED
    BY <1>16, <2>1
<1>18. \A j \in UsedIn(d) : j # p => d[j].key # k
  BY <1>1, <1>15 DEF UsedIn, Keyed
<1>19. \A j \in UsedIn(d) : j # p /\ j # s => e[j] = d[j]
  BY <1>1, <1>11 DEF UsedIn
<1>20. ASSUME NEW x \in Pairs(e) PROVE x \in Pairs(d) /\ x[1] # k
  <2>1. PICK j \in UsedIn(e) : x = <<e[j].key, e[j].value>>
    BY DEF Pairs
  <2>2. PICK i \in UsedIn(d) : i # p /\ x = <<d[i].key, d[i].value>>
    <3>1. CASE j = p
      BY <1>5, <1>11, <1>17, <2>1, <3>1
    <3>2. CASE j # p
      BY <1>16, <1>19, <2>1, <3>2
    <3> QED
      BY <3>1, <3>2
  <2> QED
    BY <1>18, <2>2 DEF Pairs
<1>21. ASSUME NEW x \in Pairs(d), x[1] # k PROVE x \in Pairs(e)
  <2>1. PICK j \in UsedIn(d) : x = <<d[j].key, d[j].value>>
    BY DEF Pairs
  <2>2. j # p
    BY <1>21, <2>1
  <2>3. PICK i \in UsedIn(e) : x = <<e[i].key, e[i].value>>
    <3>1. CASE j = s
      BY <1>5, <1>11, <1>16, <1>17, <2>1, <3>1
    <3>2. CASE j # s
      BY <1>16, <1>19, <2>1, <2>2, <3>2
    <3> QED
      BY <3>1, <3>2
  <2> QED
    BY <2>3 DEF Pairs
<1> QED
  BY <1>14, <1>17, <1>20, <1>21 DEF IsRemoved

-----------------------------------------------------------------------------
(* tbl_realloc *)

PairsTo(d, i) == {<<d[j].key, d[j].value>> : j \in {l \in 0 .. i - 1 : d[l].key # NoKey}}

\* the entries below f and those in use, of which there are not more than i
Taken(d, f) == (0 .. f - 1) \cup UsedIn(d)
AtMost(S, i) == IsFiniteSet(S) /\ Cardinality(S) <= i

\* d and f are the new array and its free index when i entries of old are placed
Placing(old, c, i, d, f) ==
  /\ IsArray(d, 0 .. 2 * c - 1, Positions[2 * c - 1])
  /\ f \in (0 .. 2 * c - 1) \ UsedIn(d)
  /\ \A j \in UsedIn(d) : j < 2 * c - 1
  /\ Pairs(d) = PairsTo(old, i)
  /\ AtMost(Taken(d, f), i)

\* no entry of old has a main position in the new array that the next call would not use
SamePlaces(old, c) ==
  \A i \in UsedIn(old) : MainPos(old[i].key, 2 * c - 1) = MainPos(old[i].key, 2 * c - 2)

\* no entry before an empty one goes to the position 0
EmptiesFit(old, c) ==
  \A i, j \in 0 .. c - 1 :
    (i < j /\ old[i].key # NoKey /\ old[j].key = NoKey) => MainPos(old[i].key, 2 * c - 1) # 0

FitsTwice(old, c) == SamePlaces(old, c) /\ EmptiesFit(old, c)

LEMMA SubsetAtMost ==
  ASSUME NEW S, NEW i \in Nat, AtMost(S, i), NEW x, NEW W, W \subseteq S \cup {x}
  PROVE  AtMost(W, i + 1)
<1>1. IsFiniteSet(S) /\ Cardinality(S) \in Nat /\ Cardinality(S) <= i
  BY FS_CardinalityType DEF AtMost
<1>2. PICK V : V = S \cup {x}
  OBVIOUS
<1>3. /\ IsFiniteSet(V)
      /\ Cardinality(V) = IF x \in S THEN Cardinality(S) ELSE Cardinality(S) + 1
  BY <1>1, <1>2, FS_AddElement
<1>4. IsFiniteSet(W) /\ Cardinality(W) <= Cardinality(V)
  BY <1>2, <1>3, FS_Subset
<1>5. Cardinality(W) \in Nat /\ Cardinality(V) \in Nat
  BY <1>3, <1>4, FS_CardinalityType
<1> QED
  BY <1>1, <1>3, <1>4, <1>5 DEF AtMost

LEMMA NextEmptyIs ==
  ASSUME NEW m \in Nat, NEW y, DOMAIN y = 0 .. m - 1, NEW f \in 0 .. m - 1,
         NEW i \in Nat, i < m, AtMost((0 .. f) \cup UsedIn(y), i),
         NEW g, g = NextEmpty(y, f)
  PROVE  g \in (0 .. m - 1) \ UsedIn(y) /\ Taken(y, g) = (0 .. f) \cup UsedIn(y)
<1> DEFINE W == (0 .. f) \cup UsedIn(y)
           later == {j \in DOMAIN y : j > f /\ IsEmpty(y[j])}
<1>1. UsedIn(y) = {j \in 0 .. m - 1 : y[j].key # NoKey}
  BY DEF UsedIn
<1>2. later = {j \in 0 .. m - 1 : j > f /\ j \notin UsedIn(y)}
  BY <1>1 DEF IsEmpty
<1>3. later # {}
  <2> SUFFICES ASSUME later = {} PROVE FALSE
    OBVIOUS
  <2>1. 0 .. m - 1 \subseteq W
    BY <1>2
  <2>2. IsFiniteSet(W) /\ Cardinality(W) <= i /\ Cardinality(W) \in Nat
    BY FS_CardinalityType DEF AtMost
  <2> HIDE DEF W
  <2>3. Cardinality(0 .. m - 1) <= Cardinality(W)
    BY <2>1, <2>2, FS_Subset
  <2>4. Cardinality(0 .. m - 1) = m
    BY FS_Interval
  <2> QED
    BY <2>2, <2>3, <2>4
<1>4. later \subseteq Nat
  BY <1>2
<1>5. g = Min(later)
  BY DEF NextEmpty
<1> HIDE DEF later
<1>6. g \in later /\ \A j \in later : g <= j
  BY <1>3, <1>4, <1>5, LeastElement
<1>7. g \in (0 .. m - 1) \ UsedIn(y) /\ g > f
  BY <1>2, <1>6
<1>8. \A j \in 0 .. g - 1 : j \in W
  <2> SUFFICES ASSUME NEW j \in 0 .. g - 1, j \notin 0 .. f, j \notin UsedIn(y) PROVE FALSE
    OBVIOUS
  <2>1. j \in later
    BY <1>2, <1>7
  <2> QED
    BY <1>6, <1>7, <2>1
<1>9. 0 .. f \subseteq 0 .. g - 1
  BY <1>7
<1> QED
  BY <1>7, <1>8, <1>9 DEF Taken

LEMMA PlacingNext ==
  ASSUME NEW old, NEW c \in Nat, NEW i \in Nat, i < c,
         NEW d, NEW f, Placing(old, c, i, d, f),
         NEW y, IsArray(y, 0 .. 2 * c - 1, Positions[2 * c - 1]),
         NEW x, UsedIn(y) \subseteq UsedIn(d) \cup {x}, x < 2 * c - 1,
         Pairs(y) = PairsTo(old, i + 1),
         NEW g, \/ g = f /\ f \notin UsedIn(y)
                \/ g = NextEmpty(y, f) /\ x = f
  PROVE  Placing(old, c, i + 1, y, g)
<1>1. \A j \in UsedIn(y) : j < 2 * c - 1
  BY DEF Placing
<1>2. f \in 0 .. 2 * c - 1 /\ AtMost(Taken(d, f), i)
  BY DEF Placing
<1>3. CASE g = f /\ f \notin UsedIn(y)
  <2>1. Taken(y, f) \subseteq Taken(d, f) \cup {x}
    BY DEF Taken
  <2>2. AtMost(Taken(y, f), i + 1)
    BY <1>2, <2>1, SubsetAtMost
  <2> QED
    BY <1>1, <1>2, <1>3, <2>2 DEF Placing
<1>4. CASE g = NextEmpty(y, f) /\ x = f
  <2>1. PICK W : W = (0 .. f) \cup UsedIn(y)
    OBVIOUS
  <2>2. W \subseteq Taken(d, f) \cup {f}
    BY <1>2, <1>4, <2>1 DEF Taken
  <2>3. AtMost(W, i + 1)
    BY <1>2, <2>2, SubsetAtMost
  <2>4. PICK m : m = 2 * c /\ m \in Nat /\ i + 1 < m /\ i + 1 \in Nat
    OBVIOUS
  <2>5. DOMAIN y = 0 .. m - 1
    BY <2>4 DEF IsArray
  <2>6. g \in (0 .. m - 1) \ UsedIn(y) /\ Taken(y, g) = W
    BY <1>2, <1>4, <2>1, <2>3, <2>4, <2>5, NextEmptyIs
  <2> QED
    BY <1>1, <2>3, <2>4, <2>6 DEF Placing
<1> QED
  BY <1>3, <1>4

\* the three things that Place does with an entry with key k and value v
PlacesHome(d, f, y, g, p, k, v) ==
  /\ d[p].key = NoKey /\ y = Inserted(d, p, k, v)
  /\ g = IF p = f THEN NextEmpty(y, f) ELSE f

PlacesEvicting(mask, d, f, y, g, p, k, v) ==
  /\ d[p].key # NoKey /\ MainPos(d[p].key, mask) # p
  /\ \E q : IsPrev(d, f, MainPos(d[p].key, mask), p, q) /\ y = Moved(d, f, p, q, k, v)
  /\ g = NextEmpty(y, f)

PlacesAtEnd(mask, d, f, y, g, p, k, v) ==
  /\ d[p].key # NoKey /\ MainPos(d[p].key, mask) = p
  /\ y = Inserted([d EXCEPT ![LastOf(d, p)].next = f], f, k, v)
  /\ g = NextEmpty(y, f)

LEMMA PlaceIs ==
  ASSUME NEW mask, NEW d, NEW f, NEW e,
         NEW p, p = IF e.key = NoKey THEN 0 ELSE MainPos(e.key, mask)
  PROVE  \E y, g : /\ Place(mask, d, f, e) = <<y, g>>
                   /\ \/ PlacesHome(d, f, y, g, p, e.key, e.value)
                      \/ PlacesEvicting(mask, d, f, y, g, p, e.key, e.value)
                      \/ PlacesAtEnd(mask, d, f, y, g, p, e.key, e.value)
<1>1. CASE d[p].key = NoKey
  <2>1. PICK y, g : y = Inserted(d, p, e.key, e.value) /\ g = IF p = f THEN NextEmpty(y, f) ELSE f
    OBVIOUS
  <2>2. Place(mask, d, f, e) = <<y, g>>
    BY <1>1, <2>1 DEF Place, IsEmpty, Copied, Inserted
  <2> QED
    BY <1>1, <2>1, <2>2 DEF PlacesHome
<1>2. CASE d[p].key # NoKey /\ MainPos(d[p].key, mask) # p
  <2>1. PICK q : q = PrevOf([d EXCEPT ![f] = d[p]], MainPos(d[p].key, mask), p)
    OBVIOUS
  <2>2. PICK y, g : y = Moved(d, f, p, q, e.key, e.value) /\ g = NextEmpty(y, f)
    OBVIOUS
  <2>3. Place(mask, d, f, e) = <<y, g>>
    BY <1>2, <2>1, <2>2 DEF Place, IsEmpty, Copied, Inserted, Moved
  <2> QED
    BY <1>2, <2>1, <2>2, <2>3 DEF PlacesEvicting, IsPrev
<1>3. CASE d[p].key # NoKey /\ MainPos(d[p].key, mask) = p
  <2>1. PICK y, g : y = Inserted([d EXCEPT ![LastOf(d, p)].next = f], f, e.key, e.value) /\ g = NextEmpty(y, f)
    OBVIOUS
  <2>2. Place(mask, d, f, e) = <<y, g>>
    BY <1>3, <2>1 DEF Place, IsEmpty, Copied, Inserted
  <2> QED
    BY <1>3, <2>1, <2>2 DEF PlacesAtEnd
<1> QED
  BY <1>1, <1>2, <1>3

\* an entry that is not in use changes the array at most by what it moves away
LEMMA EmptyWritten ==
  ASSUME NEW D, NEW P, NEW d, IsArray(d, D, P), NEW p \in D, d[p].key = NoKey,
         NEW v \in Values \cup {NoKey},
         NEW y, y = Inserted(d, p, NoKey, v)
  PROVE  IsArray(y, D, P) /\ UsedIn(y) = UsedIn(d) /\ Pairs(y) = Pairs(d)
<1>1. d \in [D -> EntryOf(D)] /\ D \subseteq Nat /\ Invalid \notin D /\ InChains(d, P) /\ DOMAIN d = D
  BY DEF IsArray
<1>2. PICK n : n = NoKey
  OBVIOUS
<1>3. n \in Keys \cup {NoKey} /\ y = Inserted(d, p, n, v)
  BY <1>2
<1>4. Changed(D, d, y, p, n, v, d[p].next)
  <2>1. d \in [D -> EntryOf(D)] /\ n \in Keys \cup {NoKey}
    BY <1>1, <1>3
  <2>2. Changed(D, d, Inserted(d, p, n, v), p, n, v, d[p].next)
    BY <2>1, InsertedIs
  <2> QED
    BY <1>3, <2>2, Zenon
<1>5. /\ y \in [D -> EntryOf(D)] /\ DOMAIN y = D
      /\ \A j \in D : y[j].key = d[j].key /\ y[j].next = d[j].next
      /\ \A j \in D : j # p => y[j] = d[j]
  BY <1>2, <1>4 DEF Changed
<1>6. KeysOf(y) = KeysOf(d) /\ LinksOf(y) = LinksOf(d)
  BY <1>1, <1>5 DEF KeysOf, LinksOf
<1>7. IsArray(y, D, P)
  BY <1>1, <1>5, <1>6 DEF IsArray, InChains
<1>8. \A j : j \in UsedIn(y) <=> j \in UsedIn(d)
  BY <1>1, <1>5 DEF UsedIn
<1>9. UsedIn(y) = UsedIn(d)
  BY <1>8
<1>10. \A j \in UsedIn(d) : y[j] = d[j]
  BY <1>1, <1>5 DEF UsedIn
<1>11. Pairs(y) = Pairs(d)
  BY <1>9, <1>10 DEF Pairs
<1> QED
  BY <1>7, <1>9, <1>11

\* old is an array of which every key is to be placed
IsOld(old, c) ==
  /\ c \in Nat /\ 2 * c - 1 \in 3 .. MaxCapacity
  /\ 0 .. c - 1 \subseteq DOMAIN old /\ Keyed(old)
  /\ \A j \in 0 .. c - 1 : old[j].key \in Keys \cup {NoKey} /\ old[j].value \in Values \cup {NoKey}

LEMMA PlaceUsed ==
  ASSUME NEW old, NEW c, IsOld(old, c), FitsTwice(old, c),
         NEW i \in 0 .. c - 1, old[i].key # NoKey,
         NEW d, NEW f, Placing(old, c, i, d, f),
         NEW y, NEW g, Place(2 * c - 1, d, f, old[i]) = <<y, g>>
  PROVE  Placing(old, c, i + 1, y, g)
<1>1. PICK k, v : k = old[i].key /\ v = old[i].value
  OBVIOUS
<1>2. k \in Keys /\ v \in Values \cup {NoKey} /\ k # NoKey
  BY <1>1 DEF IsOld
<1>3. c \in Nat /\ 2 * c - 1 \in 0 .. MaxCapacity /\ 2 * c - 2 \in 0 .. MaxCapacity /\ i \in Nat /\ i < c
  BY HashTblAssumption DEF IsOld, HashTblAssumption
<1>4. PICK mask, P, D : mask = 2 * c - 1 /\ P = Positions[mask] /\ D = 0 .. 2 * c - 1
  OBVIOUS
<1>5. \A l : MainPos(l, mask) = P[l]
  BY <1>4 DEF MainPos
<1>6. PICK p : p = P[k]
  OBVIOUS
<1>7. p \in 0 .. 2 * c - 2 /\ p \in D /\ p < 2 * c - 1
  <2>1. i \in UsedIn(old)
    BY DEF IsOld, UsedIn
  <2>2. mask - 1 = 2 * c - 2
    BY <1>3, <1>4
  <2>3. MainPos(k, mask) = MainPos(k, mask - 1)
    BY <1>1, <1>4, <2>1, <2>2 DEF FitsTwice, SamePlaces
  <2>4. MainPos(k, 2 * c - 2) \in 0 .. 2 * c - 2
    BY <1>2, <1>3, PositionIs
  <2>5. p \in 0 .. 2 * c - 2
    BY <1>5, <1>6, <2>2, <2>3, <2>4
  <2> QED
    BY <1>3, <1>4, <2>5
<1>8. IsArray(d, D, P) /\ f \in D /\ d[f].key = NoKey /\ f \notin UsedIn(d) /\ DOMAIN d = D
  BY <1>4 DEF Placing, IsArray, UsedIn
<1>9. NotIn(d, k)
  <2> SUFFICES ASSUME NEW j \in DOMAIN d, d[j].key = k PROVE FALSE
    BY DEF NotIn
  <2>1. <<k, d[j].value>> \in Pairs(d)
    BY <1>2 DEF Pairs, UsedIn
  <2>2. <<k, d[j].value>> \in PairsTo(old, i)
    BY <2>1 DEF Placing
  <2>3. PICK l \in 0 .. i - 1 : <<k, d[j].value>> = <<old[l].key, old[l].value>>
    BY <2>2 DEF PairsTo
  <2>4. old[l].key = old[i].key /\ l # i /\ l \in DOMAIN old /\ i \in DOMAIN old
    BY <1>1, <1>3, <2>3 DEF IsOld
  <2> QED
    BY <2>4 DEF IsOld, Keyed
<1>10. f < 2 * c - 1
  <2>1. AtMost(Taken(d, f), i)
    BY DEF Placing
  <2>2. f \in Nat /\ 0 .. f - 1 \subseteq Taken(d, f)
    BY <1>3, <1>4, <1>8 DEF Taken
  <2>3. Cardinality(0 .. f - 1) <= Cardinality(Taken(d, f))
    BY <2>1, <2>2, FS_Subset DEF AtMost
  <2>4. Cardinality(0 .. f - 1) = f
    BY <2>2, FS_Interval
  <2>5. Cardinality(Taken(d, f)) \in Nat /\ Cardinality(Taken(d, f)) <= i
    BY <2>1, FS_CardinalityType DEF AtMost
  <2> QED
    BY <1>3, <2>2, <2>3, <2>4, <2>5
<1>11. PairsTo(old, i + 1) = PairsTo(old, i) \cup {<<k, v>>}
  <2>1. {l \in 0 .. (i + 1) - 1 : old[l].key # NoKey} = {l \in 0 .. i - 1 : old[l].key # NoKey} \cup {i}
    BY <1>3
  <2> QED
    BY <1>1, <2>1 DEF PairsTo
<1>12. \/ PlacesHome(d, f, y, g, p, k, v)
       \/ PlacesEvicting(mask, d, f, y, g, p, k, v)
       \/ PlacesAtEnd(mask, d, f, y, g, p, k, v)
  <2>1. p = IF old[i].key = NoKey THEN 0 ELSE MainPos(old[i].key, mask)
    BY <1>1, <1>5, <1>6
  <2>2. PICK y1, g1 : /\ Place(mask, d, f, old[i]) = <<y1, g1>>
                      /\ \/ PlacesHome(d, f, y1, g1, p, old[i].key, old[i].value)
                         \/ PlacesEvicting(mask, d, f, y1, g1, p, old[i].key, old[i].value)
                         \/ PlacesAtEnd(mask, d, f, y1, g1, p, old[i].key, old[i].value)
    BY <2>1, PlaceIs
  <2>3. y1 = y /\ g1 = g
    BY <1>4, <2>2
  <2> QED
    BY <1>1, <2>2, <2>3
<1>13. PICK x : /\ IsArray(y, D, P) /\ IsSet(d, y, x, k, v) /\ x < 2 * c - 1
                /\ \/ g = f /\ f # x
                   \/ g = NextEmpty(y, f) /\ x = f
  <2>1. CASE PlacesHome(d, f, y, g, p, k, v)
    <3>1. IsArray(y, D, P) /\ IsSet(d, y, p, k, v)
      BY <1>2, <1>6, <1>7, <1>8, <1>9, <2>1, InsertHome DEF PlacesHome
    <3> QED
      BY <1>7, <2>1, <3>1 DEF PlacesHome
  <2>2. CASE PlacesEvicting(mask, d, f, y, g, p, k, v)
    <3>1. PICK q : IsPrev(d, f, P[d[p].key], p, q) /\ y = Moved(d, f, p, q, k, v)
      BY <1>5, <2>2 DEF PlacesEvicting
    <3>2. d[p].key # NoKey /\ P[d[p].key] # p /\ g = NextEmpty(y, f)
      BY <1>5, <2>2 DEF PlacesEvicting
    <3>3. IsArray(y, D, P) /\ IsSet(d, y, f, k, v)
      BY <1>2, <1>6, <1>7, <1>8, <1>9, <3>1, <3>2, InsertEvicting
    <3> QED
      BY <1>10, <3>2, <3>3
  <2>3. CASE PlacesAtEnd(mask, d, f, y, g, p, k, v)
    <3>1. d[p].key # NoKey /\ P[d[p].key] = p /\ g = NextEmpty(y, f)
      BY <1>5, <2>3 DEF PlacesAtEnd
    <3>2. y = Inserted([d EXCEPT ![LastOf(d, P[k])].next = f], f, k, v)
      BY <1>6, <2>3 DEF PlacesAtEnd
    <3>3. P[k] \in Chain(d, P, P[k])
      BY <1>6, <1>7, <1>8, <3>1 DEF Chain
    <3>4. IsArray(y, D, P) /\ IsSet(d, y, f, k, v)
      BY <1>2, <1>8, <1>9, <3>2, <3>3, InsertEnd
    <3> QED
      BY <1>10, <3>1, <3>4
  <2> QED
    BY <1>12, <2>1, <2>2, <2>3
<1>14. Pairs(y) = PairsTo(old, i + 1)
  BY <1>11, <1>13 DEF IsSet, Placing
<1>15. UsedIn(y) \subseteq UsedIn(d) \cup {x} /\ (f # x => f \notin UsedIn(y))
  BY <1>8, <1>13 DEF IsSet
<1>16. IsArray(y, 0 .. 2 * c - 1, Positions[2 * c - 1])
  BY <1>4, <1>13
<1> QED
  BY <1>3, <1>13, <1>14, <1>15, <1>16, PlacingNext

LEMMA PlaceEmpty ==
  ASSUME NEW old, NEW c, IsOld(old, c), FitsTwice(old, c),
         NEW i \in 0 .. c - 1, old[i].key = NoKey,
         NEW d, NEW f, Placing(old, c, i, d, f),
         NEW y, NEW g, Place(2 * c - 1, d, f, old[i]) = <<y, g>>
  PROVE  Placing(old, c, i + 1, y, g)
<1>1. PICK v : v = old[i].value /\ v \in Values \cup {NoKey}
  BY DEF IsOld
<1>2. c \in Nat /\ 2 * c - 1 \in 3 .. MaxCapacity /\ i \in Nat /\ i < c
  BY DEF IsOld
<1>3. PICK mask, P, D : mask = 2 * c - 1 /\ P = Positions[mask] /\ D = 0 .. 2 * c - 1
  OBVIOUS
<1>4. \A l : MainPos(l, mask) = P[l]
  BY <1>3 DEF MainPos
<1>5. IsArray(d, D, P) /\ f \in D /\ d[f].key = NoKey /\ f \notin UsedIn(d) /\ DOMAIN d = D
  BY <1>3 DEF Placing, IsArray, UsedIn
<1>6. 0 \in D /\ 0 < 2 * c - 1
  BY <1>2, <1>3, HashTblAssumption DEF HashTblAssumption
<1>7. PairsTo(old, i + 1) = PairsTo(old, i)
  <2>1. {l \in 0 .. (i + 1) - 1 : old[l].key # NoKey} = {l \in 0 .. i - 1 : old[l].key # NoKey}
    BY <1>2
  <2> QED
    BY <2>1 DEF PairsTo
<1>8. \/ PlacesHome(d, f, y, g, 0, NoKey, v)
      \/ PlacesEvicting(mask, d, f, y, g, 0, NoKey, v)
      \/ PlacesAtEnd(mask, d, f, y, g, 0, NoKey, v)
  <2>1. PICK p : p = 0
    OBVIOUS
  <2>2. p = IF old[i].key = NoKey THEN 0 ELSE MainPos(old[i].key, mask)
    BY <2>1
  <2>3. PICK y1, g1 : /\ Place(mask, d, f, old[i]) = <<y1, g1>>
                      /\ \/ PlacesHome(d, f, y1, g1, p, old[i].key, old[i].value)
                         \/ PlacesEvicting(mask, d, f, y1, g1, p, old[i].key, old[i].value)
                         \/ PlacesAtEnd(mask, d, f, y1, g1, p, old[i].key, old[i].value)
    BY <2>2, PlaceIs
  <2>4. y1 = y /\ g1 = g
    BY <1>3, <2>3
  <2> QED
    BY <1>1, <2>1, <2>3, <2>4
<1>9. PICK x : /\ IsArray(y, D, P) /\ UsedIn(y) \subseteq UsedIn(d) \cup {x} /\ Pairs(y) = Pairs(d)
               /\ x < 2 * c - 1
               /\ \/ g = f /\ f \notin UsedIn(y)
                  \/ g = NextEmpty(y, f) /\ x = f
  <2>1. CASE PlacesHome(d, f, y, g, 0, NoKey, v)
    <3>1. d[0].key = NoKey /\ y = Inserted(d, 0, NoKey, v) /\ g = IF 0 = f THEN NextEmpty(y, f) ELSE f
      BY <2>1 DEF PlacesHome
    <3>2. IsArray(y, D, P) /\ UsedIn(y) = UsedIn(d) /\ Pairs(y) = Pairs(d)
      BY <1>1, <1>5, <1>6, <3>1, EmptyWritten
    <3> QED
      BY <1>5, <1>6, <3>1, <3>2
  <2>2. CASE PlacesEvicting(mask, d, f, y, g, 0, NoKey, v)
    <3>1. PICK q : IsPrev(d, f, P[d[0].key], 0, q) /\ y = Moved(d, f, 0, q, NoKey, v)
      BY <1>4, <2>2 DEF PlacesEvicting
    <3>2. d[0].key # NoKey /\ P[d[0].key] # 0 /\ g = NextEmpty(y, f)
      BY <1>4, <2>2 DEF PlacesEvicting
    <3>3. HasMoved(D, P, d, y, f, 0, q)
      BY <1>1, <1>5, <1>6, <3>1, <3>2, MovedAway
    <3>4. f < 2 * c - 1
      <4>1. AtMost(Taken(d, f), i)
        BY DEF Placing
      <4>2. f \in Nat /\ 0 .. f - 1 \subseteq Taken(d, f)
        BY <1>2, <1>3, <1>5 DEF Taken
      <4>3. Cardinality(0 .. f - 1) <= Cardinality(Taken(d, f))
        BY <4>1, <4>2, FS_Subset DEF AtMost
      <4>4. Cardinality(0 .. f - 1) = f
        BY <4>2, FS_Interval
      <4>5. Cardinality(Taken(d, f)) \in Nat /\ Cardinality(Taken(d, f)) <= i
        BY <4>1, FS_CardinalityType DEF AtMost
      <4> QED
        BY <1>2, <4>2, <4>3, <4>4, <4>5
    <3> QED
      BY <3>2, <3>3, <3>4 DEF HasMoved
  <2>3. CASE PlacesAtEnd(mask, d, f, y, g, 0, NoKey, v)
    <3>1. d[0].key # NoKey /\ MainPos(d[0].key, mask) = 0
      BY <2>3 DEF PlacesAtEnd
    <3>2. <<d[0].key, d[0].value>> \in Pairs(d)
      BY <1>5, <1>6, <3>1 DEF Pairs, UsedIn
    <3>3. <<d[0].key, d[0].value>> \in PairsTo(old, i)
      BY <3>2 DEF Placing
    <3>4. PICK l \in 0 .. i - 1 : old[l].key # NoKey /\ <<d[0].key, d[0].value>> = <<old[l].key, old[l].value>>
      BY <3>3 DEF PairsTo
    <3>5. l \in 0 .. c - 1 /\ l < i /\ old[l].key = d[0].key
      BY <1>2, <3>4
    <3>6. MainPos(old[l].key, mask) # 0
      BY <1>3, <3>4, <3>5 DEF FitsTwice, EmptiesFit
    <3> QED
      BY <3>1, <3>5, <3>6
  <2> QED
    BY <1>8, <2>1, <2>2, <2>3
<1>10. Pairs(y) = PairsTo(old, i + 1)
  BY <1>7, <1>9 DEF Placing
<1>11. IsArray(y, 0 .. 2 * c - 1, Positions[2 * c - 1])
  BY <1>3, <1>9
<1> QED
  BY <1>2, <1>9, <1>10, <1>11, PlacingNext

LEMMA NoneChained ==
  ASSUME NEW D, D \subseteq Nat, Invalid \notin D, NEW P, NEW d, d = [i \in D |-> EmptyEntry]
  PROVE  IsArray(d, D, P) /\ UsedIn(d) = {} /\ Pairs(d) = {}
<1>1. EmptyEntry \in EntryOf(D) /\ EmptyEntry.key = NoKey /\ EmptyEntry.next = Invalid
  BY EmptyIs
<1>2. d \in [D -> EntryOf(D)] /\ DOMAIN d = D
  BY <1>1
<1>3. \A i \in D : KeysOf(d)[i] = NoKey /\ LinksOf(d)[i] = Invalid
  BY <1>1 DEF KeysOf, LinksOf
<1>4. KeysOf(d) \in [D -> Keys \cup {NoKey}] /\ LinksOf(d) \in [D -> D \cup {Invalid}]
  BY <1>1, <1>2 DEF KeysOf, LinksOf
<1>5. ChainTypes(D, KeysOf(d), LinksOf(d))
  BY <1>4 DEF ChainTypes
<1>6. /\ Headed(D, KeysOf(d), P) /\ Links(D, KeysOf(d), LinksOf(d), P)
      /\ Apart(D, LinksOf(d)) /\ Reached(D, KeysOf(d), LinksOf(d), P) /\ Unique(D, KeysOf(d))
  BY <1>3 DEF Headed, Links, Apart, Reached, Unique
<1>7. Ranked(D, LinksOf(d))
  <2>1. PICK r : r = [i \in D |-> 0]
    OBVIOUS
  <2>2. RankedBy(D, LinksOf(d), 0, r)
    <3>1. 0 \in Nat /\ 0 \in 0 .. 0
      OBVIOUS
    <3>2. r \in [D -> 0 .. 0]
      BY <2>1, <3>1
    <3>3. \A i \in D : ~ (LinksOf(d)[i] # Invalid)
      BY <1>3
    <3> QED
      BY <3>1, <3>2, <3>3, Zenon DEF RankedBy
  <2> QED
    BY <2>2 DEF Ranked
<1>8. IsArray(d, D, P)
  BY <1>2, <1>5, <1>6, <1>7 DEF IsArray, InChains, Chained
<1>9. UsedIn(d) = {}
  BY <1>1, <1>2 DEF UsedIn
<1> QED
  BY <1>8, <1>9 DEF Pairs

\* p[i] is the new array and its free index when i entries of old are placed
IsPlaced(p, old, c, n) ==
  p = [i \in 0 .. n |->
        IF i = 0 THEN <<Entries(2 * c), 0>>
        ELSE Place(2 * c - 1, p[i - 1][1], p[i - 1][2], old[i - 1])]

LEMMA PlacedExists ==
  ASSUME NEW old, NEW c, NEW n \in Nat
  PROVE  \E p : IsPlaced(p, old, c, n)
<1> DEFINE T == {m \in Nat : \E p : IsPlaced(p, old, c, m)}
<1>1. 0 \in T
  <2> DEFINE p == [i \in 0 .. 0 |-> <<Entries(2 * c), 0>>]
  <2>1. IsPlaced(p, old, c, 0)
    BY DEF IsPlaced
  <2> HIDE DEF p
  <2> QED
    BY <2>1
<1>2. ASSUME NEW m \in Nat, m \in T PROVE m + 1 \in T
  <2>1. PICK p : IsPlaced(p, old, c, m)
    BY <1>2
  <2> DEFINE last == Place(2 * c - 1, p[m][1], p[m][2], old[m])
             q == [i \in 0 .. m + 1 |-> IF i = m + 1 THEN last ELSE p[i]]
  <2>2. \A i \in 0 .. m : q[i] = p[i]
    OBVIOUS
  <2>3. q[m + 1] = last
    OBVIOUS
  <2>4. ASSUME NEW i \in 0 .. m + 1
        PROVE  q[i] = IF i = 0 THEN <<Entries(2 * c), 0>>
                      ELSE Place(2 * c - 1, q[i - 1][1], q[i - 1][2], old[i - 1])
    <3>1. CASE i = m + 1
      <4>1. i # 0 /\ i - 1 = m /\ q[m] = p[m]
        BY <2>2, <3>1
      <4> QED
        BY <2>3, <3>1, <4>1
    <3>2. CASE i # m + 1
      <4>1. i \in 0 .. m /\ q[i] = p[i] /\ (i # 0 => i - 1 \in 0 .. m)
        BY <2>2, <3>2
      <4>2. i # 0 => q[i - 1] = p[i - 1]
        BY <2>2, <4>1
      <4>3. p[i] = IF i = 0 THEN <<Entries(2 * c), 0>>
                   ELSE Place(2 * c - 1, p[i - 1][1], p[i - 1][2], old[i - 1])
        BY <2>1, <4>1 DEF IsPlaced
      <4> HIDE DEF q
      <4> QED
        BY <4>1, <4>2, <4>3
    <3> QED
      BY <3>1, <3>2
  <2>5. IsPlaced(q, old, c, m + 1)
    <3>1. q = [i \in 0 .. m + 1 |-> q[i]]
      OBVIOUS
    <3> HIDE DEF q
    <3> QED
      BY <2>4, <3>1 DEF IsPlaced
  <2> HIDE DEF q
  <2> QED
    BY <2>5
<1> HIDE DEF T
<1>3. \A m \in Nat : m \in T
  BY <1>1, <1>2, SetInduction
<1> QED
  BY <1>3 DEF T

LEMMA PlacedIs ==
  ASSUME NEW old, NEW n \in Nat
  PROVE  \E p : IsPlaced(p, old, capacity, n) /\ Placed(old, n) = p[n]
<1> DEFINE p == CHOOSE p : IsPlaced(p, old, capacity, n)
<1>1. IsPlaced(p, old, capacity, n)
  BY PlacedExists
<1>2. Placed(old, n) = p[n]
  BY DEF Placed, IsPlaced
<1> HIDE DEF p
<1> QED
  BY <1>1, <1>2

LEMMA PlacedAt ==
  ASSUME NEW p, NEW old, NEW c, NEW n, IsPlaced(p, old, c, n), NEW i \in 0 .. n, i # 0
  PROVE  p[i] = Place(2 * c - 1, p[i - 1][1], p[i - 1][2], old[i - 1])
<1>1. p[i] = IF i = 0 THEN <<Entries(2 * c), 0>>
             ELSE Place(2 * c - 1, p[i - 1][1], p[i - 1][2], old[i - 1])
  BY DEF IsPlaced
<1> QED
  BY <1>1

\* a pair of an array and a free index
IsPair(x) == x = <<x[1], x[2]>>

LEMMA AllPlaced ==
  ASSUME NEW old, NEW c, IsOld(old, c), FitsTwice(old, c),
         NEW p, IsPlaced(p, old, c, c)
  PROVE  IsPair(p[c]) /\ Placing(old, c, c, p[c][1], p[c][2])
<1>1. c \in Nat /\ 2 * c - 1 \in 3 .. MaxCapacity /\ 2 * c - 1 \in Nat /\ 2 * c - 1 <= 8191
  BY HashTblAssumption DEF IsOld, HashTblAssumption
<1> DEFINE T == {m \in Nat : m <= c => IsPair(p[m]) /\ Placing(old, c, m, p[m][1], p[m][2])}
<1>2. 0 \in T
  <2>1. PICK d : d = Entries(2 * c)
    OBVIOUS
  <2>2. PICK D : D = 0 .. 2 * c - 1
    OBVIOUS
  <2>3. p[0] = <<d, 0>>
    BY <1>1, <2>1 DEF IsPlaced
  <2>4. D \subseteq Nat /\ Invalid \notin D /\ d = [i \in D |-> EmptyEntry]
    BY <1>1, <2>1, <2>2 DEF Entries, Invalid
  <2>5. IsArray(d, D, Positions[2 * c - 1]) /\ UsedIn(d) = {} /\ Pairs(d) = {}
    BY <2>4, NoneChained
  <2>6. PairsTo(old, 0) = {}
    BY DEF PairsTo
  <2>7. AtMost(Taken(d, 0), 0)
    <3>1. Taken(d, 0) = {}
      BY <2>5 DEF Taken
    <3> QED
      BY <3>1, FS_EmptySet DEF AtMost
  <2>8. 0 \in D
    BY <1>1, <2>2
  <2>9. Placing(old, c, 0, d, 0)
    BY <2>2, <2>5, <2>6, <2>7, <2>8 DEF Placing
  <2> QED
    BY <2>3, <2>9 DEF IsPair
<1>3. ASSUME NEW m \in Nat, m \in T PROVE m + 1 \in T
  <2> SUFFICES ASSUME m + 1 <= c
               PROVE  IsPair(p[m + 1]) /\ Placing(old, c, m + 1, p[m + 1][1], p[m + 1][2])
    OBVIOUS
  <2>1. m \in 0 .. c - 1 /\ m + 1 \in 0 .. c /\ (m + 1) - 1 = m /\ m + 1 # 0 /\ m <= c
    BY <1>1
  <2>2. PICK d, f : d = p[m][1] /\ f = p[m][2]
    OBVIOUS
  <2>3. Placing(old, c, m, d, f)
    BY <1>3, <2>1, <2>2
  <2>4. p[m + 1] = Place(2 * c - 1, d, f, old[m])
    <3>1. p[m + 1] = Place(2 * c - 1, p[(m + 1) - 1][1], p[(m + 1) - 1][2], old[(m + 1) - 1])
      BY <2>1, PlacedAt
    <3> QED
      BY <2>1, <2>2, <3>1
  <2>5. PICK y, g : Place(2 * c - 1, d, f, old[m]) = <<y, g>>
    <3>1. PICK r : r = IF old[m].key = NoKey THEN 0 ELSE MainPos(old[m].key, 2 * c - 1)
      OBVIOUS
    <3>2. \E y, g : Place(2 * c - 1, d, f, old[m]) = <<y, g>>
      BY <3>1, PlaceIs
    <3> QED
      BY <3>2
  <2>6. Placing(old, c, m + 1, y, g)
    BY <2>1, <2>3, <2>5, PlaceUsed, PlaceEmpty
  <2>7. p[m + 1] = <<y, g>>
    BY <2>4, <2>5
  <2> QED
    BY <2>6, <2>7 DEF IsPair
<1> HIDE DEF T
<1>4. \A m \in Nat : m \in T
  BY <1>2, <1>3, SetInduction
<1>5. c \in T /\ c <= c
  BY <1>1, <1>4
<1> QED
  BY <1>5 DEF T

\* the chains of an array are those of another mask in which its keys have the same positions
LEMMA SameChains ==
  ASSUME NEW D, NEW P, NEW d, IsArray(d, D, P), NEW Q,
         \A i \in UsedIn(d) : Q[d[i].key] = P[d[i].key]
  PROVE  IsArray(d, D, Q)
<1>1. DOMAIN d = D /\ Chained(D, KeysOf(d), LinksOf(d), P)
  BY DEF IsArray, InChains
<1> DEFINE key == KeysOf(d)
           nxt == LinksOf(d)
<1>2. \A i \in D : key[i] # NoKey => Q[key[i]] = P[key[i]]
  BY <1>1 DEF KeysOf, UsedIn
<1> HIDE DEF key, nxt
<1>3. /\ ChainTypes(D, key, nxt) /\ Headed(D, key, P) /\ Links(D, key, nxt, P)
      /\ Apart(D, nxt) /\ Reached(D, key, nxt, P) /\ Ranked(D, nxt) /\ Unique(D, key)
  BY <1>1 DEF Chained, key, nxt
<1>4. Headed(D, key, Q)
  BY <1>2, <1>3 DEF Headed
<1>5. Links(D, key, nxt, Q)
  BY <1>2, <1>3 DEF Links, ChainTypes
<1>6. Reached(D, key, nxt, Q)
  BY <1>2, <1>3 DEF Reached
<1>7. Chained(D, key, nxt, Q)
  BY <1>3, <1>4, <1>5, <1>6 DEF Chained
<1> QED
  BY <1>1, <1>7 DEF IsArray, InChains, key, nxt

LEMMA NotInPairs ==
  ASSUME NEW d, NEW k, k # NoKey
  PROVE  NotIn(d, k) <=> \A x \in Pairs(d) : x[1] # k
<1>1. ASSUME NotIn(d, k), NEW x \in Pairs(d) PROVE x[1] # k
  BY <1>1 DEF NotIn, Pairs, UsedIn
<1>2. ASSUME ~ NotIn(d, k) PROVE \E x \in Pairs(d) : x[1] = k
  <2>1. PICK i \in DOMAIN d : d[i].key = k
    BY <1>2 DEF NotIn
  <2>2. <<d[i].key, d[i].value>> \in Pairs(d)
    BY <2>1 DEF Pairs, UsedIn
  <2> QED
    BY <2>1, <2>2
<1> QED
  BY <1>1, <1>2

LEMMA TableIsOld ==
  ASSUME NEW d, NEW c, NEW f, Table(d, c, f), 2 * c - 1 <= MaxCapacity
  PROVE  IsOld(d, c) /\ Pairs(d) = PairsTo(d, c)
<1>1. PICK s \in {c, c + 1} : IsArray(d, 0 .. s - 1, Positions[c - 1])
  BY DEF Table
<1>2. c \in Nat /\ 2 * c - 1 \in 3 .. MaxCapacity
  BY HashTblAssumption DEF Table, HashTblAssumption, MinCapacity
<1>3. PICK D : D = 0 .. s - 1
  OBVIOUS
<1>4. d \in [D -> EntryOf(D)] /\ DOMAIN d = D /\ 0 .. c - 1 \subseteq D
  BY <1>1, <1>2, <1>3 DEF IsArray
<1>5. Keyed(d)
  BY <1>1, KeyedIs
<1>6. \A j \in 0 .. c - 1 : d[j].key \in Keys \cup {NoKey} /\ d[j].value \in Values \cup {NoKey}
  BY <1>4 DEF EntryOf
<1>7. \A j : j \in UsedIn(d) <=> j \in 0 .. c - 1 /\ d[j].key # NoKey
  BY <1>2, <1>3, <1>4 DEF Table, UsedIn
<1>8. UsedIn(d) = {l \in 0 .. c - 1 : d[l].key # NoKey}
  BY <1>7
<1> QED
  BY <1>2, <1>4, <1>5, <1>6, <1>8 DEF IsOld, Pairs, PairsTo

LEMMA ReallocDoes ==
  ASSUME Table(data, capacity, freeIndex), 2 * capacity - 1 <= MaxCapacity,
         FitsTwice(data, capacity), NEW x, x = Realloc(data)
  PROVE  /\ Table(x[1], 2 * capacity - 1, x[2]) /\ x[2] # Invalid
         /\ Pairs(x[1]) = Pairs(data) /\ AtMost(Taken(x[1], x[2]), capacity)
<1>1. PICK old, c : old = data /\ c = capacity
  OBVIOUS
<1>2. IsOld(old, c) /\ Pairs(old) = PairsTo(old, c) /\ FitsTwice(old, c)
  BY <1>1, TableIsOld
<1>3. c \in Nat /\ c >= 4 /\ 2 * c - 1 \in 3 .. MaxCapacity /\ 2 * c - 1 <= 8191
  BY <1>1, <1>2, HashTblAssumption DEF IsOld, HashTblAssumption, Table, MinCapacity
<1>4. PICK p : IsPlaced(p, old, c, c) /\ Placed(old, c) = p[c]
  BY <1>1, <1>3, PlacedIs
<1>5. x = p[c]
  BY <1>1, <1>4 DEF Realloc
<1>6. PICK d, f : d = x[1] /\ f = x[2]
  OBVIOUS
<1>7. Placing(old, c, c, d, f)
  BY <1>2, <1>4, <1>5, <1>6, AllPlaced
<1>8. PICK n : n = 2 * c - 1
  OBVIOUS
<1>9. n \in MinCapacity .. MaxCapacity
  BY <1>3, <1>8 DEF MinCapacity
<1>10. f < n /\ f \in 0 .. n - 1
  <2>1. AtMost(Taken(d, f), c)
    BY <1>7 DEF Placing
  <2>2. f \in Nat /\ 0 .. f - 1 \subseteq Taken(d, f)
    BY <1>3, <1>7 DEF Taken, Placing
  <2>3. Cardinality(0 .. f - 1) <= Cardinality(Taken(d, f))
    BY <2>1, <2>2, FS_Subset DEF AtMost
  <2>4. Cardinality(0 .. f - 1) = f
    BY <2>2, FS_Interval
  <2>5. Cardinality(Taken(d, f)) \in Nat /\ Cardinality(Taken(d, f)) <= c
    BY <2>1, FS_CardinalityType DEF AtMost
  <2> QED
    BY <1>3, <1>8, <2>2, <2>3, <2>4, <2>5
<1>11. f # Invalid /\ f \in (0 .. n - 1) \ UsedIn(d)
  BY <1>3, <1>7, <1>8, <1>10 DEF Placing, Invalid
<1>12. Pairs(d) = Pairs(old)
  BY <1>2, <1>7 DEF Placing
<1>13. \A i \in UsedIn(d) : Positions[n - 1][d[i].key] = Positions[n][d[i].key]
  <2> SUFFICES ASSUME NEW i \in UsedIn(d)
               PROVE  Positions[n - 1][d[i].key] = Positions[n][d[i].key]
    OBVIOUS
  <2>1. <<d[i].key, d[i].value>> \in Pairs(d)
    BY DEF Pairs
  <2>2. PICK j \in UsedIn(old) : <<d[i].key, d[i].value>> = <<old[j].key, old[j].value>>
    BY <1>12, <2>1 DEF Pairs
  <2>3. n - 1 = 2 * c - 2
    BY <1>3, <1>8
  <2>4. MainPos(old[j].key, n) = MainPos(old[j].key, n - 1)
    BY <1>2, <1>8, <2>3 DEF FitsTwice, SamePlaces
  <2> QED
    BY <2>2, <2>4 DEF MainPos
<1>14. IsArray(d, 0 .. (n + 1) - 1, Positions[n - 1])
  <2>1. (n + 1) - 1 = n /\ 2 * c - 1 = n
    BY <1>3, <1>8
  <2>2. IsArray(d, 0 .. n, Positions[n])
    BY <1>7, <2>1 DEF Placing
  <2>3. IsArray(d, 0 .. n, Positions[n - 1])
    BY <1>13, <2>2, SameChains
  <2> QED
    BY <2>1, <2>3
<1>15. \A i \in UsedIn(d) : i < n
  BY <1>7, <1>8 DEF Placing
<1>16. Table(d, n, f)
  BY <1>9, <1>11, <1>14, <1>15 DEF Table
<1>17. AtMost(Taken(d, f), c)
  BY <1>7 DEF Placing
<1> QED
  BY <1>1, <1>6, <1>8, <1>11, <1>12, <1>16, <1>17

LEMMA PairsCounted ==
  ASSUME NEW d, IsFiniteSet(UsedIn(d))
  PROVE  /\ IsFiniteSet(Pairs(d)) /\ Cardinality(Pairs(d)) <= Cardinality(UsedIn(d))
         /\ Keyed(d) => Cardinality(Pairs(d)) = Cardinality(UsedIn(d))
<1>1. PICK U, S : U = UsedIn(d) /\ S = Pairs(d)
  OBVIOUS
<1>2. PICK f : f = [i \in U |-> <<d[i].key, d[i].value>>]
  OBVIOUS
<1>3. f \in [U -> S] /\ \A i \in U : f[i] = <<d[i].key, d[i].value>>
  BY <1>1, <1>2 DEF Pairs
<1>4. \A x \in S : \E i \in U : f[i] = x
  BY <1>1, <1>3 DEF Pairs
<1>5. f \in Surjection(U, S)
  BY <1>3, <1>4 DEF Surjection
<1>6. Keyed(d) => f \in Injection(U, S)
  <2> SUFFICES ASSUME Keyed(d) PROVE f \in Injection(U, S)
    OBVIOUS
  <2>1. ASSUME NEW i \in U, NEW j \in U, f[i] = f[j] PROVE i = j
    <3>1. d[i].key = d[j].key
      BY <1>3, <2>1
    <3> QED
      BY <1>1, <3>1 DEF Keyed, UsedIn
  <2>2. DOMAIN f = U
    BY <1>3
  <2> QED
    BY <1>3, <2>1, <2>2 DEF Injection, IsInjective
<1> QED
  BY <1>1, <1>5, <1>6, FS_Surjection

\* the new array of a full one has no empty entry before its free index
LEMMA ReallocFirst ==
  ASSUME Table(data, capacity, freeIndex), 2 * capacity - 1 <= MaxCapacity,
         FitsTwice(data, capacity), freeIndex = Invalid, First(data, capacity, freeIndex),
         NEW x, x = Realloc(data)
  PROVE  First(x[1], 2 * capacity - 1, x[2])
<1>1. PICK c : c = capacity
  OBVIOUS
<1>2. c \in Nat /\ c >= 4 /\ c < Invalid
  <2>1. capacity \in MinCapacity .. MaxCapacity
    BY DEF Table
  <2> QED
    BY <1>1, <2>1, HashTblAssumption DEF HashTblAssumption, MinCapacity, Invalid
<1>3. PICK d, f : d = x[1] /\ f = x[2]
  OBVIOUS
<1>4. /\ Table(d, 2 * c - 1, f) /\ f # Invalid
      /\ Pairs(d) = Pairs(data) /\ AtMost(Taken(d, f), c)
  BY <1>1, <1>3, ReallocDoes
<1>5. f \in Nat
  BY <1>4 DEF Table
<1>6. Keyed(data)
  <2>1. PICK D : IsArray(data, D, Positions[capacity - 1])
    BY DEF Table
  <2> QED
    BY <2>1, KeyedIs
<1>7. UsedIn(data) = 0 .. c - 1
  <2>1. \A i \in UsedIn(data) : i < c /\ i \in Nat
    BY <1>1, TableArray DEF Table, UsedIn, IsArray
  <2>2. \A i \in 0 .. c - 1 : i < Invalid
    BY <1>2 DEF Invalid
  <2>3. \A i \in 0 .. c - 1 : i \in UsedIn(data)
    BY <1>1, <2>2 DEF First
  <2>4. \A i \in UsedIn(data) : i \in 0 .. c - 1
    BY <1>2, <2>1
  <2> QED
    BY <2>3, <2>4
<1>8. IsFiniteSet(UsedIn(data)) /\ Cardinality(UsedIn(data)) = c
  <2>1. IsFiniteSet(0 .. c - 1) /\ Cardinality(0 .. c - 1) = c
    BY <1>2, FS_Interval
  <2> QED
    BY <1>7, <2>1
<1>9. Cardinality(Pairs(d)) = c
  BY <1>4, <1>6, <1>8, PairsCounted
<1>10. PICK T, U : T = Taken(d, f) /\ U = UsedIn(d)
  OBVIOUS
<1>11. U \subseteq T /\ 0 .. f - 1 \subseteq T /\ IsFiniteSet(T) /\ Cardinality(T) <= c
  BY <1>4, <1>10 DEF Taken, AtMost
<1>12. U = T
  <2>1. IsFiniteSet(U) /\ Cardinality(U) <= Cardinality(T)
    BY <1>11, FS_Subset
  <2>2. c <= Cardinality(U)
    BY <1>9, <1>10, <2>1, PairsCounted
  <2>3. Cardinality(U) \in Nat /\ Cardinality(T) \in Nat
    BY <1>11, <2>1, FS_CardinalityType
  <2>4. Cardinality(T) = Cardinality(U)
    BY <1>2, <1>11, <2>1, <2>2, <2>3
  <2> QED
    BY <1>11, <2>4, FS_Subset
<1>13. \A j \in 0 .. 2 * c - 2 : j < f => j \in U
  BY <1>5, <1>11, <1>12
<1>14. 2 * c - 1 - 1 = 2 * c - 2
  BY <1>2
<1> QED
  BY <1>1, <1>3, <1>10, <1>13, <1>14 DEF First

-----------------------------------------------------------------------------
(* The calls, and what they do to the pairs *)

IsTable(d, n, f) == (n = 0 /\ f = 0 /\ d = Entries(0)) \/ Table(d, n, f)

Sets(k, v) ==
  \/ /\ NotIn(data, k) /\ Pairs(data') = Pairs(data) \cup {<<k, v>>}
     /\ rc' = "None" /\ CopyKey(k)
  \/ /\ ~ NotIn(data, k) /\ Pairs(data') = Pairs(data)
     /\ rc' = "Again" /\ UNCHANGED copies

Removes(k) ==
  /\ ~ NotIn(data, k) /\ Pairs(data') = {x \in Pairs(data) : x[1] # k}
  /\ rc' = "True" /\ FreeKey(k)

KeepsFirst == First(data, capacity, freeIndex) => First(data', capacity', freeIndex')

LEMMA NoEntries ==
  ASSUME NEW n \in Nat, n < Invalid, NEW P
  PROVE  /\ IsArray(Entries(n), 0 .. n - 1, P)
         /\ UsedIn(Entries(n)) = {} /\ Pairs(Entries(n)) = {}
         /\ \A k : k # NoKey => NotIn(Entries(n), k)
<1>1. PICK D, d : D = 0 .. n - 1 /\ d = Entries(n)
  OBVIOUS
<1>2. D \subseteq Nat /\ Invalid \notin D /\ d = [i \in D |-> EmptyEntry]
  BY <1>1 DEF Entries
<1>3. IsArray(d, D, P) /\ UsedIn(d) = {} /\ Pairs(d) = {}
  BY <1>2, NoneChained
<1>4. \A k : k # NoKey => NotIn(d, k)
  BY <1>2, <1>3, EmptyIs DEF NotIn
<1> QED
  BY <1>1, <1>3, <1>4

LEMMA SetFirstDoes ==
  ASSUME freeIndex = 0, data = Entries(0),
         NEW k \in Keys, NEW v \in Values, SetFirst(k, v)
  PROVE  /\ IsTable(data', capacity', freeIndex') /\ Sets(k, v)
         /\ First(data', capacity', freeIndex')
<1>1. /\ capacity' = MinCapacity
      /\ SetIn(Entries(MinCapacity), MinCapacity, freeIndex, k, v)
  BY DEF SetFirst
<1>2. PICK n, d : n = MinCapacity /\ d = Entries(n)
  OBVIOUS
<1>3. n = 4 /\ n \in Nat /\ n < Invalid /\ n \in MinCapacity .. MaxCapacity /\ 0 \in Nat /\ 0 < Invalid
  BY <1>2, HashTblAssumption DEF MinCapacity, HashTblAssumption, Invalid
<1>4. /\ IsArray(d, 0 .. n - 1, Positions[n - 1])
      /\ UsedIn(d) = {} /\ Pairs(d) = {} /\ NotIn(d, k)
  BY <1>2, <1>3, NoEntries, KeyIsKey
<1>5. Pairs(data) = {} /\ NotIn(data, k)
  BY <1>3, NoEntries, KeyIsKey
<1>6. Table(d, n, freeIndex)
  BY <1>3, <1>4 DEF Table
<1>7. DoesSet(d, n, freeIndex, k, v)
  BY <1>1, <1>2, <1>6, SetInDoes, d[MainPos(k, n - 1)].key = NoKey \/ freeIndex # Invalid,
     freeIndex # Invalid DEF Invalid
<1>8. HasSet(d, n, freeIndex, data', freeIndex', k, v) /\ rc' = "None" /\ CopyKey(k)
  BY <1>4, <1>7 DEF DoesSet
<1>9. First(d, n, freeIndex)
  BY DEF First
<1> QED
  BY <1>1, <1>2, <1>4, <1>5, <1>8, <1>9 DEF HasSet, IsTable, Sets, KeepsFirst

LEMMA SetDoes ==
  ASSUME Table(data, capacity, freeIndex),
         NEW k \in Keys, NEW v \in Values, Set(k, v)
  PROVE  /\ IsTable(data', capacity', freeIndex') /\ Sets(k, v)
         /\ KeepsFirst
<1>1. DoesSet(data, capacity, freeIndex, k, v)
  BY SetInDoes DEF Set, HasRoom, IsEmpty
<1>2. capacity' = capacity
  BY DEF Set
<1>3. CASE HasSet(data, capacity, freeIndex, data', freeIndex', k, v) /\ rc' = "None" /\ CopyKey(k)
  BY <1>2, <1>3 DEF HasSet, IsTable, Sets, KeepsFirst
<1>4. CASE /\ ~ NotIn(data, k) /\ data' = data /\ freeIndex' = freeIndex
           /\ rc' = "Again" /\ UNCHANGED copies
  BY <1>2, <1>4 DEF IsTable, Sets, KeepsFirst
<1> QED
  BY <1>1, <1>3, <1>4 DEF DoesSet

LEMMA SetGrowsDoes ==
  ASSUME Table(data, capacity, freeIndex), FitsTwice(data, capacity),
         NEW k \in Keys, NEW v \in Values, SetGrows(k, v)
  PROVE  /\ IsTable(data', capacity', freeIndex') /\ Sets(k, v)
         /\ KeepsFirst
<1>1. PICK x : x = Realloc(data)
  OBVIOUS
<1>2. PICK n : n = 2 * capacity - 1
  OBVIOUS
<1>3. n <= MaxCapacity /\ capacity' = n /\ SetIn(x[1], n, x[2], k, v)
  BY <1>1, <1>2 DEF SetGrows
<1>4. Table(x[1], n, x[2]) /\ x[2] # Invalid /\ Pairs(x[1]) = Pairs(data)
  BY <1>1, <1>2, <1>3, ReallocDoes
<1>5. DoesSet(x[1], n, x[2], k, v)
  BY <1>3, <1>4, SetInDoes
<1>6. NotIn(x[1], k) <=> NotIn(data, k)
  BY <1>4, NotInPairs, KeyIsKey
<1>7. First(data, capacity, freeIndex) => First(x[1], n, x[2])
  <2>1. freeIndex = Invalid
    BY DEF SetGrows, HasRoom
  <2> QED
    BY <1>1, <1>2, <1>3, <2>1, ReallocFirst
<1>8. CASE HasSet(x[1], n, x[2], data', freeIndex', k, v) /\ rc' = "None" /\ CopyKey(k)
  BY <1>3, <1>4, <1>6, <1>7, <1>8 DEF HasSet, IsTable, Sets, KeepsFirst
<1>9. CASE /\ ~ NotIn(x[1], k) /\ data' = x[1] /\ freeIndex' = x[2]
           /\ rc' = "Again" /\ UNCHANGED copies
  BY <1>3, <1>4, <1>6, <1>7, <1>9 DEF IsTable, Sets, KeepsFirst
<1> QED
  BY <1>5, <1>8, <1>9 DEF DoesSet

LEMMA ChainWalked ==
  ASSUME Table(data, capacity, freeIndex), NEW k \in Keys,
         NEW p, p = MainPos(k, capacity - 1)
  PROVE  /\ InChains(data, Positions[capacity - 1]) /\ p = Positions[capacity - 1][k]
         /\ HasChain(k) => p \in Chain(data, Positions[capacity - 1], p)
         /\ ~ HasChain(k) => NotIn(data, k)
<1>1. /\ capacity \in Nat /\ capacity >= 4 /\ capacity - 1 \in 0 .. MaxCapacity
      /\ \E D : IsArray(data, D, Positions[capacity - 1])
                /\ DOMAIN data = D /\ 0 .. capacity - 1 \subseteq D
  BY TableArray
<1>2. PICK D : /\ IsArray(data, D, Positions[capacity - 1])
               /\ DOMAIN data = D /\ 0 .. capacity - 1 \subseteq D
  BY <1>1
<1>3. p \in D
  BY <1>1, <1>2, PositionIs
<1>4. InChains(data, Positions[capacity - 1])
  BY <1>2 DEF IsArray
<1>5. p = Positions[capacity - 1][k]
  BY DEF MainPos
<1>6. HasChain(k) <=> data[p].key # NoKey /\ Positions[capacity - 1][data[p].key] = p
  BY <1>1 DEF HasChain, IsEmpty, MainPos
<1>7. HasChain(k) => p \in Chain(data, Positions[capacity - 1], p)
  BY <1>2, <1>3, <1>6 DEF Chain
<1>8. ~ NotIn(data, k) => p \in Chain(data, Positions[capacity - 1], p)
  BY <1>2, <1>5, HomeOf, KeyIsKey
<1>9. p \in Chain(data, Positions[capacity - 1], p) => HasChain(k)
  BY <1>6 DEF Chain
<1> QED
  BY <1>4, <1>5, <1>7, <1>8, <1>9

LEMMA NotInChain ==
  ASSUME NEW d, NEW P, InChains(d, P), NEW k, k # NoKey,
         \A i \in Chain(d, P, P[k]) : d[i].key # k
  PROVE  NotIn(d, k)
BY DEF NotIn, Chain

LEMMA LookupIs ==
  ASSUME Table(data, capacity, freeIndex), NEW k \in Keys,
         NEW i, i = Lookup(k)
  PROVE  \/ i = Invalid /\ NotIn(data, k)
         \/ i # Invalid /\ i \in DOMAIN data /\ data[i].key = k
<1>1. PICK p : p = MainPos(k, capacity - 1)
  OBVIOUS
<1>2. PICK P : P = Positions[capacity - 1]
  OBVIOUS
<1>3. /\ InChains(data, P) /\ p = P[k]
      /\ HasChain(k) => p \in Chain(data, P, p)
      /\ ~ HasChain(k) => NotIn(data, k)
  BY <1>1, <1>2, ChainWalked
<1>4. CASE HasChain(k)
  <2>1. i = FirstKey(data, p, k)
    BY <1>1, <1>4 DEF Lookup, FirstKey
  <2>2. \/ i = Invalid /\ \A j \in Chain(data, P, p) : data[j].key # k
        \/ i \in Chain(data, P, p) /\ data[i].key = k
    BY <1>3, <1>4, <2>1, FirstKeyWithin
  <2>3. Invalid \notin DOMAIN data
    BY TableArray DEF IsArray
  <2> QED
    BY <1>3, <2>2, <2>3, NotInChain, KeyIsKey DEF Chain
<1>5. CASE ~ HasChain(k)
  BY <1>3, <1>5 DEF Lookup
<1> QED
  BY <1>4, <1>5

LEMMA StopIs ==
  ASSUME Table(data, capacity, freeIndex), NEW k \in Keys,
         NEW i, i = Stop(k)
  PROVE  \/ i = Invalid /\ NotIn(data, k)
         \/ i # Invalid /\ i \in DOMAIN data
<1>1. PICK p : p = MainPos(k, capacity - 1)
  OBVIOUS
<1>2. PICK P : P = Positions[capacity - 1]
  OBVIOUS
<1>3. /\ InChains(data, P) /\ p = P[k]
      /\ HasChain(k) => p \in Chain(data, P, p)
      /\ ~ HasChain(k) => NotIn(data, k)
  BY <1>1, <1>2, ChainWalked
<1>4. CASE HasChain(k)
  <2>1. i = FirstHash(data, p, k)
    BY <1>1, <1>4 DEF Stop, FirstHash
  <2>2. \/ i = Invalid /\ \A j \in Chain(data, P, p) : data[j].key # k
        \/ i \in Chain(data, P, p)
    BY <1>3, <1>4, <2>1, FirstHashWithin
  <2>3. Invalid \notin DOMAIN data
    BY TableArray DEF IsArray
  <2> QED
    BY <1>3, <2>2, <2>3, NotInChain, KeyIsKey DEF Chain
<1>5. CASE ~ HasChain(k)
  BY <1>3, <1>5 DEF Stop
<1> QED
  BY <1>4, <1>5

LEMMA RemovedTable ==
  ASSUME NEW d, NEW n, NEW f, Table(d, n, f),
         NEW k, NEW e, NEW i, IsRemoved(d, e, i, k), KeepsArray(d, e, n),
         NEW g, g = f \/ g = i
  PROVE  Table(e, n, g)
<1>1. i \in UsedIn(d) /\ UsedIn(e) = UsedIn(d) \ {i}
  BY DEF IsRemoved
<1>2. i \in 0 .. n - 1
  BY <1>1, TableArray DEF Table, UsedIn, IsArray
<1>3. \E s \in {n, n + 1} : IsArray(e, 0 .. s - 1, Positions[n - 1])
  BY DEF Table, KeepsArray
<1> QED
  BY <1>1, <1>2, <1>3 DEF Table

\* a removal does not leave the free index above the entry that it empties
RemovesAbove ==
  \A k \in Keys : Remove(k) =>
    \A i \in 0 .. capacity - 1 :
      (~ IsEmpty(data[i]) /\ IsEmpty(data'[i])) => freeIndex' <= i

LEMMA RemovedFirst ==
  ASSUME Table(data, capacity, freeIndex), NEW k \in Keys, Remove(k), RemovesAbove,
         NEW e, e = data', NEW i, IsRemoved(data, e, i, k), Table(e, capacity, freeIndex'),
         capacity' = capacity, freeIndex' <= freeIndex
  PROVE  KeepsFirst
<1>1. i \in UsedIn(data) /\ UsedIn(e) = UsedIn(data) \ {i}
  BY DEF IsRemoved
<1>2. capacity \in Nat /\ 0 .. capacity - 1 \subseteq DOMAIN e
  BY TableArray
<1>3. i \in 0 .. capacity - 1
  BY <1>1, TableArray DEF Table, UsedIn, IsArray
<1>4. ~ IsEmpty(data[i])
  BY <1>1 DEF UsedIn, IsEmpty
<1>5. IsEmpty(e[i])
  BY <1>1, <1>2, <1>3 DEF UsedIn, IsEmpty
<1>6. freeIndex' <= i
  BY <1>3, <1>4, <1>5 DEF RemovesAbove
<1>7. freeIndex' \in Nat /\ freeIndex \in Nat
  BY DEF Table, Invalid
<1>8. ASSUME First(data, capacity, freeIndex), NEW j \in 0 .. capacity - 1, j < freeIndex'
      PROVE  j \in UsedIn(e)
  <2>1. j < freeIndex /\ j # i
    BY <1>2, <1>3, <1>6, <1>7, <1>8
  <2> QED
    BY <1>1, <1>8, <2>1 DEF First
<1> QED
  BY <1>8 DEF KeepsFirst, First

LEMMA RemoveDoes ==
  ASSUME Table(data, capacity, freeIndex), NEW k \in Keys, Remove(k)
  PROVE  /\ IsTable(data', capacity', freeIndex') /\ Removes(k)
         /\ RemovesAbove => KeepsFirst
<1>1. PICK p : p = MainPos(k, capacity - 1)
  OBVIOUS
<1>2. PICK P : P = Positions[capacity - 1]
  OBVIOUS
<1>3. PICK c : c = Stop(k)
  OBVIOUS
<1>4. PICK n : n = data[c].next
  OBVIOUS
<1>5. p = P[k]
  BY <1>1, <1>2 DEF MainPos
<1>6. c \in DOMAIN data /\ data[c].key = k /\ k # NoKey /\ c # Invalid
  BY <1>3, StopIs, KeyIsKey DEF Remove
<1>7. ~ NotIn(data, k)
  BY <1>6 DEF NotIn
<1>8. capacity' = capacity /\ rc' = "True" /\ FreeKey(k)
  BY DEF Remove
<1> DEFINE Freed(i) == IF freeIndex > i THEN i ELSE freeIndex
<1>9. \/ /\ c # p
         /\ data' = [data EXCEPT ![PrevOf(data, p, c)].next = n, ![c] = EmptyEntry]
         /\ freeIndex' = Freed(c)
      \/ /\ c = p /\ n # Invalid
         /\ data' = [data EXCEPT ![p] = data[n], ![n] = EmptyEntry]
         /\ freeIndex' = Freed(n)
      \/ /\ c = p /\ n = Invalid
         /\ data' = [data EXCEPT ![p] = EmptyEntry]
         /\ freeIndex' = freeIndex
  BY <1>1, <1>3, <1>4 DEF Remove
<1>10. PICK e : e = data'
  OBVIOUS
<1>11. ASSUME NEW i, IsRemoved(data, e, i, k), KeepsArray(data, e, capacity),
              freeIndex' = freeIndex \/ (freeIndex' = i /\ freeIndex > i)
       PROVE  /\ IsTable(data', capacity', freeIndex') /\ Removes(k)
              /\ RemovesAbove => KeepsFirst
  <2>1. Table(e, capacity, freeIndex')
    BY <1>11, RemovedTable
  <2>2. freeIndex' <= freeIndex
    <3>1. freeIndex \in Nat /\ freeIndex' \in Nat
      BY <2>1 DEF Table, Invalid
    <3> QED
      BY <1>11, <3>1
  <2>3. RemovesAbove => KeepsFirst
    BY <1>8, <1>10, <1>11, <2>1, <2>2, RemovedFirst
  <2> QED
    BY <1>7, <1>8, <1>10, <1>11, <2>1, <2>3 DEF IsTable, Removes, IsRemoved
<1>12. CASE /\ c # p
            /\ data' = [data EXCEPT ![PrevOf(data, p, c)].next = n, ![c] = EmptyEntry]
            /\ freeIndex' = Freed(c)
  <2>1. PICK q : q = PrevOf(data, P[k], c)
    OBVIOUS
  <2>2. e = [data EXCEPT ![q].next = data[c].next, ![c] = EmptyEntry]
    BY <1>4, <1>5, <1>10, <1>12, <2>1
  <2>3. \A D : IsArray(data, D, P) => IsArray(e, D, P) /\ IsRemoved(data, e, c, k)
    <3> SUFFICES ASSUME NEW D, IsArray(data, D, P)
                 PROVE  IsArray(e, D, P) /\ IsRemoved(data, e, c, k)
      OBVIOUS
    <3>1. c \in D /\ c # P[k]
      BY <1>5, <1>6, <1>12 DEF IsArray
    <3> QED
      BY <1>6, <2>1, <2>2, <3>1, RemoveLinked
  <2>4. KeepsArray(data, e, capacity) /\ IsRemoved(data, e, c, k)
    BY <1>2, <2>3, TableArray DEF KeepsArray
  <2> QED
    BY <1>11, <1>12, <2>4
<1>13. CASE /\ c = p /\ n # Invalid
            /\ data' = [data EXCEPT ![p] = data[n], ![n] = EmptyEntry]
            /\ freeIndex' = Freed(n)
  <2>1. n = data[p].next /\ e = [data EXCEPT ![p] = data[n], ![n] = EmptyEntry]
    BY <1>4, <1>10, <1>13
  <2>2. \A D : IsArray(data, D, P) => IsArray(e, D, P) /\ IsRemoved(data, e, n, k)
    <3> SUFFICES ASSUME NEW D, IsArray(data, D, P)
                 PROVE  IsArray(e, D, P) /\ IsRemoved(data, e, n, k)
      OBVIOUS
    <3>1. p \in D
      BY <1>6, <1>13 DEF IsArray
    <3> QED
      BY <1>5, <1>6, <1>13, <2>1, <3>1, RemoveFirst
  <2>3. KeepsArray(data, e, capacity) /\ IsRemoved(data, e, n, k)
    BY <1>2, <2>2, TableArray DEF KeepsArray
  <2> QED
    BY <1>11, <1>13, <2>3
<1>14. CASE /\ c = p /\ n = Invalid
            /\ data' = [data EXCEPT ![p] = EmptyEntry]
            /\ freeIndex' = freeIndex
  <2>1. data[p].next = Invalid /\ e = [data EXCEPT ![p] = EmptyEntry]
    BY <1>4, <1>10, <1>14
  <2>2. \A D : IsArray(data, D, P) => IsArray(e, D, P) /\ IsRemoved(data, e, p, k)
    <3> SUFFICES ASSUME NEW D, IsArray(data, D, P)
                 PROVE  IsArray(e, D, P) /\ IsRemoved(data, e, p, k)
      OBVIOUS
    <3>1. p \in D
      BY <1>6, <1>14 DEF IsArray
    <3> QED
      BY <1>5, <1>6, <1>14, <2>1, <3>1, RemoveAlone
  <2>3. KeepsArray(data, e, capacity) /\ IsRemoved(data, e, p, k)
    BY <1>2, <2>2, TableArray DEF KeepsArray
  <2> QED
    BY <1>11, <1>14, <2>3
<1> QED
  BY <1>9, <1>12, <1>13, <1>14

-----------------------------------------------------------------------------
(* The copies of the string keys *)

CopiesAre(c, d) == c = [k \in StrKeys |-> IF NotIn(d, k) THEN 0 ELSE 1]

LEMMA KeyCount ==
  ASSUME NEW d, Keyed(d), NEW k, k # NoKey,
         NEW S, \A i : i \in S <=> i \in DOMAIN d /\ d[i].key = k
  PROVE  Cardinality(S) = IF NotIn(d, k) THEN 0 ELSE 1
<1>1. CASE NotIn(d, k)
  <2>1. S = {}
    BY <1>1 DEF NotIn
  <2> QED
    BY <1>1, <2>1, FS_EmptySet
<1>2. CASE ~ NotIn(d, k)
  <2>1. PICK i \in DOMAIN d : d[i].key = k
    BY <1>2 DEF NotIn
  <2>2. S = {i}
    BY <2>1 DEF Keyed
  <2> QED
    BY <1>2, <2>2, FS_Singleton
<1> QED
  BY <1>1, <1>2

LEMMA SetsCopies ==
  ASSUME CopiesAre(copies, data), NEW k \in Keys, NEW v, Sets(k, v)
  PROVE  CopiesAre(copies', data')
<1>1. PICK e, c : e = data' /\ c = copies'
  OBVIOUS
<1>2. \A l \in StrKeys : l # NoKey
  BY KeyIsKey, HashTblAssumption DEF HashTblAssumption
<1>3. \A l \in StrKeys : copies[l] = IF NotIn(data, l) THEN 0 ELSE 1
  BY DEF CopiesAre
<1>4. CASE /\ NotIn(data, k) /\ Pairs(e) = Pairs(data) \cup {<<k, v>>}
           /\ CopyKey(k)
  <2>1. ASSUME NEW l \in StrKeys PROVE NotIn(e, l) <=> NotIn(data, l) /\ l # k
    <3>1. NotIn(e, l) <=> \A x \in Pairs(e) : x[1] # l
      BY <1>2, NotInPairs
    <3>2. NotIn(data, l) <=> \A x \in Pairs(data) : x[1] # l
      BY <1>2, NotInPairs
    <3>3. <<k, v>>[1] = k
      OBVIOUS
    <3> QED
      BY <1>4, <3>1, <3>2, <3>3
  <2>2. c = [l \in StrKeys |-> IF l = k THEN copies[l] + 1 ELSE copies[l]]
    BY <1>1, <1>4 DEF CopyKey
  <2>3. ASSUME NEW l \in StrKeys
        PROVE  (IF l = k THEN copies[l] + 1 ELSE copies[l]) = IF NotIn(e, l) THEN 0 ELSE 1
    BY <1>3, <1>4, <2>1
  <2>4. c = [l \in StrKeys |-> IF NotIn(e, l) THEN 0 ELSE 1]
    BY <2>2, <2>3
  <2> QED
    BY <1>1, <2>4 DEF CopiesAre
<1>5. CASE Pairs(e) = Pairs(data) /\ UNCHANGED copies
  <2>1. \A l \in StrKeys : NotIn(e, l) <=> NotIn(data, l)
    BY <1>2, <1>5, NotInPairs
  <2>2. c = [l \in StrKeys |-> IF NotIn(data, l) THEN 0 ELSE 1]
    BY <1>1, <1>5 DEF CopiesAre
  <2>3. c = [l \in StrKeys |-> IF NotIn(e, l) THEN 0 ELSE 1]
    BY <2>1, <2>2
  <2> QED
    BY <1>1, <2>3 DEF CopiesAre
<1> QED
  BY <1>1, <1>4, <1>5 DEF Sets

LEMMA RemovesCopies ==
  ASSUME CopiesAre(copies, data), NEW k \in Keys, Removes(k)
  PROVE  CopiesAre(copies', data')
<1>1. PICK e, c : e = data' /\ c = copies'
  OBVIOUS
<1>2. \A l \in StrKeys : l # NoKey
  BY KeyIsKey, HashTblAssumption DEF HashTblAssumption
<1>3. \A l \in StrKeys : copies[l] = IF NotIn(data, l) THEN 0 ELSE 1
  BY DEF CopiesAre
<1>4. ~ NotIn(data, k) /\ Pairs(e) = {x \in Pairs(data) : x[1] # k}
  BY <1>1 DEF Removes
<1>5. ASSUME NEW l \in StrKeys PROVE NotIn(e, l) <=> NotIn(data, l) \/ l = k
  <2>1. NotIn(e, l) <=> \A x \in Pairs(e) : x[1] # l
    BY <1>2, NotInPairs
  <2>2. NotIn(data, l) <=> \A x \in Pairs(data) : x[1] # l
    BY <1>2, NotInPairs
  <2> QED
    BY <1>4, <2>1, <2>2
<1>6. c = [l \in StrKeys |-> IF l = k THEN copies[l] - 1 ELSE copies[l]]
  BY <1>1 DEF FreeKey, Removes
<1>7. ASSUME NEW l \in StrKeys
      PROVE  (IF l = k THEN copies[l] - 1 ELSE copies[l]) = IF NotIn(e, l) THEN 0 ELSE 1
  BY <1>3, <1>4, <1>5
<1>8. c = [l \in StrKeys |-> IF NotIn(e, l) THEN 0 ELSE 1]
  BY <1>6, <1>7
<1> QED
  BY <1>1, <1>8 DEF CopiesAre

-----------------------------------------------------------------------------
(* The table is in order *)

TableInv ==
  /\ IsTable(data, capacity, freeIndex)
  /\ CopiesAre(copies, data)
  /\ rc \in {"None", "Again", "OutOfMemory", "True", "False"}
  /\ hung \in BOOLEAN

GrowsWell == (capacity # 0 /\ capacity' > capacity) => FitsTwice(data, capacity)
GrowsInOrder == [][GrowsWell]_vars

LEMMA EmptyTable ==
  ASSUME NEW d, d = Entries(0)
  PROVE  DOMAIN d = {} /\ IsTable(d, 0, 0) /\ Pairs(d) = {} /\ \A k : NotIn(d, k)
<1>1. d = [i \in 0 .. 0 - 1 |-> EmptyEntry]
  BY DEF Entries
<1>2. DOMAIN d = 0 .. 0 - 1
  BY <1>1
<1>3. 0 .. 0 - 1 = {}
  OBVIOUS
<1> QED
  BY <1>2, <1>3 DEF IsTable, Pairs, UsedIn, NotIn

LEMMA CapacityIs ==
  ASSUME IsTable(data, capacity, freeIndex)
  PROVE  /\ capacity = 0 => data = Entries(0) /\ freeIndex = 0
         /\ capacity # 0 => Table(data, capacity, freeIndex)
         /\ capacity \in Nat
BY TableArray DEF IsTable

LEMMA SettingDoes ==
  ASSUME IsTable(data, capacity, freeIndex), GrowsWell,
         NEW k \in Keys, NEW v \in Values,
         SetFirst(k, v) \/ Set(k, v) \/ SetGrows(k, v)
  PROVE  /\ IsTable(data', capacity', freeIndex') /\ Sets(k, v)
         /\ KeepsFirst
<1>1. CASE SetFirst(k, v)
  BY <1>1, CapacityIs, SetFirstDoes DEF SetFirst, KeepsFirst
<1>2. CASE Set(k, v)
  BY <1>2, CapacityIs, SetDoes DEF Set, HasRoom
<1>3. CASE SetGrows(k, v)
  <2>1. capacity # 0 /\ capacity' = 2 * capacity - 1
    BY <1>3 DEF SetGrows
  <2>2. Table(data, capacity, freeIndex)
    BY <2>1, CapacityIs
  <2>3. capacity' > capacity
    BY <2>1, <2>2, TableArray
  <2> QED
    BY <1>3, <2>1, <2>2, <2>3, SetGrowsDoes DEF GrowsWell
<1> QED
  BY <1>1, <1>2, <1>3

LEMMA RemovingDoes ==
  ASSUME IsTable(data, capacity, freeIndex), NEW k \in Keys, Remove(k)
  PROVE  /\ IsTable(data', capacity', freeIndex') /\ Removes(k)
         /\ RemovesAbove => KeepsFirst
<1>1. capacity # 0
  BY DEF Remove, Stop, HasChain
<1> QED
  BY <1>1, CapacityIs, RemoveDoes

LEMMA DeinitDoes ==
  ASSUME IsTable(data, capacity, freeIndex), CopiesAre(copies, data), Deinit
  PROVE  IsTable(data', capacity', freeIndex') /\ CopiesAre(copies', data')
<1>1. capacity' = 0 /\ freeIndex' = 0 /\ data' = Entries(0)
  BY DEF Deinit
<1>2. PICK e, c : e = data' /\ c = copies'
  OBVIOUS
<1>3. IsTable(e, 0, 0) /\ \A k : NotIn(e, k)
  BY <1>1, <1>2, EmptyTable
<1>4. \A l \in StrKeys : l # NoKey
  BY KeyIsKey, HashTblAssumption DEF HashTblAssumption
<1>5. ASSUME NEW l \in StrKeys
      PROVE  copies[l] - Cardinality({i \in 0 .. capacity - 1 : data[i].key = l}) = 0
  <2>1. PICK S : S = {i \in 0 .. capacity - 1 : data[i].key = l}
    OBVIOUS
  <2>2. Keyed(data) /\ \A i : i \in S <=> i \in DOMAIN data /\ data[i].key = l
    <3>1. CASE capacity = 0
      <4>1. DOMAIN data = {} /\ 0 .. capacity - 1 = {}
        BY <3>1, CapacityIs, EmptyTable
      <4> QED
        BY <2>1, <4>1 DEF Keyed
    <3>2. CASE capacity # 0
      <4>1. Table(data, capacity, freeIndex)
        BY <3>2, CapacityIs
      <4>2. PICK D : /\ IsArray(data, D, Positions[capacity - 1])
                     /\ DOMAIN data = D /\ 0 .. capacity - 1 \subseteq D
        BY <4>1, TableArray
      <4>3. Keyed(data) /\ D \subseteq Nat
        BY <4>2, KeyedIs DEF IsArray
      <4>4. \A i \in DOMAIN data : data[i].key = l => i < capacity
        BY <1>4, <4>1 DEF Table, UsedIn
      <4>5. capacity \in Nat
        BY CapacityIs
      <4>6. ASSUME NEW i \in DOMAIN data, data[i].key = l PROVE i \in 0 .. capacity - 1
        <5>1. i \in Nat /\ i < capacity
          BY <4>2, <4>3, <4>4, <4>6
        <5> QED
          BY <4>5, <5>1
      <4> QED
        BY <2>1, <4>2, <4>3, <4>6
    <3> QED
      BY <3>1, <3>2
  <2>3. Cardinality(S) = IF NotIn(data, l) THEN 0 ELSE 1
    BY <1>4, <2>2, KeyCount
  <2>4. copies[l] = IF NotIn(data, l) THEN 0 ELSE 1
    BY DEF CopiesAre
  <2> QED
    BY <2>1, <2>3, <2>4
<1>6. c = [l \in StrKeys |->
             copies[l] - Cardinality({i \in 0 .. capacity - 1 : data[i].key = l})]
  BY <1>2 DEF Deinit
<1>7. c = [l \in StrKeys |-> 0]
  BY <1>5, <1>6
<1>8. c = [l \in StrKeys |-> IF NotIn(e, l) THEN 0 ELSE 1]
  BY <1>3, <1>7
<1> QED
  BY <1>1, <1>2, <1>3, <1>8 DEF CopiesAre

LEMMA TableInit == Init => TableInv
<1> SUFFICES ASSUME Init PROVE TableInv
  OBVIOUS
<1>1. IsTable(data, capacity, freeIndex) /\ \A k : NotIn(data, k)
  BY EmptyTable DEF Init
<1>2. copies = [k \in StrKeys |-> IF NotIn(data, k) THEN 0 ELSE 1]
  BY <1>1 DEF Init
<1> QED
  BY <1>1, <1>2 DEF Init, TableInv, CopiesAre

LEMMA TableStep == TableInv /\ GrowsWell /\ [Next]_vars => TableInv'
<1> SUFFICES ASSUME TableInv, GrowsWell, [Next]_vars PROVE TableInv'
  OBVIOUS
<1>1. /\ IsTable(data, capacity, freeIndex) /\ CopiesAre(copies, data)
      /\ rc \in {"None", "Again", "OutOfMemory", "True", "False"} /\ hung \in BOOLEAN
  BY DEF TableInv
<1>2. ASSUME NEW k \in Keys, NEW v \in Values, SetFirst(k, v) \/ Set(k, v) \/ SetGrows(k, v)
      PROVE  TableInv'
  <2>1. IsTable(data', capacity', freeIndex') /\ Sets(k, v)
    BY <1>1, <1>2, SettingDoes
  <2>2. CopiesAre(copies', data')
    BY <1>1, <2>1, SetsCopies
  <2>3. rc' \in {"None", "Again"}
    BY <2>1 DEF Sets
  <2>4. hung' = hung
    BY <1>2 DEF SetFirst, Set, SetGrows
  <2> QED
    BY <1>1, <2>1, <2>2, <2>3, <2>4 DEF TableInv
<1>3. ASSUME NEW k \in Keys, Remove(k) PROVE TableInv'
  <2>1. IsTable(data', capacity', freeIndex') /\ Removes(k)
    BY <1>1, <1>3, RemovingDoes
  <2>2. CopiesAre(copies', data')
    BY <1>1, <2>1, RemovesCopies
  <2>3. rc' = "True"
    BY <2>1 DEF Removes
  <2>4. hung' = hung
    BY <1>3 DEF Remove
  <2> QED
    BY <1>1, <2>1, <2>2, <2>3, <2>4 DEF TableInv
<1>4. CASE Deinit
  <2>1. IsTable(data', capacity', freeIndex') /\ CopiesAre(copies', data')
    BY <1>1, <1>4, DeinitDoes
  <2>2. rc' = rc /\ hung' = hung
    BY <1>4 DEF Deinit
  <2> QED
    BY <1>1, <2>1, <2>2 DEF TableInv
<1>5. ASSUME NEW k \in Keys, NEW v \in Values, SetFails(k) PROVE TableInv'
  BY <1>1, <1>5 DEF SetFails, TableInv
<1>6. ASSUME NEW k \in Keys, RemoveAbsent(k) PROVE TableInv'
  BY <1>1, <1>6 DEF RemoveAbsent, TableInv
<1>7. ASSUME NEW k \in Keys, RemoveHangs(k) PROVE TableInv'
  BY <1>1, <1>7 DEF RemoveHangs, TableInv
<1>8. CASE UNCHANGED vars
  BY <1>1, <1>8 DEF vars, TableInv
<1> QED
  BY <1>2, <1>3, <1>4, <1>5, <1>6, <1>7, <1>8 DEF Next

LEMMA TableTypes ==
  ASSUME Table(data, capacity, freeIndex)
  PROVE  /\ capacity \in 0 .. Cardinality(DOMAIN data)
         /\ freeIndex \in 0 .. capacity - 1 \cup {Invalid}
         /\ \A i \in DOMAIN data :
              /\ data[i].key \in Keys \cup {NoKey}
              /\ data[i].value \in Values \cup {NoKey}
              /\ data[i].next \in DOMAIN data \cup {Invalid}
<1>1. capacity \in Nat /\ capacity >= 4
  BY TableArray
<1>2. PICK s \in {capacity, capacity + 1} : IsArray(data, 0 .. s - 1, Positions[capacity - 1])
  BY DEF Table
<1>3. PICK D : D = 0 .. s - 1
  OBVIOUS
<1>4. data \in [D -> EntryOf(D)] /\ DOMAIN data = D
  BY <1>2, <1>3 DEF IsArray
<1>5. \A i \in D : /\ data[i].key \in Keys \cup {NoKey}
                   /\ data[i].value \in Values \cup {NoKey}
                   /\ data[i].next \in D \cup {Invalid}
  BY <1>4 DEF EntryOf
<1>6. Cardinality(D) = s
  <2>1. 0 \in Int /\ s - 1 \in Int /\ 0 <= s - 1
    BY <1>1, <1>2
  <2>2. Cardinality(0 .. s - 1) = (s - 1) - 0 + 1
    BY <2>1, FS_Interval
  <2> QED
    BY <1>1, <1>3, <2>2
<1>7. capacity \in 0 .. Cardinality(DOMAIN data)
  BY <1>1, <1>4, <1>6
<1>8. freeIndex \in 0 .. capacity - 1 \cup {Invalid}
  BY DEF Table
<1> QED
  BY <1>4, <1>5, <1>7, <1>8

LEMMA TableLinks ==
  ASSUME Table(data, capacity, freeIndex)
  PROVE  /\ \A i, j \in DOMAIN data :
              (data[i].next = data[j].next /\ data[i].next # Invalid) => i = j
         /\ \A i \in DOMAIN data :
              data[i].next # Invalid => data[i].key # NoKey /\ data[data[i].next].key # NoKey
         /\ \A i \in DOMAIN data : data[i].key # NoKey => i < capacity /\ Lookup(data[i].key) = i
<1>1. PICK D : /\ IsArray(data, D, Positions[capacity - 1])
               /\ DOMAIN data = D /\ 0 .. capacity - 1 \subseteq D
  BY TableArray
<1>2. PICK P : P = Positions[capacity - 1]
  OBVIOUS
<1>3. /\ data \in [D -> EntryOf(D)] /\ Keyed(data)
      /\ Chained(D, KeysOf(data), LinksOf(data), P)
  BY <1>1, <1>2, KeyedIs DEF IsArray, InChains
<1>4. \A i \in D : /\ KeysOf(data)[i] = data[i].key /\ LinksOf(data)[i] = data[i].next
                   /\ data[i].next \in D \cup {Invalid} /\ data[i].key \in Keys \cup {NoKey}
  BY <1>1, <1>3 DEF KeysOf, LinksOf, EntryOf
<1>5. \A i, j \in D : (data[i].next = data[j].next /\ data[i].next # Invalid) => i = j
  BY <1>3, <1>4 DEF Chained, Apart
<1>6. \A i \in D : data[i].next # Invalid => data[i].key # NoKey /\ data[data[i].next].key # NoKey
  BY <1>3, <1>4 DEF Chained, Links
<1>7. ASSUME NEW i \in D, data[i].key # NoKey PROVE i < capacity /\ Lookup(data[i].key) = i
  <2>1. PICK k : k = data[i].key
    OBVIOUS
  <2>2. PICK j : j = Lookup(k)
    OBVIOUS
  <2>3. k \in Keys /\ ~ NotIn(data, k)
    BY <1>1, <1>4, <1>7, <2>1 DEF NotIn
  <2>4. j \in DOMAIN data /\ data[j].key = k
    BY <2>2, <2>3, LookupIs
  <2>5. i = j
    BY <1>1, <1>3, <1>7, <2>1, <2>4 DEF Keyed
  <2>6. i < capacity
    BY <1>1, <1>7 DEF Table, UsedIn
  <2> QED
    BY <2>1, <2>2, <2>5, <2>6
<1> QED
  BY <1>1, <1>5, <1>6, <1>7

LEMMA InvInOrder == TableInv => TableInOrder
<1> SUFFICES ASSUME TableInv PROVE TableInOrder
  OBVIOUS
<1>1. /\ IsTable(data, capacity, freeIndex) /\ CopiesAre(copies, data)
      /\ rc \in {"None", "Again", "OutOfMemory", "True", "False"} /\ hung \in BOOLEAN
  BY DEF TableInv
<1>2. copies = [k \in StrKeys |-> IF NotIn(data, k) THEN 0 ELSE 1]
  BY <1>1 DEF CopiesAre
<1>3. copies \in [StrKeys -> Nat]
  BY <1>2
<1>4. \A i : i \in Used <=> i \in DOMAIN data /\ data[i].key # NoKey
  BY DEF Used, IsEmpty
<1>5. CASE capacity = 0
  <2>1. DOMAIN data = {} /\ freeIndex = 0
    BY <1>1, <1>5, CapacityIs, EmptyTable
  <2>2. capacity \in 0 .. Cardinality(DOMAIN data)
    BY <1>5, <2>1, FS_EmptySet
  <2>3. TypeOK
    BY <1>1, <1>3, <1>5, <2>1, <2>2 DEF TypeOK
  <2>4. Used = {}
    BY <1>4, <2>1
  <2> QED
    <3>1. VisitedIsFound /\ FreeIsEmpty /\ ChainsApart
      BY <1>5, <2>1, <2>4 DEF VisitedIsFound, FreeIsEmpty, ChainsApart
    <3>2. CopiesOwned
      <4> SUFFICES ASSUME NEW k \in StrKeys
                   PROVE  copies[k] = Cardinality({i \in Used : data[i].key = k})
        BY DEF CopiesOwned
      <4>1. {i \in Used : data[i].key = k} = {} /\ NotIn(data, k)
        BY <2>1, <2>4 DEF NotIn
      <4> QED
        BY <1>2, <4>1, FS_EmptySet
    <3> QED
      BY <2>3, <3>1, <3>2 DEF TableInOrder
<1>6. CASE capacity # 0
  <2>1. Table(data, capacity, freeIndex)
    BY <1>1, <1>6, CapacityIs
  <2>2. TypeOK
    BY <1>1, <1>3, <1>6, <2>1, TableTypes DEF TypeOK
  <2>3. VisitedIsFound
    BY <1>4, <2>1, TableLinks DEF VisitedIsFound
  <2>4. FreeIsEmpty
    <3> SUFFICES ASSUME freeIndex # Invalid PROVE data[freeIndex].key = NoKey
      BY DEF FreeIsEmpty, IsEmpty
    <3>1. freeIndex \in (0 .. capacity - 1) \ UsedIn(data)
      BY <2>1 DEF Table
    <3>2. 0 .. capacity - 1 \subseteq DOMAIN data
      BY <2>1, TableArray
    <3> QED
      BY <3>1, <3>2 DEF UsedIn
  <2>5. ChainsApart
    <3>1. ASSUME NEW i \in DOMAIN data, data[i].next # Invalid
          PROVE  {i, data[i].next} \subseteq Used
      <4>1. data[i].next \in DOMAIN data
        BY <2>1, <3>1, TableTypes
      <4> QED
        BY <1>4, <2>1, <3>1, <4>1, TableLinks
    <3> QED
      BY <2>1, <3>1, TableLinks DEF ChainsApart
  <2>6. CopiesOwned
    <3> SUFFICES ASSUME NEW k \in StrKeys
                 PROVE  copies[k] = Cardinality({i \in Used : data[i].key = k})
      BY DEF CopiesOwned
    <3>1. PICK S : S = {i \in Used : data[i].key = k}
      OBVIOUS
    <3>2. k # NoKey
      BY KeyIsKey, HashTblAssumption DEF HashTblAssumption
    <3>3. \A i : i \in S <=> i \in DOMAIN data /\ data[i].key = k
      BY <1>4, <3>1, <3>2
    <3>4. Keyed(data)
      BY <2>1, TableArray, KeyedIs
    <3> QED
      BY <1>2, <3>1, <3>2, <3>3, <3>4, KeyCount
  <2> QED
    BY <2>2, <2>3, <2>4, <2>5, <2>6 DEF TableInOrder
<1> QED
  BY <1>5, <1>6

(* The table is in order after every call of a history in which it grows well: no
   entry of the old array has another main position for tbl_realloc than for the next
   call, and none before an empty one goes to position 0. *)
THEOREM StaysInOrder == Spec /\ GrowsInOrder => []TableInOrder
<1>1. Init => TableInv
  BY TableInit
<1>2. TableInv /\ [GrowsWell]_vars /\ [Next]_vars => TableInv'
  <2>1. TableInv /\ UNCHANGED vars => TableInv'
    BY DEF vars, TableInv
  <2> QED
    BY <2>1, TableStep
<1>3. TableInv => TableInOrder
  BY InvInOrder
<1> QED
  BY <1>1, <1>2, <1>3, PTL DEF Spec, GrowsInOrder

-----------------------------------------------------------------------------
(* The table is a map *)

TheMap == [k \in {l \in Keys : Lookup(l) # Invalid} |-> data[Lookup(k)].value]

MapOf(S) == [k \in {x[1] : x \in S} |-> CHOOSE v : <<k, v>> \in S]

LEMMA LookupInTable ==
  IsTable(data, capacity, freeIndex) =>
    \A k \in Keys : \/ Lookup(k) = Invalid /\ NotIn(data, k)
                    \/ /\ Lookup(k) # Invalid /\ Lookup(k) \in DOMAIN data
                       /\ data[Lookup(k)].key = k
<1> SUFFICES ASSUME IsTable(data, capacity, freeIndex), NEW k \in Keys
             PROVE  \/ Lookup(k) = Invalid /\ NotIn(data, k)
                    \/ /\ Lookup(k) # Invalid /\ Lookup(k) \in DOMAIN data
                       /\ data[Lookup(k)].key = k
  OBVIOUS
<1>1. CASE capacity = 0
  BY <1>1, CapacityIs, EmptyTable DEF Lookup, HasChain
<1>2. CASE capacity # 0
  BY <1>2, CapacityIs, LookupIs
<1> QED
  BY <1>1, <1>2

LEMMA IsKeyed ==
  IsTable(data, capacity, freeIndex)
    => Keyed(data) /\ \A i \in DOMAIN data : data[i].key \in Keys \cup {NoKey}
<1> SUFFICES ASSUME IsTable(data, capacity, freeIndex)
             PROVE  Keyed(data) /\ \A i \in DOMAIN data : data[i].key \in Keys \cup {NoKey}
  OBVIOUS
<1>1. CASE capacity = 0
  <2>1. DOMAIN data = {}
    BY <1>1, CapacityIs, EmptyTable
  <2> QED
    BY <2>1 DEF Keyed
<1>2. CASE capacity # 0
  BY <1>2, CapacityIs, TableArray, TableTypes, KeyedIs
<1> QED
  BY <1>1, <1>2

LEMMA TheMapIs == IsTable(data, capacity, freeIndex) => TheMap = MapOf(Pairs(data))
<1> SUFFICES ASSUME IsTable(data, capacity, freeIndex) PROVE TheMap = MapOf(Pairs(data))
  OBVIOUS
<1>1. PICK S, T : S = Pairs(data) /\ T = {x[1] : x \in S}
  OBVIOUS
<1>2. \A k : k \in T <=> k \in Keys /\ Lookup(k) # Invalid
  <2> SUFFICES ASSUME NEW k PROVE k \in T <=> k \in Keys /\ Lookup(k) # Invalid
    OBVIOUS
  <2>1. ASSUME k \in T PROVE k \in Keys /\ Lookup(k) # Invalid
    <3>1. PICK x \in S : x[1] = k
      BY <1>1, <2>1
    <3>2. PICK i \in UsedIn(data) : x = <<data[i].key, data[i].value>>
      BY <1>1, <3>1 DEF Pairs
    <3>3. i \in DOMAIN data /\ data[i].key = k /\ k # NoKey
      BY <3>1, <3>2 DEF UsedIn
    <3> QED
      BY <3>3, IsKeyed, LookupInTable DEF NotIn
  <2>2. ASSUME k \in Keys, Lookup(k) # Invalid PROVE k \in T
    <3>1. PICK i : i = Lookup(k)
      OBVIOUS
    <3>2. i \in UsedIn(data) /\ data[i].key = k
      BY <2>2, <3>1, LookupInTable, KeyIsKey DEF UsedIn
    <3>3. <<k, data[i].value>> \in S
      BY <1>1, <3>2 DEF Pairs
    <3>4. <<k, data[i].value>>[1] = k
      OBVIOUS
    <3> QED
      BY <1>1, <3>3, <3>4
  <2> QED
    BY <2>1, <2>2
<1>3. ASSUME NEW k \in T PROVE data[Lookup(k)].value = CHOOSE v : <<k, v>> \in S
  <2>1. PICK i : i = Lookup(k)
    OBVIOUS
  <2>2. i \in UsedIn(data) /\ data[i].key = k /\ k # NoKey
    BY <1>2, <2>1, LookupInTable, KeyIsKey DEF UsedIn
  <2>3. \A v : <<k, v>> \in S <=> v = data[i].value
    <3> SUFFICES ASSUME NEW v PROVE <<k, v>> \in S <=> v = data[i].value
      OBVIOUS
    <3>1. ASSUME <<k, v>> \in S PROVE v = data[i].value
      <4>1. PICK j \in UsedIn(data) : <<k, v>> = <<data[j].key, data[j].value>>
        BY <1>1, <3>1 DEF Pairs
      <4>2. j = i
        BY <2>2, <4>1, IsKeyed DEF Keyed, UsedIn
      <4> QED
        BY <4>1, <4>2
    <3>2. <<k, data[i].value>> \in S
      BY <1>1, <2>2 DEF Pairs
    <3> QED
      BY <3>1, <3>2
  <2>4. (CHOOSE v : <<k, v>> \in S) = CHOOSE v : v = data[i].value
    BY <2>3
  <2> QED
    BY <2>1, <2>4
<1>4. T = {l \in Keys : Lookup(l) # Invalid}
  BY <1>2
<1>5. TheMap = [k \in T |-> data[Lookup(k)].value]
  BY <1>4 DEF TheMap
<1>6. MapOf(S) = [k \in T |-> CHOOSE v : <<k, v>> \in S]
  BY <1>1 DEF MapOf
<1> QED
  BY <1>1, <1>3, <1>5, <1>6

LEMMA MapDomain ==
  ASSUME NEW S
  PROVE  \A k : k \in DOMAIN MapOf(S) <=> \E x \in S : x[1] = k
<1>1. PICK T : T = {x[1] : x \in S}
  OBVIOUS
<1>2. MapOf(S) = [k \in T |-> CHOOSE v : <<k, v>> \in S]
  BY <1>1 DEF MapOf
<1>3. DOMAIN MapOf(S) = T
  BY <1>2
<1> QED
  BY <1>1, <1>3

LEMMA MapShape ==
  ASSUME NEW S, NEW m, m = MapOf(S)
  PROVE  m = [k \in DOMAIN m |-> CHOOSE v : <<k, v>> \in S]
<1>1. PICK T : T = {x[1] : x \in S}
  OBVIOUS
<1>2. m = [k \in T |-> CHOOSE v : <<k, v>> \in S]
  BY <1>1 DEF MapOf
<1>3. DOMAIN m = T
  BY <1>2
<1> QED
  BY <1>2, <1>3

NoPair(S, k) == \A x \in S : x[1] # k
Adds(S, R, k, v) == \A x : x \in R <=> x \in S \/ x = <<k, v>>
Drops(S, R, k) == \A x : x \in R <=> x \in S /\ x[1] # k

LEMMA MapAdded ==
  ASSUME NEW S, NEW R, NEW k, NEW v, NoPair(S, k), Adds(S, R, k, v),
         NEW m, m = MapOf(S), NEW n, n = MapOf(R)
  PROVE  /\ k \notin DOMAIN m
         /\ n = [l \in DOMAIN m \cup {k} |-> IF l = k THEN v ELSE m[l]]
<1>1. \A x \in S : x[1] # k
  BY DEF NoPair
<1>2. n = MapOf(R)
  OBVIOUS
<1>3. \A x : x \in R <=> x \in S \/ x = <<k, v>>
  BY DEF Adds
<1>4. <<k, v>>[1] = k
  OBVIOUS
<1>5. k \notin DOMAIN m
  BY <1>1, MapDomain
<1>6. \A l : l \in DOMAIN n <=> l \in DOMAIN m \/ l = k
  <2> SUFFICES ASSUME NEW l PROVE l \in DOMAIN n <=> l \in DOMAIN m \/ l = k
    OBVIOUS
  <2>1. l \in DOMAIN n <=> \E x \in R : x[1] = l
    BY <1>2, MapDomain
  <2>2. l \in DOMAIN m <=> \E x \in S : x[1] = l
    BY MapDomain
  <2> QED
    BY <1>3, <1>4, <2>1, <2>2
<1>7. DOMAIN n = DOMAIN m \cup {k}
  BY <1>6
<1>8. ASSUME NEW l \in DOMAIN n
      PROVE  (CHOOSE w : <<l, w>> \in R) = IF l = k THEN v ELSE m[l]
  <2>1. CASE l = k
    <3>1. \A w : <<l, w>> \in R <=> w = v
      <4> SUFFICES ASSUME NEW w PROVE <<l, w>> \in R <=> w = v
        OBVIOUS
      <4>1. <<l, w>> \notin S
        <5>1. <<l, w>>[1] = l
          OBVIOUS
        <5> QED
          BY <1>1, <2>1, <5>1
      <4> QED
        BY <1>3, <2>1, <4>1
    <3>2. (CHOOSE w : <<l, w>> \in R) = CHOOSE w : w = v
      BY <3>1
    <3> QED
      BY <2>1, <3>2
  <2>2. CASE l # k
    <3>1. \A w : <<l, w>> \in R <=> <<l, w>> \in S
      BY <1>3, <2>2
    <3>2. (CHOOSE w : <<l, w>> \in R) = CHOOSE w : <<l, w>> \in S
      BY <3>1
    <3>3. m = [j \in DOMAIN m |-> CHOOSE w : <<j, w>> \in S]
      BY MapShape, Zenon
    <3>4. m[l] = CHOOSE w : <<l, w>> \in S
      BY <1>6, <2>2, <3>3
    <3> QED
      BY <2>2, <3>2, <3>4
  <2> QED
    BY <2>1, <2>2
<1>9. n = [l \in DOMAIN n |-> CHOOSE w : <<l, w>> \in R]
  BY <1>2, MapShape, Zenon
<1>10. n = [l \in DOMAIN n |-> IF l = k THEN v ELSE m[l]]
  BY <1>8, <1>9
<1>11. n = [l \in DOMAIN m \cup {k} |-> IF l = k THEN v ELSE m[l]]
  BY <1>7, <1>10
<1> QED
  BY <1>5, <1>11

LEMMA MapRemoved ==
  ASSUME NEW S, NEW R, NEW k, Drops(S, R, k),
         NEW m, m = MapOf(S), NEW n, n = MapOf(R)
  PROVE  n = [l \in DOMAIN m \ {k} |-> m[l]]
<1>2. n = MapOf(R)
  OBVIOUS
<1>3. \A x : x \in R <=> x \in S /\ x[1] # k
  BY DEF Drops
<1>4. \A l : l \in DOMAIN n <=> l \in DOMAIN m /\ l # k
  <2> SUFFICES ASSUME NEW l PROVE l \in DOMAIN n <=> l \in DOMAIN m /\ l # k
    OBVIOUS
  <2>1. l \in DOMAIN n <=> \E x \in R : x[1] = l
    BY <1>2, MapDomain
  <2>2. l \in DOMAIN m <=> \E x \in S : x[1] = l
    BY MapDomain
  <2> QED
    BY <1>3, <2>1, <2>2
<1>5. DOMAIN n = DOMAIN m \ {k}
  BY <1>4
<1>6. ASSUME NEW l \in DOMAIN n PROVE (CHOOSE w : <<l, w>> \in R) = m[l]
  <2>0. m = [j \in DOMAIN m |-> CHOOSE w : <<j, w>> \in S]
    BY MapShape, Zenon
  <2>1. l # k /\ m[l] = CHOOSE w : <<l, w>> \in S
    BY <1>4, <2>0
  <2>2. \A w : <<l, w>> \in R <=> <<l, w>> \in S
    <3> SUFFICES ASSUME NEW w PROVE <<l, w>> \in R <=> <<l, w>> \in S
      OBVIOUS
    <3>1. <<l, w>>[1] = l
      OBVIOUS
    <3> QED
      BY <1>3, <2>1, <3>1
  <2>3. (CHOOSE w : <<l, w>> \in R) = CHOOSE w : <<l, w>> \in S
    BY <2>2
  <2> QED
    BY <2>1, <2>3
<1>7. n = [l \in DOMAIN n |-> CHOOSE w : <<l, w>> \in R]
  BY <1>2, MapShape, Zenon
<1>8. n = [l \in DOMAIN n |-> m[l]]
  BY <1>6, <1>7
<1> QED
  BY <1>5, <1>8

LEMMA MapEmpty == MapOf({}) = [k \in {} |-> k]
<1>1. {x[1] : x \in {}} = {}
  OBVIOUS
<1> QED
  BY <1>1 DEF MapOf

LEMMA MapHas ==
  ASSUME NEW d, NEW k, k # NoKey
  PROVE  k \in DOMAIN MapOf(Pairs(d)) <=> ~ NotIn(d, k)
BY MapDomain, NotInPairs

LEMMA TheMapNow ==
  ASSUME IsTable(data, capacity, freeIndex), IsTable(data', capacity', freeIndex')
  PROVE  TheMap = MapOf(Pairs(data)) /\ TheMap' = MapOf(Pairs(data'))
<1>1. TheMap = MapOf(Pairs(data))
  BY TheMapIs
<1>2. (IsTable(data, capacity, freeIndex) => TheMap = MapOf(Pairs(data)))'
  BY TheMapIs, PTL
<1>3. TheMap' = MapOf(Pairs(data'))
  BY <1>2
<1> QED
  BY <1>1, <1>3

LEMMA MapSet ==
  ASSUME NEW k, NEW v, NEW m, m = TheMap, rc' = "None", k \notin DOMAIN m,
         TheMap' = [l \in DOMAIN m \cup {k} |-> IF l = k THEN v ELSE m[l]]
  PROVE  Map!Set(k, v)
BY DEF Map!Set, TheMap

LEMMA MapAgain ==
  ASSUME NEW k, NEW v, rc' = "Again", k \in DOMAIN TheMap, TheMap' = TheMap
  PROVE  Map!Set(k, v)
BY DEF Map!Set, TheMap

LEMMA MapFails ==
  ASSUME NEW k, NEW v, rc' = "OutOfMemory", TheMap' = TheMap
  PROVE  Map!Set(k, v)
BY DEF Map!Set, TheMap

LEMMA MapRemove ==
  ASSUME NEW k, NEW m, m = TheMap, rc' = "True", k \in DOMAIN m,
         TheMap' = [l \in DOMAIN m \ {k} |-> m[l]]
  PROVE  Map!Remove(k)
BY DEF Map!Remove, TheMap

LEMMA MapAbsent ==
  ASSUME NEW k, rc' = "False", k \notin DOMAIN TheMap, TheMap' = TheMap
  PROVE  Map!Remove(k)
BY DEF Map!Remove, TheMap

LEMMA MapDeinit ==
  ASSUME rc' = rc, TheMap' = [k \in {} |-> k]
  PROVE  Map!Deinit
BY DEF Map!Deinit, Map!Empty, TheMap

LEMMA MapInit ==
  ASSUME rc = "None", TheMap = [k \in {} |-> k]
  PROVE  Map!Init
BY DEF Map!Init, Map!Empty, TheMap

LEMMA MapStutter ==
  ASSUME rc' = rc, TheMap' = TheMap
  PROVE  UNCHANGED Map!vars
BY DEF Map!vars, TheMap

LEMMA MapStep ==
  TableInv /\ TableInv' /\ GrowsWell /\ [Next]_vars => Map!Next \/ UNCHANGED Map!vars
<1> SUFFICES ASSUME TableInv, TableInv', GrowsWell, [Next]_vars
             PROVE  Map!Next \/ UNCHANGED Map!vars
  OBVIOUS
<1>1. IsTable(data, capacity, freeIndex) /\ IsTable(data', capacity', freeIndex')
  BY DEF TableInv
<1>2. PICK e, m, n : e = data' /\ m = TheMap /\ n = TheMap'
  OBVIOUS
<1>3. m = MapOf(Pairs(data)) /\ n = MapOf(Pairs(e))
  BY <1>1, <1>2, TheMapNow
<1>4. \A k \in Keys : k \in DOMAIN m <=> ~ NotIn(data, k)
  BY <1>3, MapHas, KeyIsKey
<1>5. \A k \in Keys, v \in Values : Map!Set(k, v) => Map!Next
  BY DEF Map!Next
<1>6. \A k \in Keys : Map!Remove(k) => Map!Next
  BY DEF Map!Next
<1>7. ASSUME NEW k \in Keys, NEW v \in Values, SetFirst(k, v) \/ Set(k, v) \/ SetGrows(k, v)
      PROVE  Map!Set(k, v)
  <2>1. CASE NotIn(data, k) /\ Pairs(e) = Pairs(data) \cup {<<k, v>>} /\ rc' = "None"
    <3>1. NoPair(Pairs(data), k)
      BY <2>1, NotInPairs, KeyIsKey DEF NoPair
    <3>2. Adds(Pairs(data), Pairs(e), k, v)
      BY <2>1 DEF Adds
    <3>3. /\ k \notin DOMAIN m
          /\ n = [l \in DOMAIN m \cup {k} |-> IF l = k THEN v ELSE m[l]]
      BY <1>3, <3>1, <3>2, MapAdded
    <3> QED
      BY <1>2, <2>1, <3>3, MapSet
  <2>2. CASE ~ NotIn(data, k) /\ Pairs(e) = Pairs(data) /\ rc' = "Again"
    BY <1>2, <1>3, <1>4, <2>2, MapAgain
  <2> QED
    BY <1>1, <1>2, <1>7, <2>1, <2>2, SettingDoes DEF Sets
<1>8. ASSUME NEW k \in Keys, NEW v \in Values, SetFails(k) PROVE Map!Set(k, v)
  <2>1. rc' = "OutOfMemory" /\ e = data
    BY <1>2, <1>8 DEF SetFails
  <2> QED
    BY <1>2, <1>3, <2>1, MapFails
<1>9. ASSUME NEW k \in Keys, Remove(k) PROVE Map!Remove(k)
  <2>1. Removes(k)
    BY <1>1, <1>9, RemovingDoes
  <2>2. ~ NotIn(data, k) /\ Pairs(e) = {x \in Pairs(data) : x[1] # k} /\ rc' = "True"
    BY <1>2, <2>1 DEF Removes
  <2>3. Drops(Pairs(data), Pairs(e), k)
    BY <2>2 DEF Drops
  <2>4. n = [l \in DOMAIN m \ {k} |-> m[l]]
    BY <1>3, <2>3, MapRemoved
  <2> QED
    BY <1>2, <1>4, <2>2, <2>4, MapRemove
<1>10. ASSUME NEW k \in Keys, RemoveAbsent(k) PROVE Map!Remove(k)
  <2>1. rc' = "False" /\ e = data /\ Stop(k) = Invalid
    BY <1>2, <1>10 DEF RemoveAbsent
  <2>2. NotIn(data, k)
    <3>1. CASE capacity = 0
      BY <1>1, <3>1, CapacityIs, EmptyTable
    <3>2. CASE capacity # 0
      BY <1>1, <2>1, <3>2, CapacityIs, StopIs
    <3> QED
      BY <3>1, <3>2
  <2> QED
    BY <1>2, <1>3, <1>4, <2>1, <2>2, MapAbsent
<1>11. CASE Deinit
  <2>1. rc' = rc /\ e = Entries(0)
    BY <1>2, <1>11 DEF Deinit
  <2>2. n = [k \in {} |-> k]
    BY <1>3, <2>1, EmptyTable, MapEmpty
  <2> QED
    BY <1>2, <2>1, <2>2, MapDeinit DEF Map!Next
<1>12. CASE rc' = rc /\ data' = data
  BY <1>2, <1>3, <1>12, MapStutter
<1>13. ASSUME NEW k \in Keys, RemoveHangs(k) PROVE rc' = rc /\ data' = data
  BY <1>13 DEF RemoveHangs
<1>14. UNCHANGED vars => rc' = rc /\ data' = data
  BY DEF vars
<1>15. CASE Next
  <2>1. CASE \E k \in Keys, v \in Values :
               SetFirst(k, v) \/ Set(k, v) \/ SetGrows(k, v) \/ SetFails(k)
    BY <1>5, <1>7, <1>8, <2>1
  <2>2. CASE \E k \in Keys : Remove(k) \/ RemoveAbsent(k) \/ RemoveHangs(k)
    BY <1>6, <1>9, <1>10, <1>12, <1>13, <2>2
  <2> QED
    BY <1>11, <1>15, <2>1, <2>2 DEF Next
<1> QED
  BY <1>12, <1>14, <1>15

LEMMA InitIsMap == Init => Map!Init
<1> SUFFICES ASSUME Init PROVE Map!Init
  OBVIOUS
<1>1. IsTable(data, capacity, freeIndex) /\ Pairs(data) = {} /\ rc = "None"
  BY EmptyTable DEF Init
<1>2. TheMap = [k \in {} |-> k]
  BY <1>1, TheMapIs, MapEmpty
<1> QED
  BY <1>1, <1>2, MapInit

(* The table is the map of KeyMap, in every history in which it grows well: a call of
   tbl_get finds the value a key was set to, until the key is removed, and each call
   returns what it should. *)
THEOREM IsMap == Spec /\ GrowsInOrder => ImplementsMap
<1>1. Init => TableInv /\ Map!Init
  BY TableInit, InitIsMap
<1>2. TableInv /\ [GrowsWell]_vars /\ [Next]_vars => TableInv'
  <2>1. TableInv /\ UNCHANGED vars => TableInv'
    BY DEF vars, TableInv
  <2> QED
    BY <2>1, TableStep
<1>3. TableInv /\ TableInv' /\ [GrowsWell]_vars /\ [Next]_vars => [Map!Next]_(Map!vars)
  <2>1. TableInv /\ UNCHANGED vars => GrowsWell
    BY CapacityIs DEF vars, TableInv, GrowsWell
  <2> QED
    BY <2>1, MapStep
<1> QED
  BY <1>1, <1>2, <1>3, PTL DEF Spec, GrowsInOrder, ImplementsMap, Map!Spec

-----------------------------------------------------------------------------
(* Even hashes: the two masks agree *)

EvenHashes == \A k \in Keys : Hash(k) % 2 = 0

EmptiesWell == (capacity # 0 /\ capacity' > capacity) => EmptiesFit(data, capacity)
EmptiesInOrder == [][EmptiesWell]_vars

LEMMA EvenSame ==
  ASSUME EvenHashes, Table(data, capacity, freeIndex), 2 * capacity - 1 <= MaxCapacity
  PROVE  SamePlaces(data, capacity)
<1>1. capacity \in Nat /\ capacity >= 4
  BY TableArray
<1>2. MaxCapacity \in Nat
  BY HashTblAssumption DEF HashTblAssumption, MinCapacity
<1>3. PICK m : m = 2 * capacity - 2
  OBVIOUS
<1>4. /\ m \in Nat /\ m % 2 = 0 /\ m + 1 = 2 * capacity - 1
      /\ m \in 0 .. MaxCapacity /\ m + 1 \in 0 .. MaxCapacity
  BY <1>1, <1>2, <1>3
<1>5. ASSUME NEW k \in Keys PROVE MainPos(k, m + 1) = MainPos(k, m)
  <2>1. PICK x : x = Hash(k)
    OBVIOUS
  <2>2. x \in Nat /\ x % 2 = 0
    BY <2>1, HashIs DEF EvenHashes
  <2>3. And(x, m + 1) = And(x, m)
    BY <1>4, <2>2, AndOfEven
  <2> QED
    BY <1>4, <2>1, <2>3, PositionIs
<1>6. \A i \in UsedIn(data) : data[i].key \in Keys
  BY IsKeyed DEF UsedIn, IsTable
<1> QED
  BY <1>3, <1>4, <1>5, <1>6 DEF SamePlaces

LEMMA OnlySetGrows ==
  ASSUME TableInv, Next, capacity # 0, capacity' > capacity
  PROVE  /\ Table(data, capacity, freeIndex) /\ 2 * capacity - 1 <= MaxCapacity
         /\ freeIndex = Invalid
<1>1. IsTable(data, capacity, freeIndex) /\ capacity \in Nat
  BY CapacityIs DEF TableInv
<1>2. Table(data, capacity, freeIndex)
  BY <1>1, CapacityIs
<1>3. ~ Deinit /\ capacity' # capacity
  BY <1>1 DEF Deinit
<1>4. \A k \in Keys, v \in Values : ~ SetFirst(k, v) /\ ~ Set(k, v) /\ ~ SetFails(k)
  BY <1>3 DEF SetFirst, Set, SetFails
<1>5. \A k \in Keys : ~ Remove(k) /\ ~ RemoveAbsent(k) /\ ~ RemoveHangs(k)
  BY <1>3 DEF Remove, RemoveAbsent, RemoveHangs
<1>6. PICK k \in Keys, v \in Values : SetGrows(k, v)
  BY <1>3, <1>4, <1>5 DEF Next
<1> QED
  BY <1>2, <1>6 DEF SetGrows, HasRoom

LEMMA EvenGrowsWell ==
  ASSUME EvenHashes, TableInv, Next, EmptiesWell
  PROVE  GrowsWell
BY OnlySetGrows, EvenSame DEF GrowsWell, EmptiesWell, FitsTwice

(* With even hashes the table is in order, and is the map, in every history in which
   no growth finds an empty entry after one that goes to position 0. *)
THEOREM EvenStaysInOrder ==
  ASSUME EvenHashes
  PROVE  Spec /\ EmptiesInOrder => []TableInOrder /\ ImplementsMap
<1>1. Init => TableInv
  BY TableInit
<1>2. TableInv /\ [Next]_vars /\ [EmptiesWell]_vars => TableInv' /\ [GrowsWell]_vars
  <2>1. TableInv /\ UNCHANGED vars => TableInv'
    BY DEF vars, TableInv
  <2> QED
    BY <2>1, TableStep, EvenGrowsWell
<1>3. Spec /\ EmptiesInOrder => GrowsInOrder
  BY <1>1, <1>2, PTL DEF Spec, EmptiesInOrder, GrowsInOrder
<1> QED
  BY <1>3, StaysInOrder, IsMap, PTL

-----------------------------------------------------------------------------
(* A table that never grows *)

(* As long as the table keeps the size it is allocated with, which is that of the log
   thread with its two sources, it is in order and is the map, for any keys and any
   hashes. *)
THEOREM SmallStaysInOrder ==
  ASSUME MaxCapacity < 2 * MinCapacity - 1
  PROVE  Spec => []TableInOrder /\ ImplementsMap
<1>1. Init => TableInv
  BY TableInit
<1>2. TableInv /\ Next => GrowsWell
  <2> SUFFICES ASSUME TableInv, Next, capacity # 0, capacity' > capacity PROVE FALSE
    BY DEF GrowsWell
  <2>1. Table(data, capacity, freeIndex) /\ 2 * capacity - 1 <= MaxCapacity
    BY OnlySetGrows
  <2>2. capacity \in Nat /\ capacity >= 4
    BY <2>1, TableArray
  <2>3. MaxCapacity \in Nat
    BY HashTblAssumption DEF HashTblAssumption, MinCapacity
  <2> QED
    BY <2>1, <2>2, <2>3 DEF MinCapacity
<1>3. TableInv /\ [Next]_vars => TableInv' /\ [GrowsWell]_vars
  <2>1. TableInv /\ UNCHANGED vars => TableInv'
    BY DEF vars, TableInv
  <2> QED
    BY <1>2, <2>1, TableStep
<1>4. Spec => GrowsInOrder
  BY <1>1, <1>3, PTL DEF Spec, GrowsInOrder
<1> QED
  BY <1>4, StaysInOrder, IsMap, PTL

-----------------------------------------------------------------------------
(* A table in which the free index is the first empty entry *)

FreeIsFirst == First(data, capacity, freeIndex)
RemovesInOrder == [][RemovesAbove]_vars

LEMMA FirstGrowsWell ==
  ASSUME EvenHashes, TableInv, FreeIsFirst, Next
  PROVE  GrowsWell
<1> SUFFICES ASSUME capacity # 0, capacity' > capacity PROVE FitsTwice(data, capacity)
  BY DEF GrowsWell
<1>1. /\ Table(data, capacity, freeIndex) /\ 2 * capacity - 1 <= MaxCapacity
      /\ freeIndex = Invalid
  BY OnlySetGrows
<1>2. SamePlaces(data, capacity)
  BY <1>1, EvenSame
<1>3. \A j \in 0 .. capacity - 1 : data[j].key # NoKey
  <2>1. capacity \in Nat /\ capacity < Invalid
    BY <1>1, TableArray
  <2>2. \A j \in 0 .. capacity - 1 : j < freeIndex
    BY <1>1, <2>1 DEF Invalid
  <2> QED
    BY <2>2 DEF FreeIsFirst, First, UsedIn
<1> QED
  BY <1>2, <1>3 DEF FitsTwice, EmptiesFit

LEMMA FirstStep ==
  ASSUME TableInv, GrowsWell, RemovesAbove, FreeIsFirst, Next
  PROVE  FreeIsFirst'
<1>1. IsTable(data, capacity, freeIndex)
  BY DEF TableInv
<1>2. KeepsFirst => FreeIsFirst'
  BY DEF KeepsFirst, FreeIsFirst
<1>3. \A k \in Keys, v \in Values : SetFirst(k, v) \/ Set(k, v) \/ SetGrows(k, v) => KeepsFirst
  BY <1>1, SettingDoes
<1>4. \A k \in Keys : Remove(k) => KeepsFirst
  BY <1>1, RemovingDoes
<1>5. Deinit => KeepsFirst
  BY DEF Deinit, KeepsFirst, First
<1>6. \A k \in Keys : SetFails(k) \/ RemoveAbsent(k) \/ RemoveHangs(k) => KeepsFirst
  BY DEF SetFails, RemoveAbsent, RemoveHangs, KeepsFirst
<1> QED
  BY <1>2, <1>3, <1>4, <1>5, <1>6 DEF Next

(* With even hashes the table is in order, and is the map, in every history in which
   no removal leaves the free index above the entry that it empties: tbl_remove does
   that only to an entry that is alone in its chain, whose index it does not give back. *)
THEOREM FirstStaysInOrder ==
  ASSUME EvenHashes
  PROVE  Spec /\ RemovesInOrder => []TableInOrder /\ []FreeIsFirst /\ ImplementsMap
<1>1. Init => TableInv /\ FreeIsFirst
  <2>1. Init => FreeIsFirst
    BY DEF Init, FreeIsFirst, First
  <2> QED
    BY <2>1, TableInit
<1>2. TableInv /\ FreeIsFirst /\ [Next]_vars /\ [RemovesAbove]_vars
        => TableInv' /\ FreeIsFirst' /\ [GrowsWell]_vars
  <2>1. TableInv /\ FreeIsFirst /\ UNCHANGED vars => TableInv' /\ FreeIsFirst'
    BY DEF vars, TableInv, FreeIsFirst, First
  <2>2. TableInv /\ FreeIsFirst /\ Next => GrowsWell
    BY FirstGrowsWell
  <2>3. TableInv /\ FreeIsFirst /\ Next /\ RemovesAbove => TableInv' /\ FreeIsFirst'
    BY <2>2, TableStep, FirstStep
  <2> QED
    BY <2>1, <2>2, <2>3
<1>3. Spec /\ RemovesInOrder => GrowsInOrder /\ []FreeIsFirst
  BY <1>1, <1>2, PTL DEF Spec, RemovesInOrder, GrowsInOrder
<1> QED
  BY <1>3, StaysInOrder, IsMap, PTL
=============================================================================
