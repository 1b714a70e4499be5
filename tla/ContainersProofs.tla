--------------------------- MODULE ContainersProofs ---------------------------
(***************************************************************************)
(* Theorems about the functions of bit.c, for words of any width that is   *)
(* a power of two, and about the buffers, for texts and files of any       *)
(* length below half of what such a word can count, and any elements.      *)
(***************************************************************************)
EXTENDS Containers, FiniteSetTheorems, SequenceTheorems, WellFoundedInduction,
        TLAPS

-----------------------------------------------------------------------------
(* Induction, with sets in the place of formulas *)

LEMMA SetInduction ==
  ASSUME NEW T, 0 \in T, \A n \in Nat : n \in T => n + 1 \in T
  PROVE  \A n \in Nat : n \in T
<1> SUFFICES ASSUME Nat \ T # {} PROVE FALSE
  OBVIOUS
<1> DEFINE less == OpToRel(<, Nat)
<1>1. IsWellFoundedOn(less, Nat)
  BY NatLessThanWellFounded
<1>2. \A x, y \in Nat : x < y => <<x, y>> \in less
  BY DEF OpToRel
<1> HIDE DEF less
<1>3. PICK x \in Nat \ T : \A y \in Nat \ T : ~ (<<y, x>> \in less)
  BY <1>1, WFMin
<1>4. x # 0 /\ x - 1 \in Nat /\ x - 1 < x
  BY <1>3
<1>5. x - 1 \in T
  BY <1>2, <1>3, <1>4
<1>6. (x - 1) + 1 \in T
  BY <1>4, <1>5
<1> QED
  BY <1>3, <1>6

-----------------------------------------------------------------------------
(* The powers of two *)

\* powers of two are the sizes of power sets
LEMMA PowersGrow ==
  ASSUME NEW k \in Nat, NEW m \in Nat, k <= m
  PROVE  2 ^ k \in Nat /\ 2 ^ m \in Nat /\ 2 ^ k <= 2 ^ m
<1>1. /\ IsFiniteSet(1 .. k) /\ Cardinality(1 .. k) = k
      /\ IsFiniteSet(1 .. m) /\ Cardinality(1 .. m) = m
  BY FS_Interval
<1>2. PICK a, b : a = SUBSET (1 .. k) /\ b = SUBSET (1 .. m)
  OBVIOUS
<1>3. /\ IsFiniteSet(a) /\ Cardinality(a) = 2 ^ k
      /\ IsFiniteSet(b) /\ Cardinality(b) = 2 ^ m
  BY <1>1, <1>2, FS_SUBSET
<1>4. a \subseteq b
  BY <1>2
<1> QED
  BY <1>3, <1>4, FS_Subset, FS_CardinalityType

LEMMA PowerDoubles ==
  ASSUME NEW k \in Nat
  PROVE  2 ^ (k + 1) = 2 * 2 ^ k
<1> DEFINE A == SUBSET (1 .. k)
           B == {X \cup {k + 1} : X \in A}
           C == SUBSET (1 .. k + 1)
           h == [X \in A |-> X \cup {k + 1}]
<1>1. IsFiniteSet(A) /\ Cardinality(A) = 2 ^ k /\ Cardinality(C) = 2 ^ (k + 1)
  <2>1. /\ IsFiniteSet(1 .. k) /\ Cardinality(1 .. k) = k
        /\ IsFiniteSet(1 .. k + 1) /\ Cardinality(1 .. k + 1) = k + 1
    BY FS_Interval
  <2> QED
    BY <2>1, FS_SUBSET
<1>2. \A X \in A : k + 1 \notin X
  OBVIOUS
<1>3. h \in Bijection(A, B)
  <2>1. \A X, Y \in A : h[X] = h[Y] => X = Y
    <3> SUFFICES ASSUME NEW X \in A, NEW Y \in A, X \cup {k + 1} = Y \cup {k + 1} PROVE X = Y
      OBVIOUS
    <3>1. X = (X \cup {k + 1}) \ {k + 1} /\ Y = (Y \cup {k + 1}) \ {k + 1}
      BY <1>2, Zenon
    <3> QED
      BY <3>1, Zenon
  <2>2. h \in [A -> B] /\ \A y \in B : \E X \in A : h[X] = y
    OBVIOUS
  <2> HIDE DEF A, B, h
  <2> QED
    BY <2>1, <2>2 DEF Bijection, Injection, Surjection, IsInjective
<1>4. IsFiniteSet(B) /\ Cardinality(B) = 2 ^ k
  BY <1>1, <1>3, FS_Bijection DEF ExistsBijection
<1>5. A \cap B = {}
  BY <1>2
<1>6. C = A \cup B
  <2>1. ASSUME NEW X, X \subseteq 1 .. k + 1 PROVE X \in A \cup B
    <3>1. X \ {k + 1} \in A
      <4>1. \A i \in 1 .. k + 1 : i # k + 1 => i \in 1 .. k
        OBVIOUS
      <4> QED
        BY <2>1, <4>1
    <3>2. CASE k + 1 \in X
      <4>1. X = (X \ {k + 1}) \cup {k + 1}
        BY <3>2
      <4> QED
        BY <3>1, <4>1
    <3>3. CASE k + 1 \notin X
      <4>1. X = X \ {k + 1}
        BY <3>3
      <4> QED
        BY <3>1, <4>1
    <3> QED
      BY <3>2, <3>3
  <2>2. 1 .. k \subseteq 1 .. k + 1 /\ k + 1 \in 1 .. k + 1
    OBVIOUS
  <2> QED
    BY <2>1, <2>2
<1> HIDE DEF A, B, C
<1>7. Cardinality(A \cup B) = Cardinality(A) + Cardinality(B) - Cardinality(A \cap B)
  BY <1>1, <1>4, FS_Union
<1>8. Cardinality(A \cap B) = 0 /\ 2 ^ k \in Nat
  BY <1>5, PowersGrow, FS_EmptySet
<1>9. PICK p \in Nat : p = 2 ^ k
  BY <1>8
<1>10. Cardinality(A \cup B) = p + p - 0
  BY <1>1, <1>4, <1>7, <1>8, <1>9
<1> QED
  BY <1>1, <1>6, <1>9, <1>10

LEMMA PowerOf ==
  ASSUME NEW k \in Nat
  PROVE  2 ^ k \in Nat /\ 2 ^ k >= 1
<1>1. 2 ^ 0 = 1 /\ 0 \in Nat /\ 0 <= k
  OBVIOUS
<1>2. 2 ^ 0 \in Nat /\ 2 ^ k \in Nat /\ 2 ^ 0 <= 2 ^ k
  BY ONLY <1>1, PowersGrow, k \in Nat
<1> QED
  BY <1>1, <1>2

LEMMA PowerBelow ==
  ASSUME NEW k \in Nat, NEW m \in Nat, k < m
  PROVE  2 ^ (k + 1) <= 2 ^ m /\ 2 ^ k < 2 ^ m
BY PowersGrow, PowerOf, PowerDoubles

LEMMA PowerMultiple ==
  ASSUME NEW k \in Nat, NEW m \in Nat, k <= m
  PROVE  \E d \in Nat : 2 ^ m = 2 ^ k * d
<1> DEFINE T == {j \in Nat : \E d \in Nat : 2 ^ (k + j) = 2 ^ k * d}
<1>1. 0 \in T
  <2>1. 2 ^ (k + 0) = 2 ^ k * 1
    BY PowerOf
  <2> QED
    BY <2>1
<1>2. ASSUME NEW j \in Nat, j \in T PROVE j + 1 \in T
  <2>1. PICK d \in Nat : 2 ^ (k + j) = 2 ^ k * d
    BY <1>2
  <2>2. k + j \in Nat /\ k + (j + 1) = (k + j) + 1
    OBVIOUS
  <2>3. 2 ^ (k + (j + 1)) = 2 * 2 ^ (k + j)
    BY <2>2, PowerDoubles
  <2>4. PICK p \in Nat : p = 2 ^ k
    BY PowerOf
  <2>5. 2 ^ (k + (j + 1)) = p * (2 * d)
    <3>1. PICK q \in Nat : q = 2 ^ (k + j)
      BY <2>2, PowerOf
    <3>2. q = p * d /\ 2 ^ (k + (j + 1)) = 2 * q
      BY <2>1, <2>3, <2>4, <3>1
    <3>3. 2 * q = p * (2 * d)
      BY <3>2
    <3> QED
      BY <3>2, <3>3
  <2>6. 2 * d \in Nat /\ 2 ^ (k + (j + 1)) = 2 ^ k * (2 * d)
    BY <2>4, <2>5
  <2>7. \E c \in Nat : 2 ^ (k + (j + 1)) = 2 ^ k * c
    BY ONLY <2>6, Zenon
  <2> QED
    BY <2>7
<1> HIDE DEF T
<1>3. \A j \in Nat : j \in T
  BY <1>1, <1>2, SetInduction
<1>4. m - k \in T /\ k + (m - k) = m
  BY <1>3
<1> QED
  BY <1>4 DEF T

-----------------------------------------------------------------------------
(* The bits of a number *)

Bit(n, i) == (n \div 2 ^ i) % 2 = 1

LEMMA Division ==
  ASSUME NEW n \in Nat, NEW q \in Nat, q > 0
  PROVE  \E a \in Nat, b \in 0 .. q - 1 : n = q * a + b /\ n \div q = a /\ n % q = b
OBVIOUS

LEMMA DivisionIs ==
  ASSUME NEW n \in Nat, NEW q \in Nat, NEW a \in Nat, NEW b \in Nat, b < q, n = q * a + b
  PROVE  n \div q = a /\ n % q = b
OBVIOUS

\* the highest bit
LEMMA TopIs ==
  ASSUME NEW n \in Nat, NEW t \in Nat, 2 ^ t <= n, n < 2 ^ (t + 1)
  PROVE  Bit(n, t) /\ \A i \in Nat : i > t => ~ Bit(n, i)
<1>1. PICK q \in Nat : q = 2 ^ t /\ q >= 1 /\ n < 2 * q
  BY PowerOf, PowerDoubles
<1>2. n \div q = 1
  <2>1. n - q \in Nat /\ n - q < q /\ n = q * 1 + (n - q)
    BY <1>1
  <2> QED
    BY <1>1, <2>1, DivisionIs
<1>3. ASSUME NEW i \in Nat, i > t PROVE ~ Bit(n, i)
  <2>1. PICK z \in Nat : z = 2 ^ i /\ n < z
    BY <1>1, <1>3, PowerOf, PowerBelow
  <2>2. n \div z = 0
    BY <2>1, DivisionIs, n = z * 0 + n
  <2> QED
    BY <2>1, <2>2 DEF Bit
<1> QED
  BY <1>1, <1>2, <1>3 DEF Bit

LEMMA TopExists ==
  ASSUME NEW n \in Nat, n # 0, NEW w \in Nat, n < 2 ^ w
  PROVE  \E t \in 0 .. w - 1 : 2 ^ t <= n /\ n < 2 ^ (t + 1)
<1> DEFINE T == {p \in Nat : n < 2 ^ p => \E t \in 0 .. p - 1 : 2 ^ t <= n /\ n < 2 ^ (t + 1)}
<1>1. 0 \in T
  BY 2 ^ 0 = 1
<1>2. ASSUME NEW p \in Nat, p \in T PROVE p + 1 \in T
  <2>1. CASE n < 2 ^ p
    <3>1. PICK t \in 0 .. p - 1 : 2 ^ t <= n /\ n < 2 ^ (t + 1)
      BY <1>2, <2>1
    <3>2. t \in 0 .. (p + 1) - 1
      OBVIOUS
    <3> QED
      BY <3>1, <3>2
  <2>2. CASE ~ (n < 2 ^ p)
    <3>1. 2 ^ p <= n /\ p \in 0 .. (p + 1) - 1
      BY <2>2, PowerOf
    <3> QED
      BY <3>1
  <2> QED
    BY <2>1, <2>2
<1> HIDE DEF T
<1>3. w \in T
  BY <1>1, <1>2, SetInduction
<1> QED
  BY <1>3 DEF T

\* a bit that is added above the others
LEMMA BitAdded ==
  ASSUME NEW n \in Nat, NEW p \in Nat, n < 2 ^ p, NEW i \in Nat
  PROVE  /\ n + 2 ^ p \in Nat /\ n + 2 ^ p < 2 ^ (p + 1)
         /\ Bit(n + 2 ^ p, i) <=> i = p \/ Bit(n, i)
<1>1. PICK q \in Nat : q = 2 ^ p /\ q >= 1 /\ 2 ^ (p + 1) = 2 * q /\ n < q
  BY PowerOf, PowerDoubles
<1>2. PICK m \in Nat : m = n + 2 ^ p /\ m = n + q /\ m < 2 * q /\ q <= m
  BY <1>1
<1>3. CASE i < p
  <2>1. PICK z \in Nat : z = 2 ^ i /\ z >= 1 /\ 2 ^ (i + 1) = 2 * z
    BY PowerOf, PowerDoubles
  <2>2. PICK d \in Nat : q = (2 * z) * d
    <3>1. i + 1 \in Nat /\ i + 1 <= p
      BY <1>3
    <3> QED
      BY <1>1, <2>1, <3>1, PowerMultiple
  <2>3. PICK a \in Nat, b \in 0 .. z - 1 : n = z * a + b /\ n \div z = a
    BY <2>1, Division
  <2>4. m = z * (a + 2 * d) + b
    <3>1. (2 * z) * d = z * (2 * d)
      OBVIOUS
    <3>2. z * (a + 2 * d) = z * a + z * (2 * d)
      OBVIOUS
    <3> QED
      BY <1>2, <2>2, <2>3, <3>1, <3>2
  <2>5. m \div z = a + 2 * d
    <3>1. a + 2 * d \in Nat /\ b \in Nat /\ b < z
      BY <2>1
    <3> QED
      BY <2>4, <3>1, DivisionIs
  <2>6. (a + 2 * d) % 2 = a % 2
    OBVIOUS
  <2> QED
    BY <1>1, <1>2, <1>3, <2>1, <2>3, <2>5, <2>6 DEF Bit
<1>4. CASE i = p
  BY <1>1, <1>2, <1>4, TopIs DEF Bit
<1>5. CASE i > p
  <2>1. ~ Bit(m, i)
    BY <1>1, <1>2, <1>5, TopIs
  <2>2. PICK z \in Nat : z = 2 ^ i /\ n < z
    BY <1>1, <1>5, PowerOf, PowerBelow
  <2>3. n \div z = 0
    BY <2>2, DivisionIs, n = z * 0 + n
  <2>4. ~ Bit(n, i)
    BY <2>2, <2>3 DEF Bit
  <2> QED
    BY <1>1, <1>2, <1>5, <2>1, <2>4
<1> QED
  BY <1>1, <1>2, <1>3, <1>4, <1>5

\* every set of positions is that of a number
LEMMA NumberExists ==
  ASSUME NEW w \in Nat, NEW B, B \subseteq 0 .. w - 1
  PROVE  \E n \in Nat : n < 2 ^ w /\ \A i \in Nat : Bit(n, i) <=> i \in B
<1> DEFINE Has(n, p) == n < 2 ^ p /\ \A i \in Nat : Bit(n, i) <=> i \in B /\ i < p
           T == {p \in Nat : \E n \in Nat : Has(n, p)}
<1>1. 0 \in T
  <2>1. \A i \in Nat : ~ Bit(0, i)
    <3> TAKE i \in Nat
    <3>1. PICK z \in Nat : z = 2 ^ i /\ z >= 1
      BY PowerOf
    <3>2. 0 \div z = 0
      BY <3>1, DivisionIs, 0 = z * 0 + 0
    <3> QED
      BY <3>1, <3>2 DEF Bit
  <2>2. Has(0, 0)
    BY <2>1, 2 ^ 0 = 1
  <2> QED
    BY <2>2
<1>2. ASSUME NEW p \in Nat, p \in T PROVE p + 1 \in T
  <2>1. PICK n \in Nat : Has(n, p)
    BY <1>2
  <2>2. CASE p \in B
    <3>1. /\ n + 2 ^ p \in Nat /\ n + 2 ^ p < 2 ^ (p + 1)
          /\ \A i \in Nat : Bit(n + 2 ^ p, i) <=> i = p \/ Bit(n, i)
      BY <2>1, BitAdded
    <3>2. \A i \in Nat : Bit(n + 2 ^ p, i) <=> i \in B /\ i < p + 1
      <4>1. \A i \in Nat : i < p + 1 <=> i < p \/ i = p
        OBVIOUS
      <4> QED
        BY <2>1, <2>2, <3>1, <4>1
    <3> QED
      BY <3>1, <3>2
  <2>3. CASE p \notin B
    <3>1. n < 2 ^ (p + 1)
      BY <2>1, PowerOf, PowerDoubles
    <3>2. \A i \in Nat : Bit(n, i) <=> i \in B /\ i < p + 1
      <4>1. \A i \in Nat : i < p + 1 <=> i < p \/ i = p
        OBVIOUS
      <4> QED
        BY <2>1, <2>3, <4>1
    <3> QED
      BY <3>1, <3>2
  <2> QED
    BY <2>2, <2>3
<1> HIDE DEF T
<1>3. w \in T
  BY <1>1, <1>2, SetInduction
<1>4. PICK n \in Nat : Has(n, w)
  BY <1>3 DEF T
<1>5. \A i \in B : i < w
  OBVIOUS
<1> QED
  BY <1>4, <1>5

\* a number all of whose bits are set up to the highest
LEMMA AllOnes ==
  ASSUME NEW n \in Nat, NEW t \in Nat, n < 2 ^ t, \A i \in 0 .. t - 1 : Bit(n, i)
  PROVE  n = 2 ^ t - 1
<1> DEFINE T == {j \in Nat : j <= t => n % 2 ^ j = 2 ^ j - 1}
<1>1. 0 \in T
  <2>1. 2 ^ 0 = 1 /\ n % 1 = 0
    OBVIOUS
  <2> QED
    BY <2>1
<1>2. ASSUME NEW j \in Nat, j \in T PROVE j + 1 \in T
  <2> SUFFICES ASSUME j + 1 <= t PROVE n % 2 ^ (j + 1) = 2 ^ (j + 1) - 1
    OBVIOUS
  <2>1. PICK q \in Nat : q = 2 ^ j /\ q >= 1 /\ 2 ^ (j + 1) = 2 * q
    BY PowerOf, PowerDoubles
  <2>2. PICK a \in Nat, b \in 0 .. q - 1 : n = q * a + b /\ n \div q = a /\ n % q = b
    BY <2>1, Division
  <2>3. b = q - 1
    BY <1>2, <2>1, <2>2
  <2>4. a % 2 = 1
    <3>1. Bit(n, j)
      OBVIOUS
    <3> QED
      BY <2>1, <2>2, <3>1 DEF Bit
  <2>5. PICK c \in Nat : a = 2 * c + 1
    BY <2>4
  <2>6. n = (2 * q) * c + (2 * q - 1)
    <3>1. q * (2 * c + 1) = (2 * q) * c + q
      OBVIOUS
    <3> QED
      BY <2>2, <2>3, <2>5, <3>1
  <2>7. n % (2 * q) = 2 * q - 1
    <3>1. 2 * q \in Nat /\ 2 * q - 1 \in Nat /\ 2 * q - 1 < 2 * q
      BY <2>1
    <3> QED
      BY <2>6, <3>1, DivisionIs
  <2> QED
    BY <2>1, <2>7
<1> HIDE DEF T
<1>3. t \in T
  BY <1>1, <1>2, SetInduction
<1>4. PICK q \in Nat : q = 2 ^ t /\ n < q
  BY PowerOf
<1>5. n % q = n
  BY <1>4, DivisionIs, n = q * 0 + n
<1> QED
  BY <1>3, <1>4, <1>5 DEF T

-----------------------------------------------------------------------------
(* Words and their bits *)

LEMMA BitsOf ==
  ASSUME NEW n
  PROVE  Bits(n) \subseteq 0 .. Width - 1 /\ \A i \in 0 .. Width - 1 : i \in Bits(n) <=> Bit(n, i)
BY DEF Bits, Bit

LEMMA WordsAre ==
  /\ Words \subseteq Nat
  /\ \A n \in Nat : n \in Words <=> n < 2 ^ Width
  /\ Width \in Nat /\ Width >= 1
<1>1. Width \in Nat /\ Width >= 1
  BY WidthAssumption
<1>2. PICK q \in Nat : q = 2 ^ Width
  BY <1>1, PowerOf
<1> QED
  BY <1>1, <1>2 DEF Words

LEMMA WordOf ==
  ASSUME NEW B, B \subseteq 0 .. Width - 1
  PROVE  Word(B) \in Words /\ Bits(Word(B)) = B
<1>1. PICK n \in Nat : n < 2 ^ Width /\ \A i \in Nat : Bit(n, i) <=> i \in B
  BY WordsAre, NumberExists
<1>2. n \in Words
  BY <1>1, WordsAre
<1>3. Bits(n) = B
  <2>1. \A i : i \in 0 .. Width - 1 => i \in Nat
    OBVIOUS
  <2> QED
    BY <1>1, <2>1, BitsOf
<1> QED
  BY <1>2, <1>3 DEF Word

\* n |= n >> k
LEMMA SmearIs ==
  ASSUME NEW n, NEW k \in Nat
  PROVE  /\ Smear(n, k) \in Words
         /\ \A i : i \in Bits(Smear(n, k)) <=> i \in Bits(n) \/ (i \in Nat /\ i + k \in Bits(n))
<1> DEFINE B == Bits(n) \cup {i - k : i \in {j \in Bits(n) : j >= k}}
<1>1. B \subseteq 0 .. Width - 1
  BY BitsOf, WordsAre
<1>2. Word(B) \in Words /\ Bits(Word(B)) = B
  BY <1>1, WordOf
<1>3. Smear(n, k) = Word(B)
  BY DEF Smear
<1>4. \A i : i \in B <=> i \in Bits(n) \/ (i \in Nat /\ i + k \in Bits(n))
  <2> TAKE i
  <2>1. ASSUME NEW j \in Bits(n), j >= k, i = j - k PROVE i \in Nat /\ i + k \in Bits(n)
    <3>1. j \in 0 .. Width - 1
      BY BitsOf
    <3>2. i \in Nat /\ i + k = j
      BY <2>1, <3>1
    <3> QED
      BY <3>2
  <2>2. ASSUME i \in Nat, i + k \in Bits(n) PROVE i \in B
    <3>1. i + k >= k /\ i = (i + k) - k
      BY <2>2
    <3> QED
      BY <2>2, <3>1
  <2> QED
    BY <2>1, <2>2
<1> QED
  BY <1>2, <1>3, <1>4

-----------------------------------------------------------------------------
(* The shifts *)

LEMMA RoundsAre == Rounds \in Nat /\ Rounds >= 1 /\ 2 ^ Rounds = Width
<1>1. \E r \in 1 .. Width : Width = 2 ^ r
  BY WidthAssumption
<1>2. Rounds \in 1 .. Width /\ Width = 2 ^ Rounds
  BY <1>1 DEF Rounds
<1> QED
  BY <1>2, WordsAre

IsSmeared(f, n, m) ==
  f = [r \in 0 .. m |-> IF r = 0 THEN n ELSE Smear(f[r - 1], 2 ^ (r - 1))]

LEMMA SmearedExists ==
  ASSUME NEW n, NEW m \in Nat
  PROVE  \E f : IsSmeared(f, n, m)
<1> DEFINE T == {l \in Nat : \E f : IsSmeared(f, n, l)}
<1>1. 0 \in T
  <2> DEFINE f == [r \in 0 .. 0 |-> n]
  <2>1. IsSmeared(f, n, 0)
    BY DEF IsSmeared
  <2> HIDE DEF f
  <2> QED
    BY <2>1
<1>2. ASSUME NEW l \in Nat, l \in T PROVE l + 1 \in T
  <2>1. PICK f : IsSmeared(f, n, l)
    BY <1>2
  <2> DEFINE last == Smear(f[l], 2 ^ l)
             g == [r \in 0 .. l + 1 |-> IF r = l + 1 THEN last ELSE f[r]]
  <2>2. \A r \in 0 .. l : g[r] = f[r]
    OBVIOUS
  <2>3. g[l + 1] = last
    OBVIOUS
  <2>4. g = [r \in 0 .. l + 1 |-> g[r]]
    OBVIOUS
  <2>5. ASSUME NEW r \in 0 .. l + 1
        PROVE  g[r] = IF r = 0 THEN n ELSE Smear(g[r - 1], 2 ^ (r - 1))
    <3> HIDE DEF g
    <3>1. CASE r = l + 1
      <4>1. r # 0 /\ r - 1 = l /\ g[l] = f[l]
        BY <2>2, <3>1
      <4> QED
        BY <2>3, <3>1, <4>1
    <3>2. CASE r # l + 1
      <4>1. r \in 0 .. l /\ g[r] = f[r] /\ (r # 0 => r - 1 \in 0 .. l)
        BY <2>2, <3>2
      <4>2. r # 0 => g[r - 1] = f[r - 1]
        BY <2>2, <4>1
      <4>3. f[r] = IF r = 0 THEN n ELSE Smear(f[r - 1], 2 ^ (r - 1))
        BY <2>1, <4>1 DEF IsSmeared
      <4> QED
        BY <4>1, <4>2, <4>3
    <3> QED
      BY <3>1, <3>2
  <2> HIDE DEF g
  <2>6. IsSmeared(g, n, l + 1)
    BY <2>4, <2>5 DEF IsSmeared
  <2> QED
    BY <2>6
<1> HIDE DEF T
<1>3. m \in T
  BY <1>1, <1>2, SetInduction
<1> QED
  BY <1>3 DEF T

LEMMA SmearedIs ==
  ASSUME NEW n
  PROVE  \E f : IsSmeared(f, n, Rounds) /\ Smeared(n) = f[Rounds]
<1> DEFINE f == CHOOSE f : IsSmeared(f, n, Rounds)
<1>1. IsSmeared(f, n, Rounds)
  BY SmearedExists, RoundsAre
<1>2. Smeared(n) = f[Rounds]
  BY DEF Smeared, IsSmeared
<1> HIDE DEF f
<1> QED
  BY <1>1, <1>2

\* below its highest bit every bit is set, 1, 2, 4, ... of them after each shift
LEMMA SmearedToTop ==
  ASSUME NEW n \in Words, NEW t \in Nat, 2 ^ t <= n, n < 2 ^ (t + 1)
  PROVE  Smeared(n) = 2 ^ (t + 1) - 1
<1>1. t < Width
  <2>1. CASE t >= Width
    BY <2>1, WordsAre, PowersGrow
  <2> QED
    BY <2>1, WordsAre
<1>2. n \in Nat /\ t \in Bits(n) /\ \A i \in Bits(n) : i \in 0 .. t
  <2>1. n \in Nat
    BY WordsAre
  <2>2. Bit(n, t) /\ \A i \in Nat : i > t => ~ Bit(n, i)
    BY <2>1, TopIs
  <2> QED
    BY <1>1, <2>1, <2>2, BitsOf, WordsAre
<1>3. PICK f : IsSmeared(f, n, Rounds) /\ Smeared(n) = f[Rounds]
  BY SmearedIs
<1> DEFINE Reaches(r) == /\ f[r] \in Words
                         /\ \A i \in Bits(f[r]) : i \in 0 .. t
                         /\ \A i \in 0 .. t : t - i < 2 ^ r => i \in Bits(f[r])
           T == {r \in Nat : r <= Rounds => Reaches(r)}
<1>4. 0 \in T
  <2>1. f[0] = n
    BY <1>3, RoundsAre DEF IsSmeared
  <2>2. \A i \in 0 .. t : t - i < 2 ^ 0 => i = t
    BY 2 ^ 0 = 1
  <2> QED
    BY <1>2, <2>1, <2>2
<1>5. ASSUME NEW r \in Nat, r \in T PROVE r + 1 \in T
  <2> SUFFICES ASSUME r + 1 <= Rounds PROVE Reaches(r + 1)
    OBVIOUS
  <2>1. Reaches(r)
    BY <1>5, RoundsAre
  <2>2. f[r + 1] = Smear(f[r], 2 ^ r)
    <3>1. r + 1 \in 0 .. Rounds /\ r + 1 # 0 /\ (r + 1) - 1 = r
      BY RoundsAre
    <3>2. f[r + 1] = IF r + 1 = 0 THEN n ELSE Smear(f[(r + 1) - 1], 2 ^ ((r + 1) - 1))
      BY ONLY <1>3, <3>1 DEF IsSmeared
    <3> QED
      BY <3>1, <3>2
  <2>3. PICK q \in Nat : q = 2 ^ r /\ 2 ^ (r + 1) = 2 * q
    BY PowerOf, PowerDoubles
  <2>4. /\ f[r + 1] \in Words
        /\ \A i : i \in Bits(f[r + 1])
                   <=> i \in Bits(f[r]) \/ (i \in Nat /\ i + q \in Bits(f[r]))
    BY <2>2, <2>3, SmearIs
  <2>5. \A i \in Bits(f[r + 1]) : i \in 0 .. t
    <3>1. \A i \in Nat : i + q \in 0 .. t => i \in 0 .. t
      OBVIOUS
    <3> QED
      BY <2>1, <2>4, <3>1
  <2>6. ASSUME NEW i \in 0 .. t, t - i < 2 ^ (r + 1) PROVE i \in Bits(f[r + 1])
    <3>1. CASE t - i < q
      BY <2>1, <2>3, <2>4, <3>1
    <3>2. CASE ~ (t - i < q)
      <4>1. i + q \in 0 .. t /\ t - (i + q) < q
        BY <2>3, <2>6, <3>2
      <4> QED
        BY <2>1, <2>3, <2>4, <4>1
    <3> QED
      BY <3>1, <3>2
  <2> QED
    BY <2>4, <2>5, <2>6
<1>6. Rounds \in T
  <2> HIDE DEF T
  <2> QED
    BY <1>4, <1>5, SetInduction, RoundsAre
<1>7. PICK m : m = Smeared(n)
  OBVIOUS
<1>8. m \in Words /\ (\A i \in Bits(m) : i \in 0 .. t) /\ \A i \in 0 .. t : i \in Bits(m)
  <2>1. Reaches(Rounds)
    BY <1>6, RoundsAre
  <2>2. \A i \in 0 .. t : t - i < Width
    BY <1>1, WordsAre
  <2> QED
    BY <1>3, <1>7, <2>1, <2>2, RoundsAre
<1>9. m \in Nat /\ m < 2 ^ (t + 1)
  <2>1. m \in Nat /\ m < 2 ^ Width
    BY <1>8, WordsAre
  <2>2. CASE m = 0
    BY <2>2, PowerOf
  <2>3. CASE m # 0
    <3>1. PICK u \in 0 .. Width - 1 : 2 ^ u <= m /\ m < 2 ^ (u + 1)
      BY <2>1, <2>3, TopExists, WordsAre
    <3>2. u \in Bits(m)
      BY <2>1, <3>1, TopIs, BitsOf
    <3>3. u \in Nat /\ u + 1 <= t + 1
      BY <1>8, <3>2
    <3>4. PICK a \in Nat, b \in Nat : a = 2 ^ (u + 1) /\ b = 2 ^ (t + 1) /\ a <= b
      BY <3>3, PowersGrow
    <3> QED
      BY <2>1, <3>1, <3>4
  <2> QED
    BY <2>1, <2>2, <2>3
<1>10. \A i \in 0 .. (t + 1) - 1 : Bit(m, i)
  <2>1. 0 .. (t + 1) - 1 = 0 .. t
    OBVIOUS
  <2> QED
    BY <1>8, <2>1, BitsOf
<1> QED
  BY <1>7, <1>9, <1>10, AllOnes

-----------------------------------------------------------------------------
(* Powers of two *)

\* a power of two that a word holds, 0 for one that it does not
Fitting(u) == IF u < Width THEN 2 ^ u ELSE 0

LEMMA WrapIs ==
  ASSUME NEW u \in 0 .. Width
  PROVE  Wrap(2 ^ u) = Fitting(u)
<1>1. PICK w \in Nat : w = 2 ^ Width /\ w >= 1
  BY PowerOf, WordsAre
<1>2. CASE u < Width
  <2>1. PICK q \in Nat : q = 2 ^ u /\ q < w
    BY <1>1, <1>2, PowerOf, PowerBelow, WordsAre
  <2>2. q % w = q
    BY <1>1, <2>1, DivisionIs, q = w * 0 + q
  <2> QED
    BY <1>1, <1>2, <2>1, <2>2 DEF Wrap, Fitting
<1>3. CASE u = Width
  <2>1. w % w = 0
    BY <1>1, DivisionIs, w = w * 1 + 0
  <2> QED
    BY <1>1, <1>3, <2>1, WordsAre DEF Wrap, Fitting
<1> QED
  BY <1>2, <1>3, WordsAre

LEMMA IsPow2Is ==
  ASSUME NEW n \in Words, NEW t \in Nat, 2 ^ t <= n, n < 2 ^ (t + 1)
  PROVE  /\ t \in 0 .. Width - 1
         /\ IsPow2(n) <=> n = 2 ^ t
<1>1. PICK q \in Nat : q = 2 ^ t /\ q >= 1 /\ 2 ^ (t + 1) = 2 * q
  BY PowerOf, PowerDoubles
<1>2. n \in Nat /\ n # 0 /\ n - 1 \in Nat
  BY <1>1, WordsAre
<1>3. t \in 0 .. Width - 1
  <2>1. CASE t >= Width
    BY <2>1, WordsAre, PowersGrow
  <2> QED
    BY <2>1, WordsAre
<1>4. Bit(n, t) /\ \A i \in Nat : i > t => ~ Bit(n, i)
  BY <1>2, TopIs
<1>5. ASSUME n = q PROVE Bits(n) \cap Bits(n - 1) = {}
  <2>1. (n - 1) \div q = 0
    BY <1>1, <1>2, <1>5, DivisionIs, n - 1 = q * 0 + (n - 1)
  <2>2. ~ Bit(n - 1, t)
    BY <1>1, <2>1 DEF Bit
  <2>3. ASSUME NEW i \in 0 .. Width - 1, i < t PROVE ~ Bit(n, i)
    <3>1. PICK z \in Nat : z = 2 ^ i /\ z >= 1 /\ 2 ^ (i + 1) = 2 * z
      BY PowerOf, PowerDoubles
    <3>2. PICK d \in Nat : q = (2 * z) * d
      <4>1. i + 1 \in Nat /\ i + 1 <= t
        BY <2>3
      <4> QED
        BY <1>1, <3>1, <4>1, PowerMultiple
    <3>3. q = z * (2 * d) + 0
      <4>1. (2 * z) * d = z * (2 * d)
        OBVIOUS
      <4> QED
        BY <3>2, <4>1
    <3>4. q \div z = 2 * d
      BY <3>1, <3>3, DivisionIs, 2 * d \in Nat
    <3>5. (2 * d) % 2 = 0
      OBVIOUS
    <3> QED
      BY <1>5, <3>1, <3>4, <3>5 DEF Bit
  <2>4. ASSUME NEW i, i \in Bits(n), i \in Bits(n - 1) PROVE FALSE
    <3>1. i \in 0 .. Width - 1 /\ Bit(n, i) /\ Bit(n - 1, i)
      BY <2>4, BitsOf
    <3>2. i < t \/ i = t \/ i > t
      BY <3>1
    <3> QED
      BY <1>4, <2>2, <2>3, <3>1, <3>2
  <2> QED
    BY <2>4
<1>6. ASSUME n # q PROVE t \in Bits(n) \cap Bits(n - 1)
  <2>1. Bit(n - 1, t)
    <3>1. q <= n - 1 /\ n - 1 < 2 * q
      BY <1>1, <1>2, <1>6
    <3> QED
      BY <1>1, <1>2, <3>1, TopIs
  <2> QED
    BY <1>3, <1>4, <2>1, BitsOf
<1> QED
  BY <1>1, <1>2, <1>3, <1>5, <1>6 DEF IsPow2

\* n-- and n++ around the shifts
LEMMA NextPow2Is ==
  ASSUME NEW n \in Words, NEW t \in Nat, 2 ^ t < n, n < 2 ^ (t + 1)
  PROVE  NextPow2(n) = Fitting(t + 1)
<1>1. PICK q \in Nat : q = 2 ^ t /\ q >= 1 /\ 2 ^ (t + 1) = 2 * q
  BY PowerOf, PowerDoubles
<1>2. PICK w \in Nat : w = 2 ^ Width /\ w >= 1
  BY PowerOf, WordsAre
<1>3. n \in Nat /\ n - 1 \in Nat /\ n < w /\ n # 0
  BY <1>1, <1>2, WordsAre
<1>4. Wrap(n + 2 ^ Width - 1) = n - 1
  <2>1. n + w - 1 = w * 1 + (n - 1) /\ n + w - 1 \in Nat /\ n - 1 < w
    BY <1>2, <1>3
  <2>2. (n + w - 1) % w = n - 1
    BY <1>2, <1>3, <2>1, DivisionIs
  <2> QED
    BY <1>2, <2>2 DEF Wrap
<1>5. n - 1 \in Words /\ 2 ^ t <= n - 1 /\ n - 1 < 2 ^ (t + 1)
  BY <1>1, <1>2, <1>3, WordsAre
<1>6. Smeared(n - 1) = 2 ^ (t + 1) - 1
  BY <1>5, SmearedToTop
<1>7. t + 1 \in 0 .. Width
  BY <1>5, IsPow2Is, WordsAre
<1>8. Smeared(n - 1) + 1 = 2 ^ (t + 1)
  BY <1>1, <1>6
<1> QED
  BY <1>4, <1>7, <1>8, WrapIs DEF NextPow2

LEMMA PowersOfZero == Pow2GreaterThan(0) = 0 /\ Pow2GreaterOrEqual(0) = 0
<1>1. PICK t \in Nat : t + 1 = Width
  <2>1. Width - 1 \in Nat /\ (Width - 1) + 1 = Width
    BY WordsAre
  <2> QED
    BY <2>1
<1>2. PICK q \in Nat : q = 2 ^ t /\ q >= 1 /\ 2 ^ Width = 2 * q
  BY <1>1, PowerOf, PowerDoubles
<1>3. Wrap(0 + 2 ^ Width - 1) = 2 * q - 1
  <2>1. (2 * q - 1) % (2 * q) = 2 * q - 1
    <3>1. 2 * q \in Nat /\ 2 * q - 1 \in Nat /\ 2 * q - 1 < 2 * q /\ 2 * q > 0
          /\ 2 * q - 1 = (2 * q) * 0 + (2 * q - 1)
      BY <1>2
    <3> QED
      BY <3>1, DivisionIs
  <2>2. 0 + 2 * q - 1 = 2 * q - 1
    OBVIOUS
  <2> QED
    BY <1>2, <2>1, <2>2 DEF Wrap
<1>4. 2 * q - 1 \in Words /\ 2 ^ t <= 2 * q - 1 /\ 2 * q - 1 < 2 ^ (t + 1)
  BY <1>1, <1>2, WordsAre
<1>5. Smeared(2 * q - 1) + 1 = 2 ^ Width
  <2>1. Smeared(2 * q - 1) = 2 ^ (t + 1) - 1
    BY <1>4, SmearedToTop
  <2> QED
    BY <1>1, <1>2, <2>1
<1>6. Wrap(2 ^ Width) = 0
  BY WrapIs, WordsAre DEF Fitting
<1>7. NextPow2(0) = 0
  BY <1>3, <1>5, <1>6 DEF NextPow2
<1> QED
  BY <1>7 DEF Pow2GreaterThan, Pow2GreaterOrEqual, IsPow2

LEMMA LeastOf ==
  ASSUME NEW p, p \subseteq Nat, NEW m \in p, \A x \in p : m <= x
  PROVE  Min(p) = m
<1>1. \A x, y \in Nat : x <= y /\ y <= x => x = y
  OBVIOUS
<1> QED
  BY <1>1 DEF Min

\* the powers of two that a word holds, in their order
LEMMA PowersAre ==
  /\ Powers \subseteq Nat
  /\ \A u \in Nat : u < Width => 2 ^ u \in Powers
  /\ \A p \in Powers : \E u \in 0 .. Width - 1 : p = 2 ^ u
<1>1. \A i \in 0 .. Width - 1 : 2 ^ i \in Nat
  BY PowerOf
<1>2. \A u \in Nat : u < Width => u \in 0 .. Width - 1
  BY WordsAre
<1> QED
  BY <1>1, <1>2 DEF Powers

LEMMA LeastAbove ==
  ASSUME NEW n \in Nat, NEW t \in Nat, 2 ^ t <= n, n < 2 ^ (t + 1)
  PROVE  LeastPower(n, LAMBDA q : q > n) = Fitting(t + 1)
<1>1. PICK p : p = {q \in Powers : q > n}
  OBVIOUS
<1>2. LeastPower(n, LAMBDA q : q > n) = IF p = {} THEN 0 ELSE Min(p)
  BY <1>1 DEF LeastPower
<1>3. ASSUME NEW x \in p PROVE 2 ^ (t + 1) <= x /\ t + 1 < Width
  <2>1. PICK u \in 0 .. Width - 1 : x = 2 ^ u
    BY <1>1, PowersAre
  <2>2. CASE u <= t
    BY <1>1, <2>1, <2>2, PowersGrow
  <2>3. CASE u > t
    BY <2>1, <2>3, PowerBelow, WordsAre
  <2> QED
    BY <2>2, <2>3
<1>4. CASE t + 1 < Width
  <2>1. 2 ^ (t + 1) \in p /\ p \subseteq Nat
    <3>1. PICK x \in Nat : x = 2 ^ (t + 1)
      BY PowerOf
    <3>2. x \in Powers /\ x > n
      BY <1>4, <3>1, PowersAre
    <3> QED
      BY <1>1, <3>1, <3>2, PowersAre
  <2>2. Min(p) = 2 ^ (t + 1)
    BY <1>3, <2>1, LeastOf
  <2> QED
    BY <1>2, <1>4, <2>1, <2>2 DEF Fitting
<1>5. CASE ~ (t + 1 < Width)
  BY <1>2, <1>3, <1>5 DEF Fitting
<1> QED
  BY <1>4, <1>5

LEMMA LeastNotBelow ==
  ASSUME NEW n \in Nat, NEW t \in 0 .. Width - 1, 2 ^ t <= n, n < 2 ^ (t + 1)
  PROVE  LeastPower(n, LAMBDA q : q >= n) = IF n = 2 ^ t THEN n ELSE Fitting(t + 1)
<1>1. PICK p : p = {q \in Powers : q >= n}
  OBVIOUS
<1>2. LeastPower(n, LAMBDA q : q >= n) = IF p = {} THEN 0 ELSE Min(p)
  BY <1>1 DEF LeastPower
<1>3. p \subseteq Nat
  BY <1>1, PowersAre
<1>4. CASE n = 2 ^ t
  <2>1. n \in p /\ \A x \in p : n <= x
    BY <1>1, <1>4, PowersAre, WordsAre
  <2> QED
    BY <1>2, <1>3, <1>4, <2>1, LeastOf
<1>5. CASE n # 2 ^ t
  <2>1. \A x \in Powers : x # n
    <3> SUFFICES ASSUME NEW u \in 0 .. Width - 1, 2 ^ u = n PROVE FALSE
      BY PowersAre
    <3>1. u \in Nat /\ t \in Nat /\ u # t
      BY <1>5
    <3>2. CASE u < t
      BY <3>1, <3>2, PowerBelow, PowerOf
    <3>3. CASE u > t
      BY <3>1, <3>3, PowerBelow, PowerOf
    <3> QED
      BY <3>1, <3>2, <3>3
  <2>2. p = {q \in Powers : q > n}
    <3>1. \A x \in Powers : x \in Nat /\ x # n
      BY <2>1, PowersAre
    <3>2. \A x \in Powers : x >= n <=> x > n
      BY <3>1
    <3> QED
      BY <1>1, <3>2
  <2>3. LeastPower(n, LAMBDA q : q > n) = IF p = {} THEN 0 ELSE Min(p)
    BY <2>2 DEF LeastPower
  <2>4. t \in Nat
    OBVIOUS
  <2>5. LeastPower(n, LAMBDA q : q > n) = Fitting(t + 1)
    BY <2>4, LeastAbove
  <2> QED
    BY <1>2, <1>5, <2>3, <2>5
<1> QED
  BY <1>4, <1>5

(* The functions of bit.c answer the least power of two above their argument, or not
   below it, for words of any width that is itself a power of two, and 0 where a word
   holds none. *)
THEOREM PowersLeast == PowersAreLeast
<1>1. ASSUME NEW n \in Words \ {0}
      PROVE  /\ Pow2GreaterThan(n)    = LeastPower(n, LAMBDA q : q > n)
             /\ Pow2GreaterOrEqual(n) = LeastPower(n, LAMBDA q : q >= n)
  <2>1. n \in Words /\ n \in Nat /\ n # 0 /\ n < 2 ^ Width
    BY WordsAre
  <2>2. PICK t \in 0 .. Width - 1 : 2 ^ t <= n /\ n < 2 ^ (t + 1)
    BY <2>1, TopExists, WordsAre
  <2>3. t \in Nat /\ t + 1 \in 0 .. Width
    BY WordsAre
  <2>4. IsPow2(n) <=> n = 2 ^ t
    BY <2>1, <2>2, <2>3, IsPow2Is
  <2>5. Pow2GreaterThan(n) = Fitting(t + 1)
    <3>1. CASE n = 2 ^ t
      <4>1. 2 * n = 2 ^ (t + 1)
        BY <2>3, <3>1, PowerDoubles
      <4> QED
        BY <2>3, <2>4, <3>1, <4>1, WrapIs DEF Pow2GreaterThan
    <3>2. CASE n # 2 ^ t
      <4>1. 2 ^ t < n
        BY <2>1, <2>2, <2>3, <3>2, PowerOf
      <4> QED
        BY <2>1, <2>2, <2>3, <2>4, <3>2, <4>1, NextPow2Is DEF Pow2GreaterThan
    <3> QED
      BY <3>1, <3>2
  <2>6. Pow2GreaterOrEqual(n) = IF n = 2 ^ t THEN n ELSE Fitting(t + 1)
    <3>1. CASE n = 2 ^ t
      BY <2>4, <3>1 DEF Pow2GreaterOrEqual
    <3>2. CASE n # 2 ^ t
      <4>1. 2 ^ t < n
        BY <2>1, <2>2, <2>3, <3>2, PowerOf
      <4> QED
        BY <2>1, <2>2, <2>3, <2>4, <3>2, <4>1, NextPow2Is DEF Pow2GreaterOrEqual
    <3> QED
      BY <3>1, <3>2
  <2> QED
    BY <2>1, <2>2, <2>3, <2>5, <2>6, LeastAbove, LeastNotBelow
<1> QED
  BY <1>1, PowersOfZero DEF PowersAreLeast

-----------------------------------------------------------------------------
(* Growth *)

LEMMA MinOfNaturals ==
  ASSUME NEW S, S \subseteq Nat, S # {}
  PROVE  Min(S) \in S /\ \A y \in S : Min(S) <= y
<1> DEFINE less == OpToRel(<, Nat)
<1>1. IsWellFoundedOn(less, Nat)
  BY NatLessThanWellFounded
<1>2. \A x, y \in Nat : x < y => <<x, y>> \in less
  BY DEF OpToRel
<1> HIDE DEF less
<1>3. PICK x \in S : \A y \in S : ~ (<<y, x>> \in less)
  BY <1>1, WFMin
<1>4. ASSUME NEW y \in S PROVE x <= y
  <2>1. x \in Nat /\ y \in Nat /\ ~ (<<y, x>> \in less)
    BY <1>3
  <2> QED
    BY <1>2, <2>1
<1> QED
  BY <1>4 DEF Min

\* the block grows to more than was asked for
LEMMA GrowsBeyond ==
  ASSUME NEW n \in 0 .. MaxLength
  PROVE  Pow2GreaterThan(n) \in Nat /\ (n # 0 => Pow2GreaterThan(n) > n)
<1>1. PICK top, words : top = 2 ^ (Width - 1) /\ words = 2 ^ Width
  OBVIOUS
<1>2. Width \in Nat /\ Width - 1 \in Nat
  BY WidthAssumption
<1>3. top \in Nat /\ words \in Nat /\ top <= words
  BY <1>1, <1>2, PowersGrow
<1>4. CASE n = 0
  BY <1>4, PowersLeast DEF PowersAreLeast
<1>5. CASE n # 0
  <2>1. n \in Words \ {0} /\ n < top
    BY <1>1, <1>3, <1>5, StringAssumption DEF Words
  <2>2. PICK p : p = {q \in Powers : q > n}
    OBVIOUS
  <2>3. Pow2GreaterThan(n) = IF p = {} THEN 0 ELSE Min(p)
    BY <2>1, <2>2, PowersLeast DEF PowersAreLeast, LeastPower
  <2>4. top \in p
    BY <1>1, <1>2, <1>3, <2>1, <2>2 DEF Powers
  <2>5. p \subseteq Nat
    <3>1. \A i \in 0 .. Width - 1 : 2 ^ i \in Nat
      BY <1>2, PowersGrow
    <3> QED
      BY <2>2, <3>1 DEF Powers
  <2>6. Min(p) \in p
    BY <2>4, <2>5, MinOfNaturals
  <2> QED
    BY <2>2, <2>3, <2>4, <2>5, <2>6
<1> QED
  BY <1>4, <1>5

-----------------------------------------------------------------------------
(* The String *)

Bytes == Chars \cup {Null, Junk}

\* The block has as many bytes as the String takes it for, one of them behind the text,
\* and the text is what its callers have given it.
StrShape ==
  /\ data \in Seq(Bytes) /\ Len(data) = capacity
  /\ length \in 0 .. MaxLength
  /\ length < capacity \/ length = 0
  /\ \A i \in 1 .. length : data[i] \in Chars

\* A behaviour with another buffer leaves the String alone.
StrAlone == under # "String" => asked = <<"init", 0>>

StrInv == StrShape /\ StrAlone

LEMMA ResizedKeeps ==
  ASSUME StrShape, NEW n \in Nat
  PROVE  /\ Resized(n) \in Seq(Bytes) /\ Len(Resized(n)) = n
         /\ \A i \in 1 .. n : i <= capacity => Resized(n)[i] = data[i]
<1>1. PICK r : r = Resized(n)
  OBVIOUS
<1>2. r = [i \in 1 .. n |-> IF i <= Len(data) THEN data[i] ELSE Junk]
  BY <1>1 DEF Resized
<1>3. \A i \in 1 .. n : r[i] \in Bytes /\ (i <= capacity => r[i] = data[i])
  BY <1>2 DEF StrShape, Bytes
<1>4. r \in Seq(Bytes) /\ Len(r) = n
  BY <1>2, <1>3
<1> QED
  BY <1>1, <1>3, <1>4

\* str_reserve has room for the bytes and one more, and keeps the text
LEMMA BlockFits ==
  ASSUME StrShape, NEW n \in 0 .. MaxLength
  PROVE  /\ Block(n).bytes \in Seq(Bytes) /\ Len(Block(n).bytes) = Block(n).cap
         /\ n < Block(n).cap \/ n = 0
         /\ Block(n).cap >= capacity
         /\ \A i \in 1 .. capacity : Block(n).bytes[i] = data[i]
<1>1. PICK p : p = Pow2GreaterThan(n)
  OBVIOUS
<1>2. n \in Nat /\ p \in Nat /\ (n # 0 => p > n) /\ capacity \in Nat
  BY <1>1, GrowsBeyond, StringAssumption DEF StrShape
<1>3. CASE Needs(n)
  <2>1. Block(n).bytes = Resized(p) /\ Block(n).cap = p
    BY <1>1, <1>3 DEF Block
  <2>2. n >= capacity
    BY <1>3 DEF Needs
  <2>3. /\ Resized(p) \in Seq(Bytes) /\ Len(Resized(p)) = p
        /\ \A i \in 1 .. p : i <= capacity => Resized(p)[i] = data[i]
    BY <1>2, ResizedKeeps
  <2>4. p >= capacity
    BY <1>2, <2>2
  <2> QED
    BY <1>2, <2>1, <2>3, <2>4
<1>4. CASE ~ Needs(n)
  <2>1. Block(n).bytes = data /\ Block(n).cap = capacity
    BY <1>4 DEF Block
  <2>2. n < capacity
    BY <1>2, <1>4 DEF Needs
  <2> QED
    BY <1>2, <2>1, <2>2 DEF StrShape
<1> QED
  BY <1>3, <1>4

\* r is the bytes d with s copied behind the first n of them, and a null at the end e
IsCopy(r, d, n, s, e) ==
  /\ r \in Seq(Bytes) /\ Len(r) = Len(d)
  /\ \A i \in 1 .. n : r[i] = d[i]
  /\ \A i \in 1 .. Len(s) : n + i <= e => r[n + i] = s[i]
  /\ r[e + 1] = Null

\* memcpy and the null behind it
LEMMA CopiedAndEnded ==
  ASSUME NEW d \in Seq(Bytes), NEW n \in Nat, NEW s \in Seq(Chars), NEW e \in Nat,
         n + Len(s) < Len(d), n <= e, e <= n + Len(s)
  PROVE  IsCopy(Ended(Copied(d, n, s), e), d, n, s, e)
<1>0. PICK r : r = Ended(Copied(d, n, s), e)
  OBVIOUS
<1>1. PICK c, l, k : c = Copied(d, n, s) /\ l = Len(d) /\ k = Len(s)
  OBVIOUS
<1>2. l \in Nat /\ k \in Nat /\ DOMAIN d = 1 .. l /\ DOMAIN s = 1 .. k
  BY <1>1
<1>3. c = [i \in 1 .. l |-> IF i - n \in 1 .. k THEN s[i - n] ELSE d[i]]
  BY <1>1, <1>2 DEF Copied
<1>4. \A i \in 1 .. l : c[i] \in Bytes
  BY <1>1, <1>2, <1>3 DEF Bytes
<1>5. /\ \A i \in 1 .. n : c[i] = d[i]
      /\ \A i \in 1 .. k : c[n + i] = s[i]
  BY <1>1, <1>2, <1>3
<1>6. DOMAIN c = 1 .. l /\ DOMAIN <<Null>> = {1} /\ <<Null>>[1] = Null
  BY <1>3
<1>7. r = [i \in 1 .. l |-> IF i - e \in {1} THEN <<Null>>[i - e] ELSE c[i]]
  BY <1>0, <1>1, <1>6 DEF Ended, Copied
<1>8. \A i \in 1 .. l : r[i] = IF i = e + 1 THEN Null ELSE c[i]
  BY <1>2, <1>7
<1>9. r \in Seq(Bytes) /\ Len(r) = l
  <2>1. \A i \in 1 .. l : r[i] \in Bytes
    BY <1>4, <1>8 DEF Bytes
  <2>2. r = [i \in 1 .. l |-> r[i]]
    BY <1>7
  <2> QED
    BY <1>2, <2>1, <2>2
<1>10. \A i \in 1 .. n : r[i] = d[i]
  BY <1>1, <1>2, <1>5, <1>8
<1>11. \A i \in 1 .. k : n + i <= e => r[n + i] = s[i]
  BY <1>1, <1>2, <1>5, <1>8
<1>12. r[e + 1] = Null
  BY <1>1, <1>2, <1>8
<1> QED
  BY <1>0, <1>1, <1>9, <1>10, <1>11, <1>12 DEF IsCopy

\* the text as C reads it
LEMMA CStringEnds ==
  ASSUME NEW d \in Seq(Bytes), NEW n \in Nat, n < Len(d), d[n + 1] = Null,
         \A i \in 1 .. n : d[i] \in Chars
  PROVE  CString(d) = SubSeq(d, 1, n)
<1>1. PICK ends : ends = {i \in DOMAIN d : d[i] = Null}
  OBVIOUS
<1>2. DOMAIN d = 1 .. Len(d) /\ Len(d) \in Nat
  OBVIOUS
<1>3. ends \subseteq Nat /\ n + 1 \in ends /\ \A i \in ends : n + 1 <= i
  BY <1>1, <1>2, StringAssumption
<1>4. Min(ends) = n + 1
  <2>1. PICK m : m = Min(ends)
    OBVIOUS
  <2>2. m \in ends /\ m <= n + 1
    BY <1>3, <2>1, MinOfNaturals
  <2> QED
    BY <1>3, <2>1, <2>2
<1>5. CString(d) = SubSeq(d, 1, Min(ends) - 1)
  BY <1>1, <1>3 DEF CString
<1> QED
  BY <1>4, <1>5

LEMMA TextTyped ==
  ASSUME StrShape
  PROVE  /\ Text \in Seq(Chars) /\ Len(Text) = length
         /\ \A i \in 1 .. length : Text[i] = data[i]
<1>1. length \in Nat /\ length <= Len(data) /\ data \in Seq(Bytes)
  BY StringAssumption DEF StrShape
<1>2. length \in Int /\ \A i \in 1 .. length : data[i] \in Chars
  BY <1>1 DEF StrShape
<1>3. PICK t : t = SubSeq(data, 1, length)
  OBVIOUS
<1>4. Len(t) = length /\ \A i \in 1 .. length : t[i] = data[i]
  BY <1>1, <1>3
<1>5. t \in Seq(Chars)
  BY <1>2, <1>3, SubSeqProperties
<1> QED
  BY <1>3, <1>4, <1>5 DEF Text

LEMMA InputsAreTexts ==
  ASSUME NEW s \in Inputs
  PROVE  s \in Seq(Chars) /\ Len(s) \in 1 .. MaxInput
<1>1. PICK n \in 1 .. MaxInput : s \in [1 .. n -> Chars]
  BY DEF Inputs
<1>2. n \in Nat /\ n >= 1
  BY StringAssumption
<1> QED
  BY <1>1, <1>2

\* the start of an append
LEMMA StartTyped ==
  ASSUME StrShape, NEW op \in Writers
  PROVE  /\ Start(op) \in 0 .. length /\ Start(op) \in 0 .. MaxLength
         /\ op \in {"extend", "replace"}
         /\ Start(op) = IF op = "replace" THEN 0 ELSE length
  BY StringAssumption DEF StrShape, Start, Writers

\* str_append and str_set
LEMMA AppendedText ==
  ASSUME StrShape, NEW op \in Writers, NEW s \in Inputs, StrAppend(op, s)
  PROVE  /\ StrShape'
         /\ CString(data') = Text'
         /\ Text' = IF op = "replace" THEN s ELSE Text \o s
<1>1. PICK n, k, e, b : /\ n = Start(op) /\ k = Len(s) /\ e = n + k /\ b = Block(e)
  OBVIOUS
<1>2. s \in Seq(Chars) /\ k \in Nat \ {0}
  BY <1>1, InputsAreTexts
<1>3. n \in 0 .. length /\ n \in Nat /\ length \in Nat /\ length <= capacity /\ capacity \in Nat
  BY <1>1, StartTyped, StringAssumption DEF StrShape
<1>4. e \in 0 .. MaxLength /\ e \in Nat /\ e # 0
  BY <1>1, <1>2, <1>3, StringAssumption DEF StrAppend
<1>5. /\ b.bytes \in Seq(Bytes) /\ Len(b.bytes) = b.cap /\ e < b.cap /\ b.cap >= capacity
      /\ \A i \in 1 .. capacity : b.bytes[i] = data[i]
  BY <1>1, <1>4, BlockFits
<1>6. PICK d, r : d = b.bytes /\ r = data'
  OBVIOUS
<1>7. r = Ended(Copied(d, n, s), e) /\ capacity' = b.cap /\ length' = e
  BY <1>1, <1>6 DEF StrAppend, Appended
<1>8. /\ r \in Seq(Bytes) /\ Len(r) = Len(d)
      /\ \A i \in 1 .. n : r[i] = d[i]
      /\ \A i \in 1 .. k : n + i <= e => r[n + i] = s[i]
      /\ r[e + 1] = Null
  <2>1. d \in Seq(Bytes) /\ n + Len(s) < Len(d) /\ n <= e /\ e <= n + Len(s)
    BY <1>1, <1>2, <1>3, <1>4, <1>5, <1>6
  <2>2. IsCopy(r, d, n, s, e)
    BY <1>2, <1>3, <1>4, <1>7, <2>1, CopiedAndEnded
  <2> QED
    BY <1>1, <2>2 DEF IsCopy
<1>9. /\ \A i \in 1 .. n : r[i] = data[i] /\ r[i] \in Chars
      /\ \A i \in 1 .. k : r[n + i] = s[i] /\ s[i] \in Chars
  <2>1. \A i \in 1 .. n : d[i] = data[i] /\ data[i] \in Chars
    BY <1>3, <1>5, <1>6 DEF StrShape
  <2>2. \A i \in 1 .. k : n + i <= e /\ s[i] \in Chars
    BY <1>1, <1>2, <1>3
  <2> QED
    BY <1>8, <2>1, <2>2
<1>10. ASSUME NEW i \in 1 .. e PROVE r[i] \in Chars
  <2>1. CASE i <= n
    BY <1>9, <2>1, <1>3
  <2>2. CASE ~ (i <= n)
    <3>1. PICK j : j = i - n
      OBVIOUS
    <3>2. j \in 1 .. k /\ n + j = i
      BY <1>1, <1>2, <1>3, <2>2, <3>1
    <3> QED
      BY <1>9, <3>2
  <2> QED
    BY <2>1, <2>2
<1>11. StrShape'
  BY <1>4, <1>5, <1>6, <1>7, <1>8, <1>10 DEF StrShape
<1>12. CString(data') = Text'
  <2>1. CString(r) = SubSeq(r, 1, e)
    BY <1>4, <1>5, <1>6, <1>8, <1>10, CStringEnds
  <2> QED
    BY <1>6, <1>7, <2>1 DEF Text
<1>13. Text' = IF op = "replace" THEN s ELSE Text \o s
  <2>1. PICK t : t = Text'
    OBVIOUS
  <2>2. t = SubSeq(r, 1, e) /\ e <= Len(r) /\ r \in Seq(Bytes)
    <3>1. t = SubSeq(r, 1, e)
      BY <1>6, <1>7, <2>1 DEF Text
    <3> QED
      BY <1>4, <1>5, <1>6, <1>8, <3>1
  <2>3. Len(t) = e /\ \A i \in 1 .. e : t[i] = r[i]
    BY <1>4, <2>2
  <2>4. CASE op = "replace"
    <3>1. n = 0 /\ e = k
      BY <1>1, <1>2, <2>4 DEF Start
    <3>2. \A i \in 1 .. k : r[i] = s[i]
      BY <1>2, <1>9, <3>1
    <3>3. t \in Seq(Bytes)
      BY <2>2, <1>4
    <3>4. t = s
      BY <1>1, <1>2, <2>3, <3>1, <3>2, <3>3
    <3> QED
      BY <2>1, <2>4, <3>4
  <2>5. CASE op # "replace"
    <3>1. n = length
      BY <1>1, <2>5 DEF Start
    <3>2. PICK u : u = Text
      OBVIOUS
    <3>3. u \in Seq(Chars) /\ Len(u) = n /\ \A i \in 1 .. n : u[i] = data[i]
      BY <3>1, <3>2, TextTyped
    <3>4. PICK w : w = u \o s
      OBVIOUS
    <3>5. /\ w \in Seq(Chars) /\ Len(w) = e
          /\ \A i \in 1 .. e : w[i] = IF i <= n THEN u[i] ELSE s[i - n]
      <4>1. u \in Seq(Chars) /\ s \in Seq(Chars) /\ Len(u) = n /\ Len(s) = k
        BY <1>1, <1>2, <3>3
      <4>2. /\ u \o s \in Seq(Chars) /\ Len(u \o s) = Len(u) + Len(s)
            /\ \A i \in 1 .. Len(u) + Len(s) :
                 (u \o s)[i] = IF i <= Len(u) THEN u[i] ELSE s[i - Len(u)]
        BY <4>1, ConcatProperties, Zenon
      <4> QED
        BY <1>1, <3>4, <4>1, <4>2
    <3>6. ASSUME NEW i \in 1 .. e PROVE t[i] = w[i]
      <4>1. t[i] = r[i]
        BY <2>3
      <4>2. CASE i <= n
        BY <1>3, <1>9, <3>3, <3>5, <4>1, <4>2
      <4>3. CASE ~ (i <= n)
        <5>1. PICK j : j = i - n
          OBVIOUS
        <5>2. j \in 1 .. k /\ n + j = i
          BY <1>1, <1>2, <1>3, <4>3, <5>1
        <5>3. r[n + j] = s[j]
          BY <1>9, <5>2
        <5>4. w[i] = s[j]
          BY <3>5, <4>3, <5>1
        <5> QED
          BY <4>1, <5>2, <5>3, <5>4
      <4> QED
        BY <4>2, <4>3
    <3>7. t \in Seq(Bytes)
      BY <2>2, <1>4
    <3>8. t = w
      BY <1>4, <2>3, <3>5, <3>6, <3>7
    <3> QED
      BY <2>1, <2>5, <3>2, <3>4, <3>8
  <2> QED
    BY <2>4, <2>5
<1> QED
  BY <1>11, <1>12, <1>13

LEMMA SamePrefix ==
  ASSUME NEW a \in Seq(Bytes), NEW b \in Seq(Bytes), NEW m \in Nat, m <= Len(a), m <= Len(b),
         \A i \in 1 .. m : a[i] = b[i]
  PROVE  SubSeq(a, 1, m) = SubSeq(b, 1, m)
  OBVIOUS

\* a file of which fread has given less than ftell had promised
LEMMA ShortReadText ==
  ASSUME StrShape, NEW op \in Writers, NEW s \in Inputs, NEW m \in 0 .. MaxInput,
         StrFileShort(op, s, m)
  PROVE  /\ StrShape'
         /\ CString(data') = Text'
         /\ Text' = IF op = "replace" THEN <<>> ELSE Text
<1>1. PICK n, k, e, b : /\ n = Start(op) /\ k = Len(s) /\ e = n + k /\ b = Block(e)
  OBVIOUS
<1>2. s \in Seq(Chars) /\ k \in Nat \ {0}
  BY <1>1, InputsAreTexts
<1>3. /\ n \in 0 .. length /\ n \in 0 .. MaxLength /\ n \in Nat /\ length \in Nat
      /\ length <= capacity /\ capacity \in Nat
  BY <1>1, StartTyped, StringAssumption DEF StrShape
<1>4. e \in 0 .. MaxLength /\ e \in Nat /\ e # 0 /\ m \in Nat /\ m < k
  BY <1>1, <1>2, <1>3, StringAssumption DEF StrFileShort
<1>5. /\ b.bytes \in Seq(Bytes) /\ Len(b.bytes) = b.cap /\ e < b.cap /\ b.cap >= capacity
      /\ \A i \in 1 .. capacity : b.bytes[i] = data[i]
  BY <1>1, <1>4, BlockFits
<1>6. PICK d, r, t : d = b.bytes /\ r = data' /\ t = SubSeq(s, 1, m)
  OBVIOUS
<1>7. r = Ended(Copied(d, n, t), n) /\ capacity' = b.cap /\ length' = n
  BY <1>1, <1>6 DEF StrFileShort
<1>8. t \in Seq(Chars) /\ Len(t) = m
  BY <1>1, <1>2, <1>4, <1>6
<1>9. IsCopy(r, d, n, t, n)
  <2>1. d \in Seq(Bytes) /\ n + Len(t) < Len(d) /\ n <= n + Len(t)
    BY <1>1, <1>2, <1>3, <1>4, <1>5, <1>6, <1>8
  <2> QED
    BY <1>3, <1>7, <1>8, <2>1, CopiedAndEnded
<1>10. /\ r \in Seq(Bytes) /\ Len(r) = b.cap /\ r[n + 1] = Null
       /\ \A i \in 1 .. n : r[i] = data[i] /\ data[i] \in Chars
  <2>1. \A i \in 1 .. n : d[i] = data[i] /\ data[i] \in Chars
    BY <1>3, <1>5, <1>6 DEF StrShape
  <2>2. /\ r \in Seq(Bytes) /\ Len(r) = Len(d) /\ r[n + 1] = Null
        /\ \A i \in 1 .. n : r[i] = d[i]
    BY <1>9 DEF IsCopy
  <2> QED
    BY <1>5, <1>6, <2>1, <2>2
<1>11. n < b.cap /\ n <= Len(data) /\ data \in Seq(Bytes)
  BY <1>1, <1>2, <1>3, <1>4, <1>5 DEF StrShape
<1>12. StrShape'
  BY <1>3, <1>6, <1>7, <1>10, <1>11 DEF StrShape
<1>13. CString(data') = Text'
  <2>1. CString(r) = SubSeq(r, 1, n)
    BY <1>3, <1>10, <1>11, CStringEnds
  <2> QED
    BY <1>6, <1>7, <2>1 DEF Text
<1>14. Text' = SubSeq(data, 1, n)
  <2>1. SubSeq(r, 1, n) = SubSeq(data, 1, n)
    BY <1>3, <1>10, <1>11, SamePrefix
  <2> QED
    BY <1>6, <1>7, <2>1 DEF Text
<1>15. CASE op = "replace"
  <2>1. n = 0
    BY <1>1, <1>15 DEF Start
  <2> QED
    BY <1>12, <1>13, <1>14, <1>15, <2>1
<1>16. CASE op # "replace"
  <2>1. n = length
    BY <1>1, <1>16 DEF Start
  <2> QED
    BY <1>12, <1>13, <1>14, <1>16, <2>1 DEF Text
<1> QED
  BY <1>15, <1>16

LEMMA ReservedText ==
  ASSUME StrShape, NEW n \in 0 .. MaxLength, StrReserve(n)
  PROVE  StrShape' /\ Text' = Text
<1>1. PICK b, d : b = Block(n) /\ d = data'
  OBVIOUS
<1>2. d = b.bytes /\ capacity' = b.cap /\ length' = length
  BY <1>1 DEF StrReserve
<1>3. /\ d \in Seq(Bytes) /\ Len(d) = b.cap /\ b.cap >= capacity
      /\ \A i \in 1 .. capacity : d[i] = data[i]
  BY <1>1, <1>2, BlockFits
<1>4. /\ length \in Nat /\ length <= capacity /\ capacity \in Nat /\ b.cap \in Nat
      /\ capacity = Len(data) /\ data \in Seq(Bytes)
  BY <1>3, StringAssumption DEF StrShape
<1>5. \A i \in 1 .. length : d[i] = data[i]
  BY <1>3, <1>4
<1>6. StrShape'
  BY <1>1, <1>2, <1>3, <1>4, <1>5 DEF StrShape
<1>7. SubSeq(d, 1, length) = SubSeq(data, 1, length)
  BY <1>3, <1>4, <1>5, SamePrefix
<1> QED
  BY <1>1, <1>2, <1>6, <1>7 DEF Text

\* the calls that only cut the text or leave it
LEMMA CutText ==
  ASSUME StrShape, data' = data, capacity' = capacity, length' \in {0, length}
  PROVE  StrShape' /\ Text' = IF length' = 0 THEN <<>> ELSE Text
<1>1. length \in Nat /\ 0 \in 0 .. MaxLength /\ data \in Seq(Bytes)
  BY StringAssumption DEF StrShape
<1>2. StrShape'
  BY <1>1 DEF StrShape
<1>3. SubSeq(data, 1, 0) = <<>>
  BY <1>1
<1> QED
  BY <1>2, <1>3 DEF Text

StrFailures == {"ERR_Invalid", "ERR_OutOfMemory", "ERR_CouldNotOpen", "ERR_FileOperation"}

\* a call that fails, and does no more than str_set does before it
LEMMA FailedText ==
  ASSUME StrShape, NEW op \in Writers, NEW s,
         \/ StrAppendNothing(op) \/ StrAppendNoMemory(op, s) \/ StrFileFails(op, s)
  PROVE  /\ StrShape'
         /\ Text' = (IF op = "replace" THEN <<>> ELSE Text)
         /\ asked'[1] = op /\ answer' \in StrFailures
         /\ data' = data
<1>1. data' = data /\ capacity' = capacity /\ length' = Start(op)
  BY DEF StrAppendNothing, StrAppendNoMemory, StrFileFails
<1>2. asked'[1] = op /\ answer' \in StrFailures
  BY DEF StrAppendNothing, StrAppendNoMemory, StrFileFails, Asked, StrFailures
<1>3. Start(op) \in {0, length} /\ length \in Nat
  BY StringAssumption DEF Start, StrShape
<1>4. StrShape' /\ Text' = IF length' = 0 THEN <<>> ELSE Text
  BY <1>1, <1>3, CutText
<1>5. length = 0 => Text = <<>>
  BY DEF Text, StrShape
<1> QED
  BY <1>1, <1>2, <1>4, <1>5 DEF Start

\* what CStringIsText says of a step
CStringStep ==
  asked'[1] \in Writers
    => \/ CString(data') = Text'
       \/ answer' # "ERR_None" /\ (asked'[1] = "extend" => CString(data) # Text)

\* a call on the String is a call on its contents
LEMMA StringStep ==
  ASSUME StrShape, StrNext
  PROVE  StrShape' /\ CStringStep /\ StringContents!Next
<1> USE DEF Asked, StringContents!Next, StringContents!Does
<1>1. ASSUME NEW op \in Writers, NEW s \in Inputs, StrAppend(op, s)
      PROVE  StrShape' /\ CStringStep /\ StringContents!Next
  <2>1. /\ StrShape' /\ CString(data') = Text'
        /\ Text' = IF op = "replace" THEN s ELSE Text \o s
    BY <1>1, AppendedText
  <2>2. asked' = <<op, s>> /\ answer' = "ERR_None"
    BY <1>1 DEF StrAppend
  <2>3. s \in StringContents!Inputs
    BY DEF Inputs, StringContents!Inputs
  <2>4. StringContents!Extend \/ StringContents!Replace
    BY <2>1, <2>2, <2>3 DEF Writers, StringContents!Extend, StringContents!Replace
  <2> QED
    BY <2>1, <2>4 DEF CStringStep
<1>2. ASSUME NEW op \in Writers, NEW s \in Inputs, NEW m \in 0 .. MaxInput, StrFileShort(op, s, m)
      PROVE  StrShape' /\ CStringStep /\ StringContents!Next
  <2>1. /\ StrShape' /\ CString(data') = Text'
        /\ Text' = IF op = "replace" THEN <<>> ELSE Text
    BY <1>2, ShortReadText
  <2>2. asked'[1] = op /\ answer' = "ERR_FileOperation"
    BY <1>2 DEF StrFileShort
  <2>3. StringContents!Fail
    BY <2>1, <2>2 DEF StringContents!Fail
  <2> QED
    BY <2>1, <2>3 DEF CStringStep
<1>3. ASSUME NEW op \in Writers, NEW s,
             StrAppendNothing(op) \/ StrAppendNoMemory(op, s) \/ StrFileFails(op, s)
      PROVE  StrShape' /\ CStringStep /\ StringContents!Next
  <2>1. /\ StrShape' /\ Text' = (IF op = "replace" THEN <<>> ELSE Text)
        /\ asked'[1] = op /\ answer' \in StrFailures /\ data' = data
    BY <1>3, FailedText
  <2>2. StringContents!Fail
    BY <2>1 DEF StringContents!Fail, StrFailures
  <2>3. CStringStep
    BY <2>1 DEF CStringStep, StrFailures, Writers
  <2> QED
    BY <2>1, <2>2, <2>3
<1>4. ASSUME NEW n \in 0 .. MaxLength, StrReserve(n)
      PROVE  StrShape' /\ CStringStep /\ StringContents!Next
  <2>1. StrShape' /\ Text' = Text
    BY <1>4, ReservedText
  <2>2. asked' = <<"reserve", n>> /\ answer' = "ERR_None"
    BY <1>4 DEF StrReserve
  <2>3. StringContents!Reserve
    BY <2>1, <2>2 DEF StringContents!Reserve
  <2> QED
    BY <2>1, <2>2, <2>3 DEF CStringStep, Writers
<1>5. ASSUME NEW n \in 0 .. MaxLength, StrReserveNoMemory(n)
      PROVE  StrShape' /\ CStringStep /\ StringContents!Next
  <2>1. asked' = <<"reserve", n>> /\ answer' = "ERR_OutOfMemory"
        /\ UNCHANGED <<data, length, capacity>>
    BY <1>5 DEF StrReserveNoMemory
  <2>2. StrShape' /\ Text' = Text
    BY <2>1 DEF StrShape, Text
  <2>3. StringContents!Fail
    BY <2>1, <2>2 DEF StringContents!Fail
  <2> QED
    BY <2>1, <2>2, <2>3 DEF CStringStep, Writers
<1>6. CASE StrClear \/ StrDeinit
  <2>1. asked' = <<"truncate", 0>> /\ answer' = "ERR_None"
    BY <1>6 DEF StrClear, StrDeinit
  <2>2. StrShape' /\ Text' = <<>>
    <3>1. CASE StrClear
      <4>1. data' = data /\ capacity' = capacity /\ length' = 0
        BY <3>1 DEF StrClear
      <4> QED
        BY <4>1, CutText
    <3>2. CASE StrDeinit
      <4>1. data' = <<>> /\ capacity' = 0 /\ length' = 0
        BY <3>2 DEF StrDeinit
      <4> QED
        BY <4>1, StringAssumption DEF StrShape, Text
    <3> QED
      BY <1>6, <3>1, <3>2
  <2>3. <<>> = IF 0 < Len(Text) THEN SubSeq(Text, 1, 0) ELSE Text
    BY TextTyped
  <2>4. 0 \in 0 .. MaxLength
    BY StringAssumption
  <2>5. StringContents!Truncate
    BY <2>1, <2>2, <2>3, <2>4 DEF StringContents!Truncate, StringContents!First
  <2> QED
    BY <2>1, <2>2, <2>5 DEF CStringStep, Writers
<1> QED
  BY <1>1, <1>2, <1>3, <1>4, <1>5, <1>6 DEF StrNext

-----------------------------------------------------------------------------
(* The Array *)

Cells == Values \cup {Stale}

\* The block has as many elements as the Array takes it for, those in use among them.
ArrayShape ==
  /\ elems \in Seq(Cells) /\ Len(elems) = arCapacity
  /\ count \in 0 .. MaxCount /\ count <= arCapacity

\* what the first n elements of a block are
LEMMA FirstOf ==
  ASSUME NEW b \in Seq(Cells), NEW n \in Nat, n <= Len(b), NEW c \in Seq(Cells),
         Len(c) = n, \A i \in 1 .. n : b[i] = c[i]
  PROVE  SubSeq(b, 1, n) = c
<1>1. PICK s : s = SubSeq(b, 1, n)
  OBVIOUS
<1>2. s \in Seq(Cells) /\ Len(s) = n /\ \A i \in 1 .. n : s[i] = b[i]
  BY <1>1
<1>3. s = c
  BY <1>2, SeqEqual
<1> QED
  BY <1>1, <1>3

LEMMA InUseTyped ==
  ASSUME ArrayShape
  PROVE  /\ InUse \in Seq(Cells) /\ Len(InUse) = count /\ DOMAIN InUse = 1 .. count
         /\ \A i \in 1 .. count : InUse[i] = elems[i] /\ elems[i] \in Cells
<1>1. /\ count \in Nat /\ count <= Len(elems) /\ elems \in Seq(Cells)
  BY ArrayAssumption DEF ArrayShape
<1>2. PICK s : s = SubSeq(elems, 1, count)
  OBVIOUS
<1>3. s \in Seq(Cells) /\ Len(s) = count /\ \A i \in 1 .. count : s[i] = elems[i]
  BY <1>1, <1>2
<1>4. \A i \in 1 .. count : elems[i] \in Cells
  BY <1>1
<1> QED
  BY <1>1, <1>2, <1>3, <1>4 DEF InUse

\* a larger block with the elements of the smaller one
LEMMA BlockMoves ==
  ASSUME ArrayShape, NEW n \in Nat, NEW g,
         g = [i \in 1 .. n |-> IF i <= Len(elems) THEN elems[i] ELSE Stale]
  PROVE  /\ g \in Seq(Cells) /\ Len(g) = n
         /\ \A i \in 1 .. n : i <= arCapacity => g[i] = elems[i]
<1>1. \A i \in 1 .. n : g[i] \in Cells /\ (i <= arCapacity => g[i] = elems[i])
  BY DEF ArrayShape, Cells
<1>2. g \in Seq(Cells) /\ Len(g) = n
  BY <1>1
<1> QED
  BY <1>1, <1>2

LEMMA StoredCell ==
  ASSUME NEW b \in Seq(Cells), NEW k \in 1 .. Len(b), NEW v \in Cells
  PROVE  /\ Stored(b, k, v) \in Seq(Cells) /\ Len(Stored(b, k, v)) = Len(b)
         /\ \A i \in 1 .. Len(b) : i # k => Stored(b, k, v)[i] = b[i]
<1>1. CASE v = Stale
  BY <1>1 DEF Stored
<1>2. CASE v # Stale
  <2>1. PICK e : e = [b EXCEPT ![k] = v]
    OBVIOUS
  <2>2. /\ e \in Seq(Cells) /\ Len(e) = Len(b)
        /\ \A i \in 1 .. Len(b) : e[i] = IF i = k THEN v ELSE b[i]
    BY <2>1, ExceptSeq
  <2> QED
    BY <1>2, <2>1, <2>2 DEF Stored
<1> QED
  BY <1>1, <1>2

\* the element a push has added, behind those that were there
LEMMA PushedElement ==
  ASSUME ArrayShape, NEW b \in Seq(Cells), count + 1 \in 1 .. Len(b), NEW v \in Cells,
         \A i \in 1 .. count : b[i] = elems[i],
         elems' = Stored(b, count + 1, v), count' = count + 1
  PROVE  /\ elems' \in Seq(Cells) /\ Len(elems') = Len(b)
         /\ elems'[count + 1] \in Cells
         /\ InUse' = InUse \o <<elems'[count + 1]>>
<1>1. PICK r, n, x : r = elems' /\ n = count + 1 /\ x = r[n]
  OBVIOUS
<1>2. count \in Nat /\ n \in Nat /\ n \in 1 .. Len(b) /\ n = count + 1
  BY <1>1, ArrayAssumption DEF ArrayShape
<1>3. /\ r \in Seq(Cells) /\ Len(r) = Len(b)
      /\ \A i \in 1 .. Len(b) : i # n => r[i] = b[i]
  BY <1>1, <1>2, StoredCell
<1>4. x \in Cells
  BY <1>1, <1>2, <1>3
<1>5. PICK u, w : u = InUse /\ w = u \o <<x>>
  OBVIOUS
<1>6. u \in Seq(Cells) /\ Len(u) = count /\ \A i \in 1 .. count : u[i] = elems[i]
  BY <1>5, InUseTyped
<1>7. <<x>> \in Seq(Cells) /\ Len(<<x>>) = 1 /\ <<x>>[1] = x
  BY <1>4
<1>8. /\ w \in Seq(Cells) /\ Len(w) = n
      /\ \A i \in 1 .. n : w[i] = IF i <= count THEN u[i] ELSE <<x>>[i - count]
  <2>1. /\ u \o <<x>> \in Seq(Cells) /\ Len(u \o <<x>>) = Len(u) + Len(<<x>>)
        /\ \A i \in 1 .. Len(u) + Len(<<x>>) :
             (u \o <<x>>)[i] = IF i <= Len(u) THEN u[i] ELSE <<x>>[i - Len(u)]
    BY <1>6, <1>7, ConcatProperties, Zenon
  <2> QED
    BY <1>2, <1>5, <1>6, <1>7, <2>1
<1>9. ASSUME NEW i \in 1 .. n PROVE r[i] = w[i]
  <2>1. CASE i = n
    <3>1. w[i] = <<x>>[1]
      BY <1>2, <1>8, <2>1
    <3> QED
      BY <1>1, <1>7, <2>1, <3>1
  <2>2. CASE i # n
    <3>1. i \in 1 .. count /\ i \in 1 .. Len(b)
      BY <1>2, <2>2
    <3> QED
      BY <1>3, <1>6, <1>8, <2>2, <3>1
  <2> QED
    BY <2>1, <2>2
<1>10. SubSeq(r, 1, n) = w
  BY <1>2, <1>3, <1>8, <1>9, FirstOf
<1>11. InUse' = SubSeq(r, 1, n)
  BY <1>1 DEF InUse
<1> QED
  BY <1>1, <1>3, <1>4, <1>5, <1>10, <1>11

\* array_push_back
LEMMA PushedArray ==
  ASSUME ArrayShape, NEW v \in Cells, ArrayPushBack(v) \/ ArrayPushBackGrows(v)
  PROVE  /\ ArrayShape'
         /\ elems'[count + 1] \in Cells
         /\ InUse' = InUse \o <<elems'[count + 1]>>
<1>1. /\ count \in Nat /\ arCapacity \in Nat /\ count < MaxCount /\ MaxCount \in Nat
      /\ count' = count + 1 /\ count <= arCapacity
  BY ArrayAssumption DEF ArrayShape, ArrayPushBack, ArrayPushBackGrows
<1>2. PICK b : /\ b \in Seq(Cells) /\ count + 1 \in 1 .. Len(b) /\ Len(b) = arCapacity'
               /\ \A i \in 1 .. count : b[i] = elems[i]
               /\ elems' = Stored(b, count + 1, v)
  <2>1. CASE ArrayPushBack(v)
    <3>1. /\ elems \in Seq(Cells) /\ count + 1 \in 1 .. Len(elems) /\ Len(elems) = arCapacity'
          /\ elems' = Stored(elems, count + 1, v)
      BY <1>1, <2>1 DEF ArrayPushBack, ArrayShape
    <3> QED
      BY <3>1
  <2>2. CASE ArrayPushBackGrows(v)
    <3>1. PICK n, g : /\ n = Grown
                      /\ g = [i \in 1 .. n |-> IF i <= Len(elems) THEN elems[i] ELSE Stale]
      OBVIOUS
    <3>2. elems' = Stored(g, count + 1, v) /\ arCapacity' = n /\ count = arCapacity
      BY <2>2, <3>1 DEF ArrayPushBackGrows
    <3>3. n \in Nat /\ n > arCapacity
      BY <1>1, <3>1, ArrayAssumption DEF Grown
    <3>4. /\ g \in Seq(Cells) /\ Len(g) = n
          /\ \A i \in 1 .. n : i <= arCapacity => g[i] = elems[i]
      BY <3>1, <3>3, BlockMoves
    <3>5. count + 1 \in 1 .. Len(g) /\ \A i \in 1 .. count : g[i] = elems[i]
      BY <1>1, <3>2, <3>3, <3>4
    <3> QED
      BY <3>2, <3>4, <3>5
  <2> QED
    BY <2>1, <2>2
<1>3. /\ elems' \in Seq(Cells) /\ Len(elems') = Len(b)
      /\ elems'[count + 1] \in Cells
      /\ InUse' = InUse \o <<elems'[count + 1]>>
  BY <1>1, <1>2, PushedElement
<1>4. count' \in 0 .. MaxCount /\ count' <= arCapacity'
  BY <1>1, <1>2
<1> QED
  BY <1>2, <1>3, <1>4 DEF ArrayShape

\* array_set
LEMMA SetArray ==
  ASSUME ArrayShape, NEW i, NEW v \in Values, ArraySet(i, v)
  PROVE  /\ ArrayShape'
         /\ i \in DOMAIN InUse
         /\ InUse' = [InUse EXCEPT ![i] = v]
<1>1. PICK u, w, r : u = InUse /\ w = [u EXCEPT ![i] = v] /\ r = elems'
  OBVIOUS
<1>2. /\ count \in Nat /\ arCapacity \in Nat /\ count <= arCapacity /\ i \in 1 .. count
      /\ elems \in Seq(Cells) /\ Len(elems) = arCapacity /\ v \in Cells
      /\ r = [elems EXCEPT ![i] = v] /\ count' = count /\ arCapacity' = arCapacity
  BY <1>1, ArrayAssumption DEF ArrayShape, ArraySet, Cells
<1>3. /\ u \in Seq(Cells) /\ Len(u) = count /\ DOMAIN u = 1 .. count
      /\ \A j \in 1 .. count : u[j] = elems[j]
  BY <1>1, InUseTyped
<1>4. i \in 1 .. Len(elems) /\ i \in 1 .. Len(u)
  BY <1>2, <1>3
<1>5. /\ r \in Seq(Cells) /\ Len(r) = arCapacity
      /\ \A j \in 1 .. Len(elems) : r[j] = IF j = i THEN v ELSE elems[j]
  BY <1>2, <1>4, ExceptSeq
<1>6. /\ w \in Seq(Cells) /\ Len(w) = count
      /\ \A j \in 1 .. Len(u) : w[j] = IF j = i THEN v ELSE u[j]
  BY <1>1, <1>2, <1>3, <1>4, ExceptSeq
<1>7. \A j \in 1 .. count : r[j] = w[j]
  BY <1>2, <1>3, <1>5, <1>6
<1>8. SubSeq(r, 1, count) = w
  BY <1>2, <1>5, <1>6, <1>7, FirstOf
<1>9. InUse' = SubSeq(r, 1, count)
  BY <1>1, <1>2 DEF InUse
<1>10. ArrayShape'
  BY <1>1, <1>2, <1>5 DEF ArrayShape
<1> QED
  BY <1>1, <1>2, <1>3, <1>8, <1>9, <1>10

\* array_swap_and_pop
LEMMA SwappedArray ==
  ASSUME ArrayShape, NEW i, ArraySwapAndPop(i)
  PROVE  /\ ArrayShape'
         /\ i \in DOMAIN InUse
         /\ InUse' = SubSeq([InUse EXCEPT ![i] = InUse[Len(InUse)]], 1, Len(InUse) - 1)
<1>1. PICK u, x, w, r, n : /\ u = InUse /\ x = u[Len(u)] /\ w = [u EXCEPT ![i] = x]
                           /\ r = elems' /\ n = count - 1
  OBVIOUS
<1>2. /\ count \in Nat /\ arCapacity \in Nat /\ count <= arCapacity /\ i \in 1 .. count
      /\ n \in Nat /\ n < count /\ MaxCount \in Nat /\ count <= MaxCount
      /\ elems \in Seq(Cells) /\ Len(elems) = arCapacity
      /\ r = (IF i = count THEN elems ELSE [elems EXCEPT ![i] = elems[count]])
      /\ count' = n /\ arCapacity' = arCapacity
  BY <1>1, ArrayAssumption DEF ArrayShape, ArraySwapAndPop
<1>3. /\ u \in Seq(Cells) /\ Len(u) = count /\ DOMAIN u = 1 .. count
      /\ \A j \in 1 .. count : u[j] = elems[j] /\ elems[j] \in Cells
  BY <1>1, InUseTyped
<1>4. i \in 1 .. Len(elems) /\ i \in 1 .. Len(u) /\ x = elems[count] /\ x \in Cells
  BY <1>1, <1>2, <1>3
<1>5. /\ w \in Seq(Cells) /\ Len(w) = count
      /\ \A j \in 1 .. Len(u) : w[j] = IF j = i THEN x ELSE u[j]
  BY <1>1, <1>3, <1>4, ExceptSeq
<1>6. /\ r \in Seq(Cells) /\ Len(r) = arCapacity
      /\ \A j \in 1 .. Len(elems) : r[j] = IF j = i THEN x ELSE elems[j]
  <2>1. CASE i = count
    BY <1>2, <1>4, <2>1
  <2>2. CASE i # count
    <3>1. r = [elems EXCEPT ![i] = x]
      BY <1>2, <1>4, <2>2
    <3> QED
      BY <1>2, <1>4, <3>1, ExceptSeq
  <2> QED
    BY <2>1, <2>2
<1>7. PICK s : s = SubSeq(w, 1, n)
  OBVIOUS
<1>8. s \in Seq(Cells) /\ Len(s) = n /\ \A j \in 1 .. n : s[j] = w[j]
  BY <1>2, <1>5, <1>7
<1>9. \A j \in 1 .. n : r[j] = s[j]
  BY <1>2, <1>3, <1>5, <1>6, <1>8
<1>10. SubSeq(r, 1, n) = s
  BY <1>2, <1>6, <1>8, <1>9, FirstOf
<1>11. InUse' = SubSeq(r, 1, n)
  BY <1>1, <1>2 DEF InUse
<1>12. ArrayShape'
  BY <1>1, <1>2, <1>6 DEF ArrayShape
<1> QED
  BY <1>1, <1>2, <1>3, <1>7, <1>10, <1>11, <1>12

\* array_shift_left_by_n
LEMMA ShiftedArray ==
  ASSUME ArrayShape, NEW n \in 0 .. MaxCount, ArrayShiftLeft(n)
  PROVE  ArrayShape' /\ InUse' = SubSeq(InUse, n + 1, Len(InUse))
<1>1. PICK u, r, k : u = InUse /\ r = elems' /\ k = count'
  OBVIOUS
<1>2. /\ count \in Nat /\ arCapacity \in Nat /\ count <= arCapacity /\ n \in Nat
      /\ MaxCount \in Nat /\ count <= MaxCount
      /\ elems \in Seq(Cells) /\ Len(elems) = arCapacity /\ DOMAIN elems = 1 .. arCapacity
      /\ k = (IF n < count THEN count - n ELSE 0) /\ arCapacity' = arCapacity
      /\ r = IF n < count
               THEN [i \in 1 .. arCapacity |-> IF i <= count - n THEN elems[i + n] ELSE elems[i]]
               ELSE elems
  BY <1>1, ArrayAssumption DEF ArrayShape, ArrayShiftLeft
<1>3. /\ u \in Seq(Cells) /\ Len(u) = count
      /\ \A j \in 1 .. count : u[j] = elems[j] /\ elems[j] \in Cells
  BY <1>1, InUseTyped
<1>4. InUse' = SubSeq(r, 1, k)
  BY <1>1 DEF InUse
<1>5. CASE n < count
  <2>1. k = count - n /\ k \in Nat /\ k <= arCapacity /\ k <= MaxCount
    BY <1>2, <1>5
  <2>2. \A i \in 1 .. arCapacity : r[i] = IF i <= k THEN elems[i + n] ELSE elems[i]
    BY <1>2, <1>5, <2>1
  <2>3. \A i \in 1 .. arCapacity : r[i] \in Cells
    BY <1>2, <2>1, <2>2
  <2>4. r \in Seq(Cells) /\ Len(r) = arCapacity
    <3>1. r = [i \in 1 .. arCapacity |-> r[i]]
      BY <1>2, <1>5
    <3> QED
      BY <1>2, <2>3, <3>1
  <2>5. PICK s, m : s = SubSeq(u, m, count) /\ m = n + 1
    OBVIOUS
  <2>6. s \in Seq(Cells) /\ Len(s) = k /\ \A i \in 1 .. k : s[i] = u[i + n]
    BY <1>2, <1>3, <1>5, <2>1, <2>5
  <2>7. \A i \in 1 .. k : r[i] = s[i]
    BY <1>2, <1>3, <2>1, <2>2, <2>6
  <2>8. SubSeq(r, 1, k) = s
    BY <1>2, <2>1, <2>4, <2>6, <2>7, FirstOf
  <2>9. ArrayShape'
    BY <1>1, <1>2, <2>1, <2>4 DEF ArrayShape
  <2> QED
    BY <1>1, <1>3, <1>4, <2>5, <2>8, <2>9
<1>6. CASE ~ (n < count)
  <2>1. k = 0 /\ r = elems
    BY <1>2, <1>6
  <2>2. SubSeq(r, 1, 0) = <<>>
    BY SubSeqEmpty
  <2>3. PICK m : m = n + 1
    OBVIOUS
  <2>4. SubSeq(u, m, count) = <<>>
    BY <1>2, <1>6, <2>3, SubSeqEmpty
  <2>5. ArrayShape'
    BY <1>1, <1>2, <2>1 DEF ArrayShape
  <2> QED
    BY <1>1, <1>3, <1>4, <2>1, <2>2, <2>3, <2>4, <2>5
<1> QED
  BY <1>5, <1>6

\* array_reserve
LEMMA ReservedArray ==
  ASSUME ArrayShape, NEW n \in 0 .. MaxCount, ArrayReserve(n)
  PROVE  ArrayShape' /\ InUse' = InUse
<1>1. n \in Nat /\ count' = count /\ count \in Nat /\ arCapacity \in Nat /\ count <= arCapacity
  BY ArrayAssumption DEF ArrayReserve, ArrayShape
<1>2. CASE arCapacity < n
  <2>1. PICK g : g = [i \in 1 .. n |-> IF i <= Len(elems) THEN elems[i] ELSE Stale]
    OBVIOUS
  <2>2. elems' = g /\ arCapacity' = n
    BY <1>2, <2>1 DEF ArrayReserve, Resize
  <2>3. /\ g \in Seq(Cells) /\ Len(g) = n
        /\ \A i \in 1 .. n : i <= arCapacity => g[i] = elems[i]
    BY <1>1, <2>1, BlockMoves
  <2>4. PICK u : u = InUse
    OBVIOUS
  <2>5. u \in Seq(Cells) /\ Len(u) = count /\ \A i \in 1 .. count : g[i] = u[i]
    BY <1>1, <1>2, <2>3, <2>4, InUseTyped
  <2>6. SubSeq(g, 1, count) = u
    BY <1>1, <1>2, <2>3, <2>5, FirstOf
  <2>7. ArrayShape'
    BY <1>1, <1>2, <2>2, <2>3 DEF ArrayShape
  <2> QED
    BY <1>1, <2>2, <2>4, <2>6, <2>7 DEF InUse
<1>3. CASE ~ (arCapacity < n)
  <2>1. elems' = elems /\ arCapacity' = arCapacity
    BY <1>3 DEF ArrayReserve
  <2> QED
    BY <1>1, <2>1 DEF ArrayShape, InUse
<1> QED
  BY <1>2, <1>3

\* the calls that only take elements from the end
LEMMA CutArray ==
  ASSUME ArrayShape, elems' = elems, arCapacity' = arCapacity, count' \in 0 .. count
  PROVE  /\ ArrayShape'
         /\ InUse' = SubSeq(InUse, 1, count')
         /\ count' = count => InUse' = InUse
<1>1. PICK n, u : n = count' /\ u = InUse
  OBVIOUS
<1>2. /\ count \in Nat /\ n \in Nat /\ n <= count /\ MaxCount \in Nat /\ count <= MaxCount
      /\ arCapacity \in Nat /\ count <= arCapacity
      /\ elems \in Seq(Cells) /\ Len(elems) = arCapacity
  BY <1>1, ArrayAssumption DEF ArrayShape
<1>3. ArrayShape'
  BY <1>1, <1>2 DEF ArrayShape
<1>4. u \in Seq(Cells) /\ Len(u) = count /\ \A i \in 1 .. count : u[i] = elems[i]
  BY <1>1, InUseTyped
<1>5. PICK s : s = SubSeq(u, 1, n)
  OBVIOUS
<1>6. s \in Seq(Cells) /\ Len(s) = n /\ \A i \in 1 .. n : elems[i] = s[i]
  BY <1>2, <1>4, <1>5
<1>7. SubSeq(elems, 1, n) = s
  BY <1>2, <1>6, FirstOf
<1> QED
  BY <1>1, <1>3, <1>5, <1>7 DEF InUse

\* a call on the Array is a call on its contents
LEMMA ArrayStep ==
  ASSUME ArrayShape, ArrayNext
  PROVE  ArrayShape' /\ ArrayContents!Next
<1> USE DEF Requested, ArrayContents!Next, ArrayContents!Does
<1>0. /\ Len(InUse) = count /\ DOMAIN InUse = 1 .. count
      /\ \A i \in 1 .. count : InUse[i] = elems[i]
      /\ count \in Nat /\ count <= MaxCount /\ MaxCount \in Nat
  BY InUseTyped, ArrayAssumption DEF ArrayShape
<1>1. ASSUME NEW v \in Cells, ArrayPushBack(v) \/ ArrayPushBackGrows(v)
      PROVE  ArrayShape' /\ ArrayContents!Next
  <2>1. PICK x : x = elems'[count + 1]
    OBVIOUS
  <2>2. ArrayShape' /\ x \in Cells /\ InUse' = InUse \o <<x>>
    BY <1>1, <2>1, PushedArray
  <2>3. request' = <<"extend", <<x>>>> /\ result' = "ERR_None" /\ returned' = <<>>
    BY <1>1, <2>1 DEF ArrayPushBack, ArrayPushBackGrows
  <2>4. <<x>> \in ArrayContents!Inputs
    <3>1. <<x>> \in [1 .. 1 -> Cells] /\ 1 \in 1 .. MaxInput
      BY <2>2, StringAssumption
    <3> QED
      BY <3>1 DEF ArrayContents!Inputs, Cells
  <2>5. ArrayContents!Extend
    BY <2>2, <2>3, <2>4 DEF ArrayContents!Extend
  <2> QED
    BY <2>2, <2>5
<1>2. ASSUME UNCHANGED <<elems, count, arCapacity>>,
             result' \in {"ERR_Invalid", "ERR_OutOfMemory"}, returned' = <<>>,
             request'[1] # "replace"
      PROVE  ArrayShape' /\ ArrayContents!Next
  <2>1. ArrayShape' /\ InUse' = InUse
    BY <1>2 DEF ArrayShape, InUse
  <2> QED
    BY <1>2, <2>1 DEF ArrayContents!Fail
<1>3. ASSUME NEW v \in Cells, ArrayPushBackNoMemory(v)
      PROVE  ArrayShape' /\ ArrayContents!Next
  BY <1>2, <1>3 DEF ArrayPushBackNoMemory
<1>4. ASSUME NEW i, NEW v \in Values, ArraySet(i, v)
      PROVE  ArrayShape' /\ ArrayContents!Next
  <2>1. ArrayShape' /\ i \in DOMAIN InUse /\ InUse' = [InUse EXCEPT ![i] = v]
    BY <1>4, SetArray
  <2>2. request' = <<"set", <<i, v>>>> /\ result' = "ERR_None" /\ returned' = <<>>
    BY <1>4 DEF ArraySet
  <2>3. ArrayContents!Overwrite
    BY <2>1, <2>2 DEF ArrayContents!Overwrite
  <2> QED
    BY <2>1, <2>3
<1>5. ASSUME NEW i, NEW v, ArraySetBeyond(i, v) \/ ArrayGetBeyond(i)
      PROVE  ArrayShape' /\ ArrayContents!Next
  BY <1>2, <1>5 DEF ArraySetBeyond, ArrayGetBeyond
<1>6. ASSUME NEW i, ArrayGet(i)
      PROVE  ArrayShape' /\ ArrayContents!Next
  <2>1. ArrayShape' /\ InUse' = InUse
    BY <1>6 DEF ArrayGet, ArrayShape, InUse
  <2>2. /\ request' = <<"get", i>> /\ result' = "ERR_None" /\ returned' = <<InUse[i]>>
        /\ i \in DOMAIN InUse
    BY <1>0, <1>6 DEF ArrayGet
  <2>3. ArrayContents!Read
    BY <2>1, <2>2 DEF ArrayContents!Read
  <2> QED
    BY <2>1, <2>3
<1>7. ASSUME NEW i, ArraySwapAndPop(i)
      PROVE  ArrayShape' /\ ArrayContents!Next
  <2>1. /\ ArrayShape' /\ i \in DOMAIN InUse
        /\ InUse' = SubSeq([InUse EXCEPT ![i] = InUse[Len(InUse)]], 1, Len(InUse) - 1)
    BY <1>7, SwappedArray
  <2>2. request' = <<"swap", i>> /\ result' = "ERR_None" /\ returned' = <<>>
    BY <1>7 DEF ArraySwapAndPop
  <2>3. ArrayContents!SwapAndPop
    BY <2>1, <2>2 DEF ArrayContents!SwapAndPop
  <2> QED
    BY <2>1, <2>3
<1>8. ASSUME NEW n \in 0 .. MaxCount, ArrayShiftLeft(n)
      PROVE  ArrayShape' /\ ArrayContents!Next
  <2>1. ArrayShape' /\ InUse' = SubSeq(InUse, n + 1, Len(InUse))
    BY <1>8, ShiftedArray
  <2>2. request' = <<"shift", n>> /\ result' = "ERR_None" /\ returned' = <<>>
    BY <1>8 DEF ArrayShiftLeft
  <2>3. ArrayContents!ShiftLeft
    BY <2>1, <2>2 DEF ArrayContents!ShiftLeft
  <2> QED
    BY <2>1, <2>3
<1>9. ASSUME NEW n \in 0 .. MaxCount, ArrayClearIndexAndAbove(n)
      PROVE  ArrayShape' /\ ArrayContents!Next
  <2>1. /\ elems' = elems /\ arCapacity' = arCapacity
        /\ count' = (IF n < count THEN n ELSE count)
        /\ request' = <<"truncate", n>> /\ result' = "ERR_None" /\ returned' = <<>>
    BY <1>9 DEF ArrayClearIndexAndAbove
  <2>2. count' \in 0 .. count
    BY <1>0, <2>1
  <2>3. /\ ArrayShape' /\ InUse' = SubSeq(InUse, 1, count')
        /\ count' = count => InUse' = InUse
    BY <2>1, <2>2, CutArray
  <2>4. InUse' = IF n < Len(InUse) THEN SubSeq(InUse, 1, n) ELSE InUse
    BY <1>0, <2>1, <2>3
  <2>5. ArrayContents!Truncate
    BY <2>1, <2>4 DEF ArrayContents!Truncate, ArrayContents!First
  <2> QED
    BY <2>3, <2>5
<1>10. ASSUME NEW n \in 0 .. MaxCount, ArrayReserve(n)
       PROVE  ArrayShape' /\ ArrayContents!Next
  <2>1. ArrayShape' /\ InUse' = InUse
    BY <1>10, ReservedArray
  <2>2. request' = <<"reserve", n>> /\ result' = "ERR_None" /\ returned' = <<>>
    BY <1>10 DEF ArrayReserve
  <2>3. ArrayContents!Reserve
    BY <2>1, <2>2 DEF ArrayContents!Reserve
  <2> QED
    BY <2>1, <2>3
<1>11. ASSUME NEW n \in 0 .. MaxCount, ArrayReserveNoMemory(n)
       PROVE  ArrayShape' /\ ArrayContents!Next
  BY <1>2, <1>11 DEF ArrayReserveNoMemory
<1>12. CASE ArrayPopBack
  <2>1. /\ elems' = elems /\ arCapacity' = arCapacity
        /\ count' = (IF count > 0 THEN count - 1 ELSE 0)
        /\ request' = <<"pop", 0>> /\ result' = "ERR_None" /\ returned' = <<>>
    BY <1>12 DEF ArrayPopBack
  <2>2. count' \in 0 .. count
    BY <1>0, <2>1
  <2>3. ArrayShape' /\ InUse' = SubSeq(InUse, 1, count')
    BY <2>1, <2>2, CutArray
  <2>4. InUse = <<>> <=> count = 0
    BY <1>0, InUseTyped, EmptySeq
  <2>5. InUse' = IF InUse = <<>> THEN <<>> ELSE SubSeq(InUse, 1, Len(InUse) - 1)
    <3>1. CASE count = 0
      BY <2>1, <2>3, <2>4, <3>1, SubSeqEmpty
    <3>2. CASE count # 0
      BY <1>0, <2>1, <2>3, <2>4, <3>2
    <3> QED
      BY <3>1, <3>2
  <2>6. ArrayContents!PopBack
    BY <2>1, <2>5 DEF ArrayContents!PopBack, ArrayContents!First
  <2> QED
    BY <2>3, <2>6
<1>13. CASE ArrayDeinit
  <2>1. /\ elems' = <<>> /\ count' = 0 /\ arCapacity' = 0
        /\ request' = <<"deinit", 0>> /\ result' = "ERR_None" /\ returned' = InUse
    BY <1>13 DEF ArrayDeinit
  <2>2. ArrayShape' /\ InUse' = <<>>
    BY <1>0, <2>1 DEF ArrayShape, InUse
  <2>3. ArrayContents!End
    BY <2>1, <2>2 DEF ArrayContents!End
  <2> QED
    BY <2>2, <2>3
<1> QED
  <2>1. CASE \E v \in Values \cup {Stale} :
               ArrayPushBack(v) \/ ArrayPushBackGrows(v) \/ ArrayPushBackNoMemory(v)
    BY <1>1, <1>3, <2>1 DEF Cells
  <2>2. CASE \E i \in 1 .. MaxCount :
               \/ \E v \in Values : ArraySet(i, v) \/ ArraySetBeyond(i, v)
               \/ ArrayGet(i) \/ ArrayGetBeyond(i) \/ ArraySwapAndPop(i)
    BY <1>4, <1>5, <1>6, <1>7, <2>2
  <2>3. CASE \E n \in 0 .. MaxCount :
               \/ ArrayShiftLeft(n) \/ ArrayClearIndexAndAbove(n)
               \/ ArrayReserve(n) \/ ArrayReserveNoMemory(n)
    BY <1>8, <1>9, <1>10, <1>11, <2>3
  <2> QED
    BY <1>12, <1>13, <2>1, <2>2, <2>3 DEF ArrayNext

-----------------------------------------------------------------------------
(* The behaviours *)

\* Each buffer has its shape, whatever was called.
Inv == StrInv /\ ArrayShape

LEMMA InitInv ==
  Init => Inv /\ StringContents!Init /\ ArrayContents!Init
<1> SUFFICES ASSUME Init PROVE Inv /\ StringContents!Init /\ ArrayContents!Init
  OBVIOUS
<1> USE DEF Init, StrInit, ArrayInit
<1>1. StrInv
  BY StringAssumption DEF StrInv, StrShape, StrAlone
<1>2. ArrayShape
  BY ArrayAssumption DEF ArrayShape
<1>3. Text = <<>> /\ InUse = <<>>
  BY DEF Text, InUse
<1>4. StringContents!Init /\ ArrayContents!Init
  BY <1>3 DEF StringContents!Init, ArrayContents!Init
<1> QED
  BY <1>1, <1>2, <1>4 DEF Inv

\* every step keeps the shapes, and is a step of both contents or none
LEMMA NextInv ==
  Inv /\ [Next]_vars
    => /\ Inv'
       /\ [CStringStep]_vars
       /\ [StringContents!Next]_(StringContents!vars)
       /\ [ArrayContents!Next]_(ArrayContents!vars)
<1> SUFFICES ASSUME Inv, [Next]_vars
             PROVE  /\ Inv'
                    /\ [CStringStep]_vars
                    /\ [StringContents!Next]_(StringContents!vars)
                    /\ [ArrayContents!Next]_(ArrayContents!vars)
  OBVIOUS
<1> USE DEF StringContents!vars, ArrayContents!vars
<1>1. ASSUME UNCHANGED strVars
      PROVE  StrShape' /\ UNCHANGED (StringContents!vars)
  BY <1>1 DEF strVars, Text, StrShape, Inv, StrInv
<1>2. ASSUME UNCHANGED arVars
      PROVE  ArrayShape' /\ UNCHANGED (ArrayContents!vars)
  BY <1>2 DEF arVars, InUse, ArrayShape, Inv
<1>3. CASE UNCHANGED vars
  <2>1. UNCHANGED strVars /\ UNCHANGED arVars /\ UNCHANGED under
    BY <1>3 DEF vars
  <2>2. StrAlone'
    BY <2>1 DEF Inv, StrInv, StrAlone, strVars
  <2> QED
    BY <1>1, <1>2, <1>3, <2>1, <2>2 DEF Inv, StrInv
<1>4. CASE under = "String" /\ under' = under /\ StrNext /\ UNCHANGED arVars
  <2>1. StrShape' /\ CStringStep /\ StringContents!Next
    BY <1>4, StringStep DEF Inv, StrInv
  <2>2. StrAlone'
    BY <1>4 DEF StrAlone
  <2> QED
    BY <1>2, <1>4, <2>1, <2>2 DEF Inv, StrInv
<1>5. CASE under = "SimpleString" /\ under' = under /\ SstrNext /\ UNCHANGED arVars
  <2>1. UNCHANGED <<data, length, capacity, asked, answer>>
    BY <1>5 DEF SstrNext, SstrCreate, SstrFromFile
  <2>2. StrShape' /\ UNCHANGED (StringContents!vars)
    BY <2>1 DEF Text, StrShape, Inv, StrInv
  <2>3. asked = <<"init", 0>> /\ StrAlone'
    BY <1>5, <2>1 DEF Inv, StrInv, StrAlone
  <2>4. CStringStep
    BY <2>1, <2>3 DEF CStringStep, Writers
  <2> QED
    BY <1>2, <1>5, <2>2, <2>3, <2>4 DEF Inv, StrInv
<1>6. CASE under = "Array" /\ under' = under /\ ArrayNext /\ UNCHANGED strVars
  <2>1. ArrayShape' /\ ArrayContents!Next
    BY <1>6, ArrayStep DEF Inv
  <2>2. asked' = asked
    BY <1>6 DEF strVars
  <2>3. asked = <<"init", 0>> /\ StrAlone'
    BY <1>6, <2>2 DEF Inv, StrInv, StrAlone
  <2>4. CStringStep
    BY <2>2, <2>3 DEF CStringStep, Writers
  <2> QED
    BY <1>1, <1>6, <2>1, <2>3, <2>4 DEF Inv, StrInv
<1> QED
  BY <1>3, <1>4, <1>5, <1>6 DEF Next

\* The blocks are as large as the buffers take them for (str_realloc, array_realloc), with the
\* text and its null, and the elements in use, inside.
THEOREM AlwaysWithinBlock == Spec => []WithinBlock
<1>1. Inv => WithinBlock
  BY DEF Inv, StrInv, StrShape, ArrayShape, WithinBlock
<1>2. Spec => []Inv
  BY InitInv, NextInv, PTL DEF Spec
<1> QED
  BY <1>1, <1>2, PTL

\* The buffer of a String that was just written, by str_append, str_set or a file, is as a
\* C string the text it counts; an append that fails leaves it so if it was so before.
THEOREM CStringIsTheText == Spec => CStringIsText
<1>1. [CStringStep]_vars
      => [ asked'[1] \in Writers
             => \/ CString(data') = Text'
                \/ answer' # "ERR_None" /\ (asked'[1] = "extend" => CString(data) # Text) ]_vars
  BY DEF CStringStep
<1>2. Spec => []Inv
  BY InitInv, NextInv, PTL DEF Spec
<1> QED
  BY <1>1, <1>2, NextInv, PTL DEF Spec, CStringIsText

\* String and Array implement the sequence their callers take them for: what every call
\* of eqp_string.c and eqp_array.c does to the block, or fails to do, is what it promises.
THEOREM ImplementsContents == Spec => ContentsAreKept
<1>1. Spec => []Inv
  BY InitInv, NextInv, PTL DEF Spec
<1> QED
  BY <1>1, InitInv, NextInv, PTL
  DEF Spec, ContentsAreKept, StringContents!Spec, ArrayContents!Spec
=============================================================================
