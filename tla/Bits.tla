-------------------------------- MODULE Bits --------------------------------
(***************************************************************************)
(* bit.c on words of Width bits, 32 in the code: a word is a number below  *)
(* 2^Width, and its bits are a set of positions.                           *)
(***************************************************************************)
EXTENDS Naturals, FiniteSetsExt

CONSTANT
  Width        \* bits of a uint32_t

ASSUME WidthAssumption == Width \in Nat /\ \E r \in 1 .. Width : Width = 2 ^ r

Words == 0 .. 2 ^ Width - 1

Bits(n)  == {i \in 0 .. Width - 1 : (n \div 2 ^ i) % 2 = 1}
Word(B)  == CHOOSE n \in Words : Bits(n) = B
Wrap(n)  == n % 2 ^ Width

\* n |= n >> k
Smear(n, k) == Word(Bits(n) \cup {i - k : i \in {j \in Bits(n) : j >= k}})

\* as many shifts as the code has, by 1, 2, 4, ... below Width
Rounds == CHOOSE r \in 1 .. Width : Width = 2 ^ r
Smeared(n) ==
  LET smeared[r \in 0 .. Rounds] ==
        IF r = 0 THEN n ELSE Smear(smeared[r - 1], 2 ^ (r - 1))
  IN smeared[Rounds]

\* bit_is_pow2
IsPow2(n) == n # 0 /\ Bits(n) \cap Bits(n - 1) = {}

\* bit_next_pow2_u32
NextPow2(n) == Wrap(Smeared(Wrap(n + 2 ^ Width - 1)) + 1)

\* bit_pow2_greater_than_u32
Pow2GreaterThan(n) == IF IsPow2(n) THEN Wrap(2 * n) ELSE NextPow2(n)

\* bit_pow2_greater_or_equal_u32
Pow2GreaterOrEqual(n) == IF IsPow2(n) THEN n ELSE NextPow2(n)

-----------------------------------------------------------------------------
Powers == {2 ^ i : i \in 0 .. Width - 1}
LeastPower(n, Holds(_)) ==
  LET p == {q \in Powers : Holds(q)} IN IF p = {} THEN 0 ELSE Min(p)

\* What the functions of bit.c promise: the least power of two above the
\* argument, or not below it, where a word holds one; 0 where it does not,
\* and, as the zero has no bit to start from, for 0.
PowersAreLeast ==
  /\ \A n \in Words \ {0} :
       /\ Pow2GreaterThan(n)    = LeastPower(n, LAMBDA q : q > n)
       /\ Pow2GreaterOrEqual(n) = LeastPower(n, LAMBDA q : q >= n)
  /\ Pow2GreaterThan(0) = 0
  /\ Pow2GreaterOrEqual(0) = 0
=============================================================================
