------------------------- MODULE AufsGeometryProofs -------------------------
(***************************************************************************)
(* Facts about the arithmetic of AufsGeometry for all values: numbers made *)
(* of a quotient and a remainder are distinct, zones do not overlap.       *)
(***************************************************************************)
EXTENDS AufsGeometry, TLAPS

\* Products with larger factors are larger by at least the other factor.
LEMMA MulMono ==
  ASSUME NEW B \in Nat, NEW b \in Nat, NEW c \in Nat, b < c
  PROVE  b * B + B <= c * B
<1> DEFINE d == c - b - 1
<1>1. d \in Nat /\ c = b + 1 + d
  OBVIOUS
<1>2. c * B = b * B + B + d * B
  BY <1>1
<1>3. d * B \in Nat
  BY <1>1
<1>4. b * B \in Nat /\ c * B \in Nat
  OBVIOUS
<1> QED
  BY <1>2, <1>3, <1>4

\* Different bits of different map blocks have different numbers
\* (j += i * bits_per_block of both allocators).
LEMMA BitNumberInjective ==
  ASSUME NEW B \in Nat \ {0}, NEW b \in Nat, NEW c \in Nat,
         NEW x \in 0 .. B - 1, NEW y \in 0 .. B - 1,
         BitNumber(b, x, B) = BitNumber(c, y, B)
  PROVE  b = c /\ x = y
<1>1. b * B + x = c * B + y
  BY DEF BitNumber
<1>2. b * B \in Nat /\ c * B \in Nat
  OBVIOUS
<1>3. ~(b < c)
  <2> SUFFICES ASSUME b < c PROVE FALSE
    OBVIOUS
  <2>1. b * B + B <= c * B
    BY MulMono
  <2> QED
    BY <1>1, <1>2, <2>1
<1>4. ~(c < b)
  <2> SUFFICES ASSUME c < b PROVE FALSE
    OBVIOUS
  <2>1. c * B + B <= b * B
    BY MulMono
  <2> QED
    BY <1>1, <1>2, <2>1
<1>5. b = c
  BY <1>3, <1>4
<1> QED
  BY <1>1, <1>2, <1>5

\* A quotient and its divisor make at most the number divided, and miss it by less
\* than the divisor.
LEMMA Quotient ==
  ASSUME NEW n \in Nat, NEW a \in Nat \ {0}
  PROVE  /\ n \div a \in Nat /\ n % a \in 0 .. a - 1
         /\ (n \div a) * a \in Nat /\ n = (n \div a) * a + (n % a)
         /\ (n \div a) * a <= n /\ n < (n \div a) * a + a
<1>1. n \div a \in Int /\ n % a \in 0 .. a - 1 /\ n = a * (n \div a) + (n % a)
  OBVIOUS
<1>2. n \div a \in Nat
  OBVIOUS
<1>3. a * (n \div a) = (n \div a) * a /\ a * (n \div a) \in Nat
  BY <1>2
<1> QED
  BY <1>1, <1>2, <1>3

\* As many blocks as integer_round_up_division says hold all the objects.
LEMMA RoundUpHolds ==
  ASSUME NEW n \in Nat, NEW a \in Nat \ {0}
  PROVE  /\ integer_round_up_division(n, a) \in Nat
         /\ integer_round_up_division(n, a) * a \in Nat
         /\ integer_round_up_division(n, a) * a >= n
<1> DEFINE m == n + a - 1
<1>1. m \in Nat /\ m = n + a - 1
  OBVIOUS
<1> HIDE DEF m
<1>2. m \div a \in Nat /\ (m \div a) * a \in Nat /\ m < (m \div a) * a + a
  BY <1>1, Quotient
<1>3. integer_round_up_division(n, a) = m \div a
  BY <1>1 DEF integer_round_up_division
<1> QED
  BY <1>1, <1>2, <1>3

\* Rounding up to the alignment yields at least the number rounded.
LEMMA AlignUpBound ==
  ASSUME NEW m \in Nat, NEW a \in Nat \ {0}
  PROVE  AlignUp(m, a) \in Nat /\ AlignUp(m, a) >= m
  BY RoundUpHolds DEF AlignUp

\* Rounding up is monotonic.
LEMMA AlignUpMono ==
  ASSUME NEW m \in Nat, NEW k \in Nat, NEW a \in Nat \ {0}
  PROVE  AlignUp(m, a) <= AlignUp(m + k, a)
<1> DEFINE x == m + a - 1
           y == m + k + a - 1
<1>1. x \in Nat /\ y \in Nat /\ x <= y /\ x = m + a - 1 /\ y = m + k + a - 1
  OBVIOUS
<1> HIDE DEF x, y
<1>2. /\ x \div a \in Nat /\ y \div a \in Nat
      /\ (x \div a) * a \in Nat /\ (y \div a) * a \in Nat
      /\ (x \div a) * a <= x /\ y < (y \div a) * a + a
  BY <1>1, Quotient
<1>3. ~(y \div a < x \div a)
  <2> SUFFICES ASSUME y \div a < x \div a PROVE FALSE
    OBVIOUS
  <2>1. (y \div a) * a + a <= (x \div a) * a
    BY <1>2, MulMono
  <2> QED
    BY <1>1, <1>2, <2>1
<1>4. (x \div a) * a <= (y \div a) * a
  <2>1. CASE x \div a = y \div a
    BY <1>2, <2>1
  <2>2. CASE x \div a < y \div a
    <3>1. (x \div a) * a + a <= (y \div a) * a
      BY <1>2, <2>2, MulMono
    <3> QED
      BY <1>2, <3>1
  <2> QED
    BY <1>2, <1>3, <2>1, <2>2
<1>5. AlignUp(m, a) = (x \div a) * a /\ AlignUp(m + k, a) = (y \div a) * a
  BY <1>1 DEF AlignUp, integer_round_up_division
<1> QED
  BY <1>4, <1>5

\* aufs_new_zone never returns 0 for a zone: 0 always means failure.
LEMMA ZoneBlockPositive ==
  ASSUME NEW n \in Nat, NEW m \in Nat, NEW B \in Nat \ {0}, NEW a \in Nat \ {0}
  PROVE  /\ ZoneBlockNumber(n, m, B, a) \in Nat \ {0}
         /\ ZoneBlockNumber(n, m, B, a) >= m
<1>1. AlignUp(m + B, a) \in Nat /\ AlignUp(m + B, a) >= m + B
  BY AlignUpBound
<1>2. n * B \in Nat
  OBVIOUS
<1> QED
  BY <1>1, <1>2 DEF ZoneBlockNumber

\* Two zones do not overlap: the blocks of the one end before the other starts.
THEOREM ZonesDoNotOverlap ==
  ASSUME NEW n \in Nat, NEW k \in Nat, NEW m \in Nat, NEW B \in Nat \ {0},
         NEW a \in Nat \ {0}, n < k
  PROVE  ZoneBlockNumber(n, m, B, a) + B <= ZoneBlockNumber(k, m, B, a)
<1>1. AlignUp(m + B, a) \in Nat
  BY AlignUpBound
<1>2. n * B + B <= k * B
  BY MulMono
<1>3. n * B \in Nat /\ k * B \in Nat
  OBVIOUS
<1> QED
  BY <1>1, <1>2, <1>3 DEF ZoneBlockNumber

\* Different zones start at different blocks.
LEMMA ZoneBlockInjective ==
  ASSUME NEW n \in Nat, NEW k \in Nat, NEW m \in Nat, NEW B \in Nat \ {0},
         NEW a \in Nat \ {0},
         ZoneBlockNumber(n, m, B, a) = ZoneBlockNumber(k, m, B, a)
  PROVE  n = k
<1>1. ZoneBlockNumber(n, m, B, a) \in Nat /\ ZoneBlockNumber(k, m, B, a) \in Nat
  BY ZoneBlockPositive
<1>2. ~(n < k)
  BY <1>1, ZonesDoNotOverlap
<1>3. ~(k < n)
  BY <1>1, ZonesDoNotOverlap
<1> QED
  BY <1>2, <1>3
=============================================================================
