--------------------------- MODULE AufsBitsProofs ---------------------------
(***************************************************************************)
(* The bit iterator moves as a pointer does, for every byte size and every *)
(* size_t: ++ and -- by one bit, + by the distance, as long as it does not *)
(* lead to before the byte the iterator points into.                       *)
(***************************************************************************)
EXTENDS AufsBits, TLAPS

Iterators == [m_data : Int, m_offset : 0 .. Bits - 1]

\* A quotient and a rest make the number they come from.
LEMMA DivMod ==
  ASSUME NEW n \in Int, NEW b \in Nat \ {0}
  PROVE  /\ n \div b \in Int /\ n % b \in 0 .. b - 1
         /\ b * (n \div b) + (n % b) = n
  OBVIOUS

\* The bit and the distance of an iterator that keeps to its type.
LEMMA Positions ==
  ASSUME NEW it \in Iterators, NEW jt \in Iterators
  PROVE  /\ BitOf(it) \in Int
         /\ Distance(it, jt) = BitOf(it) - BitOf(jt)
  BY BitsAssumption DEF Iterators, BitOf, Distance

\* operator++ and operator-- visit the next and the previous bit: std::fill and
\* std::find look at every bit between their ends, once.
THEOREM StepsByOne ==
  ASSUME NEW it \in Iterators
  PROVE  /\ increment(it) \in Iterators /\ BitOf(increment(it)) = BitOf(it) + 1
         /\ decrement(it) \in Iterators /\ BitOf(decrement(it)) = BitOf(it) - 1
<1>1. PICK D \in Int, o \in 0 .. Bits - 1 : it = [m_data |-> D, m_offset |-> o]
  BY DEF Iterators
<1>2. /\ Bits \in Nat \ {0} /\ Bits * (D + 1) = Bits * D + Bits
      /\ Bits * (D - 1) = Bits * D - Bits
  BY BitsAssumption
<1>3. increment(it) \in Iterators /\ BitOf(increment(it)) = BitOf(it) + 1
  <2>1. CASE o = Bits - 1
    BY <1>1, <1>2, <2>1 DEF Iterators, increment, Iterator, BitOf
  <2>2. CASE o # Bits - 1
    BY <1>1, <1>2, <2>2 DEF Iterators, increment, Iterator, BitOf
  <2> QED  BY <2>1, <2>2
<1>4. decrement(it) \in Iterators /\ BitOf(decrement(it)) = BitOf(it) - 1
  <2>1. CASE o = 0
    BY <1>1, <1>2, <2>1 DEF Iterators, decrement, Iterator, BitOf
  <2>2. CASE o # 0
    BY <1>1, <1>2, <2>2 DEF Iterators, decrement, Iterator, BitOf
  <2> QED  BY <2>1, <2>2
<1> QED  BY <1>3, <1>4

\* operator+ moves by the distance, and operator- finds it back, for every distance
\* that mkfs uses: to or behind the start of the byte, and below 2^64.
THEOREM AdvanceMoves ==
  ASSUME NEW it \in Iterators, NEW d \in Int,
         it.m_offset + d >= 0, it.m_offset + d < Words
  PROVE  advance(it, d) \in Iterators /\ MovesBy(it, d)
<1>1. PICK D \in Int, o \in 0 .. Bits - 1 : it = [m_data |-> D, m_offset |-> o]
  BY DEF Iterators
<1> DEFINE n == o + d
           q == n \div Bits
           r == n % Bits
<1>2. n \in Int /\ Bits \in Nat \ {0} /\ n >= 0 /\ n < Words /\ Words \in Nat \ {0}
  BY <1>1, BitsAssumption
<1>3. n % Words = n
  BY <1>2
<1>4. advance(it, d) = [m_data |-> D + q, m_offset |-> r]
  BY <1>1, <1>3 DEF advance, Iterator
<1>5. q \in Int /\ r \in 0 .. Bits - 1 /\ Bits * q + r = n
  BY <1>2, DivMod
<1>6. Bits * (D + q) = Bits * D + Bits * q
  BY <1>2, <1>5
<1> HIDE DEF q, r
<1>7. advance(it, d) \in Iterators
  BY <1>4, <1>5 DEF Iterators
<1>8. BitOf(advance(it, d)) = BitOf(it) + d
  BY <1>1, <1>2, <1>4, <1>5, <1>6 DEF BitOf
<1>9. Distance(advance(it, d), it) = d
  BY <1>7, <1>8, Positions
<1> QED  BY <1>7, <1>8, <1>9, StepsByOne DEF MovesBy

\* To before its byte it does not: the correction of the negative rest is dead code,
\* and the iterator ends a whole address space of bits too far.
THEOREM AdvanceBackFails ==
  ASSUME NEW it \in Iterators, NEW d \in Int,
         it.m_offset + d < 0, it.m_offset + d >= -Words
  PROVE  BitOf(advance(it, d)) = BitOf(it) + d + Words
<1>1. PICK D \in Int, o \in 0 .. Bits - 1 : it = [m_data |-> D, m_offset |-> o]
  BY DEF Iterators
<1> DEFINE n == o + d + Words
           q == n \div Bits
           r == n % Bits
<1>2. /\ n \in Int /\ Bits \in Nat \ {0} /\ n >= 0 /\ n < Words /\ Words \in Nat \ {0}
      /\ o + d \in Int
  BY <1>1, BitsAssumption
<1>3. (o + d) % Words = n
  <2>1. /\ Words * ((o + d) \div Words) + ((o + d) % Words) = o + d
        /\ (o + d) % Words \in 0 .. Words - 1 /\ (o + d) \div Words \in Int
    BY <1>2, DivMod
  <2>2. (o + d) \div Words = -1
    BY <1>2
  <2> QED  BY <1>2, <2>1, <2>2
<1>4. advance(it, d) = [m_data |-> D + q, m_offset |-> r]
  BY <1>1, <1>3 DEF advance, Iterator
<1>5. q \in Int /\ r \in 0 .. Bits - 1 /\ Bits * q + r = n
  BY <1>2, DivMod
<1>6. Bits * (D + q) = Bits * D + Bits * q
  BY <1>2, <1>5
<1> HIDE DEF q, r
<1> QED  BY <1>1, <1>2, <1>4, <1>5, <1>6 DEF BitOf
=============================================================================
