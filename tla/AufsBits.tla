------------------------------ MODULE AufsBits ------------------------------
(***************************************************************************)
(* user/bit_iterator.hpp: a random access iterator over the bits of a      *)
(* buffer, and the algorithms that mkfs runs on it.                        *)
(*                                                                         *)
(* An iterator is the byte it points into, counted from the start of the   *)
(* buffer, and the bit within it.  Memory is the set of the bits that are  *)
(* one.  Distances are ptrdiff_t, Bits is size_t: advance computes in      *)
(* size_t, of which Words is the number of values.                         *)
(***************************************************************************)
EXTENDS Integers

CONSTANTS
  Bits,   \* bits in a BitType, 8
  Words   \* 2^64

ASSUME BitsAssumption ==
  /\ Bits \in Nat \ {0} /\ Words \in Nat \ {0} /\ Words % Bits = 0

Iterator(data, offset) == [m_data |-> data, m_offset |-> offset]

\* The bit an iterator points to (operator*), counted from the buffer's start.
BitOf(it) == Bits * it.m_data + it.m_offset

increment(it) ==
  IF it.m_offset = Bits - 1 THEN Iterator(it.m_data + 1, 0)
                            ELSE Iterator(it.m_data, it.m_offset + 1)

decrement(it) ==
  IF it.m_offset = 0 THEN Iterator(it.m_data - 1, Bits - 1)
                     ELSE Iterator(it.m_data, it.m_offset - 1)

\* n / Bits and n % Bits are unsigned, so the correction for a negative rest is
\* never made and a distance to before the byte leads far behind the buffer.
\* The variant forgets the bit it starts from.
advanceFromByte(it, d) ==
  LET n == d % Words IN Iterator(it.m_data + n \div Bits, n % Bits)
advance(it, d) ==
  LET n == (it.m_offset + d) % Words IN Iterator(it.m_data + n \div Bits, n % Bits)

\* operator- of two iterators, operator<.
Distance(l, r) == Bits * (l.m_data - r.m_data) + l.m_offset - r.m_offset
Before(l, r) ==
  l.m_data < r.m_data \/ (l.m_data = r.m_data /\ l.m_offset < r.m_offset)

\* The bits that ++ visits from first, up to and without last: increment moves by
\* one bit (AufsBitsProofs).
Walk(first, last) == BitOf(first) .. BitOf(last) - 1

\* std::fill assigns to every BitReference in between.
Fill(memory, first, last, v) ==
  IF v THEN memory \cup Walk(first, last) ELSE memory \ Walk(first, last)

\* std::find: the bits it may answer with, in a buffer that ends at end.  Behind the
\* buffer is memory of the heap, with any contents.
Find(memory, first, end, last, v) ==
  LET hits == {b \in Walk(first, end) : (b \in memory) = v}
  IN IF hits # {} THEN {b \in hits : \A a \in hits : b <= a} ELSE BitOf(end) .. BitOf(last)
-----------------------------------------------------------------------------
\* Advancing by d is d increments, or -d decrements, and the distance back is d.
MovesBy(it, d) ==
  /\ BitOf(advance(it, d)) = BitOf(it) + d
  /\ Distance(advance(it, d), it) = d
  /\ BitOf(increment(it)) = BitOf(it) + 1 /\ BitOf(decrement(it)) = BitOf(it) - 1
=============================================================================
