------------------------------ MODULE RingSize ------------------------------
(***************************************************************************)
(* The size x_ring_create gives a ring: the count, rounded up to a power   *)
(* of two in unsigned long and stored in an unsigned int.                  *)
(***************************************************************************)
EXTENDS Integers, FunctionCall

CONSTANTS IntBits,   \* bits of an unsigned int
          LongBits   \* bits of an unsigned long

ASSUME SizeAssumption == IntBits \in Nat \ {0} /\ LongBits \in Nat /\ IntBits <= LongBits

\* The powers of two a word has room for, and the one it has not.
PowerOf2[k \in 0 .. LongBits] == IF k = 0 THEN 1 ELSE 2 * PowerOf2[k - 1]

UInts == 0 .. PowerOf2[IntBits] - 1

Bit(n, k) == (n \div PowerOf2[k]) % 2

\* m & n, as the sum of the bits that both have.
And(m, n) ==
    LET low[k \in 0 .. LongBits] ==
            IF k = 0 THEN 0
            ELSE low[k - 1] + (IF Bit(m, k - 1) = 1 /\ Bit(n, k - 1) = 1 THEN PowerOf2[k - 1] ELSE 0)
    IN  low[LongBits]

\* n & (n - 1), where 0 - 1 is the largest unsigned long.
WithoutLowest(n) == And(n, (n - 1) % PowerOf2[LongBits])

is_power_of_2(n) == n # 0 /\ WithoutLowest(n) = 0

\* Mutant of TopBit: the loop looks at the bits from below.
TopBitFromBelow(n) ==
    CHOOSE k \in 0 .. LongBits - 1 : /\ And(PowerOf2[k], n) # 0
                                     /\ \A j \in 0 .. k - 1 : And(PowerOf2[j], n) = 0

\* The bit at which the loop, which begins with the highest one, ends.
TopBit(n) ==
    CHOOSE k \in 0 .. LongBits - 1 : /\ And(PowerOf2[k], n) # 0
                                     /\ \A j \in k + 1 .. LongBits - 1 : And(PowerOf2[j], n) = 0

roundup_power_of_two(n) ==
    IF WithoutLowest(n) = 0 THEN n
    ELSE PowerOf2[TopBit(n) + 1] % PowerOf2[LongBits]

\* ringbuf->size
CreatedSize(count) ==
    IF is_power_of_2(count) THEN count
    ELSE roundup_power_of_two(count) % PowerOf2[IntBits]

SizeInit == \E count \in UInts : given = <<"x_ring_create", count>>

-----------------------------------------------------------------------------
(* Properties                                                              *)

\* For every count up to half the range of an unsigned int the size is the
\* least power of two that is not smaller, and masking an index with size - 1
\* is the remainder by size, the form in which XRing has it (x_ring.c:52-54,
\* 67).  For 0, and for more than half the range, the size wraps to 0, and
\* there is no entry.
SizeCovers ==
    Given("x_ring_create") =>
        LET count == given[2]
            size  == CreatedSize(count)
        IN  IF count \in 1 .. PowerOf2[IntBits - 1]
            THEN /\ \E k \in 0 .. IntBits : size = PowerOf2[k]
                 /\ count <= size /\ size < 2 * count
                 /\ \A i \in UInts : And(i, size - 1) = i % size
            ELSE size = 0
=============================================================================
