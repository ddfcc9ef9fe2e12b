---------------------------- MODULE Ipv6Addition ----------------------------
(***************************************************************************)
(* ipv6_add.c: a signed number is added to an address of four words, the   *)
(* last word first, with a carry or a borrow from word to word.            *)
(***************************************************************************)
EXTENDS Integers, FunctionCall

CONSTANT Base   \* the number of values of a uint32_t, and of the int added

ASSUME BaseAssumption == Base \in Nat \ {0, 1}

Addresses == [1 .. 4 -> 0 .. Base - 1]
Addends   == -(Base \div 2) .. Base \div 2 - 1

\* Mutant of NextAddend: a borrow is taken for the rest of a carry.
NextAddendFloored(tmp) == IF tmp < 0 THEN 0 ELSE tmp \div Base

\* n = -1 for a negative sum, else n = (tmp >> 32) & 0xffffffff
NextAddend(tmp) == IF tmp < 0 THEN -1 ELSE (tmp \div Base) % Base

\* One iteration.  tmp has 64 bits and does not overflow.  A sum that is
\* neither negative nor above the largest word ends the loop.
AddToWord(r, i) ==
    IF r.done THEN r
    ELSE LET tmp == r.addr[i] + r.n
         IN  [addr |-> [r.addr EXCEPT ![i] = tmp % Base],
              n    |-> NextAddend(tmp),
              done |-> tmp \in 0 .. Base - 1]

ipv6_addition(ipaddr, n) ==
    LET begun == [addr |-> ipaddr, n |-> n, done |-> n = 0]
    IN  AddToWord(AddToWord(AddToWord(AddToWord(begun, 4), 3), 2), 1).addr

-----------------------------------------------------------------------------
\* The number an address stands for.
Number(a) == ((a[1] * Base + a[2]) * Base + a[3]) * Base + a[4]

AdditionInit == \E a \in Addresses, n \in Addends : given = <<"ipv6_addition", a, n>>

\* The result is the sum modulo 2^128, for negative numbers too: a borrow or
\* a carry passes words of zeros or of ones, and the one out of the first word
\* is dropped (ipv6_add.c:16-38).
AdditionModulo ==
    Given("ipv6_addition") =>
        Number(ipv6_addition(given[2], given[3]))
            = (Number(given[2]) + given[3]) % (Base * Base * Base * Base)
=============================================================================
