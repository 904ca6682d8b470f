------------------------------- MODULE Word64 -------------------------------
(* Unsigned 64-bit words of C++ as eight bytes, least significant first, so *)
(* that TLC's 32-bit integers can carry them, and the high half of their    *)
(* 128-bit product (detail/mul_hi.hpp).                                     *)
EXTENDS Integers, Sequences

Bytes == 1..8
Word  == [Bytes -> 0..255]

\* The bytes of a sequence of column sums, each carrying into the next.
Carried(cols) ==
    LET Digit256(bytes, sum) == [carry |-> sum \div 256, bytes |-> Append(bytes, sum % 256)]
        After(before, col) == Digit256(before.bytes, col + before.carry)
        step[i \in 0..Len(cols)] ==
          IF i = 0 THEN [carry |-> 0, bytes |-> <<>>] ELSE After(step[i - 1], cols[i])
    IN  step[Len(cols)].bytes

\* uint64_t arithmetic wraps. A TLC integer of either sign becomes a word.
ToWord(n)   == Carried([i \in Bytes |-> IF i = 1 THEN n ELSE 0])
Plus(a, b)  == Carried([i \in Bytes |-> a[i] + b[i]])
Minus(a, b) == Carried([i \in Bytes |-> a[i] - b[i]])

\* All sixteen bytes of a product.
Product(a, b) ==
    LET column(k) ==
          LET sum[i \in 0..8] ==
                IF i = 0 THEN 0
                ELSE sum[i - 1] + (IF k - i \in 0..7 THEN a[i] * b[k - i + 1] ELSE 0)
          IN  sum[8]
    IN  Carried([k \in 1..16 |-> column(k)])

\* detail::mul_shift_u64(), with or without the 128-bit type of the compiler.
mul_shift_u64(a, b) == SubSeq(Product(a, b), 9, 16)

\* Division by a small number, from the most significant byte down.
Quotient(a, n) ==
    LET Place(bytes, part) == [rest |-> part % n, bytes |-> <<part \div n>> \o bytes]
        After(before, byte) == Place(before.bytes, before.rest * 256 + byte)
        step[i \in 0..8] ==
          IF i = 0 THEN [rest |-> 0, bytes |-> <<>>] ELSE After(step[i - 1], a[9 - i])
    IN  step[8].bytes

\* A word as a TLC integer: the low 31 bits of it, or, when the word is a small
\* negative int64_t, that number.
ToInt(a) ==
    a[1] + 256 * a[2] + 65536 * a[3]
      + 16777216 * (IF a[8] > 127 THEN a[4] - 256 ELSE a[4])
=============================================================================
