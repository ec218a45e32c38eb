------------------------------- MODULE Words -------------------------------
(***************************************************************************)
(* The integers of shell arithmetic: long long, of Width bits, with the    *)
(* conversions to unsigned and back that make overflow wrap around         *)
(* (interpreter/arithmetic_evaluator.cpp).                                 *)
(***************************************************************************)
EXTENDS Integers

CONSTANT Width \* bits of a long long

ASSUME WidthAssumption == Width \in Nat \ {0, 1}

\* b to the n.
Raised(b, n) ==
    LET power[k \in 0 .. n] == IF k = 0 THEN 1 ELSE b * power[k - 1]
    IN power[n]
TwoTo(n) == Raised(2, n)

Modulus == TwoTo(Width)
Least == -TwoTo(Width - 1)
Word == Least .. (-Least - 1)

to_uint64(a) == a % Modulus
from_uint64(u) == IF u < -Least THEN u ELSE u - Modulus
Wrap(n) == from_uint64(n % Modulus)

wrap_add(a, b) == Wrap(to_uint64(a) + to_uint64(b))
wrap_sub(a, b) == Wrap(to_uint64(a) - to_uint64(b))
wrap_mul(a, b) == Wrap(to_uint64(a) * to_uint64(b))

\* Bit i of the two's complement of a, and the word with these bits; &, | and ^ of C++.
Bits == 0 .. Width - 1
Bit(a, i) == (a \div TwoTo(i)) % 2
FromBits(B) ==
    LET sum[n \in 0 .. Width] ==
            IF n = 0 THEN 0 ELSE sum[n - 1] + (IF n - 1 \in B THEN TwoTo(n - 1) ELSE 0)
    IN sum[Width]
bit_and(u, v) == FromBits({i \in Bits : Bit(u, i) = 1 /\ Bit(v, i) = 1})
bit_or(u, v) == FromBits({i \in Bits : Bit(u, i) = 1 \/ Bit(v, i) = 1})
bit_xor(u, v) == FromBits({i \in Bits : Bit(u, i) # Bit(v, i)})

Truth(b) == IF b THEN 1 ELSE 0

valid_shift_amount(n) == n \in 0 .. Width - 1

\* Division of C++: the quotient is truncated, the remainder has the dividend's sign.
Magnitude(a) == IF a < 0 THEN -a ELSE a
Quotient(a, b) ==
    IF (a < 0) = (b < 0) THEN Magnitude(a) \div Magnitude(b) ELSE -(Magnitude(a) \div Magnitude(b))
Remainder(a, b) == a - b * Quotient(a, b)
=============================================================================
