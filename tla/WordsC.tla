------------------------------ MODULE WordsC ------------------------------
(***************************************************************************)
(* What the operators of C mean on signed integers that wrap around; ** is *)
(* the power of the C-like shells.                                         *)
(***************************************************************************)
EXTENDS Words

\* The value of a binary operator of C, overflow wrapping around.
Meant(op, a, b) ==
    CASE op = "+" -> Wrap(a + b)
      [] op = "-" -> Wrap(a - b)
      [] op = "*" -> Wrap(a * b)
      [] op = "/" -> Wrap(Quotient(a, b))
      [] op = "%" -> Remainder(a, b)
      [] op = "**" -> IF b < 0 THEN 0 ELSE Wrap(Raised(a, b))
      [] op = "<<" -> IF b < 0 THEN 0 ELSE Wrap(a * TwoTo(b))
      [] op = ">>" -> IF b < 0 THEN (IF a < 0 THEN -1 ELSE 0) ELSE a \div TwoTo(b)
      [] op = "&" -> Wrap(FromBits({i \in Bits : Bit(a, i) = 1 /\ Bit(b, i) = 1}))
      [] op = "|" -> Wrap(FromBits({i \in Bits : Bit(a, i) = 1 \/ Bit(b, i) = 1}))
      [] op = "^" -> Wrap(FromBits({i \in Bits : Bit(a, i) # Bit(b, i)}))
      [] op = "==" -> Truth(a = b)
      [] op = "!=" -> Truth(a # b)
      [] op = "<" -> Truth(a < b)
      [] op = "<=" -> Truth(a <= b)
      [] op = ">" -> Truth(a > b)
      [] op = ">=" -> Truth(a >= b)

MeantUnary(op, a) ==
    CASE op = "+" -> a
      [] op = "-" -> Wrap(-a)
      [] op = "~" -> -a - 1
      [] op = "!" -> Truth(a = 0)
=============================================================================
