-------------------------- MODULE ArithmeticProofs --------------------------
(***************************************************************************)
(* What holds of shell arithmetic for words of any width, any variables    *)
(* and values, any expressions and a cache of any size.                    *)
(*                                                                         *)
(* The operators give what C gives: a sum, product or power of words is    *)
(* computed in unsigned words, each of them alike the integer it stands    *)
(* for modulo 2^Width (Alike), so that it wraps to the same.               *)
(*                                                                         *)
(* The loops of the evaluator are functions of how often they have been    *)
(* round.  LoopExists gives them, LoopStays keeps an invariant through     *)
(* them: the types of tokenize, handle_increment_operators,                *)
(* infix_to_postfix and evaluate_postfix, and for a cacheable text that    *)
(* what is read is plain: numbers as they are written, no assignment and   *)
(* no increment (Plainly, Plain).                                          *)
(*                                                                         *)
(* A call that holds the tokens of a cacheable text holds plain ones, and  *)
(* one that waits to assign is about a text that is not cacheable (Sound). *)
(* So only postfix forms of plain tokens come into the cache (CacheSound), *)
(* and those depend on the text alone.                                     *)
(***************************************************************************)
EXTENDS ArithmeticExpansion, WordsC, SequenceTheorems, WellFoundedInduction, TLAPS

-----------------------------------------------------------------------------
(* Counting and loops                                                      *)

\* A nonempty set of natural numbers has a least one.
LEMMA HasLeast ==
    ASSUME NEW N \in SUBSET Nat, N # {}
    PROVE  \E m \in N : \A k \in N : m <= k
<1> DEFINE lower == OpToRel(<, Nat)
<1>1. IsWellFoundedOn(lower, Nat)
  BY NatLessThanWellFounded
<1>2. \A x, y \in Nat : x < y => <<x, y>> \in lower
  BY DEF OpToRel
<1> HIDE DEF lower
<1>3. PICK m \in N : \A k \in N : ~(<<k, m>> \in lower)
  BY <1>1, WFMin, Zenon
<1>4. \A k \in N : ~(k < m)
  BY <1>2, <1>3, Zenon
<1> QED BY <1>4

\* Induction up to n, with a set in place of a predicate.
LEMMA CountingUp ==
    ASSUME NEW n \in Nat, NEW N, 0 \in N, \A k \in 1 .. n : k - 1 \in N => k \in N
    PROVE  \A k \in 0 .. n : k \in N
<1> DEFINE missing == {k \in 0 .. n : k \notin N}
<1> SUFFICES ASSUME missing # {} PROVE FALSE
  OBVIOUS
<1>1. missing \in SUBSET Nat
  OBVIOUS
<1>2. PICK m \in missing : \A k \in missing : m <= k
  <2> HIDE DEF missing
  <2> QED BY <1>1, HasLeast
<1>3. m # 0 /\ m \in 1 .. n /\ m - 1 \in 0 .. n /\ ~(m <= m - 1)
  OBVIOUS
<1>4. m - 1 \in N
  BY <1>2, <1>3
<1> QED BY <1>3, <1>4

\* A loop whose round k takes x to turn[<<x, k>>], as a function of how often it has
\* been round.
Loops(f, n, start, turn) ==
    f = [k \in 0 .. n |-> IF k = 0 THEN start ELSE turn[<<f[k - 1], k>>]]

\* A loop that starts and turns inside a set stays inside it.
LEMMA LoopStays ==
    ASSUME NEW S, NEW n \in Nat, NEW start \in S, NEW turn \in [S \X (1 .. n) -> S],
           NEW f, Loops(f, n, start, turn)
    PROVE  f \in [0 .. n -> S]
<1> DEFINE N == {k \in 0 .. n : f[k] \in S}
<1>1. f = [k \in 0 .. n |-> IF k = 0 THEN start ELSE turn[<<f[k - 1], k>>]]
  BY DEF Loops
<1> HIDE DEF Loops
<1>2. 0 \in N
  BY <1>1
<1>3. ASSUME NEW k \in 1 .. n, k - 1 \in N PROVE k \in N
  <2>1. k \in 0 .. n /\ k # 0 /\ f[k] = turn[<<f[k - 1], k>>]
    BY <1>1
  <2>2. f[k - 1] \in S
    BY <1>3
  <2>3. <<f[k - 1], k>> \in S \X (1 .. n)
    BY <2>2
  <2>4. turn[<<f[k - 1], k>>] \in S
    BY <2>3
  <2> QED BY <2>1, <2>4
<1>4. \A k \in 0 .. n : f[k] \in S
  <2> HIDE DEF N
  <2>1. \A k \in 0 .. n : k \in N
    BY <1>2, <1>3, CountingUp
  <2> QED BY <2>1 DEF N
<1>5. f = [k \in 0 .. n |-> f[k]]
  BY <1>1, Zenon
<1> QED BY <1>4, <1>5

\* A loop that is defined by recursion over its turns exists.
LEMMA LoopExists ==
    ASSUME NEW S, NEW n \in Nat, NEW start \in S, NEW turn \in [S \X (1 .. n) -> S]
    PROVE  \E f : Loops(f, n, start, turn)
<1> DEFINE N == {m \in 0 .. n : \E f : Loops(f, m, start, turn)}
<1>1. 0 \in N
  <2> DEFINE f == [k \in 0 .. 0 |-> start]
  <2>1. \A k \in 0 .. 0 : k = 0
    OBVIOUS
  <2>2. f = [k \in 0 .. 0 |-> IF k = 0 THEN start ELSE turn[<<f[k - 1], k>>]]
    BY <2>1
  <2>3. Loops(f, 0, start, turn)
    <3> HIDE DEF f
    <3> QED BY <2>2 DEF Loops
  <2> HIDE DEF f
  <2> QED BY <2>3
<1>2. ASSUME NEW m \in 1 .. n, m - 1 \in N PROVE m \in N
  <2>1. PICK f : f = [k \in 0 .. m - 1 |-> IF k = 0 THEN start ELSE turn[<<f[k - 1], k>>]]
    BY <1>2 DEF Loops
  <2> DEFINE g == [k \in 0 .. m |-> IF k = m THEN turn[<<f[m - 1], m>>] ELSE f[k]]
  <2>2. g[0] = start
    <3>1. f[0] = start /\ 0 \in 0 .. m /\ 0 # m
      BY <2>1
    <3> QED BY <3>1
  <2>3. \A k \in 1 .. m : g[k] = turn[<<g[k - 1], k>>]
    <3> SUFFICES ASSUME NEW k \in 1 .. m PROVE g[k] = turn[<<g[k - 1], k>>]
      OBVIOUS
    <3>1. k - 1 \in 0 .. m /\ k - 1 # m /\ g[k - 1] = f[k - 1]
      OBVIOUS
    <3>2. CASE k = m
      <4>1. g[k] = turn[<<f[k - 1], k>>]
        BY <3>2
      <4> HIDE DEF g
      <4> QED BY <3>1, <4>1
    <3>3. CASE k # m
      <4>1. k \in 0 .. m - 1 /\ k # 0 /\ g[k] = f[k]
        BY <3>3
      <4>2. f[k] = turn[<<f[k - 1], k>>]
        BY <2>1, <4>1
      <4> HIDE DEF g
      <4> QED BY <3>1, <4>1, <4>2
    <3> QED BY <3>2, <3>3
  <2>4. g = [k \in 0 .. m |-> g[k]]
    OBVIOUS
  <2> HIDE DEF g
  <2>5. \A k \in 0 .. m : g[k] = IF k = 0 THEN start ELSE turn[<<g[k - 1], k>>]
    <3>1. \A k \in 0 .. m : k = 0 \/ k \in 1 .. m
      OBVIOUS
    <3> QED BY <2>2, <2>3, <3>1
  <2>6. Loops(g, m, start, turn)
    BY <2>4, <2>5 DEF Loops
  <2> QED BY <2>6
<1>3. \A m \in 0 .. n : m \in N
  <2> HIDE DEF N
  <2> QED BY <1>1, <1>2, CountingUp
<1> QED BY <1>3

-----------------------------------------------------------------------------
(* Powers                                                                  *)

\* The powers of b that Raised computes one from the other.
Powers(b, n) == CHOOSE p : p = [k \in 0 .. n |-> IF k = 0 THEN 1 ELSE b * p[k - 1]]

\* Raised is the last of them, each being b times the one before.
LEMMA PowersAre ==
    ASSUME NEW b \in Int, NEW n \in Nat
    PROVE  /\ Raised(b, n) = Powers(b, n)[n]
           /\ Powers(b, n)[0] = 1
           /\ \A k \in 1 .. n : Powers(b, n)[k] = b * Powers(b, n)[k - 1]
           /\ \A k \in 0 .. n : Powers(b, n)[k] \in Int
<1> DEFINE Body(p) == [k \in 0 .. n |-> IF k = 0 THEN 1 ELSE b * p[k - 1]]
           turn == [x \in Int \X (1 .. n) |-> b * x[1]]
<1>1. turn \in [Int \X (1 .. n) -> Int]
  OBVIOUS
<1>2. PICK f : Loops(f, n, 1, turn)
  <2>1. 1 \in Int
    OBVIOUS
  <2> HIDE DEF turn
  <2> QED BY <1>1, <2>1, LoopExists
<1>3. f \in [0 .. n -> Int]
  <2>1. 1 \in Int
    OBVIOUS
  <2> HIDE DEF turn
  <2> QED BY <1>1, <1>2, <2>1, LoopStays
<1>4. f = Body(f)
  <2>1. f = [k \in 0 .. n |-> IF k = 0 THEN 1 ELSE turn[<<f[k - 1], k>>]]
    <3> HIDE DEF turn
    <3> QED BY <1>2 DEF Loops
  <2>2. \A k \in 1 .. n : <<f[k - 1], k>> \in Int \X (1 .. n)
    BY <1>3
  <2>3. \A k \in 1 .. n : turn[<<f[k - 1], k>>] = b * f[k - 1]
    BY <2>2
  <2>4. \A k \in 0 .. n : k = 0 \/ k \in 1 .. n
    OBVIOUS
  <2> HIDE DEF turn
  <2> QED BY <2>1, <2>3, <2>4
<1> DEFINE p == Powers(b, n)
<1>5. p = Body(p)
  BY <1>4 DEF Powers
<1>6. Raised(b, n) = p[n]
  BY DEF Raised, Powers
<1> HIDE DEF p
<1>7. p[0] = 1 /\ \A k \in 1 .. n : p[k] = b * p[k - 1]
  BY <1>5
<1>8. \A k \in 0 .. n : p[k] \in Int
  <2> DEFINE N == {k \in 0 .. n : p[k] \in Int}
  <2>1. 0 \in N
    BY <1>7
  <2>2. \A k \in 1 .. n : k - 1 \in N => k \in N
    BY <1>7
  <2>3. \A k \in 0 .. n : k \in N
    <3> HIDE DEF N
    <3> QED BY <2>1, <2>2, CountingUp
  <2> QED BY <2>3
<1> QED BY <1>6, <1>7, <1>8 DEF p

\* Raised is the power: 1, and b times the power below.
LEMMA RaisedIs ==
    ASSUME NEW b \in Int, NEW n \in Nat
    PROVE  /\ Raised(b, n) \in Int
           /\ Raised(b, 0) = 1
           /\ Raised(b, n + 1) = b * Raised(b, n)
<1> DEFINE p == Powers(b, n)
           q == Powers(b, n + 1)
<1>1. Raised(b, n) = p[n] /\ p[0] = 1 /\ p[n] \in Int /\ \A k \in 1 .. n : p[k] = b * p[k - 1]
  BY PowersAre
<1>2. Raised(b, n + 1) = q[n + 1] /\ q[0] = 1 /\ \A k \in 1 .. n + 1 : q[k] = b * q[k - 1]
  BY PowersAre
<1>3. Raised(b, 0) = 1
  BY PowersAre
<1> HIDE DEF p, q
<1>4. q[n] = p[n]
  <2> DEFINE N == {k \in 0 .. n : q[k] = p[k]}
  <2>1. 0 \in N
    BY <1>1, <1>2
  <2>2. \A k \in 1 .. n : k - 1 \in N => k \in N
    BY <1>1, <1>2
  <2>3. \A k \in 0 .. n : k \in N
    <3> HIDE DEF N
    <3> QED BY <2>1, <2>2, CountingUp
  <2> QED BY <2>3
<1>5. q[n + 1] = b * q[n]
  <2>1. n + 1 \in 1 .. n + 1 /\ (n + 1) - 1 = n
    OBVIOUS
  <2> QED BY <1>2, <2>1
<1> QED BY <1>1, <1>2, <1>3, <1>4, <1>5

\* The powers of two are positive, each twice the one below.
LEMMA PowersOfTwo ==
    ASSUME NEW n \in Nat
    PROVE  TwoTo(n) \in Nat \ {0} /\ TwoTo(0) = 1 /\ TwoTo(n + 1) = 2 * TwoTo(n)
<1>1. \A k \in Nat : TwoTo(k) \in Int /\ TwoTo(0) = 1 /\ TwoTo(k + 1) = 2 * TwoTo(k)
  BY RaisedIs DEF TwoTo
<1> DEFINE N == {k \in 0 .. n : TwoTo(k) \in Nat \ {0}}
<1>2. 0 \in N
  BY <1>1
<1>3. ASSUME NEW k \in 1 .. n, k - 1 \in N PROVE k \in N
  <2>1. k - 1 \in Nat /\ (k - 1) + 1 = k /\ TwoTo(k - 1) \in Nat \ {0}
    BY <1>3
  <2>2. TwoTo(k) = 2 * TwoTo(k - 1)
    BY <1>1, <2>1
  <2> QED BY <2>1, <2>2
<1>4. \A k \in 0 .. n : k \in N
  <2> HIDE DEF N
  <2> QED BY <1>2, <1>3, CountingUp
<1> QED BY <1>1, <1>4

\* A power of two is a multiple of every smaller one.
LEMMA PowersDivide ==
    ASSUME NEW i \in Nat, NEW n \in Nat
    PROVE  TwoTo(i + n) = TwoTo(i) * TwoTo(n)
<1> DEFINE N == {k \in 0 .. n : TwoTo(i + k) = TwoTo(i) * TwoTo(k)}
<1>1. 0 \in N
  <2>1. i + 0 = i /\ TwoTo(0) = 1 /\ TwoTo(i) \in Nat
    BY PowersOfTwo
  <2> QED BY <2>1
<1>2. ASSUME NEW k \in 1 .. n, k - 1 \in N PROVE k \in N
  <2> DEFINE j == k - 1
  <2>1. j \in Nat /\ j + 1 = k /\ i + j \in Nat /\ (i + j) + 1 = i + k
    OBVIOUS
  <2>2. TwoTo(i + j) = TwoTo(i) * TwoTo(j)
    BY <1>2
  <2> HIDE DEF j
  <2>3. TwoTo(k) = 2 * TwoTo(j) /\ TwoTo(i + k) = 2 * TwoTo(i + j)
    BY <2>1, PowersOfTwo
  <2>4. TwoTo(i) \in Nat /\ TwoTo(j) \in Nat
    BY <2>1, PowersOfTwo
  <2>5. 2 * (TwoTo(i) * TwoTo(j)) = TwoTo(i) * (2 * TwoTo(j))
    BY <2>4
  <2> QED BY <2>2, <2>3, <2>5
<1>3. \A k \in 0 .. n : k \in N
  <2> HIDE DEF N
  <2> QED BY <1>1, <1>2, CountingUp
<1> QED BY <1>3

\* The division theorem, and that quotient and remainder are unique.
LEMMA Division ==
    ASSUME NEW M \in Nat \ {0}, NEW n \in Int
    PROVE  /\ n % M \in 0 .. M - 1 /\ n \div M \in Int
           /\ n = M * (n \div M) + (n % M)
           /\ \A q \in Int, r \in 0 .. M - 1 : (M * q + r) % M = r /\ (M * q + r) \div M = q
<1>1. n % M \in 0 .. M - 1
  OBVIOUS
<1>2. n \div M \in Int
  OBVIOUS
<1>3. n = M * (n \div M) + (n % M)
  OBVIOUS
<1>4. \A q \in Int, r \in 0 .. M - 1 : (M * q + r) % M = r
  OBVIOUS
<1>5. \A q \in Int, r \in 0 .. M - 1 : (M * q + r) \div M = q
  OBVIOUS
<1> QED BY <1>1, <1>2, <1>3, <1>4, <1>5

-----------------------------------------------------------------------------
(* Words                                                                   *)

\* Half of the words are negative.
LEMMA Halves ==
    /\ Modulus \in Nat \ {0} /\ (-Least) \in Nat \ {0} /\ Modulus = 2 * (-Least)
    /\ Least \in Int
<1>1. Width - 1 \in Nat /\ (Width - 1) + 1 = Width
  BY WidthAssumption
<1>2. /\ TwoTo(Width - 1) \in Nat \ {0}
      /\ TwoTo(Width) = 2 * TwoTo(Width - 1)
  BY <1>1, PowersOfTwo
<1> QED BY <1>2 DEF Modulus, Least

\* Wrapping around changes nothing but a multiple of the modulus.
LEMMA WrapIs ==
    ASSUME NEW n \in Int
    PROVE  Wrap(n) \in Word /\ \E q \in Int : Wrap(n) = n + Modulus * q
<1> DEFINE M == Modulus
           H == -Least
<1>1. M \in Nat \ {0} /\ H \in Nat \ {0} /\ M = 2 * H /\ Least = -H
  BY Halves
<1> DEFINE r == n % M
           d == n \div M
<1>2. Wrap(n) = IF r < H THEN r ELSE r - M
  BY DEF Wrap, from_uint64
<1>3. Word = Least .. H - 1
  BY DEF Word
<1> HIDE DEF M, H
<1>4. r \in 0 .. M - 1 /\ d \in Int /\ n = M * d + r
  BY <1>1, Division
<1> HIDE DEF r, d
<1>5. -d \in Int /\ -d - 1 \in Int /\ r = n + M * (-d) /\ r - M = n + M * (-d - 1)
  BY <1>1, <1>4
<1>6. Wrap(n) \in Word
  BY <1>1, <1>2, <1>3, <1>4
<1>7. \E q \in Int : Wrap(n) = n + M * q
  BY <1>2, <1>4, <1>5
<1> QED BY <1>6, <1>7 DEF M

\* Numbers that differ by a multiple of the modulus wrap to the same word, and a word
\* to itself.
LEMMA WrapsAlike ==
    ASSUME NEW n \in Int, NEW q \in Int
    PROVE  Wrap(n + Modulus * q) = Wrap(n)
<1> DEFINE M == Modulus
<1>1. M \in Nat \ {0}
  BY Halves
<1> HIDE DEF M
<1>2. n % M \in 0 .. M - 1 /\ n \div M \in Int /\ n = M * (n \div M) + (n % M)
  BY <1>1, Division
<1> DEFINE r == n % M
           d == n \div M
<1> HIDE DEF r, d
<1>3. r \in 0 .. M - 1 /\ d \in Int /\ d + q \in Int /\ n = M * d + r
  BY <1>2 DEF r, d
<1>4. (M * (d + q) + r) % M = r
  BY <1>1, <1>3
<1>5. n + M * q = M * (d + q) + r
  BY <1>1, <1>3
<1>6. (n + M * q) % M = n % M
  BY <1>4, <1>5 DEF r
<1> QED BY <1>6 DEF Wrap, M

\* A word wraps to itself.
LEMMA WordsWrap ==
    ASSUME NEW a \in Word
    PROVE  Wrap(a) = a
<1> DEFINE M == Modulus
           H == -Least
<1>1. M \in Nat \ {0} /\ H \in Nat \ {0} /\ M = 2 * H /\ Least = -H
  BY Halves
<1>2. Wrap(a) = IF a % M < H THEN a % M ELSE (a % M) - M
  BY DEF Wrap, from_uint64
<1>3. a \in Int /\ -H <= a /\ a < H
  BY <1>1 DEF Word
<1> HIDE DEF M, H
<1>4. CASE a >= 0
  <2>1. a \in 0 .. M - 1 /\ a = M * 0 + a
    BY <1>1, <1>3, <1>4
  <2>2. a % M = a
    BY <1>1, <2>1
  <2> QED BY <1>2, <1>3, <2>2
<1>5. CASE a < 0
  <2>1. a + M \in 0 .. M - 1 /\ a = M * (-1) + (a + M) /\ ~(a + M < H)
    BY <1>1, <1>3, <1>5
  <2>2. (M * (-1) + (a + M)) % M = a + M
    <3> HIDE <1>5
    <3>1. \A r \in 0 .. M - 1 : (M * (-1) + r) % M = r
      BY <1>1
    <3> QED BY <2>1, <3>1
  <2> QED BY <1>1, <1>2, <1>3, <2>1, <2>2
<1> QED BY <1>3, <1>4, <1>5

\* Two integers that wrap to the same word.
Alike(m, n) == \E q \in Int : m = n + Modulus * q

\* Being alike is an equivalence that sums, differences and products keep.
LEMMA AlikeIs ==
    ASSUME NEW m \in Int, NEW n \in Int, Alike(m, n)
    PROVE  /\ Wrap(m) = Wrap(n)
           /\ Alike(n, m)
           /\ \A k \in Int : Alike(n, k) => Alike(m, k)
           /\ \A k \in Int : Alike(m * k, n * k) /\ Alike(m + k, n + k) /\ Alike(k - m, k - n)
<1> DEFINE M == Modulus
<1>1. M \in Nat \ {0}
  BY Halves
<1>2. PICK q \in Int : m = n + M * q
  BY DEF Alike
<1>3. Wrap(m) = Wrap(n)
  BY <1>2, WrapsAlike
<1> SUFFICES /\ Alike(n, m)
             /\ \A k \in Int : Alike(n, k) => Alike(m, k)
             /\ \A k \in Int : Alike(m * k, n * k) /\ Alike(m + k, n + k) /\ Alike(k - m, k - n)
  BY <1>3
<1>4. Alike(n, m)
  <2>1. -q \in Int /\ n = m + M * (-q)
    BY <1>1, <1>2
  <2> QED BY <2>1 DEF Alike
<1>5. ASSUME NEW k \in Int, Alike(n, k) PROVE Alike(m, k)
  <2>1. PICK p \in Int : n = k + M * p
    BY <1>5 DEF Alike
  <2>2. p + q \in Int /\ m = k + M * (p + q)
    BY <1>1, <1>2, <2>1
  <2> QED BY <2>2 DEF Alike
<1>6. ASSUME NEW k \in Int PROVE Alike(m * k, n * k) /\ Alike(m + k, n + k) /\ Alike(k - m, k - n)
  <2>1. q * k \in Int /\ m * k = n * k + M * (q * k)
    BY <1>1, <1>2
  <2>2. m + k = (n + k) + M * q
    BY <1>1, <1>2
  <2>3. -q \in Int /\ k - m = (k - n) + M * (-q)
    BY <1>1, <1>2
  <2> QED BY <2>1, <2>2, <2>3 DEF Alike
<1> QED BY <1>4, <1>5, <1>6

\* What an integer wraps to is like it.
LEMMA WrapAlike ==
    ASSUME NEW n \in Int
    PROVE  /\ Alike(Wrap(n), n) /\ Alike(to_uint64(n), n) /\ Alike(n, n)
           /\ Wrap(n) \in Int /\ to_uint64(n) \in 0 .. Modulus - 1
<1> DEFINE M == Modulus
<1>1. M \in Nat \ {0} /\ Least \in Int
  BY Halves
<1>2. Alike(Wrap(n), n) /\ Wrap(n) \in Int
  <2>1. Wrap(n) \in Word
    BY WrapIs
  <2>2. Wrap(n) \in Int
    BY <1>1, <2>1 DEF Word
  <2> QED BY <2>2, WrapIs DEF Alike
<1>3. n = n + M * 0
  BY <1>1
<1>4. Alike(n, n)
  BY <1>3 DEF Alike
<1> DEFINE d == n \div M
           r == n % M
<1>5. d \in Int /\ r \in 0 .. M - 1 /\ n = M * d + r
  BY <1>1, Division
<1> HIDE DEF d, r, M
<1>6. -d \in Int /\ r = n + M * (-d)
  BY <1>1, <1>5
<1>7. Alike(r, n)
  BY <1>6 DEF Alike, M
<1> QED BY <1>2, <1>4, <1>5, <1>7 DEF to_uint64, r, M

\* The arithmetic of unsigned words is that of integers, wrapped.
LEMMA WrappedIs ==
    ASSUME NEW a \in Int, NEW b \in Int
    PROVE  /\ wrap_add(a, b) = Wrap(a + b)
           /\ wrap_sub(a, b) = Wrap(a - b)
           /\ wrap_mul(a, b) = Wrap(a * b)
<1> DEFINE u == to_uint64(a)
           v == to_uint64(b)
<1>1. u \in Int /\ v \in Int /\ Alike(u, a) /\ Alike(v, b)
  BY WrapAlike
<1>2. wrap_add(a, b) = Wrap(u + v) /\ wrap_sub(a, b) = Wrap(u - v) /\ wrap_mul(a, b) = Wrap(u * v)
  BY DEF wrap_add, wrap_sub, wrap_mul
<1> HIDE DEF u, v
<1>3. /\ Alike(u + v, a + v) /\ Alike(v + a, b + a) /\ Alike(u * v, a * v) /\ Alike(v * a, b * a)
      /\ Alike(u - v, u - b)
  BY <1>1, AlikeIs
<1>4. Alike(u + (-b), a + (-b))
  BY <1>1, AlikeIs
<1>5. /\ u + v \in Int /\ a + v \in Int /\ u * v \in Int /\ a * v \in Int /\ u - v \in Int /\ u - b \in Int
      /\ v + a = a + v /\ b + a = a + b /\ v * a = a * v /\ b * a = a * b
      /\ u + (-b) = u - b /\ a + (-b) = a - b
  BY <1>1
<1>6. Wrap(u + v) = Wrap(a + b)
  BY <1>3, <1>5, AlikeIs
<1>7. Wrap(u * v) = Wrap(a * b)
  BY <1>3, <1>5, AlikeIs
<1>8. Wrap(u - v) = Wrap(a - b)
  BY <1>3, <1>4, <1>5, AlikeIs
<1> QED BY <1>2, <1>6, <1>7, <1>8

\* Division never overflows where it is guarded.
LEMMA QuotientIs ==
    ASSUME NEW a \in Word, NEW b \in Word, b # 0
    PROVE  /\ GuardedQuotient(a, b) = Wrap(Quotient(a, b))
           /\ GuardedRemainder(a, b) = Remainder(a, b)
           /\ GuardedRemainder(a, b) \in Word
<1> DEFINE H == -Least
           x == Magnitude(a)
           y == Magnitude(b)
           d == x \div y
<1>1. H \in Nat \ {0} /\ Modulus = 2 * H /\ Least = -H
  BY Halves
<1>2. a \in -H .. H - 1 /\ b \in -H .. H - 1 /\ Word = -H .. H - 1
  BY <1>1 DEF Word
<1> HIDE DEF H
<1>3. /\ x \in Nat /\ x <= H /\ y \in Nat \ {0} /\ a \in {x, -x} /\ b \in {y, -y}
      /\ (a < 0 => a = -x /\ x # 0) /\ (~(a < 0) => a = x) /\ (b < 0 => b = -y) /\ (~(b < 0) => b = y)
  BY <1>1, <1>2 DEF Magnitude
<1>4. Quotient(a, b) = IF (a < 0) = (b < 0) THEN d ELSE -d
  BY DEF Quotient
<1> DEFINE r == x % y
<1> HIDE DEF x, y
<1>5. d \in Int /\ r \in 0 .. y - 1 /\ x = y * d + r
  <2>1. x \in Int /\ y \in Nat \ {0}
    BY <1>3
  <2> QED BY <2>1, Division
<1> HIDE DEF r, d
<1>6. d >= 0
  <2> SUFFICES ASSUME d <= -1 PROVE FALSE
    BY <1>5
  <2>1. y * d <= y * (-1)
    BY <1>3, <1>5
  <2> QED BY <1>3, <1>5, <2>1
<1>7. d <= x /\ (y # 1 /\ x # 0 => d < x)
  <2>1. y * d >= d
    BY <1>3, <1>5, <1>6
  <2>2. ASSUME y # 1, x # 0, d >= x PROVE FALSE
    <3>1. y >= 2 /\ x >= 1
      BY <1>3, <2>2
    <3>2. y * d >= 2 * d
      BY <1>3, <1>5, <1>6, <3>1
    <3>3. y * d >= 2 * x /\ x = y * d + r /\ y * d \in Int
      BY <1>3, <1>5, <2>2, <3>2
    <3> HIDE <3>2
    <3> DEFINE e == y * d
    <3>4. e \in Int /\ e >= 2 * x /\ x = e + r
      BY <3>3
    <3> HIDE DEF e
    <3> QED BY <1>3, <1>5, <3>1, <3>4
  <2> QED BY <1>3, <1>5, <1>6, <2>1, <2>2
<1>8. b * Quotient(a, b) = IF a < 0 THEN -(y * d) ELSE y * d
  <2>1. CASE a < 0 /\ b < 0
    <3>1. Quotient(a, b) = d /\ b = -y
      BY <1>3, <1>4, <2>1
    <3> QED BY <1>3, <1>5, <2>1, <3>1
  <2>2. CASE a < 0 /\ ~(b < 0)
    <3>1. Quotient(a, b) = -d /\ b = y
      BY <1>3, <1>4, <2>2
    <3> QED BY <1>3, <1>5, <2>2, <3>1
  <2>3. CASE ~(a < 0) /\ b < 0
    <3>1. Quotient(a, b) = -d /\ b = -y
      BY <1>3, <1>4, <2>3
    <3> QED BY <1>3, <1>5, <2>3, <3>1
  <2>4. CASE ~(a < 0) /\ ~(b < 0)
    <3>1. Quotient(a, b) = d /\ b = y
      BY <1>3, <1>4, <2>4
    <3> QED BY <1>3, <1>5, <2>4, <3>1
  <2> QED BY <2>1, <2>2, <2>3, <2>4
<1>9. Remainder(a, b) = IF a < 0 THEN 0 - r ELSE r
  <2>1. y * d \in Int
    BY <1>3, <1>5
  <2> HIDE <1>5
  <2> DEFINE e == y * d
  <2>2. e \in Int /\ x = e + r /\ r \in Int
    BY <1>5, <2>1
  <2>3. b * Quotient(a, b) = IF a < 0 THEN -e ELSE e
    BY <1>8
  <2> HIDE DEF e
  <2> QED BY <1>2, <1>3, <2>2, <2>3 DEF Remainder
<1>10. r <= x
  <2>1. y * d >= 0
    BY <1>3, <1>5, <1>6
  <2> QED BY <1>3, <1>5, <2>1
<1>11. Quotient(a, b) \in Int
  BY <1>4, <1>5
<1>12. CASE b = -1 /\ a = Least
  <2>1. y = 1 /\ x = H /\ a < 0 /\ b < 0
    BY <1>1, <1>2, <1>3, <1>12
  <2>2. d = H /\ r = 0
    BY <1>5, <1>3, <2>1
  <2>3. Quotient(a, b) = H /\ Remainder(a, b) = 0
    <3>1. Quotient(a, b) = d
      BY <1>4, <2>1
    <3>2. Remainder(a, b) = 0 - r
      BY <1>9, <2>1
    <3> QED BY <2>2, <3>1, <3>2
  <2>4. H = Least + Modulus * 1 /\ Least \in Int
    BY <1>1
  <2>5. Wrap(H) = Wrap(Least)
    BY <2>4, WrapsAlike, 1 \in Int
  <2>6. Wrap(Least) = Least
    BY <1>12, WordsWrap
  <2> QED BY <1>1, <1>2, <1>12, <2>3, <2>5, <2>6 DEF GuardedQuotient, GuardedRemainder
<1>13. CASE ~(b = -1 /\ a = Least)
  <2>1. Quotient(a, b) \in Word
    <3>1. CASE a = Least
      <4>1. x = H /\ a < 0 /\ b # -1
        BY <1>1, <1>3, <1>13, <3>1
      <4>2. CASE b < 0
        <5>1. y # 1 /\ x # 0
          BY <1>1, <1>3, <4>1, <4>2
        <5> QED BY <1>1, <1>2, <1>4, <1>5, <1>6, <1>7, <4>1, <4>2, <5>1
      <4>3. CASE ~(b < 0)
        BY <1>1, <1>2, <1>4, <1>5, <1>6, <1>7, <4>1, <4>3
      <4> QED BY <4>2, <4>3
    <3>2. CASE a # Least
      <4>1. x <= H - 1
        BY <1>1, <1>2, <1>3, <3>2
      <4> QED BY <1>1, <1>2, <1>3, <1>4, <1>5, <1>6, <1>7, <4>1
    <3> QED BY <3>1, <3>2
  <2>2. Wrap(Quotient(a, b)) = Quotient(a, b)
    BY <2>1, WordsWrap
  <2>3. Remainder(a, b) \in Word
    BY <1>1, <1>2, <1>3, <1>5, <1>9, <1>10
  <2> QED BY <1>13, <2>2, <2>3 DEF GuardedQuotient, GuardedRemainder
<1> QED BY <1>12, <1>13

\* Powers of numbers that are alike are alike.
LEMMA RaisedAlike ==
    ASSUME NEW x \in Int, NEW y \in Int, Alike(x, y), NEW n \in Nat
    PROVE  Alike(Raised(x, n), Raised(y, n))
<1> DEFINE N == {k \in 0 .. n : Alike(Raised(x, k), Raised(y, k))}
<1>1. 0 \in N
  <2>1. Raised(x, 0) = 1 /\ Raised(y, 0) = 1
    BY RaisedIs
  <2>2. Alike(1, 1)
    BY WrapAlike
  <2> QED BY <2>1, <2>2
<1>2. ASSUME NEW k \in 1 .. n, k - 1 \in N PROVE k \in N
  <2> DEFINE u == Raised(x, k - 1)
             v == Raised(y, k - 1)
  <2>1. k - 1 \in Nat /\ (k - 1) + 1 = k
    OBVIOUS
  <2>2. u \in Int /\ v \in Int /\ Raised(x, k) = x * u /\ Raised(y, k) = y * v
    BY <2>1, RaisedIs
  <2>3. Alike(u, v)
    BY <1>2
  <2> HIDE DEF u, v
  <2>4. Alike(x * u, y * u) /\ Alike(u * y, v * y)
    BY <2>2, <2>3, AlikeIs
  <2>5. x * u \in Int /\ y * u \in Int /\ y * v \in Int /\ u * y = y * u /\ v * y = y * v
    BY <2>2
  <2>6. Alike(x * u, y * v)
    BY <2>4, <2>5, AlikeIs
  <2> QED BY <2>2, <2>6
<1>3. \A k \in 0 .. n : k \in N
  <2> HIDE DEF N
  <2> QED BY <1>1, <1>2, CountingUp
<1> QED BY <1>3

\* What a round of fast_pow relies on.
LEMMA SquaresAre ==
    ASSUME NEW x \in Int, NEW n \in Nat
    PROVE  /\ Raised(x * x, n) = Raised(x, 2 * n)
           /\ Raised(x, 2 * n + 1) = x * Raised(x, 2 * n)
           /\ Raised(x, 2 * n) \in Int
<1> DEFINE N == {k \in 0 .. n : Raised(x * x, k) = Raised(x, 2 * k)}
<1>1. 0 \in N
  BY RaisedIs
<1>2. ASSUME NEW k \in 1 .. n, k - 1 \in N PROVE k \in N
  <2> DEFINE j == k - 1
  <2>1. j \in Nat /\ j + 1 = k /\ 2 * j \in Nat /\ 2 * j + 1 \in Nat /\ (2 * j + 1) + 1 = 2 * k
    OBVIOUS
  <2>2. Raised(x * x, j) = Raised(x, 2 * j)
    BY <1>2
  <2> HIDE DEF j
  <2>3. Raised(x * x, k) = (x * x) * Raised(x * x, j)
    BY <2>1, RaisedIs, x * x \in Int
  <2>4. Raised(x, 2 * j + 1) = x * Raised(x, 2 * j)
    BY <2>1, RaisedIs
  <2>5. Raised(x, 2 * k) = x * Raised(x, 2 * j + 1)
    BY <2>1, RaisedIs
  <2>6. Raised(x, 2 * j) \in Int
    BY <2>1, RaisedIs
  <2>7. (x * x) * Raised(x, 2 * j) = x * (x * Raised(x, 2 * j))
    BY <2>6
  <2> QED BY <2>2, <2>3, <2>4, <2>5, <2>7
<1>3. \A k \in 0 .. n : k \in N
  <2> HIDE DEF N
  <2> QED BY <1>1, <1>2, CountingUp
<1>4. 2 * n \in Nat
  OBVIOUS
<1>5. Raised(x, 2 * n + 1) = x * Raised(x, 2 * n) /\ Raised(x, 2 * n) \in Int
  BY <1>4, RaisedIs
<1> QED BY <1>3, <1>5

-----------------------------------------------------------------------------
(* fast_pow                                                                *)

\* The state of the loop of fast_pow.
Powering == [result : Int, base : Int, exp : Nat]

\* A round keeps result * base ^ exp, up to a multiple of the modulus, and halves exp.
LEMMA SquareAndMultiplyIs ==
    ASSUME NEW p \in Powering
    PROVE  LET q == SquareAndMultiply(p)
           IN  /\ q \in Powering /\ q.exp = p.exp \div 2
               /\ q.result = p.result \/ q.result \in Word
               /\ Alike(q.result * Raised(q.base, q.exp), p.result * Raised(p.base, p.exp))
<1> DEFINE q == SquareAndMultiply(p)
           x == p.base
           y == q.base
           e == q.exp
           r == p.result
<1>1. p.result \in Int /\ p.base \in Int /\ p.exp \in Nat
  BY DEF Powering
<1>2. /\ q.result = IF p.exp % 2 = 1 THEN wrap_mul(r, x) ELSE r
      /\ q.base = wrap_mul(x, x) /\ q.exp = p.exp \div 2
      /\ q = [result |-> q.result, base |-> q.base, exp |-> q.exp]
  BY DEF SquareAndMultiply
<1>3. e \in Nat /\ p.exp % 2 \in {0, 1} /\ p.exp = 2 * e + (p.exp % 2)
  <2>1. \A n \in Nat : n \div 2 \in Nat /\ n % 2 \in 0 .. 1 /\ n = 2 * (n \div 2) + (n % 2)
    OBVIOUS
  <2> QED BY <1>1, <1>2, <2>1
<1>4. wrap_mul(r, x) = Wrap(r * x) /\ wrap_mul(x, x) = Wrap(x * x)
  BY <1>1, WrappedIs
<1>5. /\ wrap_mul(r, x) \in Int /\ Alike(wrap_mul(r, x), r * x)
      /\ wrap_mul(x, x) \in Int /\ Alike(wrap_mul(x, x), x * x)
      /\ r * x \in Int /\ x * x \in Int
  <2>1. r * x \in Int /\ x * x \in Int
    BY <1>1
  <2> QED BY <1>4, <2>1, WrapAlike
<1>6. wrap_mul(r, x) \in Word
  BY <1>4, <1>5, WrapIs
<1>7. q \in Powering
  BY <1>1, <1>2, <1>3, <1>5 DEF Powering
<1> HIDE DEF q
<1>8. x \in Int /\ y \in Int /\ Alike(y, x * x)
  BY <1>1, <1>2, <1>5
<1>9. r \in Int
  BY <1>1
<1> HIDE DEF x, y, e, r
<1> DEFINE s == Raised(x * x, e)
           t == Raised(y, e)
<1>10. Alike(t, s) /\ t \in Int /\ s \in Int
  BY <1>3, <1>5, <1>8, RaisedAlike, RaisedIs
<1>11. s = Raised(x, 2 * e) /\ Raised(x, 2 * e + 1) = x * s
  <2>1. Raised(x * x, e) = Raised(x, 2 * e) /\ Raised(x, 2 * e + 1) = x * Raised(x, 2 * e)
    BY <1>3, <1>8, SquaresAre
  <2> QED BY <2>1
<1> HIDE DEF s, t
<1>12. CASE p.exp % 2 = 1
  <2>1. Raised(x, p.exp) = x * s /\ q.result = wrap_mul(r, x)
    BY <1>2, <1>3, <1>11, <1>12
  <2> DEFINE w == wrap_mul(r, x)
  <2>2. w \in Int /\ Alike(w, r * x)
    BY <1>5
  <2> HIDE DEF w
  <2>3. Alike(w * t, (r * x) * t)
    BY <1>5, <1>10, <2>2, AlikeIs
  <2>4. Alike(t * (r * x), s * (r * x))
    BY <1>5, <1>10, AlikeIs
  <2>5. /\ w * t \in Int /\ (r * x) * t \in Int /\ t * (r * x) = (r * x) * t
        /\ s * (r * x) = r * (x * s) /\ s * (r * x) \in Int
    BY <1>8, <1>9, <1>10, <2>2
  <2>6. Alike(w * t, r * (x * s))
    BY <2>3, <2>4, <2>5, AlikeIs
  <2> QED BY <1>2, <1>6, <1>7, <2>1, <2>6 DEF w, q, r, x, y, t, e
<1>13. CASE p.exp % 2 # 1
  <2>1. Raised(x, p.exp) = s /\ q.result = r
    BY <1>2, <1>3, <1>11, <1>13
  <2>2. Alike(t * r, s * r) /\ t * r = r * t /\ s * r = r * s
    BY <1>9, <1>10, AlikeIs
  <2> QED BY <1>2, <1>7, <2>1, <2>2 DEF q, r, x, y, t, e
<1> QED BY <1>12, <1>13

\* The rounds of fast_pow.
Turns(a, b) ==
    CHOOSE p : p = [n \in 0 .. Width |->
        IF n = 0 THEN [result |-> 1, base |-> a, exp |-> b] ELSE SquareAndMultiply(p[n - 1])]

\* The truth values and minus one are words.
LEMMA OneIsWord == 0 \in Word /\ 1 \in Word /\ -1 \in Word /\ Word \subseteq Int
<1>1. Width - 2 \in Nat /\ (Width - 2) + 1 = Width - 1
  BY WidthAssumption
<1>2. TwoTo(Width - 1) = 2 * TwoTo(Width - 2) /\ TwoTo(Width - 2) \in Nat \ {0}
  BY <1>1, PowersOfTwo
<1>3. -Least >= 2 /\ Least \in Int
  BY <1>2, Halves DEF Least
<1> QED BY <1>3 DEF Word

\* Width rounds are enough for every exponent.
LEMMA FastPowIs ==
    ASSUME NEW a \in Word, NEW b \in Word
    PROVE  fast_pow(a, b) = IF b < 0 THEN 0 ELSE Wrap(Raised(a, b))
<1>1. CASE b < 0
  BY <1>1 DEF fast_pow
<1>2. CASE ~(b < 0)
  <2> DEFINE start == [result |-> 1, base |-> a, exp |-> b]
             Body(p) == [n \in 0 .. Width |-> IF n = 0 THEN start ELSE SquareAndMultiply(p[n - 1])]
             turn == [x \in Powering \X (1 .. Width) |-> SquareAndMultiply(x[1])]
             p == Turns(a, b)
  <2>1. a \in Int /\ b \in Nat /\ Width \in Nat
    BY <1>2, OneIsWord, WidthAssumption
  <2>2. start \in Powering
    BY <2>1 DEF Powering
  <2>3. \A x \in Powering : SquareAndMultiply(x) \in Powering
    BY SquareAndMultiplyIs
  <2>4. turn \in [Powering \X (1 .. Width) -> Powering]
    BY <2>3
  <2>5. PICK f : Loops(f, Width, start, turn)
    <3> HIDE DEF turn, start
    <3> QED BY <2>1, <2>2, <2>4, LoopExists
  <2>6. f \in [0 .. Width -> Powering]
    <3> HIDE DEF turn, start
    <3> QED BY <2>1, <2>2, <2>4, <2>5, LoopStays
  <2>7. f = Body(f)
    <3>1. f = [k \in 0 .. Width |-> IF k = 0 THEN start ELSE turn[<<f[k - 1], k>>]]
      <4> HIDE DEF turn, start
      <4> QED BY <2>5 DEF Loops
    <3>2. \A k \in 1 .. Width : <<f[k - 1], k>> \in Powering \X (1 .. Width)
      BY <2>1, <2>6
    <3>3. \A k \in 1 .. Width : turn[<<f[k - 1], k>>] = SquareAndMultiply(f[k - 1])
      BY <3>2
    <3>4. \A k \in 0 .. Width : k = 0 \/ k \in 1 .. Width
      BY <2>1
    <3> HIDE DEF turn, start
    <3> QED BY <3>1, <3>3, <3>4
  <2>8. p = Body(p)
    BY <2>7 DEF Turns
  <2>9. fast_pow(a, b) = p[Width].result
    BY <1>2 DEF fast_pow, Turns
  <2> HIDE DEF p
  <2>10. p[0] = start /\ \A k \in 1 .. Width : p[k] = SquareAndMultiply(p[k - 1])
    <3> HIDE DEF start
    <3>1. p = [n \in 0 .. Width |-> IF n = 0 THEN start ELSE SquareAndMultiply(p[n - 1])]
      BY <2>8
    <3>2. 0 \in 0 .. Width /\ \A k \in 1 .. Width : k \in 0 .. Width /\ k # 0
      BY <2>1
    <3> DEFINE g(n) == SquareAndMultiply(p[n - 1])
    <3>3. p = [n \in 0 .. Width |-> IF n = 0 THEN start ELSE g(n)]
      BY <3>1
    <3> HIDE DEF g
    <3>4. p[0] = start /\ \A k \in 1 .. Width : p[k] = g(k)
      BY <3>2, <3>3, Zenon
    <3> QED BY <3>4 DEF g
  <2> DEFINE Keeps(q, k) ==
                 /\ q \in Powering /\ q.result \in Word /\ q.exp * TwoTo(k) <= b
                 /\ Alike(q.result * Raised(q.base, q.exp), Raised(a, b))
             N == {k \in 0 .. Width : Keeps(p[k], k)}
  <2>11. 0 \in N
    <3>1. Raised(a, b) \in Int /\ TwoTo(0) = 1
      BY <2>1, RaisedIs, PowersOfTwo
    <3>2. 1 * Raised(a, b) = Raised(a, b) /\ Alike(Raised(a, b), Raised(a, b)) /\ b * 1 <= b
      BY <2>1, <3>1, WrapAlike
    <3> QED BY <2>1, <2>2, <2>10, <3>1, <3>2, OneIsWord
  <2>12. ASSUME NEW k \in 1 .. Width, k - 1 \in N PROVE k \in N
    <3> DEFINE j == k - 1
               q == p[j]
               r == SquareAndMultiply(q)
    <3>1. j \in Nat /\ j + 1 = k /\ k \in 0 .. Width
      BY <2>1
    <3>2. Keeps(q, j)
      BY <2>12
    <3>3. p[k] = r
      BY <2>10
    <3> HIDE DEF j, q
    <3>4. /\ r \in Powering /\ r.exp = q.exp \div 2 /\ (r.result = q.result \/ r.result \in Word)
          /\ Alike(r.result * Raised(r.base, r.exp), q.result * Raised(q.base, q.exp))
      BY <3>2, SquareAndMultiplyIs
    <3> HIDE DEF r
    <3>5. /\ r.base \in Int /\ r.exp \in Nat /\ r.result \in Int
          /\ q.base \in Int /\ q.exp \in Nat /\ q.result \in Int
      BY <3>2, <3>4 DEF Powering
    <3> DEFINE u == Raised(r.base, r.exp)
               v == Raised(q.base, q.exp)
               w == Raised(a, b)
    <3>6. u \in Int /\ v \in Int /\ w \in Int
      BY <2>1, <3>5, RaisedIs
    <3>7. Alike(r.result * u, w)
      <4>1. Alike(r.result * u, q.result * v) /\ Alike(q.result * v, w)
        BY <3>2, <3>4
      <4> HIDE DEF u, v, w
      <4>2. r.result * u \in Int /\ q.result * v \in Int
        BY <3>5, <3>6
      <4> QED BY <3>6, <4>1, <4>2, AlikeIs
    <3>8. r.exp * TwoTo(k) <= b
      <4> DEFINE t == TwoTo(j)
      <4>1. t \in Nat /\ TwoTo(k) = 2 * t
        BY <3>1, PowersOfTwo
      <4>2. q.exp * t <= b
        BY <3>2
      <4> HIDE DEF t
      <4>3. 2 * r.exp <= q.exp
        BY <3>4, <3>5
      <4>4. (2 * r.exp) * t <= q.exp * t
        BY <3>5, <4>1, <4>3
      <4>5. r.exp * (2 * t) = (2 * r.exp) * t
        BY <3>5, <4>1
      <4>6. r.exp * (2 * t) \in Int /\ q.exp * t \in Int
        BY <3>5, <4>1
      <4> QED BY <2>1, <4>1, <4>2, <4>4, <4>5, <4>6
    <3>9. r.result \in Word
      BY <3>2, <3>4
    <3> QED BY <3>1, <3>3, <3>4, <3>7, <3>8, <3>9
  <2>13. \A k \in 0 .. Width : k \in N
    <3> HIDE DEF N
    <3> QED BY <2>1, <2>11, <2>12, CountingUp
  <2> DEFINE end == p[Width]
  <2>14. Keeps(end, Width)
    BY <2>1, <2>13
  <2> HIDE DEF end
  <2>15. end.result \in Int /\ end.base \in Int /\ end.exp \in Nat
    BY <2>14 DEF Powering
  <2>16. end.exp = 0
    <3>1. TwoTo(Width) = Modulus /\ b < Modulus /\ Modulus \in Nat
      BY <2>1, Halves DEF Modulus, Word
    <3>2. ASSUME end.exp >= 1 PROVE FALSE
      <4>1. end.exp * Modulus >= Modulus
        BY <2>15, <3>1, <3>2
      <4>2. end.exp * Modulus <= b
        BY <2>14, <3>1
      <4>3. end.exp * Modulus \in Int
        BY <2>15, <3>1
      <4> QED BY <2>1, <3>1, <4>1, <4>2, <4>3
    <3> QED BY <2>15, <3>2
  <2>17. Raised(end.base, end.exp) = 1 /\ Raised(a, b) \in Int
    BY <2>1, <2>15, <2>16, RaisedIs
  <2>18. end.result * 1 = end.result /\ Alike(end.result * 1, Raised(a, b))
    BY <2>14, <2>15, <2>17
  <2>19. Wrap(end.result) = Wrap(Raised(a, b))
    BY <2>15, <2>17, <2>18, AlikeIs
  <2>20. Wrap(end.result) = end.result
    BY <2>14, WordsWrap
  <2> QED BY <1>2, <2>9, <2>19, <2>20 DEF end
<1> QED BY <1>1, <1>2

\* Shifting left by all the bits or more leaves none of them, shifting right the sign.
LEMMA ShiftsAre ==
    ASSUME NEW a \in Word, NEW b \in Word
    PROVE  /\ apply_binary_operator(a, b, "<<") = Meant("<<", a, b)
           /\ apply_binary_operator(a, b, ">>") = Meant(">>", a, b)
           /\ Meant("<<", a, b) \in Word /\ Meant(">>", a, b) \in Word
<1> DEFINE H == -Least
           P == TwoTo(b)
           left == IF valid_shift_amount(b) THEN Wrap(to_uint64(a) * P) ELSE 0
           right == IF valid_shift_amount(b) THEN a \div P ELSE IF a < 0 THEN -1 ELSE 0
           Left == IF b < 0 THEN 0 ELSE Wrap(a * P)
           Right == IF b < 0 THEN (IF a < 0 THEN -1 ELSE 0) ELSE a \div P
<1>1. apply_binary_operator(a, b, "<<") = left /\ apply_binary_operator(a, b, ">>") = right
  BY DEF apply_binary_operator
<1>2. Meant("<<", a, b) = Left /\ Meant(">>", a, b) = Right
  BY DEF Meant
<1>3. /\ H \in Nat \ {0} /\ Modulus = 2 * H /\ a \in -H .. H - 1 /\ Word = -H .. H - 1
      /\ b \in Int /\ Width \in Nat
  BY Halves, OneIsWord, WidthAssumption DEF Word
<1>4. Wrap(0) = 0 /\ 0 \in Word /\ -1 \in Word
  BY OneIsWord, WordsWrap
<1>5. CASE b < 0
  BY <1>1, <1>2, <1>3, <1>4, <1>5 DEF valid_shift_amount
<1>6. CASE b >= 0
  <2>1. b \in Nat /\ P \in Nat \ {0}
    BY <1>3, <1>6, PowersOfTwo
  <2> DEFINE d == a \div P
             r == a % P
  <2>2. d \in Int /\ r \in 0 .. P - 1 /\ a = P * d + r
    <3>1. a \in Int
      BY <1>3
    <3> HIDE DEF P
    <3> QED BY <2>1, <3>1, Division
  <2> ~(b < 0)
    BY <1>3, <1>6
  <2>3. left = Left
    <3>1. CASE valid_shift_amount(b)
      <4>1. to_uint64(a) \in Int /\ Alike(to_uint64(a), a)
        BY <1>3, WrapAlike
      <4>2. Alike(to_uint64(a) * P, a * P)
        BY <1>3, <2>1, <4>1, AlikeIs
      <4>3. to_uint64(a) * P \in Int /\ a * P \in Int
        BY <1>3, <2>1, <4>1
      <4>4. Wrap(to_uint64(a) * P) = Wrap(a * P)
        BY <4>2, <4>3, AlikeIs
      <4> QED BY <1>6, <3>1, <4>4
    <3>2. CASE ~valid_shift_amount(b)
      <4>1. b - Width \in Nat /\ Width + (b - Width) = b
        BY <1>3, <1>6, <3>2 DEF valid_shift_amount
      <4> DEFINE e == TwoTo(b - Width)
      <4>2. P = Modulus * e /\ e \in Nat
        BY <1>3, <4>1, PowersDivide, PowersOfTwo DEF Modulus
      <4> HIDE DEF e, P
      <4>3. a * e \in Int /\ a * P = 0 + Modulus * (a * e)
        BY <1>3, <4>2
      <4>4. Wrap(a * P) = Wrap(0)
        BY <4>3, WrapsAlike, 0 \in Int
      <4> QED BY <1>3, <1>4, <1>6, <3>2, <4>4
    <3> QED BY <3>1, <3>2
  <2>4. right = Right
    <3>1. CASE valid_shift_amount(b)
      BY <1>6, <3>1
    <3>2. CASE ~valid_shift_amount(b)
      <4>1. b - Width \in Nat /\ Width + (b - Width) = b
        BY <1>3, <1>6, <3>2 DEF valid_shift_amount
      <4> DEFINE e == TwoTo(b - Width)
      <4>2. P = Modulus * e /\ e \in Nat \ {0}
        BY <1>3, <4>1, PowersDivide, PowersOfTwo DEF Modulus
      <4> HIDE DEF e
      <4>3. P >= Modulus
        <5> HIDE DEF P
        <5> QED BY <1>3, <4>2
      <4> HIDE DEF P
      <4>4. CASE a < 0
        <5>1. a + P \in 0 .. P - 1 /\ a = P * (-1) + (a + P) /\ -1 \in Int
          BY <1>3, <2>1, <4>3, <4>4
        <5>2. \A q \in Int, k \in 0 .. P - 1 : (P * q + k) \div P = q
          BY <1>3, <2>1, Division
        <5> DEFINE k == a + P
        <5>3. (P * (-1) + k) \div P = -1
          <6>1. k \in 0 .. P - 1
            BY <5>1
          <6> HIDE DEF k
          <6> QED BY <5>1, <5>2, <6>1
        <5>4. a = P * (-1) + k
          BY <5>1
        <5> HIDE DEF k
        <5>5. a \div P = -1
          BY <5>3, <5>4
        <5> QED BY <1>6, <3>2, <4>4, <5>5
      <4>5. CASE ~(a < 0)
        <5>1. a \in 0 .. P - 1 /\ a = P * 0 + a
          BY <1>3, <2>1, <4>3, <4>5
        <5>2. (P * 0 + a) \div P = 0
          BY <1>3, <2>1, <5>1, Division, 0 \in Int
        <5>3. a \div P = 0
          BY <5>1, <5>2
        <5> QED BY <1>6, <3>2, <4>5, <5>3
      <4> QED BY <4>4, <4>5
    <3> QED BY <3>1, <3>2
  <2>5. Left \in Word
    <3>1. a * P \in Int
      BY <1>3, <2>1
    <3> QED BY <1>6, <3>1, WrapIs
  <2>6. Right \in Word
    <3> HIDE DEF d, r, P
    <3>1. ASSUME d >= H PROVE FALSE
      <4>1. P * d >= d
        BY <1>3, <2>1, <2>2, <3>1
      <4> QED BY <1>3, <2>1, <2>2, <3>1, <4>1
    <3>2. ASSUME d < -H PROVE FALSE
      <4>1. d + 1 <= -H /\ P * (d + 1) = P * d + P
        BY <1>3, <2>1, <2>2, <3>2
      <4>2. P * (d + 1) <= d + 1
        BY <1>3, <2>1, <2>2, <4>1
      <4>3. P * d \in Int
        BY <2>1, <2>2
      <4> QED BY <1>3, <2>1, <2>2, <4>1, <4>2, <4>3
    <3>3. d \in Word
      BY <1>3, <2>2, <3>1, <3>2
    <3> QED BY <1>3, <1>6, <3>3 DEF d
  <2> QED BY <1>1, <1>2, <2>3, <2>4, <2>5, <2>6
<1> QED BY <1>3, <1>5, <1>6

-----------------------------------------------------------------------------
(* Bits                                                                    *)

\* The sums FromBits adds up.
Sums(B) ==
    CHOOSE sum : sum = [n \in 0 .. Width |->
        IF n = 0 THEN 0 ELSE sum[n - 1] + (IF n - 1 \in B THEN TwoTo(n - 1) ELSE 0)]

\* Bits make an unsigned word.
LEMMA FromBitsIs ==
    ASSUME NEW B
    PROVE  FromBits(B) \in 0 .. Modulus - 1
<1> DEFINE add(k) == IF k - 1 \in B THEN TwoTo(k - 1) ELSE 0
           turn == [x \in Int \X (1 .. Width) |-> x[1] + add(x[2])]
           Body(s) == [n \in 0 .. Width |-> IF n = 0 THEN 0 ELSE s[n - 1] + add(n)]
           s == Sums(B)
<1>1. Width \in Nat /\ 0 \in Int
  BY WidthAssumption
<1>2. \A k \in 1 .. Width : k - 1 \in Nat /\ add(k) \in Int /\ 0 <= add(k) /\ add(k) <= TwoTo(k - 1)
  <2> SUFFICES ASSUME NEW k \in 1 .. Width
               PROVE  k - 1 \in Nat /\ add(k) \in Int /\ 0 <= add(k) /\ add(k) <= TwoTo(k - 1)
    OBVIOUS
  <2>1. k - 1 \in Nat
    BY <1>1
  <2>2. TwoTo(k - 1) \in Nat \ {0}
    BY <2>1, PowersOfTwo
  <2> QED BY <2>1, <2>2
<1> HIDE DEF add
<1>3. turn \in [Int \X (1 .. Width) -> Int]
  BY <1>2
<1>4. PICK f : Loops(f, Width, 0, turn)
  <2> HIDE DEF turn
  <2> QED BY <1>1, <1>3, LoopExists
<1>5. f \in [0 .. Width -> Int]
  <2> HIDE DEF turn
  <2> QED BY <1>1, <1>3, <1>4, LoopStays
<1>6. f = Body(f)
  <2>1. f = [k \in 0 .. Width |-> IF k = 0 THEN 0 ELSE turn[<<f[k - 1], k>>]]
    <3> HIDE DEF turn
    <3> QED BY <1>4 DEF Loops
  <2>2. \A k \in 1 .. Width : <<f[k - 1], k>> \in Int \X (1 .. Width)
    BY <1>1, <1>5
  <2>3. \A k \in 1 .. Width : turn[<<f[k - 1], k>>] = f[k - 1] + add(k)
    BY <2>2
  <2>4. \A k \in 0 .. Width : k = 0 \/ k \in 1 .. Width
    BY <1>1
  <2> HIDE DEF turn
  <2> QED BY <2>1, <2>3, <2>4
<1>7. s = Body(s)
  BY <1>6 DEF Sums, add
<1>8. FromBits(B) = s[Width]
  BY DEF FromBits, Sums
<1> HIDE DEF s
<1>9. s[0] = 0 /\ \A k \in 1 .. Width : s[k] = s[k - 1] + add(k)
  <2> DEFINE g(k) == s[k - 1] + add(k)
  <2>1. s = [k \in 0 .. Width |-> IF k = 0 THEN 0 ELSE g(k)]
    BY <1>7
  <2>2. 0 \in 0 .. Width /\ \A k \in 1 .. Width : k \in 0 .. Width /\ k # 0
    BY <1>1
  <2> HIDE DEF g
  <2>3. s[0] = 0 /\ \A k \in 1 .. Width : s[k] = g(k)
    BY <2>1, <2>2, Zenon
  <2> QED BY <2>3 DEF g
<1> DEFINE N == {k \in 0 .. Width : s[k] \in 0 .. TwoTo(k) - 1}
<1>10. 0 \in N
  <2>1. TwoTo(0) = 1
    BY <1>1, PowersOfTwo
  <2> QED BY <1>1, <1>9, <2>1
<1>11. ASSUME NEW k \in 1 .. Width, k - 1 \in N PROVE k \in N
  <2>1. k - 1 \in Nat /\ (k - 1) + 1 = k
    BY <1>1
  <2>2. TwoTo(k) = 2 * TwoTo(k - 1) /\ TwoTo(k - 1) \in Nat
    BY <2>1, PowersOfTwo
  <2>3. s[k - 1] \in 0 .. TwoTo(k - 1) - 1
    BY <1>11
  <2> QED BY <1>1, <1>2, <1>9, <2>2, <2>3
<1>12. \A k \in 0 .. Width : k \in N
  <2> HIDE DEF N
  <2> QED BY <1>1, <1>10, <1>11, CountingUp
<1> QED BY <1>1, <1>8, <1>12 DEF Modulus

\* The bits of an unsigned word are those of the word it was.
LEMMA BitIs ==
    ASSUME NEW a \in Int, NEW i \in Bits
    PROVE  Bit(to_uint64(a), i) = Bit(a, i)
<1> DEFINE M == Modulus
           P == TwoTo(i)
           K == TwoTo(Width - 1 - i)
           d == a \div M
           r == a % M
           q == r \div P
           z == r % P
           m == q \div 2
<1>1. Width \in Nat /\ i \in Nat /\ Width - 1 - i \in Nat /\ i + 1 \in Nat /\ (i + 1) + (Width - 1 - i) = Width
  BY WidthAssumption DEF Bits
<1>2. P \in Nat \ {0} /\ K \in Nat \ {0} /\ TwoTo(i + 1) = 2 * P
  BY <1>1, PowersOfTwo
<1>3. M = TwoTo(i + 1) * K
  BY <1>1, PowersDivide DEF Modulus
<1>4. Bit(to_uint64(a), i) = q % 2 /\ Bit(a, i) = (a \div P) % 2
  BY DEF Bit, to_uint64
<1>5. M \in Nat \ {0}
  BY Halves
<1> HIDE DEF M, P, K
<1>6. d \in Int /\ r \in 0 .. M - 1 /\ a = M * d + r
  BY <1>5, Division
<1> HIDE DEF d, r
<1>7. q \in Int /\ z \in 0 .. P - 1 /\ r = P * q + z
  <2>1. r \in Int
    BY <1>6
  <2> QED BY <1>2, <2>1, Division
<1> HIDE DEF q, z
<1>8. m \in Int /\ q % 2 \in 0 .. 2 - 1 /\ q = 2 * m + (q % 2)
  <2>1. 2 \in Nat \ {0}
    OBVIOUS
  <2> QED BY <1>7, <2>1, Division
<1> HIDE DEF m
<1> DEFINE e == K * d
<1>9. e \in Int /\ M * d = P * (2 * e)
  BY <1>2, <1>3, <1>6
<1> HIDE DEF e
<1> DEFINE h == 2 * e + q
<1>10. h \in Int /\ P * (2 * e) + (P * q + z) = P * h + z
  BY <1>2, <1>7, <1>9
<1>11. a = P * h + z
  BY <1>6, <1>7, <1>9, <1>10
<1>12. h = 2 * (e + m) + (q % 2) /\ e + m \in Int
  BY <1>7, <1>8, <1>9
<1> HIDE DEF h
<1>13. a \div P = h
  BY <1>2, <1>7, <1>10, <1>11, Division
<1>14. h % 2 = q % 2
  <2> DEFINE x == e + m
             y == q % 2
  <2>1. x \in Int /\ y \in 0 .. 1 /\ h = 2 * x + y
    BY <1>8, <1>12
  <2> HIDE DEF x, y
  <2>2. h % 2 = y
    BY <2>1
  <2> QED BY <2>2 DEF y
<1> QED BY <1>4, <1>13, <1>14

\* &, | and ^ on words are those of the two's complement.
LEMMA BitsAre ==
    ASSUME NEW a \in Word, NEW b \in Word, NEW op \in {"&", "|", "^"}
    PROVE  apply_binary_operator(a, b, op) = Meant(op, a, b) /\ Meant(op, a, b) \in Word
<1> DEFINE u == to_uint64(a)
           v == to_uint64(b)
<1>1. ASSUME NEW B PROVE from_uint64(FromBits(B)) = Wrap(FromBits(B)) /\ Wrap(FromBits(B)) \in Word
  <2> DEFINE n == FromBits(B)
             M == Modulus
  <2>1. n \in 0 .. M - 1 /\ M \in Nat \ {0}
    BY FromBitsIs, Halves
  <2>2. Wrap(n) = from_uint64(n % M)
    BY DEF Wrap
  <2> HIDE DEF n, M
  <2>3. n % M = n /\ n \in Int
    BY <2>1
  <2>4. Wrap(n) \in Word
    BY <2>3, WrapIs
  <2> QED BY <2>2, <2>3, <2>4 DEF n
<1>2. \A i \in Bits : Bit(u, i) = Bit(a, i) /\ Bit(v, i) = Bit(b, i)
  BY BitIs, OneIsWord
<1> HIDE DEF u, v
<1>3. /\ bit_and(u, v) = FromBits({i \in Bits : Bit(a, i) = 1 /\ Bit(b, i) = 1})
      /\ bit_or(u, v) = FromBits({i \in Bits : Bit(a, i) = 1 \/ Bit(b, i) = 1})
      /\ bit_xor(u, v) = FromBits({i \in Bits : Bit(a, i) # Bit(b, i)})
  <2>1. /\ {i \in Bits : Bit(u, i) = 1 /\ Bit(v, i) = 1} = {i \in Bits : Bit(a, i) = 1 /\ Bit(b, i) = 1}
        /\ {i \in Bits : Bit(u, i) = 1 \/ Bit(v, i) = 1} = {i \in Bits : Bit(a, i) = 1 \/ Bit(b, i) = 1}
        /\ {i \in Bits : Bit(u, i) # Bit(v, i)} = {i \in Bits : Bit(a, i) # Bit(b, i)}
    BY <1>2
  <2> QED BY <2>1 DEF bit_and, bit_or, bit_xor
<1>4. CASE op = "&"
  BY <1>1, <1>3, <1>4 DEF apply_binary_operator, Meant, u, v
<1>5. CASE op = "|"
  BY <1>1, <1>3, <1>5 DEF apply_binary_operator, Meant, u, v
<1>6. CASE op = "^"
  BY <1>1, <1>3, <1>6 DEF apply_binary_operator, Meant, u, v
<1> QED BY <1>4, <1>5, <1>6

-----------------------------------------------------------------------------
(* The operators                                                           *)

\* The operators that have a value whatever their operands, and those on one operand.
Valued == {"+", "-", "*", "/", "%", "**", "<<", ">>", "&", "|", "^",
           "==", "!=", "<", "<=", ">", ">="}
\* The unary operators; a prefix of ++ or -- is carried out before.
ValuedUnary == {"+", "-", "~", "!"}

\* The sum, difference and product of words are words and wrap.
LEMMA WrappedWords ==
    ASSUME NEW a \in Word, NEW b \in Word
    PROVE  /\ wrap_add(a, b) = Wrap(a + b) /\ wrap_add(a, b) \in Word
           /\ wrap_sub(a, b) = Wrap(a - b) /\ wrap_sub(a, b) \in Word
           /\ wrap_mul(a, b) = Wrap(a * b) /\ wrap_mul(a, b) \in Word
<1>1. a \in Int /\ b \in Int
  BY OneIsWord
<1>2. a + b \in Int /\ a - b \in Int /\ a * b \in Int
  BY <1>1
<1> QED BY <1>1, <1>2, WrappedIs, WrapIs

\* fast_pow squares and multiplies its way to the power, wrapped.
LEMMA PowersWrap ==
    ASSUME NEW a \in Word, NEW b \in Word
    PROVE  /\ fast_pow(a, b) = IF b < 0 THEN 0 ELSE Wrap(Raised(a, b))
           /\ fast_pow(a, b) \in Word
<1>1. a \in Int /\ b \in Int /\ 0 \in Word
  BY OneIsWord
<1>2. CASE b < 0
  BY <1>1, <1>2, FastPowIs
<1>3. CASE ~(b < 0)
  <2>1. b \in Nat
    BY <1>1, <1>3
  <2>2. Raised(a, b) \in Int
    BY <1>1, <2>1, RaisedIs
  <2> QED BY <1>3, <2>2, FastPowIs, WrapIs
<1> QED BY <1>2, <1>3

\* The value of a binary operator is the one C (for **, the shells) gives it, overflow wrapping
\* around, and is a word: for words of any width, and any operands it is not a division by zero on.
THEOREM OperatorsMeanWhatCSays ==
    \A a \in Word : \A b \in Word : \A op \in Valued :
        ~DividesByZero(b, op) =>
            apply_binary_operator(a, b, op) = Meant(op, a, b) /\ Meant(op, a, b) \in Word
<1> SUFFICES ASSUME NEW a \in Word, NEW b \in Word, NEW op \in Valued, ~DividesByZero(b, op)
             PROVE  apply_binary_operator(a, b, op) = Meant(op, a, b) /\ Meant(op, a, b) \in Word
  OBVIOUS
<1>1. CASE op = "+"
  BY <1>1, WrappedWords DEF apply_binary_operator, Meant
<1>2. CASE op = "-"
  BY <1>2, WrappedWords DEF apply_binary_operator, Meant
<1>3. CASE op = "*"
  BY <1>3, WrappedWords DEF apply_binary_operator, Meant
<1>4. CASE op = "/"
  <2>1. b # 0
    BY <1>4 DEF DividesByZero
  <2>2. GuardedQuotient(a, b) = Wrap(Quotient(a, b))
    BY <2>1, QuotientIs
  <2>3. apply_binary_operator(a, b, op) = Wrap(Quotient(a, b))
    BY <1>4, <2>1, <2>2 DEF apply_binary_operator
  <2>4. Meant(op, a, b) = Wrap(Quotient(a, b))
    BY <1>4 DEF Meant
  <2>5. Quotient(a, b) \in Int
    <3>1. Magnitude(a) \in Int /\ Magnitude(b) \in Nat \ {0}
      BY <2>1, OneIsWord DEF Magnitude
    <3>2. Magnitude(a) \div Magnitude(b) \in Int
      <4> DEFINE x == Magnitude(a)
                 y == Magnitude(b)
      <4> HIDE DEF x, y
      <4> QED BY <3>1, Division DEF x, y
    <3> QED BY <3>2 DEF Quotient
  <2> QED BY <2>3, <2>4, <2>5, WrapIs
<1>5. CASE op = "%"
  <2>1. b # 0
    BY <1>5 DEF DividesByZero
  <2>2. GuardedRemainder(a, b) = Remainder(a, b) /\ GuardedRemainder(a, b) \in Word
    BY <2>1, QuotientIs
  <2>3. apply_binary_operator(a, b, op) = GuardedRemainder(a, b)
    BY <1>5, <2>1 DEF apply_binary_operator
  <2>4. Meant(op, a, b) = Remainder(a, b)
    BY <1>5 DEF Meant
  <2> QED BY <2>2, <2>3, <2>4
<1>6. CASE op = "**"
  BY <1>6, PowersWrap DEF apply_binary_operator, Meant
<1>7. CASE op \in {"<<", ">>"}
  BY <1>7, ShiftsAre
<1>8. CASE op \in {"&", "|", "^"}
  BY <1>8, BitsAre
<1>9. CASE op \in {"==", "!=", "<", "<=", ">", ">="}
  BY <1>9, OneIsWord DEF apply_binary_operator, Meant, Truth
<1> QED BY <1>1, <1>2, <1>3, <1>4, <1>5, <1>6, <1>7, <1>8, <1>9 DEF Valued

\* So is the value of a unary operator.
THEOREM UnaryOperatorsMeanWhatCSays ==
    \A a \in Word : \A op \in ValuedUnary :
        apply_unary_operator(a, Prefix(op)) = MeantUnary(op, a) /\ MeantUnary(op, a) \in Word
<1> SUFFICES ASSUME NEW a \in Word, NEW op \in ValuedUnary
             PROVE  apply_unary_operator(a, Prefix(op)) = MeantUnary(op, a) /\ MeantUnary(op, a) \in Word
  OBVIOUS
<1> DEFINE H == -Least
           M == Modulus
<1>1. H \in Nat \ {0} /\ M = 2 * H /\ M \in Nat \ {0} /\ a \in -H .. H - 1 /\ Word = -H .. H - 1
  BY Halves DEF Word
<1>2. CASE op = "+"
  BY <1>2 DEF apply_unary_operator, Prefix, MeantUnary
<1>3. CASE op = "-"
  <2>1. apply_unary_operator(a, Prefix(op)) = wrap_sub(0, a) /\ MeantUnary(op, a) = Wrap(-a)
    BY <1>3 DEF apply_unary_operator, Prefix, MeantUnary
  <2>2. wrap_sub(0, a) = Wrap(0 - a) /\ wrap_sub(0, a) \in Word
    BY OneIsWord, WrappedWords
  <2>3. 0 - a = -a
    BY <1>1
  <2> QED BY <2>1, <2>2, <2>3
<1>4. CASE op = "~"
  <2> DEFINE u == to_uint64(a)
             d == a \div M
  <2>1. apply_unary_operator(a, Prefix(op)) = from_uint64(M - 1 - u) /\ MeantUnary(op, a) = -a - 1
    BY <1>4 DEF apply_unary_operator, Prefix, MeantUnary
  <2>2. from_uint64(M - 1 - u) = IF M - 1 - u < H THEN M - 1 - u ELSE (M - 1 - u) - M
    BY DEF from_uint64
  <2>3. u = a % M
    BY DEF to_uint64
  <2> HIDE DEF H, M, u
  <2>4. a \in Int
    BY <1>1
  <2>5. u \in 0 .. M - 1 /\ d \in Int /\ a = M * d + u
    BY <1>1, <2>3, <2>4, Division
  <2> HIDE DEF d
  <2>6. d \in {0, -1}
    <3>1. ASSUME d >= 1 PROVE FALSE
      <4>1. M * d >= M
        BY <1>1, <2>5, <3>1
      <4> QED BY <1>1, <2>5, <4>1
    <3>2. ASSUME d <= -2 PROVE FALSE
      <4>1. M * d <= M * (-2)
        BY <1>1, <2>5, <3>2
      <4> QED BY <1>1, <2>5, <4>1
    <3> QED BY <2>5, <3>1, <3>2
  <2>7. u = IF a < 0 THEN a + M ELSE a
    BY <1>1, <2>5, <2>6
  <2> QED BY <1>1, <2>1, <2>2, <2>7
<1>5. CASE op = "!"
  BY <1>5, OneIsWord DEF apply_unary_operator, Prefix, MeantUnary, Truth
<1> QED BY <1>2, <1>3, <1>4, <1>5 DEF ValuedUnary

\* Every operator, known or not, takes words to a word.
LEMMA OperatorsGiveWords ==
    ASSUME NEW a \in Word, NEW b \in Word, NEW op
    PROVE  apply_binary_operator(a, b, op) \in Word /\ apply_unary_operator(a, op) \in Word
<1>1. 0 \in Word /\ 1 \in Word
  BY OneIsWord
<1>2. apply_binary_operator(a, b, op) \in Word
  <2>1. CASE op \in Valued /\ ~DividesByZero(b, op)
    BY <2>1, OperatorsMeanWhatCSays
  <2>2. CASE DividesByZero(b, op)
    BY <1>1, <2>2 DEF DividesByZero, apply_binary_operator
  <2>3. CASE op \in {"&&", "||"}
    BY <1>1, <2>3 DEF apply_binary_operator, Truth
  <2>4. CASE op \notin Valued \cup {"&&", "||"}
    BY <1>1, <2>4 DEF apply_binary_operator, Valued
  <2> QED BY <2>1, <2>2, <2>3, <2>4
<1>3. apply_unary_operator(a, op) \in Word
  <2>1. CASE op = "unary-"
    BY <1>1, <2>1, WrappedWords DEF apply_unary_operator
  <2>2. CASE op = "!"
    BY <1>1, <2>2 DEF apply_unary_operator, Truth
  <2>3. CASE op = "~"
    <3>1. Prefix("~") = "~"
      BY DEF Prefix
    <3> QED BY <2>3, <3>1, UnaryOperatorsMeanWhatCSays DEF ValuedUnary
  <2>4. CASE op \notin {"unary-", "!", "~"}
    BY <2>4 DEF apply_unary_operator
  <2> QED BY <2>1, <2>2, <2>3, <2>4
<1> QED BY <1>2, <1>3

-----------------------------------------------------------------------------
(* Texts                                                                   *)

\* A part of a sequence is one of the same elements.
LEMMA PartIs ==
    ASSUME NEW S, NEW s \in Seq(S), NEW m \in Nat \ {0}, NEW n \in Int, n <= Len(s)
    PROVE  SubSeq(s, m, n) \in Seq(S)
<1>1. \A i \in m .. n : s[i] \in S
  BY ElementOfSeq, LenProperties
<1>2. m \in Int
  OBVIOUS
<1> QED BY <1>1, <1>2, SubSeqProperties

\* A set of places has a first and a last.
LEMMA MinIs ==
    ASSUME NEW n \in Nat, NEW N \in SUBSET (0 .. n), N # {}
    PROVE  Min(N) \in N /\ \A k \in N : Min(N) <= k
<1>1. N \in SUBSET Nat
  OBVIOUS
<1>2. \E m \in N : \A k \in N : m <= k
  BY <1>1, HasLeast
<1> QED BY <1>2 DEF Min

\* As MinIs, of the last.
LEMMA MaxIs ==
    ASSUME NEW n \in Nat, NEW N \in SUBSET (0 .. n), N # {}
    PROVE  Max(N) \in N /\ \A k \in N : Max(N) >= k
<1> DEFINE R == {n - k : k \in N}
<1>1. R \in SUBSET Nat /\ R # {}
  <2>1. \A k \in N : n - k \in Nat
    OBVIOUS
  <2> QED BY <2>1
<1>2. PICK r \in R : \A k \in R : r <= k
  <2> HIDE DEF R
  <2> QED BY <1>1, HasLeast
<1>3. PICK m \in N : r = n - m
  OBVIOUS
<1>4. \A k \in N : n - k \in R
  OBVIOUS
<1>5. \A k \in N : r <= n - k
  BY <1>2, <1>4
<1>6. \A k \in N : m >= k
  BY <1>3, <1>5
<1> QED BY <1>3, <1>6 DEF Max

\* Trimming leaves a text.
LEMMA TrimIs ==
    ASSUME NEW t \in Seq(Atom)
    PROVE  trim_expression(t) \in Seq(Atom)
<1> DEFINE ink == {i \in DOMAIN t : At(t, i) # " "}
<1>1. Len(t) \in Nat /\ DOMAIN t = 1 .. Len(t)
  BY LenProperties
<1>2. trim_expression(t) = IF ink = {} THEN <<>> ELSE SubSeq(t, Min(ink), Max(ink))
  BY DEF trim_expression
<1>3. ink \in SUBSET (0 .. Len(t)) /\ \A i \in ink : i \in 1 .. Len(t)
  <2>1. \A i \in ink : i \in 1 .. Len(t)
    BY <1>1
  <2>2. 1 .. Len(t) \subseteq 0 .. Len(t)
    BY <1>1
  <2> HIDE DEF ink
  <2> QED BY <2>1, <2>2
<1> HIDE DEF ink
<1>4. CASE ink = {}
  BY <1>2, <1>4, EmptySeq
<1>5. CASE ink # {}
  <2>1. Min(ink) \in ink /\ Max(ink) \in ink
    BY <1>1, <1>3, <1>5, MinIs, MaxIs
  <2>2. Min(ink) \in 1 .. Len(t) /\ Max(ink) \in 1 .. Len(t)
    BY <1>3, <2>1
  <2>3. Min(ink) \in Nat \ {0} /\ Max(ink) \in Int /\ Max(ink) <= Len(t)
    <3> DEFINE m == Min(ink)
               k == Max(ink)
    <3>1. m \in 1 .. Len(t) /\ k \in 1 .. Len(t)
      BY <2>2
    <3> HIDE DEF m, k
    <3>2. m \in Nat \ {0} /\ k \in Int /\ k <= Len(t)
      BY <1>1, <3>1
    <3> QED BY <3>2 DEF m, k
  <2> QED BY <1>2, <1>5, <2>3, PartIs
<1> QED BY <1>4, <1>5

\* The rounds of Normalized.
Bares(t) ==
    CHOOSE bare : bare = [n \in 0 .. Len(t) |-> IF n = 0 THEN trim_expression(t) ELSE Unwrapped(bare[n - 1])]

\* So does taking parentheses off, however often.
LEMMA NormalizedIs ==
    ASSUME NEW t \in Seq(Atom)
    PROVE  Normalized(t) \in Seq(Atom)
<1> DEFINE S == Seq(Atom)
           n == Len(t)
           start == trim_expression(t)
           turn == [x \in S \X (1 .. n) |-> Unwrapped(x[1])]
           Body(p) == [k \in 0 .. n |-> IF k = 0 THEN start ELSE Unwrapped(p[k - 1])]
           p == Bares(t)
<1>1. n \in Nat /\ start \in S
  BY LenProperties, TrimIs
<1>2. \A u \in S : Unwrapped(u) \in S
  <2> SUFFICES ASSUME NEW u \in S PROVE Unwrapped(u) \in S
    OBVIOUS
  <2>1. 2 \in Nat \ {0} /\ Len(u) - 1 \in Int /\ Len(u) - 1 <= Len(u)
    BY LenProperties
  <2>2. SubSeq(u, 2, Len(u) - 1) \in S
    BY <2>1, PartIs
  <2> QED BY <2>2, TrimIs DEF Unwrapped
<1>3. turn \in [S \X (1 .. n) -> S]
  BY <1>2
<1> HIDE DEF S
<1>4. PICK f : Loops(f, n, start, turn)
  <2> HIDE DEF turn, start, n
  <2> QED BY <1>1, <1>3, LoopExists
<1>5. f \in [0 .. n -> S]
  <2> HIDE DEF turn, start, n
  <2> QED BY <1>1, <1>3, <1>4, LoopStays
<1>6. f = Body(f)
  <2>1. f = [k \in 0 .. n |-> IF k = 0 THEN start ELSE turn[<<f[k - 1], k>>]]
    <3> HIDE DEF turn, start, n
    <3> QED BY <1>4 DEF Loops
  <2>2. \A k \in 1 .. n : <<f[k - 1], k>> \in S \X (1 .. n)
    <3> HIDE DEF n
    <3> QED BY <1>1, <1>5
  <2>3. \A k \in 1 .. n : turn[<<f[k - 1], k>>] = Unwrapped(f[k - 1])
    BY <2>2
  <2>4. \A k \in 0 .. n : k = 0 \/ k \in 1 .. n
    BY <1>1
  <2> HIDE DEF turn, start, n
  <2> QED BY <2>1, <2>3, <2>4
<1>7. p = Body(p)
  BY <1>6 DEF Bares
<1>8. Normalized(t) = p[n]
  BY DEF Normalized, Bares
<1> HIDE DEF p
<1> DEFINE g(k) == Unwrapped(p[k - 1])
<1>9. p = [k \in 0 .. n |-> IF k = 0 THEN start ELSE g(k)]
  BY <1>7
<1>10. 0 \in 0 .. n /\ \A k \in 1 .. n : k \in 0 .. n /\ k # 0
  BY <1>1
<1>11. p[0] = start /\ \A k \in 1 .. n : p[k] = g(k)
  <2> HIDE DEF g, start, n
  <2> QED BY <1>9, <1>10, Zenon
<1> DEFINE N == {k \in 0 .. n : p[k] \in S}
<1>12. 0 \in N
  <2> HIDE DEF start, n
  <2> QED BY <1>1, <1>11
<1>13. \A k \in 1 .. n : k - 1 \in N => k \in N
  <2> HIDE DEF start, n
  <2> QED BY <1>1, <1>2, <1>11
<1>14. \A k \in 0 .. n : k \in N
  <2> HIDE DEF N, n
  <2> QED BY <1>1, <1>12, <1>13, CountingUp
<1>15. n \in 0 .. n
  BY <1>1
<1> QED BY <1>8, <1>14, <1>15 DEF S

-----------------------------------------------------------------------------
(* Tokens                                                                  *)

\* One more token read.
Added(s, token, atoms, expect) ==
    [s EXCEPT !.i = @ + atoms, !.expect_number = expect, !.tokens = Append(@, token)]

\* The text at i: what tokenize decides by, in the order it does.
Reads(t, s) == s.i \in DOMAIN t /\ Ok(s)
\* The loop of tokenize is at one of these characters.
ReadsChar(t, s, C) == Reads(t, s) /\ Is(t, s.i, "char") /\ At(t, s.i) \in C
\* A sign belongs to the number after it.
Literal(t, s) == s.expect_number /\ Is(t, s.i + 1, "number")

\* The cases of a round, one by one.
LEMMA ReadTokenIs ==
    ASSUME NEW t \in Seq(Atom), NEW s
    PROVE  /\ ~Reads(t, s) => ReadToken(t, s) = s
           /\ Reads(t, s) /\ Is(t, s.i, "number") =>
                 ReadToken(t, s) = Added(s, Number(Wrap(t[s.i].n)), 1, FALSE)
           /\ Reads(t, s) /\ Is(t, s.i, "name") /\ Pair(t, s.i + 1) \in Signs =>
                 ReadToken(t, s) = write_variable(Added(s, Number(s.env[t[s.i].s]), 3, FALSE), t[s.i].s,
                                                  Stepped(s.env[t[s.i].s], Pair(t, s.i + 1)))
           /\ Reads(t, s) /\ Is(t, s.i, "name") /\ Pair(t, s.i + 1) \notin Signs =>
                 ReadToken(t, s) = Added(s, Variable(t[s.i].s), 1, FALSE)
           /\ ReadsChar(t, s, {" "}) => ReadToken(t, s) = [s EXCEPT !.i = @ + 1]
           /\ ReadsChar(t, s, {"-"}) /\ Literal(t, s) =>
                 ReadToken(t, s) = Added(s, Number(wrap_sub(0, Wrap(t[s.i + 1].n))), 2, FALSE)
           /\ ReadsChar(t, s, {"(", "?", ":"}) =>
                 ReadToken(t, s) = Added(s, Mark(At(t, s.i)), 1, TRUE)
           /\ ReadsChar(t, s, {")"}) => ReadToken(t, s) = Added(s, Mark(At(t, s.i)), 1, FALSE)
           /\ ReadsChar(t, s, Character \ {" ", "(", "?", ":", ")"})
              /\ ~(At(t, s.i) = "-" /\ Literal(t, s)) =>
                 LET op == OperatorAt(t, s.i, s.expect_number)
                 IN  ReadToken(t, s) = Added(s, op, Len(op.text), op.op \notin Signs)
           /\ Reads(t, s) =>
                 Is(t, s.i, "number") \/ Is(t, s.i, "name") \/ ReadsChar(t, s, Character)
<1> DEFINE i == s.i
           c == At(t, i)
<1>1. ~Reads(t, s) => ReadToken(t, s) = s
  BY DEF ReadToken, Reads
<1> SUFFICES ASSUME Reads(t, s)
             PROVE  /\ Is(t, i, "number") =>
                          ReadToken(t, s) = Added(s, Number(Wrap(t[s.i].n)), 1, FALSE)
                    /\ Is(t, i, "name") /\ Pair(t, s.i + 1) \in Signs =>
                          ReadToken(t, s) = write_variable(Added(s, Number(s.env[t[s.i].s]), 3, FALSE), t[s.i].s,
                                                           Stepped(s.env[t[s.i].s], Pair(t, s.i + 1)))
                    /\ Is(t, i, "name") /\ Pair(t, s.i + 1) \notin Signs =>
                          ReadToken(t, s) = Added(s, Variable(t[s.i].s), 1, FALSE)
                    /\ Is(t, i, "char") /\ c = " " => ReadToken(t, s) = [s EXCEPT !.i = @ + 1]
                    /\ Is(t, i, "char") /\ c = "-" /\ Literal(t, s) =>
                          ReadToken(t, s) = Added(s, Number(wrap_sub(0, Wrap(t[s.i + 1].n))), 2, FALSE)
                    /\ Is(t, i, "char") /\ c \in {"(", "?", ":"} =>
                          ReadToken(t, s) = Added(s, Mark(At(t, s.i)), 1, TRUE)
                    /\ Is(t, i, "char") /\ c = ")" =>
                          ReadToken(t, s) = Added(s, Mark(At(t, s.i)), 1, FALSE)
                    /\ Is(t, i, "char") /\ c \in Character \ {" ", "(", "?", ":", ")"}
                       /\ ~(c = "-" /\ Literal(t, s)) =>
                          LET op == OperatorAt(t, s.i, s.expect_number)
                          IN  ReadToken(t, s) = Added(s, op, Len(op.text), op.op \notin Signs)
                    /\ Is(t, i, "number") \/ Is(t, i, "name") \/ (Is(t, i, "char") /\ c \in Character)
  BY <1>1 DEF ReadsChar
<1>2. i \in DOMAIN t /\ Ok(s) /\ t[i] \in Atom
  BY ElementOfSeq, LenProperties DEF Reads
<1>3. /\ Is(t, i, "number") \/ Is(t, i, "name") \/ (Is(t, i, "char") /\ c \in Character)
      /\ Is(t, i, "char") => ~Is(t, i, "number") /\ ~Is(t, i, "name")
      /\ Is(t, i, "name") => ~Is(t, i, "number")
  <2> DEFINE a == t[i]
  <2>1. a \in Atom
    BY <1>2
  <2>2. Is(t, i, "number") <=> a.kind = "number"
    BY <1>2 DEF Is
  <2>3. Is(t, i, "name") <=> a.kind = "name"
    BY <1>2 DEF Is
  <2>4. Is(t, i, "char") <=> a.kind = "char"
    BY <1>2 DEF Is
  <2>5. Is(t, i, "char") => c = a.s
    BY DEF At
  <2> HIDE DEF a, c
  <2>6. a.kind \in {"number", "name", "char"} /\ (a.kind = "char" => a.s \in Character)
    BY <2>1 DEF Atom
  <2> QED BY <2>2, <2>3, <2>4, <2>5, <2>6
<1>4. ASSUME Is(t, i, "number")
      PROVE  ReadToken(t, s) = Added(s, Number(Wrap(t[s.i].n)), 1, FALSE)
  <2>1. ~Is(t, i, "name")
    BY <1>3, <1>4
  <2> QED BY <1>2, <1>4, <2>1, Zenon DEF ReadToken, Added
<1>5. ASSUME Is(t, i, "name")
      PROVE  /\ Pair(t, s.i + 1) \in Signs =>
                   ReadToken(t, s) = write_variable(Added(s, Number(s.env[t[s.i].s]), 3, FALSE), t[s.i].s,
                                                    Stepped(s.env[t[s.i].s], Pair(t, s.i + 1)))
             /\ Pair(t, s.i + 1) \notin Signs =>
                   ReadToken(t, s) = Added(s, Variable(t[s.i].s), 1, FALSE)
  BY <1>2, <1>3, <1>5, Zenon DEF ReadToken, Added
<1>6. ASSUME Is(t, i, "char"), c = " " PROVE ReadToken(t, s) = [s EXCEPT !.i = @ + 1]
  BY <1>2, <1>3, <1>6, Zenon DEF ReadToken
<1>7. ASSUME Is(t, i, "char"), c = "-", Literal(t, s)
      PROVE  ReadToken(t, s) = Added(s, Number(wrap_sub(0, Wrap(t[s.i + 1].n))), 2, FALSE)
  BY <1>2, <1>3, <1>7, Zenon DEF ReadToken, Added, Literal
<1>8. ASSUME Is(t, i, "char"), c \in {"(", "?", ":"}
      PROVE  ReadToken(t, s) = Added(s, Mark(At(t, s.i)), 1, TRUE)
  <2>1. c # " " /\ c # "-" /\ c # ")"
    BY <1>8
  <2>2. ~Is(t, i, "number") /\ ~Is(t, i, "name")
    BY <1>3, <1>8
  <2> QED BY <1>2, <1>8, <2>1, <2>2, Zenon DEF ReadToken, Added
<1>9. ASSUME Is(t, i, "char"), c = ")"
      PROVE  ReadToken(t, s) = Added(s, Mark(At(t, s.i)), 1, FALSE)
  <2>1. c # " " /\ c # "-" /\ c \notin {"(", "?", ":"}
    BY <1>9
  <2>2. ~Is(t, i, "number") /\ ~Is(t, i, "name")
    BY <1>3, <1>9
  <2> QED BY <1>2, <1>9, <2>1, <2>2, Zenon DEF ReadToken, Added
<1>10. ASSUME Is(t, i, "char"), c \in Character \ {" ", "(", "?", ":", ")"}, ~(c = "-" /\ Literal(t, s))
       PROVE  LET op == OperatorAt(t, s.i, s.expect_number)
              IN  ReadToken(t, s) = Added(s, op, Len(op.text), op.op \notin Signs)
  <2>1. c # " " /\ c \notin {"(", "?", ":"} /\ c # ")"
    BY <1>10
  <2>2. ~(c = "-" /\ s.expect_number /\ Is(t, i + 1, "number"))
    BY <1>10 DEF Literal
  <2>3. ~Is(t, i, "number") /\ ~Is(t, i, "name")
    BY <1>3, <1>10
  <2> QED BY <1>2, <2>1, <2>2, <2>3, Zenon DEF ReadToken, Added
<1> QED BY <1>3, <1>4, <1>5, <1>6, <1>7, <1>8, <1>9, <1>10

\* The texts of expressions.
Texts == Seq(Atom)

\* What a text is made of.
LEMMA AtomsAre ==
    /\ \A n \in Nat : Num(n) \in Atom
    /\ \A x \in Names : Id(x) \in Atom
    /\ \A c \in Character : Ch(c) \in Atom
<1>1. \A n \in Nat : Num(n) \in Atom
  BY DEF Num, Atom
<1>2. \A x \in Names : Id(x) \in Atom
  BY DEF Id, Atom
<1>3. \A c \in Character : Ch(c) \in Atom
  BY DEF Ch, Atom
<1> QED BY <1>1, <1>2, <1>3

\* An operator of two characters: what it consists of, when it assigns, and that it is
\* none of the others.
Double(op) ==
    /\ op[1] \in Character /\ op[2] \in Character
    /\ op[3] \in Assignments => op[2] = "=" /\ op[1] \notin {"=", "!", "<", ">"}
    /\ op[3] \notin Character \cup {"", "pre++", "pre--", "unary+", "unary-", "?:"}

\* The sixteen operators of two characters, one by one.
LEMMA DoublesAre == \A op \in TwoChars : Double(op)
<1>1. /\ Double(<<"=", "=", "==">>) /\ Double(<<"!", "=", "!=">>) /\ Double(<<"<", "=", "<=">>)
      /\ Double(<<">", "=", ">=">>) /\ Double(<<"&", "&", "&&">>) /\ Double(<<"|", "|", "||">>)
      /\ Double(<<"<", "<", "<<">>) /\ Double(<<">", ">", ">>">>) /\ Double(<<"+", "+", "++">>)
      /\ Double(<<"-", "-", "--">>) /\ Double(<<"*", "*", "**">>)
  BY DEF Double, Character, Assignments
<1>2. /\ Double(<<"+", "=", "+=">>) /\ Double(<<"-", "=", "-=">>) /\ Double(<<"*", "=", "*=">>)
      /\ Double(<<"/", "=", "/=">>) /\ Double(<<"%", "=", "%=">>)
  BY DEF Double, Character, Assignments
<1> QED BY <1>1, <1>2 DEF TwoChars

\* What is at a place of a text, and whether a sign of two characters begins there.
LEMMA PlacesAre ==
    ASSUME NEW t \in Texts, NEW i \in Int
    PROVE  /\ i \in DOMAIN t => t[i] \in Atom
           /\ At(t, i) # "" => i \in DOMAIN t
           /\ At(t, i) \in Character \cup {""}
           /\ \/ Pair(t, i) = "" 
              \/ \E op \in TwoChars : op[1] = At(t, i) /\ op[2] = At(t, i + 1) /\ Pair(t, i) = op[3]
           /\ Pair(t, i) \in Symbols
           /\ Pair(t, i) # "" => i \in DOMAIN t /\ i + 1 \in DOMAIN t
<1>1. DOMAIN t = 1 .. Len(t) /\ Len(t) \in Nat
  BY LenProperties DEF Texts
<1>2. \A k \in DOMAIN t : t[k] \in Atom
  BY <1>1, ElementOfSeq DEF Texts
<1>3. \A k : At(t, k) # "" => k \in DOMAIN t
  BY DEF At, Is
<1>4. \A k \in Int : At(t, k) \in Character \cup {""}
  <2> SUFFICES ASSUME NEW k \in Int, Is(t, k, "char") PROVE t[k].s \in Character
    BY DEF At
  <2> DEFINE a == t[k]
  <2>1. a \in Atom /\ a.kind = "char"
    BY <1>2 DEF Is
  <2> HIDE DEF a
  <2>2. a.s \in Character
    BY <2>1 DEF Atom
  <2> QED BY <2>2 DEF a
<1> DEFINE there == {op \in TwoChars : op[1] = At(t, i) /\ op[2] = At(t, i + 1)}
<1>5. Pair(t, i) = IF there = {} THEN "" ELSE (CHOOSE op \in there : TRUE)[3]
  BY DEF Pair
<1>6. CASE there = {}
  BY <1>2, <1>3, <1>4, <1>5, <1>6 DEF Symbols
<1>7. CASE there # {}
  <2>1. PICK op \in there : Pair(t, i) = op[3]
    <3> HIDE DEF there
    <3> QED BY <1>5, <1>7
  <2>2. op \in TwoChars /\ op[1] = At(t, i) /\ op[2] = At(t, i + 1)
    BY <2>1
  <2>3. op[1] # "" /\ op[2] # ""
    <3>1. op[1] \in Character /\ op[2] \in Character
      BY <2>2, DoublesAre DEF Double
    <3> QED BY <3>1 DEF Character
  <2>4. Pair(t, i) \in Symbols
    BY <2>1, <2>2 DEF Symbols
  <2> QED BY <1>2, <1>3, <1>4, <2>1, <2>2, <2>3, <2>4
<1> QED BY <1>6, <1>7

\* What tokenize adds are tokens.
LEMMA TokensAre ==
    /\ \A v \in Word : Number(v) \in Token
    /\ \A x \in Names : Variable(x) \in Token
    /\ \A c \in {"(", ")", "?", ":"} : Mark(c) \in Token
    /\ \A op \in Symbols : \A text \in Texts : Operator(op, text) \in Token
<1>1. ASSUME NEW v \in Word PROVE Number(v) \in Token
  <2>1. v \in Int
    BY OneIsWord
  <2>2. ToText(v) \in Seq(Atom)
    <3>1. CASE v < 0
      <4>1. -v \in Nat /\ "-" \in Character
        BY <2>1, <3>1 DEF Character
      <4>2. Ch("-") \in Atom /\ Num(-v) \in Atom
        BY <4>1, AtomsAre
      <4>3. <<Ch("-"), Num(-v)>> \in Seq(Atom)
        BY <4>2
      <4> QED BY <3>1, <4>3 DEF ToText
    <3>2. CASE ~(v < 0)
      <4>1. Num(v) \in Atom
        BY <2>1, <3>2, AtomsAre
      <4>2. <<Num(v)>> \in Seq(Atom)
        BY <4>1
      <4> QED BY <3>2, <4>2 DEF ToText
    <3> QED BY <3>1, <3>2
  <2>3. "" \in Symbols
    BY DEF Symbols
  <2> QED BY <2>2, <2>3 DEF Number, Token
<1>2. ASSUME NEW x \in Names PROVE Variable(x) \in Token
  <2>1. <<Id(x)>> \in Seq(Atom)
    BY AtomsAre
  <2> QED BY <2>1 DEF Variable, Token
<1>3. ASSUME NEW c \in {"(", ")", "?", ":"} PROVE Mark(c) \in Token
  <2>1. c \in Character
    BY DEF Character
  <2>2. <<Ch(c)>> \in Seq(Atom)
    BY <2>1, AtomsAre
  <2>3. c \in Symbols /\ 0 \in Word
    BY <2>1, OneIsWord DEF Symbols
  <2> QED BY <2>2, <2>3 DEF Mark, Token
<1>4. ASSUME NEW op \in Symbols, NEW text \in Texts PROVE Operator(op, text) \in Token
  BY OneIsWord DEF Operator, Token, Texts
<1> QED BY <1>1, <1>2, <1>3, <1>4

\* What OperatorAt reads is an operator token, of one character or two.
LEMMA OperatorAtIs ==
    ASSUME NEW t \in Texts, NEW i \in Int, At(t, i) \in Character, NEW expect \in BOOLEAN
    PROVE  LET op == IF Pair(t, i) # "" THEN Pair(t, i) ELSE At(t, i)
               token == OperatorAt(t, i, expect)
           IN  /\ token \in Token /\ token.type = "OPERATOR"
               /\ token.op = IF expect THEN Prefix(op) ELSE op
               /\ Len(token.text) = IF Pair(t, i) # "" THEN 2 ELSE 1
<1> DEFINE op == IF Pair(t, i) # "" THEN Pair(t, i) ELSE At(t, i)
           last == IF Pair(t, i) # "" THEN i + 1 ELSE i
<1>1. DOMAIN t = 1 .. Len(t) /\ Len(t) \in Nat
  BY LenProperties DEF Texts
<1>2. i \in Nat \ {0} /\ i \in 1 .. Len(t)
  <2>1. i \in DOMAIN t
    BY PlacesAre DEF Character
  <2> QED BY <1>1, <2>1
<1>3. op \in Symbols
  BY <1>2, PlacesAre DEF Symbols
<1>4. last \in Int /\ last <= Len(t) /\ i <= last /\ last - i + 1 = IF Pair(t, i) # "" THEN 2 ELSE 1
  <2> DEFINE n == Len(t)
  <2>1. n \in Nat /\ i \in 1 .. n
    BY <1>1, <1>2
  <2>2. Pair(t, i) # "" => i + 1 \in 1 .. n
    BY <1>1, PlacesAre
  <2> HIDE DEF n
  <2>3. CASE Pair(t, i) # ""
    <3>1. last = i + 1 /\ i + 1 \in 1 .. n
      BY <2>2, <2>3
    <3> HIDE DEF last
    <3>2. last \in Int /\ last <= n /\ i <= last /\ last - i + 1 = 2
      BY <2>1, <3>1
    <3> QED BY <2>3, <3>2 DEF n
  <2>4. CASE ~(Pair(t, i) # "")
    <3>1. last = i
      BY <2>4
    <3> HIDE DEF last
    <3>2. last \in Int /\ last <= n /\ i <= last /\ last - i + 1 = 1
      BY <2>1, <3>1
    <3> QED BY <2>4, <3>2 DEF n
  <2> QED BY <2>3, <2>4
<1> HIDE DEF op, last
<1>5. Prefix(op) \in Symbols
  BY <1>3 DEF Prefix, Symbols
<1>6. SubSeq(t, i, last) \in Texts
  BY <1>2, <1>4, PartIs DEF Texts
<1>7. Len(SubSeq(t, i, last)) = last - i + 1
  <2>1. \A k \in i .. last : t[k] \in Atom
    <3>1. \A k \in i .. last : k \in 1 .. Len(t)
      <4> DEFINE n == Len(t)
      <4>1. n \in Nat /\ i \in 1 .. n /\ last \in Int /\ last <= n
        BY <1>1, <1>2, <1>4
      <4> HIDE DEF n
      <4>2. \A k \in i .. last : k \in 1 .. n
        BY <4>1
      <4> QED BY <4>2 DEF n
    <3> QED BY <3>1, ElementOfSeq DEF Texts
  <2> QED BY <1>2, <1>4, <2>1, SubSeqProperties
<1> DEFINE o == IF expect THEN Prefix(op) ELSE op
<1>8. OperatorAt(t, i, expect) = Operator(o, SubSeq(t, i, last))
  BY DEF OperatorAt, op, last
<1>9. o \in Symbols
  BY <1>3, <1>5
<1> HIDE DEF o
<1> DEFINE text == SubSeq(t, i, last)
<1> HIDE DEF text
<1>10. Operator(o, text) \in Token
  BY <1>6, <1>9, TokensAre DEF text
<1>11. Operator(o, text).type = "OPERATOR" /\ Operator(o, text).op = o /\ Operator(o, text).text = text
  BY DEF Operator
<1> QED BY <1>4, <1>7, <1>8, <1>10, <1>11 DEF text, o, op

\* The state of the loop of tokenize.
Reading ==
    [i : Nat \ {0}, expect_number : BOOLEAN, tokens : Seq(Token),
     env : [Names -> Word], fails : {"", "readonly"}]

\* One more element at the end of a sequence.
LEMMA AppendIs ==
    ASSUME NEW S, NEW q \in Seq(S), NEW e \in S
    PROVE  LET more == Append(q, e)
           IN  /\ more \in Seq(S) /\ Len(more) = Len(q) + 1 /\ more[Len(q) + 1] = e
               /\ \A k \in 1 .. Len(q) : more[k] = q[k]
BY AppendProperties

\* Adding a token leaves the variables and the tokens before it alone.
LEMMA AddedIs ==
    ASSUME NEW s \in Reading, NEW token \in Token, NEW atoms \in Nat, NEW expect \in BOOLEAN
    PROVE  LET r == Added(s, token, atoms, expect)
           IN  /\ r \in Reading
               /\ r.i = s.i + atoms /\ r.env = s.env /\ r.fails = s.fails
               /\ Len(r.tokens) = Len(s.tokens) + 1
               /\ r.tokens[Len(s.tokens) + 1] = token
               /\ \A k \in 1 .. Len(s.tokens) : r.tokens[k] = s.tokens[k]
<1> DEFINE r == Added(s, token, atoms, expect)
           tokens == s.tokens
           more == Append(tokens, token)
<1>1. /\ s.i \in Nat \ {0} /\ tokens \in Seq(Token) /\ s.env \in [Names -> Word]
      /\ s.fails \in {"", "readonly"}
  BY DEF Reading
<1>2. /\ more \in Seq(Token) /\ Len(more) = Len(tokens) + 1 /\ more[Len(tokens) + 1] = token
      /\ \A k \in 1 .. Len(tokens) : more[k] = tokens[k]
  <2>1. tokens \in Seq(Token)
    BY <1>1
  <2> HIDE DEF tokens
  <2> QED BY <2>1, AppendIs
<1>3. r = [i |-> s.i + atoms, expect_number |-> expect, tokens |-> more,
           env |-> s.env, fails |-> s.fails]
  <2>1. s = [i |-> s.i, expect_number |-> s.expect_number, tokens |-> tokens,
             env |-> s.env, fails |-> s.fails]
    BY DEF Reading
  <2>2. r = [s EXCEPT !.i = s.i + atoms, !.expect_number = expect, !.tokens = more]
    BY DEF Added
  <2> DEFINE j == s.i + atoms
  <2> HIDE DEF more, tokens, j, r
  <2> QED BY <2>1, <2>2 DEF j
<1>4. s.i + atoms \in Nat \ {0}
  <2> DEFINE j == s.i
  <2>1. j \in Nat \ {0}
    BY <1>1
  <2> HIDE DEF j
  <2>2. j + atoms \in Nat \ {0}
    BY <2>1
  <2> QED BY <2>2 DEF j
<1> HIDE DEF more, tokens, r
<1>5. r \in Reading
  BY <1>1, <1>2, <1>3, <1>4 DEF Reading
<1> QED BY <1>2, <1>3, <1>5 DEF r, tokens

\* Writing a variable keeps the types, whether it is readonly or not.
LEMMA WriteIs ==
    ASSUME NEW s \in Reading, NEW x \in Names, NEW v \in Word
    PROVE  write_variable(s, x, v) \in Reading
<1>1. [s EXCEPT !.fails = "readonly"] \in Reading
  BY DEF Reading
<1>2. s.env \in [Names -> Word]
  BY DEF Reading
<1>3. [s.env EXCEPT ![x] = v] \in [Names -> Word]
  BY <1>2
<1>4. [s EXCEPT !.env = [s.env EXCEPT ![x] = v]] \in Reading
  <2> DEFINE e == [s.env EXCEPT ![x] = v]
  <2>1. e \in [Names -> Word]
    BY <1>3
  <2> HIDE DEF e
  <2>2. [s EXCEPT !.env = e] \in Reading
    BY <2>1 DEF Reading
  <2> QED BY <2>2 DEF e
<1> QED BY <1>1, <1>4 DEF write_variable

\* One more or less is a word.
LEMMA SteppedIs ==
    ASSUME NEW v \in Word, NEW sign
    PROVE  Stepped(v, sign) \in Word
BY WrappedWords, OneIsWord DEF Stepped

\* What a round reads is typed, and written if it is written.
LEMMA ReadTokenTyped ==
    ASSUME NEW t \in Texts, NEW s \in Reading
    PROVE  ReadToken(t, s) \in Reading
<1> DEFINE i == s.i
           c == At(t, i)
<1>1. i \in Nat \ {0} /\ s.expect_number \in BOOLEAN /\ s.env \in [Names -> Word]
  BY DEF Reading
<1>2. t \in Seq(Atom)
  BY DEF Texts
<1>3. /\ Reads(t, s) => t[i] \in Atom
      /\ Is(t, i + 1, "number") => t[i + 1] \in Atom
      /\ c \in Character \cup {""}
  <2>1. i \in Int /\ i + 1 \in Int
    BY <1>1
  <2> QED BY <2>1, PlacesAre DEF Reads, Is
<1>4. \A n \in Nat : Wrap(n) \in Word /\ wrap_sub(0, Wrap(n)) \in Word
  <2> SUFFICES ASSUME NEW n \in Nat PROVE Wrap(n) \in Word /\ wrap_sub(0, Wrap(n)) \in Word
    OBVIOUS
  <2>1. Wrap(n) \in Word
    BY WrapIs
  <2> QED BY <2>1, OneIsWord, WrappedWords
<1>5. ASSUME NEW token \in Token, NEW atoms \in Nat, NEW expect \in BOOLEAN
      PROVE  Added(s, token, atoms, expect) \in Reading
  BY AddedIs
<1>6. CASE ~Reads(t, s)
  BY <1>2, <1>6, ReadTokenIs
<1>7. CASE Reads(t, s) /\ Is(t, i, "number")
  <2>1. t[i].n \in Nat
    BY <1>3, <1>7 DEF Is, Atom
  <2>2. Number(Wrap(t[i].n)) \in Token
    BY <2>1, <1>4, TokensAre
  <2>3. ReadToken(t, s) = Added(s, Number(Wrap(t[i].n)), 1, FALSE)
    BY <1>2, <1>7, ReadTokenIs
  <2> QED BY <1>5, <2>2, <2>3
<1>8. CASE Reads(t, s) /\ Is(t, i, "name")
  <2> DEFINE x == t[i].s
             v == s.env[x]
  <2>1. x \in Names
    BY <1>3, <1>8 DEF Is, Atom
  <2>2. v \in Word
    BY <1>1, <2>1
  <2>3. Variable(x) \in Token /\ Number(v) \in Token
    BY <2>1, <2>2, TokensAre
  <2>4. CASE Pair(t, i + 1) \in Signs
    <3> DEFINE w == Stepped(v, Pair(t, i + 1))
               r == Added(s, Number(v), 3, FALSE)
    <3>1. w \in Word
      BY <2>2, SteppedIs
    <3>2. r \in Reading
      BY <1>5, <2>3
    <3>3. ReadToken(t, s) = write_variable(r, x, w)
      BY <1>2, <1>8, <2>4, ReadTokenIs
    <3> HIDE DEF w, r, x
    <3> QED BY <2>1, <3>1, <3>2, <3>3, WriteIs
  <2>5. CASE Pair(t, i + 1) \notin Signs
    <3>1. ReadToken(t, s) = Added(s, Variable(x), 1, FALSE)
      BY <1>2, <1>8, <2>5, ReadTokenIs
    <3> QED BY <1>5, <2>3, <3>1
  <2> QED BY <2>4, <2>5
<1>9. CASE ReadsChar(t, s, {" "})
  <2>1. ReadToken(t, s) = [s EXCEPT !.i = @ + 1]
    BY <1>2, <1>9, ReadTokenIs
  <2>2. i + 1 \in Nat \ {0}
    BY <1>1
  <2>3. [s EXCEPT !.i = i + 1] \in Reading
    <3> DEFINE j == i + 1
    <3>1. j \in Nat \ {0}
      BY <2>2
    <3> HIDE DEF j
    <3>2. [s EXCEPT !.i = j] \in Reading
      BY <3>1 DEF Reading
    <3> QED BY <3>2 DEF j
  <2> QED BY <2>1, <2>3
<1>10. CASE ReadsChar(t, s, {"-"}) /\ Literal(t, s)
  <2>1. t[i + 1].n \in Nat
    BY <1>3, <1>10 DEF Is, Atom, Literal
  <2>2. Number(wrap_sub(0, Wrap(t[i + 1].n))) \in Token
    BY <2>1, <1>4, TokensAre
  <2>3. ReadToken(t, s) = Added(s, Number(wrap_sub(0, Wrap(t[i + 1].n))), 2, FALSE)
    BY <1>2, <1>10, ReadTokenIs
  <2> QED BY <1>5, <2>2, <2>3
<1>11. CASE ReadsChar(t, s, {"(", "?", ":"})
  <2>1. ReadToken(t, s) = Added(s, Mark(c), 1, TRUE)
    BY <1>2, <1>11, ReadTokenIs
  <2>2. c \in {"(", ")", "?", ":"}
    BY <1>11 DEF ReadsChar
  <2>3. Mark(c) \in Token
    BY <2>2, TokensAre
  <2> QED BY <1>5, <2>1, <2>3
<1>12. CASE ReadsChar(t, s, {")"})
  <2>1. ReadToken(t, s) = Added(s, Mark(c), 1, FALSE)
    BY <1>2, <1>12, ReadTokenIs
  <2>2. c \in {"(", ")", "?", ":"}
    BY <1>12 DEF ReadsChar
  <2>3. Mark(c) \in Token
    BY <2>2, TokensAre
  <2> QED BY <1>5, <2>1, <2>3
<1>13. CASE /\ ReadsChar(t, s, Character \ {" ", "(", "?", ":", ")"})
            /\ ~(c = "-" /\ Literal(t, s))
  <2> DEFINE op == OperatorAt(t, i, s.expect_number)
  <2>1. ReadToken(t, s) = Added(s, op, Len(op.text), op.op \notin Signs)
    BY <1>2, <1>13, ReadTokenIs
  <2>2. c \in Character /\ i \in Int
    <3>1. c \in Character
      BY <1>13 DEF ReadsChar
    <3>2. i \in Int
      BY <1>1
    <3> QED BY <3>1, <3>2
  <2>3. op \in Token /\ Len(op.text) \in Nat
    <3>1. op \in Token /\ (Len(op.text) = 1 \/ Len(op.text) = 2)
      BY <1>1, <2>2, OperatorAtIs
    <3> HIDE DEF op
    <3> QED BY <3>1
  <2> HIDE DEF op
  <2>4. (op.op \notin Signs) \in BOOLEAN
    OBVIOUS
  <2> QED BY <1>5, <2>1, <2>3, <2>4
<1>14. \/ ~Reads(t, s)
       \/ Reads(t, s) /\ Is(t, i, "number")
       \/ Reads(t, s) /\ Is(t, i, "name")
       \/ ReadsChar(t, s, Character)
  BY <1>2, ReadTokenIs
<1>15. ReadsChar(t, s, Character) =>
          \/ ReadsChar(t, s, {" "})
          \/ ReadsChar(t, s, {"-"}) /\ Literal(t, s)
          \/ ReadsChar(t, s, {"(", "?", ":"})
          \/ ReadsChar(t, s, {")"})
          \/ ReadsChar(t, s, Character \ {" ", "(", "?", ":", ")"}) /\ ~(c = "-" /\ Literal(t, s))
  BY DEF ReadsChar
<1> QED BY <1>6, <1>7, <1>8, <1>9, <1>10, <1>11, <1>12, <1>13, <1>14, <1>15

-----------------------------------------------------------------------------
(* The texts whose postfix form is kept                                    *)

\* A = in such a text is that of a comparison.
LEMMA EqualsCompare ==
    ASSUME NEW t \in Texts, expression_is_cacheable(t), NEW i \in Int, At(t, i) = "="
    PROVE  At(t, i - 1) \in {"<", ">", "!"}
<1> DEFINE n == Len(t)
           Runs(k) == At(t, k) = "=" /\ At(t, k - 1) \notin {"<", ">", "!"}
           N == {k \in 0 .. n : Runs(i + k)}
<1>1. n \in Nat /\ DOMAIN t = 1 .. n
  BY LenProperties DEF Texts
<1>2. \A k \in Int : At(t, k) = "=" => k \in 1 .. n
  BY <1>1, PlacesAre
<1>3. \A k \in Int : At(t, k) = "=" => At(t, k - 1) \in {"<", ">", "!"} \/ At(t, k + 1) = "="
  <2>1. \A k \in DOMAIN t : At(t, k) = "=" => At(t, k - 1) \in {"<", ">", "!"} \/ At(t, k + 1) = "="
    BY DEF expression_is_cacheable
  <2> QED BY <1>1, <1>2, <2>1
<1> HIDE DEF n
<1> SUFFICES ASSUME At(t, i - 1) \notin {"<", ">", "!"} PROVE FALSE
  OBVIOUS
<1>4. 0 \in N
  <2>1. i + 0 = i
    OBVIOUS
  <2> QED BY <1>1, <2>1
<1>5. ASSUME NEW k \in 1 .. n, k - 1 \in N PROVE k \in N
  <2> DEFINE j == i + (k - 1)
  <2>1. j \in Int /\ j + 1 = i + k /\ (i + k) - 1 = j /\ k \in 0 .. n
    BY <1>1
  <2>2. At(t, j) = "=" /\ At(t, j - 1) \notin {"<", ">", "!"}
    BY <1>5
  <2> HIDE DEF j
  <2>3. At(t, j + 1) = "="
    BY <1>3, <2>1, <2>2
  <2>4. Runs(i + k)
    BY <2>1, <2>2, <2>3
  <2> HIDE DEF Runs
  <2> QED BY <2>1, <2>4
<1>6. \A k \in 0 .. n : k \in N
  <2> HIDE DEF N
  <2> QED BY <1>1, <1>4, <1>5, CountingUp
<1>7. n \in N
  BY <1>1, <1>6
<1>8. i + n \in 1 .. n /\ i \in 1 .. n
  <2>1. At(t, i + n) = "=" /\ i + n \in Int
    BY <1>1, <1>7
  <2> QED BY <1>2, <2>1
<1> QED BY <1>1, <1>8

\* What has been read of such a text: nothing has failed, no increment and no assignment
\* to a variable is among the tokens, and after a variable nothing has been read that
\* could be one.
Plainly(t, s) ==
    /\ Ok(s)
    /\ \A k \in 1 .. Len(s.tokens) :
          s.tokens[k].type = "OPERATOR" => s.tokens[k].op \notin {"pre++", "pre--"}
    /\ \A k \in 2 .. Len(s.tokens) :
          s.tokens[k].type = "OPERATOR" /\ s.tokens[k].op \in Assignments =>
             s.tokens[k - 1].type # "VARIABLE"
    /\ Len(s.tokens) # 0 /\ s.tokens[Len(s.tokens)].type = "VARIABLE" =>
          At(t, s.i - 1) \in {"", " "}

\* What a token that is read there may be.
Fits(t, s, token, atoms) ==
    /\ token.type = "OPERATOR" =>
          /\ token.op \notin {"pre++", "pre--"}
          /\ token.op \in Assignments => At(t, s.i - 1) \notin {"", " "}
    /\ token.type = "VARIABLE" => At(t, (s.i + atoms) - 1) \in {"", " "}

\* A plain token more and the reading is still plain.
LEMMA AddedPlainly ==
    ASSUME NEW t \in Texts, NEW s \in Reading, Plainly(t, s),
           NEW token \in Token, NEW atoms \in Nat, NEW expect \in BOOLEAN,
           Fits(t, s, token, atoms)
    PROVE  Plainly(t, Added(s, token, atoms, expect))
<1> DEFINE r == Added(s, token, atoms, expect)
           n == Len(s.tokens)
<1>1. /\ r.i = s.i + atoms /\ r.fails = s.fails
      /\ Len(r.tokens) = n + 1 /\ r.tokens[n + 1] = token
      /\ \A k \in 1 .. n : r.tokens[k] = s.tokens[k]
  <2>1. /\ Added(s, token, atoms, expect).i = s.i + atoms
        /\ Added(s, token, atoms, expect).fails = s.fails
        /\ Len(Added(s, token, atoms, expect).tokens) = Len(s.tokens) + 1
        /\ Added(s, token, atoms, expect).tokens[Len(s.tokens) + 1] = token
    BY AddedIs
  <2>2. \A k \in 1 .. Len(s.tokens) : Added(s, token, atoms, expect).tokens[k] = s.tokens[k]
    BY AddedIs
  <2> QED BY <2>1, <2>2
<1>2. n \in Nat
  <2>1. s.tokens \in Seq(Token)
    BY DEF Reading
  <2> QED BY <2>1
<1> HIDE DEF r, n
<1>3. Ok(r)
  BY <1>1 DEF Plainly, Ok
<1> DEFINE m == Len(r.tokens)
<1>7. m = n + 1
  BY <1>1
<1> HIDE DEF m
<1>4. ASSUME NEW k \in 1 .. m, r.tokens[k].type = "OPERATOR"
      PROVE  r.tokens[k].op \notin {"pre++", "pre--"}
  <2>1. k \in 1 .. n \/ k = n + 1
    BY <1>2, <1>7
  <2> QED BY <1>1, <1>4, <2>1 DEF Plainly, Fits, n
<1>5. ASSUME NEW k \in 2 .. m, r.tokens[k].type = "OPERATOR", r.tokens[k].op \in Assignments
      PROVE  r.tokens[k - 1].type # "VARIABLE"
  <2>1. CASE k \in 2 .. n
    <3>1. k \in 1 .. n /\ k - 1 \in 1 .. n
      BY <1>2, <2>1
    <3> QED BY <1>1, <1>5, <2>1, <3>1 DEF Plainly, n
  <2>2. CASE k = n + 1
    <3>1. n # 0 /\ n \in 1 .. n /\ k - 1 = n
      BY <1>2, <1>7, <2>2
    <3>2. At(t, s.i - 1) \notin {"", " "}
      BY <1>1, <1>5, <2>2 DEF Fits
    <3>3. s.tokens[n].type # "VARIABLE"
      BY <3>1, <3>2 DEF Plainly, n
    <3> QED BY <1>1, <3>1, <3>3
  <2>3. k \in 2 .. n \/ k = n + 1
    BY <1>2, <1>7
  <2> QED BY <2>1, <2>2, <2>3
<1>6. r.tokens[Len(r.tokens)].type = "VARIABLE" => At(t, r.i - 1) \in {"", " "}
  BY <1>1 DEF Fits
<1> QED BY <1>3, <1>4, <1>5, <1>6 DEF Plainly, r, m

\* Reading on does not depend on the variables.
With(s, e) == [s EXCEPT !.env = e]
\* Some atoms further on.
Past(s, atoms) == [s EXCEPT !.i = s.i + atoms]

\* Neither of them looks at the variables.
LEMMA AddedAlike ==
    ASSUME NEW s \in Reading, NEW e, NEW token, NEW atoms, NEW expect
    PROVE  /\ Added(With(s, e), token, atoms, expect) = With(Added(s, token, atoms, expect), e)
           /\ Past(With(s, e), atoms) = With(Past(s, atoms), e)
           /\ With(s, e).i = s.i
           /\ With(s, e).expect_number = s.expect_number
           /\ With(s, e).fails = s.fails
           /\ With(s, e).env = e
           /\ Added(s, token, atoms, expect).env = s.env
           /\ Past(s, atoms).env = s.env
<1> DEFINE r == [s EXCEPT !.env = e]
           j == s.i + atoms
           more == Append(s.tokens, token)
<1>1. s = [i |-> s.i, expect_number |-> s.expect_number, tokens |-> s.tokens, env |-> s.env,
           fails |-> s.fails]
  BY DEF Reading
<1>2. r = [i |-> s.i, expect_number |-> s.expect_number, tokens |-> s.tokens, env |-> e,
           fails |-> s.fails]
  BY <1>1
<1>3. /\ r.i = s.i /\ r.expect_number = s.expect_number /\ r.fails = s.fails /\ r.tokens = s.tokens
      /\ r.env = e
  BY <1>2
<1> HIDE DEF r
<1>4. /\ Added(s, token, atoms, expect) = [s EXCEPT !.i = j, !.expect_number = expect, !.tokens = more]
      /\ Added(r, token, atoms, expect) = [r EXCEPT !.i = j, !.expect_number = expect, !.tokens = more]
      /\ [r EXCEPT !.i = s.i + atoms] = [r EXCEPT !.i = j]
  BY <1>3 DEF Added
<1> HIDE DEF j, more
<1>5. /\ [s EXCEPT !.i = j, !.expect_number = expect, !.tokens = more]
            = [i |-> j, expect_number |-> expect, tokens |-> more, env |-> s.env, fails |-> s.fails]
      /\ [r EXCEPT !.i = j, !.expect_number = expect, !.tokens = more]
            = [i |-> j, expect_number |-> expect, tokens |-> more, env |-> e, fails |-> s.fails]
  <2> DEFINE p == [s EXCEPT !.i = j, !.expect_number = expect, !.tokens = more]
             q == [r EXCEPT !.i = j, !.expect_number = expect, !.tokens = more]
  <2>1. p = [s EXCEPT !.i = j, !.expect_number = expect, !.tokens = more]
    OBVIOUS
  <2>2. q = [r EXCEPT !.i = j, !.expect_number = expect, !.tokens = more]
    OBVIOUS
  <2> HIDE DEF p, q
  <2>3. p = [i |-> j, expect_number |-> expect, tokens |-> more, env |-> s.env, fails |-> s.fails]
    BY <1>1, <2>1
  <2>4. q = [i |-> j, expect_number |-> expect, tokens |-> more, env |-> e, fails |-> s.fails]
    BY <1>2, <2>2
  <2> QED BY <2>3, <2>4 DEF p, q
<1>6. /\ [s EXCEPT !.i = j] = [i |-> j, expect_number |-> s.expect_number, tokens |-> s.tokens,
                               env |-> s.env, fails |-> s.fails]
      /\ [r EXCEPT !.i = j] = [i |-> j, expect_number |-> s.expect_number, tokens |-> s.tokens,
                               env |-> e, fails |-> s.fails]
  BY <1>1, <1>2
<1>7. /\ Added(s, token, atoms, expect)
            = [i |-> j, expect_number |-> expect, tokens |-> more, env |-> s.env, fails |-> s.fails]
      /\ Added(r, token, atoms, expect)
            = [i |-> j, expect_number |-> expect, tokens |-> more, env |-> e, fails |-> s.fails]
  BY <1>4, <1>5
<1>8. Added(r, token, atoms, expect) = [Added(s, token, atoms, expect) EXCEPT !.env = e]
  BY <1>7
<1>9. [r EXCEPT !.i = j] = [[s EXCEPT !.i = j] EXCEPT !.env = e]
  BY <1>6
<1>10. Added(s, token, atoms, expect).env = s.env /\ [s EXCEPT !.i = j].env = s.env
  BY <1>6, <1>7
<1> QED BY <1>3, <1>4, <1>8, <1>9, <1>10 DEF r, j, With, Past

\* Where such a text goes on, no increment begins, and an assignment only after a
\* comparison's sign.
LEMMA PlainOperator ==
    ASSUME NEW t \in Texts, expression_is_cacheable(t), NEW i \in Int, At(t, i) \in Character,
           NEW expect \in BOOLEAN
    PROVE  LET token == OperatorAt(t, i, expect)
           IN  /\ token.op \notin {"pre++", "pre--"}
               /\ token.op \in Assignments => At(t, i - 1) \notin {"", " "}
<1> DEFINE op == IF Pair(t, i) # "" THEN Pair(t, i) ELSE At(t, i)
           token == OperatorAt(t, i, expect)
<1>1. token.op = IF expect THEN Prefix(op) ELSE op
  BY OperatorAtIs
<1>2. Pair(t, i) \notin Signs
  <2>1. i \in DOMAIN t
    BY PlacesAre DEF Character
  <2> QED BY <2>1 DEF expression_is_cacheable
<1>3. op \notin {"++", "--", "pre++", "pre--"}
  <2>1. At(t, i) \notin {"++", "--", "pre++", "pre--"}
    BY DEF Character
  <2>2. Pair(t, i) \notin {"pre++", "pre--"}
    <3>1. CASE Pair(t, i) = ""
      BY <3>1
    <3>2. CASE Pair(t, i) # ""
      <4>1. PICK d \in TwoChars : Pair(t, i) = d[3]
        BY <3>2, PlacesAre
      <4> QED BY <4>1, DoublesAre DEF Double
    <3> QED BY <3>1, <3>2
  <2> QED BY <1>2, <2>1, <2>2 DEF Signs
<1>4. op \in Assignments => At(t, i - 1) \notin {"", " "}
  <2>1. CASE Pair(t, i) = ""
    <3> SUFFICES ASSUME At(t, i) \in Assignments PROVE At(t, i - 1) \notin {"", " "}
      BY <2>1
    <3>1. At(t, i) = "="
      BY DEF Assignments, Character
    <3>2. At(t, i - 1) \in {"<", ">", "!"}
      BY <3>1, EqualsCompare
    <3> QED BY <3>2
  <2>2. CASE Pair(t, i) # ""
    <3> SUFFICES ASSUME Pair(t, i) \in Assignments PROVE FALSE
      BY <2>2
    <3>1. PICK d \in TwoChars : d[1] = At(t, i) /\ d[2] = At(t, i + 1) /\ Pair(t, i) = d[3]
      BY <2>2, PlacesAre
    <3>2. At(t, i + 1) = "=" /\ At(t, i) \notin {"=", "!", "<", ">"}
      BY <3>1, DoublesAre DEF Double
    <3> DEFINE j == i + 1
    <3>3. j \in Int /\ j - 1 = i /\ At(t, j) = "="
      BY <3>2
    <3> HIDE DEF j
    <3>4. At(t, j - 1) \in {"<", ">", "!"}
      BY <3>3, EqualsCompare
    <3> QED BY <3>2, <3>3, <3>4
  <2> QED BY <2>1, <2>2
<1> HIDE DEF op, token
<1>5. Prefix(op) \notin {"pre++", "pre--"} /\ (Prefix(op) \in Assignments => op \in Assignments)
  BY <1>3 DEF Prefix, Assignments
<1> QED BY <1>1, <1>3, <1>4, <1>5 DEF token

\* A round on such a text: no variable is read or written.
LEMMA ReadTokenPlainly ==
    ASSUME NEW t \in Texts, expression_is_cacheable(t), NEW s \in Reading, Plainly(t, s), NEW e
    PROVE  LET r == ReadToken(t, s)
           IN  /\ Plainly(t, r) /\ r.env = s.env
               /\ ReadToken(t, With(s, e)) = With(r, e)
<1> DEFINE i == s.i
           c == At(t, i)
           u == With(s, e)
           Good(r, q) == Plainly(t, r) /\ r.env = s.env /\ q = With(r, e)
<1> SUFFICES Good(ReadToken(t, s), ReadToken(t, u))
  OBVIOUS
<1>1. i \in Nat \ {0} /\ s.expect_number \in BOOLEAN /\ s.env \in [Names -> Word]
  BY DEF Reading
<1>2. t \in Seq(Atom)
  BY DEF Texts
<1>3. u.i = i /\ u.expect_number = s.expect_number /\ u.fails = s.fails /\ u.env = e
  BY AddedAlike
<1> HIDE DEF u
<1>4. /\ Reads(t, u) <=> Reads(t, s)
      /\ Literal(t, u) <=> Literal(t, s)
      /\ \A C : ReadsChar(t, u, C) <=> ReadsChar(t, s, C)
  BY <1>3, Zenon DEF Reads, Literal, ReadsChar, Ok
<1>5. ASSUME NEW token \in Token, NEW atoms \in Nat, NEW expect \in BOOLEAN, Fits(t, s, token, atoms)
      PROVE  Good(Added(s, token, atoms, expect), Added(u, token, atoms, expect))
  <2>1. Plainly(t, Added(s, token, atoms, expect))
    BY <1>5, AddedPlainly
  <2>2. Added(s, token, atoms, expect).env = s.env
    BY AddedAlike
  <2>3. Added(u, token, atoms, expect) = With(Added(s, token, atoms, expect), e)
    BY AddedAlike DEF u
  <2> QED BY <2>1, <2>2, <2>3
<1>6. ASSUME NEW token \in Token, NEW atoms, token.type \notin {"OPERATOR", "VARIABLE"}
      PROVE  Fits(t, s, token, atoms)
  BY <1>6 DEF Fits
<1>7. /\ Reads(t, s) => t[i] \in Atom
      /\ Is(t, i + 1, "number") => t[i + 1] \in Atom
      /\ c \in Character \cup {""}
  <2>1. i \in Int /\ i + 1 \in Int
    BY <1>1
  <2> QED BY <2>1, PlacesAre DEF Reads, Is
<1>8. \A n \in Nat : Wrap(n) \in Word /\ wrap_sub(0, Wrap(n)) \in Word
  <2> SUFFICES ASSUME NEW n \in Nat PROVE Wrap(n) \in Word /\ wrap_sub(0, Wrap(n)) \in Word
    OBVIOUS
  <2>1. Wrap(n) \in Word
    BY WrapIs
  <2> QED BY <2>1, OneIsWord, WrappedWords
<1>9. CASE ~Reads(t, s)
  <2>1. ReadToken(t, s) = s /\ ReadToken(t, u) = u
    BY <1>2, <1>4, <1>9, ReadTokenIs
  <2> QED BY <2>1 DEF u
<1>10. CASE Reads(t, s) /\ Is(t, i, "number")
  <2> DEFINE token == Number(Wrap(t[i].n))
  <2>1. t[i].n \in Nat
    BY <1>7, <1>10 DEF Is, Atom
  <2>2. token \in Token /\ token.type = "NUMBER"
    BY <2>1, <1>8, TokensAre DEF Number
  <2>3. ReadToken(t, s) = Added(s, token, 1, FALSE) /\ ReadToken(t, u) = Added(u, token, 1, FALSE)
    <3>1. ReadToken(t, s) = Added(s, token, 1, FALSE)
      BY <1>2, <1>10, ReadTokenIs
    <3>2. ReadToken(t, u) = Added(u, Number(Wrap(t[u.i].n)), 1, FALSE)
      BY <1>2, <1>3, <1>4, <1>10, ReadTokenIs
    <3> QED BY <1>3, <3>1, <3>2
  <2> HIDE DEF token, Good
  <2> QED BY <1>5, <1>6, <2>2, <2>3
<1>11. CASE Reads(t, s) /\ Is(t, i, "name")
  <2> DEFINE token == Variable(t[i].s)
  <2>1. t[i].s \in Names
    BY <1>7, <1>11 DEF Is, Atom
  <2>2. token \in Token /\ token.type = "VARIABLE"
    BY <2>1, TokensAre DEF Variable
  <2>3. Pair(t, i + 1) \notin Signs
    <3>1. i + 1 \in Int
      BY <1>1
    <3>2. CASE Pair(t, i + 1) = ""
      BY <3>2 DEF Signs
    <3>3. CASE Pair(t, i + 1) # ""
      <4>1. i + 1 \in DOMAIN t
        BY <3>1, <3>3, PlacesAre
      <4> QED BY <4>1 DEF expression_is_cacheable
    <3> QED BY <3>2, <3>3
  <2>4. ReadToken(t, s) = Added(s, token, 1, FALSE) /\ ReadToken(t, u) = Added(u, token, 1, FALSE)
    <3>1. ReadToken(t, s) = Added(s, token, 1, FALSE)
      BY <1>2, <1>11, <2>3, ReadTokenIs
    <3>2. ReadToken(t, u) = Added(u, Variable(t[u.i].s), 1, FALSE)
      BY <1>2, <1>3, <1>4, <1>11, <2>3, ReadTokenIs
    <3> QED BY <1>3, <3>1, <3>2
  <2>5. Fits(t, s, token, 1)
    <3>1. t[i].kind = "name"
      BY <1>11 DEF Is
    <3>2. At(t, i) = ""
      BY <3>1 DEF At, Is
    <3>3. (i + 1) - 1 = i
      BY <1>1
    <3> HIDE DEF token
    <3> QED BY <2>2, <3>2, <3>3 DEF Fits
  <2> HIDE DEF token, Good
  <2> QED BY <1>5, <2>2, <2>4, <2>5
<1>12. CASE ReadsChar(t, s, {" "})
  <2> DEFINE r == Past(s, 1)
  <2>1. ReadToken(t, s) = r /\ ReadToken(t, u) = Past(u, 1)
    <3>1. ReadToken(t, s) = r
      BY <1>2, <1>12, ReadTokenIs DEF Past
    <3>2. ReadToken(t, u) = Past(u, 1)
      BY <1>2, <1>4, <1>12, ReadTokenIs DEF Past
    <3> QED BY <3>1, <3>2
  <2>2. Past(u, 1) = With(r, e) /\ r.env = s.env
    BY AddedAlike DEF u
  <2>3. r.i = i + 1 /\ r.tokens = s.tokens /\ r.fails = s.fails
    BY DEF Reading, Past
  <2>4. At(t, i) = " " /\ (i + 1) - 1 = i
    <3>1. At(t, i) = " "
      BY <1>12 DEF ReadsChar
    <3>2. (i + 1) - 1 = i
      BY <1>1
    <3> QED BY <3>1, <3>2
  <2> HIDE DEF r
  <2>5. Plainly(t, r)
    BY <2>3, <2>4, Zenon DEF Plainly, Ok
  <2> QED BY <2>1, <2>2, <2>5
<1>13. CASE ReadsChar(t, s, {"-"}) /\ Literal(t, s)
  <2> DEFINE token == Number(wrap_sub(0, Wrap(t[i + 1].n)))
  <2>1. t[i + 1].n \in Nat
    BY <1>7, <1>13 DEF Is, Atom, Literal
  <2>2. token \in Token /\ token.type = "NUMBER"
    BY <2>1, <1>8, TokensAre DEF Number
  <2>3. ReadToken(t, s) = Added(s, token, 2, FALSE)
    BY <1>2, <1>13, ReadTokenIs
  <2>4. ReadToken(t, u) = Added(u, Number(wrap_sub(0, Wrap(t[u.i + 1].n))), 2, FALSE)
    BY <1>2, <1>4, <1>13, ReadTokenIs
  <2>5. ReadToken(t, u) = Added(u, token, 2, FALSE)
    BY <1>3, <2>4
  <2> HIDE DEF token, Good
  <2> QED BY <1>5, <1>6, <2>2, <2>3, <2>5
<1>14. CASE ReadsChar(t, s, {"(", "?", ":"})
  <2> DEFINE token == Mark(c)
  <2>1. ReadToken(t, s) = Added(s, token, 1, TRUE)
    BY <1>2, <1>14, ReadTokenIs
  <2>2. ReadToken(t, u) = Added(u, Mark(At(t, u.i)), 1, TRUE)
    BY <1>2, <1>4, <1>14, ReadTokenIs
  <2>3. ReadToken(t, u) = Added(u, token, 1, TRUE)
    BY <1>3, <2>2
  <2>4. c \in {"(", ")", "?", ":"}
    BY <1>14 DEF ReadsChar
  <2>5. token \in Token /\ token.type \notin {"OPERATOR", "VARIABLE"}
    BY <2>4, TokensAre DEF Mark
  <2> HIDE DEF token, Good
  <2> QED BY <1>5, <1>6, <2>1, <2>3, <2>5
<1>15. CASE ReadsChar(t, s, {")"})
  <2> DEFINE token == Mark(c)
  <2>1. ReadToken(t, s) = Added(s, token, 1, FALSE)
    BY <1>2, <1>15, ReadTokenIs
  <2>2. ReadToken(t, u) = Added(u, Mark(At(t, u.i)), 1, FALSE)
    BY <1>2, <1>4, <1>15, ReadTokenIs
  <2>3. ReadToken(t, u) = Added(u, token, 1, FALSE)
    BY <1>3, <2>2
  <2>4. c \in {"(", ")", "?", ":"}
    BY <1>15 DEF ReadsChar
  <2>5. token \in Token /\ token.type \notin {"OPERATOR", "VARIABLE"}
    BY <2>4, TokensAre DEF Mark
  <2> HIDE DEF token, Good
  <2> QED BY <1>5, <1>6, <2>1, <2>3, <2>5
<1>16. CASE /\ ReadsChar(t, s, Character \ {" ", "(", "?", ":", ")"})
            /\ ~(c = "-" /\ Literal(t, s))
  <2> DEFINE token == OperatorAt(t, i, s.expect_number)
             n == Len(token.text)
             expect == token.op \notin Signs
  <2>1. ReadToken(t, s) = Added(s, token, n, expect)
    BY <1>2, <1>16, ReadTokenIs
  <2>2. ReadToken(t, u) = LET op == OperatorAt(t, u.i, u.expect_number)
                          IN  Added(u, op, Len(op.text), op.op \notin Signs)
    <3>1. ReadsChar(t, u, Character \ {" ", "(", "?", ":", ")"}) /\ ~(At(t, u.i) = "-" /\ Literal(t, u))
      BY <1>3, <1>4, <1>16, Zenon
    <3> QED BY <1>2, <3>1, ReadTokenIs
  <2>3. ReadToken(t, u) = Added(u, token, n, expect)
    BY <1>3, <2>2
  <2>4. c \in Character /\ i \in Int
    <3>1. c \in Character
      BY <1>16 DEF ReadsChar
    <3>2. i \in Int
      BY <1>1
    <3> QED BY <3>1, <3>2
  <2>5. token \in Token /\ token.type = "OPERATOR" /\ n \in Nat
    <3>1. token \in Token /\ token.type = "OPERATOR" /\ (n = 1 \/ n = 2)
      BY <1>1, <2>4, OperatorAtIs
    <3> HIDE DEF token, n
    <3> QED BY <3>1
  <2>6. /\ token.op \notin {"pre++", "pre--"}
        /\ token.op \in Assignments => At(t, i - 1) \notin {"", " "}
    BY <1>1, <2>4, PlainOperator
  <2>7. expect \in BOOLEAN
    OBVIOUS
  <2> HIDE DEF token, n, expect
  <2>8. Fits(t, s, token, n)
    BY <2>5, <2>6 DEF Fits
  <2> HIDE DEF Good
  <2> QED BY <1>5, <2>1, <2>3, <2>5, <2>7, <2>8
<1>17. \/ ~Reads(t, s)
       \/ Reads(t, s) /\ Is(t, i, "number")
       \/ Reads(t, s) /\ Is(t, i, "name")
       \/ ReadsChar(t, s, Character)
  BY <1>2, ReadTokenIs
<1>18. ReadsChar(t, s, Character) =>
          \/ ReadsChar(t, s, {" "})
          \/ ReadsChar(t, s, {"-"}) /\ Literal(t, s)
          \/ ReadsChar(t, s, {"(", "?", ":"})
          \/ ReadsChar(t, s, {")"})
          \/ ReadsChar(t, s, Character \ {" ", "(", "?", ":", ")"}) /\ ~(c = "-" /\ Literal(t, s))
  BY DEF ReadsChar
<1> HIDE DEF Good
<1> QED BY <1>9, <1>10, <1>11, <1>12, <1>13, <1>14, <1>15, <1>16, <1>17, <1>18

\* The loop of tokenize before its first round.
Opening(values) == [i |-> 1, expect_number |-> TRUE, tokens |-> <<>>, env |-> values, fails |-> ""]
\* The rounds of tokenize.
Readings(t, values) ==
    CHOOSE read : read = [n \in 0 .. Len(t) |->
        IF n = 0 THEN [i |-> 1, expect_number |-> TRUE, tokens |-> <<>>, env |-> values, fails |-> ""]
                 ELSE ReadToken(t, read[n - 1])]

\* The rounds of tokenize.
LEMMA TokenizeIs ==
    ASSUME NEW t \in Texts, NEW e \in [Names -> Word]
    PROVE  LET p == Readings(t, e)
           IN  /\ tokenize(t, e) = p[Len(t)]
               /\ p[0] = Opening(e)
               /\ \A k \in 1 .. Len(t) : p[k] = ReadToken(t, p[k - 1])
               /\ \A k \in 0 .. Len(t) : p[k] \in Reading
<1> DEFINE S == Reading
           n == Len(t)
           start == Opening(e)
           turn == [x \in S \X (1 .. n) |-> ReadToken(t, x[1])]
           Body(p) == [k \in 0 .. n |-> IF k = 0 THEN start ELSE ReadToken(t, p[k - 1])]
           p == Readings(t, e)
<1>1. n \in Nat /\ start \in S
  <2>1. n \in Nat
    BY LenProperties DEF Texts
  <2>2. <<>> \in Seq(Token)
    BY EmptySeq
  <2> QED BY <2>1, <2>2 DEF Opening, Reading
<1>2. \A u \in S : ReadToken(t, u) \in S
  BY ReadTokenTyped
<1>3. turn \in [S \X (1 .. n) -> S]
  BY <1>2
<1> HIDE DEF S
<1>4. PICK f : Loops(f, n, start, turn)
  <2> HIDE DEF turn, start, n
  <2> QED BY <1>1, <1>3, LoopExists
<1>5. f \in [0 .. n -> S]
  <2> HIDE DEF turn, start, n
  <2> QED BY <1>1, <1>3, <1>4, LoopStays
<1>6. f = Body(f)
  <2>1. f = [k \in 0 .. n |-> IF k = 0 THEN start ELSE turn[<<f[k - 1], k>>]]
    <3> HIDE DEF turn, start, n
    <3> QED BY <1>4 DEF Loops
  <2>2. \A k \in 1 .. n : <<f[k - 1], k>> \in S \X (1 .. n)
    <3> HIDE DEF n
    <3> QED BY <1>1, <1>5
  <2>3. \A k \in 1 .. n : turn[<<f[k - 1], k>>] = ReadToken(t, f[k - 1])
    BY <2>2
  <2>4. \A k \in 0 .. n : k = 0 \/ k \in 1 .. n
    BY <1>1
  <2> HIDE DEF turn, start, n
  <2> QED BY <2>1, <2>3, <2>4
<1>7. p = Body(p)
  BY <1>6 DEF Readings, Opening
<1>8. tokenize(t, e) = p[n]
  BY DEF tokenize, Readings
<1> HIDE DEF p
<1> DEFINE g(k) == ReadToken(t, p[k - 1])
<1>9. p = [k \in 0 .. n |-> IF k = 0 THEN start ELSE g(k)]
  BY <1>7
<1>10. 0 \in 0 .. n /\ \A k \in 1 .. n : k \in 0 .. n /\ k # 0
  BY <1>1
<1>11. p[0] = start /\ \A k \in 1 .. n : p[k] = g(k)
  <2> HIDE DEF g, start, n
  <2> QED BY <1>9, <1>10, Zenon
<1> DEFINE N == {k \in 0 .. n : p[k] \in S}
<1>12. 0 \in N
  <2> HIDE DEF start, n
  <2> QED BY <1>1, <1>11
<1>13. \A k \in 1 .. n : k - 1 \in N => k \in N
  <2> HIDE DEF start, n
  <2> QED BY <1>1, <1>2, <1>11
<1>14. \A k \in 0 .. n : k \in N
  <2> HIDE DEF N, n
  <2> QED BY <1>1, <1>12, <1>13, CountingUp
<1> QED BY <1>8, <1>11, <1>14 DEF S, p

\* What tokenize returns, of any text.
LEMMA TokenizeTyped ==
    ASSUME NEW t \in Texts, NEW e \in [Names -> Word]
    PROVE  tokenize(t, e) \in Reading
<1> DEFINE n == Len(t)
<1>1. n \in Nat
  BY LenProperties DEF Texts
<1> HIDE DEF n
<1>2. n \in 0 .. n
  BY <1>1
<1> QED BY <1>2, TokenizeIs DEF n

\* A text is plain if it is read the same whatever the variables are, with no increment
\* or assignment among its tokens.
Plain(t, tokens) ==
    /\ tokens \in Seq(Token)
    /\ Pending(tokens) = {} /\ Prefixed(tokens) = {}
    /\ \A e \in [Names -> Word] :
          Ok(tokenize(t, e)) /\ tokenize(t, e).env = e /\ tokenize(t, e).tokens = tokens

\* With on a record written out.
LEMMA WithIs ==
    ASSUME NEW i, NEW expect, NEW tokens, NEW e, NEW fails, NEW v
    PROVE  With([i |-> i, expect_number |-> expect, tokens |-> tokens, env |-> e, fails |-> fails], v)
              = [i |-> i, expect_number |-> expect, tokens |-> tokens, env |-> v, fails |-> fails]
BY DEF With

\* tokenize reads a cacheable text plainly, changes no variable and gives the same tokens
\* whatever the variables are.
LEMMA CacheableReads ==
    ASSUME NEW t \in Texts, expression_is_cacheable(t), NEW e \in [Names -> Word], NEW v \in [Names -> Word]
    PROVE  LET s == tokenize(t, e)
           IN  Plainly(t, s) /\ s.env = e /\ tokenize(t, v) = With(s, v)
<1> DEFINE n == Len(t)
           p == Readings(t, e)
           q == Readings(t, v)
           N == {k \in 0 .. n : Plainly(t, p[k]) /\ p[k].env = e /\ q[k] = With(p[k], v)}
<1>1. n \in Nat
  BY LenProperties DEF Texts
<1>2. /\ tokenize(t, e) = p[n] /\ p[0] = Opening(e)
      /\ \A k \in 1 .. n : p[k] = ReadToken(t, p[k - 1])
      /\ \A k \in 0 .. n : p[k] \in Reading
  BY TokenizeIs
<1>3. /\ tokenize(t, v) = q[n] /\ q[0] = Opening(v)
      /\ \A k \in 1 .. n : q[k] = ReadToken(t, q[k - 1])
  BY TokenizeIs
<1> HIDE DEF p, q, n
<1>4. 0 \in N
  <2>1. Plainly(t, Opening(e))
    <3>1. Opening(e).tokens = <<>> /\ Opening(e).fails = "" /\ Len(<<>>) = 0
      BY DEF Opening
    <3>2. 1 .. 0 = {} /\ 2 .. 0 = {}
      OBVIOUS
    <3> HIDE DEF Opening
    <3> QED BY <3>1, <3>2 DEF Plainly, Ok
  <2>2. Opening(e).env = e /\ Opening(v) = With(Opening(e), v)
    <3>1. Opening(e).env = e
      BY DEF Opening
    <3> DEFINE first == 1
               yes == TRUE
               none == <<>>
               fine == ""
    <3>2. /\ Opening(e) = [i |-> first, expect_number |-> yes, tokens |-> none, env |-> e, fails |-> fine]
          /\ Opening(v) = [i |-> first, expect_number |-> yes, tokens |-> none, env |-> v, fails |-> fine]
      BY DEF Opening
    <3> HIDE DEF first, yes, none, fine
    <3>3. With([i |-> first, expect_number |-> yes, tokens |-> none, env |-> e, fails |-> fine], v)
             = [i |-> first, expect_number |-> yes, tokens |-> none, env |-> v, fails |-> fine]
      BY WithIs
    <3> QED BY <3>1, <3>2, <3>3
  <2>3. 0 \in 0 .. n
    BY <1>1
  <2> QED BY <1>2, <1>3, <2>1, <2>2, <2>3
<1>5. ASSUME NEW k \in 1 .. n, k - 1 \in N PROVE k \in N
  <2> DEFINE s == p[k - 1]
  <2>1. k - 1 \in 0 .. n /\ k \in 0 .. n
    BY <1>1
  <2>2. s \in Reading /\ Plainly(t, s) /\ s.env = e /\ q[k - 1] = With(s, v)
    BY <1>2, <1>5, <2>1
  <2>3. p[k] = ReadToken(t, s) /\ q[k] = ReadToken(t, With(s, v))
    BY <1>2, <1>3, <2>2
  <2> HIDE DEF s
  <2>4. /\ Plainly(t, ReadToken(t, s)) /\ ReadToken(t, s).env = s.env
        /\ ReadToken(t, With(s, v)) = With(ReadToken(t, s), v)
    BY <2>2, ReadTokenPlainly
  <2> QED BY <2>1, <2>2, <2>3, <2>4
<1>6. n \in N
  <2> HIDE DEF N
  <2>1. \A k \in 0 .. n : k \in N
    BY <1>1, <1>4, <1>5, CountingUp
  <2>2. n \in 0 .. n
    BY <1>1
  <2> QED BY <2>1, <2>2
<1> QED BY <1>2, <1>3, <1>6

\* The tokens of a cacheable text are plain.
LEMMA CacheablePlain ==
    ASSUME NEW t \in Texts, expression_is_cacheable(t), NEW e \in [Names -> Word]
    PROVE  Plain(t, tokenize(t, e).tokens)
<1> DEFINE s == tokenize(t, e)
           tokens == s.tokens
<1>1. s \in Reading
  BY TokenizeTyped
<1>2. Plainly(t, s)
  BY CacheableReads
<1>3. ASSUME NEW v \in [Names -> Word]
      PROVE  Ok(tokenize(t, v)) /\ tokenize(t, v).env = v /\ tokenize(t, v).tokens = tokens
  <2>1. tokenize(t, v) = With(s, v)
    BY CacheableReads
  <2> HIDE DEF s
  <2>2. With(s, v).fails = s.fails /\ With(s, v).env = v /\ With(s, v).tokens = s.tokens
    BY <1>1 DEF Reading, With
  <2> QED BY <1>2, <2>1, <2>2 DEF Plainly, Ok
<1> HIDE DEF s
<1>4. tokens \in Seq(Token)
  BY <1>1 DEF Reading
<1>5. ASSUME NEW i \in Pending(tokens) PROVE FALSE
  <2>1. /\ i \in 2 .. Len(tokens) /\ IsOperator(tokens[i]) /\ tokens[i].op \in Assignments
        /\ tokens[i - 1].type = "VARIABLE"
    BY <1>5 DEF Pending
  <2> QED BY <1>2, <2>1 DEF Plainly, IsOperator
<1>6. ASSUME NEW i \in Prefixed(tokens) PROVE FALSE
  <2> DEFINE m == Len(tokens)
  <2>1. /\ i \in 1 .. m - 1 /\ IsOperator(tokens[i]) /\ tokens[i].op \in {"pre++", "pre--"}
    BY <1>6 DEF Prefixed
  <2>2. m \in Nat /\ (\A k \in 1 .. m : tokens[k].type = "OPERATOR" => tokens[k].op \notin {"pre++", "pre--"})
    BY <1>2, <1>4, LenProperties DEF Plainly
  <2> HIDE DEF m
  <2>3. i \in 1 .. m
    BY <2>1, <2>2
  <2> QED BY <2>1, <2>2, <2>3 DEF IsOperator
<1> QED BY <1>3, <1>4, <1>5, <1>6 DEF Plain, s

-----------------------------------------------------------------------------
(* Increments                                                              *)

\* Elements in the other order.
LEMMA ReverseIs ==
    ASSUME NEW S, NEW s \in Seq(S)
    PROVE  Reverse(s) \in Seq(S)
<1> DEFINE n == Len(s)
           f == [i \in 1 .. n |-> s[(n - i) + 1]]
<1>1. n \in Nat /\ \A i \in 1 .. n : s[i] \in S
  BY LenProperties, ElementOfSeq
<1>2. Reverse(s) = f
  BY DEF Reverse
<1> HIDE DEF n
<1>3. \A i \in 1 .. n : (n - i) + 1 \in 1 .. n
  BY <1>1
<1>4. f \in [1 .. n -> S]
  BY <1>1, <1>3
<1> HIDE DEF f
<1> QED BY <1>1, <1>2, <1>4, SeqDef

\* A sequence without one of its elements.
LEMMA RemoveAtIs ==
    ASSUME NEW S, NEW s \in Seq(S), NEW i \in 1 .. Len(s)
    PROVE  RemoveAt(s, i) \in Seq(S) /\ Len(RemoveAt(s, i)) = Len(s) - 1
<1> DEFINE n == Len(s)
           head == SubSeq(s, 1, i - 1)
           tail == SubSeq(s, i + 1, n)
<1>1. n \in Nat /\ i \in 1 .. n /\ \A k \in 1 .. n : s[k] \in S
  BY LenProperties, ElementOfSeq
<1> HIDE DEF n
<1>2. \A k \in 1 .. i - 1 : s[k] \in S
  BY <1>1
<1>3. \A k \in i + 1 .. n : s[k] \in S
  BY <1>1
<1>4. head \in Seq(S) /\ Len(head) = i - 1
  <2> DEFINE m == i - 1
  <2>1. m \in Int /\ 1 \in Int /\ (IF 1 <= m THEN m - 1 + 1 ELSE 0) = m
    BY <1>1
  <2> HIDE DEF m
  <2>2. SubSeq(s, 1, m) \in Seq(S) /\ Len(SubSeq(s, 1, m)) = IF 1 <= m THEN m - 1 + 1 ELSE 0
    BY <1>2, <2>1, SubSeqProperties DEF m
  <2> QED BY <2>1, <2>2 DEF m
<1>5. tail \in Seq(S) /\ Len(tail) = n - i
  <2> DEFINE m == i + 1
  <2>1. m \in Int /\ n \in Int /\ (IF m <= n THEN n - m + 1 ELSE 0) = n - i
    BY <1>1
  <2> HIDE DEF m
  <2>2. SubSeq(s, m, n) \in Seq(S) /\ Len(SubSeq(s, m, n)) = IF m <= n THEN n - m + 1 ELSE 0
    BY <1>3, <2>1, SubSeqProperties DEF m
  <2> QED BY <2>1, <2>2 DEF m
<1> HIDE DEF head, tail
<1>6. head \o tail \in Seq(S) /\ Len(head \o tail) = Len(head) + Len(tail)
  BY <1>4, <1>5, ConcatProperties
<1>7. (i - 1) + (n - i) = n - 1
  BY <1>1
<1>8. RemoveAt(s, i) = head \o tail
  BY DEF RemoveAt, head, tail, n
<1> QED BY <1>4, <1>5, <1>6, <1>7, <1>8 DEF n

\* The state of handle_increment_operators.
Compiling == [tokens : Seq(Token), env : [Names -> Word], fails : {"", "readonly"}]

\* A variable token names a variable.
LEMMA VariableToken ==
    ASSUME NEW token \in Token, token.type = "VARIABLE"
    PROVE  token.op \in Names
BY DEF Token

\* One prefix increment, or none.
LEMMA IncrementFirstIs ==
    ASSUME NEW s \in Compiling
    PROVE  IncrementFirst(s) \in Compiling
<1> DEFINE tokens == s.tokens
           n == Len(tokens)
           i == Min(Prefixed(tokens))
           x == tokens[i + 1].op
           v == Stepped(s.env[x], IF tokens[i].op = "pre++" THEN "++" ELSE "--")
           less == ReplaceAt(RemoveAt(tokens, i + 1), i, Number(v))
<1>1. tokens \in Seq(Token) /\ s.env \in [Names -> Word] /\ s.fails \in {"", "readonly"}
  BY DEF Compiling
<1>2. n \in Nat
  <2> HIDE DEF tokens
  <2> QED BY <1>1, LenProperties
<1>3. IncrementFirst(s) = IF Prefixed(tokens) = {} \/ ~Ok(s) THEN s
                          ELSE write_variable([s EXCEPT !.tokens = less], x, v)
  BY DEF IncrementFirst
<1> SUFFICES ASSUME Prefixed(tokens) # {} PROVE write_variable([s EXCEPT !.tokens = less], x, v) \in Compiling
  BY <1>3
<1>4. i \in 1 .. n - 1 /\ tokens[i + 1].type = "VARIABLE"
  <2> DEFINE P == Prefixed(tokens)
  <2>1. \A k \in P : k \in 1 .. n - 1 /\ tokens[k + 1].type = "VARIABLE"
    BY DEF Prefixed
  <2>2. P # {}
    OBVIOUS
  <2> HIDE DEF P, n
  <2>3. P \in SUBSET (0 .. n)
    BY <1>2, <2>1
  <2>4. Min(P) \in P
    BY <1>2, <2>2, <2>3, MinIs
  <2> QED BY <2>1, <2>4 DEF P
<1> HIDE DEF i
<1>5. i + 1 \in 1 .. n /\ i \in 1 .. n - 1
  <2> HIDE DEF n
  <2> QED BY <1>2, <1>4
<1>6. x \in Names
  <2>1. tokens[i + 1] \in Token
    <3> DEFINE j == i + 1
    <3> HIDE DEF j, tokens
    <3> QED BY <1>1, <1>5, ElementOfSeq DEF j
  <2> QED BY <1>4, <2>1, VariableToken
<1> HIDE DEF x
<1>7. v \in Word
  <2> DEFINE w == s.env[x]
             sign == IF tokens[i].op = "pre++" THEN "++" ELSE "--"
  <2>1. w \in Word
    BY <1>1, <1>6
  <2> HIDE DEF w, sign
  <2>2. Stepped(w, sign) \in Word
    BY <2>1, SteppedIs
  <2> QED BY <2>2 DEF w, sign
<1> HIDE DEF v
<1>8. less \in Seq(Token)
  <2> DEFINE rest == RemoveAt(tokens, i + 1)
  <2>1. rest \in Seq(Token) /\ Len(rest) = n - 1
    <3> DEFINE j == i + 1
    <3> HIDE DEF j, tokens
    <3> QED BY <1>1, <1>5, RemoveAtIs DEF j
  <2>2. Number(v) \in Token
    BY <1>7, TokensAre
  <2> HIDE DEF rest
  <2>3. i \in 1 .. Len(rest)
    BY <1>5, <2>1
  <2>4. [rest EXCEPT ![i] = Number(v)] \in Seq(Token)
    BY <2>1, <2>2, <2>3, ExceptSeq
  <2> QED BY <2>4 DEF ReplaceAt, rest
<1> HIDE DEF less
<1> DEFINE r == [s EXCEPT !.tokens = less]
<1>9. r \in Compiling
  BY <1>8 DEF Compiling
<1> HIDE DEF r
<1> DEFINE e == [r.env EXCEPT ![x] = v]
<1>10. e \in [Names -> Word]
  BY <1>6, <1>7, <1>9 DEF Compiling
<1> HIDE DEF e
<1>11. [r EXCEPT !.fails = "readonly"] \in Compiling
  BY <1>9 DEF Compiling
<1>12. [r EXCEPT !.env = e] \in Compiling
  BY <1>9, <1>10 DEF Compiling
<1> QED BY <1>11, <1>12 DEF write_variable, e, r

\* The rounds of handle_increment_operators.
Increments(tokens, values) ==
    CHOOSE done : done = [n \in 0 .. Len(tokens) |->
        IF n = 0 THEN [tokens |-> tokens, env |-> values, fails |-> ""] ELSE IncrementFirst(done[n - 1])]

\* All of them; with none the tokens and variables stay as they are.
LEMMA IncrementsAre ==
    ASSUME NEW tokens \in Seq(Token), NEW e \in [Names -> Word]
    PROVE  /\ handle_increment_operators(tokens, e) \in Compiling
           /\ Prefixed(tokens) = {} =>
                 handle_increment_operators(tokens, e) = [tokens |-> tokens, env |-> e, fails |-> ""]
<1> DEFINE S == Compiling
           n == Len(tokens)
           start == [tokens |-> tokens, env |-> e, fails |-> ""]
           turn == [x \in S \X (1 .. n) |-> IncrementFirst(x[1])]
           Body(p) == [k \in 0 .. n |-> IF k = 0 THEN start ELSE IncrementFirst(p[k - 1])]
           p == Increments(tokens, e)
<1>1. n \in Nat /\ start \in S
  BY LenProperties DEF Compiling
<1>2. \A u \in S : IncrementFirst(u) \in S
  BY IncrementFirstIs
<1>3. turn \in [S \X (1 .. n) -> S]
  BY <1>2
<1>a. start.tokens = tokens
  OBVIOUS
<1>b. n \in Nat
  BY <1>1
<1> HIDE DEF S
<1>4. PICK f : Loops(f, n, start, turn)
  <2> HIDE DEF turn, start, n
  <2> QED BY <1>1, <1>3, LoopExists
<1>5. f \in [0 .. n -> S]
  <2> HIDE DEF turn, start, n
  <2> QED BY <1>1, <1>3, <1>4, LoopStays
<1>6. f = Body(f)
  <2>1. f = [k \in 0 .. n |-> IF k = 0 THEN start ELSE turn[<<f[k - 1], k>>]]
    <3> HIDE DEF turn, start, n
    <3> QED BY <1>4 DEF Loops
  <2>2. \A k \in 1 .. n : <<f[k - 1], k>> \in S \X (1 .. n)
    <3> HIDE DEF n
    <3> QED BY <1>b, <1>5
  <2>3. \A k \in 1 .. n : turn[<<f[k - 1], k>>] = IncrementFirst(f[k - 1])
    BY <2>2
  <2>4. \A k \in 0 .. n : k = 0 \/ k \in 1 .. n
    <3> HIDE DEF n
    <3> QED BY <1>b
  <2> HIDE DEF turn, start, n
  <2> QED BY <2>1, <2>3, <2>4
<1>7. p = Body(p)
  BY <1>6 DEF Increments
<1>8. handle_increment_operators(tokens, e) = p[n]
  BY DEF handle_increment_operators, Increments
<1> HIDE DEF p
<1> DEFINE g(k) == IncrementFirst(p[k - 1])
<1>9. p = [k \in 0 .. n |-> IF k = 0 THEN start ELSE g(k)]
  BY <1>7
<1>10. 0 \in 0 .. n /\ n \in 0 .. n /\ \A k \in 1 .. n : k \in 0 .. n /\ k # 0
  <2> HIDE DEF n
  <2> QED BY <1>b
<1>11. p[0] = start /\ \A k \in 1 .. n : p[k] = g(k)
  <2> HIDE DEF g, start, n
  <2> QED BY <1>9, <1>10, Zenon
<1>12. p[n] \in S
  <2> DEFINE N == {k \in 0 .. n : p[k] \in S}
  <2>1. 0 \in N
    <3> HIDE DEF start, n
    <3> QED BY <1>1, <1>11
  <2>2. \A k \in 1 .. n : k - 1 \in N => k \in N
    <3> HIDE DEF start, n
    <3> QED BY <1>1, <1>2, <1>11
  <2>3. \A k \in 0 .. n : k \in N
    <3> HIDE DEF N, n
    <3> QED BY <1>1, <2>1, <2>2, CountingUp
  <2> QED BY <1>10, <2>3
<1>13. ASSUME Prefixed(tokens) = {} PROVE p[n] = start
  <2> DEFINE N == {k \in 0 .. n : p[k] = start}
  <2>1. 0 \in N
    <3> HIDE DEF start, n
    <3> QED BY <1>1, <1>11
  <2>2. IncrementFirst(start) = start
    <3> HIDE DEF start
    <3> QED BY <1>a, <1>13 DEF IncrementFirst
  <2>3. \A k \in 1 .. n : k - 1 \in N => k \in N
    <3> HIDE DEF start, n
    <3> QED BY <1>1, <2>2, <1>11
  <2>4. \A k \in 0 .. n : k \in N
    <3> HIDE DEF N, n
    <3> QED BY <1>1, <2>1, <2>3, CountingUp
  <2> QED BY <1>10, <2>4
<1> QED BY <1>8, <1>12, <1>13 DEF S

-----------------------------------------------------------------------------
(* The postfix form                                                        *)

\* The state of the shunting yard.
Yard == [output : Seq(Token), stack : Seq(Token)]

\* Popping moves tokens to the output.
LEMMA PopIs ==
    ASSUME NEW s \in Yard, NEW stay \in SUBSET (DOMAIN s.stack)
    PROVE  Pop(s, stay) \in Yard
<1> DEFINE stack == s.stack
           output == s.output
           n == Len(stack)
           places == {0} \cup stay
           kept == Max(places)
           above == SubSeq(stack, kept + 1, n)
           below == SubSeq(stack, 1, kept)
<1>1. stack \in Seq(Token) /\ output \in Seq(Token)
  BY DEF Yard
<1>2. n \in Nat /\ DOMAIN stack = 1 .. n
  <2> HIDE DEF stack
  <2> QED BY <1>1, LenProperties
<1>3. kept \in 0 .. n
  <2>1. stay \in SUBSET (1 .. n)
    BY <1>2
  <2> HIDE DEF n
  <2>2. places \in SUBSET (0 .. n) /\ places # {}
    BY <1>2, <2>1
  <2> HIDE DEF places
  <2> QED BY <1>2, <2>2, MaxIs
<1> HIDE DEF stack, output, kept
<1>4. above \in Seq(Token) /\ below \in Seq(Token)
  <2> DEFINE m == kept + 1
  <2>1. m \in Nat \ {0} /\ n \in Int /\ n <= n /\ 1 \in Nat \ {0} /\ kept \in Int /\ kept <= n
    <3> HIDE DEF n
    <3> QED BY <1>2, <1>3
  <2> HIDE DEF m
  <2>2. SubSeq(stack, m, n) \in Seq(Token)
    BY <1>1, <2>1, PartIs
  <2>3. SubSeq(stack, 1, kept) \in Seq(Token)
    BY <1>1, <2>1, PartIs
  <2> QED BY <2>2, <2>3 DEF m
<1> HIDE DEF above, below
<1>5. output \o Reverse(above) \in Seq(Token)
  <2>1. Reverse(above) \in Seq(Token)
    BY <1>4, ReverseIs
  <2> QED BY <1>1, <2>1, ConcatProperties
<1>6. Pop(s, stay) = [output |-> output \o Reverse(above), stack |-> below]
  BY DEF Pop, above, below, output, kept, stack
<1> QED BY <1>4, <1>5, <1>6 DEF Yard

\* So do pushing, dropping and putting out.
LEMMA PushIs ==
    ASSUME NEW s \in Yard, NEW token \in Token
    PROVE  Push(s, token) \in Yard /\ DropTop(s) \in Yard
           /\ [s EXCEPT !.output = Append(s.output, token)] \in Yard
<1> DEFINE stack == s.stack
           output == s.output
           more == Append(stack, token)
           longer == Append(output, token)
           less == IF stack = <<>> THEN <<>> ELSE Front(stack)
<1>1. stack \in Seq(Token) /\ output \in Seq(Token)
  BY DEF Yard
<1>2. more \in Seq(Token) /\ longer \in Seq(Token)
  <2> HIDE DEF stack, output
  <2> QED BY <1>1, AppendProperties
<1>3. less \in Seq(Token)
  <2> HIDE DEF stack
  <2>1. Front(stack) \in Seq(Token)
    <3> DEFINE n == Len(stack)
               m == n - 1
    <3>1. n \in Nat
      BY <1>1, LenProperties
    <3> HIDE DEF n
    <3>2. m \in Int /\ m <= n /\ 1 \in Nat \ {0}
      BY <3>1
    <3> HIDE DEF m
    <3>3. SubSeq(stack, 1, m) \in Seq(Token)
      BY <1>1, <3>2, PartIs DEF n
    <3> QED BY <3>3 DEF Front, m, n
  <2>2. <<>> \in Seq(Token)
    BY EmptySeq
  <2> QED BY <2>1, <2>2
<1> HIDE DEF more, longer, less
<1>4. /\ [s EXCEPT !.stack = more] \in Yard
      /\ [s EXCEPT !.stack = less] \in Yard
      /\ [s EXCEPT !.output = longer] \in Yard
  BY <1>2, <1>3 DEF Yard
<1>5. Push(s, token) = [s EXCEPT !.stack = more]
  BY DEF Push, more
<1>6. DropTop(s) = [s EXCEPT !.stack = less]
  BY DEF DropTop, less
<1> QED BY <1>4, <1>5, <1>6 DEF longer

\* One token of the shunting yard keeps its types.
LEMMA ShuntIs ==
    ASSUME NEW s \in Yard, NEW token \in Token
    PROVE  Shunt(s, token) \in Yard
<1> DEFINE marks(c) == {i \in DOMAIN s.stack : s.stack[i].type = c}
           pastQuestion == Pop(s, marks("?"))
           looser == {i \in DOMAIN s.stack :
               ~IsOperator(s.stack[i]) \/ get_precedence(s.stack[i].op) <= get_precedence("?:")}
           waited == {i \in DOMAIN s.stack : Waits(token, s.stack[i])}
           choice == Operator("?:", <<>>)
<1>1. \A c : Pop(s, marks(c)) \in Yard
  <2> SUFFICES ASSUME NEW c PROVE Pop(s, marks(c)) \in Yard
    OBVIOUS
  <2>1. marks(c) \in SUBSET (DOMAIN s.stack)
    OBVIOUS
  <2> HIDE DEF marks
  <2> QED BY <2>1, PopIs
<1>2. Pop(s, looser) \in Yard
  <2>1. looser \in SUBSET (DOMAIN s.stack)
    OBVIOUS
  <2> HIDE DEF looser
  <2> QED BY <2>1, PopIs
<1>3. Pop(s, waited) \in Yard
  <2>1. waited \in SUBSET (DOMAIN s.stack)
    OBVIOUS
  <2> HIDE DEF waited
  <2> QED BY <2>1, PopIs
<1>4. choice \in Token
  <2>1. "?:" \in Symbols /\ <<>> \in Texts
    BY EmptySeq DEF Symbols, Texts
  <2> QED BY <2>1, TokensAre
<1>5. CASE token.type \in {"NUMBER", "VARIABLE"}
  <2>1. Shunt(s, token) = [s EXCEPT !.output = Append(s.output, token)]
    BY <1>5 DEF Shunt, IsOperator
  <2> QED BY <2>1, PushIs
<1>6. CASE token.type = "OPERATOR"
  <2>1. Shunt(s, token) = Push(Pop(s, waited), token)
    BY <1>6 DEF Shunt, IsOperator
  <2> HIDE DEF waited
  <2> QED BY <1>3, <2>1, PushIs
<1>7. CASE token.type = "("
  <2>1. Shunt(s, token) = Push(s, token)
    BY <1>7 DEF Shunt, IsOperator
  <2> QED BY <2>1, PushIs
<1>8. CASE token.type = ")"
  <2>1. Shunt(s, token) = DropTop(Pop(s, marks("(")))
    BY <1>8 DEF Shunt, IsOperator
  <2> DEFINE r == Pop(s, marks("("))
  <2>2. r \in Yard
    BY <1>1
  <2> HIDE DEF r
  <2>3. DropTop(r) \in Yard
    BY <2>2, PushIs
  <2> QED BY <2>1, <2>3 DEF r
<1>9. CASE token.type = "?"
  <2>1. Shunt(s, token) = Push(Pop(s, looser), token)
    BY <1>9 DEF Shunt, IsOperator
  <2> HIDE DEF looser
  <2> QED BY <1>2, <2>1, PushIs
<1>10. CASE token.type = ":"
  <2>1. Shunt(s, token) = IF pastQuestion.stack = <<>> THEN pastQuestion
                          ELSE Push(DropTop(pastQuestion), choice)
    BY <1>10 DEF Shunt, IsOperator
  <2>2. pastQuestion \in Yard
    BY <1>1
  <2> HIDE DEF pastQuestion, choice
  <2>3. Push(DropTop(pastQuestion), choice) \in Yard
    <3> DEFINE r == DropTop(pastQuestion)
    <3>1. r \in Yard
      BY <1>4, <2>2, PushIs
    <3> HIDE DEF r
    <3>2. Push(r, choice) \in Yard
      BY <1>4, <3>1, PushIs
    <3> QED BY <3>2 DEF r
  <2> QED BY <2>1, <2>2, <2>3
<1>11. token.type \in {"NUMBER", "VARIABLE", "OPERATOR", "(", ")", "?", ":"}
  BY DEF Token
<1> QED BY <1>5, <1>6, <1>7, <1>8, <1>9, <1>10, <1>11

\* The rounds of infix_to_postfix.
Shunts(tokens) ==
    CHOOSE shunted : shunted = [n \in 0 .. Len(tokens) |->
        IF n = 0 THEN [output |-> <<>>, stack |-> <<>>] ELSE Shunt(shunted[n - 1], tokens[n])]

\* The postfix form is made of tokens.
LEMMA PostfixIs ==
    ASSUME NEW tokens \in Seq(Token)
    PROVE  infix_to_postfix(tokens) \in Seq(Token)
<1> DEFINE S == Yard
           n == Len(tokens)
           start == [output |-> <<>>, stack |-> <<>>]
           turn == [x \in S \X (1 .. n) |-> Shunt(x[1], tokens[x[2]])]
           Body(p) == [k \in 0 .. n |-> IF k = 0 THEN start ELSE Shunt(p[k - 1], tokens[k])]
           p == Shunts(tokens)
<1>1. n \in Nat /\ \A k \in 1 .. n : tokens[k] \in Token
  BY LenProperties, ElementOfSeq
<1>a. start \in S
  BY EmptySeq DEF Yard
<1>2. \A u \in S : \A k \in 1 .. n : Shunt(u, tokens[k]) \in S
  <2> SUFFICES ASSUME NEW u \in S, NEW k \in 1 .. n PROVE Shunt(u, tokens[k]) \in S
    OBVIOUS
  <2>1. tokens[k] \in Token
    BY <1>1
  <2> QED BY <2>1, ShuntIs
<1>3. turn \in [S \X (1 .. n) -> S]
  BY <1>2
<1> HIDE DEF S
<1>4. PICK f : Loops(f, n, start, turn)
  <2> HIDE DEF turn, start, n
  <2> QED BY <1>1, <1>a, <1>3, LoopExists
<1>5. f \in [0 .. n -> S]
  <2> HIDE DEF turn, start, n
  <2> QED BY <1>1, <1>a, <1>3, <1>4, LoopStays
<1>6. f = Body(f)
  <2>1. f = [k \in 0 .. n |-> IF k = 0 THEN start ELSE turn[<<f[k - 1], k>>]]
    <3> HIDE DEF turn, start, n
    <3> QED BY <1>4 DEF Loops
  <2>2. \A k \in 1 .. n : <<f[k - 1], k>> \in S \X (1 .. n)
    <3> HIDE DEF n
    <3> QED BY <1>1, <1>5
  <2>3. \A k \in 1 .. n : turn[<<f[k - 1], k>>] = Shunt(f[k - 1], tokens[k])
    BY <2>2
  <2>4. \A k \in 0 .. n : k = 0 \/ k \in 1 .. n
    <3> HIDE DEF n
    <3> QED BY <1>1
  <2> HIDE DEF turn, start, n
  <2> QED BY <2>1, <2>3, <2>4
<1>7. p = Body(p)
  BY <1>6 DEF Shunts
<1>8. infix_to_postfix(tokens) = p[n].output \o Reverse(p[n].stack)
  BY DEF infix_to_postfix, Shunts
<1> HIDE DEF p
<1> DEFINE g(k) == Shunt(p[k - 1], tokens[k])
<1>9. p = [k \in 0 .. n |-> IF k = 0 THEN start ELSE g(k)]
  BY <1>7
<1>10. 0 \in 0 .. n /\ n \in 0 .. n /\ \A k \in 1 .. n : k \in 0 .. n /\ k # 0
  <2> HIDE DEF n
  <2> QED BY <1>1
<1>11. p[0] = start /\ \A k \in 1 .. n : p[k] = g(k)
  <2> HIDE DEF g, start, n
  <2> QED BY <1>9, <1>10, Zenon
<1> DEFINE N == {k \in 0 .. n : p[k] \in S}
<1>12. 0 \in N
  <2> HIDE DEF start, n
  <2> QED BY <1>10, <1>a, <1>11
<1>13. \A k \in 1 .. n : k - 1 \in N => k \in N
  <2> HIDE DEF start, n
  <2> QED BY <1>10, <1>2, <1>11
<1>14. \A k \in 0 .. n : k \in N
  <2> HIDE DEF N, n
  <2> QED BY <1>1, <1>12, <1>13, CountingUp
<1>15. p[n] \in Yard
  BY <1>10, <1>14 DEF S
<1> DEFINE output == p[n].output
           stack == p[n].stack
<1>16. output \in Seq(Token) /\ stack \in Seq(Token)
  <2> DEFINE q == p[n]
  <2>1. q \in Yard
    BY <1>15
  <2> HIDE DEF q
  <2>2. q.output \in Seq(Token) /\ q.stack \in Seq(Token)
    BY <2>1 DEF Yard
  <2> QED BY <2>2 DEF q
<1> HIDE DEF output, stack
<1>17. Reverse(stack) \in Seq(Token)
  BY <1>16, ReverseIs
<1>18. output \o Reverse(stack) \in Seq(Token)
  BY <1>16, <1>17, ConcatProperties
<1> QED BY <1>8, <1>18 DEF output, stack

-----------------------------------------------------------------------------
(* The value of a postfix form                                             *)

\* The state of evaluate_postfix.
Machine == [values : Seq(Word), stop : BOOLEAN]

\* A value takes the place of the topmost k.
Put(s, k, v) == [s EXCEPT !.values = Append(SubSeq(s.values, 1, Len(s.values) - k), v)]

\* That leaves words on the stack.
LEMMA PutIs ==
    ASSUME NEW s \in Machine, NEW k \in Nat, NEW v \in Word
    PROVE  Put(s, k, v) \in Machine
<1> DEFINE values == s.values
           n == Len(values)
           m == n - k
           left == SubSeq(values, 1, m)
           more == Append(left, v)
<1>1. values \in Seq(Word)
  BY DEF Machine
<1>2. n \in Nat
  <2> HIDE DEF values
  <2> QED BY <1>1, LenProperties
<1>3. m \in Int /\ m <= n /\ 1 \in Nat \ {0}
  <2> HIDE DEF n
  <2> QED BY <1>2
<1>4. left \in Seq(Word)
  <2> HIDE DEF values, m
  <2> QED BY <1>1, <1>3, PartIs
<1>5. more \in Seq(Word)
  <2> HIDE DEF left
  <2> QED BY <1>4, AppendProperties
<1>6. Put(s, k, v) = [s EXCEPT !.values = more]
  BY DEF Put
<1> HIDE DEF more
<1> QED BY <1>5, <1>6 DEF Machine

\* The values on top of the stack.
LEMMA TopsAre ==
    ASSUME NEW s \in Machine
    PROVE  LET n == Len(s.values)
           IN  /\ n \in Nat
               /\ n # 0 => s.values[n] \in Word
               /\ ~(n < 2) => s.values[n - 1] \in Word
<1> DEFINE values == s.values
           n == Len(values)
<1>1. values \in Seq(Word)
  BY DEF Machine
<1> HIDE DEF values
<1>2. n \in Nat /\ \A k \in 1 .. n : values[k] \in Word
  BY <1>1, LenProperties, ElementOfSeq
<1> HIDE DEF n
<1>3. /\ n # 0 => n \in 1 .. n
      /\ ~(n < 2) => n - 1 \in 1 .. n
  BY <1>2
<1> QED BY <1>2, <1>3 DEF values, n

\* One token of evaluate_postfix leaves words on the stack, whatever overflows.
LEMMA StepIs ==
    ASSUME NEW s \in Machine, NEW values \in [Names -> Word], NEW token \in Token
    PROVE  Step(values, s, token) \in Machine
<1> DEFINE n == Len(s.values)
           top == s.values[n]
           second == s.values[n - 1]
<1>1. n \in Nat /\ (n # 0 => top \in Word) /\ (~(n < 2) => second \in Word /\ top \in Word)
  <2>1. n \in Nat /\ (n # 0 => top \in Word) /\ (~(n < 2) => second \in Word)
    BY TopsAre
  <2>2. ~(n < 2) => n # 0
    <3> HIDE DEF n
    <3> QED OBVIOUS
  <2> QED BY <2>1, <2>2
<1>2. \A k \in Nat : \A v \in Word : Put(s, k, v) \in Machine
  BY PutIs
<1>3. 0 \in Nat /\ 1 \in Nat /\ 2 \in Nat /\ 3 \in Nat
  OBVIOUS
<1>4. [s EXCEPT !.stop = TRUE] \in Machine
  BY DEF Machine
<1>5. CASE s.stop
  BY <1>5 DEF Step
<1>6. CASE ~s.stop /\ token.type = "NUMBER"
  <2>1. Step(values, s, token) = Put(s, 0, token.value)
    BY <1>6 DEF Step, Put
  <2>2. token.value \in Word
    BY <1>6 DEF Token
  <2> QED BY <1>2, <1>3, <2>1, <2>2
<1>7. CASE ~s.stop /\ token.type = "VARIABLE"
  <2>1. Step(values, s, token) = Put(s, 0, values[token.op])
    BY <1>7 DEF Step, Put
  <2>2. values[token.op] \in Word
    <3>1. token.op \in Names
      BY <1>7, VariableToken
    <3> QED BY <3>1
  <2> QED BY <1>2, <1>3, <2>1, <2>2
<1>8. CASE ~s.stop /\ token.type \in {"(", "?"}
  BY <1>8 DEF Step
<1>9. CASE ~s.stop /\ token.type \notin {"NUMBER", "VARIABLE", "(", "?"}
  <2> DEFINE op == token.op
  <2>1. CASE op \in Unary
    <3>0. op # "?:"
      BY <2>1 DEF Unary
    <3>1. Step(values, s, token) = IF n = 0 THEN s ELSE Put(s, 1, apply_unary_operator(top, op))
      BY <1>9, <2>1, <3>0, Zenon DEF Step, Put
    <3>2. n # 0 => apply_unary_operator(top, op) \in Word
      BY <1>1, OperatorsGiveWords
    <3> QED BY <1>2, <1>3, <3>1, <3>2
  <2>2. CASE op = "?:"
    <3> DEFINE chosen == IF s.values[n - 2] # 0 THEN second ELSE top
    <3>0. "?:" \notin Unary
      BY DEF Unary
    <3>1. Step(values, s, token) = IF n < 3 THEN s ELSE Put(s, 3, chosen)
      BY <1>9, <2>2, <3>0, Zenon DEF Step, Put
    <3>2. ~(n < 3) => chosen \in Word
      <4>1. ~(n < 3) => ~(n < 2)
        <5> HIDE DEF n
        <5> QED BY <1>1
      <4>2. ~(n < 3) => second \in Word /\ top \in Word
        BY <1>1, <4>1
      <4> QED BY <4>2
    <3> HIDE DEF chosen
    <3> QED BY <1>2, <1>3, <3>1, <3>2
  <2>3. CASE op \notin Unary /\ op # "?:"
    <3>1. Step(values, s, token) = IF n < 2 THEN s
                                   ELSE IF DividesByZero(top, op) THEN [s EXCEPT !.stop = TRUE]
                                   ELSE Put(s, 2, apply_binary_operator(second, top, op))
      BY <1>9, <2>3, Zenon DEF Step, Put
    <3>2. ~(n < 2) => apply_binary_operator(second, top, op) \in Word
      BY <1>1, OperatorsGiveWords
    <3> QED BY <1>2, <1>3, <1>4, <3>1, <3>2
  <2> QED BY <2>1, <2>2, <2>3
<1> QED BY <1>5, <1>6, <1>7, <1>8, <1>9

\* The rounds of evaluate_postfix.
Evaluations(postfix, values) ==
    CHOOSE done : done = [n \in 0 .. Len(postfix) |->
        IF n = 0 THEN [values |-> <<>>, stop |-> FALSE] ELSE Step(values, done[n - 1], postfix[n])]

\* What a call returns or throws.
Result == [value : Word, fails : {"", "readonly", "division by zero", "trap"}]

\* The value of a postfix form is a word.
LEMMA ValueIs ==
    ASSUME NEW postfix \in Seq(Token), NEW values \in [Names -> Word]
    PROVE  evaluate_postfix(postfix, values) \in Result
<1> DEFINE S == Machine
           n == Len(postfix)
           start == [values |-> <<>>, stop |-> FALSE]
           turn == [x \in S \X (1 .. n) |-> Step(values, x[1], postfix[x[2]])]
           Body(p) == [k \in 0 .. n |-> IF k = 0 THEN start ELSE Step(values, p[k - 1], postfix[k])]
           p == Evaluations(postfix, values)
<1>1. n \in Nat /\ \A k \in 1 .. n : postfix[k] \in Token
  BY LenProperties, ElementOfSeq
<1>a. start \in S
  <2>1. <<>> \in Seq(Word)
    BY EmptySeq
  <2> QED BY <2>1 DEF Machine
<1>2. \A u \in S : \A k \in 1 .. n : Step(values, u, postfix[k]) \in S
  <2> SUFFICES ASSUME NEW u \in S, NEW k \in 1 .. n PROVE Step(values, u, postfix[k]) \in S
    OBVIOUS
  <2>1. postfix[k] \in Token
    BY <1>1
  <2> QED BY <2>1, StepIs
<1>3. turn \in [S \X (1 .. n) -> S]
  BY <1>2
<1> HIDE DEF S
<1>4. PICK f : Loops(f, n, start, turn)
  <2> HIDE DEF turn, start, n
  <2> QED BY <1>1, <1>a, <1>3, LoopExists
<1>5. f \in [0 .. n -> S]
  <2> HIDE DEF turn, start, n
  <2> QED BY <1>1, <1>a, <1>3, <1>4, LoopStays
<1>6. f = Body(f)
  <2>1. f = [k \in 0 .. n |-> IF k = 0 THEN start ELSE turn[<<f[k - 1], k>>]]
    <3> HIDE DEF turn, start, n
    <3> QED BY <1>4 DEF Loops
  <2>2. \A k \in 1 .. n : <<f[k - 1], k>> \in S \X (1 .. n)
    <3> HIDE DEF n
    <3> QED BY <1>1, <1>5
  <2>3. \A k \in 1 .. n : turn[<<f[k - 1], k>>] = Step(values, f[k - 1], postfix[k])
    BY <2>2
  <2>4. \A k \in 0 .. n : k = 0 \/ k \in 1 .. n
    <3> HIDE DEF n
    <3> QED BY <1>1
  <2> HIDE DEF turn, start, n
  <2> QED BY <2>1, <2>3, <2>4
<1>7. p = Body(p)
  BY <1>6 DEF Evaluations
<1>8. evaluate_postfix(postfix, values) =
         [value |-> IF p[n].stop \/ p[n].values = <<>> THEN 0 ELSE Last(p[n].values),
          fails |-> IF p[n].stop THEN "division by zero" ELSE ""]
  BY DEF evaluate_postfix, Evaluations
<1> HIDE DEF p
<1> DEFINE g(k) == Step(values, p[k - 1], postfix[k])
<1>9. p = [k \in 0 .. n |-> IF k = 0 THEN start ELSE g(k)]
  BY <1>7
<1>10. 0 \in 0 .. n /\ n \in 0 .. n /\ \A k \in 1 .. n : k \in 0 .. n /\ k # 0
  <2> HIDE DEF n
  <2> QED BY <1>1
<1>11. p[0] = start /\ \A k \in 1 .. n : p[k] = g(k)
  <2> HIDE DEF g, start, n
  <2> QED BY <1>9, <1>10, Zenon
<1> DEFINE N == {k \in 0 .. n : p[k] \in S}
<1>12. 0 \in N
  <2> HIDE DEF start, n
  <2> QED BY <1>10, <1>a, <1>11
<1>13. \A k \in 1 .. n : k - 1 \in N => k \in N
  <2> HIDE DEF start, n
  <2> QED BY <1>10, <1>2, <1>11
<1>14. \A k \in 0 .. n : k \in N
  <2> HIDE DEF N, n
  <2> QED BY <1>1, <1>12, <1>13, CountingUp
<1>15. p[n] \in Machine
  BY <1>10, <1>14 DEF S
<1> DEFINE q == p[n]
<1> HIDE DEF q
<1>16. q \in Machine
  BY <1>15 DEF q
<1>17. q.values # <<>> => Last(q.values) \in Word
  <2>1. q.values \in Seq(Word)
    BY <1>16 DEF Machine
  <2>2. q.values # <<>> => Len(q.values) \in Nat \ {0}
    BY <2>1, EmptySeq
  <2>3. q.values # <<>> => Len(q.values) # 0
    BY <2>2
  <2>4. q.values # <<>> => q.values[Len(q.values)] \in Word
    BY <1>16, <2>3, TopsAre
  <2> QED BY <2>4 DEF Last
<1>18. 0 \in Word
  BY OneIsWord
<1> DEFINE v == IF q.stop \/ q.values = <<>> THEN 0 ELSE Last(q.values)
           why == IF q.stop THEN "division by zero" ELSE ""
<1>19. v \in Word /\ why \in {"", "readonly", "division by zero", "trap"}
  BY <1>17, <1>18
<1>20. evaluate_postfix(postfix, values) = [value |-> v, fails |-> why]
  BY <1>8 DEF q
<1> HIDE DEF v, why
<1>21. [value |-> v, fails |-> why] \in Result
  BY <1>19 DEF Result
<1> QED BY <1>20, <1>21

-----------------------------------------------------------------------------
(* Assignments                                                             *)

\* What an assignment stores is a word, the overflowing quotient excepted.
LEMMA AssignedIs ==
    ASSUME NEW op \in Assignments, NEW current \in Word, NEW v \in Word,
           ~(op \in {"/=", "%="} /\ v = 0), ~Traps(op, current, v)
    PROVE  Assigned(op, current, v) \in Word
<1>1. CASE op = "="
  BY <1>1 DEF Assigned
<1>2. CASE op = "+="
  BY <1>2, WrappedWords DEF Assigned
<1>3. CASE op = "-="
  BY <1>3, WrappedWords DEF Assigned
<1>4. CASE op = "*="
  BY <1>4, WrappedWords DEF Assigned
<1>5. CASE op \in {"/=", "%="}
  <2>1. v # 0 /\ ~(v = -1 /\ current = Least)
    BY <1>5 DEF Traps
  <2>2. apply_binary_operator(current, v, "/") = Quotient(current, v)
    BY <2>1, Zenon DEF apply_binary_operator, GuardedQuotient
  <2>3. apply_binary_operator(current, v, "%") = Remainder(current, v)
    BY <2>1, Zenon DEF apply_binary_operator, GuardedRemainder
  <2>4. Quotient(current, v) \in Word /\ Remainder(current, v) \in Word
    <3>1. apply_binary_operator(current, v, "/") \in Word /\ apply_binary_operator(current, v, "%") \in Word
      BY OperatorsGiveWords
    <3> QED BY <2>2, <2>3, <3>1
  <2>5. CASE op = "/="
    BY <2>1, <2>4, <2>5 DEF Assigned
  <2>6. CASE op = "%="
    BY <2>1, <2>4, <2>6 DEF Assigned
  <2> QED BY <1>5, <2>5, <2>6
<1> QED BY <1>1, <1>2, <1>3, <1>4, <1>5 DEF Assignments

\* What an assignment leaves, if it is carried out or not.
LEMMA AssignIs ==
    ASSUME NEW e \in [Names -> Word], NEW x \in Names, NEW op \in Assignments,
           NEW current \in Word, NEW v \in Word
    PROVE  Assign(e, x, op, current, v) \in
               [env : [Names -> Word], fails : {"", "readonly", "division by zero", "trap"}]
<1> DEFINE s == [env |-> e, fails |-> ""]
           w == Assigned(op, current, v)
           S == [env : [Names -> Word], fails : {"", "readonly", "division by zero", "trap"}]
           f == [e EXCEPT ![x] = w]
<1>1. Assign(e, x, op, current, v) =
         IF op \in {"/=", "%="} /\ v = 0 THEN [s EXCEPT !.fails = "division by zero"]
         ELSE IF Traps(op, current, v) THEN [s EXCEPT !.fails = "trap"]
         ELSE IF x \in ReadOnly THEN [s EXCEPT !.fails = "readonly"]
         ELSE [s EXCEPT !.env = f]
  <2>1. s.env = e
    OBVIOUS
  <2> HIDE DEF s, w
  <2>2. Assign(e, x, op, current, v) =
           IF op \in {"/=", "%="} /\ v = 0 THEN [s EXCEPT !.fails = "division by zero"]
           ELSE IF Traps(op, current, v) THEN [s EXCEPT !.fails = "trap"]
           ELSE write_variable(s, x, w)
    BY DEF Assign, s, w
  <2>3. write_variable(s, x, w) = IF x \in ReadOnly THEN [s EXCEPT !.fails = "readonly"]
                                  ELSE [s EXCEPT !.env = f]
    BY <2>1 DEF write_variable
  <2> QED BY <2>2, <2>3
<1>2. s \in S
  OBVIOUS
<1> HIDE DEF s
<1>3. /\ [s EXCEPT !.fails = "division by zero"] \in S
      /\ [s EXCEPT !.fails = "trap"] \in S
      /\ [s EXCEPT !.fails = "readonly"] \in S
  BY <1>2
<1>4. ASSUME ~(op \in {"/=", "%="} /\ v = 0), ~Traps(op, current, v)
      PROVE  [s EXCEPT !.env = f] \in S
  <2>1. w \in Word
    BY <1>4, AssignedIs
  <2> HIDE DEF w
  <2>2. f \in [Names -> Word]
    BY <2>1
  <2> HIDE DEF f
  <2> QED BY <1>2, <2>2
<1> HIDE DEF S, f
<1>5. Assign(e, x, op, current, v) \in S
  BY <1>1, <1>3, <1>4
<1> QED BY <1>5 DEF S

\* The right-hand side ends after its operator.
LEMMA RhsEndIs ==
    ASSUME NEW tokens \in Seq(Token), NEW i \in 1 .. Len(tokens)
    PROVE  RhsEnd(tokens, i) \in i + 1 .. Len(tokens) + 1
<1> DEFINE n == Len(tokens)
           count(c, j) == Cardinality({k \in i + 1 .. j - 1 : tokens[k].type = c})
           closing == {j \in i + 1 .. n : tokens[j].type = ")" /\ count("(", j) = count(")", j)}
           ends == {n + 1} \cup closing
<1>1. n \in Nat /\ i \in 1 .. n
  BY LenProperties
<1>2. RhsEnd(tokens, i) = Min(ends)
  BY DEF RhsEnd
<1>3. closing \subseteq i + 1 .. n
  OBVIOUS
<1> HIDE DEF n, closing
<1>4. ends \in SUBSET (0 .. n + 1) /\ ends # {} /\ ends \subseteq i + 1 .. n + 1 /\ n + 1 \in Nat
  <2>1. n + 1 \in Nat /\ n + 1 \in 0 .. n + 1 /\ n + 1 \in i + 1 .. n + 1
    BY <1>1
  <2>2. i + 1 .. n \subseteq 0 .. n + 1 /\ i + 1 .. n \subseteq i + 1 .. n + 1
    BY <1>1
  <2> QED BY <1>3, <2>1, <2>2
<1> HIDE DEF ends
<1>5. Min(ends) \in ends
  <2> DEFINE m == n + 1
  <2>1. m \in Nat /\ ends \in SUBSET (0 .. m)
    BY <1>4
  <2> HIDE DEF m
  <2> QED BY <1>4, <2>1, MinIs
<1> QED BY <1>2, <1>4, <1>5 DEF n

\* A number in the place of an assignment leaves tokens.
LEMMA ReplacedIs ==
    ASSUME NEW tokens \in Seq(Token), NEW i \in 2 .. Len(tokens), NEW v \in Word
    PROVE  Replaced(tokens, i, v) \in Seq(Token)
<1> DEFINE n == Len(tokens)
           m == i - 2
           end == RhsEnd(tokens, i)
           head == SubSeq(tokens, 1, m)
           tail == SubSeq(tokens, end, n)
<1>1. n \in Nat /\ i \in 2 .. n
  BY LenProperties
<1> HIDE DEF n
<1>2. i \in 1 .. n /\ m \in Int /\ m <= n /\ 1 \in Nat \ {0}
  BY <1>1
<1>3. end \in Nat \ {0} /\ n \in Int /\ n <= n
  <2>1. end \in i + 1 .. n + 1
    BY <1>2, RhsEndIs DEF n
  <2> HIDE DEF end
  <2> QED BY <1>1, <2>1
<1> HIDE DEF m, end
<1>4. head \in Seq(Token) /\ tail \in Seq(Token)
  <2>1. head \in Seq(Token)
    BY <1>2, PartIs DEF n
  <2>2. n <= Len(tokens)
    BY <1>3 DEF n
  <2>3. tail \in Seq(Token)
    BY <1>3, <2>2, PartIs
  <2> QED BY <2>1, <2>3
<1> DEFINE middle == <<Number(v)>>
<1>5. middle \in Seq(Token)
  BY TokensAre
<1> HIDE DEF head, tail, middle
<1>6. head \o middle \in Seq(Token)
  BY <1>4, <1>5, ConcatProperties
<1>7. (head \o middle) \o tail \in Seq(Token)
  <2> DEFINE most == head \o middle
  <2> HIDE DEF most
  <2>1. most \in Seq(Token)
    BY <1>6 DEF most
  <2>2. most \o tail \in Seq(Token)
    BY <1>4, <2>1, ConcatProperties
  <2> QED BY <2>2 DEF most
<1>8. Replaced(tokens, i, v) = (head \o middle) \o tail
  BY DEF Replaced, head, middle, tail, m, n, end
<1> QED BY <1>7, <1>8

\* The sums FlattenSeq concatenates.
Flattenings(seqs) ==
    CHOOSE flatten : flatten = [i \in 1 .. Len(seqs) |->
        IF i = 1 THEN seqs[i] ELSE flatten[i - 1] \o seqs[i]]

\* A concatenation is made of the same elements.
LEMMA FlattenIs ==
    ASSUME NEW A, NEW seqs \in Seq(Seq(A))
    PROVE  FlattenSeq(seqs) \in Seq(A)
<1> DEFINE S == Seq(A)
           n == Len(seqs)
           start == <<>>
           turn == [x \in S \X (1 .. n) |-> IF x[2] = 1 THEN seqs[x[2]] ELSE x[1] \o seqs[x[2]]]
           Body(p) == [k \in 1 .. n |-> IF k = 1 THEN seqs[k] ELSE p[k - 1] \o seqs[k]]
           p == Flattenings(seqs)
<1>1. n \in Nat /\ \A k \in 1 .. n : seqs[k] \in S
  BY LenProperties, ElementOfSeq
<1>a. start \in S
  BY EmptySeq
<1>2. \A u \in S : \A k \in 1 .. n : u \o seqs[k] \in S
  <2> SUFFICES ASSUME NEW u \in S, NEW k \in 1 .. n PROVE u \o seqs[k] \in S
    OBVIOUS
  <2>1. seqs[k] \in S
    BY <1>1
  <2> QED BY <2>1, ConcatProperties
<1> HIDE DEF S
<1>3. turn \in [S \X (1 .. n) -> S]
  BY <1>1, <1>2
<1>4. PICK f : Loops(f, n, start, turn)
  <2> HIDE DEF turn, start, n
  <2> QED BY <1>1, <1>a, <1>3, LoopExists
<1>5. f \in [0 .. n -> S]
  <2> HIDE DEF turn, start, n
  <2> QED BY <1>1, <1>a, <1>3, <1>4, LoopStays
<1>6. \E q : q = Body(q)
  <2> DEFINE q == [k \in 1 .. n |-> f[k]]
  <2>1. f = [k \in 0 .. n |-> IF k = 0 THEN start ELSE turn[<<f[k - 1], k>>]]
    <3> HIDE DEF turn, start, n
    <3> QED BY <1>4 DEF Loops
  <2>2. \A k \in 1 .. n : <<f[k - 1], k>> \in S \X (1 .. n)
    <3> HIDE DEF n
    <3> QED BY <1>1, <1>5
  <2>3. \A k \in 1 .. n : turn[<<f[k - 1], k>>] = IF k = 1 THEN seqs[k] ELSE f[k - 1] \o seqs[k]
    BY <2>2
  <2>4. \A k \in 1 .. n : k # 0 /\ k \in 0 .. n /\ (k # 1 => k - 1 \in 1 .. n)
    <3> HIDE DEF n
    <3> QED BY <1>1
  <2>5. \A k \in 1 .. n : f[k] = turn[<<f[k - 1], k>>]
    <3> DEFINE h(k) == turn[<<f[k - 1], k>>]
    <3>1. f = [k \in 0 .. n |-> IF k = 0 THEN start ELSE h(k)]
      BY <2>1
    <3> HIDE DEF h, start, n
    <3>2. \A k \in 1 .. n : f[k] = h(k)
      BY <2>4, <3>1, Zenon
    <3> QED BY <3>2 DEF h
  <2> HIDE DEF turn, start, n
  <2>6. \A k \in 1 .. n : f[k] = IF k = 1 THEN seqs[k] ELSE q[k - 1] \o seqs[k]
    BY <2>3, <2>4, <2>5
  <2>7. q = Body(q)
    <3> DEFINE r(k) == IF k = 1 THEN seqs[k] ELSE q[k - 1] \o seqs[k]
    <3>1. \A k \in 1 .. n : f[k] = r(k)
      BY <2>6
    <3> HIDE DEF r
    <3>2. [k \in 1 .. n |-> f[k]] = [k \in 1 .. n |-> r(k)]
      BY <3>1, Zenon
    <3> QED BY <3>2 DEF r
  <2> HIDE DEF q
  <2> QED BY <2>7
<1>7. p = Body(p)
  BY <1>6 DEF Flattenings
<1>8. FlattenSeq(seqs) = IF n = 0 THEN seqs ELSE p[n]
  BY DEF FlattenSeq, Flattenings
<1> HIDE DEF p
<1>9. \A k \in 1 .. n : p[k] = IF k = 1 THEN seqs[k] ELSE p[k - 1] \o seqs[k]
  <2> DEFINE g(k) == IF k = 1 THEN seqs[k] ELSE p[k - 1] \o seqs[k]
  <2>1. p = [k \in 1 .. n |-> g(k)]
    BY <1>7
  <2> HIDE DEF g
  <2>2. \A k \in 1 .. n : p[k] = g(k)
    BY <2>1, Zenon
  <2> QED BY <2>2 DEF g
<1> DEFINE N == {k \in 0 .. n : k = 0 \/ p[k] \in S}
<1>10. 0 \in N
  <2> HIDE DEF n
  <2> QED BY <1>1
<1>11. ASSUME NEW k \in 1 .. n, k - 1 \in N PROVE k \in N
  <2> HIDE DEF n
  <2>1. k \in 0 .. n /\ (k # 1 => k - 1 # 0)
    BY <1>1
  <2>2. k # 1 => p[k - 1] \in S
    BY <1>11, <2>1
  <2>3. p[k] \in S
    BY <1>1, <1>2, <1>9, <2>2
  <2> QED BY <2>1, <2>3
<1>12. \A k \in 0 .. n : k \in N
  <2> HIDE DEF N, n
  <2> QED BY <1>1, <1>10, <1>11, CountingUp
<1>13. n # 0 => p[n] \in S
  <2>1. n \in 0 .. n
    <3> HIDE DEF n
    <3> QED BY <1>1
  <2> QED BY <1>12, <2>1
<1>14. n = 0 => seqs \in S
  <2>1. n = 0 => seqs = <<>>
    BY EmptySeq
  <2> QED BY <1>a, <2>1
<1> QED BY <1>8, <1>13, <1>14 DEF S

\* A right-hand side written out is a text.
LEMMA RhsTextIs ==
    ASSUME NEW tokens \in Seq(Token), NEW i \in 1 .. Len(tokens)
    PROVE  RhsText(tokens, i) \in Texts
<1> DEFINE n == Len(tokens)
           m == RhsEnd(tokens, i) - i - 1
           parts == [k \in 1 .. m |-> tokens[i + k].text]
<1>1. n \in Nat /\ i \in 1 .. n /\ \A k \in 1 .. n : tokens[k] \in Token
  BY LenProperties, ElementOfSeq
<1> HIDE DEF n
<1>2. m \in Nat /\ \A k \in 1 .. m : i + k \in 1 .. n
  <2> DEFINE end == RhsEnd(tokens, i)
  <2>1. end \in i + 1 .. n + 1
    BY RhsEndIs DEF n
  <2> HIDE DEF end
  <2>2. end - i - 1 \in Nat /\ \A k \in 1 .. end - i - 1 : i + k \in 1 .. n
    BY <1>1, <2>1
  <2> QED BY <2>2 DEF end
<1> HIDE DEF m
<1>3. \A k \in 1 .. m : tokens[i + k].text \in Texts
  <2> SUFFICES ASSUME NEW k \in 1 .. m PROVE tokens[i + k].text \in Texts
    OBVIOUS
  <2> DEFINE token == tokens[i + k]
  <2>1. token \in Token
    BY <1>1, <1>2
  <2> HIDE DEF token
  <2>2. token.text \in Texts
    BY <2>1 DEF Token, Texts
  <2> QED BY <2>2 DEF token
<1>4. parts \in Seq(Texts)
  <2>1. parts \in [1 .. m -> Texts]
    BY <1>3
  <2> HIDE DEF parts
  <2> QED BY <1>2, <2>1, SeqDef
<1> HIDE DEF parts
<1>5. FlattenSeq(parts) \in Texts
  BY <1>4, FlattenIs DEF Texts
<1> QED BY <1>5 DEF RhsText, parts, m

-----------------------------------------------------------------------------
(* The calls                                                               *)

\* A call that has compiled a text which may be kept has compiled it alone.
Sound(c) ==
    c.next \in {"compile", "assign"} /\ expression_is_cacheable(c.text) =>
        c.next = "compile" /\ Plain(c.text, c.tokens)

\* The calls that keep their promise.
SoundCall == {c \in Call : Sound(c)}

\* The calls that carry texts alone.
LEMMA CallsAre ==
    ASSUME NEW t \in Texts, NEW u \in Texts
    PROVE  /\ Evaluate(t) \in SoundCall
           /\ Choose(t, u) \in SoundCall
           /\ Decide("||", t) \in SoundCall /\ Decide("&&", t) \in SoundCall
           /\ Judge \in SoundCall
<1>1. Evaluate(t) \in Call /\ Evaluate(t).next = "begin"
  BY DEF Evaluate, Call, Texts
<1>2. Choose(t, u) \in Call /\ Choose(t, u).next = "choose"
  BY DEF Choose, Call, Texts
<1>3. \A op \in {"||", "&&"} : Decide(op, t) \in Call /\ Decide(op, t).next = op
  BY DEF Decide, Call, Texts
<1>4. Judge \in Call /\ Judge.next = "judge"
  <2>1. <<>> \in Seq(Atom)
    BY EmptySeq
  <2> QED BY <2>1 DEF Judge, Call
<1>5. \A c \in Call : c.next \notin {"compile", "assign"} => c \in SoundCall
  BY DEF SoundCall, Sound
<1>6. Evaluate(t) \in SoundCall
  BY <1>1, <1>5
<1>7. Choose(t, u) \in SoundCall
  BY <1>2, <1>5
<1>8. Decide("||", t) \in SoundCall /\ Decide("&&", t) \in SoundCall
  <2>1. ASSUME NEW op \in {"||", "&&"} PROVE Decide(op, t) \in SoundCall
    BY <1>3, <1>5
  <2> QED BY <2>1
<1>9. Judge \in SoundCall
  BY <1>4, <1>5
<1> QED BY <1>6, <1>7, <1>8, <1>9

\* A call with tokens is sound if those of a cacheable text are plain.
LEMMA CompileIs ==
    ASSUME NEW t \in Texts, NEW tokens \in Seq(Token),
           expression_is_cacheable(t) => Plain(t, tokens)
    PROVE  Compile(t, tokens) \in SoundCall
<1> DEFINE c == Compile(t, tokens)
<1>1. c \in Call
  BY DEF Compile, Call, Texts
<1>2. c.next = "compile" /\ c.text = t /\ c.tokens = tokens
  BY DEF Compile
<1> HIDE DEF c
<1> QED BY <1>1, <1>2 DEF SoundCall, Sound, c

\* A call waiting for a right-hand side is not about a cacheable text.
LEMMA AssignToIs ==
    ASSUME NEW t \in Texts, NEW tokens \in Seq(Token), NEW at \in Pending(tokens), NEW current \in Word,
           ~expression_is_cacheable(t)
    PROVE  AssignTo(t, tokens, at, current) \in SoundCall
<1> DEFINE c == AssignTo(t, tokens, at, current)
           n == Len(tokens)
<1>1. at \in 2 .. n /\ tokens[at - 1].type = "VARIABLE" /\ tokens[at].op \in Assignments
  BY DEF Pending
<1>2. n \in Nat
  BY LenProperties
<1> HIDE DEF n
<1>3. at \in Nat
  BY <1>1, <1>2
<1>4. c \in [next : {"assign"}, text : Seq(Atom), tokens : Seq(Token), at : Nat, current : Word]
  BY <1>3 DEF AssignTo, Texts
<1>5. c.next = "assign" /\ c.text = t /\ c.tokens = tokens /\ c.at = at
  BY DEF AssignTo
<1> HIDE DEF c
<1>6. c \in {d \in [next : {"assign"}, text : Seq(Atom), tokens : Seq(Token), at : Nat, current : Word] :
                  /\ d.at \in 2 .. Len(d.tokens)
                  /\ d.tokens[d.at - 1].type = "VARIABLE" /\ d.tokens[d.at].op \in Assignments}
  BY <1>1, <1>4, <1>5 DEF n
<1>7. c \in Call
  BY <1>6 DEF Call
<1> QED BY <1>5, <1>7 DEF SoundCall, Sound, c

\* What the fields of a call are, by what it does next.
LEMMA CallIs ==
    ASSUME NEW c \in SoundCall
    PROVE  /\ c.text \in Texts
           /\ c.next = "choose" => c.other \in Texts
           /\ c.next \in {"compile", "assign"} => c.tokens \in Seq(Token)
           /\ c.next = "assign" =>
                 /\ c.at \in 2 .. Len(c.tokens) /\ c.current \in Word
                 /\ c.tokens[c.at - 1].type = "VARIABLE" /\ c.tokens[c.at].op \in Assignments
                 /\ ~expression_is_cacheable(c.text)
           /\ c.next = "compile" /\ expression_is_cacheable(c.text) => Plain(c.text, c.tokens)
<1>1. c \in Call /\ Sound(c)
  BY DEF SoundCall
<1>2. CASE c \in [next : {"begin", "||", "&&", "judge"}, text : Seq(Atom)]
  BY <1>2 DEF Texts
<1>3. CASE c \in [next : {"choose"}, text : Seq(Atom), other : Seq(Atom)]
  BY <1>3 DEF Texts
<1>4. CASE c \in [next : {"compile"}, text : Seq(Atom), tokens : Seq(Token)]
  <2>1. c.next = "compile" /\ c.text \in Seq(Atom) /\ c.tokens \in Seq(Token)
    BY <1>4
  <2> QED BY <1>1, <2>1 DEF Sound, Texts
<1>5. CASE c \in {d \in [next : {"assign"}, text : Seq(Atom), tokens : Seq(Token), at : Nat, current : Word] :
                  /\ d.at \in 2 .. Len(d.tokens)
                  /\ d.tokens[d.at - 1].type = "VARIABLE" /\ d.tokens[d.at].op \in Assignments}
  <2>1. /\ c.next = "assign" /\ c.text \in Seq(Atom) /\ c.tokens \in Seq(Token)
        /\ c.at \in 2 .. Len(c.tokens) /\ c.current \in Word
        /\ c.tokens[c.at - 1].type = "VARIABLE" /\ c.tokens[c.at].op \in Assignments
    BY <1>5
  <2> QED BY <1>1, <2>1 DEF Sound, Texts
<1> QED BY <1>1, <1>2, <1>3, <1>4, <1>5 DEF Call

\* The parts of a text at a lazy operator or a ternary.
LEMMA PartsAre ==
    ASSUME NEW t \in Texts, NEW i \in DOMAIN t, NEW j \in DOMAIN t
    PROVE  /\ SubSeq(t, 1, i - 1) \in Texts
           /\ SubSeq(t, i + 1, j - 1) \in Texts
           /\ SubSeq(t, j + 1, Len(t)) \in Texts
           /\ SubSeq(t, i + 2, Len(t)) \in Texts
<1> DEFINE n == Len(t)
<1>1. n \in Nat /\ i \in 1 .. n /\ j \in 1 .. n
  BY LenProperties DEF Texts
<1>2. ASSUME NEW m \in Nat \ {0}, NEW k \in Int, k <= n PROVE SubSeq(t, m, k) \in Texts
  BY <1>2, PartIs DEF Texts
<1> HIDE DEF n
<1>3. /\ 1 \in Nat \ {0} /\ i + 1 \in Nat \ {0} /\ j + 1 \in Nat \ {0} /\ i + 2 \in Nat \ {0}
      /\ i - 1 \in Int /\ i - 1 <= n /\ j - 1 \in Int /\ j - 1 <= n /\ n \in Int /\ n <= n
  BY <1>1
<1>4. SubSeq(t, 1, i - 1) \in Texts
  BY <1>2, <1>3
<1>5. SubSeq(t, i + 1, j - 1) \in Texts
  BY <1>2, <1>3
<1>6. SubSeq(t, j + 1, n) \in Texts
  BY <1>2, <1>3
<1>7. SubSeq(t, i + 2, n) \in Texts
  BY <1>2, <1>3
<1> QED BY <1>4, <1>5, <1>6, <1>7 DEF n

\* Both places of a ternary are in its text.
LEMMA TernaryIs ==
    ASSUME NEW t \in Texts, find_top_level_ternary(t) # <<>>
    PROVE  find_top_level_ternary(t)[1] \in DOMAIN t /\ find_top_level_ternary(t)[2] \in DOMAIN t
<1> DEFINE n == Len(t)
           top(c) == {i \in TopLevel(t) : At(t, i) = c}
           question == Min(top("?"))
           between(c, j) == Cardinality({i \in top(c) : question < i /\ i < j})
           colons == {j \in top(":") : question < j /\ between("?", j) = between(":", j)}
<1>1. n \in Nat /\ DOMAIN t = 1 .. n
  BY LenProperties DEF Texts
<1>2. find_top_level_ternary(t) = IF top("?") = {} \/ (\A j \in top(":") : j \notin colons)
                                  THEN <<>> ELSE <<question, Min(colons)>>
  BY DEF find_top_level_ternary
<1>3. \A c : top(c) \subseteq 1 .. n
  BY <1>1 DEF TopLevel
<1>4. colons \subseteq 1 .. n
  BY <1>3
<1> DEFINE questions == top("?")
<1>5. questions # {} /\ colons # {} /\ find_top_level_ternary(t) = <<Min(questions), Min(colons)>>
  BY <1>2
<1>6. questions \subseteq 1 .. n
  BY <1>3
<1> HIDE DEF questions, colons, n
<1>7. questions \in SUBSET (0 .. n) /\ colons \in SUBSET (0 .. n)
  <2>1. 1 .. n \subseteq 0 .. n
    BY <1>1
  <2> QED BY <1>4, <1>6, <2>1
<1>8. Min(questions) \in questions /\ Min(colons) \in colons
  BY <1>1, <1>5, <1>7, MinIs
<1>9. Min(questions) \in DOMAIN t /\ Min(colons) \in DOMAIN t
  BY <1>1, <1>4, <1>6, <1>8
<1> DEFINE first == Min(questions)
           second == Min(colons)
<1> HIDE DEF first, second
<1>10. find_top_level_ternary(t) = <<first, second>>
  BY <1>5 DEF first, second
<1>11. find_top_level_ternary(t)[1] = first /\ find_top_level_ternary(t)[2] = second
  BY <1>10
<1> QED BY <1>9, <1>11 DEF first, second

\* So is that of || or &&.
LEMMA LazyIs ==
    ASSUME NEW t \in Texts, NEW op, find_top_level_operator(t, op) # {}
    PROVE  Min(find_top_level_operator(t, op)) \in DOMAIN t
<1> DEFINE n == Len(t)
           places == find_top_level_operator(t, op)
<1>1. n \in Nat /\ DOMAIN t = 1 .. n
  BY LenProperties DEF Texts
<1>2. places \subseteq 1 .. n /\ places # {}
  BY <1>1 DEF find_top_level_operator, TopLevel
<1> HIDE DEF places, n
<1>3. places \in SUBSET (0 .. n)
  <2>1. 1 .. n \subseteq 0 .. n
    BY <1>1
  <2> QED BY <1>2, <2>1
<1>4. Min(places) \in places
  BY <1>1, <1>2, <1>3, MinIs
<1> QED BY <1>1, <1>2, <1>4 DEF places

-----------------------------------------------------------------------------
(* The invariant                                                           *)

\* Every postfix form in the cache is that of a plain text.
CacheSound ==
    \A t \in DOMAIN cache :
        /\ t \in Texts /\ cache[t] \in Seq(Token)
        /\ \E tokens : Plain(t, tokens) /\ cache[t] = infix_to_postfix(tokens)

\* What evaluate relies on and keeps.
Working ==
    /\ env \in [Names -> Word]
    /\ answer \in Result
    /\ calls \in Seq(SoundCall)
    /\ CacheSound

\* The inductive invariant.
IInv == Working /\ before \in [Names -> Word] /\ asked.text \in Texts

\* The innermost call is sound.
LEMMA RunningIs ==
    ASSUME Working, NEW next, Running(next)
    PROVE  /\ calls # <<>> /\ Head(calls) \in SoundCall /\ Head(calls).next = next
           /\ Head(calls).text \in Texts /\ Text \in Texts
<1>1. calls # <<>> /\ Head(calls).next = next
  BY DEF Running
<1>2. Head(calls) \in SoundCall
  BY <1>1, HeadTailProperties DEF Working
<1>3. Head(calls).text \in Texts
  BY <1>2, CallIs
<1>4. Text \in Texts
  BY <1>3, NormalizedIs DEF Text, Texts
<1> QED BY <1>1, <1>2, <1>3, <1>4

\* Sound calls in its place leave a stack of sound calls.
LEMMA BecomeIs ==
    ASSUME Working, calls # <<>>, NEW frames \in Seq(SoundCall), Become(frames)
    PROVE  calls' \in Seq(SoundCall)
<1>1. Tail(calls) \in Seq(SoundCall)
  BY HeadTailProperties DEF Working
<1>2. calls' = frames \o Tail(calls)
  BY DEF Become
<1> QED BY <1>1, <1>2, ConcatProperties

\* So does returning, or throwing.
LEMMA AnswerIs ==
    ASSUME Working, calls # <<>>, NEW result \in Result, Answer(result)
    PROVE  answer' \in Result /\ calls' \in Seq(SoundCall)
<1>1. <<>> \in Seq(SoundCall)
  BY EmptySeq
<1>2. CASE Ok(result)
  <2>1. Become(<<>>)
    BY <1>2 DEF Answer
  <2>2. calls' \in Seq(SoundCall)
    BY <1>1, <2>1, BecomeIs
  <2> QED BY <2>2 DEF Answer
<1>3. CASE ~Ok(result)
  BY <1>1, <1>3 DEF Answer
<1> QED BY <1>2, <1>3

\* What is returned and thrown is of the right type.
LEMMA ResultsAre ==
    /\ \A v \in Word : [value |-> v, fails |-> ""] \in Result
    /\ \A why \in {"readonly", "division by zero", "trap"} : [value |-> 0, fails |-> why] \in Result
    /\ \A b \in BOOLEAN : Truth(b) \in Word
<1>1. 0 \in Word /\ 1 \in Word
  BY OneIsWord
<1> QED BY <1>1 DEF Result, Truth

\* One call or two in the place of one.
LEMMA PairOfCalls ==
    ASSUME NEW c \in SoundCall, NEW d \in SoundCall
    PROVE  <<c>> \in Seq(SoundCall) /\ <<c, d>> \in Seq(SoundCall)
OBVIOUS

-----------------------------------------------------------------------------
(* The steps of evaluate                                                   *)

\* The condition of a ternary.
LEMMA ConditionWorks ==
    ASSUME Working, EvaluateCondition PROVE Working'
<1> DEFINE place == find_top_level_ternary(Text)
<1>1. calls # <<>> /\ Text \in Texts
  BY RunningIs DEF EvaluateCondition
<1>2. Become(<<Evaluate(SubSeq(Text, 1, place[1] - 1)),
               Choose(SubSeq(Text, place[1] + 1, place[2] - 1), SubSeq(Text, place[2] + 1, Len(Text)))>>)
  BY DEF EvaluateCondition
<1>3. UNCHANGED <<env, cache, answer>>
  BY DEF EvaluateCondition
<1>4. place # <<>>
  BY DEF EvaluateCondition, Split
<1> DEFINE t == Text
           i == place[1]
           j == place[2]
<1>5. i \in DOMAIN t /\ j \in DOMAIN t
  BY <1>1, <1>4, TernaryIs
<1>6. t \in Texts
  BY <1>1
<1> HIDE DEF place
<1>7. <<Evaluate(SubSeq(t, 1, i - 1)), Choose(SubSeq(t, i + 1, j - 1), SubSeq(t, j + 1, Len(t)))>>
          \in Seq(SoundCall)
  <2> HIDE DEF t, i, j
  <2>1. /\ SubSeq(t, 1, i - 1) \in Texts /\ SubSeq(t, i + 1, j - 1) \in Texts
        /\ SubSeq(t, j + 1, Len(t)) \in Texts
    BY <1>5, <1>6, PartsAre
  <2>2. Evaluate(SubSeq(t, 1, i - 1)) \in SoundCall
    BY <2>1, CallsAre
  <2>3. Choose(SubSeq(t, i + 1, j - 1), SubSeq(t, j + 1, Len(t))) \in SoundCall
    BY <2>1, CallsAre
  <2> QED BY <2>2, <2>3, PairOfCalls
<1>8. calls' \in Seq(SoundCall)
  BY <1>1, <1>2, <1>7, BecomeIs
<1> QED BY <1>3, <1>8 DEF Working, CacheSound

\* The branch it takes.
LEMMA BranchWorks ==
    ASSUME Working, EvaluateBranch PROVE Working'
<1> DEFINE c == Head(calls)
           t == IF answer.value # 0 THEN c.text ELSE c.other
<1>1. calls # <<>> /\ c \in SoundCall /\ c.next = "choose"
  BY RunningIs DEF EvaluateBranch
<1>2. Become(<<Evaluate(t)>>) /\ UNCHANGED <<env, cache, answer>>
  BY DEF EvaluateBranch
<1> HIDE DEF c
<1>3. t \in Texts
  BY <1>1, CallIs
<1> HIDE DEF t
<1>4. <<Evaluate(t)>> \in Seq(SoundCall)
  BY <1>3, CallsAre, PairOfCalls
<1>5. calls' \in Seq(SoundCall)
  BY <1>1, <1>2, <1>4, BecomeIs
<1> QED BY <1>2, <1>5 DEF Working, CacheSound

\* The left operand of a lazy operator.
LEMMA LeftWorks ==
    ASSUME Working, EvaluateLeft PROVE Working'
<1> DEFINE op == Split(Text)
           t == Text
           i == First(op)
<1>1. calls # <<>> /\ t \in Texts
  BY RunningIs DEF EvaluateLeft
<1>2. /\ op \in {"||", "&&"} /\ UNCHANGED <<env, cache, answer>>
      /\ Become(<<Evaluate(SubSeq(t, 1, i - 1)), Decide(op, SubSeq(t, i + 2, Len(t)))>>)
  BY DEF EvaluateLeft
<1>3. find_top_level_operator(t, op) # {}
  BY <1>2 DEF Split
<1>4. i \in DOMAIN t
  BY <1>1, <1>3, LazyIs DEF First
<1>5. <<Evaluate(SubSeq(t, 1, i - 1)), Decide(op, SubSeq(t, i + 2, Len(t)))>> \in Seq(SoundCall)
  <2> HIDE DEF t, i, op
  <2>1. SubSeq(t, 1, i - 1) \in Texts /\ SubSeq(t, i + 2, Len(t)) \in Texts
    BY <1>1, <1>4, PartsAre
  <2>2. Evaluate(SubSeq(t, 1, i - 1)) \in SoundCall
    BY <2>1, CallsAre
  <2>3. Decide("||", SubSeq(t, i + 2, Len(t))) \in SoundCall /\ Decide("&&", SubSeq(t, i + 2, Len(t))) \in SoundCall
    BY <2>1, CallsAre
  <2>4. Decide(op, SubSeq(t, i + 2, Len(t))) \in SoundCall
    BY <1>2, <2>3
  <2> QED BY <2>2, <2>4, PairOfCalls
<1>6. calls' \in Seq(SoundCall)
  BY <1>1, <1>2, <1>5, BecomeIs
<1> QED BY <1>2, <1>6 DEF Working, CacheSound

\* The right one.
LEMMA RightWorks ==
    ASSUME Working, EvaluateRight PROVE Working'
<1> DEFINE t == Head(calls).text
<1>1. calls # <<>> /\ t \in Texts
  BY RunningIs DEF EvaluateRight
<1>2. Become(<<Evaluate(t), Judge>>) /\ UNCHANGED <<env, cache, answer>>
  BY DEF EvaluateRight
<1> HIDE DEF t
<1>3. <<Evaluate(t), Judge>> \in Seq(SoundCall)
  BY <1>1, CallsAre, PairOfCalls
<1>4. calls' \in Seq(SoundCall)
  BY <1>1, <1>2, <1>3, BecomeIs
<1> QED BY <1>2, <1>4 DEF Working, CacheSound

\* The truth value made of either.
LEMMA TruthWorks ==
    ASSUME Working, SkipRight \/ JudgeRight PROVE Working'
<1> DEFINE v == Truth(answer.value # 0)
           result == [value |-> v, fails |-> ""]
<1>1. calls # <<>>
  BY DEF SkipRight, JudgeRight, Running
<1>2. Answer(result) /\ UNCHANGED <<env, cache>>
  BY DEF SkipRight, JudgeRight, Return
<1>3. v \in Word
  BY ResultsAre
<1> HIDE DEF v
<1>4. result \in Result
  BY <1>3, ResultsAre
<1> HIDE DEF result
<1>5. answer' \in Result /\ calls' \in Seq(SoundCall)
  BY <1>1, <1>2, <1>4, AnswerIs
<1> QED BY <1>2, <1>5 DEF Working, CacheSound

\* A form from the cache is evaluated.
LEMMA CacheWorks ==
    ASSUME Working, UseCache PROVE Working'
<1> DEFINE result == evaluate_postfix(cache[Text], env)
<1>1. calls # <<>>
  BY RunningIs DEF UseCache
<1>2. Answer(result) /\ UNCHANGED <<env, cache>>
  BY DEF UseCache
<1>3. result \in Result
  <2>1. cache[Text] \in Seq(Token) /\ env \in [Names -> Word]
    BY DEF UseCache, Cached, Working, CacheSound
  <2> QED BY <2>1, ValueIs
<1> HIDE DEF result
<1>4. answer' \in Result /\ calls' \in Seq(SoundCall)
  BY <1>1, <1>2, <1>3, AnswerIs
<1> QED BY <1>2, <1>4 DEF Working, CacheSound

\* Tokens of a cacheable text are plain, and change no variable.
LEMMA TokenizeWorks ==
    ASSUME Working, Tokenize PROVE Working'
<1> DEFINE t == Text
           s == tokenize(t, env)
<1>1. calls # <<>> /\ t \in Texts /\ env \in [Names -> Word]
  BY RunningIs DEF Tokenize, Working
<1>2. /\ env' = s.env /\ UNCHANGED cache
      /\ Ok(s) => Become(<<Compile(t, s.tokens)>>) /\ UNCHANGED answer
      /\ ~Ok(s) => Throw(s.fails)
  BY DEF Tokenize
<1>3. s \in Reading
  BY <1>1, TokenizeTyped
<1>4. expression_is_cacheable(t) => Plain(t, s.tokens)
  BY <1>1, CacheablePlain
<1> HIDE DEF s
<1>5. s.env \in [Names -> Word] /\ s.tokens \in Seq(Token) /\ s.fails \in {"", "readonly"}
  BY <1>3 DEF Reading
<1> DEFINE tokens == s.tokens
<1>6. CASE Ok(s)
  <2>1. Compile(t, tokens) \in SoundCall
    BY <1>1, <1>4, <1>5, CompileIs
  <2>2. <<Compile(t, tokens)>> \in Seq(SoundCall)
    BY <2>1, PairOfCalls
  <2>3. calls' \in Seq(SoundCall)
    BY <1>1, <1>2, <1>6, <2>2, BecomeIs
  <2> QED BY <1>2, <1>5, <1>6, <2>3 DEF Working, CacheSound
<1>7. CASE ~Ok(s)
  <2> DEFINE result == [value |-> 0, fails |-> s.fails]
  <2>1. s.fails = "readonly"
    BY <1>5, <1>7 DEF Ok
  <2>2. result \in Result
    BY <2>1, ResultsAre
  <2>3. Answer(result)
    BY <1>2, <1>7 DEF Throw
  <2> HIDE DEF result
  <2>4. answer' \in Result /\ calls' \in Seq(SoundCall)
    BY <1>1, <2>2, <2>3, AnswerIs
  <2> QED BY <1>2, <1>5, <2>4 DEF Working, CacheSound
<1> QED BY <1>6, <1>7

\* A text with an assignment is not cacheable, so nothing is promised of its tokens.
LEMMA RhsWorks ==
    ASSUME Working, EvaluateRhs PROVE Working'
<1> DEFINE c == Head(calls)
           tokens == c.tokens
           i == Max(Pending(tokens))
           x == tokens[i - 1].op
<1>1. calls # <<>> /\ c \in SoundCall /\ c.next = "compile" /\ c.text \in Texts /\ env \in [Names -> Word]
  BY RunningIs DEF EvaluateRhs, Working
<1>2. /\ Pending(tokens) # {} /\ UNCHANGED <<env, cache, answer>>
      /\ Become(<<Evaluate(RhsText(tokens, i)), AssignTo(c.text, tokens, i, env[x])>>)
  BY DEF EvaluateRhs
<1> HIDE DEF c
<1>3. tokens \in Seq(Token) /\ ~expression_is_cacheable(c.text)
  <2>1. tokens \in Seq(Token)
    BY <1>1, CallIs
  <2>2. expression_is_cacheable(c.text) => Plain(c.text, tokens)
    BY <1>1, CallIs
  <2> QED BY <1>2, <2>1, <2>2 DEF Plain
<1> HIDE DEF tokens
<1>4. i \in Pending(tokens) /\ i \in 2 .. Len(tokens)
  <2> DEFINE n == Len(tokens)
             P == Pending(tokens)
  <2>1. n \in Nat /\ P \subseteq 2 .. n /\ P # {}
    BY <1>2, <1>3, LenProperties DEF Pending
  <2> HIDE DEF n, P
  <2>2. P \in SUBSET (0 .. n)
    BY <2>1
  <2>3. Max(P) \in P
    BY <2>1, <2>2, MaxIs
  <2> QED BY <2>1, <2>3 DEF P, n
<1> HIDE DEF i
<1>5. i \in 1 .. Len(tokens) /\ i - 1 \in 1 .. Len(tokens)
  <2> DEFINE n == Len(tokens)
  <2>1. n \in Nat /\ i \in 2 .. n
    BY <1>3, <1>4, LenProperties
  <2> HIDE DEF n
  <2>2. i \in 1 .. n /\ i - 1 \in 1 .. n
    BY <2>1
  <2> QED BY <2>2 DEF n
<1>6. env[x] \in Word
  <2> DEFINE token == tokens[i - 1]
  <2>1. token \in Token
    <3> DEFINE k == i - 1
    <3> HIDE DEF k
    <3> QED BY <1>3, <1>5, ElementOfSeq DEF k
  <2>2. token.type = "VARIABLE"
    BY <1>4 DEF Pending
  <2> HIDE DEF token
  <2>3. token.op \in Names
    BY <2>1, <2>2, VariableToken
  <2> QED BY <1>1, <2>3 DEF token
<1> DEFINE current == env[x]
           text == c.text
<1> HIDE DEF x, current, text
<1>7. AssignTo(text, tokens, i, current) \in SoundCall
  <2>1. current \in Word
    BY <1>6 DEF current
  <2>2. text \in Texts /\ ~expression_is_cacheable(text)
    BY <1>1, <1>3 DEF text
  <2> QED BY <1>3, <1>4, <2>1, <2>2, AssignToIs
<1>8. Evaluate(RhsText(tokens, i)) \in SoundCall
  <2>1. RhsText(tokens, i) \in Texts
    BY <1>3, <1>5, RhsTextIs
  <2> QED BY <2>1, CallsAre
<1> DEFINE frames == <<Evaluate(RhsText(tokens, i)), AssignTo(text, tokens, i, current)>>
<1>9. frames \in Seq(SoundCall)
  BY <1>7, <1>8, PairOfCalls
<1>10. Become(frames)
  BY <1>2 DEF x, current, text
<1> HIDE DEF frames
<1>11. calls' \in Seq(SoundCall)
  BY <1>1, <1>9, <1>10, BecomeIs
<1> QED BY <1>2, <1>11 DEF Working, CacheSound

\* The assignment changes a variable and some tokens, both to words.
LEMMA AssignWorks ==
    ASSUME Working, AssignRhs PROVE Working'
<1> DEFINE c == Head(calls)
           at == c.at
           tokens == c.tokens
           x == tokens[at - 1].op
           op == tokens[at].op
           s == Assign(env, x, op, c.current, answer.value)
           v == env'[x]
<1>1. calls # <<>> /\ c \in SoundCall /\ c.next = "assign" /\ c.text \in Texts
      /\ env \in [Names -> Word] /\ answer \in Result
  BY RunningIs DEF AssignRhs, Working
<1>2. /\ env' = s.env /\ UNCHANGED cache
      /\ Ok(s) => Become(<<Compile(c.text, Replaced(tokens, at, v))>>) /\ UNCHANGED answer
      /\ ~Ok(s) => Throw(s.fails)
  BY DEF AssignRhs
<1> HIDE DEF c
<1>3. /\ tokens \in Seq(Token) /\ at \in 2 .. Len(tokens) /\ c.current \in Word
      /\ tokens[at - 1].type = "VARIABLE" /\ op \in Assignments
      /\ ~expression_is_cacheable(c.text)
  BY <1>1, CallIs
<1> HIDE DEF tokens, at
<1>4. x \in Names
  <2> DEFINE k == at - 1
             token == tokens[k]
  <2>1. k \in 1 .. Len(tokens)
    <3> DEFINE n == Len(tokens)
    <3>1. n \in Nat /\ at \in 2 .. n
      BY <1>3, LenProperties
    <3> HIDE DEF n
    <3>2. at - 1 \in 1 .. n
      BY <3>1
    <3> QED BY <3>2 DEF n
  <2> HIDE DEF k
  <2>2. token \in Token
    BY <1>3, <2>1, ElementOfSeq
  <2>3. token.type = "VARIABLE"
    BY <1>3 DEF k
  <2> HIDE DEF token
  <2>4. token.op \in Names
    BY <2>2, <2>3, VariableToken
  <2> QED BY <2>4 DEF token, k
<1> HIDE DEF x, op
<1>5. answer.value \in Word
  BY <1>1 DEF Result
<1> DEFINE S == [env : [Names -> Word], fails : {"", "readonly", "division by zero", "trap"}]
<1>6. s \in S
  <2> DEFINE w == answer.value
             current == c.current
  <2>1. w \in Word /\ current \in Word
    BY <1>3, <1>5
  <2> HIDE DEF w, current
  <2>2. Assign(env, x, op, current, w) \in S
    BY <1>1, <1>3, <1>4, <2>1, AssignIs
  <2> QED BY <2>2 DEF w, current
<1> HIDE DEF s
<1>7. s.env \in [Names -> Word] /\ s.fails \in {"", "readonly", "division by zero", "trap"}
  BY <1>6
<1>8. env' \in [Names -> Word]
  BY <1>2, <1>7
<1>9. v \in Word
  BY <1>4, <1>8
<1> HIDE DEF v
<1>10. CASE Ok(s)
  <2> DEFINE text == c.text
             less == Replaced(tokens, at, v)
  <2>1. less \in Seq(Token)
    BY <1>3, <1>9, ReplacedIs
  <2>2. text \in Texts /\ ~expression_is_cacheable(text)
    BY <1>1, <1>3
  <2>3. Become(<<Compile(text, less)>>) /\ UNCHANGED answer
    BY <1>2, <1>10
  <2> HIDE DEF text, less
  <2>4. Compile(text, less) \in SoundCall
    BY <2>1, <2>2, CompileIs
  <2>5. <<Compile(text, less)>> \in Seq(SoundCall)
    BY <2>4, PairOfCalls
  <2>6. calls' \in Seq(SoundCall)
    BY <1>1, <2>3, <2>5, BecomeIs
  <2> QED BY <1>2, <1>8, <2>3, <2>6 DEF Working, CacheSound
<1>11. CASE ~Ok(s)
  <2> DEFINE why == s.fails
             result == [value |-> 0, fails |-> why]
  <2>1. why \in {"readonly", "division by zero", "trap"}
    BY <1>7, <1>11 DEF Ok
  <2>2. Answer(result)
    BY <1>2, <1>11 DEF Throw
  <2> HIDE DEF why
  <2>3. result \in Result
    BY <2>1, ResultsAre
  <2> HIDE DEF result
  <2>4. answer' \in Result /\ calls' \in Seq(SoundCall)
    BY <1>1, <2>2, <2>3, AnswerIs
  <2> QED BY <1>2, <1>8, <2>4 DEF Working, CacheSound
<1> QED BY <1>10, <1>11

\* The postfix form of plain tokens may be remembered.
LEMMA RememberIs ==
    ASSUME CacheSound, NEW t \in Texts, NEW tokens \in Seq(Token), Plain(t, tokens),
           cache' = Remember(cache, t, infix_to_postfix(tokens))
    PROVE  CacheSound'
<1> DEFINE postfix == infix_to_postfix(tokens)
           room == IF Cardinality(DOMAIN cache) >= kCacheLimit THEN <<>> ELSE cache
<1>1. postfix \in Seq(Token)
  BY PostfixIs
<1>2. cache' = [u \in DOMAIN room \cup {t} |-> IF u \in DOMAIN room THEN room[u] ELSE postfix]
  BY DEF Remember
<1>3. \A u \in DOMAIN room : u \in DOMAIN cache /\ room[u] = cache[u]
  <2>1. DOMAIN <<>> = {}
    OBVIOUS
  <2> QED BY <2>1
<1> HIDE DEF room, postfix
<1>4. ASSUME NEW u \in DOMAIN cache'
      PROVE  /\ u \in Texts /\ cache'[u] \in Seq(Token)
             /\ \E q : Plain(u, q) /\ cache'[u] = infix_to_postfix(q)
  <2>1. CASE u \in DOMAIN room
    <3>1. cache'[u] = cache[u] /\ u \in DOMAIN cache
      BY <1>2, <1>3, <2>1
    <3> QED BY <3>1 DEF CacheSound
  <2>2. CASE u \notin DOMAIN room
    <3>1. u = t /\ cache'[u] = postfix
      BY <1>2, <2>2
    <3> QED BY <1>1, <3>1 DEF postfix
  <2> QED BY <2>1, <2>2
<1> QED BY <1>4 DEF CacheSound

\* What is remembered is that of plain tokens.
LEMMA FinishWorks ==
    ASSUME Working, Finish PROVE Working'
<1> DEFINE c == Head(calls)
           tokens == c.tokens
           t == c.text
           s == handle_increment_operators(tokens, env)
           postfix == infix_to_postfix(s.tokens)
<1>1. calls # <<>> /\ c \in SoundCall /\ c.next = "compile" /\ t \in Texts /\ env \in [Names -> Word]
  BY RunningIs DEF Finish, Working
<1>2. /\ env' = s.env
      /\ Ok(s) =>
            /\ cache' = IF expression_is_cacheable(t) THEN Remember(cache, t, postfix) ELSE cache
            /\ Answer(evaluate_postfix(postfix, env'))
      /\ ~Ok(s) => Throw(s.fails) /\ UNCHANGED cache
  BY DEF Finish
<1>3. tokens \in Seq(Token) /\ (expression_is_cacheable(t) => Plain(t, tokens))
  BY <1>1, CallIs
<1> HIDE DEF c, tokens, t
<1>4. s \in Compiling /\ (Prefixed(tokens) = {} => s = [tokens |-> tokens, env |-> env, fails |-> ""])
  BY <1>1, <1>3, IncrementsAre
<1> HIDE DEF s
<1>5. s.tokens \in Seq(Token) /\ s.env \in [Names -> Word] /\ s.fails \in {"", "readonly"}
  BY <1>4 DEF Compiling
<1>6. expression_is_cacheable(t) => s.tokens = tokens
  <2>1. ASSUME s = [tokens |-> tokens, env |-> env, fails |-> ""] PROVE s.tokens = tokens
    BY <2>1, Zenon
  <2>2. expression_is_cacheable(t) => Prefixed(tokens) = {}
    BY <1>3 DEF Plain
  <2> QED BY <1>4, <2>1, <2>2
<1>7. env' \in [Names -> Word]
  BY <1>2, <1>5
<1>8. postfix \in Seq(Token)
  <2> DEFINE q == s.tokens
  <2>1. q \in Seq(Token)
    BY <1>5
  <2> HIDE DEF q
  <2>2. infix_to_postfix(q) \in Seq(Token)
    BY <2>1, PostfixIs
  <2> QED BY <2>2 DEF q
<1>9. CASE Ok(s)
  <2>1. CacheSound'
    <3>1. CASE expression_is_cacheable(t)
      <4>1. cache' = Remember(cache, t, infix_to_postfix(tokens))
        BY <1>2, <1>6, <1>9, <3>1
      <4> QED BY <1>1, <1>3, <3>1, <4>1, RememberIs DEF Working
    <3>2. CASE ~expression_is_cacheable(t)
      <4>1. cache' = cache
        BY <1>2, <1>9, <3>2
      <4> QED BY <4>1 DEF Working, CacheSound
    <3> QED BY <3>1, <3>2
  <2> DEFINE result == evaluate_postfix(postfix, env')
  <2> HIDE DEF postfix
  <2>2. result \in Result
    BY <1>7, <1>8, ValueIs
  <2>3. Answer(result)
    BY <1>2, <1>9 DEF postfix
  <2> HIDE DEF result
  <2>4. answer' \in Result /\ calls' \in Seq(SoundCall)
    BY <1>1, <2>2, <2>3, AnswerIs
  <2> QED BY <1>7, <2>1, <2>4 DEF Working
<1>10. CASE ~Ok(s)
  <2> DEFINE why == s.fails
             result == [value |-> 0, fails |-> why]
  <2>1. why \in {"readonly", "division by zero", "trap"}
    BY <1>5, <1>10 DEF Ok
  <2>2. Answer(result)
    BY <1>2, <1>10 DEF Throw
  <2> HIDE DEF why
  <2>3. result \in Result
    BY <2>1, ResultsAre
  <2> HIDE DEF result
  <2>4. answer' \in Result /\ calls' \in Seq(SoundCall)
    BY <1>1, <2>2, <2>3, AnswerIs
  <2> QED BY <1>2, <1>7, <1>10, <2>4 DEF Working, CacheSound
<1> QED BY <1>9, <1>10

-----------------------------------------------------------------------------
(* The theorems                                                            *)

\* The invariant holds in a new shell,
LEMMA Starts == Init => IInv
<1> SUFFICES ASSUME Init PROVE IInv
  OBVIOUS
<1>1. env \in [Names -> Word] /\ before = env
  BY StoredAssumption DEF Init
<1>2. answer \in Result
  <2>1. 0 \in Word
    BY OneIsWord
  <2> QED BY <2>1, ResultsAre DEF Init
<1>3. calls \in Seq(SoundCall)
  BY EmptySeq DEF Init
<1>4. CacheSound
  <2>1. DOMAIN cache = {}
    <3>1. DOMAIN <<>> = {}
      OBVIOUS
    <3>2. cache = <<>>
      BY DEF Init
    <3> QED BY <3>1, <3>2
  <2> QED BY <2>1 DEF CacheSound
<1>5. asked.text \in Texts
  BY EmptySeq DEF Init, Nothing, Texts
<1> QED BY <1>1, <1>2, <1>3, <1>4, <1>5 DEF IInv, Working

\* through every step of evaluate,
LEMMA EvaluateWorks ==
    ASSUME Working, evaluate PROVE Working'
<1> QED BY ConditionWorks, BranchWorks, LeftWorks, RightWorks, TruthWorks, CacheWorks,
           TokenizeWorks, RhsWorks, AssignWorks, FinishWorks DEF evaluate

\* when an expression is asked for,
LEMMA AskWorks ==
    ASSUME IInv, NEW e \in Expressions \cup LoopBody, evaluate_arithmetic_expression(e)
    PROVE  IInv'
<1> DEFINE t == e.text
<1>1. t \in Texts
  BY TextAssumption DEF Texts
<1>2. /\ calls' = <<Evaluate(t)>> /\ answer' = [value |-> 0, fails |-> ""] /\ asked' = e
      /\ before' = env /\ UNCHANGED <<env, cache>>
  BY DEF evaluate_arithmetic_expression
<1>3. calls' \in Seq(SoundCall)
  <2> HIDE DEF t
  <2>1. <<Evaluate(t)>> \in Seq(SoundCall)
    BY <1>1, CallsAre, PairOfCalls
  <2> QED BY <1>2, <2>1
<1>4. answer' \in Result
  <2>1. 0 \in Word
    BY OneIsWord
  <2> QED BY <1>2, <2>1, ResultsAre
<1>5. asked'.text \in Texts
  BY <1>1, <1>2
<1> HIDE DEF t
<1> QED BY <1>2, <1>3, <1>4, <1>5 DEF IInv, Working, CacheSound

\* and so in every step.
LEMMA Stays == IInv /\ [Next]_vars => IInv'
<1> SUFFICES ASSUME IInv, [Next]_vars PROVE IInv'
  OBVIOUS
<1>1. CASE EvaluateOnce
  <2>1. PICK e \in Expressions : evaluate_arithmetic_expression(e)
    BY <1>1 DEF EvaluateOnce
  <2> QED BY <2>1, AskWorks
<1>2. CASE EvaluateInLoop
  <2>1. PICK e \in LoopBody : evaluate_arithmetic_expression(e)
    BY <1>2 DEF EvaluateInLoop
  <2> QED BY <2>1, AskWorks
<1>3. CASE evaluate
  <2>1. Working'
    BY <1>3, EvaluateWorks DEF IInv
  <2>2. UNCHANGED <<asked, before>>
    BY <1>3 DEF evaluate
  <2> QED BY <2>1, <2>2 DEF IInv
<1>4. CASE UNCHANGED vars
  BY <1>4 DEF vars, IInv, Working, CacheSound
<1> QED BY <1>1, <1>2, <1>3, <1>4 DEF Next

\* It implies the types,
LEMMA Typed == IInv => TypeOK
<1> SUFFICES ASSUME IInv PROVE TypeOK
  OBVIOUS
<1>1. calls \in Seq(Call)
  <2>1. SoundCall \subseteq Call
    BY DEF SoundCall
  <2> QED BY <2>1, SeqMonotonic DEF IInv, Working
<1>2. answer \in [value : Word, fails : {"", "readonly", "division by zero", "trap"}]
  BY DEF IInv, Working, Result
<1>3. env \in [Names -> Word] /\ before \in [Names -> Word] /\ asked.text \in Seq(Atom)
  BY DEF IInv, Working, Texts
<1>4. \A t \in DOMAIN cache : t \in Seq(Atom) /\ cache[t] \in Seq(Token)
  BY DEF IInv, Working, CacheSound, Texts
<1> QED BY <1>1, <1>2, <1>3, <1>4 DEF TypeOK

\* and that compiling a cached text again would give what the cache holds.
LEMMA TrueOfPlain == IInv => CacheTrue
<1> SUFFICES ASSUME IInv, NEW t \in DOMAIN cache
             PROVE  LET s == tokenize(t, env)
                        done == handle_increment_operators(s.tokens, env)
                    IN  /\ Ok(s) /\ s.env = env /\ Pending(s.tokens) = {}
                        /\ done.env = env /\ infix_to_postfix(done.tokens) = cache[t]
  BY DEF CacheTrue
<1> DEFINE s == tokenize(t, env)
           done == handle_increment_operators(s.tokens, env)
<1>1. env \in [Names -> Word]
  BY DEF IInv, Working
<1>2. PICK tokens : Plain(t, tokens) /\ cache[t] = infix_to_postfix(tokens)
  BY DEF IInv, Working, CacheSound
<1>3. /\ Ok(s) /\ s.env = env /\ s.tokens = tokens
      /\ tokens \in Seq(Token) /\ Pending(tokens) = {} /\ Prefixed(tokens) = {}
  BY <1>1, <1>2 DEF Plain
<1>4. handle_increment_operators(tokens, env) = [tokens |-> tokens, env |-> env, fails |-> ""]
  BY <1>1, <1>3, IncrementsAre
<1>5. done.env = env /\ done.tokens = tokens
  <2>1. done = [tokens |-> tokens, env |-> env, fails |-> ""]
    BY <1>3, <1>4
  <2> HIDE DEF done
  <2> QED BY <2>1, Zenon
<1> QED BY <1>2, <1>3, <1>5

\* Every variable, token, value and cached form is made of words in every state.
THEOREM TypesAreKept == Spec => []TypeOK
<1>1. Init => IInv
  BY Starts
<1>2. IInv /\ [Next]_vars => IInv'
  BY Stays
<1>3. IInv => TypeOK
  BY Typed
<1> QED BY <1>1, <1>2, <1>3, PTL DEF Spec

\* The cache never holds a value in disguise: compiling a text it holds would read and change
\* no variable and give the form it holds, in every state, whatever the variables have become.
THEOREM CacheIsTrue == Spec => []CacheTrue
<1>1. Init => IInv
  BY Starts
<1>2. IInv /\ [Next]_vars => IInv'
  BY Stays
<1>3. IInv => CacheTrue
  BY TrueOfPlain
<1> QED BY <1>1, <1>2, <1>3, PTL DEF Spec
=============================================================================
