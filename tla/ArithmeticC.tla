---------------------------- MODULE ArithmeticC ----------------------------
(***************************************************************************)
(* What shell arithmetic means: the expressions of C on signed integers    *)
(* that wrap around, which POSIX refers to, as syntax trees.  A tree is    *)
(* one of                                                                  *)
(*   <<"number", n>>   <<"name", x>>   <<"unary", op, a>>                  *)
(*   <<"binary", op, a, b>>   <<"?:", c, a, b>>   <<"assign", op, x, a>>   *)
(*   <<"pre", sign, x>>   <<"post", sign, x>>                              *)
(* and ** is the power of the C-like shells.                               *)
(***************************************************************************)
EXTENDS ArithmeticExpansion, WordsC

-----------------------------------------------------------------------------
(* How a tree is written                                                   *)

Spelled(op) ==
    LET two == {c \in TwoChars : c[3] = op}
    IN IF two = {} THEN <<Ch(op)>> ELSE LET c == CHOOSE c \in two : TRUE IN <<Ch(c[1]), Ch(c[2])>>
Spaced(op) == <<Ch(" ")>> \o Spelled(op) \o <<Ch(" ")>>

\* The grammar of C, from the loosest operators to the tightest.
BinaryLevels == << {"||"}, {"&&"}, {"|"}, {"^"}, {"&"}, {"==", "!="}, {"<", "<=", ">", ">="},
                   {"<<", ">>"}, {"+", "-"}, {"*", "/", "%"}, {"**"} >>
BinaryLevel(op) == 2 + (CHOOSE i \in DOMAIN BinaryLevels : op \in BinaryLevels[i])
Level(e) ==
    CASE e[1] = "assign" -> 1
      [] e[1] = "?:" -> 2
      [] e[1] = "binary" -> BinaryLevel(e[2])
      [] e[1] \in {"unary", "pre"} -> 14
      [] OTHER -> 15

\* With the parentheses the grammar asks for, and no others.
RECURSIVE Written(_)
Written(e) ==
    LET at(a, level) == IF Level(a) >= level THEN Written(a)
                        ELSE <<Ch("(")>> \o Written(a) \o <<Ch(")")>>
        toRight == Truth(e[1] = "binary" /\ e[2] = "**")
        gap(t) == IF At(t, 1) \in {"+", "-"} THEN <<Ch(" ")>> \o t ELSE t
    IN CASE e[1] = "number" -> <<Num(e[2])>>
         [] e[1] = "name" -> <<Id(e[2])>>
         [] e[1] = "unary" -> <<Ch(e[2])>> \o gap(at(e[3], 14))
         [] e[1] = "binary" -> at(e[3], Level(e) + toRight) \o Spaced(e[2])
                                    \o at(e[4], Level(e) + 1 - toRight)
         [] e[1] = "?:" -> at(e[2], 3) \o Spaced("?") \o at(e[3], 1) \o Spaced(":") \o at(e[4], 2)
         [] e[1] = "assign" -> <<Id(e[3])>> \o Spaced(e[2]) \o at(e[4], 1)
         [] e[1] = "pre" -> <<Ch(e[2]), Ch(e[2]), Id(e[3])>>
         [] e[1] = "post" -> <<Id(e[3]), Ch(e[2]), Ch(e[2])>>

-----------------------------------------------------------------------------
(* What it means                                                           *)

Fail(s, why) == [s EXCEPT !.fails = why]
Stores(s, x, v) == IF x \in ReadOnly THEN Fail(s, "readonly") ELSE [s EXCEPT !.env[x] = v]

Divides == {"/", "%"}
Of(assignment) == CHOOSE op \in {"+", "-", "*"} \cup Divides : Spelled(op)[1] = Spelled(assignment)[1]

\* Evaluation from left to right, operands only where C evaluates them.
RECURSIVE Means(_, _)
Means(e, s) ==
    LET then(r, v) == IF Ok(r) THEN [r EXCEPT !.value = v] ELSE r
        apply(r, op, a, b) == IF Ok(r) /\ op \in Divides /\ b = 0
                              THEN Fail(r, "division by zero") ELSE then(r, Meant(op, a, b))
        a == Means(e[3], s)
        b == Means(e[4], a)
        c == Means(e[2], s)
        rhs == Means(e[4], s)
        combined == IF e[2] = "=" THEN rhs ELSE apply(rhs, Of(e[2]), s.env[e[3]], rhs.value)
        next == Wrap(s.env[e[3]] + (IF e[2] = "+" THEN 1 ELSE -1))
    IN CASE e[1] = "number" -> then(s, Wrap(e[2]))
         [] e[1] = "name" -> then(s, s.env[e[2]])
         [] e[1] = "unary" -> then(a, MeantUnary(e[2], a.value))
         [] e[1] = "binary" ->
               CASE ~Ok(a) -> a
                 [] Ok(a) /\ e[2] = "&&" -> IF a.value = 0 THEN a ELSE then(b, Truth(b.value # 0))
                 [] Ok(a) /\ e[2] = "||" -> IF a.value # 0 THEN then(a, 1)
                                            ELSE then(b, Truth(b.value # 0))
                 [] OTHER -> IF Ok(b) THEN apply(b, e[2], a.value, b.value) ELSE b
         [] e[1] = "?:" -> IF ~Ok(c) THEN c
                           ELSE Means(IF c.value # 0 THEN e[3] ELSE e[4], c)
         [] e[1] = "assign" -> IF Ok(combined) THEN Stores(combined, e[3], combined.value)
                               ELSE combined
         [] e[1] = "pre" -> then(Stores(s, e[3], next), next)
         [] e[1] = "post" -> then(Stores(s, e[3], next), s.env[e[3]])
-----------------------------------------------------------------------------
(* What the evaluator gets right                                           *)

Lazy == {"&&", "||"}

Subtrees(e) ==
    CASE e[1] = "unary" -> {e[3]}
      [] e[1] = "binary" -> {e[3], e[4]}
      [] e[1] = "?:" -> {e[2], e[3], e[4]}
      [] e[1] = "assign" -> {e[4]}
      [] OTHER -> {}

RECURSIVE Parts(_)
Parts(e) == {e} \cup UNION {Parts(a) : a \in Subtrees(e)}

Changed(e) == {p[3] : p \in {q \in Parts(e) : q[1] \in {"assign", "pre", "post"}}}
Read(e) == {p[2] : p \in {q \in Parts(e) : q[1] = "name"}}

\* C gives no meaning to a change and another use that nothing orders.
Disturbs(a, b) == Changed(a) \cap (Changed(b) \cup Read(b)) # {}
Unsequenced(e) ==
    \E p \in Parts(e) :
        \/ p[1] = "binary" /\ p[2] \notin Lazy /\ (Disturbs(p[3], p[4]) \/ Disturbs(p[4], p[3]))
        \/ p[1] = "assign" /\ p[3] \in Changed(p[4])

\* Two unary operators in a row are applied in the wrong order; a literal's minus is none.
UnaryOfUnary(e) ==
    \E p \in Parts(e) :
        /\ p[1] = "unary" /\ p[3][1] = "unary"
        /\ ~(p[3][2] = "-" /\ p[3][3][1] = "number")

\* Written without spaces, a right-hand side may join two signs, or a minus and a
\* negative value: of a literal that wrapped around, or one an increment left.
Joins(t) ==
    \E i, j \in DOMAIN t :
        /\ i < j /\ At(t, i) \in {"+", "-"} /\ (\A k \in i + 1 .. j - 1 : At(t, k) = " ")
        /\ \/ At(t, j) = At(t, i) /\ i + 1 < j
           \/ At(t, i) = "-" /\ i + 1 < j /\ Is(t, j, "number") /\ Wrap(t[j].n) < 0
           \/ At(t, i) = "-" /\ Pair(t, j + 1) \in {"++", "--"}
JoinsSigns(e) == \E p \in Parts(e) : p[1] = "assign" /\ Joins(Written(p[4]))

\* The operands C may leave alone.
Optional(e) ==
    CASE e[1] = "binary" /\ e[2] \in Lazy -> {e[4]}
      [] e[1] = "?:" -> {e[3], e[4]}
      [] OTHER -> {}

\* The parts reached by splitting at lazy operators, which alone are evaluated lazily.
RECURSIVE Spine(_)
Spine(e) ==
    {e} \cup (IF e[1] = "?:" \/ (e[1] = "binary" /\ e[2] \in Lazy)
              THEN UNION {Spine(a) : a \in Subtrees(e)} ELSE {})
HasEffect(e) ==
    \/ Changed(e) # {}
    \/ \E p \in Parts(e) : p[1] = "binary" /\ p[2] \in Divides
EvaluatesTooMuch(e) ==
    \E p \in Parts(e) \ Spine(e) : \E a \in Optional(p) : HasEffect(a)

\* A branch between ? and : needs no parentheses in C.
AssignsBetween(e) == \E p \in Parts(e) : p[1] = "?:" /\ p[3][1] = "assign"

WellTreated(e) ==
    ~(UnaryOfUnary(e) \/ JoinsSigns(e) \/ EvaluatesTooMuch(e) \/ AssignsBetween(e))

\* What C makes of the expression asked for last, in the variables it met.
Meaning == Means(asked.tree, [env |-> before, value |-> 0, fails |-> ""])

\* An expression has the value C gives it, sets the variables C sets and fails where C
\* divides by zero or a variable is readonly, unless it is written in one of the four
\* ways the evaluator is known to get wrong, or /= or %= overflows.
AgreesWithC ==
    /\ asked # Nothing /\ calls = <<>> /\ answer.fails # "trap"
    /\ ~Unsequenced(asked.tree) /\ WellTreated(asked.tree)
    => /\ Ok(answer) = Ok(Meaning)
       /\ Ok(answer) => answer.value = Meaning.value /\ env = Meaning.env

-----------------------------------------------------------------------------
(* What a test of the shell expects                                        *)

\* "arithmetic logical operators short-circuit side effects": an expression changes no
\* variable that only operands C leaves alone would change.
ShortCircuitsEffects ==
    asked # Nothing /\ calls = <<>> /\ ~Unsequenced(asked.tree) =>
        \A x \in Names : env[x] # before[x] => Meaning.env[x] # before[x]
=============================================================================
