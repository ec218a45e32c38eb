---------------------------- MODULE ArithmeticMC ----------------------------
(***************************************************************************)
(* ArithmeticC on the expressions of one operator, whichever it is, and on *)
(* those of two, with an operator or two of each kind.                     *)
(***************************************************************************)
EXTENDS ArithmeticC

xy == {"x", "y"}
JustY == {"y"}
NoName == {}

\* The least word of three bits and a positive one; the literal is too big and wraps
\* around to minus one.
LeastAndTwo == {-4, 2}

Leaves == {<<"number", 7>>, <<"name", "x">>, <<"name", "y">>}

Un(ops, A) == {<<"unary", op, a>> : op \in ops, a \in A}
Bin(ops, A, B) == {<<"binary", op, a, b>> : op \in ops, a \in A, b \in B}
If(A, B, C) == {<<"?:", a, b, c>> : a \in A, b \in B, c \in C}
Set(ops, A) == {<<"assign", op, x, a>> : op \in ops, x \in xy, a \in A}
SetX(ops, A) == {e \in Set(ops, A) : e[3] = "x"}
Inc(ways, signs) == {<<w, s, x>> : w \in ways, s \in signs, x \in {"x"}}

One == Un({"+", "-", "!", "~"}, Leaves)
    \cup Bin(UNION {BinaryLevels[i] : i \in DOMAIN BinaryLevels}, Leaves, Leaves)
    \cup If(Leaves, Leaves, Leaves)
    \cup Set(Assignments, Leaves)
    \cup Inc({"pre", "post"}, {"+", "-"})

Some == {"-", "/", "**", "<", "|", "&&", "||"}
Inner == Un({"-", "!"}, Leaves)
    \cup Bin(Some, Leaves, Leaves)
    \cup If({<<"name", "x">>}, Leaves, {<<"name", "y">>})
    \cup SetX({"=", "/="}, Leaves)
    \cup Inc({"pre", "post"}, {"-"})

Two == Un({"-", "!", "~"}, Inner)
    \cup Bin(Some, Inner, Leaves) \cup Bin(Some, Leaves, Inner)
    \cup If(Inner, Leaves, {<<"name", "y">>}) \cup If({<<"name", "x">>}, Leaves, Inner)
    \cup If({<<"name", "x">>}, Inner, {<<"name", "y">>})
    \cup SetX({"=", "-="}, Inner)

InText(trees) == {[text |-> Written(e), tree |-> e] : e \in trees}

OneOrTwo == InText(One \cup Two)

Counting == InText({<<"post", "+", "x">>,
             <<"binary", "<", <<"name", "x">>, <<"name", "y">>>>,
             <<"binary", ">=", <<"name", "x">>, <<"number", 3>>>>,
             <<"binary", "/", <<"number", 3>>, <<"name", "x">>>>,
             <<"assign", "-=", "x", <<"name", "y">>>>})

\* A change of x in an operand that may be skipped, inside an assignment to y.
Skipping == InText({e \in Set({"="}, Bin(Lazy, Leaves, SetX({"="}, Leaves) \cup Inc({"post"}, {"+"}))) :
                e[3] = "y"})
NoExpression == {}
=============================================================================
