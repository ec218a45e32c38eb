---------------------------- MODULE Arithmetic ----------------------------
(***************************************************************************)
(* Shell arithmetic: $(( )), (( )) and let (ArithmeticEvaluator of         *)
(* interpreter/arithmetic_evaluator.cpp, with the variable reader and      *)
(* writer of interpreter.cpp).  The text of an expression is a sequence of *)
(* atoms: a number literal, a name, or one character.  Here are the parts  *)
(* of evaluate that work on texts and tokens, each loop a function of how  *)
(* often it has been round; ArithmeticExpansion puts them together.        *)
(***************************************************************************)
EXTENDS Words, SequencesExt

CONSTANTS
    Names,       \* shell variables
    ReadOnly,    \* those that are readonly, in POSIX mode
    kCacheLimit  \* postfix forms the cache holds before it is cleared

ASSUME ReadOnlyAssumption == ReadOnly \subseteq Names
ASSUME CacheLimitAssumption == kCacheLimit \in Nat \ {0}

-----------------------------------------------------------------------------
(* Text                                                                    *)

Num(n) == [kind |-> "number", n |-> n, s |-> ""]
Id(x) == [kind |-> "name", n |-> 0, s |-> x]
Ch(c) == [kind |-> "char", n |-> 0, s |-> c]

Character == {" ", "(", ")", "?", ":", "=", "!", "<", ">", "&", "|", "^", "~", "+", "-", "*", "/", "%"}
Atom == [kind : {"number"}, n : Nat, s : {""}]
    \cup [kind : {"name"}, n : {0}, s : Names]
    \cup [kind : {"char"}, n : {0}, s : Character]

Assignments == {"=", "+=", "-=", "*=", "/=", "%="}

\* The operators of two characters, after those.
TwoChars ==
    {<<"=", "=", "==">>, <<"!", "=", "!=">>, <<"<", "=", "<=">>, <<">", "=", ">=">>,
     <<"&", "&", "&&">>, <<"|", "|", "||">>, <<"<", "<", "<<">>, <<">", ">", ">>">>,
     <<"+", "+", "++">>, <<"-", "-", "--">>, <<"*", "*", "**">>, <<"+", "=", "+=">>,
     <<"-", "=", "-=">>, <<"*", "=", "*=">>, <<"/", "=", "/=">>, <<"%", "=", "%=">>}

Signs == {"++", "--"}

Is(t, i, kind) == i \in DOMAIN t /\ t[i].kind = kind

\* The character at i, or the operator of two that begins there.
At(t, i) == IF Is(t, i, "char") THEN t[i].s ELSE ""
Pair(t, i) ==
    LET there == {op \in TwoChars : op[1] = At(t, i) /\ op[2] = At(t, i + 1)}
    IN IF there = {} THEN "" ELSE (CHOOSE op \in there : TRUE)[3]

\* How deep in parentheses the atom at i is.
Depth(t, i) ==
    Cardinality({j \in 1 .. i - 1 : At(t, j) = "("})
        - Cardinality({j \in 1 .. i - 1 : At(t, j) = ")"})

TopLevel(t) == {i \in DOMAIN t : Depth(t, i) = 0}

trim_expression(t) ==
    LET ink == {i \in DOMAIN t : At(t, i) # " "}
    IN IF ink = {} THEN <<>> ELSE SubSeq(t, Min(ink), Max(ink))

has_wrapping_parentheses(t) ==
    /\ Len(t) >= 2 /\ At(t, 1) = "(" /\ At(t, Len(t)) = ")"
    /\ TopLevel(t) = {1}
    /\ Depth(t, Len(t)) = 1

Unwrapped(t) ==
    IF has_wrapping_parentheses(t) THEN trim_expression(SubSeq(t, 2, Len(t) - 1)) ELSE t

\* Without the spaces and parentheses around it.
Normalized(t) ==
    LET bare[n \in 0 .. Len(t)] == IF n = 0 THEN trim_expression(t) ELSE Unwrapped(bare[n - 1])
    IN bare[Len(t)]

\* Where the first || or && outside parentheses is.
find_top_level_operator(t, target) == {i \in TopLevel(t) : Pair(t, i) = target}

IsAssignmentSign(t, i) ==
    At(t, i) = "=" /\ At(t, i + 1) # "=" /\ At(t, i - 1) \notin {"=", "!", "<", ">"}

has_top_level_assignment(t) == \E i \in TopLevel(t) : IsAssignmentSign(t, i)

\* The first ? outside parentheses and the : that belongs to it, or none.
find_top_level_ternary(t) ==
    LET top(c) == {i \in TopLevel(t) : At(t, i) = c}
        question == Min(top("?"))
        between(c, j) == Cardinality({i \in top(c) : question < i /\ i < j})
        colons == {j \in top(":") : question < j /\ between("?", j) = between(":", j)}
    IN IF top("?") = {} \/ (\A j \in top(":") : j \notin colons)
       THEN <<>>
       ELSE <<question, Min(colons)>>

\* mutant: the increments are forgotten
CacheableWithIncrements(t) ==
    /\ t # <<>>
    /\ \A i \in DOMAIN t :
          /\ At(t, i) \notin {"?", ":"}
          /\ At(t, i) = "=" => At(t, i - 1) \in {"<", ">", "!"} \/ At(t, i + 1) = "="

\* Tokenising such a text neither reads nor writes a variable; the limit on its
\* length is left out.
expression_is_cacheable(t) ==
    /\ t # <<>>
    /\ \A i \in DOMAIN t :
          /\ Pair(t, i) \notin Signs
          /\ At(t, i) \notin {"?", ":"}
          /\ At(t, i) = "=" => At(t, i - 1) \in {"<", ">", "!"} \/ At(t, i + 1) = "="

-----------------------------------------------------------------------------
(* Operators                                                               *)

Unary == {"unary+", "unary-", "!", "~"}

\* The operators that are not known (++, --, and the ones left of an operand) have none.
get_precedence(op) ==
    CASE op \in Unary -> 14
      [] op = "**" -> 13
      [] op \in {"*", "/", "%"} -> 12
      [] op \in {"+", "-"} -> 11
      [] op \in {"<<", ">>"} -> 10
      [] op \in {"<", "<=", ">", ">="} -> 9
      [] op \in {"==", "!="} -> 8
      [] op = "&" -> 7
      [] op = "^" -> 6
      [] op = "|" -> 5
      [] op = "&&" -> 4
      [] op = "||" -> 3
      [] op = "?:" -> 2
      [] op \in Assignments -> 1
      [] OTHER -> 0

is_right_associative(op) == op \in {"**", "?:"} \cup Assignments

SquareAndMultiply(p) ==
    [result |-> IF p.exp % 2 = 1 THEN wrap_mul(p.result, p.base) ELSE p.result,
     base |-> wrap_mul(p.base, p.base),
     exp |-> p.exp \div 2]

\* Another round after exp is 0 changes no result.
fast_pow(base, exp) ==
    LET power[n \in 0 .. Width] ==
            IF n = 0 THEN [result |-> 1, base |-> base, exp |-> exp]
                     ELSE SquareAndMultiply(power[n - 1])
    IN IF exp < 0 THEN 0 ELSE power[Width].result

apply_unary_operator(a, op) ==
    CASE op = "unary-" -> wrap_sub(0, a)
      [] op = "!" -> Truth(a = 0)
      [] op = "~" -> from_uint64(Modulus - 1 - to_uint64(a))
      [] OTHER -> a

\* mutant: the processor divides the least word by minus one
UnguardedQuotient(a, b) == Quotient(a, b)

GuardedQuotient(a, b) == IF b = -1 /\ a = Least THEN a ELSE Quotient(a, b)
GuardedRemainder(a, b) == IF b = -1 /\ a = Least THEN 0 ELSE Remainder(a, b)

\* Of a division by zero the value does not matter.
apply_binary_operator(a, b, op) ==
    CASE op = "+" -> wrap_add(a, b)
      [] op = "-" -> wrap_sub(a, b)
      [] op = "*" -> wrap_mul(a, b)
      [] op = "/" -> IF b = 0 THEN 0 ELSE GuardedQuotient(a, b)
      [] op = "%" -> IF b = 0 THEN 0 ELSE GuardedRemainder(a, b)
      [] op = "==" -> Truth(a = b)
      [] op = "!=" -> Truth(a # b)
      [] op = "<" -> Truth(a < b)
      [] op = ">" -> Truth(a > b)
      [] op = "<=" -> Truth(a <= b)
      [] op = ">=" -> Truth(a >= b)
      [] op = "&&" -> Truth(a # 0 /\ b # 0)
      [] op = "||" -> Truth(a # 0 \/ b # 0)
      [] op = "&" -> from_uint64(bit_and(to_uint64(a), to_uint64(b)))
      [] op = "|" -> from_uint64(bit_or(to_uint64(a), to_uint64(b)))
      [] op = "^" -> from_uint64(bit_xor(to_uint64(a), to_uint64(b)))
      [] op = "<<" -> IF valid_shift_amount(b) THEN Wrap(to_uint64(a) * TwoTo(b)) ELSE 0
      [] op = ">>" -> IF valid_shift_amount(b) THEN a \div TwoTo(b) ELSE IF a < 0 THEN -1 ELSE 0
      [] op = "**" -> fast_pow(a, b)
      [] OTHER -> 0

DividesByZero(b, op) == op \in {"/", "%"} /\ b = 0

-----------------------------------------------------------------------------
(* Tokens                                                                  *)

\* A part of the evaluator works on a record with the variables and, if it failed, why:
\* fails is "" while no exception was thrown.
Ok(s) == s.fails = ""

\* The writer of evaluate_arithmetic_expression.
write_variable(s, x, v) ==
    IF x \in ReadOnly THEN [s EXCEPT !.fails = "readonly"] ELSE [s EXCEPT !.env[x] = v]

\* A token keeps the text it came from, which is that of its value if it has one.
ToText(v) == IF v < 0 THEN <<Ch("-"), Num(-v)>> ELSE <<Num(v)>>
Number(v) == [type |-> "NUMBER", value |-> v, op |-> "", text |-> ToText(v)]
Variable(x) == [type |-> "VARIABLE", value |-> 0, op |-> x, text |-> <<Id(x)>>]
Operator(op, text) == [type |-> "OPERATOR", value |-> 0, op |-> op, text |-> text]
Mark(c) == [type |-> c, value |-> 0, op |-> c, text |-> <<Ch(c)>>]

\* What a sign is where a number is expected.
Prefix(op) ==
    CASE op = "++" -> "pre++" [] op = "--" -> "pre--"
      [] op = "+" -> "unary+" [] op = "-" -> "unary-" [] OTHER -> op

OperatorAt(t, i, expect_number) ==
    LET op == IF Pair(t, i) # "" THEN Pair(t, i) ELSE At(t, i)
    IN Operator(IF expect_number THEN Prefix(op) ELSE op,
                SubSeq(t, i, IF Pair(t, i) # "" THEN i + 1 ELSE i))

Stepped(v, sign) == IF sign = "++" THEN wrap_add(v, 1) ELSE wrap_sub(v, 1)

\* The loop of tokenize once: what is read at s.i.
ReadToken(t, s) ==
    LET i == s.i
        c == At(t, i)
        op == OperatorAt(t, i, s.expect_number)
        add(token, atoms, expect) ==
            [s EXCEPT !.i = @ + atoms, !.expect_number = expect, !.tokens = Append(@, token)]
    IN IF i \notin DOMAIN t \/ ~Ok(s) THEN s ELSE
       CASE Is(t, i, "number") -> add(Number(Wrap(t[i].n)), 1, FALSE)
         [] Is(t, i, "name") ->
               \* x++ and x-- are carried out as they are read, and leave the old value
               IF Pair(t, i + 1) \in Signs
               THEN write_variable(add(Number(s.env[t[i].s]), 3, FALSE), t[i].s,
                                   Stepped(s.env[t[i].s], Pair(t, i + 1)))
               ELSE add(Variable(t[i].s), 1, FALSE)
         [] OTHER ->
               CASE c = " " -> [s EXCEPT !.i = @ + 1]
                 [] c = "-" /\ s.expect_number /\ Is(t, i + 1, "number") ->
                       add(Number(wrap_sub(0, Wrap(t[i + 1].n))), 2, FALSE)
                 [] c \in {"(", "?", ":"} -> add(Mark(c), 1, TRUE)
                 [] c = ")" -> add(Mark(c), 1, FALSE)
                 [] OTHER -> add(op, Len(op.text), op.op \notin Signs)

tokenize(t, env) ==
    LET read[n \in 0 .. Len(t)] ==
            IF n = 0 THEN [i |-> 1, expect_number |-> TRUE, tokens |-> <<>>, env |-> env, fails |-> ""]
                     ELSE ReadToken(t, read[n - 1])
    IN read[Len(t)]

-----------------------------------------------------------------------------
(* Postfix form                                                            *)

\* Pops the operators above the topmost place of those that stay.
Pop(s, stay) ==
    LET kept == Max({0} \cup stay)
    IN [output |-> s.output \o Reverse(SubSeq(s.stack, kept + 1, Len(s.stack))),
        stack |-> SubSeq(s.stack, 1, kept)]

Push(s, token) == [s EXCEPT !.stack = Append(@, token)]
DropTop(s) == [s EXCEPT !.stack = IF @ = <<>> THEN <<>> ELSE Front(@)]

IsOperator(token) == token.type = "OPERATOR"

\* mutant: every operator groups to the left
WaitsForHigher(token, below) ==
    ~IsOperator(below) \/ get_precedence(below.op) < get_precedence(token.op)

\* An operator waits for one that binds less, or as much to its right.
Waits(token, below) ==
    \/ ~IsOperator(below)
    \/ get_precedence(below.op) < get_precedence(token.op)
    \/ get_precedence(below.op) = get_precedence(token.op) /\ is_right_associative(token.op)

\* One token of the shunting yard.
Shunt(s, token) ==
    LET marks(c) == {i \in DOMAIN s.stack : s.stack[i].type = c}
        pastQuestion == Pop(s, marks("?"))
        looser == {i \in DOMAIN s.stack :
            ~IsOperator(s.stack[i]) \/ get_precedence(s.stack[i].op) <= get_precedence("?:")}
        waited == {i \in DOMAIN s.stack : Waits(token, s.stack[i])}
    IN CASE token.type \in {"NUMBER", "VARIABLE"} -> [s EXCEPT !.output = Append(@, token)]
         [] IsOperator(token) -> Push(Pop(s, waited), token)
         [] token.type = "(" -> Push(s, token)
         [] token.type = ")" -> DropTop(Pop(s, marks("(")))
         [] token.type = "?" -> Push(Pop(s, looser), token)
         [] token.type = ":" ->
               IF pastQuestion.stack = <<>> THEN pastQuestion
               ELSE Push(DropTop(pastQuestion), Operator("?:", <<>>))

\* A parenthesis or ? left over stands in the output for nothing.
infix_to_postfix(tokens) ==
    LET shunted[n \in 0 .. Len(tokens)] ==
            IF n = 0 THEN [output |-> <<>>, stack |-> <<>>] ELSE Shunt(shunted[n - 1], tokens[n])
        all == shunted[Len(tokens)]
    IN all.output \o Reverse(all.stack)

\* One token of the postfix form; s is the stack of values and whether to stop.
Step(env, s, token) ==
    LET n == Len(s.values)
        top == s.values[n]
        second == s.values[n - 1]
        replace(k, v) == [s EXCEPT !.values = Append(SubSeq(@, 1, n - k), v)]
    IN IF s.stop THEN s ELSE
       CASE token.type = "NUMBER" -> replace(0, token.value)
         [] token.type = "VARIABLE" -> replace(0, env[token.op])
         [] token.type \in {"(", "?"} -> s
         [] OTHER ->
               CASE token.op \in Unary ->
                       IF n = 0 THEN s ELSE replace(1, apply_unary_operator(top, token.op))
                 [] token.op = "?:" ->
                       IF n < 3 THEN s
                       ELSE replace(3, IF s.values[n - 2] # 0 THEN second ELSE top)
                 [] OTHER ->
                       IF n < 2 THEN s
                       ELSE IF DividesByZero(top, token.op) THEN [s EXCEPT !.stop = TRUE]
                       ELSE replace(2, apply_binary_operator(second, top, token.op))

evaluate_postfix(postfix, env) ==
    LET done[n \in 0 .. Len(postfix)] ==
            IF n = 0 THEN [values |-> <<>>, stop |-> FALSE] ELSE Step(env, done[n - 1], postfix[n])
        end == done[Len(postfix)]
    IN [value |-> IF end.stop \/ end.values = <<>> THEN 0 ELSE Last(end.values),
        fails |-> IF end.stop THEN "division by zero" ELSE ""]

-----------------------------------------------------------------------------
(* Assignments, increments and the cache                                   *)

\* The value an assignment operator stores, of the variable's and the right-hand side's.
\* The two divisions are those of the processor: their overflow is a trap.
Assigned(op, current, v) ==
    CASE op = "=" -> v
      [] op = "+=" -> wrap_add(current, v)
      [] op = "-=" -> wrap_sub(current, v)
      [] op = "*=" -> wrap_mul(current, v)
      [] op = "/=" -> IF v = 0 THEN 0 ELSE Quotient(current, v)
      [] op = "%=" -> IF v = 0 THEN 0 ELSE Remainder(current, v)

Traps(op, current, v) == op \in {"/=", "%="} /\ current = Least /\ v = -1

\* The assignment of v to x, whose value was current before v was evaluated.
Assign(env, x, op, current, v) ==
    LET s == [env |-> env, fails |-> ""]
    IN IF op \in {"/=", "%="} /\ v = 0 THEN [s EXCEPT !.fails = "division by zero"]
       ELSE IF Traps(op, current, v) THEN [s EXCEPT !.fails = "trap"]
       ELSE write_variable(s, x, Assigned(op, current, v))

\* The end of the right-hand side: the parenthesis that closes around the assignment.
RhsEnd(tokens, i) ==
    LET count(c, j) == Cardinality({k \in i + 1 .. j - 1 : tokens[k].type = c})
    IN Min({Len(tokens) + 1} \cup {j \in i + 1 .. Len(tokens) :
                tokens[j].type = ")" /\ count("(", j) = count(")", j)})

\* The assignments that can be carried out.
Pending(tokens) ==
    {i \in 2 .. Len(tokens) :
        /\ IsOperator(tokens[i]) /\ tokens[i].op \in Assignments
        /\ tokens[i - 1].type = "VARIABLE"
        /\ RhsEnd(tokens, i) > i + 1}

\* The right-hand side at i is written out without spaces.
RhsText(tokens, i) ==
    FlattenSeq([k \in 1 .. RhsEnd(tokens, i) - i - 1 |-> tokens[i + k].text])

\* A number takes the place of the assignment at i.
Replaced(tokens, i, v) ==
    SubSeq(tokens, 1, i - 2) \o <<Number(v)>> \o SubSeq(tokens, RhsEnd(tokens, i), Len(tokens))

\* The ++x and --x that can be carried out.
Prefixed(tokens) ==
    {i \in 1 .. Len(tokens) - 1 :
        /\ IsOperator(tokens[i]) /\ tokens[i].op \in {"pre++", "pre--"}
        /\ tokens[i + 1].type = "VARIABLE"}

IncrementFirst(s) ==
    LET i == Min(Prefixed(s.tokens))
        x == s.tokens[i + 1].op
        v == Stepped(s.env[x], IF s.tokens[i].op = "pre++" THEN "++" ELSE "--")
    IN IF Prefixed(s.tokens) = {} \/ ~Ok(s) THEN s
       ELSE write_variable([s EXCEPT !.tokens = ReplaceAt(RemoveAt(@, i + 1), i, Number(v))], x, v)

handle_increment_operators(tokens, env) ==
    LET done[n \in 0 .. Len(tokens)] ==
            IF n = 0 THEN [tokens |-> tokens, env |-> env, fails |-> ""]
                     ELSE IncrementFirst(done[n - 1])
    IN done[Len(tokens)]

\* emplace, into a cache that is cleared when full.
Remember(cache, t, postfix) ==
    LET room == IF Cardinality(DOMAIN cache) >= kCacheLimit THEN <<>> ELSE cache
    IN [u \in DOMAIN room \cup {t} |-> IF u \in DOMAIN room THEN room[u] ELSE postfix]

\* The lazy operator an expression is split at.
Split(t) ==
    IF has_top_level_assignment(t) THEN "none"
    ELSE IF find_top_level_ternary(t) # <<>> THEN "?:"
    ELSE IF find_top_level_operator(t, "||") # {} THEN "||"
    ELSE IF find_top_level_operator(t, "&&") # {} THEN "&&"
    ELSE "none"
=============================================================================
