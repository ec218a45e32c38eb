------------------------ MODULE ArithmeticExpansion ------------------------
(***************************************************************************)
(* A shell that evaluates arithmetic expressions: the variables and the    *)
(* cache of postfix forms outlive an evaluation                            *)
(* (ShellScriptInterpreter::evaluate_arithmetic_expression).  A script     *)
(* evaluates one expression, or a few of them over and over in a loop.     *)
(*                                                                         *)
(* evaluate calls itself, for the operands of the lazy operators and for   *)
(* the right-hand sides of assignments.  Every call that has not returned  *)
(* is on a stack, with what it does next.                                  *)
(***************************************************************************)
EXTENDS Arithmetic

CONSTANTS
    Expressions, \* those evaluated once: records with their text
    LoopBody,    \* those evaluated again and again
    Stored       \* values the variables have at the start

ASSUME StoredAssumption == Stored \subseteq Word
ASSUME TextAssumption == \A e \in Expressions \cup LoopBody : e.text \in Seq(Atom)

VARIABLES
    env,    \* the values of the variables; an unset one reads as 0
    cache,  \* postfix_cache
    calls,  \* the calls that have not returned, the innermost first
    answer, \* what the last one returned, or why evaluation failed
    asked,  \* history: the expression evaluated last
    before  \* history: the variables when it was

vars == <<env, cache, calls, answer, asked, before>>

Nothing == [text |-> <<>>]

\* The cache is empty in a new shell, whatever the environment gave the variables.
Init ==
    /\ env \in [Names -> Stored]
    /\ cache = <<>>
    /\ calls = <<>>
    /\ answer = [value |-> 0, fails |-> ""]
    /\ asked = Nothing
    /\ before = env

-----------------------------------------------------------------------------
(* The stack                                                               *)

\* A call that is to begin.
Evaluate(text) == [next |-> "begin", text |-> text]

\* What a call does once the one it made returns: take a branch of a ternary, see to the
\* right operand of a lazy operator, or assign; and then, make a truth value of the value.
Choose(yes, no) == [next |-> "choose", text |-> yes, other |-> no]
Decide(op, right) == [next |-> op, text |-> right]
Judge == [next |-> "judge", text |-> <<>>]
Compile(text, tokens) == [next |-> "compile", text |-> text, tokens |-> tokens]
AssignTo(text, tokens, at, current) ==
    [next |-> "assign", text |-> text, tokens |-> tokens, at |-> at, current |-> current]

Running(next) == calls # <<>> /\ Head(calls).next = next

Become(frames) == calls' = frames \o Tail(calls)

\* The innermost call returns.  An exception ends them all.
Answer(result) ==
    /\ answer' = result
    /\ IF Ok(result) THEN Become(<<>>) ELSE calls' = <<>>

Return(value) == Answer([value |-> value, fails |-> ""])
Throw(why) == Answer([value |-> 0, fails |-> why])

-----------------------------------------------------------------------------
(* evaluate                                                                *)

\* What the innermost call works on.
Text == Normalized(Head(calls).text)
First(op) == Min(find_top_level_operator(Text, op))

EvaluateCondition ==
    /\ Running("begin") /\ Split(Text) = "?:"
    /\ LET place == find_top_level_ternary(Text)
       IN Become(<<Evaluate(SubSeq(Text, 1, place[1] - 1)),
                   Choose(SubSeq(Text, place[1] + 1, place[2] - 1),
                          SubSeq(Text, place[2] + 1, Len(Text)))>>)
    /\ UNCHANGED <<env, cache, answer>>

EvaluateBranch ==
    /\ Running("choose")
    /\ Become(<<Evaluate(IF answer.value # 0 THEN Head(calls).text ELSE Head(calls).other)>>)
    /\ UNCHANGED <<env, cache, answer>>

EvaluateLeft ==
    /\ Running("begin") /\ Split(Text) \in {"||", "&&"}
    /\ LET op == Split(Text)
       IN Become(<<Evaluate(SubSeq(Text, 1, First(op) - 1)),
                   Decide(op, SubSeq(Text, First(op) + 2, Len(Text)))>>)
    /\ UNCHANGED <<env, cache, answer>>

\* A nonzero left operand decides ||, a zero decides &&.
EvaluateRight ==
    /\ Running(IF answer.value = 0 THEN "||" ELSE "&&")
    /\ Become(<<Evaluate(Head(calls).text), Judge>>)
    /\ UNCHANGED <<env, cache, answer>>

SkipRight ==
    /\ Running(IF answer.value = 0 THEN "&&" ELSE "||")
    /\ Return(Truth(answer.value # 0))
    /\ UNCHANGED <<env, cache>>

JudgeRight ==
    /\ Running("judge")
    /\ Return(Truth(answer.value # 0))
    /\ UNCHANGED <<env, cache>>

Cached == expression_is_cacheable(Text) /\ Text \in DOMAIN cache

UseCache ==
    /\ Running("begin") /\ Split(Text) = "none" /\ Cached
    /\ Answer(evaluate_postfix(cache[Text], env))
    /\ UNCHANGED <<env, cache>>

\* What was written before a failure stays.
Tokenize ==
    /\ Running("begin") /\ Split(Text) = "none" /\ ~Cached
    /\ LET s == tokenize(Text, env)
       IN /\ env' = s.env
          /\ IF Ok(s) THEN Become(<<Compile(Text, s.tokens)>>) /\ UNCHANGED answer
                      ELSE Throw(s.fails)
    /\ UNCHANGED cache

\* handle_assignment_operators, from the last assignment to the first.
EvaluateRhs ==
    /\ Running("compile") /\ Pending(Head(calls).tokens) # {}
    /\ LET tokens == Head(calls).tokens
           i == Max(Pending(tokens))
       IN Become(<<Evaluate(RhsText(tokens, i)),
                   AssignTo(Head(calls).text, tokens, i, env[tokens[i - 1].op])>>)
    /\ UNCHANGED <<env, cache, answer>>

AssignRhs ==
    /\ Running("assign")
    /\ LET c == Head(calls)
           x == c.tokens[c.at - 1].op
           s == Assign(env, x, c.tokens[c.at].op, c.current, answer.value)
       IN /\ env' = s.env
          /\ IF Ok(s)
             THEN Become(<<Compile(c.text, Replaced(c.tokens, c.at, env'[x]))>>) /\ UNCHANGED answer
             ELSE Throw(s.fails)
    /\ UNCHANGED cache

\* The rest, when no assignment is left.
Finish ==
    /\ Running("compile") /\ Pending(Head(calls).tokens) = {}
    /\ LET s == handle_increment_operators(Head(calls).tokens, env)
           postfix == infix_to_postfix(s.tokens)
           t == Head(calls).text
       IN /\ env' = s.env
          /\ IF Ok(s)
             THEN /\ cache' = IF expression_is_cacheable(t) THEN Remember(cache, t, postfix) ELSE cache
                  /\ Answer(evaluate_postfix(postfix, env'))
             ELSE Throw(s.fails) /\ UNCHANGED cache

evaluate ==
    /\ \/ EvaluateCondition \/ EvaluateBranch
       \/ EvaluateLeft \/ EvaluateRight \/ SkipRight \/ JudgeRight
       \/ UseCache \/ Tokenize \/ EvaluateRhs \/ AssignRhs \/ Finish
    /\ UNCHANGED <<asked, before>>

-----------------------------------------------------------------------------
(* The shell                                                               *)

evaluate_arithmetic_expression(e) ==
    /\ calls = <<>>
    /\ calls' = <<Evaluate(e.text)>>
    /\ answer' = [value |-> 0, fails |-> ""]
    /\ asked' = e /\ before' = env
    /\ UNCHANGED <<env, cache>>

\* An expansion, somewhere in the script.
EvaluateOnce == asked = Nothing /\ \E e \in Expressions : evaluate_arithmetic_expression(e)

\* The expressions of a for (( )) loop, in whatever order.
EvaluateInLoop ==
    /\ asked \in LoopBody \cup {Nothing}
    /\ \E e \in LoopBody : evaluate_arithmetic_expression(e)

Next == EvaluateOnce \/ EvaluateInLoop \/ evaluate

Spec == Init /\ [][Next]_vars

-----------------------------------------------------------------------------

\* What a token may be.
Symbols == {"", "pre++", "pre--", "unary+", "unary-", "?:"} \cup Character \cup {op[3] : op \in TwoChars}
Token ==
    [type : {"NUMBER", "OPERATOR", "(", ")", "?", ":"}, value : Word, op : Symbols, text : Seq(Atom)]
        \cup [type : {"VARIABLE"}, value : {0}, op : Names, text : Seq(Atom)]

\* What a call may be about to do; the assignments it makes are to variables.
Call ==
    [next : {"begin", "||", "&&", "judge"}, text : Seq(Atom)]
        \cup [next : {"choose"}, text : Seq(Atom), other : Seq(Atom)]
        \cup [next : {"compile"}, text : Seq(Atom), tokens : Seq(Token)]
        \cup {c \in [next : {"assign"}, text : Seq(Atom), tokens : Seq(Token), at : Nat, current : Word] :
                  /\ c.at \in 2 .. Len(c.tokens)
                  /\ c.tokens[c.at - 1].type = "VARIABLE" /\ c.tokens[c.at].op \in Assignments}

\* A variable, a value on its way, in a token or in the cache is always a word: whatever
\* overflows wraps around, on every path.
TypeOK ==
    /\ env \in [Names -> Word] /\ before \in [Names -> Word]
    /\ calls \in Seq(Call)
    /\ answer \in [value : Word, fails : {"", "readonly", "division by zero", "trap"}]
    /\ asked.text \in Seq(Atom)
    /\ \A t \in DOMAIN cache : t \in Seq(Atom) /\ cache[t] \in Seq(Token)

\* Compiling a text that the cache holds would read and change no variable and give what
\* it holds, whatever the variables have become since: no value is kept in it.
CacheTrue ==
    \A t \in DOMAIN cache :
        LET s == tokenize(t, env)
            done == handle_increment_operators(s.tokens, env)
        IN /\ Ok(s) /\ s.env = env /\ Pending(s.tokens) = {}
           /\ done.env = env /\ infix_to_postfix(done.tokens) = cache[t]
=============================================================================
