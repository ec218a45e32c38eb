---------------------------- MODULE ControlFlow ----------------------------
(***************************************************************************)
(* How the interpreter of cjsh unwinds: break, continue, return, exit, set *)
(* -e and traps, through blocks, loops, conditionals, lists, functions and *)
(* sourced files (src/cjsh-core/src/interpreter, Shell, the loop control   *)
(* builtins and the trap manager).                                         *)
(*                                                                         *)
(* The evaluators call one another recursively; here each call is a frame  *)
(* on a stack, and ret is the result a call has just given to the frame    *)
(* below it.  The script is not fixed: whenever an evaluator takes its     *)
(* next command, any construct of Constructs may come, so a behaviour is   *)
(* the run of some script and the properties are about all scripts whose   *)
(* evaluation nests at most MaxFrames calls.                               *)
(*                                                                         *)
(* LoopScope and ErrexitScope are C++ guards: what they count is read off  *)
(* the frames (EnclosingLoops, Suppressed).  flow.aim is a history         *)
(* variable: the frame a request is for.                                   *)
(***************************************************************************)
EXTENDS Integers, Sequences, FiniteSets

CONSTANTS
    Constructs,     \* what the script may use
    Outcomes,       \* the statuses of its commands and the operands of its returns and exits
    Errexit,        \* set -e is on
    Posix,          \* a noninteractive shell in POSIX mode
    MaxLevels,      \* the largest operand of break and continue
    MaxSignals,     \* bound on the signals that arrive
    MaxFrames       \* bound on the nesting of evaluator calls

Success == 0
Failure == 1
Interrupted == 130
Statuses == {Success, Failure, Interrupted}

ASSUME ControlFlowAssumption ==
    /\ Outcomes \subseteq Statuses
    /\ Errexit \in BOOLEAN /\ Posix \in BOOLEAN
    /\ MaxLevels \in Nat /\ MaxSignals \in Nat /\ MaxFrames \in Nat

VARIABLES
    stack,          \* the evaluator calls in progress, innermost last
    ret,            \* what the call that has just ended gave to the one below it
    flow,           \* ShellScriptInterpreter::control_flow
    exiting,        \* cjsh_env::exit_requested()
    signals         \* signals that may still arrive

vars == <<stack, ret, flow, exiting, signals>>

NoRequest == [kind |-> "none", levels |-> 0, status |-> 0, aim |-> 0]
NoResult == [code |-> -1, exempt |-> FALSE]
Pending == flow.kind /= "none"

\* step is where the call stands, code its last status, more whether an operator joins the
\* member in hand to a next one, exempt last_result_errexit_exempt, saved the request that a
\* trap interrupted.
Frame(kind, step) ==
    [kind |-> kind, step |-> step, code |-> Success, more |-> FALSE, exempt |-> FALSE, saved |-> NoRequest]

Top == stack[Len(stack)]
Become(frame) == [stack EXCEPT ![Len(stack)] = frame]
Running(kind, step) == stack /= <<>> /\ ret = NoResult /\ Top.kind = kind /\ Top.step = step
Returned(kind, step) == stack /= <<>> /\ ret /= NoResult /\ Top.kind = kind /\ Top.step = step

Return(code, exempt) ==
    /\ stack' = SubSeq(stack, 1, Len(stack) - 1)
    /\ ret' = [code |-> code, exempt |-> exempt]
Goto(frame) == stack' = Become(frame) /\ ret' = NoResult
Call(callers, frames) ==
    /\ Len(callers) + Len(frames) <= MaxFrames
    /\ stack' = callers \o frames
    /\ ret' = NoResult
Nests(callers) == Len(callers) + 2 <= MaxFrames
Block == <<Frame("block", "line")>>

-----------------------------------------------------------------------------
(* Scopes *)

\* The loops that may still run a condition or a body.
Loops(frames) ==
    {i \in DOMAIN frames : frames[i].kind \in {"while", "for"} /\ frames[i].step \notin {"done", "trailing"}}
\* mutant: the scope of a loop is open at its own polls too
LoopScopesThroughout(frames) == Loops(frames)
\* LoopScope is open while a condition or a body runs, not at the loop's own polls.
LoopScopes(frames) == {i \in Loops(frames) : frames[i].step \in {"condition", "body"}}
EnclosingLoops(frames) == Cardinality(LoopScopes(frames))
\* A function call and the evaluation of a sourced file are one kind of frame.
ReturnScopes(frames) == {i \in DOMAIN frames : frames[i].kind = "function"}

\* ErrexitScope: conditions, and the members of a list that are not its last one.
Tested(frame) ==
    \/ frame.kind \in {"while", "if"} /\ frame.step = "condition"
    \/ frame.kind \in {"block", "list"} /\ frame.step = "command" /\ frame.more
Suppressed(frames) == \E i \in DOMAIN frames : Tested(frames[i])
Aborts(code) == code /= Success /\ Errexit /\ ~Suppressed(stack)

-----------------------------------------------------------------------------
(* Requests *)

\* The loop that the nth level counts to, 0 when a loop of them is at its own poll.
LoopAt(frames, n) ==
    CHOOSE i \in Loops(frames) : Cardinality({j \in Loops(frames) : j >= i}) = n
LoopAim(frames, n) ==
    IF \A j \in Loops(frames) : j >= LoopAt(frames, n) => j \in LoopScopes(frames)
       THEN LoopAt(frames, n) ELSE 0
ReturnAim(frames) ==
    CHOOSE i \in ReturnScopes(frames) : \A j \in ReturnScopes(frames) : j <= i

\* set_loop_control_level
AtMost(n, limit) == IF n <= limit THEN n ELSE limit
LoopControl(frames) ==
    \E kind \in {"break", "continue"}, n \in 1..MaxLevels :
        LET levels == AtMost(n, EnclosingLoops(frames)) IN
        IF EnclosingLoops(frames) = 0
           THEN ret' = [code |-> Failure, exempt |-> FALSE] /\ UNCHANGED flow
           ELSE /\ flow' = [kind |-> kind, levels |-> levels, status |-> 0, aim |-> LoopAim(frames, levels)]
                /\ ret' = [code |-> Success, exempt |-> FALSE]

\* return_command
ReturnControl(frames) ==
    \E code \in Outcomes :
        IF ReturnScopes(frames) = {}
           THEN ret' = [code |-> Failure, exempt |-> FALSE] /\ UNCHANGED flow
           ELSE /\ flow' = [kind |-> "return", levels |-> 0, status |-> code, aim |-> ReturnAim(frames)]
                /\ ret' = [code |-> code, exempt |-> FALSE]

\* ControlFlowState::consume_loop
ConsumeLoop ==
    flow' = CASE flow.kind \in {"break", "continue"} /\ flow.levels > 1 -> [flow EXCEPT !.levels = @ - 1]
              [] flow.kind \in {"break", "continue"} /\ flow.levels <= 1 -> NoRequest
              [] OTHER -> flow

-----------------------------------------------------------------------------
(* One command: execute_simple_or_pipeline_impl *)

\* A pending request or an exit: nothing is run.
NothingRuns(callers) ==
    /\ Pending \/ exiting
    /\ \E code \in IF Pending THEN {flow.status} ELSE Outcomes : ret' = [code |-> code, exempt |-> FALSE]
    /\ stack' = callers
    /\ UNCHANGED <<flow, exiting>>

SimpleCommand(callers) ==
    /\ \E code \in Outcomes, negated \in BOOLEAN :
          ret' = [code |-> code, exempt |-> negated /\ code /= Success]
    /\ stack' = callers
    /\ UNCHANGED <<flow, exiting>>

ControlCommand(callers) ==
    /\ LoopControl(callers) \/ ("function" \in Constructs /\ ReturnControl(callers))
    /\ stack' = callers
    /\ UNCHANGED exiting

\* An exit that asks for confirmation first is a simple command.
ExitCommand(callers) ==
    /\ "exit" \in Constructs
    /\ exiting' = TRUE
    /\ ret' = [code |-> Success, exempt |-> FALSE]
    /\ stack' = callers
    /\ UNCHANGED flow

NestedCall(callers) ==
    /\ \/ "function" \in Constructs /\ Call(callers, <<Frame("function", "body")>> \o Block)
       \/ "group" \in Constructs /\ Call(callers, Block)
       \/ "case" \in Constructs /\ Nests(callers) /\ Call(callers, <<Frame("case", "head")>>)
       \/ "list" \in Constructs /\ \E kind \in {"list", "semicolons"} : Call(callers, <<Frame(kind, "next")>>)
    /\ UNCHANGED <<flow, exiting>>

Invoke(callers) ==
    \/ NothingRuns(callers)
    \/ /\ ~Pending /\ ~exiting
       /\ \/ SimpleCommand(callers) \/ ControlCommand(callers)
          \/ ExitCommand(callers) \/ NestedCall(callers)

\* A compound command that an evaluator recognises by its keyword.
Compound(callers) ==
    /\ Nests(callers)
    /\ \E kind \in {"while", "for", "if", "case"} \cap Constructs : Call(callers, <<Frame(kind, "head")>>)

-----------------------------------------------------------------------------
(* Signals: polled between the lines and after the commands of a block, and by loops *)

Polls ==
    \/ Running("block", "line") /\ ~Pending
    \/ Running("block", "after")
    \/ Running("while", "head") \/ Running("while", "checked") \/ Running("for", "head")
TrapRunning == \E i \in DOMAIN stack : stack[i].kind = "trap"

\* execute_trap_body: the request in progress is put aside.  A poll reports SIGINT to its
\* caller even when a trap has handled it.
RunTrap ==
    /\ Polls /\ ~TrapRunning
    /\ signals > 0
    /\ \E reported \in {Success, Interrupted} :
          Call(stack, <<[Frame("trap", "body") EXCEPT !.saved = flow, !.code = reported]>> \o Block)
    /\ flow' = NoRequest
    /\ signals' = signals - 1
    /\ UNCHANGED exiting

RestoreRequest == flow' = IF Top.saved /= NoRequest THEN Top.saved ELSE flow
TrapEnds ==
    /\ Returned("trap", "body")
    /\ stack' = SubSeq(stack, 1, Len(stack) - 1)
    /\ ret' = IF Top.code = Interrupted THEN [code |-> Interrupted, exempt |-> FALSE] ELSE NoResult
    /\ RestoreRequest
    /\ UNCHANGED <<exiting, signals>>

\* A SIGINT without a trap.
Interrupt ==
    /\ Polls
    /\ signals > 0
    /\ signals' = signals - 1
    /\ ret' = [code |-> Interrupted, exempt |-> FALSE]
    /\ UNCHANGED <<stack, flow, exiting>>
PollInterruptsBlock ==
    /\ Returned("block", "line") \/ Returned("block", "after")
    /\ \E code \in IF exiting THEN Outcomes ELSE {Interrupted} : Return(code, FALSE)
    /\ UNCHANGED <<flow, exiting, signals>>
PollInterruptsLoop ==
    /\ Returned("while", "head") \/ Returned("while", "checked") \/ Returned("for", "head")
    /\ Goto([Top EXCEPT !.step = "done", !.code = Interrupted, !.more = FALSE])
    /\ UNCHANGED <<flow, exiting, signals>>

-----------------------------------------------------------------------------
(* execute_block: the lines of a block, and the members of the list on a line *)

BlockEnds ==
    /\ Running("block", "line") /\ ~Pending /\ ~exiting
    /\ Return(Top.code, FALSE)
    /\ UNCHANGED <<flow, exiting, signals>>

\* Before a line, a member or a command: a request or an exit unwinds.
BlockUnwinds ==
    /\ \/ Pending /\ (Running("block", "line") \/ Running("block", "next"))
       \/ (Pending \/ exiting) /\ Running("block", "after")
       \/ exiting /\ Running("block", "line")
    /\ \E code \in IF Pending /\ ~(exiting /\ Top.step = "after") THEN {flow.status} ELSE Outcomes : Return(code, FALSE)
    /\ UNCHANGED <<flow, exiting, signals>>

CompoundLine ==
    /\ Running("block", "line") /\ ~Pending /\ ~exiting
    /\ Compound(Become([Top EXCEPT !.step = "structured", !.code = Success]))
    /\ UNCHANGED <<flow, exiting, signals>>
StructuredReturns ==
    /\ Returned("block", "structured")
    /\ IF ret.code = Interrupted \/ Pending \/ exiting
          THEN Return(ret.code, FALSE)
          ELSE Goto([Top EXCEPT !.step = "line", !.code = ret.code])
    /\ UNCHANGED <<flow, exiting, signals>>

ListLine ==
    /\ Running("block", "line") /\ ~Pending /\ ~exiting
    /\ Goto([Top EXCEPT !.step = "next", !.code = Success, !.more = FALSE])
    /\ UNCHANGED <<flow, exiting, signals>>

\* A simple command, a pipeline or a nested list, under the ErrexitScope of its member.
BlockCommand ==
    /\ Running("block", "next") /\ ~Pending
    /\ \E more \in BOOLEAN :
          Invoke(Become([Top EXCEPT !.step = "command", !.code = Success, !.more = more]))
    /\ UNCHANGED signals
BlockCommandReturns ==
    /\ Returned("block", "command")
    /\ IF ret.code = Interrupted
          THEN Return(Interrupted, FALSE)
          ELSE Goto([Top EXCEPT !.step = "after", !.code = ret.code, !.exempt = ret.exempt])
    /\ UNCHANGED <<flow, exiting, signals>>

\* After the poll: errexit, or the next member.
BlockAborts ==
    /\ Running("block", "after") /\ ~Pending /\ ~exiting
    /\ Aborts(Top.code) /\ ~Top.more /\ ~Top.exempt
    /\ exiting' = Posix
    /\ Return(Top.code, FALSE)
    /\ UNCHANGED <<flow, signals>>
BlockContinues ==
    /\ Running("block", "after") /\ ~Pending /\ ~exiting
    /\ ~(Aborts(Top.code) /\ ~Top.more /\ ~Top.exempt)
    /\ Goto([Top EXCEPT !.step = "next", !.exempt = FALSE])
    /\ UNCHANGED <<flow, exiting, signals>>

\* A brace group, a subshell (for this shell, a command) or a compound command as a member:
\* nothing is checked after it.
InlineMember ==
    /\ Running("block", "next") /\ ~Pending
    /\ LET caller == Become([Top EXCEPT !.step = "inline", !.code = Success, !.more = FALSE]) IN
       \/ Compound(caller) /\ UNCHANGED <<flow, exiting>>
       \/ "group" \in Constructs /\ Invoke(caller)
    /\ UNCHANGED signals
InlineReturns ==
    /\ Returned("block", "inline")
    /\ \E more \in BOOLEAN : Goto([Top EXCEPT !.step = "next", !.code = ret.code, !.more = more])
    /\ UNCHANGED <<flow, exiting, signals>>

\* A member that && or || does not select.
SkipMember ==
    /\ Running("block", "next") /\ ~Pending /\ Top.more
    /\ Goto([Top EXCEPT !.more = FALSE])
    /\ UNCHANGED <<flow, exiting, signals>>
LineEnds ==
    /\ Running("block", "next") /\ ~Pending /\ ~Top.more
    /\ IF Top.code = Interrupted THEN Return(Interrupted, FALSE) ELSE Goto([Top EXCEPT !.step = "line"])
    /\ UNCHANGED <<flow, exiting, signals>>
\* A command that was not found (one of Failure) ends the block here, also where errexit spared it
\* after its own member.
NotFoundAborts ==
    /\ Running("block", "next") /\ ~Pending /\ ~Top.more
    /\ Top.code = Failure /\ Aborts(Failure)
    /\ exiting' = (exiting \/ Posix)
    /\ Return(Failure, FALSE)
    /\ UNCHANGED <<flow, signals>>

-----------------------------------------------------------------------------
(* Lists that are run from their text: a && b || c, a; b, and the bodies of compact ifs and cases *)

ListCommand ==
    /\ Running("list", "next")
    /\ \E more \in BOOLEAN :
          Invoke(Become([Top EXCEPT !.step = "command", !.code = Success, !.more = more, !.exempt = more]))
    /\ UNCHANGED signals
ListCommandReturns ==
    /\ Returned("list", "command")
    /\ IF Pending \/ exiting \/ ret.code = Interrupted
          THEN Return(ret.code, FALSE)
          ELSE Goto([Top EXCEPT !.step = "next", !.code = ret.code])
    /\ UNCHANGED <<flow, exiting, signals>>
SkipListMember ==
    /\ Running("list", "next") /\ Top.more
    /\ Goto([Top EXCEPT !.more = FALSE])
    /\ UNCHANGED <<flow, exiting, signals>>
ListEnds ==
    /\ Running("list", "next") /\ ~Top.more
    /\ Return(Top.code, Top.code /= Success /\ Top.exempt)
    /\ UNCHANGED <<flow, exiting, signals>>

SemicolonCommand ==
    /\ Running("semicolons", "next")
    /\ Invoke(Become([Top EXCEPT !.step = "command", !.code = Success, !.exempt = FALSE]))
    /\ UNCHANGED signals
SemicolonAborts == Aborts(ret.code) /\ ~ret.exempt /\ ~Pending /\ ~exiting /\ ret.code /= Interrupted
SemicolonReturns ==
    /\ Returned("semicolons", "command")
    /\ IF Pending \/ exiting \/ ret.code = Interrupted \/ SemicolonAborts
          THEN Return(ret.code, FALSE)
          ELSE Goto([Top EXCEPT !.step = "next", !.code = ret.code, !.exempt = ret.exempt])
    /\ exiting' = (exiting \/ (SemicolonAborts /\ Posix))
    /\ UNCHANGED <<flow, signals>>
SemicolonsEnd ==
    /\ Running("semicolons", "next")
    /\ Return(Top.code, Top.exempt)
    /\ UNCHANGED <<flow, exiting, signals>>

\* The commands of a case clause, of a compact branch, or after a compact fi.
CompactCommand ==
    /\ Running("compact", "next")
    /\ Invoke(Become([Top EXCEPT !.step = "command", !.code = Success]))
    /\ UNCHANGED signals
CompactReturns ==
    /\ Returned("compact", "command")
    /\ IF Pending \/ exiting \/ ret.code /= Success
          THEN Return(ret.code, FALSE)
          ELSE Goto([Top EXCEPT !.step = "next"])
    /\ UNCHANGED <<flow, exiting, signals>>
CompactEnds ==
    /\ Running("compact", "next")
    /\ Return(Top.code, FALSE)
    /\ UNCHANGED <<flow, exiting, signals>>

-----------------------------------------------------------------------------
(* Loops: handle_loop_block for while and until, handle_for_block and select for the others *)

\* handle_loop_command_result: whether the loop is left.
LoopLeaves(code) ==
    \/ flow.kind \in {"return", "break"}
    \/ flow.kind = "continue" /\ flow.levels > 1
    \/ ~Pending /\ (code = Interrupted \/ Aborts(code))
LoopCode(code) == CASE flow.kind = "return" -> flow.status [] flow.kind \in {"break", "continue"} -> 0 [] OTHER -> code
Leave(code) == Goto([Top EXCEPT !.step = "done", !.code = code])
Iterate(code) == Goto([Top EXCEPT !.step = "head", !.code = code])

WhileCondition ==
    /\ Running("while", "head")
    /\ Invoke(Become([Top EXCEPT !.step = "condition"]))
    /\ UNCHANGED signals
WhileConditionReturns ==
    /\ Returned("while", "condition")
    /\ IF exiting
          THEN Leave(ret.code) /\ UNCHANGED flow
          ELSE IF Pending
          THEN /\ ConsumeLoop
               /\ IF LoopLeaves(ret.code) THEN Leave(LoopCode(ret.code)) ELSE Iterate(LoopCode(ret.code))
          ELSE /\ \E until \in BOOLEAN :
                     Goto([Top EXCEPT !.step = "checked", !.more = ((ret.code = Success) /= until)])
               /\ UNCHANGED flow
    /\ UNCHANGED <<exiting, signals>>
WhileBody ==
    /\ Running("while", "checked") /\ Top.more
    /\ Call(Become([Top EXCEPT !.step = "body", !.more = FALSE, !.code = Success]), Block)
    /\ UNCHANGED <<flow, exiting, signals>>
ConditionFails ==
    /\ Running("while", "checked") /\ ~Top.more
    /\ Leave(Top.code)
    /\ UNCHANGED <<flow, exiting, signals>>
WhileBodyReturns ==
    /\ Returned("while", "body")
    /\ ConsumeLoop
    /\ IF exiting \/ LoopLeaves(ret.code) THEN Leave(LoopCode(ret.code)) ELSE Iterate(LoopCode(ret.code))
    /\ UNCHANGED <<exiting, signals>>

ForBody ==
    /\ Running("for", "head")
    /\ Call(Become([Top EXCEPT !.step = "body", !.code = Success]), Block)
    /\ UNCHANGED <<flow, exiting, signals>>
\* The items are used up, or a C-style expression or the reply of a select cannot be read.
ForEnds ==
    /\ Running("for", "head")
    /\ \E code \in {Top.code, Failure} : Leave(code)
    /\ UNCHANGED <<flow, exiting, signals>>
\* mutant: an exit does not leave the loop
ForBodyIgnoresExit ==
    /\ Returned("for", "body")
    /\ ConsumeLoop
    /\ IF LoopLeaves(ret.code) THEN Leave(LoopCode(ret.code)) ELSE Iterate(LoopCode(ret.code))
    /\ UNCHANGED <<exiting, signals>>
ForBodyReturns ==
    /\ Returned("for", "body")
    /\ IF exiting
          THEN Leave(ret.code) /\ UNCHANGED flow
          ELSE /\ ConsumeLoop
               /\ IF LoopLeaves(ret.code) THEN Leave(LoopCode(ret.code)) ELSE Iterate(LoopCode(ret.code))
    /\ UNCHANGED <<exiting, signals>>

AtDone == Running("while", "done") \/ Running("for", "done")
LoopEnds ==
    /\ AtDone
    /\ Return(Top.code, FALSE)
    /\ UNCHANGED <<flow, exiting, signals>>
\* execute_loop_trailing_commands
LoopTrailing ==
    /\ AtDone /\ ~Pending /\ ~exiting
    /\ "list" \in Constructs
    /\ Invoke(Become([Top EXCEPT !.step = "trailing", !.code = Success]))
    /\ UNCHANGED signals

-----------------------------------------------------------------------------
(* Conditionals *)

IfCondition ==
    /\ Running("if", "head")
    /\ Invoke(Become([Top EXCEPT !.step = "condition", !.code = Success]))
    /\ UNCHANGED signals
\* Then or else, elif, or no branch.
IfConditionReturns ==
    /\ Returned("if", "condition")
    /\ IF Pending \/ exiting
          THEN Return(ret.code, FALSE)
          ELSE \/ Goto([Top EXCEPT !.step = "branch"])
               \/ ret.code /= Success /\ \E step \in {"head", "done"} : Goto([Top EXCEPT !.step = step])
    /\ UNCHANGED <<flow, exiting, signals>>
\* The lines of a branch are a block; the branch of an if on one line is run compactly.
IfBranch ==
    /\ Running("if", "branch")
    /\ \E body \in {Block, <<Frame("compact", "next")>>} : Call(Become([Top EXCEPT !.step = "body"]), body)
    /\ UNCHANGED <<flow, exiting, signals>>
IfBodyReturns ==
    /\ Returned("if", "body")
    /\ Goto([Top EXCEPT !.step = "done", !.code = ret.code])
    /\ UNCHANGED <<flow, exiting, signals>>
IfEnds ==
    /\ Running("if", "done")
    /\ Return(Top.code, FALSE)
    /\ UNCHANGED <<flow, exiting, signals>>
\* What stands after fi on its line.
IfTrailing ==
    /\ Running("if", "done") /\ ~Pending /\ ~exiting
    /\ "list" \in Constructs
    /\ \E body \in {Block, <<Frame("compact", "next")>>} :
          Call(Become([Top EXCEPT !.step = "trailing", !.code = Success]), body)
    /\ UNCHANGED <<flow, exiting, signals>>

\* execute_case_sections: a clause, then ;; or a fall through to the next one.
CaseClause ==
    /\ Running("case", "head")
    /\ Call(Become([Top EXCEPT !.step = "body", !.code = Success]), <<Frame("compact", "next")>>)
    /\ UNCHANGED <<flow, exiting, signals>>
CaseBodyReturns ==
    /\ Returned("case", "body")
    /\ \/ Return(ret.code, FALSE)
       \/ ~Pending /\ ~exiting /\ Goto([Top EXCEPT !.step = "head", !.code = ret.code])
    /\ UNCHANGED <<flow, exiting, signals>>
CaseEnds ==
    /\ Running("case", "head")
    /\ Return(Top.code, FALSE)
    /\ UNCHANGED <<flow, exiting, signals>>

TrailingReturns ==
    /\ \E kind \in {"while", "for", "if"} : Returned(kind, "trailing")
    /\ Return(ret.code, FALSE)
    /\ UNCHANGED <<flow, exiting, signals>>

-----------------------------------------------------------------------------
(* execute_function_call and execute_script_content: the boundaries of return *)

\* mutant: a function takes whatever request is pending
ConsumesAny == Pending
ConsumesReturn == flow.kind = "return"
ScopeReturns ==
    /\ Returned("function", "body")
    /\ flow' = IF ConsumesReturn THEN NoRequest ELSE flow
    /\ Return(IF ConsumesReturn THEN flow.status ELSE ret.code, FALSE)
    /\ UNCHANGED <<exiting, signals>>

\* The script is over.
Finished == stack = <<>> /\ UNCHANGED vars

-----------------------------------------------------------------------------

\* The text of -c; the text of a script file is run as a sourced one.
Init ==
    /\ stack = Block
    /\ ret = NoResult
    /\ flow = NoRequest
    /\ exiting = FALSE
    /\ signals = MaxSignals

BlockNext ==
    \/ BlockEnds \/ BlockUnwinds \/ CompoundLine \/ StructuredReturns \/ ListLine
    \/ BlockCommand \/ BlockCommandReturns \/ BlockAborts \/ BlockContinues
    \/ InlineMember \/ InlineReturns \/ SkipMember
    \/ LineEnds \/ NotFoundAborts
ListNext ==
    \/ ListCommand \/ ListCommandReturns \/ SkipListMember \/ ListEnds
    \/ SemicolonCommand \/ SemicolonReturns \/ SemicolonsEnd
    \/ CompactCommand \/ CompactReturns \/ CompactEnds
LoopNext ==
    \/ WhileCondition \/ WhileConditionReturns \/ WhileBody \/ ConditionFails \/ WhileBodyReturns
    \/ ForBody \/ ForEnds \/ ForBodyReturns \/ LoopEnds \/ LoopTrailing
BranchNext ==
    \/ IfCondition \/ IfConditionReturns \/ IfBranch \/ IfBodyReturns \/ IfEnds \/ IfTrailing
    \/ CaseClause \/ CaseBodyReturns \/ CaseEnds \/ TrailingReturns
SignalNext == RunTrap \/ TrapEnds \/ Interrupt \/ PollInterruptsBlock \/ PollInterruptsLoop

Next == BlockNext \/ ListNext \/ LoopNext \/ BranchNext \/ SignalNext \/ ScopeReturns \/ Finished

Spec == Init /\ [][Next]_vars

\* The evaluators run to their end, and the list on a line is finite: its last member comes.
LastMember == (BlockCommand \/ InlineReturns \/ SkipMember) /\ ~stack'[Len(stack)].more
FairSpec == Spec /\ WF_vars(Next) /\ SF_vars(LastMember) /\ SF_vars(LineEnds)

-----------------------------------------------------------------------------
(* Properties *)

\* The frame of the request has not ended: the loop its level counts to, with a level for every
\* loop from there on, or the innermost function or sourced file.
Awaited(request, frames) ==
    /\ request.aim \in DOMAIN frames
    /\ request.kind = "return" => request.aim \in ReturnScopes(frames)
    /\ request.kind \in {"break", "continue"} =>
          /\ request.aim \in Loops(frames)
          /\ Cardinality({i \in Loops(frames) : i >= request.aim}) = request.levels

\* Whatever a break, continue or return has to leave, through lists, conditionals, functions and
\* traps that run on the way, the frame it is for waits for it, and its levels are the loops that
\* are left to leave.  (A trap that runs while a loop polls may make a request whose level counts
\* a loop without a LoopScope: its aim is 0, and it is left out; so is a shell that is exiting,
\* which consumes nothing more.)
RequestsAreAwaited ==
    ~exiting =>
       /\ Pending /\ flow.aim /= 0 => Awaited(flow, stack)
       /\ \A i \in DOMAIN stack :
             stack[i].kind = "trap" /\ stack[i].saved.aim /= 0 => Awaited(stack[i].saved, SubSeq(stack, 1, i - 1))

\* "Only a control builtin can request unwinding, and only the matching function/source/loop
\* boundary consumes it" (control_flow.h): a request goes only when its own frame is on top, or is
\* put aside by a trap.  (In a shell that is exiting a loop is left with the request for it still
\* pending, and a while around it consumes that request; nothing runs again by then.)
OnlyItsBoundaryConsumes ==
    [][Pending /\ ~exiting /\ flow.aim /= 0 /\ flow' = NoRequest =>
          \/ Len(stack) = flow.aim
          \/ \E i \in DOMAIN stack' : i > Len(stack) /\ stack'[i].saved = flow]_vars

\* A request is over and an exit ends the script, whatever is nested around it and whatever loop
\* could go round for ever: no evaluator keeps either from those below it.
Unwinding == Pending \/ exiting
UnwindingEnds == Unwinding ~> (~Unwinding \/ stack = <<>>)

\* docs/reference/posix-mode.md: "Ordinary nonzero statuses remain ordinary command results unless
\* errexit applies".  Without errexit the failure of one command does not end the list it is in.
OrdinaryFailureGoesOn ==
    [][stack /= <<>> /\ Top.step = "command" /\ ret.code = Failure /\ ~Pending /\ ~exiting /\ ~Errexit =>
          Len(stack') >= Len(stack)]_vars

=============================================================================
