------------------------ MODULE SignalDispatchProofs ------------------------
(***************************************************************************)
(* What holds of the dispatcher for any set of signals, any startup file   *)
(* and any number of arrivals and commands.                                *)
(***************************************************************************)
EXTENDS SignalDispatch, TLAPS

-----------------------------------------------------------------------------
(* A trapped signal spares the shell *)

\* A trap that is due is set, and its signal is observed: the two halves of a change of
\* disposition leave no state in which a due trap could be taken for an untrapped signal.
OwedObserved == owed \subseteq traps \cap observed

LEMMA OwedObservedInit == SignalInit => OwedObserved
BY DEF SignalInit, OwedObserved

LEMMA OwedObservedHandle ==
    ASSUME NEW s \in Signals, Handle(s), OwedObserved, UNCHANGED trapVars
    PROVE  OwedObserved'
<1>1. owed' \subseteq owed \cup ({s} \cap traps \cap observed)
  BY DEF Handle
<1> QED BY <1>1 DEF OwedObserved, trapVars

LEMMA OwedObservedNext == OwedObserved /\ [SignalNext]_signalVars => OwedObserved'
<1> SUFFICES ASSUME OwedObserved, [SignalNext]_signalVars PROVE OwedObserved'
  OBVIOUS
<1>1. ASSUME owed' \subseteq owed, UNCHANGED trapVars PROVE OwedObserved'
  BY <1>1 DEF OwedObserved, trapVars
<1>2. CASE UNCHANGED signalVars
  BY <1>2 DEF signalVars, trapVars, OwedObserved
<1>3. CASE Environment
  <2>1. ASSUME NEW s \in Signals, Arrive(s) PROVE OwedObserved'
    BY <1>1, <2>1, OwedObservedHandle DEF Arrive
  <2>2. ASSUME NEW s \in Signals, Release(s) PROVE OwedObserved'
    BY <1>1, <2>2, OwedObservedHandle DEF Release
  <2> QED BY <1>3, <2>1, <2>2 DEF Environment
<1>4. CASE Shell
  <2>1. CASE ReadFlag
    <3>1. owed' \subseteq owed
      BY <2>1 DEF ReadFlag, RunTrap
    <3> QED BY <1>1, <2>1, <3>1 DEF ReadFlag
  <2>2. CASE EndDispatch \/ PollBefore \/ PollAfter \/ EndBody
    BY <1>1, <2>2 DEF EndDispatch, Return, PollBefore, PollAfter, PollAround, EndBody
  <2>3. CASE FinishInstall
    BY <2>3 DEF FinishInstall, OwedObserved
  <2> QED BY <1>4, <2>1, <2>2, <2>3 DEF Shell
<1>5. CASE Command
  <2>1. CASE PlainCommand \/ ExitCommand
    BY <1>1, <2>1 DEF PlainCommand, EndCommand, ExitCommand
  <2>2. ASSUME NEW s \in Signals \cup {"EXIT"}, SetTrap(s) PROVE OwedObserved'
    BY <2>2 DEF SetTrap, OwedObserved
  <2>3. ASSUME NEW s \in Signals \cup {"EXIT"}, ResetTrap(s) PROVE OwedObserved'
    BY <2>3 DEF ResetTrap, OwedObserved
  <2>4. ASSUME NEW s \in Signals, IgnoreSignal(s) PROVE OwedObserved'
    BY <2>4 DEF IgnoreSignal, OwedObserved
  <2> QED BY <1>5, <2>1, <2>2, <2>3, <2>4 DEF Command
<1>6. CASE Main
  <2>1. CASE Loop \/ RunLine
    BY <1>1, <2>1 DEF Loop, LoopPolls, Woken, LeaveLoop, EnterTransition, RunLine
  <2>2. CASE EndOfInput \/ BeginShutdown \/ RunExitHandlers \/ Die
    BY <1>1, <2>2 DEF EndOfInput, EnterTransition, BeginShutdown, RunExitHandlers, Die
  <2>3. CASE FinishShutdown
    BY <2>3 DEF FinishShutdown, OwedObserved
  <2> QED BY <1>6, <2>1, <2>2, <2>3 DEF Main, Shutdown
<1> QED BY <1>2, <1>3, <1>4, <1>5, <1>6 DEF SignalNext

\* What a step does to the reason for termination.
LEMMA CauseIsUntrapped ==
    ASSUME OwedObserved, [SignalNext]_signalVars, termination' /= termination
    PROVE  termination' \notin owed
<1>1. ASSUME NEW s \in Signals, Handle(s) PROVE termination' \notin owed
  BY <1>1 DEF Handle, OwedObserved
<1>2. CASE ReadFlag
  BY <1>2 DEF ReadFlag, RunTrap, Fatal, OwedObserved
<1>3. ~(UNCHANGED signalVars) /\ SignalNext
  BY DEF signalVars, exitVars
<1>4. ASSUME UNCHANGED termination PROVE FALSE
  BY <1>4
<1>5. CASE Environment
  BY <1>1, <1>4, <1>5 DEF Environment, Arrive, Release
<1>6. CASE Shell
  BY <1>2, <1>4, <1>6 DEF Shell, EndDispatch, Return, PollBefore, PollAfter, PollAround, EndBody,
     FinishInstall, exitVars
<1>7. CASE Command
  BY <1>4, <1>7 DEF Command, PlainCommand, EndCommand, ExitCommand, SetTrap, ResetTrap, IgnoreSignal,
     exitVars
<1>8. CASE Main
  BY <1>4, <1>8 DEF Main, Loop, Shutdown, LoopPolls, Woken, LeaveLoop, EnterTransition, RunLine,
     EndOfInput, BeginShutdown, RunExitHandlers, FinishShutdown, Die, exitVars
<1> QED BY <1>3, <1>5, <1>6, <1>7, <1>8 DEF SignalNext

\* A signal whose trap is due never becomes the reason to terminate: HUP and TERM traps
\* that return leave the shell running (docs/reference/hooks.md:162).
THEOREM TrappedSignalAlwaysSpares == SignalSpec => TrappedSignalSpares
<1>1. SignalSpec => []OwedObserved
  BY OwedObservedInit, OwedObservedNext, PTL DEF SignalSpec
<1>2. OwedObserved /\ [SignalNext]_signalVars => [termination' /= termination => termination' \notin owed]_signalVars
  BY CauseIsUntrapped
<1> QED BY <1>1, <1>2, PTL DEF SignalSpec, TrappedSignalSpares

-----------------------------------------------------------------------------
(* Traps do not nest *)

Reads == {"INT", "HUP", "TERM", "USR1", "trap of INT"}
Dispatches == [kind : {"dispatch"}, left : Seq(Reads), int : BOOLEAN, end : BOOLEAN]
Bodies == [kind : {"body"}, of : Signals \cup {"EXIT", "line"}, step : {"before", "command", "after", "end"}]
Frames == Dispatches \cup Bodies
TrapsOf(frames) == {i \in DOMAIN frames : IsTrap(frames[i])}

\* The stack is made of frames, a change of disposition is made by shell code, and
\* s_executing_trap is set exactly while the body of one signal trap is on the stack.
OneTrap ==
    /\ stack \in Seq(Frames)
    /\ executing \in BOOLEAN
    /\ traps \subseteq Signals \cup {"EXIT"}
    /\ installing /= NoSignal => Running("body")
    /\ \A i, j \in TrapsOf(stack) : i = j
    /\ executing <=> TrapsOf(stack) /= {}

LEMMA FrameKinds == ASSUME NEW f \in Frames
                    PROVE  /\ f.kind = "dispatch" <=> f \in Dispatches
                           /\ f.kind = "body" <=> f \in Bodies
BY DEF Frames, Dispatches, Bodies

LEMMA StepKeepsBody ==
    ASSUME NEW f \in Bodies, NEW to \in {"before", "command", "after", "end"}
    PROVE  /\ [f EXCEPT !.step = to] \in Bodies
           /\ IsTrap([f EXCEPT !.step = to]) <=> IsTrap(f)
BY DEF Bodies, IsTrap

LEMMA AppendTraps ==
    ASSUME NEW st \in Seq(Frames), NEW f \in Frames
    PROVE  /\ Append(st, f) \in Seq(Frames)
           /\ TrapsOf(Append(st, f)) = IF IsTrap(f) THEN TrapsOf(st) \cup {Len(st) + 1} ELSE TrapsOf(st)
           /\ Append(st, f) /= <<>> /\ Append(st, f)[Len(Append(st, f))] = f
BY DEF TrapsOf

LEMMA BecomeTraps ==
    ASSUME NEW st \in Seq(Frames), st /= <<>>, NEW f \in Frames, IsTrap(f) <=> IsTrap(st[Len(st)])
    PROVE  LET new == [st EXCEPT ![Len(st)] = f]
           IN new \in Seq(Frames) /\ TrapsOf(new) = TrapsOf(st) /\ new /= <<>> /\ new[Len(new)] = f
BY DEF TrapsOf

LEMMA PopTraps ==
    ASSUME NEW st \in Seq(Frames), st /= <<>>
    PROVE  LET new == SubSeq(st, 1, Len(st) - 1)
           IN new \in Seq(Frames) /\ TrapsOf(new) = TrapsOf(st) \ {Len(st)}
BY DEF TrapsOf

LEMMA NewFrames ==
    /\ Dispatch \in Frames /\ ~IsTrap(Dispatch)
    /\ \A c \in Signals \cup {"EXIT", "line"} : Body(c) \in Frames /\ (IsTrap(Body(c)) <=> c \in Signals)
<1>1. Order \in Seq(Reads)
  BY DEF Order, Reads
<1>2. Dispatch \in Dispatches /\ ~IsTrap(Dispatch)
  BY <1>1 DEF Dispatch, Dispatches, IsTrap
<1>3. ASSUME NEW c \in Signals \cup {"EXIT", "line"}
      PROVE Body(c) \in Bodies /\ (IsTrap(Body(c)) <=> c \in Signals)
  BY DEF Body, Bodies, IsTrap
<1> QED BY <1>2, <1>3 DEF Frames

\* A dispatch pushes a frame that is no trap.
LEMMA PollKeepsTraps ==
    ASSUME NEW st \in Seq(Frames), Poll(st)
    PROVE  stack' \in Seq(Frames) /\ TrapsOf(stack') = TrapsOf(st)
BY NewFrames, AppendTraps DEF Poll, StartDispatch

LEMMA TopIsFrame == ASSUME stack \in Seq(Frames), stack /= <<>>
                    PROVE  Top \in Frames /\ Len(stack) \in DOMAIN stack
BY DEF Top

LEMMA RunningBody == ASSUME stack \in Seq(Frames), Running("body") PROVE Top \in Bodies /\ stack /= <<>>
BY TopIsFrame, FrameKinds DEF Running

LEMMA RunningDispatch == ASSUME stack \in Seq(Frames), Running("dispatch")
                         PROVE  Top \in Dispatches /\ stack /= <<>> /\ ~IsTrap(Top)
BY TopIsFrame, FrameKinds DEF Running, IsTrap

\* Shell code that goes on to its next step stays the frame it is.
LEMMA StepTraps ==
    ASSUME stack \in Seq(Frames), Running("body"), NEW to \in {"before", "command", "after", "end"}
    PROVE  LET new == Become([Top EXCEPT !.step = to])
           IN /\ new \in Seq(Frames) /\ TrapsOf(new) = TrapsOf(stack)
              /\ new /= <<>> /\ new[Len(new)].kind = "body"
<1> DEFINE f == [Top EXCEPT !.step = to]
<1>1. Top \in Bodies /\ stack /= <<>>
  BY RunningBody
<1>2. f \in Bodies /\ (IsTrap(f) <=> IsTrap(Top))
  BY <1>1, StepKeepsBody
<1>3. f \in Frames /\ f.kind = "body"
  BY <1>2 DEF Frames, Bodies
<1> HIDE DEF f
<1>4. Become(f) \in Seq(Frames) /\ TrapsOf(Become(f)) = TrapsOf(stack)
      /\ Become(f) /= <<>> /\ Become(f)[Len(Become(f))] = f
  BY <1>1, <1>2, <1>3, BecomeTraps DEF Become, Top
<1> QED BY <1>3, <1>4 DEF f

LEMMA OneTrapInit == ASSUME Profiles \subseteq SUBSET (Signals \cup {"EXIT"}), SignalInit PROVE OneTrap
<1>1. stack = <<>> /\ executing = FALSE /\ installing = NoSignal /\ traps \subseteq Signals \cup {"EXIT"}
  BY DEF SignalInit
<1>2. stack \in Seq(Frames) /\ TrapsOf(stack) = {}
  BY <1>1 DEF TrapsOf
<1> QED BY <1>1, <1>2 DEF OneTrap

\* Reading a flag may start a trap, and then none is running.
LEMMA OneTrapReadFlag == ASSUME OneTrap, ReadFlag PROVE OneTrap'
<1> DEFINE next == [Top EXCEPT !.left = Tail(@)]
           ended == [next EXCEPT !.end = TRUE]
           interrupted == [next EXCEPT !.int = TRUE]
<1>1. stack \in Seq(Frames) /\ Top \in Dispatches /\ stack /= <<>> /\ ~IsTrap(Top) /\ Top.left /= <<>>
  BY RunningDispatch DEF OneTrap, ReadFlag
<1>2. Tail(Top.left) \in Seq(Reads) /\ Head(Top.left) \in Reads
  BY <1>1 DEF Dispatches
<1>3. next \in Dispatches /\ ended \in Dispatches /\ interrupted \in Dispatches
  BY <1>1, <1>2 DEF Dispatches
<1>4. \A f \in Dispatches : Become(f) \in Seq(Frames) /\ TrapsOf(Become(f)) = TrapsOf(stack)
                            /\ Len(Become(f)) = Len(stack)
  <2> TAKE f \in Dispatches
  <2>1. f \in Frames /\ (IsTrap(f) <=> IsTrap(Top))
    BY <1>1 DEF Frames, Dispatches, IsTrap
  <2>2. Become(f) \in Seq(Frames) /\ TrapsOf(Become(f)) = TrapsOf(stack)
    BY <1>1, <2>1, BecomeTraps DEF Become, Top
  <2> QED BY <1>1, <2>2 DEF Become
<1>5. traps' = traps /\ installing' = installing /\ installing = NoSignal
  BY DEF ReadFlag, trapVars, OneTrap, Running
<1>6. ASSUME NEW f \in Dispatches, stack' = Become(f), executing' = executing PROVE OneTrap'
  BY <1>4, <1>5, <1>6 DEF OneTrap
<1>7. ASSUME NEW s \in Reads, RunTrap(s, next) PROVE OneTrap'
  <2>1. CASE TrapDue(s)
    <3>0. s \in Signals
      BY <2>1 DEF TrapDue, OneTrap, Reads
    <3>1. executing' = TRUE /\ stack' = Append(Become(next), Body(s)) /\ executing = FALSE
      BY <1>7, <2>1 DEF RunTrap, TrapDue, OneTrap
    <3>2. TrapsOf(stack) = {}
      BY <3>1 DEF OneTrap
    <3>3. Body(s) \in Frames /\ IsTrap(Body(s))
      BY <3>0, NewFrames
    <3> HIDE DEF next
    <3>4. stack' \in Seq(Frames) /\ TrapsOf(stack') = {Len(Become(next)) + 1}
      BY <1>3, <1>4, <3>1, <3>2, <3>3, AppendTraps
    <3> QED BY <1>5, <3>1, <3>4 DEF OneTrap
  <2>2. CASE ~TrapDue(s)
    <3>1. stack' = Become(next) /\ executing' = executing
      BY <1>7, <2>2 DEF RunTrap
    <3> QED BY <1>3, <1>6, <3>1
  <2> QED BY <2>1, <2>2
<1>8. \/ \E s \in Reads : RunTrap(s, next)
      \/ executing' = executing /\ \E f \in {next, ended, interrupted} : stack' = Become(f)
  <2>1. Head(Top.left) \in Reads /\ "INT" \in Reads
    BY <1>2 DEF Reads
  <2> QED BY <2>1 DEF ReadFlag
<1> QED BY <1>3, <1>6, <1>7, <1>8

\* The body that ends was the trap in progress, or no trap at all.
LEMMA OneTrapEndBody == ASSUME OneTrap, EndBody PROVE OneTrap'
<1>1. stack \in Seq(Frames) /\ Top \in Bodies /\ stack /= <<>>
  BY RunningBody DEF OneTrap, EndBody
<1>2. stack' \in Seq(Frames) /\ TrapsOf(stack') = TrapsOf(stack) \ {Len(stack)}
  BY <1>1, PopTraps DEF EndBody, Pop
<1>3. IsTrap(Top) <=> Top.of \in Signals
  BY <1>1 DEF Bodies, IsTrap
<1>4. Len(stack) \in TrapsOf(stack) <=> IsTrap(Top)
  BY <1>1, TopIsFrame DEF TrapsOf, Top
<1>5. executing' = (executing /\ ~IsTrap(Top)) /\ traps' = traps /\ installing' = installing
  BY <1>3 DEF EndBody, trapVars
<1>6. installing = NoSignal
  BY DEF EndBody
<1> QED BY <1>2, <1>4, <1>5, <1>6 DEF OneTrap

\* A dispatch that returns was no trap.
LEMMA OneTrapEndDispatch == ASSUME OneTrap, EndDispatch PROVE OneTrap'
<1>1. stack \in Seq(Frames) /\ stack /= <<>> /\ ~IsTrap(Top)
  BY RunningDispatch DEF OneTrap, EndDispatch, Return
<1>2. stack' \in Seq(Frames) /\ TrapsOf(stack') = TrapsOf(stack) \ {Len(stack)}
  BY <1>1, PopTraps DEF EndDispatch, Return, Pop
<1>3. Len(stack) \notin TrapsOf(stack)
  BY <1>1 DEF TrapsOf, Top
<1>4. UNCHANGED <<executing, traps, installing>> /\ installing = NoSignal
  BY DEF EndDispatch, Return, trapVars, OneTrap, Running
<1> QED BY <1>2, <1>3, <1>4 DEF OneTrap

\* What the steps of shell code that are not its last have in common.
LEMMA OneTrapStep ==
    ASSUME OneTrap, Running("body"), NEW to \in {"before", "command", "after", "end"},
           Step(to), UNCHANGED executing, traps' \subseteq Signals \cup {"EXIT"}
    PROVE  OneTrap'
<1>1. /\ stack' \in Seq(Frames) /\ TrapsOf(stack') = TrapsOf(stack)
      /\ stack' /= <<>> /\ stack'[Len(stack')].kind = "body"
  BY StepTraps DEF OneTrap, Step
<1> QED BY <1>1 DEF OneTrap, Running, Top

LEMMA OneTrapPollAround ==
    ASSUME OneTrap, NEW from, NEW to \in {"before", "command", "after", "end"}, PollAround(from, to)
    PROVE  OneTrap'
<1> DEFINE at == Become([Top EXCEPT !.step = to])
<1>1. at \in Seq(Frames) /\ TrapsOf(at) = TrapsOf(stack)
  BY StepTraps DEF OneTrap, PollAround
<1>2. Poll(at) /\ installing = NoSignal /\ UNCHANGED <<executing, traps, installing>>
  BY DEF PollAround, trapVars
<1> HIDE DEF at
<1>3. stack' \in Seq(Frames) /\ TrapsOf(stack') = TrapsOf(stack)
  BY <1>1, <1>2, PollKeepsTraps
<1> QED BY <1>2, <1>3 DEF OneTrap

LEMMA OneTrapCommand == ASSUME OneTrap, Command PROVE OneTrap'
<1>1. Running("body") /\ installing = NoSignal /\ traps \subseteq Signals \cup {"EXIT"}
  BY DEF Command, PlainCommand, ExitCommand, SetTrap, ResetTrap, IgnoreSignal, AtCommand, OneTrap
<1>2. UNCHANGED executing /\ traps' \subseteq Signals \cup {"EXIT"}
  BY <1>1 DEF Command, PlainCommand, EndCommand, ExitCommand, SetTrap, ResetTrap, IgnoreSignal, trapVars
<1>3. Step("after") \/ UNCHANGED stack
  BY DEF Command, PlainCommand, EndCommand, ExitCommand, SetTrap, ResetTrap, IgnoreSignal
<1>4. CASE Step("after")
  BY <1>1, <1>2, <1>4, OneTrapStep
<1>5. CASE UNCHANGED stack
  BY <1>1, <1>2, <1>5 DEF OneTrap, Running, Top
<1> QED BY <1>3, <1>4, <1>5

\* No shell code is on the stack between the transition and the exit handlers.
IdleAtRelease == phase = "unmask" => stack = <<>>

LEMMA IdleAtReleaseNext == ASSUME OneTrap, IdleAtRelease, [SignalNext]_signalVars PROVE IdleAtRelease'
<1>1. CASE UNCHANGED signalVars
  BY <1>1 DEF signalVars, exitVars, IdleAtRelease
<1>2. CASE Shell
  BY <1>2 DEF Shell, ReadFlag, EndDispatch, Return, PollBefore, PollAfter, PollAround, FinishInstall, EndBody,
     exitVars, Running, IdleAtRelease, OneTrap
<1>3. CASE Command
  BY <1>3 DEF Command, PlainCommand, EndCommand, ExitCommand, SetTrap, ResetTrap, IgnoreSignal, AtCommand,
     exitVars, Running, IdleAtRelease
<1>4. CASE Main
  BY <1>4 DEF Main, Loop, Shutdown, LoopPolls, Woken, LeaveLoop, EnterTransition, RunLine, AtLoop,
     EndOfInput, BeginShutdown, RunExitHandlers, FinishShutdown, Die, exitVars, IdleAtRelease
<1>5. CASE Environment
  BY <1>5 DEF Environment, Arrive, Release, Handle, IdleAtRelease
<1> QED BY <1>1, <1>2, <1>3, <1>4, <1>5 DEF SignalNext

\* The main loop and the shutdown run between commands, when nothing is on the stack.
LEMMA OneTrapMain == ASSUME OneTrap, IdleAtRelease, Main PROVE OneTrap'
<1>1. ASSUME UNCHANGED <<stack, executing, traps, installing>> PROVE OneTrap'
  BY <1>1 DEF OneTrap, Running, Top
<1>2. ASSUME stack = <<>> PROVE executing = FALSE /\ installing = NoSignal /\ TrapsOf(<<>>) = {}
  BY <1>2 DEF OneTrap, TrapsOf, Running
<1>3. ASSUME stack = <<>>, Poll(<<>>), UNCHANGED <<executing, traps, installing>> PROVE OneTrap'
  <2>1. <<>> \in Seq(Frames)
    OBVIOUS
  <2>2. stack' \in Seq(Frames) /\ TrapsOf(stack') = {}
    BY <1>2, <1>3, <2>1, PollKeepsTraps
  <2> QED BY <1>2, <1>3, <2>2 DEF OneTrap
<1>4. ASSUME stack = <<>>, NEW c \in {"line", "EXIT"}, stack' \in {<<>>, <<Body(c)>>},
             UNCHANGED <<executing, traps, installing>>, c \notin Signals
      PROVE OneTrap'
  <2>1. Body(c) \in Frames /\ ~IsTrap(Body(c))
    BY <1>4, NewFrames
  <2>2. CASE stack' = <<>>
    BY <1>2, <1>4, <2>2 DEF OneTrap
  <2>3. CASE stack' = <<Body(c)>>
    <3> DEFINE b == Body(c)
    <3>1. stack' = Append(<<>>, b)
      BY <2>3
    <3>2. <<>> \in Seq(Frames)
      OBVIOUS
    <3> HIDE DEF b
    <3>3. stack' \in Seq(Frames) /\ TrapsOf(stack') = {}
      BY <1>2, <1>4, <2>1, <3>1, <3>2, AppendTraps DEF b
    <3> QED BY <1>2, <1>4, <3>3 DEF OneTrap
  <2> QED BY <1>4, <2>2, <2>3
<1>5. "line" \notin Signals /\ "EXIT" \notin Signals
  BY SignalNames
<1>6. CASE Woken \/ BeginShutdown \/ Die \/ FinishShutdown
  BY <1>1, <1>6 DEF Woken, BeginShutdown, Die, FinishShutdown, trapVars
<1>7. CASE LoopPolls \/ LeaveLoop \/ EndOfInput
  BY <1>3, <1>7 DEF LoopPolls, LeaveLoop, EndOfInput, EnterTransition, AtLoop, trapVars
<1>8. CASE RunLine
  BY <1>4, <1>5, <1>8 DEF RunLine, AtLoop, trapVars
<1>9. CASE RunExitHandlers
  <2>1. stack = <<>>
    BY <1>9 DEF RunExitHandlers, IdleAtRelease
  <2> QED BY <1>4, <1>5, <1>9, <2>1 DEF RunExitHandlers, trapVars
<1> QED BY <1>6, <1>7, <1>8, <1>9 DEF Main, Loop, Shutdown

LEMMA OneTrapNext == ASSUME OneTrap, IdleAtRelease, [SignalNext]_signalVars PROVE OneTrap'
<1>1. ASSUME UNCHANGED <<stack, executing, traps, installing>> PROVE OneTrap'
  BY <1>1 DEF OneTrap, Running, Top
<1>2. CASE UNCHANGED signalVars
  BY <1>1, <1>2 DEF signalVars, trapVars
<1>3. CASE Shell
  <2>1. ASSUME FinishInstall PROVE OneTrap'
    BY <2>1, OneTrapStep DEF FinishInstall, OneTrap
  <2> QED BY <1>3, <2>1, OneTrapReadFlag, OneTrapEndDispatch, OneTrapPollAround, OneTrapEndBody
          DEF Shell, PollBefore, PollAfter
<1>4. CASE Environment
  BY <1>1, <1>4 DEF Environment, Arrive, Release, trapVars
<1> QED BY <1>2, <1>3, <1>4, OneTrapCommand, OneTrapMain DEF SignalNext

\* At most one signal trap is evaluated at a time, and s_executing_trap says whether one
\* is, however the traps poll, exit, or set other traps (process_trapped_signal).
THEOREM TrapsNeverNest == SignalSpec => []TrapsDoNotNest
<1>1. SignalInit => OneTrap /\ IdleAtRelease
  BY OneTrapInit, ProfilesTrapped DEF SignalInit, IdleAtRelease
<1>2. OneTrap /\ IdleAtRelease /\ [SignalNext]_signalVars => OneTrap' /\ IdleAtRelease'
  BY OneTrapNext, IdleAtReleaseNext
<1>3. OneTrap => TrapsDoNotNest
  BY DEF OneTrap, TrapsDoNotNest, TrapBodies, TrapsOf
<1> QED BY <1>1, <1>2, <1>3, PTL DEF SignalSpec
-----------------------------------------------------------------------------
(* Nothing that is owed is forgotten, and shutdown sees every request *)

\* A dispatch reads the trap of INT last, so while it has anything left to read it has that.
LastRead(frame) == frame.kind = "dispatch" /\ frame.left /= <<>> =>
                      frame.left[Len(frame.left)] = "trap of INT"
InOrder(frames) == \A i \in DOMAIN frames : LastRead(frames[i])

\* The dispatch that took the flag of INT has its trap still before it.  TakenByDispatch
\* alone is not inductive: a dispatch that has read everything keeps what it found.
StillToServe(frame) == frame.kind = "dispatch" /\ frame.int /\ frame.left /= <<>>
Served(frames) == \A i \in DOMAIN frames : ~StillToServe(frames[i])
OwedInSight == ~Shutting => \A s \in owed : s \in received \/ (s = "INT" /\ ~Served(stack))

\* In the transition no new request comes in, and the dispatch at the bottom of the
\* stack reads those that are there.
WillRead(frame, s) == frame.kind = "dispatch" /\ \E i \in DOMAIN frame.left : frame.left[i] = s
BottomReads(frames, s) == frames /= <<>> /\ WillRead(frames[1], s)
TransitionReads == phase = "transition" => \A s \in received \cap Terminating : BottomReads(stack, s)

DispositionOK == disposition \in [Signals -> {"ignore", "default", "handler"}]

InSight == InOrder(stack) /\ OwedInSight /\ TransitionReads /\ DispositionOK /\ ShutdownSeesAll

\* What becomes of the frames when at most the flag "read" is read.
Moves(frames, frames2, read) ==
    /\ InOrder(frames) => InOrder(frames2)
    /\ read /= "trap of INT" => (Served(frames2) => Served(frames))
    /\ \A s \in Terminating \ {read} : BottomReads(frames, s) => BottomReads(frames2, s)

LEMMA MovesOn ==
    ASSUME NEW frames, NEW frames2, NEW frames3, NEW read,
           Moves(frames, frames2, read), Moves(frames2, frames3, NoSignal)
    PROVE  Moves(frames, frames3, read)
BY DEF Moves, NoSignal, Terminating

LEMMA DispatchInOrder == LastRead(Dispatch) /\ \A c : LastRead(Body(c)) /\ ~StillToServe(Body(c))
BY DEF LastRead, Dispatch, Body, StillToServe, Order

LEMMA TailReads ==
    ASSUME NEW l \in Seq(Reads), l /= <<>>
    PROVE  /\ Len(l) \in Nat \ {0} /\ DOMAIN l = 1 .. Len(l) /\ Head(l) = l[1]
           /\ Tail(l) \in Seq(Reads) /\ Len(Tail(l)) = Len(l) - 1 /\ DOMAIN Tail(l) = 1 .. (Len(l) - 1)
           /\ \A i \in 1 .. (Len(l) - 1) : Tail(l)[i] = l[i + 1]
<1> DEFINE t == Tail(l)
<1>1. Len(l) \in Nat \ {0} /\ DOMAIN l = 1 .. Len(l) /\ Head(l) = l[1]
  OBVIOUS
<1>2. t \in Seq(Reads) /\ Len(t) = Len(l) - 1 /\ \A i \in 1 .. (Len(l) - 1) : t[i] = l[i + 1]
  OBVIOUS
<1> HIDE DEF t
<1>3. DOMAIN t = 1 .. (Len(l) - 1)
  BY <1>1, <1>2
<1> QED BY <1>1, <1>2, <1>3 DEF t

LEMMA LastBecomes ==
    ASSUME NEW st \in Seq(Frames), st /= <<>>, NEW f \in Frames
    PROVE  LET new == [st EXCEPT ![Len(st)] = f]
           IN /\ DOMAIN new = DOMAIN st /\ Len(st) \in DOMAIN st /\ new[Len(st)] = f
              /\ \A i \in DOMAIN st : i /= Len(st) => new[i] = st[i]
              /\ 1 \in DOMAIN st /\ new /= <<>>
<1>1. Len(st) \in Nat \ {0} /\ DOMAIN st = 1 .. Len(st)
  OBVIOUS
<1>2. [st EXCEPT ![Len(st)] = f] /= <<>>
  <2>1. [st EXCEPT ![Len(st)] = f] \in Seq(Frames)
    BY <1>1
  <2>2. Len([st EXCEPT ![Len(st)] = f]) = Len(st)
    BY <1>1
  <2> QED BY <1>1, <2>1, <2>2
<1> QED BY <1>1, <1>2

LEMMA AppendMoves ==
    ASSUME NEW frames \in Seq(Frames), NEW f \in Frames, LastRead(f)
    PROVE  Moves(frames, Append(frames, f), NoSignal)
<1> DEFINE more == Append(frames, f)
<1>1. /\ DOMAIN more = DOMAIN frames \cup {Len(frames) + 1} /\ more[Len(frames) + 1] = f
      /\ \A i \in DOMAIN frames : more[i] = frames[i]
      /\ more /= <<>> /\ (frames /= <<>> => more[1] = frames[1])
  OBVIOUS
<1> HIDE DEF more
<1> QED BY <1>1 DEF Moves, InOrder, Served, BottomReads, more

\* The top frame becomes another one.
LEMMA BecomeMoves ==
    ASSUME stack \in Seq(Frames), stack /= <<>>, NEW f \in Frames, LastRead(f), NEW read,
           read /= "trap of INT" /\ StillToServe(Top) => StillToServe(f),
           \A s \in Terminating \ {read} : WillRead(Top, s) => WillRead(f, s)
    PROVE  Moves(stack, Become(f), read)
<1> DEFINE new == Become(f)
<1>1. /\ DOMAIN new = DOMAIN stack /\ Len(stack) \in DOMAIN stack /\ new[Len(stack)] = f
      /\ \A i \in DOMAIN stack : i /= Len(stack) => new[i] = stack[i]
      /\ new /= <<>> /\ stack[Len(stack)] = Top /\ 1 \in DOMAIN stack
  <2>1. /\ DOMAIN new = DOMAIN stack /\ Len(stack) \in DOMAIN stack /\ new[Len(stack)] = f
        /\ \A i \in DOMAIN stack : i /= Len(stack) => new[i] = stack[i]
        /\ 1 \in DOMAIN stack
    BY LastBecomes DEF Become
  <2>2. new /= <<>>
    BY LastBecomes DEF Become
  <2> QED BY <2>1, <2>2 DEF Top
<1>2. ASSUME NEW s \in Terminating \ {read}, BottomReads(stack, s) PROVE BottomReads(new, s)
  <2>1. CASE Len(stack) = 1
    <3>1. stack[1] = Top /\ new[1] = f
      BY <1>1, <2>1
    <3> HIDE DEF new
    <3> QED BY <1>1, <1>2, <3>1 DEF BottomReads
  <2>2. CASE Len(stack) /= 1
    <3>1. new[1] = stack[1]
      BY <1>1, <2>2
    <3> HIDE DEF new
    <3> QED BY <1>1, <1>2, <3>1 DEF BottomReads
  <2> QED BY <2>1, <2>2
<1> HIDE DEF new
<1>3. InOrder(stack) => InOrder(new)
  BY <1>1 DEF InOrder
<1>4. read /= "trap of INT" => (Served(new) => Served(stack))
  BY <1>1 DEF Served
<1> QED BY <1>2, <1>3, <1>4 DEF Moves, new

\* A frame with nothing left to read leaves the stack.
LEMMA PopMoves ==
    ASSUME stack \in Seq(Frames), stack /= <<>>, Top.kind = "dispatch" => Top.left = <<>>
    PROVE  Moves(stack, Pop, NoSignal)
<1>1. /\ DOMAIN Pop = DOMAIN stack \ {Len(stack)}
      /\ \A i \in DOMAIN Pop : Pop[i] = stack[i]
      /\ Len(stack) /= 1 => Pop /= <<>> /\ Pop[1] = stack[1]
      /\ stack[Len(stack)] = Top
  <2>1. Len(stack) \in Nat \ {0} /\ DOMAIN stack = 1 .. Len(stack)
    OBVIOUS
  <2>2. /\ Pop \in Seq(Frames) /\ Len(Pop) = Len(stack) - 1
        /\ \A i \in 1 .. (Len(stack) - 1) : Pop[i] = stack[i]
    BY <2>1 DEF Pop
  <2>3. DOMAIN Pop = 1 .. (Len(stack) - 1)
    BY <2>2
  <2> HIDE DEF Pop
  <2>4. Len(stack) /= 1 => Pop /= <<>> /\ Pop[1] = stack[1]
    BY <2>1, <2>2
  <2> QED BY <2>1, <2>2, <2>3, <2>4 DEF Top
<1>2. ASSUME NEW s \in Terminating, BottomReads(stack, s) PROVE Len(stack) /= 1
  <2>1. SUFFICES ASSUME Len(stack) = 1 PROVE FALSE
    OBVIOUS
  <2>2. Top.kind = "dispatch" /\ \E i \in DOMAIN Top.left : Top.left[i] = s
    BY <1>1, <1>2, <2>1 DEF BottomReads, WillRead
  <2>3. Top.left = <<>>
    BY <2>2
  <2> QED BY <2>2, <2>3
<1> HIDE DEF Pop
<1> QED BY <1>1, <1>2 DEF Moves, InOrder, Served, StillToServe, BottomReads

\* Shell code goes on to its next step.
LEMMA StepMoves ==
    ASSUME stack \in Seq(Frames), Running("body"), NEW to \in {"before", "command", "after", "end"}
    PROVE  Moves(stack, Become([Top EXCEPT !.step = to]), NoSignal)
<1> DEFINE f == [Top EXCEPT !.step = to]
<1>1. Top \in Bodies /\ stack /= <<>>
  BY RunningBody
<1>2. f \in Bodies
  BY <1>1, StepKeepsBody
<1>3. f \in Frames /\ LastRead(f) /\ ~StillToServe(Top) /\ Top.kind = "body"
  BY <1>1, <1>2 DEF Frames, Bodies, LastRead, StillToServe
<1>4. \A s : ~WillRead(Top, s)
  BY <1>3 DEF WillRead
<1> HIDE DEF f
<1>5. Moves(stack, Become(f), NoSignal)
  BY <1>1, <1>3, <1>4, BecomeMoves
<1> QED BY <1>5 DEF f

\* A dispatch that begins has all the flags before it.
LEMMA PollMoves == ASSUME NEW frames \in Seq(Frames), Poll(frames) PROVE Moves(frames, stack', NoSignal)
<1>1. Moves(frames, frames, NoSignal)
  BY DEF Moves
<1>2. Moves(frames, Append(frames, Dispatch), NoSignal)
  BY AppendMoves, NewFrames, DispatchInOrder
<1> QED BY <1>1, <1>2 DEF Poll, StartDispatch

\* A step that reads no flag and receives no signal keeps everything in sight.
LEMMA QuietInSight ==
    ASSUME InSight, Moves(stack, stack', NoSignal), UNCHANGED <<received, phase, death>>,
           owed' \subseteq owed, DispositionOK'
    PROVE  InSight'
<1>0. NoSignal \notin Terminating /\ NoSignal /= "trap of INT"
  BY DEF NoSignal, Terminating
<1>1. InOrder(stack)'
  BY DEF InSight, Moves
<1>2. OwedInSight'
  BY <1>0 DEF InSight, OwedInSight, Moves, Shutting
<1>3. TransitionReads'
  BY <1>0 DEF InSight, TransitionReads, Moves
<1>4. ShutdownSeesAll'
  BY DEF InSight, ShutdownSeesAll, Shutting, Gone
<1> QED BY <1>1, <1>2, <1>3, <1>4 DEF InSight

\* Reading a flag: what was owed is served, or was never due, or is kept by the dispatch.
LEMMA ReadInSight == ASSUME OneTrap, OwedObserved, InSight, ReadFlag PROVE InSight'
<1> DEFINE next == [Top EXCEPT !.left = Tail(@)]
           ended == [next EXCEPT !.end = TRUE]
           interrupted == [next EXCEPT !.int = TRUE]
           head == Head(Top.left)
<1>1. stack \in Seq(Frames) /\ Top \in Dispatches /\ stack /= <<>> /\ Top.left /= <<>>
  BY RunningDispatch DEF OneTrap, ReadFlag
<1>2. /\ Tail(Top.left) \in Seq(Reads) /\ head \in Reads /\ Top.left \in Seq(Reads)
      /\ next \in Dispatches /\ ended \in Dispatches /\ interrupted \in Dispatches
  <2>1. Top.left \in Seq(Reads)
    BY <1>1 DEF Dispatches
  <2>2. Tail(Top.left) \in Seq(Reads) /\ head \in Reads
    BY <1>1, <2>1
  <2>3. next \in Dispatches /\ ended \in Dispatches /\ interrupted \in Dispatches
    BY <1>1, <2>2 DEF Dispatches
  <2> QED BY <2>1, <2>2, <2>3
<1>3. LastRead(Top) /\ Top.kind = "dispatch"
  BY <1>1, TopIsFrame DEF InSight, InOrder, Top, Dispatches
<1>4. /\ Tail(Top.left) /= <<>> => Tail(Top.left)[Len(Tail(Top.left))] = Top.left[Len(Top.left)]
      /\ head /= "trap of INT" => Tail(Top.left) /= <<>>
      /\ \A s : (\E i \in DOMAIN Top.left : Top.left[i] = s) /\ s /= head =>
            \E i \in DOMAIN Tail(Top.left) : Tail(Top.left)[i] = s
  <2> DEFINE l == Top.left
  <2>1. l \in Seq(Reads) /\ l /= <<>> /\ l[Len(l)] = "trap of INT"
    BY <1>1, <1>2, <1>3 DEF LastRead
  <2> HIDE DEF l
  <2> DEFINE t == Tail(l)
  <2>2. /\ Len(l) \in Nat \ {0} /\ DOMAIN l = 1 .. Len(l) /\ Head(l) = l[1]
        /\ t \in Seq(Reads) /\ Len(t) = Len(l) - 1 /\ DOMAIN t = 1 .. (Len(l) - 1)
        /\ \A i \in 1 .. (Len(l) - 1) : t[i] = l[i + 1]
    BY <2>1, TailReads
  <2> HIDE DEF t
  <2>4. t /= <<>> => t[Len(t)] = l[Len(l)]
    <3>1. t /= <<>> => Len(t) \in 1 .. (Len(l) - 1)
      BY <2>2
    <3> QED BY <2>2, <3>1
  <2>5. Head(l) /= "trap of INT" => t /= <<>>
    <3>1. t = <<>> => Len(t) = 0
      OBVIOUS
    <3>2. Len(t) = 0 => Len(l) = 1
      <4>1. Len(l) \in Nat /\ Len(t) = Len(l) - 1
        BY <2>2
      <4> QED BY <4>1
    <3> QED BY <2>1, <2>2, <3>1, <3>2
  <2>6. ASSUME NEW s, NEW i \in DOMAIN l, l[i] = s, s /= Head(l)
        PROVE  \E k \in DOMAIN t : t[k] = s
    <3>1. i - 1 \in DOMAIN t /\ t[i - 1] = s
      <4>1. i \in 1 .. Len(l) /\ i /= 1
        BY <2>2, <2>6
      <4>2. i - 1 \in 1 .. (Len(l) - 1) /\ (i - 1) + 1 = i
        BY <2>2, <4>1
      <4> QED BY <2>2, <2>6, <4>2
    <3> QED BY <3>1
  <2> QED BY <2>4, <2>5, <2>6 DEF l, t
<1>5. ASSUME NEW f \in {next, ended, interrupted}, NEW read \in {head, NoSignal},
             read = NoSignal => head = "trap of INT" /\ ~Top.int
      PROVE  Moves(stack, Become(f), read)
  <2>1. /\ f \in Frames /\ f.kind = "dispatch" /\ f.left = Tail(Top.left)
        /\ Top.int => f.int
    BY <1>1, <1>2 DEF Frames, Dispatches
  <2>2. LastRead(f)
    BY <1>1, <1>3, <1>4, <2>1 DEF LastRead
  <2>3. read /= "trap of INT" /\ StillToServe(Top) => StillToServe(f)
    BY <1>4, <1>5, <2>1 DEF StillToServe
  <2>4. \A s \in Terminating \ {read} : WillRead(Top, s) => WillRead(f, s)
    <3> SUFFICES ASSUME NEW s \in Terminating \ {read}, WillRead(Top, s) PROVE WillRead(f, s)
      OBVIOUS
    <3>1. s /= head
      BY <1>5 DEF Terminating
    <3>2. \E i \in DOMAIN Top.left : Top.left[i] = s
      BY DEF WillRead
    <3> HIDE DEF head
    <3>3. \E i \in DOMAIN f.left : f.left[i] = s
      BY <1>4, <2>1, <3>1, <3>2
    <3> QED BY <2>1, <3>3 DEF WillRead
  <2> HIDE DEF head, next, ended, interrupted
  <2> QED BY <1>1, <2>1, <2>2, <2>3, <2>4, BecomeMoves
<1>6. ASSUME NEW s \in Reads, RunTrap(s, next), NEW read, Moves(stack, Become(next), read)
      PROVE  Moves(stack, stack', read) /\ owed' \subseteq owed \ {s}
  <2>1. owed' \subseteq owed \ {s}
    BY <1>6 DEF RunTrap, TrapDue, OwedObserved
  <2>2. Become(next) \in Seq(Frames)
    BY <1>1, <1>2 DEF Become, Frames
  <2>3. CASE TrapDue(s)
    <3>1. s \in Signals
      BY <2>3 DEF TrapDue, OneTrap, Reads
    <3>2. Body(s) \in Frames /\ LastRead(Body(s))
      BY <3>1, NewFrames, DispatchInOrder
    <3>3. stack' = Append(Become(next), Body(s))
      BY <1>6, <2>3 DEF RunTrap
    <3> DEFINE became == Become(next)
               body == Body(s)
    <3> HIDE DEF became, body
    <3>4. Moves(became, Append(became, body), NoSignal)
      BY <2>2, <3>2, AppendMoves DEF became, body
    <3>5. Moves(stack, Append(became, body), read)
      BY <1>6, <3>4, MovesOn DEF became
    <3> QED BY <2>1, <3>3, <3>5 DEF became, body
  <2>4. CASE ~TrapDue(s)
    BY <1>6, <2>1, <2>4 DEF RunTrap
  <2> QED BY <2>3, <2>4
<1>7. /\ received' = received \ {head} /\ UNCHANGED <<phase, death, disposition>>
      /\ "INT" \notin Terminating /\ "trap of INT" \notin Signals /\ NoSignal \notin Terminating
  BY SignalNames DEF ReadFlag, Consumed, trapVars, Terminating, NoSignal
<1>8. \/ head \in received \ {"INT"} /\ head \in observed /\ head /= "trap of INT" /\ RunTrap(head, next)
      \/ head = "trap of INT" /\ Top.int /\ "INT" \in observed /\ RunTrap("INT", next)
      \/ head \in received /\ Fatal(head) /\ stack' = Become(ended) /\ UNCHANGED owed
      \/ head = "INT" /\ head \in received /\ stack' = Become(interrupted) /\ UNCHANGED owed
      \/ head = "trap of INT" /\ (~Top.int \/ "INT" \notin observed) /\ stack' = Become(next)
         /\ UNCHANGED owed
      \/ head /= "trap of INT" /\ (head \notin received \/ head \notin Terminating \cup {"INT"} \cup observed)
         /\ stack' = Become(next) /\ UNCHANGED owed
  <2> HIDE DEF next, ended, interrupted
  <2> QED BY DEF ReadFlag, next, ended, interrupted
<1> HIDE DEF ended, interrupted
<1>9. Moves(stack, stack', head) /\ owed' \subseteq owed
  <2>1. Moves(stack, Become(next), head) /\ Moves(stack, Become(ended), head)
        /\ Moves(stack, Become(interrupted), head)
    <3>1. head /= NoSignal
      BY <1>2 DEF Reads, NoSignal
    <3> QED BY <1>5, <3>1
  <2>2. head \in Reads /\ "INT" \in Reads
    BY <1>2 DEF Reads
  <2> HIDE DEF next, head
  <2> QED BY <1>6, <1>8, <2>1, <2>2
<1>10. OwedInSight'
  <2> SUFFICES ASSUME ~Shutting, NEW s \in owed' PROVE s \in received' \/ (s = "INT" /\ ~Served(stack'))
    BY <1>7 DEF OwedInSight, Shutting
  <2>1. s \in owed /\ s \in traps \cap observed /\ (s \in received \/ (s = "INT" /\ ~Served(stack)))
    BY <1>9 DEF OwedObserved, InSight, OwedInSight
  <2>2. CASE s \in received /\ s /= head
    BY <1>7, <2>2
  <2>3. CASE s \in received /\ s = head /\ s /= "INT"
    <3>1. s \notin owed'
      <4>1. s /= "trap of INT"
        BY <1>7, <2>1, <2>3, SignalNames DEF OneTrap
      <4>2. RunTrap(s, next)
        <5> HIDE DEF next, head
        <5> QED BY <1>8, <2>1, <2>3, <4>1 DEF Fatal
      <4>3. s \in Reads
        BY <1>2, <2>3
      <4>4. Moves(stack, Become(next), head)
        <5>1. head /= NoSignal
          BY <1>2 DEF Reads, NoSignal
        <5> QED BY <1>5, <5>1
      <4> HIDE DEF next, head
      <4> QED BY <1>6, <4>2, <4>3, <4>4
    <3> QED BY <3>1
  <2>4. CASE s \in received /\ s = head /\ s = "INT"
    <3>1. stack' = Become(interrupted)
      <4> HIDE DEF next, head
      <4> QED BY <1>7, <1>8, <2>4 DEF Fatal
    <3>2. StillToServe(interrupted)
      <4>1. interrupted.kind = "dispatch" /\ interrupted.int /\ interrupted.left = Tail(Top.left)
        BY <1>1, <1>3 DEF interrupted, Dispatches
      <4> QED BY <1>4, <2>4, <4>1 DEF StillToServe
    <3>3. Len(stack) \in DOMAIN Become(interrupted) /\ Become(interrupted)[Len(stack)] = interrupted
      BY <1>1 DEF Become
    <3> QED BY <2>4, <3>1, <3>2, <3>3 DEF Served
  <2>5. CASE s \notin received
    <3>1. s = "INT" /\ ~Served(stack)
      BY <2>1, <2>5
    <3>2. CASE head /= "trap of INT"
      BY <1>9, <3>1, <3>2 DEF Moves
    <3>3. CASE head = "trap of INT"
      <4>1. CASE RunTrap("INT", next)
        <5>1. "INT" \notin owed'
          <6>1. "INT" \in Reads
            BY DEF Reads
          <6>2. Moves(stack, Become(next), head)
            BY <1>5, <3>3 DEF NoSignal
          <6> HIDE DEF next, head
          <6> QED BY <1>6, <4>1, <6>1, <6>2
        <5> QED BY <3>1, <5>1
      <4>2. CASE ~RunTrap("INT", next)
        <5>1. ~Top.int /\ stack' = Become(next)
          <6>1. ~(head \in received /\ Fatal(head))
            BY <1>7, <3>3 DEF Fatal, Terminating
          <6> HIDE DEF next, head
          <6> QED BY <1>8, <2>1, <3>1, <3>3, <4>2, <6>1
        <5>2. Moves(stack, Become(next), NoSignal)
          BY <1>5, <3>3, <5>1
        <5> QED BY <3>1, <5>1, <5>2 DEF Moves, NoSignal
      <4> QED BY <4>1, <4>2
    <3> QED BY <3>2, <3>3
  <2> QED BY <2>2, <2>3, <2>4, <2>5
<1>11. InOrder(stack)'
  BY <1>9 DEF InSight, Moves
<1>12. TransitionReads'
  BY <1>7, <1>9 DEF InSight, TransitionReads, Moves
<1>13. DispositionOK' /\ ShutdownSeesAll'
  BY <1>7 DEF InSight, DispositionOK, ShutdownSeesAll, Shutting, Gone
<1> QED BY <1>10, <1>11, <1>12, <1>13 DEF InSight

\* What a signal that reaches the shell changes; in the transition HUP and TERM do not.
LEMMA HandleInSight ==
    ASSUME InSight, NEW s \in Signals, Handle(s), phase = "transition" => s \notin Terminating,
           UNCHANGED <<stack, disposition>>
    PROVE  InSight'
<1>1. InOrder(stack)' /\ DispositionOK'
  BY DEF InSight, DispositionOK
<1>2. disposition[s] \in {"ignore", "default", "handler"} /\ s /= NoSignal
  BY SignalNames DEF InSight, DispositionOK, NoSignal
<1>3. CASE UNCHANGED <<received, death, phase, owed>>
  BY <1>1, <1>3 DEF InSight, OwedInSight, TransitionReads, ShutdownSeesAll, Shutting, Gone
<1>4. CASE phase' = "gone" /\ death' = s
  BY <1>1, <1>2, <1>4 DEF InSight, OwedInSight, TransitionReads, ShutdownSeesAll, Shutting, Gone
<1>5. CASE /\ received' = received \cup {s} /\ owed' \subseteq owed \cup {s} /\ UNCHANGED <<death, phase>>
           /\ s \notin Terminating \/ ~Shutting
  BY <1>1, <1>5 DEF InSight, OwedInSight, TransitionReads, ShutdownSeesAll, Shutting, Gone
<1>6. \/ UNCHANGED <<received, death, phase, owed>>
      \/ phase' = "gone" /\ death' = s
      \/ /\ received' = received \cup {s} /\ owed' \subseteq owed \cup {s} /\ UNCHANGED <<death, phase>>
         /\ s \notin Terminating \/ ~Shutting
  BY <1>2 DEF Handle
<1> QED BY <1>3, <1>4, <1>5, <1>6

LEMMA EnvironmentInSight == ASSUME InSight, Environment PROVE InSight'
<1>1. ASSUME NEW s \in Signals, Arrive(s) PROVE InSight'
  <2>1. CASE Masked(s)
    BY <1>1, <2>1 DEF Arrive, trapVars, InSight, DispositionOK, OwedInSight, TransitionReads,
       ShutdownSeesAll, Shutting, Gone
  <2>2. CASE ~Masked(s)
    BY <1>1, <2>2, HandleInSight DEF Arrive, trapVars, Masked
  <2> QED BY <2>1, <2>2
<1>2. ASSUME NEW s \in Signals, Release(s) PROVE InSight'
  BY <1>2, HandleInSight DEF Release, trapVars
<1> QED BY <1>1, <1>2 DEF Environment

\* The steps of shell code and the return of a dispatch leave everything in sight.
LEMMA EndDispatchInSight == ASSUME OneTrap, InSight, EndDispatch PROVE InSight'
<1>1. stack \in Seq(Frames) /\ stack /= <<>> /\ Top.left = <<>> /\ stack' = Pop
  BY RunningDispatch DEF OneTrap, EndDispatch, Return
<1>2. Moves(stack, stack', NoSignal)
  BY <1>1, PopMoves
<1> QED BY <1>2, QuietInSight DEF EndDispatch, Return, kernelVars, exitVars, trapVars, InSight, DispositionOK

LEMMA EndBodyInSight == ASSUME OneTrap, InSight, EndBody PROVE InSight'
<1>1. stack \in Seq(Frames) /\ stack /= <<>> /\ Top.kind = "body" /\ stack' = Pop
  BY DEF OneTrap, EndBody, Running
<1>2. Moves(stack, stack', NoSignal)
  BY <1>1, PopMoves
<1> QED BY <1>2, QuietInSight DEF EndBody, kernelVars, exitVars, trapVars, InSight, DispositionOK

LEMMA StepInSight ==
    ASSUME OneTrap, InSight, Running("body"), NEW to \in {"before", "command", "after", "end"}, Step(to),
           UNCHANGED <<received, phase, death>>, owed' \subseteq owed, DispositionOK'
    PROVE  InSight'
<1>1. Moves(stack, stack', NoSignal)
  BY StepMoves DEF OneTrap, Step
<1> QED BY <1>1, QuietInSight

LEMMA PollAroundInSight ==
    ASSUME OneTrap, InSight, NEW from, NEW to \in {"before", "command", "after", "end"}, PollAround(from, to)
    PROVE  InSight'
<1> DEFINE at == Become([Top EXCEPT !.step = to])
<1>1. at \in Seq(Frames) /\ Moves(stack, at, NoSignal)
  BY StepTraps, StepMoves DEF OneTrap, PollAround
<1>2. Poll(at)
  BY DEF PollAround
<1> HIDE DEF at
<1>3. Moves(at, stack', NoSignal)
  BY <1>1, <1>2, PollMoves
<1>4. Moves(stack, stack', NoSignal)
  BY <1>1, <1>3, MovesOn
<1> QED BY <1>4, QuietInSight DEF PollAround, exitVars, trapVars, InSight, DispositionOK

LEMMA ShellInSight == ASSUME OneTrap, OwedObserved, InSight, Shell PROVE InSight'
<1>1. CASE FinishInstall
  <2>1. Running("body") /\ DispositionOK'
    BY <1>1 DEF FinishInstall, OneTrap, InSight, DispositionOK
  <2> QED BY <1>1, <2>1, StepInSight DEF FinishInstall, kernelVars, exitVars
<1>2. CASE PollBefore \/ PollAfter
  BY <1>2, PollAroundInSight DEF PollBefore, PollAfter
<1> QED BY <1>1, <1>2, ReadInSight, EndDispatchInSight, EndBodyInSight DEF Shell

LEMMA CommandInSight == ASSUME OneTrap, InSight, Command PROVE InSight'
<1>1. Running("body")
  BY DEF Command, PlainCommand, ExitCommand, SetTrap, ResetTrap, IgnoreSignal, AtCommand
<1>2. UNCHANGED <<received, phase, death>> /\ owed' \subseteq owed
  BY DEF Command, PlainCommand, EndCommand, ExitCommand, SetTrap, ResetTrap, IgnoreSignal, kernelVars, exitVars
<1>3. DispositionOK'
  <2>1. DispositionOK
    BY DEF InSight
  <2>2. CASE UNCHANGED disposition
    BY <2>1, <2>2 DEF DispositionOK
  <2>3. CASE \E s \in Signals, to \in {"ignore", "default", "handler"} :
                disposition' = [disposition EXCEPT ![s] = to]
    BY <2>1, <2>3 DEF DispositionOK
  <2> QED BY <2>2, <2>3 DEF Command, PlainCommand, EndCommand, ExitCommand, SetTrap, ResetTrap,
             IgnoreSignal, trapVars, Initially
<1>4. Step("after") \/ UNCHANGED stack
  BY DEF Command, PlainCommand, EndCommand, ExitCommand, SetTrap, ResetTrap, IgnoreSignal
<1>5. CASE Step("after")
  BY <1>1, <1>2, <1>3, <1>5, StepInSight
<1>6. CASE UNCHANGED stack
  <2>1. Moves(stack, stack', NoSignal)
    BY <1>6 DEF Moves
  <2> QED BY <1>2, <1>3, <2>1, QuietInSight
<1> QED BY <1>4, <1>5, <1>6

\* In the transition everything that was received before the mask has a dispatch before it.
LEMMA TransitionInSight == ASSUME OneTrap, InSight, AtLoop, EnterTransition PROVE InSight'
<1>1. Poll(stack) /\ stack = <<>> /\ phase' = "transition" /\ UNCHANGED <<received, death, owed, disposition>>
  BY DEF AtLoop, EnterTransition, trapVars
<1>2. Moves(stack, stack', NoSignal)
  BY <1>1, PollMoves DEF OneTrap
<1>3. InOrder(stack)' /\ DispositionOK' /\ ShutdownSeesAll'
  BY <1>1, <1>2 DEF InSight, Moves, DispositionOK, ShutdownSeesAll, Shutting
<1>4. OwedInSight'
  BY <1>1, <1>2 DEF InSight, OwedInSight, Moves, AtLoop, Shutting, NoSignal
<1>5. TransitionReads'
  <2> SUFFICES ASSUME NEW s \in received \cap Terminating PROVE BottomReads(stack', s)
    BY <1>1 DEF TransitionReads
  <2>1. stack' = Append(<<>>, Dispatch)
    BY <1>1 DEF Poll, StartDispatch, HasPendingSignals
  <2>2. stack' /= <<>> /\ stack'[1] = Dispatch
    <3> DEFINE d == Dispatch
    <3> HIDE DEF d
    <3>1. Append(<<>>, d) = <<d>>
      OBVIOUS
    <3> QED BY <2>1, <3>1 DEF d
  <2>3. WillRead(Dispatch, s)
    <3>1. s \in {"HUP", "TERM"}
      BY DEF Terminating
    <3>2. 2 \in DOMAIN Order /\ 3 \in DOMAIN Order /\ Order[2] = "HUP" /\ Order[3] = "TERM"
      BY DEF Order
    <3>3. Dispatch.left = Order /\ Dispatch.kind = "dispatch"
      BY DEF Dispatch
    <3> QED BY <3>1, <3>2, <3>3 DEF WillRead
  <2> QED BY <2>2, <2>3 DEF BottomReads
<1> QED BY <1>3, <1>4, <1>5 DEF InSight

LEMMA MainInSight == ASSUME OneTrap, InSight, Main PROVE InSight'
<1>1. CASE LoopPolls
  <2>1. Poll(stack)
    BY <1>1 DEF LoopPolls, AtLoop
  <2>2. Moves(stack, stack', NoSignal)
    BY <2>1, PollMoves DEF OneTrap
  <2> QED BY <1>1, <2>2, QuietInSight DEF LoopPolls, exitVars, trapVars, InSight, DispositionOK
<1>2. CASE RunLine
  <2>1. Body("line") \in Frames /\ LastRead(Body("line"))
    BY NewFrames, DispatchInOrder
  <2> DEFINE b == Body("line")
  <2>2. stack' = Append(stack, b) /\ stack \in Seq(Frames)
    BY <1>2 DEF RunLine, AtLoop, OneTrap
  <2> HIDE DEF b
  <2>3. Moves(stack, stack', NoSignal)
    BY <2>1, <2>2, AppendMoves DEF b
  <2> QED BY <1>2, <2>3, QuietInSight DEF RunLine, kernelVars, exitVars, trapVars, InSight, DispositionOK
<1>3. CASE Woken
  <2>1. Moves(stack, stack', NoSignal)
    BY <1>3 DEF Woken, Moves
  <2> QED BY <1>3, <2>1, QuietInSight DEF Woken, kernelVars, exitVars, trapVars, InSight, DispositionOK
<1>4. CASE LeaveLoop \/ EndOfInput
  BY <1>4, TransitionInSight DEF LeaveLoop, EndOfInput
<1>5. CASE BeginShutdown
  <2>1. received \cap Terminating = {}
    BY <1>5 DEF BeginShutdown, InSight, TransitionReads, BottomReads
  <2> QED BY <1>5, <2>1 DEF BeginShutdown, kernelVars, trapVars, InSight, OwedInSight, TransitionReads,
             DispositionOK, ShutdownSeesAll, Shutting
<1>6. CASE RunExitHandlers
  <2>1. InOrder(stack)'
    <3> DEFINE b == Body("EXIT")
    <3>1. LastRead(b)
      BY DispatchInOrder
    <3> HIDE DEF b
    <3>2. stack' = <<b>> \/ stack' = <<>>
      BY <1>6 DEF RunExitHandlers, b
    <3> QED BY <3>1, <3>2 DEF InOrder
  <2> QED BY <1>6, <2>1 DEF RunExitHandlers, kernelVars, trapVars, InSight, OwedInSight, TransitionReads,
             DispositionOK, ShutdownSeesAll, Shutting, Gone
<1>7. CASE FinishShutdown
  <2>1. DispositionOK'
    BY <1>7 DEF FinishShutdown, InSight, DispositionOK
  <2> QED BY <1>7, <2>1 DEF FinishShutdown, kernelVars, InSight, OwedInSight, TransitionReads,
             ShutdownSeesAll, Shutting, Gone
<1>8. CASE Die
  <2>1. death' /= NoSignal
    BY <1>8 DEF Die, NoSignal
  <2> QED BY <1>8, <2>1 DEF Die, kernelVars, trapVars, InSight, OwedInSight, TransitionReads, DispositionOK,
             ShutdownSeesAll, Shutting, Gone
<1> QED BY <1>1, <1>2, <1>3, <1>4, <1>5, <1>6, <1>7, <1>8 DEF Main, Loop, Shutdown

LEMMA InSightInit == SignalInit => InSight
BY DEF SignalInit, InSight, InOrder, OwedInSight, TransitionReads, DispositionOK, ShutdownSeesAll, Shutting,
   Initially

LEMMA InSightNext == ASSUME OneTrap, OwedObserved, InSight, [SignalNext]_signalVars PROVE InSight'
<1>1. CASE UNCHANGED signalVars
  BY <1>1 DEF signalVars, kernelVars, trapVars, exitVars, InSight, OwedInSight, TransitionReads, DispositionOK,
     ShutdownSeesAll, Shutting, Gone
<1> QED BY <1>1, ShellInSight, CommandInSight, MainInSight, EnvironmentInSight DEF SignalNext

LEMMA InSightIsKept == InSight => OwedKept /\ ShutdownSeesAll
BY DEF InSight, OwedInSight, OwedKept, TakenByDispatch, Served, StillToServe

LEMMA SignalInvariant == SignalSpec => [](OneTrap /\ OwedObserved /\ InSight)
<1>1. SignalInit => OneTrap /\ IdleAtRelease /\ OwedObserved /\ InSight
  BY OneTrapInit, OwedObservedInit, InSightInit, ProfilesTrapped DEF SignalInit, IdleAtRelease
<1>2. OneTrap /\ IdleAtRelease /\ OwedObserved /\ InSight /\ [SignalNext]_signalVars
      => OneTrap' /\ IdleAtRelease' /\ OwedObserved' /\ InSight'
  BY OneTrapNext, IdleAtReleaseNext, OwedObservedNext, InSightNext
<1> QED BY <1>1, <1>2, PTL DEF SignalSpec

\* A signal whose trap is due is not forgotten, whatever signals come between two steps of
\* a dispatch and whatever traps are set, removed and run (process_pending_signals).
THEOREM OwedAlwaysKept == SignalSpec => []OwedKept
BY SignalInvariant, InSightIsKept, PTL

\* No termination request is left behind when shutdown begins: the dispatch of the masked
\* transition reads the flags that were set before it (cleanup_resources).
THEOREM ShutdownAlwaysSeesAll == SignalSpec => []ShutdownSeesAll
BY SignalInvariant, InSightIsKept, PTL
=============================================================================
