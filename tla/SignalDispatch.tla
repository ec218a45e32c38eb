--------------------------- MODULE SignalDispatch ---------------------------
(***************************************************************************)
(* Signals from the asynchronous handler to the trap that serves them, and *)
(* the way from an exit request to the death of the process:               *)
(* core/signal_handler.cpp, builtin/trap_command.cpp, the polling done by  *)
(* the main loop and by the interpreter around each command, and the       *)
(* shutdown sequence of cjsh.cpp and core/shell.cpp.                       *)
(*                                                                         *)
(* The handler only sets a flag per signal and, for some signals, the      *)
(* summary flag s_signal_pending.  A dispatch exchanges the summary flag   *)
(* first and then reads the flags one after the other, so a signal may     *)
(* come between any two of its steps.  The trap it runs is shell code: it  *)
(* polls around its own commands, and may set traps or ask for exit.       *)
(***************************************************************************)
EXTENDS Naturals, Sequences

CONSTANTS
    Signals,        \* of "INT", "HUP", "TERM", "USR1"
    Profiles,       \* sets of conditions trapped by the startup files
    MaxArrivals,    \* bound: signals sent to the shell
    MaxCommands     \* bound: commands that set a trap or ask for exit

Terminating == Signals \cap {"HUP", "TERM"}
NoSignal == "none"

ASSUME SignalNames == Signals \subseteq {"INT", "HUP", "TERM", "USR1"}
ASSUME ProfilesTrapped == Profiles \subseteq SUBSET (Signals \cup {"EXIT"})
ASSUME BoundsNatural == MaxArrivals \in Nat /\ MaxCommands \in Nat

VARIABLES
    received,       \* signals whose s_sigX_received flag is set
    pending,        \* s_signal_pending
    disposition,    \* what the kernel does on delivery
    observed,       \* s_observed_signals
    traps,          \* conditions with a trap command
    installing,     \* the second half of a change of disposition
    held,           \* signals blocked in the kernel during the transition
    termination,    \* s_termination_signal
    exiting,        \* g_exit_flag
    executing,      \* s_executing_trap
    stack,          \* shell code and dispatches in progress
    phase,          \* where main is
    polled,         \* the loop has dispatched since the last command
    death,          \* how the process ended
    arrivals, commands,
    owed            \* ghost: trapped signals whose trap has not begun since

kernelVars == <<received, pending, held, arrivals>>
trapVars == <<disposition, observed, traps, installing>>
exitVars == <<termination, exiting, phase, death>>
signalVars == <<kernelVars, trapVars, exitVars, executing, stack, polled, commands, owed>>

-----------------------------------------------------------------------------
\* Frames of the stack: a dispatch with the flags it has yet to read, or shell code.
\* The flag of INT is read first, and its trap runs last.
Order == <<"INT", "HUP", "TERM", "USR1", "trap of INT">>
Dispatch == [kind |-> "dispatch", left |-> Order, int |-> FALSE, end |-> FALSE]
Body(condition) == [kind |-> "body", of |-> condition, step |-> "before"]

Top == stack[Len(stack)]
Running(kind) == stack /= <<>> /\ Top.kind = kind
Pop == SubSeq(stack, 1, Len(stack) - 1)
Become(frame) == [stack EXCEPT ![Len(stack)] = frame]

HasPendingSignals == pending \/ received /= {}
Gone == death /= NoSignal
Shutting == phase \in {"unmask", "handlers", "finish", "gone"}

-----------------------------------------------------------------------------
(* Delivery *)

\* SignalHandler::signal_handler, in the disposition the kernel has for s.
Handle(s) ==
    CASE disposition[s] = "ignore" -> UNCHANGED <<received, pending, termination, death, phase, owed>>
      [] disposition[s] = "default" ->
            /\ death' = s
            /\ phase' = "gone"
            /\ UNCHANGED <<received, pending, termination, owed>>
      [] disposition[s] = "handler" /\ s \in Terminating /\ Shutting ->
            /\ termination' = IF s \notin observed /\ termination = NoSignal THEN s ELSE termination
            /\ UNCHANGED <<received, pending, death, phase, owed>>
      [] OTHER ->
            /\ received' = received \cup {s}
            /\ pending' = (pending \/ s \in observed \/ s \in {"INT", "HUP", "TERM"})
            /\ owed' = IF s \in observed /\ s \in traps THEN owed \cup {s} ELSE owed
            /\ UNCHANGED <<termination, death, phase>>

\* SignalMask: HUP and TERM are blocked during the transition into shutdown.
\* mutant: the transition is not masked
Unmasked(s) == FALSE
Masked(s) == phase = "transition" /\ s \in Terminating
Arrive(s) ==
    /\ ~Gone
    /\ arrivals < MaxArrivals
    /\ arrivals' = arrivals + 1
    /\ IF Masked(s)
          THEN held' = held \cup {s} /\ UNCHANGED <<received, pending, termination, death, phase, owed>>
          ELSE Handle(s) /\ UNCHANGED held
    /\ UNCHANGED <<trapVars, exiting, executing, stack, polled, commands>>

\* What the kernel held back is delivered when the mask is lifted.
Release(s) ==
    /\ phase = "unmask"
    /\ s \in held
    /\ held' = held \ {s}
    /\ Handle(s)
    /\ UNCHANGED <<arrivals, trapVars, exiting, executing, stack, polled, commands>>

-----------------------------------------------------------------------------
(* Dispatch *)

\* process_pending_signals begins: the summary flag is exchanged.
StartDispatch(callers) == pending' = FALSE /\ stack' = Append(callers, Dispatch)
Poll(callers) == IF HasPendingSignals THEN StartDispatch(callers)
                                      ELSE stack' = callers /\ UNCHANGED pending

\* process_trapped_signal: the trap runs unless another one is running.
\* mutant: s_executing_trap is not looked at
TrapDueAlways(s) == s \in traps
TrapDue(s) == s \in traps /\ ~executing
RunTrap(s, frame) ==
    IF TrapDue(s)
       THEN /\ executing' = TRUE
            /\ stack' = Append(Become(frame), Body(s))
            /\ owed' = owed \ {s}
       ELSE /\ stack' = Become(frame)
            /\ owed' = IF executing THEN owed \ {s} ELSE owed
            /\ UNCHANGED executing

\* One flag is read, and cleared when it is set.
\* mutants: a dispatch clears every flag it found; a trap cannot be served while another runs
ConsumedAll(s) == {}
FatalInTrap(s) == s \in Terminating /\ (s \notin observed \/ executing)
Consumed(s) == received \ {s}
Fatal(s) == s \in Terminating /\ s \notin observed

ReadFlag ==
    /\ Running("dispatch")
    /\ Top.left /= <<>>
    /\ LET s == Head(Top.left)
           next == [Top EXCEPT !.left = Tail(@)]
       IN /\ received' = Consumed(s)
          /\ \/ /\ IF s = "trap of INT" THEN Top.int /\ "INT" \in observed
                                        ELSE s \in received \ {"INT"} /\ s \in observed
                /\ RunTrap(IF s = "trap of INT" THEN "INT" ELSE s, next)
                /\ UNCHANGED <<termination, exiting>>
             \/ /\ s \in received /\ Fatal(s)
                /\ stack' = Become([next EXCEPT !.end = TRUE])
                /\ termination' = IF termination = NoSignal THEN s ELSE termination
                /\ exiting' = TRUE
                /\ UNCHANGED <<executing, owed>>
             \/ /\ s \in received \cap {"INT"}
                /\ stack' = Become([next EXCEPT !.int = TRUE])
                /\ UNCHANGED <<executing, owed, termination, exiting>>
             \/ /\ IF s = "trap of INT" THEN ~Top.int \/ "INT" \notin observed
                                        ELSE s \notin received \/ s \notin Terminating \cup {"INT"} \cup observed
                /\ stack' = Become(next)
                /\ UNCHANGED <<executing, owed, termination, exiting>>
    /\ UNCHANGED <<pending, held, arrivals, trapVars, phase, death, polled, commands>>

\* The dispatch returns its result to its caller.
Return(callers) ==
    /\ Running("dispatch")
    /\ Top.left = <<>>
    /\ stack' = callers
    /\ UNCHANGED <<kernelVars, trapVars, exitVars, executing, polled, commands, owed>>
EndDispatch == Return(Pop)

-----------------------------------------------------------------------------
(* Shell code: a command line of the loop, or the command of a trap *)

\* The interpreter dispatches before and after a command.
PollAround(from, to) ==
    /\ Running("body") /\ Top.step = from
    /\ installing = NoSignal
    /\ Poll(Become([Top EXCEPT !.step = to]))
    /\ UNCHANGED <<received, held, arrivals, trapVars, exitVars, executing, polled, commands, owed>>

PollBefore == PollAround("before", "command")
PollAfter == PollAround("after", "end")

\* A trap command goes through sigaction first and updates s_observed_signals after it.
Initially(s) == IF s = "USR1" THEN "default" ELSE "handler"

AtCommand == Running("body") /\ Top.step = "command" /\ installing = NoSignal /\ ~exiting
Counted == commands < MaxCommands /\ commands' = commands + 1
Step(to) == stack' = Become([Top EXCEPT !.step = to])

EndCommand ==
    /\ Running("body") /\ Top.step = "command"
    /\ Step("after")
    /\ UNCHANGED <<kernelVars, trapVars, exitVars, executing, polled, commands, owed>>
PlainCommand == AtCommand /\ EndCommand

SetTrap(s) ==
    /\ AtCommand /\ Counted
    /\ traps' = traps \cup {s}
    /\ IF s \in Signals
          THEN /\ disposition' = [disposition EXCEPT ![s] = "handler"]
               /\ installing' = s
               /\ UNCHANGED stack
          ELSE Step("after") /\ UNCHANGED <<disposition, installing>>
    /\ UNCHANGED <<kernelVars, observed, exitVars, executing, polled, owed>>

ResetTrap(s) ==
    /\ AtCommand /\ Counted
    /\ traps' = traps \ {s}
    /\ owed' = owed \ {s}
    /\ IF s \in Signals
          THEN /\ disposition' = [disposition EXCEPT ![s] = Initially(s)]
               /\ installing' = s
               /\ UNCHANGED stack
          ELSE Step("after") /\ UNCHANGED <<disposition, installing>>
    /\ UNCHANGED <<kernelVars, observed, exitVars, executing, polled>>

\* trap '' s: nothing can arrive between sigaction and unobserve_signal.
IgnoreSignal(s) ==
    /\ AtCommand /\ Counted
    /\ s \in Signals
    /\ traps' = traps \ {s}
    /\ owed' = owed \ {s}
    /\ disposition' = [disposition EXCEPT ![s] = "ignore"]
    /\ observed' = observed \ {s}
    /\ Step("after")
    /\ UNCHANGED <<kernelVars, installing, exitVars, executing, polled>>

\* observe_signal or unobserve_signal.
FinishInstall ==
    /\ installing /= NoSignal
    /\ observed' = IF installing \in traps THEN observed \cup {installing} ELSE observed \ {installing}
    /\ installing' = NoSignal
    /\ Step("after")
    /\ UNCHANGED <<kernelVars, disposition, traps, exitVars, executing, polled, commands, owed>>

ExitCommand ==
    /\ AtCommand /\ Counted
    /\ exiting' = TRUE
    /\ Step("after")
    /\ UNCHANGED <<kernelVars, trapVars, termination, phase, death,
                   executing, polled, owed>>

\* Evaluation stops at an exit request, and a trap gives the flag back.
EndBody ==
    /\ Running("body") /\ installing = NoSignal
    /\ Top.step = "end" \/ (Top.step = "command" /\ exiting)
    /\ stack' = Pop
    /\ executing' = (executing /\ Top.of \notin Signals)
    /\ UNCHANGED <<kernelVars, trapVars, exitVars, polled, commands, owed>>

Command ==
    \/ PlainCommand
    \/ ExitCommand
    \/ \E s \in Signals \cup {"EXIT"} : SetTrap(s) \/ ResetTrap(s)
    \/ \E s \in Signals : IgnoreSignal(s)

-----------------------------------------------------------------------------
(* The main loop and the shutdown sequence *)

\* The signals whose arrival wakes readline.
Urgent == received \cap {"INT", "HUP", "TERM"}
AtLoop == phase = "loop" /\ stack = <<>>

LoopPolls ==
    /\ AtLoop /\ ~polled
    /\ polled' = TRUE
    /\ Poll(<<>>)
    /\ UNCHANGED <<received, held, arrivals, trapVars, exitVars, executing, commands, owed>>

RunLine ==
    /\ AtLoop /\ polled /\ ~exiting
    /\ stack' = <<Body("line")>>
    /\ polled' = FALSE
    /\ UNCHANGED <<kernelVars, trapVars, exitVars, executing, commands, owed>>

\* mutant: only an interrupt makes readline return
WokenByInterrupt ==
    /\ AtLoop /\ polled /\ ~exiting
    /\ "INT" \in received
    /\ polled' = FALSE
    /\ UNCHANGED <<kernelVars, trapVars, exitVars, executing, stack, commands, owed>>

\* The flag that asked readline to return is seen by the next round of the loop.
Woken ==
    /\ AtLoop /\ polled /\ ~exiting
    /\ Urgent /= {}
    /\ polled' = FALSE
    /\ UNCHANGED <<kernelVars, trapVars, exitVars, executing, stack, commands, owed>>

\* cleanup_resources begins with HUP and TERM masked and one more dispatch.
EnterTransition ==
    /\ phase' = "transition"
    /\ Poll(<<>>)
    /\ UNCHANGED <<received, held, arrivals, trapVars, termination, exiting, death, executing, polled, commands, owed>>

LeaveLoop == AtLoop /\ polled /\ exiting /\ EnterTransition
EndOfInput == AtLoop /\ polled /\ ~exiting /\ EnterTransition

\* begin_shutdown, still behind the mask.
BeginShutdown ==
    /\ phase = "transition" /\ stack = <<>>
    /\ phase' = "unmask"
    /\ UNCHANGED <<kernelVars, trapVars, termination, exiting, death,
                   executing, stack, polled, commands, owed>>

\* run_exit_handlers, with a fresh exit request.
RunExitHandlers ==
    /\ phase = "unmask" /\ held = {}
    /\ phase' = "handlers"
    /\ exiting' = FALSE
    /\ stack' = IF "EXIT" \in traps THEN <<Body("EXIT")>> ELSE <<>>
    /\ UNCHANGED <<kernelVars, trapVars, termination, death, executing, polled,
                   commands, owed>>

\* finish_shutdown restores the default actions, then ends as the first cause asks.
FinishShutdown ==
    /\ phase = "handlers" /\ stack = <<>>
    /\ phase' = "finish"
    /\ disposition' = [s \in Signals |-> IF s \in Terminating \ observed /\ disposition[s] /= "ignore"
                                            THEN "default" ELSE disposition[s]]
    /\ UNCHANGED <<kernelVars, observed, traps, installing, termination, exiting, death, executing, stack, polled, commands, owed>>

Die ==
    /\ phase = "finish"
    /\ phase' = "gone"
    /\ death' = IF termination /= NoSignal THEN termination ELSE "exit"
    /\ UNCHANGED <<kernelVars, trapVars, termination, exiting, executing,
                   stack, polled, commands, owed>>

-----------------------------------------------------------------------------
SignalInit ==
    /\ received = {} /\ pending = FALSE /\ held = {}
    /\ traps \in Profiles
    /\ observed = traps \cap Signals
    /\ disposition = [s \in Signals |-> IF s \in traps THEN "handler" ELSE Initially(s)]
    /\ installing = NoSignal
    /\ termination = NoSignal /\ exiting = FALSE /\ executing = FALSE
    /\ stack = <<>> /\ phase = "loop" /\ polled = FALSE
    /\ death = NoSignal
    /\ arrivals = 0 /\ commands = 0 /\ owed = {}

Shell == ReadFlag \/ EndDispatch \/ PollBefore \/ PollAfter \/ FinishInstall \/ EndBody
Loop == LoopPolls \/ Woken \/ LeaveLoop
Shutdown == BeginShutdown \/ RunExitHandlers \/ FinishShutdown \/ Die
Main == Loop \/ RunLine \/ EndOfInput \/ Shutdown
Environment == \E s \in Signals : Arrive(s) \/ Release(s)

SignalNext == ~Gone /\ (Shell \/ Command \/ Main \/ Environment)

SignalSpec == SignalInit /\ [][SignalNext]_signalVars

-----------------------------------------------------------------------------
\* A signal whose trap is due is not forgotten between the handler and the trap: its
\* flag is still set, or a dispatch in progress has taken it (process_pending_signals).
\* The one exception the code makes is in RunTrap: a trap is skipped while another runs.
TakenByDispatch(s) == s = "INT" /\ \E i \in DOMAIN stack : stack[i].kind = "dispatch" /\ stack[i].int
OwedKept == ~Shutting => \A s \in owed : s \in received \/ TakenByDispatch(s)

\* At most one signal trap is being evaluated, and s_executing_trap says whether one is
\* (process_trapped_signal, entered again from the commands of a trap).
IsTrap(frame) == frame.kind = "body" /\ frame.of \in Signals
TrapBodies == {i \in DOMAIN stack : IsTrap(stack[i])}
TrapsDoNotNest ==
    /\ \A i, j \in TrapBodies : i = j
    /\ executing <=> TrapBodies /= {}

\* Once shutdown has begun no termination request is left that only a dispatch could
\* see: what came before was dispatched, what comes later is recorded (cleanup_resources).
ShutdownSeesAll == Shutting /\ ~Gone => received \cap Terminating = {}

\* A signal whose trap is due never becomes the reason to terminate (docs/reference/hooks.md:162).
TrappedSignalSpares == [][termination' /= termination => termination' \notin owed]_signalVars

\* An interrupt, a hangup or a termination request is dispatched in the end, also by an
\* idle prompt, whose readline the handler wakes.
Heeded == Urgent /= {} ~> (Urgent = {} \/ Gone)
=============================================================================
