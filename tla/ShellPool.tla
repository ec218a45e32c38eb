----------------------------- MODULE ShellPool -----------------------------
(***************************************************************************)
(* The completion pool in the shell that runs it.  The main thread waits   *)
(* in its command line for the workers; the workers poll for signals in    *)
(* its place, one at a time behind signal_poll_mutex, and whatever trap is *)
(* due runs on the thread of the worker that found it.  A trap may ask for *)
(* exit, and then the others learn it from the exit flag.                  *)
(*                                                                         *)
(* The properties of SignalDispatch and CompletionPool are checked of this *)
(* composition, where workers dispatch for the main thread and interrupts  *)
(* and exits come from the signals of this shell.                          *)
(***************************************************************************)
EXTENDS SignalDispatch, CompletionPool

VARIABLES
    caller      \* who waits for the dispatch in progress: a worker, the main thread, or nobody

vars == <<signalVars, poolVars, caller>>

Nobody == "nobody"
MainThread == "main"

ASSUME ThreadNames == Nobody \notin Workers /\ MainThread \notin Workers

-----------------------------------------------------------------------------
\* Main is in the builtin: its frame, the only one below the dispatches, stands still.
Building == status = "running"

StartBuiltin ==
    /\ Len(stack) = 1 /\ AtCommand
    /\ Launch
    /\ UNCHANGED <<signalVars, caller>>

\* check_for_interrupt: two flags answer at once, else a dispatch has to be made.
Stopping == cancel \/ exiting
AnswersAtOnce == Stopping \/ ~HasPendingSignals
AskDispatch(who) ==
    /\ ~AnswersAtOnce /\ caller = Nobody
    /\ caller' = who
    /\ StartDispatch(stack)
    /\ UNCHANGED <<poolVars, received, held, arrivals, trapVars, exitVars, executing, polled,
                   commands, owed>>

WorkerAsks(w) ==
    /\ Building /\ pc[w] \in {"poll", "recheck"} /\ caller /= w
    /\ \/ AnswersAtOnce /\ Answer(w, Stopping) /\ UNCHANGED <<signalVars, caller>>
       \/ AskDispatch(w)

\* Main asks once more after the join, and the builtin returns.
MainAsks ==
    /\ Joined /\ caller = Nobody
    /\ \/ AnswersAtOnce /\ Finish(Stopping) /\ EndCommand /\ UNCHANGED caller
       \/ AskDispatch(MainThread)

\* The dispatch somebody waits for is over.
Awaited == caller /= Nobody /\ Len(stack) = 2 /\ stack[2].left = <<>>
DispatchReturns ==
    /\ Awaited
    /\ caller' = Nobody
    /\ LET stop == cancel \/ stack[2].int \/ stack[2].end
       IN IF caller = MainThread
             THEN Finish(stop) /\ Return(<<[stack[1] EXCEPT !.step = "after"]>>)
             ELSE Answer(caller, stop) /\ EndDispatch

\* Everything else the shell does, in its own frames or in those of a trap.
Free == ~Awaited /\ ~(Building /\ Len(stack) = 1)
ShellStep == Free /\ Shell /\ UNCHANGED <<poolVars, caller>>
CommandStep == Free /\ Command /\ UNCHANGED <<poolVars, caller>>
MainStep == Main /\ UNCHANGED <<poolVars, caller>>
SignalArrives == Environment /\ UNCHANGED <<poolVars, caller>>
WorkerSteps(w) == Worker(w) /\ UNCHANGED <<signalVars, caller>>

-----------------------------------------------------------------------------
Init == SignalInit /\ PoolInit /\ caller = Nobody

Next ==
    /\ ~Gone
    /\ \/ StartBuiltin \/ MainAsks \/ DispatchReturns
       \/ ShellStep \/ CommandStep \/ MainStep \/ SignalArrives
       \/ \E w \in Workers : WorkerAsks(w) \/ WorkerSteps(w)

Spec == Init /\ [][Next]_vars

\* The kernel runs every thread; nobody is obliged to type, to trap or to send a signal.
Fairness ==
    /\ WF_vars(ShellStep) /\ WF_vars(CommandStep) /\ WF_vars(DispatchReturns) /\ WF_vars(MainAsks)
    /\ WF_vars(Loop /\ UNCHANGED <<poolVars, caller>>)
    /\ WF_vars(Shutdown /\ UNCHANGED <<poolVars, caller>>)
    /\ \A s \in Signals : WF_vars(Release(s) /\ UNCHANGED <<poolVars, caller>>)
    /\ \A w \in Workers : WF_vars(WorkerAsks(w) \/ WorkerSteps(w))
FairSpec == Spec /\ Fairness

-----------------------------------------------------------------------------
\* generate-completions returns, whatever signals, traps and exits come in between.
PoolEnds == Building ~> (~Building \/ Gone)
=============================================================================
