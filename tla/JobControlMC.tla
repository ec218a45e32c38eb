---------------------------- MODULE JobControlMC ----------------------------
(***************************************************************************)
(* JobControl on small instances: a handful of processes, codes that tell  *)
(* success, failure and death by a signal apart, and the stop signal of    *)
(* the terminal.                                                           *)
(***************************************************************************)
EXTENDS JobControl

Failure == {3}
BothCodes == {0, 3}
Killed == {9}
NoSignals == {}
TerminalStop == {20}
OnlyFalse == {FALSE}
Either == {FALSE, TRUE}
Everything == {"bg", "fg", "jobs", "kill job", "kill pid", "disown", "disown -h", "wait", "wait -n"}
Control == {"bg", "fg", "kill job", "disown"}
Waiting == {"disown", "wait", "wait -n", "jobs"}
Most == Control \cup Waiting
=============================================================================
