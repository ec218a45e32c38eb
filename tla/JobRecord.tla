----------------------------- MODULE JobRecord -----------------------------
(***************************************************************************)
(* The job record that execution and job control share (struct             *)
(* JobControlJob): what it keeps of a pipeline, and how one wait report    *)
(* of one member changes it.  The module has no variables; JobControl      *)
(* keeps one record per launched job.                                      *)
(***************************************************************************)
EXTENDS Integers, FiniteSets

CONSTANTS
    PidMax,     \* the largest process id the kernel hands out
    ExitCodes,  \* the codes a member may exit with
    KillSignals,\* the signals a member may die from
    StopSignals \* the signals a member may be stopped by

ASSUME PidBound == PidMax \in Nat
ASSUME CodesAreBytes == ExitCodes \subseteq 0..255
ASSUME SignalsAreNumbers == KillSignals \cup StopSignals \subseteq 1..64

Pids == 1..PidMax
SIGTSTP == 20
NoPid == -1

(***************************************************************************)
(* What waitpid reports of a child.                                        *)
(***************************************************************************)
Terminal == [kind : {"exited"}, n : ExitCodes] \cup [kind : {"signaled"}, n : KillSignals]
Stops == [kind : {"stopped"}, n : StopSignals]
Continued == [kind |-> "continued", n |-> 0]
Reports == Terminal \cup Stops \cup {Continued}
NoReport == [kind |-> "none", n |-> 0]

IsTerminal(report) == report.kind \in {"exited", "signaled"}

ToExitCode(report) ==
    CASE report.kind = "exited" -> report.n
      [] report.kind = "signaled" -> 128 + report.n
      [] OTHER -> 1

(***************************************************************************)
(* The record.  "doneMessages" is history: how often the user was told     *)
(* that the job finished (it saturates at 2).                              *)
(***************************************************************************)
States == {"running", "stopped", "done", "terminated"}
Codes == 0..383

Records ==
    [members : SUBSET Pids, remaining : SUBSET Pids, stopped : SUBSET Pids,
     last : Pids \cup {NoPid},
     state : States, exitStatus : Codes, termSignal : 0..64, stopSignal : 0..64,
     notified : BOOLEAN, stopNotified : BOOLEAN, background : BOOLEAN, suppress : BOOLEAN,
     hupProtected : BOOLEAN, autoBackground : BOOLEAN, deferStop : BOOLEAN,
     doneMessages : 0..2]

NewRecord(members, last, background, autoBackground) ==
    [members |-> members, remaining |-> members, stopped |-> {}, last |-> last,
     state |-> "running", exitStatus |-> 0, termSignal |-> 0, stopSignal |-> 0,
     notified |-> FALSE, stopNotified |-> FALSE, background |-> background, suppress |-> FALSE,
     hupProtected |-> FALSE, autoBackground |-> autoBackground, deferStop |-> autoBackground,
     doneMessages |-> 0]

NoRecord == NewRecord({}, NoPid, FALSE, FALSE)

Completed(record) == record.state \in {"done", "terminated"}
Stopped(record) == record.state = "stopped"

MarkRunning(record) ==
    [record EXCEPT !.state = "running", !.stopped = {}, !.stopSignal = 0, !.stopNotified = FALSE]

\* the aggregate state that the remaining and the stopped members give the job
Aggregate(record) ==
    CASE record.remaining = {} /\ record.termSignal = 0 -> "done"
      [] record.remaining = {} /\ record.termSignal # 0 -> "terminated"
      [] record.remaining # {} /\ Cardinality(record.stopped) >= Cardinality(record.remaining) ->
            "stopped"
      [] OTHER -> "running"

Settle(record) == [record EXCEPT !.state = Aggregate(record)]

\* mutant: a dead member is left among the stopped ones
KeepsDeadStopped(record, pid, report) ==
    LET left == [record EXCEPT !.remaining = @ \ {pid}]
    IN  IF pid = record.last
        THEN [left EXCEPT !.exitStatus = ToExitCode(report),
                          !.termSignal = IF report.kind = "signaled" THEN report.n ELSE 0]
        ELSE left

\* mutant: the result is that of the member reaped last
TakesLatestResult(record, pid, report) ==
    [record EXCEPT !.stopped = @ \ {pid}, !.remaining = @ \ {pid},
                   !.exitStatus = ToExitCode(report),
                   !.termSignal = IF report.kind = "signaled" THEN report.n ELSE 0]

RecordTerminal(record, pid, report) ==
    LET left == [record EXCEPT !.stopped = @ \ {pid}, !.remaining = @ \ {pid}]
    IN  IF pid = record.last
        THEN [left EXCEPT !.exitStatus = ToExitCode(report),
                          !.termSignal = IF report.kind = "signaled" THEN report.n ELSE 0]
        ELSE left

RecordWaitStatus(record, pid, report) ==
    CASE pid \notin record.members -> record
      [] pid \in record.members /\ report.kind = "stopped" ->
            Settle([record EXCEPT !.stopped = @ \cup {pid}, !.stopSignal = report.n])
      [] pid \in record.members /\ report.kind = "continued" ->
            [record EXCEPT !.stopped = @ \ {pid}, !.stopSignal = 0,
                           !.state = "running", !.stopNotified = FALSE]
      [] pid \in record.members /\ IsTerminal(report) ->
            Settle(RecordTerminal(record, pid, report))
=============================================================================
