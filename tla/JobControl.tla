----------------------------- MODULE JobControl -----------------------------
(***************************************************************************)
(* Job control of one shell process: the children the kernel runs for it,  *)
(* the two indexes of shared job records (JobManager::jobs and Exec::jobs),*)
(* the current/previous marks, the cache of terminal statuses retained for *)
(* the wait builtin, and the main thread that launches, polls, reaps,      *)
(* waits and runs the builtins bg, fg, jobs, wait, disown and kill.        *)
(*                                                                         *)
(* The shell is one thread; the children run beside it.  A shell step      *)
(* takes at most one wait report from the kernel, so every interleaving of *)
(* children with the polling and waiting loops is a behaviour.             *)
(***************************************************************************)
EXTENDS JobRecord, Sequences

CONSTANTS
    MaxJobs,      \* bound: how many jobs are launched
    MaxMembers,   \* bound: the longest pipeline
    MaxOperands,  \* bound: operands of one wait
    CacheLimit,   \* 256 in the code
    Interactive,  \* config::interactive_mode or force_interactive
    Monitor,      \* set -m: jobs have process groups of their own
    Posix,        \* config::is_posix_mode()
    NotifyOption, \* set -b
    AutoBackgrounds, \* whether commands may carry the &^ suffix
    Commands      \* the job control builtins that entered lines may hold

ASSUME JobBounds == /\ MaxJobs \in Nat /\ MaxMembers \in Nat /\ MaxOperands \in Nat
                    /\ CacheLimit \in Nat \ {0}
ASSUME ModesAreBooleans == /\ {Interactive, Monitor, Posix, NotifyOption} \subseteq BOOLEAN
                           /\ AutoBackgrounds \subseteq BOOLEAN
ASSUME CommandKinds == Commands \subseteq {"bg", "fg", "jobs", "kill job", "kill pid",
                                          "disown", "disown -h", "wait", "wait -n"}

VARIABLES
    proc,      \* the kernel: life of each child and the report waitpid has for it
    jobs,      \* the shared records
    table,     \* keys of JobManager::jobs
    execTable, \* keys of Exec::jobs
    nextJob,   \* next_job_id
    current, previous, \* %+ and %-
    statuses,  \* completed_pid_statuses
    poll,      \* pids update_job_statuses has yet to ask waitpid about
    shell,     \* where the main thread is, and what it waits for
    lastExit   \* $?, until the next command or prompt (nothing modelled reads it later)

markVars == <<table, current, previous>>
vars == <<proc, jobs, table, execTable, nextJob, current, previous, statuses, poll, shell, lastExit>>

JobIds == 1..MaxJobs
NoJob == -1
NoStatus == -1

(***************************************************************************)
(* Where the main thread is:                                               *)
(*   loop    top of main_process_loop                                      *)
(*   tick    update_job_management before a prompt, polling                *)
(*   prompt  in readline                                                   *)
(*   idle    update_job_management from a readline event, polling          *)
(*   line    between the commands of an entered line                       *)
(*   builtin a job control builtin, polling first                          *)
(*   exec    Exec::wait_for_job of a launched foreground job               *)
(*   fg      job_control_helpers::wait_for_job called by fg                *)
(*   wait, waitn   the wait builtin, and wait -n                           *)
(* "todo" holds the jobs and processes still to be waited for.             *)
(***************************************************************************)
Places == {"loop", "tick", "prompt", "idle", "line", "builtin", "exec", "fg", "wait", "waitn"}
Targets == [job : JobIds, pid : {NoPid}] \cup [job : {NoJob}, pid : Pids]
JobTarget(id) == [job |-> id, pid |-> NoPid]
PidTarget(p) == [job |-> NoJob, pid |-> p]

At(place) == [at |-> place, todo |-> <<>>, force |-> FALSE, operands |-> FALSE]
Blocked == shell.at \in {"exec", "fg", "wait", "waitn"}
Waited == Head(shell.todo).job

(***************************************************************************)
(* The kernel.  One report at most waits for each child: a later change of *)
(* the child replaces an unread earlier one, and only a terminal report    *)
(* ends the child for waitpid.  A dead child keeps its report as history   *)
(* after it is reaped.                                                     *)
(***************************************************************************)
Lives == {"unborn", "running", "stopped", "dead", "reaped"}
Unborn == [life |-> "unborn", report |-> NoReport]
Alive(p) == proc[p].life \in {"running", "stopped"}
Unreaped(p) == proc[p].life \in {"running", "stopped", "dead"}
HasReport(p) == Unreaped(p) /\ proc[p].report # NoReport

\* SIGCONT sent to a set of children: stopped ones run again, at once
ContinueAll(processes, set) ==
    [p \in Pids |-> IF p \in set /\ processes[p].life = "stopped"
                    THEN [life |-> "running", report |-> Continued]
                    ELSE processes[p]]

ChildExits(p) ==
    /\ Alive(p)
    /\ \E outcome \in Terminal :
          /\ proc[p].life = "stopped" => outcome.kind = "signaled"
          /\ proc' = [proc EXCEPT ![p] = [life |-> "dead", report |-> outcome]]
    /\ UNCHANGED <<jobs, table, execTable, nextJob, current, previous, statuses, poll, shell, lastExit>>

ChildStops(p) ==
    /\ proc[p].life = "running"
    /\ \E stop \in Stops : proc' = [proc EXCEPT ![p] = [life |-> "stopped", report |-> stop]]
    /\ UNCHANGED <<jobs, table, execTable, nextJob, current, previous, statuses, poll, shell, lastExit>>

\* SIGCONT from outside the shell
ChildContinues(p) ==
    /\ proc[p].life = "stopped"
    /\ proc' = ContinueAll(proc, {p})
    /\ UNCHANGED <<jobs, table, execTable, nextJob, current, previous, statuses, poll, shell, lastExit>>

Environment == \E p \in Pids : ChildExits(p) \/ ChildStops(p) \/ ChildContinues(p)

(***************************************************************************)
(* Notifications.  atPrompt is allow_deferred_notifications.               *)
(***************************************************************************)
Bump(count) == IF count = 2 THEN 2 ELSE count + 1

Deferred(record, atPrompt) == Posix /\ record.background /\ ~atPrompt /\ ~NotifyOption

NotifyStopped(record, atPrompt) ==
    IF record.stopNotified \/ ~Interactive \/ Deferred(record, atPrompt) THEN record
    ELSE [record EXCEPT !.state = "stopped", !.stopNotified = TRUE]

NotifiedSilently(record) ==
    \/ record.suppress
    \/ Posix /\ ~Interactive
    \/ record.state = "done" /\ ~record.background
    \/ record.state = "terminated" /\ ~record.background /\ ~Interactive

\* mutant: the early return for a job already notified is dropped
NotifyFinishedAgain(record, atPrompt) ==
    IF NotifiedSilently(record) THEN [record EXCEPT !.notified = TRUE]
    ELSE IF ~Completed(record) \/ Deferred(record, atPrompt) THEN record
    ELSE [record EXCEPT !.notified = TRUE, !.doneMessages = Bump(@)]

\* mutant: a suppressed notification leaves the job pending
NotifyFinishedUnlessSuppressed(record, atPrompt) ==
    IF record.notified \/ record.suppress THEN record
    ELSE IF NotifiedSilently(record) THEN [record EXCEPT !.notified = TRUE]
    ELSE IF ~Completed(record) \/ Deferred(record, atPrompt) THEN record
    ELSE [record EXCEPT !.notified = TRUE, !.doneMessages = Bump(@)]

NotifyFinished(record, atPrompt) ==
    IF record.notified THEN record
    ELSE IF NotifiedSilently(record) THEN [record EXCEPT !.notified = TRUE]
    ELSE IF ~Completed(record) \/ Deferred(record, atPrompt) THEN record
    ELSE [record EXCEPT !.notified = TRUE, !.doneMessages = Bump(@)]

(***************************************************************************)
(* The job table and its recency marks.                                    *)
(***************************************************************************)
\* mutant: the search for the newest id starts from 0
NewestFromZero(ids) == IF ids = {} THEN 0 ELSE CHOOSE id \in ids : \A other \in ids : id >= other

Newest(ids) == IF ids = {} THEN NoJob ELSE CHOOSE id \in ids : \A other \in ids : id >= other

UpdateCurrentPrevious(id) ==
    IF current # id THEN current' = id /\ previous' = current
                    ELSE UNCHANGED <<current, previous>>

\* remove_job: table, current and previous after the jobs in "gone" left one by one
Marks(ids, cur, prev) == [table |-> ids, current |-> cur, previous |-> prev]

\* mutant: %- is not given up when it becomes %+
RemoveMarkTwice(marks, id) ==
    IF id \notin marks.table THEN marks
    ELSE LET left == marks.table \ {id}
             cur1 == IF marks.current = id THEN marks.previous ELSE marks.current
             cur2 == IF cur1 \in left THEN cur1 ELSE Newest(left)
         IN  Marks(left, cur2, IF marks.previous \in left THEN marks.previous ELSE Newest(left \ {cur2}))

RemoveMark(marks, id) ==
    IF id \notin marks.table THEN marks
    ELSE LET left == marks.table \ {id}
             cur1 == IF marks.current = id THEN marks.previous ELSE marks.current
             prev1 == IF marks.previous = id \/ marks.previous = cur1 THEN NoJob
                      ELSE marks.previous
             cur2 == IF cur1 \in left THEN cur1 ELSE Newest(left)
             prev2 == IF prev1 \in left THEN prev1 ELSE Newest(left \ {cur2})
         IN  Marks(left, cur2, prev2)

RemoveJob(id) ==
    LET marks == RemoveMark(Marks(table, current, previous), id)
    IN  table' = marks.table /\ current' = marks.current /\ previous' = marks.previous

(***************************************************************************)
(* One wait report, taken from the kernel and applied to the record that   *)
(* owns the pid.                                                           *)
(***************************************************************************)
Kept == {p \in Pids : statuses[p] # NoStatus}

\* mutant: the evicted entry is overwritten and keeps its pid
RetainInPlace(p, code) ==
    IF Cardinality(Kept) >= CacheLimit
    THEN \E evicted \in Kept : statuses' = [statuses EXCEPT ![evicted] = code]
    ELSE statuses' = [statuses EXCEPT ![p] = code]

Retain(p, code) ==
    IF Cardinality(Kept) >= CacheLimit
    THEN \E evicted \in Kept :
            statuses' = [q \in Pids |-> IF q = p THEN code
                                        ELSE IF q = evicted THEN NoStatus ELSE statuses[q]]
    ELSE statuses' = [statuses EXCEPT ![p] = code]

Managed(p) == {id \in table : p \in jobs[id].members}
Owners(p) == IF Managed(p) # {} THEN Managed(p)
             ELSE {id \in execTable : p \in jobs[id].remaining}

\* the record after one report, with the notification it releases at once
Applied(record, p, report, managed) ==
    LET next == RecordWaitStatus(record, p, report)
    IN  IF ~managed THEN next
        ELSE IF Completed(next) THEN NotifyFinished(next, FALSE)
        ELSE IF Stopped(next) /\ ~next.deferStop THEN NotifyStopped(next, FALSE)
        ELSE next

\* mutant: only the statuses of known jobs are retained
RetainsOwnedOnly(p, report) ==
    IF Owners(p) = {} THEN UNCHANGED <<jobs, statuses>>
    ELSE /\ IF IsTerminal(report) THEN Retain(p, ToExitCode(report)) ELSE UNCHANGED statuses
         /\ \E id \in Owners(p) :
               jobs' = [jobs EXCEPT ![id] = Applied(@, p, report, Managed(p) # {})]

HandleChildStatus(p, report) ==
    /\ IF IsTerminal(report) THEN Retain(p, ToExitCode(report)) ELSE UNCHANGED statuses
    /\ IF Owners(p) = {} THEN UNCHANGED jobs
       ELSE \E id \in Owners(p) :
               jobs' = [jobs EXCEPT ![id] = Applied(@, p, report, Managed(p) # {})]

\* waitpid returns p
Collect(p) ==
    proc' = [proc EXCEPT ![p] = IF proc[p].life = "dead" THEN [@ EXCEPT !.life = "reaped"]
                                ELSE [@ EXCEPT !.report = NoReport]]

TakeReport(p) == HasReport(p) /\ Collect(p) /\ HandleChildStatus(p, proc[p].report)

(***************************************************************************)
(* Launching.  The members are the next unborn pids; both indexes get the  *)
(* record before any report about them is taken.                           *)
(***************************************************************************)
Fresh == {p \in Pids : proc[p].life = "unborn"}
NextPids(size) == {p \in Fresh : Cardinality({q \in Fresh : q < p}) < size}
LastOf(members) == CHOOSE p \in members : \A q \in members : q <= p

Launch(size, background, auto) ==
    /\ shell.at = "line"
    /\ nextJob \in JobIds
    /\ Cardinality(Fresh) >= size
    /\ auto => ~background
    /\ Monitor \/ background \/ size > 1 \* otherwise a private, unnumbered record
    /\ LET members == NextPids(size)
       IN  /\ proc' = [p \in Pids |-> IF p \in members THEN [life |-> "running", report |-> NoReport]
                                      ELSE proc[p]]
           /\ jobs' = [jobs EXCEPT ![nextJob] =
                          NewRecord(members, LastOf(members), background, auto)]
    /\ table' = table \cup {nextJob}
    /\ execTable' = execTable \cup {nextJob}
    /\ UpdateCurrentPrevious(nextJob)
    /\ nextJob' = nextJob + 1
    /\ IF background
       THEN shell' = At("line") /\ lastExit' = 0
       ELSE shell' = [At("exec") EXCEPT !.todo = <<JobTarget(nextJob)>>] /\ lastExit' = 0
    /\ UNCHANGED <<statuses, poll>>

(***************************************************************************)
(* Polling, reaping and the main loop.                                     *)
(***************************************************************************)
ManagedLive == UNION {jobs[id].remaining : id \in table}

\* one iteration of update_job_statuses
PollChild(p) ==
    /\ p \in poll
    /\ poll' = poll \ {p}
    /\ IF HasReport(p) THEN TakeReport(p) ELSE UNCHANGED <<proc, jobs, statuses>>
    /\ UNCHANGED <<table, execTable, nextJob, current, previous, shell, lastExit>>

\* process_pending_signals at a safe point of the main thread
ReapPending(p) ==
    /\ shell.at \in {"loop", "line"}
    /\ TakeReport(p)
    /\ UNCHANGED <<table, execTable, nextJob, current, previous, poll, shell, lastExit>>

GoPolling(from, to) ==
    /\ shell.at = from
    /\ shell' = At(to)
    /\ poll' = ManagedLive
    /\ lastExit' = 0
    /\ UNCHANGED <<proc, jobs, table, execTable, nextJob, current, previous, statuses>>

Go(from, to) ==
    /\ shell.at = from
    /\ shell' = At(to)
    /\ lastExit' = 0
    /\ UNCHANGED <<proc, jobs, table, execTable, nextJob, current, previous, statuses, poll>>

Cleaned(record, atPrompt) ==
    IF Completed(record) THEN NotifyFinished(record, atPrompt)
    ELSE IF Stopped(record) /\ atPrompt THEN NotifyStopped(record, atPrompt)
    ELSE record

Cleaning == shell.at \in {"tick", "idle"} /\ poll = {}
Retires(id) == LET record == Cleaned(jobs[id], shell.at = "tick")
               IN  Completed(record) /\ record.notified
NeedsCleaning(id) == Retires(id) \/ Cleaned(jobs[id], shell.at = "tick") # jobs[id]

\* cleanup_finished_jobs, one job at a time
CleanJob(id) ==
    /\ Cleaning
    /\ id \in table
    /\ NeedsCleaning(id)
    /\ jobs' = [jobs EXCEPT ![id] = Cleaned(@, shell.at = "tick")]
    /\ IF Retires(id) THEN RemoveJob(id) ELSE UNCHANGED markVars
    /\ UNCHANGED <<proc, execTable, nextJob, statuses, poll, shell, lastExit>>

CleanupDone ==
    /\ Cleaning
    /\ \A id \in table : ~NeedsCleaning(id)
    /\ shell' = At("prompt")
    /\ UNCHANGED <<proc, jobs, table, execTable, nextJob, current, previous, statuses, poll, lastExit>>

StartTick == Interactive /\ GoPolling("loop", "tick")
StartIdle == GoPolling("prompt", "idle")
ReadLine == Go("prompt", "line")
EndLine == Interactive /\ Go("line", "loop")
StartBuiltin == GoPolling("line", "builtin")

(***************************************************************************)
(* Exec::wait_for_job of a launched foreground job, and what its caller    *)
(* does with the record afterwards.                                        *)
(***************************************************************************)
First(pids) == {p \in pids : \A q \in pids : p <= q}

ExecReport(p) ==
    /\ shell.at = "exec"
    /\ ~Stopped(jobs[Waited])
    /\ jobs[Waited].remaining # {}
    /\ p \in IF Monitor THEN jobs[Waited].members ELSE First(jobs[Waited].remaining)
    /\ TakeReport(p)
    /\ UNCHANGED <<table, execTable, nextJob, current, previous, poll, shell, lastExit>>

ExecStopped ==
    /\ shell.at = "exec"
    /\ Stopped(jobs[Waited])
    /\ LET record == jobs[Waited]
           told == NotifyStopped([record EXCEPT !.deferStop = FALSE], FALSE)
           moved == [MarkRunning(record) EXCEPT !.background = TRUE, !.deferStop = FALSE]
       IN  IF record.autoBackground /\ record.stopSignal = SIGTSTP
           THEN /\ proc' = ContinueAll(proc, record.members)
                /\ jobs' = [jobs EXCEPT ![Waited] = moved]
                /\ lastExit' = 0
           ELSE /\ jobs' = [jobs EXCEPT ![Waited] = told]
                \* a lone command may have been launched by either of two callers
                /\ \/ lastExit' = 128 + SIGTSTP
                   \/ Cardinality(record.members) = 1 /\ lastExit' = 128 + record.stopSignal
                /\ UNCHANGED proc
    /\ shell' = At("line")
    /\ UNCHANGED <<table, execTable, nextJob, current, previous, statuses, poll>>

ExecCompleted ==
    /\ shell.at = "exec"
    /\ jobs[Waited].remaining = {}
    /\ RemoveJob(Waited)
    /\ execTable' = execTable \ {Waited}
    /\ jobs' = [jobs EXCEPT ![Waited] = NoRecord] \* the last reference is gone
    /\ lastExit' = jobs[Waited].exitStatus
    /\ shell' = At("line")
    /\ UNCHANGED <<proc, nextJob, statuses, poll>>


(***************************************************************************)
(* The builtins, once update_job_statuses has run.                         *)
(***************************************************************************)
InBuiltin == shell.at = "builtin" /\ poll = {}

Return(status) == shell' = At("line") /\ lastExit' = status

\* an operand that names no job, a refused operation, or a signal that changes no record
NoEffect ==
    /\ InBuiltin
    /\ \E status \in {0, 1} : Return(status)
    /\ UNCHANGED <<proc, jobs, table, execTable, nextJob, current, previous, statuses, poll>>

\* mutant: the record is marked running without SIGCONT
ResumeRecordOnly(id, set, record) ==
    /\ jobs' = [jobs EXCEPT ![id] = record]
    /\ UNCHANGED proc

\* SIGCONT to a set of members; "record" is what becomes of the job's record
Resume(id, set, record) ==
    /\ proc' = ContinueAll(proc, set)
    /\ jobs' = [jobs EXCEPT ![id] = record]

Bg(id) ==
    /\ InBuiltin
    /\ Monitor
    /\ id \in table
    /\ Stopped(jobs[id])
    /\ Resume(id, jobs[id].members,
              [MarkRunning(jobs[id]) EXCEPT !.background = TRUE, !.notified = FALSE])
    /\ UpdateCurrentPrevious(id)
    /\ Return(0)
    /\ UNCHANGED <<table, execTable, nextJob, statuses, poll>>

FgCompleted(id) ==
    /\ InBuiltin
    /\ Monitor
    /\ id \in table
    /\ Completed(jobs[id])
    /\ jobs' = [jobs EXCEPT ![id] = NotifyFinished(@, FALSE)]
    /\ RemoveJob(id)
    /\ Return(1)
    /\ UNCHANGED <<proc, execTable, nextJob, statuses, poll>>

\* mutant: fg does not look whether the job has finished
FgAny(id) ==
    /\ InBuiltin
    /\ Monitor
    /\ id \in table
    /\ Resume(id, IF Stopped(jobs[id]) THEN jobs[id].members ELSE {},
              [MarkRunning(jobs[id]) EXCEPT !.background = FALSE, !.notified = FALSE])
    /\ UpdateCurrentPrevious(id)
    /\ shell' = [At("fg") EXCEPT !.todo = <<JobTarget(id)>>]
    /\ UNCHANGED <<table, execTable, nextJob, statuses, poll, lastExit>>

Fg(id) ==
    /\ InBuiltin
    /\ Monitor
    /\ id \in table
    /\ ~Completed(jobs[id])
    /\ Resume(id, IF Stopped(jobs[id]) THEN jobs[id].members ELSE {},
              [MarkRunning(jobs[id]) EXCEPT !.background = FALSE, !.notified = FALSE])
    /\ UpdateCurrentPrevious(id)
    /\ shell' = [At("fg") EXCEPT !.todo = <<JobTarget(id)>>]
    /\ UNCHANGED <<table, execTable, nextJob, statuses, poll, lastExit>>

Jobs(listed) ==
    /\ InBuiltin
    /\ listed # {}
    /\ jobs' = [id \in JobIds |-> IF id \in listed /\ Completed(jobs[id])
                                  THEN [jobs[id] EXCEPT !.notified = TRUE] ELSE jobs[id]]
    /\ Return(0)
    /\ UNCHANGED <<proc, table, execTable, nextJob, current, previous, statuses, poll>>

\* the record a successful kill leaves behind: the builtin does not wait for the report
AfterStop(record, signal) == [record EXCEPT !.state = "stopped", !.stopSignal = signal]

KillStop(id, targets) ==
    /\ InBuiltin
    /\ \E p \in targets : Unreaped(p)
    /\ \E signal \in StopSignals : jobs' = [jobs EXCEPT ![id] = AfterStop(@, signal)]
    /\ Return(0)
    /\ UNCHANGED <<proc, table, execTable, nextJob, current, previous, statuses, poll>>

KillContinue(id, targets) ==
    /\ InBuiltin
    /\ \E p \in targets : Unreaped(p)
    /\ Resume(id, targets, MarkRunning(jobs[id]))
    /\ Return(0)
    /\ UNCHANGED <<table, execTable, nextJob, current, previous, statuses, poll>>

Kill(id) ==
    /\ id \in table
    /\ \/ /\ "kill job" \in Commands
          /\ KillStop(id, jobs[id].members) \/ KillContinue(id, jobs[id].members)
       \/ /\ "kill pid" \in Commands
          /\ \E p \in jobs[id].members : KillStop(id, {p}) \/ KillContinue(id, {p})

\* disown -h
ProtectFromHup(id) ==
    /\ InBuiltin
    /\ id \in table
    /\ jobs' = [jobs EXCEPT ![id].hupProtected = TRUE]
    /\ Return(0)
    /\ UNCHANGED <<proc, table, execTable, nextJob, current, previous, statuses, poll>>

\* mutant: disown leaves the execution record to be hung up at exit
DisownListingOnly(id) ==
    /\ InBuiltin
    /\ id \in table
    /\ RemoveJob(id)
    /\ \/ Return(0)
       \/ UNCHANGED <<shell, lastExit>>
    /\ UNCHANGED <<proc, jobs, execTable, nextJob, statuses, poll>>

\* disown; -a and several operands repeat it
Disown(id) ==
    /\ InBuiltin
    /\ id \in table
    /\ RemoveJob(id)
    /\ execTable' = execTable \ {id}
    /\ jobs' = [jobs EXCEPT ![id] = NoRecord]
    /\ \/ Return(0)
       \/ UNCHANGED <<shell, lastExit>>
    /\ UNCHANGED <<proc, nextJob, statuses, poll>>

Builtin ==
    \/ NoEffect
    \/ /\ "jobs" \in Commands
       /\ \E listed \in {table} \cup {{id} : id \in table} : Jobs(listed)
    \/ \E id \in table :
          \/ "bg" \in Commands /\ Bg(id)
          \/ "fg" \in Commands /\ (Fg(id) \/ FgCompleted(id))
          \/ Kill(id)
          \/ "disown" \in Commands /\ Disown(id)
          \/ "disown -h" \in Commands /\ ProtectFromHup(id)

(***************************************************************************)
(* job_control_helpers::wait_for_job.  An interrupted waitpid processes    *)
(* pending signals, which reaps any child (WaitInterrupted).               *)
(***************************************************************************)
\* mutant: only the last member is waited for
WaitForLast(id) == {jobs[id].last}

WaitSet(id) == IF Monitor THEN jobs[id].members ELSE jobs[id].remaining

Ready(id, returnOnStop) == Completed(jobs[id]) \/ (returnOnStop /\ Stopped(jobs[id]))

\* mutant: a stop that is over still decides the result
ResultStopFirst(id) ==
    IF jobs[id].stopSignal > 0 THEN 128 + jobs[id].stopSignal
    ELSE IF Completed(jobs[id]) THEN jobs[id].exitStatus ELSE 128 + SIGTSTP

Result(id) ==
    IF Completed(jobs[id]) THEN jobs[id].exitStatus
    ELSE 128 + IF jobs[id].stopSignal > 0 THEN jobs[id].stopSignal ELSE SIGTSTP

\* is the head of todo, or for wait -n any of todo, ready to be answered?
TargetReady(target) ==
    IF target.job # NoJob THEN Ready(target.job, ~shell.force)
                          ELSE statuses[target.pid] # NoStatus
SomeReady == \E i \in 1..Len(shell.todo) :
                TargetReady(shell.todo[i]) /\ (shell.at = "waitn" \/ i = 1)

WaitInterrupted(p) ==
    /\ shell.at \in {"fg", "wait", "waitn"}
    /\ shell.todo # <<>>
    /\ ~SomeReady
    /\ TakeReport(p)
    /\ UNCHANGED <<table, execTable, nextJob, current, previous, poll, shell, lastExit>>

WaitJobReport(p) ==
    /\ shell.at \in {"fg", "wait"}
    /\ shell.todo # <<>>
    /\ Waited # NoJob
    /\ ~SomeReady
    /\ p \in WaitSet(Waited)
    /\ TakeReport(p)
    /\ UNCHANGED <<table, execTable, nextJob, current, previous, poll, shell, lastExit>>

FgDone ==
    /\ shell.at = "fg"
    /\ SomeReady
    /\ IF Completed(jobs[Waited])
       THEN /\ jobs' = [jobs EXCEPT ![Waited] = NotifyFinished(@, FALSE)]
            /\ RemoveJob(Waited)
       ELSE /\ jobs' = [jobs EXCEPT ![Waited] = NotifyStopped(@, FALSE)]
            /\ UNCHANGED markVars
    /\ Return(Result(Waited))
    /\ UNCHANGED <<proc, execTable, nextJob, statuses, poll>>

(***************************************************************************)
(* The wait builtin.                                                       *)
(***************************************************************************)
\* a pid operand that belongs to a managed job stands for the whole job
Operand(p) == IF Managed(p) # {} THEN JobTarget(CHOOSE id \in Managed(p) : TRUE) ELSE PidTarget(p)

Operands == {JobTarget(id) : id \in table} \cup {Operand(p) : p \in Pids}
OperandLists == UNION {[1..n -> Operands] : n \in 1..MaxOperands}

\* the jobs of the table in ascending order
AllJobs == {list \in [1..Cardinality(table) -> {JobTarget(id) : id \in table}] :
               \A i, j \in DOMAIN list : i < j => list[i].job < list[j].job}

Suppress(list) ==
    [id \in JobIds |-> IF \E i \in DOMAIN list : list[i].job = id
                       THEN [jobs[id] EXCEPT !.suppress = TRUE] ELSE jobs[id]]

StartWait(place, force, list, operands) ==
    /\ InBuiltin
    /\ jobs' = Suppress(list)
    /\ shell' = [at |-> place, todo |-> list, force |-> force, operands |-> operands]
    /\ lastExit' = 0
    /\ UNCHANGED <<proc, table, execTable, nextJob, current, previous, statuses, poll>>

Wait ==
    \E place \in {"wait", "waitn"}, force \in BOOLEAN :
        /\ (IF place = "wait" THEN "wait" ELSE "wait -n") \in Commands
        /\ \/ \E list \in AllJobs : StartWait(place, force, list, FALSE)
           \/ \E list \in OperandLists : StartWait(place, force, list, TRUE)

\* finish_job: the answer uses up what was retained for every member
FinishJob(id) ==
    IF Completed(jobs[id])
    THEN /\ statuses' = [p \in Pids |-> IF p \in jobs[id].members THEN NoStatus ELSE statuses[p]]
         /\ RemoveJob(id)
    ELSE UNCHANGED <<statuses, table, current, previous>>

Answer(target) ==
    IF target.job # NoJob
    THEN lastExit' = Result(target.job) /\ FinishJob(target.job)
    ELSE /\ lastExit' = statuses[target.pid]
         /\ statuses' = [statuses EXCEPT ![target.pid] = NoStatus]
         /\ UNCHANGED markVars

NextTarget == shell' = [shell EXCEPT !.todo = Tail(@)]

WaitAnswered ==
    /\ shell.at = "wait"
    /\ SomeReady
    /\ Answer(Head(shell.todo))
    /\ NextTarget
    /\ UNCHANGED <<proc, jobs, execTable, nextJob, poll>>

WaitPidReport ==
    /\ shell.at = "wait"
    /\ shell.todo # <<>>
    /\ Waited = NoJob
    /\ ~SomeReady
    /\ LET p == Head(shell.todo).pid
           report == proc[p].report
       IN  /\ IsTerminal(report) \/ (report.kind = "stopped" /\ ~shell.force)
           /\ TakeReport(p)
           /\ lastExit' = IF report.kind = "stopped" THEN 128 + report.n ELSE ToExitCode(report)
    /\ NextTarget
    /\ UNCHANGED <<table, execTable, nextJob, current, previous, poll>>

NotAChild ==
    /\ shell.at = "wait"
    /\ shell.todo # <<>>
    /\ Waited = NoJob
    /\ ~SomeReady
    /\ ~Unreaped(Head(shell.todo).pid)
    /\ Return(127)
    /\ UNCHANGED <<proc, jobs, table, execTable, nextJob, current, previous, statuses, poll>>

WaitDone ==
    /\ shell.at = "wait"
    /\ shell.todo = <<>>
    /\ Return(IF shell.operands THEN lastExit ELSE 0)
    /\ UNCHANGED <<proc, jobs, table, execTable, nextJob, current, previous, statuses, poll>>

WaitNextAnswered ==
    /\ shell.at = "waitn"
    /\ \E i \in 1..Len(shell.todo) :
          /\ TargetReady(shell.todo[i])
          /\ \A k \in 1..(i - 1) : ~TargetReady(shell.todo[k])
          /\ Answer(shell.todo[i])
    /\ shell' = At("line")
    /\ UNCHANGED <<proc, jobs, execTable, nextJob, poll>>

\* WSTOPSIG applied to whatever the report is
StopSignalOf(report) == IF report.kind = "signaled" THEN 0 ELSE report.n

(***************************************************************************)
(* waitpid(-1).  A report about a selected raw pid is the answer, and its  *)
(* status stays retained.  So is a death that leaves a selected job with   *)
(* stopped members only, whether or not -f was given.                      *)
(***************************************************************************)
WaitNextReport(p) ==
    /\ shell.at = "waitn"
    /\ ~SomeReady
    /\ LET report == proc[p].report
           raw == /\ PidTarget(p) \in {shell.todo[i] : i \in 1..Len(shell.todo)}
                  /\ Managed(p) = {}
                  /\ report.kind # "continued"
                  /\ ~(shell.force /\ report.kind = "stopped")
           leavesStopped == /\ IsTerminal(report)
                            /\ \E i \in 1..Len(shell.todo) :
                                  /\ shell.todo[i].job \in Managed(p)
                                  /\ Stopped(jobs'[shell.todo[i].job])
       IN  /\ TakeReport(p)
           /\ IF raw THEN Return(ToExitCode(report))
              ELSE IF leavesStopped THEN Return(128 + StopSignalOf(report))
              ELSE UNCHANGED <<shell, lastExit>>
    /\ UNCHANGED <<table, execTable, nextJob, current, previous, poll>>

WaitNextNoChild ==
    /\ shell.at = "waitn"
    /\ ~SomeReady
    /\ shell.todo = <<>> \/ \A p \in Pids : ~Unreaped(p)
    /\ Return(127)
    /\ UNCHANGED <<proc, jobs, table, execTable, nextJob, current, previous, statuses, poll>>


(***************************************************************************)
(* The specification.                                                      *)
(***************************************************************************)
Init ==
    /\ proc = [p \in Pids |-> Unborn]
    /\ jobs = [id \in JobIds |-> NoRecord]
    /\ table = {} /\ execTable = {}
    /\ nextJob = 1
    /\ current = NoJob /\ previous = NoJob
    /\ statuses = [p \in Pids |-> NoStatus]
    /\ poll = {}
    /\ shell = At(IF Interactive THEN "loop" ELSE "line")
    /\ lastExit = 0

MainLoop == StartTick \/ StartIdle \/ ReadLine \/ EndLine \/ StartBuiltin \/ CleanupDone

Launches == \E size \in 1..MaxMembers, background \in BOOLEAN, auto \in AutoBackgrounds :
               Launch(size, background, auto)

\* the steps of a thread that polls or is blocked on its own jobs
Polls == \E p \in Pids : PollChild(p)
Cleans == \E id \in table : CleanJob(id)
Waits ==
    \/ ExecStopped \/ ExecCompleted \/ FgDone
    \/ WaitAnswered \/ WaitPidReport \/ NotAChild \/ WaitDone
    \/ WaitNextAnswered \/ WaitNextNoChild
    \/ \E p \in Pids : ExecReport(p) \/ WaitJobReport(p) \/ WaitNextReport(p)

Interrupts == \E p \in Pids : ReapPending(p) \/ WaitInterrupted(p)

Next == Environment \/ Launches \/ MainLoop \/ Polls \/ Cleans \/ Builtin \/ Wait \/ Waits \/ Interrupts

Spec == Init /\ [][Next]_vars

(***************************************************************************)
(* Children owe the shell nothing.  The shell's own loops make progress,   *)
(* because waitpid returns once the kernel has a report for its target.    *)
(***************************************************************************)
FairSpec ==
    /\ Spec
    /\ WF_vars(Polls) /\ WF_vars(Cleans) /\ WF_vars(Waits)
    /\ WF_vars(StartTick) /\ WF_vars(CleanupDone)

(***************************************************************************)
(* Properties.                                                             *)
(***************************************************************************)
\* The values every variable keeps; unread reports only come from children
\* that are not reaped.
TypeOK ==
    /\ proc \in [Pids -> [life : Lives, report : Reports \cup {NoReport}]]
    /\ jobs \in [JobIds -> Records]
    /\ table \subseteq JobIds /\ execTable \subseteq JobIds
    /\ nextJob \in Nat \ {0}
    /\ current \in JobIds \cup {NoJob} /\ previous \in JobIds \cup {NoJob}
    /\ statuses \in [Pids -> Codes \cup {NoStatus}]
    /\ poll \subseteq Pids
    /\ shell \in [at : Places, todo : Seq(Targets), force : BOOLEAN, operands : BOOLEAN]
    /\ lastExit \in Codes

\* After any sequence of launches, completions, fg, bg and disown, %+ names a
\* job of the table unless the table is empty, and %- names another one unless
\* there is no other: "keep %+ and %- useful" of remove_job.
RecencyMarks ==
    /\ table = {} => current = NoJob
    /\ table # {} => current \in table
    /\ previous # NoJob => previous \in table \ {current}
    /\ table \ {current} # {} => previous # NoJob

\* Three loops reap children (polling, the waiter, signal dispatch), and the
\* records still agree with the kernel: a job's remaining members are exactly
\* those nobody has reaped, and it is complete when there are none.
MembersAccounted ==
    \A id \in table \cup execTable :
        /\ jobs[id].remaining = {p \in jobs[id].members : Unreaped(p)}
        /\ jobs[id].stopped \subseteq jobs[id].remaining
        /\ Completed(jobs[id]) <=> jobs[id].remaining = {}

\* In whatever order the members die and are reaped, a finished job carries the
\* result of its last member and says truly whether that died of a signal.
ExitStatusOfLastMember ==
    \A id \in table \cup execTable : Completed(jobs[id]) =>
        LET report == proc[jobs[id].last].report
        IN  /\ jobs[id].exitStatus = ToExitCode(report)
            /\ jobs[id].state = "terminated" <=> report.kind = "signaled"

\* A retained status belongs to a reaped child and is the one it died with.
RetainedIsTrue ==
    \A p \in Pids : statuses[p] # NoStatus =>
        proc[p].life = "reaped" /\ statuses[p] = ToExitCode(proc[p].report)

\* Unfinished jobs are in both indexes or in none, so a hangup at exit reaches
\* exactly the jobs that are still listed: disown takes them out of both.
IndexesAgree ==
    \A id \in table \cup execTable : ~Completed(jobs[id]) => id \in table \cap execTable

\* The user is told at most once that a job finished, whichever of prompt
\* cleanup, a waiter, fg or a report comes first.
FinishedToldOnce == \A id \in JobIds : jobs[id].doneMessages <= 1

\* While fg waits, a stopped member has been noticed or is about to be: fg is
\* never blocked on a job that stopped without its record knowing.
NoUnnoticedStop ==
    \A id \in table : \A p \in jobs[id].remaining :
        proc[p].life = "stopped" /\ proc[p].report = NoReport => p \in jobs[id].stopped

\* A finished job of the table never becomes unfinished again, not even by a
\* late continue report, a kill or an fg that raced its death.
FinishedForGood ==
    [][\A id \in table \cap table' : Completed(jobs[id]) => Completed(jobs'[id])]_vars

\* Whoever reaps a child, a wait builtin that answers with its status included, leaves
\* that status behind for a later wait (handle_child_status).
ReapedIsRetained ==
    [][\A p \in Pids : proc[p].life = "dead" /\ proc'[p].life = "reaped" =>
          statuses'[p] = ToExitCode(proc[p].report)]_vars

\* What wait says of a dead process it was given is how that process died.
WaitTellsTheTruth ==
    [][shell.at = "wait" /\ shell'.at = "wait" /\ shell'.todo # shell.todo =>
          LET target == Head(shell.todo)
              p == IF target.job # NoJob THEN jobs[target.job].last ELSE target.pid
          IN  proc'[p].life = "reaped" /\ (target.job # NoJob => Completed(jobs[target.job])) =>
                  lastExit' = ToExitCode(proc[p].report)]_vars

Dead(set) == \A p \in set : ~Alive(p)

\* A waiter whose targets are all dead returns, whoever reaped them.
WaitersReturn ==
    Blocked /\ Dead(Pids) ~> shell.at = "line"

\* A job whose members are all dead leaves the table if the shell keeps coming
\* back to its main loop.
FinishedJobsLeave ==
    []<>(shell.at = "loop") =>
        \A id \in JobIds : (id \in table /\ Dead(jobs[id].members)) ~> id \notin table

=============================================================================
