-------------------------- MODULE JobControlProofs --------------------------
(***************************************************************************)
(* Proofs about JobControl, for every number of processes and jobs.        *)
(***************************************************************************)
EXTENDS JobControl, FiniteSetTheorems, WellFoundedInduction, TLAPS

(***************************************************************************)
(* Bounded sets of naturals.                                               *)
(***************************************************************************)

\* A nonempty set of naturals has a least element.
LEMMA LeastExists ==
    ASSUME NEW S, S \subseteq Nat, S # {}
    PROVE  \E m \in S : \A n \in S : m <= n
<1>1. PICK m \in S : \A n \in S : <<n, m>> \notin OpToRel(<, Nat)
  BY NatLessThanWellFounded, WFMin
<1>2. \A n \in S : ~(n < m)
  BY <1>1 DEF OpToRel
<1> QED BY <1>2

\* A nonempty subset of 1..n has a greatest element.
LEMMA GreatestExists ==
    ASSUME NEW n \in Nat, NEW S, S \subseteq 1..n, S # {}
    PROVE  \E m \in S : \A k \in S : m >= k
<1> DEFINE Mirror == {n - k : k \in S}
<1>0. \A k \in S : n - k \in Nat
  OBVIOUS
<1> HIDE DEF Mirror
<1>1. Mirror \subseteq Nat
  BY <1>0 DEF Mirror
<1>2. Mirror # {}
  BY DEF Mirror
<1>3. PICK least \in Mirror : \A k \in Mirror : least <= k
  BY <1>1, <1>2, LeastExists
<1>4. PICK m \in S : least = n - m
  BY <1>3 DEF Mirror
<1>5. \A k \in S : n - m <= n - k
  BY <1>3, <1>4 DEF Mirror
<1> QED BY <1>5

\* The search remove_job falls back on finds one of the remaining jobs.
LEMMA NewestIsOne ==
    ASSUME NEW ids, ids \subseteq JobIds
    PROVE  /\ ids = {} => Newest(ids) = NoJob
           /\ ids # {} => Newest(ids) \in ids
<1>1. CASE ids = {}
  BY <1>1 DEF Newest
<1>2. CASE ids # {}
  <2>1. \E id \in ids : \A other \in ids : id >= other
    BY <1>2, GreatestExists, JobBounds DEF JobIds
  <2> QED BY <1>2, <2>1 DEF Newest
<1> QED BY <1>1, <1>2

(***************************************************************************)
(* The recency marks of an arbitrary table.                                *)
(***************************************************************************)
Useful(ids, cur, prev) ==
    /\ ids = {} => cur = NoJob
    /\ ids # {} => cur \in ids
    /\ prev # NoJob => prev \in ids \ {cur}
    /\ ids \ {cur} # {} => prev # NoJob

LEMMA NoJobIsNoId == NoJob \notin JobIds
BY JobBounds DEF NoJob, JobIds

\* RemoveMark keeps the marks useful.
LEMMA RemoveMarkUseful ==
    ASSUME NEW ids, ids \subseteq JobIds, NEW cur, NEW prev, NEW id,
           Useful(ids, cur, prev)
    PROVE  LET marks == RemoveMark(Marks(ids, cur, prev), id)
           IN  /\ marks.table = ids \ {id}
               /\ Useful(marks.table, marks.current, marks.previous)
<1>1. CASE id \notin ids
  BY <1>1 DEF RemoveMark, Marks
<1>2. CASE id \in ids
  <2> DEFINE left == ids \ {id}
             cur1 == IF cur = id THEN prev ELSE cur
             prev1 == IF prev = id \/ prev = cur1 THEN NoJob ELSE prev
             cur2 == IF cur1 \in left THEN cur1 ELSE Newest(left)
             prev2 == IF prev1 \in left THEN prev1 ELSE Newest(left \ {cur2})
  <2>1. RemoveMark(Marks(ids, cur, prev), id) = Marks(left, cur2, prev2)
    BY <1>2 DEF RemoveMark, Marks
  <2>2. left = {} => cur2 = NoJob
    BY NewestIsOne
  <2>3. left # {} => cur2 \in left
    BY NewestIsOne
  <2>4. /\ left \ {cur2} = {} => Newest(left \ {cur2}) = NoJob
        /\ left \ {cur2} # {} => Newest(left \ {cur2}) \in left \ {cur2}
    BY NewestIsOne
  <2>5. prev1 \in left => prev1 # cur2
    <3>1. SUFFICES ASSUME prev1 \in left PROVE prev1 # cur2
      OBVIOUS
    <3>2. prev1 = prev /\ prev # NoJob /\ prev # cur1 /\ prev # id
      BY <3>1, NoJobIsNoId
    <3>3. cur # id
      BY <3>2
    <3>4. cur1 = cur /\ cur \in left
      BY <1>2, <3>3 DEF Useful
    <3> QED BY <3>2, <3>4
  <2>6. Useful(left, cur2, prev2)
    BY <2>2, <2>3, <2>4, <2>5, NoJobIsNoId DEF Useful
  <2> QED BY <2>1, <2>6 DEF Marks
<1> QED BY <1>1, <1>2

\* Making a job current, one just added or one already there, keeps them useful.
LEMMA MarkCurrentUseful ==
    ASSUME table \subseteq JobIds, Useful(table, current, previous),
           NEW id \in JobIds, table' = table \cup {id}, UpdateCurrentPrevious(id)
    PROVE  Useful(table', current', previous')
<1>1. CASE current = id
  <2>1. table' = table
    BY <1>1, NoJobIsNoId DEF Useful
  <2> QED BY <1>1, <2>1 DEF UpdateCurrentPrevious
<1>2. CASE current # id
  BY <1>2, NoJobIsNoId DEF UpdateCurrentPrevious, Useful
<1> QED BY <1>1, <1>2

LEMMA RemoveJobUseful ==
    ASSUME table \subseteq JobIds, Useful(table, current, previous), NEW id, RemoveJob(id)
    PROVE  table' = table \ {id} /\ Useful(table', current', previous')
BY RemoveMarkUseful DEF RemoveJob

(***************************************************************************)
(* RecencyMarks is inductive once the table holds job ids only.            *)
(***************************************************************************)
MarksInv == table \subseteq JobIds /\ RecencyMarks

LEMMA MarksInvIsUseful == MarksInv <=> table \subseteq JobIds /\ Useful(table, current, previous)
BY DEF MarksInv, RecencyMarks, Useful

LEMMA MarksInvInit == Init => MarksInv
BY DEF Init, MarksInv, RecencyMarks

\* How a step can touch the table and the marks: it leaves them alone, removes
\* a job, or makes a job current.
LEMMA StepKinds ==
    ASSUME table \subseteq JobIds, Next
    PROVE  \/ UNCHANGED markVars
           \/ \E id : RemoveJob(id)
           \/ \E id \in JobIds : table' = table \cup {id} /\ UpdateCurrentPrevious(id)
<1> USE DEF markVars
<1>1. CASE Environment
  BY <1>1 DEF Environment, ChildExits, ChildStops, ChildContinues
<1>2. CASE Launches
  BY <1>2 DEF Launches, Launch
<1>3. CASE MainLoop
  BY <1>3 DEF MainLoop, StartTick, StartIdle, ReadLine, EndLine, StartBuiltin, CleanupDone,
              GoPolling, Go
<1>4. CASE Polls
  BY <1>4 DEF Polls, PollChild
<1>5. CASE Cleans
  BY <1>5 DEF Cleans, CleanJob
<1>6. CASE Builtin
  <2>1. CASE NoEffect \/ \E listed \in {table} \cup {{id} : id \in table} : Jobs(listed)
    BY <2>1 DEF NoEffect, Jobs
  <2>2. CASE \E id \in table : Bg(id) \/ Fg(id)
    BY <2>2 DEF Bg, Fg
  <2>3. CASE \E id \in table : FgCompleted(id) \/ Disown(id)
    BY <2>3 DEF FgCompleted, Disown
  <2>4. CASE \E id \in table : Kill(id) \/ ProtectFromHup(id)
    BY <2>4 DEF Kill, KillStop, KillContinue, ProtectFromHup
  <2> QED BY <1>6, <2>1, <2>2, <2>3, <2>4 DEF Builtin
<1>7. CASE Wait
  BY <1>7 DEF Wait, StartWait
<1>8. CASE Waits
  <2>1. CASE ExecCompleted
    BY <2>1 DEF ExecCompleted
  <2>2. CASE FgDone
    BY <2>2 DEF FgDone
  <2>3. CASE WaitAnswered
    BY <2>3 DEF WaitAnswered, Answer, FinishJob
  <2>4. CASE WaitNextAnswered
    BY <2>4 DEF WaitNextAnswered, Answer, FinishJob
  <2>5. CASE \/ ExecStopped \/ WaitPidReport \/ NotAChild \/ WaitDone \/ WaitNextNoChild
             \/ \E p \in Pids : ExecReport(p) \/ WaitJobReport(p) \/ WaitNextReport(p)
    BY <2>5 DEF ExecStopped, WaitPidReport, NotAChild, WaitDone, WaitNextNoChild, ExecReport,
                WaitJobReport, WaitNextReport
  <2> QED BY <1>8, <2>1, <2>2, <2>3, <2>4, <2>5 DEF Waits
<1>9. CASE Interrupts
  BY <1>9 DEF Interrupts, ReapPending, WaitInterrupted
<1> QED BY <1>1, <1>2, <1>3, <1>4, <1>5, <1>6, <1>7, <1>8, <1>9 DEF Next

LEMMA MarksInvNext == MarksInv /\ [Next]_vars => MarksInv'
<1> SUFFICES ASSUME MarksInv, [Next]_vars PROVE MarksInv'
  OBVIOUS
<1>1. table \subseteq JobIds /\ Useful(table, current, previous)
  BY MarksInvIsUseful
<1>2. CASE UNCHANGED markVars
  BY <1>2 DEF markVars, MarksInv, RecencyMarks
<1>3. CASE \E id : RemoveJob(id)
  BY <1>1, <1>3, RemoveJobUseful DEF MarksInv, RecencyMarks, Useful
<1>4. CASE \E id \in JobIds : table' = table \cup {id} /\ UpdateCurrentPrevious(id)
  BY <1>1, <1>4, MarkCurrentUseful DEF MarksInv, RecencyMarks, Useful
<1>5. CASE UNCHANGED vars
  BY <1>2, <1>5 DEF vars, markVars
<1> QED BY <1>1, <1>2, <1>3, <1>4, <1>5, StepKinds

\* For every number of jobs, %+ and %- stay useful through every sequence of
\* launches, completions, bg, fg, wait and disown.
THEOREM RecencyMarksAlways == Spec => []RecencyMarks
<1>1. MarksInv => RecencyMarks
  BY DEF MarksInv
<1> QED BY MarksInvInit, MarksInvNext, <1>1, PTL DEF Spec

(***************************************************************************)
(* Type correctness.                                                       *)
(***************************************************************************)
LEMMA NewRecordType ==
    ASSUME NEW members \in SUBSET Pids, NEW last \in Pids \cup {NoPid},
           NEW background \in BOOLEAN, NEW auto \in BOOLEAN
    PROVE  NewRecord(members, last, background, auto) \in Records
BY DEF NewRecord, Records, States, Codes

LEMMA NoRecordType == NoRecord \in Records
BY NewRecordType DEF NoRecord

\* The constants that operations store in a record.
LEMMA FieldValues ==
    /\ {"running", "stopped", "done", "terminated"} \subseteq States
    /\ {} \in SUBSET Pids
    /\ 0 \in 0..64 /\ TRUE \in BOOLEAN /\ FALSE \in BOOLEAN
BY DEF States

LEMMA MarkRunningType == ASSUME NEW r \in Records PROVE MarkRunning(r) \in Records
BY FieldValues DEF MarkRunning, Records

LEMMA ReportBounds ==
    ASSUME NEW report \in Reports
    PROVE  /\ ToExitCode(report) \in 0..255
           /\ report.kind \in {"exited", "signaled", "stopped", "continued"}
           /\ report.n \in 0..255
           /\ report.kind \in {"signaled", "stopped"} => report.n \in 1..64
BY CodesAreBytes, SignalsAreNumbers DEF Reports, Terminal, Stops, Continued, ToExitCode

LEMMA SettleType == ASSUME NEW r \in Records PROVE Settle(r) \in Records
<1>1. Aggregate(r) \in States
  BY DEF Aggregate, States
<1> QED BY <1>1 DEF Settle, Records

\* One wait report keeps the record a record.
LEMMA RecordWaitStatusType ==
    ASSUME NEW r \in Records, NEW p \in Pids, NEW report \in Reports
    PROVE  RecordWaitStatus(r, p, report) \in Records
<1>1. CASE p \notin r.members
  BY <1>1 DEF RecordWaitStatus
<1>2. CASE p \in r.members /\ report.kind = "stopped"
  <2> DEFINE next == [r EXCEPT !.stopped = @ \cup {p}, !.stopSignal = report.n]
  <2>1. r.stopped \cup {p} \in SUBSET Pids
    BY DEF Records
  <2>2. report.n \in 0..64
    BY <1>2, ReportBounds
  <2>3. next \in Records
    BY <2>1, <2>2 DEF Records
  <2>4. RecordWaitStatus(r, p, report) = Settle(next)
    BY <1>2, Zenon DEF RecordWaitStatus, IsTerminal
  <2> QED BY <2>3, <2>4, SettleType
<1>3. CASE p \in r.members /\ report.kind = "continued"
  <2> DEFINE next == [r EXCEPT !.stopped = @ \ {p}, !.stopSignal = 0,
                              !.state = "running", !.stopNotified = FALSE]
  <2>1. r.stopped \ {p} \in SUBSET Pids
    BY DEF Records
  <2>2. next \in Records
    BY <2>1, FieldValues DEF Records
  <2>3. RecordWaitStatus(r, p, report) = next
    BY <1>3, Zenon DEF RecordWaitStatus, IsTerminal
  <2> QED BY <2>2, <2>3
<1>4. CASE p \in r.members /\ IsTerminal(report)
  <2> DEFINE left == [r EXCEPT !.stopped = @ \ {p}, !.remaining = @ \ {p}]
  <2>1. r.stopped \ {p} \in SUBSET Pids /\ r.remaining \ {p} \in SUBSET Pids
    BY DEF Records
  <2>2. left \in Records
    BY <2>1 DEF Records
  <2>3. ToExitCode(report) \in Codes /\ (report.kind = "signaled" => report.n \in 0..64)
    BY ReportBounds DEF Codes
  <2>4. RecordTerminal(r, p, report) \in Records
    <3> DEFINE signal == IF report.kind = "signaled" THEN report.n ELSE 0
    <3>1. signal \in 0..64
      BY <2>3
    <3> HIDE DEF signal, left
    <3>2. [left EXCEPT !.exitStatus = ToExitCode(report), !.termSignal = signal] \in Records
      BY <2>2, <2>3, <3>1 DEF Records
    <3> QED BY <2>2, <3>2, Zenon DEF RecordTerminal, left, signal
  <2>5. RecordWaitStatus(r, p, report) = Settle(RecordTerminal(r, p, report))
    BY <1>4, Zenon DEF RecordWaitStatus, IsTerminal
  <2> QED BY <2>4, <2>5, SettleType
<1>5. report.kind = "stopped" \/ report.kind = "continued" \/ IsTerminal(report)
  BY ReportBounds DEF IsTerminal
<1> QED BY <1>1, <1>2, <1>3, <1>4, <1>5

LEMMA NotifyType ==
    ASSUME NEW r \in Records, NEW atPrompt \in BOOLEAN
    PROVE  NotifyStopped(r, atPrompt) \in Records /\ NotifyFinished(r, atPrompt) \in Records
<1>1. NotifyStopped(r, atPrompt) \in Records
  BY FieldValues DEF NotifyStopped, Records
<1>2. NotifyFinished(r, atPrompt) \in Records
  <2>1. Bump(r.doneMessages) \in 0..2
    BY DEF Bump, Records
  <2> QED BY <2>1, FieldValues DEF NotifyFinished, Records
<1> QED BY <1>1, <1>2

LEMMA AppliedType ==
    ASSUME NEW r \in Records, NEW p \in Pids, NEW report \in Reports, NEW managed \in BOOLEAN
    PROVE  Applied(r, p, report, managed) \in Records
BY RecordWaitStatusType, NotifyType DEF Applied

LEMMA CleanedType ==
    ASSUME NEW r \in Records, NEW atPrompt \in BOOLEAN
    PROVE  Cleaned(r, atPrompt) \in Records
BY NotifyType DEF Cleaned

(***************************************************************************)
(* The type invariant in parts.  A waiter of a job has a job to wait for.  *)
(***************************************************************************)
Processes == [Pids -> [life : Lives, report : Reports \cup {NoReport}]]
Shells == [at : Places, todo : Seq(Targets), force : BOOLEAN, operands : BOOLEAN]

ProcOK == proc \in Processes
JobsOK == jobs \in [JobIds -> Records]
StatusesOK == statuses \in [Pids -> Codes \cup {NoStatus}]
CountersOK == execTable \subseteq JobIds /\ nextJob \in Nat \ {0} /\ poll \subseteq Pids
ShellOK ==
    /\ shell \in Shells
    /\ shell.at \in {"exec", "fg"} => shell.todo # <<>> /\ Waited \in JobIds
    /\ lastExit \in Codes

TypeInv == MarksInv /\ ProcOK /\ JobsOK /\ StatusesOK /\ CountersOK /\ ShellOK

LEMMA TypeInvImpliesTypeOK == TypeInv => TypeOK
BY DEF TypeInv, TypeOK, MarksInv, RecencyMarks, ProcOK, JobsOK, StatusesOK, CountersOK, ShellOK,
       Processes, Shells

LEMMA TargetTypes ==
    /\ \A id \in JobIds : JobTarget(id) \in Targets
    /\ \A p \in Pids : PidTarget(p) \in Targets
    /\ \A t \in Targets : t.job # NoJob => t.job \in JobIds
    /\ \A t \in Targets : t.job = NoJob => t.pid \in Pids
BY NoJobIsNoId DEF JobTarget, PidTarget, Targets

LEMMA AtType == ASSUME NEW place \in Places PROVE At(place) \in Shells
BY DEF At, Shells

LEMMA TypeInvInit == Init => TypeInv
<1> SUFFICES ASSUME Init PROVE TypeInv
  OBVIOUS
<1>1. MarksInv
  BY MarksInvInit
<1>2. ProcOK
  BY DEF Init, ProcOK, Processes, Unborn, Lives
<1>3. JobsOK
  BY NoRecordType DEF Init, JobsOK
<1>4. StatusesOK /\ CountersOK
  BY DEF Init, StatusesOK, CountersOK
<1>5. ShellOK
  <2>1. shell \in Shells
    BY AtType DEF Init, Places
  <2>2. shell.at \notin {"exec", "fg"}
    BY DEF Init, At
  <2> QED BY <2>1, <2>2 DEF Init, ShellOK, Codes
<1> QED BY <1>1, <1>2, <1>3, <1>4, <1>5 DEF TypeInv

LEMMA ContinueAllType ==
    ASSUME NEW processes \in Processes, NEW set
    PROVE  ContinueAll(processes, set) \in Processes
<1>1. [life |-> "running", report |-> Continued] \in [life : Lives, report : Reports \cup {NoReport}]
  BY DEF Lives, Reports
<1> QED BY <1>1, Zenon DEF ContinueAll, Processes

\* Taking one report keeps processes, records and statuses what they are.
LEMMA TakeReportTypes ==
    ASSUME ProcOK, JobsOK, StatusesOK, CountersOK, table \subseteq JobIds,
           NEW p \in Pids, TakeReport(p)
    PROVE  ProcOK' /\ JobsOK' /\ StatusesOK' /\ proc[p].report \in Reports
<1> DEFINE report == proc[p].report
<1>1. report \in Reports
  BY DEF TakeReport, HasReport, ProcOK, Processes
<1>2. ProcOK'
  BY DEF TakeReport, Collect, ProcOK, Processes, Lives
<1>3. StatusesOK'
  <2>1. ToExitCode(report) \in Codes
    BY <1>1, ReportBounds DEF Codes
  <2> HIDE DEF report
  <2>2. Retain(p, ToExitCode(report)) => StatusesOK'
    BY <2>1, Zenon DEF Retain, StatusesOK
  <2> QED BY <2>2 DEF TakeReport, HandleChildStatus, StatusesOK, report
<1>4. JobsOK'
  <2>1. CASE Owners(p) = {}
    BY <2>1 DEF TakeReport, HandleChildStatus, JobsOK
  <2>2. CASE Owners(p) # {}
    <3>1. PICK id \in Owners(p) :
             jobs' = [jobs EXCEPT ![id] = Applied(@, p, report, Managed(p) # {})]
      BY <2>2 DEF TakeReport, HandleChildStatus
    <3>2. id \in JobIds
      BY DEF Owners, Managed, CountersOK
    <3>3. Applied(jobs[id], p, report, Managed(p) # {}) \in Records
      BY <1>1, <3>2, AppliedType DEF JobsOK
    <3> HIDE DEF report
    <3> QED BY <3>1, <3>2, <3>3 DEF JobsOK
  <2> QED BY <2>1, <2>2
<1> QED BY <1>1, <1>2, <1>3, <1>4

\* What a waiter answers with is an exit code.
LEMMA ResultType == ASSUME JobsOK, NEW id \in JobIds PROVE Result(id) \in Codes
<1>1. jobs[id].exitStatus \in Codes /\ jobs[id].stopSignal \in 0..64
  BY DEF JobsOK, Records
<1> QED BY <1>1 DEF Result, Codes, SIGTSTP

LEMMA AnswerTypes ==
    ASSUME JobsOK, StatusesOK, NEW target \in Targets, TargetReady(target), Answer(target)
    PROVE  lastExit' \in Codes /\ StatusesOK'
<1>1. CASE target.job # NoJob
  <2>1. lastExit' \in Codes
    BY <1>1, ResultType, TargetTypes DEF Answer
  <2>2. StatusesOK'
    BY <1>1 DEF Answer, FinishJob, StatusesOK
  <2> QED BY <2>1, <2>2
<1>2. CASE target.job = NoJob
  <2>1. target.pid \in Pids /\ statuses[target.pid] # NoStatus
    BY <1>2, TargetTypes DEF TargetReady
  <2> QED BY <1>2, <2>1 DEF Answer, StatusesOK
<1> QED BY <1>1, <1>2

\* A launched pipeline has a last member.
LEMMA LastOfType ==
    ASSUME NEW size \in 1..MaxMembers, Cardinality(Fresh) >= size
    PROVE  /\ NextPids(size) \subseteq Pids /\ LastOf(NextPids(size)) \in Pids
           /\ LastOf(NextPids(size)) \in NextPids(size)
<1>1. Fresh \subseteq Pids /\ NextPids(size) \subseteq Pids
  BY DEF Fresh, NextPids
<1>2. Fresh # {}
  BY FS_EmptySet, JobBounds
<1>3. Fresh \subseteq Nat
  BY <1>1, PidBound DEF Pids
<1>4. PICK p \in Fresh : \A q \in Fresh : p <= q
  BY <1>2, <1>3, LeastExists
<1>5. {q \in Fresh : q < p} = {}
  <2>1. \A q \in Fresh : q \in Nat /\ p \in Nat /\ p <= q
    BY <1>3, <1>4
  <2>2. \A q \in Fresh : ~(q < p)
    BY <2>1
  <2> QED BY <2>2
<1>6. p \in NextPids(size)
  <2>1. Cardinality({q \in Fresh : q < p}) = 0
    BY <1>5, FS_EmptySet
  <2>2. Cardinality({q \in Fresh : q < p}) < size
    BY <2>1, JobBounds
  <2> QED BY <1>4, <2>2 DEF NextPids
<1>7. \E m \in NextPids(size) : \A k \in NextPids(size) : m >= k
  BY <1>1, <1>6, GreatestExists, PidBound DEF Pids
<1> QED BY <1>1, <1>7 DEF LastOf, Pids

(***************************************************************************)
(* Every action preserves the typed parts; MarksInv is preserved already.  *)
(***************************************************************************)
TypeParts == ProcOK /\ JobsOK /\ StatusesOK /\ CountersOK /\ ShellOK

LEMMA EnvironmentTypes == ASSUME TypeInv, Environment PROVE TypeParts'
<1> PICK p \in Pids : ChildExits(p) \/ ChildStops(p) \/ ChildContinues(p)
  BY DEF Environment
<1>1. UNCHANGED <<jobs, table, execTable, nextJob, current, previous, statuses, poll, shell, lastExit>>
  BY DEF ChildExits, ChildStops, ChildContinues
<1>2. ProcOK'
  <2>1. CASE ChildExits(p)
    BY <2>1 DEF ChildExits, TypeInv, ProcOK, Processes, Lives, Reports
  <2>2. CASE ChildStops(p)
    BY <2>2 DEF ChildStops, TypeInv, ProcOK, Processes, Lives, Reports
  <2>3. CASE ChildContinues(p)
    BY <2>3, ContinueAllType DEF ChildContinues, TypeInv, ProcOK
  <2> QED BY <2>1, <2>2, <2>3
<1> QED BY <1>1, <1>2 DEF TypeInv, TypeParts, JobsOK, StatusesOK, CountersOK, ShellOK, Waited

LEMMA LaunchesTypes == ASSUME TypeInv, Launches PROVE TypeParts'
<1> PICK size \in 1..MaxMembers, background \in BOOLEAN, auto \in AutoBackgrounds :
       Launch(size, background, auto)
  BY DEF Launches
<1>1. auto \in BOOLEAN
  BY ModesAreBooleans
<1> DEFINE members == NextPids(size)
<1>2. members \in SUBSET Pids /\ LastOf(members) \in Pids \cup {NoPid}
  BY LastOfType DEF Launch
<1>3. nextJob \in JobIds
  BY DEF Launch
<1>4. ProcOK'
  <2>1. [life |-> "running", report |-> NoReport] \in [life : Lives, report : Reports \cup {NoReport}]
    BY DEF Lives
  <2>2. proc' = [p \in Pids |-> IF p \in members THEN [life |-> "running", report |-> NoReport]
                                 ELSE proc[p]]
    BY DEF Launch
  <2> HIDE DEF members
  <2> QED BY <2>1, <2>2, Zenon DEF TypeInv, ProcOK, Processes
<1>5. JobsOK'
  <2>1. NewRecord(members, LastOf(members), background, auto) \in Records
    BY <1>1, <1>2, NewRecordType
  <2>2. jobs' = [jobs EXCEPT ![nextJob] = NewRecord(members, LastOf(members), background, auto)]
    BY DEF Launch
  <2> HIDE DEF members
  <2> QED BY <1>3, <2>1, <2>2 DEF TypeInv, JobsOK
<1>6. StatusesOK' /\ CountersOK'
  BY <1>3 DEF Launch, TypeInv, StatusesOK, CountersOK
<1>7. ShellOK'
  <2>1. CASE shell' = At("line") /\ lastExit' = 0
    <3>1. shell' \in Shells
      BY <2>1, AtType DEF Places
    <3> QED BY <2>1, <3>1 DEF ShellOK, At, Codes
  <2>2. CASE shell' = [At("exec") EXCEPT !.todo = <<JobTarget(nextJob)>>] /\ lastExit' = 0
    <3>1. JobTarget(nextJob) \in Targets
      BY <1>3, TargetTypes
    <3>2. shell' = [at |-> "exec", todo |-> <<JobTarget(nextJob)>>, force |-> FALSE, operands |-> FALSE]
      BY <2>2 DEF At
    <3>3. shell' \in Shells
      BY <3>1, <3>2 DEF Shells, Places
    <3>4. shell'.todo # <<>> /\ Head(shell'.todo).job = nextJob
      BY <3>2 DEF JobTarget
    <3> QED BY <1>3, <2>2, <3>3, <3>4 DEF ShellOK, Waited, Codes
  <2> QED BY <2>1, <2>2 DEF Launch
<1> QED BY <1>4, <1>5, <1>6, <1>7 DEF TypeParts

\* Arriving at a place where nothing is waited for.
LEMMA ArriveTypes ==
    ASSUME NEW place \in Places \ {"exec", "fg"}, shell' = At(place), lastExit' \in Codes
    PROVE  ShellOK'
<1>1. shell' \in Shells
  BY AtType
<1> QED BY <1>1 DEF ShellOK, At

LEMMA ReturnTypes == ASSUME NEW status \in Codes, Return(status) PROVE ShellOK'
BY ArriveTypes DEF Return, Places

LEMMA SmallCodes == 0 \in Codes /\ 1 \in Codes /\ 127 \in Codes
BY DEF Codes

LEMMA MainLoopTypes == ASSUME TypeInv, MainLoop PROVE TypeParts'
<1>1. ProcOK' /\ JobsOK' /\ StatusesOK'
  BY DEF MainLoop, StartTick, StartIdle, ReadLine, EndLine, StartBuiltin, CleanupDone, GoPolling, Go,
         TypeInv, ProcOK, JobsOK, StatusesOK
<1>2. CountersOK'
  <2>1. poll' = poll \/ poll' = ManagedLive
    BY DEF MainLoop, StartTick, StartIdle, ReadLine, EndLine, StartBuiltin, CleanupDone, GoPolling, Go
  <2>2. ManagedLive \subseteq Pids
    <3>1. \A id \in table : jobs[id].remaining \subseteq Pids
      BY DEF TypeInv, MarksInv, JobsOK, Records
    <3> QED BY <3>1 DEF ManagedLive
  <2>3. execTable' = execTable /\ nextJob' = nextJob
    BY DEF MainLoop, StartTick, StartIdle, ReadLine, EndLine, StartBuiltin, CleanupDone, GoPolling, Go
  <2> QED BY <2>1, <2>2, <2>3 DEF TypeInv, CountersOK
<1>3. ShellOK'
  <2>1. \E place \in {"tick", "idle", "line", "loop", "builtin", "prompt"} : shell' = At(place)
    BY DEF MainLoop, StartTick, StartIdle, ReadLine, EndLine, StartBuiltin, CleanupDone, GoPolling, Go
  <2>2. lastExit' \in Codes
    BY SmallCodes DEF MainLoop, StartTick, StartIdle, ReadLine, EndLine, StartBuiltin, CleanupDone,
                      GoPolling, Go, TypeInv, ShellOK
  <2> QED BY <2>1, <2>2, ArriveTypes DEF Places
<1> QED BY <1>1, <1>2, <1>3 DEF TypeParts

\* Steps that take a report and leave the thread where it is.
LEMMA ReportStepTypes ==
    ASSUME TypeInv, NEW p \in Pids, TakeReport(p), UNCHANGED <<execTable, nextJob, shell, lastExit>>,
           poll' \subseteq poll
    PROVE  TypeParts'
<1>1. ProcOK' /\ JobsOK' /\ StatusesOK'
  BY TakeReportTypes DEF TypeInv, MarksInv
<1>2. CountersOK' /\ ShellOK'
  BY DEF TypeInv, CountersOK, ShellOK, Waited
<1> QED BY <1>1, <1>2 DEF TypeParts

LEMMA PollsTypes == ASSUME TypeInv, Polls PROVE TypeParts'
<1> PICK p \in Pids : PollChild(p)
  BY DEF Polls
<1>1. CASE HasReport(p)
  BY <1>1, ReportStepTypes DEF PollChild
<1>2. CASE ~HasReport(p)
  BY <1>2 DEF PollChild, TypeInv, TypeParts, ProcOK, JobsOK, StatusesOK, CountersOK, ShellOK, Waited
<1> QED BY <1>1, <1>2

LEMMA InterruptsTypes == ASSUME TypeInv, Interrupts PROVE TypeParts'
BY ReportStepTypes DEF Interrupts, ReapPending, WaitInterrupted

LEMMA CleansTypes == ASSUME TypeInv, Cleans PROVE TypeParts'
<1> PICK id \in table : CleanJob(id)
  BY DEF Cleans
<1>1. id \in JobIds
  BY DEF TypeInv, MarksInv
<1>2. JobsOK'
  <2>1. Cleaned(jobs[id], shell.at = "tick") \in Records
    BY <1>1, CleanedType DEF TypeInv, JobsOK
  <2> QED BY <1>1, <2>1 DEF CleanJob, TypeInv, JobsOK
<1>3. ProcOK' /\ StatusesOK' /\ CountersOK' /\ ShellOK'
  BY DEF CleanJob, TypeInv, ProcOK, StatusesOK, CountersOK, ShellOK, Waited
<1> QED BY <1>2, <1>3 DEF TypeParts

\* A builtin that stores one record and returns.
LEMMA StoreRecordTypes ==
    ASSUME JobsOK, NEW id \in JobIds, NEW r \in Records, jobs' = [jobs EXCEPT ![id] = r]
    PROVE  JobsOK'
BY DEF JobsOK

\* The updates builtins make keep a record a record.
LEMMA UpdateTypes ==
    ASSUME NEW r \in Records, NEW ground \in BOOLEAN, NEW signal \in 0..64
    PROVE  /\ [r EXCEPT !.notified = TRUE] \in Records
           /\ [r EXCEPT !.suppress = TRUE] \in Records
           /\ [r EXCEPT !.hupProtected = TRUE] \in Records
           /\ [r EXCEPT !.background = ground, !.notified = FALSE] \in Records
           /\ [r EXCEPT !.background = ground, !.deferStop = FALSE] \in Records
           /\ [r EXCEPT !.deferStop = FALSE] \in Records
           /\ AfterStop(r, signal) \in Records
<1>1. [r EXCEPT !.notified = TRUE] \in Records
  BY FieldValues DEF Records
<1>2. [r EXCEPT !.suppress = TRUE] \in Records
  BY FieldValues DEF Records
<1>3. [r EXCEPT !.hupProtected = TRUE] \in Records
  BY FieldValues DEF Records
<1>4. [r EXCEPT !.background = ground, !.notified = FALSE] \in Records
  BY FieldValues DEF Records
<1>5. [r EXCEPT !.background = ground, !.deferStop = FALSE] \in Records
  BY FieldValues DEF Records
<1>6. [r EXCEPT !.deferStop = FALSE] \in Records
  BY FieldValues DEF Records
<1>7. AfterStop(r, signal) \in Records
  BY FieldValues DEF AfterStop, Records
<1> QED BY <1>1, <1>2, <1>3, <1>4, <1>5, <1>6, <1>7

LEMMA ResumeTypes ==
    ASSUME ProcOK, JobsOK, NEW id \in JobIds, NEW set, NEW r \in Records, Resume(id, set, r)
    PROVE  ProcOK' /\ JobsOK'
<1>1. ProcOK'
  BY ContinueAllType DEF Resume, ProcOK
<1>2. JobsOK'
  BY StoreRecordTypes DEF Resume
<1> QED BY <1>1, <1>2

LEMMA BuiltinTypes == ASSUME TypeInv, Builtin PROVE TypeParts'
<1> USE DEF TypeInv, TypeParts
<1>1. CASE NoEffect
  <2>1. ShellOK'
    BY <1>1, ReturnTypes, SmallCodes DEF NoEffect
  <2> QED BY <1>1, <2>1 DEF NoEffect, ProcOK, JobsOK, StatusesOK, CountersOK
<1>2. ASSUME NEW listed \in {table} \cup {{id} : id \in table}, Jobs(listed) PROVE TypeParts'
  <2>1. \A id \in JobIds : [jobs[id] EXCEPT !.notified = TRUE] \in Records
    BY UpdateTypes, FieldValues DEF JobsOK
  <2>2. JobsOK'
    BY <1>2, <2>1 DEF Jobs, JobsOK
  <2>3. ShellOK'
    BY <1>2, ReturnTypes, SmallCodes DEF Jobs
  <2> QED BY <1>2, <2>2, <2>3 DEF Jobs, ProcOK, StatusesOK, CountersOK
<1>3. ASSUME NEW id \in table PROVE id \in JobIds /\ jobs[id] \in Records
  BY <1>3 DEF MarksInv, JobsOK
<1>4. ASSUME NEW id \in table, Bg(id) PROVE TypeParts'
  <2>1. [MarkRunning(jobs[id]) EXCEPT !.background = TRUE, !.notified = FALSE] \in Records
    BY <1>3, MarkRunningType, UpdateTypes, FieldValues
  <2>2. ProcOK' /\ JobsOK'
    BY <1>3, <1>4, <2>1, ResumeTypes DEF Bg
  <2>3. ShellOK'
    BY <1>4, ReturnTypes, SmallCodes DEF Bg
  <2> QED BY <1>4, <2>2, <2>3 DEF Bg, StatusesOK, CountersOK
<1>5. ASSUME NEW id \in table, Fg(id) PROVE TypeParts'
  <2>1. [MarkRunning(jobs[id]) EXCEPT !.background = FALSE, !.notified = FALSE] \in Records
    BY <1>3, MarkRunningType, UpdateTypes, FieldValues
  <2>2. ProcOK' /\ JobsOK'
    BY <1>3, <1>5, <2>1, ResumeTypes DEF Fg
  <2>3. ShellOK'
    <3>1. shell' = [at |-> "fg", todo |-> <<JobTarget(id)>>, force |-> FALSE, operands |-> FALSE]
      BY <1>5 DEF Fg, At
    <3>2. JobTarget(id) \in Targets
      BY <1>3, TargetTypes
    <3>3. shell' \in Shells
      BY <3>1, <3>2 DEF Shells, Places
    <3>4. shell'.todo # <<>> /\ Head(shell'.todo).job = id
      BY <3>1 DEF JobTarget
    <3> QED BY <1>3, <1>5, <3>3, <3>4 DEF Fg, ShellOK, Waited
  <2> QED BY <1>5, <2>2, <2>3 DEF Fg, StatusesOK, CountersOK
<1>6. ASSUME NEW id \in table, FgCompleted(id) PROVE TypeParts'
  <2>1. JobsOK'
    BY <1>3, <1>6, NotifyType, StoreRecordTypes DEF FgCompleted
  <2>2. ShellOK'
    BY <1>6, ReturnTypes, SmallCodes DEF FgCompleted
  <2> QED BY <1>6, <2>1, <2>2 DEF FgCompleted, ProcOK, StatusesOK, CountersOK
<1>7. ASSUME NEW id \in table, NEW targets, KillStop(id, targets) PROVE TypeParts'
  <2>1. PICK signal \in StopSignals : jobs' = [jobs EXCEPT ![id] = AfterStop(@, signal)]
    BY <1>7 DEF KillStop
  <2>2. signal \in 0..64
    BY SignalsAreNumbers
  <2>3. AfterStop(jobs[id], signal) \in Records
    BY <1>3, <2>2, UpdateTypes, FieldValues
  <2>4. JobsOK'
    BY <1>3, <2>1, <2>3, StoreRecordTypes
  <2>5. ShellOK'
    BY <1>7, ReturnTypes, SmallCodes DEF KillStop
  <2> QED BY <1>7, <2>4, <2>5 DEF KillStop, ProcOK, StatusesOK, CountersOK
<1>8. ASSUME NEW id \in table, NEW targets, KillContinue(id, targets) PROVE TypeParts'
  <2>1. ProcOK' /\ JobsOK'
    BY <1>3, <1>8, MarkRunningType, ResumeTypes DEF KillContinue
  <2>2. ShellOK'
    BY <1>8, ReturnTypes, SmallCodes DEF KillContinue
  <2> QED BY <1>8, <2>1, <2>2 DEF KillContinue, StatusesOK, CountersOK
<1>9. ASSUME NEW id \in table, Kill(id) PROVE TypeParts'
  BY <1>7, <1>8, <1>9 DEF Kill
<1>10. ASSUME NEW id \in table, Disown(id) PROVE TypeParts'
  <2>1. JobsOK'
    BY <1>3, <1>10, NoRecordType, StoreRecordTypes DEF Disown
  <2>2. ShellOK'
    BY <1>10, ReturnTypes, SmallCodes DEF Disown, ShellOK, Waited
  <2> QED BY <1>10, <2>1, <2>2 DEF Disown, ProcOK, StatusesOK, CountersOK
<1>11. ASSUME NEW id \in table, ProtectFromHup(id) PROVE TypeParts'
  <2>1. [jobs[id] EXCEPT !.hupProtected = TRUE] \in Records
    BY <1>3, UpdateTypes, FieldValues
  <2>2. JobsOK'
    BY <1>3, <1>11, <2>1, StoreRecordTypes DEF ProtectFromHup
  <2>3. ShellOK'
    BY <1>11, ReturnTypes, SmallCodes DEF ProtectFromHup
  <2> QED BY <1>11, <2>2, <2>3 DEF ProtectFromHup, ProcOK, StatusesOK, CountersOK
<1> QED BY <1>1, <1>2, <1>4, <1>5, <1>6, <1>9, <1>10, <1>11 DEF Builtin

LEMMA WaitTypes == ASSUME TypeInv, Wait PROVE TypeParts'
<1>1. PICK place \in {"wait", "waitn"}, force \in BOOLEAN, list \in AllJobs \cup OperandLists,
           operands \in BOOLEAN : StartWait(place, force, list, operands)
  BY DEF Wait
<1>2. Cardinality(table) \in Nat
  <2>1. IsFiniteSet(JobIds)
    BY FS_Interval, JobBounds DEF JobIds
  <2> QED BY <2>1, FS_Subset, FS_CardinalityType DEF TypeInv, MarksInv
<1>3. list \in Seq(Targets)
  <2>1. CASE list \in AllJobs
    <3>1. {JobTarget(id) : id \in table} \subseteq Targets
      BY TargetTypes DEF TypeInv, MarksInv
    <3>2. list \in [1..Cardinality(table) -> Targets]
      BY <2>1, <3>1 DEF AllJobs
    <3> QED BY <1>2, <3>2
  <2>2. CASE list \in OperandLists
    <3>1. Operands \subseteq Targets
      <4>1. \A p \in Pids : Operand(p) \in Targets
        BY TargetTypes DEF Operand, Managed, TypeInv, MarksInv
      <4> QED BY <4>1, TargetTypes DEF Operands, TypeInv, MarksInv
    <3>2. PICK n \in 1..MaxOperands : list \in [1..n -> Operands]
      BY <2>2 DEF OperandLists
    <3>3. n \in Nat /\ list \in [1..n -> Targets]
      BY <3>1, <3>2, JobBounds
    <3> QED BY <3>3
  <2> QED BY <2>1, <2>2
<1>4. JobsOK'
  <2>1. \A id \in JobIds : [jobs[id] EXCEPT !.suppress = TRUE] \in Records
    BY UpdateTypes, FieldValues DEF TypeInv, JobsOK
  <2>2. jobs' = [id \in JobIds |-> IF \E i \in DOMAIN list : list[i].job = id
                                   THEN [jobs[id] EXCEPT !.suppress = TRUE] ELSE jobs[id]]
    BY <1>1 DEF StartWait, Suppress
  <2> QED BY <2>1, <2>2, Zenon DEF TypeInv, JobsOK
<1>5. ShellOK'
  <2>1. shell' \in Shells
    BY <1>1, <1>3 DEF StartWait, Shells, Places
  <2> QED BY <1>1, <2>1, SmallCodes DEF StartWait, ShellOK
<1> QED BY <1>1, <1>4, <1>5 DEF StartWait, TypeInv, TypeParts, ProcOK, StatusesOK, CountersOK

LEMMA ExecTypes == ASSUME TypeInv, ExecStopped \/ ExecCompleted PROVE TypeParts'
<1> USE DEF TypeInv, TypeParts
<1>1. Waited \in JobIds /\ jobs[Waited] \in Records
  BY DEF ExecStopped, ExecCompleted, ShellOK, JobsOK
<1>2. CASE ExecStopped
  <2> DEFINE record == jobs[Waited]
             told == NotifyStopped([record EXCEPT !.deferStop = FALSE], FALSE)
             moved == [MarkRunning(record) EXCEPT !.background = TRUE, !.deferStop = FALSE]
  <2>1. told \in Records /\ moved \in Records
    BY <1>1, UpdateTypes, MarkRunningType, NotifyType, FieldValues
  <2>2. ProcOK'
    BY <1>2, ContinueAllType DEF ExecStopped, ProcOK
  <2>3. jobs' = [jobs EXCEPT ![Waited] = moved] \/ jobs' = [jobs EXCEPT ![Waited] = told]
    BY <1>2 DEF ExecStopped
  <2>4. JobsOK'
    <3>1. CASE jobs' = [jobs EXCEPT ![Waited] = moved]
      BY <1>1, <2>1, <3>1, StoreRecordTypes, Zenon
    <3>2. CASE jobs' = [jobs EXCEPT ![Waited] = told]
      BY <1>1, <2>1, <3>2, StoreRecordTypes, Zenon
    <3> QED BY <2>3, <3>1, <3>2
  <2>5. lastExit' \in {0, 128 + SIGTSTP, 128 + record.stopSignal}
    BY <1>2 DEF ExecStopped
  <2>6. lastExit' \in Codes
    <3>1. record.stopSignal \in 0..64
      BY <1>1 DEF Records
    <3> QED BY <2>5, <3>1 DEF Codes, SIGTSTP
  <2>7. ShellOK'
    BY <1>2, <2>6, ArriveTypes DEF ExecStopped, Places
  <2> QED BY <1>2, <2>2, <2>4, <2>7 DEF ExecStopped, StatusesOK, CountersOK
<1>3. CASE ExecCompleted
  <2>1. JobsOK'
    BY <1>1, <1>3, NoRecordType, StoreRecordTypes DEF ExecCompleted
  <2>2. jobs[Waited].exitStatus \in Codes
    BY <1>1 DEF Records
  <2>3. ShellOK'
    BY <1>3, <2>2, ArriveTypes DEF ExecCompleted, Places
  <2> QED BY <1>3, <2>1, <2>3 DEF ExecCompleted, ProcOK, StatusesOK, CountersOK
<1> QED BY <1>2, <1>3

LEMMA FgDoneTypes == ASSUME TypeInv, FgDone PROVE TypeParts'
<1> USE DEF TypeInv, TypeParts
<1>1. Waited \in JobIds /\ jobs[Waited] \in Records
  BY DEF FgDone, ShellOK, JobsOK
<1>2. JobsOK'
  <2>1. NotifyStopped(jobs[Waited], FALSE) \in Records /\ NotifyFinished(jobs[Waited], FALSE) \in Records
    BY <1>1, NotifyType
  <2> QED BY <1>1, <2>1, StoreRecordTypes DEF FgDone
<1>3. ShellOK'
  BY <1>1, ResultType, ReturnTypes DEF FgDone
<1> QED BY <1>2, <1>3 DEF FgDone, ProcOK, StatusesOK, CountersOK

\* The head of a nonempty list of targets is a target, and the rest are.
LEMMA HeadTypes ==
    ASSUME ShellOK, shell.todo # <<>>
    PROVE  Head(shell.todo) \in Targets /\ Tail(shell.todo) \in Seq(Targets)
BY DEF ShellOK, Shells

LEMMA NextTargetTypes ==
    ASSUME ShellOK, shell.at = "wait", shell.todo # <<>>, NextTarget, lastExit' \in Codes
    PROVE  ShellOK'
<1>1. shell' \in Shells /\ shell'.at = "wait"
  BY HeadTypes DEF NextTarget, ShellOK, Shells
<1> QED BY <1>1 DEF ShellOK

LEMMA WaitBuiltinTypes ==
    ASSUME TypeInv, WaitAnswered \/ WaitPidReport \/ NotAChild \/ WaitDone
    PROVE  TypeParts'
<1> USE DEF TypeInv, TypeParts
<1>1. CASE WaitAnswered
  <2>1. shell.todo # <<>> /\ TargetReady(Head(shell.todo))
    BY <1>1 DEF WaitAnswered, SomeReady, ShellOK, Shells
  <2>2. lastExit' \in Codes /\ StatusesOK'
    BY <1>1, <2>1, HeadTypes, AnswerTypes DEF WaitAnswered
  <2>3. ShellOK'
    BY <1>1, <2>1, <2>2, NextTargetTypes DEF WaitAnswered
  <2> QED BY <1>1, <2>2, <2>3 DEF WaitAnswered, ProcOK, JobsOK, CountersOK
<1>2. CASE WaitPidReport
  <2> DEFINE p == Head(shell.todo).pid
  <2>1. p \in Pids
    BY <1>2, HeadTypes, TargetTypes DEF WaitPidReport, Waited
  <2>2. ProcOK' /\ JobsOK' /\ StatusesOK' /\ proc[p].report \in Reports
    BY <1>2, <2>1, TakeReportTypes DEF WaitPidReport, MarksInv
  <2>3. lastExit' \in Codes
    <3> DEFINE report == proc[p].report
    <3>0. report \in Reports
      BY <2>2
    <3>2. lastExit' = IF report.kind = "stopped" THEN 128 + report.n ELSE ToExitCode(report)
      BY <1>2 DEF WaitPidReport
    <3> HIDE DEF report, TypeInv, TypeParts
    <3>1. ToExitCode(report) \in 0..255 /\ report.n \in 0..255
      BY <3>0, ReportBounds, Zenon
    <3> QED BY <3>1, <3>2 DEF Codes
  <2>4. ShellOK'
    BY <1>2, <2>3, NextTargetTypes DEF WaitPidReport
  <2> QED BY <1>2, <2>2, <2>4 DEF WaitPidReport, CountersOK
<1>3. CASE NotAChild
  <2>1. ShellOK'
    BY <1>3, ReturnTypes, SmallCodes DEF NotAChild
  <2> QED BY <1>3, <2>1 DEF NotAChild, ProcOK, JobsOK, StatusesOK, CountersOK
<1>4. CASE WaitDone
  <2>1. ShellOK'
    BY <1>4, ReturnTypes, SmallCodes DEF WaitDone, ShellOK
  <2> QED BY <1>4, <2>1 DEF WaitDone, ProcOK, JobsOK, StatusesOK, CountersOK
<1> QED BY <1>1, <1>2, <1>3, <1>4

LEMMA WaitNextTypes ==
    ASSUME TypeInv,
           WaitNextAnswered \/ WaitNextNoChild \/ \E p \in Pids : WaitNextReport(p)
    PROVE  TypeParts'
<1> USE DEF TypeInv, TypeParts
<1>1. CASE WaitNextAnswered
  <2>1. PICK i \in 1..Len(shell.todo) : TargetReady(shell.todo[i]) /\ Answer(shell.todo[i])
    BY <1>1 DEF WaitNextAnswered
  <2>2. shell.todo[i] \in Targets
    BY DEF ShellOK, Shells
  <2>3. lastExit' \in Codes /\ StatusesOK'
    BY <2>1, <2>2, AnswerTypes
  <2>4. ShellOK'
    BY <1>1, <2>3, ArriveTypes DEF WaitNextAnswered, Places
  <2> QED BY <1>1, <2>3, <2>4 DEF WaitNextAnswered, ProcOK, JobsOK, CountersOK
<1>2. CASE WaitNextNoChild
  <2>1. ShellOK'
    BY <1>2, ReturnTypes, SmallCodes DEF WaitNextNoChild
  <2> QED BY <1>2, <2>1 DEF WaitNextNoChild, ProcOK, JobsOK, StatusesOK, CountersOK
<1>3. ASSUME NEW p \in Pids, WaitNextReport(p) PROVE TypeParts'
  <2>1. ProcOK' /\ JobsOK' /\ StatusesOK' /\ proc[p].report \in Reports
    BY <1>3, TakeReportTypes DEF WaitNextReport, MarksInv
  <2>2. ToExitCode(proc[p].report) \in Codes /\ 128 + StopSignalOf(proc[p].report) \in Codes
    <3> DEFINE report == proc[p].report
    <3>1. report \in Reports
      BY <2>1
    <3> HIDE DEF report, TypeInv, TypeParts
    <3>2. ToExitCode(report) \in Codes /\ 128 + StopSignalOf(report) \in Codes
      BY <3>1, ReportBounds DEF Codes, StopSignalOf
    <3> QED BY <3>2 DEF report
  <2>3. \/ Return(ToExitCode(proc[p].report))
        \/ Return(128 + StopSignalOf(proc[p].report))
        \/ UNCHANGED <<shell, lastExit>>
    BY <1>3 DEF WaitNextReport
  <2>4. ShellOK'
    BY <2>2, <2>3, ReturnTypes DEF ShellOK, Waited
  <2> QED BY <1>3, <2>1, <2>4 DEF WaitNextReport, CountersOK
<1> QED BY <1>1, <1>2, <1>3

LEMMA WaitsTypes == ASSUME TypeInv, Waits PROVE TypeParts'
<1>1. CASE ExecStopped \/ ExecCompleted
  BY <1>1, ExecTypes
<1>2. CASE FgDone
  BY <1>2, FgDoneTypes
<1>3. CASE WaitAnswered \/ WaitPidReport \/ NotAChild \/ WaitDone
  BY <1>3, WaitBuiltinTypes
<1>4. CASE WaitNextAnswered \/ WaitNextNoChild \/ \E p \in Pids : WaitNextReport(p)
  BY <1>4, WaitNextTypes
<1>5. CASE \E p \in Pids : ExecReport(p) \/ WaitJobReport(p)
  BY <1>5, ReportStepTypes DEF ExecReport, WaitJobReport
<1> QED BY <1>1, <1>2, <1>3, <1>4, <1>5 DEF Waits

LEMMA TypeInvNext == TypeInv /\ [Next]_vars => TypeInv'
<1> SUFFICES ASSUME TypeInv, [Next]_vars PROVE TypeInv'
  OBVIOUS
<1>1. MarksInv'
  BY MarksInvNext DEF TypeInv
<1>2. TypeParts'
  <2>1. CASE UNCHANGED vars
    BY <2>1 DEF vars, TypeInv, TypeParts, ProcOK, JobsOK, StatusesOK, CountersOK, ShellOK, Waited
  <2> QED BY <2>1, EnvironmentTypes, LaunchesTypes, MainLoopTypes, PollsTypes, CleansTypes,
             BuiltinTypes, WaitTypes, WaitsTypes, InterruptsTypes DEF Next
<1> QED BY <1>1, <1>2 DEF TypeInv, TypeParts

\* Every variable keeps its type through every behaviour.
THEOREM TypeCorrect == Spec => []TypeOK
BY TypeInvInit, TypeInvNext, TypeInvImpliesTypeOK, PTL DEF Spec

(***************************************************************************)
(* Accounting: what every record of the execution table says of its        *)
(* members, against the kernel.  No single one of the invariants of        *)
(* JobControl is inductive; their conjunction is, once it says which       *)
(* records exist, that their members are disjoint, and that a job out of   *)
(* the listing but not out of the execution table has finished.            *)
(***************************************************************************)
UnreapedIn(process) == process.life \in {"running", "stopped", "dead"}
AliveIn(process) == process.life \in {"running", "stopped"}

\* A dead child has a terminal report, read or not; a live one has none.
KernelOK ==
    \A p \in Pids :
        /\ proc[p].life \in {"dead", "reaped"} => IsTerminal(proc[p].report)
        /\ AliveIn(proc[p]) => ~IsTerminal(proc[p].report)

\* The result a member leaves behind.
ResultOf(r, report) ==
    /\ r.exitStatus = ToExitCode(report)
    /\ r.termSignal = (IF report.kind = "signaled" THEN report.n ELSE 0)

\* A record that agrees with the kernel.
Truthful(r, processes) ==
    /\ r.last \in r.members
    /\ \A p \in r.members : processes[p].life # "unborn"
    /\ r.remaining = {p \in r.members : UnreapedIn(processes[p])}
    /\ r.stopped \subseteq r.remaining
    /\ Completed(r) <=> r.remaining = {}
    /\ r.last \notin r.remaining => ResultOf(r, processes[r.last].report)
    /\ Completed(r) => (r.state = "terminated" <=> r.termSignal # 0)

\* The message that a job finished was given at most once, and then for good.
ToldOnce(r) ==
    \/ r.doneMessages = 0
    \/ r.doneMessages = 1 /\ r.notified /\ Completed(r)

RecordsTrue == \A id \in execTable : Truthful(jobs[id], proc)
NoOthers == \A id \in JobIds \ execTable : jobs[id] = NoRecord
Listed == /\ table \subseteq execTable
          /\ \A id \in execTable \ table : Completed(jobs[id])
Numbered == \A id \in execTable : id < nextJob
Disjoint == \A id, other \in execTable : id # other => jobs[id].members \cap jobs[other].members = {}
AllToldOnce == \A id \in JobIds : ToldOnce(jobs[id])

AccountInv ==
    /\ KernelOK
    /\ RecordsTrue
    /\ NoOthers
    /\ Listed
    /\ Numbered
    /\ Disjoint
    /\ AllToldOnce
    /\ RetainedIsTrue

(***************************************************************************)
(* What the shell does to a record on its own, without a report: the       *)
(* members and the result stay, and a finished job stays finished.         *)
(***************************************************************************)
Mild(r, r2) ==
    /\ r2.members = r.members /\ r2.remaining = r.remaining /\ r2.last = r.last
    /\ r2.exitStatus = r.exitStatus /\ r2.termSignal = r.termSignal
    /\ r2.stopped \subseteq r.stopped
    /\ r2.state = r.state \/ (~Completed(r) /\ ~Completed(r2))
    /\ ToldOnce(r) => ToldOnce(r2)

\* Children live and die, or are stopped and continued, but nobody reaps them.
ChildrenStep(processes, processes2) ==
    \A p \in Pids :
        \/ processes2[p] = processes[p]
        \/ /\ AliveIn(processes[p]) /\ UnreapedIn(processes2[p])
           /\ IsTerminal(processes2[p].report) <=> processes2[p].life = "dead"

LEMMA MildSame == \A r : Mild(r, r)
BY DEF Mild

LEMMA MildNotifyStopped ==
    ASSUME NEW r \in Records, NEW atPrompt, ~Completed(r)
    PROVE  Mild(r, NotifyStopped(r, atPrompt))
<1>1. CASE NotifyStopped(r, atPrompt) = r
  BY <1>1 DEF Mild
<1>2. CASE NotifyStopped(r, atPrompt) = [r EXCEPT !.state = "stopped", !.stopNotified = TRUE]
  BY <1>2 DEF Mild, Completed, ToldOnce, Records
<1> QED BY <1>1, <1>2 DEF NotifyStopped

LEMMA MildNotifyFinished ==
    ASSUME NEW r \in Records, NEW atPrompt, Completed(r)
    PROVE  Mild(r, NotifyFinished(r, atPrompt))
<1>1. CASE NotifyFinished(r, atPrompt) = r
  BY <1>1 DEF Mild
<1>2. CASE ~r.notified /\ NotifyFinished(r, atPrompt) = [r EXCEPT !.notified = TRUE]
  BY <1>2 DEF Mild, Completed, ToldOnce, Records
<1>3. CASE ~r.notified /\ NotifyFinished(r, atPrompt)
                              = [r EXCEPT !.notified = TRUE, !.doneMessages = Bump(@)]
  BY <1>3 DEF Mild, Completed, ToldOnce, Records, Bump
<1> QED BY <1>1, <1>2, <1>3 DEF NotifyFinished

\* The updates that builtins make to a record, one for each kind of builtin.
LEMMA MildUpdates ==
    ASSUME NEW r \in Records
    PROVE  /\ Mild(r, [r EXCEPT !.suppress = TRUE])
           /\ Mild(r, [r EXCEPT !.hupProtected = TRUE])
           /\ Mild(r, [r EXCEPT !.notified = TRUE])
<1>1. Mild(r, [r EXCEPT !.suppress = TRUE])
  BY DEF Mild, Completed, ToldOnce, Records
<1>2. Mild(r, [r EXCEPT !.hupProtected = TRUE])
  BY DEF Mild, Completed, ToldOnce, Records
<1>3. Mild(r, [r EXCEPT !.notified = TRUE])
  BY DEF Mild, Completed, ToldOnce, Records
<1> QED BY <1>1, <1>2, <1>3

LEMMA MildUnfinished ==
    ASSUME NEW r \in Records, ~Completed(r), NEW signal, NEW ground
    PROVE  /\ Mild(r, MarkRunning(r))
           /\ Mild(r, [MarkRunning(r) EXCEPT !.background = ground, !.notified = FALSE])
           /\ Mild(r, [MarkRunning(r) EXCEPT !.background = ground, !.deferStop = FALSE])
           /\ Mild(r, AfterStop(r, signal))
           /\ Mild(r, NotifyStopped([r EXCEPT !.deferStop = FALSE], FALSE))
<1>1. Mild(r, MarkRunning(r))
  BY DEF Mild, Completed, ToldOnce, Records, MarkRunning
<1>2. Mild(r, [MarkRunning(r) EXCEPT !.background = ground, !.notified = FALSE])
  BY DEF Mild, Completed, ToldOnce, Records, MarkRunning
<1>3. Mild(r, [MarkRunning(r) EXCEPT !.background = ground, !.deferStop = FALSE])
  BY DEF Mild, Completed, ToldOnce, Records, MarkRunning
<1>4. Mild(r, AfterStop(r, signal))
  BY DEF Mild, Completed, ToldOnce, Records, AfterStop
<1>5. Mild(r, NotifyStopped([r EXCEPT !.deferStop = FALSE], FALSE))
  <2> DEFINE calm == [r EXCEPT !.deferStop = FALSE]
  <2>1. calm \in Records /\ Mild(r, calm) /\ ~Completed(calm)
    BY DEF Mild, Completed, ToldOnce, Records
  <2> HIDE DEF calm
  <2>2. Mild(calm, NotifyStopped(calm, FALSE))
    BY <2>1, MildNotifyStopped
  <2>3. Mild(r, NotifyStopped(calm, FALSE))
    BY <2>1, <2>2 DEF Mild, Completed
  <2> QED BY <2>3 DEF calm
<1> QED BY <1>1, <1>2, <1>3, <1>4, <1>5

LEMMA MildCleaned ==
    ASSUME NEW r \in Records, NEW atPrompt
    PROVE  Mild(r, Cleaned(r, atPrompt))
<1>1. CASE Completed(r)
  BY <1>1, MildNotifyFinished DEF Cleaned
<1>2. CASE ~Completed(r)
  BY <1>2, MildNotifyStopped, MildSame DEF Cleaned
<1> QED BY <1>1, <1>2

\* Neither a mild update nor what unreaped children do makes a record untrue.
LEMMA MildTruthful ==
    ASSUME NEW processes, NEW processes2, ChildrenStep(processes, processes2),
           NEW r, NEW r2, r.members \subseteq Pids, Truthful(r, processes), Mild(r, r2)
    PROVE  Truthful(r2, processes2)
<1>1. \A p \in r.members :
         /\ UnreapedIn(processes[p]) <=> UnreapedIn(processes2[p])
         /\ ~UnreapedIn(processes[p]) => processes2[p] = processes[p]
         /\ processes2[p].life # "unborn"
  BY DEF ChildrenStep, Truthful, AliveIn, UnreapedIn
<1>2. r2.remaining = {p \in r2.members : UnreapedIn(processes2[p])}
  BY <1>1 DEF Mild, Truthful
<1>3. r2.last \notin r2.remaining => ResultOf(r2, processes2[r2.last].report)
  BY <1>1 DEF Mild, Truthful, ResultOf
<1>4. Completed(r2) <=> r2.remaining = {}
  BY DEF Mild, Truthful, Completed
<1>5. Completed(r2) => (r2.state = "terminated" <=> r2.termSignal # 0)
  BY DEF Mild, Truthful, Completed
<1>6. r2.last \in r2.members /\ r2.stopped \subseteq r2.remaining
  BY DEF Mild, Truthful
<1>7. \A p \in r2.members : processes2[p].life # "unborn"
  BY <1>1 DEF Mild
<1> QED BY <1>2, <1>3, <1>4, <1>5, <1>6, <1>7 DEF Truthful

(***************************************************************************)
(* One wait report of an unreaped member.                                  *)
(***************************************************************************)
Reap(process) == IF process.life = "dead" THEN [process EXCEPT !.life = "reaped"]
                 ELSE [process EXCEPT !.report = NoReport]

\* What the aggregate state of a record says of its remaining members.
LEMMA SettleMeans ==
    ASSUME NEW r \in Records
    PROVE  /\ Completed(Settle(r)) <=> r.remaining = {}
           /\ Completed(Settle(r)) => (Settle(r).state = "terminated" <=> r.termSignal # 0)
           /\ Settle(r).members = r.members
           /\ Settle(r).remaining = r.remaining /\ Settle(r).stopped = r.stopped
           /\ Settle(r).last = r.last
           /\ Settle(r).exitStatus = r.exitStatus /\ Settle(r).termSignal = r.termSignal
           /\ Settle(r).doneMessages = r.doneMessages /\ Settle(r).notified = r.notified
<1>1. /\ r.remaining = {} => Aggregate(r) = (IF r.termSignal = 0 THEN "done" ELSE "terminated")
      /\ r.remaining # {} => Aggregate(r) \in {"stopped", "running"}
  BY DEF Aggregate
<1> QED BY <1>1 DEF Settle, Completed, Records

\* A report of an unreaped member, taken from the kernel, leaves a true record.
LEMMA ReportTruthful ==
    ASSUME NEW r \in Records, NEW processes, NEW processes2, NEW p \in r.members,
           Truthful(r, processes), UnreapedIn(processes[p]), processes[p].report \in Reports,
           processes[p].life = "dead" <=> IsTerminal(processes[p].report),
           processes \in Processes, processes2 = [processes EXCEPT ![p] = Reap(@)]
    PROVE  LET next == RecordWaitStatus(r, p, processes[p].report)
           IN  Truthful(next, processes2) /\ next.doneMessages = r.doneMessages
               /\ ~Completed(r) /\ next.members = r.members
<1> DEFINE report == processes[p].report
           next == RecordWaitStatus(r, p, report)
<1>0. p \in Pids /\ p \in r.remaining /\ ~Completed(r) /\ r.members \subseteq Pids
  BY DEF Truthful, Records
<1>1. /\ processes[p].life = "dead" => /\ processes2[p].life = "reaped"
                                       /\ processes2[p].report = processes[p].report
      /\ processes[p].life # "dead" => processes2[p].life = processes[p].life
      /\ \A q \in r.members \ {p} : processes2[q] = processes[q]
  BY <1>0 DEF Reap, Processes
<1>2. report \in Reports /\ report.kind \in {"exited", "signaled", "stopped", "continued"}
  BY ReportBounds
<1>3. CASE IsTerminal(report)
  <2> DEFINE final == RecordTerminal(r, p, report)
             signal == IF report.kind = "signaled" THEN report.n ELSE 0
             left == [r EXCEPT !.stopped = @ \ {p}, !.remaining = @ \ {p}]
  <2>1. ToExitCode(report) \in Codes /\ signal \in 0..64
    BY <1>2, ReportBounds DEF Codes
  <2>2. /\ left \in Records /\ left.members = r.members /\ left.last = r.last
        /\ left.remaining = r.remaining \ {p} /\ left.stopped = r.stopped \ {p}
        /\ left.doneMessages = r.doneMessages
        /\ left.exitStatus = r.exitStatus /\ left.termSignal = r.termSignal
    BY DEF Records
  <2>3. final = IF p = r.last THEN [left EXCEPT !.exitStatus = ToExitCode(report),
                                                !.termSignal = signal]
                ELSE left
    BY DEF RecordTerminal
  <2>4. /\ final \in Records /\ final.members = r.members /\ final.last = r.last
        /\ final.remaining = r.remaining \ {p} /\ final.stopped = r.stopped \ {p}
        /\ final.doneMessages = r.doneMessages
        /\ p = r.last => ResultOf(final, report)
        /\ p # r.last => final.exitStatus = r.exitStatus /\ final.termSignal = r.termSignal
    <3> HIDE DEF left, final, signal, report
    <3>1. CASE p = r.last
      <4> DEFINE with == [left EXCEPT !.exitStatus = ToExitCode(report), !.termSignal = signal]
      <4>1. /\ with \in Records
            /\ with.members = left.members /\ with.last = left.last
            /\ with.remaining = left.remaining /\ with.stopped = left.stopped
            /\ with.doneMessages = left.doneMessages
            /\ with.exitStatus = ToExitCode(report) /\ with.termSignal = signal
        BY <2>1, <2>2 DEF Records
      <4>2. final = with
        BY <2>3, <3>1
      <4> HIDE DEF with
      <4> QED BY <2>2, <3>1, <4>1, <4>2 DEF ResultOf, signal
    <3>2. CASE p # r.last
      BY <2>2, <2>3, <3>2
    <3> QED BY <3>1, <3>2
  <2>5. next = Settle(final)
    BY <1>3, Zenon DEF RecordWaitStatus, IsTerminal
  <2> HIDE DEF final, left, signal
  <2>6. /\ next.members = r.members /\ next.last = r.last
        /\ next.remaining = r.remaining \ {p} /\ next.stopped = r.stopped \ {p}
        /\ next.exitStatus = final.exitStatus /\ next.termSignal = final.termSignal
        /\ next.doneMessages = r.doneMessages
        /\ Completed(next) <=> next.remaining = {}
        /\ Completed(next) => (next.state = "terminated" <=> next.termSignal # 0)
    <3> HIDE DEF next, report
    <3> QED BY <2>4, <2>5, SettleMeans
  <2>7. processes2[p].life = "reaped" /\ processes2[p].report = report
    BY <1>3, <1>1
  <2> HIDE DEF next
  <2>8. next.remaining = {q \in next.members : UnreapedIn(processes2[q])}
    BY <1>1, <2>6, <2>7 DEF Truthful, UnreapedIn
  <2>9. next.last \notin next.remaining => ResultOf(next, processes2[next.last].report)
    <3>1. CASE r.last = p
      BY <2>4, <2>6, <2>7, <3>1 DEF ResultOf
    <3>2. CASE r.last # p
      <4>1. r.last \in r.members \ {p} /\ processes2[r.last] = processes[r.last]
        BY <1>1, <3>2 DEF Truthful
      <4>2. r.last \notin r.remaining => ResultOf(r, processes[r.last].report)
        BY DEF Truthful
      <4> QED BY <2>4, <2>6, <3>2, <4>1, <4>2 DEF ResultOf
    <3> QED BY <3>1, <3>2
  <2>10. \A q \in next.members : processes2[q].life # "unborn"
    BY <1>1, <2>6, <2>7 DEF Truthful
  <2>11. next.last \in next.members /\ next.stopped \subseteq next.remaining
    BY <2>6 DEF Truthful
  <2> QED BY <1>0, <2>6, <2>8, <2>9, <2>10, <2>11 DEF Truthful, next
<1>4. CASE ~IsTerminal(report)
  <2>1. processes2[p].life = processes[p].life /\ r.remaining # {}
    BY <1>0, <1>4, <1>1
  <2>2. /\ next.members = r.members /\ next.last = r.last /\ next.remaining = r.remaining
        /\ next.stopped \subseteq r.remaining
        /\ next.exitStatus = r.exitStatus /\ next.termSignal = r.termSignal
        /\ next.doneMessages = r.doneMessages /\ ~Completed(next)
    <3> r.stopped \subseteq r.remaining
      BY DEF Truthful
    <3>1. CASE report.kind = "stopped"
      <4> DEFINE more == [r EXCEPT !.stopped = @ \cup {p}, !.stopSignal = report.n]
      <4>1. report.n \in 0..64
        BY <1>2, <3>1, ReportBounds
      <4> HIDE DEF report
      <4>2. /\ more \in Records /\ more.members = r.members /\ more.last = r.last
            /\ more.remaining = r.remaining /\ more.stopped = r.stopped \cup {p}
            /\ more.exitStatus = r.exitStatus /\ more.termSignal = r.termSignal
            /\ more.doneMessages = r.doneMessages
        BY <1>0, <4>1 DEF Records
      <4>3. next = Settle(more)
        BY <3>1, Zenon DEF RecordWaitStatus, IsTerminal
      <4> HIDE DEF next, more
      <4> QED BY <1>0, <2>1, <4>2, <4>3, SettleMeans
    <3>2. CASE report.kind = "continued"
      <4> DEFINE awake == [r EXCEPT !.stopped = @ \ {p}, !.stopSignal = 0,
                                    !.state = "running", !.stopNotified = FALSE]
      <4>1. next = awake
        BY <3>2, Zenon DEF RecordWaitStatus, IsTerminal
      <4>2. /\ awake.members = r.members /\ awake.last = r.last
            /\ awake.remaining = r.remaining /\ awake.stopped = r.stopped \ {p}
            /\ awake.exitStatus = r.exitStatus /\ awake.termSignal = r.termSignal
            /\ awake.doneMessages = r.doneMessages /\ awake.state = "running"
        BY DEF Records
      <4> HIDE DEF next, awake
      <4> QED BY <4>1, <4>2 DEF Completed
    <3> QED BY <1>2, <1>4, <3>1, <3>2 DEF IsTerminal
  <2> HIDE DEF next
  <2>3. next.remaining = {q \in next.members : UnreapedIn(processes2[q])}
    BY <1>1, <2>1, <2>2 DEF Truthful, UnreapedIn
  <2>4. next.last \notin next.remaining => ResultOf(next, processes2[next.last].report)
    <3>1. SUFFICES ASSUME next.last \notin next.remaining
                   PROVE  ResultOf(next, processes2[next.last].report)
      OBVIOUS
    <3>2. r.last \in r.members \ {p}
      BY <1>0, <2>2, <3>1 DEF Truthful
    <3> QED BY <1>1, <2>2, <3>1, <3>2 DEF Truthful, ResultOf
  <2>5. \A q \in next.members : processes2[q].life # "unborn"
    BY <1>1, <2>1, <2>2 DEF Truthful
  <2> QED BY <1>0, <2>1, <2>2, <2>3, <2>4, <2>5 DEF Truthful, next
<1> QED BY <1>3, <1>4

\* The notification that a report releases is a mild update.
LEMMA MildApplied ==
    ASSUME NEW r \in Records, NEW p \in Pids, NEW report \in Reports, NEW managed \in BOOLEAN
    PROVE  Mild(RecordWaitStatus(r, p, report), Applied(r, p, report, managed))
<1> DEFINE next == RecordWaitStatus(r, p, report)
<1>1. next \in Records
  BY RecordWaitStatusType
<1> HIDE DEF next
<1>2. \/ Applied(r, p, report, managed) = next
      \/ Completed(next) /\ Applied(r, p, report, managed) = NotifyFinished(next, FALSE)
      \/ ~Completed(next) /\ Applied(r, p, report, managed) = NotifyStopped(next, FALSE)
  BY Zenon DEF Applied, next
<1>3. Mild(next, Applied(r, p, report, managed))
  BY <1>1, <1>2, MildSame, MildNotifyStopped, MildNotifyFinished
<1> QED BY <1>3 DEF next

\* What a report makes of the record that owns the pid.
LEMMA AppliedTruthful ==
    ASSUME NEW r \in Records, NEW p \in r.members, NEW managed \in BOOLEAN,
           NEW processes, NEW processes2,
           Truthful(r, processes), UnreapedIn(processes[p]), processes[p].report \in Reports,
           processes[p].life = "dead" <=> IsTerminal(processes[p].report),
           processes2 = [processes EXCEPT ![p] = Reap(@)],
           processes \in Processes, ToldOnce(r)
    PROVE  LET next == Applied(r, p, processes[p].report, managed)
           IN  Truthful(next, processes2) /\ ToldOnce(next) /\ ~Completed(r)
               /\ next.members = r.members
<1> DEFINE report == processes[p].report
           plain == RecordWaitStatus(r, p, report)
           next == Applied(r, p, report, managed)
<1>1. p \in Pids /\ r.members \subseteq Pids
  BY DEF Records
<1> HIDE DEF next
<1>2. /\ Truthful(plain, processes2) /\ plain.doneMessages = r.doneMessages
      /\ ~Completed(r) /\ plain.members = r.members
  BY ReportTruthful
<1>3. Mild(plain, next)
  BY <1>1, MildApplied DEF next
<1>4. ToldOnce(plain)
  BY <1>2 DEF ToldOnce
<1> HIDE DEF plain
<1>5. Truthful(next, processes2)
  BY <1>1, <1>2, <1>3, MildTruthful DEF ChildrenStep
<1>6. ToldOnce(next) /\ next.members = r.members
  BY <1>2, <1>3, <1>4 DEF Mild
<1> QED BY <1>2, <1>5, <1>6 DEF next

(***************************************************************************)
(* The shapes of a step, as far as accounting goes: nobody is reaped, one  *)
(* report is taken, a job is launched, or a record is given up.            *)
(***************************************************************************)
Gentle ==
    /\ ChildrenStep(proc, proc')
    /\ \A id \in JobIds : Mild(jobs[id], jobs'[id])
    /\ \A id \in JobIds \ execTable : jobs'[id] = jobs[id]
    /\ UNCHANGED <<execTable, nextJob>>
    /\ table' \subseteq table
    /\ \A id \in table \ table' : Completed(jobs'[id])
    /\ \A p \in Pids : statuses'[p] \in {statuses[p], NoStatus}

Reported(p) == TakeReport(p) /\ UNCHANGED <<table, execTable, nextJob>>

Dropped(id) ==
    /\ execTable' = execTable \ {id} /\ table' = table \ {id}
    /\ jobs' = [jobs EXCEPT ![id] = NoRecord]
    /\ UNCHANGED <<proc, nextJob, statuses>>

\* A mild update leaves a job finished or unfinished.
LEMMA MildCompleted == ASSUME NEW r, NEW r2, Mild(r, r2) PROVE Completed(r2) <=> Completed(r)
BY DEF Mild, Completed

LEMMA MembersArePids == TypeInv => \A id \in JobIds : jobs[id] \in Records /\ jobs[id].members \subseteq Pids
BY DEF TypeInv, JobsOK, Records

LEMMA AccountGentle == ASSUME TypeInv, AccountInv, Gentle PROVE AccountInv'
<1> USE DEF AccountInv
<1>1. execTable \subseteq JobIds /\ table \subseteq JobIds
  BY DEF TypeInv, CountersOK, MarksInv
<1>2. KernelOK'
  BY DEF Gentle, KernelOK, ChildrenStep, AliveIn, UnreapedIn
<1>3. RecordsTrue'
  <2> SUFFICES ASSUME NEW id \in execTable PROVE Truthful(jobs'[id], proc')
    BY DEF RecordsTrue, Gentle
  <2>1. Truthful(jobs[id], proc) /\ Mild(jobs[id], jobs'[id]) /\ jobs[id].members \subseteq Pids
    BY <1>1, MembersArePids DEF RecordsTrue, Gentle
  <2> QED BY <2>1, MildTruthful DEF Gentle
<1>4. NoOthers'
  BY DEF Gentle, NoOthers
<1>5. Listed'
  BY <1>1, MildCompleted DEF Gentle, Listed
<1>6. Numbered'
  BY DEF Gentle, Numbered
<1>7. Disjoint'
  BY <1>1 DEF Gentle, Disjoint, Mild
<1>8. AllToldOnce'
  BY DEF Gentle, AllToldOnce, Mild
<1>9. RetainedIsTrue'
  BY DEF Gentle, RetainedIsTrue, ChildrenStep, AliveIn
<1> QED BY <1>2, <1>3, <1>4, <1>5, <1>6, <1>7, <1>8, <1>9

\* The record that a report goes to is the only one that knows the child.
LEMMA OwnerIsOnlyOne ==
    ASSUME TypeInv, AccountInv, NEW p \in Pids, Unreaped(p)
    PROVE  /\ \A id \in Owners(p) : id \in execTable /\ p \in jobs[id].members
           /\ \A id \in execTable : p \in jobs[id].members => Owners(p) = {id}
<1> USE DEF AccountInv
<1>1. \A id \in execTable : p \in jobs[id].members =>
         p \in jobs[id].remaining /\ ~Completed(jobs[id]) /\ id \in table
  BY DEF RecordsTrue, Truthful, Listed, Unreaped, UnreapedIn
<1>2. \A id \in execTable : jobs[id].remaining \subseteq jobs[id].members
  BY DEF RecordsTrue, Truthful
<1>3. \A id \in Owners(p) : id \in execTable /\ p \in jobs[id].members
  BY <1>2 DEF Owners, Managed, Listed
<1>4. ASSUME NEW id \in execTable, p \in jobs[id].members PROVE Owners(p) = {id}
  <2>1. id \in Managed(p)
    BY <1>1, <1>4 DEF Managed
  <2>2. \A other \in Managed(p) : other = id
    BY <1>4 DEF Managed, Disjoint, Listed
  <2> QED BY <2>1, <2>2 DEF Owners
<1> QED BY <1>3, <1>4

\* A status that is retained is the one its child was reaped with.
LEMMA RetainTrue ==
    ASSUME TypeInv, RetainedIsTrue, NEW p \in Pids, TakeReport(p), KernelOK
    PROVE  /\ RetainedIsTrue'
           /\ proc[p].life = "dead" => statuses'[p] = ToExitCode(proc[p].report)
<1> DEFINE code == ToExitCode(proc[p].report)
<1>1. /\ proc[p].life = "dead" <=> IsTerminal(proc[p].report)
      /\ proc[p].life \in {"running", "stopped", "dead"}
  BY DEF TakeReport, HasReport, Unreaped, KernelOK, AliveIn
<1>2. \A q \in Pids : q # p => proc'[q] = proc[q]
  BY DEF TakeReport, Collect, TypeInv, ProcOK, Processes
<1>3. proc[p].life = "dead" => proc'[p].life = "reaped" /\ proc'[p].report = proc[p].report
  BY DEF TakeReport, Collect, TypeInv, ProcOK, Processes
<1>4. CASE proc[p].life = "dead"
  <2>1. Retain(p, code)
    BY <1>1, <1>4 DEF TakeReport, HandleChildStatus
  <2>2. statuses'[p] = code /\ \A q \in Pids : q # p => statuses'[q] \in {statuses[q], NoStatus}
    <3> HIDE DEF code
    <3> QED BY <2>1, Zenon DEF Retain, TypeInv, StatusesOK
  <2> QED BY <1>2, <1>3, <1>4, <2>2 DEF RetainedIsTrue
<1>5. CASE proc[p].life # "dead"
  <2>1. UNCHANGED statuses
    BY <1>1, <1>5 DEF TakeReport, HandleChildStatus
  <2>2. statuses[p] = NoStatus
    BY <1>1 DEF RetainedIsTrue
  <2> QED BY <1>2, <1>5, <2>1, <2>2 DEF RetainedIsTrue
<1> QED BY <1>4, <1>5

LEMMA ReapedProc ==
    ASSUME TypeInv, NEW p \in Pids, TakeReport(p)
    PROVE  proc' = [proc EXCEPT ![p] = Reap(@)]
BY DEF TakeReport, Collect, Reap

LEMMA UntouchedTruthful ==
    ASSUME NEW r, NEW processes, NEW processes2, Truthful(r, processes),
           \A p \in r.members : processes2[p] = processes[p]
    PROVE  Truthful(r, processes2)
<1>1. r.remaining = {p \in r.members : UnreapedIn(processes2[p])}
  BY DEF Truthful
<1>2. r.last \notin r.remaining => ResultOf(r, processes2[r.last].report)
  BY DEF Truthful
<1> QED BY <1>1, <1>2 DEF Truthful

LEMMA AccountReported ==
    ASSUME TypeInv, AccountInv, NEW p \in Pids, Reported(p)
    PROVE  /\ AccountInv'
           /\ \A id \in JobIds : Completed(jobs[id]) => jobs'[id] = jobs[id]
<1> USE DEF AccountInv
<1>1. execTable \subseteq JobIds /\ jobs \in [JobIds -> Records] /\ proc \in Processes
  BY DEF TypeInv, CountersOK, JobsOK, ProcOK
<1>2. /\ Unreaped(p) /\ UnreapedIn(proc[p]) /\ proc[p].report \in Reports
      /\ proc[p].life = "dead" <=> IsTerminal(proc[p].report)
  BY <1>1 DEF Reported, TakeReport, HasReport, Unreaped, UnreapedIn, KernelOK, AliveIn, Processes
<1>3. proc' = [proc EXCEPT ![p] = Reap(@)]
  BY ReapedProc DEF Reported
<1>4. /\ \A q \in Pids : q # p => proc'[q] = proc[q]
      /\ proc'[p] = Reap(proc[p])
  BY <1>1, <1>3 DEF Processes
<1>5. RetainedIsTrue'
  BY RetainTrue DEF Reported
<1>6. KernelOK'
  <2>1. NoReport.kind = "none"
    BY DEF NoReport
  <2>2. /\ proc'[p].life \in {"dead", "reaped"} => IsTerminal(proc'[p].report)
        /\ AliveIn(proc'[p]) => ~IsTerminal(proc'[p].report)
    BY <1>1, <1>2, <1>4, <2>1 DEF Reap, Processes, AliveIn, UnreapedIn, IsTerminal
  <2> QED BY <1>4, <2>2 DEF KernelOK
<1>7. \A id \in execTable : jobs[id].members \subseteq Pids
  BY <1>1, MembersArePids
<1>8. \A id \in execTable : p \notin jobs[id].members => Truthful(jobs[id], proc')
  BY <1>4, <1>7, UntouchedTruthful DEF RecordsTrue
<1>9. CASE Owners(p) = {}
  <2>1. UNCHANGED jobs
    BY <1>9 DEF Reported, TakeReport, HandleChildStatus
  <2>2. \A id \in execTable : p \notin jobs[id].members
    BY <1>2, <1>9, OwnerIsOnlyOne
  <2> QED BY <1>5, <1>6, <1>8, <2>1, <2>2
          DEF Reported, RecordsTrue, NoOthers, Listed, Numbered, Disjoint, AllToldOnce
<1>10. CASE Owners(p) # {}
  <2> DEFINE managed == Managed(p) # {}
  <2>1. PICK id \in Owners(p) :
           jobs' = [jobs EXCEPT ![id] = Applied(@, p, proc[p].report, managed)]
    BY <1>10 DEF Reported, TakeReport, HandleChildStatus
  <2>2. id \in execTable /\ p \in jobs[id].members /\ id \in JobIds
    BY <1>1, <1>2, OwnerIsOnlyOne
  <2>3. \A other \in execTable : other # id => p \notin jobs[other].members
    BY <2>2 DEF Disjoint
  <2>4. /\ jobs'[id] = Applied(jobs[id], p, proc[p].report, managed)
        /\ \A other \in JobIds : other # id => jobs'[other] = jobs[other]
    BY <1>1, <2>1, <2>2
  <2>5. /\ Truthful(jobs'[id], proc') /\ ToldOnce(jobs'[id]) /\ ~Completed(jobs[id])
        /\ jobs'[id].members = jobs[id].members
    <3>1. jobs[id] \in Records /\ Truthful(jobs[id], proc) /\ ToldOnce(jobs[id])
      BY <1>1, <2>2 DEF RecordsTrue, AllToldOnce
    <3>2. managed \in BOOLEAN
      OBVIOUS
    <3> DEFINE next == Applied(jobs[id], p, proc[p].report, managed)
    <3> HIDE DEF managed
    <3>3. /\ Truthful(next, proc') /\ ToldOnce(next) /\ ~Completed(jobs[id])
          /\ next.members = jobs[id].members
      BY <1>1, <1>2, <1>3, <2>2, <3>1, <3>2, AppliedTruthful
    <3> QED BY <2>4, <3>3
  <2>6. RecordsTrue'
    BY <1>1, <1>8, <2>3, <2>4, <2>5 DEF RecordsTrue, Reported
  <2>7. NoOthers' /\ Numbered' /\ AllToldOnce'
    BY <2>2, <2>4, <2>5 DEF NoOthers, Numbered, AllToldOnce, Reported
  <2>8. Listed'
    <3>1. id \in table
      BY <2>2, <2>5 DEF Listed
    <3> QED BY <1>1, <2>4, <3>1 DEF Listed, Reported
  <2>9. Disjoint'
    BY <1>1, <2>4, <2>5 DEF Disjoint, Reported
  <2> QED BY <1>5, <1>6, <2>4, <2>5, <2>6, <2>7, <2>8, <2>9
<1> QED BY <1>9, <1>10

LEMMA AccountLaunched == ASSUME TypeInv, AccountInv, Launches PROVE AccountInv'
<1> USE DEF AccountInv
<1>1. execTable \subseteq JobIds /\ jobs \in [JobIds -> Records] /\ proc \in Processes
      /\ \A id \in JobIds : jobs[id].members \subseteq Pids
  BY MembersArePids DEF TypeInv, CountersOK, JobsOK, ProcOK
<1>2. PICK size \in 1..MaxMembers, background \in BOOLEAN, auto \in AutoBackgrounds :
         Launch(size, background, auto)
  BY DEF Launches
<1> DEFINE members == NextPids(size)
           record == NewRecord(members, LastOf(members), background, auto)
<1>3. /\ members \subseteq Pids /\ LastOf(members) \in members
      /\ \A p \in members : proc[p].life = "unborn"
  BY <1>2, LastOfType DEF Launch, NextPids, Fresh
<1>4. /\ nextJob \in JobIds /\ nextJob' = nextJob + 1 /\ nextJob \notin execTable
      /\ table' = table \cup {nextJob} /\ execTable' = execTable \cup {nextJob}
      /\ UNCHANGED statuses
  BY <1>2 DEF Launch, Numbered, JobIds
<1>5. /\ jobs'[nextJob] = record
      /\ \A id \in JobIds : id # nextJob => jobs'[id] = jobs[id]
  <2>1. jobs' = [jobs EXCEPT ![nextJob] = record]
    BY <1>2 DEF Launch
  <2> HIDE DEF record
  <2> QED BY <1>1, <1>4, <2>1
<1>6. \A p \in Pids : /\ p \in members => proc'[p] = [life |-> "running", report |-> NoReport]
                      /\ p \notin members => proc'[p] = proc[p]
  <2>1. proc' = [p \in Pids |-> IF p \in members THEN [life |-> "running", report |-> NoReport]
                                ELSE proc[p]]
    BY <1>2 DEF Launch
  <2> HIDE DEF members
  <2> QED BY <2>1
<1>7. /\ record.members = members /\ record.remaining = members /\ record.stopped = {}
      /\ record.last = LastOf(members) /\ record.doneMessages = 0 /\ record.state = "running"
  BY DEF NewRecord
<1> HIDE DEF members, record
<1>8. \A id \in execTable : jobs[id].members \cap members = {}
  BY <1>3 DEF RecordsTrue, Truthful
<1>9. KernelOK'
  <2>1. ~IsTerminal(NoReport)
    BY DEF IsTerminal, NoReport
  <2>2. ASSUME NEW p \in members
        PROVE  proc'[p].life = "running" /\ proc'[p].report = NoReport
    BY <1>3, <1>6
  <2> QED BY <1>6, <2>1, <2>2 DEF KernelOK, AliveIn
<1>10. RecordsTrue'
  <2>1. ASSUME NEW id \in execTable PROVE Truthful(jobs'[id], proc')
    <3>1. \A p \in jobs[id].members : proc'[p] = proc[p]
      BY <1>1, <1>6, <1>8
    <3>2. jobs'[id] = jobs[id] /\ Truthful(jobs[id], proc)
      BY <1>1, <1>4, <1>5 DEF RecordsTrue
    <3> QED BY <3>1, <3>2, UntouchedTruthful
  <2>2. Truthful(record, proc')
    <3>1. \A p \in members : proc'[p].life = "running"
      BY <1>3, <1>6
    <3> QED BY <1>3, <1>7, <3>1 DEF Truthful, Completed, UnreapedIn
  <2> QED BY <1>4, <1>5, <2>1, <2>2 DEF RecordsTrue
<1>11. NoOthers' /\ Disjoint'
  BY <1>1, <1>4, <1>5, <1>7, <1>8 DEF NoOthers, Disjoint
<1>12. Listed'
  BY <1>1, <1>4, <1>5 DEF Listed
<1>13. Numbered'
  BY <1>1, <1>4 DEF Numbered, JobIds
<1>14. AllToldOnce'
  BY <1>4, <1>5, <1>7 DEF AllToldOnce, ToldOnce
<1>15. RetainedIsTrue'
  BY <1>3, <1>4, <1>6 DEF RetainedIsTrue
<1> QED BY <1>9, <1>10, <1>11, <1>12, <1>13, <1>14, <1>15

LEMMA AccountDropped ==
    ASSUME TypeInv, AccountInv, NEW id \in JobIds, Dropped(id)
    PROVE  AccountInv'
<1> USE DEF AccountInv
<1>1. execTable \subseteq JobIds /\ jobs \in [JobIds -> Records]
  BY DEF TypeInv, CountersOK, JobsOK
<1>2. jobs'[id] = NoRecord /\ \A other \in JobIds : other # id => jobs'[other] = jobs[other]
  BY <1>1 DEF Dropped
<1>3. KernelOK' /\ RetainedIsTrue'
  BY DEF Dropped, KernelOK, RetainedIsTrue
<1>4. RecordsTrue'
  BY <1>1, <1>2 DEF Dropped, RecordsTrue
<1>5. NoOthers' /\ Numbered'
  BY <1>2 DEF Dropped, NoOthers, Numbered
<1>6. Listed' /\ Disjoint'
  BY <1>1, <1>2 DEF Dropped, Listed, Disjoint
<1>7. AllToldOnce'
  <2>1. NoRecord.doneMessages = 0
    BY DEF NoRecord, NewRecord
  <2> QED BY <1>2, <2>1 DEF AllToldOnce, ToldOnce
<1> QED BY <1>3, <1>4, <1>5, <1>6, <1>7

(***************************************************************************)
(* Every step has one of the shapes.                                       *)
(***************************************************************************)
LEMMA QuietIsGentle ==
    ASSUME UNCHANGED <<proc, jobs, table, execTable, nextJob, statuses>>
    PROVE  Gentle
BY MildSame DEF Gentle, ChildrenStep

\* A step that stores one mildly updated record, and may unlist a finished job.
LEMMA StoreIsGentle ==
    ASSUME TypeInv, AccountInv, ChildrenStep(proc, proc'), NEW id \in execTable, NEW r,
           Mild(jobs[id], r), jobs' = [jobs EXCEPT ![id] = r],
           UNCHANGED <<execTable, nextJob, statuses>>,
           table' = table \/ (table' = table \ {id} /\ Completed(r))
    PROVE  Gentle
<1>1. id \in JobIds /\ jobs \in [JobIds -> Records]
  BY DEF TypeInv, CountersOK, JobsOK
<1>2. jobs'[id] = r /\ \A other \in JobIds : other # id => jobs'[other] = jobs[other]
  BY <1>1
<1>3. \A other \in JobIds : Mild(jobs[other], jobs'[other])
  BY <1>2, MildSame
<1>4. \A other \in table \ table' : Completed(jobs'[other])
  BY <1>2
<1> QED BY <1>2, <1>3, <1>4 DEF Gentle

\* A job that is stopped or finished has a record of its own.
LEMMA RecordedJob ==
    ASSUME TypeInv, AccountInv, NEW id \in JobIds, Completed(jobs[id]) \/ Stopped(jobs[id])
    PROVE  id \in execTable
BY DEF AccountInv, NoOthers, NoRecord, NewRecord, Completed, Stopped

\* A job with a child that nobody has reaped is unfinished.
LEMMA UnreapedMember ==
    ASSUME TypeInv, AccountInv, NEW id \in execTable, NEW p \in jobs[id].members, Unreaped(p)
    PROVE  ~Completed(jobs[id])
BY DEF AccountInv, RecordsTrue, Truthful, Unreaped, UnreapedIn

LEMMA ContinueAllStep ==
    ASSUME NEW processes, NEW set
    PROVE  ChildrenStep(processes, ContinueAll(processes, set))
<1>1. Continued.kind = "continued"
  BY DEF Continued
<1> QED BY <1>1 DEF ChildrenStep, ContinueAll, AliveIn, UnreapedIn, IsTerminal

LEMMA SameChildren == ASSUME UNCHANGED proc PROVE ChildrenStep(proc, proc')
BY DEF ChildrenStep

LEMMA EnvironmentShape == ASSUME TypeInv, AccountInv, Environment PROVE Gentle
<1> PICK p \in Pids : ChildExits(p) \/ ChildStops(p) \/ ChildContinues(p)
  BY DEF Environment
<1>1. UNCHANGED <<jobs, table, execTable, nextJob, statuses>>
  BY DEF ChildExits, ChildStops, ChildContinues
<1>2. ChildrenStep(proc, proc')
  <2>1. CASE ChildExits(p)
    <3>1. \A outcome \in Terminal : IsTerminal(outcome)
      BY DEF Terminal, IsTerminal
    <3> QED BY <2>1, <3>1 DEF ChildExits, ChildrenStep, Alive, AliveIn, UnreapedIn,
                              TypeInv, ProcOK, Processes
  <2>2. CASE ChildStops(p)
    <3>1. \A stop \in Stops : ~IsTerminal(stop)
      BY DEF Stops, IsTerminal
    <3> QED BY <2>2, <3>1 DEF ChildStops, ChildrenStep, AliveIn, UnreapedIn,
                              TypeInv, ProcOK, Processes
  <2>3. CASE ChildContinues(p)
    BY <2>3, ContinueAllStep DEF ChildContinues
  <2> QED BY <2>1, <2>2, <2>3
<1> QED BY <1>1, <1>2, MildSame DEF Gentle

LEMMA MainLoopShape == ASSUME MainLoop PROVE Gentle
BY QuietIsGentle DEF MainLoop, StartTick, StartIdle, ReadLine, EndLine, StartBuiltin, CleanupDone,
                     GoPolling, Go

LEMMA MarksAreUseful == TypeInv => table \subseteq JobIds /\ Useful(table, current, previous)
BY MarksInvIsUseful DEF TypeInv

LEMMA CleansShape == ASSUME TypeInv, AccountInv, Cleans PROVE Gentle
<1> PICK id \in table : CleanJob(id)
  BY DEF Cleans
<1> DEFINE atPrompt == shell.at = "tick"
           next == Cleaned(jobs[id], atPrompt)
<1>1. id \in execTable /\ jobs[id] \in Records
  BY MembersArePids DEF AccountInv, Listed, TypeInv, MarksInv
<1>2. Mild(jobs[id], next)
  BY <1>1, MildCleaned
<1>3. jobs' = [jobs EXCEPT ![id] = next] /\ UNCHANGED <<proc, execTable, nextJob, statuses>>
  BY DEF CleanJob
<1>4. table' = table \/ (table' = table \ {id} /\ Completed(next))
  BY RemoveJobUseful, MarksAreUseful DEF CleanJob, Retires, markVars
<1> HIDE DEF next
<1> QED BY <1>1, <1>2, <1>3, <1>4, StoreIsGentle, SameChildren

LEMMA BuiltinShape ==
    ASSUME TypeInv, AccountInv, Builtin
    PROVE  Gentle \/ \E id \in JobIds : Dropped(id)
<1>0. \A id \in table : /\ id \in execTable /\ id \in JobIds
                        /\ jobs[id] \in Records
  BY MembersArePids DEF AccountInv, Listed, TypeInv, MarksInv
<1>1. CASE NoEffect
  BY <1>1, QuietIsGentle DEF NoEffect
<1>2. ASSUME NEW listed \in {table} \cup {{id} : id \in table}, Jobs(listed) PROVE Gentle
  <2>1. jobs' = [id \in JobIds |-> IF id \in listed /\ Completed(jobs[id])
                                   THEN [jobs[id] EXCEPT !.notified = TRUE] ELSE jobs[id]]
        /\ UNCHANGED <<proc, table, execTable, nextJob, statuses>>
    BY <1>2 DEF Jobs
  <2>2. ASSUME NEW id \in JobIds
        PROVE  /\ Mild(jobs[id], jobs'[id])
               /\ id \notin execTable => jobs'[id] = jobs[id]
    <3>1. CASE id \in listed /\ Completed(jobs[id])
      <4>1. jobs'[id] = [jobs[id] EXCEPT !.notified = TRUE] /\ jobs[id] \in Records
        BY <2>1, <3>1, MembersArePids
      <4>2. id \in execTable
        BY <3>1, RecordedJob
      <4> QED BY <4>1, <4>2, MildUpdates
    <3>2. CASE ~(id \in listed /\ Completed(jobs[id]))
      BY <2>1, <3>2, MildSame
    <3> QED BY <3>1, <3>2
  <2> QED BY <2>1, <2>2, SameChildren DEF Gentle
<1>3. ASSUME NEW id \in table, Bg(id) PROVE Gentle
  <2> DEFINE moved == [MarkRunning(jobs[id]) EXCEPT !.background = TRUE, !.notified = FALSE]
  <2>1. ~Completed(jobs[id])
    BY <1>3 DEF Bg, Completed, Stopped
  <2>2. Mild(jobs[id], moved)
    BY <1>0, <2>1, MildUnfinished
  <2>3. /\ proc' = ContinueAll(proc, jobs[id].members) /\ jobs' = [jobs EXCEPT ![id] = moved]
        /\ UNCHANGED <<table, execTable, nextJob, statuses>>
    BY <1>3 DEF Bg, Resume
  <2> HIDE DEF moved
  <2> QED BY <1>0, <2>2, <2>3, ContinueAllStep, StoreIsGentle
<1>4. ASSUME NEW id \in table, Fg(id) PROVE Gentle
  <2> DEFINE moved == [MarkRunning(jobs[id]) EXCEPT !.background = FALSE, !.notified = FALSE]
             woken == IF Stopped(jobs[id]) THEN jobs[id].members ELSE {}
  <2>1. Mild(jobs[id], moved)
    BY <1>0, <1>4, MildUnfinished DEF Fg
  <2>2. /\ proc' = ContinueAll(proc, woken) /\ jobs' = [jobs EXCEPT ![id] = moved]
        /\ UNCHANGED <<table, execTable, nextJob, statuses>>
    BY <1>4 DEF Fg, Resume
  <2> HIDE DEF moved, woken
  <2> QED BY <1>0, <2>1, <2>2, ContinueAllStep, StoreIsGentle
<1>5. ASSUME NEW id \in table, FgCompleted(id) PROVE Gentle
  <2> DEFINE told == NotifyFinished(jobs[id], FALSE)
  <2>1. Mild(jobs[id], told) /\ Completed(told)
    BY <1>0, <1>5, MildNotifyFinished, MildCompleted DEF FgCompleted
  <2>2. /\ jobs' = [jobs EXCEPT ![id] = told] /\ table' = table \ {id}
        /\ UNCHANGED <<proc, execTable, nextJob, statuses>>
    BY <1>5, RemoveJobUseful, MarksAreUseful DEF FgCompleted
  <2> HIDE DEF told
  <2> QED BY <1>0, <2>1, <2>2, SameChildren, StoreIsGentle
<1>6. ASSUME NEW id \in table, NEW targets \in SUBSET jobs[id].members, KillStop(id, targets)
      PROVE  Gentle
  <2>1. PICK signal \in StopSignals : jobs' = [jobs EXCEPT ![id] = AfterStop(@, signal)]
    BY <1>6 DEF KillStop
  <2>2. ~Completed(jobs[id])
    BY <1>0, <1>6, UnreapedMember DEF KillStop
  <2>3. Mild(jobs[id], AfterStop(jobs[id], signal))
    BY <1>0, <2>2, MildUnfinished
  <2>4. UNCHANGED <<proc, table, execTable, nextJob, statuses>>
    BY <1>6 DEF KillStop
  <2> QED BY <1>0, <2>1, <2>3, <2>4, SameChildren, StoreIsGentle
<1>7. ASSUME NEW id \in table, NEW targets \in SUBSET jobs[id].members, KillContinue(id, targets)
      PROVE  Gentle
  <2>1. ~Completed(jobs[id])
    BY <1>0, <1>7, UnreapedMember DEF KillContinue
  <2>2. Mild(jobs[id], MarkRunning(jobs[id]))
    BY <1>0, <2>1, MildUnfinished
  <2>3. /\ proc' = ContinueAll(proc, targets)
        /\ jobs' = [jobs EXCEPT ![id] = MarkRunning(jobs[id])]
        /\ UNCHANGED <<table, execTable, nextJob, statuses>>
    BY <1>7 DEF KillContinue, Resume
  <2> QED BY <1>0, <2>2, <2>3, ContinueAllStep, StoreIsGentle
<1>8. ASSUME NEW id \in table, Kill(id) PROVE Gentle
  BY <1>6, <1>7, <1>8 DEF Kill
<1>9. ASSUME NEW id \in table, Disown(id) PROVE \E other \in JobIds : Dropped(other)
  BY <1>0, <1>9, RemoveJobUseful, MarksAreUseful DEF Disown, Dropped
<1>10. ASSUME NEW id \in table, ProtectFromHup(id) PROVE Gentle
  <2>1. Mild(jobs[id], [jobs[id] EXCEPT !.hupProtected = TRUE])
    BY <1>0, MildUpdates
  <2>2. /\ jobs' = [jobs EXCEPT ![id] = [jobs[id] EXCEPT !.hupProtected = TRUE]]
        /\ UNCHANGED <<proc, table, execTable, nextJob, statuses>>
    BY <1>10 DEF ProtectFromHup
  <2> QED BY <1>0, <2>1, <2>2, SameChildren, StoreIsGentle
<1> QED BY <1>1, <1>2, <1>3, <1>4, <1>5, <1>8, <1>9, <1>10 DEF Builtin

\* The operands of wait that are jobs are jobs of the table.
LEMMA WaitShape == ASSUME TypeInv, AccountInv, Wait PROVE Gentle
<1>1. PICK place \in {"wait", "waitn"}, force \in BOOLEAN, list \in AllJobs \cup OperandLists,
           operands \in BOOLEAN : StartWait(place, force, list, operands)
  BY DEF Wait
<1>2. \A i \in DOMAIN list : list[i].job \in table \/ list[i].job = NoJob
  <2>1. CASE list \in AllJobs
    BY <2>1 DEF AllJobs, JobTarget
  <2>2. CASE list \in OperandLists
    <3>1. PICK n \in 1..MaxOperands : list \in [1..n -> Operands]
      BY <2>2 DEF OperandLists
    <3>2. \A target \in Operands : target.job \in table \/ target.job = NoJob
      <4>1. \A p \in Pids : Operand(p).job \in table \/ Operand(p).job = NoJob
        BY DEF Operand, Managed, JobTarget, PidTarget
      <4> QED BY <4>1 DEF Operands, JobTarget
    <3> QED BY <3>1, <3>2
  <2> QED BY <2>1, <2>2
<1>3. /\ jobs' = Suppress(list) /\ UNCHANGED <<proc, table, execTable, nextJob, statuses>>
  BY <1>1 DEF StartWait
<1>4. ASSUME NEW id \in JobIds
      PROVE  /\ Mild(jobs[id], jobs'[id])
             /\ id \notin execTable => jobs'[id] = jobs[id]
  <2>1. CASE \E i \in DOMAIN list : list[i].job = id
    <3>1. jobs'[id] = [jobs[id] EXCEPT !.suppress = TRUE] /\ jobs[id] \in Records
      BY <1>3, <2>1, MembersArePids DEF Suppress
    <3>2. id \in execTable
      BY <1>2, <2>1, NoJobIsNoId DEF AccountInv, Listed
    <3> QED BY <3>1, <3>2, MildUpdates
  <2>2. CASE ~\E i \in DOMAIN list : list[i].job = id
    BY <1>3, <2>2, MildSame DEF Suppress
  <2> QED BY <2>1, <2>2
<1> QED BY <1>3, <1>4, SameChildren DEF Gentle

LEMMA AnswerShape ==
    ASSUME TypeInv, AccountInv, NEW target \in Targets, TargetReady(target), Answer(target),
           UNCHANGED <<proc, jobs, execTable, nextJob>>
    PROVE  Gentle
<1>1. \A p \in Pids : statuses'[p] \in {statuses[p], NoStatus}
  BY DEF Answer, FinishJob, TypeInv, StatusesOK
<1>2. /\ table' \subseteq table
      /\ \A id \in table \ table' : Completed(jobs[id])
  <2>1. CASE UNCHANGED table
    BY <2>1
  <2>2. CASE RemoveJob(target.job) /\ Completed(jobs[target.job])
    BY <2>2, RemoveJobUseful, MarksAreUseful
  <2> QED BY <2>1, <2>2 DEF Answer, FinishJob, markVars
<1> QED BY <1>1, <1>2, MildSame, SameChildren DEF Gentle

LEMMA ExecShape ==
    ASSUME TypeInv, AccountInv, ExecStopped \/ ExecCompleted
    PROVE  Gentle \/ \E id \in JobIds : Dropped(id)
<1>1. Waited \in JobIds /\ jobs[Waited] \in Records
  BY MembersArePids DEF ExecStopped, ExecCompleted, TypeInv, ShellOK
<1>2. CASE ExecStopped
  <2> DEFINE record == jobs[Waited]
             told == NotifyStopped([record EXCEPT !.deferStop = FALSE], FALSE)
             moved == [MarkRunning(record) EXCEPT !.background = TRUE, !.deferStop = FALSE]
  <2>1. Waited \in execTable /\ ~Completed(record)
    BY <1>1, <1>2, RecordedJob DEF ExecStopped, Completed, Stopped
  <2>2. Mild(record, told) /\ Mild(record, moved)
    BY <1>1, <2>1, MildUnfinished
  <2>3. \/ jobs' = [jobs EXCEPT ![Waited] = moved] /\ proc' = ContinueAll(proc, record.members)
        \/ jobs' = [jobs EXCEPT ![Waited] = told] /\ UNCHANGED proc
    BY <1>2 DEF ExecStopped
  <2>4. UNCHANGED <<table, execTable, nextJob, statuses>>
    BY <1>2 DEF ExecStopped
  <2> HIDE DEF told, moved
  <2>5. CASE jobs' = [jobs EXCEPT ![Waited] = moved] /\ proc' = ContinueAll(proc, record.members)
    BY <2>1, <2>2, <2>4, <2>5, ContinueAllStep, StoreIsGentle
  <2>6. CASE jobs' = [jobs EXCEPT ![Waited] = told] /\ UNCHANGED proc
    BY <2>1, <2>2, <2>4, <2>6, SameChildren, StoreIsGentle
  <2> QED BY <2>3, <2>5, <2>6
<1>3. CASE ExecCompleted
  BY <1>1, <1>3, RemoveJobUseful, MarksAreUseful DEF ExecCompleted, Dropped
<1> QED BY <1>2, <1>3

LEMMA FgDoneShape == ASSUME TypeInv, AccountInv, FgDone PROVE Gentle
<1>1. Waited \in JobIds /\ jobs[Waited] \in Records /\ Waited # NoJob
  BY MembersArePids, NoJobIsNoId DEF FgDone, TypeInv, ShellOK
<1>2. Waited \in execTable
  <2>1. TargetReady(Head(shell.todo))
    BY DEF FgDone, SomeReady, TypeInv, ShellOK, Shells
  <2>2. Completed(jobs[Waited]) \/ Stopped(jobs[Waited])
    BY <1>1, <2>1 DEF TargetReady, Ready, Waited
  <2> QED BY <1>1, <2>2, RecordedJob
<1>3. UNCHANGED <<proc, execTable, nextJob, statuses>>
  BY DEF FgDone
<1>4. CASE Completed(jobs[Waited])
  <2> DEFINE told == NotifyFinished(jobs[Waited], FALSE)
  <2>1. Mild(jobs[Waited], told) /\ Completed(told)
    BY <1>1, <1>4, MildNotifyFinished, MildCompleted
  <2>2. jobs' = [jobs EXCEPT ![Waited] = told] /\ table' = table \ {Waited}
    BY <1>4, RemoveJobUseful, MarksAreUseful DEF FgDone
  <2> HIDE DEF told
  <2> QED BY <1>2, <1>3, <2>1, <2>2, SameChildren, StoreIsGentle
<1>5. CASE ~Completed(jobs[Waited])
  <2> DEFINE told == NotifyStopped(jobs[Waited], FALSE)
  <2>1. Mild(jobs[Waited], told)
    BY <1>1, <1>5, MildNotifyStopped
  <2>2. jobs' = [jobs EXCEPT ![Waited] = told] /\ UNCHANGED table
    BY <1>5 DEF FgDone, markVars
  <2> HIDE DEF told
  <2> QED BY <1>2, <1>3, <2>1, <2>2, SameChildren, StoreIsGentle
<1> QED BY <1>4, <1>5

LEMMA WaitsShape ==
    ASSUME TypeInv, AccountInv, Waits
    PROVE  Gentle \/ (\E p \in Pids : Reported(p)) \/ (\E id \in JobIds : Dropped(id))
<1>1. CASE ExecStopped \/ ExecCompleted
  BY <1>1, ExecShape
<1>2. CASE FgDone
  BY <1>2, FgDoneShape
<1>3. CASE WaitAnswered
  <2>1. Head(shell.todo) \in Targets /\ TargetReady(Head(shell.todo)) /\ Answer(Head(shell.todo))
    BY <1>3, HeadTypes DEF WaitAnswered, SomeReady, TypeInv, ShellOK, Shells
  <2> QED BY <1>3, <2>1, AnswerShape DEF WaitAnswered
<1>4. CASE WaitNextAnswered
  <2>1. PICK i \in 1..Len(shell.todo) : TargetReady(shell.todo[i]) /\ Answer(shell.todo[i])
    BY <1>4 DEF WaitNextAnswered
  <2>2. shell.todo[i] \in Targets
    BY DEF TypeInv, ShellOK, Shells
  <2> QED BY <1>4, <2>1, <2>2, AnswerShape DEF WaitNextAnswered
<1>5. CASE WaitPidReport
  <2>1. Head(shell.todo).pid \in Pids
    BY <1>5, HeadTypes, TargetTypes DEF WaitPidReport, Waited, TypeInv
  <2>2. Reported(Head(shell.todo).pid)
    BY <1>5 DEF WaitPidReport, Reported
  <2> QED BY <2>1, <2>2
<1>6. CASE NotAChild \/ WaitDone \/ WaitNextNoChild
  BY <1>6, QuietIsGentle DEF NotAChild, WaitDone, WaitNextNoChild
<1>7. ASSUME NEW p \in Pids, ExecReport(p) \/ WaitJobReport(p) \/ WaitNextReport(p)
      PROVE  Reported(p)
  BY <1>7 DEF ExecReport, WaitJobReport, WaitNextReport, Reported
<1> QED BY <1>1, <1>2, <1>3, <1>4, <1>5, <1>6, <1>7 DEF Waits

LEMMA StepShapes ==
    ASSUME TypeInv, AccountInv, [Next]_vars
    PROVE  \/ Gentle
           \/ \E p \in Pids : Reported(p)
           \/ Launches
           \/ \E id \in JobIds : Dropped(id)
<1>1. CASE UNCHANGED vars
  BY <1>1, QuietIsGentle DEF vars
<1>2. CASE Polls
  <2> PICK p \in Pids : PollChild(p)
    BY <1>2 DEF Polls
  <2>1. CASE HasReport(p)
    BY <2>1 DEF PollChild, Reported
  <2>2. CASE ~HasReport(p)
    BY <2>2, QuietIsGentle DEF PollChild
  <2> QED BY <2>1, <2>2
<1>3. CASE Interrupts
  BY <1>3 DEF Interrupts, ReapPending, WaitInterrupted, Reported
<1> QED BY <1>1, <1>2, <1>3, EnvironmentShape, MainLoopShape, CleansShape, BuiltinShape, WaitShape,
           WaitsShape DEF Next

LEMMA AccountInit == Init => AccountInv
<1> SUFFICES ASSUME Init PROVE AccountInv
  OBVIOUS
<1>1. KernelOK /\ RetainedIsTrue
  BY DEF Init, KernelOK, RetainedIsTrue, Unborn, AliveIn
<1>2. RecordsTrue /\ NoOthers /\ Listed /\ Numbered /\ Disjoint
  BY DEF Init, RecordsTrue, NoOthers, Listed, Numbered, Disjoint
<1>3. AllToldOnce
  BY DEF Init, AllToldOnce, ToldOnce, NoRecord, NewRecord
<1> QED BY <1>1, <1>2, <1>3 DEF AccountInv

LEMMA AccountNext == TypeInv /\ AccountInv /\ [Next]_vars => AccountInv'
BY StepShapes, AccountGentle, AccountReported, AccountLaunched, AccountDropped

LEMMA Accounted == Spec => [](TypeInv /\ AccountInv)
BY TypeInvInit, TypeInvNext, AccountInit, AccountNext, PTL DEF Spec

\* Whatever order polling, waiters and signal dispatch reap children in, a
\* job's remaining members are those nobody has reaped, and it is complete
\* exactly when there are none.
THEOREM MembersAlwaysAccounted == Spec => []MembersAccounted
<1>1. AccountInv => MembersAccounted
  <2> SUFFICES ASSUME AccountInv, NEW id \in table \cup execTable
               PROVE  /\ jobs[id].remaining = {p \in jobs[id].members : Unreaped(p)}
                      /\ jobs[id].stopped \subseteq jobs[id].remaining
                      /\ Completed(jobs[id]) <=> jobs[id].remaining = {}
    BY DEF MembersAccounted
  <2>1. Truthful(jobs[id], proc)
    BY DEF AccountInv, Listed, RecordsTrue
  <2> QED BY <2>1 DEF Truthful, Unreaped, UnreapedIn
<1> QED BY <1>1, Accounted, PTL

\* A finished job carries the result of its last member, in whatever order the
\* members died and were reaped.
THEOREM ExitStatusAlwaysOfLastMember == Spec => []ExitStatusOfLastMember
<1>1. TypeInv /\ AccountInv => ExitStatusOfLastMember
  <2> SUFFICES ASSUME TypeInv, AccountInv, NEW id \in table \cup execTable, Completed(jobs[id])
               PROVE  LET report == proc[jobs[id].last].report
                      IN  /\ jobs[id].exitStatus = ToExitCode(report)
                          /\ jobs[id].state = "terminated" <=> report.kind = "signaled"
    BY DEF ExitStatusOfLastMember
  <2> DEFINE report == proc[jobs[id].last].report
  <2>1. Truthful(jobs[id], proc) /\ id \in JobIds
    BY DEF AccountInv, Listed, RecordsTrue, TypeInv, CountersOK
  <2>2. ResultOf(jobs[id], report)
    BY <2>1 DEF Truthful
  <2>3. jobs[id].last \in Pids /\ proc[jobs[id].last].life \in {"dead", "reaped"}
    <3>1. jobs[id].last \in jobs[id].members /\ jobs[id].last \notin jobs[id].remaining
      BY <2>1 DEF Truthful
    <3>2. jobs[id].last \in Pids
      BY <2>1, <3>1, MembersArePids
    <3> QED BY <2>1, <3>1, <3>2 DEF Truthful, UnreapedIn, TypeInv, ProcOK, Processes, Lives
  <2>4. IsTerminal(report)
    BY <2>3 DEF AccountInv, KernelOK
  <2>5. report \in Reports
    <3>1. report \in Reports \cup {NoReport}
      BY <2>3 DEF TypeInv, ProcOK, Processes
    <3> QED BY <2>4, <3>1 DEF NoReport, IsTerminal
  <2> HIDE DEF report
  <2>6. report.kind = "signaled" => report.n # 0
    BY <2>5, ReportBounds
  <2>7. jobs[id].state = "terminated" <=> report.kind = "signaled"
    BY <2>1, <2>2, <2>6 DEF Truthful, ResultOf
  <2> QED BY <2>2, <2>7 DEF report, ResultOf
<1> QED BY <1>1, Accounted, PTL

\* However prompt cleanup, waiters, fg and reports race, the user is told at
\* most once that a job finished.
THEOREM FinishedAlwaysToldOnce == Spec => []FinishedToldOnce
<1>1. AccountInv => FinishedToldOnce
  BY DEF AccountInv, AllToldOnce, ToldOnce, FinishedToldOnce
<1> QED BY <1>1, Accounted, PTL

\* An unfinished job is in both indexes or in none.
THEOREM IndexesAlwaysAgree == Spec => []IndexesAgree
<1>1. AccountInv => IndexesAgree
  BY DEF AccountInv, Listed, IndexesAgree
<1> QED BY <1>1, Accounted, PTL

\* A retained status is the one its child died with.
THEOREM RetainedAlwaysTrue == Spec => []RetainedIsTrue
<1>1. AccountInv => RetainedIsTrue
  BY DEF AccountInv
<1> QED BY <1>1, Accounted, PTL

\* A finished job that stays in the table stays finished: no late report, kill,
\* bg or fg revives it.
THEOREM FinishedStayFinished == Spec => FinishedForGood
<1>1. TypeInv /\ AccountInv /\ [Next]_vars =>
         [\A id \in table \cap table' : Completed(jobs[id]) => Completed(jobs'[id])]_vars
  <2> SUFFICES ASSUME TypeInv, AccountInv, [Next]_vars, NEW id \in table, id \in table',
                      Completed(jobs[id])
               PROVE  Completed(jobs'[id])
    OBVIOUS
  <2>1. id \in JobIds /\ id \in execTable /\ jobs \in [JobIds -> Records]
    BY DEF TypeInv, MarksInv, JobsOK, AccountInv, Listed
  <2>2. CASE Gentle
    BY <2>1, <2>2, MildCompleted DEF Gentle
  <2>3. CASE \E p \in Pids : Reported(p)
    BY <2>1, <2>3, AccountReported
  <2>4. CASE Launches
    BY <2>1, <2>4 DEF Launches, Launch, AccountInv, Numbered, JobIds
  <2>5. CASE \E other \in JobIds : Dropped(other)
    BY <2>1, <2>5 DEF Dropped
  <2> QED BY <2>2, <2>3, <2>4, <2>5, StepShapes
<1> QED BY <1>1, Accounted, PTL DEF Spec, FinishedForGood

\* Whoever reaps a child, wait included, leaves its status behind for a later wait.
THEOREM ReapedAlwaysRetained == Spec => ReapedIsRetained
<1>1. TypeInv /\ AccountInv /\ [Next]_vars =>
         [\A p \in Pids : proc[p].life = "dead" /\ proc'[p].life = "reaped" =>
            statuses'[p] = ToExitCode(proc[p].report)]_vars
  <2> SUFFICES ASSUME TypeInv, AccountInv, [Next]_vars, NEW p \in Pids,
                      proc[p].life = "dead", proc'[p].life = "reaped"
               PROVE  statuses'[p] = ToExitCode(proc[p].report)
    OBVIOUS
  <2>1. ASSUME NEW q \in Pids, Reported(q) PROVE p = q
    BY <2>1 DEF Reported, TakeReport, Collect, TypeInv, ProcOK, Processes
  <2>2. \A q \in Pids : ~Reported(q) => ~Gentle /\ ~Launches /\ \A id \in JobIds : ~Dropped(id)
    BY DEF Gentle, ChildrenStep, AliveIn, Launches, Launch, NextPids, Fresh, Dropped
  <2>3. \E q \in Pids : Reported(q)
    BY <2>2, StepShapes
  <2>4. TakeReport(p)
    BY <2>1, <2>3 DEF Reported
  <2> QED BY <2>4, RetainTrue DEF AccountInv
<1> QED BY <1>1, Accounted, PTL DEF Spec, ReapedIsRetained

\* While the wait builtin waits, only an answer moves it to its next operand.
LEMMA WaitMoves ==
    ASSUME TypeInv, [Next]_vars, shell.at = "wait", shell'.at = "wait", shell'.todo # shell.todo
    PROVE  WaitAnswered \/ WaitPidReport
<1>1. shell' # shell
  OBVIOUS
<1>2. ~UNCHANGED vars /\ ~Environment /\ ~Launches
  BY <1>1 DEF vars, Environment, ChildExits, ChildStops, ChildContinues, Launches, Launch
<1>3. ~MainLoop
  BY DEF MainLoop, StartTick, StartIdle, ReadLine, EndLine, StartBuiltin, CleanupDone, GoPolling, Go,
         Cleaning
<1>4. ~Polls /\ ~Cleans /\ ~Interrupts
  BY <1>1 DEF Polls, PollChild, Cleans, CleanJob, Interrupts, ReapPending, WaitInterrupted
<1>5. ~Builtin /\ ~Wait
  BY DEF Builtin, NoEffect, Jobs, Bg, Fg, FgCompleted, Kill, KillStop, KillContinue, Disown,
         ProtectFromHup, Wait, StartWait, InBuiltin
<1>6. ~ExecStopped /\ ~ExecCompleted /\ ~FgDone /\ ~WaitNextAnswered /\ ~WaitNextNoChild
  BY DEF ExecStopped, ExecCompleted, FgDone, WaitNextAnswered, WaitNextNoChild
<1>7. ~NotAChild /\ ~WaitDone
  BY DEF NotAChild, WaitDone, Return, At
<1>8. \A p \in Pids : ~ExecReport(p) /\ ~WaitJobReport(p) /\ ~WaitNextReport(p)
  BY <1>1 DEF ExecReport, WaitJobReport, WaitNextReport
<1> QED BY <1>2, <1>3, <1>4, <1>5, <1>6, <1>7, <1>8 DEF Next, Waits

\* What wait says of a dead process, or of a finished job, is how it died.
THEOREM WaitAlwaysTellsTheTruth == Spec => WaitTellsTheTruth
<1> DEFINE target == Head(shell.todo)
           p == IF target.job # NoJob THEN jobs[target.job].last ELSE target.pid
<1>1. ASSUME TypeInv, AccountInv, [Next]_vars,
             shell.at = "wait", shell'.at = "wait", shell'.todo # shell.todo,
             proc'[p].life = "reaped", target.job # NoJob => Completed(jobs[target.job])
      PROVE  lastExit' = ToExitCode(proc[p].report)
  <2>1. CASE WaitAnswered
    <3>1. target \in Targets /\ TargetReady(target) /\ Answer(target)
      BY <1>1, <2>1, HeadTypes DEF WaitAnswered, SomeReady, TypeInv, ShellOK, Shells
    <3>2. CASE target.job # NoJob
      <4>1. target.job \in execTable /\ Completed(jobs[target.job])
        BY <1>1, <3>1, <3>2, TargetTypes, RecordedJob
      <4>2. Truthful(jobs[target.job], proc)
        BY <1>1, <4>1 DEF AccountInv, RecordsTrue
      <4>3. ResultOf(jobs[target.job], proc[p].report)
        BY <3>2, <4>1, <4>2 DEF Truthful
      <4>4. lastExit' = jobs[target.job].exitStatus
        BY <3>1, <3>2, <4>1 DEF Answer, Result
      <4> QED BY <4>3, <4>4 DEF ResultOf
    <3>3. CASE target.job = NoJob
      <4>1. p \in Pids /\ statuses[p] # NoStatus /\ lastExit' = statuses[p]
        BY <3>1, <3>3, TargetTypes DEF TargetReady, Answer
      <4> QED BY <1>1, <4>1 DEF AccountInv, RetainedIsTrue
    <3> QED BY <3>2, <3>3
  <2>2. CASE WaitPidReport
    <3>1. target.job = NoJob /\ p = target.pid /\ p \in Pids
      BY <1>1, <2>2, HeadTypes, TargetTypes DEF WaitPidReport, Waited, TypeInv
    <3>2. /\ TakeReport(p)
          /\ lastExit' = IF proc[p].report.kind = "stopped" THEN 128 + proc[p].report.n
                         ELSE ToExitCode(proc[p].report)
      BY <2>2, <3>1 DEF WaitPidReport
    <3>3. proc[p].life = "dead"
      BY <1>1, <3>1, <3>2 DEF TakeReport, Collect, HasReport, Unreaped, TypeInv, ProcOK, Processes
    <3>4. IsTerminal(proc[p].report)
      BY <1>1, <3>1, <3>3 DEF AccountInv, KernelOK
    <3> QED BY <3>2, <3>4 DEF IsTerminal
  <2> QED BY <1>1, <2>1, <2>2, WaitMoves
<1>2. TypeInv /\ AccountInv /\ [Next]_vars =>
        [shell.at = "wait" /\ shell'.at = "wait" /\ shell'.todo # shell.todo =>
          LET head == Head(shell.todo)
              pid == IF head.job # NoJob THEN jobs[head.job].last ELSE head.pid
          IN  proc'[pid].life = "reaped" /\ (head.job # NoJob => Completed(jobs[head.job])) =>
                  lastExit' = ToExitCode(proc[pid].report)]_vars
  BY <1>1
<1> QED BY <1>2, Accounted, PTL DEF Spec, WaitTellsTheTruth

(***************************************************************************)
(* Stops are noticed.  What fg and kill of one process do to a pipeline    *)
(* is what it takes to forget one: they clear all of a record's stopped    *)
(* members, and continue none or one of them.                              *)
(***************************************************************************)
Unforgetting == MaxMembers = 1 \/ Commands \cap {"fg", "kill pid"} = {}

\* A stop that was reported.
Silent(process) == process.life = "stopped" /\ process.report = NoReport

\* What is reported of a stopped child is that it stopped.
StopsTold == \A p \in Pids : proc[p].life = "stopped" => proc[p].report.kind \in {"none", "stopped"}

NoticedIn(r, processes) == \A p \in r.remaining : Silent(processes[p]) => p \in r.stopped

\* A job of one member that is stopped is a stopped job.
StopKnown(r) == (\A p, q \in r.members : p = q) /\ (r.stopped # {} => Stopped(r))

NoticeInv ==
    /\ StopsTold
    /\ \A id \in execTable : NoticedIn(jobs[id], proc)
    /\ MaxMembers = 1 => \A id \in execTable : StopKnown(jobs[id])

\* Whoever stops has a report, and an update clears the stopped members only if they run again.
Told(processes, processes2) ==
    \A p \in Pids : processes2[p] = processes[p] \/ processes2[p].life # "stopped"
                        \/ processes2[p].report.kind = "stopped"
Keeps(r, r2, processes2) ==
    /\ r2.members = r.members /\ r2.remaining = r.remaining
    /\ \/ r2.stopped = r.stopped /\ (Stopped(r) => Stopped(r2))
       \/ r2.stopped = {} /\ \A p \in r.stopped : ~Silent(processes2[p])

Attentive == Told(proc, proc') /\ \A id \in execTable : Keeps(jobs[id], jobs'[id], proc')

LEMMA KeepsSame == \A r, processes2 : Keeps(r, r, processes2)
BY DEF Keeps

LEMMA NoticedKept ==
    ASSUME NEW r, NEW r2, NEW processes, NEW processes2, r.remaining \subseteq Pids,
           Told(processes, processes2), Keeps(r, r2, processes2), NoticedIn(r, processes)
    PROVE  NoticedIn(r2, processes2)
<1> SUFFICES ASSUME NEW p \in r2.remaining, Silent(processes2[p]) PROVE p \in r2.stopped
  BY DEF NoticedIn
<1>1. p \in r.remaining /\ p \in Pids
  BY DEF Keeps
<1>2. NoReport.kind = "none"
  BY DEF NoReport
<1>3. processes2[p] = processes[p]
  BY <1>1, <1>2 DEF Told, Silent
<1>4. p \in r.stopped
  BY <1>1, <1>3 DEF NoticedIn
<1> QED BY <1>4 DEF Keeps

LEMMA NoticeAttentive ==
    ASSUME TypeInv, AccountInv, NoticeInv, Attentive, UNCHANGED execTable
    PROVE  NoticeInv'
<1>1. execTable \subseteq JobIds
  BY DEF TypeInv, CountersOK
<1>2. StopsTold'
  BY DEF NoticeInv, StopsTold, Attentive, Told
<1>3. ASSUME NEW id \in execTable PROVE NoticedIn(jobs'[id], proc')
  <2>1. jobs[id].remaining \subseteq Pids
    BY <1>1, MembersArePids DEF Records
  <2> QED BY <2>1, NoticedKept DEF NoticeInv, Attentive
<1>4. ASSUME NEW id \in execTable, StopKnown(jobs[id]) PROVE StopKnown(jobs'[id])
  BY <1>4 DEF Attentive, Keeps, StopKnown
<1> QED BY <1>2, <1>3, <1>4 DEF NoticeInv

\* What the shell does to a record on its own.
LEMMA KeepsNotify ==
    ASSUME NEW r \in Records, NEW atPrompt, NEW processes2
    PROVE  /\ Keeps(r, NotifyStopped(r, atPrompt), processes2)
           /\ Keeps(r, NotifyFinished(r, atPrompt), processes2)
           /\ Keeps(r, Cleaned(r, atPrompt), processes2)
<1>1. Keeps(r, NotifyStopped(r, atPrompt), processes2)
  BY DEF NotifyStopped, Keeps, Stopped, Records
<1>2. Keeps(r, NotifyFinished(r, atPrompt), processes2)
  <2>1. CASE NotifyFinished(r, atPrompt) = r
    BY <2>1 DEF Keeps
  <2>2. CASE NotifyFinished(r, atPrompt) = [r EXCEPT !.notified = TRUE]
    BY <2>2 DEF Keeps, Stopped, Records
  <2>3. CASE NotifyFinished(r, atPrompt) = [r EXCEPT !.notified = TRUE, !.doneMessages = Bump(@)]
    BY <2>3 DEF Keeps, Stopped, Records
  <2> QED BY <2>1, <2>2, <2>3 DEF NotifyFinished
<1>3. Cleaned(r, atPrompt) \in {r, NotifyStopped(r, atPrompt), NotifyFinished(r, atPrompt)}
  BY DEF Cleaned
<1> QED BY <1>1, <1>2, <1>3, KeepsSame

LEMMA KeepsUpdates ==
    ASSUME NEW r \in Records, NEW signal, NEW processes2
    PROVE  /\ Keeps(r, [r EXCEPT !.suppress = TRUE], processes2)
           /\ Keeps(r, [r EXCEPT !.hupProtected = TRUE], processes2)
           /\ Keeps(r, [r EXCEPT !.notified = TRUE], processes2)
           /\ Keeps(r, AfterStop(r, signal), processes2)
           /\ Keeps(r, NotifyStopped([r EXCEPT !.deferStop = FALSE], FALSE), processes2)
<1>1. Keeps(r, [r EXCEPT !.suppress = TRUE], processes2)
  BY DEF Keeps, Stopped, Records
<1>2. Keeps(r, [r EXCEPT !.hupProtected = TRUE], processes2)
  BY DEF Keeps, Stopped, Records
<1>3. Keeps(r, [r EXCEPT !.notified = TRUE], processes2)
  BY DEF Keeps, Stopped, Records
<1>4. Keeps(r, AfterStop(r, signal), processes2)
  BY DEF Keeps, Stopped, Records, AfterStop
<1>5. Keeps(r, NotifyStopped([r EXCEPT !.deferStop = FALSE], FALSE), processes2)
  <2> DEFINE calm == [r EXCEPT !.deferStop = FALSE]
  <2>1. calm \in Records /\ calm.members = r.members /\ calm.remaining = r.remaining
        /\ calm.stopped = r.stopped /\ calm.state = r.state
    BY DEF Records
  <2> HIDE DEF calm
  <2>2. Keeps(calm, NotifyStopped(calm, FALSE), processes2)
    BY <2>1, KeepsNotify
  <2>3. Keeps(r, NotifyStopped(calm, FALSE), processes2)
    BY <2>1, <2>2 DEF Keeps, Stopped
  <2> QED BY <2>3 DEF calm
<1> QED BY <1>1, <1>2, <1>3, <1>4, <1>5

\* A record that runs again, with everybody who had stopped.
LEMMA KeepsRunning ==
    ASSUME NEW r \in Records, NEW ground, NEW processes2, \A p \in r.stopped : ~Silent(processes2[p])
    PROVE  /\ Keeps(r, MarkRunning(r), processes2)
           /\ Keeps(r, [MarkRunning(r) EXCEPT !.background = ground, !.notified = FALSE], processes2)
           /\ Keeps(r, [MarkRunning(r) EXCEPT !.background = ground, !.deferStop = FALSE], processes2)
<1>1. Keeps(r, MarkRunning(r), processes2)
  BY DEF Keeps, Records, MarkRunning
<1>2. Keeps(r, [MarkRunning(r) EXCEPT !.background = ground, !.notified = FALSE], processes2)
  BY DEF Keeps, Records, MarkRunning
<1>3. Keeps(r, [MarkRunning(r) EXCEPT !.background = ground, !.deferStop = FALSE], processes2)
  BY DEF Keeps, Records, MarkRunning
<1> QED BY <1>1, <1>2, <1>3

LEMMA ContinuedRun ==
    ASSUME NEW processes, NEW set
    PROVE  /\ Told(processes, ContinueAll(processes, set))
           /\ \A p \in set \cap Pids : ~Silent(ContinueAll(processes, set)[p])
BY DEF Told, ContinueAll, Silent

LEMMA SameTold == ASSUME UNCHANGED proc PROVE Told(proc, proc')
BY DEF Told

\* Storing one record.
LEMMA StoreAttentive ==
    ASSUME TypeInv, Told(proc, proc'), NEW id \in JobIds, NEW r,
           Keeps(jobs[id], r, proc'), jobs' = [jobs EXCEPT ![id] = r]
    PROVE  Attentive
<1>1. execTable \subseteq JobIds /\ jobs \in [JobIds -> Records]
  BY DEF TypeInv, CountersOK, JobsOK
<1>2. jobs'[id] = r /\ \A other \in JobIds : other # id => jobs'[other] = jobs[other]
  BY <1>1
<1> QED BY <1>1, <1>2, KeepsSame DEF Attentive

LEMMA QuietIsAttentive ==
    ASSUME UNCHANGED <<proc, jobs>> PROVE Attentive
BY KeepsSame DEF Attentive, Told

LEMMA EnvironmentAttends == ASSUME TypeInv, Environment PROVE Attentive
<1> PICK p \in Pids : ChildExits(p) \/ ChildStops(p) \/ ChildContinues(p)
  BY DEF Environment
<1>1. UNCHANGED jobs
  BY DEF ChildExits, ChildStops, ChildContinues
<1>2. Told(proc, proc')
  <2>1. CASE ChildExits(p)
    BY <2>1 DEF ChildExits, Told, TypeInv, ProcOK, Processes
  <2>2. CASE ChildStops(p)
    BY <2>2 DEF ChildStops, Stops, Told, TypeInv, ProcOK, Processes
  <2>3. CASE ChildContinues(p)
    BY <2>3, ContinuedRun DEF ChildContinues
  <2> QED BY <2>1, <2>2, <2>3
<1> QED BY <1>1, <1>2, KeepsSame DEF Attentive

LEMMA CleansAttends == ASSUME TypeInv, Cleans PROVE Attentive
<1> PICK id \in table : CleanJob(id)
  BY DEF Cleans
<1> DEFINE next == Cleaned(jobs[id], shell.at = "tick")
<1>1. id \in JobIds /\ jobs[id] \in Records
  BY MembersArePids DEF TypeInv, MarksInv
<1>2. Keeps(jobs[id], next, proc')
  BY <1>1, KeepsNotify
<1>3. jobs' = [jobs EXCEPT ![id] = next] /\ UNCHANGED proc
  BY DEF CleanJob
<1> HIDE DEF next
<1> QED BY <1>1, <1>2, <1>3, StoreAttentive, SameTold

\* The stopped members of a job of one process are its members, if it has any; those of a job
\* that is not stopped are none.
LEMMA FewMembers ==
    ASSUME TypeInv, AccountInv, NoticeInv, NEW id \in table
    PROVE  /\ id \in execTable /\ id \in JobIds /\ jobs[id] \in Records
           /\ jobs[id].members \subseteq Pids /\ jobs[id].stopped \subseteq jobs[id].members
           /\ MaxMembers = 1 => \A p \in jobs[id].members : jobs[id].members = {p}
           /\ MaxMembers = 1 /\ ~Stopped(jobs[id]) => jobs[id].stopped = {}
<1>1. id \in execTable /\ id \in JobIds /\ jobs[id] \in Records /\ jobs[id].members \subseteq Pids
  BY MembersArePids DEF AccountInv, Listed, TypeInv, MarksInv
<1>2. jobs[id].stopped \subseteq jobs[id].members
  BY <1>1 DEF AccountInv, RecordsTrue, Truthful
<1>3. MaxMembers = 1 => StopKnown(jobs[id])
  BY <1>1 DEF NoticeInv
<1>4. MaxMembers = 1 => \A p \in jobs[id].members : jobs[id].members = {p}
  BY <1>3 DEF StopKnown
<1>5. MaxMembers = 1 /\ ~Stopped(jobs[id]) => jobs[id].stopped = {}
  BY <1>3 DEF StopKnown
<1> QED BY <1>1, <1>2, <1>4, <1>5

LEMMA BuiltinAttends ==
    ASSUME Unforgetting, TypeInv, AccountInv, NoticeInv, Builtin
    PROVE  Attentive \/ \E id \in JobIds : Dropped(id)
<1>0. execTable \subseteq JobIds
  BY DEF TypeInv, CountersOK
<1>1. CASE NoEffect
  BY <1>1, QuietIsAttentive DEF NoEffect
<1>2. ASSUME NEW listed \in {table} \cup {{id} : id \in table}, Jobs(listed) PROVE Attentive
  <2>1. jobs' = [id \in JobIds |-> IF id \in listed /\ Completed(jobs[id])
                                   THEN [jobs[id] EXCEPT !.notified = TRUE] ELSE jobs[id]]
        /\ UNCHANGED proc
    BY <1>2 DEF Jobs
  <2>2. ASSUME NEW id \in JobIds PROVE Keeps(jobs[id], jobs'[id], proc')
    <3>1. jobs[id] \in Records
      BY MembersArePids
    <3>2. jobs'[id] = jobs[id] \/ jobs'[id] = [jobs[id] EXCEPT !.notified = TRUE]
      BY <2>1
    <3> QED BY <3>1, <3>2, KeepsUpdates, KeepsSame
  <2> QED BY <1>0, <2>1, <2>2, SameTold DEF Attentive
<1>3. ASSUME NEW id \in table, Bg(id) PROVE Attentive
  <2> DEFINE moved == [MarkRunning(jobs[id]) EXCEPT !.background = TRUE, !.notified = FALSE]
  <2>1. proc' = ContinueAll(proc, jobs[id].members) /\ jobs' = [jobs EXCEPT ![id] = moved]
    BY <1>3 DEF Bg, Resume
  <2>2. \A p \in jobs[id].stopped : ~Silent(proc'[p])
    BY <2>1, FewMembers, ContinuedRun
  <2>3. Keeps(jobs[id], moved, proc')
    BY <2>2, FewMembers, KeepsRunning
  <2> HIDE DEF moved
  <2> QED BY <2>1, <2>3, FewMembers, ContinuedRun, StoreAttentive
<1>4. ASSUME NEW id \in table, "fg" \in Commands, Fg(id) PROVE Attentive
  <2> DEFINE moved == [MarkRunning(jobs[id]) EXCEPT !.background = FALSE, !.notified = FALSE]
             woken == IF Stopped(jobs[id]) THEN jobs[id].members ELSE {}
  <2>1. proc' = ContinueAll(proc, woken) /\ jobs' = [jobs EXCEPT ![id] = moved]
    BY <1>4 DEF Fg, Resume
  <2>2. MaxMembers = 1
    BY <1>4 DEF Unforgetting
  <2>3. \A p \in jobs[id].stopped : p \in woken \cap Pids
    BY <2>2, FewMembers
  <2> HIDE DEF woken
  <2>4. \A p \in jobs[id].stopped : ~Silent(proc'[p])
    BY <2>1, <2>3, ContinuedRun
  <2>5. Keeps(jobs[id], moved, proc')
    BY <2>4, FewMembers, KeepsRunning
  <2> HIDE DEF moved
  <2> QED BY <2>1, <2>5, FewMembers, ContinuedRun, StoreAttentive
<1>5. ASSUME NEW id \in table, FgCompleted(id) PROVE Attentive
  <2> DEFINE told == NotifyFinished(jobs[id], FALSE)
  <2>1. Keeps(jobs[id], told, proc')
    BY FewMembers, KeepsNotify
  <2>2. jobs' = [jobs EXCEPT ![id] = told] /\ UNCHANGED proc
    BY <1>5 DEF FgCompleted
  <2> HIDE DEF told
  <2> QED BY <2>1, <2>2, FewMembers, SameTold, StoreAttentive
<1>6. ASSUME NEW id \in table, NEW targets, KillStop(id, targets) PROVE Attentive
  <2>1. PICK signal \in StopSignals : jobs' = [jobs EXCEPT ![id] = AfterStop(@, signal)]
    BY <1>6 DEF KillStop
  <2>2. Keeps(jobs[id], AfterStop(jobs[id], signal), proc')
    BY FewMembers, KeepsUpdates
  <2>3. UNCHANGED proc
    BY <1>6 DEF KillStop
  <2> QED BY <2>1, <2>2, <2>3, FewMembers, SameTold, StoreAttentive
<1>7. ASSUME NEW id \in table, NEW targets, jobs[id].stopped \subseteq targets, KillContinue(id, targets)
      PROVE  Attentive
  <2>1. proc' = ContinueAll(proc, targets) /\ jobs' = [jobs EXCEPT ![id] = MarkRunning(jobs[id])]
    BY <1>7 DEF KillContinue, Resume
  <2>2. \A p \in jobs[id].stopped : ~Silent(proc'[p])
    BY <1>7, <2>1, FewMembers, ContinuedRun
  <2>3. Keeps(jobs[id], MarkRunning(jobs[id]), proc')
    BY <2>2, FewMembers, KeepsRunning
  <2> QED BY <2>1, <2>3, FewMembers, ContinuedRun, StoreAttentive
<1>8. ASSUME NEW id \in table, Kill(id) PROVE Attentive
  <2>1. CASE KillStop(id, jobs[id].members) \/ KillContinue(id, jobs[id].members)
    BY <1>6, <1>7, <2>1, FewMembers
  <2>2. ASSUME "kill pid" \in Commands, NEW p \in jobs[id].members,
               KillStop(id, {p}) \/ KillContinue(id, {p})
        PROVE  Attentive
    <3>1. MaxMembers = 1
      BY <2>2 DEF Unforgetting
    <3>2. jobs[id].stopped \subseteq {p}
      BY <3>1, FewMembers
    <3> QED BY <1>6, <1>7, <2>2, <3>2
  <2> QED BY <1>8, <2>1, <2>2 DEF Kill
<1>9. ASSUME NEW id \in table, Disown(id) PROVE \E other \in JobIds : Dropped(other)
  BY <1>9, FewMembers, RemoveJobUseful, MarksAreUseful DEF Disown, Dropped
<1>10. ASSUME NEW id \in table, ProtectFromHup(id) PROVE Attentive
  <2>1. Keeps(jobs[id], [jobs[id] EXCEPT !.hupProtected = TRUE], proc')
    BY FewMembers, KeepsUpdates
  <2>2. jobs' = [jobs EXCEPT ![id] = [jobs[id] EXCEPT !.hupProtected = TRUE]] /\ UNCHANGED proc
    BY <1>10 DEF ProtectFromHup
  <2> QED BY <2>1, <2>2, FewMembers, SameTold, StoreAttentive
<1> QED BY <1>1, <1>2, <1>3, <1>4, <1>5, <1>8, <1>9, <1>10 DEF Builtin

Attends == Attentive /\ UNCHANGED execTable

LEMMA BuiltinKeepsTable ==
    ASSUME Unforgetting, TypeInv, AccountInv, NoticeInv, Builtin
    PROVE  Attends \/ \E id \in JobIds : Dropped(id)
<1>1. CASE UNCHANGED execTable
  BY <1>1, BuiltinAttends DEF Attends
<1>2. CASE execTable' # execTable
  <2>1. PICK id \in table : Disown(id)
    BY <1>2 DEF Builtin, NoEffect, Jobs, Bg, Fg, FgCompleted, Kill, KillStop, KillContinue, ProtectFromHup
  <2> QED BY <2>1, FewMembers, RemoveJobUseful, MarksAreUseful DEF Disown, Dropped
<1> QED BY <1>1, <1>2

LEMMA MainLoopAttends == ASSUME MainLoop PROVE Attends
BY QuietIsAttentive DEF Attends, MainLoop, StartTick, StartIdle, ReadLine, EndLine, StartBuiltin,
                        CleanupDone, GoPolling, Go

LEMMA WaitAttends == ASSUME TypeInv, Wait PROVE Attends
<1>1. PICK place, force, list, operands : StartWait(place, force, list, operands)
  BY DEF Wait
<1>2. jobs' = Suppress(list) /\ UNCHANGED <<proc, execTable>>
  BY <1>1 DEF StartWait
<1>3. ASSUME NEW id \in JobIds PROVE Keeps(jobs[id], jobs'[id], proc')
  <2>1. jobs[id] \in Records /\ jobs'[id] \in {jobs[id], [jobs[id] EXCEPT !.suppress = TRUE]}
    BY <1>2, MembersArePids DEF Suppress
  <2> QED BY <2>1, KeepsUpdates, KeepsSame
<1> QED BY <1>2, <1>3, SameTold DEF Attends, Attentive, TypeInv, CountersOK

LEMMA ExecAttends ==
    ASSUME TypeInv, AccountInv, ExecStopped \/ ExecCompleted
    PROVE  Attends \/ \E id \in JobIds : Dropped(id)
<1>1. Waited \in JobIds /\ jobs[Waited] \in Records
  BY MembersArePids DEF ExecStopped, ExecCompleted, TypeInv, ShellOK
<1>2. CASE ExecStopped
  <2> DEFINE record == jobs[Waited]
             told == NotifyStopped([record EXCEPT !.deferStop = FALSE], FALSE)
             moved == [MarkRunning(record) EXCEPT !.background = TRUE, !.deferStop = FALSE]
  <2>1. Waited \in execTable
    BY <1>1, <1>2, RecordedJob DEF ExecStopped
  <2>2. \/ jobs' = [jobs EXCEPT ![Waited] = moved] /\ proc' = ContinueAll(proc, record.members)
        \/ jobs' = [jobs EXCEPT ![Waited] = told] /\ UNCHANGED proc
    BY <1>2 DEF ExecStopped
  <2>3. UNCHANGED execTable
    BY <1>2 DEF ExecStopped
  <2>4. Keeps(record, told, proc')
    BY <1>1, KeepsUpdates
  <2>5. CASE jobs' = [jobs EXCEPT ![Waited] = moved] /\ proc' = ContinueAll(proc, record.members)
    <3>1. record.stopped \subseteq record.members \cap Pids
      BY <1>1, <2>1 DEF AccountInv, RecordsTrue, Truthful, Records
    <3>2. \A p \in record.stopped : ~Silent(proc'[p])
      BY <2>5, <3>1, ContinuedRun
    <3>3. Keeps(record, moved, proc')
      BY <1>1, <3>2, KeepsRunning
    <3> HIDE DEF moved
    <3> QED BY <1>1, <2>3, <2>5, <3>3, ContinuedRun, StoreAttentive DEF Attends
  <2> HIDE DEF told
  <2>6. CASE jobs' = [jobs EXCEPT ![Waited] = told] /\ UNCHANGED proc
    BY <1>1, <2>3, <2>4, <2>6, SameTold, StoreAttentive DEF Attends
  <2> QED BY <2>2, <2>5, <2>6
<1>3. CASE ExecCompleted
  BY <1>1, <1>3, RemoveJobUseful, MarksAreUseful DEF ExecCompleted, Dropped
<1> QED BY <1>2, <1>3

LEMMA FgDoneAttends == ASSUME TypeInv, FgDone PROVE Attends
<1>1. Waited \in JobIds /\ jobs[Waited] \in Records
  BY MembersArePids DEF FgDone, TypeInv, ShellOK
<1> DEFINE finished == NotifyFinished(jobs[Waited], FALSE)
           halted == NotifyStopped(jobs[Waited], FALSE)
<1>2. Keeps(jobs[Waited], finished, proc') /\ Keeps(jobs[Waited], halted, proc')
  BY <1>1, KeepsNotify
<1>3. /\ jobs' = [jobs EXCEPT ![Waited] = finished] \/ jobs' = [jobs EXCEPT ![Waited] = halted]
      /\ UNCHANGED <<proc, execTable>>
  BY DEF FgDone
<1> HIDE DEF finished, halted
<1> QED BY <1>1, <1>2, <1>3, SameTold, StoreAttentive DEF Attends

LEMMA WaitsAttend ==
    ASSUME TypeInv, AccountInv, Waits
    PROVE  Attends \/ (\E p \in Pids : Reported(p)) \/ (\E id \in JobIds : Dropped(id))
<1>1. CASE ExecStopped \/ ExecCompleted
  BY <1>1, ExecAttends
<1>2. CASE FgDone
  BY <1>2, FgDoneAttends
<1>3. CASE WaitAnswered \/ WaitNextAnswered \/ NotAChild \/ WaitDone \/ WaitNextNoChild
  BY <1>3, QuietIsAttentive
     DEF Attends, WaitAnswered, WaitNextAnswered, NotAChild, WaitDone, WaitNextNoChild
<1>4. CASE WaitPidReport
  <2>1. Head(shell.todo).pid \in Pids
    BY <1>4, HeadTypes, TargetTypes DEF WaitPidReport, Waited, TypeInv
  <2> QED BY <1>4, <2>1 DEF WaitPidReport, Reported
<1>5. ASSUME NEW p \in Pids, ExecReport(p) \/ WaitJobReport(p) \/ WaitNextReport(p)
      PROVE  Reported(p)
  BY <1>5 DEF ExecReport, WaitJobReport, WaitNextReport, Reported
<1> QED BY <1>1, <1>2, <1>3, <1>4, <1>5 DEF Waits

LEMMA StepsAttend ==
    ASSUME Unforgetting, TypeInv, AccountInv, NoticeInv, [Next]_vars
    PROVE  \/ Attends
           \/ \E p \in Pids : Reported(p)
           \/ Launches
           \/ \E id \in JobIds : Dropped(id)
<1>1. CASE UNCHANGED vars
  BY <1>1, QuietIsAttentive DEF vars, Attends
<1>2. CASE Polls
  <2> PICK p \in Pids : PollChild(p)
    BY <1>2 DEF Polls
  <2>1. CASE HasReport(p)
    BY <2>1 DEF PollChild, Reported
  <2>2. CASE ~HasReport(p)
    BY <2>2, QuietIsAttentive DEF PollChild, Attends
  <2> QED BY <2>1, <2>2
<1>3. CASE Interrupts
  BY <1>3 DEF Interrupts, ReapPending, WaitInterrupted, Reported
<1>4. CASE Environment
  BY <1>4, EnvironmentAttends DEF Attends, Environment, ChildExits, ChildStops, ChildContinues
<1>5. CASE Cleans
  BY <1>5, CleansAttends DEF Attends, Cleans, CleanJob
<1> QED BY <1>1, <1>2, <1>3, <1>4, <1>5, MainLoopAttends, BuiltinKeepsTable, WaitAttends,
           WaitsAttend DEF Next

\* A report of an unreaped member, noted in its record.
LEMMA ReportNoticed ==
    ASSUME NEW r \in Records, NEW processes \in Processes, NEW processes2, NEW p \in r.members,
           Truthful(r, processes), UnreapedIn(processes[p]), processes[p].report \in Reports,
           processes[p].life = "dead" <=> IsTerminal(processes[p].report),
           processes[p].life = "stopped" => processes[p].report.kind \in {"none", "stopped"},
           processes2 = [processes EXCEPT ![p] = Reap(@)],
           NoticedIn(r, processes)
    PROVE  LET next == RecordWaitStatus(r, p, processes[p].report)
           IN  NoticedIn(next, processes2) /\ (StopKnown(r) => StopKnown(next))
<1> DEFINE report == processes[p].report
           next == RecordWaitStatus(r, p, report)
<1>0. p \in Pids /\ p \in r.remaining /\ r.members \subseteq Pids /\ r.remaining \subseteq r.members
      /\ r.stopped \subseteq r.remaining
  BY DEF Truthful, Records
<1>1. \A q \in Pids : q # p => processes2[q] = processes[q]
  BY <1>0 DEF Processes
<1>2. processes2[p] = Reap(processes[p])
  BY <1>0 DEF Processes
<1>3. report.kind \in {"exited", "signaled", "stopped", "continued"}
  BY DEF Reports, Terminal, Stops, Continued
<1>4. CASE report.kind = "stopped"
  <2> DEFINE halted == [r EXCEPT !.stopped = @ \cup {p}, !.stopSignal = report.n]
  <2>1. next = Settle(halted)
    BY <1>4, Zenon DEF RecordWaitStatus, IsTerminal
  <2>2. halted.members = r.members /\ halted.remaining = r.remaining
        /\ halted.stopped = r.stopped \cup {p} /\ halted \in Records
    <3>1. report.n \in 0..64
      BY ReportBounds, <1>4 DEF IsTerminal
    <3> QED BY <1>0, <3>1 DEF Records
  <2> HIDE DEF halted
  <2>3. next.members = r.members /\ next.remaining = r.remaining
        /\ next.stopped = r.stopped \cup {p} /\ next.state = Aggregate(halted)
    BY <2>1, <2>2 DEF Settle, Records
  <2> HIDE DEF next
  <2>4. NoticedIn(next, processes2)
    BY <1>0, <1>1, <2>3 DEF NoticedIn
  <2>5. ASSUME StopKnown(r) PROVE StopKnown(next)
    <3>1. r.remaining = {p} /\ r.stopped \cup {p} = {p}
      BY <1>0, <2>5 DEF StopKnown
    <3>2. Aggregate(halted) = "stopped"
      <4>1. halted.remaining # {} /\ halted.stopped = halted.remaining /\ halted.remaining = {p}
        BY <2>2, <3>1
      <4>2. Cardinality(halted.remaining) = 1 /\ Cardinality(halted.stopped) = 1
        BY <4>1, FS_Singleton
      <4> QED BY <4>1, <4>2 DEF Aggregate
    <3> QED BY <2>3, <2>5, <3>2 DEF StopKnown, Stopped
  <2> QED BY <2>4, <2>5 DEF next
<1>5. CASE report.kind = "continued"
  <2>1. next = [r EXCEPT !.stopped = @ \ {p}, !.stopSignal = 0,
                         !.state = "running", !.stopNotified = FALSE]
    BY <1>5, Zenon DEF RecordWaitStatus, IsTerminal
  <2>2. next.members = r.members /\ next.remaining = r.remaining /\ next.stopped = r.stopped \ {p}
    BY <2>1 DEF Records
  <2>3. processes2[p].life # "stopped"
    BY <1>0, <1>2, <1>5 DEF Reap, IsTerminal, Processes
  <2> HIDE DEF next
  <2>4. NoticedIn(next, processes2)
    BY <1>0, <1>1, <2>2, <2>3 DEF NoticedIn, Silent
  <2>5. StopKnown(r) => StopKnown(next)
    BY <1>0, <2>2 DEF StopKnown
  <2> QED BY <2>4, <2>5 DEF next
<1>6. CASE IsTerminal(report)
  <2> DEFINE left == RecordTerminal(r, p, report)
  <2>1. next = Settle(left)
    BY <1>6 DEF RecordWaitStatus, IsTerminal
  <2>2. left.members = r.members /\ left.remaining = r.remaining \ {p} /\ left.stopped = r.stopped \ {p}
        /\ DOMAIN left = DOMAIN r
    BY DEF RecordTerminal, Records
  <2> HIDE DEF left
  <2>3. next.members = r.members /\ next.remaining = r.remaining \ {p} /\ next.stopped = r.stopped \ {p}
    BY <2>1, <2>2 DEF Settle, Records
  <2> HIDE DEF next
  <2>4. NoticedIn(next, processes2)
    BY <1>0, <1>1, <2>3 DEF NoticedIn
  <2>5. StopKnown(r) => StopKnown(next)
    BY <1>0, <2>3 DEF StopKnown
  <2> QED BY <2>4, <2>5 DEF next
<1> QED BY <1>3, <1>4, <1>5, <1>6 DEF IsTerminal

LEMMA AppliedNoticed ==
    ASSUME NEW r \in Records, NEW processes \in Processes, NEW processes2, NEW p \in r.members,
           Truthful(r, processes), UnreapedIn(processes[p]), processes[p].report \in Reports,
           processes[p].life = "dead" <=> IsTerminal(processes[p].report),
           processes[p].life = "stopped" => processes[p].report.kind \in {"none", "stopped"},
           processes2 = [processes EXCEPT ![p] = Reap(@)],
           NoticedIn(r, processes), NEW managed \in BOOLEAN
    PROVE  LET next == Applied(r, p, processes[p].report, managed)
           IN  NoticedIn(next, processes2) /\ (StopKnown(r) => StopKnown(next))
<1> DEFINE report == processes[p].report
           plain == RecordWaitStatus(r, p, report)
           next == Applied(r, p, report, managed)
<1>1. p \in Pids /\ plain \in Records
  BY RecordWaitStatusType DEF Records
<1>2. NoticedIn(plain, processes2) /\ (StopKnown(r) => StopKnown(plain))
  BY ReportNoticed
<1>3. \/ next = plain
      \/ next = NotifyFinished(plain, FALSE)
      \/ next = NotifyStopped(plain, FALSE)
  BY Zenon DEF Applied
<1> HIDE DEF plain, next
<1>4. Keeps(plain, next, processes2)
  BY <1>1, <1>3, KeepsSame, KeepsNotify
<1>5. Told(processes2, processes2) /\ plain.remaining \subseteq Pids
  BY <1>1 DEF Told, Records
<1>6. NoticedIn(next, processes2)
  BY <1>2, <1>4, <1>5, NoticedKept
<1>7. StopKnown(plain) => StopKnown(next)
  BY <1>4 DEF Keeps, StopKnown
<1> QED BY <1>2, <1>6, <1>7 DEF next

\* Children that are not its members do not matter to a record.
LEMMA UntouchedNoticed ==
    ASSUME NEW r, NEW processes, NEW processes2, r.remaining \subseteq r.members,
           \A p \in r.members : processes2[p] = processes[p], NoticedIn(r, processes)
    PROVE  NoticedIn(r, processes2)
BY DEF NoticedIn

LEMMA NoticeReported ==
    ASSUME TypeInv, AccountInv, NoticeInv, NEW p \in Pids, Reported(p)
    PROVE  NoticeInv'
<1> USE DEF AccountInv
<1>1. execTable \subseteq JobIds /\ jobs \in [JobIds -> Records] /\ proc \in Processes
  BY DEF TypeInv, CountersOK, JobsOK, ProcOK
<1>2. /\ Unreaped(p) /\ UnreapedIn(proc[p]) /\ proc[p].report \in Reports
      /\ proc[p].life = "dead" <=> IsTerminal(proc[p].report)
      /\ proc[p].life = "stopped" => proc[p].report.kind \in {"none", "stopped"}
  BY <1>1 DEF Reported, TakeReport, HasReport, Unreaped, UnreapedIn, KernelOK, AliveIn, Processes,
              NoticeInv, StopsTold
<1>3. proc' = [proc EXCEPT ![p] = Reap(@)]
  BY ReapedProc DEF Reported
<1>4. /\ \A q \in Pids : q # p => proc'[q] = proc[q]
      /\ proc'[p] = Reap(proc[p])
  BY <1>1, <1>3 DEF Processes
<1>5. StopsTold'
  <2>1. NoReport.kind = "none"
    BY DEF NoReport
  <2>2. proc'[p].life = "stopped" => proc'[p].report.kind \in {"none", "stopped"}
    BY <1>1, <1>4, <2>1 DEF Reap, Processes
  <2> QED BY <1>4, <2>2 DEF StopsTold, NoticeInv
<1>6. \A id \in execTable : jobs[id].members \subseteq Pids /\ jobs[id].remaining \subseteq jobs[id].members
  BY <1>1, MembersArePids DEF RecordsTrue, Truthful
<1>7. \A id \in execTable : p \notin jobs[id].members => NoticedIn(jobs[id], proc')
  BY <1>4, <1>6, UntouchedNoticed DEF NoticeInv
<1>8. CASE Owners(p) = {}
  <2>1. UNCHANGED <<jobs, execTable>>
    BY <1>8 DEF Reported, TakeReport, HandleChildStatus
  <2>2. \A id \in execTable : p \notin jobs[id].members
    BY <1>2, <1>8, OwnerIsOnlyOne
  <2> QED BY <1>5, <1>7, <2>1, <2>2 DEF NoticeInv
<1>9. CASE Owners(p) # {}
  <2> DEFINE managed == Managed(p) # {}
  <2>1. PICK id \in Owners(p) :
           jobs' = [jobs EXCEPT ![id] = Applied(@, p, proc[p].report, managed)]
    BY <1>9 DEF Reported, TakeReport, HandleChildStatus
  <2>2. id \in execTable /\ p \in jobs[id].members /\ id \in JobIds
    BY <1>1, <1>2, OwnerIsOnlyOne
  <2>3. \A other \in execTable : other # id => p \notin jobs[other].members
    BY <2>2 DEF Disjoint
  <2>4. /\ jobs'[id] = Applied(jobs[id], p, proc[p].report, managed)
        /\ \A other \in JobIds : other # id => jobs'[other] = jobs[other]
    BY <1>1, <2>1, <2>2
  <2>5. NoticedIn(jobs'[id], proc') /\ (StopKnown(jobs[id]) => StopKnown(jobs'[id]))
    <3>1. jobs[id] \in Records /\ Truthful(jobs[id], proc) /\ NoticedIn(jobs[id], proc)
      BY <1>1, <2>2 DEF RecordsTrue, NoticeInv
    <3>2. managed \in BOOLEAN
      OBVIOUS
    <3> HIDE DEF managed
    <3> DEFINE next == Applied(jobs[id], p, proc[p].report, managed)
    <3>3. NoticedIn(next, proc') /\ (StopKnown(jobs[id]) => StopKnown(next))
      BY <1>1, <1>2, <1>3, <2>2, <3>1, <3>2, AppliedNoticed
    <3> QED BY <2>4, <3>3
  <2>6. UNCHANGED execTable
    BY DEF Reported
  <2>7. \A other \in execTable : NoticedIn(jobs'[other], proc')
    BY <1>1, <1>7, <2>3, <2>4, <2>5
  <2>8. MaxMembers = 1 => \A other \in execTable : StopKnown(jobs'[other])
    BY <1>1, <2>4, <2>5 DEF NoticeInv
  <2> QED BY <1>5, <2>6, <2>7, <2>8 DEF NoticeInv
<1> QED BY <1>8, <1>9

\* A pipeline of one process.
LEMMA OnePid == \A p, q \in NextPids(1) : p = q
<1> SUFFICES ASSUME NEW p \in NextPids(1), NEW q \in NextPids(1), q < p PROVE FALSE
  BY DEF NextPids, Fresh, Pids
<1> DEFINE before == {other \in Fresh : other < p}
<1>1. p \in Fresh /\ q \in before /\ Cardinality(before) < 1
  BY DEF NextPids
<1>2. IsFiniteSet(before)
  BY FS_Interval, FS_Subset, PidBound DEF Fresh, Pids
<1> HIDE DEF before
<1>3. Cardinality(before) \in Nat /\ Cardinality(before) # 0
  BY <1>1, <1>2, FS_CardinalityType, FS_EmptySet
<1> QED BY <1>1, <1>3

LEMMA NoticeLaunched == ASSUME TypeInv, AccountInv, NoticeInv, Launches PROVE NoticeInv'
<1> USE DEF AccountInv
<1>1. execTable \subseteq JobIds /\ jobs \in [JobIds -> Records] /\ proc \in Processes
      /\ \A id \in JobIds : jobs[id].members \subseteq Pids
  BY MembersArePids DEF TypeInv, CountersOK, JobsOK, ProcOK
<1>2. PICK size \in 1..MaxMembers, background \in BOOLEAN, auto \in AutoBackgrounds :
         Launch(size, background, auto)
  BY DEF Launches
<1> DEFINE members == NextPids(size)
           record == NewRecord(members, LastOf(members), background, auto)
<1>3. members \subseteq Pids /\ \A p \in members : proc[p].life = "unborn"
  BY DEF NextPids, Fresh
<1>4. nextJob \in JobIds /\ nextJob \notin execTable /\ execTable' = execTable \cup {nextJob}
  BY <1>2 DEF Launch, Numbered, JobIds
<1>5. /\ jobs'[nextJob] = record
      /\ \A id \in JobIds : id # nextJob => jobs'[id] = jobs[id]
  <2>1. jobs' = [jobs EXCEPT ![nextJob] = record]
    BY <1>2 DEF Launch
  <2> HIDE DEF record
  <2> QED BY <1>1, <1>4, <2>1
<1>6. \A p \in Pids : /\ p \in members => proc'[p] = [life |-> "running", report |-> NoReport]
                      /\ p \notin members => proc'[p] = proc[p]
  <2>1. proc' = [p \in Pids |-> IF p \in members THEN [life |-> "running", report |-> NoReport]
                                ELSE proc[p]]
    BY <1>2 DEF Launch
  <2> HIDE DEF members
  <2> QED BY <2>1
<1>7. record.members = members /\ record.remaining = members /\ record.stopped = {}
  BY DEF NewRecord
<1>8. MaxMembers = 1 => \A p, q \in members : p = q
  BY OnePid
<1> HIDE DEF members, record
<1>9. \A p \in members : proc'[p].life = "running"
  BY <1>3, <1>6
<1>10. StopsTold'
  BY <1>6, <1>9 DEF StopsTold, NoticeInv
<1>11. ASSUME NEW id \in execTable
       PROVE  NoticedIn(jobs'[id], proc') /\ (MaxMembers = 1 => StopKnown(jobs'[id]))
  <2>1. jobs'[id] = jobs[id]
    BY <1>1, <1>4, <1>5
  <2>2. jobs[id].remaining \subseteq jobs[id].members /\ \A p \in jobs[id].members : proc'[p] = proc[p]
    BY <1>1, <1>3, <1>6 DEF RecordsTrue, Truthful
  <2> QED BY <2>1, <2>2, UntouchedNoticed DEF NoticeInv
<1>12. NoticedIn(record, proc')
  BY <1>7, <1>9 DEF NoticedIn, Silent
<1>13. MaxMembers = 1 => StopKnown(record)
  BY <1>7, <1>8 DEF StopKnown
<1> QED BY <1>4, <1>5, <1>10, <1>11, <1>12, <1>13 DEF NoticeInv

LEMMA NoticeDropped ==
    ASSUME TypeInv, NoticeInv, NEW id \in JobIds, Dropped(id)
    PROVE  NoticeInv'
<1>1. execTable \subseteq JobIds /\ jobs \in [JobIds -> Records]
  BY DEF TypeInv, CountersOK, JobsOK
<1>2. \A other \in execTable' : other \in execTable /\ jobs'[other] = jobs[other]
  BY <1>1 DEF Dropped
<1> QED BY <1>2 DEF Dropped, NoticeInv, StopsTold

LEMMA NoticeInit == Init => NoticeInv
BY DEF Init, NoticeInv, StopsTold, Unborn

LEMMA NoticeNext ==
    ASSUME Unforgetting
    PROVE  TypeInv /\ AccountInv /\ NoticeInv /\ [Next]_vars => NoticeInv'
BY StepsAttend, NoticeAttentive, NoticeReported, NoticeLaunched, NoticeDropped DEF Attends

\* As long as jobs have one process, or neither fg nor kill of one process is
\* used, no child that the shell has a record of stops without its record
\* knowing, once its report has been taken: fg is never left waiting for a stop
\* that nobody will report again.
THEOREM StopsAlwaysNoticed ==
    ASSUME Unforgetting
    PROVE  Spec => []NoUnnoticedStop
<1>1. AccountInv /\ NoticeInv => NoUnnoticedStop
  BY DEF AccountInv, Listed, NoticeInv, NoticedIn, Silent, NoUnnoticedStop
<1>2. Init => NoticeInv
  BY NoticeInit
<1>3. TypeInv /\ AccountInv /\ NoticeInv /\ [Next]_vars => NoticeInv'
  BY NoticeNext
<1> QED BY <1>1, <1>2, <1>3, Accounted, PTL DEF Spec
=============================================================================
