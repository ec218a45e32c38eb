---------------------------- MODULE AsyncPrompt ----------------------------
(***************************************************************************)
(* The primary prompt and the workers that compute the Git status in it    *)
(* (AsyncGitPromptManager of core/prompt.cpp).  The main thread renders a  *)
(* prompt, waits a moment for the status, and otherwise leaves a           *)
(* placeholder, to be filled when a worker's result is announced to the    *)
(* editor by a key event.  A worker is a detached thread that outlives its *)
(* prompt.  Each action is one critical section of the manager's mutex, or *)
(* what a thread does between two of them.  The shell is interactive       *)
(* (async_enabled_cached_), and only PS1 holds Git segments.               *)
(***************************************************************************)
EXTENDS Integers

CONSTANTS
    Repositories, \* directories inside Git repositories
    Elsewhere,    \* directories outside, or in a repository without a branch
    MaxSegments,  \* bound: Git segments (\g) in PS1
    MaxPrompts    \* bound: prompts rendered

ASSUME BoundsAreNat == MaxSegments \in Nat /\ MaxPrompts \in Nat
ASSUME Apart == Repositories \cap Elsewhere = {}

Directories == Repositories \cup Elsewhere

VARIABLES
    dir,       \* the shell's working directory
    at,        \* the main thread: loop, render, wait, announce, ready or read
    left,      \* segments of PS1 yet to be rendered
    manager,   \* the members of AsyncGitPromptManager
    cached,    \* repositories whose status is in the cache
    workers,   \* the threads: what each computes for and where it is
    allowed,   \* g_prompt_refresh_allowed
    events,    \* refresh events in the editor's queue
    filled,    \* history: the computed status shown in the prompt, if any
    announced  \* history: an announcement of this prompt's result was tried

main == <<dir, at, left>>
vars == <<dir, at, left, manager, cached, workers, allowed, events, filled, announced>>

\* What a worker hands over names the prompt and the repository it computed for.
NoStatus == [request |-> 0]
Statuses == [request : 1 .. MaxPrompts, dir : Repositories] \cup {NoStatus}

\* awaiting_async_result_ is set and cleared with refresh_pending_; workerRunning is
\* FALSE as soon as any worker ends, be it of an earlier prompt.
Managers ==
    [active : 0 .. MaxPrompts, workerRunning : BOOLEAN, workerRequest : 0 .. MaxPrompts,
     refreshPending : BOOLEAN, snapshotReady : BOOLEAN, snapshotRequest : 0 .. MaxPrompts,
     notifyWhenReady : BOOLEAN, resultReady : BOOLEAN, resultRequest : 0 .. MaxPrompts,
     placeholders : 0 .. MaxSegments, segment : Statuses]

\* A worker is named by its prompt and the segment it was started for: a segment
\* starts one at most, but two segments of a prompt may.
Workers ==
    [request : 1 .. MaxPrompts, for : 1 .. MaxSegments, dir : Repositories,
     at : {"compute", "store", "gate", "push"}]

Init ==
    /\ dir \in Directories
    /\ at = "loop"
    /\ left = 0
    /\ manager = [active |-> 0, workerRunning |-> FALSE, workerRequest |-> 0,
                  refreshPending |-> FALSE, snapshotReady |-> FALSE, snapshotRequest |-> 0,
                  notifyWhenReady |-> FALSE, resultReady |-> FALSE, resultRequest |-> 0,
                  placeholders |-> 0, segment |-> NoStatus]
    /\ cached = {}
    /\ workers = {}
    /\ allowed = FALSE
    /\ events = 0
    /\ filled = NoStatus
    /\ announced = FALSE

\* reset_async_state_locked
Reset ==
    [manager EXCEPT !.refreshPending = FALSE, !.snapshotReady = FALSE,
                    !.notifyWhenReady = FALSE, !.resultReady = FALSE,
                    !.placeholders = 0, !.segment = NoStatus]

-----------------------------------------------------------------------------
(* The main thread renders the prompt                                      *)

\* A command changes the directory, or what a cached status was computed from.
RunCommand ==
    /\ at = "loop"
    /\ dir' \in Directories
    /\ cached' \in SUBSET cached
    /\ UNCHANGED <<at, left, manager, workers, allowed, events, filled, announced>>

\* begin_render; the previous result stays in segment until the next one.
BeginRender ==
    /\ at = "loop"
    /\ manager.active < MaxPrompts
    /\ manager' = [Reset EXCEPT !.active = @ + 1, !.segment = manager.segment]
    /\ at' = "render"
    /\ left' \in 0 .. MaxSegments
    /\ filled' = NoStatus
    /\ announced' = FALSE
    /\ UNCHANGED <<dir, cached, workers, allowed, events>>

\* append_segment outside a repository clears what earlier segments left; a
\* repository without a branch gets no status.
AppendNothing ==
    /\ at = "render" /\ left > 0 /\ dir \in Elsewhere
    /\ manager' \in {Reset, manager}
    /\ left' = left - 1
    /\ UNCHANGED <<dir, at, cached, workers, allowed, events, filled, announced>>

\* The cached status is fresh: it is used, and the state of earlier segments cleared.
AppendCached ==
    /\ at = "render" /\ left > 0 /\ dir \in cached
    /\ manager' = Reset
    /\ left' = left - 1
    /\ UNCHANGED <<dir, at, cached, workers, allowed, events, filled, announced>>

\* mutant: any running worker is taken for the one of this prompt
NeedsFirstWorker == ~manager.workerRunning

NeedsWorker == ~manager.workerRunning \/ manager.workerRequest # manager.active

\* start_worker_locked, if the running worker is not this prompt's; then the wait.
AppendAsk ==
    /\ at = "render" /\ left > 0 /\ dir \in Repositories
    /\ IF NeedsWorker
       THEN /\ workers' = workers \cup {[request |-> manager.active, for |-> left,
                                         dir |-> dir, at |-> "compute"]}
            /\ manager' = [manager EXCEPT !.workerRunning = TRUE,
                                          !.workerRequest = manager.active]
       ELSE UNCHANGED <<workers, manager>>
    /\ at' = "wait"
    /\ UNCHANGED <<dir, left, cached, allowed, events, filled, announced>>

Answered == manager.resultReady /\ manager.resultRequest = manager.active

\* The result came within kGitInlineBudget.
AnsweredInline ==
    /\ at = "wait"
    /\ Answered
    /\ filled' = manager.segment
    /\ manager' = Reset
    /\ left' = left - 1
    /\ at' = "render"
    /\ UNCHANGED <<dir, cached, workers, allowed, events, announced>>

\* It did not: the segment becomes a placeholder.
TimedOut ==
    /\ at = "wait"
    /\ ~Answered
    /\ manager' = [manager EXCEPT !.refreshPending = TRUE, !.placeholders = @ + 1]
    /\ left' = left - 1
    /\ at' = "render"
    /\ UNCHANGED <<dir, cached, workers, allowed, events, filled, announced>>

\* mutant: the snapshot is asked for before it is taken
NotifiesOfSnapshot == manager.notifyWhenReady /\ manager.snapshotReady

\* finalize_render notifies of a result that came after its segment timed out.
NotifiesAtEnd ==
    /\ manager.notifyWhenReady
    /\ manager.resultReady
    /\ manager.resultRequest = manager.active

FinalizeRender ==
    /\ at = "render" /\ left = 0
    /\ IF ~manager.refreshPending \/ manager.placeholders = 0
       THEN /\ manager' = [manager EXCEPT !.snapshotReady = FALSE, !.notifyWhenReady = FALSE]
            /\ at' = "ready"
       ELSE /\ manager' = [manager EXCEPT !.snapshotReady = TRUE,
                                          !.snapshotRequest = manager.active,
                                          !.notifyWhenReady = @ /\ ~NotifiesAtEnd]
            /\ at' = IF NotifiesAtEnd THEN "announce" ELSE "ready"
    /\ UNCHANGED <<dir, left, cached, workers, allowed, events, filled, announced>>

\* The end of finalize_render, outside the lock.
Announce ==
    /\ at = "announce"
    /\ events' = IF allowed THEN events + 1 ELSE events
    /\ announced' = TRUE
    /\ at' = "ready"
    /\ UNCHANGED <<dir, left, manager, cached, workers, allowed, filled>>

-----------------------------------------------------------------------------
(* The main thread reads a line                                            *)

\* Before it, the right prompt may have computed the status at once, and cached it.
StartReading ==
    /\ at = "ready"
    /\ cached' \in {cached, cached \cup ({dir} \cap Repositories)}
    /\ allowed' = TRUE
    /\ at' = "read"
    /\ UNCHANGED <<dir, left, manager, workers, events, filled, announced>>

\* The line is submitted, or idle hooks run and the same prompt is read again.
StopReading ==
    /\ at = "read"
    /\ allowed' = FALSE
    /\ at' \in {"loop", "ready"}
    /\ UNCHANGED <<dir, left, manager, cached, workers, events, filled, announced>>

Refreshable ==
    /\ manager.refreshPending /\ manager.resultReady /\ manager.snapshotReady
    /\ manager.snapshotRequest = manager.resultRequest
    /\ manager.placeholders > 0

\* consume_ready_prompt: the placeholders are filled, and everything is cleared.
Consume(takes) ==
    /\ filled' = IF Refreshable /\ takes THEN manager.segment ELSE filled
    /\ manager' = IF Refreshable THEN Reset ELSE manager

\* handle_async_prompt_refresh, of an event the editor pops; once something is
\* typed the new prompt is consumed but not shown.
HandleEvent ==
    /\ at = "read"
    /\ events > 0
    /\ events' = events - 1
    /\ \E nothingTyped \in BOOLEAN : Consume(nothingTyped)
    /\ UNCHANGED <<dir, at, left, cached, workers, allowed, announced>>

-----------------------------------------------------------------------------
(* The workers                                                             *)

Moves(w, place) == workers' = (workers \ {w}) \cup {[w EXCEPT !.at = place]}

\* The status is computed and cached.
StoreStatus(w) ==
    /\ w.at = "compute"
    /\ cached' = cached \cup {w.dir}
    /\ Moves(w, "store")
    /\ UNCHANGED <<main, manager, allowed, events, filled, announced>>

\* mutant: a result is taken for the active prompt whatever it was computed for
AcceptedFromAny(m, w) ==
    [m EXCEPT !.workerRunning = FALSE,
              !.segment = [request |-> w.request, dir |-> w.dir],
              !.resultReady = TRUE, !.resultRequest = m.active,
              !.notifyWhenReady = @ \/ (m.refreshPending /\ ~m.snapshotReady)]

\* The members that w's result changes; that of an earlier prompt is ignored.
Accepted(m, w) ==
    IF w.request # m.active
    THEN [m EXCEPT !.workerRunning = FALSE]
    ELSE [m EXCEPT !.workerRunning = FALSE,
                   !.segment = [request |-> w.request, dir |-> w.dir],
                   !.resultReady = TRUE, !.resultRequest = w.request,
                   !.notifyWhenReady = @ \/ (m.refreshPending /\ ~m.snapshotReady)]

\* handle_worker_result, up to the release of the lock.
HandleResult(w) ==
    /\ w.at = "store"
    /\ manager' = Accepted(manager, w)
    /\ IF w.request = manager.active /\ manager.refreshPending /\ manager.snapshotReady
       THEN Moves(w, "gate")
       ELSE workers' = workers \ {w}
    /\ UNCHANGED <<main, cached, allowed, events, filled, announced>>

\* The rest of it: the gate is read, and only an open one lets the event through.
PassGate(w) ==
    /\ w.at = "gate"
    /\ IF allowed THEN Moves(w, "push") ELSE workers' = workers \ {w}
    /\ announced' = (announced \/ (~allowed /\ w.request = manager.active))
    /\ UNCHANGED <<main, manager, cached, allowed, events, filled>>

\* ic_push_key_event: the worker and the editor change push_count without a lock, so
\* while the editor reads the event may be lost.
PushEvent(w) ==
    /\ w.at = "push"
    /\ events' \in (IF at = "read" THEN {events, events + 1} ELSE {events + 1})
    /\ announced' = (announced \/ w.request = manager.active)
    /\ workers' = workers \ {w}
    /\ UNCHANGED <<main, manager, cached, allowed, filled>>

Worker(w) == StoreStatus(w) \/ HandleResult(w) \/ PassGate(w) \/ PushEvent(w)

Next ==
    \/ RunCommand \/ BeginRender
    \/ AppendNothing \/ AppendCached \/ AppendAsk \/ AnsweredInline \/ TimedOut
    \/ FinalizeRender \/ Announce
    \/ StartReading \/ StopReading \/ HandleEvent
    \/ \E w \in workers : Worker(w)

Spec == Init /\ [][Next]_vars

-----------------------------------------------------------------------------

\* Every variable has its type.
TypeOK ==
    /\ dir \in Directories
    /\ at \in {"loop", "render", "wait", "announce", "ready", "read"}
    /\ left \in 0 .. MaxSegments
    /\ manager \in Managers
    /\ cached \in SUBSET Repositories
    /\ workers \in SUBSET Workers
    /\ allowed \in BOOLEAN
    /\ events \in Nat
    /\ filled \in Statuses
    /\ announced \in BOOLEAN

\* A status shown in the prompt being edited was computed for this very prompt and
\* for the repository the shell is in, however many workers of earlier prompts end
\* late or at once (request_id, result_request_id_ and pending_prompt_request_id_).
MarkerBelongs ==
    at = "read" /\ filled # NoStatus =>
        filled = [request |-> manager.active, dir |-> dir]

\* A prompt that left placeholders has its result, or a worker that will still bring
\* it: no stale worker is mistaken for the one the prompt needs (worker_running_ and
\* worker_request_id_).
PlaceholderServed ==
    manager.refreshPending =>
        \/ Answered
        \/ \E w \in workers : w.request = manager.active /\ w.at \in {"compute", "store"}

\* The announcement of a prompt that can be refreshed was tried, or some thread is about
\* to try: a result that comes between the time out and the end of the rendering is not
\* forgotten (notify_when_snapshot_ready_).  That the editor hears of it is not said: the
\* gate may be closed and a push may be lost.
NoticeGiven ==
    Refreshable =>
        \/ announced \/ at = "announce"
        \/ \E w \in workers : w.request = manager.active /\ w.at \in {"gate", "push"}
=============================================================================
