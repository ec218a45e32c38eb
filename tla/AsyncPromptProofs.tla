------------------------- MODULE AsyncPromptProofs -------------------------
(***************************************************************************)
(* For any number of repositories, segments and prompts: the status shown  *)
(* belongs to the prompt, a placeholder is always served, and a result is  *)
(* always announced.                                                       *)
(***************************************************************************)
EXTENDS AsyncPrompt, TLAPS

Rendering == at \in {"render", "wait"}

\* A worker whose result for the active prompt is yet to come.
Serving == \E w \in workers : w.request = manager.active /\ w.at \in {"compute", "store"}

Own == [request |-> manager.active, dir |-> dir]

\* Where the main thread is, against the counters and the snapshot.
Control ==
    /\ at # "loop" => manager.active > 0
    /\ manager.workerRequest <= manager.active
    /\ Rendering => manager.placeholders + left <= MaxSegments /\ ~manager.snapshotReady
    /\ at = "wait" => left > 0
    /\ manager.refreshPending => manager.placeholders > 0

\* What was computed for the active prompt was computed where it is rendered.
Owned ==
    /\ \A w \in workers :
          /\ w.request <= manager.active
          /\ at # "loop" /\ w.request = manager.active => w.dir = dir
    /\ manager.resultReady => manager.resultRequest = manager.active
    /\ manager.resultReady /\ at # "loop" => manager.segment = Own
    /\ filled # NoStatus /\ at # "loop" => filled = Own

\* A worker that is believed to run for the active prompt does, and the main thread
\* waits for one that does.
Served ==
    /\ manager.workerRunning /\ manager.workerRequest = manager.active => Serving
    /\ at = "wait" => Answered \/ Serving
    /\ manager.refreshPending => Answered \/ Serving

\* A result that came after its segment timed out is remembered until the rendering ends.
Noticed ==
    /\ Rendering /\ manager.refreshPending /\ manager.resultReady => manager.notifyWhenReady
    /\ NoticeGiven

Inv == TypeOK /\ Control /\ Owned /\ Served /\ Noticed

\* The constants that the operations store in the manager.
LEMMA FieldValues ==
    /\ TRUE \in BOOLEAN /\ FALSE \in BOOLEAN
    /\ 0 \in 0 .. MaxSegments /\ 0 \in 0 .. MaxPrompts
    /\ NoStatus \in Statuses
BY BoundsAreNat DEF Statuses

LEMMA ResetClears ==
    ASSUME manager \in Managers
    PROVE  /\ Reset \in Managers
           /\ Reset.active = manager.active
           /\ Reset.workerRunning = manager.workerRunning
           /\ Reset.workerRequest = manager.workerRequest
           /\ ~Reset.refreshPending /\ ~Reset.snapshotReady
           /\ ~Reset.notifyWhenReady /\ ~Reset.resultReady
           /\ Reset.placeholders = 0
BY FieldValues DEF Managers, Reset

LEMMA InvInit == Init => Inv
<1> SUFFICES ASSUME Init PROVE Inv
  OBVIOUS
<1>1. manager \in Managers
  BY FieldValues DEF Init, Managers
<1>2. TypeOK
  BY <1>1, FieldValues, BoundsAreNat DEF Init, TypeOK, Directories, Workers
<1>3. Control /\ Owned /\ Served /\ Noticed
  BY DEF Init, Control, Owned, Served, Noticed, Rendering, NoticeGiven, Refreshable
<1> QED BY <1>2, <1>3 DEF Inv

\* What a worker that ends makes of the manager.
LEMMA Finished ==
    ASSUME NEW m \in Managers, NEW w \in Workers
    PROVE  LET r == Accepted(m, w) IN
           /\ r \in Managers
           /\ r.active = m.active
           /\ ~r.workerRunning /\ r.workerRequest = m.workerRequest
           /\ r.refreshPending = m.refreshPending /\ r.snapshotReady = m.snapshotReady
           /\ r.snapshotRequest = m.snapshotRequest /\ r.placeholders = m.placeholders
           /\ w.request # m.active => /\ r.notifyWhenReady = m.notifyWhenReady
                                      /\ r.resultReady = m.resultReady
                                      /\ r.resultRequest = m.resultRequest
                                      /\ r.segment = m.segment
           /\ w.request = m.active =>
                /\ r.resultReady /\ r.resultRequest = m.active
                /\ r.segment = [request |-> w.request, dir |-> w.dir]
                /\ m.refreshPending /\ ~m.snapshotReady => r.notifyWhenReady
<1>1. CASE w.request # m.active
  BY <1>1, FieldValues DEF Accepted, Managers
<1>2. CASE w.request = m.active
  <2>1. [request |-> w.request, dir |-> w.dir] \in Statuses
    BY DEF Workers, Statuses
  <2>2. w.request \in 0 .. MaxPrompts
    BY BoundsAreNat DEF Workers
  <2>3. (m.notifyWhenReady \/ (m.refreshPending /\ ~m.snapshotReady)) \in BOOLEAN
    OBVIOUS
  <2> DEFINE status == [request |-> w.request, dir |-> w.dir]
             notify == m.notifyWhenReady \/ (m.refreshPending /\ ~m.snapshotReady)
  <2>4. Accepted(m, w) = [m EXCEPT !.workerRunning = FALSE, !.segment = status,
                                   !.resultReady = TRUE, !.resultRequest = w.request,
                                   !.notifyWhenReady = notify]
    BY <1>2 DEF Accepted
  <2>5. m.refreshPending /\ ~m.snapshotReady => notify
    OBVIOUS
  <2>6. status \in Statuses /\ notify \in BOOLEAN
    BY <2>1, <2>3
  <2>7. status = [request |-> w.request, dir |-> w.dir]
    OBVIOUS
  <2> HIDE DEF status, notify
  <2> QED BY <1>2, <2>2, <2>4, <2>5, <2>6, <2>7, FieldValues DEF Managers
<1> QED BY <1>1, <1>2

\* A worker keeps what it was started for.
LEMMA Moved ==
    ASSUME NEW w \in workers, NEW place \in {"compute", "store", "gate", "push"},
           workers \in SUBSET Workers, Moves(w, place)
    PROVE  /\ workers' \in SUBSET Workers
           /\ \A v \in workers' :
                 \/ v \in workers /\ v # w
                 \/ v.request = w.request /\ v.dir = w.dir /\ v.at = place
           /\ \E v \in workers' : v.request = w.request /\ v.dir = w.dir /\ v.at = place
           /\ \A v \in workers : v # w => v \in workers'
<1> DEFINE moved == [w EXCEPT !.at = place]
<1>1. moved \in Workers /\ moved.request = w.request /\ moved.dir = w.dir /\ moved.at = place
  BY DEF Workers
<1>2. workers' = (workers \ {w}) \cup {moved}
  BY DEF Moves
<1> HIDE DEF moved
<1> QED BY <1>1, <1>2

\* A prompt that begins has room for all its placeholders.
LEMMA NothingUsed ==
    ASSUME NEW used, NEW rest \in 0 .. MaxSegments, used = 0
    PROVE  used + rest <= MaxSegments
BY BoundsAreNat

\* Every action preserves the invariant: a step by action, and by case inside it.
LEMMA InvNext == Inv /\ [Next]_vars => Inv'
<1> SUFFICES ASSUME Inv, [Next]_vars PROVE Inv'
  OBVIOUS
<1> USE BoundsAreNat DEF Inv, TypeOK, Control, Owned, Served, Noticed, Rendering, Serving,
    NoticeGiven, Refreshable, Answered, Own
<1>0. /\ manager.placeholders \in Nat /\ manager.active \in Nat /\ left \in Nat
      /\ \A w \in workers : w.request \in Nat
  BY DEF Managers, Workers
<1>1. CASE UNCHANGED vars
  BY <1>1 DEF vars
<1>2. CASE RunCommand
  BY <1>2 DEF RunCommand
<1>3. CASE BeginRender
  <2>1. manager.active + 1 \in 1 .. MaxPrompts
    BY <1>3 DEF BeginRender, Managers
  <2>2. manager.segment \in Statuses
    BY DEF Managers
  <2>3. /\ manager' \in Managers
        /\ manager'.active = manager.active + 1
        /\ ~manager'.refreshPending /\ ~manager'.resultReady /\ ~manager'.snapshotReady
        /\ manager'.placeholders = 0
        /\ manager'.workerRunning = manager.workerRunning
        /\ manager'.workerRequest = manager.workerRequest
    <3> DEFINE cleared == Reset
    <3>1. manager' = [cleared EXCEPT !.active = manager.active + 1, !.segment = manager.segment]
      BY <1>3, ResetClears DEF BeginRender
    <3>2. manager.active + 1 \in 0 .. MaxPrompts
      BY <2>1
    <3>3. manager \in Managers
      OBVIOUS
    <3>4. /\ cleared \in Managers
          /\ cleared.workerRunning = manager.workerRunning
          /\ cleared.workerRequest = manager.workerRequest
          /\ ~cleared.refreshPending /\ ~cleared.snapshotReady /\ ~cleared.resultReady
          /\ cleared.placeholders = 0
      BY ONLY <3>3, ResetClears
    <3> HIDE DEF cleared
    <3> QED BY ONLY <2>2, <3>1, <3>2, <3>4 DEF Managers
  <2>4. manager.workerRequest \in Nat /\ manager.workerRequest <= manager.active
    BY DEF Managers
  <2>5. \A w \in workers : w.request # manager.active + 1
    BY <1>0
  <2>6. /\ at' = "render" /\ left' \in 0 .. MaxSegments /\ filled' = NoStatus
        /\ announced' = FALSE /\ UNCHANGED <<dir, cached, workers, allowed, events>>
    BY <1>3 DEF BeginRender
  <2>7. TypeOK'
    BY <2>3, <2>6, FieldValues
  <2>8. Control'
    <3>1. /\ manager.active \in Nat /\ manager.workerRequest \in Nat
          /\ manager.workerRequest <= manager.active /\ MaxSegments \in Nat
      BY <1>0, <2>4
    <3>2. manager'.active > 0
      BY ONLY <2>3, <3>1
    <3>3. manager'.workerRequest <= manager'.active
      BY ONLY <2>3, <3>1
    <3>4. manager'.placeholders + left' <= MaxSegments
      <4>1. left' \in 0 .. MaxSegments /\ manager'.placeholders = 0
        BY ONLY <2>3, <2>6
      <4> QED BY ONLY <4>1, NothingUsed, Zenon
    <3>5. ~manager'.snapshotReady /\ ~manager'.refreshPending /\ at' = "render"
      BY ONLY <2>3, <2>6
    <3> QED BY ONLY <3>2, <3>3, <3>4, <3>5 DEF Control, Rendering
  <2>9. Owned'
    BY <1>0, <2>3, <2>5, <2>6
  <2>10. Served' /\ Noticed'
    BY <1>0, <2>3, <2>4, <2>6
  <2> QED BY <2>7, <2>8, <2>9, <2>10
<1>4. CASE AppendNothing
  <2>1. CASE manager' = Reset
    BY <1>4, <2>1, ResetClears DEF AppendNothing
  <2>2. CASE manager' = manager
    BY <1>0, <1>4, <2>2 DEF AppendNothing
  <2> QED BY <1>4, <2>1, <2>2 DEF AppendNothing
<1>5. CASE AppendCached
  BY <1>5, ResetClears DEF AppendCached
<1>6. CASE AppendAsk
  <2>1. CASE NeedsWorker
    <3> DEFINE worker == [request |-> manager.active, for |-> left, dir |-> dir, at |-> "compute"]
    <3>1. worker \in Workers /\ worker.request = manager.active
          /\ worker.dir = dir /\ worker.at = "compute"
      BY <1>6 DEF AppendAsk, Managers, Workers
    <3>2. workers' = workers \cup {worker}
      BY <1>6, <2>1 DEF AppendAsk
    <3>3. manager' = [manager EXCEPT !.workerRunning = TRUE, !.workerRequest = manager.active]
      BY <1>6, <2>1 DEF AppendAsk
    <3>4. manager \in Managers
      OBVIOUS
    <3>5. /\ manager' \in Managers
          /\ manager'.active = manager.active
          /\ manager'.workerRunning /\ manager'.workerRequest = manager.active
          /\ manager'.refreshPending = manager.refreshPending
          /\ manager'.snapshotReady = manager.snapshotReady
          /\ manager'.notifyWhenReady = manager.notifyWhenReady
          /\ manager'.resultReady = manager.resultReady
          /\ manager'.resultRequest = manager.resultRequest
          /\ manager'.placeholders = manager.placeholders
          /\ manager'.segment = manager.segment
          /\ manager'.snapshotRequest = manager.snapshotRequest
      BY ONLY <3>3, <3>4, FieldValues DEF Managers
    <3> HIDE DEF worker
    <3> QED BY <1>0, <1>6, <3>1, <3>2, <3>5 DEF AppendAsk
  <2>2. CASE ~NeedsWorker
    BY <1>6, <2>2 DEF AppendAsk, NeedsWorker
  <2> QED BY <2>1, <2>2
<1>7. CASE AnsweredInline
  BY <1>7, ResetClears DEF AnsweredInline, Managers
<1>8. CASE TimedOut
  <2>1. manager.placeholders + 1 \in 0 .. MaxSegments
    BY <1>0, <1>8 DEF TimedOut
  <2>2. manager' = [manager EXCEPT !.refreshPending = TRUE,
                                   !.placeholders = manager.placeholders + 1]
    BY <1>8 DEF TimedOut
  <2>3. manager \in Managers
    OBVIOUS
  <2>4. /\ manager' \in Managers
        /\ manager'.active = manager.active
        /\ manager'.workerRunning = manager.workerRunning
        /\ manager'.workerRequest = manager.workerRequest
        /\ manager'.refreshPending /\ manager'.snapshotReady = manager.snapshotReady
        /\ manager'.notifyWhenReady = manager.notifyWhenReady
        /\ manager'.resultReady = manager.resultReady
        /\ manager'.resultRequest = manager.resultRequest
        /\ manager'.placeholders = manager.placeholders + 1
        /\ manager'.segment = manager.segment
    BY ONLY <2>1, <2>2, <2>3, FieldValues DEF Managers
  <2> QED BY <1>0, <1>8, <2>4 DEF TimedOut
<1>9. CASE FinalizeRender
  <2>0. manager.notifyWhenReady \in BOOLEAN /\ manager.active \in 0 .. MaxPrompts
        /\ manager.snapshotRequest \in 0 .. MaxPrompts /\ manager \in Managers
    BY DEF Managers
  <2>1. CASE ~manager.refreshPending \/ manager.placeholders = 0
    <3>1. manager' = [manager EXCEPT !.snapshotReady = FALSE,
                                     !.snapshotRequest = manager.snapshotRequest,
                                     !.notifyWhenReady = FALSE]
      BY <1>9, <2>1 DEF FinalizeRender, Managers
    <3>2. /\ manager' \in Managers
          /\ manager'.active = manager.active
          /\ manager'.workerRunning = manager.workerRunning
          /\ manager'.workerRequest = manager.workerRequest
          /\ manager'.refreshPending = manager.refreshPending
          /\ manager'.snapshotReady = FALSE
          /\ manager'.resultReady = manager.resultReady
          /\ manager'.resultRequest = manager.resultRequest
          /\ manager'.placeholders = manager.placeholders
          /\ manager'.segment = manager.segment
      BY ONLY <2>0, <3>1, FieldValues DEF Managers
    <3> QED BY <1>0, <1>9, <2>1, <3>2 DEF FinalizeRender
  <2>2. CASE manager.refreshPending /\ manager.placeholders # 0
    <3> DEFINE notify == manager.notifyWhenReady /\ ~NotifiesAtEnd
    <3>1. manager' = [manager EXCEPT !.snapshotReady = TRUE, !.snapshotRequest = manager.active,
                                     !.notifyWhenReady = notify]
          /\ at' = IF NotifiesAtEnd THEN "announce" ELSE "ready"
      BY <1>9, <2>2 DEF FinalizeRender
    <3>2. notify \in BOOLEAN
      OBVIOUS
    <3>3. manager.resultReady => NotifiesAtEnd
      BY <1>9, <2>2 DEF FinalizeRender, NotifiesAtEnd
    <3> HIDE DEF notify
    <3>4. /\ manager' \in Managers
          /\ manager'.active = manager.active
          /\ manager'.workerRunning = manager.workerRunning
          /\ manager'.workerRequest = manager.workerRequest
          /\ manager'.refreshPending = manager.refreshPending
          /\ manager'.snapshotReady = TRUE
          /\ manager'.resultReady = manager.resultReady
          /\ manager'.resultRequest = manager.resultRequest
          /\ manager'.placeholders = manager.placeholders
          /\ manager'.segment = manager.segment
      BY ONLY <2>0, <3>1, <3>2, FieldValues DEF Managers
    <3> QED BY <1>0, <1>9, <3>1, <3>3, <3>4 DEF FinalizeRender
  <2> QED BY <2>1, <2>2
<1>10. CASE Announce
  BY <1>10 DEF Announce
<1>11. CASE StartReading
  BY <1>11 DEF StartReading
<1>12. CASE StopReading
  BY <1>12 DEF StopReading
<1>13. CASE HandleEvent
  <2>1. CASE Refreshable
    BY <1>13, <2>1, ResetClears DEF HandleEvent, Consume, Managers
  <2>2. CASE ~Refreshable
    BY <1>13, <2>2 DEF HandleEvent, Consume
  <2> QED BY <2>1, <2>2
<1>14. ASSUME NEW w \in workers, StoreStatus(w) PROVE Inv'
  <2>1. w.at = "compute" /\ w.dir \in Repositories /\ Moves(w, "store")
    BY <1>14 DEF StoreStatus, Workers
  <2>2. UNCHANGED <<dir, at, left, manager, allowed, events, filled, announced>>
        /\ cached' = cached \cup {w.dir}
    BY <1>14 DEF StoreStatus, main
  <2> QED BY <2>1, <2>2, Moved
<1>15. ASSUME NEW w \in workers, HandleResult(w) PROVE Inv'
  <2>0. w \in Workers /\ w.at = "store" /\ manager' = Accepted(manager, w)
        /\ UNCHANGED <<dir, at, left, cached, allowed, events, filled, announced>>
    BY <1>15 DEF HandleResult, main
  <2>a. manager \in Managers
    OBVIOUS
  <2>b. /\ manager' \in Managers
        /\ manager'.active = manager.active
        /\ ~manager'.workerRunning /\ manager'.workerRequest = manager.workerRequest
        /\ manager'.refreshPending = manager.refreshPending
        /\ manager'.snapshotReady = manager.snapshotReady
        /\ manager'.placeholders = manager.placeholders
        /\ manager'.snapshotRequest = manager.snapshotRequest
        /\ w.request # manager.active =>
              /\ manager'.notifyWhenReady = manager.notifyWhenReady
              /\ manager'.resultReady = manager.resultReady
              /\ manager'.resultRequest = manager.resultRequest
              /\ manager'.segment = manager.segment
        /\ w.request = manager.active =>
              /\ manager'.resultReady /\ manager'.resultRequest = manager.active
              /\ manager'.segment = [request |-> w.request, dir |-> w.dir]
              /\ manager.refreshPending /\ ~manager.snapshotReady => manager'.notifyWhenReady
    BY ONLY <2>0, <2>a, Finished
  <2>1. CASE w.request = manager.active /\ manager.refreshPending /\ manager.snapshotReady
    <3>1. Moves(w, "gate")
      BY <1>15, <2>1 DEF HandleResult
    <3> QED BY <1>0, <2>0, <2>b, <2>1, <3>1, Moved
  <2>2. CASE ~(w.request = manager.active /\ manager.refreshPending /\ manager.snapshotReady)
    <3>1. workers' = workers \ {w}
      BY <1>15, <2>2 DEF HandleResult
    <3> QED BY <1>0, <2>0, <2>b, <2>2, <3>1
  <2> QED BY <2>1, <2>2
<1>16. ASSUME NEW w \in workers, PassGate(w) PROVE Inv'
  <2>0. w.at = "gate"
        /\ UNCHANGED <<dir, at, left, manager, cached, allowed, events, filled>>
    BY <1>16 DEF PassGate, main
  <2>1. CASE allowed
    <3>1. Moves(w, "push") /\ announced' = announced
      BY <1>16, <2>1 DEF PassGate
    <3> QED BY <2>0, <3>1, Moved
  <2>2. CASE ~allowed
    <3>1. workers' = workers \ {w} /\ announced' = (announced \/ w.request = manager.active)
      BY <1>16, <2>2 DEF PassGate
    <3> QED BY <2>0, <3>1
  <2> QED BY <2>1, <2>2
<1>17. ASSUME NEW w \in workers, PushEvent(w) PROVE Inv'
  <2>1. w.at = "push" /\ events' \in Nat /\ workers' = workers \ {w}
        /\ announced' = (announced \/ w.request = manager.active)
        /\ UNCHANGED <<dir, at, left, manager, cached, allowed, filled>>
    BY <1>17 DEF PushEvent, main
  <2> QED BY <2>1
<1> QED
  BY <1>1, <1>2, <1>3, <1>4, <1>5, <1>6, <1>7, <1>8, <1>9, <1>10, <1>11, <1>12, <1>13,
     <1>14, <1>15, <1>16, <1>17 DEF Next, Worker

LEMMA AlwaysInv == Spec => []Inv
BY InvInit, InvNext, PTL DEF Spec

\* Every variable always has its type (AsyncGitPromptManager and its threads).
THEOREM TypeCorrect == Spec => []TypeOK
BY AlwaysInv, PTL DEF Inv

\* A status shown was computed for the prompt that shows it, where that prompt is,
\* however many workers of earlier prompts are still running (handle_worker_result).
THEOREM MarkerAlwaysBelongs == Spec => []MarkerBelongs
<1>1. Inv => MarkerBelongs
  BY DEF Inv, Owned, Own, MarkerBelongs
<1> QED BY <1>1, AlwaysInv, PTL

\* A prompt that left a placeholder has its result or a worker that brings it
\* (append_segment's test of worker_running_ and worker_request_id_).
THEOREM PlaceholderAlwaysServed == Spec => []PlaceholderServed
<1>1. Inv => PlaceholderServed
  BY DEF Inv, Served, Serving, PlaceholderServed
<1> QED BY <1>1, AlwaysInv, PTL

\* The announcement of a result that can fill the prompt was tried or is about to be, in
\* whatever order the time out, the result and the end of the rendering come
\* (notify_when_snapshot_ready_).
THEOREM NoticeAlwaysGiven == Spec => []NoticeGiven
<1>1. Inv => NoticeGiven
  BY DEF Inv, Noticed
<1> QED BY <1>1, AlwaysInv, PTL
=============================================================================
